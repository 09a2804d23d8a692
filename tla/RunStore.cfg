SPECIFICATION Spec
CONSTANTS
    Runs = {r1}
    Sessions = {s1}
    Outsiders = {}
    Mutations = {m1, m2}
    Issues = {i1, i2}
    Operations = {o1, o2}
    Ttls = {1}
    Ceilings = {1, 2}
    MaxUnits = 2
    U64Max = 8
    Lease = 1
    Horizon = 2
    MaxWait = 1
    MaxCrashes = 1
    Unreleasable = {}
SYMMETRY Symmetry
INVARIANTS
    TypeOK
    WithinBudget
    ReapableIsComplete
    FailedResumeKeepsLease
    JournalledWasReleased
PROPERTIES
    ConfirmedStaysConfirmed
    RevisionCountsWrites
    StoredAnswerStands
    ReleasesOnlyWhenDue
    DisposedAfterCleanup
