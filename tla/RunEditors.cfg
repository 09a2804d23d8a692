SPECIFICATION EditorSpec
CONSTANTS
    Editors = {e1, e2}
    Runs = {r1}
    Sessions = {s1, s2}
    Outsiders = {}
    Mutations = {m1}
    Issues = {i1}
    Operations = {o1, o2}
    Ttls = {1}
    Ceilings = {1, 2}
    MaxUnits = 1
    U64Max = 6
    Lease = 1
    Horizon = 1
    MaxWait = 0
    MaxCrashes = 0
    MaxBreaks = 1
    Unreleasable = {}
SYMMETRY Symmetry
INVARIANTS
    SessionSurvivesResume
PROPERTIES
    DisposedIsFinal
    ImplementsStore
    ResumesWhatWasObserved
