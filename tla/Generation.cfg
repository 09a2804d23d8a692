SPECIFICATION FairSpec
CONSTANTS
    Brokers = {b1, b2}
    Sessions = {s1}
    Mutations = {m1, m2}
    Issues = {i1, i2}
    Operations = {o1}
    MaxUnits = 1
    U64Max = 20
    Ttl = 1
    Ceilings = {1, 2}
    Lease = 1
    MaxMishaps = 1
    MaxActs = 3
INVARIANTS
    TypeOK
    OneIssuePerMutation
    EveryIssueAccounted
PROPERTIES
    KeepsLedger
    CreatedIsRecorded
