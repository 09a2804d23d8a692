SPECIFICATION FairSpec
CONSTANTS
    Runs = {r1, r2}
    Sessions = {s1}
    Outsiders = {}
    Mutations = {}
    Issues = {i1, i2}
    Operations = {o1}
    Ttls = {1}
    Ceilings = {1}
    MaxUnits = 1
    U64Max = 9
    Lease = 1
    Horizon = 1
    MaxWait = 0
    MaxCrashes = 1
    Unreleasable = {i1}
PROPERTIES
    ExpiredIsReaped
