SPECIFICATION Spec
CONSTANTS
    Runs = {r1}
    Sessions = {s1}
    Outsiders = {x}
    Mutations = {}
    Issues = {i1}
    Operations = {}
    Ttls = {1}
    Ceilings = {1}
    MaxUnits = 1
    U64Max = 9
    Lease = 1
    Horizon = 2
    MaxWait = 0
    MaxCrashes = 1
    Unreleasable = {}
PROPERTIES
    ReleasesOwnClaimOnly
