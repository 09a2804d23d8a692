SPECIFICATION Spec
CONSTANTS
    MaxRequests = 2
    MaxLosses = 1
    MaxPending = 4
    Actions = {"Park", "Resume", "Disposal"}
    Faults = {"guard", "exited"}
    Events = {"deadline", "exit", "conformance", "key", "halfopen"}
    Guarded = TRUE
    Monitored = TRUE
CHECK_DEADLOCK FALSE
INVARIANTS
    LegalChain
    GateNeedsDurability
PROPERTIES
    ThawNeedsDurability
    TerminalIsFinal
