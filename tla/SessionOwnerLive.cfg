SPECIFICATION FairSpec
CONSTANTS
    MaxRequests = 1
    MaxLosses = 2
    MaxPending = 3
    Actions = {"Park", "Interrupt"}
    Faults = {}
    Events = {"exit", "controller"}
    Guarded = FALSE
    Monitored = FALSE
CHECK_DEADLOCK FALSE
PROPERTIES
    TerminalFinishes
    ReconnectDrains
    LossSettles
