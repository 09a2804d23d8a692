SPECIFICATION Spec
CONSTANTS
    MaxRequests = 2
    MaxLosses = 0
    MaxPending = 4
    Actions = {"Park", "Resume"}
    Faults = {}
    Events = {"conformance"}
    Guarded = FALSE
    Monitored = TRUE
CHECK_DEADLOCK FALSE
INVARIANTS
    SuspendedStaysFrozen
