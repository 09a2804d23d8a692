SPECIFICATION Spec
CONSTANTS
    MaxRequests = 2
    MaxLosses = 1
    MaxPending = 3
    Actions = {"Park", "Interrupt", "Disposal"}
    Faults = {"stuck", "ambiguous", "cleanup"}
    Events = {"deadline", "exit", "controller"}
    Guarded = FALSE
    Monitored = FALSE
CHECK_DEADLOCK FALSE
INVARIANTS
    TypeOK
    EvidenceMatchesState
    KnownIsDurable
    RecordedOnce
    FinishedIsRecorded
    NeverRefused
PROPERTIES
    KeepsEvidence
