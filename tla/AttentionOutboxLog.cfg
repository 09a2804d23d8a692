SPECIFICATION Spec
CONSTANTS
    Mutations = {m1, m2, m3, m4}
    Subjects = {s1}
    Conditions = {c1, c2}
    MaxEntries = 3
    MaxMishaps = 3
    Faults = {"entry_torn", "ack_torn", "ack_unsynced", "persist", "delay", "power"}
SYMMETRY Symmetry
INVARIANTS
    AckedIsDurable
    ShowsOnlyUnresolved
PROPERTIES
    KeepsLog
    NeverResurrected
CHECK_DEADLOCK FALSE
