SPECIFICATION FairSpec
CONSTANTS
    Mutations = {m1, m2}
    Subjects = {s1}
    Conditions = {c1}
    MaxEntries = 2
    MaxMishaps = 4
    Faults = {"entry_unsynced", "ack_unsynced", "persist", "delay"}
INVARIANTS
    EnqueuedOnce
PROPERTIES
    EveryEntryAcknowledged
