SPECIFICATION FairSpec
CONSTANTS
    Mutations = {m1}
    Subjects = {s1}
    Conditions = {c1}
    MaxEntries = 1
    MaxMishaps = 1
    Faults = {"ack_torn", "delay"}
PROPERTIES
    EveryEntryAcknowledged
CHECK_DEADLOCK FALSE
