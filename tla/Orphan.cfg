\* No fault, one deleted mail: the other one is left pending.
CONSTANTS
    m1 = m1
    m2 = m2
    Item = {m1, m2}
    Deletable = {m1}
    NoItem = NoItem
    Task = {"consume", "drain"}
    Taxonomy = {"lares-work"}
    MaxRetries = 1
    MaxFaults = 0
    MaxEvents = 2
    BatchLimit = 1
SPECIFICATION FairSpec
PROPERTIES
    PendingIsRetried
