\* The notify helper exits and nothing else ever goes wrong.
CONSTANTS
    m1 = m1
    m2 = m2
    Item = {m1}
    Deletable = {}
    NoItem = NoItem
    Task = {"consume", "drain"}
    Taxonomy = {"lares-work"}
    MaxRetries = 1
    MaxFaults = 1
    MaxEvents = 1
    BatchLimit = 1
SPECIFICATION FairSpec
PROPERTIES
    NotifyIsRestarted
