\* What is queued leaves the queue, and what is reported is settled.
CONSTANTS
    m1 = m1
    m2 = m2
    Item = {m1, m2}
    Deletable = {m1}
    NoItem = NoItem
    Task = {"consume", "drain"}
    Taxonomy = {"lares-work"}
    MaxRetries = 1
    MaxFaults = 1
    MaxEvents = 2
    BatchLimit = 2
SPECIFICATION FairSpec
PROPERTIES
    RetriesEnd
    ReportedIsSettled
