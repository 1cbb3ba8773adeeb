\* A fetch job that fails once on a mail in the retry queue.
CONSTANTS
    m1 = m1
    m2 = m2
    Item = {m1}
    Deletable = {m1}
    NoItem = NoItem
    Task = {"consume", "drain"}
    Taxonomy = {"lares-work"}
    MaxRetries = 1
    MaxFaults = 1
    MaxEvents = 1
    BatchLimit = 1
SPECIFICATION Spec
INVARIANTS
    DeletedIsDeleted
