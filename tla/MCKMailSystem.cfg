\* The service beside the commands: one mail, two commands, one fault, and
\* retries enough to walk the whole backoff schedule.
CONSTANTS
    m1 = m1
    m2 = m2
    Item = {m1}
    Deletable = {m1}
    NoItem = NoItem
    Task = {"consume", "drain", "retag"}
    Taxonomy = {"lares-work"}
    MaxRetries = 4
    MaxFaults = 1
    MaxEvents = 1
    BatchLimit = 1
    MaxCommands = 2
SPECIFICATION SystemSpec
INVARIANTS
    SystemTypeOK
    RetagAlone
    QueueAgreesUndisturbed
    RowsForAll
    ShownIsRecorded
PROPERTIES
    SettledStays
    BackoffGrows
