\* Safety of the service: two mails, every kind of fault, twice.
CONSTANTS
    m1 = m1
    m2 = m2
    Item = {m1, m2}
    Deletable = {m1, m2}
    NoItem = NoItem
    Task = {"consume", "drain"}
    Taxonomy = {"lares-work"}
    MaxRetries = 1
    MaxFaults = 2
    MaxEvents = 2
    BatchLimit = 2
SYMMETRY Symmetry
SPECIFICATION Spec
INVARIANTS
    TypeOK
    NoDoubleProcessing
    QueueAgrees
    AttemptsAreCounted
    VerdictAgrees
    OutageIsHarmless
    AttemptsBounded
PROPERTIES
    KeepsLedger
