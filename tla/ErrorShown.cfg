\* Akonadi failing through the last attempt and the flip to lares-error.
CONSTANTS
    m1 = m1
    m2 = m2
    Item = {m1}
    Deletable = {}
    NoItem = NoItem
    Task = {"consume", "drain"}
    Taxonomy = {"lares-work"}
    MaxRetries = 1
    MaxFaults = 2
    MaxEvents = 1
    BatchLimit = 1
SPECIFICATION Spec
INVARIANTS
    ErrorIsShown
