\* Two clients of one helper, one mail, set_tags with no tag and with two.
CONSTANTS
    Client = {"consume", "drain"}
    Helper = {"service"}
    HelperOf <- OneHelper
    Item = {"m1"}
    LaresTag = {"pending", "work"}
    UserTag = {"todo"}
    Wants = {{}, {"pending", "work"}}
    IdSpan = 3
    MaxSpent = 1
SPECIFICATION FairSpec
INVARIANTS
    TypeOK
    FramingInStep
PROPERTIES
    KeepsContract
    EveryCallReturns
