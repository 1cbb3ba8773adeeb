\* A user who tags a mail while it is classified.
CONSTANTS
    Client = {"consume", "retag"}
    Helper = {"service", "cli"}
    HelperOf <- TwoHelpers
    Item = {"m1"}
    LaresTag = {"pending", "work"}
    UserTag = {"todo"}
    Wants = {{"work"}}
    IdSpan = 3
    MaxSpent = 1
SPECIFICATION Spec
PROPERTIES
    UserTagsArePreserved
