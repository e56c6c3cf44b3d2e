SPECIFICATION FairSpec
CONSTANTS
    Requests = {r1}
    ControlStore = TRUE
PROPERTIES
    ShutdownIsBounded
