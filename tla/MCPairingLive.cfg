SPECIFICATION FairSpec
CONSTANTS
    Device = {a, b}
    Session = {s1}
    None = None
    PairedBefore <- Strangers
    MAX_CONNECTIONS = 1
    MAX_TRUSTED = 2
    Budget <- OneRequest
CHECK_DEADLOCK FALSE
PROPERTIES UnpairedDoesNotLinger ShutdownFreesEntry
