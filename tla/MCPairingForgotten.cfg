SPECIFICATION Spec
CONSTANTS
    Device = {a, b}
    Session = {s1}
    None = None
    PairedBefore <- Acquainted
    MAX_CONNECTIONS = 1
    MAX_TRUSTED = 2
    Budget <- TextAndAdmin
SYMMETRY Symmetry
CHECK_DEADLOCK FALSE
PROPERTIES TextOnlyFromTrustedKey
