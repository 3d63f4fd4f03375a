SPECIFICATION Spec
CONSTANTS
    Device = {a, b}
    Session = {s1, s2}
    None = None
    PairedBefore <- Strangers
    MAX_CONNECTIONS = 2
    MAX_TRUSTED = 2
    Budget <- FirstContact
SYMMETRY Symmetry
CHECK_DEADLOCK FALSE
INVARIANTS TypeOK ConnsOwned MutualApproval ApprovalNotLost AckNotRefused
PROPERTIES CodeOfThisOrLostSession
