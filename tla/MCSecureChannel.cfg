SPECIFICATION FairSpec
CONSTANTS
    a = a
    b = b
    End = {a, b}
    Worker = {w}
    None = None
    Capacity = 1
    MAX_TEXT_CHARS = 1
    Script <- Mixed
    Closers = {a}
CHECK_DEADLOCK FALSE
INVARIANTS TypeOK UnopenedOnlyAfterLostWrite FittingTextDecodes
PROPERTIES ImplementsStream SendReturns TableReleased BothEndsLeave
