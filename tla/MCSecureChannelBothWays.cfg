SPECIFICATION Spec
CONSTANTS
    a = a
    b = b
    End = {a, b}
    Worker = {w}
    None = None
    Capacity = 1
    MAX_TEXT_CHARS = 1
    Script <- Files
    Closers = {}
CHECK_DEADLOCK FALSE
INVARIANT TwoSendersNeverDeadlock
