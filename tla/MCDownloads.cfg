SPECIFICATION Spec
CONSTANTS
    Transfer = {t1, t2}
    Thread = {v, w}
    None = None
    Foreign = Foreign
    LIMIT = 2
CHECK_DEADLOCK FALSE
PROPERTIES NeverOverwrites
