SPECIFICATION Spec
CONSTANTS
    Transfer = {t1}
    Session = {s1}
    Size <- OneChunk
    None = None
    CHUNK_SIZE = 2
    MAX_INCOMING_TRANSFERS = 1
    MaxFileSize = 0
CHECK_DEADLOCK FALSE
PROPERTIES DoneKeepsConnection
