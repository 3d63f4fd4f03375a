SPECIFICATION FairSpec
CONSTANTS
    Transfer = {t1}
    Session = {s1, s2}
    Size <- Empty
    None = None
    CHUNK_SIZE = 2
    MAX_INCOMING_TRANSFERS = 1
    MaxFileSize = 3
CHECK_DEADLOCK FALSE
PROPERTIES SendingEnds LostConnectionClears
