SPECIFICATION Spec
CONSTANTS
    Transfer = {t1}
    Session = {s1, s2}
    Size <- TwoChunks
    None = None
    CHUNK_SIZE = 2
    MAX_INCOMING_TRANSFERS = 1
    MaxFileSize = 3
SYMMETRY Symmetry
CHECK_DEADLOCK FALSE
INVARIANTS TypeOK PartFilesTracked WrittenInOrder SavedIsWhole
PROPERTIES ImplementsReceipt
