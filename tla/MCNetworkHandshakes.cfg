SPECIFICATION Spec
CONSTANTS
    Device = {d1, d2}
    Addr = {x, y}
    Thread = {t1, t2}
    None = None
    MAX_CONNECTIONS = 1
    MAX_PEERS = 1
    PEER_TTL = 1
    HANDSHAKES_PER_MINUTE = 2
    MINUTE = 2
    MAX_SOURCES = 1
SYMMETRY Symmetry
INVARIANT HandshakesPerMinute
