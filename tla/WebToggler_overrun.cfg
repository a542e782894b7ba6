SPECIFICATION Spec
CONSTANTS
    CHANNEL_COUNT = 4
    ETHERSIA_MAX_PACKET_SIZE = 600
    DebounceCount = 1
    IgnoreCount = 2
    SeqMod = 16
    RandomSeq = {5}
    Window = 2
    Connections = {a}
    Requests <- IndexOnly
    Capacity = 2
INVARIANT PagesFit
CHECK_DEADLOCK TRUE
