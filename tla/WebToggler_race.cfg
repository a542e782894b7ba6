SPECIFICATION Spec
CONSTANTS
    CHANNEL_COUNT = 1
    ETHERSIA_MAX_PACKET_SIZE = 600
    DebounceCount = 1
    IgnoreCount = 2
    SeqMod = 16
    RandomSeq = {5, 14, 15}
    Window = 2
    Connections = {a}
    Requests <- EveryKind
    Capacity = 2
PROPERTY TogglesFlip
CHECK_DEADLOCK TRUE
