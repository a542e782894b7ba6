SPECIFICATION Spec
CONSTANTS
    CHANNEL_COUNT = 1
    ETHERSIA_MAX_PACKET_SIZE = 522
    DebounceCount = 1
    IgnoreCount = 2
    SeqMod = 16
    RandomSeq = {5, 14, 15}
    Window = 2
    Connections = {a}
    Requests <- EveryKind
    Capacity = 2
INVARIANTS
    TypeOK
    AnswersAreTrue
    ResetOnlyAtWrap
PROPERTIES
    TogglesAreDebounced
CHECK_DEADLOCK TRUE
