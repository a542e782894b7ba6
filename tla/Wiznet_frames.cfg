SPECIFICATION Spec
CONSTANTS
    Chips = {"W5100", "W5500"}
    ByteMod = 4
    PtrMod = 16
    BufferLength = 8
    BufSize = 2
    Incoming <- ShortLongTooLong
    Outgoing <- OneOfSix
    NoFrame = NoFrame
INVARIANT
    SizeIsReal
PROPERTIES
    FramesIntact
    CallsReturn
CHECK_DEADLOCK TRUE
