SPECIFICATION Spec
CONSTANTS
    ByteMod = 6
    RX_BUF_END = 27
    TX_BUF_START = 30
    MemoryEnd = 33
    BufSize = 3
    Incoming <- EvenOddTooLarge
    Outgoing <- OneOfTwo
    NoFrame = NoFrame
INVARIANTS
    EconKept
    BanksAgree
    PointersAreRight
PROPERTY
    FramesIntact
