SPECIFICATION LiveSpec
CONSTANTS
    BlockMod = 5
    TFTP_RETRIES = 1
    MaxSessions = 2
    Client <- Clients
    Contents <- ServedFile
    Block <- Blocks
    NoPacket = NoPacket
    Writes = {1}
    NoTransfer = NoTransfer
    Capacity = 3
    Offered <- OfferedFiles
    FileLen = 3
INVARIANTS
    InStep
PROPERTIES
    CarriesOutTransfer
    ServerReturns
CHECK_DEADLOCK FALSE
