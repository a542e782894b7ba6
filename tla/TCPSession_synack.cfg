SPECIFICATION SessionSpec
CONSTANTS
    SeqMod = 16
    TimerMod = 8
    ByteMod = 2
    UIP_RTO = 1
    UIP_MAXRTX = 1
    UIP_MAXSYNRTX = 1
    InactivityTimeout = 3
    ConnectInterval = 0
    RtoValues = {1}
    RandomSeq = {6, 14}
    SendLengths = {1}
    Address <- Addresses
    LinkLocal <- LinkLocals
    LinkLocalAddress = "local"
    GlobalAddress = "global"
    HasGlobal = FALSE
    RemoteAddress = "server"
    RemotePort <- Http
    InitialPorts <- FirstPorts
    MaxLen = 1
    Packet = {}
    NoPacket = NoPacket
    ResponseLen = 2
    Window = 2
    Capacity = 2
    MaxConnections = 1
    EarlyBareAck = TRUE
    ClientIsn <- Isns
    ServerIsn <- PeerIsns
INVARIANT
    SynackedMeansSyn
