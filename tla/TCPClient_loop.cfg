SPECIFICATION LiveSpec
CONSTANTS
    SeqMod = 4
    TimerMod = 6
    ByteMod = 2
    UIP_RTO = 1
    UIP_MAXRTX = 2
    UIP_MAXSYNRTX = 1
    InactivityTimeout = 8
    ConnectInterval = 6
    RtoValues = {1, 2}
    RandomSeq = {3}
    SendLengths = {1}
    Address <- Addresses
    LinkLocal <- LinkLocals
    LinkLocalAddress = "local"
    GlobalAddress = "global"
    HasGlobal = TRUE
    RemoteAddress = "server"
    RemotePort <- Http
    InitialPorts <- FirstPorts
    MaxLen = 1
    Packet <- Packets
    NoPacket = NoPacket
    Seqs = {0, 1}
    Dports <- OnePort
    Lens = {0, 1}
    FlagSets <- MostFlags
INVARIANTS
    TypeOK
    OutstandingMatchesState
    SendIsSafe
    RetransmitBudget
PROPERTIES
    EndIsSignalled
    PeerLossIsNoticed
    DeadConnectionEnds
CHECK_DEADLOCK TRUE
