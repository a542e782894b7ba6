SPECIFICATION Spec
CONSTANTS
    ByteMod = 4
    AddressLen = 2
    LengthMod = 8
    Packets <- SmallPackets
    GroupLists <- ZeroOrNot
    Macs <- FewMacs
    Subnets <- TwoSubnets
    MacTexts <- MostlyMacs
    Hosts <- SmallHosts
    Answers <- FewAnswers
    RequestTexts <- SmallRequests
    Patterns <- SmallPatterns
    PrintedTexts <- SmallTexts
    PayloadSize = 4
    MaxRoundTrip = 31
INVARIANTS
    ChecksumIsAccepted
    AddressesAreRead
    SolicitationsReach
    AnswerIsFound
    
    PrintedIsSent
    EstimatesAreReal
CHECK_DEADLOCK TRUE
