SPECIFICATION LiveSpec
CONSTANTS
    Address <- Addresses
    Zero = "::"
    LinkLocalAddress = "me"
    LinkLocals <- LinkLocalSet
    AllNodes = "all"
    AllRouters = "routers"
    SolicitedNode <- GroupOf
    Multicast <- Groups
    Prefix <- Prefixes
    AddressIn <- OurAddressIn
    SubnetOf <- Subnets
    MAC <- Macs
    NoMac = "none"
    LocalMac = "my"
    MulticastMac = "multicast"
    GoogleDns = "google"
    StaticAddress = "P1::me"
    LocalPort = "local"
    RemotePort = "ntp"
    LookupPort = "lookup"
    DnsPort = "dns"
    HttpPort = "http"
    Port <- Ports
    Host <- Hosts
    Id = {1, 2}
    Answer <- Answers
    MacOf <- Owners
    Traffic <- Frames
    NoFrame = NoFrame
    ROUTER_SOLICITATION_ATTEMPTS = 1
    NEIGHBOUR_SOLICITATION_ATTEMPTS = 2
    DNS_REQUEST_ATTEMPTS = 1
PROPERTIES
    CallsAlwaysReturn
CHECK_DEADLOCK TRUE
