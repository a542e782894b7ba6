------------------------------ MODULE EtherSia ------------------------------
(***************************************************************************)
(* One board: its packet buffer, ICMPv6, neighbour discovery and host name *)
(* lookup, against any sequence of frames from an honest link.             *)
(*                                                                         *)
(* The sketch is that of examples/SNTPClient, which looks its server up    *)
(* and offers what arrives to a UDPSocket, with the TCPServer of           *)
(* examples/MiniHTTPServer after it and rejectPacket() at the end.         *)
(* A step is a call of sendFrame() or readFrame() with all that is done    *)
(* until the next one.                                                     *)
(***************************************************************************)
EXTENDS Naturals, Sequences

CONSTANTS
    Address,            \* IPv6 addresses
    Zero,               \* ::
    LinkLocalAddress,   \* ours
    LinkLocals,         \* fe80::/16
    AllNodes, AllRouters,
    SolicitedNode,      \* SolicitedNode[a]: solicited-node group of a
    Multicast,          \* ff00::/8
    Prefix,             \* what routers advertise
    AddressIn,          \* AddressIn[p]: prefix p with our interface identifier
    SubnetOf,           \* SubnetOf[a]: the first 64 bits
    MAC, NoMac, LocalMac, MulticastMac,
    GoogleDns,          \* googlePublicDnsAddress
    StaticAddress,      \* of a sketch that disables autoconfiguration
    LocalPort, RemotePort,  \* of the sketch's UDPSocket
    LookupPort, DnsPort,    \* of the socket in lookupHostname()
    HttpPort, Port,
    Host,               \* names the sketch looks up
    Id,                 \* request identifiers
    Answer,             \* what the DNS may answer for each
    MacOf,              \* who answers to, or forwards for, an address
    Traffic,            \* the frames that may arrive, other than DNS answers
    NoFrame,
    ROUTER_SOLICITATION_ATTEMPTS,
    NEIGHBOUR_SOLICITATION_ATTEMPTS,
    DNS_REQUEST_ATTEMPTS

Kind == {"NS", "NA", "RS", "RA", "Echo", "EchoReply", "Unreachable",
         "ParamProblem", "UDP", "TCP", "Other", "Invalid"}
Icmp == {"NS", "NA", "RS", "RA", "Echo", "EchoReply", "Unreachable",
         "ParamProblem"}

TcpFlags ==
    {"", "SYN", "FIN", "RST", "data", "SYN|ACK", "FIN|ACK", "page"}

\* An option of a neighbour discovery message: its length in units of 8 bytes,
\* which is how far the next one is, and what a reader of its type finds in it;
\* the prefix is Zero if its flags or its length forbid its use
OptionType == {"source", "target", "prefix", "dns", "other"}
Option == [type : OptionType, units : Nat, mac : MAC,
           prefix : Prefix \cup {Zero}, dns : Address]

(* One record for all protocols; "flags" are of TCP, "target" of NS, NA and *)
(* of the answer of a DNS reply, "options" are those found from the first   *)
(* on by their lengths, "id" is that of a DNS message.                      *)
Frame ==
    [kind : Kind, src : Address, srcMac : MAC, dst : Address, dstMac : MAC,
     sport : Port, dport : Port, flags : TcpFlags,
     target : Address, options : Seq(Option), id : Id \cup {0}]

\* What lookupHostname() keeps in locals, and what its requests ask
Lookup == [id : Id \cup {0}, host : Host, server : Address, mac : MAC]

Request == [id : Id, host : Host, server : Address, src : Address]

ASSUME EtherSiaAssumption ==
    /\ NoFrame \notin Frame /\ Traffic \subseteq Frame
    /\ {Zero, LinkLocalAddress, AllNodes, AllRouters, GoogleDns, StaticAddress} \subseteq Address
    /\ LinkLocalAddress \in LinkLocals /\ Zero \notin LinkLocals \cup Multicast
    /\ {NoMac, LocalMac, MulticastMac} \subseteq MAC
    /\ {LocalPort, RemotePort, LookupPort, DnsPort, HttpPort} \subseteq Port
    /\ SolicitedNode \in [Address -> Address] /\ MacOf \in [Address -> MAC]
    /\ AddressIn \in [Prefix -> Address \ {Zero}] /\ Zero \notin Prefix
    /\ Answer \in [Host -> SUBSET Address]
    /\ Host # {}
    /\ Id \subseteq Nat \ {0} /\ \A id \in Id : Id # {id}
    /\ ROUTER_SOLICITATION_ATTEMPTS \in Nat
    /\ NEIGHBOUR_SOLICITATION_ATTEMPTS \in Nat
    /\ DNS_REQUEST_ATTEMPTS \in Nat

VARIABLES
    autoConfigurationEnabled,
    globalAddress, routerMac, dnsServerAddress,
    buffer,         \* the packet buffer
    bufferContainsReceived,
    pc,             \* which loop or step of the sketch is executed
    listening,      \* within a loop: after the test of the timer
    due,            \* millis() has reached the time of the next solicitation
    count,          \* solicitations or requests of this loop
    target,         \* the argument of discoverNeighbour()
    forLookup,      \* whether it is called by lookupHostname()
    lookup,         \* the locals of lookupHostname(): its id, host and socket
    remoteAddress, remoteMac, needNewServer,    \* the sketch's socket
    sent,           \* the frame sent in the last step
    arrived,        \* history: the last frame that was read
    answers,        \* history: how often it has been answered
    asked           \* history: the DNS requests that may still be answered

config == <<globalAddress, routerMac, dnsServerAddress>>
bufferVars == <<buffer, bufferContainsReceived>>
loopVars == <<listening, due, count>>
callVars == <<target, forLookup, lookup>>
socket == <<remoteAddress, remoteMac, needNewServer>>
history == <<arrived, answers, asked>>
vars == <<autoConfigurationEnabled, config, bufferVars, pc, loopVars, callVars,
          socket, sent, history>>

-----------------------------------------------------------------------------
(* Addresses *)

\* isOurAddress(), as a test: note that :: is ours until there is a global one
IsUnicastOurs(a) == a \in {LinkLocalAddress, globalAddress}

isOurAddress(a) ==
    \/ IsUnicastOurs(a)
    \/ a \in {AllNodes, SolicitedNode[LinkLocalAddress],
              SolicitedNode[globalAddress]}

inOurSubnet(a) ==
    a \in LinkLocals \/ SubnetOf[a] = SubnetOf[globalAddress]

\* prepareSend(): source address for a destination
SourceFor(dst) ==
    IF dst \in LinkLocals \/ globalAddress = Zero THEN LinkLocalAddress
    ELSE globalAddress

\* Faulty variant: the source is chosen as for a new packet
ReplySource_AsForNew(f) == SourceFor(f.src)

\* prepareReply(): source address of the reply to a packet
ReplySource(f) ==
    IF f.dst = globalAddress /\ f.dst # LinkLocalAddress THEN globalAddress
    ELSE LinkLocalAddress

-----------------------------------------------------------------------------
(* Frames *)

Packet(kind, src, dst, dstMac) ==
    [kind |-> kind, src |-> src, srcMac |-> LocalMac, dst |-> dst,
     dstMac |-> dstMac, sport |-> LocalPort, dport |-> LocalPort, flags |-> "",
     target |-> Zero, options |-> <<>>, id |-> 0]

LinkAddressOption(type) ==
    [type |-> type, units |-> 1, mac |-> LocalMac, prefix |-> Zero, dns |-> Zero]

NeighbourSolicitation(t, src) ==
    [Packet("NS", src, SolicitedNode[t], MulticastMac) EXCEPT !.target = t]

RouterSolicitation ==
    [Packet("RS", LinkLocalAddress, AllRouters, MulticastMac)
       EXCEPT !.options = <<LinkAddressOption("source")>>]

\* A reply is made of the packet it answers: ports and what is not set stay
Reply(f, kind) ==
    [f EXCEPT !.kind = kind, !.src = ReplySource(f), !.srcMac = LocalMac,
              !.dst = f.src, !.dstMac = f.srcMac]

PortsSwapped(f) == [f EXCEPT !.sport = f.dport, !.dport = f.sport]

\* tcpSendRSTReply()
Reset(f) == [PortsSwapped(Reply(f, "TCP")) EXCEPT !.flags = "RST"]

Datagram(sport, to, toMac, dport) ==
    [Packet("UDP", SourceFor(to), to, toMac)
       EXCEPT !.sport = sport, !.dport = dport]

\* The answer of the DNS to a request that lookupHostname() has sent
DnsReply(request, answer) ==
    [Packet("UDP", request.server, request.src, LocalMac)
       EXCEPT !.srcMac = MacOf[request.server], !.sport = DnsPort,
              !.dport = LookupPort, !.target = answer, !.id = request.id]

\* What may be in the controller's receive buffer
Arriving ==
    Traffic \cup UNION {{DnsReply(q, a) : a \in Answer[q.host]} : q \in asked}

-----------------------------------------------------------------------------
(* send(), and the answers it is used for *)

Emit(f) == sent' = f /\ buffer' = f /\ bufferContainsReceived' = FALSE

\* A frame that answers nothing
Originate(f) == Emit(f) /\ UNCHANGED <<arrived, answers>>

\* A reply to the packet in the buffer
AnswerWith(f) == Emit(f) /\ answers' = answers + 1 /\ UNCHANGED arrived

Quiet == sent' = NoFrame /\ UNCHANGED <<bufferVars, arrived, answers>>

-----------------------------------------------------------------------------
(* receivePacket() *)

\* isValid() and checkEthernetAddresses()
Accepted(f) ==
    /\ f # NoFrame /\ f.kind # "Invalid"
    /\ f.dstMac \in {LocalMac, MulticastMac} /\ f.srcMac # LocalMac

\* icmp6ProcessPacket() returns true
Handled(f) == f.kind \in {"NS", "Echo", "RA"} /\ isOurAddress(f.dst)

\* receivePacket() returns a length
Returned(f) == Accepted(f) /\ ~Handled(f)

IsSolicited(f) == f.kind = "NS" /\ IsUnicastOurs(f.target)

\* icmp6NSReply(), icmp6EchoReply()
Advertisement(f) ==
    [Reply(f, "NA") EXCEPT !.options = <<LinkAddressOption("target")>>]

EchoReply(f) == Reply(f, "EchoReply")

\* An option of length 0 is found again when the next one is looked for: the
\* options behind it are not reached, and a loop that does not return on it
\* does not end
HasEmptyOption(f) == \E i \in DOMAIN f.options : f.options[i].units = 0

Reached(f, type) ==
    {i \in DOMAIN f.options :
        /\ f.options[i].type = type
        /\ \A j \in 1 .. i - 1 : f.options[j].units # 0}

IsFirst(i, places) == i \in places /\ \A j \in places : i <= j
IsLast(i, places) == i \in places /\ \A j \in places : j <= i

\* Faulty variant: each prefix is taken
UsesPrefix_Always == TRUE
\* icmp6ProcessPrefix(): only the first is used
UsesPrefix == globalAddress = Zero

Prefixed(f) == {i \in Reached(f, "prefix") : f.options[i].prefix # Zero}

\* icmp6ProcessRA(): option by option, a later one of a type instead of the
\* earlier one but for the prefix
ProcessRA(f) ==
    IF f.kind = "RA" /\ autoConfigurationEnabled
      THEN /\ IF Reached(f, "source") = {} THEN UNCHANGED routerMac
              ELSE \E i \in Reached(f, "source") :
                     IsLast(i, Reached(f, "source")) /\ routerMac' = f.options[i].mac
           /\ IF ~UsesPrefix \/ Prefixed(f) = {} THEN UNCHANGED globalAddress
              ELSE \E i \in Prefixed(f) :
                     /\ IsFirst(i, Prefixed(f))
                     /\ globalAddress' = AddressIn[f.options[i].prefix]
           /\ IF Reached(f, "dns") = {} THEN UNCHANGED dnsServerAddress
              ELSE \E i \in Reached(f, "dns") :
                     IsLast(i, Reached(f, "dns")) /\ dnsServerAddress' = f.options[i].dns
      ELSE UNCHANGED config

\* The loop of icmp6ProcessRA() does not end, nor then does receivePacket()
NeverReturns(f) ==
    /\ f.kind = "RA" /\ HasEmptyOption(f) /\ autoConfigurationEnabled
    /\ Accepted(f) /\ Handled(f)

\* readFrame() has nothing
ReceiveNothing ==
    /\ bufferContainsReceived' = FALSE /\ sent' = NoFrame
    /\ UNCHANGED <<config, buffer, arrived, answers>>

\* Faulty variant: the flag is not cleared for a frame that is not valid
Keep_Unchecked(f) ==
    /\ buffer' = f /\ bufferContainsReceived' = TRUE
    /\ sent' = NoFrame /\ answers' = 0
    /\ IF Accepted(f) /\ Handled(f) THEN ProcessRA(f) ELSE UNCHANGED config

\* A frame that is left in the buffer; it counts as received if it is valid
Keep(f) ==
    /\ buffer' = f /\ bufferContainsReceived' = Accepted(f)
    /\ sent' = NoFrame /\ answers' = 0
    /\ IF Accepted(f) /\ Handled(f) THEN ProcessRA(f) ELSE UNCHANGED config

\* A frame that icmp6ProcessPacket() replies to
ReplyAtOnce(f, reply) ==
    /\ Accepted(f) /\ Handled(f)
    /\ Emit(reply) /\ answers' = 1
    /\ UNCHANGED config

receivePacket(f) ==
    \/ f = NoFrame /\ ReceiveNothing
    \/ /\ f # NoFrame /\ ~NeverReturns(f) /\ arrived' = f
       /\ \/ IsSolicited(f) /\ ReplyAtOnce(f, Advertisement(f))
          \/ f.kind = "Echo" /\ ReplyAtOnce(f, EchoReply(f))
          \/ ~(Accepted(f) /\ Handled(f) /\ (IsSolicited(f) \/ f.kind = "Echo")) /\ Keep(f)

\* Where the sketch has called receivePacket()
Receiving ==
    \/ pc = "receive"
    \/ pc \in {"autoconfigure", "neighbour", "lookup"} /\ listening

ReceiveForEver ==
    /\ Receiving
    /\ \E f \in Arriving : NeverReturns(f) /\ arrived' = f /\ Keep(f)
    /\ pc' = "endless"
    /\ UNCHANGED <<autoConfigurationEnabled, loopVars, callVars, socket, asked>>

\* A round of a loop over the options that has come to one of length 0
Spin == pc = "endless" /\ UNCHANGED vars

-----------------------------------------------------------------------------
(* begin() and icmp6AutoConfigure() *)

\* The timer is due at once and nothing has been sent
StartLoop == listening' = FALSE /\ due' = TRUE /\ count' = 0

LeaveLoop == listening' = FALSE /\ due' = FALSE /\ count' = 0

\* Solicitation for the address itself, which nobody is waited for to answer
begin ==
    /\ pc = "begin"
    /\ Originate(NeighbourSolicitation(LinkLocalAddress, Zero))
    /\ IF autoConfigurationEnabled /\ globalAddress = Zero
         THEN pc' = "autoconfigure" /\ StartLoop
         ELSE pc' = "receive" /\ UNCHANGED loopVars
    /\ UNCHANGED <<autoConfigurationEnabled, config, callVars, socket, asked>>

\* Faulty variant: attempts are not counted
Solicited_Uncounted == listening' = TRUE /\ due' = FALSE /\ UNCHANGED count

\* What a loop does after it has sent: the timer is set and the attempt counted
Solicited == listening' = TRUE /\ due' = FALSE /\ count' = count + 1

SolicitRouter ==
    /\ pc = "autoconfigure" /\ ~listening /\ due
    /\ Originate(RouterSolicitation)
    /\ Solicited
    /\ UNCHANGED <<autoConfigurationEnabled, config, pc, callVars, socket, asked>>

\* In any loop: the timer is not due
NotYet ==
    /\ pc \in {"autoconfigure", "neighbour", "lookup"} /\ ~listening /\ ~due
    /\ listening' = TRUE
    /\ Quiet
    /\ UNCHANGED <<autoConfigurationEnabled, config, pc, due, count, callVars,
                   socket, asked>>

AwaitRouter ==
    /\ pc = "autoconfigure" /\ listening
    /\ \E f \in Arriving \cup {NoFrame} :
         /\ receivePacket(f)
         /\ IF count > ROUTER_SOLICITATION_ATTEMPTS \/ globalAddress' # Zero
              THEN pc' = "receive" /\ LeaveLoop
              ELSE listening' = FALSE /\ UNCHANGED <<pc, due, count>>
    /\ UNCHANGED <<autoConfigurationEnabled, callVars, socket, asked>>

-----------------------------------------------------------------------------
(* discoverNeighbour() *)

\* setRemoteAddress() of lookupHostname()'s socket, or of the sketch's, when
\* the address is in our subnet
Discover(address, isForLookup) ==
    /\ pc' = "neighbour" /\ StartLoop
    /\ target' = address /\ forLookup' = isForLookup

SolicitNeighbour ==
    /\ pc = "neighbour" /\ ~listening /\ due
    /\ Originate(NeighbourSolicitation(target,
           IF target \in LinkLocals THEN LinkLocalAddress ELSE globalAddress))
    /\ Solicited
    /\ UNCHANGED <<autoConfigurationEnabled, config, pc, callVars, socket, asked>>

\* Faulty variant: any advertisement is taken
IsAdvertised_AnyTarget(f) == Returned(f) /\ f.kind = "NA"

IsAdvertised(f) == Returned(f) /\ f.kind = "NA" /\ f.target = target

\* icmp6ProcessNA(): the first option of that type, or else the sender
AdvertisesMac(f, mac) ==
    IF Reached(f, "target") = {} THEN mac = f.srcMac
    ELSE \E i \in Reached(f, "target") :
           IsFirst(i, Reached(f, "target")) /\ mac = f.options[i].mac

\* Its loop does not end
SearchesForEver(f) == Reached(f, "target") = {} /\ HasEmptyOption(f)

\* To lookupHostname(), with what has been found
ReturnToLookup(mac) ==
    /\ forLookup
    /\ lookup' = [lookup EXCEPT !.mac = mac]
    /\ pc' = "lookup" /\ StartLoop
    /\ UNCHANGED <<target, forLookup, socket>>

\* To the sketch: setRemoteAddress() returns true
ReturnToSketch(mac) ==
    /\ ~forLookup
    /\ remoteMac' = mac /\ needNewServer' = FALSE
    /\ pc' = "serve" /\ LeaveLoop
    /\ UNCHANGED <<callVars, remoteAddress>>

\* To the sketch: setRemoteAddress() returns false, and loop() starts again
FailToSketch ==
    /\ ~forLookup
    /\ pc' = "receive" /\ LeaveLoop
    /\ UNCHANGED <<callVars, socket>>

AwaitNeighbour ==
    /\ pc = "neighbour" /\ listening
    /\ \E f \in Arriving \cup {NoFrame} :
         /\ receivePacket(f)
         /\ \/ /\ f # NoFrame /\ IsAdvertised(f) /\ ~SearchesForEver(f)
               /\ \E mac \in MAC :
                    AdvertisesMac(f, mac) /\ (ReturnToLookup(mac) \/ ReturnToSketch(mac))
            \/ /\ f # NoFrame /\ IsAdvertised(f) /\ SearchesForEver(f)
               /\ pc' = "endless"
               /\ UNCHANGED <<loopVars, callVars, socket>>
            \/ /\ ~(f # NoFrame /\ IsAdvertised(f))
               /\ count < NEIGHBOUR_SOLICITATION_ATTEMPTS
               /\ listening' = FALSE
               /\ UNCHANGED <<pc, due, count, callVars, socket>>
            \/ /\ ~(f # NoFrame /\ IsAdvertised(f))
               /\ count >= NEIGHBOUR_SOLICITATION_ATTEMPTS
               /\ ReturnToLookup(NoMac) \/ FailToSketch
    /\ UNCHANGED <<autoConfigurationEnabled, asked>>

-----------------------------------------------------------------------------
(* lookupHostname() *)

\* The sketch calls setRemoteAddress(host, port). The identifier is random;
\* it differs from the last, and answers to older requests with the same one are
\* taken not to come any more.
StartLookup ==
    /\ pc = "resolve"
    /\ \E host \in Host, id \in Id \ {lookup.id} :
         /\ lookup' = [id |-> id, host |-> host, server |-> dnsServerAddress,
                       mac |-> IF inOurSubnet(dnsServerAddress) THEN NoMac
                               ELSE routerMac]
         /\ asked' = {q \in asked : q.id # id}
    /\ IF inOurSubnet(dnsServerAddress)
         THEN Discover(dnsServerAddress, TRUE)
         ELSE pc' = "lookup" /\ StartLoop /\ UNCHANGED <<target, forLookup>>
    /\ Quiet
    /\ UNCHANGED <<autoConfigurationEnabled, config, socket>>

SendRequest ==
    /\ pc = "lookup" /\ ~listening /\ due
    /\ Originate([Datagram(LookupPort, lookup.server, lookup.mac, DnsPort)
                    EXCEPT !.id = lookup.id])
    /\ asked' = asked \cup
         {[id |-> lookup.id, host |-> lookup.host, server |-> lookup.server,
           src |-> SourceFor(lookup.server)]}
    /\ Solicited
    /\ UNCHANGED <<autoConfigurationEnabled, config, pc, callVars, socket>>

\* UDPSocket::havePacket(), of a socket with a remote address
havePacket(f, localPort, remotePort, remote) ==
    /\ f.kind = "UDP" /\ f.dport = localPort /\ f.sport = remotePort
    /\ isOurAddress(f.dst) /\ f.src = remote

\* Faulty variant: dnsProcessReply() takes any answer
IsAnswer_AnyId(f) ==
    /\ Accepted(f) /\ havePacket(f, LookupPort, DnsPort, lookup.server)
    /\ f.target # Zero

IsAnswer(f) ==
    /\ Accepted(f) /\ havePacket(f, LookupPort, DnsPort, lookup.server)
    /\ f.id = lookup.id /\ f.target # Zero

AwaitAnswer ==
    /\ pc = "lookup" /\ listening
    /\ \E f \in Arriving \cup {NoFrame} :
         /\ receivePacket(f)
         /\ \/ /\ f # NoFrame /\ IsAnswer(f)
               /\ remoteAddress' = f.target
               /\ IF inOurSubnet(f.target)
                    THEN /\ Discover(f.target, FALSE)
                         /\ UNCHANGED <<remoteMac, needNewServer>>
                    ELSE /\ remoteMac' = routerMac /\ needNewServer' = FALSE
                         /\ pc' = "serve" /\ LeaveLoop
                         /\ UNCHANGED <<target, forLookup>>
            \/ /\ ~(f # NoFrame /\ IsAnswer(f)) /\ count <= DNS_REQUEST_ATTEMPTS
               /\ listening' = FALSE
               /\ UNCHANGED <<pc, due, count, target, forLookup, socket>>
            \/ /\ ~(f # NoFrame /\ IsAnswer(f)) /\ count > DNS_REQUEST_ATTEMPTS
               /\ pc' = "receive" /\ LeaveLoop
               /\ UNCHANGED <<target, forLookup, socket>>
    /\ UNCHANGED <<autoConfigurationEnabled, lookup, asked>>

-----------------------------------------------------------------------------
(* loop() of the sketch *)

ReceiveInLoop ==
    /\ pc = "receive"
    /\ \E f \in Arriving \cup {NoFrame} : receivePacket(f)
    /\ pc' = IF needNewServer THEN "resolve" ELSE "serve"
    /\ UNCHANGED <<autoConfigurationEnabled, loopVars, callVars, socket, asked>>

\* The part of loop() from here on does not call receivePacket()
Step(from, to) ==
    /\ pc = from /\ pc' = to
    /\ UNCHANGED <<autoConfigurationEnabled, config, loopVars, callVars, asked>>

ForUdp ==
    /\ bufferContainsReceived
    /\ havePacket(buffer, LocalPort, RemotePort, remoteAddress)

\* A reply of the time server
ServeUdp ==
    /\ Step("serve", "request")
    /\ ForUdp
    /\ Quiet /\ UNCHANGED socket

\* "Kiss-o'-Death!": another server is looked up in the next round
ServeKissOfDeath ==
    /\ Step("serve", "receive")
    /\ ForUdp
    /\ needNewServer' = TRUE
    /\ Quiet /\ UNCHANGED <<remoteAddress, remoteMac>>

\* TCPServer::havePacket() is reached, with a packet for its port
ForHttp ==
    /\ ~ForUdp
    /\ bufferContainsReceived /\ buffer.kind = "TCP" /\ buffer.dport = HttpPort

\* TCPServer::sendInternal(), with the packet's flags
HttpReply(flags) == [PortsSwapped(Reply(buffer, "TCP")) EXCEPT !.flags = flags]

\* FIN and SYN are answered by havePacket(), which then returns false
ServeHttpFlags ==
    /\ Step("serve", "reject")
    /\ ForHttp
    /\ \/ buffer.flags = "FIN" /\ AnswerWith(HttpReply("FIN|ACK"))
       \/ buffer.flags = "SYN" /\ AnswerWith(HttpReply("SYN|ACK"))
    /\ UNCHANGED socket

ServeHttpPage ==
    /\ Step("serve", "request")
    /\ ForHttp /\ buffer.flags = "data"
    /\ AnswerWith(HttpReply("page"))
    /\ UNCHANGED socket

\* Neither socket has a packet
ServeNothing ==
    /\ Step("serve", "reject")
    /\ ~ForUdp /\ ~(ForHttp /\ buffer.flags \in {"FIN", "SYN", "data"})
    /\ Quiet /\ UNCHANGED socket

\* Faulty variants of the early returns of rejectPacket()
IsRejected_AnsweredToo ==
    buffer # NoFrame /\ buffer.kind \notin Icmp /\ buffer.dst \notin Multicast
IsRejected_IcmpToo == bufferContainsReceived /\ buffer.dst \notin Multicast

IsRejected ==
    /\ bufferContainsReceived
    /\ buffer.dst \notin Multicast
    /\ buffer.kind \notin Icmp

Rejection ==
    IF buffer.kind = "TCP" THEN Reset(buffer)
    ELSE IF buffer.kind = "UDP" THEN Reply(buffer, "Unreachable")
    ELSE Reply(buffer, "ParamProblem")

rejectPacket ==
    /\ Step("reject", "request")
    /\ IF IsRejected THEN AnswerWith(Rejection) ELSE Quiet
    /\ UNCHANGED socket

\* The time of the next request to the time server may have come
SendOrNot ==
    /\ Step("request", "receive")
    /\ \/ Originate(Datagram(LocalPort, remoteAddress, remoteMac, RemotePort))
       \/ Quiet
    /\ UNCHANGED socket

\* millis() reaches the time of the next solicitation
TimePasses ==
    /\ pc \in {"autoconfigure", "neighbour", "lookup"} /\ ~due
    /\ due' = TRUE /\ sent' = NoFrame
    /\ UNCHANGED <<autoConfigurationEnabled, config, bufferVars, pc, listening,
                   count, callVars, socket, history>>

-----------------------------------------------------------------------------
Init ==
    /\ \/ autoConfigurationEnabled = TRUE /\ globalAddress = Zero
       \/ autoConfigurationEnabled = FALSE /\ globalAddress = StaticAddress
    /\ routerMac = NoMac /\ dnsServerAddress = GoogleDns
    /\ buffer = NoFrame /\ bufferContainsReceived = FALSE
    /\ pc = "begin" /\ listening = FALSE /\ due = FALSE /\ count = 0
    /\ target = Zero /\ forLookup = FALSE
    /\ lookup = [id |-> 0, host |-> CHOOSE h \in Host : TRUE,
                 server |-> Zero, mac |-> NoMac]
    /\ remoteAddress = Zero /\ remoteMac = NoMac /\ needNewServer = TRUE
    /\ sent = NoFrame /\ arrived = NoFrame /\ answers = 0 /\ asked = {}

Receive ==
    AwaitRouter \/ AwaitNeighbour \/ AwaitAnswer \/ ReceiveInLoop \/ ReceiveForEver

Solicit == SolicitRouter \/ SolicitNeighbour \/ SendRequest \/ NotYet

Serve ==
    \/ ServeUdp \/ ServeKissOfDeath \/ ServeHttpFlags \/ ServeHttpPage
    \/ ServeNothing \/ rejectPacket \/ SendOrNot

\* What the board does when no loop over options holds it
Turn == begin \/ Receive \/ Solicit \/ StartLookup \/ Serve

Next == Turn \/ TimePasses \/ Spin

Spec == Init /\ [][Next]_vars

\* The board runs and its clock advances
LiveSpec == Spec /\ WF_vars(Turn) /\ WF_vars(TimePasses)

-----------------------------------------------------------------------------
(* Properties *)

\* Each variable holds what its C type allows, and what counts as received is a
\* valid packet for us. EtherSia.h:373-393, EtherSia.cpp:116-121.
CoreTypeOK ==
    /\ autoConfigurationEnabled \in BOOLEAN /\ globalAddress \in Address
    /\ routerMac \in MAC /\ dnsServerAddress \in Address
    /\ buffer \in Frame \cup {NoFrame} /\ bufferContainsReceived \in BOOLEAN
    /\ bufferContainsReceived => Accepted(buffer)
    /\ sent \in Frame \cup {NoFrame} /\ arrived \in Frame \cup {NoFrame}
    /\ answers \in Nat

CallTypeOK ==
    /\ pc \in {"begin", "autoconfigure", "neighbour", "lookup", "receive",
               "resolve", "serve", "reject", "request", "endless"}
    /\ listening \in BOOLEAN /\ due \in BOOLEAN /\ count \in Nat
    /\ target \in Address /\ forLookup \in BOOLEAN
    /\ lookup \in Lookup
    /\ pc = "lookup" => lookup.id \in Id
    /\ pc = "neighbour" /\ forLookup => lookup.id \in Id
    /\ remoteAddress \in Address /\ remoteMac \in MAC
    /\ needNewServer \in BOOLEAN
    /\ asked \subseteq Request

TypeOK == CoreTypeOK /\ CallTypeOK

\* A packet is answered once, although receivePacket(), each socket and
\* rejectPacket() look at it: whoever answers says so in the flag, and the
\* others ask. EtherSia.cpp:144-145, UDPSocket.cpp:16, TCPServer.cpp:13.
AnsweredOnce == answers <= 1

\* Replies are made in place: the one that leaves goes to where the packet came
\* from, from the address and the port it was sent to. EtherSia.cpp:183-203,
\* TCPServer.cpp:77-78.
AnswersGoBack ==
    sent # NoFrame /\ sent.kind \in {"NA", "EchoReply", "TCP", "Unreachable", "ParamProblem"} =>
        /\ arrived # NoFrame
        /\ sent.dst = arrived.src /\ sent.dstMac = arrived.srcMac
        /\ IsUnicastOurs(arrived.dst) => sent.src = arrived.dst
        /\ sent.kind = "TCP" =>
             sent.sport = arrived.dport /\ sent.dport = arrived.sport

IsRejection(f) ==
    \/ f.kind \in {"Unreachable", "ParamProblem"}
    \/ f.kind = "TCP" /\ f.flags = "RST"

\* No rejection answers ICMPv6, a group, or a frame that is not for the board,
\* whatever has been sent or received since begin(). EtherSia.cpp:139-164.
RejectsOnlyRequests ==
    sent # NoFrame /\ IsRejection(sent) =>
        /\ arrived # NoFrame /\ Accepted(arrived)
        /\ arrived.kind \notin Icmp /\ arrived.dst \notin Multicast

\* Link addresses of routers, and the one before any of them is known
RouterMacs ==
    {NoMac} \cup
    UNION {{f.options[i].mac : i \in Reached(f, "source")} :
              f \in {g \in Traffic : g.kind = "RA"}}

\* What setRemoteAddress() has found is an address of the host asked for last,
\* although answers to earlier requests come late. dns.cpp:91-94.
RemoteIsHost ==
    ~needNewServer => remoteAddress \in Answer[lookup.host] \ {Zero}

\* and frames to it go to its own MAC address if it is a neighbour, or else to
\* a router's; as do those to the DNS server, whose discovery may have failed.
\* Socket.cpp:55-65, icmp6.cpp:186-188.
MacIsNextHops ==
    /\ ~needNewServer =>
         IF target = remoteAddress /\ ~forLookup
           THEN remoteMac = MacOf[remoteAddress]
           ELSE remoteMac \in RouterMacs
    /\ pc = "lookup" => lookup.mac \in {MacOf[lookup.server]} \cup RouterMacs

\* Routers advertise again and again, and there may be several: the board
\* keeps the address it has, and one that disabled autoconfiguration
\* everything. EtherSia.h:72-74, icmp6.cpp:132-136.
ConfigurationIsStable ==
    [][/\ globalAddress # Zero => globalAddress' = globalAddress
       /\ ~autoConfigurationEnabled => UNCHANGED config]_vars

\* The loops that wait for an answer end, whatever arrives in the meantime, but
\* for a frame with an option of length 0: until then nothing else on the board
\* is done. icmp6.cpp:252, 286, dns.cpp:151.
CallsReturn ==
    pc \in {"autoconfigure", "neighbour", "lookup"} ~>
        \/ pc \in {"receive", "serve"}
        \/ pc = "endless" /\ HasEmptyOption(arrived)

-----------------------------------------------------------------------------
(* What the documentation says, and the code does not do *)

\* EtherSia.h:230, "@return The length of the packet, or 0 if no packet was
\* received": a call returns, whatever arrives. The loops over options at
\* icmp6.cpp:166 and 204 do not get past one of length 0.
CallsAlwaysReturn ==
    pc \in {"autoconfigure", "neighbour", "lookup"} ~> pc \in {"receive", "serve"}
=============================================================================
