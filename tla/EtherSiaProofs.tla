--------------------------- MODULE EtherSiaProofs ---------------------------
(***************************************************************************)
(* Theorems about EtherSia, for every set of frames that may arrive: types *)
(* are kept, a packet is answered at most once, and answers go back to     *)
(* where it came from.                                                     *)
(***************************************************************************)
EXTENDS EtherSia, TLAPS

\* Every packet that is built from nothing is a frame
LEMMA PacketIsFrame ==
    ASSUME NEW kind \in Kind, NEW src \in Address, NEW dst \in Address,
           NEW dstMac \in MAC
    PROVE  Packet(kind, src, dst, dstMac) \in Frame
<1>1. <<>> \in Seq(Option)
  OBVIOUS
<1>2. LocalMac \in MAC /\ Zero \in Address /\ LocalPort \in Port
  BY EtherSiaAssumption
<1> QED
  BY <1>1, <1>2 DEF Packet, Frame, TcpFlags

\* The option that the board's own messages have
LEMMA LinkOptionIsOption ==
    ASSUME NEW type \in OptionType
    PROVE  <<LinkAddressOption(type)>> \in Seq(Option)
  BY EtherSiaAssumption DEF LinkAddressOption, Option

\* A reply is a frame from the board to the sender of what it answers
LEMMA ReplyIsFrame ==
    ASSUME NEW f \in Frame, NEW kind \in Kind, globalAddress \in Address
    PROVE  /\ Reply(f, kind) \in Frame
           /\ Reply(f, kind).kind = kind
           /\ Reply(f, kind).flags = f.flags
           /\ Reply(f, kind).dst = f.src
           /\ Reply(f, kind).dstMac = f.srcMac
           /\ IsUnicastOurs(f.dst) => Reply(f, kind).src = f.dst
  BY EtherSiaAssumption DEF Reply, Frame, ReplySource, IsUnicastOurs

\* What may arrive is a frame, DNS answers included
LEMMA ArrivingAreFrames ==
    ASSUME CallTypeOK
    PROVE  Arriving \subseteq Frame
<1>1. ASSUME NEW q \in asked, NEW a \in Answer[q.host]
      PROVE  DnsReply(q, a) \in Frame
  <2>1. /\ q.server \in Address /\ q.src \in Address /\ q.host \in Host
        /\ q.id \in Id
    BY DEF CallTypeOK, Request
  <2>2. a \in Address
    BY <2>1, EtherSiaAssumption
  <2>3. Packet("UDP", q.server, q.src, LocalMac) \in Frame
    BY <2>1, PacketIsFrame, EtherSiaAssumption DEF Kind
  <2> QED
    BY <2>1, <2>2, <2>3, EtherSiaAssumption DEF DnsReply, Frame
<1> QED
  BY <1>1, EtherSiaAssumption DEF Arriving

-----------------------------------------------------------------------------
(* The inductive invariant *)

\* A packet in the buffer that counts as received has not been answered ...
Unanswered == bufferContainsReceived => answers = 0

\* ... and is the one that arrived last
BufferIsArrived ==
    bufferContainsReceived =>
        arrived # NoFrame /\ buffer = arrived /\ Accepted(arrived)

AnswerInv ==
    /\ AnsweredOnce /\ Unanswered /\ BufferIsArrived
    /\ AnswersGoBack /\ RejectsOnlyRequests

CoreInv == CoreTypeOK /\ AnswerInv

IInv == CoreInv /\ CallTypeOK

\* What a step may do to the core, in this module's lemmas
Configured == UNCHANGED <<autoConfigurationEnabled, config>>

\* A step that sends nothing leaves the core as it is
LEMMA QuietKeeps ==
    ASSUME CoreInv, Configured, Quiet
    PROVE  CoreInv'
  BY DEF CoreInv, CoreTypeOK, AnswerInv, Configured, Quiet, config, bufferVars,
         AnsweredOnce, Unanswered, BufferIsArrived, AnswersGoBack,
         RejectsOnlyRequests, Accepted

\* A packet of the board's own is not an answer
LEMMA OriginateKeeps ==
    ASSUME CoreInv, Configured, NEW STATE f, f \in Frame, Originate(f),
           f.kind \in {"NS", "RS", "UDP"}
    PROVE  CoreInv'
  BY EtherSiaAssumption
  DEF CoreInv, CoreTypeOK, AnswerInv, Configured, Originate, Emit, config,
      AnsweredOnce, Unanswered, BufferIsArrived, AnswersGoBack,
      RejectsOnlyRequests, IsRejection

\* A frame with the ports exchanged goes back to the port it came from
LEMMA SwappedPorts ==
    ASSUME NEW f \in Frame, NEW flags \in TcpFlags, globalAddress \in Address
    PROVE  LET r == [PortsSwapped(Reply(f, "TCP")) EXCEPT !.flags = flags] IN
           /\ r \in Frame
           /\ r.kind = "TCP" /\ r.flags = flags
           /\ r.dst = f.src /\ r.dstMac = f.srcMac
           /\ IsUnicastOurs(f.dst) => r.src = f.dst
           /\ r.sport = f.dport /\ r.dport = f.sport
<1>1. /\ Reply(f, "TCP") \in Frame
      /\ Reply(f, "TCP").kind = "TCP"
      /\ Reply(f, "TCP").dst = f.src
      /\ Reply(f, "TCP").dstMac = f.srcMac
      /\ IsUnicastOurs(f.dst) => Reply(f, "TCP").src = f.dst
  BY ReplyIsFrame DEF Kind
<1>2. Reply(f, "TCP").sport = f.sport /\ Reply(f, "TCP").dport = f.dport
  BY DEF Reply, Frame
<1> QED
  BY <1>1, <1>2 DEF PortsSwapped, Frame

\* An answer to the packet in the buffer
LEMMA AnswerKeeps ==
    ASSUME CoreInv, Configured, bufferContainsReceived,
           NEW STATE r, r \in Frame, AnswerWith(r),
           r.dst = buffer.src, r.dstMac = buffer.srcMac,
           IsUnicastOurs(buffer.dst) => r.src = buffer.dst,
           r.kind = "TCP" => r.sport = buffer.dport /\ r.dport = buffer.sport,
           IsRejection(r) => IsRejected
    PROVE  CoreInv'
<1>1. /\ buffer = arrived /\ arrived # NoFrame /\ Accepted(arrived)
      /\ answers = 0
  BY DEF CoreInv, AnswerInv, Unanswered, BufferIsArrived
<1>2. CoreTypeOK'
  <2>1. answers' \in Nat
    BY <1>1 DEF AnswerWith
  <2>2. /\ sent' \in Frame \cup {NoFrame} /\ buffer' \in Frame \cup {NoFrame}
        /\ bufferContainsReceived' = FALSE
        /\ arrived' \in Frame \cup {NoFrame}
    BY DEF CoreInv, CoreTypeOK, AnswerWith, Emit
  <2> QED
    BY <2>1, <2>2 DEF CoreInv, CoreTypeOK, Configured, config
<1>3. AnsweredOnce' /\ Unanswered' /\ BufferIsArrived'
  BY <1>1 DEF AnsweredOnce, Unanswered, BufferIsArrived, AnswerWith, Emit
<1>4. AnswersGoBack'
  BY <1>1 DEF AnswersGoBack, AnswerWith, Emit, IsUnicastOurs, Configured, config
<1>5. RejectsOnlyRequests'
  BY <1>1 DEF RejectsOnlyRequests, AnswerWith, Emit, IsRejected, Accepted
<1> QED
  BY <1>2, <1>3, <1>4, <1>5 DEF CoreInv, AnswerInv

-----------------------------------------------------------------------------
(* receivePacket() *)

\* What is read of an option has its type
LEMMA OptionsAreOptions ==
    ASSUME NEW f \in Frame, NEW i \in DOMAIN f.options
    PROVE  /\ f.options[i].mac \in MAC /\ f.options[i].dns \in Address
           /\ f.options[i].prefix \in Prefix \cup {Zero}
<1>1. f.options \in Seq(Option)
  BY DEF Frame
<1>2. f.options[i] \in Option
  BY <1>1
<1> QED
  BY <1>2 DEF Option

\* icmp6ProcessRA() sets addresses to addresses, if anything
LEMMA ProcessRAKeepsTypes ==
    ASSUME CoreTypeOK, NEW f \in Frame, ProcessRA(f)
    PROVE  /\ globalAddress' \in Address
           /\ routerMac' \in MAC /\ dnsServerAddress' \in Address
<1>1. \A i \in DOMAIN f.options :
        /\ f.options[i].mac \in MAC /\ f.options[i].dns \in Address
        /\ f.options[i].prefix \in Prefix \cup {Zero}
  BY OptionsAreOptions
<1>2. \A i \in Prefixed(f) : AddressIn[f.options[i].prefix] \in Address
  BY <1>1, EtherSiaAssumption DEF Prefixed, Reached
<1> QED
  BY <1>1, <1>2 DEF CoreTypeOK, ProcessRA, Reached, config

\* A frame that is kept has not been answered
LEMMA KeepKeeps ==
    ASSUME CoreInv, UNCHANGED autoConfigurationEnabled,
           NEW f \in Frame, arrived' = f, Keep(f)
    PROVE  CoreInv'
<1>1. f # NoFrame
  BY EtherSiaAssumption
<1>2. /\ globalAddress' \in Address
      /\ routerMac' \in MAC /\ dnsServerAddress' \in Address
  BY ProcessRAKeepsTypes DEF CoreInv, CoreTypeOK, Keep, config
<1>3. /\ buffer' = f /\ sent' = NoFrame /\ answers' = 0
      /\ bufferContainsReceived' = Accepted(f)
  BY DEF Keep
<1>4. bufferContainsReceived' \in BOOLEAN
  BY <1>3 DEF Accepted
<1>5. CoreTypeOK'
  BY <1>1, <1>2, <1>3, <1>4 DEF CoreInv, CoreTypeOK
<1>6. AnswerInv'
  BY <1>1, <1>3
  DEF AnswerInv, AnsweredOnce, Unanswered, BufferIsArrived, AnswersGoBack,
      RejectsOnlyRequests, Accepted
<1> QED
  BY <1>5, <1>6 DEF CoreInv

\* A frame that is replied to at once is answered once, and no longer received
LEMMA ReplyAtOnceKeeps ==
    ASSUME CoreInv, UNCHANGED autoConfigurationEnabled,
           NEW f \in Frame, arrived' = f,
           NEW STATE r, r \in Frame, ReplyAtOnce(f, r),
           r.kind \in {"NA", "EchoReply"},
           r.dst = f.src, r.dstMac = f.srcMac,
           IsUnicastOurs(f.dst) => r.src = f.dst
    PROVE  CoreInv'
<1>1. f # NoFrame /\ Accepted(f)
  BY EtherSiaAssumption DEF ReplyAtOnce
<1>2. /\ sent' = r /\ buffer' = r /\ bufferContainsReceived' = FALSE
      /\ answers' = 1 /\ UNCHANGED config
  BY DEF ReplyAtOnce, Emit
<1>3. CoreTypeOK'
  BY <1>2 DEF CoreInv, CoreTypeOK, config
<1>4. AnsweredOnce' /\ Unanswered' /\ BufferIsArrived'
  BY <1>2 DEF AnsweredOnce, Unanswered, BufferIsArrived
<1>5. AnswersGoBack'
  BY <1>1, <1>2 DEF AnswersGoBack, IsUnicastOurs, config
<1>6. RejectsOnlyRequests'
  BY <1>2 DEF RejectsOnlyRequests, IsRejection
<1> QED
  BY <1>3, <1>4, <1>5, <1>6 DEF CoreInv, AnswerInv

\* Whatever arrives, receivePacket() keeps the invariant of the core
LEMMA ReceiveKeeps ==
    ASSUME IInv, UNCHANGED autoConfigurationEnabled,
           NEW f \in Arriving \cup {NoFrame}, receivePacket(f)
    PROVE  CoreInv'
<1>1. CASE f = NoFrame /\ ReceiveNothing
  BY <1>1 DEF IInv, CoreInv, CoreTypeOK, AnswerInv, ReceiveNothing, config,
      AnsweredOnce, Unanswered, BufferIsArrived, AnswersGoBack,
      RejectsOnlyRequests
<1>2. CASE f # NoFrame /\ arrived' = f
  <2> f \in Frame
    BY <1>2, ArrivingAreFrames DEF IInv
  <2> CoreInv /\ globalAddress \in Address
    BY DEF IInv, CoreInv, CoreTypeOK
  <2>1. CASE IsSolicited(f) /\ ReplyAtOnce(f, Advertisement(f))
    <3>1. /\ Reply(f, "NA") \in Frame /\ Reply(f, "NA").kind = "NA"
          /\ Reply(f, "NA").dst = f.src /\ Reply(f, "NA").dstMac = f.srcMac
          /\ IsUnicastOurs(f.dst) => Reply(f, "NA").src = f.dst
      BY ReplyIsFrame DEF Kind
    <3> DEFINE r == Advertisement(f)
    <3>2. /\ r \in Frame /\ r.kind = "NA"
          /\ r.dst = f.src /\ r.dstMac = f.srcMac
          /\ IsUnicastOurs(f.dst) => r.src = f.dst
      BY <3>1, LinkOptionIsOption DEF Advertisement, Frame, OptionType
    <3>3. ReplyAtOnce(f, r)
      BY <2>1
    <3> HIDE DEF r
    <3> QED
      BY <1>2, <3>2, <3>3, ReplyAtOnceKeeps
  <2>2. CASE f.kind = "Echo" /\ ReplyAtOnce(f, EchoReply(f))
    <3> DEFINE r == EchoReply(f)
    <3>1. /\ r \in Frame /\ r.kind = "EchoReply"
          /\ r.dst = f.src /\ r.dstMac = f.srcMac
          /\ IsUnicastOurs(f.dst) => r.src = f.dst
      BY ReplyIsFrame DEF Kind, EchoReply
    <3>2. ReplyAtOnce(f, r)
      BY <2>2
    <3> HIDE DEF r
    <3> QED
      BY <1>2, <3>1, <3>2, ReplyAtOnceKeeps
  <2>3. CASE Keep(f)
    BY <1>2, <2>3, KeepKeeps
  <2> QED
    BY <1>2, <2>1, <2>2, <2>3 DEF receivePacket
<1> QED
  BY <1>1, <1>2 DEF receivePacket

-----------------------------------------------------------------------------
(* Steps *)

\* After power-up nothing has been sent, received or asked
LEMMA InitInv == Init => IInv
<1> SUFFICES ASSUME Init PROVE IInv
  OBVIOUS
<1>1. CoreTypeOK
  BY EtherSiaAssumption DEF Init, CoreTypeOK
<1>2. AnswerInv
  BY DEF Init, AnswerInv, AnsweredOnce, Unanswered, BufferIsArrived,
         AnswersGoBack, RejectsOnlyRequests
<1>3. (CHOOSE h \in Host : TRUE) \in Host
  BY EtherSiaAssumption
<1>4. CallTypeOK
  BY <1>3, EtherSiaAssumption DEF Init, CallTypeOK, Lookup
<1> QED
  BY <1>1, <1>2, <1>4 DEF IInv, CoreInv

\* A source address is an address
LEMMA SourceIsAddress ==
    ASSUME CoreTypeOK, NEW a \in Address
    PROVE  SourceFor(a) \in Address
  BY EtherSiaAssumption DEF SourceFor, CoreTypeOK

\* What is sent to the DNS and to the time server is a frame
LEMMA DatagramIsFrame ==
    ASSUME CoreTypeOK, NEW a \in Address, NEW mac \in MAC,
           NEW sport \in Port, NEW dport \in Port
    PROVE  /\ Datagram(sport, a, mac, dport) \in Frame
           /\ Datagram(sport, a, mac, dport).kind = "UDP"
<1>1. Packet("UDP", SourceFor(a), a, mac) \in Frame
  BY SourceIsAddress, PacketIsFrame DEF Kind
<1>2. Packet("UDP", SourceFor(a), a, mac).kind = "UDP"
  BY DEF Packet
<1> QED
  BY <1>1, <1>2 DEF Datagram, Frame

\* What is sent to find a neighbour is a frame
LEMMA SolicitationIsFrame ==
    ASSUME NEW t \in Address, NEW src \in Address
    PROVE  /\ NeighbourSolicitation(t, src) \in Frame
           /\ NeighbourSolicitation(t, src).kind = "NS"
<1>1. SolicitedNode[t] \in Address /\ MulticastMac \in MAC
  BY EtherSiaAssumption
<1>2. Packet("NS", src, SolicitedNode[t], MulticastMac) \in Frame
  BY <1>1, PacketIsFrame DEF Kind
<1>3. Packet("NS", src, SolicitedNode[t], MulticastMac).kind = "NS"
  BY DEF Packet
<1> QED
  BY <1>2, <1>3 DEF NeighbourSolicitation, Frame

\* The provers see no change in a set of constants once it is expanded
LEMMA SetsAreConstant == Lookup' = Lookup /\ Request' = Request
  BY DEF Lookup, Request

\* The conjuncts of CallTypeOK for flags, and the others: no prover has both
FlagTypes ==
    /\ listening \in BOOLEAN /\ due \in BOOLEAN
    /\ forLookup \in BOOLEAN /\ needNewServer \in BOOLEAN

ValueTypes ==
    /\ pc \in {"begin", "autoconfigure", "neighbour", "lookup", "receive",
               "resolve", "serve", "reject", "request", "endless"}
    /\ count \in Nat /\ target \in Address /\ lookup \in Lookup
    /\ pc = "lookup" => lookup.id \in Id
    /\ pc = "neighbour" /\ forLookup => lookup.id \in Id
    /\ remoteAddress \in Address /\ remoteMac \in MAC
    /\ asked \subseteq Request

LEMMA TwoKinds == CallTypeOK <=> FlagTypes /\ ValueTypes
  BY Zenon DEF CallTypeOK, FlagTypes, ValueTypes

LEMMA TwoKindsNext == FlagTypes' /\ ValueTypes' => CallTypeOK'
  BY Zenon DEF CallTypeOK, FlagTypes, ValueTypes

LEMMA BeginKeeps == IInv /\ begin => CoreInv'
<1> SUFFICES ASSUME IInv, begin PROVE CoreInv'
  OBVIOUS
<1> DEFINE r == NeighbourSolicitation(LinkLocalAddress, Zero)
<1>1. r \in Frame /\ r.kind = "NS"
  BY SolicitationIsFrame, EtherSiaAssumption
<1>2. Originate(r) /\ Configured
  BY DEF begin, Configured
<1> HIDE DEF r
<1> QED
  BY <1>1, <1>2, OriginateKeeps DEF IInv

LEMMA SolicitRouterKeeps == IInv /\ SolicitRouter => CoreInv'
<1> SUFFICES ASSUME IInv, SolicitRouter PROVE CoreInv'
  OBVIOUS
<1> DEFINE p == Packet("RS", LinkLocalAddress, AllRouters, MulticastMac)
           r == RouterSolicitation
<1>1. p \in Frame /\ p.kind = "RS"
  BY PacketIsFrame, EtherSiaAssumption DEF Kind, Packet
<1>2. r \in Frame /\ r.kind = "RS"
  BY <1>1, LinkOptionIsOption DEF RouterSolicitation, Frame, OptionType
<1>3. Originate(r) /\ Configured
  BY DEF SolicitRouter, Configured
<1> HIDE DEF r
<1> QED
  BY <1>2, <1>3, OriginateKeeps DEF IInv

LEMMA SolicitNeighbourKeeps == IInv /\ SolicitNeighbour => CoreInv'
<1> SUFFICES ASSUME IInv, SolicitNeighbour PROVE CoreInv'
  OBVIOUS
<1> DEFINE src == IF target \in LinkLocals THEN LinkLocalAddress
                  ELSE globalAddress
           r == NeighbourSolicitation(target, src)
<1>1. target \in Address /\ src \in Address
  BY EtherSiaAssumption DEF IInv, CoreInv, CoreTypeOK, CallTypeOK
<1>2. Originate(r) /\ Configured
  BY DEF SolicitNeighbour, Configured
<1> HIDE DEF src
<1>3. r \in Frame /\ r.kind = "NS"
  BY <1>1, SolicitationIsFrame
<1> HIDE DEF r
<1> QED
  BY <1>2, <1>3, OriginateKeeps DEF IInv

LEMMA SendRequestKeeps == IInv /\ SendRequest => CoreInv'
<1> SUFFICES ASSUME IInv, SendRequest PROVE CoreInv'
  OBVIOUS
<1> DEFINE d == Datagram(LookupPort, lookup.server, lookup.mac, DnsPort)
           r == [d EXCEPT !.id = lookup.id]
<1>1. /\ lookup.server \in Address /\ lookup.mac \in MAC
      /\ lookup.id \in Id
  BY DEF IInv, CallTypeOK, SendRequest, Lookup
<1>2. CoreTypeOK
  BY DEF IInv, CoreInv
<1>3. d \in Frame /\ d.kind = "UDP"
  BY <1>1, <1>2, DatagramIsFrame, EtherSiaAssumption
<1>4. Originate(r) /\ Configured
  BY DEF SendRequest, Configured
<1> HIDE DEF d
<1>5. r \in Frame /\ r.kind = "UDP"
  BY <1>1, <1>3 DEF Frame
<1> HIDE DEF r
<1> QED
  BY <1>4, <1>5, OriginateKeeps DEF IInv

LEMMA SendOrNotKeeps == IInv /\ SendOrNot => CoreInv'
<1> SUFFICES ASSUME IInv, SendOrNot PROVE CoreInv'
  OBVIOUS
<1> DEFINE r == Datagram(LocalPort, remoteAddress, remoteMac, RemotePort)
<1>1. /\ remoteAddress \in Address /\ remoteMac \in MAC /\ CoreTypeOK
      /\ LocalPort \in Port /\ RemotePort \in Port
  BY EtherSiaAssumption DEF IInv, CoreInv, CallTypeOK
<1>2. r \in Frame /\ r.kind = "UDP"
  BY <1>1, DatagramIsFrame
<1>3. Configured /\ (Originate(r) \/ Quiet)
  BY DEF SendOrNot, Step, Configured
<1> HIDE DEF r
<1> QED
  BY <1>2, <1>3, OriginateKeeps, QuietKeeps DEF IInv

\* TCPServer's replies are no resets
LEMMA HttpReplyKeeps ==
    ASSUME IInv, Configured, ForHttp,
           NEW flags \in {"FIN|ACK", "SYN|ACK", "page"},
           AnswerWith(HttpReply(flags))
    PROVE  CoreInv'
<1> DEFINE r == HttpReply(flags)
<1>1. /\ CoreInv /\ bufferContainsReceived /\ buffer \in Frame
      /\ globalAddress \in Address
  BY DEF IInv, CoreInv, CoreTypeOK, ForHttp, Accepted
<1>2. /\ r \in Frame /\ r.kind = "TCP" /\ r.flags = flags
      /\ r.dst = buffer.src /\ r.dstMac = buffer.srcMac
      /\ IsUnicastOurs(buffer.dst) => r.src = buffer.dst
      /\ r.sport = buffer.dport /\ r.dport = buffer.sport
  <2>1. flags \in TcpFlags
    BY DEF TcpFlags
  <2> QED
    BY <1>1, <2>1, SwappedPorts DEF HttpReply
<1>3. ~IsRejection(r)
  BY <1>2 DEF IsRejection
<1>4. AnswerWith(r)
  OBVIOUS
<1> HIDE DEF r
<1> QED
  BY <1>1, <1>2, <1>3, <1>4, AnswerKeeps

\* What rejectPacket() does not return from early is answered once
LEMMA RejectKeeps == IInv /\ rejectPacket => CoreInv'
<1> SUFFICES ASSUME IInv, rejectPacket PROVE CoreInv'
  OBVIOUS
<1>1. CoreInv /\ Configured
  BY DEF IInv, rejectPacket, Step, Configured
<1>2. CASE Quiet
  BY <1>1, <1>2, QuietKeeps
<1>3. CASE IsRejected /\ AnswerWith(Rejection)
  <2> DEFINE r == Rejection
  <2>1. /\ bufferContainsReceived /\ buffer \in Frame
        /\ globalAddress \in Address
    BY <1>1, <1>3 DEF CoreInv, CoreTypeOK, IsRejected, Accepted
  <2>2. /\ r \in Frame
        /\ r.dst = buffer.src /\ r.dstMac = buffer.srcMac
        /\ IsUnicastOurs(buffer.dst) => r.src = buffer.dst
        /\ r.kind = "TCP" => r.sport = buffer.dport /\ r.dport = buffer.sport
    <3>1. CASE buffer.kind = "TCP"
      <4>1. "RST" \in TcpFlags
        BY DEF TcpFlags
      <4>2. r = [PortsSwapped(Reply(buffer, "TCP")) EXCEPT !.flags = "RST"]
        BY <3>1 DEF Rejection, Reset
      <4> HIDE DEF r
      <4> QED
        BY <2>1, <4>1, <4>2, SwappedPorts
    <3>2. CASE buffer.kind = "UDP"
      BY <2>1, <3>2, ReplyIsFrame DEF Rejection, Kind
    <3>3. CASE buffer.kind \notin {"TCP", "UDP"}
      BY <2>1, <3>3, ReplyIsFrame DEF Rejection, Kind
    <3> QED
      BY <3>1, <3>2, <3>3
  <2>3. AnswerWith(r)
    BY <1>3
  <2> HIDE DEF r
  <2> QED
    BY <1>1, <1>3, <2>1, <2>2, <2>3, AnswerKeeps
<1> QED
  BY <1>2, <1>3 DEF rejectPacket

\* The core keeps its part of the invariant in every step
LEMMA NextCore == IInv /\ [Next]_vars => CoreInv'
<1> SUFFICES ASSUME IInv, [Next]_vars PROVE CoreInv'
  OBVIOUS
<1>0. CoreInv
  BY DEF IInv
<1>1. CASE begin
  BY <1>1, BeginKeeps
<1>2. CASE Receive
  <2>1. UNCHANGED autoConfigurationEnabled
    BY <1>2 DEF Receive, AwaitRouter, AwaitNeighbour, AwaitAnswer, ReceiveInLoop,
       ReceiveForEver
  <2>2. CASE ReceiveForEver
    <3>1. PICK f \in Arriving : arrived' = f /\ Keep(f)
      BY <2>2 DEF ReceiveForEver
    <3>2. f \in Frame
      BY ArrivingAreFrames DEF IInv
    <3> QED
      BY <1>0, <2>1, <3>1, <3>2, KeepKeeps
  <2>3. CASE ~ReceiveForEver
    <3>1. PICK f \in Arriving \cup {NoFrame} : receivePacket(f)
      BY <1>2, <2>3 DEF Receive, AwaitRouter, AwaitNeighbour, AwaitAnswer, ReceiveInLoop
    <3> QED
      BY <2>1, <3>1, ReceiveKeeps
  <2> QED
    BY <2>2, <2>3
<1>3. CASE Solicit
  <2>1. CASE NotYet
    BY <1>0, <2>1, QuietKeeps DEF NotYet, Configured
  <2> QED
    BY <1>3, <2>1, SolicitRouterKeeps, SolicitNeighbourKeeps, SendRequestKeeps
    DEF Solicit
<1>4. CASE StartLookup
  BY <1>0, <1>4, QuietKeeps DEF StartLookup, Configured
<1>5. CASE Serve
  <2>1. CASE ServeUdp \/ ServeKissOfDeath \/ ServeNothing
    BY <1>0, <2>1, QuietKeeps
    DEF ServeUdp, ServeKissOfDeath, ServeNothing, Step, Configured
  <2>2. CASE ServeHttpFlags \/ ServeHttpPage
    BY <2>2, HttpReplyKeeps
    DEF ServeHttpFlags, ServeHttpPage, Step, Configured
  <2> QED
    BY <1>5, <2>1, <2>2, RejectKeeps, SendOrNotKeeps DEF Serve
<1>6. CASE TimePasses
  <2>1. /\ sent' = NoFrame
        /\ UNCHANGED <<autoConfigurationEnabled, config, bufferVars, history>>
    BY <1>6 DEF TimePasses
  <2>2. Quiet /\ Configured
    BY <2>1 DEF Quiet, Configured, history
  <2> QED
    BY <1>0, <2>2, QuietKeeps
<1>7. CASE Spin \/ UNCHANGED vars
  BY <1>0, <1>7
  DEF Spin, CoreInv, CoreTypeOK, AnswerInv, vars, config, bufferVars, history,
      AnsweredOnce, Unanswered, BufferIsArrived, AnswersGoBack,
      RejectsOnlyRequests, Accepted, IsUnicastOurs
<1> QED
  BY <1>1, <1>2, <1>3, <1>4, <1>5, <1>6, <1>7 DEF Next, Turn

\* The flags stay flags ...
LEMMA NextFlags == FlagTypes /\ [Next]_vars => FlagTypes'
<1> SUFFICES ASSUME FlagTypes, [Next]_vars PROVE FlagTypes'
  OBVIOUS
<1> USE DEF FlagTypes
<1>1. CASE begin
  BY <1>1 DEF begin, StartLoop, loopVars, callVars, socket
<1>2. CASE Receive
  <2>1. CASE AwaitRouter
    BY <2>1 DEF AwaitRouter, LeaveLoop, callVars, socket
  <2>2. CASE AwaitNeighbour
    BY <2>2 DEF AwaitNeighbour, ReturnToLookup, ReturnToSketch, FailToSketch,
                StartLoop, LeaveLoop, loopVars, callVars, socket
  <2>3. CASE AwaitAnswer
    BY <2>3 DEF AwaitAnswer, Discover, StartLoop, LeaveLoop, socket
  <2>4. CASE ReceiveInLoop
    BY <2>4 DEF ReceiveInLoop, loopVars, callVars, socket
  <2>5. CASE ReceiveForEver
    BY <2>5 DEF ReceiveForEver, loopVars, callVars, socket
  <2> QED
    BY <1>2, <2>1, <2>2, <2>3, <2>4, <2>5 DEF Receive
<1>3. CASE Solicit
  BY <1>3 DEF Solicit, SolicitRouter, SolicitNeighbour, SendRequest, NotYet,
              Solicited, callVars, socket
<1>4. CASE StartLookup
  BY <1>4 DEF StartLookup, Discover, StartLoop, socket
<1>5. CASE Serve
  BY <1>5 DEF Serve, ServeUdp, ServeKissOfDeath, ServeHttpFlags, ServeHttpPage,
              ServeNothing, rejectPacket, SendOrNot, Step, loopVars, callVars,
              socket
<1>6. CASE TimePasses
  BY <1>6 DEF TimePasses, callVars, socket
<1>7. CASE Spin \/ UNCHANGED vars
  BY <1>7 DEF Spin, vars, loopVars, callVars, socket
<1> QED
  BY <1>1, <1>2, <1>3, <1>4, <1>5, <1>6, <1>7 DEF Next, Turn

\* ... addresses addresses, and a lookup that runs has an identifier
LEMMA NextValues == IInv /\ [Next]_vars => ValueTypes'
<1> SUFFICES ASSUME IInv, [Next]_vars PROVE ValueTypes'
  OBVIOUS
<1>0. /\ ValueTypes /\ CoreTypeOK /\ Arriving \subseteq Frame
      /\ \A a \in Address : SourceFor(a) \in Address
  BY TwoKinds, ArrivingAreFrames, SourceIsAddress DEF IInv, CoreInv
<1>1. CASE begin
  BY <1>0, <1>1, SetsAreConstant
  DEF ValueTypes, begin, StartLoop, loopVars, callVars, socket
<1>2. CASE Receive
  <2>1. CASE AwaitRouter
    BY <1>0, <2>1, SetsAreConstant
    DEF ValueTypes, AwaitRouter, LeaveLoop, callVars, socket
  <2>2. CASE AwaitNeighbour
    <3>1. \/ \E mac \in MAC : ReturnToLookup(mac) \/ ReturnToSketch(mac)
          \/ ReturnToLookup(NoMac) \/ FailToSketch
          \/ /\ UNCHANGED <<count, callVars, socket>>
             /\ UNCHANGED pc \/ pc' = "endless"
      BY <2>2 DEF AwaitNeighbour, loopVars
    <3>3. NoMac \in MAC /\ pc = "neighbour" /\ UNCHANGED asked
      BY <2>2, EtherSiaAssumption DEF AwaitNeighbour
    <3>4. ASSUME NEW mac \in MAC, ReturnToLookup(mac)
          PROVE  ValueTypes'
      <4>1. lookup' \in Lookup /\ lookup'.id \in Id
        BY <1>0, <3>3, <3>4 DEF ReturnToLookup, ValueTypes, Lookup
      <4> QED
        BY <1>0, <3>3, <3>4, <4>1, SetsAreConstant
        DEF ReturnToLookup, ValueTypes, StartLoop, socket
    <3>5. ASSUME NEW mac \in MAC, ReturnToSketch(mac)
          PROVE  ValueTypes'
      BY <1>0, <3>3, <3>5, SetsAreConstant
      DEF ReturnToSketch, ValueTypes, LeaveLoop, callVars
    <3>6. CASE \/ FailToSketch
               \/ /\ UNCHANGED <<count, callVars, socket>>
                  /\ UNCHANGED pc \/ pc' = "endless"
      BY <1>0, <3>3, <3>6, SetsAreConstant
      DEF FailToSketch, ValueTypes, LeaveLoop, callVars, socket
    <3> QED
      BY <3>1, <3>3, <3>4, <3>5, <3>6
  <2>3. CASE AwaitAnswer
    <3>1. PICK f \in Arriving \cup {NoFrame} :
            \/ /\ f # NoFrame /\ remoteAddress' = f.target
               /\ \/ /\ Discover(f.target, FALSE)
                     /\ UNCHANGED <<remoteMac, needNewServer>>
                  \/ /\ remoteMac' = routerMac /\ pc' = "serve" /\ LeaveLoop
                     /\ UNCHANGED <<target, forLookup>>
            \/ UNCHANGED <<pc, due, count, target, forLookup, socket>>
            \/ /\ pc' = "receive" /\ LeaveLoop
               /\ UNCHANGED <<target, forLookup, socket>>
      BY <2>3 DEF AwaitAnswer
    <3>2. f # NoFrame => f.target \in Address
      BY <1>0 DEF Frame
    <3>3. UNCHANGED <<lookup, asked>> /\ routerMac \in MAC
      BY <1>0, <2>3 DEF AwaitAnswer, CoreTypeOK
    <3> QED
      BY <1>0, <3>1, <3>2, <3>3, SetsAreConstant
      DEF ValueTypes, Discover, StartLoop, LeaveLoop, socket
  <2>4. CASE ReceiveInLoop
    BY <1>0, <2>4, SetsAreConstant
    DEF ValueTypes, ReceiveInLoop, loopVars, callVars, socket
  <2>5. CASE ReceiveForEver
    BY <1>0, <2>5, SetsAreConstant
    DEF ValueTypes, ReceiveForEver, loopVars, callVars, socket
  <2> QED
    BY <1>2, <2>1, <2>2, <2>3, <2>4, <2>5 DEF Receive
<1>3. CASE Solicit
  <2>1. CASE SolicitRouter \/ SolicitNeighbour \/ NotYet
    BY <1>0, <2>1, SetsAreConstant
    DEF ValueTypes, SolicitRouter, SolicitNeighbour, NotYet, Solicited,
        callVars, socket
  <2>2. CASE SendRequest
    <3>1. asked' \subseteq Request
      BY <1>0, <2>2 DEF ValueTypes, SendRequest, Lookup, Request
    <3> QED
      BY <1>0, <2>2, <3>1, SetsAreConstant
      DEF ValueTypes, SendRequest, Solicited, callVars, socket
  <2> QED
    BY <1>3, <2>1, <2>2 DEF Solicit
<1>4. CASE StartLookup
  <2>1. lookup' \in Lookup /\ lookup'.id \in Id
    BY <1>0, <1>4, EtherSiaAssumption
    DEF ValueTypes, CoreTypeOK, StartLookup, Lookup
  <2>2. asked' \subseteq Request
    BY <1>0, <1>4 DEF ValueTypes, StartLookup
  <2> QED
    BY <1>0, <1>4, <2>1, <2>2, SetsAreConstant
    DEF ValueTypes, CoreTypeOK, StartLookup, Discover, StartLoop, socket
<1>5. CASE Serve
  BY <1>0, <1>5, SetsAreConstant
  DEF ValueTypes, Serve, ServeUdp, ServeKissOfDeath, ServeHttpFlags,
      ServeHttpPage, ServeNothing, rejectPacket, SendOrNot, Step, loopVars,
      callVars, socket
<1>6. CASE TimePasses
  BY <1>0, <1>6, SetsAreConstant
  DEF ValueTypes, TimePasses, callVars, socket, history
<1>7. CASE Spin \/ UNCHANGED vars
  BY <1>0, <1>7, SetsAreConstant
  DEF Spin, ValueTypes, vars, loopVars, callVars, socket, history
<1> QED
  BY <1>1, <1>2, <1>3, <1>4, <1>5, <1>6, <1>7 DEF Next, Turn

LEMMA NextInv == IInv /\ [Next]_vars => IInv'
<1> SUFFICES ASSUME IInv, [Next]_vars PROVE IInv'
  OBVIOUS
<1>1. FlagTypes'
  BY TwoKinds, NextFlags DEF IInv
<1> QED
  BY <1>1, NextCore, NextValues, TwoKindsNext DEF IInv

-----------------------------------------------------------------------------
(* Theorems *)

\* The board's variables keep their C types whatever arrives, and a lookup that
\* waits for an answer has an identifier to know it by (dns.cpp:144, 91).
THEOREM TypeCorrect == Spec => []TypeOK
<1>1. IInv => TypeOK
  BY DEF IInv, CoreInv, TypeOK
<1> QED
  BY <1>1, InitInv, NextInv, PTL DEF Spec

\* However many sockets look at a packet, and whatever rejectPacket() is
\* offered, it is answered once at most (EtherSia.cpp:144-145, 205-212).
THEOREM OneAnswer == Spec => []AnsweredOnce
<1>1. IInv => AnsweredOnce
  BY DEF IInv, CoreInv, AnswerInv
<1> QED
  BY <1>1, InitInv, NextInv, PTL DEF Spec

\* Answers are for the packet that arrived last and go back to its sender, and
\* none rejects ICMPv6 or what was sent to a group (EtherSia.cpp:139-203).
THEOREM AnswersCorrect == Spec => [](AnswersGoBack /\ RejectsOnlyRequests)
<1>1. IInv => AnswersGoBack /\ RejectsOnlyRequests
  BY DEF IInv, CoreInv, AnswerInv
<1> QED
  BY <1>1, InitInv, NextInv, PTL DEF Spec

\* No answer is an answer to an ICMPv6 message or to what went to a group, but
\* for those that ask for one (EtherSia.cpp:139-154).
THEOREM RejectsRequests == Spec => []RejectsOnlyRequests
<1> QED
  BY AnswersCorrect, PTL

\* What receivePacket() may do to the configuration
LEMMA ReceiveConfigures ==
    ASSUME NEW f, receivePacket(f) \/ Keep(f)
    PROVE  /\ globalAddress # Zero => globalAddress' = globalAddress
           /\ ~autoConfigurationEnabled => UNCHANGED config
<1>1. UNCHANGED config \/ ProcessRA(f)
  BY DEF receivePacket, ReceiveNothing, ReplyAtOnce, Keep
<1> QED
  BY <1>1 DEF ProcessRA, UsesPrefix, config

\* A second router, or another prefix of the first, changes no address, and
\* without autoconfiguration nothing is changed (icmp6.cpp:132-136, 161).
THEOREM ConfigurationStable == Spec => ConfigurationIsStable
<1>1. ASSUME [Next]_vars
      PROVE  [/\ globalAddress # Zero => globalAddress' = globalAddress
              /\ ~autoConfigurationEnabled => UNCHANGED config]_vars
  <2>1. CASE Receive
    <3>1. PICK f \in Arriving \cup {NoFrame} : receivePacket(f) \/ Keep(f)
      BY <2>1 DEF Receive, AwaitRouter, AwaitNeighbour, AwaitAnswer, ReceiveInLoop,
         ReceiveForEver
    <3> QED
      BY <3>1, ReceiveConfigures
  <2>2. CASE begin \/ Solicit \/ StartLookup \/ Serve \/ TimePasses \/ Spin
    <3>1. UNCHANGED config
      BY <2>2 DEF begin, Spin, vars, Solicit, SolicitRouter, SolicitNeighbour, SendRequest,
             NotYet, StartLookup, Serve, ServeUdp, ServeKissOfDeath,
             ServeHttpFlags, ServeHttpPage, ServeNothing, rejectPacket,
             SendOrNot, Step, TimePasses
    <3> QED
      BY <3>1 DEF config
  <2> QED
    BY <1>1, <2>1, <2>2 DEF Next, Turn
<1> QED
  BY <1>1, PTL DEF Spec, ConfigurationIsStable

-----------------------------------------------------------------------------
(* What has been found is right, if nobody on the link lies *)

\* Neighbours advertise what belongs to them, answers of the DNS are answers to what it has
\* been asked, and no node has an address in the subnet of ::
HonestLink ==
    /\ \A f \in Traffic : f.kind = "NA" =>
         \A mac \in MAC : AdvertisesMac(f, mac) => mac = MacOf[f.target]
    /\ \A f \in Traffic : ~(f.kind = "UDP" /\ f.sport = DnsPort /\ f.dport = LookupPort)
    /\ \A a \in Address : SubnetOf[a] = SubnetOf[Zero] => a = Zero

IsOfHost(address) == address \in Answer[lookup.host] \ {Zero}

\* An identifier of a lookup belongs to its host; whoever waits for something has no server yet
NameInv ==
    /\ pc \in {"neighbour", "lookup", "resolve"} => needNewServer
    /\ \A q \in asked : q.id = lookup.id => q.host = lookup.host
    /\ ~needNewServer => IsOfHost(remoteAddress)
    /\ pc = "neighbour" => IF forLookup THEN target = lookup.server
                           ELSE target = remoteAddress /\ IsOfHost(remoteAddress)

\* What was discovered for the sketch is still in its subnet: an address that is given up for
\* another one would make a neighbour's MAC address look like a router's
MacInv ==
    /\ MacIsNextHops
    /\ routerMac \in RouterMacs
    /\ ~forLookup /\ target # Zero => inOurSubnet(target)

\* The steps that have nothing to do with names
Unrelated ==
    \/ begin \/ SolicitRouter \/ NotYet \/ AwaitRouter \/ SolicitNeighbour \/ ReceiveInLoop
    \/ ReceiveForEver \/ Serve \/ TimePasses \/ Spin \/ UNCHANGED vars

LEMMA UnrelatedKeeps ==
    ASSUME Unrelated
    PROVE  /\ UNCHANGED <<target, forLookup, lookup, remoteAddress, remoteMac, asked>>
           /\ needNewServer => needNewServer'
           /\ pc' = "neighbour" => pc = "neighbour"
           /\ pc' = "lookup" => pc = "lookup"
           /\ pc' = "resolve" => pc = "resolve" \/ needNewServer'
<1>1. CASE begin \/ SolicitRouter \/ NotYet \/ SolicitNeighbour \/ TimePasses
  BY <1>1 DEF begin, SolicitRouter, NotYet, SolicitNeighbour, TimePasses, callVars, socket,
     history
<1>2. CASE AwaitRouter
  BY <1>2 DEF AwaitRouter, callVars, socket
<1>5. CASE ReceiveInLoop
  <2>1. /\ UNCHANGED <<target, forLookup, lookup, remoteAddress, remoteMac, asked>>
        /\ needNewServer' = needNewServer
    BY <1>5 DEF ReceiveInLoop, callVars, socket
  <2>2. pc' = "serve" \/ (pc' = "resolve" /\ needNewServer)
    BY <1>5 DEF ReceiveInLoop
  <2> QED
    BY <2>1, <2>2
<1>3. CASE Serve
  BY <1>3 DEF Serve, ServeUdp, ServeKissOfDeath, ServeHttpFlags, ServeHttpPage, ServeNothing,
     rejectPacket, SendOrNot, Step, callVars, socket
<1>4. CASE Spin \/ UNCHANGED vars
  BY <1>4 DEF Spin, vars, callVars, socket, history
<1>6. CASE ReceiveForEver
  BY <1>6 DEF ReceiveForEver, callVars, socket
<1> QED
  BY <1>1, <1>2, <1>3, <1>4, <1>5, <1>6 DEF Unrelated

\* All that is not UDP is traffic
LEMMA OnlyAnswersAreMade == \A f \in Arriving : f.kind # "UDP" => f \in Traffic
<1>1. ASSUME NEW q, NEW a PROVE DnsReply(q, a).kind = "UDP"
  BY DEF DnsReply, Packet
<1> QED
  BY <1>1 DEF Arriving

\* The answer that is taken is one to a request for this host
LEMMA AnswerIsOfHost ==
    ASSUME HonestLink, CallTypeOK, NameInv, NEW f \in Arriving, IsAnswer(f)
    PROVE  IsOfHost(f.target)
<1>1. f.kind = "UDP" /\ f.sport = DnsPort /\ f.dport = LookupPort /\ f.id = lookup.id
      /\ f.target # Zero
  BY DEF IsAnswer, havePacket
<1>2. f \notin Traffic
  BY <1>1 DEF HonestLink
<1>3. PICK q \in asked : \E a \in Answer[q.host] : f = DnsReply(q, a)
  BY <1>2 DEF Arriving
<1>4. f.id = q.id /\ f.target \in Answer[q.host]
  BY <1>3 DEF DnsReply, Packet
<1> QED
  BY <1>1, <1>4 DEF NameInv, IsOfHost

LEMMA NamesKept == HonestLink /\ IInv /\ NameInv /\ [Next]_vars => NameInv'
<1> SUFFICES ASSUME HonestLink, IInv, NameInv, [Next]_vars PROVE NameInv'
  OBVIOUS
<1> USE DEF NameInv
<1>0. CallTypeOK /\ lookup \in Lookup
  BY DEF IInv, CallTypeOK
<1>1. CASE Unrelated
  <2>1. IsOfHost(remoteAddress) => IsOfHost(remoteAddress)'
    BY <1>1, UnrelatedKeeps DEF IsOfHost
  <2> QED
    BY <1>1, <2>1, UnrelatedKeeps
<1>2. CASE StartLookup
  BY <1>2 DEF StartLookup, Discover, IsOfHost, socket
<1>3. CASE SendRequest
  BY <1>3 DEF SendRequest, IsOfHost, callVars, socket
<1>4. CASE AwaitNeighbour
  <2>1. UNCHANGED <<asked, remoteAddress>> /\ pc = "neighbour"
    BY <1>4 DEF AwaitNeighbour, ReturnToLookup, ReturnToSketch, FailToSketch, socket
  <2>2. CASE \E mac : ReturnToLookup(mac)
    <3>1. UNCHANGED <<target, forLookup, needNewServer>> /\ pc' = "lookup"
          /\ lookup'.id = lookup.id /\ lookup'.host = lookup.host
      BY <1>0, <2>2 DEF ReturnToLookup, Lookup, socket
    <3> QED
      BY <2>1, <3>1 DEF IsOfHost
  <2>3. CASE \E mac : ReturnToSketch(mac)
    BY <2>1, <2>3 DEF ReturnToSketch, IsOfHost, callVars
  <2>4. CASE FailToSketch
    BY <2>1, <2>4 DEF FailToSketch, IsOfHost, callVars, socket
  <2>5. CASE UNCHANGED <<callVars, socket>> /\ pc' \in {pc, "endless"}
    BY <2>1, <2>5 DEF IsOfHost, callVars, socket
  <2> QED
    BY <1>4, <2>2, <2>3, <2>4, <2>5 DEF AwaitNeighbour
<1>5. CASE AwaitAnswer
  <2>1. UNCHANGED <<asked, lookup>> /\ pc = "lookup"
    BY <1>5 DEF AwaitAnswer
  <2>2. CASE UNCHANGED <<target, forLookup, socket>> /\ pc' \in {pc, "receive"}
    BY <2>1, <2>2 DEF IsOfHost, socket
  <2>3. ASSUME NEW f \in Arriving, IsAnswer(f), remoteAddress' = f.target,
               \/ Discover(f.target, FALSE) /\ needNewServer' = needNewServer
               \/ pc' = "serve"
        PROVE  NameInv'
    <3>1. IsOfHost(f.target)
      BY <1>0, <2>3, AnswerIsOfHost
    <3>2. IsOfHost(remoteAddress)'
      BY <2>1, <2>3, <3>1 DEF IsOfHost
    <3>3. CASE pc' = "serve"
      BY <2>1, <3>2, <3>3
    <3>4. CASE Discover(f.target, FALSE) /\ needNewServer' = needNewServer
      BY <2>1, <2>3, <3>2, <3>4 DEF Discover
    <3> QED
      BY <2>3, <3>3, <3>4
  <2> QED
    BY <1>5, <2>2, <2>3 DEF AwaitAnswer
<1> QED
  BY <1>1, <1>2, <1>3, <1>4, <1>5
     DEF Next, Turn, Receive, Solicit, Unrelated

\* What receivePacket() may do to the router and to the subnet
LEMMA ReceiveOnLink ==
    ASSUME HonestLink, IInv, NEW f \in Arriving \cup {NoFrame},
           receivePacket(f) \/ (f # NoFrame /\ Keep(f)),
           routerMac \in RouterMacs
    PROVE  /\ routerMac' \in RouterMacs
           /\ \A a \in Address \ {Zero} : inOurSubnet(a) => inOurSubnet(a)'
           /\ f = NoFrame \/ f.kind # "RA" => UNCHANGED config
<1>1. UNCHANGED config \/ (f # NoFrame /\ f.kind = "RA" /\ ProcessRA(f))
  BY DEF receivePacket, ReceiveNothing, ReplyAtOnce, Keep, ProcessRA
<1>2. CASE UNCHANGED config
  BY <1>2 DEF config, inOurSubnet
<1>3. CASE f # NoFrame /\ f.kind = "RA" /\ ProcessRA(f)
  <2>1. f \in Traffic
    BY <1>3, OnlyAnswersAreMade
  <2>2. routerMac' \in RouterMacs
    BY <1>3, <2>1 DEF ProcessRA, RouterMacs, config
  <2>3. \A a \in Address \ {Zero} : inOurSubnet(a) => inOurSubnet(a)'
    <3>1. globalAddress # Zero => globalAddress' = globalAddress
      BY ReceiveConfigures
    <3>2. CASE globalAddress = Zero
      BY <3>2 DEF HonestLink, inOurSubnet
    <3>3. CASE globalAddress # Zero
      BY <3>1, <3>3 DEF inOurSubnet
    <3> QED
      BY <3>2, <3>3
  <2> QED
    BY <1>3, <2>2, <2>3
<1> QED
  BY <1>1, <1>2, <1>3

\* The configuration in any step but the two that discover something
LEMMA ConfigOnLink ==
    ASSUME HonestLink, IInv, MacInv, [Next]_vars
    PROVE  /\ routerMac' \in RouterMacs
           /\ \A a \in Address \ {Zero} : inOurSubnet(a) => inOurSubnet(a)'
<1>1. CASE Receive
  <2>1. PICK f \in Arriving \cup {NoFrame} :
          receivePacket(f) \/ (f # NoFrame /\ Keep(f))
    BY <1>1, EtherSiaAssumption, ArrivingAreFrames
       DEF Receive, AwaitRouter, AwaitNeighbour, AwaitAnswer, ReceiveInLoop,
           ReceiveForEver, IInv
  <2> QED
    BY <2>1, ReceiveOnLink DEF MacInv
<1>2. CASE begin \/ Solicit \/ StartLookup \/ Serve \/ TimePasses \/ Spin \/ UNCHANGED vars
  <2>1. UNCHANGED config
    BY <1>2 DEF begin, Spin, Solicit, SolicitRouter, SolicitNeighbour, SendRequest,
           NotYet, StartLookup, Serve, ServeUdp, ServeKissOfDeath,
           ServeHttpFlags, ServeHttpPage, ServeNothing, rejectPacket,
           SendOrNot, Step, TimePasses, vars
  <2> QED
    BY <2>1 DEF config, inOurSubnet, MacInv
<1> QED
  BY <1>1, <1>2 DEF Next, Turn

LEMMA MacsKept == HonestLink /\ IInv /\ NameInv /\ MacInv /\ [Next]_vars => MacInv'
<1> SUFFICES ASSUME HonestLink, IInv, NameInv, MacInv, [Next]_vars PROVE MacInv'
  OBVIOUS
<1>0. lookup \in Lookup /\ target \in Address /\ remoteAddress \in Address
      /\ NoMac \in RouterMacs /\ RouterMacs' = RouterMacs
  BY DEF IInv, CallTypeOK, RouterMacs
<1>1. routerMac' \in RouterMacs
      /\ \A a \in Address \ {Zero} : inOurSubnet(a) => inOurSubnet(a)'
  BY ConfigOnLink
<1>2. ASSUME UNCHANGED <<target, forLookup>>
      PROVE  (~forLookup /\ target # Zero => inOurSubnet(target))'
  BY <1>0, <1>1, <1>2 DEF MacInv, inOurSubnet
<1>3. CASE Unrelated
  <2>1. MacIsNextHops'
    <3>1. UNCHANGED <<target, forLookup, lookup, remoteAddress, remoteMac>>
          /\ (needNewServer => needNewServer') /\ (pc' = "lookup" => pc = "lookup")
      BY <1>3, UnrelatedKeeps
    <3> QED
      BY <1>0, <3>1 DEF MacInv, MacIsNextHops
  <2>2. UNCHANGED <<target, forLookup>>
    BY <1>3, UnrelatedKeeps
  <2> QED
    BY <1>0, <1>1, <1>2, <2>1, <2>2 DEF MacInv
<1>4. CASE StartLookup
  <2>1. needNewServer' /\ (pc' = "lookup" => lookup'.mac = routerMac)
    BY <1>4 DEF StartLookup, Discover, NameInv, socket
  <2>2. MacIsNextHops'
    BY <1>0, <2>1 DEF MacInv, MacIsNextHops
  <2>3. forLookup' \/ UNCHANGED <<target, forLookup>>
    BY <1>4 DEF StartLookup, Discover
  <2> QED
    BY <1>0, <1>1, <1>2, <2>2, <2>3 DEF MacInv
<1>5. CASE SendRequest
  <2>1. UNCHANGED <<pc, target, forLookup, lookup, remoteAddress, remoteMac, needNewServer>>
    BY <1>5 DEF SendRequest, callVars, socket
  <2> QED
    BY <1>0, <1>1, <1>2, <2>1 DEF MacInv, MacIsNextHops, RouterMacs
<1>6. CASE AwaitNeighbour
  <2>1. UNCHANGED <<target, forLookup, remoteAddress>> /\ pc = "neighbour"
    BY <1>6 DEF AwaitNeighbour, ReturnToLookup, ReturnToSketch, FailToSketch, callVars, socket
  <2>2. ASSUME NEW f \in Arriving, IsAdvertised(f), NEW mac \in MAC, AdvertisesMac(f, mac)
        PROVE  mac = MacOf[target]
    <3>1. f.kind = "NA" /\ f.target = target
      BY <2>2 DEF IsAdvertised
    <3>2. f \in Traffic
      BY <3>1, OnlyAnswersAreMade
    <3> QED
      BY <2>2, <3>1, <3>2 DEF HonestLink
  <2>3. ASSUME NEW mac, mac = MacOf[target] \/ mac = NoMac, ReturnToLookup(mac)
        PROVE  MacIsNextHops'
    <3>1. /\ lookup'.mac = mac /\ lookup'.server = target /\ needNewServer'
      BY <1>0, <2>1, <2>3 DEF ReturnToLookup, Lookup, NameInv, socket
    <3> QED
      BY <1>0, <2>3, <3>1 DEF MacIsNextHops
  <2>4. ASSUME ReturnToSketch(MacOf[target]) PROVE MacIsNextHops'
    BY <2>1, <2>4 DEF ReturnToSketch, MacIsNextHops, NameInv
  <2>5. ASSUME UNCHANGED <<callVars, socket>>, pc' \in {pc, "receive", "endless"}
        PROVE  MacIsNextHops'
    BY <2>1, <2>5 DEF MacInv, MacIsNextHops, RouterMacs, callVars, socket
  <2>6. MacIsNextHops'
    BY <1>6, <2>2, <2>3, <2>4, <2>5 DEF AwaitNeighbour, FailToSketch
  <2> QED
    BY <1>0, <1>1, <1>2, <2>1, <2>6 DEF MacInv
<1>7. CASE AwaitAnswer
  <2>1. PICK f \in Arriving \cup {NoFrame} :
         /\ receivePacket(f)
         /\ \/ /\ f # NoFrame /\ IsAnswer(f)
               /\ remoteAddress' = f.target
               /\ IF inOurSubnet(f.target)
                    THEN /\ Discover(f.target, FALSE)
                         /\ UNCHANGED <<remoteMac, needNewServer>>
                    ELSE /\ remoteMac' = routerMac /\ needNewServer' = FALSE
                         /\ pc' = "serve" /\ UNCHANGED <<target, forLookup>>
            \/ pc' \in {pc, "receive"} /\ UNCHANGED <<target, forLookup, socket>>
         /\ pc = "lookup" /\ UNCHANGED lookup
    BY <1>7 DEF AwaitAnswer
  <2>2. CASE pc' \in {pc, "receive"} /\ UNCHANGED <<target, forLookup, socket>>
    <3>1. MacIsNextHops'
      BY <2>1, <2>2 DEF MacInv, MacIsNextHops, RouterMacs, socket
    <3> QED
      BY <1>0, <1>1, <1>2, <2>2, <3>1 DEF MacInv
  <2>3. CASE /\ f # NoFrame /\ IsAnswer(f) /\ remoteAddress' = f.target
             /\ inOurSubnet(f.target) /\ Discover(f.target, FALSE)
             /\ UNCHANGED <<remoteMac, needNewServer>>
    <3>1. needNewServer' /\ pc' = "neighbour" /\ target' = f.target /\ f.target # Zero
      BY <2>1, <2>3 DEF Discover, NameInv, IsAnswer
    <3>2. f.target \in Address
      BY <2>3, ArrivingAreFrames DEF Frame, IInv
    <3>3. inOurSubnet(target)'
      BY <1>1, <2>3, <3>1, <3>2 DEF inOurSubnet
    <3> QED
      BY <1>0, <1>1, <3>1, <3>3 DEF MacInv, MacIsNextHops
  <2>4. CASE /\ f # NoFrame /\ IsAnswer(f) /\ remoteAddress' = f.target
             /\ ~inOurSubnet(f.target) /\ remoteMac' = routerMac /\ pc' = "serve"
             /\ UNCHANGED <<target, forLookup>>
    <3>1. f.target # Zero
      BY <2>4 DEF IsAnswer
    <3>2. ~forLookup' => target' # remoteAddress'
      BY <2>4, <3>1 DEF MacInv
    <3>3. MacIsNextHops'
      BY <1>0, <2>4, <3>2 DEF MacInv, MacIsNextHops
    <3> QED
      BY <1>0, <1>1, <1>2, <2>4, <3>3 DEF MacInv
  <2> QED
    BY <2>1, <2>2, <2>3, <2>4
<1> QED
  BY <1>3, <1>4, <1>5, <1>6, <1>7
     DEF Next, Turn, Receive, Solicit, Unrelated

LinkInv == IInv /\ NameInv /\ MacInv

LEMMA LinkInvariance == ASSUME HonestLink PROVE Spec => []LinkInv
<1>1. Init => LinkInv
  <2>1. Init => NameInv
    BY DEF Init, NameInv
  <2>2. Init => MacInv
    BY DEF Init, MacInv, MacIsNextHops, RouterMacs
  <2> QED
    BY <2>1, <2>2, InitInv DEF LinkInv
<1>2. LinkInv /\ [Next]_vars => LinkInv'
  BY NextInv, NamesKept, MacsKept DEF LinkInv
<1> QED
  BY <1>1, <1>2, PTL DEF Spec

\* However late the answers to earlier requests come, what setRemoteAddress() has found is an
\* address of the host asked for last (dns.cpp:91-94).
THEOREM FindsHost == ASSUME HonestLink PROVE Spec => []RemoteIsHost
<1>1. LinkInv => RemoteIsHost
  BY DEF LinkInv, NameInv, IsOfHost, RemoteIsHost
<1> QED
  BY <1>1, LinkInvariance, PTL

\* Frames to a host and to the DNS server have the MAC address of their next hop, whatever
\* routers and prefixes come and go (Socket.cpp:55-65, icmp6.cpp:186-188).
THEOREM FindsNextHop == ASSUME HonestLink PROVE Spec => []MacIsNextHops
<1>1. LinkInv => MacIsNextHops
  BY DEF LinkInv, MacInv
<1> QED
  BY <1>1, LinkInvariance, PTL

=============================================================================
