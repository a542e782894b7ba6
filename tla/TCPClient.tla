------------------------------ MODULE TCPClient ------------------------------
(***************************************************************************)
(* The active-open TCP client of src/src/TCPClient.cpp, driven by the loop *)
(* of the emonCMS sketches (examples/emonCMSClient/emonCMSClient.ino): one *)
(* call of receivePacket() and havePacket(), then the sketch's decisions   *)
(* (hang on reset(), connect() every interval, send() when the connection  *)
(* was just opened or a segment has to be resent), and so on for ever.     *)
(*                                                                         *)
(* The network is open: any packet of the constant Packet may be received  *)
(* at any time.  TCPSession closes it with a peer and a lossy network.     *)
(*                                                                         *)
(* Header fields are in host byte order; a port is its pair of bytes, so   *)
(* that a missing htons() can be told.  Checksums, windows, urgent         *)
(* pointers and the statistics counters are left out.                      *)
(***************************************************************************)
EXTENDS Integers

CONSTANTS
    SeqMod,             \* sequence numbers are uint32_t: 2^32
    TimerMod,           \* _timer, _rto are uint8_t: 2^8
    ByteMod,            \* a port is two bytes: 2^8
    UIP_RTO,            \* initial retransmission timer, in periods of 250 ms
    UIP_MAXRTX,         \* retransmissions of a non SYN segment
    UIP_MAXSYNRTX,      \* retransmissions of a SYN
    InactivityTimeout,  \* 600000 ms, in periods of 250 ms
    ConnectInterval,    \* the sketch's interval (30 s), in periods of 250 ms
    RtoValues,          \* the values the round trip estimator may give _rto
    RandomSeq,          \* the values random() may give _localSeqNum
    SendLengths,        \* the lengths of the requests the sketch sends
    Address,            \* IPv6 addresses ...
    LinkLocal,          \* ... those with the link-local prefix
    LinkLocalAddress,   \* _linkLocalAddress
    GlobalAddress,      \* _globalAddress, if HasGlobal
    HasGlobal,          \* whether _globalAddress is set
    RemoteAddress,      \* _remoteAddress
    RemotePort,         \* _remotePort
    InitialPorts,       \* the values setRemoteAddress() may give _localPort
    MaxLen,             \* the longest payload of a packet
    Packet,             \* the packets the network may deliver
    NoPacket            \* no packet

Seq32 == 0 .. SeqMod - 1
Timer == 0 .. TimerMod - 1
Port == (0 .. ByteMod - 1) \X (0 .. ByteMod - 1)
TcpFlag == {"SYN", "ACK", "FIN", "RST"}

\* The IPv6 packets the component looks at; len is the length of the payload
\* after the TCP header (payloadLength()).
Frame == [src : Address, dst : Address, proto : {"TCP", "other"},
          sport : Port, dport : Port, flags : SUBSET TcpFlag,
          seq : Seq32, ack : Seq32, len : 0 .. MaxLen]

ASSUME NumbersAssumption ==
    /\ SeqMod \in Nat \ {0} /\ TimerMod \in Nat \ {0} /\ ByteMod \in Nat \ {0}
    /\ UIP_RTO \in Nat /\ UIP_MAXRTX \in Nat /\ UIP_MAXSYNRTX \in Nat
    /\ InactivityTimeout \in Nat /\ ConnectInterval \in Nat
    /\ MaxLen \in Nat

ASSUME ValuesAssumption ==
    /\ RtoValues \subseteq Timer /\ UIP_RTO \in Timer
    /\ RandomSeq \subseteq Seq32
    /\ SendLengths \subseteq 1 .. MaxLen
    /\ RemotePort \in Port /\ InitialPorts \subseteq Port

ASSUME AddressAssumption ==
    /\ LinkLocal \subseteq Address /\ LinkLocalAddress \in LinkLocal
    /\ GlobalAddress \in Address \ LinkLocal
    /\ RemoteAddress \in Address \ {LinkLocalAddress, GlobalAddress}
    /\ HasGlobal \in BOOLEAN

ASSUME PacketAssumption == Packet \subseteq Frame /\ NoPacket \notin Frame

VARIABLES
    state,          \* _state & TCP_STATE_MASK
    timedOut,       \* _state & TCP_STATE_TIMEDOUT
    appliFlags,     \* _appliFlags
    localSeqNum,    \* _localSeqNum
    remoteSeqNum,   \* _remoteSeqNum
    unAckLen,       \* _unAckLen
    localPort,      \* _localPort
    timer,          \* _timer
    rto,            \* _rto
    nrtx,           \* _nrtx
    periodicDue,    \* millis() - _periodic >= PERIODIC_TIME_OUT
    idle,           \* millis() - _inactivity, in periods, up to the timeout
    buffer,         \* what is read of the shared packet buffer afterwards
    sent,           \* the packet the last step handed to sendFrame(), if any
    pc,             \* where the sketch's loop is
    sinceConnect,   \* millis() - lastConnect, in periods, up to the interval
    linkUp          \* whether the network still delivers packets

connVars == <<state, timedOut, localSeqNum, remoteSeqNum, unAckLen, localPort>>
timerVars == <<timer, rto, nrtx, periodicDue, idle>>
vars == <<state, timedOut, appliFlags, localSeqNum, remoteSeqNum, unAckLen,
          localPort, timer, rto, nrtx, periodicDue, idle, buffer, sent, pc,
          sinceConnect, linkUp>>

-----------------------------------------------------------------------------
(* Arithmetic of the fields *)

\* Addition of sequence numbers: uint32_t
Plus(a, n) == (a + n) % SeqMod

\* _localPort++ : uint16_t
NextPort(port) ==
    IF port[2] = ByteMod - 1 THEN <<(port[1] + 1) % ByteMod, 0>>
                             ELSE <<port[1], port[2] + 1>>

\* htons() on the little-endian controllers
ByteSwap(port) == <<port[2], port[1]>>

\* UIP_RTO << (_nrtx > 4 ? 4 : _nrtx)
Backoff(n) ==
    LET shifted == IF n = 0 THEN UIP_RTO ELSE
                   IF n = 1 THEN 2 * UIP_RTO ELSE
                   IF n = 2 THEN 4 * UIP_RTO ELSE
                   IF n = 3 THEN 8 * UIP_RTO ELSE 16 * UIP_RTO
    IN shifted % TimerMod

-----------------------------------------------------------------------------
(* The shared buffer and what is sent from it *)

connected == state = "CONNECTED"
synacked == "CONNECTED" \in appliFlags
rexmit == "REXMIT" \in appliFlags

\* The buffer once receivePacket() has returned
Loaded(p) == IF p = NoPacket THEN buffer ELSE [dst |-> p.dst, len |-> p.len]

\* EtherSia::prepareSend(): the source is chosen from the destination that is
\* in the buffer
SourceFor(dst) ==
    IF dst \in LinkLocal \/ ~HasGlobal THEN LinkLocalAddress ELSE GlobalAddress

\* fillTCPHeader(), with the sequence numbers of the step's end
Segment(src, flags, len) ==
    [src |-> src, dst |-> RemoteAddress, proto |-> "TCP",
     sport |-> localPort', dport |-> RemotePort, flags |-> flags,
     seq |-> localSeqNum', ack |-> remoteSeqNum', len |-> len]

\* EtherSia::send()
Emit(packet) ==
    /\ sent' = packet
    /\ buffer' = [dst |-> packet.dst, len |-> packet.len]

Silent(p) ==
    /\ sent' = NoPacket
    /\ buffer' = Loaded(p)

\* prepareReply() to a packet for our link-local address
Reply(flags) == Emit(Segment(LinkLocalAddress, flags, 0))

\* The RST written over the received packet
RstReply(p) ==
    Emit([src |-> LinkLocalAddress, dst |-> p.src, proto |-> "TCP",
          sport |-> p.dport, dport |-> ByteSwap(RemotePort),
          flags |-> {"RST", "ACK"},
          seq |-> p.ack, ack |-> Plus(p.seq, 1), len |-> 0])

\* tcp_resend: prepareSend() comes before setDestination()
Resend(p, flags) ==
    Emit(Segment(SourceFor(Loaded(p).dst), flags, 0))

-----------------------------------------------------------------------------
(* havePacket(): the steps every call begins with *)

\* Faulty variants, to show what the properties catch: the inactivity timer is
\* restarted by every call, the flags of the last call are kept, the timer is
\* never decremented, or is decremented as a signed number
IdleNow_AlwaysRestarted == 0
EntryFlags_Kept == appliFlags
EntryTimer_Stopped == timer
EntryTimer_Signed == IF periodicDue /\ unAckLen > 0 THEN timer - 1 ELSE timer

\* _inactivity is restarted when the last call set a flag
IdleNow == IF appliFlags # {} THEN 0 ELSE idle

\* _appliFlags before the packet is looked at
EntryFlags == IF IdleNow >= InactivityTimeout THEN {"RESET"} ELSE {}

\* _timer once the periodic timer has been looked at; it is not kept at zero
EntryTimer ==
    IF periodicDue /\ unAckLen > 0 THEN (timer - 1) % TimerMod ELSE timer

\* The address, protocol and port checks
ForUs(p) ==
    /\ p # NoPacket
    /\ p.dst = LinkLocalAddress
    /\ p.src = RemoteAddress
    /\ p.proto = "TCP"
    /\ p.sport = RemotePort

\* A SYN to another port is dropped as well, this client only opens actively
Dropped(p) == ForUs(p) => p.dport # localPort /\ "SYN" \in p.flags

OldSegment(p) == ForUs(p) /\ p.dport # localPort /\ "SYN" \notin p.flags

Found(p) == ForUs(p) /\ p.dport = localPort

\* Faulty variants: no segment is out of order, only the last one repeated is,
\* or only data is
OutOfOrder_Never(p) == FALSE
OutOfOrder_RepeatOnly(p) ==
    /\ p.len > 0 \/ "FIN" \in p.flags
    /\ Plus(p.seq, p.len) = remoteSeqNum
OutOfOrder_DataOnly(p) == p.len > 0 /\ p.seq # remoteSeqNum

\* Data or a FIN at a sequence number that is not the expected one
OutOfOrder(p) ==
    /\ ~(state = "WAIT_SYN_ACK" /\ p.flags \cap {"SYN", "ACK"} # {})
    /\ p.len > 0 \/ "FIN" \in p.flags
    /\ p.seq # remoteSeqNum

\* Faulty variant: any acknowledgement will do
Acks_AnyNumber(p) == "ACK" \in p.flags /\ unAckLen > 0

\* The packet acknowledges all that is outstanding
Acks(p) ==
    /\ "ACK" \in p.flags
    /\ unAckLen > 0
    /\ p.ack = Plus(localSeqNum, unAckLen)

\* The acking test: the round trip is only measured for a segment sent once
AckTest(p) ==
    /\ localSeqNum' = IF Acks(p) THEN Plus(localSeqNum, unAckLen)
                                 ELSE localSeqNum
    /\ rto' \in IF Acks(p) /\ nrtx = 0 THEN RtoValues ELSE {rto}

\* Faulty variant: what has been acknowledged stays outstanding
UnAckLenAfterAck_Kept(p) == unAckLen

FlagsAfterAck(p) == IF Acks(p) THEN {"ACKDATA"} ELSE EntryFlags
TimerAfterAck(p) == IF Acks(p) THEN rto' ELSE EntryTimer
UnAckLenAfterAck(p) == IF Acks(p) THEN 0 ELSE unAckLen

-----------------------------------------------------------------------------
(* havePacket(): check_for_retransmit, with the values at that point *)

\* Faulty variant: the smaller budget of a SYN is forgotten
RetransmitExhausted_NoSynLimit == nrtx = UIP_MAXRTX

RetransmitExhausted ==
    \/ nrtx = UIP_MAXRTX
    \/ state = "WAIT_SYN_ACK" /\ nrtx = UIP_MAXSYNRTX

NoRetransmit(p, flags, timerNow) ==
    /\ unAckLen' = 0 \/ timerNow # 0
    /\ timer' = timerNow
    /\ appliFlags' = flags
    /\ Silent(p)
    /\ UNCHANGED <<nrtx, timedOut>>

GiveUp(p, flags, timerNow) ==
    /\ unAckLen' > 0 /\ timerNow = 0
    /\ RetransmitExhausted
    /\ timer' = Backoff(nrtx)
    /\ timedOut' = TRUE
    /\ appliFlags' = flags
    /\ Resend(p, {"RST", "ACK"})
    /\ UNCHANGED nrtx

\* Faulty variant: REXMIT is raised for the SYN and the FIN as well
Retransmit_AlwaysAsks(p, flags, timerNow) ==
    /\ unAckLen' > 0 /\ timerNow = 0
    /\ ~RetransmitExhausted
    /\ timer' = Backoff(nrtx)
    /\ nrtx' = nrtx + 1
    /\ appliFlags' = flags \cup {"REXMIT"}
    /\ Silent(p)
    /\ UNCHANGED timedOut

Retransmit(p, flags, timerNow) ==
    /\ unAckLen' > 0 /\ timerNow = 0
    /\ ~RetransmitExhausted
    /\ timer' = Backoff(nrtx)
    /\ nrtx' = nrtx + 1
    /\ \/ state = "WAIT_SYN_ACK" /\ appliFlags' = flags /\ Resend(p, {"SYN"})
       \/ state = "CONNECTED" /\ appliFlags' = flags \cup {"REXMIT"} /\ Silent(p)
       \/ state = "LAST_ACK" /\ appliFlags' = flags /\ Resend(p, {"FIN", "ACK"})
    /\ UNCHANGED timedOut

CheckForRetransmit(p, flags, timerNow) ==
    \/ NoRetransmit(p, flags, timerNow)
    \/ GiveUp(p, flags, timerNow)
    \/ Retransmit(p, flags, timerNow)

-----------------------------------------------------------------------------
(* havePacket(): one action for each way through it *)

\* Disconnected, or timed out at the last call
HaveNothing(p) ==
    /\ state = "DISCONNECTED" \/ timedOut
    /\ state' = "DISCONNECTED"
    /\ timedOut' = FALSE
    /\ appliFlags' = EntryFlags
    /\ Silent(p)
    /\ UNCHANGED <<localSeqNum, remoteSeqNum, unAckLen, localPort, timer, rto,
                   nrtx, periodicDue>>

Open == state # "DISCONNECTED" /\ ~timedOut /\ periodicDue' = FALSE

\* No packet, or one that is not for this connection
HaveDropped(p) ==
    /\ Open /\ Dropped(p)
    /\ UNCHANGED <<state, localSeqNum, remoteSeqNum, unAckLen, localPort, rto>>
    /\ CheckForRetransmit(p, EntryFlags, EntryTimer)

\* A segment of an earlier connection is answered with a RST, except a RST
HaveOldSegment(p) ==
    /\ Open /\ OldSegment(p)
    /\ UNCHANGED <<connVars, rto, nrtx>>
    /\ timer' = EntryTimer
    /\ appliFlags' = EntryFlags
    /\ IF "RST" \in p.flags THEN Silent(p) ELSE RstReply(p)

HaveRst(p) ==
    /\ Open /\ Found(p) /\ "RST" \in p.flags
    /\ state' = "DISCONNECTED"
    /\ appliFlags' = {"ABORT"}
    /\ timer' = EntryTimer
    /\ Silent(p)
    /\ UNCHANGED <<timedOut, localSeqNum, remoteSeqNum, unAckLen, localPort,
                   rto, nrtx>>

\* "Unexpected incoming SN": the peer is told what is expected
HaveOutOfOrder(p) ==
    /\ Open /\ Found(p) /\ "RST" \notin p.flags /\ OutOfOrder(p)
    /\ UNCHANGED <<connVars, rto, nrtx>>
    /\ timer' = EntryTimer
    /\ appliFlags' = EntryFlags
    /\ Reply({"ACK"})

InOrder(p) ==
    Open /\ Found(p) /\ "RST" \notin p.flags /\ ~OutOfOrder(p) /\ AckTest(p)

\* WAIT_SYN_ACK: the SYN is acknowledged (by any segment with an ACK)
HaveSynAck(p) ==
    /\ state = "WAIT_SYN_ACK" /\ InOrder(p) /\ Acks(p)
    /\ state' = "CONNECTED"
    /\ remoteSeqNum' = Plus(p.seq, 1)
    /\ unAckLen' = 0
    /\ timer' = rto'
    /\ appliFlags' = {"CONNECTED"}
    /\ UNCHANGED <<timedOut, localPort, nrtx>>
    /\ Reply({"ACK"})

\* WAIT_SYN_ACK: anything else to our port fails the connection
HaveBadSynAck(p) ==
    /\ state = "WAIT_SYN_ACK" /\ InOrder(p) /\ ~Acks(p)
    /\ state' = "DISCONNECTED"
    /\ timer' = EntryTimer
    /\ appliFlags' = {"ABORT"}
    /\ RstReply(p)
    /\ UNCHANGED <<timedOut, remoteSeqNum, unAckLen, localPort, nrtx>>

\* CONNECTED: a FIN is only accepted when nothing is outstanding
HaveFin(p) ==
    /\ state = "CONNECTED" /\ InOrder(p) /\ "FIN" \in p.flags
    /\ UnAckLenAfterAck(p) = 0
    /\ state' = "LAST_ACK"
    /\ remoteSeqNum' = Plus(remoteSeqNum, p.len + 1)
    /\ unAckLen' = 1
    /\ nrtx' = 0
    /\ timer' = TimerAfterAck(p)
    /\ appliFlags' = FlagsAfterAck(p) \cup {"CLOSE"}
                        \cup (IF p.len > 0 THEN {"NEWDATA"} ELSE {})
    /\ UNCHANGED <<timedOut, localPort>>
    /\ Reply({"FIN", "ACK"})

HaveEarlyFin(p) ==
    /\ state = "CONNECTED" /\ InOrder(p) /\ "FIN" \in p.flags
    /\ UnAckLenAfterAck(p) > 0
    /\ UNCHANGED <<state, remoteSeqNum, unAckLen, localPort>>
    /\ CheckForRetransmit(p, EntryFlags, EntryTimer)

\* CONNECTED: data, acknowledged at once
HaveData(p) ==
    /\ state = "CONNECTED" /\ InOrder(p) /\ "FIN" \notin p.flags /\ p.len > 0
    /\ remoteSeqNum' = Plus(remoteSeqNum, p.len)
    /\ unAckLen' = UnAckLenAfterAck(p)
    /\ timer' = TimerAfterAck(p)
    /\ appliFlags' = FlagsAfterAck(p) \cup {"NEWDATA"}
    /\ UNCHANGED <<state, timedOut, localPort, nrtx>>
    /\ Reply({"ACK"})

\* CONNECTED: neither FIN nor data
HaveAckOnly(p) ==
    /\ state = "CONNECTED" /\ InOrder(p) /\ "FIN" \notin p.flags /\ p.len = 0
    /\ unAckLen' = UnAckLenAfterAck(p)
    /\ UNCHANGED <<state, remoteSeqNum, localPort>>
    /\ CheckForRetransmit(p, FlagsAfterAck(p), TimerAfterAck(p))

\* Faulty variant: the last ACK ends the connection without UIP_CLOSE
HaveLastAck_NoClose(p) ==
    /\ state = "LAST_ACK" /\ InOrder(p) /\ Acks(p)
    /\ state' = "DISCONNECTED"
    /\ unAckLen' = 0
    /\ timer' = rto'
    /\ appliFlags' = FlagsAfterAck(p)
    /\ Silent(p)
    /\ UNCHANGED <<timedOut, remoteSeqNum, localPort, nrtx>>

HaveLastAck(p) ==
    /\ state = "LAST_ACK" /\ InOrder(p) /\ Acks(p)
    /\ state' = "DISCONNECTED"
    /\ unAckLen' = 0
    /\ timer' = rto'
    /\ appliFlags' = {"CLOSE"}
    /\ Silent(p)
    /\ UNCHANGED <<timedOut, remoteSeqNum, localPort, nrtx>>

HaveNotLastAck(p) ==
    /\ state = "LAST_ACK" /\ InOrder(p) /\ ~Acks(p)
    /\ UNCHANGED <<state, remoteSeqNum, unAckLen, localPort>>
    /\ CheckForRetransmit(p, EntryFlags, EntryTimer)

havePacket(p) ==
    /\ idle' = IdleNow
    /\ \/ HaveNothing(p)
       \/ HaveDropped(p)
       \/ HaveOldSegment(p)
       \/ HaveRst(p)
       \/ HaveOutOfOrder(p)
       \/ HaveSynAck(p)
       \/ HaveBadSynAck(p)
       \/ HaveFin(p)
       \/ HaveEarlyFin(p)
       \/ HaveData(p)
       \/ HaveAckOnly(p)
       \/ HaveLastAck(p)
       \/ HaveNotLastAck(p)

-----------------------------------------------------------------------------
(* The sketch's loop *)

\* receivePacket() returned p, or nothing, and havePacket() is called
Poll(p) ==
    /\ pc = "poll"
    /\ p # NoPacket => linkUp
    /\ pc' = "app"
    /\ havePacket(p)
    /\ UNCHANGED <<sinceConnect, linkUp>>

ConnectDue == ~connected /\ sinceConnect >= ConnectInterval
SendDue == synacked \/ rexmit
ResetDue == "RESET" \in appliFlags

\* tcp.connect(), with the SYN sent by Socket::send() and sendInternal()
Connect ==
    /\ pc = "app" /\ ~ResetDue /\ ConnectDue
    /\ pc' = "poll"
    /\ sinceConnect' = 0
    /\ state' = "WAIT_SYN_ACK"
    /\ timedOut' = FALSE
    /\ localSeqNum' \in RandomSeq
    /\ remoteSeqNum' = 0
    /\ localPort' = NextPort(localPort)
    /\ unAckLen' = 1
    /\ rto' = UIP_RTO
    /\ timer' = UIP_RTO
    /\ nrtx' = 0
    /\ periodicDue' = FALSE
    /\ idle' = 0
    /\ Emit(Segment(SourceFor(RemoteAddress), {"SYN"}, 0))
    /\ UNCHANGED <<appliFlags, linkUp>>

\* tcp.send(): a segment that is sent again is not counted again
SendData ==
    /\ pc = "app" /\ ~ResetDue /\ ~ConnectDue /\ SendDue
    /\ pc' = "poll"
    /\ \E length \in SendLengths :
        /\ IF rexmit
             THEN UNCHANGED <<unAckLen, timer, nrtx>>
             ELSE /\ unAckLen' = unAckLen + length
                  /\ timer' = rto
                  /\ nrtx' = 0
        /\ UNCHANGED <<state, timedOut, localSeqNum, remoteSeqNum, localPort,
                       rto, periodicDue, idle>>
        /\ Emit(Segment(SourceFor(RemoteAddress), {"ACK"}, length))
    /\ UNCHANGED <<appliFlags, sinceConnect, linkUp>>

\* Nothing to do in this turn of the loop
Pass ==
    /\ pc = "app" /\ ~ResetDue /\ ~ConnectDue /\ ~SendDue
    /\ pc' = "poll"
    /\ sent' = NoPacket
    /\ UNCHANGED <<connVars, timerVars, appliFlags, buffer, sinceConnect, linkUp>>

\* if (tcp.reset()) while (1);
Hang ==
    /\ pc = "app" /\ ResetDue
    /\ pc' = "hang"
    /\ sent' = NoPacket
    /\ UNCHANGED <<connVars, timerVars, appliFlags, buffer, sinceConnect, linkUp>>

\* The state of the program after setup(): tcp is a global object
Start ==
    /\ state = "DISCONNECTED" /\ timedOut = FALSE /\ appliFlags = {}
    /\ localSeqNum = 0 /\ remoteSeqNum = 0 /\ unAckLen = 0
    /\ localPort \in InitialPorts
    /\ timer = 0 /\ rto = 0 /\ nrtx = 0
    /\ periodicDue = TRUE /\ idle = 0
    /\ buffer \in [dst : Address, len : {0}]
    /\ sent = NoPacket
    /\ pc = "poll"
    /\ sinceConnect = ConnectInterval

\* The watchdog of the ApplicationMonitor restarts the hung program
WatchdogRestart ==
    /\ pc = "hang"
    /\ state' = "DISCONNECTED" /\ timedOut' = FALSE /\ appliFlags' = {}
    /\ localSeqNum' = 0 /\ remoteSeqNum' = 0 /\ unAckLen' = 0
    /\ localPort' \in InitialPorts
    /\ timer' = 0 /\ rto' = 0 /\ nrtx' = 0
    /\ periodicDue' = TRUE /\ idle' = 0
    /\ buffer' \in [dst : Address, len : {0}]
    /\ sent' = NoPacket
    /\ pc' = "poll"
    /\ sinceConnect' = ConnectInterval
    /\ UNCHANGED linkUp

-----------------------------------------------------------------------------
(* The environment, and the specification *)

\* A period of 250 ms passes
Tick ==
    /\ pc # "hang"
    /\ periodicDue' = TRUE
    /\ idle' = IF idle < InactivityTimeout THEN idle + 1 ELSE idle
    /\ sinceConnect' = IF sinceConnect < ConnectInterval THEN sinceConnect + 1
                                                         ELSE sinceConnect
    /\ sent' = NoPacket
    /\ UNCHANGED <<connVars, appliFlags, timer, rto, nrtx, buffer, pc, linkUp>>

\* The network stops delivering for good
LinkDown ==
    /\ linkUp /\ linkUp' = FALSE
    /\ sent' = NoPacket
    /\ UNCHANGED <<connVars, timerVars, appliFlags, buffer, pc, sinceConnect>>

Init == Start /\ linkUp = TRUE

Loop == Connect \/ SendData \/ Pass \/ Hang \/ WatchdogRestart

Next ==
    \/ \E p \in Packet \cup {NoPacket} : Poll(p)
    \/ Loop
    \/ Tick
    \/ LinkDown

Spec == Init /\ [][Next]_vars

\* A turn of loop() takes less than a period: where the clock is looked at, each
\* period is noticed before the next one is over
TimelyTick == Tick /\ (periodicDue => state = "DISCONNECTED" \/ timedOut)

TimelyNext ==
    \/ \E p \in Packet \cup {NoPacket} : Poll(p)
    \/ Loop
    \/ TimelyTick
    \/ LinkDown

\* loop() is called for ever, time passes and the watchdog is running
Fairness ==
    /\ WF_vars(\E p \in Packet \cup {NoPacket} : Poll(p))
    /\ WF_vars(Loop)
    /\ WF_vars(TimelyTick)

LiveSpec == Init /\ [][TimelyNext]_vars /\ Fairness

-----------------------------------------------------------------------------
(* Properties *)

Flag == {"ACKDATA", "NEWDATA", "REXMIT", "CLOSE", "ABORT", "CONNECTED", "RESET"}

\* Every field holds a value of its C type: _timer and _rto stay bytes, the
\* sequence numbers 32 bits wide, and every packet sent is a proper IPv6 frame.
TypeOK ==
    /\ state \in {"DISCONNECTED", "WAIT_SYN_ACK", "CONNECTED", "LAST_ACK"}
    /\ timedOut \in BOOLEAN
    /\ appliFlags \in SUBSET Flag
    /\ localSeqNum \in Seq32 /\ remoteSeqNum \in Seq32
    /\ unAckLen \in Nat
    /\ localPort \in Port
    /\ timer \in Timer /\ rto \in Timer
    /\ nrtx \in Nat
    /\ periodicDue \in BOOLEAN
    /\ idle \in 0 .. InactivityTimeout
    /\ buffer \in [dst : Address, len : 0 .. MaxLen]
    /\ sent \in Frame \cup {NoPacket}
    /\ pc \in {"poll", "app", "hang"}
    /\ sinceConnect \in 0 .. ConnectInterval
    /\ linkUp \in BOOLEAN

\* _unAckLen agrees with the connection state: exactly the SYN or the FIN is
\* outstanding while one is waited for, and never more than one request.
OutstandingMatchesState ==
    /\ state \in {"WAIT_SYN_ACK", "LAST_ACK"} => unAckLen = 1
    /\ connected => unAckLen \in {0} \cup SendLengths

\* The sketch's test synacked() || rexmit() is only true when a send() is
\* safe: the connection is established, a first send finds nothing
\* outstanding and a repeated one finds the unacknowledged request, whatever
\* flags the earlier calls and connect() left behind.
SendIsSafe ==
    pc = "app" =>
        /\ synacked => connected /\ ~timedOut /\ unAckLen = 0
        /\ rexmit => connected /\ ~timedOut /\ unAckLen > 0

\* The equality tests against UIP_MAXRTX and UIP_MAXSYNRTX are never stepped
\* over, and a connection is only timed out when its budget is used up.
RetransmitBudget ==
    /\ nrtx <= UIP_MAXRTX
    /\ state = "WAIT_SYN_ACK" => nrtx <= UIP_MAXSYNRTX
    /\ timedOut => RetransmitExhausted

\* Every end of a connection is visible to the sketch: aborted(), closing()
\* or, one call earlier, timedout().
EndIsSignalled ==
    [][state # "DISCONNECTED" /\ state' = "DISCONNECTED" /\ pc = "poll"
        => timedOut \/ appliFlags' \cap {"ABORT", "CLOSE"} # {}]_vars

\* When the network stops delivering while a request is outstanding, the client
\* times out, and does so before the inactivity timer lets the sketch hang.
PeerLossIsNoticed ==
    (~linkUp /\ connected /\ unAckLen > 0 /\ idle = 0) ~> timedOut

\* An established connection does not survive a dead network for ever, even
\* when nothing is outstanding: the inactivity timer ends it.
DeadConnectionEnds == (~linkUp /\ connected) ~> ~connected

=============================================================================
