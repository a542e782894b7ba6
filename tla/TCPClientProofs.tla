--------------------------- MODULE TCPClientProofs ---------------------------
(***************************************************************************)
(* Theorems about TCPClient, for every value of its constants.             *)
(***************************************************************************)
EXTENDS TCPClient, TLAPS

-----------------------------------------------------------------------------
(* The helpers stay within their types *)

\* Addition of sequence numbers is 32 bits wide.
LEMMA PlusType == \A a, n \in Int : Plus(a, n) \in Seq32
BY NumbersAssumption DEF Plus, Seq32

\* Decrementing _timer keeps it a byte.
LEMMA DecrementType == \A t \in Int : (t - 1) % TimerMod \in Timer
BY NumbersAssumption DEF Timer

\* The exponential backoff is a byte.
LEMMA BackoffType == \A n \in Nat : Backoff(n) \in Timer
<1> TAKE n \in Nat
<1> DEFINE m == IF n = 0 THEN UIP_RTO ELSE
                IF n = 1 THEN 2 * UIP_RTO ELSE
                IF n = 2 THEN 4 * UIP_RTO ELSE
                IF n = 3 THEN 8 * UIP_RTO ELSE 16 * UIP_RTO
<1>1. m \in Int
  BY NumbersAssumption
<1>2. \A k \in Int : k % TimerMod \in Timer
  BY NumbersAssumption DEF Timer
<1>3. Backoff(n) = m % TimerMod
  BY DEF Backoff
<1> HIDE DEF m
<1> QED BY <1>1, <1>2, <1>3

\* The next local port is a port.
LEMMA NextPortType == \A port \in Port : NextPort(port) \in Port
<1> TAKE port \in Port
<1>1. /\ port[1] \in 0 .. ByteMod - 1
      /\ port[2] \in 0 .. ByteMod - 1
  BY DEF Port
<1>2. CASE port[2] = ByteMod - 1
  <2>1. (port[1] + 1) % ByteMod \in 0 .. ByteMod - 1
    BY <1>1, NumbersAssumption
  <2>2. 0 \in 0 .. ByteMod - 1
    BY NumbersAssumption
  <2> QED BY <1>2, <2>1, <2>2 DEF NextPort, Port
<1>3. CASE port[2] # ByteMod - 1
  <2>1. port[2] + 1 \in 0 .. ByteMod - 1
    BY <1>1, <1>3, NumbersAssumption
  <2> QED BY <1>1, <1>3, <2>1 DEF NextPort, Port
<1> QED BY <1>2, <1>3

\* htons() of a port is a port.
LEMMA ByteSwapType == \A port \in Port : ByteSwap(port) \in Port
BY DEF ByteSwap, Port

\* Our addresses are addresses.
LEMMA AddressType ==
    /\ LinkLocalAddress \in Address /\ RemoteAddress \in Address
    /\ \A dst : SourceFor(dst) \in Address
BY AddressAssumption DEF SourceFor

-----------------------------------------------------------------------------
(* Type correctness *)

\* The shared buffer holds what was received or sent.
Buffer == [dst : Address, len : 0 .. MaxLen]

\* The fields fillTCPHeader() reads.
HeaderOK == localSeqNum' \in Seq32 /\ remoteSeqNum' \in Seq32 /\ localPort' \in Port

\* What Emit and Silent leave behind.
OutputOK == sent' \in Frame \cup {NoPacket} /\ buffer' \in Buffer

\* Sending a frame leaves a frame in the buffer.
LEMMA EmitType ==
    ASSUME NEW packet \in Frame, Emit(packet)
    PROVE  OutputOK
BY DEF Emit, OutputOK, Buffer, Frame

\* A packet built by fillTCPHeader() is a frame.
LEMMA SegmentType ==
    ASSUME HeaderOK, NEW src \in Address, NEW flags \in SUBSET TcpFlag,
           NEW len \in 0 .. MaxLen
    PROVE  Segment(src, flags, len) \in Frame
BY AddressType, ValuesAssumption DEF Segment, Frame, HeaderOK

\* A reply is a frame.
LEMMA ReplyType ==
    ASSUME HeaderOK, NEW flags \in SUBSET TcpFlag, Reply(flags)
    PROVE  OutputOK
<1>1. 0 \in 0 .. MaxLen
  BY NumbersAssumption
<1> QED BY <1>1, SegmentType, EmitType, AddressType DEF Reply

\* The shared buffer after receivePacket().
LEMMA LoadedType ==
    ASSUME TypeOK, NEW p \in Packet \cup {NoPacket}
    PROVE  Loaded(p) \in Buffer
BY PacketAssumption DEF Loaded, TypeOK, Buffer, Frame

\* A call that sends nothing.
LEMMA SilentType ==
    ASSUME TypeOK, NEW p \in Packet \cup {NoPacket}, Silent(p)
    PROVE  OutputOK
BY LoadedType DEF Silent, OutputOK

\* A retransmission is a frame, whatever its source.
LEMMA ResendType ==
    ASSUME HeaderOK, NEW p, NEW flags \in SUBSET TcpFlag, Resend(p, flags)
    PROVE  OutputOK
<1>1. 0 \in 0 .. MaxLen
  BY NumbersAssumption
<1> QED BY <1>1, SegmentType, EmitType, AddressType DEF Resend

\* The RST that answers a frame is a frame.
LEMMA RstReplyType ==
    ASSUME NEW p \in Frame, RstReply(p)
    PROVE  OutputOK
<1> DEFINE r == [src |-> LinkLocalAddress, dst |-> p.src, proto |-> "TCP",
                 sport |-> p.dport, dport |-> ByteSwap(RemotePort),
                 flags |-> {"RST", "ACK"},
                 seq |-> p.ack, ack |-> Plus(p.seq, 1), len |-> 0]
<1>1. /\ LinkLocalAddress \in Address
      /\ ByteSwap(RemotePort) \in Port
      /\ 0 \in 0 .. MaxLen
  BY AddressType, ByteSwapType, ValuesAssumption, NumbersAssumption
<1>2. Plus(p.seq, 1) \in Seq32
  <2>1. p.seq \in Int
    BY DEF Frame, Seq32
  <2> QED BY <2>1, PlusType
<1>3. r \in Frame
  BY <1>1, <1>2 DEF Frame, TcpFlag
<1>4. Emit(r)
  BY DEF RstReply
<1> QED BY <1>3, <1>4, EmitType

\* What every call of havePacket() assigns, with its type.
CallOK ==
    /\ state' \in {"DISCONNECTED", "WAIT_SYN_ACK", "CONNECTED", "LAST_ACK"}
    /\ timedOut' \in BOOLEAN
    /\ appliFlags' \in SUBSET Flag
    /\ HeaderOK
    /\ unAckLen' \in Nat
    /\ timer' \in Timer /\ rto' \in Timer
    /\ nrtx' \in Nat
    /\ periodicDue' \in BOOLEAN
    /\ OutputOK

\* The values at the entry of havePacket() are typed.
LEMMA EntryType ==
    ASSUME TypeOK
    PROVE  /\ IdleNow \in 0 .. InactivityTimeout
           /\ EntryFlags \in SUBSET Flag
           /\ EntryTimer \in Timer
<1>1. IdleNow \in 0 .. InactivityTimeout
  BY NumbersAssumption DEF TypeOK, IdleNow
<1>2. EntryFlags \in SUBSET Flag
  BY DEF EntryFlags, Flag
<1>3. EntryTimer \in Timer
  <2>1. timer \in Int /\ timer \in Timer
    BY DEF TypeOK, Timer
  <2> QED BY <2>1, DecrementType DEF EntryTimer
<1> QED BY <1>1, <1>2, <1>3

\* The acking test keeps _localSeqNum and _rto typed.
LEMMA AckTestType ==
    ASSUME TypeOK, NEW p, AckTest(p)
    PROVE  /\ localSeqNum' \in Seq32
           /\ rto' \in Timer
           /\ FlagsAfterAck(p) \in SUBSET Flag
           /\ TimerAfterAck(p) \in Timer
           /\ UnAckLenAfterAck(p) \in Nat
<1>1. localSeqNum' \in Seq32
  <2>1. localSeqNum \in Int /\ unAckLen \in Int /\ localSeqNum \in Seq32
    BY DEF TypeOK, Seq32
  <2> QED BY <2>1, PlusType DEF AckTest
<1>2. rto' \in Timer
  BY ValuesAssumption DEF AckTest, TypeOK
<1>3. FlagsAfterAck(p) \in SUBSET Flag
  BY EntryType DEF FlagsAfterAck, Flag
<1>4. TimerAfterAck(p) \in Timer
  BY <1>2, EntryType DEF TimerAfterAck
<1>5. UnAckLenAfterAck(p) \in Nat
  BY DEF UnAckLenAfterAck, TypeOK
<1> QED BY <1>1, <1>2, <1>3, <1>4, <1>5

\* check_for_retransmit keeps the timer, the counter and the flags typed.
LEMMA CheckType ==
    ASSUME TypeOK, HeaderOK, NEW p \in Packet \cup {NoPacket},
           NEW flags \in SUBSET Flag, NEW timerNow \in Timer,
           CheckForRetransmit(p, flags, timerNow)
    PROVE  /\ timer' \in Timer /\ nrtx' \in Nat
           /\ appliFlags' \in SUBSET Flag /\ timedOut' \in BOOLEAN
           /\ OutputOK
<1>1. Backoff(nrtx) \in Timer
  BY BackoffType DEF TypeOK
<1>2. CASE NoRetransmit(p, flags, timerNow)
  BY <1>2, SilentType DEF NoRetransmit, TypeOK
<1>3. CASE GiveUp(p, flags, timerNow)
  <2>1. OutputOK
    BY <1>3, ResendType DEF GiveUp, TcpFlag
  <2> QED BY <1>1, <1>3, <2>1 DEF GiveUp, TypeOK
<1>4. CASE Retransmit(p, flags, timerNow)
  <2>1. OutputOK
    BY <1>4, ResendType, SilentType DEF Retransmit, TcpFlag
  <2>2. appliFlags' \in SUBSET Flag
    BY <1>4 DEF Retransmit, Flag
  <2> QED BY <1>1, <1>4, <2>1, <2>2 DEF Retransmit, TypeOK
<1> QED BY <1>2, <1>3, <1>4 DEF CheckForRetransmit

\* A segment that passes the checks is a frame.
LEMMA FoundType ==
    ASSUME NEW p \in Packet \cup {NoPacket}, ForUs(p)
    PROVE  p \in Frame
BY PacketAssumption DEF ForUs

\* Every way through havePacket() keeps the fields typed.
LEMMA HavePacketType ==
    ASSUME TypeOK, NEW p \in Packet \cup {NoPacket}, havePacket(p)
    PROVE  CallOK
<1> USE DEF CallOK
<1>1. CASE HaveNothing(p)
  BY <1>1, EntryType, SilentType DEF HaveNothing, TypeOK, HeaderOK
<1>2. CASE HaveDropped(p)
  <2>1. HeaderOK
    BY <1>2 DEF HaveDropped, TypeOK, HeaderOK
  <2>2. CheckForRetransmit(p, EntryFlags, EntryTimer)
    BY <1>2 DEF HaveDropped
  <2> QED BY <1>2, <2>1, <2>2, EntryType, CheckType DEF HaveDropped, Open, TypeOK
<1>3. CASE HaveOldSegment(p)
  <2>1. OutputOK
    BY <1>3, FoundType, SilentType, RstReplyType DEF HaveOldSegment, OldSegment
  <2> QED BY <1>3, <2>1, EntryType DEF HaveOldSegment, Open, TypeOK, HeaderOK, connVars
<1>4. CASE HaveRst(p)
  BY <1>4, EntryType, SilentType DEF HaveRst, Open, TypeOK, HeaderOK, Flag
<1>5. CASE HaveOutOfOrder(p)
  <2>1. HeaderOK
    BY <1>5 DEF HaveOutOfOrder, TypeOK, HeaderOK, connVars
  <2>2. OutputOK
    BY <1>5, <2>1, ReplyType DEF HaveOutOfOrder, TcpFlag
  <2> QED BY <1>5, <2>1, <2>2, EntryType DEF HaveOutOfOrder, Open, TypeOK, connVars
<1>6. CASE HaveSynAck(p)
  <2>1. p \in Frame /\ p.seq \in Int
    BY <1>6, FoundType DEF HaveSynAck, InOrder, Found, Frame, Seq32
  <2>2. HeaderOK
    BY <1>6, <2>1, PlusType, AckTestType DEF HaveSynAck, InOrder, TypeOK, HeaderOK
  <2>3. OutputOK
    BY <1>6, <2>2, ReplyType DEF HaveSynAck, TcpFlag
  <2> QED BY <1>6, <2>2, <2>3, AckTestType DEF HaveSynAck, InOrder, Open, TypeOK, Flag
<1>7. CASE HaveBadSynAck(p)
  <2>1. p \in Frame
    BY <1>7, FoundType DEF HaveBadSynAck, InOrder, Found
  <2>2. OutputOK
    BY <1>7, <2>1, RstReplyType DEF HaveBadSynAck
  <2>3. HeaderOK
    BY <1>7, AckTestType DEF HaveBadSynAck, InOrder, TypeOK, HeaderOK
  <2> QED BY <1>7, <2>2, <2>3, AckTestType, EntryType DEF HaveBadSynAck, InOrder, Open, TypeOK, Flag
<1>8. CASE HaveFin(p)
  <2>1. p.len + 1 \in Int /\ remoteSeqNum \in Int
    BY <1>8, FoundType DEF HaveFin, InOrder, Found, Frame, TypeOK, Seq32
  <2>2. HeaderOK
    BY <1>8, <2>1, PlusType, AckTestType DEF HaveFin, InOrder, TypeOK, HeaderOK
  <2>3. OutputOK
    BY <1>8, <2>2, ReplyType DEF HaveFin, TcpFlag
  <2>4. appliFlags' \in SUBSET Flag
    BY <1>8, AckTestType DEF HaveFin, InOrder, Flag
  <2> QED BY <1>8, <2>2, <2>3, <2>4, AckTestType DEF HaveFin, InOrder, Open, TypeOK
<1>9. CASE HaveEarlyFin(p)
  <2>1. HeaderOK
    BY <1>9, AckTestType DEF HaveEarlyFin, InOrder, TypeOK, HeaderOK
  <2>2. CheckForRetransmit(p, EntryFlags, EntryTimer)
    BY <1>9 DEF HaveEarlyFin
  <2> QED BY <1>9, <2>1, <2>2, EntryType, CheckType, AckTestType
          DEF HaveEarlyFin, InOrder, Open, TypeOK
<1>10. CASE HaveData(p)
  <2>1. p.len \in Int /\ remoteSeqNum \in Int
    BY <1>10, FoundType DEF HaveData, InOrder, Found, Frame, TypeOK, Seq32
  <2>2. HeaderOK
    BY <1>10, <2>1, PlusType, AckTestType DEF HaveData, InOrder, TypeOK, HeaderOK
  <2>3. OutputOK
    BY <1>10, <2>2, ReplyType DEF HaveData, TcpFlag
  <2>4. appliFlags' \in SUBSET Flag
    BY <1>10, AckTestType DEF HaveData, InOrder, Flag
  <2> QED BY <1>10, <2>2, <2>3, <2>4, AckTestType DEF HaveData, InOrder, Open, TypeOK
<1>11. CASE HaveAckOnly(p)
  <2>1. HeaderOK
    BY <1>11, AckTestType DEF HaveAckOnly, InOrder, TypeOK, HeaderOK
  <2>2. CheckForRetransmit(p, FlagsAfterAck(p), TimerAfterAck(p))
    BY <1>11 DEF HaveAckOnly
  <2>3. AckTest(p)
    BY <1>11 DEF HaveAckOnly, InOrder
  <2> QED BY <1>11, <2>1, <2>2, <2>3, CheckType, AckTestType
          DEF HaveAckOnly, InOrder, Open, TypeOK
<1>12. CASE HaveLastAck(p)
  <2>1. HeaderOK
    BY <1>12, AckTestType DEF HaveLastAck, InOrder, TypeOK, HeaderOK
  <2>2. OutputOK
    BY <1>12, SilentType DEF HaveLastAck
  <2> QED BY <1>12, <2>1, <2>2, AckTestType DEF HaveLastAck, InOrder, Open, TypeOK, Flag
<1>13. CASE HaveNotLastAck(p)
  <2>1. HeaderOK
    BY <1>13, AckTestType DEF HaveNotLastAck, InOrder, TypeOK, HeaderOK
  <2>2. CheckForRetransmit(p, EntryFlags, EntryTimer)
    BY <1>13 DEF HaveNotLastAck
  <2> QED BY <1>13, <2>1, <2>2, EntryType, CheckType, AckTestType
          DEF HaveNotLastAck, InOrder, Open, TypeOK
<1> QED BY <1>1, <1>2, <1>3, <1>4, <1>5, <1>6, <1>7, <1>8, <1>9, <1>10, <1>11,
           <1>12, <1>13 DEF havePacket

\* Zero and the bounds of the counters are in their types.
LEMMA ZeroType ==
    /\ 0 \in Seq32 /\ 0 \in Timer /\ 0 \in Nat /\ 0 \in 0 .. MaxLen
    /\ 0 \in 0 .. InactivityTimeout /\ 0 \in 0 .. ConnectInterval
    /\ ConnectInterval \in 0 .. ConnectInterval
    /\ UIP_RTO \in Timer
    /\ \A b \in [dst : Address, len : {0}] : b \in Buffer
BY NumbersAssumption, ValuesAssumption DEF Seq32, Timer, Buffer

\* The initial state is typed.
LEMMA InitType == Init => TypeOK
BY ZeroType, ValuesAssumption DEF Init, Start, TypeOK, Buffer

\* Every step of the program and of its environment keeps the state typed.
LEMMA NextType == TypeOK /\ [Next]_vars => TypeOK'
<1> SUFFICES ASSUME TypeOK, [Next]_vars PROVE TypeOK'
  OBVIOUS
<1>1. ASSUME NEW p \in Packet \cup {NoPacket}, Poll(p) PROVE TypeOK'
  <2>1. CallOK
    BY <1>1, HavePacketType DEF Poll
  <2>2. idle' \in 0 .. InactivityTimeout
    BY <1>1, EntryType DEF Poll, havePacket
  <2> QED BY <1>1, <2>1, <2>2 DEF Poll, TypeOK, CallOK, HeaderOK, OutputOK, Buffer
<1>2. CASE Connect
  <2>1. HeaderOK
    BY <1>2, NextPortType, NumbersAssumption, ValuesAssumption
       DEF Connect, HeaderOK, TypeOK, Seq32
  <2>2. OutputOK
    <3>1. 0 \in 0 .. MaxLen
      BY NumbersAssumption
    <3> QED BY <1>2, <2>1, <3>1, SegmentType, EmitType, AddressType
            DEF Connect, TcpFlag
  <2> QED BY <1>2, <2>1, <2>2, ZeroType
          DEF Connect, TypeOK, HeaderOK, OutputOK, Buffer
<1>3. CASE SendData
  <2>1. PICK length \in SendLengths :
          /\ unAckLen' \in {unAckLen, unAckLen + length}
          /\ timer' \in {timer, rto}
          /\ nrtx' \in {nrtx, 0}
          /\ UNCHANGED <<state, timedOut, localSeqNum, remoteSeqNum, localPort,
                         rto, periodicDue, idle>>
          /\ Emit(Segment(SourceFor(RemoteAddress), {"ACK"}, length))
    BY <1>3 DEF SendData
  <2>2. length \in Nat /\ length \in 0 .. MaxLen
    BY ValuesAssumption
  <2>3. HeaderOK
    BY <2>1 DEF HeaderOK, TypeOK
  <2>4. OutputOK
    BY <2>1, <2>2, <2>3, SegmentType, EmitType, AddressType DEF TcpFlag
  <2>5. pc' = "poll" /\ UNCHANGED <<appliFlags, sinceConnect, linkUp>>
    BY <1>3 DEF SendData
  <2> QED BY <2>1, <2>2, <2>4, <2>5 DEF TypeOK, OutputOK, Buffer
<1>4. CASE Pass
  BY <1>4 DEF Pass, TypeOK, connVars, timerVars
<1>5. CASE Hang
  BY <1>5 DEF Hang, TypeOK, connVars, timerVars
<1>6. CASE WatchdogRestart
  BY <1>6, ZeroType, ValuesAssumption DEF WatchdogRestart, TypeOK, Buffer
<1>7. CASE Tick
  BY <1>7, NumbersAssumption DEF Tick, TypeOK, connVars
<1>8. CASE LinkDown
  BY <1>8 DEF LinkDown, TypeOK, connVars, timerVars
<1>9. CASE UNCHANGED vars
  BY <1>9 DEF vars, TypeOK
<1> QED BY <1>1, <1>2, <1>3, <1>4, <1>5, <1>6, <1>7, <1>8, <1>9 DEF Next, Loop

\* The fields of the client keep their C types in every reachable state.
THEOREM TypeCorrect == Spec => []TypeOK
<1> QED BY InitType, NextType, PTL DEF Spec

-----------------------------------------------------------------------------
(* The agreement of _state, _unAckLen, _nrtx and the flags given to the sketch *)

\* The inductive invariant.  SendIsSafe is what makes OutstandingMatchesState
\* inductive (a first send finds nothing outstanding), and it says that no send
\* happens once timed out, which RetransmitBudget needs.
IInv == TypeOK /\ OutstandingMatchesState /\ SendIsSafe /\ RetransmitBudget

\* What a call of havePacket() establishes for the sketch.
CallSafe ==
    /\ OutstandingMatchesState'
    /\ RetransmitBudget'
    /\ synacked' => connected' /\ ~timedOut' /\ unAckLen' = 0
    /\ rexmit' => connected' /\ ~timedOut' /\ unAckLen' > 0

\* No flag is left over from an earlier call.
LEMMA EntryFlagsFresh == EntryFlags \cap {"CONNECTED", "REXMIT"} = {}
BY DEF EntryFlags

\* check_for_retransmit stays within the budget, and asks for a send only for
\* the outstanding request of an established connection.
LEMMA CheckSafe ==
    ASSUME IInv, ~timedOut, state' = state, NEW p,
           NEW flags, flags \cap {"CONNECTED", "REXMIT"} = {}, NEW timerNow,
           CheckForRetransmit(p, flags, timerNow)
    PROVE  /\ RetransmitBudget'
           /\ ~synacked'
           /\ rexmit' => connected' /\ ~timedOut' /\ unAckLen' > 0
<1> USE NumbersAssumption
    DEF IInv, TypeOK, RetransmitBudget, RetransmitExhausted, synacked, rexmit,
        connected
<1>1. CASE NoRetransmit(p, flags, timerNow)
  BY <1>1 DEF NoRetransmit
<1>2. CASE GiveUp(p, flags, timerNow)
  BY <1>2 DEF GiveUp
<1>3. CASE Retransmit(p, flags, timerNow)
  BY <1>3 DEF Retransmit
<1> QED BY <1>1, <1>2, <1>3 DEF CheckForRetransmit

\* Every way through havePacket() leaves the sketch in a safe position.
LEMMA HavePacketSafe ==
    ASSUME IInv, NEW p \in Packet \cup {NoPacket}, havePacket(p)
    PROVE  CallSafe
<1> USE NumbersAssumption, EntryFlagsFresh
    DEF CallSafe, IInv, TypeOK, OutstandingMatchesState, RetransmitBudget,
        RetransmitExhausted, synacked, rexmit, connected
<1>1. CASE HaveNothing(p)
  BY <1>1 DEF HaveNothing
<1>2. CASE HaveDropped(p)
  BY <1>2, CheckSafe DEF HaveDropped, Open
<1>3. CASE HaveOldSegment(p)
  BY <1>3 DEF HaveOldSegment, Open, connVars
<1>4. CASE HaveRst(p)
  BY <1>4 DEF HaveRst, Open
<1>5. CASE HaveOutOfOrder(p)
  BY <1>5 DEF HaveOutOfOrder, Open, connVars
<1>6. CASE HaveSynAck(p)
  BY <1>6 DEF HaveSynAck, InOrder, Open
<1>7. CASE HaveBadSynAck(p)
  BY <1>7 DEF HaveBadSynAck, InOrder, Open
<1>8. CASE HaveFin(p)
  BY <1>8 DEF HaveFin, InOrder, Open, FlagsAfterAck
<1>9. CASE HaveEarlyFin(p)
  BY <1>9, CheckSafe DEF HaveEarlyFin, InOrder, Open
<1>10. CASE HaveData(p)
  BY <1>10 DEF HaveData, InOrder, Open, FlagsAfterAck, UnAckLenAfterAck
<1>11. CASE HaveAckOnly(p)
  <2>1. FlagsAfterAck(p) \cap {"CONNECTED", "REXMIT"} = {}
    BY DEF FlagsAfterAck
  <2>2. unAckLen' \in {0, unAckLen}
    BY <1>11 DEF HaveAckOnly, UnAckLenAfterAck
  <2> QED BY <1>11, <2>1, <2>2, CheckSafe DEF HaveAckOnly, InOrder, Open
<1>12. CASE HaveLastAck(p)
  BY <1>12 DEF HaveLastAck, InOrder, Open
<1>13. CASE HaveNotLastAck(p)
  BY <1>13, CheckSafe DEF HaveNotLastAck, InOrder, Open
<1> QED BY <1>1, <1>2, <1>3, <1>4, <1>5, <1>6, <1>7, <1>8, <1>9, <1>10, <1>11,
           <1>12, <1>13 DEF havePacket

\* The invariant holds initially.
LEMMA InitInv == Init => IInv
BY InitType, NumbersAssumption
   DEF IInv, Init, Start, OutstandingMatchesState, SendIsSafe, RetransmitBudget,
       connected, synacked, rexmit

\* The invariant is inductive.
LEMMA NextInv == IInv /\ [Next]_vars => IInv'
<1> SUFFICES ASSUME IInv, [Next]_vars PROVE IInv'
  OBVIOUS
<1>0. TypeOK'
  BY NextType DEF IInv
<1> USE NumbersAssumption, ValuesAssumption
    DEF IInv, TypeOK, OutstandingMatchesState, SendIsSafe, RetransmitBudget,
        RetransmitExhausted, connected, synacked, rexmit
<1>1. ASSUME NEW p \in Packet \cup {NoPacket}, Poll(p) PROVE IInv'
  <2>1. CallSafe
    BY <1>1, HavePacketSafe DEF Poll
  <2> QED BY <1>0, <2>1 DEF CallSafe
<1>2. CASE Connect
  BY <1>0, <1>2 DEF Connect
<1>3. CASE SendData
  <2>1. connected /\ ~timedOut
    BY <1>3 DEF SendData, SendDue
  <2>2. unAckLen' \in SendLengths /\ nrtx' \in {nrtx, 0}
    BY <1>3, <2>1 DEF SendData, SendDue
  <2> QED BY <1>0, <1>3, <2>1, <2>2 DEF SendData
<1>4. CASE Pass
  BY <1>0, <1>4 DEF Pass, connVars, timerVars
<1>5. CASE Hang
  BY <1>0, <1>5 DEF Hang, connVars, timerVars
<1>6. CASE WatchdogRestart
  BY <1>0, <1>6 DEF WatchdogRestart
<1>7. CASE Tick
  BY <1>0, <1>7 DEF Tick, connVars
<1>8. CASE LinkDown
  BY <1>0, <1>8 DEF LinkDown, connVars, timerVars
<1>9. CASE UNCHANGED vars
  BY <1>0, <1>9 DEF vars
<1> QED BY <1>1, <1>2, <1>3, <1>4, <1>5, <1>6, <1>7, <1>8, <1>9 DEF Next, Loop

\* _state and _unAckLen, the flags and the retransmission counter agree in
\* every reachable state.
THEOREM Safety ==
    Spec => [](OutstandingMatchesState /\ SendIsSafe /\ RetransmitBudget)
<1>1. IInv => OutstandingMatchesState /\ SendIsSafe /\ RetransmitBudget
  BY DEF IInv
<1> QED BY <1>1, InitInv, NextInv, PTL DEF Spec

\* synacked() and rexmit() are only true for a connection that is open and has
\* nothing else outstanding (TCPClient.cpp:219, 313; emonCMSClient.ino:135).
THEOREM SendSafe == Spec => []SendIsSafe
<1> QED BY Safety, PTL

\* A segment is sent again UIP_MAXSYNRTX or UIP_MAXRTX times at most, whatever
\* the network answers to it (TCPClient.cpp:303-313).
THEOREM BudgetKept == Spec => []RetransmitBudget
<1> QED BY Safety, PTL

\* No connection ends without the sketch being told.
THEOREM EndSignalled == Spec => EndIsSignalled
<1>1. ASSUME [Next]_vars, state # "DISCONNECTED", state' = "DISCONNECTED",
             pc = "poll"
      PROVE  timedOut \/ appliFlags' \cap {"ABORT", "CLOSE"} # {}
  <2>1. ASSUME NEW p \in Packet \cup {NoPacket}, Poll(p)
        PROVE  timedOut \/ appliFlags' \cap {"ABORT", "CLOSE"} # {}
    <3>1. havePacket(p)
      BY <2>1 DEF Poll
    <3> QED BY <1>1, <3>1
            DEF havePacket, HaveNothing, HaveDropped, HaveOldSegment, HaveRst,
                HaveOutOfOrder, HaveSynAck, HaveBadSynAck, HaveFin, HaveEarlyFin,
                HaveData, HaveAckOnly, HaveLastAck, HaveNotLastAck, connVars
  <2>2. CASE Loop
    BY <1>1, <2>2 DEF Loop, Connect, SendData, Pass, Hang, WatchdogRestart
  <2>3. CASE Tick \/ LinkDown \/ UNCHANGED vars
    BY <1>1, <2>3 DEF Tick, LinkDown, connVars, vars
  <2> QED BY <1>1, <2>1, <2>2, <2>3 DEF Next
<1> QED BY <1>1, PTL DEF Spec, EndIsSignalled

=============================================================================
