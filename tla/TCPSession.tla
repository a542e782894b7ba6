----------------------------- MODULE TCPSession -----------------------------
(***************************************************************************)
(* The client of TCPClient against an HTTP server, over a network that     *)
(* loses, duplicates and reorders segments.                                *)
(*                                                                         *)
(* The sketch of TCPClient opens one connection after the other, sends one *)
(* request on each and reads the response until the server closes.  The    *)
(* server is code outside the repository: it is modelled as a TCP with a   *)
(* sliding window that retransmits when it likes.  A segment in flight is  *)
(* a frame with the identity of its payload: the connection and the        *)
(* position in the stream its bytes belong to.                             *)
(***************************************************************************)
EXTENDS TCPClient, Sequences, FiniteSets

CONSTANTS
    ResponseLen,        \* length of the server's response
    Window,             \* how far the server sends ahead
    Capacity,           \* segments in flight at a time; what exceeds it is lost
    MaxConnections,     \* connections the sketch opens
    ClientIsn,          \* the number random() gives at each connection ...
    ServerIsn,          \* ... and the server's for it
    EarlyBareAck        \* whether a server that waits for the last step of the
                        \* handshake answers a segment outside its window with
                        \* a bare ACK (RFC 793, page 69)

ASSUME SessionAssumption ==
    /\ ResponseLen \in Nat /\ Window \in Nat \ {0} /\ Capacity \in Nat \ {0}
    /\ MaxConnections \in Nat /\ EarlyBareAck \in BOOLEAN
    /\ ClientIsn \in [1 .. MaxConnections -> RandomSeq]
    /\ ServerIsn \in [1 .. MaxConnections -> Seq32]

VARIABLES
    net,        \* the segments in flight
    srv,        \* the server's control block for each port of the client
    conns,      \* connections opened by the sketch so far
    delivered   \* what the sketch has read on its last connection

sessionVars == <<net, srv, conns, delivered>>
allVars == <<vars, sessionVars>>

\* Offsets in the server's stream: its SYN, the response, its FIN
FinOffset == ResponseLen + 1

NoTcb == [st |-> "NONE"]

-----------------------------------------------------------------------------
(* The network *)

\* Segments put into the network, as far as there is room
Carry(inFlight, new) ==
    IF Cardinality(inFlight \cup new) <= Capacity THEN inFlight \cup new
                                                  ELSE inFlight

\* A segment that is received may stay, to be received again
Taken(m) == {net, net \ {m}}

Lose ==
    /\ \E m \in net : net' = net \ {m}
    /\ UNCHANGED <<vars, srv, conns, delivered>>

-----------------------------------------------------------------------------
(* The client's steps, with what they put into the network *)

\* What a client's step transmits
Transmitted(connection) ==
    IF sent' = NoPacket THEN {} ELSE {[pkt |-> sent', body |-> <<connection, 0>>]}

ClientReceives ==
    \E m \in net :
        /\ m.pkt.dst = LinkLocalAddress
        /\ Poll(m.pkt)
        /\ \E rest \in Taken(m) : net' = Carry(rest, Transmitted(conns))
        /\ delivered' = IF "NEWDATA" \in appliFlags' THEN Append(delivered, m.body)
                                                     ELSE delivered
        /\ UNCHANGED <<srv, conns>>

ClientReceivesNothing ==
    /\ Poll(NoPacket)
    /\ net' = Carry(net, Transmitted(conns))
    /\ UNCHANGED <<srv, conns, delivered>>

ClientConnects ==
    /\ conns < MaxConnections
    /\ Connect /\ localSeqNum' = ClientIsn[conns + 1]
    /\ conns' = conns + 1
    /\ delivered' = <<>>
    /\ net' = Carry(net, Transmitted(conns'))
    /\ UNCHANGED srv

\* The sketch has opened all the connections this model allows
ClientRests ==
    /\ pc = "app" /\ ~ResetDue /\ ConnectDue /\ conns = MaxConnections
    /\ pc' = "poll"
    /\ sent' = NoPacket
    /\ UNCHANGED <<connVars, timerVars, appliFlags, buffer, sinceConnect, linkUp,
                   sessionVars>>

ClientSends ==
    /\ SendData
    /\ net' = Carry(net, Transmitted(conns))
    /\ UNCHANGED <<srv, conns, delivered>>

ClientOther ==
    /\ Pass \/ Hang \/ WatchdogRestart \/ Tick
    /\ UNCHANGED sessionVars

-----------------------------------------------------------------------------
(* The server *)

ToClient(port, tcb, flags, offset, len) ==
    [pkt |-> [src |-> RemoteAddress, dst |-> LinkLocalAddress, proto |-> "TCP",
              sport |-> RemotePort, dport |-> port, flags |-> flags,
              seq |-> Plus(tcb.iss, offset), ack |-> tcb.rcvNxt, len |-> len],
     body |-> <<tcb.peer, offset>>]

BareAck(port, tcb) == ToClient(port, tcb, {"ACK"}, tcb.nxt, 0)

\* A passive open
Accept(m, port) ==
    /\ "SYN" \in m.pkt.flags /\ srv[port].st = "NONE"
    /\ LET tcb == [st |-> "SYN_RCVD", peer |-> m.body[1],
                   iss |-> ServerIsn[m.body[1]], rcvNxt |-> Plus(m.pkt.seq, 1),
                   una |-> 0, nxt |-> 1, requests |-> <<>>]
       IN  /\ srv' = [srv EXCEPT ![port] = tcb]
           /\ \E rest \in Taken(m) :
                net' = Carry(rest, {ToClient(port, tcb, {"SYN", "ACK"}, 0, 0)})

\* A SYN that comes again: the SYN|ACK is sent again, or the bare ACK that any
\* segment outside the window is answered with
AnswerSynAgain(m, port) ==
    /\ "SYN" \in m.pkt.flags /\ srv[port].st # "NONE"
    /\ LET tcb == srv[port]
           answer == IF tcb.st = "SYN_RCVD" /\ ~EarlyBareAck
                       THEN ToClient(port, tcb, {"SYN", "ACK"}, 0, 0)
                       ELSE BareAck(port, tcb)
       IN  \E rest \in Taken(m) : net' = Carry(rest, {answer})
    /\ UNCHANGED srv

ReceiveRst(m, port) ==
    /\ "RST" \in m.pkt.flags
    /\ srv' = IF srv[port].st # "NONE" /\ m.pkt.seq = srv[port].rcvNxt
                THEN [srv EXCEPT ![port] = NoTcb] ELSE srv
    /\ net' \in Taken(m)

\* A segment for a connection that does not exist is answered with a RST
Refuse(m, port) ==
    /\ m.pkt.flags \cap {"SYN", "RST"} = {} /\ srv[port].st = "NONE"
    /\ \E rest \in Taken(m) :
        net' = Carry(rest,
                {[pkt |-> [src |-> RemoteAddress, dst |-> LinkLocalAddress,
                           proto |-> "TCP", sport |-> RemotePort, dport |-> port,
                           flags |-> {"RST"}, seq |-> m.pkt.ack, ack |-> 0,
                           len |-> 0],
                  body |-> m.body]})
    /\ UNCHANGED srv

\* The acknowledgement, the data and the FIN of a segment of a connection
Receive(m, port) ==
    /\ m.pkt.flags \cap {"SYN", "RST"} = {} /\ srv[port].st # "NONE"
    /\ LET tcb == srv[port]
           acked == (m.pkt.ack - tcb.iss) % SeqMod
           una == IF acked > tcb.una /\ acked <= tcb.nxt THEN acked ELSE tcb.una
           new == (m.pkt.seq + m.pkt.len - tcb.rcvNxt) % SeqMod
           hasData == una > 0 /\ new \in 1 .. m.pkt.len
           next == IF hasData THEN Plus(tcb.rcvNxt, new) ELSE tcb.rcvNxt
           hasFin == /\ una > 0 /\ "FIN" \in m.pkt.flags
                     /\ Plus(m.pkt.seq, m.pkt.len) = next
           now == [tcb EXCEPT
                    !.una = una,
                    !.st = IF hasFin THEN "DONE"
                           ELSE IF tcb.st = "SYN_RCVD" /\ una > 0 THEN "OPEN"
                           ELSE tcb.st,
                    !.rcvNxt = IF hasFin THEN Plus(next, 1) ELSE next,
                    !.requests = IF hasData THEN Append(@, m.body[1]) ELSE @]
           answered == (m.pkt.len > 0 \/ "FIN" \in m.pkt.flags)
                        /\ (una > 0 \/ EarlyBareAck)
           answer == IF answered THEN {BareAck(port, now)} ELSE {}
       IN  /\ srv' = [srv EXCEPT ![port] = now]
           /\ \E rest \in Taken(m) : net' = Carry(rest, answer)

ServerReceives ==
    \E m \in net :
        /\ m.pkt.dst = RemoteAddress /\ m.pkt.dport = RemotePort
        /\ LET port == m.pkt.sport
           IN  \/ Accept(m, port)
               \/ AnswerSynAgain(m, port)
               \/ ReceiveRst(m, port)
               \/ Refuse(m, port)
               \/ Receive(m, port)
        /\ UNCHANGED <<vars, conns, delivered>>

\* How far the server may send: its SYN, then the response to a request, its FIN
Sendable(tcb) ==
    IF tcb.st = "SYN_RCVD" THEN 0 .. 0
    ELSE IF tcb.st # "OPEN" \/ tcb.requests = <<>> THEN {}
    ELSE {o \in tcb.una .. tcb.una + Window - 1 : o <= tcb.nxt /\ o <= FinOffset}

\* The server sends, or sends again, a segment of its stream; its FIN may
\* come with the last byte
ServerSends ==
    \E port \in Port :
        \E offset \in Sendable(srv[port]), withFin \in BOOLEAN :
            LET tcb == srv[port]
                len == IF offset \in 1 .. ResponseLen THEN 1 ELSE 0
                fin == offset = FinOffset \/ withFin
                last == IF withFin THEN FinOffset ELSE offset
                now == [tcb EXCEPT !.nxt = IF last + 1 > @ THEN last + 1 ELSE @]
                flags == IF offset = 0 THEN {"SYN", "ACK"}
                         ELSE IF fin THEN {"FIN", "ACK"} ELSE {"ACK"}
            IN  /\ withFin => offset = ResponseLen /\ offset > 0
                /\ srv' = [srv EXCEPT ![port] = now]
                /\ net' = Carry(net, {ToClient(port, tcb, flags, offset, len)})
                /\ UNCHANGED <<vars, conns, delivered>>

\* The end of TIME_WAIT
ServerForgets ==
    \E port \in Port :
        /\ srv[port].st = "DONE"
        /\ srv' = [srv EXCEPT ![port] = NoTcb]
        /\ UNCHANGED <<vars, net, conns, delivered>>

-----------------------------------------------------------------------------

SessionInit ==
    /\ Init
    /\ net = {}
    /\ srv = [port \in Port |-> NoTcb]
    /\ conns = 0
    /\ delivered = <<>>

SessionNext ==
    \/ ClientReceives \/ ClientReceivesNothing \/ ClientConnects \/ ClientRests
    \/ ClientSends \/ ClientOther
    \/ ServerReceives \/ ServerSends \/ ServerForgets
    \/ Lose

SessionSpec == SessionInit /\ [][SessionNext]_allVars

-----------------------------------------------------------------------------
(* The streams as numbers *)

\* The length of the request
RequestLen == CHOOSE n \in SendLengths : TRUE

\* The numbers of the client's and of the server's stream on connection c: of the
\* SYN, of the bytes from 1 on, and of the FIN
ClientNumber(c, k) == Plus(ClientIsn[c], k)
ServerNumber(c, k) == Plus(ServerIsn[c], k)

\* What TCP asks of the numbers, and of the sketch: a request is sent again as it
\* was, both streams are shorter than the sequence space, no number is of two
\* connections, and the server answers a SYN with a SYN|ACK until it is done
\* with the handshake (SynackedMeansSyn says what happens otherwise)
Ordinary ==
    /\ SendLengths = {RequestLen}
    /\ RequestLen + 2 < SeqMod /\ ResponseLen + 2 < SeqMod
    /\ \A c, d \in 1 .. MaxConnections : c # d =>
         /\ \A j, k \in 0 .. RequestLen + 2 : ClientNumber(c, j) # ClientNumber(d, k)
         /\ \A j, k \in 0 .. ResponseLen + 2 : ServerNumber(c, j) # ServerNumber(d, k)
    /\ ~EarlyBareAck

-----------------------------------------------------------------------------
(* Properties *)

\* What the sketch reads is the response of the connection it has open: each
\* byte once, in order, nothing of an earlier connection.
ReadsResponseInOrder ==
    delivered = [i \in 1 .. Len(delivered) |-> <<conns, i>>]

\* closing() after a FIN means that the whole response has been read.
CloseMeansComplete == state = "LAST_ACK" => Len(delivered) = ResponseLen

\* However often the request is sent, the server gets it once, on the
\* connection it was made for.
RequestOnce ==
    \A port \in Port :
        srv[port].st # "NONE" => srv[port].requests \in {<<>>, <<srv[port].peer>>}

\* While connected, the sequence numbers of the client and of the server
\* describe the same two streams: the server knows this connection, expects what
\* the client sends next or has acknowledged what is outstanding, and the client
\* expects the byte after the last one read.
SequenceAgreement ==
    connected /\ ~timedOut => LET tcb == srv[localPort] IN
        /\ tcb.st \in {"SYN_RCVD", "OPEN"} /\ tcb.peer = conns
        /\ tcb.rcvNxt \in {localSeqNum, Plus(localSeqNum, unAckLen)}
        /\ remoteSeqNum = Plus(tcb.iss, 1 + Len(delivered))

-----------------------------------------------------------------------------
(* What a comment of the source says, and the code does not do *)

\* TCPClient.h:79, "check if connection has been synacked": synacked() means that
\* the server's SYN, and with it its initial sequence number, has been
\* received.  havePacket() takes any segment with an ACK for it.
SynackedMeansSyn ==
    synacked /\ pc = "app" /\ srv[localPort].st # "NONE"
        => remoteSeqNum = Plus(srv[localPort].iss, 1)

=============================================================================
