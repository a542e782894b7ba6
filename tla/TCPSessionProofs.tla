-------------------------- MODULE TCPSessionProofs --------------------------
(***************************************************************************)
(* What TCPSession promises for every size of the sequence numbers, of the *)
(* request, of the response, of the server's window and of the network,    *)
(* and any number of connections, when the numbers are Ordinary: the       *)
(* response is read once, in order and whole, the request is received      *)
(* once, and the numbers of both sides describe the same two streams,      *)
(* although segments are lost, duplicated and reordered, from the          *)
(* connections before as well, and the sketch is started anew at any time. *)
(*                                                                         *)
(* The argument: every number that is sent is that of a byte of one of the *)
(* two streams of one connection, and such a number tells which            *)
(* (ClientNumbersDiffer, ServerNumbersDiffer).  The client stands at the   *)
(* byte after the last one it has read, and its request is unsent,         *)
(* outstanding or acknowledged (ClientRight).  A segment carries a byte at *)
(* the number of that byte, and acknowledges no more than the server has   *)
(* received (NetRight): hence what havePacket() finds in order is the next *)
(* byte, of this connection, and what it takes for an acknowledgement      *)
(* means that the server has the request.  A control block of the server   *)
(* has received nothing, the request, or the request and the FIN           *)
(* (TcbRight), and the one of the connection that is open is never reset,  *)
(* because a RST has the number of another connection (ResetFromClient) or *)
(* ends the client's (Active).                                             *)
(***************************************************************************)
EXTENDS TCPSession, TCPClientProofs

-----------------------------------------------------------------------------
(* The inductive invariant *)

\* The connection is being opened, or is open
Active == state \in {"WAIT_SYN_ACK", "CONNECTED"} /\ ~timedOut

Unsent == localSeqNum = ClientNumber(conns, 1) /\ unAckLen = 0
Outstanding == localSeqNum = ClientNumber(conns, 1) /\ unAckLen = RequestLen
Acknowledged == localSeqNum = ClientNumber(conns, 1 + RequestLen) /\ unAckLen = 0

\* Where the client is in the two streams
ClientRight ==
    /\ conns \in 0 .. MaxConnections
    /\ state \in {"DISCONNECTED", "WAIT_SYN_ACK", "CONNECTED", "LAST_ACK"}
    /\ state # "DISCONNECTED" => conns # 0
    /\ \E n \in 0 .. ResponseLen : delivered = [i \in 1 .. n |-> <<conns, i>>]
    /\ state = "WAIT_SYN_ACK" =>
         localSeqNum = ClientNumber(conns, 0) /\ unAckLen = 1 /\ delivered = <<>>
    /\ state = "CONNECTED" =>
         /\ remoteSeqNum = ServerNumber(conns, 1 + Len(delivered))
         /\ Unsent \/ Outstanding \/ Acknowledged
    /\ state = "LAST_ACK" =>
         /\ localSeqNum = ClientNumber(conns, 1 + RequestLen) /\ unAckLen = 1
         /\ remoteSeqNum = ServerNumber(conns, 2 + ResponseLen) /\ Len(delivered) = ResponseLen
    /\ pc = "poll" /\ connected => ~Unsent
    /\ pc = "app" =>
         /\ synacked => connected /\ Unsent
         /\ rexmit => connected /\ Outstanding
         /\ connected /\ Unsent => synacked

\* A segment from the server that is not a RST
FromServer(m) ==
    /\ m.pkt.dst = LinkLocalAddress
    /\ m.pkt.dport \in Port
    /\ m.body = <<m.body[1], m.body[2]>>
    /\ m.body[1] \in 1 .. conns /\ m.body[2] \in 0 .. ResponseLen + 2
    /\ m.pkt.seq = ServerNumber(m.body[1], m.body[2])
    /\ \E k \in 1 .. 2 + RequestLen : m.pkt.ack = ClientNumber(m.body[1], k)
    /\ "ACK" \in m.pkt.flags /\ "RST" \notin m.pkt.flags
    /\ m.pkt.len = 0 \/ (m.pkt.len = 1 /\ m.body[2] \in 1 .. ResponseLen)
    /\ "FIN" \in m.pkt.flags => m.body[2] + m.pkt.len = 1 + ResponseLen
    \* once the connection has been opened anew
    /\ Active /\ m.body[1] = conns =>
         /\ m.pkt.dport = localPort
         /\ srv[localPort].st # "NONE" /\ srv[localPort].peer = conns
         /\ m.pkt.ack \in {ClientNumber(conns, 1), srv[localPort].rcvNxt}
         /\ state = "WAIT_SYN_ACK" => m.body[2] = 0

\* A segment from the client that is not a RST
FromClient(m) ==
    /\ m.pkt.dst = RemoteAddress /\ m.pkt.sport \in Port
    /\ m.body[1] \in 1 .. conns
    /\ \/ m.pkt.flags = {"SYN"} /\ m.pkt.seq = ClientNumber(m.body[1], 0)
       \/ /\ m.pkt.flags \in {{"ACK"}, {"FIN", "ACK"}}
          /\ \E k \in 1 .. ResponseLen + 2 : m.pkt.ack = ServerNumber(m.body[1], k)
          /\ \/ m.pkt.len = RequestLen /\ m.pkt.seq = ClientNumber(m.body[1], 1)
                /\ "FIN" \notin m.pkt.flags
             \/ /\ m.pkt.len = 0
                /\ "FIN" \in m.pkt.flags => m.pkt.seq = ClientNumber(m.body[1], 1 + RequestLen)
    /\ Active /\ m.body[1] = conns =>
         /\ m.pkt.sport = localPort /\ "FIN" \notin m.pkt.flags
         /\ state = "WAIT_SYN_ACK" => m.pkt.flags = {"SYN"}
         /\ Unsent /\ m.pkt.flags # {"SYN"} => m.pkt.len = 0

\* A RST from the client
ResetFromClient(m) ==
    /\ m.pkt.dst = RemoteAddress /\ m.pkt.sport \in Port /\ m.pkt.flags = {"RST", "ACK"}
    /\ \E c \in 1 .. conns, k \in 0 .. 2 + RequestLen :
         m.pkt.seq = ClientNumber(c, k) /\ (Active => c # conns)

ResetFromServer(m) == m.pkt.dst = LinkLocalAddress /\ m.pkt.flags = {"RST"}

NetRight ==
    \A m \in net : FromServer(m) \/ ResetFromServer(m) \/ FromClient(m) \/ ResetFromClient(m)

\* What a control block of the server has received
TcbRight(tcb) ==
    /\ tcb \in [st : {"SYN_RCVD", "OPEN", "DONE"}, peer : 1 .. conns, iss : Seq32, rcvNxt : Seq32,
               una : Nat, nxt : 1 .. ResponseLen + 2, requests : Seq(Nat)]
    /\ tcb.iss = ServerIsn[tcb.peer]
    /\ tcb.una = 0 <=> tcb.st = "SYN_RCVD"
    /\ \/ tcb.st # "DONE" /\ tcb.requests = <<>> /\ tcb.rcvNxt = ClientNumber(tcb.peer, 1)
       \/ /\ tcb.st = "OPEN" /\ tcb.requests = <<tcb.peer>>
          /\ tcb.rcvNxt = ClientNumber(tcb.peer, 1 + RequestLen)
       \/ /\ tcb.st = "DONE" /\ tcb.requests = <<tcb.peer>>
          /\ tcb.rcvNxt = ClientNumber(tcb.peer, 2 + RequestLen)

\* ... and when it is of the connection that is open
TcbOfConnection(port) ==
    /\ port = localPort /\ srv[port].st # "DONE"
    /\ state = "WAIT_SYN_ACK" => srv[port].st = "SYN_RCVD"
    /\ Unsent => srv[port].requests = <<>>
    /\ Acknowledged => srv[port].requests # <<>>

ServerRight ==
    /\ DOMAIN srv = Port
    /\ \A port \in Port : srv[port].st = "NONE" \/ TcbRight(srv[port])
    /\ Active => \A port \in Port : srv[port].st # "NONE" /\ srv[port].peer = conns
                                        => TcbOfConnection(port)
    /\ Active /\ connected => srv[localPort].st # "NONE" /\ srv[localPort].peer = conns

SessionInv == localPort \in Port /\ ClientRight /\ NetRight /\ ServerRight

-----------------------------------------------------------------------------
(* Sequence numbers *)

\* The remainder of what is less than one turn below, or two above
LEMMA SmallMod ==
    ASSUME NEW b \in Nat, b > 0, NEW x \in Int, -b <= x, x < 2 * b
    PROVE  x % b = IF x < 0 THEN x + b ELSE IF x < b THEN x ELSE x - b
<1>1. x \div b \in Int /\ x % b \in 0 .. b - 1 /\ x = b * (x \div b) + (x % b)
  OBVIOUS
<1>2. PICK q \in Int, r \in 0 .. b - 1 : q = x \div b /\ r = x % b /\ x = b * q + r
  BY <1>1
<1>3. q \in {-1, 0, 1}
  <2>1. q >= 2 => b * q >= 2 * b
    OBVIOUS
  <2>2. q <= -2 => b * q <= (-2) * b
    OBVIOUS
  <2>3. b * q \in Int
    OBVIOUS
  <2> QED
    BY <1>2, <2>1, <2>2, <2>3
<1>4. q = -1 => b * q = -b
  OBVIOUS
<1>5. q = 0 => b * q = 0
  OBVIOUS
<1>6. q = 1 => b * q = b
  OBVIOUS
<1> QED
  BY <1>2, <1>3, <1>4, <1>5, <1>6

\* A sum of sequence numbers wraps once at most (uint32_t, TCPClient.h:174-175)
LEMMA PlusIs ==
    ASSUME NEW a \in 0 .. SeqMod - 1, NEW n \in 0 .. SeqMod - 1
    PROVE  Plus(a, n) = IF a + n < SeqMod THEN a + n ELSE a + n - SeqMod
BY SmallMod, NumbersAssumption DEF Plus

\* What Ordinary and the assumptions on the constants say of the sizes
LEMMA Sizes ==
    ASSUME Ordinary
    PROVE  /\ SeqMod \in Nat /\ RequestLen \in Nat /\ RequestLen >= 1 /\ ResponseLen \in Nat
           /\ RequestLen + 2 < SeqMod /\ ResponseLen + 2 < SeqMod /\ MaxConnections \in Nat
           /\ SendLengths = {RequestLen}
<1>1. SendLengths = {RequestLen}
  BY DEF Ordinary
<1>2. RequestLen \in 1 .. MaxLen
  BY <1>1, ValuesAssumption
<1> QED
  BY <1>1, <1>2, NumbersAssumption, SessionAssumption DEF Ordinary

\* The numbers of a stream, from any number on
LEMMA PlusFacts ==
    ASSUME NEW N \in Nat, N < SeqMod, NEW isn \in 0 .. SeqMod - 1
    PROVE  /\ Plus(isn, 0) = isn
           /\ \A k \in 0 .. N : Plus(isn, k) \in 0 .. SeqMod - 1
           /\ \A k \in 0 .. N, n \in 0 .. N : k + n <= N => Plus(Plus(isn, k), n) = Plus(isn, k + n)
           /\ \A j \in 0 .. N, k \in 0 .. N : Plus(isn, j) = Plus(isn, k) => j = k
<1>1. SeqMod \in Nat /\ SeqMod > 0
  BY NumbersAssumption
<1>2. Plus(isn, 0) = isn
  BY <1>1, PlusIs
<1>3. \A k \in 0 .. N : Plus(isn, k) = IF isn + k < SeqMod THEN isn + k ELSE isn + k - SeqMod
  BY <1>1, PlusIs
<1>4. \A k \in 0 .. N : Plus(isn, k) \in 0 .. SeqMod - 1
  BY <1>1, <1>3
<1>5. ASSUME NEW k \in 0 .. N, NEW n \in 0 .. N, k + n <= N
      PROVE  Plus(Plus(isn, k), n) = Plus(isn, k + n)
  <2>1. PICK a \in 0 .. SeqMod - 1 : a = Plus(isn, k)
    BY <1>4
  <2>2. Plus(a, n) = IF a + n < SeqMod THEN a + n ELSE a + n - SeqMod
    BY <1>1, PlusIs
  <2>3. PICK t \in 0 .. N : t = k + n
    BY <1>5
  <2>4. Plus(isn, t) = IF isn + t < SeqMod THEN isn + t ELSE isn + t - SeqMod
    BY <1>3
  <2>5. a = IF isn + k < SeqMod THEN isn + k ELSE isn + k - SeqMod
    BY <1>3, <2>1
  <2>6. Plus(a, n) = Plus(isn, t)
    BY <1>1, <2>2, <2>3, <2>4, <2>5
  <2> QED
    BY <2>1, <2>3, <2>6
<1>6. ASSUME NEW j \in 0 .. N, NEW k \in 0 .. N, Plus(isn, j) = Plus(isn, k)
      PROVE  j = k
  BY <1>1, <1>3, <1>6
<1> QED
  BY <1>2, <1>4, <1>5, <1>6

\* What a difference of numbers is
LEMMA MinusIs ==
    ASSUME NEW a \in 0 .. SeqMod - 1, NEW b \in 0 .. SeqMod - 1, NEW l \in 0 .. SeqMod - 1
    PROVE  /\ (a + l - b) % SeqMod \in 0 .. SeqMod - 1
           /\ Plus(b, (a + l - b) % SeqMod) = Plus(a, l)
           /\ (a - b) % SeqMod \in 0 .. SeqMod - 1
           /\ Plus(b, (a - b) % SeqMod) = a
<1>1. SeqMod \in Nat /\ SeqMod > 0
  BY NumbersAssumption
<1>2. PICK x \in Int : x = a + l - b /\ -SeqMod <= x /\ x < 2 * SeqMod
  BY <1>1
<1>3. x % SeqMod = IF x < 0 THEN x + SeqMod ELSE IF x < SeqMod THEN x ELSE x - SeqMod
  BY <1>1, <1>2, SmallMod
<1>4. PICK r \in 0 .. SeqMod - 1 : r = (a + l - b) % SeqMod
         /\ r = IF x < 0 THEN x + SeqMod ELSE IF x < SeqMod THEN x ELSE x - SeqMod
  BY <1>1, <1>2, <1>3
<1>5. Plus(b, r) = Plus(a, l)
  <2>1. Plus(b, r) = IF b + r < SeqMod THEN b + r ELSE b + r - SeqMod
    BY PlusIs
  <2>2. Plus(a, l) = IF a + l < SeqMod THEN a + l ELSE a + l - SeqMod
    BY PlusIs
  <2> QED
    BY <1>1, <1>2, <1>4, <2>1, <2>2
<1>6. PICK y \in Int : y = a - b /\ -SeqMod <= y /\ y < 2 * SeqMod
  BY <1>1
<1>7. y % SeqMod = IF y < 0 THEN y + SeqMod ELSE IF y < SeqMod THEN y ELSE y - SeqMod
  BY <1>1, <1>6, SmallMod
<1>8. PICK s \in 0 .. SeqMod - 1 : s = (a - b) % SeqMod
         /\ s = IF y < 0 THEN y + SeqMod ELSE IF y < SeqMod THEN y ELSE y - SeqMod
  BY <1>1, <1>6, <1>7
<1>9. Plus(b, s) = a
  <2>1. Plus(b, s) = IF b + s < SeqMod THEN b + s ELSE b + s - SeqMod
    BY PlusIs
  <2> QED
    BY <1>1, <1>6, <1>8, <2>1
<1> QED
  BY <1>4, <1>5, <1>8, <1>9

\* The same number is added to equal numbers
LEMMA Cancel ==
    ASSUME NEW a \in 0 .. SeqMod - 1, NEW b \in 0 .. SeqMod - 1, NEW x \in 0 .. SeqMod - 1,
           Plus(a, x) = Plus(b, x)
    PROVE  a = b
<1>1. SeqMod \in Nat /\ SeqMod > 0
  BY NumbersAssumption
<1>2. Plus(a, x) = IF a + x < SeqMod THEN a + x ELSE a + x - SeqMod
  BY PlusIs
<1>3. Plus(b, x) = IF b + x < SeqMod THEN b + x ELSE b + x - SeqMod
  BY PlusIs
<1>4. (IF a + x < SeqMod THEN a + x ELSE a + x - SeqMod)
         = (IF b + x < SeqMod THEN b + x ELSE b + x - SeqMod)
  BY <1>2, <1>3
<1>5. PICK k \in Int, l \in Int, y \in Int, s \in Int : k = a /\ l = b /\ y = x /\ s = SeqMod
  BY <1>1
<1>6. k >= 0 /\ k < s /\ l >= 0 /\ l < s /\ y >= 0 /\ y < s
  BY <1>1, <1>5
<1>7. (IF k + y < s THEN k + y ELSE k + y - s) = (IF l + y < s THEN l + y ELSE l + y - s)
  BY <1>4, <1>5
<1>8. k = l
  BY <1>6, <1>7
<1> QED
  BY <1>5, <1>8

Connections == 1 .. MaxConnections
ClientOffsets == 0 .. RequestLen + 2
ServerOffsets == 0 .. ResponseLen + 2

\* Numbers of the client's stream, and those after them
LEMMA ClientNumbers ==
    ASSUME Ordinary, NEW c \in Connections
    PROVE  /\ ClientNumber(c, 0) = ClientIsn[c]
           /\ \A k \in ClientOffsets : ClientNumber(c, k) \in 0 .. SeqMod - 1
           /\ \A k \in ClientOffsets, n \in ClientOffsets : k + n <= RequestLen + 2 =>
                Plus(ClientNumber(c, k), n) = ClientNumber(c, k + n)
<1>1. PICK isn \in 0 .. SeqMod - 1 : isn = ClientIsn[c]
  BY SessionAssumption, ValuesAssumption DEF Connections, Seq32
<1>2. PICK N \in Nat : N = RequestLen + 2 /\ N < SeqMod
  BY Sizes
<1> QED
  BY <1>1, <1>2, PlusFacts DEF ClientNumber, ClientOffsets

\* Numbers of the server's stream, and those after them
LEMMA ServerNumbers ==
    ASSUME Ordinary, NEW c \in Connections
    PROVE  /\ ServerNumber(c, 0) = ServerIsn[c]
           /\ \A k \in ServerOffsets : ServerNumber(c, k) \in 0 .. SeqMod - 1
           /\ \A k \in ServerOffsets, n \in ServerOffsets : k + n <= ResponseLen + 2 =>
                Plus(ServerNumber(c, k), n) = ServerNumber(c, k + n)
<1>1. PICK isn \in 0 .. SeqMod - 1 : isn = ServerIsn[c]
  BY SessionAssumption DEF Connections, Seq32
<1>2. PICK N \in Nat : N = ResponseLen + 2 /\ N < SeqMod
  BY Sizes
<1> QED
  BY <1>1, <1>2, PlusFacts DEF ServerNumber, ServerOffsets

\* A number of a client's stream tells the connection and the place in it
LEMMA ClientNumbersDiffer ==
    ASSUME Ordinary, NEW c \in Connections, NEW d \in Connections,
           NEW j \in ClientOffsets, NEW k \in ClientOffsets, ClientNumber(c, j) = ClientNumber(d, k)
    PROVE  c = d /\ j = k
<1>1. c = d
  BY DEF Ordinary, Connections, ClientOffsets
<1>2. PICK isn \in 0 .. SeqMod - 1 : isn = ClientIsn[c]
  BY SessionAssumption, ValuesAssumption DEF Connections, Seq32
<1>3. PICK N \in Nat : N = RequestLen + 2 /\ N < SeqMod
  BY Sizes
<1> QED
  BY <1>1, <1>2, <1>3, PlusFacts DEF ClientNumber, ClientOffsets

\* A number of a server's stream tells the connection and the byte
LEMMA ServerNumbersDiffer ==
    ASSUME Ordinary, NEW c \in Connections, NEW d \in Connections,
           NEW j \in ServerOffsets, NEW k \in ServerOffsets, ServerNumber(c, j) = ServerNumber(d, k)
    PROVE  c = d /\ j = k
<1>1. c = d
  BY DEF Ordinary, Connections, ServerOffsets
<1>2. PICK isn \in 0 .. SeqMod - 1 : isn = ServerIsn[c]
  BY SessionAssumption DEF Connections, Seq32
<1>3. PICK N \in Nat : N = ResponseLen + 2 /\ N < SeqMod
  BY Sizes
<1> QED
  BY <1>1, <1>2, <1>3, PlusFacts DEF ServerNumber, ServerOffsets

\* The numbers a connection goes through
LEMMA Steps ==
    ASSUME Ordinary, NEW c \in Connections
    PROVE  /\ Plus(ClientNumber(c, 0), 1) = ClientNumber(c, 1)
           /\ Plus(ClientNumber(c, 1), RequestLen) = ClientNumber(c, 1 + RequestLen)
           /\ Plus(ClientNumber(c, 1 + RequestLen), 0) = ClientNumber(c, 1 + RequestLen)
           /\ Plus(ClientNumber(c, 1 + RequestLen), 1) = ClientNumber(c, 2 + RequestLen)
           /\ Plus(ServerNumber(c, 0), 1) = ServerNumber(c, 1)
           /\ \A n \in 0 .. ResponseLen, l \in 0 .. 1 : n + l <= ResponseLen =>
                /\ Plus(ServerNumber(c, 1 + n), l) = ServerNumber(c, 1 + (n + l))
                /\ n + l = ResponseLen =>
                     Plus(ServerNumber(c, 1 + n), l + 1) = ServerNumber(c, 2 + ResponseLen)
<1>1. RequestLen \in Nat /\ RequestLen >= 1 /\ ResponseLen \in Nat
  BY Sizes
<1>2. Plus(ClientNumber(c, 0), 1) = ClientNumber(c, 0 + 1)
  BY <1>1, ClientNumbers DEF ClientOffsets
<1>3. Plus(ClientNumber(c, 1), RequestLen) = ClientNumber(c, 1 + RequestLen)
  BY <1>1, ClientNumbers DEF ClientOffsets
<1>4. PICK l \in ClientOffsets : l = 1 + RequestLen
  BY <1>1 DEF ClientOffsets
<1>5. Plus(ClientNumber(c, l), 0) = ClientNumber(c, l + 0)
         /\ Plus(ClientNumber(c, l), 1) = ClientNumber(c, l + 1)
  BY <1>1, <1>4, ClientNumbers DEF ClientOffsets
<1>6. l + 0 = 1 + RequestLen /\ l + 1 = 2 + RequestLen /\ 0 + 1 = 1
  BY <1>1, <1>4
<1>7. Plus(ServerNumber(c, 0), 1) = ServerNumber(c, 0 + 1)
  BY <1>1, ServerNumbers DEF ServerOffsets
<1>8. ASSUME NEW n \in 0 .. ResponseLen, NEW i \in 0 .. 1, n + i <= ResponseLen
      PROVE  /\ Plus(ServerNumber(c, 1 + n), i) = ServerNumber(c, 1 + (n + i))
             /\ n + i = ResponseLen =>
                  Plus(ServerNumber(c, 1 + n), i + 1) = ServerNumber(c, 2 + ResponseLen)
  <2>1. PICK k \in ServerOffsets : k = 1 + n
    BY <1>1 DEF ServerOffsets
  <2>2. i \in ServerOffsets /\ i + 1 \in ServerOffsets /\ k + i <= ResponseLen + 2
           /\ k + (i + 1) <= ResponseLen + 2
    BY <1>1, <1>8, <2>1 DEF ServerOffsets
  <2>3. Plus(ServerNumber(c, k), i) = ServerNumber(c, k + i)
           /\ Plus(ServerNumber(c, k), i + 1) = ServerNumber(c, k + (i + 1))
    BY <2>2, ServerNumbers
  <2>4. k + i = 1 + (n + i) /\ (n + i = ResponseLen => k + (i + 1) = 2 + ResponseLen)
    BY <1>1, <2>1
  <2> QED
    BY <2>1, <2>3, <2>4
<1> QED
  BY <1>2, <1>3, <1>4, <1>5, <1>6, <1>7, <1>8

\* Bytes of a request are new to the server when they are of its own connection, and expected
LEMMA NewBytes ==
    ASSUME Ordinary, NEW c \in Connections, NEW d \in Connections,
           NEW r \in {1, 1 + RequestLen, 2 + RequestLen},
           (ClientNumber(c, 1) + RequestLen - ClientNumber(d, r)) % SeqMod \in 1 .. RequestLen
    PROVE  /\ c = d /\ r = 1
           /\ (ClientNumber(c, 1) + RequestLen - ClientNumber(d, r)) % SeqMod = RequestLen
<1>1. RequestLen \in Nat /\ RequestLen >= 1 /\ SeqMod \in Nat /\ RequestLen + 2 < SeqMod
  BY Sizes
<1>2. r \in ClientOffsets /\ 1 \in ClientOffsets
  BY <1>1 DEF ClientOffsets
<1>3. PICK a \in 0 .. SeqMod - 1, b \in 0 .. SeqMod - 1 : a = ClientNumber(c, 1)
         /\ b = ClientNumber(d, r)
  BY <1>2, ClientNumbers
<1>4. PICK x \in 1 .. RequestLen : x = (a + RequestLen - b) % SeqMod
  BY <1>3
<1>5. RequestLen \in 0 .. SeqMod - 1 /\ x \in 0 .. SeqMod - 1
  BY <1>1
<1>6. Plus(b, x) = Plus(a, RequestLen)
  BY <1>4, <1>5, MinusIs
<1>7. PICK k \in ClientOffsets : k = 1 + RequestLen - x /\ k + x = 1 + RequestLen /\ k >= 1
         /\ x \in ClientOffsets
  BY <1>1 DEF ClientOffsets
<1>8. Plus(ClientNumber(c, k), x) = ClientNumber(c, 1 + RequestLen)
  <2>1. Plus(ClientNumber(c, k), x) = ClientNumber(c, k + x)
    BY <1>1, <1>7, ClientNumbers
  <2> QED
    BY <1>7, <2>1
<1>9. Plus(a, RequestLen) = ClientNumber(c, 1 + RequestLen)
  BY <1>3, Steps
<1>10. PICK e \in 0 .. SeqMod - 1 : e = ClientNumber(c, k)
  BY <1>7, ClientNumbers
<1>11. b = e
  BY <1>5, <1>6, <1>8, <1>9, <1>10, Cancel
<1>12. d = c /\ r = k
  <2>1. ClientNumber(d, r) = ClientNumber(c, k)
    BY <1>3, <1>10, <1>11
  <2>2. r \in ClientOffsets /\ k \in ClientOffsets
    BY <1>2, <1>7
  <2> QED
    BY <2>1, <2>2, ClientNumbersDiffer
<1>13. k = 1 /\ x = RequestLen
  BY <1>1, <1>7, <1>12
<1> QED
  BY <1>3, <1>4, <1>12, <1>13

\* What acknowledges bytes of a connection's server is of that connection
LEMMA AckIsOwn ==
    ASSUME Ordinary, NEW c \in Connections, NEW d \in Connections, NEW k \in ServerOffsets,
           (ServerNumber(c, k) - ServerNumber(d, 0)) % SeqMod \in ServerOffsets
    PROVE  c = d
<1>1. ResponseLen \in Nat /\ SeqMod \in Nat /\ ResponseLen + 2 < SeqMod
  BY Sizes
<1>2. PICK a \in 0 .. SeqMod - 1, b \in 0 .. SeqMod - 1 : a = ServerNumber(c, k)
         /\ b = ServerNumber(d, 0)
  BY <1>1, ServerNumbers DEF ServerOffsets
<1>3. PICK x \in ServerOffsets : x = (a - b) % SeqMod
  BY <1>2
<1>4. 0 \in 0 .. SeqMod - 1 /\ 0 \in ServerOffsets
  BY <1>1 DEF ServerOffsets
<1>5. Plus(b, x) = a
  BY <1>3, <1>4, MinusIs
<1>6. Plus(ServerNumber(d, 0), x) = ServerNumber(d, x)
  <2>1. 0 + x = x /\ 0 + x <= ResponseLen + 2
    BY <1>1 DEF ServerOffsets
  <2> QED
    BY <1>4, <2>1, ServerNumbers
<1> QED
  BY <1>2, <1>5, <1>6, ServerNumbersDiffer

-----------------------------------------------------------------------------
(* What a step of the client must be *)

\* What a step of the client leaves as it was, when the connection stays active
Kept ==
    Active' =>
        /\ Active /\ localPort' = localPort
        /\ state' = "WAIT_SYN_ACK" => state = "WAIT_SYN_ACK"
        /\ Unsent' => Unsent \/ state = "WAIT_SYN_ACK"
        /\ Acknowledged' => Acknowledged \/ srv[localPort].requests # <<>>
        /\ connected' => connected \/ (srv[localPort].st # "NONE" /\ srv[localPort].peer = conns)

-----------------------------------------------------------------------------
(* A step of the client *)

\* What is in flight stays right when the client moves on in its connection
LEMMA SegmentsKept ==
    ASSUME SessionInv, Kept, conns' = conns, srv' = srv, NEW m \in net
    PROVE  (FromServer(m) \/ ResetFromServer(m) \/ FromClient(m) \/ ResetFromClient(m))'
<1>1. CASE FromServer(m)
  <2>1. FromServer(m)'
    BY <1>1 DEF FromServer, Kept
  <2> QED
    BY <2>1
<1>2. CASE ResetFromServer(m)
  BY <1>2 DEF ResetFromServer
<1>3. CASE FromClient(m)
  <2>1. FromClient(m)'
    BY <1>3 DEF FromClient, Kept
  <2> QED
    BY <2>1
<1>4. CASE ResetFromClient(m)
  <2>1. ResetFromClient(m)'
    BY <1>4 DEF ResetFromClient, Kept
  <2> QED
    BY <2>1
<1> QED
  BY <1>1, <1>2, <1>3, <1>4 DEF SessionInv, NetRight

\* So do the server's control blocks
LEMMA TcbsKept ==
    ASSUME SessionInv, Kept, conns' = conns, srv' = srv
    PROVE  ServerRight'
<1>1. DOMAIN srv' = Port
  BY DEF SessionInv, ServerRight
<1>2. ASSUME NEW port \in Port, srv'[port].st # "NONE"
      PROVE  TcbRight(srv[port])'
  BY <1>2 DEF SessionInv, ServerRight, TcbRight
<1>3. ASSUME Active', NEW port \in Port, srv'[port].st # "NONE" /\ srv'[port].peer = conns'
      PROVE  TcbOfConnection(port)'
  <2>1. TcbOfConnection(port) /\ TcbRight(srv[port])
    BY <1>3 DEF SessionInv, ServerRight, Kept
  <2>2. port = localPort' /\ srv'[port].st # "DONE"
    BY <1>3, <2>1 DEF TcbOfConnection, Kept
  <2>3. state' = "WAIT_SYN_ACK" => srv'[port].st = "SYN_RCVD"
    BY <1>3, <2>1 DEF TcbOfConnection, Kept
  <2>4. Unsent' => srv'[port].requests = <<>>
    BY <1>3, <2>1 DEF TcbOfConnection, TcbRight, Kept
  <2>5. Acknowledged' => srv'[port].requests # <<>>
    BY <1>3, <2>1 DEF TcbOfConnection, Kept
  <2> QED
    BY <2>2, <2>3, <2>4, <2>5 DEF TcbOfConnection
<1>4. Active' /\ connected' => srv'[localPort'].st # "NONE" /\ srv'[localPort'].peer = conns'
  BY DEF SessionInv, ServerRight, Kept
<1> QED
  BY <1>1, <1>2, <1>3, <1>4 DEF ServerRight

\* What the step transmits
Out == [pkt |-> sent, body |-> <<conns, 0>>]

\* A step of the client is right when its state after it, and what it transmits, are
LEMMA ClientStep ==
    ASSUME SessionInv, Kept, conns' = conns, srv' = srv, localPort' \in Port, ClientRight',
           net' \subseteq net \cup Transmitted(conns),
           sent' = NoPacket \/ (FromClient(Out) \/ ResetFromClient(Out))'
    PROVE  SessionInv'
<1>1. ASSUME NEW m \in net'
      PROVE  (FromServer(m) \/ ResetFromServer(m) \/ FromClient(m) \/ ResetFromClient(m))'
  <2>1. CASE m \in net
    BY <2>1, SegmentsKept
  <2>2. CASE m \notin net
    <3>1. sent' # NoPacket /\ m = Out'
      BY <1>1, <2>2 DEF Transmitted, Out
    <3>2. (FromClient(Out) \/ ResetFromClient(Out))' => (FromClient(m) \/ ResetFromClient(m))'
      BY <3>1 DEF FromClient, ResetFromClient
    <3> QED
      BY <3>1, <3>2
  <2> QED
    BY <2>1, <2>2
<1>2. NetRight'
  BY <1>1 DEF NetRight
<1> QED
  BY <1>2, TcbsKept DEF SessionInv

\* What the client knows of its place in the streams
Placed ==
    /\ conns \in 1 .. conns /\ conns \in Connections
    /\ Len(delivered) \in 0 .. ResponseLen
    /\ state \in {"CONNECTED", "LAST_ACK"} =>
         \E k \in 1 .. ResponseLen + 2 : remoteSeqNum = ServerNumber(conns, k)
    /\ \E k \in 0 .. 2 + RequestLen : localSeqNum = ClientNumber(conns, k)

\* A client that is not disconnected is somewhere in the streams of its connection
LEMMA Place == Ordinary /\ ClientRight /\ state # "DISCONNECTED" => Placed
<1> SUFFICES ASSUME Ordinary, ClientRight, state # "DISCONNECTED" PROVE Placed
  OBVIOUS
<1>1. RequestLen \in Nat /\ ResponseLen \in Nat /\ MaxConnections \in Nat
  BY Sizes
<1>2. conns \in 1 .. conns /\ conns \in Connections
  BY <1>1 DEF ClientRight, Connections
<1>3. PICK n \in 0 .. ResponseLen : delivered = [i \in 1 .. n |-> <<conns, i>>]
  BY DEF ClientRight
<1>4. Len(delivered) = n
  BY <1>1, <1>3
<1>5. state \in {"CONNECTED", "LAST_ACK"} =>
        \E k \in 1 .. ResponseLen + 2 : remoteSeqNum = ServerNumber(conns, k)
  <2>1. CASE state = "CONNECTED"
    <3>1. remoteSeqNum = ServerNumber(conns, 1 + n)
      BY <1>4, <2>1 DEF ClientRight
    <3>2. 1 + n \in 1 .. ResponseLen + 2
      BY <1>1
    <3> QED
      BY <3>1, <3>2
  <2>2. CASE state = "LAST_ACK"
    <3>1. remoteSeqNum = ServerNumber(conns, 2 + ResponseLen)
      BY <2>2 DEF ClientRight
    <3>2. 2 + ResponseLen \in 1 .. ResponseLen + 2
      BY <1>1
    <3> QED
      BY <3>1, <3>2
  <2> QED
    BY <2>1, <2>2
<1>6. \E k \in 0 .. 2 + RequestLen : localSeqNum = ClientNumber(conns, k)
  <2>1. 0 \in 0 .. 2 + RequestLen /\ 1 \in 0 .. 2 + RequestLen
           /\ 1 + RequestLen \in 0 .. 2 + RequestLen
    BY <1>1
  <2>2. \/ localSeqNum = ClientNumber(conns, 0)
        \/ localSeqNum = ClientNumber(conns, 1)
        \/ localSeqNum = ClientNumber(conns, 1 + RequestLen)
    BY DEF ClientRight, Unsent, Outstanding, Acknowledged
  <2> QED
    BY <2>1, <2>2
<1> QED
  BY <1>2, <1>3, <1>4, <1>5, <1>6 DEF Placed

\* Ordinary is about constants only
LEMMA OrdinaryNext == Ordinary => Ordinary'
BY DEF Ordinary

\* The client after a step is somewhere in the streams, too
LEMMA PlaceNext == Ordinary /\ ClientRight' /\ state' # "DISCONNECTED" => Placed'
<1>1. (Ordinary /\ ClientRight /\ state # "DISCONNECTED" => Placed)'
  BY Place, PTL
<1> QED
  BY <1>1, OrdinaryNext

\* What fillTCPHeader() makes of the client's state is a segment of its connection
\* (TCPClient.cpp:355-376)
LEMMA SegmentSent ==
    ASSUME Ordinary, ClientRight', localPort' \in Port, state' # "DISCONNECTED",
           NEW src, NEW flags, NEW len, sent' = Segment(src, flags, len),
           \/ flags = {"SYN"} /\ len = 0 /\ state' = "WAIT_SYN_ACK"
           \/ flags = {"ACK"} /\ len = 0 /\ state' \in {"CONNECTED", "LAST_ACK"}
           \/ flags = {"ACK"} /\ len = RequestLen /\ state' = "CONNECTED" /\ Outstanding'
           \/ flags = {"FIN", "ACK"} /\ len = 0 /\ state' = "LAST_ACK"
           \/ flags = {"RST", "ACK"} /\ len = 0 /\ timedOut'
    PROVE  (FromClient(Out) \/ ResetFromClient(Out))'
<1>1. RequestLen \in Nat /\ RequestLen >= 1 /\ ResponseLen \in Nat
  BY Sizes
<1>2. /\ conns' \in 1 .. conns'
      /\ state' \in {"CONNECTED", "LAST_ACK"} =>
           \E k \in 1 .. ResponseLen + 2 : remoteSeqNum' = ServerNumber(conns', k)
      /\ \E k \in 0 .. 2 + RequestLen : localSeqNum' = ClientNumber(conns', k)
  BY PlaceNext DEF Placed
<1>3. /\ Out.pkt'.dst = RemoteAddress /\ Out.pkt'.sport = localPort' /\ Out.pkt'.flags = flags
      /\ Out.pkt'.seq = localSeqNum' /\ Out.pkt'.ack = remoteSeqNum' /\ Out.pkt'.len = len
      /\ Out.body[1]' = conns'
  BY DEF Out, Segment
<1>4. CASE flags = {"RST", "ACK"}
  <2>1. ~Active'
    BY <1>4 DEF Active
  <2>2. ResetFromClient(Out)'
    BY <1>2, <1>3, <1>4, <2>1 DEF ResetFromClient
  <2> QED
    BY <2>2
<1>5. CASE flags = {"SYN"} /\ state' = "WAIT_SYN_ACK"
  <2>1. localSeqNum' = ClientNumber(conns', 0)
    BY <1>5 DEF ClientRight
  <2>2. FromClient(Out)'
    BY <1>2, <1>3, <1>5, <2>1 DEF FromClient
  <2> QED
    BY <2>2
<1>6. CASE flags = {"ACK"} /\ len = 0 /\ state' \in {"CONNECTED", "LAST_ACK"}
  <2>1. FromClient(Out)'
    BY <1>2, <1>3, <1>6 DEF FromClient
  <2> QED
    BY <2>1
<1>7. CASE flags = {"ACK"} /\ len = RequestLen /\ state' = "CONNECTED" /\ Outstanding'
  <2>1. ~Unsent' /\ localSeqNum' = ClientNumber(conns', 1)
    BY <1>1, <1>7 DEF Outstanding, Unsent
  <2>2. FromClient(Out)'
    BY <1>2, <1>3, <1>7, <2>1 DEF FromClient
  <2> QED
    BY <2>2
<1>8. CASE flags = {"FIN", "ACK"} /\ len = 0 /\ state' = "LAST_ACK"
  <2>1. ~Active' /\ localSeqNum' = ClientNumber(conns', 1 + RequestLen)
    BY <1>8 DEF Active, ClientRight
  <2>2. FromClient(Out)'
    BY <1>2, <1>3, <1>8, <2>1 DEF FromClient
  <2> QED
    BY <2>2
<1> QED
  BY <1>4, <1>5, <1>6, <1>7, <1>8

-----------------------------------------------------------------------------
(* What a call of havePacket() must be *)

\* A segment that havePacket() looks at, and what it carries
Arrived(p, body) ==
    \/ p = NoPacket
    \/ \E m \in net : p = m.pkt /\ body = m.body /\ (FromServer(m) \/ ResetFromServer(m))

\* What is left of a step of the client
SentRight == sent' = NoPacket \/ (FromClient(Out) \/ ResetFromClient(Out))'
After == ClientRight' /\ Kept /\ SentRight /\ localPort' = localPort

\* What a call of havePacket() starts from
Called(p, body) ==
    /\ Ordinary /\ SessionInv /\ Arrived(p, body) /\ pc = "poll" /\ pc' = "app"
    /\ conns' = conns /\ srv' = srv
    /\ delivered' = IF "NEWDATA" \in appliFlags' THEN Append(delivered, body) ELSE delivered

\* What havePacket() finds to be for it, and is no RST, is of the server's stream
LEMMA FromTheServer ==
    ASSUME NEW p, NEW body, Called(p, body), ForUs(p), "RST" \notin p.flags
    PROVE  \E m \in net : p = m.pkt /\ body = m.body /\ FromServer(m)
BY DEF Called, Arrived, ForUs, ResetFromServer

\* Calls of havePacket() that end in DISCONNECTED
LEMMA Disconnects ==
    ASSUME NEW p, NEW body, Called(p, body), state' = "DISCONNECTED",
           appliFlags' \cap {"CONNECTED", "REXMIT", "NEWDATA"} = {}
    PROVE  ClientRight' /\ Kept
<1>1. delivered' = delivered /\ ~synacked' /\ ~rexmit'
  BY DEF Called, synacked, rexmit
<1>2. ~Active' /\ ~connected'
  BY DEF Active, connected
<1>3. ClientRight'
  BY <1>1, <1>2 DEF Called, SessionInv, ClientRight
<1>4. Kept
  BY <1>2 DEF Kept
<1> QED
  BY <1>3, <1>4

\* Nothing but the retransmission timer changes
LEMMA Stays ==
    ASSUME NEW p, NEW body, Called(p, body), ~timedOut,
           UNCHANGED <<state, localSeqNum, remoteSeqNum, unAckLen, localPort>>,
           appliFlags' \cap {"CONNECTED", "NEWDATA"} = {},
           rexmit' => connected /\ unAckLen > 0
    PROVE  ClientRight' /\ Kept
<1>1. RequestLen \in Nat /\ RequestLen >= 1
  BY Sizes DEF Called
<1>2. delivered' = delivered /\ ~synacked' /\ conns' = conns /\ pc' = "app" /\ pc = "poll"
         /\ ClientRight
  BY DEF Called, synacked, SessionInv
<1>3. (Unsent' <=> Unsent) /\ (Outstanding' <=> Outstanding) /\ (Acknowledged' <=> Acknowledged)
  BY <1>2 DEF Unsent, Outstanding, Acknowledged
<1>4. (connected' <=> connected) /\ (connected => state = "CONNECTED")
  BY DEF connected
<1>5. rexmit' => connected' /\ Outstanding'
  <2>1. ASSUME rexmit' PROVE connected' /\ Outstanding'
    <3>1. state = "CONNECTED" /\ unAckLen > 0
      BY <2>1, <1>4
    <3>2. Unsent \/ Outstanding \/ Acknowledged
      BY <1>2, <3>1 DEF ClientRight
    <3>3. ~Unsent /\ ~Acknowledged
      BY <3>1 DEF Unsent, Acknowledged
    <3> QED
      BY <1>3, <1>4, <2>1, <3>1, <3>2, <3>3
  <2> QED
    BY <2>1
<1>6. connected' => ~Unsent'
  BY <1>2, <1>3, <1>4 DEF ClientRight
<1>7. ClientRight'
  BY <1>2, <1>3, <1>4, <1>5, <1>6 DEF ClientRight
<1>8. Kept
  BY <1>2, <1>3, <1>4 DEF Kept, Active
<1> QED
  BY <1>7, <1>8

\* check_for_retransmit (TCPClient.cpp:303-345)
LEMMA CheckStays ==
    ASSUME NEW p, NEW body, Called(p, body), ~timedOut, state # "DISCONNECTED",
           UNCHANGED <<state, localSeqNum, remoteSeqNum, unAckLen, localPort>>,
           NEW flags, flags \cap {"CONNECTED", "REXMIT", "NEWDATA"} = {}, NEW timerNow,
           CheckForRetransmit(p, flags, timerNow)
    PROVE  After
<1>1. localPort' \in Port /\ state' # "DISCONNECTED" /\ Ordinary
  BY DEF Called, SessionInv
<1>2. CASE NoRetransmit(p, flags, timerNow)
  <2>1. ClientRight' /\ Kept
    BY <1>2, Stays DEF NoRetransmit, rexmit
  <2>2. SentRight
    BY <1>2 DEF NoRetransmit, Silent, SentRight
  <2> QED
    BY <2>1, <2>2 DEF After
<1>3. CASE GiveUp(p, flags, timerNow)
  <2>1. ClientRight' /\ Kept
    BY <1>3, Stays DEF GiveUp, rexmit
  <2>2. sent' = Segment(SourceFor(Loaded(p).dst), {"RST", "ACK"}, 0) /\ timedOut'
    BY <1>3 DEF GiveUp, Resend, Emit
  <2>3. SentRight
    BY <1>1, <2>1, <2>2, SegmentSent DEF SentRight
  <2> QED
    BY <2>1, <2>3 DEF After
<1>4. CASE Retransmit(p, flags, timerNow)
  <2>1. appliFlags' \cap {"CONNECTED", "NEWDATA"} = {} /\ (rexmit' => connected /\ unAckLen > 0)
    BY <1>4 DEF Retransmit, rexmit, connected
  <2>2. ClientRight' /\ Kept
    BY <2>1, Stays
  <2>3. CASE state = "WAIT_SYN_ACK"
    <3>1. sent' = Segment(SourceFor(Loaded(p).dst), {"SYN"}, 0) /\ state' = "WAIT_SYN_ACK"
      BY <1>4, <2>3 DEF Retransmit, Resend, Emit
    <3>2. SentRight
      BY <1>1, <2>2, <3>1, SegmentSent DEF SentRight
    <3> QED
      BY <2>2, <3>2 DEF After
  <2>4. CASE state = "CONNECTED"
    <3>1. SentRight
      BY <1>4, <2>4 DEF Retransmit, Silent, SentRight
    <3> QED
      BY <2>2, <3>1 DEF After
  <2>5. CASE state = "LAST_ACK"
    <3>1. sent' = Segment(SourceFor(Loaded(p).dst), {"FIN", "ACK"}, 0) /\ state' = "LAST_ACK"
      BY <1>4, <2>5 DEF Retransmit, Resend, Emit
    <3>2. SentRight
      BY <1>1, <2>2, <3>1, SegmentSent DEF SentRight
    <3> QED
      BY <2>2, <3>2 DEF After
  <2> QED
    BY <1>4, <2>3, <2>4, <2>5 DEF Retransmit
<1> QED
  BY <1>2, <1>3, <1>4 DEF CheckForRetransmit

\* The RST of the client, written over a segment of the server
LEMMA RstSent ==
    ASSUME NEW m \in net, FromServer(m), m.pkt.src = RemoteAddress, RstReply(m.pkt), conns' = conns,
           Active' => m.body[1] # conns
    PROVE  SentRight
<1>1. /\ Out.pkt'.dst = RemoteAddress /\ Out.pkt'.sport = m.pkt.dport
         /\ Out.pkt'.flags = {"RST", "ACK"}
      /\ Out.pkt'.seq = m.pkt.ack
  BY DEF Out, RstReply, Emit
<1>2. PICK c \in 1 .. conns, k \in 1 .. 2 + RequestLen : c = m.body[1]
         /\ m.pkt.ack = ClientNumber(c, k) /\ m.pkt.dport \in Port
  BY DEF FromServer
<1>3. k \in 0 .. 2 + RequestLen
  OBVIOUS
<1>4. ResetFromClient(Out)'
  BY <1>1, <1>2, <1>3 DEF ResetFromClient
<1> QED
  BY <1>4 DEF SentRight

\* The entry of the call has none of the flags that matter here
LEMMA Entry == EntryFlags \cap {"CONNECTED", "REXMIT", "NEWDATA"} = {}
BY DEF EntryFlags

-----------------------------------------------------------------------------
(* The calls of havePacket(), case by case *)

\* havePacket() while nothing is open, or after a timeout (TCPClient.cpp:73-74)
LEMMA NothingStays ==
    ASSUME NEW p, NEW body, Called(p, body), HaveNothing(p)
    PROVE  After
<1>1. ClientRight' /\ Kept
  BY Disconnects, Entry DEF HaveNothing
<1> QED
  BY <1>1 DEF HaveNothing, Silent, After, SentRight

\* No packet, or one that is not for the connection (TCPClient.cpp:93-116,140-143)
LEMMA DroppedStays ==
    ASSUME NEW p, NEW body, Called(p, body), HaveDropped(p)
    PROVE  After
<1>1. /\ ~timedOut /\ state # "DISCONNECTED"
      /\ UNCHANGED <<state, localSeqNum, remoteSeqNum, unAckLen, localPort>>
      /\ CheckForRetransmit(p, EntryFlags, EntryTimer)
  BY DEF HaveDropped, Open
<1> QED
  BY <1>1, CheckStays, Entry

\* A segment for another port is answered with a RST (TCPClient.cpp:145-175)
LEMMA OldSegmentStays ==
    ASSUME NEW p, NEW body, Called(p, body), HaveOldSegment(p)
    PROVE  After
<1>1. /\ ~timedOut /\ UNCHANGED <<state, localSeqNum, remoteSeqNum, unAckLen, localPort>>
      /\ timedOut' = timedOut /\ appliFlags' = EntryFlags /\ OldSegment(p)
      /\ IF "RST" \in p.flags THEN Silent(p) ELSE RstReply(p)
  BY DEF HaveOldSegment, Open, connVars
<1>2. ClientRight' /\ Kept
  BY <1>1, Stays, Entry DEF rexmit
<1>3. CASE "RST" \in p.flags
  BY <1>1, <1>2, <1>3 DEF Silent, After, SentRight
<1>4. CASE "RST" \notin p.flags
  <2>1. PICK m \in net : p = m.pkt /\ FromServer(m)
    BY <1>1, <1>4, FromTheServer DEF OldSegment
  <2>2. m.pkt.src = RemoteAddress /\ m.pkt.dport # localPort /\ RstReply(m.pkt)
    BY <1>1, <1>4, <2>1 DEF OldSegment, ForUs
  <2>3. Active' => m.body[1] # conns
    BY <1>1, <1>2, <2>1, <2>2 DEF FromServer, Kept
  <2>4. SentRight
    BY <2>1, <2>2, <2>3, RstSent DEF Called
  <2> QED
    BY <1>1, <1>2, <2>4 DEF After
<1> QED
  BY <1>3, <1>4

\* A RST ends the connection (TCPClient.cpp:178-183)
LEMMA RstStays ==
    ASSUME NEW p, NEW body, Called(p, body), HaveRst(p)
    PROVE  After
<1>1. ClientRight' /\ Kept
  BY Disconnects DEF HaveRst
<1> QED
  BY <1>1 DEF HaveRst, Silent, After, SentRight

\* Data or a FIN at another number is answered with an ACK (TCPClient.cpp:188-195)
LEMMA OutOfOrderStays ==
    ASSUME NEW p, NEW body, Called(p, body), HaveOutOfOrder(p)
    PROVE  After
<1>1. /\ ~timedOut /\ UNCHANGED <<state, localSeqNum, remoteSeqNum, unAckLen, localPort>>
      /\ state # "DISCONNECTED" /\ appliFlags' = EntryFlags /\ Found(p)
      /\ Reply({"ACK"}) /\ "RST" \notin p.flags /\ OutOfOrder(p)
  BY DEF HaveOutOfOrder, Open, connVars
<1>2. ClientRight' /\ Kept
  BY <1>1, Stays, Entry DEF rexmit
<1>3. PICK m \in net : p = m.pkt /\ FromServer(m)
  BY <1>1, FromTheServer DEF Found
<1>4. "ACK" \in p.flags
  BY <1>3 DEF FromServer
<1>5. state' \in {"CONNECTED", "LAST_ACK"}
  BY <1>1, <1>4 DEF OutOfOrder, Called, SessionInv, ClientRight
<1>6. sent' = Segment(LinkLocalAddress, {"ACK"}, 0) /\ localPort' \in Port
  BY <1>1 DEF Reply, Emit, Called, SessionInv
<1>7. SentRight
  BY <1>2, <1>5, <1>6, SegmentSent DEF SentRight, Called
<1> QED
  BY <1>1, <1>2, <1>7 DEF After

\* What InOrder() says of the segment
LEMMA Accepted ==
    ASSUME NEW p, NEW body, Called(p, body), InOrder(p)
    PROVE  /\ \E m \in net : p = m.pkt /\ body = m.body /\ FromServer(m)
           /\ p.src = RemoteAddress /\ ~timedOut /\ state # "DISCONNECTED"
           /\ ~OutOfOrder(p) /\ AckTest(p) /\ p.dport = localPort /\ "ACK" \in p.flags
<1>1. \E m \in net : p = m.pkt /\ body = m.body /\ FromServer(m)
  BY FromTheServer DEF InOrder, Found
<1> QED
  BY <1>1 DEF InOrder, Found, ForUs, Open, FromServer

\* Not the SYN|ACK that was waited for (TCPClient.cpp:241-245)
LEMMA BadSynAckStays ==
    ASSUME NEW p, NEW body, Called(p, body), HaveBadSynAck(p)
    PROVE  After
<1>1. ClientRight' /\ Kept
  BY Disconnects DEF HaveBadSynAck
<1>2. PICK m \in net : p = m.pkt /\ FromServer(m)
  BY Accepted DEF HaveBadSynAck
<1>3. m.pkt.src = RemoteAddress /\ RstReply(m.pkt) /\ ~Active'
  BY <1>2, Accepted DEF HaveBadSynAck, Active
<1>4. SentRight
  BY <1>2, <1>3, RstSent DEF Called
<1> QED
  BY <1>1, <1>4 DEF HaveBadSynAck, After

\* A FIN before the request is acknowledged is not taken (TCPClient.cpp:255-256)
LEMMA EarlyFinStays ==
    ASSUME NEW p, NEW body, Called(p, body), HaveEarlyFin(p)
    PROVE  After
<1>1. ~timedOut /\ state # "DISCONNECTED" /\ AckTest(p)
  BY Accepted DEF HaveEarlyFin
<1>2. ~Acks(p)
  BY DEF HaveEarlyFin, UnAckLenAfterAck
<1>3. UNCHANGED <<state, localSeqNum, remoteSeqNum, unAckLen, localPort>>
  BY <1>1, <1>2 DEF HaveEarlyFin, AckTest
<1>4. CheckForRetransmit(p, EntryFlags, EntryTimer)
  BY DEF HaveEarlyFin
<1> QED
  BY <1>1, <1>3, <1>4, CheckStays, Entry

\* The FIN of the client is acknowledged (TCPClient.cpp:279-284)
LEMMA LastAckStays ==
    ASSUME NEW p, NEW body, Called(p, body), HaveLastAck(p)
    PROVE  After
<1>1. ClientRight' /\ Kept
  BY Disconnects DEF HaveLastAck
<1> QED
  BY <1>1 DEF HaveLastAck, Silent, After, SentRight

\* It is not, yet (TCPClient.cpp:285)
LEMMA NotLastAckStays ==
    ASSUME NEW p, NEW body, Called(p, body), HaveNotLastAck(p)
    PROVE  After
<1>1. ~timedOut /\ state # "DISCONNECTED" /\ AckTest(p) /\ ~Acks(p)
  BY Accepted DEF HaveNotLastAck
<1>2. UNCHANGED <<state, localSeqNum, remoteSeqNum, unAckLen, localPort>>
  BY <1>1 DEF HaveNotLastAck, AckTest
<1>3. CheckForRetransmit(p, EntryFlags, EntryTimer)
  BY DEF HaveNotLastAck
<1> QED
  BY <1>1, <1>2, <1>3, CheckStays, Entry

\* What has been read, and one byte more
LEMMA Reading ==
    ASSUME NEW c, NEW n \in Nat, NEW s, s = [i \in 1 .. n |-> <<c, i>>]
    PROVE  /\ Len(s) = n
           /\ Append(s, <<c, n + 1>>) = [i \in 1 .. n + 1 |-> <<c, i>>]
           /\ Len(Append(s, <<c, n + 1>>)) = n + 1
           /\ s = <<>> <=> n = 0
<1> DEFINE S == {c} \X Nat
<1>1. s \in [1 .. n -> S] /\ <<c, n + 1>> \in S
  OBVIOUS
<1> HIDE DEF S
<1>2. s \in Seq(S) /\ Len(s) = n
  BY <1>1
<1>3. PICK t : t = <<c, n + 1>> /\ t \in S
  BY <1>1
<1>4. PICK m \in Nat : m = n + 1
  OBVIOUS
<1>5. Append(s, t) \in Seq(S) /\ Len(Append(s, t)) = m
  BY ONLY <1>2, <1>3, <1>4, n \in Nat
<1>6. \A i \in 1 .. m : Append(s, t)[i] = IF i = m THEN t ELSE s[i]
  BY ONLY <1>2, <1>3, <1>4, n \in Nat
<1>7. Append(s, t) \in [1 .. m -> S]
  <2>1. PICK u \in Seq(S) : u = Append(s, t) /\ Len(u) = m
    BY <1>5
  <2>2. u \in [1 .. Len(u) -> S]
    BY ONLY u \in Seq(S)
  <2> QED
    BY ONLY <2>1, <2>2
<1>8. \A i \in 1 .. m : Append(s, t)[i] = <<c, i>>
  <2>1. ASSUME NEW i \in 1 .. m PROVE Append(s, t)[i] = <<c, i>>
    <3>1. CASE i = m
      BY <1>3, <1>4, <1>6, <3>1
    <3>2. CASE i # m
      <4>1. i \in 1 .. n
        BY ONLY <1>4, <3>2, i \in 1 .. m, n \in Nat
      <4>2. s[i] = <<c, i>>
        BY <4>1
      <4> QED
        BY <1>6, <3>2, <4>2
    <3> QED
      BY <3>1, <3>2
  <2> QED
    BY <2>1
<1>9. Append(s, t) = [i \in 1 .. m |-> <<c, i>>]
  <2>1. Append(s, t) = [i \in 1 .. m |-> Append(s, t)[i]]
    BY ONLY <1>7
  <2> QED
    BY ONLY <1>8, <2>1
<1>10. s = <<>> <=> n = 0
  BY ONLY <1>2, n \in Nat
<1> QED
  BY <1>2, <1>3, <1>4, <1>5, <1>9, <1>10

\* A segment that acknowledges a byte of the client's connection is of that connection
LEMMA OwnByAck ==
    ASSUME Ordinary, SessionInv, state # "DISCONNECTED", NEW m, FromServer(m),
           NEW k \in 1 .. 2 + RequestLen, m.pkt.ack = ClientNumber(conns, k)
    PROVE  m.body[1] = conns
<1>1. RequestLen \in Nat /\ MaxConnections \in Nat
  BY Sizes
<1>2. conns \in Connections /\ conns \in 0 .. MaxConnections
  BY Place DEF Placed, SessionInv, ClientRight
<1>3. PICK c \in Connections, j \in 1 .. 2 + RequestLen : c = m.body[1]
         /\ m.pkt.ack = ClientNumber(c, j)
  <2>1. m.body[1] \in 1 .. conns
           /\ \E j \in 1 .. 2 + RequestLen : m.pkt.ack = ClientNumber(m.body[1], j)
    BY DEF FromServer
  <2>2. 1 .. conns \subseteq Connections
    BY <1>1, <1>2 DEF Connections
  <2> QED
    BY <2>1, <2>2
<1>4. j \in ClientOffsets /\ k \in ClientOffsets
  BY <1>1 DEF ClientOffsets
<1>5. ClientNumber(c, j) = ClientNumber(conns, k)
  BY <1>3
<1>6. PICK d \in Connections : d = conns
  BY <1>2
<1>7. c = d
  BY <1>4, <1>5, <1>6, ClientNumbersDiffer
<1> QED
  BY <1>3, <1>6, <1>7

\* So is one at a number of it, and the byte is the one of that number
LEMMA OwnBySeq ==
    ASSUME Ordinary, SessionInv, state # "DISCONNECTED", NEW m, FromServer(m),
           NEW k \in ServerOffsets, m.pkt.seq = ServerNumber(conns, k)
    PROVE  m.body[1] = conns /\ m.body[2] = k
<1>1. ResponseLen \in Nat /\ MaxConnections \in Nat
  BY Sizes
<1>2. conns \in Connections /\ conns \in 0 .. MaxConnections
  BY Place DEF Placed, SessionInv, ClientRight
<1>3. PICK c \in Connections, j \in ServerOffsets : c = m.body[1] /\ j = m.body[2]
         /\ m.pkt.seq = ServerNumber(c, j)
  <2>1. /\ m.body[1] \in 1 .. conns /\ m.body[2] \in ServerOffsets
        /\ m.pkt.seq = ServerNumber(m.body[1], m.body[2])
    BY DEF FromServer, ServerOffsets
  <2>2. 1 .. conns \subseteq Connections
    BY <1>1, <1>2 DEF Connections
  <2> QED
    BY <2>1, <2>2
<1>4. ServerNumber(c, j) = ServerNumber(conns, k)
  BY <1>3
<1>5. PICK d \in Connections : d = conns
  BY <1>2
<1>6. c = d /\ j = k
  BY <1>4, <1>5, ServerNumbersDiffer
<1> QED
  BY <1>3, <1>5, <1>6

\* The numbers of the client's stream that are told apart
LEMMA Apart ==
    ASSUME Ordinary, NEW c \in Connections
    PROVE  /\ ClientNumber(c, 0) # ClientNumber(c, 1)
           /\ ClientNumber(c, 0) # ClientNumber(c, 1 + RequestLen)
           /\ ClientNumber(c, 1) # ClientNumber(c, 1 + RequestLen)
           /\ ClientNumber(c, 1) # ClientNumber(c, 2 + RequestLen)
           /\ ClientNumber(c, 1 + RequestLen) # ClientNumber(c, 2 + RequestLen)
<1>1. RequestLen \in Nat /\ RequestLen >= 1
  BY Sizes
<1>2. PICK l \in ClientOffsets, k \in ClientOffsets : l = 1 + RequestLen /\ k = 2 + RequestLen
         /\ l > 1 /\ k > l
  BY <1>1 DEF ClientOffsets
<1>3. 0 \in ClientOffsets /\ 1 \in ClientOffsets
  BY <1>1 DEF ClientOffsets
<1>4. ClientNumber(c, 0) # ClientNumber(c, 1)
  BY <1>3, ClientNumbersDiffer
<1>5. ClientNumber(c, 0) # ClientNumber(c, l)
  BY <1>2, <1>3, ClientNumbersDiffer
<1>6. ClientNumber(c, 1) # ClientNumber(c, l)
  BY <1>2, <1>3, ClientNumbersDiffer
<1>7. ClientNumber(c, 1) # ClientNumber(c, k)
  BY <1>2, <1>3, ClientNumbersDiffer
<1>8. ClientNumber(c, l) # ClientNumber(c, k)
  BY <1>2, <1>3, ClientNumbersDiffer
<1> QED
  BY <1>2, <1>4, <1>5, <1>6, <1>7, <1>8

\* The connection is opened: as there are no bare ACKs, this was the SYN|ACK
\* (TCPClient.cpp:232-240)
LEMMA SynAckStays ==
    ASSUME NEW p, NEW body, Called(p, body), HaveSynAck(p)
    PROVE  After
<1>1. RequestLen \in Nat /\ RequestLen >= 1 /\ ResponseLen \in Nat /\ Ordinary /\ SessionInv
  BY Sizes DEF Called
<1>2. /\ state = "WAIT_SYN_ACK" /\ Acks(p) /\ state' = "CONNECTED" /\ unAckLen' = 0
      /\ remoteSeqNum' = Plus(p.seq, 1) /\ appliFlags' = {"CONNECTED"}
      /\ UNCHANGED <<timedOut, localPort>> /\ Reply({"ACK"}) /\ InOrder(p)
  BY DEF HaveSynAck
<1>3. localSeqNum = ClientNumber(conns, 0) /\ unAckLen = 1 /\ delivered = <<>>
         /\ conns \in 0 .. MaxConnections
  BY <1>1, <1>2 DEF SessionInv, ClientRight
<1>4. PICK c \in Connections : c = conns
  BY <1>1, <1>2, Place DEF Placed, SessionInv
<1>5. p.ack = ClientNumber(conns, 1) /\ localSeqNum' = ClientNumber(conns, 1)
  <2>1. AckTest(p)
    BY <1>2, Accepted
  <2>2. Plus(ClientNumber(c, 0), 1) = ClientNumber(c, 1)
    BY <1>1, Steps
  <2> QED
    BY <1>2, <1>3, <1>4, <2>1, <2>2 DEF Acks, AckTest
<1>6. PICK m \in net : p = m.pkt /\ FromServer(m)
  BY <1>2, Accepted
<1>7. m.body[1] = conns
  <2>1. 1 \in 1 .. 2 + RequestLen
    BY <1>1
  <2>2. state # "DISCONNECTED" /\ m.pkt.ack = ClientNumber(conns, 1)
    BY <1>2, <1>5, <1>6
  <2> QED
    BY <1>1, <1>6, <2>1, <2>2, OwnByAck
<1>8. Active
  BY <1>2, Accepted DEF Active
<1>9. m.body[2] = 0 /\ srv[localPort].st # "NONE" /\ srv[localPort].peer = conns
  BY <1>2, <1>6, <1>7, <1>8 DEF FromServer
<1>10. remoteSeqNum' = ServerNumber(conns, 1)
  <2>1. p.seq = ServerNumber(conns, 0)
    BY <1>6, <1>7, <1>9 DEF FromServer
  <2>2. Plus(ServerNumber(c, 0), 1) = ServerNumber(c, 1)
    BY <1>1, Steps
  <2> QED
    BY <1>2, <1>4, <2>1, <2>2
<1>11. delivered' = <<>> /\ Len(delivered') = 0 /\ conns' = conns /\ pc' = "app"
  BY <1>2, <1>3 DEF Called
<1>12. Unsent' /\ ~Acknowledged' /\ synacked' /\ ~rexmit' /\ connected'
  BY <1>1, <1>2, <1>4, <1>5, <1>11, Apart DEF Unsent, Acknowledged, synacked, rexmit, connected
<1>13. \E n \in 0 .. ResponseLen : delivered' = [i \in 1 .. n |-> <<conns', i>>]
  BY <1>1, <1>3, <1>11 DEF SessionInv, ClientRight
<1>14. remoteSeqNum' = ServerNumber(conns', 1 + Len(delivered'))
  BY <1>10, <1>11
<1>15. ClientRight'
  BY <1>2, <1>3, <1>4, <1>11, <1>12, <1>13, <1>14 DEF ClientRight, Connections
<1>16. Kept
  BY <1>2, <1>8, <1>9, <1>12 DEF Kept
<1>17. sent' = Segment(LinkLocalAddress, {"ACK"}, 0) /\ localPort' \in Port
  BY <1>1, <1>2 DEF Reply, Emit, SessionInv
<1>18. SentRight
  BY <1>1, <1>2, <1>15, <1>17, SegmentSent DEF SentRight
<1> QED
  BY <1>2, <1>15, <1>16, <1>18 DEF After

\* An acknowledgement in CONNECTED is of the whole request, which the server has then received
LEMMA RequestAcked ==
    ASSUME NEW p, NEW body, Called(p, body), InOrder(p), state = "CONNECTED"
    PROVE  /\ Acks(p) => /\ localSeqNum' = ClientNumber(conns, 1 + RequestLen)
                         /\ srv[localPort].requests # <<>>
           /\ ~Acks(p) => localSeqNum' = localSeqNum
           /\ Unsent \/ Outstanding \/ Acknowledged
           /\ ~Unsent /\ Active
<1>1. RequestLen \in Nat /\ RequestLen >= 1 /\ ResponseLen \in Nat /\ Ordinary /\ SessionInv
  BY Sizes DEF Called
<1>2. Active /\ AckTest(p)
  BY Accepted DEF Active
<1>3. (Unsent \/ Outstanding \/ Acknowledged) /\ ~Unsent
  BY DEF Called, SessionInv, ClientRight, connected
<1>4. PICK c \in Connections : c = conns
  BY <1>1, Place DEF Placed, SessionInv
<1>5. ASSUME Acks(p)
      PROVE  localSeqNum' = ClientNumber(conns, 1 + RequestLen) /\ srv[localPort].requests # <<>>
  <2>1. localSeqNum = ClientNumber(conns, 1) /\ unAckLen = RequestLen
    BY <1>3, <1>5 DEF Acks, Outstanding, Acknowledged
  <2>2. Plus(ClientNumber(c, 1), RequestLen) = ClientNumber(c, 1 + RequestLen)
    BY <1>1, Steps
  <2>3. localSeqNum' = ClientNumber(conns, 1 + RequestLen)
           /\ p.ack = ClientNumber(conns, 1 + RequestLen)
    BY <1>2, <1>4, <1>5, <2>1, <2>2 DEF AckTest, Acks
  <2>4. PICK m \in net : p = m.pkt /\ FromServer(m)
    BY Accepted
  <2>5. m.body[1] = conns
    <3>1. PICK k \in 1 .. 2 + RequestLen : k = 1 + RequestLen
      BY <1>1
    <3>2. m.pkt.ack = ClientNumber(conns, k)
      BY <2>3, <2>4, <3>1
    <3> QED
      BY <1>1, <2>4, <3>2, OwnByAck
  <2>6. /\ srv[localPort].st # "NONE" /\ srv[localPort].peer = conns
        /\ m.pkt.ack \in {ClientNumber(conns, 1), srv[localPort].rcvNxt}
    BY <1>2, <2>4, <2>5 DEF FromServer
  <2>7. srv[localPort].rcvNxt # ClientNumber(conns, 1)
    BY <1>1, <1>4, <2>3, <2>4, <2>6, Apart
  <2>8. TcbRight(srv[localPort])
    BY <1>1, <2>6 DEF SessionInv, ServerRight
  <2>9. srv[localPort].requests = <<srv[localPort].peer>>
    BY <2>6, <2>7, <2>8 DEF TcbRight
  <2> QED
    BY <2>3, <2>9
<1>6. ~Acks(p) => localSeqNum' = localSeqNum
  BY <1>2 DEF AckTest
<1> QED
  BY <1>2, <1>3, <1>5, <1>6

\* The same, of the state after the call
LEMMA AckedState ==
    ASSUME NEW p, NEW body, Called(p, body), InOrder(p), state = "CONNECTED", conns' = conns,
           unAckLen' = UnAckLenAfterAck(p)
    PROVE  /\ ~Unsent' /\ (Outstanding' \/ Acknowledged')
           /\ Acknowledged' => Acknowledged \/ srv[localPort].requests # <<>>
           /\ unAckLen' = 0 => Acknowledged'
<1>1. RequestLen \in Nat /\ RequestLen >= 1 /\ Ordinary /\ SessionInv
  BY Sizes DEF Called
<1>2. PICK c \in Connections : c = conns
  BY <1>1, Place DEF Placed, SessionInv
<1>3. CASE Acks(p)
  <2>1. localSeqNum' = ClientNumber(conns, 1 + RequestLen) /\ srv[localPort].requests # <<>>
           /\ unAckLen' = 0
    BY <1>3, RequestAcked DEF UnAckLenAfterAck
  <2>2. ClientNumber(conns, 1) # ClientNumber(conns, 1 + RequestLen)
    BY <1>1, <1>2, Apart
  <2> QED
    BY <2>1, <2>2 DEF Unsent, Outstanding, Acknowledged
<1>4. CASE ~Acks(p)
  <2>1. UNCHANGED <<localSeqNum, unAckLen>> /\ (Unsent \/ Outstanding \/ Acknowledged) /\ ~Unsent
    BY <1>4, RequestAcked DEF UnAckLenAfterAck
  <2> QED
    BY <1>1, <2>1 DEF Unsent, Outstanding, Acknowledged
<1> QED
  BY <1>3, <1>4

\* An acknowledgement without data (TCPClient.cpp:200-227,275)
LEMMA AckOnlyStays ==
    ASSUME NEW p, NEW body, Called(p, body), HaveAckOnly(p)
    PROVE  After
<1>1. Ordinary /\ SessionInv /\ ClientRight
  BY DEF Called, SessionInv
<1>2. /\ state = "CONNECTED" /\ InOrder(p) /\ unAckLen' = UnAckLenAfterAck(p)
      /\ UNCHANGED <<state, remoteSeqNum, localPort>>
      /\ CheckForRetransmit(p, FlagsAfterAck(p), TimerAfterAck(p))
  BY DEF HaveAckOnly
<1>3. ~timedOut
  BY <1>2, Accepted
<1>4. CASE Acks(p)
  <2>1. unAckLen' = 0
    BY <1>2, <1>4 DEF UnAckLenAfterAck
  <2>2. NoRetransmit(p, FlagsAfterAck(p), TimerAfterAck(p))
    BY <1>2, <2>1 DEF CheckForRetransmit, GiveUp, Retransmit
  <2>3. appliFlags' = {"ACKDATA"} /\ timedOut' = timedOut /\ SentRight
    BY <1>4, <2>2 DEF NoRetransmit, FlagsAfterAck, Silent, SentRight
  <2>4. conns' = conns /\ delivered' = delivered /\ ~synacked' /\ ~rexmit' /\ pc' = "app"
    BY <2>3 DEF Called, synacked, rexmit
  <2>5. /\ ~Unsent' /\ (Outstanding' \/ Acknowledged')
        /\ Acknowledged' => Acknowledged \/ srv[localPort].requests # <<>>
    BY <1>2, <2>4, AckedState
  <2>6. ClientRight'
    BY <1>1, <1>2, <2>4, <2>5 DEF ClientRight
  <2>7. Kept
    BY <1>2, <2>3, <2>5 DEF Kept, Active, connected
  <2> QED
    BY <1>2, <2>3, <2>6, <2>7 DEF After
<1>5. CASE ~Acks(p)
  <2>1. /\ UNCHANGED <<state, localSeqNum, remoteSeqNum, unAckLen, localPort>>
        /\ state # "DISCONNECTED"
    BY <1>2, <1>5, RequestAcked DEF UnAckLenAfterAck
  <2>2. CheckForRetransmit(p, EntryFlags, TimerAfterAck(p))
    BY <1>2, <1>5 DEF FlagsAfterAck
  <2> QED
    BY <1>3, <2>1, <2>2, CheckStays, Entry
<1> QED
  BY <1>4, <1>5

\* Data and a FIN are taken at the byte after the last one read
LEMMA NextByte ==
    ASSUME NEW p, NEW body, Called(p, body), InOrder(p), state = "CONNECTED",
           p.len > 0 \/ "FIN" \in p.flags
    PROVE  \E n \in 0 .. ResponseLen :
             /\ Len(delivered) = n /\ delivered = [i \in 1 .. n |-> <<conns, i>>]
             /\ remoteSeqNum = ServerNumber(conns, 1 + n)
             /\ p.len = 0 \/ (p.len = 1 /\ n + 1 <= ResponseLen)
             /\ "FIN" \in p.flags => n + p.len = ResponseLen
             /\ body = <<conns, n + 1>>
<1>1. ResponseLen \in Nat /\ Ordinary /\ SessionInv /\ ClientRight
  BY Sizes DEF Called, SessionInv
<1>2. PICK n \in 0 .. ResponseLen : delivered = [i \in 1 .. n |-> <<conns, i>>]
  BY <1>1 DEF ClientRight
<1>3. Len(delivered) = n
  BY <1>1, <1>2, Reading
<1>4. remoteSeqNum = ServerNumber(conns, 1 + n)
  BY <1>1, <1>3 DEF ClientRight
<1>5. p.seq = remoteSeqNum
  BY Accepted DEF OutOfOrder
<1>6. PICK m \in net : p = m.pkt /\ body = m.body /\ FromServer(m)
  BY Accepted
<1>7. m.body[1] = conns /\ m.body[2] = 1 + n
  <2>1. PICK k \in ServerOffsets : k = 1 + n
    BY <1>1 DEF ServerOffsets
  <2>2. m.pkt.seq = ServerNumber(conns, k)
    BY <1>4, <1>5, <1>6, <2>1
  <2> QED
    BY <1>1, <1>6, <2>1, <2>2, OwnBySeq
<1>8. p.len = 0 \/ (p.len = 1 /\ n + 1 <= ResponseLen)
  <2>1. p.len = 0 \/ (p.len = 1 /\ m.body[2] \in 1 .. ResponseLen)
    BY <1>6 DEF FromServer
  <2> QED
    BY <1>1, <1>7, <2>1
<1>9. "FIN" \in p.flags => n + p.len = ResponseLen
  <2>1. "FIN" \in p.flags => m.body[2] + p.len = 1 + ResponseLen
    BY <1>6 DEF FromServer
  <2> QED
    BY <1>1, <1>7, <1>8, <2>1
<1>10. body = <<conns, n + 1>>
  <2>1. m.body = <<m.body[1], m.body[2]>>
    BY <1>6 DEF FromServer
  <2> QED
    BY <1>1, <1>6, <1>7, <2>1
<1> QED
  BY <1>2, <1>3, <1>4, <1>8, <1>9, <1>10

\* The next byte of the response (TCPClient.cpp:269-273)
LEMMA DataStays ==
    ASSUME NEW p, NEW body, Called(p, body), HaveData(p)
    PROVE  After
<1>1. Ordinary /\ SessionInv /\ ClientRight /\ ResponseLen \in Nat /\ conns' = conns /\ pc' = "app"
  BY Sizes DEF Called, SessionInv
<1>2. /\ state = "CONNECTED" /\ InOrder(p) /\ unAckLen' = UnAckLenAfterAck(p) /\ p.len > 0
      /\ remoteSeqNum' = Plus(remoteSeqNum, p.len) /\ "FIN" \notin p.flags
      /\ appliFlags' = FlagsAfterAck(p) \cup {"NEWDATA"}
      /\ UNCHANGED <<state, timedOut, localPort>> /\ Reply({"ACK"})
  BY DEF HaveData
<1>3. PICK n \in 0 .. ResponseLen :
             /\ Len(delivered) = n /\ delivered = [i \in 1 .. n |-> <<conns, i>>]
             /\ remoteSeqNum = ServerNumber(conns, 1 + n)
             /\ p.len = 0 \/ (p.len = 1 /\ n + 1 <= ResponseLen)
             /\ body = <<conns, n + 1>>
  BY <1>2, NextByte
<1>4. p.len = 1 /\ n + 1 <= ResponseLen
  BY <1>2, <1>3
<1>5. delivered' = [i \in 1 .. n + 1 |-> <<conns', i>>] /\ Len(delivered') = n + 1
  <2>1. delivered' = Append(delivered, <<conns, n + 1>>)
    BY <1>2, <1>3 DEF Called
  <2> QED
    BY <1>1, <1>3, <2>1, Reading
<1>6. remoteSeqNum' = ServerNumber(conns', 1 + Len(delivered'))
  <2>1. PICK c \in Connections : c = conns
    BY <1>1, <1>2, Place DEF Placed
  <2>2. Plus(ServerNumber(c, 1 + n), 1) = ServerNumber(c, 1 + (n + 1))
    BY <1>1, <1>4, Steps
  <2> QED
    BY <1>1, <1>2, <1>3, <1>4, <1>5, <2>1, <2>2
<1>7. /\ ~Unsent' /\ (Outstanding' \/ Acknowledged')
      /\ Acknowledged' => Acknowledged \/ srv[localPort].requests # <<>>
  BY <1>1, <1>2, AckedState
<1>8. ~synacked' /\ ~rexmit'
  BY <1>2 DEF FlagsAfterAck, EntryFlags, synacked, rexmit
<1>9. n + 1 \in 0 .. ResponseLen
  BY <1>1, <1>4
<1>10. ClientRight'
  BY <1>1, <1>2, <1>5, <1>6, <1>7, <1>8, <1>9 DEF ClientRight
<1>11. Kept
  BY <1>2, <1>7 DEF Kept, Active, connected
<1>12. sent' = Segment(LinkLocalAddress, {"ACK"}, 0) /\ localPort' \in Port
  BY <1>1, <1>2 DEF Reply, Emit, SessionInv
<1>13. SentRight
  BY <1>1, <1>2, <1>10, <1>12, SegmentSent DEF SentRight
<1> QED
  BY <1>2, <1>10, <1>11, <1>13 DEF After

\* The FIN, with or without the last byte (TCPClient.cpp:257-265)
LEMMA FinStays ==
    ASSUME NEW p, NEW body, Called(p, body), HaveFin(p)
    PROVE  After
<1>1. Ordinary /\ SessionInv /\ ClientRight /\ ResponseLen \in Nat /\ conns' = conns /\ pc' = "app"
  BY Sizes DEF Called, SessionInv
<1>2. /\ state = "CONNECTED" /\ InOrder(p) /\ "FIN" \in p.flags /\ UnAckLenAfterAck(p) = 0
      /\ state' = "LAST_ACK" /\ remoteSeqNum' = Plus(remoteSeqNum, p.len + 1) /\ unAckLen' = 1
      /\ appliFlags' = FlagsAfterAck(p) \cup {"CLOSE"}
                         \cup (IF p.len > 0 THEN {"NEWDATA"} ELSE {})
      /\ UNCHANGED <<timedOut, localPort>> /\ Reply({"FIN", "ACK"})
  BY DEF HaveFin
<1>3. PICK n \in 0 .. ResponseLen :
             /\ Len(delivered) = n /\ delivered = [i \in 1 .. n |-> <<conns, i>>]
             /\ remoteSeqNum = ServerNumber(conns, 1 + n)
             /\ p.len = 0 \/ (p.len = 1 /\ n + 1 <= ResponseLen)
             /\ n + p.len = ResponseLen
             /\ body = <<conns, n + 1>>
  BY <1>2, NextByte
<1>4. /\ \E k \in 0 .. ResponseLen : delivered' = [i \in 1 .. k |-> <<conns', i>>]
      /\ Len(delivered') = ResponseLen
  <2>1. CASE p.len = 0
    <3>1. delivered' = delivered
      BY <1>2, <2>1 DEF Called, FlagsAfterAck, EntryFlags
    <3> QED
      BY <1>1, <1>3, <2>1, <3>1
  <2>2. CASE p.len = 1
    <3>1. delivered' = Append(delivered, <<conns, n + 1>>)
      BY <1>2, <1>3, <2>2 DEF Called
    <3>2. delivered' = [i \in 1 .. n + 1 |-> <<conns', i>>] /\ Len(delivered') = n + 1
      BY <1>1, <1>3, <3>1, Reading
    <3> QED
      BY <1>1, <1>3, <2>2, <3>2
  <2> QED
    BY <1>3, <2>1, <2>2
<1>5. remoteSeqNum' = ServerNumber(conns', 2 + ResponseLen)
  <2>1. PICK c \in Connections : c = conns
    BY <1>1, <1>2, Place DEF Placed
  <2>2. PICK l \in 0 .. 1 : l = p.len /\ n + l = ResponseLen
    BY <1>3
  <2>3. Plus(ServerNumber(c, 1 + n), l + 1) = ServerNumber(c, 2 + ResponseLen)
    BY <1>1, <2>2, Steps
  <2> QED
    BY <1>1, <1>2, <1>3, <2>1, <2>2, <2>3
<1>6. localSeqNum' = ClientNumber(conns', 1 + RequestLen)
  <2>1. CASE Acks(p)
    BY <1>1, <1>2, <2>1, RequestAcked
  <2>2. CASE ~Acks(p)
    <3>1. localSeqNum' = localSeqNum /\ unAckLen = 0 /\ (Unsent \/ Outstanding \/ Acknowledged)
             /\ ~Unsent
      BY <1>2, <2>2, RequestAcked DEF UnAckLenAfterAck
    <3>2. RequestLen # 0
      BY <1>1, Sizes
    <3> QED
      BY <1>1, <3>1, <3>2 DEF Outstanding, Acknowledged
  <2> QED
    BY <2>1, <2>2
<1>7. ~synacked' /\ ~rexmit' /\ ~connected' /\ ~Active'
  BY <1>2 DEF FlagsAfterAck, EntryFlags, synacked, rexmit, connected, Active
<1>8. ClientRight'
  BY <1>1, <1>2, <1>4, <1>5, <1>6, <1>7 DEF ClientRight
<1>9. Kept
  BY <1>7 DEF Kept
<1>10. sent' = Segment(LinkLocalAddress, {"FIN", "ACK"}, 0) /\ localPort' \in Port
  BY <1>1, <1>2 DEF Reply, Emit, SessionInv
<1>11. SentRight
  BY <1>1, <1>2, <1>8, <1>10, SegmentSent DEF SentRight
<1> QED
  BY <1>2, <1>8, <1>9, <1>11 DEF After

\* havePacket() as a whole (TCPClient.cpp:52-353)
LEMMA CallRight ==
    ASSUME NEW p, NEW body, Called(p, body), havePacket(p)
    PROVE  After
BY NothingStays, DroppedStays, OldSegmentStays, RstStays, OutOfOrderStays, SynAckStays,
   BadSynAckStays, FinStays, EarlyFinStays, DataStays, AckOnlyStays, LastAckStays, NotLastAckStays
   DEF havePacket

-----------------------------------------------------------------------------
(* The steps of the client *)

\* Nothing is put into the network but what was there or is sent
LEMMA CarryBounds == \A inFlight, new : Carry(inFlight, new) \subseteq inFlight \cup new
BY DEF Carry

\* Receiving a segment puts nothing into the network
LEMMA TakenBounds == \A m : \A rest \in Taken(m) : rest \subseteq net
BY DEF Taken

\* A segment reaches the client
LEMMA ReceivesRight ==
    ASSUME Ordinary, SessionInv, ClientReceives
    PROVE  SessionInv'
<1>1. PICK m \in net :
        /\ m.pkt.dst = LinkLocalAddress
        /\ Poll(m.pkt)
        /\ \E rest \in Taken(m) : net' = Carry(rest, Transmitted(conns))
        /\ delivered' = IF "NEWDATA" \in appliFlags' THEN Append(delivered, m.body)
                                                     ELSE delivered
        /\ UNCHANGED <<srv, conns>>
  BY DEF ClientReceives
<1>2. RemoteAddress # LinkLocalAddress
  BY AddressAssumption
<1>3. FromServer(m) \/ ResetFromServer(m)
  BY <1>1, <1>2 DEF SessionInv, NetRight, FromClient, ResetFromClient
<1>4. Called(m.pkt, m.body)
  BY <1>1, <1>3 DEF Called, Arrived, Poll
<1>5. After
  BY <1>1, <1>4, CallRight DEF Poll
<1>6. net' \subseteq net \cup Transmitted(conns)
  BY <1>1, CarryBounds, TakenBounds
<1>7. localPort' \in Port
  BY <1>5 DEF After, SessionInv
<1> QED
  BY <1>1, <1>5, <1>6, <1>7, ClientStep DEF After, SentRight

\* loop() without a packet for it
LEMMA ReceivesNothingRight ==
    ASSUME Ordinary, SessionInv, ClientReceivesNothing
    PROVE  SessionInv'
<1>1. /\ Poll(NoPacket) /\ net' = Carry(net, Transmitted(conns))
      /\ UNCHANGED <<srv, conns, delivered>>
  BY DEF ClientReceivesNothing
<1>2. "NEWDATA" \notin appliFlags'
  <2>1. ~ForUs(NoPacket)
    BY DEF ForUs
  <2>2. HaveNothing(NoPacket) \/ HaveDropped(NoPacket)
    BY <1>1, <2>1 DEF Poll, havePacket, HaveOldSegment, OldSegment, HaveRst, HaveOutOfOrder, Found,
                      HaveSynAck, HaveBadSynAck, HaveFin, HaveEarlyFin, HaveData, HaveAckOnly,
                      HaveLastAck, HaveNotLastAck, InOrder
  <2>3. CASE HaveNothing(NoPacket)
    BY <2>3, Entry DEF HaveNothing
  <2>4. CASE HaveDropped(NoPacket)
    BY <2>4, Entry DEF HaveDropped, CheckForRetransmit, NoRetransmit, GiveUp, Retransmit
  <2> QED
    BY <2>2, <2>3, <2>4
<1>3. Called(NoPacket, <<>>)
  BY <1>1, <1>2 DEF Called, Arrived, Poll
<1>4. After
  BY <1>1, <1>3, CallRight DEF Poll
<1>5. net' \subseteq net \cup Transmitted(conns)
  BY <1>1, CarryBounds
<1>6. localPort' \in Port
  BY <1>4 DEF After, SessionInv
<1> QED
  BY <1>1, <1>4, <1>5, <1>6, ClientStep DEF After, SentRight

\* The sketch sends its request, for the first time or again, with sendInternal()
\* (TCPClient.cpp:388-403)
LEMMA SendsRight ==
    ASSUME Ordinary, SessionInv, ClientSends
    PROVE  SessionInv'
<1>1. RequestLen \in Nat /\ RequestLen >= 1 /\ SendLengths = {RequestLen} /\ ClientRight
  BY Sizes DEF SessionInv
<1>2. /\ pc = "app" /\ pc' = "poll" /\ (synacked \/ rexmit)
      /\ IF rexmit THEN unAckLen' = unAckLen ELSE unAckLen' = unAckLen + RequestLen
      /\ UNCHANGED <<state, timedOut, localSeqNum, remoteSeqNum, localPort, appliFlags>>
      /\ sent' = Segment(SourceFor(RemoteAddress), {"ACK"}, RequestLen)
      /\ net' = Carry(net, Transmitted(conns))
      /\ UNCHANGED <<srv, conns, delivered>>
  BY <1>1 DEF ClientSends, SendData, SendDue, Emit
<1>3. connected /\ Outstanding'
  <2>1. CASE rexmit
    BY <1>1, <1>2, <2>1 DEF ClientRight, Outstanding
  <2>2. CASE ~rexmit
    <3>1. connected /\ Unsent
      BY <1>1, <1>2, <2>2 DEF ClientRight
    <3> QED
      BY <1>1, <1>2, <2>2, <3>1 DEF Unsent, Outstanding
  <2> QED
    BY <2>1, <2>2
<1>4. ~Unsent' /\ ~Acknowledged' /\ state' = "CONNECTED"
  BY <1>1, <1>2, <1>3 DEF Unsent, Outstanding, Acknowledged, connected
<1>5. ClientRight'
  BY <1>1, <1>2, <1>3, <1>4 DEF ClientRight
<1>6. Kept
  BY <1>2, <1>4 DEF Kept, Active, connected
<1>7. localPort' \in Port
  BY <1>2 DEF SessionInv
<1>8. (FromClient(Out) \/ ResetFromClient(Out))'
  BY <1>2, <1>3, <1>4, <1>5, <1>7, SegmentSent
<1>9. net' \subseteq net \cup Transmitted(conns)
  BY <1>2, CarryBounds
<1> QED
  BY <1>2, <1>5, <1>6, <1>7, <1>8, <1>9, ClientStep

\* A step of the sketch that sends nothing
LEMMA QuietRight ==
    ASSUME Ordinary, SessionInv, ClientRests \/ ClientOther
    PROVE  SessionInv'
<1>1. ClientRight /\ localPort \in Port
  BY DEF SessionInv
<1>2. UNCHANGED <<net, srv, conns, delivered>>
  BY DEF ClientRests, ClientOther, sessionVars
<1>3. ClientRight' /\ Kept /\ localPort' \in Port /\ sent' = NoPacket
  <2>1. CASE ClientRests \/ Pass \/ Hang \/ Tick
    <3>1. UNCHANGED <<state, timedOut, localSeqNum, remoteSeqNum, unAckLen,
                      localPort, appliFlags>> /\ sent' = NoPacket
      BY <2>1 DEF ClientRests, Pass, Hang, Tick, connVars
    <3>2. /\ pc' = "app" => pc = "app"
          /\ pc' = "poll" /\ connected => ~Unsent
      <4>1. CASE ClientRests
        BY <4>1 DEF ClientRests, ConnectDue
      <4>2. CASE Pass
        BY <1>1, <4>2 DEF Pass, SendDue, ClientRight
      <4>3. CASE Hang
        BY <4>3 DEF Hang
      <4>4. CASE Tick
        BY <1>1, <4>4 DEF Tick, ClientRight
      <4> QED
        BY <2>1, <4>1, <4>2, <4>3, <4>4
    <3>3. /\ (connected' <=> connected) /\ (Unsent' <=> Unsent) /\ (Outstanding' <=> Outstanding)
          /\ (Acknowledged' <=> Acknowledged) /\ (synacked' <=> synacked) /\ (rexmit' <=> rexmit)
      BY <1>2, <3>1 DEF connected, Unsent, Outstanding, Acknowledged, synacked, rexmit
    <3>4. ClientRight'
      BY <1>1, <1>2, <3>1, <3>2, <3>3 DEF ClientRight
    <3>5. Kept
      BY <1>2, <3>1, <3>3 DEF Kept, Active
    <3> QED
      BY <1>1, <3>1, <3>4, <3>5
  <2>2. CASE WatchdogRestart
    <3>1. state' = "DISCONNECTED" /\ appliFlags' = {} /\ localPort' \in Port /\ sent' = NoPacket
      BY <2>2, ValuesAssumption DEF WatchdogRestart
    <3>2. ~Active' /\ ~connected' /\ ~synacked' /\ ~rexmit'
      BY <3>1 DEF Active, connected, synacked, rexmit
    <3> QED
      BY <1>1, <1>2, <3>1, <3>2 DEF ClientRight, Kept
  <2> QED
    BY <2>1, <2>2 DEF ClientOther
<1>4. net' \subseteq net \cup Transmitted(conns)
  BY <1>2
<1> QED
  BY <1>2, <1>3, <1>4, ClientStep

\* connect(): the streams of a new connection, of which nothing is in flight
\* (TCPClient.cpp:18-50)
LEMMA ConnectsRight ==
    ASSUME Ordinary, SessionInv, ClientConnects
    PROVE  SessionInv'
<1>1. /\ ClientRight /\ localPort \in Port /\ MaxConnections \in Nat /\ RequestLen \in Nat
         /\ RequestLen >= 1
      /\ ResponseLen \in Nat
  BY Sizes DEF SessionInv
<1>2. /\ conns < MaxConnections /\ localSeqNum' = ClientIsn[conns + 1] /\ conns' = conns + 1
      /\ delivered' = <<>> /\ net' = Carry(net, Transmitted(conns')) /\ srv' = srv
      /\ pc' = "poll" /\ state' = "WAIT_SYN_ACK" /\ localPort' = NextPort(localPort)
               /\ unAckLen' = 1
      /\ sent' = Segment(SourceFor(RemoteAddress), {"SYN"}, 0)
  BY DEF ClientConnects, Connect, Emit
<1>3. localPort' \in Port
  BY <1>1, <1>2, NextPortType
<1>4. PICK c \in Connections : c = conns' /\ c = conns + 1 /\ conns \in Nat
  BY <1>1, <1>2 DEF ClientRight, Connections
<1>5. localSeqNum' = ClientNumber(conns', 0)
  BY <1>2, <1>4, ClientNumbers
<1>6. /\ ~Unsent' /\ ~Acknowledged' /\ ~connected'
  BY <1>1, <1>2, <1>4, <1>5, Apart DEF Unsent, Acknowledged, connected
<1>7. ClientRight'
  <2>1. delivered' = [i \in 1 .. 0 |-> <<conns', i>>] /\ 0 \in 0 .. ResponseLen
    BY <1>1, <1>2
  <2>2. conns' \in 0 .. MaxConnections /\ conns' # 0
    BY <1>1, <1>2, <1>4
  <2> QED
    BY <1>2, <1>5, <1>6, <2>1, <2>2 DEF ClientRight
<1>8. (FromClient(Out) \/ ResetFromClient(Out))'
  BY <1>2, <1>3, <1>7, SegmentSent
<1>9. 1 .. conns \subseteq 1 .. conns' /\ conns' \notin 1 .. conns
  BY <1>4
<1>10. ASSUME NEW m \in net
       PROVE  (FromServer(m) \/ ResetFromServer(m) \/ FromClient(m) \/ ResetFromClient(m))'
  <2>1. CASE FromServer(m)
    <3>1. FromServer(m)'
      BY <1>9, <2>1 DEF FromServer
    <3> QED
      BY <3>1
  <2>2. CASE ResetFromServer(m)
    BY <2>2 DEF ResetFromServer
  <2>3. CASE FromClient(m)
    <3>1. FromClient(m)'
      BY <1>9, <2>3 DEF FromClient
    <3> QED
      BY <3>1
  <2>4. CASE ResetFromClient(m)
    <3>1. ResetFromClient(m)'
      BY <1>9, <2>4 DEF ResetFromClient
    <3> QED
      BY <3>1
  <2> QED
    BY <2>1, <2>2, <2>3, <2>4 DEF SessionInv, NetRight
<1>11. NetRight'
  <2>1. ASSUME NEW m \in net', m \notin net
        PROVE  (FromServer(m) \/ ResetFromServer(m) \/ FromClient(m) \/ ResetFromClient(m))'
    <3>1. m = Out'
      BY <1>2, <2>1, CarryBounds DEF Transmitted, Out
    <3>2. (FromClient(Out) \/ ResetFromClient(Out))' => (FromClient(m) \/ ResetFromClient(m))'
      BY <3>1 DEF FromClient, ResetFromClient
    <3> QED
      BY <1>8, <3>2
  <2> QED
    BY <1>10, <2>1 DEF NetRight
<1>12. ServerRight'
  <2>1. ASSUME NEW port \in Port, srv[port].st # "NONE"
        PROVE  TcbRight(srv[port])' /\ srv[port].peer # conns'
    <3>1. TcbRight(srv[port])
      BY <2>1 DEF SessionInv, ServerRight
    <3>2. srv[port].peer \in 1 .. conns
      BY <3>1 DEF TcbRight
    <3>3. TcbRight(srv[port])'
      BY <1>2, <1>9, <3>1, <3>2 DEF TcbRight
    <3> QED
      BY <1>9, <3>2, <3>3
  <2>2. DOMAIN srv' = Port
    BY <1>2 DEF SessionInv, ServerRight
  <2> QED
    BY <1>2, <1>6, <2>1, <2>2 DEF ServerRight
<1> QED
  BY <1>3, <1>7, <1>11, <1>12 DEF SessionInv

-----------------------------------------------------------------------------
(* What a step of the server must be *)

\* A step of the server leaves the client alone
Still == UNCHANGED <<vars, conns, delivered>>

\* ... and what is said of it as it was
LEMMA ClientStill ==
    ASSUME SessionInv, Still
    PROVE  /\ ClientRight' /\ localPort' \in Port /\ conns' = conns /\ localPort' = localPort
           /\ state' = state /\ (Active' <=> Active) /\ (connected' <=> connected)
           /\ (Unsent' <=> Unsent) /\ (Acknowledged' <=> Acknowledged)
<1>1. /\ UNCHANGED <<state, timedOut, localSeqNum, remoteSeqNum, unAckLen,
                     localPort, appliFlags, pc>>
      /\ conns' = conns /\ delivered' = delivered
  BY DEF Still, vars
<1>2. /\ (Active' <=> Active) /\ (connected' <=> connected)
      /\ (Unsent' <=> Unsent) /\ (Acknowledged' <=> Acknowledged) /\ (Outstanding' <=> Outstanding)
      /\ (synacked' <=> synacked) /\ (rexmit' <=> rexmit)
  BY <1>1 DEF Active, connected, Unsent, Outstanding, Acknowledged, synacked, rexmit
<1>3. ClientRight'
  BY <1>1, <1>2 DEF SessionInv, ClientRight
<1> QED
  BY <1>1, <1>2, <1>3 DEF SessionInv

\* The connection that is open stays known to the server
TcbKept ==
    Active /\ srv[localPort].st # "NONE" /\ srv[localPort].peer = conns =>
        /\ srv'[localPort].st # "NONE" /\ srv'[localPort].peer = conns
        /\ srv[localPort].rcvNxt \in {ClientNumber(conns, 1), srv'[localPort].rcvNxt}

\* What is in flight stays right in a step of the server
LEMMA SegmentsStay ==
    ASSUME SessionInv, Still, TcbKept, NEW m \in net
    PROVE  (FromServer(m) \/ ResetFromServer(m) \/ FromClient(m) \/ ResetFromClient(m))'
<1>1. /\ conns' = conns /\ localPort' = localPort /\ state' = state
      /\ (Active' <=> Active) /\ (Unsent' <=> Unsent)
  BY ClientStill
<1>2. CASE FromServer(m)
  <2>1. Active /\ m.body[1] = conns =>
          /\ srv'[localPort].st # "NONE" /\ srv'[localPort].peer = conns
          /\ m.pkt.ack \in {ClientNumber(conns, 1), srv'[localPort].rcvNxt}
    BY <1>2 DEF FromServer, TcbKept
  <2>2. FromServer(m)'
    BY <1>1, <1>2, <2>1 DEF FromServer
  <2> QED
    BY <2>2
<1>3. CASE ResetFromServer(m)
  BY <1>3 DEF ResetFromServer
<1>4. CASE FromClient(m)
  <2>1. FromClient(m)'
    BY <1>1, <1>4 DEF FromClient
  <2> QED
    BY <2>1
<1>5. CASE ResetFromClient(m)
  <2>1. ResetFromClient(m)'
    BY <1>1, <1>5 DEF ResetFromClient
  <2> QED
    BY <2>1
<1> QED
  BY <1>2, <1>3, <1>4, <1>5 DEF SessionInv, NetRight

\* A step of the server is right when its control blocks, and what it sends, are
LEMMA ServerStep ==
    ASSUME SessionInv, Still, TcbKept, ServerRight',
           \A m \in net' : m \notin net => FromServer(m)' \/ ResetFromServer(m)'
    PROVE  SessionInv'
<1>1. NetRight'
  BY SegmentsStay DEF NetRight
<1> QED
  BY <1>1, ClientStill DEF SessionInv

\* One control block changes
LEMMA TcbChanges ==
    ASSUME SessionInv, Still, NEW port \in Port, NEW now, srv' = [srv EXCEPT ![port] = now],
           now.st = "NONE" \/ TcbRight(now),
           Active /\ now.st # "NONE" /\ now.peer = conns =>
             /\ port = localPort /\ now.st # "DONE"
             /\ state = "WAIT_SYN_ACK" => now.st = "SYN_RCVD"
             /\ Unsent => now.requests = <<>>
             /\ Acknowledged => now.requests # <<>>,
           Active /\ connected /\ port = localPort => now.st # "NONE" /\ now.peer = conns
    PROVE  ServerRight'
<1>1. /\ conns' = conns /\ localPort' = localPort /\ state' = state /\ localPort \in Port
      /\ (Active' <=> Active) /\ (Unsent' <=> Unsent) /\ (Acknowledged' <=> Acknowledged)
      /\ (connected' <=> connected)
  BY ClientStill
<1>2. DOMAIN srv = Port /\ DOMAIN srv' = Port
  BY DEF SessionInv, ServerRight
<1>3. srv'[port] = now /\ \A q \in Port : q # port => srv'[q] = srv[q]
  BY <1>2
<1>4. ASSUME NEW q \in Port, srv'[q].st # "NONE"
      PROVE  TcbRight(srv[q])'
  <2>1. TcbRight(srv'[q])
    BY <1>3, <1>4 DEF SessionInv, ServerRight
  <2> QED
    BY <1>1, <2>1 DEF TcbRight
<1>5. ASSUME Active', NEW q \in Port, srv'[q].st # "NONE" /\ srv'[q].peer = conns'
      PROVE  TcbOfConnection(q)'
  <2>1. CASE q = port
    BY <1>1, <1>3, <1>5, <2>1 DEF TcbOfConnection
  <2>2. CASE q # port
    <3>1. srv'[q] = srv[q] /\ TcbOfConnection(q)
      BY <1>1, <1>3, <1>5, <2>2 DEF SessionInv, ServerRight
    <3> QED
      BY <1>1, <3>1 DEF TcbOfConnection
  <2> QED
    BY <2>1, <2>2
<1>6. Active' /\ connected' => srv'[localPort'].st # "NONE" /\ srv'[localPort'].peer = conns'
  BY <1>1, <1>3 DEF SessionInv, ServerRight
<1> QED
  BY <1>2, <1>4, <1>5, <1>6 DEF ServerRight

\* None changes
LEMMA TcbsStay ==
    ASSUME SessionInv, Still, srv' = srv
    PROVE  ServerRight' /\ TcbKept
<1>1. /\ conns' = conns /\ localPort' = localPort /\ state' = state
      /\ (Active' <=> Active) /\ (Unsent' <=> Unsent) /\ (Acknowledged' <=> Acknowledged)
      /\ (connected' <=> connected)
  BY ClientStill
<1>2. TcbKept
  BY DEF TcbKept
<1>3. Kept
  BY <1>1 DEF Kept
<1> QED
  BY <1>1, <1>2, <1>3, TcbsKept

\* A segment of the server's stream
LEMMA ToClientRight ==
    ASSUME Ordinary, ServerRight', NEW port \in Port, srv'[port].st # "NONE", NEW tcb,
           tcb.peer = srv'[port].peer, tcb.iss = srv'[port].iss, tcb.rcvNxt = srv'[port].rcvNxt,
           NEW offset \in 0 .. ResponseLen + 2, NEW flags, NEW len,
           "ACK" \in flags, "RST" \notin flags,
           len = 0 \/ (len = 1 /\ offset \in 1 .. ResponseLen),
           "FIN" \in flags => offset + len = 1 + ResponseLen,
           srv'[port].st = "SYN_RCVD" => offset = 0,
           NEW m, m = ToClient(port, tcb, flags, offset, len)
    PROVE  FromServer(m)'
<1>1. RequestLen \in Nat /\ RequestLen >= 1 /\ ResponseLen \in Nat
  BY Sizes
<1>2. /\ m.pkt.dst = LinkLocalAddress /\ m.pkt.dport = port /\ m.pkt.flags = flags
      /\ m.pkt.seq = Plus(tcb.iss, offset) /\ m.pkt.ack = tcb.rcvNxt /\ m.pkt.len = len
      /\ m.body = <<tcb.peer, offset>>
  BY DEF ToClient
<1>3. PICK now : now = srv'[port]
  OBVIOUS
<1>4. TcbRight(now)'
  BY <1>3 DEF ServerRight, TcbRight
<1>5. now.peer \in 1 .. conns' /\ now.iss = ServerIsn[now.peer]
  BY <1>4 DEF TcbRight
<1>6. \E k \in 1 .. 2 + RequestLen : now.rcvNxt = ClientNumber(now.peer, k)
  <2>1. 1 \in 1 .. 2 + RequestLen /\ 1 + RequestLen \in 1 .. 2 + RequestLen
           /\ 2 + RequestLen \in 1 .. 2 + RequestLen
    BY <1>1
  <2> QED
    BY <1>4, <2>1 DEF TcbRight
<1>7. m.pkt.seq = ServerNumber(m.body[1], m.body[2])
  BY <1>2, <1>3, <1>5 DEF ServerNumber
<1>8. ASSUME Active', m.body[1] = conns'
      PROVE  /\ m.pkt.dport = localPort'
             /\ srv'[localPort'].st # "NONE" /\ srv'[localPort'].peer = conns'
             /\ m.pkt.ack \in {ClientNumber(conns', 1), srv'[localPort'].rcvNxt}
             /\ state' = "WAIT_SYN_ACK" => m.body[2] = 0
  <2>1. TcbOfConnection(port)'
    BY <1>2, <1>3, <1>8 DEF ServerRight
  <2>2. port = localPort' /\ (state' = "WAIT_SYN_ACK" => srv'[port].st = "SYN_RCVD")
    BY <2>1 DEF TcbOfConnection
  <2> QED
    BY <1>2, <1>3, <1>8, <2>2
<1> QED
  BY <1>2, <1>3, <1>5, <1>6, <1>7, <1>8 DEF FromServer

-----------------------------------------------------------------------------
(* The steps of the server, one by one *)

\* What the server finds in the network
LEMMA AtTheServer ==
    ASSUME SessionInv, NEW m \in net, m.pkt.dst = RemoteAddress
    PROVE  /\ FromClient(m) \/ ResetFromClient(m)
           /\ m.pkt.sport \in Port
           /\ "SYN" \in m.pkt.flags => FromClient(m) /\ m.pkt.flags = {"SYN"}
           /\ "RST" \in m.pkt.flags => ResetFromClient(m)
           /\ m.pkt.flags \cap {"SYN", "RST"} = {} => FromClient(m) /\ m.pkt.flags # {"SYN"}
<1>1. RemoteAddress # LinkLocalAddress
  BY AddressAssumption
<1>2. FromClient(m) \/ ResetFromClient(m)
  BY <1>1 DEF SessionInv, NetRight, FromServer, ResetFromServer
<1>3. m.pkt.sport \in Port
  BY <1>2 DEF FromClient, ResetFromClient
<1>4. FromClient(m) => m.pkt.flags \in {{"SYN"}, {"ACK"}, {"FIN", "ACK"}}
  BY DEF FromClient
<1>5. ResetFromClient(m) => m.pkt.flags = {"RST", "ACK"}
  BY DEF ResetFromClient
<1> QED
  BY <1>2, <1>3, <1>4, <1>5

\* The connections opened so far have numbers
LEMMA ConnectionOf ==
    ASSUME Ordinary, SessionInv
    PROVE  1 .. conns \subseteq Connections
BY Sizes DEF SessionInv, ClientRight, Connections

\* A SYN is accepted: it is of the connection that waits for it, or of an earlier one
LEMMA AcceptRight ==
    ASSUME Ordinary, SessionInv, Still, NEW m \in net, m.pkt.dst = RemoteAddress,
           NEW port, port = m.pkt.sport, Accept(m, port)
    PROVE  SessionInv'
<1>1. RequestLen \in Nat /\ RequestLen >= 1 /\ ResponseLen \in Nat
  BY Sizes
<1>2. port \in Port /\ FromClient(m) /\ m.pkt.flags = {"SYN"} /\ srv[port].st = "NONE"
  BY AtTheServer DEF Accept
<1>3. PICK tcb : /\ tcb = [st |-> "SYN_RCVD", peer |-> m.body[1],
                           iss |-> ServerIsn[m.body[1]], rcvNxt |-> Plus(m.pkt.seq, 1),
                           una |-> 0, nxt |-> 1, requests |-> <<>>]
                 /\ srv' = [srv EXCEPT ![port] = tcb]
                 /\ \E rest \in Taken(m) :
                      net' = Carry(rest, {ToClient(port, tcb, {"SYN", "ACK"}, 0, 0)})
  BY DEF Accept
<1>4. PICK c \in Connections : c = m.body[1] /\ c \in 1 .. conns /\ m.pkt.seq = ClientNumber(c, 0)
  BY <1>2, ConnectionOf DEF FromClient
<1>5. tcb.rcvNxt = ClientNumber(c, 1) /\ tcb.rcvNxt \in Seq32
  <2>1. Plus(ClientNumber(c, 0), 1) = ClientNumber(c, 1)
    BY Steps
  <2>2. 1 \in ClientOffsets
    BY <1>1 DEF ClientOffsets
  <2> QED
    BY <1>3, <1>4, <2>1, <2>2, ClientNumbers DEF Seq32
<1>6. ServerIsn[c] \in Seq32
  BY SessionAssumption DEF Connections
<1>7. TcbRight(tcb)
  <2>1. tcb \in [st : {"SYN_RCVD", "OPEN", "DONE"}, peer : 1 .. conns, iss : Seq32, rcvNxt : Seq32,
               una : Nat, nxt : 1 .. ResponseLen + 2, requests : Seq(Nat)]
    BY <1>1, <1>3, <1>4, <1>5, <1>6
  <2> QED
    BY <1>3, <1>4, <1>5, <2>1 DEF TcbRight
<1>8. ~(Active /\ connected /\ port = localPort)
  BY <1>2 DEF SessionInv, ServerRight
<1>9. Active /\ tcb.peer = conns => port = localPort
  BY <1>2, <1>3 DEF FromClient
<1>10. ASSUME Active, tcb.peer = conns
       PROVE  state = "WAIT_SYN_ACK" /\ ~Acknowledged
  <2>1. state = "WAIT_SYN_ACK"
    BY <1>8, <1>9, <1>10 DEF Active, connected
  <2>2. localSeqNum = ClientNumber(conns, 0)
    BY <2>1 DEF SessionInv, ClientRight
  <2> QED
    BY <1>3, <1>4, <1>10, <2>1, <2>2, Apart DEF Acknowledged
<1>11. ServerRight'
  BY <1>2, <1>3, <1>7, <1>8, <1>9, <1>10, TcbChanges
<1>12. TcbKept
  BY <1>2, <1>3 DEF TcbKept, SessionInv, ServerRight
<1>13. srv'[port] = tcb
  BY <1>2, <1>3 DEF SessionInv, ServerRight
<1>14. ASSUME NEW s \in net', s \notin net
       PROVE  FromServer(s)'
  <2>1. s = ToClient(port, tcb, {"SYN", "ACK"}, 0, 0)
    BY <1>3, <1>14, CarryBounds, TakenBounds
  <2>2. 0 \in 0 .. ResponseLen + 2
    BY <1>1
  <2> QED
    BY <1>2, <1>3, <1>11, <1>13, <2>1, <2>2, ToClientRight
<1> QED
  BY <1>11, <1>12, <1>14, ServerStep

\* A SYN that comes again
LEMMA AnswerRight ==
    ASSUME Ordinary, SessionInv, Still, NEW m \in net, m.pkt.dst = RemoteAddress,
           NEW port, port = m.pkt.sport, AnswerSynAgain(m, port)
    PROVE  SessionInv'
<1>1. ResponseLen \in Nat /\ ~EarlyBareAck
  BY Sizes DEF Ordinary
<1>2. port \in Port /\ srv[port].st # "NONE" /\ srv' = srv
  BY AtTheServer DEF AnswerSynAgain
<1>3. ServerRight' /\ TcbKept
  BY <1>2, TcbsStay
<1>4. PICK tcb : tcb = srv[port]
  OBVIOUS
<1>5. TcbRight(tcb)
  BY <1>2, <1>4 DEF SessionInv, ServerRight
<1>6. tcb.nxt \in 1 .. ResponseLen + 2
  BY <1>5 DEF TcbRight
<1>7. PICK s : /\ \E rest \in Taken(m) : net' = Carry(rest, {s})
               /\ \/ s = ToClient(port, tcb, {"SYN", "ACK"}, 0, 0)
                  \/ s = ToClient(port, tcb, {"ACK"}, tcb.nxt, 0) /\ tcb.st # "SYN_RCVD"
  BY <1>1, <1>4 DEF AnswerSynAgain, BareAck
<1>8. FromServer(s)'
  <2>1. CASE s = ToClient(port, tcb, {"SYN", "ACK"}, 0, 0)
    <3>1. 0 \in 0 .. ResponseLen + 2
      BY <1>1
    <3> QED
      BY <1>2, <1>3, <1>4, <2>1, <3>1, ToClientRight
  <2>2. CASE s = ToClient(port, tcb, {"ACK"}, tcb.nxt, 0) /\ tcb.st # "SYN_RCVD"
    <3>1. PICK o \in 0 .. ResponseLen + 2 : o = tcb.nxt
      BY <1>1, <1>6
    <3> QED
      BY <1>2, <1>3, <1>4, <2>2, <3>1, ToClientRight
  <2> QED
    BY <1>7, <2>1, <2>2
<1>9. ASSUME NEW q \in net', q \notin net
      PROVE  FromServer(q)'
  <2>1. q = s
    BY <1>7, <1>9, CarryBounds, TakenBounds
  <2>2. FromServer(s)' => FromServer(q)'
    BY <2>1 DEF FromServer
  <2> QED
    BY <1>8, <2>2
<1> QED
  BY <1>3, <1>9, ServerStep

\* A segment for no connection
LEMMA RefuseRight ==
    ASSUME Ordinary, SessionInv, Still, NEW m \in net, m.pkt.dst = RemoteAddress,
           NEW port, port = m.pkt.sport, Refuse(m, port)
    PROVE  SessionInv'
<1>1. ServerRight' /\ TcbKept
  BY TcbsStay DEF Refuse
<1>2. PICK s : /\ \E rest \in Taken(m) : net' = Carry(rest, {s})
               /\ s.pkt.dst = LinkLocalAddress /\ s.pkt.flags = {"RST"}
  <2>1. PICK s : s = [pkt |-> [src |-> RemoteAddress, dst |-> LinkLocalAddress,
                           proto |-> "TCP", sport |-> RemotePort, dport |-> port,
                           flags |-> {"RST"}, seq |-> m.pkt.ack, ack |-> 0,
                           len |-> 0],
                  body |-> m.body]
    OBVIOUS
  <2>2. \E rest \in Taken(m) : net' = Carry(rest, {s})
    BY <2>1 DEF Refuse
  <2>3. s.pkt.dst = LinkLocalAddress /\ s.pkt.flags = {"RST"}
    BY <2>1
  <2> QED
    BY <2>2, <2>3
<1>3. ASSUME NEW q \in net', q \notin net
      PROVE  ResetFromServer(q)'
  <2>1. q = s
    BY <1>2, <1>3, CarryBounds, TakenBounds
  <2> QED
    BY <1>2, <2>1 DEF ResetFromServer
<1> QED
  BY <1>1, <1>3, ServerStep

\* A control block is given up
LEMMA GivenUp ==
    ASSUME SessionInv, Still, NEW port \in Port, srv' = [srv EXCEPT ![port] = NoTcb],
           net' \subseteq net, ~(Active /\ srv[port].st # "NONE" /\ srv[port].peer = conns)
    PROVE  SessionInv'
<1>1. ~(Active /\ connected /\ port = localPort)
  BY DEF SessionInv, ServerRight
<1>2. PICK now : now = NoTcb /\ now.st = "NONE"
  <2>1. NoTcb.st = "NONE"
    BY DEF NoTcb
  <2>2. \E now : now = NoTcb
    OBVIOUS
  <2> QED
    BY <2>1, <2>2
<1>3. srv' = [srv EXCEPT ![port] = now]
  BY <1>2
<1>4. ServerRight'
  BY <1>1, <1>2, <1>3, TcbChanges
<1>5. TcbKept
  BY <1>3 DEF TcbKept, SessionInv, ServerRight
<1> QED
  BY <1>4, <1>5, ServerStep

\* A RST is of another connection than the one that is open
LEMMA ReceiveRstRight ==
    ASSUME Ordinary, SessionInv, Still, NEW m \in net, m.pkt.dst = RemoteAddress,
           NEW port, port = m.pkt.sport, ReceiveRst(m, port)
    PROVE  SessionInv'
<1>1. RequestLen \in Nat
  BY Sizes
<1>2. port \in Port /\ ResetFromClient(m) /\ net' \subseteq net
  BY AtTheServer, TakenBounds DEF ReceiveRst
<1>3. CASE srv' = srv
  <2>1. ServerRight' /\ TcbKept
    BY <1>3, TcbsStay
  <2> QED
    BY <1>2, <2>1, ServerStep
<1>4. CASE srv[port].st # "NONE" /\ m.pkt.seq = srv[port].rcvNxt
         /\ srv' = [srv EXCEPT ![port] = NoTcb]
  <2>1. TcbRight(srv[port])
    BY <1>2, <1>4 DEF SessionInv, ServerRight
  <2>2. ~(Active /\ srv[port].peer = conns)
    <3>1. SUFFICES ASSUME Active, srv[port].peer = conns PROVE FALSE
      OBVIOUS
    <3>2. PICK c \in 1 .. conns, k \in 0 .. 2 + RequestLen : m.pkt.seq = ClientNumber(c, k)
             /\ c # conns
      BY <1>2, <3>1 DEF ResetFromClient
    <3>3. PICK r \in {1, 1 + RequestLen, 2 + RequestLen} : srv[port].rcvNxt = ClientNumber(conns, r)
      BY <2>1, <3>1 DEF TcbRight
    <3>4. k \in ClientOffsets /\ r \in ClientOffsets
      BY <1>1 DEF ClientOffsets
    <3>5. PICK d \in Connections : d = conns
      BY <2>1, <3>1, ConnectionOf DEF TcbRight
    <3>6. ClientNumber(c, k) = ClientNumber(d, r) /\ c \in Connections
      BY <1>4, <3>2, <3>3, <3>5, ConnectionOf
    <3> QED
      BY <3>2, <3>4, <3>5, <3>6, ClientNumbersDiffer
  <2> QED
    BY <1>2, <1>4, <2>2, GivenUp
<1> QED
  BY <1>3, <1>4 DEF ReceiveRst

\* What a segment does to the control block tcb: the acknowledgement, the data and the FIN, in the
\* order they are looked at
Looked(m, tcb, una, hasData, next, hasFin, now) ==
    /\ una = IF /\ (m.pkt.ack - tcb.iss) % SeqMod > tcb.una
                /\ (m.pkt.ack - tcb.iss) % SeqMod <= tcb.nxt
               THEN (m.pkt.ack - tcb.iss) % SeqMod ELSE tcb.una
    /\ hasData <=> una > 0 /\ (m.pkt.seq + m.pkt.len - tcb.rcvNxt) % SeqMod \in 1 .. m.pkt.len
    /\ next = IF hasData THEN Plus(tcb.rcvNxt, (m.pkt.seq + m.pkt.len - tcb.rcvNxt) % SeqMod)
              ELSE tcb.rcvNxt
    /\ hasFin <=> una > 0 /\ "FIN" \in m.pkt.flags /\ Plus(m.pkt.seq, m.pkt.len) = next
    /\ now = [tcb EXCEPT
                !.una = una,
                !.st = IF hasFin THEN "DONE"
                       ELSE IF tcb.st = "SYN_RCVD" /\ una > 0 THEN "OPEN"
                       ELSE tcb.st,
                !.rcvNxt = IF hasFin THEN Plus(next, 1) ELSE next,
                !.requests = IF hasData THEN Append(@, m.body[1]) ELSE @]

\* A control block stays right: the request is taken once, and from its own connection
LEMMA Received ==
    ASSUME Ordinary, SessionInv, NEW m, FromClient(m), m.pkt.flags # {"SYN"},
           NEW tcb, TcbRight(tcb), NEW una, NEW hasData \in BOOLEAN, NEW next,
           NEW hasFin \in BOOLEAN, NEW now, Looked(m, tcb, una, hasData, next, hasFin, now)
    PROVE  /\ TcbRight(now) /\ now.peer = tcb.peer /\ now.nxt = tcb.nxt
           /\ now.rcvNxt = tcb.rcvNxt
                \/ (tcb.rcvNxt = ClientNumber(tcb.peer, 1) /\ ~hasFin)
                \/ (hasFin /\ m.body[1] = tcb.peer)
           /\ hasFin => "FIN" \in m.pkt.flags /\ m.body[1] = tcb.peer
           /\ hasData => m.pkt.len # 0 /\ m.body[1] = tcb.peer
           /\ now.requests = IF hasData THEN Append(tcb.requests, m.body[1]) ELSE tcb.requests
           /\ tcb.requests # <<>> => now.requests # <<>>
           /\ now.st = "DONE" => tcb.st = "DONE" \/ hasFin
           /\ tcb.st = "SYN_RCVD" /\ now.st # "SYN_RCVD" => m.body[1] = tcb.peer
           /\ now.st = "SYN_RCVD" <=> una = 0
<1>1. /\ RequestLen \in Nat /\ RequestLen >= 1 /\ ResponseLen \in Nat /\ SeqMod \in Nat
      /\ RequestLen + 2 < SeqMod /\ ResponseLen + 2 < SeqMod
  BY Sizes
<1> USE DEF Looked
<1>2. /\ tcb \in [st : {"SYN_RCVD", "OPEN", "DONE"}, peer : 1 .. conns, iss : Seq32,
               rcvNxt : Seq32, una : Nat, nxt : 1 .. ResponseLen + 2, requests : Seq(Nat)]
      /\ tcb.iss = ServerIsn[tcb.peer] /\ (tcb.una = 0 <=> tcb.st = "SYN_RCVD")
      /\ \/ tcb.st # "DONE" /\ tcb.requests = <<>> /\ tcb.rcvNxt = ClientNumber(tcb.peer, 1)
         \/ /\ tcb.st = "OPEN" /\ tcb.requests = <<tcb.peer>>
            /\ tcb.rcvNxt = ClientNumber(tcb.peer, 1 + RequestLen)
         \/ /\ tcb.st = "DONE" /\ tcb.requests = <<tcb.peer>>
            /\ tcb.rcvNxt = ClientNumber(tcb.peer, 2 + RequestLen)
  BY DEF TcbRight
<1>3. PICK c \in Connections, d \in Connections : c = m.body[1] /\ d = tcb.peer /\ c \in 1 .. conns
  BY <1>2, ConnectionOf DEF FromClient
<1>4. PICK r \in {1, 1 + RequestLen, 2 + RequestLen} : tcb.rcvNxt = ClientNumber(d, r)
  BY <1>2, <1>3
<1>5. PICK k \in ServerOffsets : m.pkt.ack = ServerNumber(c, k)
  <2>1. \E k \in 1 .. ResponseLen + 2 : m.pkt.ack = ServerNumber(c, k)
    BY <1>3 DEF FromClient
  <2>2. 1 .. ResponseLen + 2 \subseteq ServerOffsets
    BY <1>1 DEF ServerOffsets
  <2> QED
    BY <2>1, <2>2
<1>6. \/ m.pkt.len = RequestLen /\ m.pkt.seq = ClientNumber(c, 1) /\ "FIN" \notin m.pkt.flags
      \/ m.pkt.len = 0 /\ ("FIN" \in m.pkt.flags => m.pkt.seq = ClientNumber(c, 1 + RequestLen))
  BY <1>3 DEF FromClient
<1>7. PICK acked \in 0 .. SeqMod - 1 : acked = (m.pkt.ack - tcb.iss) % SeqMod
  <2>1. PICK a \in 0 .. SeqMod - 1, b \in 0 .. SeqMod - 1 : a = m.pkt.ack /\ b = tcb.iss
    BY <1>2, <1>5, ServerNumbers DEF Seq32
  <2>2. 0 \in 0 .. SeqMod - 1
    BY <1>1
  <2> QED
    BY <2>1, <2>2, MinusIs
<1>8. una = IF acked > tcb.una /\ acked <= tcb.nxt THEN acked ELSE tcb.una
  BY <1>7
<1>9. una \in Nat /\ una >= tcb.una /\ tcb.una \in Nat
  BY <1>1, <1>2, <1>8
<1>10. tcb.st = "SYN_RCVD" /\ una > 0 => c = d
  <2>1. SUFFICES ASSUME tcb.st = "SYN_RCVD", una > 0 PROVE c = d
    OBVIOUS
  <2>2. acked <= tcb.nxt /\ tcb.nxt <= ResponseLen + 2
    BY <1>1, <1>2, <1>8, <2>1
  <2>3. acked \in ServerOffsets
    BY <1>1, <1>2, <2>2 DEF ServerOffsets
  <2>4. tcb.iss = ServerNumber(d, 0)
    BY <1>2, <1>3, ServerNumbers
  <2>5. (ServerNumber(c, k) - ServerNumber(d, 0)) % SeqMod \in ServerOffsets
    BY <1>5, <1>7, <2>3, <2>4
  <2> QED
    BY <2>5, AckIsOwn
<1>11. hasData => m.pkt.len = RequestLen /\ m.pkt.seq = ClientNumber(c, 1)
         /\ "FIN" \notin m.pkt.flags
  BY <1>6
<1>12. hasData => c = d /\ r = 1 /\ next = ClientNumber(d, 1 + RequestLen)
  <2>1. SUFFICES ASSUME hasData PROVE c = d /\ r = 1 /\ next = ClientNumber(d, 1 + RequestLen)
    OBVIOUS
  <2>2. (ClientNumber(c, 1) + RequestLen - ClientNumber(d, r)) % SeqMod \in 1 .. RequestLen
    BY <1>4, <1>11, <2>1
  <2>3. c = d /\ r = 1
           /\ (ClientNumber(c, 1) + RequestLen - ClientNumber(d, r)) % SeqMod = RequestLen
    BY <2>2, NewBytes
  <2>4. next = Plus(ClientNumber(d, 1), RequestLen)
    BY <1>4, <1>11, <2>1, <2>3
  <2> QED
    BY <2>3, <2>4, Steps
<1>13. ~hasData => next = ClientNumber(d, r) /\ next = tcb.rcvNxt
  BY <1>4
<1>14. hasFin => c = d /\ r = 1 + RequestLen /\ ~hasData
         /\ Plus(next, 1) = ClientNumber(d, 2 + RequestLen)
  <2>1. SUFFICES ASSUME hasFin
                 PROVE c = d /\ r = 1 + RequestLen /\ ~hasData
                          /\ Plus(next, 1) = ClientNumber(d, 2 + RequestLen)
    OBVIOUS
  <2>2. m.pkt.len = 0 /\ m.pkt.seq = ClientNumber(c, 1 + RequestLen) /\ ~hasData
    BY <1>6, <1>11, <2>1
  <2>3. Plus(ClientNumber(c, 1 + RequestLen), 0) = ClientNumber(d, r)
    BY <1>13, <2>1, <2>2
  <2>4. ClientNumber(c, 1 + RequestLen) = ClientNumber(d, r)
    BY <2>3, Steps
  <2>5. PICK l \in ClientOffsets : l = 1 + RequestLen
    BY <1>1 DEF ClientOffsets
  <2>6. r \in ClientOffsets
    BY <1>1 DEF ClientOffsets
  <2>7. ClientNumber(c, l) = ClientNumber(d, r)
    BY <2>4, <2>5
  <2>8. c = d /\ l = r
    BY <2>6, <2>7, ClientNumbersDiffer
  <2> QED
    BY <1>13, <2>2, <2>5, <2>8, Steps
<1>15. /\ now.una = una /\ now.peer = tcb.peer /\ now.iss = tcb.iss /\ now.nxt = tcb.nxt
       /\ now.st = IF hasFin THEN "DONE"
                   ELSE IF tcb.st = "SYN_RCVD" /\ una > 0 THEN "OPEN" ELSE tcb.st
       /\ now.rcvNxt = IF hasFin THEN Plus(next, 1) ELSE next
       /\ now.requests = IF hasData THEN Append(tcb.requests, m.body[1]) ELSE tcb.requests
  BY <1>2
<1>16. PICK l \in ClientOffsets, h \in ClientOffsets : l = 1 + RequestLen /\ h = 2 + RequestLen
  BY <1>1 DEF ClientOffsets
<1>17. ClientNumber(d, 1 + RequestLen) \in Seq32 /\ ClientNumber(d, 2 + RequestLen) \in Seq32
  BY <1>16, ClientNumbers DEF Seq32
<1>18. hasData => tcb.st # "DONE" /\ tcb.requests = <<>>
  <2>1. SUFFICES ASSUME hasData PROVE tcb.st # "DONE" /\ tcb.requests = <<>>
    OBVIOUS
  <2>2. tcb.rcvNxt = ClientNumber(d, 1)
    BY <1>4, <1>12, <2>1
  <2> QED
    BY <1>2, <1>3, <2>2, Apart
<1>19. hasFin => tcb.st = "OPEN" /\ tcb.requests = <<tcb.peer>>
  <2>1. SUFFICES ASSUME hasFin PROVE tcb.st = "OPEN" /\ tcb.requests = <<tcb.peer>>
    OBVIOUS
  <2>2. tcb.rcvNxt = ClientNumber(d, 1 + RequestLen)
    BY <1>4, <1>14, <2>1
  <2> QED
    BY <1>2, <1>3, <2>2, Apart
<1>20. hasData => Append(tcb.requests, m.body[1]) = <<d>> /\ <<d>> \in Seq(Nat)
  <2>1. SUFFICES ASSUME hasData PROVE Append(tcb.requests, m.body[1]) = <<d>> /\ <<d>> \in Seq(Nat)
    OBVIOUS
  <2>2. tcb.requests = <<>> /\ c = d /\ d \in Nat
    BY <1>1, <1>12, <1>18, <2>1, Sizes DEF Connections
  <2> QED
    BY <1>3, <2>2
<1>21. una > 0 <=> una # 0
  BY <1>9
<1>22. hasData \/ hasFin => una > 0
  OBVIOUS
<1>23. tcb.st # "SYN_RCVD" => una > 0
  <2>1. tcb.una = 0 <=> tcb.st = "SYN_RCVD"
    BY <1>2
  <2> QED
    BY ONLY <1>9, <2>1
<1>24. now.st \in {"SYN_RCVD", "OPEN", "DONE"} /\ (una = 0 <=> now.st = "SYN_RCVD")
  BY <1>2, <1>15, <1>21, <1>22, <1>23
<1>25. now.rcvNxt \in Seq32 /\ now.requests \in Seq(Nat)
  BY <1>2, <1>12, <1>13, <1>14, <1>15, <1>17, <1>20
<1>26. now \in [st : {"SYN_RCVD", "OPEN", "DONE"}, peer : 1 .. conns, iss : Seq32,
               rcvNxt : Seq32, una : Nat, nxt : 1 .. ResponseLen + 2, requests : Seq(Nat)]
  BY <1>2, <1>9, <1>15, <1>24, <1>25
<1>27. \/ now.st # "DONE" /\ now.requests = <<>> /\ now.rcvNxt = ClientNumber(now.peer, 1)
       \/ /\ now.st = "OPEN" /\ now.requests = <<now.peer>>
          /\ now.rcvNxt = ClientNumber(now.peer, 1 + RequestLen)
       \/ /\ now.st = "DONE" /\ now.requests = <<now.peer>>
          /\ now.rcvNxt = ClientNumber(now.peer, 2 + RequestLen)
  <2>1. CASE hasFin
    BY <1>3, <1>14, <1>15, <1>19, <2>1
  <2>2. CASE hasData /\ ~hasFin
    BY <1>2, <1>3, <1>12, <1>15, <1>18, <1>20, <1>22, <2>2
  <2>3. CASE ~hasData /\ ~hasFin
    BY <1>2, <1>13, <1>15, <2>3
  <2> QED
    BY <2>1, <2>2, <2>3
<1>28. TcbRight(now)
  <2>1. now.iss = ServerIsn[now.peer] /\ (now.una = 0 <=> now.st = "SYN_RCVD")
    BY <1>2, <1>15, <1>24
  <2> HIDE DEF Looked, TcbRight
  <2> QED
    BY ONLY <1>26, <1>27, <2>1 DEF TcbRight
<1>29. now.rcvNxt = tcb.rcvNxt
         \/ (tcb.rcvNxt = ClientNumber(tcb.peer, 1) /\ ~hasFin)
         \/ (hasFin /\ m.body[1] = tcb.peer)
  BY <1>3, <1>4, <1>12, <1>13, <1>14, <1>15
<1>30. tcb.requests # <<>> => now.requests # <<>>
  BY <1>15, <1>20
<1>31. tcb.st = "SYN_RCVD" /\ now.st # "SYN_RCVD" => m.body[1] = tcb.peer
  BY <1>3, <1>10, <1>21, <1>24
<1>32. now.st = "DONE" => tcb.st = "DONE" \/ hasFin
  BY <1>15
<1>33. hasData => m.pkt.len # 0 /\ m.body[1] = tcb.peer
  BY <1>1, <1>3, <1>11, <1>12
<1>34. hasFin => "FIN" \in m.pkt.flags /\ m.body[1] = tcb.peer
  BY <1>3, <1>14
<1> QED
  BY <1>15, <1>24, <1>28, <1>29, <1>30, <1>31, <1>32, <1>33, <1>34

\* The acknowledgement, the data and the FIN of a segment
LEMMA ReceiveRight ==
    ASSUME Ordinary, SessionInv, Still, NEW m \in net, m.pkt.dst = RemoteAddress,
           NEW port, port = m.pkt.sport, Receive(m, port)
    PROVE  SessionInv'
<1>1. ResponseLen \in Nat /\ ~EarlyBareAck
  BY Sizes DEF Ordinary
<1>2. /\ port \in Port /\ FromClient(m) /\ m.pkt.flags # {"SYN"} /\ srv[port].st # "NONE"
      /\ RequestLen >= 1 /\ RequestLen \in Nat
  BY AtTheServer, Sizes DEF Receive
<1>3. PICK tcb : tcb = srv[port]
  OBVIOUS
<1>4. TcbRight(tcb) /\ (Active /\ tcb.peer = conns => TcbOfConnection(port))
  BY <1>2, <1>3 DEF SessionInv, ServerRight
<1> DEFINE acked0 == (m.pkt.ack - srv[port].iss) % SeqMod
           una0 == IF acked0 > srv[port].una /\ acked0 <= srv[port].nxt THEN acked0
                   ELSE srv[port].una
           new0 == (m.pkt.seq + m.pkt.len - srv[port].rcvNxt) % SeqMod
           hasData0 == una0 > 0 /\ new0 \in 1 .. m.pkt.len
           next0 == IF hasData0 THEN Plus(srv[port].rcvNxt, new0) ELSE srv[port].rcvNxt
           hasFin0 == /\ una0 > 0 /\ "FIN" \in m.pkt.flags
                      /\ Plus(m.pkt.seq, m.pkt.len) = next0
           now0 == [srv[port] EXCEPT
                     !.una = una0,
                     !.st = IF hasFin0 THEN "DONE"
                            ELSE IF srv[port].st = "SYN_RCVD" /\ una0 > 0 THEN "OPEN"
                            ELSE srv[port].st,
                     !.rcvNxt = IF hasFin0 THEN Plus(next0, 1) ELSE next0,
                     !.requests = IF hasData0 THEN Append(@, m.body[1]) ELSE @]
           answered0 == (m.pkt.len > 0 \/ "FIN" \in m.pkt.flags) /\ (una0 > 0 \/ EarlyBareAck)
<1>5. /\ srv' = [srv EXCEPT ![port] = now0]
      /\ \E rest \in Taken(m) :
           net' = Carry(rest, IF answered0 THEN {BareAck(port, now0)} ELSE {})
  BY DEF Receive
<1>6. PICK una, next, now : una = una0 /\ next = next0 /\ now = now0
  OBVIOUS
<1>7. PICK hasData \in BOOLEAN : hasData <=> hasData0
  OBVIOUS
<1>8. PICK hasFin \in BOOLEAN : hasFin <=> hasFin0
  OBVIOUS
<1>9. Looked(m, tcb, una, hasData, next, hasFin, now)
  BY <1>3, <1>6, <1>7, <1>8 DEF Looked
<1>10. una > 0 \/ EarlyBareAck <=> una > 0
  BY <1>1
<1>11. answered0 <=> (m.pkt.len > 0 \/ "FIN" \in m.pkt.flags) /\ una > 0
  BY <1>6, <1>10
<1> HIDE DEF acked0, una0, new0, hasData0, next0, hasFin0, now0, answered0
<1>12. srv' = [srv EXCEPT ![port] = now]
  BY <1>5, <1>6
<1>13. \E rest \in Taken(m) :
             net' = Carry(rest, IF (m.pkt.len > 0 \/ "FIN" \in m.pkt.flags) /\ una > 0
                                  THEN {BareAck(port, now)} ELSE {})
  BY <1>5, <1>6, <1>11
<1>14. /\ TcbRight(now) /\ now.peer = tcb.peer /\ now.nxt = tcb.nxt
       /\ now.rcvNxt = tcb.rcvNxt
            \/ (tcb.rcvNxt = ClientNumber(tcb.peer, 1) /\ ~hasFin)
            \/ (hasFin /\ m.body[1] = tcb.peer)
       /\ hasFin => "FIN" \in m.pkt.flags /\ m.body[1] = tcb.peer
       /\ hasData => m.pkt.len # 0 /\ m.body[1] = tcb.peer
       /\ now.requests = IF hasData THEN Append(tcb.requests, m.body[1]) ELSE tcb.requests
       /\ tcb.requests # <<>> => now.requests # <<>>
       /\ now.st = "DONE" => tcb.st = "DONE" \/ hasFin
       /\ tcb.st = "SYN_RCVD" /\ now.st # "SYN_RCVD" => m.body[1] = tcb.peer
       /\ now.st = "SYN_RCVD" <=> una = 0
  BY <1>2, <1>4, <1>9, Received
<1>15. Active /\ m.body[1] = conns =>
         /\ "FIN" \notin m.pkt.flags /\ state # "WAIT_SYN_ACK"
         /\ Unsent => m.pkt.len = 0
  BY <1>2 DEF FromClient
<1>16. now.st # "NONE"
  BY <1>14 DEF TcbRight
<1>17. Active /\ now.peer = conns =>
              /\ port = localPort /\ now.st # "DONE"
              /\ state = "WAIT_SYN_ACK" => now.st = "SYN_RCVD"
              /\ Unsent => now.requests = <<>>
              /\ Acknowledged => now.requests # <<>>
  BY <1>3, <1>4, <1>14, <1>15 DEF TcbOfConnection
<1>18. Active /\ connected /\ port = localPort => now.peer = conns
  BY <1>3, <1>14 DEF SessionInv, ServerRight
<1>19. ServerRight'
  BY <1>2, <1>12, <1>14, <1>16, <1>17, <1>18, TcbChanges
<1>20. TcbKept
  <2>1. srv'[port] = now /\ \A q \in Port : q # port => srv'[q] = srv[q]
    BY <1>2, <1>12 DEF SessionInv, ServerRight
  <2>2. CASE port # localPort
    BY <2>1, <2>2 DEF TcbKept, SessionInv
  <2>3. CASE port = localPort
    <3>1. Active /\ tcb.peer = conns => tcb.rcvNxt \in {ClientNumber(conns, 1), now.rcvNxt}
      BY <1>14, <1>15
    <3> QED
      BY <1>3, <1>14, <1>16, <2>1, <2>3, <3>1 DEF TcbKept
  <2> QED
    BY <2>2, <2>3
<1>21. srv'[port] = now
  BY <1>2, <1>12 DEF SessionInv, ServerRight
<1>22. ASSUME NEW s \in net', s \notin net
       PROVE  FromServer(s)'
  <2>1. s = BareAck(port, now) /\ una > 0
    BY <1>13, <1>22, CarryBounds, TakenBounds
  <2>2. now.st # "SYN_RCVD"
    <3>1. ~(0 > 0)
      OBVIOUS
    <3> QED
      BY <1>14, <2>1, <3>1
  <2>3. now.nxt \in 1 .. ResponseLen + 2
    BY <1>14 DEF TcbRight
  <2>4. PICK o \in 0 .. ResponseLen + 2 : o = now.nxt
    BY <1>1, <2>3
  <2>5. s = ToClient(port, now, {"ACK"}, o, 0)
    BY <2>1, <2>4 DEF BareAck
  <2> QED
    BY <1>2, <1>16, <1>19, <1>21, <2>2, <2>5, ToClientRight
<1> QED
  BY <1>19, <1>20, <1>22, ServerStep

\* The server sends a segment of its stream, for the first time or again
LEMMA ServerSendsRight ==
    ASSUME Ordinary, SessionInv, ServerSends
    PROVE  SessionInv'
<1>1. ResponseLen \in Nat /\ Window \in Nat /\ Still
  BY Sizes, SessionAssumption DEF ServerSends, Still
<1>2. PICK port \in Port :
       \E offset \in Sendable(srv[port]), withFin \in BOOLEAN :
           LET tcb == srv[port]
               len == IF offset \in 1 .. ResponseLen THEN 1 ELSE 0
               fin == offset = FinOffset \/ withFin
               last == IF withFin THEN FinOffset ELSE offset
               now == [tcb EXCEPT !.nxt = IF last + 1 > @ THEN last + 1 ELSE @]
               flags == IF offset = 0 THEN {"SYN", "ACK"}
                        ELSE IF fin THEN {"FIN", "ACK"} ELSE {"ACK"}
           IN  /\ withFin => offset = ResponseLen /\ offset > 0
               /\ srv' = [srv EXCEPT ![port] = now]
               /\ net' = Carry(net, {ToClient(port, tcb, flags, offset, len)})
               /\ UNCHANGED <<vars, conns, delivered>>
  BY DEF ServerSends
<1>3. PICK offset \in Sendable(srv[port]), withFin \in BOOLEAN :
           LET tcb == srv[port]
               len == IF offset \in 1 .. ResponseLen THEN 1 ELSE 0
               fin == offset = FinOffset \/ withFin
               last == IF withFin THEN FinOffset ELSE offset
               now == [tcb EXCEPT !.nxt = IF last + 1 > @ THEN last + 1 ELSE @]
               flags == IF offset = 0 THEN {"SYN", "ACK"}
                        ELSE IF fin THEN {"FIN", "ACK"} ELSE {"ACK"}
           IN  /\ withFin => offset = ResponseLen /\ offset > 0
               /\ srv' = [srv EXCEPT ![port] = now]
               /\ net' = Carry(net, {ToClient(port, tcb, flags, offset, len)})
               /\ UNCHANGED <<vars, conns, delivered>>
  BY <1>2
<1>4. PICK tcb : tcb = srv[port]
  OBVIOUS
<1>5. PICK len : len = IF offset \in 1 .. ResponseLen THEN 1 ELSE 0
  OBVIOUS
<1>6. PICK fin \in BOOLEAN : fin <=> offset = FinOffset \/ withFin
  OBVIOUS
<1>7. PICK last : last = IF withFin THEN FinOffset ELSE offset
  OBVIOUS
<1>8. PICK now : now = [tcb EXCEPT !.nxt = IF last + 1 > @ THEN last + 1 ELSE @]
  OBVIOUS
<1>9. PICK flags : flags = IF offset = 0 THEN {"SYN", "ACK"}
                           ELSE IF fin THEN {"FIN", "ACK"} ELSE {"ACK"}
  OBVIOUS
<1>10. /\ offset \in Sendable(srv[port]) /\ tcb = srv[port]
       /\ len = IF offset \in 1 .. ResponseLen THEN 1 ELSE 0
       /\ fin <=> offset = FinOffset \/ withFin
       /\ last = IF withFin THEN FinOffset ELSE offset
       /\ now = [tcb EXCEPT !.nxt = IF last + 1 > @ THEN last + 1 ELSE @]
       /\ flags = IF offset = 0 THEN {"SYN", "ACK"}
                          ELSE IF fin THEN {"FIN", "ACK"} ELSE {"ACK"}
       /\ withFin => offset = ResponseLen /\ offset > 0
       /\ srv' = [srv EXCEPT ![port] = now]
       /\ net' = Carry(net, {ToClient(port, tcb, flags, offset, len)})
  BY <1>3, <1>4, <1>5, <1>6, <1>7, <1>8, <1>9
<1>11. tcb.st \in {"SYN_RCVD", "OPEN"}
  BY <1>10 DEF Sendable
<1>12. TcbRight(tcb) /\ srv[port].st # "NONE"
  BY <1>10, <1>11 DEF SessionInv, ServerRight
<1>13. /\ tcb \in [st : {"SYN_RCVD", "OPEN", "DONE"}, peer : 1 .. conns, iss : Seq32,
                rcvNxt : Seq32, una : Nat, nxt : 1 .. ResponseLen + 2, requests : Seq(Nat)]
       /\ tcb.una = 0 <=> tcb.st = "SYN_RCVD"
  BY <1>12 DEF TcbRight
<1>14. offset \in 0 .. ResponseLen + 1 /\ (tcb.st = "SYN_RCVD" <=> offset = 0)
  <2>1. CASE tcb.st = "SYN_RCVD"
    BY <1>1, <1>10, <2>1 DEF Sendable
  <2>2. CASE tcb.st # "SYN_RCVD"
    <3>1. offset \in {o \in tcb.una .. tcb.una + Window - 1 : o <= tcb.nxt /\ o <= FinOffset}
      BY <1>10, <2>2 DEF Sendable
    <3>2. PICK u \in Nat : u = tcb.una /\ u > 0
      BY <1>13, <2>2
    <3>3. offset \in Int /\ offset >= u /\ offset <= ResponseLen + 1
      BY <1>1, <3>1, <3>2 DEF FinOffset
    <3> QED
      BY <1>1, <2>2, <3>2, <3>3
  <2> QED
    BY <2>1, <2>2
<1>15. last \in 0 .. ResponseLen + 1
  BY <1>1, <1>10, <1>14 DEF FinOffset
<1>16. PICK n \in 1 .. ResponseLen + 2 : n = IF last + 1 > tcb.nxt THEN last + 1 ELSE tcb.nxt
  BY <1>1, <1>13, <1>15
<1>17. now = [tcb EXCEPT !.nxt = n]
  BY <1>10, <1>16
<1>18. /\ now.st = tcb.st /\ now.peer = tcb.peer /\ now.iss = tcb.iss /\ now.rcvNxt = tcb.rcvNxt
       /\ now.una = tcb.una /\ now.requests = tcb.requests /\ now.nxt = n
       /\ now \in [st : {"SYN_RCVD", "OPEN", "DONE"}, peer : 1 .. conns, iss : Seq32,
                rcvNxt : Seq32, una : Nat, nxt : 1 .. ResponseLen + 2, requests : Seq(Nat)]
  BY <1>13, <1>17
<1>19. TcbRight(now)
  BY <1>12, <1>18 DEF TcbRight
<1>20. Active /\ now.st # "NONE" /\ now.peer = conns =>
             /\ port = localPort /\ now.st # "DONE"
             /\ state = "WAIT_SYN_ACK" => now.st = "SYN_RCVD"
             /\ Unsent => now.requests = <<>>
             /\ Acknowledged => now.requests # <<>>
  <2>1. Active /\ tcb.peer = conns => TcbOfConnection(port)
    BY <1>10, <1>12 DEF SessionInv, ServerRight
  <2> QED
    BY <1>10, <1>18, <2>1 DEF TcbOfConnection
<1>21. Active /\ connected /\ port = localPort => now.st # "NONE" /\ now.peer = conns
  BY <1>10, <1>12, <1>18 DEF SessionInv, ServerRight
<1>22. ServerRight'
  BY <1>1, <1>10, <1>19, <1>20, <1>21, TcbChanges
<1>23. srv'[port] = now /\ \A q \in Port : q # port => srv'[q] = srv[q]
  BY <1>10 DEF SessionInv, ServerRight
<1>24. TcbKept
  BY <1>10, <1>12, <1>18, <1>23 DEF TcbKept, SessionInv
<1>25. ASSUME NEW s \in net', s \notin net
       PROVE  FromServer(s)'
  <2>1. s = ToClient(port, tcb, flags, offset, len)
    BY <1>10, <1>25, CarryBounds
  <2>2. PICK o \in 0 .. ResponseLen + 2 : o = offset
    BY <1>1, <1>14
  <2>3. "ACK" \in flags /\ "RST" \notin flags /\ ("FIN" \in flags => fin /\ o # 0)
    BY <1>10, <2>2
  <2>4. len = 0 \/ (len = 1 /\ o \in 1 .. ResponseLen)
    BY <1>10, <2>2
  <2>5. "FIN" \in flags => o + len = 1 + ResponseLen
    <3>1. SUFFICES ASSUME "FIN" \in flags PROVE o + len = 1 + ResponseLen
      OBVIOUS
    <3>2. o = ResponseLen + 1 \/ (o = ResponseLen /\ o > 0)
      BY <1>10, <2>2, <2>3, <3>1 DEF FinOffset
    <3>3. len = IF o \in 1 .. ResponseLen THEN 1 ELSE 0
      BY <1>10, <2>2
    <3> QED
      BY <1>1, <3>2, <3>3
  <2>6. s = ToClient(port, tcb, flags, o, len) /\ (now.st = "SYN_RCVD" => o = 0)
    BY <1>14, <1>18, <2>1, <2>2
  <2>7. srv'[port].st # "NONE"
    BY <1>10, <1>12, <1>18, <1>23
  <2> QED
    BY <1>18, <1>22, <1>23, <2>3, <2>4, <2>5, <2>6, <2>7, ToClientRight
<1> QED
  BY <1>1, <1>22, <1>24, <1>25, ServerStep

\* The end of TIME_WAIT
LEMMA ForgetsRight ==
    ASSUME SessionInv, ServerForgets
    PROVE  SessionInv'
<1>1. PICK port \in Port : srv[port].st = "DONE" /\ srv' = [srv EXCEPT ![port] = NoTcb]
  BY DEF ServerForgets
<1>2. Still /\ net' \subseteq net
  BY DEF ServerForgets, Still
<1>3. ~(Active /\ srv[port].st # "NONE" /\ srv[port].peer = conns)
  BY <1>1 DEF SessionInv, ServerRight, TcbOfConnection
<1> QED
  BY <1>1, <1>2, <1>3, GivenUp

\* A segment is lost
LEMMA LoseRight ==
    ASSUME SessionInv, Lose
    PROVE  SessionInv'
<1>1. Still /\ srv' = srv /\ net' \subseteq net
  BY DEF Lose, Still
<1> QED
  BY <1>1, TcbsStay, ServerStep

\* Nothing happens
LEMMA StutterRight ==
    ASSUME SessionInv, UNCHANGED allVars
    PROVE  SessionInv'
<1>1. Still /\ srv' = srv /\ net' \subseteq net
  BY DEF allVars, sessionVars, Still
<1> QED
  BY <1>1, TcbsStay, ServerStep

-----------------------------------------------------------------------------
(* The invariant holds *)

\* The beginning
LEMMA SessionInitRight == Ordinary /\ SessionInit => SessionInv
<1> SUFFICES ASSUME Ordinary, SessionInit PROVE SessionInv
  OBVIOUS
<1>1. ResponseLen \in Nat /\ MaxConnections \in Nat
  BY Sizes
<1>2. /\ state = "DISCONNECTED" /\ appliFlags = {} /\ localPort \in Port /\ conns = 0
      /\ delivered = <<>> /\ net = {} /\ srv = [port \in Port |-> NoTcb] /\ pc = "poll"
  BY ValuesAssumption DEF SessionInit, Init, Start
<1>3. ~Active /\ ~connected /\ ~synacked /\ ~rexmit
  BY <1>2 DEF Active, connected, synacked, rexmit
<1>4. delivered = [i \in 1 .. 0 |-> <<conns, i>>] /\ 0 \in 0 .. ResponseLen
  BY <1>1, <1>2
<1>5. ClientRight
  BY <1>1, <1>2, <1>3, <1>4 DEF ClientRight
<1>6. NetRight
  BY <1>2 DEF NetRight
<1>7. ServerRight
  BY <1>2, <1>3 DEF ServerRight, NoTcb
<1> QED
  BY <1>2, <1>5, <1>6, <1>7 DEF SessionInv

\* Every step preserves the invariant
LEMMA SessionNextRight == Ordinary /\ SessionInv /\ [SessionNext]_allVars => SessionInv'
<1> SUFFICES ASSUME Ordinary, SessionInv, [SessionNext]_allVars PROVE SessionInv'
  OBVIOUS
<1>1. CASE ServerReceives
  <2>1. PICK m \in net :
          /\ m.pkt.dst = RemoteAddress
          /\ \/ Accept(m, m.pkt.sport)
             \/ AnswerSynAgain(m, m.pkt.sport)
             \/ ReceiveRst(m, m.pkt.sport)
             \/ Refuse(m, m.pkt.sport)
             \/ Receive(m, m.pkt.sport)
    BY <1>1 DEF ServerReceives
  <2>2. Still
    BY <1>1 DEF ServerReceives, Still
  <2>3. PICK port : port = m.pkt.sport
    OBVIOUS
  <2> QED
    BY <2>1, <2>2, <2>3, AcceptRight, AnswerRight, ReceiveRstRight, RefuseRight, ReceiveRight
<1> QED
  BY <1>1, ReceivesRight, ReceivesNothingRight, ConnectsRight, QuietRight, SendsRight,
     ServerSendsRight, ForgetsRight, LoseRight, StutterRight DEF SessionNext

\* The invariant holds, as long as the numbers are ordinary
LEMMA SessionInvariant == Ordinary /\ SessionSpec => []SessionInv
<1>1. Ordinary /\ SessionInit => SessionInv
  BY SessionInitRight
<1>2. Ordinary /\ SessionInv /\ [SessionNext]_allVars => SessionInv'
  BY SessionNextRight
<1>3. Ordinary => []Ordinary
  <2>1. Ordinary => Ordinary'
    BY OrdinaryNext
  <2> QED
    BY <2>1, PTL
<1> QED
  BY <1>1, <1>2, <1>3, PTL DEF SessionSpec

-----------------------------------------------------------------------------
(* Theorems *)

\* What the sketch reads on a connection is the response of that connection, each byte once and in
\* order: havePacket() compares sequence numbers for equality, and the equality is enough although
\* they wrap (TCPClient.cpp:188-195,269-273).
THEOREM ResponseRead == Ordinary /\ SessionSpec => []ReadsResponseInOrder
<1>1. SessionInv => ReadsResponseInOrder
  <2> SUFFICES ASSUME SessionInv PROVE ReadsResponseInOrder
    OBVIOUS
  <2>1. ClientRight
    BY DEF SessionInv
  <2>2. PICK n \in 0 .. ResponseLen : delivered = [i \in 1 .. n |-> <<conns, i>>]
    BY <2>1 DEF ClientRight
  <2>3. Len(delivered) = n
    BY <2>2, SessionAssumption, Reading
  <2> QED
    BY <2>2, <2>3 DEF ReadsResponseInOrder
<1> QED
  BY <1>1, SessionInvariant, PTL

\* closing() after a FIN means that the whole response has been read: havePacket() takes the FIN
\* only at the byte after the last one read (TCPClient.cpp:188-195,255-262).
THEOREM ResponseComplete == Ordinary /\ SessionSpec => []CloseMeansComplete
<1>1. SessionInv => CloseMeansComplete
  BY DEF SessionInv, ClientRight, CloseMeansComplete
<1> QED
  BY <1>1, SessionInvariant, PTL

\* However often check_for_retransmit makes the sketch send its request again, the server receives
\* it once, on the connection it was made for (TCPClient.cpp:330-335,388-403).
THEOREM RequestReadOnce == Ordinary /\ SessionSpec => []RequestOnce
<1>1. SessionInv => RequestOnce
  BY DEF SessionInv, ServerRight, TcbRight, RequestOnce
<1> QED
  BY <1>1, SessionInvariant, PTL

\* While connected, _localSeqNum, _unAckLen and _remoteSeqNum describe the streams the server has:
\* it knows this connection and has received all of the request or nothing, and the client expects
\* the byte after the last one read (TCPClient.cpp:200-227,232-240,269-273).
THEOREM NumbersAgree == Ordinary /\ SessionSpec => []SequenceAgreement
<1>1. Ordinary /\ SessionInv => SequenceAgreement
  <2> SUFFICES ASSUME Ordinary, SessionInv, connected, ~timedOut
               PROVE  /\ srv[localPort].st \in {"SYN_RCVD", "OPEN"} /\ srv[localPort].peer = conns
                      /\ srv[localPort].rcvNxt \in {localSeqNum, Plus(localSeqNum, unAckLen)}
                      /\ remoteSeqNum = Plus(srv[localPort].iss, 1 + Len(delivered))
    BY DEF SequenceAgreement
  <2>1. PICK tcb : tcb = srv[localPort]
    OBVIOUS
  <2>2. Active /\ state = "CONNECTED"
    BY DEF Active, connected
  <2>3. tcb.st # "NONE" /\ tcb.peer = conns /\ TcbOfConnection(localPort) /\ TcbRight(tcb)
    BY <2>1, <2>2 DEF SessionInv, ServerRight
  <2>4. tcb.st \in {"SYN_RCVD", "OPEN"}
    BY <2>1, <2>3 DEF TcbRight, TcbOfConnection
  <2>5. PICK c \in Connections : c = conns
    BY <2>2, Place DEF Placed, SessionInv
  <2>6. Unsent \/ Outstanding \/ Acknowledged
    BY <2>2 DEF SessionInv, ClientRight
  <2>7. tcb.rcvNxt \in {localSeqNum, Plus(localSeqNum, unAckLen)}
    <3>1. \/ tcb.requests = <<>> /\ tcb.rcvNxt = ClientNumber(c, 1)
          \/ tcb.requests = <<tcb.peer>> /\ tcb.rcvNxt = ClientNumber(c, 1 + RequestLen)
      BY <2>3, <2>4, <2>5 DEF TcbRight
    <3>2. CASE Unsent
      <4>1. tcb.requests = <<>>
        BY <2>1, <2>3, <3>2 DEF TcbOfConnection
      <4> QED
        BY <2>5, <3>1, <3>2, <4>1 DEF Unsent
    <3>3. CASE Outstanding
      <4>1. Plus(localSeqNum, unAckLen) = ClientNumber(c, 1 + RequestLen)
        BY <2>5, <3>3, Steps DEF Outstanding
      <4> QED
        BY <2>5, <3>1, <3>3, <4>1 DEF Outstanding
    <3>4. CASE Acknowledged
      <4>1. tcb.requests # <<>>
        BY <2>1, <2>3, <3>4 DEF TcbOfConnection
      <4> QED
        BY <2>5, <3>1, <3>4, <4>1 DEF Acknowledged
    <3> QED
      BY <2>6, <3>2, <3>3, <3>4
  <2>8. remoteSeqNum = Plus(tcb.iss, 1 + Len(delivered))
    BY <2>2, <2>3 DEF SessionInv, ClientRight, ServerNumber, TcbRight
  <2> QED
    BY <2>1, <2>3, <2>4, <2>7, <2>8
<1>2. Ordinary /\ SessionSpec => []SessionInv
  BY SessionInvariant
<1>3. Ordinary => []Ordinary
  <2>1. Ordinary => Ordinary'
    BY OrdinaryNext
  <2> QED
    BY <2>1, PTL
<1> QED
  BY <1>1, <1>2, <1>3, PTL
=============================================================================
