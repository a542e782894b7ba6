------------------------- MODULE TFTPSessionProofs -------------------------
(***************************************************************************)
(* Theorems about TFTPSession: for files of any length that have no block  *)
(* number twice, any number of transfers, repetitions and packets in       *)
(* flight, the server and a client carry out FileTransfer, in step.        *)
(***************************************************************************)
EXTENDS TFTPSession, TLAPS, SequenceTheorems

\* The block numbers of each file are different numbers of 16 bits
Short == \A t \in Client : Len(Target[t]) < BlockMod

-----------------------------------------------------------------------------
(* The inductive invariant *)

StateTypes ==
    /\ mode \in {"listen", "writing", "reading"} /\ tid \in Nat /\ peer \in Client
    /\ block \in BlockNo
    /\ written \in [Client -> Seq(Block)] /\ received \in [Client -> Seq(Block)]
    /\ finished \subseteq Client /\ completed \subseteq Client /\ started \subseteq Client
    /\ current \in started \cup {NoTransfer} /\ active \in BOOLEAN
    /\ lock \in 0 .. tid /\ number \in Nat

\* A copy is a beginning of its file, and known to be whole when it is
BeginningOf(copy, file) ==
    /\ Len(copy) <= Len(file)
    /\ \A i \in 1 .. Len(copy) : copy[i] = file[i]

CopiesRight ==
    /\ \A t \in Writes : /\ BeginningOf(written[t], Offered[t])
                         /\ Len(written[t]) = Len(Offered[t]) => t \in finished
    /\ \A t \in Client \ Writes : /\ BeginningOf(received[t], Contents)
                                  /\ Len(received[t]) = Len(Contents) => t \in completed
    /\ \A t \in Client \ started : written[t] = <<>> /\ received[t] = <<>>

IsBlock(p, file) ==
    p.block \in 1 .. Len(file) /\ p.body = file[p.block] /\ p.full = (p.block # Len(file))

\* Data of a writing client is for the port it is locked to, so for one session of the server;
\* what it has acknowledged it has
FromClient(p) ==
    /\ p.op = "WRITE" => p.peer \in Writes
    /\ p.op = "READ" => p.peer \notin Writes
    /\ p.op = "DATA" => /\ p.peer \in Writes /\ p.port # ListenPort
                        /\ IsBlock(p, Offered[p.peer])
                        /\ p.peer = current => p.port = lock /\ p.block <= number
    /\ p.op = "ACK" => p.peer \notin Writes /\ p.block <= Len(received[p.peer])

\* ... and so is what the server sends
FromServer(p) ==
    /\ p.op \in {"ACK", "DATA"} => p.port # ListenPort
    /\ p.port = tid /\ tid # 0 => p.peer = peer
    /\ p.op = "ACK" => p.peer \in Writes /\ p.block <= Len(written[p.peer])
    /\ p.op = "DATA" => /\ p.peer \notin Writes /\ IsBlock(p, Contents)
                        /\ p.port = tid /\ mode = "reading" => p.block <= block

PacketOK(p) ==
    /\ p.peer \in started /\ p.port \in 0 .. tid /\ p.block \in Nat
    /\ p.to = "server" => FromClient(p)
    /\ p.to = "client" => FromServer(p)

NetOK == \A p \in net : PacketOK(p)

\* The client is one block ahead of the server when it writes, and knows what it has when it reads
ClientOK ==
    /\ active => current \in started
    /\ current \in Writes =>
         /\ number \in Len(written[current]) .. Len(written[current]) + 1
         /\ number <= Len(Offered[current])
         /\ lock = ListenPort <=> number = 0
    /\ current \in Client \ Writes =>
         /\ number = Len(received[current])
         /\ lock = ListenPort <=> number = 0

\* No block will come to this session any more: its client talks to another one
Abandoned ==
    /\ current = peer => lock \notin {ListenPort, tid}
    /\ \A p \in net : ~(p.to = "server" /\ p.op = "DATA" /\ p.port = tid /\ p.peer = peer)

ServerOK ==
    /\ mode # "listen" => peer \in started /\ tid # 0
    /\ mode = "writing" =>
         peer \in Writes /\ (block = Len(written[peer]) + 1 \/ Abandoned)
    /\ mode = "reading" =>
         /\ peer \notin Writes /\ block \in 1 .. Len(Contents)
         /\ block <= Len(received[peer]) + 1
         /\ current = peer /\ lock = tid => number <= block

IInv == StateTypes /\ CopiesRight /\ NetOK /\ ClientOK /\ ServerOK

-----------------------------------------------------------------------------
(* Lengths and numbers *)

LEMMA FileFacts ==
    /\ Contents \in Seq(Block) /\ Len(Contents) \in Nat /\ Len(Contents) >= 1
    /\ \A t \in Writes : t \in Client /\ Offered[t] \in Seq(Block)
                       /\ Len(Offered[t]) \in Nat /\ Len(Offered[t]) >= 1
    /\ NoTransfer \notin Client
<1>1. \A f \in Seq(Block) : Len(f) \in Nat /\ (f # <<>> => Len(f) >= 1)
  BY EmptySeq, LenProperties
<1>2. \A t \in Writes : Offered[t] \in Seq(Block) \ {<<>>}
  BY SessionAssumption
<1> QED
  BY <1>1, <1>2, TFTPAssumption, SessionAssumption

LEMMA ShortFacts ==
    ASSUME Short
    PROVE  /\ \A t \in Writes : Len(Offered[t]) < BlockMod
           /\ \A t \in Client \ Writes : Len(Contents) < BlockMod
BY SessionAssumption DEF Short, Target

\* As long as the file is short a number on the wire is the number
LEMMA WireFacts == \A n \in 0 .. BlockMod - 1 : Wire(n) = n
BY TFTPAssumption DEF Wire

LEMMA CopyFacts ==
    ASSUME StateTypes
    PROVE  \A t \in Client : Len(written[t]) \in Nat /\ Len(received[t]) \in Nat
BY LenProperties DEF StateTypes

-----------------------------------------------------------------------------
(* What the network holds *)

LEMMA CarryFacts ==
    \A inFlight, q : \A p \in Carry(inFlight, q) : p \in inFlight \/ (p = q /\ q # NoPacket)
BY DEF Carry

LEMMA TakenFacts == \A p : \A rest \in Taken(p) : rest \subseteq net
BY DEF Taken

\* A step that changes no session and no place of the client spoils no packet
LEMMA PacketKept ==
    ASSUME StateTypes, StateTypes', NEW p, PacketOK(p),
           UNCHANGED <<tid, peer, current, lock, number>>, started \subseteq started',
           \A t \in Client : Len(written[t]) <= Len(written'[t]),
           \A t \in Client : Len(received[t]) <= Len(received'[t]),
           mode' = "reading" => mode = "reading" /\ block <= block'
    PROVE  PacketOK(p)'
<1>1. p.peer \in Client /\ p.block \in Nat
  BY DEF PacketOK, StateTypes
<1>2. /\ Len(written[p.peer]) \in Nat /\ Len(written'[p.peer]) \in Nat
      /\ Len(received[p.peer]) \in Nat /\ Len(received'[p.peer]) \in Nat
  BY <1>1, LenProperties DEF StateTypes
<1>3. block \in Nat /\ block' \in Nat
  BY TFTPAssumption DEF StateTypes, BlockNo, UINT16_MAX
<1>4. p.to = "server" => FromClient(p)'
  BY <1>1, <1>2 DEF PacketOK, FromClient, IsBlock
<1>5. p.to = "client" => FromServer(p)'
  <2> SUFFICES ASSUME p.to = "client" PROVE FromServer(p)'
    OBVIOUS
  <2>1. FromServer(p)
    BY DEF PacketOK
  <2>2. p.op = "ACK" => p.block <= Len(written'[p.peer])
    BY <1>1, <1>2, <2>1 DEF FromServer
  <2>3. p.op = "DATA" /\ p.port = tid /\ mode' = "reading" => p.block <= block'
    BY <1>1, <1>3, <2>1 DEF FromServer
  <2> QED
    BY <2>1, <2>2, <2>3 DEF FromServer, IsBlock
<1> QED
  BY <1>4, <1>5 DEF PacketOK

\* The packets of the server
LEMMA BlockSent ==
    ASSUME NEW n, SendBlock(n), n \in 1 .. Len(Contents), peer' \in started' \ Writes,
           tid' \in Nat \ {0}, mode' = "reading" => n <= block', NEW p, p = sent'
    PROVE  PacketOK(p)'
<1>1. p = [to |-> "client", port |-> tid', peer |-> peer', op |-> "DATA", block |-> n,
           full |-> ~LastBlock(n), body |-> Contents[n]]
  BY DEF SendBlock, Message
<1> QED
  BY <1>1 DEF PacketOK, FromServer, IsBlock, LastBlock, ListenPort

LEMMA AckSent ==
    ASSUME NEW n \in Nat, sendAck(n), peer' \in started' \cap Writes, tid' \in Nat \ {0},
           n <= Len(written'[peer']), NEW p, p = sent'
    PROVE  PacketOK(p)'
<1>1. p = [to |-> "client", port |-> tid', peer |-> peer', op |-> "ACK", block |-> n,
           full |-> FALSE, body |-> NoPacket]
  BY DEF sendAck, Message
<1> QED
  BY <1>1 DEF PacketOK, FromServer, ListenPort

\* The network holds what it held, less than that, and what has been sent
LEMMA NetKept ==
    ASSUME NetOK, NEW q,
           \A p \in net' : p \in net \/ (p = q /\ q # NoPacket),
           \A p \in net : PacketOK(p) => PacketOK(p)',
           q # NoPacket => PacketOK(q)'
    PROVE  NetOK'
BY DEF NetOK

-----------------------------------------------------------------------------
(* Steps of the server *)

\* What each of the server's steps leaves alone
ServerStep(q) ==
    /\ UNCHANGED clientVars
    /\ \A p \in net' : p \in net \/ (p = q /\ q # NoPacket)

\* A step that writes nothing and stays in the session, or leaves it
LEMMA SessionKept ==
    ASSUME IInv, NEW q, ServerStep(q), UNCHANGED <<tid, peer, written>>,
           mode' \in {mode, "listen"}, block' \in BlockNo,
           mode' # "listen" => block' = block,
           finished' \subseteq Client, finished \subseteq finished',
           q # NoPacket => q.to = "client" /\ PacketOK(q)'
    PROVE  IInv'
<1>1. StateTypes'
  BY DEF IInv, StateTypes, ServerStep, clientVars
<1>2. CopiesRight'
  BY DEF IInv, CopiesRight, ServerStep, clientVars, StateTypes
<1>3. NetOK'
  <2>1. ASSUME NEW p, PacketOK(p) PROVE PacketOK(p)'
    <3>1. /\ UNCHANGED <<tid, peer, current, lock, number, started, written, received>>
          /\ mode' = "reading" => mode = "reading" /\ block <= block'
      BY TFTPAssumption DEF ServerStep, clientVars, IInv, StateTypes, BlockNo, UINT16_MAX
    <3>2. \A t \in Client : /\ Len(written[t]) <= Len(written'[t])
                           /\ Len(received[t]) <= Len(received'[t])
      BY <3>1, CopyFacts DEF IInv
    <3> QED
      BY <1>1, <2>1, <3>1, <3>2, PacketKept DEF IInv
  <2> QED
    BY <2>1, NetKept DEF IInv, ServerStep
<1>4. ClientOK'
  BY DEF IInv, ClientOK, ServerStep, clientVars
<1>5. ServerOK'
  <2>1. CASE mode' = "listen"
    BY <2>1 DEF ServerOK
  <2>2. CASE mode' # "listen"
    <3>1. mode' = mode /\ UNCHANGED <<tid, peer, block, written, received, started, current,
                                     lock, number>>
      BY <2>2 DEF ServerStep, clientVars
    <3>2. Abandoned => Abandoned'
      <4> SUFFICES ASSUME Abandoned, NEW p \in net', p.to = "server", p.op = "DATA",
                          p.port = tid, p.peer = peer
                   PROVE  FALSE
        BY <3>1 DEF Abandoned
      <4>1. p \notin net
        BY DEF Abandoned
      <4>2. p = q /\ q # NoPacket
        BY <4>1 DEF ServerStep
      <4> QED
        BY <4>2
    <3> QED
      BY <3>1, <3>2 DEF IInv, ServerOK
  <2> QED
    BY <2>1, <2>2
<1> QED
  BY <1>1, <1>2, <1>3, <1>4, <1>5 DEF IInv

\* The steps that send nothing, or refuse
LEMMA NothingKept ==
    ASSUME IInv, ServerStep(NoPacket),
           \/ \E p \in net : Ignored(p)
           \/ WriteTimeout
           \/ TimePasses
    PROVE  IInv'
<1>1. UNCHANGED <<tid, peer, written, finished>> /\ mode' \in {mode, "listen"}
  BY DEF Ignored, WriteTimeout, TimePasses, Return
<1>2. block' = block \/ (mode' = "listen" /\ block' = 0)
  BY DEF Ignored, WriteTimeout, TimePasses, Return
<1>3. block \in BlockNo /\ 0 \in BlockNo /\ finished \subseteq Client
  BY TFTPAssumption DEF IInv, StateTypes, BlockNo, UINT16_MAX
<1> QED
  BY <1>1, <1>2, <1>3, SessionKept

LEMMA ErrorKept ==
    ASSUME IInv, NEW q, ServerStep(q), q = sent', NEW p \in net, sendError(p)
    PROVE  IInv'
<1>1. q = [to |-> "client", port |-> ListenPort, peer |-> p.peer, op |-> "ERROR", block |-> 0,
           full |-> FALSE, body |-> NoPacket]
  BY DEF sendError, Message
<1>2. PacketOK(p) /\ tid \in Nat /\ UNCHANGED <<tid, started>>
  BY DEF IInv, NetOK, StateTypes, sendError, ServerStep, clientVars
<1>3. q.to = "client" /\ PacketOK(q)'
  BY <1>1, <1>2 DEF PacketOK, FromServer, ListenPort
<1> QED
  BY <1>3, SessionKept DEF sendError, IInv, StateTypes

\* waitForAck() fails: the block is sent again, or the transfer given up
LEMMA WaitFailedKept ==
    ASSUME IInv, NEW q, ServerStep(q), q = sent', mode = "reading", WaitFailed
    PROVE  IInv'
<1>1. CASE TooManyRetries
  <2>1. q = NoPacket /\ UNCHANGED <<tid, peer, written, finished>>
        /\ mode' = "listen" /\ block' = 0
    BY <1>1 DEF WaitFailed, Return
  <2>2. 0 \in BlockNo /\ finished \subseteq Client
    BY TFTPAssumption DEF IInv, StateTypes, BlockNo, UINT16_MAX
  <2> QED
    BY <2>1, <2>2, SessionKept
<1>2. CASE ~TooManyRetries
  <2>1. UNCHANGED <<mode, tid, peer, block, written, finished, started>> /\ SendBlock(block)
    BY <1>2 DEF WaitFailed, ServerStep, clientVars
  <2>2. /\ peer \in started \ Writes /\ block \in 1 .. Len(Contents) /\ tid \in Nat \ {0}
        /\ block <= block /\ block \in BlockNo /\ finished \subseteq Client
    BY FileFacts DEF IInv, ServerOK, StateTypes
  <2>3. PacketOK(q)'
    BY <2>1, <2>2, BlockSent
  <2>4. q.to = "client"
    BY <2>1 DEF SendBlock, Message
  <2> QED
    BY <2>1, <2>2, <2>3, <2>4, SessionKept
<1> QED
  BY <1>1, <1>2

\* The last block is acknowledged, or the limit of the block numbers is reached
LEMMA LastAckKept ==
    ASSUME IInv, ServerStep(NoPacket), NEW p \in net, ReadAcked(p),
           ~(~LastBlock(block) /\ block + 1 < UINT16_MAX)
    PROVE  IInv'
<1>1. /\ UNCHANGED <<tid, peer, written>> /\ mode' = "listen" /\ block' = 0
      /\ finished' \in {finished, finished \cup {peer}}
  BY DEF ReadAcked, Return
<1>2. 0 \in BlockNo /\ finished \subseteq Client /\ peer \in Client
  BY TFTPAssumption DEF IInv, StateTypes, BlockNo, UINT16_MAX
<1> QED
  BY <1>1, <1>2, SessionKept

\* The next block is sent.  The block acknowledged is one that the client has
LEMMA NextBlockKept ==
    ASSUME IInv, NEW q, ServerStep(q), q = sent', NEW p \in net, ReadAcked(p),
           ~LastBlock(block), block + 1 < UINT16_MAX
    PROVE  IInv'
<1>1. /\ UNCHANGED <<mode, tid, peer, written, finished, clientVars>> /\ block' = block + 1
      /\ mode = "reading" /\ SendBlock(block + 1)
  BY TFTPAssumption DEF ReadAcked, ServerStep, UINT16_MAX
<1>2. p.op = "ACK" /\ p.to = "server" /\ p.peer = peer /\ p.block = block
  BY DEF ReadAcked, IsAck, ForTransfer
<1>3. block <= Len(received[peer])
  BY <1>2 DEF IInv, NetOK, PacketOK, FromClient
<1>4. /\ block \in 1 .. Len(Contents) /\ peer \in Client \ Writes /\ peer \in started
      /\ tid \in Nat \ {0} /\ block \in BlockNo /\ Len(received[peer]) \in Nat
  BY <1>1, CopyFacts DEF IInv, ServerOK, StateTypes
<1>5. block + 1 \in 1 .. Len(Contents) /\ block + 1 \in BlockNo
  BY <1>4, FileFacts, TFTPAssumption DEF LastBlock, BlockNo, UINT16_MAX
<1>6. StateTypes'
  BY <1>1, <1>5 DEF IInv, StateTypes, clientVars
<1>7. CopiesRight'
  BY <1>1 DEF IInv, CopiesRight, clientVars
<1>8. NetOK'
  <2>1. ASSUME NEW r \in net, PacketOK(r) PROVE PacketOK(r)'
    <3>1. UNCHANGED <<tid, peer, current, lock, number, started, written, received>>
      BY <1>1 DEF clientVars
    <3>2. \A t \in Client : /\ Len(written[t]) <= Len(written'[t])
                           /\ Len(received[t]) <= Len(received'[t])
      BY <3>1, CopyFacts DEF IInv
    <3>3. block <= block'
      BY <1>1, <1>4
    <3> QED
      BY <1>1, <1>6, <2>1, <3>1, <3>2, <3>3, PacketKept DEF IInv
  <2>2. PacketOK(q)'
    BY <1>1, <1>4, <1>5, BlockSent DEF clientVars
  <2> QED
    BY <2>1, <2>2, NetKept DEF IInv, ServerStep
<1>9. ClientOK'
  BY <1>1 DEF IInv, ClientOK, clientVars
<1>10. ServerOK'
  BY <1>1, <1>3, <1>4, <1>5 DEF IInv, ServerOK, clientVars, StateTypes
<1> QED
  BY <1>6, <1>7, <1>8, <1>9, <1>10 DEF IInv

\* A block that is not the expected one is acknowledged if it has been written
LEMMA OtherBlockKept ==
    ASSUME IInv, NEW q, ServerStep(q), q = sent', NEW p \in net, WriteData(p),
           ~IsExpected(p.block)
    PROVE  IInv'
<1>1. /\ UNCHANGED <<mode, tid, peer, block, written, finished, started>>
      /\ IF p.block <= block THEN sendAck(p.block) ELSE q = NoPacket
  BY DEF WriteData, ServerStep, clientVars, Acknowledged
<1>2. p.op = "DATA" /\ p.to = "server" /\ p.peer = peer /\ p.port = tid /\ p.block # block
  BY DEF WriteData, ForTransfer, IsExpected
<1>3. /\ peer \in started \cap Writes /\ tid \in Nat \ {0} /\ p.block \in Nat
      /\ block = Len(written[peer]) + 1 /\ Len(written[peer]) \in Nat
  BY <1>2, CopyFacts DEF WriteData, IInv, ServerOK, StateTypes, NetOK, PacketOK, Abandoned
<1>4. CASE p.block <= block
  <2>1. p.block <= Len(written'[peer])
    BY <1>1, <1>2, <1>3, <1>4
  <2>2. PacketOK(q)'
    BY <1>1, <1>3, <1>4, <2>1, AckSent
  <2>3. q.to = "client"
    BY <1>1, <1>4 DEF sendAck, Message
  <2> QED
    BY <1>1, <2>2, <2>3, SessionKept DEF IInv, StateTypes
<1>5. CASE ~(p.block <= block)
  BY <1>1, <1>5, SessionKept DEF IInv, StateTypes
<1> QED
  BY <1>4, <1>5

\* The expected block is the next of the file, because a session that blocks come to has
\* written all that has been written of it
LEMMA ExpectedBlockKept ==
    ASSUME Short, IInv, NEW q, ServerStep(q), q = sent', NEW p \in net, WriteData(p),
           IsExpected(p.block)
    PROVE  IInv'
<1>1. /\ p.op = "DATA" /\ p.to = "server" /\ p.peer = peer /\ p.port = tid /\ p.block = block
      /\ mode = "writing"
  BY DEF WriteData, ForTransfer, IsExpected
<1>2. /\ peer \in started \cap Writes /\ peer \in Client /\ tid \in Nat \ {0}
      /\ block = Len(written[peer]) + 1 /\ Len(written[peer]) \in Nat
      /\ written[peer] \in Seq(Block)
  BY <1>1, CopyFacts DEF IInv, ServerOK, StateTypes, NetOK, PacketOK, Abandoned
<1>3. /\ IsBlock(p, Offered[peer])
      /\ peer = current => lock = tid /\ block <= number
  BY <1>1 DEF IInv, NetOK, PacketOK, FromClient
<1>4. /\ Offered[peer] \in Seq(Block) /\ Len(Offered[peer]) \in Nat
      /\ Len(Offered[peer]) < BlockMod
  BY <1>2, FileFacts, ShortFacts
<1>5. p.body = Offered[peer][block] /\ p.body \in Block /\ block \in 1 .. Len(Offered[peer])
  BY <1>1, <1>3, <1>4, ElementOfSeq DEF IsBlock
<1>6. /\ written' = [written EXCEPT ![peer] = Append(@, p.body)]
      /\ UNCHANGED <<tid, peer>> /\ UNCHANGED clientVars /\ sendAck(block)
  BY <1>1, <1>2 DEF WriteData, Acknowledged, Return, ServerStep
<1>7. /\ written'[peer] \in Seq(Block) /\ Len(written'[peer]) = block
      /\ \A i \in 1 .. Len(written[peer]) : written'[peer][i] = written[peer][i]
      /\ written'[peer][block] = Offered[peer][block]
      /\ \A t \in Client : t # peer => written'[t] = written[t]
      /\ written' \in [Client -> Seq(Block)]
  <2>1. written'[peer] = Append(written[peer], p.body)
    BY <1>2, <1>6 DEF IInv, StateTypes
  <2>2. \A t \in Client : t # peer => written'[t] = written[t]
    BY <1>6 DEF IInv, StateTypes
  <2>3. written' \in [Client -> Seq(Block)]
    BY <1>2, <1>5, <1>6, AppendProperties DEF IInv, StateTypes
  <2> QED
    BY <1>2, <1>5, <2>1, <2>2, <2>3, AppendProperties
\* Either the session goes on with the next number, which does not wrap, or it ends
<1>8. \/ p.full /\ mode' = mode /\ block' = block + 1 /\ finished' = finished
      \/ ~p.full /\ mode' = "listen" /\ block' = 0 /\ finished' = finished \cup {peer}
  <2>1. p.full => block # Len(Offered[peer])
    BY <1>1, <1>3 DEF IsBlock
  <2>2. p.full => block + 1 \in 0 .. BlockMod - 1
    BY <1>2, <1>4, <1>5, <2>1, TFTPAssumption
  <2>3. p.full => (block + 1) % BlockMod = block + 1
    BY <2>2, WireFacts DEF Wire
  <2> QED
    BY <2>3 DEF WriteData, Return
<1>9. StateTypes'
  <2>1. block' \in BlockNo
    <3>1. p.full => block # Len(Offered[peer])
      BY <1>1, <1>3 DEF IsBlock
    <3>2. p.full => block + 1 \in 0 .. BlockMod - 1
      BY <1>2, <1>4, <1>5, <3>1, TFTPAssumption
    <3> QED
      BY <1>8, <3>2, TFTPAssumption DEF BlockNo, UINT16_MAX
  <2> QED
    BY <1>1, <1>2, <1>6, <1>7, <1>8, <2>1 DEF IInv, StateTypes, clientVars
<1>10. CopiesRight'
  <2>1. BeginningOf(written'[peer], Offered[peer])
    <3>1. \A i \in 1 .. block : written'[peer][i] = Offered[peer][i]
      BY <1>2, <1>7 DEF IInv, CopiesRight, BeginningOf
    <3> QED
      BY <1>5, <1>7, <3>1 DEF BeginningOf
  <2>2. Len(written'[peer]) = Len(Offered[peer]) => peer \in finished'
    BY <1>1, <1>3, <1>7, <1>8 DEF IsBlock
  <2>3. /\ \A t \in Writes : t # peer => written'[t] = written[t]
        /\ \A t \in finished : t \in finished'
        /\ UNCHANGED <<received, completed, started>>
    BY <1>6, <1>7, <1>8, FileFacts DEF clientVars
  <2>4. \A t \in Client \ started : written'[t] = written[t]
    BY <1>2, <1>7
  <2> QED
    BY <2>1, <2>2, <2>3, <2>4 DEF IInv, CopiesRight
<1>11. NetOK'
  <2>1. ASSUME NEW r \in net, PacketOK(r) PROVE PacketOK(r)'
    <3>1. UNCHANGED <<tid, peer, current, lock, number, started, received>>
      BY <1>6 DEF clientVars
    <3>2. \A t \in Client : /\ Len(written[t]) <= Len(written'[t])
                           /\ Len(received[t]) <= Len(received'[t])
      BY <1>2, <1>7, <3>1, CopyFacts DEF IInv
    <3>3. mode' # "reading"
      BY <1>1, <1>8
    <3> QED
      BY <1>9, <2>1, <3>1, <3>2, <3>3, PacketKept DEF IInv
  <2>2. block \in Nat /\ block <= Len(written'[peer])
    BY <1>2, <1>7
  <2>3. PacketOK(q)'
    BY <1>2, <1>6, <2>2, AckSent DEF clientVars
  <2> QED
    BY <2>1, <2>3, NetKept DEF IInv, ServerStep
<1>12. ClientOK'
  <2>1. UNCHANGED <<started, active, current, number, lock, received>>
    BY <1>6 DEF clientVars
  <2>2. CASE current = peer
    BY <1>2, <1>3, <1>7, <2>1, <2>2 DEF IInv, ClientOK, StateTypes
  <2>3. CASE current # peer
    <3>1. current \in Writes => written'[current] = written[current]
      BY <1>7, <2>3, FileFacts
    <3> QED
      BY <2>1, <3>1 DEF IInv, ClientOK
  <2> QED
    BY <2>2, <2>3
<1>13. ServerOK'
  BY <1>1, <1>2, <1>6, <1>7, <1>8 DEF IInv, ServerOK, clientVars
<1> QED
  BY <1>9, <1>10, <1>11, <1>12, <1>13 DEF IInv

\* A new session has a port that is in no packet, and begins a copy that is empty or is
\* another session's
LEMMA StartKept ==
    ASSUME IInv, NEW q, ServerStep(q), q = sent', NEW p \in net, StartWrite(p) \/ StartRead(p)
    PROVE  IInv'
<1>1. /\ tid' = tid + 1 /\ peer' = p.peer /\ block' = 1 /\ UNCHANGED <<written, finished>>
      /\ UNCHANGED <<started, current, active, lock, number, received, completed>>
      /\ p.to = "server"
  BY DEF StartWrite, StartRead, OpenSocket, ForServer, ServerStep, clientVars
<1>2. /\ \/ mode' = "writing" /\ p.op = "WRITE" /\ sendAck(0)
         \/ mode' = "reading" /\ p.op = "READ" /\ SendBlock(1)
  BY DEF StartWrite, StartRead
<1>3. /\ p.peer \in started /\ p.peer \in Client /\ tid \in Nat /\ tid' \in Nat \ {0}
      /\ mode' = "writing" => p.peer \in Writes
      /\ mode' = "reading" => p.peer \notin Writes
  BY <1>1, <1>2 DEF IInv, StateTypes, NetOK, PacketOK, FromClient
<1>4. StateTypes'
  <2>1. 1 \in BlockNo
    BY TFTPAssumption DEF BlockNo, UINT16_MAX
  <2>2. lock' \in 0 .. tid'
    BY <1>1, <1>3 DEF IInv, StateTypes
  <2> QED
    BY <1>1, <1>2, <1>3, <2>1, <2>2 DEF IInv, StateTypes
<1>5. CopiesRight'
  BY <1>1 DEF IInv, CopiesRight
<1>6. NetOK'
  <2>1. ASSUME NEW r \in net, PacketOK(r) PROVE PacketOK(r)'
    <3>1. r.port # tid'
      BY <1>1, <1>3, <2>1 DEF PacketOK
    <3>2. r.to = "server" => FromClient(r)'
      BY <1>1, <2>1 DEF PacketOK, FromClient, IsBlock
    <3>3. r.to = "client" => FromServer(r)'
      BY <1>1, <2>1, <3>1 DEF PacketOK, FromServer, IsBlock
    <3> QED
      BY <1>1, <1>3, <2>1, <3>2, <3>3 DEF PacketOK
  <2>2. CASE mode' = "writing"
    <3>1. 0 <= Len(written'[peer']) /\ peer' \in started' \cap Writes /\ sendAck(0)
      BY <1>1, <1>2, <1>3, <2>2, CopyFacts DEF IInv
    <3>2. PacketOK(q)'
      BY <1>3, <3>1, AckSent
    <3> QED
      BY <2>1, <3>2, NetKept DEF IInv, ServerStep
  <2>3. CASE mode' = "reading"
    <3>1. /\ 1 \in 1 .. Len(Contents) /\ peer' \in started' \ Writes /\ 1 <= block'
          /\ SendBlock(1)
      BY <1>1, <1>2, <1>3, <2>3, FileFacts
    <3>2. PacketOK(q)'
      BY <1>3, <3>1, BlockSent
    <3> QED
      BY <2>1, <3>2, NetKept DEF IInv, ServerStep
  <2> QED
    BY <1>2, <2>2, <2>3
<1>7. ClientOK'
  BY <1>1 DEF IInv, ClientOK
<1>8. ServerOK'
  <2>1. CASE mode' = "writing"
    <3>1. CASE current = p.peer /\ lock = ListenPort
      <4>1. number = 0 /\ Len(written[p.peer]) \in Nat /\ number \in Nat
            /\ number >= Len(written[p.peer])
        BY <1>3, <2>1, <3>1, CopyFacts DEF IInv, ClientOK, StateTypes
      <4> QED
        BY <1>1, <1>3, <2>1, <4>1 DEF ServerOK
    <3>2. CASE ~(current = p.peer /\ lock = ListenPort)
      <4>1. lock # tid'
        BY <1>1, <1>3 DEF IInv, StateTypes
      <4>2. \A r \in net' : r.port = tid' => r = q
        BY <1>1, <1>3 DEF IInv, NetOK, PacketOK, ServerStep
      <4>3. q.to = "client"
        BY <1>2, <2>1 DEF sendAck, Message
      <4>4. Abandoned'
        BY <1>1, <3>2, <4>1, <4>2, <4>3 DEF Abandoned
      <4> QED
        BY <1>1, <1>3, <2>1, <4>4 DEF ServerOK
    <3> QED
      BY <3>1, <3>2
  <2>2. CASE mode' = "reading"
    <3>1. lock # tid'
      BY <1>1, <1>3 DEF IInv, StateTypes
    <3>2. Len(received[p.peer]) \in Nat
      BY <1>3, CopyFacts DEF IInv
    <3> QED
      BY <1>1, <1>3, <2>2, <3>1, <3>2, FileFacts DEF ServerOK
  <2> QED
    BY <1>2, <2>1, <2>2
<1> QED
  BY <1>4, <1>5, <1>6, <1>7, <1>8 DEF IInv

LEMMA ServerKeeps == Short /\ IInv /\ Server => IInv'
<1> SUFFICES ASSUME Short, IInv, Server PROVE IInv'
  OBVIOUS
<1>1. CASE ServerReceives
  <2>1. PICK p \in net : /\ ReceivePacket(p) /\ UNCHANGED clientVars
                         /\ \E rest \in Taken(p) : net' = Carry(rest, sent')
    BY <1>1 DEF ServerReceives
  <2>2. ServerStep(sent')
    BY <2>1, TakenFacts, CarryFacts DEF ServerStep
  <2> DEFINE q == sent'
  <2>3. ServerStep(q) /\ q = sent'
    BY <2>2
  <2> HIDE DEF q
  <2>4. CASE Ignored(p)
    BY <2>2, <2>4, NothingKept DEF Ignored
  <2>5. CASE sendError(p)
    BY <2>3, <2>5, ErrorKept
  <2>6. CASE StartWrite(p) \/ StartRead(p)
    BY <2>3, <2>6, StartKept
  <2>7. CASE WriteData(p)
    BY <2>3, <2>7, OtherBlockKept, ExpectedBlockKept
  <2>8. CASE WrongAck(p)
    BY <2>3, <2>8, WaitFailedKept DEF WrongAck
  <2>9. CASE ReadAcked(p)
    <3>1. CASE ~LastBlock(block) /\ block + 1 < UINT16_MAX
      BY <2>3, <2>9, <3>1, NextBlockKept
    <3>2. CASE ~(~LastBlock(block) /\ block + 1 < UINT16_MAX)
      <4>1. sent' = NoPacket
        BY <2>9, <3>2 DEF ReadAcked
      <4> QED
        BY <2>2, <2>9, <3>2, <4>1, LastAckKept
    <3> QED
      BY <3>1, <3>2
  <2> QED
    BY <2>1, <2>4, <2>5, <2>6, <2>7, <2>8, <2>9 DEF ReceivePacket
<1>2. CASE ServerTimeout
  <2> DEFINE q == sent'
  <2>1. ServerStep(q) /\ q = sent' /\ Timeout
    BY <1>2, CarryFacts DEF ServerTimeout, ServerStep
  <2> HIDE DEF q
  <2>2. CASE WriteTimeout
    <3>1. ServerStep(NoPacket)
      BY <2>1, <2>2 DEF WriteTimeout
    <3> QED
      BY <2>2, <3>1, NothingKept
  <2>3. CASE AckTimeout
    BY <2>1, <2>3, WaitFailedKept DEF AckTimeout
  <2> QED
    BY <2>1, <2>2, <2>3 DEF Timeout
<1>3. CASE TimePassesAtServer
  <2>1. ServerStep(NoPacket) /\ TimePasses
    BY <1>3 DEF TimePassesAtServer, ServerStep
  <2> QED
    BY <2>1, NothingKept
<1> QED
  BY <1>1, <1>2, <1>3 DEF Server

-----------------------------------------------------------------------------
(* Steps of the client and of the network *)

\* What each of these steps leaves alone
ClientStep(q) ==
    /\ UNCHANGED serverVars
    /\ \A p \in net' : p \in net \/ (p = q /\ q # NoPacket)

\* The packet of a client that is locked to a port
LEMMA DataOrAckSent ==
    ASSUME Short, StateTypes', current \in started', current' = current,
           NEW port, port = lock', port # ListenPort,
           NEW n \in Nat, n <= number',
           Writing => n \in 1 .. Len(Offered[current]),
           ~Writing => n <= Len(received'[current]) /\ n <= Len(Contents),
           NEW q, q = DataOrAck(port, n)
    PROVE  PacketOK(q)' /\ q.to = "server" /\ q.peer = current
<1>1. current \in Client /\ port \in 0 .. tid'
  BY DEF StateTypes
<1>2. Wire(n) = n
  <2>1. \E m \in Nat : n <= m /\ m < BlockMod
    BY <1>1, ShortFacts, FileFacts DEF Writing
  <2>2. n \in 0 .. BlockMod - 1
    BY <2>1, TFTPAssumption
  <2> QED
    BY <2>2, WireFacts
<1>3. CASE Writing
  <2>1. q = [to |-> "server", port |-> port, peer |-> current, op |-> "DATA", block |-> n,
             full |-> n < Len(Offered[current]), body |-> Offered[current][n]]
    BY <1>2, <1>3 DEF DataOrAck, ToServer
  <2>2. IsBlock(q, Offered[current])
    BY <1>3, <2>1, FileFacts DEF IsBlock, Writing
  <2> QED
    BY <1>1, <1>3, <2>1, <2>2 DEF PacketOK, FromClient, Writing, IsBlock
<1>4. CASE ~Writing
  <2>1. q = [to |-> "server", port |-> port, peer |-> current, op |-> "ACK", block |-> n,
             full |-> FALSE, body |-> NoPacket]
    BY <1>2, <1>4 DEF DataOrAck, ToServer
  <2> QED
    BY <1>1, <1>4, <2>1 DEF PacketOK, FromClient, Writing
<1> QED
  BY <1>3, <1>4

LEMMA RequestSent ==
    ASSUME StateTypes', current' \in started', NEW q, q = Request
    PROVE  PacketOK(q)' /\ q.to = "server" /\ q.op # "DATA"
<1>1. Wire(0) = 0
  BY WireFacts, TFTPAssumption
<1>2. q = [to |-> "server", port |-> ListenPort, peer |-> current',
           op |-> IF current' \in Writes THEN "WRITE" ELSE "READ", block |-> 0,
           full |-> FALSE, body |-> NoPacket]
  BY <1>1 DEF Request, ToServer
<1>3. tid' \in Nat
  BY DEF StateTypes
<1> QED
  BY <1>2, <1>3 DEF PacketOK, FromClient, ListenPort

\* The client sends something again, or nothing more
LEMMA PlaceKept ==
    ASSUME IInv, NEW q, ClientStep(q), active' \in BOOLEAN, active' => active,
           UNCHANGED <<started, current, lock, number, received, completed>>,
           q # NoPacket => PacketOK(q)' /\ q.to = "server" /\ (q.op = "DATA" => q.peer = current)
    PROVE  IInv'
<1>1. StateTypes'
  BY DEF IInv, StateTypes, ClientStep, serverVars
<1>2. CopiesRight' /\ ClientOK'
  BY DEF IInv, CopiesRight, ClientOK, ClientStep, serverVars
<1>3. NetOK'
  <2>1. ASSUME NEW p, PacketOK(p) PROVE PacketOK(p)'
    BY <2>1 DEF PacketOK, FromClient, FromServer, IsBlock, ClientStep, serverVars
  <2> QED
    BY <2>1, NetKept DEF IInv, ClientStep
<1>4. ServerOK'
  <2>1. Abandoned => Abandoned'
    <3> SUFFICES ASSUME Abandoned, NEW p \in net', p.to = "server", p.op = "DATA",
                        p.port = tid, p.peer = peer
                 PROVE  FALSE
      BY DEF Abandoned, ClientStep, serverVars
    <3>1. p = q /\ q # NoPacket
      BY DEF Abandoned, ClientStep
    <3>2. current = peer /\ lock = tid
      BY <3>1 DEF PacketOK, FromClient
    <3> QED
      BY <3>2 DEF Abandoned
  <2> QED
    BY <2>1 DEF IInv, ServerOK, ClientStep, serverVars
<1> QED
  BY <1>1, <1>2, <1>3, <1>4 DEF IInv

LEMMA ResendKept ==
    ASSUME Short, IInv, NEW q, ClientStep(q), UNCHANGED clientVars, current \in started,
           q = NoPacket \/ q = Request \/ (lock # ListenPort /\ q = DataOrAck(lock, number))
    PROVE  IInv'
<1>1. StateTypes'
  BY DEF IInv, StateTypes, ClientStep, serverVars, clientVars
<1>2. UNCHANGED <<started, current, active, lock, number, received, completed>>
  BY DEF clientVars
<1>3. CASE q = Request
  <2>1. current' \in started'
    BY <1>2
  <2> QED
    BY <1>1, <1>2, <1>3, <2>1, RequestSent, PlaceKept DEF IInv, StateTypes
<1>4. CASE lock # ListenPort /\ q = DataOrAck(lock, number)
  <2>1. /\ current \in Client /\ number \in Nat /\ active \in BOOLEAN /\ number # 0
        /\ current \in Writes => number <= Len(Offered[current])
        /\ current \notin Writes => /\ number = Len(received[current])
                                  /\ number <= Len(Contents)
    BY <1>4 DEF IInv, StateTypes, ClientOK, CopiesRight, BeginningOf
  <2>2. PacketOK(q)' /\ q.to = "server" /\ q.peer = current
    <3>1. number \in 1 .. number
      BY <2>1
    <3>2. Writing => number \in 1 .. Len(Offered[current])
      BY <2>1, FileFacts DEF Writing
    <3>3. ~Writing => number <= Len(received'[current]) /\ number <= Len(Contents)
      BY <1>2, <2>1, CopyFacts DEF Writing, IInv
    <3> QED
      BY <1>1, <1>2, <1>4, <2>1, <3>2, <3>3, DataOrAckSent
  <2> QED
    BY <1>2, <2>1, <2>2, PlaceKept
<1>5. CASE q = NoPacket
  BY <1>2, <1>5, PlaceKept DEF IInv, StateTypes
<1> QED
  BY <1>3, <1>4, <1>5

\* A client that begins has no packets in the network and no session
LEMMA ClientStartsKept ==
    ASSUME Short, IInv, ClientStarts
    PROVE  IInv'
<1> PICK q : q = Request
  OBVIOUS
<1>1. /\ current' \in Client \ started /\ started' = started \cup {current'} /\ active' = TRUE
      /\ lock' = ListenPort /\ number' = 0 /\ UNCHANGED <<received, completed>>
      /\ UNCHANGED serverVars /\ ClientStep(q)
  BY CarryFacts DEF ClientStarts, ClientStep
<1>2. StateTypes'
  BY <1>1 DEF IInv, StateTypes, serverVars, ListenPort
<1>3. CopiesRight'
  BY <1>1 DEF IInv, CopiesRight, serverVars
<1>4. written[current'] = <<>> /\ received[current'] = <<>>
  BY <1>1 DEF IInv, CopiesRight
<1>5. ClientOK'
  <2>1. /\ current' \in Writes => written'[current'] = <<>>
        /\ current' \in Client \ Writes => received'[current'] = <<>>
    BY <1>1, <1>4 DEF serverVars
  <2>2. current' \in Writes => Len(Offered[current']) >= 1
    BY FileFacts
  <2> QED
    BY <1>1, <2>1, <2>2, FileFacts DEF ClientOK
<1>6. PacketOK(q)' /\ q.to = "server" /\ q.op # "DATA"
  <2>1. current' \in started'
    BY <1>1
  <2> QED
    BY <1>2, <2>1, RequestSent
<1>7. NetOK'
  <2>1. ASSUME NEW p, PacketOK(p) PROVE PacketOK(p)'
    <3>1. p.peer \in started /\ p.peer # current'
      BY <1>1, <2>1 DEF PacketOK
    <3> QED
      BY <1>1, <2>1, <3>1 DEF PacketOK, FromClient, FromServer, IsBlock, serverVars
  <2> QED
    BY <1>1, <1>6, <2>1, NetKept DEF IInv, ClientStep
<1>8. ServerOK'
  <2>1. mode # "listen" => peer # current'
    BY <1>1 DEF IInv, ServerOK
  <2>2. mode # "listen" /\ Abandoned => Abandoned'
    BY <1>1, <1>6, <2>1 DEF Abandoned, ClientStep, serverVars
  <2> QED
    BY <1>1, <2>1, <2>2 DEF IInv, ServerOK, serverVars
<1> QED
  BY <1>2, <1>3, <1>5, <1>7, <1>8 DEF IInv

\* An acknowledgement says that the block has been written
LEMMA AckReceivedFacts ==
    ASSUME Short, IInv, NEW p \in net, ClientReceivesAck(p)
    PROVE  /\ current \in Writes /\ current \in Client /\ current \in started
           /\ p.peer = current /\ lock \in {ListenPort, p.port} /\ active
           /\ number \in Nat /\ number <= Len(Offered[current])
           /\ Len(Offered[current]) \in Nat
           /\ number = Len(written[current]) /\ p.port # ListenPort /\ p.port \in 0 .. tid
<1>1. /\ current \in Writes /\ current \in Client /\ p.peer = current /\ current \in started
      /\ p.op = "ACK" /\ p.to = "client" /\ lock \in {ListenPort, p.port} /\ active
      /\ p.block = Wire(number)
  BY FileFacts DEF ClientReceivesAck, ForClient, Writing, IInv, ClientOK
<1>2. /\ number \in Nat /\ number <= Len(Offered[current]) /\ Len(Offered[current]) \in Nat
      /\ Len(Offered[current]) < BlockMod
      /\ number \in Len(written[current]) .. Len(written[current]) + 1
      /\ Len(written[current]) \in Nat
  BY <1>1, ShortFacts, FileFacts, CopyFacts DEF IInv, ClientOK, StateTypes
<1>3. p.block = number
  <2>1. number \in 0 .. BlockMod - 1
    BY <1>2, TFTPAssumption
  <2> QED
    BY <1>1, <2>1, WireFacts
<1>4. p.port # ListenPort /\ p.port \in 0 .. tid /\ p.block <= Len(written[current])
  BY <1>1 DEF IInv, NetOK, PacketOK, FromServer
<1> QED
  BY <1>1, <1>2, <1>3, <1>4

\* Its sender becomes the one session of the client
LEMMA AckReceivedKept ==
    ASSUME Short, IInv, NEW p \in net, ClientReceivesAck(p), UNCHANGED serverVars
    PROVE  IInv'
<1>1. /\ current \in Writes /\ current \in Client /\ p.peer = current /\ current \in started
      /\ lock \in {ListenPort, p.port} /\ active
      /\ UNCHANGED <<started, current, received>> /\ lock' = p.port
  BY AckReceivedFacts DEF ClientReceivesAck
<1>2. /\ number \in Nat /\ number <= Len(Offered[current]) /\ Len(Offered[current]) \in Nat
      /\ Len(Offered[current]) >= 1
  BY <1>1, AckReceivedFacts, FileFacts
<1>4. number = Len(written[current]) /\ p.port # ListenPort /\ p.port \in 0 .. tid
  BY AckReceivedFacts
\* What is in the network for this client is for the port it is locked to
<1>5. ASSUME StateTypes', number' \in Nat, number <= number', NEW r, PacketOK(r)
      PROVE  PacketOK(r)'
  <2>1. r.op = "DATA" /\ r.to = "server" /\ r.peer = current => r.port = lock /\ lock = p.port
    BY <1>1, <1>5 DEF PacketOK, FromClient
  <2>2. r.block <= number => r.block <= number'
    BY <1>2, <1>5 DEF PacketOK
  <2> QED
    BY <1>1, <1>5, <2>1, <2>2 DEF PacketOK, FromClient, FromServer, IsBlock, serverVars
<1>6. ASSUME NEW q, \A r \in net' : r \in net \/ (r = q /\ q # NoPacket),
             q # NoPacket => q.peer = current /\ (q.op = "DATA" => q.port = p.port),
             Abandoned
      PROVE  Abandoned'
  BY <1>1, <1>6 DEF Abandoned, serverVars
<1>7. CASE number = Len(Offered[current])
  <2>1. /\ active' = FALSE /\ completed' = completed \cup {current} /\ number' = number
        /\ net' \subseteq net
    BY <1>7, TakenFacts DEF ClientReceivesAck
  <2>2. StateTypes'
    BY <1>1, <1>4, <2>1 DEF IInv, StateTypes, serverVars
  <2>3. CopiesRight' /\ ClientOK'
    BY <1>1, <1>2, <1>4, <1>7, <2>1 DEF IInv, CopiesRight, ClientOK, serverVars
  <2>4. NetOK'
    BY <1>2, <1>5, <2>1, <2>2 DEF IInv, NetOK
  <2>5. Abandoned => Abandoned'
    BY <1>1, <2>1 DEF Abandoned, serverVars
  <2>6. ServerOK'
    BY <1>1, <2>5 DEF IInv, ServerOK, serverVars
  <2> QED
    BY <2>2, <2>3, <2>4, <2>6 DEF IInv
<1>8. CASE number # Len(Offered[current])
  <2> PICK q : q = DataOrAck(p.port, number + 1)
    OBVIOUS
  <2>1. /\ UNCHANGED <<active, completed>> /\ number' = number + 1
        /\ ClientStep(q)
    BY <1>8, TakenFacts, CarryFacts DEF ClientReceivesAck, ClientStep
  <2>2. StateTypes'
    BY <1>1, <1>2, <1>4, <2>1 DEF IInv, StateTypes, serverVars
  <2>3. CopiesRight' /\ ClientOK'
    BY <1>1, <1>2, <1>4, <1>8, <2>1, FileFacts DEF IInv, CopiesRight, ClientOK, serverVars
  <2>4. PacketOK(q)' /\ q.to = "server" /\ q.peer = current
    <3>1. /\ number + 1 \in Nat /\ number + 1 <= number' /\ Writing
          /\ number + 1 \in 1 .. Len(Offered[current])
      BY <1>1, <1>2, <1>8, <2>1 DEF Writing
    <3> QED
      BY <1>1, <1>4, <2>2, <3>1, DataOrAckSent
  <2>5. q.op = "DATA" => q.port = p.port
    BY <1>1, <2>4 DEF PacketOK, FromClient
  <2>6. NetOK'
    BY <1>2, <1>5, <2>1, <2>2, <2>4, NetKept DEF IInv, ClientStep
  <2>7. Abandoned => Abandoned'
    BY <1>6, <2>1, <2>4, <2>5 DEF ClientStep
  <2>8. ServerOK'
    BY <1>1, <2>7 DEF IInv, ServerOK, serverVars
  <2> QED
    BY <2>2, <2>3, <2>6, <2>8 DEF IInv
<1> QED
  BY <1>7, <1>8

\* A block that is read is the next one; it is acknowledged only when it has been read
LEMMA DataReceivedFacts ==
    ASSUME Short, IInv, NEW p \in net, ClientReceivesData(p)
    PROVE  /\ current \in Client \ Writes /\ current \in started /\ ~Writing
           /\ number \in Nat /\ number = Len(received[current])
           /\ p.op = "DATA" /\ p.to = "client" /\ p.peer = current
           /\ p.block = number + 1 /\ IsBlock(p, Contents)
           /\ p.port # ListenPort /\ p.port \in 0 .. tid
<1>1. /\ current \notin Writes /\ active /\ current \in started /\ current \in Client /\ ~Writing
      /\ p.op = "DATA" /\ p.to = "client" /\ p.peer = current
  BY DEF ClientReceivesData, ForClient, Writing, IInv, ClientOK, StateTypes
<1>2. IsBlock(p, Contents) /\ p.port # ListenPort /\ p.port \in 0 .. tid
  BY <1>1 DEF IInv, NetOK, PacketOK, FromServer
<1>3. number = Len(received[current]) /\ number \in Nat /\ number <= Len(Contents)
  BY <1>1 DEF IInv, ClientOK, StateTypes, CopiesRight, BeginningOf
<1>4. p.block = number + 1
  <2>1. Len(Contents) < BlockMod /\ Len(Contents) \in Nat
    BY <1>1, ShortFacts, FileFacts
  <2>2. number + 1 \in 0 .. BlockMod - 1 \/ number + 1 = BlockMod
    BY <1>3, <2>1, TFTPAssumption
  <2>3. Wire(BlockMod) = 0
    BY TFTPAssumption DEF Wire
  <2>4. p.block = Wire(number + 1) /\ p.block >= 1
    BY <1>2, FileFacts DEF ClientReceivesData, IsBlock
  <2> QED
    BY <2>2, <2>3, <2>4, WireFacts
<1> QED
  BY <1>1, <1>2, <1>3, <1>4

LEMMA DataReceivedKept ==
    ASSUME Short, IInv, NEW p \in net, ClientReceivesData(p), UNCHANGED serverVars
    PROVE  IInv'
<1> PICK q : q = DataOrAck(p.port, number + 1)
  OBVIOUS
<1>1. /\ current \in Client \ Writes /\ current \in started /\ ~Writing
      /\ number \in Nat /\ number = Len(received[current])
      /\ p.peer = current /\ p.block = number + 1 /\ IsBlock(p, Contents)
      /\ p.port # ListenPort /\ p.port \in 0 .. tid
  BY DataReceivedFacts
<1>2. /\ lock' = p.port /\ number' = number + 1 /\ active' = p.full
      /\ received' = [received EXCEPT ![current] = Append(@, p.body)]
      /\ completed' = IF p.full THEN completed ELSE completed \cup {current}
      /\ UNCHANGED <<started, current>> /\ ClientStep(q)
  BY TakenFacts, CarryFacts DEF ClientReceivesData, ClientStep
<1>3. p.body \in Block /\ p.full \in BOOLEAN /\ number + 1 <= Len(Contents)
      /\ p.body = Contents[number + 1] /\ p.full = (number + 1 # Len(Contents))
  BY <1>1, FileFacts, ElementOfSeq DEF IsBlock
<1>4. /\ received' \in [Client -> Seq(Block)]
      /\ Len(received'[current]) = number + 1
      /\ \A i \in 1 .. number : received'[current][i] = received[current][i]
      /\ received'[current][number + 1] = p.body
      /\ \A t \in Client \ {current} : received'[t] = received[t]
  <2>1. received \in [Client -> Seq(Block)]
    BY DEF IInv, StateTypes
  <2>2. received[current] \in Seq(Block) /\ received'[current] = Append(received[current], p.body)
    BY <1>1, <1>2, <2>1
  <2>3. Append(received[current], p.body) \in Seq(Block)
    BY <1>3, <2>2, AppendProperties
  <2> QED
    BY <1>1, <1>2, <1>3, <2>1, <2>2, <2>3, AppendProperties
<1>5. StateTypes'
  BY <1>1, <1>2, <1>3, <1>4 DEF IInv, StateTypes, serverVars
<1>6. CopiesRight'
  <2>1. /\ BeginningOf(received'[current], Contents)
        /\ Len(received'[current]) = Len(Contents) => current \in completed'
    <3>1. \A i \in 1 .. number : received[current][i] = Contents[i]
      BY <1>1 DEF IInv, CopiesRight, BeginningOf
    <3>2. \A i \in 1 .. number + 1 : i \in 1 .. number \/ i = number + 1
      BY <1>1
    <3>3. \A i \in 1 .. number + 1 : received'[current][i] = Contents[i]
      BY <1>3, <1>4, <3>1, <3>2
    <3>4. number + 1 = Len(Contents) => current \in completed'
      BY <1>2, <1>3
    <3> QED
      BY <1>3, <1>4, <3>3, <3>4 DEF BeginningOf
  <2> QED
    BY <1>1, <1>2, <1>4, <2>1 DEF IInv, CopiesRight, serverVars
<1>7. PacketOK(q)' /\ q.to = "server" /\ q.peer = current
  <2>1. /\ number + 1 \in Nat /\ number + 1 <= number' /\ ~Writing
        /\ number + 1 <= Len(received'[current]) /\ number + 1 <= Len(Contents)
    BY <1>1, <1>2, <1>3, <1>4
  <2> QED
    BY <1>1, <1>2, <1>5, <2>1, DataOrAckSent
<1>8. ASSUME NEW r, PacketOK(r) PROVE PacketOK(r)'
  <2>1. \A t \in Client : Len(received[t]) <= Len(received'[t])
    BY <1>1, <1>4, CopyFacts DEF IInv
  <2>2. r.peer \in Client /\ r.block \in Nat /\ Len(received[r.peer]) \in Nat
        /\ Len(received'[r.peer]) \in Nat
    BY <1>4, <1>5, <1>8, CopyFacts, LenProperties DEF PacketOK, IInv, StateTypes
  <2>3. r.to = "server" => FromClient(r)'
    BY <1>1, <1>2, <1>8, <2>1, <2>2 DEF PacketOK, FromClient, IsBlock
  <2>4. r.to = "client" => FromServer(r)'
    BY <1>2, <1>8 DEF PacketOK, FromServer, IsBlock, ClientStep, serverVars
  <2> QED
    BY <1>2, <1>8, <2>3, <2>4 DEF PacketOK, ClientStep, serverVars
<1>9. NetOK'
  BY <1>2, <1>7, <1>8, NetKept DEF IInv, ClientStep
<1>10. ClientOK'
  BY <1>1, <1>2, <1>4 DEF IInv, ClientOK
<1>11. ServerOK'
  <2>1. mode = "writing" /\ Abandoned => Abandoned'
    BY <1>1, <1>2, <1>7 DEF IInv, ServerOK, Abandoned, ClientStep, serverVars
  <2>2. mode = "reading" => block <= Len(received'[peer]) + 1
    <3>1. Len(received[peer]) <= Len(received'[peer]) /\ Len(received'[peer]) \in Nat
          /\ Len(received[peer]) \in Nat
      <4>1. peer \in Client /\ peer' = peer
        BY <1>2 DEF IInv, StateTypes, ClientStep, serverVars
      <4>2. Len(received[peer]) \in Nat
        BY <4>1, CopyFacts DEF IInv
      <4>3. CASE peer = current
        BY <1>1, <1>4, <4>1, <4>2, <4>3
      <4>4. CASE peer # current
        BY <1>4, <4>1, <4>2, <4>4
      <4> QED
        BY <4>3, <4>4
    <3>2. block \in Nat
      BY TFTPAssumption DEF IInv, StateTypes, BlockNo, UINT16_MAX
    <3> QED
      BY <3>1, <3>2 DEF IInv, ServerOK
  <2>3. mode = "reading" /\ lock' = tid => number' <= block
    BY <1>1, <1>2 DEF IInv, NetOK, PacketOK, FromServer, ClientReceivesData, ForClient
  <2> QED
    BY <1>2, <2>1, <2>2, <2>3 DEF IInv, ServerOK, ClientStep, serverVars
<1> QED
  BY <1>5, <1>6, <1>9, <1>10, <1>11 DEF IInv

LEMMA ClientReceivesKept ==
    ASSUME Short, IInv, ClientReceives
    PROVE  IInv'
<1>1. PICK p \in net : /\ ClientReceivesAck(p) \/ ClientReceivesData(p) \/ ClientReceivesRepeated(p)
                       /\ UNCHANGED serverVars
  BY DEF ClientReceives
<1>2. CASE ClientReceivesRepeated(p)
  <2> PICK q : q = DataOrAck(lock, number)
    OBVIOUS
  <2>1. ClientStep(q) /\ UNCHANGED clientVars
    BY <1>1, <1>2, TakenFacts, CarryFacts DEF ClientReceivesRepeated, ClientStep
  <2>2. current \in started /\ lock # ListenPort
    BY <1>2 DEF ClientReceivesRepeated, IInv, NetOK, PacketOK, FromServer
  <2> QED
    BY <2>1, <2>2, ResendKept
<1> QED
  BY <1>1, <1>2, AckReceivedKept, DataReceivedKept

LEMMA ClientResendsKept ==
    ASSUME Short, IInv, ClientResends
    PROVE  IInv'
<1>1. PICK q : q = IF lock = ListenPort THEN Request ELSE DataOrAck(lock, number)
  OBVIOUS
<1>2. ClientStep(q) /\ UNCHANGED clientVars /\ current \in started
  BY <1>1, CarryFacts DEF ClientResends, ClientStep, IInv, ClientOK
<1> QED
  BY <1>1, <1>2, ResendKept

LEMMA NextKeeps == Short /\ IInv /\ [Next]_vars => IInv'
<1> SUFFICES ASSUME Short, IInv, [Next]_vars PROVE IInv'
  OBVIOUS
<1>1. CASE ClientGivesUp
  <2>1. ClientStep(NoPacket) /\ active' = FALSE
        /\ UNCHANGED <<started, current, lock, number, received, completed>>
    BY <1>1 DEF ClientGivesUp, ClientStep
  <2> QED
    BY <2>1, PlaceKept DEF IInv, StateTypes
<1>2. CASE Lose
  <2>1. ClientStep(NoPacket)
        /\ UNCHANGED <<started, current, active, lock, number, received, completed>>
    BY <1>2 DEF Lose, ClientStep, clientVars
  <2> QED
    BY <2>1, PlaceKept DEF IInv, StateTypes
<1>3. CASE UNCHANGED vars
  <2>1. ClientStep(NoPacket)
        /\ UNCHANGED <<started, current, active, lock, number, received, completed>>
    BY <1>3 DEF vars, ClientStep, clientVars
  <2> QED
    BY <2>1, PlaceKept DEF IInv, StateTypes
<1> QED
  BY <1>1, <1>2, <1>3, ServerKeeps, ClientStartsKept, ClientResendsKept, ClientReceivesKept
     DEF Next

LEMMA InitHolds == Init => IInv
<1> SUFFICES ASSUME Init PROVE IInv
  OBVIOUS
<1>1. /\ mode = "listen" /\ tid = 0 /\ peer \in Client /\ block = 0 /\ finished = {}
      /\ net = {} /\ started = {} /\ current = NoTransfer /\ active = FALSE
      /\ lock = 0 /\ number = 0 /\ completed = {}
      /\ written = [t \in Client |-> <<>>] /\ received = [t \in Client |-> <<>>]
  BY DEF Init, ServerInit, ListenPort
<1>2. <<>> \in Seq(Block) /\ Len(<<>>) = 0
  BY EmptySeq
<1>3. StateTypes
  <2>1. block \in BlockNo /\ tid \in Nat /\ lock \in 0 .. tid /\ number \in Nat
    BY <1>1, TFTPAssumption DEF BlockNo, UINT16_MAX
  <2>2. written \in [Client -> Seq(Block)] /\ received \in [Client -> Seq(Block)]
    BY <1>1, <1>2
  <2> QED
    BY <1>1, <2>1, <2>2 DEF StateTypes
<1>4. CopiesRight
  BY <1>1, <1>2, FileFacts DEF CopiesRight, BeginningOf
<1>5. NetOK /\ ServerOK
  BY <1>1 DEF NetOK, ServerOK
<1>6. ClientOK
  BY <1>1, FileFacts DEF ClientOK
<1> QED
  BY <1>3, <1>4, <1>5, <1>6 DEF IInv


\* For files without a block number twice, the invariant holds whatever is lost or repeated
LEMMA Invariance == ASSUME Short PROVE Spec => []IInv
<1>1. Init => IInv
  BY InitHolds
<1>2. IInv /\ [Next]_vars => IInv'
  BY NextKeeps
<1> QED
  BY <1>1, <1>2, PTL DEF Spec

-----------------------------------------------------------------------------
(* The steps of FileTransfer *)

abstractVars == <<Copy, ReceiverDone, SenderDone>>

LEMMA Stutters ==
    ASSUME UNCHANGED <<written, received, finished, completed>>
    PROVE  UNCHANGED abstractVars
BY DEF abstractVars, Copy, ReceiverDone, SenderDone

\* A copy that is a block longer is the whole file when it is as long
LEMMA Delivers ==
    ASSUME NEW t \in Client, NEW body,
           Copy[t] \in Seq(Block), Target[t] \in Seq(Block), BeginningOf(Copy[t], Target[t]),
           Len(Copy[t]) < Len(Target[t]), body = Target[t][Len(Copy[t]) + 1],
           Copy' = [Copy EXCEPT ![t] = Append(@, body)],
           ReceiverDone' = IF Len(Copy[t]) + 1 = Len(Target[t]) THEN ReceiverDone \cup {t}
                                                                ELSE ReceiverDone,
           UNCHANGED SenderDone
    PROVE  FT!Next
<1>1. Len(Copy[t]) \in Nat /\ Len(Target[t]) \in Nat /\ body \in Block
  BY LenProperties, ElementOfSeq
<1>2. Copy'[t] = Append(Copy[t], body) /\ Copy'[t] \in Seq(Block)
  <2>1. t \in DOMAIN Copy
    BY DEF Copy
  <2> QED
    BY <1>1, <2>1, AppendProperties
<1>3. /\ Len(Copy'[t]) = Len(Copy[t]) + 1
      /\ \A i \in 1 .. Len(Copy[t]) : Copy'[t][i] = Copy[t][i]
      /\ Copy'[t][Len(Copy[t]) + 1] = body
  BY <1>1, <1>2, AppendProperties
<1>4. Copy'[t] = Target[t] <=> Len(Copy[t]) + 1 = Len(Target[t])
  <2>1. ASSUME Len(Copy[t]) + 1 = Len(Target[t]) PROVE Copy'[t] = Target[t]
    <3>1. \A i \in 1 .. Len(Copy'[t]) : Copy'[t][i] = Target[t][i]
      BY <1>1, <1>3 DEF BeginningOf
    <3> QED
      BY <1>2, <1>3, <2>1, <3>1, SeqEqual
  <2> QED
    BY <1>3, <2>1
<1>5. FT!Deliver(t)
  BY <1>4 DEF FT!Deliver
<1> QED
  BY <1>5 DEF FT!Next

LEMMA WritesBlock ==
    ASSUME Short, IInv, NEW p \in net, WriteData(p), UNCHANGED clientVars
    PROVE  [FT!Next]_abstractVars
<1>1. CASE ~IsExpected(p.block)
  BY <1>1, Stutters DEF WriteData, clientVars
<1>2. CASE IsExpected(p.block)
  <2>1. /\ p.op = "DATA" /\ p.to = "server" /\ p.peer = peer /\ p.port = tid
        /\ p.block = block /\ mode = "writing"
    BY <1>2 DEF WriteData, ForTransfer, IsExpected
  <2>2. /\ peer \in Writes /\ peer \in Client /\ block = Len(written[peer]) + 1
        /\ Len(written[peer]) \in Nat /\ IsBlock(p, Offered[peer])
        /\ written[peer] \in Seq(Block) /\ BeginningOf(written[peer], Offered[peer])
    BY <2>1, CopyFacts
       DEF IInv, ServerOK, StateTypes, NetOK, PacketOK, FromClient, Abandoned, CopiesRight
  <2>3. /\ Copy[peer] = written[peer] /\ Target[peer] = Offered[peer]
        /\ Offered[peer] \in Seq(Block) /\ Len(Offered[peer]) \in Nat
    BY <2>2, FileFacts DEF Copy, Target
  <2>4. /\ Len(Copy[peer]) < Len(Target[peer]) /\ p.body = Target[peer][Len(Copy[peer]) + 1]
        /\ p.full = (Len(Copy[peer]) + 1 # Len(Target[peer]))
    BY <2>1, <2>2, <2>3 DEF IsBlock
  <2>5. /\ written' = [written EXCEPT ![peer] = Append(@, p.body)]
        /\ finished' = IF p.full THEN finished ELSE finished \cup {peer}
        /\ UNCHANGED <<received, completed>>
    BY <1>2 DEF WriteData, clientVars
  <2>6. Copy' = [Copy EXCEPT ![peer] = Append(@, p.body)]
    BY <2>2, <2>5 DEF Copy, IInv, StateTypes
  <2>7. ReceiverDone' = IF p.full THEN ReceiverDone ELSE ReceiverDone \cup {peer}
    BY <2>2, <2>5 DEF ReceiverDone
  <2>8. SenderDone' = SenderDone
    BY <2>2, <2>5 DEF SenderDone
  <2> QED
    BY <2>2, <2>3, <2>4, <2>6, <2>7, <2>8, Delivers
<1> QED
  BY <1>1, <1>2

LEMMA ReadsBlock ==
    ASSUME Short, IInv, NEW p \in net, ClientReceivesData(p), UNCHANGED serverVars
    PROVE  [FT!Next]_abstractVars
<1>1. /\ current \in Client \ Writes /\ number \in Nat /\ number = Len(received[current])
      /\ p.block = number + 1 /\ IsBlock(p, Contents)
  BY DataReceivedFacts
<1>2. /\ received[current] \in Seq(Block) /\ BeginningOf(received[current], Contents)
  BY <1>1 DEF IInv, StateTypes, CopiesRight
<1>3. Copy[current] = received[current] /\ Target[current] = Contents
  BY <1>1 DEF Copy, Target
<1>4. /\ Len(Copy[current]) < Len(Target[current])
      /\ p.body = Target[current][Len(Copy[current]) + 1]
      /\ p.full = (Len(Copy[current]) + 1 # Len(Target[current]))
  BY <1>1, <1>3, FileFacts DEF IsBlock
<1>5. /\ received' = [received EXCEPT ![current] = Append(@, p.body)]
      /\ completed' = IF p.full THEN completed ELSE completed \cup {current}
      /\ UNCHANGED <<written, finished>>
  BY DEF ClientReceivesData, serverVars
<1>6. Copy' = [Copy EXCEPT ![current] = Append(@, p.body)]
  BY <1>1, <1>5 DEF Copy, IInv, StateTypes
<1>7. ReceiverDone' = IF p.full THEN ReceiverDone ELSE ReceiverDone \cup {current}
  BY <1>1, <1>5 DEF ReceiverDone
<1>8. SenderDone' = SenderDone
  BY <1>1, <1>5 DEF SenderDone
<1> QED
  BY <1>1, <1>2, <1>3, <1>4, <1>6, <1>7, <1>8, FileFacts, Delivers

\* The server believes to be done with a read when its client has the last block
LEMMA EndsRead ==
    ASSUME IInv, NEW p \in net, ReadAcked(p), UNCHANGED clientVars
    PROVE  [FT!Next]_abstractVars
<1>1. UNCHANGED <<written, received, completed>> /\ finished' \in {finished, finished \cup {peer}}
  BY DEF ReadAcked, clientVars
<1>2. CASE finished' = finished
  BY <1>1, <1>2, Stutters
<1>3. CASE finished' # finished
  <2>1. /\ block = Len(Contents) /\ finished' = finished \cup {peer}
        /\ p.op = "ACK" /\ p.to = "server" /\ p.peer = peer /\ p.block = block
        /\ mode = "reading"
    BY <1>1, <1>3 DEF ReadAcked, LastBlock, IsAck, ForTransfer
  <2>2. peer \in Client \ Writes /\ Len(Contents) <= Len(received[peer])
    BY <2>1 DEF IInv, StateTypes, ServerOK, NetOK, PacketOK, FromClient
  <2>3. Len(received[peer]) = Len(Contents)
    BY <2>2, CopyFacts, FileFacts DEF IInv, CopiesRight, BeginningOf
  <2>4. peer \in ReceiverDone
    BY <2>2, <2>3 DEF IInv, CopiesRight, ReceiverDone
  <2>5. UNCHANGED <<Copy, ReceiverDone>> /\ SenderDone' = SenderDone \cup {peer}
    BY <1>1, <2>1, <2>2 DEF Copy, ReceiverDone, SenderDone
  <2>6. FT!SenderDone(peer)
    BY <2>4, <2>5 DEF FT!SenderDone
  <2> QED
    BY <2>2, <2>6 DEF FT!Next
<1> QED
  BY <1>2, <1>3

\* The client believes to be done with a write when the server has the last block
LEMMA EndsWrite ==
    ASSUME Short, IInv, NEW p \in net, ClientReceivesAck(p), UNCHANGED serverVars
    PROVE  [FT!Next]_abstractVars
<1>1. /\ UNCHANGED <<written, received, finished>>
      /\ \/ completed' = completed
         \/ number = Len(Offered[current]) /\ completed' = completed \cup {current}
  BY DEF ClientReceivesAck, serverVars
<1>2. CASE completed' = completed
  BY <1>1, <1>2, Stutters
<1>3. CASE completed' # completed
  <2>1. current \in Writes /\ current \in Client /\ Len(written[current]) = Len(Offered[current])
    BY <1>1, <1>3, AckReceivedFacts
  <2>2. current \in ReceiverDone
    BY <2>1 DEF IInv, CopiesRight, ReceiverDone
  <2>3. UNCHANGED <<Copy, ReceiverDone>> /\ SenderDone' = SenderDone \cup {current}
    BY <1>1, <1>3, <2>1 DEF Copy, ReceiverDone, SenderDone
  <2>4. FT!SenderDone(current)
    BY <2>2, <2>3 DEF FT!SenderDone
  <2> QED
    BY <2>1, <2>4 DEF FT!Next
<1> QED
  BY <1>2, <1>3

LEMMA StepImplements == Short /\ IInv /\ [Next]_vars => [FT!Next]_abstractVars
<1> SUFFICES ASSUME Short, IInv, [Next]_vars PROVE [FT!Next]_abstractVars
  OBVIOUS
<1>1. CASE Server
  <2>1. CASE ServerReceives
    <3>1. PICK p \in net : ReceivePacket(p) /\ UNCHANGED clientVars
      BY <2>1 DEF ServerReceives
    <3>2. CASE StartWrite(p) \/ StartRead(p) \/ sendError(p) \/ WrongAck(p) \/ Ignored(p)
      BY <3>1, <3>2, Stutters
         DEF StartWrite, StartRead, sendError, WrongAck, WaitFailed, Ignored, clientVars
    <3> QED
      BY <3>1, <3>2, WritesBlock, EndsRead DEF ReceivePacket
  <2>2. CASE ServerTimeout
    BY <2>2, Stutters
       DEF ServerTimeout, Timeout, WriteTimeout, AckTimeout, WaitFailed, clientVars
  <2>3. CASE TimePassesAtServer
    BY <2>3, Stutters DEF TimePassesAtServer, TimePasses, clientVars
  <2> QED
    BY <1>1, <2>1, <2>2, <2>3 DEF Server
<1>2. CASE ClientReceives
  <2>1. PICK p \in net :
           /\ ClientReceivesAck(p) \/ ClientReceivesData(p) \/ ClientReceivesRepeated(p)
           /\ UNCHANGED serverVars
    BY <1>2 DEF ClientReceives
  <2>2. CASE ClientReceivesRepeated(p)
    BY <2>1, <2>2, Stutters DEF ClientReceivesRepeated, clientVars, serverVars
  <2> QED
    BY <2>1, <2>2, EndsWrite, ReadsBlock
<1>3. CASE ClientStarts \/ ClientResends \/ ClientGivesUp \/ Lose \/ UNCHANGED vars
  BY <1>3, Stutters
     DEF ClientStarts, ClientResends, ClientGivesUp, Lose, vars, serverVars, clientVars
<1> QED
  BY <1>1, <1>2, <1>3 DEF Next

\* The server and a client carry out FileTransfer (handleWriteRequest(), handleReadRequest()
\* and waitForAck() of TFTPServer.cpp): whatever is lost, repeated or reordered and however
\* often a request is, each block is written, or read, once and in order, and neither side
\* believes that a transfer has ended with the last block when it has not.
THEOREM Implements == ASSUME Short PROVE Spec => CarriesOutTransfer
<1>1. Init => FT!Init
  <2> SUFFICES ASSUME Init PROVE FT!Init
    OBVIOUS
  <2>1. /\ written = [t \in Client |-> <<>>] /\ received = [t \in Client |-> <<>>]
        /\ finished = {} /\ completed = {}
    BY DEF Init, ServerInit
  <2>2. Copy = [t \in Client |-> <<>>]
    BY <2>1 DEF Copy
  <2>3. ReceiverDone = {} /\ SenderDone = {}
    BY <2>1 DEF ReceiverDone, SenderDone
  <2> QED
    BY <2>2, <2>3 DEF FT!Init
<1>2. IInv /\ [Next]_vars => [FT!Next]_abstractVars
  BY StepImplements
<1> QED
  BY <1>1, <1>2, Invariance, PTL DEF Spec, CarriesOutTransfer, FT!Spec, abstractVars

\* The server's block counter and the client's are never more than one block apart, while the
\* client is locked to the port of the server's transfer (the comparisons of the block numbers
\* in handleWriteRequest() and waitForAck()).
THEOREM StayInStep == ASSUME Short PROVE Spec => []InStep
<1>1. Short /\ IInv => InStep
  <2> SUFFICES ASSUME Short, IInv, active, mode # "listen", lock = tid, peer = current
               PROVE  IF Writing
                        THEN /\ mode = "writing" /\ block = Wire(Len(written[peer]) + 1)
                             /\ Len(written[peer]) \in {number - 1, number}
                        ELSE mode = "reading" /\ block \in {number, number + 1}
    BY DEF InStep
  <2>1. peer \in Client /\ ~Abandoned /\ mode \in {"writing", "reading"}
    BY DEF Abandoned, IInv, StateTypes
  <2>2. CASE Writing
    <3>1. mode = "writing" /\ block = Len(written[peer]) + 1
      BY <2>1, <2>2 DEF IInv, ServerOK, Writing
    <3>2. Wire(block) = block
      BY TFTPAssumption, WireFacts DEF IInv, StateTypes, BlockNo, UINT16_MAX
    <3>3. /\ number \in Len(written[peer]) .. Len(written[peer]) + 1 /\ number \in Nat
          /\ Len(written[peer]) \in Nat
      BY <2>1, <2>2, CopyFacts DEF IInv, ClientOK, StateTypes, Writing
    <3>4. Len(written[peer]) \in {number - 1, number}
      BY <3>3
    <3> QED
      BY <2>2, <3>1, <3>2, <3>4
  <2>3. CASE ~Writing
    <3>1. mode = "reading" /\ block \in Nat /\ number <= block
          /\ block <= Len(received[peer]) + 1
      BY <2>1, <2>3, FileFacts DEF IInv, ServerOK, Writing
    <3>2. number = Len(received[peer]) /\ number \in Nat
      BY <2>1, <2>3 DEF IInv, ClientOK, StateTypes, Writing
    <3>3. block \in {number, number + 1}
      BY <3>1, <3>2
    <3> QED
      BY <2>3, <3>1, <3>3
  <2> QED
    BY <2>2, <2>3
<1> QED
  BY <1>1, Invariance, PTL

=============================================================================
