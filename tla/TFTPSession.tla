---------------------------- MODULE TFTPSession ----------------------------
(***************************************************************************)
(* The TFTP server with a client, over a network that loses, repeats and   *)
(* reorders packets: together they implement FileTransfer.                 *)
(*                                                                         *)
(* The client is code outside the repository (a tftp command): RFC 1350,   *)
(* with its own port for each transfer, locked to the port of the first    *)
(* answer, and not advancing on a repeated acknowledgement.                *)
(***************************************************************************)
EXTENDS TFTPServer, FiniteSets

CONSTANTS
    Writes,         \* the transfers (each is a Client) that write
    Offered,        \* Offered[t]: the file that transfer t writes
    NoTransfer,
    Capacity        \* packets in flight at a time; what exceeds it is lost

ASSUME SessionAssumption ==
    /\ Writes \subseteq Client /\ NoTransfer \notin Client /\ Capacity \in Nat
    /\ Offered \in [Writes -> Seq(Block) \ {<<>>}]

VARIABLES
    net,        \* the packets in flight
    started,    \* the transfers the client has begun, one after the other
    current,    \* the last of them; it is the client's port as well
    active,     \* whether it is still at it
    lock,       \* the server's port it is locked to, ListenPort if none
    number,     \* block last sent (write) or received (read), not reduced
    received,   \* what the client has read in each transfer
    completed   \* transfers the client believes completed

clientVars == <<started, current, active, lock, number, received, completed>>
vars == <<serverVars, net, clientVars>>

\* What transfer t is to copy
Target == [t \in Client |-> IF t \in Writes THEN Offered[t] ELSE Contents]

Wire(n) == n % BlockMod

-----------------------------------------------------------------------------
(* The network *)

Carry(inFlight, packet) ==
    IF packet # NoPacket /\ Cardinality(inFlight \cup {packet}) <= Capacity
      THEN inFlight \cup {packet} ELSE inFlight

\* A packet that is received may stay, to be received again
Taken(p) == {net, net \ {p}}

Lose ==
    /\ \E p \in net : net' = net \ {p}
    /\ UNCHANGED <<serverVars, clientVars>>

ServerReceives ==
    \E p \in net :
        /\ p.to = "server"
        /\ ReceivePacket(p)
        /\ \E rest \in Taken(p) : net' = Carry(rest, sent')
        /\ UNCHANGED clientVars

ServerTimeout ==
    /\ Timeout
    /\ net' = Carry(net, sent')
    /\ UNCHANGED clientVars

TimePassesAtServer == TimePasses /\ UNCHANGED <<net, clientVars>>

-----------------------------------------------------------------------------
(* The client *)

Writing == current \in Writes

\* Its packet for the state it is in
ToServer(op, port, n, full, body) ==
    [to |-> "server", port |-> port, peer |-> current', op |-> op,
     block |-> Wire(n), full |-> full, body |-> body]

Request ==
    ToServer(IF current' \in Writes THEN "WRITE" ELSE "READ", ListenPort, 0,
             FALSE, NoPacket)

DataOrAck(port, n) ==
    IF Writing THEN ToServer("DATA", port, n, n < Len(Offered[current]),
                             Offered[current][n])
               ELSE ToServer("ACK", port, n, FALSE, NoPacket)

ClientStarts ==
    /\ ~active
    /\ current' \in Client \ started /\ started' = started \cup {current'}
    /\ active' = TRUE
    /\ lock' = ListenPort /\ number' = 0
    /\ net' = Carry(net, Request)
    /\ UNCHANGED <<serverVars, received, completed>>

\* Its timer: the last packet is sent again
ClientResends ==
    /\ active
    /\ UNCHANGED clientVars
    /\ net' = Carry(net, IF lock = ListenPort THEN Request
                         ELSE DataOrAck(lock, number))
    /\ UNCHANGED serverVars

ForClient(p) ==
    /\ p.to = "client" /\ active /\ p.peer = current
    /\ lock \in {ListenPort, p.port}

\* The acknowledgement of the last block, or of the request
ClientReceivesAck(p) ==
    /\ ForClient(p) /\ Writing /\ p.op = "ACK" /\ p.block = Wire(number)
    /\ UNCHANGED <<started, current, received>>
    /\ lock' = p.port
    /\ IF number = Len(Offered[current])
         THEN /\ active' = FALSE /\ completed' = completed \cup {current}
              /\ UNCHANGED number
              /\ net' \in Taken(p)
         ELSE /\ number' = number + 1
              /\ UNCHANGED <<active, completed>>
              /\ \E rest \in Taken(p) :
                    net' = Carry(rest, DataOrAck(p.port, number + 1))

ClientReceivesData(p) ==
    /\ ForClient(p) /\ ~Writing /\ p.op = "DATA" /\ p.block = Wire(number + 1)
    /\ lock' = p.port /\ number' = number + 1
    /\ received' = [received EXCEPT ![current] = Append(@, p.body)]
    /\ active' = p.full
    /\ completed' = IF p.full THEN completed ELSE completed \cup {current}
    /\ UNCHANGED <<started, current>>
    /\ \E rest \in Taken(p) : net' = Carry(rest, DataOrAck(p.port, number + 1))

\* A repeated block is acknowledged again, for a while after the last one too
ClientReceivesRepeated(p) ==
    /\ p.to = "client" /\ p.peer = current /\ lock = p.port
    /\ ~Writing /\ p.op = "DATA" /\ p.block = Wire(number)
    /\ UNCHANGED clientVars
    /\ \E rest \in Taken(p) : net' = Carry(rest, DataOrAck(lock, number))

\* An error, or time: the client stops
ClientGivesUp ==
    /\ active /\ active' = FALSE
    /\ UNCHANGED <<serverVars, net, started, current, lock, number, received,
                   completed>>

ClientReceives ==
    \E p \in net :
        /\ \/ ClientReceivesAck(p)
           \/ ClientReceivesData(p)
           \/ ClientReceivesRepeated(p)
        /\ UNCHANGED serverVars

-----------------------------------------------------------------------------

Init ==
    /\ ServerInit
    /\ net = {}
    /\ started = {} /\ current = NoTransfer /\ active = FALSE /\ lock = ListenPort /\ number = 0
    /\ received = [t \in Client |-> <<>>] /\ completed = {}

Server == ServerReceives \/ ServerTimeout \/ TimePassesAtServer

Next ==
    \/ Server
    \/ ClientStarts \/ ClientResends \/ ClientReceives \/ ClientGivesUp
    \/ Lose

Spec == Init /\ [][Next]_vars

\* The server's loops run and the clock advances; nothing is asked of the client
\* or the network
Fairness == WF_vars(ServerTimeout) /\ WF_vars(TimePassesAtServer)

LiveSpec == Spec /\ Fairness

-----------------------------------------------------------------------------
(* Properties *)

\* The refinement mapping: in a write the server receives, in a read the client
Copy == [t \in Client |-> IF t \in Writes THEN written[t] ELSE received[t]]
ReceiverDone == {t \in Client : IF t \in Writes THEN t \in finished ELSE t \in completed}
SenderDone == {t \in Client : IF t \in Writes THEN t \in completed ELSE t \in finished}

FT == INSTANCE FileTransfer WITH
        Transfer <- Client, File <- Target,
        copy <- Copy, receiverDone <- ReceiverDone, senderDone <- SenderDone

\* Both directions implement FileTransfer: writeBytes() is called once for each
\* block, in order, whatever packets and requests are repeated; the server ends
\* a write only with the last block; and whichever side sends believes to be
\* done only when the other one is.
CarriesOutTransfer == FT!Spec

\* Stop and wait: the two ends of a transfer are never more than one block
\* apart, and the server's counter is what it has in fact written, or what the
\* client has in fact read.
InStep ==
    active /\ mode # "listen" /\ lock = tid /\ peer = current =>
        IF Writing THEN /\ mode = "writing" /\ block = Wire(Len(written[peer]) + 1)
                        /\ Len(written[peer]) \in {number - 1, number}
                   ELSE /\ mode = "reading"
                        /\ block \in {number, number + 1}

\* Whatever the client and the network do, handleRequest() returns: no transfer
\* keeps the main loop for ever.
ServerReturns == mode # "listen" ~> mode = "listen"

=============================================================================
