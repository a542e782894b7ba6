----------------------------- MODULE TFTPServer -----------------------------
(***************************************************************************)
(* The TFTP server of src/src/TFTPServer.cpp.                              *)
(*                                                                         *)
(* handleRequest() answers a request with a transfer of its own socket and *)
(* does not return before the transfer has ended: the server is listening, *)
(* or inside handleWriteRequest() or handleReadRequest().  An action       *)
(* receives one packet p (one receivePacket()), or none.  openFile(),      *)
(* readBytes() and writeBytes() are the sketch's.                          *)
(***************************************************************************)
EXTENDS Naturals, Sequences

CONSTANTS
    BlockMod,       \* block numbers are uint16_t: 2^16
    TFTP_RETRIES,   \* repetitions of a DATA packet before the server gives up
    MaxSessions,    \* bound: transfers the server starts
    Client,         \* addresses and ports of clients
    Contents,       \* the file that is read: a sequence of blocks
    Block,          \* what a block may hold
    NoPacket

ASSUME TFTPAssumption ==
    /\ BlockMod \in Nat /\ BlockMod > 2
    /\ TFTP_RETRIES \in Nat /\ MaxSessions \in Nat
    /\ Contents \in Seq(Block) /\ Contents # <<>>

VARIABLES
    mode,       \* the function the server is in
    tid,        \* local port of the transfer's socket
    peer,       \* remote address and port of the transfer's socket
    block,      \* expectedBlock of a write, block of a read
    retries,    \* retries
    overdue,    \* timeout - millis() <= 0
    written,    \* the calls of writeBytes() for each client
    finished,   \* clients a transfer with which ended with its last block
    sent        \* the packet the last step sent, if any

serverVars == <<mode, tid, peer, block, retries, overdue, written, finished, sent>>

UINT16_MAX == BlockMod - 1
ListenPort == 0
DataPort == 1 .. MaxSessions
BlockNo == 0 .. UINT16_MAX

\* Every block but the last of a file has TFTP_BLOCK_SIZE bytes: full
Packet == [to : {"server", "client"}, port : {ListenPort} \cup DataPort,
           peer : Client, op : {"READ", "WRITE", "DATA", "ACK", "ERROR"},
           block : BlockNo, full : BOOLEAN, body : Block \cup {NoPacket}]

Message(port, client, op, number) ==
    [to |-> "client", port |-> port, peer |-> client, op |-> op,
     block |-> number, full |-> FALSE, body |-> NoPacket]

-----------------------------------------------------------------------------
(* Packets and sockets *)

\* UDPSocket::havePacket() of the listening socket, open to any client
ForServer(p) == p.to = "server" /\ p.port = ListenPort

\* ... and of the transfer's socket, bound to the client that made the request
ForTransfer(p) == p.to = "server" /\ p.port = tid /\ p.peer = peer

\* sendAck() on the transfer's socket
sendAck(number) == sent' = Message(tid', peer', "ACK", number)

\* A DATA packet with what readBytes() gives for a block
LastBlock(number) == number = Len(Contents)
SendBlock(number) ==
    sent' = [Message(tid', peer', "DATA", number) EXCEPT
                !.full = ~LastBlock(number), !.body = Contents[number]]

\* The transfer function returns; the socket is gone
Return ==
    /\ mode' = "listen"
    /\ block' = 0 /\ retries' = 0 /\ overdue' = FALSE
    /\ UNCHANGED <<tid, peer>>

-----------------------------------------------------------------------------
(* handleRequest() *)

\* The socket of a transfer takes a random port, here one not used before
OpenSocket(p) ==
    /\ tid < MaxSessions
    /\ tid' = tid + 1
    /\ peer' = p.peer
    /\ overdue' = FALSE

StartWrite(p) ==
    /\ mode = "listen" /\ ForServer(p) /\ p.op = "WRITE"
    /\ OpenSocket(p)
    /\ mode' = "writing" /\ block' = 1 /\ retries' = 0
    /\ sendAck(0)
    /\ UNCHANGED <<written, finished>>

StartRead(p) ==
    /\ mode = "listen" /\ ForServer(p) /\ p.op = "READ"
    /\ OpenSocket(p)
    /\ mode' = "reading" /\ block' = 1 /\ retries' = 0
    /\ SendBlock(1)
    /\ UNCHANGED <<written, finished>>

\* openFile() does not know the file, or the opcode is another one
sendError(p) ==
    /\ mode = "listen" /\ ForServer(p)
    /\ sent' = Message(ListenPort, p.peer, "ERROR", 0)
    /\ UNCHANGED <<mode, tid, peer, block, retries, overdue, written, finished>>

-----------------------------------------------------------------------------
(* handleWriteRequest() *)

\* Faulty variants: past blocks are written as well, or not acknowledged
IsExpected_OrPast(number) == number <= block
Acknowledged_OnlyExpected(number) == number = block

IsExpected(number) == number = block

\* "Acknowledge the current or past blocks": numbers are compared, as uint16_t
Acknowledged(number) == number <= block

WriteData(p) ==
    /\ mode = "writing" /\ ForTransfer(p) /\ p.op = "DATA"
    /\ IF IsExpected(p.block)
         THEN /\ written' = [written EXCEPT ![peer] = Append(@, p.body)]
              /\ \/ /\ p.full
                    /\ block' = (block + 1) % BlockMod /\ overdue' = FALSE
                    /\ UNCHANGED <<mode, tid, peer, retries, finished>>
                 \/ /\ ~p.full
                    /\ finished' = finished \cup {peer}
                    /\ Return
         ELSE UNCHANGED <<mode, tid, peer, block, retries, overdue, written,
                          finished>>
    /\ IF Acknowledged(p.block) THEN sendAck(p.block) ELSE sent' = NoPacket

\* "TFTP: Write Request Timeout"
WriteTimeout ==
    /\ mode = "writing" /\ overdue
    /\ Return
    /\ sent' = NoPacket
    /\ UNCHANGED <<written, finished>>

-----------------------------------------------------------------------------
(* handleReadRequest() and waitForAck() *)

\* Faulty variant: the failures are not counted
Retry_Uncounted == UNCHANGED retries

\* ++retries > TFTP_RETRIES
TooManyRetries == retries + 1 > TFTP_RETRIES
Retry == retries' = retries + 1

\* waitForAck() returned false
WaitFailed ==
    \/ /\ TooManyRetries
       /\ Return
       /\ sent' = NoPacket
       /\ UNCHANGED <<written, finished>>
    \/ /\ ~TooManyRetries
       /\ Retry /\ overdue' = FALSE
       /\ UNCHANGED <<mode, tid, peer, block, written, finished>>
       /\ SendBlock(block)

AckTimeout == mode = "reading" /\ overdue /\ WaitFailed

\* Faulty variant: the number of an ACK is not looked at
IsAck_AnyNumber(p) == ForTransfer(p) /\ p.op = "ACK"

IsAck(p) == ForTransfer(p) /\ p.op = "ACK" /\ p.block = block

WrongAck(p) ==
    /\ mode = "reading" /\ ForTransfer(p) /\ p.op = "ACK" /\ p.block # block
    /\ WaitFailed

ReadAcked(p) ==
    /\ mode = "reading" /\ IsAck(p)
    /\ \/ /\ LastBlock(block)
          /\ finished' = finished \cup {peer}
          /\ Return
          /\ sent' = NoPacket
       \/ /\ ~LastBlock(block) /\ block + 1 < UINT16_MAX
          /\ block' = block + 1 /\ retries' = 0 /\ overdue' = FALSE
          /\ UNCHANGED <<mode, tid, peer, finished>>
          /\ SendBlock(block + 1)
       \/ /\ ~LastBlock(block) /\ block + 1 = UINT16_MAX
          /\ Return
          /\ sent' = NoPacket
          /\ UNCHANGED finished
    /\ UNCHANGED written

-----------------------------------------------------------------------------

\* The packet is for neither socket, or not of the kind waited for
Ignored(p) ==
    /\ \/ mode = "listen" /\ ~ForServer(p)
       \/ mode = "writing" /\ ~(ForTransfer(p) /\ p.op = "DATA")
       \/ mode = "reading" /\ ~(ForTransfer(p) /\ p.op = "ACK")
    /\ sent' = NoPacket
    /\ UNCHANGED <<mode, tid, peer, block, retries, overdue, written, finished>>

ReceivePacket(p) ==
    \/ StartWrite(p)
    \/ StartRead(p)
    \/ sendError(p)
    \/ WriteData(p)
    \/ WrongAck(p)
    \/ ReadAcked(p)
    \/ Ignored(p)

Timeout == WriteTimeout \/ AckTimeout

\* TFTP_DATA_TIMEOUT or TFTP_ACK_TIMEOUT passes
TimePasses ==
    /\ mode # "listen" /\ ~overdue /\ overdue' = TRUE
    /\ sent' = NoPacket
    /\ UNCHANGED <<mode, tid, peer, block, retries, written, finished>>

ServerInit ==
    /\ mode = "listen"
    /\ tid = 0 /\ peer \in Client
    /\ block = 0 /\ retries = 0 /\ overdue = FALSE
    /\ written = [c \in Client |-> <<>>] /\ finished = {}
    /\ sent = NoPacket
=============================================================================
