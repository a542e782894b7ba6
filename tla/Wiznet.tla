------------------------------- MODULE Wiznet -------------------------------
(***************************************************************************)
(* The drivers of the W5100 and the W5500 (w5100.cpp, w5500.cpp) with the  *)
(* controller, whose socket 0 is in MACRAW mode.  The controller keeps     *)
(* received frames in a ring, each after a length of two bytes that counts *)
(* itself, and takes frames to send from another one.  The drivers have    *)
(* the same text but for the ends of the rings: the W5500 wraps a pointer  *)
(* itself, the W5100 is addressed in two parts.  The controller goes on    *)
(* while the driver reads its registers, one byte at a time.               *)
(*                                                                         *)
(* A variable with the name of a register is that register.                *)
(***************************************************************************)
EXTENDS Naturals, Sequences

CONSTANTS
    Chips,          \* the controllers checked, of "W5100" and "W5500"
    ByteMod,        \* a byte is a number modulo ByteMod (256)
    PtrMod,         \* pointers and sizes are modulo PtrMod (2^16)
    BufferLength,   \* RxBufferLength and TxBufferLength, a divisor of PtrMod
    BufSize,        \* bufsize of readFrame()
    Incoming,       \* the frames the wire may bring
    Outgoing,       \* the frames the sketch may send
    NoFrame

ASSUME WiznetAssumption ==
    /\ Chips \subseteq {"W5100", "W5500"}
    /\ ByteMod \in Nat \ {0, 1} /\ BufSize \in Nat
    /\ BufferLength \in Nat \ {0} /\ PtrMod \in Nat \ {0}
    /\ PtrMod > BufferLength /\ PtrMod % BufferLength = 0 /\ PtrMod = ByteMod * ByteMod
    /\ Incoming \cup Outgoing \subseteq Seq(0 .. ByteMod - 1) \ {<<>>}
    /\ \A f \in Outgoing : Len(f) <= BufferLength
    /\ NoFrame \notin Incoming \cup Outgoing

VARIABLES
    chip,           \* which controller it is
    first,          \* the byte of a word that is read first during a call
    mem,            \* its memory: the transmit buffer, then the receive buffer
    RX_WR, RX_RD, TX_WR, TX_RD, CR, IR, SR,
    freed,          \* RX_RD as of the last RECV command
    queued,         \* TX_WR as of the last SEND command
    pc, after,      \* where the driver is, and where it goes after a command
    val, val1,      \* locals of getSn_RX_RSR() and getSn_TX_FSR()
    half,           \* the byte read of a word of which the other is not
    data,           \* the bytes read by wizchip_recv_data()
    pending, got, sending, out,     \* history, see FrameFifo
    seen            \* history: the values of the size register during its reading

ring == <<mem, RX_WR, RX_RD, freed, pending>>
transmitter == <<TX_WR, TX_RD, queued, sending, out>>
socket == <<CR, IR, SR>>
size == <<first, val, val1, seen>>
locals == <<size, half, data>>
vars == <<chip, ring, transmitter, socket, pc, after, locals, got>>

-----------------------------------------------------------------------------
\* Registers and memory

Byte == 0 .. ByteMod - 1
Plus(ptr, n) == (ptr + n) % PtrMod
RX_RSR == Plus(RX_WR, PtrMod - freed)
TX_FSR == BufferLength - Plus(queued, PtrMod - TX_RD)
High(w) == w \div ByteMod
Low(w) == w % ByteMod

TxBufferAddress == 0
RxBufferAddress == BufferLength
Memory == [a \in 0 .. 2 * BufferLength - 1 |-> 0]

AddressByDriver_NoWrap(base, ptr, len, i) == base + (ptr % BufferLength) + i - 1

\* Where byte i of a block of len bytes at ptr is looked for: by the W5100's driver,
AddressByDriver(base, ptr, len, i) ==
    LET mask == ptr % BufferLength IN
    IF mask + len > BufferLength /\ i > BufferLength - mask
    THEN base + i - (BufferLength - mask) - 1
    ELSE base + mask + i - 1

\* and by a controller
AddressByChip(base, ptr, i) == base + ((ptr + i - 1) % BufferLength)

AddressOf(base, ptr, len, i) ==
    IF chip = "W5100" THEN AddressByDriver(base, ptr, len, i)
                      ELSE AddressByChip(base, ptr, i)

ByteAt(a) == IF a \in DOMAIN mem THEN mem[a] ELSE 0

\* wizchip_read_buf and wizchip_write_buf at a pointer
ReadBuf(base, ptr, len) == [i \in 1 .. len |-> ByteAt(AddressOf(base, ptr, len, i))]

WriteBuf(base, ptr, bytes) ==
    LET at == {AddressOf(base, ptr, Len(bytes), i) : i \in 1 .. Len(bytes)} IN
    [a \in DOMAIN mem |->
        IF a \in at
        THEN bytes[CHOOSE i \in 1 .. Len(bytes) : AddressOf(base, ptr, Len(bytes), i) = a]
        ELSE mem[a]]

-----------------------------------------------------------------------------
\* The controller (external)

\* A frame from the wire, dropped when there is no room
ChipReceives(f) ==
    LET n == Len(f) + 2
        bytes == <<High(n), Low(n)>> \o f
        at(a) == {i \in 1 .. n : AddressByChip(RxBufferAddress, RX_WR, i) = a}
    IN
    /\ SR = "MACRAW" /\ RX_RSR + n <= BufferLength
    /\ mem' = [a \in DOMAIN mem |-> IF at(a) = {} THEN mem[a] ELSE bytes[CHOOSE i \in at(a) : TRUE]]
    /\ RX_WR' = Plus(RX_WR, n)
    /\ pending' = Append(pending, f)
    /\ seen' = IF pc \in {"rsr1", "rsr2"} THEN seen \cup {RX_RSR + n} ELSE seen
    /\ UNCHANGED <<chip, RX_RD, freed, transmitter, socket, pc, after, first, val, val1, half, data,
                   got>>

ChipOpens ==
    /\ CR = "OPEN"
    /\ CR' = "none" /\ SR' \in {"MACRAW", "CLOSED"}
    /\ UNCHANGED <<chip, ring, transmitter, IR, pc, after, locals, got>>

ChipCloses ==
    /\ CR = "CLOSE"
    /\ CR' = "none" /\ SR' = "CLOSED"
    /\ UNCHANGED <<chip, ring, transmitter, IR, pc, after, locals, got>>

\* The len bytes at ptr no longer count: read, they would be zeroes
Wipe(base, ptr, len) ==
    LET at == {AddressByChip(base, ptr, i) : i \in 1 .. len} IN
    [a \in DOMAIN mem |-> IF a \in at THEN 0 ELSE mem[a]]

\* RECV: what is before RX_RD may be overwritten
ChipFrees ==
    /\ CR = "RECV"
    /\ CR' = "none" /\ freed' = RX_RD
    /\ mem' = Wipe(RxBufferAddress, freed, Plus(RX_RD, PtrMod - freed))
    /\ UNCHANGED <<chip, RX_WR, RX_RD, pending, transmitter, IR, SR, pc, after, locals, got>>

\* SEND: what is between TX_RD and TX_WR is to be transmitted
ChipQueues ==
    /\ CR = "SEND"
    /\ CR' = "none" /\ queued' = TX_WR
    /\ UNCHANGED <<chip, ring, TX_WR, TX_RD, sending, out, IR, SR, pc, after, locals, got>>

ChipTransmits ==
    /\ TX_RD # queued
    /\ out' = [i \in 1 .. Plus(queued, PtrMod - TX_RD) |->
                   mem[AddressByChip(TxBufferAddress, TX_RD, i)]]
    /\ mem' = Wipe(TxBufferAddress, TX_RD, Plus(queued, PtrMod - TX_RD))
    /\ TX_RD' = queued /\ IR' = IR \cup {"SENDOK"} /\ sending' = NoFrame
    /\ UNCHANGED <<chip, RX_WR, RX_RD, freed, pending, TX_WR, queued, CR, SR, pc, after, locals, got>>

ChipTimesOut ==
    /\ TX_RD # queued
    /\ mem' = Wipe(TxBufferAddress, TX_RD, Plus(queued, PtrMod - TX_RD))
    /\ TX_RD' = queued /\ IR' = IR \cup {"TIMEOUT"} /\ sending' = NoFrame
    /\ UNCHANGED <<chip, RX_WR, RX_RD, freed, pending, TX_WR, queued, out, CR, SR, pc, after, locals, got>>

-----------------------------------------------------------------------------
\* setSn_CR(): write the command and wait until it is taken

Command(cr, next) == CR' = cr /\ pc' = "command" /\ after' = next

CommandTaken ==
    /\ pc = "command" /\ CR = "none"
    /\ pc' = after /\ after' = "idle"
    /\ UNCHANGED <<chip, ring, transmitter, socket, locals, got>>

\* begin(), by setup() and, after the watchdog has fired, at any time: the reset of the
\* controller, the sizes, the MAC address and the mode, then OPEN
Begun ==
    /\ SR' = "CLOSED" /\ IR' = {}
    /\ mem' = Memory /\ RX_WR' = 0 /\ RX_RD' = 0 /\ freed' = 0
    /\ TX_WR' = 0 /\ TX_RD' = 0 /\ queued' = 0
    /\ pending' = <<>> /\ sending' = NoFrame
    /\ got' = NoFrame /\ half' = <<>> /\ data' = <<>>
    /\ first' = "high" /\ val' = 0 /\ val1' = 0 /\ seen' = {}

begin ==
    /\ Begun
    /\ Command("OPEN", "opened")
    /\ UNCHANGED <<chip, out>>

\* The result of begin() is for the sketch only, which goes on when it is false
beginReturns ==
    /\ pc = "opened"
    /\ pc' = "idle"
    /\ UNCHANGED <<chip, ring, transmitter, socket, after, locals, got>>

end ==
    /\ pc = "idle"
    /\ Command("CLOSE", "closing")
    /\ UNCHANGED <<chip, ring, transmitter, IR, SR, locals, got>>

\* setSn_IR(0xFF), and the wait for SOCK_CLOSED
endReturns ==
    /\ pc = "closing" /\ SR = "CLOSED"
    /\ IR' = {} /\ pc' = "idle"
    /\ UNCHANGED <<chip, ring, transmitter, CR, SR, after, locals, got>>

-----------------------------------------------------------------------------
\* getSn_RX_RSR() and getSn_TX_FSR(): words are read until two readings agree

Size(at) == IF at \in {"rsr1", "rsr2"} THEN RX_RSR ELSE TX_FSR

\* C++ leaves to the compiler which of the two bytes of a word is read first, here anew for
\* each call
NewSize(n) == first' \in {"high", "low"} /\ val' = 0 /\ val1' = 0 /\ seen' = {n}

ReadByte ==
    /\ pc \in {"rsr1", "rsr2", "fsr1", "fsr2"} /\ half = <<>>
    /\ half' = <<IF first = "high" THEN High(Size(pc)) ELSE Low(Size(pc))>>
    /\ UNCHANGED <<chip, ring, transmitter, socket, pc, after, size, data, got>>

Word == IF first = "high" THEN half[1] * ByteMod + Low(Size(pc))
                          ELSE High(Size(pc)) * ByteMod + half[1]

SizeRead == pc \in {"rsr1", "rsr2", "fsr1", "fsr2"} /\ half # <<>>

\* The first reading of the loop: 0 ends it when val is 0, and begins it anew otherwise
FirstReading == IF Word # 0 \/ val # 0 THEN "again" ELSE "done"
SecondReading_Any == "done"
SecondReading == IF Word = val1 THEN "done" ELSE "again"

\* The locals of the call go out of scope
Forgotten == first' = "high" /\ val' = 0 /\ val1' = 0 /\ seen' = {}

\* getSn_RX_RSR(): when it is 0, readFrame() returns 0
FirstSize ==
    /\ pc = "rsr1" /\ SizeRead
    /\ half' = <<>>
    /\ \/ /\ FirstReading = "done"
          /\ pc' = "idle" /\ got' = NoFrame /\ Forgotten
       \/ /\ FirstReading = "again"
          /\ pc' = IF Word = 0 THEN "rsr1" ELSE "rsr2"
          /\ val1' = Word /\ UNCHANGED <<first, val, seen, got>>
    /\ UNCHANGED <<chip, ring, transmitter, socket, after, data>>

SecondSize ==
    /\ pc = "rsr2" /\ SizeRead
    /\ half' = <<>> /\ val' = Word
    /\ pc' = IF SecondReading = "done" THEN "head" ELSE "rsr1"
    /\ UNCHANGED <<chip, ring, transmitter, socket, after, first, val1, data, seen, got>>

\* getSn_TX_FSR(): its result is for the test for a closed socket, and for room.  Two readings
\* always agree here, because nothing is transmitted by the time of a call
FreeSizeAgain ==
    /\ pc \in {"fsr1", "fsr2"} /\ SizeRead /\ half' = <<>>
    /\ IF pc = "fsr1" THEN FirstReading = "again" /\ val1' = Word /\ val' = val
                      ELSE SecondReading = "again" /\ val' = Word /\ val1' = val1
    /\ pc' = IF pc = "fsr1" /\ Word # 0 THEN "fsr2" ELSE "fsr1"
    /\ UNCHANGED <<chip, ring, transmitter, socket, after, first, data, seen, got>>

FreeSize ==
    /\ \/ pc = "fsr1" /\ SizeRead /\ FirstReading = "done"
       \/ pc = "fsr2" /\ SizeRead /\ SecondReading = "done"
    /\ half' = <<>>
    /\ \/ /\ SR = "CLOSED"
          /\ pc' = "idle" /\ sending' = NoFrame /\ Forgotten
       \/ /\ SR # "CLOSED" /\ Len(sending) <= Word
          /\ pc' = "write" /\ val' = Word /\ UNCHANGED <<first, val1, seen, sending>>
       \/ /\ SR # "CLOSED" /\ Len(sending) > Word
          /\ pc' = "fsr1" /\ NewSize(TX_FSR) /\ UNCHANGED sending
    /\ UNCHANGED <<chip, ring, TX_WR, TX_RD, queued, out, socket, after, data, got>>

-----------------------------------------------------------------------------
\* readFrame()

readFrame ==
    /\ pc = "idle"
    /\ pc' = "rsr1" /\ NewSize(RX_RSR) /\ got' = NoFrame
    /\ UNCHANGED <<chip, ring, transmitter, socket, after, half, data>>

DataLen(head) == (head[1] * ByteMod + head[2] + PtrMod - 2) % PtrMod

\* wizchip_recv_data() of the header, and RECV
ReadHeader ==
    /\ pc = "head"
    /\ data' = ReadBuf(RxBufferAddress, RX_RD, 2)
    /\ RX_RD' = Plus(RX_RD, 2)
    /\ Command("RECV", IF DataLen(data') > BufSize THEN "ignore" ELSE "data")
    /\ Forgotten
    /\ UNCHANGED <<chip, mem, RX_WR, freed, pending, transmitter, IR, SR, half, got>>

\* wizchip_recv_data() of the frame, and RECV
ReadData ==
    /\ pc = "data"
    /\ data' = ReadBuf(RxBufferAddress, RX_RD, DataLen(data))
    /\ RX_RD' = Plus(RX_RD, DataLen(data))
    /\ Command("RECV", "deliver")
    /\ UNCHANGED <<chip, mem, RX_WR, freed, pending, transmitter, IR, SR, size, half, got>>

\* wizchip_recv_ignore() of the frame, and RECV
IgnoreData ==
    /\ pc = "ignore"
    /\ RX_RD' = Plus(RX_RD, DataLen(data)) /\ data' = <<>>
    /\ Command("RECV", "discard")
    /\ UNCHANGED <<chip, mem, RX_WR, freed, pending, transmitter, IR, SR, size, half, got>>

readFrameReturns ==
    /\ pc \in {"deliver", "discard"}
    /\ got' = IF pc = "deliver" THEN data ELSE NoFrame
    /\ pending' = IF pending = <<>> THEN <<>> ELSE Tail(pending)
    /\ pc' = "idle" /\ data' = <<>>
    /\ UNCHANGED <<chip, mem, RX_WR, RX_RD, freed, transmitter, socket, after, size, half>>

-----------------------------------------------------------------------------
\* sendFrame()

sendFrame(f) ==
    /\ pc = "idle"
    /\ sending' = f /\ pc' = "fsr1" /\ NewSize(TX_FSR) /\ got' = NoFrame
    /\ UNCHANGED <<chip, ring, TX_WR, TX_RD, queued, out, socket, after, half, data>>

\* wizchip_send_data(), and SEND
WriteData ==
    /\ pc = "write"
    /\ mem' = WriteBuf(TxBufferAddress, TX_WR, sending)
    /\ TX_WR' = Plus(TX_WR, Len(sending))
    /\ Command("SEND", "sent")
    /\ Forgotten
    /\ UNCHANGED <<chip, RX_WR, RX_RD, freed, pending, TX_RD, queued, sending, out, IR, SR, half,
                   data, got>>

\* The wait for SENDOK or TIMEOUT, each of which is reset
FinalFlags_OnlyOk(ir) == ir \cap {"SENDOK"}
FinalFlags(ir) == IF "SENDOK" \in ir THEN {"SENDOK"} ELSE ir

sendFrameReturns ==
    /\ pc = "sent" /\ FinalFlags(IR) # {}
    /\ IR' = IR \ FinalFlags(IR)
    /\ pc' = "idle"
    /\ UNCHANGED <<chip, ring, transmitter, CR, SR, after, locals, got>>

-----------------------------------------------------------------------------
Init ==
    /\ chip \in Chips
    /\ mem = Memory
    /\ RX_WR = 0 /\ RX_RD = 0 /\ freed = 0 /\ TX_WR = 0 /\ TX_RD = 0 /\ queued = 0
    /\ CR = "OPEN" /\ IR = {} /\ SR = "CLOSED"
    /\ pc = "command" /\ after = "opened"
    /\ first = "high" /\ val = 0 /\ val1 = 0 /\ half = <<>> /\ data = <<>> /\ seen = {}
    /\ pending = <<>> /\ got = NoFrame /\ sending = NoFrame /\ out = NoFrame

Chip ==
    \/ ChipOpens \/ ChipCloses \/ ChipFrees \/ ChipQueues
    \/ ChipTransmits \/ ChipTimesOut

\* The rest of a call that has begun
Step ==
    \/ CommandTaken \/ beginReturns \/ endReturns
    \/ ReadByte \/ FirstSize \/ SecondSize
    \/ FreeSizeAgain \/ FreeSize
    \/ ReadHeader \/ ReadData \/ IgnoreData \/ readFrameReturns
    \/ WriteData \/ sendFrameReturns

Call == readFrame \/ (\E f \in Outgoing : sendFrame(f)) \/ end \/ begin

Next == Chip \/ (\E f \in Incoming : ChipReceives(f)) \/ Step \/ Call

\* The controller takes commands and transmits, and the processor runs.  Nothing is
\* assumed of the wire or of the sketch's calls.
Spec == Init /\ [][Next]_vars /\ WF_vars(Chip) /\ WF_vars(Step)

-----------------------------------------------------------------------------
Fifo == INSTANCE FrameFifo WITH Frame <- Incoming \cup Outgoing

\* Frames come out whole, in order and once, however they lie in the ring, and what is
\* transmitted is what sendFrame() was given (readFrame(), sendFrame(), wizchip_recv_data(),
\* wizchip_send_data(), with a watchdog restart at any point).
FramesIntact == Fifo!Spec

\* The size that getSn_RX_RSR() or getSn_TX_FSR() returns is one that the register had during
\* the call, although its bytes are read one by one while the controller adds frames.
SizeIsReal == pc \in {"head", "write"} => val \in seen

\* Every call of begin(), end(), readFrame() and sendFrame() returns, unless the board is
\* restarted again and again.
CallsReturn == []<>(pc = "idle") \/ []<><<begin>>_vars
=============================================================================
