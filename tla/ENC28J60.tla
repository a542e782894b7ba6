------------------------------ MODULE ENC28J60 ------------------------------
(***************************************************************************)
(* The driver of the ENC28J60 (enc28j60.cpp) with the controller.  The     *)
(* controller keeps received frames in a ring, each after the address of   *)
(* the next, its length and its status, and goes on receiving and          *)
(* transmitting between any two commands on the SPI bus.  Its registers    *)
(* are in four banks, chosen by two bits of ECON1, a register that the     *)
(* controller changes as well.                                             *)
(*                                                                         *)
(* A variable with the name of a register is that register.                *)
(***************************************************************************)
EXTENDS Naturals, Sequences

CONSTANTS
    ByteMod,            \* a byte is a number modulo ByteMod (256)
    RX_BUF_END,         \* the receive ring is 0 .. RX_BUF_END
    TX_BUF_START,       \* frames to send are written from here on
    MemoryEnd,          \* the last address of the controller's memory
    BufSize,            \* bufsize of readFrame()
    Incoming,           \* the frames the wire may bring, with their checksums
    Outgoing,           \* the frames the sketch may send
    NoFrame

RX_BUF_START == 0
RingSize == RX_BUF_END - RX_BUF_START + 1

ASSUME ENC28J60Assumption ==
    /\ ByteMod \in Nat /\ ByteMod > 1 /\ BufSize \in Nat
    /\ RX_BUF_END \in Nat /\ RX_BUF_END % 2 = 1
    /\ TX_BUF_START \in Nat /\ MemoryEnd \in Nat
    /\ RX_BUF_END < TX_BUF_START /\ TX_BUF_START < MemoryEnd
    /\ MemoryEnd < ByteMod * ByteMod
    /\ Incoming \cup Outgoing \subseteq Seq(0 .. ByteMod - 1)
    /\ \A f \in Outgoing : TX_BUF_START + Len(f) <= MemoryEnd
    /\ NoFrame \notin Incoming \cup Outgoing

ERXTX_BANK == 0
EPKTCNT_BANK == 1
MACONX_BANK == 2
MAADRX_BANK == 3

VARIABLES
    mem,                \* the memory of the controller
    ECON1,              \* bsel, rxen and txrts
    CLKRDY,             \* the bit of ESTAT
    MACON1, EPKTCNT, ERDPT, ERXWRPT, ETXST, ETXND,
    ERXRDPTL,           \* the byte written last to ERXRDPTL
    ERXRDPT,            \* as the controller knows it, since ERXRDPTH was written
    bank,               \* the driver's copy of ECON1.bsel
    pc,                 \* where the driver is
    econ, new_bank, then,   \* in setregbank(): the value read, the argument, the next step
    next, buffer, len,  \* locals of readFrame()
    pending, got, sending, out      \* history, see FrameFifo

receiver == <<MACON1, EPKTCNT, ERXWRPT, ERXRDPTL, ERXRDPT, pending>>
transmitter == <<ETXST, ETXND, sending, out>>
switching == <<econ, new_bank, then>>
locals == <<next, buffer, len, got>>
vars == <<mem, ECON1, CLKRDY, receiver, ERDPT, transmitter, bank, pc, switching, locals>>

-----------------------------------------------------------------------------
Byte == 0 .. ByteMod - 1
Low(w) == w % ByteMod
High(w) == w \div ByteMod
Word(low, high) == high * ByteMod + low

\* The address n bytes after a in the ring, which begins at 0
After(a, n) == (a + n) % RingSize

\* The room of the ring: the byte at ERXRDPT is never written to
Free == IF ERXWRPT > ERXRDPT THEN RX_BUF_END - (ERXWRPT - ERXRDPT)
        ELSE IF ERXWRPT = ERXRDPT THEN RX_BUF_END
        ELSE ERXRDPT - ERXWRPT - 1

\* What the controller stores a frame as: the next frame is at an even address
Padded(n) == n + (n % 2)
Stored(f) ==
    LET at == After(ERXWRPT, 6 + Padded(Len(f))) IN
    <<Low(at), High(at), Low(Len(f)), High(Len(f)), 0, 0>> \o f

-----------------------------------------------------------------------------
\* The controller (external)

ChipReceives(f) ==
    LET n == 6 + Padded(Len(f))
        at(a) == {i \in 1 .. Len(Stored(f)) : After(ERXWRPT, i - 1) = a}
    IN
    /\ ECON1.rxen /\ "MARXEN" \in MACON1 /\ n <= Free
    /\ mem' = [a \in DOMAIN mem |->
                   IF at(a) = {} THEN mem[a] ELSE Stored(f)[CHOOSE i \in at(a) : TRUE]]
    /\ ERXWRPT' = After(ERXWRPT, n) /\ EPKTCNT' = EPKTCNT + 1
    /\ pending' = Append(pending, f)
    /\ UNCHANGED <<ECON1, CLKRDY, MACON1, ERXRDPTL, ERXRDPT, ERDPT, transmitter, bank, pc,
                   switching, locals>>

\* The frame between ETXST, a control byte, and ETXND leaves, or is given up
ChipTransmits ==
    /\ ECON1.txrts
    /\ ECON1' = [ECON1 EXCEPT !.txrts = FALSE]
    /\ out' = [i \in 1 .. ETXND - ETXST |-> mem[ETXST + i]] /\ sending' = NoFrame
    /\ UNCHANGED <<mem, CLKRDY, receiver, ERDPT, ETXST, ETXND, bank, pc, switching, locals>>

ChipAborts ==
    /\ ECON1.txrts
    /\ ECON1' = [ECON1 EXCEPT !.txrts = FALSE]
    /\ sending' = NoFrame
    /\ UNCHANGED <<mem, CLKRDY, receiver, ERDPT, ETXST, ETXND, out, bank, pc, switching, locals>>

ClockStarts ==
    /\ ~CLKRDY
    /\ CLKRDY' = TRUE
    /\ UNCHANGED <<mem, ECON1, receiver, ERDPT, transmitter, bank, pc, switching, locals>>

-----------------------------------------------------------------------------
\* setregbank(), two commands: ECON1 is read and written as a whole

SetBank(b, at) == pc' = "bankread" /\ new_bank' = b /\ then' = at /\ econ' = econ

BankRead ==
    /\ pc = "bankread"
    /\ econ' = ECON1 /\ pc' = "bankwrite"
    /\ UNCHANGED <<mem, ECON1, CLKRDY, receiver, ERDPT, transmitter, bank, new_bank, then, locals>>

BankWrite ==
    /\ pc = "bankwrite"
    /\ ECON1' = [econ EXCEPT !.bsel = new_bank]
    /\ bank' = new_bank /\ pc' = then
    /\ UNCHANGED <<mem, CLKRDY, receiver, ERDPT, transmitter, switching, locals>>

\* MAC and MII registers need a dummy read, and take no bit field commands
is_mac_mii_reg(reg) ==
    \/ bank = MACONX_BANK /\ reg \notin {"EIE", "EIR", "ESTAT", "ECON2", "ECON1"}
    \/ bank = MAADRX_BANK /\ reg \in {"MAADR1", "MAADR2", "MAADR3", "MAADR4", "MAADR5", "MAADR6",
                                      "MISTAT"}

\* What a bit field of MACON1 becomes: read, changed and written, or, as a bit field command, lost
SetMacBits(reg, bits) == IF is_mac_mii_reg(reg) THEN MACON1 \cup bits ELSE MACON1

-----------------------------------------------------------------------------
\* begin(): by setup(), also at any time after the watchdog has fired; softreset() is a command
\* that resets the controller

begin ==
    /\ ECON1' = [bsel |-> 0, rxen |-> FALSE, txrts |-> FALSE] /\ CLKRDY' = FALSE
    /\ MACON1' = {} /\ EPKTCNT' = 0 /\ ERXWRPT' = 0 /\ ERXRDPTL' = 0 /\ ERXRDPT' = 0
    /\ mem' = [a \in 0 .. MemoryEnd |-> 0]
    /\ ERDPT' = 0 /\ ETXST' = 0 /\ ETXND' = 0
    /\ bank' = ERXTX_BANK /\ pc' = "clock"
    /\ econ' = ECON1' /\ new_bank' = 0 /\ then' = "clock"
    /\ next' = 0 /\ buffer' = <<>> /\ len' = 0 /\ got' = NoFrame
    /\ pending' = <<>> /\ sending' = NoFrame /\ out' = out

\* The rest of reset(): the wait for the oscillator,
AwaitClock ==
    /\ pc = "clock" /\ CLKRDY
    /\ SetBank(ERXTX_BANK, "rxbuffer")
    /\ UNCHANGED <<mem, ECON1, CLKRDY, receiver, ERDPT, transmitter, bank, locals>>

\* ERXST (which sets ERXWRPT), ERXND, ERDPT and ERXRDPT,
SetUpBuffer ==
    /\ pc = "rxbuffer"
    /\ ERXWRPT' = RX_BUF_START /\ ERDPT' = RX_BUF_START
    /\ ERXRDPTL' = Low(RX_BUF_END) /\ ERXRDPT' = RX_BUF_END
    /\ SetBank(EPKTCNT_BANK, "filter")
    /\ UNCHANGED <<mem, ECON1, CLKRDY, MACON1, EPKTCNT, pending, transmitter, bank, locals>>

\* the filter,
SetUpFilter ==
    /\ pc = "filter"
    /\ SetBank(MACONX_BANK, "mac")
    /\ UNCHANGED <<mem, ECON1, CLKRDY, receiver, ERDPT, transmitter, bank, locals>>

\* the MAC,
SetUpMac ==
    /\ pc = "mac"
    /\ MACON1' = SetMacBits("MACON1", {"MARXEN", "TXPAUS", "RXPAUS"})
    /\ SetBank(MAADRX_BANK, "address")
    /\ UNCHANGED <<mem, ECON1, CLKRDY, EPKTCNT, ERXWRPT, ERXRDPTL, ERXRDPT, pending, ERDPT,
                   transmitter, bank, locals>>

\* its address, autoincrement, and reception, which sets bsel to 0 and leaves bank alone
StartReception ==
    /\ pc = "address"
    /\ ECON1' = [bsel |-> 0, rxen |-> TRUE, txrts |-> FALSE]
    /\ pc' = "idle"
    /\ UNCHANGED <<mem, CLKRDY, receiver, ERDPT, transmitter, bank, switching, locals>>

-----------------------------------------------------------------------------
\* readFrame()

readFrame ==
    /\ pc = "idle"
    /\ SetBank(EPKTCNT_BANK, "count")
    /\ UNCHANGED <<mem, ECON1, CLKRDY, receiver, ERDPT, transmitter, bank, locals>>

ReadCount_NoBank ==
    /\ pc = "count" /\ EPKTCNT > 0
    /\ pc' = "header"
    /\ UNCHANGED <<mem, ECON1, CLKRDY, receiver, ERDPT, transmitter, bank, switching, locals>>

ReadCount ==
    /\ pc = "count" /\ EPKTCNT > 0
    /\ SetBank(ERXTX_BANK, "header")
    /\ UNCHANGED <<mem, ECON1, CLKRDY, receiver, ERDPT, transmitter, bank, locals>>

ReadNothing ==
    /\ pc = "count" /\ EPKTCNT = 0
    /\ got' = NoFrame /\ pc' = "idle"
    /\ UNCHANGED <<mem, ECON1, CLKRDY, receiver, ERDPT, transmitter, bank, switching, next, buffer,
                   len>>

\* readdata() of n bytes
Data(n) == [i \in 1 .. n |-> mem[After(ERDPT, i - 1)]]

ReadHeader ==
    /\ pc = "header"
    /\ next' = Word(Data(6)[1], Data(6)[2]) /\ len' = Word(Data(6)[3], Data(6)[4])
    /\ ERDPT' = After(ERDPT, 6) /\ pc' = "frame"
    /\ UNCHANGED <<mem, ECON1, CLKRDY, receiver, transmitter, bank, switching, buffer, got>>

\* The bytes of a frame that are read: one more at odd lengths
BytesRead_Exactly(n) == n
BytesRead(n) == IF n % 2 # 0 THEN n + 1 ELSE n

\* A frame that is too large is read as well, and dropped
ReadBytes ==
    /\ pc = "frame"
    /\ buffer' = IF BufSize >= len THEN Data(len) ELSE <<>>
    /\ ERDPT' = After(ERDPT, BytesRead(len)) /\ pc' = "freelow"
    /\ UNCHANGED <<mem, ECON1, CLKRDY, receiver, transmitter, bank, switching, next, len, got>>

\* Errata 14: ERXRDPT is to be odd
Freed_Next(n) == n
Freed(n) == IF n = RX_BUF_START THEN RX_BUF_END ELSE n - 1

FreeLow ==
    /\ pc = "freelow"
    /\ next' = Freed(next) /\ ERXRDPTL' = Low(Freed(next)) /\ pc' = "freehigh"
    /\ UNCHANGED <<mem, ECON1, CLKRDY, MACON1, EPKTCNT, ERXWRPT, ERXRDPT, pending, ERDPT,
                   transmitter, bank, switching, buffer, len, got>>

\* With ERXRDPTH the controller takes over the pointer; freed bytes no longer count
FreeHigh ==
    LET freed == {a \in 0 .. RX_BUF_END : \/ ERXRDPT < a /\ a <= ERXRDPT'
                                          \/ ERXRDPT' < ERXRDPT /\ (a <= ERXRDPT' \/ ERXRDPT < a)}
    IN
    /\ pc = "freehigh"
    /\ ERXRDPT' = Word(ERXRDPTL, High(next)) /\ pc' = "decrement"
    /\ mem' = [a \in DOMAIN mem |-> IF a \in freed THEN 0 ELSE mem[a]]
    /\ UNCHANGED <<ECON1, CLKRDY, MACON1, EPKTCNT, ERXWRPT, ERXRDPTL, pending, ERDPT, transmitter,
                   bank, switching, locals>>

\* PKTDEC, and readFrame() returns
Decrement ==
    /\ pc = "decrement"
    /\ EPKTCNT' = EPKTCNT - 1 /\ pending' = Tail(pending)
    /\ got' = IF BufSize >= len THEN buffer ELSE NoFrame
    /\ pc' = "idle" /\ buffer' = <<>> /\ len' = 0 /\ next' = 0
    /\ UNCHANGED <<mem, ECON1, CLKRDY, MACON1, ERXWRPT, ERXRDPTL, ERXRDPT, ERDPT, transmitter,
                   bank, switching>>

-----------------------------------------------------------------------------
\* sendFrame()

sendFrame(f) ==
    /\ pc = "idle"
    /\ SetBank(ERXTX_BANK, "write") /\ sending' = f
    /\ UNCHANGED <<mem, ECON1, CLKRDY, receiver, ERDPT, ETXST, ETXND, out, bank, locals>>

\* ETXST, EWRPT, the control byte and the data, and ETXND
WriteFrame ==
    /\ pc = "write"
    /\ mem' = [a \in DOMAIN mem |->
                   IF a \in TX_BUF_START + 1 .. TX_BUF_START + Len(sending)
                   THEN sending[a - TX_BUF_START]
                   ELSE IF a = TX_BUF_START THEN 0 ELSE mem[a]]
    /\ ETXST' = TX_BUF_START /\ ETXND' = TX_BUF_START + Len(sending)
    /\ pc' = "transmit"
    /\ UNCHANGED <<ECON1, CLKRDY, receiver, ERDPT, sending, out, bank, switching, locals>>

StartTransmission_NoWait ==
    /\ pc = "transmit"
    /\ ECON1' = [ECON1 EXCEPT !.txrts = TRUE] /\ pc' = "idle"
    /\ UNCHANGED <<mem, CLKRDY, receiver, ERDPT, transmitter, bank, switching, locals>>

StartTransmission ==
    /\ pc = "transmit"
    /\ ECON1' = [ECON1 EXCEPT !.txrts = TRUE] /\ pc' = "wait"
    /\ UNCHANGED <<mem, CLKRDY, receiver, ERDPT, transmitter, bank, switching, locals>>

AwaitTransmission ==
    /\ pc = "wait" /\ ~ECON1.txrts
    /\ pc' = "idle"
    /\ UNCHANGED <<mem, ECON1, CLKRDY, receiver, ERDPT, transmitter, bank, switching, locals>>

-----------------------------------------------------------------------------
Init ==
    /\ mem = [a \in 0 .. MemoryEnd |-> 0]
    /\ ECON1 = [bsel |-> 0, rxen |-> FALSE, txrts |-> FALSE] /\ CLKRDY = FALSE
    /\ MACON1 = {} /\ EPKTCNT = 0 /\ ERXWRPT = 0 /\ ERXRDPTL = 0 /\ ERXRDPT = 0
    /\ ERDPT = 0 /\ ETXST = 0 /\ ETXND = 0
    /\ bank = ERXTX_BANK /\ pc = "clock"
    /\ econ = ECON1 /\ new_bank = 0 /\ then = "clock"
    /\ next = 0 /\ buffer = <<>> /\ len = 0 /\ got = NoFrame
    /\ pending = <<>> /\ sending = NoFrame /\ out = NoFrame

Chip == ClockStarts \/ ChipTransmits \/ ChipAborts

Step ==
    \/ BankRead \/ BankWrite
    \/ AwaitClock \/ SetUpBuffer \/ SetUpFilter \/ SetUpMac \/ StartReception
    \/ ReadCount \/ ReadNothing \/ ReadHeader \/ ReadBytes \/ FreeLow \/ FreeHigh \/ Decrement
    \/ WriteFrame \/ StartTransmission \/ AwaitTransmission

Call == begin \/ readFrame \/ \E f \in Outgoing : sendFrame(f)

Next == Chip \/ (\E f \in Incoming : ChipReceives(f)) \/ Step \/ Call

Spec == Init /\ [][Next]_vars

-----------------------------------------------------------------------------
Fifo == INSTANCE FrameFifo WITH Frame <- Incoming \cup Outgoing

\* Frames come out of the receive ring whole, in order and once, also odd ones, ones that wrap
\* and ones that are too large; each frame given to sendFrame() is transmitted at most once
\* (readFrame(), sendFrame(), with a watchdog restart at any point).
FramesIntact == Fifo!Spec

\* setregbank() writes back the bits of ECON1 that the controller changes as they are: it never
\* starts a transmission again or stops reception.
EconKept == pc = "bankwrite" => econ = ECON1

\* Each access to a register of a bank finds the controller and is_mac_mii_reg() in that bank.
BankOf(at) ==
    IF at \in {"rxbuffer", "freelow", "freehigh", "write"} THEN ERXTX_BANK
    ELSE IF at \in {"filter", "count"} THEN EPKTCNT_BANK
    ELSE IF at = "mac" THEN MACONX_BANK ELSE MAADRX_BANK

BanksAgree ==
    pc \in {"rxbuffer", "freelow", "freehigh", "write", "filter", "count", "mac", "address"} =>
        ECON1.bsel = BankOf(pc) /\ bank = BankOf(pc)

\* While frames may arrive, ERXRDPT is odd, as errata 14 demands, and ERXWRPT even.
PointersAreRight == ECON1.rxen => ERXRDPT % 2 = 1 /\ ERXWRPT % 2 = 0 /\ ERDPT % 2 = 0
=============================================================================
