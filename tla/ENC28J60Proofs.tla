--------------------------- MODULE ENC28J60Proofs ---------------------------
(***************************************************************************)
(* Theorems about ENC28J60, for every size of the ring and of the memory   *)
(* and any frames: the register that the driver writes back has not        *)
(* changed meanwhile, each register access is to the bank that the driver  *)
(* takes it to be in, and the driver and the controller together are the   *)
(* queue of FrameFifo.                                                     *)
(*                                                                         *)
(* The argument for the ring: positions are counted over two turns of it.  *)
(* There is a list of positions, from the byte after ERXRDPT to ERXWRPT,   *)
(* at which the frames that have not been freed lie whole (FramesLie); the *)
(* controller writes behind the last of them only, because it leaves the   *)
(* byte at ERXRDPT alone, readFrame() is at a known place of the first     *)
(* (ReaderRight), and a frame to send is outside the ring (SenderRight).   *)
(***************************************************************************)
EXTENDS ENC28J60, TLAPS

-----------------------------------------------------------------------------
(* Registers: the inductive invariant *)

\* The places that rely on a bank: those of BanksAgree, and those that come
\* between the selection of a bank and its last use
Relying ==
    {"rxbuffer", "freelow", "freehigh", "write", "filter", "count", "mac", "address",
     "header", "frame"}

BankFor(at) == IF at \in {"header", "frame"} THEN ERXTX_BANK ELSE BankOf(at)

Bits == [bsel : Nat, rxen : BOOLEAN, txrts : BOOLEAN]

BitsOK == ECON1 \in Bits /\ econ \in Bits

\* sendFrame() does not return while the controller may still clear TXRTS
TransmitsInWait == ECON1.txrts => pc = "wait"

\* setregbank() is on its way to a place that relies on what it selects
SwitchesRight == pc \in {"bankread", "bankwrite"} => then \in Relying /\ new_bank = BankFor(then)

BanksHold == pc \in Relying => ECON1.bsel = BankFor(pc) /\ bank = BankFor(pc)

IInv == BitsOK /\ TransmitsInWait /\ EconKept /\ SwitchesRight /\ BanksHold

\* What the invariant is about
watched == <<ECON1, pc, bank, switching>>

-----------------------------------------------------------------------------
\* After reset, begin() has ECON1 and the driver's copy agree.
LEMMA InitInv == Init => IInv
BY DEF Init, IInv, BitsOK, Bits, TransmitsInWait, EconKept, SwitchesRight, BanksHold, Relying

\* A step that touches neither ECON1 nor the bank keeps the invariant when it
\* stays in the bank: it goes to a place that relies on the same, or on none.
LEMMA StayInBank ==
    ASSUME IInv, UNCHANGED <<ECON1, bank, switching>>,
           pc \notin {"bankread", "bankwrite", "wait"},
           pc' \notin {"bankread", "bankwrite"},
           pc' \in Relying => pc \in Relying /\ BankFor(pc') = BankFor(pc)
    PROVE  IInv'
<1>1. BitsOK' /\ EconKept' /\ SwitchesRight'
  BY DEF IInv, BitsOK, EconKept, SwitchesRight, switching
<1>2. TransmitsInWait'
  BY DEF IInv, TransmitsInWait
<1>3. BanksHold'
  BY DEF IInv, BanksHold, BankFor, BankOf
<1> QED
  BY <1>1, <1>2, <1>3 DEF IInv

\* A step that calls setregbank() for the right bank keeps the invariant
LEMMA CallSetBank ==
    ASSUME IInv, UNCHANGED <<ECON1, bank>>, pc # "wait",
           NEW at \in Relying, SetBank(BankFor(at), at)
    PROVE  IInv'
<1>1. BitsOK' /\ EconKept'
  BY DEF IInv, BitsOK, EconKept, SetBank
<1>2. TransmitsInWait'
  BY DEF IInv, TransmitsInWait
<1>3. SwitchesRight'
  BY DEF SwitchesRight, SetBank, BankFor, BankOf
<1>4. BanksHold'
  BY DEF BanksHold, SetBank, Relying
<1> QED
  BY <1>1, <1>2, <1>3, <1>4 DEF IInv

\* The two commands of setregbank(), between which the controller may come
LEMMA SwitchKeeps == IInv /\ (BankRead \/ BankWrite) => IInv'
<1> SUFFICES ASSUME IInv, BankRead \/ BankWrite PROVE IInv'
  OBVIOUS
<1>1. CASE BankRead
  BY <1>1 DEF BankRead, IInv, BitsOK, TransmitsInWait, EconKept, SwitchesRight, BanksHold,
              Relying, BankFor, BankOf
<1>2. CASE BankWrite
  <2>1. econ = ECON1 /\ econ \in Bits /\ ~ECON1.txrts /\ then \in Relying /\ new_bank = BankFor(then)
    BY <1>2 DEF BankWrite, IInv, BitsOK, EconKept, TransmitsInWait, SwitchesRight
  <2>2. new_bank \in Nat
    BY <2>1 DEF BankFor, BankOf, ERXTX_BANK, EPKTCNT_BANK, MACONX_BANK, MAADRX_BANK
  <2>3. ECON1' \in Bits /\ ECON1'.bsel = new_bank /\ ~ECON1'.txrts
    BY <1>2, <2>1, <2>2 DEF BankWrite, Bits
  <2>4. pc' \in Relying /\ bank' = new_bank /\ pc' = then /\ UNCHANGED switching
    BY <1>2, <2>1 DEF BankWrite
  <2>5. BitsOK' /\ TransmitsInWait'
    BY <2>1, <2>3, <2>4 DEF BitsOK, TransmitsInWait, switching
  <2>6. EconKept' /\ SwitchesRight'
    BY <2>4 DEF EconKept, SwitchesRight, Relying
  <2>7. BanksHold'
    BY <2>1, <2>3, <2>4 DEF BanksHold, BankFor, BankOf
  <2> QED
    BY <2>5, <2>6, <2>7 DEF IInv
<1> QED
  BY <1>1, <1>2

\* Reset and set up of the controller
LEMMA SetUpKeeps ==
    IInv /\ (begin \/ AwaitClock \/ SetUpBuffer \/ SetUpFilter \/ SetUpMac \/ StartReception)
        => IInv'
<1> SUFFICES ASSUME IInv,
                    begin \/ AwaitClock \/ SetUpBuffer \/ SetUpFilter \/ SetUpMac \/ StartReception
             PROVE  IInv'
  OBVIOUS
<1>1. CASE begin
  <2>1. ECON1' = [bsel |-> 0, rxen |-> FALSE, txrts |-> FALSE] /\ econ' = ECON1' /\ pc' = "clock"
    BY <1>1 DEF begin
  <2> QED
    BY <2>1 DEF IInv, BitsOK, Bits, TransmitsInWait, EconKept, SwitchesRight, BanksHold, Relying
<1>2. CASE AwaitClock
  <2>1. BankFor("rxbuffer") = ERXTX_BANK /\ "rxbuffer" \in Relying
    BY DEF BankFor, BankOf, Relying
  <2> QED
    BY <1>2, <2>1, CallSetBank DEF AwaitClock
<1>3. CASE SetUpBuffer
  <2>1. BankFor("filter") = EPKTCNT_BANK /\ "filter" \in Relying
    BY DEF BankFor, BankOf, Relying
  <2> QED
    BY <1>3, <2>1, CallSetBank DEF SetUpBuffer
<1>4. CASE SetUpFilter
  <2>1. BankFor("mac") = MACONX_BANK /\ "mac" \in Relying
    BY DEF BankFor, BankOf, Relying
  <2> QED
    BY <1>4, <2>1, CallSetBank DEF SetUpFilter
<1>5. CASE SetUpMac
  <2>1. BankFor("address") = MAADRX_BANK /\ "address" \in Relying
    BY DEF BankFor, BankOf, Relying
  <2> QED
    BY <1>5, <2>1, CallSetBank DEF SetUpMac
<1>6. CASE StartReception
  BY <1>6 DEF StartReception, switching, IInv, BitsOK, Bits, TransmitsInWait, EconKept,
              SwitchesRight, BanksHold, Relying
<1> QED
  BY <1>1, <1>2, <1>3, <1>4, <1>5, <1>6

\* readFrame() changes the bank twice, and else stays in one
LEMMA ReadKeeps ==
    IInv /\ (readFrame \/ ReadCount \/ ReadNothing \/ ReadHeader \/ ReadBytes \/ FreeLow
             \/ FreeHigh \/ Decrement)
        => IInv'
<1> SUFFICES ASSUME IInv,
                    readFrame \/ ReadCount \/ ReadNothing \/ ReadHeader \/ ReadBytes \/ FreeLow
                        \/ FreeHigh \/ Decrement
             PROVE  IInv'
  OBVIOUS
<1>1. CASE readFrame
  <2>1. BankFor("count") = EPKTCNT_BANK /\ "count" \in Relying
    BY DEF BankFor, BankOf, Relying
  <2> QED
    BY <1>1, <2>1, CallSetBank DEF readFrame
<1>2. CASE ReadCount
  <2>1. BankFor("header") = ERXTX_BANK /\ "header" \in Relying
    BY DEF BankFor, Relying
  <2> QED
    BY <1>2, <2>1, CallSetBank DEF ReadCount
<1>3. CASE ReadNothing
  BY <1>3, StayInBank DEF ReadNothing, Relying
<1>4. CASE ReadHeader
  BY <1>4, StayInBank DEF ReadHeader, Relying, BankFor
<1>5. CASE ReadBytes
  BY <1>5, StayInBank DEF ReadBytes, Relying, BankFor, BankOf
<1>6. CASE FreeLow
  BY <1>6, StayInBank DEF FreeLow, Relying, BankFor, BankOf
<1>7. CASE FreeHigh
  BY <1>7, StayInBank DEF FreeHigh, Relying
<1>8. CASE Decrement
  BY <1>8, StayInBank DEF Decrement, Relying
<1> QED
  BY <1>1, <1>2, <1>3, <1>4, <1>5, <1>6, <1>7, <1>8

\* sendFrame() returns with TXRTS cleared
LEMMA SendKeeps ==
    IInv /\ ((\E f \in Outgoing : sendFrame(f)) \/ WriteFrame \/ StartTransmission
             \/ AwaitTransmission)
        => IInv'
<1> SUFFICES ASSUME IInv,
                    (\E f \in Outgoing : sendFrame(f)) \/ WriteFrame \/ StartTransmission
                        \/ AwaitTransmission
             PROVE  IInv'
  OBVIOUS
<1>1. ASSUME NEW f \in Outgoing, sendFrame(f) PROVE IInv'
  <2>1. BankFor("write") = ERXTX_BANK /\ "write" \in Relying
    BY DEF BankFor, BankOf, Relying
  <2> QED
    BY <1>1, <2>1, CallSetBank DEF sendFrame
<1>2. CASE WriteFrame
  BY <1>2, StayInBank DEF WriteFrame, Relying
<1>3. CASE StartTransmission
  BY <1>3 DEF StartTransmission, switching, IInv, BitsOK, Bits, TransmitsInWait, EconKept,
              SwitchesRight, BanksHold, Relying
<1>4. CASE AwaitTransmission
  BY <1>4 DEF AwaitTransmission, switching, IInv, BitsOK, TransmitsInWait, EconKept,
              SwitchesRight, BanksHold, Relying
<1> QED
  BY <1>1, <1>2, <1>3, <1>4

\* The controller clears TXRTS only while the driver waits for it
LEMMA ChipKeeps == IInv /\ (Chip \/ \E f \in Incoming : ChipReceives(f)) => IInv'
<1> SUFFICES ASSUME IInv, Chip \/ \E f \in Incoming : ChipReceives(f) PROVE IInv'
  OBVIOUS
<1>1. CASE ChipTransmits \/ ChipAborts
  <2>1. /\ ECON1.txrts /\ ECON1' = [ECON1 EXCEPT !.txrts = FALSE]
        /\ UNCHANGED <<pc, bank, switching>>
    BY <1>1 DEF ChipTransmits, ChipAborts
  <2> QED
    BY <2>1 DEF switching, IInv, BitsOK, Bits, TransmitsInWait, EconKept, SwitchesRight, BanksHold,
                Relying
<1>2. CASE ClockStarts \/ \E f \in Incoming : ChipReceives(f)
  <2>1. UNCHANGED watched
    BY <1>2 DEF ClockStarts, ChipReceives, watched
  <2> QED
    BY <2>1 DEF watched, switching, IInv, BitsOK, TransmitsInWait, EconKept, SwitchesRight,
                BanksHold
<1> QED
  BY <1>1, <1>2 DEF Chip

LEMMA NextInv == IInv /\ [Next]_vars => IInv'
<1> SUFFICES ASSUME IInv, [Next]_vars PROVE IInv'
  OBVIOUS
<1>1. CASE UNCHANGED vars
  BY <1>1 DEF vars, switching, IInv, BitsOK, TransmitsInWait, EconKept, SwitchesRight, BanksHold
<1>2. CASE Next
  BY <1>2, SwitchKeeps, SetUpKeeps, ReadKeeps, SendKeeps, ChipKeeps DEF Next, Step, Call
<1> QED
  BY <1>1, <1>2

-----------------------------------------------------------------------------
(* Theorems *)

\* Whatever the controller does between the two commands of setregbank(), the
\* bits that are written back are those it has (enc28j60.cpp:211-217).
THEOREM NoBitLost == Spec => []EconKept
<1>1. IInv => EconKept
  BY DEF IInv
<1> QED
  BY <1>1, InitInv, NextInv, PTL DEF Spec

\* Controller and driver agree on the bank at each register access, although
\* reset() leaves them disagreeing (enc28j60.cpp:491).
THEOREM BanksSelected == Spec => []BanksAgree
<1>1. IInv => BanksAgree
  BY DEF IInv, BanksHold, BanksAgree, Relying, BankFor
<1> QED
  BY <1>1, InitInv, NextInv, PTL DEF Spec

-----------------------------------------------------------------------------
(* The receive ring: the inductive invariant *)

\* An address of the ring, of a position in two turns of it
Wrap(p) == IF p < RingSize THEN p ELSE p - RingSize

\* The positions a frame takes with what is stored before it
Span(f) == 6 + Padded(Len(f))

\* What is in the memory from position p on is the frame f
Holds(m, p, f) ==
    /\ m[Wrap(p)] = Low(Wrap(p + Span(f))) /\ m[Wrap(p + 1)] = High(Wrap(p + Span(f)))
    /\ m[Wrap(p + 2)] = Low(Len(f)) /\ m[Wrap(p + 3)] = High(Len(f))
    /\ \A k \in 1 .. Len(f) : m[Wrap(p + 5 + k)] = f[k]

\* The frames lie one after the other, frame i from pos[i] on, and two bytes
\* of the ring at least are free
Laid(m, frames, pos) ==
    /\ pos \in [1 .. Len(frames) + 1 -> Nat]
    /\ pos[1] < RingSize /\ \A i \in 1 .. Len(frames) + 1 : pos[i] % 2 = 0
    /\ pos[Len(frames) + 1] <= pos[1] + RingSize - 2
    /\ \A i, j \in 1 .. Len(frames) + 1 : i <= j => pos[i] <= pos[j]
    /\ \A i \in 1 .. Len(frames) : /\ pos[i + 1] = pos[i] + Span(frames[i])
                                   /\ Holds(m, pos[i], frames[i])

\* Where the driver is, or will be when setregbank() returns
At == IF pc \in {"bankread", "bankwrite"} THEN then ELSE pc

Unset == {"clock", "rxbuffer"}
SettingUp == Unset \cup {"filter", "mac", "address"}

\* The frames of the ring: one that has been freed still counts in EPKTCNT
held == IF pc = "decrement" THEN Tail(pending) ELSE pending
oldest == Wrap(ERXRDPT + 1)
following == Wrap(oldest + Span(Head(pending)))

RingTypes ==
    /\ DOMAIN mem = 0 .. MemoryEnd
    /\ pending \in Seq(Incoming) /\ EPKTCNT = Len(pending)
    /\ ERXWRPT \in 0 .. RX_BUF_END /\ ERXRDPT \in 0 .. RX_BUF_END /\ ERDPT \in 0 .. RX_BUF_END

\* Nothing is received before begin() is done
SetUpFirst == At \in SettingUp => pending = <<>> /\ ~ECON1.rxen

FramesLie ==
    At \notin Unset =>
        \E pos : Laid(mem, held, pos) /\ pos[1] = oldest /\ ERXWRPT = Wrap(pos[Len(held) + 1])

\* Where readFrame() is in the oldest frame
ReaderRight ==
    /\ At \in {"header", "frame", "freelow", "freehigh", "decrement"} => pending # <<>>
    /\ At \notin Unset \cup {"frame", "freelow", "freehigh"} => ERDPT = oldest
    /\ pc = "frame" => ERDPT = Wrap(oldest + 6) /\ next = following
    /\ pc \in {"freelow", "freehigh"} => ERDPT = following
    /\ pc = "freelow" => next = following
    /\ pc = "freehigh" => next = Freed(following) /\ ERXRDPTL = Low(next)
    /\ pc \in {"frame", "freelow", "freehigh", "decrement"} => len = Len(Head(pending))
    /\ pc \in {"freelow", "freehigh", "decrement"} =>
         buffer = IF BufSize >= len THEN Head(pending) ELSE <<>>

\* The frame to send is in the memory until it is gone
SenderRight ==
    /\ At = "write" => sending \in Outgoing
    /\ pc = "transmit" \/ ECON1.txrts =>
         /\ sending \in Outgoing /\ ETXST = TX_BUF_START /\ ETXND = TX_BUF_START + Len(sending)
         /\ \A i \in 1 .. Len(sending) : mem[TX_BUF_START + i] = sending[i]

\* What setregbank() returns to
Selecting ==
    pc \in {"bankread", "bankwrite"} =>
        then \in {"rxbuffer", "filter", "mac", "address", "count", "header", "write"}

RingInv == Selecting /\ RingTypes /\ SetUpFirst /\ FramesLie /\ ReaderRight /\ SenderRight

-----------------------------------------------------------------------------
(* Addresses *)

\* The sizes, from ENC28J60Assumption
LEMMA RingNumbers ==
    /\ RingSize \in Nat /\ RingSize >= 2 /\ RingSize % 2 = 0 /\ RX_BUF_END \in Nat
    /\ RX_BUF_END = RingSize - 1 /\ RX_BUF_END % 2 = 1
    /\ TX_BUF_START \in Nat /\ RingSize <= TX_BUF_START /\ MemoryEnd \in Nat /\ BufSize \in Nat
    /\ TX_BUF_START < MemoryEnd
BY ENC28J60Assumption DEF RingSize, RX_BUF_START

\* The same without remainders
LEMMA RingSizes ==
    /\ RingSize \in Nat /\ RingSize >= 2 /\ RX_BUF_END = RingSize - 1
    /\ TX_BUF_START \in Nat /\ RingSize <= TX_BUF_START
    /\ MemoryEnd \in Nat /\ TX_BUF_START < MemoryEnd
BY RingNumbers

\* Positions and addresses
LEMMA WrapFacts ==
    ASSUME NEW p \in Nat, p < 2 * RingSize
    PROVE  /\ Wrap(p) \in 0 .. RX_BUF_END /\ Wrap(p) \in Nat /\ Wrap(p) < RingSize
           /\ Wrap(p) % 2 = p % 2
BY RingNumbers DEF Wrap

\* The chip's and the driver's way of wrapping is that of positions
LEMMA AfterIsWrap ==
    ASSUME NEW a \in Nat, NEW n \in Nat, a + n < 2 * RingSize
    PROVE  After(a, n) = Wrap(a + n)
<1>1. a + n \in Nat /\ RingSize \in Nat
  BY RingNumbers
<1>2. CASE a + n < RingSize
  BY <1>1, <1>2 DEF After, Wrap
<1>3. CASE ~(a + n < RingSize)
  BY <1>1, <1>3 DEF After, Wrap
<1> QED
  BY <1>2, <1>3

\* Wrapping twice is wrapping once
LEMMA WrapPlus ==
    ASSUME NEW p \in Nat, NEW n \in Nat, p + n < 2 * RingSize
    PROVE  Wrap(Wrap(p) + n) = Wrap(p + n)
BY RingNumbers DEF Wrap

\* A word that was written as two bytes is read back
LEMMA WordOfBytes == ASSUME NEW w \in Nat PROVE Word(Low(w), High(w)) = w
BY ENC28J60Assumption DEF Word, Low, High

\* Even numbers
LEMMA EvenFacts ==
    ASSUME NEW a \in Nat, NEW b \in Nat, a % 2 = 0, b % 2 = 0
    PROVE  (a + b) % 2 = 0 /\ (b <= a => (a - b) % 2 = 0)
OBVIOUS

\* A frame takes an even number of bytes
LEMMA SpanFacts ==
    ASSUME NEW f \in Incoming
    PROVE  /\ Len(f) \in Nat /\ Padded(Len(f)) \in {Len(f), Len(f) + 1} /\ Span(f) \in Nat
           /\ Span(f) % 2 = 0 /\ Span(f) >= Len(f) + 6
<1>1. Len(f) \in Nat
  BY ENC28J60Assumption
<1>2. Len(f) % 2 \in {0, 1} /\ (Len(f) + (Len(f) % 2)) % 2 = 0
  BY <1>1
<1> QED
  BY <1>1, <1>2 DEF Padded, Span

-----------------------------------------------------------------------------
(* Frames that lie in the ring *)

\* The frames still lie in a memory that is the same between the first and the last
LEMMA LaidKept ==
    ASSUME NEW m, NEW new, NEW frames \in Seq(Incoming), NEW pos, Laid(m, frames, pos),
           \A p \in Nat : pos[1] <= p /\ p < pos[Len(frames) + 1] => new[Wrap(p)] = m[Wrap(p)]
    PROVE  Laid(new, frames, pos)
<1>1. ASSUME NEW i \in 1 .. Len(frames)
      PROVE  Holds(new, pos[i], frames[i])
  <2>1. PICK p, f : p = pos[i] /\ f = frames[i]
    OBVIOUS
  <2>2. PICK n \in Nat : n = Len(frames)
    OBVIOUS
  <2>3. /\ 1 \in 1 .. n + 1 /\ i \in 1 .. n + 1 /\ i + 1 \in 1 .. n + 1 /\ n + 1 \in 1 .. n + 1
        /\ 1 <= i /\ i + 1 <= n + 1 /\ i \in 1 .. n
    BY <2>2
  <2>4. /\ pos \in [1 .. n + 1 -> Nat] /\ \A a, b \in 1 .. n + 1 : a <= b => pos[a] <= pos[b]
        /\ pos[i + 1] = pos[i] + Span(frames[i]) /\ Holds(m, pos[i], frames[i])
    BY <2>2, <2>3 DEF Laid
  <2>5. f \in Incoming /\ Holds(m, p, f) /\ p \in Nat /\ pos[i + 1] = p + Span(f)
        /\ pos[1] <= p /\ pos[i + 1] <= pos[n + 1] /\ pos[n + 1] \in Nat /\ pos[1] \in Nat
    BY <2>1, <2>2, <2>3, <2>4
  <2>6. Len(f) \in Nat /\ Span(f) \in Nat /\ Len(f) + 6 <= Span(f)
    BY <2>5, SpanFacts
  <2>7. ASSUME NEW k \in Nat, k <= 5 + Len(f)
        PROVE  new[Wrap(p + k)] = m[Wrap(p + k)]
    <3>1. p + k \in Nat /\ pos[1] <= p + k /\ p + k < pos[n + 1]
      BY <2>5, <2>6, <2>7
    <3> QED
      BY <2>2, <3>1
  <2>8. /\ new[Wrap(p)] = m[Wrap(p)] /\ new[Wrap(p + 1)] = m[Wrap(p + 1)]
        /\ new[Wrap(p + 2)] = m[Wrap(p + 2)] /\ new[Wrap(p + 3)] = m[Wrap(p + 3)]
    <3>1. p + 0 = p /\ 0 <= 5 + Len(f) /\ 1 <= 5 + Len(f) /\ 2 <= 5 + Len(f) /\ 3 <= 5 + Len(f)
      BY <2>5, <2>6
    <3> QED
      BY <2>7, <3>1
  <2>9. ASSUME NEW k \in 1 .. Len(f)
        PROVE  new[Wrap(p + 5 + k)] = m[Wrap(p + 5 + k)]
    <3>1. p + 5 + k = p + (5 + k) /\ 5 + k \in Nat /\ 5 + k <= 5 + Len(f)
      BY <2>5, <2>6
    <3> QED
      BY <2>7, <3>1
  <2>10. Holds(new, p, f)
    BY <2>5, <2>8, <2>9 DEF Holds
  <2> QED
    BY <2>1, <2>10
<1> QED
  BY <1>1 DEF Laid

\* A frame behind the last
LEMMA LaidOneMore ==
    ASSUME NEW m, NEW frames \in Seq(Incoming), NEW pos, Laid(m, frames, pos), NEW f \in Incoming,
           Holds(m, pos[Len(frames) + 1], f),
           pos[Len(frames) + 1] + Span(f) <= pos[1] + RingSize - 2
    PROVE  \E new : /\ Laid(m, Append(frames, f), new) /\ new[1] = pos[1]
                    /\ new[Len(Append(frames, f)) + 1] = pos[Len(frames) + 1] + Span(f)
<1>1. PICK n \in Nat : n = Len(frames) + 1
  OBVIOUS
<1>2. PICK new : new = [i \in 1 .. n + 1 |-> IF i = n + 1 THEN pos[n] + Span(f) ELSE pos[i]]
  OBVIOUS
<1>3. PICK more : more = Append(frames, f)
  OBVIOUS
<1>4. Len(more) = n /\ more[n] = f /\ \A i \in 1 .. Len(frames) : more[i] = frames[i]
  BY <1>1, <1>3
<1>5. new[n + 1] = pos[n] + Span(f) /\ \A i \in 1 .. n : new[i] = pos[i]
  BY <1>1, <1>2
<1>6. /\ pos \in [1 .. n -> Nat] /\ \A i, j \in 1 .. n : i <= j => pos[i] <= pos[j]
      /\ Span(f) \in Nat /\ n \in 1 .. n
  BY <1>1, SpanFacts DEF Laid
<1>7. \A i \in 1 .. n + 1 : new[i] \in Nat
  BY <1>2, <1>6
<1>8. new \in [1 .. Len(more) + 1 -> Nat]
  BY <1>2, <1>4, <1>7
<1>9. ASSUME NEW i \in 1 .. n + 1, NEW j \in 1 .. n + 1, i <= j
      PROVE  new[i] <= new[j]
  <2>1. CASE j = n + 1
    <3>1. i = n + 1 \/ (i \in 1 .. n /\ i <= n)
      BY <1>1
    <3>2. i = n + 1 \/ (i \in 1 .. n /\ pos[i] <= pos[n])
      BY <1>6, <3>1
    <3> QED
      BY <1>5, <1>6, <1>7, <2>1, <3>2
  <2>2. CASE j # n + 1
    BY <1>5, <1>9, <1>6, <2>2
  <2> QED
    BY <2>1, <2>2
<1>10. ASSUME NEW i \in 1 .. Len(more)
      PROVE  new[i + 1] = new[i] + Span(more[i]) /\ Holds(m, new[i], more[i])
  <2>1. CASE i = n
    BY <1>1, <1>4, <1>5, <2>1
  <2>2. CASE i < n
    <3>1. i \in 1 .. Len(frames) /\ i + 1 \in 1 .. n
      BY <1>1, <1>4, <2>2
    <3> QED
      BY <1>4, <1>5, <3>1 DEF Laid
  <2> QED
    BY <1>1, <1>4, <2>1, <2>2
<1>11. new[1] = pos[1] /\ 1 \in 1 .. n
  BY <1>1, <1>5
<1>12. ASSUME NEW i \in 1 .. n + 1
      PROVE  new[i] % 2 = 0
  <2>1. \A k \in 1 .. n : pos[k] % 2 = 0 /\ pos[k] \in Nat
    BY <1>1, <1>6 DEF Laid
  <2>2. CASE i = n + 1
    <3>1. PICK a \in Nat, b \in Nat : a = pos[n] /\ b = Span(f) /\ a % 2 = 0 /\ b % 2 = 0
      BY <1>6, <2>1, SpanFacts
    <3>2. (a + b) % 2 = 0
      BY <3>1, EvenFacts
    <3> QED
      BY <1>5, <2>2, <3>1, <3>2
  <2>3. CASE i # n + 1
    BY <1>5, <2>1, <2>3
  <2> QED
    BY <2>2, <2>3
<1>13. Laid(m, more, new)
  BY <1>1, <1>4, <1>5, <1>8, <1>9, <1>10, <1>11, <1>12 DEF Laid
<1> QED
  BY <1>3, <1>4, <1>5, <1>11, <1>13

\* Without the first the positions may all be in the second turn: then they go back by one
LEMMA LaidOneLess ==
    ASSUME NEW m, NEW frames \in Seq(Incoming), frames # <<>>, NEW pos, Laid(m, frames, pos)
    PROVE  \E new : /\ Laid(m, Tail(frames), new) /\ new[1] = Wrap(pos[2])
                    /\ Wrap(new[Len(Tail(frames)) + 1]) = Wrap(pos[Len(frames) + 1])
<1>1. PICK n \in Nat : n = Len(frames) /\ n >= 1
  OBVIOUS
<1>2. PICK off \in {0, RingSize} : off = IF pos[2] < RingSize THEN 0 ELSE RingSize
  OBVIOUS
<1>3. PICK rest : rest = Tail(frames)
  OBVIOUS
<1>4. Len(rest) = n - 1 /\ \A i \in 1 .. n - 1 : rest[i] = frames[i + 1]
  BY <1>1, <1>3
<1>5. /\ pos \in [1 .. n + 1 -> Nat] /\ pos[1] < RingSize
      /\ \A i \in 1 .. n + 1 : pos[i] % 2 = 0
      /\ pos[n + 1] <= pos[1] + RingSize - 2
      /\ \A i, j \in 1 .. n + 1 : i <= j => pos[i] <= pos[j]
      /\ \A i \in 1 .. n : pos[i + 1] = pos[i] + Span(frames[i]) /\ Holds(m, pos[i], frames[i])
  BY <1>1 DEF Laid
<1>6. frames[1] \in Incoming /\ pos[2] = pos[1] + Span(frames[1])
  BY <1>1, <1>5
<1>7. ASSUME NEW i \in 2 .. n + 1
      PROVE  off <= pos[i] /\ pos[2] <= pos[i] /\ pos[i] \in Nat /\ pos[i] < 2 * RingSize - 2
  <2>1. 2 \in 1 .. n + 1 /\ i \in 1 .. n + 1 /\ n + 1 \in 1 .. n + 1 /\ 1 \in 1 .. n + 1
        /\ 2 <= i /\ i <= n + 1
    BY <1>1
  <2>2. /\ pos[2] <= pos[i] /\ pos[i] <= pos[n + 1] /\ pos[1] \in Nat /\ pos[2] \in Nat
        /\ pos[i] \in Nat /\ pos[n + 1] \in Nat
    BY <1>5, <2>1
  <2> QED
    BY <1>2, <1>5, <2>2, RingNumbers
<1>8. PICK new : new = [i \in 1 .. n |-> pos[i + 1] - off]
  OBVIOUS
<1>9. \A i \in 1 .. n : new[i] = pos[i + 1] - off /\ new[i] \in Nat
  BY <1>2, <1>7, <1>8, RingNumbers
<1>10. new \in [1 .. Len(rest) + 1 -> Nat]
  BY <1>1, <1>4, <1>8, <1>9
<1>11. new[1] = Wrap(pos[2]) /\ new[1] < RingSize
  <2>1. 1 \in 1 .. n /\ 2 \in 2 .. n + 1
    BY <1>1
  <2> QED
    BY <1>2, <1>7, <1>9, <2>1, RingNumbers DEF Wrap
<1>12. ASSUME NEW i \in 1 .. n
       PROVE  new[i] % 2 = 0
  <2>1. i + 1 \in 2 .. n + 1 /\ i + 1 \in 1 .. n + 1
    BY <1>1
  <2>2. PICK a \in Nat : a = pos[i + 1] /\ a % 2 = 0 /\ off <= a
    BY <1>5, <1>7, <2>1
  <2>3. off \in Nat /\ off % 2 = 0
    BY <1>2, RingNumbers
  <2>4. (a - off) % 2 = 0
    BY <2>2, <2>3, EvenFacts
  <2> QED
    BY <1>9, <2>2, <2>4
<1>13. ASSUME NEW i \in 1 .. n, NEW j \in 1 .. n, i <= j
       PROVE  new[i] <= new[j]
  <2>1. i + 1 \in 2 .. n + 1 /\ j + 1 \in 2 .. n + 1 /\ i + 1 \in 1 .. n + 1
        /\ j + 1 \in 1 .. n + 1 /\ i + 1 <= j + 1
    BY <1>1, <1>13
  <2>2. pos[i + 1] <= pos[j + 1] /\ pos[i + 1] \in Nat /\ pos[j + 1] \in Nat
    BY <1>5, <2>1
  <2> QED
    BY <1>2, <1>9, <2>2, RingNumbers
<1>14. new[n] <= new[1] + RingSize - 2 /\ Wrap(new[n]) = Wrap(pos[n + 1])
  <2>1. n \in 1 .. n /\ 1 \in 1 .. n /\ n + 1 \in 2 .. n + 1 /\ 2 \in 2 .. n + 1 /\ 1 \in 1 .. n + 1
    BY <1>1
  <2>2. pos[1] <= pos[2]
    BY <1>1, <1>5
  <2>3. new[n] = pos[n + 1] - off /\ new[1] = pos[2] - off
    BY <1>9, <2>1
  <2> QED
    BY <1>2, <1>5, <1>7, <2>1, <2>2, <2>3, RingNumbers DEF Wrap
<1>15. ASSUME NEW i \in 1 .. Len(rest)
       PROVE  new[i + 1] = new[i] + Span(rest[i]) /\ Holds(m, new[i], rest[i])
  <2>1. i \in 1 .. n /\ i + 1 \in 1 .. n /\ i + 1 \in 2 .. n + 1 /\ i + 2 \in 2 .. n + 1
    BY <1>1, <1>4
  <2>2. PICK f \in Incoming : f = rest[i] /\ f = frames[i + 1]
    BY <1>4, <1>1, <2>1
  <2>3. PICK p \in Nat : p = pos[i + 1]
    BY <1>7, <2>1
  <2>4. Holds(m, p, f) /\ pos[i + 2] = p + Span(f)
    BY <1>5, <2>1, <2>2, <2>3
  <2>5. new[i] = p - off /\ new[i + 1] = pos[i + 2] - off /\ p - off \in Nat
    BY <1>9, <2>1, <2>3
  <2>6. off <= p /\ p + Span(f) < 2 * RingSize /\ off <= p + Span(f) /\ Span(f) \in Nat
        /\ (off = 0 \/ off = RingSize) /\ (off = RingSize => RingSize <= p) /\ off \in Nat
    <3>1. p < 2 * RingSize - 2 /\ p + Span(f) < 2 * RingSize - 2 /\ off <= p
      BY <1>7, <2>1, <2>3, <2>4
    <3>2. Span(f) \in Nat /\ off \in Nat /\ (off = 0 \/ off = RingSize)
      BY <1>2, SpanFacts, RingNumbers
    <3>3. p + Span(f) < 2 * RingSize /\ off <= p + Span(f) /\ (off = RingSize => RingSize <= p)
      BY <2>3, <3>1, <3>2, RingNumbers
    <3> QED
      BY <3>1, <3>2, <3>3
  <2>7. ASSUME NEW k \in 0 .. Span(f)
        PROVE  Wrap(p - off + k) = Wrap(p + k)
    <3>1. CASE off = 0
      <4>1. p - off + k = p + k
        BY <2>3, <3>1
      <4> QED
        BY <4>1
    <3>2. CASE off = RingSize
      <4>1. RingSize <= p + k /\ p - RingSize + k < RingSize
        BY <2>6, <3>2, RingNumbers
      <4> QED
        BY <2>6, <3>2, <4>1, RingNumbers DEF Wrap
    <3> QED
      BY <2>6, <3>1, <3>2
  <2>8. Holds(m, p - off, f)
    <3>1. Len(f) \in Nat /\ Span(f) \in Nat /\ 6 + Len(f) <= Span(f)
      BY SpanFacts
    <3>2. /\ Wrap(p - off) = Wrap(p) /\ Wrap(p - off + 1) = Wrap(p + 1)
          /\ Wrap(p - off + 2) = Wrap(p + 2) /\ Wrap(p - off + 3) = Wrap(p + 3)
          /\ Wrap(p - off + Span(f)) = Wrap(p + Span(f))
      <4>1. p - off + 0 = p - off /\ p + 0 = p /\ 0 \in 0 .. Span(f) /\ 1 \in 0 .. Span(f)
            /\ 2 \in 0 .. Span(f) /\ 3 \in 0 .. Span(f) /\ Span(f) \in 0 .. Span(f)
        BY <2>5, <3>1
      <4> QED
        BY <2>7, <4>1
    <3>3. \A k \in 1 .. Len(f) : Wrap(p - off + 5 + k) = Wrap(p + 5 + k)
      <4>1. ASSUME NEW k \in 1 .. Len(f) PROVE Wrap(p - off + 5 + k) = Wrap(p + 5 + k)
        <5>1. 5 + k \in 0 .. Span(f) /\ p - off + 5 + k = p - off + (5 + k)
              /\ p + 5 + k = p + (5 + k)
          BY <2>5, <3>1
        <5> QED
          BY <2>7, <5>1
      <4> QED
        BY <4>1
    <3> QED
      BY <2>4, <3>2, <3>3 DEF Holds
  <2>9. pos[i + 2] - off = (p - off) + Span(f)
    BY <2>4, <2>5, <2>6
  <2> QED
    BY <2>2, <2>5, <2>8, <2>9
<1>16. Laid(m, rest, new)
  BY <1>1, <1>4, <1>10, <1>11, <1>13, <1>14, <1>15, <1>12 DEF Laid
<1> QED
  BY <1>1, <1>3, <1>4, <1>11, <1>14, <1>16

-----------------------------------------------------------------------------
(* Steps that leave the frames alone *)

\* What the frames in the ring are, and how far readFrame() is
ring == <<mem, ERDPT, pending, EPKTCNT, ERXWRPT, ERXRDPT, ERXRDPTL, next, len, buffer>>
InFrame == {"frame", "freelow", "freehigh", "decrement"}

LEMMA QuietKeeps ==
    ASSUME RingInv, UNCHANGED ring,
           \/ UNCHANGED <<pc, then>>
           \/ /\ At \notin InFrame /\ At' \notin InFrame /\ (At' \in Unset <=> At \in Unset)
              /\ At' = "header" => pending # <<>>
    PROVE  RingTypes' /\ FramesLie' /\ ReaderRight'
<1>1. RingTypes'
  BY DEF RingInv, RingTypes, ring
<1>2. UNCHANGED held /\ (At' \notin Unset => At \notin Unset)
      /\ UNCHANGED <<oldest, mem, ERXWRPT>>
  BY DEF held, ring, At, InFrame, oldest, Wrap, ring
<1>3. FramesLie'
  BY <1>2 DEF RingInv, FramesLie, Laid, Holds
<1>4. ReaderRight'
  <2>1. UNCHANGED <<oldest, following>>
    BY DEF oldest, following, ring
  <2>2. CASE UNCHANGED <<pc, then>>
    BY <2>1, <2>2 DEF RingInv, ReaderRight, At, ring
  <2>3. CASE /\ At \notin InFrame /\ At' \notin InFrame /\ (At' \in Unset <=> At \in Unset)
             /\ At' = "header" => pending # <<>>
    <3>1. pc \notin InFrame /\ pc' \notin InFrame
      BY <2>3 DEF At, InFrame
    <3> QED
      BY <2>1, <2>3, <3>1 DEF RingInv, ReaderRight, ring, InFrame
  <2> QED
    BY <2>2, <2>3
<1> QED
  BY <1>1, <1>3, <1>4

\* Steps of setregbank()
LEMMA SwitchKeepsRing == IInv /\ RingInv /\ (BankRead \/ BankWrite) => RingInv'
<1> SUFFICES ASSUME IInv, RingInv, BankRead \/ BankWrite PROVE RingInv'
  OBVIOUS
<1>1. UNCHANGED ring /\ At' = At /\ Selecting'
      /\ pc \in {"bankread", "bankwrite"} /\ UNCHANGED <<transmitter, then>>
  BY DEF BankRead, BankWrite, ring, receiver, locals, At, RingInv, Selecting, switching
<1>2. At \notin InFrame /\ ~ECON1.txrts /\ (At = "header" => pending # <<>>)
  BY <1>1 DEF InFrame, At, RingInv, Selecting, IInv, TransmitsInWait, ReaderRight
<1>3. RingTypes' /\ FramesLie' /\ ReaderRight'
  BY <1>1, <1>2, QuietKeeps
<1>4. ECON1'.rxen = ECON1.rxen /\ ECON1'.txrts = ECON1.txrts /\ pc' # "transmit"
  <2>1. CASE BankRead
    BY <2>1 DEF BankRead
  <2>2. CASE BankWrite
    <3>1. econ = ECON1 /\ econ \in Bits /\ then # "transmit"
      BY <2>2 DEF BankWrite, IInv, EconKept, BitsOK, RingInv, Selecting
    <3> QED
      BY <2>2, <3>1 DEF BankWrite, Bits
  <2> QED
    BY <2>1, <2>2
<1>5. SetUpFirst' /\ SenderRight'
  BY <1>1, <1>2, <1>4 DEF RingInv, SetUpFirst, SenderRight, ring, transmitter
<1> QED
  BY <1>1, <1>3, <1>5 DEF RingInv

\* A step that calls setregbank() and changes nothing else of interest
LEMMA CallKeepsRing ==
    ASSUME IInv, RingInv, UNCHANGED ring, UNCHANGED <<ECON1, ETXST, ETXND>>,
           pc \notin InFrame \cup {"bankread", "bankwrite", "wait", "transmit"},
           NEW at \in {"rxbuffer", "filter", "mac", "address", "count", "header", "write"},
           NEW b, SetBank(b, at),
           at \in Unset <=> pc \in Unset, at \in SettingUp => pc \in SettingUp,
           at = "header" => pending # <<>>,
           at = "write" => sending' \in Outgoing
    PROVE  RingInv'
<1>1. At = pc /\ At' = at /\ Selecting' /\ pc' = "bankread"
  BY DEF At, SetBank, Selecting
<1>2. At \notin InFrame /\ ~ECON1.txrts /\ At' \notin InFrame
  BY <1>1 DEF InFrame, IInv, TransmitsInWait
<1>3. RingTypes' /\ FramesLie' /\ ReaderRight'
  BY <1>1, <1>2, QuietKeeps
<1>4. SetUpFirst' /\ SenderRight'
  BY <1>1, <1>2 DEF RingInv, SetUpFirst, SenderRight, ring
<1> QED
  BY <1>1, <1>3, <1>4 DEF RingInv

\* Steps of begin() that leave the pointers alone
LEMMA SetUpKeepsRing ==
    IInv /\ RingInv /\ (AwaitClock \/ SetUpFilter \/ SetUpMac \/ StartReception) => RingInv'
<1> SUFFICES ASSUME IInv, RingInv, AwaitClock \/ SetUpFilter \/ SetUpMac \/ StartReception
             PROVE  RingInv'
  OBVIOUS
<1> USE DEF InFrame, Unset, SettingUp
<1>1. CASE AwaitClock
  BY <1>1, CallKeepsRing DEF AwaitClock, ring, receiver, transmitter, locals
<1>2. CASE SetUpFilter
  BY <1>2, CallKeepsRing DEF SetUpFilter, ring, receiver, transmitter, locals
<1>3. CASE SetUpMac
  BY <1>3, CallKeepsRing DEF SetUpMac, ring, receiver, transmitter, locals
<1>4. CASE StartReception
  <2>1. UNCHANGED ring /\ At = "address" /\ At' = "idle" /\ Selecting' /\ ~ECON1'.txrts
        /\ UNCHANGED transmitter /\ pc' = "idle"
    BY <1>4 DEF StartReception, ring, receiver, locals, At, Selecting
  <2>2. RingTypes' /\ FramesLie' /\ ReaderRight'
    BY <2>1, QuietKeeps
  <2>3. SetUpFirst' /\ SenderRight'
    BY <2>1 DEF RingInv, SetUpFirst, SenderRight, ring, transmitter
  <2> QED
    BY <2>1, <2>2, <2>3 DEF RingInv
<1> QED
  BY <1>1, <1>2, <1>3, <1>4

\* readFrame() up to the header
LEMMA CountKeepsRing ==
    IInv /\ RingInv /\ (readFrame \/ ReadCount \/ ReadNothing) => RingInv'
<1> SUFFICES ASSUME IInv, RingInv, readFrame \/ ReadCount \/ ReadNothing PROVE RingInv'
  OBVIOUS
<1> USE DEF InFrame, Unset, SettingUp
<1>1. CASE readFrame
  BY <1>1, CallKeepsRing DEF readFrame, ring, receiver, transmitter, locals
<1>2. CASE ReadCount
  <2>1. pending # <<>>
    BY <1>2 DEF ReadCount, RingInv, RingTypes
  <2> QED
    BY <1>2, <2>1, CallKeepsRing DEF ReadCount, ring, receiver, transmitter, locals
<1>3. CASE ReadNothing
  <2>1. UNCHANGED ring /\ At = "count" /\ At' = "idle" /\ Selecting' /\ ~ECON1'.txrts
        /\ UNCHANGED transmitter /\ pc' = "idle"
    BY <1>3 DEF ReadNothing, ring, receiver, locals, At, Selecting, IInv, TransmitsInWait
  <2>2. RingTypes' /\ FramesLie' /\ ReaderRight'
    BY <2>1, QuietKeeps
  <2>3. SetUpFirst' /\ SenderRight'
    BY <2>1 DEF RingInv, SetUpFirst, SenderRight, ring, transmitter
  <2> QED
    BY <2>1, <2>2, <2>3 DEF RingInv
<1> QED
  BY <1>1, <1>2, <1>3

\* sendFrame() but for the writing of the frame
LEMMA TransmitKeepsRing ==
    IInv /\ RingInv /\ ((\E f \in Outgoing : sendFrame(f)) \/ StartTransmission
                        \/ AwaitTransmission) => RingInv'
<1> SUFFICES ASSUME IInv, RingInv,
                    (\E f \in Outgoing : sendFrame(f)) \/ StartTransmission \/ AwaitTransmission
             PROVE  RingInv'
  OBVIOUS
<1> USE DEF InFrame, Unset, SettingUp
<1>1. ASSUME NEW f \in Outgoing, sendFrame(f) PROVE RingInv'
  BY <1>1, CallKeepsRing DEF sendFrame, ring, receiver, locals
<1>2. CASE StartTransmission \/ AwaitTransmission
  <2>1. UNCHANGED ring /\ At \in {"transmit", "wait"} /\ At' \in {"wait", "idle"} /\ Selecting'
        /\ UNCHANGED transmitter /\ pc' \in {"wait", "idle"}
    BY <1>2 DEF StartTransmission, AwaitTransmission, ring, receiver, locals, At, Selecting
  <2>2. RingTypes' /\ FramesLie' /\ ReaderRight'
    BY <2>1, QuietKeeps
  <2>3. ECON1'.txrts => pc = "transmit"
    BY <1>2 DEF StartTransmission, AwaitTransmission, IInv, TransmitsInWait
  <2>4. SetUpFirst' /\ SenderRight'
    BY <2>1, <2>3 DEF RingInv, SetUpFirst, SenderRight, ring, transmitter
  <2> QED
    BY <2>1, <2>2, <2>4 DEF RingInv
<1> QED
  BY <1>1, <1>2

\* The clock, and the end of a transmission
LEMMA ChipKeepsRing == IInv /\ RingInv /\ Chip => RingInv'
<1> SUFFICES ASSUME IInv, RingInv, Chip PROVE RingInv'
  OBVIOUS
<1>1. UNCHANGED ring /\ UNCHANGED <<pc, then, ETXST, ETXND>> /\ Selecting'
  BY DEF Chip, ClockStarts, ChipTransmits, ChipAborts, ring, receiver, transmitter, switching,
         locals, RingInv, Selecting
<1>2. RingTypes' /\ FramesLie' /\ ReaderRight'
  BY <1>1, QuietKeeps
<1>3. CASE ClockStarts
  <2>1. UNCHANGED <<ECON1, transmitter, At>>
    BY <1>1, <1>3 DEF ClockStarts, At
  <2>2. SetUpFirst' /\ SenderRight'
    BY <1>1, <2>1 DEF RingInv, SetUpFirst, SenderRight, ring, transmitter
  <2> QED
    BY <1>1, <1>2, <2>2 DEF RingInv
<1>4. CASE ChipTransmits \/ ChipAborts
  <2>1. ECON1 \in Bits /\ ECON1.txrts /\ ECON1' = [ECON1 EXCEPT !.txrts = FALSE]
        /\ pc = "wait"
    BY <1>4 DEF ChipTransmits, ChipAborts, IInv, BitsOK, TransmitsInWait
  <2>2. ~ECON1'.txrts /\ At' = "wait" /\ pc' = "wait"
    BY <1>1, <2>1 DEF Bits, At
  <2>3. SetUpFirst' /\ SenderRight'
    BY <2>2 DEF SetUpFirst, SettingUp, Unset, SenderRight
  <2> QED
    BY <1>1, <1>2, <2>3 DEF RingInv
<1> QED
  BY <1>3, <1>4 DEF Chip

-----------------------------------------------------------------------------
(* Steps of readFrame(), and reset *)

\* The oldest frame lies where the pointers say
LEMMA OldestLies ==
    ASSUME RingInv, At \notin Unset, held # <<>>
    PROVE  /\ Head(held) \in Incoming /\ Holds(mem, oldest, Head(held))
           /\ oldest \in Nat /\ oldest < RingSize /\ Span(Head(held)) <= RingSize - 2
<1>1. PICK pos : Laid(mem, held, pos) /\ pos[1] = oldest
  BY DEF RingInv, FramesLie
<1>2. held \in Seq(Incoming)
  BY DEF RingInv, RingTypes, held
<1>3. PICK n \in Nat, f \in Incoming : n = Len(held) /\ n >= 1 /\ f = held[1] /\ f = Head(held)
  BY <1>2
<1>4. 1 \in 1 .. n + 1 /\ 2 \in 1 .. n + 1 /\ n + 1 \in 1 .. n + 1 /\ 1 \in 1 .. n /\ 2 <= n + 1
  BY <1>3
<1>5. /\ pos \in [1 .. n + 1 -> Nat] /\ pos[1] < RingSize
      /\ pos[n + 1] <= pos[1] + RingSize - 2
      /\ \A i, j \in 1 .. n + 1 : i <= j => pos[i] <= pos[j]
      /\ pos[2] = pos[1] + Span(f) /\ Holds(mem, pos[1], f)
  BY <1>1, <1>3, <1>4 DEF Laid
<1>6. pos[1] \in Nat /\ pos[2] \in Nat /\ pos[n + 1] \in Nat /\ pos[2] <= pos[n + 1]
      /\ Span(f) \in Nat
  BY <1>4, <1>5, SpanFacts
<1>7. Span(f) <= RingSize - 2
  BY <1>5, <1>6, RingNumbers
<1> QED
  BY <1>1, <1>3, <1>5, <1>6, <1>7

\* What readdata() reads
LEMMA DataIsWrap ==
    ASSUME NEW p \in Nat, ERDPT = Wrap(p), NEW n \in Nat, NEW i \in 1 .. n, p + n < 2 * RingSize
    PROVE  Data(n)[i] = mem[Wrap(p + i - 1)]
<1>1. Wrap(p) \in Nat /\ Wrap(p) <= p
  BY RingNumbers DEF Wrap
<1>2. PICK k \in Nat : k = i - 1 /\ p + k < 2 * RingSize /\ Wrap(p) + k < 2 * RingSize
                       /\ p + i - 1 = p + k
  BY <1>1, RingNumbers
<1>3. After(Wrap(p), k) = Wrap(p + k)
  BY <1>1, <1>2, AfterIsWrap, WrapPlus
<1> QED
  BY <1>2, <1>3 DEF Data

\* The frames stay where they are
LEMMA LyingKept ==
    ASSUME RingInv, UNCHANGED <<mem, pending, EPKTCNT, ERXWRPT, ERXRDPT>>,
           ERDPT' \in 0 .. RX_BUF_END, held' = held, At' \notin Unset => At \notin Unset
    PROVE  RingTypes' /\ FramesLie'
<1>1. UNCHANGED <<oldest, mem, ERXWRPT, held>>
  BY DEF oldest
<1>2. FramesLie'
  BY <1>1 DEF RingInv, FramesLie
<1>3. RingTypes'
  BY DEF RingInv, RingTypes
<1> QED
  BY <1>2, <1>3

\* The header is that of the oldest frame
LEMMA HeaderKeepsRing == IInv /\ RingInv /\ ReadHeader => RingInv'
<1> SUFFICES ASSUME IInv, RingInv, ReadHeader PROVE RingInv'
  OBVIOUS
<1> USE DEF InFrame, Unset, SettingUp
<1>1. /\ At = "header" /\ pc = "header" /\ pc' = "frame" /\ At' = "frame" /\ held = pending
      /\ pending # <<>> /\ ERDPT = oldest /\ UNCHANGED <<held, oldest, following>>
      /\ UNCHANGED <<mem, ECON1, transmitter, pending, EPKTCNT, ERXWRPT, ERXRDPT>>
  BY DEF ReadHeader, At, held, oldest, following, receiver, RingInv, ReaderRight
<1>2. PICK f \in Incoming, p \in Nat : /\ f = Head(pending) /\ p = oldest /\ p < RingSize
                          /\ Holds(mem, p, f) /\ Span(f) <= RingSize - 2
  BY <1>1, OldestLies
<1>3. /\ Len(f) \in Nat /\ Span(f) \in Nat /\ Span(f) >= 6 + Len(f) /\ Wrap(p) = p
      /\ p + 6 < 2 * RingSize /\ p + Span(f) < 2 * RingSize
  BY <1>2, SpanFacts, RingNumbers DEF Wrap
<1>4. /\ Data(6)[1] = mem[Wrap(p)] /\ Data(6)[2] = mem[Wrap(p + 1)]
      /\ Data(6)[3] = mem[Wrap(p + 2)] /\ Data(6)[4] = mem[Wrap(p + 3)]
  <2>1. ERDPT = Wrap(p) /\ p + 1 - 1 = p /\ p + 2 - 1 = p + 1 /\ p + 3 - 1 = p + 2
        /\ p + 4 - 1 = p + 3
    BY <1>1, <1>2, <1>3
  <2>2. \A i \in 1 .. 6 : Data(6)[i] = mem[Wrap(p + i - 1)]
    BY <1>3, <2>1, DataIsWrap
  <2>3. 1 \in 1 .. 6 /\ 2 \in 1 .. 6 /\ 3 \in 1 .. 6 /\ 4 \in 1 .. 6
    OBVIOUS
  <2>4. /\ Data(6)[1] = mem[Wrap(p + 1 - 1)] /\ Data(6)[2] = mem[Wrap(p + 2 - 1)]
        /\ Data(6)[3] = mem[Wrap(p + 3 - 1)] /\ Data(6)[4] = mem[Wrap(p + 4 - 1)]
    BY <2>2, <2>3
  <2> QED
    BY <2>1, <2>4
<1>5. PICK nx \in Nat : nx = Wrap(p + Span(f)) /\ nx < RingSize
  BY <1>3, WrapFacts
<1>6. next' = nx /\ len' = Len(f) /\ nx = following
  <2>1. Word(Low(nx), High(nx)) = nx /\ Word(Low(Len(f)), High(Len(f))) = Len(f)
    BY <1>3, <1>5, WordOfBytes
  <2>2. next' = Word(mem[Wrap(p)], mem[Wrap(p + 1)])
        /\ len' = Word(mem[Wrap(p + 2)], mem[Wrap(p + 3)])
    BY <1>4 DEF ReadHeader
  <2> QED
    BY <1>2, <1>5, <2>1, <2>2 DEF Holds, following
<1>7. ERDPT' = Wrap(oldest + 6) /\ ERDPT' \in 0 .. RX_BUF_END
  <2>1. ERDPT' = After(p, 6)
    BY <1>1, <1>2 DEF ReadHeader
  <2> QED
    BY <1>2, <1>3, <2>1, AfterIsWrap, WrapFacts
<1>8. RingTypes' /\ FramesLie'
  BY <1>1, <1>7, LyingKept
<1>9. ReaderRight'
  BY <1>1, <1>2, <1>6, <1>7 DEF ReaderRight
<1>10. SetUpFirst' /\ SenderRight' /\ Selecting'
  BY <1>1 DEF RingInv, SetUpFirst, SenderRight, Selecting, transmitter
<1> QED
  BY <1>8, <1>9, <1>10 DEF RingInv

\* A sequence is a function
LEMMA BytesAreFunction ==
    ASSUME NEW S, NEW f \in Seq(S)
    PROVE  f \in [1 .. Len(f) -> S]
OBVIOUS

\* The bytes are those of the oldest frame, and ERDPT comes to the next
LEMMA BytesKeepRing == IInv /\ RingInv /\ ReadBytes => RingInv'
<1> SUFFICES ASSUME IInv, RingInv, ReadBytes PROVE RingInv'
  OBVIOUS
<1> USE DEF InFrame, Unset, SettingUp
<1>1. /\ At = "frame" /\ pc = "frame" /\ pc' = "freelow" /\ At' = "freelow" /\ held = pending
      /\ pending # <<>> /\ UNCHANGED <<held, oldest, following, next, len>>
      /\ ERDPT = Wrap(oldest + 6) /\ next = following /\ len = Len(Head(pending))
      /\ UNCHANGED <<mem, ECON1, transmitter, pending, EPKTCNT, ERXWRPT, ERXRDPT>>
  BY DEF ReadBytes, At, held, oldest, following, receiver, RingInv, ReaderRight
<1>2. PICK f \in Incoming, p \in Nat : /\ f = Head(pending) /\ p = oldest /\ p < RingSize
                          /\ Holds(mem, p, f) /\ Span(f) <= RingSize - 2
  BY <1>1, OldestLies
<1>3. PICK n \in Nat : /\ n = Len(f) /\ len = n /\ Padded(n) \in {n, n + 1}
                       /\ Span(f) = 6 + Padded(n) /\ Span(f) \in Nat
                       /\ p + 6 + n < 2 * RingSize /\ p + Span(f) < 2 * RingSize
  BY <1>1, <1>2, SpanFacts, RingNumbers DEF Span
<1>4. Data(len) = f
  <2>1. f \in [1 .. n -> 0 .. ByteMod - 1]
    <3>1. f \in Seq(0 .. ByteMod - 1)
      BY <1>2, ENC28J60Assumption
    <3>2. f \in [1 .. Len(f) -> 0 .. ByteMod - 1]
      BY ONLY <3>1, BytesAreFunction
    <3> QED
      BY ONLY <1>3, <3>2, Zenon
  <2>2. ASSUME NEW k \in 1 .. n PROVE Data(n)[k] = f[k]
    <3>1. p + 6 \in Nat /\ ERDPT = Wrap(p + 6) /\ p + 6 + k - 1 = p + 5 + k
      BY <1>1, <1>2
    <3>2. Data(n)[k] = mem[Wrap(p + 6 + k - 1)]
      BY <1>3, <3>1, DataIsWrap
    <3> QED
      BY <1>2, <1>3, <3>1, <3>2 DEF Holds
  <2>3. Data(n) = [k \in 1 .. n |-> Data(n)[k]]
    BY DEF Data
  <2> QED
    BY <1>3, <2>1, <2>2, <2>3
<1>5. ERDPT' = following /\ ERDPT' \in 0 .. RX_BUF_END
  <2>1. BytesRead(n) = Padded(n)
    <3>1. n % 2 \in {0, 1}
      BY <1>3
    <3> QED
      BY <3>1 DEF BytesRead, Padded
  <2>2. PICK w \in Nat, m \in Nat : w = Wrap(p + 6) /\ m = Padded(n)
    <3>1. p + 6 \in Nat /\ p + 6 < 2 * RingSize /\ Padded(n) \in Nat
      BY <1>2, <1>3, RingNumbers
    <3> QED
      BY <3>1, WrapFacts
  <2>3. After(w, m) = Wrap(p + 6 + m)
    <3>1. p + 6 \in Nat /\ p + 6 + m < 2 * RingSize
      BY <1>3, <2>2
    <3>2. w <= p + 6
      BY <2>2, RingNumbers DEF Wrap
    <3>3. w + m < 2 * RingSize
      BY <3>1, <3>2, RingNumbers
    <3> QED
      BY <2>2, <3>1, <3>3, AfterIsWrap, WrapPlus
  <2>4. ERDPT' = After(w, m)
    BY <1>1, <1>2, <1>3, <2>1, <2>2 DEF ReadBytes
  <2>5. p + 6 + m = p + Span(f)
    BY <1>3, <2>2
  <2> QED
    BY <1>2, <1>3, <2>3, <2>4, <2>5, WrapFacts DEF following
<1>6. RingTypes' /\ FramesLie'
  BY <1>1, <1>5, LyingKept
<1>7. buffer' = IF BufSize >= len THEN Head(pending) ELSE <<>>
  BY <1>2, <1>4 DEF ReadBytes
<1>8. ReaderRight'
  BY <1>1, <1>5, <1>7 DEF ReaderRight
<1>9. SetUpFirst' /\ SenderRight' /\ Selecting'
  BY <1>1 DEF RingInv, SetUpFirst, SenderRight, Selecting, transmitter
<1> QED
  BY <1>6, <1>8, <1>9 DEF RingInv

\* ERXRDPTL alone does nothing
LEMMA FreeLowKeepsRing == IInv /\ RingInv /\ FreeLow => RingInv'
<1> SUFFICES ASSUME IInv, RingInv, FreeLow PROVE RingInv'
  OBVIOUS
<1> USE DEF InFrame, Unset, SettingUp
<1>1. /\ At = "freelow" /\ pc = "freelow" /\ pc' = "freehigh" /\ At' = "freehigh"
      /\ pending # <<>> /\ UNCHANGED <<held, oldest, following, buffer, len, ERDPT>>
      /\ ERDPT = following /\ next = following
      /\ UNCHANGED <<mem, ECON1, transmitter, pending, EPKTCNT, ERXWRPT, ERXRDPT>>
  BY DEF FreeLow, At, held, oldest, following, receiver, RingInv, ReaderRight
<1>2. RingTypes' /\ FramesLie'
  BY <1>1, LyingKept DEF RingInv, RingTypes
<1>3. ReaderRight'
  BY <1>1 DEF RingInv, ReaderRight, FreeLow
<1>4. SetUpFirst' /\ SenderRight' /\ Selecting'
  BY <1>1 DEF RingInv, SetUpFirst, SenderRight, Selecting, transmitter
<1> QED
  BY <1>2, <1>3, <1>4 DEF RingInv

\* The frame that was freed is no longer counted
LEMMA DecrementKeepsRing == IInv /\ RingInv /\ Decrement => RingInv'
<1> SUFFICES ASSUME IInv, RingInv, Decrement PROVE RingInv'
  OBVIOUS
<1> USE DEF InFrame, Unset, SettingUp
<1>1. /\ At = "decrement" /\ pc = "decrement" /\ pc' = "idle" /\ At' = "idle"
      /\ pending # <<>> /\ UNCHANGED <<held, oldest>> /\ ERDPT = oldest
      /\ UNCHANGED <<mem, ECON1, transmitter, ERXWRPT, ERXRDPT, ERDPT>>
      /\ pending' = Tail(pending) /\ EPKTCNT' = EPKTCNT - 1
  BY DEF Decrement, At, held, oldest, receiver, RingInv, ReaderRight
<1>2. FramesLie'
  BY <1>1 DEF RingInv, FramesLie
<1>3. RingTypes'
  BY <1>1 DEF RingInv, RingTypes
<1>4. ReaderRight'
  BY <1>1 DEF ReaderRight
<1>5. SetUpFirst' /\ SenderRight' /\ Selecting'
  BY <1>1 DEF RingInv, SetUpFirst, SenderRight, Selecting, transmitter
<1> QED
  BY <1>2, <1>3, <1>4, <1>5 DEF RingInv

\* Reset, after which the ring is empty
LEMMA BufferKeepsRing == IInv /\ RingInv /\ (begin \/ SetUpBuffer) => RingInv'
<1> SUFFICES ASSUME IInv, RingInv, begin \/ SetUpBuffer PROVE RingInv'
  OBVIOUS
<1> USE DEF InFrame, Unset, SettingUp
<1>1. CASE begin
  <2>1. /\ At' = "clock" /\ pc' = "clock" /\ pending' = <<>> /\ ~ECON1'.rxen /\ ~ECON1'.txrts
        /\ DOMAIN mem' = 0 .. MemoryEnd /\ EPKTCNT' = 0 /\ ERXWRPT' = 0 /\ ERXRDPT' = 0
        /\ ERDPT' = 0
    BY <1>1 DEF begin, At
  <2>2. RingTypes'
    BY <2>1, RingNumbers DEF RingTypes
  <2>3. FramesLie' /\ ReaderRight' /\ SetUpFirst' /\ SenderRight' /\ Selecting'
    BY <2>1 DEF FramesLie, ReaderRight, SetUpFirst, SenderRight, Selecting
  <2> QED
    BY <2>2, <2>3 DEF RingInv
<1>2. CASE SetUpBuffer
  <2>1. /\ At = "rxbuffer" /\ pc = "rxbuffer" /\ At' = "filter" /\ pc' = "bankread"
        /\ ERXWRPT' = 0 /\ ERDPT' = 0 /\ ERXRDPT' = RX_BUF_END
        /\ UNCHANGED <<mem, ECON1, pending, EPKTCNT>> /\ Selecting'
    BY <1>2 DEF SetUpBuffer, SetBank, At, RX_BUF_START, Selecting
  <2>2. pending = <<>> /\ ~ECON1.rxen /\ ~ECON1.txrts
    BY <2>1 DEF RingInv, SetUpFirst, IInv, TransmitsInWait
  <2>3. RingTypes'
    BY <2>1, RingNumbers DEF RingInv, RingTypes
  <2>4. oldest' = 0 /\ Wrap(0) = 0
    BY <2>1, RingNumbers DEF oldest, Wrap
  <2>5. FramesLie'
    <3>1. PICK pos : pos = [i \in 1 .. 1 |-> 0]
      OBVIOUS
    <3>2. pos[1] = 0 /\ held' = <<>> /\ Len(<<>>) = 0
      BY <2>1, <2>2, <3>1 DEF held
    <3>3. pos \in [1 .. 0 + 1 -> Nat] /\ pos[0 + 1] <= pos[1] + RingSize - 2 /\ 0 % 2 = 0
      BY <3>1, <3>2, RingNumbers
    <3>4. Laid(mem', <<>>, pos)
      <4>1. \A i, j \in 1 .. Len(<<>>) + 1 : i <= j => pos[i] <= pos[j]
        BY <3>1, <3>2
      <4>2. \A i \in 1 .. Len(<<>>) : FALSE
        BY <3>2
      <4>3. pos \in [1 .. Len(<<>>) + 1 -> Nat] /\ pos[1] < RingSize
            /\ \A i \in 1 .. Len(<<>>) + 1 : pos[i] % 2 = 0
            /\ pos[Len(<<>>) + 1] <= pos[1] + RingSize - 2
        BY <3>1, <3>2, <3>3, RingNumbers
      <4> QED
        BY <4>1, <4>2, <4>3 DEF Laid
    <3>5. ERXWRPT' = Wrap(pos[Len(<<>>) + 1])'
      BY <2>1, <2>4, <3>2
    <3> QED
      BY <2>4, <3>2, <3>4, <3>5 DEF FramesLie
  <2>6. ReaderRight' /\ SetUpFirst' /\ SenderRight'
    BY <2>1, <2>2, <2>4 DEF ReaderRight, SetUpFirst, SenderRight
  <2> QED
    BY <2>1, <2>3, <2>5, <2>6 DEF RingInv
<1> QED
  BY <1>1, <1>2

\* The oldest frame is freed, and nothing of the others
LEMMA FreeHighKeepsRing == IInv /\ RingInv /\ FreeHigh => RingInv'
<1> SUFFICES ASSUME IInv, RingInv, FreeHigh PROVE RingInv'
  OBVIOUS
<1> USE DEF InFrame, Unset, SettingUp
<1>1. /\ At = "freehigh" /\ pc = "freehigh" /\ pc' = "decrement" /\ At' = "decrement"
      /\ held = pending /\ pending # <<>> /\ held' = Tail(pending) /\ ERDPT = following
      /\ next = Freed(following) /\ ERXRDPTL = Low(next) /\ len = Len(Head(pending))
      /\ buffer = IF BufSize >= len THEN Head(pending) ELSE <<>>
      /\ UNCHANGED <<ECON1, transmitter, pending, EPKTCNT, ERXWRPT, ERDPT, len, buffer>>
  BY DEF FreeHigh, At, held, locals, RingInv, ReaderRight
<1>2. PICK f \in Incoming, o \in Nat : /\ f = Head(pending) /\ o = oldest /\ o < RingSize
                                       /\ Span(f) <= RingSize - 2
  BY <1>1, OldestLies
<1>3. PICK s \in Nat : s = Span(f) /\ s >= 6 /\ s <= RingSize - 2
  BY <1>2, SpanFacts
<1>4. PICK w \in Nat, r \in Nat, q \in Nat :
        /\ w = following /\ w = Wrap(o + s) /\ w < RingSize
        /\ r = ERXRDPT /\ r < RingSize /\ q = Freed(w)
        /\ q = IF w = 0 THEN RingSize - 1 ELSE w - 1
  <2>1. o + s \in Nat /\ o + s < 2 * RingSize
    BY <1>2, <1>3, RingNumbers
  <2>2. following = Wrap(o + s)
    BY <1>1, <1>2, <1>3 DEF following
  <2>3. PICK w \in Nat : w = Wrap(o + s) /\ w < RingSize
    BY <2>1, WrapFacts
  <2>4. Freed(w) = IF w = 0 THEN RingSize - 1 ELSE w - 1
    BY RingNumbers DEF Freed, RX_BUF_START
  <2>5. Freed(w) \in Nat
    BY <2>3, <2>4, RingNumbers
  <2>6. ERXRDPT \in Nat /\ ERXRDPT < RingSize
    BY RingNumbers DEF RingInv, RingTypes
  <2> QED
    BY <2>2, <2>3, <2>4, <2>5, <2>6
<1>5. ERXRDPT' = q
  <2>1. next = q /\ Word(Low(q), High(q)) = q
    BY <1>1, <1>4, WordOfBytes
  <2> QED
    BY <1>1, <2>1 DEF FreeHigh
<1>6. oldest' = w /\ q \in 0 .. RX_BUF_END /\ (o = IF r = RingSize - 1 THEN 0 ELSE r + 1)
  <2>1. oldest' = Wrap(q + 1) /\ o = Wrap(r + 1)
    BY <1>2, <1>4, <1>5 DEF oldest, Wrap
  <2> QED
    BY <1>4, <2>1, RingNumbers DEF Wrap
<1>7. ASSUME NEW a \in DOMAIN mem, ~(/\ a <= RX_BUF_END /\ a \in Nat
                                     /\ \/ r < a /\ a <= q
                                        \/ q < r /\ (a <= q \/ r < a))
      PROVE  mem'[a] = mem[a]
  BY <1>4, <1>5, <1>7 DEF FreeHigh
<1>8. DOMAIN mem' = DOMAIN mem /\ DOMAIN mem = 0 .. MemoryEnd
  BY DEF FreeHigh, RingInv, RingTypes
<1>9. PICK pos : Laid(mem, pending, pos) /\ pos[1] = o /\ ERXWRPT = Wrap(pos[Len(pending) + 1])
  BY <1>1, <1>2 DEF RingInv, FramesLie
<1>10. pending \in Seq(Incoming) /\ Tail(pending) \in Seq(Incoming)
  BY <1>1 DEF RingInv, RingTypes
<1>11. PICK new : /\ Laid(mem, Tail(pending), new) /\ new[1] = Wrap(pos[2])
                  /\ Wrap(new[Len(Tail(pending)) + 1]) = Wrap(pos[Len(pending) + 1])
  BY <1>1, <1>9, <1>10, LaidOneLess
<1>12. PICK n \in Nat : n = Len(pending) /\ n >= 1 /\ Len(Tail(pending)) + 1 = n
  BY <1>1, <1>10
<1>13. /\ pos \in [1 .. n + 1 -> Nat] /\ pos[2] = o + s /\ pos[2] <= pos[n + 1]
       /\ pos[n + 1] <= o + RingSize - 2
  <2>1. 2 \in 1 .. n + 1 /\ n + 1 \in 1 .. n + 1 /\ 1 \in 1 .. n /\ 2 <= n + 1
        /\ Head(pending) = pending[1]
    BY <1>12
  <2> QED
    BY <1>2, <1>3, <1>9, <1>12, <2>1 DEF Laid
<1>14. /\ new \in [1 .. n -> Nat] /\ new[1] = w /\ new[1] <= new[n]
       /\ new[n] <= w + RingSize - 2
  <2>1. 1 \in 1 .. n /\ n \in 1 .. n /\ 1 <= n
    BY <1>12
  <2> QED
    BY <1>4, <1>11, <1>12, <1>13, <2>1 DEF Laid
<1>15. PICK e \in Nat, g \in Nat : /\ e = pos[n + 1] /\ g = new[n] /\ Wrap(g) = Wrap(e)
                                   /\ o + s <= e /\ e <= o + RingSize - 2
                                   /\ w <= g /\ g <= w + RingSize - 2
  BY <1>11, <1>12, <1>13, <1>14
<1>16. w = IF o + s < RingSize THEN o + s ELSE o + s - RingSize
  BY <1>2, <1>3, <1>4, RingNumbers DEF Wrap
<1>17. g <= w + RingSize - 2 - s
  BY <1>2, <1>3, <1>15, <1>16, RingNumbers DEF Wrap
<1>18. ASSUME NEW p \in Nat, w <= p, p < g
       PROVE  mem'[Wrap(p)] = mem[Wrap(p)]
  <2>1. PICK a \in Nat : a = Wrap(p) /\ a < RingSize /\ (a = p \/ a = p - RingSize)
    <3>1. p < 2 * RingSize
      BY <1>4, <1>15, <1>18, RingNumbers
    <3> QED
      BY <3>1, WrapFacts DEF Wrap
  <2>2. a \in DOMAIN mem
    BY <1>8, <2>1, RingNumbers
  <2>3. ~(r < a /\ a <= q)
    BY <1>2, <1>3, <1>4, <1>6, <1>16, <1>17, <1>18, <2>1, RingNumbers
  <2>4. ~(q < r /\ (a <= q \/ r < a))
    BY <1>2, <1>3, <1>4, <1>6, <1>16, <1>17, <1>18, <2>1, RingNumbers
  <2> QED
    BY <1>7, <2>1, <2>2, <2>3, <2>4
<1>19. Laid(mem', Tail(pending), new)
  <2>1. PICK m : m = mem'
    OBVIOUS
  <2>2. PICK rest \in Seq(Incoming) : rest = Tail(pending)
    BY <1>10
  <2>3. \A p \in Nat : new[1] <= p /\ p < new[Len(rest) + 1] => m[Wrap(p)] = mem[Wrap(p)]
    BY <1>12, <1>14, <1>15, <1>18, <2>1, <2>2
  <2>4. Laid(mem, rest, new)
    BY <1>11, <2>2
  <2>5. Laid(m, rest, new)
    BY <2>3, <2>4, LaidKept
  <2> QED
    BY <2>1, <2>2, <2>5
<1>20. FramesLie'
  <2>1. /\ Laid(mem', held', new) /\ new[1] = oldest'
        /\ ERXWRPT' = Wrap(new[Len(held') + 1])
    BY <1>1, <1>6, <1>9, <1>11, <1>14, <1>19
  <2>2. Wrap(new[Len(held') + 1]) = Wrap(new[Len(held) + 1])'
    BY DEF Wrap
  <2> QED
    BY <2>1, <2>2 DEF FramesLie
<1>21. RingTypes'
  BY <1>1, <1>5, <1>6, <1>8 DEF RingInv, RingTypes
<1>22. ReaderRight'
  BY <1>1, <1>4, <1>6 DEF ReaderRight
<1>23. SenderRight'
  <2>1. ~ECON1'.txrts /\ pc' # "transmit" /\ At' # "write"
    BY <1>1 DEF IInv, TransmitsInWait
  <2> QED
    BY <2>1 DEF SenderRight
<1>24. SetUpFirst' /\ Selecting'
  BY <1>1 DEF SetUpFirst, Selecting
<1> QED
  BY <1>20, <1>21, <1>22, <1>23, <1>24 DEF RingInv

\* The frame to send is written outside the ring
LEMMA WriteKeepsRing == IInv /\ RingInv /\ WriteFrame => RingInv'
<1> SUFFICES ASSUME IInv, RingInv, WriteFrame PROVE RingInv'
  OBVIOUS
<1> USE DEF InFrame, Unset, SettingUp
<1>1. /\ At = "write" /\ pc = "write" /\ pc' = "transmit" /\ At' = "transmit"
      /\ UNCHANGED <<held, oldest, sending, ECON1, receiver, ERDPT>> /\ sending \in Outgoing
      /\ ERDPT = oldest /\ ETXST' = TX_BUF_START /\ ETXND' = TX_BUF_START + Len(sending)
  BY DEF WriteFrame, At, held, oldest, receiver, RingInv, ReaderRight, SenderRight
<1>2. DOMAIN mem' = DOMAIN mem /\ DOMAIN mem = 0 .. MemoryEnd
  BY DEF WriteFrame, RingInv, RingTypes
<1>3. ASSUME NEW p \in Nat, p < 2 * RingSize
      PROVE  mem'[Wrap(p)] = mem[Wrap(p)]
  <2>1. PICK a \in Nat : a = Wrap(p) /\ a < RingSize
    BY <1>3, WrapFacts
  <2>2. /\ a \in DOMAIN mem /\ a # TX_BUF_START
        /\ a \notin TX_BUF_START + 1 .. TX_BUF_START + Len(sending)
    BY <1>2, <2>1, RingNumbers
  <2> QED
    BY <2>1, <2>2 DEF WriteFrame
<1>4. FramesLie'
  <2>1. PICK pos : Laid(mem, held, pos) /\ pos[1] = oldest /\ ERXWRPT = Wrap(pos[Len(held) + 1])
    BY <1>1 DEF RingInv, FramesLie
  <2>2. PICK m : m = mem'
    OBVIOUS
  <2>3. PICK frames \in Seq(Incoming) : frames = held
    BY <1>1 DEF RingInv, RingTypes, held
  <2>4. PICK n \in Nat : n = Len(frames) + 1 /\ n \in 1 .. n /\ 1 \in 1 .. n
    BY <2>3
  <2>5. pos[n] \in Nat /\ pos[1] \in Nat /\ pos[n] <= pos[1] + RingSize - 2 /\ pos[1] < RingSize
    BY <2>1, <2>3, <2>4 DEF Laid
  <2>6. \A p \in Nat : pos[1] <= p /\ p < pos[Len(frames) + 1] => m[Wrap(p)] = mem[Wrap(p)]
    <3>1. ASSUME NEW p \in Nat, p < pos[n] PROVE p < 2 * RingSize
      BY <2>5, <3>1, RingNumbers
    <3> QED
      BY <1>3, <2>2, <2>3, <2>4, <3>1
  <2>7. Laid(m, frames, pos)
    BY <2>1, <2>3, <2>6, LaidKept
  <2>8. Laid(mem', held', pos) /\ pos[1] = oldest' /\ ERXWRPT' = Wrap(pos[Len(held) + 1])'
    BY <1>1, <2>2, <2>1, <2>3, <2>7 DEF receiver, Wrap
  <2> QED
    BY <2>8 DEF FramesLie
<1>5. RingTypes'
  BY <1>1, <1>2 DEF RingInv, RingTypes, receiver
<1>6. ReaderRight'
  BY <1>1 DEF ReaderRight
<1>7. SenderRight'
  <2>1. ASSUME NEW i \in 1 .. Len(sending)
        PROVE  mem'[TX_BUF_START + i] = sending[i]
    <3>1. PICK n \in Nat : n = Len(sending) /\ TX_BUF_START + n <= MemoryEnd
      BY <1>1, ENC28J60Assumption
    <3>2. PICK a \in Nat : /\ a = TX_BUF_START + i /\ a \in DOMAIN mem /\ a - TX_BUF_START = i
                           /\ a \in TX_BUF_START + 1 .. TX_BUF_START + n
      BY <1>2, <3>1, RingNumbers
    <3>3. mem'[a] = sending[a - TX_BUF_START]
      BY <3>1, <3>2 DEF WriteFrame
    <3> QED
      BY <3>2, <3>3
  <2> QED
    BY <1>1, <2>1 DEF SenderRight
<1>8. SetUpFirst' /\ Selecting'
  BY <1>1 DEF SetUpFirst, Selecting
<1> QED
  BY <1>4, <1>5, <1>6, <1>7, <1>8 DEF RingInv

\* Frames to send fit behind the ring
LEMMA OutgoingFacts ==
    ASSUME NEW f \in Outgoing
    PROVE  Len(f) \in Nat /\ TX_BUF_START + Len(f) <= MemoryEnd
BY ENC28J60Assumption

\* What the controller stores for a frame
LEMMA StoredFacts ==
    ASSUME NEW f \in Incoming
    PROVE  /\ Len(Stored(f)) = Len(f) + 6
           /\ Stored(f)[1] = Low(After(ERXWRPT, Span(f)))
           /\ Stored(f)[2] = High(After(ERXWRPT, Span(f)))
           /\ Stored(f)[3] = Low(Len(f)) /\ Stored(f)[4] = High(Len(f))
           /\ \A k \in 1 .. Len(f) : Stored(f)[6 + k] = f[k]
<1>1. PICK at : at = After(ERXWRPT, Span(f))
  OBVIOUS
<1>2. PICK n \in Nat : n = Len(f) /\ f \in Seq(0 .. ByteMod - 1)
  BY ENC28J60Assumption
<1>3. PICK h : h = <<Low(at), High(at), Low(n), High(n), 0, 0>> /\ Stored(f) = h \o f
  BY <1>1, <1>2 DEF Stored, Span
<1>4. Len(h) = 6 /\ h[1] = Low(at) /\ h[2] = High(at) /\ h[3] = Low(n) /\ h[4] = High(n)
  BY <1>3
<1>5. PICK g : g = h \o f
  OBVIOUS
<1>6. /\ Len(g) = 6 + n /\ g[1] = h[1] /\ g[2] = h[2] /\ g[3] = h[3] /\ g[4] = h[4]
      /\ \A k \in 1 .. n : g[6 + k] = f[k]
  BY <1>2, <1>4, <1>5, <1>3
<1> QED
  BY <1>1, <1>2, <1>3, <1>4, <1>5, <1>6

\* A frame that arrives is laid behind the last, and overwrites none
LEMMA ReceiveKeepsRing == IInv /\ RingInv /\ (\E f \in Incoming : ChipReceives(f)) => RingInv'
<1> SUFFICES ASSUME IInv, RingInv, NEW f \in Incoming, ChipReceives(f) PROVE RingInv'
  OBVIOUS
<1>1. /\ ECON1.rxen /\ At' = At /\ pc' = pc /\ pending' = Append(pending, f)
      /\ EPKTCNT' = EPKTCNT + 1 /\ Span(f) <= Free /\ ERXWRPT' = After(ERXWRPT, Span(f))
      /\ UNCHANGED <<oldest, ECON1, transmitter, ERDPT, ERXRDPT, ERXRDPTL, switching, locals>>
  BY DEF ChipReceives, At, switching, oldest, Span
<1>2. At \notin SettingUp /\ At \notin Unset
  BY <1>1 DEF RingInv, SetUpFirst, SettingUp
<1>3. PICK frames \in Seq(Incoming), n \in Nat : frames = held /\ n = Len(frames)
  <2>1. held \in Seq(Incoming)
    <3>1. pc = "decrement" => pending # <<>>
      BY DEF RingInv, ReaderRight, At
    <3> QED
      BY <3>1 DEF RingInv, RingTypes, held
  <2> QED
    BY <2>1
<1>4. PICK pos : Laid(mem, frames, pos) /\ pos[1] = oldest /\ ERXWRPT = Wrap(pos[n + 1])
  BY <1>2, <1>3 DEF RingInv, FramesLie
<1>5. /\ pos \in [1 .. n + 1 -> Nat] /\ pos[1] < RingSize /\ pos[1] <= pos[n + 1]
      /\ pos[n + 1] <= pos[1] + RingSize - 2
  <2>1. 1 \in 1 .. n + 1 /\ n + 1 \in 1 .. n + 1 /\ 1 <= n + 1
    BY <1>3
  <2> QED
    BY <1>3, <1>4, <2>1 DEF Laid
<1>6. PICK o \in Nat, e \in Nat : o = pos[1] /\ e = pos[n + 1]
  BY <1>5
<1>7. o <= e /\ o < RingSize /\ e <= o + RingSize - 2
  BY <1>5, <1>6
<1>8. PICK s \in Nat, l \in Nat : s = Span(f) /\ l = Len(f)
  BY SpanFacts
<1>9. l + 6 <= s
  BY <1>8, SpanFacts
<1>10. PICK w \in Nat, r \in Nat :
        /\ w = ERXWRPT /\ w < RingSize /\ r = ERXRDPT /\ r < RingSize
        /\ w = (IF e < RingSize THEN e ELSE e - RingSize)
        /\ o = (IF r = RingSize - 1 THEN 0 ELSE r + 1)
  <2>1. ERXWRPT \in Nat /\ ERXRDPT \in Nat /\ ERXWRPT < RingSize /\ ERXRDPT < RingSize
    BY RingSizes DEF RingInv, RingTypes
  <2>2. ERXWRPT = (IF e < RingSize THEN e ELSE e - RingSize)
    BY <1>4, <1>6 DEF Wrap
  <2>3. o = (IF ERXRDPT = RingSize - 1 THEN 0 ELSE ERXRDPT + 1)
    <3>1. o = Wrap(ERXRDPT + 1)
      BY <1>4, <1>6 DEF oldest
    <3> QED
      BY <2>1, <3>1, RingSizes DEF Wrap
  <2> QED
    BY <2>1, <2>2, <2>3
  \* The room of the ring, from the pointers
<1>11. e + s <= o + RingSize - 2
  <2>1. Free = o + RingSize - 2 - e
    BY <1>7, <1>10, RingSizes DEF Free
  <2>2. s <= Free
    BY <1>1, <1>8
  <2> QED
    BY <1>7, <1>9, <2>1, <2>2, RingSizes
<1>12. PICK m, st, at : /\ m = mem' /\ st = Stored(f) /\ Len(st) = l + 6
                        /\ at = [a \in DOMAIN mem |-> {i \in 1 .. l + 6 : After(w, i - 1) = a}]
  BY <1>8, StoredFacts
<1>13. /\ DOMAIN m = DOMAIN mem /\ DOMAIN mem = 0 .. MemoryEnd
       /\ \A a \in DOMAIN mem : m[a] = IF at[a] = {} THEN mem[a] ELSE st[CHOOSE i \in at[a] : TRUE]
  <2>1. m = [a \in DOMAIN mem |->
                IF {i \in 1 .. Len(Stored(f)) : After(ERXWRPT, i - 1) = a} = {} THEN mem[a]
                ELSE Stored(f)[CHOOSE i \in {i \in 1 .. Len(Stored(f)) :
                                                 After(ERXWRPT, i - 1) = a} : TRUE]]
    BY <1>12 DEF ChipReceives
  <2>2. ERXWRPT = w /\ Stored(f) = st /\ Len(Stored(f)) = l + 6
    BY <1>10, <1>12
  <2>3. m = [a \in DOMAIN mem |->
                IF {i \in 1 .. l + 6 : After(w, i - 1) = a} = {} THEN mem[a]
                ELSE st[CHOOSE i \in {i \in 1 .. l + 6 : After(w, i - 1) = a} : TRUE]]
    BY <2>1, <2>2
  <2>4. DOMAIN mem = 0 .. MemoryEnd
    BY DEF RingInv, RingTypes
  <2>5. ASSUME NEW a \in DOMAIN mem
        PROVE  m[a] = IF at[a] = {} THEN mem[a] ELSE st[CHOOSE i \in at[a] : TRUE]
    <3>1. PICK c : c = {i \in 1 .. l + 6 : After(w, i - 1) = a} /\ at[a] = c
      BY <1>12
    <3>2. m[a] = IF {i \in 1 .. l + 6 : After(w, i - 1) = a} = {} THEN mem[a]
                 ELSE st[CHOOSE i \in {i \in 1 .. l + 6 : After(w, i - 1) = a} : TRUE]
      BY <2>3
    <3> QED
      BY <3>1, <3>2
  <2> QED
    BY <2>3, <2>4, <2>5
<1>14. ASSUME NEW i \in 1 .. l + 6
       PROVE  After(w, i - 1) = Wrap(e + (i - 1)) /\ After(w, i - 1) < RingSize
              /\ After(w, i - 1) \in Nat
  <2>1. PICK k \in Nat : k = i - 1 /\ e + k < 2 * RingSize /\ w + k < 2 * RingSize
    BY <1>7, <1>9, <1>10, <1>11, RingSizes
  <2>2. After(w, k) = Wrap(w + k) /\ Wrap(Wrap(e) + k) = Wrap(e + k) /\ w = Wrap(e)
    BY <1>10, <2>1, AfterIsWrap, WrapPlus DEF Wrap
  <2>3. Wrap(e + k) \in Nat /\ Wrap(e + k) < RingSize
    BY <2>1, WrapFacts
  <2> QED
    BY <2>1, <2>2, <2>3
  \* What is new
<1>15. ASSUME NEW k \in 1 .. l + 6
       PROVE  m[Wrap(e + (k - 1))] = st[k]
  <2>1. PICK a \in Nat : a = Wrap(e + (k - 1)) /\ a = After(w, k - 1) /\ a < RingSize
    BY <1>14
  <2>2. a \in DOMAIN mem
    BY <1>13, <2>1, RingSizes
  <2>3. ASSUME NEW i \in 1 .. l + 6, After(w, i - 1) = a
        PROVE  i = k
    <3>1. Wrap(e + (i - 1)) = Wrap(e + (k - 1))
      BY <1>14, <2>1, <2>3
    <3> QED
      BY <1>7, <1>9, <1>11, <3>1, RingSizes DEF Wrap
  <2>4. at[a] = {k}
    BY <1>12, <2>1, <2>2, <2>3
  <2>5. (CHOOSE i \in {k} : TRUE) = k
    OBVIOUS
  <2> QED
    BY <1>13, <2>1, <2>2, <2>4, <2>5
  \* What is not
<1>16. ASSUME NEW a \in DOMAIN mem, \A i \in 1 .. l + 6 : After(w, i - 1) # a
       PROVE  m[a] = mem[a]
  <2>1. at[a] = {}
    BY <1>12, <1>16
  <2> QED
    BY <1>13, <2>1
<1>17. ASSUME NEW p \in Nat, o <= p, p < e
       PROVE  m[Wrap(p)] = mem[Wrap(p)]
  <2>1. PICK a \in Nat : a = Wrap(p) /\ a < RingSize
    <3>1. p < 2 * RingSize
      BY <1>7, <1>17, RingSizes
    <3> QED
      BY <3>1, WrapFacts
  <2>2. a \in DOMAIN mem
    BY <1>13, <2>1, RingSizes
  <2>3. ASSUME NEW i \in 1 .. l + 6, After(w, i - 1) = a
        PROVE  FALSE
    <3>1. Wrap(e + (i - 1)) = Wrap(p)
      BY <1>14, <2>1, <2>3
    <3> QED
      BY <1>7, <1>9, <1>11, <1>17, <3>1, RingSizes DEF Wrap
  <2> QED
    BY <1>16, <2>1, <2>2, <2>3
<1>18. ASSUME NEW a \in DOMAIN mem, a >= RingSize
       PROVE  m[a] = mem[a]
  <2>1. a \in Nat
    BY <1>13
  <2>2. \A i \in 1 .. l + 6 : After(w, i - 1) # a
    BY <1>14, <1>18, <2>1, RingSizes
  <2> QED
    BY <1>16, <2>2
<1>19. Laid(m, frames, pos)
  <2>1. \A p \in Nat : pos[1] <= p /\ p < pos[Len(frames) + 1] => m[Wrap(p)] = mem[Wrap(p)]
    BY <1>3, <1>6, <1>17
  <2> QED
    BY <1>4, <2>1, LaidKept
<1>20. Holds(m, e, f)
  <2>1. After(ERXWRPT, s) = Wrap(e + s)
    <3>1. e + s < 2 * RingSize /\ w + s < 2 * RingSize /\ w = Wrap(e)
      BY <1>7, <1>10, <1>11, RingSizes DEF Wrap
    <3> QED
      BY <1>7, <1>10, <3>1, AfterIsWrap, WrapPlus
  <2>2. /\ st[1] = Low(Wrap(e + s)) /\ st[2] = High(Wrap(e + s))
        /\ st[3] = Low(l) /\ st[4] = High(l)
        /\ \A k \in 1 .. l : st[6 + k] = f[k]
    BY <1>8, <1>12, <2>1, StoredFacts
  <2>3. /\ m[Wrap(e + (1 - 1))] = st[1] /\ m[Wrap(e + (2 - 1))] = st[2]
        /\ m[Wrap(e + (3 - 1))] = st[3] /\ m[Wrap(e + (4 - 1))] = st[4]
    <3>1. 1 \in 1 .. l + 6 /\ 2 \in 1 .. l + 6 /\ 3 \in 1 .. l + 6 /\ 4 \in 1 .. l + 6
      BY <1>9
    <3> QED
      BY <1>15, <3>1
  <2>4. e + (1 - 1) = e /\ e + (2 - 1) = e + 1 /\ e + (3 - 1) = e + 2 /\ e + (4 - 1) = e + 3
    BY <1>7
  <2>5. ASSUME NEW k \in 1 .. l PROVE m[Wrap(e + 5 + k)] = f[k]
    <3>1. 6 + k \in 1 .. l + 6 /\ e + (6 + k - 1) = e + 5 + k
      BY <1>7, <1>9
    <3>2. m[Wrap(e + (6 + k - 1))] = st[6 + k]
      BY <1>15, <3>1
    <3> QED
      BY <2>2, <3>1, <3>2
  <2> QED
    BY <1>8, <2>2, <2>3, <2>4, <2>5 DEF Holds
<1>21. PICK new : /\ Laid(m, Append(frames, f), new) /\ new[1] = pos[1]
                  /\ new[Len(Append(frames, f)) + 1] = e + s
  <2>1. pos[Len(frames) + 1] = e /\ pos[1] = o /\ Span(f) = s
    BY <1>3, <1>6, <1>8
  <2>2. pos[Len(frames) + 1] + Span(f) <= pos[1] + RingSize - 2
    BY <1>11, <2>1
  <2>3. Holds(m, pos[Len(frames) + 1], f)
    BY <1>20, <2>1
  <2>4. \E new : /\ Laid(m, Append(frames, f), new) /\ new[1] = pos[1]
                 /\ new[Len(Append(frames, f)) + 1] = pos[Len(frames) + 1] + Span(f)
    BY <1>19, <2>2, <2>3, LaidOneMore
  <2> QED
    BY <2>1, <2>4
<1>22. ERXWRPT' = Wrap(e + s)
  <2>1. e + s < 2 * RingSize /\ w + s < 2 * RingSize /\ w = Wrap(e)
    BY <1>7, <1>10, <1>11, RingSizes DEF Wrap
  <2> QED
    BY <1>1, <1>8, <1>10, <2>1, AfterIsWrap, WrapPlus
<1>23. held' = Append(frames, f)
  <2>1. CASE pc = "decrement"
    <3>1. pending # <<>> /\ pending \in Seq(Incoming)
      BY <2>1 DEF RingInv, ReaderRight, RingTypes, At
    <3>2. held = Tail(pending) /\ held' = Tail(Append(pending, f))
      BY <1>1, <2>1 DEF held
    <3>3. PICK q \in Seq(Incoming) : q = pending
      BY <3>1
    <3>4. Tail(Append(q, f)) = Append(Tail(q), f)
      BY <3>1, <3>3
    <3> QED
      BY <1>3, <3>2, <3>3, <3>4
  <2>2. CASE pc # "decrement"
    BY <1>1, <1>3, <2>2 DEF held
  <2> QED
    BY <2>1, <2>2
<1>24. FramesLie'
  <2>1. /\ Laid(mem', held', new) /\ new[1] = oldest'
        /\ ERXWRPT' = Wrap(new[Len(held) + 1])'
    BY <1>1, <1>4, <1>12, <1>21, <1>22, <1>23 DEF Wrap
  <2> QED
    BY <2>1 DEF FramesLie
<1>25. RingTypes'
  <2>1. e + s < 2 * RingSize
    BY <1>7, <1>11, RingSizes
  <2>2. ERXWRPT' \in 0 .. RX_BUF_END
    BY <1>22, <2>1, WrapFacts
  <2>3. pending' \in Seq(Incoming) /\ EPKTCNT' = Len(pending')
    BY <1>1 DEF RingInv, RingTypes
  <2>4. DOMAIN mem' = 0 .. MemoryEnd
    BY <1>12, <1>13
  <2> QED
    BY <1>1, <2>2, <2>3, <2>4 DEF RingInv, RingTypes
<1>26. ReaderRight'
  <2>1. pending' # <<>> /\ (pending # <<>> => Head(pending') = Head(pending))
    BY <1>1 DEF RingInv, RingTypes
  <2>2. pending # <<>> => following' = following
    BY <1>1, <2>1 DEF following
  <2>3. At \in {"header"} \cup InFrame => pending # <<>>
    BY DEF RingInv, ReaderRight, InFrame
  <2>4. pc \in InFrame => At = pc
    BY DEF At, InFrame
  <2> QED
    BY <1>1, <2>1, <2>2, <2>3, <2>4 DEF RingInv, ReaderRight, InFrame, locals
<1>27. SenderRight'
  <2>1. CASE ~(pc = "transmit" \/ ECON1.txrts)
    BY <1>1, <2>1 DEF RingInv, SenderRight, transmitter
  <2>2. CASE pc = "transmit" \/ ECON1.txrts
    <3>1. sending \in Outgoing /\ \A i \in 1 .. Len(sending) : mem[TX_BUF_START + i] = sending[i]
      BY <2>2 DEF RingInv, SenderRight
    <3>2. ASSUME NEW i \in 1 .. Len(sending)
          PROVE  mem'[TX_BUF_START + i] = sending[i]
      <4>1. PICK k \in Nat : k = Len(sending) /\ TX_BUF_START + k <= MemoryEnd
        BY <3>1, OutgoingFacts
      <4>2. TX_BUF_START + i \in DOMAIN mem /\ TX_BUF_START + i >= RingSize
        BY <1>13, <4>1, RingSizes
      <4> QED
        BY <1>12, <1>18, <3>1, <4>2
    <3> QED
      BY <1>1, <2>2, <3>2 DEF RingInv, SenderRight, transmitter
  <2> QED
    BY <2>1, <2>2
<1>28. SetUpFirst' /\ Selecting'
  BY <1>1, <1>2 DEF RingInv, SetUpFirst, Selecting, switching
<1> QED
  BY <1>24, <1>25, <1>26, <1>27, <1>28 DEF RingInv

\* After reset nothing is in the ring.
LEMMA InitRing == Init => RingInv
<1> SUFFICES ASSUME Init PROVE RingInv
  OBVIOUS
<1>1. /\ pc = "clock" /\ At = "clock" /\ pending = <<>> /\ ~ECON1.rxen /\ ~ECON1.txrts
      /\ DOMAIN mem = 0 .. MemoryEnd /\ EPKTCNT = 0 /\ ERXWRPT = 0 /\ ERXRDPT = 0 /\ ERDPT = 0
  BY DEF Init, At
<1>2. RingTypes
  BY <1>1, RingNumbers DEF RingTypes
<1>3. FramesLie /\ ReaderRight /\ SetUpFirst /\ SenderRight /\ Selecting
  BY <1>1 DEF FramesLie, ReaderRight, SetUpFirst, SenderRight, Selecting, Unset
<1> QED
  BY <1>2, <1>3 DEF RingInv

LEMMA NextRing == IInv /\ RingInv /\ [Next]_vars => RingInv'
<1> SUFFICES ASSUME IInv, RingInv, [Next]_vars PROVE RingInv'
  OBVIOUS
<1>1. CASE UNCHANGED vars
  <2>1. UNCHANGED ring /\ UNCHANGED <<pc, then, transmitter, ECON1>>
    BY <1>1 DEF vars, ring, receiver, switching, locals
  <2>2. RingTypes' /\ FramesLie' /\ ReaderRight'
    BY <2>1, QuietKeeps
  <2>3. SetUpFirst' /\ SenderRight' /\ Selecting'
    BY <2>1 DEF RingInv, SetUpFirst, SenderRight, Selecting, At, ring, transmitter
  <2> QED
    BY <2>2, <2>3 DEF RingInv
<1>2. CASE Chip \/ \E f \in Incoming : ChipReceives(f)
  BY <1>2, ChipKeepsRing, ReceiveKeepsRing
<1>3. CASE Step
  BY <1>3, SwitchKeepsRing, SetUpKeepsRing, BufferKeepsRing, CountKeepsRing, HeaderKeepsRing,
     BytesKeepRing, FreeLowKeepsRing, FreeHighKeepsRing, DecrementKeepsRing, WriteKeepsRing,
     TransmitKeepsRing DEF Step
<1>4. CASE Call
  BY <1>4, BufferKeepsRing, CountKeepsRing, TransmitKeepsRing DEF Call
<1> QED
  BY <1>1, <1>2, <1>3, <1>4 DEF Next

\* The frames lie at even addresses, and ERXRDPT is the byte before the first
LEMMA RingPointers == RingInv => PointersAreRight
<1> SUFFICES ASSUME RingInv, ECON1.rxen
             PROVE  ERXRDPT % 2 = 1 /\ ERXWRPT % 2 = 0 /\ ERDPT % 2 = 0
  BY DEF PointersAreRight
<1>1. At \notin Unset
  BY DEF RingInv, SetUpFirst, SettingUp
<1>2. PICK pos : Laid(mem, held, pos) /\ pos[1] = oldest /\ ERXWRPT = Wrap(pos[Len(held) + 1])
  BY <1>1 DEF RingInv, FramesLie
<1>3. PICK n \in Nat : n = Len(held) + 1
  <2>1. held \in Seq(Incoming)
    <3>1. pc = "decrement" => pending # <<>>
      BY DEF RingInv, ReaderRight, At
    <3> QED
      BY <3>1 DEF RingInv, RingTypes, held
  <2> QED
    BY <2>1
<1>4. 1 \in 1 .. n /\ n \in 1 .. n
  <2>1. n >= 1
    <3>1. held \in Seq(Incoming)
      <4>1. pc = "decrement" => pending # <<>>
        BY DEF RingInv, ReaderRight, At
      <4> QED
        BY <4>1 DEF RingInv, RingTypes, held
    <3> QED
      BY <1>3, <3>1
  <2> QED
    BY <2>1
<1>5. PICK o \in Nat, e \in Nat :
        /\ o = oldest /\ o < RingSize /\ o % 2 = 0
        /\ ERXWRPT = Wrap(e) /\ e < 2 * RingSize /\ e % 2 = 0
  <2>1. /\ pos \in [1 .. n -> Nat] /\ pos[1] < RingSize /\ pos[n] <= pos[1] + RingSize - 2
        /\ pos[1] % 2 = 0 /\ pos[n] % 2 = 0
    BY <1>2, <1>3, <1>4 DEF Laid
  <2>2. pos[1] \in Nat /\ pos[n] \in Nat /\ pos[n] < 2 * RingSize
    BY <1>4, <2>1, RingNumbers
  <2> QED
    BY <1>2, <1>3, <2>1, <2>2
<1>6. ERXWRPT % 2 = 0
  BY <1>5, WrapFacts
<1>7. ERXRDPT % 2 = 1
  <2>1. PICK r \in Nat : r = ERXRDPT /\ r < RingSize
    BY RingNumbers DEF RingInv, RingTypes
  <2>2. o = (IF r = RingSize - 1 THEN 0 ELSE r + 1)
    <3>1. o = Wrap(r + 1)
      BY <1>5, <2>1 DEF oldest
    <3> QED
      BY <2>1, <3>1, RingNumbers DEF Wrap
  <2>3. CASE r = RingSize - 1
    BY <2>1, <2>3, RingNumbers
  <2>4. CASE r # RingSize - 1
    BY <1>5, <2>1, <2>2, <2>4
  <2> QED
    BY <2>3, <2>4
<1>8. ERDPT % 2 = 0
  <2>1. CASE At \notin InFrame
    BY <1>1, <1>5, <2>1 DEF RingInv, ReaderRight, InFrame
  <2>2. CASE At = "decrement"
    BY <1>1, <1>5, <2>2 DEF RingInv, ReaderRight, Unset
  <2>3. CASE At \in {"frame", "freelow", "freehigh"}
    <3>1. pc = At /\ pc \in {"frame", "freelow", "freehigh"} /\ held = pending /\ pending # <<>>
      BY <2>3 DEF At, RingInv, Selecting, held, ReaderRight
    <3>2. PICK f \in Incoming : f = Head(pending) /\ Span(f) <= RingSize - 2
      BY <1>1, <3>1, OldestLies
    <3>3. PICK s \in Nat : s = Span(f) /\ s % 2 = 0 /\ s <= RingSize - 2 /\ s >= 6
      BY <3>2, SpanFacts
    <3>4. (o + s) % 2 = 0 /\ (o + 6) % 2 = 0
      BY <1>5, <3>3, EvenFacts
    <3>5. ERDPT = Wrap(o + 6) \/ ERDPT = Wrap(o + s)
      BY <1>5, <3>1, <3>2, <3>3 DEF RingInv, ReaderRight, following
    <3>6. o + 6 < 2 * RingSize /\ o + s < 2 * RingSize
      BY <1>5, <3>3, RingNumbers
    <3> QED
      BY <3>4, <3>5, <3>6, WrapFacts
  <2> QED
    BY <2>1, <2>2, <2>3 DEF InFrame
<1> QED
  BY <1>6, <1>7, <1>8

\* What readFrame() returns is the oldest frame
LEMMA DecrementImplements ==
    RingInv /\ Decrement => Fifo!Deliver \/ Fifo!Discard
<1> SUFFICES ASSUME RingInv, Decrement PROVE Fifo!Deliver \/ Fifo!Discard
  OBVIOUS
<1>1. /\ pending # <<>> /\ len = Len(Head(pending))
      /\ buffer = IF BufSize >= len THEN Head(pending) ELSE <<>>
  BY DEF RingInv, ReaderRight, Decrement, At
<1>2. UNCHANGED <<sending, out>> /\ pending' = Tail(pending)
      /\ got' = IF BufSize >= len THEN buffer ELSE NoFrame
  BY DEF Decrement, transmitter
<1>3. Len(Head(pending)) \in Nat /\ BufSize \in Nat
  <2>1. PICK f \in Incoming : f = Head(pending)
    BY <1>1 DEF RingInv, RingTypes
  <2> QED
    BY <2>1, SpanFacts, RingNumbers
<1>4. CASE BufSize >= len
  BY <1>1, <1>2, <1>3, <1>4 DEF Fifo!Deliver
<1>5. CASE ~(BufSize >= len)
  BY <1>1, <1>2, <1>3, <1>5 DEF Fifo!Discard
<1> QED
  BY <1>4, <1>5

\* What goes on the wire is what was given to sendFrame()
LEMMA TransmitImplements ==
    RingInv /\ ChipTransmits => Fifo!Transmit
<1> SUFFICES ASSUME RingInv, ChipTransmits PROVE Fifo!Transmit
  OBVIOUS
<1>1. PICK s \in Outgoing :
        /\ s = sending /\ ETXST = TX_BUF_START /\ ETXND = TX_BUF_START + Len(s)
        /\ \A i \in 1 .. Len(s) : mem[TX_BUF_START + i] = s[i]
  BY DEF RingInv, SenderRight, ChipTransmits
<1>2. PICK n \in Nat : n = Len(s)
  BY OutgoingFacts
<1>3. s = [i \in 1 .. n |-> s[i]]
  BY <1>2, ENC28J60Assumption
<1>4. ETXND - ETXST = n
  BY <1>1, <1>2, RingNumbers
<1>5. out' = [i \in 1 .. n |-> mem[TX_BUF_START + i]]
  BY <1>1, <1>4 DEF ChipTransmits
<1>6. [i \in 1 .. n |-> mem[TX_BUF_START + i]] = [i \in 1 .. n |-> s[i]]
  BY <1>1, <1>2
<1>7. out' = sending
  BY <1>1, <1>3, <1>5, <1>6
<1>8. sending # NoFrame /\ sending' = NoFrame /\ UNCHANGED <<pending, got>>
  BY <1>1, ENC28J60Assumption DEF ChipTransmits, receiver, locals
<1> QED
  BY <1>7, <1>8 DEF Fifo!Transmit

\* Each step is one of the queue, or none
LEMMA StepImplements == RingInv /\ [Next]_vars => [Fifo!Next]_(Fifo!vars)
<1> SUFFICES ASSUME RingInv, [Next]_vars PROVE [Fifo!Next]_(Fifo!vars)
  OBVIOUS
<1>1. CASE UNCHANGED vars
  BY <1>1 DEF vars, receiver, transmitter, locals, Fifo!vars
<1>2. ASSUME NEW f \in Incoming, ChipReceives(f) PROVE Fifo!Next
  <2>1. Fifo!Arrive(f)
    BY <1>2 DEF ChipReceives, transmitter, locals, Fifo!Arrive
  <2> QED
    BY <2>1 DEF Fifo!Next
<1>3. CASE Chip
  <2>1. CASE ChipTransmits
    BY <2>1, TransmitImplements DEF Fifo!Next
  <2>2. CASE ChipAborts
    <3>1. Fifo!SendFails
      BY <2>2 DEF ChipAborts, receiver, locals, Fifo!SendFails
    <3> QED
      BY <3>1 DEF Fifo!Next
  <2>3. CASE ClockStarts
    BY <2>3 DEF ClockStarts, receiver, transmitter, locals, Fifo!vars
  <2> QED
    BY <1>3, <2>1, <2>2, <2>3 DEF Chip
<1>4. CASE Decrement
  BY <1>4, DecrementImplements DEF Fifo!Next
<1>5. CASE ReadNothing
  <2>1. Fifo!Nothing
    BY <1>5 DEF ReadNothing, receiver, transmitter, Fifo!Nothing
  <2> QED
    BY <2>1 DEF Fifo!Next
<1>6. CASE begin
  <2>1. Fifo!Reset
    BY <1>6 DEF begin, Fifo!Reset
  <2> QED
    BY <2>1 DEF Fifo!Next
<1>7. ASSUME NEW f \in Outgoing, sendFrame(f) PROVE Fifo!Next
  <2>1. Fifo!Send(f)
    BY <1>7 DEF sendFrame, receiver, locals, Fifo!Send
  <2> QED
    BY <2>1 DEF Fifo!Next
  \* All the other steps are of the inside
<1>8. CASE Step /\ ~Decrement /\ ~ReadNothing
  <2>1. UNCHANGED Fifo!vars
    BY <1>8 DEF Step, BankRead, BankWrite, AwaitClock, SetUpBuffer, SetUpFilter, SetUpMac,
                StartReception, ReadCount, ReadHeader, ReadBytes, FreeLow, FreeHigh, WriteFrame,
                StartTransmission, AwaitTransmission, SetBank, receiver, transmitter, locals,
                Fifo!vars
  <2> QED
    BY <2>1
<1>9. CASE readFrame
  BY <1>9 DEF readFrame, receiver, transmitter, locals, Fifo!vars
<1> QED
  BY <1>1, <1>2, <1>3, <1>4, <1>5, <1>6, <1>7, <1>8, <1>9 DEF Next, Call

-----------------------------------------------------------------------------
(* The receive ring: theorems *)

\* While frames may arrive, ERXRDPT is odd and frames lie at even addresses, whatever arrives and
\* whenever begin() is called again (enc28j60.cpp:364-375,645-658).
THEOREM PointersStayRight == Spec => []PointersAreRight
<1>1. IInv /\ RingInv /\ [Next]_vars => (IInv /\ RingInv)'
  BY NextInv, NextRing
<1>2. Init => IInv /\ RingInv
  BY InitInv, InitRing
<1> QED
  BY <1>1, <1>2, RingPointers, PTL DEF Spec

\* The driver and the controller are a queue of frames: what readFrame() returns is the oldest
\* frame, whole, unless it is too large, and what goes on the wire is what sendFrame() was given
\* (enc28j60.cpp:508-589,591-680).
THEOREM Implements == Spec => FramesIntact
<1>1. IInv /\ RingInv /\ [Next]_vars => (IInv /\ RingInv)'
  BY NextInv, NextRing
<1>2. Init => IInv /\ RingInv
  BY InitInv, InitRing
<1>3. Init => Fifo!Init
  BY DEF Init, Fifo!Init
<1> QED
  BY <1>1, <1>2, <1>3, StepImplements, PTL DEF Spec, FramesIntact, Fifo!Spec
=============================================================================
