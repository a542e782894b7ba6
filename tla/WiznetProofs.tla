---------------------------- MODULE WiznetProofs ----------------------------
(***************************************************************************)
(* What Wiznet promises, for either controller, every size of a byte, of   *)
(* pointers and of the buffers, and any frames: a size read byte by byte   *)
(* is one the register had, and the driver and the controller together are *)
(* the queue of FrameFifo.                                                 *)
(*                                                                         *)
(* The argument: pointers are counted as positions from the last RECV on   *)
(* (From).  There is a list of positions, from where readFrame() will have *)
(* read to RX_WR, at which the frames that have not been read lie whole    *)
(* (FramesLie), because the controller writes only what is less than a     *)
(* buffer from the last RECV, and wipes only what is before RX_RD.  The    *)
(* length of the frame that is being read is that of the oldest            *)
(* (ReaderRight).  The bytes of a size are of values it has had, in the    *)
(* order in which they are read, and it only grows meanwhile (SizeRight).  *)
(* What is to be transmitted is what sendFrame() was given, and a call of  *)
(* it waits for that (SenderRight).  PlusFacts and Distance show that the  *)
(* pointers mean these positions although they wrap, DriverAddress that    *)
(* the driver of the W5100 finds the bytes where the controller does.      *)
(***************************************************************************)
EXTENDS Wiznet, Integers, TLAPS

-----------------------------------------------------------------------------
(* The inductive invariant *)

\* A pointer, of a position in two turns
Wrap(p) == IF p < PtrMod THEN p ELSE p - PtrMod

\* The byte of the receive buffer at position p
Slot(p) == p % BufferLength
RxSlot(p) == RxBufferAddress + Slot(p)

\* What is in the memory m from position p on is the frame f
Holds(m, p, f) ==
    /\ m[RxSlot(p)] = High(Len(f) + 2) /\ m[RxSlot(p + 1)] = Low(Len(f) + 2)
    /\ \A k \in 1 .. Len(f) : m[RxSlot(p + 1 + k)] = f[k]

\* The frames lie one after the other, frame i from pos[i] on
Laid(m, frames, pos) ==
    /\ pos \in [1 .. Len(frames) + 1 -> Nat]
    /\ \A i, j \in 1 .. Len(frames) + 1 : i <= j => pos[i] <= pos[j]
    /\ \A i \in 1 .. Len(frames) : /\ pos[i + 1] = pos[i] + Len(frames[i]) + 2
                                   /\ Holds(m, pos[i], frames[i])

\* Where the driver is, or will be when the command is taken
At == IF pc = "command" THEN after ELSE pc

InFrame == {"data", "ignore", "deliver", "discard"}

\* The frames of which the header has not been read
held == IF At \in InFrame THEN Tail(pending) ELSE pending

\* Pointers as positions, counted from freed on
From(ptr) == IF freed <= ptr THEN ptr ELSE ptr + PtrMod
unread == IF At \in {"data", "ignore"} THEN From(RX_RD) + Len(Head(pending)) ELSE From(RX_RD)

Types ==
    /\ DOMAIN mem = 0 .. 2 * BufferLength - 1
    /\ pending \in Seq(Incoming)
    /\ {RX_WR, RX_RD, freed, TX_WR, TX_RD, queued} \subseteq 0 .. PtrMod - 1
    /\ after \in {"opened", "closing", "sent", "idle"} \cup InFrame
    /\ first \in {"high", "low"}

\* One command at a time
CommandsRight ==
    /\ pc # "command" => CR = "none"
    /\ CR = "RECV" => At \in InFrame
    /\ CR = "SEND" => At = "sent"
    /\ CR # "RECV" => freed = RX_RD

FramesLie ==
    /\ From(RX_WR) <= freed + BufferLength
    /\ \E pos : Laid(mem, held, pos) /\ pos[1] = unread /\ pos[Len(held) + 1] = From(RX_WR)

ReaderRight ==
    /\ At \in InFrame => pending # <<>>
    /\ At \in {"data", "ignore"} =>
         /\ DataLen(data) = Len(Head(pending))
         /\ \A k \in 1 .. Len(Head(pending)) : mem[RxSlot(From(RX_RD) + k - 1)] = Head(pending)[k]
    /\ At \in {"data", "deliver"} => Len(Head(pending)) <= BufSize
    /\ At \in {"ignore", "discard"} => Len(Head(pending)) > BufSize
    /\ At = "deliver" => data = Head(pending)

\* What is read of a word whose bytes are read at values s and t
HalfOf(s) == IF first = "high" THEN High(s) ELSE Low(s)
Torn(s, t) == IF first = "high" THEN High(s) * ByteMod + Low(t) ELSE High(t) * ByteMod + Low(s)

SizeRight ==
    /\ pc \in {"rsr1", "rsr2", "head"} => \A s \in seen : s \in Nat /\ s <= RX_RSR
    /\ pc \in {"rsr1", "rsr2"} => RX_RSR \in seen
    /\ pc = "rsr1" => half = <<>> \/ \E s \in seen : half = <<HalfOf(s)>>
    /\ pc = "rsr2" =>
         /\ val1 # 0
         /\ \E s, t \in seen :
              /\ s <= t /\ val1 = Torn(s, t)
              /\ half = <<>> \/ \E u \in seen : t <= u /\ half = <<HalfOf(u)>>
    /\ pc = "head" => val \in seen /\ val # 0
    /\ pc \in {"fsr1", "fsr2"} =>
         TX_FSR \in seen /\ (half = <<>> \/ half = <<HalfOf(TX_FSR)>>)
    /\ pc = "write" => val \in seen
    /\ pc \notin {"rsr1", "rsr2", "fsr1", "fsr2"} => half = <<>>

SenderRight ==
    /\ pc \in {"fsr1", "fsr2", "write"} => sending \in Outgoing
    /\ At # "sent" => TX_RD = TX_WR /\ IR = {}
    /\ CR # "SEND" => queued = TX_WR
    /\ CR = "SEND" => queued = TX_RD
    /\ IR = {} \/ (TX_RD = TX_WR /\ CR # "SEND" /\ (IR = {"SENDOK"} \/ IR = {"TIMEOUT"}))
    /\ TX_RD # TX_WR =>
         /\ sending \in Outgoing /\ TX_WR = Plus(TX_RD, Len(sending))
         /\ \A i \in 1 .. Len(sending) : mem[AddressByChip(TxBufferAddress, TX_RD, i)] = sending[i]

IInv == Types /\ CommandsRight /\ FramesLie /\ ReaderRight /\ SizeRight /\ SenderRight

-----------------------------------------------------------------------------
(* Remainders *)

\* A number is a multiple of b and a remainder
LEMMA DivMod ==
    ASSUME NEW b \in Nat, b > 0, NEW a \in Nat
    PROVE  \E q \in Nat, r \in 0 .. b - 1 : a = q * b + r /\ a % b = r
<1>1. a \div b \in Nat /\ a % b \in 0 .. b - 1
  OBVIOUS
<1>2. a = b * (a \div b) + (a % b)
  OBVIOUS
<1>3. b * (a \div b) = (a \div b) * b
  BY <1>1
<1> QED
  BY <1>1, <1>2, <1>3

\* The remainder of such a sum
LEMMA ModOf ==
    ASSUME NEW b \in Nat, b > 0, NEW q \in Nat, NEW r \in 0 .. b - 1
    PROVE  (q * b + r) % b = r
OBVIOUS

\* Only the remainder of a summand matters to that of the sum
LEMMA ModPlus ==
    ASSUME NEW b \in Nat, b > 0, NEW a \in Nat, NEW k \in Nat
    PROVE  (a + k) % b = ((a % b) + k) % b
<1>1. PICK q \in Nat, r \in 0 .. b - 1 : a = q * b + r /\ a % b = r
  BY DivMod
<1>2. PICK p \in Nat, s \in 0 .. b - 1 : r + k = p * b + s /\ (r + k) % b = s
  <2>1. PICK t \in Nat : t = r + k
    OBVIOUS
  <2>2. \E p \in Nat, s \in 0 .. b - 1 : t = p * b + s /\ t % b = s
    BY DivMod
  <2> QED
    BY <2>1, <2>2
<1>3. a + k = (q + p) * b + s
  <2>1. (q + p) * b = q * b + p * b
    OBVIOUS
  <2>2. PICK x \in Nat, y \in Nat : x = q * b /\ y = p * b
    OBVIOUS
  <2>3. a = x + r /\ r + k = y + s /\ (q + p) * b = x + y
    BY <1>1, <1>2, <2>1, <2>2
  <2> QED
    BY <2>3
<1>4. (a + k) % b = s
  <2>1. PICK t \in Nat : t = q + p
    OBVIOUS
  <2>2. (t * b + s) % b = s
    BY ModOf
  <2> QED
    BY <1>3, <2>1, <2>2
<1> QED
  BY <1>1, <1>2, <1>4

\* Less than b apart, numbers with one remainder are equal
LEMMA ModInj ==
    ASSUME NEW b \in Nat, b > 0, NEW a \in Nat, NEW c \in Nat, a % b = c % b, a <= c, c < a + b
    PROVE  a = c
<1>1. PICK q \in Nat, r \in 0 .. b - 1 : a = q * b + r /\ a % b = r
  BY DivMod
<1>2. PICK p \in Nat, s \in 0 .. b - 1 : c = p * b + s /\ c % b = s
  BY DivMod
<1>3. q * b \in Nat /\ p * b \in Nat
  OBVIOUS
<1>4. ~(q < p)
  <2>1. q < p => q * b + b <= p * b
    OBVIOUS
  <2> QED
    BY <1>1, <1>2, <1>3, <2>1
<1>5. ~(p < q)
  <2>1. p < q => p * b + b <= q * b
    OBVIOUS
  <2> QED
    BY <1>1, <1>2, <1>3, <2>1
<1> QED
  BY <1>1, <1>2, <1>4, <1>5

-----------------------------------------------------------------------------
(* Pointers, words and addresses *)

\* The sizes, from WiznetAssumption
LEMMA Sizes ==
    /\ BufferLength \in Nat /\ BufferLength >= 1 /\ PtrMod \in Nat /\ BufferLength < PtrMod
    /\ ByteMod \in Nat /\ ByteMod >= 2 /\ BufSize \in Nat
BY WiznetAssumption

\* What the lemmas on remainders ask of the sizes
LEMMA Positive == BufferLength > 0 /\ PtrMod > 0 /\ ByteMod > 0 /\ BufferLength \in Nat
                  /\ PtrMod \in Nat /\ ByteMod \in Nat
BY Sizes

\* Positions and slots
LEMMA SlotFacts ==
    ASSUME NEW p \in Nat
    PROVE  /\ Slot(p) \in Nat /\ Slot(p) < BufferLength /\ Slot(p + PtrMod) = Slot(p)
           /\ RxSlot(p) \in 0 .. 2 * BufferLength - 1 /\ RxSlot(p) >= BufferLength
<1>1. p % BufferLength \in 0 .. BufferLength - 1
  BY Sizes
<1>2. Slot(p) \in Nat /\ Slot(p) < BufferLength
  BY <1>1, Sizes DEF Slot
<1>3. (PtrMod + p) % BufferLength = ((PtrMod % BufferLength) + p) % BufferLength
  BY Positive, ModPlus, Zenon
<1>4. PtrMod % BufferLength = 0
  BY WiznetAssumption
<1>5. PtrMod + p = p + PtrMod /\ 0 + p = p
  BY Sizes
<1>6. Slot(p + PtrMod) = Slot(p)
  BY <1>3, <1>4, <1>5 DEF Slot
<1>7. RxSlot(p) \in 0 .. 2 * BufferLength - 1 /\ RxSlot(p) >= BufferLength
  BY <1>2, Sizes DEF RxSlot, RxBufferAddress
<1> QED
  BY <1>2, <1>6, <1>7

\* Positions less than a buffer apart have different slots
LEMMA SlotInj ==
    ASSUME NEW p \in Nat, NEW q \in Nat, Slot(p) = Slot(q), p <= q, q < p + BufferLength
    PROVE  p = q
<1>1. p % BufferLength = q % BufferLength
  BY DEF Slot
<1> QED
  BY <1>1, Positive, ModInj, Zenon

\* The same of positions within one buffer from b on
LEMMA RxSlotInj ==
    ASSUME NEW b \in Nat, NEW p \in Nat, NEW q \in Nat, RxSlot(p) = RxSlot(q),
           b <= p, p < b + BufferLength, b <= q, q < b + BufferLength
    PROVE  p = q
<1>1. Slot(p) \in Nat /\ Slot(q) \in Nat
  BY SlotFacts
<1>2. Slot(p) = Slot(q)
  BY <1>1, Sizes DEF RxSlot, RxBufferAddress
<1>3. (p <= q /\ q < p + BufferLength) \/ (q <= p /\ p < q + BufferLength)
  BY Sizes
<1> QED
  BY <1>2, <1>3, SlotInj

\* The slot of a position is that of its pointer
LEMMA SlotOfWrap ==
    ASSUME NEW p \in Nat, p < 2 * PtrMod, NEW k \in Nat
    PROVE  Wrap(p) \in 0 .. PtrMod - 1 /\ Slot(Wrap(p) + k) = Slot(p + k)
<1>1. CASE p < PtrMod
  BY <1>1, Sizes DEF Wrap
<1>2. CASE ~(p < PtrMod)
  <2>1. PICK a \in Nat : a = p - PtrMod /\ a < PtrMod /\ Wrap(p) = a
    BY <1>2, Sizes DEF Wrap
  <2>2. a + k \in Nat /\ a + k + PtrMod = p + k
    BY <2>1, Sizes
  <2>3. Slot(a + k + PtrMod) = Slot(a + k)
    BY <2>2, SlotFacts
  <2> QED
    BY <2>1, <2>2, <2>3, Sizes
<1> QED
  BY <1>1, <1>2

\* Where the controller looks for byte i of a block
LEMMA ChipAddress ==
    ASSUME NEW base \in Nat, NEW p \in Nat, p < 2 * PtrMod, NEW i \in Nat, i >= 1
    PROVE  AddressByChip(base, Wrap(p), i) = base + Slot(p + (i - 1))
<1>1. PICK w \in Nat, k \in Nat : w = Wrap(p) /\ k = i - 1 /\ w + i - 1 = w + k
  <2>1. Wrap(p) \in Nat
    BY SlotOfWrap
  <2> QED
    BY <2>1
<1>2. Slot(w + k) = Slot(p + k)
  BY <1>1, SlotOfWrap
<1> QED
  BY <1>1, <1>2 DEF AddressByChip, Slot

\* Either driver looks for it at the same place
LEMMA DriverAddress ==
    ASSUME NEW base \in Nat, NEW ptr \in Nat, NEW n \in Nat, n <= BufferLength, NEW i \in 1 .. n
    PROVE  AddressOf(base, ptr, n, i) = AddressByChip(base, ptr, i)
<1>1. PICK m \in Nat : m = ptr % BufferLength /\ m < BufferLength
  <2>1. ptr % BufferLength \in 0 .. BufferLength - 1
    BY Sizes
  <2> QED
    BY <2>1, Sizes
<1>2. PICK k \in Nat : k = i - 1 /\ ptr + i - 1 = ptr + k /\ i <= n /\ i >= 1
  OBVIOUS
<1>3. (ptr + k) % BufferLength = (m + k) % BufferLength
  <2>1. (ptr + k) % BufferLength = ((ptr % BufferLength) + k) % BufferLength
    BY Positive, ModPlus, Zenon
  <2> QED
    BY <1>1, <2>1
<1>4. PICK t \in Nat : t = m + k /\ t < 2 * BufferLength
  BY <1>1, <1>2, Sizes
<1>5. t % BufferLength = IF t < BufferLength THEN t ELSE t - BufferLength
  <2>1. CASE t < BufferLength
    BY <2>1, Sizes
  <2>2. CASE ~(t < BufferLength)
    <3>1. PICK r \in 0 .. BufferLength - 1 : r = t - BufferLength
      BY <1>4, <2>2, Sizes
    <3>2. (1 * BufferLength + r) % BufferLength = r
      BY Positive, ModOf
    <3>3. 1 * BufferLength + r = t
      BY <3>1, Sizes
    <3>4. t % BufferLength = r
      BY <3>2, <3>3
    <3> QED
      BY <2>2, <3>1, <3>4
  <2> QED
    BY <2>1, <2>2
<1>6. AddressByChip(base, ptr, i) =
          base + (IF t < BufferLength THEN t ELSE t - BufferLength)
  BY <1>2, <1>3, <1>5, <1>4 DEF AddressByChip
<1>7. AddressByDriver(base, ptr, n, i) =
          IF m + n > BufferLength /\ i > BufferLength - m
          THEN base + i - (BufferLength - m) - 1 ELSE base + m + i - 1
  BY <1>1 DEF AddressByDriver
<1>8. AddressByDriver(base, ptr, n, i) = AddressByChip(base, ptr, i)
  BY <1>1, <1>2, <1>6, <1>7, <1>4, Sizes
<1> QED
  BY <1>8 DEF AddressOf

\* The bytes of a word, and the word they make up
LEMMA WordFacts ==
    ASSUME NEW w \in Nat, w < PtrMod
    PROVE  /\ High(w) \in 0 .. ByteMod - 1 /\ Low(w) \in 0 .. ByteMod - 1
           /\ High(w) * ByteMod + Low(w) = w
<1>1. PICK q \in Nat, r \in 0 .. ByteMod - 1 : w = q * ByteMod + r /\ w % ByteMod = r
  BY Positive, DivMod, Zenon
<1>2. w \div ByteMod = q
  BY <1>1, Sizes
<1>3. q < ByteMod
  <2>1. ByteMod <= q => ByteMod * ByteMod <= q * ByteMod
    BY Sizes
  <2>2. w < ByteMod * ByteMod
    BY WiznetAssumption
  <2>3. q * ByteMod \in Nat /\ ByteMod * ByteMod \in Nat
    BY Sizes
  <2> QED
    BY <1>1, <2>1, <2>2, <2>3, Sizes
<1> QED
  BY <1>1, <1>2, <1>3, Sizes DEF High, Low

\* A greater word has no smaller high byte
LEMMA HighMonotone ==
    ASSUME NEW v \in Nat, NEW w \in Nat, v <= w, w < PtrMod
    PROVE  High(v) <= High(w)
<1>1. PICK a \in Nat, b \in Nat, c \in Nat, d \in Nat :
        /\ a = High(v) /\ b = Low(v) /\ c = High(w) /\ d = Low(w)
        /\ a * ByteMod + b = v /\ c * ByteMod + d = w /\ d < ByteMod
  <2>1. v < PtrMod
    BY Sizes
  <2>2. /\ High(v) \in Nat /\ Low(v) \in Nat /\ High(v) * ByteMod + Low(v) = v
        /\ High(w) \in Nat /\ Low(w) \in Nat /\ High(w) * ByteMod + Low(w) = w
        /\ Low(w) < ByteMod
    BY <2>1, WordFacts, Sizes
  <2> QED
    BY <2>2
<1>2. c < a => c * ByteMod + ByteMod <= a * ByteMod
  BY Sizes
<1>3. a * ByteMod \in Nat /\ c * ByteMod \in Nat
  BY Sizes
<1> QED
  BY <1>1, <1>2, <1>3, Sizes

\* Pointers wrap once
LEMMA PlusFacts ==
    ASSUME NEW p \in Nat, p < PtrMod, NEW n \in Nat, n <= PtrMod
    PROVE  Plus(p, n) = Wrap(p + n) /\ Wrap(p + n) \in 0 .. PtrMod - 1
<1>1. CASE p + n < PtrMod
  BY <1>1, Sizes DEF Plus, Wrap
<1>2. CASE ~(p + n < PtrMod)
  <2>1. PICK t \in Nat : t = p + n - PtrMod /\ t < PtrMod /\ p + n = 1 * PtrMod + t
    BY <1>2, Sizes
  <2>2. (1 * PtrMod + t) % PtrMod = t
    BY <2>1, Positive, ModOf
  <2> QED
    BY <1>2, <2>1, <2>2, Sizes DEF Plus, Wrap
<1> QED
  BY <1>1, <1>2

\* The distance from one pointer to another
LEMMA Distance ==
    ASSUME NEW p \in Nat, p < PtrMod, NEW q \in Nat, q < PtrMod
    PROVE  Plus(p, PtrMod - q) = IF q <= p THEN p - q ELSE p + PtrMod - q
BY PlusFacts, Sizes DEF Wrap

-----------------------------------------------------------------------------
(* Frames that lie in the receive buffer *)

\* Frames are functions of their bytes, one at least
LEMMA FrameFacts ==
    ASSUME NEW f \in Incoming \cup Outgoing
    PROVE  Len(f) \in Nat /\ Len(f) >= 1 /\ f = [k \in 1 .. Len(f) |-> f[k]] /\ f # NoFrame
<1>1. f \in Seq(0 .. ByteMod - 1) /\ f # <<>> /\ f # NoFrame
  BY WiznetAssumption
<1> QED
  BY <1>1

\* Frames lie where they lay when no byte between the first and the end of the last changes
LEMMA LaidKept ==
    ASSUME NEW m, NEW new, NEW frames \in Seq(Incoming), NEW pos, Laid(m, frames, pos),
           \A p \in Nat : pos[1] <= p /\ p < pos[Len(frames) + 1] => new[RxSlot(p)] = m[RxSlot(p)]
    PROVE  Laid(new, frames, pos)
<1>1. ASSUME NEW i \in 1 .. Len(frames)
      PROVE  Holds(new, pos[i], frames[i])
  <2>1. PICK p, f : p = pos[i] /\ f = frames[i]
    OBVIOUS
  <2>2. PICK n \in Nat : n = Len(frames)
    OBVIOUS
  <2>3. /\ 1 \in 1 .. n + 1 /\ i \in 1 .. n + 1 /\ i + 1 \in 1 .. n + 1 /\ n + 1 \in 1 .. n + 1
        /\ 1 <= i /\ i + 1 <= n + 1 /\ i \in 1 .. n
    BY <2>2
  <2>4. /\ pos \in [1 .. n + 1 -> Nat] /\ \A a, b \in 1 .. n + 1 : a <= b => pos[a] <= pos[b]
        /\ pos[i + 1] = pos[i] + Len(frames[i]) + 2 /\ Holds(m, pos[i], frames[i])
    BY <2>2, <2>3 DEF Laid
  <2>5. f \in Incoming /\ Holds(m, p, f) /\ p \in Nat /\ pos[i + 1] = p + Len(f) + 2
        /\ pos[1] <= p /\ pos[i + 1] <= pos[n + 1] /\ pos[n + 1] \in Nat /\ pos[1] \in Nat
    <3>1. f \in Incoming
      BY <2>1, <2>2, <2>3
    <3>2. Holds(m, p, f) /\ pos[i + 1] = p + Len(f) + 2
      BY ONLY <2>1, <2>4
    <3>3. p \in Nat /\ pos[n + 1] \in Nat /\ pos[1] \in Nat
      BY ONLY <2>1, <2>3, <2>4
    <3>4. pos[1] <= p /\ pos[i + 1] <= pos[n + 1]
      BY ONLY <2>1, <2>3, <2>4
    <3> QED
      BY <3>1, <3>2, <3>3, <3>4
  <2>6. PICK l \in Nat : l = Len(f)
    BY <2>5, FrameFacts
  <2>7. ASSUME NEW k \in Nat, k <= 1 + l
        PROVE  new[RxSlot(p + k)] = m[RxSlot(p + k)]
    <3>1. p + k \in Nat /\ pos[1] <= p + k /\ p + k < pos[n + 1]
      BY <2>5, <2>6, <2>7
    <3> QED
      BY <2>2, <3>1
  <2>8. new[RxSlot(p)] = m[RxSlot(p)] /\ new[RxSlot(p + 1)] = m[RxSlot(p + 1)]
    <3>1. p + 0 = p /\ 0 <= 1 + l /\ 1 <= 1 + l
      BY <2>5, <2>6
    <3> QED
      BY <2>7, <3>1
  <2>9. ASSUME NEW k \in 1 .. l
        PROVE  new[RxSlot(p + 1 + k)] = m[RxSlot(p + 1 + k)]
    <3>1. p + 1 + k = p + (1 + k) /\ 1 + k \in Nat /\ 1 + k <= 1 + l
      BY <2>5, <2>6
    <3> QED
      BY <2>7, <3>1
  <2>10. Holds(new, p, f)
    BY <2>5, <2>6, <2>8, <2>9 DEF Holds
  <2> QED
    BY <2>1, <2>10
<1> QED
  BY <1>1 DEF Laid

\* A frame behind the last
LEMMA LaidOneMore ==
    ASSUME NEW m, NEW frames \in Seq(Incoming), NEW pos, Laid(m, frames, pos), NEW f \in Incoming,
           Holds(m, pos[Len(frames) + 1], f)
    PROVE  \E new : /\ Laid(m, Append(frames, f), new) /\ new[1] = pos[1]
                    /\ new[Len(Append(frames, f)) + 1] = pos[Len(frames) + 1] + Len(f) + 2
<1>1. PICK n \in Nat : n = Len(frames) + 1
  OBVIOUS
<1>2. PICK new : new = [i \in 1 .. n + 1 |-> IF i = n + 1 THEN pos[n] + Len(f) + 2 ELSE pos[i]]
  OBVIOUS
<1>3. PICK more : more = Append(frames, f)
  OBVIOUS
<1>4. Len(more) = n /\ more[n] = f /\ \A i \in 1 .. Len(frames) : more[i] = frames[i]
  BY <1>1, <1>3
<1>5. new[n + 1] = pos[n] + Len(f) + 2 /\ \A i \in 1 .. n : new[i] = pos[i]
  BY <1>1, <1>2
<1>6. /\ pos \in [1 .. n -> Nat] /\ \A i, j \in 1 .. n : i <= j => pos[i] <= pos[j]
      /\ Len(f) \in Nat /\ n \in 1 .. n
  BY <1>1, FrameFacts DEF Laid
<1>7. \A i \in 1 .. n + 1 : new[i] \in Nat
  BY <1>2, <1>6
<1>8. new \in [1 .. Len(more) + 1 -> Nat]
  BY <1>2, <1>4, <1>7
<1>9. ASSUME NEW i \in 1 .. n + 1, NEW j \in 1 .. n + 1, i <= j
      PROVE  new[i] <= new[j]
  <2>1. CASE j = n + 1
    <3>1. i = n + 1 \/ (i \in 1 .. n /\ i <= n)
      BY <1>1
    <3>2. i = n + 1 \/ (i \in 1 .. n /\ pos[i] <= pos[n])
      BY <1>6, <3>1
    <3> QED
      BY <1>5, <1>6, <1>7, <2>1, <3>2
  <2>2. CASE j # n + 1
    BY <1>5, <1>9, <1>6, <2>2
  <2> QED
    BY <2>1, <2>2
<1>10. ASSUME NEW i \in 1 .. Len(more)
       PROVE  new[i + 1] = new[i] + Len(more[i]) + 2 /\ Holds(m, new[i], more[i])
  <2>1. CASE i = n
    BY <1>1, <1>4, <1>5, <2>1
  <2>2. CASE i < n
    <3>1. i \in 1 .. Len(frames) /\ i + 1 \in 1 .. n /\ i \in 1 .. n
      BY <1>1, <1>4, <2>2
    <3> QED
      BY <1>4, <1>5, <3>1 DEF Laid
  <2> QED
    BY <1>1, <1>4, <2>1, <2>2
<1>11. new[1] = pos[1] /\ 1 \in 1 .. n
  BY <1>1, <1>5
<1>12. Laid(m, more, new)
  BY <1>1, <1>4, <1>8, <1>9, <1>10 DEF Laid
<1> QED
  BY <1>1, <1>3, <1>4, <1>5, <1>11, <1>12

\* Without the first
LEMMA LaidOneLess ==
    ASSUME NEW m, NEW frames \in Seq(Incoming), frames # <<>>, NEW pos, Laid(m, frames, pos)
    PROVE  \E new : /\ Laid(m, Tail(frames), new)
                    /\ new[1] = pos[1] + Len(Head(frames)) + 2
                    /\ new[Len(Tail(frames)) + 1] = pos[Len(frames) + 1]
<1>1. PICK n \in Nat : n = Len(frames) /\ n >= 1
  OBVIOUS
<1>2. PICK rest : rest = Tail(frames)
  OBVIOUS
<1>3. /\ Len(rest) = n - 1 /\ Head(frames) = frames[1]
      /\ \A i \in 1 .. n - 1 : rest[i] = frames[i + 1]
  BY <1>1, <1>2
<1>4. PICK new : new = [i \in 1 .. n |-> pos[i + 1]]
  OBVIOUS
<1>5. /\ pos \in [1 .. n + 1 -> Nat] /\ \A i, j \in 1 .. n + 1 : i <= j => pos[i] <= pos[j]
      /\ \A i \in 1 .. n : /\ pos[i + 1] = pos[i] + Len(frames[i]) + 2
                           /\ Holds(m, pos[i], frames[i])
  BY <1>1 DEF Laid
<1>6. \A i \in 1 .. n : new[i] = pos[i + 1] /\ i + 1 \in 1 .. n + 1
  BY <1>1, <1>4
<1>7. new \in [1 .. Len(rest) + 1 -> Nat]
  BY <1>1, <1>3, <1>4, <1>5, <1>6
<1>8. \A i, j \in 1 .. n : i <= j => new[i] <= new[j]
  BY <1>5, <1>6
<1>9. ASSUME NEW i \in 1 .. n - 1
      PROVE  new[i + 1] = new[i] + Len(rest[i]) + 2 /\ Holds(m, new[i], rest[i])
  <2>1. i \in 1 .. n /\ i + 1 \in 1 .. n
    BY <1>1
  <2> QED
    BY <1>3, <1>5, <1>6, <2>1
<1>10. new[1] = pos[1] + Len(Head(frames)) + 2 /\ new[n] = pos[n + 1]
  <2>1. 1 \in 1 .. n /\ n \in 1 .. n /\ 1 + 1 = 2
    BY <1>1
  <2> QED
    BY <1>3, <1>5, <1>6, <2>1
<1>11. Laid(m, rest, new)
  BY <1>1, <1>3, <1>7, <1>8, <1>9 DEF Laid
<1> QED
  BY <1>1, <1>2, <1>3, <1>10, <1>11

\* One turn less
LEMMA LaidShift ==
    ASSUME NEW m, NEW frames \in Seq(Incoming), NEW pos, Laid(m, frames, pos), pos[1] >= PtrMod
    PROVE  \E new : /\ Laid(m, frames, new) /\ new[1] = pos[1] - PtrMod
                    /\ new[Len(frames) + 1] = pos[Len(frames) + 1] - PtrMod
<1>1. PICK n \in Nat : n = Len(frames)
  OBVIOUS
<1>2. PICK new : new = [i \in 1 .. n + 1 |-> pos[i] - PtrMod]
  OBVIOUS
<1>3. /\ pos \in [1 .. n + 1 -> Nat] /\ \A i, j \in 1 .. n + 1 : i <= j => pos[i] <= pos[j]
      /\ \A i \in 1 .. n : /\ pos[i + 1] = pos[i] + Len(frames[i]) + 2
                           /\ Holds(m, pos[i], frames[i])
  BY <1>1 DEF Laid
<1>4. ASSUME NEW i \in 1 .. n + 1
      PROVE  /\ new[i] = pos[i] - PtrMod /\ new[i] + PtrMod = pos[i]
             /\ new[i] \in Nat /\ pos[i] \in Nat
  <2>1. 1 \in 1 .. n + 1 /\ 1 <= i
    BY <1>1
  <2>2. pos[1] <= pos[i] /\ pos[i] \in Nat /\ pos[1] \in Nat
    BY <1>3, <2>1
  <2> QED
    BY <1>2, <2>2, Sizes
<1>5. new \in [1 .. n + 1 -> Nat]
  BY <1>2, <1>4
<1>6. ASSUME NEW i \in 1 .. n + 1, NEW j \in 1 .. n + 1, i <= j
      PROVE  new[i] <= new[j]
  <2>1. pos[i] <= pos[j]
    BY <1>3, <1>6
  <2> QED
    BY <1>4, <2>1, Sizes
<1>7. ASSUME NEW i \in 1 .. n
      PROVE  new[i + 1] = new[i] + Len(frames[i]) + 2 /\ Holds(m, new[i], frames[i])
  <2>1. PICK f \in Incoming : f = frames[i]
    BY <1>1
  <2>2. PICK l \in Nat : l = Len(f)
    BY FrameFacts
  <2>3. i \in 1 .. n + 1 /\ i + 1 \in 1 .. n + 1
    BY <1>1
  <2>4. PICK p \in Nat, q \in Nat : p = new[i] /\ q = pos[i] /\ p + PtrMod = q
    BY <1>4, <2>3
  <2>5. \A k \in Nat : RxSlot(q + k) = RxSlot(p + k)
    <3>1. ASSUME NEW k \in Nat PROVE RxSlot(q + k) = RxSlot(p + k)
      <4>1. p + k \in Nat /\ q + k = (p + k) + PtrMod
        <5>1. PtrMod \in Nat
          BY Sizes
        <5> QED
          BY <2>4, <5>1
      <4> QED
        BY <4>1, SlotFacts DEF RxSlot
    <3> QED
      BY <3>1
  <2>6. /\ RxSlot(q) = RxSlot(p) /\ RxSlot(q + 1) = RxSlot(p + 1)
        /\ \A k \in 1 .. l : RxSlot(q + 1 + k) = RxSlot(p + 1 + k)
    <3>1. q + 0 = q /\ p + 0 = p
      OBVIOUS
    <3>2. \A k \in 1 .. l : 1 + k \in Nat /\ q + 1 + k = q + (1 + k) /\ p + 1 + k = p + (1 + k)
      OBVIOUS
    <3> QED
      BY <2>5, <3>1, <3>2
  <2>7. Holds(m, q, f)
    BY <1>3, <2>1, <2>4
  <2>8. Holds(m, p, f)
    BY <2>2, <2>6, <2>7 DEF Holds
  <2>9. PICK r \in Nat : r = new[i + 1] /\ r + PtrMod = q + l + 2
    BY <1>3, <1>4, <2>1, <2>2, <2>3, <2>4
  <2>10. r = p + l + 2
    <3>1. p + PtrMod = q /\ r + PtrMod = q + l + 2 /\ PtrMod \in Nat
      BY <2>4, <2>9, Sizes
    <3> QED
      BY <3>1
  <2> QED
    BY <2>1, <2>2, <2>4, <2>8, <2>9, <2>10
<1>8. Laid(m, frames, new)
  BY <1>1, <1>5, <1>6, <1>7 DEF Laid
<1>9. 1 \in 1 .. n + 1 /\ n + 1 \in 1 .. n + 1
  BY <1>1
<1> QED
  BY <1>1, <1>4, <1>8, <1>9

-----------------------------------------------------------------------------
(* What the steps leave alone *)

Sizing == {"rsr1", "rsr2", "head", "fsr1", "fsr2", "write"}

\* The size of what was received (getSn_RX_RSR() reads it) is the distance to RX_WR
LEMMA RSRFacts ==
    ASSUME IInv
    PROVE  /\ RX_RSR = From(RX_WR) - freed /\ RX_RSR \in Nat /\ RX_RSR <= BufferLength
           /\ From(RX_WR) \in Nat /\ freed \in Nat /\ freed < PtrMod /\ freed <= From(RX_WR)
<1>1. RX_WR \in Nat /\ RX_WR < PtrMod /\ freed \in Nat /\ freed < PtrMod
  BY Sizes DEF IInv, Types
<1>2. RX_RSR = IF freed <= RX_WR THEN RX_WR - freed ELSE RX_WR + PtrMod - freed
  BY <1>1, Distance DEF RX_RSR
<1>3. From(RX_WR) <= freed + BufferLength
  BY DEF IInv, FramesLie
<1> QED
  BY <1>1, <1>2, <1>3, Sizes DEF From

\* While sendFrame() asks for the free size, all of the buffer is free
LEMMA FSRFacts ==
    ASSUME IInv, pc # "command", pc # "sent"
    PROVE  TX_FSR = BufferLength
<1>1. queued = TX_RD
  BY DEF IInv, CommandsRight, SenderRight, At
<1>2. TX_RD \in Nat /\ TX_RD < PtrMod
  BY Sizes DEF IInv, Types
<1>3. Plus(queued, PtrMod - TX_RD) = 0
  BY <1>1, <1>2, Distance
<1> QED
  BY <1>3, Sizes DEF TX_FSR

\* The frames received stay where they are
LEMMA RxKept ==
    ASSUME IInv, UNCHANGED <<RX_WR, RX_RD, freed, pending, data>>,
           \A a \in 0 .. 2 * BufferLength - 1 : a >= BufferLength => mem'[a] = mem[a],
           At' = At \/ (At \notin InFrame /\ At' \notin InFrame)
    PROVE  FramesLie' /\ ReaderRight'
<1>1. \A p \in Nat : mem'[RxSlot(p)] = mem[RxSlot(p)]
  BY SlotFacts
<1>2. UNCHANGED <<held, unread, From(RX_WR), From(RX_RD)>>
  BY DEF held, unread, From, InFrame
<1>3. FramesLie'
  <2>1. PICK pos : Laid(mem, held, pos) /\ pos[1] = unread /\ pos[Len(held) + 1] = From(RX_WR)
    BY DEF IInv, FramesLie
  <2>2. held \in Seq(Incoming)
    <3>1. At \in InFrame => pending # <<>>
      BY DEF IInv, ReaderRight
    <3> QED
      BY <3>1 DEF held, IInv, Types
  <2>3. PICK m : m = mem'
    OBVIOUS
  <2>4. PICK frames \in Seq(Incoming) : frames = held
    BY <2>2
  <2>5. Laid(m, frames, pos)
    <3>1. \A p \in Nat : pos[1] <= p /\ p < pos[Len(frames) + 1] => m[RxSlot(p)] = mem[RxSlot(p)]
      BY <1>1, <2>3
    <3> QED
      BY <2>1, <2>4, <3>1, LaidKept
  <2>6. Laid(mem', held', pos) /\ pos[1] = unread' /\ pos[Len(held') + 1] = From(RX_WR)'
    BY <1>2, <2>1, <2>3, <2>4, <2>5
  <2>7. From(RX_WR)' <= freed' + BufferLength
    BY <1>2 DEF IInv, FramesLie
  <2> QED
    BY <2>6, <2>7 DEF FramesLie
<1>4. ReaderRight'
  <2>1. CASE At \notin InFrame /\ At' \notin InFrame
    BY <2>1 DEF ReaderRight, InFrame
  <2>2. CASE At' = At /\ At \in InFrame
    <3>1. pending # <<>> /\ pending \in Seq(Incoming)
      BY <2>2 DEF IInv, Types, ReaderRight
    <3>2. PICK f \in Incoming, l \in Nat : f = Head(pending) /\ l = Len(f)
      BY <3>1, FrameFacts
    <3>3. From(RX_RD) \in Nat
      BY Sizes DEF IInv, Types, From
    <3>4. \A k \in 1 .. l : mem'[RxSlot(From(RX_RD) + k - 1)] = mem[RxSlot(From(RX_RD) + k - 1)]
      <4>1. ASSUME NEW k \in 1 .. l
            PROVE  mem'[RxSlot(From(RX_RD) + k - 1)] = mem[RxSlot(From(RX_RD) + k - 1)]
        <5>1. From(RX_RD) + k - 1 \in Nat
          BY <3>3
        <5> QED
          BY <1>1, <5>1
      <4> QED
        BY <4>1
    <3>5. At \in {"data", "ignore"} =>
            \A k \in 1 .. l : mem'[RxSlot(From(RX_RD) + k - 1)] = f[k]
      BY <3>2, <3>4 DEF IInv, ReaderRight
    <3>6. UNCHANGED From(RX_RD)
      BY <1>2
    <3> QED
      BY <2>2, <3>1, <3>2, <3>5, <3>6 DEF IInv, ReaderRight, DataLen
  <2> QED
    BY <2>1, <2>2
<1> QED
  BY <1>3, <1>4

\* The addresses of the transmit buffer
LEMMA TxAddress ==
    ASSUME IInv, NEW i \in Nat, i >= 1
    PROVE  /\ AddressByChip(TxBufferAddress, TX_RD, i) = Slot(TX_RD + (i - 1))
           /\ AddressByChip(TxBufferAddress, TX_RD, i) \in 0 .. BufferLength - 1
<1>1. TX_RD \in Nat /\ TX_RD < PtrMod
  BY Sizes DEF IInv, Types
<1>2. PICK p \in Nat : p = TX_RD /\ Wrap(p) = p /\ p < 2 * PtrMod
  BY <1>1, Sizes DEF Wrap
<1>3. PICK k \in Nat : k = p + (i - 1)
  BY <1>2
<1>4. AddressByChip(TxBufferAddress, p, i) = 0 + Slot(p + (i - 1))
  <2>1. \A base \in Nat : AddressByChip(base, Wrap(p), i) = base + Slot(p + (i - 1))
    BY <1>2, ChipAddress
  <2> QED
    BY <1>2, <2>1 DEF TxBufferAddress
<1>5. Slot(k) \in Nat /\ Slot(k) < BufferLength
  BY SlotFacts
<1> QED
  BY <1>2, <1>3, <1>4, <1>5, Sizes

\* The frame to send stays where it is
LEMMA TxKept ==
    ASSUME IInv, UNCHANGED <<TX_WR, TX_RD, queued, sending, IR>>,
           \A a \in 0 .. BufferLength - 1 : mem'[a] = mem[a],
           (CR = "SEND" <=> CR' = "SEND"), (At = "sent" <=> At' = "sent"),
           pc' \in {"fsr1", "fsr2", "write"} => sending \in Outgoing
    PROVE  SenderRight'
<1>1. TX_RD # TX_WR =>
        \A i \in 1 .. Len(sending) :
          mem'[AddressByChip(TxBufferAddress, TX_RD, i)] =
                 mem[AddressByChip(TxBufferAddress, TX_RD, i)]
  <2>1. ASSUME TX_RD # TX_WR, NEW i \in 1 .. Len(sending)
        PROVE  mem'[AddressByChip(TxBufferAddress, TX_RD, i)] =
                 mem[AddressByChip(TxBufferAddress, TX_RD, i)]
    <3>1. sending \in Outgoing
      BY <2>1 DEF IInv, SenderRight
    <3>2. i \in Nat /\ i >= 1
      BY <3>1, FrameFacts
    <3>3. AddressByChip(TxBufferAddress, TX_RD, i) \in 0 .. BufferLength - 1
      BY <3>2, TxAddress
    <3> QED
      BY <3>3
  <2> QED
    BY <2>1
<1>2. TX_RD # TX_WR =>
        \A i \in 1 .. Len(sending) : mem'[AddressByChip(TxBufferAddress, TX_RD, i)] = sending[i]
  BY <1>1 DEF IInv, SenderRight
<1> QED
  BY <1>2 DEF IInv, SenderRight

-----------------------------------------------------------------------------
(* Steps that change no buffer *)

\* The buffers, and what is in them
buffers == <<mem, RX_WR, RX_RD, freed, pending, TX_WR, TX_RD, queued>>

\* The frames received stay where they are when no buffer changes
LEMMA BuffersKept ==
    ASSUME IInv, UNCHANGED buffers, UNCHANGED data,
           At' = At \/ (At \notin InFrame /\ At' \notin InFrame)
    PROVE  FramesLie' /\ ReaderRight'
BY RxKept DEF buffers

\* Sizes do not matter outside of the calls that read them
LEMMA SizeIdle ==
    ASSUME pc' \notin Sizing, half' = <<>>
    PROVE  SizeRight'
BY DEF SizeRight, Sizing

\* Nor do they change while the registers they are read from, and the reader, stand still
LEMMA SizeKept ==
    ASSUME IInv, UNCHANGED <<pc, RX_WR, freed, TX_RD, queued, size, half>>
    PROVE  SizeRight'
<1>1. UNCHANGED <<RX_RSR, TX_FSR, first, val, val1, seen>>
  BY DEF RX_RSR, TX_FSR, size
<1> QED
  BY <1>1 DEF IInv, SizeRight, HalfOf, Torn

\* OPEN and CLOSE
LEMMA OpenKeeps == IInv /\ (ChipOpens \/ ChipCloses) => IInv'
<1> SUFFICES ASSUME IInv, ChipOpens \/ ChipCloses PROVE IInv'
  OBVIOUS
<1>1. /\ UNCHANGED <<buffers, data, pc, after, size, half, sending, IR, first>> /\ CR' = "none"
      /\ CR # "RECV" /\ CR # "SEND" /\ UNCHANGED At
  BY DEF ChipOpens, ChipCloses, buffers, ring, transmitter, locals, size, At
<1>2. FramesLie' /\ ReaderRight'
  BY <1>1, BuffersKept
<1>3. Types'
  BY <1>1 DEF IInv, Types, buffers
<1>4. CommandsRight'
  BY <1>1 DEF IInv, CommandsRight, buffers
<1>5. SizeRight'
  BY <1>1, SizeKept DEF buffers
<1>6. SenderRight'
  BY <1>1, TxKept DEF IInv, SenderRight, buffers
<1> QED
  BY <1>2, <1>3, <1>4, <1>5, <1>6 DEF IInv

\* SEND
LEMMA QueueKeeps == IInv /\ ChipQueues => IInv'
<1> SUFFICES ASSUME IInv, ChipQueues PROVE IInv'
  OBVIOUS
<1>1. /\ UNCHANGED <<mem, RX_WR, RX_RD, freed, pending, TX_WR, TX_RD, data, pc, after, half>>
      /\ UNCHANGED <<sending, IR, At, first>>
      /\ CR' = "none" /\ CR = "SEND" /\ queued' = TX_WR
  BY DEF ChipQueues, ring, transmitter, locals, size, At
<1>2. FramesLie' /\ ReaderRight'
  BY <1>1, RxKept
<1>3. Types'
  BY <1>1 DEF IInv, Types
<1>4. CommandsRight'
  BY <1>1 DEF IInv, CommandsRight
<1>5. pc = "command" /\ half = <<>> /\ IR = {} /\ At = "sent"
  BY <1>1 DEF IInv, CommandsRight, SizeRight, SenderRight
<1>6. SizeRight'
  BY <1>1, <1>5, SizeIdle DEF Sizing
<1>7. TX_RD # TX_WR =>
        \A i \in 1 .. Len(sending) : mem[AddressByChip(TxBufferAddress, TX_RD, i)] = sending[i]
  BY DEF IInv, SenderRight
<1>8. SenderRight'
  BY <1>1, <1>5, <1>7 DEF IInv, SenderRight
<1> QED
  BY <1>2, <1>3, <1>4, <1>6, <1>8 DEF IInv

\* A transmission ends: what is wiped is in the transmit buffer
LEMMA SentKeeps == IInv /\ (ChipTransmits \/ ChipTimesOut) => IInv'
<1> SUFFICES ASSUME IInv, ChipTransmits \/ ChipTimesOut PROVE IInv'
  OBVIOUS
<1>1. /\ UNCHANGED <<RX_WR, RX_RD, freed, pending, TX_WR, queued, data, pc, after, half, CR, At>>
      /\ UNCHANGED first
      /\ TX_RD # queued /\ TX_RD' = queued
      /\ mem' = Wipe(TxBufferAddress, TX_RD, Plus(queued, PtrMod - TX_RD))
      /\ IR' = IR \cup {"SENDOK"} \/ IR' = IR \cup {"TIMEOUT"}
  BY DEF ChipTransmits, ChipTimesOut, locals, size, At
<1>2. CR # "SEND" /\ queued = TX_WR /\ TX_RD # TX_WR /\ At = "sent" /\ IR = {}
  BY <1>1 DEF IInv, SenderRight
<1>3. half = <<>> /\ pc \notin Sizing
  BY <1>2 DEF IInv, SizeRight, At, Sizing
<1>4. DOMAIN mem' = DOMAIN mem /\ DOMAIN mem = 0 .. 2 * BufferLength - 1
  BY <1>1 DEF Wipe, IInv, Types
<1>5. \A a \in 0 .. 2 * BufferLength - 1 : a >= BufferLength => mem'[a] = mem[a]
  <2>1. ASSUME NEW a \in 0 .. 2 * BufferLength - 1, a >= BufferLength
        PROVE  mem'[a] = mem[a]
    <3>1. \A i \in 1 .. Plus(queued, PtrMod - TX_RD) :
            AddressByChip(TxBufferAddress, TX_RD, i) \in 0 .. BufferLength - 1
      BY TxAddress
    <3>2. a \notin {AddressByChip(TxBufferAddress, TX_RD, i) :
                         i \in 1 .. Plus(queued, PtrMod - TX_RD)}
      BY <2>1, <3>1, Sizes
    <3> QED
      BY <1>1, <1>4, <3>2 DEF Wipe
  <2> QED
    BY <2>1
<1>6. FramesLie' /\ ReaderRight'
  BY <1>1, <1>5, RxKept
<1>7. Types'
  BY <1>1, <1>4 DEF IInv, Types
<1>8. CommandsRight'
  BY <1>1 DEF IInv, CommandsRight
<1>9. SizeRight'
  BY <1>1, <1>3, SizeIdle
<1>10. SenderRight'
  <2>1. TX_RD' = TX_WR' /\ queued' = TX_WR' /\ At' = "sent" /\ CR' # "SEND" /\ IR' # {}
        /\ (IR' = {"SENDOK"} \/ IR' = {"TIMEOUT"}) /\ pc' \notin {"fsr1", "fsr2", "write"}
    BY <1>1, <1>2, <1>3 DEF Sizing
  <2> QED
    BY <2>1 DEF SenderRight
<1> QED
  BY <1>6, <1>7, <1>8, <1>9, <1>10 DEF IInv

\* A command is given that frees and sends nothing, or has been taken, or a call returns
LEMMA RestKeeps ==
    IInv /\ (CommandTaken \/ beginReturns \/ end \/ endReturns) => IInv'
<1> SUFFICES ASSUME IInv, CommandTaken \/ beginReturns \/ end \/ endReturns PROVE IInv'
  OBVIOUS
<1>1. UNCHANGED <<buffers, data, sending, first, half>> /\ pc \notin Sizing /\ half = <<>>
  <2>1. UNCHANGED <<buffers, data, sending, first, half>> /\ pc \notin Sizing
    BY DEF CommandTaken, beginReturns, end, endReturns, buffers, ring, transmitter, locals, size,
           Sizing
  <2> QED
    BY <2>1 DEF IInv, SizeRight, Sizing
<1>2. /\ At' = At \/ (At \notin InFrame /\ At' \notin InFrame)
      /\ pc' \notin Sizing
      /\ after' \in {"opened", "closing", "sent", "idle"} \cup InFrame
      /\ At = "sent" <=> At' = "sent"
  BY DEF CommandTaken, beginReturns, end, endReturns, Command, IInv, Types, At, InFrame, Sizing
<1>3. FramesLie' /\ ReaderRight'
  BY <1>1, <1>2, BuffersKept
<1>4. Types'
  BY <1>1, <1>2 DEF IInv, Types, buffers
<1>5. /\ pc' # "command" => CR' = "none"
      /\ CR' # "RECV" /\ CR' # "SEND" /\ CR # "RECV" /\ CR # "SEND"
  BY DEF CommandTaken, beginReturns, end, endReturns, Command, IInv, CommandsRight, socket
<1>6. CommandsRight'
  BY <1>1, <1>5 DEF IInv, CommandsRight, buffers
<1>7. SizeRight'
  BY <1>1, <1>2, SizeIdle
<1>8. IR' = IR
  BY DEF CommandTaken, beginReturns, end, endReturns, socket, IInv, SenderRight, At
<1>9. SenderRight'
  BY <1>1, <1>2, <1>5, <1>8, TxKept DEF buffers, Sizing
<1> QED
  BY <1>3, <1>4, <1>6, <1>7, <1>9 DEF IInv

-----------------------------------------------------------------------------
(* begin() *)

\* Nothing received, nothing to send, nowhere in a frame
Fresh ==
    /\ mem = Memory /\ RX_WR = 0 /\ RX_RD = 0 /\ freed = 0 /\ TX_WR = 0 /\ TX_RD = 0
    /\ queued = 0 /\ CR = "OPEN" /\ IR = {} /\ pc = "command" /\ after = "opened"
    /\ first = "high" /\ half = <<>> /\ pending = <<>>

\* In that state the invariant holds
LEMMA FreshRight == Fresh => IInv
<1> SUFFICES ASSUME Fresh PROVE IInv
  OBVIOUS
<1> USE DEF Fresh
<1>1. Types
  <2>1. 0 \in 0 .. PtrMod - 1
    BY Sizes
  <2> QED
    BY <2>1 DEF Types, Memory
<1>2. CommandsRight
  BY DEF CommandsRight
<1>3. FramesLie
  <2>1. held = <<>> /\ unread = 0 /\ From(RX_WR) = 0
    BY DEF held, unread, From, At, InFrame
  <2>2. PICK pos : pos = [i \in 1 .. 1 |-> 0]
    OBVIOUS
  <2>3. Laid(mem, <<>>, pos) /\ pos[1] = 0
    <3>1. Len(<<>>) = 0 /\ Len(<<>>) + 1 = 1 /\ 1 .. Len(<<>>) = {}
      OBVIOUS
    <3>2. pos \in [1 .. 1 -> Nat] /\ \A i \in 1 .. 1 : pos[i] = 0
      BY <2>2
    <3> QED
      BY <3>1, <3>2 DEF Laid
  <2>4. Len(<<>>) + 1 = 1
    OBVIOUS
  <2> QED
    BY <2>1, <2>3, <2>4, Sizes DEF FramesLie
<1>4. ReaderRight
  BY DEF ReaderRight, At, InFrame
<1>5. SizeRight
  BY DEF SizeRight
<1>6. SenderRight
  BY DEF SenderRight
<1> QED
  BY <1>1, <1>2, <1>3, <1>4, <1>5, <1>6 DEF IInv

\* The first begin(), by setup()
LEMMA InitRight == Init => IInv
BY FreshRight DEF Init, Fresh

\* begin() again, at any time (w5100.cpp:211-241, w5500.cpp:252-282)
LEMMA BeginKeeps == IInv /\ begin => IInv'
<1>1. Fresh => IInv
  BY FreshRight
<1>2. (Fresh => IInv)'
  BY <1>1, PTL
<1>3. begin => Fresh'
  BY DEF begin, Begun, Command, Fresh
<1> QED
  BY <1>2, <1>3

-----------------------------------------------------------------------------
(* The sizes, read byte by byte *)

\* A word of which the bytes are read at growing values is, read twice alike, one of them
LEMMA TwoReadings ==
    ASSUME NEW s \in Nat, NEW t \in Nat, NEW u \in Nat, NEW v \in Nat,
           s <= t, t <= u, u <= v, v < PtrMod, Torn(s, t) = Torn(u, v)
    PROVE  Torn(u, v) \in {t, u}
<1>1. PICK b \in Nat, hs \in Nat, ht \in Nat, hu \in Nat, hv \in Nat :
        /\ hs = High(s) /\ ht = High(t) /\ hu = High(u) /\ hv = High(v) /\ b = ByteMod
  <2>1. s < PtrMod /\ t < PtrMod /\ u < PtrMod
    BY Sizes
  <2>2. /\ High(s) \in 0 .. ByteMod - 1 /\ High(t) \in 0 .. ByteMod - 1
        /\ High(u) \in 0 .. ByteMod - 1 /\ High(v) \in 0 .. ByteMod - 1
    BY <2>1, WordFacts
  <2> QED
    BY <2>2, Sizes
<1>2. PICK ls \in Nat, lt \in Nat, lu \in Nat, lv \in Nat :
        /\ ls = Low(s) /\ lt = Low(t) /\ lu = Low(u) /\ lv = Low(v)
        /\ ls < b /\ lt < b /\ lu < b /\ lv < b
  <2>1. s < PtrMod /\ t < PtrMod /\ u < PtrMod
    BY Sizes
  <2>2. /\ Low(s) \in 0 .. ByteMod - 1 /\ Low(t) \in 0 .. ByteMod - 1
        /\ Low(u) \in 0 .. ByteMod - 1 /\ Low(v) \in 0 .. ByteMod - 1
    BY <2>1, WordFacts
  <2> QED
    BY <1>1, <2>2
<1>3. hs <= ht /\ ht <= hu /\ hu <= hv
  BY <1>1, HighMonotone, Sizes
<1>4. t = ht * b + lt /\ u = hu * b + lu
  <2>1. t < PtrMod /\ u < PtrMod
    BY Sizes
  <2> QED
    BY <1>1, <1>2, <2>1, WordFacts
<1>5. \A x, y, l, m \in Nat : l < b /\ m < b /\ x * b + l = y * b + m => x = y /\ l = m
  <2>1. ASSUME NEW x \in Nat, NEW y \in Nat, NEW l \in Nat, NEW m \in Nat,
               l < b, m < b, x * b + l = y * b + m
        PROVE  x = y /\ l = m
    <3>1. b \in Nat
      OBVIOUS
    <3>2. x * b \in Nat /\ y * b \in Nat
      OBVIOUS
    <3>3. x < y => x * b + b <= y * b
      OBVIOUS
    <3>4. y < x => y * b + b <= x * b
      OBVIOUS
    <3> QED
      BY <2>1, <3>2, <3>3, <3>4
  <2> QED
    BY <2>1
<1>6. CASE first = "high"
  <2>1. hs * b + lt = hu * b + lv
    BY <1>1, <1>2, <1>6 DEF Torn
  <2>2. hs = hu /\ lt = lv
    BY <1>2, <1>5, <2>1
  <2>3. ht = hu
    BY <1>3, <2>2
  <2>4. Torn(u, v) = t
    BY <1>1, <1>2, <1>4, <1>6, <2>2, <2>3 DEF Torn
  <2> QED
    BY <2>4
<1>7. CASE first # "high"
  <2>1. ht * b + ls = hv * b + lu
    BY <1>1, <1>2, <1>7 DEF Torn
  <2>2. ht = hv /\ ls = lu
    BY <1>2, <1>5, <2>1
  <2>3. hu = hv
    BY <1>3, <2>2
  <2>4. Torn(u, v) = u
    BY <1>1, <1>2, <1>4, <1>7, <2>3 DEF Torn
  <2> QED
    BY <2>4
<1> QED
  BY <1>6, <1>7

\* Bytes of the value at one time make up that value
LEMMA NotTorn ==
    ASSUME NEW s \in Nat, s < PtrMod
    PROVE  Torn(s, s) = s
BY WordFacts DEF Torn

\* Word, of a half that is that of s
LEMMA WordIs ==
    ASSUME NEW s, half = <<HalfOf(s)>>
    PROVE  Word = Torn(s, Size(pc))
BY DEF Word, HalfOf, Torn

\* What changes none of the buffers, of the commands and of the places in frames
LEMMA Elsewhere ==
    ASSUME IInv, UNCHANGED <<buffers, socket, after>>, pc # "command", pc' # "command",
           pc \notin InFrame, pc' \notin InFrame, pc # "sent", pc' # "sent",
           first' \in {"high", "low"}, UNCHANGED data,
           pc' \in {"fsr1", "fsr2", "write"} => sending' \in Outgoing
    PROVE  Types' /\ CommandsRight' /\ FramesLie' /\ ReaderRight' /\ SenderRight'
<1>1. At = pc /\ At' = pc'
  BY DEF At
<1>2. FramesLie' /\ ReaderRight'
  BY <1>1, BuffersKept
<1>3. Types'
  BY DEF IInv, Types, buffers
<1>4. CommandsRight'
  BY <1>1 DEF IInv, CommandsRight, buffers, socket
<1>5. SenderRight'
  <2>1. TX_RD = TX_WR /\ IR = {} /\ CR = "none" /\ queued = TX_WR
    BY <1>1 DEF IInv, SenderRight, CommandsRight
  <2> QED
    BY <1>1, <2>1 DEF SenderRight, buffers, socket
<1> QED
  BY <1>2, <1>3, <1>4, <1>5

\* readFrame() and sendFrame() begin (w5100.cpp:254-256,287-292)
LEMMA AskKeeps == IInv /\ (readFrame \/ \E f \in Outgoing : sendFrame(f)) => IInv'
<1> SUFFICES ASSUME IInv, readFrame \/ \E f \in Outgoing : sendFrame(f) PROVE IInv'
  OBVIOUS
<1>1. /\ UNCHANGED <<buffers, socket, after, half, data>> /\ pc = "idle"
      /\ pc' \in {"rsr1", "fsr1"} /\ first' \in {"high", "low"}
      /\ pc' = "rsr1" => seen' = {RX_RSR}
      /\ pc' = "fsr1" => seen' = {TX_FSR} /\ sending' \in Outgoing
  BY DEF readFrame, sendFrame, NewSize, buffers, ring, transmitter
<1>2. Types' /\ CommandsRight' /\ FramesLie' /\ ReaderRight' /\ SenderRight'
  BY <1>1, Elsewhere DEF InFrame
<1>3. half = <<>> /\ RX_RSR \in Nat /\ RX_RSR <= RX_RSR
  BY <1>1, RSRFacts DEF IInv, SizeRight
<1>4. UNCHANGED <<RX_RSR, TX_FSR>>
  BY <1>1 DEF RX_RSR, TX_FSR, buffers
<1>5. SizeRight'
  BY <1>1, <1>3, <1>4 DEF SizeRight
<1> QED
  BY <1>2, <1>5 DEF IInv

\* One byte of a size (wizchip_read_word(), w5100.cpp:50-53)
LEMMA ReadByteKeeps == IInv /\ ReadByte => IInv'
<1> SUFFICES ASSUME IInv, ReadByte PROVE IInv'
  OBVIOUS
<1>1. /\ UNCHANGED <<buffers, socket, after, data, pc, first, val, val1, seen, sending>>
      /\ pc \in {"rsr1", "rsr2", "fsr1", "fsr2"} /\ half' = <<HalfOf(Size(pc))>>
  BY DEF ReadByte, buffers, ring, transmitter, size, HalfOf
<1>2. Types' /\ CommandsRight' /\ FramesLie' /\ ReaderRight' /\ SenderRight'
  BY <1>1, Elsewhere DEF InFrame, IInv, SenderRight, Types
<1>3. UNCHANGED <<RX_RSR, TX_FSR>>
  BY <1>1 DEF RX_RSR, TX_FSR, buffers
<1>4. \A s : HalfOf(s)' = HalfOf(s) 
  BY <1>1 DEF HalfOf
<1>5. pc \in {"rsr1", "rsr2"} => /\ RX_RSR \in seen /\ half' = <<HalfOf(RX_RSR)>>
                                 /\ \A s \in seen : s \in Nat /\ s <= RX_RSR
  BY <1>1 DEF IInv, SizeRight, Size
<1>6. pc = "rsr2" => val1 # 0 /\ \E s, t \in seen :
                       /\ s <= t /\ val1 = Torn(s, t)
                       /\ \E u \in seen : t <= u /\ half' = <<HalfOf(u)>>
  BY <1>5 DEF IInv, SizeRight
<1>7. pc \in {"fsr1", "fsr2"} => TX_FSR \in seen /\ half' = <<HalfOf(TX_FSR)>>
  BY <1>1 DEF IInv, SizeRight, Size
<1>8. SizeRight'
  BY <1>1, <1>3, <1>5, <1>6, <1>7 DEF SizeRight, HalfOf, Torn
<1> QED
  BY <1>2, <1>8 DEF IInv

\* The first reading of the size of what was received (w5100.cpp:116-117)
LEMMA FirstSizeKeeps == IInv /\ FirstSize => IInv'
<1> SUFFICES ASSUME IInv, FirstSize PROVE IInv'
  OBVIOUS
<1>1. /\ UNCHANGED <<buffers, socket, after, data, sending>> /\ half' = <<>> /\ half # <<>>
      /\ pc = "rsr1" /\ pc' \in {"idle", "rsr1", "rsr2"} /\ first' \in {"high", "low"}
      /\ pc' # "idle" => UNCHANGED <<first, seen>> /\ val1' = Word
      /\ pc' = "rsr2" => Word # 0
  BY DEF FirstSize, SizeRead, Forgotten, buffers, ring, transmitter, IInv, Types
<1>2. Types' /\ CommandsRight' /\ FramesLie' /\ ReaderRight' /\ SenderRight'
  BY <1>1, Elsewhere DEF InFrame
<1>3. UNCHANGED <<RX_RSR, TX_FSR>>
  BY <1>1 DEF RX_RSR, TX_FSR, buffers
<1>4. RX_RSR \in seen /\ \A s \in seen : s \in Nat /\ s <= RX_RSR
  BY <1>1 DEF IInv, SizeRight
<1>5. PICK s \in seen : half = <<HalfOf(s)>>
  BY <1>1 DEF IInv, SizeRight
<1>6. Word = Torn(s, RX_RSR) /\ s <= RX_RSR
  BY <1>1, <1>4, <1>5, WordIs DEF Size
<1>7. SizeRight'
  BY <1>1, <1>3, <1>4, <1>6 DEF SizeRight, Torn
<1> QED
  BY <1>2, <1>7 DEF IInv

\* The second, which ends the loop when it is as the first (w5100.cpp:119-121)
LEMMA SecondSizeKeeps == IInv /\ SecondSize => IInv'
<1> SUFFICES ASSUME IInv, SecondSize PROVE IInv'
  OBVIOUS
<1>1. /\ UNCHANGED <<buffers, socket, after, data, sending, first, seen>>
      /\ half' = <<>> /\ half # <<>> /\ val' = Word
      /\ pc = "rsr2" /\ pc' \in {"head", "rsr1"} /\ (pc' = "head" => Word = val1)
  BY DEF SecondSize, SecondReading, SizeRead, buffers, ring, transmitter
<1>2. Types' /\ CommandsRight' /\ FramesLie' /\ ReaderRight' /\ SenderRight'
  BY <1>1, Elsewhere DEF InFrame, IInv, Types
<1>3. UNCHANGED <<RX_RSR, TX_FSR>>
  BY <1>1 DEF RX_RSR, TX_FSR, buffers
<1>4. RX_RSR \in seen /\ val1 # 0 /\ \A s \in seen : s \in Nat /\ s <= RX_RSR
  BY <1>1 DEF IInv, SizeRight
<1>5. PICK s \in seen, t \in seen : /\ s <= t /\ val1 = Torn(s, t)
                                    /\ \E u \in seen : t <= u /\ half = <<HalfOf(u)>>
  BY <1>1 DEF IInv, SizeRight
<1>6. PICK u \in seen : t <= u /\ half = <<HalfOf(u)>>
  BY <1>5
<1>7. Word = Torn(u, RX_RSR)
  BY <1>1, <1>6, WordIs DEF Size
<1>8. pc' = "head" => val' \in seen /\ val' # 0
  <2>1. s \in Nat /\ t \in Nat /\ u \in Nat /\ RX_RSR \in Nat /\ u <= RX_RSR
    BY <1>4
  <2>2. RX_RSR < PtrMod
    BY RSRFacts, Sizes
  <2>3. Torn(s, t) = Torn(u, RX_RSR) => Torn(u, RX_RSR) \in {t, u}
    BY <1>5, <1>6, <2>1, <2>2, TwoReadings
  <2> QED
    BY <1>1, <1>4, <1>5, <1>7, <2>3
<1>9. SizeRight'
  BY <1>1, <1>3, <1>4, <1>8 DEF SizeRight
<1> QED
  BY <1>2, <1>9 DEF IInv

\* The free size is that of the whole buffer
LEMMA FreeWord ==
    ASSUME IInv, pc \in {"fsr1", "fsr2"}, half # <<>>
    PROVE  Word = TX_FSR /\ TX_FSR = BufferLength
<1>1. TX_FSR = BufferLength
  BY FSRFacts
<1>2. half = <<HalfOf(TX_FSR)>>
  BY DEF IInv, SizeRight
<1>3. Word = Torn(TX_FSR, TX_FSR)
  BY <1>2, WordIs DEF Size
<1>4. Torn(BufferLength, BufferLength) = BufferLength
  BY NotTorn, Sizes
<1> QED
  BY <1>1, <1>3, <1>4

\* The readings of the free size, and the tests of it (w5100.cpp:96-109,290-297)
LEMMA FreeSizeKeeps == IInv /\ (FreeSizeAgain \/ FreeSize) => IInv'
<1> SUFFICES ASSUME IInv, FreeSizeAgain \/ FreeSize PROVE IInv'
  OBVIOUS
<1>1. /\ UNCHANGED <<buffers, socket, after, data>> /\ half' = <<>> /\ half # <<>>
      /\ pc \in {"fsr1", "fsr2"} /\ pc' \in {"idle", "fsr1", "fsr2", "write"}
  BY DEF FreeSizeAgain, FreeSize, SizeRead, buffers, ring, transmitter
<1>2. TX_FSR \in seen /\ sending \in Outgoing /\ first \in {"high", "low"}
  BY <1>1 DEF IInv, SizeRight, SenderRight, Types
<1>3. Word = TX_FSR
  BY <1>1, FreeWord
<1>4. /\ first' \in {"high", "low"}
      /\ pc' # "idle" => sending' = sending /\ TX_FSR \in seen'
      /\ pc' = "write" => val' = TX_FSR
  <2>1. CASE FreeSizeAgain
    BY <1>1, <1>2, <2>1 DEF FreeSizeAgain, transmitter
  <2>2. CASE FreeSize
    BY <1>2, <1>3, <2>2 DEF FreeSize, NewSize, Forgotten
  <2> QED
    BY <2>1, <2>2
<1>5. Types' /\ CommandsRight' /\ FramesLie' /\ ReaderRight' /\ SenderRight'
  BY <1>1, <1>2, <1>4, Elsewhere DEF InFrame
<1>6. UNCHANGED TX_FSR
  BY <1>1 DEF TX_FSR, buffers
<1>7. SizeRight'
  BY <1>1, <1>4, <1>6 DEF SizeRight
<1> QED
  BY <1>5, <1>7 DEF IInv

-----------------------------------------------------------------------------
(* readFrame() *)

\* The frames that are held, and the read pointer as a position
LEMMA HeldFacts ==
    ASSUME IInv
    PROVE  /\ held \in Seq(Incoming) /\ pending \in Seq(Incoming)
           /\ At \in InFrame => pending # <<>> /\ Head(pending) \in Incoming
           /\ From(RX_RD) \in Nat /\ From(RX_RD) < 2 * PtrMod /\ freed <= From(RX_RD)
           /\ RX_RD = Wrap(From(RX_RD)) /\ freed \in Nat /\ freed < PtrMod
<1>1. pending \in Seq(Incoming) /\ (At \in InFrame => pending # <<>>)
  BY DEF IInv, Types, ReaderRight
<1>2. RX_RD \in Nat /\ RX_RD < PtrMod /\ freed \in Nat /\ freed < PtrMod
  BY Sizes DEF IInv, Types
<1>3. /\ From(RX_RD) \in Nat /\ From(RX_RD) < 2 * PtrMod /\ freed <= From(RX_RD)
      /\ RX_RD = Wrap(From(RX_RD))
  BY <1>2, Sizes DEF From, Wrap
<1> QED
  BY <1>1, <1>2, <1>3 DEF held

\* The positions of the frames that are held
LEMMA PositionFacts ==
    ASSUME IInv, NEW pos, Laid(mem, held, pos), pos[1] = unread, pos[Len(held) + 1] = From(RX_WR)
    PROVE  /\ unread \in Nat /\ From(RX_WR) \in Nat /\ unread <= From(RX_WR)
           /\ From(RX_WR) <= freed + BufferLength
           /\ held = <<>> => unread = From(RX_WR)
<1>1. PICK n \in Nat : n = Len(held)
  BY HeldFacts
<1>2. 1 \in 1 .. n + 1 /\ n + 1 \in 1 .. n + 1 /\ 1 <= n + 1
  BY <1>1
<1>3. pos \in [1 .. n + 1 -> Nat] /\ \A i, j \in 1 .. n + 1 : i <= j => pos[i] <= pos[j]
  BY <1>1 DEF Laid
<1>4. pos[1] \in Nat /\ pos[n + 1] \in Nat /\ pos[1] <= pos[n + 1]
  BY <1>2, <1>3
<1>5. From(RX_WR) <= freed + BufferLength
  BY DEF IInv, FramesLie
<1>6. held = <<>> => n + 1 = 1
  BY <1>1
<1> QED
  BY <1>1, <1>4, <1>5, <1>6

\* A pointer within a buffer of freed
LEMMA FromWrap ==
    ASSUME IInv, NEW p \in Nat, freed <= p, p <= freed + BufferLength
    PROVE  From(Wrap(p)) = p /\ Wrap(p) \in 0 .. PtrMod - 1
<1>1. freed \in Nat /\ freed < PtrMod
  BY HeldFacts
<1> QED
  BY <1>1, Sizes DEF From, Wrap

\* wizchip_recv_data() reads what lies from RX_RD on
LEMMA RecvData ==
    ASSUME IInv, NEW n \in Nat, n <= BufferLength
    PROVE  ReadBuf(RxBufferAddress, RX_RD, n) =
               [i \in 1 .. n |-> mem[RxSlot(From(RX_RD) + i - 1)]]
<1>1. PICK p \in Nat : p = From(RX_RD) /\ p < 2 * PtrMod /\ RX_RD = Wrap(p)
  BY HeldFacts
<1>2. PICK base \in Nat : base = RxBufferAddress
  BY Sizes DEF RxBufferAddress
<1>3. ASSUME NEW i \in 1 .. n
      PROVE  ByteAt(AddressOf(RxBufferAddress, RX_RD, n, i)) = mem[RxSlot(From(RX_RD) + i - 1)]
  <2>1. PICK w \in Nat : w = RX_RD
    BY Sizes DEF IInv, Types
  <2>2. AddressOf(base, w, n, i) = AddressByChip(base, w, i)
    BY DriverAddress
  <2>3. AddressByChip(base, Wrap(p), i) = base + Slot(p + (i - 1))
    BY <1>1, ChipAddress
  <2>4. PICK q \in Nat : q = p + (i - 1) /\ q = p + i - 1
    OBVIOUS
  <2>5. AddressOf(RxBufferAddress, RX_RD, n, i) = RxSlot(q)
    BY <1>1, <1>2, <2>1, <2>2, <2>3, <2>4 DEF RxSlot
  <2>6. RxSlot(q) \in DOMAIN mem
    BY SlotFacts DEF IInv, Types
  <2> QED
    BY <1>1, <2>4, <2>5, <2>6 DEF ByteAt
<1> QED
  BY <1>3 DEF ReadBuf

\* The length of a header
LEMMA HeaderLength ==
    ASSUME NEW l \in Nat, l + 2 < PtrMod, NEW h, h[1] = High(l + 2), h[2] = Low(l + 2)
    PROVE  DataLen(h) = l
<1>1. PICK n \in Nat : n = l + 2
  OBVIOUS
<1>2. High(n) * ByteMod + Low(n) = n
  BY <1>1, WordFacts
<1>3. n + PtrMod - 2 = l + PtrMod /\ l < PtrMod
  BY <1>1, Sizes
<1>4. DataLen(h) = (n + PtrMod - 2) % PtrMod
  BY <1>1, <1>2 DEF DataLen
<1>5. Plus(l, PtrMod) = Wrap(l + PtrMod)
  BY <1>3, PlusFacts, Sizes
<1>6. Wrap(l + PtrMod) = l
  BY Sizes DEF Wrap
<1> QED
  BY <1>3, <1>4, <1>5, <1>6 DEF Plus

\* The length before the oldest frame is read (w5100.cpp:263-268)
LEMMA ReadHeaderKeeps == IInv /\ ReadHeader => IInv'
<1> SUFFICES ASSUME IInv, ReadHeader PROVE IInv'
  OBVIOUS
<1>1. /\ UNCHANGED <<mem, RX_WR, freed, pending, TX_WR, TX_RD, queued, sending, IR, half>>
      /\ pc = "head" /\ data' = ReadBuf(RxBufferAddress, RX_RD, 2) /\ RX_RD' = Plus(RX_RD, 2)
      /\ pc' = "command" /\ CR' = "RECV" /\ first' = "high"
      /\ after' = IF DataLen(data') > BufSize THEN "ignore" ELSE "data"
  BY DEF ReadHeader, Command, Forgotten, transmitter
<1>2. /\ At = "head" /\ At' = after' /\ At' \in {"ignore", "data"} /\ CR = "none" /\ half = <<>>
      /\ freed = RX_RD /\ held = pending /\ unread = From(RX_RD) /\ From(RX_RD) = freed
      /\ val \in seen /\ val # 0 /\ \A s \in seen : s \in Nat /\ s <= RX_RSR
  <2>1. At = "head" /\ At' = after' /\ At' \in {"ignore", "data"}
    BY <1>1 DEF At
  <2>2. CR = "none" /\ freed = RX_RD
    BY <1>1 DEF IInv, CommandsRight
  <2>3. From(RX_RD) = freed
    BY <2>2, HeldFacts DEF From
  <2>4. half = <<>> /\ val \in seen /\ val # 0 /\ \A s \in seen : s \in Nat /\ s <= RX_RSR
    BY <1>1 DEF IInv, SizeRight
  <2> QED
    BY <2>1, <2>2, <2>3, <2>4 DEF held, unread, InFrame
<1>3. PICK pos : Laid(mem, held, pos) /\ pos[1] = unread /\ pos[Len(held) + 1] = From(RX_WR)
  BY DEF IInv, FramesLie
<1>4. PICK o \in Nat : o = freed /\ o < PtrMod
  BY HeldFacts
<1>5. pending \in Seq(Incoming) /\ pending # <<>>
  <2>1. RX_RSR = From(RX_WR) - freed /\ RX_RSR \in Nat /\ From(RX_WR) \in Nat
    BY RSRFacts
  <2>2. RX_RSR > 0
    BY <1>2, <2>1
  <2>3. held = <<>> => unread = From(RX_WR)
    BY <1>3, PositionFacts
  <2> QED
    BY <1>2, <1>4, <2>1, <2>2, <2>3, HeldFacts
<1>6. PICK f \in Incoming : f = Head(pending)
  BY <1>5
<1>7. PICK l \in Nat : l = Len(f)
  BY FrameFacts
<1>8. PICK new : /\ Laid(mem, Tail(pending), new) /\ new[1] = o + l + 2
                 /\ new[Len(Tail(pending)) + 1] = From(RX_WR)
  <2>1. \E new : /\ Laid(mem, Tail(pending), new) /\ new[1] = pos[1] + Len(Head(pending)) + 2
                 /\ new[Len(Tail(pending)) + 1] = pos[Len(pending) + 1]
    BY <1>2, <1>3, <1>5, LaidOneLess
  <2> QED
    BY <1>2, <1>3, <1>4, <1>6, <1>7, <2>1
<1>9. l + 2 <= BufferLength
  <2>1. PICK n \in Nat : n = Len(Tail(pending)) + 1
    BY <1>5
  <2>2. 1 \in 1 .. n /\ n \in 1 .. n /\ 1 <= n
    BY <1>5, <2>1
  <2>3. new[1] <= new[n]
    BY <1>8, <2>1, <2>2 DEF Laid
  <2>4. From(RX_WR) <= o + BufferLength /\ From(RX_WR) \in Nat
    BY <1>4, RSRFacts DEF IInv, FramesLie
  <2> QED
    BY <1>8, <2>1, <2>3, <2>4, Sizes
<1>10. Holds(mem, o, f)
  <2>1. 1 \in 1 .. Len(pending) /\ pending[1] = f
    BY <1>5, <1>6
  <2> QED
    BY <1>2, <1>3, <1>4, <2>1 DEF Laid
<1>11. DataLen(data') = l
  <2>1. data' = [i \in 1 .. 2 |-> mem[RxSlot(From(RX_RD) + i - 1)]]
    <3>1. PICK n \in Nat : n = 2 /\ n <= BufferLength
      BY <1>9, Sizes
    <3>2. ReadBuf(RxBufferAddress, RX_RD, n) =
              [i \in 1 .. n |-> mem[RxSlot(From(RX_RD) + i - 1)]]
      BY <3>1, RecvData
    <3> QED
      BY <1>1, <3>1, <3>2
  <2>2. o + 1 - 1 = o /\ o + 2 - 1 = o + 1
    OBVIOUS
  <2>3. data'[1] = mem[RxSlot(o)] /\ data'[2] = mem[RxSlot(o + 1)]
    BY <1>2, <1>4, <2>1, <2>2
  <2>4. data'[1] = High(l + 2) /\ data'[2] = Low(l + 2)
    BY <1>7, <1>10, <2>3 DEF Holds
  <2>5. l + 2 < PtrMod
    BY <1>9, Sizes
  <2> QED
    BY <2>4, <2>5, HeaderLength
<1>12. PICK p \in Nat : /\ p = o + 2 /\ RX_RD' = Wrap(p) /\ From(Wrap(p)) = p
                            /\ RX_RD' \in 0 .. PtrMod - 1
  <2>1. PICK p \in Nat : p = o + 2 /\ p <= o + BufferLength /\ o <= p
    BY <1>9, Sizes
  <2>2. From(Wrap(p)) = p /\ Wrap(p) \in 0 .. PtrMod - 1
    BY <1>4, <2>1, FromWrap
  <2>3. Plus(o, 2) = Wrap(o + 2)
    BY <1>4, <1>9, PlusFacts, Sizes
  <2> QED
    BY <1>1, <1>2, <1>4, <2>1, <2>2, <2>3
<1>13. From(RX_RD)' = p /\ From(RX_WR)' = From(RX_WR)
  BY <1>1, <1>12 DEF From
<1>14. Types'
  BY <1>1, <1>12 DEF IInv, Types, InFrame
<1>15. CommandsRight'
  BY <1>1, <1>2 DEF CommandsRight, InFrame
<1>16. FramesLie'
  <2>1. held' = Tail(pending) /\ unread' = o + l + 2
    BY <1>1, <1>2, <1>6, <1>7, <1>12, <1>13 DEF held, unread, InFrame
  <2>2. From(RX_WR)' <= freed' + BufferLength
    BY <1>1, <1>13 DEF IInv, FramesLie
  <2> QED
    BY <1>1, <1>8, <1>13, <2>1, <2>2 DEF FramesLie
<1>17. ReaderRight'
  <2>1. ASSUME NEW k \in 1 .. l PROVE mem[RxSlot(p + k - 1)] = f[k]
    <3>1. o + 1 + k = p + k - 1
      BY <1>12
    <3> QED
      BY <1>7, <1>10, <3>1 DEF Holds
  <2>2. At' = "data" => l <= BufSize
    BY <1>1, <1>2, <1>11, Sizes
  <2>3. At' = "ignore" => l > BufSize
    BY <1>1, <1>2, <1>11, Sizes
  <2>4. DataLen(data)' = l
    BY <1>11 DEF DataLen
  <2> QED
    BY <1>1, <1>2, <1>5, <1>6, <1>7, <1>13, <2>1, <2>2, <2>3, <2>4 DEF ReaderRight
<1>18. SizeRight'
  BY <1>1, <1>2, SizeIdle DEF Sizing
<1>19. SenderRight'
  BY <1>1, <1>2, TxKept
<1> QED
  BY <1>14, <1>15, <1>16, <1>17, <1>18, <1>19 DEF IInv

\* The oldest frame is read, or ignored (w5100.cpp:270-279)
LEMMA ReadDataKeeps == IInv /\ (ReadData \/ IgnoreData) => IInv'
<1> SUFFICES ASSUME IInv, ReadData \/ IgnoreData PROVE IInv'
  OBVIOUS
<1>1. /\ UNCHANGED <<mem, RX_WR, freed, pending, TX_WR, TX_RD, queued, sending, IR, half, first>>
      /\ RX_RD' = Plus(RX_RD, DataLen(data)) /\ pc' = "command" /\ CR' = "RECV"
      /\ \/ /\ pc = "data" /\ data' = ReadBuf(RxBufferAddress, RX_RD, DataLen(data))
            /\ after' = "deliver"
         \/ pc = "ignore" /\ after' = "discard"
  BY DEF ReadData, IgnoreData, Command, transmitter, size
<1>2. At = pc /\ At' = after' /\ At \in InFrame /\ At' \in InFrame /\ pc \notin Sizing
  BY <1>1 DEF At, InFrame, Sizing
<1>3. CR = "none" /\ freed = RX_RD /\ From(RX_RD) = freed /\ half = <<>>
  <2>1. CR = "none" /\ freed = RX_RD /\ half = <<>>
    BY <1>1 DEF IInv, CommandsRight, SizeRight
  <2> QED
    BY <2>1, HeldFacts DEF From
<1>4. PICK o \in Nat : o = freed /\ o < PtrMod
  BY HeldFacts
<1>5. pending # <<>> /\ pending \in Seq(Incoming)
  BY <1>2, HeldFacts
<1>6. PICK f \in Incoming, l \in Nat : f = Head(pending) /\ l = Len(f)
  BY <1>5, FrameFacts
<1>7. DataLen(data) = l /\ \A k \in 1 .. l : mem[RxSlot(From(RX_RD) + k - 1)] = f[k]
  BY <1>1, <1>2, <1>6 DEF IInv, ReaderRight
<1>8. unread = o + l
  BY <1>1, <1>2, <1>3, <1>4, <1>6 DEF unread
<1>9. l <= BufferLength
  <2>1. PICK pos : Laid(mem, held, pos) /\ pos[1] = unread /\ pos[Len(held) + 1] = From(RX_WR)
    BY DEF IInv, FramesLie
  <2>2. unread <= From(RX_WR) /\ From(RX_WR) <= freed + BufferLength /\ From(RX_WR) \in Nat
    BY <2>1, PositionFacts
  <2> QED
    BY <1>4, <1>8, <2>2, Sizes
<1>10. PICK p \in Nat : /\ p = o + l /\ RX_RD' = Wrap(p) /\ From(Wrap(p)) = p
                            /\ RX_RD' \in 0 .. PtrMod - 1
  <2>1. PICK p \in Nat : p = o + l /\ p <= o + BufferLength /\ o <= p
    BY <1>9, Sizes
  <2>2. From(Wrap(p)) = p /\ Wrap(p) \in 0 .. PtrMod - 1
    BY <1>4, <2>1, FromWrap
  <2>3. Plus(o, l) = Wrap(o + l)
    BY <1>4, <1>9, PlusFacts, Sizes
  <2> QED
    BY <1>1, <1>3, <1>4, <1>7, <2>1, <2>2, <2>3
<1>11. From(RX_RD)' = p /\ From(RX_WR)' = From(RX_WR)
  BY <1>1, <1>10 DEF From
<1>12. Types'
  BY <1>1, <1>10 DEF IInv, Types, InFrame
<1>13. CommandsRight'
  BY <1>1, <1>2 DEF CommandsRight
<1>14. FramesLie'
  <2>1. held' = held /\ unread' = unread
    BY <1>1, <1>2, <1>8, <1>10, <1>11 DEF held, unread
  <2> QED
    BY <1>1, <1>11, <2>1 DEF IInv, FramesLie
<1>15. ReaderRight'
  <2>1. CASE pc = "data"
    <3>1. data' = [i \in 1 .. l |-> mem[RxSlot(From(RX_RD) + i - 1)]]
      BY <1>1, <1>7, <1>9, <2>1, RecvData
    <3>2. data' = f
      <4>1. f = [k \in 1 .. l |-> f[k]]
        BY <1>6, FrameFacts
      <4>2. data' = [k \in 1 .. l |-> f[k]]
        BY ONLY <1>7, <3>1
      <4> QED
        BY ONLY <4>1, <4>2
    <3>3. l <= BufSize
      BY <1>2, <1>6, <2>1 DEF IInv, ReaderRight
    <3> QED
      BY <1>1, <1>2, <1>5, <1>6, <2>1, <3>2, <3>3 DEF ReaderRight
  <2>2. CASE pc = "ignore"
    <3>1. l > BufSize
      BY <1>2, <1>6, <2>2 DEF IInv, ReaderRight
    <3> QED
      BY <1>1, <1>2, <1>5, <1>6, <2>2, <3>1 DEF ReaderRight
  <2> QED
    BY <1>1, <2>1, <2>2
<1>16. SizeRight'
  BY <1>1, <1>3, SizeIdle DEF Sizing
<1>17. SenderRight'
  BY <1>1, <1>2, <1>3, TxKept DEF InFrame
<1> QED
  BY <1>12, <1>13, <1>14, <1>15, <1>16, <1>17 DEF IInv

\* readFrame() returns (w5100.cpp:275,281)
LEMMA ReadReturnKeeps == IInv /\ readFrameReturns => IInv'
<1> SUFFICES ASSUME IInv, readFrameReturns PROVE IInv'
  OBVIOUS
<1>1. /\ UNCHANGED <<mem, RX_WR, RX_RD, freed, TX_WR, TX_RD, queued, sending, CR, IR, after, half,
                     first>>
      /\ pc \in {"deliver", "discard"} /\ pc' = "idle"
      /\ pending' = IF pending = <<>> THEN <<>> ELSE Tail(pending)
  BY DEF readFrameReturns, transmitter, socket, size
<1>2. At = pc /\ At' = "idle" /\ At \in InFrame /\ At' \notin InFrame
  BY <1>1 DEF At, InFrame
<1>3. CR = "none" /\ half = <<>> /\ pending # <<>> /\ pending \in Seq(Incoming)
  BY <1>1, <1>2, HeldFacts DEF IInv, CommandsRight, SizeRight
<1>4. pending' = Tail(pending) /\ pending' \in Seq(Incoming)
  BY <1>1, <1>3
<1>5. held' = held /\ unread' = unread /\ From(RX_WR)' = From(RX_WR)
  BY <1>1, <1>2, <1>4 DEF held, unread, From, InFrame
<1>6. Types'
  BY <1>1, <1>4 DEF IInv, Types
<1>7. CommandsRight'
  BY <1>1, <1>3 DEF IInv, CommandsRight
<1>8. FramesLie'
  BY <1>1, <1>5 DEF IInv, FramesLie
<1>9. ReaderRight'
  BY <1>2 DEF ReaderRight, InFrame
<1>10. SizeRight'
  BY <1>1, <1>3, SizeIdle DEF Sizing
<1>11. SenderRight'
  BY <1>1, <1>2, TxKept DEF InFrame
<1> QED
  BY <1>4, <1>6, <1>7, <1>8, <1>9, <1>10, <1>11 DEF IInv

-----------------------------------------------------------------------------
(* sendFrame() *)

\* wizchip_send_data() puts each byte where the controller looks for it, and changes nothing
\* of the receive buffer
LEMMA SendData ==
    ASSUME IInv, TX_WR = TX_RD, NEW f \in Outgoing
    PROVE  /\ DOMAIN WriteBuf(TxBufferAddress, TX_WR, f) = DOMAIN mem
           /\ \A i \in 1 .. Len(f) :
                WriteBuf(TxBufferAddress, TX_WR, f)[AddressByChip(TxBufferAddress, TX_RD, i)] = f[i]
           /\ \A a \in 0 .. 2 * BufferLength - 1 :
                a >= BufferLength => WriteBuf(TxBufferAddress, TX_WR, f)[a] = mem[a]
<1>1. PICK n \in Nat : n = Len(f) /\ n <= BufferLength
  BY FrameFacts, WiznetAssumption
<1>2. PICK p \in Nat : p = TX_RD
  BY Sizes DEF IInv, Types
<1>3. ASSUME NEW i \in 1 .. n
      PROVE  /\ AddressOf(TxBufferAddress, TX_WR, n, i) = AddressByChip(TxBufferAddress, TX_RD, i)
             /\ AddressByChip(TxBufferAddress, TX_RD, i) = Slot(p + (i - 1))
             /\ AddressByChip(TxBufferAddress, TX_RD, i) \in 0 .. BufferLength - 1
  <2>1. \A base \in Nat : AddressOf(base, p, n, i) = AddressByChip(base, p, i)
    BY <1>1, DriverAddress
  <2>2. AddressOf(TxBufferAddress, p, n, i) = AddressByChip(TxBufferAddress, p, i)
    BY <2>1 DEF TxBufferAddress
  <2>3. i \in Nat /\ i >= 1
    OBVIOUS
  <2> QED
    BY <1>2, <2>2, <2>3, TxAddress
<1>4. ASSUME NEW i \in 1 .. n, NEW j \in 1 .. n, i <= j,
             AddressByChip(TxBufferAddress, TX_RD, i) = AddressByChip(TxBufferAddress, TX_RD, j)
      PROVE  i = j
  <2>1. PICK a \in Nat, b \in Nat :
          a = p + (i - 1) /\ b = p + (j - 1) /\ a <= b /\ b < a + BufferLength
    BY <1>1, <1>4, Sizes
  <2>2. Slot(a) = Slot(b)
    BY <1>3, <1>4, <2>1
  <2>3. a = b
    BY <2>1, <2>2, SlotInj
  <2> QED
    BY <2>1, <2>3
<1>5. PICK new : new = WriteBuf(TxBufferAddress, TX_WR, f)
  OBVIOUS
<1>6. new = [a \in DOMAIN mem |->
        IF a \in {AddressOf(TxBufferAddress, TX_WR, n, i) : i \in 1 .. n}
        THEN f[CHOOSE i \in 1 .. n : AddressOf(TxBufferAddress, TX_WR, n, i) = a]
        ELSE mem[a]]
  BY <1>1, <1>5 DEF WriteBuf
<1>7. DOMAIN mem = 0 .. 2 * BufferLength - 1
  BY DEF IInv, Types
<1>8. ASSUME NEW k \in 1 .. n
      PROVE  new[AddressByChip(TxBufferAddress, TX_RD, k)] = f[k]
  <2>1. PICK a : a = AddressByChip(TxBufferAddress, TX_RD, k) /\ a \in DOMAIN mem
    BY <1>3, <1>7, Sizes
  <2>2. PICK i \in 1 .. n : i = CHOOSE j \in 1 .. n : AddressOf(TxBufferAddress, TX_WR, n, j) = a
    <3>1. AddressOf(TxBufferAddress, TX_WR, n, k) = a
      BY <1>3, <2>1
    <3> QED
      BY <3>1
  <2>3. AddressOf(TxBufferAddress, TX_WR, n, i) = a
    <3>1. AddressOf(TxBufferAddress, TX_WR, n, k) = a
      BY <1>3, <2>1
    <3> QED
      BY <2>2, <3>1
  <2>4. i = k
    <3>1. AddressByChip(TxBufferAddress, TX_RD, i) = AddressByChip(TxBufferAddress, TX_RD, k)
      BY <1>3, <2>1, <2>3
    <3>2. i <= k \/ k <= i
      OBVIOUS
    <3> QED
      BY <1>4, <3>1, <3>2
  <2>5. a \in {AddressOf(TxBufferAddress, TX_WR, n, j) : j \in 1 .. n}
    BY <2>3
  <2> QED
    BY <1>6, <2>1, <2>2, <2>4, <2>5
<1>9. ASSUME NEW a \in 0 .. 2 * BufferLength - 1, a >= BufferLength
      PROVE  new[a] = mem[a]
  <2>1. \A i \in 1 .. n : AddressOf(TxBufferAddress, TX_WR, n, i) \in 0 .. BufferLength - 1
    BY <1>3
  <2>2. a \notin {AddressOf(TxBufferAddress, TX_WR, n, i) : i \in 1 .. n}
    BY <1>9, <2>1, Sizes
  <2> QED
    BY <1>6, <1>7, <2>2
<1> QED
  BY <1>1, <1>5, <1>6, <1>8, <1>9

\* The frame is written and SEND given (w5100.cpp:299-300)
LEMMA WriteDataKeeps == IInv /\ WriteData => IInv'
<1> SUFFICES ASSUME IInv, WriteData PROVE IInv'
  OBVIOUS
<1>1. /\ UNCHANGED <<RX_WR, RX_RD, freed, pending, TX_RD, queued, sending, IR, half, data>>
      /\ pc = "write" /\ mem' = WriteBuf(TxBufferAddress, TX_WR, sending)
      /\ TX_WR' = Plus(TX_WR, Len(sending))
      /\ pc' = "command" /\ CR' = "SEND" /\ after' = "sent" /\ first' = "high"
  BY DEF WriteData, Command, Forgotten
<1>2. At = "write" /\ At' = "sent" /\ At \notin InFrame /\ At' \notin InFrame
  BY <1>1 DEF At, InFrame
<1>3. /\ CR = "none" /\ freed = RX_RD /\ half = <<>> /\ sending \in Outgoing
      /\ TX_RD = TX_WR /\ queued = TX_WR /\ IR = {}
  BY <1>1, <1>2 DEF IInv, CommandsRight, SizeRight, SenderRight
<1>4. /\ DOMAIN mem' = DOMAIN mem
      /\ \A i \in 1 .. Len(sending) : mem'[AddressByChip(TxBufferAddress, TX_RD, i)] = sending[i]
      /\ \A a \in 0 .. 2 * BufferLength - 1 : a >= BufferLength => mem'[a] = mem[a]
  BY <1>1, <1>3, SendData
<1>5. TX_WR' \in 0 .. PtrMod - 1
  <2>1. TX_WR \in Nat /\ TX_WR < PtrMod
    BY Sizes DEF IInv, Types
  <2>2. Len(sending) \in Nat /\ Len(sending) <= PtrMod
    BY <1>3, FrameFacts, WiznetAssumption, Sizes
  <2> QED
    BY <1>1, <2>1, <2>2, PlusFacts
<1>6. Types'
  BY <1>1, <1>4, <1>5 DEF IInv, Types
<1>7. CommandsRight'
  BY <1>1, <1>2, <1>3 DEF CommandsRight
<1>8. FramesLie' /\ ReaderRight'
  BY <1>1, <1>2, <1>4, RxKept
<1>9. SizeRight'
  BY <1>1, <1>3, SizeIdle DEF Sizing
<1>10. SenderRight'
  <2>1. \A i : AddressByChip(TxBufferAddress, TX_RD', i) = AddressByChip(TxBufferAddress, TX_RD, i)
    BY <1>1
  <2> QED
    BY <1>1, <1>2, <1>3, <1>4, <2>1 DEF SenderRight
<1> QED
  BY <1>6, <1>7, <1>8, <1>9, <1>10 DEF IInv

\* SENDOK or TIMEOUT is seen and reset (w5100.cpp:302-319)
LEMMA SendReturnKeeps == IInv /\ sendFrameReturns => IInv'
<1> SUFFICES ASSUME IInv, sendFrameReturns PROVE IInv'
  OBVIOUS
<1>1. /\ UNCHANGED <<buffers, data, sending, CR, after, half, first>>
      /\ pc = "sent" /\ pc' = "idle" /\ FinalFlags(IR) # {} /\ IR' = IR \ FinalFlags(IR)
  BY DEF sendFrameReturns, buffers, ring, transmitter, locals, size
<1>2. At = "sent" /\ At' = "idle" /\ At \notin InFrame /\ At' \notin InFrame
  BY <1>1 DEF At, InFrame
<1>3. CR = "none" /\ freed = RX_RD /\ half = <<>> /\ queued = TX_WR
  BY <1>1, <1>2 DEF IInv, CommandsRight, SizeRight, SenderRight
<1>4. IR = {"SENDOK"} \/ IR = {"TIMEOUT"}
  BY <1>1 DEF IInv, SenderRight, FinalFlags
<1>5. TX_RD = TX_WR /\ IR' = {}
  BY <1>1, <1>4 DEF IInv, SenderRight, FinalFlags
<1>6. FramesLie' /\ ReaderRight'
  BY <1>1, <1>2, BuffersKept
<1>7. Types'
  BY <1>1 DEF IInv, Types, buffers
<1>8. CommandsRight'
  BY <1>1, <1>3 DEF CommandsRight, buffers
<1>9. SizeRight'
  BY <1>1, <1>3, SizeIdle DEF Sizing
<1>10. SenderRight'
  BY <1>1, <1>2, <1>3, <1>5 DEF SenderRight, buffers
<1> QED
  BY <1>6, <1>7, <1>8, <1>9, <1>10 DEF IInv

-----------------------------------------------------------------------------
(* The controller receives, and frees *)

\* Where the frames are, and the frame that readFrame() is in
LEMMA Extent ==
    ASSUME IInv
    PROVE  /\ From(RX_WR) \in Nat /\ From(RX_WR) < 2 * PtrMod /\ RX_WR = Wrap(From(RX_WR))
           /\ From(RX_RD) <= unread /\ unread <= From(RX_WR) /\ unread \in Nat
           /\ At \in {"data", "ignore"} => unread = From(RX_RD) + Len(Head(pending))
<1>1. PICK pos : Laid(mem, held, pos) /\ pos[1] = unread /\ pos[Len(held) + 1] = From(RX_WR)
  BY DEF IInv, FramesLie
<1>2. unread \in Nat /\ unread <= From(RX_WR)
  BY <1>1, PositionFacts
<1>3. RX_WR \in Nat /\ RX_WR < PtrMod
  BY Sizes DEF IInv, Types
<1>4. From(RX_WR) \in Nat /\ From(RX_WR) < 2 * PtrMod /\ RX_WR = Wrap(From(RX_WR))
  BY <1>3, Sizes DEF From, Wrap
<1>5. /\ From(RX_RD) <= unread
      /\ At \in {"data", "ignore"} => unread = From(RX_RD) + Len(Head(pending))
  <2>1. CASE At \in {"data", "ignore"}
    <3>1. Head(pending) \in Incoming /\ From(RX_RD) \in Nat
      BY <2>1, HeldFacts DEF InFrame
    <3>2. Len(Head(pending)) \in Nat
      BY <3>1, FrameFacts
    <3> QED
      BY <2>1, <3>1, <3>2 DEF unread
  <2>2. CASE At \notin {"data", "ignore"}
    BY <2>2, HeldFacts DEF unread
  <2> QED
    BY <2>1, <2>2
<1> QED
  BY <1>2, <1>4, <1>5

\* A frame comes behind those received, where there is room
LEMMA NewBytes ==
    ASSUME IInv, NEW f \in Incoming, ChipReceives(f)
    PROVE  /\ DOMAIN mem' = DOMAIN mem
           /\ \A a \in 0 .. 2 * BufferLength - 1 : a < BufferLength => mem'[a] = mem[a]
           /\ \A p \in Nat : freed <= p /\ p < From(RX_WR) => mem'[RxSlot(p)] = mem[RxSlot(p)]
           /\ Holds(mem', From(RX_WR), f)
           /\ From(RX_WR) + Len(f) + 2 <= freed + BufferLength
<1>1. PICK l \in Nat, n \in Nat : l = Len(f) /\ n = l + 2
  BY FrameFacts
<1>2. PICK o \in Nat, w \in Nat : /\ o = freed /\ w = From(RX_WR) /\ w < 2 * PtrMod
                                  /\ RX_WR = Wrap(w) /\ o <= w
  BY Extent, RSRFacts
<1>3. w + n <= o + BufferLength
  <2>1. PICK s \in Nat : s = RX_RSR /\ s = w - o
    BY <1>2, RSRFacts
  <2>2. s + n <= BufferLength
    BY <1>1, <2>1 DEF ChipReceives
  <2>3. o <= w
    BY <1>2
  <2> QED
    BY <2>1, <2>2, <2>3, Sizes
<1>4. ASSUME NEW i \in 1 .. n
      PROVE  AddressByChip(RxBufferAddress, RX_WR, i) = RxSlot(w + (i - 1))
  <2>1. \A base \in Nat : AddressByChip(base, Wrap(w), i) = base + Slot(w + (i - 1))
    BY <1>2, ChipAddress
  <2>2. RxBufferAddress \in Nat
    BY Sizes DEF RxBufferAddress
  <2> QED
    BY <1>2, <2>1, <2>2 DEF RxSlot
<1>5. PICK bytes : bytes = <<High(n), Low(n)>> \o f
  OBVIOUS
<1>6. DOMAIN mem = 0 .. 2 * BufferLength - 1
  BY DEF IInv, Types
<1>7. mem' = [a \in DOMAIN mem |->
        IF {i \in 1 .. n : AddressByChip(RxBufferAddress, RX_WR, i) = a} = {} THEN mem[a]
        ELSE bytes[CHOOSE i \in {j \in 1 .. n : AddressByChip(RxBufferAddress, RX_WR, j) = a} :
                     TRUE]]
  BY <1>1, <1>5 DEF ChipReceives
<1>8. DOMAIN mem' = DOMAIN mem
  BY <1>7
<1>9. ASSUME NEW a \in 0 .. 2 * BufferLength - 1, a < BufferLength
      PROVE  mem'[a] = mem[a]
  <2>1. ASSUME NEW i \in 1 .. n
        PROVE  AddressByChip(RxBufferAddress, RX_WR, i) # a
    <3>1. PICK p \in Nat : p = w + (i - 1)
      OBVIOUS
    <3>2. RxSlot(p) >= BufferLength /\ RxSlot(p) \in 0 .. 2 * BufferLength - 1
      BY SlotFacts
    <3> QED
      BY <1>4, <1>9, <3>1, <3>2, Sizes
  <2>2. {i \in 1 .. n : AddressByChip(RxBufferAddress, RX_WR, i) = a} = {}
    BY <2>1
  <2> QED
    BY <1>6, <1>7, <2>2
<1>10. ASSUME NEW p \in Nat, o <= p, p < w
       PROVE  mem'[RxSlot(p)] = mem[RxSlot(p)]
  <2>1. ASSUME NEW i \in 1 .. n
        PROVE  AddressByChip(RxBufferAddress, RX_WR, i) # RxSlot(p)
    <3>1. PICK q \in Nat : q = w + (i - 1) /\ o <= q /\ q < o + BufferLength /\ p < q
      BY <1>2, <1>3, <1>10, Sizes
    <3>2. RxSlot(p) = RxSlot(q) => p = q
      BY <1>2, <1>3, <1>10, <3>1, RxSlotInj, Sizes
    <3> QED
      BY <1>4, <3>1, <3>2
  <2>2. {i \in 1 .. n : AddressByChip(RxBufferAddress, RX_WR, i) = RxSlot(p)} = {}
    BY <2>1
  <2>3. RxSlot(p) \in DOMAIN mem
    BY <1>6, SlotFacts
  <2> QED
    BY <1>7, <2>2, <2>3
<1>11. ASSUME NEW k \in 1 .. n, NEW p \in Nat, p = w + (k - 1)
       PROVE  mem'[RxSlot(p)] = bytes[k]
  <2>1. ASSUME NEW i \in 1 .. n, AddressByChip(RxBufferAddress, RX_WR, i) = RxSlot(p)
        PROVE  i = k
    <3>1. PICK q \in Nat : q = w + (i - 1) /\ o <= q /\ q < o + BufferLength
      BY <1>2, <1>3, Sizes
    <3>2. o <= p /\ p < o + BufferLength
      <4>1. o <= w /\ k >= 1 /\ k <= n
        BY <1>2
      <4> QED
        BY <1>3, <1>11, <4>1, Sizes
    <3>3. RxSlot(p) = RxSlot(q)
      BY <1>4, <2>1, <3>1
    <3>4. p = q
      BY <1>2, <3>1, <3>2, <3>3, RxSlotInj
    <3> QED
      BY <1>11, <3>1, <3>4
  <2>2. AddressByChip(RxBufferAddress, RX_WR, k) = RxSlot(p)
    BY <1>4, <1>11
  <2>3. {i \in 1 .. n : AddressByChip(RxBufferAddress, RX_WR, i) = RxSlot(p)} = {k}
    BY <2>1, <2>2
  <2>4. (CHOOSE i \in {k} : TRUE) = k
    OBVIOUS
  <2>5. RxSlot(p) \in DOMAIN mem
    BY <1>6, SlotFacts
  <2>6. mem'[RxSlot(p)] = bytes[CHOOSE i \in {k} : TRUE]
    BY <1>7, <2>3, <2>5
  <2> QED
    BY <2>4, <2>6
<1>12. Holds(mem', w, f)
  <2>1. f \in Seq(0 .. ByteMod - 1)
    BY WiznetAssumption
  <2>2. bytes[1] = High(n) /\ bytes[2] = Low(n) /\ \A k \in 1 .. l : bytes[k + 2] = f[k]
    BY <1>1, <1>5, <2>1
  <2>3. mem'[RxSlot(w)] = bytes[1]
    <3>1. 1 \in 1 .. n /\ w = w + (1 - 1)
      BY <1>1
    <3> QED
      BY <1>11, <3>1
  <2>4. mem'[RxSlot(w + 1)] = bytes[2]
    <3>1. 2 \in 1 .. n /\ w + 1 \in Nat /\ w + 1 = w + (2 - 1)
      BY <1>1
    <3> QED
      BY <1>11, <3>1
  <2>5. ASSUME NEW k \in 1 .. l PROVE mem'[RxSlot(w + 1 + k)] = f[k]
    <3>1. k + 2 \in 1 .. n /\ w + 1 + k \in Nat /\ w + 1 + k = w + ((k + 2) - 1)
      BY <1>1
    <3>2. mem'[RxSlot(w + 1 + k)] = bytes[k + 2]
      BY <1>11, <3>1
    <3> QED
      BY <2>2, <3>2
  <2> QED
    BY <1>1, <2>2, <2>3, <2>4, <2>5 DEF Holds
<1>13. w + l + 2 <= o + BufferLength
  BY <1>1, <1>3
<1> QED
  BY <1>1, <1>2, <1>8, <1>9, <1>10, <1>12, <1>13

\* A frame from the wire lies behind the others, and the size grows by what it takes
LEMMA ReceiveKeeps ==
    ASSUME IInv, NEW f \in Incoming, ChipReceives(f)
    PROVE  IInv'
<1>1. /\ UNCHANGED <<RX_RD, freed, TX_WR, TX_RD, queued, sending, CR, IR, pc, after, first, val,
                     val1, half, data>>
      /\ RX_WR' = Plus(RX_WR, Len(f) + 2) /\ pending' = Append(pending, f)
      /\ seen' = IF pc \in {"rsr1", "rsr2"} THEN seen \cup {RX_RSR + (Len(f) + 2)} ELSE seen
  BY DEF ChipReceives, transmitter, socket
<1>2. At' = At
  BY <1>1 DEF At
<1>3. PICK m : m = mem'
  OBVIOUS
<1>4. PICK o \in Nat, w \in Nat : /\ o = freed /\ w = From(RX_WR) /\ w < 2 * PtrMod
                                  /\ RX_WR = Wrap(w) /\ o <= w /\ o < PtrMod
  BY Extent, RSRFacts
<1>5. PICK l \in Nat : l = Len(f)
  BY FrameFacts
<1>6. /\ DOMAIN mem' = DOMAIN mem
      /\ \A a \in 0 .. 2 * BufferLength - 1 : a < BufferLength => mem'[a] = mem[a]
      /\ \A p \in Nat : o <= p /\ p < w => m[RxSlot(p)] = mem[RxSlot(p)]
      /\ Holds(m, w, f) /\ w + l + 2 <= o + BufferLength
  BY <1>3, <1>4, <1>5, NewBytes
<1>7. PICK p \in Nat : p = w + l + 2 /\ o <= p /\ p <= o + BufferLength
  BY <1>4, <1>6
<1>8. RX_WR' = Wrap(p) /\ From(Wrap(p)) = p /\ RX_WR' \in 0 .. PtrMod - 1
  <2>1. From(Wrap(p)) = p /\ Wrap(p) \in 0 .. PtrMod - 1
    BY <1>4, <1>7, FromWrap
  <2>2. PICK x \in Nat, n \in Nat : /\ x = RX_WR /\ n = l + 2 /\ x < PtrMod /\ n <= PtrMod
                                    /\ Plus(x, n) = Wrap(x + n)
    <3>1. l + 2 <= PtrMod
      BY <1>4, <1>6, Sizes
    <3>2. RX_WR \in Nat /\ RX_WR < PtrMod
      BY Sizes DEF IInv, Types
    <3> QED
      BY <3>1, <3>2, PlusFacts
  <2>3. Wrap(x + n) = Wrap(p)
    <3>1. x = IF w < PtrMod THEN w ELSE w - PtrMod
      BY <1>4, <2>2 DEF Wrap
    <3>2. CASE w < PtrMod
      BY <1>7, <2>2, <3>1, <3>2
    <3>3. CASE ~(w < PtrMod)
      <4>1. x + PtrMod = w /\ n = l + 2 /\ o < PtrMod
        BY <1>4, <2>2, <3>1, <3>3, Sizes
      <4>2. x + n + PtrMod = p /\ p < 2 * PtrMod
        BY <1>7, <4>1, Sizes
      <4> QED
        BY <4>2, Sizes DEF Wrap
    <3> QED
      BY <3>2, <3>3
  <2> QED
    BY <1>1, <1>5, <2>1, <2>2, <2>3
<1>9. From(RX_WR)' = p /\ From(RX_RD)' = From(RX_RD)
  BY <1>1, <1>8 DEF From
<1>10. pending \in Seq(Incoming) /\ (At \in InFrame => pending # <<>>) /\ held \in Seq(Incoming)
  BY HeldFacts
<1>11. Types'
  BY <1>1, <1>6, <1>8, <1>10 DEF IInv, Types
<1>12. CommandsRight'
  BY <1>1, <1>2 DEF IInv, CommandsRight
<1>13. pending # <<>> => Head(pending') = Head(pending) /\ Tail(pending') = Append(Tail(pending), f)
  BY <1>1, <1>10
<1>14. FramesLie'
  <2>1. PICK pos : Laid(mem, held, pos) /\ pos[1] = unread /\ pos[Len(held) + 1] = From(RX_WR)
    BY DEF IInv, FramesLie
  <2>2. PICK frames \in Seq(Incoming), u \in Nat : frames = held /\ u = unread /\ o <= u
    BY <1>4, <1>10, Extent, HeldFacts
  <2>3. \A q \in Nat : pos[1] <= q /\ q < pos[Len(frames) + 1] => m[RxSlot(q)] = mem[RxSlot(q)]
    <3>1. ASSUME NEW q \in Nat, u <= q, q < w PROVE m[RxSlot(q)] = mem[RxSlot(q)]
      <4>1. o <= q
        BY <2>2, <3>1
      <4> QED
        BY <1>6, <3>1, <4>1
    <3> QED
      BY <1>4, <2>1, <2>2, <3>1
  <2>4. Laid(m, frames, pos)
    BY <2>1, <2>2, <2>3, LaidKept
  <2>5. PICK new : /\ Laid(m, Append(frames, f), new) /\ new[1] = pos[1]
                   /\ new[Len(Append(frames, f)) + 1] = pos[Len(frames) + 1] + Len(f) + 2
    <3>1. Holds(m, pos[Len(frames) + 1], f)
      BY <1>4, <1>6, <2>1, <2>2
    <3> QED
      BY <2>4, <3>1, LaidOneMore
  <2>6. held' = Append(frames, f)
    BY <1>1, <1>2, <1>10, <1>13, <2>2 DEF held
  <2>7. unread' = u
    BY <1>2, <1>9, <1>10, <1>13, <2>2 DEF unread, InFrame
  <2>8. Laid(mem', held', new) /\ new[1] = unread' /\ new[Len(held') + 1] = From(RX_WR)'
    BY <1>3, <1>4, <1>5, <1>7, <1>9, <2>1, <2>2, <2>5, <2>6, <2>7
  <2>9. From(RX_WR)' <= freed' + BufferLength
    BY <1>1, <1>4, <1>7, <1>9
  <2> QED
    BY <2>8, <2>9 DEF FramesLie
<1>15. ReaderRight'
  <2>1. At \in {"data", "ignore"} =>
          \A k \in 1 .. Len(Head(pending)) :
            mem'[RxSlot(From(RX_RD) + k - 1)] = mem[RxSlot(From(RX_RD) + k - 1)]
    <3>1. ASSUME At \in {"data", "ignore"}, NEW k \in 1 .. Len(Head(pending))
          PROVE  mem'[RxSlot(From(RX_RD) + k - 1)] = mem[RxSlot(From(RX_RD) + k - 1)]
      <4>1. PICK h \in Incoming : h = Head(pending)
        BY <3>1, HeldFacts DEF InFrame
      <4>2. PICK n \in Nat : n = Len(h)
        BY FrameFacts
      <4>3. PICK r \in Nat : r = From(RX_RD) /\ o <= r /\ r + n <= w
        BY <1>4, <3>1, <4>1, <4>2, HeldFacts, Extent
      <4>4. PICK q \in Nat : q = r + k - 1 /\ o <= q /\ q < w
        BY <3>1, <4>1, <4>2, <4>3
      <4> QED
        BY <1>3, <1>6, <4>3, <4>4
    <3> QED
      BY <3>1
  <2>2. At \in {"data", "ignore"} => At \in InFrame
    BY DEF InFrame
  <2>3. pending' # <<>>
    BY <1>1, <1>10
  <2> QED
    BY <1>1, <1>2, <1>9, <1>10, <1>13, <2>1, <2>2, <2>3 DEF IInv, ReaderRight, DataLen, InFrame
<1>16. RX_RSR' = RX_RSR + (Len(f) + 2) /\ RX_RSR \in Nat /\ RX_RSR' \in Nat /\ RX_RSR <= RX_RSR'
  <2>1. RX_RSR = w - o /\ RX_RSR \in Nat
    BY <1>4, RSRFacts
  <2>2. PICK x \in Nat : x = RX_WR' /\ x < PtrMod
    BY <1>8, Sizes
  <2>3. Plus(x, PtrMod - o) = IF o <= x THEN x - o ELSE x + PtrMod - o
    BY <1>4, <2>2, Distance
  <2>4. p = IF o <= x THEN x ELSE x + PtrMod
    BY <1>4, <1>8, <2>2 DEF From
  <2>5. RX_RSR' = Plus(x, PtrMod - o)
    BY <1>1, <1>4, <2>2 DEF RX_RSR
  <2>6. RX_RSR' = p - o
    BY <2>2, <2>3, <2>4, <2>5, Sizes
  <2>7. PICK s \in Nat, t \in Nat : s = RX_RSR /\ s = w - o /\ t = RX_RSR' /\ t = p - o
    BY <1>7, <2>1, <2>6
  <2>8. t = s + (l + 2) /\ s <= t
    <3>1. o <= w
      BY <1>4
    <3> QED
      BY <1>7, <2>7, <3>1
  <2> QED
    BY <1>5, <2>7, <2>8
<1>17. SizeRight'
  <2>1. pc \in {"rsr1", "rsr2", "head"} => \A s \in seen : s \in Nat /\ s <= RX_RSR
    BY DEF IInv, SizeRight
  <2>2. pc \in {"rsr1", "rsr2", "head"} => \A s \in seen' : s \in Nat /\ s <= RX_RSR'
    BY <1>1, <1>16, <2>1
  <2>3. pc \in {"rsr1", "rsr2"} => RX_RSR' \in seen'
    BY <1>1, <1>16
  <2>4. \A s \in seen : s \in seen'
    BY <1>1
  <2>5. UNCHANGED TX_FSR
    BY <1>1 DEF TX_FSR
  <2>6. pc = "rsr1" => half = <<>> \/ \E s \in seen' : half = <<HalfOf(s)>>
    BY <2>4 DEF IInv, SizeRight
  <2>7. pc = "rsr2" =>
           \E s, t \in seen' :
              /\ s <= t /\ val1 = Torn(s, t)
              /\ half = <<>> \/ \E u \in seen' : t <= u /\ half = <<HalfOf(u)>>
    BY <2>4 DEF IInv, SizeRight
  <2>8. pc = "rsr2" => val1 # 0
    BY DEF IInv, SizeRight
  <2>9. /\ pc = "head" => val \in seen' /\ val # 0
        /\ pc \in {"fsr1", "fsr2"} =>
             TX_FSR \in seen' /\ (half = <<>> \/ half = <<HalfOf(TX_FSR)>>)
        /\ pc = "write" => val \in seen'
        /\ pc \notin {"rsr1", "rsr2", "fsr1", "fsr2"} => half = <<>>
    BY <2>4 DEF IInv, SizeRight
  <2> QED
    BY <1>1, <2>2, <2>3, <2>5, <2>6, <2>7, <2>8, <2>9 DEF SizeRight, HalfOf, Torn
<1>18. SenderRight'
  <2>1. \A a \in 0 .. BufferLength - 1 : mem'[a] = mem[a]
    BY <1>6, Sizes
  <2> QED
    BY <1>1, <1>2, <2>1, TxKept DEF IInv, SenderRight
<1> QED
  BY <1>11, <1>12, <1>14, <1>15, <1>17, <1>18 DEF IInv

\* What readFrame() has read is wiped, and nothing else
LEMMA FreedBytes ==
    ASSUME IInv, ChipFrees
    PROVE  /\ DOMAIN mem' = DOMAIN mem
           /\ \A a \in 0 .. 2 * BufferLength - 1 : a < BufferLength => mem'[a] = mem[a]
           /\ \A p \in Nat : From(RX_RD) <= p /\ p < freed + BufferLength =>
                                mem'[RxSlot(p)] = mem[RxSlot(p)]
<1>1. PICK o \in Nat, r \in Nat : /\ o = freed /\ r = From(RX_RD) /\ o <= r /\ o < PtrMod
  BY HeldFacts
<1>2. PICK n \in Nat : n = Plus(RX_RD, PtrMod - freed) /\ n = r - o
  <2>1. PICK x \in Nat : x = RX_RD /\ x < PtrMod
    BY Sizes DEF IInv, Types
  <2>2. Plus(x, PtrMod - o) = IF o <= x THEN x - o ELSE x + PtrMod - o
    BY <1>1, <2>1, Distance
  <2>3. r = IF o <= x THEN x ELSE x + PtrMod
    BY <1>1, <2>1 DEF From
  <2>4. o <= r
    BY <1>1
  <2> QED
    BY <1>1, <2>1, <2>2, <2>3, <2>4, Sizes
<1>3. r <= o + BufferLength
  <2>1. r <= From(RX_WR) /\ From(RX_WR) \in Nat
    BY <1>1, Extent
  <2>2. From(RX_WR) <= o + BufferLength
    BY <1>1 DEF IInv, FramesLie
  <2> QED
    BY <2>1, <2>2, Sizes
<1>4. ASSUME NEW i \in 1 .. n
      PROVE  AddressByChip(RxBufferAddress, freed, i) = RxSlot(o + (i - 1))
  <2>1. Wrap(o) = o /\ o < 2 * PtrMod
    BY <1>1, Sizes DEF Wrap
  <2>2. \A base \in Nat : AddressByChip(base, Wrap(o), i) = base + Slot(o + (i - 1))
    BY <2>1, ChipAddress
  <2>3. RxBufferAddress \in Nat
    BY Sizes DEF RxBufferAddress
  <2> QED
    BY <1>1, <2>1, <2>2, <2>3 DEF RxSlot
<1>5. DOMAIN mem = 0 .. 2 * BufferLength - 1
  BY DEF IInv, Types
<1>6. mem' = [a \in DOMAIN mem |->
                IF a \in {AddressByChip(RxBufferAddress, freed, i) : i \in 1 .. n}
                THEN 0 ELSE mem[a]]
  BY <1>2 DEF ChipFrees, Wipe
<1>7. ASSUME NEW a \in 0 .. 2 * BufferLength - 1, a < BufferLength
      PROVE  mem'[a] = mem[a]
  <2>1. ASSUME NEW i \in 1 .. n
        PROVE  AddressByChip(RxBufferAddress, freed, i) # a
    <3>1. PICK p \in Nat : p = o + (i - 1)
      OBVIOUS
    <3>2. RxSlot(p) >= BufferLength /\ RxSlot(p) \in 0 .. 2 * BufferLength - 1
      BY SlotFacts
    <3> QED
      BY <1>4, <1>7, <3>1, <3>2, Sizes
  <2> QED
    BY <1>5, <1>6, <2>1
<1>8. ASSUME NEW p \in Nat, r <= p, p < o + BufferLength
      PROVE  mem'[RxSlot(p)] = mem[RxSlot(p)]
  <2>1. o <= r
    BY <1>1
  <2>2. ASSUME NEW i \in 1 .. n
        PROVE  AddressByChip(RxBufferAddress, freed, i) # RxSlot(p)
    <3>1. n = r - o
      BY <1>2
    <3>2. PICK q \in Nat : q = o + (i - 1) /\ o <= q /\ q < p /\ q < o + BufferLength /\ o <= p
      BY <1>8, <2>1, <3>1, Sizes
    <3>3. RxSlot(p) = RxSlot(q) => p = q
      BY <1>8, <3>2, RxSlotInj
    <3> QED
      BY <1>4, <3>2, <3>3
  <2>3. RxSlot(p) \in DOMAIN mem
    BY <1>5, SlotFacts
  <2> QED
    BY <1>6, <2>2, <2>3
<1> QED
  BY <1>1, <1>6, <1>7, <1>8

\* Positions counted from RX_RD on are those from freed on, one turn less when RX_RD has wrapped
LEMMA Recount ==
    ASSUME IInv, freed' = RX_RD, UNCHANGED <<RX_WR, RX_RD>>
    PROVE  \E d \in {0, PtrMod} : /\ From(RX_RD) = From(RX_RD)' + d
                                  /\ From(RX_WR) = From(RX_WR)' + d
                                  /\ From(RX_RD)' \in Nat /\ From(RX_WR)' \in Nat
                                  /\ freed' = From(RX_RD)'
<1>1. PICK o \in Nat, x \in Nat, y \in Nat :
        o = freed /\ x = RX_RD /\ y = RX_WR /\ x < PtrMod /\ y < PtrMod /\ o < PtrMod
  BY Sizes DEF IInv, Types
<1>2. PICK r \in Nat, w \in Nat :
        /\ r = From(RX_RD) /\ w = From(RX_WR) /\ r <= w /\ w <= o + BufferLength
        /\ r = (IF o <= x THEN x ELSE x + PtrMod) /\ w = (IF o <= y THEN y ELSE y + PtrMod)
  <2>1. From(RX_RD) <= From(RX_WR) /\ From(RX_WR) \in Nat /\ From(RX_RD) \in Nat
    <3>1. /\ From(RX_RD) <= unread /\ unread <= From(RX_WR) /\ From(RX_RD) \in Nat
          /\ unread \in Nat /\ From(RX_WR) \in Nat
      BY HeldFacts, Extent
    <3> QED
      BY <3>1
  <2>2. From(RX_WR) <= o + BufferLength
    BY <1>1 DEF IInv, FramesLie
  <2> QED
    BY <1>1, <2>1, <2>2 DEF From
<1>3. From(RX_RD)' = x /\ From(RX_WR)' = IF x <= y THEN y ELSE y + PtrMod
  BY <1>1 DEF From
<1>4. x < PtrMod /\ y < PtrMod /\ o < PtrMod
  BY <1>1
<1>5. r <= w /\ w <= o + BufferLength
  BY <1>2
<1>6. CASE o <= x
  <2>1. r = x + 0 /\ x <= r
    BY <1>2, <1>6
  <2>2. w = (IF x <= y THEN y ELSE y + PtrMod) + 0
    BY <1>2, <1>4, <1>5, <1>6, <2>1, Sizes
  <2> QED
    BY <1>1, <1>2, <1>3, <2>1, <2>2, Sizes
<1>7. CASE ~(o <= x)
  <2>1. r = x + PtrMod
    BY <1>2, <1>7
  <2>2. w = (IF x <= y THEN y ELSE y + PtrMod) + PtrMod
    <3>1. CASE o <= y
      BY <1>2, <1>4, <1>5, <2>1, <3>1, Sizes
    <3>2. CASE ~(o <= y)
      <4>1. w = y + PtrMod /\ x <= y
        BY <1>2, <1>5, <2>1, <3>2, Sizes
      <4> QED
        BY <4>1
    <3> QED
      BY <3>1, <3>2
  <2> QED
    BY <1>1, <1>2, <1>3, <2>1, <2>2, Sizes
<1> QED
  BY <1>6, <1>7

\* RECV: what is kept is counted from RX_RD on
LEMMA FreeKeeps == IInv /\ ChipFrees => IInv'
<1> SUFFICES ASSUME IInv, ChipFrees PROVE IInv'
  OBVIOUS
<1>1. /\ UNCHANGED <<RX_WR, RX_RD, pending, TX_WR, TX_RD, queued, sending, IR, pc, after, half,
                     data, first>>
      /\ CR = "RECV" /\ CR' = "none" /\ freed' = RX_RD
  BY DEF ChipFrees, transmitter, locals, size
<1>2. At' = At /\ At \in InFrame /\ pc = "command" /\ half = <<>>
  BY <1>1 DEF IInv, CommandsRight, SizeRight, At
<1>3. PICK m : m = mem'
  OBVIOUS
<1>4. PICK o \in Nat, w \in Nat, r \in Nat :
        /\ o = freed /\ w = From(RX_WR) /\ r = From(RX_RD)
        /\ o <= r /\ r <= w /\ w <= o + BufferLength
  <2>1. /\ From(RX_RD) <= unread /\ unread <= From(RX_WR) /\ From(RX_RD) \in Nat /\ unread \in Nat
        /\ From(RX_WR) \in Nat /\ freed \in Nat /\ freed <= From(RX_RD)
    BY HeldFacts, Extent
  <2>2. From(RX_WR) <= freed + BufferLength
    BY DEF IInv, FramesLie
  <2> QED
    BY <2>1, <2>2
<1>5. /\ DOMAIN mem' = DOMAIN mem
      /\ \A a \in 0 .. 2 * BufferLength - 1 : a < BufferLength => mem'[a] = mem[a]
      /\ \A p \in Nat : r <= p /\ p < o + BufferLength => m[RxSlot(p)] = mem[RxSlot(p)]
  BY <1>3, <1>4, FreedBytes
<1>6. PICK f \in Incoming, l \in Nat : f = Head(pending) /\ l = Len(f)
  BY <1>2, HeldFacts, FrameFacts
<1>7. PICK u \in Nat : /\ u = unread /\ r <= u /\ u <= w
                       /\ At \in {"data", "ignore"} => u = r + l
                       /\ At \notin {"data", "ignore"} => u = r
  BY <1>4, <1>6, Extent DEF unread
<1>8. PICK d \in {0, PtrMod}, s \in Nat, v \in Nat :
        /\ s = From(RX_RD)' /\ v = From(RX_WR)' /\ r = s + d /\ w = v + d /\ freed' = s
  BY <1>1, <1>4, Recount
<1>9. d \in Nat /\ d \in {0, PtrMod}
  BY Sizes
<1>10. PICK t \in Nat : t = unread' /\ u = t + d
  <2>1. unread' = IF At \in {"data", "ignore"} THEN s + l ELSE s
    BY <1>1, <1>2, <1>6, <1>8 DEF unread
  <2>2. r = s + d
    BY <1>8
  <2> QED
    BY <1>7, <1>9, <2>1, <2>2
<1>11. Types'
  BY <1>1, <1>5 DEF IInv, Types
<1>12. CommandsRight'
  BY <1>1, <1>2 DEF CommandsRight
<1>13. FramesLie'
  <2>1. PICK pos : Laid(mem, held, pos) /\ pos[1] = unread /\ pos[Len(held) + 1] = From(RX_WR)
    BY DEF IInv, FramesLie
  <2>2. PICK frames \in Seq(Incoming) : frames = held /\ frames = held'
    BY <1>1, <1>2, HeldFacts DEF held
  <2>3. \A q \in Nat : pos[1] <= q /\ q < pos[Len(frames) + 1] => m[RxSlot(q)] = mem[RxSlot(q)]
    <3>1. ASSUME NEW q \in Nat, u <= q, q < w PROVE m[RxSlot(q)] = mem[RxSlot(q)]
      <4>1. r <= u /\ w <= o + BufferLength
        BY <1>4, <1>7
      <4>2. r <= q /\ q < o + BufferLength
        BY <3>1, <4>1, Sizes
      <4> QED
        BY <1>5, <4>2
    <3> QED
      BY <1>4, <1>7, <2>1, <2>2, <3>1
  <2>4. Laid(m, frames, pos)
    BY <2>1, <2>2, <2>3, LaidKept
  <2>5. \E new : Laid(m, frames, new) /\ new[1] = t /\ new[Len(frames) + 1] = v
    <3>1. CASE d = 0
      BY <1>4, <1>7, <1>8, <1>10, <2>1, <2>2, <2>4, <3>1
    <3>2. CASE d = PtrMod
      <4>1. pos[1] = u /\ u >= PtrMod /\ t = u - PtrMod /\ v = w - PtrMod
        <5>1. u = t + d /\ w = v + d
          BY <1>8, <1>10
        <5>2. pos[1] = u
          BY <1>7, <2>1
        <5> QED
          BY <3>2, <5>1, <5>2, Sizes
      <4>2. \E new : /\ Laid(m, frames, new) /\ new[1] = pos[1] - PtrMod
                     /\ new[Len(frames) + 1] = pos[Len(frames) + 1] - PtrMod
        BY <2>4, <4>1, LaidShift
      <4> QED
        BY <1>4, <2>1, <2>2, <4>1, <4>2
    <3> QED
      BY <1>9, <3>1, <3>2
  <2>6. v <= s + BufferLength
    <3>1. o <= r /\ w <= o + BufferLength /\ r = s + d /\ w = v + d
      BY <1>4, <1>8
    <3> QED
      BY <1>9, <3>1, Sizes
  <2> QED
    BY <1>3, <1>8, <1>10, <2>2, <2>5, <2>6 DEF FramesLie
<1>14. ReaderRight'
  <2>1. At \in {"data", "ignore"} => \A k \in 1 .. l : mem'[RxSlot(s + k - 1)] = f[k]
    <3>1. ASSUME At \in {"data", "ignore"}, NEW k \in 1 .. l
          PROVE  mem'[RxSlot(s + k - 1)] = f[k]
      <4>1. u = r + l /\ u <= w /\ w <= o + BufferLength /\ r = s + d
        BY <1>4, <1>7, <1>8, <3>1
      <4>2. PICK p \in Nat, q \in Nat :
              p = s + k - 1 /\ q = r + k - 1 /\ q = p + d /\ r <= q /\ q < o + BufferLength
        BY <1>9, <4>1, Sizes
      <4>3. m[RxSlot(q)] = mem[RxSlot(q)]
        BY <1>5, <4>2
      <4>4. mem[RxSlot(q)] = f[k]
        BY <1>4, <1>6, <3>1, <4>2 DEF IInv, ReaderRight
      <4>5. RxSlot(p) = RxSlot(q)
        <5>1. CASE d = 0
          BY <4>2, <5>1
        <5>2. CASE d = PtrMod
          BY <4>2, <5>2, SlotFacts DEF RxSlot
        <5> QED
          BY <1>9, <5>1, <5>2
      <4> QED
        BY <1>3, <4>2, <4>3, <4>4, <4>5
    <3> QED
      BY <3>1
  <2> QED
    BY <1>1, <1>2, <1>6, <1>8, <2>1 DEF IInv, ReaderRight, DataLen
<1>15. SizeRight'
  BY <1>1, <1>2, SizeIdle DEF Sizing
<1>16. SenderRight'
  <2>1. \A a \in 0 .. BufferLength - 1 : mem'[a] = mem[a]
    BY <1>5, Sizes
  <2> QED
    BY <1>1, <1>2, <2>1, TxKept DEF IInv, SenderRight
<1> QED
  BY <1>11, <1>12, <1>13, <1>14, <1>15, <1>16 DEF IInv

-----------------------------------------------------------------------------
(* The steps together *)

\* Every step preserves the invariant
LEMMA NextRight == IInv /\ [Next]_vars => IInv'
<1> SUFFICES ASSUME IInv, [Next]_vars PROVE IInv'
  OBVIOUS
<1>1. CASE Chip
  BY <1>1, OpenKeeps, FreeKeeps, QueueKeeps, SentKeeps DEF Chip
<1>2. ASSUME NEW f \in Incoming, ChipReceives(f) PROVE IInv'
  BY <1>2, ReceiveKeeps
<1>3. CASE Step
  BY <1>3, RestKeeps, ReadByteKeeps, FirstSizeKeeps, SecondSizeKeeps, FreeSizeKeeps,
     ReadHeaderKeeps, ReadDataKeeps, ReadReturnKeeps, WriteDataKeeps, SendReturnKeeps DEF Step
<1>4. CASE Call
  BY <1>4, AskKeeps, RestKeeps, BeginKeeps DEF Call
<1>5. CASE UNCHANGED vars
  <2>1. /\ UNCHANGED <<buffers, data, pc, after, size, half, sending, IR, first, CR>>
        /\ UNCHANGED At
    BY <1>5 DEF vars, ring, transmitter, socket, locals, size, buffers, At
  <2>2. FramesLie' /\ ReaderRight'
    BY <2>1, BuffersKept
  <2>3. Types' /\ CommandsRight'
    BY <2>1 DEF IInv, Types, CommandsRight, buffers
  <2>4. SizeRight'
    BY <2>1, SizeKept DEF buffers
  <2>5. SenderRight'
    BY <2>1, TxKept DEF IInv, SenderRight, buffers
  <2> QED
    BY <2>2, <2>3, <2>4, <2>5 DEF IInv
<1> QED
  BY <1>1, <1>2, <1>3, <1>4, <1>5 DEF Next

-----------------------------------------------------------------------------
(* The queue of frames *)

\* What readFrame() returns is the oldest frame
LEMMA ReturnImplements == IInv /\ readFrameReturns => Fifo!Deliver \/ Fifo!Discard
<1> SUFFICES ASSUME IInv, readFrameReturns PROVE Fifo!Deliver \/ Fifo!Discard
  OBVIOUS
<1>1. pc \in {"deliver", "discard"} /\ At = pc /\ At \in InFrame
  BY DEF readFrameReturns, At, InFrame
<1>2. pending # <<>> /\ pending' = Tail(pending) /\ UNCHANGED <<sending, out>>
  BY <1>1, HeldFacts DEF readFrameReturns, transmitter
<1>3. CASE pc = "deliver"
  <2>1. data = Head(pending) /\ Len(Head(pending)) <= BufSize /\ got' = data
    BY <1>1, <1>3 DEF IInv, ReaderRight, readFrameReturns
  <2> QED
    BY <1>2, <2>1 DEF Fifo!Deliver
<1>4. CASE pc = "discard"
  <2>1. Len(Head(pending)) > BufSize /\ got' = NoFrame
    BY <1>1, <1>4 DEF IInv, ReaderRight, readFrameReturns
  <2> QED
    BY <1>2, <2>1 DEF Fifo!Discard
<1> QED
  BY <1>1, <1>3, <1>4

\* What goes on the wire is what was given to sendFrame()
LEMMA TransmitImplements == IInv /\ ChipTransmits => Fifo!Transmit
<1> SUFFICES ASSUME IInv, ChipTransmits PROVE Fifo!Transmit
  OBVIOUS
<1>1. TX_RD # TX_WR /\ queued = TX_WR
  BY DEF IInv, SenderRight, ChipTransmits
<1>2. PICK s \in Outgoing :
        /\ s = sending /\ TX_WR = Plus(TX_RD, Len(s))
        /\ \A i \in 1 .. Len(s) : mem[AddressByChip(TxBufferAddress, TX_RD, i)] = s[i]
  BY <1>1 DEF IInv, SenderRight
<1>3. PICK n \in Nat : n = Len(s) /\ n <= BufferLength
  BY FrameFacts, WiznetAssumption
<1>4. PICK x \in Nat, q \in Nat : x = TX_RD /\ q = queued /\ x < PtrMod /\ q < PtrMod
  BY Sizes DEF IInv, Types
<1>5. q = IF x + n < PtrMod THEN x + n ELSE x + n - PtrMod
  <2>1. n <= PtrMod /\ x < PtrMod
    BY <1>3, <1>4, Sizes
  <2>2. Plus(x, n) = Wrap(x + n)
    BY <2>1, PlusFacts
  <2>3. q = Plus(x, n)
    BY <1>1, <1>2, <1>3, <1>4
  <2> QED
    BY <2>2, <2>3, Sizes DEF Wrap
<1>6. Plus(queued, PtrMod - TX_RD) = n
  <2>1. Plus(q, PtrMod - x) = IF x <= q THEN q - x ELSE q + PtrMod - x
    BY <1>4, Distance
  <2>2. n <= BufferLength /\ x < PtrMod
    BY <1>3, <1>4
  <2>3. Plus(q, PtrMod - x) = n
    BY <1>5, <2>1, <2>2, Sizes
  <2> QED
    BY <1>4, <2>3
<1>7. out' = [i \in 1 .. n |-> mem[AddressByChip(TxBufferAddress, TX_RD, i)]]
  BY <1>6 DEF ChipTransmits
<1>8. out' = sending
  <2>1. s = [i \in 1 .. n |-> s[i]]
    BY <1>3, FrameFacts
  <2>2. out' = [i \in 1 .. n |-> s[i]]
    BY <1>2, <1>3, <1>7
  <2> QED
    BY <1>2, <2>1, <2>2
<1>9. sending # NoFrame /\ sending' = NoFrame /\ UNCHANGED <<pending, got>>
  BY <1>2, FrameFacts DEF ChipTransmits
<1> QED
  BY <1>8, <1>9 DEF Fifo!Transmit

\* Each step is one of the queue, or none
LEMMA StepImplements == IInv /\ [Next]_vars => [Fifo!Next]_(Fifo!vars)
<1> SUFFICES ASSUME IInv, [Next]_vars PROVE [Fifo!Next]_(Fifo!vars)
  OBVIOUS
<1>1. CASE UNCHANGED vars
  BY <1>1 DEF vars, ring, transmitter, Fifo!vars
<1>2. ASSUME NEW f \in Incoming, ChipReceives(f) PROVE Fifo!Next
  <2>1. Fifo!Arrive(f)
    BY <1>2 DEF ChipReceives, transmitter, Fifo!Arrive
  <2> QED
    BY <2>1 DEF Fifo!Next
<1>3. CASE Chip
  <2>1. CASE ChipTransmits
    BY <2>1, TransmitImplements DEF Fifo!Next
  <2>2. CASE ChipTimesOut
    <3>1. Fifo!SendFails
      BY <2>2 DEF ChipTimesOut, Fifo!SendFails
    <3> QED
      BY <3>1 DEF Fifo!Next
  <2>3. CASE ChipOpens \/ ChipCloses \/ ChipFrees \/ ChipQueues
    BY <2>3 DEF ChipOpens, ChipCloses, ChipFrees, ChipQueues, ring, transmitter, Fifo!vars
  <2> QED
    BY <1>3, <2>1, <2>2, <2>3 DEF Chip
<1>4. CASE readFrameReturns
  BY <1>4, ReturnImplements DEF Fifo!Next
<1>5. CASE FirstSize
  <2>1. Fifo!Nothing \/ UNCHANGED Fifo!vars
    BY <1>5 DEF FirstSize, ring, transmitter, Fifo!Nothing, Fifo!vars
  <2> QED
    BY <2>1 DEF Fifo!Next
<1>6. CASE FreeSize
  <2>1. Fifo!SendFails \/ UNCHANGED Fifo!vars
    BY <1>6 DEF FreeSize, ring, Fifo!SendFails, Fifo!vars
  <2> QED
    BY <2>1 DEF Fifo!Next
<1>7. CASE readFrame
  <2>1. Fifo!Nothing
    BY <1>7 DEF readFrame, ring, transmitter, Fifo!Nothing
  <2> QED
    BY <2>1 DEF Fifo!Next
<1>8. ASSUME NEW f \in Outgoing, sendFrame(f) PROVE Fifo!Next
  <2>1. Fifo!Send(f)
    BY <1>8 DEF sendFrame, ring, Fifo!Send
  <2> QED
    BY <2>1 DEF Fifo!Next
<1>9. CASE begin
  <2>1. Fifo!Reset
    BY <1>9 DEF begin, Begun, Fifo!Reset
  <2> QED
    BY <2>1 DEF Fifo!Next
  \* All the other steps are of the inside
<1>10. CASE end \/ (Step /\ ~readFrameReturns /\ ~FirstSize /\ ~FreeSize)
  BY <1>10 DEF end, Step, CommandTaken, beginReturns, endReturns, ReadByte, SecondSize,
               FreeSizeAgain, ReadHeader, ReadData, IgnoreData, WriteData, sendFrameReturns,
               ring, transmitter, Fifo!vars
<1> QED
  BY <1>1, <1>2, <1>3, <1>4, <1>5, <1>6, <1>7, <1>8, <1>9, <1>10 DEF Next, Call

-----------------------------------------------------------------------------
(* Theorems *)

\* The size that getSn_RX_RSR() or getSn_TX_FSR() returns is one that the register had during the
\* call, although frames arrive between the readings of its bytes, whichever the compiler has read
\* first (w5100.cpp:50-53,96-123; w5500.cpp:54-57,121-148).
THEOREM SizeStaysReal == Spec => []SizeIsReal
<1>1. IInv => SizeIsReal
  BY DEF IInv, SizeRight, SizeIsReal
<1> QED
  BY <1>1, InitRight, NextRight, PTL DEF Spec

\* The driver and the controller are a queue of frames: what readFrame() returns is the oldest
\* frame, whole, unless it is too large, and what goes on the wire is what sendFrame() was given,
\* wherever the frames lie in the rings, with begin() again at any time (w5100.cpp:125-195,254-320;
\* w5500.cpp:150-182,295-360).
THEOREM Implements == Spec => FramesIntact
<1>1. Init => Fifo!Init
  BY DEF Init, Fifo!Init
<1> QED
  BY <1>1, InitRight, NextRight, StepImplements, PTL DEF Spec, FramesIntact, Fifo!Spec
=============================================================================
