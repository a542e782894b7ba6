--------------------------- MODULE OperatorsProofs ---------------------------
(***************************************************************************)
(* What the functions of Operators promise, for all arguments: a board is  *)
(* reached by the solicitation for an address made of its MAC address; the *)
(* round trip estimator in bytes is the one in integers as long as round   *)
(* trips are below 32 ticks; a packet that is sent has a valid checksum,   *)
(* and has not if one byte of it is changed, whatever its length;          *)
(* checkRequest() matches the paths that are as long as a pattern and      *)
(* begin as it does, and longer ones by chance; each line that is printed  *)
(* to a Syslog is sent in one packet, and behind the buffer is written if  *)
(* and only if one does not fit; dnsProcessReply() finds the first address *)
(* of the answers; and the fromString() of an address reads what was       *)
(* meant.                                                                  *)
(*                                                                         *)
(* The argument: SolicitedNode() and MulticastMac() keep the last three    *)
(* bytes of an address, and these are the last three of the MAC address it *)
(* is made of; an address of a board has fe there where that of a group of *)
(* solicited nodes has ff.  The scaled mean never is above 255, nor the    *)
(* deviation above 127, so that no byte of the estimator overflows, and    *)
(* the deviation never is below 3, so that the time-out is not zero.       *)
(*                                                                         *)
(* A sum with its carries is congruent to the sum in integers, modulo      *)
(* WordMod - 1, and is not zero again; so a packet is valid if and only if *)
(* its sum in integers is such a multiple.  What senders fill in makes it  *)
(* one, and one byte that is changed changes it by less than WordMod - 1,  *)
(* but by something.  Sums of all lengths are compared by induction, from  *)
(* the least index where they would differ (LeastNumber).  So are paths    *)
(* with patterns: up to the end of the path a request matches if each      *)
(* character fits, and where the pattern has its NUL only what is behind a *)
(* '#' does.                                                               *)
(* And after each character of a text the packets sent are those of the    *)
(* lines that have ended, and the payload is the line that has begun.      *)
(*                                                                         *)
(* The answers of a reply are behind one another, and the names in front   *)
(* of them are skipped label by label, so that each answer is read from    *)
(* its own place.  Of the text of an address a group is stored behind the  *)
(* one before it, up to the "::", and then as many places from the end as  *)
(* there are groups left.                                                  *)
(***************************************************************************)
EXTENDS Operators, TLAPS, WellFoundedInduction

-----------------------------------------------------------------------------
(* Calls *)

\* A call is recorded with its name
LEMMA NameOfCall ==
    ASSUME NEW op, NEW record, Calls(op, record)
    PROVE  call'.op = op
BY DEF Calls

\* Which call a step is
LEMMA OpOfCall ==
    /\ (SendPacket => call'.op = "send") /\ (ReadAddress => call'.op = "address")
    /\ (ReadPrintedAddress => call'.op = "address") /\ (ReadMac => call'.op = "mac")
    /\ (Solicit => call'.op = "solicit") /\ (ProcessReply => call'.op = "reply")
    /\ (CheckRequest => call'.op = "request") /\ (PrintText => call'.op = "print")
    /\ (Connect => call'.op = "estimate") /\ (Return => call'.op = "none")
<1>1. SendPacket => call'.op = "send"
  BY NameOfCall DEF SendPacket
<1>2. ReadAddress => call'.op = "address"
  BY NameOfCall DEF ReadAddress
<1>3. ReadPrintedAddress => call'.op = "address"
  BY NameOfCall DEF ReadPrintedAddress
<1>4. ReadMac => call'.op = "mac"
  BY NameOfCall DEF ReadMac
<1>5. Solicit => call'.op = "solicit"
  BY NameOfCall DEF Solicit
<1>6. ProcessReply => call'.op = "reply"
  BY NameOfCall DEF ProcessReply
<1>7. CheckRequest => call'.op = "request"
  BY NameOfCall DEF CheckRequest
<1>8. PrintText => call'.op = "print"
  BY NameOfCall DEF PrintText
<1>9. Connect => call'.op = "estimate"
  BY NameOfCall DEF Connect
<1>10. Return => call'.op = "none"
  BY DEF Return
<1> QED
  BY <1>1, <1>2, <1>3, <1>4, <1>5, <1>6, <1>7, <1>8, <1>9, <1>10

-----------------------------------------------------------------------------
(* Addresses *)

\* The group of solicited nodes of an address, and the MAC address it is reached at
\* (icmp6.cpp, EtherSia.cpp)
LEMMA SolicitedBytes ==
    ASSUME NEW address
    PROVE  LET m == SolicitedNode(address)
           IN  /\ m[0] = 255 /\ m[11] = 1 /\ m[12] = 255
               /\ \A n \in 13 .. 15 : m[n] = address[n]
BY DEF SolicitedNode, AllNodes, Zero

\* setEui64() keeps the subnet and the last three bytes of the MAC address
LEMMA EuiBytes ==
    ASSUME NEW address, NEW mac
    PROVE  LET e == setEui64(address, mac)
           IN  /\ e[12] = 254 /\ \A n \in 13 .. 15 : e[n] = mac[n - 10]
               /\ \A n \in 0 .. 7 : e[n] = address[n]
BY DEF setEui64

\* A link-local address is one
LEMMA LinkLocalBytes ==
    ASSUME NEW mac
    PROVE  LET l == LinkLocal(mac)
           IN  isLinkLocal(l) /\ l[12] = 254 /\ \A n \in 13 .. 15 : l[n] = mac[n - 10]
BY EuiBytes DEF LinkLocal, isLinkLocal, Zero

\* A board takes the group of an address for its own if one of its addresses ends so
LEMMA OwnGroup ==
    ASSUME NEW mac, NEW prefix, NEW target, NEW board,
           board.linkLocal = LinkLocal(mac), board.global = setEui64(prefix, mac),
           isOurAddress(board, SolicitedNode(target))
    PROVE  \A n \in 13 .. 15 : target[n] = mac[n - 10]
<1> DEFINE group == SolicitedNode(target)
<1>1. /\ group[12] = 255 /\ group[11] = 1
      /\ \A n \in 13 .. 15 : group[n] = target[n]
  BY SolicitedBytes
<1>2. group # AllNodes
  <2>1. AllNodes[11] = 0
    BY DEF AllNodes, Zero
  <2> QED
    BY <1>1, <2>1
<1>3. group # LinkLocal(mac) /\ group # setEui64(prefix, mac)
  BY <1>1, LinkLocalBytes, EuiBytes
<1>4. group = SolicitedNode(LinkLocal(mac)) \/ group = SolicitedNode(setEui64(prefix, mac))
  BY <1>2, <1>3 DEF isOurAddress
<1>5. CASE group = SolicitedNode(LinkLocal(mac))
  <2>1. \A n \in 13 .. 15 : group[n] = LinkLocal(mac)[n]
    BY <1>5, SolicitedBytes
  <2> QED
    BY <1>1, <2>1, LinkLocalBytes
<1>6. CASE group = SolicitedNode(setEui64(prefix, mac))
  <2>1. \A n \in 13 .. 15 : group[n] = setEui64(prefix, mac)[n]
    BY <1>6, SolicitedBytes
  <2> QED
    BY <1>1, <2>1, EuiBytes
<1> QED
  BY <1>4, <1>5, <1>6

\* What Solicit records of a call is right
LEMMA SolicitRight == Solicit => SolicitationsReach'
<1> SUFFICES ASSUME Solicit PROVE SolicitationsReach'
  OBVIOUS
<1> DEFINE board(mac, prefix) == [mac |-> mac, linkLocal |-> LinkLocal(mac),
                                  global |-> setEui64(prefix, mac)]
           target(to, prefix, isGlobal) ==
             IF isGlobal THEN board(to, prefix).global ELSE board(to, prefix).linkLocal
           hears(b, from, t) ==
             /\ checkEthernetAddresses(b, from, MulticastMac(SolicitedNode(t)))
             /\ isOurAddress(b, SolicitedNode(t))
<1> DEFINE record(from, to, prefix, t) ==
             [to |-> to, target |-> t, prefix |-> prefix,
              heard |-> {mac \in Macs : hears(board(mac, prefix), from, t)},
              onLink |-> isLinkLocal(t) \/ inSameSubnet(t, prefix),
              own |-> isMulticast(SolicitedNode(t))]
<1>1. PICK from \in Macs, to \in Macs, prefix \in Subnets, isGlobal \in BOOLEAN :
         LET t == target(to, prefix, isGlobal)
         IN  from # to /\ Calls("solicit", record(from, to, prefix, t))
  BY DEF Solicit
<1> DEFINE t == target(to, prefix, isGlobal)
           r == record(from, to, prefix, t)
<1>2. /\ call'.to = to /\ call'.heard = {mac \in Macs : hears(board(mac, prefix), from, t)}
      /\ call'.onLink = (isLinkLocal(t) \/ inSameSubnet(t, prefix))
      /\ call'.own = isMulticast(SolicitedNode(t))
  <2>1. Calls("solicit", r)
    BY <1>1
  <2> HIDE DEF board, target, hears, t
  <2>2. DOMAIN r = {"to", "target", "prefix", "heard", "onLink", "own"}
    OBVIOUS
  <2>3. /\ r.to = to /\ r.heard = {mac \in Macs : hears(board(mac, prefix), from, t)}
        /\ r.onLink = (isLinkLocal(t) \/ inSameSubnet(t, prefix))
        /\ r.own = isMulticast(SolicitedNode(t))
    OBVIOUS
  <2> HIDE DEF record, r
  <2>4. call'.to = r.to /\ call'.heard = r.heard /\ call'.onLink = r.onLink /\ call'.own = r.own
    BY <2>1, <2>2 DEF Calls
  <2> QED
    BY <2>3, <2>4
<1>3. to \in call'.heard
  <2>1. isOurAddress(board(to, prefix), SolicitedNode(t))
    BY DEF isOurAddress
  <2>2. checkEthernetAddresses(board(to, prefix), from, MulticastMac(SolicitedNode(t)))
    BY <1>1 DEF checkEthernetAddresses, isIPv6Multicast, MulticastMac
  <2>3. hears(board(to, prefix), from, t)
    BY <2>1, <2>2
  <2> HIDE DEF hears
  <2> QED
    BY <1>2, <2>3
<1>4. call'.onLink
  <2>1. CASE isGlobal
    <3>1. inSameSubnet(setEui64(prefix, to), prefix)
      BY EuiBytes DEF inSameSubnet
    <3> QED
      BY <1>2, <2>1, <3>1
  <2>2. CASE ~isGlobal
    <3>1. isLinkLocal(LinkLocal(to))
      BY LinkLocalBytes
    <3> QED
      BY <1>2, <2>2, <3>1
  <2> QED
    BY <2>1, <2>2
<1>5. call'.own
  BY <1>2, SolicitedBytes DEF isMulticast
<1>6. \A n \in 13 .. 15 : t[n] = to[n - 10]
  BY EuiBytes, LinkLocalBytes
<1>7. ASSUME NEW mac \in call'.heard, NEW n \in 3 .. 5 PROVE mac[n] = to[n]
  <2>1. isOurAddress(board(mac, prefix), SolicitedNode(t))
    BY <1>2, <1>7
  <2>2. \A k \in 13 .. 15 : t[k] = mac[k - 10]
    BY <2>1, OwnGroup
  <2>3. n + 10 \in 13 .. 15 /\ (n + 10) - 10 = n
    OBVIOUS
  <2> QED
    BY <1>6, <2>2, <2>3
<1> QED
  BY <1>2, <1>3, <1>4, <1>5, <1>7 DEF SolicitationsReach

-----------------------------------------------------------------------------
(* The round trip estimator *)

\* What the estimator makes of round trips below 32 ticks: sa is the mean times 8,
\* sv the deviation times 4
Estimates == [sa : 0 .. 255, sv : 3 .. 127, rto : UIP_RTO .. 158]

\* Numbers that fit in a byte, signed or not, are stored as they are
LEMMA BytesKeep ==
    /\ \A x \in 0 .. 255 : Byte(x) = x
    /\ \A x \in -128 .. 127 : SignedChar(x) = x
    /\ \A x \in -31 .. 31 : Deviation(x) = IF x < 0 THEN -x ELSE x
<1>1. \A x \in 0 .. 255 : Byte(x) = x
  BY DEF Byte
<1>2. \A x \in -128 .. -1 : Byte(x) = x + 256
  BY DEF Byte
<1>3. \A x \in -128 .. 127 : SignedChar(x) = x
  BY <1>1, <1>2 DEF SignedChar
<1> QED
  BY <1>1, <1>3 DEF Deviation

\* One round trip more (TCPClient.cpp:208-216)
LEMMA UpdateIsEstimate ==
    ASSUME NEW est \in Estimates, NEW roundTrip \in 0 .. 31
    PROVE  /\ Update(est, est.rto - roundTrip) = Estimate(est, roundTrip)
           /\ Estimate(est, roundTrip) \in Estimates
<1>1. PICK sa \in 0 .. 255, sv \in 3 .. 127, rto \in 3 .. 158 :
         est = [sa |-> sa, sv |-> sv, rto |-> rto]
  BY DEF Estimates, UIP_RTO
<1>2. PICK q \in 0 .. 31, r \in 0 .. 7 : sa = 8 * q + r /\ q = sa \div 8
  OBVIOUS
<1>3. PICK p \in 0 .. 31, k \in 0 .. 3 : sv = 4 * p + k /\ p = sv \div 4
  OBVIOUS
<1>4. PICK error \in -31 .. 31 : error = roundTrip - q
  BY <1>2
<1>5. PICK size \in 0 .. 31 : size = IF error < 0 THEN -error ELSE error
  BY <1>4
<1>6. PICK mean \in 0 .. 255, deviation \in 3 .. 127 :
         mean = sa + error /\ deviation = sv + size - p
  <2>1. sa + error \in 0 .. 255
    BY <1>2, <1>4
  <2>2. sv + size - p \in 3 .. 127
    BY <1>3, <1>5
  <2> QED
    BY <2>1, <2>2
<1>7. mean \div 8 + deviation \in UIP_RTO .. 158
  BY DEF UIP_RTO
<1> DEFINE next == [sa |-> mean, sv |-> deviation, rto |-> mean \div 8 + deviation]
<1>8. Estimate(est, roundTrip) = next
  BY <1>1, <1>2, <1>3, <1>4, <1>5, <1>6 DEF Estimate
<1>9. SignedChar(SignedChar(est.rto - (est.rto - roundTrip)) - est.sa \div 8) = error
  <2>1. est.rto - (est.rto - roundTrip) = roundTrip
    BY <1>1
  <2> QED
    BY <1>1, <1>2, <1>4, <2>1, BytesKeep
<1>10. SignedChar(Deviation(error) - est.sv \div 4) = size - p
  BY <1>1, <1>3, <1>5, BytesKeep
<1>11. Byte(est.sa + error) = mean /\ Byte(est.sv + (size - p)) = deviation
  <2>1. est.sa + error = mean /\ est.sv + (size - p) = deviation
    BY <1>1, <1>6
  <2> QED
    BY <2>1, BytesKeep
<1>12. Byte(mean \div 8 + deviation) = mean \div 8 + deviation
  BY <1>7, BytesKeep DEF UIP_RTO
<1>13. Update(est, est.rto - roundTrip) = next
  BY <1>9, <1>10, <1>11, <1>12 DEF Update
<1> QED
  BY <1>7, <1>8, <1>13 DEF Estimates

\* The inductive invariant: the estimator holds an estimate, and the reference the same
EstimateInv ==
    call.op = "estimate" =>
        \E est \in Estimates : call = [op |-> "estimate", est |-> est, ideal |-> est]

\* A sample keeps the invariant
LEMMA SampleKeeps == ShortRoundTrips /\ EstimateInv /\ Sample => EstimateInv'
<1> SUFFICES ASSUME ShortRoundTrips, EstimateInv, Sample PROVE EstimateInv'
  OBVIOUS
<1>1. PICK est \in Estimates : call = [op |-> "estimate", est |-> est, ideal |-> est]
  BY DEF EstimateInv, Sample
<1>2. PICK roundTrip \in 0 .. MaxRoundTrip :
         call' = [op |-> "estimate", est |-> Update(est, est.rto - roundTrip),
                  ideal |-> Estimate(est, roundTrip)]
  BY <1>1 DEF Sample
<1>3. roundTrip \in 0 .. 31
  BY DEF ShortRoundTrips
<1> QED
  BY <1>2, <1>3, UpdateIsEstimate DEF EstimateInv

\* So does every other step
LEMMA EstimateNext == ShortRoundTrips /\ EstimateInv /\ [Next]_call => EstimateInv'
<1> SUFFICES ASSUME ShortRoundTrips, EstimateInv, [Next]_call PROVE EstimateInv'
  OBVIOUS
<1>1. CASE Sample
  BY <1>1, SampleKeeps
<1>2. CASE Connect
  <2>1. call' = [op |-> "estimate", est |-> FirstEstimate, ideal |-> FirstEstimate]
    BY <1>2 DEF Connect, Calls
  <2>2. FirstEstimate \in Estimates
    BY DEF FirstEstimate, Estimates, UIP_RTO
  <2> QED
    BY <2>1, <2>2 DEF EstimateInv
<1>3. CASE SendPacket \/ ReadAddress \/ ReadPrintedAddress \/ ReadMac \/ Solicit
            \/ ProcessReply \/ CheckRequest \/ PrintText \/ Return
  BY <1>3, OpOfCall DEF EstimateInv
<1>4. CASE UNCHANGED call
  BY <1>4 DEF EstimateInv
<1> QED
  BY <1>1, <1>2, <1>3, <1>4 DEF Next

-----------------------------------------------------------------------------
(* Induction *)

\* A set of numbers has a least one
LEMMA LeastNumber ==
    ASSUME NEW T, T \subseteq Nat, T # {}
    PROVE  \E x \in T : \A y \in T : x <= y
<1> DEFINE R == {p \in Nat \X Nat : p[1] < p[2]}
<1>1. IsWellFoundedOn(R, Nat)
  BY NatLessThanWellFounded DEF OpToRel
<1>2. PICK x \in T : \A y \in T : ~(<<y, x>> \in R)
  BY <1>1, WFMin
<1>3. ASSUME NEW y \in T PROVE x <= y
  <2>1. <<y, x>> \in Nat \X Nat /\ <<y, x>>[1] = y /\ <<y, x>>[2] = x
    OBVIOUS
  <2>2. ~(y < x)
    BY <1>2, <2>1
  <2> QED
    BY <2>2
<1> QED
  BY <1>3

\* A set of numbers that has 0, and with each number the next one, has all up to n
LEMMA AllUpTo ==
    ASSUME NEW n \in Nat, NEW T, 0 \in T,
           \A k \in 1 .. n : k - 1 \in T => k \in T
    PROVE  0 .. n \subseteq T
<1> DEFINE Left == {k \in 0 .. n : k \notin T}
<1> SUFFICES ASSUME Left # {} PROVE FALSE
  OBVIOUS
<1>1. PICK x \in Left : \A y \in Left : x <= y
  <2>1. Left \subseteq Nat
    OBVIOUS
  <2> HIDE DEF Left
  <2> QED
    BY <2>1, LeastNumber
<1>2. x \in 1 .. n /\ x - 1 \in 0 .. n /\ x - 1 \notin Left
  BY <1>1
<1> QED
  BY <1>1, <1>2

-----------------------------------------------------------------------------
(* Sums of words *)

\* chksum() has a sum after each word: what Sums says of itself
LEMMA SumsIs ==
    ASSUME NEW sum, NEW words, Len(words) \in Nat
    PROVE  Sums(sum, words) = [i \in 0 .. Len(words) |->
              IF i = 0 THEN sum ELSE Add(Sums(sum, words)[i - 1], words[i])]
<1> DEFINE F(f, k) == f = [i \in 0 .. k |-> IF i = 0 THEN sum ELSE Add(f[i - 1], words[i])]
           T == {k \in 0 .. Len(words) : \E f : F(f, k)}
<1>1. 0 \in T
  <2>1. F([i \in 0 .. 0 |-> sum], 0)
    OBVIOUS
  <2>2. \E f : F(f, 0)
    BY <2>1
  <2> HIDE DEF F
  <2> QED
    BY <2>2
<1>2. ASSUME NEW k \in 1 .. Len(words), k - 1 \in T PROVE k \in T
  <2> HIDE DEF F
  <2>1. PICK f : F(f, k - 1)
    BY <1>2
  <2> DEFINE g == [i \in 0 .. k |-> IF i = k THEN Add(f[k - 1], words[k]) ELSE f[i]]
  <2>2. F(g, k)
    <3>1. \A i \in 0 .. k : g[i] = IF i = 0 THEN sum ELSE Add(g[i - 1], words[i])
      BY <2>1 DEF F
    <3> QED
      BY <3>1 DEF F
  <2> HIDE DEF g
  <2> QED
    BY <2>2
<1> HIDE DEF T
<1>3. 0 .. Len(words) \subseteq T
  BY <1>1, <1>2, AllUpTo
<1>4. \E f : F(f, Len(words))
  BY <1>3 DEF T
<1> QED
  BY <1>4, Zenon DEF Sums

\* The same of the sums in integers
LEMMA TotalsIs ==
    ASSUME NEW first, NEW words, Len(words) \in Nat
    PROVE  Totals(first, words) = [i \in 0 .. Len(words) |->
              IF i = 0 THEN first ELSE Totals(first, words)[i - 1] + words[i]]
<1> DEFINE F(f, k) == f = [i \in 0 .. k |-> IF i = 0 THEN first ELSE f[i - 1] + words[i]]
           T == {k \in 0 .. Len(words) : \E f : F(f, k)}
<1>1. 0 \in T
  <2>1. F([i \in 0 .. 0 |-> first], 0)
    OBVIOUS
  <2>2. \E f : F(f, 0)
    BY <2>1
  <2> HIDE DEF F
  <2> QED
    BY <2>2
<1>2. ASSUME NEW k \in 1 .. Len(words), k - 1 \in T PROVE k \in T
  <2> HIDE DEF F
  <2>1. PICK f : F(f, k - 1)
    BY <1>2
  <2> DEFINE g == [i \in 0 .. k |-> IF i = k THEN f[k - 1] + words[k] ELSE f[i]]
  <2>2. F(g, k)
    <3>1. \A i \in 0 .. k : g[i] = IF i = 0 THEN first ELSE g[i - 1] + words[i]
      BY <2>1 DEF F
    <3> QED
      BY <3>1 DEF F
  <2> HIDE DEF g
  <2> QED
    BY <2>2
<1> HIDE DEF T
<1>3. 0 .. Len(words) \subseteq T
  BY <1>1, <1>2, AllUpTo
<1>4. \E f : F(f, Len(words))
  BY <1>3 DEF T
<1> QED
  BY <1>4, Zenon DEF Totals

\* The sum of the words alone
Weight(words) == Totals(0, words)[Len(words)]

\* Words are added one by one
LEMMA TotalsAre ==
    ASSUME NEW first \in Int, NEW words \in Seq(Int)
    PROVE  /\ Totals(first, words)[0] = first
           /\ \A i \in 1 .. Len(words) :
                Totals(first, words)[i] = Totals(first, words)[i - 1] + words[i]
           /\ \A i \in 0 .. Len(words) : Totals(first, words)[i] \in Int
<1> DEFINE t == Totals(first, words)
           T == {i \in 0 .. Len(words) : t[i] \in Int}
<1>0. Len(words) \in Nat
  OBVIOUS
<1>1. t[0] = first /\ \A i \in 1 .. Len(words) : t[i] = t[i - 1] + words[i]
  <2>1. t = [i \in 0 .. Len(words) |-> IF i = 0 THEN first ELSE t[i - 1] + words[i]]
    BY <1>0, TotalsIs
  <2> HIDE DEF t
  <2> QED
    BY <1>0, <2>1
<1> HIDE DEF t
<1>2. 0 \in T
  BY <1>0, <1>1
<1>3. ASSUME NEW k \in 1 .. Len(words), k - 1 \in T PROVE k \in T
  <2>1. words[k] \in Int
    OBVIOUS
  <2> QED
    BY <1>1, <1>3, <2>1
<1> HIDE DEF T
<1>4. 0 .. Len(words) \subseteq T
  BY <1>0, <1>2, <1>3, AllUpTo
<1> QED
  BY <1>1, <1>4 DEF t, T

\* What the sum starts with can be added at the end
LEMMA TotalsShift ==
    ASSUME NEW first \in Int, NEW words \in Seq(Int)
    PROVE  Totals(first, words)[Len(words)] = first + Weight(words)
<1> DEFINE s == Totals(first, words)
           t == Totals(0, words)
           T == {i \in 0 .. Len(words) : s[i] = first + t[i]}
<1>1. /\ Len(words) \in Nat /\ s[0] = first /\ t[0] = 0
      /\ \A i \in 1 .. Len(words) : s[i] = s[i - 1] + words[i] /\ t[i] = t[i - 1] + words[i]
      /\ \A i \in 0 .. Len(words) : t[i] \in Int
      /\ \A i \in 1 .. Len(words) : words[i] \in Int
  BY TotalsAre
<1> HIDE DEF s, t
<1>2. 0 \in T
  BY <1>1
<1>3. ASSUME NEW k \in 1 .. Len(words), k - 1 \in T PROVE k \in T
  <2>1. /\ s[k] = s[k - 1] + words[k] /\ t[k] = t[k - 1] + words[k]
        /\ t[k - 1] \in Int /\ words[k] \in Int /\ s[k - 1] = first + t[k - 1]
    BY <1>1, <1>3
  <2> QED
    BY <2>1
<1>4. Len(words) \in T
  <2> HIDE DEF T
  <2>1. Len(words) \in Nat /\ Len(words) \in 0 .. Len(words)
    BY <1>1
  <2>2. 0 .. Len(words) \subseteq T
    BY <1>2, <1>3, <2>1, AllUpTo
  <2> QED
    BY <2>1, <2>2
<1> QED
  BY <1>4 DEF s, t, Weight

\* Two sequences, one after the other
LEMMA WeightOfBoth ==
    ASSUME NEW u \in Seq(Int), NEW v \in Seq(Int)
    PROVE  Weight(u \o v) = Weight(u) + Weight(v)
<1> DEFINE w == u \o v
           s == Totals(0, w)
           t == Totals(0, u)
           T == {i \in 0 .. Len(u) : s[i] = t[i]}
           r == Totals(0, v)
           U == {i \in 0 .. Len(v) : s[Len(u) + i] = t[Len(u)] + r[i]}
<1>1. /\ w \in Seq(Int) /\ Len(u) \in Nat /\ Len(v) \in Nat /\ Len(w) = Len(u) + Len(v)
      /\ \A i \in 1 .. Len(u) : w[i] = u[i] /\ u[i] \in Int
      /\ \A i \in 1 .. Len(v) : w[Len(u) + i] = v[i] /\ v[i] \in Int
  OBVIOUS
<1> HIDE DEF w
<1>2. /\ s[0] = 0 /\ \A i \in 1 .. Len(w) : s[i] = s[i - 1] + w[i]
      /\ t[0] = 0 /\ \A i \in 1 .. Len(u) : t[i] = t[i - 1] + u[i]
      /\ r[0] = 0 /\ \A i \in 1 .. Len(v) : r[i] = r[i - 1] + v[i]
      /\ \A i \in 0 .. Len(u) : t[i] \in Int
      /\ \A i \in 0 .. Len(v) : r[i] \in Int
  <2>1. s[0] = 0 /\ \A i \in 1 .. Len(w) : s[i] = s[i - 1] + w[i]
    <3>1. 0 \in Int /\ w \in Seq(Int)
      BY <1>1
    <3> QED
      BY ONLY <3>1, TotalsAre
  <2>2. /\ t[0] = 0 /\ \A i \in 1 .. Len(u) : t[i] = t[i - 1] + u[i]
        /\ \A i \in 0 .. Len(u) : t[i] \in Int
    BY TotalsAre
  <2>3. /\ r[0] = 0 /\ \A i \in 1 .. Len(v) : r[i] = r[i - 1] + v[i]
        /\ \A i \in 0 .. Len(v) : r[i] \in Int
    BY TotalsAre
  <2> HIDE DEF s, t, r
  <2> QED
    BY <2>1, <2>2, <2>3
<1> HIDE DEF s, t, r
<1>3. 0 \in T
  BY <1>1, <1>2
<1>4. ASSUME NEW k \in 1 .. Len(u), k - 1 \in T PROVE k \in T
  <2>1. k \in 1 .. Len(w) /\ w[k] = u[k]
    BY ONLY <1>1, <1>4
  <2>2. s[k] = s[k - 1] + w[k] /\ t[k] = t[k - 1] + u[k]
    BY ONLY <1>2, <1>4, <2>1
  <2> QED
    BY <1>4, <2>1, <2>2
<1>5. s[Len(u)] = t[Len(u)]
  <2>1. Len(u) \in T
    <3> HIDE DEF T
    <3>1. Len(u) \in Nat /\ Len(u) \in 0 .. Len(u)
      BY <1>1
    <3>2. 0 .. Len(u) \subseteq T
      BY <1>3, <1>4, <3>1, AllUpTo
    <3> QED
      BY <3>1, <3>2
  <2> QED
    BY <2>1
<1>6. 0 \in U
  <2>1. Len(u) + 0 = Len(u) /\ 0 \in 0 .. Len(v) /\ t[Len(u)] \in Int
    BY <1>1, <1>2
  <2>2. s[Len(u) + 0] = t[Len(u)] + r[0]
    BY <1>2, <1>5, <2>1
  <2> QED
    BY <2>1, <2>2
<1>7. ASSUME NEW k \in 1 .. Len(v), k - 1 \in U PROVE k \in U
  <2>1. /\ Len(u) + k \in 1 .. Len(w) /\ (Len(u) + k) - 1 = Len(u) + (k - 1)
        /\ w[Len(u) + k] = v[k] /\ v[k] \in Int /\ k - 1 \in 0 .. Len(v)
    BY <1>1
  <2>2. s[Len(u) + k] = s[Len(u) + (k - 1)] + v[k]
    <3>1. s[Len(u) + k] = s[(Len(u) + k) - 1] + w[Len(u) + k]
      BY ONLY <1>2, <2>1, Zenon
    <3> QED
      BY ONLY <2>1, <3>1, Zenon
  <2>3. s[Len(u) + (k - 1)] = t[Len(u)] + r[k - 1] /\ r[k] = r[k - 1] + v[k]
    <3>1. r[k] = r[k - 1] + v[k]
      BY ONLY <1>2, <1>7, Zenon
    <3>2. s[Len(u) + (k - 1)] = t[Len(u)] + r[k - 1]
      BY ONLY <1>7, Zenon
    <3> QED
      BY ONLY <3>1, <3>2, Zenon
  <2>4. t[Len(u)] \in Int /\ r[k - 1] \in Int
    <3>1. Len(u) \in 0 .. Len(u)
      BY ONLY <1>1
    <3> QED
      BY ONLY <1>2, <2>1, <3>1, Zenon
  <2> QED
    BY <2>1, <2>2, <2>3, <2>4
<1>8. s[Len(w)] = t[Len(u)] + r[Len(v)]
  <2>1. Len(v) \in U
    <3> HIDE DEF U
    <3>1. Len(v) \in Nat /\ Len(v) \in 0 .. Len(v)
      BY <1>1
    <3>2. 0 .. Len(v) \subseteq U
      BY <1>6, <1>7, <3>1, AllUpTo
    <3> QED
      BY <3>1, <3>2
  <2> QED
    BY <1>1, <2>1
<1> QED
  BY <1>8 DEF s, t, r, w, Weight

\* A word that is changed
LEMMA WeightOfChanged ==
    ASSUME NEW words \in Seq(Int), NEW j \in 1 .. Len(words), NEW x \in Int,
           NEW w, w = [words EXCEPT ![j] = x]
    PROVE  Weight(w) = Weight(words) + (x - words[j])
<1> DEFINE s == Totals(0, w)
           t == Totals(0, words)
           T == {i \in 0 .. Len(words) : s[i] = t[i] + (IF i < j THEN 0 ELSE x - words[j])}
<1>1. /\ w \in Seq(Int) /\ Len(words) \in Nat /\ Len(w) = Len(words) /\ w[j] = x
      /\ \A i \in 1 .. Len(words) : words[i] \in Int /\ (i # j => w[i] = words[i])
  OBVIOUS
<1> HIDE DEF T
<1>2. /\ s[0] = 0 /\ \A i \in 1 .. Len(words) : s[i] = s[i - 1] + w[i]
      /\ t[0] = 0 /\ \A i \in 1 .. Len(words) : t[i] = t[i - 1] + words[i]
      /\ \A i \in 0 .. Len(words) : t[i] \in Int
  <2>1. s[0] = 0 /\ \A i \in 1 .. Len(w) : s[i] = s[i - 1] + w[i]
    <3>1. 0 \in Int /\ w \in Seq(Int)
      BY <1>1
    <3> QED
      BY ONLY <3>1, TotalsAre
  <2>2. /\ t[0] = 0 /\ \A i \in 1 .. Len(words) : t[i] = t[i - 1] + words[i]
        /\ \A i \in 0 .. Len(words) : t[i] \in Int
    BY TotalsAre
  <2> HIDE DEF s, t
  <2> QED
    BY <1>1, <2>1, <2>2 DEF T
<1> HIDE DEF s, t
<1>3. 0 \in T
  <2>1. 0 \in 0 .. Len(words) /\ 0 < j /\ s[0] = t[0] + 0
    BY <1>1, <1>2
  <2> QED
    BY <2>1 DEF T
<1>4. ASSUME NEW k \in 1 .. Len(words), k - 1 \in T PROVE k \in T
  <2>1. /\ s[k] = s[k - 1] + w[k] /\ t[k] = t[k - 1] + words[k] /\ t[k - 1] \in Int
        /\ words[k] \in Int /\ words[j] \in Int
        /\ s[k - 1] = t[k - 1] + (IF k - 1 < j THEN 0 ELSE x - words[j])
    BY <1>1, <1>2, <1>4 DEF T
  <2>2. CASE k < j
    BY <1>1, <2>1, <2>2 DEF T
  <2>3. CASE k = j
    BY <1>1, <2>1, <2>3 DEF T
  <2>4. CASE k > j
    BY <1>1, <2>1, <2>4 DEF T
  <2> QED
    BY <1>1, <2>2, <2>3, <2>4 DEF T
<1>5. Len(words) \in T
  <2>1. Len(words) \in Nat /\ Len(words) \in 0 .. Len(words)
    BY <1>1
  <2>2. 0 .. Len(words) \subseteq T
    BY <1>3, <1>4, <2>1, AllUpTo
  <2> QED
    BY <2>1, <2>2
<1>6. s[Len(words)] = t[Len(words)] + (x - words[j])
  BY <1>1, <1>5 DEF T
<1> QED
  BY <1>1, <1>6 DEF s, t, Weight

-----------------------------------------------------------------------------
(* One's complement *)

\* Equal but for the carries
Congruent(a, b) == \E k \in Int : a = b + k * (WordMod - 1)

\* A word has at least four values
LEMMA WordModIs ==
    ASSUME ByteIsReal
    PROVE  WordMod \in Nat /\ WordMod >= 2 * ByteMod /\ WordMod > 3
BY DEF ByteIsReal, WordMod

\* A sum with its carry (util.cpp:114-117)
LEMMA AddIs ==
    ASSUME ByteIsReal, NEW a \in 0 .. WordMod - 1, NEW t \in 0 .. WordMod - 1
    PROVE  Add(a, t) = IF a + t < WordMod THEN a + t ELSE a + t - (WordMod - 1)
<1>1. PICK m \in Nat : m = WordMod /\ m > 3
  BY WordModIs
<1>2. CASE a + t < m
  <2>1. (a + t) % m = a + t
    BY <1>1, <1>2
  <2> QED
    BY <1>1, <1>2, <2>1 DEF Add
<1>3. CASE a + t >= m
  <2>1. PICK r \in 0 .. m - 2 : r = a + t - m
    BY <1>1, <1>3
  <2>2. (a + t) % m = r /\ (r + 1) % m = r + 1
    BY <1>1, <2>1
  <2>3. r < t
    BY <1>1, <2>1
  <2> QED
    BY <1>1, <1>3, <2>1, <2>2, <2>3 DEF Add
<1> QED
  BY <1>1, <1>2, <1>3

\* Congruence goes with addition
LEMMA CongruentSum ==
    ASSUME ByteIsReal, NEW a \in Int, NEW b \in Int, NEW c \in Int, NEW d \in Int,
           Congruent(a, b), Congruent(c, d)
    PROVE  Congruent(a + c, b + d)
<1>1. PICK m \in Int : m = WordMod - 1
  BY WordModIs
<1>2. PICK k \in Int, l \in Int : a = b + k * m /\ c = d + l * m
  BY <1>1 DEF Congruent
<1>3. k + l \in Int /\ a + c = (b + d) + (k + l) * m
  BY <1>2
<1> QED
  BY <1>1, <1>3 DEF Congruent

\* ... is reflexive
LEMMA CongruentSelf ==
    ASSUME ByteIsReal, NEW a \in Int
    PROVE  Congruent(a, a)
<1>1. 0 \in Int /\ a = a + 0 * (WordMod - 1)
  BY WordModIs
<1> QED
  BY <1>1 DEF Congruent

\* ... and transitive
LEMMA CongruentAlso ==
    ASSUME ByteIsReal, NEW a \in Int, NEW b \in Int, NEW c \in Int,
           Congruent(a, b), Congruent(b, c)
    PROVE  Congruent(a, c)
<1>1. PICK m \in Int : m = WordMod - 1
  BY WordModIs
<1>2. PICK k \in Int, l \in Int : a = b + k * m /\ b = c + l * m
  BY <1>1 DEF Congruent
<1>3. k + l \in Int /\ a = c + (k + l) * m
  BY <1>2
<1> QED
  BY <1>1, <1>3 DEF Congruent

\* Which multiples of WordMod - 1 are small
LEMMA SmallMultiples ==
    ASSUME ByteIsReal, NEW k \in Int, NEW x \in Int, x = k * (WordMod - 1)
    PROVE  /\ 0 <= x /\ x < WordMod => x = 0 \/ x = WordMod - 1
           /\ -(WordMod - 1) < x /\ x < WordMod - 1 => x = 0
<1>1. PICK m \in Int : m = WordMod - 1 /\ m > 2
  BY WordModIs
<1>2. x = k * m
  BY <1>1
<1>3. k >= 2 => x >= 2 * m
  BY <1>1, <1>2
<1>4. k <= -1 => x <= -m
  BY <1>1, <1>2
<1>5. k = 0 => x = 0
  BY <1>2
<1>6. k = 1 => x = m
  BY <1>2
<1>7. /\ 0 <= x /\ x < m + 1 => x = 0 \/ x = m
      /\ -m < x /\ x < m => x = 0
  BY <1>1, <1>3, <1>4, <1>5, <1>6
<1>8. WordMod = m + 1
  BY <1>1, WordModIs
<1> QED
  BY <1>1, <1>7, <1>8

\* chksum() is the sum of the words but for the carries, and is not zero again
LEMMA SumsAre ==
    ASSUME ByteIsReal, NEW sum \in 1 .. WordMod - 1, NEW words \in Seq(0 .. WordMod - 1)
    PROVE  /\ Sums(sum, words)[Len(words)] \in 1 .. WordMod - 1
           /\ Congruent(Sums(sum, words)[Len(words)], sum + Weight(words))
<1> DEFINE s == Sums(sum, words)
           t == Totals(sum, words)
           T == {i \in 0 .. Len(words) : s[i] \in 1 .. WordMod - 1 /\ Congruent(s[i], t[i])}
<1>0. Len(words) \in Nat /\ words \in Seq(Int) /\ sum \in Int /\ WordMod \in Nat /\ WordMod > 3
  <2>1. \A i \in 1 .. Len(words) : words[i] \in Int
    BY WordModIs
  <2> QED
    BY <2>1, WordModIs
<1>1. s[0] = sum /\ \A i \in 1 .. Len(words) : s[i] = Add(s[i - 1], words[i])
  <2>1. s = [i \in 0 .. Len(words) |-> IF i = 0 THEN sum ELSE Add(s[i - 1], words[i])]
    BY <1>0, SumsIs
  <2> HIDE DEF s
  <2>2. \A i \in 0 .. Len(words) : s[i] = IF i = 0 THEN sum ELSE Add(s[i - 1], words[i])
    BY ONLY <2>1
  <2> QED
    BY <1>0, <2>2
<1>2. /\ t[0] = sum /\ \A i \in 1 .. Len(words) : t[i] = t[i - 1] + words[i]
      /\ \A i \in 0 .. Len(words) : t[i] \in Int
  BY ONLY <1>0, TotalsAre
<1> HIDE DEF s, t
<1>3. 0 \in T
  BY <1>0, <1>1, <1>2, CongruentSelf
<1>4. ASSUME NEW k \in 1 .. Len(words), k - 1 \in T PROVE k \in T
  <2>1. PICK m \in Nat : m = WordMod /\ m > 3
    BY <1>0
  <2>2. PICK a \in 1 .. m - 1 : a = s[k - 1]
    BY <1>4, <2>1
  <2>3. PICK w \in 0 .. m - 1 : w = words[k]
    BY <2>1
  <2>4. PICK b \in Int : b = t[k - 1]
    <3>1. k - 1 \in 0 .. Len(words)
      BY <1>0
    <3> QED
      BY <1>2, <3>1
  <2>5. s[k] = Add(a, w) /\ t[k] = b + w
    BY <1>1, <1>2, <2>2, <2>3, <2>4
  <2>6. Add(a, w) = IF a + w < m THEN a + w ELSE a + w - (m - 1)
    BY <2>1, AddIs
  <2>7. Add(a, w) \in 1 .. m - 1
    BY <2>1, <2>6
  <2>8. Congruent(Add(a, w), a + w)
    <3>1. Add(a, w) = (a + w) + 0 * (m - 1) \/ Add(a, w) = (a + w) + (-1) * (m - 1)
      BY <2>1, <2>6
    <3>2. 0 \in Int /\ -1 \in Int
      OBVIOUS
    <3>3. \E l \in Int : Add(a, w) = (a + w) + l * (m - 1)
      BY ONLY <3>1, <3>2
    <3> QED
      BY <2>1, <3>3 DEF Congruent
  <2>9. Congruent(a + w, b + w)
    <3>1. Congruent(a, b) /\ Congruent(w, w)
      BY <1>4, <2>2, <2>4, CongruentSelf
    <3> QED
      BY <2>1, <3>1, CongruentSum
  <2>10. Congruent(Add(a, w), b + w)
    <3>1. Add(a, w) \in Int /\ a + w \in Int /\ b + w \in Int
      BY <2>1, <2>7
    <3> QED
      BY <2>8, <2>9, <3>1, CongruentAlso
  <2> QED
    BY <2>1, <2>5, <2>7, <2>10
<1>5. Len(words) \in T
  <2> HIDE DEF T
  <2>1. Len(words) \in 0 .. Len(words)
    BY <1>0
  <2>2. 0 .. Len(words) \subseteq T
    BY <1>0, <1>3, <1>4, AllUpTo
  <2> QED
    BY <2>1, <2>2
<1>6. t[Len(words)] = sum + Weight(words)
  BY <1>0, TotalsShift DEF t
<1> QED
  BY <1>5, <1>6 DEF s, T

-----------------------------------------------------------------------------
(* Packets *)

\* What a byte at position i counts in its word
Place(i) == IF i % 2 = 1 THEN ByteMod ELSE 1

\* The sum of the words of a packet
PacketWeight(p) ==
    Len(p.payload) + p.protocol + Weight(Words(p.source)) + Weight(Words(p.destination))
        + Weight(Words(p.payload))

\* A word of two bytes
LEMMA TwoBytes ==
    ASSUME ByteIsReal, NEW h \in Bytes, NEW l \in Bytes
    PROVE  h * ByteMod + l \in 0 .. WordMod - 1
<1>1. PICK m \in Nat : m = ByteMod /\ m > 1
  BY DEF ByteIsReal
<1>2. h \in Int /\ l \in Int /\ 0 <= h /\ h <= m - 1 /\ 0 <= l /\ l <= m - 1
  BY <1>1 DEF Bytes
<1>3. h * m <= (m - 1) * m
  BY <1>1, <1>2
<1>4. 0 <= h * m /\ h * m \in Int
  BY <1>1, <1>2
<1>5. (m - 1) * m + (m - 1) = m * m - 1
  BY <1>1
<1> QED
  BY <1>1, <1>2, <1>3, <1>4, <1>5 DEF WordMod

\* The words of data
LEMMA WordsAre ==
    ASSUME ByteIsReal, NEW data \in Seq(Bytes)
    PROVE  /\ Words(data) \in Seq(0 .. WordMod - 1) /\ Words(data) \in Seq(Int)
           /\ Len(Words(data)) = (Len(data) + 1) \div 2
           /\ \A i \in 1 .. (Len(data) + 1) \div 2 : Words(data)[i] =
                data[2 * i - 1] * ByteMod + (IF 2 * i <= Len(data) THEN data[2 * i] ELSE 0)
<1> DEFINE n == (Len(data) + 1) \div 2
           word(i) == data[2 * i - 1] * ByteMod + (IF 2 * i <= Len(data) THEN data[2 * i] ELSE 0)
<1>1. Len(data) \in Nat /\ n \in Nat /\ 2 * n <= Len(data) + 1
  OBVIOUS
<1>2. ASSUME NEW i \in 1 .. n PROVE word(i) \in 0 .. WordMod - 1
  <2>1. 2 * i - 1 \in 1 .. Len(data)
    BY <1>1
  <2>2. data[2 * i - 1] \in Bytes
    BY <2>1
  <2>3. (IF 2 * i <= Len(data) THEN data[2 * i] ELSE 0) \in Bytes
    <3>1. CASE 2 * i <= Len(data)
      <4>1. 2 * i \in 1 .. Len(data)
        BY <1>1, <3>1
      <4> QED
        BY <3>1, <4>1
    <3>2. CASE ~(2 * i <= Len(data))
      BY <3>2 DEF Bytes, ByteIsReal
    <3> QED
      BY <3>1, <3>2
  <2> QED
    BY <2>2, <2>3, TwoBytes
<1>3. Words(data) = [i \in 1 .. n |-> word(i)]
  BY DEF Words
<1> HIDE DEF n, word
<1>4. Words(data) \in Seq(0 .. WordMod - 1) /\ Len(Words(data)) = n
  BY <1>1, <1>2, <1>3
<1>5. Words(data) \in Seq(Int)
  <2>1. \A i \in 1 .. n : word(i) \in Int
    BY <1>2, WordModIs
  <2> QED
    BY <1>1, <1>3, <2>1
<1> QED
  BY <1>3, <1>4, <1>5 DEF n, word

\* A byte that is changed changes the sum by as much, at its place
LEMMA ByteChanged ==
    ASSUME ByteIsReal, NEW data \in Seq(Bytes), NEW i \in 1 .. Len(data), NEW b \in Bytes
    PROVE  /\ [data EXCEPT ![i] = b] \in Seq(Bytes)
           /\ Weight(Words([data EXCEPT ![i] = b]))
                = Weight(Words(data)) + (b - data[i]) * Place(i)
<1> DEFINE new == [data EXCEPT ![i] = b]
           j == (i + 1) \div 2
           x == Words(data)[j] + (b - data[i]) * Place(i)
<1>1. /\ new \in Seq(Bytes) /\ Len(new) = Len(data) /\ Len(data) \in Nat
      /\ new[i] = b /\ \A k \in 1 .. Len(data) : k # i => new[k] = data[k]
  OBVIOUS
<1> HIDE DEF new
<1>2. j \in 1 .. (Len(data) + 1) \div 2 /\ Len(Words(data)) = (Len(data) + 1) \div 2
  <2>1. j \in 1 .. (Len(data) + 1) \div 2
    OBVIOUS
  <2> QED
    BY <2>1, WordsAre
<1>3. ByteMod \in Int /\ b \in Int /\ \A k \in 1 .. Len(data) : data[k] \in Int
  BY DEF Bytes, ByteIsReal
<1>4. Words(new)[j] = x
  <2>1. CASE i % 2 = 1
    <3>1. 2 * j - 1 = i /\ 2 * j # i
      BY <2>1
    <3>2. Words(data)[j] = data[i] * ByteMod + (IF 2 * j <= Len(data) THEN data[2 * j] ELSE 0)
      BY <1>2, <3>1, WordsAre
    <3>3. Words(new)[j] = b * ByteMod + (IF 2 * j <= Len(data) THEN data[2 * j] ELSE 0)
      <4>1. Words(new)[j] = new[i] * ByteMod + (IF 2 * j <= Len(data) THEN new[2 * j] ELSE 0)
        BY <1>1, <1>2, <3>1, WordsAre
      <4>2. 2 * j <= Len(data) => new[2 * j] = data[2 * j]
        BY <1>1, <1>2, <3>1
      <4> QED
        BY <1>1, <4>1, <4>2
    <3>4. PICK r \in Int : r = IF 2 * j <= Len(data) THEN data[2 * j] ELSE 0
      BY <1>2, <1>3
    <3>5. (b - data[i]) * ByteMod = b * ByteMod - data[i] * ByteMod
      BY <1>3
    <3> QED
      BY <1>3, <2>1, <3>2, <3>3, <3>4, <3>5 DEF Place
  <2>2. CASE i % 2 # 1
    <3>1. 2 * j = i /\ 2 * j - 1 \in 1 .. Len(data) /\ 2 * j - 1 # i
      BY <1>1, <2>2
    <3>2. Words(data)[j] = data[2 * j - 1] * ByteMod + data[i]
      <4>1. Words(data)[j] =
              data[2 * j - 1] * ByteMod + (IF 2 * j <= Len(data) THEN data[2 * j] ELSE 0)
        BY <1>2, WordsAre
      <4> QED
        BY <3>1, <4>1
    <3>3. Words(new)[j] = data[2 * j - 1] * ByteMod + b
      <4>1. Words(new)[j] =
              new[2 * j - 1] * ByteMod + (IF 2 * j <= Len(data) THEN new[2 * j] ELSE 0)
        BY <1>1, <1>2, WordsAre
      <4> QED
        BY <1>1, <3>1, <4>1
    <3>4. PICK r \in Int : r = data[2 * j - 1] * ByteMod
      BY <1>3, <3>1
    <3>5. Place(i) = 1 /\ (b - data[i]) * 1 = b - data[i]
      BY <1>3, <2>2 DEF Place
    <3> QED
      BY <1>3, <3>2, <3>3, <3>4, <3>5
  <2> QED
    BY <2>1, <2>2
<1>5. Words(new) = [Words(data) EXCEPT ![j] = x]
  <2>1. ASSUME NEW k \in 1 .. Len(Words(data)), k # j PROVE Words(new)[k] = Words(data)[k]
    <3>1. 2 * k - 1 # i /\ 2 * k # i /\ 2 * k - 1 \in 1 .. Len(data) /\ k \in Nat
      BY <1>2, <2>1
    <3>2. Words(data)[k] =
            data[2 * k - 1] * ByteMod + (IF 2 * k <= Len(data) THEN data[2 * k] ELSE 0)
      BY <1>2, WordsAre
    <3>3. Words(new)[k] =
            new[2 * k - 1] * ByteMod + (IF 2 * k <= Len(data) THEN new[2 * k] ELSE 0)
      BY <1>1, <1>2, WordsAre
    <3>4. 2 * k <= Len(data) => new[2 * k] = data[2 * k]
      BY <1>1, <3>1
    <3> QED
      BY <1>1, <3>1, <3>2, <3>3, <3>4
  <2>2. /\ Words(new) \in Seq(Int) /\ Words(data) \in Seq(Int)
        /\ Len(Words(new)) = Len(Words(data))
    BY <1>1, <1>2, WordsAre
  <2> HIDE DEF x, j
  <2> QED
    BY <1>4, <2>1, <2>2
<1>6. x \in Int /\ Words(data)[j] \in Int /\ (b - data[i]) * Place(i) \in Int
  <2>1. Words(data)[j] \in Int
    BY <1>2, WordsAre
  <2>2. (b - data[i]) * Place(i) \in Int
    BY <1>3 DEF Place
  <2> QED
    BY <2>1, <2>2
<1>7. Weight(Words(new)) = Weight(Words(data)) + (x - Words(data)[j])
  <2>1. Words(data) \in Seq(Int) /\ j \in 1 .. Len(Words(data)) /\ x \in Int
    BY <1>2, <1>6, WordsAre
  <2> HIDE DEF x, j
  <2> QED
    BY ONLY <1>5, <2>1, WeightOfChanged
<1>8. x - Words(data)[j] = (b - data[i]) * Place(i)
  BY <1>6
<1> QED
  BY <1>1, <1>7, <1>8 DEF new

\* The sum of words is a number
LEMMA WeightIs ==
    ASSUME NEW words \in Seq(Int)
    PROVE  Weight(words) \in Int
<1>1. Len(words) \in 0 .. Len(words) /\ 0 \in Int
  OBVIOUS
<1> QED
  BY <1>1, TotalsAre DEF Weight

\* One byte changes a sum, and by less than what is congruent to nothing
LEMMA ChangeIs ==
    ASSUME ByteIsReal, NEW a \in Bytes, NEW b \in Bytes, NEW i \in Nat
    PROVE  /\ (b - a) * Place(i) \in Int
           /\ -(WordMod - 1) < (b - a) * Place(i) /\ (b - a) * Place(i) < WordMod - 1
           /\ a # b => (b - a) * Place(i) # 0
<1>1. PICK m \in Nat : m = ByteMod /\ m > 1 /\ WordMod = m * m
  BY DEF ByteIsReal, WordMod
<1>2. PICK e \in Int : e = b - a /\ -m < e /\ e < m /\ (a # b => e # 0)
  BY <1>1 DEF Bytes
<1>3. Place(i) = m \/ Place(i) = 1
  BY <1>1 DEF Place
<1>4. /\ e * m \in Int /\ -(m * m - 1) < e * m /\ e * m < m * m - 1
      /\ e # 0 => e * m # 0
  <2>1. e * m <= (m - 1) * m /\ e * m >= (1 - m) * m
    BY <1>2, <1>1
  <2>2. (m - 1) * m = m * m - m /\ (1 - m) * m = m - m * m /\ m * m \in Int /\ e * m \in Int
    BY <1>1
  <2>3. e # 0 => e * m # 0
    BY <1>1, <1>2
  <2> QED
    BY <1>1, <2>1, <2>2, <2>3
<1>5. -(m * m - 1) < e * 1 /\ e * 1 < m * m - 1 /\ e * 1 = e
  <2>1. m * m >= 2 * m /\ m * m \in Int
    BY <1>1
  <2> QED
    BY <1>1, <1>2, <2>1
<1> QED
  BY <1>1, <1>2, <1>3, <1>4, <1>5

\* What calculateChecksum() makes of a packet (IPv6Packet.cpp:137-152)
LEMMA ChecksumIs ==
    ASSUME ByteIsReal, NEW p, RealPacket(p)
    PROVE  \E c \in 1 .. WordMod - 1 :
             calculateChecksum(p) = WordMod - 1 - c /\ Congruent(c, PacketWeight(p))
<1> DEFINE first == Len(p.payload) + p.protocol
           s == chksum(first, p.source)
           d == chksum(s, p.destination)
           c == chksum(d, p.payload)
           u == Weight(Words(p.source))
           v == Weight(Words(p.destination))
           w == Weight(Words(p.payload))
<1>1. first \in 1 .. WordMod - 1 /\ first \in Nat /\ WordMod \in Nat /\ first % WordMod = first
  <2>1. first \in 1 .. WordMod - 1 /\ WordMod \in Nat
    BY WordModIs DEF RealPacket
  <2> HIDE DEF first
  <2> QED
    BY <2>1
<1>2. calculateChecksum(p) = WordMod - 1 - c
  BY <1>1 DEF calculateChecksum
<1>3. u \in Int /\ v \in Int /\ w \in Int
  <2>1. ASSUME NEW data \in Seq(Bytes) PROVE Weight(Words(data)) \in Int
    <3>1. Words(data) \in Seq(Int) /\ 0 \in Int
      BY WordsAre
    <3>2. Len(Words(data)) \in 0 .. Len(Words(data))
      BY <3>1
    <3> QED
      BY <3>1, <3>2, TotalsAre DEF Weight
  <2> QED
    BY <2>1 DEF RealPacket
<1>4. ASSUME NEW sum \in 1 .. WordMod - 1, NEW data \in Seq(Bytes)
      PROVE  /\ chksum(sum, data) \in 1 .. WordMod - 1
             /\ Congruent(chksum(sum, data), sum + Weight(Words(data)))
  BY WordsAre, SumsAre DEF chksum
<1>5. s \in 1 .. WordMod - 1 /\ Congruent(s, first + u)
  BY <1>1, <1>4 DEF RealPacket
<1> HIDE DEF s
<1>6. d \in 1 .. WordMod - 1 /\ Congruent(d, s + v)
  BY <1>5, <1>4 DEF RealPacket
<1> HIDE DEF d
<1>7. c \in 1 .. WordMod - 1 /\ Congruent(c, d + w)
  BY <1>6, <1>4 DEF RealPacket
<1> HIDE DEF c, u, v, w, first
<1>8. /\ s \in Int /\ d \in Int /\ c \in Int /\ first \in Int /\ u \in Int /\ v \in Int /\ w \in Int
      /\ first + u \in Int /\ s + v \in Int /\ d + w \in Int
      /\ first + u + v \in Int /\ first + u + v + w \in Int /\ s + v + w \in Int
  BY <1>1, <1>3, <1>5, <1>6, <1>7
<1>9. Congruent(s + v, first + u + v)
  BY <1>5, <1>8, CongruentSelf, CongruentSum
<1>10. Congruent(d, first + u + v)
  BY <1>6, <1>8, <1>9, CongruentAlso
<1>11. Congruent(d + w, first + u + v + w)
  BY <1>8, <1>10, CongruentSelf, CongruentSum
<1>12. Congruent(c, first + u + v + w)
  BY <1>7, <1>8, <1>11, CongruentAlso
<1>13. PacketWeight(p) = first + u + v + w
  BY DEF PacketWeight, first, u, v, w
<1> QED
  BY <1>2, <1>7, <1>12, <1>13

\* The sum of a packet is a number
LEMMA PacketWeightIs ==
    ASSUME ByteIsReal, NEW p, RealPacket(p)
    PROVE  PacketWeight(p) \in Int /\ InternetSum(p) = PacketWeight(p)
<1> DEFINE first == Len(p.payload) + p.protocol
           u == Words(p.source)
           v == Words(p.destination)
           w == Words(p.payload)
<1>1. u \in Seq(Int) /\ v \in Seq(Int) /\ w \in Seq(Int) /\ first \in Int
  BY WordsAre DEF RealPacket
<1>2. InternetSum(p) = Totals(first, u \o v \o w)[Len(u \o v \o w)]
  BY DEF InternetSum
<1>3. PacketWeight(p) = first + Weight(u) + Weight(v) + Weight(w)
  BY DEF PacketWeight
<1> HIDE DEF first, u, v, w
<1>4. u \o v \in Seq(Int) /\ u \o v \o w \in Seq(Int)
  BY <1>1
<1>5. InternetSum(p) = first + Weight(u \o v \o w)
  BY <1>1, <1>2, <1>4, TotalsShift
<1>6. Weight(u \o v \o w) = Weight(u \o v) + Weight(w) /\ Weight(u \o v) = Weight(u) + Weight(v)
  BY ONLY <1>1, <1>4, WeightOfBoth
<1>7. ASSUME NEW words \in Seq(Int) PROVE Weight(words) \in Int
  <2>1. Len(words) \in 0 .. Len(words) /\ 0 \in Int
    OBVIOUS
  <2> QED
    BY <2>1, TotalsAre DEF Weight
<1>8. Weight(u) \in Int /\ Weight(v) \in Int /\ Weight(w) \in Int
  BY <1>1, <1>7
<1> QED
  BY <1>1, <1>3, <1>5, <1>6, <1>8

\* A packet is taken for valid if its sum is what receivers expect
LEMMA ValidIs ==
    ASSUME ByteIsReal, NEW p, RealPacket(p)
    PROVE  isValid(p) <=> \E k \in Int : PacketWeight(p) = k * (WordMod - 1)
<1>1. PICK m \in Int : m = WordMod - 1 /\ m > 2
  BY WordModIs
<1>2. PICK c \in 1 .. m : calculateChecksum(p) = m - c /\ Congruent(c, PacketWeight(p))
  BY <1>1, ChecksumIs
<1>3. PICK n \in Int : n = PacketWeight(p)
  BY PacketWeightIs
<1>4. PICK l \in Int : c = n + l * m
  BY <1>1, <1>2, <1>3 DEF Congruent
<1>5. isValid(p) <=> c = m
  <2>1. p.etherType = "IPV6" /\ p.version = 6
    BY DEF RealPacket
  <2> QED
    BY <1>1, <1>2, <2>1 DEF isValid
<1>6. ASSUME c = m PROVE \E k \in Int : n = k * m
  <2>1. 1 - l \in Int /\ n = (1 - l) * m
    BY <1>4, <1>6
  <2> QED
    BY <2>1
<1>7. ASSUME NEW k \in Int, n = k * m PROVE c = m
  <2>1. k + l \in Int /\ c = (k + l) * m
    BY <1>4, <1>7
  <2>2. 0 <= c /\ c < WordMod /\ c # 0 /\ c = (k + l) * (WordMod - 1) /\ c \in Int
    BY <1>1, <2>1, WordModIs
  <2> QED
    BY <1>1, <2>1, <2>2, SmallMultiples
<1> QED
  BY <1>1, <1>3, <1>5, <1>6, <1>7

\* ... and the sum of a valid one is zero to any other receiver
LEMMA ValidSum ==
    ASSUME ByteIsReal, NEW p, RealPacket(p), isValid(p)
    PROVE  InternetSum(p) % (WordMod - 1) = 0
<1>1. PICK m \in Int : m = WordMod - 1 /\ m > 2
  BY WordModIs
<1>2. PICK n \in Int, k \in Int : n = InternetSum(p) /\ n = k * m
  BY <1>1, ValidIs, PacketWeightIs
<1>3. PICK q \in Int, r \in 0 .. m - 1 : r = n % m /\ n = m * q + r
  <2>1. m \in Nat /\ m > 0
    BY <1>1
  <2>2. n \div m \in Int /\ n % m \in 0 .. m - 1 /\ n = m * (n \div m) + (n % m)
    BY ONLY <2>1
  <2> QED
    BY <2>2
<1>4. k - q \in Int /\ r = (k - q) * m
  BY <1>1, <1>2, <1>3
<1>5. r = 0
  <2>1. r \in Int /\ r = (k - q) * (WordMod - 1)
    BY ONLY <1>1, <1>3, <1>4
  <2>2. -(WordMod - 1) < r /\ r < WordMod - 1
    BY ONLY <1>1, <1>3
  <2> QED
    BY <1>4, <2>1, <2>2, SmallMultiples
<1> QED
  BY <1>1, <1>2, <1>3, <1>5

SetPayload(p, i, b) == [p EXCEPT !.payload[i] = b]
SetSource(p, i, b) == [p EXCEPT !.source[i] = b]

\* One byte of the payload is changed
LEMMA PayloadChanged ==
    ASSUME ByteIsReal, NEW p, RealPacket(p), NEW i \in 1 .. Len(p.payload), NEW b \in Bytes
    PROVE  /\ RealPacket(SetPayload(p, i, b))
           /\ SetPayload(p, i, b).payload = [p.payload EXCEPT ![i] = b]
           /\ PacketWeight(SetPayload(p, i, b))
                = PacketWeight(p) + (b - p.payload[i]) * Place(i)
<1> DEFINE new == [p.payload EXCEPT ![i] = b]
           q == [p EXCEPT !.payload = new]
<1>0. SetPayload(p, i, b) = q
  BY DEF SetPayload
<1>2. /\ [p.payload EXCEPT ![i] = b] \in Seq(Bytes)
      /\ Len([p.payload EXCEPT ![i] = b]) = Len(p.payload)
      /\ Weight(Words([p.payload EXCEPT ![i] = b]))
           = Weight(Words(p.payload)) + (b - p.payload[i]) * Place(i)
  BY ByteChanged DEF RealPacket
<1>1. /\ RealPacket(q) /\ q.payload = new /\ q.source = p.source
      /\ q.destination = p.destination /\ q.protocol = p.protocol
  <2> DEFINE P == [etherType : {"IPV6"}, version : {6}, protocol : Nat, source : Seq(Bytes),
                   destination : Seq(Bytes), payload : Seq(Bytes)]
  <2>1. /\ p \in P /\ Len(p.payload) >= 2 /\ Len(p.payload) + p.protocol \in 1 .. WordMod - 1
        /\ new \in Seq(Bytes) /\ Len(new) = Len(p.payload)
    BY <1>2 DEF RealPacket
  <2> HIDE DEF new
  <2>2. /\ q \in P /\ q.payload = new /\ q.source = p.source
        /\ q.destination = p.destination /\ q.protocol = p.protocol
    BY ONLY <2>1
  <2> HIDE DEF q
  <2> QED
    BY <2>1, <2>2 DEF RealPacket
<1> HIDE DEF q
<1>3. RealPacket(q)
  BY <1>1
<1>4. PacketWeight(p) \in Int /\ PacketWeight(q) \in Int
  BY <1>3, PacketWeightIs
<1>5. Weight(Words(p.payload)) \in Int /\ (b - p.payload[i]) * Place(i) \in Int
  <2>1. /\ p.source \in Seq(Bytes) /\ p.destination \in Seq(Bytes) /\ p.payload \in Seq(Bytes)
        /\ p.protocol \in Int /\ Len(p.payload) \in Int
    BY DEF RealPacket
  <2>2. ASSUME NEW data \in Seq(Bytes) PROVE Weight(Words(data)) \in Int
    BY WordsAre, WeightIs
  <2>3. (b - p.payload[i]) * Place(i) \in Int
    <3>1. p.payload[i] \in Bytes /\ i \in Nat
      BY <2>1
    <3> QED
      BY <3>1, ChangeIs
  <2> QED
    BY <2>1, <2>2, <2>3
<1>6. PICK r \in Int : r = Len(p.payload) + p.protocol + Weight(Words(p.source))
                             + Weight(Words(p.destination))
  <2>1. /\ p.source \in Seq(Bytes) /\ p.destination \in Seq(Bytes)
        /\ p.protocol \in Int /\ Len(p.payload) \in Int
    BY DEF RealPacket
  <2>2. ASSUME NEW data \in Seq(Bytes) PROVE Weight(Words(data)) \in Int
    BY WordsAre, WeightIs
  <2> QED
    BY <2>1, <2>2
<1>7. /\ PacketWeight(p) = r + Weight(Words(p.payload))
      /\ PacketWeight(q) = r + (Weight(Words(p.payload)) + (b - p.payload[i]) * Place(i))
  BY <1>1, <1>2, <1>6 DEF PacketWeight
<1>8. PacketWeight(q) = PacketWeight(p) + (b - p.payload[i]) * Place(i)
  <2>1. PICK u \in Int, v \in Int :
           u = Weight(Words(p.payload)) /\ v = (b - p.payload[i]) * Place(i)
    BY <1>5
  <2> QED
    BY <1>6, <1>7, <2>1
<1> QED
  BY <1>0, <1>1, <1>8

\* One byte of the source address is changed
LEMMA SourceChanged ==
    ASSUME ByteIsReal, NEW p, RealPacket(p), NEW i \in 1 .. Len(p.source), NEW b \in Bytes
    PROVE  /\ RealPacket(SetSource(p, i, b))
           /\ PacketWeight(SetSource(p, i, b))
                = PacketWeight(p) + (b - p.source[i]) * Place(i)
<1> DEFINE new == [p.source EXCEPT ![i] = b]
           q == [p EXCEPT !.source = new]
<1>0. SetSource(p, i, b) = q
  BY DEF SetSource
<1>2. /\ [p.source EXCEPT ![i] = b] \in Seq(Bytes)
      /\ Weight(Words([p.source EXCEPT ![i] = b]))
           = Weight(Words(p.source)) + (b - p.source[i]) * Place(i)
  BY ByteChanged DEF RealPacket
<1>1. /\ RealPacket(q) /\ q.source = new /\ q.payload = p.payload
      /\ q.destination = p.destination /\ q.protocol = p.protocol
  <2> DEFINE P == [etherType : {"IPV6"}, version : {6}, protocol : Nat, source : Seq(Bytes),
                   destination : Seq(Bytes), payload : Seq(Bytes)]
  <2>1. /\ p \in P /\ Len(p.payload) >= 2 /\ Len(p.payload) + p.protocol \in 1 .. WordMod - 1
        /\ new \in Seq(Bytes)
    BY <1>2 DEF RealPacket
  <2> HIDE DEF new
  <2>2. /\ q \in P /\ q.source = new /\ q.payload = p.payload
        /\ q.destination = p.destination /\ q.protocol = p.protocol
    BY ONLY <2>1
  <2> HIDE DEF q
  <2> QED
    BY <2>1, <2>2 DEF RealPacket
<1> HIDE DEF q
<1>5. /\ Weight(Words(p.source)) \in Int /\ (b - p.source[i]) * Place(i) \in Int
      /\ Weight(Words(p.destination)) \in Int /\ Weight(Words(p.payload)) \in Int
      /\ Len(p.payload) + p.protocol \in Int
  <2>1. /\ p.source \in Seq(Bytes) /\ p.destination \in Seq(Bytes) /\ p.payload \in Seq(Bytes)
        /\ p.protocol \in Int /\ Len(p.payload) \in Int
    BY DEF RealPacket
  <2>2. ASSUME NEW data \in Seq(Bytes) PROVE Weight(Words(data)) \in Int
    BY WordsAre, WeightIs
  <2>3. (b - p.source[i]) * Place(i) \in Int
    <3>1. p.source[i] \in Bytes /\ i \in Nat
      BY <2>1
    <3> QED
      BY <3>1, ChangeIs
  <2> QED
    BY <2>1, <2>2, <2>3
<1>6. PacketWeight(q) = Len(p.payload) + p.protocol
          + (Weight(Words(p.source)) + (b - p.source[i]) * Place(i))
          + Weight(Words(p.destination)) + Weight(Words(p.payload))
  BY <1>1, <1>2 DEF PacketWeight
<1>7. PacketWeight(q) = PacketWeight(p) + (b - p.source[i]) * Place(i)
  <2>1. PICK t \in Int, u \in Int, v \in Int, w \in Int, x \in Int :
           /\ u = Weight(Words(p.source)) /\ v = Weight(Words(p.destination))
           /\ w = Weight(Words(p.payload)) /\ t = Len(p.payload) + p.protocol
           /\ x = (b - p.source[i]) * Place(i)
    BY <1>5
  <2>2. PacketWeight(p) = t + u + v + w
    BY <2>1 DEF PacketWeight
  <2>3. PacketWeight(q) = t + (u + x) + v + w
    BY <1>6, <2>1
  <2>4. PacketWeight(q) = PacketWeight(p) + x
    BY ONLY <2>2, <2>3
  <2> QED
    BY <2>1, <2>4
<1> QED
  BY <1>0, <1>1, <1>7

\* A valid packet is not valid with one byte changed
LEMMA ChangeIsSeen ==
    ASSUME ByteIsReal, NEW p, RealPacket(p), isValid(p), NEW q, RealPacket(q),
           NEW a \in Bytes, NEW b \in Bytes, a # b, NEW i \in Nat,
           PacketWeight(q) = PacketWeight(p) + (b - a) * Place(i)
    PROVE  ~isValid(q)
<1> SUFFICES ASSUME isValid(q) PROVE FALSE
  OBVIOUS
<1>1. PICK m \in Int : m = WordMod - 1 /\ m > 2
  BY WordModIs
<1>2. PICK n \in Int, k \in Int, l \in Int :
         /\ n = PacketWeight(p) /\ n = k * m /\ n + (b - a) * Place(i) = l * m
  BY <1>1, ValidIs, PacketWeightIs
<1>3. PICK d \in Int : d = (b - a) * Place(i) /\ d # 0 /\ -m < d /\ d < m
  BY <1>1, ChangeIs
<1>4. l - k \in Int /\ d = (l - k) * m
  <2>1. k * m + d = l * m
    BY <1>2, <1>3
  <2> QED
    BY ONLY <2>1
<1> QED
  BY <1>1, <1>3, <1>4, SmallMultiples

\* What senders fill in makes the packet valid
LEMMA FilledIn ==
    ASSUME ByteIsReal, NEW p, RealPacket(p)
    PROVE  RealPacket(WithChecksum(p)) /\ isValid(WithChecksum(p))
<1> DEFINE half == SetPayload(p, 1, 0)
           blank == SetPayload(half, 2, 0)
           sum == calculateChecksum(blank)
           h == sum \div ByteMod
           l == sum % ByteMod
           high == SetPayload(p, 1, h)
           full == SetPayload(high, 2, l)
<1>1. PICK m \in Nat : m = ByteMod /\ m > 1 /\ WordMod = m * m
  BY DEF ByteIsReal, WordMod
<1>2. /\ 0 \in Bytes /\ 1 \in 1 .. Len(p.payload) /\ 2 \in 1 .. Len(p.payload)
      /\ p.payload[1] \in Int /\ p.payload[2] \in Int /\ Len(p.payload) \in Nat
  <2>1. Len(p.payload) \in Nat /\ Len(p.payload) >= 2
    BY DEF RealPacket
  <2>2. \A k \in 1 .. Len(p.payload) : p.payload[k] \in Bytes
    BY DEF RealPacket
  <2>3. Bytes \subseteq Int
    BY <1>1 DEF Bytes
  <2> QED
    BY <1>1, <2>1, <2>2, <2>3 DEF Bytes
<1>3. Place(1) = m /\ Place(2) = 1
  BY <1>1 DEF Place
<1>4. PICK n \in Int : n = PacketWeight(p)
  BY PacketWeightIs
<1>5. /\ RealPacket(half) /\ half.payload = [p.payload EXCEPT ![1] = 0]
      /\ PacketWeight(half) = n - p.payload[1] * m
  <2>1. /\ RealPacket(half) /\ half.payload = [p.payload EXCEPT ![1] = 0]
        /\ PacketWeight(half) = n + (0 - p.payload[1]) * m
    BY <1>2, <1>3, <1>4, PayloadChanged
  <2>2. (0 - p.payload[1]) * m = -(p.payload[1] * m)
    BY <1>1, <1>2
  <2>3. p.payload[1] * m \in Int
    BY <1>1, <1>2
  <2> QED
    BY <1>4, <2>1, <2>2, <2>3
<1>6. RealPacket(blank) /\ PacketWeight(blank) = n - p.payload[1] * m - p.payload[2]
  <2>1. half.payload[2] = p.payload[2] /\ 2 \in 1 .. Len(half.payload)
    BY <1>2, <1>5
  <2> HIDE DEF half
  <2>2. RealPacket(blank) /\ PacketWeight(blank) = PacketWeight(half) + (0 - p.payload[2]) * 1
    <3>1. ByteIsReal /\ RealPacket(half) /\ 0 \in Bytes /\ 2 \in 1 .. Len(half.payload)
      BY <1>2, <1>5, <2>1
    <3>2. PacketWeight(blank) = PacketWeight(half) + (0 - half.payload[2]) * Place(2)
      BY ONLY <3>1, PayloadChanged DEF blank
    <3>3. RealPacket(blank)
      BY ONLY <3>1, PayloadChanged DEF blank
    <3> QED
      BY <1>3, <2>1, <3>2, <3>3
  <2>3. PICK u \in Int, v \in Int : u = p.payload[1] * m /\ v = p.payload[2]
    <3>1. PICK y \in Int, v \in Int : y = p.payload[1] /\ v = p.payload[2]
      BY <1>2
    <3>2. y * m \in Int
      OBVIOUS
    <3> QED
      BY ONLY <3>1, <3>2
  <2>4. PacketWeight(half) = n - u /\ PacketWeight(blank) = PacketWeight(half) + (0 - v) * 1
    BY <1>5, <2>2, <2>3
  <2>5. PacketWeight(blank) = n - u - v
    BY ONLY <1>4, <2>3, <2>4
  <2> QED
    BY <2>2, <2>3, <2>5
<1> HIDE DEF half, blank
<1>7. PICK c \in 1 .. WordMod - 1, k \in Int :
         /\ sum = WordMod - 1 - c
         /\ c = n - p.payload[1] * m - p.payload[2] + k * (WordMod - 1)
  BY <1>6, ChecksumIs DEF Congruent
<1>8. h \in 0 .. m - 1 /\ l \in 0 .. m - 1 /\ sum = h * m + l
  <2>1. sum \in Nat /\ sum < m * m
    BY <1>1, <1>7
  <2>2. /\ sum \div m \in Int /\ sum % m \in 0 .. m - 1
        /\ sum = m * (sum \div m) + (sum % m)
    <3> HIDE DEF sum
    <3> QED
      BY ONLY <1>1, <2>1
  <2> HIDE DEF sum
  <2>3. PICK q \in Int, r \in 0 .. m - 1 : q = h /\ r = l /\ sum = m * q + r
    BY <1>1, <2>2
  <2>4. q >= m => m * q >= m * m
    BY <1>1
  <2>5. q <= -1 => m * q <= -m
    BY <1>1
  <2>6. m * q \in Int /\ m * m \in Int /\ m * q = q * m
    BY <1>1
  <2> QED
    BY <1>1, <2>1, <2>3, <2>4, <2>5, <2>6
<1>9. h \in Bytes /\ l \in Bytes
  BY <1>1, <1>8 DEF Bytes
<1>10. WithChecksum(p) = full
  BY DEF WithChecksum, SetPayload, blank, half
<1> HIDE DEF h, l, sum
<1>11. /\ RealPacket(high) /\ high.payload = [p.payload EXCEPT ![1] = h]
       /\ PacketWeight(high) = n + (h - p.payload[1]) * m
  BY <1>2, <1>3, <1>4, <1>9, PayloadChanged
<1>12. RealPacket(full) /\ PacketWeight(full) = PacketWeight(high) + (l - p.payload[2]) * 1
  <2>1. high.payload[2] = p.payload[2] /\ 2 \in 1 .. Len(high.payload)
    BY <1>2, <1>11
  <2> HIDE DEF high
  <2>2. ByteIsReal /\ RealPacket(high) /\ l \in Bytes /\ 2 \in 1 .. Len(high.payload)
    BY <1>9, <1>11, <2>1
  <2>3. PacketWeight(full) = PacketWeight(high) + (l - high.payload[2]) * Place(2)
    BY ONLY <2>2, PayloadChanged DEF full
  <2>4. RealPacket(full)
    BY ONLY <2>2, PayloadChanged DEF full
  <2> QED
    BY <1>3, <2>1, <2>3, <2>4
<1> HIDE DEF full, high
<1>13. PICK y \in Int, z \in Int, w \in Int :
           y = p.payload[1] /\ z = p.payload[2] /\ w = WordMod - 1
  BY <1>2, WordModIs
<1>14. PacketWeight(full) = (1 - k) * w
  <2>1. h \in Int /\ l \in Int /\ c \in Int /\ m \in Int
    BY <1>8
  <2>2. (h - y) * m = h * m - y * m
    BY <2>1
  <2>3. PacketWeight(full) = n + (h * m - y * m) + (l - z)
    BY <1>8, <1>11, <1>12, <1>13, <2>2
  <2>4. h * m + l = w - c /\ c = n - y * m - z + k * w
    BY <1>7, <1>8, <1>13
  <2>5. y * m \in Int /\ h * m \in Int /\ k * w \in Int
    BY <2>1
  <2>6. (1 - k) * w = w - k * w
    OBVIOUS
  <2> QED
    BY <2>1, <2>3, <2>4, <2>5, <2>6
<1> QED
  BY <1>10, <1>12, <1>13, <1>14, ValidIs

\* What is sent is taken for valid, and is not if one byte of it is changed
LEMMA SendRight == RealPackets /\ SendPacket => ChecksumIsAccepted'
<1> SUFFICES ASSUME RealPackets, SendPacket PROVE ChecksumIsAccepted'
  OBVIOUS
<1>1. PICK packet \in Packets : Calls("send", [packet |-> WithChecksum(packet)])
  BY DEF SendPacket
<1>2. ByteIsReal /\ RealPacket(packet)
  BY DEF RealPackets
<1>3. PICK p : p = WithChecksum(packet) /\ RealPacket(p) /\ isValid(p)
  BY <1>2, FilledIn
<1>4. call'.packet = p
  BY <1>1, <1>3 DEF Calls
<1>5. InternetSum(p) % (WordMod - 1) = 0
  <2>1. PICK n \in Int, m \in Int, k \in Int :
           n = InternetSum(p) /\ m = WordMod - 1 /\ m > 0 /\ n = k * m
    BY <1>2, <1>3, PacketWeightIs, ValidIs, WordModIs
  <2> QED
    BY <2>1
<1>6. ASSUME NEW i \in 1 .. Len(p.payload), NEW b \in Bytes, b # p.payload[i]
      PROVE  ~isValid(SetPayload(p, i, b))
  <2>1. i \in Nat /\ p.payload[i] \in Bytes
    BY <1>3 DEF RealPacket
  <2>2. /\ RealPacket(SetPayload(p, i, b))
        /\ PacketWeight(SetPayload(p, i, b)) = PacketWeight(p) + (b - p.payload[i]) * Place(i)
    BY <1>2, <1>3, PayloadChanged
  <2> QED
    BY <1>2, <1>3, <1>6, <2>1, <2>2, ChangeIsSeen
<1>7. ASSUME NEW i \in 1 .. Len(p.source), NEW b \in Bytes, b # p.source[i]
      PROVE  ~isValid(SetSource(p, i, b))
  <2>1. i \in Nat /\ p.source[i] \in Bytes
    BY <1>3 DEF RealPacket
  <2>2. /\ RealPacket(SetSource(p, i, b))
        /\ PacketWeight(SetSource(p, i, b)) = PacketWeight(p) + (b - p.source[i]) * Place(i)
    BY <1>2, <1>3, SourceChanged
  <2> QED
    BY <1>2, <1>3, <1>7, <2>1, <2>2, ChangeIsSeen
<1> QED
  BY <1>3, <1>4, <1>5, <1>6, <1>7 DEF ChecksumIsAccepted, SetPayload, SetSource, Bytes

-----------------------------------------------------------------------------
(* Requests *)

\* A text matches from a character on, if it fits there and matches from the next one on
\* (HTTPServer.cpp:87-113)
LEMMA MatchFromIs ==
    ASSUME NEW text, NEW pattern, NEW behind, maxlen(text) \in Nat
    PROVE  \A i \in Nat : MatchFrom(text, pattern, behind)[i] =
              IF i > maxlen(text) THEN TRUE
              ELSE IF EndsPath(text[i]) THEN PatternAt(pattern, i, behind) = NUL
              ELSE Fits(text, pattern, i, behind) /\ MatchFrom(text, pattern, behind)[i + 1]
<1> DEFINE N == maxlen(text)
           End(i) == EndsPath(text[i])
           Nul(i) == PatternAt(pattern, i, behind) = NUL
           Fit(i) == Fits(text, pattern, i, behind)
           All(i) == \A k \in i .. N : (\A j \in i .. k - 1 : ~End(j)) =>
                        IF End(k) THEN Nul(k) ELSE Fit(k)
           g == [i \in Nat |-> All(i)]
           F(f) == f = [i \in Nat |-> IF i > N THEN TRUE ELSE IF End(i) THEN Nul(i)
                                      ELSE Fit(i) /\ f[i + 1]]
<1>1. ASSUME NEW i \in Nat
      PROVE  All(i) = IF i > N THEN TRUE ELSE IF End(i) THEN Nul(i) ELSE Fit(i) /\ All(i + 1)
  <2> HIDE DEF End, Nul, Fit
  <2>1. CASE i > N
    <3>1. i .. N = {}
      BY <2>1
    <3> QED
      BY <2>1, <3>1
  <2>2. CASE i <= N /\ End(i)
    <3>1. All(i) => Nul(i)
      <4>1. i \in i .. N /\ i .. i - 1 = {}
        BY <2>2
      <4> QED
        BY <2>2, <4>1
    <3>2. Nul(i) => All(i)
      <4>1. ASSUME Nul(i), NEW k \in i .. N, \A j \in i .. k - 1 : ~End(j)
            PROVE  IF End(k) THEN Nul(k) ELSE Fit(k)
        <5>1. k = i
          BY <2>2, <4>1
        <5> QED
          BY <2>2, <4>1, <5>1
      <4> QED
        BY <4>1
    <3>3. ~(i > N)
      BY <2>2
    <3> QED
      BY <2>2, <3>1, <3>2, <3>3 DEF Nul
  <2>3. CASE i <= N /\ ~End(i)
    <3>1. All(i) => Fit(i)
      <4>1. i \in i .. N /\ i .. i - 1 = {}
        BY <2>3
      <4> QED
        BY <2>3, <4>1
    <3>2. All(i) => All(i + 1)
      <4>1. ASSUME All(i), NEW k \in i + 1 .. N, \A j \in i + 1 .. k - 1 : ~End(j)
            PROVE  IF End(k) THEN Nul(k) ELSE Fit(k)
        <5>1. k \in i .. N /\ \A j \in i .. k - 1 : j = i \/ j \in i + 1 .. k - 1
          BY <4>1
        <5> QED
          BY <2>3, <4>1, <5>1
      <4> QED
        BY <4>1
    <3>3. Fit(i) /\ All(i + 1) => All(i)
      <4>1. ASSUME Fit(i), All(i + 1), NEW k \in i .. N, \A j \in i .. k - 1 : ~End(j)
            PROVE  IF End(k) THEN Nul(k) ELSE Fit(k)
        <5>1. CASE k = i
          BY <2>3, <4>1, <5>1
        <5>2. CASE k # i
          <6>1. k \in i + 1 .. N /\ \A j \in i + 1 .. k - 1 : j \in i .. k - 1
            BY <5>2
          <6> QED
            BY <4>1, <6>1
        <5> QED
          BY <5>1, <5>2
      <4> QED
        BY <4>1
    <3>4. ~(i > N)
      BY <2>3
    <3> QED
      BY <2>3, <3>1, <3>2, <3>3, <3>4
  <2>4. i > N \/ (i <= N /\ End(i)) \/ (i <= N /\ ~End(i))
    OBVIOUS
  <2> HIDE DEF All, N
  <2> QED
    BY <2>1, <2>2, <2>3, <2>4
<1>2. F(g)
  <2> HIDE DEF All, End, Nul, Fit
  <2>1. \A i \in Nat : i + 1 \in Nat
    OBVIOUS
  <2>2. \A i \in Nat : g[i + 1] = All(i + 1)
    BY <2>1
  <2> QED
    BY <1>1, <2>2
<1>3. \E f : F(f)
  <2> HIDE DEF F, g
  <2> QED
    BY <1>2
<1>4. F(MatchFrom(text, pattern, behind))
  BY <1>3, Zenon DEF MatchFrom
<1> DEFINE m == MatchFrom(text, pattern, behind)
<1> HIDE DEF m, End, Nul, Fit
<1>5. \A i \in Nat : m[i] = IF i > N THEN TRUE ELSE IF End(i) THEN Nul(i) ELSE Fit(i) /\ m[i + 1]
  BY <1>4 DEF m
<1> QED
  BY <1>5 DEF m, End, Nul, Fit

\* Up to the end of the path, each character is compared with the pattern
LEMMA MatchPathIs ==
    ASSUME NEW text, NEW pattern, NEW behind, maxlen(text) \in Nat, NEW e \in 1 .. maxlen(text),
           EndsPath(text[e]), \A i \in 1 .. e - 1 : ~EndsPath(text[i])
    PROVE  MatchPath(text, pattern, behind) <=>
              /\ PatternAt(pattern, e, behind) = NUL
              /\ \A i \in 1 .. e - 1 : Fits(text, pattern, i, behind)
<1> DEFINE m == MatchFrom(text, pattern, behind)
           Fit(i) == Fits(text, pattern, i, behind)
           T == {k \in 0 .. e - 1 : m[1] <=> (\A i \in 1 .. k : Fit(i)) /\ m[k + 1]}
<1>0. ASSUME NEW i \in Nat
      PROVE  m[i] = IF i > maxlen(text) THEN TRUE
                    ELSE IF EndsPath(text[i]) THEN PatternAt(pattern, i, behind) = NUL
                    ELSE Fit(i) /\ m[i + 1]
  BY ONLY maxlen(text) \in Nat, MatchFromIs, Zenon
<1> HIDE DEF m, Fit
<1>1. \A i \in 1 .. e - 1 : m[i] <=> Fit(i) /\ m[i + 1]
  <2>1. ASSUME NEW i \in 1 .. e - 1 PROVE m[i] <=> Fit(i) /\ m[i + 1]
    <3>1. i \in Nat /\ ~(i > maxlen(text)) /\ ~EndsPath(text[i])
      OBVIOUS
    <3> QED
      BY <1>0, <3>1
  <2> QED
    BY <2>1
<1>2. m[e] <=> PatternAt(pattern, e, behind) = NUL
  <2>1. e \in Nat /\ ~(e > maxlen(text))
    OBVIOUS
  <2> QED
    BY <1>0, <2>1
<1>3. 0 \in T
  <2>1. 0 \in 0 .. e - 1 /\ 1 .. 0 = {} /\ 0 + 1 = 1
    OBVIOUS
  <2> QED
    BY <2>1
<1>4. ASSUME NEW k \in 1 .. e - 1, k - 1 \in T PROVE k \in T
  <2>1. k - 1 + 1 = k /\ k \in 0 .. e - 1 /\ \A i \in 1 .. k : i = k \/ i \in 1 .. k - 1
    OBVIOUS
  <2>2. \A i \in 1 .. k - 1 : i \in 1 .. k
    OBVIOUS
  <2>3. k \in 1 .. k
    OBVIOUS
  <2>4. m[1] <=> (\A i \in 1 .. k - 1 : Fit(i)) /\ m[k]
    BY <1>4, <2>1
  <2>5. m[k] <=> Fit(k) /\ m[k + 1]
    BY <1>1
  <2>6. m[1] <=> (\A i \in 1 .. k : Fit(i)) /\ m[k + 1]
    BY <2>1, <2>2, <2>3, <2>4, <2>5
  <2> QED
    BY <2>1, <2>6
<1>5. e - 1 \in T
  <2>1. e - 1 \in Nat /\ e - 1 \in 0 .. e - 1
    OBVIOUS
  <2> HIDE DEF T
  <2> QED
    BY <1>3, <1>4, <2>1, AllUpTo
<1>6. e - 1 + 1 = e
  OBVIOUS
<1> QED
  BY <1>2, <1>5, <1>6 DEF MatchPath, m, Fit

\* Where the path of a text ends
LEMMA PathEnds ==
    ASSUME NEW text \in Seq(Nat \ {NUL}), EndOf(text) # {}
    PROVE  \E e \in EndOf(text) :
             /\ e \in 1 .. Len(text) /\ EndsPath(text[e])
             /\ \A i \in 1 .. e - 1 : ~EndsPath(text[i])
             /\ \A k \in EndOf(text) : e <= k
             /\ PathOf(text) \in Seq(Nat \ {NUL}) /\ Len(PathOf(text)) = e - 1
             /\ \A i \in 1 .. e - 1 : PathOf(text)[i] = text[i]
<1> DEFINE ends == EndOf(text)
           first(x) == x \in ends /\ \A k \in ends : x <= k
           e == CHOOSE x \in ends : \A k \in ends : x <= k
<1>1. ends \subseteq 1 .. Len(text) /\ ends \subseteq Nat
  BY DEF EndOf
<1>2. e \in ends /\ \A k \in ends : e <= k
  <2>1. \E x \in ends : \A k \in ends : x <= k
    BY <1>1, LeastNumber
  <2> QED
    BY ONLY <2>1
<1>3. PathOf(text) = SubSeq(text, 1, e - 1)
  BY DEF PathOf
<1> HIDE DEF e
<1>4. e \in 1 .. Len(text) /\ EndsPath(text[e])
  BY <1>1, <1>2 DEF EndOf, EndsPath
<1>5. ASSUME NEW i \in 1 .. e - 1 PROVE ~EndsPath(text[i])
  <2>1. i \in 1 .. Len(text) /\ ~(e <= i)
    BY <1>4
  <2> QED
    BY <1>2, <2>1 DEF EndOf, EndsPath
<1>6. /\ SubSeq(text, 1, e - 1) \in Seq(Nat \ {NUL}) /\ Len(SubSeq(text, 1, e - 1)) = e - 1
      /\ \A i \in 1 .. e - 1 : SubSeq(text, 1, e - 1)[i] = text[i]
  BY <1>4
<1> QED
  BY <1>2, <1>3, <1>4, <1>5, <1>6

\* A path matches a pattern that is as long and begins so, or a longer one if there is a '#'
\* and the place where it ends happens to hold a NUL (HTTPServer.cpp:92-98)
LEMMA PatternMatches ==
    ASSUME NEW text \in Seq(Nat \ {NUL}), NEW pattern \in Seq(Nat \ {NUL}), NEW behind,
           maxlen(text) \in Nat, EndOf(text) \cap 1 .. maxlen(text) # {}
    PROVE  MatchPath(text, pattern, behind) <=>
              /\ \/ Len(PathOf(text)) = Len(pattern)
                 \/ /\ Len(PathOf(text)) > Len(pattern)
                    /\ Hash \in Range(pattern) /\ behind = NUL
              /\ Begins(PathOf(text), pattern)
<1> DEFINE path == PathOf(text)
           hash == Hash \in Range(pattern)
<1>1. PICK e \in EndOf(text) :
         /\ e \in 1 .. Len(text) /\ EndsPath(text[e])
         /\ \A i \in 1 .. e - 1 : ~EndsPath(text[i])
         /\ \A k \in EndOf(text) : e <= k
         /\ path \in Seq(Nat \ {NUL}) /\ Len(path) = e - 1
         /\ \A i \in 1 .. e - 1 : path[i] = text[i]
  BY PathEnds
<1>2. e \in 1 .. maxlen(text)
  BY <1>1
<1>3. MatchPath(text, pattern, behind) <=>
         /\ PatternAt(pattern, e, behind) = NUL
         /\ \A i \in 1 .. e - 1 : Fits(text, pattern, i, behind)
  BY <1>1, <1>2, MatchPathIs
<1>4. PICK n \in Nat : n = Len(pattern) /\ \A i \in 1 .. n : pattern[i] \in Nat \ {NUL}
  OBVIOUS
<1>5. /\ \A i \in 1 .. n : PatternAt(pattern, i, behind) = pattern[i]
      /\ PatternAt(pattern, n + 1, behind) = NUL
      /\ \A i \in Nat : i > n + 1 => PatternAt(pattern, i, behind) = behind
  BY <1>4 DEF PatternAt
<1>6. hash <=> \E k \in 1 .. n : pattern[k] = Hash
  <2>1. DOMAIN pattern = 1 .. n
    BY <1>4
  <2> QED
    BY ONLY <2>1, Zenon DEF Range, hash
<1> HIDE DEF path, hash
<1>7. ASSUME NEW i \in 1 .. n
      PROVE  AllowAny(pattern, i, behind) <=> \E k \in 1 .. i : pattern[k] = Hash
  <2>1. \A k \in 1 .. i : PatternAt(pattern, k, behind) = pattern[k]
    BY <1>4, <1>5
  <2> QED
    BY <2>1 DEF AllowAny
<1>8. e > n => ((\A i \in 1 .. n : Fits(text, pattern, i, behind)) <=> Begins(path, pattern))
  <2>1. ASSUME e > n, NEW i \in 1 .. n
        PROVE  Fits(text, pattern, i, behind) <=>
                  pattern[i] \in {path[i], Query} \/ \E k \in 1 .. i : pattern[k] = Hash
    <3>1. path[i] = text[i] /\ PatternAt(pattern, i, behind) = pattern[i]
      BY <1>1, <1>4, <1>5, <2>1
    <3> QED
      BY <1>7, <3>1 DEF Fits
  <2> QED
    BY <1>4, <2>1 DEF Begins
<1>9. CASE e < n + 1
  <2>1. e \in 1 .. n
    BY <1>1, <1>4, <1>9
  <2>2. PatternAt(pattern, e, behind) # NUL
    BY <1>4, <1>5, <2>1
  <2> QED
    BY <1>1, <1>3, <1>4, <1>9, <2>2 DEF path
<1>10. CASE e = n + 1
  <2>1. PatternAt(pattern, e, behind) = NUL /\ e - 1 = n /\ e > n
    BY <1>4, <1>5, <1>10
  <2>2. Len(path) = Len(pattern) /\ ~(Len(path) > Len(pattern))
    BY <1>1, <1>4, <2>1
  <2> QED
    BY <1>3, <1>8, <2>1, <2>2 DEF path
<1>11. CASE e > n + 1
  <2>0. e \in Nat /\ Len(text) \in Nat /\ e <= Len(text)
    BY <1>1
  <2>1. /\ PatternAt(pattern, e, behind) = behind /\ e > n
        /\ Len(path) # Len(pattern) /\ Len(path) > Len(pattern)
    <3>1. e > n /\ e - 1 # n /\ e - 1 > n
      BY ONLY <2>0, <1>4, <1>11
    <3>2. PatternAt(pattern, e, behind) = behind
      BY ONLY <2>0, <1>5, <1>11
    <3>3. Len(path) = e - 1 /\ Len(pattern) = n
      BY <1>1, <1>4
    <3> QED
      BY ONLY <3>1, <3>2, <3>3
  <2>2. n + 1 \in 1 .. e - 1 /\ n + 1 \in 1 .. Len(text)
    BY ONLY <2>0, <1>4, <1>11
  <2>3. CASE hash
    <3>1. PICK h \in 1 .. n : pattern[h] = Hash
      BY <1>6, <2>3
    <3>2. ASSUME NEW i \in 1 .. e - 1, i \notin 1 .. n PROVE Fits(text, pattern, i, behind)
      <4>1. h \in 1 .. i /\ PatternAt(pattern, h, behind) = Hash
        BY <1>1, <1>4, <1>5, <3>1, <3>2
      <4> QED
        BY <4>1 DEF Fits, AllowAny
    <3>3. \A i \in 1 .. n : i \in 1 .. e - 1
      BY <1>1, <1>4, <1>11
    <3>4. (\A i \in 1 .. e - 1 : Fits(text, pattern, i, behind)) <=> Begins(path, pattern)
      BY <1>8, <2>1, <3>2, <3>3
    <3> QED
      BY <1>3, <2>1, <2>3, <3>4 DEF path, hash
  <2>4. CASE ~hash
    <3>1. text[n + 1] \in Nat \ {NUL}
      BY <2>2
    <3>2. ~AllowAny(pattern, n + 1, behind)
      <4>1. ASSUME NEW k \in 1 .. n + 1 PROVE PatternAt(pattern, k, behind) # Hash
        <5>1. k \in 1 .. n \/ k = n + 1
          BY <1>4
        <5> QED
          BY <1>5, <1>6, <2>4, <5>1 DEF Hash, NUL
      <4> QED
        BY <4>1 DEF AllowAny
    <3>3. ~Fits(text, pattern, n + 1, behind)
      BY <1>5, <3>1, <3>2 DEF Fits, NUL, Query
    <3> QED
      BY <1>3, <2>1, <2>2, <2>4, <3>3 DEF path, hash
  <2> QED
    BY <2>3, <2>4
<1> QED
  BY <1>1, <1>4, <1>9, <1>10, <1>11

\* The body is behind the first short line (HTTPServer.cpp:118)
LEMMA BodyIs ==
    ASSUME NEW text \in Seq(Nat \ {NUL})
    PROVE  LET ends == ShortLineEnds(text) \cap 1 .. Len(text) - 1
           IN  BodyStart(text) = IF ends = {} THEN NULL ELSE 1 + Min(ends)
<1> DEFINE newLine(i) == i > 0 /\ text[i] = NewLine
           found == {i \in 1 .. Len(text) - 1 : newLine(i) /\ (newLine(i - 2) \/ newLine(i - 1))}
           ends == ShortLineEnds(text) \cap 1 .. Len(text) - 1
<1>1. BodyStart(text) = IF found = {} THEN NULL
                        ELSE 1 + CHOOSE x \in found : \A k \in found : x <= k
  BY DEF BodyStart
<1>2. Len(text) \in Nat
  OBVIOUS
<1>3. ASSUME NEW i \in found PROVE i \in ends
  <2>1. i \in 1 .. Len(text) /\ i \in 1 .. Len(text) - 1 /\ text[i] = NewLine
    BY <1>2
  <2>2. CASE newLine(i - 1)
    <3>1. i - 1 \in 1 .. i - 1 /\ i - (i - 1) - 1 <= 1 /\ (i - 1) + 1 .. i - 1 = {}
      BY <2>1, <2>2
    <3> QED
      BY <2>1, <2>2, <3>1 DEF ShortLineEnds
  <2>3. CASE newLine(i - 2) /\ ~newLine(i - 1)
    <3>1. /\ i - 2 \in 1 .. i - 1 /\ i - (i - 2) - 1 <= 1
          /\ \A k \in (i - 2) + 1 .. i - 1 : k = i - 1
      BY <2>1, <2>3
    <3>2. i - 1 > 0
      BY <2>1, <2>3
    <3>3. text[i - 1] # NewLine
      BY ONLY <2>3, <3>2
    <3> QED
      BY <2>1, <2>3, <3>1, <3>3 DEF ShortLineEnds
  <2> QED
    BY <2>2, <2>3
<1>4. ASSUME NEW i \in ends PROVE i \in found
  <2>1. i \in 1 .. Len(text) - 1 /\ text[i] = NewLine
    BY DEF ShortLineEnds
  <2>2. PICK j \in 1 .. i - 1 : text[j] = NewLine /\ i - j - 1 <= 1
    BY DEF ShortLineEnds
  <2>3. (j = i - 1 \/ j = i - 2) /\ j > 0 /\ i > 0
    BY <2>1, <2>2
  <2>4. newLine(i) /\ newLine(j)
    BY <2>1, <2>2, <2>3
  <2>5. newLine(i) /\ (newLine(i - 2) \/ newLine(i - 1))
    BY ONLY <2>3, <2>4, Zenon
  <2> QED
    BY ONLY <2>1, <2>5
<1>5. found = ends
  <2> HIDE DEF found, ends
  <2> QED
    BY <1>3, <1>4
<1> HIDE DEF found, ends
<1>6. BodyStart(text) = IF ends = {} THEN NULL ELSE 1 + Min(ends)
  BY <1>1, <1>5 DEF Min
<1> QED
  BY <1>6 DEF ends

\* A request that is looked at is matched as its path and its pattern say
LEMMA RequestRight == RealRequests /\ CheckRequest => RequestIsMatched'
<1> SUFFICES ASSUME RealRequests, CheckRequest PROVE RequestIsMatched'
  OBVIOUS
<1>1. PICK text \in RequestTexts, pattern \in Patterns, behind \in {NUL, Space, Hash} :
         Calls("request", [text |-> text, pattern |-> pattern, behind |-> behind,
                           matched |-> MatchPath(text, pattern, behind),
                           body |-> BodyStart(text)])
  BY DEF CheckRequest
<1>2. text \in Seq(Nat \ {NUL}) /\ pattern \in Seq(Nat \ {NUL}) /\ maxlen(text) \in Nat
  BY DEF RealRequests, maxlen
<1>3. /\ call'.text = text /\ call'.pattern = pattern /\ call'.behind = behind
      /\ call'.matched = MatchPath(text, pattern, behind) /\ call'.body = BodyStart(text)
  BY <1>1 DEF Calls
<1>4. EndOf(text) \cap 1 .. maxlen(text) # {} =>
         (MatchPath(text, pattern, behind) <=>
            /\ \/ Len(PathOf(text)) = Len(pattern)
               \/ /\ Len(PathOf(text)) > Len(pattern)
                  /\ Hash \in Range(pattern) /\ behind = NUL
            /\ Begins(PathOf(text), pattern))
  BY <1>2, PatternMatches
<1>5. LET ends == ShortLineEnds(text) \cap 1 .. Len(text) - 1
      IN  BodyStart(text) = IF ends = {} THEN NULL ELSE 1 + Min(ends)
  BY <1>2, BodyIs
<1> QED
  BY <1>3, <1>4, <1>5 DEF RequestIsMatched

-----------------------------------------------------------------------------
(* Printed texts *)

\* A socket after each of the characters
LEMMA SocketWritesIs ==
    ASSUME NEW text, Len(text) \in Nat
    PROVE  SocketWrites(text) = [i \in 0 .. Len(text) |->
              IF i = 0 THEN Fresh ELSE SocketWrite(SocketWrites(text)[i - 1], text[i])]
<1> DEFINE F(f, k) == f = [i \in 0 .. k |-> IF i = 0 THEN Fresh ELSE SocketWrite(f[i - 1], text[i])]
           T == {k \in 0 .. Len(text) : \E f : F(f, k)}
<1>1. 0 \in T
  <2>1. F([i \in 0 .. 0 |-> Fresh], 0)
    OBVIOUS
  <2>2. \E f : F(f, 0)
    BY <2>1
  <2> HIDE DEF F
  <2> QED
    BY <2>2
<1>2. ASSUME NEW k \in 1 .. Len(text), k - 1 \in T PROVE k \in T
  <2> HIDE DEF F
  <2>1. PICK f : F(f, k - 1)
    BY <1>2
  <2> DEFINE g == [i \in 0 .. k |-> IF i = k THEN SocketWrite(f[k - 1], text[k]) ELSE f[i]]
  <2>2. F(g, k)
    <3>1. \A i \in 0 .. k : g[i] = IF i = 0 THEN Fresh ELSE SocketWrite(g[i - 1], text[i])
      BY <2>1 DEF F
    <3> QED
      BY <3>1 DEF F
  <2> HIDE DEF g
  <2> QED
    BY <2>2
<1> HIDE DEF T
<1>3. 0 .. Len(text) \subseteq T
  BY <1>1, <1>2, AllUpTo
<1>4. \E f : F(f, Len(text))
  BY <1>3 DEF T
<1> QED
  BY <1>4, Zenon DEF SocketWrites

\* ... and a Syslog
LEMMA SyslogWritesIs ==
    ASSUME NEW text, Len(text) \in Nat
    PROVE  SyslogWrites(text) = [i \in 0 .. Len(text) |->
              IF i = 0 THEN Fresh ELSE SyslogWrite(SyslogWrites(text)[i - 1], text[i])]
<1> DEFINE F(f, k) == f = [i \in 0 .. k |-> IF i = 0 THEN Fresh ELSE SyslogWrite(f[i - 1], text[i])]
           T == {k \in 0 .. Len(text) : \E f : F(f, k)}
<1>1. 0 \in T
  <2>1. F([i \in 0 .. 0 |-> Fresh], 0)
    OBVIOUS
  <2>2. \E f : F(f, 0)
    BY <2>1
  <2> HIDE DEF F
  <2> QED
    BY <2>2
<1>2. ASSUME NEW k \in 1 .. Len(text), k - 1 \in T PROVE k \in T
  <2> HIDE DEF F
  <2>1. PICK f : F(f, k - 1)
    BY <1>2
  <2> DEFINE g == [i \in 0 .. k |-> IF i = k THEN SyslogWrite(f[k - 1], text[k]) ELSE f[i]]
  <2>2. F(g, k)
    <3>1. \A i \in 0 .. k : g[i] = IF i = 0 THEN Fresh ELSE SyslogWrite(g[i - 1], text[i])
      BY <2>1 DEF F
    <3> QED
      BY <3>1 DEF F
  <2> HIDE DEF g
  <2> QED
    BY <2>2
<1> HIDE DEF T
<1>3. 0 .. Len(text) \subseteq T
  BY <1>1, <1>2, AllUpTo
<1>4. \E f : F(f, Len(text))
  BY <1>3 DEF T
<1> QED
  BY <1>4, Zenon DEF SyslogWrites

States == [_writePos : Int, payload : Seq(Nat), sent : Seq(Seq(Nat)), overrun : Nat]

\* A character that is written
LEMMA Puts ==
    ASSUME NEW s \in States, NEW c \in Nat
    PROVE  /\ Put(s, c) \in States /\ Put(s, c)._writePos = s._writePos + 1
           /\ Put(s, c).payload = IF s._writePos = -1 THEN <<>> ELSE Append(s.payload, c)
           /\ Put(s, c).sent = s.sent
           /\ Put(s, c).overrun > 0 <=> s.overrun > 0 \/ s._writePos >= PayloadSize
<1>1. /\ s._writePos \in Int /\ s.payload \in Seq(Nat) /\ s.sent \in Seq(Seq(Nat))
      /\ s.overrun \in Nat
  BY DEF States
<1>2. (IF s._writePos = -1 THEN <<>> ELSE Append(s.payload, c)) \in Seq(Nat)
  BY <1>1
<1>3. PICK o \in Nat : /\ o = IF s._writePos >= PayloadSize THEN s.overrun + 1 ELSE s.overrun
                       /\ o > 0 <=> s.overrun > 0 \/ s._writePos >= PayloadSize
  BY <1>1
<1>4. Put(s, c) = [_writePos |-> s._writePos + 1, sent |-> s.sent,
                   payload |-> IF s._writePos = -1 THEN <<>> ELSE Append(s.payload, c),
                   overrun |-> o]
  BY ONLY <1>3, Zenon DEF Put
<1>5. /\ Put(s, c) \in States /\ Put(s, c)._writePos = s._writePos + 1
      /\ Put(s, c).payload = IF s._writePos = -1 THEN <<>> ELSE Append(s.payload, c)
      /\ Put(s, c).sent = s.sent /\ Put(s, c).overrun = o
  BY ONLY <1>1, <1>2, <1>4, o \in Nat DEF States
<1> QED
  BY ONLY <1>3, <1>5

\* ... at the beginning of a packet
LEMMA FirstPut ==
    ASSUME NEW s \in States
    PROVE  LET t == [s EXCEPT !._writePos = 0]
           IN  /\ t \in States /\ t._writePos = 0 /\ t.payload = s.payload /\ t.sent = s.sent
               /\ t.overrun = s.overrun
<1> DEFINE t == [s EXCEPT !._writePos = 0]
<1>1. PICK w \in Int, p \in Seq(Nat), q \in Seq(Seq(Nat)), o \in Nat :
         s = [_writePos |-> w, payload |-> p, sent |-> q, overrun |-> o]
  BY DEF States
<1>2. t = [_writePos |-> 0, payload |-> p, sent |-> q, overrun |-> o]
  BY <1>1
<1>3. 0 \in Int
  OBVIOUS
<1> QED
  BY <1>1, <1>2, <1>3 DEF States

\* A socket holds all characters, if the first is no line break (Socket.cpp: write())
LEMMA SocketHolds ==
    ASSUME NEW text \in Seq(Nat), text[1] \notin LineBreaks, NEW i \in 1 .. Len(text),
           PayloadSize \in Nat
    PROVE  LET s == SocketWrites(text)[i]
           IN  /\ s \in States /\ s._writePos = i /\ s.sent = <<>>
               /\ s.payload = SubSeq(text, 1, i)
               /\ s.overrun > 0 <=> i > PayloadSize
<1> DEFINE s == SocketWrites(text)
           Is(k) == /\ s[k] \in States /\ s[k]._writePos = k /\ s[k].sent = <<>>
                    /\ s[k].payload = SubSeq(text, 1, k)
                    /\ s[k].overrun > 0 <=> k > PayloadSize
           T == {k \in 0 .. Len(text) : k > 0 => Is(k)}
<1>1. Len(text) \in Nat
  OBVIOUS
<1>2. /\ s[0] = Fresh
      /\ \A k \in 1 .. Len(text) : s[k] = SocketWrite(s[k - 1], text[k])
  BY <1>1, SocketWritesIs
<1> HIDE DEF s
<1>3. 0 \in T
  BY <1>1
<1>4. ASSUME NEW k \in 1 .. Len(text), k - 1 \in T PROVE k \in T
  <2>1. k \in 0 .. Len(text) /\ text[k] \in Nat /\ s[k] = SocketWrite(s[k - 1], text[k])
    BY <1>1, <1>2
  <2>2. CASE k = 1
    <3>1. /\ Fresh \in States /\ Fresh._writePos = -1 /\ Fresh.payload = <<>>
          /\ Fresh.sent = <<>> /\ Fresh.overrun = 0
      BY DEF Fresh, States
    <3>2. s[1] = SocketWrite(Fresh, text[1])
      BY <1>2, <2>1, <2>2
    <3> HIDE DEF T
    <3> DEFINE t == [Fresh EXCEPT !._writePos = 0]
    <3>3. t \in States /\ t._writePos = 0 /\ t.payload = <<>> /\ t.sent = <<>> /\ t.overrun = 0
      BY <3>1, FirstPut
    <3>4. s[1] = Put(t, text[1])
      BY <3>1, <3>2 DEF SocketWrite
    <3> HIDE DEF t
    <3>5. /\ s[1] \in States /\ s[1]._writePos = 1 /\ s[1].payload = Append(<<>>, text[1])
          /\ s[1].sent = <<>> /\ (s[1].overrun > 0 <=> 1 > PayloadSize)
      <4>1. t \in States /\ text[1] \in Nat /\ 0 # -1 /\ 0 + 1 = 1
        BY <2>1, <2>2, <3>3
      <4>2. /\ Put(t, text[1]) \in States /\ Put(t, text[1])._writePos = t._writePos + 1
            /\ Put(t, text[1]).sent = t.sent
            /\ t._writePos # -1 => Put(t, text[1]).payload = Append(t.payload, text[1])
            /\ Put(t, text[1]).overrun > 0 <=> t.overrun > 0 \/ t._writePos >= PayloadSize
        BY ONLY <4>1, Puts
      <4>3. 0 >= PayloadSize <=> 1 > PayloadSize
        OBVIOUS
      <4> QED
        BY ONLY <3>3, <3>4, <4>1, <4>2, <4>3
    <3>6. SubSeq(text, 1, 1) = Append(<<>>, text[1])
      <4>1. Append(SubSeq(text, 1, 0), text[1]) = SubSeq(text, 1, 1)
        BY <2>2
      <4>2. SubSeq(text, 1, 0) = <<>>
        OBVIOUS
      <4> QED
        BY <4>1, <4>2
    <3> QED
      BY <2>1, <2>2, <3>5, <3>6 DEF T
  <2>3. CASE k > 1
    <3>1. Is(k - 1) /\ k - 1 \in Nat
      BY <1>1, <1>4, <2>3
    <3>2. s[k] = Put(s[k - 1], text[k])
      BY <2>1, <3>1 DEF SocketWrite
    <3>3. /\ s[k] \in States /\ s[k]._writePos = k - 1 + 1 /\ s[k].sent = <<>>
          /\ s[k].payload = Append(SubSeq(text, 1, k - 1), text[k])
          /\ s[k].overrun > 0 <=> k - 1 > PayloadSize \/ k - 1 >= PayloadSize
      <4>1. /\ s[k - 1] \in States /\ text[k] \in Nat
            /\ s[k - 1]._writePos = k - 1 /\ s[k - 1].sent = <<>>
            /\ s[k - 1].payload = SubSeq(text, 1, k - 1)
            /\ s[k - 1].overrun > 0 <=> k - 1 > PayloadSize
        BY <2>1, <3>1
      <4>2. k - 1 # -1
        BY <3>1
      <4> QED
        BY ONLY <3>2, <4>1, <4>2, Puts
    <3>4. Append(SubSeq(text, 1, k - 1), text[k]) = SubSeq(text, 1, k)
      BY <1>1, <2>3
    <3>5. k - 1 + 1 = k /\ (k - 1 > PayloadSize \/ k - 1 >= PayloadSize <=> k > PayloadSize)
      BY <1>1
    <3> QED
      BY <2>1, <3>3, <3>4, <3>5
  <2> QED
    BY <2>2, <2>3
<1>5. i \in T
  <2>1. i \in 0 .. Len(text)
    OBVIOUS
  <2> HIDE DEF T
  <2> QED
    BY <1>1, <1>3, <1>4, <2>1, AllUpTo
<1> QED
  BY <1>5 DEF s

\* What a socket sends of a text
LEMMA SocketSends ==
    ASSUME NEW text \in Seq(Nat), text = <<>> \/ text[1] \notin LineBreaks, PayloadSize \in Nat
    PROVE  /\ SocketPrint(text).overrun > 0 <=> Len(text) > PayloadSize
           /\ SocketPrint(text).sent = IF text = <<>> THEN <<>> ELSE <<text>>
<1> DEFINE s == SocketWrites(text)[Len(text)]
<1>1. SocketPrint(text) = SocketSend(s)
  BY DEF SocketPrint
<1>2. CASE text = <<>>
  <2>1. s = Fresh
    BY <1>2, SocketWritesIs
  <2>2. SocketPrint(text).sent = <<>> /\ SocketPrint(text).overrun = 0
    BY <1>1, <2>1 DEF SocketSend, Fresh
  <2> QED
    BY <1>2, <2>2
<1>3. CASE text # <<>>
  <2>1. Len(text) \in 1 .. Len(text)
    BY <1>3
  <2>2. /\ s \in States /\ s._writePos = Len(text) /\ s.sent = <<>>
        /\ s.payload = SubSeq(text, 1, Len(text)) /\ (s.overrun > 0 <=> Len(text) > PayloadSize)
    BY <1>3, <2>1, SocketHolds
  <2>3. SubSeq(text, 1, Len(text)) = text /\ Append(<<>>, text) = <<text>>
    OBVIOUS
  <2> HIDE DEF s
  <2>4. s._writePos > 0 /\ s.sent = <<>> /\ s.payload = text
    BY <2>1, <2>2, <2>3
  <2>5. SocketPrint(text).sent = Append(<<>>, text) /\ SocketPrint(text).overrun = s.overrun
    BY ONLY <1>1, <2>4 DEF SocketSend, SendText
  <2> QED
    BY <1>3, <2>2, <2>3, <2>5
<1> QED
  BY <1>2, <1>3

\* A line break sends what is there (Syslog.cpp: handleWriteNewline())
LEMMA NewLines ==
    ASSUME NEW s \in States, s._writePos # -1 => s._writePos > 0
    PROVE  /\ SyslogNewLine(s) \in States
           /\ s._writePos = -1 => SyslogNewLine(s) = s
           /\ s._writePos > 0 =>
                /\ SyslogNewLine(s)._writePos = -1 /\ SyslogNewLine(s).payload = <<>>
                /\ SyslogNewLine(s).sent = Append(s.sent, Append(s.payload, Terminator))
                /\ SyslogNewLine(s).overrun > 0 <=> s.overrun > 0 \/ s._writePos >= PayloadSize
<1> DEFINE t == Put(s, Terminator)
<1>1. Terminator \in Nat
  BY DEF Terminator
<1>2. /\ t \in States /\ t.sent = s.sent
      /\ s._writePos # -1 => t.payload = Append(s.payload, Terminator)
      /\ t.overrun > 0 <=> s.overrun > 0 \/ s._writePos >= PayloadSize
  BY <1>1, Puts
<1> HIDE DEF t
<1>3. CASE s._writePos = -1
  <2>1. SyslogNewLine(s) = s
    BY <1>3 DEF SyslogNewLine
  <2> QED
    BY <1>3, <2>1
<1>4. CASE s._writePos > 0
  <2>1. SyslogNewLine(s) = [_writePos |-> -1, payload |-> <<>>, sent |-> Append(t.sent, t.payload),
                            overrun |-> t.overrun]
    BY <1>4 DEF SyslogNewLine, SendText, t
  <2>2. /\ Append(t.sent, t.payload) \in Seq(Seq(Nat)) /\ -1 \in Int /\ s._writePos # -1
        /\ t.overrun \in Nat
    BY <1>2, <1>4 DEF States
  <2>3. SyslogNewLine(s) \in States
    BY <2>1, <2>2 DEF States
  <2>4. /\ SyslogNewLine(s)._writePos = -1 /\ SyslogNewLine(s).payload = <<>>
        /\ SyslogNewLine(s).sent = Append(t.sent, t.payload)
        /\ SyslogNewLine(s).overrun = t.overrun
    BY ONLY <2>1
  <2>5. s._writePos # -1
    BY <2>2
  <2> QED
    BY ONLY <1>2, <2>3, <2>4, <2>5
<1> QED
  BY <1>3, <1>4

\* Another character is put in the packet, the first behind a header (Syslog.cpp: write())
LEMMA SyslogPuts ==
    ASSUME NEW s \in States, NEW c \in Nat, c \notin LineBreaks,
           s._writePos = -1 => s.payload = <<>>, s._writePos # -1 => s._writePos > 0,
           PayloadSize \in Nat
    PROVE  LET t == SyslogWrite(s, c)
           IN  /\ t \in States /\ t._writePos > 0 /\ t.sent = s.sent
               /\ s._writePos = -1 =>
                    /\ t.payload = Append(<<Header>>, c) /\ t._writePos = 2
                    /\ t.overrun > 0 <=> s.overrun > 0 \/ 1 >= PayloadSize
               /\ s._writePos # -1 =>
                    /\ t.payload = Append(s.payload, c) /\ t._writePos = s._writePos + 1
                    /\ t.overrun > 0 <=> s.overrun > 0 \/ s._writePos >= PayloadSize
<1>1. CASE s._writePos = -1
  <2> DEFINE t == [s EXCEPT !._writePos = 0]
             u == Put(t, Header)
             v == Put(u, c)
  <2>1. /\ t \in States /\ t._writePos = 0 /\ t.payload = <<>> /\ t.sent = s.sent
        /\ t.overrun = s.overrun
    BY <1>1, FirstPut
  <2>2. SyslogWrite(s, c) = v
    BY <1>1 DEF SyslogWrite
  <2> HIDE DEF t
  <2>3. Header \in Nat
    BY DEF Header
  <2>4. /\ u \in States /\ u._writePos = t._writePos + 1 /\ u.sent = t.sent
        /\ t._writePos # -1 => u.payload = Append(t.payload, Header)
        /\ u.overrun > 0 <=> t.overrun > 0 \/ t._writePos >= PayloadSize
    BY ONLY <2>1, <2>3, Puts
  <2> HIDE DEF u
  <2>5. /\ v \in States /\ v._writePos = u._writePos + 1 /\ v.sent = u.sent
        /\ u._writePos # -1 => v.payload = Append(u.payload, c)
        /\ v.overrun > 0 <=> u.overrun > 0 \/ u._writePos >= PayloadSize
    BY ONLY <2>4, c \in Nat, Puts
  <2> HIDE DEF v
  <2>6. u._writePos = 1 /\ u.payload = Append(<<>>, Header) /\ v._writePos = 2
    BY ONLY <2>1, <2>4, <2>5
  <2>7. Append(<<>>, Header) = <<Header>>
    BY <2>3
  <2>8. v.overrun > 0 <=> s.overrun > 0 \/ 1 >= PayloadSize
    <3>1. 0 >= PayloadSize => 1 >= PayloadSize
      OBVIOUS
    <3> QED
      BY ONLY <2>1, <2>4, <2>5, <2>6, <3>1
  <2> QED
    BY <1>1, <2>1, <2>2, <2>4, <2>5, <2>6, <2>7, <2>8
<1>2. CASE s._writePos > 0
  <2> DEFINE v == Put(s, c)
  <2>1. SyslogWrite(s, c) = v /\ s._writePos # -1
    BY <1>2 DEF SyslogWrite
  <2>2. /\ v \in States /\ v._writePos = s._writePos + 1 /\ v.sent = s.sent
        /\ s._writePos # -1 => v.payload = Append(s.payload, c)
        /\ v.overrun > 0 <=> s.overrun > 0 \/ s._writePos >= PayloadSize
    BY Puts
  <2> HIDE DEF v
  <2>3. v._writePos > 0
    BY <1>2, <2>2 DEF States
  <2> QED
    BY <2>1, <2>2, <2>3
<1> QED
  BY <1>1, <1>2

\* The lines of a text that have an end among the first characters
Done(text, i) == {b \in LineStarts(text) : \E k \in b .. i : text[k] \in LineBreaks}

Packet(text, b) == <<Header>> \o Line(text, b) \o <<Terminator>>

\* The packets of these lines, in order
Sent(packets, text, i) ==
    \E starts \in [1 .. Len(packets) -> Done(text, i)] :
        /\ Range(starts) = Done(text, i)
        /\ \A m, n \in 1 .. Len(packets) : m < n => starts[m] < starts[n]
        /\ \A n \in 1 .. Len(packets) : packets[n] = Packet(text, starts[n])

\* The line that is being written
Begun(text, i, b) ==
    b \in LineStarts(text) /\ b <= i /\ \A k \in b .. i : text[k] \notin LineBreaks

\* Whether the first characters fit
FitTo(text, n) ==
    \A d \in LineStarts(text) : \A k \in d .. n :
        (\A j \in d .. k - 1 : text[j] \notin LineBreaks) => k - d + 2 <= PayloadSize

\* One more, where no line has begun
LEMMA FitsFirst ==
    ASSUME NEW text \in Seq(Nat), NEW i \in 0 .. Len(text) - 1, i > 0 => text[i] \in LineBreaks,
           PayloadSize \in Nat
    PROVE  FitTo(text, i + 1) <=>
             FitTo(text, i) /\ (text[i + 1] \notin LineBreaks => 2 <= PayloadSize)
<1>1. /\ LineStarts(text) \subseteq 1 .. Len(text) /\ Len(text) \in Nat /\ i + 1 \in 1 .. Len(text)
      /\ \A d \in LineStarts(text) : text[d] \notin LineBreaks
  BY DEF LineStarts
<1>2. text[i + 1] \notin LineBreaks => i + 1 \in LineStarts(text)
  <2>1. i + 1 > 1 => i > 0 /\ i + 1 - 1 = i
    BY <1>1
  <2> QED
    BY <1>1, <2>1 DEF LineStarts
<1>3. ASSUME FitTo(text, i + 1), NEW d \in LineStarts(text), NEW k \in d .. i,
             \A j \in d .. k - 1 : text[j] \notin LineBreaks
      PROVE  k - d + 2 <= PayloadSize
  <2>1. k \in d .. i + 1
    BY <1>1, <1>3
  <2> QED
    BY <1>3, <2>1 DEF FitTo
<1>4. ASSUME FitTo(text, i + 1), text[i + 1] \notin LineBreaks PROVE 2 <= PayloadSize
  <2>1. /\ i + 1 \in i + 1 .. i + 1 /\ i + 1 .. (i + 1) - 1 = {} /\ (i + 1) - (i + 1) + 2 = 2
    BY <1>1
  <2>2. (i + 1) - (i + 1) + 2 <= PayloadSize
    BY <1>2, <1>4, <2>1 DEF FitTo
  <2> QED
    BY ONLY <2>1, <2>2
<1>5. ASSUME FitTo(text, i), text[i + 1] \notin LineBreaks => 2 <= PayloadSize,
             NEW d \in LineStarts(text), NEW k \in d .. i + 1,
             \A j \in d .. k - 1 : text[j] \notin LineBreaks
      PROVE  k - d + 2 <= PayloadSize
  <2>1. d \in 1 .. Len(text) /\ text[d] \notin LineBreaks
    BY <1>1
  <2>2. CASE k \in d .. i
    BY <1>5, <2>2 DEF FitTo
  <2>3. CASE k = i + 1
    <3>1. ASSUME d # i + 1 PROVE FALSE
      <4>1. i > 0 /\ i \in d .. k - 1
        BY <1>1, <2>1, <2>3, <3>1
      <4> QED
        BY <1>5, <4>1
    <3>2. d = i + 1
      BY <3>1
    <3>3. 2 <= PayloadSize
      BY <1>5, <2>1, <3>2
    <3>4. k - d + 2 = 2
      BY <2>1, <2>3, <3>2
    <3> QED
      BY ONLY <3>3, <3>4
  <2> QED
    BY <1>1, <2>1, <2>2, <2>3
<1> QED
  BY <1>3, <1>4, <1>5 DEF FitTo

\* ... and in a line that has
LEMMA FitsMore ==
    ASSUME NEW text \in Seq(Nat), NEW i \in 0 .. Len(text) - 1, NEW b, Begun(text, i, b),
           PayloadSize \in Nat
    PROVE  FitTo(text, i + 1) <=> FitTo(text, i) /\ ~(i - b + 2 >= PayloadSize)
<1>1. /\ LineStarts(text) \subseteq 1 .. Len(text) /\ Len(text) \in Nat /\ i + 1 \in 1 .. Len(text)
      /\ b \in 1 .. i /\ text[b] \notin LineBreaks /\ (b > 1 => text[b - 1] \in LineBreaks)
      /\ \A k \in b .. i : text[k] \notin LineBreaks
  BY DEF LineStarts, Begun
<1>2. b \in LineStarts(text)
  BY DEF Begun
<1>3. ASSUME FitTo(text, i + 1), NEW d \in LineStarts(text), NEW k \in d .. i,
             \A j \in d .. k - 1 : text[j] \notin LineBreaks
      PROVE  k - d + 2 <= PayloadSize
  <2>1. k \in d .. i + 1
    BY <1>1, <1>3
  <2> QED
    BY <1>3, <2>1 DEF FitTo
<1>4. ASSUME FitTo(text, i + 1) PROVE ~(i - b + 2 >= PayloadSize)
  <2>1. i + 1 \in b .. i + 1 /\ \A j \in b .. (i + 1) - 1 : j \in b .. i
    BY <1>1
  <2>2. (i + 1) - b + 2 <= PayloadSize
    BY <1>1, <1>2, <1>4, <2>1 DEF FitTo
  <2> QED
    BY <1>1, <2>2
<1>5. ASSUME FitTo(text, i), ~(i - b + 2 >= PayloadSize),
             NEW d \in LineStarts(text), NEW k \in d .. i + 1,
             \A j \in d .. k - 1 : text[j] \notin LineBreaks
      PROVE  k - d + 2 <= PayloadSize
  <2>1. /\ d \in 1 .. Len(text) /\ text[d] \notin LineBreaks
        /\ d > 1 => text[d - 1] \in LineBreaks
    BY <1>1 DEF LineStarts
  <2>2. CASE k \in d .. i
    BY <1>5, <2>2 DEF FitTo
  <2>3. CASE k = i + 1
    <3>1. ~(d < b)
      <4>1. ASSUME d < b PROVE FALSE
        <5>1. b > 1 /\ b - 1 \in d .. k - 1
          BY <1>1, <2>1, <2>3, <4>1
        <5> QED
          BY <1>1, <1>5, <5>1
      <4> QED
        BY <4>1
    <3>2. ~(b < d)
      <4>1. ASSUME b < d PROVE FALSE
        <5>1. d > 1 /\ d - 1 \in b .. i
          BY <1>1, <2>1, <2>3, <4>1
        <5> QED
          BY <1>1, <2>1, <5>1
      <4> QED
        BY <4>1
    <3>3. d = b
      BY <1>1, <2>1, <3>1, <3>2
    <3> QED
      BY <1>1, <1>5, <2>3, <3>3
  <2> QED
    BY <1>1, <2>1, <2>2, <2>3
<1> QED
  BY <1>3, <1>4, <1>5 DEF FitTo

\* A line that comes to its end
LEMMA LineIsDone ==
    ASSUME NEW text \in Seq(Nat), NEW i \in 0 .. Len(text) - 1, NEW b, Begun(text, i, b),
           text[i + 1] \in LineBreaks
    PROVE  /\ Done(text, i + 1) = Done(text, i) \cup {b} /\ \A d \in Done(text, i) : d < b
           /\ b \in 1 .. i /\ Line(text, b) = SubSeq(text, b, i)
<1>1. /\ b \in 1 .. i /\ text[b] \notin LineBreaks /\ (b > 1 => text[b - 1] \in LineBreaks)
      /\ \A k \in b .. i : text[k] \notin LineBreaks
      /\ LineStarts(text) \subseteq 1 .. Len(text) /\ Len(text) \in Nat
  BY DEF Begun, LineStarts
<1>2. ASSUME NEW d \in Done(text, i) PROVE d < b /\ d \in Done(text, i + 1)
  <2>1. PICK k \in d .. i : text[k] \in LineBreaks
    BY DEF Done
  <2>2. d \in 1 .. Len(text) /\ d \in LineStarts(text)
    BY <1>1 DEF Done
  <2>3. k \in d .. i + 1
    BY <2>2
  <2>5. ~(k >= b)
    <3>1. ASSUME k >= b PROVE FALSE
      <4>1. k \in b .. i
        BY <1>1, <2>2, <3>1
      <4> QED
        BY ONLY <1>1, <2>1, <4>1
    <3> QED
      BY <3>1
  <2>4. d < b
    BY <1>1, <2>2, <2>3, <2>5
  <2> QED
    BY <2>1, <2>2, <2>3, <2>4 DEF Done
<1>3. b \in Done(text, i + 1)
  <2>1. i + 1 \in b .. i + 1
    BY <1>1
  <2> QED
    BY <2>1 DEF Done, Begun
<1>4. ASSUME NEW d \in Done(text, i + 1), d \notin Done(text, i) PROVE d = b
  <2>1. PICK k \in d .. i + 1 : text[k] \in LineBreaks
    BY DEF Done
  <2>2. /\ d \in 1 .. Len(text) /\ text[d] \notin LineBreaks
        /\ d > 1 => text[d - 1] \in LineBreaks
        /\ \A m \in d .. i : text[m] \notin LineBreaks
    BY <1>1, <1>4 DEF Done, LineStarts
  <2>3. d <= i
    <3>1. d # i + 1
      BY <2>2
    <3> QED
      BY <2>1, <2>2, <3>1
  <2>4. ~(d < b)
    <3>1. ASSUME d < b PROVE FALSE
      <4>1. b > 1 /\ b - 1 \in d .. i
        BY <1>1, <2>2, <3>1
      <4> QED
        BY <1>1, <2>2, <4>1
    <3> QED
      BY <3>1
  <2>5. ~(b < d)
    <3>1. ASSUME b < d PROVE FALSE
      <4>1. d > 1 /\ d - 1 \in b .. i
        BY <1>1, <2>2, <2>3, <3>1
      <4> QED
        BY <1>1, <2>2, <4>1
    <3> QED
      BY <3>1
  <2> QED
    BY <1>1, <2>2, <2>4, <2>5
<1>5. Line(text, b) = SubSeq(text, b, i)
  <2> DEFINE ends == LineEnds(text, b)
  <2>1. i + 1 \in ends /\ \A k \in ends : i + 1 <= k
    <3>1. i + 1 \in b .. Len(text)
      BY <1>1
    <3>2. ASSUME NEW k \in ends PROVE i + 1 <= k
      <4>1. k \in b .. Len(text) /\ k \notin b .. i
        BY <1>1 DEF LineEnds
      <4> QED
        BY <1>1, <4>1
    <3> QED
      BY <3>1, <3>2 DEF LineEnds
  <2>2. ends \subseteq Int
    BY <1>1 DEF LineEnds
  <2> HIDE DEF ends
  <2>3. Min(ends) \in ends /\ \A k \in ends : Min(ends) <= k
    <3>1. \E x \in ends : \A k \in ends : x <= k
      BY <2>1
    <3> QED
      BY <3>1 DEF Min
  <2>4. Min(ends) = i + 1
    <3>1. Min(ends) <= i + 1 /\ i + 1 <= Min(ends) /\ Min(ends) \in Int
      BY <2>1, <2>2, <2>3
    <3> QED
      BY <3>1
  <2>5. Min(ends) - 1 = i
    BY <2>4
  <2> QED
    BY <2>5 DEF Line, ends
<1> QED
  BY <1>1, <1>2, <1>3, <1>4, <1>5

\* No line comes to its end
LEMMA NoLineIsDone ==
    ASSUME NEW text \in Seq(Nat), NEW i \in 0 .. Len(text) - 1,
           \/ text[i + 1] \notin LineBreaks
           \/ i > 0 => text[i] \in LineBreaks
    PROVE  Done(text, i + 1) = Done(text, i)
<1>1. /\ LineStarts(text) \subseteq 1 .. Len(text)
      /\ \A d \in LineStarts(text) : text[d] \notin LineBreaks
  BY DEF LineStarts
<1>2. ASSUME NEW d \in Done(text, i) PROVE d \in Done(text, i + 1)
  <2>1. PICK k \in d .. i : text[k] \in LineBreaks
    BY DEF Done
  <2>2. d \in 1 .. Len(text)
    BY <1>1 DEF Done
  <2>3. k \in d .. i + 1
    BY <2>1, <2>2
  <2> QED
    BY <2>1, <2>3 DEF Done
<1>3. ASSUME NEW d \in Done(text, i + 1) PROVE d \in Done(text, i)
  <2>1. PICK k \in d .. i + 1 : text[k] \in LineBreaks
    BY DEF Done
  <2>2. d \in 1 .. Len(text) /\ text[d] \notin LineBreaks
    BY <1>1 DEF Done
  <2>3. CASE k = i + 1
    <3>1. text[i + 1] \in LineBreaks /\ d # i + 1
      BY <2>1, <2>2, <2>3
    <3>2. i > 0 /\ text[i] \in LineBreaks /\ i \in d .. i
      BY <2>1, <2>2, <2>3, <3>1
    <3> QED
      BY <3>2 DEF Done
  <2>4. CASE k # i + 1
    <3>1. k \in d .. i
      BY <2>1, <2>2, <2>4
    <3> QED
      BY <2>1, <3>1 DEF Done
  <2> QED
    BY <2>3, <2>4
<1> QED
  BY <1>2, <1>3

\* Its packet is the next one
LEMMA SentAnother ==
    ASSUME NEW text \in Seq(Nat), NEW i \in 0 .. Len(text) - 1, NEW b, Begun(text, i, b),
           text[i + 1] \in LineBreaks, NEW packets \in Seq(Seq(Nat)), Sent(packets, text, i),
           Packet(text, b) \in Seq(Nat)
    PROVE  Sent(Append(packets, Packet(text, b)), text, i + 1)
<1> DEFINE done == Done(text, i)
           next == Done(text, i + 1)
           l == Len(packets)
           more == Append(packets, Packet(text, b))
<1>1. PICK starts \in [1 .. l -> done] :
         /\ Range(starts) = done
         /\ \A m, n \in 1 .. l : m < n => starts[m] < starts[n]
         /\ \A n \in 1 .. l : packets[n] = Packet(text, starts[n])
  BY DEF Sent
<1>2. next = done \cup {b} /\ \A d \in done : d < b
  BY LineIsDone
<1>3. /\ l \in Nat /\ Len(more) = l + 1 /\ more[l + 1] = Packet(text, b)
      /\ \A n \in 1 .. l : more[n] = packets[n]
  OBVIOUS
<1> DEFINE all == [n \in 1 .. l + 1 |-> IF n = l + 1 THEN b ELSE starts[n]]
<1> HIDE DEF done, next, l, more
<1>4. \A n \in 1 .. l + 1 : n = l + 1 \/ n \in 1 .. l
  BY <1>3
<1>5. \A n \in 1 .. l : n \in 1 .. l + 1 /\ n # l + 1
  BY <1>3
<1>6. l + 1 \in 1 .. l + 1
  BY <1>3
<1>7. all[l + 1] = b /\ \A n \in 1 .. l : all[n] = starts[n]
  BY <1>5, <1>6
<1>8. all \in [1 .. l + 1 -> next]
  BY <1>1, <1>2, <1>4
<1> HIDE DEF all
<1>9. Range(all) = next
  <2>1. \A d \in done : \E n \in 1 .. l : starts[n] = d
    BY <1>1 DEF Range
  <2>2. DOMAIN all = 1 .. l + 1
    BY <1>8
  <2>3. ASSUME NEW d \in next PROVE d \in Range(all)
    <3>1. \E n \in 1 .. l + 1 : all[n] = d
      <4>1. CASE d = b
        BY <1>6, <1>7, <4>1
      <4>2. CASE d \in done
        BY <1>5, <1>7, <2>1, <4>2
      <4> QED
        BY <1>2, <4>1, <4>2
    <3> QED
      BY <2>2, <3>1 DEF Range
  <2>4. Range(all) \subseteq next
    BY <1>8, <2>2 DEF Range
  <2> QED
    BY <2>3, <2>4
<1>10. ASSUME NEW m \in 1 .. l + 1, NEW n \in 1 .. l + 1, m < n PROVE all[m] < all[n]
  <2>1. m \in 1 .. l
    BY <1>3, <1>10
  <2>2. CASE n = l + 1
    <3>1. starts[m] \in done
      BY <1>1, <2>1
    <3> QED
      BY <1>2, <1>7, <2>1, <2>2, <3>1
  <2>3. CASE n \in 1 .. l
    BY <1>1, <1>7, <1>10, <2>1, <2>3
  <2> QED
    BY <1>4, <2>2, <2>3
<1>11. ASSUME NEW n \in 1 .. l + 1 PROVE more[n] = Packet(text, all[n])
  <2>1. CASE n = l + 1
    BY <1>3, <1>7, <2>1
  <2>2. CASE n \in 1 .. l
    BY <1>1, <1>3, <1>7, <2>2
  <2> QED
    BY <1>4, <2>1, <2>2
<1>12. Len(more) = l + 1
  BY <1>3
<1> QED
  BY <1>8, <1>9, <1>10, <1>11, <1>12 DEF Sent, next, more

\* Sequences with something in front or behind
LEMMA HeadAndEnd ==
    ASSUME NEW h \in Nat, NEW c \in Nat, NEW line \in Seq(Nat)
    PROVE  /\ Append(<<h>> \o line, c) = <<h>> \o line \o <<c>>
           /\ Append(<<h>> \o line, c) = <<h>> \o Append(line, c)
OBVIOUS

\* Parts of a sequence that are one longer
LEMMA OneLonger ==
    ASSUME NEW text \in Seq(Nat), NEW b \in 1 .. Len(text), NEW i \in b .. Len(text) - 1
    PROVE  /\ SubSeq(text, b, i) \in Seq(Nat)
           /\ SubSeq(text, b, i + 1) = Append(SubSeq(text, b, i), text[i + 1])
OBVIOUS

\* What a Syslog has sent and holds after some of the characters
SyslogHas(s, text, i) ==
    /\ s \in States /\ Sent(s.sent, text, i)
    /\ s.overrun > 0 <=> ~FitTo(text, i)
    /\ \/ s._writePos = -1 /\ s.payload = <<>> /\ (i > 0 => text[i] \in LineBreaks)
       \/ /\ s._writePos > 0
          /\ \E b : /\ Begun(text, i, b) /\ s.payload = <<Header>> \o SubSeq(text, b, i)
                    /\ s._writePos = i - b + 2

\* ... and after one more
LEMMA SyslogHasNext ==
    ASSUME NEW text \in Seq(Nat), NEW i \in 0 .. Len(text) - 1, NEW s, SyslogHas(s, text, i),
           PayloadSize \in Nat
    PROVE  SyslogHas(SyslogWrite(s, text[i + 1]), text, i + 1)
<1> DEFINE c == text[i + 1]
           t == SyslogWrite(s, c)
<1>1. /\ s \in States /\ Sent(s.sent, text, i) /\ c \in Nat /\ i + 1 \in 1 .. Len(text)
      /\ s.sent \in Seq(Seq(Nat)) /\ s._writePos \in Int /\ i + 1 > 0 /\ Header \in Nat
      /\ Terminator \in Nat
  <2>1. s \in States /\ Sent(s.sent, text, i)
    BY DEF SyslogHas
  <2> QED
    BY <2>1 DEF States, Header, Terminator
<1>0. s.overrun > 0 <=> ~FitTo(text, i)
  BY DEF SyslogHas
<1> HIDE DEF c, t
<1>2. CASE s._writePos = -1
  <2>1. s.payload = <<>> /\ (i > 0 => text[i] \in LineBreaks)
    BY <1>2 DEF SyslogHas
  <2>2. Done(text, i + 1) = Done(text, i)
    BY <2>1, NoLineIsDone
  <2>3. Sent(s.sent, text, i + 1)
    BY <1>1, <2>2 DEF Sent
  <2>4. CASE c \in LineBreaks
    <3>1. t = s
      BY <1>1, <1>2, <2>4, NewLines DEF SyslogWrite, t
    <3>2. FitTo(text, i + 1) <=> FitTo(text, i)
      BY <2>1, <2>4, FitsFirst DEF c
    <3> QED
      BY <1>0, <1>1, <1>2, <2>1, <2>3, <2>4, <3>1, <3>2 DEF SyslogHas, t, c
  <2>5. CASE c \notin LineBreaks
    <3>1. /\ t \in States /\ t._writePos > 0 /\ t.sent = s.sent /\ t.payload = Append(<<Header>>, c)
          /\ t._writePos = 2 /\ (t.overrun > 0 <=> s.overrun > 0 \/ 1 >= PayloadSize)
      BY <1>1, <1>2, <2>1, <2>5, SyslogPuts DEF t
    <3>2. Begun(text, i + 1, i + 1)
      <4>1. \A k \in i + 1 .. i + 1 : k = i + 1
        BY <1>1
      <4>2. i + 1 > 1 => i > 0 /\ i + 1 - 1 = i
        BY <1>1
      <4>3. i + 1 \in LineStarts(text)
        BY <1>1, <2>1, <2>5, <4>2 DEF LineStarts, c
      <4> QED
        BY <1>1, <2>5, <4>1, <4>3 DEF Begun, c
    <3>3. t.payload = <<Header>> \o SubSeq(text, i + 1, i + 1)
      <4>1. SubSeq(text, i + 1, i + 1) = Append(SubSeq(text, i + 1, i), text[i + 1])
        BY <1>1
      <4>2. SubSeq(text, i + 1, i) = <<>>
        BY <1>1
      <4>3. <<Header>> \o Append(<<>>, c) = Append(<<Header>>, c)
        BY <1>1
      <4> QED
        BY <3>1, <4>1, <4>2, <4>3 DEF c
    <3>4. t.overrun > 0 <=> ~FitTo(text, i + 1)
      <4>1. FitTo(text, i + 1) <=> FitTo(text, i) /\ 2 <= PayloadSize
        BY <2>1, <2>5, FitsFirst DEF c
      <4>2. 1 >= PayloadSize <=> ~(2 <= PayloadSize)
        OBVIOUS
      <4> QED
        BY ONLY <1>0, <3>1, <4>1, <4>2
    <3>5. t._writePos = (i + 1) - (i + 1) + 2
      BY <3>1
    <3> QED
      BY <2>3, <3>1, <3>2, <3>3, <3>4, <3>5 DEF SyslogHas, t, c
  <2> QED
    BY <2>4, <2>5
<1>3. CASE s._writePos # -1
  <2>1. PICK b : /\ Begun(text, i, b) /\ s.payload = <<Header>> \o SubSeq(text, b, i)
                 /\ s._writePos = i - b + 2
    BY <1>3 DEF SyslogHas
  <2>2. s._writePos > 0 /\ s.payload \in Seq(Nat)
    BY <1>1, <1>3 DEF SyslogHas, States
  <2>3. b \in 1 .. i /\ b \in LineStarts(text) /\ \A k \in b .. i : text[k] \notin LineBreaks
    BY <2>1 DEF Begun, LineStarts
  <2>6. (s.overrun > 0 \/ s._writePos >= PayloadSize) <=> ~FitTo(text, i + 1)
    <3>1. FitTo(text, i + 1) <=> FitTo(text, i) /\ ~(i - b + 2 >= PayloadSize)
      BY <2>1, FitsMore
    <3> QED
      BY ONLY <1>0, <2>1, <3>1
  <2>4. CASE c \in LineBreaks
    <3>1. /\ t \in States /\ t._writePos = -1 /\ t.payload = <<>>
          /\ t.sent = Append(s.sent, Append(s.payload, Terminator))
          /\ t.overrun > 0 <=> s.overrun > 0 \/ s._writePos >= PayloadSize
      BY <1>1, <2>2, <2>4, NewLines DEF SyslogWrite, t
    <3>2. Line(text, b) = SubSeq(text, b, i)
      BY <2>1, <2>4, LineIsDone DEF c
    <3>3. Append(s.payload, Terminator) = Packet(text, b)
      <4>1. SubSeq(text, b, i) \in Seq(Nat)
        BY <2>3
      <4>2. ASSUME NEW line \in Seq(Nat)
            PROVE  Append(<<Header>> \o line, Terminator) = <<Header>> \o line \o <<Terminator>>
        BY ONLY <1>1, HeadAndEnd
      <4> QED
        BY <2>1, <3>2, <4>1, <4>2 DEF Packet
    <3>4. Packet(text, b) \in Seq(Nat)
      <4>1. Append(s.payload, Terminator) \in Seq(Nat)
        BY ONLY <1>1, <2>2
      <4> QED
        BY ONLY <3>3, <4>1, Zenon
    <3>5. Sent(t.sent, text, i + 1)
      BY <1>1, <2>1, <2>4, <3>1, <3>3, <3>4, SentAnother DEF c
    <3> QED
      BY <1>1, <2>4, <2>6, <3>1, <3>5 DEF SyslogHas, t, c
  <2>5. CASE c \notin LineBreaks
    <3>1. /\ t \in States /\ t._writePos > 0 /\ t.sent = s.sent /\ t.payload = Append(s.payload, c)
          /\ t._writePos = s._writePos + 1
          /\ t.overrun > 0 <=> s.overrun > 0 \/ s._writePos >= PayloadSize
      BY <1>1, <1>3, <2>2, <2>5, SyslogPuts DEF t
    <3>2. Done(text, i + 1) = Done(text, i)
      BY <2>5, NoLineIsDone DEF c
    <3>3. Sent(t.sent, text, i + 1)
      BY <1>1, <3>1, <3>2 DEF Sent
    <3>4. Begun(text, i + 1, b)
      <4>1. b <= i + 1 /\ \A k \in b .. i + 1 : k = i + 1 \/ k \in b .. i
        BY <1>1, <2>3
      <4> QED
        BY <2>3, <2>5, <4>1 DEF Begun, c
    <3>5. t.payload = <<Header>> \o SubSeq(text, b, i + 1)
      <4>1. /\ SubSeq(text, b, i) \in Seq(Nat)
            /\ SubSeq(text, b, i + 1) = Append(SubSeq(text, b, i), c)
        <5>1. b \in 1 .. Len(text) /\ i \in b .. Len(text) - 1
          BY <1>1, <2>3
        <5> QED
          BY ONLY <5>1, text \in Seq(Nat), OneLonger DEF c
      <4>2. ASSUME NEW line \in Seq(Nat)
            PROVE  Append(<<Header>> \o line, c) = <<Header>> \o Append(line, c)
        BY ONLY <1>1, HeadAndEnd
      <4> QED
        BY <2>1, <3>1, <4>1, <4>2
    <3>6. t._writePos = (i + 1) - b + 2
      BY <2>1, <2>3, <3>1
    <3> QED
      BY <2>6, <3>1, <3>3, <3>4, <3>5, <3>6 DEF SyslogHas, t, c
  <2> QED
    BY <2>4, <2>5
<1> QED
  BY <1>2, <1>3

\* What a Syslog sends of a text
LEMMA SyslogSends ==
    ASSUME NEW text \in Seq(Nat), PayloadSize \in Nat
    PROVE  /\ AreLines(SyslogPrint(text).sent, text)
           /\ SyslogPrint(text).overrun > 0 <=> ~LinesFit(text)
<1> DEFINE s == SyslogWrites(text)
           T == {i \in 0 .. Len(text) : SyslogHas(s[i], text, i)}
<1>1. Len(text) \in Nat
  OBVIOUS
<1>2. /\ s[0] = Fresh
      /\ \A i \in 1 .. Len(text) : s[i] = SyslogWrite(s[i - 1], text[i])
  BY <1>1, SyslogWritesIs
<1> HIDE DEF s
<1>3. 0 \in T
  <2>1. /\ Fresh \in States /\ Fresh._writePos = -1 /\ Fresh.payload = <<>>
        /\ Fresh.sent = <<>> /\ Fresh.overrun = 0
    BY DEF Fresh, States
  <2>4. FitTo(text, 0)
    <3>1. \A d \in LineStarts(text) : d .. 0 = {}
      BY DEF LineStarts
    <3> QED
      BY <3>1 DEF FitTo
  <2>2. Done(text, 0) = {}
    <3>1. \A d \in LineStarts(text) : d .. 0 = {}
      BY DEF LineStarts
    <3> QED
      BY <3>1 DEF Done
  <2>3. Sent(<<>>, text, 0)
    <3> DEFINE none == [n \in 1 .. 0 |-> 0]
    <3>1. Len(<<>>) = 0 /\ 1 .. 0 = {}
      OBVIOUS
    <3>2. none \in [1 .. 0 -> {}] /\ Range(none) = {}
      BY <3>1 DEF Range
    <3> HIDE DEF none
    <3> QED
      BY <2>2, <3>1, <3>2 DEF Sent
  <2> QED
    BY <1>1, <1>2, <2>1, <2>3, <2>4 DEF SyslogHas
<1>4. ASSUME NEW i \in 1 .. Len(text), i - 1 \in T PROVE i \in T
  <2>1. i - 1 \in 0 .. Len(text) - 1 /\ i - 1 + 1 = i /\ i \in 0 .. Len(text)
    BY <1>1
  <2>2. SyslogHas(SyslogWrite(s[i - 1], text[i - 1 + 1]), text, i - 1 + 1)
    BY <1>4, <2>1, SyslogHasNext
  <2>3. SyslogHas(s[i], text, i)
    BY <1>2, <2>1, <2>2
  <2> QED
    BY <2>1, <2>3
<1>5. Len(text) \in T
  <2>1. Len(text) \in 0 .. Len(text)
    BY <1>1
  <2> HIDE DEF T
  <2> QED
    BY <1>1, <1>3, <1>4, <2>1, AllUpTo
<1>6. Sent(SyslogPrint(text).sent, text, Len(text))
  BY <1>5 DEF SyslogHas, SyslogPrint, s
<1>7. Done(text, Len(text)) = {b \in LineStarts(text) : LineEnds(text, b) # {}}
  BY DEF Done, LineEnds
<1>8. SyslogPrint(text).overrun > 0 <=> ~LinesFit(text)
  BY <1>5 DEF SyslogHas, SyslogPrint, s, LinesFit, FitTo
<1> QED
  BY <1>6, <1>7, <1>8 DEF Sent, AreLines, Packet

\* What is printed is sent
LEMMA PrintRight == RealTexts /\ PrintText => PrintedIsSent'
<1> SUFFICES ASSUME RealTexts, PrintText PROVE PrintedIsSent'
  OBVIOUS
<1>1. PICK text \in PrintedTexts :
         Calls("print", [text |-> text, socket |-> SocketPrint(text),
                         syslog |-> SyslogPrint(text)])
  BY DEF PrintText
<1>2. text \in Seq(Nat) /\ PayloadSize \in Nat
  BY DEF RealTexts
<1>3. /\ call'.text = text /\ call'.socket = SocketPrint(text)
      /\ call'.syslog = SyslogPrint(text)
  BY <1>1 DEF Calls
<1>4. text = <<>> \/ text[1] \notin LineBreaks =>
        /\ SocketPrint(text).overrun > 0 <=> Len(text) > PayloadSize
        /\ SocketPrint(text).sent = IF text = <<>> THEN <<>> ELSE <<text>>
  BY <1>2, SocketSends
<1>5. /\ AreLines(SyslogPrint(text).sent, text)
      /\ SyslogPrint(text).overrun > 0 <=> ~LinesFit(text)
  BY <1>2, SyslogSends
<1> QED
  BY <1>3, <1>4, <1>5 DEF PrintedIsSent

-----------------------------------------------------------------------------
(* Replies *)

\* A piece of a message
Lies(message, p, piece) ==
    /\ p \in Nat \ {0} /\ p + Len(piece) <= Len(message) + 1
    /\ \A k \in 1 .. Len(piece) : message[p + k - 1] = piece[k]

\* The positions after names, for each number of labels
LEMMA SkipLabelsIs ==
    ASSUME NEW message, Len(message) \in Nat
    PROVE  SkipLabels(message) = [n \in 0 .. Len(message) |->
              [q \in Nat |->
                 LET next == q + message[q] + 1
                 IN  IF n = 0 \/ message[q] = 0 THEN q
                     ELSE IF message[q] >= Pointer THEN PointerEnd(q)
                     ELSE IF message[next] = 0 THEN next + 1
                     ELSE SkipLabels(message)[n - 1][next]]]
<1> DEFINE Step(n, before) ==
              [q \in Nat |->
                 LET next == q + message[q] + 1
                 IN  IF n = 0 \/ message[q] = 0 THEN q
                     ELSE IF message[q] >= Pointer THEN PointerEnd(q)
                     ELSE IF message[next] = 0 THEN next + 1
                     ELSE before[next]]
           F(f, k) == f = [n \in 0 .. k |-> Step(n, f[n - 1])]
           T == {k \in 0 .. Len(message) : \E f : F(f, k)}
<1>1. 0 \in T
  <2>1. Step(0, 0) = Step(0, [n \in 0 .. 0 |-> Step(0, 0)][0 - 1])
    OBVIOUS
  <2> HIDE DEF Step
  <2>2. F([n \in 0 .. 0 |-> Step(0, 0)], 0)
    <3>1. \A n \in 0 .. 0 : n = 0
      OBVIOUS
    <3> QED
      BY <2>1, <3>1
  <2>3. \E f : F(f, 0)
    BY <2>2
  <2> HIDE DEF F
  <2> QED
    BY <2>3
<1>2. ASSUME NEW k \in 1 .. Len(message), k - 1 \in T PROVE k \in T
  <2> HIDE DEF F, Step
  <2>1. PICK f : F(f, k - 1)
    BY <1>2
  <2> DEFINE g == [n \in 0 .. k |-> IF n = k THEN Step(k, f[k - 1]) ELSE f[n]]
  <2>2. F(g, k)
    <3>1. \A n \in 1 .. k : g[n - 1] = f[n - 1]
      OBVIOUS
    <3>2. \A n \in 0 .. k - 1 : f[n] = Step(n, f[n - 1]) /\ g[n] = f[n]
      BY <2>1 DEF F
    <3>3. Step(0, f[0 - 1]) = Step(0, g[0 - 1])
      BY DEF Step
    <3>4. \A n \in 0 .. k : g[n] = Step(n, g[n - 1])
      <4>1. g[k] = Step(k, g[k - 1])
        BY <3>1
      <4>2. ASSUME NEW n \in 1 .. k - 1 PROVE g[n] = Step(n, g[n - 1])
        <5> HIDE DEF g
        <5>1. n \in 1 .. k /\ n \in 0 .. k - 1
          OBVIOUS
        <5>2. g[n - 1] = f[n - 1]
          BY ONLY <3>1, <5>1
        <5>3. g[n] = f[n] /\ f[n] = Step(n, f[n - 1])
          BY ONLY <3>2, <5>1
        <5> QED
          BY ONLY <5>2, <5>3
      <4>3. g[0] = Step(0, g[0 - 1])
        BY <3>2, <3>3
      <4>4. \A n \in 0 .. k : n = k \/ n = 0 \/ n \in 1 .. k - 1
        OBVIOUS
      <4> HIDE DEF g
      <4> QED
        BY <4>1, <4>2, <4>3, <4>4
    <3> HIDE DEF g
    <3>5. g = [n \in 0 .. k |-> g[n]]
      BY DEF g
    <3> QED
      BY <3>4, <3>5 DEF F
  <2> HIDE DEF g
  <2> QED
    BY <2>2
<1> HIDE DEF T
<1>3. 0 .. Len(message) \subseteq T
  BY <1>1, <1>2, AllUpTo
<1>4. \E f : F(f, Len(message))
  BY <1>3 DEF T
<1> QED
  BY <1>4, Zenon DEF SkipLabels

\* A name is skipped, wherever it lies
LEMMA NameIsSkipped ==
    ASSUME NEW message \in Seq(Nat), NEW name, RealName(name), NEW p, Lies(message, p, name)
    PROVE  skipOverName(message, p) = p + Len(name)
<1>1. PICK L \in Nat, N \in Nat : L = Len(message) /\ N = Len(name) /\ name \in Seq(Nat)
  BY DEF RealName
<1>2. PICK starts \in SUBSET (1 .. N) :
         /\ 1 \in starts
         /\ \A s \in starts :
              IF name[s] >= Pointer THEN s + 1 = N
              ELSE name[s] # 0 /\ (s + name[s] + 1 \in starts
                                     \/ (s + name[s] + 1 = N /\ name[N] = 0))
  BY <1>1 DEF RealName
<1>3. /\ p \in Nat /\ p >= 1 /\ p + N <= L + 1
      /\ \A k \in 1 .. N : message[p + k - 1] = name[k] /\ name[k] \in Nat
  BY <1>1 DEF Lies
<1>4. ASSUME NEW s \in starts
      PROVE  s \in 1 .. N /\ p + s - 1 \in Nat /\ message[p + s - 1] = name[s] /\ name[s] \in Nat
  BY <1>1, <1>3
<1> DEFINE skip == SkipLabels(message)
           T == {n \in 0 .. L : \A s \in starts : N - s <= n => skip[n][p + s - 1] = p + N}
<1>5. ASSUME NEW n \in 0 .. L, NEW c \in Nat, NEW q \in Nat, message[q] = c
      PROVE  skip[n][q] =
                IF n = 0 \/ c = 0 THEN q
                ELSE IF c >= Pointer THEN q + 2
                ELSE IF message[q + c + 1] = 0 THEN q + c + 1 + 1
                ELSE skip[n - 1][q + c + 1]
  <2> DEFINE H(x) == LET next == x + message[x] + 1
                     IN  IF n = 0 \/ message[x] = 0 THEN x
                         ELSE IF message[x] >= Pointer THEN PointerEnd(x)
                         ELSE IF message[next] = 0 THEN next + 1
                         ELSE skip[n - 1][next]
  <2>1. skip[n] = [x \in Nat |-> H(x)]
    BY <1>1, SkipLabelsIs
  <2> HIDE DEF H, skip
  <2>2. skip[n][q] = H(q)
    BY ONLY <2>1, q \in Nat
  <2> QED
    BY ONLY <1>5, <2>2 DEF H, PointerEnd
<1> HIDE DEF skip
<1>6. ASSUME NEW n \in 0 .. L, NEW s \in starts, N - s <= n,
             \A t \in starts : N - t <= n - 1 => n # 0 /\ skip[n - 1][p + t - 1] = p + N
      PROVE  skip[n][p + s - 1] = p + N
  <2>1. PICK c \in Nat, q \in Nat :
           c = name[s] /\ q = p + s - 1 /\ s \in 1 .. N /\ message[q] = c
    BY <1>4
  <2>5. /\ p \in Nat /\ N \in Nat /\ L \in Nat /\ p >= 1 /\ p + N <= L + 1
        /\ q = p + s - 1 /\ s \in 1 .. N /\ c \in Nat /\ n \in 0 .. L /\ N - s <= n
    BY <1>1, <1>3, <1>6, <2>1
  <2>2. CASE c >= Pointer
    <3>1. s + 1 = N /\ c # 0 /\ n # 0
      BY ONLY <1>2, <1>6, <2>1, <2>2, c \in Nat DEF Pointer
    <3>2. skip[n][q] = q + 2
      BY <1>5, <2>1, <2>2, <3>1
    <3>3. q + 2 = p + N
      BY ONLY <2>5, <3>1
    <3> QED
      BY <2>1, <3>2, <3>3
  <2>3. CASE c < Pointer
    <3>1. /\ ~(c >= Pointer) /\ c # 0
          /\ s + c + 1 \in starts \/ (s + c + 1 = N /\ name[N] = 0)
      BY <1>2, <2>1, <2>3 DEF Pointer
    <3>2. s + c + 1 \in 1 .. N /\ n # 0 /\ p + (s + c + 1) - 1 = q + c + 1
      <4>1. s + c + 1 \in 1 .. N
        BY ONLY <2>5, <3>1, starts \in SUBSET (1 .. N)
      <4> QED
        BY ONLY <2>5, <4>1
    <3>3. message[q + c + 1] = name[s + c + 1]
      <4>1. \A k \in 1 .. N : message[p + k - 1] = name[k]
        BY <1>3
      <4>2. message[p + (s + c + 1) - 1] = name[s + c + 1]
        BY ONLY <3>2, <4>1
      <4> QED
        BY <3>2, <4>2
    <3>4. skip[n][q] =
             IF message[q + c + 1] = 0 THEN q + c + 1 + 1 ELSE skip[n - 1][q + c + 1]
      <4>1. skip[n][q] =
                IF n = 0 \/ c = 0 THEN q
                ELSE IF c >= Pointer THEN q + 2
                ELSE IF message[q + c + 1] = 0 THEN q + c + 1 + 1
                ELSE skip[n - 1][q + c + 1]
        BY <1>5, <2>1
      <4> QED
        BY ONLY <3>1, <3>2, <4>1
    <3>5. CASE s + c + 1 \in starts
      <4>1. name[s + c + 1] # 0
        BY <1>2, <3>5 DEF Pointer
      <4>2. N - (s + c + 1) <= n - 1
        BY ONLY <2>5, <3>2
      <4>3. skip[n - 1][q + c + 1] = p + N
        BY <1>6, <3>2, <3>5, <4>2
      <4> QED
        BY <2>1, <3>3, <3>4, <4>1, <4>3
    <3>6. CASE s + c + 1 = N /\ name[N] = 0
      <4>1. q + c + 1 + 1 = p + N
        BY ONLY <2>5, <3>6
      <4> QED
        BY <2>1, <3>3, <3>4, <3>6, <4>1
    <3> QED
      BY <3>1, <3>5, <3>6
  <2> QED
    BY <2>1, <2>2, <2>3 DEF Pointer
<1>7. 0 \in T
  <2>1. ASSUME NEW t \in starts PROVE ~(N - t <= 0 - 1)
    BY <1>4
  <2>2. 0 \in 0 .. L
    BY <1>1
  <2>3. ASSUME NEW s \in starts, N - s <= 0 PROVE skip[0][p + s - 1] = p + N
    BY <1>6, <2>1, <2>2, <2>3
  <2> QED
    BY <2>2, <2>3
<1>8. ASSUME NEW n \in 1 .. L, n - 1 \in T PROVE n \in T
  <2>1. n \in 0 .. L /\ n # 0
    BY <1>1
  <2>2. ASSUME NEW s \in starts, N - s <= n PROVE skip[n][p + s - 1] = p + N
    BY <1>6, <1>8, <2>1, <2>2
  <2> QED
    BY <2>1, <2>2
<1>9. L \in T
  <2>1. L \in 0 .. L
    BY <1>1
  <2> HIDE DEF T
  <2> QED
    BY <1>1, <1>7, <1>8, <2>1, AllUpTo
<1>10. N - 1 <= L /\ p + 1 - 1 = p
  BY <1>1, <1>3
<1>11. skip[L][p + 1 - 1] = p + N
  BY <1>2, <1>9, <1>10
<1> QED
  BY <1>1, <1>10, <1>11 DEF skipOverName, skip

\* A name after each of the characters
LEMMA EncodingsIs ==
    ASSUME NEW host, Len(host) \in Nat
    PROVE  Encodings(host) = [i \in 0 .. Len(host) |->
              IF i = 0 THEN [bytes |-> <<0>>, length |-> 1]
              ELSE EncodeCharacter(Encodings(host)[i - 1], host[i])]
<1> DEFINE First == [bytes |-> <<0>>, length |-> 1]
           Step(i, before) == EncodeCharacter(before, host[i])
           F(f, k) == f = [i \in 0 .. k |-> IF i = 0 THEN First ELSE Step(i, f[i - 1])]
           T == {k \in 0 .. Len(host) : \E f : F(f, k)}
<1> HIDE DEF First, Step
<1>1. 0 \in T
  <2>1. F([i \in 0 .. 0 |-> First], 0)
    OBVIOUS
  <2>2. \E f : F(f, 0)
    BY <2>1
  <2> HIDE DEF F
  <2> QED
    BY <2>2
<1>2. ASSUME NEW k \in 1 .. Len(host), k - 1 \in T PROVE k \in T
  <2> HIDE DEF F
  <2>1. PICK f : F(f, k - 1)
    BY <1>2
  <2> DEFINE g == [i \in 0 .. k |-> IF i = k THEN Step(k, f[k - 1]) ELSE f[i]]
  <2>2. F(g, k)
    <3>1. \A i \in 0 .. k : g[i] = IF i = 0 THEN First ELSE Step(i, g[i - 1])
      BY <2>1 DEF F
    <3> QED
      BY <3>1 DEF F
  <2> HIDE DEF g
  <2> QED
    BY <2>2
<1> HIDE DEF T
<1>3. 0 .. Len(host) \subseteq T
  BY <1>1, <1>2, AllUpTo
<1>4. \E f : F(f, Len(host))
  BY <1>3 DEF T
<1> QED
  BY <1>4, Zenon DEF Encodings, First, Step

\* The first n characters of a host, encoded: the label that has begun is at its position
Encoded(host, n, bytes, length) ==
    /\ bytes \in Seq(Nat) /\ Len(bytes) = n + 1
    /\ length \in LabelStarts(host, n) /\ length + bytes[length] = n + 1
    /\ \A j \in LabelStarts(host, n) :
         /\ \A k \in j .. j + bytes[j] - 1 : k <= n /\ host[k] # Dot
         /\ j # length => j + bytes[j] <= n /\ host[j + bytes[j]] = Dot

\* A character more
LEMMA EncodesDot ==
    ASSUME NEW host \in Seq(Nat), NEW n \in 1 .. Len(host), NEW query,
           NEW b, NEW l, b = query.bytes, l = query.length, Encoded(host, n - 1, b, l),
           host[n] = Dot
    PROVE  LET after == EncodeCharacter(query, host[n])
           IN  Encoded(host, n, after.bytes, after.length)
<1>1. PICK z \in Nat : z = Len(host) /\ \A k \in 1 .. z : host[k] \in Nat
  OBVIOUS
<1>2. /\ n \in Nat /\ n >= 1 /\ n <= z
      /\ b \in Seq(Nat) /\ Len(b) = n /\ (\A j \in 1 .. n : b[j] \in Nat)
      /\ l \in LabelStarts(host, n - 1) /\ l \in 1 .. n /\ l + b[l] = n
  <2>1. \A j \in LabelStarts(host, n - 1) : j \in 1 .. (n - 1) + 1
    BY DEF LabelStarts
  <2>2. b \in Seq(Nat) /\ Len(b) = n - 1 + 1
        /\ l \in LabelStarts(host, n - 1) /\ l + b[l] = n - 1 + 1
    BY DEF Encoded
  <2>3. n \in Nat /\ n >= 1 /\ n <= z /\ n - 1 + 1 = n
    BY <1>1
  <2>4. \A j \in 1 .. n : b[j] \in Nat
    BY ONLY <2>2, <2>3
  <2> QED
    BY <2>1, <2>2, <2>3, <2>4
<1>3. ASSUME NEW j \in LabelStarts(host, n - 1)
      PROVE  /\ j \in 1 .. n /\ b[j] \in Nat
             /\ \A k \in j .. j + b[j] - 1 : k <= n - 1 /\ host[k] # Dot
             /\ j # l => j + b[j] <= n - 1 /\ host[j + b[j]] = Dot
  <2>1. j \in 1 .. n
    BY DEF LabelStarts
  <2>2. b[j] \in Nat
    BY ONLY <1>2, <2>1
  <2>3. /\ \A k \in j .. j + b[j] - 1 : k <= n - 1 /\ host[k] # Dot
        /\ j # l => j + b[j] <= n - 1 /\ host[j + b[j]] = Dot
    BY DEF Encoded
  <2> QED
    BY ONLY <2>1, <2>2, <2>3
<1> DEFINE e == Append(b, 0)
<1>4. EncodeCharacter(query, host[n]) = [bytes |-> e, length |-> n + 1]
  BY <1>1, <1>2 DEF EncodeCharacter
<1>5. /\ e \in Seq(Nat) /\ Len(e) = n + 1 /\ e[n + 1] = 0
      /\ \A j \in 1 .. n : e[j] = b[j]
  BY <1>1, <1>2
<1>6. LabelStarts(host, n) = LabelStarts(host, n - 1) \cup {n + 1}
  <2>0. n \in Nat /\ n >= 1
    BY <1>2
  <2>1. /\ n - 1 + 1 = n /\ n + 1 - 1 = n /\ n + 1 \in 1 .. n + 1
        /\ \A p \in 1 .. n + 1 : p \in 1 .. n \/ p = n + 1
        /\ \A p \in 1 .. n : p \in 1 .. n + 1
    BY ONLY <2>0
  <2>2. ASSUME NEW p
        PROVE  p \in LabelStarts(host, n) <=> p \in LabelStarts(host, n - 1) \cup {n + 1}
    BY <2>1 DEF LabelStarts
  <2> QED
    BY <2>2
<1> HIDE DEF e
<1>7. ASSUME NEW j \in LabelStarts(host, n)
      PROVE  /\ \A k \in j .. j + e[j] - 1 : k <= n /\ host[k] # Dot
             /\ j # n + 1 => j + e[j] <= n /\ host[j + e[j]] = Dot
  <2>1. CASE j = n + 1
    <3>1. e[j] = 0 /\ j .. j + 0 - 1 = {}
      BY <1>2, <1>5, <2>1
    <3> QED
      BY <2>1, <3>1
  <2>2. CASE j # n + 1
    <3>1. j \in LabelStarts(host, n - 1) /\ j \in 1 .. n /\ e[j] = b[j] /\ b[j] \in Nat
      BY <1>3, <1>5, <1>6, <2>2
    <3>4. PICK c \in Nat : c = b[j] /\ c = e[j]
      BY <3>1
    <3>5. /\ \A k \in j .. j + c - 1 : k <= n - 1 /\ host[k] # Dot
          /\ j # l => j + c <= n - 1 /\ host[j + c] = Dot
      BY <1>3, <3>1, <3>4
    <3>6. \A k \in j .. j + c - 1 : k <= n /\ host[k] # Dot
      BY ONLY <1>2, <3>1, <3>4, <3>5
    <3>2. CASE j = l
      <4>1. j + c = n
        BY <1>2, <3>2, <3>4
      <4> QED
        BY <1>2, <3>4, <3>6, <4>1
    <3>3. CASE j # l
      <4>1. j + c <= n /\ host[j + c] = Dot
        BY ONLY <1>2, <3>1, <3>3, <3>4, <3>5
      <4> QED
        BY <3>4, <3>6, <4>1
    <3> QED
      BY <3>2, <3>3
  <2> QED
    BY <2>1, <2>2
<1>8. n + 1 \in LabelStarts(host, n)
  BY <1>6
<1>9. n + 1 + e[n + 1] = n + 1
  BY <1>2, <1>5
<1>10. Encoded(host, n, e, n + 1)
  BY <1>5, <1>7, <1>8, <1>9 DEF Encoded
<1> QED
  BY <1>1, <1>4, <1>10

LEMMA EncodesOther ==
    ASSUME NEW host \in Seq(Nat), NEW n \in 1 .. Len(host), NEW query,
           NEW b, NEW l, b = query.bytes, l = query.length, Encoded(host, n - 1, b, l),
           host[n] # Dot
    PROVE  LET after == EncodeCharacter(query, host[n])
           IN  Encoded(host, n, after.bytes, after.length)
<1>1. PICK z \in Nat : z = Len(host) /\ \A k \in 1 .. z : host[k] \in Nat
  OBVIOUS
<1>2. /\ n \in Nat /\ n >= 1 /\ n <= z
      /\ b \in Seq(Nat) /\ Len(b) = n /\ (\A j \in 1 .. n : b[j] \in Nat)
      /\ l \in LabelStarts(host, n - 1) /\ l \in 1 .. n /\ l + b[l] = n
  <2>1. \A j \in LabelStarts(host, n - 1) : j \in 1 .. (n - 1) + 1
    BY DEF LabelStarts
  <2>2. b \in Seq(Nat) /\ Len(b) = n - 1 + 1
        /\ l \in LabelStarts(host, n - 1) /\ l + b[l] = n - 1 + 1
    BY DEF Encoded
  <2>3. n \in Nat /\ n >= 1 /\ n <= z /\ n - 1 + 1 = n
    BY <1>1
  <2>4. \A j \in 1 .. n : b[j] \in Nat
    BY ONLY <2>2, <2>3
  <2> QED
    BY <2>1, <2>2, <2>3, <2>4
<1>3. ASSUME NEW j \in LabelStarts(host, n - 1)
      PROVE  /\ j \in 1 .. n /\ b[j] \in Nat
             /\ \A k \in j .. j + b[j] - 1 : k <= n - 1 /\ host[k] # Dot
             /\ j # l => j + b[j] <= n - 1 /\ host[j + b[j]] = Dot
  <2>1. j \in 1 .. n
    BY DEF LabelStarts
  <2>2. b[j] \in Nat
    BY ONLY <1>2, <2>1
  <2>3. /\ \A k \in j .. j + b[j] - 1 : k <= n - 1 /\ host[k] # Dot
        /\ j # l => j + b[j] <= n - 1 /\ host[j + b[j]] = Dot
    BY DEF Encoded
  <2> QED
    BY ONLY <2>1, <2>2, <2>3
<1> DEFINE a == Append(b, host[n])
           e == [a EXCEPT ![l] = @ + 1]
<1>4. EncodeCharacter(query, host[n]) = [bytes |-> e, length |-> l]
  BY <1>1 DEF EncodeCharacter
<1>5. /\ a \in Seq(Nat) /\ Len(a) = n + 1 /\ \A j \in 1 .. n : a[j] = b[j]
  <2>1. PICK c \in Nat : c = host[n]
    BY <1>1, <1>2
  <2>2. b \in Seq(Nat) /\ Len(b) = n /\ n \in Nat
    BY ONLY <1>2
  <2>3. Append(b, c) \in Seq(Nat) /\ Len(Append(b, c)) = n + 1
        /\ \A j \in 1 .. n : Append(b, c)[j] = b[j]
    BY ONLY <2>2, c \in Nat
  <2> QED
    BY ONLY <2>1, <2>3
<1> HIDE DEF a
<1>6. a \in [1 .. n + 1 -> Nat] /\ a[l] \in Nat /\ a[l] = b[l]
  <2>0. n \in Nat /\ n >= 1 /\ l \in 1 .. n
    BY <1>2
  <2>1. l \in 1 .. n + 1
    BY ONLY <2>0
  <2> QED
    BY ONLY <1>5, <2>0, <2>1
<1>7. e \in [1 .. n + 1 -> Nat] /\ e[l] = b[l] + 1 /\ \A j \in 1 .. n : j # l => e[j] = b[j]
  <2>0. n \in Nat /\ n >= 1 /\ l \in 1 .. n
    BY <1>2
  <2>1. l \in 1 .. n + 1 /\ \A j \in 1 .. n : j \in 1 .. n + 1
    BY ONLY <2>0
  <2>2. a[l] + 1 \in Nat
    BY <1>6
  <2>3. e = [j \in 1 .. n + 1 |-> IF j = l THEN a[l] + 1 ELSE a[j]]
    BY ONLY <1>6
  <2> HIDE DEF e
  <2>4. e \in [1 .. n + 1 -> Nat]
    BY ONLY <1>6, <2>2, <2>3
  <2> QED
    BY ONLY <1>5, <1>6, <2>1, <2>3, <2>4
<1>8. e \in Seq(Nat) /\ Len(e) = n + 1
  <2> HIDE DEF e
  <2>0. n \in Nat
    BY <1>2
  <2>1. n + 1 \in Nat /\ e \in [1 .. n + 1 -> Nat]
    BY ONLY <1>7, <2>0
  <2> QED
    BY ONLY <2>1
<1>9. LabelStarts(host, n) = LabelStarts(host, n - 1)
  <2>0. n \in Nat /\ n >= 1
    BY <1>2
  <2>1. /\ n - 1 + 1 = n /\ n + 1 - 1 = n /\ n + 1 # 1 /\ n + 1 \in 1 .. n + 1
        /\ \A p \in 1 .. n + 1 : p \in 1 .. n \/ p = n + 1
        /\ \A p \in 1 .. n : p \in 1 .. n + 1
    BY ONLY <2>0
  <2>2. ASSUME NEW p PROVE p \in LabelStarts(host, n) <=> p \in LabelStarts(host, n - 1)
    BY <2>1 DEF LabelStarts
  <2> QED
    BY <2>2
<1> HIDE DEF e
<1>10. ASSUME NEW j \in LabelStarts(host, n)
       PROVE  /\ \A k \in j .. j + e[j] - 1 : k <= n /\ host[k] # Dot
              /\ j # l => j + e[j] <= n /\ host[j + e[j]] = Dot
  <2>1. j \in LabelStarts(host, n - 1) /\ j \in 1 .. n /\ b[j] \in Nat
    BY <1>3, <1>9
  <2>2. CASE j = l
    <3>1. PICK c \in Nat : c = b[j] /\ e[j] = c + 1
      BY <1>7, <2>1, <2>2
    <3>2. l + c = n
      BY <1>2, <2>2, <3>1
    <3>6. n \in Nat /\ j \in Nat /\ j + c = n
      BY <1>2, <2>1, <2>2, <3>2
    <3>3. j + (c + 1) - 1 = n /\ j + c - 1 = n - 1
      BY ONLY <3>6, c \in Nat
    <3>4. \A k \in j .. n - 1 : k <= n - 1 /\ host[k] # Dot
      BY <1>3, <2>1, <3>1, <3>3
    <3>5. \A k \in j .. n : k <= n /\ (k = n \/ k \in j .. n - 1)
      BY ONLY <1>2, <2>1
    <3> QED
      BY <2>2, <3>1, <3>3, <3>4, <3>5
  <2>3. CASE j # l
    <3>1. e[j] = b[j]
      BY <1>7, <2>1, <2>3
    <3>2. /\ \A k \in j .. j + b[j] - 1 : k <= n - 1 /\ host[k] # Dot
          /\ j + b[j] <= n - 1 /\ host[j + b[j]] = Dot
      BY <1>3, <2>1, <2>3
    <3>3. PICK c \in Nat : c = b[j]
      BY <2>1
    <3>4. /\ \A k \in j .. j + c - 1 : k <= n /\ host[k] # Dot
          /\ j + c <= n /\ host[j + c] = Dot
      <4>1. \A k \in j .. j + c - 1 : k <= n - 1 /\ host[k] # Dot
        BY ONLY <3>2, <3>3
      <4>2. j + c <= n - 1 /\ host[j + c] = Dot
        BY ONLY <3>2, <3>3
      <4>3. n \in Nat /\ j \in Nat /\ c \in Nat
        BY <1>2, <2>1
      <4> QED
        BY ONLY <4>1, <4>2, <4>3
    <3> QED
      BY <3>1, <3>3, <3>4
  <2> QED
    BY <2>2, <2>3
<1>11. l \in LabelStarts(host, n) /\ l + e[l] = n + 1
  <2>1. PICK c \in Nat : c = b[l]
    BY <1>1, <1>2
  <2> QED
    <3>1. l + c = n
      BY <1>2, <2>1
    <3>2. n \in Nat /\ l \in 1 .. n
      BY <1>2
    <3>3. l + (c + 1) = n + 1
      BY ONLY <3>1, <3>2, c \in Nat
    <3> QED
      BY <1>2, <1>7, <1>9, <2>1, <3>3
<1>12. Encoded(host, n, e, l)
  BY <1>8, <1>10, <1>11 DEF Encoded
<1> QED
  BY <1>1, <1>4, <1>12

\* A host is encoded as a name, one byte longer than it at each end
LEMMA HostIsName ==
    ASSUME NEW host, RealHost(host)
    PROVE  RealName(encodeName(host)) /\ Len(encodeName(host)) = Len(host) + 2
<1>1. PICK n \in Nat : n = Len(host) /\ host \in Seq(Nat)
  BY DEF RealHost
<1> DEFINE after == Encodings(host)
           T == {i \in 0 .. n : Encoded(host, i, after[i].bytes, after[i].length)}
<1>2. \A i \in 0 .. n : after[i] = IF i = 0 THEN [bytes |-> <<0>>, length |-> 1]
                                   ELSE EncodeCharacter(after[i - 1], host[i])
  <2>1. after = [i \in 0 .. n |-> IF i = 0 THEN [bytes |-> <<0>>, length |-> 1]
                                  ELSE EncodeCharacter(after[i - 1], host[i])]
    BY <1>1, EncodingsIs
  <2> HIDE DEF after
  <2> QED
    BY <2>1
<1> HIDE DEF after
<1>3. 0 \in T
  <2>1. after[0].bytes = <<0>> /\ after[0].length = 1
    BY <1>1, <1>2
  <2>2. LabelStarts(host, 0) = {1}
    BY DEF LabelStarts
  <2>3. Encoded(host, 0, <<0>>, 1)
    BY <2>2 DEF Encoded
  <2> QED
    BY <1>1, <2>1, <2>3
<1>4. ASSUME NEW i \in 1 .. n, i - 1 \in T PROVE i \in T
  <2>1. Encoded(host, i - 1, after[i - 1].bytes, after[i - 1].length) /\ i \in 1 .. Len(host)
    BY <1>1, <1>4
  <2>2. after[i] = EncodeCharacter(after[i - 1], host[i]) /\ i \in 0 .. n
    BY <1>1, <1>2
  <2>3. Encoded(host, i, after[i].bytes, after[i].length)
    BY <1>1, <2>1, <2>2, EncodesDot, EncodesOther
  <2> QED
    BY <2>2, <2>3
<1>5. n \in T
  <2>1. n \in 0 .. n
    BY <1>1
  <2> HIDE DEF T
  <2> QED
    BY <1>1, <1>3, <1>4, <2>1, AllUpTo
<1>6. PICK b, l : after[n].bytes = b /\ Encoded(host, n, b, l)
  BY <1>5
<1> DEFINE name == Append(b, 0)
<1>7. encodeName(host) = name
  BY <1>1, <1>6 DEF encodeName, after
<1>8. b \in Seq(Nat) /\ Len(b) = n + 1
  BY <1>6 DEF Encoded
<1>9. /\ name \in Seq(Nat) /\ Len(name) = n + 2 /\ name[n + 2] = 0
      /\ \A j \in 1 .. n + 1 : name[j] = b[j] /\ b[j] \in Nat
  BY <1>1, <1>8
<1> HIDE DEF name
<1>10. ASSUME NEW s \in LabelStarts(host, n)
       PROVE  /\ s \in 1 .. n + 1 /\ name[s] \in 1 .. Pointer - 1
              /\ s + name[s] + 1 \in LabelStarts(host, n) \/ s + name[s] + 1 = n + 2
  <2>1. s \in 1 .. n + 1
    BY DEF LabelStarts
  <2>2. PICK c \in Nat : name[s] = c /\ b[s] = c
    BY <1>9, <2>1
  <2>3. /\ \A k \in s .. s + c - 1 : k <= n /\ host[k] # Dot
        /\ s + c = n + 1 \/ (s + c <= n /\ host[s + c] = Dot)
    BY <1>6, <2>2 DEF Encoded
  <2>4. PICK end \in s + 1 .. s + Pointer - 1 :
           /\ \A k \in s .. end - 1 : k <= n /\ host[k] # Dot
           /\ end = n + 1 \/ (end <= n /\ host[end] = Dot)
    BY <1>1 DEF RealHost
  <2>5. s \in Nat /\ end \in Nat /\ s + 1 <= end /\ end <= s + Pointer - 1 /\ Pointer \in Nat
    BY <2>1, <2>4 DEF Pointer
  <2>6. ~(s + c < end)
    <3> SUFFICES ASSUME s + c < end PROVE FALSE
      OBVIOUS
    <3>1. s + c \in s .. end - 1
      BY ONLY <2>2, <2>5, s + c < end
    <3>2. s + c <= n /\ host[s + c] # Dot
      BY ONLY <2>4, <3>1
    <3> QED
      BY ONLY <1>1, <2>2, <2>3, <2>5, <3>2
  <2>7. ~(end < s + c)
    <3> SUFFICES ASSUME end < s + c PROVE FALSE
      OBVIOUS
    <3>1. end \in s .. s + c - 1
      BY ONLY <2>2, <2>5, end < s + c
    <3>2. end <= n /\ host[end] # Dot
      BY ONLY <2>3, <3>1
    <3> QED
      BY ONLY <1>1, <2>4, <2>5, <3>2
  <2>8. s + c = end
    BY ONLY <2>2, <2>5, <2>6, <2>7
  <2>9. c \in 1 .. Pointer - 1
    BY ONLY <2>2, <2>5, <2>8
  <2>10. s + c + 1 \in LabelStarts(host, n) \/ s + c + 1 = n + 2
    <3>1. CASE s + c = n + 1
      BY ONLY <1>1, <2>2, <2>5, <3>1
    <3>2. CASE s + c <= n /\ host[s + c] = Dot
      <4>1. s + c + 1 \in 1 .. n + 1 /\ (s + c + 1) - 1 = s + c
        BY ONLY <1>1, <2>2, <2>5, <3>2
      <4> QED
        BY ONLY <3>2, <4>1 DEF LabelStarts
    <3> QED
      BY <2>3, <3>1, <3>2
  <2> QED
    BY <2>1, <2>2, <2>9, <2>10
<1> DEFINE starts == LabelStarts(host, n)
<1>11. starts \in SUBSET (1 .. Len(name)) /\ 1 \in starts
  BY <1>1, <1>9 DEF LabelStarts
<1>12. ASSUME NEW s \in starts
       PROVE  LET next == s + name[s] + 1
              IN  IF name[s] >= Pointer THEN s + 1 = Len(name)
                  ELSE name[s] # 0 /\ (next \in starts \/ (next = Len(name) /\ name[next] = 0))
  <2>1. PICK c \in Nat : c = name[s] /\ c >= 1 /\ c < Pointer
    BY <1>10 DEF Pointer
  <2>2. s + c + 1 \in starts \/ s + c + 1 = n + 2
    BY <1>10, <2>1
  <2> QED
    BY <1>9, <2>1, <2>2 DEF Pointer
<1> HIDE DEF starts
<1>13. RealName(name)
  BY <1>9, <1>11, <1>12 DEF RealName
<1> QED
  BY <1>1, <1>7, <1>9, <1>13

\* Two sequences, one after the other
LEMMA TwoSequences ==
    ASSUME NEW a \in Seq(Nat), NEW b \in Seq(Nat)
    PROVE  /\ a \o b \in Seq(Nat) /\ Len(a \o b) = Len(a) + Len(b)
           /\ \A k \in 1 .. Len(a) : (a \o b)[k] = a[k]
           /\ \A k \in 1 .. Len(b) : (a \o b)[Len(a) + k] = b[k]
OBVIOUS

\* Pieces of a message that is put together
LEMMA LiesAlso ==
    ASSUME NEW a \in Seq(Nat), NEW b \in Seq(Nat), NEW x \in Seq(Nat), NEW p, Lies(a, p, x)
    PROVE  Lies(a \o b, p, x)
<1>1. /\ p \in Nat /\ p >= 1 /\ p + Len(x) <= Len(a) + 1
      /\ \A k \in 1 .. Len(x) : a[p + k - 1] = x[k]
  BY DEF Lies
<1>2. /\ Len(a \o b) = Len(a) + Len(b)
      /\ \A q \in 1 .. Len(a) : (a \o b)[q] = a[q]
  OBVIOUS
<1>3. PICK m \in Nat, n \in Nat, l \in Nat : m = Len(a) /\ n = Len(b) /\ l = Len(x)
  OBVIOUS
<1>4. ASSUME NEW k \in 1 .. l PROVE (a \o b)[p + k - 1] = x[k]
  <2>1. p + k - 1 \in 1 .. m
    BY ONLY <1>1, <1>3, l \in Nat, m \in Nat
  <2> QED
    BY <1>1, <1>2, <1>3, <2>1
<1>5. p + l <= m + n + 1
  BY ONLY <1>1, <1>3, l \in Nat, m \in Nat, n \in Nat
<1> QED
  BY <1>1, <1>2, <1>3, <1>4, <1>5 DEF Lies

LEMMA LiesBehind ==
    ASSUME NEW a \in Seq(Nat), NEW b \in Seq(Nat), NEW x \in Seq(Nat), NEW p, Lies(b, p, x)
    PROVE  Lies(a \o b, Len(a) + p, x)
<1>1. /\ p \in Nat /\ p >= 1 /\ p + Len(x) <= Len(b) + 1
      /\ \A k \in 1 .. Len(x) : b[p + k - 1] = x[k]
  BY DEF Lies
<1>2. /\ Len(a \o b) = Len(a) + Len(b)
      /\ \A q \in 1 .. Len(b) : (a \o b)[Len(a) + q] = b[q]
  OBVIOUS
<1>3. PICK m \in Nat, n \in Nat, l \in Nat : m = Len(a) /\ n = Len(b) /\ l = Len(x)
  OBVIOUS
<1>4. ASSUME NEW k \in 1 .. l PROVE (a \o b)[m + p + k - 1] = x[k]
  <2>1. p + k - 1 \in 1 .. n /\ m + p + k - 1 = m + (p + k - 1)
    BY ONLY <1>1, <1>3, l \in Nat, m \in Nat, n \in Nat
  <2> QED
    BY <1>1, <1>2, <1>3, <2>1
<1>5. m + p + l <= m + n + 1 /\ m + p \in Nat \ {0}
  BY ONLY <1>1, <1>3, l \in Nat, m \in Nat, n \in Nat
<1> QED
  BY <1>2, <1>3, <1>4, <1>5 DEF Lies

LEMMA LiesItself ==
    ASSUME NEW x \in Seq(Nat)
    PROVE  Lies(x, 1, x)
<1>1. PICK l \in Nat : l = Len(x)
  OBVIOUS
<1>2. \A k \in 1 .. l : 1 + k - 1 = k
  OBVIOUS
<1>3. 1 + l <= l + 1
  OBVIOUS
<1> QED
  BY <1>1, <1>2, <1>3 DEF Lies

\* A piece is a part of the message
LEMMA PieceIs ==
    ASSUME NEW m \in Seq(Nat), NEW x \in Seq(Nat), NEW p, Lies(m, p, x)
    PROVE  SubSeq(m, p, p + Len(x) - 1) = x
<1>1. PICK d \in Nat, l \in Nat : d = Len(x) /\ l = Len(m)
  OBVIOUS
<1>2. /\ p \in Nat /\ p >= 1 /\ p + d <= l + 1
      /\ \A k \in 1 .. d : m[p + k - 1] = x[k]
  BY <1>1 DEF Lies
<1>3. PICK e \in Int :
         e = p + d - 1 /\ e <= l /\ e - p + 1 = d /\ (p <= e <=> d # 0)
  BY ONLY <1>2, d \in Nat, l \in Nat
<1> DEFINE y == SubSeq(m, p, e)
<1>4. Len(y) = d
  BY ONLY <1>2, <1>3, d \in Nat
<1>5. y \in Seq(Nat)
  BY ONLY <1>1, <1>2, <1>3, m \in Seq(Nat), l \in Nat
<1>6. ASSUME NEW k \in 1 .. d PROVE y[k] = m[p + k - 1]
  BY ONLY <1>2, <1>3, k \in 1 .. d, d \in Nat
<1> HIDE DEF y
<1>7. y \in [1 .. Len(y) -> Nat] /\ x \in [1 .. Len(x) -> Nat]
  BY <1>5
<1>8. y \in [1 .. d -> Nat] /\ x \in [1 .. d -> Nat]
  BY ONLY <1>1, <1>4, <1>7
<1>9. \A k \in 1 .. d : y[k] = x[k]
  BY ONLY <1>2, <1>6
<1>10. y = x
  BY ONLY <1>8, <1>9
<1> QED
  BY ONLY <1>1, <1>3, <1>10 DEF y

\* Where the pieces of a sequence of sequences lie
LEMMA PiecesLie ==
    ASSUME NEW n \in Nat, NEW seqs \in [1 .. n -> Seq(Nat)], NEW h, h[0] = <<>>,
           \A i \in 1 .. n : h[i] = h[i - 1] \o seqs[i]
    PROVE  \A k \in 0 .. n :
              /\ h[k] \in Seq(Nat)
              /\ \A i \in 1 .. k : /\ Lies(h[k], Len(h[i - 1]) + 1, seqs[i])
                                   /\ Len(h[i]) = Len(h[i - 1]) + Len(seqs[i])
<1> DEFINE Good(k) == /\ h[k] \in Seq(Nat)
                      /\ \A i \in 1 .. k : /\ Lies(h[k], Len(h[i - 1]) + 1, seqs[i])
                                           /\ Len(h[i]) = Len(h[i - 1]) + Len(seqs[i])
           T == {k \in 0 .. n : Good(k)}
<1> HIDE DEF Good
<1>1. 0 \in T
  <2>1. h[0] \in Seq(Nat) /\ \A i \in 1 .. 0 : FALSE
    OBVIOUS
  <2>2. Good(0)
    BY <2>1 DEF Good
  <2> QED
    BY <2>2
<1>2. ASSUME NEW k \in 1 .. n, k - 1 \in T PROVE k \in T
  <2>0. Good(k - 1)
    BY <1>2
  <2> HIDE DEF T
  <2>1. PICK a, b : a = h[k - 1] /\ b = seqs[k] /\ b \in Seq(Nat) /\ h[k] = a \o b
    OBVIOUS
  <2>2. a \in Seq(Nat) /\ \A i \in 1 .. k - 1 : /\ Lies(a, Len(h[i - 1]) + 1, seqs[i])
                                              /\ Len(h[i]) = Len(h[i - 1]) + Len(seqs[i])
    BY <2>0, <2>1 DEF Good
  <2>3. h[k] \in Seq(Nat) /\ Len(h[k]) = Len(a) + Len(b)
    BY ONLY <2>1, <2>2
  <2>4. ASSUME NEW i \in 1 .. k
        PROVE  /\ Lies(h[k], Len(h[i - 1]) + 1, seqs[i])
               /\ Len(h[i]) = Len(h[i - 1]) + Len(seqs[i])
    <3>1. CASE i = k
      <4>1. Lies(a \o b, Len(a) + 1, b)
        BY <2>1, <2>2, LiesItself, LiesBehind
      <4> QED
        BY <2>1, <2>3, <3>1, <4>1
    <3>2. CASE i # k
      <4>1. i \in 1 .. k - 1 /\ seqs[i] \in Seq(Nat)
        BY <3>2
      <4>2. /\ Lies(a, Len(h[i - 1]) + 1, seqs[i])
            /\ Len(h[i]) = Len(h[i - 1]) + Len(seqs[i])
        BY <2>1, <2>2, <4>1
      <4>3. Lies(a \o b, Len(h[i - 1]) + 1, seqs[i])
        BY <2>1, <2>2, <4>1, <4>2, LiesAlso
      <4> QED
        BY <2>1, <4>2, <4>3
    <3> QED
      BY <3>1, <3>2
  <2>5. Good(k)
    BY <2>3, <2>4 DEF Good
  <2> QED
    BY <2>5 DEF T
<1>3. 0 .. n \subseteq T
  <2> HIDE DEF T
  <2> QED
    BY <1>1, <1>2, AllUpTo
<1> QED
  BY <1>3 DEF Good

\* FlattenSeq(), piece by piece
LEMMA FlattenIs ==
    ASSUME NEW n \in Nat, NEW seqs \in [1 .. n -> Seq(Nat)]
    PROVE  \E h : /\ h[0] = <<>> /\ \A i \in 1 .. n : h[i] = h[i - 1] \o seqs[i]
                  /\ h[n] = FlattenSeq(seqs)
<1>1. seqs \in Seq(Seq(Nat)) /\ Len(seqs) = n
  OBVIOUS
<1>2. CASE n = 0
  <2>1. seqs = <<>>
    BY <1>1, <1>2
  <2>2. FlattenSeq(seqs) = <<>>
    BY <1>1, <1>2, <2>1 DEF FlattenSeq
  <2> DEFINE h == [i \in 0 .. 0 |-> <<>>]
  <2>3. h[0] = <<>> /\ \A i \in 1 .. n : h[i] = h[i - 1] \o seqs[i]
    BY <1>2
  <2> HIDE DEF h
  <2> QED
    BY <1>2, <2>2, <2>3
<1>3. CASE n # 0
  <2> DEFINE F(f, k) == f = [i \in 1 .. k |-> IF i = 1 THEN seqs[i] ELSE f[i - 1] \o seqs[i]]
             T == {k \in 0 .. n : \E f : F(f, k)}
  <2>1. 0 \in T
    <3>1. F([i \in 1 .. 0 |-> i], 0)
      OBVIOUS
    <3>2. \E f : F(f, 0)
      BY <3>1
    <3> HIDE DEF F
    <3> QED
      BY <3>2
  <2>2. ASSUME NEW k \in 1 .. n, k - 1 \in T PROVE k \in T
    <3> HIDE DEF F
    <3>1. PICK f : F(f, k - 1)
      BY <2>2
    <3> DEFINE g == [i \in 1 .. k |-> IF i = k THEN (IF k = 1 THEN seqs[k] ELSE f[k - 1] \o seqs[k])
                                     ELSE f[i]]
    <3>2. F(g, k)
      <4>1. ASSUME NEW i \in 1 .. k - 1
            PROVE  g[i] = f[i] /\ f[i] = IF i = 1 THEN seqs[i] ELSE f[i - 1] \o seqs[i]
        <5>1. f[i] = IF i = 1 THEN seqs[i] ELSE f[i - 1] \o seqs[i]
          BY ONLY <3>1, i \in 1 .. k - 1 DEF F
        <5>2. i \in 1 .. k /\ i # k
          OBVIOUS
        <5> QED
          BY <5>1, <5>2
      <4>2. g[k] = IF k = 1 THEN seqs[k] ELSE f[k - 1] \o seqs[k]
        OBVIOUS
      <4>3. g = [i \in 1 .. k |-> g[i]]
        OBVIOUS
      <4> HIDE DEF g
      <4>4. ASSUME NEW i \in 1 .. k
            PROVE  g[i] = IF i = 1 THEN seqs[i] ELSE g[i - 1] \o seqs[i]
        <5>1. CASE i = k
          <6>1. k # 1 => k - 1 \in 1 .. k - 1
            OBVIOUS
          <6> QED
            BY <4>1, <4>2, <5>1, <6>1
        <5>2. CASE i # k
          <6>1. i \in 1 .. k - 1 /\ (i # 1 => i - 1 \in 1 .. k - 1)
            BY <5>2
          <6> QED
            BY ONLY <4>1, <6>1
        <5> QED
          BY <5>1, <5>2
      <4> QED
        BY <4>3, <4>4 DEF F
    <3> HIDE DEF g
    <3> QED
      BY <3>2
  <2> HIDE DEF T
  <2>3. 0 .. n \subseteq T
    BY <2>1, <2>2, AllUpTo
  <2>4. \E f : F(f, n)
    <3>1. n \in 0 .. n
      OBVIOUS
    <3> QED
      BY <2>3, <3>1 DEF T
  <2> DEFINE f == CHOOSE f : F(f, n)
  <2>5. F(f, n)
    BY <2>4, Zenon
  <2>6. FlattenSeq(seqs) = f[n]
    BY <1>1, <1>3 DEF FlattenSeq
  <2> HIDE DEF f
  <2>7. \A i \in 1 .. n : f[i] = IF i = 1 THEN seqs[i] ELSE f[i - 1] \o seqs[i]
    BY <2>5
  <2> HIDE DEF F
  <2> DEFINE h == [i \in 0 .. n |-> IF i = 0 THEN <<>> ELSE f[i]]
  <2>8. h[0] = <<>> /\ h[n] = f[n]
    BY <1>3
  <2>9. ASSUME NEW i \in 1 .. n PROVE h[i] = h[i - 1] \o seqs[i]
    <3>1. CASE i = 1
      <4>1. PICK s \in Seq(Nat) : s = seqs[1] /\ s = f[1]
        BY <2>7, <3>1
      <4>2. <<>> \o s = s
        BY ONLY s \in Seq(Nat)
      <4> QED
        BY <3>1, <4>1, <4>2
    <3>2. CASE i # 1
      <4>1. i - 1 # 0 /\ i # 0 /\ i - 1 \in 0 .. n /\ i \in 0 .. n
        BY <3>2
      <4>2. h[i] = f[i] /\ h[i - 1] = f[i - 1]
        BY <4>1
      <4> QED
        BY <2>7, <3>2, <4>2
    <3> QED
      BY <3>1, <3>2
  <2> HIDE DEF h
  <2> QED
    BY <2>6, <2>8, <2>9
<1> QED
  BY <1>2, <1>3

\* What is found, for each number of answers
LEMMA FindAddressIs ==
    ASSUME NEW message, NEW count \in Nat
    PROVE  FindAddress(message, count) = [n \in 0 .. count |->
              [q \in Nat |->
                LET record == skipOverName(message, q)
                    next == record + HeaderLen + message[record + 2]
                IN  IF n = 0 THEN NULL
                    ELSE IF IsAddress(message, record) THEN record + HeaderLen
                    ELSE IF next > Len(message) + 1 THEN NULL
                    ELSE FindAddress(message, count)[n - 1][next]]]
<1> DEFINE Step(n, before) ==
              [q \in Nat |->
                LET record == skipOverName(message, q)
                    next == record + HeaderLen + message[record + 2]
                IN  IF n = 0 THEN NULL
                    ELSE IF IsAddress(message, record) THEN record + HeaderLen
                    ELSE IF next > Len(message) + 1 THEN NULL
                    ELSE before[next]]
           F(f, k) == f = [n \in 0 .. k |-> Step(n, f[n - 1])]
           T == {k \in 0 .. count : \E f : F(f, k)}
<1>1. 0 \in T
  <2>1. Step(0, 0) = Step(0, [n \in 0 .. 0 |-> Step(0, 0)][0 - 1])
    OBVIOUS
  <2> HIDE DEF Step
  <2>2. F([n \in 0 .. 0 |-> Step(0, 0)], 0)
    <3>1. \A n \in 0 .. 0 : n = 0
      OBVIOUS
    <3> QED
      BY <2>1, <3>1
  <2>3. \E f : F(f, 0)
    BY <2>2
  <2> HIDE DEF F
  <2> QED
    BY <2>3
<1>2. ASSUME NEW k \in 1 .. count, k - 1 \in T PROVE k \in T
  <2> HIDE DEF F, Step
  <2>1. PICK f : F(f, k - 1)
    BY <1>2
  <2> DEFINE g == [n \in 0 .. k |-> IF n = k THEN Step(k, f[k - 1]) ELSE f[n]]
  <2>2. F(g, k)
    <3>1. \A n \in 1 .. k : g[n - 1] = f[n - 1]
      OBVIOUS
    <3>2. \A n \in 0 .. k - 1 : f[n] = Step(n, f[n - 1]) /\ g[n] = f[n]
      BY <2>1 DEF F
    <3>3. Step(0, f[0 - 1]) = Step(0, g[0 - 1])
      BY DEF Step
    <3>4. \A n \in 0 .. k : g[n] = Step(n, g[n - 1])
      <4>1. g[k] = Step(k, g[k - 1])
        BY <3>1
      <4>2. ASSUME NEW n \in 1 .. k - 1 PROVE g[n] = Step(n, g[n - 1])
        <5> HIDE DEF g
        <5>1. n \in 1 .. k /\ n \in 0 .. k - 1
          OBVIOUS
        <5>2. g[n - 1] = f[n - 1]
          BY ONLY <3>1, <5>1
        <5>3. g[n] = f[n] /\ f[n] = Step(n, f[n - 1])
          BY ONLY <3>2, <5>1
        <5> QED
          BY ONLY <5>2, <5>3
      <4>3. g[0] = Step(0, g[0 - 1])
        BY <3>2, <3>3
      <4>4. \A n \in 0 .. k : n = k \/ n = 0 \/ n \in 1 .. k - 1
        OBVIOUS
      <4> HIDE DEF g
      <4> QED
        BY <4>1, <4>2, <4>3, <4>4
    <3> HIDE DEF g
    <3>5. g = [n \in 0 .. k |-> g[n]]
      BY DEF g
    <3> QED
      BY <3>4, <3>5 DEF F
  <2> HIDE DEF g
  <2> QED
    BY <2>2
<1> HIDE DEF T
<1>3. 0 .. count \subseteq T
  BY <1>1, <1>2, AllUpTo
<1>4. \E f : F(f, count)
  <2>1. count \in 0 .. count
    OBVIOUS
  <2> QED
    BY <1>3, <2>1 DEF T
<1> QED
  BY <1>4, Zenon DEF FindAddress

\* A record as it is in a message, and whether its data is an address
RecordOf(a) == a.name \o <<a.type, a.class, Len(a.data)>> \o a.data
RealRecord(a) ==
    RealName(a.name) /\ a.type \in Nat /\ a.class \in Nat /\ a.data \in Seq(Nat)
HasAddress(a) == a.type = AAAA /\ a.class = CLASS_IN /\ Len(a.data) = AddressLen

\* What is read of a record, where it lies
LEMMA RecordParts ==
    ASSUME NEW message \in Seq(Nat), NEW a, RealRecord(a), NEW p, Lies(message, p, RecordOf(a))
    PROVE  \E r \in Nat :
              /\ r = skipOverName(message, p) /\ r = p + Len(a.name)
              /\ message[r] = a.type /\ message[r + 1] = a.class /\ message[r + 2] = Len(a.data)
              /\ Lies(message, r + 3, a.data)
              /\ p \in Nat /\ Len(RecordOf(a)) \in Nat
              /\ p + Len(RecordOf(a)) = r + 3 + Len(a.data)
              /\ r + 3 + Len(a.data) <= Len(message) + 1
<1>1. PICK name, data \in Seq(Nat), type \in Nat, class \in Nat :
         name = a.name /\ data = a.data /\ type = a.type /\ class = a.class /\ RealName(name)
  <2>1. a.name \in Seq(Nat)
    BY DEF RealRecord, RealName
  <2> QED
    BY <2>1 DEF RealRecord
<1>2. PICK l \in Nat, d \in Nat, m \in Nat : l = Len(name) /\ d = Len(data) /\ m = Len(message)
  OBVIOUS
<1> DEFINE header == <<type, class, d>>
           front == name \o header
           record == front \o data
<1>3. RecordOf(a) = record
  BY <1>1, <1>2 DEF RecordOf
<1>4. header \in Seq(Nat) /\ Len(header) = 3
      /\ header[1] = type /\ header[2] = class /\ header[3] = d
  OBVIOUS
<1> HIDE DEF header
<1>5. /\ front \in Seq(Nat) /\ Len(front) = l + 3
      /\ \A k \in 1 .. l : front[k] = name[k]
      /\ front[l + 1] = type /\ front[l + 2] = class /\ front[l + 3] = d
  <2>1. PICK x \in Seq(Nat) : x = header /\ Len(x) = 3 /\ x[1] = type /\ x[2] = class /\ x[3] = d
    BY <1>4
  <2>2. /\ name \o x \in Seq(Nat) /\ Len(name \o x) = l + 3
        /\ \A k \in 1 .. l : (name \o x)[k] = name[k]
        /\ \A k \in 1 .. 3 : (name \o x)[l + k] = x[k]
    <3>1. Len(name) = l /\ Len(x) = 3 /\ name \in Seq(Nat) /\ x \in Seq(Nat)
      BY <1>2, <2>1
    <3>2. /\ name \o x \in Seq(Nat) /\ Len(name \o x) = Len(name) + Len(x)
          /\ \A k \in 1 .. Len(name) : (name \o x)[k] = name[k]
          /\ \A k \in 1 .. Len(x) : (name \o x)[Len(name) + k] = x[k]
      BY <3>1, TwoSequences
    <3> QED
      BY ONLY <3>1, <3>2
  <2>3. (name \o x)[l + 1] = x[1] /\ (name \o x)[l + 2] = x[2] /\ (name \o x)[l + 3] = x[3]
    <3>1. 1 \in 1 .. 3 /\ 2 \in 1 .. 3 /\ 3 \in 1 .. 3
      OBVIOUS
    <3> QED
      BY ONLY <2>2, <3>1
  <2>4. front = name \o x
    BY ONLY <2>1
  <2> HIDE DEF front
  <2> QED
    BY ONLY <2>1, <2>2, <2>3, <2>4
<1> HIDE DEF front
<1>6. /\ record \in Seq(Nat) /\ Len(record) = l + 3 + d
      /\ \A k \in 1 .. l + 3 : record[k] = front[k]
      /\ \A k \in 1 .. d : record[l + 3 + k] = data[k]
  <2>1. PICK x \in Seq(Nat) : x = front /\ Len(x) = l + 3
    BY <1>5
  <2>2. /\ x \o data \in Seq(Nat) /\ Len(x \o data) = l + 3 + d
        /\ \A k \in 1 .. l + 3 : (x \o data)[k] = x[k]
        /\ \A k \in 1 .. d : (x \o data)[l + 3 + k] = data[k]
    <3>1. Len(data) = d /\ Len(x) = l + 3 /\ data \in Seq(Nat) /\ x \in Seq(Nat)
      BY <1>2, <2>1
    <3>2. /\ x \o data \in Seq(Nat) /\ Len(x \o data) = Len(x) + Len(data)
          /\ \A k \in 1 .. Len(x) : (x \o data)[k] = x[k]
          /\ \A k \in 1 .. Len(data) : (x \o data)[Len(x) + k] = data[k]
      BY <3>1, TwoSequences
    <3> QED
      BY ONLY <3>1, <3>2
  <2> QED
    BY <2>1, <2>2
<1> HIDE DEF record
<1>7. /\ p \in Nat /\ p >= 1 /\ p + (l + 3 + d) <= m + 1
      /\ \A k \in 1 .. l + 3 + d : message[p + k - 1] = record[k]
  BY <1>2, <1>3, <1>6 DEF Lies
<1>8. Lies(message, p, name)
  <2>1. ASSUME NEW k \in 1 .. l PROVE message[p + k - 1] = name[k]
    <3>1. k \in 1 .. l + 3 /\ k \in 1 .. l + 3 + d
      OBVIOUS
    <3> QED
      BY <1>5, <1>6, <1>7, <3>1
  <2>2. p + l <= m + 1
    BY ONLY <1>7, l \in Nat, d \in Nat, m \in Nat
  <2> QED
    BY <1>2, <1>7, <2>1, <2>2 DEF Lies
<1> DEFINE r == p + l
<1>9. skipOverName(message, p) = r
  BY <1>1, <1>2, <1>8, NameIsSkipped
<1>10. message[r] = type /\ message[r + 1] = class /\ message[r + 2] = d
  <2>1. /\ l + 1 \in 1 .. l + 3 + d /\ l + 2 \in 1 .. l + 3 + d /\ l + 3 \in 1 .. l + 3 + d
        /\ l + 1 \in 1 .. l + 3 /\ l + 2 \in 1 .. l + 3 /\ l + 3 \in 1 .. l + 3
        /\ p + (l + 1) - 1 = r /\ p + (l + 2) - 1 = r + 1 /\ p + (l + 3) - 1 = r + 2
    BY ONLY <1>7, l \in Nat, d \in Nat
  <2> HIDE DEF r
  <2> QED
    BY <1>5, <1>6, <1>7, <2>1
<1>11. Lies(message, r + 3, data)
  <2>1. ASSUME NEW k \in 1 .. d PROVE message[r + 3 + k - 1] = data[k]
    <3>1. l + 3 + k \in 1 .. l + 3 + d /\ p + (l + 3 + k) - 1 = r + 3 + k - 1
      BY ONLY <1>7, l \in Nat, d \in Nat, k \in 1 .. d
    <3> HIDE DEF r
    <3> QED
      BY <1>6, <1>7, <3>1
  <2>2. r + 3 \in Nat \ {0} /\ r + 3 + d <= m + 1
    BY ONLY <1>7, l \in Nat, d \in Nat, m \in Nat
  <2> HIDE DEF r
  <2> QED
    BY <1>2, <2>1, <2>2 DEF Lies
<1>12. r \in Nat /\ l + 3 + d \in Nat /\ p + (l + 3 + d) = r + 3 + d /\ r + 3 + d <= m + 1
  BY ONLY <1>7, l \in Nat, d \in Nat, m \in Nat
<1> HIDE DEF r
<1>13. r = p + l
  BY DEF r
<1> QED
  BY <1>1, <1>2, <1>3, <1>6, <1>7, <1>9, <1>10, <1>11, <1>12, <1>13

\* An answer is looked at
LEMMA AnswerIsRead ==
    ASSUME NEW message \in Seq(Nat), NEW a, RealRecord(a), NEW p, Lies(message, p, RecordOf(a)),
           NEW count \in Nat, NEW n \in 1 .. count
    PROVE  FindAddress(message, count)[n][p] =
              IF HasAddress(a) THEN p + Len(a.name) + 3
              ELSE FindAddress(message, count)[n - 1][p + Len(RecordOf(a))]
<1>1. PICK r \in Nat, d \in Nat, m \in Nat, length \in Nat :
         /\ r = skipOverName(message, p) /\ r = p + Len(a.name)
         /\ message[r] = a.type /\ message[r + 1] = a.class /\ message[r + 2] = d
         /\ d = Len(a.data) /\ m = Len(message) /\ length = Len(RecordOf(a))
         /\ p \in Nat /\ p + length = r + 3 + d /\ r + 3 + d <= m + 1
  <2>1. a.data \in Seq(Nat)
    BY DEF RealRecord
  <2>2. PICK d \in Nat, m \in Nat : d = Len(a.data) /\ m = Len(message)
    BY <2>1
  <2>3. PICK r \in Nat :
              /\ r = skipOverName(message, p) /\ r = p + Len(a.name)
              /\ message[r] = a.type /\ message[r + 1] = a.class /\ message[r + 2] = d
              /\ p \in Nat /\ Len(RecordOf(a)) \in Nat
              /\ p + Len(RecordOf(a)) = r + 3 + d /\ r + 3 + d <= m + 1
    BY <2>2, RecordParts
  <2>4. PICK length \in Nat : length = Len(RecordOf(a)) /\ p + length = r + 3 + d
    BY <2>3
  <2> QED
    BY <2>2, <2>3, <2>4
<1> DEFINE find == FindAddress(message, count)
           H(k, q) == LET record == skipOverName(message, q)
                          next == record + HeaderLen + message[record + 2]
                      IN  IF k = 0 THEN NULL
                          ELSE IF IsAddress(message, record) THEN record + HeaderLen
                          ELSE IF next > Len(message) + 1 THEN NULL
                          ELSE find[k - 1][next]
<1>2. find = [k \in 0 .. count |-> [q \in Nat |-> H(k, q)]]
  BY FindAddressIs
<1> HIDE DEF H, find
<1>3. find[n][p] = H(n, p)
  <2>1. n \in 0 .. count /\ p \in Nat
    BY <1>1
  <2> QED
    BY ONLY <1>2, <2>1
<1>4. IsAddress(message, r) <=> HasAddress(a)
  BY <1>1 DEF IsAddress, HasAddress
<1>5. ~(r + 3 + d > m + 1) /\ n # 0
  <2>1. r + 3 + d <= m + 1
    BY <1>1
  <2> QED
    BY ONLY <2>1, r \in Nat, d \in Nat, m \in Nat, n \in 1 .. count, count \in Nat
<1>6. H(n, p) = IF n = 0 THEN NULL
                ELSE IF IsAddress(message, r) THEN r + 3
                ELSE IF r + 3 + d > m + 1 THEN NULL
                ELSE find[n - 1][r + 3 + d]
  BY ONLY <1>1 DEF H, HeaderLen
<1>7. find[n][p] = IF HasAddress(a) THEN r + 3 ELSE find[n - 1][p + length]
  BY ONLY <1>1, <1>3, <1>4, <1>5, <1>6
<1> QED
  BY <1>1, <1>7 DEF find

\* No answer is left
LEMMA NoAnswerIsLeft ==
    ASSUME NEW message \in Seq(Nat), NEW count \in Nat, NEW q \in Nat
    PROVE  FindAddress(message, count)[0][q] = NULL
<1> DEFINE find == FindAddress(message, count)
           H(n, p) == LET record == skipOverName(message, p)
                          next == record + HeaderLen + message[record + 2]
                      IN  IF n = 0 THEN NULL
                          ELSE IF IsAddress(message, record) THEN record + HeaderLen
                          ELSE IF next > Len(message) + 1 THEN NULL
                          ELSE find[n - 1][next]
<1>1. find = [n \in 0 .. count |-> [p \in Nat |-> H(n, p)]]
  BY FindAddressIs
<1> HIDE DEF H, find
<1>2. 0 \in 0 .. count
  OBVIOUS
<1>3. find[0][q] = H(0, q)
  BY ONLY <1>1, <1>2, q \in Nat
<1>4. H(0, q) = NULL
  BY DEF H
<1> QED
  BY <1>3, <1>4 DEF find

\* Answers that lie one after the other in a message
AnswersLie(message, count, answers, pos) ==
    /\ pos[count + 1] \in Nat
    /\ \A i \in 1 .. count :
         /\ RealRecord(answers[i]) /\ Lies(message, pos[i], RecordOf(answers[i]))
         /\ pos[i + 1] = pos[i] + Len(RecordOf(answers[i]))

\* What is found of them is the data of the first address
FirstIsFound(count, answers, pos, found) ==
    \/ found = NULL /\ \A i \in 1 .. count : ~HasAddress(answers[i])
    \/ \E j \in 1 .. count :
         /\ HasAddress(answers[j]) /\ \A i \in 1 .. j - 1 : ~HasAddress(answers[i])
         /\ found = pos[j] + Len(answers[j].name) + 3

LEMMA AddressIsFound ==
    ASSUME NEW message \in Seq(Nat), NEW count \in Nat, NEW answers, NEW pos,
           AnswersLie(message, count, answers, pos)
    PROVE  FirstIsFound(count, answers, pos, FindAddress(message, count)[count][pos[1]])
<1> DEFINE find == FindAddress(message, count)
           First(b, x, j) ==
              /\ HasAddress(answers[j])
              /\ \A i \in b .. j - 1 : ~HasAddress(answers[i])
              /\ x = pos[j] + Len(answers[j].name) + 3
           Good(b, x) ==
              \/ x = NULL /\ \A i \in b .. count : ~HasAddress(answers[i])
              \/ \E j \in b .. count : First(b, x, j)
           T == {k \in 0 .. count : Good(count - k + 1, find[k][pos[count - k + 1]])}
<1>1. 0 \in T
  <2>1. count - 0 + 1 = count + 1 /\ count + 1 .. count = {}
    OBVIOUS
  <2>2. find[0][pos[count + 1]] = NULL
    BY NoAnswerIsLeft DEF AnswersLie
  <2> HIDE DEF find
  <2>3. Good(count + 1, find[0][pos[count + 1]])
    BY <2>1, <2>2
  <2> HIDE DEF Good
  <2> QED
    BY <2>1, <2>3
<1>2. ASSUME NEW k \in 1 .. count, k - 1 \in T PROVE k \in T
  <2>1. PICK b \in 1 .. count : b = count - k + 1 /\ count - (k - 1) + 1 = b + 1
    OBVIOUS
  <2>2. PICK x : x = find[k - 1][pos[b + 1]]
    OBVIOUS
  <2>3. Good(b + 1, x)
    <3> HIDE DEF Good, find
    <3> QED
      BY <1>2, <2>1, <2>2
  <2>4. find[k][pos[b]] = IF HasAddress(answers[b]) THEN pos[b] + Len(answers[b].name) + 3 ELSE x
    <3>1. /\ RealRecord(answers[b]) /\ Lies(message, pos[b], RecordOf(answers[b]))
          /\ pos[b + 1] = pos[b] + Len(RecordOf(answers[b]))
      BY <2>1 DEF AnswersLie
    <3>2. PICK a, p : a = answers[b] /\ p = pos[b]
      OBVIOUS
    <3>3. find[k][p] = IF HasAddress(a) THEN p + Len(a.name) + 3
                       ELSE find[k - 1][p + Len(RecordOf(a))]
      <4>1. RealRecord(a) /\ Lies(message, p, RecordOf(a))
        BY <3>1, <3>2
      <4> QED
        BY ONLY <4>1, message \in Seq(Nat), count \in Nat, k \in 1 .. count, AnswerIsRead
    <3> HIDE DEF find
    <3> QED
      BY <2>2, <3>1, <3>2, <3>3
  <2> HIDE DEF find
  <2>5. Good(b, find[k][pos[b]])
    <3>1. CASE HasAddress(answers[b])
      <4>1. b \in b .. count /\ b .. b - 1 = {}
        BY <2>1
      <4>2. First(b, find[k][pos[b]], b)
        BY <2>4, <3>1, <4>1
      <4> HIDE DEF First
      <4> QED
        BY <4>1, <4>2
    <3>2. CASE ~HasAddress(answers[b])
      <4>1. find[k][pos[b]] = x
        BY <2>4, <3>2
      <4>2. ASSUME NEW c \in Nat, NEW i \in b .. c PROVE i = b \/ i \in b + 1 .. c
        BY <2>1
      <4>3. CASE x = NULL /\ \A i \in b + 1 .. count : ~HasAddress(answers[i])
        BY <3>2, <4>1, <4>2, <4>3
      <4>4. CASE \E j \in b + 1 .. count : First(b + 1, x, j)
        <5>1. PICK j \in b + 1 .. count : First(b + 1, x, j)
          BY <4>4
        <5>2. j \in b .. count /\ j - 1 \in Nat
          BY <2>1
        <5>3. \A i \in b .. j - 1 : ~HasAddress(answers[i])
          BY <3>2, <4>2, <5>1, <5>2
        <5>4. First(b, x, j)
          BY <5>1, <5>3
        <5> HIDE DEF First
        <5> QED
          BY <4>1, <5>2, <5>4
      <4> HIDE DEF First
      <4> QED
        BY <2>3, <4>3, <4>4
    <3> QED
      BY <3>1, <3>2
  <2> HIDE DEF Good
  <2> QED
    BY <2>1, <2>5
<1>3. count \in T
  <2>1. count \in 0 .. count
    OBVIOUS
  <2> HIDE DEF T
  <2> QED
    BY <1>1, <1>2, <2>1, AllUpTo
<1>4. count - count + 1 = 1
  OBVIOUS
<1>5. Good(1, find[count][pos[1]])
  <2> HIDE DEF Good, find
  <2> QED
    BY <1>3, <1>4
<1> HIDE DEF find
<1> QED
  BY <1>5 DEF find, FirstIsFound

\* What is found in a reply, of real names
LEMMA ReplyIsRead ==
    ASSUME NEW host, RealHost(host), LengthMod \in Nat \ {0}, NEW answers,
           answers \in Seq(Range(answers)), Len(answers) < LengthMod,
           \A a \in Range(answers) : RealRecord(a)
    PROVE  LET found == dnsProcessReply(Reply(host, answers), 1)
               message == Reply(host, answers).message
               fits == {i \in 1 .. Len(answers) : HasAddress(answers[i])}
           IN  IF fits = {} THEN found = NULL
               ELSE found # NULL /\
                    SubSeq(message, found, found + AddressLen - 1) = answers[Min(fits)].data
<1> DEFINE count == Len(answers)
           seqs == [i \in 1 .. count |-> RecordOf(answers[i])]
           name == encodeName(host)
           front == name \o <<0, AAAA, 0, CLASS_IN>>
           message == front \o FlattenSeq(seqs)
<1>1. count \in Nat /\ \A i \in 1 .. count : RealRecord(answers[i])
  <2>1. \A i \in 1 .. count : answers[i] \in Range(answers)
    OBVIOUS
  <2> QED
    BY <2>1
<1>2. seqs \in [1 .. count -> Seq(Nat)]
  <2>1. ASSUME NEW a, RealRecord(a) PROVE RecordOf(a) \in Seq(Nat)
    <3>1. a.name \in Seq(Nat) /\ a.type \in Nat /\ a.class \in Nat /\ a.data \in Seq(Nat)
      BY <2>1 DEF RealRecord, RealName
    <3>2. PICK d \in Nat : d = Len(a.data)
      BY <3>1
    <3>3. <<a.type, a.class, d>> \in Seq(Nat)
      BY <3>1
    <3>4. a.name \o <<a.type, a.class, d>> \in Seq(Nat)
      BY <3>1, <3>3
    <3> QED
      BY <3>1, <3>2, <3>4 DEF RecordOf
  <2> QED
    BY <1>1, <2>1
<1>3. /\ Reply(host, answers).message = message /\ Reply(host, answers).id = 1
      /\ Reply(host, answers).rcode = 0 /\ Reply(host, answers).ancount = count
  BY DEF Reply, RecordOf
<1> HIDE DEF seqs
<1>4. PICK h : /\ h[0] = <<>> /\ \A i \in 1 .. count : h[i] = h[i - 1] \o seqs[i]
               /\ h[count] = FlattenSeq(seqs)
  BY <1>1, <1>2, FlattenIs
<1>5. \A k \in 0 .. count :
        /\ h[k] \in Seq(Nat)
        /\ \A i \in 1 .. k : /\ Lies(h[k], Len(h[i - 1]) + 1, seqs[i])
                             /\ Len(h[i]) = Len(h[i - 1]) + Len(seqs[i])
  <2>1. count \in Nat
    BY <1>1
  <2> HIDE DEF count
  <2> QED
    BY ONLY <1>2, <1>4, <2>1, PiecesLie
<1>6. name \in Seq(Nat) /\ Len(name) \in Nat /\ RealName(name)
  BY HostIsName DEF RealName
<1> HIDE DEF name
<1>7. PICK b \in Nat : front \in Seq(Nat) /\ Len(front) = b /\ b = Len(name) + 4
  <2> DEFINE x == <<0, 28, 0, 1>>
  <2>1. x \in Seq(Nat) /\ Len(x) = 4
    OBVIOUS
  <2>2. name \o x \in Seq(Nat) /\ Len(name \o x) = Len(name) + 4
    BY <1>6, <2>1
  <2> QED
    BY <1>6, <2>1, <2>2 DEF AAAA, CLASS_IN
<1>8. Lies(front, 1, name)
  <2> DEFINE x == <<0, 28, 0, 1>>
  <2>1. x \in Seq(Nat)
    OBVIOUS
  <2>2. Lies(name \o x, 1, name)
    <3> HIDE DEF x
    <3> QED
      BY <1>6, <2>1, LiesItself, LiesAlso
  <2> QED
    BY <2>1, <2>2 DEF AAAA, CLASS_IN
<1> HIDE DEF front
<1>9. PICK rest \in Seq(Nat) : rest = FlattenSeq(seqs) /\ rest = h[count]
  <2>1. count \in 0 .. count
    BY <1>1
  <2> HIDE DEF count
  <2> QED
    BY ONLY <1>4, <1>5, <2>1
<1>10. message = front \o rest /\ message \in Seq(Nat) /\ Len(message) = b + Len(rest)
  <2>1. PICK x \in Seq(Nat) : x = front /\ Len(x) = b
    BY <1>7
  <2>2. x \o rest \in Seq(Nat) /\ Len(x \o rest) = b + Len(rest)
    BY ONLY <2>1, x \in Seq(Nat), rest \in Seq(Nat)
  <2> QED
    BY <1>9, <2>1, <2>2
<1> HIDE DEF message
<1>11. Lies(message, 1, name)
  BY <1>6, <1>7, <1>8, <1>10, LiesAlso
<1>12. skipOverName(message, 1) = 1 + Len(name)
  BY <1>6, <1>10, <1>11, NameIsSkipped
<1> DEFINE pos == [i \in 1 .. count + 1 |-> b + (Len(h[i - 1]) + 1)]
<1>13. ASSUME NEW i \in 1 .. count + 1 PROVE pos[i] = b + (Len(h[i - 1]) + 1) /\ pos[i] \in Nat
  <2>1. i - 1 \in 0 .. count
    BY <1>1
  <2> QED
    BY <1>5, <2>1
<1> HIDE DEF pos
<1>14. pos[1] = b + 1
  BY <1>1, <1>4, <1>13
<1>15. ASSUME NEW i \in 1 .. count
       PROVE  /\ RealRecord(answers[i]) /\ Lies(message, pos[i], RecordOf(answers[i]))
              /\ pos[i + 1] = pos[i] + Len(RecordOf(answers[i]))
  <2>1. /\ i \in 1 .. count + 1 /\ i + 1 \in 1 .. count + 1 /\ i + 1 - 1 = i
        /\ count \in 0 .. count
    BY <1>1
  <2>2. seqs[i] = RecordOf(answers[i]) /\ seqs[i] \in Seq(Nat)
    BY <1>2 DEF seqs
  <2>3. Lies(rest, Len(h[i - 1]) + 1, seqs[i]) /\ Len(h[i]) = Len(h[i - 1]) + Len(seqs[i])
    BY <1>5, <1>9, <2>1
  <2>4. Lies(message, b + (Len(h[i - 1]) + 1), seqs[i])
    BY <1>7, <1>9, <1>10, <2>2, <2>3, LiesBehind
  <2>5. PICK u \in Nat, v \in Nat : u = Len(h[i - 1]) /\ v = Len(seqs[i])
    <3>1. i - 1 \in 0 .. count
      BY <1>1
    <3>2. h[i - 1] \in Seq(Nat)
      BY <1>5, <3>1
    <3>3. Len(h[i - 1]) \in Nat /\ Len(seqs[i]) \in Nat
      BY ONLY <2>2, <3>2
    <3> QED
      BY ONLY <3>3
  <2>6. pos[i + 1] = b + (u + v + 1) /\ pos[i] = b + (u + 1)
    <3>1. pos[i] = b + (Len(h[i - 1]) + 1)
      BY <1>13, <2>1
    <3>2. pos[i + 1] = b + (Len(h[i + 1 - 1]) + 1)
      BY <1>13, <2>1
    <3> QED
      BY ONLY <2>1, <2>3, <2>5, <3>1, <3>2
  <2>7. b + (u + v + 1) = b + (u + 1) + v
    BY ONLY b \in Nat, u \in Nat, v \in Nat
  <2>8. pos[i + 1] = pos[i] + Len(RecordOf(answers[i]))
    BY ONLY <2>2, <2>5, <2>6, <2>7
  <2>9. Lies(message, pos[i], RecordOf(answers[i]))
    BY ONLY <2>2, <2>4, <2>5, <2>6
  <2> QED
    BY <1>1, <2>8, <2>9
<1>16. dnsProcessReply(Reply(host, answers), 1) = FindAddress(message, count)[count][pos[1]]
  <2>1. count % LengthMod = count
    <3>1. count \in Nat /\ LengthMod \in Nat /\ count < LengthMod
      BY <1>1
    <3> HIDE DEF count
    <3> QED
      BY ONLY <3>1
  <2>2. skipOverName(message, 1) + 4 = b + 1
    BY <1>6, <1>7, <1>12
  <2>3. ~(b + 1 > Len(message) + 1)
    BY <1>9, <1>10
  <2> QED
    BY <1>3, <1>14, <2>1, <2>2, <2>3 DEF dnsProcessReply
<1> DEFINE found == FindAddress(message, count)[count][pos[1]]
           fits == {i \in 1 .. count : HasAddress(answers[i])}
<1>17. FirstIsFound(count, answers, pos, found)
  <2>1. count \in Nat /\ message \in Seq(Nat)
    BY <1>1, <1>10
  <2>2. AnswersLie(message, count, answers, pos)
    <3>1. pos[count + 1] \in Nat
      BY <1>1, <1>13
    <3> HIDE DEF count
    <3> QED
      BY ONLY <1>15, <3>1 DEF AnswersLie
  <2> HIDE DEF count
  <2> QED
    BY ONLY <2>1, <2>2, AddressIsFound DEF found
<1> HIDE DEF found
<1>18. CASE found = NULL /\ \A i \in 1 .. count : ~HasAddress(answers[i])
  BY <1>3, <1>16, <1>18 DEF found
<1>19. CASE \E j \in 1 .. count :
             /\ HasAddress(answers[j]) /\ \A i \in 1 .. j - 1 : ~HasAddress(answers[i])
             /\ found = pos[j] + Len(answers[j].name) + 3
  <2>1. PICK j \in 1 .. count :
             /\ HasAddress(answers[j]) /\ \A i \in 1 .. j - 1 : ~HasAddress(answers[i])
             /\ found = pos[j] + Len(answers[j].name) + 3
    BY <1>19
  <2>2. j \in fits /\ \A i \in fits : j <= i
    BY <1>1, <2>1
  <2> HIDE DEF fits
  <2>3. Min(fits) = j
    <3>1. \A x \in fits : (\A y \in fits : x <= y) => x = j
      BY <1>1, <2>2 DEF fits
    <3> QED
      BY <2>2, <3>1 DEF Min
  <2>4. PICK data \in Seq(Nat), d \in Nat :
           data = answers[j].data /\ d = Len(data) /\ d = AddressLen
    BY <1>1, <2>1 DEF HasAddress, RealRecord
  <2>5. PICK r \in Nat : r + 3 = found /\ Lies(message, found, data)
    <3>1. PICK a, p : a = answers[j] /\ p = pos[j]
      OBVIOUS
    <3>2. RealRecord(a) /\ Lies(message, p, RecordOf(a))
      BY <1>15, <3>1
    <3>3. PICK r \in Nat : r = p + Len(a.name) /\ Lies(message, r + 3, a.data)
      BY <1>10, <3>2, RecordParts
    <3> QED
      BY <2>1, <2>4, <3>1, <3>3
  <2>6. /\ found \in Nat /\ found >= 1 /\ found + d <= Len(message) + 1
        /\ \A k \in 1 .. d : message[found + k - 1] = data[k]
    BY <2>4, <2>5 DEF Lies
  <2>7. SubSeq(message, found, found + d - 1) = data
    BY <1>10, <2>4, <2>5, PieceIs
  <2>8. found = dnsProcessReply(Reply(host, answers), 1) /\ found # NULL
    BY <1>16, <2>6 DEF found, NULL
  <2>9. SubSeq(message, found, found + AddressLen - 1) = answers[Min(fits)].data
    BY <2>3, <2>4, <2>7
  <2>10. fits # {}
    BY <2>2
  <2> QED
    BY <1>3, <2>8, <2>9, <2>10 DEF fits
<1> QED
  BY <1>17, <1>18, <1>19 DEF FirstIsFound

\* A reply is read
LEMMA ReplyRight == RealReplies /\ ProcessReply => AnswerIsFound'
<1> SUFFICES ASSUME RealReplies, ProcessReply PROVE AnswerIsFound'
  OBVIOUS
<1>1. PICK host \in Hosts, answers \in Answers :
         LET reply == Reply(host, answers)
         IN  Calls("reply", [host |-> host, answers |-> answers, message |-> reply.message,
                             found |-> dnsProcessReply(reply, 1)])
  BY DEF ProcessReply
<1>2. /\ call'.answers = answers /\ call'.message = Reply(host, answers).message
      /\ call'.found = dnsProcessReply(Reply(host, answers), 1)
  BY <1>1 DEF Calls
<1>3. /\ RealHost(host) /\ LengthMod \in Nat \ {0} /\ answers \in Seq(Range(answers))
      /\ Len(answers) < LengthMod /\ \A a \in Range(answers) : RealRecord(a)
  BY DEF RealReplies, RealRecord
<1>4. LET found == dnsProcessReply(Reply(host, answers), 1)
          message == Reply(host, answers).message
          fits == {i \in 1 .. Len(answers) : HasAddress(answers[i])}
      IN  IF fits = {} THEN found = NULL
          ELSE found # NULL /\
               SubSeq(message, found, found + AddressLen - 1) = answers[Min(fits)].data
  BY <1>3, ReplyIsRead
<1> QED
  BY <1>2, <1>4 DEF AnswerIsFound, HasAddress

-----------------------------------------------------------------------------
(* Texts of addresses *)

\* colon_count after each of the characters
LEMMA ColonCountsIs ==
    ASSUME NEW text, Len(text) \in Nat
    PROVE  ColonCounts(text) = [i \in 0 .. Len(text) |->
              IF i = 0 THEN 0
              ELSE IF i > 1 /\ text[i] = Colon
                THEN CountColon(ColonCounts(text)[i - 1], text[i - 1] = Colon)
                ELSE ColonCounts(text)[i - 1]]
<1> DEFINE First == 0
           Step(i, prior) == IF i > 1 /\ text[i] = Colon
                             THEN CountColon(prior, text[i - 1] = Colon)
                             ELSE prior
           F(f, k) == f = [i \in 0 .. k |-> IF i = 0 THEN First ELSE Step(i, f[i - 1])]
           T == {k \in 0 .. Len(text) : \E f : F(f, k)}
<1> HIDE DEF First, Step
<1>0. Len(text) \in Nat
  OBVIOUS
<1>1. 0 \in T
  <2>1. F([i \in 0 .. 0 |-> First], 0)
    OBVIOUS
  <2>2. \E f : F(f, 0)
    BY <2>1
  <2> HIDE DEF F
  <2> QED
    BY <1>0, <2>2
<1>2. ASSUME NEW k \in 1 .. Len(text), k - 1 \in T PROVE k \in T
  <2> HIDE DEF F
  <2>1. PICK f : F(f, k - 1)
    BY <1>2
  <2> DEFINE g == [i \in 0 .. k |-> IF i = k THEN Step(k, f[k - 1]) ELSE f[i]]
  <2>2. F(g, k)
    <3>1. \A i \in 0 .. k : g[i] = IF i = 0 THEN First ELSE Step(i, g[i - 1])
      BY <1>0, <2>1 DEF F
    <3> QED
      BY <1>0, <3>1 DEF F
  <2> HIDE DEF g
  <2> QED
    BY <1>0, <2>2
<1> HIDE DEF T
<1>3. 0 .. Len(text) \subseteq T
  BY <1>0, <1>1, <1>2, AllUpTo
<1>4. \E f : F(f, Len(text))
  <2>1. Len(text) \in 0 .. Len(text)
    BY <1>0
  <2> QED
    BY <1>3, <2>1 DEF T
<1> QED
  BY <1>4, Zenon DEF ColonCounts, First, Step

\* What has been read after each of them
LEMMA ReadingsIs ==
    ASSUME NEW text, Len(text) \in Nat
    PROVE  Readings(text) = [i \in 0 .. Len(text) + 1 |->
              IF i = 0 THEN NothingRead
              ELSE ReadCharacter(text, Readings(text)[i - 1], i)]
<1> DEFINE First == NothingRead
           Step(i, prior) == ReadCharacter(text, prior, i)
           F(f, k) == f = [i \in 0 .. k |-> IF i = 0 THEN First ELSE Step(i, f[i - 1])]
           T == {k \in 0 .. Len(text) + 1 : \E f : F(f, k)}
<1> HIDE DEF First, Step
<1>0. Len(text) + 1 \in Nat
  OBVIOUS
<1>1. 0 \in T
  <2>1. F([i \in 0 .. 0 |-> First], 0)
    OBVIOUS
  <2>2. \E f : F(f, 0)
    BY <2>1
  <2> HIDE DEF F
  <2> QED
    BY <1>0, <2>2
<1>2. ASSUME NEW k \in 1 .. Len(text) + 1, k - 1 \in T PROVE k \in T
  <2> HIDE DEF F
  <2>1. PICK f : F(f, k - 1)
    BY <1>2
  <2> DEFINE g == [i \in 0 .. k |-> IF i = k THEN Step(k, f[k - 1]) ELSE f[i]]
  <2>2. F(g, k)
    <3>1. \A i \in 0 .. k : g[i] = IF i = 0 THEN First ELSE Step(i, g[i - 1])
      BY <1>0, <2>1 DEF F
    <3> QED
      BY <1>0, <3>1 DEF F
  <2> HIDE DEF g
  <2> QED
    BY <1>0, <2>2
<1> HIDE DEF T
<1>3. 0 .. Len(text) + 1 \subseteq T
  BY <1>0, <1>1, <1>2, AllUpTo
<1>4. \E f : F(f, Len(text) + 1)
  <2>1. Len(text) + 1 \in 0 .. Len(text) + 1
    BY <1>0
  <2> QED
    BY <1>3, <2>1 DEF T
<1> QED
  BY <1>4, Zenon DEF Readings, First, Step

\* ... of a MAC address
LEMMA MacReadingsIs ==
    ASSUME NEW before, NEW text
    PROVE  MacReadings(before, text) = [i \in 0 .. MacLength |->
              IF i = 0 THEN before
              ELSE MacDigit(MacReadings(before, text)[i - 1], i - 1, text[i])]
<1> DEFINE First == before
           Step(i, prior) == MacDigit(prior, i - 1, text[i])
           F(f, k) == f = [i \in 0 .. k |-> IF i = 0 THEN First ELSE Step(i, f[i - 1])]
           T == {k \in 0 .. MacLength : \E f : F(f, k)}
<1> HIDE DEF First, Step
<1>0. MacLength \in Nat
  BY DEF MacLength
<1>1. 0 \in T
  <2>1. F([i \in 0 .. 0 |-> First], 0)
    OBVIOUS
  <2>2. \E f : F(f, 0)
    BY <2>1
  <2> HIDE DEF F
  <2> QED
    BY <1>0, <2>2
<1>2. ASSUME NEW k \in 1 .. MacLength, k - 1 \in T PROVE k \in T
  <2> HIDE DEF F
  <2>1. PICK f : F(f, k - 1)
    BY <1>2
  <2> DEFINE g == [i \in 0 .. k |-> IF i = k THEN Step(k, f[k - 1]) ELSE f[i]]
  <2>2. F(g, k)
    <3>1. \A i \in 0 .. k : g[i] = IF i = 0 THEN First ELSE Step(i, g[i - 1])
      BY <1>0, <2>1 DEF F
    <3> QED
      BY <1>0, <3>1 DEF F
  <2> HIDE DEF g
  <2> QED
    BY <1>0, <2>2
<1> HIDE DEF T
<1>3. 0 .. MacLength \subseteq T
  BY <1>0, <1>1, <1>2, AllUpTo
<1>4. \E f : F(f, MacLength)
  <2>1. MacLength \in 0 .. MacLength
    BY <1>0
  <2> QED
    BY <1>3, <2>1 DEF T
<1> QED
  BY <1>4, Zenon DEF MacReadings, First, Step

\* Groups that are written with colons between them, behind a position of a text
GroupsLie(text, o, g) ==
    /\ o \in Nat /\ o + 2 * Len(g) - 1 <= Len(text)
    /\ \A j \in 1 .. Len(g) : text[o + 2 * j - 1] = g[j]
    /\ \A j \in 1 .. Len(g) - 1 : text[o + 2 * j] = Colon

\* Joined groups
LEMMA JoinedIs ==
    ASSUME NEW g \in Seq(Nat), Len(g) > 0
    PROVE  /\ Joined(g) \in Seq(Int) /\ Len(Joined(g)) = 2 * Len(g) - 1
           /\ \A j \in 1 .. Len(g) : Joined(g)[2 * j - 1] = g[j]
           /\ \A j \in 1 .. Len(g) - 1 : Joined(g)[2 * j] = Colon
<1>1. PICK n \in Nat : n = Len(g) /\ n > 0
  OBVIOUS
<1> DEFINE H(i) == IF i % 2 = 1 THEN g[(i + 1) \div 2] ELSE Colon
<1>2. Joined(g) = [i \in 1 .. 2 * n - 1 |-> H(i)]
  BY <1>1 DEF Joined
<1>3. ASSUME NEW j \in 1 .. n
      PROVE  2 * j - 1 \in 1 .. 2 * n - 1 /\ H(2 * j - 1) = g[j]
  <2>1. (2 * j - 1) % 2 = 1 /\ (2 * j - 1 + 1) \div 2 = j /\ 2 * j - 1 \in 1 .. 2 * n - 1
    BY ONLY n \in Nat, j \in 1 .. n
  <2> QED
    BY ONLY <2>1
<1>4. ASSUME NEW j \in 1 .. n - 1
      PROVE  2 * j \in 1 .. 2 * n - 1 /\ H(2 * j) = Colon
  <2>1. (2 * j) % 2 = 0 /\ 2 * j \in 1 .. 2 * n - 1
    BY ONLY n \in Nat, j \in 1 .. n - 1
  <2> QED
    BY ONLY <2>1
<1>5. ASSUME NEW i \in 1 .. 2 * n - 1 PROVE H(i) \in Int
  <2>1. i % 2 = 1 => (i + 1) \div 2 \in 1 .. n
    BY ONLY n \in Nat, i \in 1 .. 2 * n - 1
  <2>2. \A k \in 1 .. n : g[k] \in Nat
    BY <1>1
  <2> QED
    BY <2>1, <2>2 DEF Colon
<1> HIDE DEF H
<1>6. PICK m \in Nat : m = 2 * n - 1
  <2>1. 2 * n - 1 \in Nat
    BY ONLY <1>1
  <2> QED
    BY ONLY <2>1
<1>7. Joined(g) \in [1 .. m -> Int]
  <2>1. Joined(g) = [i \in 1 .. m |-> H(i)] /\ \A i \in 1 .. m : H(i) \in Int
    BY <1>2, <1>5, <1>6
  <2> QED
    BY ONLY <2>1
<1>8. Joined(g) \in Seq(Int) /\ Len(Joined(g)) = m
  BY ONLY <1>7, m \in Nat
<1> QED
  BY <1>1, <1>2, <1>3, <1>4, <1>6, <1>8

\* The count after each character
LEMMA CountsNext ==
    ASSUME NEW text, Len(text) \in Nat
    PROVE  /\ ColonCounts(text)[0] = 0
           /\ \A i \in 1 .. Len(text) :
                ColonCounts(text)[i] =
                    IF i > 1 /\ text[i] = Colon
                      THEN CountColon(ColonCounts(text)[i - 1], text[i - 1] = Colon)
                      ELSE ColonCounts(text)[i - 1]
<1> DEFINE c == ColonCounts(text)
<1>1. c = [i \in 0 .. Len(text) |->
              IF i = 0 THEN 0
              ELSE IF i > 1 /\ text[i] = Colon THEN CountColon(c[i - 1], text[i - 1] = Colon)
              ELSE c[i - 1]]
  BY ColonCountsIs
<1> HIDE DEF c
<1>2. c[0] = 0
  BY <1>1
<1>3. ASSUME NEW i \in 1 .. Len(text)
      PROVE  c[i] = IF i > 1 /\ text[i] = Colon THEN CountColon(c[i - 1], text[i - 1] = Colon)
                    ELSE c[i - 1]
  <2>1. i \in 0 .. Len(text) /\ i # 0
    OBVIOUS
  <2> QED
    BY <1>1, <2>1
<1> QED
  BY <1>2, <1>3 DEF c

\* Groups count one colon less than they are, backwards from what was counted
LEMMA GroupsCount ==
    ASSUME NEW text, NEW z \in Nat, Len(text) = z, NEW o \in Nat, NEW g \in Seq(Nat),
           NEW n \in Nat \ {0}, Len(g) = n, GroupsLie(text, o, g),
           NEW q \in Nat, ColonCounts(text)[o] = q, q = 0 \/ q >= n
    PROVE  ColonCounts(text)[o + 2 * n - 1] = IF q = 0 THEN 0 ELSE q - (n - 1)
<1> DEFINE c == ColonCounts(text)
           T == {j \in 0 .. n : j # 0 => c[o + 2 * j - 1] = IF q = 0 THEN 0 ELSE q - (j - 1)}
<1>1. \A i \in 1 .. z :
        c[i] = IF i > 1 /\ text[i] = Colon THEN CountColon(c[i - 1], text[i - 1] = Colon)
               ELSE c[i - 1]
  BY CountsNext
<1> HIDE DEF c
<1>2. ASSUME NEW j \in 1 .. n
      PROVE  /\ o + 2 * j - 1 \in 1 .. z /\ o + 2 * j - 1 - 1 = o + 2 * (j - 1)
             /\ text[o + 2 * j - 1] # Colon
             /\ c[o + 2 * j - 1] = c[o + 2 * (j - 1)]
  <2>1. o + 2 * n - 1 <= z /\ text[o + 2 * j - 1] = g[j]
    BY DEF GroupsLie
  <2>2. g[j] \in Nat
    OBVIOUS
  <2>3. o + 2 * j - 1 \in 1 .. z /\ o + 2 * j - 1 - 1 = o + 2 * (j - 1)
    BY ONLY <2>1, o \in Nat, n \in Nat, z \in Nat, j \in 1 .. n
  <2>4. text[o + 2 * j - 1] # Colon
    BY ONLY <2>1, <2>2 DEF Colon
  <2> QED
    BY <1>1, <2>3, <2>4
<1>3. 0 \in T
  OBVIOUS
<1>4. ASSUME NEW j \in 1 .. n, j - 1 \in T PROVE j \in T
  <2>1. CASE j = 1
    <3>1. o + 2 * (1 - 1) = o /\ q - (1 - 1) = q
      BY ONLY o \in Nat, q \in Nat
    <3>2. c[o + 2 * 1 - 1] = q
      BY <1>2, <2>1, <3>1 DEF c
    <3> QED
      BY <2>1, <3>1, <3>2
  <2>2. CASE j # 1
    <3>1. PICK k \in 1 .. n - 1 : k = j - 1
      BY <2>2
    <3>2. c[o + 2 * k - 1] = IF q = 0 THEN 0 ELSE q - (k - 1)
      BY <1>4, <3>1
    <3>3. text[o + 2 * k] = Colon
      BY <3>1 DEF GroupsLie
    <3>4. /\ o + 2 * k \in 1 .. z /\ o + 2 * k > 1 /\ k \in 1 .. n
          /\ o + 2 * k - 1 \in 1 .. z
      <4>1. o + 2 * n - 1 <= z
        BY DEF GroupsLie
      <4> QED
        BY ONLY <4>1, k \in 1 .. n - 1, n \in Nat, o \in Nat, z \in Nat
    <3>5. text[o + 2 * k - 1] # Colon
      BY <1>2, <3>4
    <3>6. c[o + 2 * k] = IF c[o + 2 * k - 1] > 0 THEN c[o + 2 * k - 1] - 1 ELSE c[o + 2 * k - 1]
      <4>1. c[o + 2 * k] = CountColon(c[o + 2 * k - 1], text[o + 2 * k - 1] = Colon)
        BY <1>1, <3>3, <3>4
      <4> QED
        BY <3>5, <4>1 DEF CountColon
    <3>7. c[o + 2 * k] = IF q = 0 THEN 0 ELSE q - k
      <4>1. CASE q = 0
        BY <3>2, <3>6, <4>1
      <4>2. CASE q # 0
        <5>1. PICK r \in Nat : r = q - (k - 1) /\ r > 0 /\ r - 1 = q - k
          BY ONLY <4>2, q = 0 \/ q >= n, q \in Nat, n \in Nat, k \in 1 .. n - 1
        <5> QED
          BY <3>2, <3>6, <4>2, <5>1
      <4> QED
        BY <4>1, <4>2
    <3>8. c[o + 2 * j - 1] = c[o + 2 * k]
      BY <1>2, <3>1
    <3> QED
      BY <3>1, <3>7, <3>8
  <2> QED
    BY <2>1, <2>2
<1>5. n \in T
  <2>1. n \in 0 .. n
    OBVIOUS
  <2> HIDE DEF T
  <2> QED
    BY <1>3, <1>4, <2>1, AllUpTo
<1> QED
  BY <1>5 DEF c
\* What is read of a text, before a character
ReadIs(text, i, pos, accumulator, address) ==
    Readings(text)[i] = [address |-> address, pos |-> pos,
                         accumulator |-> accumulator, failed |-> FALSE]

\* An address with the first j of some groups, from position p on
Filled(address, p, g, j) ==
    [n \in 0 .. Groups - 1 |-> IF n \in p .. p + j - 1 THEN g[n - p + 1] ELSE address[n]]

\* A character more
LEMMA ReadingsNext ==
    ASSUME NEW text, Len(text) \in Nat
    PROVE  /\ Readings(text)[0] = NothingRead
           /\ \A i \in 1 .. Len(text) + 1 :
                Readings(text)[i] = ReadCharacter(text, Readings(text)[i - 1], i)
<1> DEFINE r == Readings(text)
<1>1. r = [i \in 0 .. Len(text) + 1 |->
              IF i = 0 THEN NothingRead ELSE ReadCharacter(text, r[i - 1], i)]
  BY ReadingsIs
<1> HIDE DEF r
<1>2. r[0] = NothingRead
  BY <1>1
<1>3. ASSUME NEW i \in 1 .. Len(text) + 1 PROVE r[i] = ReadCharacter(text, r[i - 1], i)
  <2>1. i \in 0 .. Len(text) + 1 /\ i # 0
    OBVIOUS
  <2> QED
    BY <1>1, <2>1
<1> QED
  BY <1>2, <1>3 DEF r

\* ... that is a group
LEMMA GroupIsRead ==
    ASSUME NEW text, NEW z \in Nat, Len(text) = z, NEW i \in 1 .. z, text[i] \in Nat,
           NEW p \in 0 .. Groups - 1, NEW a, NEW b,
           NEW r, r = [address |-> a, pos |-> p, accumulator |-> b, failed |-> FALSE]
    PROVE  ReadCharacter(text, r, i) =
              [address |-> a, pos |-> p, accumulator |-> text[i], failed |-> FALSE]
<1>1. ~(i > Len(text)) /\ text[i] # Colon /\ text[i] # Bad /\ ~(p >= Groups)
  BY DEF Colon, Bad, Groups
<1>2. ReadCharacter(text, r, i) = [r EXCEPT !.accumulator = text[i]]
  BY <1>1 DEF ReadCharacter
<1> QED
  BY <1>2

LEMMA ReadsGroup ==
    ASSUME NEW text, NEW z \in Nat, Len(text) = z, NEW i \in 1 .. z, text[i] \in Nat,
           NEW p \in 0 .. Groups - 1, NEW a, NEW b, ReadIs(text, i - 1, p, b, a)
    PROVE  ReadIs(text, i, p, text[i], a)
<1>1. PICK r : r = Readings(text)[i - 1]
  OBVIOUS
<1>2. r = [address |-> a, pos |-> p, accumulator |-> b, failed |-> FALSE]
  BY <1>1 DEF ReadIs
<1>3. Readings(text)[i] = ReadCharacter(text, r, i)
  <2>1. i \in 1 .. z + 1
    OBVIOUS
  <2> QED
    BY <1>1, <2>1, ReadingsNext
<1>4. ReadCharacter(text, r, i) =
        [address |-> a, pos |-> p, accumulator |-> text[i], failed |-> FALSE]
  BY <1>2, GroupIsRead
<1> QED
  BY <1>3, <1>4 DEF ReadIs

\* ... or ends one
LEMMA ReadsColon ==
    ASSUME NEW text, NEW z \in Nat, Len(text) = z, NEW i \in 1 .. z + 1,
           i = z + 1 \/ text[i] = Colon,
           NEW p \in 0 .. Groups - 1, NEW a, NEW b, ReadIs(text, i - 1, p, b, a)
    PROVE  ReadIs(text, i,
                  IF colon_count(text) > 0 /\ i > 1 /\ text[i - 1] = Colon
                    THEN colon_count(text) ELSE p + 1,
                  0, [a EXCEPT ![p] = b])
<1> DEFINE before == [address |-> a, pos |-> p, accumulator |-> b, failed |-> FALSE]
<1>1. Readings(text)[i] = ReadCharacter(text, before, i)
  BY ReadingsNext DEF ReadIs
<1>2. (i > Len(text) \/ text[i] = Colon) /\ ~(p >= Groups)
  BY DEF Groups
<1>3. ReadCharacter(text, before, i) = Store(text, before, i)
  BY <1>2 DEF ReadCharacter
<1>4. Store(text, before, i) =
        [address |-> [a EXCEPT ![p] = b],
         pos |-> IF colon_count(text) > 0 /\ i > 1 /\ text[i - 1] = Colon
                   THEN colon_count(text) ELSE p + 1,
         accumulator |-> 0, failed |-> FALSE]
  BY DEF Store
<1> QED
  BY <1>1, <1>3, <1>4 DEF ReadIs

\* Groups that are stored
LEMMA FilledNext ==
    ASSUME NEW a \in [0 .. Groups - 1 -> Nat], NEW p \in Nat, NEW g, NEW j \in Nat \ {0},
           p + j <= Groups, g[j] \in Nat
    PROVE  Filled(a, p, g, j) = [Filled(a, p, g, j - 1) EXCEPT ![p + j - 1] = g[j]]
<1>1. \A n \in 0 .. Groups - 1 :
        n \in p .. p + j - 1 <=> n = p + j - 1 \/ n \in p .. p + (j - 1) - 1
  BY DEF Groups
<1>2. \A n \in 0 .. Groups - 1 : n = p + j - 1 => n - p + 1 = j
  BY DEF Groups
<1> QED
  BY <1>1, <1>2 DEF Filled

\* ... none of them
LEMMA FilledNone ==
    ASSUME NEW a \in [0 .. Groups - 1 -> Nat], NEW p \in Nat, NEW g
    PROVE  Filled(a, p, g, 0) = a
<1>1. \A n \in 0 .. Groups - 1 : ~(n \in p .. p + 0 - 1)
  BY DEF Groups
<1> QED
  BY <1>1 DEF Filled

\* Groups are read, and the end of the last one
LEMMA GroupsAreRead ==
    ASSUME NEW text, NEW z \in Nat, Len(text) = z, NEW o \in Nat, NEW g \in Seq(Nat),
           NEW n \in Nat \ {0}, Len(g) = n, GroupsLie(text, o, g),
           o + 2 * n = z + 1 \/ (o + 2 * n <= z /\ text[o + 2 * n] = Colon),
           NEW a \in [0 .. Groups - 1 -> Nat], NEW p \in Nat, p + n <= Groups,
           ReadIs(text, o, p, 0, a)
    PROVE  ReadIs(text, o + 2 * n, p + n, 0, Filled(a, p, g, n))
<1> DEFINE T == {j \in 0 .. n : j # 0 =>
                   ReadIs(text, o + 2 * j - 1, p + j - 1, g[j], Filled(a, p, g, j - 1))}
<1>0. o + 2 * n - 1 <= z /\ \A j \in 1 .. n : g[j] \in Nat
  BY DEF GroupsLie
<1>1. ASSUME NEW j \in 1 .. n
      PROVE  /\ o + 2 * j - 1 \in 1 .. z /\ o + 2 * j - 1 - 1 = o + 2 * (j - 1)
             /\ text[o + 2 * j - 1] = g[j] /\ g[j] \in Nat
             /\ p + j - 1 \in 0 .. Groups - 1 /\ p + j <= Groups
  <2>1. text[o + 2 * j - 1] = g[j]
    BY DEF GroupsLie
  <2>2. o + 2 * j - 1 \in 1 .. z /\ o + 2 * j - 1 - 1 = o + 2 * (j - 1)
    BY ONLY <1>0, o \in Nat, n \in Nat, z \in Nat, j \in 1 .. n
  <2>3. p + j - 1 \in 0 .. Groups - 1 /\ p + j <= Groups
    BY ONLY p \in Nat, n \in Nat, j \in 1 .. n, p + n <= Groups DEF Groups
  <2> QED
    BY <1>0, <2>1, <2>2, <2>3
\* The end of a group
<1>2. ASSUME NEW j \in 1 .. n, j \in T,
             o + 2 * j = z + 1 \/ (o + 2 * j <= z /\ text[o + 2 * j] = Colon)
      PROVE  ReadIs(text, o + 2 * j, p + j, 0, Filled(a, p, g, j))
  <2>1. ReadIs(text, o + 2 * j - 1, p + j - 1, g[j], Filled(a, p, g, j - 1))
    BY <1>2
  <2>2. text[o + 2 * j - 1] # Colon
    <3>1. PICK v \in Nat : v = g[j] /\ text[o + 2 * j - 1] = v
      BY <1>1
    <3> QED
      BY ONLY <3>1, v \in Nat DEF Colon
  <2>3. PICK i \in 1 .. z + 1 : i = o + 2 * j /\ i - 1 = o + 2 * j - 1
    BY <1>1, <1>2
  <2>4. PICK r \in 0 .. Groups - 1 : r = p + j - 1 /\ r + 1 = p + j
    <3>1. p + j - 1 \in 0 .. Groups - 1
      BY <1>1
    <3> QED
      BY ONLY <3>1, p \in Nat, j \in 1 .. n, n \in Nat
  <2> DEFINE f == Filled(a, p, g, j - 1)
  <2>5. ReadIs(text, i - 1, r, g[j], f) /\ (i = z + 1 \/ text[i] = Colon) /\ text[i - 1] # Colon
    BY <1>2, <2>1, <2>2, <2>3, <2>4
  <2> HIDE DEF f
  <2>6. ReadIs(text, i, r + 1, 0, [f EXCEPT ![r] = g[j]])
    BY <2>5, ReadsColon
  <2>7. [f EXCEPT ![r] = g[j]] = Filled(a, p, g, j)
    <3>1. j \in Nat \ {0} /\ p + j <= Groups /\ g[j] \in Nat
      BY <1>1
    <3>2. Filled(a, p, g, j) = [Filled(a, p, g, j - 1) EXCEPT ![p + j - 1] = g[j]]
      BY ONLY <3>1, a \in [0 .. Groups - 1 -> Nat], p \in Nat, FilledNext
    <3> QED
      BY <2>4, <3>2 DEF f
  <2> QED
    BY <2>3, <2>4, <2>6, <2>7
<1>3. 0 \in T
  OBVIOUS
<1>4. ASSUME NEW j \in 1 .. n, j - 1 \in T PROVE j \in T
  <2>1. ReadIs(text, o + 2 * (j - 1), p + j - 1, 0, Filled(a, p, g, j - 1))
    \/ \E b : ReadIs(text, o + 2 * (j - 1), p + j - 1, b, Filled(a, p, g, j - 1))
    <3>1. CASE j = 1
      <4>1. o + 2 * (1 - 1) = o /\ p + 1 - 1 = p /\ 1 - 1 = 0
        BY ONLY o \in Nat, p \in Nat
      <4>2. Filled(a, p, g, 0) = a
        BY ONLY a \in [0 .. Groups - 1 -> Nat], p \in Nat, FilledNone
      <4> QED
        BY <3>1, <4>1, <4>2
    <3>2. CASE j # 1
      <4>1. PICK k \in 1 .. n - 1 : k = j - 1 /\ k \in T /\ k \in 1 .. n /\ p + k = p + j - 1
        BY <1>4, <3>2
      <4>2. text[o + 2 * k] = Colon
        BY DEF GroupsLie
      <4>3. o + 2 * k <= z
        BY ONLY <1>0, k \in 1 .. n - 1, n \in Nat, o \in Nat, z \in Nat
      <4>4. ReadIs(text, o + 2 * k, p + k, 0, Filled(a, p, g, k))
        <5> HIDE DEF T
        <5> QED
          BY <1>2, <4>1, <4>2, <4>3
      <4> QED
        BY <4>1, <4>4
    <3> QED
      BY <3>1, <3>2
  <2>2. PICK b : ReadIs(text, o + 2 * (j - 1), p + j - 1, b, Filled(a, p, g, j - 1))
    BY <2>1
  <2>3. PICK i \in 1 .. z, r \in 0 .. Groups - 1 :
           i = o + 2 * j - 1 /\ i - 1 = o + 2 * (j - 1) /\ r = p + j - 1 /\ text[i] = g[j]
    <3>1. /\ o + 2 * j - 1 \in 1 .. z /\ o + 2 * j - 1 - 1 = o + 2 * (j - 1)
          /\ text[o + 2 * j - 1] = g[j]
      BY <1>1
    <3>2. p + j - 1 \in 0 .. Groups - 1
      BY <1>1
    <3>3. PICK i \in 1 .. z : i = o + 2 * j - 1
      BY ONLY <3>1
    <3>4. PICK r \in 0 .. Groups - 1 : r = p + j - 1
      BY ONLY <3>2
    <3>5. i - 1 = o + 2 * (j - 1) /\ text[i] = g[j]
      BY ONLY <3>1, <3>3
    <3> QED
      BY <3>3, <3>4, <3>5
  <2> DEFINE f == Filled(a, p, g, j - 1)
  <2>4. ReadIs(text, i - 1, r, b, f) /\ text[i] \in Nat
    BY <1>1, <2>2, <2>3
  <2> HIDE DEF f
  <2>5. ReadIs(text, i, r, text[i], f)
    BY <2>4, ReadsGroup
  <2> QED
    BY <2>3, <2>5 DEF f
<1>5. n \in T
  <2>1. n \in 0 .. n
    OBVIOUS
  <2> HIDE DEF T
  <2> QED
    BY <1>3, <1>4, <2>1, AllUpTo
<1> HIDE DEF T
<1> QED
  BY <1>2, <1>5
\* A text behind another
LEMMA TwoTexts ==
    ASSUME NEW S, NEW x \in Seq(S), NEW y \in Seq(S)
    PROVE  /\ x \o y \in Seq(S) /\ Len(x \o y) = Len(x) + Len(y)
           /\ \A k \in 1 .. Len(x) : (x \o y)[k] = x[k]
           /\ \A k \in 1 .. Len(y) : (x \o y)[Len(x) + k] = y[k]
OBVIOUS

LEMMA TextsJoined ==
    ASSUME NEW x \in Seq(Int), NEW y \in Seq(Int),
           NEW m \in Nat, m = Len(x), NEW n \in Nat, n = Len(y)
    PROVE  /\ x \o y \in Seq(Int) /\ Len(x \o y) = m + n
           /\ \A k \in 1 .. m : (x \o y)[k] = x[k]
           /\ \A k \in 1 .. n : (x \o y)[m + k] = y[k]
<1>1. /\ x \o y \in Seq(Int) /\ Len(x \o y) = Len(x) + Len(y)
      /\ \A k \in 1 .. Len(x) : (x \o y)[k] = x[k]
      /\ \A k \in 1 .. Len(y) : (x \o y)[Len(x) + k] = y[k]
  BY ONLY x \in Seq(Int), y \in Seq(Int), TwoTexts
<1> QED
  BY ONLY <1>1, m = Len(x), n = Len(y)

\* Groups of an address, or none
GroupsText(g) == IF g = <<>> THEN <<>> ELSE Joined(g)
TwoColons == <<Colon, Colon>>
GroupsLen(n) == IF n = 0 THEN 0 ELSE 2 * n - 1

LEMMA GroupsWritten ==
    ASSUME NEW g \in Seq(Nat), NEW n \in Nat, Len(g) = n
    PROVE  /\ GroupsText(g) \in Seq(Int)
           /\ Len(GroupsText(g)) = IF n = 0 THEN 0 ELSE 2 * n - 1
           /\ n > 0 => GroupsText(g) = Joined(g)
<1>1. CASE n = 0
  <2>1. g = <<>>
    BY <1>1
  <2>2. <<>> \in Seq(Int) /\ Len(<<>>) = 0
    OBVIOUS
  <2>3. GroupsText(g) = <<>>
    BY <2>1 DEF GroupsText
  <2> QED
    BY <1>1, <2>2, <2>3
<1>2. CASE n > 0
  <2>1. GroupsText(g) = Joined(g)
    BY <1>2 DEF GroupsText
  <2>2. Joined(g) \in Seq(Int) /\ Len(Joined(g)) = 2 * n - 1
    BY <1>2, JoinedIs
  <2> QED
    BY <1>2, <2>1, <2>2
<1> QED
  BY <1>1, <1>2

\* A text with a "::" in it, behind its first a characters
WrittenLies(text, left, right, a, b) ==
    /\ Len(text) = a + 2 + b
    /\ text[a + 1] = Colon /\ text[a + 2] = Colon
    /\ Len(left) > 0 => GroupsLie(text, 0, left) /\ text[a] # Colon
    /\ Len(right) > 0 => GroupsLie(text, a + 2, right)

LEMMA WrittenIs ==
    ASSUME NEW left \in Seq(Nat), NEW right \in Seq(Nat),
           NEW l \in Nat, Len(left) = l, NEW r \in Nat, Len(right) = r,
           NEW a \in Nat, a = GroupsLen(l), NEW b \in Nat, b = GroupsLen(r),
           NEW text, text = Written(left, right)
    PROVE  WrittenLies(text, left, right, a, b)
<1> DEFINE x == GroupsText(left)
           y == GroupsText(right)
           u == x \o TwoColons
<1>1. x \in Seq(Int) /\ a = Len(x) /\ (l > 0 => x = Joined(left))
  BY GroupsWritten DEF GroupsLen
<1>2. y \in Seq(Int) /\ b = Len(y) /\ (r > 0 => y = Joined(right))
  BY GroupsWritten DEF GroupsLen
<1>3. text = u \o y
  BY DEF Written, GroupsText, TwoColons
<1>4. /\ TwoColons \in Seq(Int) /\ 2 = Len(TwoColons)
      /\ TwoColons[1] = Colon /\ TwoColons[2] = Colon
  BY DEF Colon, TwoColons
<1> HIDE DEF x, y
<1>5. /\ u \in Seq(Int) /\ a + 2 = Len(u) /\ u[a + 1] = Colon /\ u[a + 2] = Colon
      /\ \A i \in 1 .. a : u[i] = x[i]
  <2>1. PICK e \in Nat : e = 2 /\ e = Len(TwoColons)
    BY <1>4
  <2>2. /\ u \in Seq(Int) /\ Len(u) = a + e
        /\ \A k \in 1 .. a : u[k] = x[k]
        /\ \A k \in 1 .. e : u[a + k] = TwoColons[k]
    <3>1. PICK v \in Seq(Int) : v = x /\ a = Len(v)
      BY <1>1
    <3>2. PICK w \in Seq(Int) : w = TwoColons /\ e = Len(w)
      BY <1>4, <2>1
    <3>3. /\ v \o w \in Seq(Int) /\ Len(v \o w) = a + e
          /\ \A k \in 1 .. a : (v \o w)[k] = v[k]
          /\ \A k \in 1 .. e : (v \o w)[a + k] = w[k]
      <4>1. /\ v \o w \in Seq(Int) /\ Len(v \o w) = Len(v) + Len(w)
            /\ \A k \in 1 .. Len(v) : (v \o w)[k] = v[k]
            /\ \A k \in 1 .. Len(w) : (v \o w)[Len(v) + k] = w[k]
        BY ONLY v \in Seq(Int), w \in Seq(Int), TwoTexts
      <4> QED
        BY ONLY <3>1, <3>2, <4>1
    <3> QED
      BY ONLY <3>1, <3>2, <3>3
  <2> HIDE DEF u
  <2>3. u[a + 1] = TwoColons[1] /\ u[a + 2] = TwoColons[2]
    BY ONLY <2>1, <2>2
  <2> QED
    BY <1>4, <2>1, <2>2, <2>3
<1> HIDE DEF u
<1>6. /\ Len(text) = a + 2 + b
      /\ \A i \in 1 .. a + 2 : text[i] = u[i]
      /\ \A i \in 1 .. b : text[a + 2 + i] = y[i]
  <2>1. PICK m \in Nat : m = a + 2
    OBVIOUS
  <2>2. m = Len(u)
    BY <1>5, <2>1
  <2>3. /\ Len(u \o y) = m + b
        /\ \A k \in 1 .. m : (u \o y)[k] = u[k]
        /\ \A k \in 1 .. b : (u \o y)[m + k] = y[k]
    BY ONLY <1>2, <1>5, <2>2, m \in Nat, b \in Nat, TextsJoined
  <2> QED
    BY <1>3, <2>1, <2>3
<1>7. text[a + 1] = Colon /\ text[a + 2] = Colon
  <2>1. a + 1 \in 1 .. a + 2 /\ a + 2 \in 1 .. a + 2
    BY ONLY a \in Nat
  <2> QED
    BY <1>5, <1>6, <2>1
<1>8. ASSUME l > 0 PROVE GroupsLie(text, 0, left) /\ text[a] # Colon
  <2>1. /\ x = Joined(left)
        /\ \A j \in 1 .. l : x[2 * j - 1] = left[j]
        /\ \A j \in 1 .. l - 1 : x[2 * j] = Colon
    BY <1>1, <1>8, JoinedIs
  <2>2. \A i \in 1 .. a : text[i] = x[i]
    <3>1. \A i \in 1 .. a : i \in 1 .. a + 2
      OBVIOUS
    <3> QED
      BY <1>5, <1>6, <3>1
  <2>3. a = 2 * l - 1
    BY <1>8 DEF GroupsLen
  <2>4. /\ \A j \in 1 .. l : 2 * j - 1 \in 1 .. a /\ 0 + 2 * j - 1 = 2 * j - 1
        /\ \A j \in 1 .. l - 1 : 2 * j \in 1 .. a /\ 0 + 2 * j = 2 * j
        /\ 0 + 2 * l - 1 <= a + 2 + b /\ l \in 1 .. l
    BY ONLY <1>8, <2>3, l \in Nat, a \in Nat, b \in Nat
  <2>5. /\ \A j \in 1 .. l : text[0 + 2 * j - 1] = left[j]
        /\ \A j \in 1 .. l - 1 : text[0 + 2 * j] = Colon
    BY ONLY <2>1, <2>2, <2>4
  <2>6. 0 + 2 * l - 1 <= Len(text)
    BY ONLY <1>6, <2>4
  <2>7. GroupsLie(text, 0, left)
    BY <2>5, <2>6 DEF GroupsLie
  <2>8. l \in 1 .. l /\ 2 * l - 1 \in 1 .. a
    BY ONLY <2>4
  <2>9. text[2 * l - 1] = x[2 * l - 1] /\ x[2 * l - 1] = left[l]
    BY ONLY <2>1, <2>2, <2>8
  <2>10. left[l] \in Nat
    BY <1>8
  <2>11. left[l] # Colon
    BY ONLY <2>10 DEF Colon
  <2> QED
    BY <2>3, <2>7, <2>9, <2>11
<1>9. ASSUME r > 0 PROVE GroupsLie(text, a + 2, right)
  <2>1. /\ y = Joined(right)
        /\ \A j \in 1 .. r : y[2 * j - 1] = right[j]
        /\ \A j \in 1 .. r - 1 : y[2 * j] = Colon
    BY <1>2, <1>9, JoinedIs
  <2>2. b = 2 * r - 1
    BY <1>9 DEF GroupsLen
  <2>3. /\ \A j \in 1 .. r : 2 * j - 1 \in 1 .. b /\ a + 2 + 2 * j - 1 = a + 2 + (2 * j - 1)
        /\ \A j \in 1 .. r - 1 : 2 * j \in 1 .. b
        /\ a + 2 + 2 * r - 1 <= a + 2 + b /\ a + 2 \in Nat
    BY ONLY <1>9, <2>2, r \in Nat, a \in Nat, b \in Nat
  <2> QED
    BY <1>6, <2>1, <2>3 DEF GroupsLie
<1> QED
  BY <1>6, <1>7, <1>8, <1>9 DEF WrittenLies

\* Where the group after the "::" goes
LEMMA WrittenCount ==
    ASSUME NEW left \in Seq(Nat), NEW right \in Seq(Nat),
           NEW l \in Nat, Len(left) = l, NEW r \in Nat, Len(right) = r, l + r < Groups,
           NEW text, text = Written(left, right)
    PROVE  colon_count(text) = IF r = 0 THEN Groups - 1 ELSE Groups - r
<1>1. PICK a \in Nat : a = GroupsLen(l) /\ a = IF l = 0 THEN 0 ELSE 2 * l - 1
  BY DEF GroupsLen
<1>2. PICK b \in Nat : b = GroupsLen(r) /\ b = IF r = 0 THEN 0 ELSE 2 * r - 1
  BY DEF GroupsLen
<1>3. /\ Len(text) = a + 2 + b
      /\ text[a + 1] = Colon /\ text[a + 2] = Colon
      /\ l > 0 => GroupsLie(text, 0, left) /\ text[a] # Colon
      /\ r > 0 => GroupsLie(text, a + 2, right)
  <2>1. WrittenLies(text, left, right, a, b)
    BY <1>1, <1>2, WrittenIs
  <2> QED
    BY <2>1 DEF WrittenLies
<1>4. PICK z \in Nat : z = a + 2 + b /\ Len(text) = z
  BY <1>3
<1> DEFINE c == ColonCounts(text)
<1>5. c[0] = 0 /\ \A i \in 1 .. z :
        c[i] = IF i > 1 /\ text[i] = Colon THEN CountColon(c[i - 1], text[i - 1] = Colon)
               ELSE c[i - 1]
  <2>1. Len(text) \in Nat
    BY <1>4
  <2>2. c[0] = 0 /\ \A i \in 1 .. Len(text) :
          c[i] = IF i > 1 /\ text[i] = Colon THEN CountColon(c[i - 1], text[i - 1] = Colon)
                 ELSE c[i - 1]
    BY ONLY <2>1, CountsNext
  <2> QED
    BY ONLY <1>4, <2>2
<1>6. c[a] = 0
  <2>1. CASE l = 0
    BY <1>1, <1>5, <2>1
  <2>2. CASE l > 0
    <3>1. 0 \in Nat /\ l \in Nat \ {0} /\ GroupsLie(text, 0, left) /\ 0 + 2 * l - 1 = a
      BY <1>1, <1>3, <2>2
    <3> HIDE DEF c
    <3>2. ColonCounts(text)[0] = 0
      BY <1>5 DEF c
    <3>3. ColonCounts(text)[0 + 2 * l - 1] = 0
      BY ONLY <1>4, <3>1, <3>2, left \in Seq(Nat), Len(left) = l, GroupsCount
    <3> QED
      BY <3>1, <3>3 DEF c
  <2> QED
    BY <2>1, <2>2
<1> HIDE DEF c
<1>7. c[a + 1] = 0
  <2>1. a + 1 \in 1 .. z /\ a + 1 - 1 = a /\ (a + 1 > 1 => l > 0)
    BY <1>1, <1>4
  <2>2. CASE a + 1 > 1
    <3>1. c[a + 1] = CountColon(c[a], text[a] = Colon) /\ text[a] # Colon
      BY <1>3, <1>5, <2>1, <2>2
    <3> QED
      BY <1>6, <3>1 DEF CountColon
  <2>3. CASE ~(a + 1 > 1)
    BY <1>5, <1>6, <2>1, <2>3
  <2> QED
    BY <2>2, <2>3
<1>8. c[a + 2] = Groups - 1
  <2>1. a + 2 \in 1 .. z /\ a + 2 - 1 = a + 1 /\ a + 2 > 1
    BY <1>4
  <2>2. c[a + 2] = CountColon(c[a + 1], text[a + 1] = Colon)
    BY <1>3, <1>5, <2>1
  <2> QED
    BY <1>3, <2>2 DEF CountColon
<1>9. CASE r = 0
  <2>1. z = a + 2
    BY <1>2, <1>4, <1>9
  <2> QED
    BY <1>4, <1>8, <1>9, <2>1 DEF colon_count, c
<1>10. CASE r > 0
  <2>1. PICK o \in Nat : o = a + 2 /\ GroupsLie(text, o, right)
    BY <1>3, <1>10
  <2>2. PICK q \in Nat : q = Groups - 1 /\ q # 0 /\ q >= r /\ ColonCounts(text)[o] = q
    <3>1. Groups - 1 \in Nat /\ Groups - 1 # 0 /\ Groups - 1 >= r
      BY DEF Groups
    <3> QED
      BY <1>8, <2>1, <3>1 DEF c
  <2>3. ColonCounts(text)[o + 2 * r - 1] = q - (r - 1)
    <3>1. r \in Nat \ {0}
      BY <1>10
    <3> QED
      BY ONLY <1>4, <2>1, <2>2, <3>1, right \in Seq(Nat), Len(right) = r, GroupsCount
  <2>4. o + 2 * r - 1 = z /\ q - (r - 1) = Groups - r
    BY <1>2, <1>4, <1>10, <2>1, <2>2 DEF Groups
  <2>5. colon_count(text) = ColonCounts(text)[z]
    BY ONLY <1>4 DEF colon_count
  <2>6. colon_count(text) = Groups - r
    BY ONLY <2>3, <2>4, <2>5
  <2> QED
    BY <1>10, <2>6
<1> QED
  BY <1>9, <1>10
\* Before the first character
ZeroGroups == [n \in 0 .. Groups - 1 |-> 0]

LEMMA NothingIsRead ==
    ASSUME NEW text, Len(text) \in Nat
    PROVE  /\ ReadIs(text, 0, 0, 0, ZeroGroups)
           /\ ZeroGroups \in [0 .. Groups - 1 -> Nat]
<1>1. Readings(text)[0] = NothingRead
  BY ReadingsNext
<1> QED
  BY <1>1 DEF ReadIs, NothingRead, ZeroGroups

\* Groups in an address
LEMMA FilledIs ==
    ASSUME NEW a \in [0 .. Groups - 1 -> Nat], NEW p \in Nat, NEW g \in Seq(Nat),
           NEW n \in Nat, Len(g) = n, p + n <= Groups
    PROVE  Filled(a, p, g, n) \in [0 .. Groups - 1 -> Nat]
<1>1. ASSUME NEW k \in 0 .. Groups - 1, k \in p .. p + n - 1
      PROVE  g[k - p + 1] \in Nat
  <2>1. k - p + 1 \in 1 .. n
    BY ONLY <1>1, k \in 0 .. Groups - 1, p \in Nat, n \in Nat DEF Groups
  <2> QED
    BY <2>1
<1> QED
  BY <1>1 DEF Filled

\* What is read of a text with a "::" in it
LEMMA WrittenIsRead ==
    ASSUME NEW left \in Seq(Nat), NEW right \in Seq(Nat),
           NEW l \in Nat, Len(left) = l, NEW r \in Nat, Len(right) = r, l + r < Groups,
           NEW text, text = Written(left, right)
    PROVE  IPv6FromString(text) = [ok |-> TRUE, address |-> Denoted(left, right)]
<1>1. PICK a \in Nat : a = GroupsLen(l) /\ a = IF l = 0 THEN 0 ELSE 2 * l - 1
  BY DEF GroupsLen
<1>2. PICK b \in Nat : b = GroupsLen(r) /\ b = IF r = 0 THEN 0 ELSE 2 * r - 1
  BY DEF GroupsLen
<1>3. /\ Len(text) = a + 2 + b
      /\ text[a + 1] = Colon /\ text[a + 2] = Colon
      /\ l > 0 => GroupsLie(text, 0, left) /\ text[a] # Colon
      /\ r > 0 => GroupsLie(text, a + 2, right)
  <2>1. WrittenLies(text, left, right, a, b)
    BY <1>1, <1>2, WrittenIs
  <2> QED
    BY <2>1 DEF WrittenLies
<1>4. PICK z \in Nat : z = a + 2 + b /\ Len(text) = z
  BY <1>3
<1>5. PICK c \in Nat :
         c = colon_count(text) /\ c > 0 /\ c = IF r = 0 THEN Groups - 1 ELSE Groups - r
  <2>1. colon_count(text) = IF r = 0 THEN Groups - 1 ELSE Groups - r
    BY WrittenCount
  <2>2. PICK c \in Nat : c > 0 /\ c = IF r = 0 THEN Groups - 1 ELSE Groups - r
    <3>1. CASE r = 0
      BY <3>1 DEF Groups
    <3>2. CASE r # 0
      <4>1. PICK c \in Nat : c = Groups - r /\ c > 0
        BY DEF Groups
      <4> QED
        BY <3>2, <4>1
    <3> QED
      BY <3>1, <3>2
  <2>3. c = colon_count(text)
    BY ONLY <2>1, <2>2
  <2> QED
    BY <2>2, <2>3
<1>6. ReadIs(text, 0, 0, 0, ZeroGroups) /\ ZeroGroups \in [0 .. Groups - 1 -> Nat]
  BY <1>4, NothingIsRead
<1>7. PICK f : f = Filled(ZeroGroups, 0, left, l)
  OBVIOUS
<1>8. f \in [0 .. Groups - 1 -> Nat]
  <2>1. 0 \in Nat /\ 0 + l <= Groups
    BY DEF Groups
  <2> QED
    BY <1>6, <1>7, <2>1, FilledIs
\* The groups in front of the "::"
<1>9. PICK p \in 0 .. Groups - 1 : p >= l /\ ReadIs(text, a + 1, p, 0, f)
  <2>1. CASE l = 0
    <3>1. PICK i \in 1 .. z + 1 : i = 1 /\ i - 1 = 0 /\ a + 1 = i /\ ~(i > 1)
      BY <1>1, <1>4, <2>1
    <3>2. PICK q \in 0 .. Groups - 1 : q = 0 /\ q + 1 = 1
      BY DEF Groups
    <3>3. ReadIs(text, i - 1, q, 0, ZeroGroups) /\ (i = z + 1 \/ text[i] = Colon)
      BY <1>3, <1>6, <3>1, <3>2
    <3>4. ReadIs(text, i, IF colon_count(text) > 0 /\ i > 1 /\ text[i - 1] = Colon
                            THEN colon_count(text) ELSE q + 1, 0, [ZeroGroups EXCEPT ![q] = 0])
      BY <1>4, <3>3, ReadsColon
    <3>5. [ZeroGroups EXCEPT ![q] = 0] = f
      <4>1. [ZeroGroups EXCEPT ![q] = 0] = ZeroGroups
        BY DEF ZeroGroups
      <4>2. f = ZeroGroups
        <5>1. \A n \in 0 .. Groups - 1 : ~(n \in 0 .. 0 + l - 1)
          BY <2>1
        <5> QED
          BY <1>6, <1>7, <5>1 DEF Filled
      <4> QED
        BY <4>1, <4>2
    <3>6. ReadIs(text, i, 1, 0, f)
      BY <3>1, <3>2, <3>4, <3>5
    <3>7. 1 \in 0 .. Groups - 1 /\ 1 >= l
      BY <2>1 DEF Groups
    <3> QED
      BY <3>1, <3>6, <3>7
  <2>2. CASE l > 0
    <3>1. PICK o \in Nat, n \in Nat \ {0} : o = 0 /\ n = l
      BY <2>2
    <3>2. o + 2 * n <= z /\ o + 2 * n = a + 1 /\ o + n <= Groups /\ o + n = l
      BY <1>1, <1>4, <2>2, <3>1 DEF Groups
    <3>3. /\ GroupsLie(text, o, left) /\ text[o + 2 * n] = Colon
          /\ Len(left) = n /\ ReadIs(text, o, o, 0, ZeroGroups)
      BY <1>3, <1>6, <2>2, <3>1, <3>2
    <3>4. ReadIs(text, o + 2 * n, o + n, 0, Filled(ZeroGroups, o, left, n))
      BY <1>4, <1>6, <3>2, <3>3, GroupsAreRead
    <3>5. l \in 0 .. Groups - 1 /\ l >= l
      BY DEF Groups
    <3> QED
      BY <1>7, <3>1, <3>2, <3>4, <3>5
  <2> QED
    BY <2>1, <2>2
\* The second colon of the "::"
<1>10. \A k \in 0 .. Groups - 1 : k >= l => f[k] = 0
  <2>1. \A k \in 0 .. Groups - 1 : k >= l => ~(k \in 0 .. 0 + l - 1)
    OBVIOUS
  <2> QED
    BY <1>7, <2>1 DEF Filled, ZeroGroups
<1>11. ReadIs(text, a + 2, c, 0, f)
  <2>1. PICK i \in 1 .. z + 1 : i = a + 2 /\ i - 1 = a + 1 /\ i > 1
    BY <1>4
  <2>2. ReadIs(text, i - 1, p, 0, f) /\ (i = z + 1 \/ text[i] = Colon) /\ text[i - 1] = Colon
    BY <1>3, <1>9, <2>1
  <2>3. ReadIs(text, i, IF colon_count(text) > 0 /\ i > 1 /\ text[i - 1] = Colon
                          THEN colon_count(text) ELSE p + 1, 0, [f EXCEPT ![p] = 0])
    BY <1>4, <2>2, ReadsColon
  <2>4. [f EXCEPT ![p] = 0] = f
    BY <1>8, <1>9, <1>10
  <2> QED
    BY <1>5, <2>1, <2>2, <2>3, <2>4
\* The groups behind it
<1>12. \E q, h : ReadIs(text, z + 1, q, 0, h) /\ h = Denoted(left, right)
  <2>1. CASE r = 0
    <3>1. PICK i \in 1 .. z + 1 : i = z + 1 /\ i - 1 = a + 2
      BY <1>2, <1>4, <2>1
    <3>2. c \in 0 .. Groups - 1 /\ c = Groups - 1 /\ c >= l
      BY <1>5, <2>1 DEF Groups
    <3>3. ReadIs(text, i - 1, c, 0, f)
      BY <1>11, <3>1
    <3>4. ReadIs(text, i, IF colon_count(text) > 0 /\ i > 1 /\ text[i - 1] = Colon
                            THEN colon_count(text) ELSE c + 1, 0, [f EXCEPT ![c] = 0])
      BY <1>4, <3>1, <3>2, <3>3, ReadsColon
    <3>5. [f EXCEPT ![c] = 0] = f
      BY <1>8, <1>10, <3>2
    <3>6. f = Denoted(left, right)
      <4>1. \A n \in 0 .. Groups - 1 : /\ n \in 0 .. 0 + l - 1 <=> n < l
                                       /\ n - 0 + 1 = n + 1 /\ ~(n >= Groups - r)
        BY <2>1 DEF Groups
      <4> QED
        BY <1>7, <4>1 DEF Filled, Denoted, ZeroGroups
    <3> QED
      BY <3>1, <3>4, <3>5, <3>6
  <2>2. CASE r > 0
    <3>1. PICK o \in Nat, n \in Nat \ {0} : o = a + 2 /\ n = r
      BY <2>2
    <3>2. o + 2 * n = z + 1 /\ c + n = Groups /\ c + n <= Groups
      BY <1>2, <1>4, <1>5, <2>2, <3>1 DEF Groups
    <3>3. GroupsLie(text, o, right) /\ Len(right) = n /\ ReadIs(text, o, c, 0, f)
      BY <1>3, <1>11, <2>2, <3>1
    <3>4. ReadIs(text, o + 2 * n, c + n, 0, Filled(f, c, right, n))
      BY <1>4, <1>8, <3>2, <3>3, GroupsAreRead
    <3>5. Filled(f, c, right, n) = Denoted(left, right)
      <4>1. \A k \in 0 .. Groups - 1 : /\ k \in 0 .. 0 + l - 1 <=> k < l
                                       /\ k - 0 + 1 = k + 1
                                       /\ k \in c .. c + n - 1 <=> k >= Groups - r
                                       /\ k - c + 1 = k + 1 - (Groups - r)
                                       /\ k < l => ~(k >= Groups - r)
        BY <1>5, <2>2, <3>1 DEF Groups
      <4>2. \A k \in 0 .. Groups - 1 :
              Filled(f, c, right, n)[k] = Denoted(left, right)[k]
        BY <1>7, <3>1, <4>1 DEF Filled, Denoted, ZeroGroups
      <4> QED
        BY <4>2 DEF Filled, Denoted
    <3> QED
      BY <3>2, <3>4, <3>5
  <2> QED
    BY <2>1, <2>2
<1>13. PICK q, h, m :
          /\ m = Readings(text)[Len(text) + 1] /\ h = Denoted(left, right)
          /\ m = [address |-> h, pos |-> q, accumulator |-> 0, failed |-> FALSE]
  BY <1>4, <1>12 DEF ReadIs
<1>14. m.address = h /\ m.failed = FALSE
  BY ONLY <1>13
<1>15. IPv6FromString(text) = [ok |-> ~m.failed, address |-> m.address]
  BY ONLY <1>13 DEF IPv6FromString
<1> QED
  BY ONLY <1>13, <1>14, <1>15

\* What is read of a printed address
LEMMA PrintedIsRead ==
    ASSUME NEW g \in Seq(Nat), Len(g) = Groups
    PROVE  IPv6FromString(IPv6Print(Denoted(g, <<>>))) =
              [ok |-> TRUE, address |-> Denoted(g, <<>>)]
<1>1. PICK d : d = Denoted(g, <<>>)
  OBVIOUS
<1>2. \A k \in 0 .. Groups - 1 : d[k] = g[k + 1]
  <2>1. \A k \in 0 .. Groups - 1 : k < Len(g)
    OBVIOUS
  <2> QED
    BY <1>1, <2>1 DEF Denoted
<1>3. PICK text : text = IPv6Print(d)
  OBVIOUS
<1>4. PICK z \in Nat : z = 15 /\ z = 2 * Groups - 1
  BY DEF Groups
<1>5. text = [i \in 1 .. z |-> IF i % 2 = 1 THEN d[i \div 2] ELSE Colon]
  BY <1>3, <1>4 DEF IPv6Print
<1>6. Len(text) = z
  <2>1. PICK S : \A i \in 1 .. z : text[i] \in S
    <3>1. \A i \in 1 .. z : text[i] \in {text[k] : k \in 1 .. z}
      OBVIOUS
    <3> QED
      BY <3>1
  <2>2. text \in [1 .. z -> S]
    BY <1>5, <2>1
  <2> QED
    BY ONLY <2>2, z \in Nat
<1>7. \A j \in 1 .. Groups : text[0 + 2 * j - 1] = g[j]
  <2>1. \A j \in 1 .. Groups : /\ 0 + 2 * j - 1 \in 1 .. z /\ (0 + 2 * j - 1) % 2 = 1
                               /\ (0 + 2 * j - 1) \div 2 = j - 1
                               /\ j - 1 \in 0 .. Groups - 1 /\ j - 1 + 1 = j
    BY ONLY <1>4 DEF Groups
  <2> QED
    BY <1>2, <1>5, <2>1
<1>8. \A j \in 1 .. Groups - 1 : text[0 + 2 * j] = Colon
  <2>1. \A j \in 1 .. Groups - 1 : 0 + 2 * j \in 1 .. z /\ (0 + 2 * j) % 2 # 1
    BY ONLY <1>4 DEF Groups
  <2> QED
    BY <1>5, <2>1
<1>9. PICK o \in Nat, n \in Nat \ {0} :
         /\ o = 0 /\ n = Groups /\ o + 2 * n = z + 1 /\ o + n <= Groups /\ o + 2 * n - 1 <= z
  BY <1>4 DEF Groups
<1>10. GroupsLie(text, o, g) /\ Len(g) = n
  BY <1>6, <1>7, <1>8, <1>9 DEF GroupsLie
<1>11. ReadIs(text, o, o, 0, ZeroGroups) /\ ZeroGroups \in [0 .. Groups - 1 -> Nat]
  BY <1>6, <1>9, NothingIsRead
<1>12. ReadIs(text, o + 2 * n, o + n, 0, Filled(ZeroGroups, o, g, n))
  BY <1>6, <1>9, <1>10, <1>11, GroupsAreRead
<1>13. Filled(ZeroGroups, o, g, n) = d
  <2>1. \A k \in 0 .. Groups - 1 : k \in o .. o + n - 1 /\ k - o + 1 = k + 1 /\ k < Len(g)
    BY <1>9 DEF Groups
  <2> QED
    BY <1>1, <1>9, <2>1 DEF Filled, Denoted
<1>14. Readings(text)[Len(text) + 1] = [address |-> d, pos |-> o + n, accumulator |-> 0,
                                        failed |-> FALSE]
  BY <1>6, <1>9, <1>12, <1>13 DEF ReadIs
<1>15. PICK m : m = Readings(text)[Len(text) + 1]
  OBVIOUS
<1>16. m.address = d /\ m.failed = FALSE
  BY ONLY <1>14, <1>15
<1>17. IPv6FromString(text) = [ok |-> ~m.failed, address |-> m.address]
  BY ONLY <1>15 DEF IPv6FromString
<1> QED
  BY ONLY <1>1, <1>3, <1>16, <1>17
\* Where a digit of an address is in its text
DigitAt(d) == 3 * (d \div 2) + (d % 2)

LEMMA Thirds ==
    ASSUME NEW n \in 0 .. 16
    PROVE  n = 3 * (n \div 3) + (n % 3) /\ n \div 3 \in 0 .. 5 /\ n % 3 \in 0 .. 2
OBVIOUS

LEMMA Halves ==
    ASSUME NEW d \in 0 .. 11
    PROVE  d = 2 * (d \div 2) + (d % 2) /\ d \div 2 \in 0 .. 5 /\ d % 2 \in 0 .. 1
OBVIOUS

LEMMA DigitIs ==
    ASSUME NEW d \in 0 .. 11
    PROVE  \E q \in 0 .. 5, e \in 0 .. 1, k \in 0 .. 16 :
              d = 2 * q + e /\ k = DigitAt(d) /\ k = 3 * q + e
<1>1. PICK q \in 0 .. 5, e \in 0 .. 1 : d = 2 * q + e /\ q = d \div 2 /\ e = d % 2
  BY Halves
<1>2. PICK k \in 0 .. 16 : k = 3 * q + e
  OBVIOUS
<1>3. DigitAt(d) = 3 * q + e
  BY <1>1 DEF DigitAt
<1> QED
  BY <1>1, <1>2, <1>3

\* What is read before a digit, or with it
DigitOrder(n, p, t, d, k) ==
    /\ t = 0 => d # 2 * p + 1 /\ (IF d = 2 * p THEN k + 1 = n ELSE k < n - 1)
    /\ t = 1 => IF d = 2 * p + 1 THEN k + 1 = n ELSE k < n - 1
    /\ t = 2 => k < n - 1

LEMMA DigitsInOrder ==
    ASSUME NEW n \in 1 .. 17, NEW p \in 0 .. 5, NEW t \in 0 .. 2, n = 3 * p + t + 1,
           NEW d \in 0 .. 11, NEW q \in 0 .. 5, NEW e \in 0 .. 1, d = 2 * q + e,
           NEW k \in 0 .. 16, k = 3 * q + e, k < n
    PROVE  DigitOrder(n, p, t, d, k)
BY DEF DigitOrder

\* The digits of the address are the digits of the text
LEMMA DigitsAreRead ==
    ASSUME NEW before \in [0 .. 11 -> Int], NEW text \in [1 .. MacLength -> Int]
    PROVE  \A d \in 0 .. 11 : MacReadings(before, text)[MacLength][d] = text[DigitAt(d) + 1]
<1> DEFINE m == MacReadings(before, text)
           T == {n \in 0 .. 17 : /\ m[n] \in [0 .. 11 -> Int]
                                 /\ \A d \in 0 .. 11 : DigitAt(d) < n
                                       => m[n][d] = text[DigitAt(d) + 1]}
<1>1. m = [i \in 0 .. 17 |-> IF i = 0 THEN before ELSE MacDigit(m[i - 1], i - 1, text[i])]
  BY MacReadingsIs DEF MacLength
<1> HIDE DEF m
<1>2. 0 \in T
  <2>1. m[0] = before
    BY <1>1
  <2>2. ASSUME NEW d \in 0 .. 11 PROVE ~(DigitAt(d) < 0)
    <3>1. PICK k \in 0 .. 16 : k = DigitAt(d)
      BY DigitIs
    <3>2. ~(k < 0)
      BY ONLY k \in 0 .. 16
    <3> QED
      BY ONLY <3>1, <3>2
  <2>3. m[0] \in [0 .. 11 -> Int] /\ 0 \in 0 .. 17
    BY <2>1
  <2> QED
    BY <2>2, <2>3
<1>3. ASSUME NEW n \in 1 .. 17, n - 1 \in T PROVE n \in T
  <2>1. PICK r \in [0 .. 11 -> Int] :
           /\ r = m[n - 1]
           /\ \A d \in 0 .. 11 : DigitAt(d) < n - 1 => r[d] = text[DigitAt(d) + 1]
    BY <1>3
  <2>2. PICK u : u = n - 1 /\ m[n] = MacDigit(r, u, text[n])
    <3>1. n \in 0 .. 17 /\ n # 0
      OBVIOUS
    <3>2. m[n] = MacDigit(m[n - 1], n - 1, text[n])
      BY <1>1, <3>1
    <3> QED
      BY <2>1, <3>2
  <2>3. PICK v \in Int : v = text[n]
    BY DEF MacLength
  <2>4. PICK p \in 0 .. 5, t \in 0 .. 2 :
           p = (n - 1) \div 3 /\ t = (n - 1) % 3 /\ n = 3 * p + t + 1
    <3>1. n - 1 \in 0 .. 16
      OBVIOUS
    <3> QED
      BY <3>1, Thirds
  <2>5. CASE t = 0
    <3>1. PICK x \in 0 .. 11, y \in 0 .. 11 : x = 2 * p /\ y = 2 * p + 1 /\ x # y
      OBVIOUS
    <3>2. m[n] = [r EXCEPT ![x] = v, ![y] = 0]
      <4>1. m[n] = [r EXCEPT ![2 * p] = v, ![2 * p + 1] = 0]
        <5>1. u % 3 = 0 /\ u \div 3 = p
          BY <2>2, <2>4, <2>5
        <5>2. MacDigit(r, u, v) = [r EXCEPT ![2 * (u \div 3)] = v, ![2 * (u \div 3) + 1] = 0]
          BY ONLY <5>1 DEF MacDigit
        <5> QED
          BY <2>2, <2>3, <5>1, <5>2
      <4> QED
        BY <3>1, <4>1
    <3>3. ASSUME NEW d \in 0 .. 11, DigitAt(d) < n PROVE m[n][d] = text[DigitAt(d) + 1]
      <4>1. PICK q \in 0 .. 5, e \in 0 .. 1, k \in 0 .. 16 :
               d = 2 * q + e /\ k = DigitAt(d) /\ k = 3 * q + e
        BY DigitIs
      <4>2. k < n
        BY <3>3, <4>1
      <4>3. d # y /\ (IF d = x THEN k + 1 = n ELSE k < n - 1)
        <5>1. n = 3 * p + t + 1
          BY <2>4
        <5>2. d = 2 * q + e /\ k = 3 * q + e
          BY <4>1
        <5>3. DigitOrder(n, p, t, d, k)
          BY <4>2, <5>1, <5>2, DigitsInOrder
        <5> QED
          BY <2>5, <3>1, <5>3 DEF DigitOrder
      <4>4. CASE d = x
        <5>1. m[n][x] = v
          BY <3>1, <3>2
        <5>2. k + 1 = n /\ k = DigitAt(d)
          BY <4>1, <4>3, <4>4
        <5> QED
          BY <2>3, <4>4, <5>1, <5>2
      <4>5. CASE d # x
        BY <2>1, <3>2, <4>1, <4>3, <4>5
      <4> QED
        BY <4>4, <4>5
    <3>4. m[n] \in [0 .. 11 -> Int]
      <4>1. PICK s \in [0 .. 11 -> Int] : s = [r EXCEPT ![x] = v]
        OBVIOUS
      <4>2. PICK w \in Int : w = 0
        OBVIOUS
      <4>3. [s EXCEPT ![y] = w] \in [0 .. 11 -> Int]
        OBVIOUS
      <4>4. m[n] = [s EXCEPT ![y] = w]
        BY <3>1, <3>2, <4>1, <4>2
      <4> QED
        BY <4>3, <4>4
    <3> QED
      BY <3>3, <3>4
  <2>6. CASE t = 1
    <3>1. PICK y \in 0 .. 11 : y = 2 * p + 1
      OBVIOUS
    <3>2. m[n] = [r EXCEPT ![y] = v]
      <4>1. m[n] = [r EXCEPT ![2 * p + 1] = v]
        <5>1. u % 3 = 1 /\ u \div 3 = p
          BY <2>2, <2>4, <2>6
        <5>2. MacDigit(r, u, v) = [r EXCEPT ![2 * (u \div 3) + 1] = v]
          BY ONLY <5>1 DEF MacDigit
        <5> QED
          BY <2>2, <2>3, <5>1, <5>2
      <4> QED
        BY <3>1, <4>1
    <3>3. ASSUME NEW d \in 0 .. 11, DigitAt(d) < n PROVE m[n][d] = text[DigitAt(d) + 1]
      <4>1. PICK q \in 0 .. 5, e \in 0 .. 1, k \in 0 .. 16 :
               d = 2 * q + e /\ k = DigitAt(d) /\ k = 3 * q + e
        BY DigitIs
      <4>2. k < n
        BY <3>3, <4>1
      <4>3. IF d = y THEN k + 1 = n ELSE k < n - 1
        <5>1. n = 3 * p + t + 1
          BY <2>4
        <5>2. d = 2 * q + e /\ k = 3 * q + e
          BY <4>1
        <5>3. DigitOrder(n, p, t, d, k)
          BY <4>2, <5>1, <5>2, DigitsInOrder
        <5> QED
          BY <2>6, <3>1, <5>3 DEF DigitOrder
      <4>4. CASE d = y
        BY <2>3, <3>2, <4>1, <4>3, <4>4
      <4>5. CASE d # y
        BY <2>1, <3>2, <4>1, <4>3, <4>5
      <4> QED
        BY <4>4, <4>5
    <3>4. m[n] \in [0 .. 11 -> Int]
      BY <3>2
    <3> QED
      BY <3>3, <3>4
  <2>7. CASE t = 2
    <3>1. m[n] = r
      <4>1. u % 3 # 0 /\ u % 3 # 1
        BY <2>2, <2>4, <2>7
      <4>2. MacDigit(r, u, v) = r
        BY ONLY <4>1 DEF MacDigit
      <4> QED
        BY <2>2, <2>3, <4>2
    <3>2. m[n] \in [0 .. 11 -> Int]
      BY <3>1
    <3>3. ASSUME NEW d \in 0 .. 11, DigitAt(d) < n PROVE m[n][d] = text[DigitAt(d) + 1]
      <4>1. PICK q \in 0 .. 5, e \in 0 .. 1, k \in 0 .. 16 :
               d = 2 * q + e /\ k = DigitAt(d) /\ k = 3 * q + e
        BY DigitIs
      <4>2. k < n
        BY <3>3, <4>1
      <4>3. k < n - 1
        <5>1. n = 3 * p + t + 1
          BY <2>4
        <5>2. d = 2 * q + e /\ k = 3 * q + e
          BY <4>1
        <5>3. DigitOrder(n, p, t, d, k)
          BY <4>2, <5>1, <5>2, DigitsInOrder
        <5> QED
          BY <2>7, <5>3 DEF DigitOrder
      <4> QED
        BY <2>1, <3>1, <4>1, <4>3
    <3> QED
      BY <3>2, <3>3
  <2> QED
    BY <2>5, <2>6, <2>7
<1>4. 17 \in T
  <2>1. 17 \in 0 .. 17 /\ 17 \in Nat
    OBVIOUS
  <2> HIDE DEF T
  <2> QED
    BY <1>2, <1>3, <2>1, AllUpTo
<1>5. \A d \in 0 .. 11 : DigitAt(d) < 17
  BY DEF DigitAt
<1> QED
  BY <1>4, <1>5 DEF m, MacLength

\* A text that is written as it should be is read to its end, and no other
LEMMA MacIsRead ==
    ASSUME NEW before, NEW text \in [1 .. MacLength -> Nat \cup {Colon, Bad}]
    PROVE  /\ MacFromString(before, text).ok = IsMac(text)
           /\ MacFromString(before, text).ok =>
                MacFromString(before, text).digits = MacReadings(before, text)[MacLength]
<1> DEFINE good == {n \in 0 .. MacLength : \A k \in 0 .. n - 1 : ~MacFails(text, k)}
           stored == CHOOSE n \in good : \A k \in good : k <= n
           T == {n \in 0 .. 17 : \E s \in good : \A k \in good : k <= n => k <= s}
<1>1. IsMac(text) <=> 17 \in good
  <2>1. \A k \in 0 .. 16 : ~MacFails(text, k) <=>
          (((k + 1) % 3 = 0) <=> (text[k + 1] = Colon)) /\ text[k + 1] # Bad
    <3>1. TAKE k \in 0 .. 16
    <3>2. text[k + 1] \in Nat \/ text[k + 1] = -1 \/ text[k + 1] = -2
      BY DEF MacLength, Colon, Bad
    <3>3. (k + 1) % 3 = 0 <=> k % 3 = 2
      OBVIOUS
    <3> QED
      BY <3>2, <3>3 DEF MacFails, Colon, Bad
  <2>2. \A i \in 1 .. 17 : i - 1 \in 0 .. 16 /\ i - 1 + 1 = i
    OBVIOUS
  <2>3. IsMac(text) <=> \A i \in 1 .. 17 : ((i % 3 = 0) <=> (text[i] = Colon)) /\ text[i] # Bad
    BY DEF IsMac, MacLength
  <2>4. 17 \in good <=> \A k \in 0 .. 16 : ~MacFails(text, k)
    BY DEF MacLength
  <2>5. \A k \in 0 .. 16 : k + 1 \in 1 .. 17
    OBVIOUS
  <2>6. (\A k \in 0 .. 16 : ~MacFails(text, k)) <=>
          \A i \in 1 .. 17 : ((i % 3 = 0) <=> (text[i] = Colon)) /\ text[i] # Bad
    BY <2>1, <2>2, <2>5
  <2> QED
    BY <2>3, <2>4, <2>6
<1>2. good \subseteq 0 .. 17 /\ 0 \in good
  BY DEF MacLength
<1> HIDE DEF good
<1>3. 0 \in T
  BY <1>2
<1>4. ASSUME NEW n \in 1 .. 17, n - 1 \in T PROVE n \in T
  <2>1. CASE n \in good
    BY <1>2, <2>1
  <2>2. CASE n \notin good
    <3>1. PICK s \in good : \A k \in good : k <= n - 1 => k <= s
      BY <1>4
    <3>2. \A k \in good : k <= n => k <= n - 1
      BY <1>2, <2>2
    <3> QED
      BY <3>1, <3>2
  <2> QED
    BY <2>1, <2>2
<1>5. 17 \in T
  <2>1. 17 \in 0 .. 17 /\ 17 \in Nat
    OBVIOUS
  <2> HIDE DEF T
  <2> QED
    BY <1>3, <1>4, <2>1, AllUpTo
<1>6. \E s \in good : \A k \in good : k <= s
  <2>1. PICK s \in good : \A k \in good : k <= 17 => k <= s
    BY <1>5
  <2>2. \A k \in good : k <= 17
    BY <1>2
  <2> QED
    BY <2>1, <2>2
<1>7. stored \in good /\ \A k \in good : k <= stored
  BY <1>6
<1> HIDE DEF stored
<1>8. stored = 17 <=> 17 \in good
  BY <1>2, <1>7
<1>9. MacFromString(before, text) =
        [ok |-> stored = 17, digits |-> MacReadings(before, text)[stored]]
  BY DEF MacFromString, MacLength, stored, good
<1>10. /\ MacFromString(before, text).ok = (stored = 17)
       /\ MacFromString(before, text).digits = MacReadings(before, text)[stored]
  BY <1>9
<1>11. (stored = 17) = IsMac(text)
  <2>1. IsMac(text) \in BOOLEAN
    BY DEF IsMac
  <2> QED
    BY <1>1, <1>8, <2>1
<1> QED
  BY <1>10, <1>11 DEF MacLength

\* A text of an address that is read
LEMMA ReadRight == RealAddresses /\ ReadAddress => AddressesAreRead'
<1> SUFFICES ASSUME RealAddresses, ReadAddress PROVE AddressesAreRead'
  OBVIOUS
<1>1. PICK left \in GroupLists, right \in GroupLists :
         /\ Len(left) + Len(right) < Groups
         /\ Calls("address", [denoted |-> Denoted(left, right),
                              read |-> IPv6FromString(Written(left, right))])
  BY DEF ReadAddress
<1>2. PICK d, text : d = Denoted(left, right) /\ text = Written(left, right)
  OBVIOUS
<1>3. left \in Seq(Nat) /\ right \in Seq(Nat)
  BY DEF RealAddresses
<1>4. PICK l \in Nat, r \in Nat : l = Len(left) /\ r = Len(right) /\ l + r < Groups
  BY <1>1, <1>3
<1>5. IPv6FromString(text) = [ok |-> TRUE, address |-> d]
  BY <1>2, <1>3, <1>4, WrittenIsRead
<1>6. PICK read : read = IPv6FromString(text)
  OBVIOUS
<1>7. call' = [field \in {"op", "denoted", "read"} |->
                 IF field = "op" THEN "address" ELSE [denoted |-> d, read |-> read][field]]
  BY <1>1, <1>2, <1>6 DEF Calls
<1>8. call'.op = "address" /\ call'.denoted = d /\ call'.read = read
  BY <1>7
<1> QED
  BY <1>5, <1>6, <1>8 DEF AddressesAreRead

LEMMA ReadPrintedRight == RealAddresses /\ ReadPrintedAddress => AddressesAreRead'
<1> SUFFICES ASSUME RealAddresses, ReadPrintedAddress PROVE AddressesAreRead'
  OBVIOUS
<1>1. PICK groups \in GroupLists :
         /\ Len(groups) = Groups
         /\ Calls("address", [denoted |-> Denoted(groups, <<>>),
                              read |-> IPv6FromString(IPv6Print(Denoted(groups, <<>>)))])
  BY DEF ReadPrintedAddress
<1>2. PICK d, read : d = Denoted(groups, <<>>) /\ read = IPv6FromString(IPv6Print(d))
  OBVIOUS
<1>3. groups \in Seq(Nat)
  BY DEF RealAddresses
<1>4. read = [ok |-> TRUE, address |-> d]
  BY <1>1, <1>2, <1>3, PrintedIsRead
<1>5. call' = [field \in {"op", "denoted", "read"} |->
                 IF field = "op" THEN "address" ELSE [denoted |-> d, read |-> read][field]]
  BY <1>1, <1>2 DEF Calls
<1>6. call'.op = "address" /\ call'.denoted = d /\ call'.read = read
  BY <1>5
<1> QED
  BY <1>4, <1>6 DEF AddressesAreRead

LEMMA ReadMacRight == RealAddresses /\ ReadMac => AddressesAreRead'
<1> SUFFICES ASSUME RealAddresses, ReadMac PROVE AddressesAreRead'
  OBVIOUS
<1>1. PICK text \in MacTexts :
         Calls("mac", [text |-> text, read |-> MacFromString([d \in 0 .. 11 |-> 0], text)])
  BY DEF ReadMac
<1>2. text \in [1 .. MacLength -> Nat \cup {Colon, Bad}]
  BY DEF RealAddresses
<1>3. text \in [1 .. MacLength -> Int]
  BY <1>2 DEF Colon, Bad
<1>4. PICK before : before = [d \in 0 .. 11 |-> 0]
  OBVIOUS
<1>5. PICK read : read = MacFromString(before, text)
  OBVIOUS
<1>6. call' = [field \in {"op", "text", "read"} |->
                 IF field = "op" THEN "mac" ELSE [text |-> text, read |-> read][field]]
  BY <1>1, <1>4, <1>5 DEF Calls
<1>7. call'.op = "mac" /\ call'.text = text /\ call'.read = read
  BY <1>6
<1>8. /\ read.ok = IsMac(text)
      /\ read.ok => read.digits = MacReadings(before, text)[MacLength]
  BY <1>2, <1>5, MacIsRead
<1>9. read.ok => \A d \in 0 .. 11 : read.digits[d] = text[3 * (d \div 2) + (d % 2) + 1]
  <2>1. before \in [0 .. 11 -> Int]
    BY <1>4
  <2> QED
    BY <1>3, <1>8, <2>1, DigitsAreRead DEF DigitAt
<1> QED
  BY <1>7, <1>8, <1>9 DEF AddressesAreRead

-----------------------------------------------------------------------------
(* Theorems *)

\* A solicitation for an address of a board is heard by that board, and by no other with other
\* last bytes of its MAC address, and the address is looked for on the link (icmp6.cpp:
\* icmp6SendNS(), EtherSia.cpp: isOurAddress())
THEOREM BoardsAreFound == Spec => []SolicitationsReach
<1>1. Init => SolicitationsReach
  BY DEF Init, SolicitationsReach
<1>2. SolicitationsReach /\ [Next]_call => SolicitationsReach'
  <2> SUFFICES ASSUME SolicitationsReach, [Next]_call PROVE SolicitationsReach'
    OBVIOUS
  <2>1. CASE Solicit
    BY <2>1, SolicitRight
  <2>2. CASE Sample
    BY <2>2 DEF Sample, SolicitationsReach
  <2>3. CASE SendPacket \/ ReadAddress \/ ReadPrintedAddress \/ ReadMac \/ ProcessReply
               \/ CheckRequest \/ PrintText \/ Connect \/ Return
    BY <2>3, OpOfCall DEF SolicitationsReach
  <2>4. CASE UNCHANGED call
    BY <2>4 DEF SolicitationsReach
  <2> QED
    BY <2>1, <2>2, <2>3, <2>4 DEF Next
<1> QED
  BY <1>1, <1>2, PTL DEF Spec

\* No byte of the estimator overflows, and the time-out is not zero (TCPClient.cpp:200-213)
THEOREM TimeoutIsReal == ShortRoundTrips /\ Spec => []EstimatesAreReal
<1>1. Init => EstimateInv
  BY DEF Init, EstimateInv
<1>2. EstimateInv => EstimatesAreReal
  BY DEF EstimateInv, EstimatesAreReal, Estimates, UIP_RTO
<1>3. ShortRoundTrips => ShortRoundTrips'
  BY DEF ShortRoundTrips
<1> QED
  BY <1>1, <1>2, <1>3, EstimateNext, PTL DEF Spec

\* What is sent is taken for valid by isValid() and by any receiver of RFC 1071, whatever its
\* length, and is not with one byte changed (IPv6Packet.cpp, util.cpp, UDPSocket.cpp)
THEOREM ChecksumRight == RealPackets /\ Spec => []ChecksumIsAccepted
<1>1. Init => ChecksumIsAccepted
  BY DEF Init, ChecksumIsAccepted
<1>2. RealPackets /\ ChecksumIsAccepted /\ [Next]_call => ChecksumIsAccepted'
  <2> SUFFICES ASSUME RealPackets, ChecksumIsAccepted, [Next]_call PROVE ChecksumIsAccepted'
    OBVIOUS
  <2>1. CASE SendPacket
    BY <2>1, SendRight
  <2>2. CASE Sample
    BY <2>2 DEF Sample, ChecksumIsAccepted
  <2>3. CASE ReadAddress \/ ReadPrintedAddress \/ ReadMac \/ Solicit \/ ProcessReply
               \/ CheckRequest \/ PrintText \/ Connect \/ Return
    BY <2>3, OpOfCall DEF ChecksumIsAccepted
  <2>4. CASE UNCHANGED call
    BY <2>4 DEF ChecksumIsAccepted
  <2> QED
    BY <2>1, <2>2, <2>3, <2>4 DEF Next
<1>3. RealPackets => RealPackets'
  BY DEF RealPackets
<1> QED
  BY <1>1, <1>2, <1>3, PTL DEF Spec

\* checkRequest() is true of the requests whose path is as long as the pattern and begins as it
\* does, and with a '#' of those with a longer path whenever the byte of memory that is then
\* compared with NUL is one; and it takes for the body what follows the first line with one
\* character at most, whatever their lengths (HTTPServer.cpp:82-127)
THEOREM RequestsMatched == RealRequests /\ Spec => []RequestIsMatched
<1>1. Init => RequestIsMatched
  BY DEF Init, RequestIsMatched
<1>2. RealRequests /\ RequestIsMatched /\ [Next]_call => RequestIsMatched'
  <2> SUFFICES ASSUME RealRequests, RequestIsMatched, [Next]_call PROVE RequestIsMatched'
    OBVIOUS
  <2>1. CASE CheckRequest
    BY <2>1, RequestRight
  <2>2. CASE Sample
    BY <2>2 DEF Sample, RequestIsMatched
  <2>3. CASE SendPacket \/ ReadAddress \/ ReadPrintedAddress \/ ReadMac \/ Solicit
               \/ ProcessReply \/ PrintText \/ Connect \/ Return
    BY <2>3, OpOfCall DEF RequestIsMatched
  <2>4. CASE UNCHANGED call
    BY <2>4 DEF RequestIsMatched
  <2> QED
    BY <2>1, <2>2, <2>3, <2>4 DEF Next
<1>3. RealRequests => RealRequests'
  BY DEF RealRequests
<1> QED
  BY <1>1, <1>2, <1>3, PTL DEF Spec

\* What is printed to a socket is sent if it begins with no line break, and what is printed to a
\* Syslog is sent line by line; what does not fit is written behind the buffer, whatever its size
\* (Socket.cpp: write(), send(), Syslog.cpp: write(), handleWriteNewline())
THEOREM PrintedRight == RealTexts /\ Spec => []PrintedIsSent
<1>1. Init => PrintedIsSent
  BY DEF Init, PrintedIsSent
<1>2. RealTexts /\ PrintedIsSent /\ [Next]_call => PrintedIsSent'
  <2> SUFFICES ASSUME RealTexts, PrintedIsSent, [Next]_call PROVE PrintedIsSent'
    OBVIOUS
  <2>1. CASE PrintText
    BY <2>1, PrintRight
  <2>2. CASE Sample
    BY <2>2 DEF Sample, PrintedIsSent
  <2>3. CASE SendPacket \/ ReadAddress \/ ReadPrintedAddress \/ ReadMac \/ Solicit
               \/ ProcessReply \/ CheckRequest \/ Connect \/ Return
    BY <2>3, OpOfCall DEF PrintedIsSent
  <2>4. CASE UNCHANGED call
    BY <2>4 DEF PrintedIsSent
  <2> QED
    BY <2>1, <2>2, <2>3, <2>4 DEF Next
<1>3. RealTexts => RealTexts'
  BY DEF RealTexts
<1> QED
  BY <1>1, <1>2, <1>3, PTL DEF Spec

\* The address in the first answer that has one is found in a reply, and nothing where no
\* answer has one, whatever the names of the answers (dns.cpp:11-23, 57-78, 92-135)
THEOREM AnswersFound == RealReplies /\ Spec => []AnswerIsFound
<1>1. Init => AnswerIsFound
  BY DEF Init, AnswerIsFound
<1>2. RealReplies /\ AnswerIsFound /\ [Next]_call => AnswerIsFound'
  <2> SUFFICES ASSUME RealReplies, AnswerIsFound, [Next]_call PROVE AnswerIsFound'
    OBVIOUS
  <2>1. CASE ProcessReply
    BY <2>1, ReplyRight
  <2>2. CASE Sample
    <3>1. call'.op = "estimate"
      BY <2>2 DEF Sample
    <3> QED
      BY <3>1 DEF AnswerIsFound
  <2>3. CASE SendPacket \/ ReadAddress \/ ReadPrintedAddress \/ ReadMac \/ Solicit
               \/ CheckRequest \/ PrintText \/ Connect \/ Return
    BY <2>3, OpOfCall DEF AnswerIsFound
  <2>4. CASE UNCHANGED call
    BY <2>4 DEF AnswerIsFound
  <2> QED
    BY <2>1, <2>2, <2>3, <2>4 DEF Next
<1>3. RealReplies => RealReplies'
  BY DEF RealReplies
<1> QED
  BY <1>1, <1>2, <1>3, PTL DEF Spec

\* A text of an IPv6 address, its "::" anywhere or nowhere, is read as what it denotes, and
\* a MAC address taken for good only if it is written so: IPv6Address::fromString(),
\* MACAddress::fromString().
THEOREM AddressesRight == RealAddresses /\ Spec => []AddressesAreRead
<1>1. Init => AddressesAreRead
  BY DEF Init, AddressesAreRead
<1>2. RealAddresses /\ AddressesAreRead /\ [Next]_call => AddressesAreRead'
  <2> SUFFICES ASSUME RealAddresses, AddressesAreRead, [Next]_call PROVE AddressesAreRead'
    OBVIOUS
  <2>1. CASE ReadAddress
    BY <2>1, ReadRight
  <2>2. CASE ReadPrintedAddress
    BY <2>2, ReadPrintedRight
  <2>3. CASE ReadMac
    BY <2>3, ReadMacRight
  <2>4. CASE Sample
    <3>1. call'.op = "estimate"
      BY <2>4 DEF Sample
    <3> QED
      BY <3>1 DEF AddressesAreRead
  <2>5. CASE SendPacket \/ Solicit \/ ProcessReply \/ CheckRequest \/ PrintText \/ Connect
               \/ Return
    BY <2>5, OpOfCall DEF AddressesAreRead
  <2>6. CASE UNCHANGED call
    BY <2>6 DEF AddressesAreRead
  <2> QED
    BY <2>1, <2>2, <2>3, <2>4, <2>5, <2>6 DEF Next
<1>3. RealAddresses => RealAddresses'
  BY DEF RealAddresses
<1> QED
  BY <1>1, <1>2, <1>3, PTL DEF Spec

=============================================================================
