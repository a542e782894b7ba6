------------------------------ MODULE Checksum ------------------------------
(***************************************************************************)
(* The checksum of a packet (IPv6Packet.cpp, util.cpp): the complement of  *)
(* a one's complement sum over the addresses, length, protocol and payload.*)
(***************************************************************************)
EXTENDS Integers, SequencesExt

CONSTANTS
    ByteMod         \* bytes are 0 .. ByteMod - 1 (256); a word is two of them

WordMod == ByteMod * ByteMod

\* Faulty variant: without the carry
Add_NoCarry(sum, t) == (sum + t) % WordMod
Add(sum, t) ==
    LET added == (sum + t) % WordMod
    IN  IF added < t THEN (added + 1) % WordMod ELSE added

\* The words of the data, an odd last byte being the high one of its word
Words(data) ==
    [i \in 1 .. (Len(data) + 1) \div 2 |->
        data[2 * i - 1] * ByteMod + (IF 2 * i <= Len(data) THEN data[2 * i] ELSE 0)]

\* The sum after each of the words
Sums(sum, words) ==
    LET after[i \in 0 .. Len(words)] == IF i = 0 THEN sum ELSE Add(after[i - 1], words[i])
    IN  after

chksum(sum, data) == Sums(sum, Words(data))[Len(Words(data))]

calculateChecksum(packet) ==
    LET first == (Len(packet.payload) + packet.protocol) % WordMod
    IN  WordMod - 1 - chksum(chksum(chksum(first, packet.source),
                                    packet.destination), packet.payload)

isValid(packet) ==
    /\ packet.etherType = "IPV6" /\ packet.version = 6
    /\ calculateChecksum(packet) = 0

\* Reference: the sum of all words of the pseudo-header and the payload, in integers
Totals(first, words) ==
    LET after[i \in 0 .. Len(words)] == IF i = 0 THEN first ELSE after[i - 1] + words[i]
    IN  after
InternetSum(packet) ==
    LET words == Words(packet.source) \o Words(packet.destination) \o Words(packet.payload)
    IN  Totals(Len(packet.payload) + packet.protocol, words)[Len(words)]

\* How every sender fills in the checksum, here the first word of the payload
WithChecksum(packet) ==
    LET blank == [packet EXCEPT !.payload[1] = 0, !.payload[2] = 0]
        sum == calculateChecksum(blank)
    IN  [packet EXCEPT !.payload[1] = sum \div ByteMod, !.payload[2] = sum % ByteMod]

-----------------------------------------------------------------------------
(* What the theorems suppose *)

Bytes == 0 .. ByteMod - 1
ByteIsReal == ByteMod \in Nat /\ ByteMod > 1

\* Packets as senders have them: there is room for the checksum, and the length and the
\* protocol together are one word, as packets are less than 64 KB by far
RealPacket(p) ==
    /\ p \in [etherType : {"IPV6"}, version : {6}, protocol : Nat, source : Seq(Bytes),
              destination : Seq(Bytes), payload : Seq(Bytes)]
    /\ Len(p.payload) >= 2 /\ Len(p.payload) + p.protocol \in 1 .. WordMod - 1

=============================================================================
