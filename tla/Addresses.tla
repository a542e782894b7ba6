----------------------------- MODULE Addresses ------------------------------
(***************************************************************************)
(* What IPv6Address and MACAddress make of a text.                         *)
(*                                                                         *)
(* The text of an IPv6 address is a sequence of the values of its groups   *)
(* and of colons, the text of a MAC address one of digits and separators.  *)
(***************************************************************************)
EXTENDS Integers, SequencesExt

Colon == -1         \* a colon, or the dash of a MAC address
Bad == -2           \* any character asciiToHex() has no value for

Groups == 8         \* an IPv6 address is 8 groups of 16 bits

-----------------------------------------------------------------------------
(* IPv6Address::fromString() *)

\* Faulty variant: the colon of the "::" itself is counted too
CountColon_Itself(count, isDouble) ==
    IF isDouble THEN Groups - 2 ELSE IF count > 0 THEN count - 1 ELSE count
\* colon_count, in groups: where the group after "::" goes, the colons after it
\* being counted backwards from the last group
CountColon(count, isDouble) ==
    IF isDouble THEN Groups - 1 ELSE IF count > 0 THEN count - 1 ELSE count

\* colon_count after each of the characters
ColonCounts(text) ==
    LET after[i \in 0 .. Len(text)] ==
            IF i = 0 THEN 0
            ELSE IF i > 1 /\ text[i] = Colon
              THEN CountColon(after[i - 1], text[i - 1] = Colon)
              ELSE after[i - 1]
    IN  after

colon_count(text) == ColonCounts(text)[Len(text)]

\* A group is stored at the colon, or the end, after it; nothing after the last one
Store(text, read, i) ==
    LET afterColon == i > 1 /\ text[i - 1] = Colon
    IN  [address |-> [read.address EXCEPT ![read.pos] = read.accumulator],
         pos |-> IF colon_count(text) > 0 /\ afterColon THEN colon_count(text)
                                                       ELSE read.pos + 1,
         accumulator |-> 0, failed |-> FALSE]

ReadCharacter(text, read, i) ==
    IF read.failed \/ read.pos >= Groups THEN read
    ELSE IF i > Len(text) \/ text[i] = Colon THEN Store(text, read, i)
    ELSE IF text[i] = Bad THEN [read EXCEPT !.failed = TRUE]
    ELSE [read EXCEPT !.accumulator = text[i]]

\* What has been read after each of the characters, and the end
NothingRead == [address |-> [n \in 0 .. Groups - 1 |-> 0], pos |-> 0,
                accumulator |-> 0, failed |-> FALSE]
Readings(text) ==
    LET after[i \in 0 .. Len(text) + 1] ==
            IF i = 0 THEN NothingRead ELSE ReadCharacter(text, after[i - 1], i)
    IN  after

IPv6FromString(text) ==
    LET read == Readings(text)[Len(text) + 1]
    IN  [ok |-> ~read.failed, address |-> read.address]

\* print(): all groups, in full
IPv6Print(address) ==
    [i \in 1 .. 2 * Groups - 1 |-> IF i % 2 = 1 THEN address[i \div 2] ELSE Colon]

\* Reference: the address a text denotes that has the groups left, and the groups
\* right after a "::"
Joined(groups) ==
    [i \in 1 .. 2 * Len(groups) - 1 |-> IF i % 2 = 1 THEN groups[(i + 1) \div 2] ELSE Colon]
Written(left, right) ==
    (IF left = <<>> THEN <<>> ELSE Joined(left)) \o <<Colon, Colon>>
        \o (IF right = <<>> THEN <<>> ELSE Joined(right))
Denoted(left, right) ==
    [n \in 0 .. Groups - 1 |->
        IF n < Len(left) THEN left[n + 1]
        ELSE IF n >= Groups - Len(right) THEN right[n + 1 - (Groups - Len(right))]
        ELSE 0]

-----------------------------------------------------------------------------
(* MACAddress::fromString(): two digits, then a separator, and so on *)

MacLength == 17

\* A character that is not the digit or the separator it should be
MacFails(text, strpos) ==
    IF strpos % 3 = 2 THEN text[strpos + 1] # Colon ELSE text[strpos + 1] < 0

\* What is stored at a position, in the digits of the address
MacDigit(read, strpos, val) ==
    LET pos == strpos \div 3
    IN  CASE strpos % 3 = 0 -> [read EXCEPT ![2 * pos] = val, ![2 * pos + 1] = 0]
          [] strpos % 3 = 1 -> [read EXCEPT ![2 * pos + 1] = val]
          [] OTHER -> read

\* The digits of the address after each of the characters
MacReadings(before, text) ==
    LET after[n \in 0 .. MacLength] ==
            IF n = 0 THEN before ELSE MacDigit(after[n - 1], n - 1, text[n])
    IN  after

\* The digits of the address before, and after: those in front of the first
\* character that does not fit are stored all the same
MacFromString(before, text) ==
    LET good == {n \in 0 .. MacLength : \A k \in 0 .. n - 1 : ~MacFails(text, k)}
        stored == CHOOSE n \in good : \A k \in good : k <= n
    IN  [ok |-> stored = MacLength, digits |-> MacReadings(before, text)[stored]]

\* Reference: a text that is written as it should be
IsMac(text) == \A i \in 1 .. MacLength : (i % 3 = 0) = (text[i] = Colon) /\ text[i] # Bad

-----------------------------------------------------------------------------
(* The addresses of a board, as functions on the positions of their bytes *)

Zero == [n \in 0 .. 15 |-> 0]

\* Faulty variant: the inserted bytes take the place of bytes of the MAC address
setEui64_Short(address, mac) ==
    [n \in 0 .. 15 |-> IF n < 8 THEN address[n]
                      ELSE IF n = 11 THEN 255 ELSE IF n = 12 THEN 254
                      ELSE IF n = 8 THEN 2 ELSE mac[(n - 8) % 6]]
\* The lower half is made of the MAC address, its second bit inverted, with ff fe
\* in the middle
setEui64(address, mac) ==
    [n \in 0 .. 15 |->
        IF n < 8 THEN address[n]
        ELSE CASE n = 8 -> IF (mac[0] \div 2) % 2 = 1 THEN mac[0] - 2 ELSE mac[0] + 2
               [] n \in 9 .. 10 -> mac[n - 8]
               [] n = 11 -> 255
               [] n = 12 -> 254
               [] n \in 13 .. 15 -> mac[n - 10]]

LinkLocal(mac) == setEui64([Zero EXCEPT ![0] = 254, ![1] = 128], mac)

AllNodes == [Zero EXCEPT ![0] = 255, ![1] = 2, ![15] = 1]
SolicitedNode(address) ==
    [n \in 0 .. 15 |-> IF n \in 13 .. 15 THEN address[n]
                      ELSE [AllNodes EXCEPT ![11] = 1, ![12] = 255][n]]

isMulticast(address) == address[0] = 255
isLinkLocal(address) == address[0] = 254 /\ address[1] = 128
inSameSubnet(a, b) == \A n \in 0 .. 7 : a[n] = b[n]

\* setIPv6Multicast(): the MAC address for a multicast
MulticastMac(address) == [n \in 0 .. 5 |-> IF n < 2 THEN 51 ELSE address[n + 10]]
isIPv6Multicast(mac) == mac[0] = 51 /\ mac[1] = 51

\* What a board takes for its own
isOurAddress(board, address) ==
    address \in {board.linkLocal, board.global, AllNodes,
                SolicitedNode(board.linkLocal), SolicitedNode(board.global)}
checkEthernetAddresses(board, from, to) ==
    (isIPv6Multicast(to) \/ to = board.mac) /\ from # board.mac

=============================================================================
