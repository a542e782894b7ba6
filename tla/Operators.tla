----------------------------- MODULE Operators ------------------------------
(***************************************************************************)
(* The functions of the library that compute something from their          *)
(* arguments alone, called with every argument of bounded sets, one call   *)
(* after the other; and the round trip estimator, sample after sample.     *)
(***************************************************************************)
EXTENDS Checksum, Addresses, Messages, RoundTrip, Printing

CONSTANTS
    Packets,            \* packets to be sent
    GroupLists,         \* lists of at most 8 groups
    Macs, Subnets,     \* MAC addresses, and addresses of subnets
    MacTexts,           \* texts of 17 characters
    Hosts,              \* names, as sequences of characters
    Answers,            \* sequences of resource records
    RequestTexts,       \* what follows the method in requests
    Patterns,           \* paths that sketches look for
    PrintedTexts,       \* texts printed to a socket
    MaxRoundTrip        \* round trips, in ticks

VARIABLE call           \* the last call, with its arguments and its result

Ready == call.op = "none"
Calls(op, record) ==
    call' = [field \in {"op"} \cup DOMAIN record |->
                IF field = "op" THEN op ELSE record[field]]

SendPacket ==
    /\ Ready
    /\ \E packet \in Packets : Calls("send", [packet |-> WithChecksum(packet)])

ReadAddress ==
    /\ Ready
    /\ \E left, right \in GroupLists :
           /\ Len(left) + Len(right) < Groups
           /\ Calls("address", [denoted |-> Denoted(left, right),
                                read |-> IPv6FromString(Written(left, right))])

ReadPrintedAddress ==
    /\ Ready
    /\ \E groups \in GroupLists :
           /\ Len(groups) = Groups
           /\ LET address == Denoted(groups, <<>>)
              IN  Calls("address", [denoted |-> address,
                                    read |-> IPv6FromString(IPv6Print(address))])

\* A MAC address of zeros before
ReadMac ==
    /\ Ready
    /\ \E text \in MacTexts :
           Calls("mac", [text |-> text,
                         read |-> MacFromString([d \in 0 .. 11 |-> 0], text)])

\* One board looks for another by an address of it, from icmp6SendNS() to
\* receivePacket() of the other
Solicit ==
    /\ Ready
    /\ \E from, to \in Macs, prefix \in Subnets, isGlobal \in BOOLEAN :
           LET board(mac) == [mac |-> mac, linkLocal |-> LinkLocal(mac),
                              global |-> setEui64(prefix, mac)]
               target == IF isGlobal THEN board(to).global ELSE board(to).linkLocal
               multicast == SolicitedNode(target)
               heard(b) == /\ checkEthernetAddresses(b, from, MulticastMac(multicast))
                           /\ isOurAddress(b, multicast)
           IN  /\ from # to
               /\ Calls("solicit", [to |-> to, target |-> target, prefix |-> prefix,
                                    heard |-> {mac \in Macs : heard(board(mac))},
                                    onLink |-> isLinkLocal(target)
                                                 \/ inSameSubnet(target, prefix),
                                    own |-> isMulticast(multicast)])

\* A reply to the question for a name, with answers
Reply(host, answers) ==
    LET record(a) == a.name \o <<a.type, a.class, Len(a.data)>> \o a.data
    IN  [id |-> 1, rcode |-> 0, ancount |-> Len(answers),
         message |-> encodeName(host) \o <<0, AAAA, 0, CLASS_IN>>
                        \o FlattenSeq([i \in 1 .. Len(answers) |-> record(answers[i])])]

ProcessReply ==
    /\ Ready
    /\ \E host \in Hosts, answers \in Answers :
           LET reply == Reply(host, answers)
           IN  Calls("reply", [host |-> host, answers |-> answers, message |-> reply.message,
                               found |-> dnsProcessReply(reply, 1)])

CheckRequest ==
    /\ Ready
    /\ \E text \in RequestTexts, pattern \in Patterns, behind \in {NUL, Space, Hash} :
           Calls("request", [text |-> text, pattern |-> pattern,
                             behind |-> behind,
                             matched |-> MatchPath(text, pattern, behind),
                             body |-> BodyStart(text)])

PrintText ==
    /\ Ready
    /\ \E text \in PrintedTexts :
           Calls("print", [text |-> text, socket |-> SocketPrint(text),
                           syslog |-> SyslogPrint(text)])

Connect == Ready /\ Calls("estimate", [est |-> FirstEstimate, ideal |-> FirstEstimate])

\* A segment that was sent once is acknowledged before its timer is at zero
Sample ==
    /\ call.op = "estimate"
    /\ \E roundTrip \in 0 .. MaxRoundTrip :
        /\ roundTrip <= call.est.rto
        /\ call' = [call EXCEPT !.est = Update(@, @.rto - roundTrip),
                                !.ideal = Estimate(@, roundTrip)]

Return == call.op # "none" /\ call' = [op |-> "none"]

Init == call = [op |-> "none"]

Next ==
    \/ SendPacket \/ ReadAddress \/ ReadPrintedAddress \/ ReadMac \/ Solicit
    \/ ProcessReply \/ CheckRequest \/ PrintText
    \/ Connect \/ Sample \/ Return

Spec == Init /\ [][Next]_call

\* What the theorems suppose: packets have a sum of one word for their length and protocol;
\* texts and patterns are characters, none of them NUL, and what is printed is characters;
\* groups and digits have values, and the text of a MAC address has its length;
\* names and records are as in a message, with fewer answers than a byte can count; round
\* trips are short enough for the bytes of the estimator
RealPackets == ByteIsReal /\ \A p \in Packets : RealPacket(p)
RealRequests ==
    /\ LengthMod \in Nat \ {0}
    /\ RequestTexts \cup Patterns \subseteq Seq(Nat \ {NUL})
RealTexts == PrintedTexts \subseteq Seq(Nat) /\ PayloadSize \in Nat
RealAddresses ==
    /\ GroupLists \subseteq Seq(Nat)
    /\ \A text \in MacTexts : text \in [1 .. MacLength -> Nat \cup {Colon, Bad}]

\* A name has labels that are not empty, and then a 0, or a pointer of two bytes; the labels
\* of a host are not empty, and their lengths are no pointers
RealName(name) ==
    /\ name \in Seq(Nat)
    /\ \E starts \in SUBSET (1 .. Len(name)) :
         /\ 1 \in starts
         /\ \A p \in starts :
              LET next == p + name[p] + 1
              IN  IF name[p] >= Pointer THEN p + 1 = Len(name)
                  ELSE name[p] # 0 /\ (next \in starts \/ (next = Len(name) /\ name[next] = 0))
LabelStarts(host, n) == {p \in 1 .. n + 1 : p = 1 \/ host[p - 1] = Dot}
RealHost(host) ==
    /\ host \in Seq(Nat)
    /\ \A p \in LabelStarts(host, Len(host)) :
         \E end \in p + 1 .. p + Pointer - 1 :
            /\ \A k \in p .. end - 1 : k <= Len(host) /\ host[k] # Dot
            /\ end = Len(host) + 1 \/ (end <= Len(host) /\ host[end] = Dot)
RealReplies ==
    /\ LengthMod \in Nat \ {0}
    /\ \A host \in Hosts : RealHost(host)
    /\ \A answers \in Answers :
         /\ answers \in Seq(Range(answers)) /\ Len(answers) < LengthMod
         /\ \A a \in Range(answers) : /\ RealName(a.name) /\ a.type \in Nat /\ a.class \in Nat
                                      /\ a.data \in Seq(Nat)
ShortRoundTrips == MaxRoundTrip \in 0 .. 31

-----------------------------------------------------------------------------
(* Properties *)

\* What sendInternal() sends is valid to isValid(), and to any other receiver of
\* RFC 1071, whatever its length and its last byte; changed in one byte it is not.
ChecksumIsAccepted ==
    call.op = "send" =>
        /\ isValid(call.packet) /\ InternetSum(call.packet) % (WordMod - 1) = 0
        /\ \A i \in 1 .. Len(call.packet.payload), b \in 0 .. ByteMod - 1 :
             b # call.packet.payload[i] => ~isValid([call.packet EXCEPT !.payload[i] = b])
        /\ \A i \in 1 .. Len(call.packet.source), b \in 0 .. ByteMod - 1 :
             b # call.packet.source[i] => ~isValid([call.packet EXCEPT !.source[i] = b])

\* fromString() reads the address that was meant, wherever its "::" stands, and what
\* print() printed; a MAC address is taken for good only if it is written so.
AddressesAreRead ==
    /\ call.op = "address" => call.read = [ok |-> TRUE, address |-> call.denoted]
    /\ call.op = "mac" =>
         /\ call.read.ok = IsMac(call.text)
         /\ call.read.ok => \A d \in 0 .. 11 :
              call.read.digits[d] = call.text[3 * (d \div 2) + (d % 2) + 1]

\* A solicitation for an address of a board, made of its MAC address by setEui64(),
\* is heard by that board, and by others only if their MAC addresses end in the same
\* three bytes; the address is one that is looked for on the link.
SolicitationsReach ==
    call.op = "solicit" =>
        /\ call.to \in call.heard /\ call.onLink /\ call.own
        /\ \A mac \in call.heard : \A n \in 3 .. 5 : mac[n] = call.to[n]

\* dnsProcessReply() finds the data of the first record that is an IPv6 address,
\* and nothing where there is none, whatever names other than the root the records
\* have. The reply holds as many records as it says.
AnswerIsFound ==
    call.op = "reply" =>
        LET fits == {i \in 1 .. Len(call.answers) :
                        /\ call.answers[i].type = AAAA /\ call.answers[i].class = CLASS_IN
                        /\ Len(call.answers[i].data) = AddressLen}
        IN  IF fits = {} THEN call.found = NULL
            ELSE call.found # NULL /\
                 SubSeq(call.message, call.found, call.found + AddressLen - 1)
                    = call.answers[Min(fits)].data

\* If the path ends in the part that is looked at, checkRequest() is true of the
\* requests whose path is as long as the pattern and begins as it does up to a '#';
\* and with a '#', of those with a longer path if what lies behind the pattern and
\* its NUL, at the place where the path ends, happens to be another NUL, although
\* HTTPServer.h:33 says that a '#' matches the rest of the path.  The body is what
\* follows the first line that is empty or has a single character, which a line of
\* a header has not.
RequestIsMatched ==
    call.op = "request" =>
        LET path == PathOf(call.text)
            ends == ShortLineEnds(call.text) \cap 1 .. Len(call.text) - 1
        IN  /\ EndOf(call.text) \cap 1 .. maxlen(call.text) # {} =>
                 (call.matched <=>
                    /\ \/ Len(path) = Len(call.pattern)
                       \/ /\ Len(path) > Len(call.pattern)
                          /\ Hash \in Range(call.pattern) /\ call.behind = NUL
                    /\ Begins(path, call.pattern))
            /\ call.body = IF ends = {} THEN NULL ELSE 1 + Min(ends)

\* A socket sends what was printed, and a Syslog sends each line that is not empty
\* once, whole, and with a header of its own; and they write behind the buffer if
\* and only if a text, or a line with its header, does not fit.  Of a socket this
\* is said for texts that do not begin with a line break; one that is printed first
\* is not sent, although Socket.h:215 says that it is handled like any other.
PrintedIsSent ==
    call.op = "print" =>
        LET text == call.text
        IN  /\ text = <<>> \/ text[1] \notin LineBreaks =>
                 /\ call.socket.overrun > 0 <=> Len(text) > PayloadSize
                 /\ call.socket.sent = IF text = <<>> THEN <<>> ELSE <<text>>
            /\ call.syslog.overrun > 0 <=> ~LinesFit(text)
            /\ AreLines(call.syslog.sent, text)

\* Up to MaxRoundTrip ticks the estimator in bytes is the one in integers, and
\* the time-out it gives never is zero.
EstimatesAreReal ==
    call.op = "estimate" => call.est = call.ideal /\ call.est.rto >= UIP_RTO

=============================================================================
