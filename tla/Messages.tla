------------------------------ MODULE Messages ------------------------------
(***************************************************************************)
(* DNS messages and HTTP requests: what dnsMakeRequest() writes,           *)
(* dnsProcessReply() finds, and HTTPServer::checkRequest() takes for a     *)
(* request with a given path.                                              *)
(*                                                                         *)
(* A message is a sequence of bytes.  The header of a resource record is   *)
(* three of them: type, class and length of the data.                      *)
(***************************************************************************)
EXTENDS Integers, SequencesExt

CONSTANTS
    AddressLen,         \* bytes of an IPv6 address (16)
    LengthMod           \* values of a uint8_t (256), as maxlen and answerCount are

-----------------------------------------------------------------------------
(* Names *)

Dot == 46
Pointer == 192      \* a byte with the top two bits set, of a compressed name

\* encodeName(): each label after its length, which grows as the label does
EncodeCharacter(query, c) ==
    IF c = Dot THEN [bytes |-> Append(query.bytes, 0), length |-> Len(query.bytes) + 1]
    ELSE [bytes |-> [Append(query.bytes, c) EXCEPT ![query.length] = @ + 1],
          length |-> query.length]

\* The query after each of the characters
Encodings(host) ==
    LET after[i \in 0 .. Len(host)] ==
            IF i = 0 THEN [bytes |-> <<0>>, length |-> 1]
            ELSE EncodeCharacter(after[i - 1], host[i])
    IN  after

encodeName(host) == Append(Encodings(host)[Len(host)].bytes, 0)

\* Faulty variant: a pointer is taken for one byte
PointerEnd_OneByte(p) == p + 1
PointerEnd(p) == p + 2

\* The position after a name, for each number of labels that it has at most
SkipLabels(message) ==
    LET skip[n \in 0 .. Len(message)] ==
            [q \in Nat |->
                LET next == q + message[q] + 1
                IN  IF n = 0 \/ message[q] = 0 THEN q
                    ELSE IF message[q] >= Pointer THEN PointerEnd(q)
                    ELSE IF message[next] = 0 THEN next + 1
                    ELSE skip[n - 1][next]]
    IN  skip

\* skipOverName(), from position p of a message
skipOverName(message, p) == SkipLabels(message)[Len(message)][p]

-----------------------------------------------------------------------------
(* Replies *)

AAAA == 28
CLASS_IN == 1
HeaderLen == 3      \* sizeof(struct dnsRecord), as abstracted

NULL == 0

\* An answer that is an address, by its header at a position
IsAddress(message, record) ==
    /\ message[record] = AAAA /\ message[record + 1] = CLASS_IN
    /\ message[record + 2] = AddressLen

\* The position of the address in the first of n answers that has one, from a position on
FindAddress(message, answerCount) ==
    LET find[n \in 0 .. answerCount] ==
            [q \in Nat |->
                LET record == skipOverName(message, q)
                    next == record + HeaderLen + message[record + 2]
                IN  IF n = 0 THEN NULL
                    ELSE IF IsAddress(message, record) THEN record + HeaderLen
                    ELSE IF next > Len(message) + 1 THEN NULL
                    ELSE find[n - 1][next]]
    IN  find

\* dnsProcessReply(), of a reply with one question; 4 bytes of type and class
\* follow its name
dnsProcessReply(reply, requestId) ==
    IF reply.id # requestId \/ reply.rcode # 0 THEN NULL
    ELSE LET p == skipOverName(reply.message, 1) + 4
             answerCount == reply.ancount % LengthMod
         IN  IF p > Len(reply.message) + 1 THEN NULL
             ELSE FindAddress(reply.message, answerCount)[answerCount][p]

-----------------------------------------------------------------------------
(* Requests.  The text is what follows the method and its space *)

Space == 32
Query == 63         \* '?', the end of a path, or in a pattern any character
Hash == 35          \* '#' of a pattern: the rest of the path
NewLine == 10
NUL == 0

\* Faulty variant: a query string is taken for a part of the path
EndsPath_Space(c) == c = Space
EndsPath(c) == c \in {Space, Query}

\* Character i of the pattern; what lies behind its NUL is not known
PatternAt(pattern, i, behind) ==
    IF i <= Len(pattern) THEN pattern[i]
    ELSE IF i = Len(pattern) + 1 THEN NUL ELSE behind

maxlen(text) == Len(text) % LengthMod

\* What is behind a '#' in the pattern, and it itself, fits any character
AllowAny(pattern, i, behind) == \E k \in 1 .. i : PatternAt(pattern, k, behind) = Hash

Fits(text, pattern, i, behind) ==
    \/ PatternAt(pattern, i, behind) \in {Query, text[i]}
    \/ AllowAny(pattern, i, behind)

\* Whether a text matches a pattern, from each of its characters on
MatchFrom(text, pattern, behind) ==
    LET step[i \in Nat] ==
            IF i > maxlen(text) THEN TRUE
            ELSE IF EndsPath(text[i]) THEN PatternAt(pattern, i, behind) = NUL
            ELSE Fits(text, pattern, i, behind) /\ step[i + 1]
    IN  step

MatchPath(text, pattern, behind) == MatchFrom(text, pattern, behind)[1]

\* The start of the body, if there is something in it: behind a line end with another
\* one or two places before, whatever is between them; what stands in front of the
\* text is no line end
BodyStart(text) ==
    LET newLine(i) == i > 0 /\ text[i] = NewLine
        ends == {i \in 1 .. Len(text) - 1 :
                    newLine(i) /\ (newLine(i - 2) \/ newLine(i - 1))}
    IN  IF ends = {} THEN NULL ELSE 1 + CHOOSE i \in ends : \A k \in ends : i <= k

\* Reference: the path of a text
EndOf(text) == {i \in 1 .. Len(text) : text[i] \in {Space, Query}}
PathOf(text) == SubSeq(text, 1, (CHOOSE i \in EndOf(text) : \A k \in EndOf(text) : i <= k) - 1)

\* Whether a path that is as long, or longer, begins as a pattern does up to its '#'
Begins(path, pattern) ==
    \A i \in 1 .. Len(pattern) :
        pattern[i] \in {path[i], Query} \/ \E k \in 1 .. i : pattern[k] = Hash

\* The ends of lines with one character at most that follow another line
ShortLineEnds(text) ==
    {i \in 1 .. Len(text) :
        /\ text[i] = NewLine
        /\ \E j \in 1 .. i - 1 :
             /\ text[j] = NewLine /\ \A k \in j + 1 .. i - 1 : text[k] # NewLine
             /\ i - j - 1 <= 1}

=============================================================================
