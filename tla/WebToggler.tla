----------------------------- MODULE WebToggler -----------------------------
(***************************************************************************)
(* The WebToggler sketch: an HTTPServer that switches outputs, with        *)
(* buttons that a timer interrupt looks at, and its clients on a network   *)
(* that loses, repeats and reorders segments.                              *)
(*                                                                         *)
(* A TCPServer keeps no connection: flags and numbers of an answer come    *)
(* from the segment it answers, and a request is one segment.  The steps   *)
(* of loop() are those between which the interrupt may come, its reads and *)
(* writes of the outputs.  A client is a TCP of RFC 793; it may send the   *)
(* headers and the body of a request in separate segments.                 *)
(*                                                                         *)
(* A page that is longer than the packet buffer is written over what lies  *)
(* behind it.  The language defines nothing of the program from there on,  *)
(* and neither does the model: the board is left in "overrun".             *)
(***************************************************************************)
EXTENDS Integers, FiniteSets

CONSTANTS
    CHANNEL_COUNT,      \* outputs, and buttons (4)
    ETHERSIA_MAX_PACKET_SIZE,   \* bytes in the packet buffer (600)
    DebounceCount,      \* trigger_count at which a pressed button toggles (3)
    IgnoreCount,        \* ignore_count after that (8)
    SeqMod,             \* sequence numbers are 0 .. SeqMod - 1 (2^32)
    RandomSeq,          \* what random() may give for the server's SYN
    Window,             \* the receive window of a client
    Connections,        \* connections, each of a client and a port of its own
    Requests,           \* what clients ask for, a subset of Request
    Capacity            \* segments in flight at a time; what exceeds it is lost

Channel == 0 .. CHANNEL_COUNT - 1

\* A request; num is what pathToNum() finds, CHANNEL_COUNT for any other digit
Request == [method : {"GET", "POST", "PUT"}, path : {"/", "/outputs/?", "other"},
            num : 0 .. CHANNEL_COUNT, body : {"none", "on", "off", "other"}]

ASSUME WebAssumption ==
    /\ CHANNEL_COUNT \in 1 .. 9     \* pages count with one digit
    /\ ETHERSIA_MAX_PACKET_SIZE \in Nat
    /\ DebounceCount \in Nat /\ IgnoreCount \in Nat
    /\ SeqMod \in Nat /\ SeqMod > 4 /\ RandomSeq \subseteq 0 .. SeqMod - 1
    /\ Window \in Nat /\ Capacity \in Nat
    /\ Requests \subseteq Request /\ Requests # {}

VARIABLES
    pin,            \* the level of each output
    trigger_count,  \* of checkButtons(), for each button ...
    ignore_count,
    pc,             \* where loop() is
    segment,        \* the packet in the buffer
    page,           \* levels read for the answer so far
    net,            \* the segments in flight
    client,         \* the client of each connection
    levels,         \* levels each output had since the connection was opened
    steady          \* samples of each button: HIGH since the last LOW one, and
                    \* LOW since it toggled its output, as far as they count

buttonVars == <<trigger_count, ignore_count, steady>>
loopVars == <<pc, segment, page>>
vars == <<pin, buttonVars, loopVars, net, client, levels>>

Sequence == 0 .. SeqMod - 1
Plus(n, k) == (n + k) % SeqMod

\* The part of a request a segment carries, and how many bytes that is
Part == {"none", "headers", "body", "all"}
Length(request, part) ==
    CASE part = "none" -> 0
      [] part = "all" /\ request.body # "none" -> 2
      [] OTHER -> 1

\* What an answer says: its status and the levels in its text
NoAnswer == [status |-> "none", shown |-> {}]
Answer(status, shown) == [status |-> status, shown |-> shown]

TypeOK ==
    /\ pin \in [Channel -> BOOLEAN]
    /\ trigger_count \in [Channel -> 0 .. DebounceCount]
    /\ ignore_count \in [Channel -> 0 .. IgnoreCount]
    /\ pc \in {"loop", "handle", "index", "toggle", "reply", "overrun"}
    /\ page \subseteq Channel \X BOOLEAN
    /\ Cardinality(net) <= Capacity
    /\ \A m \in net : m.seq \in Sequence /\ m.ack \in Sequence

-----------------------------------------------------------------------------
(* The network *)

\* A segment that is received may stay, to be received again
Taken(m) == {net, net \ {m}}

\* Segments put into the network, as far as there is room
Carry(inFlight, new) ==
    IF Cardinality(inFlight \cup new) <= Capacity THEN inFlight \cup new
                                                  ELSE inFlight

Lose ==
    /\ \E m \in net : net' = net \ {m}
    /\ UNCHANGED <<pin, buttonVars, loopVars, client, levels>>

-----------------------------------------------------------------------------
(* TCPServer *)

ToClient(m, flags, seq, ack, answer) ==
    [to |-> "client", conn |-> m.conn, flags |-> flags, seq |-> seq, ack |-> ack,
     part |-> "none", answer |-> answer]

ReceivedLen(m) == Length(client[m.conn].request, m.part)

\* sendInternal(): an answer takes its numbers from the segment it answers.  One
\* without data counts as one byte
SendInternal(m, flags, seq, answer) ==
    LET receivedLen == IF ReceivedLen(m) = 0 THEN 1 ELSE ReceivedLen(m)
    IN  ToClient(m, flags, seq, Plus(m.seq, receivedLen), answer)

\* What havePacket() answers itself: a FIN, and a SYN with a random number
HandshakeAnswers(m) ==
    IF "RST" \in m.flags THEN {}
    ELSE IF "FIN" \in m.flags
      THEN {SendInternal(m, {"FIN", "ACK"}, m.ack, NoAnswer)}
    ELSE IF "SYN" \in m.flags
      THEN {SendInternal(m, {"SYN", "ACK"}, seq, NoAnswer) : seq \in RandomSeq}
    ELSE {}

\* havePacket() is true of what has data and none of these flags
HasData(m) == m.flags \cap {"RST", "FIN", "SYN"} = {} /\ ReceivedLen(m) > 0

\* The number of a RST; faulty variant: the one RFC 793 asks for
ResetSeq_Acked(m) == m.ack
ResetSeq(m) == 0

\* rejectPacket(), which every other segment gets: a RST too, and the ACKs of a
\* client
Rejection(m) ==
    ToClient(m, {"RST", "ACK"}, ResetSeq(m), Plus(m.seq, 1), NoAnswer)

\* What loop() sends at once: after a SYN or a FIN the buffer is not received any more
AnsweredAtOnce(m) ==
    IF HandshakeAnswers(m) # {} THEN HandshakeAnswers(m) ELSE {Rejection(m)}

-----------------------------------------------------------------------------
(* loop() *)

Receive ==
    /\ pc = "loop"
    /\ \E m \in net :
        /\ m.to = "server"
        /\ IF HasData(m)
             THEN /\ pc' = "handle" /\ segment' = m /\ page' = {}
                  /\ net' \in Taken(m)
             ELSE /\ UNCHANGED loopVars
                  /\ \E answer \in AnsweredAtOnce(m), rest \in Taken(m) :
                        net' = Carry(rest, {answer})
    /\ UNCHANGED <<pin, buttonVars, client, levels>>

request == client[segment.conn].request

\* Faulty variant: the result of the comparison of the method is not looked at
Is_AnyMethod(method, path) == segment.part # "body" /\ request.path = path

\* isGet() and isPost() look for a method at the start of the segment, and for a
\* body at its end
Is(method, path) ==
    /\ segment.part # "body"
    /\ request.method = method /\ request.path = path
body == IF segment.part = "headers" THEN "none" ELSE request.body

\* pathToNum(), where it finds a channel
IsChannel == request.num < CHANNEL_COUNT

\* The answer goes out and loop() starts again
SendReply(answer) ==
    /\ net' = Carry(net, {SendInternal(segment, {"ACK", "FIN", "PSH"},
                                       segment.ack, answer)})
    /\ pc' = "loop" /\ segment' = NoAnswer /\ page' = {}

Read(n) == page' = page \cup {<<n, pin[n]>>}

Write(n, level) ==
    /\ pin' = [pin EXCEPT ![n] = level]
    /\ levels' = [c \in Connections |->
                    [levels[c] EXCEPT ![n] = @ \cup {level}]]

\* The payload of an answer comes after 54 bytes of Ethernet and IPv6 header and 24
\* of TCP header; Socket::write() does not look for the end of the buffer
TransmitOffset == 78
Fits(length) == TransmitOffset + length <= ETHERSIA_MAX_PACKET_SIZE

\* The answers that are not made of the outputs are of 85 bytes at most
ASSUME ShortAnswersAssumption == Fits(85)

\* What sendIndex() prints, in bytes: headers and the start of the page, a row
\* for each output, in which "on" is a byte shorter than "off" in two places,
\* and the end of the page
Printed(shown) ==
    295 + 120 * Cardinality({x \in shown : x[2]})
        + 122 * Cardinality({x \in shown : ~x[2]})
PageLength(shown) == Printed(shown) + 29

\* sendIndex() reads the outputs one after the other
HandleIndex ==
    /\ pc = "handle" /\ Is("GET", "/")
    /\ pc' = "index"
    /\ UNCHANGED <<pin, buttonVars, segment, page, net, client, levels>>

SendIndex ==
    /\ pc = "index"
    /\ \/ /\ Cardinality(page) < CHANNEL_COUNT
          /\ Read(Cardinality(page))
          /\ pc' = IF Fits(Printed(page')) THEN pc ELSE "overrun"
          /\ UNCHANGED <<segment, net>>
       \/ /\ Cardinality(page) >= CHANNEL_COUNT /\ Fits(PageLength(page))
          /\ SendReply(Answer("200", page))
       \/ /\ Cardinality(page) >= CHANNEL_COUNT /\ ~Fits(PageLength(page))
          /\ pc' = "overrun"
          /\ UNCHANGED <<segment, page, net>>
    /\ UNCHANGED <<pin, buttonVars, client, levels>>

\* Nothing is said of a board that has written behind its buffer
Undefined == pc = "overrun" /\ UNCHANGED vars

HandleGet ==
    /\ pc = "handle" /\ Is("GET", "/outputs/?") /\ IsChannel
    /\ SendReply(Answer("200", {<<request.num, pin[request.num]>>}))
    /\ UNCHANGED <<pin, buttonVars, client, levels>>

\* digitalToggle(), first its digitalRead() ...
HandleToggle ==
    /\ pc = "handle" /\ Is("POST", "/outputs/?") /\ IsChannel /\ body = "none"
    /\ Read(request.num) /\ pc' = "toggle"
    /\ UNCHANGED <<pin, buttonVars, segment, net, client, levels>>

\* ... then its digitalWrite()
Toggle ==
    /\ pc = "toggle"
    /\ \E level \in BOOLEAN :
        page = {<<request.num, level>>} /\ Write(request.num, ~level)
    /\ pc' = "reply"
    /\ UNCHANGED <<buttonVars, segment, page, net, client>>

HandleSet ==
    /\ pc = "handle" /\ Is("POST", "/outputs/?") /\ IsChannel /\ body # "none"
    /\ IF body = "other" THEN UNCHANGED <<pin, levels>>
                         ELSE Write(request.num, body = "on")
    /\ pc' = "reply"
    /\ UNCHANGED <<buttonVars, segment, page, net, client>>

Redirect ==
    /\ pc = "reply"
    /\ SendReply(Answer("302", {}))
    /\ UNCHANGED <<pin, buttonVars, client, levels>>

\* notFound(), from pathToNum() and at the end of loop()
HandleNotFound ==
    /\ pc = "handle"
    /\ ~Is("GET", "/")
    /\ (Is("GET", "/outputs/?") \/ Is("POST", "/outputs/?")) => ~IsChannel
    /\ SendReply(Answer("404", {}))
    /\ UNCHANGED <<pin, buttonVars, client, levels>>

Loop ==
    \/ Receive \/ HandleIndex \/ SendIndex \/ HandleGet \/ HandleToggle \/ Toggle
    \/ HandleSet \/ Redirect \/ HandleNotFound

-----------------------------------------------------------------------------
(* The timer interrupt *)

\* Faulty variant: not only in the ignore period
Countdown_Always(count) == (count - 1) % 256
Countdown(count) == IF count = 0 THEN 0 ELSE count - 1

\* Faulty variant: one sample less
Debounced_Early(n) == trigger_count[n] >= DebounceCount - 1
Debounced(n) == trigger_count[n] = DebounceCount

\* checkButtons(), with the buttons that are pressed
CheckButtons ==
    /\ pc # "overrun"
    /\ \E pressed \in SUBSET Channel :
          LET live == {n \in Channel : ignore_count[n] = 0}
              toggled == {n \in pressed \cap live : Debounced(n)}
          IN  /\ trigger_count' = [n \in Channel |->
                    IF n \notin live THEN trigger_count[n]
                    ELSE IF n \in pressed \ toggled THEN trigger_count[n] + 1 ELSE 0]
              /\ ignore_count' = [n \in Channel |->
                    IF n \in toggled THEN IgnoreCount
                    ELSE IF n \in pressed THEN ignore_count[n]
                    ELSE Countdown(ignore_count[n])]
              /\ pin' = [n \in Channel |-> pin[n] # (n \in toggled)]
              /\ levels' = [c \in Connections |->
                              [n \in Channel |-> levels[c][n] \cup {pin'[n]}]]
              /\ steady' = [n \in Channel |->
                    IF n \in toggled THEN [high |-> 0, low |-> 0]
                    ELSE IF n \in pressed
                      THEN [steady[n] EXCEPT !.high = IF @ = DebounceCount THEN @ ELSE @ + 1]
                    ELSE [high |-> 0,
                          low |-> IF steady[n].low = IgnoreCount THEN IgnoreCount
                                  ELSE steady[n].low + 1]]
    /\ UNCHANGED <<loopVars, net, client>>

-----------------------------------------------------------------------------
(* The clients.  Their numbers are counted from their SYN *)

ToServer(c, cl, flags, seq, part) ==
    [to |-> "server", conn |-> c, flags |-> flags, seq |-> seq, ack |-> cl.rcv,
     part |-> part, answer |-> NoAnswer]

BareAck(c, cl) == ToServer(c, cl, {"ACK"}, cl.una, "none")

FinSeq(cl) == 1 + Length(cl.request, "all")

\* What a client may send, or send again, until it is acknowledged
Outstanding(c, cl) ==
    LET syn == ToServer(c, cl, {"SYN"}, 0, "none")
        data == IF cl.whole
                  THEN {ToServer(c, cl, {"ACK", "PSH"}, 1, "all")}
                  ELSE {ToServer(c, cl, {"ACK", "PSH"}, 1, "headers"),
                        ToServer(c, cl, {"ACK", "PSH"}, 2, "body")}
        fin == ToServer(c, cl, {"FIN", "ACK"}, FinSeq(cl), "none")
    IN  CASE cl.st = "SYN_SENT" -> {syn}
          [] cl.st = "ESTABLISHED" -> {m \in data : m.seq >= cl.una}
          [] cl.st = "CLOSE_WAIT" -> {m \in data \cup {fin} : m.seq >= cl.una}
          [] OTHER -> {}

Open ==
    \E c \in Connections, r \in Requests, whole \in BOOLEAN :
        /\ client[c].st = "CLOSED"
        /\ ~whole => r.body # "none"
        /\ client' = [client EXCEPT ![c] = [@ EXCEPT !.st = "SYN_SENT",
                                                     !.request = r, !.whole = whole]]
        /\ levels' = [levels EXCEPT ![c] = [n \in Channel |-> {pin[n]}]]
        /\ UNCHANGED <<pin, buttonVars, loopVars, net>>

ClientSends ==
    /\ \E c \in Connections : \E m \in Outstanding(c, client[c]) : net' = Carry(net, {m})
    /\ UNCHANGED <<pin, buttonVars, loopVars, client, levels>>

\* What a client makes of a segment, and sends
Result(cl, sends) == [cl |-> cl, sends |-> sends]

ReceivedInSynSent(c, cl, m) ==
    LET opened == [cl EXCEPT !.st = "ESTABLISHED", !.una = 1, !.rcv = Plus(m.seq, 1)]
    IN  IF m.ack # 1 THEN Result(cl, {})
        ELSE IF "RST" \in m.flags THEN Result([cl EXCEPT !.st = "RESET"], {})
        ELSE IF "SYN" \in m.flags THEN Result(opened, {BareAck(c, opened)})
        ELSE Result(cl, {})

\* RFC 5961: a RST has to have the very number expected, one elsewhere in the
\* window is answered with an ACK
ReceivedRst(c, cl, m) ==
    IF m.seq = cl.rcv THEN Result([cl EXCEPT !.st = "RESET"], {})
    ELSE IF (m.seq - cl.rcv) % SeqMod < Window THEN Result(cl, {BareAck(c, cl)})
    ELSE Result(cl, {})

ReceivedInOrder(c, cl, m) ==
    LET una == IF m.ack \in cl.una .. FinSeq(cl) + 1 THEN m.ack ELSE cl.una
        now == [cl EXCEPT !.una = una]
        read == [now EXCEPT !.answer = m.answer, !.rcv = Plus(cl.rcv, 2),
                            !.st = "CLOSE_WAIT"]
    IN  IF cl.st = "ESTABLISHED" /\ "FIN" \in m.flags /\ m.answer # NoAnswer
          THEN Result(read, {BareAck(c, read)})
        ELSE IF una > FinSeq(cl) THEN Result([now EXCEPT !.st = "DONE"], {})
        ELSE Result(now, {})

\* Of a connection that is over
ReceivedLate(c, cl, m) ==
    Result(cl, IF "RST" \in m.flags THEN {}
               ELSE {ToServer(c, [cl EXCEPT !.rcv = 0], {"RST"}, 0, "none")})

Received(c, cl, m) ==
    IF cl.st = "SYN_SENT" THEN ReceivedInSynSent(c, cl, m)
    ELSE IF cl.st \in {"DONE", "RESET"} THEN ReceivedLate(c, cl, m)
    ELSE IF "RST" \in m.flags THEN ReceivedRst(c, cl, m)
    ELSE IF m.seq # cl.rcv \/ "SYN" \in m.flags THEN Result(cl, {BareAck(c, cl)})
    ELSE ReceivedInOrder(c, cl, m)

ClientReceives ==
    \E m \in net :
        /\ m.to = "client"
        /\ LET result == Received(m.conn, client[m.conn], m)
           IN  /\ client' = [client EXCEPT ![m.conn] = result.cl]
               /\ \E rest \in Taken(m) : net' = Carry(rest, result.sends)
        /\ UNCHANGED <<pin, buttonVars, loopVars, levels>>

-----------------------------------------------------------------------------

Init ==
    /\ pin = [n \in Channel |-> FALSE]
    /\ trigger_count = [n \in Channel |-> 0]
    /\ ignore_count = [n \in Channel |-> 0]
    /\ steady = [n \in Channel |-> [high |-> 0, low |-> IgnoreCount]]
    /\ pc = "loop" /\ segment = NoAnswer /\ page = {}
    /\ net = {}
    /\ client = [c \in Connections |->
                    [st |-> "CLOSED", request |-> CHOOSE r \in Requests : TRUE,
                     whole |-> TRUE, una |-> 0, rcv |-> 0, answer |-> NoAnswer]]
    /\ levels = [c \in Connections |-> [n \in Channel |-> {}]]

Next ==
    \/ Loop \/ CheckButtons \/ Undefined
    \/ Open \/ ClientSends \/ ClientReceives \/ Lose

Spec == Init /\ [][Next]_vars

-----------------------------------------------------------------------------
(* Properties *)

\* The levels an answer shows, or says to have set, are levels those outputs had
\* since the client asked
Had(c, n, level) == level \in levels[c][n]

\* What the answer to a client may be.  Of a request in two segments the body
\* alone may get an answer, and is not found
Answers(c, a) ==
    LET r == client[c].request
        found == (r.method = "GET" /\ r.path = "/")
                    \/ (r.method \in {"GET", "POST"} /\ r.path = "/outputs/?"
                            /\ r.num < CHANNEL_COUNT)
    IN  \/ a.status = "404" /\ (~found \/ ~client[c].whole)
        \/ /\ a.status = "200" /\ found /\ r.method = "GET"
           /\ {x[1] : x \in a.shown} = IF r.path = "/" THEN Channel ELSE {r.num}
           /\ \A x \in a.shown : Had(c, x[1], x[2])
        \/ /\ a.status = "302" /\ found /\ r.method = "POST"
           /\ r.body = "none" \/ ~client[c].whole =>
                Had(c, r.num, TRUE) /\ Had(c, r.num, FALSE)
           /\ r.body \in {"on", "off"} => Had(c, r.num, r.body = "on")

\* A client that has an answer has one to its own request, and it is true: an
\* output that is shown on was on since the client asked, one that was switched on
\* has been on; whatever segments came again, late or of other connections, and
\* whatever buttons were pressed meanwhile. What does not fit into the buffer is
\* no answer: see PagesFit.
AnswersAreTrue ==
    \A c \in Connections :
        client[c].answer # NoAnswer => Answers(c, client[c].answer)

\* rejectPacket() resets what it is given, and loop() gives it the ACK of every
\* handshake and of every answer.  A client survives that because the RST has
\* number 0, unless 0 is the number it expects.
ResetOnlyAtWrap ==
    \A c \in Connections : client[c].st = "RESET" => client[c].rcv = 0

\* Buttons toggle when they have been pressed for DebounceCount samples before
\* this one and released for IgnoreCount since the last time, and not otherwise.
TogglesAreDebounced ==
    [][\A n \in Channel :
         (pin'[n] # pin[n] /\ pc' = pc)
            => steady[n].high = DebounceCount /\ steady[n].low = IgnoreCount]_vars

-----------------------------------------------------------------------------
(* What a comment of the source says, and the code does not do *)

\* WebToggler.ino:109, "Turn an output On, when it is Off. Or Off when it is On."
\* A button that toggles the same output between digitalRead() and digitalWrite()
\* of digitalToggle() makes the write one of the level the output already has.
TogglesFlip ==
    [][pc = "toggle" /\ pc' # pc => pin'[request.num] # pin[request.num]]_vars

\* EtherSia.h:27, the size of the buffer "should be bigger than the biggest packet
\* you want to send or receive": what sendIndex() has printed lies in the buffer.
\* The page of two outputs and more does not, and the sketch has four.
PagesFit == pc \in {"index", "overrun"} => Fits(Printed(page))

=============================================================================
