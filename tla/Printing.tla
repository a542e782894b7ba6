------------------------------ MODULE Printing ------------------------------
(***************************************************************************)
(* The Print interface of a Socket, and of a Syslog, which sends each line *)
(* in a packet of its own.  _writePos is -1 as long as nothing is written. *)
(*                                                                         *)
(* write() does not look for the end of the buffer.  What is written       *)
(* behind it is counted in overrun, and from there on nothing that is said *)
(* of the socket has a meaning.                                            *)
(***************************************************************************)
EXTENDS Integers, FiniteSetsExt, SequencesExt

CONSTANT PayloadSize    \* bytes from the payload to the end of the packet buffer

LineBreaks == {10, 13}
Header == 60        \* "<pri>EtherSia: ", taken for one character
Terminator == 0

Fresh == [_writePos |-> -1, payload |-> <<>>, sent |-> <<>>, overrun |-> 0]

\* A character at _writePos; what is written at -1 is in front of the payload, in
\* the header, which sendInternal() fills in later
Put(s, c) ==
    [_writePos |-> s._writePos + 1, sent |-> s.sent,
     payload |-> IF s._writePos = -1 THEN <<>> ELSE Append(s.payload, c),
     overrun |-> IF s._writePos >= PayloadSize THEN s.overrun + 1 ELSE s.overrun]

SendText(s) ==
    [_writePos |-> -1, payload |-> <<>>, sent |-> Append(s.sent, s.payload),
     overrun |-> s.overrun]

\* Socket::write(): only what is no line break starts a payload
SocketWrite(s, c) ==
    IF c \notin LineBreaks /\ s._writePos = -1
      THEN Put([s EXCEPT !._writePos = 0], c) ELSE Put(s, c)

\* Socket::send()
SocketSend(s) == IF s._writePos > 0 THEN SendText(s) ELSE s

\* The socket after each of the characters
SocketWrites(text) ==
    LET after[i \in 0 .. Len(text)] ==
            IF i = 0 THEN Fresh ELSE SocketWrite(after[i - 1], text[i])
    IN  after

SocketPrint(text) == SocketSend(SocketWrites(text)[Len(text)])

\* Faulty variant: the second character of a line break sends what is there, too
SyslogNewLine_Always(s) == SendText(Put(s, Terminator))
\* Syslog::handleWriteNewline()
SyslogNewLine(s) == IF s._writePos > 0 THEN SendText(Put(s, Terminator)) ELSE s

SyslogWrite(s, c) ==
    IF c \in LineBreaks THEN SyslogNewLine(s)
    ELSE IF s._writePos = -1 THEN Put(Put([s EXCEPT !._writePos = 0], Header), c)
    ELSE Put(s, c)

SyslogWrites(text) ==
    LET after[i \in 0 .. Len(text)] ==
            IF i = 0 THEN Fresh ELSE SyslogWrite(after[i - 1], text[i])
    IN  after

SyslogPrint(text) == SyslogWrites(text)[Len(text)]

\* Reference: where lines that are not empty start, and the packets of those that have
\* an end, in order
LineStarts(text) ==
    {i \in 1 .. Len(text) :
        text[i] \notin LineBreaks /\ (i > 1 => text[i - 1] \in LineBreaks)}
LineEnds(text, i) == {k \in i .. Len(text) : text[k] \in LineBreaks}
Line(text, i) == SubSeq(text, i, Min(LineEnds(text, i)) - 1)

\* Each line fits with its header, and with what is put where it ends
LinesFit(text) ==
    \A i \in LineStarts(text) : \A k \in i .. Len(text) :
        (\A j \in i .. k - 1 : text[j] \notin LineBreaks) => k - i + 2 <= PayloadSize

AreLines(packets, text) ==
    LET ended == {i \in LineStarts(text) : LineEnds(text, i) # {}}
    IN  \E starts \in [1 .. Len(packets) -> ended] :
          /\ Range(starts) = ended
          /\ \A m, n \in 1 .. Len(packets) : m < n => starts[m] < starts[n]
          /\ \A n \in 1 .. Len(packets) :
                packets[n] = <<Header>> \o Line(text, starts[n]) \o <<Terminator>>

=============================================================================
