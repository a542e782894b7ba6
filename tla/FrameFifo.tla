----------------------------- MODULE FrameFifo -----------------------------
(***************************************************************************)
(* What the core expects of an Ethernet driver (readFrame() and            *)
(* sendFrame() of EtherSia.h): frames come out of the controller whole, in *)
(* the order in which they came in and once each, unless one is too large  *)
(* for the buffer it is read into; and what goes on the wire is the frame  *)
(* that was given to sendFrame(), at most once.                            *)
(***************************************************************************)
EXTENDS Naturals, Sequences

CONSTANTS
    Frame,          \* the frames
    BufSize,        \* the buffer of readFrame()
    NoFrame         \* stands for none

VARIABLES
    pending,        \* the frames the controller holds, oldest first
    got,            \* what readFrame() has returned, NoFrame for 0
    sending,        \* what sendFrame() has been given and is not on the wire
    out             \* the frame that was on the wire last

vars == <<pending, got, sending, out>>

Init == pending = <<>> /\ got = NoFrame /\ sending = NoFrame /\ out = NoFrame

\* The controller accepts a frame from the wire
Arrive(f) ==
    /\ pending' = Append(pending, f)
    /\ UNCHANGED <<got, sending, out>>

\* readFrame() returns the oldest frame
Deliver ==
    /\ pending # <<>> /\ Len(Head(pending)) <= BufSize
    /\ got' = Head(pending) /\ pending' = Tail(pending)
    /\ UNCHANGED <<sending, out>>

\* readFrame() drops the oldest frame, because it is too large
Discard ==
    /\ pending # <<>> /\ Len(Head(pending)) > BufSize
    /\ got' = NoFrame /\ pending' = Tail(pending)
    /\ UNCHANGED <<sending, out>>

\* readFrame() returns 0
Nothing == got' = NoFrame /\ UNCHANGED <<pending, sending, out>>

\* sendFrame() is called; what was read may be forgotten by then
Send(f) == sending' = f /\ got' \in {got, NoFrame} /\ UNCHANGED <<pending, out>>

Transmit ==
    /\ sending # NoFrame
    /\ out' = sending /\ sending' = NoFrame
    /\ UNCHANGED <<pending, got>>

\* The controller gives up, or is closed
SendFails == sending' = NoFrame /\ UNCHANGED <<pending, got, out>>

\* The controller is reset
Reset == pending' = <<>> /\ got' = NoFrame /\ sending' = NoFrame /\ UNCHANGED out

Next ==
    \/ \E f \in Frame : Arrive(f) \/ Send(f)
    \/ Deliver \/ Discard \/ Nothing \/ Transmit \/ SendFails \/ Reset

Spec == Init /\ [][Next]_vars
=============================================================================
