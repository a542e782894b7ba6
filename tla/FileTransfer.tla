---------------------------- MODULE FileTransfer ----------------------------
(***************************************************************************)
(* What a TFTP transfer promises, in either direction: the receiver's copy *)
(* grows by one block at a time, in order and without repetition; the      *)
(* receiver is done when it has the whole file; and the sender only        *)
(* believes to be done when the receiver is.  Either side may give up at   *)
(* any time, which changes nothing that can be seen here.                  *)
(***************************************************************************)
EXTENDS Naturals, Sequences

CONSTANTS
    Transfer,       \* the transfers
    File            \* File[t] is the sequence of blocks transfer t is to copy

VARIABLES
    copy,           \* copy[t]: the blocks the receiver has
    receiverDone,   \* the transfers the receiver has completed
    senderDone      \* the transfers the sender believes completed

Init ==
    /\ copy = [t \in Transfer |-> <<>>]
    /\ receiverDone = {} /\ senderDone = {}

\* The next block arrives; the last one completes the copy
Deliver(t) ==
    /\ Len(copy[t]) < Len(File[t])
    /\ copy' = [copy EXCEPT ![t] = Append(@, File[t][Len(@) + 1])]
    /\ receiverDone' = IF copy'[t] = File[t] THEN receiverDone \cup {t}
                                             ELSE receiverDone
    /\ UNCHANGED senderDone

SenderDone(t) ==
    /\ t \in receiverDone
    /\ senderDone' = senderDone \cup {t}
    /\ UNCHANGED <<copy, receiverDone>>

Next == \E t \in Transfer : Deliver(t) \/ SenderDone(t)

Spec == Init /\ [][Next]_<<copy, receiverDone, senderDone>>
=============================================================================
