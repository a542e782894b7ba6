----------------------------- MODULE MCENC28J60 -----------------------------
(* Small instances of ENC28J60 for TLC. *)
EXTENDS ENC28J60

\* In the ring, with padding, frames of 8, 10 and 10 bytes, the last too large for the buffer
EvenOddTooLarge == {<<1, 2>>, <<3, 4, 5>>, <<2, 1, 5, 4>>}
OneOfTwo == {<<5, 1>>}
=============================================================================
