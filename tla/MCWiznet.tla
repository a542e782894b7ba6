------------------------------ MODULE MCWiznet ------------------------------
(* Small instances of Wiznet for TLC. *)
EXTENDS Wiznet

\* With the length before them, frames of 3, 4 and 5 bytes, the last too large for the buffer
ShortLongTooLong == {<<1>>, <<2, 3>>, <<3, 1, 2>>}
OneOfSix == {<<1, 2, 3, 1, 2, 3>>}
=============================================================================
