--------------------------- MODULE MCTFTPSession ---------------------------
(* Small instances of TFTPSession for TLC. *)
EXTENDS TFTPSession

CONSTANT FileLen

\* The file that is read has one block more than the one that is written
Clients == {1, 2}
ServedFile == [i \in 1 .. FileLen + 1 |-> <<0, i>>]
OfferedFiles == [t \in Writes |-> [i \in 1 .. FileLen |-> <<t, i>>]]
Blocks == (0 .. 2) \X (1 .. FileLen + 1)
=============================================================================
