--------------------------- MODULE MCWorkJournal ---------------------------
(* Instances of WorkJournal for TLC. *)
EXTENDS WorkJournal, TLC

CONSTANTS e1, e2
=============================================================================
