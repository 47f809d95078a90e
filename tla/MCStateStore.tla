--------------------------- MODULE MCStateStore ---------------------------
(* Instances of StateStore for TLC. *)
EXTENDS StateStore, TLC

CONSTANTS m1, m2
=============================================================================
