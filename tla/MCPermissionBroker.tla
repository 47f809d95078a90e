------------------------ MODULE MCPermissionBroker -------------------------
(* Instances of PermissionBroker for TLC. *)
EXTENDS PermissionBroker, TLC

CONSTANTS p1, p2, alice, bob

MCOwner == (p1 :> alice) @@ (p2 :> bob)
MCOwnerOf1 == p1 :> alice
MCTimings == {[timeout |-> 1, warnBefore |-> 0], [timeout |-> 1, warnBefore |-> 3]}
=============================================================================
