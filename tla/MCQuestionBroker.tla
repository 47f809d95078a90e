------------------------- MODULE MCQuestionBroker --------------------------
(* Instances of QuestionBroker for TLC. *)
EXTENDS QuestionBroker, TLC

CONSTANTS p1, p2, alice, bob, t1, t2, o1, o2

MCOwner == (p1 :> alice) @@ (p2 :> bob)
MCTimings == {[timeout |-> 1, warnBefore |-> 0], [timeout |-> 1, warnBefore |-> 3]}

\* The questions of p1 differ, those of p2 do not.
MCTextOf == (p1 :> <<t1, t2>>) @@ (p2 :> <<t1, t1>>)
MCSymmetry == Permutations({o1, o2})
=============================================================================
