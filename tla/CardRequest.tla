---------------------------- MODULE CardRequest ----------------------------
(***************************************************************************)
(* What both card brokers promise to the code that asks: a request is      *)
(* answered at most once, only its owner's answer counts, and everything   *)
(* else that ends it is a refusal (src/claude/permission-broker.ts and     *)
(* question-broker.ts, the two interfaces).                                *)
(***************************************************************************)
CONSTANTS Requests, Users, Owner

VARIABLES
    status,   \* where the promise returned by request() is
    by        \* who answered it

Init ==
    /\ status = [r \in Requests |-> "unasked"]
    /\ by = [r \in Requests |-> "nobody"]

Ask(r) ==
    /\ status[r] = "unasked"
    /\ status' = [status EXCEPT ![r] = "open"]
    /\ UNCHANGED by

\* The owner answers on the card.
Accept(r) ==
    /\ status[r] = "open"
    /\ status' = [status EXCEPT ![r] = "answered"]
    /\ by' = [by EXCEPT ![r] = Owner[r]]

\* Timeout, cancellation, or a card that could not be sent: these come to any
\* set of open requests at once.
Refuse(S) ==
    /\ S # {}
    /\ \A r \in S : status[r] = "open"
    /\ status' = [r \in Requests |-> IF r \in S THEN "refused" ELSE status[r]]
    /\ UNCHANGED by

Next == \/ \E r \in Requests : Ask(r) \/ Accept(r)
        \/ \E S \in SUBSET Requests : Refuse(S)

Spec == Init /\ [][Next]_<<status, by>>
=============================================================================
