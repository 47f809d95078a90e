------------------------- MODULE PermissionBroker --------------------------
(***************************************************************************)
(* FeishuPermissionBroker: one click on a button answers the request.      *)
(***************************************************************************)
EXTENDS CardBroker

CardChoices == {"allow", "deny", "allow_turn"}

TypeOK == CardBrokerTypeOK(CardChoices)

\* resolveByCard.
ResolveByCard(r, u, choice) == ClickResolves(r, u, choice)

Init == CardBrokerInit
Next == \/ CardStep
        \/ \E r \in Requests, u \in Users :
              \/ ClickIgnored(r, u)
              \/ \E choice \in CardChoices : ResolveByCard(r, u, choice)

Spec == Init /\ [][Next]_brokerVars
FairSpec == Spec /\ CardFairness

\* The broker keeps the promise of its interface.
ImplementsCardRequest == Abstract!Spec
=============================================================================
