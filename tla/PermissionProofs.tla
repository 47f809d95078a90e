------------------------- MODULE PermissionProofs --------------------------
(***************************************************************************)
(* Theorems about PermissionBroker for any number of requests and users    *)
(* and every timing.                                                       *)
(***************************************************************************)
EXTENDS PermissionBroker, CardBrokerProofs

\* A choice of the card is not one of the ways a request is refused.
LEMMA ChoicesAreAnswers == IsAnswerSet(CardChoices)
  BY DEF IsAnswerSet, CardChoices, Refusals, Variants

\* The permission broker does nothing but card steps.
LEMMA StepsAreCardSteps == [Next]_brokerVars => AnyStep(CardChoices)
  BY DEF Next, AnyStep, ClickIgnored, ResolveByCard

\* The shared card invariant holds in every state the permission broker reaches.
THEOREM PermissionInvariance == Spec => []CardInv(CardChoices)
<1>1. Init => CardInv(CardChoices)
  BY InitCardInv DEF Init
<1>2. CardInv(CardChoices) /\ [Next]_brokerVars => CardInv(CardChoices)'
  BY ChoicesAreAnswers, StepsAreCardSteps, CardStepInv
<1> QED BY <1>1, <1>2, PTL DEF Spec

\* Every variable of the permission broker keeps its type.
THEOREM PermissionTypeCorrect == Spec => []TypeOK
<1>1. CardInv(CardChoices) => TypeOK
  BY DEF CardInv, TypeOK
<1> QED BY <1>1, PermissionInvariance, PTL

\* Timers run exactly for the requests in the map, whatever clicks, timeouts and
\* cancellations race.
THEOREM PermissionTimersMatch == Spec => []TimersMatchPending
<1>1. CardInv(CardChoices) => TimersMatchPending
  BY DEF CardInv
<1> QED BY <1>1, PermissionInvariance, PTL

\* No card ever contradicts the answer the tool call got.
THEOREM PermissionCardAgrees == Spec => []CardAgrees
<1>1. CardInv(CardChoices) => CardAgrees
  BY DEF CardInv
<1> QED BY <1>1, PermissionInvariance, PTL

\* FeishuPermissionBroker keeps the contract of its interface: one answer at
\* most, from the owner, and a refusal otherwise.
THEOREM PermissionImplements == Spec => ImplementsCardRequest
<1>1. Init => Abstract!Init
  BY InitAbstract DEF Init
<1>2. CardInv(CardChoices) /\ CardInv(CardChoices)' /\ [Next]_brokerVars
      => [Abstract!Next]_<<[r \in Requests |-> StatusOf(r)], answeredBy>>
  BY ChoicesAreAnswers, StepsAreCardSteps, AnyStepSimulates
<1> QED BY <1>1, <1>2, PermissionInvariance, PTL DEF Spec, ImplementsCardRequest, Abstract!Spec
=============================================================================
