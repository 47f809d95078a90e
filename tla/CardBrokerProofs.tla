------------------------- MODULE CardBrokerProofs --------------------------
(***************************************************************************)
(* What the two card brokers share, for any number of requests, users and  *)
(* timings: an inductive invariant of the steps of CardBroker, and the     *)
(* step simulation of CardRequest.                                         *)
(***************************************************************************)
EXTENDS CardBroker, TLAPS

\* A patch on its way says how the request ended.
PatchesAgree == \A p \in patches : response[p[1]] = p[2]

CardInv(answers) ==
    /\ CardBrokerTypeOK(answers)
    /\ posting \cap pending = {}
    /\ TimersMatchPending
    /\ OpenIsReachable
    /\ PatchesAgree
    /\ CardAgrees

\* Everything a broker does to a request, with the answers it may resolve.
AnyStep(answers) ==
    \/ CardStep
    \/ UNCHANGED brokerVars
    \/ \E r \in Requests, u \in Users, v \in answers : ClickResolves(r, u, v)

IsAnswerSet(answers) == answers \cap (Refusals \cup {"none"}) = {}

\* The invariant holds before the first request.
LEMMA InitCardInv ==
    ASSUME NEW answers, CardBrokerInit
    PROVE  CardInv(answers)
<1>1. CardBrokerTypeOK(answers)
  BY BrokerAssumption DEF CardBrokerInit, CardBrokerTypeOK, Off
<1> QED BY <1>1 DEF CardBrokerInit, CardInv, TimersMatchPending, OpenIsReachable,
                    PatchesAgree, CardAgrees, Off, Variants

----------------------------------------------------------------------------
(* Requests end in two ways.                                               *)

\* Requests of the map end unanswered: timeout and cancelAll.
LEMMA EndUnansweredInv ==
    ASSUME NEW answers, CardInv(answers), NEW S \in SUBSET pending, NEW v \in Variants,
           EndUnanswered(S, v)
    PROVE  CardInv(answers)'
<1> USE DEF EndUnanswered, ClearTimers, Forget, Resolve
<1>0. /\ CardBrokerTypeOK(answers) /\ S \subseteq Requests
      /\ \A r \in S : response[r] = "none" /\ r \notin posting
  BY DEF CardInv, CardBrokerTypeOK, OpenIsReachable
<1>1. CardBrokerTypeOK(answers)'
  BY <1>0 DEF CardBrokerTypeOK, Refusals
<1>2. (posting \cap pending = {})' /\ OpenIsReachable'
  BY <1>0 DEF CardInv, CardBrokerTypeOK, OpenIsReachable
<1>3. TimersMatchPending'
  BY <1>0 DEF CardInv, CardBrokerTypeOK, TimersMatchPending
<1>4. PatchesAgree'
  <2> SUFFICES ASSUME NEW p \in patches' PROVE response'[p[1]] = p[2]
    BY DEF PatchesAgree
  <2>1. CASE p \in patches
    BY <1>0, <2>1 DEF CardInv, CardBrokerTypeOK, PatchesAgree, Variants
  <2>2. CASE p \in S \X {v}
    BY <1>0, <2>2 DEF CardBrokerTypeOK
  <2> QED BY <2>1, <2>2
<1>5. CardAgrees'
  BY <1>0 DEF CardInv, CardBrokerTypeOK, CardAgrees, StatusOf, Variants, Refusals
<1> QED BY <1>1, <1>2, <1>3, <1>4, <1>5 DEF CardInv

\* The owner's click.
LEMMA ClickResolvesInv ==
    ASSUME NEW answers, IsAnswerSet(answers), CardInv(answers),
           NEW r \in Requests, NEW u \in Users, NEW v \in answers, ClickResolves(r, u, v)
    PROVE  CardInv(answers)'
<1> USE DEF ClickResolves, ClearTimers, Forget, Resolve, NotFound
<1>0. /\ CardBrokerTypeOK(answers) /\ response[r] = "none" /\ r \notin posting
  BY DEF CardInv, OpenIsReachable
<1>1. CardBrokerTypeOK(answers)'
  BY <1>0 DEF CardBrokerTypeOK
<1>2. (posting \cap pending = {})' /\ OpenIsReachable'
  BY <1>0 DEF CardInv, CardBrokerTypeOK, OpenIsReachable
<1>3. TimersMatchPending'
  BY <1>0 DEF CardInv, CardBrokerTypeOK, TimersMatchPending
<1>4. PatchesAgree'
  BY <1>0 DEF CardInv, CardBrokerTypeOK, PatchesAgree, Variants
<1>5. CardAgrees'
  BY <1>0 DEF CardInv, CardBrokerTypeOK, CardAgrees, StatusOf, Variants, Refusals, IsAnswerSet
<1> QED BY <1>1, <1>2, <1>3, <1>4, <1>5 DEF CardInv

----------------------------------------------------------------------------
(* All steps.                                                              *)

\* Every step of a broker preserves the invariant: timers, map, patches and card
\* keep agreeing.
LEMMA CardStepInv ==
    ASSUME NEW answers, IsAnswerSet(answers), CardInv(answers), AnyStep(answers)
    PROVE  CardInv(answers)'
<1> USE DEF CardInv, CardBrokerTypeOK, TimersMatchPending, OpenIsReachable, PatchesAgree,
            CardAgrees, StatusOf, Variants
<1>1. ASSUME NEW r \in Requests, RequestCard(r) PROVE CardInv(answers)'
  BY <1>1 DEF RequestCard, Unasked
<1>2. ASSUME NEW r \in Requests, CardShows(r) PROVE CardInv(answers)'
  BY <1>2 DEF CardShows
<1>3. ASSUME NEW r \in Requests, RegisterPending(r) PROVE CardInv(answers)'
  <2>1. TimeoutTicks \in Nat /\ MaxOf(0, timing.timeout - timing.warnBefore) \in Nat
    BY BrokerAssumption DEF TimeoutTicks, MaxOf
  <2> QED BY <1>3, <2>1 DEF RegisterPending, Off
<1>4. ASSUME NEW r \in Requests, PostFails(r) PROVE CardInv(answers)'
  <2>1. response[r] = "none" /\ r \notin pending
    BY <1>4 DEF PostFails
  <2>2. /\ \A q \in Requests : response'[q] = IF q = r THEN "unposted" ELSE response[q]
        /\ response' \in [Requests -> answers \cup Refusals \cup {"none"}]
    BY <1>4, <2>1 DEF PostFails, Resolve, Refusals
  <2>3. /\ posting' = posting \ {r}
        /\ UNCHANGED <<timing, pending, left, warnLeft, card, patches, answeredBy>>
    BY <1>4 DEF PostFails
  <2>4. PatchesAgree'
    BY <2>1, <2>2, <2>3
  <2>5. CardAgrees'
    BY <2>1, <2>2, <2>3 DEF Refusals, IsAnswerSet
  <2> QED BY <2>1, <2>2, <2>3, <2>4, <2>5
<1>5. ASSUME NEW r \in Requests, TimeoutFires(r) PROVE CardInv(answers)'
  <2>1. EndUnanswered({r}, "timed_out") /\ {r} \in SUBSET pending
    BY <1>5 DEF TimeoutFires
  <2>2. "timed_out" \in Variants
    BY DEF Variants
  <2> QED BY <2>1, <2>2, EndUnansweredInv
<1>6. ASSUME NEW r \in Requests, ReminderFires(r) PROVE CardInv(answers)'
  BY <1>6 DEF ReminderFires, Off
<1>7. CASE CancelAll
  BY <1>7, EndUnansweredInv DEF CancelAll
<1>8. CASE Tick
  <2>1. \A n \in Nat \cup {Off} : CountDown(n) \in Nat \cup {Off} /\ (CountDown(n) = Off <=> n = Off)
    BY DEF CountDown, Off
  <2> QED BY <1>8, <2>1 DEF Tick
<1>9. ASSUME NEW t \in Timings, UpdateTiming(t) PROVE CardInv(answers)'
  BY <1>9 DEF UpdateTiming
<1>10. ASSUME NEW p \in patches, PatchEnds(p) PROVE CardInv(answers)'
  <2>1. p[1] \in Requests /\ p[2] \in Variants /\ response[p[1]] = p[2]
    OBVIOUS
  <2>2. /\ patches' \subseteq patches
        /\ card' = card \/ card' = [card EXCEPT ![p[1]] = p[2]]
        /\ UNCHANGED <<timing, posting, pending, response, left, warnLeft, answeredBy>>
    BY <1>10 DEF PatchEnds
  <2> QED BY <2>1, <2>2
<1>11. CASE UNCHANGED brokerVars
  BY <1>11 DEF brokerVars
<1>12. ASSUME NEW r \in Requests, NEW u \in Users, NEW v \in answers, ClickResolves(r, u, v)
       PROVE  CardInv(answers)'
  BY <1>12, ClickResolvesInv
<1> QED BY <1>1, <1>2, <1>3, <1>4, <1>5, <1>6, <1>7, <1>8, <1>9, <1>10, <1>11, <1>12
        DEF AnyStep, CardStep

----------------------------------------------------------------------------
(* The abstract specification.                                             *)

\* Before the first request, nothing is asked in the abstract specification either.
LEMMA InitAbstract == CardBrokerInit => Abstract!Init
  BY DEF CardBrokerInit, Abstract!Init, StatusOf, Unasked, Refusals, Variants

\* A set of open requests that is resolved with a refusal is refused.
LEMMA RefusalSimulates ==
    ASSUME NEW answers, IsAnswerSet(answers), CardInv(answers), CardInv(answers)',
           NEW S \in SUBSET (posting \cup pending), S # {}, NEW v \in Refusals,
           Resolve(S, v), UNCHANGED answeredBy,
           \A r \in Requests \ S : Unasked(r)' <=> Unasked(r)
    PROVE  Abstract!Refuse(S)
<1>1. S \subseteq Requests /\ \A r \in S : response[r] = "none" /\ ~Unasked(r)
  BY DEF CardInv, CardBrokerTypeOK, OpenIsReachable, Unasked
<1>2. \A r \in S : StatusOf(r) = "open" /\ StatusOf(r)' = "refused"
  BY <1>1 DEF StatusOf, Resolve, Refusals, Variants
<1>3. \A r \in Requests \ S : StatusOf(r)' = StatusOf(r)
  <2> SUFFICES ASSUME NEW r \in Requests \ S PROVE StatusOf(r)' = StatusOf(r)
    OBVIOUS
  <2>1. response'[r] = response[r]
    BY DEF Resolve, CardInv, CardBrokerTypeOK
  <2> QED BY <2>1 DEF StatusOf
<1> QED BY <1>1, <1>2, <1>3 DEF Abstract!Refuse

\* Steps that neither ask nor end a request.
LEMMA StutterSimulates ==
    ASSUME UNCHANGED <<response, answeredBy>>,
           \A r \in Requests : Unasked(r)' <=> Unasked(r)
    PROVE  UNCHANGED <<[r \in Requests |-> StatusOf(r)], answeredBy>>
  BY DEF StatusOf

\* The owner's click accepts; nobody else's click does.
LEMMA ClickSimulates ==
    ASSUME NEW answers, IsAnswerSet(answers), CardInv(answers),
           NEW r \in Requests, NEW u \in Users, NEW v \in answers, ClickResolves(r, u, v)
    PROVE  Abstract!Accept(r)
<1>0. /\ response \in [Requests -> answers \cup Refusals \cup {"none"}]
      /\ answeredBy \in [Requests -> Users \cup {"nobody"}]
      /\ response[r] = "none" /\ r \in pending /\ u = Owner[r] /\ r \notin posting
  BY DEF CardInv, CardBrokerTypeOK, OpenIsReachable, ClickResolves, NotFound, Forbidden
<1>1. StatusOf(r) = "open" /\ StatusOf(r)' = "answered"
  BY <1>0 DEF StatusOf, Unasked, Refusals, Variants, ClickResolves, Resolve, IsAnswerSet
<1>2. \A q \in Requests : q # r => StatusOf(q)' = StatusOf(q)
  BY <1>0 DEF StatusOf, Unasked, ClickResolves, Resolve, Forget
<1>3. answeredBy' = [answeredBy EXCEPT ![r] = Owner[r]]
  BY <1>0 DEF ClickResolves
<1> QED BY <1>1, <1>2, <1>3 DEF Abstract!Accept

\* Every step of a broker is a step of the abstract request, or none.
LEMMA AnyStepSimulates ==
    ASSUME NEW answers, IsAnswerSet(answers), CardInv(answers), CardInv(answers)', AnyStep(answers)
    PROVE  [Abstract!Next]_<<[r \in Requests |-> StatusOf(r)], answeredBy>>
<1> DEFINE Goal == [Abstract!Next]_<<[r \in Requests |-> StatusOf(r)], answeredBy>>
<1>0. /\ response \in [Requests -> answers \cup Refusals \cup {"none"}]
      /\ pending \subseteq Requests /\ posting \subseteq Requests /\ posting \cap pending = {}
      /\ \A r \in posting \cup pending : response[r] = "none"
  BY DEF CardInv, CardBrokerTypeOK, OpenIsReachable
<1>1. ASSUME NEW r \in Requests, RequestCard(r) PROVE Goal
  <2>1. StatusOf(r) = "unasked" /\ StatusOf(r)' = "open"
    BY <1>1 DEF RequestCard, StatusOf, Unasked, Refusals, Variants
  <2>2. \A q \in Requests : q # r => StatusOf(q)' = StatusOf(q)
    BY <1>1 DEF RequestCard, StatusOf, Unasked
  <2>3. answeredBy' = answeredBy
    BY <1>1 DEF RequestCard
  <2> QED BY <2>1, <2>2, <2>3 DEF Abstract!Ask, Abstract!Next
<1>2. ASSUME NEW S \in SUBSET (posting \cup pending), S # {}, NEW v \in Refusals,
             Resolve(S, v), UNCHANGED answeredBy,
             \A r \in Requests \ S : Unasked(r)' <=> Unasked(r)
      PROVE  Goal
  <2>1. S \in SUBSET Requests
    BY <1>0
  <2> QED BY <1>2, <2>1, RefusalSimulates DEF Abstract!Next
<1>3. ASSUME NEW r \in Requests, PostFails(r) PROVE Goal
  <2>1. Resolve({r}, "unposted") /\ UNCHANGED answeredBy /\ r \in posting
    BY <1>3 DEF PostFails
  <2>2. \A q \in Requests \ {r} : Unasked(q)' <=> Unasked(q)
    BY <1>0, <1>3 DEF PostFails, Resolve, Unasked
  <2> QED BY <1>2, <2>1, <2>2 DEF Refusals
<1>4. ASSUME NEW S \in SUBSET pending, S # {}, NEW v \in Variants, EndUnanswered(S, v)
      PROVE  Goal
  <2>1. Resolve(S, v) /\ UNCHANGED answeredBy
    BY <1>4 DEF EndUnanswered
  <2>2. \A q \in Requests \ S : Unasked(q)' <=> Unasked(q)
    BY <1>0, <1>4 DEF EndUnanswered, Forget, Resolve, Unasked
  <2> QED BY <1>2, <1>4, <2>1, <2>2 DEF Refusals
<1>5. ASSUME NEW r \in Requests, TimeoutFires(r) PROVE Goal
  BY <1>4, <1>5 DEF TimeoutFires, Variants
<1>6. CASE CancelAll
  BY <1>4, <1>6 DEF CancelAll, Variants
<1>7. CASE /\ UNCHANGED <<response, answeredBy>>
           /\ \A r \in Requests : Unasked(r)' <=> Unasked(r)
  BY <1>7, StutterSimulates
<1>8. ASSUME NEW r \in Requests,
             CardShows(r) \/ RegisterPending(r) \/ ReminderFires(r)
      PROVE  Goal
  BY <1>7, <1>8 DEF CardShows, RegisterPending, ReminderFires, Unasked
<1>9. CASE Tick \/ (\E t \in Timings : UpdateTiming(t)) \/ (\E p \in patches : PatchEnds(p))
           \/ UNCHANGED brokerVars
  BY <1>7, <1>9 DEF Tick, UpdateTiming, PatchEnds, brokerVars, Unasked
<1>10. ASSUME NEW r \in Requests, NEW u \in Users, NEW v \in answers, ClickResolves(r, u, v)
       PROVE  Goal
  BY <1>10, ClickSimulates DEF Abstract!Next
<1> QED BY <1>1, <1>3, <1>5, <1>6, <1>8, <1>9, <1>10 DEF AnyStep, CardStep
=============================================================================
