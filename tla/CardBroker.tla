---------------------------- MODULE CardBroker -----------------------------
(***************************************************************************)
(* What the permission and the question broker have in common             *)
(* (feishu-permission-broker.ts, feishu-question-broker.ts): posting a     *)
(* card, the pending map, the two timers of a request, cancelAll, and the  *)
(* patches that close a card later.                                        *)
(*                                                                         *)
(* Timers count down in ticks and fire at zero, or any time after.  A card *)
(* is visible in the chat before the answer to replyCard arrives, and that *)
(* answer may be lost.                                                     *)
(***************************************************************************)
EXTENDS Integers, FiniteSets

CONSTANTS
    Requests,   \* requests: one per call of request()
    Users,      \* whoever may click a card
    Owner,      \* Owner[r]: ownerOpenId
    Timings     \* settings that updateTiming may install

ASSUME BrokerAssumption ==
    /\ Owner \in [Requests -> Users]
    /\ Timings \subseteq [timeout: Nat, warnBefore: Nat]
    /\ Timings # {}

VARIABLES
    timing,    \* timeoutMs and warnBeforeMs
    posting,   \* requests whose replyCard is in flight
    pending,   \* the keys of the pending map
    response,  \* what the deferred was resolved with
    left,      \* the timeout timer: ticks left, or Off
    warnLeft,  \* the reminder timer
    card,      \* the card in the chat
    patches,   \* patchCard calls in flight: request and card variant
    answeredBy \* history: whose click resolved the request

brokerVars == <<timing, posting, pending, response, left, warnLeft, card, patches, answeredBy>>

Off == -1
MaxOf(a, b) == IF a > b THEN a ELSE b

\* The two ways a request ends without its owner, and the card that says so.
Variants == {"timed_out", "cancelled"}
Refusals == Variants \cup {"unposted"}

CardBrokerTypeOK(answers) ==
    /\ timing \in Timings
    /\ posting \subseteq Requests
    /\ pending \subseteq Requests
    /\ response \in [Requests -> answers \cup Refusals \cup {"none"}]
    /\ left \in [Requests -> Nat \cup {Off}]
    /\ warnLeft \in [Requests -> Nat \cup {Off}]
    /\ card \in [Requests -> Variants \cup {"none", "asking", "resolved"}]
    /\ patches \subseteq Requests \X Variants
    /\ answeredBy \in [Requests -> Users \cup {"nobody"}]

CardBrokerInit ==
    /\ timing \in Timings
    /\ posting = {} /\ pending = {} /\ patches = {}
    /\ answeredBy = [r \in Requests |-> "nobody"]
    /\ response = [r \in Requests |-> "none"]
    /\ left = [r \in Requests |-> Off]
    /\ warnLeft = [r \in Requests |-> Off]
    /\ card = [r \in Requests |-> "none"]

Unasked(r) == r \notin posting \cup pending /\ response[r] = "none"

\* A deferred keeps what it was resolved with first.
Resolve(S, v) ==
    response' = [r \in Requests |->
                    IF r \in S /\ response[r] = "none" THEN v ELSE response[r]]

ClearTimers_none(S) == UNCHANGED <<left, warnLeft>>  \* mutant: timers leak
ClearTimers(S) ==
    /\ left' = [r \in Requests |-> IF r \in S THEN Off ELSE left[r]]
    /\ warnLeft' = [r \in Requests |-> IF r \in S THEN Off ELSE warnLeft[r]]

Forget(S) == pending' = pending \ S

\* request() is called: replyCard goes out.
RequestCard(r) ==
    /\ Unasked(r)
    /\ posting' = posting \cup {r}
    /\ UNCHANGED <<timing, pending, response, left, warnLeft, card, patches, answeredBy>>

\* The card shows up in the chat.
CardShows(r) ==
    /\ r \in posting
    /\ card[r] = "none"
    /\ card' = [card EXCEPT ![r] = "asking"]
    /\ UNCHANGED <<timing, posting, pending, response, left, warnLeft, patches, answeredBy>>

TimeoutTicks_none == Off  \* mutant: the timeout is never scheduled
TimeoutTicks == timing.timeout

\* replyCard answered: start the timers, register the request.
RegisterPending(r) ==
    /\ r \in posting
    /\ card[r] = "asking"
    /\ posting' = posting \ {r}
    /\ pending' = pending \cup {r}
    /\ left' = [left EXCEPT ![r] = TimeoutTicks]
    /\ warnLeft' = [warnLeft EXCEPT ![r] = MaxOf(0, timing.timeout - timing.warnBefore)]
    /\ UNCHANGED <<timing, response, card, patches, answeredBy>>

\* replyCard failed, or its answer was lost: refused without registering.
PostFails(r) ==
    /\ r \in posting
    /\ posting' = posting \ {r}
    /\ Resolve({r}, "unposted")
    /\ UNCHANGED <<timing, pending, left, warnLeft, card, patches, answeredBy>>

\* Requests end without an answer: out of the map, resolved, the card patched.
EndUnanswered(S, v) ==
    /\ ClearTimers(S)
    /\ Forget(S)
    /\ Resolve(S, v)
    /\ patches' = patches \cup (S \X {v})
    /\ UNCHANGED <<timing, posting, card, answeredBy>>

\* cancelAll, called by any session.
CancelAll == pending # {} /\ EndUnanswered(pending, "cancelled")

\* The timeout timer fires and still finds its request.
TimeoutFires(r) ==
    /\ left[r] = 0
    /\ r \in pending
    /\ EndUnanswered({r}, "timed_out")

\* The reminder timer fires: a text reply, once.
ReminderFires(r) ==
    /\ warnLeft[r] = 0
    /\ r \in pending
    /\ warnLeft' = [warnLeft EXCEPT ![r] = Off]
    /\ UNCHANGED <<timing, posting, pending, response, left, card, patches, answeredBy>>

CountDown(n) == IF n > 0 THEN n - 1 ELSE n

Tick ==
    /\ \E r \in Requests : left[r] > 0
    /\ left' = [r \in Requests |-> CountDown(left[r])]
    /\ warnLeft' = [r \in Requests |-> CountDown(warnLeft[r])]
    /\ UNCHANGED <<timing, posting, pending, response, card, patches, answeredBy>>

\* /config set: only later requests see the new setting.
UpdateTiming(t) ==
    /\ timing' = t
    /\ UNCHANGED <<posting, pending, response, left, warnLeft, card, patches, answeredBy>>

\* A patch reaches the card, or is lost.
PatchEnds(p) ==
    /\ p \in patches
    /\ patches' = patches \ {p}
    /\ card' \in {card, [card EXCEPT ![p[1]] = p[2]]}
    /\ UNCHANGED <<timing, posting, pending, response, left, warnLeft, answeredBy>>

NotFound_never(r) == FALSE  \* mutant: a click is not checked against the map
NotFound(r) == r \notin pending
Forbidden_never(r, u) == FALSE  \* mutant: anyone may answer
Forbidden(r, u) == u # Owner[r]

\* A click on a card still to be seen somewhere, by anyone, perhaps late.
Clickable(r) == card[r] # "none"

ClickIgnored(r, u) ==
    /\ Clickable(r)
    /\ NotFound(r) \/ Forbidden(r, u)
    /\ UNCHANGED brokerVars

\* The owner's click ends the request; the callback response closes the card,
\* unless that response is lost.
ClickResolves(r, u, v) ==
    /\ Clickable(r)
    /\ ~NotFound(r) /\ ~Forbidden(r, u)
    /\ ClearTimers({r})
    /\ Forget({r})
    /\ Resolve({r}, v)
    /\ answeredBy' = [answeredBy EXCEPT ![r] = u]
    /\ card' \in {card, [card EXCEPT ![r] = "resolved"]}
    /\ UNCHANGED <<timing, posting, patches>>

\* The steps both brokers share.
CardStep ==
    \/ \E r \in Requests : \/ RequestCard(r) \/ CardShows(r) \/ RegisterPending(r)
                           \/ PostFails(r) \/ TimeoutFires(r) \/ ReminderFires(r)
    \/ CancelAll
    \/ Tick
    \/ \E t \in Timings : UpdateTiming(t)
    \/ \E p \in patches : PatchEnds(p)

\* replyCard answers or fails, timers run.  Nobody has to click.
CardFairness ==
    /\ \A r \in Requests : WF_brokerVars(CardShows(r) \/ RegisterPending(r) \/ PostFails(r))
    /\ \A r \in Requests : WF_brokerVars(TimeoutFires(r))
    /\ WF_brokerVars(Tick)

----------------------------------------------------------------------------
(* The view of the abstract specification, and the shared properties.      *)

StatusOf(r) ==
    IF response[r] \in Refusals THEN "refused"
    ELSE IF response[r] # "none" THEN "answered"
    ELSE IF Unasked(r) THEN "unasked" ELSE "open"

Abstract == INSTANCE CardRequest WITH
                status <- [r \in Requests |-> StatusOf(r)],
                by <- answeredBy

\* Timers run exactly for the requests in the map: a settled request has no
\* timer left that could speak for it, a pending one always has its timeout.
TimersMatchPending == \A r \in Requests :
    /\ left[r] # Off <=> r \in pending
    /\ warnLeft[r] # Off => r \in pending

\* A promise is open exactly as long as someone can still resolve it.
OpenIsReachable == \A r \in Requests :
    r \in posting \cup pending => response[r] = "none"

\* The card never contradicts what the asking code was told, whatever patches
\* and clicks race: it shows an answer only when a click counted, and otherwise
\* only the way in which the request really ended.
CardAgrees == \A r \in Requests :
    /\ card[r] = "resolved" => StatusOf(r) = "answered"
    /\ card[r] \in Variants => response[r] = card[r]

\* Every call of request() returns, by the timeout if by nothing else.
EveryRequestEnds == \A r \in Requests :
    r \in posting \cup pending ~> response[r] # "none"
=============================================================================
