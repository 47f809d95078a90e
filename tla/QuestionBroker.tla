-------------------------- MODULE QuestionBroker ---------------------------
(***************************************************************************)
(* FeishuQuestionBroker: a request holds several questions, each answered  *)
(* by a click of its own; the last one resolves it.  What the asker gets   *)
(* is a map from the texts of the questions to the answers.                *)
(***************************************************************************)
EXTENDS CardBroker

CONSTANTS
    Questions,  \* indices of the questions of a request
    Texts,
    TextOf,     \* TextOf[r][q]: the text of a question; two may have the same
    Options,
    Null

ASSUME QuestionAssumption ==
    /\ Null \notin Options
    /\ Questions \subseteq Nat
    /\ TextOf \in [Requests -> [Questions -> Texts]]

VARIABLES
    answers,   \* PendingRequest.answers
    told       \* the answers the asker got: pairs of a text and an option

vars == <<brokerVars, answers, told>>

TypeOK == /\ CardBrokerTypeOK({"answered"})
          /\ answers \in [Requests -> [Questions -> Options \cup {Null}]]
          /\ told \in [Requests -> SUBSET (Texts \X Options)]

Init == /\ CardBrokerInit
        /\ answers = [r \in Requests |-> [q \in Questions |-> Null]]
        /\ told = [r \in Requests |-> {}]

Slot_overwritten(r, q) == TRUE  \* mutant: a racing second click changes the answer
Slot(r, q) == answers[r][q] = Null

Missing(r, q) == \E p \in Questions \ {q} : answers[r][p] = Null

\* A click that answers a question, with others still open: the card is
\* returned with the answers so far.
ClickAnswersOne(r, u, q, o) ==
    /\ Clickable(r)
    /\ ~NotFound(r) /\ ~Forbidden(r, u)
    /\ Slot(r, q)
    /\ Missing(r, q)
    /\ answers' = [answers EXCEPT ![r][q] = o]
    /\ UNCHANGED <<brokerVars, told>>

AllAnswered_early(r, q) == TRUE  \* mutant: resolves with the first answer
AllAnswered(r, q) == ~Missing(r, q)

\* The map is filled in the order of the questions: of equal texts the last one stays.
Overwritten(r, q) == \E p \in Questions : p > q /\ TextOf[r][p] = TextOf[r][q]
AnswerMap(r, given) ==
    {<<TextOf[r][q], given[q]>> : q \in {q \in Questions : ~Overwritten(r, q)}}

\* The click that answers the last question.
ClickAnswersLast(r, u, q, o) ==
    /\ Slot(r, q)
    /\ AllAnswered(r, q)
    /\ answers' = [answers EXCEPT ![r][q] = o]
    /\ told' = [told EXCEPT ![r] = AnswerMap(r, answers'[r])]
    /\ ClickResolves(r, u, "answered")

\* A second click on an answered question, or a click on a card that is gone;
\* an index out of range changes nothing either.
ClickChangesNothing(r, u) ==
    /\ \/ ClickIgnored(r, u)
       \/ /\ Clickable(r)
          /\ \E q \in Questions : ~Slot(r, q)
          /\ UNCHANGED brokerVars
    /\ UNCHANGED <<answers, told>>

Next == \/ CardStep /\ UNCHANGED <<answers, told>>
        \/ \E r \in Requests, u \in Users :
              \/ ClickChangesNothing(r, u)
              \/ \E q \in Questions, o \in Options :
                    ClickAnswersOne(r, u, q, o) \/ ClickAnswersLast(r, u, q, o)

Spec == Init /\ [][Next]_vars
FairSpec == Spec /\ CardFairness

\* The broker keeps the promise of its interface.
ImplementsCardRequest == Abstract!Spec

\* Whoever is told "answered" is told so once every question has an answer, and gets, in the
\* map, at most one answer for a text: that of the last question of this text, so that a
\* question whose text is its own has its answer there and equal texts share one.  Nobody
\* else gets an answer (resolveByCard).
AnswersComplete == \A r \in Requests :
    /\ response[r] = "answered" =>
         \A q \in Questions :
            /\ answers[r][q] # Null
            /\ Overwritten(r, q) \/ <<TextOf[r][q], answers[r][q]>> \in told[r]
    /\ \A x, y \in told[r] : x[1] = y[1] => x = y
    /\ response[r] # "answered" => told[r] = {}

\* "The first click wins": an answer given is never changed, and nothing is
\* recorded for a request that is over.
FirstClickWins ==
    [][\A r \in Requests, q \in Questions :
          answers[r][q] # Null \/ response[r] # "none"
          => answers'[r][q] = answers[r][q]]_vars
=============================================================================
