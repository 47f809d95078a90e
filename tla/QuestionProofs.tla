-------------------------- MODULE QuestionProofs ---------------------------
(***************************************************************************)
(* Theorems about QuestionBroker for any number of requests, users,        *)
(* questions and options.                                                  *)
(***************************************************************************)
EXTENDS QuestionBroker, CardBrokerProofs

\* "answered" is not one of the ways a request is refused.
LEMMA AnsweredIsAnswer == IsAnswerSet({"answered"})
  BY DEF IsAnswerSet, Refusals, Variants

\* A step of the question broker is a card step with the answers left aside.
LEMMA StepsAreCardSteps == [Next]_vars => AnyStep({"answered"})
  BY DEF Next, vars, AnyStep, ClickChangesNothing, ClickIgnored, ClickAnswersOne, ClickAnswersLast

AnswersTyped == answers \in [Requests -> [Questions -> Options \cup {Null}]]
ToldTyped == told \in [Requests -> SUBSET (Texts \X Options)]

\* The inductive invariant: the shared part, and the answers agree with what
\* the asker was told.
QInv == CardInv({"answered"}) /\ AnswersTyped /\ ToldTyped /\ AnswersComplete

\* No step but the last answer ends a request as answered, and what is answered stays so.
LEMMA OnlyClicksAnswer ==
    ASSUME QInv, CardStep
    PROVE  \A r \in Requests : response'[r] = "answered" <=> response[r] = "answered"
<1>1. response \in [Requests -> {"answered"} \cup Refusals \cup {"none"}]
  BY DEF QInv, CardInv, CardBrokerTypeOK
<1> USE DEF Resolve, EndUnanswered
<1>2. ASSUME NEW S, NEW v, v # "answered", Resolve(S, v)
      PROVE  \A r \in Requests : response'[r] = "answered" <=> response[r] = "answered"
  BY <1>2
<1>3. CASE UNCHANGED response
  BY <1>3
<1>4. ASSUME NEW r \in Requests, PostFails(r) \/ TimeoutFires(r)
      PROVE  \E S : \E v \in Refusals : Resolve(S, v)
  BY <1>4 DEF PostFails, TimeoutFires, Refusals, Variants
<1>5. CASE CancelAll
  BY <1>2, <1>5 DEF CancelAll
<1>6. UNCHANGED response \/ CancelAll \/ \E r \in Requests : PostFails(r) \/ TimeoutFires(r)
  BY DEF CardStep, RequestCard, CardShows, RegisterPending, ReminderFires, Tick,
         UpdateTiming, PatchEnds
<1>7. \A v \in Refusals : v # "answered"
  BY DEF Refusals, Variants
<1> QED BY <1>2, <1>3, <1>4, <1>5, <1>6, <1>7

\* The map of a request whose questions are all answered: options only, each question in it
\* that is not overwritten, and at most one option for a text.
LEMMA AnswerMapIsMap ==
    ASSUME NEW r \in Requests, NEW given \in [Questions -> Options]
    PROVE  /\ AnswerMap(r, given) \in SUBSET (Texts \X Options)
           /\ \A q \in Questions :
                Overwritten(r, q) \/ <<TextOf[r][q], given[q]>> \in AnswerMap(r, given)
           /\ \A x, y \in AnswerMap(r, given) : x[1] = y[1] => x = y
<1>1. AnswerMap(r, given) \in SUBSET (Texts \X Options)
  BY QuestionAssumption DEF AnswerMap
<1>2. \A q \in Questions :
        Overwritten(r, q) \/ <<TextOf[r][q], given[q]>> \in AnswerMap(r, given)
  BY DEF AnswerMap
<1>3. ASSUME NEW x \in AnswerMap(r, given), NEW y \in AnswerMap(r, given), x[1] = y[1]
      PROVE  x = y
  <2>1. PICK p \in Questions : x = <<TextOf[r][p], given[p]>> /\ ~Overwritten(r, p)
    BY DEF AnswerMap
  <2>2. PICK q \in Questions : y = <<TextOf[r][q], given[q]>> /\ ~Overwritten(r, q)
    BY DEF AnswerMap
  <2>3. TextOf[r][p] = TextOf[r][q]
    BY <1>3, <2>1, <2>2
  <2>4. ~(p > q) /\ ~(q > p)
    BY <2>1, <2>2, <2>3 DEF Overwritten
  <2>5. p = q
    BY <2>4, QuestionAssumption
  <2> QED BY <2>1, <2>2, <2>5
<1> QED BY <1>1, <1>2, <1>3

\* The invariant is inductive.
LEMMA QInvStays == QInv /\ [Next]_vars => QInv'
<1> SUFFICES ASSUME QInv, [Next]_vars PROVE QInv'
  OBVIOUS
<1>1. CardInv({"answered"})'
  BY AnsweredIsAnswer, StepsAreCardSteps, CardStepInv DEF QInv
<1>2. /\ CardBrokerTypeOK({"answered"}) /\ OpenIsReachable
      /\ AnswersTyped /\ ToldTyped /\ AnswersComplete
  BY DEF QInv, CardInv
<1>3. ASSUME UNCHANGED <<answers, told>>,
             \A r \in Requests : response'[r] = "answered" <=> response[r] = "answered"
      PROVE  QInv'
  <2>1. AnswersComplete'
    BY <1>2, <1>3 DEF AnswersComplete
  <2> QED BY <1>1, <1>2, <1>3, <2>1 DEF QInv, AnswersTyped, ToldTyped
<1>4. CASE CardStep /\ UNCHANGED <<answers, told>>
  BY <1>3, <1>4, OnlyClicksAnswer
<1>5. ASSUME NEW r \in Requests, NEW u \in Users, ClickChangesNothing(r, u) PROVE QInv'
  BY <1>3, <1>5 DEF ClickChangesNothing, ClickIgnored, brokerVars
<1>6. ASSUME NEW r \in Requests, NEW u \in Users, NEW q \in Questions, NEW o \in Options,
             ClickAnswersOne(r, u, q, o)
      PROVE  QInv'
  <2>1. /\ answers' = [answers EXCEPT ![r][q] = o] /\ UNCHANGED <<response, told>>
        /\ r \in pending
    BY <1>6 DEF ClickAnswersOne, NotFound, brokerVars
  <2>2. AnswersTyped' /\ ToldTyped'
    BY <1>2, <2>1 DEF AnswersTyped, ToldTyped
  <2>3. response[r] = "none"
    BY <1>2, <2>1 DEF OpenIsReachable
  <2>4. \A s \in Requests : s # r => answers'[s] = answers[s]
    BY <1>2, <2>1 DEF AnswersTyped
  <2>5. AnswersComplete'
    BY <1>2, <2>1, <2>3, <2>4 DEF AnswersComplete, Overwritten
  <2> QED BY <1>1, <2>2, <2>5 DEF QInv
<1>7. ASSUME NEW r \in Requests, NEW u \in Users, NEW q \in Questions, NEW o \in Options,
             ClickAnswersLast(r, u, q, o)
      PROVE  QInv'
  <2>1. /\ answers' = [answers EXCEPT ![r][q] = o]
        /\ told' = [told EXCEPT ![r] = AnswerMap(r, answers'[r])]
        /\ \A p \in Questions \ {q} : answers[r][p] # Null
        /\ r \in pending /\ Resolve({r}, "answered")
    BY <1>7 DEF ClickAnswersLast, ClickResolves, AllAnswered, Missing, NotFound
  <2>2. answers'[r] \in [Questions -> Options] /\ AnswersTyped'
    BY <1>2, <2>1 DEF AnswersTyped
  <2>3. /\ AnswerMap(r, answers'[r]) \in SUBSET (Texts \X Options)
        /\ \A p \in Questions : \/ Overwritten(r, p)
                              \/ <<TextOf[r][p], answers'[r][p]>> \in AnswerMap(r, answers'[r])
        /\ \A x, y \in AnswerMap(r, answers'[r]) : x[1] = y[1] => x = y
    BY <2>2, AnswerMapIsMap
  <2>4. ToldTyped'
    BY <1>2, <2>1, <2>3 DEF ToldTyped
  <2>5. response'[r] = "answered"
    BY <1>2, <2>1 DEF OpenIsReachable, Resolve
  <2>6. told'[r] = AnswerMap(r, answers'[r])
    BY <1>2, <2>1 DEF ToldTyped
  <2>7. \A p \in Questions : answers'[r][p] # Null
    BY <2>2, QuestionAssumption
  <2>8. \A s \in Requests \ {r} :
           answers'[s] = answers[s] /\ told'[s] = told[s] /\ response'[s] = response[s]
    BY <1>2, <2>1 DEF AnswersTyped, ToldTyped, Resolve
  <2>9. AnswersComplete'
    <3>1. \A s \in Requests : s = r \/ s \in Requests \ {r}
      OBVIOUS
    <3> QED BY <1>2, <2>3, <2>5, <2>6, <2>7, <2>8, <3>1 DEF AnswersComplete, Overwritten
  <2> QED BY <1>1, <2>2, <2>4, <2>9 DEF QInv
<1>8. CASE UNCHANGED vars
  BY <1>3, <1>8 DEF vars, brokerVars
<1> QED BY <1>4, <1>5, <1>6, <1>7, <1>8 DEF Next

\* The invariant holds in every state the question broker reaches.
THEOREM QuestionInvariance == Spec => []QInv
<1>1. Init => QInv
  <2> SUFFICES ASSUME Init PROVE QInv
    OBVIOUS
  <2>1. CardInv({"answered"})
    BY InitCardInv DEF Init
  <2>2. AnswersTyped
    BY DEF Init, AnswersTyped
  <2>3. AnswersComplete /\ ToldTyped
    BY DEF Init, CardBrokerInit, AnswersComplete, ToldTyped
  <2> QED BY <2>1, <2>2, <2>3 DEF QInv
<1> QED BY <1>1, QInvStays, PTL DEF Spec

\* Every variable of the question broker keeps its type.
THEOREM QuestionTypeCorrect == Spec => []TypeOK
<1>1. QInv => TypeOK
  BY DEF QInv, CardInv, AnswersTyped, ToldTyped, TypeOK
<1> QED BY <1>1, QuestionInvariance, PTL

\* A tool call that is told "answered" is told so once every question has an answer, and gets
\* a map from the texts in which the last question of each text has its answer.
THEOREM QuestionAnswersComplete == Spec => []AnswersComplete
<1>1. QInv => AnswersComplete
  BY DEF QInv
<1> QED BY <1>1, QuestionInvariance, PTL

\* The first click on a question counts, and none after the request is over.
THEOREM QuestionFirstClickWins == Spec => FirstClickWins
<1> DEFINE Kept == \A r \in Requests, q \in Questions :
          answers[r][q] # Null \/ response[r] # "none"
          => answers'[r][q] = answers[r][q]
<1>1. QInv /\ [Next]_vars => [Kept]_vars
  <2> SUFFICES ASSUME QInv, [Next]_vars PROVE [Kept]_vars
    OBVIOUS
  <2>1. AnswersTyped /\ OpenIsReachable
    BY DEF QInv, CardInv
  <2>2. CASE UNCHANGED answers
    BY <2>2
  <2>3. ASSUME NEW r \in Requests, NEW u \in Users, NEW q \in Questions, NEW o \in Options,
               ClickAnswersOne(r, u, q, o) \/ ClickAnswersLast(r, u, q, o)
        PROVE  Kept
    <3>1. /\ answers' = [answers EXCEPT ![r][q] = o]
          /\ answers[r][q] = Null
          /\ r \in pending
      BY <2>3 DEF ClickAnswersOne, ClickAnswersLast, ClickResolves, Slot, NotFound
    <3>2. response[r] = "none"
      BY <2>1, <3>1 DEF OpenIsReachable
    <3> QED BY <2>1, <3>1, <3>2 DEF AnswersTyped
  <2> QED BY <2>2, <2>3 DEF Next, ClickChangesNothing, vars
<1> QED BY <1>1, QuestionInvariance, PTL DEF Spec, FirstClickWins

\* FeishuQuestionBroker keeps the contract of its interface: one outcome at
\* most, answered only by the owner.
THEOREM QuestionImplements == Spec => ImplementsCardRequest
<1>1. Init => Abstract!Init
  BY InitAbstract DEF Init
<1>2. QInv /\ QInv' /\ [Next]_vars
      => [Abstract!Next]_<<[r \in Requests |-> StatusOf(r)], answeredBy>>
  BY AnsweredIsAnswer, StepsAreCardSteps, AnyStepSimulates DEF QInv
<1> QED BY <1>1, <1>2, QuestionInvariance, PTL DEF Spec, ImplementsCardRequest, Abstract!Spec
=============================================================================
