--------------------------- MODULE SessionProofs ---------------------------
(***************************************************************************)
(* Theorems about Session for any number of messages, stops, tool calls    *)
(* and processLoop invocations, and for every choice of faults.            *)
(*                                                                         *)
(* The inductive invariant adds to TypeOK what the loop and the queue know *)
(* about each other: an input is queued at most once and before its first  *)
(* run, so that the retry is the only second run.  OwnInv adds where every *)
(* input is, and AskInv who asked to interrupt which turn.                 *)
(***************************************************************************)
EXTENDS Session, FiniteSetTheorems, TLAPS

Idle == {"off", "take"}

\* A loop past its first mutex section has an input in hand, and after the turn
\* it knows how it ended.
HeadsTyped == \A l \in Loops :
    /\ loop[l].pc \in Idle \/ loop[l].head \in Inputs
    /\ loop[l].pc \in {"finishing", "settling"} => loop[l].outcome \in Settled

\* What was started was counted.
RunsCounted ==
    /\ \A i \in Inputs : run[i] # "none" => attempt[i] \in {1, 2}
    /\ current # Nobody => attempt[current] \in {1, 2}

\* Nobody knows an input before it is submitted.
NewIsFresh == \A i \in Inputs : done[i] = "new" =>
    /\ attempt[i] = 0
    /\ \A n \in DOMAIN queue : queue[n] # i
    /\ \A l \in Loops : loop[l].head # i

\* A queued input is queued once, was never run and is in no loop's hands.
QueueIsFresh == \A n \in DOMAIN queue :
    /\ attempt[queue[n]] = 0
    /\ done[queue[n]] # "new"
    /\ \A m \in DOMAIN queue : queue[m] = queue[n] => m = n
    /\ \A l \in Loops : loop[l].head # queue[n]

\* The first run of an input, and its retry, are counted before they start.
RetryBound == \A l \in Loops :
    /\ loop[l].pc = "opening" => attempt[loop[l].head] = 0
    /\ loop[l].pc = "running" => attempt[loop[l].head] \in {1, 2}
    /\ loop[l].pc \in {"resetting", "rechecking"} => attempt[loop[l].head] = 1
    /\ loop[l].head # Nobody => done[loop[l].head] # "new"

IInv == /\ TypeOK
        /\ OneLoop
        /\ HeadsTyped
        /\ RunsCounted
        /\ NewIsFresh
        /\ QueueIsFresh
        /\ RetryBound

----------------------------------------------------------------------------

\* Only submit() and processLoop itself change a loop.
LEMMA LoopFrame ==
    ASSUME [Next]_vars,
           ~\E i \in Inputs : SubmitRun(i) \/ SubmitBang(i),
           ~\E l \in Loops : LoopStep(l) \/ ProviderEnds(l)
    PROVE  UNCHANGED loop
  BY DEF Next, UserStep, CallerStep, CallStep, AwaitMessage, vars, core, loops,
         provider, entries, interrupts, tools, StopLock, CancelPending, DropOne,
         NothingToInterrupt, InterruptInput, InterruptOk, InterruptFails,
         InterruptAnswered, EnterAwaiting, CardPosted, CardAnswered,
         LeaveAwaiting, ApplyAllowTurn, ToolCalled, CaptureSession

LoopTyped == loop \in [Loops -> LoopRec]

\* A fresh record of a loop is well typed.
LEMMA LoopAtTyped ==
    ASSUME NEW pc \in LoopPcs, NEW i \in Inputs \cup {Nobody}
    PROVE  LoopAt(pc, i) \in LoopRec
  BY DEF LoopAt, LoopRec

\* kickLoopIfNeeded keeps the loops well typed.
LEMMA KickTyped ==
    ASSUME LoopTyped, HeadsTyped, KickLoopIfNeeded
    PROVE  LoopTyped' /\ HeadsTyped'
<1>1. CASE KickNeeded
  <2>1. PICK l \in Loops : loop' = [loop EXCEPT ![l] = LoopAt("take", Nobody)]
    BY <1>1 DEF KickLoopIfNeeded
  <2>2. LoopAt("take", Nobody) \in LoopRec
    BY LoopAtTyped DEF LoopPcs
  <2> QED BY <2>1, <2>2 DEF LoopTyped, HeadsTyped, Idle, LoopAt
<1>2. CASE ~KickNeeded
  BY <1>2 DEF KickLoopIfNeeded, loops, LoopTyped, HeadsTyped
<1> QED BY <1>1, <1>2

\* Every step of processLoop leaves its record well typed.
LEMMA LoopStepTyped ==
    ASSUME TypeOK, HeadsTyped, NEW l \in Loops, LoopStep(l) \/ ProviderEnds(l)
    PROVE  LoopTyped' /\ HeadsTyped'
<1> USE DEF LoopTyped, HeadsTyped, Idle, At
<1>0. LoopTyped /\ HeadsTyped /\ loop[l] \in LoopRec
  BY DEF TypeOK
<1>1. CASE LoopEnds(l)
  BY <1>0, <1>1, LoopAtTyped DEF LoopEnds, LoopPcs, LoopAt
<1>2. CASE TakeNext(l)
  <2>1. Head(queue) \in Inputs
    BY <1>2 DEF TakeNext, TypeOK
  <2> QED BY <1>0, <1>2, <2>1, LoopAtTyped DEF TakeNext, LoopPcs, LoopAt
<1>3. ASSUME StartRun(l, loop[l].head), loop[l].head \in Inputs
      PROVE  LoopTyped' /\ HeadsTyped'
  BY <1>0, <1>3, LoopAtTyped DEF StartRun, LoopPcs, LoopAt
<1>4. CASE StartProvider(l) \/ RetryAfterRefusal(l)
  BY <1>0, <1>3, <1>4 DEF StartProvider, RetryAfterRefusal
<1>5. ASSUME NEW o \in Settled, Conclude(l, o), loop[l].head \in Inputs
      PROVE  LoopTyped' /\ HeadsTyped'
  BY <1>0, <1>5 DEF Conclude, LoopRec, LoopPcs
<1>6. CASE ~At(l, "off") /\ ~At(l, "take") /\ loop[l].head \in Inputs
  <2>1. interruption[loop[l].head] \in Callers \cup {Nobody}
    BY <1>6 DEF TypeOK
  <2>2. CASE TurnThrows(l)
    <3>1. (IF loop[l].ending = "ok" THEN "error" ELSE loop[l].ending) \in Endings \cup {"none"}
      BY <1>0 DEF LoopRec, Endings
    <3> QED BY <1>0, <1>6, <2>1, <2>2, <3>1 DEF TurnThrows, LoopRec
  <2>3. CASE TurnFails(l)
    <3>1. loop' = [loop EXCEPT ![l].pc = "resetting"] => LoopTyped' /\ HeadsTyped'
      BY <1>0, <1>6 DEF LoopRec, LoopPcs
    <3> QED BY <1>5, <1>6, <2>3, <3>1 DEF TurnFails, Settled
  <2>4. CASE ResetAnnounced(l)
    <3>1. CASE StopSeen(l)
      <4>1. loop' = [loop EXCEPT ![l] = [@ EXCEPT
                        !.pc = "rechecking", !.waitFor = interruption[loop[l].head]]]
        BY <2>4, <3>1 DEF ResetAnnounced
      <4> QED BY <1>0, <1>6, <2>1, <4>1 DEF LoopRec, LoopPcs
    <3>2. CASE ~StopSeen(l)
      BY <1>3, <1>6, <2>4, <3>2 DEF ResetAnnounced
    <3> QED BY <3>1, <3>2
  <2>5. CASE LoopCrashes(l)
    BY <1>0, <2>5 DEF LoopCrashes, LoopRec, LoopPcs
  <2>6. CASE FinishTurn(l)
    BY <1>0, <2>6 DEF FinishTurn, LoopRec, LoopPcs
  <2>7. CASE SettleInput(l)
    BY <1>0, <2>7, LoopAtTyped DEF SettleInput, LoopPcs, LoopAt
  <2>8. ASSUME NEW ending \in Endings, NEW inRun \in BOOLEAN, IteratorEnds(l, ending, inRun)
        PROVE  LoopTyped' /\ HeadsTyped'
    BY <1>0, <2>1, <2>8 DEF IteratorEnds, LoopRec, LoopPcs
  <2>9. CASE TurnCancelled(l) \/ TurnSucceeds(l)
    BY <1>5, <1>6, <2>9 DEF TurnCancelled, TurnSucceeds, Settled
  <2> QED BY <1>1, <1>2, <1>4, <2>9, <2>2, <2>3, <2>4, <2>5, <2>6, <2>7, <2>8
          DEF LoopStep, ProviderEnds
<1>7. CASE ~(~At(l, "off") /\ ~At(l, "take") /\ loop[l].head \in Inputs)
  BY <1>0, <1>1, <1>2, <1>7
     DEF LoopStep, ProviderEnds, StartProvider, TurnCancelled, TurnSucceeds, TurnThrows,
         TurnFails, ResetAnnounced, RetryAfterRefusal, LoopCrashes, FinishTurn,
         SettleInput, IteratorEnds
<1> QED BY <1>6, <1>7

\* The callers: stop() and submitInterruptAndRun().
CallerTyped == caller \in [Callers -> CallerRec]

\* What stop() and submitInterruptAndRun() read under the mutex has its type.
LEMMA CaptureTyped ==
    ASSUME TypeOK, NEW c \in Callers, Capture(c)
    PROVE  CallerTyped' /\ (interruption \in [Inputs -> Callers \cup {Nobody}])'
           /\ (request \in [Callers -> {"none", "asked", "dispatched", "settled", "refused"}])'
<1>1. /\ queue \in Seq(Inputs)
      /\ current \in Inputs \cup {Nobody}
      /\ (IF current = Nobody THEN 0 ELSE attempt[current]) \in 0..2
      /\ nextSeq \in Nat
      /\ caller \in [Callers -> CallerRec]
  BY DEF TypeOK
<1>2. PICK b \in BOOLEAN, h \in 0..2 : caller' = [caller EXCEPT ![c] =
           [@ EXCEPT !.pc = "cancel", !.todo = queue, !.target = current,
                     !.handle = h, !.cancel = b, !.at = nextSeq]]
  BY <1>1 DEF Capture
<1>3. CallerTyped'
  <2>1. caller'[c] \in CallerRec
    BY <1>1, <1>2 DEF CallerRec, CallerPcs
  <2> QED BY <1>1, <1>2, <2>1 DEF CallerTyped
<1> QED
  BY <1>3 DEF Capture, TypeOK, interrupts

\* An interrupting caller that moves on keeps its type.
LEMMA CallerStepTyped ==
    ASSUME TypeOK, NEW c \in Callers, CallerStep(c)
    PROVE  CallerTyped'
<1> USE DEF CallerTyped
<1>1. caller \in [Callers -> CallerRec] /\ caller[c] \in CallerRec
  BY DEF TypeOK
<1>2. CASE CancelPending(c)
  BY <1>1, <1>2 DEF CancelPending, CallerRec, CallerPcs
<1>3. CASE DropOne(c)
  <2>1. caller[c].todo \in Seq(Inputs)
    BY <1>1 DEF CallerRec
  <2>2. Tail(caller[c].todo) \in Seq(Inputs)
    BY <1>3, <2>1 DEF DropOne
  <2> QED BY <1>1, <1>3, <2>2 DEF DropOne, CallerRec
<1>4. ASSUME Return(c) PROVE CallerTyped'
  BY <1>1, <1>4 DEF Return, CallerRec, CallerPcs
<1>5. CASE InterruptInput(c)
  <2>1. interruption[caller[c].target] \in Callers \cup {Nobody}
    BY <1>1, <1>5 DEF InterruptInput, TypeOK, CallerRec
  <2>2. PICK pc \in CallerPcs : caller' = [caller EXCEPT ![c] =
            [@ EXCEPT !.waitFor = interruption[caller[c].target], !.pc = pc]]
    BY <1>5 DEF InterruptInput, CallerPcs
  <2> QED BY <1>1, <2>1, <2>2 DEF CallerRec
<1>6. CASE InterruptOk(c) \/ InterruptFails(c)
  BY <1>1, <1>6 DEF InterruptOk, InterruptFails, CallerRec, CallerPcs
<1>7. CASE InterruptAnswered(c)
  <2>1. caller' = [caller EXCEPT ![c].pc = "threw"] => CallerTyped'
    BY <1>1 DEF CallerRec, CallerPcs
  <2> QED BY <1>4, <1>7, <2>1 DEF InterruptAnswered
<1> QED BY <1>2, <1>3, <1>4, <1>5, <1>6, <1>7 DEF CallerStep, NothingToInterrupt

\* Everything else leaves the callers alone.
LEMMA CallerFrame ==
    ASSUME [Next]_vars,
           ~\E i \in Inputs : SubmitBang(i),
           ~\E s \in Stops : StopLock(s),
           ~\E c \in Callers : CallerStep(c)
    PROVE  UNCHANGED caller
  BY DEF Next, UserStep, LoopStep, CallStep, ProviderEnds, AwaitMessage, vars,
         SubmitRun, LoopEnds, TakeNext, StartProvider, TurnCancelled,
         TurnSucceeds, TurnThrows, TurnFails, ResetAnnounced, RetryAfterRefusal,
         LoopCrashes, FinishTurn, SettleInput, IteratorEnds, CaptureSession,
         EnterAwaiting, CardPosted, CardAnswered, LeaveAwaiting, ApplyAllowTurn,
         ToolCalled

\* The canUseTool calls.
CallTyped == call \in [Calls -> CallRec]

\* A canUseTool call that moves on keeps its type.
LEMMA CallStepTyped ==
    ASSUME TypeOK, NEW k \in Calls, CallStep(k)
    PROVE  CallTyped'
<1> USE DEF CallTyped, CallRec, Phases
<1>1. call \in [Calls -> CallRec]
  BY DEF TypeOK
<1>2. CASE EnterAwaiting(k) \/ CardPosted(k)
  BY <1>1, <1>2 DEF EnterAwaiting, CardPosted
<1>3. ASSUME NEW a \in Answers, CardAnswered(k, a) PROVE CallTyped'
  BY <1>1, <1>3 DEF CardAnswered, Answer
<1>4. CASE LeaveAwaiting(k) \/ ApplyAllowTurn(k)
  BY <1>1, <1>4 DEF LeaveAwaiting, ApplyAllowTurn
<1> QED BY <1>2, <1>3, <1>4 DEF CallStep

\* Outside the tool-call steps and cancelAll, nothing happens to the calls.
LEMMA CallFrame ==
    ASSUME [Next]_vars,
           ~\E c \in Callers : CancelPending(c),
           ~\E k \in Calls : CallStep(k) \/ \E i \in Inputs : ToolCalled(k, i)
    PROVE  UNCHANGED call
  BY DEF Next, UserStep, CallerStep, LoopStep, ProviderEnds, AwaitMessage, vars, tools,
         SubmitRun, SubmitBang, StopLock, DropOne, NothingToInterrupt,
         InterruptInput, InterruptOk, InterruptFails, InterruptAnswered,
         LoopEnds, TakeNext, StartProvider, TurnCancelled,
         TurnSucceeds, TurnThrows, TurnFails, ResetAnnounced, RetryAfterRefusal,
         LoopCrashes, FinishTurn, SettleInput, IteratorEnds, CaptureSession

\* Every step keeps the locals of processLoop typed.
LEMMA LoopsTyped ==
    ASSUME TypeOK, HeadsTyped, [Next]_vars
    PROVE  LoopTyped' /\ HeadsTyped'
<1>1. CASE \E i \in Inputs : SubmitRun(i) \/ SubmitBang(i)
  BY <1>1, KickTyped DEF SubmitRun, SubmitBang, TypeOK, LoopTyped
<1>2. CASE \E l \in Loops : LoopStep(l) \/ ProviderEnds(l)
  BY <1>2, LoopStepTyped
<1>3. CASE UNCHANGED loop
  BY <1>3 DEF TypeOK, LoopTyped, HeadsTyped
<1> QED BY <1>1, <1>2, <1>3, LoopFrame

\* Every step keeps the locals of the interrupting callers typed.
LEMMA CallersTyped ==
    ASSUME TypeOK, [Next]_vars
    PROVE  CallerTyped'
<1>1. ASSUME NEW i \in Inputs, SubmitBang(i) PROVE CallerTyped'
  BY <1>1, CaptureTyped DEF SubmitBang, Callers
<1>2. ASSUME NEW s \in Stops, StopLock(s) PROVE CallerTyped'
  <2>1. CASE state = "idle"
    <3>1. caller' = [caller EXCEPT ![s] = [@ EXCEPT !.pc = "acked", !.at = nextSeq]]
      BY <1>2, <2>1 DEF StopLock
    <3>2. caller \in [Callers -> CallerRec] /\ s \in Callers /\ nextSeq \in Nat
      BY DEF TypeOK, Callers
    <3>3. caller'[s] \in CallerRec
      BY <3>1, <3>2 DEF CallerRec, CallerPcs
    <3> QED BY <3>1, <3>2, <3>3 DEF CallerTyped
  <2>2. CASE state # "idle"
    BY <1>2, <2>2, CaptureTyped DEF StopLock, Callers
  <2> QED BY <2>1, <2>2
<1>3. CASE UNCHANGED caller
  BY <1>3 DEF TypeOK, CallerTyped
<1> QED BY <1>1, <1>2, <1>3, CallerStepTyped, CallerFrame

\* Every step keeps the tool calls typed.
LEMMA CallsTyped ==
    ASSUME TypeOK, RunsCounted, [Next]_vars
    PROVE  CallTyped'
<1>1. ASSUME NEW c \in Callers, CancelPending(c) PROVE CallTyped'
  <2>1. \A k \in Calls : call[k] \in CallRec
    BY DEF TypeOK
  <2>2. \A k \in Calls : [call[k] EXCEPT !.phase = "leaving", !.answer = "deny"] \in CallRec
    BY <2>1 DEF CallRec, Phases, Answers
  <2> QED BY <1>1, <2>1, <2>2 DEF CancelPending, CallTyped
<1>2. ASSUME NEW k \in Calls, NEW i \in Inputs, ToolCalled(k, i) PROVE CallTyped'
  <2>1. <<i, attempt[i]>> \in Runs
    BY <1>2 DEF ToolCalled, RunsCounted, Runs
  <2>2. call' = [call EXCEPT ![k] = [@ EXCEPT !.phase = "entering", !.of = <<i, attempt[i]>>]]
    BY <1>2 DEF ToolCalled
  <2>3. call \in [Calls -> CallRec]
    BY DEF TypeOK
  <2> QED BY <2>1, <2>2, <2>3 DEF CallTyped, CallRec, Phases
<1>3. CASE UNCHANGED call
  BY <1>3 DEF TypeOK, CallTyped
<1> QED BY <1>1, <1>2, <1>3, CallStepTyped, CallFrame

\* The session's own fields.
CoreTyped == /\ state \in {"idle", "generating", "awaiting_permission"}
             /\ queue \in Seq(Inputs)
             /\ current \in Inputs \cup {Nobody}

\* The queue, state, loopRunning and currentTurn keep their types.
LEMMA CoreStaysTyped ==
    ASSUME TypeOK, HeadsTyped, [Next]_vars
    PROVE  CoreTyped'
<1> USE DEF CoreTyped, HeadsTyped, Idle, At
<1>0. CoreTyped /\ HeadsTyped
  BY DEF TypeOK
<1>1. ASSUME NEW i \in Inputs, SubmitRun(i) \/ SubmitBang(i) PROVE CoreTyped'
  <2>1. /\ state' \in {state, "generating"}
        /\ queue' = Append(queue, i) \/ queue' = <<i>>
        /\ current' = current
    BY <1>1 DEF SubmitRun, SubmitBang, QueueAfterRun, QueueAfterBang
  <2>2. Append(queue, i) \in Seq(Inputs) /\ <<i>> \in Seq(Inputs)
    BY <1>0
  <2> QED BY <1>0, <2>1, <2>2
<1>2. ASSUME NEW s \in Stops, StopLock(s) PROVE CoreTyped'
  <2>1. /\ state' \in {state, "generating"}
        /\ queue' = queue \/ queue' = <<>>
        /\ current' = current
    BY <1>2 DEF StopLock, QueueAfterStop
  <2>2. <<>> \in Seq(Inputs)
    OBVIOUS
  <2> QED BY <1>0, <2>1, <2>2
<1>3. ASSUME NEW l \in Loops, LoopEnds(l) \/ TakeNext(l) \/ FinishTurn(l)
      PROVE  CoreTyped'
  <2>1. CASE LoopEnds(l)
    BY <1>0, <2>1 DEF LoopEnds
  <2>2. CASE TakeNext(l)
    BY <1>0, <2>2 DEF TakeNext
  <2>3. CASE FinishTurn(l)
    BY <1>0, <2>3 DEF FinishTurn, StateAfterTurn
  <2> QED BY <1>3, <2>1, <2>2, <2>3
<1>4. ASSUME NEW l \in Loops, StartProvider(l) \/ RetryAfterRefusal(l) \/ ResetAnnounced(l)
      PROVE  CoreTyped'
  <2>1. loop[l].head \in Inputs
    BY <1>0, <1>4 DEF StartProvider, RetryAfterRefusal, ResetAnnounced
  <2>2. UNCHANGED <<state, queue>> /\ current' \in {current, loop[l].head}
    BY <1>4 DEF StartProvider, RetryAfterRefusal, ResetAnnounced, StartRun
  <2> QED BY <1>0, <2>1, <2>2
<1>5. ASSUME NEW k \in Calls, EnterAwaiting(k) \/ LeaveAwaiting(k) PROVE CoreTyped'
  BY <1>0, <1>5 DEF EnterAwaiting, LeaveAwaiting, StateAfterCall
<1>6. CASE UNCHANGED core
  BY <1>0, <1>6 DEF core
<1> QED BY <1>1, <1>2, <1>3, <1>4, <1>5, <1>6
        DEF Next, UserStep, CallerStep, LoopStep, CallStep, ProviderEnds, AwaitMessage,
            vars, CancelPending, DropOne, NothingToInterrupt,
            InterruptInput, InterruptOk, InterruptFails, InterruptAnswered,
            TurnCancelled, TurnSucceeds, TurnThrows, TurnFails, LoopCrashes,
            SettleInput, IteratorEnds, CaptureSession, CardPosted, CardAnswered,
            ApplyAllowTurn, ToolCalled

\* The messages and their interruptions.
EntriesTyped == /\ nextSeq \in Nat \ {0}
                /\ seq \in [Inputs -> Nat]
                /\ done \in [Inputs -> Settled \cup {"new", "pending"}]

\* The entries of the inputs and their outcomes keep their types.
LEMMA EntriesStayTyped ==
    ASSUME TypeOK, HeadsTyped, [Next]_vars
    PROVE  EntriesTyped'
<1> USE DEF EntriesTyped
<1>0. EntriesTyped
  BY DEF TypeOK
<1>1. ASSUME NEW i \in Inputs, SubmitRun(i) \/ SubmitBang(i) PROVE EntriesTyped'
  BY <1>0, <1>1 DEF SubmitRun, SubmitBang, NewEntry
<1>2. ASSUME NEW c \in Callers, DropOne(c) PROVE EntriesTyped'
  BY <1>0, <1>2 DEF DropOne, Settled
<1>3. ASSUME NEW l \in Loops, SettleInput(l) PROVE EntriesTyped'
  <2>1. loop[l].outcome \in Settled
    BY <1>3 DEF SettleInput, HeadsTyped, At
  <2> QED BY <1>0, <1>3, <2>1 DEF SettleInput
<1>4. CASE UNCHANGED entries
  BY <1>0, <1>4 DEF entries
<1> QED BY <1>1, <1>2, <1>3, <1>4
        DEF Next, UserStep, CallerStep, LoopStep, CallStep, ProviderEnds, AwaitMessage,
            vars, StopLock, CancelPending, NothingToInterrupt,
            InterruptInput, InterruptOk, InterruptFails, InterruptAnswered,
            LoopEnds, TakeNext, StartProvider, ResetAnnounced, RetryAfterRefusal, FinishTurn,
            TurnCancelled, TurnSucceeds, TurnThrows, TurnFails, LoopCrashes,
            IteratorEnds, CaptureSession, EnterAwaiting, LeaveAwaiting, CardPosted,
            CardAnswered, ApplyAllowTurn, ToolCalled

InterruptsTyped ==
    /\ interruption \in [Inputs -> Callers \cup {Nobody}]
    /\ request \in [Callers -> {"none", "asked", "dispatched", "settled", "refused"}]

\* The interruptions asked for keep their types.
LEMMA InterruptsStayTyped ==
    ASSUME TypeOK, [Next]_vars
    PROVE  InterruptsTyped'
<1> USE DEF InterruptsTyped
<1>0. InterruptsTyped
  BY DEF TypeOK
<1>1. ASSUME NEW c \in Callers, Capture(c) PROVE InterruptsTyped'
  BY <1>1, CaptureTyped
<1>2. ASSUME NEW c \in Callers, InterruptInput(c) \/ InterruptOk(c) \/ InterruptFails(c)
      PROVE  InterruptsTyped'
  BY <1>0, <1>2 DEF InterruptInput, InterruptOk, InterruptFails, Refusal
<1>3. CASE UNCHANGED interrupts
  BY <1>0, <1>3 DEF interrupts
<1> QED BY <1>1, <1>2, <1>3
        DEF Next, UserStep, CallerStep, LoopStep, CallStep, ProviderEnds, AwaitMessage,
            vars, Callers, SubmitRun, SubmitBang, StopLock, CancelPending, DropOne,
            NothingToInterrupt, InterruptAnswered, interrupts,
            LoopEnds, TakeNext, StartProvider, ResetAnnounced, RetryAfterRefusal, FinishTurn,
            TurnCancelled, TurnSucceeds, TurnThrows, TurnFails, LoopCrashes, SettleInput,
            IteratorEnds, CaptureSession, EnterAwaiting, LeaveAwaiting, CardPosted,
            CardAnswered, ApplyAllowTurn, ToolCalled

\* The provider's runs.
ProviderTyped ==
    /\ loopRunning \in BOOLEAN
    /\ hasSession \in BOOLEAN
    /\ attempt \in [Inputs -> 0..2]
    /\ run \in [Inputs -> {"none", "live", "aborted", "over"}]
    /\ accepting \subseteq Runs

\* A started provider call has the type of a run.
LEMMA StartRunTyped ==
    ASSUME TypeOK, NEW l \in Loops, NEW i \in Inputs, attempt[i] \in {0, 1}, StartRun(l, i)
    PROVE  /\ (attempt \in [Inputs -> 0..2])'
           /\ (run \in [Inputs -> {"none", "live", "aborted", "over"}])'
  BY DEF TypeOK, StartRun

\* The provider runs and their modes keep their types.
LEMMA ProviderStaysTyped ==
    ASSUME TypeOK, HeadsTyped, RunsCounted, RetryBound, [Next]_vars
    PROVE  ProviderTyped'
<1> USE DEF ProviderTyped
<1>0. ProviderTyped /\ current \in Inputs \cup {Nobody}
  BY DEF TypeOK
<1>1. ASSUME NEW i \in Inputs, SubmitRun(i) \/ SubmitBang(i) PROVE ProviderTyped'
  BY <1>0, <1>1 DEF SubmitRun, SubmitBang, KickLoopIfNeeded, loops, provider, tools
<1>2. ASSUME NEW c \in Callers, InterruptInput(c) PROVE ProviderTyped'
  <2>1. /\ run' \in {run, [run EXCEPT ![caller[c].target] = "aborted"]}
        /\ UNCHANGED <<loopRunning, hasSession, attempt, accepting>>
    BY <1>2 DEF InterruptInput, Abort, loops, tools
  <2> QED BY <1>0, <2>1
<1>3. ASSUME NEW l \in Loops, LoopEnds(l) \/ CaptureSession(l) \/ TurnFails(l)
      PROVE  ProviderTyped'
  <2>1. /\ loopRunning' \in {loopRunning, FALSE}
        /\ hasSession' \in {hasSession, TRUE, FALSE}
        /\ UNCHANGED <<attempt, run, accepting>>
    BY <1>3 DEF LoopEnds, FlagAfterLoop, CaptureSession, TurnFails, provider, tools, loops
  <2> QED BY <1>0, <2>1
<1>4. ASSUME NEW l \in Loops, StartProvider(l) \/ ResetAnnounced(l) \/ RetryAfterRefusal(l)
      PROVE  ProviderTyped'
  <2>1. loop[l].head \in Inputs /\ attempt[loop[l].head] \in {0, 1}
    BY <1>4 DEF StartProvider, ResetAnnounced, RetryAfterRefusal, At, HeadsTyped, Idle, RetryBound
  <2>2. /\ StartRun(l, loop[l].head) \/ UNCHANGED <<attempt, run>>
        /\ UNCHANGED <<loopRunning, hasSession, accepting>>
    BY <1>4 DEF StartProvider, ResetAnnounced, RetryAfterRefusal, tools
  <2> QED BY <1>0, <2>1, <2>2, StartRunTyped
<1>5. ASSUME NEW l \in Loops, ProviderEnds(l) PROVE ProviderTyped'
  BY <1>0, <1>5 DEF ProviderEnds, IteratorEnds, tools
<1>6. ASSUME NEW k \in Calls, ApplyAllowTurn(k) PROVE ProviderTyped'
  <2>1. current # Nobody => <<current, attempt[current]>> \in Runs
    BY <1>0 DEF RunsCounted, Runs
  <2> QED BY <1>0, <1>6, <2>1 DEF ApplyAllowTurn, loops, provider
<1>7. CASE UNCHANGED <<loopRunning, provider, accepting>>
  BY <1>0, <1>7 DEF provider
<1> QED BY <1>1, <1>2, <1>3, <1>4, <1>5, <1>6, <1>7
        DEF Next, UserStep, CallerStep, LoopStep, CallStep, AwaitMessage, loops, tools, provider,
            vars, StopLock, CancelPending, DropOne, NothingToInterrupt,
            InterruptOk, InterruptFails, InterruptAnswered, TakeNext, FinishTurn,
            TurnCancelled, TurnSucceeds, TurnThrows, LoopCrashes, SettleInput,
            EnterAwaiting, LeaveAwaiting, CardPosted, CardAnswered, ToolCalled

----------------------------------------------------------------------------
(* There is one loop.                                                      *)

\* Every step of processLoop but its last leaves it alive.
LEMMA LoopStaysAlive ==
    ASSUME TypeOK, NEW l \in Loops, LoopStep(l) \/ ProviderEnds(l), ~LoopEnds(l)
    PROVE  /\ loop[l].pc # "off" /\ loop'[l].pc # "off"
           /\ \A m \in Loops : m # l => loop'[m] = loop[m]
           /\ loopRunning' = loopRunning
<1>0. loop \in [Loops -> LoopRec] /\ loop[l] \in LoopRec
  BY DEF TypeOK
<1> USE DEF At, LoopRec
<1>1. CASE TakeNext(l)
  BY <1>0, <1>1 DEF TakeNext, LoopAt
<1>2. CASE StartProvider(l) \/ ResetAnnounced(l) \/ RetryAfterRefusal(l)
  <2>1. loopRunning' = loopRunning /\ loop[l].pc # "off"
    BY <1>2 DEF StartProvider, ResetAnnounced, RetryAfterRefusal
  <2>2. CASE StartRun(l, loop[l].head)
    BY <1>0, <2>1, <2>2 DEF StartRun, LoopAt
  <2>3. CASE loop' = [loop EXCEPT ![l] = [@ EXCEPT
                !.pc = "rechecking", !.waitFor = interruption[loop[l].head]]]
    BY <1>0, <2>1, <2>3
  <2> QED BY <1>2, <2>2, <2>3 DEF StartProvider, ResetAnnounced, RetryAfterRefusal
<1>3. CASE TurnCancelled(l) \/ TurnSucceeds(l)
  <2>1. PICK o : loop' = [loop EXCEPT ![l] = [@ EXCEPT !.pc = "finishing", !.outcome = o]]
    BY <1>3 DEF TurnCancelled, TurnSucceeds, Conclude
  <2>2. loopRunning' = loopRunning /\ loop[l].pc # "off"
    BY <1>3 DEF TurnCancelled, TurnSucceeds
  <2>3. loop'[l].pc = "finishing"
    BY <1>0, <2>1
  <2> QED BY <1>0, <2>1, <2>2, <2>3
<1>4. CASE TurnThrows(l)
  BY <1>0, <1>4 DEF TurnThrows
<1>5. CASE TurnFails(l)
  BY <1>0, <1>5 DEF TurnFails, Conclude
<1>6. CASE LoopCrashes(l) \/ FinishTurn(l)
  BY <1>0, <1>6 DEF LoopCrashes, FinishTurn
<1>7. CASE SettleInput(l)
  BY <1>0, <1>7 DEF SettleInput, LoopAt
<1>8. CASE ProviderEnds(l)
  <2>1. PICK ending \in Endings, inRun \in BOOLEAN : IteratorEnds(l, ending, inRun)
    BY <1>8 DEF ProviderEnds
  <2>2. loop' = [loop EXCEPT ![l] = [@ EXCEPT !.pc = "judging", !.ending = ending,
                    !.inRun = inRun, !.waitFor = interruption[loop[l].head]]]
    BY <2>1 DEF IteratorEnds
  <2>3. loopRunning' = loopRunning /\ loop[l].pc # "off"
    BY <2>1 DEF IteratorEnds
  <2> QED BY <1>0, <2>2, <2>3
<1> QED BY <1>1, <1>2, <1>3, <1>4, <1>5, <1>6, <1>7, <1>8 DEF LoopStep

\* A loop is only started when there is none, and the flag is cleared in the
\* step in which the last one ends.
LEMMA OneLoopStays ==
    ASSUME TypeOK, OneLoop, [Next]_vars
    PROVE  OneLoop'
<1> USE DEF OneLoop, AliveLoops, At
<1>0. loop \in [Loops -> LoopRec]
  BY DEF TypeOK
<1>1. ASSUME NEW i \in Inputs, SubmitRun(i) \/ SubmitBang(i) PROVE OneLoop'
  <2>1. CASE KickNeeded
    <3>1. PICK l \in Loops : loop' = [loop EXCEPT ![l] = LoopAt("take", Nobody)]
      BY <1>1, <2>1 DEF SubmitRun, SubmitBang, KickLoopIfNeeded
    <3>2. loopRunning' = TRUE
      BY <1>1, <2>1 DEF SubmitRun, SubmitBang, KickLoopIfNeeded
    <3> QED BY <1>0, <2>1, <3>1, <3>2 DEF KickNeeded, LoopAt
  <2>2. CASE ~KickNeeded
    BY <1>1, <2>2 DEF SubmitRun, SubmitBang, KickLoopIfNeeded, loops
  <2> QED BY <2>1, <2>2
<1>2. ASSUME NEW l \in Loops, LoopEnds(l) PROVE OneLoop'
  BY <1>0, <1>2 DEF LoopEnds, FlagAfterLoop, LoopAt
<1>3. ASSUME NEW l \in Loops, LoopStep(l) \/ ProviderEnds(l), ~LoopEnds(l) PROVE OneLoop'
  BY <1>0, <1>3, LoopStaysAlive
<1>4. CASE UNCHANGED loops
  BY <1>4 DEF loops
<1> QED BY <1>1, <1>2, <1>3, <1>4
        DEF Next, UserStep, CallerStep, CallStep, AwaitMessage, vars, loops, core,
            StopLock, CancelPending, DropOne, NothingToInterrupt, InterruptInput,
            InterruptOk, InterruptFails, InterruptAnswered, CaptureSession,
            EnterAwaiting, LeaveAwaiting, CardPosted, CardAnswered, ApplyAllowTurn, ToolCalled

----------------------------------------------------------------------------
(* Inputs are run at most twice.                                           *)

Counts == RunsCounted /\ NewIsFresh /\ QueueIsFresh /\ RetryBound

\* A step that neither queues, takes nor starts an input.
LEMMA CountsFrame ==
    ASSUME TypeOK, Counts,
           UNCHANGED <<queue, attempt>>,
           current' \in {current, Nobody},
           \A i \in Inputs : run'[i] # "none" => run[i] # "none" \/ attempt[i] \in {1, 2},
           \A i \in Inputs : done'[i] = "new" => done[i] = "new",
           \A l \in Loops : /\ loop'[l].head = loop[l].head
                            /\ \/ loop'[l].pc \notin {"opening", "running", "resetting", "rechecking"}
                               \/ loop'[l].pc = loop[l].pc
                               \/ /\ loop'[l].pc \in {"resetting", "rechecking"}
                                  /\ attempt[loop[l].head] = 1
    PROVE  Counts'
<1>1. RunsCounted'
  BY DEF Counts, RunsCounted
<1>2. NewIsFresh'
  BY DEF Counts, NewIsFresh
<1>3. QueueIsFresh'
  <2>1. \A n \in DOMAIN queue : queue[n] \in Inputs
    BY DEF TypeOK
  <2> QED BY <2>1 DEF Counts, QueueIsFresh
<1>4. RetryBound'
  <2> SUFFICES ASSUME NEW l \in Loops
               PROVE  RetryBound!(l)'
    BY DEF RetryBound
  <2> QED BY DEF Counts, RetryBound, TypeOK, LoopRec
<1> QED BY <1>1, <1>2, <1>3, <1>4 DEF Counts

\* A new entry is queued; a new loop has nothing in hand.
LEMMA CountsSubmit ==
    ASSUME TypeOK, Counts, NEW i \in Inputs, SubmitRun(i) \/ SubmitBang(i)
    PROVE  Counts'
<1>1. /\ queue \in Seq(Inputs)
      /\ loop \in [Loops -> LoopRec]
      /\ done \in [Inputs -> Settled \cup {"new", "pending"}]
  BY DEF TypeOK
<1>2. /\ done[i] = "new" /\ done' = [done EXCEPT ![i] = "pending"]
      /\ queue' = Append(queue, i) \/ queue' = <<i>>
      /\ UNCHANGED <<current, attempt, run>>
      /\ KickLoopIfNeeded
  BY DEF SubmitRun, SubmitBang, NewEntry, QueueAfterRun, QueueAfterBang, provider
<1>3. \A l \in Loops : \/ loop'[l] = loop[l]
                       \/ loop'[l].pc = "take" /\ loop'[l].head = Nobody
  BY <1>1, <1>2 DEF KickLoopIfNeeded, LoopAt, loops
<1>4. Nobody \notin Inputs
  BY SessionAssumption
<1>5. RunsCounted'
  BY <1>2 DEF Counts, RunsCounted
<1>6. \A n \in DOMAIN queue' : queue'[n] = i \/ (n \in DOMAIN queue /\ queue'[n] = queue[n])
  <2>1. CASE queue' = Append(queue, i)
    BY <1>1, <2>1
  <2>2. CASE queue' = <<i>>
    BY <2>2
  <2> QED BY <1>2, <2>1, <2>2
<1>7. NewIsFresh'
  BY <1>1, <1>2, <1>3, <1>4, <1>6 DEF Counts, NewIsFresh
<1>8. QueueIsFresh'
  <2>1. attempt[i] = 0 /\ (\A n \in DOMAIN queue : queue[n] # i) /\ \A l \in Loops : loop[l].head # i
    BY <1>2 DEF Counts, NewIsFresh
  <2>2. \A n \in DOMAIN queue' : queue'[n] \in Inputs
    BY <1>1, <1>2
  <2>3. \A m, n \in DOMAIN queue' : queue'[m] = queue'[n] => m = n
    BY <1>1, <1>2, <2>1 DEF Counts, QueueIsFresh
  <2>4. Nobody \notin Inputs
    BY SessionAssumption
  <2> QED BY <1>1, <1>2, <1>3, <1>6, <2>1, <2>2, <2>3, <2>4 DEF Counts, QueueIsFresh
<1>9. RetryBound'
  BY <1>1, <1>2, <1>3 DEF Counts, RetryBound
<1> QED BY <1>5, <1>7, <1>8, <1>9 DEF Counts

\* The loop takes the first input.
LEMMA CountsTake ==
    ASSUME TypeOK, OneLoop, Counts, NEW l \in Loops, TakeNext(l)
    PROVE  Counts'
<1>1. /\ queue \in Seq(Inputs) /\ queue # <<>>
      /\ loop \in [Loops -> LoopRec]
      /\ loop' = [loop EXCEPT ![l] = LoopAt("opening", Head(queue))]
      /\ queue' = Tail(queue)
      /\ UNCHANGED <<current, attempt, run, done>>
  BY DEF TakeNext, TypeOK, provider, entries
<1>2. \A m \in Loops : m # l => loop[m].pc = "off"
  BY DEF OneLoop, AliveLoops, TakeNext, At
<1>3. /\ 1 \in DOMAIN queue /\ Head(queue) = queue[1]
      /\ \A n \in DOMAIN queue' : n + 1 \in DOMAIN queue /\ queue'[n] = queue[n + 1] /\ n + 1 # 1
  BY <1>1
<1>4. RunsCounted'
  BY <1>1 DEF Counts, RunsCounted
<1>5. NewIsFresh'
  BY <1>1, <1>3 DEF Counts, NewIsFresh, QueueIsFresh, LoopAt
<1>6. QueueIsFresh'
  <2> SUFFICES ASSUME NEW n \in DOMAIN queue' PROVE QueueIsFresh!(n)'
    BY DEF QueueIsFresh
  <2>1. attempt[queue'[n]] = 0 /\ done[queue'[n]] # "new"
    BY <1>3 DEF Counts, QueueIsFresh
  <2>2. ASSUME NEW m \in DOMAIN queue', queue'[m] = queue'[n] PROVE m = n
    <3>1. m \in Nat /\ n \in Nat
      BY <1>1
    <3>2. m + 1 = n + 1
      BY <1>3, <2>2 DEF Counts, QueueIsFresh
    <3> QED BY <3>1, <3>2
  <2>3. ASSUME NEW m \in Loops PROVE loop'[m].head # queue'[n]
    BY <1>1, <1>3 DEF Counts, QueueIsFresh, LoopAt
  <2> QED BY <1>1, <2>1, <2>2, <2>3
<1>7. RetryBound'
  BY <1>1, <1>3 DEF Counts, RetryBound, QueueIsFresh, LoopAt
<1> QED BY <1>4, <1>5, <1>6, <1>7 DEF Counts

\* queryFn: an input that was run at most once is run.
LEMMA CountsStart ==
    ASSUME TypeOK, OneLoop, Counts, NEW l \in Loops, loop[l].head \in Inputs,
           loop[l].pc # "off", attempt[loop[l].head] \in {0, 1},
           StartRun(l, loop[l].head), UNCHANGED <<queue, done>>
    PROVE  Counts'
<1>1. /\ attempt \in [Inputs -> 0..2] /\ run \in [Inputs -> {"none", "live", "aborted", "over"}]
      /\ loop \in [Loops -> LoopRec] /\ queue \in Seq(Inputs)
  BY DEF TypeOK
<1>2. \A m \in Loops : m # l => loop[m].pc = "off"
  BY DEF OneLoop, AliveLoops, At
<1> DEFINE i == loop[l].head
<1>3. /\ attempt' = [attempt EXCEPT ![i] = @ + 1]
      /\ run' = [run EXCEPT ![i] = "live"]
      /\ current' = i
      /\ loop' = [loop EXCEPT ![l] = LoopAt("running", i)]
  BY DEF StartRun
<1>4. attempt'[i] \in {1, 2} /\ \A j \in Inputs : j # i => attempt'[j] = attempt[j]
  BY <1>1, <1>3
<1>5. i # Nobody /\ done[i] # "new"
  BY SessionAssumption DEF Counts, RetryBound
<1> HIDE DEF i
<1>6. RunsCounted'
  BY <1>1, <1>3, <1>4, <1>5 DEF Counts, RunsCounted
<1>7. NewIsFresh'
  BY <1>1, <1>3, <1>4, <1>5 DEF Counts, NewIsFresh, LoopAt
<1>8. QueueIsFresh'
  <2>1. \A n \in DOMAIN queue : queue[n] \in Inputs /\ queue[n] # i
    BY <1>1 DEF Counts, QueueIsFresh, i
  <2> QED BY <1>1, <1>3, <1>4, <2>1 DEF Counts, QueueIsFresh, LoopAt
<1>9. RetryBound'
  <2>1. ASSUME NEW m \in Loops, m # l PROVE RetryBound!(m)'
    BY <1>1, <1>2, <1>3, <2>1 DEF Counts, RetryBound
  <2>2. RetryBound!(l)'
    BY <1>1, <1>3, <1>4, <1>5 DEF LoopAt
  <2> QED BY <2>1, <2>2 DEF RetryBound
<1> QED BY <1>6, <1>7, <1>8, <1>9 DEF Counts

\* The steps inside a turn: the loop keeps its input, and nothing changes that
\* another actor reads, but that the provider run may be over.
InTurn(l) == \/ TurnCancelled(l) \/ TurnSucceeds(l) \/ TurnThrows(l) \/ TurnFails(l)
             \/ (ResetAnnounced(l) /\ StopSeen(l)) \/ LoopCrashes(l) \/ ProviderEnds(l)

InTurnTo(l, r) ==
    /\ loop' = [loop EXCEPT ![l] = r]
    /\ r \in LoopRec /\ r.head = loop[l].head
    /\ r.pc \in {"judging", "resetting", "rechecking", "finishing", "crashed"}
    /\ r.pc = "crashed" => "open" \in Faults
    /\ r.pc \in {"resetting", "rechecking"} => attempt[loop[l].head] = 1
    /\ loop[l].pc \in {"opening", "running", "judging", "resetting", "rechecking"}
    /\ UNCHANGED <<state, queue, current, attempt, done>>
    /\ \/ loop[l].pc # "running" /\ run' = run
       \/ loop[l].pc = "running" /\ run' = [run EXCEPT ![loop[l].head] = "over"]

\* A step inside a turn that starts no provider call touches neither queue nor counts.
LEMMA InTurnSteps ==
    ASSUME TypeOK, HeadsTyped, RetryBound, NEW l \in Loops, InTurn(l)
    PROVE  \E r : InTurnTo(l, r)
<1> USE DEF At
<1>0. loop \in [Loops -> LoopRec] /\ loop[l] \in LoopRec
  BY DEF TypeOK
<1>1. loop[l].pc \in {"opening", "running", "judging", "resetting", "rechecking"}
  BY DEF InTurn, TurnCancelled, TurnSucceeds, TurnThrows, TurnFails, ResetAnnounced,
         LoopCrashes, ProviderEnds, IteratorEnds
<1>2. loop[l].head \in Inputs
  BY <1>1 DEF HeadsTyped, Idle
<1>3. interruption[loop[l].head] \in Callers \cup {Nobody}
  BY <1>2 DEF TypeOK
<1>4. CASE ResetAnnounced(l) /\ StopSeen(l)
  <2> DEFINE r == [loop[l] EXCEPT !.pc = "rechecking", !.waitFor = interruption[loop[l].head]]
  <2>1. attempt[loop[l].head] = 1 /\ loop[l].pc # "running"
    BY <1>4 DEF ResetAnnounced, RetryBound
  <2>2. r \in LoopRec /\ r.head = loop[l].head /\ r.pc = "rechecking"
    BY <1>0, <1>3 DEF LoopRec, LoopPcs
  <2>3. loop' = [loop EXCEPT ![l] = r] /\ UNCHANGED <<state, queue, attempt, done, current, run>>
    BY <1>4 DEF ResetAnnounced, entries
  <2> HIDE DEF r
  <2> QED BY <1>1, <2>1, <2>2, <2>3 DEF InTurnTo
<1>5. ASSUME NEW o \in Settled, Conclude(l, o), loop[l].pc # "running",
             UNCHANGED <<state, queue, attempt, done, current, run>>
      PROVE  \E r : InTurnTo(l, r)
  <2> DEFINE r == [loop[l] EXCEPT !.pc = "finishing", !.outcome = o]
  <2>1. r \in LoopRec /\ r.head = loop[l].head /\ r.pc = "finishing"
    BY <1>0 DEF LoopRec, LoopPcs
  <2>2. loop' = [loop EXCEPT ![l] = r]
    BY <1>5 DEF Conclude
  <2> HIDE DEF r
  <2> QED BY <1>1, <1>5, <2>1, <2>2 DEF InTurnTo
<1>6. CASE TurnCancelled(l) \/ TurnSucceeds(l)
  BY <1>5, <1>6 DEF TurnCancelled, TurnSucceeds, Settled, core, provider, entries
<1>7. CASE TurnFails(l)
  <2>1. CASE CanRetry(l)
    <3> DEFINE r == [loop[l] EXCEPT !.pc = "resetting"]
    <3>1. r \in LoopRec /\ r.head = loop[l].head /\ r.pc = "resetting"
      BY <1>0 DEF LoopRec, LoopPcs
    <3>2. loop' = [loop EXCEPT ![l] = r] /\ UNCHANGED <<state, queue, attempt, done, current, run>>
      BY <1>7, <2>1 DEF TurnFails, core, entries
    <3>3. attempt[loop[l].head] = 1 /\ loop[l].pc # "running"
      BY <1>7, <2>1 DEF TurnFails, CanRetry
    <3> HIDE DEF r
    <3> QED BY <1>1, <3>1, <3>2, <3>3 DEF InTurnTo
  <2>2. CASE ~CanRetry(l)
    BY <1>5, <1>7, <2>2 DEF TurnFails, Settled, core, entries
  <2> QED BY <2>1, <2>2
<1>8. CASE TurnThrows(l)
  <2> DEFINE r == [loop[l] EXCEPT !.inRun = FALSE,
                      !.ending = IF loop[l].ending = "ok" THEN "error" ELSE loop[l].ending,
                      !.waitFor = interruption[loop[l].head]]
  <2>1. loop[l].pc = "judging"
    BY <1>8 DEF TurnThrows
  <2>2. (IF loop[l].ending = "ok" THEN "error" ELSE loop[l].ending) \in Endings \cup {"none"}
    BY <1>0 DEF LoopRec, Endings
  <2>3. r \in LoopRec /\ r.head = loop[l].head /\ r.pc = "judging"
    BY <1>0, <1>3, <2>1, <2>2 DEF LoopRec
  <2>4. loop' = [loop EXCEPT ![l] = r] /\ UNCHANGED <<state, queue, attempt, done, current, run>>
    BY <1>8 DEF TurnThrows, core, provider, entries
  <2> HIDE DEF r
  <2> QED BY <1>1, <2>1, <2>3, <2>4 DEF InTurnTo
<1>9. CASE LoopCrashes(l)
  <2> DEFINE r == [loop[l] EXCEPT !.pc = "crashed"]
  <2>1. r \in LoopRec /\ r.head = loop[l].head /\ r.pc = "crashed"
    BY <1>0 DEF LoopRec, LoopPcs
  <2>2. /\ loop' = [loop EXCEPT ![l] = r] /\ loop[l].pc # "running" /\ "open" \in Faults
        /\ UNCHANGED <<state, queue, attempt, done, current, run>>
    BY <1>9 DEF LoopCrashes, core, provider, entries
  <2> HIDE DEF r
  <2> QED BY <1>1, <2>1, <2>2 DEF InTurnTo
<1>10. CASE ProviderEnds(l)
  <2>1. PICK ending \in Endings, inRun \in BOOLEAN : IteratorEnds(l, ending, inRun)
    BY <1>10 DEF ProviderEnds
  <2> DEFINE r == [loop[l] EXCEPT !.pc = "judging", !.ending = ending,
                      !.inRun = inRun, !.waitFor = interruption[loop[l].head]]
  <2>2. r \in LoopRec /\ r.head = loop[l].head /\ r.pc = "judging"
    BY <1>0, <1>3 DEF LoopRec, LoopPcs
  <2>3. /\ loop' = [loop EXCEPT ![l] = r] /\ run' = [run EXCEPT ![loop[l].head] = "over"]
        /\ loop[l].pc = "running" /\ UNCHANGED <<state, queue, attempt, done, current>>
    BY <2>1 DEF IteratorEnds, core, entries
  <2> HIDE DEF r
  <2> QED BY <1>1, <2>2, <2>3 DEF InTurnTo
<1> QED BY <1>4, <1>6, <1>7, <1>8, <1>9, <1>10 DEF InTurn

\* The steps that give an input to the provider.
Starts(l) == StartProvider(l) \/ RetryAfterRefusal(l) \/ (ResetAnnounced(l) /\ ~StopSeen(l))

\* A provider call starts with an input that was run at most once before.
LEMMA StartSteps ==
    ASSUME HeadsTyped, RetryBound, NEW l \in Loops, Starts(l)
    PROVE  /\ StartRun(l, loop[l].head) /\ UNCHANGED <<state, queue, done>>
           /\ loop[l].pc \in {"opening", "resetting", "rechecking"}
           /\ loop[l].head \in Inputs /\ attempt[loop[l].head] \in {0, 1}
<1>1. /\ StartRun(l, loop[l].head) /\ UNCHANGED <<state, queue, done>>
      /\ loop[l].pc \in {"opening", "resetting", "rechecking"}
  BY DEF Starts, StartProvider, RetryAfterRefusal, ResetAnnounced, entries, At
<1> QED BY <1>1 DEF HeadsTyped, Idle, RetryBound

\* A step of a loop keeps the counts of its own input.
LEMMA CountsLoop ==
    ASSUME TypeOK, HeadsTyped, OneLoop, Counts, NEW l \in Loops, LoopStep(l) \/ ProviderEnds(l)
    PROVE  Counts'
<1> USE DEF At
<1>0. /\ loop \in [Loops -> LoopRec] /\ loop[l] \in LoopRec
      /\ run \in [Inputs -> {"none", "live", "aborted", "over"}]
      /\ done \in [Inputs -> Settled \cup {"new", "pending"}]
      /\ HeadsTyped /\ RetryBound
  BY DEF TypeOK, Counts
<1>1. CASE InTurn(l) \/ FinishTurn(l)
  <2>1. \E r : /\ loop' = [loop EXCEPT ![l] = r] /\ r.head = loop[l].head
               /\ \/ r.pc \notin {"opening", "running", "resetting", "rechecking"}
                  \/ /\ r.pc \in {"resetting", "rechecking"}
                     /\ attempt[loop[l].head] = 1
    <3>1. CASE InTurn(l)
      BY <1>0, <3>1, InTurnSteps DEF InTurnTo
    <3>2. CASE FinishTurn(l)
      <4> DEFINE r == [loop[l] EXCEPT !.pc = "settling"]
      <4>1. r.pc = "settling" /\ r.head = loop[l].head
        BY <1>0 DEF LoopRec
      <4>2. loop' = [loop EXCEPT ![l] = r]
        BY <3>2 DEF FinishTurn
      <4> HIDE DEF r
      <4> QED BY <4>1, <4>2
    <3> QED BY <1>1, <3>1, <3>2
  <2>2. /\ UNCHANGED <<queue, attempt, done>> /\ current' \in {current, Nobody}
        /\ run' = run \/ (run' = [run EXCEPT ![loop[l].head] = "over"] /\ loop[l].pc = "running")
    BY <1>0, <1>1, InTurnSteps DEF InTurnTo, FinishTurn, provider, entries
  <2>3. \A i \in Inputs : run'[i] # "none" => run[i] # "none" \/ attempt[i] \in {1, 2}
    BY <1>0, <2>2 DEF RetryBound
  <2> QED BY <1>0, <2>1, <2>2, <2>3, CountsFrame
<1>2. CASE LoopEnds(l) \/ SettleInput(l)
  <2>1. \E pc \in {"off", "take"} : loop' = [loop EXCEPT ![l] = LoopAt(pc, Nobody)]
    BY <1>2 DEF LoopEnds, SettleInput
  <2>2. /\ UNCHANGED <<queue, attempt, run>> /\ current' \in {current, Nobody}
        /\ done' = done \/ (done' = [done EXCEPT ![loop[l].head] = loop[l].outcome]
                            /\ loop[l].outcome \in Settled /\ loop[l].head \in Inputs)
    BY <1>2 DEF LoopEnds, SettleInput, HeadsTyped, Idle, provider, entries, core
  <2>3. \A i \in Inputs : done'[i] = "new" => done[i] = "new"
    BY <1>0, <2>2 DEF Settled
  <2>4. \A n \in DOMAIN queue : queue[n] \in Inputs
    BY DEF TypeOK
  <2>5. Nobody \notin Inputs
    BY SessionAssumption
  <2>6. RunsCounted'
    BY <2>2 DEF Counts, RunsCounted
  <2>7. NewIsFresh'
    BY <1>0, <2>1, <2>2, <2>3, <2>5 DEF Counts, NewIsFresh, LoopAt
  <2>8. QueueIsFresh'
    BY <1>0, <2>1, <2>2, <2>3, <2>4, <2>5 DEF Counts, QueueIsFresh, LoopAt
  <2>9. RetryBound'
    <3> SUFFICES ASSUME NEW m \in Loops PROVE RetryBound!(m)'
      BY DEF RetryBound
    <3>1. loop[m].head \in Inputs \cup {Nobody}
      BY <1>0 DEF LoopRec
    <3> QED BY <1>0, <2>1, <2>2, <2>3, <3>1 DEF RetryBound, LoopAt
  <2> QED BY <2>6, <2>7, <2>8, <2>9 DEF Counts
<1>3. CASE TakeNext(l)
  BY <1>3, CountsTake
<1>4. CASE Starts(l)
  BY <1>0, <1>4, StartSteps, CountsStart
<1> QED BY <1>1, <1>2, <1>3, <1>4 DEF LoopStep, InTurn, Starts

\* Attempts and runs agree in every step: the retry is the only second run.
LEMMA CountsStay ==
    ASSUME TypeOK, HeadsTyped, OneLoop, Counts, [Next]_vars
    PROVE  Counts'
<1>1. ASSUME NEW s \in Stops, StopLock(s) PROVE Counts'
  <2>1. /\ queue' = queue \/ queue' = <<>>
        /\ UNCHANGED <<current, attempt, run, done, loop>>
    BY <1>1 DEF StopLock, QueueAfterStop, provider, entries, loops
  <2>2. CASE queue' = queue
    BY <2>1, <2>2 DEF Counts, RunsCounted, NewIsFresh, QueueIsFresh, RetryBound
  <2>3. CASE queue' = <<>>
    BY <2>1, <2>3 DEF Counts, RunsCounted, NewIsFresh, QueueIsFresh, RetryBound
  <2> QED BY <2>1, <2>2, <2>3
<1>2. ASSUME NEW c \in Callers, DropOne(c) PROVE Counts'
  <2>1. /\ UNCHANGED <<current, attempt, queue, run, loop>>
        /\ \A i \in Inputs : done'[i] = "new" => done[i] = "new"
    BY <1>2 DEF DropOne, TypeOK, core, loops, provider
  <2> QED BY <2>1, CountsFrame
<1>3. ASSUME NEW c \in Callers, InterruptInput(c) PROVE Counts'
  <2>1. /\ UNCHANGED <<current, attempt, queue, done, loop>>
        /\ \A i \in Inputs : run'[i] # "none" => run[i] # "none"
    BY <1>3 DEF InterruptInput, Abort, TypeOK, core, loops, entries
  <2> QED BY <2>1, CountsFrame
<1>4. CASE UNCHANGED <<queue, current, attempt, run, done, loop>>
  BY <1>4 DEF Counts, RunsCounted, NewIsFresh, QueueIsFresh, RetryBound
<1> QED BY <1>1, <1>2, <1>3, <1>4, CountsSubmit, CountsLoop
        DEF Next, UserStep, CallerStep, CallStep, AwaitMessage, vars, core, loops,
            provider, entries, CancelPending, NothingToInterrupt, InterruptOk,
            InterruptFails, InterruptAnswered, CaptureSession, EnterAwaiting,
            LeaveAwaiting, CardPosted, CardAnswered, ApplyAllowTurn, ToolCalled

----------------------------------------------------------------------------
(* The theorems.                                                           *)

\* The invariant holds when the session is constructed.
LEMMA InitIInv == Init => IInv
<1> SUFFICES ASSUME Init PROVE IInv
  OBVIOUS
<1>1. LoopAt("off", Nobody) \in LoopRec
  BY LoopAtTyped DEF LoopPcs
<1>2. [pc |-> "start", todo |-> <<>>, target |-> Nobody, handle |-> 0,
       cancel |-> FALSE, waitFor |-> Nobody, at |-> 0] \in CallerRec
  BY DEF CallerRec, CallerPcs
<1>3. [phase |-> "unused", of |-> Nobody, answer |-> "none"] \in CallRec
  BY DEF CallRec, Phases
<1>4. TypeOK
  <2>1. loop \in [Loops -> LoopRec] /\ caller \in [Callers -> CallerRec] /\ call \in [Calls -> CallRec]
    <3>1. loop \in [Loops -> LoopRec]
      BY <1>1 DEF Init
    <3>2. caller \in [Callers -> CallerRec]
      BY <1>2, Zenon DEF Init
    <3>3. call \in [Calls -> CallRec]
      BY <1>3, Zenon DEF Init
    <3> QED BY <3>1, <3>2, <3>3
  <2>2. CoreTyped
    BY DEF Init, CoreTyped
  <2>3. EntriesTyped
    BY DEF Init, EntriesTyped
  <2>4. InterruptsTyped
    BY DEF Init, InterruptsTyped
  <2>5. ProviderTyped
    <3>1. loopRunning \in BOOLEAN /\ hasSession \in BOOLEAN /\ accepting \subseteq Runs
      BY DEF Init
    <3>2. attempt \in [Inputs -> 0..2] /\ run \in [Inputs -> {"none", "live", "aborted", "over"}]
      BY DEF Init
    <3> QED BY <3>1, <3>2 DEF ProviderTyped
  <2> QED BY <2>1, <2>2, <2>3, <2>4, <2>5 DEF TypeOK, CoreTyped, EntriesTyped, InterruptsTyped, ProviderTyped
<1>5. OneLoop /\ HeadsTyped /\ RetryBound
  BY DEF Init, OneLoop, AliveLoops, At, HeadsTyped, Idle, RetryBound, LoopAt
<1>6. RunsCounted /\ NewIsFresh /\ QueueIsFresh
  BY SessionAssumption DEF Init, RunsCounted, NewIsFresh, QueueIsFresh, LoopAt
<1> QED BY <1>4, <1>5, <1>6 DEF IInv

\* Every step of the session preserves the invariant.
LEMMA NextIInv == IInv /\ [Next]_vars => IInv'
<1> SUFFICES ASSUME IInv, [Next]_vars PROVE IInv'
  OBVIOUS
<1>0. TypeOK /\ OneLoop /\ HeadsTyped /\ Counts /\ RunsCounted /\ RetryBound
  BY DEF IInv, Counts
<1>1. TypeOK' /\ HeadsTyped'
  BY <1>0, LoopsTyped, CallersTyped, CallsTyped, CoreStaysTyped, EntriesStayTyped,
     InterruptsStayTyped, ProviderStaysTyped
     DEF TypeOK, LoopTyped, CallerTyped, CallTyped, CoreTyped, EntriesTyped,
         InterruptsTyped, ProviderTyped
<1>2. OneLoop'
  BY <1>0, OneLoopStays
<1>3. Counts'
  BY <1>0, CountsStay
<1> QED BY <1>1, <1>2, <1>3 DEF IInv, Counts

\* The inductive invariant holds in every state a session reaches: fresh and
\* queued inputs were never run, a loop holds an input until it is settled, and
\* there is one loop at most.
THEOREM Invariance == Spec => []IInv
<1>1. Init => IInv
  BY InitIInv
<1>2. IInv /\ [Next]_vars => IInv'
  BY NextIInv
<1> QED BY <1>1, <1>2, PTL DEF Spec

\* Every variable of the session keeps its type; in particular no input is
\* given to the provider a third time (the retry happens once).
THEOREM TypeCorrect == Spec => []TypeOK
<1>1. IInv => TypeOK
  BY DEF IInv
<1> QED BY <1>1, Invariance, PTL

\* There is at most one processLoop and loopRunning tells whether there is one,
\* for any number of concurrent submits and stops, even after a crash.
THEOREM OneLoopAlways == Spec => []OneLoop
<1>1. IInv => OneLoop
  BY DEF IInv
<1> QED BY <1>1, Invariance, PTL

----------------------------------------------------------------------------
(* The state shown to the users.                                           *)

\* Every step keeps a call behind the state awaiting_permission.
LEMMA AwaitingStays ==
    ASSUME TypeOK, AwaitingHasCall, [Next]_vars
    PROVE  AwaitingHasCall'
<1> USE DEF AwaitingHasCall
<1>0. call \in [Calls -> CallRec]
  BY DEF TypeOK
<1>1. ASSUME NEW c \in Callers, CancelPending(c) PROVE AwaitingHasCall'
  <2>1. \A k \in Calls : call[k].phase \in {"posting", "waiting", "leaving"}
                         => call'[k].phase \in {"posting", "waiting", "leaving"}
    <3> TAKE k \in Calls
    <3>1. call[k] \in CallRec
      BY <1>0
    <3>2. [call[k] EXCEPT !.phase = "leaving", !.answer = "deny"].phase = "leaving"
      BY <3>1 DEF CallRec
    <3> QED BY <1>1, <3>2 DEF CancelPending
  <2>2. state' = state
    BY <1>1 DEF CancelPending, core
  <2> QED BY <2>1, <2>2
<1>2. ASSUME NEW k \in Calls, EnterAwaiting(k) PROVE AwaitingHasCall'
  BY <1>0, <1>2 DEF EnterAwaiting, CallRec
<1>3. ASSUME NEW k \in Calls, CardPosted(k) PROVE AwaitingHasCall'
  BY <1>0, <1>3 DEF CardPosted, CallRec, core
<1>4. ASSUME NEW k \in Calls, NEW a \in Answers, CardAnswered(k, a) PROVE AwaitingHasCall'
  BY <1>0, <1>4 DEF CardAnswered, Answer, CallRec, core
<1>5. ASSUME NEW k \in Calls, LeaveAwaiting(k) PROVE AwaitingHasCall'
  BY <1>5 DEF LeaveAwaiting, StateAfterCall
<1>6. ASSUME NEW k \in Calls, NEW i \in Inputs, ToolCalled(k, i) PROVE AwaitingHasCall'
  <2>1. \A j \in Calls : call[j].phase \in {"posting", "waiting", "leaving"}
                         => call'[j].phase = call[j].phase
    BY <1>0, <1>6 DEF ToolCalled, InPhase, CallRec
  <2>2. state' = state
    BY <1>6 DEF ToolCalled, core
  <2> QED BY <2>1, <2>2
<1>7. CASE state' \in {state, "idle", "generating"} /\ UNCHANGED call
  BY <1>7
<1>8. ASSUME NEW k \in Calls, ApplyAllowTurn(k) PROVE AwaitingHasCall'
  <2>1. \A j \in Calls : call[j].phase \in {"posting", "waiting", "leaving"}
                         => call'[j].phase = call[j].phase
    BY <1>0, <1>8 DEF ApplyAllowTurn, InPhase, CallRec
  <2>2. state' = state
    BY <1>8 DEF ApplyAllowTurn, core
  <2> QED BY <2>1, <2>2
<1> QED BY <1>1, <1>2, <1>3, <1>4, <1>5, <1>6, <1>7, <1>8
        DEF Next, UserStep, CallerStep, CallStep, LoopStep, ProviderEnds, AwaitMessage,
            vars, core, tools, SubmitRun, SubmitBang, StopLock, DropOne,
            NothingToInterrupt, InterruptInput, InterruptOk, InterruptFails,
            InterruptAnswered, LoopEnds, TakeNext, StartProvider, TurnCancelled,
            TurnSucceeds, TurnThrows, TurnFails, ResetAnnounced, RetryAfterRefusal,
            LoopCrashes, FinishTurn, StateAfterTurn, SettleInput, IteratorEnds, CaptureSession

\* The session shows awaiting_permission only while a canUseTool call is between
\* its two mutex sections, whatever turns, stops and other calls do meanwhile.
THEOREM AwaitingAlwaysHasCall == Spec => []AwaitingHasCall
<1>1. Init => AwaitingHasCall
  BY DEF Init, AwaitingHasCall
<1>2. TypeOK /\ AwaitingHasCall /\ [Next]_vars => AwaitingHasCall'
  BY AwaitingStays
<1> QED BY <1>1, <1>2, TypeCorrect, PTL DEF Spec

\* What holds between turns: idle comes with an empty queue and a loop that has
\* nothing left to do but settle; a provider run and currentTurn need a loop
\* inside its turn.
Between == {"off", "take", "settling"}
IdleInv ==
    /\ state = "idle" => queue = <<>> /\ \A l \in Loops : loop[l].pc \in Between
    /\ \A i \in Inputs : run[i] \in {"live", "aborted"} =>
          \E l \in Loops : loop[l].pc = "running" /\ loop[l].head = i
    /\ current # Nobody => \E l \in Loops : loop[l].pc \notin Between \cup {"opening"}

\* A step that leaves the session idle leaves no loop inside a turn.
LEMMA IdleLoop ==
    ASSUME IInv, IdleInv, NEW l \in Loops, LoopStep(l) \/ ProviderEnds(l)
    PROVE  IdleInv'
<1> USE DEF At, Between
<1>0. /\ TypeOK /\ OneLoop /\ HeadsTyped /\ RetryBound
      /\ loop \in [Loops -> LoopRec] /\ loop[l] \in LoopRec
      /\ run \in [Inputs -> {"none", "live", "aborted", "over"}]
  BY DEF IInv, TypeOK
<1>1. loop[l].pc # "off"
  BY <1>0, LoopStaysAlive DEF LoopEnds
<1>2. \A m \in Loops : m # l => loop[m].pc = "off"
  BY <1>1 DEF IInv, OneLoop, AliveLoops
<1>3. CASE LoopEnds(l)
  <2>1. /\ loop' = [loop EXCEPT ![l] = LoopAt("off", Nobody)] /\ loop[l].pc = "take"
        /\ queue = <<>> /\ UNCHANGED <<queue, run>> /\ current' = Nobody
    BY <1>3 DEF LoopEnds, provider
  <2> QED BY <1>0, <1>2, <2>1 DEF IdleInv, LoopAt
<1>4. CASE TakeNext(l)
  <2>1. /\ loop' = [loop EXCEPT ![l] = LoopAt("opening", Head(queue))] /\ loop[l].pc = "take"
        /\ queue # <<>> /\ UNCHANGED <<state, run, current>>
    BY <1>4 DEF TakeNext, provider
  <2> QED BY <1>0, <1>2, <2>1 DEF IdleInv, LoopAt
<1>5. CASE Starts(l)
  <2>1. /\ loop' = [loop EXCEPT ![l] = LoopAt("running", loop[l].head)]
        /\ run' = [run EXCEPT ![loop[l].head] = "live"]
        /\ loop[l].pc \in {"opening", "resetting", "rechecking"} /\ loop[l].head \in Inputs
        /\ UNCHANGED <<state, queue>>
    BY <1>0, <1>5, StartSteps DEF StartRun
  <2> QED BY <1>0, <1>2, <2>1 DEF IdleInv, LoopAt
<1>6. CASE InTurn(l)
  <2>1. PICK r : InTurnTo(l, r)
    BY <1>0, <1>6, InTurnSteps
  <2> QED BY <1>0, <1>2, <2>1 DEF IdleInv, InTurnTo
<1>7. CASE FinishTurn(l)
  <2>1. /\ loop' = [loop EXCEPT ![l].pc = "settling"] /\ loop[l].pc = "finishing"
        /\ state' = (IF queue = <<>> THEN "idle" ELSE state)
        /\ UNCHANGED <<queue, run>> /\ current' = Nobody
    BY <1>7 DEF FinishTurn, StateAfterTurn, provider
  <2>2. \A m \in Loops : loop'[m].pc \in Between
    BY <1>0, <1>2, <2>1 DEF LoopRec
  <2>3. \A i \in Inputs : run[i] \notin {"live", "aborted"}
    BY <1>2, <2>1 DEF IdleInv
  <2>4. state # "idle"
    BY <2>1 DEF IdleInv
  <2> QED BY <2>1, <2>2, <2>3, <2>4 DEF IdleInv
<1>8. CASE SettleInput(l)
  <2>1. /\ loop' = [loop EXCEPT ![l] = LoopAt("take", Nobody)] /\ loop[l].pc = "settling"
        /\ UNCHANGED <<state, queue, run, current>>
    BY <1>8 DEF SettleInput, provider, core
  <2> QED BY <1>0, <1>2, <2>1 DEF IdleInv, LoopAt
<1> QED BY <1>3, <1>4, <1>5, <1>6, <1>7, <1>8 DEF LoopStep, InTurn, Starts

\* Every step keeps an idle session quiet.
LEMMA IdleStays ==
    ASSUME IInv, IdleInv, [Next]_vars
    PROVE  IdleInv'
<1>0. /\ loop \in [Loops -> LoopRec] /\ run \in [Inputs -> {"none", "live", "aborted", "over"}]
  BY DEF IInv, TypeOK
<1>1. ASSUME NEW i \in Inputs, SubmitRun(i) \/ SubmitBang(i) PROVE IdleInv'
  <2>1. state' # "idle" /\ UNCHANGED <<current, run>>
    BY <1>1 DEF SubmitRun, SubmitBang, provider
  <2>2. \A l \in Loops : loop'[l] = loop[l] \/ loop[l].pc = "off"
    BY <1>0, <1>1 DEF SubmitRun, SubmitBang, KickLoopIfNeeded, loops, At
  <2> QED BY <2>1, <2>2 DEF IdleInv, Between
<1>2. ASSUME NEW s \in Stops, StopLock(s) PROVE IdleInv'
  BY <1>2 DEF StopLock, IdleInv, loops, provider
<1>3. ASSUME NEW c \in Callers, InterruptInput(c) PROVE IdleInv'
  <2>1. UNCHANGED <<state, queue, current, loop>>
    BY <1>3 DEF InterruptInput, core, loops
  <2>2. \A i \in Inputs : run'[i] \in {"live", "aborted"} => run[i] \in {"live", "aborted"}
    BY <1>0, <1>3 DEF InterruptInput, Abort
  <2> QED BY <2>1, <2>2 DEF IdleInv
<1>4. ASSUME NEW k \in Calls, EnterAwaiting(k) \/ LeaveAwaiting(k) PROVE IdleInv'
  <2>1. (state' = "idle" => state = "idle") /\ UNCHANGED <<queue, current, loop, run>>
    BY <1>4 DEF EnterAwaiting, LeaveAwaiting, StateAfterCall, loops, provider
  <2> QED BY <2>1 DEF IdleInv
<1>5. CASE UNCHANGED <<state, queue, current, loop, run>>
  BY <1>5 DEF IdleInv
<1> QED BY <1>1, <1>2, <1>3, <1>4, <1>5, IdleLoop
        DEF Next, UserStep, CallerStep, CallStep, AwaitMessage, vars, core, loops,
            provider, CancelPending, DropOne, NothingToInterrupt, InterruptOk,
            InterruptFails, InterruptAnswered, CaptureSession, CardPosted, CardAnswered,
            ApplyAllowTurn, ToolCalled

\* An idle session is quiet, whatever stops, bangs, tool calls and failures came
\* before: nothing queued, no current turn, no provider run.  A command handler
\* that has read "idle" knows it.
THEOREM IdleAlwaysQuiet == Spec => []IdleIsQuiet
<1>1. Init => IdleInv
  BY DEF Init, IdleInv, Between, LoopAt
<1>2. IInv /\ IdleInv /\ [Next]_vars => IdleInv'
  BY IdleStays
<1>3. IdleInv => IdleIsQuiet
  <2> SUFFICES ASSUME IdleInv, state = "idle"
               PROVE  /\ queue = <<>> /\ current = Nobody
                      /\ \A i \in Inputs : run[i] \notin {"live", "aborted"}
    BY DEF IdleIsQuiet
  <2>1. \A l \in Loops : loop[l].pc \in Between
    BY DEF IdleInv
  <2> QED BY <2>1 DEF IdleInv, Between
<1> QED BY <1>1, <1>2, <1>3, Invariance, PTL DEF Spec

\* A session without a loop has nothing to do.
FlagInv == loopRunning \/ (state = "idle" /\ queue = <<>>)

\* Every step but a crash of processLoop keeps loopRunning and the loop in step.
LEMMA FlagStays ==
    ASSUME FlagInv, [Next]_vars
    PROVE  FlagInv'
<1> USE DEF FlagInv
<1>1. ASSUME NEW i \in Inputs, SubmitRun(i) \/ SubmitBang(i) PROVE FlagInv'
  BY <1>1 DEF SubmitRun, SubmitBang, KickLoopIfNeeded, KickNeeded, loops
<1>2. ASSUME NEW s \in Stops, StopLock(s) PROVE FlagInv'
  BY <1>2 DEF StopLock, loops
<1>3. ASSUME NEW l \in Loops, LoopStep(l) \/ ProviderEnds(l) PROVE FlagInv'
  <2>1. CASE LoopEnds(l)
    BY <2>1 DEF LoopEnds
  <2>2. CASE TakeNext(l)
    BY <2>2 DEF TakeNext
  <2>3. CASE FinishTurn(l)
    BY <2>3 DEF FinishTurn, StateAfterTurn
  <2>4. CASE UNCHANGED <<loopRunning, state, queue>>
    BY <2>4
  <2> QED BY <1>3, <2>1, <2>2, <2>3, <2>4
          DEF LoopStep, ProviderEnds, core, StartProvider, TurnCancelled, TurnSucceeds,
              TurnThrows, TurnFails, ResetAnnounced, RetryAfterRefusal, LoopCrashes,
              SettleInput, IteratorEnds
<1>4. ASSUME NEW k \in Calls, EnterAwaiting(k) \/ LeaveAwaiting(k) PROVE FlagInv'
  BY <1>4 DEF EnterAwaiting, LeaveAwaiting, StateAfterCall, loops
<1>5. CASE UNCHANGED <<loopRunning, state, queue>>
  BY <1>5
<1> QED BY <1>1, <1>2, <1>3, <1>4, <1>5
        DEF Next, UserStep, CallerStep, CallStep, AwaitMessage, vars, core, loops,
            CancelPending, DropOne, NothingToInterrupt, InterruptInput, InterruptOk,
            InterruptFails, InterruptAnswered, CaptureSession, CardPosted, CardAnswered,
            ApplyAllowTurn, ToolCalled

\* Whatever submit() accepted is picked up: unless queryFn has thrown, a session
\* that is not idle, or has something queued, has a processLoop at work.
THEOREM WorkAlwaysHasLoop == Spec => []WorkHasLoop
<1>1. Init => FlagInv
  BY DEF Init, FlagInv
<1>2. FlagInv /\ [Next]_vars => FlagInv'
  BY FlagStays
<1>3. IInv /\ FlagInv => WorkHasLoop
  BY DEF IInv, OneLoop, AliveLoops, At, FlagInv, WorkHasLoop
<1> QED BY <1>1, <1>2, <1>3, Invariance, PTL DEF Spec

\* Both halves: the queue is handed over without a gap, however submits, stops and ends of
\* turns interleave.
THEOREM LoopAlwaysOwnsWork == Spec => []LoopOwnsWork
<1>1. OneLoop /\ WorkHasLoop => LoopOwnsWork
  BY DEF LoopOwnsWork
<1> QED BY <1>1, OneLoopAlways, WorkAlwaysHasLoop, PTL

\* The state shown to the users is true of the calls and turns there are.
THEOREM StateAlwaysMatchesWork == Spec => []StateMatchesWork
<1>1. AwaitingHasCall /\ IdleIsQuiet => StateMatchesWork
  BY DEF StateMatchesWork
<1> QED BY <1>1, AwaitingAlwaysHasCall, IdleAlwaysQuiet, PTL

----------------------------------------------------------------------------
(* Every submitted input is in one place, and the places are in order.     *)

InQueue(i) == \E n \in DOMAIN queue : queue[n] = i
InHand(i) == \E l \in Loops : loop[l].head = i
ToDrop(c, i) == \E n \in DOMAIN caller[c].todo : caller[c].todo[n] = i

\* Numbers are given in order, to what is submitted.
Numbered == \A i \in Inputs : (done[i] = "new" <=> seq[i] = 0) /\ seq[i] < nextSeq

\* The queue is in the order of submission, behind whatever was run or taken.
QueueAhead == \A n \in DOMAIN queue :
    /\ done[queue[n]] = "pending"
    /\ \A m \in DOMAIN queue : m < n => seq[queue[m]] < seq[queue[n]]
    /\ \A i \in Inputs : attempt[i] > 0 \/ InHand(i) => seq[i] < seq[queue[n]]

\* A loop has the latest input that was run, or one that is later.
HandAhead == \A l \in Loops :
    /\ loop[l].pc \in Idle <=> loop[l].head = Nobody
    /\ loop[l].head # Nobody =>
         /\ done[loop[l].head] = "pending"
         /\ \A i \in Inputs : attempt[i] > 0 => seq[i] <= seq[loop[l].head]

\* What a caller is about to drop is nowhere else.
DropsApart == \A c \in Callers : \A n \in DOMAIN caller[c].todo :
    /\ done[caller[c].todo[n]] = "pending"
    /\ ~InQueue(caller[c].todo[n]) /\ ~InHand(caller[c].todo[n])
    /\ \A d \in Callers : \A m \in DOMAIN caller[d].todo :
          caller[d].todo[m] = caller[c].todo[n] => d = c /\ m = n

\* A caller has nothing to drop before it takes the lock.
StartsEmpty == /\ \A c \in Callers : caller[c].pc = "start" => caller[c].todo = <<>>
               /\ \A i \in Bangs : done[i] = "new" => caller[i].pc = "start"

Placed == \A i \in Inputs : done[i] = "pending" =>
    InQueue(i) \/ InHand(i) \/ \E c \in Callers : ToDrop(c, i)

OwnInv == Numbered /\ QueueAhead /\ HandAhead /\ DropsApart /\ StartsEmpty /\ Placed

\* The types that matter here.
LEMMA OwnTypes ==
    ASSUME TypeOK
    PROVE  /\ queue \in Seq(Inputs) /\ \A n \in DOMAIN queue : queue[n] \in Inputs
           /\ seq \in [Inputs -> Nat] /\ nextSeq \in Nat \ {0}
           /\ attempt \in [Inputs -> 0..2] /\ \A i \in Inputs : attempt[i] \in Nat
           /\ done \in [Inputs -> Settled \cup {"new", "pending"}]
           /\ loop \in [Loops -> LoopRec] /\ \A l \in Loops : loop[l].head \in Inputs \cup {Nobody}
           /\ caller \in [Callers -> CallerRec]
           /\ \A c \in Callers : /\ caller[c].todo \in Seq(Inputs)
                                 /\ \A n \in DOMAIN caller[c].todo : caller[c].todo[n] \in Inputs
<1>1. \A c \in Callers : caller[c].todo \in Seq(Inputs)
  BY DEF TypeOK, CallerRec
<1>2. \A l \in Loops : loop[l].head \in Inputs \cup {Nobody}
  BY DEF TypeOK, LoopRec
<1>3. \A c \in Callers : \A n \in DOMAIN caller[c].todo : caller[c].todo[n] \in Inputs
  BY <1>1
<1>4. /\ queue \in Seq(Inputs) /\ seq \in [Inputs -> Nat] /\ nextSeq \in Nat \ {0}
      /\ attempt \in [Inputs -> 0..2] /\ done \in [Inputs -> Settled \cup {"new", "pending"}]
      /\ loop \in [Loops -> LoopRec] /\ caller \in [Callers -> CallerRec]
  BY DEF TypeOK
<1>5. \A n \in DOMAIN queue : queue[n] \in Inputs
  BY <1>4
<1>6. \A i \in Inputs : attempt[i] \in Nat
  BY <1>4
<1> QED BY <1>1, <1>2, <1>3, <1>4, <1>5, <1>6

\* The hands of the loops do not change.
SameHands == \A l \in Loops : /\ loop'[l].head = loop[l].head
                              /\ loop'[l].pc \in Idle <=> loop[l].pc \in Idle

\* A step that moves no input: a caller may leave its start.
LEMMA OwnSame ==
    ASSUME TypeOK, OwnInv, UNCHANGED <<queue, seq, nextSeq, done, attempt>>, SameHands,
           \A c \in Callers : /\ caller'[c].todo = caller[c].todo
                              /\ caller'[c].pc = "start" => caller[c].pc = "start",
           \A i \in Bangs : caller[i].pc = "start" => caller'[i].pc = "start"
    PROVE  OwnInv'
<1>1. \A i : (InQueue(i)' <=> InQueue(i)) /\ (InHand(i)' <=> InHand(i))
  BY DEF InQueue, InHand, SameHands
<1>2. \A c \in Callers : \A i : ToDrop(c, i)' <=> ToDrop(c, i)
  BY DEF ToDrop
<1>3. Numbered' /\ StartsEmpty'
  BY DEF OwnInv, Numbered, StartsEmpty, Callers
<1>4. QueueAhead'
  BY <1>1 DEF OwnInv, QueueAhead
<1>5. HandAhead'
  BY DEF OwnInv, HandAhead, SameHands
<1>6. DropsApart'
  BY <1>1 DEF OwnInv, DropsApart
<1>7. Placed'
  BY <1>1, <1>2 DEF OwnInv, Placed
<1> QED BY <1>3, <1>4, <1>5, <1>6, <1>7 DEF OwnInv

\* The new entry of a submit, whatever becomes of the queue.
LEMMA OwnEntry ==
    ASSUME IInv, OwnInv, NEW i \in Inputs, NewEntry(i), KickLoopIfNeeded, UNCHANGED attempt
    PROVE  /\ Numbered' /\ HandAhead' /\ SameHands
           /\ done[i] = "new" /\ done' = [done EXCEPT ![i] = "pending"]
           /\ attempt[i] = 0 /\ ~InHand(i) /\ ~InQueue(i)
           /\ \A c \in Callers : ~ToDrop(c, i)
           /\ seq'[i] = nextSeq /\ \A j \in Inputs : j # i => seq'[j] = seq[j]
           /\ \A j \in Inputs : seq[j] < nextSeq
<1>0. TypeOK /\ NewIsFresh /\ Numbered /\ HandAhead /\ DropsApart
  BY DEF IInv, OwnInv
<1>1. /\ done[i] = "new" /\ done' = [done EXCEPT ![i] = "pending"]
      /\ seq' = [seq EXCEPT ![i] = nextSeq] /\ nextSeq' = nextSeq + 1
  BY DEF NewEntry
<1>2. /\ attempt[i] = 0 /\ ~InHand(i) /\ ~InQueue(i) /\ \A c \in Callers : ~ToDrop(c, i)
  BY <1>0, <1>1 DEF NewIsFresh, InHand, InQueue, ToDrop, DropsApart
<1>3. seq'[i] = nextSeq /\ \A j \in Inputs : j # i => seq'[j] = seq[j]
  BY <1>0, <1>1, OwnTypes
<1>4. Numbered'
  BY <1>0, <1>1, <1>3, OwnTypes DEF Numbered
<1>5. SameHands
  <2>1. CASE KickNeeded
    <3>1. PICK l \in Loops : loop[l].pc = "off" /\ loop' = [loop EXCEPT ![l] = LoopAt("take", Nobody)]
      BY <2>1 DEF KickLoopIfNeeded, At
    <3>2. loop[l].head = Nobody
      BY <1>0, <3>1 DEF HandAhead, Idle
    <3> QED BY <1>0, <3>1, <3>2, OwnTypes DEF SameHands, LoopAt, Idle
  <2>2. CASE ~KickNeeded
    BY <2>2 DEF KickLoopIfNeeded, loops, SameHands
  <2> QED BY <2>1, <2>2
<1>6. HandAhead'
  <2> SUFFICES ASSUME NEW l \in Loops PROVE HandAhead!(l)'
    BY DEF HandAhead
  <2>1. loop[l].head # i
    BY <1>2 DEF InHand
  <2> QED BY <1>0, <1>1, <1>2, <1>3, <1>5, <2>1, OwnTypes DEF HandAhead, SameHands
<1>7. \A j \in Inputs : seq[j] < nextSeq
  BY <1>0 DEF Numbered
<1> QED BY <1>1, <1>2, <1>3, <1>4, <1>5, <1>6, <1>7

LEMMA OwnSubmitRun ==
    ASSUME IInv, OwnInv, NEW i \in Inputs, SubmitRun(i)
    PROVE  OwnInv'
<1>0. TypeOK /\ QueueAhead /\ DropsApart /\ StartsEmpty /\ Placed
  BY DEF IInv, OwnInv
<1>1. /\ queue' = Append(queue, i) /\ UNCHANGED <<attempt, caller>> /\ i \notin Bangs
      /\ NewEntry(i) /\ KickLoopIfNeeded
  BY DEF SubmitRun, QueueAfterRun, provider
<1>2. /\ Numbered' /\ HandAhead' /\ SameHands
      /\ done[i] = "new" /\ done' = [done EXCEPT ![i] = "pending"]
      /\ attempt[i] = 0 /\ ~InHand(i) /\ ~InQueue(i) /\ \A c \in Callers : ~ToDrop(c, i)
      /\ seq'[i] = nextSeq /\ \A j \in Inputs : j # i => seq'[j] = seq[j]
      /\ \A j \in Inputs : seq[j] < nextSeq
  BY <1>1, OwnEntry
<1>3. /\ \A n \in DOMAIN queue' : \/ n \in DOMAIN queue /\ queue'[n] = queue[n]
                                  \/ n = Len(queue) + 1 /\ queue'[n] = i
      /\ \A n \in DOMAIN queue : n \in DOMAIN queue' /\ queue'[n] = queue[n] /\ n <= Len(queue)
      /\ Len(queue) + 1 \in DOMAIN queue' /\ queue'[Len(queue) + 1] = i /\ Len(queue) \in Nat
  <2>1. queue \in Seq(Inputs)
    BY <1>0, OwnTypes
  <2>2. /\ Len(queue) \in Nat /\ DOMAIN queue = 1..Len(queue)
        /\ DOMAIN Append(queue, i) = 1..(Len(queue) + 1)
        /\ \A n \in 1..Len(queue) : Append(queue, i)[n] = queue[n]
        /\ Append(queue, i)[Len(queue) + 1] = i
    BY <2>1
  <2> QED BY <1>1, <2>2
<1>4. \A j : (InHand(j)' <=> InHand(j)) /\ (InQueue(j)' <=> InQueue(j) \/ j = i)
  BY <1>2, <1>3 DEF InHand, InQueue, SameHands
<1>5. QueueAhead'
  <2> SUFFICES ASSUME NEW n \in DOMAIN queue' PROVE QueueAhead!(n)'
    BY DEF QueueAhead
  <2>1. CASE n \in DOMAIN queue /\ queue'[n] = queue[n]
    <3>1. queue[n] \in Inputs /\ queue[n] # i /\ seq'[queue[n]] = seq[queue[n]]
      BY <1>0, <1>2, <2>1, OwnTypes DEF InQueue
    <3>2. ASSUME NEW m \in DOMAIN queue', m < n PROVE seq'[queue'[m]] < seq'[queue'[n]]
      <4>1. m \in DOMAIN queue /\ queue'[m] = queue[m]
        BY <1>0, <1>3, <2>1, <3>2, OwnTypes
      <4>2. queue[m] \in Inputs /\ queue[m] # i /\ seq'[queue[m]] = seq[queue[m]]
        BY <1>0, <1>2, <4>1, OwnTypes DEF InQueue
      <4> QED BY <1>0, <2>1, <3>1, <3>2, <4>1, <4>2 DEF QueueAhead
    <3>3. ASSUME NEW j \in Inputs, attempt[j] > 0 \/ InHand(j) PROVE seq'[j] < seq'[queue'[n]]
      <4>1. j # i
        BY <1>2, <3>3
      <4> QED BY <1>0, <1>2, <2>1, <3>1, <3>3, <4>1 DEF QueueAhead
    <3>4. done'[queue'[n]] = "pending"
      BY <1>0, <1>2, <2>1, <3>1, OwnTypes DEF QueueAhead
    <3> QED BY <1>1, <1>4, <3>2, <3>3, <3>4
  <2>2. CASE n = Len(queue) + 1 /\ queue'[n] = i
    <3>1. ASSUME NEW m \in DOMAIN queue', m < n PROVE seq'[queue'[m]] < seq'[queue'[n]]
      <4>1. m \in DOMAIN queue /\ queue'[m] = queue[m]
        BY <1>3, <2>2, <3>1
      <4>2. queue[m] \in Inputs /\ queue[m] # i
        BY <1>0, <1>2, <4>1, OwnTypes DEF InQueue
      <4> QED BY <1>2, <2>2, <4>1, <4>2
    <3>2. ASSUME NEW j \in Inputs, attempt[j] > 0 \/ InHand(j) PROVE seq'[j] < seq'[queue'[n]]
      <4>1. j # i
        BY <1>2, <3>2
      <4> QED BY <1>2, <2>2, <4>1
    <3>3. done'[queue'[n]] = "pending"
      BY <1>0, <1>2, <2>2, OwnTypes
    <3> QED BY <1>1, <1>4, <3>1, <3>2, <3>3
  <2> QED BY <1>3, <2>1, <2>2
<1>6. DropsApart'
  <2>1. \A c \in Callers : \A n \in DOMAIN caller[c].todo :
           caller[c].todo[n] \in Inputs /\ caller[c].todo[n] # i
    BY <1>0, <1>2, OwnTypes DEF ToDrop
  <2> QED BY <1>0, <1>1, <1>2, <1>4, <2>1, OwnTypes DEF DropsApart
<1>7. StartsEmpty'
  BY <1>0, <1>1, <1>2, OwnTypes, SessionAssumption DEF StartsEmpty
<1>8. Placed'
  BY <1>0, <1>1, <1>2, <1>4, OwnTypes DEF Placed, ToDrop
<1> QED BY <1>2, <1>5, <1>6, <1>7, <1>8 DEF OwnInv

\* A caller that takes the lock has the queue to drop.
Collects(c) ==
    /\ caller[c].todo = <<>> /\ caller[c].pc = "start"
    /\ caller'[c].todo = queue /\ caller'[c].pc = "cancel"
    /\ \A d \in Callers : d # c => caller'[d] = caller[d]

LEMMA CaptureCollects ==
    ASSUME TypeOK, StartsEmpty, NEW c \in Callers, Capture(c), caller[c].pc = "start"
    PROVE  Collects(c)
<1>1. caller \in [Callers -> CallerRec] /\ caller[c] \in CallerRec
  BY OwnTypes
<1>2. /\ \A d \in Callers : d # c => caller'[d] = caller[d]
      /\ caller'[c] = [caller[c] EXCEPT !.pc = "cancel", !.todo = queue, !.target = current,
                          !.handle = IF current = Nobody THEN 0 ELSE attempt[current],
                          !.cancel = (state = "awaiting_permission"), !.at = nextSeq]
  BY <1>1 DEF Capture
<1>3. caller'[c].todo = queue /\ caller'[c].pc = "cancel"
  BY <1>1, <1>2 DEF CallerRec
<1> QED BY <1>2, <1>3 DEF StartsEmpty, Collects

\* What was queued is to be dropped, and nothing else changes place.
LEMMA CollectedApart ==
    ASSUME TypeOK, QueueAhead, DropsApart, NEW c \in Callers, Collects(c),
           \A j : InHand(j)' <=> InHand(j),
           \A j \in Inputs : done[j] = "pending" => done'[j] = "pending",
           \A j \in Inputs : InQueue(j)' => ~InQueue(j) /\ \A d \in Callers : ~ToDrop(d, j)
    PROVE  DropsApart'
<1>1. \A m, n \in DOMAIN queue : queue[m] = queue[n] => m = n
  <2> TAKE m, n \in DOMAIN queue
  <2>1. m \in Nat /\ n \in Nat /\ seq[queue[m]] \in Nat
    BY OwnTypes
  <2>2. m < n => seq[queue[m]] < seq[queue[n]]
    BY DEF QueueAhead
  <2>3. n < m => seq[queue[n]] < seq[queue[m]]
    BY DEF QueueAhead
  <2> QED BY <2>1, <2>2, <2>3
<1>2. \A n \in DOMAIN queue : /\ done[queue[n]] = "pending" /\ queue[n] \in Inputs
                             /\ ~InHand(queue[n]) /\ InQueue(queue[n])
  <2> TAKE n \in DOMAIN queue
  <2>1. queue[n] \in Inputs /\ seq[queue[n]] \in Nat /\ done[queue[n]] = "pending"
    BY OwnTypes DEF QueueAhead
  <2>2. ~InHand(queue[n])
    BY <2>1 DEF QueueAhead
  <2> QED BY <2>1, <2>2 DEF InQueue
<1>3. \A d \in Callers : d # c => caller'[d].todo = caller[d].todo
  BY DEF Collects
<1>4. \A d \in Callers : d # c => \A n \in DOMAIN caller[d].todo : \A m \in DOMAIN queue :
         caller[d].todo[n] # queue[m]
  BY DEF DropsApart, InQueue
<1>5. \A d \in Callers : \A n \in DOMAIN caller'[d].todo :
         /\ caller'[d].todo[n] \in Inputs /\ done[caller'[d].todo[n]] = "pending"
         /\ ~InHand(caller'[d].todo[n])
         /\ InQueue(caller'[d].todo[n]) \/ ToDrop(d, caller'[d].todo[n])
  <2> TAKE d \in Callers
  <2>1. CASE d = c
    BY <1>2, <2>1 DEF Collects
  <2>2. CASE d # c
    <3>1. caller'[d].todo = caller[d].todo
      BY <1>3, <2>2
    <3>2. \A n \in DOMAIN caller[d].todo :
             /\ caller[d].todo[n] \in Inputs /\ done[caller[d].todo[n]] = "pending"
             /\ ~InHand(caller[d].todo[n]) /\ ToDrop(d, caller[d].todo[n])
      BY OwnTypes DEF DropsApart, ToDrop
    <3> QED BY <3>1, <3>2
  <2> QED BY <2>1, <2>2
<1>6. \A d, e \in Callers : \A n \in DOMAIN caller'[d].todo : \A m \in DOMAIN caller'[e].todo :
         caller'[e].todo[m] = caller'[d].todo[n] => e = d /\ m = n
  <2> TAKE d, e \in Callers
  <2>1. CASE d = c /\ e = c
    BY <1>1, <2>1 DEF Collects
  <2>2. CASE d = c /\ e # c
    BY <1>3, <1>4, <2>2 DEF Collects
  <2>3. CASE d # c /\ e = c
    BY <1>3, <1>4, <2>3 DEF Collects
  <2>4. CASE d # c /\ e # c
    BY <1>3, <2>4 DEF DropsApart
  <2> QED BY <2>1, <2>2, <2>3, <2>4
<1>7. \A d \in Callers : \A n \in DOMAIN caller'[d].todo : \A j :
         j = caller'[d].todo[n] => ~InQueue(j)' /\ ~InHand(j)' /\ done'[j] = "pending"
  BY <1>5
<1> QED BY <1>6, <1>7 DEF DropsApart

LEMMA OwnSubmitBang ==
    ASSUME IInv, OwnInv, NEW i \in Inputs, SubmitBang(i)
    PROVE  OwnInv'
<1>0. TypeOK /\ QueueAhead /\ DropsApart /\ StartsEmpty /\ Placed
  BY DEF IInv, OwnInv
<1>1. /\ queue' = <<i>> /\ UNCHANGED attempt /\ i \in Bangs /\ i \in Callers
      /\ NewEntry(i) /\ KickLoopIfNeeded /\ Capture(i)
  BY DEF SubmitBang, QueueAfterBang, provider, Callers
<1>2. /\ Numbered' /\ HandAhead' /\ SameHands
      /\ done[i] = "new" /\ done' = [done EXCEPT ![i] = "pending"]
      /\ attempt[i] = 0 /\ ~InHand(i) /\ ~InQueue(i) /\ \A c \in Callers : ~ToDrop(c, i)
      /\ seq'[i] = nextSeq /\ \A j \in Inputs : j # i => seq'[j] = seq[j]
      /\ \A j \in Inputs : seq[j] < nextSeq
  BY <1>1, OwnEntry
<1>3. Collects(i)
  BY <1>0, <1>1, <1>2, CaptureCollects DEF StartsEmpty
<1>4. /\ \A j : (InHand(j)' <=> InHand(j)) /\ (InQueue(j)' <=> j = i)
      /\ \A n \in DOMAIN queue' : n = 1 /\ queue'[n] = i
  BY <1>1, <1>2 DEF InHand, InQueue, SameHands
<1>5. \A j \in Inputs : done'[j] = IF j = i THEN "pending" ELSE done[j]
  BY <1>0, <1>2, OwnTypes
<1>6. QueueAhead'
  <2>1. ASSUME NEW j \in Inputs, attempt[j] > 0 \/ InHand(j) PROVE seq'[j] < seq'[i]
    <3>1. j # i
      BY <1>2, <2>1
    <3> QED BY <1>2, <3>1
  <2> QED BY <1>1, <1>4, <1>5, <2>1 DEF QueueAhead
<1>7. DropsApart'
  <2>1. \A j \in Inputs : done[j] = "pending" => done'[j] = "pending"
    BY <1>5
  <2>2. \A j \in Inputs : InQueue(j)' => ~InQueue(j) /\ \A d \in Callers : ~ToDrop(d, j)
    BY <1>2, <1>4
  <2>3. \A j : InHand(j)' <=> InHand(j)
    BY <1>4
  <2>4. i \in Callers /\ TypeOK /\ QueueAhead /\ DropsApart
    BY <1>0, <1>1
  <2> QED BY <1>3, <2>1, <2>2, <2>3, <2>4, CollectedApart, Zenon
<1>8. StartsEmpty'
  BY <1>0, <1>3, <1>5, SessionAssumption DEF StartsEmpty, Collects, Callers
<1>9. Placed'
  <2> SUFFICES ASSUME NEW j \in Inputs, done'[j] = "pending", j # i
               PROVE  InHand(j) \/ \E c \in Callers : ToDrop(c, j)'
    BY <1>4 DEF Placed
  <2>1. CASE InQueue(j)
    BY <1>1, <1>3, <2>1 DEF InQueue, ToDrop, Collects
  <2>2. ASSUME NEW c \in Callers, ToDrop(c, j) PROVE ToDrop(c, j)'
    <3>1. c # i
      BY <1>3, <2>2 DEF ToDrop, Collects
    <3> QED BY <1>3, <2>2, <3>1 DEF ToDrop, Collects
  <2> QED BY <1>0, <1>5, <2>1, <2>2 DEF Placed
<1> QED BY <1>2, <1>6, <1>7, <1>8, <1>9 DEF OwnInv

LEMMA OwnStop ==
    ASSUME IInv, OwnInv, NEW s \in Stops, StopLock(s)
    PROVE  OwnInv'
<1>0. TypeOK /\ Numbered /\ HandAhead /\ QueueAhead /\ DropsApart /\ StartsEmpty /\ Placed
  BY DEF IInv, OwnInv
<1>1. /\ UNCHANGED <<seq, nextSeq, done, attempt, loop>> /\ caller[s].pc = "start"
      /\ s \in Callers /\ s \notin Bangs
  BY SessionAssumption DEF StopLock, loops, provider, entries, Callers
<1>2. CASE state = "idle"
  <2>1. UNCHANGED queue /\ caller' = [caller EXCEPT ![s] = [@ EXCEPT !.pc = "acked", !.at = nextSeq]]
    BY <1>2 DEF StopLock
  <2>2. caller \in [Callers -> CallerRec] /\ caller[s] \in CallerRec
    BY <1>0, <1>1, OwnTypes
  <2>3. /\ caller'[s].todo = caller[s].todo /\ \A c \in Callers : c # s => caller'[c] = caller[c]
        /\ caller'[s].pc = "acked"
    BY <1>1, <2>1, <2>2 DEF CallerRec
  <2> QED BY <1>0, <1>1, <2>1, <2>3, OwnSame DEF SameHands, Callers
<1>3. CASE state # "idle"
  <2>1. queue' = <<>> /\ Capture(s)
    BY <1>3 DEF StopLock, QueueAfterStop
  <2>2. Collects(s)
    BY <1>0, <1>1, <2>1, CaptureCollects
  <2>3. \A j : (InHand(j)' <=> InHand(j)) /\ ~InQueue(j)'
    BY <1>1, <2>1 DEF InHand, InQueue
  <2>4. DropsApart'
    <3>1. \A j \in Inputs : done[j] = "pending" => done'[j] = "pending"
      BY <1>1
    <3>2. \A j \in Inputs : InQueue(j)' => ~InQueue(j) /\ \A d \in Callers : ~ToDrop(d, j)
      BY <2>3
    <3>3. \A j : InHand(j)' <=> InHand(j)
      BY <2>3
    <3> QED BY <1>0, <1>1, <2>2, <3>1, <3>2, <3>3, CollectedApart
  <2>5. Numbered' /\ HandAhead' /\ QueueAhead'
    BY <1>0, <1>1, <2>1 DEF Numbered, HandAhead, QueueAhead
  <2>6. StartsEmpty'
    BY <1>0, <1>1, <2>2 DEF StartsEmpty, Collects, Callers
  <2>7. Placed'
    <3> SUFFICES ASSUME NEW j \in Inputs, done[j] = "pending"
                 PROVE  InHand(j) \/ \E c \in Callers : ToDrop(c, j)'
      BY <1>1, <2>3 DEF Placed
    <3>1. CASE InQueue(j)
      BY <1>1, <2>2, <3>1 DEF InQueue, ToDrop, Collects
    <3>2. ASSUME NEW c \in Callers, ToDrop(c, j) PROVE ToDrop(c, j)'
      <4>1. c # s
        BY <2>2, <3>2 DEF ToDrop, Collects
      <4> QED BY <2>2, <3>2, <4>1 DEF ToDrop, Collects
    <3> QED BY <1>0, <3>1, <3>2 DEF Placed
  <2> QED BY <2>4, <2>5, <2>6, <2>7 DEF OwnInv
<1> QED BY <1>2, <1>3

\* A caller drops the first input of its list.
LEMMA OwnDrop ==
    ASSUME IInv, OwnInv, NEW c \in Callers, DropOne(c)
    PROVE  OwnInv' /\ \A i \in Inputs : done[i] \in Settled => done'[i] = done[i]
<1>0. TypeOK /\ Numbered /\ HandAhead /\ QueueAhead /\ DropsApart /\ StartsEmpty /\ Placed
  BY DEF IInv, OwnInv
<1> DEFINE i == Head(caller[c].todo)
<1>1. /\ UNCHANGED <<seq, nextSeq, queue, attempt, loop>> /\ caller[c].pc = "drop"
      /\ done' = [done EXCEPT ![i] = "interrupted"]
      /\ caller' = [caller EXCEPT ![c].todo = Tail(@)]
  BY DEF DropOne, core, loops, provider
<1>2. /\ caller[c].todo \in Seq(Inputs) /\ caller[c].todo # <<>>
      /\ caller \in [Callers -> CallerRec] /\ caller[c] \in CallerRec
  BY <1>0, OwnTypes DEF DropOne
<1>3. /\ 1 \in DOMAIN caller[c].todo /\ i = caller[c].todo[1] /\ i \in Inputs
      /\ \A n \in DOMAIN Tail(caller[c].todo) : n \in Nat \ {0} /\
            n + 1 \in DOMAIN caller[c].todo /\ Tail(caller[c].todo)[n] = caller[c].todo[n + 1]
      /\ \A n \in DOMAIN caller[c].todo : n \in Nat /\ (n # 1 => n - 1 \in DOMAIN Tail(caller[c].todo))
  BY <1>2
<1>4. /\ caller'[c].todo = Tail(caller[c].todo) /\ caller'[c].pc = "drop"
      /\ \A d \in Callers : d # c => caller'[d] = caller[d]
  BY <1>1, <1>2 DEF CallerRec
<1>5. ~InQueue(i) /\ ~InHand(i) /\ done[i] = "pending"
  BY <1>0, <1>3 DEF DropsApart
<1> HIDE DEF i
<1>6. \A j \in Inputs : done'[j] = IF j = i THEN "interrupted" ELSE done[j]
  BY <1>0, <1>1, <1>3, OwnTypes
<1>7. \A j : (InHand(j)' <=> InHand(j)) /\ (InQueue(j)' <=> InQueue(j))
  BY <1>1 DEF InHand, InQueue
<1>8. Numbered'
  BY <1>0, <1>1, <1>5, <1>6 DEF Numbered
<1>9. QueueAhead'
  BY <1>0, <1>1, <1>5, <1>6, <1>7, OwnTypes DEF QueueAhead, InQueue
<1>10. HandAhead'
  BY <1>0, <1>1, <1>5, <1>6, OwnTypes DEF HandAhead, InHand
<1>11. \A d \in Callers : \A n \in DOMAIN caller'[d].todo : \E m \in DOMAIN caller[d].todo :
          /\ caller'[d].todo[n] = caller[d].todo[m] /\ caller[d].todo[m] # i
          /\ m = IF d = c THEN n + 1 ELSE n
  <2> TAKE d \in Callers
  <2>1. CASE d = c
    <3> TAKE n \in DOMAIN caller'[d].todo
    <3>1. n \in Nat \ {0} /\ n + 1 \in DOMAIN caller[c].todo /\ caller'[c].todo[n] = caller[c].todo[n + 1]
      BY <1>2, <1>3, <1>4, <2>1
    <3>2. n + 1 # 1
      BY <3>1
    <3>3. caller[c].todo[n + 1] # i
      BY <1>0, <1>3, <3>1, <3>2 DEF DropsApart
    <3> QED BY <2>1, <3>1, <3>3
  <2>2. CASE d # c
    BY <1>0, <1>3, <1>4, <2>2 DEF DropsApart
  <2> QED BY <2>1, <2>2
<1>12. DropsApart'
  <2> SUFFICES ASSUME NEW d \in Callers, NEW n \in DOMAIN caller'[d].todo
               PROVE  /\ \A j : j = caller'[d].todo[n] =>
                            done'[j] = "pending" /\ ~InQueue(j)' /\ ~InHand(j)'
                      /\ \A e \in Callers : \A m \in DOMAIN caller'[e].todo :
                            caller'[e].todo[m] = caller'[d].todo[n] => e = d /\ m = n
    BY DEF DropsApart
  <2>1. PICK p \in DOMAIN caller[d].todo :
           /\ caller'[d].todo[n] = caller[d].todo[p] /\ caller[d].todo[p] # i
           /\ p = IF d = c THEN n + 1 ELSE n
    BY <1>11
  <2>2. caller[d].todo[p] \in Inputs
    BY <1>0, OwnTypes
  <2>3. ASSUME NEW e \in Callers, NEW m \in DOMAIN caller'[e].todo,
               caller'[e].todo[m] = caller'[d].todo[n]
        PROVE  e = d /\ m = n
    <3>1. PICK q \in DOMAIN caller[e].todo :
             /\ caller'[e].todo[m] = caller[e].todo[q] /\ q = IF e = c THEN m + 1 ELSE m
      BY <1>11
    <3>2. e = d /\ p = q
      BY <1>0, <2>1, <2>3, <3>1 DEF DropsApart
    <3>3. m \in Nat /\ n \in Nat
      <4>1. \A b \in Callers : caller[b].todo \in Seq(Inputs)
        BY <1>0, OwnTypes
      <4>2. Tail(caller[c].todo) \in Seq(Inputs)
        BY <1>2
      <4>3. \A b \in Callers : caller'[b].todo \in Seq(Inputs)
        BY <1>4, <4>1, <4>2
      <4> QED BY <4>3
    <3> QED BY <2>1, <3>1, <3>2, <3>3
  <2>4. done[caller[d].todo[p]] = "pending" /\ ~InQueue(caller[d].todo[p]) /\ ~InHand(caller[d].todo[p])
    BY <1>0 DEF DropsApart
  <2> QED BY <1>6, <1>7, <2>1, <2>2, <2>3, <2>4
<1>13. StartsEmpty'
  <2>1. \A d \in Callers : caller'[d].pc = "start" => d # c /\ caller'[d] = caller[d]
    BY <1>4
  <2>2. \A j \in Bangs : done'[j] = "new" => done[j] = "new"
    BY <1>6, SessionAssumption
  <2>3. \A j \in Bangs : caller[j].pc = "start" => caller'[j].pc = "start"
    BY <1>1, <1>4 DEF Callers
  <2> QED BY <1>0, <2>1, <2>2, <2>3 DEF StartsEmpty
<1>14. Placed'
  <2> SUFFICES ASSUME NEW j \in Inputs, done[j] = "pending", j # i
               PROVE  InQueue(j) \/ InHand(j) \/ \E d \in Callers : ToDrop(d, j)'
    BY <1>6, <1>7 DEF Placed
  <2>1. ASSUME NEW d \in Callers, ToDrop(d, j) PROVE ToDrop(d, j)'
    <3>1. PICK n \in DOMAIN caller[d].todo : caller[d].todo[n] = j
      BY <2>1 DEF ToDrop
    <3>2. CASE d = c
      <4>1. n # 1 /\ n \in Nat /\ n - 1 \in DOMAIN Tail(caller[c].todo)
        BY <1>3, <3>1, <3>2
      <4>2. Tail(caller[c].todo)[n - 1] = caller[c].todo[(n - 1) + 1] /\ (n - 1) + 1 = n
        BY <1>3, <4>1
      <4> QED BY <1>4, <3>1, <3>2, <4>1, <4>2 DEF ToDrop
    <3>3. CASE d # c
      BY <1>4, <2>1, <3>3 DEF ToDrop
    <3> QED BY <3>2, <3>3
  <2> QED BY <1>0, <2>1 DEF Placed
<1>15. \A j \in Inputs : done[j] \in Settled => done'[j] = done[j]
  BY <1>5, <1>6 DEF Settled
<1> QED BY <1>8, <1>9, <1>10, <1>12, <1>13, <1>14, <1>15 DEF OwnInv

\* The loop takes the first input.
LEMMA OwnTake ==
    ASSUME IInv, OwnInv, NEW l \in Loops, TakeNext(l)
    PROVE  OwnInv'
<1>0. /\ TypeOK /\ OneLoop /\ Numbered /\ HandAhead /\ QueueAhead /\ DropsApart /\ StartsEmpty
      /\ Placed
  BY DEF IInv, OwnInv
<1> DEFINE i == Head(queue)
<1>1. /\ UNCHANGED <<seq, nextSeq, done, attempt, caller>> /\ loop[l].pc = "take"
      /\ loop' = [loop EXCEPT ![l] = LoopAt("opening", i)] /\ queue' = Tail(queue)
  BY DEF TakeNext, At, provider, entries
<1>2. /\ i = queue[1] /\ i \in Inputs /\ 1 \in DOMAIN queue
      /\ \A n \in DOMAIN queue' : /\ n \in Nat \ {0} /\ n + 1 \in DOMAIN queue
                                  /\ queue'[n] = queue[n + 1] /\ queue[n + 1] \in Inputs
      /\ \A n \in DOMAIN queue : n \in Nat /\ (n # 1 => n - 1 \in DOMAIN queue')
  <2>1. queue \in Seq(Inputs) /\ queue # <<>>
    BY <1>0, OwnTypes DEF TakeNext
  <2> QED BY <1>1, <2>1
<1>3. /\ loop'[l].head = i /\ loop'[l].pc = "opening" /\ i # Nobody
      /\ \A m \in Loops : m # l => loop'[m] = loop[m]
      /\ \A m \in Loops : loop[m].head = Nobody
  <2>1. \A m \in Loops : m # l => loop[m].pc = "off"
    BY <1>0, <1>1 DEF OneLoop, AliveLoops, At
  <2>2. \A m \in Loops : loop[m].head = Nobody
    BY <1>0, <1>1, <2>1 DEF HandAhead, Idle
  <2> QED BY <1>0, <1>1, <1>2, <2>2, OwnTypes, SessionAssumption DEF LoopAt
<1> HIDE DEF i
<1>4. \A j \in Inputs : (InHand(j)' <=> j = i) /\ ~InHand(j) /\ (InQueue(j)' => InQueue(j))
  BY <1>2, <1>3, SessionAssumption DEF InHand, InQueue
<1>5. \A n \in DOMAIN queue' : seq[i] < seq[queue'[n]]
  <2> TAKE n \in DOMAIN queue'
  <2>1. n + 1 \in DOMAIN queue /\ 1 < n + 1 /\ queue'[n] = queue[n + 1]
    BY <1>2
  <2> QED BY <1>0, <1>2, <2>1 DEF QueueAhead
<1>6. Numbered' /\ StartsEmpty'
  BY <1>0, <1>1 DEF Numbered, StartsEmpty
<1>7. QueueAhead'
  <2> SUFFICES ASSUME NEW n \in DOMAIN queue' PROVE QueueAhead!(n)'
    BY DEF QueueAhead
  <2>1. n \in Nat /\ n + 1 \in DOMAIN queue /\ queue'[n] = queue[n + 1]
    BY <1>2
  <2>2. ASSUME NEW m \in DOMAIN queue', m < n PROVE seq[queue'[m]] < seq[queue'[n]]
    <3>1. m \in Nat /\ m + 1 \in DOMAIN queue /\ queue'[m] = queue[m + 1] /\ m + 1 < n + 1
      BY <1>2, <2>1, <2>2
    <3> QED BY <1>0, <2>1, <3>1 DEF QueueAhead
  <2>3. ASSUME NEW j \in Inputs, attempt[j] > 0 \/ j = i PROVE seq[j] < seq[queue'[n]]
    BY <1>0, <1>5, <2>1, <2>3 DEF QueueAhead
  <2>4. done[queue'[n]] = "pending"
    BY <1>0, <2>1 DEF QueueAhead
  <2> QED BY <1>1, <1>4, <2>2, <2>3, <2>4
<1>8. HandAhead'
  <2> SUFFICES ASSUME NEW m \in Loops PROVE HandAhead!(m)'
    BY DEF HandAhead
  <2>1. CASE m = l
    <3>1. done[i] = "pending" /\ \A j \in Inputs : attempt[j] > 0 => seq[j] < seq[i]
      BY <1>0, <1>2 DEF QueueAhead
    <3>2. \A j \in Inputs : attempt[j] > 0 => seq[j] <= seq[i]
      <4>1. \A j \in Inputs : seq[j] \in Nat
        BY <1>0, OwnTypes
      <4> QED BY <1>2, <3>1, <4>1
    <3> QED BY <1>1, <1>3, <2>1, <3>1, <3>2 DEF Idle
  <2>2. CASE m # l
    BY <1>0, <1>1, <1>3, <2>2 DEF HandAhead
  <2> QED BY <2>1, <2>2
<1>9. DropsApart'
  <2>1. \A c \in Callers : \A n \in DOMAIN caller[c].todo :
           caller[c].todo[n] \in Inputs /\ caller[c].todo[n] # i
    BY <1>0, <1>2, OwnTypes DEF DropsApart, InQueue
  <2> QED BY <1>0, <1>1, <1>4, <2>1 DEF DropsApart
<1>10. Placed'
  <2> SUFFICES ASSUME NEW j \in Inputs, done[j] = "pending", j # i
               PROVE  InQueue(j)' \/ \E c \in Callers : ToDrop(c, j)
    BY <1>1, <1>4 DEF Placed, ToDrop
  <2>1. CASE InQueue(j)
    <3>1. PICK n \in DOMAIN queue : queue[n] = j
      BY <2>1 DEF InQueue
    <3>2. n # 1 /\ n \in Nat /\ n - 1 \in DOMAIN queue'
      BY <1>2, <3>1
    <3>3. queue'[n - 1] = queue[(n - 1) + 1] /\ (n - 1) + 1 = n
      BY <1>2, <3>2
    <3> QED BY <3>1, <3>2, <3>3 DEF InQueue
  <2> QED BY <1>0, <1>4, <2>1 DEF Placed
<1> QED BY <1>6, <1>7, <1>8, <1>9, <1>10 DEF OwnInv

\* The input in hand is run.
LEMMA OwnStart ==
    ASSUME IInv, OwnInv, NEW l \in Loops, Starts(l), UNCHANGED <<seq, nextSeq, caller>>
    PROVE  OwnInv'
<1>0. /\ TypeOK /\ OneLoop /\ HeadsTyped /\ RetryBound /\ Numbered /\ HandAhead /\ QueueAhead
      /\ DropsApart /\ StartsEmpty /\ Placed
  BY DEF IInv, OwnInv
<1> DEFINE i == loop[l].head
<1>1. /\ StartRun(l, i) /\ UNCHANGED <<queue, done>> /\ i \in Inputs
      /\ loop[l].pc \in {"opening", "resetting", "rechecking"}
  BY <1>0, StartSteps
<1>2. /\ \A m \in Loops : m # l => loop'[m] = loop[m] /\ loop[m].pc = "off"
      /\ loop'[l].head = i /\ loop'[l].pc = "running"
  BY <1>0, <1>1, OwnTypes DEF StartRun, LoopAt, OneLoop, AliveLoops, At
<1>3. \A j \in Inputs : j # i => attempt'[j] = attempt[j]
  BY <1>0, <1>1, OwnTypes DEF StartRun
<1>4. SameHands
  BY <1>1, <1>2 DEF SameHands, Idle
<1>5. InHand(i)
  BY DEF InHand
<1> HIDE DEF i
<1>6. \A j : (InHand(j)' <=> InHand(j)) /\ (InQueue(j)' <=> InQueue(j))
  BY <1>1, <1>4 DEF InHand, InQueue, SameHands
<1>7. Numbered' /\ StartsEmpty' /\ DropsApart'
  BY <1>0, <1>1, <1>6 DEF Numbered, StartsEmpty, DropsApart
<1>8. QueueAhead'
  BY <1>0, <1>1, <1>3, <1>5, <1>6 DEF QueueAhead
<1>9. HandAhead'
  <2> SUFFICES ASSUME NEW m \in Loops PROVE HandAhead!(m)'
    BY DEF HandAhead
  <2>1. CASE m = l
    <3>1. i # Nobody /\ seq[i] \in Nat
      BY <1>0, <1>1, OwnTypes, SessionAssumption
    <3>2. done[i] = "pending" /\ \A j \in Inputs : attempt[j] > 0 => seq[j] <= seq[i]
      BY <1>0, <3>1 DEF HandAhead, i
    <3>3. \A j \in Inputs : attempt'[j] > 0 => seq[j] <= seq[i]
      BY <1>3, <3>1, <3>2
    <3> QED BY <1>1, <1>2, <2>1, <3>1, <3>2, <3>3 DEF Idle
  <2>2. CASE m # l
    <3>1. loop'[m] = loop[m] /\ loop[m].pc = "off" /\ loop[m].head = Nobody
      BY <1>0, <1>2, <2>2 DEF HandAhead, Idle
    <3> QED BY <3>1 DEF Idle
  <2> QED BY <2>1, <2>2
<1>10. Placed'
  <2>1. \A c \in Callers : \A j : ToDrop(c, j)' <=> ToDrop(c, j)
    BY DEF ToDrop
  <2> QED BY <1>0, <1>1, <1>6, <2>1 DEF Placed
<1> QED BY <1>7, <1>8, <1>9, <1>10 DEF OwnInv

\* The input in hand is settled.
LEMMA OwnSettle ==
    ASSUME IInv, OwnInv, NEW l \in Loops, SettleInput(l)
    PROVE  OwnInv' /\ \A i \in Inputs : done[i] \in Settled => done'[i] = done[i]
<1>0. /\ TypeOK /\ OneLoop /\ HeadsTyped /\ Numbered /\ HandAhead /\ QueueAhead
      /\ DropsApart /\ StartsEmpty /\ Placed
  BY DEF IInv, OwnInv
<1> DEFINE i == loop[l].head
           o == loop[l].outcome
<1>1. /\ UNCHANGED <<queue, seq, nextSeq, attempt, caller>> /\ loop[l].pc = "settling"
      /\ done' = [done EXCEPT ![i] = o] /\ loop' = [loop EXCEPT ![l] = LoopAt("take", Nobody)]
  BY DEF SettleInput, At, core, provider
<1>2. i \in Inputs /\ o \in Settled /\ i # Nobody /\ done[i] = "pending"
  <2>1. i \in Inputs /\ o \in Settled
    BY <1>0, <1>1 DEF HeadsTyped, Idle
  <2>2. i # Nobody
    BY <2>1, SessionAssumption
  <2> QED BY <1>0, <2>1, <2>2 DEF HandAhead
<1>3. /\ \A m \in Loops : m # l =>
             loop'[m] = loop[m] /\ loop[m].head = Nobody /\ loop[m].pc = "off"
      /\ loop'[l].head = Nobody /\ loop'[l].pc = "take"
  <2>1. \A m \in Loops : m # l => loop[m].pc = "off"
    BY <1>0, <1>1 DEF OneLoop, AliveLoops, At
  <2>2. \A m \in Loops : m # l => loop[m].head = Nobody
    BY <1>0, <2>1 DEF HandAhead, Idle
  <2> QED BY <1>0, <1>1, <2>1, <2>2, OwnTypes DEF LoopAt
<1>4. InHand(i)
  BY DEF InHand
<1> HIDE DEF i, o
<1>5. \A j \in Inputs : done'[j] = IF j = i THEN o ELSE done[j]
  BY <1>0, <1>1, <1>2, OwnTypes
<1>6. \A j \in Inputs : ~InHand(j)' /\ (InQueue(j)' <=> InQueue(j)) /\ (InHand(j) => j = i)
  BY <1>1, <1>3, SessionAssumption DEF InHand, InQueue, i
<1>7. Numbered' /\ StartsEmpty'
  BY <1>0, <1>1, <1>2, <1>5, SessionAssumption DEF Numbered, StartsEmpty, Settled
<1>8. QueueAhead'
  <2>1. \A n \in DOMAIN queue : queue[n] \in Inputs /\ queue[n] # i
    <3>1. ~(seq[i] < seq[i])
      BY <1>0, <1>2, OwnTypes
    <3> QED BY <1>0, <1>2, <1>4, <3>1, OwnTypes DEF QueueAhead
  <2> QED BY <1>0, <1>1, <1>5, <1>6, <2>1 DEF QueueAhead
<1>9. HandAhead'
  BY <1>3 DEF HandAhead, Idle
<1>10. DropsApart'
  <2>1. \A c \in Callers : \A n \in DOMAIN caller[c].todo :
           /\ caller[c].todo[n] \in Inputs /\ caller[c].todo[n] # i
           /\ done[caller[c].todo[n]] = "pending" /\ ~InQueue(caller[c].todo[n])
    BY <1>0, <1>4, OwnTypes DEF DropsApart
  <2>2. \A c \in Callers : \A n \in DOMAIN caller[c].todo : done'[caller[c].todo[n]] = "pending"
    BY <1>5, <2>1
  <2>3. \A j \in Inputs : ~InHand(j)' /\ (InQueue(j)' <=> InQueue(j))
    BY <1>6
  <2> QED BY <1>0, <1>1, <2>1, <2>2, <2>3 DEF DropsApart
<1>11. Placed'
  <2>1. \A c \in Callers : \A j : ToDrop(c, j)' <=> ToDrop(c, j)
    BY <1>1 DEF ToDrop
  <2>2. \A j \in Inputs : done'[j] = "pending" => done[j] = "pending" /\ j # i
    BY <1>2, <1>5 DEF Settled
  <2> QED BY <1>0, <1>6, <2>1, <2>2 DEF Placed
<1>12. \A j \in Inputs : done[j] \in Settled => done'[j] = done[j]
  BY <1>2, <1>5 DEF Settled
<1> QED BY <1>7, <1>8, <1>9, <1>10, <1>11, <1>12 DEF OwnInv

\* Every other step of a loop keeps what it has in hand.
LEMMA OwnLoopSame ==
    ASSUME IInv, OwnInv, NEW l \in Loops, InTurn(l) \/ FinishTurn(l) \/ LoopEnds(l)
    PROVE  OwnInv' /\ UNCHANGED done
<1>0. TypeOK /\ HeadsTyped /\ RetryBound /\ HandAhead
  BY DEF IInv, OwnInv
<1>1. UNCHANGED <<seq, nextSeq, caller>>
  BY DEF InTurn, TurnCancelled, TurnSucceeds, TurnThrows, TurnFails, ResetAnnounced, LoopCrashes,
         ProviderEnds, IteratorEnds, FinishTurn, LoopEnds, entries
<1>2. UNCHANGED <<queue, done, attempt>> /\ SameHands
  <2>1. loop \in [Loops -> LoopRec] /\ loop[l] \in LoopRec
    BY <1>0, OwnTypes
  <2>2. CASE InTurn(l)
    <3>1. PICK r : InTurnTo(l, r)
      BY <1>0, <2>2, InTurnSteps
    <3> QED BY <2>1, <3>1 DEF InTurnTo, SameHands, Idle
  <2>3. CASE FinishTurn(l)
    BY <2>1, <2>3 DEF FinishTurn, At, LoopRec, SameHands, Idle, provider, entries
  <2>4. CASE LoopEnds(l)
    <3>1. loop[l].head = Nobody /\ loop[l].pc = "take"
      BY <1>0, <2>4 DEF LoopEnds, At, HandAhead, Idle
    <3> QED BY <2>1, <2>4, <3>1 DEF LoopEnds, LoopAt, SameHands, Idle, provider, entries
  <2> QED BY <2>2, <2>3, <2>4
<1>3. \A c \in Callers : caller'[c] = caller[c]
  BY <1>1
<1> QED BY <1>0, <1>1, <1>2, <1>3, OwnSame DEF Callers

\* A caller that goes on after the lock moves no input.
LEMMA OwnCallerSame ==
    ASSUME IInv, OwnInv, NEW c \in Callers, CallerStep(c), ~DropOne(c)
    PROVE  OwnInv' /\ UNCHANGED done
<1>0. TypeOK
  BY DEF IInv
<1>1. UNCHANGED <<queue, seq, nextSeq, done, attempt, loop>>
  BY DEF CallerStep, CancelPending, NothingToInterrupt, InterruptInput, InterruptOk,
         InterruptFails, InterruptAnswered, core, loops, provider, entries
<1>2. caller \in [Callers -> CallerRec] /\ caller[c] \in CallerRec
  BY <1>0, OwnTypes
<1>3. PICK pc \in CallerPcs \ {"start"} :
         \/ \E w : caller' = [caller EXCEPT ![c] = [@ EXCEPT !.pc = pc, !.waitFor = w]]
         \/ caller' = [caller EXCEPT ![c].pc = pc]
  <2>1. CASE InterruptInput(c)
    <3> DEFINE r == interruption[caller[c].target]
               pc == IF r = Nobody THEN "threw"
                     ELSE IF request[r] = "asked" THEN "dispatching" ELSE "awaiting"
    <3>1. pc \in CallerPcs \ {"start"}
      BY DEF CallerPcs
    <3>2. caller' = [caller EXCEPT ![c] = [@ EXCEPT !.pc = pc, !.waitFor = r]]
      BY <1>2, <2>1 DEF InterruptInput, CallerRec
    <3> HIDE DEF pc, r
    <3> QED BY <3>1, <3>2
  <2>2. CASE ~InterruptInput(c)
    BY <2>2 DEF CallerStep, CancelPending, NothingToInterrupt, InterruptOk, InterruptFails,
                InterruptAnswered, Return, CallerPcs
  <2> QED BY <2>1, <2>2
<1>4. caller[c].pc # "start"
  BY DEF CallerStep, CancelPending, NothingToInterrupt, InterruptInput, InterruptOk,
         InterruptFails, InterruptAnswered
<1>5. /\ \A d \in Callers : d # c => caller'[d] = caller[d]
      /\ \/ \E w : caller'[c] = [caller[c] EXCEPT !.pc = pc, !.waitFor = w]
         \/ caller'[c] = [caller[c] EXCEPT !.pc = pc]
  BY <1>2, <1>3
<1>6. caller'[c].todo = caller[c].todo /\ caller'[c].pc # "start"
  <2>1. CASE \E w : caller'[c] = [caller[c] EXCEPT !.pc = pc, !.waitFor = w]
    BY <1>2, <1>3, <2>1 DEF CallerRec
  <2>2. CASE caller'[c] = [caller[c] EXCEPT !.pc = pc]
    BY <1>2, <1>3, <2>2 DEF CallerRec
  <2> QED BY <1>5, <2>1, <2>2
<1>7. \A d \in Callers :
         /\ caller'[d].todo = caller[d].todo
         /\ caller'[d].pc = "start" => caller[d].pc = "start"
         /\ caller[d].pc = "start" => caller'[d].pc = "start"
  BY <1>4, <1>5, <1>6
<1>8. SameHands
  BY <1>1 DEF SameHands
<1>9. \A i \in Bangs : caller[i].pc = "start" => caller'[i].pc = "start"
  BY <1>7 DEF Callers
<1> QED BY <1>0, <1>1, <1>7, <1>8, <1>9, OwnSame

\* No step loses an input, doubles it, or settles it twice.
LEMMA OwnStep ==
    ASSUME IInv, OwnInv, [Next]_vars
    PROVE  OwnInv' /\ \A i \in Inputs : done[i] \in Settled => done'[i] = done[i]
<1>0. TypeOK
  BY DEF IInv
<1>1. ASSUME NEW i \in Inputs, SubmitRun(i) \/ SubmitBang(i)
      PROVE  OwnInv' /\ \A j \in Inputs : done[j] \in Settled => done'[j] = done[j]
  <2>1. done[i] = "new" /\ done' = [done EXCEPT ![i] = "pending"]
    BY <1>1 DEF SubmitRun, SubmitBang, NewEntry
  <2>2. \A j \in Inputs : done[j] \in Settled => done'[j] = done[j]
    BY <1>0, <2>1, OwnTypes DEF Settled
  <2> QED BY <1>1, <2>2, OwnSubmitRun, OwnSubmitBang
<1>2. ASSUME NEW s \in Stops, StopLock(s) PROVE OwnInv' /\ UNCHANGED done
  BY <1>2, OwnStop DEF StopLock, entries
<1>3. ASSUME NEW c \in Callers, CallerStep(c)
      PROVE  OwnInv' /\ \A i \in Inputs : done[i] \in Settled => done'[i] = done[i]
  BY <1>3, OwnDrop, OwnCallerSame
<1>4. ASSUME NEW l \in Loops, LoopStep(l) \/ ProviderEnds(l)
      PROVE  OwnInv' /\ \A i \in Inputs : done[i] \in Settled => done'[i] = done[i]
  <2>1. CASE TakeNext(l)
    BY <2>1, OwnTake DEF TakeNext, entries
  <2>2. CASE Starts(l)
    BY <2>2, OwnStart DEF Starts, StartProvider, RetryAfterRefusal, ResetAnnounced, entries
  <2>3. CASE SettleInput(l)
    BY <2>3, OwnSettle
  <2>4. CASE InTurn(l) \/ FinishTurn(l) \/ LoopEnds(l)
    BY <2>4, OwnLoopSame
  <2> QED BY <1>4, <2>1, <2>2, <2>3, <2>4 DEF LoopStep, InTurn, Starts
<1>5. CASE UNCHANGED <<queue, seq, nextSeq, done, attempt, loop, caller>>
  BY <1>0, <1>5, OwnSame DEF SameHands
<1>6. ASSUME NEW k \in Calls, CallStep(k) \/ \E i \in Inputs : ToolCalled(k, i)
      PROVE  UNCHANGED <<queue, seq, nextSeq, done, attempt, loop, caller>>
  BY <1>6 DEF CallStep, ToolCalled, EnterAwaiting, LeaveAwaiting, CardPosted, CardAnswered,
              ApplyAllowTurn, core, loops, provider, entries
<1>7. ASSUME NEW l \in Loops, CaptureSession(l)
      PROVE  UNCHANGED <<queue, seq, nextSeq, done, attempt, loop, caller>>
  BY <1>7 DEF CaptureSession, core, loops, entries
<1>8. CASE AwaitMessage \/ UNCHANGED vars
  BY <1>5, <1>8 DEF AwaitMessage, vars, core, loops, provider, entries
<1> QED BY <1>1, <1>2, <1>3, <1>4, <1>5, <1>6, <1>7, <1>8 DEF Next, UserStep

LEMMA OwnInit == Init => OwnInv
<1> SUFFICES ASSUME Init PROVE OwnInv
  OBVIOUS
<1>1. Numbered /\ QueueAhead /\ DropsApart /\ Placed
  BY DEF Init, Numbered, QueueAhead, DropsApart, Placed
<1>2. HandAhead
  BY DEF Init, HandAhead, LoopAt, Idle
<1>3. StartsEmpty
  BY DEF Init, StartsEmpty, Callers
<1> QED BY <1>1, <1>2, <1>3 DEF OwnInv

\* Every submitted input is in one place, and the places are in order of submission.
LEMMA OwnInvariance == Spec => [](IInv /\ OwnInv)
<1>1. Init => IInv /\ OwnInv
  BY InitIInv, OwnInit
<1>2. IInv /\ OwnInv /\ [Next]_vars => IInv' /\ OwnInv'
  BY NextIInv, OwnStep
<1> QED BY <1>1, <1>2, PTL DEF Spec

\* Turns run in the order of submission: when an input has been given to the provider, every
\* earlier one is settled, or a stop or a bang is about to drop it.
THEOREM TurnsAlwaysInOrder == Spec => []TurnsInOrder
<1>1. IInv /\ OwnInv => TurnsInOrder
  <2> SUFFICES ASSUME IInv, OwnInv, NEW i \in Inputs, NEW j \in Inputs,
                      attempt[i] > 0, seq[j] > 0, seq[j] < seq[i], done[j] \notin Settled
               PROVE  j \in Dropping
    BY DEF TurnsInOrder
  <2>1. TypeOK /\ Numbered /\ QueueAhead /\ HandAhead /\ Placed
    BY DEF IInv, OwnInv
  <2>2. seq[i] \in Nat /\ seq[j] \in Nat
    BY <2>1, OwnTypes
  <2>3. done[j] = "pending"
    BY <2>1, <2>2, OwnTypes DEF Numbered
  <2>4. ~InQueue(j)
    BY <2>1, <2>2 DEF InQueue, QueueAhead
  <2>5. ~InHand(j)
    BY <2>1, <2>2, SessionAssumption DEF InHand, HandAhead
  <2>6. PICK c \in Callers : ToDrop(c, j)
    BY <2>1, <2>3, <2>4, <2>5 DEF Placed
  <2> QED BY <2>6 DEF ToDrop, Dropping
<1> QED BY <1>1, OwnInvariance, PTL

\* What an input was settled with stays: a dropped input is not resolved later and an
\* interrupted turn does not turn into a success.
THEOREM AlwaysSettledOnce == Spec => SettledOnce
<1>1. IInv /\ OwnInv /\ [Next]_vars =>
         [\A i \in Inputs : done[i] \in Settled => done'[i] = done[i]]_vars
  BY OwnStep
<1> QED BY <1>1, OwnInvariance, PTL DEF Spec, SettledOnce

\* The invariant leaves room for one place only.
LEMMA OnePlace ==
    ASSUME IInv, OwnInv, NEW i \in Inputs
    PROVE  /\ InQueue(i) => done[i] = "pending" /\ ~InHand(i)
           /\ InHand(i) => done[i] = "pending"
           /\ \A c \in Callers : ToDrop(c, i) => done[i] = "pending" /\ ~InHand(i) /\ ~InQueue(i)
           /\ \A m, n \in DOMAIN queue : queue[m] = i /\ queue[n] = i => m = n
           /\ \A l, m \in Loops : loop[l].head = i /\ loop[m].head = i => l = m
           /\ \A c, d \in Callers : \A n \in DOMAIN caller[c].todo : \A m \in DOMAIN caller[d].todo :
                 caller[c].todo[n] = i /\ caller[d].todo[m] = i => d = c /\ m = n
<1>0. TypeOK /\ OneLoop /\ QueueAhead /\ HandAhead /\ DropsApart
  BY DEF IInv, OwnInv
<1>1. seq[i] \in Nat /\ i # Nobody /\ \A n \in DOMAIN queue : n \in Nat
  BY <1>0, OwnTypes, SessionAssumption
<1>2. InQueue(i) => done[i] = "pending" /\ ~InHand(i)
  BY <1>0, <1>1 DEF InQueue, QueueAhead
<1>3. InHand(i) => done[i] = "pending"
  BY <1>0, <1>1 DEF InHand, HandAhead
<1>4. \A c \in Callers : ToDrop(c, i) => done[i] = "pending" /\ ~InHand(i) /\ ~InQueue(i)
  BY <1>0 DEF ToDrop, DropsApart
<1>5. ASSUME NEW m \in DOMAIN queue, NEW n \in DOMAIN queue, queue[m] = i, queue[n] = i
      PROVE  m = n
  <2>1. (m < n => seq[i] < seq[i]) /\ (n < m => seq[i] < seq[i])
    BY <1>0, <1>5 DEF QueueAhead
  <2> QED BY <1>1, <2>1
<1>6. ASSUME NEW l \in Loops, NEW m \in Loops, loop[l].head = i, loop[m].head = i
      PROVE  l = m
  BY <1>0, <1>1, <1>6 DEF HandAhead, Idle, OneLoop, AliveLoops, At
<1>7. \A c, d \in Callers : \A n \in DOMAIN caller[c].todo : \A m \in DOMAIN caller[d].todo :
         caller[c].todo[n] = i /\ caller[d].todo[m] = i => d = c /\ m = n
  BY <1>0 DEF DropsApart
<1> QED BY <1>2, <1>3, <1>4, <1>5, <1>6, <1>7

\* The places of an input that OwnedOnce counts.
Queued(i) == {<<"queue", n>> : n \in {m \in DOMAIN queue : queue[m] = i}}
Doomed(i) == UNION {{<<c, n>> : n \in {m \in DOMAIN caller[c].todo : caller[c].todo[m] = i}}
                      : c \in Callers}
Held(i)   == {<<l, 0>> : l \in {m \in Loops : loop[m].head = i}}
Ended(i)  == {<<d, 0>> : d \in {done[i]} \cap Settled}
Places(i) == Queued(i) \cup Doomed(i) \cup Held(i) \cup Ended(i)

LEMMA PlacesCounted ==
    ASSUME IInv, OwnInv, NEW i \in Inputs
    PROVE  Cardinality(Places(i)) = IF done[i] = "new" THEN 0 ELSE 1
<1> DEFINE Q == Queued(i)
           D == Doomed(i)
           L == Held(i)
           S == Ended(i)
           places == Q \cup D \cup L \cup S
<1>0. TypeOK /\ Placed /\ NewIsFresh /\ DropsApart
  BY DEF IInv, OwnInv
<1>1. /\ Q # {} <=> InQueue(i)
      /\ \A x, y \in Q : x = y
  <2>1. \A x \in Q : \E n \in DOMAIN queue : x = <<"queue", n>> /\ queue[n] = i
    BY DEF Queued
  <2>2. \A n \in DOMAIN queue : queue[n] = i => <<"queue", n>> \in Q
    BY DEF Queued
  <2> HIDE DEF Q
  <2> QED BY <2>1, <2>2, OnePlace DEF InQueue
<1>2. /\ D # {} <=> \E c \in Callers : ToDrop(c, i)
      /\ \A x, y \in D : x = y
  <2>1. \A x \in D : \E c \in Callers : \E n \in DOMAIN caller[c].todo :
           x = <<c, n>> /\ caller[c].todo[n] = i
    BY DEF Doomed
  <2>2. \A c \in Callers : \A n \in DOMAIN caller[c].todo : caller[c].todo[n] = i => <<c, n>> \in D
    BY DEF Doomed
  <2> HIDE DEF D
  <2>3. D # {} <=> \E c \in Callers : ToDrop(c, i)
    BY <2>1, <2>2 DEF ToDrop
  <2>4. ASSUME NEW x \in D, NEW y \in D PROVE x = y
    <3>1. PICK c \in Callers : \E n \in DOMAIN caller[c].todo :
             x = <<c, n>> /\ caller[c].todo[n] = i
      BY <2>1
    <3>2. PICK d \in Callers : \E n \in DOMAIN caller[d].todo :
             y = <<d, n>> /\ caller[d].todo[n] = i
      BY <2>1
    <3> QED BY <3>1, <3>2, OnePlace
  <2> QED BY <2>3, <2>4
<1>3. /\ L # {} <=> InHand(i)
      /\ \A x, y \in L : x = y
  <2>1. \A x \in L : \E l \in Loops : x = <<l, 0>> /\ loop[l].head = i
    BY DEF Held
  <2>2. \A l \in Loops : loop[l].head = i => <<l, 0>> \in L
    BY DEF Held
  <2>3. \A l, m \in Loops : loop[l].head = i /\ loop[m].head = i => l = m
    BY OnePlace
  <2> HIDE DEF L
  <2> QED BY <2>1, <2>2, <2>3 DEF InHand
<1>4. /\ S # {} <=> done[i] \in Settled
      /\ \A x, y \in S : x = y
  BY DEF Ended
<1> HIDE DEF Q, D, L, S
<1>5. /\ \A x, y \in places : x = y
      /\ places # {} <=> done[i] # "new"
  <2>1. done[i] \in Settled \cup {"new", "pending"}
    BY <1>0, OwnTypes
  <2>2. done[i] = "pending" => places # {}
    BY <1>0, <1>1, <1>2, <1>3 DEF Placed
  <2>3. done[i] = "new" => places = {}
    BY <1>1, <1>2, <1>3, <1>4, OnePlace DEF Settled
  <2>4. done[i] \in Settled => places = S /\ S # {}
    BY <1>1, <1>2, <1>3, <1>4, OnePlace DEF Settled
  <2>5. done[i] = "pending" => S = {}
    BY <1>4 DEF Settled
  <2>6. \A x, y \in Q \cup D \cup L : x = y
    BY <1>1, <1>2, <1>3, OnePlace
  <2> QED BY <1>4, <2>1, <2>2, <2>3, <2>4, <2>5, <2>6 DEF Settled
<1>6. Cardinality(places) = IF done[i] = "new" THEN 0 ELSE 1
  <2> HIDE DEF places
  <2>1. CASE done[i] = "new"
    BY <1>5, <2>1, FS_EmptySet
  <2>2. CASE done[i] # "new"
    <3>1. PICK x : x \in places
      BY <1>5, <2>2
    <3>2. places = {x}
      BY <1>5, <3>1
    <3> QED BY <2>2, <3>2, FS_Singleton
  <2> QED BY <2>1, <2>2
<1> QED BY <1>6 DEF Q, D, L, S, Places

\* A submitted input is in exactly one place: once in the queue, in the drop list of one stop
\* or bang, in the hands of the loop, or settled.
THEOREM AlwaysOwnedOnce == Spec => []OwnedOnce
<1>1. IInv /\ OwnInv => OwnedOnce
  BY PlacesCounted DEF OwnedOnce, Places, Queued, Doomed, Held, Ended
<1> QED BY <1>1, OwnInvariance, PTL

----------------------------------------------------------------------------
(* A cancellation hits what it was asked for.                              *)

\* A request whose interrupt has not failed.
Open == {"asked", "dispatched", "settled"}

\* The record on an input belongs to a caller that captured it, and the other way round.
Asked ==
    /\ \A c \in Callers : caller[c].pc = "start" =>
          caller[c].target = Nobody /\ caller[c].at = 0 /\ request[c] = "none"
    /\ \A c \in Callers : caller[c].target # Nobody =>
          attempt[caller[c].target] > 0 /\ seq[caller[c].target] < caller[c].at
    /\ \A i \in Inputs : interruption[i] # Nobody =>
          caller[interruption[i]].target = i /\ request[interruption[i]] \in Open
    /\ \A c \in Callers : request[c] \in Open =>
          caller[c].target \in Inputs /\ interruption[caller[c].target] = c

\* Who waits, waits for a caller with the same target, and one of them dispatches.
Waits == \A c \in Callers :
    /\ caller[c].pc \in {"start", "cancel", "drop"} => caller[c].waitFor = Nobody
    /\ caller[c].pc \in {"dispatching", "awaiting"} => caller[c].waitFor # Nobody
    /\ caller[c].waitFor # Nobody =>
          /\ caller[caller[c].waitFor].target = caller[c].target
          /\ request[caller[c].waitFor] \notin {"none", "asked"}
    /\ caller[c].pc = "dispatching" =>
          /\ request[caller[c].waitFor] = "dispatched"
          /\ \A d \in Callers : caller[d].pc = "dispatching" /\ caller[d].waitFor = caller[c].waitFor
                                => d = c

\* The interruption of i is done.
Stopped(i) == interruption[i] # Nobody /\ request[interruption[i]] = "settled"

\* The loop judges by a request for the input it has.
LoopWaits(l) ==
    /\ loop[l].pc \in {"judging", "rechecking"} /\ loop[l].waitFor # Nobody =>
          /\ caller[loop[l].waitFor].target = loop[l].head
          /\ request[loop[l].waitFor] # "none"
    /\ loop[l].pc = "rechecking" =>
          /\ loop[l].waitFor # Nobody
          /\ request[loop[l].waitFor] = "refused" => interruption[loop[l].head] = Nobody
    /\ loop[l].pc \in {"finishing", "settling"} /\ loop[l].outcome = "interrupted" =>
          Stopped(loop[l].head)
LoopsWait == \A l \in Loops : LoopWaits(l)

\* What is dropped was submitted earlier and never run.
DropsFresh == \A c \in Callers : \A n \in DOMAIN caller[c].todo :
    attempt[caller[c].todo[n]] = 0 /\ seq[caller[c].todo[n]] < caller[c].at

AckedStopped == \A s \in Stops :
    caller[s].pc = "acked" /\ caller[s].target # Nobody => Stopped(caller[s].target)

AskInv == Asked /\ Waits /\ LoopsWait /\ DropsFresh /\ AckedStopped /\ CancellationIsAsked

LEMMA AskTypes ==
    ASSUME TypeOK
    PROVE  /\ Nobody \notin Callers /\ Nobody \notin Inputs
           /\ \A c \in Callers : /\ caller[c] \in CallerRec
                                 /\ caller[c].target \in Inputs \cup {Nobody}
                                 /\ caller[c].waitFor \in Callers \cup {Nobody}
                                 /\ caller[c].at \in Nat
           /\ \A i \in Inputs : interruption[i] \in Callers \cup {Nobody}
           /\ request \in [Callers -> {"none", "asked", "dispatched", "settled", "refused"}]
           /\ \A l \in Loops : loop[l] \in LoopRec /\ loop[l].waitFor \in Callers \cup {Nobody}
           /\ run \in [Inputs -> {"none", "live", "aborted", "over"}]
<1>1. Nobody \notin Callers /\ Nobody \notin Inputs
  BY SessionAssumption DEF Callers
<1>2. \A c \in Callers : /\ caller[c] \in CallerRec
                        /\ caller[c].target \in Inputs \cup {Nobody}
                        /\ caller[c].waitFor \in Callers \cup {Nobody}
                        /\ caller[c].at \in Nat
  <2> TAKE c \in Callers
  <2>1. caller[c] \in CallerRec
    BY DEF TypeOK
  <2> QED BY <2>1 DEF CallerRec
<1>3. \A l \in Loops : loop[l] \in LoopRec /\ loop[l].waitFor \in Callers \cup {Nobody}
  <2> TAKE l \in Loops
  <2>1. loop[l] \in LoopRec
    BY DEF TypeOK
  <2> QED BY <2>1 DEF LoopRec
<1>4. /\ \A i \in Inputs : interruption[i] \in Callers \cup {Nobody}
      /\ request \in [Callers -> {"none", "asked", "dispatched", "settled", "refused"}]
      /\ run \in [Inputs -> {"none", "live", "aborted", "over"}]
  BY DEF TypeOK
<1> QED BY <1>1, <1>2, <1>3, <1>4

\* What a caller captured stays, once it has the lock.
Kept == \A c \in Callers : caller[c].pc # "start" =>
    /\ caller'[c].target = caller[c].target
    /\ caller'[c].at = caller[c].at
    /\ caller'[c].handle = caller[c].handle

\* An interruption that is done stays done.
StoppedStays == \A i \in Inputs : Stopped(i) => Stopped(i)'

\* A verdict so far stays true: that an input was interrupted.
LEMMA VerdictStays ==
    ASSUME TypeOK, Asked, InterruptedWasAsked, Kept, StoppedStays,
           NEW i \in Inputs, done[i] = "interrupted", seq'[i] = seq[i], attempt'[i] = attempt[i]
    PROVE  InterruptedWasAsked!(i)'
<1>1. PICK c \in Callers : /\ caller[c].at > seq[i]
                           /\ attempt[i] = 0 \/ (caller[c].target = i /\ Stopped(i))
  BY DEF InterruptedWasAsked, Stopped
<1>2. caller[c].pc # "start"
  <2>1. seq[i] \in Nat
    BY OwnTypes
  <2> QED BY <1>1, <2>1 DEF Asked
<1>3. /\ caller'[c].at > seq'[i]
      /\ attempt'[i] = 0 \/ (caller'[c].target = i /\ Stopped(i)')
  BY <1>1, <1>2 DEF Kept, StoppedStays
<1> QED BY <1>3 DEF Stopped

\* And that a run was aborted.
LEMMA AbortStays ==
    ASSUME TypeOK, Asked, AbortedWasTargeted, Kept,
           NEW i \in Inputs, run[i] = "aborted", attempt'[i] = attempt[i]
    PROVE  AbortedWasTargeted!(i)'
<1>1. PICK c \in Callers : caller[c].target = i /\ caller[c].handle = attempt[i]
  BY DEF AbortedWasTargeted
<1>2. caller[c].pc # "start"
  BY <1>1, AskTypes DEF Asked
<1> QED BY <1>1, <1>2 DEF Kept

\* The verdicts of a step that gives none.
LEMMA VerdictsStay ==
    ASSUME TypeOK, Asked, CancellationIsAsked, Kept, StoppedStays,
           \A i \in Inputs : done'[i] = "interrupted" =>
                /\ done[i] = "interrupted"
                /\ seq'[i] = seq[i] /\ attempt'[i] = attempt[i],
           \A i \in Inputs : run'[i] = "aborted" => run[i] = "aborted" /\ attempt'[i] = attempt[i]
    PROVE  CancellationIsAsked'
<1>0. InterruptedWasAsked /\ AbortedWasTargeted
  BY DEF CancellationIsAsked
<1>1. ASSUME NEW i \in Inputs, done'[i] = "interrupted" PROVE InterruptedWasAsked!(i)'
  BY <1>0, <1>1, VerdictStays
<1>2. ASSUME NEW i \in Inputs, run'[i] = "aborted" PROVE AbortedWasTargeted!(i)'
  BY <1>0, <1>2, AbortStays
<1> QED BY <1>1, <1>2 DEF CancellationIsAsked, InterruptedWasAsked, AbortedWasTargeted

\* A loop that goes on as before still judges by a request for its input.
LEMMA LoopsWaitOn ==
    ASSUME TypeOK, Asked, LoopsWait, Kept, StoppedStays,
           \A l \in Loops : loop'[l] = loop[l] \/ loop'[l].pc = "take",
           \A c \in Callers : request[c] # "none" => request'[c] # "none",
           \A l \in Loops : loop[l].pc = "rechecking" /\ request'[loop[l].waitFor] = "refused"
                            => interruption'[loop[l].head] = Nobody,
           \A l \in Loops : loop[l].pc \in {"finishing", "settling"} => loop[l].head \in Inputs
    PROVE  LoopsWait'
<1> SUFFICES ASSUME NEW l \in Loops PROVE LoopWaits(l)'
  BY DEF LoopsWait
<1>1. CASE loop'[l].pc = "take"
  BY <1>1 DEF LoopWaits
<1>2. CASE loop'[l] = loop[l]
  <2>1. LoopWaits(l) /\ loop[l].waitFor \in Callers \cup {Nobody}
    BY AskTypes DEF LoopsWait
  <2>2. ASSUME loop[l].pc \in {"judging", "rechecking"}, loop[l].waitFor # Nobody
        PROVE  /\ caller'[loop[l].waitFor].target = loop[l].head
               /\ request'[loop[l].waitFor] # "none"
    BY <2>1, <2>2 DEF LoopWaits, Asked, Kept
  <2>3. loop[l].pc \in {"finishing", "settling"} /\ loop[l].outcome = "interrupted"
        => Stopped(loop[l].head)'
    BY <1>2, <2>1 DEF LoopWaits, Stopped, StoppedStays
  <2> QED BY <1>2, <2>1, <2>2, <2>3 DEF LoopWaits
<1> QED BY <1>1, <1>2

\* A caller that goes on keeps what it captured.
Moves(c) ==
    /\ \A d \in Callers : d # c => caller'[d] = caller[d]
    /\ caller'[c].target = caller[c].target /\ caller'[c].at = caller[c].at
    /\ caller'[c].handle = caller[c].handle /\ caller'[c].todo = caller[c].todo

LEMMA MoveTo ==
    ASSUME TypeOK, NEW c \in Callers, NEW pc,
           caller' = [caller EXCEPT ![c].pc = pc]
    PROVE  Moves(c) /\ caller'[c].pc = pc /\ caller'[c].waitFor = caller[c].waitFor
<1>1. caller \in [Callers -> CallerRec] /\ caller[c] \in CallerRec
  BY OwnTypes
<1> QED BY <1>1 DEF Moves, CallerRec

LEMMA MoveWaiting ==
    ASSUME TypeOK, NEW c \in Callers, NEW pc, NEW w,
           caller' = [caller EXCEPT ![c] = [@ EXCEPT !.waitFor = w, !.pc = pc]]
    PROVE  Moves(c) /\ caller'[c].pc = pc /\ caller'[c].waitFor = w
<1>1. caller \in [Callers -> CallerRec] /\ caller[c] \in CallerRec
  BY OwnTypes
<1> QED BY <1>1 DEF Moves, CallerRec

\* What every step of a caller after the lock leaves alone.
LEMMA MovesKeep ==
    ASSUME TypeOK, HeadsTyped, AskInv, NEW c \in Callers, Moves(c), caller[c].pc # "start",
           caller'[c].pc # "start", UNCHANGED <<seq, attempt, done, loop>>
    PROVE  /\ Kept /\ DropsFresh'
           /\ \A l \in Loops : loop[l].pc \in {"finishing", "settling"} => loop[l].head \in Inputs
           /\ \A d \in Callers : /\ caller'[d].target = caller[d].target
                                 /\ caller'[d].at = caller[d].at
                                 /\ caller'[d].pc = "start" <=> caller[d].pc = "start"
                                 /\ d # c => caller'[d] = caller[d]
<1>1. Kept
  BY DEF Moves, Kept
<1>2. \A d \in Callers : caller'[d].todo = caller[d].todo /\ caller'[d].at = caller[d].at
  BY DEF Moves
<1>3. DropsFresh'
  BY <1>2 DEF AskInv, DropsFresh
<1>4. \A l \in Loops : loop[l].pc \in {"finishing", "settling"} => loop[l].head \in Inputs
  BY DEF HeadsTyped, Idle
<1> QED BY <1>1, <1>3, <1>4 DEF Moves

\* The steps of a caller that touch no request.
LEMMA AskMove ==
    ASSUME IInv, OwnInv, AskInv, NEW c \in Callers,
           CancelPending(c) \/ NothingToInterrupt(c) \/ InterruptAnswered(c)
    PROVE  AskInv'
<1>0. /\ TypeOK /\ HeadsTyped /\ Asked /\ Waits /\ LoopsWait /\ AckedStopped /\ CancellationIsAsked
      /\ UNCHANGED <<seq, attempt, done, loop, interruption, request, run>>
  BY DEF IInv, AskInv, CancelPending, NothingToInterrupt, InterruptAnswered, loops, provider,
         entries, interrupts
<1> DEFINE Goes(pc) ==
             /\ caller' = [caller EXCEPT ![c].pc = pc]
             /\ pc \in {"drop", "acked", "returned", "threw"}
             /\ pc = "drop" => caller[c].pc = "cancel"
             /\ pc = "acked" => \/ caller[c].target = Nobody
                                \/ caller[c].pc = "awaiting" /\ request[caller[c].waitFor] = "settled"
<1>1. PICK pc : Goes(pc)
  <2>1. CASE CancelPending(c)
    <3>1. Goes("drop")
      BY <2>1 DEF CancelPending
    <3> HIDE DEF Goes
    <3> QED BY <3>1
  <2>2. CASE NothingToInterrupt(c)
    BY <2>2 DEF NothingToInterrupt, Return
  <2>3. CASE InterruptAnswered(c)
    <3>1. CASE c \in Stops /\ request[caller[c].waitFor] = "refused"
      BY <2>3, <3>1 DEF InterruptAnswered
    <3>2. CASE ~(c \in Stops /\ request[caller[c].waitFor] = "refused")
      BY <2>3, <3>2 DEF InterruptAnswered, Return, Answered
    <3> QED BY <3>1, <3>2
  <2> QED BY <2>1, <2>2, <2>3
<1>2. /\ Moves(c) /\ caller'[c].pc = pc /\ caller'[c].waitFor = caller[c].waitFor
      /\ caller[c].pc \in {"cancel", "drop", "awaiting"}
  BY <1>0, <1>1, MoveTo DEF CancelPending, NothingToInterrupt, InterruptAnswered
<1>3. /\ Kept /\ DropsFresh'
      /\ \A l \in Loops : loop[l].pc \in {"finishing", "settling"} => loop[l].head \in Inputs
      /\ \A d \in Callers : /\ caller'[d].target = caller[d].target
                            /\ caller'[d].at = caller[d].at
                            /\ caller'[d].pc = "start" <=> caller[d].pc = "start"
                            /\ d # c => caller'[d] = caller[d]
  BY <1>0, <1>1, <1>2, MovesKeep
<1>4. StoppedStays
  BY <1>0 DEF StoppedStays, Stopped
<1>5. Asked'
  BY <1>0, <1>3, AskTypes DEF Asked
<1>6. Waits'
  <2> SUFFICES ASSUME NEW d \in Callers PROVE Waits!(d)'
    BY DEF Waits
  <2>1. \A e \in Callers : /\ caller'[e].waitFor = caller[e].waitFor
                           /\ caller'[e].pc = "dispatching" => caller[e].pc = "dispatching"
                           /\ e # c => caller'[e].pc = caller[e].pc
    BY <1>1, <1>2, <1>3
  <2>2. caller[d].waitFor \in Callers \cup {Nobody} /\ Waits!(d)
    BY <1>0, AskTypes DEF Waits
  <2>3. \A e \in Callers : caller'[e].pc = "dispatching" /\ caller'[e].waitFor = caller[d].waitFor
            /\ caller[d].pc = "dispatching" => e = d
    BY <2>1, <2>2
  <2>4. CASE d # c
    BY <1>0, <1>3, <2>1, <2>2, <2>3, <2>4
  <2>5. CASE d = c
    BY <1>0, <1>1, <1>2, <1>3, <2>1, <2>2, <2>5
  <2> QED BY <2>4, <2>5
<1>7. LoopsWait'
  <2>1. \A l \in Loops : loop[l].pc = "rechecking" /\ request[loop[l].waitFor] = "refused"
                         => interruption[loop[l].head] = Nobody
    BY <1>0 DEF LoopsWait, LoopWaits
  <2> QED BY <1>0, <1>3, <1>4, <2>1, LoopsWaitOn
<1>8. AckedStopped'
  <2> SUFFICES ASSUME NEW s \in Stops, caller'[s].pc = "acked", caller'[s].target # Nobody
               PROVE  Stopped(caller[s].target)
    BY <1>0, <1>3 DEF AckedStopped, Stopped, Callers
  <2>1. CASE s # c
    BY <1>0, <1>3, <2>1 DEF AckedStopped, Callers
  <2>2. CASE s = c
    <3>1. caller[c].pc = "awaiting" /\ request[caller[c].waitFor] = "settled"
      BY <1>1, <1>2, <1>3, <2>2
    <3>2. caller[c].waitFor \in Callers /\ caller[caller[c].waitFor].target = caller[c].target
      BY <1>0, <3>1, AskTypes DEF Waits
    <3> QED BY <1>0, <2>2, <3>1, <3>2, AskTypes DEF Asked, Open, Stopped
  <2> QED BY <2>1, <2>2
<1>9. CancellationIsAsked'
  BY <1>0, <1>3, <1>4, VerdictsStay
<1> QED BY <1>3, <1>5, <1>6, <1>7, <1>8, <1>9 DEF AskInv

\* The interrupt is dispatched once, by the first that gets there; the others wait for it.
LEMMA AskInput ==
    ASSUME IInv, OwnInv, AskInv, NEW c \in Callers, InterruptInput(c)
    PROVE  AskInv'
<1> DEFINE i == caller[c].target
           r == interruption[i]
           pc == IF r = Nobody THEN "threw"
                 ELSE IF request[r] = "asked" THEN "dispatching" ELSE "awaiting"
<1>0. /\ TypeOK /\ HeadsTyped /\ Asked /\ Waits /\ LoopsWait /\ AckedStopped /\ CancellationIsAsked
      /\ UNCHANGED <<seq, attempt, done, loop, interruption>>
      /\ caller[c].pc = "drop" /\ i \in Inputs /\ r \in Callers \cup {Nobody}
      /\ caller' = [caller EXCEPT ![c] = [@ EXCEPT !.waitFor = r, !.pc = pc]]
  BY AskTypes DEF IInv, AskInv, InterruptInput, loops, entries
<1>1. /\ Moves(c) /\ caller'[c].pc = pc /\ caller'[c].waitFor = r /\ pc # "start"
      /\ pc \in {"threw", "dispatching", "awaiting"} /\ (r = Nobody <=> pc = "threw")
  <2> HIDE DEF i, r, pc
  <2>1. Moves(c) /\ caller'[c].pc = pc /\ caller'[c].waitFor = r
    BY <1>0, MoveWaiting
  <2> QED BY <2>1 DEF pc
<1>2. /\ Kept /\ DropsFresh'
      /\ \A l \in Loops : loop[l].pc \in {"finishing", "settling"} => loop[l].head \in Inputs
      /\ \A d \in Callers : /\ caller'[d].target = caller[d].target
                            /\ caller'[d].at = caller[d].at
                            /\ caller'[d].pc = "start" <=> caller[d].pc = "start"
                            /\ d # c => caller'[d] = caller[d]
  BY <1>0, <1>1, MovesKeep
<1>3. \/ r # Nobody /\ request[r] = "asked" /\ request' = [request EXCEPT ![r] = "dispatched"]
         /\ Abort(i, caller[c].handle)
      \/ (r = Nobody \/ request[r] # "asked") /\ UNCHANGED <<request, run>>
  BY DEF InterruptInput
<1>4. /\ \A d \in Callers : request'[d] = request[d]
                            \/ (d = r /\ request[d] = "asked" /\ request'[d] = "dispatched")
      /\ r # Nobody /\ request[r] = "asked" => request'[r] = "dispatched"
  BY <1>0, <1>3, AskTypes
<1>5. StoppedStays
  BY <1>0, <1>4, AskTypes DEF StoppedStays, Stopped
<1>6. Asked'
  BY <1>0, <1>2, <1>4, AskTypes DEF Asked, Open
<1>7. r # Nobody => /\ caller[r].target = i /\ r \in Callers
                    /\ request[r] \in Open
  BY <1>0, AskTypes DEF Asked
<1>8. Waits'
  <2> SUFFICES ASSUME NEW d \in Callers PROVE Waits!(d)'
    BY DEF Waits
  <2>1. caller[d].waitFor \in Callers \cup {Nobody} /\ Waits!(d) /\ Waits!(c)
    BY <1>0, AskTypes DEF Waits
  <2>2. CASE d = c
    <3>1. r # Nobody => request'[r] \notin {"none", "asked"} /\ caller'[r].target = caller'[c].target
      BY <1>2, <1>4, <1>7 DEF Open
    <3>2. pc = "dispatching" =>
            /\ request'[r] = "dispatched"
            /\ \A e \in Callers : caller'[e].pc = "dispatching" /\ caller'[e].waitFor = r => e = c
      <4> SUFFICES ASSUME pc = "dispatching"
                   PROVE  /\ request'[r] = "dispatched"
                          /\ \A e \in Callers : caller'[e].waitFor = r => e = c
        OBVIOUS
      <4>1. r # Nobody /\ request[r] = "asked"
        OBVIOUS
      <4>2. \A e \in Callers : caller[e].waitFor # r
        BY <1>0, <4>1 DEF Waits
      <4> QED BY <1>2, <1>4, <4>1, <4>2
    <3> HIDE DEF i, r, pc
    <3> QED BY <1>1, <2>2, <3>1, <3>2
  <2>3. CASE d # c
    <3>1. caller'[d] = caller[d]
      BY <1>2, <2>3
    <3>2. caller[d].waitFor # Nobody => /\ request'[caller[d].waitFor] \notin {"none", "asked"}
                                        /\ caller'[caller[d].waitFor].target = caller'[d].target
                                        /\ request'[caller[d].waitFor] = request[caller[d].waitFor]
      BY <1>2, <1>4, <2>1
    <3>3. ASSUME caller[d].pc = "dispatching", NEW e \in Callers, caller'[e].pc = "dispatching",
                 caller'[e].waitFor = caller[d].waitFor
          PROVE  e = d
      <4>1. e # c
        BY <1>1, <1>4, <2>1, <3>3, <1>3
      <4> QED BY <1>2, <2>1, <3>3, <4>1
    <3> QED BY <2>1, <3>1, <3>2, <3>3
  <2> QED BY <2>2, <2>3
<1>9. LoopsWait'
  <2>1. ASSUME NEW l \in Loops, loop[l].pc = "rechecking", request'[loop[l].waitFor] = "refused"
        PROVE  interruption'[loop[l].head] = Nobody
    <3>1. LoopWaits(l) /\ loop[l].waitFor \in Callers \cup {Nobody}
      BY <1>0, AskTypes DEF LoopsWait
    <3> QED BY <1>0, <1>4, <2>1, <3>1 DEF LoopWaits
  <2>2. \A d \in Callers : request[d] # "none" => request'[d] # "none"
    BY <1>4
  <2>3. \A l \in Loops : loop'[l] = loop[l] \/ loop'[l].pc = "take"
    BY <1>0
  <2> QED BY <1>0, <1>2, <1>5, <2>1, <2>2, <2>3, LoopsWaitOn
<1>10. AckedStopped'
  <2> SUFFICES ASSUME NEW s \in Stops, caller'[s].pc = "acked", caller'[s].target # Nobody
               PROVE  Stopped(caller[s].target)'
    BY DEF AckedStopped, Stopped
  <2>1. s \in Callers /\ s # c
    BY <1>1 DEF Callers
  <2>2. Stopped(caller[s].target) /\ caller[s].target \in Inputs /\ caller'[s] = caller[s]
    BY <1>0, <1>2, <2>1, AskTypes DEF AckedStopped
  <2> QED BY <1>5, <2>2 DEF StoppedStays, Stopped
<1>11. CancellationIsAsked'
  <2>0. InterruptedWasAsked /\ AbortedWasTargeted
    BY <1>0 DEF CancellationIsAsked
  <2>1. ASSUME NEW j \in Inputs, done'[j] = "interrupted" PROVE InterruptedWasAsked!(j)'
    BY <1>0, <1>2, <1>5, <2>0, <2>1, VerdictStays
  <2>2. ASSUME NEW j \in Inputs, run'[j] = "aborted" PROVE AbortedWasTargeted!(j)'
    <3>1. CASE run[j] = "aborted"
      BY <1>0, <1>2, <2>0, <3>1, AbortStays
    <3>2. CASE run[j] # "aborted"
      <4>1. j = i /\ attempt[i] = caller[c].handle
        BY <1>0, <1>3, <2>2, <3>2, AskTypes DEF Abort
      <4> QED BY <1>0, <1>1, <4>1 DEF Moves
    <3> QED BY <3>1, <3>2
  <2> QED BY <2>1, <2>2 DEF CancellationIsAsked, InterruptedWasAsked, AbortedWasTargeted
<1> QED BY <1>2, <1>6, <1>8, <1>9, <1>10, <1>11 DEF AskInv

\* The answer of handle.interrupt(): everybody with the request knows, and after a failure the
\* input is as if nobody had asked.
LEMMA AskAnswer ==
    ASSUME IInv, OwnInv, AskInv, NEW c \in Callers, InterruptOk(c) \/ InterruptFails(c)
    PROVE  AskInv'
<1> DEFINE i == caller[c].target
           r == caller[c].waitFor
<1>0. /\ TypeOK /\ HeadsTyped /\ Asked /\ Waits /\ LoopsWait /\ AckedStopped /\ CancellationIsAsked
      /\ UNCHANGED <<seq, attempt, done, loop, run>>
      /\ caller[c].pc = "dispatching" /\ caller' = [caller EXCEPT ![c].pc = "awaiting"]
  BY DEF IInv, AskInv, InterruptOk, InterruptFails, loops, entries, provider
<1>1. Moves(c) /\ caller'[c].pc = "awaiting" /\ caller'[c].waitFor = r
  BY <1>0, MoveTo
<1>2. /\ Kept /\ DropsFresh'
      /\ \A l \in Loops : loop[l].pc \in {"finishing", "settling"} => loop[l].head \in Inputs
      /\ \A d \in Callers : /\ caller'[d].target = caller[d].target
                            /\ caller'[d].at = caller[d].at
                            /\ caller'[d].pc = "start" <=> caller[d].pc = "start"
                            /\ d # c => caller'[d] = caller[d]
  BY <1>0, <1>1, MovesKeep
<1>3. /\ r \in Callers /\ caller[r].target = i /\ request[r] = "dispatched"
      /\ \A e \in Callers : caller[e].pc = "dispatching" /\ caller[e].waitFor = r => e = c
  BY <1>0, AskTypes DEF Waits
<1>4. i \in Inputs /\ interruption[i] = r /\ caller[r].pc # "start"
  BY <1>0, <1>3 DEF Asked, Open
<1>5. \/ request' = [request EXCEPT ![r] = "settled"] /\ interruption' = interruption
      \/ /\ request' = [request EXCEPT ![r] = "refused"]
         /\ interruption' = [interruption EXCEPT ![i] = Nobody]
  BY <1>4 DEF InterruptOk, InterruptFails, Refusal
<1>6. /\ \A d \in Callers : d # r => request'[d] = request[d]
      /\ \A j \in Inputs : j # i => interruption'[j] = interruption[j]
      /\ \/ request'[r] = "settled" /\ interruption'[i] = r
         \/ request'[r] = "refused" /\ interruption'[i] = Nobody
  BY <1>0, <1>3, <1>4, <1>5, AskTypes DEF TypeOK
<1>7. StoppedStays
  <2> SUFFICES ASSUME NEW j \in Inputs, Stopped(j) PROVE Stopped(j)'
    BY DEF StoppedStays
  <2>1. interruption[j] # r /\ j # i /\ interruption[j] \in Callers
    BY <1>0, <1>3, <1>4, AskTypes DEF Stopped
  <2> QED BY <1>6, <2>1 DEF Stopped
<1>8. Asked'
  <2>1. ASSUME NEW d \in Callers, caller'[d].pc = "start"
        PROVE  caller'[d].target = Nobody /\ caller'[d].at = 0 /\ request'[d] = "none"
    BY <1>0, <1>2, <1>4, <1>6, <2>1 DEF Asked
  <2>2. ASSUME NEW d \in Callers, caller'[d].target # Nobody
        PROVE  attempt'[caller'[d].target] > 0 /\ seq'[caller'[d].target] < caller'[d].at
    BY <1>0, <1>2, <2>2 DEF Asked
  <2>3. ASSUME NEW j \in Inputs, interruption'[j] # Nobody
        PROVE  caller'[interruption'[j]].target = j /\ request'[interruption'[j]] \in Open
    <3>1. CASE j = i
      BY <1>2, <1>3, <1>6, <2>3, <3>1 DEF Open
    <3>2. CASE j # i
      <4>1. interruption'[j] = interruption[j] /\ interruption[j] \in Callers
        BY <1>0, <1>6, <2>3, <3>2, AskTypes
      <4>2. interruption[j] # r
        BY <1>0, <1>3, <2>3, <3>2, <4>1 DEF Asked
      <4> QED BY <1>0, <1>2, <1>6, <2>3, <4>1, <4>2 DEF Asked
    <3> QED BY <3>1, <3>2
  <2>4. ASSUME NEW d \in Callers, request'[d] \in Open
        PROVE  caller'[d].target \in Inputs /\ interruption'[caller'[d].target] = d
    <3>1. CASE d = r
      BY <1>2, <1>3, <1>4, <1>6, <2>4, <3>1 DEF Open
    <3>2. CASE d # r
      <4>1. caller[d].target \in Inputs /\ interruption[caller[d].target] = d
        BY <1>0, <1>6, <2>4, <3>2 DEF Asked
      <4>2. caller[d].target # i
        BY <1>4, <3>2, <4>1
      <4> QED BY <1>2, <1>6, <4>1, <4>2
    <3> QED BY <3>1, <3>2
  <2> QED BY <2>1, <2>2, <2>3, <2>4 DEF Asked
<1>9. Waits'
  <2> SUFFICES ASSUME NEW d \in Callers PROVE Waits!(d)'
    BY DEF Waits
  <2>0. /\ \A e \in Callers : /\ caller'[e].waitFor = caller[e].waitFor
                              /\ caller'[e].pc = "dispatching" <=> caller[e].pc = "dispatching" /\ e # c
                              /\ e # c => caller'[e].pc = caller[e].pc
        /\ caller[d].waitFor \in Callers \cup {Nobody} /\ Waits!(d)
    BY <1>0, <1>1, <1>2, AskTypes DEF Waits
  <2>1. caller[d].waitFor # Nobody => /\ request'[caller[d].waitFor] \notin {"none", "asked"}
                                      /\ caller'[caller[d].waitFor].target = caller'[d].target
    BY <1>2, <1>6, <2>0
  <2>2. caller'[d].pc = "dispatching" => caller[d].waitFor # r
    BY <1>3, <2>0
  <2>3. caller'[d].pc = "dispatching" =>
           /\ request'[caller[d].waitFor] = "dispatched"
           /\ \A e \in Callers : caller'[e].pc = "dispatching" /\ caller'[e].waitFor = caller[d].waitFor
                                 => e = d
    BY <1>0, <1>6, <2>0, <2>2, AskTypes
  <2>4. /\ caller'[d].pc \in {"start", "cancel", "drop"} => caller'[d].waitFor = Nobody
        /\ caller'[d].pc \in {"dispatching", "awaiting"} => caller'[d].waitFor # Nobody
    BY <1>0, <1>1, <1>3, <2>0, AskTypes
  <2> QED BY <2>0, <2>1, <2>3, <2>4
<1>10. LoopsWait'
  <2>1. ASSUME NEW l \in Loops, loop[l].pc = "rechecking", request'[loop[l].waitFor] = "refused"
        PROVE  interruption'[loop[l].head] = Nobody
    <3>1. /\ LoopWaits(l) /\ loop[l].waitFor \in Callers \cup {Nobody}
          /\ loop[l].head \in Inputs
      BY <1>0, <2>1, AskTypes DEF LoopsWait, HeadsTyped, Idle
    <3>2. CASE loop[l].waitFor = r
      BY <1>3, <1>6, <2>1, <3>1, <3>2, AskTypes, <1>0 DEF LoopWaits
    <3>3. CASE loop[l].waitFor # r
      BY <1>0, <1>3, <1>4, <1>6, <2>1, <3>1, <3>3, AskTypes DEF LoopWaits
    <3> QED BY <3>2, <3>3
  <2>2. \A d \in Callers : request[d] # "none" => request'[d] # "none"
    BY <1>6
  <2>3. \A l \in Loops : loop'[l] = loop[l] \/ loop'[l].pc = "take"
    BY <1>0
  <2> QED BY <1>0, <1>2, <1>7, <2>1, <2>2, <2>3, LoopsWaitOn
<1>11. AckedStopped'
  <2> SUFFICES ASSUME NEW s \in Stops, caller'[s].pc = "acked", caller'[s].target # Nobody
               PROVE  Stopped(caller[s].target)'
    BY <1>2 DEF AckedStopped, Stopped, Callers
  <2>1. s \in Callers /\ s # c
    BY <1>1 DEF Callers
  <2>2. Stopped(caller[s].target) /\ caller[s].target \in Inputs /\ caller'[s] = caller[s]
    BY <1>0, <1>2, <2>1, AskTypes DEF AckedStopped
  <2> QED BY <1>7, <2>2 DEF StoppedStays, Stopped
<1>12. CancellationIsAsked'
  BY <1>0, <1>2, <1>7, VerdictsStay
<1> QED BY <1>2, <1>8, <1>9, <1>10, <1>11, <1>12 DEF AskInv

\* A drop gives its verdict on an input that was submitted before and never ran.
LEMMA AskDrop ==
    ASSUME IInv, OwnInv, AskInv, NEW c \in Callers, DropOne(c)
    PROVE  AskInv'
<1> DEFINE i == Head(caller[c].todo)
<1>0. /\ TypeOK /\ HeadsTyped /\ Asked /\ Waits /\ LoopsWait /\ DropsFresh /\ AckedStopped
      /\ CancellationIsAsked /\ InterruptedWasAsked /\ AbortedWasTargeted
      /\ UNCHANGED <<seq, attempt, loop, run, interruption, request>>
      /\ caller[c].pc = "drop" /\ caller[c].todo # <<>>
      /\ done' = [done EXCEPT ![i] = "interrupted"]
      /\ caller' = [caller EXCEPT ![c].todo = Tail(@)]
  BY DEF IInv, AskInv, CancellationIsAsked, DropOne, loops, entries, provider, interrupts
<1>1. /\ caller[c].todo \in Seq(Inputs) /\ caller \in [Callers -> CallerRec] /\ caller[c] \in CallerRec
      /\ done \in [Inputs -> Settled \cup {"new", "pending"}]
  BY <1>0, OwnTypes
<1>2. /\ 1 \in DOMAIN caller[c].todo /\ i = caller[c].todo[1] /\ i \in Inputs
      /\ \A n \in DOMAIN Tail(caller[c].todo) :
            n + 1 \in DOMAIN caller[c].todo /\ Tail(caller[c].todo)[n] = caller[c].todo[n + 1]
  BY <1>0, <1>1
<1>3. \A d \in Callers : /\ caller'[d].pc = caller[d].pc /\ caller'[d].target = caller[d].target
                         /\ caller'[d].at = caller[d].at /\ caller'[d].handle = caller[d].handle
                         /\ caller'[d].waitFor = caller[d].waitFor
                         /\ caller'[d].todo = IF d = c THEN Tail(caller[d].todo) ELSE caller[d].todo
  BY <1>0, <1>1 DEF CallerRec
<1>4. Kept /\ StoppedStays
  BY <1>0, <1>3 DEF Kept, StoppedStays, Stopped
<1>5. Asked' /\ AckedStopped'
  BY <1>0, <1>3, AskTypes DEF Asked, AckedStopped, Stopped, Callers
<1>6. Waits'
  BY <1>0, <1>3, AskTypes DEF Waits
<1>7. DropsFresh'
  <2> SUFFICES ASSUME NEW d \in Callers, NEW n \in DOMAIN caller'[d].todo
               PROVE  /\ attempt[caller'[d].todo[n]] = 0
                      /\ seq[caller'[d].todo[n]] < caller[d].at
    BY <1>0, <1>3 DEF DropsFresh
  <2> QED BY <1>0, <1>2, <1>3 DEF DropsFresh
<1>8. LoopsWait'
  <2>1. \A l \in Loops : loop[l].pc = "rechecking" /\ request[loop[l].waitFor] = "refused"
                         => interruption[loop[l].head] = Nobody
    BY <1>0 DEF LoopsWait, LoopWaits
  <2>2. \A l \in Loops : loop[l].pc \in {"finishing", "settling"} => loop[l].head \in Inputs
    BY <1>0 DEF HeadsTyped, Idle
  <2> QED BY <1>0, <1>4, <2>1, <2>2, LoopsWaitOn
<1>9. CancellationIsAsked'
  <2>1. ASSUME NEW j \in Inputs, done'[j] = "interrupted" PROVE InterruptedWasAsked!(j)'
    <3>1. CASE done[j] = "interrupted"
      BY <1>0, <1>4, <3>1, VerdictStays
    <3>2. CASE done[j] # "interrupted"
      <4>1. j = i
        BY <1>0, <1>1, <2>1, <3>2
      <4>2. attempt[i] = 0 /\ seq[i] < caller[c].at
        BY <1>0, <1>2 DEF DropsFresh
      <4> QED BY <1>0, <1>3, <4>1, <4>2, AskTypes, OwnTypes
    <3> QED BY <3>1, <3>2
  <2>2. ASSUME NEW j \in Inputs, run'[j] = "aborted" PROVE AbortedWasTargeted!(j)'
    BY <1>0, <1>4, <2>2, AbortStays
  <2> QED BY <2>1, <2>2 DEF CancellationIsAsked, InterruptedWasAsked, AbortedWasTargeted
<1> QED BY <1>5, <1>6, <1>7, <1>8, <1>9 DEF AskInv

\* What a submit, or the lock of a stop, leaves to the others.
Admits ==
    /\ UNCHANGED <<attempt, run>>
    /\ \A i \in Inputs : \/ seq'[i] = seq[i] /\ done'[i] = done[i]
                         \/ done[i] = "new" /\ done'[i] = "pending"
    /\ \A l \in Loops : loop'[l] = loop[l] \/ loop'[l].pc = "take"

LEMMA AdmitsEntry ==
    ASSUME TypeOK, NEW i \in Inputs, NewEntry(i), KickLoopIfNeeded, UNCHANGED <<attempt, run>>
    PROVE  Admits
<1>1. \A j \in Inputs : \/ seq'[j] = seq[j] /\ done'[j] = done[j]
                        \/ done[j] = "new" /\ done'[j] = "pending"
  BY OwnTypes DEF NewEntry
<1>2. \A l \in Loops : loop'[l] = loop[l] \/ loop'[l].pc = "take"
  <2>1. CASE KickNeeded
    BY <2>1, OwnTypes DEF KickLoopIfNeeded, LoopAt
  <2>2. CASE ~KickNeeded
    BY <2>2 DEF KickLoopIfNeeded, loops
  <2> QED BY <2>1, <2>2
<1> QED BY <1>1, <1>2 DEF Admits

\* The lock of a stop or of a bang: what it captures was submitted before it, and it asks for
\* the current turn unless somebody has.
LEMMA AskCapture ==
    ASSUME IInv, OwnInv, AskInv, NEW c \in Callers, caller[c].pc = "start", Capture(c), Quiet, Admits
    PROVE  AskInv'
<1>0. /\ TypeOK /\ HeadsTyped /\ RunsCounted /\ NewIsFresh /\ QueueIsFresh /\ Numbered /\ DropsApart
      /\ Asked /\ Waits /\ LoopsWait /\ DropsFresh /\ AckedStopped /\ CancellationIsAsked
      /\ UNCHANGED <<attempt, run>>
  BY DEF IInv, OwnInv, AskInv, Admits
<1>1. /\ caller \in [Callers -> CallerRec] /\ caller[c] \in CallerRec
      /\ caller[c].target = Nobody /\ caller[c].at = 0 /\ request[c] = "none" /\ caller[c].waitFor = Nobody
      /\ Nobody \notin Callers /\ Nobody \notin Inputs
      /\ current \in Inputs \cup {Nobody}
  BY <1>0, AskTypes, OwnTypes DEF Asked, Waits, TypeOK
<1>2. \A d \in Callers : d # c => caller'[d] = caller[d]
  BY <1>1 DEF Capture
<1>3. /\ caller'[c].pc = "cancel" /\ caller'[c].todo = queue /\ caller'[c].target = current
      /\ caller'[c].waitFor = Nobody /\ caller'[c].at = nextSeq
  <2>1. caller'[c] = [caller[c] EXCEPT !.pc = "cancel", !.todo = queue, !.target = current,
                        !.handle = IF current = Nobody THEN 0 ELSE attempt[current],
                        !.cancel = (state = "awaiting_permission"), !.at = nextSeq]
    BY <1>1 DEF Capture
  <2> QED BY <1>1, <2>1 DEF CallerRec
<1>4. /\ \A d \in Callers : d # c => request'[d] = request[d]
      /\ \A i \in Inputs : i # current => interruption'[i] = interruption[i]
      /\ \/ /\ current \in Inputs /\ interruption[current] = Nobody
            /\ interruption'[current] = c /\ request'[c] = "asked"
         \/ /\ interruption' = interruption /\ request' = request
  <2>1. CASE current # Nobody /\ interruption[current] = Nobody
    BY <1>0, <1>1, <2>1 DEF Capture, TypeOK
  <2>2. CASE ~(current # Nobody /\ interruption[current] = Nobody)
    BY <1>0, <1>1, <2>2 DEF Capture, interrupts
  <2> QED BY <2>1, <2>2
<1>5. \A i \in Inputs : done[i] # "new" => /\ seq'[i] = seq[i] /\ done'[i] = done[i]
                                           /\ seq[i] < nextSeq
  BY <1>0 DEF Admits, Numbered
<1>6. \A i \in Inputs : interruption[i] # c
  BY <1>0, <1>1 DEF Asked, Open
<1>7. Kept
  BY <1>2 DEF Kept
<1>8. StoppedStays
  BY <1>0, <1>1, <1>4, <1>6, AskTypes DEF StoppedStays, Stopped
<1>9. current # Nobody => attempt[current] > 0 /\ seq'[current] < nextSeq
  BY <1>0, <1>1, <1>5 DEF RunsCounted, NewIsFresh
<1>10. Asked'
  <2>1. ASSUME NEW d \in Callers, caller'[d].pc = "start"
        PROVE  caller'[d].target = Nobody /\ caller'[d].at = 0 /\ request'[d] = "none"
    BY <1>0, <1>2, <1>3, <1>4, <2>1 DEF Asked
  <2>2. ASSUME NEW d \in Callers, caller'[d].target # Nobody
        PROVE  attempt'[caller'[d].target] > 0 /\ seq'[caller'[d].target] < caller'[d].at
    <3>1. CASE d = c
      BY <1>0, <1>3, <1>9, <2>2, <3>1
    <3>2. CASE d # c
      <4>1. /\ caller[d].target \in Inputs
            /\ attempt[caller[d].target] > 0 /\ seq[caller[d].target] < caller[d].at
        BY <1>0, <1>2, <2>2, <3>2, AskTypes DEF Asked
      <4>2. done[caller[d].target] # "new"
        BY <1>0, <4>1 DEF NewIsFresh
      <4> QED BY <1>0, <1>2, <1>5, <3>2, <4>1, <4>2
    <3> QED BY <3>1, <3>2
  <2>3. ASSUME NEW i \in Inputs, interruption'[i] # Nobody
        PROVE  caller'[interruption'[i]].target = i /\ request'[interruption'[i]] \in Open
    <3>1. CASE interruption'[i] = interruption[i]
      <4>1. interruption[i] \in Callers /\ interruption[i] # c
        BY <1>0, <1>6, <2>3, <3>1, AskTypes
      <4> QED BY <1>0, <1>2, <1>4, <2>3, <3>1, <4>1 DEF Asked
    <3>2. CASE interruption'[i] # interruption[i]
      BY <1>3, <1>4, <3>2 DEF Open
    <3> QED BY <3>1, <3>2
  <2>4. ASSUME NEW d \in Callers, request'[d] \in Open
        PROVE  caller'[d].target \in Inputs /\ interruption'[caller'[d].target] = d
    <3>1. CASE d = c
      BY <1>1, <1>3, <1>4, <2>4, <3>1 DEF Open
    <3>2. CASE d # c
      BY <1>0, <1>1, <1>2, <1>4, <2>4, <3>2 DEF Asked
    <3> QED BY <3>1, <3>2
  <2> QED BY <2>1, <2>2, <2>3, <2>4 DEF Asked
<1>11. Waits'
  <2> SUFFICES ASSUME NEW d \in Callers PROVE Waits!(d)'
    BY DEF Waits
  <2>1. CASE d = c
    BY <1>1, <1>3, <2>1
  <2>2. CASE d # c
    <3>1. /\ caller'[d] = caller[d] /\ caller[d].waitFor \in Callers \cup {Nobody} /\ Waits!(d)
          /\ caller[d].waitFor # c
      BY <1>0, <1>1, <1>2, <2>2, AskTypes DEF Waits
    <3>2. caller[d].waitFor # Nobody => /\ caller'[caller[d].waitFor] = caller[caller[d].waitFor]
                                        /\ request'[caller[d].waitFor] = request[caller[d].waitFor]
      BY <1>2, <1>4, <3>1
    <3>3. \A e \in Callers : caller'[e].pc = "dispatching" => caller'[e] = caller[e]
      BY <1>2, <1>3
    <3> QED BY <1>1, <3>1, <3>2, <3>3
  <2> QED BY <2>1, <2>2
<1>12. LoopsWait'
  <2>1. ASSUME NEW l \in Loops, loop[l].pc = "rechecking", request'[loop[l].waitFor] = "refused"
        PROVE  FALSE
    <3>1. loop[l].waitFor \in Callers
      BY <1>0, <2>1, AskTypes DEF LoopsWait, LoopWaits
    <3>2. request[loop[l].waitFor] = "refused"
      BY <1>1, <1>4, <2>1, <3>1
    <3> QED BY <2>1, <3>2 DEF Quiet, At, Answered
  <2>2. \A d \in Callers : request[d] # "none" => request'[d] # "none"
    BY <1>4
  <2>3. \A l \in Loops : loop[l].pc \in {"finishing", "settling"} => loop[l].head \in Inputs
    BY <1>0 DEF HeadsTyped, Idle
  <2>4. \A l \in Loops : loop'[l] = loop[l] \/ loop'[l].pc = "take"
    BY DEF Admits
  <2> QED BY <1>0, <1>7, <1>8, <2>1, <2>2, <2>3, <2>4, LoopsWaitOn
<1>13. DropsFresh'
  <2> SUFFICES ASSUME NEW d \in Callers, NEW n \in DOMAIN caller'[d].todo
               PROVE  /\ attempt[caller'[d].todo[n]] = 0
                      /\ seq'[caller'[d].todo[n]] < caller'[d].at
    BY <1>0 DEF DropsFresh
  <2>1. CASE d = c
    <3>1. n \in DOMAIN queue /\ queue[n] \in Inputs /\ caller'[d].todo[n] = queue[n]
      BY <1>0, <1>3, <2>1, OwnTypes
    <3> QED BY <1>0, <1>3, <1>5, <2>1, <3>1 DEF QueueIsFresh
  <2>2. CASE d # c
    <3>1. /\ n \in DOMAIN caller[d].todo /\ caller[d].todo[n] \in Inputs
          /\ caller'[d] = caller[d] /\ done[caller[d].todo[n]] = "pending"
      BY <1>0, <1>2, <2>2, OwnTypes DEF DropsApart
    <3> QED BY <1>0, <1>5, <3>1 DEF DropsFresh
  <2> QED BY <2>1, <2>2
<1>14. AckedStopped'
  <2>1. ASSUME NEW s \in Stops, caller'[s].pc = "acked", caller'[s].target # Nobody
        PROVE  /\ interruption'[caller'[s].target] # Nobody
               /\ request'[interruption'[caller'[s].target]] = "settled"
    <3>1. s \in Callers /\ s # c
      BY <1>3, <2>1 DEF Callers
    <3>2. /\ caller'[s] = caller[s] /\ caller[s].target \in Inputs /\ Stopped(caller[s].target)
      BY <1>0, <1>2, <2>1, <3>1, AskTypes DEF AckedStopped
    <3> QED BY <1>8, <3>2 DEF StoppedStays, Stopped
  <2> QED BY <2>1 DEF AckedStopped, Stopped
<1>15. CancellationIsAsked'
  <2>1. \A i \in Inputs : done'[i] = "interrupted" => done[i] = "interrupted" /\ seq'[i] = seq[i]
    BY DEF Admits
  <2> QED BY <1>0, <1>7, <1>8, <2>1, VerdictsStay
<1> QED BY <1>10, <1>11, <1>12, <1>13, <1>14, <1>15 DEF AskInv

\* A step that asks for nothing: a plain message, a stop that finds the session idle, a tool call.
LEMMA AskSame ==
    ASSUME IInv, OwnInv, AskInv, Admits, UNCHANGED <<interruption, request>>,
           \A d \in Callers : \/ caller'[d] = caller[d]
                              \/ /\ caller[d].pc = "start" /\ caller'[d].pc = "acked"
                                 /\ caller'[d].target = Nobody /\ caller'[d].waitFor = Nobody
                                 /\ caller'[d].todo = <<>>
    PROVE  AskInv'
<1>0. /\ TypeOK /\ HeadsTyped /\ NewIsFresh /\ DropsApart
      /\ Asked /\ Waits /\ LoopsWait /\ DropsFresh /\ AckedStopped /\ CancellationIsAsked
      /\ UNCHANGED <<attempt, run, interruption, request>>
  BY DEF IInv, OwnInv, AskInv, Admits
<1>1. Kept /\ StoppedStays
  BY <1>0 DEF Kept, StoppedStays, Stopped
<1>2. \A i \in Inputs : done[i] # "new" => seq'[i] = seq[i] /\ done'[i] = done[i]
  BY DEF Admits
<1>3. \A d \in Callers : /\ caller'[d].target = caller[d].target /\ caller'[d].waitFor = caller[d].waitFor
                         /\ caller'[d] = caller[d] \/ (caller'[d].pc = "acked" /\ caller[d].pc = "start")
  BY <1>0 DEF Asked, Waits
<1>4. Asked'
  <2>1. ASSUME NEW d \in Callers, caller'[d].pc = "start"
        PROVE  caller'[d].target = Nobody /\ caller'[d].at = 0 /\ request'[d] = "none"
    BY <1>0, <1>3, <2>1 DEF Asked
  <2>2. ASSUME NEW d \in Callers, caller'[d].target # Nobody
        PROVE  attempt'[caller'[d].target] > 0 /\ seq'[caller'[d].target] < caller'[d].at
    <3>1. /\ caller'[d] = caller[d] /\ caller[d].target \in Inputs
          /\ attempt[caller[d].target] > 0 /\ seq[caller[d].target] < caller[d].at
      BY <1>0, <2>2, AskTypes DEF Asked
    <3>2. done[caller[d].target] # "new"
      BY <1>0, <3>1 DEF NewIsFresh
    <3> QED BY <1>0, <1>2, <3>1, <3>2
  <2>3. /\ \A i \in Inputs : interruption'[i] # Nobody =>
             caller'[interruption'[i]].target = i /\ request'[interruption'[i]] \in Open
        /\ \A c \in Callers : request'[c] \in Open =>
             caller'[c].target \in Inputs /\ interruption'[caller'[c].target] = c
    BY <1>0, <1>3, AskTypes DEF Asked
  <2> QED BY <2>1, <2>2, <2>3 DEF Asked
<1>5. Waits'
  <2> SUFFICES ASSUME NEW d \in Callers PROVE Waits!(d)'
    BY DEF Waits
  <2>1. caller[d].waitFor \in Callers \cup {Nobody} /\ Waits!(d)
    BY <1>0, AskTypes DEF Waits
  <2> QED BY <1>0, <1>3, <2>1
<1>6. LoopsWait'
  <2>1. \A l \in Loops : loop[l].pc = "rechecking" /\ request[loop[l].waitFor] = "refused"
                         => interruption[loop[l].head] = Nobody
    BY <1>0 DEF LoopsWait, LoopWaits
  <2>2. \A l \in Loops : loop[l].pc \in {"finishing", "settling"} => loop[l].head \in Inputs
    BY <1>0 DEF HeadsTyped, Idle
  <2>3. \A l \in Loops : loop'[l] = loop[l] \/ loop'[l].pc = "take"
    BY DEF Admits
  <2> QED BY <1>0, <1>1, <2>1, <2>2, <2>3, LoopsWaitOn
<1>7. DropsFresh'
  <2> SUFFICES ASSUME NEW d \in Callers, NEW n \in DOMAIN caller'[d].todo
               PROVE  /\ attempt[caller'[d].todo[n]] = 0
                      /\ seq'[caller'[d].todo[n]] < caller'[d].at
    BY <1>0 DEF DropsFresh
  <2>1. /\ caller'[d] = caller[d] /\ n \in DOMAIN caller[d].todo /\ caller[d].todo[n] \in Inputs
        /\ done[caller[d].todo[n]] = "pending"
    BY <1>0, OwnTypes DEF DropsApart
  <2> QED BY <1>0, <1>2, <2>1 DEF DropsFresh
<1>8. AckedStopped'
  BY <1>0, <1>3 DEF AckedStopped, Stopped, Asked, Callers
<1>9. CancellationIsAsked'
  <2>1. \A i \in Inputs : done'[i] = "interrupted" => done[i] = "interrupted" /\ seq'[i] = seq[i]
    BY DEF Admits
  <2> QED BY <1>0, <1>1, <2>1, VerdictsStay
<1> QED BY <1>4, <1>5, <1>6, <1>7, <1>8, <1>9 DEF AskInv

\* A loop judges by the request its input has at that moment.
LEMMA LoopJudges ==
    ASSUME IInv, OwnInv, AskInv, NEW l \in Loops, LoopStep(l) \/ ProviderEnds(l)
    PROVE  /\ LoopsWait' /\ UNCHANGED <<caller, seq, interruption, request>>
<1>0. /\ TypeOK /\ OneLoop /\ HeadsTyped /\ Asked /\ LoopsWait
      /\ loop \in [Loops -> LoopRec] /\ loop[l] \in LoopRec /\ loop[l].head \in Inputs \cup {Nobody}
      /\ loop[l].waitFor \in Callers \cup {Nobody} /\ LoopWaits(l)
  BY AskTypes, OwnTypes DEF IInv, AskInv, LoopsWait
<1> USE DEF At
<1>1. UNCHANGED <<caller, seq, interruption, request>>
  BY DEF LoopStep, LoopEnds, TakeNext, StartProvider, TurnCancelled, TurnSucceeds, TurnThrows,
         TurnFails, ResetAnnounced, RetryAfterRefusal, LoopCrashes, FinishTurn, SettleInput,
         ProviderEnds, IteratorEnds, entries, interrupts
<1>2. \A m \in Loops : m # l => loop[m].pc = "off" /\ loop'[m] = loop[m]
  <2>1. loop[l].pc # "off"
    BY DEF LoopStep, LoopEnds, TakeNext, StartProvider, TurnCancelled, TurnSucceeds, TurnThrows,
           TurnFails, ResetAnnounced, RetryAfterRefusal, LoopCrashes, FinishTurn, SettleInput,
           ProviderEnds, IteratorEnds
  <2>2. \E x : loop' = [loop EXCEPT ![l] = x]
    BY DEF LoopStep, LoopEnds, TakeNext, StartProvider, TurnCancelled, TurnSucceeds, TurnThrows,
           TurnFails, ResetAnnounced, RetryAfterRefusal, LoopCrashes, FinishTurn, SettleInput,
           ProviderEnds, IteratorEnds, StartRun, Conclude
  <2> QED BY <1>0, <2>1, <2>2 DEF OneLoop, AliveLoops
<1> DEFINE i == loop[l].head
           w == interruption[i]
<1>3. i \in Inputs => /\ w \in Callers \cup {Nobody}
                      /\ w # Nobody => caller[w].target = i /\ request[w] \in Open
  BY <1>0, AskTypes DEF Asked
<1>4. LoopWaits(l)'
  <2>1. CASE loop'[l].pc \in {"off", "take", "opening", "running", "resetting", "crashed"}
    BY <2>1 DEF LoopWaits
  <2>2. CASE loop'[l].pc = "judging" /\ loop'[l].waitFor = w /\ loop'[l].head = i /\ i \in Inputs
    BY <1>1, <1>3, <2>2 DEF LoopWaits, Open
  <2>3. CASE /\ loop'[l].pc = "rechecking" /\ loop'[l].waitFor = w /\ loop'[l].head = i
             /\ i \in Inputs /\ w # Nobody
    BY <1>1, <1>3, <2>3 DEF LoopWaits, Open
  <2>4. CASE loop'[l].pc \in {"finishing", "settling"} /\ loop'[l].outcome # "interrupted"
    BY <2>4 DEF LoopWaits
  <2>5. CASE loop'[l].pc \in {"finishing", "settling"} /\ loop'[l].head = i /\ Stopped(i)
    BY <1>1, <2>5 DEF LoopWaits, Stopped
  <2>6. CASE LoopEnds(l) \/ TakeNext(l) \/ Starts(l) \/ SettleInput(l)
    BY <1>0, <2>1, <2>6 DEF LoopEnds, TakeNext, Starts, StartProvider, ResetAnnounced,
                            RetryAfterRefusal, SettleInput, StartRun, LoopAt
  <2>7. CASE TurnCancelled(l)
    <3>1. /\ loop[l].pc \in {"judging", "rechecking"} /\ loop[l].waitFor # Nobody
          /\ request[loop[l].waitFor] = "settled" /\ loop[l].waitFor \in Callers
          /\ caller[loop[l].waitFor].target = i
      BY <1>0, <2>7 DEF TurnCancelled, Cancelled, LoopWaits
    <3>2. Stopped(i)
      BY <1>0, <3>1, AskTypes DEF Stopped, Asked, Open
    <3>3. loop'[l].pc = "finishing" /\ loop'[l].head = i
      BY <1>0, <2>7 DEF TurnCancelled, Conclude, LoopRec
    <3> QED BY <2>5, <3>2, <3>3
  <2>8. CASE TurnSucceeds(l) \/ (TurnFails(l) /\ ~CanRetry(l))
    <3>1. PICK o \in {"resolved", "failed"} : Conclude(l, o)
      BY <2>8 DEF TurnSucceeds, TurnFails
    <3>2. loop'[l] = [loop[l] EXCEPT !.pc = "finishing", !.outcome = o]
      BY <1>0, <3>1 DEF Conclude
    <3>3. loop'[l].pc = "finishing" /\ loop'[l].outcome = o
      BY <1>0, <3>2 DEF LoopRec
    <3> QED BY <2>4, <3>1, <3>3
  <2>9. CASE (TurnFails(l) /\ CanRetry(l)) \/ LoopCrashes(l)
    BY <1>0, <2>1, <2>9 DEF TurnFails, LoopCrashes, LoopRec
  <2>10. CASE TurnThrows(l)
    <3>1. i \in Inputs
      BY <1>0, <2>10 DEF TurnThrows, HeadsTyped, Idle
    <3>2. loop'[l].pc = "judging" /\ loop'[l].waitFor = w /\ loop'[l].head = i
      BY <1>0, <2>10 DEF TurnThrows, LoopRec
    <3> QED BY <2>2, <3>1, <3>2
  <2>11. CASE ProviderEnds(l)
    <3>1. PICK ending \in Endings, inRun \in BOOLEAN : IteratorEnds(l, ending, inRun)
      BY <2>11 DEF ProviderEnds
    <3>2. i \in Inputs
      BY <1>0, <3>1 DEF IteratorEnds, HeadsTyped, Idle
    <3>3. loop'[l].pc = "judging" /\ loop'[l].waitFor = w /\ loop'[l].head = i
      BY <1>0, <3>1 DEF IteratorEnds, LoopRec
    <3> QED BY <2>2, <3>2, <3>3
  <2>12. CASE ResetAnnounced(l) /\ StopSeen(l)
    <3>1. i \in Inputs /\ w # Nobody
      BY <1>0, <2>12 DEF ResetAnnounced, StopSeen, HeadsTyped, Idle
    <3>2. loop' = [loop EXCEPT ![l] = [@ EXCEPT !.pc = "rechecking", !.waitFor = w]]
      BY <2>12 DEF ResetAnnounced
    <3>3. loop'[l].pc = "rechecking" /\ loop'[l].waitFor = w /\ loop'[l].head = i
      <4> HIDE DEF i, w
      <4>1. loop'[l] = [loop[l] EXCEPT !.pc = "rechecking", !.waitFor = w]
        BY <1>0, <3>2
      <4> QED BY <1>0, <4>1 DEF LoopRec, i
    <3> QED BY <2>3, <3>1, <3>3
  <2>13. CASE FinishTurn(l)
    <3>1. /\ loop[l].pc = "finishing" /\ loop'[l].pc = "settling" /\ loop'[l].head = i
          /\ loop'[l].outcome = loop[l].outcome
      BY <1>0, <2>13 DEF FinishTurn, LoopRec
    <3> QED BY <1>0, <2>4, <2>5, <3>1 DEF LoopWaits
  <2> QED BY <2>6, <2>7, <2>8, <2>9, <2>10, <2>11, <2>12, <2>13 DEF LoopStep, Starts
<1>5. LoopsWait'
  <2> SUFFICES ASSUME NEW m \in Loops PROVE LoopWaits(m)'
    BY DEF LoopsWait
  <2> QED BY <1>2, <1>4 DEF LoopWaits
<1> QED BY <1>1, <1>5

\* What a loop does to the counts, and to the runs.
LEMMA LoopCountsRuns ==
    ASSUME IInv, OwnInv, NEW l \in Loops, LoopStep(l) \/ ProviderEnds(l)
    PROVE  /\ \A j \in Inputs : attempt'[j] = attempt[j]
                 \/ /\ j = loop[l].head /\ Starts(l)
                    /\ attempt[j] \in {0, 1} /\ attempt'[j] = attempt[j] + 1
           /\ \A j \in Inputs : run'[j] = "aborted" => run[j] = "aborted" /\ attempt'[j] = attempt[j]
           /\ SettleInput(l) \/ UNCHANGED done
<1>0. /\ TypeOK /\ HeadsTyped /\ RetryBound
      /\ attempt \in [Inputs -> 0..2] /\ run \in [Inputs -> {"none", "live", "aborted", "over"}]
  BY OwnTypes, AskTypes DEF IInv
<1>1. CASE Starts(l)
  <2>1. /\ StartRun(l, loop[l].head) /\ UNCHANGED done
        /\ loop[l].head \in Inputs /\ attempt[loop[l].head] \in {0, 1}
    BY <1>0, <1>1, StartSteps
  <2> QED BY <1>0, <1>1, <2>1 DEF StartRun
<1>2. CASE InTurn(l)
  <2>1. PICK r : InTurnTo(l, r)
    BY <1>0, <1>2, InTurnSteps
  <2>2. UNCHANGED <<attempt, done>> /\ (run' = run \/ run' = [run EXCEPT ![loop[l].head] = "over"])
    BY <2>1 DEF InTurnTo
  <2> QED BY <1>0, <2>2
<1>3. CASE LoopEnds(l) \/ TakeNext(l) \/ FinishTurn(l) \/ SettleInput(l)
  BY <1>3 DEF LoopEnds, TakeNext, FinishTurn, SettleInput, provider, entries
<1> QED BY <1>1, <1>2, <1>3 DEF LoopStep, InTurn, Starts

\* A loop tells a submitter of an interruption only when it is done.
LEMMA AskLoop ==
    ASSUME IInv, OwnInv, AskInv, NEW l \in Loops, LoopStep(l) \/ ProviderEnds(l)
    PROVE  AskInv'
<1> DEFINE i == loop[l].head
<1>0. /\ TypeOK /\ HeadsTyped /\ RetryBound /\ DropsApart /\ HandAhead
      /\ Asked /\ Waits /\ LoopsWait /\ DropsFresh /\ AckedStopped /\ CancellationIsAsked
      /\ attempt \in [Inputs -> 0..2]
  BY OwnTypes DEF IInv, OwnInv, AskInv
<1>1. LoopsWait' /\ UNCHANGED <<caller, seq, interruption, request>>
  BY LoopJudges
<1>2. /\ \A j \in Inputs : attempt'[j] = attempt[j]
            \/ (j = i /\ Starts(l) /\ attempt[j] \in {0, 1} /\ attempt'[j] = attempt[j] + 1)
      /\ \A j \in Inputs : run'[j] = "aborted" => run[j] = "aborted" /\ attempt'[j] = attempt[j]
      /\ SettleInput(l) \/ UNCHANGED done
  BY LoopCountsRuns
<1>3. Kept /\ StoppedStays
  BY <1>1 DEF Kept, StoppedStays, Stopped
<1>4. Asked'
  <2>1. \A j \in Inputs : attempt[j] > 0 => attempt'[j] > 0
    BY <1>2
  <2> QED BY <1>0, <1>1, <2>1, AskTypes DEF Asked
<1>5. Waits' /\ AckedStopped'
  BY <1>0, <1>1 DEF Waits, AckedStopped, Stopped
<1>6. DropsFresh'
  <2> SUFFICES ASSUME NEW d \in Callers, NEW n \in DOMAIN caller[d].todo
               PROVE  attempt'[caller[d].todo[n]] = 0 /\ seq[caller[d].todo[n]] < caller[d].at
    BY <1>1 DEF DropsFresh
  <2>1. caller[d].todo[n] \in Inputs /\ caller[d].todo[n] # i
    BY <1>0, OwnTypes DEF DropsApart, InHand
  <2> QED BY <1>0, <1>2, <2>1 DEF DropsFresh
<1>7. CancellationIsAsked'
  <2>0. InterruptedWasAsked /\ AbortedWasTargeted
    BY <1>0 DEF CancellationIsAsked
  <2>1. ASSUME NEW j \in Inputs, done'[j] = "interrupted" PROVE InterruptedWasAsked!(j)'
    <3>1. CASE done[j] = "interrupted"
      <4>1. attempt'[j] = attempt[j]
        <5>1. CASE j = i
          BY <1>0, <3>1, <5>1, AskTypes DEF HandAhead
        <5>2. CASE j # i
          BY <1>2, <5>2
        <5> QED BY <5>1, <5>2
      <4> QED BY <1>0, <1>1, <1>3, <2>0, <3>1, <4>1, VerdictStays
    <3>2. CASE done[j] # "interrupted"
      <4>1. SettleInput(l) /\ j = i /\ loop[l].outcome = "interrupted" /\ loop[l].pc = "settling"
        BY <1>0, <1>2, <2>1, <3>2, OwnTypes DEF SettleInput, At
      <4>2. Stopped(i)
        BY <1>0, <4>1 DEF LoopsWait, LoopWaits
      <4>3. PICK c \in Callers : c = interruption[i]
        BY <4>1, <4>2, AskTypes, <1>0 DEF Stopped
      <4>4. caller[c].target = i /\ caller[c].at > seq[i]
        <5>1. i \in Inputs /\ i # Nobody /\ c # Nobody
          BY <1>0, <4>1, AskTypes
        <5>2. caller[c].target = i
          BY <1>0, <4>3, <5>1 DEF Asked
        <5>3. seq[i] < caller[c].at /\ seq[i] \in Nat /\ caller[c].at \in Nat
          BY <1>0, <5>1, <5>2, AskTypes, OwnTypes DEF Asked
        <5> QED BY <5>2, <5>3
      <4> QED BY <1>1, <4>1, <4>2, <4>4 DEF Stopped
    <3> QED BY <3>1, <3>2
  <2>2. ASSUME NEW j \in Inputs, run'[j] = "aborted" PROVE AbortedWasTargeted!(j)'
    <3>1. run[j] = "aborted" /\ attempt'[j] = attempt[j]
      BY <1>2, <2>2
    <3> QED BY <1>0, <1>3, <2>0, <3>1, AbortStays
  <2> QED BY <2>1, <2>2 DEF CancellationIsAsked, InterruptedWasAsked, AbortedWasTargeted
<1> QED BY <1>1, <1>4, <1>5, <1>6, <1>7 DEF AskInv

\* No step tells anybody of a cancellation that was not asked for.
LEMMA AskStep ==
    ASSUME IInv, OwnInv, AskInv, [Next]_vars
    PROVE  AskInv'
<1>0. TypeOK /\ StartsEmpty /\ Asked /\ Waits
  BY DEF IInv, OwnInv, AskInv
<1>1. ASSUME NEW i \in Inputs, SubmitRun(i) PROVE AskInv'
  <2>1. NewEntry(i) /\ KickLoopIfNeeded /\ UNCHANGED <<attempt, run, interruption, request, caller>>
    BY <1>1 DEF SubmitRun, provider, interrupts
  <2>2. Admits
    BY <1>0, <2>1, AdmitsEntry
  <2>3. \A d \in Callers : caller'[d] = caller[d]
    BY <2>1
  <2> QED BY <2>1, <2>2, <2>3, AskSame
<1>2. ASSUME NEW i \in Inputs, SubmitBang(i) PROVE AskInv'
  <2>1. /\ NewEntry(i) /\ KickLoopIfNeeded /\ Capture(i) /\ UNCHANGED <<attempt, run>>
        /\ i \in Callers /\ i \in Bangs /\ done[i] = "new" /\ Quiet
    BY <1>2 DEF SubmitBang, NewEntry, provider, Callers
  <2>2. Admits
    BY <1>0, <2>1, AdmitsEntry
  <2>3. caller[i].pc = "start"
    BY <1>0, <2>1 DEF StartsEmpty
  <2> QED BY <2>1, <2>2, <2>3, AskCapture
<1>3. ASSUME NEW s \in Stops, StopLock(s) PROVE AskInv'
  <2>1. /\ Quiet /\ caller[s].pc = "start" /\ s \in Callers
        /\ UNCHANGED <<attempt, run, seq, done, loop>>
    BY <1>3 DEF StopLock, provider, entries, loops, Callers
  <2>2. Admits
    BY <2>1 DEF Admits
  <2>3. CASE state = "idle"
    <3>1. /\ UNCHANGED <<interruption, request>>
          /\ caller' = [caller EXCEPT ![s] = [@ EXCEPT !.pc = "acked", !.at = nextSeq]]
      BY <1>3, <2>3 DEF StopLock, interrupts
    <3>2. caller \in [Callers -> CallerRec] /\ caller[s] \in CallerRec
      BY <1>0, <2>1, OwnTypes
    <3>3. caller[s].target = Nobody /\ caller[s].waitFor = Nobody /\ caller[s].todo = <<>>
      BY <1>0, <2>1 DEF Asked, Waits, StartsEmpty
    <3>4. \A d \in Callers : \/ caller'[d] = caller[d]
                             \/ /\ caller[d].pc = "start" /\ caller'[d].pc = "acked"
                                /\ caller'[d].target = Nobody /\ caller'[d].waitFor = Nobody
                                /\ caller'[d].todo = <<>>
      BY <2>1, <3>1, <3>2, <3>3 DEF CallerRec
    <3> QED BY <2>2, <3>1, <3>4, AskSame
  <2>4. CASE state # "idle"
    BY <1>3, <2>1, <2>2, <2>4, AskCapture DEF StopLock
  <2> QED BY <2>3, <2>4
<1>4. ASSUME NEW c \in Callers, CallerStep(c) PROVE AskInv'
  BY <1>4, AskMove, AskDrop, AskInput, AskAnswer DEF CallerStep
<1>5. ASSUME NEW l \in Loops, LoopStep(l) \/ ProviderEnds(l) PROVE AskInv'
  BY <1>5, AskLoop
<1>6. CASE UNCHANGED <<attempt, run, seq, done, loop, caller, interruption, request>>
  BY <1>6, AskSame DEF Admits
<1>7. ASSUME NEW k \in Calls, CallStep(k) \/ \E i \in Inputs : ToolCalled(k, i)
      PROVE  UNCHANGED <<attempt, run, seq, done, loop, caller, interruption, request>>
  BY <1>7 DEF CallStep, ToolCalled, EnterAwaiting, LeaveAwaiting, CardPosted, CardAnswered,
              ApplyAllowTurn, loops, provider, entries, interrupts
<1>8. ASSUME NEW l \in Loops, CaptureSession(l)
      PROVE  UNCHANGED <<attempt, run, seq, done, loop, caller, interruption, request>>
  BY <1>8 DEF CaptureSession, loops, entries, interrupts
<1>9. CASE AwaitMessage \/ UNCHANGED vars
  BY <1>6, <1>9 DEF AwaitMessage, vars, loops, provider, entries, interrupts
<1> QED BY <1>1, <1>2, <1>3, <1>4, <1>5, <1>6, <1>7, <1>8, <1>9 DEF Next, UserStep

LEMMA AskInit == Init => AskInv
<1> SUFFICES ASSUME Init PROVE AskInv
  OBVIOUS
<1>1. Asked /\ Waits /\ DropsFresh
  BY SessionAssumption DEF Init, Asked, Waits, DropsFresh, Open, Callers
<1>2. LoopsWait
  BY DEF Init, LoopsWait, LoopWaits, LoopAt
<1>3. AckedStopped /\ CancellationIsAsked
  BY DEF Init, AckedStopped, CancellationIsAsked, InterruptedWasAsked, AbortedWasTargeted, Callers
<1> QED BY <1>1, <1>2, <1>3 DEF AskInv

LEMMA AskInvariance == Spec => [](IInv /\ OwnInv /\ AskInv)
<1>1. Init => AskInv
  BY AskInit
<1>2. IInv /\ OwnInv /\ AskInv /\ [Next]_vars => AskInv'
  BY AskStep
<1> QED BY <1>1, <1>2, OwnInvariance, PTL DEF Spec

\* Whoever is told that an input was interrupted is told the truth: a later stop or bang dropped
\* it before it ran or stopped its turn; and an interrupt reaches the run it was meant for, and
\* no later one.
THEOREM CancellationAlwaysAsked == Spec => []CancellationIsAsked
<1>1. AskInv => CancellationIsAsked
  BY DEF AskInv
<1> QED BY <1>1, AskInvariance, PTL

\* What was settled, and what an acknowledged stop interrupted, is not given to the provider again.
THEOREM NeverRestartsAfterAck == Spec => NoRestartAfterAck
<1>1. IInv /\ OwnInv /\ AskInv /\ [Next]_vars =>
         [\A i \in Inputs :
             \/ done[i] \in Settled
             \/ \E s \in Stops : caller[s].pc = "acked" /\ caller[s].target = i
             => attempt'[i] = attempt[i]]_vars
  <2> SUFFICES ASSUME IInv, OwnInv, AskInv, Next, NEW i \in Inputs,
                      \/ done[i] \in Settled
                      \/ \E s \in Stops : caller[s].pc = "acked" /\ caller[s].target = i
               PROVE  attempt'[i] = attempt[i]
    OBVIOUS
  <2>0. TypeOK /\ HeadsTyped /\ RetryBound /\ HandAhead /\ Asked /\ LoopsWait /\ AckedStopped
    BY DEF IInv, OwnInv, AskInv
  <2>1. ASSUME NEW l \in Loops, LoopStep(l) \/ ProviderEnds(l) PROVE attempt'[i] = attempt[i]
    <3> SUFFICES ASSUME i = loop[l].head, Starts(l) PROVE FALSE
      BY <2>1, LoopCountsRuns
    <3>1. done[i] = "pending" /\ i # Nobody /\ loop[l].head \in Inputs
      BY <2>0, AskTypes DEF HandAhead
    <3>2. PICK s \in Stops : caller[s].pc = "acked" /\ caller[s].target = i
      BY <3>1 DEF Settled
    <3>3. Stopped(i) /\ attempt[i] > 0
      BY <2>0, <3>1, <3>2 DEF AckedStopped, Asked, Callers
    <3>4. ~StartProvider(l)
      BY <2>0, <3>3 DEF StartProvider, RetryBound, At
    <3>5. ~(ResetAnnounced(l) /\ ~StopSeen(l))
      BY <3>3 DEF StopSeen, Stopped
    <3>6. ~RetryAfterRefusal(l)
      BY <2>0, <3>3 DEF RetryAfterRefusal, NotCancelled, LoopsWait, LoopWaits, Stopped, At
    <3> QED BY <3>4, <3>5, <3>6 DEF Starts
  <2>2. CASE UNCHANGED attempt
    BY <2>2
  <2> QED BY <2>1, <2>2
          DEF Next, UserStep, CallerStep, CallStep, AwaitMessage, vars, provider, SubmitRun,
              SubmitBang, StopLock, CancelPending, DropOne, NothingToInterrupt, InterruptInput,
              InterruptOk, InterruptFails, InterruptAnswered, CaptureSession, EnterAwaiting,
              CardPosted, CardAnswered, LeaveAwaiting, ApplyAllowTurn, ToolCalled
<1> QED BY <1>1, AskInvariance, PTL DEF Spec, NoRestartAfterAck

----------------------------------------------------------------------------
(* Seen from outside, a session is a queue of turns.                       *)

\* The turn that is shown is the loop's, and a turn that ended had a provider call.
TurnInv ==
    /\ current # Nobody => \E l \in Loops : /\ loop[l].pc \notin Between \cup {"opening"}
                                            /\ loop[l].head = current
    /\ \A l \in Loops : loop[l].pc \in {"judging", "finishing", "settling"} =>
          attempt[loop[l].head] > 0

\* A step of the loop that has the turn.
LEMMA TurnLoop ==
    ASSUME IInv, OwnInv, TurnInv, NEW l \in Loops, LoopStep(l) \/ ProviderEnds(l)
    PROVE  TurnInv'
<1> USE DEF At, Between
<1>0. /\ TypeOK /\ OneLoop /\ HeadsTyped /\ RetryBound
      /\ loop \in [Loops -> LoopRec] /\ loop[l] \in LoopRec /\ attempt \in [Inputs -> 0..2]
  BY OwnTypes DEF IInv
<1>1. loop[l].pc # "off"
  BY <1>0, LoopStaysAlive DEF LoopEnds
<1>2. \A m \in Loops : m # l => loop[m].pc = "off"
  BY <1>1 DEF IInv, OneLoop, AliveLoops
<1>3. CASE LoopEnds(l)
  <2>1. loop' = [loop EXCEPT ![l] = LoopAt("off", Nobody)] /\ current' = Nobody
    BY <1>3 DEF LoopEnds
  <2> QED BY <1>0, <1>2, <2>1 DEF TurnInv, LoopAt
<1>4. CASE TakeNext(l)
  <2>1. /\ loop' = [loop EXCEPT ![l] = LoopAt("opening", Head(queue))] /\ loop[l].pc = "take"
        /\ UNCHANGED current
    BY <1>4 DEF TakeNext
  <2> QED BY <1>0, <1>2, <2>1 DEF TurnInv, LoopAt
<1>5. CASE Starts(l)
  <2>1. /\ loop' = [loop EXCEPT ![l] = LoopAt("running", loop[l].head)]
        /\ current' = loop[l].head
    BY <1>0, <1>5, StartSteps DEF StartRun
  <2>2. loop'[l].pc = "running" /\ loop'[l].head = current'
    BY <1>0, <2>1 DEF LoopAt
  <2> QED BY <1>0, <1>2, <2>1, <2>2 DEF TurnInv
<1>6. CASE InTurn(l)
  <2>1. PICK r : InTurnTo(l, r)
    BY <1>0, <1>6, InTurnSteps
  <2>2. /\ loop'[l] = r /\ r.head = loop[l].head /\ \A m \in Loops : m # l => loop'[m] = loop[m]
        /\ r.pc \in {"judging", "resetting", "rechecking", "finishing", "crashed"}
        /\ UNCHANGED <<current, attempt>>
    BY <1>0, <2>1 DEF InTurnTo
  <2>3. current # Nobody => current = loop[l].head
    BY <1>2 DEF TurnInv
  <2>4. attempt[loop[l].head] > 0 \/ r.pc = "crashed"
    <3>1. CASE loop[l].pc = "opening"
      <4>1. LoopCrashes(l)
        BY <1>6, <3>1 DEF InTurn, TurnCancelled, TurnSucceeds, TurnThrows, TurnFails,
                          ResetAnnounced, ProviderEnds, IteratorEnds
      <4>2. loop' = [loop EXCEPT ![l].pc = "crashed"]
        BY <4>1 DEF LoopCrashes
      <4> QED BY <1>0, <2>2, <4>2 DEF LoopRec
    <3>2. CASE loop[l].pc = "judging"
      BY <3>2 DEF TurnInv
    <3>3. CASE loop[l].pc \in {"running", "resetting", "rechecking"}
      BY <1>0, <3>3 DEF RetryBound
    <3> QED BY <2>1, <3>1, <3>2, <3>3 DEF InTurnTo
  <2> QED BY <1>2, <2>2, <2>3, <2>4 DEF TurnInv
<1>7. CASE FinishTurn(l)
  <2>1. /\ loop' = [loop EXCEPT ![l].pc = "settling"] /\ loop[l].pc = "finishing"
        /\ current' = Nobody /\ UNCHANGED attempt
    BY <1>7 DEF FinishTurn, provider
  <2>2. loop'[l].head = loop[l].head
    BY <1>0, <2>1 DEF LoopRec
  <2> QED BY <1>0, <1>2, <2>1, <2>2 DEF TurnInv
<1>8. CASE SettleInput(l)
  <2>1. /\ loop' = [loop EXCEPT ![l] = LoopAt("take", Nobody)] /\ loop[l].pc = "settling"
        /\ UNCHANGED current
    BY <1>8 DEF SettleInput, core
  <2> QED BY <1>0, <1>2, <2>1 DEF TurnInv, LoopAt
<1> QED BY <1>3, <1>4, <1>5, <1>6, <1>7, <1>8 DEF LoopStep, InTurn, Starts

\* The other steps leave the turn and its count alone.
LEMMA TurnStep ==
    ASSUME IInv, OwnInv, TurnInv, [Next]_vars
    PROVE  TurnInv'
<1>0. loop \in [Loops -> LoopRec]
  BY DEF IInv, TypeOK
<1>1. ASSUME NEW i \in Inputs, SubmitRun(i) \/ SubmitBang(i) PROVE TurnInv'
  <2>1. UNCHANGED <<current, attempt>>
    BY <1>1 DEF SubmitRun, SubmitBang, provider
  <2>2. \A l \in Loops : loop'[l] = loop[l] \/ (loop[l].pc = "off" /\ loop'[l].pc = "take")
    BY <1>0, <1>1 DEF SubmitRun, SubmitBang, KickLoopIfNeeded, loops, At, LoopAt
  <2> QED BY <2>1, <2>2 DEF TurnInv, Between
<1>2. CASE UNCHANGED <<current, attempt, loop>>
  BY <1>2 DEF TurnInv
<1> QED BY <1>1, <1>2, TurnLoop
        DEF Next, UserStep, CallerStep, CallStep, AwaitMessage, vars, core, loops, provider,
            StopLock, CancelPending, DropOne, NothingToInterrupt, InterruptInput, InterruptOk,
            InterruptFails, InterruptAnswered, CaptureSession, EnterAwaiting, LeaveAwaiting,
            CardPosted, CardAnswered, ApplyAllowTurn, ToolCalled

\* All that the steps of the queue of turns need.
SessionInv == IInv /\ OwnInv /\ AskInv /\ TurnInv

LEMMA SessionInvariance == Spec => []SessionInv
<1>1. Init => TurnInv
  BY DEF Init, TurnInv, LoopAt
<1>2. IInv /\ OwnInv /\ TurnInv /\ [Next]_vars => TurnInv'
  BY TurnStep
<1>3. IInv /\ OwnInv /\ AskInv /\ TurnInv => SessionInv
  BY DEF SessionInv
<1> QED BY <1>1, <1>2, <1>3, AskInvariance, PTL DEF Spec

\* What is seen of the hands of the loops and of the callers depends on nothing else.
LEMMA HandsSame ==
    ASSUME SameHands
    PROVE  HeadsInHand' = HeadsInHand
BY DEF SameHands, HeadsInHand

LEMMA CallersSame ==
    ASSUME TypeOK, \A c \in Callers : caller'[c].todo = caller[c].todo
                                      /\ caller'[c].target = caller[c].target
    PROVE  Dropping' = Dropping /\ Targets' = Targets
<1>1. Dropping' = Dropping
  BY DEF Dropping
<1>2. Targets' = Targets
  BY DEF Targets
<1> QED BY <1>1, <1>2

\* There is one turn, that of the loop that is not between turns.
LEMMA OneTurn ==
    ASSUME TypeOK, OneLoop, HandAhead, NEW l \in Loops, loop[l].pc # "off"
    PROVE  /\ HeadsInHand = {loop[l].head} \ {Nobody}
           /\ \A m \in Loops : m # l => loop[m].pc = "off" /\ loop[m].head = Nobody
<1>1. \A m \in Loops : m # l => loop[m].pc = "off"
  BY DEF OneLoop, AliveLoops, At
<1>2. \A m \in Loops : m # l => loop[m].head = Nobody
  BY <1>1 DEF HandAhead, Idle
<1> QED BY <1>1, <1>2 DEF HeadsInHand

\* After the step of a loop the turn is the one it has then.
LEMMA TurnAfter ==
    ASSUME TypeOK, OneLoop, HandAhead, NEW l \in Loops, loop[l].pc # "off",
           NEW r, loop' = [loop EXCEPT ![l] = r]
    PROVE  HeadsInHand' = {r.head} \ {Nobody}
<1>1. loop'[l] = r /\ \A m \in Loops : m # l => loop'[m].head = Nobody
  BY OneTurn, OwnTypes
<1> QED BY <1>1 DEF HeadsInHand

\* What the callers are about to drop, in two words.
LEMMA ToBeDropped ==
    /\ \A i : i \in Dropping <=> \E c \in Callers : ToDrop(c, i)
    /\ \A i : i \in Dropping' <=> \E c \in Callers : ToDrop(c, i)'
BY DEF Dropping, ToDrop

\* A message is accepted behind the others.
LEMMA EnqueueSeen ==
    ASSUME SessionInv, NEW i \in Inputs, SubmitRun(i)
    PROVE  Turns!Enqueue(i)
<1>0. IInv /\ OwnInv /\ TypeOK
  BY DEF SessionInv, IInv
<1>1. /\ queue' = Append(queue, i) /\ UNCHANGED <<attempt, caller>>
      /\ NewEntry(i) /\ KickLoopIfNeeded
  BY DEF SubmitRun, QueueAfterRun, provider
<1>2. SameHands /\ done[i] = "new" /\ done' = [done EXCEPT ![i] = "pending"]
  BY <1>0, <1>1, OwnEntry
<1>3. HeadsInHand' = HeadsInHand
  BY <1>2, HandsSame
<1>4. Dropping' = Dropping /\ Targets' = Targets /\ AckedTargets' = AckedTargets
  BY <1>1 DEF Dropping, Targets, AckedTargets
<1> QED BY <1>1, <1>2, <1>3, <1>4 DEF Turns!Enqueue, Turns!Accept

\* Whoever takes the lock takes back the queue and aims at the turn there is.
LEMMA CaptureSeen ==
    ASSUME SessionInv, NEW c \in Callers, Capture(c), caller[c].pc = "start"
    PROVE  /\ Dropping' = Dropping \cup Turns!Elements(queue)
           /\ Targets' \in {Targets, Targets \cup HeadsInHand}
           /\ AckedTargets' = AckedTargets
<1>0. /\ TypeOK /\ OneLoop /\ HandAhead /\ StartsEmpty /\ Asked /\ TurnInv
      /\ Nobody \notin Inputs /\ current \in Inputs \cup {Nobody}
  BY AskTypes DEF SessionInv, IInv, OwnInv, AskInv, TypeOK
<1>1. Collects(c)
  BY <1>0, CaptureCollects
<1>2. /\ \A d \in Callers : d # c => caller'[d] = caller[d]
      /\ caller'[c].target = current /\ caller'[c].pc = "cancel"
      /\ caller[c].target = Nobody
  <2>1. caller \in [Callers -> CallerRec] /\ caller[c] \in CallerRec
    BY <1>0, OwnTypes
  <2> QED BY <1>0, <2>1 DEF Capture, CallerRec, Asked
<1>3. Dropping' = Dropping \cup Turns!Elements(queue)
  <2>1. \A i : ToDrop(c, i)' <=> i \in Turns!Elements(queue)
    BY <1>1 DEF Collects, ToDrop, Turns!Elements
  <2>2. \A i : ~ToDrop(c, i)
    BY <1>1 DEF Collects, ToDrop
  <2>3. \A d \in Callers : d # c => \A i : ToDrop(d, i)' <=> ToDrop(d, i)
    BY <1>1 DEF Collects, ToDrop
  <2>4. \A i : i \in Dropping' <=> i \in Dropping \/ i \in Turns!Elements(queue)
    BY <2>1, <2>2, <2>3, ToBeDropped
  <2> QED BY <2>4
<1>4. Targets' = Targets \cup ({current} \ {Nobody})
  BY <1>2 DEF Targets
<1>5. current # Nobody => HeadsInHand = {current}
  <2> SUFFICES ASSUME current # Nobody PROVE HeadsInHand = {current}
    OBVIOUS
  <2>1. PICK l \in Loops : loop[l].pc \notin Between /\ loop[l].head = current
    BY <1>0 DEF TurnInv
  <2>2. HeadsInHand = {loop[l].head} \ {Nobody}
    BY <1>0, <2>1, OneTurn DEF Between
  <2> QED BY <2>1, <2>2
<1>6. Targets' \in {Targets, Targets \cup HeadsInHand}
  <2>1. CASE current = Nobody
    BY <1>4, <2>1
  <2>2. CASE current # Nobody
    BY <1>4, <1>5, <2>2
  <2> QED BY <2>1, <2>2
<1>7. AckedTargets' = AckedTargets
  <2>1. \A d \in Callers : caller'[d].pc = "acked" <=> caller[d].pc = "acked"
    BY <1>2
  <2>2. \A d \in Callers : caller[d].pc = "acked" => caller'[d].target = caller[d].target
    BY <1>2
  <2>3. {t \in Stops : caller'[t].pc = "acked"} = {t \in Stops : caller[t].pc = "acked"}
    BY <2>1 DEF Callers
  <2>4. \A t \in {u \in Stops : caller[u].pc = "acked"} : caller'[t].target = caller[t].target
    BY <2>2 DEF Callers
  <2>5. {caller'[s].target : s \in {t \in Stops : caller'[t].pc = "acked"}}
        = {caller[s].target : s \in {t \in Stops : caller[t].pc = "acked"}}
    BY <2>3, <2>4
  <2> QED BY <2>5 DEF AckedTargets
<1> QED BY <1>3, <1>6, <1>7

LEMMA BangSeen ==
    ASSUME SessionInv, NEW i \in Inputs, SubmitBang(i)
    PROVE  Turns!Bang(i)
<1>0. IInv /\ OwnInv /\ StartsEmpty
  BY DEF SessionInv, OwnInv
<1>1. /\ queue' = <<i>> /\ UNCHANGED attempt /\ i \in Callers /\ i \in Bangs
      /\ NewEntry(i) /\ KickLoopIfNeeded /\ Capture(i)
  BY DEF SubmitBang, QueueAfterBang, provider, Callers
<1>2. SameHands /\ done[i] = "new" /\ done' = [done EXCEPT ![i] = "pending"]
  BY <1>0, <1>1, OwnEntry
<1>3. caller[i].pc = "start"
  BY <1>0, <1>1, <1>2 DEF StartsEmpty
<1>4. HeadsInHand' = HeadsInHand
  BY <1>2, HandsSame
<1>5. /\ Dropping' = Dropping \cup Turns!Elements(queue)
      /\ Targets' \in {Targets, Targets \cup HeadsInHand}
      /\ AckedTargets' = AckedTargets
  BY <1>1, <1>3, CaptureSeen
<1> QED BY <1>1, <1>2, <1>4, <1>5 DEF Turns!Bang, Turns!TakeBack, Turns!Accept

\* A stop in idle finds nothing to take back and no turn.
LEMMA StopLockSeen ==
    ASSUME SessionInv, NEW s \in Stops, StopLock(s)
    PROVE  Turns!Stop \/ UNCHANGED <<queue, Dropping, HeadsInHand, attempt, Targets, AckedTargets, done>>
<1>0. /\ TypeOK /\ Asked
  BY DEF SessionInv, IInv, AskInv
<1>1. /\ UNCHANGED <<attempt, done, loop>> /\ s \in Callers /\ caller[s].pc = "start"
  BY DEF StopLock, loops, provider, entries, Callers
<1>2. HeadsInHand' = HeadsInHand
  BY <1>1 DEF HeadsInHand
<1>3. CASE state # "idle"
  <2>1. Capture(s) /\ queue' = <<>>
    BY <1>3 DEF StopLock, QueueAfterStop
  <2>2. /\ Dropping' = Dropping \cup Turns!Elements(queue)
        /\ Targets' \in {Targets, Targets \cup HeadsInHand}
        /\ AckedTargets' = AckedTargets
    BY <1>1, <2>1, CaptureSeen
  <2> QED BY <1>1, <1>2, <2>1, <2>2 DEF Turns!Stop, Turns!TakeBack
<1>4. CASE state = "idle"
  <2>1. /\ UNCHANGED queue
        /\ caller' = [caller EXCEPT ![s] = [@ EXCEPT !.pc = "acked", !.at = nextSeq]]
    BY <1>4 DEF StopLock
  <2>2. /\ \A d \in Callers : d # s => caller'[d] = caller[d]
        /\ caller'[s].todo = caller[s].todo /\ caller'[s].target = Nobody
        /\ caller[s].target = Nobody
    <3>1. caller \in [Callers -> CallerRec] /\ caller[s] \in CallerRec
      BY <1>0, <1>1, OwnTypes
    <3> QED BY <1>0, <1>1, <2>1, <3>1 DEF CallerRec, Asked
  <2>3. Dropping' = Dropping /\ Targets' = Targets
    BY <1>0, <2>2, CallersSame
  <2>4. AckedTargets' = AckedTargets
    BY <1>1, <2>2 DEF AckedTargets, Callers
  <2> QED BY <1>1, <1>2, <2>1, <2>3, <2>4
<1> QED BY <1>3, <1>4

\* What was taken back first is answered first, and is in nobody else's list.
LEMMA DropSeen ==
    ASSUME SessionInv, NEW c \in Callers, DropOne(c)
    PROVE  \E i \in Inputs : Turns!Return(i)
<1> DEFINE todo == caller[c].todo
           i == Head(todo)
<1>0. TypeOK /\ DropsApart
  BY DEF SessionInv, IInv, OwnInv
<1>1. /\ UNCHANGED <<queue, attempt, loop>>
      /\ done' = [done EXCEPT ![i] = "interrupted"]
      /\ caller' = [caller EXCEPT ![c].todo = Tail(@)]
      /\ caller \in [Callers -> CallerRec] /\ caller[c] \in CallerRec
      /\ todo \in Seq(Inputs) /\ todo # <<>>
  BY <1>0, OwnTypes DEF DropOne, core, loops, provider
<1>2. /\ caller'[c].todo = Tail(todo) /\ caller'[c].pc = caller[c].pc
      /\ caller'[c].target = caller[c].target
      /\ \A d \in Callers : d # c => caller'[d] = caller[d]
  BY <1>1 DEF CallerRec
<1>3. /\ 1 \in DOMAIN todo /\ i = todo[1] /\ i \in Inputs
      /\ \A n \in DOMAIN Tail(todo) : n \in Nat \ {0} /\
            n + 1 \in DOMAIN todo /\ Tail(todo)[n] = todo[n + 1]
      /\ \A n \in DOMAIN todo : n # 1 => n - 1 \in DOMAIN Tail(todo) /\ n \in Nat /\ (n - 1) + 1 = n
  BY <1>1
<1>4. \A n \in DOMAIN todo : todo[n] = i => n = 1
  BY <1>0, <1>3 DEF DropsApart
<1>5. \A d \in Callers : d # c => ~ToDrop(d, i)
  BY <1>0, <1>3 DEF DropsApart, ToDrop
<1>6. \A j : ToDrop(c, j)' <=> ToDrop(c, j) /\ j # i
  <2> TAKE j
  <2>1. ASSUME ToDrop(c, j)' PROVE ToDrop(c, j) /\ j # i
    <3>1. PICK n \in DOMAIN Tail(todo) : Tail(todo)[n] = j
      BY <1>2, <2>1 DEF ToDrop
    <3>2. n \in Nat \ {0} /\ n + 1 \in DOMAIN todo /\ todo[n + 1] = j
      BY <1>3, <3>1
    <3>3. n + 1 # 1
      BY <3>2
    <3> QED BY <1>4, <3>2, <3>3 DEF ToDrop
  <2>2. ASSUME ToDrop(c, j), j # i PROVE ToDrop(c, j)'
    <3>1. PICK n \in DOMAIN todo : todo[n] = j
      BY <2>2 DEF ToDrop
    <3>2. n - 1 \in DOMAIN Tail(todo) /\ (n - 1) + 1 = n
      BY <1>3, <2>2, <3>1
    <3>3. Tail(todo)[n - 1] = j
      BY <1>3, <3>1, <3>2
    <3> QED BY <1>2, <3>2, <3>3 DEF ToDrop
  <2> QED BY <2>1, <2>2
<1>7. ToDrop(c, i)
  BY <1>3 DEF ToDrop
<1> HIDE DEF i
<1>8. \A d \in Callers : d # c => \A j : ToDrop(d, j)' <=> ToDrop(d, j)
  BY <1>2 DEF ToDrop
<1>9. i \in Dropping /\ Dropping' = Dropping \ {i}
  <2>1. \A j : j \in Dropping' <=> j \in Dropping /\ j # i
    BY <1>5, <1>6, <1>8, ToBeDropped
  <2> QED BY <1>7, <2>1, ToBeDropped
<1>10. HeadsInHand' = HeadsInHand
  BY <1>1 DEF HeadsInHand
<1>11. \A d \in Callers : caller'[d].pc = caller[d].pc /\ caller'[d].target = caller[d].target
  BY <1>2
<1>12. Targets' = Targets /\ AckedTargets' = AckedTargets
  BY <1>11 DEF Targets, AckedTargets, Callers
<1> QED BY <1>1, <1>3, <1>9, <1>10, <1>12 DEF Turns!Return

\* The first message that waits has its turn; the loop had none.
LEMMA TakeSeen ==
    ASSUME SessionInv, NEW l \in Loops, TakeNext(l)
    PROVE  Turns!Begin
<1>0. TypeOK /\ OneLoop /\ HandAhead /\ Nobody \notin Inputs
  BY AskTypes DEF SessionInv, IInv, OwnInv
<1>1. /\ loop[l].pc = "take" /\ queue # <<>> /\ queue' = Tail(queue)
      /\ loop' = [loop EXCEPT ![l] = LoopAt("opening", Head(queue))]
      /\ UNCHANGED <<attempt, done, caller>>
  BY DEF TakeNext, provider, entries, At
<1>2. Head(queue) \in Inputs
  BY <1>0, <1>1, OwnTypes
<1>3. loop[l].head = Nobody
  BY <1>0, <1>1 DEF HandAhead, Idle
<1>4. HeadsInHand = {}
  <2>1. HeadsInHand = {loop[l].head} \ {Nobody}
    BY <1>0, <1>1, OneTurn
  <2> QED BY <1>3, <2>1
<1>5. HeadsInHand' = {Head(queue)}
  <2> DEFINE r == LoopAt("opening", Head(queue))
  <2>1. r.head = Head(queue) /\ loop' = [loop EXCEPT ![l] = r]
    BY <1>1 DEF LoopAt
  <2> HIDE DEF r
  <2>2. HeadsInHand' = {r.head} \ {Nobody}
    BY <1>0, <1>1, <2>1, TurnAfter
  <2> QED BY <1>0, <1>2, <2>1, <2>2
<1>6. Dropping' = Dropping /\ Targets' = Targets /\ AckedTargets' = AckedTargets
  BY <1>1 DEF Dropping, Targets, AckedTargets
<1> QED BY <1>1, <1>4, <1>5, <1>6 DEF Turns!Begin

\* A provider call is one of the turn, the second at most, and none after an acknowledged stop.
LEMMA RunSeen ==
    ASSUME SessionInv, NEW l \in Loops, Starts(l)
    PROVE  Turns!Run(loop[l].head) /\ loop[l].head \in Inputs
<1> DEFINE i == loop[l].head
<1>0. /\ TypeOK /\ OneLoop /\ HandAhead /\ HeadsTyped /\ RetryBound
      /\ Asked /\ LoopsWait /\ AckedStopped /\ Nobody \notin Inputs /\ attempt \in [Inputs -> 0..2]
  BY AskTypes, OwnTypes DEF SessionInv, IInv, OwnInv, AskInv
<1>1. /\ StartRun(l, i) /\ UNCHANGED <<queue, done>>
      /\ loop[l].pc \in {"opening", "resetting", "rechecking"}
      /\ i \in Inputs /\ attempt[i] \in {0, 1}
  BY <1>0, StartSteps
<1>2. UNCHANGED caller
  BY DEF Starts, StartProvider, RetryAfterRefusal, ResetAnnounced
<1>3. HeadsInHand = {i}
  <2>1. HeadsInHand = {i} \ {Nobody}
    BY <1>0, <1>1, OneTurn
  <2> QED BY <1>0, <1>1, <2>1
<1>4. HeadsInHand' = {i}
  <2> DEFINE r == LoopAt("running", i)
  <2>1. r.head = i /\ loop' = [loop EXCEPT ![l] = r]
    BY <1>1 DEF LoopAt, StartRun
  <2> HIDE DEF r
  <2>2. HeadsInHand' = {r.head} \ {Nobody}
    BY <1>0, <1>1, <2>1, TurnAfter
  <2> QED BY <1>0, <1>1, <2>1, <2>2
<1>5. i \notin AckedTargets
  <2> SUFFICES ASSUME i \in AckedTargets PROVE FALSE
    OBVIOUS
  <2>1. PICK s \in Stops : caller[s].pc = "acked" /\ caller[s].target = i
    BY DEF AckedTargets
  <2>2. Stopped(i) /\ attempt[i] > 0
    BY <1>0, <1>1, <2>1 DEF AckedStopped, Asked, Callers
  <2>3. ~StartProvider(l)
    BY <1>0, <2>2 DEF StartProvider, RetryBound, At
  <2>4. ~(ResetAnnounced(l) /\ ~StopSeen(l))
    BY <2>2 DEF StopSeen, Stopped
  <2>5. ~RetryAfterRefusal(l)
    BY <1>0, <2>2 DEF RetryAfterRefusal, NotCancelled, LoopsWait, LoopWaits, Stopped, At
  <2> QED BY <2>3, <2>4, <2>5 DEF Starts
<1>6. Dropping' = Dropping /\ Targets' = Targets /\ AckedTargets' = AckedTargets
  BY <1>2 DEF Dropping, Targets, AckedTargets
<1>7. attempt' = [attempt EXCEPT ![i] = @ + 1] /\ attempt[i] < 2
  BY <1>1 DEF StartRun
<1> QED BY <1>1, <1>3, <1>4, <1>5, <1>6, <1>7 DEF Turns!Run

\* A turn that ends had a provider call, and is interrupted only if it was unwanted.
LEMMA FinishSeen ==
    ASSUME SessionInv, NEW l \in Loops, SettleInput(l)
    PROVE  \E i \in Inputs : \E how \in {"resolved", "interrupted", "failed"} : Turns!Finish(i, how)
<1> DEFINE i == loop[l].head
           how == loop[l].outcome
<1>0. /\ TypeOK /\ OneLoop /\ HandAhead /\ HeadsTyped /\ Asked /\ LoopsWait /\ TurnInv
      /\ Nobody \notin Inputs /\ Nobody \notin Callers
  BY AskTypes DEF SessionInv, IInv, OwnInv, AskInv
<1>1. /\ loop[l].pc = "settling" /\ done' = [done EXCEPT ![i] = how]
      /\ loop' = [loop EXCEPT ![l] = LoopAt("take", Nobody)]
      /\ UNCHANGED <<queue, attempt, caller>>
  BY DEF SettleInput, core, provider, At
<1>2. i \in Inputs /\ how \in {"resolved", "interrupted", "failed"} /\ attempt[i] > 0
  BY <1>0, <1>1 DEF HeadsTyped, Idle, Settled, TurnInv
<1>3. HeadsInHand = {i}
  <2>1. HeadsInHand = {i} \ {Nobody}
    BY <1>0, <1>1, OneTurn
  <2> QED BY <1>0, <1>2, <2>1
<1>4. HeadsInHand' = {}
  <2> DEFINE r == LoopAt("take", Nobody)
  <2>1. r.head = Nobody /\ loop' = [loop EXCEPT ![l] = r]
    BY <1>1 DEF LoopAt
  <2> HIDE DEF r
  <2>2. HeadsInHand' = {r.head} \ {Nobody}
    BY <1>0, <1>1, <2>1, TurnAfter
  <2> QED BY <2>1, <2>2
<1>5. how = "interrupted" => i \in Targets
  <2> SUFFICES ASSUME how = "interrupted" PROVE i \in Targets
    OBVIOUS
  <2>1. Stopped(i)
    BY <1>0, <1>1 DEF LoopsWait, LoopWaits
  <2>2. interruption[i] \in Callers /\ caller[interruption[i]].target = i
    BY <1>0, <1>2, <2>1, AskTypes DEF Stopped, Asked
  <2> QED BY <1>0, <1>2, <2>2 DEF Targets
<1>6. Dropping' = Dropping /\ Targets' = Targets /\ AckedTargets' = AckedTargets
  BY <1>1 DEF Dropping, Targets, AckedTargets
<1>7. Turns!Finish(i, how)
  <2> HIDE DEF i, how
  <2> QED BY <1>1, <1>2, <1>3, <1>4, <1>5, <1>6 DEF Turns!Finish
<1> HIDE DEF i, how
<1> QED BY <1>2, <1>7

\* The other steps of the loop do not show: the state and the current turn are its own.
LEMMA LoopUnseen ==
    ASSUME SessionInv, NEW l \in Loops, InTurn(l) \/ FinishTurn(l) \/ LoopEnds(l)
    PROVE  UNCHANGED <<queue, Dropping, HeadsInHand, attempt, Targets, AckedTargets, done>>
<1>0. /\ TypeOK /\ HeadsTyped /\ RetryBound /\ HandAhead
      /\ loop \in [Loops -> LoopRec] /\ loop[l] \in LoopRec
  BY OwnTypes DEF SessionInv, IInv, OwnInv
<1>1. UNCHANGED <<queue, attempt, done, caller>> /\ \A m \in Loops : loop'[m].head = loop[m].head
  <2>1. CASE InTurn(l)
    <3>1. PICK r : InTurnTo(l, r)
      BY <1>0, <2>1, InTurnSteps
    <3>2. UNCHANGED caller
      <4>1. LoopStep(l) \/ ProviderEnds(l)
        BY <2>1 DEF InTurn, LoopStep
      <4> QED BY <4>1, LoopJudges DEF SessionInv
    <3> QED BY <1>0, <3>1, <3>2 DEF InTurnTo
  <2>2. CASE FinishTurn(l)
    BY <1>0, <2>2 DEF FinishTurn, LoopRec, provider, entries
  <2>3. CASE LoopEnds(l)
    <3>1. loop[l].head = Nobody /\ loop' = [loop EXCEPT ![l] = LoopAt("off", Nobody)]
      BY <1>0, <2>3 DEF LoopEnds, HandAhead, Idle, At
    <3> QED BY <1>0, <2>3, <3>1 DEF LoopEnds, LoopAt, provider, entries
  <2> QED BY <2>1, <2>2, <2>3
<1>2. HeadsInHand' = HeadsInHand
  BY <1>1 DEF HeadsInHand
<1>3. Dropping' = Dropping /\ Targets' = Targets /\ AckedTargets' = AckedTargets
  BY <1>1 DEF Dropping, Targets, AckedTargets
<1> QED BY <1>1, <1>2, <1>3

\* Of the callers only the answers show, and of those the acknowledgements of a stop.
LEMMA CallerSeen ==
    ASSUME SessionInv, NEW c \in Callers, CallerStep(c), ~DropOne(c)
    PROVE  \/ \E i \in Inputs : Turns!Acknowledge(i)
           \/ UNCHANGED <<queue, Dropping, HeadsInHand, attempt, Targets, AckedTargets, done>>
<1>0. TypeOK /\ caller[c].target \in Inputs \cup {Nobody}
  BY AskTypes DEF SessionInv, IInv
<1>1. UNCHANGED <<queue, attempt, done, loop>>
  <2>1. CASE CancelPending(c)
    BY <2>1 DEF CancelPending, core, loops, provider, entries
  <2>4. CASE NothingToInterrupt(c) \/ InterruptAnswered(c)
    BY <2>4 DEF NothingToInterrupt, InterruptAnswered, core, loops, provider, entries
  <2>2. CASE InterruptInput(c)
    BY <2>2 DEF InterruptInput, core, loops, entries
  <2>3. CASE InterruptOk(c) \/ InterruptFails(c)
    BY <2>3 DEF InterruptOk, InterruptFails, core, loops, provider, entries
  <2> QED BY <2>1, <2>2, <2>3, <2>4 DEF CallerStep
<1>2. Moves(c) /\ (c \in Stops => caller[c].pc # "acked")
  <2>1. CASE CancelPending(c)
    <3>1. caller' = [caller EXCEPT ![c].pc = "drop"] /\ caller[c].pc # "acked"
      BY <2>1 DEF CancelPending
    <3> QED BY <1>0, <3>1, MoveTo
  <2>2. CASE NothingToInterrupt(c)
    <3>1. \E pc : caller' = [caller EXCEPT ![c].pc = pc]
      BY <2>2 DEF NothingToInterrupt, Return
    <3> QED BY <1>0, <2>2, <3>1, MoveTo DEF NothingToInterrupt
  <2>3. CASE InterruptInput(c)
    <3> DEFINE w == interruption[caller[c].target]
               pc == IF w = Nobody THEN "threw"
                     ELSE IF request[w] = "asked" THEN "dispatching" ELSE "awaiting"
    <3>1. caller' = [caller EXCEPT ![c] = [@ EXCEPT !.waitFor = w, !.pc = pc]]
      BY <2>3 DEF InterruptInput
    <3>2. caller[c].pc # "acked"
      BY <2>3 DEF InterruptInput
    <3>3. TypeOK
      BY <1>0
    <3> HIDE DEF w, pc
    <3>4. Moves(c)
      BY <3>1, <3>3, MoveWaiting
    <3> QED BY <3>2, <3>4
  <2>4. CASE InterruptOk(c) \/ InterruptFails(c)
    BY <1>0, <2>4, MoveTo DEF InterruptOk, InterruptFails
  <2>5. CASE InterruptAnswered(c)
    <3>1. \E pc : caller' = [caller EXCEPT ![c].pc = pc]
      BY <2>5 DEF InterruptAnswered, Return
    <3> QED BY <1>0, <2>5, <3>1, MoveTo DEF InterruptAnswered
  <2> QED BY <2>1, <2>2, <2>3, <2>4, <2>5 DEF CallerStep
<1>3. HeadsInHand' = HeadsInHand
  BY <1>1 DEF HeadsInHand
<1>4. Dropping' = Dropping /\ Targets' = Targets
  BY <1>0, <1>2, CallersSame DEF Moves
<1>5. \A d \in Callers : caller'[d].target = caller[d].target
  BY <1>2 DEF Moves
<1>6. CASE c \in Stops /\ caller'[c].pc = "acked" /\ caller[c].target # Nobody
  <2> DEFINE i == caller[c].target
  <2>1. i \in Inputs /\ i \in Targets
    BY <1>0, <1>6 DEF Targets
  <2>2. {t \in Stops : caller'[t].pc = "acked"} = {t \in Stops : caller[t].pc = "acked"} \cup {c}
    BY <1>2, <1>6 DEF Moves, Callers
  <2>3. AckedTargets' = AckedTargets \cup {i}
    BY <1>5, <1>6, <2>2 DEF AckedTargets, Callers
  <2> HIDE DEF i
  <2>4. Turns!Acknowledge(i)
    BY <1>1, <1>3, <1>4, <2>1, <2>3 DEF Turns!Acknowledge
  <2> QED BY <2>1, <2>4
<1>7. CASE ~(c \in Stops /\ caller'[c].pc = "acked" /\ caller[c].target # Nobody)
  <2>1. AckedTargets' = AckedTargets
    <3>1. \A x : x # Nobody => ((\E s \in Stops : caller'[s].pc = "acked" /\ caller'[s].target = x)
                                <=> \E s \in Stops : caller[s].pc = "acked" /\ caller[s].target = x)
      BY <1>2, <1>5, <1>7 DEF Moves, Callers
    <3> QED BY <3>1 DEF AckedTargets
  <2> QED BY <1>1, <1>3, <1>4, <2>1
<1> QED BY <1>6, <1>7

LEMMA StepSeen ==
    ASSUME SessionInv, [Next]_vars
    PROVE  \/ Turns!Next
           \/ UNCHANGED <<queue, Dropping, HeadsInHand, attempt, Targets, AckedTargets, done>>
<1>1. ASSUME NEW i \in Inputs, SubmitRun(i) PROVE Turns!Next
  BY <1>1, EnqueueSeen DEF Turns!Next
<1>2. ASSUME NEW i \in Inputs, SubmitBang(i) PROVE Turns!Next
  BY <1>2, BangSeen DEF Turns!Next
<1>3. CASE \E s \in Stops : StopLock(s)
  BY <1>3, StopLockSeen DEF Turns!Next
<1>4. ASSUME NEW c \in Callers, DropOne(c) PROVE Turns!Next
  BY <1>4, DropSeen DEF Turns!Next
<1>5. CASE \E c \in Callers : CallerStep(c) /\ ~DropOne(c)
  BY <1>5, CallerSeen DEF Turns!Next
<1>6. ASSUME NEW l \in Loops, TakeNext(l) PROVE Turns!Next
  BY <1>6, TakeSeen DEF Turns!Next
<1>7. ASSUME NEW l \in Loops, Starts(l) PROVE Turns!Next
  BY <1>7, RunSeen DEF Turns!Next
<1>8. ASSUME NEW l \in Loops, SettleInput(l) PROVE Turns!Next
  BY <1>8, FinishSeen DEF Turns!Next
<1>9. CASE \E l \in Loops : InTurn(l) \/ FinishTurn(l) \/ LoopEnds(l)
  BY <1>9, LoopUnseen
<1>10. CASE UNCHANGED <<queue, attempt, done, loop, caller>>
  BY <1>10 DEF Dropping, HeadsInHand, Targets, AckedTargets
<1>11. ASSUME NEW k \in Calls, CallStep(k) \/ \E i \in Inputs : ToolCalled(k, i)
       PROVE  UNCHANGED <<queue, attempt, done, loop, caller>>
  BY <1>11 DEF CallStep, ToolCalled, EnterAwaiting, LeaveAwaiting, CardPosted, CardAnswered,
               ApplyAllowTurn, core, loops, provider, entries
<1>12. ASSUME NEW l \in Loops, CaptureSession(l) PROVE UNCHANGED <<queue, attempt, done, loop, caller>>
  BY <1>12 DEF CaptureSession, core, loops, entries
<1>13. CASE AwaitMessage \/ UNCHANGED vars
  BY <1>10, <1>13 DEF AwaitMessage, vars, core, loops, provider, entries
<1>14. ASSUME NEW l \in Loops, LoopStep(l) \/ ProviderEnds(l)
       PROVE  \/ TakeNext(l) \/ Starts(l) \/ SettleInput(l)
              \/ InTurn(l) \/ FinishTurn(l) \/ LoopEnds(l)
  BY <1>14 DEF LoopStep, Starts, InTurn
<1> QED BY <1>1, <1>2, <1>3, <1>4, <1>5, <1>6, <1>7, <1>8, <1>9, <1>10, <1>11, <1>12, <1>13, <1>14
        DEF Next, UserStep

\* Whatever its loops, locks and awaits are, a session is a queue of turns: messages have their
\* turns one at a time and in the order of acceptance, what a stop or a bang took back never
\* runs, a turn whose stop was acknowledged is not run again, and nobody gets two answers or
\* an "interrupted" that nobody asked for (submit, stop, processLoop).
THEOREM SessionIsTurnQueue == Spec => ImplementsTurnQueue
<1>1. Init => Turns!Init
  <2> SUFFICES ASSUME Init PROVE Turns!Init
    OBVIOUS
  <2>1. \A c \in Callers : caller[c].todo = <<>> /\ caller[c].target = Nobody
    BY DEF Init
  <2>2. Dropping = {}
    BY <2>1 DEF Dropping
  <2>3. Targets = {} /\ AckedTargets = {}
    BY <2>1 DEF Targets, AckedTargets, Callers
  <2>4. HeadsInHand = {}
    BY DEF Init, HeadsInHand, LoopAt
  <2> QED BY <2>2, <2>3, <2>4 DEF Init, Turns!Init
<1>2. SessionInv /\ [Next]_vars =>
         [Turns!Next]_<<queue, Dropping, HeadsInHand, attempt, Targets, AckedTargets, done>>
  BY StepSeen
<1> QED BY <1>1, <1>2, SessionInvariance, PTL DEF Spec, ImplementsTurnQueue, Turns!Spec

=============================================================================
