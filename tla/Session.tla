------------------------------ MODULE Session ------------------------------
(***************************************************************************)
(* One ClaudeSession (src/claude/session.ts): its state, its input queue,  *)
(* the processLoop that runs one provider turn at a time, and the callers  *)
(* that act on it concurrently -- submit() with a plain message, submit()  *)
(* with a "!" message (a "bang"), stop(), and the canUseTool closures the  *)
(* provider calls while a turn runs.                                       *)
(*                                                                         *)
(* The process has one JavaScript thread.  Code between two awaits is one  *)
(* atomic step; an await is a point where any other caller may run, and    *)
(* so is a mutex section, whose body never awaits.  The permission broker  *)
(* appears as the phases a request goes through (posting the card,         *)
(* waiting, answered); PermissionBroker.tla models it in detail.           *)
(***************************************************************************)
EXTENDS Integers, Sequences, FiniteSets

CONSTANTS
    Inputs,      \* messages that reach submit(): each is submitted at most once
    Bangs,       \* those among them that start with "!"
    Stops,       \* calls of stop()
    Calls,       \* calls of canUseTool that need a permission card
    Loops,       \* invocations of processLoop that may exist at a time
    Nobody,      \* no input, no caller
    Faults       \* external failures that may happen

\* "open": queryFn throws; "interrupt": handle.interrupt() rejects;
\* "too_large": the provider rejects the accumulated context.
FaultKinds == {"open", "interrupt", "too_large"}

Callers == Stops \cup Bangs

ASSUME SessionAssumption ==
    /\ Bangs \subseteq Inputs
    /\ Stops \cap Inputs = {}
    /\ Nobody \notin Inputs \cup Stops
    /\ Faults \subseteq FaultKinds

VARIABLES
    state,        \* SessionState
    queue,        \* inputQueue
    current,      \* currentTurn.input; its handle is that input's latest run
    loopRunning,  \* the flag kickLoopIfNeeded tests
    loop,         \* each invocation of processLoop: pc and locals
    hasSession,   \* claudeSessionId !== undefined
    attempt,      \* how many times queryFn ran for the input
    run,          \* the latest provider run of the input
    nextSeq,      \* nextSeq
    seq,          \* QueuedInput.seq, 0 before submit()
    done,         \* QueuedInput.done
    interruption, \* QueuedInput.interruption: the caller that created it
    request,      \* the record that caller created: dispatched, settled
    caller,       \* stop() and submitInterruptAndRun(): pc and locals
    accepting,    \* provider runs switched to acceptEdits
    call          \* canUseTool closures: phase, their run, the answer

core       == <<state, queue, current>>
loops      == <<loopRunning, loop>>
provider   == <<hasSession, attempt, run>>
entries    == <<nextSeq, seq, done>>
interrupts == <<interruption, request>>
tools      == <<accepting, call>>
vars == <<core, loops, provider, entries, interrupts, caller, tools>>

----------------------------------------------------------------------------
(* Types.                                                                  *)

Settled == {"resolved", "interrupted", "failed"}
LoopPcs == {"off", "take", "opening", "running", "judging", "resetting",
            "rechecking", "finishing", "settling", "crashed"}
CallerPcs == {"start", "cancel", "drop", "dispatching", "awaiting",
              "acked", "returned", "threw"}
Phases == {"unused", "entering", "posting", "waiting", "leaving", "applying",
           "returned"}
Answers == {"allow", "deny", "allow_turn"}
Endings == {"ok", "error", "too_large"}
Runs == Inputs \X {1, 2}

LoopRec == [pc: LoopPcs, head: Inputs \cup {Nobody}, ending: Endings \cup {"none"},
            inRun: BOOLEAN, waitFor: Callers \cup {Nobody},
            outcome: Settled \cup {"none"}]
CallerRec == [pc: CallerPcs, todo: Seq(Inputs), target: Inputs \cup {Nobody},
              handle: 0..2, cancel: BOOLEAN, waitFor: Callers \cup {Nobody},
              at: Nat]
CallRec == [phase: Phases, of: Runs \cup {Nobody}, answer: Answers \cup {"none"}]

TypeOK ==
    /\ state \in {"idle", "generating", "awaiting_permission"}
    /\ queue \in Seq(Inputs)
    /\ current \in Inputs \cup {Nobody}
    /\ loopRunning \in BOOLEAN
    /\ loop \in [Loops -> LoopRec]
    /\ hasSession \in BOOLEAN
    /\ attempt \in [Inputs -> 0..2]
    /\ run \in [Inputs -> {"none", "live", "aborted", "over"}]
    /\ nextSeq \in Nat \ {0}
    /\ seq \in [Inputs -> Nat]
    /\ done \in [Inputs -> Settled \cup {"new", "pending"}]
    /\ interruption \in [Inputs -> Callers \cup {Nobody}]
    /\ request \in [Callers -> {"none", "asked", "dispatched", "settled", "refused"}]
    /\ caller \in [Callers -> CallerRec]
    /\ accepting \subseteq Runs
    /\ call \in [Calls -> CallRec]

LoopAt(pc, i) == [pc |-> pc, head |-> i, ending |-> "none", inRun |-> FALSE,
                  waitFor |-> Nobody, outcome |-> "none"]

Init ==
    /\ state = "idle" /\ queue = <<>> /\ current = Nobody
    /\ loopRunning = FALSE /\ loop = [l \in Loops |-> LoopAt("off", Nobody)]
    /\ hasSession = FALSE
    /\ attempt = [i \in Inputs |-> 0]
    /\ run = [i \in Inputs |-> "none"]
    /\ nextSeq = 1
    /\ seq = [i \in Inputs |-> 0]
    /\ done = [i \in Inputs |-> "new"]
    /\ interruption = [i \in Inputs |-> Nobody]
    /\ request = [c \in Callers |-> "none"]
    /\ caller = [c \in Callers |-> [pc |-> "start", todo |-> <<>>, target |-> Nobody,
                    handle |-> 0, cancel |-> FALSE, waitFor |-> Nobody, at |-> 0]]
    /\ accepting = {}
    /\ call = [k \in Calls |-> [phase |-> "unused", of |-> Nobody, answer |-> "none"]]

----------------------------------------------------------------------------
(* submit() and the mutex section of stop().                               *)

At(l, pc) == loop[l].pc = pc
Answered(c) == request[c] \in {"settled", "refused"}

\* A message is I/O: it is handled after the continuations of the promises that
\* have settled.  It matters in one place, the await before the retry.
Quiet == ~\E l \in Loops : At(l, "rechecking") /\ Answered(loop[l].waitFor)

\* Every submit() builds its QueuedInput first.
NewEntry(i) ==
    /\ Quiet
    /\ done[i] = "new"
    /\ seq' = [seq EXCEPT ![i] = nextSeq]
    /\ nextSeq' = nextSeq + 1
    /\ done' = [done EXCEPT ![i] = "pending"]

KickNeeded_always == TRUE  \* mutant: no test
KickNeeded == ~loopRunning

\* kickLoopIfNeeded: a new processLoop unless one is believed to run.
KickLoopIfNeeded ==
    IF KickNeeded
    THEN /\ loopRunning' = TRUE
         /\ \E l \in Loops : /\ At(l, "off")
                             /\ loop' = [loop EXCEPT ![l] = LoopAt("take", Nobody)]
    ELSE UNCHANGED loops

QueueAfterRun_first(i) == <<i>> \o queue  \* mutant: put at the wrong end
QueueAfterRun(i) == Append(queue, i)

\* A plain message: "started" from idle, "queued" otherwise.  The queued
\* notice goes out after the lock and changes no state of the session.
SubmitRun(i) ==
    /\ i \notin Bangs
    /\ NewEntry(i)
    /\ queue' = QueueAfterRun(i)
    /\ state' = IF state = "idle" THEN "generating" ELSE state
    /\ KickLoopIfNeeded
    /\ UNCHANGED <<current, provider, interrupts, caller, tools>>

\* What stop() and the bang capture of the current turn under the lock, with
\* `interruption ??= {...}` on its input.  `at` is history: the messages
\* submitted before this caller have a smaller seq.
Capture(c) ==
    /\ caller' = [caller EXCEPT ![c] =
           [@ EXCEPT !.pc = "cancel", !.todo = queue, !.target = current,
                     !.handle = IF current = Nobody THEN 0 ELSE attempt[current],
                     !.cancel = (state = "awaiting_permission"), !.at = nextSeq]]
    /\ IF current # Nobody /\ interruption[current] = Nobody
       THEN /\ interruption' = [interruption EXCEPT ![current] = c]
            /\ request' = [request EXCEPT ![c] = "asked"]
       ELSE UNCHANGED interrupts

\* The queue after the drain of a bang, and of a stop.
QueueAfterBang_behind(i) == Append(queue, i)  \* mutant: the drain is forgotten
QueueAfterBang(i) == <<i>>
QueueAfterStop_kept == queue  \* mutant: what it drops stays queued
QueueAfterStop == <<>>

\* submitInterruptAndRun, its mutex section.
SubmitBang(i) ==
    /\ i \in Bangs
    /\ NewEntry(i)
    /\ Capture(i)
    /\ state' = "generating"
    /\ queue' = QueueAfterBang(i)
    /\ KickLoopIfNeeded
    /\ UNCHANGED <<current, provider, tools>>

\* stop(), its mutex section.  In idle there is nothing to do but the ack.
StopLock(s) ==
    /\ Quiet
    /\ caller[s].pc = "start"
    /\ IF state = "idle"
       THEN /\ caller' = [caller EXCEPT ![s] = [@ EXCEPT !.pc = "acked", !.at = nextSeq]]
            /\ UNCHANGED <<state, queue, interrupts>>
       ELSE /\ Capture(s)
            /\ state' = "generating"
            /\ queue' = QueueAfterStop
    /\ UNCHANGED <<current, loops, provider, entries, tools>>

----------------------------------------------------------------------------
(* The rest of stop() and submitInterruptAndRun(), outside the lock.       *)

\* cancelAll of both brokers; the permission broker's only when the session
\* was awaiting a permission.  It settles the requests it has registered.
CancelPending(c) ==
    /\ caller[c].pc = "cancel"
    /\ caller' = [caller EXCEPT ![c].pc = "drop"]
    /\ call' = [k \in Calls |->
                  IF caller[c].cancel /\ call[k].phase = "waiting"
                  THEN [call[k] EXCEPT !.phase = "leaving", !.answer = "deny"]
                  ELSE call[k]]
    /\ UNCHANGED <<core, loops, provider, entries, interrupts, accepting>>

\* The "interrupted" notice of one dropped input was sent (or failed).
DropOne(c) ==
    /\ caller[c].pc = "drop"
    /\ caller[c].todo # <<>>
    /\ done' = [done EXCEPT ![Head(caller[c].todo)] = "interrupted"]
    /\ caller' = [caller EXCEPT ![c].todo = Tail(@)]
    /\ UNCHANGED <<core, loops, provider, nextSeq, seq, interrupts, tools>>

\* stop() ends by emitting stop_ack, a bang by returning "started".
Return(c) == caller' = [caller EXCEPT ![c].pc = IF c \in Stops THEN "acked" ELSE "returned"]

\* Nothing is left to drop, and no turn was captured.
NothingToInterrupt(c) ==
    /\ caller[c].pc = "drop"
    /\ caller[c].todo = <<>>
    /\ caller[c].target = Nobody
    /\ Return(c)
    /\ UNCHANGED <<core, loops, provider, entries, interrupts, tools>>

\* handle.interrupt() reaches the provider run the caller captured.
Abort(i, n) ==
    run' = IF attempt[i] = n /\ run[i] = "live"
           THEN [run EXCEPT ![i] = "aborted"] ELSE run

\* interruptInput up to its await.  The first caller dispatches the request,
\* the others wait for its answer.  When a failed interrupt has deleted it in
\* the meantime `input.interruption!` is undefined and reading it throws.
InterruptInput(c) ==
    LET i == caller[c].target
        r == interruption[i]
    IN  /\ caller[c].pc = "drop"
        /\ caller[c].todo = <<>>
        /\ i # Nobody
        /\ IF r # Nobody /\ request[r] = "asked"
           THEN /\ request' = [request EXCEPT ![r] = "dispatched"]
                /\ Abort(i, caller[c].handle)
           ELSE UNCHANGED <<request, run>>
        /\ caller' = [caller EXCEPT ![c] = [@ EXCEPT
              !.waitFor = r,
              !.pc = IF r = Nobody THEN "threw"
                     ELSE IF request[r] = "asked" THEN "dispatching" ELSE "awaiting"]]
        /\ UNCHANGED <<core, loops, hasSession, attempt, entries, interruption, tools>>

\* handle.interrupt() resolved.
InterruptOk(c) ==
    /\ caller[c].pc = "dispatching"
    /\ request' = [request EXCEPT ![caller[c].waitFor] = "settled"]
    /\ caller' = [caller EXCEPT ![c].pc = "awaiting"]
    /\ UNCHANGED <<core, loops, provider, entries, interruption, tools>>

Refusal_asSettled == "settled"     \* mutant: a failure looks like a cancellation
Refusal_silent    == "dispatched"  \* mutant: settled is never resolved
Refusal == "refused"

\* handle.interrupt() rejected: the record is deleted so that a later /stop
\* may retry, and everyone waiting on it learns that it failed.
InterruptFails(c) ==
    LET r == caller[c].waitFor
        i == caller[c].target
    IN  /\ "interrupt" \in Faults
        /\ caller[c].pc = "dispatching"
        /\ request' = [request EXCEPT ![r] = Refusal]
        /\ interruption' = IF interruption[i] = r
                           THEN [interruption EXCEPT ![i] = Nobody] ELSE interruption
        /\ caller' = [caller EXCEPT ![c].pc = "awaiting"]
        /\ UNCHANGED <<core, loops, provider, entries, tools>>

\* `await request.settled.promise`: a stop whose interrupt failed throws.
InterruptAnswered(c) ==
    /\ caller[c].pc = "awaiting"
    /\ Answered(caller[c].waitFor)
    /\ IF c \in Stops /\ request[caller[c].waitFor] = "refused"
       THEN caller' = [caller EXCEPT ![c].pc = "threw"]
       ELSE Return(c)
    /\ UNCHANGED <<core, loops, provider, entries, interrupts, tools>>

----------------------------------------------------------------------------
(* processLoop.                                                            *)

FlagAfterLoop == FALSE

\* The mutex section at the top of the loop, with nothing to take.
LoopEnds(l) ==
    /\ At(l, "take")
    /\ queue = <<>>
    /\ state' = "idle"
    /\ current' = Nobody
    /\ loopRunning' = FlagAfterLoop
    /\ loop' = [loop EXCEPT ![l] = LoopAt("off", Nobody)]
    /\ UNCHANGED <<queue, provider, entries, interrupts, caller, tools>>

\* The same section, with an input to take.
TakeNext(l) ==
    /\ At(l, "take")
    /\ queue # <<>>
    /\ loop' = [loop EXCEPT ![l] = LoopAt("opening", Head(queue))]
    /\ queue' = Tail(queue)
    /\ UNCHANGED <<state, current, loopRunning, provider, entries, interrupts, caller, tools>>

\* queryFn and `this.currentTurn = ...`, for the first time or for the retry.
StartRun(l, i) ==
    /\ attempt' = [attempt EXCEPT ![i] = @ + 1]
    /\ run' = [run EXCEPT ![i] = "live"]
    /\ current' = i
    /\ loop' = [loop EXCEPT ![l] = LoopAt("running", i)]

\* While the loop is "opening" it may be awaiting the emit of a
\* context_warning; currentTurn is not set yet.
StartProvider(l) ==
    /\ At(l, "opening")
    /\ StartRun(l, loop[l].head)
    /\ UNCHANGED <<state, queue, loopRunning, hasSession, entries, interrupts, caller, tools>>

\* A message with a session_id, read while no interruption is asked.
CaptureSession(l) ==
    /\ At(l, "running")
    /\ interruption[loop[l].head] = Nobody
    /\ ~hasSession
    /\ hasSession' = TRUE
    /\ UNCHANGED <<core, loops, attempt, run, entries, interrupts, caller, tools>>

Outstanding(k) == call[k].phase \notin {"unused", "returned"}

\* The provider's iterator ends; the loop calls cancellationError at once.
\* "ok" is a success result; an error either comes as a result message, and
\* runTurn itself checks for a cancellation (inRun), or is thrown by the
\* iterator.  A provider does not succeed with a tool call of its own
\* unanswered.
IteratorEnds(l, ending, inRun) ==
    LET i == loop[l].head
    IN  /\ At(l, "running")
        /\ ending = "ok" =>
              inRun /\ \A k \in Calls : call[k].of = <<i, attempt[i]>> => ~Outstanding(k)
        /\ ending = "too_large" => "too_large" \in Faults
        /\ run' = [run EXCEPT ![i] = "over"]
        /\ loop' = [loop EXCEPT ![l] = [@ EXCEPT !.pc = "judging", !.ending = ending,
                                      !.inRun = inRun, !.waitFor = interruption[i]]]
        /\ UNCHANGED <<core, loopRunning, hasSession, attempt, entries, interrupts,
                       caller, tools>>

\* cancellationError(input) returns null, or an InterruptedError: it awaits
\* the interruption that was pending when it was called.
NotCancelled(l) == loop[l].waitFor # Nobody => request[loop[l].waitFor] = "refused"
Cancelled(l) == loop[l].waitFor # Nobody /\ request[loop[l].waitFor] = "settled"

Conclude(l, outcome) ==
    loop' = [loop EXCEPT ![l] = [@ EXCEPT !.pc = "finishing", !.outcome = outcome]]

\* The turn was cancelled, whatever it ended with: the input is interrupted.
TurnCancelled(l) ==
    /\ At(l, "judging") \/ At(l, "rechecking")
    /\ Cancelled(l)
    /\ Conclude(l, "interrupted")
    /\ UNCHANGED <<core, loopRunning, provider, entries, interrupts, caller, tools>>

\* A success result: turn_end is emitted and the turn is over.
TurnSucceeds(l) ==
    /\ At(l, "judging") /\ NotCancelled(l)
    /\ loop[l].ending = "ok"
    /\ Conclude(l, "resolved")
    /\ UNCHANGED <<core, loopRunning, provider, entries, interrupts, caller, tools>>

\* runTurn throws its error (or the emit of turn_end did): the catch block of
\* processLoop asks cancellationError again.
TurnThrows(l) ==
    /\ At(l, "judging") /\ NotCancelled(l)
    /\ loop[l].inRun
    /\ loop' = [loop EXCEPT ![l] = [@ EXCEPT
                    !.inRun = FALSE,
                    !.ending = IF loop[l].ending = "ok" THEN "error" ELSE loop[l].ending,
                    !.waitFor = interruption[loop[l].head]]]
    /\ UNCHANGED <<core, loopRunning, provider, entries, interrupts, caller, tools>>

CanRetry(l) == /\ loop[l].ending = "too_large"
               /\ hasSession
               /\ attempt[loop[l].head] = 1

\* The catch block, no cancellation: reset the context or fail.
TurnFails(l) ==
    /\ At(l, "judging") /\ NotCancelled(l)
    /\ ~loop[l].inRun
    /\ IF CanRetry(l)
       THEN /\ hasSession' = FALSE
            /\ loop' = [loop EXCEPT ![l].pc = "resetting"]
       ELSE /\ Conclude(l, "failed")
            /\ UNCHANGED hasSession
    /\ UNCHANGED <<core, loopRunning, attempt, run, entries, interrupts, caller, tools>>

StopSeen_not(l) == FALSE  \* mutant: no check between the notice and the retry
StopSeen(l) == interruption[loop[l].head] # Nobody

\* The context_reset notice went out.  Without a pending interruption the
\* check answers in the same tick and the retry starts before any I/O.
ResetAnnounced(l) ==
    /\ At(l, "resetting")
    /\ IF StopSeen(l)
       THEN /\ loop' = [loop EXCEPT ![l] = [@ EXCEPT
                           !.pc = "rechecking", !.waitFor = interruption[loop[l].head]]]
            /\ UNCHANGED <<attempt, run, current>>
       ELSE StartRun(l, loop[l].head)
    /\ UNCHANGED <<state, queue, loopRunning, hasSession, entries, interrupts, caller, tools>>

\* The interrupt that came during the notice failed: retry after all.
RetryAfterRefusal(l) ==
    /\ At(l, "rechecking") /\ NotCancelled(l)
    /\ StartRun(l, loop[l].head)
    /\ UNCHANGED <<state, queue, loopRunning, hasSession, entries, interrupts, caller, tools>>

\* queryFn throws: nothing in processLoop catches it.
LoopCrashes(l) ==
    /\ "open" \in Faults
    /\ \/ At(l, "opening")
       \/ (At(l, "resetting") /\ ~StopSeen(l))
       \/ (At(l, "rechecking") /\ NotCancelled(l))
    /\ loop' = [loop EXCEPT ![l].pc = "crashed"]
    /\ UNCHANGED <<core, loopRunning, provider, entries, interrupts, caller, tools>>

StateAfterTurn == IF queue = <<>> THEN "idle" ELSE state

\* The mutex section after the turn: idle before the caller learns of it.
FinishTurn(l) ==
    /\ At(l, "finishing")
    /\ current' = Nobody
    /\ state' = StateAfterTurn
    /\ loop' = [loop EXCEPT ![l].pc = "settling"]
    /\ UNCHANGED <<queue, loopRunning, provider, entries, interrupts, caller, tools>>

\* done.resolve() or done.reject(), and back to the top of the loop.
SettleInput(l) ==
    /\ At(l, "settling")
    /\ done' = [done EXCEPT ![loop[l].head] = loop[l].outcome]
    /\ loop' = [loop EXCEPT ![l] = LoopAt("take", Nobody)]
    /\ UNCHANGED <<core, loopRunning, provider, nextSeq, seq, interrupts, caller, tools>>

----------------------------------------------------------------------------
(* canUseTool: the closure of one provider run.                            *)

InPhase(k, p) == call[k].phase = p
Answer(k, a) == call' = [call EXCEPT ![k] = [@ EXCEPT !.phase = "leaving", !.answer = a]]

\* The provider of a live run asks for a tool that needs a card.
ToolCalled(k, i) ==
    /\ InPhase(k, "unused")
    /\ run[i] = "live"
    /\ call' = [call EXCEPT ![k] = [@ EXCEPT !.phase = "entering", !.of = <<i, attempt[i]>>]]
    /\ UNCHANGED <<core, loops, provider, entries, interrupts, caller, accepting>>

\* The mutex section before the request; then the card is being posted.
EnterAwaiting(k) ==
    /\ InPhase(k, "entering")
    /\ state' = IF state = "generating" THEN "awaiting_permission" ELSE state
    /\ call' = [call EXCEPT ![k].phase = "posting"]
    /\ UNCHANGED <<queue, current, loops, provider, entries, interrupts, caller, accepting>>

\* The card was posted and the request is registered.
CardPosted(k) ==
    /\ InPhase(k, "posting")
    /\ call' = [call EXCEPT ![k].phase = "waiting"]
    /\ UNCHANGED <<core, loops, provider, entries, interrupts, caller, accepting>>

\* replyCard failed (denied without a card); or, once the request is
\* registered, the owner clicks, it times out, or another session's /stop
\* cancels every pending request.
CardAnswered(k, a) ==
    /\ InPhase(k, "waiting") \/ (InPhase(k, "posting") /\ a = "deny")
    /\ Answer(k, a)
    /\ UNCHANGED <<core, loops, provider, entries, interrupts, caller, accepting>>

StateAfterCall_denied(k) ==  \* mutant: a denied call skips the `finally`
    IF state = "awaiting_permission" /\ call[k].answer # "deny" THEN "generating" ELSE state
StateAfterCall(k) == IF state = "awaiting_permission" THEN "generating" ELSE state

\* The `finally` section: back to generating.
LeaveAwaiting(k) ==
    /\ InPhase(k, "leaving")
    /\ state' = StateAfterCall(k)
    /\ call' = [call EXCEPT ![k].phase =
                  IF call[k].answer = "allow_turn" THEN "applying" ELSE "returned"]
    /\ UNCHANGED <<queue, current, loops, provider, entries, interrupts, caller, accepting>>

\* allow_turn: `this.currentTurn?.handle.setPermissionMode("acceptEdits")`.
ApplyAllowTurn(k) ==
    /\ InPhase(k, "applying")
    /\ accepting' = IF current = Nobody THEN accepting
                    ELSE accepting \cup {<<current, attempt[current]>>}
    /\ call' = [call EXCEPT ![k].phase = "returned"]
    /\ UNCHANGED <<core, loops, provider, entries, interrupts, caller>>

----------------------------------------------------------------------------

UserStep ==
    \/ \E i \in Inputs : SubmitRun(i) \/ SubmitBang(i)
    \/ \E s \in Stops : StopLock(s)

CallerStep(c) ==
    \/ CancelPending(c) \/ DropOne(c) \/ NothingToInterrupt(c)
    \/ InterruptInput(c) \/ InterruptOk(c) \/ InterruptFails(c)
    \/ InterruptAnswered(c)

ProviderEnds(l) == \E ending \in Endings, inRun \in BOOLEAN : IteratorEnds(l, ending, inRun)

LoopStep(l) ==
    \/ LoopEnds(l) \/ TakeNext(l) \/ StartProvider(l) \/ TurnCancelled(l)
    \/ TurnSucceeds(l) \/ TurnThrows(l) \/ TurnFails(l) \/ ResetAnnounced(l)
    \/ RetryAfterRefusal(l) \/ LoopCrashes(l) \/ FinishTurn(l) \/ SettleInput(l)

CallStep(k) ==
    \/ EnterAwaiting(k) \/ CardPosted(k) \/ \E a \in Answers : CardAnswered(k, a)
    \/ LeaveAwaiting(k) \/ ApplyAllowTurn(k)

\* Everything that was started is over, or was left behind by a queryFn that threw: the
\* session waits for a message.
AwaitMessage ==
    /\ \A c \in Callers : caller[c].pc \in {"start", "acked", "returned", "threw"}
    /\ \A l \in Loops : At(l, "off") \/ At(l, "crashed")
    /\ \A k \in Calls : ~Outstanding(k)
    /\ UNCHANGED vars

Next ==
    \/ UserStep
    \/ \E c \in Callers : CallerStep(c)
    \/ \E l \in Loops : LoopStep(l) \/ CaptureSession(l) \/ ProviderEnds(l)
    \/ \E k \in Calls : CallStep(k) \/ \E i \in Inputs : ToolCalled(k, i)
    \/ AwaitMessage

Spec == Init /\ [][Next]_vars

\* Every started piece of code runs on, every provider run ends, every card is
\* answered or times out.  Nobody is obliged to send a message or a /stop, and
\* the provider is not obliged to call a tool.
Fairness ==
    /\ \A c \in Callers : WF_vars(CallerStep(c))
    /\ \A l \in Loops : WF_vars(LoopStep(l)) /\ WF_vars(ProviderEnds(l))
    /\ \A k \in Calls : WF_vars(CallStep(k))

FairSpec == Spec /\ Fairness

----------------------------------------------------------------------------
(* Properties.                                                             *)

AliveLoops == {l \in Loops : ~At(l, "off")}
Dropping == UNION {{caller[c].todo[n] : n \in DOMAIN caller[c].todo} : c \in Callers}

\* There is never a second processLoop, and loopRunning says exactly whether
\* there is one: submit() and the loop hand the queue over without a gap
\* (the claim above the mutex section of processLoop).
OneLoop == /\ \A l, m \in AliveLoops : l = m
           /\ loopRunning <=> AliveLoops # {}

\* A session that is not idle, or has something queued, has a processLoop at
\* work: whatever submit() accepted will be picked up.  The exception is a
\* queryFn that throws: nothing in processLoop catches it, loopRunning stays
\* set and the session accepts messages that nobody will run.
WorkHasLoop == \/ \E l \in Loops : At(l, "crashed")
               \/ state # "idle" \/ queue # <<>> => \E l \in Loops : ~At(l, "off")

\* The queue is handed over without a gap: one processLoop at most, and one whenever there
\* is work (submit, kickLoopIfNeeded, the end of processLoop).
LoopOwnsWork == OneLoop /\ WorkHasLoop

\* An idle session is quiet: no turn, nothing queued, no provider running.
\* Every command handler that changes the session relies on it when it asks
\* getState() and then acts without the session's mutex.
IdleIsQuiet == state = "idle" => /\ queue = <<>>
                                 /\ current = Nobody
                                 /\ \A i \in Inputs : run[i] \notin {"live", "aborted"}

\* The session only shows awaiting_permission while some canUseTool call is
\* between its two mutex sections: whatever overlaps, it does not get stuck.
AwaitingHasCall == state = "awaiting_permission" =>
                      \E k \in Calls : call[k].phase \in {"posting", "waiting", "leaving"}

\* The state that is shown is true of the calls and turns there are, whatever overlaps.
StateMatchesWork == AwaitingHasCall /\ IdleIsQuiet

\* A submitted input is in exactly one place: once in the queue, in the drop
\* list of one stop or bang, in the hands of the loop, or settled.
OwnedOnce == \A i \in Inputs :
    LET places == {<<"queue", n>> : n \in {m \in DOMAIN queue : queue[m] = i}}
            \cup (UNION {{<<c, n>> : n \in {m \in DOMAIN caller[c].todo : caller[c].todo[m] = i}}
                          : c \in Callers})
            \cup {<<l, 0>> : l \in {m \in Loops : loop[m].head = i}}
            \cup {<<d, 0>> : d \in {done[i]} \cap Settled}
    IN  Cardinality(places) = IF done[i] = "new" THEN 0 ELSE 1

\* An input ends as interrupted only because a stop or a bang that came after
\* it dropped it before it ran, or interrupted its turn and succeeded: never
\* through a failed interrupt, an older command or another turn's request.
InterruptedWasAsked == \A i \in Inputs : done[i] = "interrupted" =>
    \E c \in Callers :
        /\ caller[c].at > seq[i]
        /\ \/ attempt[i] = 0
           \/ /\ caller[c].target = i
              /\ interruption[i] # Nobody
              /\ request[interruption[i]] = "settled"

\* A provider run is only aborted by a caller that captured that very run as
\* the current turn: an interrupt that is slow never hits a later turn.
AbortedWasTargeted == \A i \in Inputs : run[i] = "aborted" =>
    \E c \in Callers : caller[c].target = i /\ caller[c].handle = attempt[i]

\* A cancellation hits what it was asked for and nothing else, both in what the submitter
\* is told and in what the provider is told (interruptInput, cancellationError).
CancellationIsAsked == InterruptedWasAsked /\ AbortedWasTargeted

\* Turns run in the order of submission and never overlap: when an input has
\* been given to the provider, every earlier one is settled or was dropped.
TurnsInOrder == \A i, j \in Inputs :
    attempt[i] > 0 /\ seq[j] > 0 /\ seq[j] < seq[i] =>
        done[j] \in Settled \/ j \in Dropping

\* Once stop() has acknowledged, the turn it interrupted is not given to the
\* provider again (the context-reset retry), and no settled or dropped input
\* ever is.
NoRestartAfterAck ==
    [][\A i \in Inputs :
          \/ done[i] \in Settled
          \/ \E s \in Stops : caller[s].pc = "acked" /\ caller[s].target = i
          => attempt'[i] = attempt[i]]_vars

\* A deferred is settled once: a dropped input is not resolved later and an
\* interrupted turn does not turn into a success.  (Proved; TLC checks it as a part of
\* ImplementsTurnQueue.)
SettledOnce == [][\A i \in Inputs : done[i] \in Settled => done'[i] = done[i]]_vars

\* Every submitted input is settled in the end, whoever stops what and when.
EveryInputSettles == \A i \in Inputs : done[i] = "pending" ~> done[i] \in Settled

\* Every stop() and every bang that took the lock returns: no caller waits
\* forever on an interrupt that another caller owns.
EveryCallerReturns == \A c \in Callers :
    caller[c].pc = "cancel" ~> caller[c].pc \in {"acked", "returned", "threw"}

\* Nobody who submits, stops or interrupts waits forever.
EveryPromiseSettles == EveryInputSettles /\ EveryCallerReturns

----------------------------------------------------------------------------
(* What the session is to its users, and what its tool calls see of the    *)
(* brokers.                                                                *)

HeadsInHand == {loop[l].head : l \in Loops} \ {Nobody}
Targets == {caller[c].target : c \in Callers} \ {Nobody}
AckedTargets == {caller[s].target : s \in {t \in Stops : caller[t].pc = "acked"}} \ {Nobody}

Turns == INSTANCE TurnQueue WITH
             waiting <- queue, taken <- Dropping, turn <- HeadsInHand, runs <- attempt,
             unwanted <- Targets, stopped <- AckedTargets, answer <- done

\* Whatever the locks, loops and awaits are, and whoever interrupts whom: seen from outside,
\* messages have their turns one at a time in the order of acceptance, what a stop or a bang
\* took back never runs, and a stopped turn neither runs again nor gets a second answer.
ImplementsTurnQueue == Turns!Spec

----------------------------------------------------------------------------
(* A claim of the repository that the code does not keep.                  *)

\* "Never start another provider call after acknowledging" a /stop: no input
\* submitted before the stop is given to the provider after its ack.
NoStartAfterAck ==
    [][\A s \in Stops, i \in Inputs :
          caller[s].pc = "acked" /\ seq[i] > 0 /\ seq[i] < caller[s].at
          => attempt'[i] = attempt[i]]_vars
=============================================================================
