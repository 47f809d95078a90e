-------------------------------- MODULE Turn --------------------------------
(***************************************************************************)
(* A whole turn: a provider run, the runTurn of the session that iterates  *)
(* over its messages (claude/session.ts), and what the user sees of it     *)
(* (TurnRendering).  The provider is the Codex adapter (CodexRun), or      *)
(* anything that keeps the contract of QueryHandle, as the adapter of the  *)
(* Claude SDK does, which passes messages through.                         *)
(*                                                                         *)
(* A stop or a bang interrupts the run meanwhile.  From the request until  *)
(* it is known whether the interrupt took effect runTurn only buffers;     *)
(* when it failed, the buffer is replayed.                                 *)
(***************************************************************************)
EXTENDS TurnRendering, CodexRun

CONSTANTS
    AnyTexts,      \* texts of the blocks of other providers
    MaxInterrupts  \* bound on requests to interrupt this turn

ASSUME TurnAssumption ==
    /\ Fragments \cup AnyTexts \subseteq Texts
    /\ Tools = CodexTools
    /\ MaxInterrupts \in Nat

VARIABLES
    provider,      \* who runs the turn
    drive,         \* where runTurn is
    interruption,  \* input.interruption and its settled promise
    interrupts,    \* number of requests
    todo,          \* messages runTurn is about to render
    buffered,      \* messages put off
    result,        \* resultMsg
    given,         \* history: the messages the provider handed over
    rendered       \* history: the messages that were rendered

turnVars == <<renderVars, streamVars, provider, drive, interruption, interrupts, todo,
              buffered, result, given, rendered>>
driveVars == <<provider, drive, interruption, interrupts, todo, buffered, result, given, rendered>>

\* The text of a thought is not looked at.
AnyMessage == [type: {"text"}, text: AnyTexts] \cup [type: {"thinking"}, text: {<<>>}]
    \cup [type: {"tool_use", "tool_result"}, tool: Tools] \cup [type: {"result"}, success: BOOLEAN]

TurnTypeOK ==
    /\ RenderTypeOK
    /\ stream \in {"loading", "prompt", "events", "closing", "over"}
    /\ ending \in {"none", "done", "thrown", "quiet", "abandoned"}
    /\ {aborted, tempDir, littered} \subseteq BOOLEAN
    /\ images \in 0..MaxImages
    /\ cache \in [TextItems -> ItemTexts \cup {<<>>}]
    /\ yielded \in Message \cup AnyMessage
    /\ provider \in {"any", "codex"}
    /\ drive \in {"iterating", "ended", "thrown", "replaying", "over"}
    /\ interruption \in {"none", "asked", "dispatched"}
    /\ interrupts \in 0..MaxInterrupts
    /\ {todo, buffered, given, rendered} \subseteq Seq(Message \cup AnyMessage)
    /\ result \in Message \cup AnyMessage

TurnInit ==
    /\ RenderInit /\ StreamInit
    /\ provider \in {"any", "codex"} /\ (provider = "any" => images = 0)
    /\ drive = "iterating"
    /\ interruption = "none" /\ interrupts = 0
    /\ todo = <<>> /\ buffered = <<>>
    /\ result = None
    /\ given = <<>> /\ rendered = <<>>

-----------------------------------------------------------------------------
(* The generator runs while runTurn waits for its next message. *)

Waiting == /\ drive = "iterating" /\ todo = <<>>
           /\ at["loop"] = "ready" /\ outcome = "running"

GetMessage_replays_late(m) ==    \* mutant: what was buffered is kept for the end
    /\ m.type # "result" => events + Len(buffered) < MaxEvents
    /\ \A n \in DOMAIN given : given[n].type # "result"
    /\ given' = Append(given, m)
    /\ IF interruption # "none"
       THEN buffered' = Append(buffered, m) /\ UNCHANGED todo
       ELSE todo' = <<m>> /\ UNCHANGED buffered
    /\ UNCHANGED <<renderVars, provider, drive, interruption, interrupts, result, rendered>>

\* Before the provider runs: the notice of submit that the input is queued, or the warning
\* about the context.
Announce ==
    /\ Waiting /\ stream = "loading" /\ events = 0 /\ given = <<>>
    /\ TakeEvent([type |-> "notice"])
    /\ UNCHANGED <<streamVars, driveVars>>

\* runTurn gets a message: buffered during an interruption; rendered, after what was
\* buffered, otherwise.  A provider says nothing after its result.
GetMessage(m) ==
    /\ m.type # "result" => events + Len(buffered) < MaxEvents
    /\ \A n \in DOMAIN given : given[n].type # "result"
    /\ given' = Append(given, m)
    /\ IF interruption # "none"
       THEN buffered' = Append(buffered, m) /\ UNCHANGED todo
       ELSE todo' = Append(buffered, m) /\ buffered' = <<>>
    /\ UNCHANGED <<renderVars, provider, drive, interruption, interrupts, result, rendered>>

CodexPrepares ==
    /\ provider = "codex" /\ Waiting
    /\ Prepare \/ StreamThrows \/ StreamEnds
    /\ UNCHANGED <<renderVars, driveVars>>

CodexYields ==
    /\ provider = "codex" /\ Waiting
    /\ SdkEvent
    /\ \/ yielded' # None /\ GetMessage(yielded')
       \/ yielded' = None /\ UNCHANGED <<renderVars, driveVars>>

AnyYields ==
    /\ provider = "any" /\ Waiting /\ stream # "over"
    /\ \E m \in AnyMessage : GetMessage(m)
    /\ UNCHANGED streamVars

AnyEnds ==
    /\ provider = "any" /\ Waiting /\ stream # "over"
    /\ stream' = "over" /\ ending' \in {"done", "thrown"}
    /\ UNCHANGED <<aborted, images, tempDir, littered, cache, yielded, heard>>
    /\ UNCHANGED <<renderVars, driveVars>>

-----------------------------------------------------------------------------
(* The rest of runTurn, and the end of processLoop's round. *)

Driving == UNCHANGED <<provider, interruption, interrupts>>

Rendering == drive \in {"iterating", "replaying"} /\ todo # <<>> /\ at["loop"] = "ready"

\* emitAssistantBlock and tool_result: a message becomes an event.
AsEvent(m) == IF m.type = "thinking" THEN [type |-> "thinking"] ELSE m

RenderNextMessage ==
    LET m == Head(todo) IN
    /\ Rendering
    /\ todo' = Tail(todo) /\ rendered' = Append(rendered, m)
    /\ \/ m.type = "result" /\ result' = m /\ UNCHANGED renderVars
       \/ m.type # "result" /\ TakeEvent(AsEvent(m)) /\ UNCHANGED result
    /\ UNCHANGED <<streamVars, drive, buffered, given>> /\ Driving

\* workRun.event saves the journal and may throw: emit throws, and the iteration is
\* abandoned.
EmitThrows ==
    /\ Rendering /\ SaveFails
    /\ Head(todo).type \in {"text", "tool_use", "tool_result"}
    /\ drive' = "thrown" /\ todo' = <<>>
    /\ \/ provider = "codex" /\ Abandon
       \/ (provider = "any" \/ stream = "over") /\ UNCHANGED streamVars
    /\ UNCHANGED <<buffered, result, given, rendered>> /\ Driving

AbandonedCleanup ==
    /\ provider = "codex" /\ ending = "abandoned" /\ Cleanup
    /\ UNCHANGED <<renderVars, driveVars>>

\* The iterator is through.
IterationEnds ==
    /\ Waiting /\ stream = "over"
    /\ drive' = IF ending = "thrown" THEN "thrown" ELSE "ended"
    /\ UNCHANGED <<renderVars, streamVars, todo, buffered, result, given, rendered>> /\ Driving

Finish(how) ==
    /\ Settle(how) /\ drive' = "over"
    /\ UNCHANGED <<streamVars, todo, buffered, result, given, rendered>> /\ Driving

StreamClosed == provider = "codex" => stream = "over"

\* cancellationError waits for the verdict on a pending interrupt.
Cancelled == drive \in {"ended", "thrown"} /\ interruption = "dispatched" /\ StreamClosed /\ Finish("cancelled")
Throws == drive = "thrown" /\ interruption = "none" /\ StreamClosed /\ Finish("failed")

Replay ==
    /\ drive = "ended" /\ interruption = "none"
    /\ drive' = "replaying" /\ todo' = buffered /\ buffered' = <<>>
    /\ UNCHANGED <<renderVars, streamVars, result, given, rendered>> /\ Driving

Replayed == drive = "replaying" /\ todo = <<>> /\ at["loop"] = "ready" /\ outcome = "running"
Succeeded == result # None /\ result.success

\* Without a result, or with one that is no success, runTurn throws, and the catch of
\* processLoop asks for the verdict once more.
NoSuccess ==
    /\ Replayed /\ ~Succeeded
    /\ drive' = "thrown"
    /\ UNCHANGED <<renderVars, streamVars, todo, buffered, result, given, rendered>> /\ Driving

EmitTurnEnd ==
    /\ Replayed /\ Succeeded /\ TakeTurnEnd
    /\ UNCHANGED <<streamVars, driveVars>>

Complete == Finish("completed")

-----------------------------------------------------------------------------
(* A stop or a bang: interruptInput. *)

Steering == UNCHANGED <<renderVars, provider, drive, todo, buffered, result, given, rendered>>

Ask ==
    /\ outcome = "running" /\ interruption = "none" /\ interrupts < MaxInterrupts
    /\ interruption' = "asked" /\ interrupts' = interrupts + 1
    /\ UNCHANGED streamVars /\ Steering

Dispatched ==
    /\ interruption = "asked"
    /\ interruption' = "dispatched"
    /\ \/ provider = "codex" /\ Abort
       \/ provider = "any" /\ UNCHANGED streamVars
    /\ UNCHANGED interrupts /\ Steering

InterruptRejected_unsettled ==    \* mutant: those who wait for the verdict are not told
    /\ interruption = "asked" /\ provider = "any"
    /\ interruption' = "rejected"
    /\ UNCHANGED <<interrupts, streamVars>> /\ Steering

\* Only other providers: the interrupt of both adapters never rejects.
InterruptRejected ==
    /\ interruption = "asked" /\ provider = "any"
    /\ interruption' = "none"
    /\ UNCHANGED <<interrupts, streamVars>> /\ Steering

-----------------------------------------------------------------------------
User == /\ HandlerStep
        /\ UNCHANGED <<streamVars, driveVars>>
Emit == /\ EmitStep
        /\ UNCHANGED <<streamVars, driveVars>>
RunTurn == \/ RenderNextMessage \/ AbandonedCleanup \/ IterationEnds \/ Cancelled
           \/ Throws \/ Replay \/ NoSuccess \/ EmitTurnEnd \/ Complete
Interrupt == Dispatched \/ InterruptRejected

TurnNext == \/ User \/ Emit \/ Announce \/ CodexPrepares \/ CodexYields \/ AnyYields \/ AnyEnds \/ RunTurn \/ EmitThrows
            \/ Ask \/ Interrupt

\* The code between awaits goes on, every call of Feishu ends because withTimeout ends it,
\* and a provider run ends.
TurnFairness ==
    /\ WF_turnVars(User) /\ WF_turnVars(Emit) /\ WF_turnVars(RunTurn) /\ WF_turnVars(Interrupt)
    /\ WF_turnVars(CodexPrepares) /\ WF_turnVars(AnyEnds)

TurnSpec == TurnInit /\ [][TurnNext]_turnVars /\ TurnFairness

-----------------------------------------------------------------------------
\* Messages are rendered in the order in which the provider yielded them, and a completed
\* turn has rendered all of them, whatever was buffered because of interrupts that failed
\* (runTurn, replayBuffered).
RenderedInOrder ==
    /\ IsPrefix(rendered, given)
    /\ outcome = "completed" => rendered = given

\* Every message gets its end: the turn settles and the handler is through, whatever call
\* fails, throws, or is interrupted.
EveryMessageEnds == <>(Handled /\ drive = "over")
=============================================================================
