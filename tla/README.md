# A TLA+ development of agent-feishu-channel

The program connects Feishu (Lark) chats to a coding agent (Claude Code or
Codex) that runs on a developer's machine. A message becomes a turn of the
agent; tool calls of the turn are approved on cards; the turn is mirrored into a
GitHub issue; the state survives restarts. It is one Node.js process with one
thread: everything below is about what may happen at its awaits, at a crash, and
between the process and the services it talks to.

Paths are relative to `src/src/` unless they start with `src/`.

## 1. The system

| Part | State | Operations | Talks to |
|---|---|---|---|
| Gateway (`feishu/gateway.ts`, `access.ts`, `feishu/mentions.ts`, `feishu/message-translator.ts`) | dedup ring, bot identity and its lookup | `start`, `handleReceiveV1`, `ensureBotIdentity`, `handleCardAction` | dedup, message handler, brokers |
| Message handler and rendering (`index.ts`) | `turnState`: the cards, tool entries and text blocks of one turn | `onMessage`, `emit`, `updateStatus`, `sendOrPatchToolCard`, `flushTextBlocks`, `finishWork` | session manager, session, journal, Feishu client |
| Command dispatcher (`commands/`) | pending `/cd` confirmations | one handler per command | session manager, session, state store |
| Session manager (`claude/session-manager.ts`) | sessions per chat, project and provider; stale records; overrides; debounce timer | `getOrCreate`, `delete`, `switchProject`, `saveNow`, `startupLoad`, ... | sessions, state store |
| Session (`claude/session.ts`) | `state`, `inputQueue`, `currentTurn`, `loopRunning`, `claudeSessionId` | `submit`, `stop`, `processLoop`, `canUseTool` | provider, brokers, `emit` |
| Permission broker, question broker (`claude/feishu-*-broker.ts`) | `pending` map, two timers per request | `request`, `resolveByCard`, `cancelAll`, timeout, reminder | Feishu client, session |
| Work journal (`audit/`) | `entries`, the state file, one drain at a time | `begin`, `event`, `finish`, `syncNotice`, `flush`, `close` | GitHub, the file system |
| State store and dedup (`persistence/`, `util/dedup.ts`) | `state.json`, `lastState`, `seenMessages`, `writeChain`, the ring | `load`, `save`, `saveSeenMessages`, `markUncleanAtStartup`, `check` | session manager, gateway, start and shutdown |
| Start and shutdown (`index.ts`) | where the process is | `main`, `shutdown`, fatal errors | all of the above |
| Providers (`claude/sdk-query.ts`, `codex/sdk-run.ts`) | one run per turn | messages, `interrupt`, `setPermissionMode` | session |
| Auto-approval (`claude/auto-approve.ts`) | `rulesCache` | `decide` per tool call, `loadRules` | session, the settings files of the project |

What is hard in it, and where:

* **Interleaving inside the session.** `submit`, a bang (`!message`), `stop`, the
  loop and the `canUseTool` closures share six fields. A mutex covers short
  sections only; the interrupts, the notices, the provider call and the cards
  are outside of it.
* **Cards.** A card is visible before its request is registered, its patch may
  be late or lost, and a click, a timeout and a `cancelAll` compete for one
  promise.
* **An unreliable mirror.** A POST may fail and still land. The journal must not
  create a comment twice, must not call synced what was not sent, and must not
  run an instruction again that a crash left open.
* **One file, three writers.** The dedup flush, the session manager and the
  shutdown save without waiting for each other; the flag that tells a crash from
  an exit is in the same file.
* **A turn on screen.** Three cards are streamed with sequence numbers, or
  patched when streaming fails; a call may be done and yet be reported as failed;
  the handler and the loop write the same status line; a stop may turn out to
  have failed after messages were put off.
* **One group, several bots.** Messages are delivered again while their first handler
  waits, handlers share one identity lookup that may fail, and no message may draw
  an answer out of two bots.
* **Rules that change while they are read.** Several tool calls fill one cache
  from several files whose times were taken before.
* **Commands between awaits.** Confirmations, stops and deletions act on the
  session that is active when they continue, not when they were asked.

`PROJECT.json` lists each of these at its line under `hazards`, with the
properties that would catch it, or the reason why none does yet.

## 2. The modules

Every property is stated next to the model it is about, with a comment. A
definition whose name ends in a suffix such as `_never`, marked `mutant`, is the
same definition with a plausible bug; nothing in the specifications uses it.

| Module | What it is |
|---|---|
| `TurnQueue` | the abstract specification of a session: a queue of turns that can be stopped |
| `Session` | one `ClaudeSession` with everything that acts on it, shown to implement `TurnQueue` |
| `CardRequest` | the abstract specification of a request that a person answers |
| `CardBroker` | what the two brokers share: posting, the pending map, timers, cancelAll, patches |
| `PermissionBroker`, `QuestionBroker` | the two brokers, each shown to implement `CardRequest` |
| `WorkJournal` | the journal, its file, GitHub, crash and restart |
| `StateStore` | `state.json` with its writers, the ring, start, shutdown and crash |
| `TurnRendering` | one turn as the user sees it: the handler, `emit`, cards and texts, with any provider |
| `CodexRun` | one run of the Codex adapter |
| `Turn` | both together, with `runTurn` and its interrupts; shown to implement `TurnRendering` |
| `Gateway` | which messages reach `onMessage`, and which clicks a broker |
| `AutoApprove` | which tool calls run without a card, and the cache of the rules |
| `SessionManager` | which session and which conversation a chat reaches, with the commands that change it |
| `MC*` | constants and symmetry for TLC |
| `*Proofs` | the theorems; `BridgeProofs` has those of the five modules from `TurnRendering` to `AutoApprove` |

### Session

`state`, `queue`, `current`, `loopRunning`, `hasSession`, `nextSeq` are the
fields of the class; `seq`, `done`, `interruption` are the fields of a
`QueuedInput`, `request` the record `{dispatched, settled}` an interruption points
to. `loop`, `caller` and `call` are the program counters and locals of the
asynchronous functions: one record for every `processLoop`, every `stop()` or
bang, every `canUseTool`. A mutex section never awaits, so it is one action; so is
the code between two awaits. The provider is a `run` per input that may answer,
fail, reject the context as too large, call tools, and be aborted.

| Code | Actions |
|---|---|
| `submit` | `SubmitRun`, `SubmitBang` (the mutex section of `submitInterruptAndRun`) |
| `stop` | `StopLock` |
| after the lock, in both | `CancelPending`, `DropOne`, `NothingToInterrupt`, `InterruptInput`, `InterruptOk`, `InterruptFails`, `InterruptAnswered` |
| `processLoop` | `TakeNext`, `LoopEnds`, `StartProvider`, `CaptureSession`, `IteratorEnds`, `TurnCancelled`, `TurnSucceeds`, `TurnThrows`, `TurnFails`, `ResetAnnounced`, `RetryAfterRefusal`, `LoopCrashes`, `FinishTurn`, `SettleInput` |
| `canUseTool` | `ToolCalled`, `EnterAwaiting`, `CardPosted`, `CardAnswered`, `LeaveAwaiting`, `ApplyAllowTurn` |

Two assumptions about the runtime are in the model. The operator `Quiet` says that a new message (I/O)
is handled after the continuations of promises that have already settled; it
matters at the second cancellation check before the context-reset retry. And a
provider does not report success while a tool call of its own is unanswered.

`TurnQueue` says what the users of a session rely on, without loops, locks and awaits: what
waits, what was taken back, whose turn it is, how often it was run, whose turn somebody asked
to end, which of these stops were acknowledged, and the answers. The refinement mapping reads
these off the session: `Dropping` is what the callers have collected and not yet answered,
`HeadsInHand` the input of the loop, which has its turn until it is settled and not only
while it is `current`, `Targets` what stops and bangs have captured, `AckedTargets` what the
acknowledged stops among them have.

| Step of `TurnQueue` | Actions of `Session` |
|---|---|
| `Enqueue`, `Bang`, `Stop` | `SubmitRun`, `SubmitBang`, `StopLock` (a stutter in idle) |
| `Return` | `DropOne` |
| `Begin`, `Run`, `Finish` | `TakeNext`; `StartProvider`, `ResetAnnounced` or `RetryAfterRefusal`; `SettleInput` |
| `Acknowledge` | `InterruptAnswered` of a stop that succeeded |
| a stutter | everything else: interrupts, verdicts, tool calls, `FinishTurn`, `LoopEnds`, a crash of the loop |

### The brokers

`CardBroker` has one record of timers per request, counted in ticks: a timer at
zero fires then or any time later, as Node's do. `RequestCard`, `CardShows` and
`RegisterPending` are the three moments of `request()`: the call, the card in the
chat, the answer of `replyCard`. `PostFails` may come after `CardShows`, so a card can
be in the chat with no request behind it. `PatchEnds` lets a patch arrive in any
order or not at all. `UpdateTiming` is `/config set` while requests are open.
The question broker adds the answers of a request; `ClickAnswersOne` and
`ClickAnswersLast` are `resolveByCard` with and without questions left. The questions of a
request have texts, which may be equal (`TextOf`); `AnswerMap` is the map by text that the
code returns, in which a later question overwrites an earlier one, and `told` what the caller
was given.

`CardRequest` says what the callers rely on: at most one outcome, an answer only
by the owner, anything else a refusal. `StatusOf` is the refinement mapping.

### WorkJournal

`entry` is the map in memory, `disk` the state file, `pump` the locals of the one
`drain()` that may run. A record holds its status, revision, synced revision,
`createAttempted` and whether its comment id is known. GitHub is `comments`,
`shown` and `late` (a POST that timed out and has not landed). The code that
follows an answer (the assignment, the save, the next pick) runs to the next
await, so it is part of the same action (`SaveAndGoOn`, `Pick`). `Exit` is a crash or
the end of an orderly close, with whatever request was under way; `Restart` is
the constructor with `Reloaded`.

### StateStore

All sessions together are a version number, `ver`, because the properties only
ask which snapshot is newer. The ring, and its copies in `seenMessages` and the
file, are sets of positions of the history `log`, so that order, age and
eviction are arithmetic on positions. `writes` is the promise chain: each element
is one `writeAtomic` that first takes its body (`Snapshot`) and then lands or fails.
`Settle` is what the awaiting caller does next; this is how `markUncleanAtStartup`,
`startupLoad` and `shutdown` advance. `Crash` is possible at every step.

### SessionManager

A session is looked up by chat, active project and effective provider, and the
effective provider is an override, or the one provider the chat has entries of, or
the default. `sessions` and `staleRecords` map such keys to a conversation;
`working` are the sessions that are not idle; `activeProjects`,
`providerOverrides` and `defaultProvider` are the fields of those names; `file` is
what `saveNow` wrote last. `confirms` are the open `/cd` cards of a chat and `stopping`
the chats whose `/new` awaits `session.stop()`, the two places where a command
continues after others have run. What a turn does is reduced to what matters here:
the provider hands out an id (`CaptureId`), the context is given up (`ContextReset`),
the turns end (`TurnsEnd`).

| Code | Actions |
|---|---|
| `onMessage`, and every command that changes nothing else | `Message`, `LookUp` |
| `/new`, `/compact` | `StartOver`, `NewStops`, `NewStopped`, `NewFails` |
| `/provider`, `/mode`, `/model`, `/effort`, `/project` | `SwitchProvider`, `Configure`, `SwitchProject` |
| `/cd`, its card and its timeout | `Cd`, `CdConfirmed`, `CdDismissed` |
| `/resume` (`findSession`, `getAllSessions`, `setStaleRecord`) | `Resume` with `Found` |
| `/config set agent.default_provider` | `SetDefaultProvider` |
| crash and `startupLoad` | `Restart` |

`issuedBy` and `forgotten` are history: who handed out an id, and what was dropped
at a key and not resumed since. A write of the file is one step here; `StateStore` has
the interleaving of writes.

### TurnRendering, CodexRun and Turn

Two processes of the code run side by side for a message: its handler, which sends
the status card and waits for the turn, and the session's loop, which awaits `emit`
for every event. `at` holds the await each of them is in. `card` is what `turnState` knows
of a card (sent, streaming, switched off, last sequence number), `view` what Feishu shows;
`chat` is the list of the other replies. Every call has a fate: done, refused, or
done and reported as failed (a timeout of `withTimeout`). Texts are replaced by the
numbers of the blocks they carry.

| Code | Actions |
|---|---|
| `sendStatusCard`, `updateStatus` | `SendStatus`, `ConvertStatus`; `StreamCursor`, `PatchCursor`, `NoCursor` |
| `emit`, its cases | `TakeText`, `TakeThinking`, `TakeToolUse`, `TakeToolResult`, `TakeNotice`, `TakeTurnEnd`, `Notice`, `Stats` |
| the thinking card, `sendOrPatchToolCard` | `SendCard`, `ConvertCard`, `StreamCard`, `PatchCard` |
| `flushTextBlocks`, `replyFinalAnswerWithFallback` | `Middle`, `Each`, `Answer`, `AnswerText` |
| the end of `onMessage`, `finishWork` | `Settled`, `FinishWork`, `WorkAlarm`, `ReportFailure` |
| `workRun.event`, which may throw | `SaveFails` |

The thinking card and the tool card follow the same code with other names
(index.ts 414-485 and 640-729), so they are one set of actions with the card as a
parameter. `CodexRun` is the generator of `codex/sdk-run.ts` with its `finally` and
its catch; the items, their texts and the moment at which it throws are free.
`Turn` puts a provider, `runTurn` and `TurnRendering` together: the generator moves
only while the loop waits for its next message, `GetMessage` buffers while an
interrupt is undecided, `Replay` is the part after the iteration. `provider = "any"`
is any other keeper of the `QueryHandle` contract, which the Claude adapter is, as it
passes messages through.

### Gateway

One `task` per running `handleReceiveV1`, with the await it is in. Several of them run at
the same time, because Lark delivers a message again when its handler has not
returned, and a handler returns when the turn is over. All that wait for the
identity continue in the step in which the shared promise settles (`Resume`). A
message is a record of what the gates look at: sender type, chat, chat type, whom its
mentions name, kind of content. `Heard` says what is left of a text when mentions are
stripped, `Route` what `parseInput` makes of it. A delivery that passes the dedup check gets
the next position of the history `log`, and the ring is the set `seen` of positions, so that
pruning by age (`Prune`, `TimePasses`), eviction at capacity (`Evict`) and order are
arithmetic on positions. A task and its call of `onMessage` belong to a position, because a message
that the ring forgot may pass again. `StateStore` has the ring's persistence.

### AutoApprove

`judge` has one record per running `decide`. Modification times are taken in any order
(`Promise.all`), files are read one after the other, and between any two of these
steps the files, their directories' `.git`, and the other calls move on. A rule is
the set of command texts it matches; a command is its whole text and its
segments. `during` is history: what each file allowed at some time, and denied all
the time, since a call began. `Levels` counts the directories from `cwd` to the
boundary, so `candidateDirs` is the number of the last one. A stat or a read of a file that is
there may fail (`Answers`); the code takes the file for a missing one, and `unstat` and `unread`
keep which these were, for an invocation and for the entry of the cache.

## 3. What is checked

Twelve runs, of which two end in a counterexample (section 6). `session_safety`, `turn` and
`admission` take two to three minutes each on two workers, the others less. Every property of a
passing run has a mutant of the modelled code, listed in `PROJECT.json`, under which the same run fails.

| Run | Instance | What it shows |
|---|---|---|
| `session_safety` | two plain messages, one bang, one stop; queryFn may throw, interrupts may fail, the context may be too large; or two messages, one stop, two tool calls that may overlap | one loop and no gap in handing over the queue (`LoopOwnsWork`), `awaiting_permission` never left behind and idle means quiet (`StateMatchesWork`), each input in one place (`OwnedOnce`), turns in order and never overlapping (`TurnsInOrder`), cancelled only when asked and only the turn that was asked for (`CancellationIsAsked`), no retry after an acknowledged stop (`NoRestartAfterAck`); no deadlock |
| `session_live` | a message, a bang, a stop, failing interrupts, a context that may be too large, fair | every input settles, every stop and bang returns (`EveryPromiseSettles`); the session is a queue of turns (`ImplementsTurnQueue`) |
| `permission` | two requests, owner and stranger, two timings, fair | no leaked timer, no card that contradicts the answer, the contract of `CardRequest`, every request ends though nobody has to click |
| `question` | two requests of two questions with two options and two texts, equal or not | the caller has an answer under the text of every question, and the answer of each question whose text no later one has (`AnswersComplete`); the first click wins, the contract |
| `journal_safety` | one record, three revisions, one failing save, two process ends, requests that fail in every way | one comment and one run (`AtMostOnce`), nothing called synced that is not shown, an honest notice |
| `journal_live` | two records, one of them always refused, one record per drain, one process end | the other record is synced, both records close (`EveryRecordEnds`) |
| `store` | two message ids, ring of one, TTL of two ticks, one change of the sessions, three writes at a time, two starts, one failing write, fair | a resolved save stays, crashes are noticed, suppression ends, no message is handled twice after its flush, every change reaches the file |
| `manager` | two chats, one project besides the default, two providers, four messages or commands, one open confirmation per chat, one crash | a session that works is the one its chat reaches (`WorkIsActive`), a conversation stays with its provider (`NoCrossProvider`), what was dropped stays dropped (`ForgottenStays`), a restart continues the conversation or none (`RestartContinues`) |
| `turn` | two events of every kind in any order and the end, one failing or wrongly reported call or save, one interrupt, one image, one tool, both providers, fair | one card of each kind (`OneCardEach`), cards that show what was collected (`CardsAreFresh`), a stop line that stays (`StopIsShown`), all text of a completed turn and none of another (`NothingLost`), text deltas that add up (`FragmentsAddUp`), no files left (`TempDirRemoved`), messages in order through a failed interrupt (`RenderedInOrder`), an end for every message (`EveryMessageEnds`) |
| `admission` | two messages of 22 kinds, two handlers, two identity lookups, a ring of one entry that lives two ticks, three deliveries that pass; two Bash calls of two commands, two directories with three kinds of settings files, two edits, one failing stat or read | a message passes once within an hour unless as many others as the ring holds have passed, and a delivery is handled at most once (`HandledOnce`); a message is answered only by the bot it is for (`OnlyOursIsAnswered`); the cache has the rules of the files it could read (`CacheIsTrue`) and the standing deny rule of a file that could be read wins (`StandingDenyWins`) |
| `approve_unreadable` | the tool calls of `admission` alone | the disagreement of section 6 about files that cannot be read |
| `session_ack_then_start` | small | the disagreement of section 6 about an acknowledged stop |

`CHECK_DEADLOCK FALSE` is used where the system may really stop: the brokers,
the store, the manager and the turn when their bounded inputs are used up. In `session_safety`
deadlock is checked, with `AwaitMessage` as the one legal rest; a `queryFn` that throws leaves a
session that does nothing any more, which counts as one.

Two runs have a constraint, `Narrow`, which keeps cases apart that do not need each other: in
`session_safety` a tool call comes without bangs, faults and a session id (which only the retry
after a context that was too large asks for); in `admission` a click, which shares
only the socket with the messages, comes before the first of them, and the clock and the third
passage are combined with three kinds of messages instead of 22.

**Bounds.** The session's hazards are about the pair *current turn, next turn*
and one or two callers; three inputs of which one is a bang give a turn that
runs, a queue that is dropped and a successor, and a second loop exists so that
`LoopOwnsWork` can fail. Two overlapping tool calls are the least that can disturb each
other's state. Two requests show that `cancelAll`, timers and patches of one do
not touch the other; symmetry is used over requests, users' roles are fixed. In
the journal three revisions are *begin, a streamed event, finish*, so a revision
can grow while a snapshot is on its way; two process ends give a crash during
the recovery of a crash; two records are needed only for fairness among records.
In the store a ring of one is full after the first message, two ticks of TTL
separate *fresh*, *old* and *expired*, and three writes let a dedup flush, a session
save and a final save wait together. In the manager the shortest trace of every
mutant has two or three inputs, so four leave room for a command between; the
second chat is needed for `/resume`, the project for a redirection that names no
provider. In a turn, two events let a card be sent by one and updated by the
other, give the two text blocks at which the middle card appears, let an item of Codex be
extended or replaced, and put a message before, between and behind an interrupt; with one
fault every call may fail at every place, which is also what `NothingLost` promises to survive. At
the gateway, two handlers and two messages give a redelivery during each await and two
messages that wait for one lookup; two lookups give one that fails and one that
succeeds. The 22 kinds of messages differ from a message for this bot in one respect each. For the
redelivery a run, a message with images and a refusal are enough, which are the three ways to
wait; with a ring of one and two ticks the entry is evicted by the other message or expires, each
while the first handler still works, and the third passage is the second one of a message.
Two edits change a file between its time and its reading, and once more before the next call, or
write the deny rule and the allow rule of two directories, of which a failing read then takes one. What is
bounded here is not bounded in the theorems.

**Fairness.** The code between awaits runs on (weak fairness of the loop, the
callers, the tool calls, the drain, the handler and `emit`); timers fire; file operations and
requests end, because the HTTP clients have timeouts; a provider run ends; a supervisor
restarts a process that is down. Nobody is obliged to send a message, to click,
to stop, or to crash; saves and requests are not obliged to succeed, except
those of a record that is not `Broken`, in `journal_live`. In `Turn` the verdict on an
interrupt comes, because `interrupt()` of both adapters returns at once.

Symmetry is not used in a run with a liveness property.

## 4. What is proved

The theorems hold for every value of the constants: any number of inputs,
stops, tool calls, requests, records, messages, events, failing calls, files and crashes,
and any capacity, limit or TTL that the module's named assumption allows.

| Theorem | States |
|---|---|
| `TypeCorrect`, `LoopAlwaysOwnsWork`, `StateAlwaysMatchesWork`, `AlwaysOwnedOnce`, `TurnsAlwaysInOrder`, `AlwaysSettledOnce`, `CancellationAlwaysAsked`, `NeverRestartsAfterAck`, `SessionIsTurnQueue` (SessionProofs) | type correctness, every safety property of `Session` that a passing run checks, and that it implements `TurnQueue` |
| `PermissionTypeCorrect`, `PermissionTimersMatch`, `PermissionCardAgrees`, `PermissionImplements` | the permission broker, and that it implements `CardRequest` |
| `QuestionTypeCorrect`, `QuestionAnswersComplete`, `QuestionFirstClickWins`, `QuestionImplements` | the question broker, and that it implements `CardRequest` |
| `JournalTypeCorrect`, `JournalAtMostOnce`, `SyncedAlwaysShown`, `NoticeAlwaysHonest` | the journal: every safety property of its run |
| `ManagerTypeCorrect`, `ManagerNoCrossProvider`, `ManagerWorkIsActive`, `ManagerForgottenStays`, `ManagerRestartContinues` | the session manager: all properties of its run |
| `StoreTypeCorrect`, `StoreSavedStays`, `StoreCrashIsNoticed`, `StoreSuppressionEnds`, `StoreNoReprocess` | the store |
| `RenderTypeCorrect`, `TurnImplementsRendering`, `OneCardEachAlways`, `CardsAlwaysFresh`, `StopAlwaysShown`, `TempDirAlwaysRemoved`, `AlwaysRenderedInOrder`, `NothingEverLost`, `FragmentsAlwaysAddUp` (BridgeProofs) | the turn: it implements the rendering with any provider, and every safety property of its run |
| `GatewayTypeCorrect`, `HandledAtMostOnce`, `OnlyOursEver`, `OneIdentityLookup` | the gateway |
| `ApproveTypeCorrect`, `RulesCacheIsTrue`, `DenyAlwaysWins` | the auto-approver |

Each rests on an inductive invariant and the three facts `Init => I`,
`I /\ [Next]_vars => I'`, `I => Inv`.

* **Session, `IInv`.** `TypeOK` alone is not inductive: that an input runs at most twice needs that a
  queued input is queued once and was never run (`QueueIsFresh`), that nobody knows
  an input before it is submitted (`NewIsFresh`), and that a loop between taking an input and
  starting it holds an input without a run, before the retry one with exactly
  one (`RetryBound`). `OneLoop` closes the circle: with two loops the same input
  could be started twice. `IdleInv` adds what the loop's program counter says of
  `state`, `current` and the runs; `FlagInv` says that without `loopRunning` the
  session is idle and its queue empty.
* **Session, `OwnInv`.** Sequence numbers are given in order (`Numbered`), the queue is
  ascending and above everything that was run or taken (`QueueAhead`, `HandAhead`), what a
  stop has collected is nowhere else (`DropsApart`), and nothing pending is lost
  (`Placed`). `OwnedOnce`, `TurnsInOrder` and `SettledOnce` follow (no run
  checks the last one by itself: the abstract queue of turns answers nobody twice).
* **Session, `AskInv`.** The record on an input and the caller that created it point at each
  other as long as the interrupt has not failed (`Asked`); everybody who waits, waits for a
  record of the same input, and one caller dispatches it (`Waits`); the loop judges by a
  record of the input it holds, and goes back to the provider only after the failed one
  is gone (`LoopsWait`); what is dropped has never run (`DropsFresh`). The last part needs
  that no stop gets in between the answer of an interrupt and the retry that awaits it:
  a message is I/O, a settled promise is not (`Quiet`).
* **Session, the queue of turns.** `SessionIsTurnQueue` has a lemma per step of the table in
  section 2. It needs all of the above and `TurnInv`: the current turn is the one the loop
  has in hand, so that a caller aims at the turn there is, and a turn that ended had a
  provider call. That a step starts a provider call only for a turn without an
  acknowledged stop is where `AskInv` comes in; that an answered drop is in no
  other list, where `OwnInv` does.
* **Brokers, `CardInv`.** A patch under way names the way its request ended
  (`PatchesAgree`); with it, late patches cannot make a card lie. The lemmas of
  `CardBrokerProofs` are about `AnyStep(answers)`, which both brokers refine; the question
  broker adds its answers in `QInv`. The refinement theorems map every step to one of
  `Ask`, `Accept`, `Refuse` or a stutter.
* **Journal, `JInv`.** The chain *on GitHub or on its way ⇒ attempted on disk ⇒
  attempted in memory* (`AttemptOnDisk`, `DiskInMemory`), and that a record absent
  from the disk was never run (`AbsentIsNew`).
* **Journal, `SyncInv`.** The snapshot a drain carries is newer than the synced revision and
  not newer than the record (`Fresh`); memory and disk know of no revision and no comment that does
  not exist (`Sound`); and a record that is over on disk has the same snapshot in memory
  (`InMemory`). The last part is why a restart, which goes back to the disk, cannot take back
  what a notice said: an update that lands after the notice has the same text.
* **Store, `IInv`.** Writes do not overlap (`Chain`), versions grow from the file over
  each body and the last state to the memory (`Newer`), nothing says clean while
  messages are accepted (`Unclean`), and a position whose flush landed or waits
  is in every copy of the ring it has reached, as long as it is neither expired
  nor evicted (`Remembered`).

* **Session manager, `IInv`.** The core is `BothSet`: a chat with entries of both
  providers in one project has its override set there. So inference and default only
  decide when they cannot take the chat away from an entry, which is why a
  change of the default (by any chat, or across a restart) does not move a
  session that works (`WorkChosen`) or a conversation. `FileAgrees` says what the file may
  lack; `ForgottenIssued` that a dropped id is not handed out again. Most steps
  are one of a few shapes (`Calm`, `Grown`, `Moved`, `Forgets`), and `CalmStep` is the
  preservation for all of them; capturing, resuming and restarting have proofs of
  their own.
* **Rendering, `RenderInv`.** The core is `FreshInv`: a card may lag behind what was
  collected only while `emit` is about to update that very card. It needs that the
  sequence number Feishu has seen is never above the one `turnState` counts
  (`CardInv`), or a later update would be dropped, and `PlaceInv`, which ties the await the
  loop is in to the event it is busy with. `StopInv` says that after the handler's update
  of the status line the loop is over. The steps of the texts, of a card and of the status line
  are three shapes with a lemma each.
* **Rendering, `FlushInv`.** For each place of `flushTextBlocks` it says which blocks are in the
  chat (`Seen`) or still to be sent one by one (`Left`), as long as one call at most failed; the
  fallbacks are places that are only reached after a failure. `NothingLost` is what it says of
  the end.
* **Turn.** `TurnImplementsRendering` uses `RelayInv`: what waits to be rendered consists of
  messages that become events of the rendering, the fragments of `deltaText` included. The
  properties of the cards then follow from the rendering alone. `OrderInv` splits what was
  given into what was rendered, what is about to be, and what is put off.
* **Gateway, `GatewayInv`.** No delivery has two tasks, and one whose task still waits for the
  identity or an image has not been handled (`TasksInv`); a task past the gates belongs to a
  message for this bot. `RingInv` is what makes a repeat impossible: whatever passed and is not in the
  ring is older than its life time or has as many behind it as the ring holds. `Evict` counts
  the later entries of the ring, which are among the later positions. `asking` counts the lookup
  that is pending.
* **AutoApprove, `ApproveInv`.** `Loaded` relates the rules read so far, the times taken before
  and the files that could be read: such a file whose time is still the same has contributed its rules. The
  entry of the cache inherits it from the call that stored it (`EntryInv`), whichever
  call finished last, and a verdict inherits it from either.

* **Codex texts, `HeardInv`.** `FragmentsAddUp` flattens a sequence of fragments, which is a
  fold. What it needs of the fold is that there is one flattening and that one more fragment adds
  its text (`FlattenUnique`, `FlattenAppend`). These are inductions over a length; they are
  done on sets, as `SetInduction`: a set of naturals that holds 0 and every successor of a
  member is all of them, which follows from the pigeonhole principle of the library. `HeardInv`
  is then the property itself with the types of what was heard, and that the cache of the adapter is
  the text that was heard last.

Only model-checked: the liveness properties (fairness and ENABLED are beyond the
prover, and `EveryChangeLands` is one of them). Only proved, with no run: `OpenIsReachable`, a conjunct of `CardInv`,
and `IdentityAskedOnce`.

## 5. What is not modelled

* **Data of the adapters**: thread and turn options, usage figures, the MCP server of
  `ask_user`, and the requests of the Feishu client. `config.ts`, `cli.ts` and the preflights
  are functions of their input that run before anything else.
* **The context reset inside a turn** is in `Session`, but not in `Turn`: the retry keeps the text
  blocks of the first attempt in `turnState`, and they are sent with those of the second.
* **A queued input that is dropped** is in `Session` and `TurnRendering` (a notice, then
  cancelled), not in `Turn`, whose inputs run.
* **Directories, modes and models of a session.** `SessionManager` keeps only what
  decides which conversation is reached. `/memory` and the read-only commands open
  the session and do nothing else.
* **Text**: prompts, context-risk levels, retained summaries, the wording of
  cards and comments, redaction, translation. No property is about them.
* **Several sessions at once.** `Session` has one chat. The only state
  two sessions share is the brokers', where `cancelAll` of one denies the requests
  of all; for the other session this is a `CardAnswered` with a denial.
* **Malformed files**: `load` rejects them before anything runs. A malformed settings file is a
  file without rules, in `AutoApprove`, and so is one whose read fails; a stat that fails is that
  of a missing file.
* **The site** (`src/site`), the tests and the documents.

Abstractions a reader should know:

* An update of a comment that was overtaken by a newer one and lands after it is
  assumed away. `audit/github-client.ts:160` gives up after a timeout and the
  journal would not notice; the comment would then show the older text until the
  next change. `SyncedIsShown` depends on this assumption.
* A comment deleted on GitHub is not modelled; the journal never creates it again.
* A message whose dedup flush was under way at a crash is handled again. The
  source documents this; `NoReprocess` is stated for flushes that resolved.
* A message that is delivered again when the ring has forgotten it, after an hour or after 200
  others, runs again, also while its first turn still works. The source accepts this
  (`util/dedup.ts:75-89`); `HandledOnce` says when it cannot happen yet.
* `CacheIsTrue` and `StandingDenyWins` speak of the files whose stat and reads succeeded: those of
  the call itself, and those of the load whose entry it was served from. For the others see
  section 6. A `.git` whose stat fails is passed over, so `IsLastDir` allows any git root or
  the boundary.
* A failed session save is not repeated until something changes again, and a
  debounce that is re-armed before it fires is postponed each time;
  `EveryChangeLands` is stated with the exceptions of a failed write and an ended process.
* An update of a card that timed out is assumed to have landed by the time the next call is
  answered, or never. If it landed after the patch that replaced it, the card would show the
  older state; `CardsAreFresh` and `StopIsShown` depend on this.
* The oldest entries that a long tool card leaves out, and the cut of long texts, are not
  modelled: a card "shows" what it was built from.
* Two writes of one settings file have different modification times. A file that is created, read
  and removed again during one load leaves its rules in an entry that says *missing*; `CacheIsTrue` and
  `StandingDenyWins` except allow rules once a file was removed (`removed`).
* A call that was refused and one that was done but reported as failed are alike to the code; the
  first of `NothingLost` is stated for one fault.
* Timers measure ticks, and a tick may come at any time.
* In `SessionManager` looking a session up and submitting to it is one step. In the code
  there are microtasks in between (the session's mutex, which is never held over
  I/O); two events would have to arrive in one turn of the event loop to see them.
* `shouldPersistSession` leaves a session without conversation and with default settings out
  of the file. `SessionManager` writes it and lets `Restart` drop any record, as it may do for
  expired ones; after a restart the two cannot be told apart.
* `RestartContinues` makes two exceptions: a chat without a conversation (the file
  may still have the one that was given up as too large), and a key with both a
  session and a record, where the file has the record.

## 6. Where the code does something else than its documents say

Two runs end in a counterexample. Each checks a sentence of the repository.

* `session_ack_then_start`: a `/stop` between taking an input and setting
  `currentTurn` finds nothing to interrupt, is acknowledged, and the provider call
  follows (`claude/session.ts:642`, against the comment at line 688).
* `approve_unreadable`: a read that fails (EACCES, EMFILE, EIO) of a settings file that is there
  and unchanged makes it a file without rules (`claude/auto-approve.ts:507-512`), and a stat that
  fails makes it a missing one (275-282). Its deny rules are gone while the allow rules of another
  directory stay, so a denied command runs without a card; the entry is cached under the
  unchanged times (475) and serves the next calls too. The header (18-21) says that an unreadable
  rules file and a filesystem error end in a card, line 376 that deny always wins, and so does
  `src/README.md:47` and 55. In `AutoApprove`: `ReadFile` with a read that fails; `ErrorsNeverWiden`
  is the claim.

More were met while modelling; they are behaviours of the models but have no
run of their own.

* A card of a finished turn, answered with "allow for this turn", changes the mode
  of the next turn: `claude/session.ts:1452` uses the turn that is current at the click,
  the comment at line 1448 says turn-scoped. In `Session`: `CardAnswered` with
  `allow_turn`, the turn ends and the next one starts, then `ApplyAllowTurn`.
* `cancelAll` of a stop ends the registered requests only. A card still being posted
  registers afterwards and its tool call waits for the owner or the timer
  (`claude/feishu-permission-broker.ts:174`). In `Session` this is a `CardPosted`
  after `CancelPending`; `EveryRequestEnds` shows that the wait is finite.
* `queryFn` throwing before it returns a handle is caught nowhere in `processLoop`
  (`claude/session.ts:645`): `loopRunning` stays set without a loop, and messages
  are accepted that nobody runs. This is the exception in `WorkHasLoop` and the
  reason why "open" is not among the faults of `session_live`.
* `/resume` stores a record under its provider; when the chat has a live session
  of that provider in its project (reached by `/provider` before), `getOrCreate` finds
  the session and the record waits behind it
  (`claude/session-manager.ts:309`, where
  `src/docs/superpowers/specs/2026-04-16-codex-provider-design.md:342` says that the
  exact persisted session is resumed). This is the second exception of `RestartContinues`.
* A `/cd` that is confirmed while the session generates drops it from the map without
  stopping it (`commands/dispatcher.ts:982`): its turn runs on, and `/stop` reaches the new
  session. `CdConfirmed` removes the key from `working`; `WorkIsActive` speaks of the
  sessions in the map only.
* `/new` deletes what is active when its stop returns (`commands/dispatcher.ts:611`); a
  `/project` or `/provider` sent meanwhile, once the session is idle, moves the deletion to
  another key (`NewStops`, `SwitchProvider`, `NewStopped`).
* `/resume <chat id>` of a session without an id takes the chat id for a session id
  (`commands/dispatcher.ts:853`); `Ids` therefore contains the chats.

* When the save before the POST fails, a record stays in doubt for good although nothing was
  posted, and never gets a comment (`audit/work-journal.ts:243`, against
  `src/docs/work-journal.md:9`). In `WorkJournal`: `SaveAttempt` with a failing save.
* The final state that says *clean* can be replaced by a session save before its write takes its
  body, so that an orderly exit leaves an unclean file (`persistence/state-store.ts:275`). In
  `StateStore`: a save between the final one and its `Snapshot`.
* The status card of a turn that is over before the card is sent stays at "processing":
  `index.ts:858` sends it after `submit` returned and nothing updates it, unless the turn was
  cancelled. A failed turn leaves its last status line, and the text it has collected is not sent
  (`index.ts:886`).
* The comment at `index.ts:848` says that a queued input's turn runs under the emit of an
  earlier message. It runs under its own (`input.emit` in `runTurn`), without a status card.
* Codex sends an agent message as a growing text. Each growth becomes a block of its own, so
  that the answer card shows the last piece only, and the rest is in the collapsed card
  (`codex/sdk-run.ts:302`, `index.ts:779`). `NothingLost` still holds: no block is dropped.
* An answer card that is delivered but reported as failed is followed by the text fallback: the answer
  is there twice (`feishu/final-reply.ts:14`). `OneCardEach` counts cards.
* `commands/router.ts:96` says that an unknown `/word` is run; line 134 answers unknown_command.
* A post that mentions this bot is not recognised as a command while the bot's own open_id is
  unknown, because only mentions of a known own id are removed (`feishu/message-translator.ts:65`; `Heard`).
* A message that was dropped because the identity lookup failed is not handled when Lark
  delivers it again while the ring has it: its id was remembered before (`feishu/gateway.ts:165`).
* `claude/query-handle.ts:57` says that `interrupt()` resolves after the run has settled. Both adapters
  resolve at once; `runTurn` does not rely on it, since it goes on draining.
* `claude/auto-approve.ts:501` says that a broken rules file must never widen what is approved. A
  malformed one is read as a file without rules too. In `AutoApprove`: `WriteFile` with `NoRules`.
* Two questions of one request with the same text share one entry of the answers, that of the
  last of them (`claude/feishu-question-broker.ts:219`). The type is documented as a map by
  text (`claude/question-broker.ts:60-64`), and nothing forbids equal texts; the card shows both
  answers. In `QuestionBroker`: `AnswerMap` with equal `TextOf`.
* A tool card with exactly one entry says "0 earlier calls omitted": the loop that would return
  before does not run (`feishu/cards.ts:325`).

## 7. Plan

The modules of the first plan are written. What is left, in this order:

1. `SessionManager` and `Session` together: a session dropped while it works goes on
   beside its successor; which cards `cancelAll` of another chat ends.
2. The context reset in `Turn`, with the text of the first attempt.
3. An abstract specification of the file for `SessionManager`: its save is one step, whereas in
   `StateStore` a save lags behind the change it was asked for, so the
   refinement needs a file that may be older than the memory.
