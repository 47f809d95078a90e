--------------------------- MODULE TurnRendering ---------------------------
(***************************************************************************)
(* One turn as the user sees it (onMessage of index.ts): the handler of    *)
(* the message sends a status card and waits for the turn; the loop of the *)
(* session awaits emit for every event of the provider, and emit keeps a   *)
(* status line, a thinking card and a tool card up to date, collects the   *)
(* text, and sends it when the turn ends.                                  *)
(*                                                                         *)
(* Every await is a call of Feishu that may be refused, or take effect and *)
(* be reported as failed (withTimeout of feishu/client.ts).  What lies     *)
(* between two awaits is one step.                                         *)
(***************************************************************************)
EXTENDS Integers, Sequences, FiniteSets

CONSTANTS
    Tools,         \* ids of tool calls
    Texts,         \* texts of assistant blocks
    HideThinking,  \* config.render.hideThinking
    ShowStats,     \* config.render.showTurnStats
    Journal,       \* the work journal is configured
    MaxEvents,     \* bound on the events of a turn, without its end
    MaxFaults      \* bound on calls that fail

ASSUME RenderAssumption ==
    /\ {HideThinking, ShowStats, Journal} \subseteq BOOLEAN
    /\ {MaxEvents, MaxFaults} \subseteq Nat

VARIABLES
    at,        \* where the loop's emit and the handler are
    event,     \* the event emit is busy with
    events,    \* number of events so far
    card,      \* turnState: what the bridge knows of each card
    view,      \* Feishu: what each card shows
    thoughts,  \* thinkingText: number of blocks in it
    tools,     \* toolEntries
    blocks,    \* textBlocks
    pending,   \* flushTextBlocks: blocks left to send one by one
    chat,      \* Feishu: the replies below the message, in order
    outcome,   \* outcome.done: running or how it settled
    started,   \* submit returned started, not queued
    missed,    \* history: the last update of the status card failed
    faults

turnState == <<card, thoughts, tools, blocks, pending>>
renderVars == <<at, event, events, turnState, view, chat, outcome, started, missed, faults>>

Cards == {"status", "thinking", "tools"}
Outcomes == {"completed", "cancelled", "failed"}
Event == [type: {"none", "thinking", "notice", "turn_end"}]
    \cup [type: {"text"}, text: Texts]
    \cup [type: {"tool_use", "tool_result"}, tool: Tools]
Lines == {"none", "processing", "done", "thinking", "tool", "tool_done", "stopped"}
Entry == [tool: Tools, done: BOOLEAN]
Reply == [kind: {"middle", "block", "answer", "answer_text", "stats", "notice", "work", "alarm",
                 "failure"},
          shows: SUBSET Nat]

RenderTypeOK ==
    /\ at \in [loop: {"ready", "cursor", "cursor_patch", "card", "convert", "patch", "notice",
                      "middle", "each", "answer", "answer_text", "stats", "closing", "over"},
               handler: {"send", "convert", "settle", "cursor", "cursor_patch", "work",
                         "alarm", "failure", "over"}]
    /\ event \in Event
    /\ events \in 0..MaxEvents
    /\ card \in [Cards -> [sent: BOOLEAN, streams: BOOLEAN, off: BOOLEAN, seq: Nat]]
    /\ DOMAIN view = Cards
    /\ \A k \in Cards : view[k].count \in Nat /\ view[k].seq \in Nat
    /\ view["status"].shows \in Lines
    /\ view["thinking"].shows \in Nat
    /\ view["tools"].shows \in Seq(Entry)
    /\ thoughts \in Nat
    /\ tools \in Seq(Entry)
    /\ blocks \in Seq(Texts)
    /\ pending \in Seq(Nat)
    /\ chat \in Seq(Reply)
    /\ outcome \in {"running"} \cup Outcomes
    /\ {started, missed} \subseteq BOOLEAN
    /\ faults \in 0..MaxFaults

\* A queued input was told so by submit (the notice) and has no status card.
RenderInit ==
    /\ started \in BOOLEAN
    /\ at = [loop |-> "ready", handler |-> IF started THEN "send" ELSE "settle"]
    /\ event = [type |-> "none"]
    /\ events = 0
    /\ card = [k \in Cards |-> [sent |-> FALSE, streams |-> FALSE, off |-> FALSE, seq |-> 0]]
    /\ view = [status |-> [count |-> 0, shows |-> "none", seq |-> 0],
               thinking |-> [count |-> 0, shows |-> 0, seq |-> 0],
               tools |-> [count |-> 0, shows |-> <<>>, seq |-> 0]]
    /\ thoughts = 0 /\ tools = <<>> /\ blocks = <<>> /\ pending = <<>>
    /\ chat = <<>>
    /\ outcome = "running"
    /\ missed = FALSE
    /\ faults = 0

-----------------------------------------------------------------------------
(* Calls of Feishu. *)

\* A call succeeds, is refused, or takes effect although it is reported as failed.
Fates == {"ok"} \cup (IF faults < MaxFaults THEN {"refused", "lost"} ELSE {})

Call(fate) == /\ fate \in Fates
              /\ faults' = IF fate = "ok" THEN faults ELSE faults + 1

\* replyCard: the card appears below the message.
Send(k, content, fate) ==
    view' = IF fate = "refused" THEN view
            ELSE [view EXCEPT ![k].count = @ + 1, ![k].shows = content]

\* patchCard replaces the card.
Patch(k, content, fate) ==
    view' = IF fate = "refused" THEN view ELSE [view EXCEPT ![k].shows = content]

\* streamElementContent: CardKit drops an update that is not newer than what it has seen.
Stream(k, content, n, fate) ==
    view' = IF fate = "refused" \/ n <= view[k].seq THEN view
            ELSE [view EXCEPT ![k].shows = content, ![k].seq = n]

\* A reply of its own below the message; it shows the named text blocks.
Post(kind, shown, fate) ==
    chat' = IF fate = "refused" THEN chat ELSE Append(chat, [kind |-> kind, shows |-> shown])

Goto(p, place) == at' = [at EXCEPT ![p] = place]

-----------------------------------------------------------------------------
(* The status line (updateStatus), used by the loop and by the handler. *)

Line(e) == CASE e.type = "text" -> "done"
             [] e.type = "thinking" -> "thinking"
             [] e.type = "tool_use" -> "tool"
             [] OTHER -> "tool_done"

CardOf(e) == IF e.type = "thinking" THEN "thinking" ELSE "tools"
CursorLine(p) == IF p = "handler" THEN "stopped" ELSE Line(event)

\* What the handler does when the turn is settled: finishWork, then the reason of a failure.
AfterWork == IF outcome = "failed" THEN "failure" ELSE "over"
Wrapup == IF Journal THEN "work" ELSE AfterWork

\* What follows updateStatus: emit records the event and turns to its card.
AfterCursor(p) ==
    \/ /\ p = "handler"
       /\ Goto(p, Wrapup)
       /\ UNCHANGED <<thoughts, tools, blocks>>
    \/ /\ p = "loop"
       /\ Goto(p, IF event.type = "text" \/ card[CardOf(event)].off THEN "ready" ELSE "card")
       /\ blocks' = IF event.type = "text" THEN Append(blocks, event.text) ELSE blocks
       /\ thoughts' = IF event.type = "thinking" THEN thoughts + 1 ELSE thoughts
       /\ tools' = IF event.type = "tool_use"
                   THEN Append(tools, [tool |-> event.tool, done |-> FALSE]) ELSE tools

StreamCursor_gives_up(p) ==    \* mutant: a failed update is not repeated as a patch
    /\ at[p] = "cursor" /\ card["status"].streams
    /\ \E fate \in Fates :
        /\ Call(fate)
        /\ card' = [card EXCEPT !["status"].seq = @ + 1, !["status"].streams = (fate = "ok")]
        /\ Stream("status", CursorLine(p), card["status"].seq + 1, fate)
    /\ AfterCursor(p) /\ missed' = FALSE
    /\ UNCHANGED <<event, events, pending, chat, outcome, started>>

StreamCursor(p) ==
    /\ at[p] = "cursor" /\ card["status"].streams
    /\ \E fate \in Fates :
        /\ Call(fate)
        /\ card' = [card EXCEPT !["status"].seq = @ + 1, !["status"].streams = (fate = "ok")]
        /\ Stream("status", CursorLine(p), card["status"].seq + 1, fate)
        /\ IF fate = "ok"
           THEN AfterCursor(p) /\ missed' = FALSE
           ELSE Goto(p, "cursor_patch") /\ UNCHANGED <<thoughts, tools, blocks, missed>>
    /\ UNCHANGED <<event, events, pending, chat, outcome, started>>

PatchCursor(p) ==
    /\ at[p] \in {"cursor", "cursor_patch"}
    /\ card["status"].sent /\ ~card["status"].streams
    /\ \E fate \in Fates :
        /\ Call(fate)
        /\ Patch("status", CursorLine(p), fate)
        /\ missed' = (fate = "refused")
    /\ AfterCursor(p)
    /\ UNCHANGED <<event, events, card, pending, chat, outcome, started>>

NoCursor(p) ==
    /\ at[p] = "cursor" /\ ~card["status"].sent
    /\ AfterCursor(p)
    /\ UNCHANGED <<event, events, card, view, pending, chat, outcome, started, missed, faults>>

Cursor(p) == StreamCursor(p) \/ PatchCursor(p) \/ NoCursor(p)

-----------------------------------------------------------------------------
(* The thinking card and the tool card. *)

Content(k) == IF k = "thinking" THEN thoughts ELSE tools

CardCall == UNCHANGED <<event, events, thoughts, tools, blocks, pending, chat, outcome,
                        started, missed>>

SendCard_retries ==    \* mutant: a failed send does not switch the card off
    LET k == CardOf(event) IN
    /\ at["loop"] = "card" /\ ~card[k].sent
    /\ \E fate \in Fates :
        /\ Call(fate)
        /\ Send(k, Content(k), fate)
        /\ card' = [card EXCEPT ![k].sent = (fate = "ok")]
        /\ Goto("loop", IF fate = "ok" THEN "convert" ELSE "ready")
    /\ CardCall

\* The first event of its kind sends the card; a failure switches the card off for the turn.
SendCard ==
    LET k == CardOf(event) IN
    /\ at["loop"] = "card" /\ ~card[k].sent
    /\ \E fate \in Fates :
        /\ Call(fate)
        /\ Send(k, Content(k), fate)
        /\ card' = [card EXCEPT ![k].sent = (fate = "ok"), ![k].off = (fate # "ok")]
        /\ Goto("loop", IF fate = "ok" THEN "convert" ELSE "ready")
    /\ CardCall

\* convertMessageIdToCardId: without a card id the card is patched.
ConvertCard ==
    /\ at["loop"] = "convert"
    /\ \E fate \in Fates :
        /\ Call(fate)
        /\ card' = [card EXCEPT ![CardOf(event)].streams = (fate = "ok")]
    /\ Goto("loop", "ready")
    /\ UNCHANGED view /\ CardCall

StreamCard_gives_up ==    \* mutant: a failed update is not repeated as a patch
    LET k == CardOf(event) IN
    /\ at["loop"] = "card" /\ card[k].sent /\ card[k].streams
    /\ \E fate \in Fates :
        /\ Call(fate)
        /\ card' = [card EXCEPT ![k].seq = @ + 1, ![k].streams = (fate = "ok")]
        /\ Stream(k, Content(k), card[k].seq + 1, fate)
        /\ Goto("loop", "ready")
    /\ CardCall

StreamCard ==
    LET k == CardOf(event) IN
    /\ at["loop"] = "card" /\ card[k].sent /\ card[k].streams
    /\ \E fate \in Fates :
        /\ Call(fate)
        /\ card' = [card EXCEPT ![k].seq = @ + 1, ![k].streams = (fate = "ok")]
        /\ Stream(k, Content(k), card[k].seq + 1, fate)
        /\ Goto("loop", IF fate = "ok" THEN "ready" ELSE "patch")
    /\ CardCall

PatchCard ==
    LET k == CardOf(event) IN
    /\ at["loop"] \in {"card", "patch"} /\ card[k].sent /\ ~card[k].streams
    /\ \E fate \in Fates :
        /\ Call(fate)
        /\ Patch(k, Content(k), fate)
        /\ card' = [card EXCEPT ![k].off = (fate # "ok")]
    /\ Goto("loop", "ready")
    /\ CardCall

CardStep == SendCard \/ ConvertCard \/ StreamCard \/ PatchCard

-----------------------------------------------------------------------------
(* An event reaches emit. *)

KnownAt(t) == {n \in DOMAIN tools : tools[n].tool = t}
FirstOf(S) == CHOOSE n \in S : \A m \in S : n <= m

Take(e) ==
    /\ at["loop"] = "ready" /\ outcome = "running"
    /\ event' = e
    /\ UNCHANGED <<card, view, thoughts, blocks, pending, chat, outcome, started, missed, faults>>

TakeText(e) ==
    /\ e.type = "text" /\ Take(e)
    /\ Goto("loop", "cursor") /\ UNCHANGED tools

TakeThinking(e) ==
    /\ e.type = "thinking" /\ Take(e)
    /\ Goto("loop", IF HideThinking \/ card["thinking"].off THEN "ready" ELSE "cursor")
    /\ UNCHANGED tools

TakeToolUse(e) ==
    /\ e.type = "tool_use" /\ Take(e)
    /\ Goto("loop", "cursor") /\ UNCHANGED tools

\* A result is filed under the first call with its id; one without a call gets an entry.
TakeToolResult(e) ==
    /\ e.type = "tool_result" /\ Take(e)
    /\ \/ /\ KnownAt(e.tool) # {}
          /\ tools' = [tools EXCEPT ![FirstOf(KnownAt(e.tool))].done = TRUE]
          /\ Goto("loop", "cursor")
       \/ /\ KnownAt(e.tool) = {}
          /\ tools' = Append(tools, [tool |-> e.tool, done |-> TRUE])
          /\ Goto("loop", IF card["tools"].off THEN "ready" ELSE "card")

\* queued, interrupted, context_warning, context_reset: a text of their own.
TakeNotice(e) ==
    /\ e.type = "notice" /\ Take(e)
    /\ Goto("loop", "notice") /\ UNCHANGED tools

TakeEvent(e) ==
    /\ events < MaxEvents /\ events' = events + 1
    /\ \/ TakeText(e) \/ TakeThinking(e) \/ TakeToolUse(e) \/ TakeToolResult(e) \/ TakeNotice(e)

AfterFlush == IF ShowStats THEN "stats" ELSE "closing"

TakeTurnEnd ==
    /\ Take([type |-> "turn_end"])
    /\ Goto("loop", CASE blocks = <<>> -> AfterFlush
                      [] Len(blocks) = 1 -> "answer"
                      [] OTHER -> "middle")
    /\ UNCHANGED <<events, tools>>

-----------------------------------------------------------------------------
(* The texts: notices, flushTextBlocks, the answer with its fallback, stats. *)

Texting == UNCHANGED <<event, events, card, view, thoughts, tools, blocks, outcome, started, missed>>
Final == Len(blocks)

Notice ==
    /\ at["loop"] = "notice"
    /\ \E fate \in Fates : Call(fate) /\ Post("notice", {}, fate)
    /\ Goto("loop", "ready")
    /\ UNCHANGED pending /\ Texting

Middle_no_fallback ==    \* mutant: the blocks are not sent one by one
    /\ at["loop"] = "middle"
    /\ \E fate \in Fates : Call(fate) /\ Post("middle", 1..(Final - 1), fate)
    /\ Goto("loop", "answer") /\ UNCHANGED pending
    /\ Texting

\* One card for all blocks but the last.
Middle ==
    /\ at["loop"] = "middle"
    /\ \E fate \in Fates :
        /\ Call(fate)
        /\ Post("middle", 1..(Final - 1), fate)
        /\ Goto("loop", IF fate = "ok" THEN "answer" ELSE "each")
        /\ pending' = IF fate = "ok" THEN <<>> ELSE [n \in 1..(Final - 1) |-> n]
    /\ Texting

\* The fallback: every such block in a card of its own, a failing one is dropped.
Each ==
    /\ at["loop"] = "each"
    /\ \E fate \in Fates : Call(fate) /\ Post("block", {Head(pending)}, fate)
    /\ pending' = Tail(pending)
    /\ Goto("loop", IF Tail(pending) = <<>> THEN "answer" ELSE "each")
    /\ Texting

Answer ==
    /\ at["loop"] = "answer"
    /\ \E fate \in Fates :
        /\ Call(fate)
        /\ Post("answer", {Final}, fate)
        /\ Goto("loop", IF fate = "ok" THEN AfterFlush ELSE "answer_text")
    /\ UNCHANGED pending /\ Texting

AnswerText ==
    /\ at["loop"] = "answer_text"
    /\ \E fate \in Fates : Call(fate) /\ Post("answer_text", {Final}, fate)
    /\ Goto("loop", AfterFlush)
    /\ UNCHANGED pending /\ Texting

Stats ==
    /\ at["loop"] = "stats"
    /\ \E fate \in Fates : Call(fate) /\ Post("stats", {}, fate)
    /\ Goto("loop", "closing")
    /\ UNCHANGED pending /\ Texting

\* processLoop settles the input's promise: completed after turn_end was emitted,
\* failed or cancelled between two events.
Settle(how) ==
    /\ outcome = "running"
    /\ IF how = "completed" THEN at["loop"] = "closing" ELSE at["loop"] = "ready"
    /\ outcome' = how
    /\ Goto("loop", "over")
    /\ UNCHANGED <<event, events, turnState, view, chat, started, missed, faults>>

-----------------------------------------------------------------------------
(* The handler. *)

Handling == UNCHANGED <<event, events, thoughts, tools, blocks, pending, outcome, started>>

\* sendStatusCard.
SendStatus ==
    /\ at["handler"] = "send"
    /\ \E fate \in Fates :
        /\ Call(fate)
        /\ Send("status", "processing", fate)
        /\ card' = [card EXCEPT !["status"].sent = (fate = "ok")]
        /\ Goto("handler", IF fate = "ok" THEN "convert" ELSE "settle")
    /\ UNCHANGED <<chat, missed>> /\ Handling

ConvertStatus ==
    /\ at["handler"] = "convert"
    /\ \E fate \in Fates :
        /\ Call(fate)
        /\ card' = [card EXCEPT !["status"].streams = (fate = "ok")]
    /\ Goto("handler", "settle")
    /\ UNCHANGED <<view, chat, missed>> /\ Handling

\* await turnSettled: a cancelled turn's status card is finished by the handler.
Settled ==
    /\ at["handler"] = "settle" /\ outcome # "running"
    /\ Goto("handler", IF outcome = "cancelled" /\ started THEN "cursor" ELSE Wrapup)
    /\ UNCHANGED <<card, view, chat, missed, faults>> /\ Handling

\* finishWork: the notice of the work journal, or its alarm when saving the record or
\* sending the notice fails.
FinishWork ==
    /\ at["handler"] = "work"
    /\ \E fate \in Fates :
        /\ Call(fate) /\ Post("work", {}, fate)
        /\ Goto("handler", IF fate = "ok" THEN AfterWork ELSE "alarm")
    /\ UNCHANGED <<card, view, missed>> /\ Handling

WorkAlarm ==
    /\ at["handler"] = "alarm"
    /\ \E fate \in Fates : Call(fate) /\ Post("alarm", {}, fate)
    /\ Goto("handler", AfterWork)
    /\ UNCHANGED <<card, view, missed>> /\ Handling

\* formatTurnFailure.
ReportFailure ==
    /\ at["handler"] = "failure"
    /\ \E fate \in Fates : Call(fate) /\ Post("failure", {}, fate)
    /\ Goto("handler", "over")
    /\ UNCHANGED <<card, view, missed>> /\ Handling

\* workRun.event: saving the record for an event may fail, and then emit throws.
SaveFails ==
    /\ at["loop"] = "ready" /\ outcome = "running"
    /\ Journal /\ faults < MaxFaults
    /\ faults' = faults + 1
    /\ UNCHANGED <<at, event, events, turnState, view, chat, outcome, started, missed>>

HandlerStep == \/ SendStatus \/ ConvertStatus \/ Settled \/ Cursor("handler")
               \/ FinishWork \/ WorkAlarm \/ ReportFailure
EmitStep == \/ Cursor("loop") \/ CardStep \/ Notice \/ Middle \/ Each \/ Answer
            \/ AnswerText \/ Stats
CloseTurn == Settle("completed")

-----------------------------------------------------------------------------
(* With any provider. *)

RenderNext ==
    \/ HandlerStep \/ EmitStep \/ CloseTurn \/ SaveFails
    \/ \E e \in Event : TakeEvent(e)
    \/ TakeTurnEnd
    \/ \E how \in {"cancelled", "failed"} : Settle(how)

RenderSpec == RenderInit /\ [][RenderNext]_renderVars

-----------------------------------------------------------------------------
Handled == at["handler"] = "over"
Answered == {n \in DOMAIN chat : chat[n].kind \in {"answer", "answer_text"}}
Partial == {n \in DOMAIN chat : chat[n].kind \in {"middle", "block"}}

\* The user sees at most one status card, one thinking card, one tool card and one answer
\* card for a turn, whatever calls fail and however they are reported (index.ts, comment
\* before turnState).
OneCardEach ==
    /\ \A k \in Cards : view[k].count <= 1
    /\ Cardinality({n \in DOMAIN chat : chat[n].kind = "answer"}) <= 1

\* Whenever emit has returned, the thinking card and the tool card show everything that
\* was collected for them, unless they were switched off: a failed stream has fallen
\* through to a patch, and CardKit dropped no update for its sequence number.
CardsAreFresh ==
    at["loop"] = "ready" =>
        \A k \in {"thinking", "tools"} :
            card[k].sent /\ ~card[k].off => view[k].shows = Content(k)

\* Once the handler of a cancelled turn is through, its status card says stopped, unless
\* Feishu refused that update: no line of the turn comes after it, also when the
\* cancellation came while the card was being sent (index.ts, corebyte #50).
StopIsShown ==
    Handled /\ outcome = "cancelled" /\ started /\ card["status"].sent /\ ~missed
        => view["status"].shows = "stopped"

\* A completed turn delivers every block of text although one call fails, and the last
\* block, the answer, below all others (flushTextBlocks and its two fallbacks).  A turn that
\* is cancelled or fails sends neither partial text nor an answer nor statistics (comment
\* after InterruptedError).
NothingLost ==
    at["loop"] = "over" =>
        \/ /\ outcome = "completed"
           /\ faults <= 1 =>
                /\ UNION {chat[n].shows : n \in DOMAIN chat} = DOMAIN blocks
                /\ \A n \in Answered, m \in Partial : m < n
        \/ /\ outcome # "completed"
           /\ Answered \cup Partial \cup {n \in DOMAIN chat : chat[n].kind = "stats"} = {}
=============================================================================
