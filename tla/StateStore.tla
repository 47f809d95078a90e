---------------------------- MODULE StateStore ----------------------------
(***************************************************************************)
(* state.json and its three writers: StateStore (persistence/              *)
(* state-store.ts), the ring of handled message ids PersistentDedup        *)
(* (util/dedup.ts), the saves of the session manager, and the start and    *)
(* the shutdown of index.ts.  The process may die at any await.            *)
(*                                                                         *)
(* The sessions are one number, ver, that grows with every change of them. *)
(* A message handled gets the next position of the history `log'; every    *)
(* copy of the ring is a set of positions, insertion order being their     *)
(* order.                                                                  *)
(***************************************************************************)
EXTENDS Integers, Sequences, FiniteSets

CONSTANTS
    Ids,          \* message_id values the gateway receives
    Capacity,     \* PERSISTENT_DEDUP_CAPACITY
    Ttl,          \* PERSISTENT_DEDUP_TTL_MS, in ticks
    MaxTime,      \* bound on the clock
    MaxVersion,   \* bound on changes of the sessions
    MaxMessages,  \* bound on messages handled
    MaxWrites,    \* bound on writes queued by the environment
    MaxStarts,    \* bound on process starts
    MaxFailures   \* bound on failing writes

ASSUME StoreAssumption ==
    /\ {Capacity, Ttl, MaxWrites} \subseteq Nat \ {0}
    /\ {MaxTime, MaxVersion, MaxMessages, MaxStarts, MaxFailures} \subseteq Nat

VARIABLES
    proc,      \* down, marking, reloading, serving, closing, flushing, finishing
    file,      \* state.json
    lastState, \* StateStore.lastState
    seen,      \* StateStore.seenMessages
    writes,    \* StateStore.writeChain: the writes that have not settled
    ring,      \* PersistentDedup.entries
    ver,       \* the session manager's sessions
    timer,     \* its debounce timer is armed
    now,
    log,       \* history: messages handled, [id, at]
    flushed,   \* history: positions whose own flush resolved
    dropped,   \* history: the last message taken for a duplicate, [of, at]
    acked,     \* history: newest sessions a resolved save was given
    refused,   \* history: newest sessions whose own write failed
    served,    \* history: messages were accepted since the last final state
    starts, failures

memory == <<lastState, seen, writes, ring, ver, timer>>
history == <<flushed, acked, refused, served>>
vars == <<proc, file, memory, now, log, dropped, history, starts, failures>>

Positions == 1..Len(log)
Stored == [clean: BOOLEAN, ver: 0..MaxVersion, seen: SUBSET Positions]
NoBody == [clean |-> FALSE, ver |-> -1, seen |-> {}]
Callers == {"mark", "reload", "session", "ring", "flush", "final"}
Write == [by: Callers, ver: 0..MaxVersion, at: {0} \cup Positions, body: Stored \cup {NoBody}]

TypeOK ==
    /\ proc \in {"down", "marking", "reloading", "serving", "closing", "flushing", "finishing"}
    /\ file \in Stored
    /\ lastState \in [clean: BOOLEAN, ver: 0..MaxVersion]
    /\ seen \in SUBSET Positions /\ ring \in SUBSET Positions
    /\ Cardinality(ring) <= Capacity /\ Cardinality(file.seen) <= Capacity
    /\ writes \in Seq(Write)
    /\ ver \in 0..MaxVersion /\ timer \in BOOLEAN
    /\ now \in 0..MaxTime
    /\ log \in Seq([id: Ids, at: 0..MaxTime])
    /\ flushed \subseteq Positions
    /\ dropped \in [of: {0} \cup Positions, at: 0..MaxTime]
    /\ acked \in 0..MaxVersion /\ refused \in 0..MaxVersion
    /\ served \in BOOLEAN
    /\ starts \in 0..MaxStarts /\ failures \in 0..MaxFailures

\* No state file yet: load() takes INITIAL_STATE, which is clean.
Init ==
    /\ proc = "down"
    /\ file = [clean |-> TRUE, ver |-> 0, seen |-> {}]
    /\ lastState = [clean |-> TRUE, ver |-> 0]
    /\ seen = {} /\ ring = {}
    /\ writes = <<>>
    /\ ver = 0 /\ timer = FALSE
    /\ now = 0
    /\ log = <<>> /\ flushed = {} /\ dropped = [of |-> 0, at |-> 0]
    /\ acked = 0 /\ refused = 0
    /\ served = FALSE
    /\ starts = 0 /\ failures = 0

Newest(a, b) == IF a >= b THEN a ELSE b
Sessions(v) == [clean |-> FALSE, ver |-> v]  \* what saveNow() builds
FinalState(v) == [clean |-> TRUE, ver |-> v] \* what shutdown() builds

\* save(): the caller's state becomes the last state at once, its write waits.
Queued(by, v, n) == [by |-> by, ver |-> v, at |-> n, body |-> NoBody]
Save(queue, by, state, n) ==
    /\ lastState' = state
    /\ writes' = Append(queue, Queued(by, state.ver, n))

Room == Len(writes) < MaxWrites

\* The gateway is connected, and stays so during the shutdown.
Open == proc \in {"serving", "closing", "flushing", "finishing"}

----------------------------------------------------------------------------
(* The dedup ring.                                                         *)

Prune_never(R) == R  \* mutant: entries never expire
Prune(R) == {n \in R : log[n].at > now - Ttl}

Evict(R) == {n \in R : Cardinality({k \in R : k > n}) < Capacity}

Hits(id) == {n \in Prune(ring) : log[n].id = id}

\* check() answers true: the gateway skips the message.
Duplicate(id) ==
    /\ Open
    /\ \E n \in Hits(id) :
          /\ dropped' = [of |-> n, at |-> now]
          /\ ring' = Prune(ring)
    /\ UNCHANGED <<proc, file, lastState, seen, writes, ver, timer, now, log, history, starts, failures>>

\* check() answers false: the id is recorded and the ring flushed, with the
\* last known sessions, before the message is handled.
Handle(id) ==
    /\ Open /\ Room
    /\ Len(log) < MaxMessages
    /\ Hits(id) = {}
    /\ log' = Append(log, [id |-> id, at |-> now])
    /\ ring' = Evict(Prune(ring) \cup {Len(log) + 1})
    /\ seen' = ring'
    /\ Save(writes, "ring", lastState, Len(log) + 1)
    /\ UNCHANGED <<proc, file, ver, timer, now, dropped, history, starts, failures>>

----------------------------------------------------------------------------
(* The session manager.                                                    *)

\* A session id captured, a command: saveNow(), which disarms the timer.
SessionChange ==
    /\ Open /\ Room
    /\ ver < MaxVersion
    /\ ver' = ver + 1
    /\ timer' = FALSE
    /\ Save(writes, "session", Sessions(ver'), 0)
    /\ UNCHANGED <<proc, file, seen, ring, now, log, dropped, history, starts, failures>>

\* A turn completes: its time stamp is saved when the timer fires.
TurnCompletes ==
    /\ Open
    /\ ver < MaxVersion
    /\ ver' = ver + 1
    /\ timer' = TRUE
    /\ UNCHANGED <<proc, file, lastState, seen, writes, ring, now, log, dropped, history, starts, failures>>

DebounceFires ==
    /\ Open /\ Room
    /\ timer
    /\ timer' = FALSE
    /\ Save(writes, "session", Sessions(ver), 0)
    /\ UNCHANGED <<proc, file, seen, ring, ver, now, log, dropped, history, starts, failures>>

----------------------------------------------------------------------------
(* The start: load, mark unclean, and only then serve.                     *)

Marked_asLoaded(state) == state  \* mutant: the flag is saved as it was read
Marked(state) == [state EXCEPT !.clean = FALSE]

Start ==
    /\ proc = "down"
    /\ starts < MaxStarts
    /\ starts' = starts + 1
    /\ proc' = "marking"
    /\ seen' = file.seen
    /\ Save(<<>>, "mark", Marked([clean |-> file.clean, ver |-> file.ver]), 0)
    /\ UNCHANGED <<file, ring, ver, timer, now, log, dropped, history, failures>>

Down ==
    /\ proc' = "down"
    /\ writes' = <<>> /\ timer' = FALSE
    /\ ring' = {} /\ seen' = {}
    /\ ver' = 0 /\ lastState' = [clean |-> TRUE, ver |-> 0]

\* The mark landed: the ring is built and startupLoad() reads the file again
\* and saves; a mark that fails ends main().
MarkSettles(ok) ==
    \/ /\ ok
       /\ proc' = "reloading"
       /\ seen' = file'.seen
       /\ ring' = Evict(Prune(file'.seen))
       /\ ver' = file'.ver
       /\ Save(<<>>, "reload", Sessions(ver'), 0)
       /\ UNCHANGED <<timer, served>>
    \/ ~ok /\ Down /\ UNCHANGED served

\* saveNow() only logs a failure: the gateway starts either way.
ReloadSettles(rest) ==
    /\ proc' = "serving"
    /\ served' = TRUE
    /\ writes' = rest
    /\ UNCHANGED <<lastState, seen, ring, ver, timer>>

----------------------------------------------------------------------------
(* The shutdown on a signal, and the end of the process.                   *)

\* It closes the journal first.
Shutdown ==
    /\ proc = "serving"
    /\ proc' = "closing"
    /\ UNCHANGED <<file, memory, now, log, dropped, history, starts, failures>>

SaveFinal(queue) ==
    /\ proc' = "finishing"
    /\ served' = FALSE
    /\ Save(queue, "final", FinalState(ver), 0)
    /\ UNCHANGED <<seen, ring, ver, timer>>

\* flushPendingSave() awaits a save only when the timer is armed.
JournalClosed ==
    /\ proc = "closing"
    /\ \/ /\ timer
          /\ timer' = FALSE
          /\ proc' = "flushing"
          /\ Save(writes, "flush", Sessions(ver), 0)
          /\ UNCHANGED <<seen, ring, ver, served>>
       \/ ~timer /\ SaveFinal(writes)
    /\ UNCHANGED <<file, now, log, dropped, flushed, acked, refused, starts, failures>>

Crash ==
    /\ proc # "down"
    /\ Down
    /\ UNCHANGED <<file, now, log, dropped, flushed, acked, refused, served, starts, failures>>

----------------------------------------------------------------------------
(* The writes, one after the other.                                        *)

Turn_any(i) == TRUE  \* mutant: writes are not chained
Turn(i) == i = 1

Without(queue, i) ==
    [k \in 1..(Len(queue) - 1) |-> IF k < i THEN queue[k] ELSE queue[k + 1]]

AfterFailure_poisoned(queue, i) == <<>>  \* mutant: a failure rejects what waits behind it
AfterFailure(queue, i) == Without(queue, i)

Body_stateOnly(w) == [clean |-> lastState.clean, ver |-> lastState.ver,
                      seen |-> IF w.by = "ring" THEN seen ELSE {}]  \* mutant: the ring is not merged
Body(w) == [clean |-> lastState.clean, ver |-> lastState.ver, seen |-> seen]

\* mkdir() answers and writeAtomic() takes the last state and the ring there are.
Snapshot(i) ==
    /\ Turn(i)
    /\ writes[i].body = NoBody
    /\ writes' = [writes EXCEPT ![i].body = Body(writes[i])]
    /\ UNCHANGED <<proc, file, lastState, seen, ring, ver, timer, now, log, dropped, history, starts, failures>>

\* The save() of w settles; rest are the writes left.
Settle(w, ok, rest) ==
    \/ w.by = "mark" /\ MarkSettles(ok)
    \/ w.by = "reload" /\ ReloadSettles(rest)
    \/ /\ w.by \in {"session", "ring"}
       /\ writes' = rest
       /\ UNCHANGED <<proc, lastState, seen, ring, ver, timer, served>>
    \/ w.by = "flush" /\ SaveFinal(rest)
    \/ w.by = "final" /\ Down /\ UNCHANGED served

\* rename() succeeded.
Land(i) ==
    /\ Turn(i)
    /\ writes[i].body # NoBody
    /\ file' = writes[i].body
    /\ acked' = Newest(acked, writes[i].ver)
    /\ flushed' = flushed \cup ({writes[i].at} \ {0})
    /\ Settle(writes[i], TRUE, Without(writes, i))
    /\ UNCHANGED <<now, log, dropped, refused, starts, failures>>

\* mkdir(), writeFile() or rename() failed: the file is as it was.
Fail(i) ==
    /\ Turn(i)
    /\ failures < MaxFailures
    /\ failures' = failures + 1
    /\ refused' = Newest(refused, writes[i].ver)
    /\ Settle(writes[i], FALSE, AfterFailure(writes, i))
    /\ UNCHANGED <<file, now, log, dropped, flushed, acked, starts>>

Tick ==
    /\ now < MaxTime
    /\ now' = now + 1
    /\ UNCHANGED <<proc, file, memory, log, dropped, history, starts, failures>>

----------------------------------------------------------------------------

Next ==
    \/ \E id \in Ids : Duplicate(id) \/ Handle(id)
    \/ SessionChange \/ TurnCompletes \/ DebounceFires
    \/ Start \/ Shutdown \/ JournalClosed \/ Crash
    \/ \E i \in DOMAIN writes : Snapshot(i) \/ Land(i) \/ Fail(i)
    \/ Tick

\* File operations and timers end; messages, signals, crashes and failures
\* need not happen.
Fairness ==
    /\ WF_vars(\E i \in DOMAIN writes : Snapshot(i))
    /\ WF_vars(\E i \in DOMAIN writes : Land(i) \/ Fail(i))
    /\ WF_vars(DebounceFires)
    /\ WF_vars(JournalClosed)

Spec == Init /\ [][Next]_vars
FairSpec == Spec /\ Fairness

----------------------------------------------------------------------------
(* Properties.                                                             *)

\* Once a save() has resolved, the file holds the sessions it was given or
\* newer ones, whatever other writers did, and stays so over crashes.
SavedStays == acked <= file.ver

\* After a process that accepted messages and built no final state, the file
\* says unclean: the next start knows of the crash.
CrashIsNoticed == served => ~file.clean

\* A message is skipped as a duplicate only within the TTL of the time it
\* was handled: even a message redelivered for ever ages out.
SuppressionEnds == dropped.of # 0 => dropped.at < log[dropped.of].at + Ttl

\* A message whose flush resolved is not handled again, in this process or
\* after a crash, until the TTL is over or Capacity others were handled.
NoReprocess ==
    [][\A n \in flushed :
          /\ Len(log') > Len(log)
          /\ log[n].id = log'[Len(log')].id
          => log[n].at <= now - Ttl \/ Len(log) - n >= Capacity]_vars

\* Every change of the sessions reaches the file, unless the process goes
\* down or the write of that change itself fails.
EveryChangeLands ==
    \A v \in 1..MaxVersion :
        ver = v ~> file.ver >= v \/ refused >= v \/ proc = "down"
=============================================================================
