---------------------------- MODULE WorkJournal ----------------------------
(***************************************************************************)
(* GitHubWorkJournal (audit/work-journal.ts): one record per instruction   *)
(* given to the model, kept in a local file and mirrored as one comment of *)
(* a GitHub issue.  The process may crash at any await and restart from    *)
(* the file, saves may fail, requests may fail before or after they took   *)
(* effect, and a POST given up may still land later.                       *)
(*                                                                         *)
(* The code runs to its next await without interleaving: answering a       *)
(* request, saving and picking the next record are one step.               *)
(***************************************************************************)
EXTENDS Integers, Sequences, FiniteSets

CONSTANTS
    Entries,         \* instructions, by their id (hash of chat and message)
    Broken,          \* records whose requests always fail
    Faults,          \* subset of {"request", "save"}: what else may fail
    PassLimit,       \* records handled by one drain()
    Capacity,        \* records the store may hold
    MaxRevision,     \* bound: streamed events end at this revision
    MaxCrashes,      \* bound on process ends
    MaxSaveFailures  \* bound on failing saves

ASSUME JournalAssumption ==
    /\ Broken \subseteq Entries
    /\ PassLimit \in Nat \ {0}
    /\ {Capacity, MaxRevision, MaxCrashes, MaxSaveFailures} \subseteq Nat

VARIABLES
    process,   \* "up", "closing" after close(), "down"
    order,     \* insertion order of the entries map
    entry,     \* the entries in memory
    disk,      \* the entries in the state file
    pump,      \* locals of drain(), or off
    scanAfter, \* where the last pick stopped
    comments,  \* GitHub: number of comments with the marker of a record
    shown,     \* GitHub: the snapshot its comment shows
    late,      \* GitHub: a POST given up that may still land
    runs,      \* history: how often the model was given the instruction
    work,      \* its WorkRun: none, running, over
    notice,    \* syncNotice(): where it waits, or what it reported
    crashes, saveFailures

outbox == <<order, entry, disk, saveFailures>>
github == <<comments, shown, late>>
clients == <<runs, work, notice>>
vars == <<process, outbox, pump, scanAfter, github, clients, crashes>>

Terminal == {"completed", "cancelled", "failed", "unknown"}
Statuses == {"absent", "accepted", "queued", "running"} \cup Terminal
Record == [status: Statuses, rev: Nat, synced: Nat, attempted: BOOLEAN, known: BOOLEAN]
Absent == [status |-> "absent", rev |-> 0, synced |-> 0, attempted |-> FALSE, known |-> FALSE]
Body == [status: Statuses, rev: Nat]
NoBody == [status |-> "absent", rev |-> 0]

Off == [pc |-> "off", at |-> "none", body |-> NoBody, done |-> {}]
Waiting == {"first", "second"}

TypeOK ==
    /\ process \in {"up", "closing", "down"}
    /\ order \in Seq(Entries)
    /\ entry \in [Entries -> Record] /\ disk \in [Entries -> Record]
    /\ pump \in [pc: {"off", "ending", "finding", "creating", "updating"},
                 at: Entries \cup {"none"}, body: Body, done: SUBSET Entries]
    /\ scanAfter \in Entries \cup {"none"}
    /\ comments \in [Entries -> 0..1]
    /\ shown \in [Entries -> Body] /\ late \in [Entries -> Body]
    /\ runs \in [Entries -> 0..1]
    /\ work \in [Entries -> {"none", "running", "over"}]
    /\ notice \in [Entries -> Waiting \cup {"none", "firstOver", "secondOver", "synced", "pending"}]
    /\ crashes \in 0..MaxCrashes /\ saveFailures \in 0..MaxSaveFailures

Init ==
    /\ process = "up"
    /\ order = <<>>
    /\ entry = [e \in Entries |-> Absent] /\ disk = [e \in Entries |-> Absent]
    /\ pump = Off /\ scanAfter = "none"
    /\ comments = [e \in Entries |-> 0]
    /\ shown = [e \in Entries |-> NoBody] /\ late = [e \in Entries |-> NoBody]
    /\ runs = [e \in Entries |-> 0] /\ work = [e \in Entries |-> "none"]
    /\ notice = [e \in Entries |-> "none"]
    /\ crashes = 0 /\ saveFailures = 0

Alive == process # "down"

\* save() writes all records through a temporary file and a rename, or throws
\* and leaves the file alone.
Save(m, ok) ==
    /\ ok \/ ("save" \in Faults /\ saveFailures < MaxSaveFailures)
    /\ disk' = IF ok THEN m ELSE disk
    /\ saveFailures' = IF ok THEN saveFailures ELSE saveFailures + 1

----------------------------------------------------------------------------
(* drain(): up to PassLimit dirty records, each once, starting after the   *)
(* one the last pick stopped at.                                           *)

Dirty(m, e) == m[e].status # "absent" /\ m[e].synced # m[e].rev

Offset(s) == IF \E n \in DOMAIN s : s[n] = scanAfter
             THEN CHOOSE n \in DOMAIN s : s[n] = scanAfter
             ELSE 0

\* How far index n of the records is from where the scan starts.
Distance(s, n) == (n - 1 - Offset(s) + Len(s)) % Len(s)

Candidates(m, s, done) == {n \in DOMAIN s : Dirty(m, s[n]) /\ s[n] \notin done}

\* The body is rendered, and its revision taken, before the first request.
PickFrom(m, e, done) ==
    [pc |-> IF m[e].known THEN "updating" ELSE "finding",
     at |-> e,
     body |-> [status |-> m[e].status, rev |-> m[e].rev],
     done |-> done \cup {e}]

Pick(m, s, done) ==
    \/ /\ Cardinality(done) = PassLimit \/ Candidates(m, s, done) = {}
       /\ pump' = [Off EXCEPT !.pc = "ending"]
       /\ UNCHANGED scanAfter
    \/ /\ Cardinality(done) # PassLimit
       /\ \E n \in Candidates(m, s, done) :
             /\ \A k \in Candidates(m, s, done) : Distance(s, n) <= Distance(s, k)
             /\ pump' = PickFrom(m, s[n], done)
             /\ scanAfter' = s[n]

\* flush(): one drain at a time; it starts picking at once.
Flush(m, s) == IF pump.pc = "off" THEN Pick(m, s, {}) ELSE UNCHANGED <<pump, scanAfter>>

\* The promise of the drain settles, and with it every syncNotice that awaits it.
PumpEnds ==
    /\ Alive
    /\ pump.pc = "ending"
    /\ pump' = Off
    /\ notice' = [e \in Entries |-> CASE notice[e] = "first" -> "firstOver"
                                      [] notice[e] = "second" -> "secondOver"
                                      [] OTHER -> notice[e]]
    /\ UNCHANGED <<process, outbox, scanAfter, github, runs, work, crashes>>

At(pc, e) == Alive /\ pump.pc = pc /\ pump.at = e
Answers(e) == e \notin Broken
MayFail(e) == e \in Broken \/ "request" \in Faults

\* What this step of drain() leaves in memory is saved, then the next pick.
SaveAndGoOn(m) ==
    /\ entry' = m
    /\ \E ok \in BOOLEAN : Save(m, ok)
    /\ Pick(m, order, pump.done)
    /\ UNCHANGED order

Learned(e) == [entry EXCEPT ![e] = [@ EXCEPT !.known = TRUE]]

\* find() finds the comment: its id is saved, then it is updated.
FindsComment(e) ==
    /\ At("finding", e) /\ Answers(e)
    /\ comments[e] = 1
    /\ \/ /\ entry' = Learned(e)
          /\ Save(entry', TRUE)
          /\ pump' = [pump EXCEPT !.pc = "updating"]
          /\ UNCHANGED <<order, scanAfter>>
       \/ /\ entry' = Learned(e)
          /\ Save(entry', FALSE)
          /\ Pick(entry', order, pump.done)
          /\ UNCHANGED order
    /\ UNCHANGED <<process, github, clients, crashes>>

InDoubt(e) == entry[e].attempted

Attempted(e) == [entry EXCEPT ![e] = [@ EXCEPT !.attempted = TRUE]]

\* The attempt is on disk before the POST goes out; if it cannot be saved,
\* there is no POST.
SaveAttempt_late(e) ==  \* mutant: the attempt is only in memory
    /\ UNCHANGED <<disk, saveFailures>>
    /\ pump' = [pump EXCEPT !.pc = "creating"]
    /\ UNCHANGED scanAfter
SaveAttempt(e) ==
    \/ /\ Save(Attempted(e), TRUE)
       /\ pump' = [pump EXCEPT !.pc = "creating"]
       /\ UNCHANGED scanAfter
    \/ /\ Save(Attempted(e), FALSE)
       /\ Pick(Attempted(e), order, pump.done)

FindsNothing(e) ==
    /\ At("finding", e) /\ Answers(e)
    /\ comments[e] = 0
    /\ ~InDoubt(e)
    /\ entry' = Attempted(e)
    /\ SaveAttempt(e)
    /\ UNCHANGED <<process, order, github, clients, crashes>>

\* Nothing found, but a POST may be on its way: never a second one.
Reconcile(e) ==
    /\ At("finding", e) /\ Answers(e)
    /\ comments[e] = 0
    /\ InDoubt(e)
    /\ Pick(entry, order, pump.done)
    /\ UNCHANGED <<process, outbox, github, clients, crashes>>

FindFails(e) ==
    /\ At("finding", e) /\ MayFail(e)
    /\ Pick(entry, order, pump.done)
    /\ UNCHANGED <<process, outbox, github, clients, crashes>>

\* The effect of a request on GitHub.
Post(e, b) ==
    /\ comments' = [comments EXCEPT ![e] = @ + 1]
    /\ shown' = [shown EXCEPT ![e] = b]
Patch(e, b) == shown' = [shown EXCEPT ![e] = b] /\ UNCHANGED comments

\* synced gets the revision that was rendered, not the one of now.
SyncedRevision_now(e) == entry[e].rev  \* mutant
SyncedRevision(e) == pump.body.rev

Created(e) == [entry EXCEPT ![e] = [@ EXCEPT !.known = TRUE, !.synced = SyncedRevision(e)]]
Updated(e) == [entry EXCEPT ![e] = [@ EXCEPT !.synced = SyncedRevision(e)]]

CreateAnswers(e) ==
    /\ At("creating", e) /\ Answers(e)
    /\ Post(e, pump.body)
    /\ SaveAndGoOn(Created(e))
    /\ UNCHANGED <<process, late, clients, crashes>>

\* A POST fails: it took effect, may do so later, or never will.
Abandon(e, b) ==
    \/ Post(e, b) /\ UNCHANGED late
    \/ late' = [late EXCEPT ![e] = b] /\ UNCHANGED <<comments, shown>>
    \/ UNCHANGED github

CreateFails(e) ==
    /\ At("creating", e) /\ MayFail(e)
    /\ Abandon(e, pump.body)
    /\ Pick(entry, order, pump.done)
    /\ UNCHANGED <<process, outbox, clients, crashes>>

LatePostLands(e) ==
    /\ late[e] # NoBody
    /\ Post(e, late[e])
    /\ late' = [late EXCEPT ![e] = NoBody]
    /\ UNCHANGED <<process, outbox, pump, scanAfter, clients, crashes>>

UpdateAnswers(e) ==
    /\ At("updating", e) /\ Answers(e)
    /\ Patch(e, pump.body)
    /\ SaveAndGoOn(Updated(e))
    /\ UNCHANGED <<process, late, clients, crashes>>

UpdateFails(e) ==
    /\ At("updating", e) /\ MayFail(e)
    /\ Patch(e, pump.body) \/ UNCHANGED <<comments, shown>>
    /\ Pick(entry, order, pump.done)
    /\ UNCHANGED <<process, outbox, late, clients, crashes>>

----------------------------------------------------------------------------
(* The work runs.                                                          *)

Journaled(e) == entry[e].status # "absent"

\* begin(): saved before the model is given the instruction, or not at all.
\* A record that exists makes it return null.
Begin(e) ==
    /\ Alive
    /\ ~Journaled(e)
    /\ Len(order) < Capacity
    /\ \/ LET m == [entry EXCEPT ![e] = [Absent EXCEPT !.status = "accepted", !.rev = 1]]
          IN  /\ Save(m, TRUE)
              /\ entry' = m
              /\ order' = Append(order, e)
              /\ runs' = [runs EXCEPT ![e] = @ + 1]
              /\ work' = [work EXCEPT ![e] = "running"]
              /\ Flush(m, order')
       \/ Save(entry, FALSE) /\ UNCHANGED <<order, entry, runs, work, pump, scanAfter>>
    /\ UNCHANGED <<process, github, notice, crashes>>

\* touch(): the memory moves on even when the save throws.
Touched(e, s) == [entry EXCEPT ![e] = [@ EXCEPT !.status = s, !.rev = entry[e].rev + 1]]

\* observe(): text, tool_use and the tool_result that follows it mean running;
\* the queued notice may come after the first event of the turn.
Observe(e, s) ==
    /\ Alive
    /\ work[e] = "running"
    /\ entry[e].status \notin Terminal /\ entry[e].rev < MaxRevision
    /\ entry' = Touched(e, s)
    /\ \E ok \in BOOLEAN : Save(entry', ok)
    /\ UNCHANGED <<process, order, pump, scanAfter, github, clients, crashes>>

\* finish(), then syncNotice() unless finish threw.
Finish(e, s) ==
    /\ Alive
    /\ work[e] = "running"
    /\ entry[e].status \notin Terminal
    /\ entry' = Touched(e, s)
    /\ work' = [work EXCEPT ![e] = "over"]
    /\ \/ /\ Save(entry', TRUE)
          /\ Flush(entry', order)
          /\ notice' = [notice EXCEPT ![e] = "first"]
       \/ Save(entry', FALSE) /\ UNCHANGED <<pump, scanAfter, notice>>
    /\ UNCHANGED <<process, order, github, runs, crashes>>

\* The first flush may have missed the final revision: one more.
SyncOnceMore(e) ==
    /\ Alive
    /\ notice[e] = "firstOver" /\ Dirty(entry, e)
    /\ Flush(entry, order)
    /\ notice' = [notice EXCEPT ![e] = "second"]
    /\ UNCHANGED <<process, outbox, github, runs, work, crashes>>

Report_hopeful(e) == "synced"  \* mutant: both flushes done is taken for synced
Report(e) == IF ~Dirty(entry, e) /\ entry[e].known THEN "synced" ELSE "pending"

\* Both flushes are over, or the twelve seconds are.
NoticeSent(e) ==
    /\ Alive
    /\ notice[e] \in Waiting \cup {"firstOver", "secondOver"}
    /\ notice' = [notice EXCEPT ![e] = Report(e)]
    /\ UNCHANGED <<process, outbox, pump, scanAfter, github, runs, work, crashes>>

\* The interval of start().
TimerFires ==
    /\ process = "up"
    /\ pump.pc = "off"
    /\ Flush(entry, order)
    /\ UNCHANGED <<process, outbox, github, clients, crashes>>

----------------------------------------------------------------------------
(* The process.                                                            *)

\* close(): the interval ends, what is in memory is saved.
Close ==
    /\ process = "up" /\ crashes < MaxCrashes
    /\ process' = "closing"
    /\ \E ok \in BOOLEAN : Save(entry, ok)
    /\ UNCHANGED <<order, entry, pump, scanAfter, github, clients, crashes>>

\* The process ends, with a request perhaps on its way.
Exit ==
    /\ Alive /\ crashes < MaxCrashes
    /\ process' = "down"
    /\ crashes' = crashes + 1
    /\ CASE pump.pc = "creating" -> Abandon(pump.at, pump.body)
         [] pump.pc = "updating" -> /\ Patch(pump.at, pump.body) \/ UNCHANGED <<comments, shown>>
                                    /\ UNCHANGED late
         [] OTHER -> UNCHANGED github
    /\ pump' = Off /\ scanAfter' = "none"
    /\ work' = [e \in Entries |-> IF work[e] = "running" THEN "over" ELSE work[e]]
    /\ notice' = [e \in Entries |-> IF notice[e] \in {"synced", "pending"} THEN notice[e] ELSE "none"]
    /\ UNCHANGED <<outbox, runs>>

\* The constructor: what was not over is unknown now, and is never run again.
Reloaded_asIs(r) == r  \* mutant: the outcome is left open
Reloaded(r) ==
    IF r.status \in Terminal \cup {"absent"} THEN r
    ELSE [r EXCEPT !.status = "unknown", !.rev = r.rev + 1]

Restart ==
    /\ process = "down"
    /\ process' = "up"
    /\ entry' = [e \in Entries |-> Reloaded(disk[e])]
    /\ Save(entry', TRUE)
    /\ UNCHANGED <<order, pump, scanAfter, github, clients, crashes>>

DrainStep(e) ==
    \/ FindsComment(e) \/ FindsNothing(e) \/ Reconcile(e) \/ FindFails(e)
    \/ CreateAnswers(e) \/ CreateFails(e)
    \/ UpdateAnswers(e) \/ UpdateFails(e)

RunStep(e) ==
    \/ Begin(e)
    \/ \E s \in {"queued", "running"} : Observe(e, s)
    \/ \E s \in {"completed", "cancelled", "failed"} : Finish(e, s)
    \/ SyncOnceMore(e) \/ NoticeSent(e)

Next ==
    \/ \E e \in Entries : DrainStep(e) \/ LatePostLands(e) \/ RunStep(e)
    \/ PumpEnds \/ TimerFires \/ Close \/ Exit \/ Restart

Spec == Init /\ [][Next]_vars

\* Requests are answered or time out, the interval fires, a turn ends, a
\* process that closes exits and is started again by its supervisor.
Fairness ==
    /\ \A e \in Entries : WF_vars(DrainStep(e))
    /\ \A e \in Entries : WF_vars(\E s \in {"completed", "cancelled", "failed"} : Finish(e, s))
    /\ \A e \in Entries : WF_vars(NoticeSent(e))
    /\ WF_vars(PumpEnds) /\ WF_vars(TimerFires) /\ WF_vars(Restart)
    /\ WF_vars(process = "closing" /\ Exit)

FairSpec == Spec /\ Fairness

----------------------------------------------------------------------------
(* Properties.                                                             *)

\* However requests, saves and processes fail: GitHub gets one comment per
\* record at most, also counting the POST that may still land.
OneComment == \A e \in Entries :
    comments[e] + (IF late[e] # NoBody THEN 1 ELSE 0)
                + (IF At("creating", e) THEN 1 ELSE 0) <= 1

\* An instruction is given to the model at most once, redelivery after a crash
\* included.
NeverRerun == \A e \in Entries : runs[e] <= 1

\* At most once, towards GitHub and towards the model: begin, create and find of the journal
\* never repeat what may already have happened.
AtMostOnce == OneComment /\ NeverRerun

\* A record counted as synced is what the comment shows, although its revision
\* may grow while the snapshot is on its way.
SyncedIsShown == Alive => \A e \in Entries :
    entry[e].status # "absent" /\ ~Dirty(entry, e) =>
        /\ comments[e] = 1
        /\ shown[e] = [status |-> entry[e].status, rev |-> entry[e].rev]

\* "Synced" was only told when the comment showed the final status, and the
\* comment keeps showing it, restarts included.
NoticeIsHonest == \A e \in Entries :
    notice[e] = "synced" =>
        /\ comments[e] = 1
        /\ shown[e].status = disk[e].status
        /\ disk[e].status \in Terminal

\* A record whose requests succeed is synced in the end, whatever the requests
\* of the other records do, unless its creation came in doubt.
EveryRecordSyncs == \A e \in Entries \ Broken :
    runs[e] > 0 ~> \/ Alive /\ Journaled(e) /\ ~Dirty(entry, e)
                   \/ entry[e].attempted /\ comments[e] = 0 /\ ~At("creating", e)

\* No record stays open: the outcome is reported, or known to be unknown.
EveryRecordCloses == \A e \in Entries :
    runs[e] > 0 ~> disk[e].status \in Terminal

\* Both at once: a record is closed and its end is reported.
EveryRecordEnds == EveryRecordSyncs /\ EveryRecordCloses
=============================================================================
