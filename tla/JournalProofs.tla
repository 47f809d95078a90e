--------------------------- MODULE JournalProofs ---------------------------
(***************************************************************************)
(* Theorems about WorkJournal for any number of records and crashes, any   *)
(* faults and any limits: one comment per record, one run per instruction, *)
(* nothing called synced that GitHub does not show.                        *)
(*                                                                         *)
(* The first argument is a chain: whatever reached GitHub, or may still    *)
(* reach it, was attempted; every attempt is on disk before the POST;      *)
(* memory never knows less of attempts than the disk.  The second is that  *)
(* a drain carries a revision newer than the synced one, and that a record *)
(* that is over on disk has the same snapshot in memory.                   *)
(***************************************************************************)
EXTENDS WorkJournal, TLAPS

\* Something of record e is on GitHub or on its way.
Posted(e) == comments[e] > 0 \/ late[e] # NoBody \/ At("creating", e)

AttemptOnDisk == \A e \in Entries : Posted(e) => disk[e].attempted

DiskInMemory == Alive => \A e \in Entries :
    /\ disk[e].attempted => entry[e].attempted
    /\ disk[e].status = "absent" <=> entry[e].status = "absent"
    /\ entry[e].status = "absent" => ~entry[e].attempted

\* A record that is not there yet knows of no attempt and of no run.
AbsentIsNew == \A e \in Entries : disk[e].status = "absent" =>
    ~disk[e].attempted /\ runs[e] = 0 /\ work[e] # "running"

\* The locals of drain() exist in a process only.
PumpIsAlive == pump.pc # "off" => Alive

\* drain() works on records that exist.
Known == pump.pc \in {"finding", "creating", "updating"} => entry[pump.at].status # "absent"

\* The types, the counts of the history and of GitHub apart.
Typed ==
    /\ process \in {"up", "closing", "down"}
    /\ order \in Seq(Entries)
    /\ entry \in [Entries -> Record] /\ disk \in [Entries -> Record]
    /\ pump \in [pc: {"off", "ending", "finding", "creating", "updating"},
                 at: Entries \cup {"none"}, body: Body, done: SUBSET Entries]
    /\ pump.pc \in {"finding", "creating", "updating"} => pump.at \in Entries
    /\ scanAfter \in Entries \cup {"none"}
    /\ shown \in [Entries -> Body] /\ late \in [Entries -> Body]
    /\ work \in [Entries -> {"none", "running", "over"}]
    /\ notice \in [Entries -> Waiting \cup {"none", "firstOver", "secondOver", "synced", "pending"}]
    /\ crashes \in 0..MaxCrashes /\ saveFailures \in 0..MaxSaveFailures

Counted == /\ comments \in [Entries -> 0..1]
           /\ runs \in [Entries -> 0..1]
           /\ OneComment
           /\ AttemptOnDisk
           /\ DiskInMemory
           /\ AbsentIsNew
           /\ PumpIsAlive
           /\ Known

----------------------------------------------------------------------------
(* What save() and the next pick do.                                       *)

\* save() writes the records it is given, or the file stays as it was.
LEMMA SaveTyped ==
    ASSUME Typed, NEW m \in [Entries -> Record], NEW ok \in BOOLEAN, Save(m, ok)
    PROVE  /\ disk' = m \/ disk' = disk
           /\ (disk \in [Entries -> Record])'
           /\ (saveFailures \in 0..MaxSaveFailures)'
  BY JournalAssumption DEF Typed, Save

\* A pick never leaves drain() in the middle of a POST.
LEMMA PickTyped ==
    ASSUME Typed, NEW m \in [Entries -> Record], NEW s \in Seq(Entries),
           NEW done \in SUBSET Entries, Pick(m, s, done)
    PROVE  /\ pump' \in [pc: {"ending", "finding", "updating"},
                         at: Entries \cup {"none"}, body: Body, done: SUBSET Entries]
           /\ pump'.pc # "ending" => pump'.at \in Entries /\ m[pump'.at].status # "absent"
           /\ scanAfter' \in Entries \cup {"none"}
<1>1. CASE pump' = [Off EXCEPT !.pc = "ending"] /\ UNCHANGED scanAfter
  BY <1>1 DEF Typed, Off, NoBody, Body, Statuses
<1>2. ASSUME NEW n \in DOMAIN s, m[s[n]].status # "absent", pump' = PickFrom(m, s[n], done), scanAfter' = s[n]
      PROVE  /\ pump' \in [pc: {"ending", "finding", "updating"},
                           at: Entries \cup {"none"}, body: Body, done: SUBSET Entries]
             /\ pump'.pc # "ending" => pump'.at \in Entries /\ m[pump'.at].status # "absent"
             /\ scanAfter' \in Entries \cup {"none"}
  <2>1. s[n] \in Entries
    OBVIOUS
  <2>3. PickFrom(m, s[n], done).at = s[n]
    BY DEF PickFrom
  <2>2. m[s[n]].status \in Statuses /\ m[s[n]].rev \in Nat
    BY <2>1 DEF Record
  <2> QED BY <1>2, <2>1, <2>2 DEF PickFrom, Body
<1> QED BY <1>1, <1>2 DEF Pick, Candidates, Dirty

----------------------------------------------------------------------------
(* Steps that neither post nor start a run.                                *)

\* Memory changes no attempt and no record's existence, and may be saved.
QuietMemory ==
    /\ entry' \in [Entries -> Record]
    /\ \A e \in Entries : /\ entry'[e].attempted = entry[e].attempted
                          /\ entry'[e].status = "absent" <=> entry[e].status = "absent"
    /\ disk' = entry' \/ disk' = disk

\* A pump that went on, and not to a POST.
Renewed == pump'.pc # "creating" /\ Known'

Quiet ==
    /\ Alive
    /\ process' # "down"
    /\ UNCHANGED <<comments, late, runs>>
    /\ \A e \in Entries : work'[e] = "running" => work[e] = "running"
    /\ QuietMemory
    /\ pump' = pump \/ Renewed

\* A quiet step keeps the chain.
LEMMA QuietCounted ==
    ASSUME Typed, Counted, Quiet
    PROVE  Counted'
<1>1. Alive'
  BY DEF Quiet, Alive
<1>2. \A e \in Entries : Posted(e)' => Posted(e)
  BY DEF Quiet, Posted, At, Alive, Renewed
<1>3. AttemptOnDisk' /\ DiskInMemory' /\ AbsentIsNew'
  <2> SUFFICES ASSUME NEW e \in Entries
               PROVE  /\ Posted(e)' => disk'[e].attempted
                      /\ disk'[e].attempted => entry'[e].attempted
                      /\ disk'[e].status = "absent" <=> entry'[e].status = "absent"
                      /\ entry'[e].status = "absent" => ~entry'[e].attempted
                      /\ disk'[e].status = "absent" => ~disk'[e].attempted /\ runs'[e] = 0 /\ work'[e] # "running"
    BY <1>1 DEF AttemptOnDisk, DiskInMemory, AbsentIsNew
  <2>1. /\ Posted(e) => disk[e].attempted
        /\ disk[e].attempted => entry[e].attempted
        /\ disk[e].status = "absent" <=> entry[e].status = "absent"
        /\ entry[e].status = "absent" => ~entry[e].attempted
        /\ disk[e].status = "absent" => ~disk[e].attempted /\ runs[e] = 0 /\ work[e] # "running"
    BY DEF Counted, AttemptOnDisk, DiskInMemory, AbsentIsNew, Quiet
  <2>2. /\ entry'[e].attempted = entry[e].attempted
        /\ entry'[e].status = "absent" <=> entry[e].status = "absent"
        /\ disk'[e] = entry'[e] \/ disk'[e] = disk[e]
        /\ runs'[e] = runs[e]
        /\ work'[e] = "running" => work[e] = "running"
    BY DEF Quiet, QuietMemory
  <2> QED BY <1>2, <2>1, <2>2
<1>4. OneComment'
  BY <1>1, <1>2 DEF Counted, OneComment, Quiet, At, Alive, Renewed
<1>5. Known'
  BY DEF Counted, Quiet, Known, Renewed, QuietMemory, Typed
<1> QED BY <1>1, <1>3, <1>4, <1>5 DEF Counted, Quiet, PumpIsAlive, Alive

\* What learning an id, syncing and touching make of memory.
QuietlyTo(m) ==
    /\ m \in [Entries -> Record]
    /\ \A f \in Entries : /\ m[f].attempted = entry[f].attempted
                          /\ m[f].status = "absent" <=> entry[f].status = "absent"

\* One record changes and stays what it is to the chain.
LEMMA OneQuietChange ==
    ASSUME Typed, NEW e \in Entries, NEW r \in Record, r.attempted = entry[e].attempted,
           r.status = "absent" <=> entry[e].status = "absent"
    PROVE  QuietlyTo([entry EXCEPT ![e] = r])
<1>1. entry \in [Entries -> Record]
  BY DEF Typed
<1> HIDE DEF Record
<1> QED BY <1>1 DEF QuietlyTo

\* Learning an id changes no attempt.
LEMMA LearnedQuiet == ASSUME Typed, NEW e \in Entries PROVE QuietlyTo(Learned(e))
<1> DEFINE r == [entry[e] EXCEPT !.known = TRUE]
<1>1. entry[e] \in Record
  BY DEF Typed
<1>2. r \in Record /\ r.attempted = entry[e].attempted /\ r.status = entry[e].status
  BY <1>1 DEF Record
<1>3. Learned(e) = [entry EXCEPT ![e] = r]
  BY DEF Learned
<1> HIDE DEF r
<1> QED BY <1>2, <1>3, OneQuietChange

\* Syncing changes no attempt.
LEMMA UpdatedQuiet == ASSUME Typed, NEW e \in Entries PROVE QuietlyTo(Updated(e))
<1> DEFINE r == [entry[e] EXCEPT !.synced = SyncedRevision(e)]
<1>1. entry[e] \in Record /\ pump.body.rev \in Nat
  BY DEF Typed, Body
<1>2. r \in Record /\ r.attempted = entry[e].attempted /\ r.status = entry[e].status
  BY <1>1 DEF Record, SyncedRevision
<1>3. Updated(e) = [entry EXCEPT ![e] = r]
  BY DEF Updated
<1> HIDE DEF r
<1> QED BY <1>2, <1>3, OneQuietChange

\* A comment created: id and revision are learned at once.
LEMMA CreatedQuiet == ASSUME Typed, NEW e \in Entries PROVE QuietlyTo(Created(e))
<1> DEFINE r == [entry[e] EXCEPT !.known = TRUE, !.synced = SyncedRevision(e)]
<1>1. entry[e] \in Record /\ pump.body.rev \in Nat
  BY DEF Typed, Body
<1>2. r \in Record /\ r.attempted = entry[e].attempted /\ r.status = entry[e].status
  BY <1>1 DEF Record, SyncedRevision
<1>3. Created(e) = [entry EXCEPT ![e] = r]
  BY DEF Created
<1> HIDE DEF r
<1> QED BY <1>2, <1>3, OneQuietChange

\* An event or the outcome of a turn changes no attempt.
LEMMA TouchedQuiet ==
    ASSUME Typed, NEW e \in Entries, entry[e].status # "absent", NEW st \in Statuses \ {"absent"}
    PROVE  QuietlyTo(Touched(e, st))
<1> DEFINE r == [entry[e] EXCEPT !.status = st, !.rev = entry[e].rev + 1]
<1>1. entry[e] \in Record
  BY DEF Typed
<1>2. entry[e].rev \in Nat /\ entry[e].rev + 1 \in Nat
  BY <1>1 DEF Record
<1>3. r \in Record /\ r.attempted = entry[e].attempted /\ r.status = st
  BY <1>1, <1>2 DEF Record
<1>4. Touched(e, st) = [entry EXCEPT ![e] = r]
  BY DEF Touched
<1> HIDE DEF r
<1> QED BY <1>3, <1>4, OneQuietChange

\* Memory that moved on quietly, saved or not.
LEMMA SavedQuiet ==
    ASSUME Typed, NEW m, QuietlyTo(m), entry' = m, NEW ok \in BOOLEAN, Save(m, ok)
    PROVE  /\ QuietMemory
           /\ (disk \in [Entries -> Record])'
           /\ (saveFailures \in 0..MaxSaveFailures)'
<1>1. m \in [Entries -> Record]
  BY DEF QuietlyTo
<1> QED BY <1>1, SaveTyped DEF QuietlyTo, QuietMemory

\* Nothing moved in memory.
LEMMA UnchangedQuiet ==
    ASSUME Typed, UNCHANGED <<entry, disk>>
    PROVE  QuietMemory
  BY DEF Typed, QuietMemory

PumpTyped ==
    /\ pump \in [pc: {"off", "ending", "finding", "creating", "updating"},
                 at: Entries \cup {"none"}, body: Body, done: SUBSET Entries]
    /\ pump.pc \in {"finding", "creating", "updating"} => pump.at \in Entries
    /\ scanAfter \in Entries \cup {"none"}

\* The next pick after a step of drain().
LEMMA NextPick ==
    ASSUME Typed, NEW m \in [Entries -> Record], entry' = m, Pick(m, order, pump.done)
    PROVE  PumpTyped' /\ Renewed
<1>1. order \in Seq(Entries) /\ pump.done \in SUBSET Entries
  BY DEF Typed
<1> QED BY <1>1, PickTyped DEF PumpTyped, Renewed, Known

\* flush() starts no POST at once.
LEMMA FlushTyped ==
    ASSUME Typed, NEW m \in [Entries -> Record], NEW s \in Seq(Entries), entry' = m, Flush(m, s)
    PROVE  PumpTyped' /\ (pump' = pump \/ Renewed)
<1>1. CASE pump.pc = "off"
  BY <1>1, PickTyped DEF Flush, PumpTyped, Renewed, Known
<1>2. CASE pump.pc # "off"
  BY <1>2 DEF Flush, PumpTyped, Typed
<1> QED BY <1>1, <1>2

\* The steps of drain() that post nothing.
LEMMA QuietDrain ==
    ASSUME Typed, Counted, NEW e \in Entries,
           \/ FindsComment(e) \/ Reconcile(e) \/ FindFails(e)
           \/ UpdateAnswers(e) \/ UpdateFails(e)
    PROVE  Quiet /\ Typed'
<1>0. /\ entry \in [Entries -> Record]
      /\ UNCHANGED <<process, order, comments, late, runs, work, notice, crashes>>
      /\ Alive /\ process' # "down"
  BY DEF Typed, FindsComment, Reconcile, FindFails, UpdateAnswers, UpdateFails, SaveAndGoOn,
         Patch, github, clients, outbox, At, Alive
<1>1. ASSUME QuietMemory, PumpTyped', Renewed,
             (disk \in [Entries -> Record])', (saveFailures \in 0..MaxSaveFailures)',
             (shown \in [Entries -> Body])'
      PROVE  Quiet /\ Typed'
  BY <1>0, <1>1 DEF Quiet, Typed, QuietMemory, PumpTyped
<1>2. CASE Reconcile(e) \/ FindFails(e)
  BY <1>0, <1>1, <1>2, NextPick, UnchangedQuiet DEF Reconcile, FindFails, outbox, github, Typed
<1>3. CASE FindsComment(e)
  <2>1. QuietlyTo(Learned(e)) /\ entry' = Learned(e) /\ Learned(e) \in [Entries -> Record]
    BY <1>3, LearnedQuiet DEF FindsComment, QuietlyTo
  <2>2. \E ok \in BOOLEAN : Save(Learned(e), ok)
    BY <1>3 DEF FindsComment
  <2>3. /\ QuietMemory /\ (disk \in [Entries -> Record])'
        /\ (saveFailures \in 0..MaxSaveFailures)'
    BY <2>1, <2>2, SavedQuiet
  <2>4. ASSUME pump' = [pump EXCEPT !.pc = "updating"], UNCHANGED scanAfter
        PROVE  PumpTyped' /\ Renewed
    <3>1. PumpTyped /\ pump.at = e
      BY <1>3 DEF PumpTyped, Typed, FindsComment, At
    <3>2. pump'.pc = "updating" /\ pump'.at = e
      BY <2>4, <3>1 DEF PumpTyped
    <3>3. entry[e].status # "absent"
      BY <1>3, <3>1 DEF Counted, Known, FindsComment, At
    <3>4. entry'[e].status # "absent"
      BY <2>1, <3>3 DEF QuietlyTo
    <3> QED BY <2>4, <3>1, <3>2, <3>4 DEF PumpTyped, Renewed, Known
  <2>5. ASSUME Pick(entry', order, pump.done)
        PROVE  PumpTyped' /\ Renewed
    BY <2>1, <2>5, NextPick
  <2>6. PumpTyped' /\ Renewed
    BY <1>3, <2>4, <2>5 DEF FindsComment
  <2> QED BY <1>1, <1>3, <2>3, <2>6 DEF FindsComment, github, Typed
<1>4. CASE UpdateAnswers(e)
  <2>1. QuietlyTo(Updated(e)) /\ entry' = Updated(e) /\ Updated(e) \in [Entries -> Record]
    BY <1>4, UpdatedQuiet DEF UpdateAnswers, SaveAndGoOn, QuietlyTo
  <2>2. /\ QuietMemory /\ (disk \in [Entries -> Record])'
        /\ (saveFailures \in 0..MaxSaveFailures)'
    BY <1>4, <2>1, SavedQuiet DEF UpdateAnswers, SaveAndGoOn
  <2>3. PumpTyped' /\ Renewed
    BY <1>4, <2>1, NextPick DEF UpdateAnswers, SaveAndGoOn
  <2> QED BY <1>1, <1>4, <2>2, <2>3 DEF UpdateAnswers, Patch, Typed
<1>5. CASE UpdateFails(e)
  <2>1. PumpTyped' /\ Renewed
    BY <1>0, <1>5, NextPick DEF UpdateFails, outbox
  <2> QED BY <1>1, <1>5, <2>1, UnchangedQuiet DEF UpdateFails, Patch, outbox, Typed
<1> QED BY <1>2, <1>3, <1>4, <1>5

\* Events and outcomes of a turn, notices, the interval and close().
LEMMA QuietRest ==
    ASSUME Typed, Counted,
           \/ PumpEnds \/ TimerFires \/ Close
           \/ \E e \in Entries :
                 \/ \E s \in {"queued", "running"} : Observe(e, s)
                 \/ \E s \in {"completed", "cancelled", "failed"} : Finish(e, s)
                 \/ SyncOnceMore(e) \/ NoticeSent(e)
    PROVE  Quiet /\ Typed'
<1>0. /\ entry \in [Entries -> Record] /\ order \in Seq(Entries) /\ PumpTyped
      /\ disk \in [Entries -> Record] /\ saveFailures \in 0..MaxSaveFailures
      /\ work \in [Entries -> {"none", "running", "over"}]
  BY DEF Typed, PumpTyped
<1>1. ASSUME Alive, process' \in {"up", "closing"},
             UNCHANGED <<order, comments, late, runs, shown, crashes>>,
             QuietMemory, PumpTyped', pump' = pump \/ Renewed,
             (disk \in [Entries -> Record])', (saveFailures \in 0..MaxSaveFailures)',
             (work \in [Entries -> {"none", "running", "over"}])',
             \A e \in Entries : work'[e] = "running" => work[e] = "running",
             (notice \in [Entries -> Waiting \cup {"none", "firstOver", "secondOver", "synced", "pending"}])'
      PROVE  Quiet /\ Typed'
  BY <1>1 DEF Quiet, Typed, QuietMemory, PumpTyped
<1>2. Alive => process \in {"up", "closing"}
  BY DEF Typed, Alive
<1>3. \A e \in Entries : Alive /\ work[e] = "running" => entry[e].status # "absent"
  BY DEF Counted, AbsentIsNew, DiskInMemory
<1>4. CASE PumpEnds
  <2>1. PumpTyped' /\ Renewed
    BY <1>0, <1>4 DEF PumpEnds, PumpTyped, Off, NoBody, Body, Statuses, Renewed, Known
  <2>2. (notice \in [Entries -> Waiting \cup {"none", "firstOver", "secondOver", "synced", "pending"}])'
    BY <1>4 DEF PumpEnds, Typed
  <2> QED BY <1>0, <1>1, <1>2, <1>4, <2>1, <2>2, UnchangedQuiet DEF PumpEnds, outbox, github
<1>5. CASE TimerFires
  <2>1. PumpTyped' /\ (pump' = pump \/ Renewed)
    BY <1>0, <1>5, FlushTyped DEF TimerFires, outbox
  <2> QED BY <1>0, <1>1, <1>5, <2>1, UnchangedQuiet DEF TimerFires, outbox, github, clients, Typed, Alive
<1>6. CASE Close
  <2>1. QuietlyTo(entry)
    BY <1>0 DEF QuietlyTo
  <2>2. /\ QuietMemory /\ (disk \in [Entries -> Record])'
        /\ (saveFailures \in 0..MaxSaveFailures)'
    BY <1>6, <2>1, SavedQuiet DEF Close
  <2> QED BY <1>0, <1>1, <1>6, <2>2 DEF Close, github, clients, Typed, Alive, PumpTyped
<1>7. ASSUME NEW e \in Entries, NEW s \in {"queued", "running"}, Observe(e, s)
      PROVE  Quiet /\ Typed'
  <2>1. entry[e].status # "absent" /\ s \in Statuses \ {"absent"}
    BY <1>3, <1>7 DEF Observe, Statuses
  <2>2. QuietlyTo(Touched(e, s)) /\ entry' = Touched(e, s)
    BY <1>7, <2>1, TouchedQuiet DEF Observe
  <2>3. /\ QuietMemory /\ (disk \in [Entries -> Record])'
        /\ (saveFailures \in 0..MaxSaveFailures)'
    BY <1>7, <2>2, SavedQuiet DEF Observe
  <2> QED BY <1>0, <1>1, <1>2, <1>7, <2>3 DEF Observe, github, clients, Typed, PumpTyped
<1>8. ASSUME NEW e \in Entries, NEW s \in {"completed", "cancelled", "failed"}, Finish(e, s)
      PROVE  Quiet /\ Typed'
  <2>1. entry[e].status # "absent" /\ s \in Statuses \ {"absent"}
    BY <1>3, <1>8 DEF Finish, Statuses, Terminal
  <2>2. QuietlyTo(Touched(e, s)) /\ entry' = Touched(e, s) /\ Touched(e, s) \in [Entries -> Record]
    BY <1>8, <2>1, TouchedQuiet DEF Finish, QuietlyTo
  <2>3. /\ QuietMemory /\ (disk \in [Entries -> Record])'
        /\ (saveFailures \in 0..MaxSaveFailures)'
    BY <1>8, <2>2, SavedQuiet DEF Finish
  <2>4. PumpTyped' /\ (pump' = pump \/ Renewed)
    BY <1>0, <1>8, <2>2, FlushTyped DEF Finish, PumpTyped
  <2>5. (notice \in [Entries -> Waiting \cup {"none", "firstOver", "secondOver", "synced", "pending"}])'
    BY <1>8 DEF Finish, Typed, Waiting
  <2> QED BY <1>0, <1>1, <1>2, <1>8, <2>3, <2>4, <2>5 DEF Finish, github
<1>9. ASSUME NEW e \in Entries, SyncOnceMore(e)
      PROVE  Quiet /\ Typed'
  <2>1. PumpTyped' /\ (pump' = pump \/ Renewed)
    BY <1>0, <1>9, FlushTyped DEF SyncOnceMore, outbox
  <2>2. (notice \in [Entries -> Waiting \cup {"none", "firstOver", "secondOver", "synced", "pending"}])'
    BY <1>9 DEF SyncOnceMore, Typed, Waiting
  <2> QED BY <1>0, <1>1, <1>2, <1>9, <2>1, <2>2, UnchangedQuiet DEF SyncOnceMore, outbox, github
<1>10. ASSUME NEW e \in Entries, NoticeSent(e)
       PROVE  Quiet /\ Typed'
  <2>1. (notice \in [Entries -> Waiting \cup {"none", "firstOver", "secondOver", "synced", "pending"}])'
    BY <1>10 DEF NoticeSent, Typed, Report
  <2> QED BY <1>0, <1>1, <1>2, <1>10, <2>1, UnchangedQuiet DEF NoticeSent, outbox, github, PumpTyped
<1> QED BY <1>4, <1>5, <1>6, <1>7, <1>8, <1>9, <1>10

----------------------------------------------------------------------------
(* Steps that post, start a run, or end and start the process.             *)

\* What Counted says of one record, with the POST on its way counted apart.
Chained(e) ==
    /\ comments[e] \in 0..1 /\ runs[e] \in 0..1
    /\ Posted(e) => disk[e].attempted
    /\ At("creating", e) => comments[e] = 0 /\ late[e] = NoBody
    /\ late[e] # NoBody => comments[e] = 0
    /\ Alive => /\ disk[e].attempted => entry[e].attempted
                /\ disk[e].status = "absent" <=> entry[e].status = "absent"
                /\ entry[e].status = "absent" => ~entry[e].attempted
    /\ disk[e].status = "absent" => ~disk[e].attempted /\ runs[e] = 0 /\ work[e] # "running"

\* From the invariant to one record.
LEMMA OneRecord ==
    ASSUME Counted, NEW e \in Entries
    PROVE  Chained(e)
  BY DEF Counted, OneComment, AttemptOnDisk, DiskInMemory, AbsentIsNew, Chained

\* And back.
LEMMA EachRecord ==
    ASSUME comments' \in [Entries -> 0..1], runs' \in [Entries -> 0..1],
           PumpIsAlive', Known', \A e \in Entries : Chained(e)'
    PROVE  Counted'
<1>1. OneComment'
  <2> SUFFICES ASSUME NEW e \in Entries
               PROVE  (comments[e] + (IF late[e] # NoBody THEN 1 ELSE 0)
                                   + (IF At("creating", e) THEN 1 ELSE 0) <= 1)'
    BY DEF OneComment
  <2> QED BY DEF Chained
<1> QED BY <1>1 DEF Counted, AttemptOnDisk, DiskInMemory, AbsentIsNew, Chained

\* The attempt is saved before the POST, or there is none.
LEMMA FindsNothingKeeps ==
    ASSUME Typed, Counted, NEW e \in Entries, FindsNothing(e)
    PROVE  Typed' /\ Counted'
<1> DEFINE r == [entry[e] EXCEPT !.attempted = TRUE]
<1>1. /\ Alive /\ pump.pc = "finding" /\ pump.at = e /\ ~entry[e].attempted
      /\ entry[e] \in Record /\ entry[e].status # "absent"
      /\ UNCHANGED <<process, order, comments, shown, late, runs, work, notice, crashes>>
  BY DEF FindsNothing, At, InDoubt, github, clients, Typed, Counted, Known
<1>2. r \in Record /\ r.attempted /\ r.status # "absent"
  BY <1>1 DEF Record
<1>3. entry' = [entry EXCEPT ![e] = r] /\ Attempted(e) = entry'
  BY DEF FindsNothing, Attempted
<1> HIDE DEF r
<1>4. /\ entry' \in [Entries -> Record]
      /\ entry'[e].attempted /\ entry'[e].status # "absent"
      /\ \A f \in Entries : f # e => entry'[f] = entry[f]
  BY <1>2, <1>3 DEF Typed
<1>5. \E ok \in BOOLEAN : Save(entry', ok)
  BY <1>3 DEF FindsNothing, SaveAttempt
<1>6. /\ disk' = entry' \/ disk' = disk
      /\ (disk \in [Entries -> Record])'
      /\ (saveFailures \in 0..MaxSaveFailures)'
  BY <1>4, <1>5, SaveTyped
<1>7. \/ disk' = entry' /\ pump' = [pump EXCEPT !.pc = "creating"] /\ scanAfter' = scanAfter
      \/ Pick(entry', order, pump.done)
  BY <1>3 DEF FindsNothing, SaveAttempt, Save
<1>8. \/ disk' = entry' /\ PumpTyped' /\ pump'.pc = "creating" /\ pump'.at = e
      \/ PumpTyped' /\ Renewed
  <2>1. PumpTyped
    BY DEF Typed, PumpTyped
  <2>2. ASSUME pump' = [pump EXCEPT !.pc = "creating"], scanAfter' = scanAfter
        PROVE  PumpTyped' /\ pump'.pc = "creating" /\ pump'.at = e
    <3>1. pump'.pc = "creating" /\ pump'.at = e
      BY <1>1, <2>1, <2>2 DEF PumpTyped
    <3> QED BY <2>1, <2>2, <3>1 DEF PumpTyped
  <2> QED BY <1>4, <1>7, <2>2, NextPick
<1>9. Typed'
  BY <1>1, <1>4, <1>6, <1>8 DEF Typed, PumpTyped
<1>10. Alive' /\ Known' /\ PumpIsAlive'
  BY <1>1, <1>4, <1>8 DEF Alive, Known, Renewed, PumpIsAlive
<1>11. ASSUME NEW f \in Entries PROVE Chained(f)'
  <2>1. CASE f # e
    BY <1>1, <1>4, <1>6, <1>8, <2>1, OneRecord DEF Chained, Posted, At, Alive, Renewed
  <2>2. CASE f = e
    <3>1. ~Posted(e) /\ disk[e].status # "absent"
      BY <1>1, OneRecord DEF Chained
    <3>2. comments[e] = 0 /\ late[e] = NoBody
      BY <3>1, OneRecord DEF Chained, Posted
    <3> QED BY <1>1, <1>4, <1>6, <1>8, <2>2, <3>1, <3>2, OneRecord DEF Chained, Posted, At, Alive, Renewed
  <2> QED BY <2>1, <2>2
<1>12. comments' \in [Entries -> 0..1] /\ runs' \in [Entries -> 0..1]
  BY <1>1 DEF Counted
<1> QED BY <1>9, <1>10, <1>11, <1>12, EachRecord

\* A POST is answered: the comment is there once.
LEMMA CreateAnswersKeeps ==
    ASSUME Typed, Counted, NEW e \in Entries, CreateAnswers(e)
    PROVE  Typed' /\ Counted'
<1>1. /\ Alive /\ pump.pc = "creating" /\ pump.at = e /\ pump.body \in Body
      /\ comments' = [comments EXCEPT ![e] = @ + 1]
      /\ shown' = [shown EXCEPT ![e] = pump.body]
      /\ entry' = Created(e)
      /\ UNCHANGED <<process, order, late, runs, work, notice, crashes>>
  BY DEF CreateAnswers, At, SaveAndGoOn, Post, clients, Typed
<1>2. QuietlyTo(entry') /\ entry' \in [Entries -> Record]
  BY <1>1, CreatedQuiet DEF QuietlyTo
<1>3. /\ QuietMemory
      /\ (disk \in [Entries -> Record])'
      /\ (saveFailures \in 0..MaxSaveFailures)'
  BY <1>1, <1>2, SavedQuiet DEF CreateAnswers, SaveAndGoOn
<1>4. PumpTyped' /\ Renewed
  BY <1>1, <1>2, NextPick DEF CreateAnswers, SaveAndGoOn
<1>5. Typed'
  BY <1>1, <1>2, <1>3, <1>4 DEF Typed, PumpTyped
<1>6. Alive' /\ Known' /\ PumpIsAlive'
  BY <1>1, <1>4 DEF Alive, Renewed, PumpIsAlive
<1>7. Chained(e) /\ comments[e] = 0 /\ late[e] = NoBody /\ disk[e].attempted
  BY <1>1, OneRecord DEF Chained, At, Posted
<1>8. comments' \in [Entries -> 0..1] /\ runs' \in [Entries -> 0..1]
  BY <1>1, <1>7 DEF Counted
<1>9. ASSUME NEW f \in Entries PROVE Chained(f)'
  <2>1. /\ entry'[f].attempted = entry[f].attempted
        /\ entry'[f].status = "absent" <=> entry[f].status = "absent"
        /\ disk'[f] = entry'[f] \/ disk'[f] = disk[f]
    BY <1>3 DEF QuietMemory
  <2>2. CASE f # e
    <3>1. comments'[f] = comments[f]
      BY <1>1, <2>2 DEF Counted
    <3> QED BY <1>1, <1>4, <2>1, <2>2, <3>1, OneRecord DEF Chained, Posted, At, Alive, Renewed
  <2>3. CASE f = e
    <3>1. comments'[e] = 1
      BY <1>1, <1>7 DEF Counted
    <3> QED BY <1>1, <1>4, <1>7, <2>1, <2>3, <3>1 DEF Chained, Posted, At, Alive, Renewed
  <2> QED BY <2>2, <2>3
<1> QED BY <1>5, <1>6, <1>8, <1>9, EachRecord

\* What becomes of a POST that is given up.
LEMMA AbandonKeeps ==
    ASSUME Typed, Counted, NEW e \in Entries, At("creating", e), Abandon(e, pump.body)
    PROVE  /\ (comments \in [Entries -> 0..1])'
           /\ (shown \in [Entries -> Body])' /\ (late \in [Entries -> Body])'
           /\ \A f \in Entries : /\ comments'[f] > 0 \/ late'[f] # NoBody => Posted(f)
                                 /\ late'[f] # NoBody => comments'[f] = 0
<1>1. comments[e] = 0 /\ late[e] = NoBody /\ Posted(e)
  BY OneRecord DEF Chained, Posted
<1>2. pump.body \in Body /\ comments \in [Entries -> 0..1]
  BY DEF Typed, Counted
<1>3. \A f \in Entries : late[f] # NoBody => comments[f] = 0
  BY OneRecord DEF Chained
<1>4. CASE Post(e, pump.body) /\ UNCHANGED late
  BY <1>1, <1>2, <1>3, <1>4 DEF Post, Posted, Typed
<1>5. CASE late' = [late EXCEPT ![e] = pump.body] /\ UNCHANGED <<comments, shown>>
  BY <1>1, <1>2, <1>3, <1>5 DEF Posted, Typed
<1>6. CASE UNCHANGED github
  BY <1>2, <1>3, <1>6 DEF github, Posted, Typed
<1> QED BY <1>4, <1>5, <1>6 DEF Abandon

\* A POST fails.
LEMMA CreateFailsKeeps ==
    ASSUME Typed, Counted, NEW e \in Entries, CreateFails(e)
    PROVE  Typed' /\ Counted'
<1>1. /\ Alive /\ At("creating", e) /\ Abandon(e, pump.body)
      /\ entry' = entry /\ disk' = disk /\ entry \in [Entries -> Record]
      /\ Pick(entry, order, pump.done)
      /\ UNCHANGED <<process, order, saveFailures, runs, work, notice, crashes>>
  BY DEF CreateFails, At, clients, outbox, Typed
<1>2. PumpTyped' /\ Renewed
  BY <1>1, NextPick
<1>3. /\ (comments \in [Entries -> 0..1])'
      /\ (shown \in [Entries -> Body])' /\ (late \in [Entries -> Body])'
      /\ \A f \in Entries : /\ comments'[f] > 0 \/ late'[f] # NoBody => Posted(f)
                            /\ late'[f] # NoBody => comments'[f] = 0
  BY <1>1, AbandonKeeps
<1>4. Typed'
  BY <1>1, <1>2, <1>3 DEF Typed, PumpTyped
<1>5. Alive' /\ Known' /\ PumpIsAlive'
  BY <1>1, <1>2 DEF Alive, Renewed, PumpIsAlive
<1>6. ASSUME NEW f \in Entries PROVE Chained(f)'
  <2>1. comments'[f] \in 0..1 /\ ~At("creating", f)'
    BY <1>2, <1>3 DEF Renewed, At
  <2> QED BY <1>1, <1>3, <2>1, OneRecord DEF Chained, Posted, Alive
<1> QED BY <1>1, <1>3, <1>4, <1>5, <1>6, EachRecord DEF Counted

\* A POST that was given up lands.
LEMMA LatePostKeeps ==
    ASSUME Typed, Counted, NEW e \in Entries, LatePostLands(e)
    PROVE  Typed' /\ Counted'
<1>1. /\ late[e] # NoBody
      /\ comments' = [comments EXCEPT ![e] = @ + 1]
      /\ shown' = [shown EXCEPT ![e] = late[e]]
      /\ late' = [late EXCEPT ![e] = NoBody]
      /\ UNCHANGED <<process, order, entry, disk, saveFailures, pump, scanAfter,
                     runs, work, notice, crashes>>
  BY DEF LatePostLands, Post, outbox, clients
<1>2. comments[e] = 0 /\ disk[e].attempted /\ ~At("creating", e)
  BY <1>1, OneRecord DEF Chained, Posted
<1>3. comments' \in [Entries -> 0..1] /\ runs' \in [Entries -> 0..1]
  BY <1>1, <1>2 DEF Counted
<1>4. NoBody \in Body
  BY DEF NoBody, Body, Statuses
<1>5. Typed'
  BY <1>1, <1>4 DEF Typed
<1>6. Known' /\ PumpIsAlive'
  BY <1>1 DEF Counted, Known, PumpIsAlive, Alive
<1>7. ASSUME NEW f \in Entries PROVE Chained(f)'
  <2>1. Chained(f) /\ (At("creating", f)' <=> At("creating", f)) /\ (Alive' <=> Alive)
    BY <1>1, OneRecord DEF At, Alive
  <2>2. CASE f # e
    <3>1. comments'[f] = comments[f] /\ late'[f] = late[f]
      BY <1>1, <2>2 DEF Counted, Typed
    <3> QED BY <1>1, <2>1, <3>1 DEF Chained, Posted
  <2>3. CASE f = e
    <3>1. comments'[e] = 1 /\ late'[e] = NoBody
      BY <1>1, <1>2 DEF Counted, Typed
    <3> QED BY <1>1, <1>2, <2>1, <2>3, <3>1 DEF Chained, Posted
  <2> QED BY <2>2, <2>3
<1> QED BY <1>3, <1>5, <1>6, <1>7, EachRecord

\* begin(): a record and a run together, or neither.
LEMMA BeginKeeps ==
    ASSUME Typed, Counted, NEW e \in Entries, Begin(e)
    PROVE  Typed' /\ Counted'
<1> DEFINE r == [Absent EXCEPT !.status = "accepted", !.rev = 1]
           m == [entry EXCEPT ![e] = r]
<1>1. /\ Alive /\ entry[e].status = "absent"
      /\ entry \in [Entries -> Record] /\ order \in Seq(Entries)
      /\ UNCHANGED <<process, comments, shown, late, notice, crashes>>
  BY DEF Begin, Journaled, github, Typed
<1>2. r \in Record /\ ~r.attempted /\ r.status = "accepted"
  BY DEF Absent, Record, Statuses
<1>3. m \in [Entries -> Record]
  BY <1>1, <1>2
<1>4. CASE /\ Save(entry, FALSE)
           /\ UNCHANGED <<order, entry, runs, work, pump, scanAfter>>
  <2>1. QuietlyTo(entry)
    BY <1>1 DEF QuietlyTo
  <2>2. /\ QuietMemory
        /\ (disk \in [Entries -> Record])'
        /\ (saveFailures \in 0..MaxSaveFailures)'
    BY <1>4, <2>1, SavedQuiet
  <2>3. Quiet
    BY <1>1, <1>4, <2>2 DEF Quiet, Alive
  <2> QED BY <1>1, <1>4, <2>2, <2>3, QuietCounted DEF Typed
<1>5. CASE /\ Save(m, TRUE)
           /\ entry' = m
           /\ order' = Append(order, e)
           /\ runs' = [runs EXCEPT ![e] = @ + 1]
           /\ work' = [work EXCEPT ![e] = "running"]
           /\ Flush(m, order')
  <2>1. disk' = m /\ (saveFailures \in 0..MaxSaveFailures)'
    BY <1>5 DEF Save, Typed
  <2>2. order' \in Seq(Entries)
    BY <1>1, <1>5
  <2>3. PumpTyped' /\ (pump' = pump \/ Renewed)
    BY <1>3, <1>5, <2>2, FlushTyped
  <2>4. Typed'
    BY <1>1, <1>3, <1>5, <2>1, <2>2, <2>3 DEF Typed, PumpTyped
  <2>5. m[e] = r /\ \A f \in Entries : f # e => m[f] = entry[f]
    BY <1>1
  <2> HIDE DEF r, m
  <2>6. Known'
    <3>1. CASE pump' = pump
      BY <1>5, <2>5, <1>2, <3>1 DEF Counted, Known, Typed
    <3> QED BY <2>3, <3>1 DEF Renewed
  <2>7. Alive' /\ PumpIsAlive'
    BY <1>1 DEF Alive, PumpIsAlive
  <2>8. Chained(e) /\ disk[e].status = "absent" /\ runs[e] = 0 /\ ~Posted(e)
    BY <1>1, OneRecord DEF Chained
  <2>9. comments' \in [Entries -> 0..1] /\ runs' \in [Entries -> 0..1]
    BY <1>1, <1>5, <2>8 DEF Counted
  <2>10. \A f \in Entries : Posted(f)' => Posted(f)
    BY <1>1, <2>3 DEF Posted, At, Alive, Renewed
  <2>11. ASSUME NEW f \in Entries PROVE Chained(f)'
    <3>1. At("creating", f)' => At("creating", f)
      BY <1>1, <2>3 DEF At, Alive, Renewed
    <3>2. CASE f # e
      <4>1. runs'[f] = runs[f] /\ work'[f] = work[f] /\ disk'[f] = entry[f] /\ entry'[f] = entry[f]
        BY <1>5, <2>1, <2>5, <3>2 DEF Counted, Typed
      <4> QED BY <1>1, <2>7, <2>10, <3>1, <4>1, OneRecord DEF Chained
    <3>3. CASE f = e
      <4>1. disk'[e] = r /\ entry'[e] = r /\ runs'[e] = 1
        BY <1>5, <2>1, <2>5, <2>8 DEF Counted
      <4>2. ~Posted(e)' /\ comments'[e] = 0 /\ late'[e] = NoBody
        BY <1>1, <2>8, <2>10 DEF Posted, Chained
      <4> QED BY <1>2, <3>3, <4>1, <4>2 DEF Chained, Posted
    <3> QED BY <3>2, <3>3
  <2> QED BY <2>4, <2>6, <2>7, <2>9, <2>11, EachRecord
<1> QED BY <1>4, <1>5 DEF Begin

\* The process ends: a POST on its way becomes one that is given up.
LEMMA ExitKeeps ==
    ASSUME Typed, Counted, Exit
    PROVE  Typed' /\ Counted'
<1>1. /\ process' = "down" /\ Alive /\ ~Alive'
      /\ pump' = Off /\ scanAfter' = "none"
      /\ work' = [e \in Entries |-> IF work[e] = "running" THEN "over" ELSE work[e]]
      /\ UNCHANGED <<order, entry, disk, saveFailures, runs>>
  BY DEF Exit, Alive, outbox
<1>2. /\ (comments \in [Entries -> 0..1])'
      /\ (shown \in [Entries -> Body])' /\ (late \in [Entries -> Body])'
      /\ \A f \in Entries : /\ comments'[f] > 0 \/ late'[f] # NoBody => Posted(f)
                            /\ late'[f] # NoBody => comments'[f] = 0
  <2>1. CASE pump.pc = "creating"
    <3>1. pump.at \in Entries /\ At("creating", pump.at) /\ Abandon(pump.at, pump.body)
      BY <1>1, <2>1 DEF Exit, Typed, At
    <3> QED BY <3>1, AbandonKeeps
  <2>2. CASE pump.pc = "updating"
    <3>1. /\ UNCHANGED <<comments, late>>
          /\ shown' = shown \/ shown' = [shown EXCEPT ![pump.at] = pump.body]
      BY <2>2 DEF Exit, Patch
    <3> QED BY <3>1, OneRecord DEF Typed, Counted, Chained, Posted
  <2>3. CASE pump.pc \notin {"creating", "updating"}
    <3>1. UNCHANGED <<comments, shown, late>>
      BY <2>3 DEF Exit, github
    <3> QED BY <3>1, OneRecord DEF Typed, Counted, Chained, Posted
  <2> QED BY <2>1, <2>2, <2>3
<1>3. /\ (crashes \in 0..MaxCrashes)'
      /\ (work \in [Entries -> {"none", "running", "over"}])'
      /\ (notice \in [Entries -> Waiting \cup {"none", "firstOver", "secondOver", "synced", "pending"}])'
  BY JournalAssumption DEF Exit, Typed
<1>4. PumpTyped'
  BY <1>1 DEF PumpTyped, Off, NoBody, Body, Statuses
<1>5. Typed'
  BY <1>1, <1>2, <1>3, <1>4 DEF Typed, PumpTyped
<1>6. Known' /\ PumpIsAlive'
  BY <1>1 DEF Known, PumpIsAlive, Off
<1>7. ASSUME NEW f \in Entries PROVE Chained(f)'
  <2>1. comments'[f] \in 0..1 /\ work'[f] # "running" /\ ~At("creating", f)'
    BY <1>1, <1>2 DEF At
  <2> QED BY <1>1, <1>2, <2>1, OneRecord DEF Chained, Posted
<1> QED BY <1>1, <1>2, <1>5, <1>6, <1>7, EachRecord DEF Counted

\* The constructor: memory knows what the disk knew.
LEMMA RestartKeeps ==
    ASSUME Typed, Counted, Restart
    PROVE  Typed' /\ Counted'
<1>1. /\ process' = "up" /\ ~Alive /\ Alive'
      /\ entry' = [e \in Entries |-> Reloaded(disk[e])] /\ disk' = entry'
      /\ saveFailures' = saveFailures
      /\ UNCHANGED <<order, pump, scanAfter, comments, shown, late, runs, work, notice, crashes>>
  BY DEF Restart, Alive, Save, github, clients
<1>2. ASSUME NEW r \in Record
      PROVE  /\ Reloaded(r) \in Record
             /\ Reloaded(r).attempted = r.attempted
             /\ Reloaded(r).status = "absent" <=> r.status = "absent"
  <2>1. CASE r.status \in Terminal \cup {"absent"}
    BY <2>1 DEF Reloaded
  <2>2. CASE r.status \notin Terminal \cup {"absent"}
    <3>1. Reloaded(r) = [r EXCEPT !.status = "unknown", !.rev = r.rev + 1]
      BY <2>2 DEF Reloaded
    <3>2. r.rev + 1 \in Nat /\ "unknown" \in Statuses
      BY DEF Record, Statuses, Terminal
    <3> HIDE DEF Reloaded
    <3>3. Reloaded(r) \in Record
      BY <3>1, <3>2 DEF Record
    <3>4. Reloaded(r).attempted = r.attempted /\ Reloaded(r).status = "unknown"
      BY <3>1 DEF Record
    <3> QED BY <2>2, <3>3, <3>4
  <2> QED BY <2>1, <2>2
<1>3. \A f \in Entries : /\ entry'[f] \in Record
                         /\ entry'[f].attempted = disk[f].attempted
                         /\ entry'[f].status = "absent" <=> disk[f].status = "absent"
  BY <1>1, <1>2 DEF Typed
<1>4. entry' \in [Entries -> Record]
  BY <1>1, <1>3
<1>5. Typed'
  BY <1>1, <1>4 DEF Typed
<1>6. pump.pc = "off"
  BY <1>1 DEF Counted, PumpIsAlive
<1>7. Known' /\ PumpIsAlive'
  BY <1>1, <1>6 DEF Known, PumpIsAlive
<1>8. ASSUME NEW f \in Entries PROVE Chained(f)'
  <2>1. ~At("creating", f)'
    BY <1>1, <1>6 DEF At
  <2> QED BY <1>1, <1>3, <2>1, OneRecord DEF Chained, Posted
<1> QED BY <1>1, <1>5, <1>7, <1>8, EachRecord DEF Counted

----------------------------------------------------------------------------
(* The theorems.                                                           *)

JInv == Typed /\ Counted

\* The empty journal satisfies the invariant.
LEMMA InitJInv == Init => JInv
<1> SUFFICES ASSUME Init PROVE JInv
  OBVIOUS
<1>1. Absent \in Record /\ NoBody \in Body /\ Absent.status = "absent" /\ ~Absent.attempted
  BY DEF Absent, Record, NoBody, Body, Statuses
<1>2. Typed
  BY <1>1, JournalAssumption DEF Init, Typed, Off
<1>3. Known /\ PumpIsAlive
  BY DEF Init, Known, PumpIsAlive, Off
<1>4. AttemptOnDisk /\ DiskInMemory /\ AbsentIsNew /\ OneComment
  BY <1>1 DEF Init, AttemptOnDisk, DiskInMemory, AbsentIsNew, OneComment, Posted, At, Off
<1>5. comments \in [Entries -> 0..1] /\ runs \in [Entries -> 0..1]
  BY DEF Init
<1> QED BY <1>2, <1>3, <1>4, <1>5 DEF JInv, Counted

\* Every step preserves it.
LEMMA NextJInv == JInv /\ [Next]_vars => JInv'
<1> SUFFICES ASSUME JInv, [Next]_vars PROVE JInv'
  OBVIOUS
<1>0. Typed /\ Counted
  BY DEF JInv
<1>1. ASSUME Quiet, Typed' PROVE JInv'
  BY <1>0, <1>1, QuietCounted DEF JInv
<1>2. ASSUME NEW e \in Entries, DrainStep(e) PROVE JInv'
  BY <1>0, <1>1, <1>2, QuietDrain, FindsNothingKeeps, CreateAnswersKeeps, CreateFailsKeeps
     DEF DrainStep, JInv
<1>3. ASSUME NEW e \in Entries, RunStep(e) PROVE JInv'
  BY <1>0, <1>1, <1>3, QuietRest, BeginKeeps DEF RunStep, JInv
<1>4. ASSUME NEW e \in Entries, LatePostLands(e) PROVE JInv'
  BY <1>0, <1>4, LatePostKeeps DEF JInv
<1>5. CASE PumpEnds \/ TimerFires \/ Close
  BY <1>0, <1>1, <1>5, QuietRest
<1>6. CASE Exit \/ Restart
  BY <1>0, <1>6, ExitKeeps, RestartKeeps DEF JInv
<1>7. CASE UNCHANGED vars
  <2> USE <1>7 DEF vars, outbox, github, clients
  <2>1. Typed'
    BY <1>0 DEF Typed
  <2>2. Counted'
    BY <1>0 DEF Counted, OneComment, AttemptOnDisk, DiskInMemory, AbsentIsNew, PumpIsAlive,
                Known, Posted, At, Alive
  <2> QED BY <2>1, <2>2 DEF JInv
<1> QED BY <1>2, <1>3, <1>4, <1>5, <1>6, <1>7 DEF Next

\* The chain holds in every state the journal reaches, however processes,
\* saves and requests fail.
THEOREM JournalInvariance == Spec => []JInv
<1> QED BY InitJInv, NextJInv, PTL DEF Spec

\* Every variable of the journal keeps its type.
THEOREM JournalTypeCorrect == Spec => []TypeOK
<1>1. JInv => TypeOK
  BY DEF JInv, Typed, Counted, TypeOK
<1> QED BY <1>1, JournalInvariance, PTL

\* GitHub never gets a second comment of a record, not even from a POST that
\* lands after it was given up.
THEOREM JournalOneComment == Spec => []OneComment
<1>1. JInv => OneComment
  BY DEF JInv, Counted
<1> QED BY <1>1, JournalInvariance, PTL

\* No instruction is given to the model twice, redeliveries after crashes included.
THEOREM JournalNeverReruns == Spec => []NeverRerun
<1>1. JInv => NeverRerun
  BY DEF JInv, Counted, NeverRerun
<1> QED BY <1>1, JournalInvariance, PTL

\* At most one comment of a record and at most one run of an instruction.
THEOREM JournalAtMostOnce == Spec => []AtMostOnce
<1>1. OneComment /\ NeverRerun => AtMostOnce
  BY DEF AtMostOnce
<1> QED BY <1>1, JournalOneComment, JournalNeverReruns, PTL
----------------------------------------------------------------------------
(* What counts as synced is what GitHub shows.                             *)

Working == pump.pc \in {"finding", "creating", "updating"}
AsShown(r) == [status |-> r.status, rev |-> r.rev]
Pending == Waiting \cup {"firstOver", "secondOver"}

\* drain() has something to do, and carries the latest revision or an older one.
Fresh == Working =>
    /\ entry[pump.at].synced < pump.body.rev
    /\ pump.body.rev <= entry[pump.at].rev
    /\ pump.body.rev = entry[pump.at].rev => pump.body.status = entry[pump.at].status
    /\ pump.pc = "updating" => entry[pump.at].known
    /\ notice[pump.at] = "synced" => pump.body.rev = entry[pump.at].rev

\* A record knows of no revision and no comment that does not exist.
Sound(m, e) == /\ m[e].synced <= m[e].rev
               /\ m[e].status # "absent" => m[e].rev > 0
               /\ m[e].known \/ m[e].synced > 0 => comments[e] = 1

\* What is over on disk is over in memory, and memory knows more of GitHub.
InMemory(e) == Alive =>
    /\ Sound(entry, e)
    /\ entry[e].status # "absent" /\ entry[e].synced = entry[e].rev => shown[e] = AsShown(entry[e])
    /\ disk[e].status \in Terminal =>
          /\ AsShown(entry[e]) = AsShown(disk[e])
          /\ disk[e].synced <= entry[e].synced

OnDisk(e) ==
    /\ Sound(disk, e)
    /\ disk[e].status \in Terminal /\ disk[e].synced = disk[e].rev => shown[e] = AsShown(disk[e])

\* A notice is about a record that is over, on disk.
Told(e) ==
    /\ notice[e] \in Pending => Alive /\ disk[e].status \in Terminal
    /\ notice[e] = "synced" => /\ comments[e] = 1 /\ disk[e].status \in Terminal
                               /\ shown[e].status = disk[e].status

SyncInv == Fresh /\ \A e \in Entries : InMemory(e) /\ OnDisk(e) /\ Told(e)

\* One record in one step: memory and GitHub move together, and nothing is told.
Grows(e) ==
    /\ Sound(entry, e)'
    /\ entry'[e].status # "absent" /\ entry'[e].synced = entry'[e].rev => shown'[e] = AsShown(entry'[e])
    /\ entry[e].status \in Terminal => /\ AsShown(entry'[e]) = AsShown(entry[e])
                                       /\ entry[e].synced <= entry'[e].synced
    /\ disk'[e] = entry'[e] \/ disk'[e] = disk[e]
    /\ comments[e] = 1 => comments'[e] = 1
    /\ shown'[e] = shown[e] \/ comments[e] = 0 \/ (Working /\ pump.at = e /\ shown'[e] = pump.body)
    /\ notice'[e] \in Pending => notice[e] \in Pending
    /\ notice'[e] = "synced" => notice[e] = "synced"

\* The fields of two records with the same snapshot.
LEMMA AsShownFields ==
    ASSUME NEW r, NEW s, AsShown(r) = AsShown(s)
    PROVE  r.status = s.status /\ r.rev = s.rev
<1>1. AsShown(r).status = r.status /\ AsShown(r).rev = r.rev
  BY DEF AsShown
<1>2. AsShown(s).status = s.status /\ AsShown(s).rev = s.rev
  BY DEF AsShown
<1> QED BY <1>1, <1>2

LEMMA FieldTypes ==
    ASSUME Typed, NEW e \in Entries
    PROVE  /\ entry[e].rev \in Nat /\ entry[e].synced \in Nat /\ entry[e].known \in BOOLEAN
           /\ disk[e].rev \in Nat /\ disk[e].synced \in Nat /\ disk[e].known \in BOOLEAN
           /\ entry[e].status \in Statuses /\ disk[e].status \in Statuses
           /\ pump.body.rev \in Nat
<1>1. entry[e] \in Record /\ disk[e] \in Record /\ pump.body \in Body
  BY DEF Typed
<1> QED BY <1>1 DEF Record, Body

\* Then the record stays as it should be.
LEMMA GrowsKeeps ==
    ASSUME Typed, Typed', Counted, Fresh, Alive, Alive', NEW e \in Entries,
           Grows(e), InMemory(e), OnDisk(e), Told(e)
    PROVE  InMemory(e)' /\ OnDisk(e)' /\ Told(e)'
<1>0. entry'[e].synced \in Nat /\ entry'[e].rev \in Nat
  <2>1. entry'[e] \in Record
    BY DEF Typed
  <2> QED BY <2>1 DEF Record
<1>1. comments[e] \in 0..1
  BY DEF Counted
<1>2. disk[e].status \in Terminal =>
         /\ AsShown(entry[e]) = AsShown(disk[e]) /\ AsShown(entry'[e]) = AsShown(disk[e])
         /\ entry'[e].status \in Terminal /\ entry'[e].status = disk[e].status
         /\ disk[e].synced <= entry'[e].synced
  <2> SUFFICES ASSUME disk[e].status \in Terminal
               PROVE  /\ AsShown(entry[e]) = AsShown(disk[e]) /\ AsShown(entry'[e]) = AsShown(disk[e])
                      /\ entry'[e].status \in Terminal /\ entry'[e].status = disk[e].status
                      /\ disk[e].synced <= entry'[e].synced
    OBVIOUS
  <2>1. AsShown(entry[e]) = AsShown(disk[e]) /\ disk[e].synced <= entry[e].synced
    BY DEF InMemory
  <2>2. entry[e].status = disk[e].status
    BY <2>1, AsShownFields
  <2>3. AsShown(entry'[e]) = AsShown(entry[e]) /\ entry[e].synced <= entry'[e].synced
    BY <2>2 DEF Grows
  <2>4. entry'[e].status = disk[e].status
    BY <2>1, <2>3, AsShownFields
  <2>5. disk[e].synced <= entry'[e].synced
    BY <1>0, <2>1, <2>3, FieldTypes
  <2> QED BY <2>1, <2>3, <2>4, <2>5
<1>3. InMemory(e)'
  <2>1. disk'[e].status \in Terminal => /\ AsShown(entry'[e]) = AsShown(disk'[e])
                                        /\ disk'[e].synced <= entry'[e].synced
    BY <1>0, <1>2 DEF Grows
  <2> QED BY <2>1 DEF InMemory, Grows, Sound, AsShown
<1>4. OnDisk(e)'
  <2>1. CASE disk'[e] = entry'[e]
    BY <2>1 DEF OnDisk, Grows, Sound, Terminal
  <2>2. CASE disk'[e] = disk[e]
    <3>1. Sound(disk, e)'
      BY <2>2 DEF OnDisk, Grows, Sound
    <3>2. ASSUME disk[e].status \in Terminal, disk[e].synced = disk[e].rev
          PROVE  shown'[e] = AsShown(disk[e])
      <4>1. shown[e] = AsShown(disk[e]) /\ comments[e] = 1
        BY <3>2, FieldTypes DEF OnDisk, Sound, Terminal
      <4>2. entry[e].rev = disk[e].rev
        BY <1>2, <3>2, AsShownFields
      <4>3. ~(Working /\ pump.at = e)
        BY <3>2, <4>2, FieldTypes DEF Fresh, InMemory
      <4> QED BY <4>1, <4>3 DEF Grows
    <3> QED BY <2>2, <3>1, <3>2 DEF OnDisk
  <2> QED BY <2>1, <2>2 DEF Grows
<1>5. disk[e].status \in Terminal => disk'[e].status = disk[e].status
  BY <1>2 DEF Grows
<1>6. Told(e)'
  <2>1. notice'[e] \in Pending => disk'[e].status \in Terminal
    BY <1>5 DEF Told, Grows
  <2>2. ASSUME notice'[e] = "synced"
        PROVE  /\ comments'[e] = 1 /\ disk'[e].status \in Terminal
               /\ shown'[e].status = disk'[e].status
    <3>1. /\ notice[e] = "synced" /\ comments[e] = 1 /\ disk[e].status \in Terminal
          /\ shown[e].status = disk[e].status /\ comments'[e] = 1
      BY <2>2 DEF Told, Grows
    <3>2. CASE shown'[e] = shown[e]
      BY <1>5, <3>1, <3>2
    <3>3. CASE Working /\ pump.at = e /\ shown'[e] = pump.body
      <4>1. pump.body.status = entry[e].status
        BY <3>1, <3>3 DEF Fresh
      <4>2. entry[e].status = disk[e].status
        BY <1>2, <3>1, AsShownFields
      <4> QED BY <1>5, <3>1, <3>3, <4>1, <4>2
    <3> QED BY <3>1, <3>2, <3>3 DEF Grows
  <2> QED BY <2>1, <2>2 DEF Told
<1> QED BY <1>3, <1>4, <1>6

\* A record the step leaves alone.
LEMMA SameGrows ==
    ASSUME Typed, Alive, NEW e \in Entries, InMemory(e), entry'[e] = entry[e],
           disk'[e] = entry'[e] \/ disk'[e] = disk[e], shown'[e] = shown[e], comments'[e] = comments[e],
           notice'[e] = notice[e] \/ (notice'[e] \in Pending /\ notice[e] \in Pending)
    PROVE  Grows(e)
<1>1. Sound(entry, e)'
  BY DEF InMemory, Sound
<1>2. entry[e].synced <= entry'[e].synced
  BY FieldTypes
<1> QED BY <1>1, <1>2 DEF Grows, InMemory, Pending, Waiting

\* drain() goes on with the same record.
LEMMA FreshStays ==
    ASSUME Typed, Typed', Fresh, pump'.at = pump.at, pump'.body = pump.body,
           Working' => Working,
           Working => /\ pump.at \in Entries
                      /\ entry'[pump.at].synced = entry[pump.at].synced
                      /\ \/ AsShown(entry'[pump.at]) = AsShown(entry[pump.at])
                         \/ entry'[pump.at].rev > entry[pump.at].rev /\ notice'[pump.at] # "synced"
                      /\ pump'.pc = "updating" => entry'[pump.at].known
                      /\ notice'[pump.at] = "synced" => notice[pump.at] = "synced"
    PROVE  Fresh'
<1> SUFFICES ASSUME Working' PROVE Fresh'
  BY DEF Fresh
<1> DEFINE e == pump.at
<1>1. Working /\ e \in Entries /\ entry[e] \in Record /\ entry'[e] \in Record
  BY DEF Typed
<1>2. entry[e].rev \in Nat /\ entry'[e].rev \in Nat /\ pump.body.rev \in Nat
  BY <1>1, FieldTypes DEF Record
<1>3. CASE AsShown(entry'[e]) = AsShown(entry[e])
  <2>1. entry'[e].rev = entry[e].rev /\ entry'[e].status = entry[e].status
    BY <1>3, AsShownFields
  <2> QED BY <1>1, <2>1 DEF Fresh
<1>4. CASE entry'[e].rev > entry[e].rev /\ notice'[e] # "synced"
  BY <1>1, <1>2, <1>4 DEF Fresh
<1> QED BY <1>1, <1>3, <1>4

\* drain() picks what is dirty, as it is.
LEMMA FreshPick ==
    ASSUME Typed', NEW s \in Seq(Entries), NEW done, Pick(entry', s, done),
           \A e \in Entries : entry'[e].synced <= entry'[e].rev
    PROVE  Fresh'
<1>1. CASE pump' = [Off EXCEPT !.pc = "ending"]
  BY <1>1 DEF Fresh, Working, Off
<1>2. ASSUME NEW n \in DOMAIN s, Dirty(entry', s[n]), pump' = PickFrom(entry', s[n], done)
      PROVE  Fresh'
  <2>1. s[n] \in Entries /\ entry'[s[n]] \in Record
    BY DEF Typed
  <2>2. /\ pump'.at = s[n] /\ pump'.body.rev = entry'[s[n]].rev
        /\ pump'.body.status = entry'[s[n]].status
        /\ pump'.pc = "updating" => entry'[s[n]].known
    BY <1>2 DEF PickFrom
  <2>3. entry'[s[n]].synced < entry'[s[n]].rev
    BY <1>2, <2>1 DEF Dirty, Record
  <2>4. pump'.body.rev <= entry'[s[n]].rev
    BY <2>1, <2>2 DEF Record
  <2> QED BY <2>2, <2>3, <2>4 DEF Fresh
<1> QED BY <1>1, <1>2 DEF Pick, Candidates

\* A change of one record, field by field.
ChangesTo(m, e) ==
    /\ m \in [Entries -> Record]
    /\ \A f \in Entries : f # e => m[f] = entry[f]
    /\ AsShown(m[e]) = AsShown(entry[e])

LEMMA DrainChanges ==
    ASSUME Typed, NEW e \in Entries
    PROVE  /\ ChangesTo(Learned(e), e) /\ Learned(e)[e].known /\ Learned(e)[e].synced = entry[e].synced
           /\ ChangesTo(Attempted(e), e) /\ Attempted(e)[e].known = entry[e].known
           /\ Attempted(e)[e].synced = entry[e].synced
           /\ ChangesTo(Created(e), e) /\ Created(e)[e].known
           /\ Created(e)[e].synced = pump.body.rev
           /\ ChangesTo(Updated(e), e) /\ Updated(e)[e].known = entry[e].known
           /\ Updated(e)[e].synced = pump.body.rev
<1>1. entry \in [Entries -> Record] /\ entry[e] \in Record /\ pump.body.rev \in Nat
  BY FieldTypes DEF Typed
<1>2. ChangesTo(Learned(e), e) /\ Learned(e)[e].known /\ Learned(e)[e].synced = entry[e].synced
  BY <1>1 DEF Learned, Record, ChangesTo, AsShown
<1>3. /\ ChangesTo(Attempted(e), e) /\ Attempted(e)[e].known = entry[e].known
      /\ Attempted(e)[e].synced = entry[e].synced
  BY <1>1 DEF Attempted, Record, ChangesTo, AsShown
<1>4. /\ ChangesTo(Created(e), e) /\ Created(e)[e].known
      /\ Created(e)[e].synced = pump.body.rev
  BY <1>1 DEF Created, SyncedRevision, Record, ChangesTo, AsShown
<1>5. /\ ChangesTo(Updated(e), e) /\ Updated(e)[e].known = entry[e].known
      /\ Updated(e)[e].synced = pump.body.rev
  BY <1>1 DEF Updated, SyncedRevision, Record, ChangesTo, AsShown
<1> QED BY <1>2, <1>3, <1>4, <1>5

\* What drain() does with the record it works on.
LEMMA DrainSyncs ==
    ASSUME JInv, JInv', SyncInv, NEW e \in Entries, Alive, Alive', Working, pump.at = e,
           ChangesTo(entry', e), disk' = entry' \/ disk' = disk, notice' = notice,
           \A f \in Entries : f # e => comments'[f] = comments[f] /\ shown'[f] = shown[f],
           entry'[e].synced = entry[e].synced
              \/ (entry'[e].synced = pump.body.rev /\ shown'[e] = pump.body),
           entry'[e].known \/ entry'[e].synced = pump.body.rev => comments'[e] = 1,
           comments[e] = 1 => comments'[e] = 1,
           shown'[e] = shown[e] \/ shown'[e] = pump.body,
           \/ Pick(entry', order, pump.done)
           \/ /\ entry'[e].synced = entry[e].synced
              /\ \E q \in {"creating", "updating"} :
                    pump' = [pump EXCEPT !.pc = q] /\ (q = "updating" => entry'[e].known)
    PROVE  SyncInv'
<1>0. /\ Typed /\ Typed' /\ Counted /\ Fresh
      /\ \A f \in Entries : InMemory(f) /\ OnDisk(f) /\ Told(f)
  BY DEF JInv, SyncInv
<1>1. /\ entry[e].synced < pump.body.rev /\ pump.body.rev <= entry[e].rev
      /\ pump.body.rev = entry[e].rev => pump.body.status = entry[e].status
  BY <1>0 DEF Fresh
<1>2. /\ entry[e].rev \in Nat /\ entry[e].synced \in Nat /\ pump.body.rev \in Nat /\ pump.body \in Body
      /\ entry'[e].status = entry[e].status /\ entry'[e].rev = entry[e].rev
  BY <1>0, FieldTypes, AsShownFields DEF ChangesTo, Typed
<1>3. \A f \in Entries : disk'[f] = entry'[f] \/ disk'[f] = disk[f]
  OBVIOUS
<1>4. Grows(e)
  <2>1. entry'[e].synced <= entry'[e].rev /\ entry[e].synced <= entry'[e].synced
    BY <1>1, <1>2
  <2>2. entry'[e].synced > 0 => comments'[e] = 1
    <3>1. entry[e].synced > 0 => comments[e] = 1
      BY <1>0 DEF InMemory, Sound
    <3> QED BY <3>1
  <2>3. entry'[e].status # "absent" => entry'[e].rev > 0
    BY <1>0, <1>2 DEF InMemory, Sound
  <2>4. entry'[e].synced = entry'[e].rev => shown'[e] = AsShown(entry'[e])
    <3> SUFFICES ASSUME entry'[e].synced = entry'[e].rev PROVE shown'[e] = AsShown(entry'[e])
      OBVIOUS
    <3>1. shown'[e] = pump.body /\ pump.body.rev = entry[e].rev /\ pump.body.status = entry[e].status
      BY <1>1, <1>2
    <3>2. pump.body = [status |-> pump.body.status, rev |-> pump.body.rev]
      BY <1>2 DEF Body
    <3> QED BY <1>2, <3>1, <3>2 DEF AsShown
  <2> QED BY <1>3, <2>1, <2>2, <2>3, <2>4 DEF Grows, Sound, ChangesTo
<1>5. ASSUME NEW f \in Entries, f # e PROVE Grows(f)
  BY <1>0, <1>3, <1>5, SameGrows DEF ChangesTo
<1>6. \A f \in Entries : Grows(f)
  BY <1>4, <1>5
<1>7. \A f \in Entries : InMemory(f)' /\ OnDisk(f)' /\ Told(f)'
  BY <1>0, <1>6, GrowsKeeps
<1>8. Fresh'
  <2>1. CASE Pick(entry', order, pump.done)
    <3>1. \A f \in Entries : entry'[f].synced <= entry'[f].rev
      BY <1>6 DEF Grows, Sound
    <3> QED BY <1>0, <2>1, <3>1, FreshPick DEF Typed
  <2>2. ASSUME entry'[e].synced = entry[e].synced, NEW q \in {"creating", "updating"},
               pump' = [pump EXCEPT !.pc = q], q = "updating" => entry'[e].known
        PROVE  Fresh'
    <3>1. pump'.pc = q /\ pump'.at = pump.at /\ pump'.body = pump.body
      BY <1>0, <2>2 DEF Typed
    <3> QED BY <1>0, <2>2, <3>1, FreshStays DEF ChangesTo
  <2> QED BY <2>1, <2>2
<1> QED BY <1>7, <1>8 DEF SyncInv

\* Every step of drain() leaves memory and GitHub in agreement.
LEMMA DrainKeepsSync ==
    ASSUME JInv, JInv', SyncInv, NEW e \in Entries, DrainStep(e)
    PROVE  SyncInv'
<1>0. /\ Typed /\ Counted /\ Fresh /\ InMemory(e) /\ Sound(entry, e)
      /\ entry \in [Entries -> Record] /\ disk \in [Entries -> Record]
      /\ comments \in [Entries -> 0..1] /\ shown \in [Entries -> Body]
  BY DEF JInv, SyncInv, DrainStep, FindsComment, FindsNothing, Reconcile, FindFails, CreateAnswers,
         CreateFails, UpdateAnswers, UpdateFails, At, InMemory, Typed, Counted
<1>1. /\ Alive /\ Alive' /\ Working /\ pump.at = e /\ UNCHANGED notice
  BY DEF DrainStep, FindsComment, FindsNothing, Reconcile, FindFails, CreateAnswers,
         CreateFails, UpdateAnswers, UpdateFails, At, Working, Alive, clients
<1>2. ChangesTo(entry, e) /\ entry[e].synced # pump.body.rev
  BY <1>0, <1>1, FieldTypes DEF ChangesTo, Fresh
<1>3. CASE FindsComment(e)
  <2>1. /\ UNCHANGED <<comments, shown>> /\ comments[e] = 1 /\ entry' = Learned(e)
        /\ disk' = entry' \/ disk' = disk
        /\ pump' = [pump EXCEPT !.pc = "updating"] \/ Pick(entry', order, pump.done)
    BY <1>3 DEF FindsComment, Save, github
  <2>2. /\ ChangesTo(entry', e) /\ entry'[e].known /\ entry'[e].synced = entry[e].synced
    BY <1>0, <2>1, DrainChanges
  <2> QED BY <1>1, <1>2, <2>1, <2>2, DrainSyncs
<1>4. CASE FindsNothing(e)
  <2>1. /\ UNCHANGED <<comments, shown>> /\ entry' = Attempted(e)
        /\ disk' = entry' \/ disk' = disk
        /\ pump' = [pump EXCEPT !.pc = "creating"] \/ Pick(entry', order, pump.done)
    BY <1>4 DEF FindsNothing, SaveAttempt, Save, github
  <2>2. /\ ChangesTo(entry', e) /\ entry'[e].known = entry[e].known /\ entry'[e].synced = entry[e].synced
    BY <1>0, <2>1, DrainChanges
  <2>3. entry'[e].known => comments'[e] = 1
    BY <1>0, <2>1, <2>2 DEF Sound
  <2> QED BY <1>1, <1>2, <2>1, <2>2, <2>3, DrainSyncs
<1>5. CASE Reconcile(e) \/ FindFails(e)
  <2>1. UNCHANGED <<comments, shown, entry, disk>> /\ Pick(entry, order, pump.done)
    BY <1>5 DEF Reconcile, FindFails, github, outbox
  <2>2. entry[e].known => comments[e] = 1
    BY <1>0 DEF Sound
  <2> QED BY <1>1, <1>2, <2>1, <2>2, DrainSyncs
<1>6. CASE CreateAnswers(e)
  <2>1. /\ comments' = [comments EXCEPT ![e] = @ + 1] /\ shown' = [shown EXCEPT ![e] = pump.body]
        /\ entry' = Created(e)
        /\ disk' = entry' \/ disk' = disk
        /\ Pick(entry', order, pump.done)
    BY <1>6 DEF CreateAnswers, Post, SaveAndGoOn, Save
  <2>2. comments[e] = 0
    BY <1>0, <1>6 DEF Counted, OneComment, CreateAnswers
  <2>3. /\ comments'[e] = 1 /\ shown'[e] = pump.body
        /\ \A f \in Entries : f # e => comments'[f] = comments[f] /\ shown'[f] = shown[f]
    BY <1>0, <2>1, <2>2
  <2>4. ChangesTo(entry', e) /\ entry'[e].synced = pump.body.rev
    <3>1. entry' = Created(e)
      BY <1>6 DEF CreateAnswers, SaveAndGoOn
    <3> QED BY <1>0, <3>1, DrainChanges
  <2> QED BY <1>1, <2>1, <2>2, <2>3, <2>4, DrainSyncs
<1>7. CASE CreateFails(e)
  <2>1. /\ UNCHANGED <<entry, disk>> /\ Pick(entry, order, pump.done)
        /\ \/ Post(e, pump.body)
           \/ UNCHANGED <<comments, shown>>
    BY <1>7 DEF CreateFails, Abandon, outbox, github
  <2>2. comments[e] = 0
    BY <1>0, <1>7 DEF Counted, OneComment, CreateFails
  <2>3. /\ \A f \in Entries : f # e => comments'[f] = comments[f] /\ shown'[f] = shown[f]
        /\ shown'[e] = shown[e] \/ shown'[e] = pump.body
    BY <1>0, <2>1 DEF Post
  <2>4. ~entry[e].known
    BY <1>0, <2>2 DEF Sound
  <2> QED BY <1>1, <1>2, <2>1, <2>2, <2>3, <2>4, DrainSyncs
<1>8. CASE UpdateAnswers(e)
  <2>1. /\ UNCHANGED comments /\ shown' = [shown EXCEPT ![e] = pump.body]
        /\ entry' = Updated(e)
        /\ disk' = entry' \/ disk' = disk
        /\ Pick(entry', order, pump.done)
    BY <1>8 DEF UpdateAnswers, Patch, SaveAndGoOn, Save
  <2>2. comments[e] = 1
    BY <1>0, <1>1, <1>8 DEF UpdateAnswers, At, Fresh, Sound
  <2>3. shown'[e] = pump.body /\ \A f \in Entries : f # e => shown'[f] = shown[f]
    BY <1>0, <2>1
  <2>4. ChangesTo(entry', e) /\ entry'[e].synced = pump.body.rev
    <3>1. entry' = Updated(e)
      BY <1>8 DEF UpdateAnswers, SaveAndGoOn
    <3> QED BY <1>0, <3>1, DrainChanges
  <2> QED BY <1>1, <2>1, <2>2, <2>3, <2>4, DrainSyncs
<1>9. CASE UpdateFails(e)
  <2>1. /\ UNCHANGED <<entry, disk, comments>> /\ Pick(entry, order, pump.done)
        /\ shown' = shown \/ shown' = [shown EXCEPT ![e] = pump.body]
    BY <1>9 DEF UpdateFails, Patch, outbox
  <2>2. entry[e].known => comments[e] = 1
    BY <1>0 DEF Sound
  <2>3. /\ \A f \in Entries : f # e => shown'[f] = shown[f]
        /\ shown'[e] = shown[e] \/ shown'[e] = pump.body
    BY <1>0, <2>1
  <2> QED BY <1>1, <1>2, <2>1, <2>2, <2>3, DrainSyncs
<1> QED BY <1>3, <1>4, <1>5, <1>6, <1>7, <1>8, <1>9 DEF DrainStep

\* A step that leaves drain(), GitHub and every record's position alone.
LEMMA SameSyncs ==
    ASSUME JInv, JInv', SyncInv, Alive, Alive', UNCHANGED <<entry, comments, shown>>,
           disk' = entry' \/ disk' = disk,
           \A f \in Entries : notice'[f] = notice[f] \/ (notice'[f] \in Pending /\ notice[f] \in Pending),
           UNCHANGED pump \/ pump' = Off \/ \E done : Pick(entry, order, done)
    PROVE  SyncInv'
<1>0. /\ Typed /\ Typed' /\ Counted /\ Fresh
      /\ \A f \in Entries : InMemory(f) /\ OnDisk(f) /\ Told(f)
  BY DEF JInv, SyncInv
<1>1. \A f \in Entries : Grows(f)
  BY <1>0, SameGrows
<1>2. \A f \in Entries : InMemory(f)' /\ OnDisk(f)' /\ Told(f)'
  BY <1>0, <1>1, GrowsKeeps
<1>3. \A f \in Entries : notice'[f] = "synced" => notice[f] = "synced"
  BY DEF Pending, Waiting
<1>4. Fresh'
  <2>1. CASE UNCHANGED pump
    BY <1>0, <1>3, <2>1 DEF Fresh, Working, Typed
  <2>2. CASE pump' = Off
    BY <2>2 DEF Fresh, Working, Off
  <2>3. ASSUME NEW done, Pick(entry, order, done) PROVE Fresh'
    <3>1. \A f \in Entries : entry'[f].synced <= entry'[f].rev
      BY <1>1 DEF Grows, Sound
    <3> QED BY <1>0, <2>3, <3>1, FreshPick DEF Typed
  <2> QED BY <2>1, <2>2, <2>3
<1> QED BY <1>2, <1>4 DEF SyncInv

\* touch(): the revision moves on, and with it the record is dirty.
LEMMA TouchSyncs ==
    ASSUME JInv, JInv', SyncInv, Alive, Alive', NEW e \in Entries, NEW s \in Statuses \ {"absent"},
           entry[e].status \notin Terminal, entry[e].status # "absent",
           entry' = Touched(e, s), UNCHANGED <<comments, shown>>,
           disk' = entry' \/ disk' = disk,
           \A f \in Entries : \/ notice'[f] = notice[f]
                              \/ f = e /\ disk' = entry' /\ s \in Terminal /\ notice'[f] \in Pending,
           UNCHANGED pump \/ \E done : Pick(entry', order, done)
    PROVE  SyncInv'
<1>0. /\ Typed /\ Typed' /\ Counted /\ Fresh
      /\ \A f \in Entries : InMemory(f) /\ OnDisk(f) /\ Told(f)
  BY DEF JInv, SyncInv
<1>1. /\ entry \in [Entries -> Record] /\ entry[e] \in Record
      /\ entry[e].rev \in Nat /\ entry[e].synced \in Nat
  BY <1>0, FieldTypes DEF Typed
<1>2. /\ \A f \in Entries : f # e => entry'[f] = entry[f]
      /\ entry'[e].status = s /\ entry'[e].rev = entry[e].rev + 1
      /\ entry'[e].synced = entry[e].synced /\ entry'[e].known = entry[e].known
  BY <1>1 DEF Touched, Record
<1>3. \A f \in Entries : disk'[f] = entry'[f] \/ disk'[f] = disk[f]
  OBVIOUS
<1>4. Sound(entry, e)' /\ entry'[e].synced # entry'[e].rev
  BY <1>0, <1>1, <1>2 DEF InMemory, Sound
<1>5. disk[e].status \notin Terminal /\ notice[e] \notin Pending \cup {"synced"}
  <2>1. disk[e].status \in Terminal => entry[e].status = disk[e].status
    BY <1>0, AsShownFields DEF InMemory
  <2> QED BY <1>0, <2>1 DEF Told
<1>6. ASSUME NEW f \in Entries, f # e PROVE InMemory(f)' /\ OnDisk(f)' /\ Told(f)'
  <2>1. Grows(f)
    BY <1>0, <1>2, <1>3, <1>6, SameGrows
  <2> QED BY <1>0, <2>1, GrowsKeeps
<1>7. InMemory(e)' /\ OnDisk(e)' /\ Told(e)'
  <2>1. disk'[e] = entry'[e] \/ disk'[e].status \notin Terminal
    BY <1>3, <1>5
  <2>2. InMemory(e)'
    BY <1>1, <1>2, <1>4, <2>1 DEF InMemory
  <2>3. OnDisk(e)'
    <3>1. CASE disk'[e] = entry'[e]
      BY <1>4, <3>1 DEF OnDisk, Sound
    <3>2. CASE disk'[e] = disk[e]
      BY <1>0, <1>5, <3>2 DEF OnDisk, Sound
    <3> QED BY <1>3, <3>1, <3>2
  <2>4. Told(e)'
    BY <1>2, <1>5 DEF Told, Pending, Waiting
  <2> QED BY <2>2, <2>3, <2>4
<1>8. Fresh'
  <2>1. CASE UNCHANGED pump
    <3>1. \A f \in Entries : notice'[f] = "synced" => notice[f] = "synced" /\ f # e
      BY <1>5 DEF Pending, Waiting
    <3>2. Working => pump.at \in Entries
      BY <1>0 DEF Typed, Working
    <3>3. Working => \/ AsShown(entry'[pump.at]) = AsShown(entry[pump.at])
                     \/ entry'[pump.at].rev > entry[pump.at].rev /\ notice'[pump.at] # "synced"
      BY <1>1, <1>2, <3>1, <3>2
    <3>4. Working => entry'[pump.at].synced = entry[pump.at].synced
      BY <1>2, <3>2
    <3>5. Working /\ pump.pc = "updating" => entry'[pump.at].known
      BY <1>0, <1>2, <3>2 DEF Fresh
    <3>6. Working' => Working
      BY <2>1 DEF Working
    <3> QED BY <1>0, <2>1, <3>1, <3>2, <3>3, <3>4, <3>5, <3>6, FreshStays
  <2>2. ASSUME NEW done, Pick(entry', order, done) PROVE Fresh'
    <3>1. \A f \in Entries : entry'[f].synced <= entry'[f].rev
      <4> SUFFICES ASSUME NEW f \in Entries PROVE entry'[f].synced <= entry'[f].rev
        OBVIOUS
      <4> QED BY <1>0, <1>2, <1>4 DEF InMemory, Sound
    <3> QED BY <1>0, <2>2, <3>1, FreshPick DEF Typed
  <2> QED BY <2>1, <2>2
<1> QED BY <1>6, <1>7, <1>8 DEF SyncInv

\* begin(): a new record is dirty, and nobody has been told of it.
LEMMA BeginSyncs ==
    ASSUME JInv, JInv', SyncInv, NEW e \in Entries, Begin(e)
    PROVE  SyncInv'
<1> DEFINE r == [Absent EXCEPT !.status = "accepted", !.rev = 1]
           m == [entry EXCEPT ![e] = r]
<1>0. /\ Typed /\ Typed' /\ Counted /\ Fresh /\ entry \in [Entries -> Record]
      /\ \A f \in Entries : InMemory(f) /\ OnDisk(f) /\ Told(f)
  BY DEF JInv, SyncInv, Typed
<1>1. /\ Alive /\ Alive' /\ entry[e].status = "absent" /\ UNCHANGED <<comments, shown, notice>>
  BY DEF Begin, Journaled, Alive, github
<1>2. CASE Save(entry, FALSE) /\ UNCHANGED <<order, entry, runs, work, pump, scanAfter>>
  BY <1>1, <1>2, SameSyncs DEF Save
<1>3. CASE entry' = m /\ Save(m, TRUE) /\ order' = Append(order, e) /\ Flush(m, order')
  <2>1. /\ disk' = entry' /\ entry'[e] = r /\ \A f \in Entries : f # e => entry'[f] = entry[f]
    BY <1>0, <1>3 DEF Save
  <2>2. r.status = "accepted" /\ r.rev = 1 /\ r.synced = 0 /\ r.known = FALSE /\ r.status \notin Terminal
    BY DEF Absent, Terminal
  <2> HIDE DEF r
  <2>3. disk[e].status = "absent" /\ "absent" \notin Terminal
    BY <1>0, <1>1 DEF Counted, DiskInMemory, Terminal
  <2>4. notice[e] \notin Pending \cup {"synced"}
    BY <1>0, <2>3 DEF Told
  <2>5. ASSUME NEW f \in Entries, f # e PROVE InMemory(f)' /\ OnDisk(f)' /\ Told(f)'
    <3>1. Grows(f)
      BY <1>0, <1>1, <2>1, <2>5, SameGrows
    <3> QED BY <1>0, <1>1, <2>5, <3>1, GrowsKeeps
  <2>6. InMemory(e)' /\ OnDisk(e)' /\ Told(e)'
    BY <1>1, <2>1, <2>2, <2>4 DEF InMemory, OnDisk, Told, Sound
  <2>7. Fresh'
    <3>1. CASE pump.pc = "off"
      <4>1. Pick(entry', order', {}) /\ order' \in Seq(Entries)
        BY <1>0, <1>3, <3>1 DEF Flush, Typed
      <4>2. \A f \in Entries : entry'[f].synced <= entry'[f].rev
        <5> SUFFICES ASSUME NEW f \in Entries PROVE entry'[f].synced <= entry'[f].rev
          OBVIOUS
        <5>1. Alive' /\ InMemory(f)'
          BY <1>1, <2>5, <2>6
        <5> QED BY <5>1 DEF InMemory, Sound
      <4> QED BY <1>0, <4>1, <4>2, FreshPick
    <3>2. CASE UNCHANGED pump
      <4>1. Working => pump.at \in Entries /\ pump.at # e
        BY <1>0, <1>1 DEF Typed, Working, Counted, Known
      <4>2. Working => entry'[pump.at] = entry[pump.at]
        BY <2>1, <4>1
      <4> QED BY <1>0, <1>1, <3>2, <4>1, <4>2 DEF Fresh, Working
    <3> QED BY <1>3, <3>1, <3>2 DEF Flush
  <2> QED BY <2>5, <2>6, <2>7 DEF SyncInv
<1> QED BY <1>2, <1>3 DEF Begin

\* syncNotice() reports what the comment shows.
LEMMA NoticeSyncs ==
    ASSUME JInv, JInv', SyncInv, NEW e \in Entries, NoticeSent(e)
    PROVE  SyncInv'
<1>0. /\ Typed /\ Typed' /\ Counted /\ Fresh
      /\ \A f \in Entries : InMemory(f) /\ OnDisk(f) /\ Told(f)
  BY DEF JInv, SyncInv
<1>1. /\ Alive /\ Alive' /\ UNCHANGED <<entry, disk, pump, comments, shown>>
      /\ notice[e] \in Pending /\ notice' = [notice EXCEPT ![e] = Report(e)]
  BY DEF NoticeSent, Alive, outbox, github, Pending
<1>2. /\ disk[e].status \in Terminal /\ AsShown(entry[e]) = AsShown(disk[e])
      /\ entry[e].status = disk[e].status
  BY <1>0, <1>1, AsShownFields DEF Told, InMemory
<1>3. /\ notice'[e] \in {"synced", "pending"} /\ \A f \in Entries : f # e => notice'[f] = notice[f]
      /\ notice'[e] = "synced" => ~Dirty(entry, e)
  BY <1>0, <1>1 DEF Typed, Report
<1>4. entry[e].status # "absent"
  BY <1>2 DEF Terminal
<1>5. notice'[e] = "synced" =>
        /\ entry[e].synced = entry[e].rev /\ comments[e] = 1 /\ shown[e].status = disk[e].status
  <2> SUFFICES ASSUME notice'[e] = "synced"
               PROVE  /\ entry[e].synced = entry[e].rev
                      /\ comments[e] = 1 /\ shown[e].status = disk[e].status
    OBVIOUS
  <2>1. entry[e].synced = entry[e].rev
    BY <1>3, <1>4 DEF Dirty
  <2>2. comments[e] = 1
    BY <1>0, <1>1, <1>4, <2>1, FieldTypes DEF InMemory, Sound
  <2>3. shown[e] = AsShown(entry[e])
    BY <1>0, <1>1, <1>4, <2>1 DEF InMemory
  <2> QED BY <1>2, <2>1, <2>2, <2>3 DEF AsShown
<1>6. \A f \in Entries : InMemory(f)' /\ OnDisk(f)'
  BY <1>0, <1>1 DEF InMemory, OnDisk, Sound
<1>7. \A f \in Entries : Told(f)'
  <2> SUFFICES ASSUME NEW f \in Entries PROVE Told(f)'
    OBVIOUS
  <2>1. CASE f = e
    BY <1>1, <1>2, <1>3, <1>5, <2>1 DEF Told, Pending, Waiting
  <2>2. CASE f # e
    BY <1>0, <1>1, <1>3, <2>2 DEF Told
  <2> QED BY <2>1, <2>2
<1>8. Fresh'
  <2>1. Working => pump.at \in Entries /\ entry[pump.at].synced < pump.body.rev /\ pump.body.rev <= entry[pump.at].rev
    BY <1>0 DEF Fresh, Typed, Working
  <2>2. Working /\ pump.at = e => notice'[e] # "synced"
    BY <1>0, <1>5, <2>1, FieldTypes
  <2>3. Working /\ pump.at # e => notice'[pump.at] = notice[pump.at]
    BY <1>3, <2>1
  <2> QED BY <1>0, <1>1, <2>1, <2>2, <2>3 DEF Fresh, Working
<1> QED BY <1>6, <1>7, <1>8 DEF SyncInv

\* A POST that was given up lands: the record counted as unsynced.
LEMMA LateSyncs ==
    ASSUME JInv, JInv', SyncInv, NEW e \in Entries, LatePostLands(e)
    PROVE  SyncInv'
<1>0. /\ Typed /\ Counted /\ Fresh /\ comments \in [Entries -> 0..1] /\ shown \in [Entries -> Body]
      /\ \A f \in Entries : InMemory(f) /\ OnDisk(f) /\ Told(f)
  BY DEF JInv, SyncInv, Typed, Counted
<1>1. /\ UNCHANGED <<process, entry, disk, pump, notice>>
      /\ comments' = [comments EXCEPT ![e] = @ + 1]
      /\ shown' = [shown EXCEPT ![e] = late[e]]
  BY DEF LatePostLands, Post, outbox, clients
<1>2. comments[e] = 0 /\ comments'[e] = 1 /\ Alive' = Alive
  <2>1. comments[e] = 0
    BY <1>0 DEF Counted, OneComment, LatePostLands
  <2> QED BY <1>0, <1>1, <2>1 DEF Alive
<1>3. \A f \in Entries : f # e => comments'[f] = comments[f] /\ shown'[f] = shown[f]
  BY <1>0, <1>1
<1>4. /\ disk[e].synced = 0 /\ disk[e].status # "absent" => disk[e].rev > 0
      /\ Alive => entry[e].synced = 0 /\ (entry[e].status # "absent" => entry[e].rev > 0)
  BY <1>0, <1>2, FieldTypes DEF InMemory, OnDisk, Sound
<1>5. Fresh'
  BY <1>0, <1>1 DEF Fresh, Working
<1>6. ASSUME NEW f \in Entries, f # e PROVE InMemory(f)' /\ OnDisk(f)' /\ Told(f)'
  BY <1>0, <1>1, <1>2, <1>3, <1>6 DEF InMemory, OnDisk, Told, Sound
<1>7. InMemory(e)' /\ OnDisk(e)' /\ Told(e)'
  <2>1. "absent" \notin Terminal
    BY DEF Terminal
  <2>2. InMemory(e)'
    BY <1>0, <1>1, <1>2, <1>4 DEF InMemory, Sound
  <2>3. OnDisk(e)'
    BY <1>0, <1>1, <1>2, <1>4, <2>1 DEF OnDisk, Sound
  <2>4. Told(e)'
    BY <1>0, <1>1, <1>2 DEF Told
  <2> QED BY <2>2, <2>3, <2>4
<1> QED BY <1>5, <1>6, <1>7 DEF SyncInv

\* The process ends: what is on disk stays true of GitHub.
LEMMA ExitSyncs ==
    ASSUME JInv, JInv', SyncInv, Exit
    PROVE  SyncInv'
<1>0. /\ Typed /\ Counted /\ Fresh /\ comments \in [Entries -> 0..1] /\ shown \in [Entries -> Body]
      /\ \A f \in Entries : InMemory(f) /\ OnDisk(f) /\ Told(f)
  BY DEF JInv, SyncInv, Typed, Counted
<1>1. /\ Alive /\ ~Alive' /\ pump' = Off /\ disk' = disk
      /\ notice' = [e \in Entries |-> IF notice[e] \in {"synced", "pending"} THEN notice[e] ELSE "none"]
  BY DEF Exit, Alive, outbox
<1>2. ASSUME NEW f \in Entries
      PROVE  /\ comments[f] = 1 => comments'[f] = 1
             /\ shown'[f] = shown[f] \/ comments[f] = 0 \/ (Working /\ pump.at = f /\ shown'[f] = pump.body)
  <2>1. CASE pump.pc = "creating"
    <3>1. Abandon(pump.at, pump.body) /\ pump.at \in Entries /\ At("creating", pump.at)
      BY <1>0, <1>1, <2>1 DEF Exit, Typed, At
    <3>2. comments[pump.at] = 0
      BY <1>0, <3>1 DEF Counted, OneComment
    <3> QED BY <1>0, <3>1, <3>2 DEF Abandon, Post, github
  <2>2. CASE pump.pc = "updating"
    <3>1. UNCHANGED comments /\ (shown' = shown \/ shown' = [shown EXCEPT ![pump.at] = pump.body])
      BY <2>2 DEF Exit, Patch
    <3> QED BY <1>0, <2>2, <3>1 DEF Working, Typed
  <2>3. CASE pump.pc \notin {"creating", "updating"}
    BY <2>3 DEF Exit, github
  <2> QED BY <2>1, <2>2, <2>3
<1>3. ASSUME NEW f \in Entries PROVE OnDisk(f)'
  <2>1. Sound(disk, f)'
    BY <1>0, <1>1, <1>2 DEF OnDisk, Sound
  <2>2. ASSUME disk[f].status \in Terminal, disk[f].synced = disk[f].rev
        PROVE  shown'[f] = AsShown(disk[f])
    <3>1. shown[f] = AsShown(disk[f]) /\ comments[f] = 1
      BY <1>0, <2>2, FieldTypes DEF OnDisk, Sound, Terminal
    <3>2. entry[f].rev = disk[f].rev /\ disk[f].synced <= entry[f].synced
      BY <1>0, <1>1, <2>2, AsShownFields DEF InMemory
    <3>3. ~(Working /\ pump.at = f)
      BY <1>0, <2>2, <3>2, FieldTypes DEF Fresh
    <3> QED BY <1>2, <3>1, <3>3
  <2> QED BY <1>1, <2>1, <2>2 DEF OnDisk
<1>4. ASSUME NEW f \in Entries PROVE Told(f)'
  <2>1. notice'[f] \notin Pending /\ (notice'[f] = "synced" => notice[f] = "synced")
    BY <1>1 DEF Pending, Waiting
  <2>2. ASSUME notice[f] = "synced"
        PROVE  comments'[f] = 1 /\ shown'[f].status = disk[f].status
    <3>1. comments[f] = 1 /\ disk[f].status \in Terminal /\ shown[f].status = disk[f].status
      BY <1>0, <2>2 DEF Told
    <3>2. entry[f].status = disk[f].status
      BY <1>0, <1>1, <3>1, AsShownFields DEF InMemory
    <3>3. Working /\ pump.at = f => pump.body.status = entry[f].status
      BY <1>0, <2>2 DEF Fresh
    <3> QED BY <1>2, <3>1, <3>2, <3>3
  <2> QED BY <1>0, <1>1, <2>1, <2>2 DEF Told
<1>5. Fresh' /\ \A f \in Entries : InMemory(f)'
  BY <1>1 DEF Fresh, Working, Off, InMemory
<1> QED BY <1>3, <1>4, <1>5 DEF SyncInv

\* The constructor: a record that was over is taken as it is, any other one is dirty.
LEMMA RestartSyncs ==
    ASSUME JInv, JInv', SyncInv, Restart
    PROVE  SyncInv'
<1>0. /\ Typed /\ Typed' /\ Counted
      /\ \A f \in Entries : OnDisk(f) /\ Told(f)
  BY DEF JInv, SyncInv
<1>1. /\ ~Alive /\ UNCHANGED <<pump, comments, shown, notice>>
      /\ entry' = [e \in Entries |-> Reloaded(disk[e])] /\ disk' = entry'
  BY DEF Restart, Alive, Save, github, clients
<1>2. pump.pc = "off"
  BY <1>0, <1>1 DEF Counted, PumpIsAlive
<1>3. Fresh'
  BY <1>1, <1>2 DEF Fresh, Working
<1>4. ASSUME NEW f \in Entries PROVE InMemory(f)' /\ OnDisk(f)' /\ Told(f)'
  <2>1. entry'[f] = Reloaded(disk[f]) /\ disk'[f] = entry'[f] /\ disk[f] \in Record
    BY <1>0, <1>1 DEF Typed
  <2>2. CASE disk[f].status \in Terminal \cup {"absent"}
    <3>1. entry'[f] = disk[f]
      BY <2>1, <2>2 DEF Reloaded
    <3>2. Sound(entry, f)' /\ Sound(disk, f)'
      BY <1>0, <1>1, <2>1, <3>1 DEF OnDisk, Sound
    <3>3. entry'[f].synced = entry'[f].rev /\ entry'[f].status # "absent" => shown'[f] = AsShown(entry'[f])
      BY <1>0, <1>1, <2>2, <3>1 DEF OnDisk
    <3>4. InMemory(f)' /\ OnDisk(f)'
      BY <1>0, <2>1, <3>1, <3>2, <3>3, FieldTypes DEF InMemory, OnDisk, Terminal
    <3>5. Told(f)'
      BY <1>0, <1>1, <2>1, <3>1 DEF Told
    <3> QED BY <3>4, <3>5
  <2>3. CASE disk[f].status \notin Terminal \cup {"absent"}
    <3>1. /\ entry'[f].rev = disk[f].rev + 1 /\ entry'[f].synced = disk[f].synced
          /\ entry'[f].known = disk[f].known
      BY <2>1, <2>3 DEF Reloaded, Record
    <3>2. disk[f].synced <= disk[f].rev /\ disk[f].rev \in Nat /\ disk[f].synced \in Nat
      BY <1>0, FieldTypes DEF OnDisk, Sound
    <3>3. Sound(entry, f)' /\ Sound(disk, f)' /\ entry'[f].synced # entry'[f].rev
      BY <1>0, <1>1, <2>1, <3>1, <3>2 DEF OnDisk, Sound
    <3>4. InMemory(f)' /\ OnDisk(f)'
      BY <2>1, <3>1, <3>2, <3>3 DEF InMemory, OnDisk
    <3>5. Told(f)'
      BY <1>0, <1>1, <2>3 DEF Told
    <3> QED BY <3>4, <3>5
  <2> QED BY <2>2, <2>3
<1> QED BY <1>3, <1>4 DEF SyncInv

\* The empty journal.
LEMMA InitSyncInv == Init => SyncInv
<1> SUFFICES ASSUME Init PROVE SyncInv
  OBVIOUS
<1>1. Fresh
  BY DEF Init, Fresh, Working, Off
<1>2. \A e \in Entries : entry[e] = Absent /\ disk[e] = Absent /\ notice[e] = "none"
  BY DEF Init
<1>3. Absent.status = "absent" /\ Absent.synced = 0 /\ Absent.rev = 0 /\ Absent.known = FALSE
  BY DEF Absent
<1> QED BY <1>1, <1>2, <1>3 DEF SyncInv, InMemory, OnDisk, Told, Sound, Pending, Waiting, Terminal

\* Every step keeps memory, disk and GitHub in agreement.
LEMMA NextSyncInv == JInv /\ JInv' /\ SyncInv /\ [Next]_vars => SyncInv'
<1> SUFFICES ASSUME JInv, JInv', SyncInv, [Next]_vars PROVE SyncInv'
  OBVIOUS
<1>0. /\ Typed /\ Counted /\ notice \in [Entries -> Waiting \cup {"none", "firstOver", "secondOver", "synced", "pending"}]
      /\ \A f \in Entries : Told(f) /\ InMemory(f)
  BY DEF JInv, Typed, SyncInv
<1>1. ASSUME NEW e \in Entries, NEW s \in {"queued", "running"}, Observe(e, s) PROVE SyncInv'
  <2>1. /\ Alive /\ Alive' /\ UNCHANGED <<comments, shown, notice, pump>> /\ entry' = Touched(e, s)
    BY <1>1 DEF Observe, Alive, github, clients, Save
  <2>2. disk' = entry' \/ disk' = disk
    BY <1>1 DEF Observe, Save
  <2>3. entry[e].status # "absent" /\ s \in Statuses \ {"absent"}
    BY <1>0, <1>1 DEF Counted, DiskInMemory, AbsentIsNew, Observe, Statuses
  <2>4. entry[e].status \notin Terminal
    BY <1>1 DEF Observe
  <2> QED BY <2>1, <2>2, <2>3, <2>4, TouchSyncs
<1>2. ASSUME NEW e \in Entries, NEW s \in {"completed", "cancelled", "failed"}, Finish(e, s) PROVE SyncInv'
  <2>1. /\ Alive /\ Alive' /\ UNCHANGED <<comments, shown>> /\ entry' = Touched(e, s)
        /\ entry[e].status \notin Terminal
    BY <1>2 DEF Finish, Alive, github
  <2>2. entry[e].status # "absent" /\ s \in Statuses \ {"absent"} /\ s \in Terminal
    BY <1>0, <1>2 DEF Counted, DiskInMemory, AbsentIsNew, Finish, Statuses, Terminal
  <2>3. CASE Save(entry', TRUE) /\ Flush(entry', order) /\ notice' = [notice EXCEPT ![e] = "first"]
    <3>1. disk' = entry' /\ (UNCHANGED pump \/ Pick(entry', order, {}))
      BY <2>3 DEF Save, Flush
    <3>2. notice'[e] \in Pending /\ \A f \in Entries : f # e => notice'[f] = notice[f]
      BY <1>0, <2>3 DEF Pending, Waiting
    <3> QED BY <2>1, <2>2, <3>1, <3>2, TouchSyncs
  <2>4. CASE Save(entry', FALSE) /\ UNCHANGED <<pump, scanAfter, notice>>
    <3>1. disk' = disk
      BY <2>4 DEF Save
    <3> QED BY <2>1, <2>2, <2>4, <3>1, TouchSyncs
  <2> QED BY <1>2, <2>3, <2>4 DEF Finish
<1>3. ASSUME NEW e \in Entries, SyncOnceMore(e) PROVE SyncInv'
  <2>1. /\ Alive /\ Alive' /\ UNCHANGED <<entry, comments, shown, disk>>
        /\ UNCHANGED pump \/ Pick(entry, order, {})
    BY <1>3 DEF SyncOnceMore, Alive, outbox, github, Flush
  <2>2. \A f \in Entries : notice'[f] = notice[f] \/ (notice'[f] \in Pending /\ notice[f] \in Pending)
    BY <1>0, <1>3 DEF SyncOnceMore, Pending, Waiting
  <2> QED BY <2>1, <2>2, SameSyncs
<1>4. CASE PumpEnds
  <2>1. /\ Alive /\ Alive' /\ UNCHANGED <<entry, comments, shown, disk>> /\ pump' = Off
    BY <1>4 DEF PumpEnds, Alive, outbox, github
  <2>2. \A f \in Entries : notice'[f] = notice[f] \/ (notice'[f] \in Pending /\ notice[f] \in Pending)
    BY <1>0, <1>4 DEF PumpEnds, Pending, Waiting
  <2> QED BY <2>1, <2>2, SameSyncs
<1>5. CASE TimerFires
  <2>1. /\ Alive /\ Alive' /\ UNCHANGED <<entry, comments, shown, disk, notice>>
        /\ Pick(entry, order, {})
    BY <1>5 DEF TimerFires, Alive, outbox, github, clients, Flush
  <2> QED BY <2>1, SameSyncs
<1>6. CASE Close
  <2>1. /\ Alive /\ Alive' /\ UNCHANGED <<entry, comments, shown, notice, pump>>
        /\ disk' = entry' \/ disk' = disk
    BY <1>6 DEF Close, Alive, github, clients, Save
  <2> QED BY <2>1, SameSyncs
<1>7. CASE UNCHANGED vars
  <2> USE <1>7 DEF vars, outbox, github, clients
  <2>1. Fresh'
    BY DEF SyncInv, Fresh, Working
  <2>2. \A e \in Entries : InMemory(e)' /\ OnDisk(e)' /\ Told(e)'
    BY DEF SyncInv, InMemory, OnDisk, Told, Sound, Alive
  <2> QED BY <2>1, <2>2 DEF SyncInv
<1> QED BY <1>1, <1>2, <1>3, <1>4, <1>5, <1>6, <1>7, DrainKeepsSync, BeginSyncs, NoticeSyncs,
           LateSyncs, ExitSyncs, RestartSyncs DEF Next, RunStep

\* Memory, disk and GitHub agree in every state the journal reaches.
THEOREM SyncInvariance == Spec => []SyncInv
<1> QED BY InitSyncInv, JournalInvariance, NextSyncInv, PTL DEF Spec

\* What the journal counts as synced is what the comment on GitHub shows, revision and
\* status, in every state of a running process.
THEOREM SyncedAlwaysShown == Spec => []SyncedIsShown
<1>1. JInv /\ SyncInv => SyncedIsShown
  <2> SUFFICES ASSUME JInv, SyncInv, Alive, NEW e \in Entries,
                      entry[e].status # "absent", ~Dirty(entry, e)
               PROVE  comments[e] = 1 /\ shown[e] = [status |-> entry[e].status, rev |-> entry[e].rev]
    BY DEF SyncedIsShown
  <2>1. Typed /\ InMemory(e) /\ entry[e].synced = entry[e].rev
    BY DEF JInv, SyncInv, Dirty
  <2>2. comments[e] = 1
    BY <2>1, FieldTypes DEF InMemory, Sound
  <2> QED BY <2>1, <2>2 DEF InMemory, AsShown
<1> QED BY <1>1, JournalInvariance, SyncInvariance, PTL

\* A user who was told "synced" finds the final status in the comment, after restarts too.
THEOREM NoticeAlwaysHonest == Spec => []NoticeIsHonest
<1>1. SyncInv => NoticeIsHonest
  BY DEF SyncInv, Told, NoticeIsHonest
<1> QED BY <1>1, SyncInvariance, PTL

=============================================================================
