---------------------------- MODULE BridgeProofs ----------------------------
(***************************************************************************)
(* Theorems about the components around the session, for any number of     *)
(* messages, handlers, tool calls and events: AutoApprove, Gateway and the *)
(* rendering of a turn.                                                    *)
(***************************************************************************)
EXTENDS Turn, Gateway, AutoApprove, FiniteSetTheorems, SequenceTheorems, TLAPS

-----------------------------------------------------------------------------
(* AutoApprove.  The entry of the cache, and every invocation that is      *)
(* still reading, has the rules r of the files of the directories S, those *)
(* whose read succeeded, and the times s from before they were read.  What *)
(* that says of the files D, the invocations J and the history U is stated *)
(* for values, so that the lemmas hold of any two states.                  *)

Busy(j) == j.at \in {"stat", "read"}

\* An invocation that saw file d with the time that s has for it, by a stat that succeeded.
SawSame(J, c, d, s) ==
    /\ Busy(J[c])
    /\ d \in DOMAIN J[c].stamps \ J[c].unstat /\ J[c].stamps[d] = s[d]

\* A file that still has its time has no rule that is missing in r.
Covers(D, S, s, r) ==
    \A d \in S : D[d].stamp = s[d] =>
        D[d].rules.allow \subseteq r.allow /\ D[d].rules.deny \subseteq r.deny

\* What file d has denied to an invocation all along is denied by r, if that invocation
\* saw the file with the same time.
Denies(J, U, S, s, r) ==
    \A d \in S, c \in Calls : SawSame(J, c, d, s) => U[c].deny[d] \subseteq r.deny

\* A rule is one of file d, or was one after the time in s.
AllowedBy(D, J, U, t, d, s) ==
    /\ t \in D[d].rules.allow \/ s[d] < D[d].stamp
    /\ \A c \in Calls : SawSame(J, c, d, s) => t \in U[c].allow[d]
DeniedBy(D, t, d, s) == t \in D[d].rules.deny \/ s[d] < D[d].stamp

Sourced(D, J, U, S, s, r) ==
    /\ \A t \in r.allow : \E d \in S : AllowedBy(D, J, U, t, d, s)
    /\ \A t \in r.deny : \E d \in S : DeniedBy(D, t, d, s)

Loaded(D, J, U, R, S, s, r) ==
    /\ Covers(D, S, s, r)
    /\ Denies(J, U, S, s, r)
    /\ R = {} => Sourced(D, J, U, S, s, r)

\* Times only grow, unless a file is removed.
Past(D, R, k, s) ==
    \A d \in DOMAIN s : s[d] <= k /\ (R = {} => s[d] <= D[d].stamp)

\* The files an invocation has read, and those of the entry of the cache.
Got(j) == 1..(j.next - 1) \ j.unread
Kept == 1..rulesCache.dirs \ rulesCache.unread

\* The rules that are read are those of the files since the question.
OwnRules(u, S, r) ==
    /\ \A d \in S : u.deny[d] \subseteq r.deny
    /\ \A t \in r.allow : \E d \in S : t \in u.allow[d]

JudgeInv(c) ==
    LET j == judge[c] IN
    /\ Past(disk, removed, edits, j.stamps)
    /\ DOMAIN j.stamps \subseteq 1..j.dirs
    /\ j.at = "stat" => j.next = 1 /\ j.rules = NoRules /\ j.unread = {}
    /\ j.unread \subseteq 1..(j.next - 1)
    /\ OwnRules(during[c], Got(j), j.rules)
    /\ j.at = "read" => DOMAIN j.stamps = 1..j.dirs /\ j.next <= j.dirs
    /\ \A d \in Dirs : /\ during[c].deny[d] \subseteq disk[d].rules.deny
                       /\ disk[d].rules.allow \subseteq during[c].allow[d]
    /\ Loaded(disk, judge, during, removed, Got(j), j.stamps, j.rules)

EntryInv ==
    /\ Past(disk, removed, edits, rulesCache.stamps)
    /\ DOMAIN rulesCache.stamps = 1..rulesCache.dirs
    /\ Loaded(disk, judge, during, removed, Kept, rulesCache.stamps, rulesCache.rules)

ApproveInv ==
    /\ ApproveTypeOK
    /\ \A d \in Dirs : disk[d].stamp <= edits
    /\ \A c \in Calls : Busy(judge[c]) => JudgeInv(c)
    /\ EntryInv
    /\ StandingDenyWins

\* Rules stay loaded when no invocation sees more than before.
LEMMA LoadedKept ==
    ASSUME NEW D, NEW J, NEW K, NEW U, NEW V, NEW R, NEW S, NEW s, NEW r,
           Loaded(D, J, U, R, S, s, r),
           \A c \in Calls, d \in S : SawSame(K, c, d, s) => SawSame(J, c, d, s) /\ V[c] = U[c]
    PROVE  Loaded(D, K, V, R, S, s, r)
<1>1. Denies(K, V, S, s, r)
  BY DEF Loaded, Denies
<1>2. ASSUME R = {} PROVE Sourced(D, K, V, S, s, r)
  <2>1. Sourced(D, J, U, S, s, r)
    BY <1>2 DEF Loaded
  <2>2. ASSUME NEW t, NEW d \in S, AllowedBy(D, J, U, t, d, s)
        PROVE  AllowedBy(D, K, V, t, d, s)
    BY <2>2 DEF AllowedBy
  <2> QED BY <2>1, <2>2 DEF Sourced
<1> QED BY <1>1, <1>2 DEF Loaded

\* Invocation c sees file e as it is, and no other invocation sees more than before.
SeesMore(D, J, K, U, S, s, c, e) ==
    /\ \A d \in S : s[d] \in Nat /\ D[d].stamp \in Nat
    /\ \A b \in Calls, d \in S : SawSame(K, b, d, s) =>
         SawSame(J, b, d, s) \/ (b = c /\ d = e /\ s[d] = D[d].stamp)
    /\ \A d \in S : /\ U[c].deny[d] \subseteq D[d].rules.deny
                      /\ D[d].rules.allow \subseteq U[c].allow[d]

\* File e is written, with a time later than those of s, or removed.
FileChanges(D, E, J, U, V, R, Q, S, s, e) ==
    /\ \A d \in Dirs \ {e} : E[d] = D[d]
    /\ E[e].rules = NoRules \/ \A d \in DOMAIN s : s[d] < E[e].stamp
    /\ Q = {} => R = {} /\ \A d \in DOMAIN s : s[d] < E[e].stamp
    /\ S \subseteq DOMAIN s
    /\ \A d \in DOMAIN s : s[d] \in Nat
    /\ \A d \in Dirs : E[d].stamp \in Nat
    /\ \A b \in Calls, d \in S : SawSame(J, b, d, s) =>
         V[b].deny[d] \subseteq U[b].deny[d] /\ U[b].allow[d] \subseteq V[b].allow[d]

\* Rules stay loaded when an invocation sees one file more, as it is.
LEMMA LoadedSeen ==
    ASSUME NEW D, NEW J, NEW U, NEW R, NEW S \in SUBSET Dirs, NEW s, NEW r,
           NEW c \in Calls, NEW e, NEW K,
           Loaded(D, J, U, R, S, s, r),
           SeesMore(D, J, K, U, S, s, c, e)
    PROVE  Loaded(D, K, U, R, S, s, r)
<1> USE DEF SeesMore
<1>1. Denies(K, U, S, s, r)
  BY DEF Loaded, Denies, Covers
<1>2. ASSUME R = {} PROVE Sourced(D, K, U, S, s, r)
  <2>1. Sourced(D, J, U, S, s, r)
    BY <1>2 DEF Loaded
  <2>2. ASSUME NEW t, NEW d \in S, AllowedBy(D, J, U, t, d, s)
        PROVE  AllowedBy(D, K, U, t, d, s)
    <3>1. ASSUME NEW b \in Calls, SawSame(K, b, d, s) PROVE t \in U[b].allow[d]
      <4>1. CASE SawSame(J, b, d, s)
        BY <2>2, <4>1 DEF AllowedBy
      <4>2. CASE b = c /\ d = e /\ s[d] = D[d].stamp
        BY <2>2, <4>2 DEF AllowedBy
      <4> QED BY <3>1, <4>1, <4>2
    <3> QED BY <2>2, <3>1 DEF AllowedBy
  <2> QED BY <2>1, <2>2 DEF Sourced
<1> QED BY <1>1, <1>2 DEF Loaded

\* Rules stay loaded when a file is written or removed.
LEMMA LoadedDisk ==
    ASSUME NEW D, NEW E, NEW J, NEW U, NEW V, NEW R, NEW Q, NEW S \in SUBSET Dirs, NEW s, NEW r,
           NEW e \in Dirs,
           Loaded(D, J, U, R, S, s, r),
           FileChanges(D, E, J, U, V, R, Q, S, s, e)
    PROVE  Loaded(E, J, V, Q, S, s, r)
<1> USE DEF FileChanges
<1>0. \A d \in S : d \in Dirs /\ d \in DOMAIN s
  OBVIOUS
<1>1. Covers(E, S, s, r)
  <2> SUFFICES ASSUME NEW d \in S, E[d].stamp = s[d]
               PROVE  E[d].rules.allow \subseteq r.allow /\ E[d].rules.deny \subseteq r.deny
    BY DEF Covers
  <2>1. CASE d = e
    <3>1. CASE E[e].rules = NoRules
      BY <2>1, <3>1 DEF NoRules
    <3>2. CASE \A x \in DOMAIN s : s[x] < E[e].stamp
      BY <1>0, <2>1, <3>2
    <3> QED BY <3>1, <3>2
  <2>2. CASE d # e
    BY <1>0, <2>2 DEF Loaded, Covers
  <2> QED BY <2>1, <2>2
<1>2. Denies(J, V, S, s, r)
  BY DEF Loaded, Denies
<1>3. ASSUME Q = {} PROVE Sourced(E, J, V, S, s, r)
  <2>1. Sourced(D, J, U, S, s, r)
    BY <1>3 DEF Loaded
  <2>2. ASSUME NEW t, NEW d \in S, AllowedBy(D, J, U, t, d, s)
        PROVE  AllowedBy(E, J, V, t, d, s)
    BY <1>0, <1>3, <2>2 DEF AllowedBy
  <2>3. ASSUME NEW t, NEW d \in S, DeniedBy(D, t, d, s)
        PROVE  DeniedBy(E, t, d, s)
    BY <1>0, <1>3, <2>3 DEF DeniedBy
  <2> QED BY <2>1, <2>2, <2>3 DEF Sourced
<1> QED BY <1>1, <1>2, <1>3 DEF Loaded

\* Rules stay loaded when another file is read.
LEMMA LoadedMore ==
    ASSUME NEW D, NEW J, NEW U, NEW R, NEW S, NEW e, NEW s, NEW r,
           Loaded(D, J, U, R, S, s, r),
           \A c \in Calls : Busy(J[c]) =>
                /\ U[c].deny[e] \subseteq D[e].rules.deny
                /\ D[e].rules.allow \subseteq U[c].allow[e]
    PROVE  Loaded(D, J, U, R, S \cup {e}, s, [allow |-> r.allow \cup D[e].rules.allow,
                                             deny |-> r.deny \cup D[e].rules.deny])
<1> DEFINE q == [allow |-> r.allow \cup D[e].rules.allow,
                 deny |-> r.deny \cup D[e].rules.deny]
<1>1. Covers(D, S \cup {e}, s, q)
  BY DEF Loaded, Covers
<1>2. Denies(J, U, S \cup {e}, s, q)
  BY DEF Loaded, Denies, SawSame
<1>3. ASSUME R = {} PROVE Sourced(D, J, U, S \cup {e}, s, q)
  <2>1. Sourced(D, J, U, S, s, r)
    BY <1>3 DEF Loaded
  <2>2. \A t \in D[e].rules.allow : AllowedBy(D, J, U, t, e, s)
    BY DEF AllowedBy, SawSame
  <2>3. \A t \in D[e].rules.deny : DeniedBy(D, t, e, s)
    BY DEF DeniedBy
  <2> QED BY <2>1, <2>2, <2>3 DEF Sourced
<1> QED BY <1>1, <1>2, <1>3 DEF Loaded

LEMMA StampsFact ==
    \A s \in Stamps : /\ DOMAIN s \subseteq Dirs
                      /\ \A d \in DOMAIN s : s[d] \in 0..MaxEdits
BY DEF Stamps

LEMMA NewStamps ==
    ASSUME NEW D \in SUBSET Dirs, NEW s, s \in [D -> 0..MaxEdits]
    PROVE  s \in Stamps
BY DEF Stamps

LEMMA BusyFact ==
    ASSUME ApproveTypeOK, NEW c \in Calls, Busy(judge[c])
    PROVE  judge[c] \in Judging
BY DEF ApproveTypeOK, Busy, Verdict

-----------------------------------------------------------------------------
(* Type correctness of AutoApprove, one lemma for the steps that read files. *)

LEMMA AnswersTyped ==
    ASSUME ApproveTypeOK, NEW d, NEW ok, Answers(d, ok)
    PROVE  failures' \in 0..MaxFailures
BY ApproveAssumption DEF ApproveTypeOK, Answers

LEMMA SayTyped ==
    ASSUME ApproveTypeOK, NEW c \in Calls, judge[c] \in Judging, NEW r,
           NEW unstat \in SUBSET Dirs, NEW unread \in SUBSET Dirs, Say(c, r, unstat, unread)
    PROVE  judge' \in [Calls -> Judging \cup [at: {"idle"}] \cup [at: {"said"}, approved: BOOLEAN]
                                \cup Verdict]
<1>1. Approves(r, judge[c].command) \in BOOLEAN
  BY DEF Approves
<1>2. judge'[c] \in Verdict
  BY <1>1 DEF Say, Judging, ApproveTypeOK, Verdict
<1> QED BY <1>2 DEF Say, ApproveTypeOK

LEMMA StatFileTyped ==
    ASSUME ApproveTypeOK, NEW c \in Calls, NEW d \in Dirs, NEW ok \in BOOLEAN, StatFile(c, d, ok)
    PROVE  ApproveTypeOK'
<1> DEFINE j == judge[c]
           stamps == [e \in DOMAIN j.stamps \cup {d} |->
                        IF e # d THEN j.stamps[e] ELSE IF ok THEN disk[d].stamp ELSE 0]
           unstat == Failed(j.unstat, d, ok)
<1>1. j \in Judging
  BY DEF ApproveTypeOK, StatFile, Verdict
<1>2. DOMAIN j.stamps \subseteq Dirs /\ \A e \in DOMAIN j.stamps : j.stamps[e] \in 0..MaxEdits
  BY <1>1, StampsFact DEF Judging
<1>3. disk[d].stamp \in 0..MaxEdits /\ 0 \in 0..MaxEdits
  BY ApproveAssumption DEF ApproveTypeOK
<1>4. stamps \in Stamps
  <2>1. stamps \in [DOMAIN j.stamps \cup {d} -> 0..MaxEdits]
    BY <1>2, <1>3
  <2>2. DOMAIN j.stamps \cup {d} \in SUBSET Dirs
    BY <1>2
  <2> QED BY <2>1, <2>2, NewStamps
<1>5. unstat \in SUBSET Dirs
  BY <1>1 DEF Failed, Judging
<1>6. failures' \in 0..MaxFailures
  BY AnswersTyped DEF StatFile
<1>7. CASE Say(c, rulesCache.rules, unstat, rulesCache.unread)
  <2>1. rulesCache.unread \in SUBSET Dirs
    BY DEF ApproveTypeOK
  <2>2. judge' \in [Calls -> Judging \cup [at: {"idle"}] \cup [at: {"said"}, approved: BOOLEAN]
                              \cup Verdict]
    BY <1>1, <1>5, <1>7, <2>1, SayTyped
  <2> QED BY <1>6, <2>2 DEF StatFile, ApproveTypeOK
<1>8. CASE judge' = [judge EXCEPT ![c].stamps = stamps, ![c].unstat = unstat,
                         ![c].at = IF DOMAIN stamps = 1..j.dirs THEN "read" ELSE "stat"]
  <2>1. judge'[c] \in Judging
    BY <1>1, <1>4, <1>5, <1>8 DEF Judging, ApproveTypeOK
  <2> QED BY <1>6, <1>8, <2>1 DEF StatFile, ApproveTypeOK
<1> QED BY <1>7, <1>8 DEF StatFile

LEMMA ReadFileTyped ==
    ASSUME ApproveTypeOK, NEW c \in Calls, NEW ok \in BOOLEAN, ReadFile(c, ok),
           judge[c].next <= judge[c].dirs
    PROVE  ApproveTypeOK'
<1> DEFINE j == judge[c]
           rules == Read(j, ok)
           unread == Failed(j.unread, j.next, ok)
<1>1. j \in Judging
  BY DEF ApproveTypeOK, ReadFile, Verdict
<1>2. rules \in Merged
  <2>1. disk[j.next].rules \in Merged /\ NoRules \in Merged
    BY <1>1, ApproveAssumption DEF ApproveTypeOK, Judging, Merged, NoRules
  <2> QED BY <1>1, <2>1 DEF Judging, Merged, Read
<1>3. unread \in SUBSET Dirs
  BY <1>1 DEF Failed, Judging
<1>4. failures' \in 0..MaxFailures
  BY AnswersTyped DEF ReadFile
<1>5. CASE j.next < j.dirs /\ UNCHANGED rulesCache
           /\ judge' = [judge EXCEPT ![c].next = @ + 1, ![c].rules = rules, ![c].unread = unread]
  <2>1. j.next + 1 \in Dirs
    BY <1>1, <1>5, ApproveAssumption DEF Judging, Dirs
  <2>2. judge'[c] \in Judging
    BY <1>1, <1>2, <1>3, <1>5, <2>1 DEF Judging, ApproveTypeOK
  <2> QED BY <1>4, <1>5, <2>2 DEF ReadFile, ApproveTypeOK
<1>6. CASE /\ rulesCache' = [dirs |-> j.dirs, rules |-> rules, unread |-> unread,
                             stamps |-> j.stamps]
           /\ Say(c, rules, {}, unread)
  <2>1. judge' \in [Calls -> Judging \cup [at: {"idle"}] \cup [at: {"said"}, approved: BOOLEAN]
                              \cup Verdict]
    BY <1>1, <1>3, <1>6, SayTyped
  <2>2. rulesCache' \in [dirs: 0..Levels, rules: Merged, stamps: Stamps, unread: SUBSET Dirs]
    <3>1. j.dirs \in 0..Levels /\ j.stamps \in Stamps
      BY <1>1, ApproveAssumption DEF Judging, Dirs
    <3> HIDE DEF rules, unread
    <3> QED BY <1>2, <1>3, <1>6, <3>1
  <2> QED BY <1>4, <2>1, <2>2 DEF ReadFile, ApproveTypeOK
<1> QED BY <1>5, <1>6 DEF ReadFile

LEMMA DiskChangesTyped ==
    ASSUME ApproveTypeOK, NEW d \in Dirs, NEW file,
           file \in [stamp: 0..(edits + 1), rules: Rules \cup {NoRules}],
           DiskChanges(d, file), removed' \subseteq Dirs
    PROVE  ApproveTypeOK'
<1>1. edits' \in 0..MaxEdits /\ edits \in Nat
  BY ApproveAssumption DEF DiskChanges, ApproveTypeOK
<1>2. disk' \in [Dirs -> [stamp: 0..MaxEdits, rules: Rules \cup {NoRules}]]
  BY <1>1, ApproveAssumption DEF DiskChanges, ApproveTypeOK
<1>3. file.rules.allow \subseteq Text /\ file.rules.deny \subseteq Text
  BY ApproveAssumption DEF NoRules
<1>4. during' \in [Calls -> [allow: [Dirs -> SUBSET Text], deny: [Dirs -> SUBSET Text]]]
  BY <1>3 DEF DiskChanges, ApproveTypeOK
<1> QED BY <1>1, <1>2, <1>4 DEF DiskChanges, ApproveTypeOK

LEMMA DecideTyped ==
    ASSUME ApproveTypeOK, NEW c \in Calls, NEW tool \in ToolKinds, NEW input \in Inputs,
           Decide(c, tool, input)
    PROVE  ApproveTypeOK'
<1>1. judge'[c] \in [at: {"said"}, approved: BOOLEAN]
  BY ApproveAssumption DEF ApproveTypeOK, Decide
<1> QED BY <1>1 DEF ApproveTypeOK, Decide

LEMMA DecideBashTyped ==
    ASSUME ApproveTypeOK, NEW c \in Calls, NEW cmd \in Commands, NEW n \in Dirs,
           DecideBash(c, cmd, n)
    PROVE  ApproveTypeOK'
<1>1. [d \in {} |-> 0] \in Stamps
  <2>1. [d \in {} |-> 0] \in [{} -> 0..MaxEdits]
    OBVIOUS
  <2> QED BY <2>1, NewStamps
<1>2. NoRules \in Merged
  BY DEF NoRules, Merged
<1>3. [at |-> "stat", command |-> cmd, stamps |-> [d \in {} |-> 0],
       dirs |-> n, next |-> 1, rules |-> NoRules, unstat |-> {}, unread |-> {}] \in Judging
  BY <1>1, <1>2, ApproveAssumption DEF Judging, Dirs
<1>4. [at |-> "said", approved |-> FALSE] \in [at: {"said"}, approved: BOOLEAN]
  OBVIOUS
<1>5. judge' \in [Calls -> Judging \cup [at: {"idle"}] \cup [at: {"said"}, approved: BOOLEAN]
                            \cup Verdict]
  BY <1>3, <1>4 DEF ApproveTypeOK, DecideBash
<1>6. \A d \in Dirs : disk[d].rules.allow \subseteq Text /\ disk[d].rules.deny \subseteq Text
  BY ApproveAssumption DEF ApproveTypeOK, NoRules
<1>7. during' \in [Calls -> [allow: [Dirs -> SUBSET Text], deny: [Dirs -> SUBSET Text]]]
  BY <1>6 DEF ApproveTypeOK, DecideBash
<1> QED BY <1>5, <1>7 DEF ApproveTypeOK, DecideBash

-----------------------------------------------------------------------------
(* The invariant of AutoApprove. *)

\* No invocation sees more than before.
Calm ==
    /\ UNCHANGED <<disk, removed, edits>>
    /\ \A c \in Calls : Busy(judge'[c]) =>
         \/ DOMAIN judge'[c].stamps = {}
         \/ /\ Busy(judge[c])
            /\ judge'[c].stamps = judge[c].stamps /\ judge'[c].unstat = judge[c].unstat
            /\ during'[c] = during[c]

LEMMA CalmLoaded ==
    ASSUME Calm, NEW S, NEW s, NEW r, Loaded(disk, judge, during, removed, S, s, r)
    PROVE  Loaded(disk, judge', during', removed, S, s, r)
<1>1. \A c \in Calls, d \in S : SawSame(judge', c, d, s) =>
         SawSame(judge, c, d, s) /\ during'[c] = during[c]
  BY DEF Calm, SawSame
<1> QED BY <1>1, LoadedKept

LEMMA CalmJudge ==
    ASSUME Calm, NEW c \in Calls, JudgeInv(c), judge'[c] = judge[c], during'[c] = during[c]
    PROVE  JudgeInv(c)'
<1>1. Loaded(disk, judge', during', removed, Got(judge[c]), judge[c].stamps, judge[c].rules)
  BY CalmLoaded DEF JudgeInv
<1> QED BY <1>1 DEF JudgeInv, Got, Calm

LEMMA CalmEntry ==
    ASSUME Calm, EntryInv, UNCHANGED rulesCache
    PROVE  EntryInv'
<1>1. Loaded(disk, judge', during', removed, Kept, rulesCache.stamps, rulesCache.rules)
  BY CalmLoaded DEF EntryInv
<1> QED BY <1>1 DEF EntryInv, Kept, Calm

\* A verdict of rules that have what the files denied, and that the files allowed.
LEMMA VerdictHolds ==
    ASSUME ApproveInv, NEW c \in Calls, NEW r, NEW unstat, NEW unread,
           Say(c, r, unstat, unread), UNCHANGED <<during, removed>>,
           \A d \in 1..judge[c].dirs \ (unstat \cup unread) : during[c].deny[d] \subseteq r.deny,
           removed = {} /\ unstat = {} =>
             \A t \in r.allow : \E d \in 1..judge[c].dirs : t \in during[c].allow[d]
    PROVE  StandingDenyWins'
<1>1. judge \in [Calls -> Range(judge)]
  BY DEF ApproveInv, ApproveTypeOK, Range
<1> SUFFICES ASSUME NEW b \in Calls, judge'[b].at = "said", judge'[b].approved,
                    "command" \in DOMAIN judge'[b]
             PROVE  LET j == judge'[b]
                        near == 1..j.dirs IN
                    /\ \A d \in near \ (j.unstat \cup j.unread) :
                         Parts(j.command) \cap during[b].deny[d] = {}
                    /\ removed = {} /\ j.unstat = {} =>
                         j.command.segments \subseteq UNION {during[b].allow[d] : d \in near}
  BY DEF StandingDenyWins
<1>2. CASE b = c
  <2>1. /\ judge'[c].command = judge[c].command /\ judge'[c].dirs = judge[c].dirs
        /\ judge'[c].unstat = unstat /\ judge'[c].unread = unread
        /\ judge'[c].approved = Approves(r, judge[c].command)
    BY <1>1 DEF Say
  <2>2. Approves(r, judge[c].command)
    BY <1>2, <2>1
  <2> QED BY <1>2, <2>1, <2>2 DEF Approves, Candidates, Parts
<1>3. CASE b # c
  <2>1. judge'[b] = judge[b]
    BY <1>1, <1>3 DEF Say
  <2> QED BY <2>1 DEF ApproveInv, StandingDenyWins
<1> QED BY <1>2, <1>3

\* A step that gives no verdict on a command.
LEMMA VerdictsKept ==
    ASSUME StandingDenyWins, UNCHANGED removed \/ removed' # {},
           \A c \in Calls : judge'[c].at = "said" /\ "command" \in DOMAIN judge'[c] =>
                judge'[c] = judge[c] /\ during'[c] = during[c]
    PROVE  StandingDenyWins'
BY DEF StandingDenyWins

\* What is read has its time.
LEMMA GotInStamps ==
    ASSUME NEW c \in Calls, judge[c] \in Judging, JudgeInv(c)
    PROVE  Got(judge[c]) \subseteq DOMAIN judge[c].stamps
BY ApproveAssumption DEF Judging, Dirs, JudgeInv, Got

LEMMA DecideInv ==
    ASSUME ApproveInv, NEW c \in Calls, NEW tool \in ToolKinds, NEW input \in Inputs,
           Decide(c, tool, input)
    PROVE  ApproveInv'
<1>1. judge \in [Calls -> Range(judge)]
  BY DEF ApproveInv, ApproveTypeOK, Range
<1>2. judge'[c].at = "said" /\ "command" \notin DOMAIN judge'[c] /\ ~Busy(judge'[c])
  BY <1>1 DEF Decide, Busy
<1>3. \A b \in Calls \ {c} : judge'[b] = judge[b]
  BY <1>1 DEF Decide
<1>4. Calm /\ UNCHANGED <<during, rulesCache>>
  BY <1>2, <1>3 DEF Calm, Decide
<1>5. \A b \in Calls : Busy(judge'[b]) => JudgeInv(b)'
  BY <1>2, <1>3, <1>4, CalmJudge DEF ApproveInv
<1>6. EntryInv'
  BY <1>4, CalmEntry DEF ApproveInv
<1>7. StandingDenyWins'
  BY <1>2, <1>3, <1>4, VerdictsKept DEF ApproveInv, Calm
<1>8. ApproveTypeOK'
  BY DecideTyped DEF ApproveInv
<1> QED BY <1>4, <1>5, <1>6, <1>7, <1>8 DEF ApproveInv, Calm

LEMMA DecideBashInv ==
    ASSUME ApproveInv, NEW c \in Calls, NEW cmd \in Commands, NEW n \in Dirs,
           DecideBash(c, cmd, n)
    PROVE  ApproveInv'
<1>1. judge \in [Calls -> Range(judge)] /\ DOMAIN during = Calls
  BY DEF ApproveInv, ApproveTypeOK, Range
<1>2. /\ \A b \in Calls \ {c} : judge'[b] = judge[b] /\ during'[b] = during[b]
      /\ during'[c] = [allow |-> [d \in Dirs |-> disk[d].rules.allow],
                       deny |-> [d \in Dirs |-> disk[d].rules.deny]]
  BY <1>1 DEF DecideBash
<1>3. \/ judge'[c] = [at |-> "stat", command |-> cmd, stamps |-> [d \in {} |-> 0],
                      dirs |-> n, next |-> 1, rules |-> NoRules, unstat |-> {}, unread |-> {}]
      \/ judge'[c] = [at |-> "said", approved |-> FALSE]
  BY <1>1 DEF DecideBash
<1>4. DOMAIN [d \in {} |-> 0] = {}
  OBVIOUS
<1>5. Calm /\ UNCHANGED rulesCache
  BY <1>2, <1>3, <1>4 DEF Calm, DecideBash, Busy
<1>6. ASSUME Busy(judge'[c]) PROVE JudgeInv(c)'
  <2>1. judge'[c] = [at |-> "stat", command |-> cmd, stamps |-> [d \in {} |-> 0],
                      dirs |-> n, next |-> 1, rules |-> NoRules, unstat |-> {}, unread |-> {}]
    BY <1>3, <1>6 DEF Busy
  <2>2. Past(disk, removed, edits, judge'[c].stamps) /\ DOMAIN judge'[c].stamps = {}
    BY <1>4, <2>1 DEF Past
  <2>3. Got(judge'[c]) = {}
    <3>1. 1 - 1 = 0 /\ 1..0 = {}
      OBVIOUS
    <3> QED BY <2>1, <3>1 DEF Got
  <2>4. Loaded(disk, judge', during', removed, {}, judge'[c].stamps, judge'[c].rules)
    BY <2>1 DEF Loaded, Covers, Denies, Sourced, NoRules
  <2>5. OwnRules(during'[c], {}, judge'[c].rules)
    BY <2>1 DEF OwnRules, NoRules
  <2>6. UNCHANGED <<disk, removed, edits>>
    BY <1>5 DEF Calm
  <2>7. /\ judge'[c].at = "stat" /\ judge'[c].next = 1 /\ judge'[c].rules = NoRules
        /\ judge'[c].unread = {}
    BY <2>1
  <2>8. \A d \in Dirs : /\ during'[c].deny[d] \subseteq disk[d].rules.deny
                        /\ disk[d].rules.allow \subseteq during'[c].allow[d]
    BY <1>2
  <2>9. DOMAIN judge'[c].stamps \subseteq 1..judge'[c].dirs /\ {} \subseteq 1..(judge'[c].next - 1)
    BY <2>2
  <2> QED BY <2>2, <2>3, <2>4, <2>5, <2>6, <2>7, <2>8, <2>9 DEF JudgeInv
<1>7. \A b \in Calls : Busy(judge'[b]) => JudgeInv(b)'
  BY <1>2, <1>5, <1>6, CalmJudge DEF ApproveInv
<1>8. EntryInv'
  BY <1>5, CalmEntry DEF ApproveInv
<1>9. StandingDenyWins'
  <2>1. \A b \in Calls : judge'[b].at = "said" /\ "command" \in DOMAIN judge'[b] =>
                judge'[b] = judge[b] /\ during'[b] = during[b]
    BY <1>2, <1>3
  <2> QED BY <1>5, <2>1, VerdictsKept DEF ApproveInv, Calm
<1>10. ApproveTypeOK'
  BY DecideBashTyped DEF ApproveInv
<1> QED BY <1>5, <1>7, <1>8, <1>9, <1>10 DEF ApproveInv, Calm

LEMMA GitInitInv ==
    ASSUME ApproveInv, NEW d \in Dirs, GitInit(d)
    PROVE  ApproveInv'
<1>1. edits' = edits + 1 /\ edits \in Nat /\ edits < MaxEdits
  BY ApproveAssumption DEF GitInit, ApproveInv, ApproveTypeOK
<1>2. UNCHANGED <<disk, removed, judge, rulesCache, during>>
  BY DEF GitInit
<1>3. ApproveTypeOK'
  BY <1>1, <1>2, ApproveAssumption DEF GitInit, ApproveInv, ApproveTypeOK
<1>4. \A s \in Stamps : Past(disk, removed, edits, s) => Past(disk, removed, edits', s)
  BY <1>1, StampsFact, ApproveAssumption DEF Past
<1>5. \A c \in Calls : Busy(judge'[c]) => JudgeInv(c)'
  <2> SUFFICES ASSUME NEW c \in Calls, Busy(judge[c]) PROVE JudgeInv(c)'
    BY <1>2
  <2>1. judge[c].stamps \in Stamps
    BY BusyFact DEF ApproveInv, Judging
  <2> QED BY <1>2, <1>4, <2>1 DEF JudgeInv, Got, ApproveInv
<1>6. EntryInv'
  BY <1>2, <1>4 DEF EntryInv, Kept, ApproveInv, ApproveTypeOK
<1>7. \A e \in Dirs : disk'[e].stamp <= edits'
  BY <1>1, <1>2 DEF ApproveInv, ApproveTypeOK
<1> QED BY <1>2, <1>3, <1>5, <1>6, <1>7 DEF ApproveInv, StandingDenyWins

LEMMA DiskChangesInv ==
    ASSUME ApproveInv, NEW e \in Dirs, NEW file,
           file \in [stamp: 0..(edits + 1), rules: Rules \cup {NoRules}],
           DiskChanges(e, file), removed' \in {removed, removed \cup {e}},
           file.rules = NoRules \/ file.stamp = edits + 1,
           removed' = {} => file.stamp = edits + 1
    PROVE  ApproveInv'
<1>1. /\ edits \in Nat /\ edits' = edits + 1
      /\ \A d \in Dirs : disk[d].stamp \in Nat
  BY ApproveAssumption DEF DiskChanges, ApproveInv, ApproveTypeOK
<1>2. ApproveTypeOK'
  BY DiskChangesTyped DEF ApproveInv, ApproveTypeOK
<1>3. /\ disk'[e] = file /\ \A d \in Dirs \ {e} : disk'[d] = disk[d]
      /\ \A d \in Dirs : disk'[d].stamp \in Nat /\ disk'[d].stamp <= edits'
  BY <1>1 DEF DiskChanges, ApproveInv, ApproveTypeOK
<1>4. UNCHANGED <<judge, rulesCache>>
  BY DEF DiskChanges
<1>5. removed' = {} => removed = {}
  OBVIOUS
<1>6. ASSUME NEW b \in Calls, Busy(judge[b])
      PROVE  /\ \A d \in Dirs : /\ during'[b].deny[d] \subseteq during[b].deny[d]
                                /\ during[b].allow[d] \subseteq during'[b].allow[d]
                                /\ disk'[d].rules.allow \subseteq during'[b].allow[d]
                                /\ during'[b].deny[d] \subseteq disk'[d].rules.deny
  <2>1. during'[b] = [allow |-> [during[b].allow EXCEPT ![e] = @ \cup file.rules.allow],
                      deny |-> [during[b].deny EXCEPT ![e] = @ \cap file.rules.deny]]
    BY <1>6 DEF DiskChanges, Busy
  <2>2. during[b].allow \in [Dirs -> SUBSET Text] /\ during[b].deny \in [Dirs -> SUBSET Text]
    BY DEF ApproveInv, ApproveTypeOK
  <2>3. \A d \in Dirs : /\ during[b].deny[d] \subseteq disk[d].rules.deny
                        /\ disk[d].rules.allow \subseteq during[b].allow[d]
    BY <1>6 DEF ApproveInv, JudgeInv
  <2> QED BY <1>3, <2>1, <2>2, <2>3
<1>7. ASSUME NEW s \in Stamps, NEW S \in SUBSET DOMAIN s, NEW r,
             Past(disk, removed, edits, s), Loaded(disk, judge, during, removed, S, s, r)
      PROVE  Past(disk', removed', edits', s) /\ Loaded(disk', judge, during', removed', S, s, r)
  <2>1. \A d \in DOMAIN s : s[d] \in Nat /\ s[d] <= edits /\ d \in Dirs
    BY <1>7, StampsFact, ApproveAssumption DEF Past
  <2>2. Past(disk', removed', edits', s)
    BY <1>1, <1>3, <1>5, <1>7, <2>1 DEF Past
  <2>3. disk'[e].rules = NoRules \/ \A d \in DOMAIN s : s[d] < disk'[e].stamp
    BY <1>1, <1>3, <2>1
  <2>4. removed' = {} => removed = {} /\ \A d \in DOMAIN s : s[d] < disk'[e].stamp
    BY <1>1, <1>3, <1>5, <2>1
  <2>5. \A b \in Calls, d \in S : SawSame(judge, b, d, s) =>
           during'[b].deny[d] \subseteq during[b].deny[d] /\ during[b].allow[d] \subseteq during'[b].allow[d]
    BY <1>6, <1>7, <2>1 DEF SawSame
  <2>6. Loaded(disk', judge, during', removed', S, s, r)
    <3>1. FileChanges(disk, disk', judge, during, during', removed, removed', S, s, e)
      BY <1>3, <1>7, <2>1, <2>3, <2>4, <2>5 DEF FileChanges
    <3>2. S \in SUBSET Dirs
      BY <2>1
    <3> QED BY <1>7, <3>1, <3>2, LoadedDisk
  <2> QED BY <2>2, <2>6
<1>8. ASSUME NEW b \in Calls, Busy(judge[b]) PROVE JudgeInv(b)'
  <2>1. judge[b] \in Judging /\ JudgeInv(b)
    BY <1>8, BusyFact DEF ApproveInv
  <2>2. Got(judge[b]) \subseteq DOMAIN judge[b].stamps
    BY <1>8, <2>1, GotInStamps
  <2>3. /\ Past(disk', removed', edits', judge[b].stamps)
        /\ Loaded(disk', judge, during', removed', Got(judge[b]), judge[b].stamps, judge[b].rules)
    BY <1>7, <2>1, <2>2 DEF Judging, JudgeInv
  <2>4. OwnRules(during'[b], Got(judge[b]), judge[b].rules)
    <3>1. \A d \in Got(judge[b]) : d \in Dirs
      BY <2>1, <2>2, StampsFact DEF Judging
    <3> QED BY <1>6, <1>8, <2>1, <3>1 DEF OwnRules, JudgeInv
  <2> QED BY <1>4, <1>6, <1>8, <2>1, <2>3, <2>4 DEF JudgeInv, Got
<1>9. EntryInv'
  <2>1. rulesCache.stamps \in Stamps /\ Kept \in SUBSET DOMAIN rulesCache.stamps
    BY DEF ApproveInv, ApproveTypeOK, EntryInv, Kept
  <2>2. /\ Past(disk', removed', edits', rulesCache.stamps)
        /\ Loaded(disk', judge, during', removed', Kept, rulesCache.stamps, rulesCache.rules)
    BY <1>7, <2>1 DEF EntryInv, ApproveInv
  <2> QED BY <1>4, <2>2 DEF EntryInv, Kept, ApproveInv
<1>10. StandingDenyWins'
  <2>1. \A c \in Calls : judge[c].at = "said" => during'[c] = during[c]
    BY DEF DiskChanges, ApproveInv, ApproveTypeOK
  <2>2. UNCHANGED removed \/ removed' # {}
    OBVIOUS
  <2> QED BY <1>4, <2>1, <2>2, VerdictsKept DEF ApproveInv
<1> QED BY <1>2, <1>3, <1>4, <1>8, <1>9, <1>10 DEF ApproveInv

LEMMA StatFileInv ==
    ASSUME ApproveInv, NEW c \in Calls, NEW e \in Dirs, NEW ok \in BOOLEAN, StatFile(c, e, ok)
    PROVE  ApproveInv'
<1> DEFINE j == judge[c]
           stamps == [d \in DOMAIN j.stamps \cup {e} |->
                        IF d # e THEN j.stamps[d] ELSE IF ok THEN disk[e].stamp ELSE 0]
           unstat == Failed(j.unstat, e, ok)
           statted == [j EXCEPT !.stamps = stamps, !.unstat = unstat,
                                !.at = IF DOMAIN stamps = 1..j.dirs THEN "read" ELSE "stat"]
           K == [judge EXCEPT ![c] = statted]
<1>1. j \in Judging /\ JudgeInv(c) /\ j.at = "stat" /\ e \in 1..j.dirs \ DOMAIN j.stamps
  BY BusyFact DEF StatFile, ApproveInv, Busy
<1>2. /\ judge \in [Calls -> Range(judge)] /\ edits \in Nat
      /\ \A d \in Dirs : disk[d].stamp \in Nat /\ disk[d].stamp <= edits
  BY ApproveAssumption DEF ApproveInv, ApproveTypeOK, Range
<1>3. UNCHANGED <<disk, removed, edits, rulesCache, during>>
  BY DEF StatFile
<1>4. ApproveTypeOK'
  BY StatFileTyped DEF ApproveInv
<1>5. /\ K[c] = statted /\ statted.stamps = stamps /\ statted.unstat = unstat
      /\ \A b \in Calls \ {c} : K[b] = judge[b]
  BY <1>1, <1>2 DEF Judging
<1>6. ASSUME NEW s \in Stamps, NEW S \in SUBSET DOMAIN s, NEW r,
             Loaded(disk, judge, during, removed, S, s, r)
      PROVE  Loaded(disk, K, during, removed, S, s, r)
  <2>1. \A d \in S : d \in Dirs /\ s[d] \in Nat /\ disk[d].stamp \in Nat
    BY <1>2, <1>6, StampsFact, ApproveAssumption
  <2>2. \A b \in Calls, d \in S : SawSame(K, b, d, s) =>
           SawSame(judge, b, d, s) \/ (b = c /\ d = e /\ s[d] = disk[d].stamp)
    <3> SUFFICES ASSUME NEW d \in S, SawSame(K, c, d, s)
                 PROVE  SawSame(judge, c, d, s) \/ (d = e /\ s[d] = disk[d].stamp)
      BY <1>5 DEF SawSame
    <3>1. d \in DOMAIN stamps \ unstat /\ stamps[d] = s[d]
      BY <1>5 DEF SawSame
    <3>2. CASE d # e
      BY <1>1, <3>1, <3>2 DEF SawSame, Busy, Failed
    <3>3. CASE d = e
      BY <3>1, <3>3 DEF Failed
    <3> QED BY <3>2, <3>3
  <2>3. \A d \in S : /\ during[c].deny[d] \subseteq disk[d].rules.deny
                        /\ disk[d].rules.allow \subseteq during[c].allow[d]
    BY <1>1, <2>1 DEF JudgeInv
  <2>4. SeesMore(disk, judge, K, during, S, s, c, e)
    BY <2>1, <2>2, <2>3 DEF SeesMore
  <2>5. S \in SUBSET Dirs
    BY <2>1
  <2> HIDE DEF K
  <2> QED BY <1>6, <2>4, <2>5, LoadedSeen
<1>7. rulesCache.dirs \in 0..Levels /\ rulesCache.stamps \in Stamps
      /\ Kept \in SUBSET DOMAIN rulesCache.stamps
  BY DEF ApproveInv, ApproveTypeOK, EntryInv, Kept
<1>8. Loaded(disk, K, during, removed, Kept, rulesCache.stamps, rulesCache.rules)
  BY <1>6, <1>7 DEF ApproveInv, EntryInv
<1>9. ASSUME NEW b \in Calls \ {c}, Busy(judge[b])
      PROVE  Loaded(disk, K, during, removed, Got(judge[b]), judge[b].stamps, judge[b].rules)
  <2>1. judge[b] \in Judging /\ JudgeInv(b)
    BY <1>9, BusyFact DEF ApproveInv
  <2>2. Got(judge[b]) \in SUBSET DOMAIN judge[b].stamps
    BY <2>1, GotInStamps
  <2> QED BY <1>6, <2>1, <2>2 DEF Judging, JudgeInv
<1>10. CASE Say(c, rulesCache.rules, unstat, rulesCache.unread) /\ DOMAIN stamps = 1..j.dirs /\ rulesCache.stamps = stamps
  <2>1. j.dirs = rulesCache.dirs
    <3>1. 1..j.dirs = 1..rulesCache.dirs
      BY <1>10 DEF ApproveInv, EntryInv
    <3>2. j.dirs \in Nat \ {0} /\ rulesCache.dirs \in Nat
      BY <1>1, <1>7, ApproveAssumption DEF Judging, Dirs
    <3>3. j.dirs \in 1..rulesCache.dirs /\ rulesCache.dirs \in 1..j.dirs
      BY <3>1, <3>2
    <3> QED BY <3>2, <3>3
  <2>2. \A d \in 1..j.dirs \ unstat : SawSame(K, c, d, rulesCache.stamps)
    <3>1. statted.at = "read" /\ DOMAIN statted.stamps = 1..j.dirs /\ statted.stamps = rulesCache.stamps
      BY <1>1, <1>5, <1>10 DEF Judging
    <3> HIDE DEF stamps, unstat, statted, K
    <3> QED BY <1>5, <3>1 DEF SawSame, Busy
  <2>3. StandingDenyWins'
    <3>1. \A d \in 1..j.dirs \ (unstat \cup rulesCache.unread) :
             during[c].deny[d] \subseteq rulesCache.rules.deny
      BY <1>8, <2>1, <2>2 DEF Loaded, Denies, Kept
    <3>2. ASSUME removed = {}, unstat = {}, NEW t \in rulesCache.rules.allow
          PROVE  \E d \in 1..j.dirs : t \in during[c].allow[d]
      <4>1. PICK d \in Kept : AllowedBy(disk, K, during, t, d, rulesCache.stamps)
        BY <1>8, <3>2 DEF Loaded, Sourced
      <4>2. d \in 1..j.dirs \ unstat
        BY <2>1, <3>2, <4>1 DEF Kept
      <4> HIDE DEF unstat, K
      <4> QED BY <2>2, <4>1, <4>2 DEF AllowedBy
    <3> HIDE DEF stamps, unstat, statted, K
    <3> QED BY <1>3, <1>10, <3>1, <3>2, VerdictHolds
  <2>4. ~Busy(judge'[c]) /\ \A b \in Calls \ {c} : judge'[b] = judge[b]
    BY <1>2, <1>10 DEF Say, Busy
  <2>5. Calm
    BY <1>3, <2>4 DEF Calm
  <2>6. \A b \in Calls : Busy(judge'[b]) => JudgeInv(b)'
    BY <1>3, <2>4, <2>5, CalmJudge DEF ApproveInv
  <2>7. EntryInv'
    BY <1>3, <2>5, CalmEntry DEF ApproveInv
  <2> QED BY <1>2, <1>3, <1>4, <2>3, <2>6, <2>7 DEF ApproveInv
<1>11. CASE judge' = K
  <2>1. EntryInv'
    BY <1>3, <1>8, <1>11 DEF EntryInv, Kept, ApproveInv
  <2>2. ASSUME NEW b \in Calls \ {c}, Busy(judge'[b]) PROVE JudgeInv(b)'
    BY <1>3, <1>5, <1>9, <1>11, <2>2 DEF JudgeInv, Got, ApproveInv
  <2>3. JudgeInv(c)'
    <3>1. Past(disk, removed, edits, stamps)
      BY <1>1, <1>2 DEF JudgeInv, Past
    <3>2. DOMAIN stamps \subseteq 1..j.dirs /\ 1 <= j.dirs /\ 1 - 1 = 0 /\ 1..0 = {}
      BY <1>1, ApproveAssumption DEF JudgeInv, Judging, Dirs
    <3>3. /\ statted.next = 1 /\ statted.rules = NoRules /\ statted.dirs = j.dirs
          /\ statted.unread = {} /\ statted.at \in {"stat", "read"}
          /\ statted.at = "read" => DOMAIN stamps = 1..j.dirs
      BY <1>1 DEF JudgeInv, Judging
    <3>4. Got(statted) = {}
      BY <3>2, <3>3 DEF Got
    <3>5. Loaded(disk, K, during, removed, {}, stamps, NoRules)
      BY DEF Loaded, Covers, Denies, Sourced, NoRules
    <3>6. OwnRules(during[c], {}, NoRules)
      BY DEF OwnRules, NoRules
    <3>7. \A d \in Dirs : /\ during[c].deny[d] \subseteq disk[d].rules.deny
                          /\ disk[d].rules.allow \subseteq during[c].allow[d]
      BY <1>1 DEF JudgeInv
    <3>8. judge'[c] = statted /\ Got(judge'[c]) = {} /\ statted.stamps = stamps
      BY <1>5, <1>11, <3>4
    <3> HIDE DEF stamps, statted, K
    <3> QED BY <1>3, <1>11, <3>1, <3>2, <3>3, <3>5, <3>6, <3>7, <3>8 DEF JudgeInv
  <2>4. StandingDenyWins'
    <3>1. judge'[c].at # "said" /\ \A b \in Calls \ {c} : judge'[b] = judge[b]
      BY <1>1, <1>5, <1>11 DEF Judging
    <3> QED BY <1>3, <3>1, VerdictsKept DEF ApproveInv
  <2> QED BY <1>2, <1>3, <1>4, <2>1, <2>2, <2>3, <2>4 DEF ApproveInv
<1>12. \/ judge' = K
       \/ /\ Say(c, rulesCache.rules, unstat, rulesCache.unread)
          /\ DOMAIN stamps = 1..j.dirs /\ rulesCache.stamps = stamps
  <2>1. K = [judge EXCEPT ![c].stamps = stamps, ![c].unstat = unstat,
                         ![c].at = IF DOMAIN stamps = 1..j.dirs THEN "read" ELSE "stat"]
    BY <1>1, <1>2 DEF Judging
  <2> QED BY <2>1 DEF StatFile
<1> QED BY <1>10, <1>11, <1>12

LEMMA ReadFileInv ==
    ASSUME ApproveInv, NEW c \in Calls, NEW ok \in BOOLEAN, ReadFile(c, ok)
    PROVE  ApproveInv'
<1> DEFINE j == judge[c]
           rules == Read(j, ok)
           unread == Failed(j.unread, j.next, ok)
           got == 1..j.next \ unread
<1>1. j \in Judging /\ JudgeInv(c) /\ j.at = "read"
  BY BusyFact DEF ReadFile, ApproveInv, Busy
<1>2. judge \in [Calls -> Range(judge)]
  BY DEF ApproveInv, ApproveTypeOK, Range
<1>3. UNCHANGED <<disk, removed, edits, during>>
  BY DEF ReadFile
<1>4. ApproveTypeOK'
  BY <1>1, ReadFileTyped DEF ApproveInv, JudgeInv
<1>5. /\ j.next \in Dirs /\ j.dirs \in Dirs /\ j.next - 1 \in 0..Levels
      /\ (j.next - 1) + 1 = j.next /\ j.next <= j.dirs /\ DOMAIN j.stamps = 1..j.dirs
      /\ 1..j.next = 1..(j.next - 1) \cup {j.next} /\ j.next \notin 1..(j.next - 1)
      /\ j.unread \subseteq 1..(j.next - 1)
  BY <1>1, ApproveAssumption DEF Judging, Dirs, JudgeInv
<1>6. \A b \in Calls, d \in Dirs : Busy(judge[b]) =>
         /\ during[b].deny[d] \subseteq disk[d].rules.deny
         /\ disk[d].rules.allow \subseteq during[b].allow[d]
  BY DEF ApproveInv, JudgeInv
<1>7. /\ Loaded(disk, judge, during, removed, got, j.stamps, rules)
      /\ OwnRules(during[c], got, rules) /\ unread \subseteq 1..j.next
  <2>1. /\ Loaded(disk, judge, during, removed, Got(j), j.stamps, j.rules)
        /\ OwnRules(during[c], Got(j), j.rules)
    BY <1>1 DEF JudgeInv
  <2>2. unread \subseteq 1..j.next
    BY <1>5 DEF Failed
  <2>3. CASE ok
    <3>1. got = Got(j) \cup {j.next}
      BY <1>5, <2>3 DEF Got, Failed
    <3>2. rules = [allow |-> j.rules.allow \cup disk[j.next].rules.allow,
                   deny |-> j.rules.deny \cup disk[j.next].rules.deny]
      BY <2>3 DEF Read
    <3>3. Loaded(disk, judge, during, removed, Got(j) \cup {j.next}, j.stamps,
                 [allow |-> j.rules.allow \cup disk[j.next].rules.allow,
                  deny |-> j.rules.deny \cup disk[j.next].rules.deny])
      BY <1>5, <1>6, <2>1, LoadedMore
    <3>4. OwnRules(during[c], Got(j) \cup {j.next}, rules)
      BY <1>1, <1>5, <1>6, <2>1, <3>2 DEF OwnRules, Busy
    <3> HIDE DEF got, rules
    <3> QED BY <2>2, <3>1, <3>2, <3>3, <3>4
  <2>4. CASE ~ok
    <3>1. got = Got(j)
      BY <1>5, <2>4 DEF Got, Failed
    <3>2. rules.allow = j.rules.allow /\ rules.deny = j.rules.deny
      BY <2>4 DEF Read, NoRules
    <3> HIDE DEF got, rules
    <3>3. Loaded(disk, judge, during, removed, got, j.stamps, rules)
      BY <2>1, <3>1, <3>2 DEF Loaded, Covers, Denies, Sourced
    <3>4. OwnRules(during[c], got, rules)
      BY <2>1, <3>1, <3>2 DEF OwnRules
    <3> QED BY <2>2, <3>3, <3>4
  <2> QED BY <2>3, <2>4
<1>8. CASE j.next < j.dirs /\ UNCHANGED rulesCache
           /\ judge' = [judge EXCEPT ![c].next = @ + 1, ![c].rules = rules, ![c].unread = unread]
  <2>1. /\ judge'[c] = [j EXCEPT !.next = @ + 1, !.rules = rules, !.unread = unread]
        /\ \A b \in Calls \ {c} : judge'[b] = judge[b]
    BY <1>2, <1>8
  <2>2. judge'[c].at = "read" /\ judge'[c].stamps = j.stamps /\ judge'[c].dirs = j.dirs
        /\ judge'[c].next = j.next + 1 /\ judge'[c].rules = rules
        /\ judge'[c].unread = unread /\ judge'[c].unstat = j.unstat
    BY <1>1, <2>1 DEF Judging
  <2>3. Calm
    BY <1>1, <1>3, <2>1, <2>2 DEF Calm, Busy
  <2>4. EntryInv'
    BY <1>8, <2>3, CalmEntry DEF ApproveInv
  <2>5. \A b \in Calls \ {c} : Busy(judge'[b]) => JudgeInv(b)'
    BY <1>3, <2>1, <2>3, CalmJudge DEF ApproveInv
  <2>6. JudgeInv(c)'
    <3>1. Loaded(disk, judge', during', removed, got, j.stamps, rules)
      BY <1>7, <2>3, CalmLoaded
    <3>2. (j.next + 1) - 1 = j.next /\ j.next + 1 <= j.dirs
      BY <1>5, <1>8, ApproveAssumption DEF Dirs
    <3>3. Got(judge'[c]) = got
      BY <2>2, <3>2 DEF Got
    <3> HIDE DEF rules, got, unread
    <3> QED BY <1>1, <1>3, <1>5, <1>7, <2>2, <3>1, <3>2, <3>3 DEF JudgeInv
  <2>7. StandingDenyWins'
    <3>1. judge'[c].at # "said"
      BY <2>2
    <3> QED BY <1>3, <2>1, <3>1, VerdictsKept DEF ApproveInv
  <2> QED BY <1>3, <1>4, <2>1, <2>4, <2>5, <2>6, <2>7 DEF ApproveInv
<1>9. CASE j.next = j.dirs /\ Say(c, rules, {}, unread)
           /\ rulesCache' = [dirs |-> j.dirs, rules |-> rules, unread |-> unread,
                             stamps |-> j.stamps]
  <2>1. got \subseteq 1..j.dirs /\ 1..j.dirs \ ({} \cup unread) = got
    BY <1>9
  <2>2. StandingDenyWins'
    <3> HIDE DEF rules, got, unread
    <3> QED BY <1>3, <1>7, <1>9, <2>1, VerdictHolds DEF OwnRules
  <2>3. ~Busy(judge'[c]) /\ \A b \in Calls \ {c} : judge'[b] = judge[b]
    BY <1>2, <1>9 DEF Say, Busy
  <2>4. Calm
    BY <1>3, <2>3 DEF Calm
  <2>5. \A b \in Calls : Busy(judge'[b]) => JudgeInv(b)'
    BY <1>3, <2>3, <2>4, CalmJudge DEF ApproveInv
  <2>6. EntryInv'
    <3>1. Loaded(disk, judge', during', removed, got, j.stamps, rules)
      BY <1>7, <1>9, <2>4, CalmLoaded
    <3>2. Past(disk, removed, edits, j.stamps)
      BY <1>1 DEF JudgeInv
    <3>3. Kept' = got
      BY <1>9 DEF Kept
    <3> HIDE DEF rules, unread, got
    <3> QED BY <1>3, <1>5, <1>9, <3>1, <3>2, <3>3 DEF EntryInv
  <2> QED BY <1>3, <1>4, <2>2, <2>5, <2>6 DEF ApproveInv
<1> QED BY <1>8, <1>9 DEF ReadFile

LEMMA ApproveInductive == ApproveSpec => []ApproveInv
<1>1. ApproveInit => ApproveInv
  <2> SUFFICES ASSUME ApproveInit PROVE ApproveInv
    OBVIOUS
  <2>1. NoRules \in Merged /\ [d \in {} |-> 0] \in Stamps /\ DOMAIN [d \in {} |-> 0] = {} /\ 1..0 = {}
    <3>1. [d \in {} |-> 0] \in [{} -> 0..MaxEdits]
      OBVIOUS
    <3>2. [d \in {} |-> 0] \in Stamps
      BY <3>1, NewStamps
    <3> QED BY <3>2 DEF NoRules, Merged
  <2>2. ApproveTypeOK
    BY <2>1, ApproveAssumption DEF ApproveInit, ApproveTypeOK, Missing, NoEntry
  <2>3. EntryInv
    BY <2>1 DEF ApproveInit, NoEntry, EntryInv, Kept, Past, Loaded, Covers, Denies, Sourced, NoRules
  <2>4. \A c \in Calls : judge[c].at = "idle"
    BY DEF ApproveInit
  <2> QED BY <2>2, <2>3, <2>4 DEF ApproveInv, ApproveInit, Missing, Busy, StandingDenyWins
<1>2. ApproveInv /\ [ApproveNext]_approveVars => ApproveInv'
  <2> SUFFICES ASSUME ApproveInv, [ApproveNext]_approveVars PROVE ApproveInv'
    OBVIOUS
  <2>1. \A d \in Dirs : disk[d].stamp \in Nat
    BY ApproveAssumption DEF ApproveInv, ApproveTypeOK
  <2>2. ASSUME NEW d \in Dirs, NEW rules \in Rules \cup {NoRules}, WriteFile(d, rules)
        PROVE  ApproveInv'
    <3>1. edits \in Nat
      BY ApproveAssumption DEF ApproveInv, ApproveTypeOK
    <3> QED BY <2>2, <3>1, DiskChangesInv DEF WriteFile
  <2>3. ASSUME NEW d \in Dirs, RemoveFile(d) PROVE ApproveInv'
    <3>1. edits \in Nat
      BY ApproveAssumption DEF ApproveInv, ApproveTypeOK
    <3> QED BY <2>3, <3>1, DiskChangesInv DEF RemoveFile, Missing
  <2>4. CASE UNCHANGED approveVars
    <3> USE <2>4 DEF approveVars
    <3>1. /\ ApproveTypeOK'
          /\ \A d \in Dirs : disk'[d].stamp <= edits'
      BY DEF ApproveInv, ApproveTypeOK
    <3>2. \A c \in Calls : Busy(judge'[c]) => JudgeInv(c)'
      BY DEF ApproveInv, JudgeInv, Got
    <3>3. EntryInv'
      BY DEF ApproveInv, EntryInv, Kept
    <3>4. StandingDenyWins'
      BY DEF ApproveInv, StandingDenyWins
    <3> QED BY <3>1, <3>2, <3>3, <3>4 DEF ApproveInv
  <2> QED BY <2>2, <2>3, <2>4, GitInitInv, DecideInv, DecideBashInv, StatFileInv, ReadFileInv
          DEF ApproveNext
<1> QED BY <1>1, <1>2, PTL DEF ApproveSpec

\* Every state of AutoApprove has the types the source declares.
THEOREM ApproveTypeCorrect == ApproveSpec => []ApproveTypeOK
<1>1. ApproveInv => ApproveTypeOK
  BY DEF ApproveInv
<1> QED BY <1>1, ApproveInductive, PTL

\* An entry of the cache whose modification times are those of the files has their rules, but
\* for the files whose read failed when it was loaded.
THEOREM RulesCacheIsTrue == ApproveSpec => []CacheIsTrue
<1>1. ApproveInv => CacheIsTrue
  <2> DEFINE e == rulesCache
             read == 1..e.dirs \ e.unread
  <2> SUFFICES ASSUME ApproveInv, e.stamps = [d \in 1..e.dirs |-> disk[d].stamp]
               PROVE  /\ \A d \in read : /\ disk[d].rules.allow \subseteq e.rules.allow
                                         /\ disk[d].rules.deny \subseteq e.rules.deny
                      /\ removed = {} =>
                           /\ e.rules.allow = UNION {disk[d].rules.allow : d \in read}
                           /\ e.rules.deny = UNION {disk[d].rules.deny : d \in read}
    BY DEF CacheIsTrue
  <2>0. Kept = read
    BY DEF Kept
  <2>1. \A d \in read : d \in Dirs /\ e.stamps[d] = disk[d].stamp /\ disk[d].stamp \in Nat
    BY ApproveAssumption DEF ApproveInv, ApproveTypeOK, Dirs
  <2> HIDE DEF read
  <2>2. \A d \in read : /\ disk[d].rules.allow \subseteq e.rules.allow
                       /\ disk[d].rules.deny \subseteq e.rules.deny
    BY <2>0, <2>1 DEF ApproveInv, EntryInv, Loaded, Covers
  <2>3. ASSUME removed = {}
        PROVE  /\ \A t \in e.rules.allow : \E d \in read : t \in disk[d].rules.allow
               /\ \A t \in e.rules.deny : \E d \in read : t \in disk[d].rules.deny
    <3>1. Sourced(disk, judge, during, read, e.stamps, e.rules)
      BY <2>0, <2>3 DEF ApproveInv, EntryInv, Loaded
    <3>2. \A d \in read : ~(e.stamps[d] < disk[d].stamp)
      BY <2>1
    <3>3. \A t \in e.rules.allow : \E d \in read : t \in disk[d].rules.allow
      BY <3>1, <3>2 DEF Sourced, AllowedBy
    <3>4. \A t \in e.rules.deny : \E d \in read : t \in disk[d].rules.deny
      BY <3>1, <3>2 DEF Sourced, DeniedBy
    <3> QED BY <3>3, <3>4
  <2>4. ASSUME removed = {}
        PROVE  /\ e.rules.allow = UNION {disk[d].rules.allow : d \in read}
               /\ e.rules.deny = UNION {disk[d].rules.deny : d \in read}
    BY <2>2, <2>3, <2>4
  <2> QED BY <2>2, <2>4
<1> QED BY <1>1, ApproveInductive, PTL

\* A command that a file has denied from the question to the verdict is not approved, unless
\* the stat or the read of that file failed, and one that is approved was allowed by a file in
\* between, whatever files change and whichever invocations share the cache.
THEOREM DenyAlwaysWins == ApproveSpec => []StandingDenyWins
<1>1. ApproveInv => StandingDenyWins
  BY DEF ApproveInv
<1> QED BY <1>1, ApproveInductive, PTL

-----------------------------------------------------------------------------
(* Gateway. *)

Tasks == {Idle} \cup [at: {"identity", "reply", "images", "handling"}, nth: Passages,
                      text: Bodies \cup {"empty", "malformed"}]

\* The invocation has not called onMessage.
Unanswered(t) == t.at \in {"identity", "images"}

\* What is known of the message of an invocation.
TaskFact(t, l) ==
    /\ l \in Mail /\ ~Dropped(l)
    /\ t.at # "identity" => Ours(l)
    /\ t.at = "reply" => ~l.allowed
    /\ t.at \in {"images", "handling"} => l.allowed

\* What has left the ring was too old, or pushed out by as many as the ring holds.
RingInv ==
    \A n \in DOMAIN log : /\ log[n].at <= now
                          /\ n \in seen \/ now - log[n].at >= Ttl \/ Len(log) - n >= Capacity

\* Whose handlers are at work.
TasksInv ==
    /\ \A h, k \in Handlers : task[h] # Idle /\ task[k] # Idle /\ task[h].nth = task[k].nth => h = k
    /\ \A h \in Handlers : task[h] # Idle =>
         /\ task[h].nth \in DOMAIN log /\ TaskFact(task[h], letter[log[task[h].nth].id])
         /\ Unanswered(task[h]) => handled[task[h].nth] = 0

HistoryInv ==
    /\ \A n \in DOMAIN log : letter[log[n].id] # NoLetter
    /\ \A m \in told : letter[m] # NoLetter
    /\ \A n \in Passages : handled[n] > 0 => n \in DOMAIN log

GatewayInv ==
    /\ GatewayTypeOK
    /\ asking = (IF lookup = "pending" THEN 1 ELSE 0)
    /\ identity.known => lookup = "done"
    /\ RingInv /\ TasksInv /\ HistoryInv
    /\ HandledOnce /\ OnlyOursIsAnswered

LEMMA TaskMessage ==
    ASSUME NEW t \in Tasks
    PROVE  /\ t # Idle => t.nth \in Passages /\ t.at # "idle"
           /\ t.at \in {"identity", "reply", "images", "handling"} => t # Idle
<1>1. Idle.at = "idle"
  BY DEF Idle
<1>2. t = Idle \/ (t.nth \in Passages /\ t.at \in {"identity", "reply", "images", "handling"})
  BY DEF Tasks
<1> QED BY <1>1, <1>2

\* The positions of the history.
LEMMA LogFact ==
    ASSUME GatewayTypeOK
    PROVE  /\ log \in Seq([id: Messages, at: 0..MaxTime]) /\ Len(log) \in Nat
           /\ DOMAIN log = 1..Len(log) /\ DOMAIN log \subseteq Passages
           /\ now \in Int /\ Ttl \in Nat \ {0} /\ Capacity \in Nat \ {0} /\ MaxPassages \in Nat
           /\ \A n \in DOMAIN log : n \in Int /\ log[n].id \in Messages /\ log[n].at \in Int
<1>1. log \in Seq([id: Messages, at: 0..MaxTime]) /\ Len(log) <= MaxPassages /\ now \in 0..MaxTime
  BY DEF GatewayTypeOK
<1>2. {Capacity, Ttl} \subseteq Nat \ {0} /\ MaxPassages \in Nat /\ MaxTime \in Nat
  BY GatewayAssumption
<1>3. Len(log) \in Nat /\ DOMAIN log = 1..Len(log)
  BY <1>1
<1>4. \A n \in DOMAIN log : log[n] \in [id: Messages, at: 0..MaxTime]
  BY <1>1, <1>3, ElementOfSeq
<1>5. DOMAIN log \subseteq Passages /\ \A n \in DOMAIN log : n \in Int
  BY <1>1, <1>2, <1>3 DEF Passages
<1>6. now \in Int /\ Ttl \in Nat \ {0} /\ Capacity \in Nat \ {0}
  BY <1>1, <1>2
<1>7. \A n \in DOMAIN log : log[n].id \in Messages /\ log[n].at \in Int
  BY <1>2, <1>4
<1> QED BY <1>1, <1>2, <1>3, <1>5, <1>6, <1>7

\* A step that leaves the history, the clock and the ring alone.
LEMMA RingKept ==
    ASSUME RingInv, UNCHANGED <<now, log, seen>>
    PROVE  RingInv'
BY DEF RingInv

LEMMA GatewayUnchanged ==
    ASSUME GatewayInv, UNCHANGED gatewayVars
    PROVE  GatewayInv'
<1> USE DEF gatewayVars, GatewayInv
<1>1. GatewayTypeOK'
  BY DEF GatewayTypeOK
<1>2. RingInv' /\ HistoryInv'
  BY DEF RingInv, HistoryInv
<1>3. TasksInv'
  BY DEF TasksInv
<1>4. HandledOnce' /\ OnlyOursIsAnswered'
  BY DEF HandledOnce, OnlyOursIsAnswered
<1> QED BY <1>1, <1>2, <1>3, <1>4

\* The clock moves on.
LEMMA TimePassesInv ==
    ASSUME GatewayInv, TimePasses
    PROVE  GatewayInv'
<1> USE DEF GatewayInv
<1>1. UNCHANGED <<socket, identity, lookup, lookups, asking, log, seen, letter, task, handled,
                  route, told, click>>
  BY DEF TimePasses
<1>2. GatewayTypeOK'
  BY <1>1, GatewayAssumption DEF GatewayTypeOK, TimePasses
<1>3. RingInv'
  BY <1>1, LogFact DEF RingInv, TimePasses
<1>4. TasksInv' /\ HistoryInv'
  BY <1>1 DEF TasksInv, HistoryInv
<1>5. HandledOnce' /\ OnlyOursIsAnswered'
  BY <1>1 DEF HandledOnce, OnlyOursIsAnswered
<1> QED BY <1>1, <1>2, <1>3, <1>4, <1>5

\* dedup.check drops the entries that are too old.
LEMMA DuplicateInv ==
    ASSUME GatewayInv, NEW h \in Handlers, NEW m \in Messages, Duplicate(h, m)
    PROVE  GatewayInv'
<1> USE DEF GatewayInv
<1>1. Hits(m) # {} /\ seen' = Prune(seen)
      /\ UNCHANGED <<socket, identity, lookup, lookups, asking, now, log, task, handled, route,
                     told, click>>
  BY DEF Duplicate
<1>2. letter[m] # NoLetter
  BY <1>1 DEF Hits, Prune, HistoryInv, GatewayTypeOK
<1>3. UNCHANGED letter
  BY <1>2 DEF Duplicate, Delivered
<1>4. GatewayTypeOK'
  BY <1>1, <1>3 DEF GatewayTypeOK, Prune
<1>5. RingInv'
  BY <1>1, LogFact DEF RingInv, Prune
<1>6. TasksInv' /\ HistoryInv'
  BY <1>1, <1>3 DEF TasksInv, HistoryInv
<1>7. HandledOnce' /\ OnlyOursIsAnswered'
  BY <1>1, <1>3 DEF HandledOnce, OnlyOursIsAnswered
<1> QED BY <1>1, <1>4, <1>5, <1>6, <1>7

\* A message passes: its entry is in the ring, and whatever the ring drops is too old or has
\* as many behind it as the ring holds.
LEMMA PassesInv ==
    ASSUME GatewayInv, NEW m \in Messages, Passes(m), UNCHANGED now,
           seen' = Evict(Prune(seen) \cup {Len(log')})
    PROVE  /\ log' \in Seq([id: Messages, at: 0..MaxTime]) /\ Len(log') = Len(log) + 1
           /\ Len(log') \in Passages \ DOMAIN log
           /\ DOMAIN log' = DOMAIN log \cup {Len(log')} /\ seen' \subseteq DOMAIN log'
           /\ \A n \in DOMAIN log : log'[n] = log[n]
           /\ log'[Len(log')] = [id |-> m, at |-> now]
           /\ RingInv'
           /\ \A i, j \in DOMAIN log' : i < j /\ log'[i].id = log'[j].id =>
                log'[j].at - log'[i].at >= Ttl \/ j - i > Capacity
<1> DEFINE new == Len(log')
           R == Prune(seen) \cup {new}
<1>1. GatewayTypeOK /\ RingInv /\ HandledOnce
  BY DEF GatewayInv
<1>2. /\ log \in Seq([id: Messages, at: 0..MaxTime]) /\ Len(log) \in Nat
      /\ DOMAIN log = 1..Len(log) /\ now \in Int /\ Ttl \in Nat \ {0} /\ Capacity \in Nat \ {0}
      /\ \A n \in DOMAIN log : n \in Int /\ log[n].at \in Int
      /\ seen \subseteq DOMAIN log /\ MaxPassages \in Nat
  BY <1>1, LogFact DEF GatewayTypeOK
<1>3. /\ log' \in Seq([id: Messages, at: 0..MaxTime]) /\ new = Len(log) + 1
      /\ \A n \in DOMAIN log : log'[n] = log[n]
      /\ log'[new] = [id |-> m, at |-> now]
  <2>1. [id |-> m, at |-> now] \in [id: Messages, at: 0..MaxTime]
    BY <1>1 DEF GatewayTypeOK
  <2>2. log' = Append(log, [id |-> m, at |-> now])
    BY DEF Passes
  <2> QED BY <1>2, <2>1, <2>2
<1>4. DOMAIN log' = 1..new
  BY <1>3
<1>5. new \in Passages \ DOMAIN log /\ DOMAIN log' = DOMAIN log \cup {new}
  <2>1. Len(log) < MaxPassages
    BY DEF Passes
  <2> QED BY <1>2, <1>3, <1>4, <2>1 DEF Passages
<1> HIDE DEF new
<1>6. R \subseteq DOMAIN log' /\ seen' = {n \in R : Cardinality({k \in R : k > n}) < Capacity}
  BY <1>2, <1>5 DEF Prune, Evict, new
<1>7. ASSUME NEW n \in R
      PROVE  n \in seen' \/ new - n >= Capacity
  <2> DEFINE after == {k \in R : k > n}
  <2>1. n \in Int /\ new \in Int /\ n <= new
    BY <1>2, <1>3, <1>4, <1>6
  <2>2. after \in SUBSET ((n + 1)..new)
    BY <1>2, <1>3, <1>4, <1>6, <2>1
  <2> HIDE DEF after
  <2>3. IsFiniteSet((n + 1)..new) /\ Cardinality((n + 1)..new) = new - n
    BY <2>1, FS_Interval
  <2>4. Cardinality(after) <= new - n /\ Cardinality(after) \in Nat
    BY <2>2, <2>3, FS_Subset, FS_CardinalityType
  <2>5. n \in seen' \/ ~(Cardinality(after) < Capacity)
    BY <1>6 DEF after
  <2> QED BY <1>2, <2>1, <2>4, <2>5
<1>8. RingInv'
  <2> SUFFICES ASSUME NEW n \in DOMAIN log'
               PROVE  /\ log'[n].at <= now
                      /\ n \in seen' \/ now - log'[n].at >= Ttl \/ new - n >= Capacity
    BY DEF RingInv, new
  <2>1. CASE n = new
    <3>1. new \in Int /\ log'[n].at = now /\ new \in R
      BY <1>2, <1>3, <2>1
    <3>2. n \in seen' \/ new - n >= Capacity
      BY <1>7, <2>1, <3>1
    <3> QED BY <1>2, <3>1, <3>2
  <2>2. CASE n \in R /\ n # new
    <3>1. n \in DOMAIN log
      BY <1>5, <2>2
    <3> QED BY <1>1, <1>3, <1>7, <2>2, <3>1 DEF RingInv
  <2>3. CASE n \notin R /\ n # new
    <3>1. n \in DOMAIN log /\ n \in Int /\ log[n].at \in Int /\ log'[n] = log[n]
      BY <1>2, <1>3, <1>5, <2>3
    <3>2. n \notin seen \/ log[n].at <= now - Ttl
      BY <1>2, <2>3, <3>1 DEF Prune
    <3>3. log[n].at <= now /\ (n \in seen \/ now - log[n].at >= Ttl \/ Len(log) - n >= Capacity)
      BY <1>1, <3>1 DEF RingInv
    <3> QED BY <1>2, <1>3, <3>1, <3>2, <3>3
  <2> QED BY <2>1, <2>2, <2>3
<1>9. ASSUME NEW i \in DOMAIN log', NEW j \in DOMAIN log', i < j, log'[i].id = log'[j].id
      PROVE  log'[j].at - log'[i].at >= Ttl \/ j - i > Capacity
  <2>1. CASE j = new
    <3>1. i \in DOMAIN log /\ i \in Int /\ log[i].at \in Int /\ log'[i] = log[i] /\ log[i].id = m
      BY <1>2, <1>3, <1>4, <1>5, <1>9, <2>1
    <3>2. i \notin seen \/ log[i].at <= now - Ttl
      BY <1>2, <3>1 DEF Passes, Hits, Prune
    <3>3. i \in seen \/ now - log[i].at >= Ttl \/ Len(log) - i >= Capacity
      BY <1>1, <3>1 DEF RingInv
    <3>4. log'[j].at = now /\ j = Len(log) + 1
      BY <1>3, <2>1
    <3>5. now - log[i].at >= Ttl \/ Len(log) - i >= Capacity
      BY <1>2, <3>1, <3>2, <3>3
    <3> QED BY <1>2, <3>1, <3>4, <3>5
  <2>2. CASE j # new
    <3>1. i \in DOMAIN log /\ j \in DOMAIN log /\ log'[i] = log[i] /\ log'[j] = log[j]
      BY <1>2, <1>3, <1>4, <1>5, <1>9, <2>2
    <3> QED BY <1>1, <1>9, <3>1 DEF HandledOnce
  <2> QED BY <2>1, <2>2
<1>10. seen' \subseteq DOMAIN log'
  BY <1>6
<1> QED BY <1>3, <1>5, <1>8, <1>9, <1>10 DEF new

LEMMA HeardFact ==
    ASSUME NEW l \in Mail, NEW id
    PROVE  Heard(l, id) \in Bodies \cup {"empty", "malformed"}
BY GatewayAssumption DEF Heard, Letter, Bodies

LEMMA RouteFact == \A t : Route(t) \in Routes
BY DEF Route, Routes

LEMMA AdmittedFact ==
    ASSUME NEW n \in Passages, NEW l \in Mail, ~Dropped(l), NEW id
    PROVE  LET a == Admitted(n, l, id) IN
           /\ a \in Tasks
           /\ a # Idle => a.nth = n /\ a.at # "identity" /\ TaskFact(a, l)
<1> DEFINE a == Admitted(n, l, id)
           reply == [at |-> "reply", nth |-> n, text |-> "empty"]
           next(place) == [at |-> place, nth |-> n, text |-> Heard(l, id)]
<1>1. Heard(l, id) \in Bodies \cup {"empty", "malformed"}
  BY HeardFact
<1>2. Translated(n, l, id) \in {Idle, next("images"), next("handling")}
  BY DEF Translated
<1>3. IsAddressedToUs(l, id) => Ours(l)
  BY DEF IsAddressedToUs, NeedsIdentity, AddressedAs, Ours
<1>4. \/ a = Idle
      \/ a \in {next("images"), next("handling")} /\ l.allowed /\ Ours(l)
      \/ a = reply /\ ~l.allowed /\ Ours(l)
  <2> HIDE DEF next
  <2> QED BY <1>2, <1>3 DEF Admitted
<1> HIDE DEF a
<1>5. CASE a = Idle
  BY <1>5 DEF Tasks, a
<1>6. CASE a \in {next("images"), next("handling")} /\ l.allowed /\ Ours(l)
  <2>1. a \in Tasks /\ a.nth = n /\ a.at \in {"images", "handling"}
    <3>1. CASE a = next("images")
      BY <1>1, <3>1 DEF Tasks
    <3>2. CASE a = next("handling")
      BY <1>1, <3>2 DEF Tasks
    <3> QED BY <1>6, <3>1, <3>2
  <2> QED BY <1>6, <2>1 DEF TaskFact, a
<1>7. CASE a = reply /\ ~l.allowed /\ Ours(l)
  <2>1. a \in Tasks /\ a.nth = n /\ a.at = "reply"
    BY <1>7 DEF Tasks
  <2> QED BY <1>7, <2>1 DEF TaskFact, a
<1> QED BY <1>4, <1>5, <1>6, <1>7

\* Invocations that work on different deliveries call onMessage.
LEMMA EnterOnce ==
    ASSUME NEW going \in SUBSET Handlers, Enter(going),
           handled \in [Passages -> Nat], route \in [Messages -> Routes],
           \A h, k \in going : task'[h].nth = task'[k].nth => h = k
    PROVE  /\ handled' \in [Passages -> Nat] /\ route' \in [Messages -> Routes]
           /\ \A n \in Passages : handled'[n] =
                IF \E h \in going : task'[h].nth = n THEN handled[n] + 1 ELSE handled[n]
<1>1. ASSUME NEW n \in Passages
      PROVE  Cardinality({h \in going : task'[h].nth = n}) =
               IF \E h \in going : task'[h].nth = n THEN 1 ELSE 0
  <2>1. CASE \E h \in going : task'[h].nth = n
    <3>1. PICK h \in going : task'[h].nth = n
      BY <2>1
    <3>2. {k \in going : task'[k].nth = n} = {h}
      BY <3>1
    <3> QED BY <2>1, <3>2, FS_Singleton
  <2>2. CASE ~ \E h \in going : task'[h].nth = n
    <3>1. {k \in going : task'[k].nth = n} = {}
      BY <2>2
    <3> QED BY <2>2, <3>1, FS_EmptySet
  <2> QED BY <2>1, <2>2
<1>2. \A n \in Passages : handled'[n] =
         IF \E h \in going : task'[h].nth = n THEN handled[n] + 1 ELSE handled[n]
  BY <1>1 DEF Enter
<1>3. handled' \in [Passages -> Nat]
  BY <1>2 DEF Enter
<1>4. route' \in [Messages -> Routes]
  BY RouteFact DEF Enter
<1> QED BY <1>2, <1>3, <1>4

\* The calls of getBotIdentity are one while the promise is pending, and none otherwise.
AskedOnce == asking = (IF lookup = "pending" THEN 1 ELSE 0)

LEMMA AskIdentityFact ==
    ASSUME GatewayTypeOK, AskedOnce, identity.known => lookup = "done", AskIdentity
    PROVE  /\ lookup' \in {"none", "pending", "done"} /\ lookups' \in 0..MaxLookups
           /\ AskedOnce' /\ asking' \in Nat
           /\ (identity.known => lookup' = "done")
<1>1. CASE lookup # "none" /\ UNCHANGED <<lookup, lookups, asking>>
  BY <1>1 DEF AskedOnce, GatewayTypeOK
<1>2. CASE /\ lookup = "none" /\ lookup' = "pending"
           /\ lookups < MaxLookups /\ lookups' = lookups + 1
           /\ asking' = asking + 1
  <2>1. lookups' \in 0..MaxLookups
    BY <1>2, GatewayAssumption DEF GatewayTypeOK
  <2>2. asking' = 1
    BY <1>2 DEF AskedOnce
  <2> QED BY <1>2, <2>1, <2>2 DEF AskedOnce
<1> QED BY <1>1, <1>2 DEF AskIdentity

\* An invocation that has gone on after the identity was settled.
LEMMA ResumeInv ==
    ASSUME GatewayInv, NEW id \in Identity \cup {Unknown}, Resume(id), asking > 0,
           UNCHANGED <<lookups, now, log, seen, letter, told, click>>,
           identity' \in Identity \cup {Unknown}, lookup' \in {"none", "done"},
           identity'.known => lookup' = "done"
    PROVE  GatewayInv'
<1> DEFINE going == {h \in Handlers : task[h].at = "identity" /\ task'[h].at = "handling"}
<1>1. GatewayTypeOK /\ task \in [Handlers -> Tasks]
  BY DEF GatewayInv, GatewayTypeOK, Tasks
<1>2. ASSUME NEW h \in Handlers
      PROVE  /\ task'[h] \in Tasks
             /\ task[h].at # "identity" => task'[h] = task[h]
             /\ task[h].at = "identity" /\ task'[h] # Idle =>
                  /\ task'[h].nth = task[h].nth /\ task'[h].at # "identity"
                  /\ TaskFact(task'[h], letter[Of(task[h])])
  <2>1. CASE task[h].at = "identity"
    <3>1. task[h] # Idle /\ task[h].nth \in Passages
      BY <1>1, <2>1, TaskMessage
    <3>2. letter[Of(task[h])] \in Mail /\ ~Dropped(letter[Of(task[h])])
      BY <3>1 DEF GatewayInv, TasksInv, TaskFact, Of
    <3>3. task'[h] = Admitted(task[h].nth, letter[Of(task[h])], id)
      BY <2>1 DEF Resume
    <3> QED BY <2>1, <3>1, <3>2, <3>3, AdmittedFact
  <2>2. CASE task[h].at # "identity"
    BY <1>1, <2>2 DEF Resume
  <2> QED BY <2>1, <2>2
<1>3. task' \in [Handlers -> Tasks]
  BY <1>2 DEF Resume
<1>4. \A h \in Handlers : task'[h] # Idle => task[h] # Idle /\ task'[h].nth = task[h].nth
  BY <1>2 DEF Idle
<1>5. \A h, k \in Handlers :
        task'[h] # Idle /\ task'[k] # Idle /\ task'[h].nth = task'[k].nth => h = k
  BY <1>4 DEF GatewayInv, TasksInv
<1>6. \A h \in going : task[h] # Idle /\ task'[h] # Idle /\ task'[h].nth \in Passages
  BY <1>1, <1>2, TaskMessage
<1>7. Enter(going) /\ going \in SUBSET Handlers
  BY DEF Resume
<1>8. \A h, k \in going : task'[h].nth = task'[k].nth => h = k
  BY <1>5, <1>6
<1>9. /\ handled' \in [Passages -> Nat] /\ route' \in [Messages -> Routes]
      /\ \A n \in Passages : handled'[n] =
           IF \E h \in going : task'[h].nth = n THEN handled[n] + 1 ELSE handled[n]
  <2> HIDE DEF going
  <2> QED BY <1>1, <1>7, <1>8, EnterOnce DEF GatewayTypeOK
<1>10. \A h \in Handlers : task'[h] # Idle =>
         task'[h].nth \in DOMAIN log /\ TaskFact(task'[h], letter[log[task'[h].nth].id])
  BY <1>2, <1>4 DEF GatewayInv, TasksInv, Of
<1>11. \A h \in going : handled[task'[h].nth] = 0 /\ task'[h].at = "handling"
  BY <1>2, <1>6 DEF GatewayInv, TasksInv, Unanswered
<1>12. \A n \in Passages : \/ handled'[n] = handled[n]
                           \/ handled'[n] = 1 /\ \E h \in going : task'[h].nth = n
  BY <1>9, <1>11
<1>13. \A n \in Passages : handled'[n] <= 1 /\ (handled'[n] > 0 => n \in DOMAIN log)
  BY <1>6, <1>10, <1>12 DEF GatewayInv, HandledOnce, HistoryInv
<1>14. OnlyOursIsAnswered'
  <2>1. ASSUME NEW n \in DOMAIN log, handled'[n] > 0
        PROVE  LET l == letter[log[n].id] IN
               l.sender # "app" /\ l.listed /\ Ours(l) /\ l.allowed
    <3>1. n \in Passages
      BY <1>1, LogFact
    <3>2. CASE handled'[n] = handled[n]
      BY <2>1, <3>2 DEF GatewayInv, OnlyOursIsAnswered
    <3>3. CASE \E h \in going : task'[h].nth = n
      BY <1>6, <1>10, <1>11, <3>3 DEF TaskFact, Dropped
    <3> QED BY <1>12, <3>1, <3>2, <3>3
  <2> QED BY <2>1 DEF GatewayInv, OnlyOursIsAnswered
<1>15. ASSUME NEW h \in Handlers, task'[h] # Idle, Unanswered(task'[h])
       PROVE  handled'[task'[h].nth] = 0
  <2>1. Unanswered(task[h]) /\ task'[h].nth \in Passages
    BY <1>2, <1>4, <1>15 DEF Unanswered, Tasks
  <2>2. handled[task'[h].nth] = 0
    BY <1>4, <1>15, <2>1 DEF GatewayInv, TasksInv
  <2>3. \A k \in going : task'[k].nth # task'[h].nth
    BY <1>5, <1>6, <1>15 DEF Unanswered
  <2> QED BY <1>9, <2>1, <2>2, <2>3
<1>16. asking' = 0 /\ socket' \in {"closed", "waiting", "open"}
  <2>1. asking = 1 /\ asking' = asking - 1
    BY DEF GatewayInv, Resume
  <2>2. socket' \in {socket, "open"}
    BY DEF Resume
  <2> QED BY <1>1, <2>1, <2>2 DEF GatewayTypeOK
<1>17. GatewayTypeOK'
  BY <1>1, <1>3, <1>9, <1>16 DEF GatewayTypeOK, Tasks
<1> HIDE DEF going
<1>18. TasksInv'
  BY <1>5, <1>10, <1>15 DEF TasksInv
<1>19. HistoryInv' /\ RingInv'
  BY <1>13, RingKept DEF GatewayInv, HistoryInv
<1>20. HandledOnce'
  BY <1>13 DEF GatewayInv, HandledOnce
<1> QED BY <1>14, <1>16, <1>17, <1>18, <1>19, <1>20 DEF GatewayInv

LEMMA ReceiveInv ==
    ASSUME GatewayInv, NEW h \in Handlers, NEW m \in Messages, Receive(h, m)
    PROVE  GatewayInv'
<1> DEFINE going == {k \in {h} : task'[k].at = "handling"}
           new == Len(log')
<1>1. /\ GatewayTypeOK /\ task \in [Handlers -> Tasks] /\ task[h] = Idle
      /\ UNCHANGED <<told, click, identity, socket, now>>
  BY DEF GatewayInv, GatewayTypeOK, Tasks, Receive, Delivered
<1>2. /\ log' \in Seq([id: Messages, at: 0..MaxTime])
      /\ new \in Passages \ DOMAIN log /\ DOMAIN log' = DOMAIN log \cup {new}
      /\ seen' \subseteq DOMAIN log' /\ \A n \in DOMAIN log : log'[n] = log[n]
      /\ log'[new].id = m /\ RingInv'
      /\ \A i, j \in DOMAIN log' : i < j /\ log'[i].id = log'[j].id =>
           log'[j].at - log'[i].at >= Ttl \/ j - i > Capacity
  <2>1. Passes(m) /\ seen' = Evict(Prune(seen) \cup {Len(log')})
    BY DEF Receive
  <2>2. [id |-> m, at |-> now].id = m
    OBVIOUS
  <2> QED BY <1>1, <2>1, <2>2, PassesInv
<1>3. Len(log') <= MaxPassages
  <2>1. new \in 1..MaxPassages
    BY <1>2 DEF Passages
  <2> QED BY <2>1
<1> HIDE DEF new
<1>4. /\ letter' \in [Messages -> Mail \cup {NoLetter}] /\ letter'[m] \in Mail
      /\ \A p \in Messages : letter[p] # NoLetter => letter'[p] = letter[p]
  <2>1. CASE letter[m] = NoLetter /\ \E l \in Mail : letter' = [letter EXCEPT ![m] = l]
    BY <1>1, <2>1 DEF GatewayTypeOK
  <2>2. CASE letter[m] # NoLetter /\ UNCHANGED letter
    BY <1>1, <2>2 DEF GatewayTypeOK
  <2> QED BY <2>1, <2>2 DEF Receive, Delivered
<1>5. \A n \in DOMAIN log : /\ n \in Passages /\ n # new
                            /\ letter[log[n].id] # NoLetter
                            /\ letter'[log'[n].id] = letter[log[n].id]
  BY <1>1, <1>2, <1>4, LogFact DEF GatewayInv, HistoryInv
<1>6. letter'[m] # NoLetter
  BY <1>4, GatewayAssumption DEF Letter, NoLetter
<1>7. /\ task' \in [Handlers -> Tasks] /\ \A k \in Handlers \ {h} : task'[k] = task[k]
      /\ task'[h] # Idle => task'[h].nth = new /\ TaskFact(task'[h], letter'[m])
  <2>1. CASE UNCHANGED task
    BY <1>1, <2>1
  <2>2. CASE /\ ~Dropped(letter'[m])
             /\ task' = [task EXCEPT ![h] = [at |-> "identity", nth |-> new, text |-> "empty"]]
    <3>1. [at |-> "identity", nth |-> new, text |-> "empty"] \in Tasks
      BY <1>2 DEF Tasks
    <3> QED BY <1>1, <1>4, <2>2, <3>1 DEF TaskFact
  <2>3. CASE /\ ~Dropped(letter'[m])
             /\ task' = [task EXCEPT ![h] = Admitted(new, letter'[m], identity)]
    BY <1>1, <1>2, <1>4, <2>3, AdmittedFact
  <2> QED BY <2>1, <2>2, <2>3 DEF Receive, Gates, new
<1>8. \A k \in Handlers : task[k] # Idle => task[k].nth \in DOMAIN log
  BY DEF GatewayInv, TasksInv
<1>9. \A j, k \in Handlers :
        task'[j] # Idle /\ task'[k] # Idle /\ task'[j].nth = task'[k].nth => j = k
  BY <1>2, <1>7, <1>8 DEF GatewayInv, TasksInv
<1>10. /\ handled' \in [Passages -> Nat] /\ route' \in [Messages -> Routes]
       /\ \A n \in Passages : handled'[n] =
            IF \E k \in going : task'[k].nth = n THEN handled[n] + 1 ELSE handled[n]
  <2>1. Enter(going) /\ going \in SUBSET Handlers /\ \A j, k \in going : j = k
    BY DEF Receive
  <2> HIDE DEF going
  <2> QED BY <1>1, <2>1, EnterOnce DEF GatewayTypeOK
<1>11. \A k \in going : k = h /\ task'[h].at = "handling" /\ task'[h] # Idle /\ task'[h].nth = new
  BY <1>7, TaskMessage
<1>12. handled[new] = 0
  BY <1>1, <1>2 DEF GatewayInv, HistoryInv, GatewayTypeOK
<1>13. \A n \in Passages : /\ n # new => handled'[n] = handled[n]
                           /\ handled'[new] <= 1
                           /\ handled'[new] > 0 => h \in going
  BY <1>2, <1>10, <1>11, <1>12
<1>14. HandledOnce'
  BY <1>2, <1>13 DEF GatewayInv, HandledOnce
<1>15. HistoryInv'
  BY <1>1, <1>2, <1>4, <1>5, <1>6, <1>13 DEF GatewayInv, HistoryInv, GatewayTypeOK
<1>16. OnlyOursIsAnswered'
  <2>1. ASSUME NEW n \in DOMAIN log', handled'[n] > 0
        PROVE  LET l == letter'[log'[n].id] IN
               l.sender # "app" /\ l.listed /\ Ours(l) /\ l.allowed
    <3>1. CASE n = new
      BY <1>2, <1>7, <1>11, <1>13, <2>1, <3>1 DEF TaskFact, Dropped
    <3>2. CASE n \in DOMAIN log
      <4>1. handled[n] > 0 /\ letter'[log'[n].id] = letter[log[n].id]
        BY <1>5, <1>13, <2>1, <3>2
      <4> QED BY <3>2, <4>1 DEF GatewayInv, OnlyOursIsAnswered
    <3> QED BY <1>2, <3>1, <3>2
  <2>2. ASSUME NEW p \in told
        PROVE  LET l == letter'[p] IN
               l.sender # "app" /\ l.listed /\ Ours(l) /\ ~l.allowed
    <3>1. letter'[p] = letter[p]
      BY <1>1, <1>4 DEF GatewayInv, HistoryInv, GatewayTypeOK
    <3> QED BY <3>1 DEF GatewayInv, OnlyOursIsAnswered
  <2>3. click.to # "none" => click.chat = "listed" /\ click.allowed
    BY DEF GatewayInv, OnlyOursIsAnswered
  <2> QED BY <1>1, <2>1, <2>2, <2>3 DEF OnlyOursIsAnswered
<1>17. ASSUME NEW k \in Handlers, task'[k] # Idle
       PROVE  /\ task'[k].nth \in DOMAIN log' /\ TaskFact(task'[k], letter'[log'[task'[k].nth].id])
              /\ Unanswered(task'[k]) => handled'[task'[k].nth] = 0
  <2>1. CASE k = h
    <3>1. /\ task'[k].nth = new /\ new \in DOMAIN log' /\ log'[new].id = m
          /\ TaskFact(task'[k], letter'[m])
      BY <1>2, <1>7, <1>17, <2>1
    <3>2. Unanswered(task'[k]) => handled'[new] = 0
      <4>1. Unanswered(task'[h]) => h \notin going
        BY DEF Unanswered
      <4> QED BY <1>2, <1>10, <1>11, <1>12, <2>1, <4>1
    <3> QED BY <3>1, <3>2
  <2>2. CASE k # h
    <3>1. task'[k] = task[k] /\ task[k] # Idle /\ task[k].nth \in DOMAIN log
      BY <1>7, <1>8, <1>17, <2>2
    <3>2. /\ handled'[task[k].nth] = handled[task[k].nth] /\ task[k].nth \in DOMAIN log'
          /\ letter'[log'[task[k].nth].id] = letter[log[task[k].nth].id]
      BY <1>2, <1>5, <1>13, <3>1
    <3> QED BY <3>1, <3>2 DEF GatewayInv, TasksInv
  <2> QED BY <2>1, <2>2
<1>18. /\ AskedOnce' /\ (identity'.known => lookup' = "done")
       /\ lookup' \in {"none", "pending", "done"} /\ lookups' \in 0..MaxLookups /\ asking' \in Nat
  <2>1. CASE UNCHANGED <<lookup, lookups, asking>>
    BY <1>1, <2>1 DEF GatewayInv, AskedOnce, GatewayTypeOK
  <2>2. CASE AskIdentity
    BY <1>1, <2>2, AskIdentityFact DEF GatewayInv, AskedOnce
  <2> QED BY <2>1, <2>2 DEF Receive, Gates
<1>19. GatewayTypeOK'
  BY <1>1, <1>2, <1>3, <1>4, <1>7, <1>10, <1>18 DEF GatewayTypeOK, Tasks
<1>20. TasksInv'
  BY <1>9, <1>17 DEF TasksInv
<1> HIDE DEF going
<1> QED BY <1>2, <1>14, <1>15, <1>16, <1>18, <1>19, <1>20 DEF GatewayInv, AskedOnce

\* What does not depend on the lookup of the identity.
LEMMA StartInv ==
    ASSUME GatewayInv, Start
    PROVE  GatewayInv'
<1>1. UNCHANGED <<identity, now, log, seen, letter, task, handled, route, told, click>>
  BY DEF Start
<1>2. /\ AskedOnce' /\ (identity.known => lookup' = "done")
      /\ lookup' \in {"none", "pending", "done"} /\ lookups' \in 0..MaxLookups /\ asking' \in Nat
  BY AskIdentityFact DEF Start, GatewayInv, AskedOnce
<1>3. GatewayTypeOK'
  BY <1>1, <1>2 DEF Start, GatewayInv, GatewayTypeOK
<1>4. RingInv' /\ TasksInv' /\ HistoryInv'
  BY <1>1, RingKept DEF GatewayInv, TasksInv, HistoryInv
<1>5. HandledOnce' /\ OnlyOursIsAnswered'
  BY <1>1 DEF GatewayInv, HandledOnce, OnlyOursIsAnswered
<1> QED BY <1>1, <1>2, <1>3, <1>4, <1>5 DEF GatewayInv, AskedOnce

\* An invocation ends without another call of onMessage.
LEMMA TaskEnds ==
    ASSUME GatewayInv, NEW h \in Handlers, task' = [task EXCEPT ![h] = Idle],
           UNCHANGED <<handled, route>>, Resting,
           told' = told \/ (task[h].at = "reply" /\ told' = told \cup {Of(task[h])})
    PROVE  GatewayInv'
<1>1. GatewayTypeOK /\ task \in [Handlers -> Tasks]
  BY DEF GatewayInv, GatewayTypeOK, Tasks
<1>2. task' \in [Handlers -> Tasks] /\ \A k \in Handlers : task'[k] # Idle => task'[k] = task[k]
  BY <1>1 DEF Tasks
<1>3. UNCHANGED <<handled, route, socket, identity, lookup, lookups, asking, now, log, seen,
                  letter, click>>
  BY DEF Resting
<1>4. \A m \in told' : \/ m \in told
                       \/ /\ m \in Messages /\ letter[m] # NoLetter /\ letter[m].sender # "app"
                          /\ letter[m].listed /\ Ours(letter[m]) /\ ~letter[m].allowed
  <2> SUFFICES ASSUME task[h].at = "reply", told' = told \cup {Of(task[h])}
               PROVE  LET m == Of(task[h]) IN
                      /\ m \in Messages /\ letter[m] # NoLetter /\ letter[m].sender # "app"
                      /\ letter[m].listed /\ Ours(letter[m]) /\ ~letter[m].allowed
    OBVIOUS
  <2>1. task[h] # Idle
    BY <1>1, TaskMessage
  <2>2. task[h].nth \in DOMAIN log /\ TaskFact(task[h], letter[Of(task[h])])
    BY <2>1 DEF GatewayInv, TasksInv, Of
  <2>3. Of(task[h]) \in Messages /\ letter[Of(task[h])] # NoLetter
    BY <1>1, <2>2, LogFact DEF GatewayInv, HistoryInv, Of
  <2> QED BY <2>2, <2>3 DEF TaskFact, Dropped
<1>5. told' \subseteq Messages
  BY <1>1, <1>4 DEF GatewayTypeOK
<1>6. GatewayTypeOK'
  BY <1>1, <1>2, <1>3, <1>5 DEF GatewayTypeOK, Tasks
<1>7. OnlyOursIsAnswered'
  BY <1>3, <1>4 DEF GatewayInv, OnlyOursIsAnswered
<1>8. RingInv' /\ HistoryInv' /\ HandledOnce'
  BY <1>3, <1>4, RingKept DEF GatewayInv, HistoryInv, HandledOnce
<1>9. TasksInv'
  BY <1>2, <1>3 DEF GatewayInv, TasksInv
<1> QED BY <1>3, <1>6, <1>7, <1>8, <1>9 DEF GatewayInv

LEMMA ImagesInv ==
    ASSUME GatewayInv, NEW h \in Handlers, Images(h)
    PROVE  GatewayInv'
<1> DEFINE n == task[h].nth
           l == letter[log[n].id]
<1>1. GatewayTypeOK /\ task \in [Handlers -> Tasks] /\ task[h].at = "images"
  BY DEF GatewayInv, GatewayTypeOK, Tasks, Images
<1>2. /\ task[h] # Idle /\ n \in Passages /\ n \in DOMAIN log /\ handled[n] = 0
      /\ TaskFact(task[h], l)
  BY <1>1, TaskMessage DEF GatewayInv, TasksInv, Unanswered
<1>3. CASE task' = [task EXCEPT ![h].at = "handling"] /\ Enter({h})
  <2>1. task'[h] \in Tasks /\ task'[h].nth = n /\ task'[h].at = "handling"
    BY <1>1, <1>2, <1>3 DEF Tasks
  <2>2. task' \in [Handlers -> Tasks] /\ \A k \in Handlers \ {h} : task'[k] = task[k]
    BY <1>1, <1>3, <2>1
  <2>3. /\ handled' \in [Passages -> Nat] /\ route' \in [Messages -> Routes]
        /\ \A p \in Passages : handled'[p] = IF p = n THEN handled[p] + 1 ELSE handled[p]
    <3>1. /\ handled' \in [Passages -> Nat] /\ route' \in [Messages -> Routes]
          /\ \A p \in Passages : handled'[p] =
               IF \E k \in {h} : task'[k].nth = p THEN handled[p] + 1 ELSE handled[p]
      BY <1>1, <1>3, EnterOnce DEF GatewayTypeOK
    <3> QED BY <2>1, <3>1
  <2>4. UNCHANGED <<told, socket, identity, lookup, lookups, asking, now, log, seen, letter, click>>
    BY DEF Images, Resting
  <2>5. GatewayTypeOK'
    BY <1>1, <2>2, <2>3, <2>4 DEF GatewayTypeOK, Tasks
  <2>6. TaskFact(task'[h], l) /\ l.allowed
    BY <1>1, <1>2, <2>1 DEF TaskFact
  <2>7. \A j, k \in Handlers :
          task'[j] # Idle /\ task'[k] # Idle /\ task'[j].nth = task'[k].nth => j = k
    BY <1>2, <2>1, <2>2 DEF GatewayInv, TasksInv
  <2>8. ASSUME NEW k \in Handlers, task'[k] # Idle
        PROVE  /\ task'[k].nth \in DOMAIN log /\ TaskFact(task'[k], letter[log[task'[k].nth].id])
               /\ Unanswered(task'[k]) => handled'[task'[k].nth] = 0
    <3>1. CASE k = h
      BY <1>2, <2>1, <2>6, <3>1 DEF Unanswered
    <3>2. CASE k # h
      <4>1. task'[k] = task[k] /\ task[k].nth \in Passages /\ task[k].nth # n
        BY <1>1, <1>2, <2>1, <2>2, <2>8, <3>2, TaskMessage DEF GatewayInv, TasksInv
      <4> QED BY <2>3, <2>8, <4>1 DEF GatewayInv, TasksInv
    <3> QED BY <3>1, <3>2
  <2>9. OnlyOursIsAnswered'
    <3>1. l.sender # "app" /\ l.listed /\ Ours(l) /\ l.allowed
      BY <1>1, <1>2, <2>6 DEF TaskFact, Dropped
    <3>2. \A p \in DOMAIN log \ {n} : handled'[p] = handled[p]
      BY <1>1, <2>3, LogFact
    <3>3. OnlyOursIsAnswered
      BY DEF GatewayInv
    <3> QED BY <2>4, <3>1, <3>2, <3>3 DEF OnlyOursIsAnswered
  <2>10. \A p \in Passages : handled'[p] <= 1 /\ (handled'[p] > 0 => p \in DOMAIN log)
    BY <1>2, <2>3 DEF GatewayInv, HandledOnce, HistoryInv
  <2>11. TasksInv'
    BY <2>4, <2>7, <2>8 DEF TasksInv
  <2>12. RingInv' /\ HistoryInv'
    BY <2>4, <2>10, RingKept DEF GatewayInv, HistoryInv
  <2>13. HandledOnce'
    BY <2>4, <2>10 DEF GatewayInv, HandledOnce
  <2> QED BY <2>4, <2>5, <2>9, <2>11, <2>12, <2>13 DEF GatewayInv
<1>4. CASE task' = [task EXCEPT ![h] = Idle] /\ UNCHANGED <<handled, route>>
  BY <1>4, TaskEnds DEF Images
<1> QED BY <1>3, <1>4 DEF Images

LEMMA GatewayInductive == GatewaySpec => []GatewayInv
<1>1. GatewayInit => GatewayInv
  <2> SUFFICES ASSUME GatewayInit PROVE GatewayInv
    OBVIOUS
  <2>1. log = <<>> /\ DOMAIN log = {} /\ log \in Seq([id: Messages, at: 0..MaxTime]) /\ Len(log) = 0
    BY DEF GatewayInit
  <2>2. GatewayTypeOK
    BY <2>1, GatewayAssumption
       DEF GatewayInit, GatewayTypeOK, NoClick, Unknown, Routes, Brokers
  <2>3. RingInv /\ TasksInv /\ HistoryInv
    BY <2>1 DEF GatewayInit, RingInv, TasksInv, HistoryInv
  <2>4. HandledOnce /\ OnlyOursIsAnswered
    BY <2>1 DEF GatewayInit, HandledOnce, OnlyOursIsAnswered, NoClick
  <2> QED BY <2>2, <2>3, <2>4 DEF GatewayInit, GatewayInv, Unknown
<1>2. GatewayInv /\ [GatewayNext]_gatewayVars => GatewayInv'
  <2> SUFFICES ASSUME GatewayInv, [GatewayNext]_gatewayVars PROVE GatewayInv'
    OBVIOUS
  <2>1. CASE IdentityArrives
    <3>1. identity' \in Identity \cup {Unknown} /\ lookup' \in {"none", "done"}
      BY <2>1 DEF IdentityArrives
    <3> QED BY <2>1, <3>1, ResumeInv DEF IdentityArrives
  <2>2. CASE IdentityFails
    <3>1. ~identity.known
      BY <2>2 DEF IdentityFails, GatewayInv
    <3>2. identity' \in Identity \cup {Unknown} /\ lookup' \in {"none", "done"}
      BY <2>2 DEF IdentityFails, GatewayInv, GatewayTypeOK
    <3> QED BY <2>2, <3>1, <3>2, ResumeInv DEF IdentityFails
  <2>3. ASSUME NEW h \in Handlers, Reject(h) PROVE GatewayInv'
    BY <2>3, TaskEnds DEF Reject
  <2>4. ASSUME NEW h \in Handlers, Return(h) PROVE GatewayInv'
    BY <2>4, TaskEnds DEF Return
  <2>5. ASSUME NEW group \in {"listed", "unlisted", "missing"}, NEW kind \in Brokers \cup {"other"},
               NEW allowed \in BOOLEAN, NEW complete \in BOOLEAN, NEW answer \in {"card", "none"},
               ClickCard(group, allowed, kind, complete, answer)
        PROVE  GatewayInv'
    <3>1. UNCHANGED <<socket, identity, lookup, lookups, asking, now, log, seen, letter, task,
                      handled, route, told>>
      BY <2>5 DEF ClickCard
    <3>2. /\ click' \in [chat: {"none", "listed", "unlisted", "missing"}, allowed: BOOLEAN,
                         to: Brokers \cup {"none"}, card: BOOLEAN]
          /\ click'.to # "none" => click'.chat = "listed" /\ click'.allowed
      BY <2>5 DEF ClickCard, GatewayInv, GatewayTypeOK, OnlyOursIsAnswered
    <3>3. GatewayTypeOK'
      BY <3>1, <3>2 DEF GatewayInv, GatewayTypeOK
    <3>4. RingInv' /\ TasksInv' /\ HistoryInv'
      BY <3>1, RingKept DEF GatewayInv, TasksInv, HistoryInv
    <3>5. HandledOnce' /\ OnlyOursIsAnswered'
      BY <3>1, <3>2 DEF GatewayInv, HandledOnce, OnlyOursIsAnswered
    <3> QED BY <3>1, <3>3, <3>4, <3>5 DEF GatewayInv
  <2>6. CASE UNCHANGED gatewayVars
    BY <2>6, GatewayUnchanged
  <2> QED BY <2>1, <2>2, <2>3, <2>4, <2>5, <2>6, TimePassesInv, DuplicateInv, StartInv, ReceiveInv,
             ImagesInv DEF GatewayNext
<1> QED BY <1>1, <1>2, PTL DEF GatewaySpec

\* Every state of Gateway has the types the source declares.
THEOREM GatewayTypeCorrect == GatewaySpec => []GatewayTypeOK
<1>1. GatewayInv => GatewayTypeOK
  BY DEF GatewayInv
<1> QED BY <1>1, GatewayInductive, PTL

\* However often Lark delivers a message, and however many of its deliveries are worked on at
\* the same time, it passes the dedup once within an hour, unless as many others as the ring
\* holds have passed since; and a delivery that passed is handled at most once.
THEOREM HandledAtMostOnce == GatewaySpec => []HandledOnce
<1>1. GatewayInv => HandledOnce
  BY DEF GatewayInv
<1> QED BY <1>1, GatewayInductive, PTL

\* Only messages to this bot are answered, and only by the rules for who may write.
THEOREM OnlyOursEver == GatewaySpec => []OnlyOursIsAnswered
<1>1. GatewayInv => OnlyOursIsAnswered
  BY DEF GatewayInv
<1> QED BY <1>1, GatewayInductive, PTL

\* However many handlers wait for the identity, Lark is asked for it by one call at a time,
\* and not again once it is known.
THEOREM OneIdentityLookup == GatewaySpec => []IdentityAskedOnce
<1>1. GatewayInv => IdentityAskedOnce
  BY DEF GatewayInv, IdentityAskedOnce, GatewayTypeOK
<1> QED BY <1>1, GatewayInductive, PTL

-----------------------------------------------------------------------------
(* TurnRendering: what every step of a turn preserves. *)

\* Places of the loop before the answer card is sent.
Early == {"ready", "cursor", "cursor_patch", "card", "convert", "patch", "notice", "middle",
          "each", "answer"}

\* What Feishu shows is a record for each card.
ViewShape(v) ==
    v = [k \in Cards |-> [count |-> v[k].count, shows |-> v[k].shows, seq |-> v[k].seq]]

\* The types, and the texts on their way are where the places say.
ShapeInv ==
    /\ RenderTypeOK
    /\ ViewShape(view)
    /\ at["loop"] = "middle" => Len(blocks) > 1
    /\ at["loop"] = "each" => pending # <<>>

\* Who is where when the turn has settled.
PlaceInv ==
    /\ outcome = "running" <=> at["loop"] # "over"
    /\ at["handler"] \notin {"send", "convert", "settle"} => outcome # "running"
    /\ at["handler"] \in {"cursor", "cursor_patch"} => outcome = "cancelled"

CardInv ==
    /\ \A k \in Cards : view[k].seq <= card[k].seq /\ view[k].count <= 1
    /\ view["status"].count > 0 => at["handler"] # "send"
    /\ \A k \in {"thinking", "tools"} : view[k].count > 0 => card[k].sent \/ card[k].off
    /\ at["loop"] = "card" => ~card[CardOf(event)].off

Is(reply, kind) == reply.kind = kind
AnswerInv ==
    /\ at["loop"] \in Early => \A n \in DOMAIN chat : ~Is(chat[n], "answer")
    /\ \A m, n \in DOMAIN chat : Is(chat[m], "answer") /\ Is(chat[n], "answer") => m = n

\* The card of the event that emit is busy with may be behind.
AtCard == at["loop"] \in {"cursor", "cursor_patch", "card", "patch"} /\ event.type # "text"
Fresh(k) == card[k].sent /\ ~card[k].off => view[k].shows = Content(k)
FreshInv == \A k \in {"thinking", "tools"} : Fresh(k) \/ (AtCard /\ k = CardOf(event))

StopInv ==
    /\ at["handler"] \in {"work", "alarm", "failure", "over"}
    /\ outcome = "cancelled" /\ started /\ card["status"].sent /\ ~missed
    => view["status"].shows = "stopped"

RenderInv == ShapeInv /\ PlaceInv /\ CardInv /\ AnswerInv /\ FreshInv /\ StopInv

LEMMA CardOfFact == \A e : CardOf(e) \in {"thinking", "tools"} /\ CardOf(e) \in Cards
BY DEF CardOf, Cards

Places == [loop: {"ready", "cursor", "cursor_patch", "card", "convert", "patch", "notice",
                  "middle", "each", "answer", "answer_text", "stats", "closing", "over"},
           handler: {"send", "convert", "settle", "cursor", "cursor_patch", "work",
                     "alarm", "failure", "over"}]

CardState == [sent: BOOLEAN, streams: BOOLEAN, off: BOOLEAN, seq: Nat]

\* Setting a flag of a card.
LEMMA FlagFact ==
    ASSUME NEW c \in CardState, NEW b \in BOOLEAN
    PROVE  /\ [c EXCEPT !.sent = b] \in CardState /\ [c EXCEPT !.sent = b].seq = c.seq
           /\ [c EXCEPT !.streams = b] \in CardState /\ [c EXCEPT !.streams = b].seq = c.seq
BY DEF CardState

\* Where a participant may go.
LEMMA GotoFact ==
    ASSUME at \in Places, NEW p \in {"loop", "handler"}, NEW x, Goto(p, x),
           p = "loop" => x \in {"ready", "cursor", "cursor_patch", "card", "convert", "patch",
                                "notice", "middle", "each", "answer", "answer_text", "stats",
                                "closing", "over"},
           p = "handler" => x \in {"send", "convert", "settle", "cursor", "cursor_patch", "work",
                                   "alarm", "failure", "over"}
    PROVE  at' \in Places /\ at'[p] = x /\ \A q \in {"loop", "handler"} \ {p} : at'[q] = at[q]
BY DEF Goto, Places

LEMMA CallFact ==
    ASSUME RenderTypeOK, NEW fate, Call(fate)
    PROVE  faults' \in 0..MaxFaults /\ fate \in {"ok", "refused", "lost"}
BY RenderAssumption DEF Call, Fates, RenderTypeOK

LEMMA SendFact ==
    ASSUME ViewShape(view), NEW k \in Cards, NEW c, NEW fate, Send(k, c, fate)
    PROVE  /\ ViewShape(view') /\ \A j \in Cards \ {k} : view'[j] = view[j]
           /\ fate = "refused" => view'[k] = view[k]
           /\ fate # "refused" => view'[k] = [count |-> view[k].count + 1, shows |-> c,
                                              seq |-> view[k].seq]
<1>1. DOMAIN view = Cards /\ \A j \in Cards :
         view[j] = [count |-> view[j].count, shows |-> view[j].shows, seq |-> view[j].seq]
  BY DEF ViewShape
<1>2. CASE fate = "refused"
  BY <1>2 DEF Send
<1>3. CASE fate # "refused"
  <2>1. view' = [view EXCEPT ![k].count = @ + 1, ![k].shows = c]
    BY <1>3 DEF Send
  <2>2. DOMAIN view' = Cards /\ \A j \in Cards \ {k} : view'[j] = view[j]
    BY <1>1, <2>1
  <2>3. view'[k] = [view[k] EXCEPT !.count = @ + 1, !.shows = c]
    BY <1>1, <2>1
  <2>4. view'[k] = [count |-> view[k].count + 1, shows |-> c, seq |-> view[k].seq]
    BY <1>1, <2>3
  <2>5. view' = [j \in Cards |-> view'[j]]
    BY <1>1, <2>1
  <2>6. \A j \in Cards :
          view'[j] = [count |-> view'[j].count, shows |-> view'[j].shows, seq |-> view'[j].seq]
    BY <1>1, <2>2, <2>4
  <2>7. ViewShape(view')
    BY <2>5, <2>6 DEF ViewShape
  <2> QED BY <1>3, <2>2, <2>4, <2>7
<1> QED BY <1>2, <1>3

LEMMA PatchFact ==
    ASSUME ViewShape(view), NEW k \in Cards, NEW c, NEW fate, Patch(k, c, fate)
    PROVE  /\ ViewShape(view') /\ \A j \in Cards \ {k} : view'[j] = view[j]
           /\ fate = "refused" => view'[k] = view[k]
           /\ fate # "refused" => view'[k] = [count |-> view[k].count, shows |-> c,
                                              seq |-> view[k].seq]
<1>1. DOMAIN view = Cards /\ \A j \in Cards :
         view[j] = [count |-> view[j].count, shows |-> view[j].shows, seq |-> view[j].seq]
  BY DEF ViewShape
<1>2. CASE fate = "refused"
  BY <1>2 DEF Patch
<1>3. CASE fate # "refused"
  <2>1. view' = [view EXCEPT ![k].shows = c]
    BY <1>3 DEF Patch
  <2>2. DOMAIN view' = Cards /\ \A j \in Cards \ {k} : view'[j] = view[j]
    BY <1>1, <2>1
  <2>3. view'[k] = [view[k] EXCEPT !.shows = c]
    BY <1>1, <2>1
  <2>4. view'[k] = [count |-> view[k].count, shows |-> c, seq |-> view[k].seq]
    BY <1>1, <2>3
  <2>5. view' = [j \in Cards |-> view'[j]]
    BY <1>1, <2>1
  <2>6. \A j \in Cards :
          view'[j] = [count |-> view'[j].count, shows |-> view'[j].shows, seq |-> view'[j].seq]
    BY <1>1, <2>2, <2>4
  <2>7. ViewShape(view')
    BY <2>5, <2>6 DEF ViewShape
  <2> QED BY <1>3, <2>2, <2>4, <2>7
<1> QED BY <1>2, <1>3

LEMMA StreamFact ==
    ASSUME ViewShape(view), NEW k \in Cards, NEW c, NEW n, NEW fate, Stream(k, c, n, fate)
    PROVE  /\ ViewShape(view') /\ \A j \in Cards \ {k} : view'[j] = view[j]
           /\ fate = "refused" \/ n <= view[k].seq => view'[k] = view[k]
           /\ fate # "refused" /\ ~(n <= view[k].seq) =>
                view'[k] = [count |-> view[k].count, shows |-> c, seq |-> n]
<1>1. DOMAIN view = Cards /\ \A j \in Cards :
         view[j] = [count |-> view[j].count, shows |-> view[j].shows, seq |-> view[j].seq]
  BY DEF ViewShape
<1>2. CASE fate = "refused" \/ n <= view[k].seq
  BY <1>2 DEF Stream
<1>3. CASE fate # "refused" /\ ~(n <= view[k].seq)
  <2>1. view' = [view EXCEPT ![k].shows = c, ![k].seq = n]
    BY <1>3 DEF Stream
  <2>2. DOMAIN view' = Cards /\ \A j \in Cards \ {k} : view'[j] = view[j]
    BY <1>1, <2>1
  <2>3. view'[k] = [view[k] EXCEPT !.shows = c, !.seq = n]
    BY <1>1, <2>1
  <2>4. view'[k] = [count |-> view[k].count, shows |-> c, seq |-> n]
    BY <1>1, <2>3
  <2>5. view' = [j \in Cards |-> view'[j]]
    BY <1>1, <2>1
  <2>6. \A j \in Cards :
          view'[j] = [count |-> view'[j].count, shows |-> view'[j].shows, seq |-> view'[j].seq]
    BY <1>1, <2>2, <2>4
  <2>7. ViewShape(view')
    BY <2>5, <2>6 DEF ViewShape
  <2> QED BY <1>3, <2>2, <2>4, <2>7
<1> QED BY <1>2, <1>3

\* A reply below the message.
LEMMA PostFact ==
    ASSUME chat \in Seq(Reply), NEW kind, NEW shown, NEW fate,
           [kind |-> kind, shows |-> shown] \in Reply, Post(kind, shown, fate)
    PROVE  /\ chat' \in Seq(Reply)
           /\ \A n \in DOMAIN chat' : \/ n \in DOMAIN chat /\ chat'[n] = chat[n]
                                      \/ n = Len(chat) + 1 /\ chat'[n].kind = kind
           /\ Len(chat) + 1 \notin DOMAIN chat
<1>1. CASE fate = "refused"
  BY <1>1 DEF Post
<1>2. CASE fate # "refused"
  BY <1>2 DEF Post
<1> QED BY <1>1, <1>2

-----------------------------------------------------------------------------
(* The steps of a turn that leave the cards alone. *)

\* Replies: notices, the text, statistics.
LEMMA TextStepInv ==
    ASSUME RenderInv, Texting, NEW x, Goto("loop", x),
           at["loop"] \in {"notice", "middle", "each", "answer", "answer_text", "stats"},
           x \in {"ready", "answer", "each", "answer_text", "stats", "closing"},
           pending' \in Seq(Nat), x = "each" => pending' # <<>>,
           NEW kind, NEW shown \in SUBSET Nat, NEW fate, Call(fate), Post(kind, shown, fate),
           kind \in {"middle", "block", "answer", "answer_text", "stats", "notice"},
           kind = "answer" <=> at["loop"] = "answer",
           at["loop"] \in {"answer", "answer_text", "stats"} => x \notin Early,
           at["loop"] = "notice" => x = "ready"
    PROVE  RenderInv'
<1>1. /\ at' \in Places /\ at'["loop"] = x /\ at'["handler"] = at["handler"]
      /\ UNCHANGED <<event, events, card, view, thoughts, tools, blocks, outcome, started, missed>>
  BY GotoFact DEF RenderInv, ShapeInv, RenderTypeOK, Places, Texting
<1>2. faults' \in 0..MaxFaults
  BY CallFact DEF RenderInv, ShapeInv
<1>3. /\ chat' \in Seq(Reply)
      /\ \A n \in DOMAIN chat' : \/ n \in DOMAIN chat /\ chat'[n] = chat[n]
                                 \/ n = Len(chat) + 1 /\ chat'[n].kind = kind
      /\ Len(chat) + 1 \notin DOMAIN chat
  <2>1. [kind |-> kind, shows |-> shown] \in Reply
    BY DEF Reply
  <2> QED BY <2>1, PostFact DEF RenderInv, ShapeInv, RenderTypeOK
<1>4. ShapeInv'
  BY <1>1, <1>2, <1>3 DEF RenderInv, ShapeInv, RenderTypeOK, Places
<1>5. PlaceInv' /\ CardInv' /\ StopInv'
  BY <1>1 DEF RenderInv, PlaceInv, CardInv, StopInv
<1>6. AnswerInv'
  BY <1>1, <1>3 DEF RenderInv, AnswerInv, Early, Is
<1>7. FreshInv'
  BY <1>1 DEF RenderInv, FreshInv, AtCard, Fresh, Content
<1> QED BY <1>4, <1>5, <1>6, <1>7 DEF RenderInv

LEMMA TextsInv ==
    ASSUME RenderInv, Notice \/ Middle \/ Each \/ Answer \/ AnswerText \/ Stats
    PROVE  RenderInv'
<1>1. /\ Len(blocks) \in Nat /\ pending \in Seq(Nat) /\ RenderTypeOK
      /\ \A fate : Call(fate) => fate \in {"ok", "refused", "lost"}
  BY CallFact DEF RenderInv, ShapeInv, RenderTypeOK
<1>2. CASE Notice
  BY <1>1, <1>2, TextStepInv DEF Notice, Early
<1>3. CASE Middle
  <2>1. /\ Final > 1 /\ 1..(Final - 1) \in SUBSET Nat
        /\ [n \in 1..(Final - 1) |-> n] \in Seq(Nat) /\ [n \in 1..(Final - 1) |-> n] # <<>>
    <3>1. Final > 1 /\ Final - 1 \in Nat /\ 1 \in 1..(Final - 1)
      BY <1>1, <1>3 DEF Middle, Final, RenderInv, ShapeInv
    <3>2. [n \in 1..(Final - 1) |-> n] \in Seq(Nat)
      BY <3>1
    <3>3. DOMAIN [n \in 1..(Final - 1) |-> n] # DOMAIN <<>>
      BY <3>1
    <3> QED BY <3>1, <3>2, <3>3
  <2>2. PICK fate : /\ Call(fate) /\ Post("middle", 1..(Final - 1), fate)
                    /\ Goto("loop", IF fate = "ok" THEN "answer" ELSE "each")
                    /\ pending' = IF fate = "ok" THEN <<>> ELSE [n \in 1..(Final - 1) |-> n]
    BY <1>3 DEF Middle
  <2>3. at["loop"] = "middle" /\ Texting
    BY <1>3 DEF Middle
  <2>4. CASE fate = "ok"
    <3>1. <<>> \in Seq(Nat)
      OBVIOUS
    <3> QED BY <2>1, <2>2, <2>3, <2>4, <3>1, TextStepInv DEF Early
  <2>5. CASE fate # "ok"
    BY <2>1, <2>2, <2>3, <2>5, TextStepInv DEF Early
  <2> QED BY <2>4, <2>5
<1>4. CASE Each
  <2>1. {Head(pending)} \in SUBSET Nat /\ Tail(pending) \in Seq(Nat)
    <3>1. pending # <<>>
      BY <1>4 DEF Each, RenderInv, ShapeInv
    <3>2. Head(pending) \in Nat /\ Tail(pending) \in Seq(Nat)
      BY <1>1, <3>1
    <3> QED BY <3>2
  <2> QED BY <1>1, <1>4, <2>1, TextStepInv DEF Each, Early
<1>5. CASE Answer
  BY <1>1, <1>5, TextStepInv DEF Answer, Final, AfterFlush, Early
<1>6. CASE AnswerText
  BY <1>1, <1>6, TextStepInv DEF AnswerText, Final, AfterFlush, Early
<1>7. CASE Stats
  BY <1>1, <1>7, TextStepInv DEF Stats, Early
<1> QED BY <1>2, <1>3, <1>4, <1>5, <1>6, <1>7

\* The handler reports what became of the turn, or waits for it.
LEMMA HandlerStepInv ==
    ASSUME RenderInv, Handling, UNCHANGED <<card, view, missed>>, faults' \in 0..MaxFaults,
           NEW x, Goto("handler", x),
           at["handler"] \in {"settle", "work", "alarm", "failure"},
           x \in {"cursor", "work", "alarm", "failure", "over"},
           outcome # "running", x = "cursor" => outcome = "cancelled",
           at["handler"] = "settle" => x = "cursor" \/ outcome # "cancelled" \/ ~started,
           at["handler"] # "settle" => x # "cursor",
           \/ UNCHANGED chat
           \/ \E fate, kind : kind \in {"work", "alarm", "failure"} /\ Post(kind, {}, fate)
    PROVE  RenderInv'
<1>1. /\ at' \in Places /\ at'["handler"] = x /\ at'["loop"] = at["loop"]
      /\ UNCHANGED <<event, events, thoughts, tools, blocks, pending, outcome, started>>
  BY GotoFact DEF RenderInv, ShapeInv, RenderTypeOK, Places, Handling
<1>2. /\ chat' \in Seq(Reply)
      /\ \A n \in DOMAIN chat' : \/ n \in DOMAIN chat /\ chat'[n] = chat[n]
                                 \/ n = Len(chat) + 1 /\ chat'[n].kind # "answer"
  <2>1. CASE UNCHANGED chat
    BY <2>1 DEF RenderInv, ShapeInv, RenderTypeOK
  <2>2. ASSUME NEW fate, NEW kind \in {"work", "alarm", "failure"}, Post(kind, {}, fate)
        PROVE  /\ chat' \in Seq(Reply)
               /\ \A n \in DOMAIN chat' : \/ n \in DOMAIN chat /\ chat'[n] = chat[n]
                                          \/ n = Len(chat) + 1 /\ chat'[n].kind # "answer"
    <3>1. [kind |-> kind, shows |-> {}] \in Reply
      BY DEF Reply
    <3> QED BY <2>2, <3>1, PostFact DEF RenderInv, ShapeInv, RenderTypeOK
  <2> QED BY <2>1, <2>2
<1>3. ShapeInv'
  BY <1>1, <1>2 DEF RenderInv, ShapeInv, RenderTypeOK, Places
<1>4. PlaceInv' /\ CardInv'
  BY <1>1 DEF RenderInv, PlaceInv, CardInv
<1>5. StopInv'
  BY <1>1 DEF RenderInv, StopInv
<1>6. AnswerInv'
  BY <1>1, <1>2 DEF RenderInv, AnswerInv, Is
<1>7. FreshInv'
  BY <1>1 DEF RenderInv, FreshInv, AtCard, Fresh, Content
<1> QED BY <1>3, <1>4, <1>5, <1>6, <1>7 DEF RenderInv

LEMMA HandlerInv ==
    ASSUME RenderInv, Settled \/ FinishWork \/ WorkAlarm \/ ReportFailure
    PROVE  RenderInv'
<1>1. \A fate : Call(fate) => faults' \in 0..MaxFaults
  BY CallFact DEF RenderInv, ShapeInv
<1>2. faults \in 0..MaxFaults /\ outcome \in {"running"} \cup Outcomes
  BY DEF RenderInv, ShapeInv, RenderTypeOK
<1>3. at["handler"] \in {"work", "alarm", "failure"} => outcome # "running"
  BY DEF RenderInv, PlaceInv
<1>4. CASE Settled
  <2>1. CASE outcome = "cancelled" /\ started
    BY <1>2, <1>4, <2>1, HandlerStepInv DEF Settled
  <2>2. CASE ~(outcome = "cancelled" /\ started)
    <3>1. Wrapup \in {"work", "failure", "over"}
      BY DEF Wrapup, AfterWork
    <3>2. outcome # "cancelled" \/ ~started
      BY <2>2
    <3> HIDE DEF Wrapup
    <3> QED BY <1>2, <1>4, <2>2, <3>1, <3>2, HandlerStepInv DEF Settled
  <2> QED BY <2>1, <2>2
<1>5. CASE FinishWork
  BY <1>1, <1>3, <1>5, HandlerStepInv DEF FinishWork, AfterWork
<1>6. CASE WorkAlarm
  BY <1>1, <1>3, <1>6, HandlerStepInv DEF WorkAlarm, AfterWork
<1>7. CASE ReportFailure
  BY <1>1, <1>3, <1>7, HandlerStepInv DEF ReportFailure
<1> QED BY <1>4, <1>5, <1>6, <1>7

LEMMA SendStatusInv ==
    ASSUME RenderInv, SendStatus
    PROVE  RenderInv'
<1>1. PICK fate : /\ Call(fate) /\ Send("status", "processing", fate)
                  /\ card' = [card EXCEPT !["status"].sent = (fate = "ok")]
                  /\ Goto("handler", IF fate = "ok" THEN "convert" ELSE "settle")
  BY DEF SendStatus
<1>2. /\ at' \in Places /\ at'["handler"] \in {"convert", "settle"} /\ at'["loop"] = at["loop"]
      /\ UNCHANGED <<event, events, thoughts, tools, blocks, pending, outcome, started, chat, missed>>
      /\ at["handler"] = "send"
  BY <1>1, GotoFact DEF RenderInv, ShapeInv, RenderTypeOK, Places, SendStatus, Handling
<1>3. faults' \in 0..MaxFaults
  BY <1>1, CallFact DEF RenderInv, ShapeInv
<1>4. "status" \in Cards /\ "status" \notin {"thinking", "tools"} /\ {"thinking", "tools"} \subseteq Cards
  BY DEF Cards
<1>5. /\ ViewShape(view') /\ \A j \in Cards \ {"status"} : view'[j] = view[j]
      /\ \/ view'["status"] = view["status"]
         \/ view'["status"] = [count |-> view["status"].count + 1, shows |-> "processing",
                               seq |-> view["status"].seq]
  BY <1>1, <1>4, SendFact DEF RenderInv, ShapeInv
<1>6. /\ card' \in [Cards -> [sent: BOOLEAN, streams: BOOLEAN, off: BOOLEAN, seq: Nat]]
      /\ \A j \in Cards \ {"status"} : card'[j] = card[j]
      /\ card'["status"].seq = card["status"].seq
  <2>1. PICK b \in BOOLEAN : card' = [card EXCEPT !["status"].sent = b]
    BY <1>1
  <2>2. card \in [Cards -> CardState]
    BY DEF RenderInv, ShapeInv, RenderTypeOK, CardState
  <2>3. /\ card["status"] \in CardState
        /\ \A j \in Cards \ {"status"} : card'[j] = card[j]
        /\ card'["status"] = [card["status"] EXCEPT !.sent = b]
        /\ card' = [j \in Cards |-> card'[j]]
    BY <1>4, <2>1, <2>2
  <2>4. card'["status"] \in CardState /\ card'["status"].seq = card["status"].seq
    <3> DEFINE c == card["status"]
    <3>1. c \in CardState
      BY <2>3
    <3> HIDE DEF c
    <3>2. [c EXCEPT !.sent = b] \in CardState /\ [c EXCEPT !.sent = b].seq = c.seq
      BY <3>1, FlagFact
    <3> QED BY <2>3, <3>2 DEF c
  <2>5. card' \in [Cards -> CardState]
    BY <2>2, <2>3, <2>4
  <2> QED BY <2>3, <2>4, <2>5 DEF CardState
<1>7. ShapeInv'
  <2>1. \A k \in Cards : view'[k].count \in Nat /\ view'[k].seq \in Nat
    <3>1. \A k \in Cards : view[k].count \in Nat /\ view[k].seq \in Nat
      BY DEF RenderInv, ShapeInv, RenderTypeOK
    <3>2. view'["status"].count \in Nat /\ view'["status"].seq \in Nat
      BY <1>4, <1>5, <3>1
    <3> QED BY <1>5, <3>1, <3>2
  <2>2. /\ DOMAIN view' = Cards /\ view'["status"].shows \in Lines
        /\ view'["thinking"].shows \in Nat /\ view'["tools"].shows \in Seq(Entry)
    <3>1. /\ view["status"].shows \in Lines /\ view["thinking"].shows \in Nat
          /\ view["tools"].shows \in Seq(Entry)
      BY DEF RenderInv, ShapeInv, RenderTypeOK
    <3>2. DOMAIN view' = Cards
      BY <1>5 DEF ViewShape
    <3>3. view'["thinking"] = view["thinking"] /\ view'["tools"] = view["tools"]
      BY <1>4, <1>5
    <3>4. view'["status"].shows \in Lines
      BY <1>5, <3>1 DEF Lines
    <3> QED BY <3>1, <3>2, <3>3, <3>4
  <2> QED BY <1>2, <1>3, <1>5, <1>6, <2>1, <2>2 DEF RenderInv, ShapeInv, RenderTypeOK, Places
<1>8. PlaceInv' /\ StopInv'
  BY <1>2 DEF RenderInv, PlaceInv, StopInv
<1>9. CardInv'
  <2>1. view["status"].count = 0 /\ view["status"].count \in Nat
    BY <1>2, <1>4 DEF RenderInv, CardInv, ShapeInv, RenderTypeOK
  <2> QED BY <1>2, <1>4, <1>5, <1>6, <2>1, CardOfFact DEF RenderInv, CardInv, CardOf
<1>10. AnswerInv'
  BY <1>2 DEF RenderInv, AnswerInv
<1>11. FreshInv'
  BY <1>2, <1>4, <1>5, <1>6 DEF RenderInv, FreshInv, AtCard, Fresh, Content
<1> QED BY <1>7, <1>8, <1>9, <1>10, <1>11 DEF RenderInv

LEMMA ConvertStatusInv ==
    ASSUME RenderInv, ConvertStatus
    PROVE  RenderInv'
<1>1. PICK fate : /\ Call(fate)
                  /\ card' = [card EXCEPT !["status"].streams = (fate = "ok")]
  BY DEF ConvertStatus
<1>2. /\ at' \in Places /\ at'["handler"] = "settle" /\ at'["loop"] = at["loop"]
      /\ UNCHANGED <<event, events, thoughts, tools, blocks, pending, outcome, started, chat,
                     missed, view>>
  BY GotoFact DEF RenderInv, ShapeInv, RenderTypeOK, Places, ConvertStatus, Handling
<1>3. faults' \in 0..MaxFaults
  BY <1>1, CallFact DEF RenderInv, ShapeInv
<1>4. "status" \in Cards /\ {"thinking", "tools"} \subseteq Cards \ {"status"}
  BY DEF Cards
<1>5. /\ card' \in [Cards -> [sent: BOOLEAN, streams: BOOLEAN, off: BOOLEAN, seq: Nat]]
      /\ \A j \in Cards \ {"status"} : card'[j] = card[j]
      /\ card'["status"].seq = card["status"].seq
  <2>1. PICK b \in BOOLEAN : card' = [card EXCEPT !["status"].streams = b]
    BY <1>1
  <2>2. card \in [Cards -> CardState]
    BY DEF RenderInv, ShapeInv, RenderTypeOK, CardState
  <2>3. /\ card["status"] \in CardState
        /\ \A j \in Cards \ {"status"} : card'[j] = card[j]
        /\ card'["status"] = [card["status"] EXCEPT !.streams = b]
        /\ card' = [j \in Cards |-> card'[j]]
    BY <1>4, <2>1, <2>2
  <2>4. card'["status"] \in CardState /\ card'["status"].seq = card["status"].seq
    <3> DEFINE c == card["status"]
    <3>1. c \in CardState
      BY <2>3
    <3> HIDE DEF c
    <3>2. [c EXCEPT !.streams = b] \in CardState /\ [c EXCEPT !.streams = b].seq = c.seq
      BY <3>1, FlagFact
    <3> QED BY <2>3, <3>2 DEF c
  <2>5. card' \in [Cards -> CardState]
    BY <2>2, <2>3, <2>4
  <2> QED BY <2>3, <2>4, <2>5 DEF CardState
<1>6. ShapeInv'
  BY <1>2, <1>3, <1>5 DEF RenderInv, ShapeInv, RenderTypeOK, Places
<1>7. PlaceInv' /\ StopInv'
  BY <1>2 DEF RenderInv, PlaceInv, StopInv
<1>8. CardInv'
  BY <1>2, <1>4, <1>5, CardOfFact DEF RenderInv, CardInv, CardOf
<1>9. AnswerInv'
  BY <1>2 DEF RenderInv, AnswerInv
<1>10. FreshInv'
  BY <1>2, <1>4, <1>5 DEF RenderInv, FreshInv, AtCard, Fresh, Content
<1> QED BY <1>6, <1>7, <1>8, <1>9, <1>10 DEF RenderInv

LEMMA SettleInv ==
    ASSUME RenderInv, NEW how \in Outcomes, Settle(how)
    PROVE  RenderInv'
<1>1. /\ at' \in Places /\ at'["loop"] = "over" /\ at'["handler"] = at["handler"]
      /\ UNCHANGED <<event, events, card, view, thoughts, tools, blocks, pending, started, chat,
                     missed, faults>>
      /\ outcome = "running" /\ outcome' = how /\ how # "running"
      /\ at["loop"] \in {"closing", "ready"}
  BY GotoFact DEF RenderInv, ShapeInv, RenderTypeOK, Places, Settle, turnState, Outcomes
<1>2. at["handler"] \in {"send", "convert", "settle"}
  BY <1>1 DEF RenderInv, PlaceInv
<1>3. ShapeInv'
  BY <1>1 DEF RenderInv, ShapeInv, RenderTypeOK, Places
<1>4. PlaceInv' /\ StopInv' /\ CardInv'
  BY <1>1, <1>2 DEF RenderInv, PlaceInv, StopInv, CardInv
<1>5. AnswerInv'
  BY <1>1 DEF RenderInv, AnswerInv, Early
<1>6. FreshInv'
  BY <1>1 DEF RenderInv, FreshInv, AtCard, Fresh, Content
<1> QED BY <1>3, <1>4, <1>5, <1>6 DEF RenderInv

LEMMA SaveFailsInv ==
    ASSUME RenderInv, SaveFails
    PROVE  RenderInv'
<1>1. UNCHANGED <<at, event, events, card, view, thoughts, tools, blocks, pending, outcome, started,
                  chat, missed>>
  BY DEF SaveFails, turnState
<1>2. faults' \in 0..MaxFaults
  BY RenderAssumption DEF SaveFails, RenderInv, ShapeInv, RenderTypeOK
<1>3. ShapeInv'
  BY <1>1, <1>2 DEF RenderInv, ShapeInv, RenderTypeOK
<1>4. PlaceInv' /\ StopInv' /\ CardInv' /\ AnswerInv'
  BY <1>1 DEF RenderInv, PlaceInv, StopInv, CardInv, AnswerInv
<1>5. FreshInv'
  BY <1>1 DEF RenderInv, FreshInv, AtCard, Fresh, Content
<1> QED BY <1>3, <1>4, <1>5 DEF RenderInv

-----------------------------------------------------------------------------
(* An event reaches emit. *)

LEMMA TakeInv ==
    ASSUME RenderInv, NEW e \in Event, Take(e), NEW x, Goto("loop", x),
           x \in {"ready", "cursor", "card", "notice", "middle", "answer", "stats", "closing"},
           events' \in 0..MaxEvents, tools' \in Seq(Entry),
           tools' = tools \/ (CardOf(e) = "tools" /\ e.type # "text"
                              /\ (x \in {"cursor", "card"} \/ card["tools"].off)),
           x = "card" => ~card[CardOf(e)].off,
           x = "middle" => Len(blocks) > 1
    PROVE  RenderInv'
<1>1. /\ at' \in Places /\ at'["loop"] = x /\ at'["handler"] = at["handler"]
      /\ UNCHANGED <<card, view, thoughts, blocks, pending, outcome, started, chat, missed, faults>>
      /\ outcome = "running" /\ event' = e /\ at["loop"] = "ready"
  BY GotoFact DEF RenderInv, ShapeInv, RenderTypeOK, Places, Take
<1>2. ShapeInv'
  BY <1>1 DEF RenderInv, ShapeInv, RenderTypeOK, Places
<1>3. PlaceInv' /\ StopInv' /\ CardInv'
  BY <1>1 DEF RenderInv, PlaceInv, StopInv, CardInv
<1>4. AnswerInv'
  BY <1>1 DEF RenderInv, AnswerInv, Early
<1>5. FreshInv'
  <2>1. Fresh("thinking") /\ Fresh("tools")
    BY <1>1 DEF RenderInv, FreshInv, AtCard
  <2>2. Fresh("thinking")'
    BY <1>1, <2>1 DEF Fresh, Content
  <2>3. Fresh("tools")' \/ (AtCard' /\ CardOf(event') = "tools")
    BY <1>1, <2>1 DEF Fresh, Content, AtCard
  <2> QED BY <2>2, <2>3 DEF FreshInv
<1> QED BY <1>2, <1>3, <1>4, <1>5 DEF RenderInv

LEMMA TakesInv ==
    ASSUME RenderInv, (\E e \in Event : TakeEvent(e)) \/ TakeTurnEnd
    PROVE  RenderInv'
<1>1. tools \in Seq(Entry) /\ events \in 0..MaxEvents /\ blocks \in Seq(Texts)
  BY DEF RenderInv, ShapeInv, RenderTypeOK
<1>2. ASSUME NEW e \in Event, TakeEvent(e) PROVE RenderInv'
  <2>1. events' \in 0..MaxEvents
    BY <1>1, <1>2, RenderAssumption DEF TakeEvent
  <2>2. CASE TakeText(e) \/ TakeThinking(e) \/ TakeToolUse(e) \/ TakeNotice(e)
    <3>1. UNCHANGED tools /\ Take(e)
      BY <2>2 DEF TakeText, TakeThinking, TakeToolUse, TakeNotice
    <3>2. PICK x \in {"ready", "cursor", "notice"} : Goto("loop", x)
      BY <2>2 DEF TakeText, TakeThinking, TakeToolUse, TakeNotice
    <3> QED BY <1>1, <2>1, <3>1, <3>2, TakeInv
  <2>3. CASE TakeToolResult(e)
    <3>1. e.type = "tool_result" /\ e.tool \in Tools /\ CardOf(e) = "tools" /\ Take(e)
      BY <2>3 DEF TakeToolResult, CardOf, Event
    <3>2. CASE /\ KnownAt(e.tool) # {}
               /\ tools' = [tools EXCEPT ![FirstOf(KnownAt(e.tool))].done = TRUE]
               /\ Goto("loop", "cursor")
      <4> DEFINE n == FirstOf(KnownAt(e.tool))
      <4>1. tools' \in Seq(Entry)
        <5>1. CASE n \in DOMAIN tools
          <6>1. tools[n] \in Entry
            BY <1>1, <5>1
          <6>2. [tools[n] EXCEPT !.done = TRUE] \in Entry
            BY <6>1 DEF Entry
          <6>3. tools' = [tools EXCEPT ![n] = [tools[n] EXCEPT !.done = TRUE]]
            BY <3>2
          <6> HIDE DEF n
          <6> QED BY <1>1, <5>1, <6>2, <6>3
        <5>2. CASE n \notin DOMAIN tools
          <6> HIDE DEF n
          <6>1. tools' = [m \in DOMAIN tools |-> tools[m]]
            BY <3>2, <5>2 DEF n
          <6>2. tools = [m \in DOMAIN tools |-> tools[m]]
            BY <1>1
          <6> QED BY <1>1, <6>1, <6>2
        <5> QED BY <5>1, <5>2
      <4> QED BY <2>1, <3>1, <3>2, <4>1, TakeInv
    <3>3. CASE /\ tools' = Append(tools, [tool |-> e.tool, done |-> TRUE])
               /\ Goto("loop", IF card["tools"].off THEN "ready" ELSE "card")
      <4>1. [tool |-> e.tool, done |-> TRUE] \in Entry
        BY <3>1 DEF Entry
      <4>2. tools' \in Seq(Entry)
        BY <1>1, <3>3, <4>1
      <4> QED BY <2>1, <3>1, <3>3, <4>2, TakeInv
    <3> QED BY <2>3, <3>2, <3>3 DEF TakeToolResult
  <2> QED BY <1>2, <2>2, <2>3 DEF TakeEvent
<1>3. CASE TakeTurnEnd
  <2>1. [type |-> "turn_end"] \in Event
    BY DEF Event
  <2>2. blocks # <<>> /\ Len(blocks) # 1 => Len(blocks) > 1
    <3>1. Len(blocks) \in Nat /\ (blocks # <<>> => Len(blocks) > 0)
      BY <1>1
    <3>2. \A n \in Nat : n > 0 /\ n # 1 => n > 1
      OBVIOUS
    <3> QED BY <3>1, <3>2
  <2>3. PICK x \in {"stats", "closing", "answer", "middle"} :
           Goto("loop", x) /\ (x = "middle" => Len(blocks) > 1)
    <3>1. AfterFlush \in {"stats", "closing"}
      BY DEF AfterFlush
    <3> DEFINE y == CASE blocks = <<>> -> AfterFlush
                      [] Len(blocks) = 1 -> "answer"
                      [] OTHER -> "middle"
    <3>2. CASE blocks = <<>>
      <4>1. Len(blocks) # 1
        BY <3>2
      <4>2. y = AfterFlush
        BY <3>2, <4>1
      <4> QED BY <1>3, <3>1, <4>2 DEF TakeTurnEnd
    <3>3. CASE blocks # <<>> /\ Len(blocks) = 1
      <4>1. y = "answer"
        BY <3>3
      <4> QED BY <1>3, <4>1 DEF TakeTurnEnd
    <3>4. CASE blocks # <<>> /\ Len(blocks) # 1
      <4>1. y = "middle"
        BY <3>4
      <4>2. Len(blocks) > 1
        BY <2>2, <3>4
      <4> QED BY <1>3, <4>1, <4>2 DEF TakeTurnEnd
    <3> QED BY <3>2, <3>3, <3>4
  <2> QED BY <1>1, <1>3, <2>1, <2>3, TakeInv DEF TakeTurnEnd
<1> QED BY <1>2, <1>3

-----------------------------------------------------------------------------
(* The steps that update a card. *)

\* A step that changes nothing but one card, its state and the place of a participant.
OneCard(k, p) ==
    /\ ViewShape(view') /\ card' \in [Cards -> CardState]
    /\ \A j \in Cards \ {k} : view'[j] = view[j] /\ card'[j] = card[j]
    /\ view'[k].count \in Nat /\ view'[k].seq \in Nat /\ view'[k].seq <= card'[k].seq
    /\ view'[k].count <= 1 /\ (k = "status" => view'[k].count = view[k].count)
    /\ at' \in Places /\ \A q \in {"loop", "handler"} \ {p} : at'[q] = at[q]
    /\ faults' \in 0..MaxFaults
    /\ UNCHANGED <<event, events, pending, chat, outcome, started>>

LEMMA OneCardShape ==
    ASSUME RenderInv, NEW k \in Cards, NEW p, OneCard(k, p),
           k = "status" => view'[k].shows \in Lines,
           k = "thinking" => view'[k].shows \in Nat,
           k = "tools" => view'[k].shows \in Seq(Entry),
           thoughts' \in Nat, tools' \in Seq(Entry), blocks' \in Seq(Texts), missed' \in BOOLEAN,
           (at'["loop"] = at["loop"] /\ UNCHANGED blocks) \/ at'["loop"] \notin {"middle", "each"}
    PROVE  ShapeInv'
<1>1. \A j \in Cards : view'[j].count \in Nat /\ view'[j].seq \in Nat
  BY DEF OneCard, RenderInv, ShapeInv, RenderTypeOK
<1>2. DOMAIN view' = Cards
  BY DEF OneCard, ViewShape
<1>3. /\ view'["status"].shows \in Lines /\ view'["thinking"].shows \in Nat
      /\ view'["tools"].shows \in Seq(Entry)
  <2>1. {"status", "thinking", "tools"} = Cards
    BY DEF Cards
  <2>2. /\ view["status"].shows \in Lines /\ view["thinking"].shows \in Nat
        /\ view["tools"].shows \in Seq(Entry)
    BY DEF RenderInv, ShapeInv, RenderTypeOK
  <2>3. \A j \in Cards : j = k \/ view'[j] = view[j]
    BY DEF OneCard
  <2> QED BY <2>1, <2>2, <2>3
<1>4. at' \in [loop: {"ready", "cursor", "cursor_patch", "card", "convert", "patch", "notice",
                      "middle", "each", "answer", "answer_text", "stats", "closing", "over"},
               handler: {"send", "convert", "settle", "cursor", "cursor_patch", "work",
                         "alarm", "failure", "over"}]
  BY DEF OneCard, Places
<1>5. card' \in [Cards -> [sent: BOOLEAN, streams: BOOLEAN, off: BOOLEAN, seq: Nat]]
  BY DEF OneCard, CardState
<1>6. UNCHANGED <<event, events, pending, chat, outcome, started>> /\ faults' \in 0..MaxFaults
  BY DEF OneCard
<1>7. RenderTypeOK'
  BY <1>1, <1>2, <1>3, <1>4, <1>5, <1>6 DEF RenderInv, ShapeInv, RenderTypeOK
<1> QED BY <1>6, <1>7 DEF RenderInv, ShapeInv, OneCard

\* emit updates the thinking card or the tool card.
LEMMA CardStepInv ==
    ASSUME RenderInv, NEW k, k = CardOf(event), OneCard(k, "loop"), CardCall,
           at["loop"] \in {"card", "convert", "patch"}, at'["loop"] \in {"ready", "convert", "patch"},
           view'[k].shows \in {view[k].shows, Content(k)},
           view'[k].count > 0 => card'[k].sent \/ card'[k].off,
           Fresh(k)' \/ (at'["loop"] = "patch" /\ AtCard)
    PROVE  RenderInv'
<1>1. k \in {"thinking", "tools"} /\ k \in Cards
  BY CardOfFact
<1>2. UNCHANGED <<event, events, thoughts, tools, blocks, pending, chat, outcome, started, missed>>
  BY DEF CardCall
<1>3. at'["handler"] = at["handler"] /\ "status" \in Cards \ {k}
  BY <1>1 DEF OneCard, Cards
<1>4. ShapeInv'
  <2>1. k = "thinking" => view'[k].shows \in Nat
    BY DEF Content, RenderInv, ShapeInv, RenderTypeOK
  <2>2. k = "tools" => view'[k].shows \in Seq(Entry)
    BY DEF Content, RenderInv, ShapeInv, RenderTypeOK
  <2>3. thoughts' \in Nat /\ tools' \in Seq(Entry) /\ blocks' \in Seq(Texts) /\ missed' \in BOOLEAN
    BY <1>2 DEF RenderInv, ShapeInv, RenderTypeOK
  <2>4. at'["loop"] \notin {"middle", "each"}
    OBVIOUS
  <2> QED BY <1>1, <2>1, <2>2, <2>3, <2>4, OneCardShape
<1>5. PlaceInv' /\ StopInv'
  BY <1>2, <1>3 DEF RenderInv, PlaceInv, StopInv, OneCard
<1>6. CardInv'
  <2>1. {"thinking", "tools"} \subseteq Cards
    BY DEF Cards
  <2>2. \A j \in Cards : view'[j].seq <= card'[j].seq /\ view'[j].count <= 1
    BY DEF OneCard, RenderInv, CardInv
  <2>3. \A j \in {"thinking", "tools"} : view'[j].count > 0 => card'[j].sent \/ card'[j].off
    BY <2>1 DEF OneCard, RenderInv, CardInv
  <2> QED BY <1>3, <2>2, <2>3 DEF CardInv, OneCard, RenderInv
<1>7. AnswerInv'
  BY <1>2 DEF RenderInv, AnswerInv, Early
<1>8. FreshInv'
  <2>1. {"thinking", "tools"} \subseteq Cards
    BY DEF Cards
  <2>2. ASSUME NEW j \in {"thinking", "tools"}, j # k PROVE Fresh(j)'
    <3>1. Fresh(j)
      BY <2>2 DEF RenderInv, FreshInv
    <3> QED BY <1>2, <2>1, <2>2, <3>1 DEF Fresh, Content, OneCard
  <2>3. Fresh(k)' \/ (AtCard' /\ k = CardOf(event'))
    BY <1>2 DEF AtCard
  <2> QED BY <2>2, <2>3 DEF FreshInv
<1> QED BY <1>4, <1>5, <1>6, <1>7, <1>8 DEF RenderInv

LEMMA CardStepsInv ==
    ASSUME RenderInv, CardStep
    PROVE  RenderInv'
<1>0. PICK k \in {"thinking", "tools"} : k = CardOf(event)
  BY CardOfFact
<1>1. k \in Cards /\ k # "status"
  BY DEF Cards
<1>2. /\ card \in [Cards -> CardState] /\ card[k] \in CardState /\ ViewShape(view)
      /\ view[k].count \in Nat /\ view[k].seq \in Nat /\ view[k].seq <= card[k].seq
      /\ view[k].count <= 1 /\ (view[k].count > 0 => card[k].sent \/ card[k].off)
      /\ at \in Places
  BY <1>1 DEF RenderInv, ShapeInv, RenderTypeOK, CardState, CardInv, Places
<1>3. \A fate : Call(fate) => faults' \in 0..MaxFaults /\ fate \in {"ok", "refused", "lost"}
  BY CallFact DEF RenderInv, ShapeInv
<1>4. CardCall /\ UNCHANGED <<event, events, pending, chat, outcome, started, thoughts, tools>>
  BY DEF CardStep, SendCard, ConvertCard, StreamCard, PatchCard, CardCall
<1>5. \A fate : (fate = "ok") \in BOOLEAN /\ (fate # "ok") \in BOOLEAN
  OBVIOUS
<1>6. CASE SendCard
  <2>1. PICK fate : /\ Call(fate) /\ Send(k, Content(k), fate)
                    /\ card' = [card EXCEPT ![k].sent = (fate = "ok"), ![k].off = (fate # "ok")]
                    /\ Goto("loop", IF fate = "ok" THEN "convert" ELSE "ready")
    BY <1>0, <1>6 DEF SendCard
  <2>2. at["loop"] = "card" /\ ~card[k].sent /\ ~card[k].off
    BY <1>0, <1>6 DEF SendCard, RenderInv, CardInv
  <2>3. /\ card' \in [Cards -> CardState] /\ \A j \in Cards \ {k} : card'[j] = card[j]
        /\ fate = "ok" => card'[k].sent
        /\ fate # "ok" => ~card'[k].sent /\ card'[k].off
        /\ card'[k].seq = card[k].seq
    <3>1. /\ \A j \in Cards \ {k} : card'[j] = card[j] /\ DOMAIN card' = Cards
          /\ card' = [j \in Cards |-> card'[j]]
          /\ card'[k] = [card[k] EXCEPT !.sent = (fate = "ok"), !.off = (fate # "ok")]
      BY <1>1, <1>2, <2>1
    <3>2. CASE fate = "ok"
      <4>1. card'[k] = [card[k] EXCEPT !.sent = TRUE, !.off = FALSE]
        BY <3>1, <3>2
      <4>2. card'[k] = [sent |-> TRUE, streams |-> card[k].streams, off |-> FALSE, seq |-> card[k].seq]
        BY <1>2, <4>1 DEF CardState
      <4>3. card'[k] \in CardState
        BY <1>2, <4>2 DEF CardState
      <4>4. card' \in [Cards -> CardState]
        BY <1>2, <3>1, <4>3
      <4>5. card'[k].sent /\ card'[k].seq = card[k].seq
        BY <4>2
      <4> QED BY <3>1, <3>2, <4>4, <4>5
    <3>3. CASE fate # "ok"
      <4>1. card'[k] = [card[k] EXCEPT !.sent = FALSE, !.off = TRUE]
        BY <3>1, <3>3
      <4>2. card'[k] = [sent |-> FALSE, streams |-> card[k].streams, off |-> TRUE, seq |-> card[k].seq]
        BY <1>2, <4>1 DEF CardState
      <4>3. card'[k] \in CardState
        BY <1>2, <4>2 DEF CardState
      <4>4. card' \in [Cards -> CardState]
        BY <1>2, <3>1, <4>3
      <4>5. ~card'[k].sent /\ card'[k].off /\ card'[k].seq = card[k].seq
        BY <4>2
      <4> QED BY <3>1, <3>3, <4>4, <4>5
    <3> QED BY <3>2, <3>3
  <2>4. /\ ViewShape(view') /\ \A j \in Cards \ {k} : view'[j] = view[j]
        /\ fate = "refused" => view'[k] = view[k]
        /\ fate # "refused" => view'[k] = [count |-> view[k].count + 1, shows |-> Content(k),
                                           seq |-> view[k].seq]
    BY <1>1, <1>2, <2>1, SendFact
  <2>5. view[k].count = 0
    BY <1>2, <2>2
  <2>6. /\ at' \in Places /\ at'["loop"] \in {"convert", "ready"}
        /\ at'["handler"] = at["handler"]
    BY <1>2, <2>1, GotoFact
  <2>7. OneCard(k, "loop")
    BY <1>1, <1>2, <1>3, <1>4, <2>1, <2>3, <2>4, <2>5, <2>6 DEF OneCard
  <2>8. view'[k].count > 0 => card'[k].sent \/ card'[k].off
    BY <2>3
  <2>9. Fresh(k)'
    <3>1. CASE fate = "ok"
      BY <1>4, <2>4, <3>1 DEF Fresh, Content
    <3>2. CASE fate # "ok"
      BY <2>3, <3>2 DEF Fresh
    <3> QED BY <3>1, <3>2
  <2>10. view'[k].shows \in {view[k].shows, Content(k)}
    BY <2>4
  <2> QED BY <1>0, <1>4, <2>2, <2>6, <2>7, <2>8, <2>9, <2>10, CardStepInv
<1>7. CASE ConvertCard
  <2>1. PICK fate : Call(fate) /\ card' = [card EXCEPT ![k].streams = (fate = "ok")]
    BY <1>0, <1>7 DEF ConvertCard
  <2>2. at["loop"] = "convert" /\ UNCHANGED view
    BY <1>7 DEF ConvertCard
  <2>3. /\ card' \in [Cards -> CardState] /\ \A j \in Cards \ {k} : card'[j] = card[j]
        /\ card'[k].sent = card[k].sent /\ card'[k].off = card[k].off /\ card'[k].seq = card[k].seq
    <3>1. /\ \A j \in Cards \ {k} : card'[j] = card[j] /\ DOMAIN card' = Cards
          /\ card' = [j \in Cards |-> card'[j]]
          /\ card'[k] = [card[k] EXCEPT !.streams = (fate = "ok")]
      BY <1>1, <1>2, <2>1
    <3>2. card'[k] \in CardState
      BY <1>2, <3>1 DEF CardState
    <3> QED BY <1>1, <1>2, <3>1, <3>2 DEF CardState
  <2>4. at' \in Places /\ at'["loop"] = "ready" /\ at'["handler"] = at["handler"]
    BY <1>2, <1>7, GotoFact DEF ConvertCard
  <2>5. OneCard(k, "loop")
    BY <1>1, <1>2, <1>3, <1>4, <2>1, <2>2, <2>3, <2>4 DEF OneCard
  <2>6. Fresh(k)
    BY <2>2 DEF RenderInv, FreshInv, AtCard
  <2>7. Fresh(k)'
    BY <1>4, <2>2, <2>3, <2>6 DEF Fresh, Content
  <2> QED BY <1>0, <1>2, <1>4, <2>2, <2>3, <2>4, <2>5, <2>7, CardStepInv
<1>8. CASE StreamCard
  <2>1. PICK fate :
          /\ Call(fate) /\ Stream(k, Content(k), card[k].seq + 1, fate)
          /\ card' = [card EXCEPT ![k].seq = @ + 1, ![k].streams = (fate = "ok")]
          /\ Goto("loop", IF fate = "ok" THEN "ready" ELSE "patch")
    BY <1>0, <1>8 DEF StreamCard
  <2>2. at["loop"] = "card" /\ card[k].sent /\ card[k].seq \in Nat
    BY <1>0, <1>2, <1>8 DEF StreamCard, CardState
  <2>3. /\ card' \in [Cards -> CardState] /\ \A j \in Cards \ {k} : card'[j] = card[j]
        /\ card'[k].sent = card[k].sent /\ card'[k].off = card[k].off
        /\ card'[k].seq = card[k].seq + 1
    <3>1. /\ \A j \in Cards \ {k} : card'[j] = card[j] /\ DOMAIN card' = Cards
          /\ card' = [j \in Cards |-> card'[j]]
      BY <1>1, <1>2, <2>1
    <3>2. card'[k] = [sent |-> card[k].sent, streams |-> (fate = "ok"), off |-> card[k].off,
                      seq |-> card[k].seq + 1]
      BY <1>1, <1>2, <2>1 DEF CardState
    <3>3. card[k].seq + 1 \in Nat
      BY <2>2
    <3>4. card'[k] \in CardState
      BY <1>2, <3>2, <3>3 DEF CardState
    <3>5. card' \in [Cards -> CardState]
      BY <1>2, <3>1, <3>4
    <3>6. card'[k].sent = card[k].sent /\ card'[k].off = card[k].off /\ card'[k].seq = card[k].seq + 1
      BY <3>2
    <3> QED BY <3>1, <3>5, <3>6
  <2>4. /\ ViewShape(view') /\ \A j \in Cards \ {k} : view'[j] = view[j]
        /\ fate = "refused" => view'[k] = view[k]
        /\ fate # "refused" => view'[k] = [count |-> view[k].count, shows |-> Content(k),
                                           seq |-> card[k].seq + 1]
    <3>1. ~(card[k].seq + 1 <= view[k].seq)
      BY <1>2, <2>2
    <3> QED BY <1>1, <1>2, <2>1, <3>1, StreamFact
  <2>5. /\ at' \in Places /\ at'["handler"] = at["handler"]
        /\ at'["loop"] = IF fate = "ok" THEN "ready" ELSE "patch"
    BY <1>2, <2>1, GotoFact
  <2>6. OneCard(k, "loop")
    BY <1>1, <1>2, <1>3, <1>4, <2>1, <2>2, <2>3, <2>4, <2>5 DEF OneCard
  <2>7. /\ view'[k].shows \in {view[k].shows, Content(k)}
        /\ view'[k].count > 0 => card'[k].sent \/ card'[k].off
    BY <2>2, <2>3, <2>4
  <2>8. CASE fate = "ok"
    <3>1. Fresh(k)'
      BY <1>4, <2>4, <2>8 DEF Fresh, Content
    <3> QED BY <1>0, <1>2, <1>4, <2>2, <2>3, <2>4, <2>5, <2>6, <2>8, <2>7, <3>1, CardStepInv
  <2>9. CASE fate # "ok"
    <3>1. Fresh(k) \/ AtCard
      BY DEF RenderInv, FreshInv
    <3>2. CASE AtCard
      BY <1>0, <1>2, <1>4, <2>2, <2>3, <2>4, <2>5, <2>6, <2>9, <2>7, <3>2, CardStepInv
    <3>3. CASE Fresh(k)
      <4>1. Fresh(k)'
        BY <1>4, <2>3, <2>4, <3>3 DEF Fresh, Content
      <4> QED BY <1>0, <1>2, <1>4, <2>2, <2>3, <2>4, <2>5, <2>6, <2>9, <2>7, <4>1, CardStepInv
    <3> QED BY <3>1, <3>2, <3>3
  <2> QED BY <2>8, <2>9
<1>9. CASE PatchCard
  <2>1. PICK fate : /\ Call(fate) /\ Patch(k, Content(k), fate)
                    /\ card' = [card EXCEPT ![k].off = (fate # "ok")]
    BY <1>0, <1>9 DEF PatchCard
  <2>2. at["loop"] \in {"card", "patch"} /\ card[k].sent
    BY <1>0, <1>9 DEF PatchCard
  <2>3. /\ card' \in [Cards -> CardState] /\ \A j \in Cards \ {k} : card'[j] = card[j]
        /\ card'[k].sent = card[k].sent /\ card'[k].off = (fate # "ok")
        /\ card'[k].seq = card[k].seq
    <3>1. /\ \A j \in Cards \ {k} : card'[j] = card[j] /\ DOMAIN card' = Cards
          /\ card' = [j \in Cards |-> card'[j]]
          /\ card'[k] = [card[k] EXCEPT !.off = (fate # "ok")]
      BY <1>1, <1>2, <2>1
    <3>2. card'[k] \in CardState
      BY <1>2, <3>1 DEF CardState
    <3> QED BY <1>1, <1>2, <3>1, <3>2 DEF CardState
  <2>4. /\ ViewShape(view') /\ \A j \in Cards \ {k} : view'[j] = view[j]
        /\ fate = "refused" => view'[k] = view[k]
        /\ fate # "refused" => view'[k] = [count |-> view[k].count, shows |-> Content(k),
                                           seq |-> view[k].seq]
    BY <1>1, <1>2, <2>1, PatchFact
  <2>5. at' \in Places /\ at'["loop"] = "ready" /\ at'["handler"] = at["handler"]
    BY <1>2, <1>9, GotoFact DEF PatchCard
  <2>6. OneCard(k, "loop")
    BY <1>1, <1>2, <1>3, <1>4, <2>1, <2>3, <2>4, <2>5 DEF OneCard
  <2>7. Fresh(k)'
    <3>1. CASE fate = "ok"
      BY <1>4, <2>4, <3>1 DEF Fresh, Content
    <3>2. CASE fate # "ok"
      BY <2>3, <3>2 DEF Fresh
    <3> QED BY <3>1, <3>2
  <2>8. /\ view'[k].shows \in {view[k].shows, Content(k)}
        /\ view'[k].count > 0 => card'[k].sent \/ card'[k].off
    BY <2>2, <2>3, <2>4
  <2> QED BY <1>0, <1>2, <1>4, <2>2, <2>5, <2>6, <2>7, <2>8, CardStepInv
<1> QED BY <1>6, <1>7, <1>8, <1>9 DEF CardStep

-----------------------------------------------------------------------------
(* The status line, updated by the loop and by the handler. *)

LEMMA AfterCursorTyped ==
    ASSUME ShapeInv, PlaceInv, NEW p \in {"loop", "handler"}, at[p] \in {"cursor", "cursor_patch"},
           p = "loop" => event.type \in {"text", "thinking", "tool_use", "tool_result"},
           AfterCursor(p) \/ (Goto(p, "cursor_patch") /\ UNCHANGED <<thoughts, tools, blocks>>)
    PROVE  /\ at' \in Places /\ \A q \in {"loop", "handler"} \ {p} : at'[q] = at[q]
           /\ thoughts' \in Nat /\ tools' \in Seq(Entry) /\ blocks' \in Seq(Texts)
           /\ p = "loop" => /\ at'["loop"] \in {"ready", "card", "cursor_patch"}
                            /\ at'["loop"] = "card" => ~card[CardOf(event)].off
           /\ p = "handler" => /\ at'["handler"] \in {"cursor_patch", "work", "failure", "over"}
                               /\ UNCHANGED <<thoughts, tools, blocks>>
<1>1. /\ at \in Places /\ event \in Event /\ thoughts \in Nat /\ tools \in Seq(Entry)
      /\ blocks \in Seq(Texts)
  BY DEF ShapeInv, RenderTypeOK, Places
<1>2. CASE Goto(p, "cursor_patch") /\ UNCHANGED <<thoughts, tools, blocks>>
  BY <1>1, <1>2, GotoFact
<1>3. CASE AfterCursor(p) /\ p = "handler"
  <2>1. Goto(p, Wrapup) /\ Wrapup \in {"work", "failure", "over"} /\ UNCHANGED <<thoughts, tools, blocks>>
    BY <1>3 DEF AfterCursor, Wrapup, AfterWork
  <2> QED BY <1>1, <1>3, <2>1, GotoFact
<1>4. CASE AfterCursor(p) /\ p = "loop"
  <2>1. PICK x \in {"ready", "card"} : Goto("loop", x) /\ (x = "card" => ~card[CardOf(event)].off)
    BY <1>4 DEF AfterCursor
  <2>2. event.type = "text" => event.text \in Texts
    BY <1>1 DEF Event
  <2>3. event.type = "tool_use" => [tool |-> event.tool, done |-> FALSE] \in Entry
    BY <1>1 DEF Event, Entry
  <2>4. /\ blocks' = IF event.type = "text" THEN Append(blocks, event.text) ELSE blocks
        /\ thoughts' = IF event.type = "thinking" THEN thoughts + 1 ELSE thoughts
        /\ tools' = IF event.type = "tool_use"
                    THEN Append(tools, [tool |-> event.tool, done |-> FALSE]) ELSE tools
    BY <1>4 DEF AfterCursor
  <2>5. blocks' \in Seq(Texts)
    BY <1>1, <2>2, <2>4
  <2>6. thoughts' \in Nat
    BY <1>1, <2>4
  <2>7. tools' \in Seq(Entry)
    BY <1>1, <2>3, <2>4
  <2> QED BY <1>1, <1>4, <2>1, <2>5, <2>6, <2>7, GotoFact
<1> QED BY <1>2, <1>3, <1>4

\* What the loop is busy with when it updates the status line.
CursorInv == at["loop"] \in {"cursor", "cursor_patch"} =>
                 event.type \in {"text", "thinking", "tool_use", "tool_result"}

LEMMA CursorStepInv ==
    ASSUME RenderInv, CursorInv, NEW p \in {"loop", "handler"}, at[p] \in {"cursor", "cursor_patch"},
           OneCard("status", p), missed' \in BOOLEAN,
           card'["status"].sent = card["status"].sent,
           view'["status"].shows \in {view["status"].shows, CursorLine(p)},
           AfterCursor(p) \/ (Goto(p, "cursor_patch") /\ UNCHANGED <<thoughts, tools, blocks>>),
           at'[p] # "cursor_patch" /\ card["status"].sent /\ ~missed' =>
                view'["status"].shows = CursorLine(p)
    PROVE  RenderInv'
<1>1. /\ at' \in Places /\ \A q \in {"loop", "handler"} \ {p} : at'[q] = at[q]
      /\ thoughts' \in Nat /\ tools' \in Seq(Entry) /\ blocks' \in Seq(Texts)
      /\ p = "loop" => /\ at'["loop"] \in {"ready", "card", "cursor_patch"}
                       /\ at'["loop"] = "card" => ~card[CardOf(event)].off
      /\ p = "handler" => /\ at'["handler"] \in {"cursor_patch", "work", "failure", "over"}
                          /\ UNCHANGED <<thoughts, tools, blocks>>
  BY AfterCursorTyped DEF RenderInv, CursorInv
<1>2. /\ "status" \in Cards /\ {"thinking", "tools"} \subseteq Cards \ {"status"}
      /\ \A j \in {"thinking", "tools"} : view'[j] = view[j] /\ card'[j] = card[j]
      /\ UNCHANGED <<event, events, pending, chat, outcome, started>>
  <2>1. "status" \in Cards /\ {"thinking", "tools"} \subseteq Cards \ {"status"}
    BY DEF Cards
  <2> QED BY <2>1 DEF OneCard
<1>3. ShapeInv'
  <2>1. view["status"].shows \in Lines
    BY DEF RenderInv, ShapeInv, RenderTypeOK
  <2>2. view'["status"].shows \in Lines
    BY <2>1 DEF CursorLine, Line, Lines
  <2>3. (at'["loop"] = at["loop"] /\ UNCHANGED blocks) \/ at'["loop"] \notin {"middle", "each"}
    BY <1>1
  <2> QED BY <1>1, <1>2, <2>2, <2>3, OneCardShape
<1>4. CASE p = "handler"
  <2>1. at'["loop"] = at["loop"] /\ at["loop"] = "over" /\ outcome = "cancelled"
    BY <1>1, <1>4 DEF RenderInv, PlaceInv
  <2>2. PlaceInv'
    BY <1>1, <1>2, <1>4, <2>1 DEF RenderInv, PlaceInv
  <2>3. CardInv'
    BY <1>1, <1>2, <1>4, <2>1 DEF RenderInv, CardInv, OneCard
  <2>4. AnswerInv'
    BY <1>2, <2>1 DEF RenderInv, AnswerInv, Early
  <2>5. FreshInv'
    <3>1. Fresh("thinking") /\ Fresh("tools")
      BY <2>1 DEF RenderInv, FreshInv, AtCard
    <3> QED BY <1>1, <1>2, <1>4, <3>1 DEF FreshInv, Fresh, Content
  <2>6. StopInv'
    BY <1>1, <1>4 DEF StopInv, CursorLine
  <2> QED BY <1>3, <2>2, <2>3, <2>4, <2>5, <2>6 DEF RenderInv
<1>5. CASE p = "loop"
  <2>1. at'["handler"] = at["handler"] /\ at'["loop"] \in {"ready", "card", "cursor_patch"}
        /\ outcome = "running" /\ at["handler"] \in {"send", "convert", "settle"}
    BY <1>1, <1>5 DEF RenderInv, PlaceInv
  <2>2. PlaceInv' /\ StopInv'
    BY <1>2, <2>1 DEF RenderInv, PlaceInv, StopInv
  <2>3. CardInv'
    <3>1. CardOf(event) \in {"thinking", "tools"}
      BY CardOfFact
    <3>2. at'["loop"] = "card" => ~card'[CardOf(event)].off
      BY <1>1, <1>2, <1>5, <3>1
    <3> QED BY <1>2, <2>1, <3>2 DEF RenderInv, CardInv, OneCard
  <2>4. AnswerInv'
    BY <1>2, <1>5, <2>1 DEF RenderInv, AnswerInv, Early
  <2>5. FreshInv'
    <3>1. CASE Goto(p, "cursor_patch") /\ UNCHANGED <<thoughts, tools, blocks>>
      <4>1. at'["loop"] = "cursor_patch"
        BY <1>5, <3>1 DEF Goto, RenderInv, ShapeInv, RenderTypeOK
      <4> QED BY <1>2, <1>5, <3>1, <4>1 DEF RenderInv, FreshInv, Fresh, Content, AtCard
    <3>2. CASE AfterCursor(p) /\ event.type = "text"
      <4>1. UNCHANGED <<thoughts, tools>> /\ Fresh("thinking") /\ Fresh("tools")
        BY <1>5, <3>2 DEF AfterCursor, RenderInv, FreshInv, AtCard
      <4> QED BY <1>2, <4>1 DEF FreshInv, Fresh, Content
    <3>3. CASE AfterCursor(p) /\ event.type # "text"
      <4>1. PICK k \in {"thinking", "tools"} : k = CardOf(event)
        BY CardOfFact
      <4>2. ASSUME NEW j \in {"thinking", "tools"}, j # k PROVE Fresh(j)'
        <5>1. Fresh(j)
          BY <4>1, <4>2 DEF RenderInv, FreshInv
        <5>2. j = "thinking" => UNCHANGED thoughts
          BY <1>5, <3>3, <4>1, <4>2 DEF AfterCursor, CardOf
        <5>3. j = "tools" => UNCHANGED tools
          BY <1>5, <3>3, <4>1, <4>2 DEF AfterCursor, CardOf
        <5> QED BY <1>2, <5>1, <5>2, <5>3 DEF Fresh, Content
      <4>3. card'[k].off \/ at'["loop"] = "card"
        <5>1. Goto("loop", IF card[k].off THEN "ready" ELSE "card")
          BY <1>5, <3>3, <4>1 DEF AfterCursor
        <5> QED BY <1>2, <5>1 DEF Goto, RenderInv, ShapeInv, RenderTypeOK
      <4>4. Fresh(k)' \/ (AtCard' /\ k = CardOf(event'))
        BY <1>2, <3>3, <4>1, <4>3 DEF Fresh, AtCard
      <4> QED BY <4>2, <4>4 DEF FreshInv
    <3> QED BY <3>1, <3>2, <3>3
  <2> QED BY <1>3, <2>2, <2>3, <2>4, <2>5 DEF RenderInv
<1> QED BY <1>4, <1>5

LEMMA CursorsInv ==
    ASSUME RenderInv, CursorInv, NEW p \in {"loop", "handler"}, Cursor(p)
    PROVE  RenderInv'
<1>1. /\ card \in [Cards -> CardState] /\ card["status"] \in CardState /\ ViewShape(view)
      /\ view["status"].count \in Nat /\ view["status"].seq \in Nat
      /\ view["status"].seq <= card["status"].seq /\ view["status"].count <= 1
      /\ "status" \in Cards /\ missed \in BOOLEAN /\ faults \in 0..MaxFaults
  <2>1. "status" \in Cards
    BY DEF Cards
  <2> QED BY <2>1 DEF RenderInv, ShapeInv, RenderTypeOK, CardState, CardInv
<1>2. \A fate : Call(fate) => faults' \in 0..MaxFaults /\ fate \in {"ok", "refused", "lost"}
  BY CallFact DEF RenderInv, ShapeInv
<1>3. /\ at[p] \in {"cursor", "cursor_patch"}
      /\ UNCHANGED <<event, events, pending, chat, outcome, started>>
      /\ AfterCursor(p) \/ (Goto(p, "cursor_patch") /\ UNCHANGED <<thoughts, tools, blocks>>)
  BY DEF Cursor, StreamCursor, PatchCursor, NoCursor
<1>4. at' \in Places /\ \A q \in {"loop", "handler"} \ {p} : at'[q] = at[q]
  BY <1>3, AfterCursorTyped DEF RenderInv, CursorInv
<1>5. CASE StreamCursor(p)
  <2>1. PICK fate : /\ Call(fate)
                    /\ card' = [card EXCEPT !["status"].seq = @ + 1, !["status"].streams = (fate = "ok")]
                    /\ Stream("status", CursorLine(p), card["status"].seq + 1, fate)
                    /\ IF fate = "ok"
                       THEN AfterCursor(p) /\ missed' = FALSE
                       ELSE Goto(p, "cursor_patch") /\ UNCHANGED <<thoughts, tools, blocks, missed>>
    BY <1>5 DEF StreamCursor
  <2>2. /\ card' \in [Cards -> CardState] /\ \A j \in Cards \ {"status"} : card'[j] = card[j]
        /\ card'["status"].sent = card["status"].sent
        /\ card'["status"].seq = card["status"].seq + 1
    <3>1. /\ \A j \in Cards \ {"status"} : card'[j] = card[j] /\ DOMAIN card' = Cards
          /\ card' = [j \in Cards |-> card'[j]]
          /\ card'["status"] = [card["status"] EXCEPT !.seq = @ + 1, !.streams = (fate = "ok")]
      BY <1>1, <2>1
    <3>2. card'["status"] \in CardState
      <4>1. card["status"].seq + 1 \in Nat /\ (fate = "ok") \in BOOLEAN
        BY <1>1 DEF CardState
      <4> QED BY <1>1, <3>1, <4>1 DEF CardState
    <3> QED BY <1>1, <3>1, <3>2 DEF CardState
  <2>3. ~(card["status"].seq + 1 <= view["status"].seq) /\ card["status"].seq \in Nat
    BY <1>1 DEF CardState
  <2>4. /\ ViewShape(view') /\ \A j \in Cards \ {"status"} : view'[j] = view[j]
        /\ fate = "refused" => view'["status"] = view["status"]
        /\ fate # "refused" => view'["status"] = [count |-> view["status"].count,
                                 shows |-> CursorLine(p), seq |-> card["status"].seq + 1]
    BY <1>1, <2>1, <2>3, StreamFact
  <2>5. OneCard("status", p)
    <3>1. view'["status"].count = view["status"].count
      BY <2>4
    <3>2. view'["status"].seq \in Nat /\ view'["status"].seq <= card'["status"].seq
      BY <1>1, <2>2, <2>3, <2>4
    <3> QED BY <1>1, <1>2, <1>3, <1>4, <2>1, <2>2, <2>4, <3>1, <3>2 DEF OneCard
  <2>6. view'["status"].shows \in {view["status"].shows, CursorLine(p)}
    BY <2>4
  <2>7. missed' \in BOOLEAN
    BY <1>1, <2>1
  <2>8. at'[p] # "cursor_patch" => view'["status"].shows = CursorLine(p)
    <3>1. CASE fate = "ok"
      BY <2>4, <3>1
    <3>2. CASE fate # "ok"
      BY <1>3, <2>1, <3>2, GotoFact DEF RenderInv, ShapeInv, RenderTypeOK, Places
    <3> QED BY <3>1, <3>2
  <2> QED BY <1>3, <2>2, <2>5, <2>6, <2>7, <2>8, CursorStepInv
<1>6. CASE PatchCursor(p)
  <2>1. PICK fate : Call(fate) /\ Patch("status", CursorLine(p), fate) /\ missed' = (fate = "refused")
    BY <1>6 DEF PatchCursor
  <2>2. UNCHANGED card
    BY <1>6 DEF PatchCursor
  <2>3. /\ ViewShape(view') /\ \A j \in Cards \ {"status"} : view'[j] = view[j]
        /\ fate = "refused" => view'["status"] = view["status"]
        /\ fate # "refused" => view'["status"] = [count |-> view["status"].count,
                                 shows |-> CursorLine(p), seq |-> view["status"].seq]
    BY <1>1, <2>1, PatchFact
  <2>4. /\ view'["status"].count = view["status"].count /\ view'["status"].seq = view["status"].seq
        /\ view'["status"].shows \in {view["status"].shows, CursorLine(p)}
    BY <2>3
  <2>5. OneCard("status", p)
    BY <1>1, <1>2, <1>3, <1>4, <2>1, <2>2, <2>3, <2>4 DEF OneCard
  <2>6. missed' \in BOOLEAN
    BY <2>1
  <2>7. card'["status"].sent = card["status"].sent
    BY <2>2
  <2>8. CASE missed'
    BY <1>3, <2>4, <2>5, <2>6, <2>7, <2>8, CursorStepInv
  <2>9. CASE ~missed'
    <3>1. view'["status"].shows = CursorLine(p)
      <4>1. missed' = (fate = "refused")
        BY <2>1
      <4>2. fate # "refused"
        BY <2>9, <4>1, Zenon
      <4> QED BY <2>3, <4>2
    <3> QED BY <1>3, <2>4, <2>5, <2>6, <2>7, <3>1, CursorStepInv
  <2> QED BY <2>8, <2>9
<1>7. CASE NoCursor(p)
  <2>1. UNCHANGED <<card, view, missed, faults>> /\ ~card["status"].sent
    BY <1>7 DEF NoCursor
  <2>2. OneCard("status", p)
    BY <1>1, <1>3, <1>4, <2>1 DEF OneCard
  <2> QED BY <1>1, <1>3, <2>1, <2>2, CursorStepInv
<1> QED BY <1>5, <1>6, <1>7 DEF Cursor

LEMMA CursorKept ==
    ASSUME RenderTypeOK, CursorInv, RenderNext
    PROVE  CursorInv'
<1>1. "loop" \in DOMAIN at /\ "handler" \in DOMAIN at /\ at \in Places
  BY DEF RenderTypeOK, Places
<1>3. CASE HandlerStep
  <2>1. PICK x : Goto("handler", x)
    BY <1>3 DEF HandlerStep, SendStatus, ConvertStatus, Settled, Cursor, StreamCursor, PatchCursor,
                NoCursor, AfterCursor, FinishWork, WorkAlarm, ReportFailure
  <2>2. UNCHANGED event
    BY <1>3 DEF HandlerStep, SendStatus, ConvertStatus, Settled, Cursor, StreamCursor, PatchCursor,
                NoCursor, FinishWork, WorkAlarm, ReportFailure, Handling
  <2>3. at'["loop"] = at["loop"]
    BY <1>1, <2>1 DEF Goto
  <2> QED BY <2>2, <2>3 DEF CursorInv
<1>4. CASE Cursor("loop")
  <2>1. UNCHANGED event /\ at["loop"] \in {"cursor", "cursor_patch"}
    BY <1>4 DEF Cursor, StreamCursor, PatchCursor, NoCursor
  <2> QED BY <2>1 DEF CursorInv
<1>5. CASE CardStep \/ Notice \/ Middle \/ Each \/ Answer \/ AnswerText \/ Stats \/ CloseTurn
           \/ \E how \in {"cancelled", "failed"} : Settle(how)
  <2>1. PICK x \in {"ready", "convert", "patch", "answer", "each", "answer_text", "stats", "closing",
                   "over"} : Goto("loop", x)
    BY <1>5 DEF CardStep, SendCard, ConvertCard, StreamCard, PatchCard, Notice, Middle, Each, Answer,
                AnswerText, Stats, AfterFlush, CloseTurn, Settle
  <2>2. at'["loop"] = x
    BY <1>1, <2>1 DEF Goto
  <2> QED BY <2>2 DEF CursorInv
<1>6. CASE SaveFails
  BY <1>6 DEF SaveFails, CursorInv
<1>7. ASSUME NEW e \in Event, TakeEvent(e) PROVE CursorInv'
  <2>1. event' = e
    BY <1>7 DEF TakeEvent, TakeText, TakeThinking, TakeToolUse, TakeToolResult, TakeNotice, Take
  <2>2. CASE e.type = "notice"
    <3>1. Goto("loop", "notice")
      BY <1>7, <2>2 DEF TakeEvent, TakeText, TakeThinking, TakeToolUse, TakeToolResult, TakeNotice
    <3>2. at'["loop"] = "notice"
      BY <1>1, <3>1 DEF Goto
    <3> QED BY <3>2 DEF CursorInv
  <2>3. CASE e.type # "notice"
    <3>1. e.type \in {"text", "thinking", "tool_use", "tool_result"}
      BY <1>7, <2>3 DEF TakeEvent, TakeText, TakeThinking, TakeToolUse, TakeToolResult, TakeNotice
    <3> QED BY <2>1, <3>1 DEF CursorInv
  <2> QED BY <2>2, <2>3
<1>8. CASE TakeTurnEnd
  <2>1. PICK x \in {"stats", "closing", "answer", "middle"} : Goto("loop", x)
    <3>1. AfterFlush \in {"stats", "closing"}
      BY DEF AfterFlush
    <3>2. (CASE blocks = <<>> -> AfterFlush
             [] Len(blocks) = 1 -> "answer"
             [] OTHER -> "middle") \in {"stats", "closing", "answer", "middle"}
      <4>1. CASE blocks = <<>>
        <5>1. Len(blocks) # 1
          BY <4>1
        <5> QED BY <3>1, <4>1, <5>1
      <4>2. CASE blocks # <<>>
        BY <4>2
      <4> QED BY <4>1, <4>2
    <3> QED BY <1>8, <3>2 DEF TakeTurnEnd
  <2>2. at'["loop"] = x
    BY <1>1, <2>1 DEF Goto
  <2> QED BY <2>2 DEF CursorInv
<1>9. EmitStep => Cursor("loop") \/ CardStep \/ Notice \/ Middle \/ Each \/ Answer \/ AnswerText \/ Stats
  BY DEF EmitStep
<1> QED BY <1>3, <1>4, <1>5, <1>6, <1>7, <1>8, <1>9 DEF RenderNext

LEMMA RenderUnchanged ==
    ASSUME RenderInv, CursorInv, UNCHANGED renderVars
    PROVE  RenderInv' /\ CursorInv'
<1>1. UNCHANGED <<at, event, events, card, view, thoughts, tools, blocks, pending, outcome, started,
                  chat, missed, faults>>
  BY DEF renderVars, turnState
<1>2. ShapeInv'
  BY <1>1 DEF RenderInv, ShapeInv, RenderTypeOK
<1>3. PlaceInv' /\ StopInv' /\ CardInv' /\ AnswerInv' /\ CursorInv'
  BY <1>1 DEF RenderInv, PlaceInv, StopInv, CardInv, AnswerInv, CursorInv
<1>4. FreshInv'
  BY <1>1 DEF RenderInv, FreshInv, AtCard, Fresh, Content
<1> QED BY <1>2, <1>3, <1>4 DEF RenderInv

LEMMA RenderStart == RenderInit => RenderInv /\ CursorInv
<1> SUFFICES ASSUME RenderInit PROVE RenderInv /\ CursorInv
  OBVIOUS
<1>1. RenderTypeOK
  <2>1. event \in Event /\ events \in 0..MaxEvents /\ faults \in 0..MaxFaults
    BY RenderAssumption DEF RenderInit, Event
  <2>2. card \in [Cards -> [sent: BOOLEAN, streams: BOOLEAN, off: BOOLEAN, seq: Nat]]
    BY DEF RenderInit
  <2>3. DOMAIN view = Cards
    BY DEF RenderInit, Cards
  <2>4. /\ \A k \in Cards : view[k].count \in Nat /\ view[k].seq \in Nat
        /\ view["status"].shows \in Lines
        /\ view["thinking"].shows \in Nat
        /\ view["tools"].shows \in Seq(Entry)
    <3>1. /\ view["status"] = [count |-> 0, shows |-> "none", seq |-> 0]
          /\ view["thinking"] = [count |-> 0, shows |-> 0, seq |-> 0]
          /\ view["tools"] = [count |-> 0, shows |-> <<>>, seq |-> 0]
      BY DEF RenderInit
    <3>2. view["tools"].shows \in Seq(Entry)
      BY <3>1
    <3>3. view["status"].shows \in Lines
      BY <3>1 DEF Lines
    <3>4. \A k \in Cards : view[k].count = 0 /\ view[k].seq = 0
      BY <3>1 DEF Cards
    <3> QED BY <3>1, <3>2, <3>3, <3>4
  <2>5. at["loop"] = "ready" /\ at["handler"] \in {"send", "settle"}
        /\ at = [loop |-> at["loop"], handler |-> at["handler"]]
    BY DEF RenderInit
  <2>6. /\ thoughts \in Nat /\ tools \in Seq(Entry) /\ blocks \in Seq(Texts)
        /\ pending \in Seq(Nat) /\ chat \in Seq(Reply)
    BY DEF RenderInit
  <2>8. outcome \in {"running"} \cup Outcomes /\ {started, missed} \subseteq BOOLEAN
    BY DEF RenderInit
  <2>7. at \in Places
    BY <2>5 DEF Places
  <2> QED BY <2>1, <2>2, <2>3, <2>4, <2>6, <2>7, <2>8 DEF RenderTypeOK, Places
<1>2. ViewShape(view)
  BY DEF RenderInit, ViewShape, Cards
<1>3. ShapeInv
  BY <1>1, <1>2 DEF RenderInit, ShapeInv
<1>4. PlaceInv /\ StopInv /\ CardInv /\ AnswerInv /\ CursorInv
  BY DEF RenderInit, PlaceInv, StopInv, CardInv, AnswerInv, CursorInv, Cards
<1>5. FreshInv
  BY DEF RenderInit, FreshInv, Fresh, Cards
<1> QED BY <1>3, <1>4, <1>5 DEF RenderInv

LEMMA RenderStep ==
    ASSUME RenderInv, CursorInv, [RenderNext]_renderVars
    PROVE  RenderInv' /\ CursorInv'
<1>1. CASE UNCHANGED renderVars
  BY <1>1, RenderUnchanged
<1>2. CASE RenderNext
  <2>1. CursorInv'
    BY <1>2, CursorKept DEF RenderInv, ShapeInv
  <2>2. RenderInv'
    BY <1>2, SendStatusInv, ConvertStatusInv, HandlerInv, CursorsInv, CardStepsInv, TextsInv,
       SettleInv, SaveFailsInv, TakesInv
       DEF RenderNext, HandlerStep, EmitStep, CloseTurn, Outcomes
  <2> QED BY <2>1, <2>2
<1> QED BY <1>1, <1>2

LEMMA RenderInductive == RenderSpec => [](RenderInv /\ CursorInv)
BY RenderStart, RenderStep, PTL DEF RenderSpec

-----------------------------------------------------------------------------
(* What the user sees of a turn, whatever the provider does. *)

LEMMA OneCardEachFact == RenderInv => OneCardEach
<1> SUFFICES ASSUME RenderInv PROVE OneCardEach
  OBVIOUS
<1>1. \A k \in Cards : view[k].count <= 1
  BY DEF RenderInv, CardInv
<1> DEFINE A == {n \in DOMAIN chat : chat[n].kind = "answer"}
<1>2. CASE A = {}
  BY <1>1, <1>2, FS_EmptySet DEF OneCardEach
<1>3. CASE A # {}
  <2>1. PICK m \in A : A = {m}
    <3>1. PICK m \in A : TRUE
      BY <1>3
    <3>2. \A n \in A : n = m
      BY <3>1 DEF RenderInv, AnswerInv, Is
    <3> QED BY <3>1, <3>2
  <2>2. Cardinality(A) = 1
    BY <2>1, FS_Singleton
  <2> QED BY <1>1, <2>2 DEF OneCardEach
<1> QED BY <1>2, <1>3

LEMMA RenderFacts == RenderInv => RenderTypeOK /\ OneCardEach /\ CardsAreFresh /\ StopIsShown
<1> SUFFICES ASSUME RenderInv PROVE RenderTypeOK /\ OneCardEach /\ CardsAreFresh /\ StopIsShown
  OBVIOUS
<1>1. RenderTypeOK
  BY DEF RenderInv, ShapeInv
<1>2. CardsAreFresh
  <2> SUFFICES ASSUME at["loop"] = "ready", NEW k \in {"thinking", "tools"} PROVE Fresh(k)
    BY DEF CardsAreFresh, Fresh
  <2> QED BY DEF RenderInv, FreshInv, AtCard
<1>3. StopIsShown
  BY DEF RenderInv, StopInv, StopIsShown, Handled
<1> QED BY <1>1, <1>2, <1>3, OneCardEachFact

\* Every state of a turn's rendering has the types the source declares.
THEOREM RenderTypeCorrect == RenderSpec => []RenderTypeOK
BY RenderFacts, RenderInductive, PTL

-----------------------------------------------------------------------------
(* Turn: what the messages of any provider make of the rendering is a behaviour of
   TurnRendering. *)

Said == Message \cup AnyMessage

RelayInv ==
    /\ todo \in Seq(Said) /\ buffered \in Seq(Said)
    /\ cache \in [TextItems -> ItemTexts \cup {<<>>}]

\* What deltaText hands on is a fragment of the new text.
LEMMA DeltaIsFragment ==
    ASSUME NEW prev \in ItemTexts \cup {<<>>}, NEW next \in ItemTexts \cup {<<>>},
           deltaText(prev, next) # <<>>
    PROVE  deltaText(prev, next) \in Fragments
<1>1. prev \in Seq(Letters) /\ next \in Seq(Letters)
  <2>1. <<>> \in Seq(Letters)
    OBVIOUS
  <2>2. \A t \in ItemTexts : t \in Seq(Letters)
    BY CodexAssumption
  <2> QED BY <2>1, <2>2
<1>2. SUFFICES \E n \in DOMAIN next : deltaText(prev, next) = SubSeq(next, n, Len(next))
  <2>1. next # <<>>
    <3>1. DOMAIN <<>> = {}
      OBVIOUS
    <3> QED BY <1>2, <3>1
  <2>2. next \in ItemTexts
    BY <2>1
  <2>3. deltaText(prev, next) \in {SubSeq(next, n, Len(next)) : n \in DOMAIN next}
    BY <1>2
  <2> QED BY <2>2, <2>3 DEF Fragments
<1>3. CASE prev # <<>> /\ IsPrefix(prev, next)
  <2>1. deltaText(prev, next) = SubSeq(next, Len(prev) + 1, Len(next))
    BY <1>3 DEF deltaText
  <2>2. Len(prev) + 1 <= Len(next)
    BY <1>1, <2>1
  <2>3. Len(prev) + 1 \in DOMAIN next
    BY <1>1, <2>2
  <2> QED BY <2>1, <2>3
<1>4. CASE ~(prev # <<>> /\ IsPrefix(prev, next))
  <2>1. deltaText(prev, next) = next
    BY <1>4 DEF deltaText
  <2>2. Len(next) \in Nat /\ Len(next) > 0 /\ 1 \in DOMAIN next
    BY <1>1, <2>1
  <2>3. next = SubSeq(next, 1, Len(next))
    BY <1>1, <2>2
  <2> QED BY <2>1, <2>2, <2>3
<1> QED BY <1>3, <1>4

\* What the Codex adapter yields is a message of the session's contract.
LEMMA YieldedIsMessage ==
    ASSUME RelayInv, SdkEvent
    PROVE  yielded' \in Message /\ cache' \in [TextItems -> ItemTexts \cup {<<>>}]
<1>1. ASSUME NEW i \in TextItems, NEW text \in ItemTexts \cup {<<>>}, TextItem(i, text)
      PROVE  yielded' \in Message /\ cache' \in [TextItems -> ItemTexts \cup {<<>>}]
  <2>1. cache' = [cache EXCEPT ![i] = text]
    BY <1>1 DEF TextItem
  <2>2. cache[i] \in ItemTexts \cup {<<>>}
    BY DEF RelayInv
  <2>3. CASE deltaText(cache[i], text) = <<>>
    <3>1. yielded' = None
      BY <1>1, <2>3 DEF TextItem
    <3> QED BY <2>1, <3>1 DEF None, Message, RelayInv
  <2>4. CASE deltaText(cache[i], text) # <<>>
    <3>1. deltaText(cache[i], text) \in Fragments
      BY <2>2, <2>4, DeltaIsFragment
    <3>2. yielded' = [type |-> IF i \in AgentMessages THEN "text" ELSE "thinking",
                      text |-> deltaText(cache[i], text)]
      BY <1>1, <2>4 DEF TextItem
    <3> QED BY <2>1, <3>1, <3>2 DEF Message, RelayInv
  <2> QED BY <2>3, <2>4
<1>2. ASSUME NEW t \in CodexTools, ToolStarted(t)
      PROVE  yielded' \in Message /\ UNCHANGED cache
  BY <1>2 DEF ToolStarted, Message
<1>3. CASE ErrorItem
  <2>1. ErrorText \in Fragments
    BY DEF Fragments
  <2> QED BY <1>3, <2>1 DEF ErrorItem, Message, RelayInv
<1>4. CASE TurnCompleted
  BY <1>4 DEF TurnCompleted, Message, RelayInv
<1> QED BY <1>1, <1>2, <1>3, <1>4 DEF SdkEvent, RelayInv

LEMMA SaidIsEvent ==
    ASSUME NEW m \in Said, m.type # "result"
    PROVE  AsEvent(m) \in Event
BY TurnAssumption DEF Said, Message, AnyMessage, AsEvent, Event

LEMMA GetMessageRelays ==
    ASSUME RelayInv, NEW m \in Said, GetMessage(m)
    PROVE  todo' \in Seq(Said) /\ buffered' \in Seq(Said) /\ UNCHANGED renderVars
<1>1. UNCHANGED renderVars
  BY DEF GetMessage
<1>2. Append(buffered, m) \in Seq(Said) /\ <<>> \in Seq(Said)
  BY DEF RelayInv
<1> QED BY <1>1, <1>2 DEF GetMessage, RelayInv

LEMMA RelayStep ==
    ASSUME RelayInv, [TurnNext]_turnVars
    PROVE  RelayInv' /\ [RenderNext]_renderVars
<1> USE DEF RelayInv
<1>1. CASE UNCHANGED turnVars
  BY <1>1 DEF turnVars, driveVars, streamVars
<1>2. CASE User \/ Emit
  <2>1. RenderNext
    BY <1>2 DEF User, Emit, RenderNext
  <2> QED BY <1>2, <2>1 DEF User, Emit, driveVars, streamVars
<1>3. CASE Announce
  <2>1. [type |-> "notice"] \in Event
    BY DEF Event
  <2> QED BY <1>3, <2>1 DEF Announce, RenderNext, driveVars, streamVars
<1>4. CASE CodexPrepares
  <2>1. UNCHANGED <<cache, renderVars, driveVars>>
    BY <1>4 DEF CodexPrepares, Prepare, LoadSdk, WriteImage, OpenStream, Cleanup, StreamThrows,
                StreamEnds, Quiet
  <2> QED BY <2>1 DEF driveVars
<1>5. CASE CodexYields
  <2>1. yielded' \in Said /\ cache' \in [TextItems -> ItemTexts \cup {<<>>}]
    BY <1>5, YieldedIsMessage DEF CodexYields, Said
  <2>2. CASE GetMessage(yielded')
    <3>1. PICK m \in Said : m = yielded'
      BY <2>1
    <3>2. GetMessage(m)
      BY <2>2, <3>1 DEF GetMessage
    <3> QED BY <2>1, <3>2, GetMessageRelays
  <2>3. CASE UNCHANGED <<renderVars, driveVars>>
    BY <2>1, <2>3 DEF driveVars
  <2> QED BY <1>5, <2>2, <2>3 DEF CodexYields
<1>6. CASE AnyYields
  <2>1. PICK m \in AnyMessage : GetMessage(m)
    BY <1>6 DEF AnyYields
  <2>2. m \in Said /\ UNCHANGED cache
    BY <1>6 DEF Said, AnyYields, streamVars
  <2> QED BY <2>1, <2>2, GetMessageRelays
<1>7. CASE AnyEnds
  BY <1>7 DEF AnyEnds, driveVars
<1>8. CASE RenderNextMessage
  <2>1. PICK m \in Said : m = Head(todo)
    BY <1>8 DEF RenderNextMessage, Rendering
  <2>2. RelayInv'
    BY <1>8 DEF RenderNextMessage, Rendering, streamVars
  <2>3. CASE m.type = "result"
    BY <1>8, <2>1, <2>2, <2>3 DEF RenderNextMessage
  <2>4. CASE m.type # "result"
    <3>1. AsEvent(m) \in Event
      BY <2>4, SaidIsEvent
    <3>2. TakeEvent(AsEvent(m))
      BY <1>8, <2>1, <2>4 DEF RenderNextMessage
    <3> QED BY <2>2, <3>1, <3>2 DEF RenderNext
  <2> QED BY <2>3, <2>4
<1>9. CASE EmitThrows
  <2>1. UNCHANGED cache
    BY <1>9 DEF EmitThrows, Abandon, Quiet, streamVars
  <2> QED BY <1>9, <2>1 DEF EmitThrows, RenderNext
<1>10. CASE AbandonedCleanup
  BY <1>10 DEF AbandonedCleanup, Cleanup, Quiet, driveVars
<1>11. CASE IterationEnds
  BY <1>11 DEF IterationEnds, streamVars
<1>12. CASE Cancelled \/ Throws \/ Complete
  <2>1. PICK how \in Outcomes : Finish(how)
    BY <1>12 DEF Cancelled, Throws, Complete, Outcomes
  <2>2. RenderNext
    BY <2>1 DEF Finish, RenderNext, CloseTurn, Outcomes
  <2> QED BY <2>1, <2>2 DEF Finish, streamVars
<1>13. CASE Replay \/ NoSuccess
  <2>1. UNCHANGED <<cache, renderVars>>
    BY <1>13 DEF Replay, NoSuccess, streamVars
  <2>2. CASE Replay
    BY <2>1, <2>2 DEF Replay
  <2>3. CASE NoSuccess
    BY <2>1, <2>3 DEF NoSuccess
  <2> QED BY <1>13, <2>2, <2>3
<1>14. CASE EmitTurnEnd
  BY <1>14 DEF EmitTurnEnd, RenderNext, driveVars, streamVars
<1>15. CASE Ask \/ Interrupt
  <2>1. UNCHANGED cache
    BY <1>15 DEF Ask, Interrupt, Dispatched, InterruptRejected, Abort, streamVars
  <2> QED BY <1>15, <2>1 DEF Ask, Interrupt, Dispatched, InterruptRejected, Steering
<1> QED BY <1>1, <1>2, <1>3, <1>4, <1>5, <1>6, <1>7, <1>8, <1>9, <1>10, <1>11, <1>12, <1>13, <1>14,
           <1>15 DEF TurnNext, RunTurn

LEMMA RelayInductive == TurnSpec => []RelayInv
<1>1. TurnInit => RelayInv
  BY DEF TurnInit, StreamInit, RelayInv
<1> QED BY <1>1, RelayStep, PTL DEF TurnSpec

\* Whatever the provider says and whoever interrupts it, what the user sees of a turn is a
\* behaviour of TurnRendering.
THEOREM TurnImplementsRendering == TurnSpec => RenderSpec
<1>1. TurnInit => RenderInit
  BY DEF TurnInit
<1> QED BY <1>1, RelayInductive, RelayStep, PTL DEF TurnSpec, RenderSpec

\* At most one status card, thinking card, tool card and answer card for a turn.
THEOREM OneCardEachAlways == TurnSpec => []OneCardEach
BY TurnImplementsRendering, RenderInductive, RenderFacts, PTL

\* The thinking card and the tool card are up to date whenever emit has returned.
THEOREM CardsAlwaysFresh == TurnSpec => []CardsAreFresh
BY TurnImplementsRendering, RenderInductive, RenderFacts, PTL

\* The status card of a cancelled turn ends up saying stopped.
THEOREM StopAlwaysShown == TurnSpec => []StopIsShown
BY TurnImplementsRendering, RenderInductive, RenderFacts, PTL

-----------------------------------------------------------------------------
(* Turn: the files of a prompt. *)

TempDirInv ==
    /\ tempDir \in BOOLEAN
    /\ stream = "loading" \/ provider = "any" => ~tempDir
    /\ TempDirRemoved

LEMMA TempDirStep ==
    ASSUME TempDirInv, [TurnNext]_turnVars
    PROVE  TempDirInv'
<1> USE DEF TempDirInv, TempDirRemoved
<1>1. CASE UNCHANGED <<stream, tempDir, littered, provider>>
  BY <1>1
<1>2. CASE CodexPrepares
  <2>1. UNCHANGED provider /\ provider = "codex"
    BY <1>2 DEF CodexPrepares, driveVars
  <2>2. CASE LoadSdk \/ OpenStream \/ StreamThrows \/ StreamEnds
    <3>1. UNCHANGED <<tempDir, littered>> /\ stream' # "loading"
      BY <2>2 DEF LoadSdk, OpenStream, StreamThrows, StreamEnds, Leave
    <3>2. stream' = "over" => stream = "loading"
      BY <2>2 DEF LoadSdk, OpenStream, StreamThrows, StreamEnds, Leave
    <3> QED BY <2>1, <3>1, <3>2
  <2>3. CASE WriteImage
    BY <2>1, <2>3 DEF WriteImage
  <2>4. CASE Cleanup
    <3>1. stream' = "over" /\ tempDir' \in BOOLEAN /\ (~littered' => ~tempDir')
      BY <2>4 DEF Cleanup
    <3> QED BY <2>1, <3>1
  <2> QED BY <1>2, <2>2, <2>3, <2>4 DEF CodexPrepares, Prepare
<1>3. CASE AnyEnds
  BY <1>3 DEF AnyEnds, driveVars
<1>4. CASE EmitThrows /\ Abandon
  BY <1>4 DEF EmitThrows, Abandon, Leave, Driving
<1>5. CASE AbandonedCleanup
  <2>1. UNCHANGED provider /\ provider = "codex"
    BY <1>5 DEF AbandonedCleanup, driveVars
  <2>2. stream' = "over" /\ tempDir' \in BOOLEAN /\ (~littered' => ~tempDir')
    BY <1>5 DEF AbandonedCleanup, Cleanup
  <2> QED BY <2>1, <2>2
<1>6. CASE UNCHANGED turnVars
  BY <1>1, <1>6 DEF turnVars, driveVars, streamVars
<1>7. CASE User \/ Emit \/ Announce
  BY <1>1, <1>7 DEF User, Emit, Announce, driveVars, streamVars
<1>8. CASE CodexYields \/ AnyYields
  <2>1. UNCHANGED <<stream, tempDir, littered>>
    BY <1>8 DEF CodexYields, AnyYields, SdkEvent, TextItem, ToolStarted, ErrorItem, TurnCompleted,
                Keep, streamVars
  <2>2. UNCHANGED provider
    BY <1>8 DEF CodexYields, AnyYields, GetMessage, driveVars
  <2> QED BY <1>1, <2>1, <2>2
<1>9. CASE RenderNextMessage \/ IterationEnds \/ Replay \/ NoSuccess
  BY <1>1, <1>9 DEF RenderNextMessage, IterationEnds, Replay, NoSuccess, streamVars, Driving
<1>10. CASE Cancelled \/ Throws \/ Complete
  BY <1>1, <1>10 DEF Cancelled, Throws, Complete, Finish, streamVars, Driving
<1>11. CASE EmitTurnEnd
  BY <1>1, <1>11 DEF EmitTurnEnd, driveVars, streamVars
<1>12. CASE Ask \/ Interrupt
  BY <1>1, <1>12 DEF Ask, Interrupt, Dispatched, InterruptRejected, Abort, streamVars, Steering
<1>13. CASE EmitThrows /\ UNCHANGED streamVars
  BY <1>1, <1>13 DEF EmitThrows, streamVars, Driving
<1>14. EmitThrows => Abandon \/ UNCHANGED streamVars
  BY DEF EmitThrows
<1> QED BY <1>2, <1>3, <1>4, <1>5, <1>6, <1>7, <1>8, <1>9, <1>10, <1>11, <1>12, <1>13, <1>14
        DEF TurnNext, RunTurn

\* The files of a prompt's images are removed when the run is over, however it ended.
THEOREM TempDirAlwaysRemoved == TurnSpec => []TempDirRemoved
<1>1. TurnInit => TempDirInv
  BY DEF TurnInit, StreamInit, TempDirInv, TempDirRemoved
<1>2. TempDirInv => TempDirRemoved
  BY DEF TempDirInv
<1> QED BY <1>1, <1>2, TempDirStep, PTL DEF TurnSpec

-----------------------------------------------------------------------------
(* Sequences of sequences: what FlattenSeq does when a part is added. *)

\* Induction, for a set that is given by a formula: without it, 0..n would have a proper
\* subset of as many elements.
LEMMA SetInduction ==
    ASSUME NEW S, 0 \in S, \A n \in Nat : n \in S => n + 1 \in S
    PROVE  Nat \subseteq S
<1>1. SUFFICES ASSUME NEW n \in Nat, n \notin S
              PROVE  FALSE
  OBVIOUS
<1> DEFINE A == {k \in 0..n : k \in S}
           B == A \ {0}
           f == [k \in A |-> k + 1]
<1>2. IsFiniteSet(A) /\ IsFiniteSet(B) /\ Cardinality(B) < Cardinality(A)
  <2>1. IsFiniteSet(0..n)
    BY FS_Interval
  <2>2. A \subseteq 0..n /\ 0 \in A
    OBVIOUS
  <2>3. IsFiniteSet(A)
    BY <2>1, <2>2, FS_Subset
  <2>4. IsFiniteSet(B) /\ Cardinality(B) = Cardinality(A) - 1
    BY <2>2, <2>3, FS_RemoveElement
  <2>5. Cardinality(A) \in Nat
    BY <2>3, FS_CardinalityType
  <2> QED BY <2>3, <2>4, <2>5
<1>3. \A k \in A : k + 1 \in B
  BY <1>1
<1>4. f \in [A -> B]
  BY <1>3
<1> HIDE DEF A, B, f
<1>5. \E x, y \in A : x # y /\ f[x] = f[y]
  BY <1>2, <1>4, FS_PigeonHole
<1>6. \A x, y \in A : f[x] = f[y] => x = y
  BY DEF A, f
<1> QED BY <1>5, <1>6


\* g has what the first i of n parts make, for every i: the function inside FlattenSeq.
Flattens(g, seqs, n) == g = [i \in 1..n |-> IF i = 1 THEN seqs[i] ELSE g[i - 1] \o seqs[i]]

\* Any entry of such a function, by its equation.
LEMMA FlattensAt ==
    ASSUME NEW seqs, NEW g, NEW n, Flattens(g, seqs, n), NEW i \in 1..n
    PROVE  g[i] = IF i = 1 THEN seqs[i] ELSE g[i - 1] \o seqs[i]
<1> DEFINE h == [j \in 1..n |-> IF j = 1 THEN seqs[j] ELSE g[j - 1] \o seqs[j]]
<1>1. g = h
  BY DEF Flattens
<1>2. h[i] = IF i = 1 THEN seqs[i] ELSE g[i - 1] \o seqs[i]
  OBVIOUS
<1> HIDE DEF h
<1> QED BY <1>1, <1>2

\* There is one for every length.
LEMMA FlattenExists ==
    ASSUME NEW seqs, NEW n \in Nat
    PROVE  \E g : Flattens(g, seqs, n)
<1> DEFINE S == {k \in Nat : \E g : Flattens(g, seqs, k)}
<1>1. 0 \in S
  <2>1. Flattens([i \in {} |-> {}], seqs, 0)
    BY DEF Flattens
  <2> QED BY <2>1
<1>2. ASSUME NEW k \in Nat, k \in S
      PROVE  k + 1 \in S
  <2>1. PICK g : Flattens(g, seqs, k)
    BY <1>2
  <2> DEFINE h == [i \in 1..(k + 1) |-> IF i = 1 THEN seqs[i] ELSE g[i - 1] \o seqs[i]]
  <2>2. \A i \in 1..k : h[i] = g[i]
    BY <2>1, FlattensAt
  <2>3. \A i \in 1..(k + 1) : i # 1 => i - 1 \in 1..k
    OBVIOUS
  <2>4. h = [i \in 1..(k + 1) |-> IF i = 1 THEN seqs[i] ELSE h[i - 1] \o seqs[i]]
    <3>1. \A i \in 1..(k + 1) : i # 1 => h[i - 1] = g[i - 1]
      BY <2>2, <2>3
    <3> QED BY <3>1
  <2>5. Flattens(h, seqs, k + 1)
    BY <2>4 DEF Flattens
  <2> HIDE DEF h
  <2> QED BY <2>5
<1> HIDE DEF S
<1>3. Nat \subseteq S
  BY <1>1, <1>2, SetInduction
<1> QED BY <1>3 DEF S

\* FlattenSeq of a sequence that is not empty is the last entry of one.
LEMMA FlattenOfSome ==
    ASSUME NEW S, NEW seqs \in Seq(Seq(S)), Len(seqs) > 0
    PROVE  \E g : Flattens(g, seqs, Len(seqs)) /\ FlattenSeq(seqs) = g[Len(seqs)]
<1>1. Len(seqs) \in Nat /\ Len(seqs) # 0
  OBVIOUS
<1>2. \E g : Flattens(g, seqs, Len(seqs))
  BY <1>1, FlattenExists
<1> DEFINE flat == CHOOSE g : Flattens(g, seqs, Len(seqs))
<1>3. Flattens(flat, seqs, Len(seqs))
  BY <1>2
<1>4. FlattenSeq(seqs) = flat[Len(seqs)]
  BY <1>1 DEF FlattenSeq, Flattens
<1> HIDE DEF flat
<1> QED BY <1>3, <1>4

\* Its entries are sequences of the same elements.
LEMMA FlattenType ==
    ASSUME NEW S, NEW seqs \in Seq(Seq(S)), NEW g, NEW n \in 0..Len(seqs), Flattens(g, seqs, n)
    PROVE  \A i \in 1..n : g[i] \in Seq(S)
<1> DEFINE T == {k \in Nat : k \in 1..n => g[k] \in Seq(S)}
<1>1. 0 \in T
  OBVIOUS
<1>2. ASSUME NEW k \in Nat, k \in T
      PROVE  k + 1 \in T
  <2>1. SUFFICES ASSUME k + 1 \in 1..n
                 PROVE  g[k + 1] \in Seq(S)
    OBVIOUS
  <2>2. seqs[k + 1] \in Seq(S)
    BY <2>1
  <2>3. g[k + 1] = IF k + 1 = 1 THEN seqs[k + 1] ELSE g[k] \o seqs[k + 1]
    <3> DEFINE i == k + 1
    <3>1. g[i] = IF i = 1 THEN seqs[i] ELSE g[i - 1] \o seqs[i]
      <4>1. i \in 1..n
        BY <2>1
      <4> HIDE DEF i
      <4> QED BY <4>1, FlattensAt
    <3>2. (k + 1) - 1 = k
      OBVIOUS
    <3> QED BY <3>1, <3>2
  <2>4. CASE k = 0
    BY <2>2, <2>3, <2>4
  <2>5. CASE k # 0
    <3>1. g[k] \in Seq(S)
      BY <1>2, <2>1, <2>5
    <3> QED BY <2>2, <2>3, <2>5, <3>1
  <2> QED BY <2>4, <2>5
<1> HIDE DEF T
<1>3. Nat \subseteq T
  BY <1>1, <1>2, SetInduction
<1> QED BY <1>3 DEF T

\* On a common prefix of two sequences they have the same entries.
LEMMA FlattenUnique ==
    ASSUME NEW s, NEW t, NEW g, NEW h, NEW m \in Nat, NEW n \in Nat, m <= n,
           \A i \in 1..m : s[i] = t[i], Flattens(g, s, m), Flattens(h, t, n)
    PROVE  \A i \in 1..m : g[i] = h[i]
<1> DEFINE T == {k \in Nat : k \in 1..m => g[k] = h[k]}
<1>1. 0 \in T
  OBVIOUS
<1>2. ASSUME NEW k \in Nat, k \in T
      PROVE  k + 1 \in T
  <2>1. SUFFICES ASSUME k + 1 \in 1..m
                 PROVE  g[k + 1] = h[k + 1]
    OBVIOUS
  <2>2. g[k + 1] = IF k + 1 = 1 THEN s[k + 1] ELSE g[(k + 1) - 1] \o s[k + 1]
    BY <2>1, FlattensAt
  <2>3. h[k + 1] = IF k + 1 = 1 THEN t[k + 1] ELSE h[(k + 1) - 1] \o t[k + 1]
    <3>1. k + 1 \in 1..n
      BY <2>1
    <3> QED BY <3>1, FlattensAt
  <2>4. (k + 1) - 1 = k /\ s[k + 1] = t[k + 1]
    BY <2>1
  <2>5. k + 1 # 1 => g[k] = h[k]
    BY <1>2, <2>1
  <2> QED BY <2>2, <2>3, <2>4, <2>5
<1> HIDE DEF T
<1>3. Nat \subseteq T
  BY <1>1, <1>2, SetInduction
<1> QED BY <1>3 DEF T

\* FlattenSeq makes a sequence of the elements of the parts.
LEMMA FlattenIsSeq ==
    ASSUME NEW S, NEW seqs \in Seq(Seq(S))
    PROVE  FlattenSeq(seqs) \in Seq(S)
<1>1. CASE Len(seqs) = 0
  <2>1. seqs = <<>>
    BY <1>1
  <2>2. FlattenSeq(seqs) = <<>>
    BY <1>1, <2>1 DEF FlattenSeq
  <2> QED BY <2>2
<1>2. CASE Len(seqs) > 0
  <2>1. PICK g : Flattens(g, seqs, Len(seqs)) /\ FlattenSeq(seqs) = g[Len(seqs)]
    BY <1>2, FlattenOfSome
  <2>2. Len(seqs) \in 0..Len(seqs) /\ Len(seqs) \in 1..Len(seqs)
    BY <1>2
  <2> QED BY <2>1, <2>2, FlattenType
<1> QED BY <1>1, <1>2

\* A part put at the end is put at the end of the whole.
LEMMA FlattenAppend ==
    ASSUME NEW S, NEW seqs \in Seq(Seq(S)), NEW x \in Seq(S)
    PROVE  FlattenSeq(Append(seqs, x)) = FlattenSeq(seqs) \o x
<1> DEFINE more == Append(seqs, x)
           n == Len(seqs)
<1>1. /\ more \in Seq(Seq(S)) /\ Len(more) = n + 1 /\ n \in Nat
      /\ more[n + 1] = x
      /\ \A i \in 1..n : seqs[i] = more[i]
  OBVIOUS
<1> HIDE DEF more
<1>2. PICK h : Flattens(h, more, n + 1) /\ FlattenSeq(more) = h[n + 1]
  <2>1. Len(more) > 0
    BY <1>1
  <2>2. \E h : Flattens(h, more, Len(more)) /\ FlattenSeq(more) = h[Len(more)]
    BY <1>1, <2>1, FlattenOfSome
  <2> QED BY <1>1, <2>2
<1>3. h[n + 1] = IF n = 0 THEN x ELSE h[n] \o x
  <2>1. h[n + 1] = IF n + 1 = 1 THEN more[n + 1] ELSE h[(n + 1) - 1] \o more[n + 1]
    <3>1. n + 1 \in 1..(n + 1)
      BY <1>1
    <3> QED BY <1>2, <3>1, FlattensAt
  <2>2. (n + 1) - 1 = n /\ (n + 1 = 1 <=> n = 0)
    BY <1>1
  <2> QED BY <1>1, <2>1, <2>2
<1>4. CASE n = 0
  <2>1. seqs = <<>>
    BY <1>4
  <2>2. FlattenSeq(seqs) = <<>>
    BY <1>4, <2>1 DEF FlattenSeq
  <2>3. <<>> \o x = x
    BY ConcatEmptySeq
  <2> QED BY <1>2, <1>3, <1>4, <2>2, <2>3 DEF more
<1>5. CASE n # 0
  <2>1. PICK g : Flattens(g, seqs, n) /\ FlattenSeq(seqs) = g[n]
    <3>1. Len(seqs) > 0
      BY <1>1, <1>5
    <3>2. \E g : Flattens(g, seqs, Len(seqs)) /\ FlattenSeq(seqs) = g[Len(seqs)]
      BY <3>1, FlattenOfSome
    <3> QED BY <3>2
  <2>2. n <= n + 1 /\ n + 1 \in Nat /\ n \in 1..n
    BY <1>1, <1>5
  <2>3. g[n] = h[n]
    <3> HIDE DEF n
    <3>1. \A i \in 1..n : g[i] = h[i]
      <4> DEFINE m == n + 1
      <4>1. n \in Nat /\ m \in Nat /\ n <= m
        BY <1>1
      <4>2. Flattens(g, seqs, n) /\ Flattens(h, more, m)
        BY <1>2, <2>1
      <4>3. \A i \in 1..n : seqs[i] = more[i]
        BY <1>1
      <4> HIDE DEF m
      <4> QED BY <4>1, <4>2, <4>3, FlattenUnique
    <3> QED BY <2>2, <3>1
  <2> QED BY <1>2, <1>3, <1>5, <2>1, <2>3 DEF more
<1> QED BY <1>4, <1>5

-----------------------------------------------------------------------------
(* CodexRun: the texts of the items and the fragments that are handed on. *)

\* What is recorded of a text item.
HeardRec == [text: Seq(Letters), fragments: Seq(Seq(Letters)), replaced: Nat]

\* The fragments of h from the last replacement on.
LatestFragments(h) == SubSeq(h.fragments, h.replaced + 1, Len(h.fragments))

\* The cache of the adapter is the last text of each item, and the fragments since the last
\* replacement make that text.
HeardInv ==
    /\ cache \in [TextItems -> Seq(Letters)]
    /\ heard \in [TextItems -> HeardRec]
    /\ \A i \in TextItems :
          /\ heard[i].text = cache[i]
          /\ heard[i].replaced <= Len(heard[i].fragments)
          /\ FlattenSeq(LatestFragments(heard[i])) = heard[i].text

\* A text that extends another one is that one and what deltaText hands on; any other text
\* is handed on as it is.
LEMMA DeltaCompletes ==
    ASSUME NEW prev \in Seq(Letters), NEW next \in Seq(Letters)
    PROVE  /\ deltaText(prev, next) \in Seq(Letters)
           /\ IsPrefix(prev, next) => prev \o deltaText(prev, next) = next
           /\ ~IsPrefix(prev, next) => deltaText(prev, next) = next
<1>1. CASE prev # <<>> /\ IsPrefix(prev, next)
  <2> DEFINE n == Len(prev)
             rest == SubSeq(next, n + 1, Len(next))
  <2>1. deltaText(prev, next) = rest
    BY <1>1 DEF deltaText
  <2>2. n \in Nat /\ n <= Len(next) /\ SubSeq(prev, 1, n) = SubSeq(next, 1, n) /\ Len(next) \in Nat
    BY <1>1 DEF IsPrefix
  <2>3. rest \in Seq(Letters)
    BY <2>2
  <2>4. SubSeq(prev, 1, n) = prev /\ SubSeq(next, 1, Len(next)) = next
    BY SubSeqFull
  <2>5. SubSeq(next, 1, n) \o SubSeq(next, n + 1, Len(next)) = SubSeq(next, 1, Len(next))
    <3>1. 1 \in 1..(Len(next) + 1) /\ n \in (1 - 1)..Len(next) /\ Len(next) \in n..Len(next)
      BY <2>2
    <3> QED BY <3>1, ConcatAdjacentSubSeq
  <2> HIDE DEF rest, n
  <2> QED BY <1>1, <2>1, <2>2, <2>3, <2>4, <2>5 DEF rest
<1>2. CASE ~(prev # <<>> /\ IsPrefix(prev, next))
  <2>1. deltaText(prev, next) = next
    BY <1>2 DEF deltaText
  <2>2. prev = <<>> => prev \o next = next
    BY ConcatEmptySeq
  <2> QED BY <1>2, <2>1, <2>2
<1> QED BY <1>1, <1>2

\* The part of a sequence after its first n elements.
LEMMA PartOfSeq ==
    ASSUME NEW S, NEW s \in Seq(S), NEW n \in Nat, NEW m \in Nat, n <= m, m <= Len(s)
    PROVE  /\ SubSeq(s, n + 1, m) \in Seq(S)
           /\ Len(SubSeq(s, n + 1, m)) = m - n
           /\ \A j \in 1..(m - n) : SubSeq(s, n + 1, m)[j] = s[n + j]
<1>1. n + 1 \in Int /\ m \in Int /\ \A i \in (n + 1)..m : s[i] \in S
  OBVIOUS
<1>2. /\ SubSeq(s, n + 1, m) \in Seq(S)
      /\ Len(SubSeq(s, n + 1, m)) = IF n + 1 <= m THEN m - (n + 1) + 1 ELSE 0
      /\ \A j \in 1..(m - (n + 1) + 1) : SubSeq(s, n + 1, m)[j] = s[(n + 1) + j - 1]
  BY <1>1, SubSeqProperties
<1>3. \A j \in Nat : (n + 1) + j - 1 = n + j
  OBVIOUS
<1>4. m - (n + 1) + 1 = m - n /\ (~(n + 1 <= m) => m - n = 0)
  OBVIOUS
<1> QED BY <1>2, <1>3, <1>4

\* What a text item adds to the fragments since the last replacement.
LEMMA LatestAfterItem ==
    ASSUME NEW fragments \in Seq(Seq(Letters)), NEW n \in 0..Len(fragments),
           NEW x \in Seq(Letters)
    PROVE  LET more == Append(fragments, x) IN
           /\ more \in Seq(Seq(Letters))
           /\ SubSeq(more, n + 1, Len(more)) = Append(SubSeq(fragments, n + 1, Len(fragments)), x)
           /\ SubSeq(fragments, n + 1, Len(fragments)) \in Seq(Seq(Letters))
<1> DEFINE more == Append(fragments, x)
           k == Len(fragments)
           rest == SubSeq(fragments, n + 1, k)
           left == SubSeq(more, n + 1, k + 1)
<1>1. /\ more \in Seq(Seq(Letters)) /\ Len(more) = k + 1 /\ k \in Nat /\ n \in Nat /\ n <= k
      /\ more[k + 1] = x /\ \A j \in 1..k : more[j] = fragments[j] /\ fragments[j] \in Seq(Letters)
  OBVIOUS
<1> HIDE DEF more, k
<1>2. /\ rest \in Seq(Seq(Letters)) /\ Len(rest) = k - n
      /\ \A j \in 1..(k - n) : rest[j] = fragments[n + j]
  BY <1>1, PartOfSeq
<1>3. /\ left \in Seq(Seq(Letters)) /\ Len(left) = k + 1 - n
      /\ \A j \in 1..(k + 1 - n) : left[j] = more[n + j]
  BY <1>1, PartOfSeq
<1> HIDE DEF rest, left
<1>4. /\ Append(rest, x) \in Seq(Seq(Letters)) /\ Len(Append(rest, x)) = k + 1 - n
      /\ \A j \in 1..(k - n) : Append(rest, x)[j] = rest[j]
      /\ Append(rest, x)[k + 1 - n] = x
  <2> DEFINE longer == Append(rest, x)
  <2>1. /\ longer \in Seq(Seq(Letters)) /\ Len(longer) = Len(rest) + 1
        /\ \A j \in 1..Len(rest) : longer[j] = rest[j]
        /\ longer[Len(rest) + 1] = x
    BY <1>2, AppendProperties
  <2>2. Len(rest) + 1 = k + 1 - n
    BY <1>1, <1>2
  <2> HIDE DEF longer
  <2> QED BY <1>2, <2>1, <2>2 DEF longer
<1>5. ASSUME NEW j \in 1..(k + 1 - n)
      PROVE  left[j] = Append(rest, x)[j]
  <2>1. CASE j = k + 1 - n
    BY <1>1, <1>3, <1>4, <2>1
  <2>2. CASE j # k + 1 - n
    <3>1. j \in 1..(k - n) /\ n + j \in 1..k
      <4>1. j \in Nat /\ k \in Nat /\ n \in Nat /\ n <= k
        BY <1>1
      <4>2. 1 <= j /\ j <= k + 1 - n /\ j # k + 1 - n
        BY <2>2
      <4> QED BY <4>1, <4>2, SMTT(20)
    <3>2. left[j] = more[n + j] /\ more[n + j] = fragments[n + j]
      BY <1>1, <1>3, <3>1
    <3>3. Append(rest, x)[j] = rest[j] /\ rest[j] = fragments[n + j]
      BY <1>2, <1>4, <3>1
    <3> QED BY <3>2, <3>3
  <2> QED BY <2>1, <2>2
<1>6. left = Append(rest, x)
  <2> DEFINE longer == Append(rest, x)
  <2>1. /\ left \in Seq(Seq(Letters)) /\ longer \in Seq(Seq(Letters))
        /\ Len(left) = Len(longer)
        /\ \A j \in 1..Len(left) : left[j] = longer[j]
    BY <1>3, <1>4, <1>5
  <2> HIDE DEF longer
  <2>2. left = longer
    BY <2>1, SeqEqual
  <2> QED BY <2>2 DEF longer
<1> QED BY <1>1, <1>2, <1>6 DEF more, k, rest, left

\* An event with a whole text keeps the fragments in step with it.
LEMMA TextItemKeeps ==
    ASSUME HeardInv, NEW i \in TextItems, NEW text \in ItemTexts \cup {<<>>}, TextItem(i, text)
    PROVE  HeardInv'
<1> DEFINE h == heard[i]
           fragment == deltaText(cache[i], text)
           same == IsPrefix(h.text, text)
           after == [text |-> text,
                     fragments |-> IF fragment = <<>> THEN h.fragments
                                   ELSE Append(h.fragments, fragment),
                     replaced |-> IF same THEN h.replaced ELSE Len(h.fragments)]
<1>1. text \in Seq(Letters)
  <2>1. <<>> \in Seq(Letters) /\ \A t \in ItemTexts : t \in Seq(Letters)
    BY CodexAssumption
  <2> QED BY <2>1
<1>2. /\ h.text \in Seq(Letters) /\ h.fragments \in Seq(Seq(Letters)) /\ h.replaced \in Nat
      /\ h.text = cache[i] /\ h.replaced <= Len(h.fragments)
      /\ FlattenSeq(LatestFragments(h)) = h.text
  BY DEF HeardInv, HeardRec
<1>3. cache' = [cache EXCEPT ![i] = text] /\ heard' = [heard EXCEPT ![i] = after]
  BY DEF TextItem, Hear
<1>4. /\ fragment \in Seq(Letters)
      /\ same => h.text \o fragment = text
      /\ ~same => fragment = text
  BY <1>1, <1>2, DeltaCompletes
<1> DEFINE n == IF same THEN h.replaced ELSE Len(h.fragments)
           latest == SubSeq(h.fragments, n + 1, Len(h.fragments))
<1>5. n \in 0..Len(h.fragments)
  BY <1>2
<1>6. latest \in Seq(Seq(Letters)) /\ FlattenSeq(latest) = IF same THEN h.text ELSE <<>>
  <2>1. CASE same
    <3>1. latest = LatestFragments(h)
      BY <2>1 DEF LatestFragments
    <3>2. latest \in Seq(Seq(Letters))
      BY <1>2, <1>5, LatestAfterItem, <1>4
    <3> QED BY <1>2, <2>1, <3>1, <3>2
  <2>2. CASE ~same
    <3>1. latest = <<>>
      BY <1>2, <2>2
    <3>2. FlattenSeq(<<>>) = <<>> /\ <<>> \in Seq(Seq(Letters))
      BY DEF FlattenSeq
    <3> QED BY <2>2, <3>1, <3>2
  <2> QED BY <2>1, <2>2
<1>7. after \in HeardRec /\ after.text = text /\ after.replaced <= Len(after.fragments)
  BY <1>1, <1>2, <1>4 DEF HeardRec
<1>8. FlattenSeq(LatestFragments(after)) = text
  <2>1. CASE fragment = <<>>
    <3>1. LatestFragments(after) = latest
      BY <2>1 DEF LatestFragments
    <3>2. same => h.text = text
      BY <1>2, <1>4, <2>1, ConcatEmptySeq
    <3>3. ~same => text = <<>>
      BY <1>4, <2>1
    <3> HIDE DEF after, latest, same
    <3> QED BY <1>6, <3>1, <3>2, <3>3
  <2>2. CASE fragment # <<>>
    <3> DEFINE more == Append(h.fragments, fragment)
    <3>1. LatestFragments(after) = SubSeq(more, n + 1, Len(more))
      BY <2>2 DEF LatestFragments
    <3>2. SubSeq(more, n + 1, Len(more)) = Append(latest, fragment)
      BY <1>2, <1>4, <1>5, LatestAfterItem
    <3>3. FlattenSeq(Append(latest, fragment)) = FlattenSeq(latest) \o fragment
      BY <1>4, <1>6, FlattenAppend
    <3>4. <<>> \o fragment = fragment
      BY <1>4, ConcatEmptySeq
    <3> HIDE DEF after, latest, same, more, fragment
    <3> QED BY <1>4, <1>6, <3>1, <3>2, <3>3, <3>4
  <2> QED BY <2>1, <2>2
<1> HIDE DEF after, h, fragment, same, n, latest
<1>9. /\ cache' \in [TextItems -> Seq(Letters)] /\ heard' \in [TextItems -> HeardRec]
      /\ cache'[i] = text /\ heard'[i] = after
      /\ \A j \in TextItems \ {i} : cache'[j] = cache[j] /\ heard'[j] = heard[j]
  BY <1>1, <1>3, <1>7 DEF HeardInv
<1>10. ASSUME NEW j \in TextItems
       PROVE  /\ heard'[j].text = cache'[j]
              /\ heard'[j].replaced <= Len(heard'[j].fragments)
              /\ FlattenSeq(LatestFragments(heard'[j])) = heard'[j].text
  <2>1. CASE j = i
    BY <1>7, <1>8, <1>9, <2>1
  <2>2. CASE j # i
    BY <1>9, <2>2 DEF HeardInv
  <2> QED BY <2>1, <2>2
<1> QED BY <1>9, <1>10 DEF HeardInv, LatestFragments

\* No other step touches the texts or the fragments.
LEMMA HeardStep ==
    ASSUME HeardInv, [TurnNext]_turnVars
    PROVE  HeardInv'
<1>1. CASE UNCHANGED <<cache, heard>>
  BY <1>1 DEF HeardInv, LatestFragments
<1>2. CASE CodexYields
  <2>1. CASE \E i \in TextItems, text \in ItemTexts \cup {<<>>} : TextItem(i, text)
    BY <2>1, TextItemKeeps
  <2>2. CASE (\E t \in CodexTools : ToolStarted(t)) \/ ErrorItem \/ TurnCompleted
    BY <1>1, <2>2 DEF ToolStarted, ErrorItem, TurnCompleted
  <2> QED BY <1>2, <2>1, <2>2 DEF CodexYields, SdkEvent
<1>3. CASE CodexPrepares
  BY <1>1, <1>3 DEF CodexPrepares, Prepare, LoadSdk, WriteImage, OpenStream, Cleanup, StreamThrows,
                    StreamEnds, Quiet
<1>4. CASE UNCHANGED streamVars
  BY <1>1, <1>4 DEF streamVars
<1>5. CASE AnyEnds \/ AbandonedCleanup \/ Abandon
  BY <1>1, <1>5 DEF AnyEnds, AbandonedCleanup, Cleanup, Abandon, Quiet
<1>6. CASE Abort
  BY <1>1, <1>6 DEF Abort
<1>7. CASE UNCHANGED turnVars
  BY <1>4, <1>7 DEF turnVars
<1>8. CASE User \/ Emit \/ Announce \/ AnyYields
  BY <1>4, <1>8 DEF User, Emit, Announce, AnyYields
<1>9. CASE RunTurn
  <2>1. CASE AbandonedCleanup
    BY <1>5, <2>1
  <2>2. CASE RunTurn /\ ~AbandonedCleanup
    BY <1>4, <2>2 DEF RunTurn, RenderNextMessage, IterationEnds, Cancelled, Throws, Replay, NoSuccess,
                 EmitTurnEnd, Complete, Finish
  <2> QED BY <1>9, <2>1, <2>2
<1>10. CASE EmitThrows
  <2>1. Abandon \/ UNCHANGED streamVars
    BY <1>10 DEF EmitThrows
  <2> QED BY <1>4, <1>5, <2>1
<1>11. CASE Ask \/ Interrupt
  <2>1. Abort \/ UNCHANGED streamVars
    BY <1>11 DEF Ask, Interrupt, Dispatched, InterruptRejected
  <2> QED BY <1>4, <1>6, <2>1
<1> QED BY <1>2, <1>3, <1>5, <1>7, <1>8, <1>9, <1>10, <1>11 DEF TurnNext

\* However the text of an item grows or is replaced, the fragments add up to it (deltaText).
THEOREM FragmentsAlwaysAddUp == TurnSpec => []FragmentsAddUp
<1>1. TurnInit => HeardInv
  <2> SUFFICES ASSUME TurnInit PROVE HeardInv
    OBVIOUS
  <2>1. /\ cache = [i \in TextItems |-> <<>>]
        /\ heard = [i \in TextItems |-> [text |-> <<>>, fragments |-> <<>>, replaced |-> 0]]
    BY DEF TurnInit, StreamInit
  <2>2. <<>> \in Seq(Letters) /\ <<>> \in Seq(Seq(Letters)) /\ FlattenSeq(<<>>) = <<>>
    BY DEF FlattenSeq
  <2>3. SubSeq(<<>>, 1, 0) = <<>>
    BY SubSeqEmpty
  <2>4. \A i \in TextItems :
           /\ heard[i].text = <<>> /\ heard[i].replaced = 0 /\ heard[i].fragments = <<>>
           /\ heard[i] \in HeardRec
    BY <2>1, <2>2 DEF HeardRec
  <2>5. \A i \in TextItems : LatestFragments(heard[i]) = <<>>
    BY <2>3, <2>4 DEF LatestFragments
  <2>6. heard \in [TextItems -> HeardRec] /\ cache \in [TextItems -> Seq(Letters)]
    BY <2>1, <2>2, <2>4
  <2>7. \A i \in TextItems : cache[i] = <<>> /\ 0 <= Len(heard[i].fragments)
    BY <2>1, <2>4
  <2> QED BY <2>2, <2>4, <2>5, <2>6, <2>7 DEF HeardInv
<1>2. HeardInv => FragmentsAddUp
  BY DEF HeardInv, FragmentsAddUp, LatestFragments
<1> QED BY <1>1, <1>2, HeardStep, PTL DEF TurnSpec

-----------------------------------------------------------------------------
(* Turn: the order of the messages, and what becomes of them. *)

Flushing == {"middle", "each", "answer", "answer_text", "stats", "closing"}

\* What was given is what was rendered, then what is about to be, then what is put off.
OrderInv ==
    /\ given \in Seq(Said) /\ rendered \in Seq(Said)
    /\ Len(rendered) <= Len(given) /\ \A n \in 1..Len(rendered) : rendered[n] = given[n]
    /\ drive \in {"iterating", "ended", "replaying"} =>
         /\ Len(given) = Len(rendered) + Len(todo) + Len(buffered)
         /\ \A n \in 1..Len(todo) : todo[n] = given[Len(rendered) + n]
         /\ \A n \in 1..Len(buffered) : buffered[n] = given[Len(rendered) + Len(todo) + n]
    /\ drive = "ended" => todo = <<>>
    /\ drive = "replaying" => buffered = <<>>
    /\ at["loop"] \in Flushing => drive = "replaying" /\ todo = <<>>
    /\ outcome = "completed" => rendered = given

LEMMA MessageInOrder ==
    ASSUME RelayInv, OrderInv, NEW m \in Said, GetMessage(m), Waiting
    PROVE  OrderInv'
<1>1. /\ drive = "iterating" /\ drive' = drive /\ todo = <<>> /\ given' = Append(given, m)
      /\ UNCHANGED <<rendered, at, outcome>> /\ outcome = "running"
  BY DEF GetMessage, Waiting, renderVars
<1>2. /\ given' \in Seq(Said) /\ Len(given') = Len(given) + 1 /\ given'[Len(given) + 1] = m
      /\ \A n \in 1..Len(given) : given'[n] = given[n]
      /\ Len(given) = Len(rendered) + Len(buffered) /\ Len(todo) = 0
      /\ {Len(given), Len(rendered), Len(buffered)} \subseteq Nat
      /\ \A n \in 1..Len(buffered) : buffered[n] = given[Len(rendered) + n]
  BY <1>1 DEF OrderInv, RelayInv
<1>3. PICK put \in Seq(Said) : put = Append(buffered, m)
  <2>1. Append(buffered, m) \in Seq(Said)
    BY DEF RelayInv
  <2> QED BY <2>1
<1>4. /\ Len(put) = Len(buffered) + 1 /\ put[Len(buffered) + 1] = m
      /\ \A n \in 1..Len(buffered) : put[n] = buffered[n]
  BY <1>3 DEF RelayInv
<1>5. \A n \in 1..Len(put) : put[n] = given'[Len(rendered) + n]
  <2> TAKE n \in 1..Len(put)
  <2>1. CASE n = Len(buffered) + 1
    BY <1>2, <1>4, <2>1
  <2>2. CASE n # Len(buffered) + 1
    <3>1. n \in 1..Len(buffered) /\ Len(rendered) + n \in 1..Len(given)
      BY <1>2, <1>4, <2>2
    <3> QED BY <1>2, <1>4, <3>1
  <2> QED BY <2>1, <2>2
<1>6. /\ Len(rendered) <= Len(given') /\ \A n \in 1..Len(rendered) : rendered[n] = given'[n]
  BY <1>2 DEF OrderInv
<1>7. \/ buffered' = put /\ todo' = <<>>
      \/ todo' = put /\ buffered' = <<>>
  BY <1>1, <1>3 DEF GetMessage
<1>8. Len(given') = Len(rendered) + Len(put) /\ Len(<<>>) = 0 /\ 1..0 = {}
  BY <1>2, <1>4
<1>9. /\ Len(given') = Len(rendered') + Len(todo') + Len(buffered')
      /\ \A n \in 1..Len(todo') : todo'[n] = given'[Len(rendered') + n]
      /\ \A n \in 1..Len(buffered') : buffered'[n] = given'[Len(rendered') + Len(todo') + n]
  <2>1. CASE buffered' = put /\ todo' = <<>>
    <3>1. Len(todo') = 0 /\ Len(buffered') = Len(put) /\ Len(rendered') = Len(rendered)
      BY <1>1, <1>8, <2>1
    <3>2. \A n \in 1..Len(todo') : todo'[n] = given'[Len(rendered') + n]
      BY <1>8, <3>1
    <3>3. Len(rendered) + 0 = Len(rendered) /\ Len(put) + 0 = Len(put)
      BY <1>2, <1>4
    <3>4. Len(given') = Len(rendered') + Len(todo') + Len(buffered')
      BY <1>8, <3>1, <3>3
    <3>5. \A n \in 1..Len(buffered') : buffered'[n] = given'[Len(rendered') + Len(todo') + n]
      BY <1>5, <2>1, <3>1, <3>3
    <3> QED BY <3>2, <3>4, <3>5
  <2>2. CASE todo' = put /\ buffered' = <<>>
    <3>1. Len(buffered') = 0 /\ Len(todo') = Len(put) /\ Len(rendered') = Len(rendered)
      BY <1>1, <1>8, <2>2
    <3>2. \A n \in 1..Len(buffered') : buffered'[n] = given'[Len(rendered') + Len(todo') + n]
      BY <1>8, <3>1
    <3>3. Len(rendered) + Len(put) + 0 = Len(rendered) + Len(put)
      BY <1>2, <1>4
    <3>4. Len(given') = Len(rendered') + Len(todo') + Len(buffered')
      BY <1>8, <3>1, <3>3
    <3>5. \A n \in 1..Len(todo') : todo'[n] = given'[Len(rendered') + n]
      BY <1>1, <1>5, <2>2
    <3> QED BY <3>2, <3>4, <3>5
  <2> QED BY <1>7, <2>1, <2>2
<1>10. at'["loop"] \notin Flushing
  BY <1>1 DEF OrderInv
<1> QED BY <1>1, <1>2, <1>6, <1>9, <1>10 DEF OrderInv

LEMMA RenderInOrder ==
    ASSUME RelayInv, OrderInv, RenderInv, RenderNextMessage
    PROVE  OrderInv'
<1>1. /\ drive \in {"iterating", "replaying"} /\ todo # <<>> /\ at["loop"] = "ready"
      /\ todo' = Tail(todo) /\ rendered' = Append(rendered, Head(todo))
      /\ UNCHANGED <<drive, buffered, given>>
  BY DEF RenderNextMessage, Rendering
<1>2. outcome = "running" /\ outcome' = outcome
  BY <1>1 DEF RenderNextMessage, RenderInv, PlaceInv, renderVars, TakeEvent, TakeText, TakeThinking,
              TakeToolUse, TakeToolResult, TakeNotice, Take
<1>3. at'["loop"] \notin Flushing
  <2>1. at["loop"] \notin Flushing /\ "loop" \in DOMAIN at
    BY <1>1 DEF Flushing, RenderInv, ShapeInv, RenderTypeOK
  <2>2. CASE UNCHANGED renderVars
    BY <2>1, <2>2 DEF renderVars
  <2>3. CASE TakeEvent(AsEvent(Head(todo)))
    <3>1. PICK x \in {"ready", "cursor", "card", "notice"} : Goto("loop", x)
      BY <2>3 DEF TakeEvent, TakeText, TakeThinking, TakeToolUse, TakeToolResult, TakeNotice
    <3>2. at'["loop"] = x
      BY <2>1, <3>1 DEF Goto
    <3> QED BY <3>2 DEF Flushing
  <2> QED BY <2>2, <2>3 DEF RenderNextMessage
<1>4. /\ Len(given) = Len(rendered) + Len(todo) + Len(buffered)
      /\ \A n \in 1..Len(todo) : todo[n] = given[Len(rendered) + n]
      /\ \A n \in 1..Len(buffered) : buffered[n] = given[Len(rendered) + Len(todo) + n]
      /\ \A n \in 1..Len(rendered) : rendered[n] = given[n]
      /\ {Len(given), Len(rendered), Len(todo), Len(buffered)} \subseteq Nat
  BY <1>1 DEF OrderInv, RelayInv
<1>5. /\ Head(todo) = todo[1] /\ Head(todo) \in Said /\ Tail(todo) \in Seq(Said)
      /\ Len(Tail(todo)) = Len(todo) - 1 /\ Len(todo) > 0
      /\ \A n \in 1..Len(Tail(todo)) : Tail(todo)[n] = todo[n + 1]
  BY <1>1 DEF RelayInv
<1>6. /\ rendered' \in Seq(Said) /\ Len(rendered') = Len(rendered) + 1
      /\ rendered'[Len(rendered) + 1] = Head(todo)
      /\ \A n \in 1..Len(rendered) : rendered'[n] = rendered[n]
  BY <1>1, <1>5 DEF OrderInv
<1>7. \A n \in 1..Len(rendered') : rendered'[n] = given[n]
  <2> TAKE n \in 1..Len(rendered')
  <2>1. CASE n = Len(rendered) + 1
    <3>1. 1 \in 1..Len(todo)
      BY <1>4, <1>5
    <3> QED BY <1>4, <1>5, <1>6, <2>1, <3>1
  <2>2. CASE n # Len(rendered) + 1
    <3>1. n \in 1..Len(rendered)
      BY <1>4, <1>6, <2>2
    <3> QED BY <1>4, <1>6, <3>1
  <2> QED BY <2>1, <2>2
<1>8. \A n \in 1..Len(todo') : todo'[n] = given[Len(rendered') + n]
  <2> TAKE n \in 1..Len(todo')
  <2>1. n \in 1..Len(Tail(todo)) /\ n + 1 \in 1..Len(todo)
    BY <1>1, <1>4, <1>5
  <2>2. todo'[n] = given[Len(rendered) + (n + 1)]
    BY <1>1, <1>4, <1>5, <2>1
  <2>3. Len(rendered) + (n + 1) = Len(rendered') + n
    BY <1>4, <1>6, <2>1
  <2> QED BY <2>2, <2>3
<1>9. /\ Len(given) = Len(rendered') + Len(todo') + Len(buffered)
      /\ Len(rendered') + Len(todo') = Len(rendered) + Len(todo)
  BY <1>1, <1>4, <1>5, <1>6
<1>10. Len(rendered') <= Len(given)
  BY <1>1, <1>4, <1>5, <1>6
<1>11. /\ drive' = "replaying" => buffered' = <<>>
       /\ drive' # "ended" /\ outcome' # "completed" /\ given' \in Seq(Said)
  BY <1>1, <1>2 DEF OrderInv
<1>12. \A n \in 1..Len(buffered') : buffered'[n] = given'[Len(rendered') + Len(todo') + n]
  BY <1>1, <1>4, <1>9
<1>13. /\ drive' # "replaying" \/ buffered' = <<>>
       /\ drive' # "ended" /\ at'["loop"] \notin Flushing /\ outcome' # "completed"
  BY <1>3, <1>11
<1> QED BY <1>1, <1>6, <1>7, <1>8, <1>9, <1>10, <1>11, <1>12, <1>13 DEF OrderInv

LEMMA OrderStep ==
    ASSUME RelayInv, OrderInv, RenderInv, [TurnNext]_turnVars
    PROVE  OrderInv'
<1>0. "loop" \in DOMAIN at /\ "handler" \in DOMAIN at
  BY DEF RenderInv, ShapeInv, RenderTypeOK
<1>1. CASE UNCHANGED <<given, rendered, todo, buffered, drive>> /\ UNCHANGED <<at, outcome>>
  BY <1>1 DEF OrderInv
<1>2. CASE UNCHANGED turnVars \/ Ask \/ Interrupt \/ AnyEnds \/ CodexPrepares \/ AbandonedCleanup
  BY <1>1, <1>2 DEF turnVars, Ask, Interrupt, Dispatched, InterruptRejected, AnyEnds, CodexPrepares,
                    AbandonedCleanup, Steering, renderVars, driveVars
<1>3. ASSUME UNCHANGED <<given, rendered, todo, buffered, drive, outcome>>,
             at'["loop"] \in Flushing => at["loop"] \in Flushing
      PROVE  OrderInv'
  BY <1>3 DEF OrderInv
<1>4. CASE User
  <2>1. PICK x : Goto("handler", x)
    BY <1>4 DEF User, HandlerStep, SendStatus, ConvertStatus, Settled, Cursor, StreamCursor,
                PatchCursor, NoCursor, AfterCursor, FinishWork, WorkAlarm, ReportFailure
  <2>2. at'["loop"] = at["loop"]
    BY <1>0, <2>1 DEF Goto
  <2>3. UNCHANGED outcome
    BY <1>4 DEF User, HandlerStep, SendStatus, ConvertStatus, Settled, Cursor, StreamCursor,
                PatchCursor, NoCursor, FinishWork, WorkAlarm, ReportFailure, Handling
  <2> QED BY <1>3, <1>4, <2>2, <2>3 DEF User, driveVars
<1>5. CASE Emit
  <2>1. UNCHANGED outcome
    BY <1>5 DEF Emit, EmitStep, Cursor, StreamCursor, PatchCursor, NoCursor, CardStep, SendCard,
                ConvertCard, StreamCard, PatchCard, CardCall, Notice, Middle, Each, Answer,
                AnswerText, Stats, Texting
  <2>2. CASE Cursor("loop") \/ CardStep \/ Notice
    <3>1. PICK x \in {"ready", "card", "cursor_patch", "convert", "patch"} : Goto("loop", x)
      BY <2>2 DEF Cursor, StreamCursor, PatchCursor, NoCursor, AfterCursor, CardStep, SendCard,
                  ConvertCard, StreamCard, PatchCard, Notice
    <3>2. at'["loop"] = x
      BY <1>0, <3>1 DEF Goto
    <3>3. at'["loop"] \notin Flushing
      BY <3>2 DEF Flushing
    <3> QED BY <1>3, <1>5, <2>1, <3>3 DEF Emit, driveVars
  <2>3. CASE Middle \/ Each \/ Answer \/ AnswerText \/ Stats
    <3>1. at["loop"] \in Flushing
      BY <2>3 DEF Middle, Each, Answer, AnswerText, Stats, Flushing
    <3> QED BY <1>3, <1>5, <2>1, <3>1 DEF Emit, driveVars
  <2> QED BY <1>5, <2>2, <2>3 DEF Emit, EmitStep
<1>6. CASE Announce
  <2>1. Goto("loop", "notice") /\ UNCHANGED outcome
    BY <1>6 DEF Announce, TakeEvent, TakeText, TakeThinking, TakeToolUse, TakeToolResult,
                TakeNotice, Take
  <2>2. at'["loop"] \notin Flushing
    BY <1>0, <2>1 DEF Goto, Flushing
  <2> QED BY <1>3, <1>6, <2>1, <2>2 DEF Announce, driveVars
<1>7. CASE CodexYields
  <2>1. PICK m \in Said : m = yielded'
    BY <1>7, YieldedIsMessage DEF CodexYields, Said
  <2>2. CASE GetMessage(yielded')
    <3>1. GetMessage(m) /\ Waiting
      BY <1>7, <2>1, <2>2 DEF GetMessage, CodexYields
    <3> QED BY <3>1, MessageInOrder
  <2>3. CASE UNCHANGED <<renderVars, driveVars>>
    BY <1>1, <2>3 DEF renderVars, driveVars
  <2> QED BY <1>7, <2>2, <2>3 DEF CodexYields
<1>8. CASE AnyYields
  <2>1. PICK m \in Said : GetMessage(m) /\ Waiting
    BY <1>8 DEF AnyYields, Said
  <2> QED BY <2>1, MessageInOrder
<1>9. CASE EmitThrows
  BY <1>9 DEF EmitThrows, SaveFails, OrderInv, Rendering, Flushing
<1>10. CASE IterationEnds \/ NoSuccess
  <2>1. CASE IterationEnds
    BY <2>1 DEF IterationEnds, Waiting, OrderInv, renderVars, Flushing
  <2>2. CASE NoSuccess
    BY <2>2 DEF NoSuccess, Replayed, OrderInv, renderVars, Flushing
  <2> QED BY <1>10, <2>1, <2>2
<1>11. CASE Cancelled \/ Throws
  <2>1. PICK how \in {"cancelled", "failed"} : Finish(how)
    BY <1>11 DEF Cancelled, Throws
  <2>2. at'["loop"] = "over" /\ outcome' # "completed" /\ drive' = "over"
        /\ UNCHANGED <<given, rendered>>
    BY <1>0, <2>1 DEF Finish, Settle, Goto
  <2> QED BY <2>2 DEF OrderInv, Flushing
<1>12. CASE Complete
  <2>1. /\ at["loop"] = "closing" /\ at'["loop"] = "over" /\ drive' = "over"
        /\ UNCHANGED <<given, rendered>>
    BY <1>0, <1>12 DEF Complete, Finish, Settle, Goto
  <2>2. drive = "replaying" /\ todo = <<>> /\ buffered = <<>>
    BY <2>1 DEF OrderInv, Flushing
  <2>3. /\ given \in Seq(Said) /\ rendered \in Seq(Said) /\ Len(given) = Len(rendered)
        /\ \A n \in 1..Len(rendered) : rendered[n] = given[n]
    BY <2>2 DEF OrderInv
  <2>4. given = rendered
    BY <2>3
  <2> QED BY <2>1, <2>4 DEF OrderInv, Flushing
<1>13. CASE Replay
  <2>1. /\ drive = "ended" /\ todo = <<>> /\ todo' = buffered /\ buffered' = <<>>
        /\ drive' = "replaying" /\ UNCHANGED <<given, rendered, at, outcome>>
    BY <1>13 DEF Replay, OrderInv, renderVars
  <2>2. /\ Len(given) = Len(rendered) + Len(buffered) /\ Len(<<>>) = 0
        /\ \A n \in 1..Len(buffered) : buffered[n] = given[Len(rendered) + n]
        /\ {Len(given), Len(rendered), Len(buffered)} \subseteq Nat
    BY <2>1 DEF OrderInv, RelayInv
  <2>3. at["loop"] \notin Flushing
    BY <2>1 DEF OrderInv
  <2> QED BY <2>1, <2>2, <2>3 DEF OrderInv
<1>14. CASE RenderNextMessage
  BY <1>14, RenderInOrder
<1>15. CASE EmitTurnEnd
  <2>1. /\ drive = "replaying" /\ todo = <<>> /\ UNCHANGED <<given, rendered, todo, buffered, drive>>
        /\ UNCHANGED outcome
    BY <1>15 DEF EmitTurnEnd, Replayed, driveVars, TakeTurnEnd, Take
  <2> QED BY <2>1 DEF OrderInv
<1> QED BY <1>2, <1>4, <1>5, <1>6, <1>7, <1>8, <1>9, <1>10, <1>11, <1>12, <1>13, <1>14, <1>15
        DEF TurnNext, RunTurn

\* Messages are rendered in the order in which the provider gave them, and a completed turn
\* has rendered them all, however many interrupts failed meanwhile.
THEOREM AlwaysRenderedInOrder == TurnSpec => []RenderedInOrder
<1>1. TurnInit => OrderInv
  BY DEF TurnInit, RenderInit, OrderInv, Flushing
<1>2. OrderInv => RenderedInOrder
  <2> SUFFICES ASSUME OrderInv PROVE RenderedInOrder
    OBVIOUS
  <2>1. IsPrefix(rendered, given)
    BY DEF OrderInv, IsPrefix
  <2> QED BY <2>1 DEF OrderInv, RenderedInOrder
<1>3. TurnSpec => [](RelayInv /\ RenderInv)
  BY RelayInductive, TurnImplementsRendering, RenderInductive, PTL
<1> QED BY <1>1, <1>2, <1>3, OrderStep, PTL DEF TurnSpec

-----------------------------------------------------------------------------
(* Turn: the text of a turn reaches the chat, and the answer comes last. *)

\* Where emit is before it has sent any text.
Silent == {"ready", "cursor", "cursor_patch", "card", "convert", "patch", "notice", "middle"}
Plain == {"notice", "work", "alarm", "failure"}

\* The blocks that the replies show, and those that wait to be sent one by one.
Seen == UNION {chat[n].shows : n \in DOMAIN chat}
Left == {pending[n] : n \in DOMAIN pending}

\* With at most one fault.
Sent(S) == faults <= 1 => Seen = S

NoText == \A n \in DOMAIN chat : chat[n].kind \in Plain /\ chat[n].shows = {}
NoAnswer == \A n \in DOMAIN chat : chat[n].kind \notin {"answer", "answer_text"}
AnswerLast == \A m, n \in DOMAIN chat :
    chat[n].kind \in {"answer", "answer_text"} /\ chat[m].kind \in {"middle", "block"} => m < n

FlushInv ==
    /\ at["loop"] \in Silent \/ (at["loop"] = "over" /\ outcome # "completed") => NoText
    /\ at["loop"] \in {"each", "answer"} => NoAnswer
    /\ at["loop"] = "each" => /\ Final >= 1 /\ faults >= 1
                              /\ faults <= 1 => Seen \cup Left = 1..(Final - 1)
    /\ at["loop"] = "answer" => Final >= 1 /\ Sent(1..(Final - 1))
    /\ at["loop"] = "answer_text" => /\ Final >= 1 /\ faults >= 1
                                     /\ faults <= 1 => Seen \cup {Final} = 1..Final
    /\ at["loop"] \in {"stats", "closing"} \/ (at["loop"] = "over" /\ outcome = "completed")
           => Sent(1..Final)
    /\ AnswerLast

LEMMA FlushTypes ==
    ASSUME RenderInv
    PROVE  /\ chat \in Seq(Reply) /\ blocks \in Seq(Texts) /\ pending \in Seq(Nat) /\ Final \in Nat
           /\ faults \in Nat /\ at \in Places
           /\ \A fate : Call(fate) => /\ faults' \in Nat /\ fate \in {"ok", "refused", "lost"}
                                      /\ faults' = IF fate = "ok" THEN faults ELSE faults + 1
<1>1. /\ chat \in Seq(Reply) /\ blocks \in Seq(Texts) /\ pending \in Seq(Nat)
      /\ faults \in Nat /\ at \in Places /\ RenderTypeOK
  BY RenderAssumption DEF RenderInv, ShapeInv, RenderTypeOK, Places
<1>2. \A fate : Call(fate) => /\ faults' \in Nat /\ fate \in {"ok", "refused", "lost"}
                              /\ faults' = IF fate = "ok" THEN faults ELSE faults + 1
  BY <1>1, CallFact, RenderAssumption DEF Call
<1> QED BY <1>1, <1>2 DEF Final

\* What one more reply adds.
LEMMA PostSeen ==
    ASSUME chat \in Seq(Reply), NEW kind, NEW shown, NEW fate, Post(kind, shown, fate)
    PROVE  /\ Seen' = Seen \cup (IF fate = "refused" THEN {} ELSE shown)
           /\ \A n \in DOMAIN chat' : \/ n \in DOMAIN chat /\ chat'[n] = chat[n] /\ n < Len(chat) + 1
                                      \/ n = Len(chat) + 1 /\ chat'[n] = [kind |-> kind, shows |-> shown]
<1>1. CASE fate = "refused"
  BY <1>1 DEF Post, Seen
<1>2. CASE fate # "refused"
  <2> DEFINE r == [kind |-> kind, shows |-> shown]
  <2>1. chat' = Append(chat, r) /\ Len(chat) \in Nat /\ DOMAIN chat = 1..Len(chat)
    BY <1>2 DEF Post
  <2>2. r.shows = shown
    OBVIOUS
  <2> HIDE DEF r
  <2>3. /\ DOMAIN chat' = 1..(Len(chat) + 1) /\ chat'[Len(chat) + 1] = r
        /\ \A n \in DOMAIN chat : chat'[n] = chat[n]
    BY <2>1
  <2>4. \A x : x \in Seen' <=> x \in Seen \/ x \in shown
    <3> TAKE x
    <3>1. x \in Seen' <=> \E n \in DOMAIN chat' : x \in chat'[n].shows
      BY DEF Seen
    <3>2. x \in Seen <=> \E n \in DOMAIN chat : x \in chat[n].shows
      BY DEF Seen
    <3>3. \A n \in DOMAIN chat' : n \in DOMAIN chat \/ n = Len(chat) + 1
      BY <2>1, <2>3
    <3>4. DOMAIN chat \subseteq DOMAIN chat' /\ Len(chat) + 1 \in DOMAIN chat'
      BY <2>1, <2>3
    <3> QED BY <2>2, <2>3, <3>1, <3>2, <3>3, <3>4
  <2>5. Seen' = Seen \cup shown
    BY <2>4
  <2>6. \A n \in DOMAIN chat' : \/ n \in DOMAIN chat /\ chat'[n] = chat[n] /\ n < Len(chat) + 1
                                \/ n = Len(chat) + 1 /\ chat'[n] = r
    BY <2>1, <2>3
  <2> QED BY <1>2, <2>5, <2>6 DEF r
<1> QED BY <1>1, <1>2

\* Replies stay in order, and below them an answer may always be added.
LEMMA PostOrder ==
    ASSUME chat \in Seq(Reply), AnswerLast, NEW kind, NEW shown, NEW fate, Post(kind, shown, fate),
           kind \in {"middle", "block"} => NoAnswer
    PROVE  AnswerLast' /\ (NoAnswer /\ kind \notin {"answer", "answer_text"} => NoAnswer')
<1>1. \A n \in DOMAIN chat' : \/ n \in DOMAIN chat /\ chat'[n] = chat[n] /\ n < Len(chat) + 1
                              \/ n = Len(chat) + 1 /\ chat'[n] = [kind |-> kind, shows |-> shown]
  BY PostSeen
<1>2. \A n \in DOMAIN chat' : \/ n \in DOMAIN chat /\ chat'[n].kind = chat[n].kind /\ n < Len(chat) + 1
                              \/ n = Len(chat) + 1 /\ chat'[n].kind = kind
  BY <1>1
<1>3. AnswerLast'
  <2> SUFFICES ASSUME NEW m \in DOMAIN chat', NEW n \in DOMAIN chat',
                      chat'[n].kind \in {"answer", "answer_text"}, chat'[m].kind \in {"middle", "block"}
               PROVE  m < n
    BY DEF AnswerLast
  <2>1. CASE n \in DOMAIN chat /\ chat'[n].kind = chat[n].kind
    <3>1. ~NoAnswer
      BY <2>1 DEF NoAnswer
    <3>2. m \in DOMAIN chat /\ chat'[m].kind = chat[m].kind
      BY <1>2, <3>1
    <3> QED BY <2>1, <3>2 DEF AnswerLast
  <2>2. CASE n = Len(chat) + 1 /\ chat'[n].kind = kind
    <3>1. m \in DOMAIN chat /\ m < Len(chat) + 1
      BY <1>2, <2>2
    <3> QED BY <2>2, <3>1
  <2> QED BY <1>2, <2>1, <2>2
<1>4. NoAnswer /\ kind \notin {"answer", "answer_text"} => NoAnswer'
  BY <1>2 DEF NoAnswer
<1> QED BY <1>3, <1>4

\* A notice, a report and statistics show no block.
LEMMA PostPlain ==
    ASSUME chat \in Seq(Reply), AnswerLast, NEW kind \in Plain \cup {"stats"}, NEW fate, Post(kind, {}, fate)
    PROVE  /\ AnswerLast' /\ (NoAnswer => NoAnswer') /\ Seen' = Seen
           /\ kind \in Plain /\ NoText => NoText'
<1>1. /\ Seen' = Seen \cup (IF fate = "refused" THEN {} ELSE {})
      /\ \A n \in DOMAIN chat' : \/ n \in DOMAIN chat /\ chat'[n] = chat[n] /\ n < Len(chat) + 1
                                 \/ n = Len(chat) + 1 /\ chat'[n] = [kind |-> kind, shows |-> {}]
  BY PostSeen
<1>2. kind \in Plain /\ NoText => NoText'
  BY <1>1 DEF NoText
<1> QED BY <1>1, <1>2, PostOrder DEF Plain

\* The handler, and a save that fails.
LEMMA AsideFlush ==
    ASSUME RenderInv, FlushInv, at'["loop"] = at["loop"], UNCHANGED <<blocks, pending, outcome>>,
           faults' \in Nat, faults' >= faults,
           UNCHANGED chat \/ \E fate, kind : kind \in Plain /\ Post(kind, {}, fate)
    PROVE  FlushInv'
<1>0. chat \in Seq(Reply) /\ faults \in Nat /\ AnswerLast
  BY FlushTypes DEF FlushInv
<1>1. /\ AnswerLast' /\ (NoAnswer => NoAnswer') /\ Seen' = Seen /\ (NoText => NoText')
  <2>1. CASE UNCHANGED chat
    BY <1>0, <2>1 DEF AnswerLast, NoAnswer, Seen, NoText
  <2>2. ASSUME NEW fate, NEW kind \in Plain, Post(kind, {}, fate)
        PROVE  /\ AnswerLast' /\ (NoAnswer => NoAnswer') /\ Seen' = Seen /\ (NoText => NoText')
    BY <1>0, <2>2, PostPlain
  <2> QED BY <2>1, <2>2
<1>2. Left' = Left /\ Final' = Final /\ \A S : Sent(S) => (faults' <= 1 => Seen' = S)
  BY <1>0, <1>1 DEF Left, Final, Sent
<1> QED BY <1>0, <1>1, <1>2 DEF FlushInv, Sent

LEMMA HandlerFlush ==
    ASSUME RenderInv, FlushInv, HandlerStep \/ SaveFails
    PROVE  FlushInv'
<1>0. /\ at \in Places /\ faults \in Nat /\ chat \in Seq(Reply)
      /\ \A fate : Call(fate) => faults' \in Nat /\ faults' >= faults
  BY FlushTypes
<1>1. \A x : Goto("handler", x) => at'["loop"] = at["loop"]
  BY <1>0 DEF Goto, Places
<1>2. CASE SaveFails
  BY <1>0, <1>2, AsideFlush DEF SaveFails, turnState
<1>3. CASE SendStatus \/ ConvertStatus \/ Settled
  BY <1>0, <1>1, <1>3, AsideFlush DEF SendStatus, ConvertStatus, Settled, Handling
<1>4. CASE FinishWork \/ WorkAlarm \/ ReportFailure
  BY <1>0, <1>1, <1>4, AsideFlush DEF FinishWork, WorkAlarm, ReportFailure, Handling, Plain
<1>5. CASE Cursor("handler")
  <2>1. AfterCursor("handler") => UNCHANGED blocks /\ at'["loop"] = at["loop"]
    BY <1>1 DEF AfterCursor
  <2>2. UNCHANGED <<blocks, pending, outcome, chat>> /\ at'["loop"] = at["loop"]
    BY <1>1, <1>5, <2>1 DEF Cursor, StreamCursor, PatchCursor, NoCursor
  <2>3. faults' \in Nat /\ faults' >= faults
    BY <1>0, <1>5 DEF Cursor, StreamCursor, PatchCursor, NoCursor
  <2> QED BY <2>2, <2>3, AsideFlush
<1> QED BY <1>2, <1>3, <1>4, <1>5 DEF HandlerStep

\* Before the end of the turn emit sends no text.
LEMMA SilentFlush ==
    ASSUME RenderInv, FlushInv, at["loop"] \in Silent, at'["loop"] \in Silent, UNCHANGED chat
    PROVE  FlushInv'
BY DEF FlushInv, Silent, NoText, AnswerLast

LEMMA EmitFlush ==
    ASSUME RenderInv, FlushInv, Cursor("loop") \/ CardStep \/ \E e \in Event : TakeEvent(e)
    PROVE  FlushInv'
<1>0. at \in Places /\ \A x : Goto("loop", x) => at'["loop"] = x
  <2>1. at \in Places
    BY FlushTypes
  <2> QED BY <2>1 DEF Goto, Places
<1>1. CASE Cursor("loop")
  <2>1. AfterCursor("loop") => at'["loop"] \in Silent
    BY <1>0 DEF AfterCursor, Silent
  <2>2. at["loop"] \in Silent /\ at'["loop"] \in Silent /\ UNCHANGED chat
    BY <1>0, <1>1, <2>1 DEF Cursor, StreamCursor, PatchCursor, NoCursor, Silent
  <2> QED BY <2>2, SilentFlush
<1>2. CASE CardStep
  <2>1. at["loop"] \in Silent /\ at'["loop"] \in Silent /\ UNCHANGED chat
    BY <1>0, <1>2 DEF CardStep, SendCard, ConvertCard, StreamCard, PatchCard, CardCall, Silent
  <2> QED BY <2>1, SilentFlush
<1>3. ASSUME NEW e \in Event, TakeEvent(e) PROVE FlushInv'
  <2>1. at["loop"] \in Silent /\ at'["loop"] \in Silent /\ UNCHANGED chat
    BY <1>0, <1>3 DEF TakeEvent, TakeText, TakeThinking, TakeToolUse, TakeToolResult, TakeNotice,
                     Take, Silent
  <2> QED BY <2>1, SilentFlush
<1> QED BY <1>1, <1>2, <1>3

\* No reply shows a block yet.
LEMMA NothingSeen == NoText => Seen = {} /\ NoAnswer /\ AnswerLast
BY DEF NoText, Seen, NoAnswer, AnswerLast, Plain

LEMMA TurnEndFlush ==
    ASSUME RenderInv, FlushInv, TakeTurnEnd
    PROVE  FlushInv'
<1>0. at \in Places /\ blocks \in Seq(Texts) /\ Final \in Nat
  BY FlushTypes
<1>1. /\ UNCHANGED <<chat, blocks, faults>> /\ NoText /\ Seen = {} /\ NoAnswer /\ AnswerLast
      /\ Seen' = Seen /\ NoText' /\ NoAnswer' /\ AnswerLast' /\ Final' = Final
  <2>1. UNCHANGED <<chat, blocks, faults>> /\ NoText
    BY DEF TakeTurnEnd, Take, FlushInv, Silent
  <2> QED BY <2>1, NothingSeen DEF Seen, NoText, NoAnswer, AnswerLast, Final
<1>2. at'["loop"] = CASE blocks = <<>> -> AfterFlush
                      [] Len(blocks) = 1 -> "answer"
                      [] OTHER -> "middle"
  BY <1>0 DEF TakeTurnEnd, Goto, Places
<1>3. CASE blocks = <<>>
  <2>1. at'["loop"] \in {"stats", "closing"} /\ Final = 0
    BY <1>2, <1>3 DEF AfterFlush, Final
  <2>2. Seen' = 1..Final'
    BY <1>1, <2>1
  <2> QED BY <1>1, <2>1, <2>2 DEF FlushInv, Sent, Silent
<1>4. CASE blocks # <<>> /\ Len(blocks) = 1
  <2>1. at'["loop"] = "answer" /\ Final = 1
    BY <1>2, <1>4 DEF Final
  <2>2. Seen' = 1..(Final' - 1) /\ Final' >= 1
    BY <1>1, <2>1
  <2> QED BY <1>1, <2>1, <2>2 DEF FlushInv, Sent, Silent
<1>5. CASE blocks # <<>> /\ Len(blocks) # 1
  <2>1. at'["loop"] = "middle"
    BY <1>2, <1>5
  <2> QED BY <1>1, <2>1 DEF FlushInv, Silent
<1> QED BY <1>3, <1>4, <1>5

\* A reply with text: what it shows is seen unless it was refused.
LEMMA TextsFlush ==
    ASSUME RenderInv, FlushInv, Notice \/ Middle \/ Each \/ Answer \/ AnswerText \/ Stats
    PROVE  FlushInv'
<1>0. /\ chat \in Seq(Reply) /\ pending \in Seq(Nat) /\ Final \in Nat /\ faults \in Nat /\ AnswerLast
      /\ UNCHANGED <<blocks, outcome>> /\ Final' = Final
      /\ \A fate : Call(fate) => /\ faults' \in Nat /\ fate \in {"ok", "refused", "lost"}
                                 /\ faults' = IF fate = "ok" THEN faults ELSE faults + 1
      /\ \A x : Goto("loop", x) => at'["loop"] = x
  <2>1. UNCHANGED <<blocks, outcome>>
    BY DEF Notice, Middle, Each, Answer, AnswerText, Stats, Texting
  <2>2. Final' = Final
    BY <2>1 DEF Final
  <2>3. at \in Places
    BY FlushTypes
  <2>4. \A x : Goto("loop", x) => at'["loop"] = x
    BY <2>3 DEF Goto, Places
  <2> QED BY <2>1, <2>2, <2>4, FlushTypes DEF FlushInv
<1>1. CASE Notice
  <2>1. PICK fate : Call(fate) /\ Post("notice", {}, fate)
    BY <1>1 DEF Notice
  <2>2. NoText /\ at'["loop"] = "ready"
    BY <1>0, <1>1 DEF Notice, FlushInv, Silent
  <2>3. NoText' /\ AnswerLast'
    BY <1>0, <2>1, <2>2, PostPlain DEF Plain
  <2> QED BY <2>2, <2>3 DEF FlushInv
<1>2. CASE Middle
  <2>1. PICK fate : /\ Call(fate) /\ Post("middle", 1..(Final - 1), fate)
                    /\ Goto("loop", IF fate = "ok" THEN "answer" ELSE "each")
                    /\ pending' = IF fate = "ok" THEN <<>> ELSE [n \in 1..(Final - 1) |-> n]
    BY <1>2 DEF Middle
  <2>2. NoText /\ Seen = {} /\ NoAnswer /\ Final > 1
    BY <1>2, NothingSeen DEF Middle, FlushInv, Silent, RenderInv, ShapeInv, Final
  <2>3. /\ Seen' = IF fate = "refused" THEN {} ELSE 1..(Final - 1)
        /\ AnswerLast' /\ NoAnswer'
    BY <1>0, <2>1, <2>2, PostSeen, PostOrder
  <2>4. CASE fate = "ok"
    <3>1. at'["loop"] = "answer" /\ Seen' = 1..(Final' - 1) /\ Final' >= 1
      BY <1>0, <2>1, <2>2, <2>3, <2>4
    <3> QED BY <2>3, <3>1 DEF FlushInv, Sent, Silent
  <2>5. CASE fate # "ok"
    <3>1. at'["loop"] = "each" /\ faults' >= 1
      BY <1>0, <2>1, <2>5
    <3>2. Left' = 1..(Final - 1)
      BY <2>1, <2>5 DEF Left
    <3>3. Seen' \cup Left' = 1..(Final' - 1)
      BY <1>0, <2>3, <3>2
    <3> QED BY <1>0, <2>2, <2>3, <3>1, <3>3 DEF FlushInv, Silent
  <2> QED BY <2>4, <2>5
<1>3. CASE Each
  <2>1. PICK fate : Call(fate) /\ Post("block", {Head(pending)}, fate)
    BY <1>3 DEF Each
  <2>2. /\ NoAnswer /\ faults >= 1 /\ Final >= 1 /\ pending # <<>>
        /\ faults <= 1 => Seen \cup Left = 1..(Final - 1)
        /\ pending' = Tail(pending)
        /\ at'["loop"] = IF Tail(pending) = <<>> THEN "answer" ELSE "each"
    BY <1>0, <1>3 DEF Each, FlushInv, RenderInv, ShapeInv
  <2>3. /\ Seen' = Seen \cup (IF fate = "refused" THEN {} ELSE {Head(pending)})
        /\ AnswerLast' /\ NoAnswer'
    BY <1>0, <2>1, <2>2, PostSeen, PostOrder
  <2>4. Left = {Head(pending)} \cup Left'
    <3>1. /\ Len(pending) \in Nat /\ Len(pending) # 0 /\ DOMAIN pending = 1..Len(pending)
          /\ Head(pending) = pending[1]
      BY <1>0, <2>2
    <3>2. /\ DOMAIN pending' = 1..(Len(pending) - 1)
          /\ \A n \in 1..(Len(pending) - 1) : pending'[n] = pending[n + 1]
      BY <1>0, <2>2
    <3>3. ASSUME NEW n \in DOMAIN pending PROVE pending[n] \in {Head(pending)} \cup Left'
      <4>1. CASE n = 1
        BY <3>1, <4>1
      <4>2. CASE n # 1
        <5>1. n - 1 \in DOMAIN pending' /\ pending'[n - 1] = pending[n]
          BY <3>1, <3>2, <3>3, <4>2
        <5> QED BY <5>1 DEF Left
      <4> QED BY <4>1, <4>2
    <3>4. ASSUME NEW n \in DOMAIN pending' PROVE pending'[n] \in Left
      <4>1. n + 1 \in DOMAIN pending /\ pending'[n] = pending[n + 1]
        BY <3>1, <3>2, <3>4
      <4> QED BY <4>1 DEF Left
    <3>5. Head(pending) \in Left
      BY <3>1 DEF Left
    <3>6. Left \subseteq {Head(pending)} \cup Left'
      BY <3>3 DEF Left
    <3>7. Left' \subseteq Left
      BY <3>4 DEF Left
    <3> QED BY <3>5, <3>6, <3>7
  <2>5. faults' >= 1 /\ (faults' <= 1 => fate = "ok" /\ faults' = faults)
    <3>1. faults \in Nat /\ faults' = IF fate = "ok" THEN faults ELSE faults + 1
      BY <1>0, <2>1
    <3>2. faults >= 1
      BY <2>2
    <3> QED BY <3>1, <3>2
  <2>6. faults' >= 1 /\ (faults' <= 1 => Seen' \cup Left' = 1..(Final' - 1))
    <3>1. ASSUME faults' <= 1 PROVE Seen' \cup Left' = 1..(Final' - 1)
      <4>1. Seen' = Seen \cup {Head(pending)} /\ Seen \cup Left = 1..(Final - 1)
        BY <2>2, <2>3, <2>5, <3>1
      <4> QED BY <1>0, <2>4, <4>1
    <3> QED BY <2>5, <3>1
  <2>7. CASE Tail(pending) = <<>>
    <3>1. Left' = {}
      BY <2>2, <2>7 DEF Left
    <3> QED BY <1>0, <2>2, <2>3, <2>6, <2>7, <3>1 DEF FlushInv, Sent, Silent
  <2>8. CASE Tail(pending) # <<>>
    BY <1>0, <2>2, <2>3, <2>6, <2>8 DEF FlushInv, Silent
  <2> QED BY <2>7, <2>8
<1>4. CASE Answer
  <2>1. PICK fate : /\ Call(fate) /\ Post("answer", {Final}, fate)
                    /\ Goto("loop", IF fate = "ok" THEN AfterFlush ELSE "answer_text")
    BY <1>4 DEF Answer
  <2>2. Final >= 1 /\ Sent(1..(Final - 1)) /\ NoAnswer
    BY <1>4 DEF Answer, FlushInv
  <2>3. /\ Seen' = Seen \cup (IF fate = "refused" THEN {} ELSE {Final}) /\ AnswerLast'
    BY <1>0, <2>1, PostSeen, PostOrder
  <2>4. (1..(Final - 1)) \cup {Final} = 1..Final
    BY <1>0, <2>2
  <2>5. faults' <= 1 => faults <= 1
    BY <1>0, <2>1
  <2>6. CASE fate = "ok"
    <3>1. at'["loop"] \in {"stats", "closing"}
      BY <1>0, <2>1, <2>6 DEF AfterFlush
    <3>2. Sent(1..Final)'
      BY <1>0, <2>2, <2>3, <2>4, <2>5, <2>6 DEF Sent
    <3> QED BY <2>3, <3>1, <3>2 DEF FlushInv, Silent
  <2>7. CASE fate # "ok"
    <3>1. at'["loop"] = "answer_text" /\ faults' >= 1
      BY <1>0, <2>1, <2>7
    <3>2. faults' <= 1 => Seen' \cup {Final'} = 1..Final'
      BY <1>0, <2>2, <2>3, <2>4, <2>5 DEF Sent
    <3> QED BY <1>0, <2>2, <2>3, <3>1, <3>2 DEF FlushInv, Silent
  <2> QED BY <2>6, <2>7
<1>5. CASE AnswerText
  <2>1. PICK fate : Call(fate) /\ Post("answer_text", {Final}, fate)
    BY <1>5 DEF AnswerText
  <2>2. faults >= 1 /\ (faults <= 1 => Seen \cup {Final} = 1..Final)
    BY <1>5 DEF AnswerText, FlushInv
  <2>3. /\ Seen' = Seen \cup (IF fate = "refused" THEN {} ELSE {Final}) /\ AnswerLast'
    BY <1>0, <2>1, PostSeen, PostOrder
  <2>4. faults' <= 1 => fate = "ok" /\ faults <= 1
    BY <1>0, <2>1, <2>2
  <2>5. at'["loop"] \in {"stats", "closing"}
    BY <1>0, <1>5 DEF AnswerText, AfterFlush
  <2>6. Sent(1..Final)'
    BY <1>0, <2>2, <2>3, <2>4 DEF Sent
  <2> QED BY <2>3, <2>5, <2>6 DEF FlushInv, Silent
<1>6. CASE Stats
  <2>1. PICK fate : Call(fate) /\ Post("stats", {}, fate)
    BY <1>6 DEF Stats
  <2>2. AnswerLast' /\ Seen' = Seen
    BY <1>0, <2>1, PostPlain
  <2>3. faults' <= 1 => faults <= 1
    BY <1>0, <2>1
  <2>4. Sent(1..Final)' /\ at'["loop"] = "closing"
    BY <1>0, <1>6, <2>2, <2>3 DEF Stats, FlushInv, Sent
  <2> QED BY <2>2, <2>4 DEF FlushInv, Silent
<1> QED BY <1>1, <1>2, <1>3, <1>4, <1>5, <1>6

LEMMA SettleFlush ==
    ASSUME RenderInv, FlushInv, NEW how \in Outcomes, Settle(how)
    PROVE  FlushInv'
<1>1. /\ UNCHANGED <<chat, blocks, pending, faults>> /\ at'["loop"] = "over" /\ outcome' = how
      /\ IF how = "completed" THEN at["loop"] = "closing" ELSE at["loop"] = "ready"
  BY FlushTypes DEF Settle, turnState, Goto, Places
<1>2. Seen' = Seen /\ Final' = Final /\ (NoText => NoText') /\ AnswerLast'
  BY <1>1 DEF Seen, Final, NoText, AnswerLast, FlushInv
<1>3. CASE how = "completed"
  BY <1>1, <1>2, <1>3 DEF FlushInv, Sent, Silent
<1>4. CASE how # "completed"
  BY <1>1, <1>2, <1>4 DEF FlushInv, Silent
<1> QED BY <1>3, <1>4

LEMMA FlushStart == RenderInit => FlushInv
BY DEF RenderInit, FlushInv, Silent, NoText, AnswerLast

LEMMA FlushStep ==
    ASSUME RenderInv, FlushInv, [RenderNext]_renderVars
    PROVE  FlushInv'
<1>1. CASE UNCHANGED renderVars
  <2>1. faults' \in Nat /\ faults' >= faults
    BY <1>1, FlushTypes DEF renderVars
  <2> QED BY <1>1, <2>1, AsideFlush DEF renderVars, turnState
<1>2. CASE RenderNext
  BY <1>2, HandlerFlush, EmitFlush, TextsFlush, TurnEndFlush, SettleFlush
     DEF RenderNext, EmitStep, CloseTurn, Outcomes
<1> QED BY <1>1, <1>2

\* A completed turn has sent every block of its text as long as at most one call failed, with
\* the answer below all other blocks; a turn that was cancelled or failed has sent none of it.
THEOREM NothingEverLost == TurnSpec => []NothingLost
<1>1. RenderInv /\ FlushInv => NothingLost
  <2> SUFFICES ASSUME RenderInv, FlushInv, at["loop"] = "over" PROVE NothingLost
    BY DEF NothingLost
  <2>1. CASE outcome = "completed"
    <3>1. Sent(1..Final) /\ DOMAIN blocks = 1..Final
      BY <2>1, FlushTypes DEF FlushInv, Final
    <3>2. \A n \in Answered, m \in Partial : m < n
      BY DEF FlushInv, AnswerLast, Answered, Partial
    <3> QED BY <2>1, <3>1, <3>2 DEF NothingLost, Sent, Seen
  <2>2. CASE outcome # "completed"
    <3>1. \A n \in DOMAIN chat : chat[n].kind \in Plain
      BY <2>2 DEF FlushInv, NoText
    <3>2. Answered = {} /\ Partial = {} /\ {n \in DOMAIN chat : chat[n].kind = "stats"} = {}
      BY <3>1 DEF Answered, Partial, Plain
    <3> QED BY <2>2, <3>2 DEF NothingLost
  <2> QED BY <2>1, <2>2
<1> QED BY <1>1, TurnImplementsRendering, RenderInductive, FlushStart, FlushStep, PTL DEF RenderSpec
=============================================================================
