---------------------------- MODULE AutoApprove ----------------------------
(***************************************************************************)
(* Scoped auto-approval (claude/auto-approve.ts): which tool calls run     *)
(* without a permission card.  A Bash call is judged by the rules of the   *)
(* project's settings files, which are read again when the modification    *)
(* time of one of them has changed.  Several calls are judged at the same  *)
(* time and the files change meanwhile; every stat and every read of a     *)
(* file is a step, and may fail although the file is there: the code takes *)
(* such a file for a missing one, and the history fields unstat and unread *)
(* keep which were taken so.                                               *)
(*                                                                         *)
(* A rule stands for the set of command texts it matches, so the rules of  *)
(* a file are the texts they allow and the texts they deny.                *)
(***************************************************************************)
EXTENDS Integers, FiniteSets, Functions

CONSTANTS
    Calls,          \* invocations of decide
    Commands,       \* commands a Bash call may carry
    Inputs,         \* inputs of other tools: sets of paths
    Rules,          \* rules a settings file may have
    Levels,         \* number of directories from cwd (1) up to the boundary
    ReadonlyOn,     \* access.auto_approve_readonly
    ProjectRulesOn, \* access.honor_project_permissions
    MaxEdits,       \* bound on changes of the directories
    MaxFailures     \* bound on stats and reads that fail

\* A command, trimmed; splitBashSegments understands it if it has segments.
Text == UNION {{c.whole} \cup c.segments : c \in Commands}

ASSUME ApproveAssumption ==
    /\ Levels \in Nat \ {0} /\ {MaxEdits, MaxFailures} \subseteq Nat
    /\ {ReadonlyOn, ProjectRulesOn} \subseteq BOOLEAN
    /\ Rules \subseteq [allow: SUBSET Text, deny: SUBSET Text]
    /\ Inputs \subseteq SUBSET [key: {"path", "pattern"}, escapes: BOOLEAN, inside: BOOLEAN]

VARIABLES
    disk,       \* the settings file of each directory and its modification time
    gitRoots,   \* directories that hold a .git
    edits,      \* number of changes so far
    failures,   \* number of failed stats and reads so far
    removed,    \* history: directories whose file was removed at some time
    judge,      \* the invocations of decide
    rulesCache, \* the entry of rulesCache for cwd
    during      \* history: what the files say while an invocation runs

approveVars == <<disk, gitRoots, edits, failures, removed, judge, rulesCache, during>>

Dirs == 1..Levels
NoRules == [allow |-> {}, deny |-> {}]
Missing == [stamp |-> 0, rules |-> NoRules]
NoEntry == [dirs |-> 0, rules |-> NoRules, stamps |-> [d \in {} |-> 0], unread |-> {}]
ToolKinds == {"mcp", "change", "todo", "read", "other"}
Merged == [allow: SUBSET Text, deny: SUBSET Text]
Stamps == UNION {[D -> 0..MaxEdits] : D \in SUBSET Dirs}
Judging == [at: {"stat", "read"}, command: Commands, stamps: Stamps, dirs: Dirs, next: Dirs,
            rules: Merged, unstat: SUBSET Dirs, unread: SUBSET Dirs]
Verdict == [at: {"said"}, command: Commands, dirs: Dirs, approved: BOOLEAN,
            unstat: SUBSET Dirs, unread: SUBSET Dirs]

ApproveTypeOK ==
    /\ disk \in [Dirs -> [stamp: 0..MaxEdits, rules: Rules \cup {NoRules}]]
    /\ gitRoots \subseteq Dirs /\ removed \subseteq Dirs
    /\ edits \in 0..MaxEdits /\ failures \in 0..MaxFailures
    /\ judge \in [Calls -> Judging \cup [at: {"idle"}] \cup [at: {"said"}, approved: BOOLEAN]
                     \cup Verdict]
    /\ rulesCache \in [dirs: 0..Levels, rules: Merged, stamps: Stamps, unread: SUBSET Dirs]
    /\ during \in [Calls -> [allow: [Dirs -> SUBSET Text], deny: [Dirs -> SUBSET Text]]]

ApproveInit ==
    /\ disk = [d \in Dirs |-> Missing]
    /\ gitRoots = {} /\ edits = 0 /\ failures = 0 /\ removed = {}
    /\ judge = [c \in Calls |-> [at |-> "idle"]]
    /\ rulesCache = NoEntry
    /\ during = [c \in Calls |-> [allow |-> [d \in Dirs |-> {}], deny |-> [d \in Dirs |-> {}]]]

-----------------------------------------------------------------------------
(* The project: its files are written, broken, removed by others.  readSettings: a file *)
(* that is missing or malformed has no rules.                                           *)

DiskChanges(d, file) ==
    /\ edits < MaxEdits /\ edits' = edits + 1
    /\ disk' = [disk EXCEPT ![d] = file]
    /\ during' = [c \in Calls |->
                    IF judge[c].at \in {"idle", "said"} THEN during[c]
                    ELSE [allow |-> [during[c].allow EXCEPT ![d] = @ \cup file.rules.allow],
                          deny |-> [during[c].deny EXCEPT ![d] = @ \cap file.rules.deny]]]
    /\ UNCHANGED <<gitRoots, failures, judge, rulesCache>>

\* A file that is written, or broken, gets a time of its own.
WriteFile(d, rules) ==
    /\ DiskChanges(d, [stamp |-> edits + 1, rules |-> rules])
    /\ UNCHANGED removed

RemoveFile(d) ==
    /\ disk[d] # Missing
    /\ DiskChanges(d, Missing)
    /\ removed' = removed \cup {d}

GitInit(d) ==
    /\ d \notin gitRoots /\ gitRoots' = gitRoots \cup {d}
    /\ edits < MaxEdits /\ edits' = edits + 1
    /\ UNCHANGED <<disk, failures, removed, judge, rulesCache, during>>

-----------------------------------------------------------------------------
(* Tools other than Bash: decideInner. *)

\* extractPaths and allPathsWithinCwd.
AllPathsWithinCwd(input) ==
    \A p \in {p \in input : p.key = "path" \/ p.escapes} : p.inside

Decide(c, tool, input) ==
    /\ judge[c].at \in {"idle", "said"}
    /\ judge' = [judge EXCEPT ![c] =
                   [at |-> "said",
                    approved |-> /\ tool \notin {"mcp", "change"} /\ ReadonlyOn
                                 /\ (tool = "todo" \/ (tool = "read" /\ AllPathsWithinCwd(input)))]]
    /\ UNCHANGED <<disk, gitRoots, edits, failures, removed, rulesCache, during>>

-----------------------------------------------------------------------------
(* Bash: decideBash and loadRules. *)

\* candidateDirs: up to a directory that is a git root or the boundary; a .git whose stat
\* fails is passed over.
IsLastDir(n) == n \in gitRoots \cup {Levels}

DecideBash(c, cmd, n) ==
    /\ judge[c].at \in {"idle", "said"}
    /\ IF ProjectRulesOn
       THEN judge' = [judge EXCEPT ![c] =
                        [at |-> "stat", command |-> cmd, stamps |-> [d \in {} |-> 0],
                         dirs |-> n, next |-> 1, rules |-> NoRules,
                         unstat |-> {}, unread |-> {}]]
       ELSE judge' = [judge EXCEPT ![c] = [at |-> "said", approved |-> FALSE]]
    /\ during' = [during EXCEPT ![c] =
                    [allow |-> [d \in Dirs |-> disk[d].rules.allow],
                     deny |-> [d \in Dirs |-> disk[d].rules.deny]]]
    /\ UNCHANGED <<disk, gitRoots, edits, failures, removed, rulesCache>>

Candidates_whole_only(cmd) ==    \* mutant: deny rules are not tried on the segments
    {cmd.whole}

\* What deny rules are tried on.
Candidates(cmd) == {cmd.whole} \cup cmd.segments

Approves(rules, cmd) ==
    /\ cmd.segments # {}
    /\ Candidates(cmd) \cap rules.deny = {}
    /\ cmd.segments \subseteq rules.allow

\* The verdict, by these rules.
Say(c, rules, unstat, unread) ==
    judge' = [judge EXCEPT ![c] = [at |-> "said", command |-> @.command, dirs |-> @.dirs,
                                   approved |-> Approves(rules, @.command),
                                   unstat |-> unstat, unread |-> unread]]

\* A stat or a read of a file succeeds, or fails although the file is there.
Answers(d, ok) ==
    \/ ok /\ UNCHANGED failures
    \/ ~ok /\ disk[d] # Missing /\ failures < MaxFailures /\ failures' = failures + 1
Failed(D, d, ok) == IF ok THEN D ELSE D \cup {d}

\* The modification times are asked for in parallel; the cache is looked up with the last
\* one.  A stat that fails counts as a missing file.
StatFile(c, d, ok) ==
    LET j == judge[c]
        stamps == [e \in DOMAIN j.stamps \cup {d} |->
                     IF e # d THEN j.stamps[e] ELSE IF ok THEN disk[d].stamp ELSE 0]
        unstat == Failed(j.unstat, d, ok)
        hit == DOMAIN stamps = 1..j.dirs /\ rulesCache.stamps = stamps IN
    /\ j.at = "stat" /\ d \in 1..j.dirs \ DOMAIN j.stamps
    /\ Answers(d, ok)
    /\ \/ hit /\ Say(c, rulesCache.rules, unstat, rulesCache.unread)
       \/ /\ ~hit
          /\ judge' = [judge EXCEPT ![c].stamps = stamps, ![c].unstat = unstat,
                         ![c].at = IF DOMAIN stamps = 1..j.dirs THEN "read" ELSE "stat"]
    /\ UNCHANGED <<disk, gitRoots, edits, removed, rulesCache, during>>

\* readSettings: a file that cannot be read has no rules.
Read(j, ok) ==
    LET file == IF ok THEN disk[j.next].rules ELSE NoRules IN
    [allow |-> j.rules.allow \cup file.allow, deny |-> j.rules.deny \cup file.deny]

ReadFile_stamps_late(c, ok) ==    \* mutant: the times of the entry are those after the reads
    LET j == judge[c]
        rules == Read(j, ok)
        unread == Failed(j.unread, j.next, ok) IN
    /\ j.at = "read" /\ Answers(j.next, ok)
    /\ \/ /\ j.next < j.dirs
          /\ judge' = [judge EXCEPT ![c].next = @ + 1, ![c].rules = rules, ![c].unread = unread]
          /\ UNCHANGED rulesCache
       \/ /\ j.next = j.dirs
          /\ rulesCache' = [dirs |-> j.dirs, rules |-> rules, unread |-> unread,
                            stamps |-> [d \in 1..j.dirs |-> disk[d].stamp]]
          /\ Say(c, rules, {}, unread)
    /\ UNCHANGED <<disk, gitRoots, edits, removed, during>>

\* The files are read one after the other, the deepest first; the entry of the cache has
\* the times from before the reads, also when a read has failed.
ReadFile(c, ok) ==
    LET j == judge[c]
        rules == Read(j, ok)
        unread == Failed(j.unread, j.next, ok) IN
    /\ j.at = "read" /\ Answers(j.next, ok)
    /\ \/ /\ j.next < j.dirs
          /\ judge' = [judge EXCEPT ![c].next = @ + 1, ![c].rules = rules, ![c].unread = unread]
          /\ UNCHANGED rulesCache
       \/ /\ j.next = j.dirs
          /\ rulesCache' = [dirs |-> j.dirs, rules |-> rules, unread |-> unread,
                            stamps |-> j.stamps]
          /\ Say(c, rules, {}, unread)
    /\ UNCHANGED <<disk, gitRoots, edits, removed, during>>

-----------------------------------------------------------------------------
ApproveNext ==
    \/ \E d \in Dirs : RemoveFile(d) \/ GitInit(d)
                       \/ \E rules \in Rules \cup {NoRules} : WriteFile(d, rules)
    \/ \E c \in Calls :
        \/ \E tool \in ToolKinds, input \in Inputs : Decide(c, tool, input)
        \/ \E cmd \in Commands, n \in Dirs : IsLastDir(n) /\ DecideBash(c, cmd, n)
        \/ \E d \in Dirs, ok \in BOOLEAN : StatFile(c, d, ok)
        \/ \E ok \in BOOLEAN : ReadFile(c, ok)

ApproveSpec == ApproveInit /\ [][ApproveNext]_approveVars

-----------------------------------------------------------------------------
\* As long as no modification time differs from those of the cached entry, the entry has
\* every rule of the files that are there, whatever was written while it was loaded or by
\* whom, but for the files whose read failed then; and no other rule, unless a file was
\* removed (loadRules, stampsEqual).
CacheIsTrue ==
    LET e == rulesCache
        read == 1..e.dirs \ e.unread IN
    e.stamps = [d \in 1..e.dirs |-> disk[d].stamp] =>
        /\ \A d \in read : /\ disk[d].rules.allow \subseteq e.rules.allow
                          /\ disk[d].rules.deny \subseteq e.rules.deny
        /\ removed = {} => /\ e.rules.allow = UNION {disk[d].rules.allow : d \in read}
                           /\ e.rules.deny = UNION {disk[d].rules.deny : d \in read}

\* What deny rules are tried on (decideBash).
Parts(cmd) == {cmd.whole} \cup cmd.segments

\* A command is approved only if no file within reach has denied it, or one of its segments,
\* all the time from the question to the verdict, but for files whose stat failed, or whose
\* read failed then or when the entry of the cache was loaded; and only if each segment was
\* allowed by a file at some moment in between (or by one removed since, or by one whose
\* stat failed): deny wins, although the files change while they are read (decideBash).
StandingDenyWins ==
    \A c \in Calls :
        judge[c].at = "said" /\ judge[c].approved /\ "command" \in DOMAIN judge[c] =>
            LET j == judge[c]
                near == 1..j.dirs IN
            /\ \A d \in near \ (j.unstat \cup j.unread) :
                 Parts(j.command) \cap during[c].deny[d] = {}
            /\ removed = {} /\ j.unstat = {} =>
                 j.command.segments \subseteq UNION {during[c].allow[d] : d \in near}

\* What the module's header and readSettings claim: an unreadable rules file or a filesystem
\* error never widens what is approved, so that a standing deny rule wins unconditionally.
ErrorsNeverWiden ==
    \A c \in Calls :
        judge[c].at = "said" /\ judge[c].approved /\ "command" \in DOMAIN judge[c] =>
            \A d \in 1..judge[c].dirs : Parts(judge[c].command) \cap during[c].deny[d] = {}
=============================================================================
