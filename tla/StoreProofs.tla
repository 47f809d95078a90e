---------------------------- MODULE StoreProofs ----------------------------
(***************************************************************************)
(* Theorems about StateStore for any ring, any bounds and any order of     *)
(* writers, failures and crashes: what was saved stays, crashes are        *)
(* noticed, and a message whose flush landed is not handled again.         *)
(*                                                                         *)
(* The argument: writes never overlap, so a write takes its body after the *)
(* one before it landed, and the last state it takes is never older than   *)
(* what its caller gave.                                                   *)
(***************************************************************************)
EXTENDS StateStore, FiniteSetTheorems, SequenceTheorems, WellFoundedInduction, TLAPS

\* The process has read the file.
Loaded == proc \notin {"down", "marking"}

\* Position n is neither expired nor pushed out of the ring.
Kept(n) == log[n].at > now - Ttl /\ Len(log) - n < Capacity

\* The types, the sizes of the rings apart.
Typed ==
    /\ proc \in {"down", "marking", "reloading", "serving", "closing", "flushing", "finishing"}
    /\ file \in Stored
    /\ lastState \in [clean: BOOLEAN, ver: 0..MaxVersion]
    /\ seen \in SUBSET Positions /\ ring \in SUBSET Positions
    /\ writes \in Seq(Write)
    /\ ver \in 0..MaxVersion /\ timer \in BOOLEAN
    /\ now \in 0..MaxTime
    /\ log \in Seq([id: Ids, at: 0..MaxTime])
    /\ flushed \subseteq Positions
    /\ dropped \in [of: {0} \cup Positions, at: 0..MaxTime]
    /\ acked \in 0..MaxVersion /\ refused \in 0..MaxVersion
    /\ served \in BOOLEAN
    /\ starts \in 0..MaxStarts /\ failures \in 0..MaxFailures

\* Whose writes may wait when; only the first one has taken its body.
Chain ==
    /\ proc = "down" => writes = <<>>
    /\ proc = "marking" => \A i \in DOMAIN writes : writes[i].by = "mark"
    /\ proc = "reloading" => \A i \in DOMAIN writes : writes[i].by = "reload"
    /\ Open => \A i \in DOMAIN writes : writes[i].by \in {"session", "ring", "flush", "final"}
    /\ \A i \in DOMAIN writes : writes[i].by = "final" => proc = "finishing"
    /\ \A i \in DOMAIN writes : i > 1 => writes[i].body = NoBody
    /\ proc = "marking" => Len(writes) = 1
    /\ proc = "reloading" => Len(writes) = 1

\* The sessions never get older: file, last state, memory.
Newer ==
    /\ acked <= file.ver
    /\ proc # "down" => file.ver <= lastState.ver
    /\ Loaded => lastState.ver <= ver
    /\ \A i \in DOMAIN writes :
          /\ writes[i].ver <= lastState.ver
          /\ writes[i].body # NoBody =>
                /\ file.ver <= writes[i].body.ver
                /\ writes[i].ver <= writes[i].body.ver
                /\ writes[i].body.ver <= lastState.ver

\* Nothing says clean while messages are accepted.
Unclean ==
    /\ served => ~file.clean
    /\ proc \in {"serving", "closing", "flushing"} => served
    /\ proc = "finishing" => ~served
    /\ proc = "reloading" => ~file.clean
    /\ served \/ proc \in {"marking", "reloading"} =>
          /\ proc # "down" => ~lastState.clean
          /\ \A i \in DOMAIN writes : ~writes[i].body.clean

\* A flush that landed, or waits, is in every copy of the ring it reached.
Remembered ==
    /\ \A n \in flushed : Kept(n) =>
          /\ n \in file.seen
          /\ proc # "down" => n \in seen
          /\ Loaded => n \in ring
          /\ \A i \in DOMAIN writes : writes[i].body # NoBody => n \in writes[i].body.seen
    /\ \A i \in DOMAIN writes : writes[i].at # 0 /\ Kept(writes[i].at) =>
          /\ Loaded
          /\ writes[i].at \in seen
          /\ writes[i].at \in ring
          /\ writes[i].body # NoBody => writes[i].at \in writes[i].body.seen

\* No copy of the ring outgrows the capacity.
Bounded ==
    /\ Cardinality(ring) <= Capacity /\ Cardinality(seen) <= Capacity
    /\ Cardinality(file.seen) <= Capacity
    /\ \A i \in DOMAIN writes : Cardinality(writes[i].body.seen) <= Capacity

IInv == Typed /\ Chain /\ Newer /\ Unclean /\ Remembered /\ Bounded /\ SuppressionEnds

\* The assumption on the constants, one by one.
LEMMA Bounds ==
    /\ Capacity \in Nat /\ Capacity > 0 /\ Ttl \in Nat /\ Ttl > 0
    /\ MaxTime \in Nat /\ MaxVersion \in Nat /\ MaxStarts \in Nat /\ MaxFailures \in Nat
  BY StoreAssumption DEF StoreAssumption

----------------------------------------------------------------------------
(* The queue of writes.                                                    *)

\* Taking the first write out of the chain leaves the others in order.
LEMMA WithoutFirst ==
    ASSUME NEW S, NEW q \in Seq(S), Len(q) > 0
    PROVE  /\ Without(q, 1) \in Seq(S)
           /\ Len(Without(q, 1)) = Len(q) - 1
           /\ \A i \in 1..(Len(q) - 1) : Without(q, 1)[i] = q[i + 1]
<1> DEFINE n == Len(q) - 1
<1>1. n \in Nat /\ \A k \in 1..n : q[k + 1] \in S
  OBVIOUS
<1>2. Without(q, 1) = [k \in 1..n |-> q[k + 1]]
  BY DEF Without
<1> HIDE DEF n
<1>3. Without(q, 1) \in Seq(S) /\ Len(Without(q, 1)) = n
  BY <1>1, <1>2
<1> QED BY <1>2, <1>3 DEF n

\* save() makes its state the last one and appends its write.
LEMMA SaveQueues ==
    ASSUME NEW W, NEW q \in Seq(W), NEW by, NEW n, NEW state,
           Queued(by, state.ver, n) \in W, Save(q, by, state, n)
    PROVE  /\ writes' \in Seq(W)
           /\ Len(writes') = Len(q) + 1
           /\ \A i \in DOMAIN q : writes'[i] = q[i]
           /\ writes'[Len(q) + 1] = Queued(by, state.ver, n)
           /\ \A i \in DOMAIN writes' : i \in DOMAIN q \/ i = Len(q) + 1
           /\ lastState' = state
  BY DEF Save

\* What is known of each write that waits.
LEMMA WriteTyped ==
    ASSUME Typed, NEW i \in DOMAIN writes
    PROVE  /\ writes[i] \in Write /\ i \in Nat
           /\ writes[i].ver \in Int /\ writes[i].at \in {0} \cup Positions
           /\ writes[i].body \in Stored \cup {NoBody}
           /\ writes[i].body.ver \in Int /\ writes[i].body.clean \in BOOLEAN
           /\ writes[i].body.seen \in SUBSET Positions
<1>1. writes[i] \in Write /\ i \in Nat
  BY DEF Typed
<1>2. writes[i].ver \in Int /\ writes[i].at \in {0} \cup Positions /\ writes[i].body \in Stored \cup {NoBody}
  BY <1>1 DEF Write
<1>3. CASE writes[i].body \in Stored
  BY <1>1, <1>2, <1>3 DEF Stored
<1>4. CASE writes[i].body = NoBody
  BY <1>1, <1>2, <1>4 DEF NoBody
<1> QED BY <1>2, <1>3, <1>4

\* The one write that settles is the first; those behind it stay, without a body.
LEMMA FirstSettles ==
    ASSUME Typed, Chain, NEW i \in DOMAIN writes, Turn(i)
    PROVE  /\ i = 1 /\ Len(writes) > 0
           /\ writes[1] \in Write
           /\ Without(writes, 1) \in Seq(Write)
           /\ Len(Without(writes, 1)) = Len(writes) - 1
           /\ \A j \in DOMAIN Without(writes, 1) :
                 /\ j + 1 \in DOMAIN writes
                 /\ Without(writes, 1)[j] = writes[j + 1]
                 /\ Without(writes, 1)[j].body = NoBody
<1>1. i = 1 /\ Len(writes) > 0 /\ writes[1] \in Write
  BY DEF Typed, Turn
<1>2. /\ Without(writes, 1) \in Seq(Write)
      /\ Len(Without(writes, 1)) = Len(writes) - 1
      /\ \A j \in 1..(Len(writes) - 1) : Without(writes, 1)[j] = writes[j + 1]
  BY <1>1, WithoutFirst DEF Typed
<1>3. ASSUME NEW j \in DOMAIN Without(writes, 1)
      PROVE  j + 1 \in DOMAIN writes /\ Without(writes, 1)[j] = writes[j + 1] /\ j + 1 > 1
  <2>1. DOMAIN Without(writes, 1) = 1..Len(Without(writes, 1)) /\ DOMAIN writes = 1..Len(writes)
    BY <1>2 DEF Typed
  <2> QED BY <1>1, <1>2, <2>1
<1> QED BY <1>1, <1>2, <1>3 DEF Chain

----------------------------------------------------------------------------
(* The ring.                                                               *)

\* A set of positions is finite, and no larger than any interval around it.
LEMMA PositionsFinite ==
    ASSUME NEW m \in Nat, NEW n \in Nat, NEW R \in SUBSET (m + 1)..n
    PROVE  /\ IsFiniteSet(R) /\ Cardinality(R) \in Nat
           /\ m <= n => Cardinality(R) <= n - m
<1>1. m + 1 \in Int /\ n \in Int
  OBVIOUS
<1>2. IsFiniteSet((m + 1)..n) /\ Cardinality((m + 1)..n) = IF m + 1 > n THEN 0 ELSE n - (m + 1) + 1
  BY <1>1, FS_Interval, ZenonT(30)
<1>3. IsFiniteSet(R) /\ Cardinality(R) <= Cardinality((m + 1)..n)
  BY <1>2, FS_Subset
<1>4. Cardinality(R) \in Nat
  BY <1>3, FS_CardinalityType
<1> QED BY <1>2, <1>3, <1>4

\* A non-empty set of naturals has a smallest element.
LEMMA Smallest ==
    ASSUME NEW T \in SUBSET Nat, T # {}
    PROVE  \E x \in T : \A y \in T : y >= x
<1> DEFINE Less == OpToRel(<, Nat)
<1>1. \A x, y \in Nat : y < x => <<y, x>> \in Less
  BY DEF OpToRel
<1>2. IsWellFoundedOn(Less, Nat)
  BY NatLessThanWellFounded
<1> HIDE DEF Less
<1>3. PICK x \in T : \A y \in T : ~ (<<y, x>> \in Less)
  BY <1>2, WFMin
<1>4. \A y \in T : ~ (y < x)
  BY <1>1, <1>3
<1> QED BY <1>3, <1>4

\* evictOverflow() leaves a part of the ring, within the capacity.
LEMMA EvictBounds ==
    ASSUME NEW n \in Nat, NEW R \in SUBSET 1..n
    PROVE  Evict(R) \subseteq R /\ Cardinality(Evict(R)) <= Capacity
<1> DEFINE E == Evict(R)
<1>1. \A x \in E : x \in R /\ x \in Nat /\ Cardinality({k \in R : k > x}) < Capacity
  BY DEF Evict
<1> HIDE DEF E
<1>2. IsFiniteSet(R) /\ IsFiniteSet(E) /\ Cardinality(E) \in Nat
  <2>1. R \in SUBSET (0 + 1)..n
    OBVIOUS
  <2>2. IsFiniteSet(R)
    BY <2>1, PositionsFinite
  <2>3. E \subseteq R
    BY <1>1
  <2> QED BY <2>2, <2>3, FS_Subset, FS_CardinalityType
<1>3. CASE E = {}
  BY <1>3, FS_EmptySet, StoreAssumption DEF StoreAssumption, E
<1>4. CASE E # {}
  <2>1. PICK x \in E : \A y \in E : y >= x
    BY <1>1, <1>4, Smallest
  <2> DEFINE Above == {k \in R : k > x}
  <2>2. E \ {x} \subseteq Above
    <3> SUFFICES ASSUME NEW y \in E, y # x PROVE y \in Above
      OBVIOUS
    <3>1. y \in Nat /\ x \in Nat /\ y >= x /\ y \in R
      BY <1>1, <2>1
    <3> QED BY <3>1
  <2>3. Cardinality(Above) < Capacity
    BY <1>1
  <2> HIDE DEF Above
  <2>4. Above \subseteq R
    BY DEF Above
  <2>5. IsFiniteSet(Above) /\ Cardinality(Above) \in Nat
    BY <1>2, <2>4, FS_Subset, FS_CardinalityType
  <2>6. Cardinality(E \ {x}) <= Cardinality(Above)
    BY <2>2, <2>5, FS_Subset
  <2>7. Cardinality(E \ {x}) = Cardinality(E) - 1
    BY <1>2, FS_RemoveElement
  <2>8. Cardinality(E) <= Capacity
    BY <1>2, <2>3, <2>5, <2>6, <2>7, StoreAssumption DEF StoreAssumption
  <2> QED BY <1>1, <2>8 DEF E
<1> QED BY <1>1, <1>3, <1>4 DEF E

\* It drops only what Capacity newer ones push out.
LEMMA EvictKeeps ==
    ASSUME NEW n \in Nat, NEW R \in SUBSET 1..n,
           NEW m \in R, n - m < Capacity
    PROVE  m \in Evict(R)
<1> DEFINE Above == {k \in R : k > m}
<1>2. m \in Nat /\ m <= n
  OBVIOUS
<1>5. \A k \in Above : k \in (m + 1)..n
  BY <1>2
<1>1. Above \in SUBSET (m + 1)..n
  BY <1>5
<1> HIDE DEF Above
<1>3. Cardinality(Above) \in Nat /\ Cardinality(Above) <= n - m
  BY <1>1, <1>2, PositionsFinite
<1> USE DEF Above
<1>4. Cardinality(Above) < Capacity
  BY <1>2, <1>3, StoreAssumption DEF StoreAssumption
<1> QED BY <1>4 DEF Evict

----------------------------------------------------------------------------
(* Types and the order of the chain.                                       *)

\* The sets of the types follow the log, and only a message makes it longer.
LEMMA SameLog ==
    ASSUME log' = log
    PROVE  Positions' = Positions /\ Stored' = Stored /\ Write' = Write
  BY DEF Positions, Stored, Write

LEMMA LongerLog ==
    ASSUME Typed, NEW entry, log' = Append(log, entry)
    PROVE  /\ Positions \subseteq Positions' /\ Stored \subseteq Stored' /\ Write \subseteq Write'
           /\ Len(log') = Len(log) + 1 /\ Len(log) + 1 \in Positions'
           /\ \A n \in Positions : log'[n] = log[n]
<1>1. Len(log') = Len(log) + 1 /\ Len(log) \in Nat /\ \A n \in Positions : log'[n] = log[n]
  BY DEF Typed, Positions
<1>2. Positions \subseteq Positions' /\ Len(log) + 1 \in Positions'
  BY <1>1 DEF Positions
<1>3. Stored \subseteq Stored'
  BY <1>2 DEF Stored
<1> QED BY <1>1, <1>2, <1>3 DEF Write

\* Steps that leave the chain alone.
LEMMA QuietShape ==
    ASSUME Typed, Chain, UNCHANGED <<writes, lastState, log>>,
           (\E id \in Ids : Duplicate(id)) \/ TurnCompletes \/ Shutdown \/ Tick
    PROVE  Typed' /\ Chain'
<1> USE SameLog
<1>1. ASSUME NEW id \in Ids, Duplicate(id) PROVE Typed' /\ Chain'
  <2>1. Prune(ring) \subseteq Positions /\ Hits(id) \subseteq Positions
    BY DEF Prune, Hits, Typed
  <2>2. dropped' \in [of: {0} \cup Positions, at: 0..MaxTime]
    BY <1>1, <2>1 DEF Duplicate, Typed
  <2> QED BY <1>1, <2>1, <2>2 DEF Duplicate, Typed, Chain, history, Open
<1>2. CASE TurnCompletes
  <2>1. ver' \in 0..MaxVersion
    BY <1>2, Bounds DEF TurnCompletes, Typed
  <2>2. timer' \in BOOLEAN
    BY <1>2 DEF TurnCompletes
  <2>3. Chain'
    BY <1>2 DEF TurnCompletes, Chain, Open
  <2> QED BY <1>2, <2>1, <2>2, <2>3 DEF TurnCompletes, Typed, history
<1>3. CASE Shutdown
  BY <1>3 DEF Shutdown, Typed, Chain, history, memory, Open
<1>4. CASE Tick
  BY <1>4, Bounds DEF Tick, Typed, Chain, history, memory, Open
<1> QED BY <1>1, <1>2, <1>3, <1>4

\* The steps in which a process that is up asks for a save.
LEMMA SaveShape ==
    ASSUME Typed, Chain, Open, Open', Write \subseteq Write',
           NEW by \in {"session", "ring", "flush", "final"},
           by = "final" => proc' = "finishing",
           proc = "finishing" => proc' = "finishing",
           NEW n \in {0} \cup Positions',
           NEW state \in [clean: BOOLEAN, ver: 0..MaxVersion],
           Save(writes, by, state, n)
    PROVE  /\ (writes \in Seq(Write))' /\ Chain'
           /\ (lastState \in [clean: BOOLEAN, ver: 0..MaxVersion])'
<1>1. Queued(by, state.ver, n) \in Write'
  BY DEF Queued, Write, Callers
<1>2. writes \in Seq(Write')
  BY DEF Typed
<1>3. /\ writes' \in Seq(Write')
      /\ Len(writes') = Len(writes) + 1
      /\ \A i \in DOMAIN writes : writes'[i] = writes[i]
      /\ writes'[Len(writes) + 1] = Queued(by, state.ver, n)
      /\ \A i \in DOMAIN writes' : i \in DOMAIN writes \/ i = Len(writes) + 1
      /\ lastState' = state
  BY <1>1, <1>2, SaveQueues
<1>4. ASSUME NEW i \in DOMAIN writes'
      PROVE  (i \in DOMAIN writes /\ writes'[i] = writes[i]) \/ writes'[i] = Queued(by, state.ver, n)
  BY <1>3
<1>5. Queued(by, state.ver, n).by = by /\ Queued(by, state.ver, n).body = NoBody
  BY DEF Queued
<1>6. Chain'
  BY <1>3, <1>4, <1>5 DEF Chain, Open
<1> QED BY <1>3, <1>6

LEMMA HandleShape ==
    ASSUME Typed, Chain, NEW id \in Ids, Handle(id)
    PROVE  Typed' /\ Chain'
<1>1. /\ Positions \subseteq Positions' /\ Stored \subseteq Stored' /\ Write \subseteq Write'
      /\ Len(log) + 1 \in Positions'
  BY LongerLog DEF Handle
<1>2. /\ (writes \in Seq(Write))' /\ Chain'
      /\ (lastState \in [clean: BOOLEAN, ver: 0..MaxVersion])'
  BY <1>1, SaveShape DEF Handle, Typed, Open
<1>3. ring' \subseteq Positions' /\ seen' \subseteq Positions'
  BY <1>1 DEF Handle, Typed, Prune, Evict
<1>4. log' \in Seq([id: Ids, at: 0..MaxTime])
  BY DEF Handle, Typed
<1> QED BY <1>1, <1>2, <1>3, <1>4 DEF Handle, Typed, history

LEMMA ManagerShape ==
    ASSUME Typed, Chain, SessionChange \/ DebounceFires \/ JournalClosed
    PROVE  Typed' /\ Chain'
<1>1. log' = log /\ Write \subseteq Write' /\ Positions' = Positions /\ Stored' = Stored
  BY SameLog DEF SessionChange, DebounceFires, JournalClosed
<1>2. \A v \in 0..MaxVersion : /\ Sessions(v) \in [clean: BOOLEAN, ver: 0..MaxVersion]
                              /\ FinalState(v) \in [clean: BOOLEAN, ver: 0..MaxVersion]
  BY DEF Sessions, FinalState
<1>3. CASE SessionChange
  <2>1. ver' \in 0..MaxVersion
    BY <1>3, Bounds DEF SessionChange, Typed
  <2>2. /\ (writes \in Seq(Write))' /\ Chain'
        /\ (lastState \in [clean: BOOLEAN, ver: 0..MaxVersion])'
    BY <1>1, <1>2, <1>3, <2>1, SaveShape DEF SessionChange, Open
  <2> QED BY <1>1, <1>3, <2>1, <2>2 DEF SessionChange, Typed, history
<1>4. CASE DebounceFires
  <2>1. /\ (writes \in Seq(Write))' /\ Chain'
        /\ (lastState \in [clean: BOOLEAN, ver: 0..MaxVersion])'
    BY <1>1, <1>2, <1>4, SaveShape DEF DebounceFires, Open, Typed
  <2> QED BY <1>1, <1>4, <2>1 DEF DebounceFires, Typed, history
<1>5. CASE JournalClosed
  <2>1. CASE timer
    <3>1. /\ (writes \in Seq(Write))' /\ Chain'
          /\ (lastState \in [clean: BOOLEAN, ver: 0..MaxVersion])'
      BY <1>1, <1>2, <1>5, <2>1, SaveShape DEF JournalClosed, Open, Typed
    <3> QED BY <1>1, <1>5, <2>1, <3>1 DEF JournalClosed, Typed
  <2>2. CASE ~timer
    <3>1. /\ (writes \in Seq(Write))' /\ Chain'
          /\ (lastState \in [clean: BOOLEAN, ver: 0..MaxVersion])'
      BY <1>1, <1>2, <1>5, <2>2, SaveShape DEF JournalClosed, SaveFinal, Open, Typed
    <3> QED BY <1>1, <1>5, <2>2, <3>1 DEF JournalClosed, SaveFinal, Typed
  <2> QED BY <2>1, <2>2
<1> QED BY <1>3, <1>4, <1>5

\* The process is gone: nothing of its memory is left.
LEMMA DownShape ==
    ASSUME Typed, log' = log, Down,
           file' \in Stored, flushed' \subseteq Positions, acked' \in 0..MaxVersion,
           refused' \in 0..MaxVersion, failures' \in 0..MaxFailures,
           UNCHANGED <<now, dropped, served, starts>>
    PROVE  Typed' /\ Chain'
<1>1. Positions' = Positions /\ Stored' = Stored /\ Write' = Write
  BY SameLog
<1>2. 0 \in 0..MaxVersion
  BY Bounds
<1>3. Chain'
  BY DEF Down, Chain, Open
<1>4. /\ (lastState \in [clean: BOOLEAN, ver: 0..MaxVersion])' /\ (writes \in Seq(Write))'
      /\ ver' \in 0..MaxVersion /\ timer' \in BOOLEAN /\ ring' = {} /\ seen' = {}
  <2>1. [clean |-> TRUE, ver |-> 0] \in [clean: BOOLEAN, ver: 0..MaxVersion]
    BY <1>2
  <2>2. writes' = <<>> /\ <<>> \in Seq(Write')
    BY DEF Down
  <2> QED BY <1>2, <2>1, <2>2 DEF Down
<1> QED BY <1>1, <1>3, <1>4 DEF Typed, Down

LEMMA StartShape ==
    ASSUME Typed, Chain, Start
    PROVE  Typed' /\ Chain'
<1>1. log' = log /\ Positions' = Positions /\ Stored' = Stored /\ Write' = Write
  BY SameLog DEF Start
<1> DEFINE state == Marked([clean |-> file.clean, ver |-> file.ver])
<1>2. state \in [clean: BOOLEAN, ver: 0..MaxVersion]
  BY DEF Marked, Typed, Stored
<1>3. Save(<<>>, "mark", state, 0)
  BY DEF Start
<1> HIDE DEF state
<1>4. Queued("mark", state.ver, 0) \in Write
  BY <1>2 DEF Queued, Write, Callers
<1>5. /\ writes' \in Seq(Write) /\ Len(writes') = 1
      /\ writes'[1] = Queued("mark", state.ver, 0) /\ lastState' = state
  BY <1>3, <1>4 DEF Save
<1>6. Chain'
  BY <1>5 DEF Chain, Start, Queued, Open
<1>7. seen' \in SUBSET Positions
  BY DEF Start, Typed, Stored
<1>8. starts' \in 0..MaxStarts
  BY Bounds DEF Start, Typed
<1> QED BY <1>1, <1>2, <1>5, <1>6, <1>7, <1>8 DEF Start, Typed, history

LEMMA CrashShape ==
    ASSUME Typed, Chain, Crash
    PROVE  Typed' /\ Chain'
  BY DownShape DEF Crash, Typed

\* A write takes its body: the last state and the ring.
LEMMA SnapshotEffect ==
    ASSUME Typed, Chain, NEW i \in DOMAIN writes, Snapshot(i)
    PROVE  /\ i = 1 /\ Body(writes[1]) \in Stored
           /\ (writes \in Seq(Write))' /\ DOMAIN writes' = DOMAIN writes
           /\ writes'[1] = [writes[1] EXCEPT !.body = Body(writes[1])]
           /\ \A j \in DOMAIN writes : j # 1 => writes'[j] = writes[j]
<1>1. i = 1 /\ writes[1] \in Write /\ log' = log /\ Write' = Write
  BY SameLog DEF Snapshot, Turn, Typed
<1>2. Body(writes[1]) \in Stored
  BY DEF Body, Stored, Typed
<1>3. [writes[1] EXCEPT !.body = Body(writes[1])] \in Write
  BY <1>1, <1>2 DEF Write
<1>4. writes' = [writes EXCEPT ![1] = [writes[1] EXCEPT !.body = Body(writes[1])]]
  BY <1>1 DEF Snapshot
<1> QED BY <1>1, <1>2, <1>3, <1>4 DEF Typed

LEMMA SnapshotShape ==
    ASSUME Typed, Chain, NEW i \in DOMAIN writes, Snapshot(i)
    PROVE  Typed' /\ Chain'
<1>1. /\ (writes \in Seq(Write))' /\ DOMAIN writes' = DOMAIN writes
      /\ \A j \in DOMAIN writes : writes'[j].by = writes[j].by
      /\ \A j \in DOMAIN writes : j > 1 => writes'[j] = writes[j]
      /\ Len(writes') = Len(writes)
  <2>1. /\ (writes \in Seq(Write))' /\ DOMAIN writes' = DOMAIN writes
        /\ writes'[1] = [writes[1] EXCEPT !.body = Body(writes[1])]
        /\ \A j \in DOMAIN writes : j # 1 => writes'[j] = writes[j]
    BY SnapshotEffect
  <2>2. 1 \in DOMAIN writes => writes[1] \in Write
    BY DEF Typed
  <2>3. 1 \in DOMAIN writes => writes'[1].by = writes[1].by
    BY <2>1, <2>2 DEF Write
  <2>4. Len(writes') = Len(writes)
    BY <2>1 DEF Typed
  <2>5. \A j \in DOMAIN writes : j > 1 => j # 1
    BY DEF Typed
  <2>6. \A j \in DOMAIN writes : writes'[j].by = writes[j].by
    BY <2>1, <2>3
  <2> QED BY <2>1, <2>4, <2>5, <2>6
<1>2. log' = log /\ Positions' = Positions /\ Stored' = Stored
  BY SameLog DEF Snapshot
<1>4. proc' = proc
  BY DEF Snapshot
<1>3. Chain'
  <2>1. proc = "down" => writes' = <<>>
    BY <1>1 DEF Chain, Typed
  <2> QED BY <1>1, <1>4, <2>1 DEF Chain, Open
<1> QED BY <1>1, <1>2, <1>3 DEF Snapshot, Typed, history

\* A save() settles, and its caller goes on.
LEMMA SettleShape ==
    ASSUME Typed, Chain, NEW i \in DOMAIN writes, Turn(i), NEW ok \in BOOLEAN,
           Settle(writes[1], ok, Without(writes, 1)),
           UNCHANGED <<log, now, dropped, starts>>, file' \in Stored,
           flushed' \subseteq Positions, acked' \in 0..MaxVersion,
           refused' \in 0..MaxVersion, failures' \in 0..MaxFailures
    PROVE  Typed' /\ Chain'
<1> DEFINE rest == Without(writes, 1)
<1>1. Positions' = Positions /\ Stored' = Stored /\ Write' = Write
  BY SameLog
<1>2. /\ 1 \in DOMAIN writes /\ writes[1] \in Write
      /\ rest \in Seq(Write) /\ Len(rest) = Len(writes) - 1
      /\ \A j \in DOMAIN rest : /\ rest[j].body = NoBody
                                /\ \E k \in DOMAIN writes : rest[j] = writes[k]
  BY FirstSettles
<1> HIDE DEF rest
<1>3. CASE writes[1].by = "mark" /\ ok
  <2> DEFINE state == Sessions(file'.ver)
  <2>1. /\ proc' = "reloading" /\ Save(<<>>, "reload", state, 0) /\ ver' = file'.ver
        /\ seen' = file'.seen /\ ring' = Evict(Prune(file'.seen)) /\ UNCHANGED <<timer, served>>
    BY <1>3 DEF Settle, MarkSettles
  <2>2. state \in [clean: BOOLEAN, ver: 0..MaxVersion]
    BY DEF Sessions, Stored
  <2> HIDE DEF state
  <2>3. Queued("reload", state.ver, 0) \in Write
    BY <2>2 DEF Queued, Write, Callers
  <2>4. /\ writes' \in Seq(Write) /\ Len(writes') = 1
        /\ writes'[1] = Queued("reload", state.ver, 0) /\ lastState' = state
    BY <2>1, <2>3 DEF Save
  <2>5. Chain'
    BY <2>1, <2>4 DEF Chain, Queued, Open
  <2>6. ring' \subseteq Positions /\ seen' \subseteq Positions
    BY <2>1 DEF Evict, Prune, Stored
  <2>7. ver' \in 0..MaxVersion
    BY <2>1 DEF Stored
  <2> QED BY <1>1, <2>1, <2>2, <2>4, <2>5, <2>6, <2>7 DEF Typed
<1>4. ASSUME Down, UNCHANGED served
      PROVE  Typed' /\ Chain'
  BY <1>4, DownShape
<1>5. CASE writes[1].by = "reload"
  <2>1. /\ proc' = "serving" /\ served' = TRUE /\ writes' = rest
        /\ UNCHANGED <<lastState, seen, ring, ver, timer>>
    BY <1>5 DEF Settle, ReloadSettles, rest
  <2>2. rest = <<>>
    <3>1. proc = "reloading"
      <4>1. proc # "down"
        BY <1>2 DEF Chain
      <4>2. proc # "marking"
        BY <1>2, <1>5 DEF Chain
      <4>3. ~Open
        BY <1>2, <1>5 DEF Chain
      <4> QED BY <4>1, <4>2, <4>3 DEF Open, Typed
    <3>2. Len(rest) = 0
      BY <1>2, <3>1 DEF Chain
    <3> QED BY <1>2, <3>2
  <2>3. Chain'
    BY <2>1, <2>2 DEF Chain, Open
  <2> QED BY <1>1, <1>2, <2>1, <2>3 DEF Typed
<1>6. CASE writes[1].by \in {"session", "ring"}
  <2>1. writes' = rest /\ UNCHANGED <<proc, lastState, seen, ring, ver, timer, served>>
    BY <1>6 DEF Settle, rest
  <2>2. Open
    <3>1. 1 \in DOMAIN writes /\ proc \notin {"down", "reloading", "marking"}
      BY <1>2, <1>6 DEF Chain
    <3> QED BY <1>2, <3>1 DEF Open, Typed
  <2>3. Chain'
    BY <1>2, <2>1, <2>2 DEF Chain, Open
  <2> QED BY <1>1, <1>2, <2>1, <2>3 DEF Typed
<1>7. CASE writes[1].by = "flush"
  <2> DEFINE state == FinalState(ver)
  <2>1. /\ proc' = "finishing" /\ served' = FALSE /\ Save(rest, "final", state, 0)
        /\ UNCHANGED <<seen, ring, ver, timer>>
    BY <1>7 DEF Settle, SaveFinal, rest
  <2>2. state \in [clean: BOOLEAN, ver: 0..MaxVersion]
    BY DEF FinalState, Typed
  <2> HIDE DEF state
  <2>3. Queued("final", state.ver, 0) \in Write
    BY <2>2 DEF Queued, Write, Callers
  <2>4. /\ writes' \in Seq(Write) /\ Len(writes') = Len(rest) + 1 /\ lastState' = state
        /\ \A j \in DOMAIN rest : writes'[j] = rest[j]
        /\ writes'[Len(rest) + 1] = Queued("final", state.ver, 0)
        /\ \A j \in DOMAIN writes' : j \in DOMAIN rest \/ j = Len(rest) + 1
    BY <1>2, <2>1, <2>3, SaveQueues
  <2>5. Open
    <3>1. 1 \in DOMAIN writes /\ proc \notin {"down", "reloading", "marking"}
      BY <1>2, <1>7 DEF Chain
    <3> QED BY <1>2, <3>1 DEF Open, Typed
  <2>6. \A j \in DOMAIN writes' : /\ writes'[j].by \in {"session", "ring", "flush", "final"}
                                 /\ writes'[j].body = NoBody
    BY <1>2, <2>4, <2>5 DEF Chain, Queued
  <2>7. Chain'
    BY <2>1, <2>6 DEF Chain, Open
  <2> QED BY <1>1, <2>1, <2>2, <2>4, <2>7 DEF Typed
<1> QED BY <1>3, <1>4, <1>5, <1>6, <1>7 DEF Settle, MarkSettles

\* A step of the chain is of its first write.
LEMMA LandEffect ==
    ASSUME Typed, Chain, NEW i \in DOMAIN writes, Land(i)
    PROVE  /\ i = 1 /\ writes[1] \in Write
           /\ writes[1].body # NoBody /\ writes[1].body \in Stored /\ file' = writes[1].body
           /\ acked' = Newest(acked, writes[1].ver)
           /\ flushed' = flushed \cup ({writes[1].at} \ {0})
           /\ Settle(writes[1], TRUE, Without(writes, 1))
           /\ UNCHANGED <<now, log, dropped, refused, starts, failures>>
<1>1. i = 1 /\ writes[1] \in Write
  BY DEF Land, Turn, Typed
<1>2. writes[1].body # NoBody /\ writes[1].body \in Stored
  BY <1>1 DEF Land, Write
<1> QED BY <1>1, <1>2 DEF Land

LEMMA FailEffect ==
    ASSUME Typed, Chain, NEW i \in DOMAIN writes, Fail(i)
    PROVE  /\ i = 1 /\ writes[1] \in Write
           /\ Settle(writes[1], FALSE, Without(writes, 1))
           /\ refused' \in 0..MaxVersion /\ failures' \in 0..MaxFailures
           /\ UNCHANGED <<file, now, log, dropped, flushed, acked, starts>>
<1>1. i = 1 /\ writes[1] \in Write
  BY DEF Fail, Turn, Typed
<1>2. refused' \in 0..MaxVersion
  BY <1>1 DEF Fail, Newest, Typed, Write
<1>3. failures' \in 0..MaxFailures
  BY Bounds DEF Fail, Typed
<1> QED BY <1>1, <1>2, <1>3 DEF Fail, AfterFailure

LEMMA WriteShape ==
    ASSUME Typed, Chain, NEW i \in DOMAIN writes, Land(i) \/ Fail(i)
    PROVE  Typed' /\ Chain'
<1>1. CASE Land(i)
  <2>1. acked' \in 0..MaxVersion /\ flushed' \subseteq Positions /\ file' \in Stored
    BY <1>1, LandEffect DEF Newest, Typed, Write
  <2>2. refused' \in 0..MaxVersion /\ failures' \in 0..MaxFailures
    BY <1>1, LandEffect DEF Typed
  <2> QED BY <1>1, <2>1, <2>2, LandEffect, SettleShape DEF Land
<1>2. CASE Fail(i)
  <2>1. file' \in Stored /\ flushed' \subseteq Positions /\ acked' \in 0..MaxVersion
    BY <1>2, FailEffect DEF Typed
  <2> QED BY <1>2, <2>1, FailEffect, SettleShape DEF Fail
<1> QED BY <1>1, <1>2

LEMMA Shape ==
    ASSUME Typed, Chain, [Next]_vars
    PROVE  Typed' /\ Chain'
<1>1. ASSUME NEW id \in Ids, Duplicate(id) PROVE Typed' /\ Chain'
  BY <1>1, QuietShape DEF Duplicate
<1>2. ASSUME NEW id \in Ids, Handle(id) PROVE Typed' /\ Chain'
  BY <1>2, HandleShape
<1>3. CASE TurnCompletes \/ Shutdown \/ Tick
  BY <1>3, QuietShape DEF TurnCompletes, Shutdown, Tick, memory
<1>4. CASE SessionChange \/ DebounceFires \/ JournalClosed
  BY <1>4, ManagerShape
<1>5. CASE Start
  BY <1>5, StartShape
<1>6. CASE Crash
  BY <1>6, CrashShape
<1>7. ASSUME NEW i \in DOMAIN writes, Snapshot(i) PROVE Typed' /\ Chain'
  BY <1>7, SnapshotShape
<1>8. ASSUME NEW i \in DOMAIN writes, Land(i) \/ Fail(i) PROVE Typed' /\ Chain'
  BY <1>8, WriteShape
<1>9. CASE UNCHANGED vars
  <2>1. Positions' = Positions /\ Stored' = Stored /\ Write' = Write
    BY <1>9, SameLog DEF vars
  <2> QED BY <1>9, <2>1 DEF vars, memory, history, Typed, Chain, Open
<1> QED BY <1>1, <1>2, <1>3, <1>4, <1>5, <1>6, <1>7, <1>8, <1>9 DEF Next

----------------------------------------------------------------------------
(* What a save() and a settling write leave in the chain.                  *)

\* A process that is up asks for a save: one more write, without a body.
Asks(by, state, n) ==
    /\ proc # "down" /\ proc' # "down"
    /\ lastState' = state
    /\ \A i \in DOMAIN writes' :
          \/ i \in DOMAIN writes /\ writes'[i] = writes[i]
          \/ writes'[i] = Queued(by, state.ver, n)

LEMMA SaveAsks ==
    ASSUME Typed, NEW by, NEW state, NEW n, Save(writes, by, state, n), proc # "down", proc' # "down"
    PROVE  Asks(by, state, n)
  BY DEF Asks, Save, Typed

\* The first write settled: those behind it, and what its caller asks for.
Settled == \A j \in DOMAIN writes' :
    /\ writes'[j].body = NoBody
    /\ \/ \E k \in DOMAIN writes : writes'[j] = writes[k]
       \/ writes'[j] = Queued("final", ver, 0) /\ lastState'.ver = ver

\* The state a caller left when its write settled.
LEMMA SettleEffect ==
    ASSUME Typed, Chain, NEW i \in DOMAIN writes, Turn(i), NEW ok \in BOOLEAN,
           Settle(writes[1], ok, Without(writes, 1))
    PROVE  \/ /\ proc = "marking" /\ ok /\ proc' = "reloading" /\ UNCHANGED served
              /\ ver' = file'.ver /\ lastState' = Sessions(file'.ver)
              /\ seen' = file'.seen /\ ring' = Evict(Prune(file'.seen))
              /\ writes' = <<Queued("reload", file'.ver, 0)>>
           \/ /\ Down
              /\ UNCHANGED served
              /\ proc = "marking" \/ proc = "finishing"
           \/ /\ proc # "down" /\ proc' # "down" /\ Loaded /\ Loaded'
              /\ UNCHANGED <<seen, ring, ver>>
              /\ Settled
              /\ \/ UNCHANGED <<proc, lastState, served>>
                 \/ proc = "reloading" /\ proc' = "serving" /\ served' = TRUE /\ UNCHANGED lastState
                 \/ proc' = "finishing" /\ ~served' /\ lastState' = FinalState(ver)
<1> DEFINE rest == Without(writes, 1)
<1>1. /\ 1 \in DOMAIN writes /\ writes[1] \in Write /\ rest \in Seq(Write)
      /\ \A j \in DOMAIN rest : /\ rest[j].body = NoBody
                                /\ \E k \in DOMAIN writes : rest[j] = writes[k]
  BY FirstSettles
<1>2. proc # "down"
  BY <1>1 DEF Chain
<1> HIDE DEF rest
<1>3. CASE writes[1].by = "mark" /\ ok
  <2>1. proc = "marking"
    <3>1. proc # "reloading"
      BY <1>1, <1>3 DEF Chain
    <3>2. ~Open
      BY <1>1, <1>3 DEF Chain
    <3> QED BY <1>2, <3>1, <3>2 DEF Open, Typed
  <2> QED BY <1>3, <2>1 DEF Settle, MarkSettles, Save, Sessions
<1>4. CASE writes[1].by = "mark" /\ ~ok
  <2>1. proc = "marking"
    <3>1. proc # "reloading"
      BY <1>1, <1>4 DEF Chain
    <3>2. ~Open
      BY <1>1, <1>4 DEF Chain
    <3> QED BY <1>2, <3>1, <3>2 DEF Open, Typed
  <2> QED BY <1>4, <2>1 DEF Settle, MarkSettles
<1>5. CASE writes[1].by = "reload"
  <2>1. proc = "reloading"
    <3>1. proc # "marking"
      BY <1>1, <1>5 DEF Chain
    <3>2. ~Open
      BY <1>1, <1>5 DEF Chain
    <3> QED BY <1>2, <3>1, <3>2 DEF Open, Typed
  <2>2. proc' = "serving" /\ served' = TRUE /\ writes' = rest /\ UNCHANGED <<lastState, seen, ring, ver>>
    BY <1>5 DEF Settle, ReloadSettles, rest
  <2>3. Settled
    BY <1>1, <2>2 DEF Settled
  <2> QED BY <2>1, <2>2, <2>3 DEF Loaded
<1>6. ASSUME writes[1].by \in {"session", "ring", "flush", "final"} PROVE Open
  BY <1>1, <1>2, <1>6 DEF Chain, Open, Typed
<1>7. CASE writes[1].by \in {"session", "ring"}
  <2>1. writes' = rest /\ UNCHANGED <<proc, lastState, seen, ring, ver, served>>
    BY <1>7 DEF Settle, rest
  <2>2. Settled
    BY <1>1, <2>1 DEF Settled
  <2> QED BY <1>2, <1>6, <1>7, <2>1, <2>2 DEF Loaded, Open
<1>8. CASE writes[1].by = "flush"
  <2>1. /\ proc' = "finishing" /\ served' = FALSE /\ UNCHANGED <<seen, ring, ver>>
        /\ lastState' = FinalState(ver) /\ writes' = Append(rest, Queued("final", FinalState(ver).ver, 0))
    BY <1>8 DEF Settle, SaveFinal, Save, rest
  <2>2. FinalState(ver).ver = ver /\ Queued("final", ver, 0).body = NoBody
    BY DEF FinalState, Queued
  <2>3. \A j \in DOMAIN writes' : (j \in DOMAIN rest /\ writes'[j] = rest[j]) \/ writes'[j] = Queued("final", ver, 0)
    BY <1>1, <2>1, <2>2
  <2>4. Settled
    BY <1>1, <2>1, <2>2, <2>3 DEF Settled
  <2> QED BY <1>2, <1>6, <1>8, <2>1, <2>4 DEF Loaded, Open
<1>9. CASE writes[1].by = "final"
  <2>1. proc = "finishing"
    BY <1>1, <1>9 DEF Chain
  <2> QED BY <1>9, <2>1 DEF Settle
<1> QED BY <1>3, <1>4, <1>5, <1>7, <1>8, <1>9 DEF Settle

----------------------------------------------------------------------------
(* The sessions never get older.                                           *)

\* Asking for a save of sessions at least as new keeps the order.
LEMMA AskNewer ==
    ASSUME Typed, Chain, Newer, Typed', NEW by, NEW n,
           NEW state \in [clean: BOOLEAN, ver: 0..MaxVersion],
           Asks(by, state, n), UNCHANGED <<file, acked>>,
           lastState.ver <= state.ver, Loaded' => state.ver <= ver'
    PROVE  Newer'
<1>1. Queued(by, state.ver, n).ver = state.ver /\ Queued(by, state.ver, n).body = NoBody
  BY DEF Queued
<1>2. file.ver \in Int /\ lastState.ver \in Int /\ state.ver \in Int
  BY DEF Typed, Stored
<1>3. ASSUME NEW i \in DOMAIN writes, writes[i].ver <= lastState.ver PROVE writes[i].ver <= state.ver
  BY <1>2, <1>3, WriteTyped
<1>4. ASSUME NEW i \in DOMAIN writes, writes[i].body # NoBody, writes[i].body.ver <= lastState.ver
      PROVE  writes[i].body.ver <= state.ver
  BY <1>2, <1>4, WriteTyped
<1>5. lastState' = state /\ file' = file /\ acked' = acked /\ file.ver <= state.ver /\ acked <= file.ver
  BY <1>2 DEF Asks, Newer
<1>6. ASSUME NEW i \in DOMAIN writes'
      PROVE  /\ writes'[i].ver <= state.ver
             /\ writes'[i].body # NoBody =>
                   /\ file.ver <= writes'[i].body.ver
                   /\ writes'[i].ver <= writes'[i].body.ver
                   /\ writes'[i].body.ver <= state.ver
  <2>1. CASE i \in DOMAIN writes /\ writes'[i] = writes[i]
    BY <1>3, <1>4, <2>1 DEF Newer
  <2>2. CASE writes'[i] = Queued(by, state.ver, n)
    BY <1>1, <1>2, <2>2
  <2> QED BY <2>1, <2>2 DEF Asks
<1> QED BY <1>5, <1>6 DEF Newer

LEMMA SettleNewer ==
    ASSUME Typed, Chain, Newer, Typed', NEW i \in DOMAIN writes, Land(i) \/ Fail(i)
    PROVE  Newer'
<1>1. /\ i = 1 /\ Turn(i) /\ writes[1] \in Write /\ file \in Stored /\ proc # "down"
      /\ file' \in Stored
  <2>1. /\ i = 1 /\ writes[1] \in Write
        /\ (file' = writes[1].body /\ writes[1].body \in Stored) \/ file' = file
    BY LandEffect, FailEffect
  <2>2. proc # "down"
    BY DEF Chain
  <2> QED BY <2>1, <2>2, LandEffect, FailEffect DEF Turn, Typed
<1>2. /\ file.ver \in Int /\ file'.ver \in Int /\ acked \in Int /\ writes[1].ver \in Int
      /\ lastState.ver \in Int /\ ver \in Int
  BY <1>1 DEF Typed, Stored, Write
<1>3. file.ver <= file'.ver /\ file'.ver <= lastState.ver /\ acked' <= file'.ver
  <2>1. CASE Land(i)
    <3>1. /\ writes[1].body # NoBody /\ file' = writes[1].body /\ acked' = Newest(acked, writes[1].ver)
      BY <2>1, LandEffect
    <3>2. /\ file.ver <= writes[1].body.ver /\ writes[1].ver <= writes[1].body.ver
          /\ writes[1].body.ver <= lastState.ver /\ acked <= file.ver
      BY <1>1, <3>1 DEF Newer
    <3> QED BY <1>2, <3>1, <3>2 DEF Newest
  <2>2. CASE Fail(i)
    <3>1. file' = file /\ acked' = acked
      BY <2>2, FailEffect
    <3> QED BY <1>1, <1>2, <3>1 DEF Newer
  <2> QED BY <2>1, <2>2
<1>4. \E ok \in BOOLEAN : Settle(writes[1], ok, Without(writes, 1))
  BY LandEffect, FailEffect
<1>5. CASE /\ proc' = "reloading" /\ ver' = file'.ver /\ lastState' = Sessions(file'.ver)
           /\ writes' = <<Queued("reload", file'.ver, 0)>>
  <2>1. DOMAIN writes' = {1} /\ writes'[1].ver = file'.ver /\ writes'[1].body = NoBody
    BY <1>5 DEF Queued
  <2>2. lastState'.ver = file'.ver
    BY <1>5 DEF Sessions
  <2> QED BY <1>2, <1>3, <1>5, <2>1, <2>2 DEF Newer
<1>6. CASE Down
  BY <1>3, <1>6 DEF Newer, Down, Loaded
<1>7. CASE /\ Loaded /\ UNCHANGED ver /\ Settled
           /\ UNCHANGED lastState \/ lastState' = FinalState(ver)
  <2>1. lastState.ver <= ver /\ FinalState(ver).ver = ver
    BY <1>7 DEF Newer, FinalState
  <2>2. lastState.ver <= lastState'.ver /\ lastState'.ver <= ver' /\ lastState'.ver \in Int
    BY <1>2, <1>7, <2>1
  <2>3. ASSUME NEW j \in DOMAIN writes' PROVE writes'[j].ver <= lastState'.ver /\ writes'[j].body = NoBody
    <3>1. CASE \E k \in DOMAIN writes : writes'[j] = writes[k]
      <4>1. PICK k \in DOMAIN writes : writes'[j] = writes[k]
        BY <3>1
      <4>2. writes[k].ver \in Int /\ writes[k].ver <= lastState.ver
        BY WriteTyped DEF Newer
      <4> QED BY <1>2, <1>7, <2>2, <4>1, <4>2 DEF Settled
    <3>2. CASE writes'[j] = Queued("final", ver, 0) /\ lastState'.ver = ver
      BY <1>2, <3>2 DEF Queued
    <3> QED BY <1>7, <3>1, <3>2 DEF Settled
  <2> QED BY <1>2, <1>3, <2>2, <2>3 DEF Newer
<1> QED BY <1>1, <1>4, <1>5, <1>6, <1>7, SettleEffect

LEMMA StepNewer ==
    ASSUME Typed, Chain, Newer, Typed', [Next]_vars
    PROVE  Newer'
<1>1. lastState \in [clean: BOOLEAN, ver: 0..MaxVersion] /\ lastState.ver \in Int /\ ver \in Int
  BY DEF Typed
<1>2. ASSUME NEW id \in Ids, Handle(id) PROVE Newer'
  <2>1. Asks("ring", lastState, Len(log) + 1)
    BY <1>2, SaveAsks DEF Handle, Open
  <2>2. Loaded
    BY <1>2 DEF Handle, Open, Loaded
  <2> QED BY <1>1, <1>2, <2>1, <2>2, AskNewer DEF Handle, Newer, history
<1>3. CASE SessionChange
  <2>1. Asks("session", Sessions(ver'), 0) /\ Loaded
    BY <1>3, SaveAsks DEF SessionChange, Open, Loaded
  <2>2. Sessions(ver') \in [clean: BOOLEAN, ver: 0..MaxVersion] /\ Sessions(ver').ver = ver + 1
    BY <1>3 DEF SessionChange, Sessions, Typed
  <2>3. lastState.ver <= ver + 1 /\ ver' = ver + 1
    BY <1>1, <1>3, <2>1 DEF Newer, SessionChange
  <2> QED BY <1>1, <1>3, <2>1, <2>2, <2>3, AskNewer DEF SessionChange, history
<1>4. CASE DebounceFires
  <2>1. Asks("session", Sessions(ver), 0) /\ Loaded
    BY <1>4, SaveAsks DEF DebounceFires, Open, Loaded
  <2>2. Sessions(ver) \in [clean: BOOLEAN, ver: 0..MaxVersion] /\ Sessions(ver).ver = ver
    BY DEF Sessions, Typed
  <2> QED BY <1>1, <1>4, <2>1, <2>2, AskNewer DEF DebounceFires, history, Newer
<1>5. CASE JournalClosed
  <2>1. proc # "down" /\ proc' # "down" /\ Loaded
    BY <1>5 DEF JournalClosed, SaveFinal, Loaded
  <2>2. \E by, state : /\ Save(writes, by, state, 0)
                       /\ state \in {Sessions(ver), FinalState(ver)}
    BY <1>5 DEF JournalClosed, SaveFinal
  <2>3. PICK by, state : Asks(by, state, 0) /\ state \in {Sessions(ver), FinalState(ver)}
    BY <2>1, <2>2, SaveAsks
  <2>4. state \in [clean: BOOLEAN, ver: 0..MaxVersion] /\ state.ver = ver
    <3>1. CASE state = Sessions(ver)
      BY <3>1 DEF Sessions, Typed
    <3>2. CASE state = FinalState(ver)
      BY <3>2 DEF FinalState, Typed
    <3> QED BY <2>3, <3>1, <3>2
  <2>5. UNCHANGED <<file, acked, ver>>
    BY <1>5 DEF JournalClosed, SaveFinal
  <2> QED BY <1>1, <2>1, <2>3, <2>4, <2>5, AskNewer DEF Newer
<1>6. CASE Start
  <2>1. /\ writes' = <<Queued("mark", file.ver, 0)>> /\ lastState'.ver = file.ver
        /\ proc' = "marking" /\ UNCHANGED <<file, acked>>
    BY <1>6 DEF Start, Save, Marked, history
  <2>2. DOMAIN writes' = {1} /\ writes'[1].ver = file.ver /\ writes'[1].body = NoBody /\ file.ver \in Int
    BY <2>1 DEF Queued, Typed, Stored
  <2> QED BY <2>1, <2>2 DEF Newer, Loaded
<1>7. CASE Crash
  BY <1>7 DEF Crash, Down, Newer, Loaded
<1>8. ASSUME NEW i \in DOMAIN writes, Snapshot(i) PROVE Newer'
  <2>1. /\ DOMAIN writes' = DOMAIN writes
        /\ writes'[1] = [writes[1] EXCEPT !.body = Body(writes[1])]
        /\ \A j \in DOMAIN writes : j # 1 => writes'[j] = writes[j]
    BY <1>8, SnapshotEffect
  <2>2. 1 \in DOMAIN writes /\ writes[1] \in Write /\ proc # "down"
    BY <1>8, SnapshotEffect, WriteTyped DEF Chain
  <2>3. writes'[1].ver = writes[1].ver /\ writes'[1].body.ver = lastState.ver
    BY <2>1, <2>2 DEF Write, Body
  <2>4. UNCHANGED <<proc, file, lastState, ver, acked>>
    BY <1>8 DEF Snapshot, history
  <2>5. \A j \in DOMAIN writes : writes[j].ver <= lastState.ver
    BY DEF Newer
  <2>6. file.ver <= lastState.ver
    BY <2>2 DEF Newer
  <2>7. ASSUME NEW j \in DOMAIN writes'
        PROVE  /\ writes'[j].ver <= lastState.ver
               /\ writes'[j].body # NoBody =>
                   /\ file.ver <= writes'[j].body.ver
                   /\ writes'[j].ver <= writes'[j].body.ver
                   /\ writes'[j].body.ver <= lastState.ver
    <3>1. CASE j = 1
      BY <1>1, <2>2, <2>3, <2>5, <2>6, <3>1
    <3>2. CASE j # 1
      BY <2>1, <3>2 DEF Newer
    <3> QED BY <3>1, <3>2
  <2> QED BY <2>4, <2>7 DEF Newer, Loaded
<1>9. ASSUME NEW i \in DOMAIN writes, Land(i) \/ Fail(i) PROVE Newer'
  BY <1>9, SettleNewer
<1>10. CASE (\E id \in Ids : Duplicate(id)) \/ Tick \/ UNCHANGED vars
  BY <1>10 DEF Duplicate, Tick, vars, memory, history, Newer, Loaded
<1>11. CASE Shutdown
  BY <1>11 DEF Shutdown, memory, history, Newer, Loaded
<1>12. CASE TurnCompletes
  <2>1. ver' = ver + 1 /\ UNCHANGED <<proc, file, lastState, writes, acked>>
    BY <1>12 DEF TurnCompletes, history
  <2> QED BY <1>1, <2>1 DEF Newer, Loaded
<1> QED BY <1>2, <1>3, <1>4, <1>5, <1>6, <1>7, <1>8, <1>9, <1>10, <1>11, <1>12 DEF Next

----------------------------------------------------------------------------
(* Nothing says clean while messages are accepted.                         *)

LEMMA AskUnclean ==
    ASSUME Chain, Unclean, NEW by, NEW n, NEW state, Asks(by, state, n),
           UNCHANGED <<file, served>>, served => ~state.clean,
           Open, Open', proc' = "finishing" <=> proc = "finishing"
    PROVE  Unclean'
<1>1. ~Queued(by, state.ver, n).body.clean
  BY DEF Queued, NoBody
<1>2. served => \A i \in DOMAIN writes' : ~writes'[i].body.clean
  BY <1>1 DEF Asks, Unclean
<1>3. lastState' = state
  BY DEF Asks
<1> QED BY <1>2, <1>3 DEF Unclean, Open

LEMMA SettleUnclean ==
    ASSUME Typed, Chain, Unclean, NEW i \in DOMAIN writes, Land(i) \/ Fail(i)
    PROVE  Unclean'
<1>1. i = 1 /\ Turn(i)
  BY LandEffect, FailEffect DEF Turn
<1>2. (writes[1].body = file' /\ Land(i)) \/ (file' = file /\ Fail(i))
  BY LandEffect, FailEffect
<1>3. served \/ proc \in {"marking", "reloading"} => ~writes[1].body.clean
  BY <1>1 DEF Unclean
<1>4. served => ~file'.clean
  BY <1>2, <1>3 DEF Unclean
<1>5. NoBody.clean = FALSE
  BY DEF NoBody
<1>6. CASE proc = "marking" /\ proc' = "reloading" /\ UNCHANGED served
           /\ lastState' = Sessions(file'.ver) /\ writes' = <<Queued("reload", file'.ver, 0)>>
           /\ Land(i)
  <2>1. ~file'.clean
    BY <1>3, <1>6, LandEffect
  <2>2. ~lastState'.clean
    BY <1>6 DEF Sessions
  <2>3. \A j \in DOMAIN writes' : ~writes'[j].body.clean
    BY <1>5, <1>6 DEF Queued
  <2> QED BY <1>6, <2>1, <2>2, <2>3 DEF Unclean
<1>7. CASE Down /\ UNCHANGED served
  BY <1>4, <1>7 DEF Unclean, Down
<1>8. CASE Settled /\ proc' # "down" /\ UNCHANGED <<proc, lastState, served>> /\ Loaded
  <2>1. \A j \in DOMAIN writes' : ~writes'[j].body.clean
    BY <1>5, <1>8 DEF Settled
  <2>2. proc = "reloading" => ~file'.clean
    BY <1>2, <1>3 DEF Unclean
  <2> QED BY <1>4, <1>8, <2>1, <2>2 DEF Unclean
<1>9. CASE Settled /\ proc = "reloading" /\ proc' = "serving" /\ served' = TRUE /\ UNCHANGED lastState
  <2>1. \A j \in DOMAIN writes' : ~writes'[j].body.clean
    BY <1>5, <1>9 DEF Settled
  <2>2. ~file'.clean
    BY <1>2, <1>3, <1>9 DEF Unclean
  <2> QED BY <1>9, <2>1, <2>2 DEF Unclean
<1>10. CASE proc' = "finishing" /\ ~served'
  BY <1>10 DEF Unclean
<1>11. \/ Land(i) /\ Settle(writes[1], TRUE, Without(writes, 1))
       \/ Settle(writes[1], FALSE, Without(writes, 1))
  BY LandEffect, FailEffect
<1>12. \/ /\ proc = "marking" /\ Land(i) /\ proc' = "reloading" /\ UNCHANGED served
          /\ lastState' = Sessions(file'.ver) /\ writes' = <<Queued("reload", file'.ver, 0)>>
       \/ Down /\ UNCHANGED served
       \/ Settled /\ proc' # "down" /\ UNCHANGED <<proc, lastState, served>> /\ Loaded
       \/ Settled /\ proc = "reloading" /\ proc' = "serving" /\ served' = TRUE /\ UNCHANGED lastState
       \/ proc' = "finishing" /\ ~served'
  BY <1>1, <1>11, SettleEffect
<1> QED BY <1>6, <1>7, <1>8, <1>9, <1>10, <1>12

LEMMA StepUnclean ==
    ASSUME Typed, Chain, Unclean, [Next]_vars
    PROVE  Unclean'
<1>1. ASSUME NEW id \in Ids, Handle(id) PROVE Unclean'
  <2>1. Asks("ring", lastState, Len(log) + 1) /\ Open /\ Open' /\ proc # "down"
    BY <1>1, SaveAsks DEF Handle, Open
  <2> QED BY <1>1, <2>1, AskUnclean DEF Handle, Unclean, history
<1>2. CASE SessionChange \/ DebounceFires
  <2>1. PICK v : Save(writes, "session", Sessions(v), 0)
    BY <1>2 DEF SessionChange, DebounceFires
  <2>2. Open /\ Open' /\ proc' = proc /\ proc # "down" /\ UNCHANGED <<file, served>>
    BY <1>2 DEF SessionChange, DebounceFires, Open, history
  <2>3. Asks("session", Sessions(v), 0) /\ ~Sessions(v).clean
    BY <2>1, <2>2, SaveAsks DEF Sessions
  <2> QED BY <2>2, <2>3, AskUnclean
<1>3. CASE JournalClosed
  <2>1. CASE timer
    <3>1. /\ Save(writes, "flush", Sessions(ver), 0) /\ proc = "closing" /\ proc' = "flushing"
          /\ UNCHANGED <<file, served>>
      BY <1>3, <2>1 DEF JournalClosed
    <3>2. Asks("flush", Sessions(ver), 0) /\ ~Sessions(ver).clean
      BY <3>1, SaveAsks DEF Sessions
    <3> QED BY <3>1, <3>2, AskUnclean DEF Open
  <2>2. CASE ~timer
    BY <1>3, <2>2 DEF JournalClosed, SaveFinal, Unclean
  <2> QED BY <2>1, <2>2
<1>4. CASE Start
  <2>1. /\ writes' = <<Queued("mark", file.ver, 0)>> /\ lastState'.clean = FALSE
        /\ proc' = "marking" /\ UNCHANGED <<file, served>>
    BY <1>4 DEF Start, Save, Marked, history
  <2>2. DOMAIN writes' = {1} /\ writes'[1].body.clean = FALSE
    BY <2>1 DEF Queued, NoBody
  <2> QED BY <2>1, <2>2 DEF Unclean
<1>5. CASE Crash
  BY <1>5 DEF Crash, Down, Unclean
<1>6. ASSUME NEW i \in DOMAIN writes, Snapshot(i) PROVE Unclean'
  <2>1. /\ DOMAIN writes' = DOMAIN writes
        /\ writes'[1] = [writes[1] EXCEPT !.body = Body(writes[1])]
        /\ \A j \in DOMAIN writes : j # 1 => writes'[j] = writes[j]
        /\ 1 \in DOMAIN writes /\ proc # "down"
    BY <1>6, SnapshotEffect DEF Chain
  <2>2. writes'[1].body.clean = lastState.clean
    BY <2>1, WriteTyped DEF Write, Body
  <2>3. UNCHANGED <<proc, file, lastState, served>>
    BY <1>6 DEF Snapshot, history
  <2>4. ASSUME served \/ proc \in {"marking", "reloading"}, NEW j \in DOMAIN writes'
        PROVE  ~writes'[j].body.clean
    BY <2>1, <2>2, <2>4 DEF Unclean
  <2> QED BY <2>3, <2>4 DEF Unclean
<1>7. ASSUME NEW i \in DOMAIN writes, Land(i) \/ Fail(i) PROVE Unclean'
  BY <1>7, SettleUnclean
<1>8. CASE (\E id \in Ids : Duplicate(id)) \/ Tick \/ UNCHANGED vars
  BY <1>8 DEF Duplicate, Tick, vars, memory, history, Unclean
<1>9. CASE Shutdown \/ TurnCompletes
  BY <1>9 DEF Shutdown, TurnCompletes, memory, history, Unclean
<1> QED BY <1>1, <1>2, <1>3, <1>4, <1>5, <1>6, <1>7, <1>8, <1>9 DEF Next

----------------------------------------------------------------------------
(* What is flushed is remembered.                                          *)

\* Position n is kept after the step.
KeptNext(n) == log'[n].at > now' - Ttl /\ Len(log') - n < Capacity

\* Time and messages only end the keeping of a position.
LEMMA KeptBefore ==
    ASSUME Typed, NEW n \in Positions, KeptNext(n),
           \/ log' = log /\ now' \in {now, now + 1}
           \/ \E entry : log' = Append(log, entry) /\ now' = now
    PROVE  Kept(n)
<1>1. n \in Nat /\ Len(log) \in Nat /\ log[n].at \in Int /\ now \in Int
  <2> DEFINE Entry == [id: Ids, at: 0..MaxTime]
  <2>5. log \in Seq(Entry) /\ n \in 1..Len(log)
    BY DEF Typed, Positions
  <2>6. \A e \in Entry : e.at \in 0..MaxTime
    OBVIOUS
  <2> HIDE DEF Entry
  <2>1. Len(log) \in Nat /\ log[n] \in Entry
    BY <2>5
  <2>2. n \in Nat
    BY DEF Typed, Positions
  <2>3. log[n].at \in Int
    BY <2>1, <2>6, Bounds
  <2>4. now \in Int
    BY Bounds DEF Typed
  <2> QED BY <2>1, <2>2, <2>3, <2>4
<1>2. log'[n] = log[n] /\ Len(log) <= Len(log') /\ Len(log') \in Nat
  BY <1>1, LongerLog
<1> QED BY <1>1, <1>2, Bounds DEF Kept, KeptNext

\* A position kept survives the pruning and the eviction.
LEMMA RingKeeps ==
    ASSUME Typed, NEW R \in SUBSET Positions, NEW n \in R, Kept(n)
    PROVE  n \in Prune(R) /\ n \in Evict(Prune(R))
<1>1. n \in Prune(R) /\ Prune(R) \in SUBSET 1..Len(log)
  BY DEF Prune, Kept, Positions
<1>2. Len(log) \in Nat /\ Len(log) - n < Capacity
  BY DEF Typed, Kept
<1> QED BY <1>1, <1>2, EvictKeeps

LEMMA HandleRemembered ==
    ASSUME Typed, Chain, Remembered, NEW id \in Ids, Handle(id)
    PROVE  Remembered'
<1> DEFINE new == Len(log) + 1
<1>1. /\ Len(log') = new /\ new \in Nat /\ Len(log) \in Nat
      /\ \E entry : log' = Append(log, entry) /\ now' = now
  BY LongerLog DEF Handle, Typed
<1>2. /\ Asks("ring", lastState, new) /\ Loaded /\ Loaded' /\ proc # "down"
      /\ ring' = Evict(Prune(ring) \cup {new}) /\ seen' = ring'
      /\ UNCHANGED <<file, flushed, proc>>
  BY SaveAsks DEF Handle, Open, Loaded, history
<1>3. Prune(ring) \cup {new} \in SUBSET 1..new
  <2>1. Prune(ring) \subseteq 1..Len(log)
    BY DEF Prune, Typed, Positions
  <2> QED BY <1>1, <2>1
<1>4. ASSUME NEW n \in Positions, KeptNext(n), n \in ring PROVE n \in ring' /\ n \in seen'
  <2>1. Kept(n)
    BY <1>1, <1>4, KeptBefore
  <2>2. n \in Prune(ring) \cup {new}
    BY <1>4, <2>1 DEF Prune, Kept
  <2>3. new - n < Capacity
    BY <1>1, <1>4 DEF KeptNext
  <2> QED BY <1>1, <1>2, <1>3, <2>2, <2>3, EvictKeeps
<1>5. new \in ring' /\ new \in seen'
  <2>1. new - new < Capacity
    BY <1>1, Bounds
  <2> QED BY <1>1, <1>2, <1>3, <2>1, EvictKeeps
<1>6. Queued("ring", lastState.ver, new).at = new /\ Queued("ring", lastState.ver, new).body = NoBody
  BY DEF Queued
<1> HIDE DEF new
<1>7. ASSUME NEW n \in flushed', KeptNext(n)
      PROVE  /\ n \in file'.seen /\ n \in seen' /\ n \in ring'
             /\ \A i \in DOMAIN writes' : writes'[i].body # NoBody => n \in writes'[i].body.seen
  <2>1. n \in Positions /\ n \in flushed
    BY <1>2 DEF Typed
  <2>2. Kept(n)
    BY <1>1, <1>7, <2>1, KeptBefore
  <2>3. /\ n \in file.seen /\ n \in ring
        /\ \A i \in DOMAIN writes : writes[i].body # NoBody => n \in writes[i].body.seen
    BY <1>2, <2>1, <2>2 DEF Remembered
  <2> QED BY <1>2, <1>4, <1>6, <1>7, <2>1, <2>3 DEF Asks
<1>8. ASSUME NEW i \in DOMAIN writes', writes'[i].at # 0, KeptNext(writes'[i].at)
      PROVE  /\ writes'[i].at \in seen' /\ writes'[i].at \in ring'
             /\ writes'[i].body # NoBody => writes'[i].at \in writes'[i].body.seen
  <2>1. CASE i \in DOMAIN writes /\ writes'[i] = writes[i]
    <3>1. writes[i].at \in Positions
      BY <1>8, <2>1, WriteTyped
    <3>2. Kept(writes[i].at)
      BY <1>1, <1>8, <2>1, <3>1, KeptBefore
    <3>3. writes[i].at \in ring /\ (writes[i].body # NoBody => writes[i].at \in writes[i].body.seen)
      BY <1>8, <2>1, <3>2 DEF Remembered
    <3> QED BY <1>4, <1>8, <2>1, <3>1, <3>3
  <2>2. CASE writes'[i] = Queued("ring", lastState.ver, new)
    BY <1>5, <1>6, <2>2
  <2> QED BY <1>2, <2>1, <2>2 DEF Asks
<1> QED BY <1>2, <1>7, <1>8 DEF Remembered, Kept, KeptNext

\* Steps that keep the file, the ring and what is stored of it, and may ask
\* for a save.
LEMMA QuietRemembered ==
    ASSUME Typed, Chain, Remembered,
           UNCHANGED <<log, file, flushed, seen>>, now' \in {now, now + 1},
           ring' = ring \/ ring' = Prune(ring), proc # "down", Loaded <=> Loaded',
           \A i \in DOMAIN writes' :
               \/ i \in DOMAIN writes /\ writes'[i] = writes[i]
               \/ \E by, v : writes'[i] = Queued(by, v, 0)
    PROVE  Remembered'
<1>1. \A n \in Positions : KeptNext(n) => Kept(n)
  BY KeptBefore
<1>2. \A n \in ring : Kept(n) => n \in ring'
  BY DEF Prune, Kept
<1>3. \A by, v : Queued(by, v, 0).at = 0 /\ Queued(by, v, 0).body = NoBody
  BY DEF Queued
<1>4. ASSUME NEW n \in flushed', KeptNext(n)
      PROVE  /\ n \in file'.seen /\ n \in seen'
             /\ Loaded' => n \in ring'
             /\ \A i \in DOMAIN writes' : writes'[i].body # NoBody => n \in writes'[i].body.seen
  <2>1. n \in Positions /\ n \in flushed
    BY DEF Typed
  <2>2. Kept(n)
    BY <1>1, <1>4, <2>1
  <2>3. /\ n \in file.seen /\ n \in seen
        /\ Loaded => n \in ring
        /\ \A i \in DOMAIN writes : writes[i].body # NoBody => n \in writes[i].body.seen
    BY <2>1, <2>2 DEF Remembered
  <2>4. ASSUME NEW i \in DOMAIN writes', writes'[i].body # NoBody PROVE n \in writes'[i].body.seen
    BY <1>3, <2>3, <2>4
  <2> QED BY <1>2, <2>2, <2>3, <2>4
<1>5. ASSUME NEW i \in DOMAIN writes', writes'[i].at # 0, KeptNext(writes'[i].at)
      PROVE  /\ Loaded' /\ writes'[i].at \in seen' /\ writes'[i].at \in ring'
             /\ writes'[i].body # NoBody => writes'[i].at \in writes'[i].body.seen
  <2>1. i \in DOMAIN writes /\ writes'[i] = writes[i]
    BY <1>3, <1>5
  <2>2. writes[i].at \in Positions
    BY <1>5, <2>1, WriteTyped
  <2>3. Kept(writes[i].at)
    BY <1>1, <1>5, <2>1, <2>2
  <2>4. /\ Loaded /\ writes[i].at \in seen /\ writes[i].at \in ring
        /\ writes[i].body # NoBody => writes[i].at \in writes[i].body.seen
    BY <1>5, <2>1, <2>3 DEF Remembered
  <2> QED BY <1>2, <2>1, <2>3, <2>4
<1> QED BY <1>4, <1>5 DEF Remembered, Kept, KeptNext

\* A write settled: a flush that landed is in the file, and all that was kept
\* is where it was.
LEMMA SettleRemembered ==
    ASSUME Typed, Typed', Chain, Remembered, NEW i \in DOMAIN writes, Land(i) \/ Fail(i)
    PROVE  Remembered'
<1>1. i = 1 /\ Turn(i) /\ log' = log /\ now' = now /\ proc # "down"
  <2>1. log' = log /\ now' = now /\ i = 1
    BY LandEffect, FailEffect
  <2>2. proc # "down"
    BY DEF Chain
  <2> QED BY <2>1, <2>2 DEF Turn
<1>2. \A n \in Positions : KeptNext(n) => Kept(n)
  BY <1>1, KeptBefore
<1>3. ASSUME NEW n \in flushed', KeptNext(n)
      PROVE  /\ n \in Positions /\ Kept(n) /\ n \in file'.seen /\ n \in seen
             /\ Loaded => n \in ring
  <2>1. CASE n \in flushed
    <3>1. n \in Positions /\ Kept(n)
      BY <1>2, <1>3, <2>1 DEF Typed
    <3>2. /\ n \in file.seen /\ n \in seen
          /\ Loaded => n \in ring
          /\ writes[1].body # NoBody => n \in writes[1].body.seen
      BY <1>1, <2>1, <3>1 DEF Remembered
    <3>3. CASE Land(i)
      BY <3>1, <3>2, <3>3, LandEffect
    <3>4. CASE Fail(i)
      BY <3>1, <3>2, <3>4, FailEffect
    <3> QED BY <3>3, <3>4
  <2>2. CASE n \notin flushed
    <3>1. Land(i) /\ n = writes[1].at /\ n # 0 /\ writes[1].body # NoBody /\ file' = writes[1].body
      BY <1>3, <2>2, LandEffect, FailEffect
    <3>2. n \in Positions /\ Kept(n)
      BY <1>1, <1>2, <1>3, <3>1, WriteTyped
    <3>3. n \in seen /\ n \in ring /\ n \in writes[1].body.seen
      BY <1>1, <3>1, <3>2 DEF Remembered
    <3> QED BY <3>1, <3>2, <3>3
  <2> QED BY <2>1, <2>2
<1>4. \/ Settle(writes[1], TRUE, Without(writes, 1))
      \/ Settle(writes[1], FALSE, Without(writes, 1))
  BY LandEffect, FailEffect
<1>5. \A v, by : Queued(by, v, 0).at = 0 /\ Queued(by, v, 0).body = NoBody
  BY DEF Queued
<1>6. CASE /\ seen' = file'.seen /\ ring' = Evict(Prune(file'.seen))
           /\ writes' = <<Queued("reload", file'.ver, 0)>>
  <2>1. file'.seen \in SUBSET Positions
    BY <1>1, SameLog DEF Typed, Stored
  <2>2. ASSUME NEW n \in flushed', KeptNext(n) PROVE n \in file'.seen /\ n \in seen' /\ n \in ring'
    BY <1>3, <1>6, <2>1, <2>2, RingKeeps
  <2>3. \A j \in DOMAIN writes' : writes'[j].at = 0 /\ writes'[j].body = NoBody
    BY <1>5, <1>6
  <2> QED BY <2>2, <2>3 DEF Remembered, Kept, KeptNext
<1>7. CASE Down
  <2>1. proc' = "down" /\ writes' = <<>>
    BY <1>7 DEF Down
  <2> QED BY <1>3, <2>1 DEF Remembered, Kept, KeptNext, Loaded
<1>8. CASE Loaded /\ UNCHANGED <<seen, ring>> /\ Settled /\ Loaded'
  <2>1. ASSUME NEW j \in DOMAIN writes', writes'[j].at # 0, KeptNext(writes'[j].at)
        PROVE  writes'[j].at \in seen' /\ writes'[j].at \in ring'
    <3>1. PICK k \in DOMAIN writes : writes'[j] = writes[k]
      BY <1>5, <1>8, <2>1 DEF Settled
    <3>2. writes[k].at \in Positions
      BY <2>1, <3>1, WriteTyped
    <3>3. Kept(writes[k].at)
      BY <1>2, <2>1, <3>1, <3>2
    <3> QED BY <1>8, <2>1, <3>1, <3>3 DEF Remembered
  <2>2. \A j \in DOMAIN writes' : writes'[j].body = NoBody
    BY <1>8 DEF Settled
  <2> QED BY <1>3, <1>8, <2>1, <2>2 DEF Remembered, Kept, KeptNext
<1>9. \/ /\ seen' = file'.seen /\ ring' = Evict(Prune(file'.seen))
         /\ writes' = <<Queued("reload", file'.ver, 0)>>
      \/ Down
      \/ Loaded /\ UNCHANGED <<seen, ring>> /\ Settled /\ Loaded'
  BY <1>1, <1>4, SettleEffect
<1> QED BY <1>6, <1>7, <1>8, <1>9

LEMMA SnapshotRemembered ==
    ASSUME Typed, Chain, Remembered, NEW i \in DOMAIN writes, Snapshot(i)
    PROVE  Remembered'
<1>1. /\ DOMAIN writes' = DOMAIN writes
      /\ writes'[1] = [writes[1] EXCEPT !.body = Body(writes[1])]
      /\ \A j \in DOMAIN writes : j # 1 => writes'[j] = writes[j]
      /\ 1 \in DOMAIN writes /\ proc # "down"
  BY SnapshotEffect DEF Chain
<1>2. writes'[1].body.seen = seen /\ writes'[1].at = writes[1].at
  BY <1>1, WriteTyped DEF Write, Body
<1>3. UNCHANGED <<proc, file, flushed, seen, ring, log, now>>
  BY DEF Snapshot, history
<1>4. \A n \in Positions : KeptNext(n) => Kept(n)
  BY <1>3, KeptBefore
<1>5. ASSUME NEW n \in flushed, KeptNext(n)
      PROVE  /\ n \in file.seen /\ n \in seen
             /\ Loaded => n \in ring
             /\ \A j \in DOMAIN writes' : writes'[j].body # NoBody => n \in writes'[j].body.seen
  <2>1. Kept(n)
    BY <1>4, <1>5 DEF Typed
  <2>2. /\ n \in file.seen /\ n \in seen
        /\ Loaded => n \in ring
        /\ \A j \in DOMAIN writes : writes[j].body # NoBody => n \in writes[j].body.seen
    BY <1>1, <2>1 DEF Remembered
  <2> QED BY <1>1, <1>2, <2>2
<1>6. ASSUME NEW j \in DOMAIN writes', writes'[j].at # 0, KeptNext(writes'[j].at)
      PROVE  /\ Loaded /\ writes'[j].at \in seen /\ writes'[j].at \in ring
             /\ writes'[j].body # NoBody => writes'[j].at \in writes'[j].body.seen
  <2>1. writes'[j].at = writes[j].at /\ j \in DOMAIN writes
    BY <1>1, <1>2
  <2>2. writes[j].at \in Positions /\ Kept(writes[j].at)
    BY <1>4, <1>6, <2>1, WriteTyped
  <2>3. /\ Loaded /\ writes[j].at \in seen /\ writes[j].at \in ring
        /\ writes[j].body # NoBody => writes[j].at \in writes[j].body.seen
    BY <1>6, <2>1, <2>2 DEF Remembered
  <2> QED BY <1>1, <1>2, <2>1, <2>3
<1> QED BY <1>3, <1>5, <1>6 DEF Remembered, Kept, KeptNext, Loaded

LEMMA StepRemembered ==
    ASSUME Typed, Typed', Chain, Remembered, [Next]_vars
    PROVE  Remembered'
<1>1. ASSUME NEW id \in Ids, Handle(id) PROVE Remembered'
  BY <1>1, HandleRemembered
<1>2. ASSUME NEW id \in Ids, Duplicate(id) PROVE Remembered'
  BY <1>2, QuietRemembered DEF Duplicate, Open, Loaded, history
<1>3. CASE SessionChange \/ DebounceFires \/ JournalClosed
  <2>1. \E by, state : Save(writes, by, state, 0)
    BY <1>3 DEF SessionChange, DebounceFires, JournalClosed, SaveFinal
  <2>2. /\ proc # "down" /\ proc' # "down" /\ Loaded /\ Loaded'
        /\ UNCHANGED <<log, file, flushed, seen, now, ring>>
    BY <1>3 DEF SessionChange, DebounceFires, JournalClosed, SaveFinal, Open, Loaded, history
  <2>3. PICK by, state : Asks(by, state, 0)
    BY <2>1, <2>2, SaveAsks
  <2>4. \A i \in DOMAIN writes' :
            \/ i \in DOMAIN writes /\ writes'[i] = writes[i]
            \/ \E b, v : writes'[i] = Queued(b, v, 0)
    BY <2>3 DEF Asks
  <2> QED BY <2>2, <2>4, QuietRemembered
<1>4. CASE (TurnCompletes \/ Shutdown \/ Tick \/ UNCHANGED vars) /\ proc # "down"
  <2>1. UNCHANGED <<writes, log, file, flushed, seen, ring>> /\ now' \in {now, now + 1}
    BY <1>4 DEF TurnCompletes, Shutdown, Tick, vars, memory, history
  <2>2. Loaded <=> Loaded'
    BY <1>4 DEF TurnCompletes, Shutdown, Tick, vars, Loaded
  <2> QED BY <1>4, <2>1, <2>2, QuietRemembered
<1>5. CASE (TurnCompletes \/ Shutdown \/ Tick \/ UNCHANGED vars) /\ proc = "down"
  <2>1. /\ UNCHANGED <<proc, writes, log, file, flushed, seen, ring>>
        /\ now' \in {now, now + 1} /\ writes = <<>>
    BY <1>5 DEF TurnCompletes, Shutdown, Tick, vars, memory, history, Open, Chain
  <2>2. \A n \in Positions : KeptNext(n) => Kept(n)
    BY <2>1, KeptBefore
  <2>3. \A n \in flushed : KeptNext(n) => n \in file.seen
    BY <2>2 DEF Remembered, Typed
  <2> QED BY <1>5, <2>1, <2>3 DEF Remembered, Kept, KeptNext, Loaded
<1>6. CASE Start \/ Crash
  <2>1. /\ UNCHANGED <<log, now, file, flushed>> /\ ~Loaded'
        /\ proc' # "down" => seen' = file.seen
        /\ \A i \in DOMAIN writes' : writes'[i].at = 0 /\ writes'[i].body = NoBody
    BY <1>6 DEF Start, Crash, Down, Save, Queued, Loaded, history
  <2>2. \A n \in Positions : KeptNext(n) => Kept(n)
    BY <2>1, KeptBefore
  <2>3. \A n \in flushed : KeptNext(n) => n \in file.seen
    BY <2>2 DEF Remembered, Typed
  <2> QED BY <2>1, <2>3 DEF Remembered, Kept, KeptNext
<1>7. ASSUME NEW i \in DOMAIN writes, Snapshot(i) PROVE Remembered'
  BY <1>7, SnapshotRemembered
<1>8. ASSUME NEW i \in DOMAIN writes, Land(i) \/ Fail(i) PROVE Remembered'
  BY <1>8, SettleRemembered
<1> QED BY <1>1, <1>2, <1>3, <1>4, <1>5, <1>6, <1>7, <1>8 DEF Next

----------------------------------------------------------------------------
(* No copy of the ring outgrows the capacity.                              *)

LEMMA StepBounded ==
    ASSUME Typed, Typed', Chain, Bounded, [Next]_vars
    PROVE  Bounded'
<1>1. Cardinality({}) <= Capacity /\ NoBody.seen = {} /\ Len(log) \in Nat
  <2>1. Cardinality({}) = 0 /\ Capacity \in Nat
    BY FS_EmptySet, Bounds
  <2>2. NoBody.seen = {} /\ Len(log) \in Nat
    BY DEF NoBody, Typed
  <2> QED BY <2>1, <2>2
<1>2. \A by, v, n : Queued(by, v, n).body = NoBody
  BY DEF Queued
<1>10. ASSUME NEW by, NEW state, NEW n, Asks(by, state, n), NEW i \in DOMAIN writes'
       PROVE  Cardinality(writes'[i].body.seen) <= Capacity
  <2>1. CASE i \in DOMAIN writes /\ writes'[i] = writes[i]
    BY <2>1 DEF Bounded
  <2>2. CASE writes'[i] = Queued(by, state.ver, n)
    <3>1. writes'[i].body = NoBody
      BY <1>2, <2>2
    <3> QED BY <1>1, <3>1
  <2> QED BY <1>10, <2>1, <2>2 DEF Asks
<1>3. ASSUME NEW id \in Ids, Handle(id) PROVE Bounded'
  <2>1. Asks("ring", lastState, Len(log) + 1) /\ file' = file /\ seen' = ring'
        /\ ring' = Evict(Prune(ring) \cup {Len(log) + 1})
    BY <1>3, SaveAsks DEF Handle, Open
  <2>2. Prune(ring) \cup {Len(log) + 1} \in SUBSET 1..(Len(log) + 1)
    <3>1. Prune(ring) \subseteq 1..Len(log)
      BY DEF Prune, Typed, Positions
    <3> QED BY <1>1, <3>1
  <2>3. Cardinality(ring') <= Capacity
    <3> DEFINE R == Prune(ring) \cup {Len(log) + 1}
    <3>1. Len(log) + 1 \in Nat /\ R \in SUBSET 1..(Len(log) + 1) /\ ring' = Evict(R)
      BY <1>1, <2>1, <2>2
    <3> HIDE DEF R
    <3> QED BY <3>1, EvictBounds
  <2>4. \A i \in DOMAIN writes' : Cardinality(writes'[i].body.seen) <= Capacity
    BY <1>10, <2>1
  <2> QED BY <2>1, <2>3, <2>4 DEF Bounded
<1>4. ASSUME NEW id \in Ids, Duplicate(id) PROVE Bounded'
  <2>1. ring \in SUBSET (0 + 1)..Len(log) /\ Prune(ring) \subseteq ring
    BY <1>1 DEF Prune, Typed, Positions
  <2>2. IsFiniteSet(ring) /\ Cardinality(ring) \in Nat
    BY <1>1, <2>1, PositionsFinite
  <2>3. Cardinality(Prune(ring)) \in Nat /\ Cardinality(Prune(ring)) <= Cardinality(ring)
    BY <2>1, <2>2, FS_Subset, FS_CardinalityType
  <2>4. Cardinality(ring') <= Capacity /\ UNCHANGED <<file, seen, writes>>
    BY <1>4, <2>2, <2>3, Bounds DEF Duplicate, Bounded
  <2> QED BY <2>4 DEF Bounded
<1>5. CASE SessionChange \/ DebounceFires \/ JournalClosed
  <2>1. /\ \E by, state : Save(writes, by, state, 0)
        /\ proc # "down" /\ proc' # "down" /\ UNCHANGED <<file, seen, ring>>
    BY <1>5 DEF SessionChange, DebounceFires, JournalClosed, SaveFinal, Open
  <2>2. PICK by, state : Asks(by, state, 0)
    BY <2>1, SaveAsks
  <2>3. \A i \in DOMAIN writes' : Cardinality(writes'[i].body.seen) <= Capacity
    BY <1>10, <2>2
  <2> QED BY <2>1, <2>3 DEF Bounded
<1>6. CASE TurnCompletes \/ Shutdown \/ Tick \/ UNCHANGED vars
  BY <1>6 DEF TurnCompletes, Shutdown, Tick, vars, memory, history, Bounded
<1>7. CASE Start \/ Crash
  <2>1. /\ file' = file /\ seen' \in {file.seen, {}} /\ ring' \in {ring, {}}
        /\ \A i \in DOMAIN writes' : writes'[i].body = NoBody
    BY <1>7 DEF Start, Crash, Down, Save, Queued
  <2> QED BY <1>1, <2>1 DEF Bounded
<1>8. ASSUME NEW i \in DOMAIN writes, Snapshot(i) PROVE Bounded'
  <2>1. /\ DOMAIN writes' = DOMAIN writes
        /\ writes'[1] = [writes[1] EXCEPT !.body = Body(writes[1])]
        /\ \A j \in DOMAIN writes : j # 1 => writes'[j] = writes[j]
        /\ 1 \in DOMAIN writes
    BY <1>8, SnapshotEffect
  <2>2. writes'[1].body.seen = seen
    BY <2>1, WriteTyped DEF Write, Body
  <2>3. UNCHANGED <<file, seen, ring>>
    BY <1>8 DEF Snapshot
  <2> QED BY <2>1, <2>2, <2>3 DEF Bounded
<1>9. ASSUME NEW i \in DOMAIN writes, Land(i) \/ Fail(i) PROVE Bounded'
  <2>1. Cardinality(file'.seen) <= Capacity /\ i = 1 /\ Turn(i) /\ log' = log
    <3>1. CASE Land(i)
      BY <1>9, <3>1, LandEffect DEF Bounded, Turn
    <3>2. CASE Fail(i)
      BY <1>9, <3>2, FailEffect DEF Bounded, Turn
    <3> QED BY <1>9, <3>1, <3>2
  <2>2. \/ Settle(writes[1], TRUE, Without(writes, 1))
        \/ Settle(writes[1], FALSE, Without(writes, 1))
    BY <1>9, LandEffect, FailEffect
  <2>3. \/ /\ seen' = file'.seen /\ ring' = Evict(Prune(file'.seen))
           /\ writes' = <<Queued("reload", file'.ver, 0)>>
        \/ Down
        \/ UNCHANGED <<seen, ring>> /\ Settled
    BY <1>9, <2>1, <2>2, SettleEffect
  <2>4. CASE /\ seen' = file'.seen /\ ring' = Evict(Prune(file'.seen))
             /\ writes' = <<Queued("reload", file'.ver, 0)>>
    <3>1. Prune(file'.seen) \in SUBSET 1..Len(log)
      BY <2>1, SameLog DEF Typed, Stored, Prune, Positions
    <3>2. Cardinality(ring') <= Capacity
      BY <1>1, <2>4, <3>1, EvictBounds
    <3>3. \A j \in DOMAIN writes' : writes'[j].body = NoBody
      BY <1>2, <2>4
    <3> QED BY <1>1, <2>1, <2>4, <3>2, <3>3 DEF Bounded
  <2>5. CASE Down
    <3>1. seen' = {} /\ ring' = {} /\ writes' = <<>>
      BY <2>5 DEF Down
    <3> QED BY <1>1, <2>1, <3>1 DEF Bounded
  <2>6. CASE UNCHANGED <<seen, ring>> /\ Settled
    BY <1>1, <2>1, <2>6 DEF Bounded, Settled
  <2> QED BY <2>3, <2>4, <2>5, <2>6
<1> QED BY <1>3, <1>4, <1>5, <1>6, <1>7, <1>8, <1>9 DEF Next

----------------------------------------------------------------------------
(* The theorems.                                                           *)

LEMMA InitInv ==
    ASSUME Init PROVE IInv
<1>1. 0 \in 0..MaxVersion /\ 0 \in 0..MaxTime /\ 0 \in 0..MaxStarts /\ 0 \in 0..MaxFailures
  BY Bounds
<1>2. Typed
  <2>1. [clean |-> TRUE, ver |-> 0, seen |-> {}] \in Stored
    BY <1>1 DEF Stored
  <2>2. [clean |-> TRUE, ver |-> 0] \in [clean: BOOLEAN, ver: 0..MaxVersion]
    BY <1>1
  <2>3. [of |-> 0, at |-> 0] \in [of: {0} \cup Positions, at: 0..MaxTime]
    BY <1>1
  <2>4. <<>> \in Seq(Write) /\ <<>> \in Seq([id: Ids, at: 0..MaxTime])
    OBVIOUS
  <2> QED BY <1>1, <2>1, <2>2, <2>3, <2>4 DEF Init, Typed
<1>3. Chain /\ Newer /\ Unclean /\ Remembered
  BY DEF Init, Chain, Newer, Unclean, Remembered, Open, Loaded
<1>4. Bounded
  BY FS_EmptySet, Bounds DEF Init, Bounded
<1>5. SuppressionEnds
  BY DEF Init, SuppressionEnds
<1> QED BY <1>2, <1>3, <1>4, <1>5 DEF IInv

\* A duplicate is the hit of an entry that has not expired.
LEMMA StepSuppression ==
    ASSUME Typed, SuppressionEnds, [Next]_vars
    PROVE  SuppressionEnds'
<1>1. ASSUME NEW id \in Ids, Duplicate(id) PROVE SuppressionEnds'
  <2>1. PICK n \in Hits(id) : dropped' = [of |-> n, at |-> now]
    BY <1>1 DEF Duplicate
  <2>2. n \in Positions /\ log[n].at > now - Ttl
    BY DEF Hits, Prune, Typed
  <2>3. log[n].at \in Int /\ now \in Int
    <3> DEFINE Entry == [id: Ids, at: 0..MaxTime]
    <3>1. log \in Seq(Entry) /\ n \in 1..Len(log)
      BY <2>2 DEF Typed, Positions
    <3>2. \A e \in Entry : e.at \in Int
      BY Bounds
    <3> HIDE DEF Entry
    <3>3. log[n] \in Entry
      BY <3>1
    <3> QED BY <3>2, <3>3, Bounds DEF Typed
  <2> QED BY <1>1, <2>1, <2>2, <2>3, Bounds DEF SuppressionEnds, Duplicate
<1>2. ASSUME NEW id \in Ids, Handle(id) PROVE SuppressionEnds'
  <2>1. \A n \in Positions : log'[n] = log[n]
    BY <1>2, LongerLog DEF Handle
  <2>2. dropped' = dropped /\ dropped.of \in {0} \cup Positions
    BY <1>2 DEF Handle, Typed
  <2> QED BY <2>1, <2>2 DEF SuppressionEnds
<1>3. CASE UNCHANGED <<log, dropped>>
  BY <1>3 DEF SuppressionEnds
<1> QED BY <1>1, <1>2, <1>3 DEF Next, SessionChange, TurnCompletes, DebounceFires, Start, Shutdown,
                               JournalClosed, Crash, Snapshot, Land, Fail, Tick, vars

LEMMA StepInv ==
    ASSUME IInv, [Next]_vars PROVE IInv'
  BY Shape, StepNewer, StepUnclean, StepRemembered, StepBounded, StepSuppression DEF IInv

\* The invariant of the argument holds always, for any bounds, writers,
\* failures and crashes.
THEOREM StoreInvariance == Spec => []IInv
<1>1. Init => IInv
  BY InitInv
<1>2. IInv /\ [Next]_vars => IInv'
  BY StepInv
<1> QED BY <1>1, <1>2, PTL DEF Spec

\* Every variable keeps its type, and no copy of the ring outgrows the
\* capacity of PersistentDedup.
THEOREM StoreTypeCorrect == Spec => []TypeOK
<1>1. IInv => TypeOK
  BY DEF IInv, Typed, Bounded, TypeOK
<1> QED BY <1>1, StoreInvariance, PTL

\* What a resolved save() was given is never lost to a concurrent writer,
\* a failure or a crash.
THEOREM StoreSavedStays == Spec => []SavedStays
<1>1. IInv => SavedStays
  BY DEF IInv, Newer, SavedStays
<1> QED BY <1>1, StoreInvariance, PTL

\* A process that died without a final state left a file that says so.
THEOREM StoreCrashIsNoticed == Spec => []CrashIsNoticed
<1>1. IInv => CrashIsNoticed
  BY DEF IInv, Unclean, CrashIsNoticed
<1> QED BY <1>1, StoreInvariance, PTL

\* PersistentDedup suppresses a message for its TTL at most.
THEOREM StoreSuppressionEnds == Spec => []SuppressionEnds
<1>1. IInv => SuppressionEnds
  BY DEF IInv
<1> QED BY <1>1, StoreInvariance, PTL

\* A message whose flush landed is not handled again, over any number of
\* restarts, until it expires or is pushed out of the ring.
THEOREM StoreNoReprocess == Spec => NoReprocess
<1> DEFINE Step == \A n \in flushed :
                      /\ Len(log') > Len(log)
                      /\ log[n].id = log'[Len(log')].id
                      => log[n].at <= now - Ttl \/ Len(log) - n >= Capacity
<1>1. IInv /\ [Next]_vars => [Step]_vars
  <2> SUFFICES ASSUME IInv, [Next]_vars, NEW n \in flushed,
                      Len(log') > Len(log), log[n].id = log'[Len(log')].id
               PROVE  log[n].at <= now - Ttl \/ Len(log) - n >= Capacity
    OBVIOUS
  <2>1. Len(log) \in Nat /\ n \in Positions
    BY DEF IInv, Typed
  <2>2. PICK id \in Ids : Handle(id)
    <3>1. log' # log
      BY <2>1
    <3> QED BY <3>1 DEF Next, Duplicate, SessionChange, TurnCompletes, DebounceFires, Start, Shutdown,
                        JournalClosed, Crash, Snapshot, Land, Fail, Tick, vars
  <2>3. log'[Len(log')].id = id
    BY <2>1, <2>2 DEF Handle, IInv, Typed
  <2>4. ASSUME Kept(n) PROVE FALSE
    <3>1. n \in ring
      BY <2>2, <2>4 DEF IInv, Remembered, Loaded, Handle, Open
    <3>2. n \in Hits(id)
      BY <2>3, <2>4, <3>1 DEF Hits, Prune, Kept
    <3> QED BY <2>2, <3>2 DEF Handle
  <2>5. log[n].at \in Int /\ now \in Int /\ n \in Nat
    <3> DEFINE Entry == [id: Ids, at: 0..MaxTime]
    <3>1. log \in Seq(Entry) /\ n \in 1..Len(log)
      BY <2>1 DEF IInv, Typed, Positions
    <3>2. \A e \in Entry : e.at \in Int
      BY Bounds
    <3> HIDE DEF Entry
    <3>3. log[n] \in Entry
      BY <3>1
    <3> QED BY <3>1, <3>2, <3>3, Bounds DEF IInv, Typed
  <2> QED BY <2>1, <2>4, <2>5, Bounds DEF Kept
<1> QED BY <1>1, StoreInvariance, PTL DEF Spec, NoReprocess
=============================================================================
