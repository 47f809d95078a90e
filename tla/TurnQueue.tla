----------------------------- MODULE TurnQueue -----------------------------
(***************************************************************************)
(* What a session promises to those who use it, whatever its loops, locks  *)
(* and awaits are (submit and stop of src/claude/session.ts): messages     *)
(* become turns one at a time and in the order of their acceptance; a stop *)
(* or a bang takes back what waits and asks for the end of the turn that   *)
(* runs; a turn that was stopped is not run again; no message gets two     *)
(* answers, and "interrupted" only if somebody asked for it.               *)
(***************************************************************************)
EXTENDS Integers, Sequences

CONSTANT Inputs

VARIABLES
    waiting,  \* the messages whose turn is to come, in order
    taken,    \* messages that were taken back and will not run
    turn,     \* the message whose turn it is: none, or one
    runs,     \* provider calls for a message
    unwanted, \* messages whose turn somebody asked to end
    stopped,  \* those of them for which a stop was acknowledged
    answer    \* what the submitter was told

Elements(s) == {s[n] : n \in DOMAIN s}

Init ==
    /\ waiting = <<>> /\ taken = {} /\ turn = {}
    /\ runs = [i \in Inputs |-> 0]
    /\ unwanted = {} /\ stopped = {}
    /\ answer = [i \in Inputs |-> "new"]

Accept(i) ==
    /\ answer[i] = "new"
    /\ answer' = [answer EXCEPT ![i] = "pending"]

\* A message.
Enqueue(i) ==
    /\ Accept(i)
    /\ waiting' = Append(waiting, i)
    /\ UNCHANGED <<taken, turn, runs, unwanted, stopped>>

\* What waits is taken back, and the end of the turn is asked for, if it has begun.
TakeBack(next) ==
    /\ taken' = taken \cup Elements(waiting)
    /\ waiting' = next
    /\ unwanted' \in {unwanted, unwanted \cup turn}
    /\ UNCHANGED <<turn, runs, stopped>>

Stop == TakeBack(<<>>) /\ UNCHANGED answer
Bang(i) == TakeBack(<<i>>) /\ Accept(i)

\* A message that was taken back is answered.
Return(i) ==
    /\ i \in taken
    /\ taken' = taken \ {i}
    /\ answer' = [answer EXCEPT ![i] = "interrupted"]
    /\ UNCHANGED <<waiting, turn, runs, unwanted, stopped>>

\* The next message has its turn.
Begin ==
    /\ turn = {} /\ waiting # <<>>
    /\ turn' = {Head(waiting)}
    /\ waiting' = Tail(waiting)
    /\ UNCHANGED <<taken, runs, unwanted, stopped, answer>>

\* A call of the provider: the first, or the one after a context reset.
Run(i) ==
    /\ i \in turn \ stopped
    /\ runs[i] < 2
    /\ runs' = [runs EXCEPT ![i] = @ + 1]
    /\ UNCHANGED <<waiting, taken, turn, unwanted, stopped, answer>>

\* A stop is acknowledged to its caller.
Acknowledge(i) ==
    /\ i \in unwanted
    /\ stopped' = stopped \cup {i}
    /\ UNCHANGED <<waiting, taken, turn, runs, unwanted, answer>>

\* The turn is over.
Finish(i, how) ==
    /\ i \in turn /\ runs[i] > 0
    /\ how = "interrupted" => i \in unwanted
    /\ turn' = {}
    /\ answer' = [answer EXCEPT ![i] = how]
    /\ UNCHANGED <<waiting, taken, runs, unwanted, stopped>>

Next ==
    \/ Stop \/ Begin
    \/ \E i \in Inputs :
          \/ Enqueue(i) \/ Bang(i) \/ Return(i) \/ Run(i) \/ Acknowledge(i)
          \/ \E how \in {"resolved", "interrupted", "failed"} : Finish(i, how)

Spec == Init /\ [][Next]_<<waiting, taken, turn, runs, unwanted, stopped, answer>>
=============================================================================
