----------------------------- MODULE MCSession -----------------------------
(* Instances of Session for TLC. *)
EXTENDS Session, TLC

CONSTANTS r1, r2, b1, b2, s1, s2, k1, k2, l1, l2

MCSymmetry == Permutations({r1, r2}) \cup Permutations({s1, s2})
              \cup Permutations({k1, k2}) \cup Permutations({l1, l2})

\* To keep the instance small: tool calls come without bangs and faults, which are a loop that
\* has crashed, an interrupt that has failed and a context that was too large; and so without
\* a session id, which only the retry after a context that was too large asks for.
Narrow ==
    \/ \A k \in Calls : call[k].phase = "unused"
    \/ /\ ~hasSession
       /\ \A b \in Bangs : done[b] = "new"
       /\ \A l \in Loops : ~At(l, "crashed") /\ loop[l].ending # "too_large"
       /\ \A c \in Callers : request[c] # "refused"
=============================================================================
