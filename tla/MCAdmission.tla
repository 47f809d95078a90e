----------------------------- MODULE MCAdmission -----------------------------
(* Instances for TLC of the two gates: Gateway for messages, AutoApprove for tool calls.  *)
(* They share no state, so a behaviour is one of the one or one of the other.             *)
EXTENDS Gateway, AutoApprove, TLC

CONSTANTS m1, m2, h1, h2, k1, k2

\* A message to this bot that is a command, and messages that differ from it in one respect.
ToUs == [sender |-> "user", allowed |-> TRUE, listed |-> TRUE, p2p |-> FALSE,
         named |-> {"own"}, type |-> "text", body |-> "stop", images |-> FALSE]

MCMail ==
    {ToUs,
     [ToUs EXCEPT !.sender = "unset"], [ToUs EXCEPT !.sender = "app"],
     [ToUs EXCEPT !.allowed = FALSE], [ToUs EXCEPT !.listed = FALSE],
     [ToUs EXCEPT !.named = {"other"}], [ToUs EXCEPT !.named = {"other"}, !.allowed = FALSE],
     [ToUs EXCEPT !.named = {"name"}],
     [ToUs EXCEPT !.p2p = TRUE, !.named = {}], [ToUs EXCEPT !.p2p = TRUE, !.type = "post"],
     [ToUs EXCEPT !.type = "post"], [ToUs EXCEPT !.type = "post", !.images = TRUE],
     [ToUs EXCEPT !.type = "post", !.body = "empty"],
     [ToUs EXCEPT !.type = "image", !.images = TRUE], [ToUs EXCEPT !.type = "image"],
     [ToUs EXCEPT !.type = "file"], [ToUs EXCEPT !.body = "malformed"]}
    \cup {[ToUs EXCEPT !.body = b] : b \in {"bang", "bang_empty", "known", "unknown", "plain"}}

\* For redelivery: a run, a command with images to wait for, a refusal.
MCFewMail == {[ToUs EXCEPT !.body = "plain"], [ToUs EXCEPT !.type = "post", !.images = TRUE],
              [ToUs EXCEPT !.allowed = FALSE]}

\* To keep the instance small: a click, which shares only the socket with the messages, comes
\* before the first of them; and time passes, and a third delivery passes the dedup, only among
\* messages of these three kinds.
Narrow ==
    /\ click = NoClick \/ log = <<>>
    /\ \/ now = 0 /\ Len(log) <= 2
       \/ \A m \in Messages : letter[m] \in MCFewMail \cup {NoLetter}

\* ls && rm; ls > f, which is not understood.
MCCommands == {[whole |-> "ls && rm", segments |-> {"ls", "rm"}],
               [whole |-> "ls > f", segments |-> {}]}

MCRules == {[allow |-> {"ls", "rm"}, deny |-> {}], [allow |-> {}, deny |-> {"rm"}]}

MCInputs == {{}, {[key |-> "path", escapes |-> TRUE, inside |-> FALSE]},
             {[key |-> "pattern", escapes |-> FALSE, inside |-> TRUE]}}

MCSymmetry == Permutations(Messages) \cup Permutations(Handlers) \cup Permutations(Calls)

Init == GatewayInit /\ ApproveInit
Next == \/ ApproveInit /\ GatewayNext /\ UNCHANGED approveVars
        \/ GatewayInit /\ ApproveNext /\ UNCHANGED gatewayVars
Spec == Init /\ [][Next]_<<gatewayVars, approveVars>>
=============================================================================
