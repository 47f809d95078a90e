------------------------------ MODULE CodexRun ------------------------------
(***************************************************************************)
(* One run of the Codex adapter (codex/sdk-run.ts): an async generator     *)
(* that turns the events of the Codex SDK into the messages a session      *)
(* expects.  It prepares the prompt (images become files of a temporary    *)
(* directory), opens the stream, and yields; it runs while its consumer    *)
(* waits for the next message.  The SDK is external: it may deliver any    *)
(* event of its protocol, end, or throw.                                   *)
(***************************************************************************)
EXTENDS Integers, SequencesExt

CONSTANTS
    AgentMessages, \* ids of items that carry the text of the agent
    Reasonings,    \* ids of items that carry its reasoning
    CodexTools,    \* ids of items that are commands, searches, changes, ...
    Letters,       \* what texts are made of
    ItemTexts,     \* texts an item may have
    ErrorText,     \* text of an error item
    MaxImages      \* bound on the images of a prompt

ASSUME CodexAssumption ==
    /\ AgentMessages \cap Reasonings = {}
    /\ ItemTexts \cup {ErrorText} \subseteq Seq(Letters)
    /\ MaxImages \in Nat

VARIABLES
    stream,    \* where the generator is
    ending,    \* how it ended for its consumer
    aborted,   \* interrupted and abort.signal.aborted
    images,    \* images of the prompt left to write
    tempDir,   \* the temporary directory exists
    littered,  \* history: rm failed
    cache,     \* textCache
    yielded,   \* the message of the latest event, if it made one
    heard      \* history of each text item: its text, the fragments handed on, and
               \* how many of them precede the last text that replaced an earlier one

streamVars == <<stream, ending, aborted, images, tempDir, littered, cache, yielded, heard>>

TextItems == AgentMessages \cup Reasonings
Fragments == {ErrorText} \cup UNION {{SubSeq(t, n, Len(t)) : n \in DOMAIN t} : t \in ItemTexts}
None == [type |-> "none"]
Message == [type: {"none"}] \cup [type: {"result"}, success: BOOLEAN]
    \cup [type: {"text", "thinking"}, text: Fragments]
    \cup [type: {"tool_use"}, tool: CodexTools]

StreamInit ==
    /\ stream = "loading" /\ ending = "none"
    /\ aborted = FALSE
    /\ images \in 0..MaxImages
    /\ tempDir = FALSE /\ littered = FALSE
    /\ cache = [i \in TextItems |-> <<>>]
    /\ yielded = None
    /\ heard = [i \in TextItems |-> [text |-> <<>>, fragments |-> <<>>, replaced |-> 0]]

-----------------------------------------------------------------------------
(* Before the first event. *)

Quiet == UNCHANGED <<aborted, cache, yielded, heard>>

Leave(how) == stream' = "closing" /\ ending' = how

\* loadCodexSdk, and startThread or resumeThread.
LoadSdk ==
    /\ stream = "loading"
    /\ \/ stream' = "prompt" /\ UNCHANGED ending
       \/ stream' = "over" /\ ending' = "thrown"
    /\ UNCHANGED <<images, tempDir, littered>> /\ Quiet

\* promptToInput: an image that cannot be written is replaced by a remark; the directory
\* may have been made all the same.
WriteImage ==
    /\ stream = "prompt" /\ images > 0
    /\ images' = images - 1
    /\ tempDir' \in {tempDir, TRUE}
    /\ UNCHANGED <<stream, ending, littered>> /\ Quiet

OpenStream_no_cleanup ==    \* mutant: an open that throws does not clean up
    /\ stream = "prompt" /\ images = 0
    /\ \/ stream' = "events" /\ UNCHANGED ending
       \/ stream' = "over" /\ ending' = "thrown"
    /\ UNCHANGED <<images, tempDir, littered>> /\ Quiet

OpenStream ==
    /\ stream = "prompt" /\ images = 0
    /\ \/ stream' = "events" /\ UNCHANGED ending
       \/ Leave("thrown")
    /\ UNCHANGED <<images, tempDir, littered>> /\ Quiet

-----------------------------------------------------------------------------
(* Events. *)

Listening == stream = "events"
Keep == UNCHANGED <<stream, ending, aborted, images, tempDir, littered>>

deltaText_replaced_is_cut(prev, next) ==    \* mutant: startsWith is not checked
    IF prev = <<>> THEN next ELSE SubSeq(next, Len(prev) + 1, Len(next))

\* What is new in a text that usually extends the previous one.
deltaText(prev, next) ==
    IF prev # <<>> /\ IsPrefix(prev, next) THEN SubSeq(next, Len(prev) + 1, Len(next)) ELSE next

Hear(i, text, fragment) ==
    LET before == heard[i] IN
    heard' = [heard EXCEPT ![i] =
        [text |-> text,
         fragments |-> IF fragment = <<>> THEN @.fragments ELSE Append(@.fragments, fragment),
         replaced |-> IF IsPrefix(before.text, text) THEN @.replaced ELSE Len(@.fragments)]]

\* item.started, item.updated, item.completed of an agent_message or a reasoning: the
\* event carries the whole text, the message what is new in it.
TextItem(i, text) ==
    LET fragment == deltaText(cache[i], text) IN
    /\ Listening
    /\ cache' = [cache EXCEPT ![i] = text]
    /\ yielded' = IF fragment = <<>> THEN None
                  ELSE [type |-> IF i \in AgentMessages THEN "text" ELSE "thinking", text |-> fragment]
    /\ Hear(i, text, fragment)
    /\ Keep

\* item.started of a tool; its updates and its completion yield nothing, so the session
\* never sees a result of it.
ToolStarted(t) ==
    /\ Listening
    /\ yielded' = [type |-> "tool_use", tool |-> t]
    /\ UNCHANGED <<cache, heard>> /\ Keep

\* An error item is shown as text, and the turn goes on.
ErrorItem ==
    /\ Listening
    /\ yielded' = [type |-> "text", text |-> ErrorText]
    /\ UNCHANGED <<cache, heard>> /\ Keep

TurnCompleted ==
    /\ Listening
    /\ yielded' = [type |-> "result", success |-> TRUE]
    /\ UNCHANGED <<cache, heard>> /\ Keep

\* turn.failed, error, or the SDK throws: swallowed once the run was interrupted.
StreamThrows ==
    /\ Listening
    /\ Leave(IF aborted THEN "quiet" ELSE "thrown")
    /\ UNCHANGED <<images, tempDir, littered>> /\ Quiet

StreamEnds ==
    /\ Listening /\ Leave("done")
    /\ UNCHANGED <<images, tempDir, littered>> /\ Quiet

\* The consumer gives up the iteration: the generator runs its finally block.
Abandon ==
    /\ stream = "events"
    /\ Leave("abandoned")
    /\ UNCHANGED <<images, tempDir, littered>> /\ Quiet

\* cleanup; rm may fail, which is only logged.
Cleanup ==
    /\ stream = "closing"
    /\ stream' = "over"
    /\ tempDir' \in {FALSE, tempDir}
    /\ littered' = (tempDir' = TRUE)
    /\ UNCHANGED <<ending, images>> /\ Quiet

\* interrupt(): the signal is seen by the SDK, if at all, at its next event.
Abort ==
    /\ aborted' = TRUE
    /\ UNCHANGED <<stream, ending, images, tempDir, littered, cache, yielded, heard>>

Prepare == LoadSdk \/ WriteImage \/ OpenStream \/ Cleanup
SdkEvent ==
    \/ \E i \in TextItems, text \in ItemTexts \cup {<<>>} : TextItem(i, text)
    \/ \E t \in CodexTools : ToolStarted(t)
    \/ ErrorItem \/ TurnCompleted

-----------------------------------------------------------------------------
\* However an item's text grows or is replaced, the fragments handed on since the last
\* replacement add up to it: nothing is lost and nothing is repeated (deltaText).
FragmentsAddUp ==
    \A i \in TextItems :
        LET h == heard[i] IN
        FlattenSeq(SubSeq(h.fragments, h.replaced + 1, Len(h.fragments))) = h.text

\* A run that is over has removed the files of its images, whether it ended, failed to
\* open, threw, was aborted or was abandoned; only a failing rm leaves them.
TempDirRemoved == stream = "over" /\ ~littered => ~tempDir
=============================================================================
