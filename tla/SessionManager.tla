--------------------------- MODULE SessionManager ---------------------------
(***************************************************************************)
(* ClaudeSessionManager (claude/session-manager.ts) and the commands that  *)
(* act on it (commands/dispatcher.ts): which session, and with it which    *)
(* conversation of a provider, the next message of a chat reaches.         *)
(*                                                                         *)
(* A session is looked up by chat, active project and effective provider;  *)
(* the effective provider depends on an override, on the sessions there    *)
(* are and on the default, so a command may redirect a chat without        *)
(* naming it.  Of a session the model keeps its conversation (the          *)
(* provider's session id) and whether it works; directories, modes and     *)
(* models are data.  Writing the file is one step here: StateStore.tla is  *)
(* about the interleaving of writes.  A session dropped from the map while *)
(* it works only causes more saves (SaveLater).  A message is submitted in *)
(* the turn of the event loop that looked its session up (the session's    *)
(* mutex is never held over I/O), so looking up and starting is one step.  *)
(***************************************************************************)
EXTENDS Integers

CONSTANTS
    Chats,
    Projects,      \* aliases of config.projects
    Default,       \* no project
    Conversations, \* session ids a provider may hand out
    NoId,          \* a session or record without a session id
    Absent,        \* no session, no record
    MaxConfirms,   \* bound on open /cd confirmations of a chat
    MaxInputs,     \* bound on messages and inputs
    MaxRestarts    \* bound on crashes

Providers == {"claude", "codex"}
Scopes == Projects \cup {Default}
Keys == Chats \X Scopes \X Providers

\* /resume may take a chat id for a session id.
Ids == Conversations \cup Chats
Entry == Ids \cup {NoId, Absent}

ASSUME ManagerAssumption ==
    /\ Default \notin Projects
    /\ Conversations \cap Chats = {}
    /\ NoId \notin Ids /\ Absent \notin Ids /\ NoId # Absent
    /\ {MaxConfirms, MaxInputs, MaxRestarts} \subseteq Nat

VARIABLES
    sessions,          \* key -> the session's conversation, NoId or Absent
    working,           \* the sessions in the map that are not idle
    staleRecords,      \* key -> the record's conversation, NoId or Absent
    activeProjects,
    providerOverrides, \* <<chat, project>> -> provider, or "none"
    defaultProvider,
    file,              \* what saveNow() wrote last
    confirms,          \* pendingCdConfirms: how many of each chat
    stopping,          \* chats with a /new that awaits session.stop()
    issuedBy,          \* history: the provider that handed out an id
    forgotten,         \* history: what was deleted at a key and not resumed since
    inputs, restarts

tables == <<sessions, working, staleRecords>>
choices == <<activeProjects, providerOverrides>>
dialogs == <<confirms, stopping>>
history == <<issuedBy, forgotten, restarts>>
vars == <<tables, choices, defaultProvider, file, dialogs, history, inputs>>

File == [records: [Keys -> Entry],
         activeProjects: [Chats -> Scopes],
         activeProviders: [Chats \X Scopes -> Providers \cup {"none"}]]

TypeOK ==
    /\ sessions \in [Keys -> Entry]
    /\ working \subseteq {k \in Keys : sessions[k] # Absent}
    /\ staleRecords \in [Keys -> Entry]
    /\ activeProjects \in [Chats -> Scopes]
    /\ providerOverrides \in [Chats \X Scopes -> Providers \cup {"none"}]
    /\ defaultProvider \in Providers
    /\ file \in File
    /\ confirms \in [Chats -> 0..MaxConfirms]
    /\ stopping \subseteq Chats
    /\ issuedBy \in [Conversations -> Providers \cup {"none"}]
    /\ forgotten \in [Keys -> SUBSET Ids]
    /\ inputs \in 0..MaxInputs /\ restarts \in 0..MaxRestarts

Init ==
    /\ sessions = [k \in Keys |-> Absent]
    /\ working = {}
    /\ staleRecords = [k \in Keys |-> Absent]
    /\ activeProjects = [c \in Chats |-> Default]
    /\ providerOverrides = [s \in Chats \X Scopes |-> "none"]
    /\ defaultProvider \in Providers
    /\ file = [records |-> [k \in Keys |-> Absent],
               activeProjects |-> activeProjects,
               activeProviders |-> providerOverrides]
    /\ confirms = [c \in Chats |-> 0]
    /\ stopping = {}
    /\ issuedBy = [id \in Conversations |-> "none"]
    /\ forgotten = [k \in Keys |-> {}]
    /\ inputs = 0 /\ restarts = 0

----------------------------------------------------------------------------
(* Which session a chat reaches.                                           *)

\* The providers that have a session or a record in a project of a chat.
ProvidersIn(c, s) ==
    {p \in Providers : sessions[<<c, s, p>>] # Absent \/ staleRecords[<<c, s, p>>] # Absent}

\* inferProviderForProject
InferredProvider(c, s) ==
    IF \E p \in Providers : ProvidersIn(c, s) = {p}
    THEN CHOOSE p \in Providers : ProvidersIn(c, s) = {p}
    ELSE "none"

\* getEffectiveProvider
EffectiveProvider(c) ==
    LET s == activeProjects[c]
    IN  IF providerOverrides[<<c, s>>] # "none" THEN providerOverrides[<<c, s>>]
        ELSE IF InferredProvider(c, s) # "none" THEN InferredProvider(c, s)
        ELSE defaultProvider

ActiveKey(c) == <<c, activeProjects[c], EffectiveProvider(c)>>

\* getOrCreate: every message and almost every command starts with it.  A
\* session is made from the record of its key, or without a conversation.
Opened(c) == LET k == ActiveKey(c) IN
    [sessions EXCEPT ![k] = IF @ # Absent THEN @
                            ELSE IF staleRecords[k] # Absent THEN staleRecords[k] ELSE NoId]
Unclaimed(c) == LET k == ActiveKey(c) IN
    IF sessions[k] = Absent THEN [staleRecords EXCEPT ![k] = Absent] ELSE staleRecords

GetOrCreate(c) == /\ sessions' = Opened(c)
                  /\ staleRecords' = Unclaimed(c)

Idle(c) == ActiveKey(c) \notin working

----------------------------------------------------------------------------
(* saveNow().                                                              *)

\* buildSessionsSnapshot: a record overwrites a session of the same key.  What
\* shouldPersistSession leaves out, a session without a conversation whose
\* settings are the defaults, is among what Restart drops.
SnapshotOf(k) == IF staleRecords'[k] # Absent THEN staleRecords'[k] ELSE sessions'[k]

SaveNow ==
    file' = [records |-> [k \in Keys |-> SnapshotOf(k)],
             activeProjects |-> activeProjects',
             activeProviders |-> providerOverrides']

\* The debounced save after a turn, and the saves of sessions no longer in the map.
SaveLater ==
    /\ UNCHANGED <<tables, choices, defaultProvider, dialogs, history>>
    /\ SaveNow

----------------------------------------------------------------------------
(* Messages and turns.                                                     *)

\* A message is submitted: it starts a turn or is queued.
Message(c) ==
    /\ GetOrCreate(c)
    /\ working' = working \cup {ActiveKey(c)}
    /\ UNCHANGED <<choices, defaultProvider, file, dialogs, history>>

\* /status, an unknown command, a command refused because the session works:
\* the session is made, nothing else happens.
LookUp(c) ==
    /\ GetOrCreate(c)
    /\ UNCHANGED <<working, choices, defaultProvider, file, dialogs, history>>

\* The provider hands out the id of a new conversation.
CaptureId(k, id) ==
    /\ k \in working
    /\ sessions[k] = NoId
    /\ issuedBy[id] = "none"
    /\ sessions' = [sessions EXCEPT ![k] = id]
    /\ issuedBy' = [issuedBy EXCEPT ![id] = k[3]]
    /\ UNCHANGED <<working, staleRecords, choices, defaultProvider, dialogs, forgotten, restarts>>
    /\ SaveNow

\* The context is too large: the conversation is given up, without a save.
ContextReset(k) ==
    /\ k \in working
    /\ sessions' = [sessions EXCEPT ![k] = NoId]
    /\ UNCHANGED <<working, staleRecords, choices, defaultProvider, file, dialogs, history>>

\* The queue is empty and the last turn over.
TurnsEnd(k) ==
    /\ k \in working
    /\ working' = working \ {k}
    /\ UNCHANGED <<sessions, staleRecords, choices, defaultProvider, file, dialogs, history>>

----------------------------------------------------------------------------
(* Commands.  S and R are the sessions and the records at that point.      *)

Held(S, R, k) == {S[k], R[k]} \cap Ids

\* delete(): the session and the record of the active key.
DropRecord_kept(R, k) == R  \* mutant: only the session goes
DropRecord(R, k) == [R EXCEPT ![k] = Absent]

Delete(S, R, k) ==
    /\ sessions' = [S EXCEPT ![k] = Absent]
    /\ staleRecords' = DropRecord(R, k)
    /\ working' = working \ {k}
    /\ forgotten' = [forgotten EXCEPT ![k] = @ \cup Held(S, R, k)]

\* /new and /compact of an idle session.
StartOver(c) ==
    /\ Idle(c)
    /\ Delete(Opened(c), Unclaimed(c), ActiveKey(c))
    /\ UNCHANGED <<choices, defaultProvider, dialogs, issuedBy, restarts>>
    /\ SaveNow

\* /new of a session that works: session.stop() first.
NewStops(c) ==
    /\ ~Idle(c)
    /\ c \notin stopping
    /\ stopping' = stopping \cup {c}
    /\ UNCHANGED <<tables, choices, defaultProvider, file, confirms, history>>

\* The stop returned: whatever is active by now is deleted.
NewStopped(c) ==
    /\ c \in stopping
    /\ stopping' = stopping \ {c}
    /\ Delete(sessions, staleRecords, ActiveKey(c))
    /\ UNCHANGED <<choices, defaultProvider, confirms, issuedBy, restarts>>
    /\ SaveNow

\* The stop threw: /new is reported as failed.
NewFails(c) ==
    /\ c \in stopping
    /\ stopping' = stopping \ {c}
    /\ UNCHANGED <<tables, choices, defaultProvider, file, confirms, history>>

SwitchGuard_none(c) == TRUE  \* mutant: a session that works may be left
SwitchGuard(c) == Idle(c)

\* /provider
SwitchProvider(c, p) ==
    /\ SwitchGuard(c)
    /\ GetOrCreate(c)
    /\ providerOverrides' = [providerOverrides EXCEPT ![<<c, activeProjects[c]>>] = p]
    /\ UNCHANGED <<working, activeProjects, defaultProvider, dialogs, history>>
    /\ SaveNow

\* /mode, /model, /effort: a changed model or effort ends a conversation of codex.
Configure(c, changed) ==
    LET k == ActiveKey(c)
    IN  /\ Idle(c)
        /\ sessions' = IF changed /\ k[3] = "codex" THEN [Opened(c) EXCEPT ![k] = NoId] ELSE Opened(c)
        /\ staleRecords' = Unclaimed(c)
        /\ UNCHANGED <<working, choices, defaultProvider, dialogs, history>>
        /\ SaveNow

\* switchProject: the provider in use is taken along into a project that has none.
TakenAlong(c, s) ==
    IF /\ providerOverrides[<<c, s>>] = "none"
       /\ InferredProvider(c, s) = "none"
       /\ EffectiveProvider(c) # defaultProvider
    THEN [providerOverrides EXCEPT ![<<c, s>>] = EffectiveProvider(c)]
    ELSE providerOverrides

\* /project
SwitchProject(c, s) ==
    /\ Idle(c)
    /\ activeProjects[c] # s
    /\ GetOrCreate(c)
    /\ activeProjects' = [activeProjects EXCEPT ![c] = s]
    /\ providerOverrides' = TakenAlong(c, s)
    /\ UNCHANGED <<working, defaultProvider, dialogs, history>>
    /\ SaveNow

\* /cd asks for a confirmation.
Cd(c) ==
    /\ Idle(c)
    /\ confirms[c] < MaxConfirms
    /\ GetOrCreate(c)
    /\ confirms' = [confirms EXCEPT ![c] = @ + 1]
    /\ UNCHANGED <<working, choices, defaultProvider, file, stopping, history>>

\* Confirmed, up to a minute later: nothing is checked again, and the session
\* that is active by now is deleted, working or not.
CdConfirmed(c) ==
    /\ confirms[c] > 0
    /\ confirms' = [confirms EXCEPT ![c] = @ - 1]
    /\ Delete(sessions, staleRecords, ActiveKey(c))
    /\ UNCHANGED <<choices, defaultProvider, stopping, issuedBy, restarts>>
    /\ SaveNow

\* Cancelled, or timed out.
CdDismissed(c) ==
    /\ confirms[c] > 0
    /\ confirms' = [confirms EXCEPT ![c] = @ - 1]
    /\ UNCHANGED <<tables, choices, defaultProvider, file, stopping, history>>

\* findSession, and the fallback of handleResume: what is resumed for a target,
\* of several entries any.  A session id is looked for everywhere, in sessions
\* first; a chat id means its active entry or else any entry of the chat, where
\* the chat id stands in for a missing id, and a session without an id is listed
\* under the provider its chat uses now.
Sought(k, provider, id) == [chat |-> k[1], provider |-> provider, id |-> id]
WithId(T, id) == {Sought(k, k[3], id) : k \in {j \in Keys : T[j] = id}}

Listed(S, R, chat) ==
    LET in(T) == {k \in Keys : k[1] = chat /\ T[k] # Absent}
    IN  IF in(S) = {}
        THEN {Sought(k, k[3], IF R[k] = NoId THEN chat ELSE R[k]) : k \in in(R)}
        ELSE {IF S[k] = NoId THEN Sought(k, EffectiveProvider(chat), chat)
                             ELSE Sought(k, k[3], S[k]) : k \in in(S)}

ActiveOf(S, R, chat) ==
    LET k == ActiveKey(chat)
    IN  IF S[k] \notin {NoId, Absent} THEN {Sought(k, k[3], S[k])}
        ELSE IF S[k] = Absent /\ R[k] # Absent THEN {Sought(k, k[3], R[k])}
        ELSE Listed(S, R, chat)

Found(S, R, target) ==
    IF WithId(S, target) # {} THEN WithId(S, target)
    ELSE IF WithId(R, target) # {} THEN WithId(R, target)
    ELSE IF target \in Chats THEN ActiveOf(S, R, target)
    ELSE {}

RecordProvider_active(c, found) == EffectiveProvider(c)  \* mutant: the provider in use here
RecordProvider(c, found) == found.provider

\* /resume of a session of another chat: delete() and setStaleRecord().
Resume(c, target) ==
    /\ Idle(c)
    /\ target # c
    /\ \E found \in Found(Opened(c), Unclaimed(c), target) :
          LET k == ActiveKey(c)
              p == RecordProvider(c, found)
              to == <<c, activeProjects[c], p>>
          IN  /\ found.chat # c
              /\ sessions' = [Opened(c) EXCEPT ![k] = Absent]
              /\ staleRecords' = [Unclaimed(c) EXCEPT ![k] = Absent, ![to] = found.id]
              /\ providerOverrides' = [providerOverrides EXCEPT ![<<c, activeProjects[c]>>] = p]
              /\ forgotten' = [forgotten EXCEPT
                     ![k] = @ \cup Held(Opened(c), Unclaimed(c), k),
                     ![to] = @ \ {found.id}]
    /\ UNCHANGED <<working, activeProjects, defaultProvider, dialogs, issuedBy, restarts>>
    /\ SaveNow

\* /config set agent.default_provider
SetDefaultProvider(c, p) ==
    /\ GetOrCreate(c)
    /\ defaultProvider' = p
    /\ UNCHANGED <<working, choices, file, dialogs, history>>

----------------------------------------------------------------------------
(* A crash, and startupLoad(): what the file has becomes records, without  *)
(* the expired ones and those that were not worth a place in the file; the *)
(* default comes from the configuration again.                             *)

RestoredProviders_lost == [s \in Chats \X Scopes |-> "none"]  \* mutant: not restored
RestoredProviders == file.activeProviders

Restart ==
    /\ restarts < MaxRestarts
    /\ restarts' = restarts + 1
    /\ sessions' = [k \in Keys |-> Absent]
    /\ working' = {}
    /\ \E dropped \in SUBSET {k \in Keys : file.records[k] # Absent} :
          staleRecords' = [k \in Keys |-> IF k \in dropped THEN Absent ELSE file.records[k]]
    /\ activeProjects' = file.activeProjects
    /\ providerOverrides' = RestoredProviders
    /\ defaultProvider' \in Providers
    /\ confirms' = [c \in Chats |-> 0]
    /\ stopping' = {}
    /\ UNCHANGED <<issuedBy, forgotten>>
    /\ SaveNow

----------------------------------------------------------------------------

Command(c) ==
    \/ StartOver(c) \/ NewStops(c)
    \/ \E p \in Providers : SwitchProvider(c, p)
    \/ \E changed \in BOOLEAN : Configure(c, changed)
    \/ \E s \in Projects : SwitchProject(c, s)
    \/ Cd(c)
    \/ \E target \in Ids : Resume(c, target)
    \/ \E p \in Providers : SetDefaultProvider(c, p)

UserInput == \E c \in Chats : Message(c) \/ LookUp(c) \/ Command(c)

Progress ==
    \/ \E c \in Chats : NewStopped(c) \/ NewFails(c) \/ CdConfirmed(c) \/ CdDismissed(c)
    \/ \E k \in Keys : \/ \E id \in Conversations : CaptureId(k, id)
                       \/ ContextReset(k) \/ TurnsEnd(k)
    \/ SaveLater
    \/ Restart

Next ==
    \/ inputs < MaxInputs /\ inputs' = inputs + 1 /\ UserInput
    \/ Progress /\ UNCHANGED inputs

Spec == Init /\ [][Next]_vars

----------------------------------------------------------------------------
(* Properties.                                                             *)

\* The conversation the next message of a chat continues.
Conversation(c) == LET k == ActiveKey(c) IN
    IF sessions[k] # Absent THEN sessions[k]
    ELSE IF staleRecords[k] # Absent THEN staleRecords[k] ELSE NoId

\* "A session cannot resume across providers": an id is only ever kept for the
\* provider that handed it out, over /resume, /provider and restarts.
NoCrossProvider == \A k \in Keys : \A id \in Conversations :
    id \in {sessions[k], staleRecords[k], file.records[k]} => issuedBy[id] = k[3]

\* A session in the map that works is the one its chat reaches: the next message
\* is queued behind it and /stop stops it.  The idle checks of the commands see
\* the active session only, so everything rests on no command, of any chat, ever
\* redirecting a chat whose session works.
WorkIsActive == \A k \in working : k = ActiveKey(k[1])

\* After a crash a chat continues the conversation it had, or none when its
\* record expired, but never another one.  The exception: a record of /resume
\* that waits behind a live session of its provider is what the file keeps.
RestartContinues ==
    [][restarts' # restarts =>
          \A c \in Chats :
              LET k == ActiveKey(c)
              IN  \/ Conversation(c) = NoId
                  \/ sessions[k] # Absent /\ staleRecords[k] # Absent
                  \/ Conversation(c)' \in {Conversation(c), NoId}]_vars

\* What /new, /compact, /cd or /resume dropped stays dropped: neither another
\* command nor a restart brings it back, unless /resume names it.
ForgottenStays == \A k \in Keys :
    {sessions[k], staleRecords[k], file.records[k]} \cap forgotten[k] = {}
=============================================================================
