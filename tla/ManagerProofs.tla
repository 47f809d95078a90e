---------------------------- MODULE ManagerProofs ----------------------------
(***************************************************************************)
(* Theorems about SessionManager.                                          *)
(*                                                                         *)
(* What carries them is BothSet: when a chat has entries of both providers *)
(* in one project, its override is set.  So the default provider and the   *)
(* inference only ever decide where they cannot take a chat away from an   *)
(* entry it has.                                                           *)
(***************************************************************************)
EXTENDS SessionManager, TLAPS

Present(k) == sessions[k] # Absent \/ staleRecords[k] # Absent

BothSet == \A c \in Chats, s \in Scopes :
    (\A p \in Providers : Present(<<c, s, p>>)) => providerOverrides[<<c, s>>] # "none"

\* Commands of a chat whose session works leave its project and override alone.
WorkChosen == \A k \in working :
    /\ activeProjects[k[1]] = k[2]
    /\ providerOverrides[<<k[1], k[2]>>] \in {k[3], "none"}

\* What was dropped was once handed out, so that it is not handed out again.
ForgottenIssued == \A k \in Keys : \A id \in forgotten[k] \cap Conversations : issuedBy[id] # "none"

\* The file knows every choice; it has no entry that memory has not, and the
\* conversation of an entry unless that was given up or found since.
FileAgrees ==
    /\ file.activeProjects = activeProjects
    /\ file.activeProviders = providerOverrides
    /\ \A k \in Keys :
          /\ file.records[k] # Absent => Present(k)
          /\ sessions[k] \in Ids /\ staleRecords[k] = Absent =>
                file.records[k] \in {sessions[k], NoId, Absent}
          /\ sessions[k] = Absent /\ staleRecords[k] \in Ids =>
                file.records[k] \in {staleRecords[k], NoId, Absent}

IInv ==
    /\ TypeOK
    /\ BothSet
    /\ WorkChosen
    /\ NoCrossProvider
    /\ ForgottenStays
    /\ ForgottenIssued
    /\ FileAgrees

----------------------------------------------------------------------------
(* Keys and the effective provider.                                        *)

\* A key is a chat, a project and a provider.
LEMMA KeyParts ==
    /\ \A k \in Keys : /\ k[1] \in Chats /\ k[2] \in Scopes /\ k[3] \in Providers
                       /\ k = <<k[1], k[2], k[3]>>
    /\ \A c \in Chats, s \in Scopes, p \in Providers : <<c, s, p>> \in Keys
BY DEF Keys

\* inferProviderForProject names a provider, or none; with entries of exactly
\* one provider it names that one.
LEMMA Inferred ==
    ASSUME NEW c, NEW s
    PROVE  /\ InferredProvider(c, s) \in Providers \cup {"none"}
           /\ \A p \in Providers : ProvidersIn(c, s) = {p} => InferredProvider(c, s) = p
<1>1. CASE \E p \in Providers : ProvidersIn(c, s) = {p}
  <2>1. PICK p \in Providers : ProvidersIn(c, s) = {p} BY <1>1
  <2>2. (CHOOSE q \in Providers : ProvidersIn(c, s) = {q}) = p BY <2>1
  <2> QED BY <1>1, <2>1, <2>2 DEF InferredProvider
<1>2. CASE ~ \E p \in Providers : ProvidersIn(c, s) = {p}
  BY <1>2 DEF InferredProvider
<1> QED BY <1>1, <1>2

\* The effective provider is a provider: the override, or one that is present
\* when only one is.
LEMMA Effective ==
    ASSUME TypeOK, NEW c \in Chats
    PROVE  LET s == activeProjects[c]
               o == providerOverrides[<<c, s>>]
           IN  /\ s \in Scopes
               /\ EffectiveProvider(c) \in Providers
               /\ ActiveKey(c) \in Keys
               /\ ActiveKey(c) = <<c, s, EffectiveProvider(c)>>
               /\ o # "none" => EffectiveProvider(c) = o
               /\ \A p \in Providers :
                     o = "none" /\ ProvidersIn(c, s) = {p} => EffectiveProvider(c) = p
<1> DEFINE s == activeProjects[c]
           o == providerOverrides[<<c, s>>]
<1>1. s \in Scopes /\ o \in Providers \cup {"none"} /\ defaultProvider \in Providers
  BY DEF TypeOK
<1>2. /\ InferredProvider(c, s) \in Providers \cup {"none"}
      /\ \A p \in Providers : ProvidersIn(c, s) = {p} => InferredProvider(c, s) = p
  BY Inferred
<1>3. "none" \notin Providers BY DEF Providers
<1>4. EffectiveProvider(c) = IF o # "none" THEN o
                             ELSE IF InferredProvider(c, s) # "none" THEN InferredProvider(c, s)
                             ELSE defaultProvider
  BY DEF EffectiveProvider
<1>5. EffectiveProvider(c) \in Providers BY <1>1, <1>2, <1>4
<1>6. ActiveKey(c) = <<c, s, EffectiveProvider(c)>> BY DEF ActiveKey
<1> QED BY <1>1, <1>2, <1>3, <1>4, <1>5, <1>6, KeyParts

\* With no override a present entry in the active project is the active one.
LEMMA OnlyOne ==
    ASSUME TypeOK, BothSet, NEW k \in Keys, Present(k),
           activeProjects[k[1]] = k[2],
           providerOverrides[<<k[1], k[2]>>] \in {k[3], "none"}
    PROVE  k = ActiveKey(k[1])
<1>0. /\ k[1] \in Chats /\ k[2] \in Scopes /\ k[3] \in Providers
      /\ k = <<k[1], k[2], k[3]>>
  BY KeyParts
<1>1. CASE providerOverrides[<<k[1], k[2]>>] = "none"
  <2>1. \E q \in Providers : ~Present(<<k[1], k[2], q>>) BY <1>0, <1>1 DEF BothSet
  <2>2. PICK q \in Providers : ~Present(<<k[1], k[2], q>>) BY <2>1
  <2>3. q # k[3] /\ Providers = {q, k[3]} BY <1>0, <2>2 DEF Providers
  <2>4. ProvidersIn(k[1], k[2]) = {k[3]} BY <1>0, <2>2, <2>3 DEF ProvidersIn, Present
  <2> QED BY <1>0, <1>1, <2>4, Effective
<1>2. CASE providerOverrides[<<k[1], k[2]>>] = k[3]
  <2>1. k[3] # "none" BY <1>0 DEF Providers
  <2> QED BY <1>0, <1>2, <2>1, Effective
<1> QED BY <1>1, <1>2

\* The session that works is the active one (WorkIsActive from its inductive form).
LEMMA WorkActive == TypeOK /\ BothSet /\ WorkChosen => WorkIsActive
<1> SUFFICES ASSUME TypeOK, BothSet, WorkChosen, NEW k \in working PROVE k = ActiveKey(k[1])
  BY DEF WorkIsActive
<1>1. k \in Keys /\ Present(k) BY DEF TypeOK, Present
<1> QED BY <1>1, OnlyOne DEF WorkChosen

\* An idle chat has no session that works, in whatever project.
LEMMA IdleChat ==
    ASSUME TypeOK, BothSet, WorkChosen, NEW c \in Chats, Idle(c)
    PROVE  \A k \in working : k[1] # c
BY WorkActive DEF WorkIsActive, Idle

----------------------------------------------------------------------------
(* What the operators of a step do to one key.                             *)

\* getOrCreate touches the active key only: it is in the map afterwards, with
\* the conversation of its session or else of its record.
LEMMA Opening ==
    ASSUME TypeOK, NEW c \in Chats
    PROVE  /\ Opened(c) \in [Keys -> Entry]
           /\ Unclaimed(c) \in [Keys -> Entry]
           /\ Opened(c)[ActiveKey(c)] # Absent
           /\ \A k \in Keys :
                 \/ Opened(c)[k] = sessions[k] /\ Unclaimed(c)[k] = staleRecords[k]
                 \/ /\ k = ActiveKey(c) /\ sessions[k] = Absent /\ Unclaimed(c)[k] = Absent
                    /\ Opened(c)[k] = IF staleRecords[k] # Absent THEN staleRecords[k] ELSE NoId
<1>1. ActiveKey(c) \in Keys BY Effective
<1>2. sessions \in [Keys -> Entry] /\ staleRecords \in [Keys -> Entry] BY DEF TypeOK
<1>3. NoId \in Entry /\ Absent \in Entry /\ NoId # Absent BY ManagerAssumption DEF Entry
<1> QED BY <1>1, <1>2, <1>3 DEF Opened, Unclaimed

\* saveNow writes the choices and, for every key, its record or its session.
LEMMA Saving ==
    ASSUME TypeOK', SaveNow
    PROVE  /\ file'.activeProjects = activeProjects'
           /\ file'.activeProviders = providerOverrides'
           /\ \A k \in Keys : file'.records[k] =
                 IF staleRecords'[k] # Absent THEN staleRecords'[k] ELSE sessions'[k]
BY DEF SaveNow, SnapshotOf

\* A file written by saveNow agrees with memory.
LEMMA SavedAgrees ==
    ASSUME TypeOK', SaveNow
    PROVE  FileAgrees'
<1>1. Absent \notin Ids BY ManagerAssumption
<1> QED BY Saving, <1>1 DEF FileAgrees, Present

----------------------------------------------------------------------------
(* Relations between a state and the next that most steps satisfy.         *)

\* No entry gets a conversation it had not.
Calm == \A k \in Keys :
    /\ sessions'[k] \in {sessions[k], staleRecords[k], NoId, Absent}
    /\ staleRecords'[k] \in {staleRecords[k], Absent}

\* A new entry is the active one of its chat, or comes with an override.
Grown ==
    /\ \A k \in Keys : Present(k)' =>
          \/ Present(k)
          \/ \E c \in Chats : k = ActiveKey(c)
          \/ providerOverrides'[<<k[1], k[2]>>] # "none"
    /\ \A c \in Chats, s \in Scopes :
          providerOverrides[<<c, s>>] # "none" => providerOverrides'[<<c, s>>] # "none"

\* Only an entry that is no longer there is forgotten.
Forgets == \A k \in Keys :
    \/ forgotten'[k] = forgotten[k]
    \/ /\ SaveNow
       /\ ~Present(k)'
       /\ forgotten'[k] \subseteq forgotten[k] \cup {sessions[k], staleRecords[k]}

\* Without a save nothing leaves memory, and a conversation only moves from a
\* record to its session.
Moved ==
    /\ UNCHANGED <<file, choices>>
    /\ \A k \in Keys :
          \/ sessions'[k] = sessions[k] /\ staleRecords'[k] = staleRecords[k]
          \/ /\ sessions[k] = Absent /\ staleRecords'[k] = Absent
             /\ sessions'[k] = IF staleRecords[k] # Absent THEN staleRecords[k] ELSE NoId
          \/ /\ sessions[k] # Absent /\ staleRecords'[k] = staleRecords[k]
             /\ sessions'[k] = NoId

\* BothSet survives: a chat without an override opens the provider it has.
LEMMA BothKept ==
    ASSUME TypeOK, BothSet, Grown
    PROVE  BothSet'
<1> SUFFICES ASSUME NEW c \in Chats, NEW s \in Scopes,
                    \A p \in Providers : Present(<<c, s, p>>)',
                    providerOverrides'[<<c, s>>] = "none"
             PROVE  FALSE
  BY DEF BothSet
<1>1. providerOverrides[<<c, s>>] = "none" BY DEF Grown
<1>2. \A p \in Providers : Present(<<c, s, p>>) \/ \E d \in Chats : <<c, s, p>> = ActiveKey(d)
  <2> TAKE p \in Providers
  <2>1. <<c, s, p>> \in Keys BY KeyParts
  <2> QED BY <2>1 DEF Grown
<1>3. PICK p \in Providers : ~Present(<<c, s, p>>) BY <1>1 DEF BothSet
<1>4. s = activeProjects[c] /\ p = EffectiveProvider(c)
  <2>1. PICK d \in Chats : <<c, s, p>> = ActiveKey(d) BY <1>2, <1>3
  <2> QED BY <2>1 DEF ActiveKey
<1>5. PICK q \in Providers : q # p BY DEF Providers
<1>6. Present(<<c, s, q>>)
  <2>1. SUFFICES ASSUME NEW d \in Chats, <<c, s, q>> = ActiveKey(d) PROVE FALSE BY <1>2
  <2> QED BY <2>1, <1>4, <1>5 DEF ActiveKey
<1>7. ProvidersIn(c, s) = {q} BY <1>3, <1>5, <1>6 DEF ProvidersIn, Present, Providers
<1>8. EffectiveProvider(c) = q BY <1>1, <1>4, <1>7, Effective
<1> QED BY <1>4, <1>5, <1>8

\* WorkChosen survives when only active sessions start to work and the choices
\* of chats that work stay.
LEMMA WorkKept ==
    ASSUME TypeOK, WorkChosen,
           \A k \in working' : k \in working \/ \E c \in Chats : k = ActiveKey(c),
           \A k \in working' : /\ activeProjects'[k[1]] = activeProjects[k[1]]
                               /\ providerOverrides'[<<k[1], k[2]>>] = providerOverrides[<<k[1], k[2]>>]
    PROVE  WorkChosen'
<1> SUFFICES ASSUME NEW k \in working'
             PROVE  /\ activeProjects[k[1]] = k[2]
                    /\ providerOverrides[<<k[1], k[2]>>] \in {k[3], "none"}
  BY DEF WorkChosen
<1>1. CASE k \in working BY <1>1 DEF WorkChosen
<1>2. CASE \E c \in Chats : k = ActiveKey(c)
  <2>1. PICK c \in Chats : k = ActiveKey(c) BY <1>2
  <2>2. k[1] = c /\ k[2] = activeProjects[c] /\ k[3] = EffectiveProvider(c)
    BY <2>1 DEF ActiveKey
  <2> QED BY <2>2, Effective
<1> QED BY <1>1, <1>2

\* No conversation crosses providers in a step that hands out none.
LEMMA ConversationsKept ==
    ASSUME TypeOK, TypeOK', NoCrossProvider, Calm, issuedBy' = issuedBy,
           SaveNow \/ file' = file
    PROVE  NoCrossProvider'
<1> SUFFICES ASSUME NEW k \in Keys, NEW id \in Conversations,
                    id \in {sessions'[k], staleRecords'[k], file'.records[k]}
             PROVE  issuedBy[id] = k[3]
  BY DEF NoCrossProvider
<1>1. id # NoId /\ id # Absent BY ManagerAssumption DEF Ids
<1>2. id \in {sessions'[k], staleRecords'[k], file.records[k]} BY Saving
<1>3. id \in {sessions[k], staleRecords[k], file.records[k]} BY <1>1, <1>2 DEF Calm
<1> QED BY <1>3 DEF NoCrossProvider

\* What was dropped stays dropped in a step that brings no conversation.
LEMMA ForgottenKept ==
    ASSUME TypeOK, TypeOK', ForgottenStays, Calm, Forgets, SaveNow \/ file' = file
    PROVE  ForgottenStays'
<1> SUFFICES ASSUME NEW k \in Keys, NEW id \in forgotten'[k],
                    id \in {sessions'[k], staleRecords'[k], file'.records[k]}
             PROVE  FALSE
  BY DEF ForgottenStays
<1>1. id # NoId /\ id # Absent
  <2>1. forgotten'[k] \subseteq Ids BY DEF TypeOK
  <2> QED BY <2>1, ManagerAssumption
<1>2. CASE forgotten'[k] = forgotten[k]
  <2>1. id \in {sessions'[k], staleRecords'[k], file.records[k]} BY Saving
  <2>2. id \in {sessions[k], staleRecords[k], file.records[k]} BY <1>1, <2>1 DEF Calm
  <2> QED BY <1>2, <2>2 DEF ForgottenStays
<1>3. CASE SaveNow /\ ~Present(k)'
  BY <1>1, <1>3, Saving DEF Present
<1> QED BY <1>2, <1>3 DEF Forgets

\* ... and was handed out.
LEMMA IssuedKept ==
    ASSUME TypeOK, TypeOK', NoCrossProvider, ForgottenIssued, Forgets, issuedBy' = issuedBy
    PROVE  ForgottenIssued'
<1> SUFFICES ASSUME NEW k \in Keys, NEW id \in forgotten'[k] \cap Conversations
             PROVE  issuedBy[id] # "none"
  BY DEF ForgottenIssued
<1>1. CASE id \in forgotten[k] BY <1>1 DEF ForgottenIssued
<1>2. CASE id \in {sessions[k], staleRecords[k]}
  <2>1. issuedBy[id] = k[3] BY <1>2 DEF NoCrossProvider
  <2> QED BY <2>1, KeyParts DEF Providers
<1> QED BY <1>1, <1>2 DEF Forgets

\* The file agrees with memory after a step that moves things in memory only.
LEMMA MovedAgrees ==
    ASSUME TypeOK, TypeOK', FileAgrees, Moved
    PROVE  FileAgrees'
<1>1. Absent \notin Ids /\ NoId \notin Ids /\ NoId # Absent BY ManagerAssumption
<1>2. file' = file /\ activeProjects' = activeProjects /\ providerOverrides' = providerOverrides
  BY DEF Moved, choices
<1>3. SUFFICES ASSUME NEW k \in Keys
      PROVE /\ file.records[k] # Absent => Present(k)'
            /\ sessions'[k] \in Ids /\ staleRecords'[k] = Absent =>
                  file.records[k] \in {sessions'[k], NoId, Absent}
            /\ sessions'[k] = Absent /\ staleRecords'[k] \in Ids =>
                  file.records[k] \in {staleRecords'[k], NoId, Absent}
  BY <1>2 DEF FileAgrees
<1> QED BY <1>1, <1>2 DEF FileAgrees, Moved, Present

\* The invariant survives every step that hands out, resumes and restores nothing.
LEMMA CalmStep ==
    ASSUME IInv, TypeOK', Calm, Grown, Forgets, WorkChosen', issuedBy' = issuedBy,
           SaveNow \/ Moved
    PROVE  IInv'
<1>1. SaveNow \/ file' = file BY DEF Moved
<1> QED BY <1>1, BothKept, ConversationsKept, ForgottenKept, IssuedKept, SavedAgrees, MovedAgrees DEF IInv

----------------------------------------------------------------------------
(* The steps.                                                              *)

InputsTyped == inputs \in 0..MaxInputs

\* getOrCreate as a step: it is Calm and opens the active key only.
LEMMA OpeningStep ==
    ASSUME TypeOK, NEW c \in Chats, GetOrCreate(c)
    PROVE  /\ sessions' \in [Keys -> Entry] /\ staleRecords' \in [Keys -> Entry]
           /\ \A k \in Keys : sessions[k] # Absent => sessions'[k] # Absent
           /\ sessions'[ActiveKey(c)] # Absent
           /\ Calm
           /\ \A k \in Keys : Present(k)' => Present(k) \/ k = ActiveKey(c)
           /\ UNCHANGED <<file, choices>> => Moved
BY Opening DEF GetOrCreate, Calm, Present, Moved

\* Messages, and the commands that only open the session.
LEMMA LookUpStep ==
    ASSUME IInv, InputsTyped', NEW c \in Chats, NEW p \in Providers,
           Message(c) \/ LookUp(c) \/ Cd(c) \/ SetDefaultProvider(c, p)
    PROVE  IInv'
<1> USE DEF IInv
<1>1. /\ GetOrCreate(c)
      /\ working' \in {working, working \cup {ActiveKey(c)}}
      /\ confirms' \in {confirms, [confirms EXCEPT ![c] = @ + 1]}
      /\ confirms' # confirms => confirms[c] < MaxConfirms
      /\ defaultProvider' \in {defaultProvider, p}
      /\ UNCHANGED <<choices, file, stopping, history>>
  BY DEF Message, LookUp, Cd, SetDefaultProvider, dialogs
<1>2. ActiveKey(c) \in Keys BY Effective
<1>3. TypeOK'
  <2>1. working' \subseteq {k \in Keys : sessions'[k] # Absent}
    BY <1>1, <1>2, OpeningStep DEF TypeOK
  <2>2. confirms' \in [Chats -> 0..MaxConfirms]
    BY <1>1, ManagerAssumption DEF TypeOK
  <2> QED BY <1>1, <2>1, <2>2, OpeningStep DEF TypeOK, InputsTyped, choices, history
<1>4. Calm /\ Moved BY <1>1, OpeningStep
<1>5. Grown BY <1>1, OpeningStep DEF Grown, choices
<1>6. Forgets /\ issuedBy' = issuedBy BY <1>1 DEF Forgets, history
<1>7. WorkChosen' BY <1>1, WorkKept DEF choices
<1> QED BY <1>3, <1>4, <1>5, <1>6, <1>7, CalmStep

\* /provider, /mode, /model, /effort and /project: nothing works in the chat, so
\* its choices are free to change.
LEMMA ChooseStep ==
    ASSUME IInv, InputsTyped', NEW c \in Chats,
           \/ \E p \in Providers : SwitchProvider(c, p)
           \/ \E changed \in BOOLEAN : Configure(c, changed)
           \/ \E s \in Projects : SwitchProject(c, s)
    PROVE  IInv'
<1> USE DEF IInv
<1>1. /\ Idle(c)
      /\ SaveNow
      /\ UNCHANGED <<working, defaultProvider, dialogs, history>>
  BY DEF SwitchProvider, SwitchGuard, Configure, SwitchProject
<1>2. /\ activeProjects' \in [Chats -> Scopes]
      /\ providerOverrides' \in [Chats \X Scopes -> Providers \cup {"none"}]
      /\ \A d \in Chats : d # c => activeProjects'[d] = activeProjects[d]
      /\ \A d \in Chats, s \in Scopes :
            /\ d # c => providerOverrides'[<<d, s>>] = providerOverrides[<<d, s>>]
            /\ providerOverrides[<<d, s>>] # "none" => providerOverrides'[<<d, s>>] # "none"
  <2>1. CASE \E p \in Providers : SwitchProvider(c, p)
    <3>1. PICK p \in Providers : SwitchProvider(c, p) BY <2>1
    <3>2. p # "none" /\ activeProjects[c] \in Scopes BY DEF Providers, TypeOK
    <3> QED BY <3>1, <3>2 DEF SwitchProvider, TypeOK
  <2>2. CASE \E changed \in BOOLEAN : Configure(c, changed)
    BY <2>2 DEF Configure, choices, TypeOK
  <2>3. CASE \E s \in Projects : SwitchProject(c, s)
    <3>1. PICK s \in Projects : SwitchProject(c, s) BY <2>3
    <3>2. s \in Scopes BY DEF Scopes
    <3>3. EffectiveProvider(c) \in Providers /\ EffectiveProvider(c) # "none"
      BY Effective DEF Providers
    <3> QED BY <3>1, <3>2, <3>3 DEF SwitchProject, TakenAlong, TypeOK
  <2> QED BY <2>1, <2>2, <2>3
<1>3. /\ sessions' \in [Keys -> Entry] /\ staleRecords' \in [Keys -> Entry]
      /\ \A k \in Keys : sessions[k] # Absent => sessions'[k] # Absent
      /\ Calm
      /\ \A k \in Keys : Present(k)' => Present(k) \/ k = ActiveKey(c)
  <2>1. CASE GetOrCreate(c) BY <2>1, OpeningStep
  <2>2. CASE \E changed \in BOOLEAN : Configure(c, changed)
    <3>1. ActiveKey(c) \in Keys BY Effective
    <3>2. /\ sessions' = Opened(c) \/ sessions' = [Opened(c) EXCEPT ![ActiveKey(c)] = NoId]
          /\ staleRecords' = Unclaimed(c)
      BY <2>2 DEF Configure
    <3>3. NoId \in Entry /\ NoId # Absent BY ManagerAssumption DEF Entry
    <3> QED BY <3>1, <3>2, <3>3, Opening DEF Calm, Present
  <2> QED BY <2>1, <2>2 DEF SwitchProvider, SwitchProject
<1>4. TypeOK'
  <2>1. file' \in File
    BY <1>1, <1>2, <1>3 DEF SaveNow, SnapshotOf, File
  <2> QED BY <1>1, <1>2, <1>3, <2>1 DEF TypeOK, InputsTyped, history, dialogs
<1>5. Grown BY <1>2, <1>3 DEF Grown
<1>6. Forgets /\ issuedBy' = issuedBy BY <1>1 DEF Forgets, history
<1>7. WorkChosen'
  <2>1. \A k \in working' : k \in working /\ k[1] \in Chats /\ k[2] \in Scopes /\ k[1] # c
    BY <1>1, IdleChat, KeyParts DEF TypeOK
  <2> QED BY <1>2, <2>1, WorkKept
<1> QED BY <1>1, <1>3, <1>4, <1>5, <1>6, <1>7, CalmStep

\* /new, /compact and a confirmed /cd: the active entry goes, with or without
\* having been opened before.
LEMMA DeleteStep ==
    ASSUME IInv, InputsTyped', NEW c \in Chats, StartOver(c) \/ NewStopped(c) \/ CdConfirmed(c)
    PROVE  IInv'
<1> USE DEF IInv
<1>1. PICK k0 \in Keys : k0 = ActiveKey(c) BY Effective
<1>2. PICK S, R : /\ Delete(S, R, k0)
                  /\ <<S, R>> \in {<<sessions, staleRecords>>, <<Opened(c), Unclaimed(c)>>}
  BY <1>1 DEF StartOver, NewStopped, CdConfirmed
<1>3. /\ S \in [Keys -> Entry] /\ R \in [Keys -> Entry]
      /\ \A k \in Keys : k # k0 => S[k] = sessions[k] /\ R[k] = staleRecords[k]
      /\ {S[k0], R[k0]} \subseteq {sessions[k0], staleRecords[k0], NoId, Absent}
  BY <1>1, <1>2, Opening DEF TypeOK
<1>4. NoId \notin Ids /\ Absent \notin Ids /\ Absent \in Entry BY ManagerAssumption DEF Entry
<1>5. /\ sessions' = [S EXCEPT ![k0] = Absent]
      /\ staleRecords' = [R EXCEPT ![k0] = Absent]
      /\ working' = working \ {k0}
      /\ forgotten' = [forgotten EXCEPT ![k0] = @ \cup Held(S, R, k0)]
  BY <1>2 DEF Delete, DropRecord
<1>6. /\ SaveNow
      /\ UNCHANGED <<choices, defaultProvider, issuedBy, restarts>>
      /\ confirms' \in {confirms, [confirms EXCEPT ![c] = @ - 1]}
      /\ confirms' # confirms => confirms[c] > 0
      /\ stopping' \subseteq stopping
  BY DEF StartOver, NewStopped, CdConfirmed, dialogs
<1>7. TypeOK'
  <2>1. sessions' \in [Keys -> Entry] /\ staleRecords' \in [Keys -> Entry]
    BY <1>3, <1>4, <1>5
  <2>2. working' \subseteq {k \in Keys : sessions'[k] # Absent}
    BY <1>3, <1>5 DEF TypeOK
  <2>3. forgotten' \in [Keys -> SUBSET Ids] BY <1>5 DEF TypeOK, Held
  <2>4. file' \in File BY <1>6, <2>1 DEF SaveNow, SnapshotOf, File, TypeOK, choices
  <2>5. confirms' \in [Chats -> 0..MaxConfirms] BY <1>6, ManagerAssumption DEF TypeOK
  <2> QED BY <1>6, <2>1, <2>2, <2>3, <2>4, <2>5 DEF TypeOK, InputsTyped, choices
<1>8. Calm BY <1>1, <1>3, <1>5 DEF Calm
<1>9. Grown BY <1>1, <1>3, <1>5, <1>6 DEF Grown, Present, choices
<1>10. Forgets
  <2>1. ~Present(k0)' BY <1>1, <1>3, <1>5 DEF Present
  <2>2. forgotten'[k0] \subseteq forgotten[k0] \cup {sessions[k0], staleRecords[k0]}
    BY <1>1, <1>3, <1>4, <1>5 DEF Held, TypeOK
  <2>3. \A k \in Keys : k # k0 => forgotten'[k] = forgotten[k] BY <1>5 DEF TypeOK
  <2> QED BY <1>6, <2>1, <2>2, <2>3 DEF Forgets
<1>11. WorkChosen' BY <1>5, <1>6, WorkKept DEF choices
<1> QED BY <1>6, <1>7, <1>8, <1>9, <1>10, <1>11, CalmStep

\* Steps that leave every table alone or only end work, dialogs or turns.
LEMMA QuietStep ==
    ASSUME IInv, InputsTyped',
           \/ \E c \in Chats : NewStops(c) \/ NewFails(c) \/ CdDismissed(c)
           \/ \E k \in Keys : ContextReset(k) \/ TurnsEnd(k)
           \/ SaveLater
           \/ UNCHANGED vars
    PROVE  IInv'
<1> USE DEF IInv
<1>1. /\ staleRecords' = staleRecords
      /\ sessions' = sessions \/ \E k \in working : sessions' = [sessions EXCEPT ![k] = NoId]
      /\ working' \subseteq working
      /\ UNCHANGED <<choices, defaultProvider, history>>
      /\ SaveNow \/ file' = file
  BY DEF NewStops, NewFails, CdDismissed, ContextReset, TurnsEnd, SaveLater, vars, tables, history
<1>2. /\ stopping' \subseteq Chats
      /\ confirms' \in [Chats -> 0..MaxConfirms]
  BY ManagerAssumption DEF NewStops, NewFails, CdDismissed, ContextReset, TurnsEnd, SaveLater,
     vars, dialogs, TypeOK
<1>3. NoId \in Entry /\ NoId # Absent BY ManagerAssumption DEF Entry
<1>4. /\ sessions' \in [Keys -> Entry]
      /\ \A k \in Keys : \/ sessions'[k] = sessions[k]
                         \/ sessions'[k] = NoId /\ sessions[k] # Absent
  BY <1>1, <1>3 DEF TypeOK
<1>5. TypeOK'
  <2>1. working' \subseteq {k \in Keys : sessions'[k] # Absent}
    BY <1>1, <1>3, <1>4 DEF TypeOK
  <2>2. file' \in File BY <1>1, <1>4 DEF SaveNow, SnapshotOf, File, TypeOK, choices
  <2> QED BY <1>1, <1>2, <1>4, <2>1, <2>2 DEF TypeOK, InputsTyped, choices, history
<1>6. Calm BY <1>1, <1>4 DEF Calm
<1>7. Grown BY <1>1, <1>3, <1>4 DEF Grown, Present, choices
<1>8. Forgets /\ issuedBy' = issuedBy BY <1>1 DEF Forgets, history
<1>9. WorkChosen' BY <1>1, WorkKept DEF choices
<1>10. SaveNow \/ Moved BY <1>1, <1>4 DEF Moved
<1> QED BY <1>5, <1>6, <1>7, <1>8, <1>9, <1>10, CalmStep

\* A new conversation is nobody's before.
LEMMA CaptureStep ==
    ASSUME IInv, InputsTyped', NEW k0 \in Keys, NEW id0 \in Conversations, CaptureId(k0, id0)
    PROVE  IInv'
<1> USE DEF IInv
<1>1. /\ k0 \in working /\ sessions[k0] = NoId /\ issuedBy[id0] = "none"
      /\ sessions' = [sessions EXCEPT ![k0] = id0]
      /\ issuedBy' = [issuedBy EXCEPT ![id0] = k0[3]]
      /\ UNCHANGED <<working, staleRecords, choices, defaultProvider, dialogs, forgotten, restarts>>
      /\ SaveNow
  BY DEF CaptureId
<1>2. k0[3] \in Providers /\ k0[3] # "none" BY KeyParts DEF Providers
<1>3. id0 \in Ids /\ id0 \in Entry /\ Absent \notin Ids /\ NoId \notin Ids BY ManagerAssumption DEF Entry, Ids
<1>4. TypeOK'
  <2>1. sessions' \in [Keys -> Entry] BY <1>1, <1>3 DEF TypeOK
  <2>2. working' \subseteq {k \in Keys : sessions'[k] # Absent} BY <1>1, <1>3 DEF TypeOK
  <2>3. file' \in File BY <1>1, <2>1 DEF SaveNow, SnapshotOf, File, TypeOK, choices
  <2> QED BY <1>1, <1>2, <2>1, <2>2, <2>3 DEF TypeOK, InputsTyped, choices, dialogs
<1>5. BothSet'
  <2>1. Grown BY <1>1 DEF Grown, Present, choices, TypeOK
  <2> QED BY <2>1, BothKept
<1>6. WorkChosen' BY <1>1, WorkKept DEF choices
<1>7. NoCrossProvider'
  <2> SUFFICES ASSUME NEW k \in Keys, NEW id \in Conversations,
                      id \in {sessions'[k], staleRecords'[k], file'.records[k]}
               PROVE  issuedBy'[id] = k[3]
    BY DEF NoCrossProvider
  <2>1. id \in {sessions'[k], staleRecords[k]} BY <1>1, <1>4, Saving
  <2>2. CASE id = id0
    <3>1. \A j \in Keys : id0 \notin {sessions[j], staleRecords[j]}
      BY <1>1, KeyParts DEF NoCrossProvider, Providers
    <3>2. k = k0 BY <1>1, <2>1, <2>2, <3>1 DEF TypeOK
    <3> QED BY <1>1, <2>2, <3>2 DEF TypeOK
  <2>3. CASE id # id0
    <3>1. id \in {sessions[k], staleRecords[k]} BY <1>1, <2>1, <2>3 DEF TypeOK
    <3> QED BY <1>1, <2>3, <3>1 DEF TypeOK, NoCrossProvider
  <2> QED BY <2>2, <2>3
<1>8. ForgottenStays'
  <2> SUFFICES ASSUME NEW k \in Keys, NEW id \in forgotten[k],
                      id \in {sessions'[k], staleRecords'[k], file'.records[k]}
               PROVE  FALSE
    BY <1>1 DEF ForgottenStays
  <2>1. id \in {sessions'[k], staleRecords[k]} BY <1>1, <1>4, Saving
  <2>2. id # id0 BY <1>1 DEF ForgottenIssued
  <2>3. id \in {sessions[k], staleRecords[k]} BY <1>1, <2>1, <2>2 DEF TypeOK
  <2> QED BY <2>3 DEF ForgottenStays
<1>9. ForgottenIssued' BY <1>1, <1>2 DEF ForgottenIssued, TypeOK
<1> QED BY <1>1, <1>4, <1>5, <1>6, <1>7, <1>8, <1>9, SavedAgrees

\* What /resume finds for a conversation is in memory under the provider named.
LEMMA FoundIsKept ==
    ASSUME TypeOK, NEW c \in Chats, NEW target \in Ids,
           NEW found \in Found(Opened(c), Unclaimed(c), target)
    PROVE  /\ found.provider \in Providers
           /\ found.id \in Ids \cup {NoId}
           /\ found.id \in Conversations =>
                 \E k \in Keys : /\ k[3] = found.provider
                                 /\ found.id \in {sessions[k], staleRecords[k]}
<1> DEFINE S == Opened(c)
           R == Unclaimed(c)
           Good(f) == /\ f.provider \in Providers
                      /\ f.id \in Ids \cup {NoId}
                      /\ f.id \in Conversations =>
                            \E k \in Keys : k[3] = f.provider /\ f.id \in {S[k], R[k]}
<1>1. /\ S \in [Keys -> Entry] /\ R \in [Keys -> Entry]
      /\ \A k \in Keys : {S[k], R[k]} \subseteq {sessions[k], staleRecords[k], NoId, Absent}
  BY Opening
<1>2. /\ NoId \notin Ids /\ Absent \notin Ids /\ Conversations \cap Chats = {}
      /\ Chats \subseteq Ids /\ Conversations \subseteq Ids
  BY ManagerAssumption DEF Ids
<1>3. \A T \in {S, R}, id \in Ids : \A f \in WithId(T, id) : Good(f)
  BY <1>1, KeyParts DEF WithId, Sought
<1>4. ASSUME NEW chat \in Chats PROVE \A f \in Listed(S, R, chat) : Good(f)
  <2>1. EffectiveProvider(chat) \in Providers BY Effective
  <2>2. CASE {k \in Keys : k[1] = chat /\ S[k] # Absent} = {}
    <3> SUFFICES ASSUME NEW f \in Listed(S, R, chat) PROVE Good(f) OBVIOUS
    <3>1. PICK k \in Keys : /\ R[k] # Absent
                            /\ f = Sought(k, k[3], IF R[k] = NoId THEN chat ELSE R[k])
      BY <2>2 DEF Listed
    <3> HIDE DEF S, R
    <3> QED BY <1>1, <1>2, <3>1, KeyParts DEF Sought, Entry
  <2>3. CASE {k \in Keys : k[1] = chat /\ S[k] # Absent} # {}
    <3> SUFFICES ASSUME NEW f \in Listed(S, R, chat) PROVE Good(f) OBVIOUS
    <3>1. PICK k \in Keys : /\ S[k] # Absent
                            /\ f = IF S[k] = NoId THEN Sought(k, EffectiveProvider(chat), chat)
                                                  ELSE Sought(k, k[3], S[k])
      BY <2>3 DEF Listed
    <3> HIDE DEF S, R
    <3> QED BY <1>1, <1>2, <2>1, <3>1, KeyParts DEF Sought, Entry
  <2> QED BY <2>2, <2>3
<1>5. ASSUME NEW chat \in Chats PROVE \A f \in ActiveOf(S, R, chat) : Good(f)
  <2>1. PICK k \in Keys : k = ActiveKey(chat) BY <1>5, Effective
  <2>2. ActiveOf(S, R, chat) =
           IF S[k] \notin {NoId, Absent} THEN {Sought(k, k[3], S[k])}
           ELSE IF S[k] = Absent /\ R[k] # Absent THEN {Sought(k, k[3], R[k])}
           ELSE Listed(S, R, chat)
    BY <2>1 DEF ActiveOf
  <2>3. S[k] \notin {NoId, Absent} => Good(Sought(k, k[3], S[k]))
    <3> HIDE DEF S, R
    <3> QED BY <1>1, <1>2, KeyParts DEF Sought, Entry
  <2>4. R[k] # Absent => Good(Sought(k, k[3], R[k]))
    <3> HIDE DEF S, R
    <3> QED BY <1>1, <1>2, KeyParts DEF Sought, Entry
  <2> HIDE DEF S, R, Good
  <2> QED BY <1>4, <2>2, <2>3, <2>4
<1>6. Good(found)
  <2> HIDE DEF S, R, Good
  <2>1. found \in Found(S, R, target) BY DEF S, R
  <2> QED BY <1>3, <1>5, <2>1 DEF Found
<1>7. \A k \in Keys : found.id \in Conversations /\ found.id \in {S[k], R[k]}
                         => found.id \in {sessions[k], staleRecords[k]}
  BY <1>1, <1>2
<1> QED BY <1>6, <1>7

\* A resumed conversation arrives under the provider it was recorded with.
LEMMA ResumeStep ==
    ASSUME IInv, InputsTyped', NEW c \in Chats, NEW target \in Ids, Resume(c, target)
    PROVE  IInv'
<1> USE DEF IInv
<1>1. PICK k0 \in Keys : k0 = ActiveKey(c) BY Effective
<1>2. PICK found \in Found(Opened(c), Unclaimed(c), target),
           to \in Keys :
        /\ to = <<c, activeProjects[c], found.provider>>
        /\ sessions' = [Opened(c) EXCEPT ![k0] = Absent]
        /\ staleRecords' = [Unclaimed(c) EXCEPT ![k0] = Absent, ![to] = found.id]
        /\ providerOverrides' = [providerOverrides EXCEPT ![<<c, activeProjects[c]>>] = found.provider]
        /\ forgotten' = [forgotten EXCEPT ![k0] = @ \cup Held(Opened(c), Unclaimed(c), k0),
                                          ![to] = @ \ {found.id}]
  <2>1. PICK found \in Found(Opened(c), Unclaimed(c), target) :
          LET to == <<c, activeProjects[c], found.provider>>
          IN  /\ sessions' = [Opened(c) EXCEPT ![k0] = Absent]
              /\ staleRecords' = [Unclaimed(c) EXCEPT ![k0] = Absent, ![to] = found.id]
              /\ providerOverrides' = [providerOverrides EXCEPT ![<<c, activeProjects[c]>>] = found.provider]
              /\ forgotten' = [forgotten EXCEPT ![k0] = @ \cup Held(Opened(c), Unclaimed(c), k0),
                                                ![to] = @ \ {found.id}]
    BY <1>1 DEF Resume, RecordProvider
  <2>2. <<c, activeProjects[c], found.provider>> \in Keys BY FoundIsKept, Effective, KeyParts
  <2> QED BY <2>1, <2>2
<1>3. /\ Idle(c) /\ SaveNow
      /\ UNCHANGED <<working, activeProjects, defaultProvider, dialogs, issuedBy, restarts>>
  BY DEF Resume
<1>4. /\ NoId \notin Ids /\ Absent \notin Ids /\ NoId # Absent
      /\ Absent \in Entry /\ NoId \in Entry /\ Ids \subseteq Entry
  BY ManagerAssumption DEF Entry
<1>5. /\ found.provider \in Providers /\ found.provider # "none"
      /\ found.id \in Entry /\ activeProjects[c] \in Scopes
      /\ to[1] = c /\ to[2] = activeProjects[c] /\ to[3] = found.provider
  BY <1>2, <1>4, FoundIsKept DEF Providers, TypeOK
<1>6. /\ sessions' \in [Keys -> Entry] /\ staleRecords' \in [Keys -> Entry]
      /\ sessions'[k0] = Absent
      /\ staleRecords'[to] = found.id
      /\ \A k \in Keys :
            /\ sessions'[k] \in {sessions[k], staleRecords[k], NoId, Absent}
            /\ k # k0 => sessions'[k] = sessions[k]
            /\ k # to => staleRecords'[k] \in {staleRecords[k], Absent}
            /\ k = k0 /\ k # to => staleRecords'[k] = Absent
            /\ k # k0 /\ k # to => staleRecords'[k] = staleRecords[k]
  BY <1>1, <1>2, <1>4, <1>5, Opening
<1>7. /\ forgotten' \in [Keys -> SUBSET Ids]
      /\ \A k \in Keys :
            /\ forgotten'[k] \subseteq forgotten[k] \cup {sessions[k], staleRecords[k]}
            /\ k # k0 => forgotten'[k] \subseteq forgotten[k]
      /\ found.id \notin forgotten'[to]
  <2>1. Held(Opened(c), Unclaimed(c), k0) \subseteq Ids \cap {sessions[k0], staleRecords[k0]}
    BY <1>1, <1>4, Opening DEF Held
  <2>2. forgotten \in [Keys -> SUBSET Ids] BY DEF TypeOK
  <2> QED BY <1>2, <2>1, <2>2
<1>8. /\ providerOverrides' \in [Chats \X Scopes -> Providers \cup {"none"}]
      /\ providerOverrides'[<<to[1], to[2]>>] # "none"
      /\ \A d \in Chats, s \in Scopes :
            /\ d # c => providerOverrides'[<<d, s>>] = providerOverrides[<<d, s>>]
            /\ providerOverrides[<<d, s>>] # "none" => providerOverrides'[<<d, s>>] # "none"
  BY <1>2, <1>5 DEF TypeOK
<1>9. \A k \in working : k \in Keys /\ k[1] \in Chats /\ k[2] \in Scopes /\ k[1] # c
  BY <1>3, IdleChat, KeyParts DEF TypeOK
<1>10. TypeOK'
  <2>1. working' \subseteq {k \in Keys : sessions'[k] # Absent}
    <3>1. k0[1] = c BY <1>1 DEF ActiveKey
    <3> QED BY <1>3, <1>6, <1>9, <3>1 DEF TypeOK
  <2>2. file' \in File BY <1>3, <1>6, <1>8 DEF SaveNow, SnapshotOf, File, TypeOK
  <2> QED BY <1>3, <1>6, <1>7, <1>8, <2>1, <2>2 DEF TypeOK, InputsTyped, dialogs
<1>11. BothSet'
  <2>1. Grown BY <1>1, <1>6, <1>8 DEF Grown, Present
  <2> QED BY <2>1, BothKept
<1>12. WorkChosen' BY <1>3, <1>8, <1>9, WorkKept
<1>13. NoCrossProvider'
  <2> SUFFICES ASSUME NEW k \in Keys, NEW id \in Conversations,
                      id \in {sessions'[k], staleRecords'[k], file'.records[k]}
               PROVE  issuedBy[id] = k[3]
    BY <1>3 DEF NoCrossProvider
  <2>1. id # NoId /\ id # Absent BY <1>4 DEF Ids
  <2>2. id \in {sessions'[k], staleRecords'[k]} BY <1>3, <1>10, Saving
  <2>3. CASE k = to /\ id = found.id
    BY <1>5, <2>3, FoundIsKept DEF NoCrossProvider
  <2>4. CASE ~(k = to /\ id = found.id)
    <3>1. id \in {sessions[k], staleRecords[k]} BY <1>6, <2>1, <2>2, <2>4
    <3> QED BY <3>1 DEF NoCrossProvider
  <2> QED BY <2>3, <2>4
<1>14. ForgottenStays'
  <2> SUFFICES ASSUME NEW k \in Keys, NEW id \in forgotten'[k],
                      id \in {sessions'[k], staleRecords'[k], file'.records[k]}
               PROVE  FALSE
    BY DEF ForgottenStays
  <2>1. id # NoId /\ id # Absent BY <1>4, <1>7
  <2>2. id \in {sessions'[k], staleRecords'[k]} BY <1>3, <1>10, Saving
  <2>3. k # k0 BY <1>6, <1>7, <2>1, <2>2
  <2>4. id \in {sessions[k], staleRecords[k]} BY <1>6, <1>7, <2>1, <2>2, <2>3
  <2> QED BY <1>7, <2>3, <2>4 DEF ForgottenStays
<1>15. ForgottenIssued'
  <2> SUFFICES ASSUME NEW k \in Keys, NEW id \in forgotten'[k] \cap Conversations
               PROVE  issuedBy[id] # "none"
    BY <1>3 DEF ForgottenIssued
  <2>1. CASE id \in forgotten[k] BY <2>1 DEF ForgottenIssued
  <2>2. CASE id \in {sessions[k], staleRecords[k]}
    BY <2>2, KeyParts DEF NoCrossProvider, Providers
  <2> QED BY <1>7, <2>1, <2>2
<1> QED BY <1>3, <1>10, <1>11, <1>12, <1>13, <1>14, <1>15, SavedAgrees

\* A restart brings back nothing but what the file has.
LEMMA RestartStep ==
    ASSUME IInv, InputsTyped', Restart
    PROVE  IInv'
<1> USE DEF IInv
<1>1. /\ sessions' = [k \in Keys |-> Absent] /\ working' = {}
      /\ staleRecords' \in [Keys -> Entry]
      /\ \A k \in Keys : staleRecords'[k] \in {file.records[k], Absent}
      /\ activeProjects' = activeProjects /\ providerOverrides' = providerOverrides
      /\ UNCHANGED <<issuedBy, forgotten>>
      /\ SaveNow
  <2>1. Absent \in Entry BY DEF Entry
  <2>2. file.records \in [Keys -> Entry] BY DEF TypeOK, File
  <2>3. PICK dropped : staleRecords' = [k \in Keys |-> IF k \in dropped THEN Absent ELSE file.records[k]]
    BY DEF Restart
  <2> QED BY <2>1, <2>2, <2>3 DEF Restart, RestoredProviders, FileAgrees
<1>2. TypeOK'
  <2>1. sessions' \in [Keys -> Entry] BY <1>1 DEF Entry
  <2>2. file' \in File BY <1>1, <2>1 DEF SaveNow, SnapshotOf, File, TypeOK
  <2>3. confirms' \in [Chats -> 0..MaxConfirms] /\ stopping' \subseteq Chats
        /\ restarts' \in 0..MaxRestarts /\ defaultProvider' \in Providers
    BY ManagerAssumption DEF Restart, TypeOK
  <2> QED BY <1>1, <2>1, <2>2, <2>3 DEF TypeOK, InputsTyped
<1>3. \A k \in Keys : Present(k)' => Present(k) BY <1>1 DEF FileAgrees, Present
<1>4. BothSet'
  <2>1. Grown BY <1>1, <1>3 DEF Grown
  <2> QED BY <2>1, BothKept
<1>5. WorkChosen' BY <1>1 DEF WorkChosen
<1>6. \A k \in Keys : {sessions'[k], staleRecords'[k], file'.records[k]} \subseteq {file.records[k], Absent}
  BY <1>1, <1>2, Saving
<1>7. Absent \notin Ids /\ Conversations \subseteq Ids BY ManagerAssumption DEF Ids
<1>8. NoCrossProvider'
  <2> SUFFICES ASSUME NEW k \in Keys, NEW id \in Conversations,
                      id \in {sessions'[k], staleRecords'[k], file'.records[k]}
               PROVE  issuedBy[id] = k[3]
    BY <1>1 DEF NoCrossProvider
  <2>1. id = file.records[k] BY <1>6, <1>7
  <2> QED BY <2>1 DEF NoCrossProvider
<1>9. ForgottenStays'
  <2> SUFFICES ASSUME NEW k \in Keys, NEW id \in forgotten[k],
                      id \in {sessions'[k], staleRecords'[k], file'.records[k]}
               PROVE  FALSE
    BY <1>1 DEF ForgottenStays
  <2>1. id \in Ids BY DEF TypeOK
  <2>2. id = file.records[k] BY <1>6, <1>7, <2>1
  <2> QED BY <2>2 DEF ForgottenStays
<1>10. ForgottenIssued' BY <1>1 DEF ForgottenIssued
<1> QED BY <1>1, <1>2, <1>4, <1>5, <1>8, <1>9, <1>10, SavedAgrees

----------------------------------------------------------------------------
(* The theorems.                                                           *)

LEMMA InitIInv == Init => IInv
<1> SUFFICES ASSUME Init PROVE IInv OBVIOUS
<1>1. Absent \in Entry /\ NoId \notin Ids /\ Absent \notin Ids /\ NoId # Absent
      /\ Default \in Scopes /\ Conversations \subseteq Ids
      /\ {MaxConfirms, MaxInputs, MaxRestarts} \subseteq Nat
  BY ManagerAssumption DEF Entry, Scopes, Ids
<1>2. TypeOK BY <1>1 DEF Init, TypeOK, File
<1>3. \A k \in Keys : sessions[k] = Absent /\ staleRecords[k] = Absent /\ file.records[k] = Absent
                      /\ forgotten[k] = {}
  BY DEF Init
<1>4. BothSet /\ WorkChosen BY <1>3, KeyParts DEF BothSet, WorkChosen, Present, Providers, Init
<1>5. NoCrossProvider /\ ForgottenStays /\ ForgottenIssued
  BY <1>1, <1>3 DEF NoCrossProvider, ForgottenStays, ForgottenIssued
<1>6. FileAgrees BY <1>1, <1>3 DEF FileAgrees, Init
<1> QED BY <1>2, <1>4, <1>5, <1>6 DEF IInv

LEMMA NextIInv == IInv /\ [Next]_vars => IInv'
<1> SUFFICES ASSUME IInv, [Next]_vars PROVE IInv' OBVIOUS
<1>1. InputsTyped'
  <2>1. inputs \in 0..MaxInputs /\ MaxInputs \in Nat BY ManagerAssumption DEF IInv, TypeOK
  <2>2. inputs' = inputs \/ (inputs < MaxInputs /\ inputs' = inputs + 1)
    BY DEF Next, vars
  <2> QED BY <2>1, <2>2 DEF InputsTyped
<1>2. CASE UserInput
  <2>1. PICK c \in Chats : Message(c) \/ LookUp(c) \/ Command(c) BY <1>2 DEF UserInput
  <2>2. "claude" \in Providers BY DEF Providers
  <2>3. CASE Message(c) \/ LookUp(c) \/ Cd(c) \/ \E p \in Providers : SetDefaultProvider(c, p)
    BY <1>1, <2>2, <2>3, LookUpStep
  <2>4. CASE \/ \E p \in Providers : SwitchProvider(c, p)
             \/ \E changed \in BOOLEAN : Configure(c, changed)
             \/ \E s \in Projects : SwitchProject(c, s)
    BY <1>1, <2>4, ChooseStep
  <2>5. CASE StartOver(c) BY <1>1, <2>5, DeleteStep
  <2>6. CASE NewStops(c) BY <1>1, <2>6, QuietStep
  <2>7. CASE \E target \in Ids : Resume(c, target) BY <1>1, <2>7, ResumeStep
  <2> QED BY <2>1, <2>3, <2>4, <2>5, <2>6, <2>7 DEF Command
<1>3. CASE Progress
  <2>1. CASE \E c \in Chats : NewStopped(c) \/ CdConfirmed(c) BY <1>1, <2>1, DeleteStep
  <2>2. CASE \/ \E c \in Chats : NewFails(c) \/ CdDismissed(c)
             \/ \E k \in Keys : ContextReset(k) \/ TurnsEnd(k)
             \/ SaveLater
    BY <1>1, <2>2, QuietStep
  <2>3. CASE \E k \in Keys, id \in Conversations : CaptureId(k, id) BY <1>1, <2>3, CaptureStep
  <2>4. CASE Restart BY <1>1, <2>4, RestartStep
  <2> QED BY <1>3, <2>1, <2>2, <2>3, <2>4 DEF Progress
<1>4. CASE UNCHANGED vars BY <1>1, <1>4, QuietStep
<1> QED BY <1>2, <1>3, <1>4 DEF Next

LEMMA AlwaysIInv == Spec => []IInv
BY InitIInv, NextIInv, PTL DEF Spec

\* Every variable keeps its type, whatever the users and the crashes do.
THEOREM ManagerTypeCorrect == Spec => []TypeOK
<1>1. IInv => TypeOK BY DEF IInv
<1> QED BY <1>1, AlwaysIInv, PTL

\* A conversation id stays with the provider that handed it out: over /resume,
\* /provider, /project and restarts.
THEOREM ManagerNoCrossProvider == Spec => []NoCrossProvider
<1>1. IInv => NoCrossProvider BY DEF IInv
<1> QED BY <1>1, AlwaysIInv, PTL

\* A session of the map that works is the one its chat reaches.
THEOREM ManagerWorkIsActive == Spec => []WorkIsActive
<1>1. IInv => WorkIsActive BY WorkActive DEF IInv
<1> QED BY <1>1, AlwaysIInv, PTL

\* A dropped conversation does not come back unless it is resumed by name.
THEOREM ManagerForgottenStays == Spec => []ForgottenStays
<1>1. IInv => ForgottenStays BY DEF IInv
<1> QED BY <1>1, AlwaysIInv, PTL

\* The two facts about the effective provider that are needed of the next state.
ChosenKeys == \A c \in Chats :
    /\ ActiveKey(c) \in Keys
    /\ ActiveKey(c)[1] = c
    /\ ActiveKey(c)[2] = activeProjects[c]
    /\ providerOverrides[<<c, activeProjects[c]>>] \in {ActiveKey(c)[3], "none"}

LEMMA KeysChosen == TypeOK => ChosenKeys
<1> SUFFICES ASSUME TypeOK, NEW c \in Chats
             PROVE  /\ ActiveKey(c) \in Keys
                    /\ ActiveKey(c)[1] = c
                    /\ ActiveKey(c)[2] = activeProjects[c]
                    /\ providerOverrides[<<c, activeProjects[c]>>] \in {ActiveKey(c)[3], "none"}
  BY DEF ChosenKeys
<1> QED BY Effective

\* A restart continues the conversation of a chat or none.
THEOREM ManagerRestartContinues == Spec => RestartContinues
<1> DEFINE Continues == restarts' # restarts =>
              \A c \in Chats :
                  LET k == ActiveKey(c)
                  IN  \/ Conversation(c) = NoId
                      \/ sessions[k] # Absent /\ staleRecords[k] # Absent
                      \/ Conversation(c)' \in {Conversation(c), NoId}
<1>1. IInv /\ IInv' /\ [Next]_vars => [Continues]_vars
  <2> SUFFICES ASSUME IInv, IInv', [Next]_vars, restarts' # restarts, NEW c \in Chats,
                      Conversation(c) # NoId,
                      ~(sessions[ActiveKey(c)] # Absent /\ staleRecords[ActiveKey(c)] # Absent)
               PROVE  Conversation(c)' \in {Conversation(c), NoId}
    OBVIOUS
  <2> USE DEF IInv
  <2>1. Restart
    BY DEF Next, UserInput, Progress, Command, vars, history, Message, LookUp, StartOver, NewStops,
       SwitchProvider, Configure, SwitchProject, Cd, Resume, SetDefaultProvider, NewStopped, NewFails,
       CdConfirmed, CdDismissed, CaptureId, ContextReset, TurnsEnd, SaveLater
  <2>2. /\ staleRecords' \in [Keys -> {Absent} \cup Entry]
        /\ \A k \in Keys : sessions'[k] = Absent /\ staleRecords'[k] \in {file.records[k], Absent}
        /\ activeProjects' = activeProjects /\ providerOverrides' = providerOverrides
    <3>1. PICK dropped : staleRecords' = [k \in Keys |-> IF k \in dropped THEN Absent ELSE file.records[k]]
      BY <2>1 DEF Restart
    <3>2. file.records \in [Keys -> Entry] BY DEF TypeOK, File
    <3> QED BY <2>1, <3>1, <3>2 DEF Restart, RestoredProviders, FileAgrees
  <2>3. PICK k0 \in Keys : k0 = ActiveKey(c) BY KeysChosen DEF ChosenKeys
  <2>4. PICK k1 \in Keys : /\ k1 = ActiveKey(c)'
                           /\ k1[1] = c /\ k1[2] = activeProjects[c]
                           /\ providerOverrides[<<c, activeProjects[c]>>] \in {k1[3], "none"}
    <3>1. ChosenKeys' BY KeysChosen, PTL
    <3> QED BY <2>2, <3>1 DEF ChosenKeys
  <2>5. Conversation(c)' = IF staleRecords'[k1] # Absent THEN staleRecords'[k1] ELSE NoId
    BY <2>2, <2>4 DEF Conversation
  <2>6. CASE staleRecords'[k1] # Absent
    <3>1. Present(k1) /\ staleRecords'[k1] = file.records[k1] BY <2>2, <2>6 DEF FileAgrees
    <3>2. k1 = k0 BY <2>3, <2>4, <3>1, OnlyOne
    <3>3. Absent \notin Ids /\ sessions[k0] \in Entry /\ staleRecords[k0] \in Entry
      BY ManagerAssumption DEF TypeOK
    <3>4. Conversation(c) = IF sessions[k0] # Absent THEN sessions[k0]
                            ELSE IF staleRecords[k0] # Absent THEN staleRecords[k0] ELSE NoId
      BY <2>3 DEF Conversation
    <3>5. file.records[k0] \in {Conversation(c), NoId, Absent}
      BY <2>3, <3>3, <3>4 DEF FileAgrees, Entry
    <3> QED BY <2>5, <2>6, <3>1, <3>2, <3>5
  <2> QED BY <2>5, <2>6
<1> QED BY <1>1, AlwaysIInv, PTL DEF Spec, RestartContinues
=============================================================================
