------------------------------ MODULE Gateway ------------------------------
(***************************************************************************)
(* The entrance of the bridge (feishu/gateway.ts): which messages of the   *)
(* shared group reach onMessage, and which clicks reach a broker.          *)
(*                                                                         *)
(* Three bots share one group, and Lark delivers a message again when its  *)
(* handler has not returned in time, which is the rule, because the        *)
(* handler returns when the turn is over.  Handlers of several deliveries  *)
(* therefore run at the same time; each is suspended while the identity of *)
(* the bot is looked up, an image is downloaded, a reply is sent or        *)
(* onMessage runs, and what lies between two awaits is one step.           *)
(*                                                                         *)
(* A delivery that dedup.check lets through gets the next position of the  *)
(* history `log'; the ring of PersistentDedup is a set of positions, their *)
(* order being the order of insertion.                                     *)
(***************************************************************************)
EXTENDS Integers, Sequences, FiniteSets

CONSTANTS
    Messages,       \* message ids
    Mail,           \* the contents a message may have
    Handlers,       \* invocations of handleReceiveV1
    RequireMention, \* access.require_mention
    Rejects,        \* access.unauthorized_behavior is "reject"
    Capacity,       \* PERSISTENT_DEDUP_CAPACITY
    Ttl,            \* PERSISTENT_DEDUP_TTL_MS, in ticks
    MaxLookups,     \* bound on calls of getBotIdentity
    MaxPassages,    \* bound on deliveries that pass the dedup
    MaxTime         \* bound on the clock

Bodies == {"stop", "stop_more", "bang", "bang_empty", "known", "known_bad", "unknown", "plain"}

\* p2p: the chat type is "p2p"; named: whom the mentions of the message name, by open_id
\* (own, other) or with our display name only (name); images: whether it has images.
Letter == [sender: {"user", "app", "unset"}, allowed: BOOLEAN, listed: BOOLEAN, p2p: BOOLEAN,
           named: SUBSET {"own", "other", "name"}, type: {"text", "image", "post", "file"},
           body: Bodies \cup {"empty", "malformed"}, images: BOOLEAN]

ASSUME GatewayAssumption ==
    /\ Mail \subseteq Letter
    /\ {RequireMention, Rejects} \subseteq BOOLEAN
    /\ {Capacity, Ttl} \subseteq Nat \ {0}
    /\ {MaxLookups, MaxPassages, MaxTime} \subseteq Nat

VARIABLES
    socket,     \* start() waits for the identity, then opens the socket
    identity,   \* botIdentity
    lookup,     \* botIdentityPromise
    lookups,    \* number of calls of getBotIdentity
    asking,     \* Lark: calls of getBotIdentity that are not answered
    now,
    log,        \* history: deliveries that passed the dedup, [id, at]
    seen,       \* PersistentDedup.entries
    letter,     \* Lark: what each message says, once it was delivered
    task,       \* the invocations of handleReceiveV1
    handled,    \* history: how often onMessage was called for a delivery that passed
    route,      \* history: where parseInput sent a message
    told,       \* history: messages whose sender was told to be unauthorized
    click       \* history: the latest click that reached a broker

gatewayVars == <<socket, identity, lookup, lookups, asking, now, log, seen, letter, task,
                 handled, route, told, click>>

Unknown == [openId |-> FALSE, name |-> FALSE, known |-> FALSE]
\* What the bot info may carry.
Identity == [openId: BOOLEAN, name: BOOLEAN, known: {TRUE}]
Passages == 1..MaxPassages
NoLetter == [type |-> "none"]
Idle == [at |-> "idle"]
Routes == {"none", "stop", "interrupt_and_run", "command", "unknown_command", "run"}
Brokers == {"permission", "question", "cd_confirm"}
NoClick == [chat |-> "none", allowed |-> FALSE, to |-> "none", card |-> FALSE]

GatewayTypeOK ==
    /\ socket \in {"closed", "waiting", "open"}
    /\ identity \in Identity \cup {Unknown}
    /\ lookup \in {"none", "pending", "done"}
    /\ lookups \in 0..MaxLookups /\ asking \in Nat
    /\ now \in 0..MaxTime
    /\ log \in Seq([id: Messages, at: 0..MaxTime]) /\ Len(log) <= MaxPassages
    /\ seen \subseteq DOMAIN log /\ told \subseteq Messages
    /\ letter \in [Messages -> Mail \cup {NoLetter}]
    /\ task \in [Handlers -> {Idle} \cup
                   [at: {"identity", "reply", "images", "handling"}, nth: Passages,
                    text: Bodies \cup {"empty", "malformed"}]]
    /\ handled \in [Passages -> Nat]
    /\ route \in [Messages -> Routes]
    /\ click \in [chat: {"none", "listed", "unlisted", "missing"}, allowed: BOOLEAN,
                  to: Brokers \cup {"none"}, card: BOOLEAN]

GatewayInit ==
    /\ socket = "closed"
    /\ identity = Unknown /\ lookup = "none" /\ lookups = 0 /\ asking = 0
    /\ now = 0 /\ log = <<>>
    /\ seen = {} /\ told = {}
    /\ letter = [m \in Messages |-> NoLetter]
    /\ task = [h \in Handlers |-> Idle]
    /\ handled = [n \in Passages |-> 0]
    /\ route = [m \in Messages |-> "none"]
    /\ click = NoClick

\* The message of an invocation.
Of(t) == log[t.nth].id

-----------------------------------------------------------------------------
(* The ring. *)

TimePasses ==
    /\ now < MaxTime /\ now' = now + 1
    /\ UNCHANGED <<socket, identity, lookup, lookups, asking, log, seen, letter, task, handled,
                   route, told, click>>

Prune(R) == {n \in R : log[n].at > now - Ttl}
Evict(R) == {n \in R : Cardinality({k \in R : k > n}) < Capacity}
Hits(m) == {n \in Prune(seen) : log[n].id = m}

-----------------------------------------------------------------------------
(* What a message says. *)

\* stripMentions removes every mention of a text; parsePost only those of a post that are
\* known to be ours, and any other leaves "@..." in front of the rest; an image has a fixed
\* text.
Heard(l, id) ==
    CASE l.type = "image" -> "plain"
      [] l.type = "post" /\ l.named \ (IF id.openId THEN {"own"} ELSE {}) # {} -> "plain"
      [] OTHER -> l.body

\* parseInput.
Route(text) ==
    CASE text = "stop" -> "stop"
      [] text = "bang" -> "interrupt_and_run"
      [] text = "known" -> "command"
      [] text \in {"known_bad", "unknown"} -> "unknown_command"
      [] OTHER -> "run"

\* translateReceiveEvent: unsupported, unparseable and empty messages are dropped; one with
\* images waits for them.
Understood(l, id) ==
    /\ l.type # "file" /\ l.body # "malformed"
    /\ l.type = "image" => l.images
    /\ l.type = "post" => l.images \/ Heard(l, id) # "empty"

Translated(n, l, id) ==
    IF Understood(l, id)
    THEN [at |-> IF l.type # "text" /\ l.images THEN "images" ELSE "handling",
          nth |-> n, text |-> Heard(l, id)]
    ELSE Idle

-----------------------------------------------------------------------------
(* The checks of handleReceiveV1, in their order. *)

\* sender_type, then the chat allowlist; a missing sender type counts as a human.
Dropped(l) == l.sender = "app" \/ ~l.listed

\* Whose messages need a mention; the display name counts only for a bot that knows no
\* open_id of its own.
NeedsIdentity(l) == RequireMention /\ ~l.p2p
AddressedAs(l, id) ==
    \/ "own" \in l.named /\ id.openId
    \/ ~id.openId /\ id.name /\ l.named \cap {"own", "name"} # {}

IsAddressedToUs_fails_open(l, id) ==    \* mutant: an unknown identity lets the message through
    NeedsIdentity(l) /\ id.known => AddressedAs(l, id)

IsAddressedToUs(l, id) == NeedsIdentity(l) => id.known /\ AddressedAs(l, id)

\* Where the handler of a delivery goes, given the identity as it is known to it.
Admitted(n, l, id) ==
    CASE IsAddressedToUs(l, id) /\ l.allowed -> Translated(n, l, id)
      [] IsAddressedToUs(l, id) /\ ~l.allowed /\ Rejects ->
           [at |-> "reply", nth |-> n, text |-> "empty"]
      [] OTHER -> Idle

\* These invocations call onMessage now.
Enter(going) ==
    /\ handled' = [n \in Passages |->
                     handled[n] + Cardinality({h \in going : task'[h].nth = n})]
    /\ route' = [m \in Messages |->
                   IF \E h \in going : Of(task[h])' = m
                   THEN Route(task'[CHOOSE h \in going : Of(task[h])' = m].text) ELSE route[m]]

-----------------------------------------------------------------------------
(* ensureBotIdentity: one call is shared by all who wait, and a failed one is forgotten. *)

AskIdentity ==
    \/ lookup # "none" /\ UNCHANGED <<lookup, lookups, asking>>
    \/ /\ lookup = "none" /\ lookup' = "pending"
       /\ lookups < MaxLookups /\ lookups' = lookups + 1
       /\ asking' = asking + 1

\* Everybody who awaits the promise goes on in the turn of the event loop that settles it.
Resume(id) ==
    /\ task' = [h \in Handlers |->
                  IF task[h].at = "identity" THEN Admitted(task[h].nth, letter[Of(task[h])], id)
                  ELSE task[h]]
    /\ Enter({h \in Handlers : task[h].at = "identity" /\ task'[h].at = "handling"})
    /\ socket' = IF socket = "waiting" THEN "open" ELSE socket
    /\ asking' = asking - 1

Start ==
    /\ socket = "closed" /\ socket' = "waiting"
    /\ AskIdentity
    /\ UNCHANGED <<identity, now, log, seen, letter, task, handled, route, told, click>>

IdentityArrives ==
    /\ asking > 0
    /\ UNCHANGED <<lookups, now, log, seen, letter, told, click>>
    /\ identity' \in Identity
    /\ lookup' = "done"
    /\ Resume(identity')

\* The call is refused or times out.
IdentityFails ==
    /\ asking > 0
    /\ UNCHANGED <<identity, lookups, now, log, seen, letter, told, click>>
    /\ lookup' = "none"
    /\ Resume(Unknown)

-----------------------------------------------------------------------------
(* handleReceiveV1. *)

Delivered(h, m) ==
    /\ socket = "open" /\ task[h] = Idle
    /\ \/ letter[m] = NoLetter /\ \E l \in Mail : letter' = [letter EXCEPT ![m] = l]
       \/ letter[m] # NoLetter /\ UNCHANGED letter

\* dedup.check finds the id; a repeat does not refresh its time.
Duplicate(h, m) ==
    /\ Delivered(h, m) /\ Hits(m) # {}
    /\ seen' = Prune(seen)
    /\ UNCHANGED <<socket, identity, lookup, lookups, asking, now, log, task, handled, route,
                   told, click>>

\* The gates before the first await.
Gates(h, m, n) ==
    \/ /\ Dropped(letter'[m])
       /\ UNCHANGED <<task, lookup, lookups, asking>>
    \/ /\ ~Dropped(letter'[m]) /\ NeedsIdentity(letter'[m]) /\ ~identity.known
       /\ task' = [task EXCEPT ![h] = [at |-> "identity", nth |-> n, text |-> "empty"]]
       /\ AskIdentity
    \/ /\ ~Dropped(letter'[m]) /\ (NeedsIdentity(letter'[m]) => identity.known)
       /\ task' = [task EXCEPT ![h] = Admitted(n, letter'[m], identity)]
       /\ UNCHANGED <<lookup, lookups, asking>>

\* dedup.check lets the id through and remembers it at once, whatever becomes of the message.
Passes(m) ==
    /\ Hits(m) = {}
    /\ Len(log) < MaxPassages
    /\ log' = Append(log, [id |-> m, at |-> now])

Receive_remembers_late(h, m) ==    \* mutant: the id is remembered once the message is let in
    /\ Delivered(h, m) /\ Passes(m)
    /\ Gates(h, m, Len(log'))
    /\ seen' = IF task'[h].at = "handling" THEN Evict(Prune(seen) \cup {Len(log')})
               ELSE Prune(seen)
    /\ Enter({k \in {h} : task'[k].at = "handling"})
    /\ UNCHANGED <<socket, identity, now, told, click>>

Receive(h, m) ==
    /\ Delivered(h, m) /\ Passes(m)
    /\ seen' = Evict(Prune(seen) \cup {Len(log')})
    /\ Gates(h, m, Len(log'))
    /\ Enter({k \in {h} : task'[k].at = "handling"})
    /\ UNCHANGED <<socket, identity, now, told, click>>

Resting == UNCHANGED <<socket, identity, lookup, lookups, asking, now, log, seen, letter, click>>

\* replyText of the reject text, which may fail.
Reject(h) ==
    /\ task[h].at = "reply"
    /\ told' = told \cup {Of(task[h])}
    /\ task' = [task EXCEPT ![h] = Idle]
    /\ UNCHANGED <<handled, route>> /\ Resting

\* downloadImage for all images of the message; one that fails drops the message.
Images(h) ==
    /\ task[h].at = "images"
    /\ UNCHANGED told /\ Resting
    /\ \/ task' = [task EXCEPT ![h].at = "handling"] /\ Enter({h})
       \/ task' = [task EXCEPT ![h] = Idle] /\ UNCHANGED <<handled, route>>

\* onMessage has returned, or has thrown, which is caught.
Return(h) ==
    /\ task[h].at = "handling"
    /\ task' = [task EXCEPT ![h] = Idle]
    /\ UNCHANGED <<handled, route, told>> /\ Resting

-----------------------------------------------------------------------------
(* handleCardAction and onCardAction: kind and completeness are read off the value of the *)
(* button; a broker that answers forbidden, not_found or without a card leaves the card.  *)

ClickCard(chat, allowed, kind, complete, answer) ==
    /\ socket = "open"
    /\ click' = IF chat = "listed" /\ allowed /\ kind \in Brokers /\ complete
                THEN [chat |-> chat, allowed |-> allowed, to |-> kind, card |-> answer = "card"]
                ELSE click
    /\ UNCHANGED <<socket, identity, lookup, lookups, asking, now, log, seen, letter, task,
                   handled, route, told>>

GatewayNext ==
    \/ Start \/ IdentityArrives \/ IdentityFails \/ TimePasses
    \/ \E h \in Handlers, m \in Messages : Duplicate(h, m) \/ Receive(h, m)
    \/ \E h \in Handlers : Reject(h) \/ Images(h) \/ Return(h)
    \/ \E chat \in {"listed", "unlisted", "missing"}, kind \in Brokers \cup {"other"},
          allowed, complete \in BOOLEAN, answer \in {"card", "none"} :
            ClickCard(chat, allowed, kind, complete, answer)

GatewaySpec == GatewayInit /\ [][GatewayNext]_gatewayVars

-----------------------------------------------------------------------------
\* Lark may deliver a message as often as it likes: within an hour it passes the dedup once,
\* unless as many others as the ring holds have passed since; and each passage calls
\* onMessage at most once, whatever its handler is waiting for meanwhile (dedup.check, before
\* the first await).
HandledOnce ==
    /\ \A n \in Passages : handled[n] <= 1
    /\ \A i, j \in DOMAIN log : i < j /\ log[i].id = log[j].id =>
         log[j].at - log[i].at >= Ttl \/ j - i > Capacity

Ours(l) == RequireMention => l.p2p \/ l.named \cap {"own", "name"} # {}

\* Whoever is handled, or told to be unauthorized, wrote in a listed chat and to this bot: a
\* message for another bot of the group draws neither out of this one, not even while the
\* identity of this one is unknown.  A broker hears of clicks in listed chats by allowed
\* users only.
OnlyOursIsAnswered ==
    /\ \A n \in DOMAIN log :
        LET l == letter[log[n].id] IN
        handled[n] > 0 => l.sender # "app" /\ l.listed /\ Ours(l) /\ l.allowed
    /\ \A m \in told :
        LET l == letter[m] IN
        l.sender # "app" /\ l.listed /\ Ours(l) /\ ~l.allowed
    /\ click.to # "none" => click.chat = "listed" /\ click.allowed

\* Lark is asked for the identity by one call at a time, and not again once it is known
\* (ensureBotIdentity).
IdentityAskedOnce == asking <= 1 /\ (identity.known => asking = 0)
=============================================================================
