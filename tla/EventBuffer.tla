---------------------------- MODULE EventBuffer ----------------------------
(***************************************************************************)
(* lib/event-buffer.js: while it buffers, the events of the library are    *)
(* consolidated per chat, contact, message and group, and a flush hands    *)
(* the application what is left of them in one map.  An object is the list *)
(* of the writes that made it, newest last: Object.assign(t, s) is t \o s, *)
(* and <<>> is an object that is not there.  A write is the number of the  *)
(* event that made it.  Timestamps, counts and texts are left out.         *)
(***************************************************************************)
EXTENDS Naturals, Sequences, FiniteSets

CONSTANTS Chats, Messages, Contacts, Groups,   \* the things events are about
          Kinds,         \* the events that occur
          CacheLimit,    \* HISTORY_CACHE_LIMIT: 10000 in the code
          MaxEvents,     \* bound: events emitted
          MaxCalls       \* bound: calls of buffer()

\* bufState has a map for each.
ASSUME ThingsApart ==
    /\ Chats \cap (Messages \cup Contacts \cup Groups) = {}
    /\ Messages \cap (Contacts \cup Groups) = {}
    /\ Contacts \cap Groups = {}

Things == Chats \cup Messages \cup Contacts \cup Groups

VARIABLES buf,         \* bufState: what is consolidated so far
          cache,       \* historyCache: what history sync has brought
          buffering, depth,
          safety,      \* safetyTimer is armed
          tails,       \* the 100 ms timers that run: "flush" and "if one"
          running,     \* buffered functions that have not returned
          called,      \* calls of buffer() so far
          log,         \* the events emitted so far
          waited,      \* conditional updates that had to wait for their chat
          refused,     \* conditional updates refused by the chat they are for
          view,        \* the objects of an application that applies events
          direct       \* the same had no event ever been buffered

control == <<buffering, depth, safety, tails, running, called>>
app == <<log, waited, refused, direct>>
vars == <<control, app, buf, cache, view>>

Nothing == [x \in Things |-> <<>>]
Writes(o) == {o[i] : i \in DOMAIN o}

\* freshBufferState: historySets; the upserts, updates and deletes of chats,
\* contacts, messages and groups; reactions and receipts that wait for their
\* message; which chat updates have a conditional, and what it would say.
FreshState ==
    [hist |-> Nothing, ups |-> Nothing, upd |-> Nothing, dels |-> {},
     attached |-> Nothing, cond |-> {}, valid |-> [c \in Chats |-> TRUE]]

Tails == {"flush", "if one"}

Init ==
    /\ buf = FreshState
    /\ cache = {}
    /\ buffering = FALSE
    /\ depth = 0
    /\ safety = FALSE
    /\ tails = [t \in Tails |-> 0]
    /\ running = 0
    /\ called = 0
    /\ log = <<>>
    /\ waited = {}
    /\ refused = {}
    /\ view = Nothing
    /\ direct = Nothing
-----------------------------------------------------------------------------
\* buffer(): the first call arms the safety timer.
Buffer ==
    /\ called < MaxCalls
    /\ called' = called + 1
    /\ buffering' = TRUE
    /\ depth' = depth + 1
    /\ safety' = TRUE
    /\ UNCHANGED <<app, buf, cache, view>>

\* An update, a reaction or a receipt changes a message only if it is there;
\* of a chat, a contact or a group it may be the first that is heard.
Updated(x, o, writes) == IF x \in Messages /\ o = <<>> THEN <<>> ELSE o \o writes

\* Mutant: the waiting updates are handed over with the others.
Applied_Unheld(x) ==
    Updated(x, IF x \in buf.dels THEN <<>>
               ELSE Updated(x, view[x] \o buf.hist[x] \o buf.ups[x], buf.upd[x]),
            buf.attached[x])

\* What the application has of x after a flush: collectConsolidated hands
\* over history, upserts, updates, deletes, and reactions and receipts, in
\* that order.  Upserts replace a message; conditional updates are held back.
Applied(x) ==
    LET before == view[x] \o buf.hist[x]
        upserted == IF x \in Messages /\ buf.ups[x] # <<>> THEN buf.ups[x]
                    ELSE before \o buf.ups[x]
        updated == IF x \in buf.cond THEN upserted ELSE Updated(x, upserted, buf.upd[x])
    IN Updated(x, IF x \in buf.dels THEN <<>> ELSE updated, buf.attached[x])

\* Mutant: the next state is a fresh one.
Held_Dropped == FreshState

\* The conditional updates wait on in the next state.
Held == [FreshState EXCEPT !.upd = [x \in Things |-> IF x \in buf.cond THEN buf.upd[x] ELSE <<>>],
                           !.cond = buf.cond, !.valid = buf.valid]

\* flush() while buffering.
Flush ==
    /\ buffering' = FALSE
    /\ depth' = 0
    /\ safety' = FALSE
    /\ cache' = IF Cardinality(cache) > CacheLimit THEN {} ELSE cache
    /\ view' = [x \in Things |-> Applied(x)]
    /\ buf' = Held
    /\ UNCHANGED app

\* The socket buffers on the next tick after it is made, for a known account.
StartBuffer ==
    /\ Buffer
    /\ UNCHANGED <<tails, running>>

\* The server says that the offline messages are through.
OfflineDone ==
    /\ buffering
    /\ Flush
    /\ UNCHANGED <<tails, running, called>>

\* createBufferedFunction: buffer(), then the work, which may emit.
Enter ==
    /\ Buffer
    /\ running' = running + 1
    /\ UNCHANGED tails

\* The work returns or throws; a timer is set where it was the only one.
Leave(returns) ==
    /\ running > 0
    /\ running' = running - 1
    /\ depth' = IF depth = 0 THEN 0 ELSE depth - 1
    /\ tails' = [tails EXCEPT !["if one"] = IF returns /\ depth = 1 THEN @ + 1 ELSE @,
                              !["flush"] = IF depth <= 1 THEN @ + 1 ELSE @]
    /\ UNCHANGED <<buffering, safety, called, app, buf, cache, view>>

\* A 100 ms timer fires.
TailTimer(t) ==
    /\ tails[t] > 0
    /\ tails' = [tails EXCEPT ![t] = @ - 1]
    /\ IF buffering /\ (t = "if one" => depth = 1)
       THEN Flush
       ELSE UNCHANGED <<buffering, depth, safety, app, buf, cache, view>>
    /\ UNCHANGED <<running, called>>

\* Mutant: the timer minds the depth as the 100 ms timers do.
SafetyTimer_IfOne ==
    /\ safety
    /\ buffering /\ depth <= 1
    /\ Flush
    /\ UNCHANGED <<tails, running, called>>

\* The 30 s timer fires.
SafetyTimer ==
    /\ safety
    /\ buffering
    /\ Flush
    /\ UNCHANGED <<tails, running, called>>
-----------------------------------------------------------------------------
\* The write of the event that is being emitted.
w == Len(log) + 1
W == <<w>>

Known(c) == buf.hist[c] # <<>> \/ buf.ups[c] # <<>>

\* historySets.x || upserts.x || updates.x: the object an update is merged in.
MergedFirst(x) ==
    IF buf.hist[x] # <<>> THEN [buf EXCEPT !.hist[x] = @ \o W]
    ELSE IF buf.ups[x] # <<>> THEN [buf EXCEPT !.ups[x] = @ \o W]
    ELSE [buf EXCEPT !.upd[x] = @ \o W]

\* upserts.x || historySets.x: the object an upsert is merged in.
UpsertedIn(x, object) ==
    IF buf.ups[x] = <<>> /\ buf.hist[x] # <<>>
    THEN [buf EXCEPT !.hist[x] = object] ELSE [buf EXCEPT !.ups[x] = object]

\* Mutant: the upsert is merged with history while it replaces an upsert.
UpsertBase_HistoryFirst(x) == IF buf.hist[x] = <<>> THEN buf.ups[x] ELSE buf.hist[x]

UpsertBase(x) == IF buf.ups[x] = <<>> THEN buf.hist[x] ELSE buf.ups[x]

\* absorbPendingChatUpdate: a pending update goes under the chat's own
\* fields, or away if its conditional refuses the chat.
Refuses(c) == c \in buf.cond /\ ~buf.valid[c]
\* Mutants: the pending update goes over the chat; it is not asked.
Absorbed_Over(c, object) == IF Refuses(c) THEN object ELSE object \o buf.upd[c]
Absorbed_Unasked(c, object) == buf.upd[c] \o object

Absorbed(c, object) == IF Refuses(c) THEN object ELSE buf.upd[c] \o object
RefusedBy(c) == IF Refuses(c) THEN Writes(buf.upd[c]) ELSE {}
Unpend(b, c) == [b EXCEPT !.upd[c] = <<>>, !.cond = @ \ {c}]

\* An event reaches the buffer, which takes it in as `after', or at once the
\* application, where it makes `shown' of an object.
Emit(k, x, after, shown(_)) ==
    /\ k \in Kinds
    /\ Len(log) < MaxEvents
    /\ log' = Append(log, [kind |-> k, on |-> x])
    /\ direct' = [direct EXCEPT ![x] = shown(@)]
    /\ IF buffering
       THEN buf' = after /\ UNCHANGED view
       ELSE view' = [view EXCEPT ![x] = shown(@)] /\ UNCHANGED buf
    /\ UNCHANGED control

Assigns(o) == o \o W
Replaces(o) == W
Removes(o) == <<>>

\* messaging-history.set with one chat, message or contact: taken in unless
\* history has brought it before; a contact that has a name always is.
HistorySet(x, named) ==
    LET new == buf.hist[x] = <<>> /\ (x \notin cache \/ named)
    IN /\ named => x \in Contacts
       /\ Emit("messaging-history.set", x,
               IF buf.hist[x] # <<>> /\ x \in Contacts THEN [buf EXCEPT !.hist[x] = @ \o W]
               ELSE IF ~new THEN buf
               ELSE IF x \in Chats THEN Unpend([buf EXCEPT !.hist[x] = Absorbed(x, W)], x)
               ELSE [buf EXCEPT !.hist[x] = W],
               Assigns)
       /\ cache' = IF buffering /\ new THEN cache \cup {x} ELSE cache
       /\ refused' = IF buffering /\ new THEN refused \cup RefusedBy(x) ELSE refused
       /\ UNCHANGED waited

ChatsUpsert(c) ==
    /\ Emit("chats.upsert", c,
            [Unpend(UpsertedIn(c, Absorbed(c, UpsertBase(c) \o W)), c) EXCEPT !.dels = @ \ {c}],
            Assigns)
    /\ refused' = IF buffering THEN refused \cup RefusedBy(c) ELSE refused
    /\ UNCHANGED <<cache, waited>>

\* An update of the live session has no conditional.
ChatsUpdate(c) ==
    /\ Emit("chats.update", c, [MergedFirst(c) EXCEPT !.dels = @ \ {c}], Assigns)
    /\ UNCHANGED <<cache, waited, refused>>

\* One of the initial app-state sync has: while the chat is not in the buffer
\* it waits, in place of whatever update waited before it; it is dropped
\* where the chat has a newer message.
ConditionalUpdate(c, ok) ==
    /\ Emit("conditional chats.update", c,
            [(IF ~Known(c) THEN [buf EXCEPT !.upd[c] = W, !.cond = @ \cup {c}, !.valid[c] = ok]
              ELSE IF ok THEN MergedFirst(c)
              ELSE buf) EXCEPT !.dels = @ \ {c}],
            Assigns)
    /\ waited' = IF buffering /\ ~Known(c) THEN waited \cup {w} ELSE waited
    /\ refused' = IF buffering /\ Known(c) /\ ~ok THEN refused \cup {w} ELSE refused
    /\ UNCHANGED cache

ChatsDelete(c) ==
    /\ Emit("chats.delete", c,
            [Unpend(buf, c) EXCEPT !.dels = @ \cup {c}, !.ups[c] = <<>>, !.hist[c] = <<>>],
            Removes)
    /\ UNCHANGED <<cache, waited, refused>>

\* The pending update of a contact goes into an object nobody keeps.
ContactsUpsert(p) ==
    /\ Emit("contacts.upsert", p,
            [UpsertedIn(p, UpsertBase(p) \o W) EXCEPT !.upd[p] = <<>>],
            Assigns)
    /\ UNCHANGED <<cache, waited, refused>>

ContactsUpdate(p) ==
    /\ Emit("contacts.update", p, MergedFirst(p), Assigns)
    /\ UNCHANGED <<cache, waited, refused>>

\* A pending update goes over the message, and the message in the place of
\* the one that was there.
MessagesUpsert(m) ==
    /\ Emit("messages.upsert", m,
            LET message == W \o buf.upd[m]
            IN [(IF buf.hist[m] # <<>> THEN [buf EXCEPT !.hist[m] = message]
                 ELSE [buf EXCEPT !.ups[m] = message]) EXCEPT !.upd[m] = <<>>],
            Replaces)
    /\ UNCHANGED <<cache, waited, refused>>

\* Mutant: an update takes back the delete, as one of a chat does.
MessagesUpdate_Undeletes(m) ==
    /\ Emit("messages.update", m, [MergedFirst(m) EXCEPT !.dels = @ \ {m}], LAMBDA o : Updated(m, o, W))
    /\ UNCHANGED <<cache, waited, refused>>

MessagesUpdate(m) ==
    /\ Emit("messages.update", m, MergedFirst(m), LAMBDA o : Updated(m, o, W))
    /\ UNCHANGED <<cache, waited, refused>>

MessagesDelete(m) ==
    /\ Emit("messages.delete", m,
            [buf EXCEPT !.dels = @ \cup {m}, !.ups[m] = <<>>, !.upd[m] = <<>>],
            Removes)
    /\ UNCHANGED <<cache, waited, refused>>

\* messages.reaction and message-receipt.update.
MessagesAttach(m) ==
    /\ Emit("messages.reaction", m,
            IF buf.ups[m] # <<>> THEN [buf EXCEPT !.ups[m] = @ \o W]
            ELSE [buf EXCEPT !.attached[m] = @ \o W],
            LAMBDA o : Updated(m, o, W))
    /\ UNCHANGED <<cache, waited, refused>>

\* Only the first update of a group is kept.
GroupsUpdate(g) ==
    /\ Emit("groups.update", g,
            IF buf.upd[g] = <<>> THEN [buf EXCEPT !.upd[g] = W] ELSE buf,
            Assigns)
    /\ UNCHANGED <<cache, waited, refused>>

Next ==
    \/ StartBuffer
    \/ OfflineDone
    \/ Enter
    \/ \E returns \in BOOLEAN : Leave(returns)
    \/ \E t \in Tails : TailTimer(t)
    \/ SafetyTimer
    \/ \E x \in Chats \cup Messages \cup Contacts, named \in BOOLEAN : HistorySet(x, named)
    \/ \E c \in Chats : ChatsUpsert(c)
    \/ \E c \in Chats : ChatsUpdate(c)
    \/ \E c \in Chats, ok \in BOOLEAN : ConditionalUpdate(c, ok)
    \/ \E c \in Chats : ChatsDelete(c)
    \/ \E p \in Contacts : ContactsUpsert(p)
    \/ \E p \in Contacts : ContactsUpdate(p)
    \/ \E m \in Messages : MessagesUpsert(m)
    \/ \E m \in Messages : MessagesUpdate(m)
    \/ \E m \in Messages : MessagesDelete(m)
    \/ \E m \in Messages : MessagesAttach(m)
    \/ \E g \in Groups : GroupsUpdate(g)

\* Node fires an armed timer.
Spec == Init /\ [][Next]_vars /\ WF_vars(SafetyTimer)
-----------------------------------------------------------------------------
\* The buffer holds what was emitted, and every buffering has its timer: the
\* state of lib/event-buffer.js 378-382.
TypeOK ==
    /\ depth \in Nat /\ running \in Nat
    /\ safety = buffering
    /\ cache \subseteq Things /\ buf.cond \subseteq Chats /\ buf.dels \subseteq Things
    /\ \A x \in Things : \A o \in {buf.hist[x], buf.ups[x], buf.upd[x], buf.attached[x], view[x], direct[x]} :
          Writes(o) \subseteq {i \in DOMAIN log : log[i].on = x}

Deleted(m) == \E i \in DOMAIN log : log[i] = [kind |-> "messages.delete", on |-> m]

Wanted(x, kinds) == {i \in Writes(direct[x]) : log[i].kind \in kinds}
InOrder(o, writes) ==
    \A a, b \in DOMAIN o : a < b /\ o[a] \in writes /\ o[b] \in writes => o[a] < o[b]

\* What the events of these kinds would have written into x, had they never been
\* buffered, is in the application's object, once and in the order of the events.
Shows(x, kinds) == Wanted(x, kinds) \subseteq Writes(view[x]) /\ InOrder(view[x], Wanted(x, kinds))

\* However upserts, updates and deletes of one chat, contact or message fall
\* into buffers, whichever timer or function flushes them, the application
\* ends up with every one of them and an older one never covers a newer one.
\* Reactions and receipts are there too; they have fields of their own.  And
\* what was deleted last stays deleted: a flush does not bring it back.
EverythingShows ==
    ~buffering =>
        /\ \A x \in Chats \cup Contacts \cup Messages : Deleted(x) \/
             /\ Shows(x, {"chats.upsert", "chats.update", "contacts.upsert", "messages.upsert", "messages.update"})
             /\ Shows(x, {"messages.reaction"})
        /\ \A x \in Chats \cup Messages : direct[x] = <<>> => view[x] = <<>>

\* The same of contacts, beside history: an upsert is neither lost nor
\* covered by what history brought.
ContactsShow == ~buffering => \A p \in Contacts : Shows(p, {"contacts.upsert"})

\* An update that had to wait for its chat is not shown before the chat is.
HeldUntilKnown ==
    \A c \in Chats : Writes(view[c]) \cap waited # {}
        => \E i \in Writes(view[c]) : log[i].kind \in {"chats.upsert", "messaging-history.set"}

\* An update that its chat refused, because the chat has a newer message,
\* never reaches the application.
RefusedNeverShown == \A c \in Chats : Writes(view[c]) \cap refused = {}

\* The last update that waits for a chat survives every flush until the chat
\* takes or refuses it, or is deleted.
WaitingKept ==
    \A i \in waited \ refused :
        LET c == log[i].on
        IN \/ i \in Writes(buf.upd[c]) \cup Writes(buf.ups[c]) \cup Writes(buf.hist[c]) \cup Writes(view[c])
           \/ \E j \in i + 1 .. Len(log) :
                 log[j].on = c /\ log[j].kind \in {"conditional chats.update", "chats.delete"}

\* What the initial app-state sync says of a chat is neither applied before the
\* chat is known nor over a newer message, nor lost in any flush between.
ConditionsKept == HeldUntilKnown /\ RefusedNeverShown /\ WaitingKept

\* What arrives while history is synced shows when it may: contacts and
\* conditional updates of chats.
InitialSyncShows == ContactsShow /\ ConditionsKept

\* Every status change of a message the application has reaches it, whatever
\* history sync brings of the message meanwhile ("Message status changes").
StatusShows == ~buffering => \A m \in Messages : Deleted(m) \/ Shows(m, {"messages.update"})

\* However buffer() is called, and whatever of the functions that buffer never
\* returns, the application is not cut off from events for good.
BufferingEnds == buffering ~> ~buffering
====
