------------------------- MODULE EventBufferProofs -------------------------
(***************************************************************************)
(* The event buffer, for all things and any number of events: what is      *)
(* buffered and shown is typed; in the live session nothing is lost, out   *)
(* of order or brought back; while history is synced, what must wait for   *)
(* a chat waits, and is kept.                                              *)
(***************************************************************************)
EXTENDS EventBuffer, TLAPS

(***************************************************************************)
(* The invariants. BufferInv is the type; ContactsInv, LiveInv and SyncInv *)
(* add where the writes of contacts, of chats and messages in the live     *)
(* session, and of chats that are synced may be.                           *)
(***************************************************************************)
BufStates ==
    [hist : [Things -> Seq(Nat)], ups : [Things -> Seq(Nat)], upd : [Things -> Seq(Nat)],
     dels : SUBSET Things, attached : [Things -> Seq(Nat)], cond : SUBSET Chats, valid : [Chats -> BOOLEAN]]

ChatKinds == {"chats.upsert", "chats.update", "conditional chats.update", "chats.delete", "messaging-history.set"}
ContactKinds == {"contacts.upsert", "contacts.update", "messaging-history.set"}

MessageKinds == {"messages.upsert", "messages.update", "messages.delete", "messages.reaction", "messaging-history.set"}

OnThing(x) == {i \in DOMAIN log : log[i].on = x}

\* What the buffer and the application hold of x was emitted for x.
OwnWrites(x) ==
    /\ Writes(buf.hist[x]) \subseteq OnThing(x) /\ Writes(buf.ups[x]) \subseteq OnThing(x)
    /\ Writes(buf.upd[x]) \subseteq OnThing(x) /\ Writes(buf.attached[x]) \subseteq OnThing(x)
    /\ Writes(view[x]) \subseteq OnThing(x) /\ Writes(direct[x]) \subseteq OnThing(x)

\* Nothing but a conditional update is held while events are not buffered.
HoldsNothing(x) ==
    /\ buf.hist[x] = <<>> /\ buf.ups[x] = <<>> /\ buf.attached[x] = <<>> /\ x \notin buf.dels
    /\ x \notin buf.cond => buf.upd[x] = <<>>

BufferInv ==
    /\ buf \in BufStates /\ view \in [Things -> Seq(Nat)] /\ direct \in [Things -> Seq(Nat)]
    /\ log \in Seq([kind : Kinds, on : Things])
    /\ \A i \in DOMAIN log :
          /\ log[i].on \in Chats => log[i].kind \in ChatKinds
          /\ log[i].on \in Contacts => log[i].kind \in ContactKinds
          /\ log[i].on \in Messages => log[i].kind \in MessageKinds
    /\ cache \subseteq Things
    /\ depth \in Nat /\ running \in Nat /\ buffering \in BOOLEAN /\ safety = buffering
    /\ \A x \in Things : OwnWrites(x)
    /\ \A x \in Things : x \notin Messages => buf.attached[x] = <<>>
    /\ buf.dels \subseteq Chats \cup Messages
    /\ buffering \/ \A x \in Things : HoldsNothing(x)

\* Of the writes, those of o come before those of p.
Precede(o, p, writes) == \A i \in Writes(o) \cap writes, j \in Writes(p) \cap writes : i < j

\* The upserts of a contact.
ContactRight(p) ==
    LET wanted == Wanted(p, {"contacts.upsert"})
        h == buf.hist[p]
        u == buf.ups[p]
    IN /\ wanted \subseteq Writes(view[p]) \cup Writes(h) \cup Writes(u)
       /\ InOrder(view[p], wanted) /\ InOrder(h, wanted) /\ InOrder(u, wanted)
       /\ Precede(view[p], h, wanted) /\ Precede(view[p], u, wanted) /\ Precede(h, u, wanted)
       /\ Writes(buf.upd[p]) \cap wanted = {}

ContactsInv == BufferInv /\ \A p \in Contacts : ContactRight(p)

\* Of the writes, v has those that o, which comes after v, does not have yet.
Line(S, v, o) == InOrder(v, S) /\ InOrder(o, S) /\ Precede(v, o, S)

\* A chat when no conditional update waits for it: v is the application's, o is
\* buffered for it, and p is what it would be had nothing been buffered.
ChatLine(p, v, o, gone) ==
    /\ gone => o = <<>> /\ p = <<>>
    /\ ~gone => Writes(p) \subseteq Writes(v) \cup Writes(o)
    /\ Line(Writes(p), v, o)
    /\ p = <<>> => gone \/ (v = <<>> /\ o = <<>>)

ChatRight(c) ==
    /\ buf.ups[c] = <<>> \/ buf.upd[c] = <<>>
    /\ ChatLine(direct[c], view[c], buf.ups[c] \o buf.upd[c], c \in buf.dels)

\* A message; as long as it is not deleted, nothing of it is lost.
Status(m) == Wanted(m, {"messages.upsert", "messages.update"})
Attached(m) == Wanted(m, {"messages.reaction"})

MessageLine(p, v, u, d, r, status, attached) ==
    /\ p # <<>> => v # <<>> \/ u # <<>>
    /\ u # <<>> => /\ d = <<>> /\ Writes(r) \cap Writes(p) = {}
                   /\ Writes(p) \subseteq Writes(u) /\ InOrder(u, Writes(p))
    /\ u = <<>> => /\ status \subseteq Writes(v) \cup Writes(d) /\ Line(status, v, d)
                   /\ attached \subseteq Writes(v) \cup Writes(r) /\ Line(attached, v, r)

OfKind(o, k) == \A i \in Writes(o) : log[i].kind = k

MessageKept(m) ==
    /\ MessageLine(direct[m], view[m], buf.ups[m], buf.upd[m], buf.attached[m], Status(m), Attached(m))
    /\ OfKind(buf.upd[m], "messages.update") /\ OfKind(buf.attached[m], "messages.reaction")

MessageRight(m) ==
    /\ m \in buf.dels => Deleted(m)
    /\ direct[m] = <<>> => m \in buf.dels \/ (view[m] = <<>> /\ buf.ups[m] = <<>>)
    /\ Deleted(m) \/ MessageKept(m)

LiveInv ==
    /\ ContactsInv
    /\ buf.cond = {} /\ \A x \in Chats \cup Messages : buf.hist[x] = <<>>
    /\ \A c \in Chats : ChatRight(c)
    /\ \A m \in Messages : MessageRight(m)

\* The writes that make a chat known, those that waited for it, and those that
\* a later conditional update or delete of it makes obsolete.
Knowing == {i \in DOMAIN log : log[i].kind \in {"chats.upsert", "messaging-history.set"}}
WaitedFor(c) == {i \in waited : log[i].on = c}
Superseded(c) ==
    {i \in DOMAIN log : \E j \in i + 1 .. Len(log) :
        log[j].on = c /\ log[j].kind \in {"conditional chats.update", "chats.delete"}}

\* A chat of which the application has V, and H, U and D are buffered of history,
\* upserts and updates; Q waited for it.
Waiting(c, V, H, U, D, con, del, Q, R, K, S) ==
    /\ c \in con => H = {} /\ U = {}
    /\ c \notin con => D \cap Q = {}
    /\ V \cap Q # {} => V \cap K # {}
    /\ H # {} => H \cap K # {}
    /\ U # {} => U \cap K # {}
    /\ (V \cup H \cup U \cup D) \cap R = {}
    /\ (V \cup H \cup U) \cap D = {}
    /\ Q \ R \subseteq V \cup H \cup U \cup D \cup S
    /\ c \in del => U = {} /\ D = {} /\ H \cap Q = {} /\ V \subseteq S

WaitRight(c) ==
    Waiting(c, Writes(view[c]), Writes(buf.hist[c]), Writes(buf.ups[c]), Writes(buf.upd[c]), buf.cond, buf.dels,
            WaitedFor(c), refused, Knowing, Superseded(c))

SyncInv ==
    /\ ContactsInv
    /\ waited \subseteq DOMAIN log /\ refused \subseteq DOMAIN log
    /\ \A i \in waited : log[i].on \in Chats
    /\ \A c \in Chats : WaitRight(c)
-----------------------------------------------------------------------------
(***************************************************************************)
(* What objects are made of: the writes of joined objects, and their       *)
(* order. A lemma's conclusion about a joined object stands under a name   *)
(* (Joins, Single), for the provers to instantiate.                        *)
(***************************************************************************)
\* Writes of joined objects.
Joins(o, p) == Writes(o \o p) = Writes(o) \cup Writes(p) /\ o \o p \in Seq(Nat)

LEMMA WritesJoin ==
    ASSUME NEW o \in Seq(Nat), NEW p \in Seq(Nat)
    PROVE  Joins(o, p)
<1>1. Len(o) \in Nat /\ Len(p) \in Nat /\ o \o p \in Seq(Nat) /\ Len(o \o p) = Len(o) + Len(p)
      /\ DOMAIN o = 1 .. Len(o) /\ DOMAIN p = 1 .. Len(p) /\ DOMAIN (o \o p) = 1 .. Len(o) + Len(p)
    OBVIOUS
<1>2. ASSUME NEW i \in DOMAIN (o \o p) PROVE (o \o p)[i] \in Writes(o) \cup Writes(p)
    <2>1. CASE i <= Len(o)
        <3>1. (o \o p)[i] = o[i] /\ i \in DOMAIN o
            BY <1>1, <2>1
        <3> QED BY <3>1 DEF Writes
    <2>2. CASE ~(i <= Len(o))
        <3>1. (o \o p)[i] = p[i - Len(o)] /\ i - Len(o) \in DOMAIN p
            BY <1>1, <2>2
        <3> QED BY <3>1 DEF Writes
    <2> QED BY <2>1, <2>2
<1>3. ASSUME NEW i \in DOMAIN o PROVE o[i] \in Writes(o \o p)
    <2>1. (o \o p)[i] = o[i] /\ i \in DOMAIN (o \o p)
        BY <1>1
    <2> QED BY <2>1 DEF Writes
<1>4. ASSUME NEW i \in DOMAIN p PROVE p[i] \in Writes(o \o p)
    <2>1. (o \o p)[i + Len(o)] = p[i] /\ i + Len(o) \in DOMAIN (o \o p)
        BY <1>1
    <2> QED BY <2>1 DEF Writes
<1>5. Writes(o \o p) \subseteq Writes(o) \cup Writes(p)
    BY <1>2 DEF Writes
<1>6. Writes(o) \subseteq Writes(o \o p)
    BY <1>3 DEF Writes
<1>7. Writes(p) \subseteq Writes(o \o p)
    BY <1>4 DEF Writes
<1> QED BY <1>1, <1>5, <1>6, <1>7 DEF Joins

Single(i) == <<i>> \in Seq(Nat) /\ Writes(<<i>>) = {i} /\ <<i>> # <<>>

LEMMA WritesSingle == ASSUME NEW i \in Nat PROVE Single(i)
BY DEF Single, Writes

LEMMA WritesNone == Writes(<<>>) = {} /\ <<>> \in Seq(Nat) /\ \A S : InOrder(<<>>, S)
BY DEF Writes, InOrder

\* Objects are as ordered as their parts.
LEMMA OrderJoin ==
    ASSUME NEW o \in Seq(Nat), NEW p \in Seq(Nat), NEW S,
           InOrder(o, S), InOrder(p, S), Precede(o, p, S)
    PROVE  InOrder(o \o p, S)
<1>1. Len(o) \in Nat /\ Len(p) \in Nat
      /\ DOMAIN o = 1 .. Len(o) /\ DOMAIN p = 1 .. Len(p) /\ DOMAIN (o \o p) = 1 .. Len(o) + Len(p)
    OBVIOUS
<1> SUFFICES ASSUME NEW a \in DOMAIN (o \o p), NEW b \in DOMAIN (o \o p), a < b,
                    (o \o p)[a] \in S, (o \o p)[b] \in S
             PROVE  (o \o p)[a] < (o \o p)[b]
    BY DEF InOrder
<1>2. CASE b <= Len(o)
    <2>1. (o \o p)[a] = o[a] /\ (o \o p)[b] = o[b] /\ a \in DOMAIN o /\ b \in DOMAIN o
        BY <1>1, <1>2
    <2> QED BY <2>1 DEF InOrder
<1>3. CASE ~(a <= Len(o))
    <2> DEFINE n == Len(o)
               k == Len(p)
               i == a - n
               j == b - n
    <2>1. n \in Nat /\ k \in Nat /\ a \in 1 .. n + k /\ b \in 1 .. n + k /\ a > n
        BY <1>1, <1>3
    <2>2. i \in 1 .. k /\ j \in 1 .. k /\ i < j
        <3> HIDE DEF n, k
        <3> QED BY <2>1
    <2>3. (o \o p)[a] = p[i] /\ (o \o p)[b] = p[j]
        BY <1>1, <2>1, <2>2
    <2>4. i \in DOMAIN p /\ j \in DOMAIN p
        BY <1>1, <2>2
    <2> HIDE DEF i, j
    <2> QED BY <2>2, <2>3, <2>4 DEF InOrder
<1>4. CASE a <= Len(o) /\ ~(b <= Len(o))
    <2>1. PICK j \in DOMAIN p : j = b - Len(o)
        BY <1>1, <1>4
    <2>2. (o \o p)[a] = o[a] /\ (o \o p)[b] = p[j] /\ a \in DOMAIN o
        BY <1>1, <1>4, <2>1
    <2>3. o[a] \in Writes(o) /\ p[j] \in Writes(p)
        BY <2>2 DEF Writes
    <2> QED BY <2>2, <2>3 DEF Precede
<1>5. a \in Nat /\ b \in Nat
    BY <1>1
<1> QED BY <1>1, <1>2, <1>3, <1>4, <1>5

\* Only those that are in it matter to an object's order.
LEMMA OrderOf ==
    ASSUME NEW o, NEW S, NEW T, InOrder(o, S), Writes(o) \cap T \subseteq S
    PROVE  InOrder(o, T)
BY DEF InOrder, Writes

LEMMA OrderSingle == ASSUME NEW i \in Nat, NEW S PROVE InOrder(<<i>>, S)
BY DEF InOrder

LEMMA OrderEmpty == ASSUME NEW S, NEW o, Writes(o) \cap S = {} PROVE InOrder(o, S)
BY DEF InOrder, Writes
-----------------------------------------------------------------------------
(***************************************************************************)
(* What the actions do to what is held of one thing: its history, upserts, *)
(* updates and attached, the deletes and the conditionals. Each of these   *)
(* lemmas reads one action; what follows uses them and not the records the *)
(* actions build.                                                          *)
(***************************************************************************)
\* b is the buffer, but for what it has of x.
But(b, x, h, u, d, a, del, con) ==
    /\ b \in BufStates
    /\ b.hist = [buf.hist EXCEPT ![x] = h] /\ b.ups = [buf.ups EXCEPT ![x] = u]
    /\ b.upd = [buf.upd EXCEPT ![x] = d] /\ b.attached = [buf.attached EXCEPT ![x] = a]
    /\ b.dels = del /\ b.cond = con

\* The buffer, with one field of one thing changed.
LEMMA ButNothing ==
    ASSUME BufferInv, NEW x \in Things
    PROVE  But(buf, x, buf.hist[x], buf.ups[x], buf.upd[x], buf.attached[x], buf.dels, buf.cond)
BY DEF But, BufferInv, BufStates

LEMMA ButHist ==
    ASSUME BufferInv, NEW x \in Things, NEW h, NEW u, NEW d, NEW a, NEW del, NEW con, NEW b, NEW s \in Seq(Nat),
           But(b, x, h, u, d, a, del, con)
    PROVE  But([b EXCEPT !.hist[x] = s], x, s, u, d, a, del, con)
<1>1. [b EXCEPT !.hist[x] = s] \in BufStates
    BY DEF But, BufStates
<1> QED BY <1>1 DEF But, BufferInv, BufStates

LEMMA ButUps ==
    ASSUME BufferInv, NEW x \in Things, NEW h, NEW u, NEW d, NEW a, NEW del, NEW con, NEW b, NEW s \in Seq(Nat),
           But(b, x, h, u, d, a, del, con)
    PROVE  But([b EXCEPT !.ups[x] = s], x, h, s, d, a, del, con)
<1>1. [b EXCEPT !.ups[x] = s] \in BufStates
    BY DEF But, BufStates
<1> QED BY <1>1 DEF But, BufferInv, BufStates

LEMMA ButUpd ==
    ASSUME BufferInv, NEW x \in Things, NEW h, NEW u, NEW d, NEW a, NEW del, NEW con, NEW b, NEW s \in Seq(Nat),
           But(b, x, h, u, d, a, del, con)
    PROVE  But([b EXCEPT !.upd[x] = s], x, h, u, s, a, del, con)
<1>1. [b EXCEPT !.upd[x] = s] \in BufStates
    BY DEF But, BufStates
<1> QED BY <1>1 DEF But, BufferInv, BufStates

LEMMA ButAttached ==
    ASSUME BufferInv, NEW x \in Things, NEW h, NEW u, NEW d, NEW a, NEW del, NEW con, NEW b, NEW s \in Seq(Nat),
           But(b, x, h, u, d, a, del, con)
    PROVE  But([b EXCEPT !.attached[x] = s], x, h, u, d, s, del, con)
<1>1. [b EXCEPT !.attached[x] = s] \in BufStates
    BY DEF But, BufStates
<1> QED BY <1>1 DEF But, BufferInv, BufStates

LEMMA ButDels ==
    ASSUME NEW x \in Things, NEW h, NEW u, NEW d, NEW a, NEW del, NEW con, NEW b, NEW s \in SUBSET Things,
           But(b, x, h, u, d, a, del, con)
    PROVE  But([b EXCEPT !.dels = s], x, h, u, d, a, s, con)
BY DEF But, BufStates

LEMMA ButCond ==
    ASSUME NEW x \in Things, NEW h, NEW u, NEW d, NEW a, NEW del, NEW con, NEW b, NEW s \in SUBSET Chats,
           But(b, x, h, u, d, a, del, con)
    PROVE  But([b EXCEPT !.cond = s], x, h, u, d, a, del, s)
BY DEF But, BufStates

LEMMA ButUnpended ==
    ASSUME BufferInv, NEW x \in Chats, NEW h, NEW u, NEW d, NEW a, NEW del, NEW con, NEW b,
           But(b, x, h, u, d, a, del, con)
    PROVE  But(Unpend(b, x), x, h, u, <<>>, a, del, con \ {x})
<1>1. x \in Things /\ <<>> \in Seq(Nat)
    BY DEF Things
<1>2. But([b EXCEPT !.upd[x] = <<>>], x, h, u, <<>>, a, del, con)
    BY <1>1, ButUpd
<1> DEFINE c == [b EXCEPT !.upd[x] = <<>>]
<1>3. c.cond = con /\ con \subseteq Chats
    BY <1>2 DEF But, BufStates
<1>4. Unpend(b, x) = [c EXCEPT !.cond = con \ {x}]
    BY <1>3 DEF Unpend
<1>5. But([c EXCEPT !.cond = con \ {x}], x, h, u, <<>>, a, del, con \ {x})
    <2>1. But(c, x, h, u, <<>>, a, del, con) /\ con \ {x} \in SUBSET Chats
        BY <1>2, <1>3
    <2> HIDE DEF c
    <2> QED BY <1>1, <2>1, ButCond
<1> QED BY <1>4, <1>5

\* The buffer takes no events in.
StaysSo(x) ==
    ~buffering /\ buf' = buf /\ But(buf', x, buf.hist[x], buf.ups[x], buf.upd[x], buf.attached[x], buf.dels, buf.cond)

\* An event about x is emitted, and the application has v of it now, or would have p.
Emits(k, x, v, p) ==
    /\ k \in Kinds /\ x \in Things
    /\ log' = Append(log, [kind |-> k, on |-> x])
    /\ view' = [view EXCEPT ![x] = v] /\ direct' = [direct EXCEPT ![x] = p]
    /\ UNCHANGED control

\* What the types say of one thing and of the write of the event.
LEMMA BufTyped ==
    ASSUME BufferInv, NEW x \in Things
    PROVE  /\ buf \in BufStates /\ view[x] \in Seq(Nat) /\ direct[x] \in Seq(Nat) /\ log \in Seq([kind : Kinds, on : Things])
           /\ buf.hist[x] \in Seq(Nat) /\ buf.ups[x] \in Seq(Nat) /\ buf.upd[x] \in Seq(Nat) /\ buf.attached[x] \in Seq(Nat)
           /\ w \in Nat /\ w \notin DOMAIN log /\ W \in Seq(Nat) /\ Writes(W) = {w} /\ W # <<>>
           /\ \A i \in DOMAIN log : i \in Nat /\ i < w
<1>1. buf \in BufStates /\ view[x] \in Seq(Nat) /\ direct[x] \in Seq(Nat) /\ log \in Seq([kind : Kinds, on : Things])
    BY DEF BufferInv
<1>2. w \in Nat /\ w \notin DOMAIN log /\ \A i \in DOMAIN log : i \in Nat /\ i < w
    BY <1>1 DEF w
<1>3. Single(w)
    BY <1>2, WritesSingle
<1> QED BY <1>1, <1>2, <1>3 DEF BufStates, Single, W

\* An event is emitted, and nothing is buffered: the application has v of x at once.
Shown(k, x, v, p) == StaysSo(x) /\ Emits(k, x, v, p)

\* It is emitted, and the buffer takes it in.
Taken(k, x, p) == buffering /\ Emits(k, x, view[x], p)

LEMMA Emitted ==
    ASSUME BufferInv, NEW x \in Things, NEW k \in Kinds, NEW v, NEW p,
           log' = Append(log, [kind |-> k, on |-> x]), direct' = [direct EXCEPT ![x] = p], UNCHANGED control,
           IF buffering THEN view' = view ELSE view' = [view EXCEPT ![x] = v] /\ buf' = buf
    PROVE  Shown(k, x, v, p) \/ Taken(k, x, p)
<1>1. CASE buffering
    <2>1. view' = [view EXCEPT ![x] = view[x]]
        BY <1>1 DEF BufferInv
    <2> QED BY <1>1, <2>1 DEF Taken, Emits
<1>2. CASE ~buffering
    BY <1>2, ButNothing DEF Shown, StaysSo, Emits
<1> QED BY <1>1, <1>2

\* As it is, and what each of its parts is a set of.
LEMMA ButHere ==
    ASSUME BufferInv, NEW x \in Things
    PROVE  /\ But(buf, x, buf.hist[x], buf.ups[x], buf.upd[x], buf.attached[x], buf.dels, buf.cond)
           /\ buf.dels \in SUBSET Things /\ buf.cond \in SUBSET Chats /\ <<>> \in Seq(Nat)
BY ButNothing DEF But, BufStates

\* An update goes into history or else into the upserts, if x is there.
Merged(b, x, del) ==
    \/ /\ buf.hist[x] # <<>>
       /\ But(b, x, buf.hist[x] \o W, buf.ups[x], buf.upd[x], buf.attached[x], del, buf.cond)
    \/ /\ buf.hist[x] = <<>> /\ buf.ups[x] # <<>>
       /\ But(b, x, buf.hist[x], buf.ups[x] \o W, buf.upd[x], buf.attached[x], del, buf.cond)
    \/ /\ buf.hist[x] = <<>> /\ buf.ups[x] = <<>>
       /\ But(b, x, buf.hist[x], buf.ups[x], buf.upd[x] \o W, buf.attached[x], del, buf.cond)

LEMMA MergedIs ==
    ASSUME BufferInv, NEW x \in Things
    PROVE  Merged(MergedFirst(x), x, buf.dels)
<1>1. /\ buf.hist[x] \o W \in Seq(Nat) /\ buf.ups[x] \o W \in Seq(Nat) /\ buf.upd[x] \o W \in Seq(Nat)
      /\ But(buf, x, buf.hist[x], buf.ups[x], buf.upd[x], buf.attached[x], buf.dels, buf.cond)
    BY BufTyped, ButHere
<1>2. CASE buf.hist[x] # <<>>
    <2>1. MergedFirst(x) = [buf EXCEPT !.hist[x] = buf.hist[x] \o W]
        BY <1>2 DEF MergedFirst
    <2>2. But([buf EXCEPT !.hist[x] = buf.hist[x] \o W], x, buf.hist[x] \o W, buf.ups[x], buf.upd[x], buf.attached[x], buf.dels, buf.cond)
        BY <1>1, ButHist
    <2> QED BY <1>2, <2>1, <2>2 DEF Merged
<1>3. CASE buf.hist[x] = <<>> /\ buf.ups[x] # <<>>
    <2>1. MergedFirst(x) = [buf EXCEPT !.ups[x] = buf.ups[x] \o W]
        BY <1>3 DEF MergedFirst
    <2>2. But([buf EXCEPT !.ups[x] = buf.ups[x] \o W], x, buf.hist[x], buf.ups[x] \o W, buf.upd[x], buf.attached[x], buf.dels, buf.cond)
        BY <1>1, ButUps
    <2> QED BY <1>3, <2>1, <2>2 DEF Merged
<1>4. CASE buf.hist[x] = <<>> /\ buf.ups[x] = <<>>
    <2>1. MergedFirst(x) = [buf EXCEPT !.upd[x] = buf.upd[x] \o W]
        BY <1>4 DEF MergedFirst
    <2>2. But([buf EXCEPT !.upd[x] = buf.upd[x] \o W], x, buf.hist[x], buf.ups[x], buf.upd[x] \o W, buf.attached[x], buf.dels, buf.cond)
        BY <1>1, ButUpd
    <2> QED BY <1>4, <2>1, <2>2 DEF Merged
<1> QED BY <1>2, <1>3, <1>4

LEMMA MergedDels ==
    ASSUME BufferInv, NEW x \in Things, NEW b, Merged(b, x, buf.dels), NEW del \in SUBSET Things
    PROVE  Merged([b EXCEPT !.dels = del], x, del)
BY ButDels DEF Merged

\* An upsert goes into history if x is there and not in the upserts.
UpsertedAs(b, x, o, del, con) ==
    \/ /\ buf.ups[x] = <<>> /\ buf.hist[x] # <<>>
       /\ But(b, x, o, buf.ups[x], <<>>, buf.attached[x], del, con)
    \/ /\ ~(buf.ups[x] = <<>> /\ buf.hist[x] # <<>>)
       /\ But(b, x, buf.hist[x], o, <<>>, buf.attached[x], del, con)

LEMMA ChatsUpsertDoes ==
    ASSUME BufferInv, NEW c \in Chats, ChatsUpsert(c)
    PROVE  \/ Shown("chats.upsert", c, view[c] \o W, direct[c] \o W) /\ refused' = refused
           \/ /\ Taken("chats.upsert", c, direct[c] \o W) /\ refused' = refused \cup RefusedBy(c)
              /\ UpsertedAs(buf', c, Absorbed(c, UpsertBase(c) \o W), buf.dels \ {c}, buf.cond \ {c})
<1> DEFINE o == Absorbed(c, UpsertBase(c) \o W)
           b == Unpend(UpsertedIn(c, o), c)
<1>1. c \in Things
    BY DEF Things
<1>2. Shown("chats.upsert", c, view[c] \o W, direct[c] \o W) \/ Taken("chats.upsert", c, direct[c] \o W)
    BY <1>1, Emitted DEF ChatsUpsert, Emit, Assigns
<1>3. CASE Taken("chats.upsert", c, direct[c] \o W)
    <2>1. buf' = [b EXCEPT !.dels = b.dels \ {c}] /\ refused' = refused \cup RefusedBy(c)
        BY <1>3 DEF ChatsUpsert, Emit, Taken
    <2>2. o \in Seq(Nat)
        BY <1>1, BufTyped DEF Absorbed, UpsertBase
    <2> HIDE DEF o
    <2>3. CASE buf.ups[c] = <<>> /\ buf.hist[c] # <<>>
        <3>1. But([buf EXCEPT !.hist[c] = o], c, o, buf.ups[c], buf.upd[c], buf.attached[c], buf.dels, buf.cond)
            BY <1>1, <2>2, ButHere, ButHist
        <3>2. But(b, c, o, buf.ups[c], <<>>, buf.attached[c], buf.dels, buf.cond \ {c})
            BY <2>3, <3>1, ButUnpended DEF UpsertedIn
        <3> HIDE DEF b
        <3>3. But([b EXCEPT !.dels = buf.dels \ {c}], c, o, buf.ups[c], <<>>, buf.attached[c], buf.dels \ {c}, buf.cond \ {c})
            BY <1>1, <3>2, ButHere, ButDels
        <3> QED BY <1>3, <2>1, <2>3, <3>2, <3>3 DEF But, UpsertedAs, o
    <2>4. CASE ~(buf.ups[c] = <<>> /\ buf.hist[c] # <<>>)
        <3>1. But([buf EXCEPT !.ups[c] = o], c, buf.hist[c], o, buf.upd[c], buf.attached[c], buf.dels, buf.cond)
            BY <1>1, <2>2, ButHere, ButUps
        <3>2. But(b, c, buf.hist[c], o, <<>>, buf.attached[c], buf.dels, buf.cond \ {c})
            BY <2>4, <3>1, ButUnpended DEF UpsertedIn
        <3> HIDE DEF b
        <3>3. But([b EXCEPT !.dels = buf.dels \ {c}], c, buf.hist[c], o, <<>>, buf.attached[c], buf.dels \ {c}, buf.cond \ {c})
            BY <1>1, <3>2, ButHere, ButDels
        <3> QED BY <1>3, <2>1, <2>4, <3>2, <3>3 DEF But, UpsertedAs, o
    <2> QED BY <2>3, <2>4
<1>4. CASE Shown("chats.upsert", c, view[c] \o W, direct[c] \o W)
    BY <1>4 DEF ChatsUpsert, Shown, StaysSo
<1> QED BY <1>2, <1>3, <1>4

LEMMA ChatsUpdateDoes ==
    ASSUME BufferInv, NEW c \in Chats, ChatsUpdate(c)
    PROVE  \/ Shown("chats.update", c, view[c] \o W, direct[c] \o W)
           \/ Taken("chats.update", c, direct[c] \o W) /\ Merged(buf', c, buf.dels \ {c})
<1>1. c \in Things
    BY DEF Things
<1>2. Shown("chats.update", c, view[c] \o W, direct[c] \o W) \/ Taken("chats.update", c, direct[c] \o W)
    BY <1>1, Emitted DEF ChatsUpdate, Emit, Assigns
<1>3. CASE Taken("chats.update", c, direct[c] \o W)
    <2> DEFINE b == MergedFirst(c)
    <2>1. Merged(b, c, buf.dels) /\ buf.dels \in SUBSET Things
        BY <1>1, MergedIs, ButHere
    <2>2. buf' = [b EXCEPT !.dels = b.dels \ {c}]
        BY <1>3 DEF ChatsUpdate, Emit, Taken
    <2> HIDE DEF b
    <2>3. b.dels = buf.dels
        BY <2>1 DEF Merged, But
    <2> QED BY <1>1, <1>3, <2>1, <2>2, <2>3, MergedDels
<1> QED BY <1>2, <1>3

LEMMA ButValid ==
    ASSUME BufferInv, NEW x \in Things, NEW h, NEW u, NEW d, NEW a, NEW del, NEW con, NEW b, NEW c \in Chats, NEW s \in BOOLEAN,
           But(b, x, h, u, d, a, del, con)
    PROVE  But([b EXCEPT !.valid[c] = s], x, h, u, d, a, del, con)
<1>1. [b EXCEPT !.valid[c] = s] \in BufStates
    BY DEF But, BufStates
<1> QED BY <1>1 DEF But, BufStates

\* What the buffer makes of a conditional update.
ConditionalTaken(c, ok) ==
    \/ /\ ~Known(c) /\ waited' = waited \cup {w} /\ refused' = refused
       /\ But(buf', c, buf.hist[c], buf.ups[c], W, buf.attached[c], buf.dels \ {c}, buf.cond \cup {c})
    \/ /\ Known(c) /\ ok /\ waited' = waited /\ refused' = refused
       /\ Merged(buf', c, buf.dels \ {c})
    \/ /\ Known(c) /\ ~ok /\ waited' = waited /\ refused' = refused \cup {w}
       /\ But(buf', c, buf.hist[c], buf.ups[c], buf.upd[c], buf.attached[c], buf.dels \ {c}, buf.cond)

LEMMA ConditionalUpdateDoes ==
    ASSUME BufferInv, NEW c \in Chats, NEW ok \in BOOLEAN, ConditionalUpdate(c, ok)
    PROVE  \/ Shown("conditional chats.update", c, view[c] \o W, direct[c] \o W) /\ waited' = waited /\ refused' = refused
           \/ Taken("conditional chats.update", c, direct[c] \o W) /\ ConditionalTaken(c, ok)
<1>1. c \in Things
    BY DEF Things
<1>2. \/ Shown("conditional chats.update", c, view[c] \o W, direct[c] \o W)
      \/ Taken("conditional chats.update", c, direct[c] \o W)
    BY <1>1, Emitted DEF ConditionalUpdate, Emit, Assigns
<1>3. CASE Taken("conditional chats.update", c, direct[c] \o W)
    <2>0. W \in Seq(Nat) /\ buf.dels \ {c} \in SUBSET Things /\ buf.cond \cup {c} \in SUBSET Chats
        BY <1>1, BufTyped, ButHere
    <2>1. CASE ~Known(c)
        <3> DEFINE b1 == [buf EXCEPT !.upd[c] = W]
                   b2 == [b1 EXCEPT !.cond = buf.cond \cup {c}]
                   b3 == [b2 EXCEPT !.valid[c] = ok]
        <3>1. But(b1, c, buf.hist[c], buf.ups[c], W, buf.attached[c], buf.dels, buf.cond)
            BY <1>1, <2>0, ButHere, ButUpd
        <3>2. buf' = [b3 EXCEPT !.dels = b3.dels \ {c}]
            <4>1. b1.cond = buf.cond
                BY <3>1 DEF But
            <4> QED BY <1>3, <2>1, <4>1 DEF ConditionalUpdate, Emit, Taken
        <3> HIDE DEF b1
        <3>3. But(b2, c, buf.hist[c], buf.ups[c], W, buf.attached[c], buf.dels, buf.cond \cup {c})
            BY <1>1, <2>0, <3>1, ButCond
        <3> HIDE DEF b2
        <3>4. But(b3, c, buf.hist[c], buf.ups[c], W, buf.attached[c], buf.dels, buf.cond \cup {c})
            BY <1>1, <3>3, ButValid
        <3> HIDE DEF b3
        <3>5. But([b3 EXCEPT !.dels = buf.dels \ {c}], c, buf.hist[c], buf.ups[c], W, buf.attached[c], buf.dels \ {c}, buf.cond \cup {c})
            BY <1>1, <2>0, <3>4, ButDels
        <3>6. b3.dels = buf.dels
            BY <3>4 DEF But
        <3>7. waited' = waited \cup {w} /\ refused' = refused
            BY <1>3, <2>1 DEF ConditionalUpdate, Taken
        <3> QED BY <1>3, <2>1, <3>2, <3>5, <3>6, <3>7 DEF ConditionalTaken
    <2>2. CASE Known(c) /\ ok
        <3> DEFINE b == MergedFirst(c)
        <3>1. Merged(b, c, buf.dels)
            BY <1>1, MergedIs
        <3>2. buf' = [b EXCEPT !.dels = b.dels \ {c}] /\ waited' = waited /\ refused' = refused
            BY <1>3, <2>2 DEF ConditionalUpdate, Emit, Taken
        <3> HIDE DEF b
        <3>3. b.dels = buf.dels
            BY <3>1 DEF Merged, But
        <3> QED BY <1>1, <1>3, <2>0, <2>2, <3>1, <3>2, <3>3, MergedDels DEF ConditionalTaken
    <2>3. CASE Known(c) /\ ~ok
        <3>1. buf' = [buf EXCEPT !.dels = buf.dels \ {c}] /\ waited' = waited /\ refused' = refused \cup {w}
            BY <1>3, <2>3 DEF ConditionalUpdate, Emit, Taken
        <3> QED BY <1>1, <1>3, <2>0, <2>3, <3>1, ButHere, ButDels DEF ConditionalTaken
    <2> QED BY <2>1, <2>2, <2>3
<1>4. CASE Shown("conditional chats.update", c, view[c] \o W, direct[c] \o W)
    BY <1>4 DEF ConditionalUpdate, Shown, StaysSo
<1> QED BY <1>2, <1>3, <1>4

LEMMA ChatsDeleteDoes ==
    ASSUME BufferInv, NEW c \in Chats, ChatsDelete(c)
    PROVE  \/ Shown("chats.delete", c, <<>>, <<>>)
           \/ /\ Taken("chats.delete", c, <<>>)
              /\ But(buf', c, <<>>, <<>>, <<>>, buf.attached[c], buf.dels \cup {c}, buf.cond \ {c})
<1>1. c \in Things
    BY DEF Things
<1>2. Shown("chats.delete", c, <<>>, <<>>) \/ Taken("chats.delete", c, <<>>)
    BY <1>1, Emitted DEF ChatsDelete, Emit, Removes
<1>3. CASE Taken("chats.delete", c, <<>>)
    <2> DEFINE b == Unpend(buf, c)
               b1 == [b EXCEPT !.dels = buf.dels \cup {c}]
               b2 == [b1 EXCEPT !.ups[c] = <<>>]
               b3 == [b2 EXCEPT !.hist[c] = <<>>]
    <2>0. buf.dels \cup {c} \in SUBSET Things /\ <<>> \in Seq(Nat)
        BY <1>1, ButHere
    <2>1. But(b, c, buf.hist[c], buf.ups[c], <<>>, buf.attached[c], buf.dels, buf.cond \ {c})
        BY <1>1, ButHere, ButUnpended
    <2>2. buf' = b3
        <3>1. b.dels = buf.dels
            BY <2>1 DEF But
        <3> HIDE DEF b
        <3> QED BY <1>3, <3>1 DEF ChatsDelete, Emit, Taken, b
    <2> HIDE DEF b
    <2>3. But(b1, c, buf.hist[c], buf.ups[c], <<>>, buf.attached[c], buf.dels \cup {c}, buf.cond \ {c})
        BY <1>1, <2>0, <2>1, ButDels
    <2> HIDE DEF b1
    <2>4. But(b2, c, buf.hist[c], <<>>, <<>>, buf.attached[c], buf.dels \cup {c}, buf.cond \ {c})
        BY <1>1, <2>0, <2>3, ButUps
    <2> HIDE DEF b2
    <2>5. But(b3, c, <<>>, <<>>, <<>>, buf.attached[c], buf.dels \cup {c}, buf.cond \ {c})
        BY <1>1, <2>0, <2>4, ButHist
    <2> HIDE DEF b3
    <2> QED BY <1>3, <2>2, <2>5
<1> QED BY <1>2, <1>3

LEMMA ContactsUpsertDoes ==
    ASSUME BufferInv, NEW p \in Contacts, ContactsUpsert(p)
    PROVE  \/ Shown("contacts.upsert", p, view[p] \o W, direct[p] \o W)
           \/ Taken("contacts.upsert", p, direct[p] \o W) /\ UpsertedAs(buf', p, UpsertBase(p) \o W, buf.dels, buf.cond)
<1>1. p \in Things
    BY DEF Things
<1>2. Shown("contacts.upsert", p, view[p] \o W, direct[p] \o W) \/ Taken("contacts.upsert", p, direct[p] \o W)
    BY <1>1, Emitted DEF ContactsUpsert, Emit, Assigns
<1>3. CASE Taken("contacts.upsert", p, direct[p] \o W)
    <2> DEFINE o == UpsertBase(p) \o W
               b == UpsertedIn(p, o)
    <2>1. buf' = [b EXCEPT !.upd[p] = <<>>]
        BY <1>3 DEF ContactsUpsert, Emit, Taken
    <2>2. o \in Seq(Nat) /\ <<>> \in Seq(Nat)
        BY <1>1, BufTyped, ButHere DEF UpsertBase
    <2> HIDE DEF o
    <2>3. CASE buf.ups[p] = <<>> /\ buf.hist[p] # <<>>
        <3>1. But(b, p, o, buf.ups[p], buf.upd[p], buf.attached[p], buf.dels, buf.cond)
            BY <1>1, <2>2, <2>3, ButHere, ButHist DEF UpsertedIn
        <3> HIDE DEF b
        <3> QED BY <1>1, <1>3, <2>1, <2>2, <2>3, <3>1, ButUpd DEF UpsertedAs, o
    <2>4. CASE ~(buf.ups[p] = <<>> /\ buf.hist[p] # <<>>)
        <3>1. But(b, p, buf.hist[p], o, buf.upd[p], buf.attached[p], buf.dels, buf.cond)
            BY <1>1, <2>2, <2>4, ButHere, ButUps DEF UpsertedIn
        <3> HIDE DEF b
        <3> QED BY <1>1, <1>3, <2>1, <2>2, <2>4, <3>1, ButUpd DEF UpsertedAs, o
    <2> QED BY <2>3, <2>4
<1> QED BY <1>2, <1>3

LEMMA ContactsUpdateDoes ==
    ASSUME BufferInv, NEW p \in Contacts, ContactsUpdate(p)
    PROVE  \/ Shown("contacts.update", p, view[p] \o W, direct[p] \o W)
           \/ Taken("contacts.update", p, direct[p] \o W) /\ Merged(buf', p, buf.dels)
<1>1. p \in Things
    BY DEF Things
<1>2. Shown("contacts.update", p, view[p] \o W, direct[p] \o W) \/ Taken("contacts.update", p, direct[p] \o W)
    BY <1>1, Emitted DEF ContactsUpdate, Emit, Assigns
<1>3. Taken("contacts.update", p, direct[p] \o W) => buf' = MergedFirst(p)
    BY DEF ContactsUpdate, Emit, Taken
<1> QED BY <1>1, <1>2, <1>3, MergedIs

LEMMA MessagesUpsertDoes ==
    ASSUME BufferInv, NEW m \in Messages, MessagesUpsert(m)
    PROVE  \/ Shown("messages.upsert", m, W, W)
           \/ /\ Taken("messages.upsert", m, W)
              /\ \/ /\ buf.hist[m] # <<>>
                    /\ But(buf', m, W \o buf.upd[m], buf.ups[m], <<>>, buf.attached[m], buf.dels, buf.cond)
                 \/ /\ buf.hist[m] = <<>>
                    /\ But(buf', m, buf.hist[m], W \o buf.upd[m], <<>>, buf.attached[m], buf.dels, buf.cond)
<1>1. m \in Things
    BY DEF Things
<1>2. Shown("messages.upsert", m, W, W) \/ Taken("messages.upsert", m, W)
    BY <1>1, Emitted DEF MessagesUpsert, Emit, Replaces
<1>3. CASE Taken("messages.upsert", m, W)
    <2> DEFINE o == W \o buf.upd[m]
               b1 == [buf EXCEPT !.hist[m] = o]
               b2 == [buf EXCEPT !.ups[m] = o]
    <2>1. /\ buf.hist[m] # <<>> => buf' = [b1 EXCEPT !.upd[m] = <<>>]
          /\ buf.hist[m] = <<>> => buf' = [b2 EXCEPT !.upd[m] = <<>>]
        BY <1>3 DEF MessagesUpsert, Emit, Taken
    <2>2. o \in Seq(Nat) /\ <<>> \in Seq(Nat)
        BY <1>1, BufTyped, ButHere
    <2> HIDE DEF o
    <2>3. But(b1, m, o, buf.ups[m], buf.upd[m], buf.attached[m], buf.dels, buf.cond)
        BY <1>1, <2>2, ButHere, ButHist
    <2>4. But(b2, m, buf.hist[m], o, buf.upd[m], buf.attached[m], buf.dels, buf.cond)
        BY <1>1, <2>2, ButHere, ButUps
    <2> HIDE DEF b1, b2
    <2>5. But([b1 EXCEPT !.upd[m] = <<>>], m, o, buf.ups[m], <<>>, buf.attached[m], buf.dels, buf.cond)
        BY <1>1, <2>2, <2>3, ButUpd
    <2>6. But([b2 EXCEPT !.upd[m] = <<>>], m, buf.hist[m], o, <<>>, buf.attached[m], buf.dels, buf.cond)
        BY <1>1, <2>2, <2>4, ButUpd
    <2> QED BY <1>3, <2>1, <2>5, <2>6 DEF o
<1> QED BY <1>2, <1>3

LEMMA MessagesUpdateDoes ==
    ASSUME BufferInv, NEW m \in Messages, MessagesUpdate(m)
    PROVE  \/ Shown("messages.update", m, Updated(m, view[m], W), Updated(m, direct[m], W))
           \/ Taken("messages.update", m, Updated(m, direct[m], W)) /\ Merged(buf', m, buf.dels)
<1>1. m \in Things
    BY DEF Things
<1>2. \/ Shown("messages.update", m, Updated(m, view[m], W), Updated(m, direct[m], W))
      \/ Taken("messages.update", m, Updated(m, direct[m], W))
    BY <1>1, Emitted DEF MessagesUpdate, Emit
<1>3. CASE Taken("messages.update", m, Updated(m, direct[m], W))
    <2> DEFINE b == MergedFirst(m)
    <2>1. Merged(b, m, buf.dels) /\ buf.dels \in SUBSET Things
        BY <1>1, MergedIs, ButHere
    <2>2. buf' = b
        BY <1>3 DEF MessagesUpdate, Emit, Taken
    <2> QED BY <1>3, <2>1, <2>2
<1> QED BY <1>2, <1>3

LEMMA MessagesDeleteDoes ==
    ASSUME BufferInv, NEW m \in Messages, MessagesDelete(m)
    PROVE  \/ Shown("messages.delete", m, <<>>, <<>>)
           \/ /\ Taken("messages.delete", m, <<>>)
              /\ But(buf', m, buf.hist[m], <<>>, <<>>, buf.attached[m], buf.dels \cup {m}, buf.cond)
<1>1. m \in Things
    BY DEF Things
<1>2. Shown("messages.delete", m, <<>>, <<>>) \/ Taken("messages.delete", m, <<>>)
    BY <1>1, Emitted DEF MessagesDelete, Emit, Removes
<1>3. CASE Taken("messages.delete", m, <<>>)
    <2> DEFINE b1 == [buf EXCEPT !.dels = buf.dels \cup {m}]
               b2 == [b1 EXCEPT !.ups[m] = <<>>]
    <2>0. buf.dels \cup {m} \in SUBSET Things /\ <<>> \in Seq(Nat)
        BY <1>1, ButHere
    <2>1. buf' = [b2 EXCEPT !.upd[m] = <<>>]
        BY <1>3 DEF MessagesDelete, Emit, Taken
    <2>2. But(b1, m, buf.hist[m], buf.ups[m], buf.upd[m], buf.attached[m], buf.dels \cup {m}, buf.cond)
        BY <1>1, <2>0, ButHere, ButDels
    <2> HIDE DEF b1
    <2>3. But(b2, m, buf.hist[m], <<>>, buf.upd[m], buf.attached[m], buf.dels \cup {m}, buf.cond)
        BY <1>1, <2>0, <2>2, ButUps
    <2> HIDE DEF b2
    <2>4. But([b2 EXCEPT !.upd[m] = <<>>], m, buf.hist[m], <<>>, <<>>, buf.attached[m], buf.dels \cup {m}, buf.cond)
        BY <1>1, <2>0, <2>3, ButUpd
    <2> QED BY <1>3, <2>1, <2>4
<1> QED BY <1>2, <1>3

LEMMA MessagesAttachDoes ==
    ASSUME BufferInv, NEW m \in Messages, MessagesAttach(m)
    PROVE  \/ Shown("messages.reaction", m, Updated(m, view[m], W), Updated(m, direct[m], W))
           \/ /\ Taken("messages.reaction", m, Updated(m, direct[m], W))
              /\ \/ /\ buf.ups[m] # <<>>
                    /\ But(buf', m, buf.hist[m], buf.ups[m] \o W, buf.upd[m], buf.attached[m], buf.dels, buf.cond)
                 \/ /\ buf.ups[m] = <<>>
                    /\ But(buf', m, buf.hist[m], buf.ups[m], buf.upd[m], buf.attached[m] \o W, buf.dels, buf.cond)
<1>1. m \in Things
    BY DEF Things
<1>2. \/ Shown("messages.reaction", m, Updated(m, view[m], W), Updated(m, direct[m], W))
      \/ Taken("messages.reaction", m, Updated(m, direct[m], W))
    BY <1>1, Emitted DEF MessagesAttach, Emit
<1>3. CASE Taken("messages.reaction", m, Updated(m, direct[m], W))
    <2>1. /\ buf.ups[m] # <<>> => buf' = [buf EXCEPT !.ups[m] = buf.ups[m] \o W]
          /\ buf.ups[m] = <<>> => buf' = [buf EXCEPT !.attached[m] = buf.attached[m] \o W]
        BY <1>3 DEF MessagesAttach, Emit, Taken
    <2>2. buf.ups[m] \o W \in Seq(Nat) /\ buf.attached[m] \o W \in Seq(Nat)
        BY <1>1, BufTyped
    <2>3. But([buf EXCEPT !.ups[m] = buf.ups[m] \o W], m, buf.hist[m], buf.ups[m] \o W, buf.upd[m], buf.attached[m], buf.dels, buf.cond)
        BY <1>1, <2>2, ButHere, ButUps
    <2>4. But([buf EXCEPT !.attached[m] = buf.attached[m] \o W], m, buf.hist[m], buf.ups[m], buf.upd[m], buf.attached[m] \o W, buf.dels, buf.cond)
        BY <1>1, <2>2, ButHere, ButAttached
    <2> QED BY <1>3, <2>1, <2>3, <2>4
<1> QED BY <1>2, <1>3

LEMMA GroupsUpdateDoes ==
    ASSUME BufferInv, NEW g \in Groups, GroupsUpdate(g)
    PROVE  \/ Shown("groups.update", g, view[g] \o W, direct[g] \o W)
           \/ /\ Taken("groups.update", g, direct[g] \o W)
              /\ \E d \in {buf.upd[g], W} :
                    But(buf', g, buf.hist[g], buf.ups[g], d, buf.attached[g], buf.dels, buf.cond)
<1>1. g \in Things
    BY DEF Things
<1>2. Shown("groups.update", g, view[g] \o W, direct[g] \o W) \/ Taken("groups.update", g, direct[g] \o W)
    BY <1>1, Emitted DEF GroupsUpdate, Emit, Assigns
<1>3. CASE Taken("groups.update", g, direct[g] \o W)
    <2>1. buf' = [buf EXCEPT !.upd[g] = W] \/ buf' = buf
        BY <1>3 DEF GroupsUpdate, Emit, Taken
    <2>2. But([buf EXCEPT !.upd[g] = W], g, buf.hist[g], buf.ups[g], W, buf.attached[g], buf.dels, buf.cond)
        BY <1>1, BufTyped, ButHere, ButUpd
    <2>3. But(buf, g, buf.hist[g], buf.ups[g], buf.upd[g], buf.attached[g], buf.dels, buf.cond)
        BY <1>1, ButHere
    <2> QED BY <1>3, <2>1, <2>2, <2>3
<1> QED BY <1>2, <1>3
-----------------------------------------------------------------------------
(***************************************************************************)
(* History, and what an event leaves alone: all other things.              *)
(***************************************************************************)
\* What the buffer makes of history.
HistoryTaken(x) ==
    \/ /\ refused' = refused
       /\ But(buf', x, buf.hist[x], buf.ups[x], buf.upd[x], buf.attached[x], buf.dels, buf.cond)
    \/ /\ x \notin Chats /\ refused' = refused
       /\ But(buf', x, buf.hist[x] \o W, buf.ups[x], buf.upd[x], buf.attached[x], buf.dels, buf.cond)
    \/ /\ x \in Chats /\ buf.hist[x] = <<>> /\ refused' = refused \cup RefusedBy(x)
       /\ But(buf', x, Absorbed(x, W), buf.ups[x], <<>>, buf.attached[x], buf.dels, buf.cond \ {x})

LEMMA HistorySetDoes ==
    ASSUME BufferInv, NEW x \in Chats \cup Messages \cup Contacts, NEW named \in BOOLEAN, HistorySet(x, named)
    PROVE  /\ cache' \subseteq cache \cup {x} /\ waited' = waited
           /\ \/ Shown("messaging-history.set", x, view[x] \o W, direct[x] \o W) /\ refused' = refused
              \/ Taken("messaging-history.set", x, direct[x] \o W) /\ HistoryTaken(x)
<1> DEFINE new == buf.hist[x] = <<>> /\ (x \notin cache \/ named)
<1>1. x \in Things
    BY DEF Things
<1>2. \/ Shown("messaging-history.set", x, view[x] \o W, direct[x] \o W)
      \/ Taken("messaging-history.set", x, direct[x] \o W)
    BY <1>1, Emitted DEF HistorySet, Emit, Assigns
<1>3. cache' \subseteq cache \cup {x} /\ waited' = waited
    BY DEF HistorySet
<1>4. CASE Shown("messaging-history.set", x, view[x] \o W, direct[x] \o W)
    BY <1>3, <1>4 DEF HistorySet, Shown, StaysSo
<1>5. CASE Taken("messaging-history.set", x, direct[x] \o W)
    <2>1. /\ buf.hist[x] # <<>> /\ x \in Contacts => buf' = [buf EXCEPT !.hist[x] = buf.hist[x] \o W]
          /\ ~(buf.hist[x] # <<>> /\ x \in Contacts) /\ ~new => buf' = buf
          /\ new /\ x \in Chats => buf' = Unpend([buf EXCEPT !.hist[x] = Absorbed(x, W)], x)
          /\ new /\ x \notin Chats => buf' = [buf EXCEPT !.hist[x] = W]
          /\ refused' = IF new THEN refused \cup RefusedBy(x) ELSE refused
        BY <1>5 DEF HistorySet, Emit, Taken
    <2>2. /\ But(buf, x, buf.hist[x], buf.ups[x], buf.upd[x], buf.attached[x], buf.dels, buf.cond)
          /\ W \in Seq(Nat) /\ buf.hist[x] \o W \in Seq(Nat) /\ Absorbed(x, W) \in Seq(Nat) /\ <<>> \o W = W
        BY <1>1, BufTyped, ButHere DEF Absorbed
    <2>3. CASE buf.hist[x] # <<>> /\ x \in Contacts
        <3>1. But([buf EXCEPT !.hist[x] = buf.hist[x] \o W], x, buf.hist[x] \o W, buf.ups[x], buf.upd[x], buf.attached[x], buf.dels, buf.cond)
            BY <1>1, <2>2, ButHist
        <3>2. x \notin Chats
            BY <2>3, ThingsApart
        <3> QED BY <1>3, <1>5, <2>1, <2>3, <3>1, <3>2 DEF HistoryTaken
    <2>4. CASE ~(buf.hist[x] # <<>> /\ x \in Contacts) /\ ~new
        BY <1>3, <1>5, <2>1, <2>2, <2>4 DEF HistoryTaken
    <2>5. CASE new /\ x \in Chats
        <3>1. But([buf EXCEPT !.hist[x] = Absorbed(x, W)], x, Absorbed(x, W), buf.ups[x], buf.upd[x], buf.attached[x], buf.dels, buf.cond)
            BY <1>1, <2>2, ButHist
        <3>2. But(Unpend([buf EXCEPT !.hist[x] = Absorbed(x, W)], x), x, Absorbed(x, W), buf.ups[x], <<>>, buf.attached[x], buf.dels, buf.cond \ {x})
            BY <2>5, <3>1, ButUnpended
        <3> QED BY <1>3, <1>5, <2>1, <2>5, <3>2 DEF HistoryTaken
    <2>6. CASE new /\ x \notin Chats
        <3>1. But([buf EXCEPT !.hist[x] = W], x, W, buf.ups[x], buf.upd[x], buf.attached[x], buf.dels, buf.cond)
            BY <1>1, <2>2, ButHist
        <3>2. RefusedBy(x) = {}
            BY <2>6, ButHere, <1>1 DEF RefusedBy, Refuses
        <3> QED BY <1>3, <1>5, <2>1, <2>2, <2>6, <3>1, <3>2 DEF HistoryTaken
    <2> QED BY <2>3, <2>4, <2>5, <2>6
<1> QED BY <1>2, <1>4, <1>5, <1>3

\* What the log grows by, and what of all other things stays.
Others(x) ==
    \A y \in Things \ {x} :
        /\ buf'.hist[y] = buf.hist[y] /\ buf'.ups[y] = buf.ups[y] /\ buf'.upd[y] = buf.upd[y]
        /\ buf'.attached[y] = buf.attached[y] /\ view'[y] = view[y] /\ direct'[y] = direct[y]
        /\ (y \in buf'.dels <=> y \in buf.dels) /\ (y \in buf'.cond <=> y \in buf.cond)

\* The event is in the log, after all others.
LogGrows(k, x) ==
    /\ Len(log') = w /\ DOMAIN log' = DOMAIN log \cup {w} /\ log'[w] = [kind |-> k, on |-> x]
    /\ \A i \in DOMAIN log : log'[i] = log[i]

Has(x, h, u, d, a, v, p, del, con) ==
    /\ buf'.hist[x] = h /\ buf'.ups[x] = u /\ buf'.upd[x] = d /\ buf'.attached[x] = a
    /\ view'[x] = v /\ direct'[x] = p /\ buf'.dels = del /\ buf'.cond = con

\* Of the deletes and of the conditionals, only those of x may change.
Beside(x, del, con) == del \ {x} = buf.dels \ {x} /\ con \ {x} = buf.cond \ {x}

LEMMA EmitFrame ==
    ASSUME BufferInv, NEW k, NEW x, NEW v \in Seq(Nat), NEW p \in Seq(Nat), Emits(k, x, v, p),
           NEW h, NEW u, NEW d, NEW a, NEW del, NEW con, But(buf', x, h, u, d, a, del, con),
           Beside(x, del, con)
    PROVE  Others(x) /\ LogGrows(k, x) /\ Has(x, h, u, d, a, v, p, del, con)
<1>1. x \in Things /\ log' = Append(log, [kind |-> k, on |-> x])
    BY DEF Emits
<1>2. log \in Seq([kind : Kinds, on : Things])
    BY DEF BufferInv
<1>3. LogGrows(k, x)
    <2> DEFINE e == [kind |-> k, on |-> x]
    <2>1. e \in [kind : Kinds, on : Things]
        BY DEF Emits
    <2> HIDE DEF e
    <2>2. log' = Append(log, e)
        BY <1>1 DEF e
    <2>3. Len(log') = w /\ DOMAIN log' = DOMAIN log \cup {w} /\ log'[w] = e /\ \A i \in DOMAIN log : log'[i] = log[i]
        <3>1. /\ Len(log) \in Nat /\ DOMAIN log = 1 .. Len(log) /\ Len(log') = Len(log) + 1
              /\ DOMAIN log' = 1 .. Len(log) + 1 /\ log'[Len(log) + 1] = e
              /\ \A i \in 1 .. Len(log) : log'[i] = log[i]
            BY <1>2, <2>1, <2>2
        <3>2. 1 .. Len(log) + 1 = (1 .. Len(log)) \cup {Len(log) + 1}
            BY <3>1
        <3> QED BY <3>1, <3>2 DEF w
    <2> QED BY <2>3 DEF LogGrows, e
<1>4. /\ buf.hist \in [Things -> Seq(Nat)] /\ buf.ups \in [Things -> Seq(Nat)]
      /\ buf.upd \in [Things -> Seq(Nat)] /\ buf.attached \in [Things -> Seq(Nat)]
      /\ view \in [Things -> Seq(Nat)] /\ direct \in [Things -> Seq(Nat)]
    BY DEF BufferInv, BufStates
<1>5. Others(x)
    <2> SUFFICES ASSUME NEW y \in Things, y # x
                 PROVE  /\ buf'.hist[y] = buf.hist[y] /\ buf'.ups[y] = buf.ups[y] /\ buf'.upd[y] = buf.upd[y]
                        /\ buf'.attached[y] = buf.attached[y] /\ view'[y] = view[y] /\ direct'[y] = direct[y]
                        /\ (y \in buf'.dels <=> y \in buf.dels) /\ (y \in buf'.cond <=> y \in buf.cond)
        BY DEF Others
    <2>1. /\ buf'.hist[y] = buf.hist[y] /\ buf'.ups[y] = buf.ups[y] /\ buf'.upd[y] = buf.upd[y]
          /\ buf'.attached[y] = buf.attached[y] /\ view'[y] = view[y] /\ direct'[y] = direct[y]
        BY <1>1, <1>4 DEF But, Emits
    <2>2. buf'.dels = del /\ buf'.cond = con
        BY DEF But
    <2> QED BY <2>1, <2>2 DEF Beside
<1>6. Has(x, h, u, d, a, v, p, del, con)
    BY <1>1, <1>4 DEF Has, But, Emits
<1> QED BY <1>3, <1>5, <1>6
-----------------------------------------------------------------------------
(***************************************************************************)
(* The types: what the buffer and the application hold of a thing was      *)
(* emitted for it.                                                         *)
(***************************************************************************)
\* All of an object's writes were emitted for x.
Ours(o, x) == o \in Seq(Nat) /\ Writes(o) \subseteq OnThing(x) \cup {w}
KindFits(k, x) == (x \in Chats => k \in ChatKinds) /\ (x \in Contacts => k \in ContactKinds) /\ (x \in Messages => k \in MessageKinds)
PlaceFits(x, a, del) == (x \notin Messages => a = <<>>) /\ del \subseteq Chats \cup Messages
BufferedOnly == buffering \/ buf' = buf

LEMMA EmitTyped ==
    ASSUME BufferInv, NEW k, NEW x, NEW v, NEW p, Emits(k, x, v, p),
           NEW h, NEW u, NEW d, NEW a, NEW del, NEW con, But(buf', x, h, u, d, a, del, con),
           Beside(x, del, con),
           Ours(v, x), Ours(p, x), Ours(h, x), Ours(u, x), Ours(d, x), Ours(a, x),
           KindFits(k, x), PlaceFits(x, a, del), BufferedOnly, cache' \subseteq Things
    PROVE  BufferInv'
<1>1. Others(x) /\ LogGrows(k, x) /\ Has(x, h, u, d, a, v, p, del, con)
    BY EmitFrame DEF Ours
<1>2. x \in Things /\ k \in Kinds /\ log' = Append(log, [kind |-> k, on |-> x])
    BY DEF Emits
<1>3. buf' \in BufStates
    BY DEF But
<1>4. view' \in [Things -> Seq(Nat)] /\ direct' \in [Things -> Seq(Nat)]
    BY <1>2 DEF Emits, Ours, BufferInv
<1>5. log' \in Seq([kind : Kinds, on : Things])
    BY <1>2 DEF BufferInv
<1>6. \A i \in DOMAIN log' :
          /\ log'[i].on \in Chats => log'[i].kind \in ChatKinds
          /\ log'[i].on \in Contacts => log'[i].kind \in ContactKinds
          /\ log'[i].on \in Messages => log'[i].kind \in MessageKinds
    <2> SUFFICES ASSUME NEW i \in DOMAIN log'
                 PROVE  /\ log'[i].on \in Chats => log'[i].kind \in ChatKinds
                        /\ log'[i].on \in Contacts => log'[i].kind \in ContactKinds
                        /\ log'[i].on \in Messages => log'[i].kind \in MessageKinds
        OBVIOUS
    <2>1. CASE i = w
        BY <1>1, <2>1 DEF LogGrows, KindFits
    <2>2. CASE i # w
        <3>1. i \in DOMAIN log /\ log'[i] = log[i]
            BY <1>1, <2>2 DEF LogGrows
        <3> QED BY <3>1 DEF BufferInv
    <2> QED BY <2>1, <2>2
<1>7. depth' \in Nat /\ running' \in Nat /\ buffering' \in BOOLEAN /\ safety' = buffering' /\ buffering' = buffering
    <2>1. UNCHANGED <<depth, running, buffering, safety>>
        BY DEF Emits, control
    <2> QED BY <2>1 DEF BufferInv
<1>8. ASSUME NEW y \in Things PROVE OnThing(y) \subseteq OnThing(y)'
    BY <1>1 DEF LogGrows, OnThing
<1>9. OnThing(x) \cup {w} \subseteq OnThing(x)'
    <2>1. w \in OnThing(x)'
        BY <1>1 DEF LogGrows, OnThing
    <2> QED BY <1>2, <1>8, <2>1
<1>10. ASSUME NEW y \in Things PROVE OwnWrites(y)'
    <2>1. CASE y = x
        BY <1>1, <1>9, <2>1 DEF Has, Ours, OwnWrites
    <2>2. CASE y # x
        <3>1. OwnWrites(y)
            BY DEF BufferInv
        <3>2. /\ buf'.hist[y] = buf.hist[y] /\ buf'.ups[y] = buf.ups[y] /\ buf'.upd[y] = buf.upd[y]
              /\ buf'.attached[y] = buf.attached[y] /\ view'[y] = view[y] /\ direct'[y] = direct[y]
            BY <1>1, <2>2 DEF Others
        <3> QED BY <1>8, <3>1, <3>2 DEF OwnWrites
    <2> QED BY <2>1, <2>2
<1>11. ASSUME NEW y \in Things, y \notin Messages PROVE buf'.attached[y] = <<>>
    BY <1>1, <1>11 DEF BufferInv, Has, Others, PlaceFits
<1>12. buf'.dels \subseteq Chats \cup Messages
    BY <1>1 DEF Has, PlaceFits
<1>13. buffering' \/ \A y \in Things : HoldsNothing(y)'
    BY <1>7 DEF BufferedOnly, BufferInv, HoldsNothing
<1> HIDE DEF BufStates
<1> QED BY <1>3, <1>4, <1>5, <1>6, <1>7, <1>10, <1>11, <1>12, <1>13 DEF BufferInv

\* What a thing has is its own.
LEMMA HereOurs ==
    ASSUME BufferInv, NEW x \in Things
    PROVE  /\ Ours(view[x], x) /\ Ours(direct[x], x) /\ Ours(buf.hist[x], x) /\ Ours(buf.ups[x], x)
           /\ Ours(buf.upd[x], x) /\ Ours(buf.attached[x], x) /\ Ours(W, x) /\ Ours(<<>>, x)
           /\ PlaceFits(x, buf.attached[x], buf.dels)
<1>1. OwnWrites(x)
    BY DEF BufferInv
<1> QED BY <1>1, BufTyped, WritesNone DEF Ours, OwnWrites, PlaceFits, BufferInv

LEMMA JoinOurs ==
    ASSUME NEW x, NEW o, NEW p, Ours(o, x), Ours(p, x)
    PROVE  Ours(o \o p, x)
<1>1. Joins(o, p)
    BY WritesJoin DEF Ours
<1> QED BY <1>1 DEF Joins, Ours

LEMMA ShownTyped ==
    ASSUME BufferInv, NEW k, NEW x \in Things, NEW v, NEW p, Shown(k, x, v, p),
           Ours(v, x), Ours(p, x), KindFits(k, x), cache' \subseteq Things
    PROVE  BufferInv'
<1> DEFINE h == buf.hist[x]
           u == buf.ups[x]
           d == buf.upd[x]
           a == buf.attached[x]
           del == buf.dels
           con == buf.cond
<1>1. Emits(k, x, v, p) /\ But(buf', x, h, u, d, a, del, con) /\ BufferedOnly
    BY DEF Shown, StaysSo, BufferedOnly
<1>2. Ours(h, x) /\ Ours(u, x) /\ Ours(d, x) /\ Ours(a, x) /\ PlaceFits(x, a, del)
    BY HereOurs
<1>3. Beside(x, del, con)
    BY DEF Beside
<1> HIDE DEF h, u, d, a, del, con
<1> QED BY <1>1, <1>2, <1>3, EmitTyped

LEMMA TakenTyped ==
    ASSUME BufferInv, NEW k, NEW x \in Things, NEW p, Taken(k, x, p),
           NEW h, NEW u, NEW d, NEW a, NEW del, NEW con, But(buf', x, h, u, d, a, del, con),
           Beside(x, del, con),
           Ours(p, x), Ours(h, x), Ours(u, x), Ours(d, x), Ours(a, x),
           KindFits(k, x), PlaceFits(x, a, del), cache' \subseteq Things
    PROVE  BufferInv'
<1> DEFINE v == view[x]
<1>1. Emits(k, x, v, p) /\ BufferedOnly /\ Ours(v, x)
    BY HereOurs DEF Taken, BufferedOnly
<1> HIDE DEF v
<1> QED BY <1>1, EmitTyped

\* The same, for a step that says all of it.
TypedTaking(k, x, p, h, u, d, a, del, con) ==
    /\ Taken(k, x, p) /\ But(buf', x, h, u, d, a, del, con) /\ Beside(x, del, con)
    /\ Ours(p, x) /\ Ours(h, x) /\ Ours(u, x) /\ Ours(d, x) /\ Ours(a, x)
    /\ KindFits(k, x) /\ PlaceFits(x, a, del)

LEMMA TakingTyped ==
    ASSUME BufferInv, NEW k, NEW x \in Things, NEW p, NEW h, NEW u, NEW d, NEW a, NEW del, NEW con,
           TypedTaking(k, x, p, h, u, d, a, del, con), cache' \subseteq Things
    PROVE  BufferInv'
<1>1. /\ Taken(k, x, p) /\ But(buf', x, h, u, d, a, del, con) /\ Beside(x, del, con)
      /\ Ours(p, x) /\ Ours(h, x) /\ Ours(u, x) /\ Ours(d, x) /\ Ours(a, x)
      /\ KindFits(k, x) /\ PlaceFits(x, a, del)
    BY DEF TypedTaking
<1> QED BY <1>1, TakenTyped

LEMMA MergedTyped ==
    ASSUME BufferInv, NEW k, NEW x \in Things, NEW p, Taken(k, x, p), NEW del, Merged(buf', x, del),
           Beside(x, del, buf.cond), Ours(p, x), KindFits(k, x), PlaceFits(x, buf.attached[x], del), cache' \subseteq Things
    PROVE  BufferInv'
<1>1. /\ Ours(buf.hist[x], x) /\ Ours(buf.ups[x], x) /\ Ours(buf.upd[x], x) /\ Ours(buf.attached[x], x)
      /\ Ours(buf.hist[x] \o W, x) /\ Ours(buf.ups[x] \o W, x) /\ Ours(buf.upd[x] \o W, x)
    BY HereOurs, JoinOurs
<1>2. CASE But(buf', x, buf.hist[x] \o W, buf.ups[x], buf.upd[x], buf.attached[x], del, buf.cond)
    BY <1>1, <1>2, TakenTyped
<1>3. CASE But(buf', x, buf.hist[x], buf.ups[x] \o W, buf.upd[x], buf.attached[x], del, buf.cond)
    BY <1>1, <1>3, TakenTyped
<1>4. CASE But(buf', x, buf.hist[x], buf.ups[x], buf.upd[x] \o W, buf.attached[x], del, buf.cond)
    BY <1>1, <1>4, TakenTyped
<1> QED BY <1>2, <1>3, <1>4 DEF Merged

LEMMA UpsertedTyped ==
    ASSUME BufferInv, NEW k, NEW x \in Things, NEW p, Taken(k, x, p), NEW o, NEW del, NEW con, UpsertedAs(buf', x, o, del, con),
           Beside(x, del, con), Ours(p, x), Ours(o, x), KindFits(k, x),
           PlaceFits(x, buf.attached[x], del), cache' \subseteq Things
    PROVE  BufferInv'
<1>1. Ours(buf.hist[x], x) /\ Ours(buf.ups[x], x) /\ Ours(buf.attached[x], x) /\ Ours(<<>>, x)
    BY HereOurs
<1>2. CASE But(buf', x, o, buf.ups[x], <<>>, buf.attached[x], del, con)
    BY <1>1, <1>2, TakenTyped
<1>3. CASE But(buf', x, buf.hist[x], o, <<>>, buf.attached[x], del, con)
    BY <1>1, <1>3, TakenTyped
<1> QED BY <1>2, <1>3 DEF UpsertedAs
-----------------------------------------------------------------------------
(***************************************************************************)
(* The steps that are not events: those that leave buffer and application  *)
(* alone, and flushes. BufferInv is inductive.                             *)
(***************************************************************************)
\* A step that emits nothing and hands nothing over.
Quiet ==
    /\ UNCHANGED <<app, buf, cache, view>>
    /\ depth' \in Nat /\ running' \in Nat /\ buffering' \in BOOLEAN /\ safety' = buffering'
    /\ buffering => buffering'

\* A step that hands over what is buffered.
FlushedAt(x) ==
    /\ view'[x] = Applied(x)
    /\ buf'.hist[x] = <<>> /\ buf'.ups[x] = <<>> /\ buf'.attached[x] = <<>>
    /\ x \in buf.cond => buf'.upd[x] = buf.upd[x]
    /\ x \notin buf.cond => buf'.upd[x] = <<>>

Flushes ==
    /\ UNCHANGED app /\ cache' \subseteq cache
    /\ depth' \in Nat /\ running' \in Nat /\ buffering' = FALSE /\ safety' = FALSE
    /\ buf' \in BufStates /\ view' \in [Things -> Seq(Nat)]
    /\ buf'.dels = {} /\ buf'.cond = buf.cond
    /\ \A x \in Things : FlushedAt(x)

\* The writes of an object that another is merged into, where there is one.
LEMMA UpdatedOurs ==
    ASSUME NEW x, NEW o, NEW p, Ours(o, x), Ours(p, x), <<>> \in Seq(Nat)
    PROVE  Ours(Updated(x, o, p), x)
<1>1. Ours(o \o p, x)
    BY JoinOurs
<1>2. Ours(<<>>, x)
    BY WritesNone DEF Ours
<1> QED BY <1>1, <1>2 DEF Updated

LEMMA AppliedOurs ==
    ASSUME BufferInv, NEW x \in Things
    PROVE  Applied(x) \in Seq(Nat) /\ Writes(Applied(x)) \subseteq OnThing(x)
<1> DEFINE Own(o) == o \in Seq(Nat) /\ Writes(o) \subseteq OnThing(x)
<1>1. /\ Own(view[x]) /\ Own(buf.hist[x]) /\ Own(buf.ups[x]) /\ Own(buf.upd[x]) /\ Own(buf.attached[x]) /\ Own(<<>>)
    BY BufTyped, WritesNone DEF BufferInv, OwnWrites
<1>2. ASSUME NEW o, NEW p, Own(o), Own(p) PROVE Own(o \o p)
    <2>1. Joins(o, p)
        BY <1>2, WritesJoin
    <2> QED BY <1>2, <2>1 DEF Joins
<1>3. ASSUME NEW o, NEW p, Own(o), Own(p) PROVE Own(Updated(x, o, p))
    <2>1. Own(o \o p)
        BY <1>2, <1>3
    <2> HIDE DEF Own
    <2> QED BY <1>1, <2>1 DEF Updated
<1> HIDE DEF Own
<1> DEFINE before == view[x] \o buf.hist[x]
           upserted == IF x \in Messages /\ buf.ups[x] # <<>> THEN buf.ups[x] ELSE before \o buf.ups[x]
           updated == IF x \in buf.cond THEN upserted ELSE Updated(x, upserted, buf.upd[x])
           kept == IF x \in buf.dels THEN <<>> ELSE updated
<1>4. Own(before)
    BY <1>1, <1>2
<1>5. Own(before \o buf.ups[x])
    <2> HIDE DEF before
    <2> QED BY <1>1, <1>2, <1>4
<1>6. Own(upserted)
    BY <1>1, <1>5
<1>7. Own(Updated(x, upserted, buf.upd[x]))
    <2> HIDE DEF upserted
    <2> QED BY <1>1, <1>3, <1>6
<1>8. Own(updated)
    <2> HIDE DEF upserted
    <2> QED BY <1>6, <1>7
<1>9. Own(kept)
    <2> HIDE DEF updated
    <2> QED BY <1>1, <1>8
<1>10. Own(Updated(x, kept, buf.attached[x]))
    <2> HIDE DEF kept
    <2> QED BY <1>1, <1>3, <1>9
<1>11. Applied(x) = Updated(x, kept, buf.attached[x])
    BY DEF Applied
<1>12. Own(Applied(x))
    BY <1>10, <1>11
<1> QED BY <1>12 DEF Own

LEMMA FlushDoes ==
    ASSUME BufferInv, Flush, running' \in Nat
    PROVE  Flushes
<1>1. buf' = Held /\ view' = [x \in Things |-> Applied(x)]
    BY DEF Flush
<1>2. buf \in BufStates
    BY DEF BufferInv
<1> DEFINE kept == [x \in Things |-> IF x \in buf.cond THEN buf.upd[x] ELSE <<>>]
<1>3. kept \in [Things -> Seq(Nat)] /\ Nothing \in [Things -> Seq(Nat)]
    BY <1>2, ButHere, WritesNone DEF BufStates, Nothing
<1> DEFINE f == FreshState
           g == [f EXCEPT !.upd = kept]
           h == [g EXCEPT !.cond = buf.cond]
<1>4. f \in BufStates /\ f.hist = Nothing /\ f.ups = Nothing /\ f.dels = {} /\ f.attached = Nothing
    BY <1>3 DEF FreshState, BufStates
<1>5. Held = [h EXCEPT !.valid = buf.valid]
    BY DEF Held
<1> HIDE DEF kept, f
<1>6. g \in BufStates /\ g.hist = Nothing /\ g.ups = Nothing /\ g.upd = kept /\ g.dels = {} /\ g.attached = Nothing
    BY <1>3, <1>4 DEF BufStates
<1> HIDE DEF g
<1>7. /\ h \in BufStates /\ h.hist = Nothing /\ h.ups = Nothing /\ h.upd = kept /\ h.dels = {} /\ h.attached = Nothing
       /\ h.cond = buf.cond
    BY <1>2, <1>6 DEF BufStates
<1> HIDE DEF h
<1>8. /\ buf' \in BufStates
      /\ buf'.hist = Nothing /\ buf'.ups = Nothing /\ buf'.upd = kept /\ buf'.dels = {}
      /\ buf'.attached = Nothing /\ buf'.cond = buf.cond
    BY <1>1, <1>2, <1>5, <1>7 DEF BufStates
<1>9. ASSUME NEW x \in Things PROVE FlushedAt(x)
    BY <1>1, <1>8 DEF FlushedAt, Nothing, kept
<1>10. view' \in [Things -> Seq(Nat)]
    BY <1>1, AppliedOurs
<1>11. cache' \subseteq cache /\ UNCHANGED app /\ depth' = 0 /\ buffering' = FALSE /\ safety' = FALSE
    BY DEF Flush
<1> HIDE DEF BufStates
<1> QED BY <1>8, <1>9, <1>10, <1>11 DEF Flushes

\* An event of the library is emitted.
Emission ==
    \/ \E x \in Chats \cup Messages \cup Contacts, named \in BOOLEAN : HistorySet(x, named)
    \/ \E c \in Chats : ChatsUpsert(c)
    \/ \E c \in Chats : ChatsUpdate(c)
    \/ \E c \in Chats, ok \in BOOLEAN : ConditionalUpdate(c, ok)
    \/ \E c \in Chats : ChatsDelete(c)
    \/ \E p \in Contacts : ContactsUpsert(p)
    \/ \E p \in Contacts : ContactsUpdate(p)
    \/ \E m \in Messages : MessagesUpsert(m)
    \/ \E m \in Messages : MessagesUpdate(m)
    \/ \E m \in Messages : MessagesDelete(m)
    \/ \E m \in Messages : MessagesAttach(m)
    \/ \E g \in Groups : GroupsUpdate(g)

\* Every step is one of these.
LEMMA StepIs ==
    ASSUME BufferInv, [Next]_vars
    PROVE  Quiet \/ Flushes \/ Emission
<1>1. depth \in Nat /\ running \in Nat /\ buffering \in BOOLEAN /\ safety = buffering
    BY DEF BufferInv
<1>2. CASE UNCHANGED vars
    BY <1>1, <1>2 DEF Quiet, vars, control
<1>3. CASE StartBuffer \/ Enter
    <2>1. Buffer /\ running' \in Nat
        BY <1>1, <1>3 DEF StartBuffer, Enter
    <2> QED BY <1>1, <2>1 DEF Quiet, Buffer
<1>4. CASE OfflineDone \/ SafetyTimer
    <2>1. Flush /\ running' \in Nat
        BY <1>1, <1>4 DEF OfflineDone, SafetyTimer
    <2> QED BY <2>1, FlushDoes
<1>5. ASSUME NEW returns \in BOOLEAN, Leave(returns) PROVE Quiet
    <2>1. running > 0 /\ running' = running - 1 /\ depth' = IF depth = 0 THEN 0 ELSE depth - 1
        BY <1>5 DEF Leave
    <2>2. running' \in Nat /\ depth' \in Nat
        BY <1>1, <2>1
    <2>3. UNCHANGED <<buffering, safety, app, buf, cache, view>>
        BY <1>5 DEF Leave
    <2> QED BY <1>1, <2>2, <2>3 DEF Quiet
<1>6. ASSUME NEW t \in Tails, TailTimer(t) PROVE Quiet \/ Flushes
    <2>1. CASE Flush
        BY <1>1, <1>6, <2>1, FlushDoes DEF TailTimer
    <2>2. CASE ~Flush
        BY <1>1, <1>6, <2>2 DEF TailTimer, Quiet
    <2> QED BY <2>1, <2>2
<1> QED BY <1>2, <1>3, <1>4, <1>5, <1>6 DEF Next, Emission

LEMMA QuietTyped == ASSUME BufferInv, Quiet PROVE BufferInv'
<1>1. UNCHANGED <<log, waited, refused, direct, buf, cache, view>>
    BY DEF Quiet, app
<1>2. \A x \in Things : OwnWrites(x)' /\ HoldsNothing(x)' = HoldsNothing(x)
    BY <1>1 DEF BufferInv, OwnWrites, OnThing, HoldsNothing
<1>3. buffering' \/ \A x \in Things : HoldsNothing(x)'
    BY <1>2 DEF BufferInv, Quiet
<1>4. depth' \in Nat /\ running' \in Nat /\ buffering' \in BOOLEAN /\ safety' = buffering'
    BY DEF Quiet
<1> QED BY <1>1, <1>2, <1>3, <1>4 DEF BufferInv

LEMMA FlushTyped == ASSUME BufferInv, Flushes PROVE BufferInv'
<1>1. log' = log /\ direct' = direct
    BY DEF Flushes, app
<1>2. ASSUME NEW x \in Things PROVE OwnWrites(x)' /\ HoldsNothing(x)'
    <2>1. FlushedAt(x) /\ buf'.dels = {} /\ buf'.cond = buf.cond
        BY DEF Flushes
    <2>2. OnThing(x)' = OnThing(x)
        BY <1>1 DEF OnThing
    <2>3. OwnWrites(x)
        BY DEF BufferInv
    <2> QED BY <1>1, <2>1, <2>2, <2>3, AppliedOurs, WritesNone DEF FlushedAt, OwnWrites, HoldsNothing
<1>3. \A x \in Things : x \notin Messages => buf'.attached[x] = <<>>
    BY DEF Flushes, FlushedAt
<1>4. /\ buf' \in BufStates /\ view' \in [Things -> Seq(Nat)] /\ buf'.dels = {} /\ cache' \subseteq cache
      /\ depth' \in Nat /\ running' \in Nat /\ buffering' = FALSE /\ safety' = FALSE
    BY DEF Flushes
<1> HIDE DEF BufStates
<1> QED BY <1>1, <1>2, <1>3, <1>4 DEF BufferInv

LEMMA EmissionTyped == ASSUME BufferInv, Emission PROVE BufferInv'
<1>0. cache \subseteq Things
    BY DEF BufferInv
<1>1. ASSUME NEW x \in Chats \cup Messages \cup Contacts, NEW named \in BOOLEAN, HistorySet(x, named) PROVE BufferInv'
    <2>1. x \in Things /\ KindFits("messaging-history.set", x)
        BY DEF Things, KindFits, ChatKinds, ContactKinds, MessageKinds
    <2>2. cache' \subseteq Things
        BY <1>0, <1>1, <2>1, HistorySetDoes
    <2>3. /\ Ours(view[x], x) /\ Ours(direct[x], x) /\ Ours(buf.hist[x], x) /\ Ours(buf.ups[x], x) /\ Ours(buf.upd[x], x)
          /\ Ours(buf.attached[x], x) /\ Ours(W, x) /\ Ours(<<>>, x) /\ PlaceFits(x, buf.attached[x], buf.dels)
          /\ Ours(view[x] \o W, x) /\ Ours(direct[x] \o W, x) /\ Ours(buf.hist[x] \o W, x)
          /\ Ours(Absorbed(x, W), x) /\ Beside(x, buf.dels, buf.cond)
        BY <2>1, HereOurs, JoinOurs DEF Absorbed, Beside
    <2>4. CASE Shown("messaging-history.set", x, view[x] \o W, direct[x] \o W)
        BY <2>1, <2>2, <2>3, <2>4, ShownTyped
    <2>5. CASE Taken("messaging-history.set", x, direct[x] \o W) /\ HistoryTaken(x)
        <3>1. CASE But(buf', x, buf.hist[x], buf.ups[x], buf.upd[x], buf.attached[x], buf.dels, buf.cond)
            BY <2>1, <2>2, <2>3, <2>5, <3>1, TakenTyped
        <3>2. CASE But(buf', x, buf.hist[x] \o W, buf.ups[x], buf.upd[x], buf.attached[x], buf.dels, buf.cond)
            BY <2>1, <2>2, <2>3, <2>5, <3>2, TakenTyped
        <3>3. CASE But(buf', x, Absorbed(x, W), buf.ups[x], <<>>, buf.attached[x], buf.dels, buf.cond \ {x})
            <4>1. Beside(x, buf.dels, buf.cond \ {x})
                BY DEF Beside
            <4> QED BY <2>1, <2>2, <2>3, <2>5, <3>3, <4>1, TakenTyped
        <3> QED BY <2>5, <3>1, <3>2, <3>3 DEF HistoryTaken
    <2> QED BY <1>1, <2>4, <2>5, HistorySetDoes
<1>2. ASSUME NEW c \in Chats PROVE
        /\ c \in Things /\ KindFits("chats.upsert", c) /\ KindFits("chats.update", c)
        /\ KindFits("conditional chats.update", c) /\ KindFits("chats.delete", c)
        /\ Ours(view[c], c) /\ Ours(direct[c], c) /\ Ours(buf.hist[c], c) /\ Ours(buf.ups[c], c) /\ Ours(buf.upd[c], c)
        /\ Ours(buf.attached[c], c) /\ Ours(W, c) /\ Ours(<<>>, c) /\ PlaceFits(c, buf.attached[c], buf.dels)
        /\ Ours(view[c] \o W, c) /\ Ours(direct[c] \o W, c)
        /\ PlaceFits(c, buf.attached[c], buf.dels \ {c}) /\ PlaceFits(c, buf.attached[c], buf.dels \cup {c})
        /\ Beside(c, buf.dels \ {c}, buf.cond) /\ Beside(c, buf.dels \ {c}, buf.cond \ {c})
        /\ Beside(c, buf.dels \ {c}, buf.cond \cup {c}) /\ Beside(c, buf.dels \cup {c}, buf.cond \ {c})
    <2>1. c \in Things /\ c \notin Contacts /\ c \notin Messages
        BY ThingsApart DEF Things
    <2>2. KindFits("chats.upsert", c) /\ KindFits("chats.update", c)
          /\ KindFits("conditional chats.update", c) /\ KindFits("chats.delete", c)
        BY <2>1 DEF KindFits, ChatKinds
    <2>3. PlaceFits(c, buf.attached[c], buf.dels \ {c}) /\ PlaceFits(c, buf.attached[c], buf.dels \cup {c})
        BY <2>1, HereOurs DEF PlaceFits
    <2>4. Ours(view[c] \o W, c) /\ Ours(direct[c] \o W, c)
        BY <2>1, HereOurs, JoinOurs
    <2>5. /\ Beside(c, buf.dels \ {c}, buf.cond) /\ Beside(c, buf.dels \ {c}, buf.cond \ {c})
          /\ Beside(c, buf.dels \ {c}, buf.cond \cup {c}) /\ Beside(c, buf.dels \cup {c}, buf.cond \ {c})
        BY DEF Beside
    <2> QED BY <2>1, <2>2, <2>3, <2>4, <2>5, HereOurs
<1>3. ASSUME NEW c \in Chats, ChatsUpsert(c) PROVE BufferInv'
    <2>1. cache' \subseteq Things
        BY <1>0, <1>3 DEF ChatsUpsert
    <2>2. Ours(Absorbed(c, UpsertBase(c) \o W), c)
        <3>1. Ours(UpsertBase(c) \o W, c)
            BY <1>2, JoinOurs DEF UpsertBase
        <3> QED BY <1>2, <3>1, JoinOurs DEF Absorbed
    <2>3. CASE Shown("chats.upsert", c, view[c] \o W, direct[c] \o W)
        BY <1>2, <2>1, <2>3, ShownTyped
    <2>4. CASE /\ Taken("chats.upsert", c, direct[c] \o W)
               /\ UpsertedAs(buf', c, Absorbed(c, UpsertBase(c) \o W), buf.dels \ {c}, buf.cond \ {c})
        <3> DEFINE o == Absorbed(c, UpsertBase(c) \o W)
                   p == direct[c] \o W
                   del == buf.dels \ {c}
                   con == buf.cond \ {c}
        <3>1. /\ Taken("chats.upsert", c, p) /\ UpsertedAs(buf', c, o, del, con) /\ Ours(o, c) /\ Ours(p, c)
              /\ Beside(c, del, con) /\ PlaceFits(c, buf.attached[c], del)
            BY <1>2, <2>2, <2>4
        <3> HIDE DEF o, p, del, con
        <3> QED BY <1>2, <2>1, <3>1, UpsertedTyped
    <2> QED BY <1>3, <2>3, <2>4, ChatsUpsertDoes
<1>4. ASSUME NEW c \in Chats, ChatsUpdate(c) PROVE BufferInv'
    <2>1. cache' \subseteq Things
        BY <1>0, <1>4 DEF ChatsUpdate
    <2>2. CASE Shown("chats.update", c, view[c] \o W, direct[c] \o W)
        BY <1>2, <2>1, <2>2, ShownTyped
    <2>3. CASE Taken("chats.update", c, direct[c] \o W) /\ Merged(buf', c, buf.dels \ {c})
        BY <1>2, <2>1, <2>3, MergedTyped
    <2> QED BY <1>4, <2>2, <2>3, ChatsUpdateDoes
<1>5. ASSUME NEW c \in Chats, NEW ok \in BOOLEAN, ConditionalUpdate(c, ok) PROVE BufferInv'
    <2>1. cache' \subseteq Things
        BY <1>0, <1>5 DEF ConditionalUpdate
    <2>2. CASE Shown("conditional chats.update", c, view[c] \o W, direct[c] \o W)
        BY <1>2, <2>1, <2>2, ShownTyped
    <2>3. CASE Taken("conditional chats.update", c, direct[c] \o W) /\ ConditionalTaken(c, ok)
        <3> DEFINE p == direct[c] \o W
                   del == buf.dels \ {c}
                   con == buf.cond \cup {c}
        <3>0. /\ Taken("conditional chats.update", c, p) /\ Ours(p, c) /\ PlaceFits(c, buf.attached[c], del)
              /\ Beside(c, del, con) /\ Beside(c, del, buf.cond) /\ c \in Things /\ KindFits("conditional chats.update", c)
              /\ Ours(buf.hist[c], c) /\ Ours(buf.ups[c], c) /\ Ours(buf.upd[c], c) /\ Ours(buf.attached[c], c) /\ Ours(W, c)
            BY <1>2, <2>3
        <3>1. CASE But(buf', c, buf.hist[c], buf.ups[c], W, buf.attached[c], del, con)
            <4> DEFINE h == buf.hist[c]
                       u == buf.ups[c]
                       a == buf.attached[c]
            <4> HIDE DEF p, del, con
            <4>1. TypedTaking("conditional chats.update", c, p, h, u, W, a, del, con)
                BY <3>0, <3>1 DEF TypedTaking
            <4> HIDE DEF h, u, a
            <4> QED BY <2>1, <3>0, <4>1, TakingTyped
        <3>2. CASE Merged(buf', c, del)
            <4> HIDE DEF p, del
            <4> QED BY <2>1, <3>0, <3>2, MergedTyped
        <3>3. CASE But(buf', c, buf.hist[c], buf.ups[c], buf.upd[c], buf.attached[c], del, buf.cond)
            <4> DEFINE h == buf.hist[c]
                       u == buf.ups[c]
                       d == buf.upd[c]
                       a == buf.attached[c]
            <4> HIDE DEF p, del
            <4>1. TypedTaking("conditional chats.update", c, p, h, u, d, a, del, buf.cond)
                BY <3>0, <3>3 DEF TypedTaking
            <4> HIDE DEF h, u, d, a
            <4> QED BY <2>1, <3>0, <4>1, TakingTyped
        <3> QED BY <2>3, <3>1, <3>2, <3>3 DEF ConditionalTaken
    <2> QED BY <1>5, <2>2, <2>3, ConditionalUpdateDoes
<1>6. ASSUME NEW c \in Chats, ChatsDelete(c) PROVE BufferInv'
    <2>1. cache' \subseteq Things
        BY <1>0, <1>6 DEF ChatsDelete
    <2>2. CASE Shown("chats.delete", c, <<>>, <<>>)
        BY <1>2, <2>1, <2>2, ShownTyped
    <2>3. CASE /\ Taken("chats.delete", c, <<>>)
               /\ But(buf', c, <<>>, <<>>, <<>>, buf.attached[c], buf.dels \cup {c}, buf.cond \ {c})
        <3> DEFINE none == <<>>
                   del == buf.dels \cup {c}
                   con == buf.cond \ {c}
        <3>1. /\ Taken("chats.delete", c, none) /\ But(buf', c, none, none, none, buf.attached[c], del, con)
              /\ Ours(none, c) /\ Beside(c, del, con) /\ PlaceFits(c, buf.attached[c], del)
            BY <1>2, <2>3
        <3> DEFINE a == buf.attached[c]
        <3> HIDE DEF none, del, con
        <3>2. TypedTaking("chats.delete", c, none, none, none, none, a, del, con) /\ c \in Things
            BY <1>2, <3>1 DEF TypedTaking
        <3> HIDE DEF a
        <3> QED BY <2>1, <3>2, TakingTyped
    <2> QED BY <1>6, <2>2, <2>3, ChatsDeleteDoes
<1>7. ASSUME NEW p \in Contacts PROVE
        /\ p \in Things /\ KindFits("contacts.upsert", p) /\ KindFits("contacts.update", p)
        /\ Ours(direct[p], p) /\ Ours(view[p] \o W, p) /\ Ours(direct[p] \o W, p)
        /\ PlaceFits(p, buf.attached[p], buf.dels) /\ Beside(p, buf.dels, buf.cond)
    <2>1. p \in Things /\ p \notin Chats /\ p \notin Messages
        BY ThingsApart DEF Things
    <2>2. KindFits("contacts.upsert", p) /\ KindFits("contacts.update", p)
        BY <2>1 DEF KindFits, ContactKinds
    <2>3. Beside(p, buf.dels, buf.cond)
        BY DEF Beside
    <2> QED BY <2>1, <2>2, <2>3, HereOurs, JoinOurs
<1>8. ASSUME NEW p \in Contacts, ContactsUpsert(p) PROVE BufferInv'
    <2>1. cache' \subseteq Things
        BY <1>0, <1>8 DEF ContactsUpsert
    <2>2. Ours(UpsertBase(p) \o W, p)
        BY <1>7, HereOurs, JoinOurs DEF UpsertBase
    <2>3. CASE Shown("contacts.upsert", p, view[p] \o W, direct[p] \o W)
        BY <1>7, <2>1, <2>3, ShownTyped
    <2>4. CASE Taken("contacts.upsert", p, direct[p] \o W) /\ UpsertedAs(buf', p, UpsertBase(p) \o W, buf.dels, buf.cond)
        BY <1>7, <2>1, <2>2, <2>4, UpsertedTyped
    <2> QED BY <1>8, <2>3, <2>4, ContactsUpsertDoes
<1>9. ASSUME NEW p \in Contacts, ContactsUpdate(p) PROVE BufferInv'
    <2>1. cache' \subseteq Things
        BY <1>0, <1>9 DEF ContactsUpdate
    <2>2. CASE Shown("contacts.update", p, view[p] \o W, direct[p] \o W)
        BY <1>7, <2>1, <2>2, ShownTyped
    <2>3. CASE Taken("contacts.update", p, direct[p] \o W) /\ Merged(buf', p, buf.dels)
        BY <1>7, <2>1, <2>3, MergedTyped
    <2> QED BY <1>9, <2>2, <2>3, ContactsUpdateDoes
<1>10. ASSUME NEW m \in Messages PROVE
        /\ m \in Things /\ KindFits("messages.upsert", m) /\ KindFits("messages.update", m)
        /\ KindFits("messages.delete", m) /\ KindFits("messages.reaction", m)
        /\ Ours(direct[m], m) /\ Ours(buf.hist[m], m) /\ Ours(buf.ups[m], m) /\ Ours(buf.upd[m], m)
        /\ Ours(buf.attached[m], m) /\ Ours(W, m) /\ Ours(<<>>, m)
        /\ Ours(Updated(m, view[m], W), m) /\ Ours(Updated(m, direct[m], W), m)
        /\ Ours(W \o buf.upd[m], m) /\ Ours(buf.ups[m] \o W, m) /\ Ours(buf.attached[m] \o W, m)
        /\ PlaceFits(m, buf.attached[m], buf.dels) /\ PlaceFits(m, buf.attached[m] \o W, buf.dels)
        /\ PlaceFits(m, buf.attached[m], buf.dels \cup {m})
        /\ Beside(m, buf.dels, buf.cond) /\ Beside(m, buf.dels \cup {m}, buf.cond)
    <2>1. m \in Things /\ m \notin Chats /\ m \notin Contacts
        BY ThingsApart DEF Things
    <2>2. <<>> \in Seq(Nat)
        BY WritesNone
    <2>3. Ours(Updated(m, view[m], W), m) /\ Ours(Updated(m, direct[m], W), m)
        BY <2>1, <2>2, HereOurs, UpdatedOurs
    <2>4. Ours(W \o buf.upd[m], m) /\ Ours(buf.ups[m] \o W, m) /\ Ours(buf.attached[m] \o W, m)
        BY <2>1, HereOurs, JoinOurs
    <2>5. /\ PlaceFits(m, buf.attached[m], buf.dels) /\ PlaceFits(m, buf.attached[m] \o W, buf.dels)
          /\ PlaceFits(m, buf.attached[m], buf.dels \cup {m})
        BY <2>1, HereOurs DEF PlaceFits
    <2>7. Beside(m, buf.dels, buf.cond) /\ Beside(m, buf.dels \cup {m}, buf.cond)
        BY DEF Beside
    <2>6. /\ KindFits("messages.upsert", m) /\ KindFits("messages.update", m)
          /\ KindFits("messages.delete", m) /\ KindFits("messages.reaction", m)
        BY <2>1 DEF KindFits, MessageKinds
    <2> QED BY <2>1, <2>3, <2>4, <2>5, <2>6, <2>7, HereOurs
<1>11. ASSUME NEW m \in Messages, MessagesUpsert(m) PROVE BufferInv'
    <2>1. cache' \subseteq Things
        BY <1>0, <1>11 DEF MessagesUpsert
    <2>2. CASE Shown("messages.upsert", m, W, W)
        BY <1>10, <2>1, <2>2, ShownTyped
    <2>3. CASE Taken("messages.upsert", m, W)
        <3> DEFINE none == <<>>
                   o == W \o buf.upd[m]
        <3>0. /\ Taken("messages.upsert", m, W) /\ Ours(W, m) /\ Ours(none, m) /\ Ours(o, m)
              /\ m \in Things /\ KindFits("messages.upsert", m)
              /\ Ours(buf.hist[m], m) /\ Ours(buf.ups[m], m) /\ Ours(buf.attached[m], m)
              /\ PlaceFits(m, buf.attached[m], buf.dels) /\ Beside(m, buf.dels, buf.cond)
            BY <1>10, <2>3
        <3>1. CASE But(buf', m, o, buf.ups[m], none, buf.attached[m], buf.dels, buf.cond)
            <4> HIDE DEF none, o
            <4> QED BY <2>1, <3>0, <3>1, TakenTyped
        <3>2. CASE But(buf', m, buf.hist[m], o, none, buf.attached[m], buf.dels, buf.cond)
            <4> HIDE DEF none, o
            <4> QED BY <2>1, <3>0, <3>2, TakenTyped
        <3> QED BY <1>11, <2>2, <2>3, <3>1, <3>2, MessagesUpsertDoes
    <2> QED BY <1>11, <2>2, <2>3, MessagesUpsertDoes
<1>12. ASSUME NEW m \in Messages, MessagesUpdate(m) PROVE BufferInv'
    <2>1. cache' \subseteq Things
        BY <1>0, <1>12 DEF MessagesUpdate
    <2>2. CASE Shown("messages.update", m, Updated(m, view[m], W), Updated(m, direct[m], W))
        BY <1>10, <2>1, <2>2, ShownTyped
    <2>3. CASE Taken("messages.update", m, Updated(m, direct[m], W)) /\ Merged(buf', m, buf.dels)
        BY <1>10, <2>1, <2>3, MergedTyped
    <2> QED BY <1>12, <2>2, <2>3, MessagesUpdateDoes
<1>13. ASSUME NEW m \in Messages, MessagesDelete(m) PROVE BufferInv'
    <2>1. cache' \subseteq Things
        BY <1>0, <1>13 DEF MessagesDelete
    <2>2. CASE Shown("messages.delete", m, <<>>, <<>>)
        BY <1>10, <2>1, <2>2, ShownTyped
    <2>3. CASE /\ Taken("messages.delete", m, <<>>)
               /\ But(buf', m, buf.hist[m], <<>>, <<>>, buf.attached[m], buf.dels \cup {m}, buf.cond)
        <3> DEFINE none == <<>>
                   del == buf.dels \cup {m}
        <3>1. /\ Taken("messages.delete", m, none) /\ But(buf', m, buf.hist[m], none, none, buf.attached[m], del, buf.cond)
              /\ Ours(none, m) /\ Beside(m, del, buf.cond) /\ PlaceFits(m, buf.attached[m], del)
              /\ m \in Things /\ KindFits("messages.delete", m) /\ Ours(buf.hist[m], m) /\ Ours(buf.attached[m], m)
            BY <1>10, <2>3
        <3> HIDE DEF none, del
        <3> QED BY <2>1, <3>1, TakenTyped
    <2> QED BY <1>13, <2>2, <2>3, MessagesDeleteDoes
<1>14. ASSUME NEW m \in Messages, MessagesAttach(m) PROVE BufferInv'
    <2>1. cache' \subseteq Things
        BY <1>0, <1>14 DEF MessagesAttach
    <2>2. CASE Shown("messages.reaction", m, Updated(m, view[m], W), Updated(m, direct[m], W))
        BY <1>10, <2>1, <2>2, ShownTyped
    <2>3. CASE /\ Taken("messages.reaction", m, Updated(m, direct[m], W))
               /\ But(buf', m, buf.hist[m], buf.ups[m] \o W, buf.upd[m], buf.attached[m], buf.dels, buf.cond)
        <3> DEFINE o == buf.ups[m] \o W
                   p == Updated(m, direct[m], W)
        <3>1. /\ Taken("messages.reaction", m, p) /\ But(buf', m, buf.hist[m], o, buf.upd[m], buf.attached[m], buf.dels, buf.cond)
              /\ m \in Things /\ KindFits("messages.reaction", m) /\ Beside(m, buf.dels, buf.cond)
              /\ Ours(buf.hist[m], m) /\ Ours(buf.ups[m], m) /\ Ours(buf.upd[m], m) /\ Ours(buf.attached[m], m)
              /\ Ours(o, m) /\ Ours(p, m) /\ PlaceFits(m, buf.attached[m], buf.dels)
            BY <1>10, <2>3
        <3> HIDE DEF o, p
        <3> QED BY <2>1, <3>1, TakenTyped
    <2>4. CASE /\ Taken("messages.reaction", m, Updated(m, direct[m], W))
               /\ But(buf', m, buf.hist[m], buf.ups[m], buf.upd[m], buf.attached[m] \o W, buf.dels, buf.cond)
        <3> DEFINE o == buf.attached[m] \o W
                   p == Updated(m, direct[m], W)
        <3>1. /\ Taken("messages.reaction", m, p) /\ But(buf', m, buf.hist[m], buf.ups[m], buf.upd[m], o, buf.dels, buf.cond)
              /\ m \in Things /\ KindFits("messages.reaction", m) /\ Beside(m, buf.dels, buf.cond)
              /\ Ours(buf.hist[m], m) /\ Ours(buf.ups[m], m) /\ Ours(buf.upd[m], m) /\ Ours(buf.attached[m], m)
              /\ Ours(o, m) /\ Ours(p, m) /\ PlaceFits(m, o, buf.dels)
            BY <1>10, <2>4
        <3> HIDE DEF o, p
        <3> QED BY <2>1, <3>1, TakenTyped
    <2> QED BY <1>14, <2>2, <2>3, <2>4, MessagesAttachDoes
<1>15. ASSUME NEW g \in Groups, GroupsUpdate(g) PROVE BufferInv'
    <2>1. cache' \subseteq Things
        BY <1>0, <1>15 DEF GroupsUpdate
    <2>2. g \in Things /\ KindFits("groups.update", g)
        BY ThingsApart DEF Things, KindFits
    <2>3. /\ Ours(view[g] \o W, g) /\ Ours(direct[g] \o W, g) /\ PlaceFits(g, buf.attached[g], buf.dels)
          /\ Ours(buf.hist[g], g) /\ Ours(buf.ups[g], g) /\ Ours(buf.upd[g], g) /\ Ours(buf.attached[g], g) /\ Ours(W, g)
          /\ Beside(g, buf.dels, buf.cond)
        BY <2>2, HereOurs, JoinOurs DEF Beside
    <2>4. CASE Shown("groups.update", g, view[g] \o W, direct[g] \o W)
        BY <2>1, <2>2, <2>3, <2>4, ShownTyped
    <2>5. ASSUME Taken("groups.update", g, direct[g] \o W), NEW d \in {buf.upd[g], W},
                 But(buf', g, buf.hist[g], buf.ups[g], d, buf.attached[g], buf.dels, buf.cond)
          PROVE  BufferInv'
        <3>1. Ours(d, g)
            BY <2>3, <2>5
        <3> QED BY <2>1, <2>2, <2>3, <2>5, <3>1, TakenTyped
    <2> QED BY <1>15, <2>4, <2>5, GroupsUpdateDoes
<1> QED BY <1>1, <1>3, <1>4, <1>5, <1>6, <1>8, <1>9, <1>11, <1>12, <1>13, <1>14, <1>15 DEF Emission

LEMMA InitTyped == ASSUME Init PROVE BufferInv
<1>1. Nothing \in [Things -> Seq(Nat)] /\ \A x \in Things : Nothing[x] = <<>>
    BY WritesNone DEF Nothing
<1>2. FreshState \in BufStates
    BY <1>1 DEF FreshState, BufStates
<1>3. /\ log = <<>> /\ log \in Seq([kind : Kinds, on : Things]) /\ DOMAIN log = {}
    BY DEF Init
<1>4. ASSUME NEW x \in Things PROVE OwnWrites(x) /\ HoldsNothing(x)
    BY <1>1, WritesNone DEF Init, FreshState, OwnWrites, HoldsNothing
<1>5. /\ \A x \in Things : buf.attached[x] = <<>> 
      /\ buf.dels = {} /\ buf = FreshState /\ view = Nothing /\ direct = Nothing /\ cache = {}
      /\ depth = 0 /\ running = 0 /\ buffering = FALSE /\ safety = FALSE
    BY <1>1 DEF Init, FreshState
<1> HIDE DEF BufStates, FreshState
<1> QED BY <1>1, <1>2, <1>3, <1>4, <1>5 DEF BufferInv

\* BufferInv is inductive.
LEMMA StepTyped == ASSUME BufferInv, [Next]_vars PROVE BufferInv'
BY StepIs, QuietTyped, FlushTyped, EmissionTyped

LEMMA TypedIs == ASSUME BufferInv PROVE TypeOK
<1>1. ASSUME NEW x \in Things, NEW o \in {buf.hist[x], buf.ups[x], buf.upd[x], buf.attached[x], view[x], direct[x]}
      PROVE  Writes(o) \subseteq {i \in DOMAIN log : log[i].on = x}
    <2>1. OwnWrites(x)
        BY DEF BufferInv
    <2> QED BY <2>1 DEF OwnWrites, OnThing
<1>2. buf.cond \subseteq Chats /\ buf.dels \subseteq Things
    BY DEF BufferInv, BufStates
<1> QED BY <1>1, <1>2 DEF BufferInv, TypeOK

\* The state is as lib/event-buffer.js 378-382 has it: whatever is buffered or shown of
\* a thing was emitted for it, and the safety timer is set exactly while events are buffered.
THEOREM BufferIsTyped == Spec => []TypeOK
<1>1. Spec => []BufferInv
    BY InitTyped, StepTyped, PTL DEF Spec
<1> QED BY <1>1, TypedIs, PTL
-----------------------------------------------------------------------------
(***************************************************************************)
(* Where the writes of one kind are: some the application has, some are    *)
(* buffered, and what is buffered comes later.                             *)
(***************************************************************************)
\* The write comes after all of the object's.
Later(i, o) == o \in Seq(Nat) /\ \A j \in Writes(o) : j < i

LEMMA LineStays ==
    ASSUME NEW S, NEW T, NEW v, NEW o, Line(S, v, o), T \cap Writes(v) \subseteq S, T \cap Writes(o) \subseteq S
    PROVE  Line(T, v, o)
<1>1. InOrder(v, T) /\ InOrder(o, T)
    BY OrderOf DEF Line
<1>2. Precede(v, o, T)
    BY DEF Line, Precede
<1> QED BY <1>1, <1>2 DEF Line

LEMMA LineGrows ==
    ASSUME NEW S, NEW T, NEW v, NEW o, NEW i \in Nat, Line(S, v, o), Later(i, v), Later(i, o), T \subseteq S \cup {i}
    PROVE  Line(T, v, o \o <<i>>)
<1>1. Single(i) /\ Joins(o, <<i>>)
    BY WritesSingle, WritesJoin DEF Single, Later
<1>2. T \cap Writes(v) \subseteq S /\ T \cap Writes(o) \subseteq S
    BY DEF Later
<1>3. InOrder(v, T) /\ InOrder(o, T) /\ Precede(v, o, T)
    BY <1>2, LineStays DEF Line
<1>4. Precede(o, <<i>>, T) /\ Precede(v, <<i>>, T)
    BY <1>1 DEF Precede, Single, Later
<1>5. InOrder(o \o <<i>>, T)
    BY <1>1, <1>3, <1>4, OrderJoin, OrderSingle DEF Single, Later
<1>6. Precede(v, o \o <<i>>, T)
    BY <1>1, <1>3, <1>4 DEF Joins, Precede
<1> QED BY <1>3, <1>5, <1>6 DEF Line

LEMMA LineNone ==
    ASSUME NEW S, NEW v, NEW o, InOrder(v, S), Writes(o) \cap S = {}
    PROVE  Line(S, v, o)
BY OrderEmpty DEF Line, Precede

LEMMA LineJoin ==
    ASSUME NEW S, NEW v \in Seq(Nat), NEW o \in Seq(Nat), Line(S, v, o)
    PROVE  InOrder(v \o o, S)
BY OrderJoin DEF Line

LEMMA HereLater ==
    ASSUME BufferInv, NEW x \in Things
    PROVE  /\ Later(w, view[x]) /\ Later(w, direct[x]) /\ Later(w, buf.hist[x]) /\ Later(w, buf.ups[x])
           /\ Later(w, buf.upd[x]) /\ Later(w, buf.attached[x]) /\ Later(w, <<>>)
           /\ Writes(direct[x]) \subseteq DOMAIN log /\ w \notin DOMAIN log
           /\ \A i \in Writes(direct[x]) : log[i].on = x
<1>1. OwnWrites(x)
    BY DEF BufferInv
<1> QED BY <1>1, BufTyped, WritesNone DEF OwnWrites, OnThing, Later

\* What is wanted of a thing changes only by what is emitted for it.
LEMMA WantedStays ==
    ASSUME BufferInv, NEW k, NEW x, LogGrows(k, x), NEW y \in Things, direct'[y] = direct[y], NEW K
    PROVE  Wanted(y, K)' = Wanted(y, K)
<1>1. \A i \in Writes(direct[y]) : log'[i] = log[i]
    BY HereLater DEF LogGrows
<1> QED BY <1>1 DEF Wanted

\* What an event of kind k adds to what is wanted.
Adds(x, K, k, before, after) == after = IF k \in K THEN before \cup {w} ELSE before

LEMMA WantedGrows ==
    ASSUME BufferInv, NEW k, NEW x \in Things, LogGrows(k, x), direct'[x] = direct[x] \o W, NEW K
    PROVE  Adds(x, K, k, Wanted(x, K), Wanted(x, K)')
<1>1. \A i \in Writes(direct[x]) : log'[i] = log[i]
    BY HereLater DEF LogGrows
<1>2. Joins(direct[x], W)
    BY WritesJoin, BufTyped
<1>3. Writes(direct[x])' = Writes(direct[x]) \cup {w}
    BY <1>2, BufTyped DEF Joins
<1>4. log'[w].kind = k
    BY DEF LogGrows
<1> QED BY <1>1, <1>3, <1>4 DEF Wanted, Adds

\* Of the writes, all are in the application's object, in history or in the upserts, in that order.
Cover(S, v, h, u, d) ==
    /\ S \subseteq Writes(v) \cup Writes(h) \cup Writes(u)
    /\ Line(S, v, h) /\ Line(S, v, u) /\ Precede(h, u, S)
    /\ Writes(d) \cap S = {}

LEMMA ContactIs ==
    ASSUME NEW p
    PROVE  ContactRight(p) <=> Cover(Wanted(p, {"contacts.upsert"}), view[p], buf.hist[p], buf.ups[p], buf.upd[p])
BY DEF ContactRight, Cover, Line

LEMMA CoverHist ==
    ASSUME NEW S, NEW T, NEW v, NEW h, NEW u, NEW d, NEW i \in Nat, Cover(S, v, h, u, d),
           Later(i, v), Later(i, h), Later(i, u), Later(i, d), T \in {S, S \cup {i}}, T = S \/ u = <<>>
    PROVE  Cover(T, v, h \o <<i>>, u, d)
<1>1. Single(i) /\ Joins(h, <<i>>)
    BY WritesSingle, WritesJoin DEF Single, Later
<1>2. Line(T, v, h \o <<i>>)
    BY LineGrows DEF Cover
<1>3. Line(T, v, u)
    <2>1. T \cap Writes(v) \subseteq S /\ T \cap Writes(u) \subseteq S
        BY DEF Later
    <2> QED BY <2>1, LineStays DEF Cover
<1>4. T \subseteq Writes(v) \cup Writes(h \o <<i>>) \cup Writes(u)
    BY <1>1 DEF Cover, Joins, Single
<1>5. Writes(d) \cap T = {}
    BY DEF Cover, Later
<1>6. Precede(h \o <<i>>, u, T)
    <2>1. CASE u = <<>>
        BY <2>1, WritesNone DEF Precede
    <2>2. CASE T = S
        <3>1. CASE i \in S
            <4>1. i \in Writes(v) \cup Writes(h) \cup Writes(u)
                BY <3>1 DEF Cover
            <4>2. i < i
                BY <4>1 DEF Later
            <4> QED BY <4>2
        <3>2. CASE i \notin S
            BY <1>1, <2>2, <3>2 DEF Cover, Precede, Joins, Single
        <3> QED BY <3>1, <3>2
    <2> QED BY <2>1, <2>2
<1> QED BY <1>2, <1>3, <1>4, <1>5, <1>6 DEF Cover

LEMMA CoverUps ==
    ASSUME NEW S, NEW T, NEW v, NEW h, NEW u, NEW d, NEW i \in Nat, Cover(S, v, h, u, d),
           Later(i, v), Later(i, h), Later(i, u), Later(i, d), T \in {S, S \cup {i}}
    PROVE  Cover(T, v, h, u \o <<i>>, d)
<1>1. Single(i) /\ Joins(u, <<i>>)
    BY WritesSingle, WritesJoin DEF Single, Later
<1>2. Line(T, v, u \o <<i>>)
    BY LineGrows DEF Cover
<1>3. Line(T, v, h)
    BY LineStays DEF Cover, Later
<1>4. T \subseteq Writes(v) \cup Writes(h) \cup Writes(u \o <<i>>)
    BY <1>1 DEF Cover, Joins, Single
<1>5. Writes(d) \cap T = {}
    BY DEF Cover, Later
<1>6. Precede(h, u \o <<i>>, T)
    <2>1. T \cap Writes(h) \subseteq S /\ T \cap Writes(u) \subseteq S
        BY DEF Later
    <2>2. Precede(h, u, T) /\ Precede(h, <<i>>, T)
        BY <1>1, <2>1 DEF Cover, Precede, Single, Later
    <2> QED BY <1>1, <2>2 DEF Precede, Joins
<1> QED BY <1>2, <1>3, <1>4, <1>5, <1>6 DEF Cover

LEMMA CoverUpd ==
    ASSUME NEW S, NEW v, NEW h, NEW u, NEW d, NEW i \in Nat, Cover(S, v, h, u, d),
           Later(i, v), Later(i, h), Later(i, u), Later(i, d)
    PROVE  Cover(S, v, h, u, d \o <<i>>)
<1>1. Single(i) /\ Joins(d, <<i>>)
    BY WritesSingle, WritesJoin DEF Single, Later
<1>2. i \notin S
    <2>1. ASSUME i \in S PROVE FALSE
        <3>1. i \in Writes(v) \cup Writes(h) \cup Writes(u)
            BY <2>1 DEF Cover
        <3>2. i < i
            BY <3>1 DEF Later
        <3> QED BY <3>2
    <2> QED BY <2>1
<1> QED BY <1>1, <1>2 DEF Cover, Joins, Single

LEMMA CoverView ==
    ASSUME NEW S, NEW T, NEW v, NEW i \in Nat, Cover(S, v, <<>>, <<>>, <<>>), Later(i, v), T \in {S, S \cup {i}}
    PROVE  Cover(T, v \o <<i>>, <<>>, <<>>, <<>>)
<1>1. Single(i) /\ Joins(v, <<i>>) /\ Later(i, <<>>)
    BY WritesSingle, WritesJoin, WritesNone DEF Single, Later
<1>2. Line(S, <<>>, v)
    BY WritesNone DEF Cover, Line, Precede
<1>3. InOrder(v \o <<i>>, T)
    BY <1>1, <1>2, LineGrows DEF Line
<1>4. T \subseteq Writes(v \o <<i>>)
    BY <1>1, WritesNone DEF Cover, Joins, Single
<1> QED BY <1>3, <1>4, WritesNone, LineNone DEF Cover, Precede

LEMMA CoverDrops ==
    ASSUME NEW S, NEW v, NEW h, NEW u, NEW d, Cover(S, v, h, u, d)
    PROVE  Cover(S, v, h, u, <<>>)
BY WritesNone DEF Cover

\* A flush puts all of it into the application's object.
LEMMA CoverFlush ==
    ASSUME NEW S, NEW v \in Seq(Nat), NEW h \in Seq(Nat), NEW u \in Seq(Nat), NEW d \in Seq(Nat), Cover(S, v, h, u, d)
    PROVE  Cover(S, v \o h \o u \o d, <<>>, <<>>, <<>>)
<1> DEFINE vh == v \o h
           vhu == vh \o u
           all == vhu \o d
<1>1. Joins(v, h)
    BY WritesJoin
<1>2. vh \in Seq(Nat) /\ Writes(vh) = Writes(v) \cup Writes(h) /\ InOrder(vh, S)
    BY <1>1, LineJoin DEF Joins, Cover
<1>3. Precede(vh, u, S)
    BY <1>2 DEF Precede, Cover, Line
<1> HIDE DEF vh
<1>4. Joins(vh, u) /\ InOrder(vhu, S)
    BY <1>2, <1>3, WritesJoin, OrderJoin DEF Cover, Line
<1>5. vhu \in Seq(Nat) /\ Writes(vhu) = Writes(vh) \cup Writes(u)
    BY <1>4 DEF Joins
<1> HIDE DEF vhu
<1>6. Joins(vhu, d) /\ Line(S, vhu, d)
    BY <1>4, <1>5, WritesJoin, LineNone DEF Cover
<1>7. InOrder(all, S) /\ S \subseteq Writes(all)
    BY <1>2, <1>5, <1>6, LineJoin DEF Joins, Cover
<1>8. Cover(S, all, <<>>, <<>>, <<>>)
    BY <1>7, WritesNone, LineNone DEF Cover, Precede
<1> QED BY <1>8 DEF all, vhu, vh
-----------------------------------------------------------------------------
(***************************************************************************)
(* What each event leaves of its thing, in the application or in the       *)
(* buffer.                                                                 *)
(***************************************************************************)
\* An event of x: it is in the log, and nothing else than x changes.
Touches(k, x) == x \in Things /\ Others(x) /\ LogGrows(k, x)

\* The application has v of x at once; or the buffer has it.
AtOnce(x, v, p) == ~buffering /\ Has(x, buf.hist[x], buf.ups[x], buf.upd[x], buf.attached[x], v, p, buf.dels, buf.cond)
Kept(x, h, u, d, a, p, del, con) == buffering /\ Has(x, h, u, d, a, view[x], p, del, con)

KeptMerged(x, p, del) ==
    \/ buf.hist[x] # <<>> /\ Kept(x, buf.hist[x] \o W, buf.ups[x], buf.upd[x], buf.attached[x], p, del, buf.cond)
    \/ /\ buf.hist[x] = <<>> /\ buf.ups[x] # <<>>
       /\ Kept(x, buf.hist[x], buf.ups[x] \o W, buf.upd[x], buf.attached[x], p, del, buf.cond)
    \/ /\ buf.hist[x] = <<>> /\ buf.ups[x] = <<>>
       /\ Kept(x, buf.hist[x], buf.ups[x], buf.upd[x] \o W, buf.attached[x], p, del, buf.cond)

KeptUpserted(x, o, p, del, con) ==
    \/ buf.ups[x] = <<>> /\ buf.hist[x] # <<>> /\ Kept(x, o, buf.ups[x], <<>>, buf.attached[x], p, del, con)
    \/ ~(buf.ups[x] = <<>> /\ buf.hist[x] # <<>>) /\ Kept(x, buf.hist[x], o, <<>>, buf.attached[x], p, del, con)

LEMMA ShownIs ==
    ASSUME BufferInv, NEW k, NEW x \in Things, NEW v \in Seq(Nat), NEW p \in Seq(Nat), Shown(k, x, v, p)
    PROVE  Touches(k, x) /\ AtOnce(x, v, p)
<1> DEFINE h == buf.hist[x]
           u == buf.ups[x]
           d == buf.upd[x]
           a == buf.attached[x]
           del == buf.dels
           con == buf.cond
<1>1. Emits(k, x, v, p) /\ But(buf', x, h, u, d, a, del, con) /\ Beside(x, del, con) /\ ~buffering
    BY DEF Shown, StaysSo, Beside
<1>2. Others(x) /\ LogGrows(k, x) /\ Has(x, h, u, d, a, v, p, del, con)
    <2> HIDE DEF h, u, d, a, del, con
    <2> QED BY <1>1, EmitFrame
<1> QED BY <1>1, <1>2 DEF Touches, AtOnce

LEMMA TakenIs ==
    ASSUME BufferInv, NEW k, NEW x \in Things, NEW p \in Seq(Nat), Taken(k, x, p),
           NEW h, NEW u, NEW d, NEW a, NEW del, NEW con, But(buf', x, h, u, d, a, del, con), Beside(x, del, con)
    PROVE  Touches(k, x) /\ Kept(x, h, u, d, a, p, del, con)
<1> DEFINE v == view[x]
<1>1. Emits(k, x, v, p) /\ buffering /\ v \in Seq(Nat)
    BY BufTyped DEF Taken
<1>2. Others(x) /\ LogGrows(k, x) /\ Has(x, h, u, d, a, v, p, del, con)
    <2> HIDE DEF v
    <2> QED BY <1>1, EmitFrame
<1> QED BY <1>1, <1>2 DEF Touches, Kept

LEMMA MergedKept ==
    ASSUME BufferInv, NEW k, NEW x \in Things, NEW p \in Seq(Nat), Taken(k, x, p), NEW del, Merged(buf', x, del),
           Beside(x, del, buf.cond)
    PROVE  Touches(k, x) /\ KeptMerged(x, p, del)
<1> DEFINE h == buf.hist[x]
           u == buf.ups[x]
           d == buf.upd[x]
           a == buf.attached[x]
           con == buf.cond
           hw == h \o W
           uw == u \o W
           dw == d \o W
<1>1. CASE h # <<>> /\ But(buf', x, hw, u, d, a, del, con)
    <2>1. Touches(k, x) /\ Kept(x, hw, u, d, a, p, del, con)
        <3> HIDE DEF h, u, d, a, hw
        <3> QED BY <1>1, TakenIs
    <2> QED BY <1>1, <2>1 DEF KeptMerged
<1>2. CASE h = <<>> /\ u # <<>> /\ But(buf', x, h, uw, d, a, del, con)
    <2>1. Touches(k, x) /\ Kept(x, h, uw, d, a, p, del, con)
        <3> HIDE DEF h, u, d, a, uw
        <3> QED BY <1>2, TakenIs
    <2> QED BY <1>2, <2>1 DEF KeptMerged
<1>3. CASE h = <<>> /\ u = <<>> /\ But(buf', x, h, u, dw, a, del, con)
    <2>1. Touches(k, x) /\ Kept(x, h, u, dw, a, p, del, con)
        <3> HIDE DEF h, u, d, a, dw
        <3> QED BY <1>3, TakenIs
    <2> QED BY <1>3, <2>1 DEF KeptMerged
<1> QED BY <1>1, <1>2, <1>3 DEF Merged

LEMMA UpsertedKept ==
    ASSUME BufferInv, NEW k, NEW x \in Things, NEW p \in Seq(Nat), Taken(k, x, p), NEW o, NEW del, NEW con,
           UpsertedAs(buf', x, o, del, con), Beside(x, del, con)
    PROVE  Touches(k, x) /\ KeptUpserted(x, o, p, del, con)
<1> DEFINE h == buf.hist[x]
           u == buf.ups[x]
           a == buf.attached[x]
           none == <<>>
<1>1. CASE u = <<>> /\ h # <<>> /\ But(buf', x, o, u, none, a, del, con)
    <2>1. Touches(k, x) /\ Kept(x, o, u, none, a, p, del, con)
        <3> HIDE DEF h, u, a, none
        <3> QED BY <1>1, TakenIs
    <2> QED BY <1>1, <2>1 DEF KeptUpserted
<1>2. CASE ~(u = <<>> /\ h # <<>>) /\ But(buf', x, h, o, none, a, del, con)
    <2>1. Touches(k, x) /\ Kept(x, h, o, none, a, p, del, con)
        <3> HIDE DEF h, u, a, none
        <3> QED BY <1>2, TakenIs
    <2> QED BY <1>2, <2>1 DEF KeptUpserted
<1> QED BY <1>1, <1>2 DEF UpsertedAs

LEMMA ChatsUpsertLeaves ==
    ASSUME BufferInv, NEW c \in Chats, ChatsUpsert(c)
    PROVE  /\ Touches("chats.upsert", c)
           /\ \/ AtOnce(c, view[c] \o W, direct[c] \o W) /\ refused' = refused
              \/ /\ KeptUpserted(c, Absorbed(c, UpsertBase(c) \o W), direct[c] \o W, buf.dels \ {c}, buf.cond \ {c})
                 /\ refused' = refused \cup RefusedBy(c)
<1> DEFINE v == view[c] \o W
           p == direct[c] \o W
           o == Absorbed(c, UpsertBase(c) \o W)
           del == buf.dels \ {c}
           con == buf.cond \ {c}
<1>1. c \in Things
    BY DEF Things
<1>2. v \in Seq(Nat) /\ p \in Seq(Nat)
    BY <1>1, BufTyped
<1>3. Beside(c, del, con)
    BY DEF Beside
<1>4. \/ Shown("chats.upsert", c, v, p) /\ refused' = refused
      \/ /\ Taken("chats.upsert", c, p) /\ refused' = refused \cup RefusedBy(c)
         /\ UpsertedAs(buf', c, o, del, con)
    BY ChatsUpsertDoes
<1>5. /\ Touches("chats.upsert", c)
      /\ \/ AtOnce(c, v, p) /\ refused' = refused
         \/ KeptUpserted(c, o, p, del, con) /\ refused' = refused \cup RefusedBy(c)
    <2> HIDE DEF v, p, o, del, con
    <2> QED BY <1>1, <1>2, <1>3, <1>4, ShownIs, UpsertedKept
<1> QED BY <1>5

LEMMA ChatsUpdateLeaves ==
    ASSUME BufferInv, NEW c \in Chats, ChatsUpdate(c)
    PROVE  /\ Touches("chats.update", c)
           /\ AtOnce(c, view[c] \o W, direct[c] \o W) \/ KeptMerged(c, direct[c] \o W, buf.dels \ {c})
<1> DEFINE v == view[c] \o W
           p == direct[c] \o W
           del == buf.dels \ {c}
<1>1. c \in Things
    BY DEF Things
<1>2. v \in Seq(Nat) /\ p \in Seq(Nat)
    BY <1>1, BufTyped
<1>3. Beside(c, del, buf.cond)
    BY DEF Beside
<1>4. Shown("chats.update", c, v, p) \/ (Taken("chats.update", c, p) /\ Merged(buf', c, del))
    BY ChatsUpdateDoes
<1>5. Touches("chats.update", c) /\ (AtOnce(c, v, p) \/ KeptMerged(c, p, del))
    <2> HIDE DEF v, p, del
    <2> QED BY <1>1, <1>2, <1>3, <1>4, ShownIs, MergedKept
<1> QED BY <1>5

ConditionalKept(c, ok) ==
    \/ /\ ~Known(c) /\ waited' = waited \cup {w} /\ refused' = refused
       /\ Kept(c, buf.hist[c], buf.ups[c], W, buf.attached[c], direct[c] \o W, buf.dels \ {c}, buf.cond \cup {c})
    \/ /\ Known(c) /\ ok /\ waited' = waited /\ refused' = refused
       /\ KeptMerged(c, direct[c] \o W, buf.dels \ {c})
    \/ /\ Known(c) /\ ~ok /\ waited' = waited /\ refused' = refused \cup {w}
       /\ Kept(c, buf.hist[c], buf.ups[c], buf.upd[c], buf.attached[c], direct[c] \o W, buf.dels \ {c}, buf.cond)

LEMMA ConditionalUpdateLeaves ==
    ASSUME BufferInv, NEW c \in Chats, NEW ok \in BOOLEAN, ConditionalUpdate(c, ok)
    PROVE  /\ Touches("conditional chats.update", c)
           /\ \/ AtOnce(c, view[c] \o W, direct[c] \o W) /\ waited' = waited /\ refused' = refused
              \/ ConditionalKept(c, ok)
<1> DEFINE k == "conditional chats.update"
           v == view[c] \o W
           p == direct[c] \o W
           h == buf.hist[c]
           u == buf.ups[c]
           d == buf.upd[c]
           a == buf.attached[c]
           del == buf.dels \ {c}
           con == buf.cond \cup {c}
<1>1. c \in Things
    BY DEF Things
<1>2. v \in Seq(Nat) /\ p \in Seq(Nat)
    BY <1>1, BufTyped
<1>3. Beside(c, del, con) /\ Beside(c, del, buf.cond)
    BY DEF Beside
<1>4. \/ Shown(k, c, v, p) /\ waited' = waited /\ refused' = refused
      \/ Taken(k, c, p) /\ ConditionalTaken(c, ok)
    BY ConditionalUpdateDoes
<1>5. CASE Shown(k, c, v, p) /\ waited' = waited /\ refused' = refused
    <2>1. Touches(k, c) /\ AtOnce(c, v, p)
        <3> HIDE DEF k, v, p
        <3> QED BY <1>1, <1>2, <1>5, ShownIs
    <2> QED BY <1>5, <2>1
<1>6. CASE Taken(k, c, p) /\ ConditionalTaken(c, ok)
    <2>1. CASE But(buf', c, h, u, W, a, del, con) /\ ~Known(c) /\ waited' = waited \cup {w} /\ refused' = refused
        <3>1. Touches(k, c) /\ Kept(c, h, u, W, a, p, del, con)
            <4> HIDE DEF k, p, h, u, a, del, con
            <4> QED BY <1>1, <1>2, <1>3, <1>6, <2>1, TakenIs
        <3> QED BY <2>1, <3>1 DEF ConditionalKept
    <2>2. CASE Merged(buf', c, del) /\ Known(c) /\ ok /\ waited' = waited /\ refused' = refused
        <3>1. Touches(k, c) /\ KeptMerged(c, p, del)
            <4> HIDE DEF k, p, del
            <4> QED BY <1>1, <1>2, <1>3, <1>6, <2>2, MergedKept
        <3> QED BY <2>2, <3>1 DEF ConditionalKept
    <2>3. CASE But(buf', c, h, u, d, a, del, buf.cond) /\ Known(c) /\ ~ok /\ waited' = waited /\ refused' = refused \cup {w}
        <3>1. Touches(k, c) /\ Kept(c, h, u, d, a, p, del, buf.cond)
            <4> HIDE DEF k, p, h, u, d, a, del
            <4> QED BY <1>1, <1>2, <1>3, <1>6, <2>3, TakenIs
        <3> QED BY <2>3, <3>1 DEF ConditionalKept
    <2> QED BY <1>6, <2>1, <2>2, <2>3 DEF ConditionalTaken
<1> QED BY <1>4, <1>5, <1>6

LEMMA ChatsDeleteLeaves ==
    ASSUME BufferInv, NEW c \in Chats, ChatsDelete(c)
    PROVE  /\ Touches("chats.delete", c)
           /\ \/ AtOnce(c, <<>>, <<>>)
              \/ Kept(c, <<>>, <<>>, <<>>, buf.attached[c], <<>>, buf.dels \cup {c}, buf.cond \ {c})
<1> DEFINE none == <<>>
           a == buf.attached[c]
           del == buf.dels \cup {c}
           con == buf.cond \ {c}
<1>1. c \in Things /\ none \in Seq(Nat)
    BY WritesNone DEF Things
<1>2. Beside(c, del, con)
    BY DEF Beside
<1>3. \/ Shown("chats.delete", c, none, none)
      \/ Taken("chats.delete", c, none) /\ But(buf', c, none, none, none, a, del, con)
    BY ChatsDeleteDoes
<1>4. Touches("chats.delete", c) /\ (AtOnce(c, none, none) \/ Kept(c, none, none, none, a, none, del, con))
    <2> HIDE DEF none, a, del, con
    <2> QED BY <1>1, <1>2, <1>3, ShownIs, TakenIs
<1> QED BY <1>4

LEMMA ContactsUpsertLeaves ==
    ASSUME BufferInv, NEW p \in Contacts, ContactsUpsert(p)
    PROVE  /\ Touches("contacts.upsert", p)
           /\ \/ AtOnce(p, view[p] \o W, direct[p] \o W)
              \/ KeptUpserted(p, UpsertBase(p) \o W, direct[p] \o W, buf.dels, buf.cond)
<1> DEFINE v == view[p] \o W
           q == direct[p] \o W
           o == UpsertBase(p) \o W
<1>1. p \in Things
    BY DEF Things
<1>2. v \in Seq(Nat) /\ q \in Seq(Nat)
    BY <1>1, BufTyped
<1>3. Beside(p, buf.dels, buf.cond)
    BY DEF Beside
<1>4. \/ Shown("contacts.upsert", p, v, q)
      \/ Taken("contacts.upsert", p, q) /\ UpsertedAs(buf', p, o, buf.dels, buf.cond)
    BY ContactsUpsertDoes
<1>5. Touches("contacts.upsert", p) /\ (AtOnce(p, v, q) \/ KeptUpserted(p, o, q, buf.dels, buf.cond))
    <2> HIDE DEF v, q, o
    <2> QED BY <1>1, <1>2, <1>3, <1>4, ShownIs, UpsertedKept
<1> QED BY <1>5

LEMMA ContactsUpdateLeaves ==
    ASSUME BufferInv, NEW p \in Contacts, ContactsUpdate(p)
    PROVE  /\ Touches("contacts.update", p)
           /\ AtOnce(p, view[p] \o W, direct[p] \o W) \/ KeptMerged(p, direct[p] \o W, buf.dels)
<1> DEFINE v == view[p] \o W
           q == direct[p] \o W
<1>1. p \in Things
    BY DEF Things
<1>2. v \in Seq(Nat) /\ q \in Seq(Nat)
    BY <1>1, BufTyped
<1>3. Beside(p, buf.dels, buf.cond)
    BY DEF Beside
<1>4. Shown("contacts.update", p, v, q) \/ (Taken("contacts.update", p, q) /\ Merged(buf', p, buf.dels))
    BY ContactsUpdateDoes
<1>5. Touches("contacts.update", p) /\ (AtOnce(p, v, q) \/ KeptMerged(p, q, buf.dels))
    <2> HIDE DEF v, q
    <2> QED BY <1>1, <1>2, <1>3, <1>4, ShownIs, MergedKept
<1> QED BY <1>5

LEMMA MessagesUpsertLeaves ==
    ASSUME BufferInv, NEW m \in Messages, MessagesUpsert(m)
    PROVE  /\ Touches("messages.upsert", m)
           /\ \/ AtOnce(m, W, W)
              \/ /\ buf.hist[m] # <<>>
                 /\ Kept(m, W \o buf.upd[m], buf.ups[m], <<>>, buf.attached[m], W, buf.dels, buf.cond)
              \/ /\ buf.hist[m] = <<>>
                 /\ Kept(m, buf.hist[m], W \o buf.upd[m], <<>>, buf.attached[m], W, buf.dels, buf.cond)
<1> DEFINE none == <<>>
           o == W \o buf.upd[m]
           h == buf.hist[m]
           u == buf.ups[m]
           a == buf.attached[m]
<1>1. m \in Things /\ W \in Seq(Nat)
    BY BufTyped DEF Things
<1>2. Beside(m, buf.dels, buf.cond)
    BY DEF Beside
<1>3. \/ Shown("messages.upsert", m, W, W)
      \/ Taken("messages.upsert", m, W) /\ h # none /\ But(buf', m, o, u, none, a, buf.dels, buf.cond)
      \/ Taken("messages.upsert", m, W) /\ h = none /\ But(buf', m, h, o, none, a, buf.dels, buf.cond)
    BY MessagesUpsertDoes
<1>4. /\ Touches("messages.upsert", m)
      /\ \/ AtOnce(m, W, W)
         \/ h # none /\ Kept(m, o, u, none, a, W, buf.dels, buf.cond)
         \/ h = none /\ Kept(m, h, o, none, a, W, buf.dels, buf.cond)
    <2> HIDE DEF none, o, h, u, a
    <2> QED BY <1>1, <1>2, <1>3, ShownIs, TakenIs
<1> QED BY <1>4

LEMMA UpdatedTyped ==
    ASSUME BufferInv, NEW x \in Things
    PROVE  Updated(x, view[x], W) \in Seq(Nat) /\ Updated(x, direct[x], W) \in Seq(Nat)
BY BufTyped, WritesNone DEF Updated

LEMMA MessagesUpdateLeaves ==
    ASSUME BufferInv, NEW m \in Messages, MessagesUpdate(m)
    PROVE  /\ Touches("messages.update", m)
           /\ \/ AtOnce(m, Updated(m, view[m], W), Updated(m, direct[m], W))
              \/ KeptMerged(m, Updated(m, direct[m], W), buf.dels)
<1> DEFINE v == Updated(m, view[m], W)
           p == Updated(m, direct[m], W)
<1>1. m \in Things
    BY DEF Things
<1>2. v \in Seq(Nat) /\ p \in Seq(Nat)
    BY <1>1, UpdatedTyped
<1>3. Beside(m, buf.dels, buf.cond)
    BY DEF Beside
<1>4. Shown("messages.update", m, v, p) \/ (Taken("messages.update", m, p) /\ Merged(buf', m, buf.dels))
    BY MessagesUpdateDoes
<1>5. Touches("messages.update", m) /\ (AtOnce(m, v, p) \/ KeptMerged(m, p, buf.dels))
    <2> HIDE DEF v, p
    <2> QED BY <1>1, <1>2, <1>3, <1>4, ShownIs, MergedKept
<1> QED BY <1>5

LEMMA MessagesDeleteLeaves ==
    ASSUME BufferInv, NEW m \in Messages, MessagesDelete(m)
    PROVE  /\ Touches("messages.delete", m)
           /\ \/ AtOnce(m, <<>>, <<>>)
              \/ Kept(m, buf.hist[m], <<>>, <<>>, buf.attached[m], <<>>, buf.dels \cup {m}, buf.cond)
<1> DEFINE none == <<>>
           h == buf.hist[m]
           a == buf.attached[m]
           del == buf.dels \cup {m}
<1>1. m \in Things /\ none \in Seq(Nat)
    BY WritesNone DEF Things
<1>2. Beside(m, del, buf.cond)
    BY DEF Beside
<1>3. \/ Shown("messages.delete", m, none, none)
      \/ Taken("messages.delete", m, none) /\ But(buf', m, h, none, none, a, del, buf.cond)
    BY MessagesDeleteDoes
<1>4. Touches("messages.delete", m) /\ (AtOnce(m, none, none) \/ Kept(m, h, none, none, a, none, del, buf.cond))
    <2> HIDE DEF none, h, a, del
    <2> QED BY <1>1, <1>2, <1>3, ShownIs, TakenIs
<1> QED BY <1>4

LEMMA MessagesAttachLeaves ==
    ASSUME BufferInv, NEW m \in Messages, MessagesAttach(m)
    PROVE  /\ Touches("messages.reaction", m)
           /\ \/ AtOnce(m, Updated(m, view[m], W), Updated(m, direct[m], W))
              \/ /\ buf.ups[m] # <<>>
                 /\ Kept(m, buf.hist[m], buf.ups[m] \o W, buf.upd[m], buf.attached[m],
                         Updated(m, direct[m], W), buf.dels, buf.cond)
              \/ /\ buf.ups[m] = <<>>
                 /\ Kept(m, buf.hist[m], buf.ups[m], buf.upd[m], buf.attached[m] \o W,
                         Updated(m, direct[m], W), buf.dels, buf.cond)
<1> DEFINE v == Updated(m, view[m], W)
           p == Updated(m, direct[m], W)
           h == buf.hist[m]
           u == buf.ups[m]
           d == buf.upd[m]
           a == buf.attached[m]
           uw == u \o W
           aw == a \o W
<1>1. m \in Things
    BY DEF Things
<1>2. v \in Seq(Nat) /\ p \in Seq(Nat)
    BY <1>1, UpdatedTyped
<1>3. Beside(m, buf.dels, buf.cond)
    BY DEF Beside
<1>4. \/ Shown("messages.reaction", m, v, p)
      \/ Taken("messages.reaction", m, p) /\ u # <<>> /\ But(buf', m, h, uw, d, a, buf.dels, buf.cond)
      \/ Taken("messages.reaction", m, p) /\ u = <<>> /\ But(buf', m, h, u, d, aw, buf.dels, buf.cond)
    BY MessagesAttachDoes
<1>5. /\ Touches("messages.reaction", m)
      /\ \/ AtOnce(m, v, p)
         \/ u # <<>> /\ Kept(m, h, uw, d, a, p, buf.dels, buf.cond)
         \/ u = <<>> /\ Kept(m, h, u, d, aw, p, buf.dels, buf.cond)
    <2> HIDE DEF v, p, h, u, d, a, uw, aw
    <2> QED BY <1>1, <1>2, <1>3, <1>4, ShownIs, TakenIs
<1> QED BY <1>5

LEMMA GroupsUpdateLeaves ==
    ASSUME BufferInv, NEW g \in Groups, GroupsUpdate(g)
    PROVE  Touches("groups.update", g) /\ buf'.cond = buf.cond
<1> DEFINE v == view[g] \o W
           p == direct[g] \o W
           h == buf.hist[g]
           u == buf.ups[g]
           a == buf.attached[g]
<1>1. g \in Things
    BY DEF Things
<1>2. v \in Seq(Nat) /\ p \in Seq(Nat)
    BY <1>1, BufTyped
<1>3. Beside(g, buf.dels, buf.cond)
    BY DEF Beside
<1>4. \/ Shown("groups.update", g, v, p)
      \/ /\ Taken("groups.update", g, p)
         /\ \E d \in {buf.upd[g], W} : But(buf', g, h, u, d, a, buf.dels, buf.cond)
    BY GroupsUpdateDoes
<1>5. CASE Shown("groups.update", g, v, p)
    <2> HIDE DEF v, p
    <2> QED BY <1>1, <1>2, <1>5, ShownIs DEF AtOnce, Has
<1>6. ASSUME Taken("groups.update", g, p), NEW d \in {buf.upd[g], W}, But(buf', g, h, u, d, a, buf.dels, buf.cond)
      PROVE  Touches("groups.update", g) /\ buf'.cond = buf.cond
    <2> HIDE DEF p, h, u, a
    <2>1. Touches("groups.update", g) /\ Kept(g, h, u, d, a, p, buf.dels, buf.cond)
        BY <1>1, <1>2, <1>3, <1>6, TakenIs
    <2> QED BY <2>1 DEF Kept, Has
<1> QED BY <1>4, <1>5, <1>6

HistoryKept(x) ==
    \/ /\ refused' = refused
       /\ Kept(x, buf.hist[x], buf.ups[x], buf.upd[x], buf.attached[x], direct[x] \o W, buf.dels, buf.cond)
    \/ /\ x \notin Chats /\ refused' = refused
       /\ Kept(x, buf.hist[x] \o W, buf.ups[x], buf.upd[x], buf.attached[x], direct[x] \o W, buf.dels, buf.cond)
    \/ /\ x \in Chats /\ buf.hist[x] = <<>> /\ refused' = refused \cup RefusedBy(x)
       /\ Kept(x, Absorbed(x, W), buf.ups[x], <<>>, buf.attached[x], direct[x] \o W, buf.dels, buf.cond \ {x})

LEMMA HistorySetLeaves ==
    ASSUME BufferInv, NEW x \in Chats \cup Messages \cup Contacts, NEW named \in BOOLEAN, HistorySet(x, named)
    PROVE  /\ Touches("messaging-history.set", x) /\ waited' = waited
           /\ \/ AtOnce(x, view[x] \o W, direct[x] \o W) /\ refused' = refused
              \/ HistoryKept(x)
<1> DEFINE k == "messaging-history.set"
           v == view[x] \o W
           p == direct[x] \o W
           h == buf.hist[x]
           u == buf.ups[x]
           d == buf.upd[x]
           a == buf.attached[x]
           hw == h \o W
           hs == Absorbed(x, W)
           none == <<>>
           con == buf.cond \ {x}
<1>1. x \in Things
    BY DEF Things
<1>2. v \in Seq(Nat) /\ p \in Seq(Nat)
    BY <1>1, BufTyped
<1>3. Beside(x, buf.dels, con) /\ Beside(x, buf.dels, buf.cond)
    BY DEF Beside
<1>4. /\ waited' = waited
      /\ (Shown(k, x, v, p) /\ refused' = refused) \/ (Taken(k, x, p) /\ HistoryTaken(x))
    BY HistorySetDoes
<1>5. CASE Shown(k, x, v, p) /\ refused' = refused
    <2>1. Touches(k, x) /\ AtOnce(x, v, p)
        <3> HIDE DEF k, v, p
        <3> QED BY <1>1, <1>2, <1>5, ShownIs
    <2> QED BY <1>4, <1>5, <2>1
<1>6. CASE Taken(k, x, p) /\ HistoryTaken(x)
    <2>1. CASE refused' = refused /\ But(buf', x, h, u, d, a, buf.dels, buf.cond)
        <3>1. Touches(k, x) /\ Kept(x, h, u, d, a, p, buf.dels, buf.cond)
            <4> HIDE DEF k, p, h, u, d, a
            <4> QED BY <1>1, <1>2, <1>3, <1>6, <2>1, TakenIs
        <3> QED BY <1>4, <2>1, <3>1 DEF HistoryKept
    <2>2. CASE x \notin Chats /\ refused' = refused /\ But(buf', x, hw, u, d, a, buf.dels, buf.cond)
        <3>1. Touches(k, x) /\ Kept(x, hw, u, d, a, p, buf.dels, buf.cond)
            <4> HIDE DEF k, p, hw, u, d, a
            <4> QED BY <1>1, <1>2, <1>3, <1>6, <2>2, TakenIs
        <3> QED BY <1>4, <2>2, <3>1 DEF HistoryKept
    <2>3. CASE /\ x \in Chats /\ h = <<>> /\ refused' = refused \cup RefusedBy(x)
               /\ But(buf', x, hs, u, none, a, buf.dels, con)
        <3>1. Touches(k, x) /\ Kept(x, hs, u, none, a, p, buf.dels, con)
            <4> HIDE DEF k, p, h, hs, u, none, a, con
            <4> QED BY <1>1, <1>2, <1>3, <1>6, <2>3, TakenIs
        <3> QED BY <1>4, <2>3, <3>1 DEF HistoryKept
    <2> QED BY <1>6, <2>1, <2>2, <2>3 DEF HistoryTaken
<1> QED BY <1>4, <1>5, <1>6
-----------------------------------------------------------------------------
(***************************************************************************)
(* Contacts. An update that waits has none of a contact's upserts, so that *)
(* it may go away.                                                         *)
(***************************************************************************)
Upserts == {"contacts.upsert"}

LEMMA ContactElse ==
    ASSUME BufferInv, NEW k, NEW x, Touches(k, x), NEW p \in Contacts, p # x, ContactRight(p)
    PROVE  ContactRight(p)'
<1>1. p \in Things
    BY DEF Things
<1>2. /\ buf'.hist[p] = buf.hist[p] /\ buf'.ups[p] = buf.ups[p] /\ buf'.upd[p] = buf.upd[p]
      /\ view'[p] = view[p] /\ direct'[p] = direct[p]
    BY <1>1 DEF Touches, Others
<1>3. Wanted(p, {"contacts.upsert"})' = Wanted(p, {"contacts.upsert"})
    BY <1>1, <1>2, WantedStays DEF Touches
<1>4. Cover(Wanted(p, {"contacts.upsert"}), view[p], buf.hist[p], buf.ups[p], buf.upd[p])
    BY ContactIs
<1> QED BY <1>2, <1>3, <1>4 DEF ContactRight, Cover, Line

\* What is held of a contact while nothing is buffered.
LEMMA ContactHolds ==
    ASSUME BufferInv, NEW p \in Contacts
    PROVE  /\ p \in Things /\ p \notin buf.cond /\ p \notin buf.dels /\ p \notin Messages /\ p \notin Chats
           /\ buf.attached[p] = <<>>
           /\ ~buffering => buf.hist[p] = <<>> /\ buf.ups[p] = <<>> /\ buf.upd[p] = <<>>
<1>1. p \in Things /\ p \notin Messages /\ p \notin Chats
    BY ThingsApart DEF Things
<1>2. p \notin buf.cond /\ p \notin buf.dels
    BY <1>1 DEF BufferInv, BufStates
<1>3. ~buffering => HoldsNothing(p)
    BY <1>1 DEF BufferInv
<1> QED BY <1>1, <1>2, <1>3 DEF HoldsNothing, BufferInv

\* What a step of a contact makes of it.
Makes(p, S, v, h, u, d) ==
    /\ Wanted(p, {"contacts.upsert"})' = S /\ view'[p] = v
    /\ buf'.hist[p] = h /\ buf'.ups[p] = u /\ buf'.upd[p] = d

LEMMA ContactMade ==
    ASSUME NEW p, NEW S, NEW v, NEW h, NEW u, NEW d, Makes(p, S, v, h, u, d), Cover(S, v, h, u, d)
    PROVE  ContactRight(p)'
BY DEF Makes, ContactRight, Cover, Line

LEMMA ContactAtOnce ==
    ASSUME BufferInv, NEW k, NEW p \in Contacts, ContactRight(p), Touches(k, p),
           AtOnce(p, view[p] \o W, direct[p] \o W)
    PROVE  ContactRight(p)'
<1> DEFINE S == Wanted(p, {"contacts.upsert"})
           T == Wanted(p, {"contacts.upsert"})'
           v == view[p]
           vw == v \o <<w>>
           none == <<>>
<1>1. Adds(p, {"contacts.upsert"}, k, S, T)
    BY ContactHolds, WantedGrows DEF Touches, AtOnce, Has
<1>2. T \in {S, S \cup {w}}
    BY <1>1 DEF Adds
<1>3. Cover(S, v, none, none, none)
    BY ContactIs, ContactHolds DEF AtOnce
<1>4. Makes(p, T, vw, none, none, none)
    BY ContactHolds DEF Makes, AtOnce, Has, W
<1>5. Later(w, v) /\ w \in Nat
    BY ContactHolds, HereLater, BufTyped
<1> HIDE DEF S, T, v
<1>6. Cover(T, vw, none, none, none)
    BY <1>2, <1>3, <1>5, CoverView
<1> HIDE DEF vw, none
<1> QED BY <1>4, <1>6, ContactMade

LEMMA ContactStays ==
    ASSUME BufferInv, NEW k, NEW p \in Contacts, ContactRight(p), Touches(k, p), k \notin Upserts,
           direct'[p] = direct[p] \o W,
           NEW h, NEW u, NEW d,
           \/ h = buf.hist[p] /\ u = buf.ups[p] /\ d = buf.upd[p]
           \/ h = buf.hist[p] \o W /\ u = buf.ups[p] /\ d = buf.upd[p]
           \/ h = buf.hist[p] /\ u = buf.ups[p] \o W /\ d = buf.upd[p]
           \/ h = buf.hist[p] /\ u = buf.ups[p] /\ d = buf.upd[p] \o W,
           view'[p] = view[p], buf'.hist[p] = h, buf'.ups[p] = u, buf'.upd[p] = d
    PROVE  ContactRight(p)'
<1> DEFINE S == Wanted(p, {"contacts.upsert"})
           v == view[p]
           h0 == buf.hist[p]
           u0 == buf.ups[p]
           d0 == buf.upd[p]
<1>1. Adds(p, {"contacts.upsert"}, k, S, S')
    BY ContactHolds, WantedGrows DEF Touches
<1>2. S' = S
    BY <1>1 DEF Adds, Upserts
<1>3. Cover(S, v, h0, u0, d0)
    BY ContactIs
<1>4. Later(w, v) /\ Later(w, h0) /\ Later(w, u0) /\ Later(w, d0) /\ w \in Nat
    BY ContactHolds, HereLater, BufTyped
<1>5. Makes(p, S, v, h, u, d)
    BY <1>2 DEF Makes
<1>6. \/ h = h0 /\ u = u0 /\ d = d0
      \/ h = h0 \o <<w>> /\ u = u0 /\ d = d0
      \/ h = h0 /\ u = u0 \o <<w>> /\ d = d0
      \/ h = h0 /\ u = u0 /\ d = d0 \o <<w>>
    BY DEF W
<1> HIDE DEF S, v, h0, u0, d0
<1>7. CASE h = h0 \o <<w>> /\ u = u0 /\ d = d0
    <2>1. S \in {S, S \cup {w}} /\ (S = S \/ u0 = <<>>)
        OBVIOUS
    <2>2. Cover(S, v, h0 \o <<w>>, u0, d0)
        BY <1>3, <1>4, <2>1, CoverHist
    <2>3. Cover(S, v, h, u, d)
        BY <1>7, <2>2
    <2> QED BY <1>5, <2>3, ContactMade
<1>8. CASE h = h0 /\ u = u0 \o <<w>> /\ d = d0
    <2>1. S \in {S, S \cup {w}}
        OBVIOUS
    <2>2. Cover(S, v, h0, u0 \o <<w>>, d0)
        BY <1>3, <1>4, <2>1, CoverUps
    <2>3. Cover(S, v, h, u, d)
        BY <1>8, <2>2
    <2> QED BY <1>5, <2>3, ContactMade
<1>9. CASE h = h0 /\ u = u0 /\ d = d0 \o <<w>>
    <2>2. Cover(S, v, h0, u0, d0 \o <<w>>)
        BY <1>3, <1>4, CoverUpd
    <2>3. Cover(S, v, h, u, d)
        BY <1>9, <2>2
    <2> QED BY <1>5, <2>3, ContactMade
<1>10. CASE h = h0 /\ u = u0 /\ d = d0
    <2>3. Cover(S, v, h, u, d)
        BY <1>10, <1>3
    <2> QED BY <1>5, <2>3, ContactMade
<1> QED BY <1>6, <1>7, <1>8, <1>9, <1>10

LEMMA ContactHistory ==
    ASSUME BufferInv, NEW p \in Contacts, ContactRight(p), NEW named \in BOOLEAN, HistorySet(p, named)
    PROVE  ContactRight(p)'
<1>1. /\ Touches("messaging-history.set", p)
      /\ AtOnce(p, view[p] \o W, direct[p] \o W) \/ HistoryKept(p)
    BY HistorySetLeaves
<1>2. "messaging-history.set" \notin Upserts
    BY DEF Upserts
<1>3. CASE HistoryKept(p)
    <2> DEFINE h == buf'.hist[p]
    <2>1. /\ h = buf.hist[p] \/ h = buf.hist[p] \o W
          /\ buf'.hist[p] = h /\ buf'.ups[p] = buf.ups[p] /\ buf'.upd[p] = buf.upd[p] /\ view'[p] = view[p]
          /\ direct'[p] = direct[p] \o W
        BY <1>3, ContactHolds DEF HistoryKept, Kept, Has
    <2> HIDE DEF h
    <2> QED BY <1>1, <1>2, <2>1, ContactStays
<1> QED BY <1>1, <1>3, ContactAtOnce

LEMMA ContactUpdated ==
    ASSUME BufferInv, NEW p \in Contacts, ContactRight(p), ContactsUpdate(p)
    PROVE  ContactRight(p)'
<1>1. /\ Touches("contacts.update", p)
      /\ AtOnce(p, view[p] \o W, direct[p] \o W) \/ KeptMerged(p, direct[p] \o W, buf.dels)
    BY ContactsUpdateLeaves
<1>2. "contacts.update" \notin Upserts
    BY DEF Upserts
<1>3. CASE KeptMerged(p, direct[p] \o W, buf.dels)
    <2> DEFINE h == buf'.hist[p]
               u == buf'.ups[p]
               d == buf'.upd[p]
    <2>1. /\ \/ h = buf.hist[p] \o W /\ u = buf.ups[p] /\ d = buf.upd[p]
             \/ h = buf.hist[p] /\ u = buf.ups[p] \o W /\ d = buf.upd[p]
             \/ h = buf.hist[p] /\ u = buf.ups[p] /\ d = buf.upd[p] \o W
          /\ buf'.hist[p] = h /\ buf'.ups[p] = u /\ buf'.upd[p] = d /\ view'[p] = view[p]
          /\ direct'[p] = direct[p] \o W
        BY <1>3 DEF KeptMerged, Kept, Has
    <2> HIDE DEF h, u, d
    <2> QED BY <1>1, <1>2, <2>1, ContactStays
<1> QED BY <1>1, <1>3, ContactAtOnce

LEMMA ContactUpserted ==
    ASSUME BufferInv, NEW p \in Contacts, ContactRight(p), ContactsUpsert(p)
    PROVE  ContactRight(p)'
<1> DEFINE S == Wanted(p, {"contacts.upsert"})
           T == Wanted(p, {"contacts.upsert"})'
           v == view[p]
           h == buf.hist[p]
           u == buf.ups[p]
           d == buf.upd[p]
           none == <<>>
<1>1. /\ Touches("contacts.upsert", p)
      /\ \/ AtOnce(p, view[p] \o W, direct[p] \o W)
         \/ KeptUpserted(p, UpsertBase(p) \o W, direct[p] \o W, buf.dels, buf.cond)
    BY ContactsUpsertLeaves
<1>2. CASE KeptUpserted(p, UpsertBase(p) \o W, direct[p] \o W, buf.dels, buf.cond)
    <2>1. direct'[p] = direct[p] \o W /\ view'[p] = v
        BY <1>2 DEF KeptUpserted, Kept, Has
    <2>2. Adds(p, {"contacts.upsert"}, "contacts.upsert", S, T)
        BY <1>1, <2>1, ContactHolds, WantedGrows DEF Touches
    <2>3. T = S \cup {w}
        BY <2>2 DEF Adds
    <2>4. Cover(S, v, h, u, d)
        BY ContactIs
    <2>5. Later(w, v) /\ Later(w, h) /\ Later(w, u) /\ Later(w, d) /\ w \in Nat
        BY ContactHolds, HereLater, BufTyped
    <2>6. CASE u = none /\ h # none /\ Kept(p, UpsertBase(p) \o W, u, none, buf.attached[p], direct[p] \o W, buf.dels, buf.cond)
        <3> DEFINE hw == h \o <<w>>
        <3>1. UpsertBase(p) \o W = hw
            BY <2>6 DEF UpsertBase, W
        <3>2. Makes(p, T, v, hw, u, none)
            BY <2>1, <2>6, <3>1 DEF Makes, Kept, Has
        <3> HIDE DEF S, T, v, h, u, d
        <3>3. Cover(T, v, hw, u, d)
            <4>1. T \in {S, S \cup {w}} /\ (T = S \/ u = <<>>)
                BY <2>3, <2>6
            <4> QED BY <2>4, <2>5, <4>1, CoverHist
        <3> HIDE DEF hw
        <3>4. Cover(T, v, hw, u, none)
            BY <3>3, CoverDrops
        <3> HIDE DEF none
        <3> QED BY <3>2, <3>4, ContactMade
    <2>7. CASE /\ ~(u = none /\ h # none)
               /\ Kept(p, h, UpsertBase(p) \o W, none, buf.attached[p], direct[p] \o W, buf.dels, buf.cond)
        <3> DEFINE uw == u \o <<w>>
        <3>1. UpsertBase(p) \o W = uw
            BY <2>7 DEF UpsertBase, W
        <3>2. Makes(p, T, v, h, uw, none)
            BY <2>1, <2>7, <3>1 DEF Makes, Kept, Has
        <3> HIDE DEF S, T, v, h, u, d
        <3>3. Cover(T, v, h, uw, d)
            <4>1. T \in {S, S \cup {w}}
                BY <2>3
            <4> QED BY <2>4, <2>5, <4>1, CoverUps
        <3> HIDE DEF uw
        <3>4. Cover(T, v, h, uw, none)
            BY <3>3, CoverDrops
        <3> HIDE DEF none
        <3> QED BY <3>2, <3>4, ContactMade
    <2> QED BY <1>2, <2>6, <2>7 DEF KeptUpserted
<1> QED BY <1>1, <1>2, ContactAtOnce

LEMMA ContactFlushed ==
    ASSUME BufferInv, NEW p \in Contacts, ContactRight(p), Flushes
    PROVE  ContactRight(p)'
<1> DEFINE S == Wanted(p, {"contacts.upsert"})
           v == view[p]
           h == buf.hist[p]
           u == buf.ups[p]
           d == buf.upd[p]
           all == v \o h \o u \o d
           none == <<>>
<1>1. FlushedAt(p) /\ log' = log /\ direct' = direct
    BY ContactHolds DEF Flushes, app
<1>2. S' = S
    BY <1>1 DEF Wanted
<1>3. v \in Seq(Nat) /\ h \in Seq(Nat) /\ u \in Seq(Nat) /\ d \in Seq(Nat)
    BY ContactHolds, BufTyped
<1>4. Cover(S, v, h, u, d)
    BY ContactIs
<1>5. Applied(p) = all
    <2>1. p \notin Messages /\ p \notin buf.cond /\ p \notin buf.dels /\ buf.attached[p] = <<>>
        BY ContactHolds
    <2>2. Applied(p) = all \o <<>>
        BY <2>1 DEF Applied, Updated
    <2>3. all \in Seq(Nat)
        BY <1>3
    <2> HIDE DEF all
    <2> QED BY <2>2, <2>3
<1>6. Makes(p, S, all, none, none, none)
    BY <1>1, <1>2, <1>5, ContactHolds DEF Makes, FlushedAt
<1> HIDE DEF S, v, h, u, d
<1>7. Cover(S, all, none, none, none)
    BY <1>3, <1>4, CoverFlush
<1> HIDE DEF all, none
<1> QED BY <1>6, <1>7, ContactMade

\* Every step keeps the contacts right.
LEMMA ContactsStep == ASSUME ContactsInv, [Next]_vars PROVE ContactsInv'
<1>1. BufferInv /\ BufferInv'
    BY StepTyped DEF ContactsInv
<1> SUFFICES ASSUME NEW p \in Contacts PROVE ContactRight(p)'
    BY <1>1 DEF ContactsInv
<1>2. ContactRight(p)
    BY DEF ContactsInv
<1>3. CASE Quiet
    <2>1. UNCHANGED <<log, direct, buf, view>>
        BY <1>3 DEF Quiet, app
    <2> QED BY <1>2, <2>1 DEF ContactRight, Wanted, InOrder, Precede, Writes
<1>4. CASE Flushes
    BY <1>1, <1>2, <1>4, ContactFlushed
<1>5. CASE Emission
    <2>1. ASSUME NEW x \in Chats \cup Messages \cup Contacts, NEW named \in BOOLEAN, HistorySet(x, named) PROVE ContactRight(p)'
        <3>1. CASE x = p
            <4>1. HistorySet(p, named)
                BY <2>1, <3>1
            <4> QED BY <1>1, <1>2, <4>1, ContactHistory
        <3>2. CASE x # p
            <4>1. Touches("messaging-history.set", x)
                BY <1>1, <2>1, HistorySetLeaves
            <4> QED BY <1>1, <1>2, <3>2, <4>1, ContactElse
        <3> QED BY <3>1, <3>2
    <2>2. ASSUME NEW c \in Chats, ChatsUpsert(c) PROVE ContactRight(p)'
        <3>1. Touches("chats.upsert", c) /\ c # p
            BY <1>1, <2>2, ChatsUpsertLeaves, ContactHolds
        <3> QED BY <1>1, <1>2, <3>1, ContactElse
    <2>3. ASSUME NEW c \in Chats, ChatsUpdate(c) PROVE ContactRight(p)'
        <3>1. Touches("chats.update", c) /\ c # p
            BY <1>1, <2>3, ChatsUpdateLeaves, ContactHolds
        <3> QED BY <1>1, <1>2, <3>1, ContactElse
    <2>4. ASSUME NEW c \in Chats, NEW ok \in BOOLEAN, ConditionalUpdate(c, ok) PROVE ContactRight(p)'
        <3>1. Touches("conditional chats.update", c) /\ c # p
            BY <1>1, <2>4, ConditionalUpdateLeaves, ContactHolds
        <3> QED BY <1>1, <1>2, <3>1, ContactElse
    <2>5. ASSUME NEW c \in Chats, ChatsDelete(c) PROVE ContactRight(p)'
        <3>1. Touches("chats.delete", c) /\ c # p
            BY <1>1, <2>5, ChatsDeleteLeaves, ContactHolds
        <3> QED BY <1>1, <1>2, <3>1, ContactElse
    <2>6. ASSUME NEW q \in Contacts, ContactsUpsert(q) PROVE ContactRight(p)'
        BY <1>1, <1>2, <2>6, ContactsUpsertLeaves, ContactElse, ContactUpserted
    <2>7. ASSUME NEW q \in Contacts, ContactsUpdate(q) PROVE ContactRight(p)'
        BY <1>1, <1>2, <2>7, ContactsUpdateLeaves, ContactElse, ContactUpdated
    <2>8. ASSUME NEW m \in Messages, MessagesUpsert(m) PROVE ContactRight(p)'
        <3>1. Touches("messages.upsert", m) /\ m # p
            BY <1>1, <2>8, MessagesUpsertLeaves, ContactHolds
        <3> QED BY <1>1, <1>2, <3>1, ContactElse
    <2>9. ASSUME NEW m \in Messages, MessagesUpdate(m) PROVE ContactRight(p)'
        <3>1. Touches("messages.update", m) /\ m # p
            BY <1>1, <2>9, MessagesUpdateLeaves, ContactHolds
        <3> QED BY <1>1, <1>2, <3>1, ContactElse
    <2>10. ASSUME NEW m \in Messages, MessagesDelete(m) PROVE ContactRight(p)'
        <3>1. Touches("messages.delete", m) /\ m # p
            BY <1>1, <2>10, MessagesDeleteLeaves, ContactHolds
        <3> QED BY <1>1, <1>2, <3>1, ContactElse
    <2>11. ASSUME NEW m \in Messages, MessagesAttach(m) PROVE ContactRight(p)'
        <3>1. Touches("messages.reaction", m) /\ m # p
            BY <1>1, <2>11, MessagesAttachLeaves, ContactHolds
        <3> QED BY <1>1, <1>2, <3>1, ContactElse
    <2>12. ASSUME NEW g \in Groups, GroupsUpdate(g) PROVE ContactRight(p)'
        <3>1. g # p
            BY ThingsApart
        <3> QED BY <1>1, <1>2, <2>12, <3>1, GroupsUpdateLeaves, ContactElse
    <2> QED BY <1>5, <2>1, <2>2, <2>3, <2>4, <2>5, <2>6, <2>7, <2>8, <2>9, <2>10, <2>11, <2>12 DEF Emission
<1> QED BY <1>1, <1>3, <1>4, <1>5, StepIs

LEMMA ContactsInit == ASSUME Init PROVE ContactsInv
<1>1. BufferInv
    BY InitTyped
<1>2. ASSUME NEW p \in Contacts PROVE ContactRight(p)
    <2>1. /\ direct[p] = <<>> /\ view[p] = <<>> /\ buf.hist[p] = <<>> /\ buf.ups[p] = <<>> /\ buf.upd[p] = <<>>
        BY DEF Init, Nothing, FreshState, Things
    <2> QED BY <2>1, WritesNone DEF ContactRight, Wanted, Precede
<1> QED BY <1>1, <1>2 DEF ContactsInv

LEMMA ContactsShown == ASSUME ContactsInv PROVE ContactsShow
<1> SUFFICES ASSUME ~buffering, NEW p \in Contacts PROVE Shows(p, {"contacts.upsert"})
    BY DEF ContactsShow
<1>1. BufferInv /\ ContactRight(p)
    BY DEF ContactsInv
<1>2. buf.hist[p] = <<>> /\ buf.ups[p] = <<>>
    BY <1>1, ContactHolds
<1> QED BY <1>1, <1>2, WritesNone DEF ContactRight, Shows
-----------------------------------------------------------------------------
(***************************************************************************)
(* Chats of the live session.                                              *)
(***************************************************************************)
\* No event waits for anything: there are none of the initial sync.
Live == Kinds \cap {"messaging-history.set", "conditional chats.update"} = {}

\* An object that is not there adds nothing.
LEMMA JoinNone == ASSUME NEW s \in Seq(Nat) PROVE s \o <<>> = s /\ <<>> \o s = s
OBVIOUS

LEMMA EitherJoin ==
    ASSUME NEW u \in Seq(Nat), NEW d \in Seq(Nat), NEW s \in Seq(Nat), u = <<>> \/ d = <<>>
    PROVE  d \o (u \o s) = (u \o d) \o s /\ u \o d \in Seq(Nat) /\ (u \o d) \o s \in Seq(Nat)
<1>1. u \o s \in Seq(Nat) /\ d \o s \in Seq(Nat) /\ u \o d \in Seq(Nat)
    OBVIOUS
<1>2. CASE u = <<>>
    <2>1. u \o s = s /\ u \o d = d
        BY <1>2, JoinNone
    <2> QED BY <1>1, <2>1
<1>3. CASE d = <<>>
    <2>1. d \o (u \o s) = u \o s /\ u \o d = u
        BY <1>1, <1>3, JoinNone
    <2> QED BY <1>1, <2>1
<1> QED BY <1>2, <1>3

LEMMA ChatLineGrows ==
    ASSUME NEW p \in Seq(Nat), NEW v, NEW o, NEW gone \in BOOLEAN, NEW i \in Nat, ChatLine(p, v, o, gone),
           Later(i, p), Later(i, v), Later(i, o)
    PROVE  ChatLine(p \o <<i>>, v, o \o <<i>>, FALSE)
<1>1. Single(i) /\ Joins(p, <<i>>) /\ Joins(o, <<i>>)
    BY WritesSingle, WritesJoin DEF Single, Later
<1>2. Writes(p \o <<i>>) = Writes(p) \cup {i}
    BY <1>1 DEF Joins, Single
<1>3. Line(Writes(p \o <<i>>), v, o \o <<i>>)
    BY <1>2, LineGrows DEF ChatLine
<1>4. Writes(p \o <<i>>) \subseteq Writes(v) \cup Writes(o \o <<i>>)
    <2>1. CASE gone
        <3>1. Writes(p) = {}
            BY <2>1, WritesNone DEF ChatLine
        <3> QED BY <1>1, <1>2, <3>1 DEF Joins, Single
    <2>2. CASE ~gone
        BY <1>1, <1>2, <2>2 DEF Joins, Single, ChatLine
    <2> QED BY <2>1, <2>2
<1>5. p \o <<i>> # <<>>
    <2>1. i \in Writes(p \o <<i>>)
        BY <1>2
    <2> QED BY <2>1, WritesNone
<1> QED BY <1>3, <1>4, <1>5 DEF ChatLine

LEMMA ChatLineShows ==
    ASSUME NEW p \in Seq(Nat), NEW v, NEW i \in Nat, ChatLine(p, v, <<>>, FALSE), Later(i, p), Later(i, v)
    PROVE  ChatLine(p \o <<i>>, v \o <<i>>, <<>>, FALSE)
<1>1. Single(i) /\ Joins(p, <<i>>) /\ Joins(v, <<i>>) /\ Later(i, <<>>)
    BY WritesSingle, WritesJoin, WritesNone DEF Single, Later
<1>2. Writes(p \o <<i>>) = Writes(p) \cup {i} /\ Writes(v \o <<i>>) = Writes(v) \cup {i}
    BY <1>1 DEF Joins, Single
<1>3. Line(Writes(p), <<>>, v)
    BY WritesNone DEF ChatLine, Line, Precede
<1>4. InOrder(v \o <<i>>, Writes(p \o <<i>>))
    BY <1>1, <1>2, <1>3, LineGrows DEF Line
<1>5. Line(Writes(p \o <<i>>), v \o <<i>>, <<>>)
    BY <1>4, WritesNone, LineNone
<1>6. p \o <<i>> # <<>>
    <2>1. i \in Writes(p \o <<i>>)
        BY <1>2
    <2> QED BY <2>1, WritesNone
<1> QED BY <1>2, <1>5, <1>6, WritesNone DEF ChatLine

LEMMA ChatLineGone == ASSUME NEW v PROVE ChatLine(<<>>, v, <<>>, TRUE) /\ ChatLine(<<>>, <<>>, <<>>, FALSE)
BY WritesNone, LineNone DEF ChatLine, Line, Precede, InOrder

\* A flush leaves nothing of a chat that was deleted and all of the others.
LEMMA ChatLineFlush ==
    ASSUME NEW p \in Seq(Nat), NEW v \in Seq(Nat), NEW o \in Seq(Nat), NEW gone \in BOOLEAN, ChatLine(p, v, o, gone)
    PROVE  ChatLine(p, IF gone THEN <<>> ELSE v \o o, <<>>, FALSE)
<1>1. CASE gone
    <2>1. p = <<>>
        BY <1>1 DEF ChatLine
    <2> QED BY <1>1, <2>1, ChatLineGone
<1>2. CASE ~gone
    <2> DEFINE vo == v \o o
    <2>1. Joins(v, o) /\ InOrder(vo, Writes(p))
        BY WritesJoin, LineJoin DEF ChatLine
    <2>2. Writes(p) \subseteq Writes(vo) /\ (p = <<>> => vo = <<>>)
        BY <1>2, <2>1 DEF ChatLine, Joins
    <2> HIDE DEF vo
    <2>3. Line(Writes(p), vo, <<>>)
        BY <2>1, WritesNone, LineNone
    <2>4. ChatLine(p, vo, <<>>, FALSE)
        BY <2>2, <2>3 DEF ChatLine
    <2> QED BY <1>2, <2>4 DEF vo
<1> QED BY <1>1, <1>2

\* What is held of a chat in a live session.
LEMMA ChatHolds ==
    ASSUME LiveInv, NEW c \in Chats
    PROVE  /\ BufferInv /\ ChatRight(c) /\ c \in Things /\ c \notin Messages /\ buf.cond = {} /\ buf.hist[c] = <<>>
           /\ buf.attached[c] = <<>>
           /\ buf.ups[c] \in Seq(Nat) /\ buf.upd[c] \in Seq(Nat) /\ view[c] \in Seq(Nat) /\ direct[c] \in Seq(Nat)
           /\ ~buffering => buf.ups[c] = <<>> /\ buf.upd[c] = <<>> /\ c \notin buf.dels
<1>1. BufferInv /\ ChatRight(c) /\ buf.cond = {} /\ buf.hist[c] = <<>>
    BY DEF LiveInv, ContactsInv
<1>2. c \in Things /\ c \notin Messages
    BY ThingsApart DEF Things
<1>3. ~buffering => HoldsNothing(c)
    BY <1>1, <1>2 DEF BufferInv
<1>4. buf.attached[c] = <<>>
    BY <1>1, <1>2 DEF BufferInv
<1> QED BY <1>1, <1>2, <1>3, <1>4, BufTyped DEF HoldsNothing

\* What a step of a chat makes of it.
ChatMakes(c, p, v, u, d, gone) ==
    /\ direct'[c] = p /\ view'[c] = v /\ buf'.ups[c] = u /\ buf'.upd[c] = d
    /\ (c \in buf'.dels) = gone

LEMMA ChatMade ==
    ASSUME NEW c, NEW p, NEW v, NEW u \in Seq(Nat), NEW d \in Seq(Nat), NEW gone, ChatMakes(c, p, v, u, d, gone),
           NEW o, \/ u = <<>> /\ o = d
                  \/ d = <<>> /\ o = u,
           ChatLine(p, v, o, gone)
    PROVE  ChatRight(c)'
<1>1. u \o d = o
    <2>1. CASE u = <<>> /\ o = d
        BY <2>1, JoinNone
    <2>2. CASE d = <<>> /\ o = u
        BY <2>2, JoinNone
    <2> QED BY <2>1, <2>2
<1> HIDE DEF ChatLine
<1> QED BY <1>1 DEF ChatMakes, ChatRight

LEMMA ChatAtOnce ==
    ASSUME LiveInv, NEW c \in Chats, AtOnce(c, view[c] \o W, direct[c] \o W)
    PROVE  ChatRight(c)'
<1> DEFINE p == direct[c]
           v == view[c]
           pw == p \o <<w>>
           vw == v \o <<w>>
           none == <<>>
<1>1. none \in Seq(Nat) /\ w \in Nat /\ p \in Seq(Nat) /\ Later(w, p) /\ Later(w, v)
    BY ChatHolds, HereLater, BufTyped, WritesNone
<1>2. ChatLine(p, v, none, FALSE)
    <2>1. ChatLine(p, v, buf.ups[c] \o buf.upd[c], c \in buf.dels)
        BY ChatHolds DEF ChatRight
    <2>2. buf.ups[c] \o buf.upd[c] = none /\ (c \in buf.dels) = FALSE
        BY <1>1, ChatHolds, JoinNone DEF AtOnce
    <2> QED BY <2>1, <2>2
<1>3. ChatMakes(c, pw, vw, none, none, FALSE)
    BY ChatHolds DEF ChatMakes, AtOnce, Has, W
<1> HIDE DEF p, v
<1>4. ChatLine(pw, vw, none, FALSE)
    BY <1>1, <1>2, ChatLineShows
<1> HIDE DEF pw, vw, none
<1> QED BY <1>1, <1>3, <1>4, ChatMade DEF none

\* An event of a chat that is buffered goes to the end of what is.
LEMMA ChatGrows ==
    ASSUME LiveInv, NEW c \in Chats, NEW o \in Seq(Nat), NEW u \in Seq(Nat), NEW d \in Seq(Nat),
           o = buf.ups[c] \o buf.upd[c],
           \/ u = <<>> /\ d = o \o W
           \/ d = <<>> /\ u = o \o W,
           direct'[c] = direct[c] \o W, view'[c] = view[c], buf'.ups[c] = u, buf'.upd[c] = d, c \notin buf'.dels
    PROVE  ChatRight(c)'
<1> DEFINE p == direct[c]
           v == view[c]
           gone == c \in buf.dels
           pw == p \o <<w>>
           ow == o \o <<w>>
<1>1. /\ w \in Nat /\ p \in Seq(Nat) /\ Later(w, p) /\ Later(w, v) /\ Later(w, buf.ups[c]) /\ Later(w, buf.upd[c])
      /\ gone \in BOOLEAN
    <2>1. BufferInv /\ c \in Things
        BY ChatHolds
    <2>2. /\ Later(w, direct[c]) /\ Later(w, view[c]) /\ Later(w, buf.ups[c]) /\ Later(w, buf.upd[c])
        BY <2>1, HereLater
    <2>3. w \in Nat /\ direct[c] \in Seq(Nat)
        BY <2>1, BufTyped
    <2>4. (c \in buf.dels) \in BOOLEAN
        OBVIOUS
    <2> QED BY <2>2, <2>3, <2>4, Zenon
<1>2. Later(w, o)
    <2> DEFINE u0 == buf.ups[c]
               d0 == buf.upd[c]
    <2>1. Later(w, u0) /\ Later(w, d0) /\ o = u0 \o d0
        BY <1>1
    <2> HIDE DEF u0, d0
    <2>2. Joins(u0, d0)
        BY <2>1, WritesJoin DEF Later
    <2> QED BY <2>1, <2>2 DEF Joins, Later
<1>3. ChatLine(p, v, o, gone)
    <2>1. ChatLine(direct[c], view[c], buf.ups[c] \o buf.upd[c], c \in buf.dels)
        BY ChatHolds DEF ChatRight
    <2> QED BY <2>1, Zenon
<1>4. ChatMakes(c, pw, v, u, d, FALSE)
    <2>1. (c \in buf'.dels) = FALSE
        OBVIOUS
    <2>2. /\ direct'[c] = pw
          /\ view'[c] = v
          /\ buf'.ups[c] = u
          /\ buf'.upd[c] = d
        BY DEF W
    <2> QED BY <2>1, <2>2, Zenon DEF ChatMakes
<1>5. \/ u = <<>> /\ ow = d
      \/ d = <<>> /\ ow = u
    BY DEF W
<1> HIDE DEF p, v, gone
<1>6. ChatLine(pw, v, ow, FALSE)
    BY <1>1, <1>2, <1>3, ChatLineGrows
<1> HIDE DEF pw, ow
<1> QED BY <1>4, <1>5, <1>6, ChatMade

LEMMA ChatUpserted ==
    ASSUME LiveInv, NEW c \in Chats, ChatsUpsert(c)
    PROVE  ChatRight(c)'
<1>1. BufferInv
    BY ChatHolds
<1>2. \/ AtOnce(c, view[c] \o W, direct[c] \o W)
      \/ KeptUpserted(c, Absorbed(c, UpsertBase(c) \o W), direct[c] \o W, buf.dels \ {c}, buf.cond \ {c})
    BY <1>1, ChatsUpsertLeaves
<1>3. CASE KeptUpserted(c, Absorbed(c, UpsertBase(c) \o W), direct[c] \o W, buf.dels \ {c}, buf.cond \ {c})
    <2> DEFINE u == buf.ups[c]
               d == buf.upd[c]
               o == u \o d
               a == Absorbed(c, UpsertBase(c) \o W)
    <2>1. u = <<>> \/ d = <<>>
        BY ChatHolds DEF ChatRight
    <2>2. u \in Seq(Nat) /\ d \in Seq(Nat) /\ W \in Seq(Nat)
        BY ChatHolds, BufTyped
    <2>3. a = d \o (u \o W)
        BY ChatHolds DEF Absorbed, Refuses, UpsertBase
    <2>4. /\ direct'[c] = direct[c] \o W /\ view'[c] = view[c] /\ buf'.ups[c] = a /\ buf'.upd[c] = <<>> /\ c \notin buf'.dels
        BY <1>3, ChatHolds DEF KeptUpserted, Kept, Has
    <2>5. a = o \o W /\ o \in Seq(Nat) /\ a \in Seq(Nat) /\ o = u \o d /\ <<>> \in Seq(Nat)
        <3> HIDE DEF u, d, a
        <3>1. d \o (u \o W) = (u \o d) \o W /\ u \o d \in Seq(Nat) /\ (u \o d) \o W \in Seq(Nat)
            BY <2>1, <2>2, EitherJoin
        <3> QED BY <2>3, <3>1, WritesNone
    <2> HIDE DEF a, o
    <2> QED BY <2>4, <2>5, ChatGrows
<1> QED BY <1>2, <1>3, ChatAtOnce

LEMMA ChatUpdated ==
    ASSUME LiveInv, NEW c \in Chats, ChatsUpdate(c)
    PROVE  ChatRight(c)'
<1>1. BufferInv
    BY ChatHolds
<1>2. \/ AtOnce(c, view[c] \o W, direct[c] \o W)
      \/ KeptMerged(c, direct[c] \o W, buf.dels \ {c})
    BY <1>1, ChatsUpdateLeaves
<1>3. CASE KeptMerged(c, direct[c] \o W, buf.dels \ {c})
    <2> DEFINE u == buf.ups[c]
               d == buf.upd[c]
               o == u \o d
               u2 == buf'.ups[c]
               d2 == buf'.upd[c]
    <2>1. u = <<>> \/ d = <<>>
        BY ChatHolds DEF ChatRight
    <2>2. u \in Seq(Nat) /\ d \in Seq(Nat) /\ W \in Seq(Nat)
        BY ChatHolds, BufTyped
    <2>3. \/ u # <<>> /\ u2 = u \o W /\ d2 = d
          \/ u = <<>> /\ u2 = u /\ d2 = d \o W
        BY <1>3, ChatHolds DEF KeptMerged, Kept, Has
    <2>4. /\ direct'[c] = direct[c] \o W /\ view'[c] = view[c] /\ buf'.ups[c] = u2 /\ buf'.upd[c] = d2 /\ c \notin buf'.dels
        BY <1>3 DEF KeptMerged, Kept, Has
    <2>5. /\ o \in Seq(Nat) /\ u2 \in Seq(Nat) /\ d2 \in Seq(Nat) /\ o = u \o d
          /\ \/ u2 = <<>> /\ d2 = o \o W
             \/ d2 = <<>> /\ u2 = o \o W
        <3> HIDE DEF u, d, u2, d2
        <3>1. CASE u = <<>>
            <4>1. o = d /\ u2 = <<>> /\ d2 = d \o W
                BY <2>2, <2>3, <3>1, JoinNone
            <4> QED BY <2>2, <4>1, WritesNone
        <3>2. CASE u # <<>>
            <4>1. o = u /\ d2 = <<>> /\ u2 = u \o W
                BY <2>1, <2>2, <2>3, <3>2, JoinNone
            <4> QED BY <2>2, <4>1, WritesNone
        <3> QED BY <3>1, <3>2
    <2> HIDE DEF o, u2, d2
    <2> QED BY <2>4, <2>5, ChatGrows
<1> QED BY <1>2, <1>3, ChatAtOnce

LEMMA ChatDeleted ==
    ASSUME LiveInv, NEW c \in Chats, ChatsDelete(c)
    PROVE  ChatRight(c)'
<1> DEFINE none == <<>>
           v == view[c]
<1>1. BufferInv /\ none \in Seq(Nat)
    BY ChatHolds, WritesNone
<1>2. \/ AtOnce(c, none, none)
      \/ Kept(c, none, none, none, buf.attached[c], none, buf.dels \cup {c}, buf.cond \ {c})
    BY <1>1, ChatsDeleteLeaves
<1>3. CASE AtOnce(c, none, none)
    <2>1. ChatMakes(c, none, none, none, none, FALSE)
        BY <1>3, ChatHolds DEF AtOnce, Has, ChatMakes
    <2>2. ChatLine(none, none, none, FALSE) /\ none = <<>>
        BY ChatLineGone
    <2> HIDE DEF none
    <2> QED BY <1>1, <2>1, <2>2, ChatMade
<1>4. CASE Kept(c, none, none, none, buf.attached[c], none, buf.dels \cup {c}, buf.cond \ {c})
    <2>1. ChatMakes(c, none, v, none, none, TRUE)
        BY <1>4 DEF Kept, Has, ChatMakes
    <2>2. ChatLine(none, v, none, TRUE) /\ none = <<>>
        BY ChatLineGone
    <2> HIDE DEF none, v
    <2> QED BY <1>1, <2>1, <2>2, ChatMade
<1> QED BY <1>2, <1>3, <1>4

LEMMA ChatFlushed ==
    ASSUME LiveInv, NEW c \in Chats, Flushes
    PROVE  ChatRight(c)'
<1> DEFINE p == direct[c]
           v == view[c]
           u == buf.ups[c]
           d == buf.upd[c]
           o == u \o d
           gone == c \in buf.dels
           all == IF gone THEN <<>> ELSE v \o o
           none == <<>>
<1>1. /\ u = <<>> \/ d = <<>>
      /\ ChatLine(p, v, o, gone)
    BY ChatHolds DEF ChatRight
<1>2. /\ p \in Seq(Nat) /\ v \in Seq(Nat) /\ u \in Seq(Nat) /\ d \in Seq(Nat) /\ o \in Seq(Nat) /\ none \in Seq(Nat)
      /\ gone \in BOOLEAN
    BY ChatHolds, WritesNone
<1>3. FlushedAt(c) /\ direct' = direct /\ buf'.dels = {}
    BY ChatHolds DEF Flushes, app
<1>4. Applied(c) = all
    <2>1. c \notin Messages /\ c \notin buf.cond /\ buf.attached[c] = <<>> /\ buf.hist[c] = <<>>
        BY ChatHolds
    <2>2. Applied(c) = (IF gone THEN <<>> ELSE ((v \o <<>>) \o u) \o d) \o <<>>
        BY <2>1 DEF Applied, Updated
    <2>3. ((v \o <<>>) \o u) \o d = v \o o
        <3> HIDE DEF v, u, d
        <3>1. v \o <<>> = v
            BY <1>2, JoinNone
        <3>2. CASE u = <<>>
            BY <1>2, <3>1, <3>2, JoinNone DEF o
        <3>3. CASE d = <<>>
            <4>1. v \o u \in Seq(Nat) /\ o = u
                BY <1>2, <3>3, JoinNone DEF o
            <4> QED BY <3>1, <3>3, <4>1, JoinNone
        <3> QED BY <1>1, <3>2, <3>3
    <2>4. v \o o \in Seq(Nat)
        BY <1>2
    <2>5. (v \o o) \o <<>> = v \o o /\ <<>> \o <<>> = <<>>
        BY <2>4, JoinNone, WritesNone
    <2> QED BY <2>2, <2>3, <2>5
<1>5. ChatMakes(c, p, all, none, none, FALSE)
    BY <1>3, <1>4, ChatHolds DEF ChatMakes, FlushedAt
<1> HIDE DEF p, v, o, gone
<1>6. ChatLine(p, all, none, FALSE)
    BY <1>1, <1>2, ChatLineFlush
<1> HIDE DEF all
<1>7. \/ none = <<>> /\ none = none
      \/ none = <<>> /\ none = none
    BY DEF none
<1> HIDE DEF none
<1> QED BY <1>2, <1>5, <1>6, <1>7, ChatMade

LEMMA ChatElse ==
    ASSUME LiveInv, NEW k, NEW x, Touches(k, x), NEW c \in Chats, c # x
    PROVE  ChatRight(c)'
<1>1. /\ buf'.ups[c] = buf.ups[c] /\ buf'.upd[c] = buf.upd[c] /\ view'[c] = view[c] /\ direct'[c] = direct[c]
      /\ (c \in buf'.dels <=> c \in buf.dels)
    BY ChatHolds DEF Touches, Others
<1>2. ChatRight(c)
    BY ChatHolds
<1>3. (c \in buf'.dels) = (c \in buf.dels)
    BY <1>1
<1> HIDE DEF ChatLine
<1> QED BY <1>1, <1>2, <1>3 DEF ChatRight
-----------------------------------------------------------------------------
(***************************************************************************)
(* Messages of the live session. An upsert replaces the message, and an    *)
(* update without a message is no message.                                 *)
(***************************************************************************)
\* An object that an update reaches only if it is there.
OnlyThere(o, i) == IF o = <<>> THEN <<>> ELSE o \o <<i>>

LEMMA ThereGrows ==
    ASSUME NEW o \in Seq(Nat), NEW i \in Nat
    PROVE  /\ OnlyThere(o, i) \in Seq(Nat) /\ Writes(OnlyThere(o, i)) \subseteq Writes(o) \cup {i}
           /\ (OnlyThere(o, i) = <<>> <=> o = <<>>) /\ o \o <<i>> # <<>>
<1>1. Single(i) /\ Joins(o, <<i>>)
    BY WritesSingle, WritesJoin DEF Single
<1>2. o \o <<i>> # <<>> /\ Writes(o \o <<i>>) = Writes(o) \cup {i} /\ o \o <<i>> \in Seq(Nat)
    BY <1>1, WritesNone DEF Single, Joins
<1> QED BY <1>2, WritesNone DEF OnlyThere

LEMMA MessageReplaced ==
    ASSUME NEW v, NEW d, NEW r, NEW i \in Nat, Later(i, d), Later(i, r), NEW S, NEW A
    PROVE  MessageLine(<<i>>, v, <<i>> \o d, <<>>, r, S, A)
<1>1. Single(i) /\ Joins(<<i>>, d)
    BY WritesSingle, WritesJoin DEF Single, Later
<1>2. Writes(<<i>>) = {i} /\ Writes(<<i>> \o d) = {i} \cup Writes(d)
    BY <1>1 DEF Single, Joins
<1>3. <<i>> \o d # <<>>
    BY <1>2, WritesNone
<1>4. i \notin Writes(d) /\ i \notin Writes(r)
    <2>1. ~(i < i)
        OBVIOUS
    <2> QED BY <2>1 DEF Later
<1>5. InOrder(<<i>> \o d, {i})
    <2>1. InOrder(<<i>>, {i}) /\ InOrder(d, {i}) /\ Precede(<<i>>, d, {i})
        BY <1>4, OrderSingle, OrderEmpty DEF Precede
    <2> QED BY <1>1, <2>1, OrderJoin DEF Single, Later
<1> QED BY <1>2, <1>3, <1>4, <1>5 DEF MessageLine

LEMMA MessageThere ==
    ASSUME NEW v \in Seq(Nat), NEW S, NEW A, NEW p, p # <<>> => v # <<>>, S \subseteq Writes(v), A \subseteq Writes(v),
           InOrder(v, S), InOrder(v, A)
    PROVE  MessageLine(p, v, <<>>, <<>>, <<>>, S, A)
BY WritesNone, LineNone DEF MessageLine

LEMMA MessageShown ==
    ASSUME NEW p \in Seq(Nat), NEW v \in Seq(Nat), NEW i \in Nat, NEW S, NEW A, NEW S2, NEW A2,
           MessageLine(p, v, <<>>, <<>>, <<>>, S, A), Later(i, v),
           S2 \subseteq S \cup {i}, A2 \subseteq A \cup {i},
           S2 \subseteq Writes(OnlyThere(p, i)), A2 \subseteq Writes(OnlyThere(p, i))
    PROVE  MessageLine(OnlyThere(p, i), OnlyThere(v, i), <<>>, <<>>, <<>>, S2, A2)
<1>1. OnlyThere(v, i) \in Seq(Nat) /\ (OnlyThere(v, i) = <<>> <=> v = <<>>) /\ (OnlyThere(p, i) = <<>> <=> p = <<>>)
    BY ThereGrows
<1>2. CASE p = <<>>
    <2>1. S2 = {} /\ A2 = {} /\ OnlyThere(p, i) = <<>>
        BY <1>2, WritesNone DEF OnlyThere
    <2>2. InOrder(OnlyThere(v, i), {})
        BY OrderEmpty
    <2> QED BY <1>1, <2>1, <2>2, MessageThere
<1>3. CASE p # <<>>
    <2>1. v # <<>> /\ OnlyThere(v, i) = v \o <<i>>
        BY <1>3 DEF MessageLine, OnlyThere
    <2>2. Single(i) /\ Joins(v, <<i>>) /\ Later(i, <<>>)
        BY WritesSingle, WritesJoin, WritesNone DEF Single, Later
    <2>3. Line(S, <<>>, v) /\ Line(A, <<>>, v)
        BY WritesNone DEF MessageLine, Line, Precede
    <2>4. InOrder(v \o <<i>>, S2) /\ InOrder(v \o <<i>>, A2)
        <3>1. Line(S2, <<>>, v \o <<i>>)
            BY <2>2, <2>3, LineGrows
        <3>2. Line(A2, <<>>, v \o <<i>>)
            BY <2>2, <2>3, LineGrows
        <3> QED BY <3>1, <3>2 DEF Line
    <2>5. S2 \subseteq Writes(v \o <<i>>) /\ A2 \subseteq Writes(v \o <<i>>)
        <3>1. S \subseteq Writes(v) /\ A \subseteq Writes(v)
            BY WritesNone DEF MessageLine
        <3> QED BY <2>2, <3>1 DEF Joins, Single
    <2> QED BY <1>1, <2>1, <2>4, <2>5, MessageThere
<1> QED BY <1>2, <1>3

\* A change of a message that is buffered goes onto it.
LEMMA MessageGrows ==
    ASSUME NEW p \in Seq(Nat), NEW v, NEW u, NEW d, NEW r, NEW i \in Nat, NEW S, NEW A, NEW S2, NEW A2,
           MessageLine(p, v, u, d, r, S, A), u # <<>>, Later(i, u), Later(i, r)
    PROVE  MessageLine(OnlyThere(p, i), v, u \o <<i>>, d, r, S2, A2)
<1>1. Single(i) /\ Joins(u, <<i>>)
    BY WritesSingle, WritesJoin DEF Single, Later
<1>2. u \o <<i>> # <<>> /\ Writes(u \o <<i>>) = Writes(u) \cup {i}
    <2>1. Writes(u \o <<i>>) = Writes(u) \cup {i}
        BY <1>1 DEF Joins, Single
    <2> QED BY <2>1, WritesNone
<1> DEFINE q == OnlyThere(p, i)
<1>3. Writes(q) \subseteq Writes(p) \cup {i}
    BY ThereGrows
<1> HIDE DEF q
<1>4. d = <<>> /\ Writes(q) \cap Writes(r) = {} /\ Writes(q) \subseteq Writes(u \o <<i>>)
    <2>1. i \notin Writes(r)
        <3>1. ~(i < i)
            OBVIOUS
        <3> QED BY <3>1 DEF Later
    <2> QED BY <1>2, <1>3, <2>1 DEF MessageLine
<1>5. InOrder(u \o <<i>>, Writes(q))
    <2>1. Line(Writes(p), <<>>, u) /\ Later(i, <<>>)
        BY WritesNone DEF MessageLine, Line, Precede, Later
    <2> QED BY <1>3, <2>1, LineGrows DEF Line
<1>6. MessageLine(q, v, u \o <<i>>, d, r, S2, A2)
    BY <1>2, <1>4, <1>5 DEF MessageLine
<1> QED BY <1>6 DEF q

\* One of a message that is not goes behind what else changes it.
LEMMA MessageWaits ==
    ASSUME NEW p \in Seq(Nat), NEW v, NEW d, NEW r, NEW i \in Nat, NEW S, NEW A, NEW S2, NEW A2,
           MessageLine(p, v, <<>>, d, r, S, A), Later(i, v), Later(i, d), Later(i, r),
           S2 \subseteq S \cup {i}, A2 \subseteq A
    PROVE  MessageLine(OnlyThere(p, i), v, <<>>, d \o <<i>>, r, S2, A2)
<1>1. Single(i) /\ Joins(d, <<i>>)
    BY WritesSingle, WritesJoin DEF Single, Later
<1>2. (OnlyThere(p, i) = <<>> <=> p = <<>>)
    BY ThereGrows
<1>3. S2 \subseteq Writes(v) \cup Writes(d \o <<i>>)
    BY <1>1 DEF MessageLine, Joins, Single
<1>4. Line(S2, v, d \o <<i>>)
    BY LineGrows DEF MessageLine
<1>5. A2 \subseteq Writes(v) \cup Writes(r)
    BY DEF MessageLine
<1>6. Line(A2, v, r)
    BY LineStays DEF MessageLine
<1> QED BY <1>2, <1>3, <1>4, <1>5, <1>6 DEF MessageLine

LEMMA MessageMirror ==
    ASSUME NEW p, NEW v, NEW d, NEW r, NEW S, NEW A, MessageLine(p, v, <<>>, d, r, S, A)
    PROVE  MessageLine(p, v, <<>>, r, d, A, S)
BY DEF MessageLine

\* What the application has of a message that is not deleted, once the buffer is flushed.
Handed(v, u, d, r) ==
    LET there == IF u # <<>> THEN u ELSE v
    IN IF there = <<>> THEN <<>> ELSE (there \o d) \o r

LEMMA MessageFlush ==
    ASSUME NEW p \in Seq(Nat), NEW v \in Seq(Nat), NEW u \in Seq(Nat), NEW d \in Seq(Nat), NEW r \in Seq(Nat), NEW S, NEW A,
           MessageLine(p, v, u, d, r, S, A), S \subseteq Writes(p), A \subseteq Writes(p),
           Writes(r) \cap S = {}, Writes(d) \cap A = {}, p = <<>> => v = <<>> /\ u = <<>>
    PROVE  MessageLine(p, Handed(v, u, d, r), <<>>, <<>>, <<>>, S, A)
<1>1. CASE v = <<>> /\ u = <<>>
    <2>1. p = <<>>
        BY <1>1 DEF MessageLine
    <2>2. S = {} /\ A = {} /\ Handed(v, u, d, r) = <<>>
        BY <1>1, <2>1, WritesNone DEF Handed
    <2>3. InOrder(<<>>, {})
        BY WritesNone
    <2> QED BY <1>1, <2>1, <2>2, <2>3, MessageThere
<1>2. CASE u # <<>>
    <2> DEFINE ur == u \o r
    <2>1. Handed(v, u, d, r) = ur /\ ur # <<>>
        <3>1. u \o <<>> = u
            BY JoinNone
        <3> QED BY <1>2, <3>1 DEF Handed, MessageLine
    <2>2. Joins(u, r)
        BY WritesJoin
    <2>3. Line(Writes(p), u, r)
        BY <1>2, LineNone DEF MessageLine
    <2>4. InOrder(ur, Writes(p)) /\ Writes(p) \subseteq Writes(ur) /\ ur \in Seq(Nat)
        BY <1>2, <2>2, <2>3, LineJoin DEF Joins, MessageLine
    <2> HIDE DEF ur
    <2>5. InOrder(ur, S) /\ InOrder(ur, A)
        BY <2>4, OrderOf
    <2>6. MessageLine(p, ur, <<>>, <<>>, <<>>, S, A)
        BY <2>1, <2>4, <2>5, MessageThere
    <2> QED BY <2>1, <2>6
<1>3. CASE u = <<>> /\ v # <<>>
    <2> DEFINE vd == v \o d
               all == vd \o r
    <2>1. Handed(v, u, d, r) = all
        BY <1>3 DEF Handed
    <2>2. Joins(v, d) /\ Line(S, v, d) /\ S \subseteq Writes(v) \cup Writes(d)
          /\ Line(A, v, r) /\ A \subseteq Writes(v) \cup Writes(r)
        BY <1>3, WritesJoin DEF MessageLine
    <2>3. vd \in Seq(Nat) /\ Writes(vd) = Writes(v) \cup Writes(d) /\ InOrder(vd, S)
        BY <2>2, LineJoin DEF Joins
    <2>4. InOrder(vd, A)
        <3>1. Line(A, v, d)
            BY <2>2, LineNone DEF Line
        <3> QED BY <3>1, LineJoin
    <2> HIDE DEF vd
    <2>5. Line(S, vd, r)
        BY <2>3, LineNone
    <2>6. Line(A, vd, r)
        BY <2>2, <2>3, <2>4 DEF Line, Precede
    <2>7. Joins(vd, r) /\ InOrder(all, S) /\ InOrder(all, A)
        BY <2>3, <2>5, <2>6, WritesJoin, LineJoin
    <2>8. all \in Seq(Nat) /\ S \subseteq Writes(all) /\ A \subseteq Writes(all) /\ all # <<>>
        <3>1. Writes(all) = Writes(vd) \cup Writes(r) /\ all \in Seq(Nat)
            BY <2>7 DEF Joins
        <3>2. v \o d # <<>>
            BY <1>3
        <3> QED BY <2>2, <2>3, <3>1, <3>2 DEF vd
    <2> HIDE DEF all
    <2>9. MessageLine(p, all, <<>>, <<>>, <<>>, S, A)
        BY <2>7, <2>8, MessageThere
    <2> QED BY <2>1, <2>9
<1> QED BY <1>1, <1>2, <1>3

\* What is held of a message in a live session.
LEMMA MessageHolds ==
    ASSUME LiveInv, NEW m \in Messages
    PROVE  /\ BufferInv /\ MessageRight(m) /\ m \in Things /\ m \notin Chats /\ m \notin buf.cond /\ buf.hist[m] = <<>>
           /\ view[m] \in Seq(Nat) /\ direct[m] \in Seq(Nat) /\ buf.ups[m] \in Seq(Nat) /\ buf.upd[m] \in Seq(Nat)
           /\ buf.attached[m] \in Seq(Nat)
           /\ Later(w, view[m]) /\ Later(w, buf.ups[m]) /\ Later(w, buf.upd[m]) /\ Later(w, buf.attached[m])
           /\ w \in Nat /\ Writes(buf.upd[m]) \subseteq DOMAIN log /\ Writes(buf.attached[m]) \subseteq DOMAIN log
           /\ ~buffering => /\ buf.ups[m] = <<>> /\ buf.upd[m] = <<>> /\ buf.attached[m] = <<>> /\ m \notin buf.dels
<1>1. BufferInv /\ MessageRight(m) /\ buf.cond = {} /\ buf.hist[m] = <<>>
    BY DEF LiveInv, ContactsInv
<1>2. m \in Things /\ m \notin Chats
    BY ThingsApart DEF Things
<1>3. ~buffering => HoldsNothing(m)
    BY <1>1, <1>2 DEF BufferInv
<1>4. /\ Later(w, view[m]) /\ Later(w, buf.ups[m]) /\ Later(w, buf.upd[m]) /\ Later(w, buf.attached[m])
    BY <1>1, <1>2, HereLater
<1>5. w \in Nat
    BY <1>1, <1>2, BufTyped
<1>6. OwnWrites(m)
    BY <1>1, <1>2 DEF BufferInv
<1>7. Writes(buf.upd[m]) \subseteq DOMAIN log /\ Writes(buf.attached[m]) \subseteq DOMAIN log
    BY <1>6 DEF OwnWrites, OnThing
<1> QED BY <1>1, <1>2, <1>3, <1>4, <1>5, <1>7, BufTyped DEF HoldsNothing

LEMMA DeletedStays ==
    ASSUME NEW k, NEW x, Touches(k, x), NEW m, Deleted(m)
    PROVE  Deleted(m)'
BY DEF Touches, LogGrows, Deleted

LEMMA DeletedNow ==
    ASSUME NEW m, Touches("messages.delete", m)
    PROVE  Deleted(m)'
BY DEF Touches, LogGrows, Deleted

\* What is wanted after a step that adds to the object, or makes a new one.
After(k, K, before, after, p) ==
    after \subseteq before \cup {w} /\ (k \notin K => after \subseteq before) /\ after \subseteq Writes(p)

LEMMA WantedAfter ==
    ASSUME BufferInv, NEW k, NEW x, Touches(k, x), NEW p, direct'[x] = p, Writes(p) \subseteq Writes(direct[x]) \cup {w}, NEW K
    PROVE  After(k, K, Wanted(x, K), Wanted(x, K)', p)
<1>1. x \in Things /\ LogGrows(k, x)
    BY DEF Touches
<1>2. \A i \in Writes(direct[x]) : log'[i] = log[i]
    BY <1>1, HereLater DEF LogGrows
<1>3. log'[w].kind = k
    BY <1>1 DEF LogGrows
<1>4. Writes(direct[x])' = Writes(p)
    OBVIOUS
<1> QED BY <1>2, <1>3, <1>4 DEF Wanted, After

KindAfter(o, k) == \A i \in Writes(o) : log'[i].kind = k

LEMMA KindStays ==
    ASSUME BufferInv, NEW k, NEW x, Touches(k, x), NEW o, Later(w, o), Writes(o) \subseteq DOMAIN log, NEW t, OfKind(o, t)
    PROVE  KindAfter(o, t)
<1>1. \A i \in Writes(o) : log'[i] = log[i]
    BY DEF Touches, LogGrows
<1> QED BY <1>1 DEF OfKind, KindAfter

LEMMA KindGrows ==
    ASSUME BufferInv, NEW k, NEW x, Touches(k, x), NEW o, Later(w, o), Writes(o) \subseteq DOMAIN log, OfKind(o, k)
    PROVE  KindAfter(o \o W, k)
<1>1. \A i \in Writes(o) : log'[i] = log[i]
    BY DEF Touches, LogGrows
<1>2. log'[w].kind = k /\ x \in Things
    BY DEF Touches, LogGrows
<1>3. Joins(o, W) /\ Writes(W) = {w}
    BY <1>2, WritesJoin, BufTyped DEF Later
<1>4. \A i \in Writes(o \o W) : log'[i].kind = k
    BY <1>1, <1>2, <1>3 DEF OfKind, Joins
<1> QED BY <1>4 DEF KindAfter

\* What a step of a message makes of it.
MessageMakes(m, p, v, u, d, r, gone) ==
    /\ direct'[m] = p /\ view'[m] = v /\ buf'.ups[m] = u /\ buf'.upd[m] = d /\ buf'.attached[m] = r
    /\ (m \in buf'.dels) = gone

LEMMA MessageMade ==
    ASSUME NEW m, NEW p, NEW v, NEW u, NEW d, NEW r, NEW gone \in BOOLEAN, MessageMakes(m, p, v, u, d, r, gone),
           gone => Deleted(m)', p = <<>> => gone \/ (v = <<>> /\ u = <<>>),
           \/ Deleted(m)'
           \/ /\ MessageLine(p, v, u, d, r, Status(m)', Attached(m)')
              /\ KindAfter(d, "messages.update") /\ KindAfter(r, "messages.reaction")
    PROVE  MessageRight(m)'
<1>1. /\ m \in buf'.dels => Deleted(m)'
      /\ direct'[m] = <<>> => m \in buf'.dels \/ (view'[m] = <<>> /\ buf'.ups[m] = <<>>)
    BY DEF MessageMakes
<1>2. ASSUME ~Deleted(m)' PROVE MessageKept(m)'
    <2>1. MessageLine(direct'[m], view'[m], buf'.ups[m], buf'.upd[m], buf'.attached[m], Status(m)', Attached(m)')
        BY <1>2 DEF MessageMakes
    <2>2. (\A i \in Writes(d) : log'[i].kind = "messages.update") /\ (\A i \in Writes(r) : log'[i].kind = "messages.reaction")
        BY <1>2 DEF KindAfter
    <2>3. \A i \in Writes(buf'.upd[m]) : log'[i].kind = "messages.update"
        BY <2>2 DEF MessageMakes
    <2>4. \A i \in Writes(buf'.attached[m]) : log'[i].kind = "messages.reaction"
        BY <2>2 DEF MessageMakes
    <2> HIDE DEF MessageLine
    <2> QED BY <2>1, <2>3, <2>4 DEF MessageKept, OfKind
<1> QED BY <1>1, <1>2 DEF MessageRight

LEMMA MessageUpserted ==
    ASSUME LiveInv, NEW m \in Messages, MessagesUpsert(m)
    PROVE  MessageRight(m)'
<1> DEFINE none == <<>>
           v == view[m]
           d == buf.upd[m]
           r == buf.attached[m]
           u == W \o d
           gone == m \in buf.dels
           k == "messages.upsert"
<1>1. /\ Touches(k, m)
      /\ \/ AtOnce(m, W, W)
         \/ Kept(m, buf.hist[m], u, none, r, W, buf.dels, buf.cond)
    BY MessageHolds, MessagesUpsertLeaves
<1>2. W # <<>> /\ Writes(W) = {w} /\ W \in Seq(Nat) /\ BufferInv /\ w \in Nat /\ gone \in BOOLEAN
    BY MessageHolds, BufTyped
<1>3. KindAfter(none, "messages.update") /\ KindAfter(none, "messages.reaction")
    BY WritesNone DEF KindAfter
<1>4. gone => Deleted(m)'
    BY <1>1, MessageHolds, DeletedStays DEF MessageRight
<1>5. direct'[m] = W
    BY <1>1 DEF AtOnce, Kept, Has
<1>6. Status(m)' \subseteq {w} /\ Attached(m)' \subseteq {w}
    BY <1>2, <1>5 DEF Status, Attached, Wanted
<1>7. CASE AtOnce(m, W, W)
    <2>1. MessageMakes(m, W, W, none, none, none, FALSE)
        BY <1>7, MessageHolds DEF AtOnce, Has, MessageMakes
    <2>2. InOrder(W, Status(m)') /\ InOrder(W, Attached(m)')
        BY <1>2, OrderSingle DEF W
    <2>3. MessageLine(W, W, none, none, none, Status(m)', Attached(m)')
        BY <1>2, <1>6, <2>2, MessageThere
    <2> HIDE DEF none
    <2> QED BY <1>2, <1>3, <2>1, <2>3, MessageMade
<1>8. CASE Kept(m, buf.hist[m], u, none, r, W, buf.dels, buf.cond)
    <2>1. MessageMakes(m, W, v, u, none, r, gone)
        BY <1>8 DEF Kept, Has, MessageMakes
    <2>2. Later(w, d) /\ Later(w, r)
        BY MessageHolds
    <2>3. MessageLine(W, v, u, none, r, Status(m)', Attached(m)')
        <3> HIDE DEF v, d, r
        <3>1. MessageLine(<<w>>, v, <<w>> \o d, none, r, Status(m)', Attached(m)')
            BY <1>2, <2>2, MessageReplaced
        <3> QED BY <3>1 DEF W
    <2>4. Deleted(m)' \/ KindAfter(r, "messages.reaction")
        <3>1. Deleted(m) \/ OfKind(r, "messages.reaction")
            BY MessageHolds DEF MessageRight, MessageKept
        <3>2. Writes(r) \subseteq DOMAIN log
            BY MessageHolds DEF BufferInv, OwnWrites, OnThing
        <3> HIDE DEF r
        <3> QED BY <1>1, <1>2, <2>2, <3>1, <3>2, DeletedStays, KindStays
    <2> HIDE DEF none, v, d, r, u, gone
    <2> QED BY <1>2, <1>3, <1>4, <2>1, <2>3, <2>4, MessageMade
<1> QED BY <1>1, <1>7, <1>8

\* What holds of a message's objects, whatever happens to it.
LEMMA MessageBefore ==
    ASSUME LiveInv, NEW m \in Messages, NEW k, Touches(k, m), direct'[m] = OnlyThere(direct[m], w)
    PROVE  /\ (m \in buf.dels) => Deleted(m)'
           /\ OnlyThere(direct[m], w) = <<>> => direct[m] = <<>>
           /\ direct[m] = <<>> => (m \in buf.dels) \/ (view[m] = <<>> /\ buf.ups[m] = <<>>)
           /\ \/ Deleted(m)'
              \/ /\ MessageLine(direct[m], view[m], buf.ups[m], buf.upd[m], buf.attached[m], Status(m), Attached(m))
                 /\ KindAfter(buf.upd[m], "messages.update") /\ KindAfter(buf.attached[m], "messages.reaction")
                 /\ OfKind(buf.upd[m], "messages.update") /\ OfKind(buf.attached[m], "messages.reaction")
           /\ After(k, {"messages.upsert", "messages.update"}, Status(m), Status(m)', OnlyThere(direct[m], w))
           /\ After(k, {"messages.reaction"}, Attached(m), Attached(m)', OnlyThere(direct[m], w))
<1>1. BufferInv /\ MessageRight(m) /\ m \in Things
    BY MessageHolds
<1>2. Deleted(m) => Deleted(m)'
    BY DeletedStays
<1> DEFINE d == buf.upd[m]
           r == buf.attached[m]
           p == OnlyThere(direct[m], w)
<1>3. Later(w, d) /\ Later(w, r) /\ Writes(d) \subseteq DOMAIN log /\ Writes(r) \subseteq DOMAIN log
    BY MessageHolds
<1>4. Deleted(m) \/ (OfKind(d, "messages.update") /\ OfKind(r, "messages.reaction"))
    BY <1>1 DEF MessageRight, MessageKept
<1>5. Deleted(m) \/ (KindAfter(d, "messages.update") /\ KindAfter(r, "messages.reaction"))
    <2> HIDE DEF d, r
    <2> QED BY <1>1, <1>3, <1>4, KindStays
<1>6. Writes(p) \subseteq Writes(direct[m]) \cup {w} /\ (p = <<>> => direct[m] = <<>>)
    BY <1>1, MessageHolds, ThereGrows
<1>7. /\ After(k, {"messages.upsert", "messages.update"}, Status(m), Status(m)', p)
      /\ After(k, {"messages.reaction"}, Attached(m), Attached(m)', p)
    <2>1. direct'[m] = p
        OBVIOUS
    <2> HIDE DEF p
    <2> QED BY <1>1, <1>6, <2>1, WantedAfter DEF Status, Attached
<1> QED BY <1>1, <1>2, <1>4, <1>5, <1>6, <1>7 DEF MessageRight, MessageKept

LEMMA ThereUpdated ==
    ASSUME NEW m \in Messages, NEW o
    PROVE  Updated(m, o, W) = OnlyThere(o, w)
BY DEF Updated, OnlyThere, W

\* A change at once.
LEMMA MessageAtOnce ==
    ASSUME LiveInv, NEW m \in Messages, NEW k, Touches(k, m), AtOnce(m, OnlyThere(view[m], w), OnlyThere(direct[m], w))
    PROVE  MessageRight(m)'
<1> DEFINE p == direct[m]
           v == view[m]
           S == Status(m)
           A == Attached(m)
           S2 == Status(m)'
           A2 == Attached(m)'
           q == OnlyThere(p, w)
           vw == OnlyThere(v, w)
           none == <<>>
<1>1. /\ buf.ups[m] = none /\ buf.upd[m] = none /\ buf.attached[m] = none /\ m \notin buf.dels
      /\ p \in Seq(Nat) /\ v \in Seq(Nat) /\ Later(w, v) /\ w \in Nat
    BY MessageHolds DEF AtOnce
<1>2. MessageMakes(m, q, vw, none, none, none, FALSE)
    BY <1>1 DEF MessageMakes, AtOnce, Has
<1>3. direct'[m] = q
    BY DEF AtOnce, Has
<1>4. /\ q = <<>> => p = <<>>
      /\ p = <<>> => v = <<>>
      /\ Deleted(m)' \/ MessageLine(p, v, none, none, none, S, A)
      /\ S2 \subseteq S \cup {w} /\ A2 \subseteq A \cup {w} /\ S2 \subseteq Writes(q) /\ A2 \subseteq Writes(q)
    BY <1>1, <1>3, MessageBefore DEF After
<1>5. q = <<>> => vw = <<>>
    BY <1>4 DEF OnlyThere
<1>6. KindAfter(none, "messages.update") /\ KindAfter(none, "messages.reaction") /\ none = <<>>
    BY WritesNone DEF KindAfter
<1>7. Deleted(m)' \/ MessageLine(q, vw, none, none, none, S2, A2)
    <2> HIDE DEF p, v, S, A, S2, A2
    <2> QED BY <1>1, <1>4, MessageShown
<1> HIDE DEF p, v, q, vw, none
<1> QED BY <1>2, <1>5, <1>6, <1>7, MessageMade

\* A change of a message that is in the buffer.
LEMMA MessageChanged ==
    ASSUME LiveInv, NEW m \in Messages, NEW k, Touches(k, m), buf.ups[m] # <<>>,
           Kept(m, buf.hist[m], buf.ups[m] \o W, buf.upd[m], buf.attached[m], OnlyThere(direct[m], w), buf.dels, buf.cond)
    PROVE  MessageRight(m)'
<1> DEFINE p == direct[m]
           v == view[m]
           u == buf.ups[m]
           d == buf.upd[m]
           r == buf.attached[m]
           S2 == Status(m)'
           A2 == Attached(m)'
           q == OnlyThere(p, w)
           uw == u \o <<w>>
           gone == m \in buf.dels
<1>1. /\ p \in Seq(Nat) /\ Later(w, u) /\ Later(w, r) /\ w \in Nat /\ gone \in BOOLEAN
    BY MessageHolds
<1>2. MessageMakes(m, q, v, uw, d, r, gone)
    BY DEF MessageMakes, Kept, Has, W
<1>3. direct'[m] = q
    BY DEF Kept, Has
<1>4. /\ gone => Deleted(m)'
      /\ q = <<>> => gone
      /\ \/ Deleted(m)'
         \/ /\ MessageLine(p, v, u, d, r, Status(m), Attached(m))
            /\ KindAfter(d, "messages.update") /\ KindAfter(r, "messages.reaction")
    BY <1>3, MessageBefore
<1>5. Deleted(m)' \/ MessageLine(q, v, uw, d, r, S2, A2)
    <2> DEFINE S == Status(m)
               A == Attached(m)
    <2>1. Deleted(m)' \/ MessageLine(p, v, u, d, r, S, A)
        BY <1>4
    <2>2. u # <<>>
        OBVIOUS
    <2> HIDE DEF p, v, u, d, r, S, A, S2, A2
    <2> QED BY <1>1, <2>1, <2>2, MessageGrows
<1> HIDE DEF p, v, u, d, r, q, uw, gone
<1> QED BY <1>1, <1>2, <1>4, <1>5, MessageMade

LEMMA MessageUpdated ==
    ASSUME LiveInv, NEW m \in Messages, MessagesUpdate(m)
    PROVE  MessageRight(m)'
<1> DEFINE p == direct[m]
           v == view[m]
           u == buf.ups[m]
           d == buf.upd[m]
           r == buf.attached[m]
           q == OnlyThere(p, w)
           k == "messages.update"
           dw == d \o <<w>>
           gone == m \in buf.dels
           S == Status(m)
           A == Attached(m)
           S2 == Status(m)'
           A2 == Attached(m)'
           none == <<>>
<1>1. /\ Touches(k, m)
      /\ AtOnce(m, OnlyThere(v, w), q) \/ KeptMerged(m, q, buf.dels)
    BY MessageHolds, MessagesUpdateLeaves, ThereUpdated
<1>2. CASE AtOnce(m, OnlyThere(v, w), q)
    BY <1>1, <1>2, MessageAtOnce
<1>3. CASE u # <<>> /\ Kept(m, buf.hist[m], u \o W, d, r, q, buf.dels, buf.cond)
    BY <1>1, <1>3, MessageChanged
<1>4. CASE u = <<>> /\ Kept(m, buf.hist[m], u, d \o W, r, q, buf.dels, buf.cond)
    <2>1. MessageMakes(m, q, v, none, dw, r, gone) /\ direct'[m] = q
        BY <1>4 DEF MessageMakes, Kept, Has, W
    <2>2. /\ p \in Seq(Nat) /\ Later(w, v) /\ Later(w, d) /\ Later(w, r) /\ w \in Nat /\ gone \in BOOLEAN
          /\ Writes(d) \subseteq DOMAIN log /\ BufferInv
        BY MessageHolds
    <2>3. /\ gone => Deleted(m)'
          /\ q = <<>> => p = <<>>
          /\ p = <<>> => gone \/ v = <<>>
          /\ \/ Deleted(m)'
             \/ /\ MessageLine(p, v, none, d, r, S, A)
                /\ OfKind(d, k) /\ KindAfter(r, "messages.reaction")
          /\ S2 \subseteq S \cup {w} /\ A2 \subseteq A
        BY <1>1, <1>4, <2>1, MessageBefore DEF After
    <2>4. Deleted(m)' \/ KindAfter(dw, k)
        <3>1. dw = d \o W
            BY DEF W
        <3> HIDE DEF d, dw
        <3> QED BY <1>1, <2>2, <2>3, <3>1, KindGrows
    <2>5. Deleted(m)' \/ MessageLine(q, v, none, dw, r, S2, A2)
        <3> HIDE DEF p, v, d, r, S, A, S2, A2
        <3> QED BY <2>2, <2>3, MessageWaits
    <2> HIDE DEF p, v, d, r, q, dw, gone, S, A, S2, A2
    <2>6. none = <<>> /\ (q = <<>> => gone \/ v = <<>>)
        BY <2>3
    <2>7. /\ q = <<>> => gone \/ (v = <<>> /\ none = <<>>)
          /\ \/ Deleted(m)'
             \/ /\ MessageLine(q, v, none, dw, r, Status(m)', Attached(m)')
                /\ KindAfter(dw, "messages.update") /\ KindAfter(r, "messages.reaction")
        BY <2>3, <2>4, <2>5, <2>6 DEF S2, A2
    <2> HIDE DEF none
    <2> QED BY <2>1, <2>2, <2>3, <2>7, MessageMade
<1> QED BY <1>1, <1>2, <1>3, <1>4, MessageHolds DEF KeptMerged

LEMMA MessageReacted ==
    ASSUME LiveInv, NEW m \in Messages, MessagesAttach(m)
    PROVE  MessageRight(m)'
<1> DEFINE p == direct[m]
           v == view[m]
           u == buf.ups[m]
           d == buf.upd[m]
           r == buf.attached[m]
           q == OnlyThere(p, w)
           k == "messages.reaction"
           rw == r \o <<w>>
           gone == m \in buf.dels
           S == Status(m)
           A == Attached(m)
           S2 == Status(m)'
           A2 == Attached(m)'
           none == <<>>
<1>1. /\ Touches(k, m)
      /\ \/ AtOnce(m, OnlyThere(v, w), q)
         \/ u # <<>> /\ Kept(m, buf.hist[m], u \o W, d, r, q, buf.dels, buf.cond)
         \/ u = <<>> /\ Kept(m, buf.hist[m], u, d, r \o W, q, buf.dels, buf.cond)
    BY MessageHolds, MessagesAttachLeaves, ThereUpdated
<1>2. CASE AtOnce(m, OnlyThere(v, w), q)
    BY <1>1, <1>2, MessageAtOnce
<1>3. CASE u # <<>> /\ Kept(m, buf.hist[m], u \o W, d, r, q, buf.dels, buf.cond)
    BY <1>1, <1>3, MessageChanged
<1>4. CASE u = <<>> /\ Kept(m, buf.hist[m], u, d, r \o W, q, buf.dels, buf.cond)
    <2>1. MessageMakes(m, q, v, none, d, rw, gone) /\ direct'[m] = q
        BY <1>4 DEF MessageMakes, Kept, Has, W
    <2>2. /\ p \in Seq(Nat) /\ Later(w, v) /\ Later(w, d) /\ Later(w, r) /\ w \in Nat /\ gone \in BOOLEAN
          /\ Writes(r) \subseteq DOMAIN log /\ BufferInv
        BY MessageHolds
    <2>3. /\ gone => Deleted(m)'
          /\ q = <<>> => p = <<>>
          /\ p = <<>> => gone \/ v = <<>>
          /\ \/ Deleted(m)'
             \/ /\ MessageLine(p, v, none, d, r, S, A)
                /\ OfKind(r, k) /\ KindAfter(d, "messages.update")
          /\ S2 \subseteq S /\ A2 \subseteq A \cup {w}
        BY <1>1, <1>4, <2>1, MessageBefore DEF After
    <2>4. Deleted(m)' \/ KindAfter(rw, k)
        <3>1. rw = r \o W
            BY DEF W
        <3> HIDE DEF r, rw
        <3> QED BY <1>1, <2>2, <2>3, <3>1, KindGrows
    <2>5. Deleted(m)' \/ MessageLine(q, v, none, d, rw, S2, A2)
        <3> HIDE DEF p, v, d, r, S, A, S2, A2
        <3>1. Deleted(m)' \/ MessageLine(p, v, none, r, d, A, S)
            BY <2>3, MessageMirror
        <3>2. Deleted(m)' \/ MessageLine(q, v, none, rw, d, A2, S2)
            BY <2>2, <2>3, <3>1, MessageWaits
        <3> HIDE DEF q, rw
        <3> QED BY <3>2, MessageMirror
    <2> HIDE DEF p, v, d, r, q, rw, gone, S, A, S2, A2
    <2>6. none = <<>> /\ (q = <<>> => gone \/ v = <<>>)
        BY <2>3
    <2>7. /\ q = <<>> => gone \/ (v = <<>> /\ none = <<>>)
          /\ \/ Deleted(m)'
             \/ /\ MessageLine(q, v, none, d, rw, Status(m)', Attached(m)')
                /\ KindAfter(d, "messages.update") /\ KindAfter(rw, "messages.reaction")
        BY <2>3, <2>4, <2>5, <2>6 DEF S2, A2
    <2> HIDE DEF none
    <2> QED BY <2>1, <2>2, <2>3, <2>7, MessageMade
<1> QED BY <1>1, <1>2, <1>3, <1>4

LEMMA MessageDeleted ==
    ASSUME LiveInv, NEW m \in Messages, MessagesDelete(m)
    PROVE  MessageRight(m)'
<1> DEFINE none == <<>>
           v == view[m]
           r == buf.attached[m]
<1>1. /\ Touches("messages.delete", m)
      /\ AtOnce(m, none, none) \/ Kept(m, buf.hist[m], none, none, r, none, buf.dels \cup {m}, buf.cond)
    BY MessageHolds, MessagesDeleteLeaves
<1>2. Deleted(m)'
    BY <1>1, DeletedNow
<1>3. CASE AtOnce(m, none, none)
    <2>1. MessageMakes(m, none, none, none, none, none, FALSE) /\ none = <<>>
        BY <1>3, MessageHolds DEF AtOnce, Has, MessageMakes
    <2> HIDE DEF none
    <2> QED BY <1>2, <2>1, MessageMade
<1>4. CASE Kept(m, buf.hist[m], none, none, r, none, buf.dels \cup {m}, buf.cond)
    <2>1. MessageMakes(m, none, v, none, none, r, TRUE)
        BY <1>4 DEF Kept, Has, MessageMakes
    <2> HIDE DEF none, v, r
    <2> QED BY <1>2, <2>1, MessageMade
<1> QED BY <1>1, <1>3, <1>4

LEMMA MessageElse ==
    ASSUME LiveInv, NEW k, NEW x, Touches(k, x), NEW m \in Messages, m # x
    PROVE  MessageRight(m)'
<1> DEFINE p == direct[m]
           v == view[m]
           u == buf.ups[m]
           d == buf.upd[m]
           r == buf.attached[m]
           gone == m \in buf.dels
<1>1. BufferInv /\ m \in Things /\ MessageRight(m)
    BY MessageHolds
<1>2. MessageMakes(m, p, v, u, d, r, gone)
    BY <1>1 DEF Touches, Others, MessageMakes
<1>3. Status(m)' = Status(m) /\ Attached(m)' = Attached(m)
    <2>1. direct'[m] = direct[m] /\ LogGrows(k, x)
        BY <1>1 DEF Touches, Others
    <2> QED BY <1>1, <2>1, WantedStays DEF Status, Attached
<1>4. Later(w, d) /\ Later(w, r) /\ Writes(d) \subseteq DOMAIN log /\ Writes(r) \subseteq DOMAIN log
    BY MessageHolds
<1>5. Deleted(m) => Deleted(m)'
    BY DeletedStays
<1>6. /\ gone => Deleted(m)'
      /\ p = <<>> => gone \/ (v = <<>> /\ u = <<>>)
      /\ \/ Deleted(m)'
         \/ /\ MessageLine(p, v, u, d, r, Status(m)', Attached(m)')
            /\ OfKind(d, "messages.update") /\ OfKind(r, "messages.reaction")
    BY <1>1, <1>3, <1>5 DEF MessageRight, MessageKept
<1> HIDE DEF d, r
<1>7. Deleted(m)' \/ (KindAfter(d, "messages.update") /\ KindAfter(r, "messages.reaction"))
    BY <1>1, <1>4, <1>6, KindStays
<1>8. gone \in BOOLEAN
    OBVIOUS
<1> HIDE DEF p, v, u, gone
<1> QED BY <1>2, <1>6, <1>7, <1>8, MessageMade

LEMMA MessageFlushed ==
    ASSUME LiveInv, NEW m \in Messages, Flushes
    PROVE  MessageRight(m)'
<1> DEFINE p == direct[m]
           v == view[m]
           u == buf.ups[m]
           d == buf.upd[m]
           r == buf.attached[m]
           S == Status(m)
           A == Attached(m)
           none == <<>>
           gone == m \in buf.dels
           after == IF gone THEN none ELSE Handed(v, u, d, r)
<1>1. BufferInv /\ m \in Things /\ MessageRight(m) /\ FlushedAt(m) /\ log' = log /\ direct' = direct /\ buf'.dels = {}
    BY MessageHolds DEF Flushes, app
<1>2. /\ p \in Seq(Nat) /\ v \in Seq(Nat) /\ u \in Seq(Nat) /\ d \in Seq(Nat) /\ r \in Seq(Nat)
      /\ S \subseteq Writes(p) /\ A \subseteq Writes(p) /\ Status(m)' = S /\ Attached(m)' = A /\ Deleted(m)' = Deleted(m)
    BY <1>1, MessageHolds DEF Status, Attached, Wanted, Deleted
<1>3. /\ gone => Deleted(m)
      /\ p = <<>> => gone \/ (v = <<>> /\ u = <<>>)
      /\ \/ Deleted(m)
         \/ /\ MessageLine(p, v, u, d, r, S, A)
            /\ OfKind(d, "messages.update") /\ OfKind(r, "messages.reaction")
    BY <1>1 DEF MessageRight, MessageKept
<1>4. Applied(m) = after
    <2> DEFINE b == v \o <<>>
               up == IF u # <<>> THEN u ELSE b \o u
               dd == IF up = <<>> THEN <<>> ELSE up \o d
               kept == IF gone THEN <<>> ELSE dd
    <2>1. Applied(m) = IF kept = <<>> THEN <<>> ELSE kept \o r
        BY MessageHolds DEF Applied, Updated
    <2>2. up = IF u # <<>> THEN u ELSE v
        <3> HIDE DEF v, u
        <3>1. b = v
            BY <1>2, JoinNone
        <3> QED BY <1>2, <3>1, JoinNone
    <2>3. up \in Seq(Nat)
        <3> HIDE DEF up, v, u
        <3> QED BY <1>2, <2>2
    <2>4. up # <<>> => up \o d # <<>>
        <3> HIDE DEF up, d
        <3> QED BY <1>2, <2>3
    <2> HIDE DEF v, u, d, r, gone, b
    <2> QED BY <2>1, <2>2, <2>4 DEF Handed
<1>5. MessageMakes(m, p, after, none, none, none, FALSE)
    BY <1>1, <1>4, MessageHolds DEF MessageMakes, FlushedAt
<1>6. p = <<>> => after = <<>>
    BY <1>3 DEF Handed
<1>7. KindAfter(none, "messages.update") /\ KindAfter(none, "messages.reaction") /\ none = <<>>
    BY WritesNone DEF KindAfter
<1>8. Deleted(m) \/ MessageLine(p, after, none, none, none, S, A)
    <2>1. CASE Deleted(m)
        BY <2>1
    <2>2. CASE ~Deleted(m)
        <3>1. ~gone /\ MessageLine(p, v, u, d, r, S, A) /\ OfKind(d, "messages.update") /\ OfKind(r, "messages.reaction")
            BY <1>3, <2>2
        <3>2. Writes(r) \cap S = {} /\ Writes(d) \cap A = {}
            BY <3>1 DEF OfKind, Status, Attached, Wanted
        <3>3. p = <<>> => v = <<>> /\ u = <<>>
            BY <1>3, <3>1
        <3> HIDE DEF p, v, u, d, r, S, A, gone
        <3>4. MessageLine(p, Handed(v, u, d, r), <<>>, <<>>, <<>>, S, A)
            BY <1>2, <3>1, <3>2, <3>3, MessageFlush
        <3> QED BY <3>1, <3>4 DEF gone
    <2> QED BY <2>1, <2>2
<1> HIDE DEF p, after, none, S, A
<1>9. /\ p = <<>> => FALSE \/ (after = <<>> /\ none = <<>>)
      /\ \/ Deleted(m)'
         \/ /\ MessageLine(p, after, none, none, none, Status(m)', Attached(m)')
            /\ KindAfter(none, "messages.update") /\ KindAfter(none, "messages.reaction")
    BY <1>2, <1>6, <1>7, <1>8
<1> QED BY <1>5, <1>9, MessageMade
-----------------------------------------------------------------------------
(***************************************************************************)
(* The live session as a whole.                                            *)
(***************************************************************************)
\* Nothing begins to wait.
NoWaiting == buf'.cond = {} /\ \A x \in Chats \cup Messages : buf'.hist[x] = <<>>

LEMMA WaitsForNothing ==
    ASSUME LiveInv, NEW k, NEW x, Touches(k, x), buf'.cond = {}, x \in Contacts \cup Groups \/ buf'.hist[x] = <<>>
    PROVE  NoWaiting
<1> SUFFICES ASSUME NEW y \in Chats \cup Messages PROVE buf'.hist[y] = <<>>
    BY DEF NoWaiting
<1>1. buf.hist[y] = <<>> /\ y \in Things
    BY DEF LiveInv, Things
<1>2. CASE y = x
    BY <1>2, ThingsApart
<1>3. CASE y # x
    BY <1>1, <1>3 DEF Touches, Others
<1> QED BY <1>2, <1>3

\* An event of x: what it makes of x is right, and all others stay right.
LEMMA LiveOthers ==
    ASSUME LiveInv, ContactsInv', NEW k, NEW x, Touches(k, x), NoWaiting,
           x \in Chats => ChatRight(x)', x \in Messages => MessageRight(x)'
    PROVE  LiveInv'
<1>1. ASSUME NEW c \in Chats PROVE ChatRight(c)'
    <2>1. CASE c = x
        BY <2>1
    <2>2. CASE c # x
        BY <2>2, ChatElse
    <2> QED BY <2>1, <2>2
<1>2. ASSUME NEW m \in Messages PROVE MessageRight(m)'
    <2>1. CASE m = x
        BY <2>1
    <2>2. CASE m # x
        BY <2>2, MessageElse
    <2> QED BY <2>1, <2>2
<1> QED BY <1>1, <1>2 DEF LiveInv, NoWaiting

\* Every step of the live session keeps its chats and messages right.
LEMMA LiveStep == ASSUME Live, LiveInv, [Next]_vars PROVE LiveInv'
<1>1. BufferInv /\ ContactsInv'
    BY ContactsStep DEF LiveInv, ContactsInv
<1>2. buf.cond = {} /\ \A x \in Chats \cup Messages : buf.hist[x] = <<>>
    BY DEF LiveInv
<1>3. CASE Quiet
    <2>1. UNCHANGED <<log, direct, buf, view>>
        BY <1>3 DEF Quiet, app
    <2>2. ASSUME NEW c \in Chats PROVE ChatRight(c)'
        BY <2>1, ChatHolds DEF ChatRight
    <2>3. ASSUME NEW m \in Messages PROVE MessageRight(m)'
        <3>1. MessageRight(m)
            BY DEF LiveInv
        <3> QED BY <2>1, <3>1 DEF MessageRight, MessageKept, Status, Attached, Wanted, Deleted, OfKind
    <2> QED BY <1>1, <1>2, <2>1, <2>2, <2>3 DEF LiveInv
<1>4. CASE Flushes
    <2>1. NoWaiting
        BY <1>2, <1>4 DEF Flushes, FlushedAt, NoWaiting, Things
    <2> QED BY <1>1, <1>4, <2>1, ChatFlushed, MessageFlushed DEF LiveInv, NoWaiting
<1>5. ASSUME NEW c \in Chats PROVE
        /\ c \notin Messages /\ buf.hist[c] = <<>>
        /\ \A o, p, del : KeptUpserted(c, o, p, del, buf.cond \ {c}) => buf'.cond = {} /\ buf'.hist[c] = <<>>
        /\ \A p, del : KeptMerged(c, p, del) => buf'.cond = {} /\ buf'.hist[c] = <<>>
        /\ \A v, p : AtOnce(c, v, p) => buf'.cond = {} /\ buf'.hist[c] = <<>>
    <2>1. c \notin Messages /\ buf.hist[c] = <<>>
        BY ChatHolds
    <2> QED BY <1>2, <2>1 DEF KeptUpserted, KeptMerged, AtOnce, Kept, Has
<1>6. ASSUME NEW c \in Chats, ChatsUpsert(c) PROVE LiveInv'
    <2>1. Touches("chats.upsert", c) /\ buf'.cond = {} /\ buf'.hist[c] = <<>>
        BY <1>1, <1>5, <1>6, ChatsUpsertLeaves
    <2>2. NoWaiting
        BY <2>1, WaitsForNothing
    <2> QED BY <1>1, <1>5, <1>6, <2>1, <2>2, LiveOthers, ChatUpserted
<1>7. ASSUME NEW c \in Chats, ChatsUpdate(c) PROVE LiveInv'
    <2>1. Touches("chats.update", c) /\ buf'.cond = {} /\ buf'.hist[c] = <<>>
        BY <1>1, <1>5, <1>7, ChatsUpdateLeaves
    <2>2. NoWaiting
        BY <2>1, WaitsForNothing
    <2> QED BY <1>1, <1>5, <1>7, <2>1, <2>2, LiveOthers, ChatUpdated
<1>8. ASSUME NEW c \in Chats, ChatsDelete(c) PROVE LiveInv'
    <2>1. Touches("chats.delete", c) /\ buf'.cond = {} /\ buf'.hist[c] = <<>>
        BY <1>1, <1>2, <1>5, <1>8, ChatsDeleteLeaves DEF Kept, Has
    <2>2. NoWaiting
        BY <2>1, WaitsForNothing
    <2> QED BY <1>1, <1>5, <1>8, <2>1, <2>2, LiveOthers, ChatDeleted
<1>9. ASSUME NEW p \in Contacts, ContactsUpsert(p) \/ ContactsUpdate(p) PROVE LiveInv'
    <2>1. /\ Touches("contacts.upsert", p) \/ Touches("contacts.update", p)
          /\ buf'.cond = buf.cond
        BY <1>1, <1>9, ContactsUpsertLeaves, ContactsUpdateLeaves DEF AtOnce, KeptUpserted, KeptMerged, Kept, Has
    <2>2. p \notin Chats /\ p \notin Messages
        BY ThingsApart
    <2>3. PICK k \in {"contacts.upsert", "contacts.update"} : Touches(k, p)
        BY <2>1
    <2>4. NoWaiting
        BY <1>2, <2>1, <2>3, WaitsForNothing
    <2> QED BY <1>1, <2>2, <2>3, <2>4, LiveOthers
<1>10. ASSUME NEW m \in Messages PROVE
        /\ m \notin Chats /\ buf.hist[m] = <<>>
        /\ \A p : KeptMerged(m, p, buf.dels) => buf'.cond = {} /\ buf'.hist[m] = <<>>
        /\ \A u, d, a, p, del : Kept(m, buf.hist[m], u, d, a, p, del, buf.cond) => buf'.cond = {} /\ buf'.hist[m] = <<>>
        /\ \A v, p : AtOnce(m, v, p) => buf'.cond = {} /\ buf'.hist[m] = <<>>
    <2>1. m \notin Chats /\ buf.hist[m] = <<>>
        BY MessageHolds
    <2> QED BY <1>2, <2>1 DEF KeptMerged, AtOnce, Kept, Has
<1>11. ASSUME NEW m \in Messages, MessagesUpsert(m) PROVE LiveInv'
    <2>1. Touches("messages.upsert", m) /\ buf'.cond = {} /\ buf'.hist[m] = <<>>
        BY <1>1, <1>10, <1>11, MessagesUpsertLeaves
    <2>2. NoWaiting
        BY <2>1, WaitsForNothing
    <2> QED BY <1>1, <1>10, <1>11, <2>1, <2>2, LiveOthers, MessageUpserted
<1>12. ASSUME NEW m \in Messages, MessagesUpdate(m) PROVE LiveInv'
    <2>1. Touches("messages.update", m) /\ buf'.cond = {} /\ buf'.hist[m] = <<>>
        BY <1>1, <1>10, <1>12, MessagesUpdateLeaves
    <2>2. NoWaiting
        BY <2>1, WaitsForNothing
    <2> QED BY <1>1, <1>10, <1>12, <2>1, <2>2, LiveOthers, MessageUpdated
<1>13. ASSUME NEW m \in Messages, MessagesDelete(m) PROVE LiveInv'
    <2>1. Touches("messages.delete", m) /\ buf'.cond = {} /\ buf'.hist[m] = <<>>
        BY <1>1, <1>10, <1>13, MessagesDeleteLeaves
    <2>2. NoWaiting
        BY <2>1, WaitsForNothing
    <2> QED BY <1>1, <1>10, <1>13, <2>1, <2>2, LiveOthers, MessageDeleted
<1>14. ASSUME NEW m \in Messages, MessagesAttach(m) PROVE LiveInv'
    <2>1. Touches("messages.reaction", m) /\ buf'.cond = {} /\ buf'.hist[m] = <<>>
        BY <1>1, <1>10, <1>14, MessagesAttachLeaves
    <2>2. NoWaiting
        BY <2>1, WaitsForNothing
    <2> QED BY <1>1, <1>10, <1>14, <2>1, <2>2, LiveOthers, MessageReacted
<1>15. ASSUME NEW g \in Groups, GroupsUpdate(g) PROVE LiveInv'
    <2>1. Touches("groups.update", g) /\ buf'.cond = buf.cond
        BY <1>1, <1>15, GroupsUpdateLeaves
    <2>2. g \notin Chats /\ g \notin Messages
        BY ThingsApart
    <2>3. NoWaiting
        BY <1>2, <2>1, WaitsForNothing
    <2> QED BY <1>1, <2>1, <2>2, <2>3, LiveOthers
<1>16. ASSUME NEW x \in Chats \cup Messages \cup Contacts, NEW named \in BOOLEAN PROVE ~HistorySet(x, named)
    BY DEF HistorySet, Emit, Live
<1>17. ASSUME NEW c \in Chats, NEW ok \in BOOLEAN PROVE ~ConditionalUpdate(c, ok)
    BY DEF ConditionalUpdate, Emit, Live
<1>18. CASE Emission
    BY <1>6, <1>7, <1>8, <1>9, <1>11, <1>12, <1>13, <1>14, <1>15, <1>16, <1>17, <1>18 DEF Emission
<1> QED BY <1>1, <1>3, <1>4, <1>18, StepIs

LEMMA LiveInit == ASSUME Init PROVE LiveInv
<1>1. ContactsInv
    BY ContactsInit
<1>2. ASSUME NEW x \in Things
      PROVE  /\ direct[x] = <<>> /\ view[x] = <<>> /\ buf.hist[x] = <<>> /\ buf.ups[x] = <<>> /\ buf.upd[x] = <<>>
             /\ buf.attached[x] = <<>> /\ x \notin buf.dels
    BY DEF Init, Nothing, FreshState
<1>3. buf.cond = {}
    BY DEF Init, FreshState
<1>4. ASSUME NEW c \in Chats PROVE ChatRight(c)
    <2>1. c \in Things
        BY DEF Things
    <2>2. <<>> \o <<>> = <<>> /\ (c \in buf.dels) = FALSE
        BY <1>2, <2>1, WritesNone, JoinNone
    <2> QED BY <1>2, <2>1, <2>2, ChatLineGone DEF ChatRight
<1>5. ASSUME NEW m \in Messages PROVE MessageRight(m)
    <2>1. m \in Things
        BY DEF Things
    <2>2. Status(m) = {} /\ Attached(m) = {}
        BY <1>2, <2>1, WritesNone DEF Status, Attached, Wanted
    <2>3. MessageLine(<<>>, <<>>, <<>>, <<>>, <<>>, {}, {})
        BY WritesNone, LineNone DEF MessageLine
    <2>4. OfKind(<<>>, "messages.update") /\ OfKind(<<>>, "messages.reaction")
        BY WritesNone DEF OfKind
    <2> QED BY <1>2, <2>1, <2>2, <2>3, <2>4 DEF MessageRight, MessageKept
<1> QED BY <1>1, <1>2, <1>3, <1>4, <1>5 DEF LiveInv, Things

LEMMA OfWhole ==
    ASSUME NEW x, NEW K, Wanted(x, K) \subseteq Writes(view[x]), NEW K2, Wanted(x, K2) \subseteq Wanted(x, K),
           InOrder(view[x], Wanted(x, K))
    PROVE  Shows(x, K2)
BY OrderOf DEF Shows

\* When nothing is buffered, what is right in the live session is all there.
LEMMA EverythingIsShown == ASSUME LiveInv PROVE EverythingShows
<1> SUFFICES ASSUME ~buffering PROVE
        /\ \A x \in Chats \cup Contacts \cup Messages : Deleted(x) \/
             /\ Shows(x, {"chats.upsert", "chats.update", "contacts.upsert", "messages.upsert", "messages.update"})
             /\ Shows(x, {"messages.reaction"})
        /\ \A x \in Chats \cup Messages : direct[x] = <<>> => view[x] = <<>>
    BY DEF EverythingShows
<1> DEFINE Written == {"chats.upsert", "chats.update", "contacts.upsert", "messages.upsert", "messages.update"}
           Reacted == {"messages.reaction"}
<1>1. BufferInv
    BY DEF LiveInv, ContactsInv
<1>2. ASSUME NEW c \in Chats PROVE Shows(c, Written) /\ Shows(c, Reacted) /\ (direct[c] = <<>> => view[c] = <<>>)
    <2>1. buf.ups[c] = <<>> /\ buf.upd[c] = <<>> /\ c \notin buf.dels /\ ChatRight(c)
        BY ChatHolds
    <2>2. buf.ups[c] \o buf.upd[c] = <<>> /\ (c \in buf.dels) = FALSE
        BY <2>1, WritesNone, JoinNone
    <2>3. ChatLine(direct[c], view[c], <<>>, FALSE)
        BY <2>1, <2>2 DEF ChatRight
    <2>4. Writes(direct[c]) \subseteq Writes(view[c]) /\ InOrder(view[c], Writes(direct[c])) /\ (direct[c] = <<>> => view[c] = <<>>)
        BY <2>3, WritesNone DEF ChatLine, Line
    <2>5. ASSUME NEW K PROVE Shows(c, K)
        <3>1. Wanted(c, K) \subseteq Writes(direct[c])
            BY DEF Wanted
        <3> QED BY <2>4, <3>1, OrderOf DEF Shows
    <2> QED BY <2>4, <2>5
<1>3. ASSUME NEW p \in Contacts PROVE Shows(p, Written) /\ Shows(p, Reacted)
    <2>1. Shows(p, {"contacts.upsert"})
        BY ContactsShown DEF LiveInv, ContactsShow
    <2>2. \A i \in Writes(direct[p]) : log[i].kind \in ContactKinds
        <3>1. p \in Things
            BY DEF Things
        <3>2. \A i \in Writes(direct[p]) : i \in DOMAIN log /\ log[i].on = p
            BY <1>1, <3>1, HereLater
        <3> QED BY <1>1, <3>2 DEF BufferInv
    <2>3. Wanted(p, Written) \subseteq Wanted(p, {"contacts.upsert"}) /\ Wanted(p, Reacted) \subseteq Wanted(p, {"contacts.upsert"})
        BY <2>2 DEF Wanted, ContactKinds
    <2> HIDE DEF Written, Reacted
    <2> QED BY <2>1, <2>3, OfWhole DEF Shows
<1>4. ASSUME NEW m \in Messages
      PROVE  /\ Deleted(m) \/ (Shows(m, Written) /\ Shows(m, Reacted))
             /\ direct[m] = <<>> => view[m] = <<>>
    <2>1. /\ buf.ups[m] = <<>> /\ buf.upd[m] = <<>> /\ buf.attached[m] = <<>> /\ m \notin buf.dels /\ MessageRight(m)
          /\ m \in Things
        BY MessageHolds
    <2>2. direct[m] = <<>> => view[m] = <<>>
        BY <2>1 DEF MessageRight
    <2>3. CASE ~Deleted(m)
        <3>1. MessageLine(direct[m], view[m], <<>>, <<>>, <<>>, Status(m), Attached(m))
            BY <2>1, <2>3 DEF MessageRight, MessageKept
        <3>2. /\ Status(m) \subseteq Writes(view[m]) /\ InOrder(view[m], Status(m))
              /\ Attached(m) \subseteq Writes(view[m]) /\ InOrder(view[m], Attached(m))
            BY <3>1, WritesNone DEF MessageLine, Line
        <3>3. \A i \in Writes(direct[m]) : log[i].kind \in MessageKinds
            <4>1. \A i \in Writes(direct[m]) : i \in DOMAIN log /\ log[i].on = m
                BY <1>1, <2>1, HereLater
            <4> QED BY <1>1, <4>1 DEF BufferInv
        <3>4. Wanted(m, Written) \subseteq Status(m) /\ Wanted(m, Reacted) = Attached(m)
            BY <3>3 DEF Wanted, Status, Attached, MessageKinds
        <3>5. Shows(m, Written)
            <4> HIDE DEF Written
            <4> QED BY <3>2, <3>4, OfWhole DEF Status
        <3>6. Shows(m, Reacted)
            <4> HIDE DEF Reacted
            <4> QED BY <3>2, <3>4 DEF Shows
        <3> QED BY <3>5, <3>6, <2>2
    <2> QED BY <2>2, <2>3
<1> QED BY <1>2, <1>3, <1>4

\* In the live session, whatever upserts, updates, deletes and reactions fall into which
\* buffers and whichever timer flushes them, the application has all of them in order, and
\* a flush brings nothing back that was deleted (lib/event-buffer.js append, collectConsolidated).
THEOREM EverythingIsRight == ASSUME Live PROVE Spec => []EverythingShows
<1>1. Live /\ LiveInv /\ [Next]_vars => LiveInv'
    BY LiveStep
<1>2. LiveInv /\ [Next]_vars => LiveInv'
    BY <1>1
<1>3. Spec => []LiveInv
    BY <1>2, LiveInit, PTL DEF Spec
<1> QED BY <1>3, EverythingIsShown, PTL
-----------------------------------------------------------------------------
(***************************************************************************)
(* Chats of the initial sync, as sets of writes: what waits is in the      *)
(* updates only, what was refused is nowhere.                              *)
(***************************************************************************)
\* What only grows.
Grown(K, K1, S, S1) == K \subseteq K1 /\ S \subseteq S1
Unused(i, V, H, U, D, Q, R) == i \notin V /\ i \notin H /\ i \notin U /\ i \notin D /\ i \notin Q /\ i \notin R

\* A chat that nothing happens to waits on; then what each event does to it.
LEMMA WaitsOn ==
    ASSUME NEW c, NEW V, NEW H, NEW U, NEW D, NEW con, NEW del, NEW Q, NEW R, NEW K, NEW S,
           Waiting(c, V, H, U, D, con, del, Q, R, K, S),
           NEW K1, NEW S1, Grown(K, K1, S, S1), NEW con1, NEW del1, NEW R1,
           c \in con1 <=> c \in con, c \in del1 => c \in del, R \subseteq R1, (V \cup H \cup U \cup D) \cap R1 = {}
    PROVE  Waiting(c, V, H, U, D, con1, del1, Q, R1, K1, S1)
BY DEF Waiting, Grown

LEMMA WaitsShown ==
    ASSUME NEW c, NEW V, NEW H, NEW U, NEW D, NEW con, NEW del, NEW Q, NEW R, NEW K, NEW S,
           Waiting(c, V, H, U, D, con, del, Q, R, K, S),
           NEW K1, NEW S1, Grown(K, K1, S, S1), NEW i, Unused(i, V, H, U, D, Q, R), c \notin del
    PROVE  Waiting(c, V \cup {i}, H, U, D, con, del, Q, R, K1, S1)
BY DEF Waiting, Grown, Unused

LEMMA WaitsRemoved ==
    ASSUME NEW c, NEW V, NEW H, NEW U, NEW D, NEW con, NEW del, NEW Q, NEW R, NEW K, NEW S,
           Waiting(c, V, H, U, D, con, del, Q, R, K, S),
           NEW K1, NEW S1, Grown(K, K1, S, S1), Q \subseteq S1, c \notin del
    PROVE  Waiting(c, {}, H, U, D, con, del, Q, R, K1, S1)
BY DEF Waiting, Grown

LEMMA WaitsMerged ==
    ASSUME NEW c, NEW V, NEW H, NEW U, NEW D, NEW con, NEW del, NEW Q, NEW R, NEW K, NEW S,
           Waiting(c, V, H, U, D, con, del, Q, R, K, S),
           NEW K1, NEW S1, Grown(K, K1, S, S1), NEW i, Unused(i, V, H, U, D, Q, R), NEW del1, c \notin del1
    PROVE  /\ H # {} => Waiting(c, V, H \cup {i}, U, D, con, del1, Q, R, K1, S1)
           /\ U # {} => Waiting(c, V, H, U \cup {i}, D, con, del1, Q, R, K1, S1)
           /\ Waiting(c, V, H, U, D \cup {i}, con, del1, Q, R, K1, S1)
<1>1. ASSUME H # {} PROVE Waiting(c, V, H \cup {i}, U, D, con, del1, Q, R, K1, S1)
    BY <1>1 DEF Waiting, Grown, Unused
<1>2. ASSUME U # {} PROVE Waiting(c, V, H, U \cup {i}, D, con, del1, Q, R, K1, S1)
    BY <1>2 DEF Waiting, Grown, Unused
<1>3. Waiting(c, V, H, U, D \cup {i}, con, del1, Q, R, K1, S1)
    BY DEF Waiting, Grown, Unused
<1> QED BY <1>1, <1>2, <1>3

\* The waiting update is taken, or refused.
TakenOr(A, D, R, R1) == (A = D /\ R1 = R) \/ (A = {} /\ R1 = R \cup D)

LEMMA WaitsTaken ==
    ASSUME NEW c, NEW V, NEW H, NEW U, NEW D, NEW con, NEW del, NEW Q, NEW R, NEW K, NEW S,
           Waiting(c, V, H, U, D, con, del, Q, R, K, S),
           NEW K1, NEW S1, Grown(K, K1, S, S1), NEW i, Unused(i, V, H, U, D, Q, R), i \in K1,
           NEW con1, c \notin con1, NEW del1, NEW A, NEW R1, TakenOr(A, D, R, R1)
    PROVE  /\ (c \in del1 => c \in del) => Waiting(c, V, A \cup H \cup {i}, U, {}, con1, del1, Q, R1, K1, S1)
           /\ c \notin del1 => Waiting(c, V, H, A \cup U \cup {i}, {}, con1, del1, Q, R1, K1, S1)
<1>1. ASSUME c \in del1 => c \in del PROVE Waiting(c, V, A \cup H \cup {i}, U, {}, con1, del1, Q, R1, K1, S1)
    <2>1. CASE A = D /\ R1 = R
        BY <1>1, <2>1 DEF Waiting, Grown, Unused
    <2>2. CASE A = {} /\ R1 = R \cup D
        BY <1>1, <2>2 DEF Waiting, Grown, Unused
    <2> QED BY <2>1, <2>2 DEF TakenOr
<1>2. ASSUME c \notin del1 PROVE Waiting(c, V, H, A \cup U \cup {i}, {}, con1, del1, Q, R1, K1, S1)
    <2>1. CASE A = D /\ R1 = R
        BY <1>2, <2>1 DEF Waiting, Grown, Unused
    <2>2. CASE A = {} /\ R1 = R \cup D
        BY <1>2, <2>2 DEF Waiting, Grown, Unused
    <2> QED BY <2>1, <2>2 DEF TakenOr
<1> QED BY <1>1, <1>2

LEMMA WaitsAnew ==
    ASSUME NEW c, NEW V, NEW D, NEW con, NEW del, NEW Q, NEW R, NEW K, NEW S,
           Waiting(c, V, {}, {}, D, con, del, Q, R, K, S),
           NEW K1, NEW S1, Grown(K, K1, S, S1), NEW i, Unused(i, V, {}, {}, D, Q, R), Q \subseteq S1,
           NEW con1, c \in con1, NEW del1, c \notin del1
    PROVE  Waiting(c, V, {}, {}, {i}, con1, del1, Q \cup {i}, R, K1, S1)
BY DEF Waiting, Grown, Unused

LEMMA WaitsForNoMore ==
    ASSUME NEW c, NEW V, NEW H, NEW U, NEW D, NEW con, NEW del, NEW Q, NEW R, NEW K, NEW S,
           Waiting(c, V, H, U, D, con, del, Q, R, K, S),
           NEW K1, NEW S1, Grown(K, K1, S, S1), Q \subseteq S1, V \subseteq S1, NEW con1, NEW del1
    PROVE  Waiting(c, V, {}, {}, {}, con1, del1, Q, R, K1, S1)
BY DEF Waiting, Grown

LEMMA WaitsFlushed ==
    ASSUME NEW c, NEW V, NEW H, NEW U, NEW D, NEW con, NEW del, NEW Q, NEW R, NEW K, NEW S,
           Waiting(c, V, H, U, D, con, del, Q, R, K, S), NEW del1, c \notin del1
    PROVE  /\ c \in del => Waiting(c, {}, {}, {}, {}, con, del1, Q, R, K, S)
           /\ c \notin del /\ c \in con => Waiting(c, V \cup H \cup U, {}, {}, D, con, del1, Q, R, K, S)
           /\ c \notin del /\ c \notin con => Waiting(c, V \cup H \cup U \cup D, {}, {}, {}, con, del1, Q, R, K, S)
<1>1. ASSUME c \in del PROVE Waiting(c, {}, {}, {}, {}, con, del1, Q, R, K, S)
    BY <1>1 DEF Waiting
<1>2. ASSUME c \notin del, c \in con PROVE Waiting(c, V \cup H \cup U, {}, {}, D, con, del1, Q, R, K, S)
    BY <1>2 DEF Waiting
<1>3. ASSUME c \notin del, c \notin con
      PROVE  Waiting(c, V \cup H \cup U \cup D, {}, {}, {}, con, del1, Q, R, K, S)
    BY <1>3 DEF Waiting
<1> QED BY <1>1, <1>2, <1>3
-----------------------------------------------------------------------------
(***************************************************************************)
(* What the events of the initial sync make of a chat.                     *)
(***************************************************************************)
\* An object without writes is empty.
LEMMA WritesEmpty == ASSUME NEW o \in Seq(Nat) PROVE Writes(o) = {} <=> o = <<>>
<1>1. ASSUME o # <<>> PROVE Writes(o) # {}
    <2>1. 1 \in DOMAIN o
        BY <1>1
    <2> QED BY <2>1 DEF Writes
<1> QED BY <1>1, WritesNone

\* A chat of the initial sync, before an event is emitted.
LEMMA SyncHolds ==
    ASSUME SyncInv, NEW c \in Chats
    PROVE  /\ BufferInv /\ c \in Things /\ WaitRight(c)
           /\ view[c] \in Seq(Nat) /\ buf.hist[c] \in Seq(Nat) /\ buf.ups[c] \in Seq(Nat) /\ buf.upd[c] \in Seq(Nat)
           /\ W \in Seq(Nat) /\ Writes(W) = {w} /\ w \in Nat
           /\ Unused(w, Writes(view[c]), Writes(buf.hist[c]), Writes(buf.ups[c]), Writes(buf.upd[c]), WaitedFor(c), refused)
           /\ WaitedFor(c) \subseteq DOMAIN log /\ Writes(view[c]) \subseteq DOMAIN log
           /\ ~buffering => c \notin buf.dels
<1>1. BufferInv /\ c \in Things /\ WaitRight(c)
    BY DEF SyncInv, ContactsInv, Things
<1>2. OwnWrites(c) /\ (buffering \/ HoldsNothing(c))
    BY <1>1 DEF BufferInv
<1>3. WaitedFor(c) \subseteq DOMAIN log /\ refused \subseteq DOMAIN log
    BY DEF SyncInv, WaitedFor
<1> QED BY <1>1, <1>2, <1>3, BufTyped DEF OwnWrites, OnThing, HoldsNothing, Unused

\* What an event adds to the log, for a chat of the sync.
LEMMA SyncLogs ==
    ASSUME SyncInv, NEW c \in Chats, NEW k, NEW x, Touches(k, x)
    PROVE  /\ Grown(Knowing, Knowing', Superseded(c), Superseded(c)')
           /\ waited' = waited => WaitedFor(c)' = WaitedFor(c)
           /\ x # c /\ waited' = waited \cup {w} => WaitedFor(c)' = WaitedFor(c)
           /\ x = c /\ waited' = waited \cup {w} => WaitedFor(c)' = WaitedFor(c) \cup {w}
           /\ k \in {"chats.upsert", "messaging-history.set"} => w \in Knowing'
           /\ x = c /\ k \in {"conditional chats.update", "chats.delete"} => DOMAIN log \subseteq Superseded(c)'
<1>1. /\ Len(log') = w /\ DOMAIN log' = DOMAIN log \cup {w} /\ log'[w] = [kind |-> k, on |-> x]
      /\ \A i \in DOMAIN log : log'[i] = log[i]
    BY DEF Touches, LogGrows
<1>2. /\ w \in Nat /\ w = Len(log) + 1 /\ Len(log) \in Nat /\ DOMAIN log = 1 .. Len(log)
    BY SyncHolds, BufTyped DEF w
<1>3. waited \subseteq DOMAIN log /\ w \notin DOMAIN log
    BY <1>2 DEF SyncInv
<1>4. Knowing \subseteq Knowing'
    BY <1>1 DEF Knowing
<1>5. Superseded(c) \subseteq Superseded(c)'
    <2> SUFFICES ASSUME NEW i \in Superseded(c) PROVE i \in Superseded(c)'
        OBVIOUS
    <2>1. PICK j \in i + 1 .. Len(log) : log[j].on = c /\ log[j].kind \in {"conditional chats.update", "chats.delete"}
        BY DEF Superseded
    <2>2. i \in DOMAIN log
        BY DEF Superseded
    <2> DEFINE n == Len(log)
    <2>3. i \in 1 .. n /\ j \in i + 1 .. n /\ n \in Nat
        BY <1>2, <2>2
    <2> HIDE DEF n
    <2>4. j \in 1 .. n /\ j \in i + 1 .. n + 1
        BY <2>3
    <2>5. j \in DOMAIN log /\ j \in i + 1 .. w
        BY <1>2, <2>4 DEF n
    <2> QED BY <1>1, <2>1, <2>2, <2>5 DEF Superseded
<1>6. log'[w].on = x /\ log'[w].kind = k
    BY <1>1
<1>7. ASSUME k \in {"chats.upsert", "messaging-history.set"} PROVE w \in Knowing'
    BY <1>1, <1>6, <1>7 DEF Knowing
<1>8. ASSUME x = c, k \in {"conditional chats.update", "chats.delete"}, NEW i \in DOMAIN log PROVE i \in Superseded(c)'
    <2>1. w \in i + 1 .. w
        BY <1>2
    <2> QED BY <1>1, <1>6, <1>8, <2>1 DEF Superseded
<1>9. ASSUME waited' = waited PROVE WaitedFor(c)' = WaitedFor(c)
    BY <1>1, <1>3, <1>9 DEF WaitedFor
<1>10. ASSUME waited' = waited \cup {w} PROVE WaitedFor(c)' = IF x = c THEN WaitedFor(c) \cup {w} ELSE WaitedFor(c)
    BY <1>1, <1>3, <1>6, <1>10 DEF WaitedFor
<1> QED BY <1>4, <1>5, <1>7, <1>8, <1>9, <1>10 DEF Grown

\* What a step makes of a chat of the initial sync.
WaitMakes(c, V, H, U, D, con, del, Q, R) ==
    /\ Writes(view'[c]) = V /\ Writes(buf'.hist[c]) = H /\ Writes(buf'.ups[c]) = U /\ Writes(buf'.upd[c]) = D
    /\ buf'.cond = con /\ buf'.dels = del /\ WaitedFor(c)' = Q /\ refused' = R

LEMMA WaitMade ==
    ASSUME NEW c, NEW V, NEW H, NEW U, NEW D, NEW con, NEW del, NEW Q, NEW R, WaitMakes(c, V, H, U, D, con, del, Q, R),
           Waiting(c, V, H, U, D, con, del, Q, R, Knowing', Superseded(c)')
    PROVE  WaitRight(c)'
BY DEF WaitMakes, WaitRight

LEMMA SyncAtOnce ==
    ASSUME SyncInv, NEW c \in Chats, NEW k, Touches(k, c), NEW p, AtOnce(c, view[c] \o W, p),
           waited' = waited, refused' = refused
    PROVE  WaitRight(c)'
<1> DEFINE V == Writes(view[c])
           H == Writes(buf.hist[c])
           U == Writes(buf.ups[c])
           D == Writes(buf.upd[c])
           con == buf.cond
           del == buf.dels
           Q == WaitedFor(c)
           K == Knowing
           S == Superseded(c)
           K1 == Knowing'
           S1 == Superseded(c)'
           V1 == V \cup {w}
<1>1. Waiting(c, V, H, U, D, con, del, Q, refused, K, S) /\ Unused(w, V, H, U, D, Q, refused)
    BY SyncHolds DEF WaitRight
<1>2. Grown(K, K1, S, S1) /\ c \notin del
    BY SyncHolds, SyncLogs DEF AtOnce
<1>3. Joins(view[c], W)
    BY SyncHolds, WritesJoin
<1>4. WaitMakes(c, V1, H, U, D, con, del, Q, refused)
    BY <1>3, SyncHolds, SyncLogs DEF AtOnce, Has, Joins, WaitMakes
<1> HIDE DEF V, H, U, D, con, del, Q, K, S, K1, S1
<1>5. Waiting(c, V1, H, U, D, con, del, Q, refused, K1, S1)
    BY <1>1, <1>2, WaitsShown
<1> HIDE DEF V1
<1> QED BY <1>4, <1>5, WaitMade DEF K1, S1

LEMMA SyncRemoved ==
    ASSUME SyncInv, NEW c \in Chats, ChatsDelete(c)
    PROVE  WaitRight(c)'
<1> DEFINE V == Writes(view[c])
           H == Writes(buf.hist[c])
           U == Writes(buf.ups[c])
           D == Writes(buf.upd[c])
           con == buf.cond
           del == buf.dels
           con1 == buf.cond \ {c}
           del1 == buf.dels \cup {c}
           Q == WaitedFor(c)
           K == Knowing
           S == Superseded(c)
           K1 == Knowing'
           S1 == Superseded(c)'
           none == {}
<1>1. Waiting(c, V, H, U, D, con, del, Q, refused, K, S)
    BY SyncHolds DEF WaitRight
<1>2. /\ Touches("chats.delete", c)
      /\ \/ AtOnce(c, <<>>, <<>>)
         \/ Kept(c, <<>>, <<>>, <<>>, buf.attached[c], <<>>, buf.dels \cup {c}, buf.cond \ {c})
    BY SyncHolds, ChatsDeleteLeaves
<1>3. waited' = waited /\ refused' = refused
    BY DEF ChatsDelete
<1>4. Grown(K, K1, S, S1) /\ Q \subseteq S1 /\ V \subseteq S1
    BY <1>2, SyncHolds, SyncLogs
<1>5. WaitedFor(c)' = Q
    BY <1>2, <1>3, SyncLogs
<1>6. CASE AtOnce(c, <<>>, <<>>)
    <2>1. c \notin del
        BY <1>6, SyncHolds DEF AtOnce
    <2>2. WaitMakes(c, none, H, U, D, con, del, Q, refused)
        BY <1>3, <1>5, <1>6, WritesNone DEF AtOnce, Has, WaitMakes
    <2> HIDE DEF V, H, U, D, con, del, Q, K, S, K1, S1
    <2>3. Waiting(c, none, H, U, D, con, del, Q, refused, K1, S1)
        BY <1>1, <1>4, <2>1, WaitsRemoved
    <2> HIDE DEF none
    <2> QED BY <2>2, <2>3, WaitMade DEF K1, S1
<1>7. CASE Kept(c, <<>>, <<>>, <<>>, buf.attached[c], <<>>, buf.dels \cup {c}, buf.cond \ {c})
    <2>1. WaitMakes(c, V, none, none, none, con1, del1, Q, refused)
        BY <1>3, <1>5, <1>7, WritesNone DEF Kept, Has, WaitMakes
    <2> HIDE DEF V, H, U, D, con, del, con1, del1, Q, K, S, K1, S1
    <2>2. Waiting(c, V, none, none, none, con1, del1, Q, refused, K1, S1)
        BY <1>1, <1>4, WaitsForNoMore
    <2> HIDE DEF none
    <2> QED BY <2>1, <2>2, WaitMade DEF K1, S1
<1> QED BY <1>2, <1>6, <1>7

LEMMA SyncMerged ==
    ASSUME SyncInv, NEW c \in Chats, NEW k, Touches(k, c), NEW p, KeptMerged(c, p, buf.dels \ {c}),
           waited' = waited, refused' = refused
    PROVE  WaitRight(c)'
<1> DEFINE V == Writes(view[c])
           H == Writes(buf.hist[c])
           U == Writes(buf.ups[c])
           D == Writes(buf.upd[c])
           con == buf.cond
           del == buf.dels
           del1 == buf.dels \ {c}
           Q == WaitedFor(c)
           K == Knowing
           S == Superseded(c)
           K1 == Knowing'
           S1 == Superseded(c)'
           H1 == H \cup {w}
           U1 == U \cup {w}
           D1 == D \cup {w}
<1>1. Waiting(c, V, H, U, D, con, del, Q, refused, K, S) /\ Unused(w, V, H, U, D, Q, refused)
    BY SyncHolds DEF WaitRight
<1>2. Grown(K, K1, S, S1) /\ c \notin del1
    BY SyncLogs
<1>3. WaitedFor(c)' = Q
    BY SyncLogs
<1>4. Joins(buf.hist[c], W) /\ Joins(buf.ups[c], W) /\ Joins(buf.upd[c], W) /\ Writes(W) = {w}
    BY SyncHolds, WritesJoin
<1>5. /\ \/ buf.hist[c] # <<>> /\ WaitMakes(c, V, H1, U, D, con, del1, Q, refused)
         \/ buf.ups[c] # <<>> /\ WaitMakes(c, V, H, U1, D, con, del1, Q, refused)
         \/ WaitMakes(c, V, H, U, D1, con, del1, Q, refused)
      /\ buf.hist[c] # <<>> => H # {}
      /\ buf.ups[c] # <<>> => U # {}
    BY <1>3, <1>4, SyncHolds, WritesEmpty DEF KeptMerged, Kept, Has, Joins, WaitMakes
<1> HIDE DEF V, H, U, D, con, del, del1, Q, K, S, K1, S1
<1>6. /\ H # {} => Waiting(c, V, H1, U, D, con, del1, Q, refused, K1, S1)
      /\ U # {} => Waiting(c, V, H, U1, D, con, del1, Q, refused, K1, S1)
      /\ Waiting(c, V, H, U, D1, con, del1, Q, refused, K1, S1)
    BY <1>1, <1>2, WaitsMerged
<1> HIDE DEF H1, U1, D1
<1> QED BY <1>5, <1>6, WaitMade DEF K1, S1

\* The chat's own event goes over the update that waited, or the update goes away.
AbsorbedAs(c, A, R1) == TakenOr(A, Writes(buf.upd[c]), refused, R1)

LEMMA AbsorbedIs ==
    ASSUME SyncInv, NEW c \in Chats, NEW o \in Seq(Nat), NEW R1, R1 = refused \cup RefusedBy(c)
    PROVE  \E A \in SUBSET Nat : AbsorbedAs(c, A, R1) /\ Writes(Absorbed(c, o \o W)) = A \cup Writes(o) \cup {w}
<1>1. buf.upd[c] \in Seq(Nat) /\ W \in Seq(Nat) /\ Writes(W) = {w}
    BY SyncHolds
<1>2. Joins(o, W)
    BY <1>1, WritesJoin
<1> DEFINE ow == o \o W
<1>3. ow \in Seq(Nat) /\ Writes(ow) = Writes(o) \cup {w}
    BY <1>1, <1>2 DEF Joins
<1>4. Writes(buf.upd[c]) \in SUBSET Nat /\ {} \in SUBSET Nat
    BY <1>1 DEF Writes
<1> HIDE DEF ow
<1>5. Joins(buf.upd[c], ow)
    BY <1>1, <1>3, WritesJoin
<1>6. CASE Refuses(c)
    <2>1. Absorbed(c, ow) = ow /\ R1 = refused \cup Writes(buf.upd[c])
        BY <1>6 DEF Absorbed, RefusedBy
    <2>2. AbsorbedAs(c, {}, R1) /\ Writes(Absorbed(c, ow)) = {} \cup Writes(o) \cup {w}
        BY <1>3, <2>1 DEF AbsorbedAs, TakenOr
    <2> QED BY <1>4, <2>2 DEF ow
<1>7. CASE ~Refuses(c)
    <2>1. Absorbed(c, ow) = buf.upd[c] \o ow /\ R1 = refused
        BY <1>7 DEF Absorbed, RefusedBy
    <2>2. AbsorbedAs(c, Writes(buf.upd[c]), R1) /\ Writes(Absorbed(c, ow)) = Writes(buf.upd[c]) \cup Writes(o) \cup {w}
        BY <1>3, <1>5, <2>1 DEF AbsorbedAs, TakenOr, Joins
    <2> QED BY <1>4, <2>2 DEF ow
<1> QED BY <1>6, <1>7

LEMMA SyncHistory ==
    ASSUME SyncInv, NEW c \in Chats, NEW named \in BOOLEAN, HistorySet(c, named)
    PROVE  WaitRight(c)'
<1> DEFINE V == Writes(view[c])
           H == Writes(buf.hist[c])
           U == Writes(buf.ups[c])
           D == Writes(buf.upd[c])
           con == buf.cond
           del == buf.dels
           con1 == buf.cond \ {c}
           Q == WaitedFor(c)
           K == Knowing
           S == Superseded(c)
           K1 == Knowing'
           S1 == Superseded(c)'
           R1 == refused'
           none == {}
<1>1. /\ Waiting(c, V, H, U, D, con, del, Q, refused, K, S) /\ Unused(w, V, H, U, D, Q, refused)
      /\ BufferInv
    BY SyncHolds DEF WaitRight
<1>2. /\ Touches("messaging-history.set", c) /\ waited' = waited
      /\ \/ AtOnce(c, view[c] \o W, direct[c] \o W) /\ refused' = refused
         \/ HistoryKept(c)
    BY <1>1, HistorySetLeaves
<1>3. Grown(K, K1, S, S1) /\ w \in K1 /\ WaitedFor(c)' = Q
    BY <1>2, SyncLogs
<1>4. CASE AtOnce(c, view[c] \o W, direct[c] \o W) /\ refused' = refused
    <2> DEFINE p == direct[c] \o W
    <2> HIDE DEF p
    <2> QED BY <1>2, <1>4, SyncAtOnce DEF p
<1>5. CASE /\ refused' = refused
           /\ Kept(c, buf.hist[c], buf.ups[c], buf.upd[c], buf.attached[c], direct[c] \o W, buf.dels, buf.cond)
    <2>1. WaitMakes(c, V, H, U, D, con, del, Q, refused)
        BY <1>3, <1>5 DEF Kept, Has, WaitMakes
    <2> HIDE DEF V, H, U, D, con, del, Q, K, S, K1, S1
    <2>2. (V \cup H \cup U \cup D) \cap refused = {}
        BY <1>1 DEF Waiting
    <2>3. Waiting(c, V, H, U, D, con, del, Q, refused, K1, S1)
        BY <1>1, <1>3, <2>2, WaitsOn
    <2> QED BY <2>1, <2>3, WaitMade DEF K1, S1
<1>6. CASE /\ buf.hist[c] = <<>> /\ refused' = refused \cup RefusedBy(c)
           /\ Kept(c, Absorbed(c, W), buf.ups[c], <<>>, buf.attached[c], direct[c] \o W, buf.dels, buf.cond \ {c})
    <2>1. PICK A \in SUBSET Nat : AbsorbedAs(c, A, R1) /\ Writes(Absorbed(c, <<>> \o W)) = A \cup Writes(<<>>) \cup {w}
        BY <1>6, AbsorbedIs, WritesNone
    <2> DEFINE H1 == A \cup H \cup {w}
    <2>2. Writes(Absorbed(c, W)) = H1 /\ TakenOr(A, D, refused, R1)
        BY <1>6, <2>1, SyncHolds, JoinNone DEF AbsorbedAs
    <2>3. WaitMakes(c, V, H1, U, none, con1, del, Q, R1)
        BY <1>3, <1>6, <2>2, WritesNone DEF Kept, Has, WaitMakes
    <2>4. c \notin con1 /\ (c \in del => c \in del)
        OBVIOUS
    <2> HIDE DEF V, H, U, D, con, con1, del, Q, K, S, K1, S1, R1
    <2>5. Waiting(c, V, H1, U, none, con1, del, Q, R1, K1, S1)
        BY <1>1, <1>3, <2>2, <2>4, WaitsTaken
    <2> HIDE DEF H1, none
    <2> QED BY <2>3, <2>5, WaitMade DEF K1, S1
<1> QED BY <1>2, <1>4, <1>5, <1>6 DEF HistoryKept

LEMMA SyncUpserted ==
    ASSUME SyncInv, NEW c \in Chats, ChatsUpsert(c)
    PROVE  WaitRight(c)'
<1> DEFINE V == Writes(view[c])
           H == Writes(buf.hist[c])
           U == Writes(buf.ups[c])
           D == Writes(buf.upd[c])
           con == buf.cond
           del == buf.dels
           con1 == buf.cond \ {c}
           del1 == buf.dels \ {c}
           Q == WaitedFor(c)
           K == Knowing
           S == Superseded(c)
           K1 == Knowing'
           S1 == Superseded(c)'
           R1 == refused'
           o == UpsertBase(c)
           none == {}
<1>1. /\ Waiting(c, V, H, U, D, con, del, Q, refused, K, S) /\ Unused(w, V, H, U, D, Q, refused)
      /\ BufferInv
    BY SyncHolds DEF WaitRight
<1>2. /\ Touches("chats.upsert", c) /\ waited' = waited
      /\ \/ AtOnce(c, view[c] \o W, direct[c] \o W) /\ refused' = refused
         \/ /\ KeptUpserted(c, Absorbed(c, o \o W), direct[c] \o W, del1, con1)
            /\ refused' = refused \cup RefusedBy(c)
    BY <1>1, ChatsUpsertLeaves DEF ChatsUpsert
<1>3. Grown(K, K1, S, S1) /\ w \in K1 /\ WaitedFor(c)' = Q /\ c \notin con1 /\ c \notin del1
    BY <1>2, SyncLogs
<1>4. CASE AtOnce(c, view[c] \o W, direct[c] \o W) /\ refused' = refused
    <2> DEFINE p == direct[c] \o W
    <2> HIDE DEF p
    <2> QED BY <1>2, <1>4, SyncAtOnce DEF p
<1>5. CASE /\ KeptUpserted(c, Absorbed(c, o \o W), direct[c] \o W, del1, con1)
           /\ refused' = refused \cup RefusedBy(c)
    <2>1. o \in Seq(Nat)
        BY SyncHolds DEF UpsertBase
    <2>2. PICK A \in SUBSET Nat : AbsorbedAs(c, A, R1) /\ Writes(Absorbed(c, o \o W)) = A \cup Writes(o) \cup {w}
        <3> HIDE DEF o
        <3> QED BY <1>5, <2>1, AbsorbedIs
    <2>3. TakenOr(A, D, refused, R1)
        BY <2>2 DEF AbsorbedAs
    <2> DEFINE H1 == A \cup H \cup {w}
               U1 == A \cup U \cup {w}
    <2>4. WaitMakes(c, V, H1, U, none, con1, del1, Q, R1) \/ WaitMakes(c, V, H, U1, none, con1, del1, Q, R1)
        <3>1. CASE buf.ups[c] = <<>> /\ buf.hist[c] # <<>>
            <4>1. o = buf.hist[c]
                BY <3>1 DEF UpsertBase
            <4> QED BY <1>3, <1>5, <2>2, <3>1, <4>1, WritesNone DEF KeptUpserted, Kept, Has, WaitMakes
        <3>2. CASE ~(buf.ups[c] = <<>> /\ buf.hist[c] # <<>>)
            <4>1. o = buf.ups[c]
                BY <3>2 DEF UpsertBase
            <4> QED BY <1>3, <1>5, <2>2, <3>2, <4>1, WritesNone DEF KeptUpserted, Kept, Has, WaitMakes
        <3> QED BY <3>1, <3>2
    <2> HIDE DEF V, H, U, D, con, con1, del, del1, Q, K, S, K1, S1, R1
    <2>5. /\ Waiting(c, V, H1, U, none, con1, del1, Q, R1, K1, S1)
          /\ Waiting(c, V, H, U1, none, con1, del1, Q, R1, K1, S1)
        BY <1>1, <1>3, <2>3, WaitsTaken
    <2> HIDE DEF H1, U1, none
    <2> QED BY <2>4, <2>5, WaitMade DEF K1, S1
<1> QED BY <1>2, <1>4, <1>5

LEMMA SyncConditional ==
    ASSUME SyncInv, NEW c \in Chats, NEW ok \in BOOLEAN, ConditionalUpdate(c, ok)
    PROVE  WaitRight(c)'
<1> DEFINE k == "conditional chats.update"
           V == Writes(view[c])
           H == Writes(buf.hist[c])
           U == Writes(buf.ups[c])
           D == Writes(buf.upd[c])
           con == buf.cond
           del == buf.dels
           con1 == buf.cond \cup {c}
           del1 == buf.dels \ {c}
           Q == WaitedFor(c)
           K == Knowing
           S == Superseded(c)
           K1 == Knowing'
           S1 == Superseded(c)'
           p == direct[c] \o W
           one == {w}
           Q1 == Q \cup one
           R1 == refused \cup one
<1>1. /\ Waiting(c, V, H, U, D, con, del, Q, refused, K, S) /\ Unused(w, V, H, U, D, Q, refused)
      /\ BufferInv
    BY SyncHolds DEF WaitRight
<1>2. /\ Touches(k, c)
      /\ \/ AtOnce(c, view[c] \o W, p) /\ waited' = waited /\ refused' = refused
         \/ ConditionalKept(c, ok)
    BY <1>1, ConditionalUpdateLeaves
<1>3. Grown(K, K1, S, S1) /\ c \in con1 /\ c \notin del1 /\ Q \subseteq S1
    BY <1>2, SyncHolds, SyncLogs
<1>4. CASE AtOnce(c, view[c] \o W, p) /\ waited' = waited /\ refused' = refused
    <2> HIDE DEF p, k
    <2> QED BY <1>2, <1>4, SyncAtOnce
<1>5. CASE /\ ~Known(c) /\ waited' = waited \cup {w} /\ refused' = refused
           /\ Kept(c, buf.hist[c], buf.ups[c], W, buf.attached[c], p, del1, con1)
    <2>1. H = {} /\ U = {}
        BY <1>5, WritesNone DEF Known
    <2>2. WaitedFor(c)' = Q1
        BY <1>2, <1>5, SyncLogs
    <2> DEFINE none == {}
    <2>3. WaitMakes(c, V, none, none, one, con1, del1, Q1, refused)
        BY <1>5, <2>1, <2>2, SyncHolds DEF Kept, Has, WaitMakes
    <2> HIDE DEF V, H, U, D, con, con1, del, del1, Q, K, S, K1, S1
    <2>4. Waiting(c, V, none, none, D, con, del, Q, refused, K, S) /\ Unused(w, V, none, none, D, Q, refused)
        BY <1>1, <2>1
    <2>5. Waiting(c, V, none, none, one, con1, del1, Q1, refused, K1, S1)
        BY <1>3, <2>4, WaitsAnew
    <2> HIDE DEF none, one, Q1
    <2> QED BY <2>3, <2>5, WaitMade DEF K1, S1
<1>6. CASE waited' = waited /\ refused' = refused /\ KeptMerged(c, p, del1)
    <2> HIDE DEF p, k
    <2> QED BY <1>2, <1>6, SyncMerged DEF del1
<1>7. CASE /\ waited' = waited /\ refused' = refused \cup {w}
           /\ Kept(c, buf.hist[c], buf.ups[c], buf.upd[c], buf.attached[c], p, del1, con)
    <2>1. WaitedFor(c)' = Q
        BY <1>2, <1>7, SyncLogs
    <2>2. WaitMakes(c, V, H, U, D, con, del1, Q, R1)
        BY <1>7, <2>1 DEF Kept, Has, WaitMakes
    <2> HIDE DEF V, H, U, D, con, con1, del, del1, Q, K, S, K1, S1
    <2>3. (V \cup H \cup U \cup D) \cap R1 = {} /\ refused \subseteq R1
        BY <1>1 DEF Waiting, Unused
    <2> HIDE DEF R1
    <2>4. Waiting(c, V, H, U, D, con, del1, Q, R1, K1, S1)
        BY <1>1, <1>3, <2>3, WaitsOn
    <2> QED BY <2>2, <2>4, WaitMade DEF K1, S1
<1> QED BY <1>2, <1>4, <1>5, <1>6, <1>7 DEF ConditionalKept

LEMMA SyncFlushed ==
    ASSUME SyncInv, NEW c \in Chats, Flushes
    PROVE  WaitRight(c)'
<1> DEFINE v == view[c]
           h == buf.hist[c]
           u == buf.ups[c]
           d == buf.upd[c]
           V == Writes(v)
           H == Writes(h)
           U == Writes(u)
           D == Writes(d)
           con == buf.cond
           del == buf.dels
           del1 == {}
           Q == WaitedFor(c)
           K == Knowing
           S == Superseded(c)
           none == {}
           VHU == V \cup H \cup U
           all == V \cup H \cup U \cup D
<1>1. /\ Waiting(c, V, H, U, D, con, del, Q, refused, K, S) /\ BufferInv
      /\ v \in Seq(Nat) /\ h \in Seq(Nat) /\ u \in Seq(Nat) /\ d \in Seq(Nat)
    BY SyncHolds DEF WaitRight
<1>2. /\ FlushedAt(c) /\ buf'.dels = del1 /\ buf'.cond = con
      /\ log' = log /\ waited' = waited /\ refused' = refused
    BY SyncHolds DEF Flushes, app
<1>3. WaitedFor(c)' = Q /\ Knowing' = K /\ Superseded(c)' = S
    BY <1>2 DEF WaitedFor, Knowing, Superseded
<1>4. c \notin Messages /\ buf.attached[c] = <<>>
    BY <1>1, ThingsApart, SyncHolds DEF BufferInv
<1>5. /\ v \o h \in Seq(Nat) /\ Writes(v \o h) = V \cup H
      /\ (v \o h) \o u \in Seq(Nat) /\ Writes((v \o h) \o u) = VHU
      /\ ((v \o h) \o u) \o d \in Seq(Nat) /\ Writes(((v \o h) \o u) \o d) = all
    <2> DEFINE vh == v \o h
               vhu == vh \o u
    <2> HIDE DEF v, h, u, d
    <2>1. Joins(v, h)
        BY <1>1, WritesJoin
    <2>2. vh \in Seq(Nat) /\ Writes(vh) = V \cup H
        BY <2>1 DEF Joins
    <2> HIDE DEF vh
    <2>3. Joins(vh, u)
        BY <1>1, <2>2, WritesJoin
    <2>4. vhu \in Seq(Nat) /\ Writes(vhu) = VHU
        BY <2>2, <2>3 DEF Joins
    <2> HIDE DEF vhu
    <2>5. Joins(vhu, d)
        BY <1>1, <2>4, WritesJoin
    <2>6. vhu \o d \in Seq(Nat) /\ Writes(vhu \o d) = all
        BY <2>4, <2>5 DEF Joins
    <2> QED BY <2>2, <2>4, <2>6 DEF vhu, vh
<1>6. c \notin del1
    OBVIOUS
<1>7. CASE c \in del
    <2>1. Writes(Applied(c)) = none
        <3>1. Applied(c) = <<>> \o <<>>
            BY <1>4, <1>7 DEF Applied, Updated
        <3> QED BY <3>1, JoinNone, WritesNone
    <2>2. D = none
        BY <1>1, <1>7 DEF Waiting
    <2>3. WaitMakes(c, none, none, none, none, con, del1, Q, refused)
        BY <1>2, <1>3, <2>1, <2>2, WritesNone DEF FlushedAt, WaitMakes
    <2> HIDE DEF V, H, U, D, con, del, del1, Q, K, S
    <2>4. Waiting(c, none, none, none, none, con, del1, Q, refused, K, S)
        BY <1>1, <1>6, <1>7, WaitsFlushed
    <2> HIDE DEF none
    <2> QED BY <1>3, <2>3, <2>4, WaitMade
<1>8. CASE c \notin del /\ c \in con
    <2>1. Writes(Applied(c)) = VHU
        <3> DEFINE o == (v \o h) \o u
        <3>1. Applied(c) = o \o <<>>
            BY <1>4, <1>8 DEF Applied, Updated
        <3>2. o \in Seq(Nat) /\ Writes(o) = VHU
            BY <1>5
        <3> HIDE DEF o
        <3> QED BY <3>1, <3>2, JoinNone
    <2>2. WaitMakes(c, VHU, none, none, D, con, del1, Q, refused)
        BY <1>2, <1>3, <1>8, <2>1, WritesNone DEF FlushedAt, WaitMakes
    <2> HIDE DEF V, H, U, D, con, del, del1, Q, K, S
    <2>3. Waiting(c, VHU, none, none, D, con, del1, Q, refused, K, S)
        BY <1>1, <1>6, <1>8, WaitsFlushed
    <2> HIDE DEF none, VHU
    <2> QED BY <1>3, <2>2, <2>3, WaitMade
<1>9. CASE c \notin del /\ c \notin con
    <2>1. Writes(Applied(c)) = all
        <3> DEFINE o == ((v \o h) \o u) \o d
        <3>1. Applied(c) = o \o <<>>
            BY <1>4, <1>9 DEF Applied, Updated
        <3>2. o \in Seq(Nat) /\ Writes(o) = all
            BY <1>5
        <3> HIDE DEF o
        <3> QED BY <3>1, <3>2, JoinNone
    <2>2. WaitMakes(c, all, none, none, none, con, del1, Q, refused)
        BY <1>2, <1>3, <1>9, <2>1, WritesNone DEF FlushedAt, WaitMakes
    <2> HIDE DEF V, H, U, D, con, del, del1, Q, K, S
    <2>3. Waiting(c, all, none, none, none, con, del1, Q, refused, K, S)
        BY <1>1, <1>6, <1>9, WaitsFlushed
    <2> HIDE DEF none, all
    <2> QED BY <1>3, <2>2, <2>3, WaitMade
<1> QED BY <1>7, <1>8, <1>9

\* What an event of x writes down of who waited and who was refused.
Ledger(x) ==
    /\ waited' = waited \/ (x \in Chats /\ waited' = waited \cup {w})
    /\ refused \subseteq refused' /\ refused' \subseteq refused \cup OnThing(x) \cup {w}

\* Who waits for a chat changes only by its own events.
LEMMA WaitedElse ==
    ASSUME SyncInv, NEW c, NEW k, NEW x, c # x, Touches(k, x), Ledger(x)
    PROVE  WaitedFor(c)' = WaitedFor(c)
<1>1. /\ log'[w] = [kind |-> k, on |-> x] /\ \A i \in DOMAIN log : log'[i] = log[i]
    BY DEF Touches, LogGrows
<1>2. log'[w].on = x
    BY <1>1
<1>3. waited \subseteq DOMAIN log
    BY DEF SyncInv
<1> QED BY <1>1, <1>2, <1>3 DEF WaitedFor, Ledger

\* An event of another thing.
LEMMA SyncElse ==
    ASSUME SyncInv, NEW c \in Chats, NEW k, NEW x, c # x, Touches(k, x), Ledger(x)
    PROVE  WaitRight(c)'
<1> DEFINE V == Writes(view[c])
           H == Writes(buf.hist[c])
           U == Writes(buf.ups[c])
           D == Writes(buf.upd[c])
           con == buf.cond
           del == buf.dels
           con1 == buf'.cond
           del1 == buf'.dels
           Q == WaitedFor(c)
           K == Knowing
           S == Superseded(c)
           K1 == Knowing'
           S1 == Superseded(c)'
           R1 == refused'
<1>1. /\ Waiting(c, V, H, U, D, con, del, Q, refused, K, S) /\ Unused(w, V, H, U, D, Q, refused)
      /\ BufferInv /\ c \in Things
    BY SyncHolds DEF WaitRight
<1>2. Grown(K, K1, S, S1) /\ WaitedFor(c)' = Q
    BY SyncLogs, WaitedElse
<1>3. /\ buf'.hist[c] = buf.hist[c] /\ buf'.ups[c] = buf.ups[c] /\ buf'.upd[c] = buf.upd[c] /\ view'[c] = view[c]
      /\ c \in con1 <=> c \in con
      /\ c \in del1 <=> c \in del
    BY <1>1 DEF Touches, Others
<1>4. WaitMakes(c, V, H, U, D, con1, del1, Q, R1)
    BY <1>2, <1>3 DEF WaitMakes
<1>5. (V \cup H \cup U \cup D) \cap R1 = {} /\ refused \subseteq R1
    <2>1. V \cup H \cup U \cup D \subseteq OnThing(c)
        BY <1>1 DEF BufferInv, OwnWrites
    <2>2. OnThing(c) \cap OnThing(x) = {}
        BY DEF OnThing
    <2>3. w \notin V \cup H \cup U \cup D
        BY <1>1 DEF Unused
    <2>4. (V \cup H \cup U \cup D) \cap refused = {}
        BY <1>1 DEF Waiting
    <2> HIDE DEF V, H, U, D
    <2> QED BY <2>1, <2>2, <2>3, <2>4 DEF Ledger
<1> HIDE DEF V, H, U, D, con, con1, del, del1, Q, K, S, K1, S1, R1
<1>6. Waiting(c, V, H, U, D, con1, del1, Q, R1, K1, S1)
    BY <1>1, <1>2, <1>3, <1>5, WaitsOn
<1> QED BY <1>4, <1>6, WaitMade DEF K1, S1

\* What a chat refuses is its own.
LEMMA RefusedOurs ==
    ASSUME BufferInv, NEW x \in Things
    PROVE  RefusedBy(x) \subseteq OnThing(x)
BY DEF BufferInv, OwnWrites, RefusedBy

\* An event of x: what it makes of x is right, and all others stay right.
LEMMA SyncOthers ==
    ASSUME SyncInv, ContactsInv', NEW k, NEW x, Touches(k, x), Ledger(x), x \in Chats => WaitRight(x)'
    PROVE  SyncInv'
<1>1. ASSUME NEW c \in Chats PROVE WaitRight(c)'
    <2>1. CASE c = x
        BY <2>1
    <2>2. CASE c # x
        BY <2>2, SyncElse
    <2> QED BY <2>1, <2>2
<1>2. /\ DOMAIN log' = DOMAIN log \cup {w} /\ log'[w] = [kind |-> k, on |-> x]
      /\ \A i \in DOMAIN log : log'[i] = log[i]
    BY DEF Touches, LogGrows
<1>3. waited \subseteq DOMAIN log /\ refused \subseteq DOMAIN log /\ \A i \in waited : log[i].on \in Chats
    BY DEF SyncInv
<1>4. waited' \subseteq DOMAIN log' /\ refused' \subseteq DOMAIN log'
    BY <1>2, <1>3 DEF Ledger, OnThing
<1>5. log'[w].on = x
    BY <1>2
<1>6. ASSUME NEW i \in waited' PROVE log'[i].on \in Chats
    <2>1. CASE i \in waited
        BY <1>2, <1>3, <2>1
    <2>2. CASE i \notin waited
        BY <1>5, <2>2 DEF Ledger
    <2> QED BY <2>1, <2>2
<1> QED BY <1>1, <1>4, <1>6 DEF SyncInv

\* Every step keeps the chats right that wait for history.
LEMMA SyncStep == ASSUME SyncInv, [Next]_vars PROVE SyncInv'
<1>1. BufferInv /\ ContactsInv'
    BY ContactsStep DEF SyncInv, ContactsInv
<1>2. CASE Quiet
    <2>1. UNCHANGED <<log, waited, refused, buf, view>>
        BY <1>2 DEF Quiet, app
    <2> QED BY <1>1, <2>1 DEF SyncInv, WaitRight, WaitedFor, Knowing, Superseded
<1>3. CASE Flushes
    <2>1. log' = log /\ waited' = waited /\ refused' = refused
        BY <1>3 DEF Flushes, app
    <2> QED BY <1>1, <1>3, <2>1, SyncFlushed DEF SyncInv
<1>4. \A x \in Things : waited' = waited /\ refused' = refused => Ledger(x)
    BY DEF Ledger
<1>5. ASSUME NEW x \in Chats \cup Messages \cup Contacts, NEW named \in BOOLEAN, HistorySet(x, named) PROVE SyncInv'
    <2>1. /\ Touches("messaging-history.set", x) /\ waited' = waited /\ x \in Things
          /\ refused' = refused \/ refused' = refused \cup RefusedBy(x)
        BY <1>1, <1>5, HistorySetLeaves DEF HistoryKept, Things
    <2>2. Ledger(x)
        BY <1>1, <2>1, RefusedOurs DEF Ledger
    <2>3. x \in Chats => WaitRight(x)'
        BY <1>5, SyncHistory
    <2> QED BY <1>1, <2>1, <2>2, <2>3, SyncOthers
<1>6. ASSUME NEW c \in Chats, ChatsUpsert(c) PROVE SyncInv'
    <2>1. /\ Touches("chats.upsert", c) /\ waited' = waited /\ c \in Things
          /\ refused' = refused \/ refused' = refused \cup RefusedBy(c)
        BY <1>1, <1>6, ChatsUpsertLeaves DEF ChatsUpsert, Things
    <2>2. Ledger(c)
        BY <1>1, <2>1, RefusedOurs DEF Ledger
    <2> QED BY <1>1, <1>6, <2>1, <2>2, SyncUpserted, SyncOthers
<1>7. ASSUME NEW c \in Chats, ChatsUpdate(c) PROVE SyncInv'
    <2>1. /\ Touches("chats.update", c) /\ waited' = waited /\ refused' = refused /\ c \in Things
          /\ AtOnce(c, view[c] \o W, direct[c] \o W) \/ KeptMerged(c, direct[c] \o W, buf.dels \ {c})
        BY <1>1, <1>7, ChatsUpdateLeaves DEF ChatsUpdate, Things
    <2> DEFINE p == direct[c] \o W
    <2>2. AtOnce(c, view[c] \o W, p) \/ KeptMerged(c, p, buf.dels \ {c})
        BY <2>1
    <2> HIDE DEF p
    <2>3. WaitRight(c)'
        BY <2>1, <2>2, SyncAtOnce, SyncMerged
    <2> QED BY <1>1, <1>4, <2>1, <2>3, SyncOthers
<1>8. ASSUME NEW c \in Chats, NEW ok \in BOOLEAN, ConditionalUpdate(c, ok) PROVE SyncInv'
    <2>1. /\ Touches("conditional chats.update", c)
          /\ waited' = waited \/ waited' = waited \cup {w}
          /\ refused' = refused \/ refused' = refused \cup {w}
        BY <1>1, <1>8, ConditionalUpdateLeaves DEF ConditionalKept
    <2>2. Ledger(c)
        BY <2>1 DEF Ledger
    <2> QED BY <1>1, <1>8, <2>1, <2>2, SyncConditional, SyncOthers
<1>9. ASSUME NEW c \in Chats, ChatsDelete(c) PROVE SyncInv'
    <2>1. Touches("chats.delete", c) /\ waited' = waited /\ refused' = refused /\ c \in Things
        BY <1>1, <1>9, ChatsDeleteLeaves DEF ChatsDelete, Things
    <2> QED BY <1>1, <1>4, <1>9, <2>1, SyncRemoved, SyncOthers
<1>10. ASSUME NEW k, NEW x \in Messages \cup Contacts \cup Groups, Touches(k, x), waited' = waited, refused' = refused
       PROVE  SyncInv'
    <2>1. x \in Things /\ x \notin Chats
        BY ThingsApart DEF Things
    <2> QED BY <1>1, <1>4, <1>10, <2>1, SyncOthers
<1>11. ASSUME NEW p \in Contacts, ContactsUpsert(p) PROVE SyncInv'
    BY <1>1, <1>10, <1>11, ContactsUpsertLeaves DEF ContactsUpsert
<1>12. ASSUME NEW p \in Contacts, ContactsUpdate(p) PROVE SyncInv'
    BY <1>1, <1>10, <1>12, ContactsUpdateLeaves DEF ContactsUpdate
<1>13. ASSUME NEW m \in Messages, MessagesUpsert(m) PROVE SyncInv'
    BY <1>1, <1>10, <1>13, MessagesUpsertLeaves DEF MessagesUpsert
<1>14. ASSUME NEW m \in Messages, MessagesUpdate(m) PROVE SyncInv'
    BY <1>1, <1>10, <1>14, MessagesUpdateLeaves DEF MessagesUpdate
<1>15. ASSUME NEW m \in Messages, MessagesDelete(m) PROVE SyncInv'
    BY <1>1, <1>10, <1>15, MessagesDeleteLeaves DEF MessagesDelete
<1>16. ASSUME NEW m \in Messages, MessagesAttach(m) PROVE SyncInv'
    BY <1>1, <1>10, <1>16, MessagesAttachLeaves DEF MessagesAttach
<1>17. ASSUME NEW g \in Groups, GroupsUpdate(g) PROVE SyncInv'
    BY <1>1, <1>10, <1>17, GroupsUpdateLeaves DEF GroupsUpdate
<1>18. CASE Emission
    BY <1>5, <1>6, <1>7, <1>8, <1>9, <1>11, <1>12, <1>13, <1>14, <1>15, <1>16, <1>17, <1>18 DEF Emission
<1> QED BY <1>1, <1>2, <1>3, <1>18, StepIs

LEMMA SyncInit == ASSUME Init PROVE SyncInv
<1>1. ContactsInv
    BY ContactsInit
<1>2. waited = {} /\ refused = {} /\ buf.cond = {} /\ buf.dels = {}
    BY DEF Init, FreshState
<1>3. ASSUME NEW c \in Chats PROVE WaitRight(c)
    <2>1. view[c] = <<>> /\ buf.hist[c] = <<>> /\ buf.ups[c] = <<>> /\ buf.upd[c] = <<>>
        BY DEF Init, Nothing, FreshState, Things
    <2>2. WaitedFor(c) = {}
        BY <1>2 DEF WaitedFor
    <2> QED BY <1>2, <2>1, <2>2, WritesNone DEF WaitRight, Waiting
<1> QED BY <1>1, <1>2, <1>3 DEF SyncInv

\* What is right while syncing is what the sync promises.
LEMMA SyncShown == ASSUME SyncInv PROVE InitialSyncShows
<1>1. ContactsShow
    BY ContactsShown DEF SyncInv
<1>2. ASSUME NEW c \in Chats
      PROVE  /\ Waiting(c, Writes(view[c]), Writes(buf.hist[c]), Writes(buf.ups[c]), Writes(buf.upd[c]), buf.cond,
                        buf.dels, WaitedFor(c), refused, Knowing, Superseded(c))
             /\ \A i \in Writes(view[c]) : log[i].on = c
    <2>1. WaitRight(c) /\ OwnWrites(c)
        BY SyncHolds DEF BufferInv
    <2> QED BY <2>1 DEF WaitRight, OwnWrites, OnThing
<1>3. HeldUntilKnown
    <2> SUFFICES ASSUME NEW c \in Chats, Writes(view[c]) \cap waited # {}
                 PROVE  \E i \in Writes(view[c]) : log[i].kind \in {"chats.upsert", "messaging-history.set"}
        BY DEF HeldUntilKnown
    <2>1. Writes(view[c]) \cap WaitedFor(c) # {}
        BY <1>2 DEF WaitedFor
    <2>2. Writes(view[c]) \cap Knowing # {}
        BY <1>2, <2>1 DEF Waiting
    <2> QED BY <2>2 DEF Knowing
<1>4. RefusedNeverShown
    BY <1>2 DEF Waiting, RefusedNeverShown
<1>5. WaitingKept
    <2> SUFFICES ASSUME NEW i \in waited \ refused, NEW c, c = log[i].on
                 PROVE  \/ i \in Writes(buf.upd[c]) \cup Writes(buf.ups[c]) \cup Writes(buf.hist[c]) \cup Writes(view[c])
                        \/ \E j \in i + 1 .. Len(log) :
                              log[j].on = c /\ log[j].kind \in {"conditional chats.update", "chats.delete"}
        BY DEF WaitingKept
    <2>1. c \in Chats /\ i \in WaitedFor(c) \ refused
        BY DEF SyncInv, WaitedFor
    <2>2. i \in Writes(view[c]) \cup Writes(buf.hist[c]) \cup Writes(buf.ups[c]) \cup Writes(buf.upd[c]) \cup Superseded(c)
        BY <1>2, <2>1 DEF Waiting
    <2> QED BY <2>2 DEF Superseded
<1> QED BY <1>1, <1>3, <1>4, <1>5 DEF InitialSyncShows, ConditionsKept

\* While history and app state are synced, among any other events: no contact is lost, an
\* update that waits is not shown before its chat, is never shown once refused, and is kept
\* over every flush (lib/event-buffer.js absorbPendingChatUpdate, conditionalUpdatesLeft).
THEOREM SyncIsRight == Spec => []InitialSyncShows
<1>1. SyncInv /\ [Next]_vars => SyncInv'
    BY SyncStep
<1>2. Spec => []SyncInv
    BY <1>1, SyncInit, PTL DEF Spec
<1> QED BY <1>2, SyncShown, PTL
=============================================================================
