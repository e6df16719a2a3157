------------------------- MODULE SignalConversation -------------------------
(***************************************************************************)
(* Two devices that run this library and talk over the server: the jobs of *)
(* signal/session_builder.js and signal/session_cipher.js on both sides,   *)
(* with the stores of lib/signal-repository.js under them.  The server may *)
(* deliver any message any number of times, late, or never.                *)
(*                                                                         *)
(* The jobs of one address run one at a time (JobQueue).  A job works on   *)
(* its own copy of the record and saves it once, so it is one action up to *)
(* the save, and what it does after the save is a second one; a crash in   *)
(* between, or a failure before, leaves what was stored.                   *)
(***************************************************************************)
EXTENDS Ratchet, SessionRecord

CONSTANTS Peers,
          PreKeys,       \* PreKeys[p]: the numbers of p's one-time pre-keys
          MaxSessions,   \* bound: sessions a record ever takes in
          MaxInits,      \* bound: sessions p sets up, MaxInits[p]
          MaxSends,      \* bound: messages p encrypts, MaxSends[p]
          MaxCrashes,    \* bound: crashes of p, MaxCrashes[p]
          Times          \* the instants of SessionStore: all a clock reaches

ASSUME ConversationAssumption ==
    /\ \E p, q \in Peers : p # q /\ Peers = {p, q}
    /\ PreKeys \in [Peers -> SUBSET Nat]

VARIABLES record,    \* record[p]: p's stored record of the other peer
          opened,    \* opened[p]: how many sessions were put into it
          clock,     \* clock[p]: times p read off Date.now(), strictly rising
          fresh,     \* fresh[p]: key pairs p has generated
          preKeys,   \* preKeys[p]: the one-time pre-keys p still holds
          stock,     \* stock[p]: those the server has not given out yet
          job,       \* job[p]: what p's running job still has to do
          wire,      \* every message ever handed to the server
          read,      \* read[p]: the messages p has decrypted and saved
          inits,     \* inits[p]: sessions p has set up
          crashes    \* crashes[p]: how often p has crashed

vars == <<record, opened, clock, fresh, preKeys, stock, job, wire, read, inits, crashes>>

\* The keys of p: identity, signed pre-key, one-time pre-keys, and those it
\* generates on the way, numbered by generation and by the session they are
\* for (0 for a base key).
Identity(p) == <<p, "identity", 0, 0>>
Signed(p) == <<p, "signed", 0, 0>>
PreKey(p, i) == <<p, "pre", i, 0>>
Fresh(p, i) == <<p, "fresh", fresh[p], i>>

Other(p) == CHOOSE q \in Peers : q # p

Idle == [op |-> "idle"]

Init ==
    /\ record = [p \in Peers |-> [i \in {} |-> Idle]]
    /\ opened = [p \in Peers |-> 0]
    /\ clock = [p \in Peers |-> 0]
    /\ fresh = [p \in Peers |-> 0]
    /\ preKeys = [p \in Peers |-> {PreKey(p, i) : i \in PreKeys[p]}]
    /\ stock = preKeys
    /\ job = [p \in Peers |-> Idle]
    /\ wire = {}
    /\ read = [p \in Peers |-> {}]
    /\ inits = [p \in Peers |-> 0]
    /\ crashes = [p \in Peers |-> 0]

\* Plausible bug: old sessions are not removed.
Save_All(p, rec) == record' = [record EXCEPT ![p] = rec]

\* storeRecord: removeOldSessions and the save.
Save(p, rec) ==
    \E kept \in Kept(rec) : record' = [record EXCEPT ![p] = KeepOnly(rec, kept)]

Tick(p) == clock' = [clock EXCEPT ![p] = @ + 1]
NewKeys(p) == fresh' = [fresh EXCEPT ![p] = @ + 1]

\* The server's pre-key bundle of p: a one-time pre-key while there are any.
Bundles(p) ==
    {[identity |-> Identity(p), signed |-> Signed(p), pre |-> pre] :
        pre \in IF stock[p] = {} THEN {{}} ELSE {{k} : k \in stock[p]}}

\* assertSessions has fetched the other's bundle; initOutgoing, which saves
\* without removeOldSessions.  Its base key and ratchet key are generated.
InitOutgoing(p) ==
    /\ job[p] = Idle
    /\ inits[p] < MaxInits[p]
    /\ opened[p] < MaxSessions
    /\ \E bundle \in Bundles(Other(p)) :
          LET i == opened[p] + 1
              s == Initiator(Identity(p), bundle, Fresh(p, 0), Fresh(p, i), clock[p] + 1)
          IN /\ record' = [record EXCEPT ![p] =
                             Put(CloseOpen(@, clock[p] + 1), i, s)]
             /\ stock' = [stock EXCEPT ![Other(p)] = @ \ bundle.pre]
    /\ opened' = [opened EXCEPT ![p] = @ + 1]
    /\ inits' = [inits EXCEPT ![p] = @ + 1]
    /\ Tick(p)
    /\ NewKeys(p)
    /\ UNCHANGED <<preKeys, job, wire, read, crashes>>

\* A message on the wire: sender and ciphertext; the n-th of its sender.
SentBy(p) == {m \in wire : m.from = p}
Stanza(p, c) ==
    [from |-> p, n |-> Cardinality(SentBy(p)) + 1, pkmsg |-> c.pkmsg, base |-> c.base, pre |-> c.pre,
     eph |-> c.eph, ctr |-> c.ctr, prev |-> c.prev, key |-> c.key]

\* encrypt up to the save of the advanced chain.
Encrypt(p) ==
    /\ job[p] = Idle
    /\ Cardinality(SentBy(p)) < MaxSends[p]
    /\ \E i \in DOMAIN record[p] :
          /\ IsOpenSession(record[p], i)
          /\ CanEncrypt(record[p][i])
          /\ Save(p, [record[p] EXCEPT ![i] = Encrypted(@)])
          /\ job' = [job EXCEPT ![p] = [op |-> "send", msg |-> Stanza(p, Ciphertext(record[p][i]))]]
    /\ UNCHANGED <<opened, clock, fresh, preKeys, stock, wire, read, inits, crashes>>

\* encrypt has returned and the stanza goes out.
Send(p) ==
    /\ job[p].op = "send"
    /\ wire' = wire \cup {job[p].msg}
    /\ job' = [job EXCEPT ![p] = Idle]
    /\ UNCHANGED <<record, opened, clock, fresh, preKeys, stock, read, inits, crashes>>

\* getSessions: most recently used first.
TriedBefore(rec, i, k) ==
    \/ rec[i].used > rec[k].used
    \/ rec[i].used = rec[k].used /\ i < k

\* decryptWithSessions succeeds with session i: those tried before failed.
Matches(p, m, i) ==
    LET rec == record[p] IN
    /\ Decrypts(rec[i], m, Fresh(p, i))
    /\ \A k \in DOMAIN rec : TriedBefore(rec, k, i) => ~Decrypts(rec[k], m, Fresh(p, k))

\* The record after that: the failed attempts changed their sessions too.
AfterSearch(p, m, i) ==
    LET rec == record[p] IN
    [k \in DOMAIN rec |->
        IF k = i THEN [AfterAttempt(rec[k], m, Fresh(p, k)) EXCEPT !.used = clock[p] + 1]
        ELSE IF TriedBefore(rec, k, i) THEN AfterAttempt(rec[k], m, Fresh(p, k))
        ELSE rec[k]]

Reading(m, pre) == [op |-> "read", msg |-> m, pre |-> pre]

\* decryptWhisperMessage.
DecryptWhisper(p, m) ==
    /\ job[p] = Idle
    /\ m.from = Other(p)
    /\ ~m.pkmsg
    /\ \E i \in DOMAIN record[p] :
          /\ Matches(p, m, i)
          /\ Save(p, AfterSearch(p, m, i))
    /\ read' = [read EXCEPT ![p] = @ \cup {m}]
    /\ job' = [job EXCEPT ![p] = Reading(m, {})]
    /\ Tick(p)
    /\ NewKeys(p)
    /\ UNCHANGED <<opened, preKeys, stock, wire, inits, crashes>>

\* record.getSession(message.baseKey)
IsSessionOf(rec, i, m) == i \in DOMAIN rec /\ m.base = {rec[i].base}

\* initIncoming on a base key the record holds: it returns nothing, so no
\* pre-key is removed, and the session stays open or closed as it was.
DecryptPreKeyKnown(p, m) ==
    /\ job[p] = Idle
    /\ m.from = Other(p)
    /\ m.pkmsg
    /\ \E i \in DOMAIN record[p] :
          /\ IsSessionOf(record[p], i, m)
          /\ ~record[p][i].ours
          /\ Decrypts(record[p][i], m, Fresh(p, i))
          /\ Save(p, [record[p] EXCEPT ![i] = AfterAttempt(@, m, Fresh(p, i))])
    /\ read' = [read EXCEPT ![p] = @ \cup {m}]
    /\ job' = [job EXCEPT ![p] = Reading(m, {})]
    /\ NewKeys(p)
    /\ UNCHANGED <<opened, clock, preKeys, stock, wire, inits, crashes>>

\* The session initIncoming builds from a message.
Incoming(p, m) ==
    Responder(Identity(p), Signed(p), m.pre, Identity(Other(p)), CHOOSE b \in m.base : TRUE, clock[p] + 1)

CanBuild(p, m) ==
    /\ ~\E i \in DOMAIN record[p] : IsSessionOf(record[p], i, m)
    /\ m.pre \subseteq preKeys[p]
    /\ Decrypts(Incoming(p, m), m, Fresh(p, opened[p] + 1))

\* Plausible bug: the one-time pre-key is removed first, the save is last.
DecryptPreKeyNew_RemovesFirst(p, m) ==
    /\ job[p] = Idle
    /\ m.from = Other(p)
    /\ m.pkmsg
    /\ CanBuild(p, m)
    /\ preKeys' = [preKeys EXCEPT ![p] = @ \ m.pre]
    /\ job' = [job EXCEPT ![p] = Reading(m, {})]
    /\ UNCHANGED <<record, opened, clock, fresh, stock, wire, read, inits, crashes>>

\* initIncoming on a new base key: the open session is closed, the new one
\* put in, and its one-time pre-key is removed after the save.
DecryptPreKeyNew(p, m) ==
    /\ job[p] = Idle
    /\ m.from = Other(p)
    /\ m.pkmsg
    /\ opened[p] < MaxSessions
    /\ CanBuild(p, m)
    /\ LET i == opened[p] + 1
           s == AfterAttempt(Incoming(p, m), m, Fresh(p, i))
       IN Save(p, Put(CloseOpen(record[p], clock[p] + 1), i, s))
    /\ opened' = [opened EXCEPT ![p] = @ + 1]
    /\ read' = [read EXCEPT ![p] = @ \cup {m}]
    /\ job' = [job EXCEPT ![p] = Reading(m, m.pre)]
    /\ Tick(p)
    /\ NewKeys(p)
    /\ UNCHANGED <<preKeys, stock, wire, inits, crashes>>

\* removePreKey, then decryptMessage returns the plaintext.
FinishRead(p) ==
    /\ job[p].op = "read"
    /\ preKeys' = [preKeys EXCEPT ![p] = @ \ job[p].pre]
    /\ job' = [job EXCEPT ![p] = Idle]
    /\ UNCHANGED <<record, opened, clock, fresh, stock, wire, read, inits, crashes>>

\* The process dies; what it stored is there when it starts again.
Crash(p) ==
    /\ job[p] # Idle
    /\ crashes[p] < MaxCrashes[p]
    /\ crashes' = [crashes EXCEPT ![p] = @ + 1]
    /\ job' = [job EXCEPT ![p] = Idle]
    /\ UNCHANGED <<record, opened, clock, fresh, preKeys, stock, wire, read, inits>>

\* closeOpenSession (a retry receipt has asked for a new session) is not
\* called by the library: signal-repository.js does not export it.

Next ==
    \/ \E p \in Peers : InitOutgoing(p)
    \/ \E p \in Peers : Encrypt(p)
    \/ \E p \in Peers : Send(p)
    \/ \E p \in Peers, m \in wire : DecryptWhisper(p, m)
    \/ \E p \in Peers, m \in wire : DecryptPreKeyKnown(p, m)
    \/ \E p \in Peers, m \in wire : DecryptPreKeyNew(p, m)
    \/ \E p \in Peers : FinishRead(p)
    \/ \E p \in Peers : Crash(p)

Spec == Init /\ [][Next]_vars
-----------------------------------------------------------------------------
TypeOK ==
    /\ \A p \in Peers :
          /\ DOMAIN record[p] \subseteq 1 .. opened[p]
          /\ \A i \in DOMAIN record[p] :
                /\ record[p][i].closed \in -1 .. clock[p]
                /\ record[p][i].used \in 1 .. clock[p]
                /\ \A k \in DOMAIN record[p][i].chains :
                      LET c == record[p][i].chains[k] IN
                      c.counter \in Int /\ c.keys \subseteq 0 .. c.counter
          /\ preKeys[p] \subseteq {PreKey(p, i) : i \in PreKeys[p]}
          /\ stock[p] \subseteq {PreKey(p, i) : i \in PreKeys[p]}
          /\ read[p] \subseteq wire
          /\ job[p].op \in {"idle", "send", "read"}

\* What a decryption of m would find now.
Readable(p, m) ==
    IF m.pkmsg
    THEN \/ CanBuild(p, m)
         \/ \E i \in DOMAIN record[p] :
               IsSessionOf(record[p], i, m) /\ Decrypts(record[p][i], m, Fresh(p, i))
    ELSE \E i \in DOMAIN record[p] : Decrypts(record[p][i], m, Fresh(p, i))

\* A message key is used once at either end: a message is decrypted at most once,
\* however often the server delivers it, and no two leave a device under one key,
\* not even when it crashes between the save and the send: the save comes first.
KeysUsedOnce ==
    /\ \A p \in Peers : \A m \in read[p] : ~Readable(p, m)
    /\ \A m, n \in wire : m.key = n.key => m = n

\* Every message on the wire can be decrypted, in whatever order and with
\* whatever losses they arrive, on whichever side of a ratchet step.
EveryMessageReadable ==
    \A p \in Peers : \A m \in SentBy(Other(p)) \ read[p] : job[p] = Idle => Readable(p, m)

\* Decrypting one message, on whichever session, leaves the others as they
\* were: session_cipher.js:174-178 says of a message on a closed session
\* "Simply make a note of it and continue", and 245-246 of a session that
\* does not match "Don't misinterpret this as corruption".
ReadingKeepsOthersReadable ==
    [][\A p \in Peers : \A m \in SentBy(Other(p)) \ read'[p] : Readable(p, m) => Readable(p, m)']_vars

\* encrypt on the open session always has a sending chain to advance.
EncryptReady ==
    \A p \in Peers : \A i \in OpenSessions(record[p]) : CanEncrypt(record[p][i])

\* A one-time pre-key is removed only once the session built with it is
\* stored: a pre-key message finds the one or the other after a crash.
PreKeyOrSession ==
    \A p \in Peers : \A m \in SentBy(Other(p)) :
        m.pkmsg => \/ m.pre \subseteq preKeys[p]
                   \/ \E i \in DOMAIN record[p] : IsSessionOf(record[p], i, m)

\* Each side keeps its record as SessionStore says.
Store(p) == INSTANCE SessionStore WITH
    record <- [i \in DOMAIN record[p] |-> [closed |-> record[p][i].closed]],
    opened <- opened[p], now <- clock[p], corrupt <- FALSE

KeepsRecords ==
    /\ \A p \in Peers : Store(p)!StoreInit
    /\ [][\A p \in Peers : Store(p)!StoreNext \/ UNCHANGED Store(p)!storeVars]_vars
=============================================================================
