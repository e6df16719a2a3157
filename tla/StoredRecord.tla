---------------------------- MODULE StoredRecord ----------------------------
(***************************************************************************)
(* What becomes of a session record between two starts: serialize of       *)
(* signal/session_record.js, the JSON that is stored, and deserialize with *)
(* its migration of records that have no version.  A key is a buffer in    *)
(* memory and base64 text in the data; JSON leaves out what is undefined.  *)
(***************************************************************************)
EXTENDS Integers

CONSTANT Entries  \* sessions as they are in memory

VARIABLES entry,  \* the session that is stored
          data,   \* what it is in the store
          loaded  \* what it is after the start

recordVars == <<entry, data, loaded>>

Undefined == [form |-> "undefined", of |-> "nothing"]
Throws == [form |-> "error", of |-> "nothing"]
BufferOf(k) == [form |-> "buffer", of |-> k]
Num(n) == [form |-> "number", of |-> n]

\* toString('base64') of a key, and Buffer.from of what it gave.
Base64(k) == IF k.form = "buffer" THEN [k EXCEPT !.form = "base64"] ELSE Throws
FromBase64(t) == IF t.form = "base64" THEN [t EXCEPT !.form = "buffer"] ELSE Throws

\* Plausible bug: every chain is taken to have its key.
ChainKey_Present(Convert(_), k) == Convert(k)

\* The key of a chain that was closed is gone.
ChainKey(Convert(_), k) == IF k = Undefined THEN k ELSE Convert(k)

\* _serialize_chains and _deserialize_chains.
Chain(Convert(_), c) ==
    [c EXCEPT !.key = ChainKey(Convert, @), !.messageKeys = [n \in DOMAIN @ |-> Convert(@[n])]]

Chains(Convert(_), chains) == [c \in DOMAIN chains |-> Chain(Convert, chains[c])]

\* SessionEntry: what is a number goes as it is; pendingPreKey may be missing.
Entry(Convert(_), e) ==
    [registrationId |-> e.registrationId,
     keys |-> [f \in DOMAIN e.keys |-> Convert(e.keys[f])],
     numbers |-> e.numbers,
     chains |-> Chains(Convert, e.chains),
     pendingPreKey |-> IF e.pendingPreKey = Undefined THEN Undefined
                       ELSE [e.pendingPreKey EXCEPT !.baseKey = Convert(@)]]

\* Records of before the versions had one registrationId for all sessions.
Migrate(d) ==
    IF d.registrationId = Undefined THEN d.session
    ELSE [d.session EXCEPT !.registrationId = IF @ = Undefined THEN d.registrationId ELSE @]

Stored(e, version, registrationId) ==
    [session |-> e, version |-> version, registrationId |-> registrationId]

RecordInit == entry = Undefined /\ data = Undefined /\ loaded = Undefined

Serialize(e) ==
    /\ entry = Undefined
    /\ entry' = e
    /\ data' = Stored(Entry(Base64, e), "v1", Undefined)
    /\ UNCHANGED loaded

\* The store has a record of an old version of the program.
Inherits(e) ==
    /\ entry = Undefined
    /\ entry' = e
    /\ data' = Stored([Entry(Base64, e) EXCEPT !.registrationId = Undefined], "none", e.registrationId)
    /\ UNCHANGED loaded

Deserialize ==
    /\ data # Undefined /\ loaded = Undefined
    /\ loaded' = Entry(FromBase64, IF data.version = "v1" THEN data.session ELSE Migrate(data))
    /\ UNCHANGED <<entry, data>>

RecordNext == (\E e \in Entries : Serialize(e) \/ Inherits(e)) \/ Deserialize

RecordSpec == RecordInit /\ [][RecordNext]_recordVars
-----------------------------------------------------------------------------
IsBuffer(k) == k = BufferOf(k.of)

IsChain(c) ==
    /\ c = [key |-> c.key, counter |-> c.counter, type |-> c.type, messageKeys |-> c.messageKeys]
    /\ c.key = Undefined \/ IsBuffer(c.key)
    /\ c.messageKeys = [n \in DOMAIN c.messageKeys |-> c.messageKeys[n]]
    /\ \A n \in DOMAIN c.messageKeys : IsBuffer(c.messageKeys[n])

IsPreKey(p) ==
    /\ p = [signedKeyId |-> p.signedKeyId, preKeyId |-> p.preKeyId, baseKey |-> p.baseKey]
    /\ IsBuffer(p.baseKey)

\* The fields of SessionEntry, and which of them are keys.
ASSUME EntriesAssumption == \A e \in Entries :
    /\ e = [registrationId |-> e.registrationId, keys |-> e.keys, numbers |-> e.numbers,
            chains |-> e.chains, pendingPreKey |-> e.pendingPreKey]
    /\ e.keys = [f \in DOMAIN e.keys |-> e.keys[f]] /\ \A f \in DOMAIN e.keys : IsBuffer(e.keys[f])
    /\ e.chains = [c \in DOMAIN e.chains |-> e.chains[c]] /\ \A c \in DOMAIN e.chains : IsChain(e.chains[c])
    /\ e.pendingPreKey = Undefined \/ IsPreKey(e.pendingPreKey)

\* A session is after a start what it was before, whatever it had come to:
\* chains that have no key any more and keys of messages that are still to come,
\* a pre-key that was not yet answered or none; and one of an old record has the
\* registration id of that record, without which it would not count as open.
RecordsComeBack == loaded # Undefined => loaded = entry
=============================================================================
