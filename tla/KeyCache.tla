------------------------------ MODULE KeyCache ------------------------------
(***************************************************************************)
(* makeCacheableSignalKeyStore of lib/auth-state.js over the file store of *)
(* the same file: get and set take a lock that is nothing but the promise  *)
(* of whoever holds it, clear does not.  The values of a key are the calls *)
(* that set it; a delete is a set of Null.  The store of this repository   *)
(* has no clear, so that clear() empties the cache only.                   *)
(***************************************************************************)
EXTENDS Integers, FiniteSets

CONSTANTS Calls, CacheKeys,
          Free, Null, Absent,
          MaxEvictions   \* bound: cache entries dropped for age or room

ASSUME KeyCacheAssumption ==
    /\ {Free, Null, Absent} \cap Calls = {}
    /\ Null # Absent
    /\ MaxEvictions \in Nat

VARIABLES disk,      \* disk[k]: the file of the key, Null if there is none
          cached,    \* cached[k]: the entry of the cache, Absent if undefined
          lock,      \* the call whose promise is pendingLock
          op,        \* op[c]: the operation, its keys, and how far it is
          late,      \* writes of failed sets that still run, as <<call, key>>
          latest,    \* latest[k]: what the last set that had the lock wrote
          doubt,     \* keys of failed sets that were not set anew since
          evictions

cacheVars == <<disk, cached, lock, op, late, latest, doubt, evictions>>

Idle == [kind |-> "none", keys |-> {}, null |-> FALSE, pc |-> "new", todo |-> {}, out |-> <<>>]

Value(c) == IF op[c].null THEN Null ELSE c

CacheInit ==
    /\ disk = [k \in CacheKeys |-> Null]
    /\ cached = [k \in CacheKeys |-> Absent]
    /\ lock = Free
    /\ op = [c \in Calls |-> Idle]
    /\ late = {}
    /\ latest = [k \in CacheKeys |-> Null]
    /\ doubt = {}
    /\ evictions = 0

\* get(type, ids) or set(data), up to the wait for the lock.
Call(c, kind, keys, null) ==
    /\ op[c].pc = "new"
    /\ keys # {} /\ (null => kind = "set")
    /\ op' = [op EXCEPT ![c] = [Idle EXCEPT !.kind = kind, !.keys = keys, !.null = null, !.pc = "wait"]]
    /\ UNCHANGED <<disk, cached, lock, late, latest, doubt, evictions>>

\* Plausible bug: the loop around the await is an if, so that everyone who
\* waited goes on when the lock is released.
LockFree_Once(c) == \A d \in Calls : op[d].kind # "set" \/ op[d].pc # "io"

LockFree(c) == lock = Free

\* withLock: while (pendingLock) await pendingLock.  Who comes while the lock
\* is free takes it at once; of those who wait any may be first.
EnterGet(c) ==
    LET missing == {k \in op[c].keys : cached[k] = Absent}
    IN /\ op[c].pc = "wait" /\ op[c].kind = "get"
       /\ LockFree(c)
       /\ lock' = IF missing = {} THEN Free ELSE c
       /\ op' = [op EXCEPT ![c].pc = IF missing = {} THEN "ok" ELSE "io",
                           ![c].todo = missing,
                           ![c].out = [k \in op[c].keys |-> cached[k]]]
       /\ UNCHANGED <<disk, cached, late, latest, doubt, evictions>>

\* The cache is written before the store is.
EnterSet(c) ==
    /\ op[c].pc = "wait" /\ op[c].kind = "set"
    /\ LockFree(c)
    /\ lock' = c
    /\ cached' = [k \in CacheKeys |-> IF k \in op[c].keys THEN Value(c) ELSE cached[k]]
    /\ latest' = [k \in CacheKeys |-> IF k \in op[c].keys THEN Value(c) ELSE latest[k]]
    /\ op' = [op EXCEPT ![c].pc = "io", ![c].todo = op[c].keys]
    /\ UNCHANGED <<disk, late, doubt, evictions>>

\* store.get reads the files of the missing keys side by side.
ReadOne(c, k) ==
    /\ op[c].pc = "io" /\ op[c].kind = "get" /\ k \in op[c].todo
    /\ op' = [op EXCEPT ![c].out[k] = disk[k], ![c].todo = @ \ {k}]
    /\ UNCHANGED <<disk, cached, lock, late, latest, doubt, evictions>>

\* All are read: what is there is cached, and the lock released.
Fill(c) ==
    /\ op[c].pc = "io" /\ op[c].kind = "get" /\ op[c].todo = {}
    /\ cached' = [k \in CacheKeys |->
                    IF k \in op[c].keys /\ op[c].out[k] # Null THEN op[c].out[k] ELSE cached[k]]
    /\ lock' = Free
    /\ op' = [op EXCEPT ![c].pc = "ok"]
    /\ UNCHANGED <<disk, late, latest, doubt, evictions>>

\* store.set writes the files side by side; the set settles with the last.
WriteOne(c, k) ==
    /\ op[c].pc = "io" /\ op[c].kind = "set" /\ k \in op[c].todo
    /\ disk' = [disk EXCEPT ![k] = Value(c)]
    /\ op' = [op EXCEPT ![c].todo = @ \ {k}, ![c].pc = IF op[c].todo = {k} THEN "ok" ELSE "io"]
    /\ lock' = IF op[c].todo = {k} THEN Free ELSE lock
    /\ doubt' = IF \E d \in Calls : <<d, k>> \in late THEN doubt ELSE doubt \ {k}
    /\ UNCHANGED <<cached, late, latest, evictions>>

\* Plausible bug: the release is not in a finally.
Released_NotOnError == lock
Released == Free

\* One file cannot be written: Promise.all rejects at once, the lock is
\* released, and the writes of the other files go on.
WriteFails(c, k) ==
    /\ op[c].pc = "io" /\ op[c].kind = "set" /\ k \in op[c].todo
    /\ op' = [op EXCEPT ![c].pc = "err", ![c].todo = {}]
    /\ late' = late \cup {<<c, j>> : j \in op[c].todo \ {k}}
    /\ doubt' = doubt \cup op[c].keys
    /\ lock' = Released
    /\ UNCHANGED <<disk, cached, latest, evictions>>

LateWrite(c, k) ==
    /\ <<c, k>> \in late
    /\ late' = late \ {<<c, k>>}
    /\ disk' = [disk EXCEPT ![k] = Value(c)]
    /\ UNCHANGED <<cached, lock, op, latest, doubt, evictions>>

ReadFails(c) ==
    /\ op[c].pc = "io" /\ op[c].kind = "get"
    /\ op' = [op EXCEPT ![c].pc = "err", ![c].todo = {}]
    /\ lock' = Released
    /\ UNCHANGED <<disk, cached, late, latest, doubt, evictions>>

\* makeLRUCache drops an entry that is too old, or the oldest of too many.
Evict(k) ==
    /\ evictions < MaxEvictions
    /\ cached[k] # Absent
    /\ cached' = [cached EXCEPT ![k] = Absent]
    /\ evictions' = evictions + 1
    /\ UNCHANGED <<disk, lock, op, late, latest, doubt>>

ClearCache ==
    /\ \E k \in CacheKeys : cached[k] # Absent
    /\ evictions < MaxEvictions
    /\ cached' = [k \in CacheKeys |-> Absent]
    /\ evictions' = evictions + 1
    /\ UNCHANGED <<disk, lock, op, late, latest, doubt>>

CacheNext ==
    \/ \E c \in Calls, kind \in {"get", "set"}, keys \in SUBSET CacheKeys, null \in BOOLEAN :
          Call(c, kind, keys, null)
    \/ \E c \in Calls : EnterGet(c)
    \/ \E c \in Calls : EnterSet(c)
    \/ \E c \in Calls, k \in CacheKeys : ReadOne(c, k)
    \/ \E c \in Calls : Fill(c)
    \/ \E c \in Calls, k \in CacheKeys : WriteOne(c, k)
    \/ \E c \in Calls, k \in CacheKeys : WriteFails(c, k)
    \/ \E c \in Calls, k \in CacheKeys : LateWrite(c, k)
    \/ \E c \in Calls : ReadFails(c)
    \/ \E k \in CacheKeys : Evict(k)
    \/ ClearCache

\* File operations come to an end, and resolved promises wake who awaits them.
CallsGoOn ==
    /\ WF_cacheVars(\E c \in Calls : EnterGet(c) \/ EnterSet(c))
    /\ WF_cacheVars(\E c \in Calls : (\E k \in CacheKeys : ReadOne(c, k) \/ WriteOne(c, k)) \/ Fill(c))

CacheSpec == CacheInit /\ [][CacheNext]_cacheVars /\ CallsGoOn
-----------------------------------------------------------------------------
\* Types, and the lock: it is held by the one call that is in its section.
CacheTypeOK ==
    /\ \A c \in Calls : op[c].pc = "io" <=> lock = c
    /\ disk \in [CacheKeys -> Calls \cup {Null}]
    /\ cached \in [CacheKeys -> Calls \cup {Null, Absent}]
    /\ latest \in [CacheKeys -> Calls \cup {Null}]
    /\ lock \in Calls \cup {Free}
    /\ late \subseteq Calls \X CacheKeys
    /\ doubt \subseteq CacheKeys
    /\ evictions \in Nat

\* A get that settles gives the value of the last set, whatever of it came
\* from the cache and whatever from the files, unless that set failed.
GetsSeeLastSet ==
    [][\A c \in Calls : op[c].kind = "get" /\ op[c].pc # "ok" /\ op'[c].pc = "ok" =>
           \A k \in op[c].keys \ doubt : op'[c].out[k] = latest[k]]_cacheVars

\* A get or set that fails does not keep the others from their turn.
EveryCallSettles == \A c \in Calls : op[c].pc = "wait" ~> op[c].pc \in {"ok", "err"}
=============================================================================
