----------------------------- MODULE MCStorage -----------------------------
(***************************************************************************)
(* The parts of lib/auth-state.js, one per behaviour: the cached key       *)
(* store, the transactions, a file.  Calls and transactions are alike, so  *)
(* they are taken to begin in one order.                                   *)
(***************************************************************************)
EXTENDS KeyCache, KeyTransactions, AuthFiles

CONSTANTS o1, o2, o3,   \* three calls, transactions, saves
          k1, k2,       \* two keys
          MaxFailures,  \* bound: gets and sets that fail
          MaxKeys,      \* bound: keys of all gets and sets
          MaxDeletes,   \* bound: sets to null
          MaxSets       \* bound: sets of all transactions

VARIABLE part

vars == <<part, cacheVars, txVars, fileVars>>

InOrder(begun) == (o2 \in begun => o1 \in begun) /\ (o3 \in begun => o2 \in begun)

Failed == {c \in Calls : op[c].pc = "err"}

Init ==
    /\ part \in {"cache", "transactions", "files"}
    /\ CacheInit /\ TxInit /\ FileInit

RunCache ==
    /\ part = "cache" /\ CacheNext /\ UNCHANGED <<part, txVars, fileVars>>
    /\ InOrder({c \in Calls : op'[c].pc # "new"})
    /\ op'[o1].keys \subseteq {k1} \/ op'[o1].keys = CacheKeys   \* the keys are alike
    /\ Cardinality(Failed') <= MaxFailures
    /\ Cardinality(op'[o1].keys) + Cardinality(op'[o2].keys) + Cardinality(op'[o3].keys) <= MaxKeys
    /\ Cardinality({c \in Calls : op'[c].null}) <= MaxDeletes

RunTransactions ==
    /\ part = "transactions" /\ TxNext /\ UNCHANGED <<part, cacheVars, fileVars>>
    /\ InOrder({t \in Txs : txState'[t] # "new"})
    /\ txSets'[o1] + txSets'[o2] + txSets'[o3] <= MaxSets
    /\ Cardinality(fetching') <= 1

RunFiles ==
    /\ part = "files" /\ FileNext /\ UNCHANGED <<part, cacheVars, txVars>>
    /\ InOrder({s \in Saves : save'[s].pc # "new"})

Next == RunCache \/ RunTransactions \/ RunFiles

Spec == Init /\ [][Next]_vars /\ CallsGoOn /\ TxGoesOn
-----------------------------------------------------------------------------
\* Nothing waits for the store for good, whatever of it fails: no get or set for
\* its turn, and no set of the process for the commit of a transaction.
StoreGoesOn == EveryCallSettles /\ CommitEnds
=============================================================================
