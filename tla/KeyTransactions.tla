-------------------------- MODULE KeyTransactions --------------------------
(***************************************************************************)
(* addTransactionCapability of lib/auth-state.js.  There is one context,   *)
(* whoever calls transaction() while there is one is taken to be nested in *)
(* it, and every set of the process goes into it.  A value is the pair of  *)
(* who set it and in whose context (Nobody's if there was none).           *)
(***************************************************************************)
EXTENDS Integers

CONSTANTS Txs, TxKeys, Nobody, Unset,
          MaxCommitRetries,
          MaxTxSets   \* bound: sets of one transaction

ASSUME KeyTransactionsAssumption ==
    /\ Nobody \notin Txs
    /\ Unset \notin (Txs \X (Txs \cup {Nobody}))
    /\ MaxCommitRetries \in Nat \ {0} /\ MaxTxSets \in Nat

VARIABLES stored,    \* the key store underneath
          activeTx,  \* whose context there is
          context,   \* its cache and its mutations
          txState,   \* txState[t]: how far t is
          attempt,   \* failed attempts of the commit under way
          taken,     \* the mutations that the attempt under way took
          fetching,  \* fetches of gets in the context, as <<tx, key, what was read>>
          lastSet,   \* lastSet[k]: the last set of all
          missed,    \* sets that came after the commit had taken the mutations
          txSets

txVars == <<stored, activeTx, context, txState, attempt, taken, fetching, lastSet, missed, txSets>>

TxValue == (Txs \X (Txs \cup {Nobody})) \cup {Unset}
NoKeys == [k \in TxKeys |-> Unset]
NewContext == [cache |-> NoKeys, mutations |-> NoKeys]

TxInit ==
    /\ stored = NoKeys /\ lastSet = NoKeys /\ taken = NoKeys
    /\ activeTx = Nobody /\ context = NewContext
    /\ txState = [t \in Txs |-> "new"]
    /\ attempt = 0 /\ fetching = {} /\ missed = {}
    /\ txSets = [t \in Txs |-> 0]

Working(t) == txState[t] \in {"outer", "nested"}

TxStart(t) ==
    /\ txState[t] = "new"
    /\ txState' = [txState EXCEPT ![t] = IF activeTx = Nobody THEN "outer" ELSE "nested"]
    /\ IF activeTx = Nobody
       THEN activeTx' = t /\ context' = NewContext /\ fetching' = {} /\ attempt' = 0
       ELSE UNCHANGED <<activeTx, context, fetching, attempt>>
    /\ UNCHANGED <<stored, taken, lastSet, missed, txSets>>

\* Plausible bug: a set writes through as well.
TxWrite_Through(v, k) == stored' = [stored EXCEPT ![k] = v]

TxWrite(v, k) == stored' = IF activeTx = Nobody THEN [stored EXCEPT ![k] = v] ELSE stored

Buffered(v, k) == [context EXCEPT !.cache[k] = v, !.mutations[k] = v]

TxSet(t, k) ==
    LET v == <<t, activeTx>>
    IN /\ Working(t)
       /\ txSets[t] < MaxTxSets
       /\ txSets' = [txSets EXCEPT ![t] = @ + 1]
       /\ lastSet' = [lastSet EXCEPT ![k] = v]
       /\ TxWrite(v, k)
       /\ IF activeTx = Nobody
          THEN UNCHANGED <<context, missed>>
          ELSE /\ context' = Buffered(v, k)
               /\ missed' = IF txState[activeTx] = "commit" THEN missed \cup {<<v, k>>} ELSE missed
       /\ UNCHANGED <<activeTx, txState, attempt, taken, fetching>>

\* get in a context: what its cache lacks is fetched, and put there even if a
\* set came meanwhile.
TxFetch(t, k) ==
    /\ Working(t) /\ activeTx # Nobody
    /\ context.cache[k] = Unset
    /\ \A f \in fetching : f[1] # t
    /\ fetching' = fetching \cup {<<t, k, stored[k]>>}
    /\ UNCHANGED <<stored, activeTx, context, txState, attempt, taken, lastSet, missed, txSets>>

TxFetched(f) ==
    /\ f \in fetching
    /\ fetching' = fetching \ {f}
    /\ context' = [context EXCEPT !.cache[f[2]] = f[3]]
    /\ UNCHANGED <<stored, activeTx, txState, attempt, taken, lastSet, missed, txSets>>

\* Plausible bug: no finally.
ContextAfterFailure_Kept == activeTx

ContextAfterFailure == Nobody

EndsContext(t) == t = activeTx

\* The work of t returns: an outer transaction goes on to commit.
TxReturn(t) ==
    /\ Working(t)
    /\ \A f \in fetching : f[1] # t
    /\ txState' = [txState EXCEPT ![t] = IF @ = "outer" THEN "commit" ELSE "ok"]
    /\ taken' = IF txState[t] = "outer" THEN context.mutations ELSE taken
    /\ UNCHANGED <<stored, activeTx, context, attempt, fetching, lastSet, missed, txSets>>

\* The work of t throws: an outer transaction is rolled back, a nested one is
\* not, as the outer one does not even hear of it if it is none of its own.
TxThrow(t) ==
    /\ Working(t)
    /\ txState' = [txState EXCEPT ![t] = "err"]
    /\ activeTx' = IF EndsContext(t) THEN ContextAfterFailure ELSE activeTx
    /\ UNCHANGED <<stored, context, attempt, taken, fetching, lastSet, missed, txSets>>

TxCommitted(t) ==
    /\ txState[t] = "commit"
    /\ stored' = [k \in TxKeys |-> IF taken[k] # Unset THEN taken[k] ELSE stored[k]]
    /\ txState' = [txState EXCEPT ![t] = "ok"]
    /\ activeTx' = Nobody
    /\ UNCHANGED <<context, attempt, taken, fetching, lastSet, missed, txSets>>

\* Plausible bug: every attempt writes what the first one took.
TxTakes_First == taken

TxTakes == context.mutations

\* keyStore.set fails, having written some of the keys; the next attempt takes
\* the mutations as they are when the delay is over.
TxCommitFails(t) ==
    /\ txState[t] = "commit" /\ taken # NoKeys
    /\ \E part \in SUBSET {k \in TxKeys : taken[k] # Unset} :
          stored' = [k \in TxKeys |-> IF k \in part THEN taken[k] ELSE stored[k]]
    /\ attempt' = attempt + 1
    /\ txState' = [txState EXCEPT ![t] = IF attempt' = MaxCommitRetries THEN "failed" ELSE "sleep"]
    /\ activeTx' = IF attempt' = MaxCommitRetries THEN ContextAfterFailure ELSE activeTx
    /\ UNCHANGED <<context, taken, fetching, lastSet, missed, txSets>>

TxRetry(t) ==
    /\ txState[t] = "sleep"
    /\ txState' = [txState EXCEPT ![t] = "commit"]
    /\ taken' = TxTakes
    /\ missed' = {m \in missed : m[1][2] # t}
    /\ UNCHANGED <<stored, activeTx, context, attempt, fetching, lastSet, txSets>>

TxNext ==
    \/ \E t \in Txs : TxStart(t)
    \/ \E t \in Txs, k \in TxKeys : TxSet(t, k)
    \/ \E t \in Txs, k \in TxKeys : TxFetch(t, k)
    \/ \E f \in fetching : TxFetched(f)
    \/ \E t \in Txs : TxReturn(t)
    \/ \E t \in Txs : TxThrow(t)
    \/ \E t \in Txs : TxCommitted(t)
    \/ \E t \in Txs : TxCommitFails(t)
    \/ \E t \in Txs : TxRetry(t)

\* The commit goes on; nothing is assumed of the work of a transaction.
TxGoesOn == WF_txVars(\E t \in Txs : TxCommitted(t) \/ TxCommitFails(t) \/ TxRetry(t))

TxSpec == TxInit /\ [][TxNext]_txVars /\ TxGoesOn
-----------------------------------------------------------------------------
\* Types, and: there is a context exactly as long as the outer transaction
\* that made it runs, so none is left behind for the whole process to write to.
TxTypeOK ==
    /\ stored \in [TxKeys -> TxValue] /\ lastSet \in [TxKeys -> TxValue] /\ taken \in [TxKeys -> TxValue]
    /\ context.cache \in [TxKeys -> TxValue] /\ context.mutations \in [TxKeys -> TxValue]
    /\ attempt \in 0..MaxCommitRetries
    /\ \A t \in Txs : txState[t] \in {"outer", "commit", "sleep"} <=> activeTx = t

\* Nothing that was set in a context is in the store before the work of its
\* outer transaction has returned, whoever set it; and nothing ever is when
\* that work threw.
NothingEarly ==
    \A k \in TxKeys : stored[k] # Unset /\ stored[k][2] # Nobody =>
        txState[stored[k][2]] \in {"commit", "sleep", "failed", "ok"}

\* What was set last is in the store once no context holds it back, unless the
\* transaction failed, or the set came while the mutations were being written:
\* then it is in no attempt.
LastSetStored ==
    \A k \in TxKeys : lastSet[k] # Unset =>
        LET c == lastSet[k][2]
        IN c = Nobody \/ txState[c] = "ok" => stored[k] = lastSet[k] \/ <<lastSet[k], k>> \in missed

\* A transaction is all or nothing, also for those that share its context.
AllOrNothing == NothingEarly /\ LastSetStored

\* A commit ends, so that the sets of the process are not held back for good.
CommitEnds == (\E t \in Txs : txState[t] \in {"commit", "sleep"}) ~> activeTx = Nobody
=============================================================================
