----------------------------- MODULE KeyedMutex -----------------------------
(***************************************************************************)
(* lib/generics.js makeMutex and makeKeyedMutex: each key has one mutex,   *)
(* and a mutex is nothing but the promise of the last task handed to it.   *)
(* A task first awaits the promise that was the last one when it was       *)
(* handed over, swallows its rejection, and then runs.                     *)
(***************************************************************************)
EXTENDS Naturals, Sequences, FiniteSets

CONSTANTS Tasks, Keys, KeyOf

ASSUME KeyedMutexAssumption == KeyOf \in [Tasks -> Keys]

VARIABLES chain,   \* chain[b]: the promises of mutex b in creation order
          phase    \* phase[j]: "new", "awaiting", "running" or its outcome

mutexVars == <<chain, phase>>

Settled == {"ok", "err"}

MutexInit ==
    /\ chain = [b \in Keys |-> <<>>]
    /\ phase = [j \in Tasks |-> "new"]

\* mutex(key, code): the new promise replaces the last one.
Call(j) ==
    /\ phase[j] = "new"
    /\ phase' = [phase EXCEPT ![j] = "awaiting"]
    /\ chain' = [chain EXCEPT ![KeyOf[j]] = Append(@, j)]

\* Plausible bug: every task waits for the first one only.
PredecessorSettled_First(b, i) == i > 1 => phase[chain[b][1]] \in Settled

\* The awaited promise: Promise.resolve() for the first task of a mutex.
PredecessorSettled(b, i) ==
    \A k \in DOMAIN chain[b] : k + 1 = i => phase[chain[b][k]] \in Settled

\* try { await task; } catch {}, then code() starts.
Enter(b, i) ==
    /\ phase[chain[b][i]] = "awaiting"
    /\ PredecessorSettled(b, i)
    /\ phase' = [phase EXCEPT ![chain[b][i]] = "running"]
    /\ UNCHANGED chain

\* code() returns or throws; the task's promise takes its outcome.
Leave(b, i, out) ==
    /\ phase[chain[b][i]] = "running"
    /\ phase' = [phase EXCEPT ![chain[b][i]] = out]
    /\ UNCHANGED chain

MutexNext ==
    \/ \E j \in Tasks : Call(j)
    \/ \E b \in Keys : \E i \in DOMAIN chain[b] : Enter(b, i)
    \/ \E b \in Keys, out \in Settled : \E i \in DOMAIN chain[b] : Leave(b, i, out)

\* Microtasks run, and the library's critical sections settle.
TasksRun ==
    \A b \in Keys :
        /\ WF_mutexVars(\E i \in DOMAIN chain[b] : Enter(b, i))
        /\ WF_mutexVars(\E out \in Settled : \E i \in DOMAIN chain[b] : Leave(b, i, out))

MutexSpec == MutexInit /\ [][MutexNext]_mutexVars /\ TasksRun
-----------------------------------------------------------------------------
MutexTypeOK ==
    /\ chain \in [Keys -> Seq(Tasks)]
    /\ phase \in [Tasks -> {"new", "awaiting", "running"} \cup Settled]

\* A mutex's promises are those of its own tasks, each once, and exactly of
\* the tasks handed over so far.
ChainOK ==
    /\ \A b \in Keys : \A i, k \in DOMAIN chain[b] :
          /\ KeyOf[chain[b][i]] = b
          /\ phase[chain[b][i]] # "new"
          /\ chain[b][i] = chain[b][k] => i = k
    /\ \A j \in Tasks : phase[j] # "new" =>
          \E i \in DOMAIN chain[KeyOf[j]] : chain[KeyOf[j]][i] = j

\* While a task is not settled, no later task of its key has begun.
InOrder ==
    \A b \in Keys : \A i, k \in DOMAIN chain[b] :
        i < k /\ phase[chain[b][i]] \notin Settled => phase[chain[b][k]] = "awaiting"

MutexInv == MutexTypeOK /\ ChainOK /\ InOrder

\* Two critical sections of one key never overlap: assertSessions, the
\* session operations of a JID and the incoming-message handlers rely on it.
MutualExclusion ==
    \A j, k \in Tasks :
        KeyOf[j] = KeyOf[k] /\ phase[j] = "running" /\ phase[k] = "running" => j = k

\* What is not settled of a chain is behind what is.
SettledOf(b) == Cardinality({i \in DOMAIN chain[b] : phase[chain[b][i]] \in Settled})

mutexLine == [b \in Keys |-> SubSeq(chain[b], SettledOf(b) + 1, Len(chain[b]))]
mutexBegun == {b \in Keys : \E i \in DOMAIN chain[b] : phase[chain[b][i]] = "running"}
mutexOutcome == [j \in Tasks |-> IF phase[j] \in {"awaiting", "running"} THEN "waiting" ELSE phase[j]]

MutexSerial == INSTANCE SerialExecutor
    WITH Jobs <- Tasks, Buckets <- Keys, BucketOf <- KeyOf,
         line <- mutexLine, begun <- mutexBegun, outcome <- mutexOutcome

\* The critical sections of one key exclude one another and run in the order
\* of the calls: the promise chain is a serial executor.
MutexSerialises == MutexSerial!SerialSpec
=============================================================================
