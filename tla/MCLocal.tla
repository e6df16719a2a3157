------------------------------ MODULE MCLocal ------------------------------
(***************************************************************************)
(* The components that keep to themselves, side by side in one instance:   *)
(* the job queue, the keyed mutexes, the record of one device, the cache   *)
(* of retries, the mapping of phone numbers to LIDs.  A behaviour runs one *)
(* of them, "part", from its initial state, while the others stay in       *)
(* theirs.                                                                 *)
(***************************************************************************)
EXTENDS JobQueue, KeyedMutex, SessionStore, MessageRetry, LidMapping

CONSTANTS j1, j2, j3, j4, j5, alice, bob,   \* four jobs of alice, one of bob
          t1, t2, t3, t4, t5,               \* three tasks of alice, two of bob
          k1, k2, i1, i2,                   \* two messages to two chats
          o1, o2, o3, pa, pb, la, lb        \* three calls, two numbers, two LIDs

VARIABLE part

vars == <<part, queueVars, mutexVars, storeVars, retryVars, mapVars>>

MCBucketOf == [j \in Jobs |-> IF j = j5 THEN bob ELSE alice]
MCKeyOf == [j \in Tasks |-> IF j \in {t4, t5} THEN bob ELSE alice]
\* One number that gets another LID, and one LID that gets another number.
MCPairs == {<<pa, la>>, <<pa, lb>>, <<pb, la>>}
TwoIds == [k \in Messages |-> IF k = k1 THEN i1 ELSE i2]

Init ==
    /\ part \in {"queue", "mutex", "record", "retry", "mapping"}
    /\ QueueInit /\ MutexInit /\ StoreInit /\ RetryInit /\ MapInit
    /\ part = "mapping" \/ transacts

RunQueue  == part = "queue"  /\ QueueNext /\ UNCHANGED <<part, mutexVars, storeVars, retryVars, mapVars>>
RunMutex  == part = "mutex"  /\ MutexNext /\ UNCHANGED <<part, queueVars, storeVars, retryVars, mapVars>>
RunRecord == part = "record" /\ StoreNext /\ UNCHANGED <<part, queueVars, mutexVars, retryVars, mapVars>>
RunRetry  == part = "retry"  /\ RetryNext /\ UNCHANGED <<part, queueVars, mutexVars, storeVars, mapVars>>

\* Calls are alike, so they begin in one order.  Only the first has two pairs; the
\* third looks something up, and meets no call with two pairs.
RunMapping ==
    /\ part = "mapping" /\ MapNext /\ UNCHANGED <<part, queueVars, mutexVars, storeVars, retryVars>>
    /\ call'[o2].pc # "new" => call'[o1].pc # "new"
    /\ Len(call'[o2].pairs) < 2
    /\ call'[o3].pc # "new" =>
          /\ call'[o2].pc # "new" /\ call'[o3].kind # "store"
          /\ \A c \in MapCalls : Len(call'[c].pairs) < 2

Next == RunMapping \/ RunQueue \/ RunMutex \/ RunRecord \/ RunRetry

Spec == Init /\ [][Next]_vars /\ JobsSettle /\ TasksRun
=============================================================================
