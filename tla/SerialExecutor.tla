--------------------------- MODULE SerialExecutor ---------------------------
(***************************************************************************)
(* What whalib's two serialisers promise their callers: the tasks handed   *)
(* to one bucket (a Signal address, a JID, a mutex object) run one at a    *)
(* time, in the order they were handed over, each exactly once, and each   *)
(* caller gets the outcome of its own task.  JobQueue (signal/queue_job)   *)
(* and KeyedMutex (lib/generics) both implement this specification.        *)
(***************************************************************************)
EXTENDS Naturals, Sequences

CONSTANTS Jobs,      \* the tasks callers hand over
          Buckets,   \* the keys under which they are serialised
          BucketOf   \* the bucket each task is handed to

VARIABLES line,      \* line[b]: tasks of b not yet settled, oldest first
          begun,     \* the buckets whose oldest task has begun
          outcome    \* outcome[j]: how far task j is

serialVars == <<line, begun, outcome>>

Outcomes == {"ok", "err"}

SerialInit ==
    /\ line = [b \in Buckets |-> <<>>]
    /\ begun = {}
    /\ outcome = [j \in Jobs |-> "new"]

\* A task is handed over; on an idle bucket it may begin at once.
Hand(j) ==
    LET b == BucketOf[j] IN
    /\ outcome[j] = "new"
    /\ outcome' = [outcome EXCEPT ![j] = "waiting"]
    /\ line' = [line EXCEPT ![b] = Append(@, j)]
    /\ \/ begun' = begun
       \/ line[b] = <<>> /\ begun' = begun \cup {b}

\* The oldest task of a bucket begins.
Begin(b) ==
    /\ line[b] # <<>>
    /\ b \notin begun
    /\ begun' = begun \cup {b}
    /\ UNCHANGED <<line, outcome>>

\* The running task settles; the next one may begin in the same step.
Finish(b, out) ==
    /\ b \in begun
    /\ line[b] # <<>>
    /\ outcome' = [outcome EXCEPT ![Head(line[b])] = out]
    /\ line' = [line EXCEPT ![b] = Tail(@)]
    /\ \/ begun' = begun \ {b}
       \/ Tail(line[b]) # <<>> /\ begun' = begun

SerialNext ==
    \/ \E j \in Jobs : Hand(j)
    \/ \E b \in Buckets : Begin(b)
    \/ \E b \in Buckets, out \in Outcomes : Finish(b, out)

SerialSafety == SerialInit /\ [][SerialNext]_serialVars

SerialSpec ==
    /\ SerialSafety
    /\ \A b \in Buckets :
          /\ WF_serialVars(Begin(b))
          /\ WF_serialVars(\E out \in Outcomes : Finish(b, out))
=============================================================================
