------------------------------ MODULE JobQueue ------------------------------
(***************************************************************************)
(* signal/queue_job.js: every Signal session operation of an address is a  *)
(* job of that address's bucket.  A bucket's first job starts an executor, *)
(* which walks the bucket's array, discards the jobs it has done every     *)
(* _gcLimit of them, and removes the bucket when it reaches the end.       *)
(* JavaScript runs everything between two awaits at once, so an action is  *)
(* what happens from one settled job to the start of the next.             *)
(***************************************************************************)
EXTENDS Integers, Sequences

CONSTANTS Jobs, Buckets, BucketOf,
          GcLimit    \* _gcLimit: 10000 in the code

ASSUME JobQueueAssumption ==
    /\ BucketOf \in [Jobs -> Buckets]
    /\ GcLimit \in Nat \ {0}

VARIABLES active,    \* the keys of _queueAsyncBuckets
          queue,     \* queue[b]: the array of b, done jobs included
          limit,     \* limit[b]: how far the executor's inner loop goes
          pos,       \* pos[b]: the loop index i, counted from 0
          state      \* state[j]: "new", "waiting", or the job's outcome

queueVars == <<active, queue, limit, pos, state>>

Outcomes == {"ok", "err"}

Lesser(a, b) == IF a < b THEN a ELSE b

QueueInit ==
    /\ active = {}
    /\ queue = [b \in Buckets |-> <<>>]
    /\ limit = [b \in Buckets |-> 0]
    /\ pos = [b \in Buckets |-> 0]
    /\ state = [j \in Jobs |-> "new"]

\* queueJob on a bucket with no executor: the executor starts and runs the
\* job up to its first await before queueJob returns.
SubmitIdle(j) ==
    LET b == BucketOf[j] IN
    /\ state[j] = "new"
    /\ b \notin active
    /\ state' = [state EXCEPT ![j] = "waiting"]
    /\ active' = active \cup {b}
    /\ queue' = [queue EXCEPT ![b] = <<j>>]
    /\ limit' = [limit EXCEPT ![b] = Lesser(1, GcLimit)]
    /\ pos' = [pos EXCEPT ![b] = 0]

\* Plausible bug: a job that arrives late is put in front of the others.
SubmitBusy_InFront(j) ==
    LET b == BucketOf[j] IN
    /\ state[j] = "new"
    /\ b \in active
    /\ state' = [state EXCEPT ![j] = "waiting"]
    /\ queue' = [queue EXCEPT ![b] = SubSeq(@, 1, pos[b] + 1) \o <<j>> \o SubSeq(@, pos[b] + 2, Len(@))]
    /\ UNCHANGED <<active, limit, pos>>

\* queueJob on a bucket whose executor is suspended in a job: push only.
SubmitBusy(j) ==
    LET b == BucketOf[j] IN
    /\ state[j] = "new"
    /\ b \in active
    /\ state' = [state EXCEPT ![j] = "waiting"]
    /\ queue' = [queue EXCEPT ![b] = Append(@, j)]
    /\ UNCHANGED <<active, limit, pos>>

\* The job the executor of b is suspended in.
Current(b) == queue[b][pos[b] + 1]

\* job.resolve or job.reject: either way the executor goes on.
SettleCurrent(b, out) ==
    /\ b \in active
    /\ state' = [state EXCEPT ![Current(b)] = out]

\* The inner loop has a next job.
StepWithin(b, out) ==
    /\ SettleCurrent(b, out)
    /\ pos[b] + 1 < limit[b]
    /\ pos' = [pos EXCEPT ![b] = @ + 1]
    /\ UNCHANGED <<active, queue, limit>>

\* The inner loop is over and jobs arrived meanwhile: go on after them.
StepFurther(b, out) ==
    /\ SettleCurrent(b, out)
    /\ pos[b] + 1 = limit[b]
    /\ limit[b] < Len(queue[b])
    /\ limit[b] < GcLimit
    /\ pos' = [pos EXCEPT ![b] = limit[b]]
    /\ limit' = [limit EXCEPT ![b] = Lesser(Len(queue[b]), GcLimit)]
    /\ UNCHANGED <<active, queue>>

\* Plausible bug: offt is not reset after the splice.
StepCollect_KeepsOffset(b, out) ==
    /\ SettleCurrent(b, out)
    /\ pos[b] + 1 = limit[b]
    /\ limit[b] + 1 < Len(queue[b])
    /\ limit[b] >= GcLimit
    /\ queue' = [queue EXCEPT ![b] = SubSeq(@, limit[b] + 1, Len(@))]
    /\ pos' = [pos EXCEPT ![b] = 1]
    /\ limit' = [limit EXCEPT ![b] = Lesser(Len(queue[b]) - limit[b], GcLimit)]
    /\ UNCHANGED active

\* The same with _gcLimit jobs done: splice them off and start over at 0.
StepCollect(b, out) ==
    /\ SettleCurrent(b, out)
    /\ pos[b] + 1 = limit[b]
    /\ limit[b] < Len(queue[b])
    /\ limit[b] >= GcLimit
    /\ queue' = [queue EXCEPT ![b] = SubSeq(@, limit[b] + 1, Len(@))]
    /\ pos' = [pos EXCEPT ![b] = 0]
    /\ limit' = [limit EXCEPT ![b] = Lesser(Len(queue[b]) - limit[b], GcLimit)]
    /\ UNCHANGED active

\* Nothing is left: cleanup() removes the bucket before anything else runs.
StepLast(b, out) ==
    /\ SettleCurrent(b, out)
    /\ pos[b] + 1 = limit[b]
    /\ limit[b] = Len(queue[b])
    /\ active' = active \ {b}
    /\ queue' = [queue EXCEPT ![b] = <<>>]
    /\ UNCHANGED <<limit, pos>>

Submit(j) == SubmitIdle(j) \/ SubmitBusy(j)

Settle(b, out) ==
    \/ StepWithin(b, out)
    \/ StepFurther(b, out)
    \/ StepCollect(b, out)
    \/ StepLast(b, out)

QueueNext ==
    \/ \E j \in Jobs : SubmitIdle(j)
    \/ \E j \in Jobs : SubmitBusy(j)
    \/ \E b \in Buckets, out \in Outcomes : StepWithin(b, out)
    \/ \E b \in Buckets, out \in Outcomes : StepFurther(b, out)
    \/ \E b \in Buckets, out \in Outcomes : StepCollect(b, out)
    \/ \E b \in Buckets, out \in Outcomes : StepLast(b, out)

\* A job is a storage or crypto call of the library: its promise settles.
JobsSettle == \A b \in Buckets : WF_queueVars(\E out \in Outcomes : Settle(b, out))

QueueSpec == QueueInit /\ [][QueueNext]_queueVars

QueueFairSpec == QueueSpec /\ JobsSettle
-----------------------------------------------------------------------------
QueueTypeOK ==
    /\ active \in SUBSET Buckets
    /\ queue \in [Buckets -> Seq(Jobs)]
    /\ limit \in [Buckets -> Nat]
    /\ pos \in [Buckets -> Nat]
    /\ state \in [Jobs -> {"new", "waiting"} \cup Outcomes]

\* The executor's window lies in its array and never exceeds the limit.
WindowOK ==
    \A b \in active :
        /\ pos[b] < limit[b]
        /\ limit[b] <= Len(queue[b])
        /\ limit[b] <= GcLimit

\* line[b]: the jobs of b that have not settled, the current one first.
line == [b \in Buckets |->
           IF b \in active THEN SubSeq(queue[b], pos[b] + 1, Len(queue[b])) ELSE <<>>]

\* A job ahead of an executor is one of its bucket, waits, and is there once.
LineOK ==
    \A b \in Buckets : \A i \in 1 .. Len(line[b]) :
        /\ BucketOf[line[b][i]] = b
        /\ state[line[b][i]] = "waiting"
        /\ \A k \in 1 .. Len(line[b]) : line[b][i] = line[b][k] => i = k

\* Every job that waits is ahead of its bucket's executor: the lazy
\* collection of done jobs never throws away one that was not run.
NoJobLost ==
    \A j \in Jobs : state[j] = "waiting" =>
        \E i \in 1 .. Len(line[BucketOf[j]]) : line[BucketOf[j]][i] = j

\* The inductive invariant behind the theorems of LocalProofs.
QueueInv == QueueTypeOK /\ WindowOK /\ LineOK /\ NoJobLost

\* Jobs of one bucket run one at a time and in the order of submission.
QueueSerial == INSTANCE SerialExecutor WITH line <- line, begun <- active, outcome <- state

QueueSerialises == QueueSerial!SerialSpec
=============================================================================
