------------------------------ MODULE LocalProofs ------------------------------
(***************************************************************************)
(* What holds of the components that keep to themselves, for every value   *)
(* of their constants; MCLocal checks the same ones.                       *)
(*   The executor of signal/queue_job.js loses no job and serialises the   *)
(* jobs of a bucket, for any jobs, buckets and collection limit.           *)
(*   The promise chain of lib/generics.js makeMutex excludes the critical  *)
(* sections of a key from one another and serialises its tasks, for any    *)
(* tasks and keys.                                                         *)
(*   The record of a device never becomes corrupt, at most its newest      *)
(* session is open, and its ClosedMax newest sessions are kept, for every  *)
(* limit and every clock.                                                  *)
(*   The bound on resends and the consistency of cache, index and counters *)
(* of MessageRetry, for every cache size, limit and pair of lifetimes of   *)
(* which the counter's is the longer.                                      *)
(*   The mappings of numbers and LIDs follow what was stored, for any calls*)
(* that run at once.                                                       *)
(***************************************************************************)
EXTENDS JobQueue, KeyedMutex, SessionStore, MessageRetry, LidMapping,
        WellFoundedInduction, NaturalsInduction, FiniteSetTheorems, SequenceTheorems, TLAPS

-----------------------------------------------------------------------------
(* The job queue. *)

LEMMA LesserBound ==
    ASSUME NEW a \in Nat \ {0}, NEW b \in Nat \ {0}
    PROVE  /\ Lesser(a, b) \in Nat \ {0}
           /\ Lesser(a, b) <= a
           /\ Lesser(a, b) <= b
BY DEF Lesser

(* What is left of an array from index p on, and what the executor does to *)
(* it: go to the next index, or have a job pushed behind it.               *)
Rest(s, p) == SubSeq(s, p + 1, Len(s))

LEMMA RestElements ==
    ASSUME NEW S, NEW s \in Seq(S), NEW p \in 0 .. Len(s)
    PROVE  /\ Rest(s, p) \in Seq(S)
           /\ Len(Rest(s, p)) = Len(s) - p
           /\ \A i \in 1 .. Len(s) - p : Rest(s, p)[i] = s[p + i]
<1>1. \A i \in p + 1 .. Len(s) : s[i] \in S
  BY ElementOfSeq
<1>2. p + 1 \in Int /\ Len(s) \in Int /\ p \in Int
  BY LenProperties
<1>3. /\ Rest(s, p) \in Seq(S)
      /\ Len(Rest(s, p)) = IF p + 1 <= Len(s) THEN Len(s) - (p + 1) + 1 ELSE 0
      /\ \A i \in 1 .. Len(s) - (p + 1) + 1 : Rest(s, p)[i] = s[(p + 1) + i - 1]
  BY <1>1, <1>2, SubSeqProperties DEF Rest
<1> QED BY <1>2, <1>3

LEMMA RestTail ==
    ASSUME NEW S, NEW s \in Seq(S), NEW p \in Nat, p < Len(s)
    PROVE  /\ Rest(s, p) \in Seq(S)
           /\ Rest(s, p) # <<>>
           /\ Head(Rest(s, p)) = s[p + 1]
           /\ Tail(Rest(s, p)) = Rest(s, p + 1)
           /\ Tail(Rest(s, p)) = <<>> <=> p + 1 = Len(s)
<1>1. p \in 0 .. Len(s) /\ p + 1 \in 0 .. Len(s) /\ p + 1 \in 1 .. Len(s) /\ Len(s) \in p + 1 .. Len(s)
  BY LenProperties
<1>2. Head(Rest(s, p)) = s[p + 1] /\ Tail(Rest(s, p)) = Rest(s, p + 1)
  BY <1>1, HeadTailOfSubSeq DEF Rest
<1>3. /\ Rest(s, p) \in Seq(S) /\ Len(Rest(s, p)) = Len(s) - p
      /\ Rest(s, p + 1) \in Seq(S) /\ Len(Rest(s, p + 1)) = Len(s) - (p + 1)
  BY <1>1, RestElements
<1>4. Rest(s, p + 1) = <<>> <=> Len(Rest(s, p + 1)) = 0
  BY <1>3, EmptySeq
<1>5. Len(Rest(s, p)) # 0 /\ (Rest(s, p + 1) = <<>> <=> p + 1 = Len(s))
  BY <1>1, <1>3, <1>4
<1>6. Rest(s, p) # <<>>
  BY <1>5
<1> QED BY <1>2, <1>3, <1>5, <1>6

LEMMA RestAppend ==
    ASSUME NEW S, NEW s \in Seq(S), NEW p \in Nat, p < Len(s), NEW e \in S
    PROVE  Rest(Append(s, e), p) = Append(Rest(s, p), e)
<1> DEFINE a == Append(s, e)
           r == Rest(s, p)
<1>1. /\ a \in Seq(S) /\ Len(a) = Len(s) + 1 /\ Len(s) \in Nat
      /\ a[Len(s) + 1] = e /\ \A i \in 1 .. Len(s) : a[i] = s[i]
  BY AppendProperties, LenProperties
<1>0. p \in 0 .. Len(s) /\ p \in 0 .. Len(a)
  BY <1>1
<1>2. /\ r \in Seq(S) /\ Len(r) = Len(s) - p
      /\ \A i \in 1 .. Len(s) - p : r[i] = s[p + i]
  BY <1>0, RestElements
<1>3. /\ Rest(a, p) \in Seq(S) /\ Len(Rest(a, p)) = Len(s) + 1 - p
      /\ \A i \in 1 .. Len(s) + 1 - p : Rest(a, p)[i] = a[p + i]
  <2> HIDE DEF a
  <2>1. /\ Rest(a, p) \in Seq(S) /\ Len(Rest(a, p)) = Len(a) - p
        /\ \A i \in 1 .. Len(a) - p : Rest(a, p)[i] = a[p + i]
    BY <1>0, <1>1, RestElements
  <2> QED BY <1>1, <2>1
<1>4. /\ Append(r, e) \in Seq(S) /\ Len(Append(r, e)) = Len(s) - p + 1
      /\ Append(r, e)[Len(s) - p + 1] = e
      /\ \A i \in 1 .. Len(s) - p : Append(r, e)[i] = r[i]
  BY <1>2, AppendProperties
<1>5. ASSUME NEW i \in 1 .. Len(s) + 1 - p
      PROVE  Rest(a, p)[i] = Append(r, e)[i]
  <2>1. CASE i = Len(s) + 1 - p
    <3>1. p + i = Len(s) + 1 /\ i = Len(s) - p + 1
      BY <1>1, <2>1
    <3>2. Rest(a, p)[i] = a[p + i]
      BY <1>3
    <3> QED BY <1>1, <1>4, <3>1, <3>2
  <2>2. CASE i # Len(s) + 1 - p
    <3>1. i \in 1 .. Len(s) - p /\ p + i \in 1 .. Len(s)
      BY <1>1, <2>2
    <3> QED BY <1>1, <1>2, <1>3, <1>4, <3>1
  <2> QED BY <2>1, <2>2
<1> HIDE DEF a, r
<1>6. Rest(a, p) = Append(r, e)
  <2> DEFINE x == Rest(a, p)
             y == Append(r, e)
  <2>1. Len(x) = Len(y)
    BY <1>1, <1>3, <1>4
  <2>2. x \in Seq(S) /\ y \in Seq(S) /\ \A i \in 1 .. Len(x) : x[i] = y[i]
    BY <1>3, <1>4, <1>5
  <2> HIDE DEF x, y
  <2>3. x = y
    BY <2>1, <2>2, SeqEqual
  <2> QED BY <2>3 DEF x, y
<1> QED BY <1>6 DEF a, r

LEMMA RestOfAll ==
    ASSUME NEW S, NEW s \in Seq(S)
    PROVE  Rest(s, 0) = s
BY SubSeqFull DEF Rest

LEMMA LineValue ==
    ASSUME NEW c \in Buckets
    PROVE  /\ line[c] = IF c \in active THEN Rest(queue[c], pos[c]) ELSE <<>>
           /\ line'[c] = IF c \in active' THEN Rest(queue'[c], pos'[c]) ELSE <<>>
BY DEF line, Rest

LEMMA LineType ==
    ASSUME QueueTypeOK, WindowOK
    PROVE  line \in [Buckets -> Seq(Jobs)]
<1> SUFFICES ASSUME NEW c \in Buckets PROVE line[c] \in Seq(Jobs)
  BY DEF line
<1>1. CASE c \in active
  <2>1. queue[c] \in Seq(Jobs) /\ pos[c] \in Nat /\ pos[c] < Len(queue[c])
    BY <1>1 DEF QueueTypeOK, WindowOK
  <2>2. Rest(queue[c], pos[c]) \in Seq(Jobs)
    BY <2>1, RestTail
  <2> QED BY <1>1, <2>2, LineValue
<1>2. CASE c \notin active
  BY <1>2, LineValue, EmptySeq
<1> QED BY <1>1, <1>2

(* A change of one bucket's line, told bucket by bucket.                   *)
LEMMA LineChange ==
    ASSUME NEW b \in Buckets, NEW v, line'[b] = v,
           \A c \in Buckets : c # b => line'[c] = line[c]
    PROVE  line' = [line EXCEPT ![b] = v]
BY DEF line

(* queueJob appends the job to its bucket's line and touches no other.     *)
LEMMA SubmitLine ==
    ASSUME QueueTypeOK, WindowOK, NEW j \in Jobs, Submit(j)
    PROVE  /\ QueueTypeOK' /\ WindowOK'
           /\ state[j] = "new"
           /\ state' = [state EXCEPT ![j] = "waiting"]
           /\ line' = [line EXCEPT ![BucketOf[j]] = Append(@, j)]
           /\ active' = active \cup {BucketOf[j]}
<1> DEFINE b == BucketOf[j]
<1>1. b \in Buckets /\ GcLimit \in Nat \ {0} /\ Lesser(1, GcLimit) = 1
  BY JobQueueAssumption DEF Lesser
<1>2. CASE SubmitIdle(j)
  <2>1. QueueTypeOK' /\ WindowOK'
    <3>1. QueueTypeOK'
      BY <1>1, <1>2 DEF QueueTypeOK, WindowOK, SubmitIdle
    <3>2. WindowOK'
      BY <1>1, <1>2 DEF QueueTypeOK, WindowOK, SubmitIdle
    <3> QED BY <3>1, <3>2
  <2>2. line'[b] = Append(line[b], j)
    <3>1. b \notin active /\ b \in active' /\ queue'[b] = <<j>> /\ pos'[b] = 0
      BY <1>1, <1>2 DEF QueueTypeOK, SubmitIdle
    <3>2. line[b] = <<>> /\ line'[b] = Rest(<<j>>, 0)
      BY <3>1, <1>1, LineValue
    <3>3. <<j>> \in Seq(Jobs) /\ Append(<<>>, j) = <<j>>
      OBVIOUS
    <3>4. Rest(<<j>>, 0) = <<j>>
      BY <3>3, RestOfAll
    <3> QED BY <3>2, <3>3, <3>4
  <2>3. ASSUME NEW c \in Buckets, c # b PROVE line'[c] = line[c]
    BY <1>1, <1>2, <2>3, LineValue DEF QueueTypeOK, SubmitIdle
  <2>4. line' = [line EXCEPT ![b] = Append(@, j)]
    BY <2>2, <2>3, <1>1, LineChange
  <2> QED BY <1>2, <2>1, <2>4 DEF SubmitIdle
<1>3. CASE SubmitBusy(j)
  <2>1. QueueTypeOK' /\ WindowOK'
    <3>1. QueueTypeOK'
      BY <1>1, <1>3 DEF QueueTypeOK, WindowOK, SubmitBusy
    <3>2. WindowOK'
      BY <1>1, <1>3 DEF QueueTypeOK, WindowOK, SubmitBusy
    <3> QED BY <3>1, <3>2
  <2>2. line'[b] = Append(line[b], j)
    <3>1. queue[b] \in Seq(Jobs) /\ pos[b] \in Nat /\ pos[b] < Len(queue[b])
      BY <1>1, <1>3 DEF QueueTypeOK, WindowOK, SubmitBusy
    <3>2. queue'[b] = Append(queue[b], j) /\ pos'[b] = pos[b] /\ b \in active /\ b \in active'
          /\ Len(queue'[b]) = Len(queue[b]) + 1
      BY <1>1, <1>3 DEF QueueTypeOK, SubmitBusy
    <3>3. Rest(Append(queue[b], j), pos[b]) = Append(Rest(queue[b], pos[b]), j)
      BY <3>1, RestAppend
    <3>4. line[b] = Rest(queue[b], pos[b]) /\ line'[b] = Rest(queue'[b], pos'[b])
      BY <3>2, <1>1, LineValue
    <3> QED BY <3>2, <3>3, <3>4
  <2>3. ASSUME NEW c \in Buckets, c # b PROVE line'[c] = line[c]
    BY <1>1, <1>3, <2>3, LineValue DEF QueueTypeOK, SubmitBusy
  <2>4. line' = [line EXCEPT ![b] = Append(@, j)]
    BY <2>2, <2>3, <1>1, LineChange
  <2> QED BY <1>3, <2>1, <2>4 DEF SubmitBusy
<1> QED BY <1>2, <1>3 DEF Submit

(* The current job is the oldest one of the line.                          *)
LEMMA CurrentIsHead ==
    ASSUME QueueTypeOK, WindowOK, NEW b \in active
    PROVE  /\ b \in Buckets
           /\ pos[b] + 1 \in 1 .. Len(queue[b])
           /\ line[b] = Rest(queue[b], pos[b])
           /\ line[b] \in Seq(Jobs) /\ line[b] # <<>>
           /\ Head(line[b]) = Current(b)
           /\ Tail(line[b]) = Rest(queue[b], pos[b] + 1)
           /\ Tail(line[b]) = <<>> <=> pos[b] + 1 = Len(queue[b])
<1>1. /\ b \in Buckets /\ queue[b] \in Seq(Jobs)
      /\ pos[b] \in Nat /\ limit[b] \in Nat
      /\ pos[b] < Len(queue[b])
  BY DEF QueueTypeOK, WindowOK
<1>2. line[b] = Rest(queue[b], pos[b])
  BY <1>1, LineValue
<1>3. /\ Rest(queue[b], pos[b]) \in Seq(Jobs) /\ Rest(queue[b], pos[b]) # <<>>
      /\ Head(Rest(queue[b], pos[b])) = queue[b][pos[b] + 1]
      /\ Tail(Rest(queue[b], pos[b])) = Rest(queue[b], pos[b] + 1)
      /\ Tail(Rest(queue[b], pos[b])) = <<>> <=> pos[b] + 1 = Len(queue[b])
  BY <1>1, RestTail
<1> QED BY <1>1, <1>2, <1>3 DEF Current

(* Every way the executor goes on drops the settled job from its line.     *)
LEMMA SettleLine ==
    ASSUME QueueTypeOK, WindowOK, NEW b \in Buckets, NEW out \in Outcomes, Settle(b, out)
    PROVE  /\ QueueTypeOK' /\ WindowOK'
           /\ b \in active
           /\ state' = [state EXCEPT ![Head(line[b])] = out]
           /\ line' = [line EXCEPT ![b] = Tail(@)]
           /\ active' = IF Tail(line[b]) = <<>> THEN active \ {b} ELSE active
<1>1. b \in active /\ state' = [state EXCEPT ![Current(b)] = out]
  BY DEF Settle, StepWithin, StepFurther, StepCollect, StepLast, SettleCurrent
<1>2. /\ pos[b] + 1 \in 1 .. Len(queue[b]) /\ queue[b] \in Seq(Jobs)
      /\ pos[b] \in Nat /\ limit[b] \in Nat /\ limit[b] <= Len(queue[b])
      /\ pos[b] < limit[b] /\ limit[b] <= GcLimit /\ GcLimit \in Nat \ {0}
      /\ Head(line[b]) = Current(b) /\ Current(b) \in Jobs
      /\ Tail(line[b]) = Rest(queue[b], pos[b] + 1)
      /\ Tail(line[b]) = <<>> <=> pos[b] + 1 = Len(queue[b])
  <2>1. /\ b \in Buckets
        /\ pos[b] + 1 \in 1 .. Len(queue[b])
        /\ Head(line[b]) = Current(b)
        /\ Tail(line[b]) = Rest(queue[b], pos[b] + 1)
        /\ Tail(line[b]) = <<>> <=> pos[b] + 1 = Len(queue[b])
    BY <1>1, CurrentIsHead
  <2>2. /\ queue[b] \in Seq(Jobs) /\ pos[b] \in Nat /\ limit[b] \in Nat
        /\ limit[b] <= Len(queue[b]) /\ pos[b] < limit[b] /\ limit[b] <= GcLimit
    BY <1>1 DEF QueueTypeOK, WindowOK
  <2>3. Len(queue[b]) \in Nat /\ queue[b][pos[b] + 1] \in Jobs
    BY <2>1, <2>2, LenProperties, ElementOfSeq
  <2> QED BY <2>1, <2>2, <2>3, JobQueueAssumption DEF Current
<1>3. state' \in [Jobs -> {"new", "waiting"} \cup Outcomes]
  BY <1>1, <1>2 DEF QueueTypeOK
<1>4. SUFFICES /\ QueueTypeOK' /\ WindowOK'
               /\ line'[b] = Tail(line[b])
               /\ \A c \in Buckets : c # b => line'[c] = line[c]
               /\ active' = IF Tail(line[b]) = <<>> THEN active \ {b} ELSE active
  BY <1>1, <1>2, LineChange
<1>5. CASE StepWithin(b, out)
  <2>1. QueueTypeOK' /\ WindowOK'
    <3>1. QueueTypeOK'
      BY <1>1, <1>2, <1>3, <1>5 DEF QueueTypeOK, WindowOK, StepWithin
    <3>2. WindowOK'
      BY <1>1, <1>2, <1>3, <1>5 DEF QueueTypeOK, WindowOK, StepWithin
    <3> QED BY <3>1, <3>2
  <2>2. /\ active' = active /\ queue' = queue
        /\ pos'[b] = pos[b] + 1 /\ \A c \in Buckets : c # b => pos'[c] = pos[c]
    BY <1>5 DEF StepWithin, QueueTypeOK
  <2>3. line'[b] = Tail(line[b])
    BY <1>1, <1>2, <2>2, LineValue
  <2>4. \A c \in Buckets : c # b => line'[c] = line[c]
    BY <2>2, LineValue
  <2>5. Tail(line[b]) # <<>>
    BY <1>2, <1>5 DEF StepWithin
  <2> QED BY <2>1, <2>2, <2>3, <2>4, <2>5
<1>6. CASE StepFurther(b, out)
  <2>1. QueueTypeOK' /\ WindowOK'
    <3> DEFINE new == Lesser(Len(queue[b]), GcLimit)
    <3>1. Len(queue[b]) \in Nat \ {0} /\ new \in Nat \ {0}
          /\ new <= Len(queue[b]) /\ new <= GcLimit
      <4>1. Len(queue[b]) \in Nat /\ Len(queue[b]) # 0
        BY <1>2, LenProperties
      <4> QED BY <1>2, <4>1, LesserBound
    <3>2. limit[b] < new
      BY <1>2, <1>6 DEF StepFurther, Lesser
    <3>3. limit' = [limit EXCEPT ![b] = new] /\ pos' = [pos EXCEPT ![b] = limit[b]]
          /\ active' = active /\ queue' = queue
      BY <1>6 DEF StepFurther
    <3> HIDE DEF new
    <3>4. QueueTypeOK'
      BY <1>2, <1>3, <3>1, <3>3 DEF QueueTypeOK
    <3>5. WindowOK'
      BY <1>2, <3>1, <3>2, <3>3 DEF QueueTypeOK, WindowOK
    <3> QED BY <3>4, <3>5
  <2>2. /\ active' = active /\ queue' = queue
        /\ pos'[b] = pos[b] + 1 /\ \A c \in Buckets : c # b => pos'[c] = pos[c]
    BY <1>2, <1>6 DEF StepFurther, QueueTypeOK
  <2>3. line'[b] = Tail(line[b])
    BY <1>1, <1>2, <2>2, LineValue
  <2>4. \A c \in Buckets : c # b => line'[c] = line[c]
    BY <2>2, LineValue
  <2>5. Tail(line[b]) # <<>>
    BY <1>2, <1>6 DEF StepFurther
  <2> QED BY <2>1, <2>2, <2>3, <2>4, <2>5
<1>7. CASE StepCollect(b, out)
  <2> DEFINE rest == Rest(queue[b], limit[b])
  <2>1. /\ rest \in Seq(Jobs) /\ Len(rest) = Len(queue[b]) - limit[b]
        /\ Len(rest) \in Nat \ {0}
        /\ Rest(rest, 0) = rest
    <3>1. limit[b] \in 0 .. Len(queue[b]) /\ limit[b] < Len(queue[b])
      BY <1>2, <1>7 DEF StepCollect
    <3>2. rest \in Seq(Jobs) /\ Len(rest) = Len(queue[b]) - limit[b]
      BY <1>2, <3>1, RestElements
    <3> QED BY <1>2, <3>1, <3>2, RestOfAll
  <2>2. queue' = [queue EXCEPT ![b] = rest]
        /\ limit' = [limit EXCEPT ![b] = Lesser(Len(rest), GcLimit)]
        /\ pos' = [pos EXCEPT ![b] = 0] /\ active' = active
    BY <2>1, <1>7 DEF StepCollect, QueueTypeOK, Rest
  <2>3. QueueTypeOK' /\ WindowOK'
    <3> DEFINE new == Lesser(Len(rest), GcLimit)
    <3>1. new \in Nat \ {0} /\ new <= Len(rest) /\ new <= GcLimit
      BY <1>2, <2>1, LesserBound
    <3> HIDE DEF new, rest
    <3>2. limit' = [limit EXCEPT ![b] = new]
      BY <2>2 DEF new
    <3>3. QueueTypeOK'
      BY <1>2, <1>3, <2>1, <2>2, <3>1, <3>2 DEF QueueTypeOK
    <3>4. WindowOK'
      BY <1>2, <2>1, <2>2, <3>1, <3>2 DEF QueueTypeOK, WindowOK
    <3> QED BY <3>3, <3>4
  <2>4. line'[b] = Tail(line[b])
    BY <1>1, <1>2, <1>7, <2>1, <2>2, LineValue DEF QueueTypeOK, StepCollect
  <2>5. \A c \in Buckets : c # b => line'[c] = line[c]
    BY <2>2, LineValue DEF QueueTypeOK
  <2> QED BY <2>2, <2>3, <2>4, <2>5, <1>2, <1>7 DEF StepCollect
<1>8. CASE StepLast(b, out)
  <2>1. QueueTypeOK' /\ WindowOK'
    <3>1. QueueTypeOK'
      BY <1>1, <1>2, <1>3, <1>8 DEF QueueTypeOK, WindowOK, StepLast
    <3>2. WindowOK'
      BY <1>1, <1>2, <1>3, <1>8 DEF QueueTypeOK, WindowOK, StepLast
    <3> QED BY <3>1, <3>2
  <2>2. /\ active' = active \ {b} /\ Tail(line[b]) = <<>>
        /\ \A c \in Buckets : c # b => queue'[c] = queue[c] /\ pos'[c] = pos[c]
    BY <1>2, <1>8 DEF StepLast, QueueTypeOK
  <2>3. line'[b] = Tail(line[b])
    BY <1>1, <1>2, <2>2, LineValue
  <2>4. \A c \in Buckets : c # b => line'[c] = line[c]
    BY <2>2, LineValue
  <2> QED BY <2>1, <2>2, <2>3, <2>4
<1> QED BY <1>5, <1>6, <1>7, <1>8 DEF Settle

LEMMA QueueInitInd == QueueInit => QueueInv
BY JobQueueAssumption
   DEF QueueInit, QueueInv, QueueTypeOK, WindowOK, LineOK, NoJobLost, line, Outcomes

LEMMA SubmitInd ==
    ASSUME QueueInv, NEW j \in Jobs, Submit(j)
    PROVE  QueueInv'
<1> DEFINE b == BucketOf[j]
<1>1. /\ QueueTypeOK' /\ WindowOK' /\ state[j] = "new"
      /\ state' = [state EXCEPT ![j] = "waiting"]
      /\ line' = [line EXCEPT ![b] = Append(@, j)]
  BY SubmitLine DEF QueueInv
<1>2. b \in Buckets /\ line \in [Buckets -> Seq(Jobs)]
  BY JobQueueAssumption, LineType DEF QueueInv
<1>3. /\ Len(line'[b]) = Len(line[b]) + 1 /\ line'[b][Len(line[b]) + 1] = j
      /\ \A i \in 1 .. Len(line[b]) : line'[b][i] = line[b][i]
      /\ \A c \in Buckets : c # b => line'[c] = line[c]
  BY <1>1, <1>2, AppendProperties
<1>4. LineOK'
  <2> SUFFICES ASSUME NEW c \in Buckets, NEW i \in 1 .. Len(line'[c])
               PROVE  /\ BucketOf[line'[c][i]] = c
                      /\ state'[line'[c][i]] = "waiting"
                      /\ \A k \in 1 .. Len(line'[c]) : line'[c][i] = line'[c][k] => i = k
    BY DEF LineOK
  <2>1. \A d \in Buckets : \A k \in 1 .. Len(line[d]) : line[d][k] # j /\ line[d][k] \in Jobs
    BY <1>1, <1>2, ElementOfSeq DEF QueueInv, LineOK
  <2>2. CASE c # b
    <3>1. line'[c] = line[c]
      BY <1>3, <2>2
    <3>2. /\ BucketOf[line[c][i]] = c /\ state[line[c][i]] = "waiting"
          /\ \A k \in 1 .. Len(line[c]) : line[c][i] = line[c][k] => i = k
      BY <3>1 DEF QueueInv, LineOK
    <3>3. state'[line[c][i]] = state[line[c][i]]
      BY <1>1, <2>1, <3>1 DEF QueueInv, QueueTypeOK
    <3> QED BY <3>1, <3>2, <3>3
  <2>3. CASE c = b
    <3>1. Len(line[b]) \in Nat
      BY <1>2, LenProperties
    <3>2. \A k \in 1 .. Len(line'[b]) : k = Len(line[b]) + 1 \/ k \in 1 .. Len(line[b])
      BY <1>3, <3>1
    <3> QED BY <1>1, <1>2, <1>3, <2>1, <2>3, <3>1, <3>2 DEF QueueInv, LineOK, QueueTypeOK
  <2> QED BY <2>2, <2>3
<1>5. NoJobLost'
  <2> SUFFICES ASSUME NEW k \in Jobs, state'[k] = "waiting"
               PROVE  \E i \in 1 .. Len(line'[BucketOf[k]]) : line'[BucketOf[k]][i] = k
    BY DEF NoJobLost
  <2>1. Len(line[b]) \in Nat /\ BucketOf[k] \in Buckets
    BY <1>2, LenProperties, JobQueueAssumption
  <2>2. CASE k = j
    BY <1>3, <2>1, <2>2
  <2>3. CASE k # j
    <3>1. state[k] = "waiting"
      BY <1>1, <2>3 DEF QueueInv, QueueTypeOK
    <3>2. PICK i \in 1 .. Len(line[BucketOf[k]]) : line[BucketOf[k]][i] = k
      BY <3>1 DEF QueueInv, NoJobLost
    <3> QED BY <1>3, <2>1, <3>2
  <2> QED BY <2>2, <2>3
<1> QED BY <1>1, <1>4, <1>5 DEF QueueInv

LEMMA SettleInd ==
    ASSUME QueueInv, NEW b \in Buckets, NEW out \in Outcomes, Settle(b, out)
    PROVE  QueueInv'
<1> DEFINE h == Head(line[b])
<1>1. /\ QueueTypeOK' /\ WindowOK' /\ b \in active
      /\ state' = [state EXCEPT ![h] = out]
      /\ line' = [line EXCEPT ![b] = Tail(@)]
  BY SettleLine DEF QueueInv
<1>2. line \in [Buckets -> Seq(Jobs)] /\ line[b] # <<>>
  BY <1>1, LineType, CurrentIsHead DEF QueueInv
<1>3. /\ Len(line[b]) \in Nat \ {0} /\ Len(line'[b]) = Len(line[b]) - 1
      /\ \A i \in 1 .. Len(line'[b]) : line'[b][i] = line[b][i + 1] /\ i + 1 \in 1 .. Len(line[b])
      /\ \A c \in Buckets : c # b => line'[c] = line[c]
      /\ h = line[b][1] /\ h \in Jobs
  <2>1. line'[b] = Tail(line[b]) /\ line[b] \in Seq(Jobs)
    BY <1>1, <1>2
  <2>2. Len(line[b]) \in Nat \ {0}
    BY <1>2, EmptySeq
  <2>3. /\ Len(Tail(line[b])) = Len(line[b]) - 1
        /\ \A i \in 1 .. Len(Tail(line[b])) : Tail(line[b])[i] = line[b][i + 1]
        /\ h \in Jobs
    BY <1>2, HeadTailProperties
  <2>4. h = line[b][1]
    BY <1>2
  <2>5. \A c \in Buckets : c # b => line'[c] = line[c]
    BY <1>1, <1>2
  <2> QED BY <2>1, <2>2, <2>3, <2>4, <2>5
<1>4. \A c \in Buckets : \A i \in 1 .. Len(line[c]) :
          /\ line[c][i] \in Jobs
          /\ line[c][i] = h => c = b /\ i = 1
  <2>1. BucketOf[h] = b
    BY <1>3 DEF QueueInv, LineOK
  <2> QED BY <1>2, <1>3, <2>1, ElementOfSeq DEF QueueInv, LineOK
<1> HIDE DEF h
<1>5. LineOK'
  <2> SUFFICES ASSUME NEW c \in Buckets, NEW i \in 1 .. Len(line'[c])
               PROVE  /\ BucketOf[line'[c][i]] = c
                      /\ state'[line'[c][i]] = "waiting"
                      /\ \A k \in 1 .. Len(line'[c]) : line'[c][i] = line'[c][k] => i = k
    BY DEF LineOK
  <2>1. CASE c # b
    <3>1. line'[c] = line[c]
      BY <1>3, <2>1
    <3>2. /\ BucketOf[line[c][i]] = c /\ state[line[c][i]] = "waiting"
          /\ \A k \in 1 .. Len(line[c]) : line[c][i] = line[c][k] => i = k
      BY <3>1 DEF QueueInv, LineOK
    <3>3. line[c][i] \in Jobs /\ line[c][i] # h
      BY <1>4, <2>1, <3>1
    <3>4. state'[line[c][i]] = state[line[c][i]]
      BY <1>1, <3>3 DEF QueueInv, QueueTypeOK
    <3> QED BY <3>1, <3>2, <3>4
  <2>2. CASE c = b
    <3>1. line'[b][i] = line[b][i + 1] /\ i + 1 \in 1 .. Len(line[b]) /\ i + 1 # 1
      <4>1. i \in 1 .. Len(line'[b])
        BY <2>2
      <4>2. line'[b][i] = line[b][i + 1]
        BY <1>3, <4>1
      <4>3. Len(line[b]) = Len(line'[b]) + 1 /\ Len(line[b]) \in Nat
        BY <1>3
      <4> QED BY <4>1, <4>2, <4>3
    <3>2. line[b][i + 1] \in Jobs /\ line[b][i + 1] # h
      BY <1>4, <3>1
    <3>3. state[line[b][i + 1]] = "waiting" /\ BucketOf[line[b][i + 1]] = b
      BY <3>1 DEF QueueInv, LineOK
    <3>4. state'[line'[b][i]] = "waiting" /\ BucketOf[line'[b][i]] = b
      BY <1>1, <3>1, <3>2, <3>3 DEF QueueInv, QueueTypeOK
    <3>5. ASSUME NEW k \in 1 .. Len(line'[b]), line'[b][i] = line'[b][k]
          PROVE  i = k
      <4>1. line[b][i + 1] = line[b][k + 1] /\ k + 1 \in 1 .. Len(line[b])
        BY <1>3, <3>1, <3>5
      <4>2. i + 1 = k + 1
        BY <3>1, <4>1 DEF QueueInv, LineOK
      <4> QED BY <2>2, <4>2
    <3> QED BY <2>2, <3>4, <3>5
  <2> QED BY <2>1, <2>2
<1>6. NoJobLost'
  <2> SUFFICES ASSUME NEW k \in Jobs, state'[k] = "waiting"
               PROVE  \E i \in 1 .. Len(line'[BucketOf[k]]) : line'[BucketOf[k]][i] = k
    BY DEF NoJobLost
  <2>1. k # h /\ state[k] = "waiting" /\ BucketOf[k] \in Buckets
    BY <1>1, <1>3, JobQueueAssumption DEF QueueInv, QueueTypeOK, Outcomes
  <2>2. PICK i \in 1 .. Len(line[BucketOf[k]]) : line[BucketOf[k]][i] = k
    BY <2>1 DEF QueueInv, NoJobLost
  <2>3. CASE BucketOf[k] # b
    BY <1>3, <2>1, <2>2, <2>3
  <2>4. CASE BucketOf[k] = b
    <3>1. i # 1 /\ i \in Nat
      BY <1>3, <2>1, <2>2, <2>4
    <3>2. i - 1 \in 1 .. Len(line'[b]) /\ line'[b][i - 1] = line[b][(i - 1) + 1] /\ (i - 1) + 1 = i
      BY <1>3, <2>2, <2>4, <3>1
    <3> QED BY <2>2, <2>4, <3>2
  <2> QED BY <2>3, <2>4
<1> QED BY <1>1, <1>5, <1>6 DEF QueueInv

(* QueueNext in terms of its two operations.                                    *)
LEMMA NextCases ==
    ASSUME QueueNext
    PROVE  \/ \E j \in Jobs : Submit(j)
           \/ \E b \in Buckets, out \in Outcomes : Settle(b, out)
BY DEF QueueNext, Submit, Settle

LEMMA StutterInd ==
    ASSUME QueueInv, UNCHANGED queueVars
    PROVE  QueueInv' /\ line' = line
<1>1. line' = line
  BY DEF queueVars, line
<1> QED BY <1>1 DEF QueueInv, QueueTypeOK, WindowOK, LineOK, NoJobLost, queueVars

(* The executor's bookkeeping (array, index, window) stays consistent with *)
(* the jobs that wait, for any number of jobs and any collection limit.    *)
THEOREM QueueConsistency == QueueSpec => []QueueInv
<1>1. QueueInv /\ [QueueNext]_queueVars => QueueInv'
  BY NextCases, SubmitInd, SettleInd, StutterInd
<1> QED BY QueueInitInd, <1>1, PTL DEF QueueSpec

(* queueJob never forgets a job, not even when it collects the done ones.  *)
THEOREM NoJobIsLost == QueueSpec => []NoJobLost
<1>1. QueueInv => NoJobLost
  BY DEF QueueInv
<1> QED BY QueueConsistency, <1>1, PTL

(* queueJob's executor serialises the jobs of a bucket in order.           *)
THEOREM SerialisesSafely == QueueSpec => QueueSerial!SerialSafety
<1>1. QueueInit => QueueSerial!SerialInit
  BY DEF QueueInit, QueueSerial!SerialInit, line
<1>2. ASSUME QueueInv, [QueueNext]_queueVars
      PROVE  [QueueSerial!SerialNext]_QueueSerial!serialVars
  <2>1. ASSUME NEW j \in Jobs, Submit(j) PROVE QueueSerial!Hand(j)
    <3> DEFINE b == BucketOf[j]
    <3>1. /\ state[j] = "new" /\ state' = [state EXCEPT ![j] = "waiting"]
          /\ line' = [line EXCEPT ![b] = Append(@, j)] /\ active' = active \cup {b}
      BY <1>2, <2>1, SubmitLine DEF QueueInv
    <3>2. active' = active \/ line[b] = <<>>
      BY <3>1, LineValue, JobQueueAssumption
    <3> QED BY <3>1, <3>2 DEF QueueSerial!Hand
  <2>2. ASSUME NEW b \in Buckets, NEW out \in Outcomes, Settle(b, out)
        PROVE  QueueSerial!Finish(b, out)
    <3>1. /\ b \in active /\ state' = [state EXCEPT ![Head(line[b])] = out]
          /\ line' = [line EXCEPT ![b] = Tail(@)]
          /\ active' = IF Tail(line[b]) = <<>> THEN active \ {b} ELSE active
      BY <1>2, <2>2, SettleLine DEF QueueInv
    <3>2. line[b] # <<>>
      BY <1>2, <3>1, CurrentIsHead DEF QueueInv
    <3> QED BY <3>1, <3>2 DEF QueueSerial!Finish
  <2>3. CASE UNCHANGED queueVars
    BY <1>2, <2>3, StutterInd DEF queueVars, QueueSerial!serialVars
  <2> QED BY <1>2, <2>1, <2>2, <2>3, NextCases DEF QueueSerial!SerialNext, QueueSerial!Outcomes, Outcomes
<1> QED BY <1>1, <1>2, QueueConsistency, PTL DEF QueueSpec, QueueSerial!SerialSafety

-----------------------------------------------------------------------------
(* The keyed mutexes. *)

LEMMA MutexInitInd == MutexInit => MutexInv
BY KeyedMutexAssumption DEF MutexInit, MutexInv, MutexTypeOK, ChainOK, InOrder, Settled

LEMMA CallInd ==
    ASSUME MutexInv, NEW j \in Tasks, Call(j)
    PROVE  MutexInv'
<1> DEFINE b == KeyOf[j]
<1>1. b \in Keys /\ chain[b] \in Seq(Tasks)
  BY KeyedMutexAssumption DEF MutexInv, MutexTypeOK
<1>2. /\ chain' = [chain EXCEPT ![b] = Append(chain[b], j)]
      /\ phase' = [phase EXCEPT ![j] = "awaiting"] /\ phase[j] = "new"
  BY DEF Call
<1>3. /\ Len(chain[b]) \in Nat /\ chain'[b] \in Seq(Tasks)
      /\ DOMAIN chain[b] = 1 .. Len(chain[b])
      /\ DOMAIN chain'[b] = 1 .. Len(chain[b]) + 1
      /\ chain'[b][Len(chain[b]) + 1] = j
      /\ \A i \in 1 .. Len(chain[b]) : chain'[b][i] = chain[b][i]
      /\ \A c \in Keys : c # b => chain'[c] = chain[c]
  BY <1>1, <1>2, AppendProperties, LenProperties DEF MutexInv, MutexTypeOK
<1>4. MutexTypeOK'
  BY <1>1, <1>2, <1>3 DEF MutexInv, MutexTypeOK
<1>5. \A c \in Keys : \A i \in DOMAIN chain[c] : chain[c][i] \in Tasks /\ chain[c][i] # j
  BY <1>2, ElementOfSeq, LenProperties DEF MutexInv, MutexTypeOK, ChainOK
<1>6. \A i \in DOMAIN chain'[b] : i = Len(chain[b]) + 1 \/ i \in DOMAIN chain[b]
  BY <1>3
<1>7. ASSUME NEW c \in Keys, NEW i \in DOMAIN chain'[c], NEW k \in DOMAIN chain'[c]
      PROVE  /\ KeyOf[chain'[c][i]] = c
             /\ phase'[chain'[c][i]] # "new"
             /\ chain'[c][i] = chain'[c][k] => i = k
             /\ i < k /\ phase'[chain'[c][i]] \notin Settled => phase'[chain'[c][k]] = "awaiting"
  <2>1. CASE c # b
    BY <1>1, <1>2, <1>3, <1>5, <2>1 DEF MutexInv, MutexTypeOK, ChainOK, InOrder
  <2>2. CASE c = b
    BY <1>1, <1>2, <1>3, <1>5, <1>6, <2>2 DEF MutexInv, MutexTypeOK, ChainOK, InOrder
  <2> QED BY <2>1, <2>2
<1>8. ASSUME NEW k \in Tasks, phase'[k] # "new"
      PROVE  \E i \in DOMAIN chain'[KeyOf[k]] : chain'[KeyOf[k]][i] = k
  <2>1. CASE k = j
    BY <1>3, <2>1
  <2>2. CASE k # j
    <3>1. PICK i \in DOMAIN chain[KeyOf[k]] : chain[KeyOf[k]][i] = k
      BY <1>2, <1>8, <2>2 DEF MutexInv, MutexTypeOK, ChainOK
    <3> QED BY <1>3, <3>1, KeyedMutexAssumption
  <2> QED BY <2>1, <2>2
<1> QED BY <1>4, <1>7, <1>8 DEF MutexInv, ChainOK, InOrder

(* Entering and leaving change one task's phase and no chain.              *)
LEMMA EnterInd ==
    ASSUME MutexInv, NEW b \in Keys, NEW i \in DOMAIN chain[b], Enter(b, i)
    PROVE  MutexInv'
<1> DEFINE j == chain[b][i]
<1>1. /\ j \in Tasks /\ phase[j] = "awaiting" /\ chain' = chain
      /\ phase' = [phase EXCEPT ![j] = "running"] /\ KeyOf[j] = b
      /\ \A c \in Keys : DOMAIN chain[c] = 1 .. Len(chain[c]) /\ Len(chain[c]) \in Nat
      /\ \A c \in Keys : \A k \in DOMAIN chain[c] : chain[c][k] \in Tasks
  BY ElementOfSeq, LenProperties DEF Enter, MutexInv, MutexTypeOK, ChainOK
<1>2. MutexTypeOK'
  BY <1>1 DEF MutexInv, MutexTypeOK
<1>chain. ChainOK'
  <2>1. ASSUME NEW c \in Keys, NEW k \in DOMAIN chain[c]
        PROVE  phase'[chain[c][k]] # "new"
    BY <1>1 DEF MutexInv, MutexTypeOK, ChainOK
  <2>2. ASSUME NEW t \in Tasks, phase'[t] # "new"
        PROVE  phase[t] # "new"
    BY <1>1, <2>2 DEF MutexInv, MutexTypeOK
  <2> QED BY <1>1, <2>1, <2>2 DEF MutexInv, ChainOK
<1>3. ASSUME NEW k \in DOMAIN chain[b], k < i
      PROVE  phase[chain[b][k]] \in Settled
  <2>1. CASE k + 1 = i
    BY <2>1 DEF Enter, PredecessorSettled
  <2>2. CASE k + 1 # i
    <3>1. i - 1 \in DOMAIN chain[b] /\ k < i - 1 /\ (i - 1) + 1 = i
      BY <1>1, <1>3, <2>2
    <3>2. phase[chain[b][i - 1]] \in Settled
      BY <3>1 DEF Enter, PredecessorSettled
    <3> QED BY <3>1, <3>2 DEF MutexInv, InOrder, Settled
  <2> QED BY <2>1, <2>2
<1>4. ASSUME NEW c \in Keys, NEW m \in DOMAIN chain[c], NEW n \in DOMAIN chain[c],
             m < n, phase'[chain[c][m]] \notin Settled
      PROVE  phase'[chain[c][n]] = "awaiting"
  <2>1. phase[chain[c][m]] \notin Settled
    BY <1>1, <1>4 DEF MutexInv, MutexTypeOK, Settled
  <2>2. phase[chain[c][n]] = "awaiting"
    BY <1>4, <2>1 DEF MutexInv, InOrder
  <2>3. chain[c][n] # j
    <3>1. SUFFICES ASSUME chain[c][n] = j PROVE FALSE
      OBVIOUS
    <3>2. c = b /\ n = i
      BY <1>1, <3>1 DEF MutexInv, ChainOK
    <3> QED BY <1>3, <1>4, <2>1, <3>2
  <2> QED BY <1>1, <2>2, <2>3 DEF MutexInv, MutexTypeOK
<1> QED BY <1>1, <1>2, <1>chain, <1>4 DEF MutexInv, InOrder

LEMMA LeaveInd ==
    ASSUME MutexInv, NEW b \in Keys, NEW i \in DOMAIN chain[b], NEW out \in Settled,
           Leave(b, i, out)
    PROVE  MutexInv'
<1> DEFINE j == chain[b][i]
<1>1. /\ j \in Tasks /\ phase[j] = "running" /\ chain' = chain
      /\ phase' = [phase EXCEPT ![j] = out] /\ out \in {"ok", "err"}
      /\ \A c \in Keys : \A k \in DOMAIN chain[c] : chain[c][k] \in Tasks
  BY ElementOfSeq, LenProperties DEF Leave, MutexInv, MutexTypeOK, Settled
<1>2. MutexTypeOK'
  BY <1>1 DEF MutexInv, MutexTypeOK, Settled
<1>chain. ChainOK'
  <2>1. ASSUME NEW c \in Keys, NEW k \in DOMAIN chain[c]
        PROVE  phase'[chain[c][k]] # "new"
    BY <1>1 DEF MutexInv, MutexTypeOK, ChainOK
  <2>2. ASSUME NEW t \in Tasks, phase'[t] # "new"
        PROVE  phase[t] # "new"
    BY <1>1, <2>2 DEF MutexInv, MutexTypeOK
  <2> QED BY <1>1, <2>1, <2>2 DEF MutexInv, ChainOK
<1>3. InOrder'
  BY <1>1 DEF MutexInv, MutexTypeOK, InOrder, Settled
<1> QED BY <1>2, <1>chain, <1>3 DEF MutexInv

(* A mutex's promises, the order in which they were created and the phases *)
(* of their tasks stay consistent.                                         *)
THEOREM MutexConsistency == MutexSpec => []MutexInv
<1>1. ASSUME MutexInv, [MutexNext]_mutexVars PROVE MutexInv'
  <2>1. CASE UNCHANGED mutexVars
    BY <1>1, <2>1 DEF MutexInv, MutexTypeOK, ChainOK, InOrder, mutexVars
  <2> QED BY <1>1, <2>1, CallInd, EnterInd, LeaveInd DEF MutexNext
<1> QED BY MutexInitInd, <1>1, PTL DEF MutexSpec

(* Two critical sections of one key never overlap.                         *)
THEOREM Exclusion == MutexSpec => []MutualExclusion
<1>1. ASSUME MutexInv PROVE MutualExclusion
  <2> SUFFICES ASSUME NEW j \in Tasks, NEW k \in Tasks, KeyOf[j] = KeyOf[k],
                      phase[j] = "running", phase[k] = "running"
               PROVE  j = k
    BY DEF MutualExclusion
  <2>1. PICK m \in DOMAIN chain[KeyOf[j]] : chain[KeyOf[j]][m] = j
    BY <1>1 DEF MutexInv, ChainOK
  <2>2. PICK n \in DOMAIN chain[KeyOf[j]] : chain[KeyOf[j]][n] = k
    BY <1>1 DEF MutexInv, ChainOK
  <2>3. m \in Nat /\ n \in Nat
    BY KeyedMutexAssumption, <1>1, LenProperties DEF MutexInv, MutexTypeOK
  <2>4. ~(m < n) /\ ~(n < m)
    BY <1>1, <2>1, <2>2, KeyedMutexAssumption DEF MutexInv, InOrder, Settled
  <2> QED BY <2>1, <2>2, <2>3, <2>4
<1> QED BY MutexConsistency, <1>1, PTL

\* A set of naturals has a least element.
LEMMA LeastOf ==
    ASSUME NEW T \in SUBSET Nat, T # {}
    PROVE  \E m \in T : \A k \in T : m <= k
<1>1. PICK m \in T : \A k \in T : ~(<<k, m>> \in OpToRel(<, Nat))
    BY WFMin, NatLessThanWellFounded, Zenon
<1>2. \A k \in T : ~(k < m)
    BY <1>1, Zenon DEF OpToRel
<1> QED BY <1>2

\* In a chain whose unsettled tasks let later ones wait, the settled ones come first.
LEMMA SettledFirst ==
    ASSUME NEW n \in Nat, NEW p, \A i, k \in 1 .. n : i < k /\ p[i] \notin Settled => p[k] = "awaiting"
    PROVE  LET c == Cardinality({i \in 1 .. n : p[i] \in Settled})
           IN c \in 0 .. n /\ \A i \in 1 .. n : p[i] \in Settled <=> i <= c
<1> DEFINE S == {i \in 1 .. n : p[i] \in Settled}
           Split(m) == m \in 0 .. n /\ \A i \in 1 .. n : p[i] \in Settled <=> i <= m
<1>1. \E m : Split(m)
    <2> DEFINE U == {i \in 1 .. n : p[i] \notin Settled}
    <2>1. CASE U = {}
        <3>1. Split(n)
            BY <2>1
        <3> QED BY <3>1
    <2>2. CASE U # {}
        <3>1. PICK u \in U : \A k \in U : u <= k
            <4>1. U \in SUBSET Nat
                OBVIOUS
            <4> HIDE DEF U
            <4> QED BY <2>2, <4>1, LeastOf
        <3>2. u \in 1 .. n /\ p[u] \notin Settled
            BY <3>1
        <3>3. \A i \in 1 .. n : i < u => p[i] \in Settled
            BY <3>1, <3>2
        <3>4. \A i \in 1 .. n : u < i => p[i] \notin Settled
            BY <3>2 DEF Settled
        <3>5. Split(u - 1)
            BY <3>2, <3>3, <3>4
        <3> QED BY <3>5
    <2> QED BY <2>1, <2>2
<1>2. PICK m : Split(m)
    BY <1>1
<1>3. S = 1 .. m /\ m \in Nat
    BY <1>2
<1>4. Cardinality(1 .. m) = m
    <2>1. 1 \in Int /\ m \in Int
        BY <1>3
    <2>2. Cardinality(1 .. m) = IF 1 > m THEN 0 ELSE m - 1 + 1
        BY <2>1, FS_Interval
    <2> QED BY <1>3, <2>2
<1> QED BY <1>2, <1>3, <1>4

\* Of every chain the settled tasks are the first ones, SettledOf in number.
LEMMA SettledAre ==
    ASSUME MutexInv, NEW b \in Keys
    PROVE  /\ chain[b] \in Seq(Tasks) /\ Len(chain[b]) \in Nat /\ DOMAIN chain[b] = 1 .. Len(chain[b])
           /\ SettledOf(b) \in 0 .. Len(chain[b])
           /\ \A i \in 1 .. Len(chain[b]) : phase[chain[b][i]] \in Settled <=> i <= SettledOf(b)
<1> DEFINE n == Len(chain[b])
           p == [i \in 1 .. n |-> phase[chain[b][i]]]
<1>1. chain[b] \in Seq(Tasks) /\ n \in Nat /\ DOMAIN chain[b] = 1 .. n
    BY LenProperties DEF MutexInv, MutexTypeOK
<1>2. \A i, k \in 1 .. n : i < k /\ p[i] \notin Settled => p[k] = "awaiting"
    BY <1>1 DEF MutexInv, InOrder
<1>3. {i \in DOMAIN chain[b] : phase[chain[b][i]] \in Settled} = {i \in 1 .. n : p[i] \in Settled}
    BY <1>1
<1>4. \A i \in 1 .. n : p[i] = phase[chain[b][i]]
    OBVIOUS
<1>5. SettledOf(b) = Cardinality({i \in 1 .. n : p[i] \in Settled})
    BY <1>3 DEF SettledOf
<1> HIDE DEF p, n
<1>6. /\ Cardinality({i \in 1 .. n : p[i] \in Settled}) \in 0 .. n
      /\ \A i \in 1 .. n : p[i] \in Settled <=> i <= Cardinality({k \in 1 .. n : p[k] \in Settled})
    BY <1>1, <1>2, SettledFirst
<1> QED BY <1>1, <1>4, <1>5, <1>6 DEF n

\* The same number settled in the same chain.
LEMMA SettledSame ==
    ASSUME NEW b, chain'[b] = chain[b], \A i \in DOMAIN chain[b] : phase'[chain[b][i]] \in Settled <=> phase[chain[b][i]] \in Settled
    PROVE  SettledOf(b)' = SettledOf(b)
<1>1. {i \in DOMAIN chain'[b] : phase'[chain'[b][i]] \in Settled} = {i \in DOMAIN chain[b] : phase[chain[b][i]] \in Settled}
    OBVIOUS
<1> QED BY <1>1 DEF SettledOf

\* What is in line of a chain, and what of it does not change.
LEMMA MutexLineIs ==
    ASSUME NEW q \in Seq(Tasks), NEW n \in 0 .. Len(q)
    PROVE  LET l == SubSeq(q, n + 1, Len(q))
           IN /\ l \in Seq(Tasks) /\ Len(l) = Len(q) - n
              /\ \A i \in 1 .. Len(l) : l[i] = q[n + i]
<1>1. Len(q) \in Nat /\ \A i \in 1 .. Len(q) : q[i] \in Tasks
    BY LenProperties, ElementOfSeq
<1>2. n + 1 \in Int /\ Len(q) \in Int /\ \A i \in n + 1 .. Len(q) : q[i] \in Tasks
    BY <1>1
<1> DEFINE m == n + 1
           h == Len(q)
           l == SubSeq(q, m, h)
<1>3. m \in Int /\ h \in Int /\ \A i \in m .. h : q[i] \in Tasks
    BY <1>2
<1> HIDE DEF m, h
<1>4. l \in Seq(Tasks) /\ Len(l) = (IF m <= h THEN h - m + 1 ELSE 0) /\ \A i \in 1 .. h - m + 1 : l[i] = q[m + i - 1]
    BY <1>3, SubSeqProperties
<1> HIDE DEF l
<1>5. Len(l) = h - n /\ h \in Nat
    BY <1>1, <1>4 DEF m, h
<1>6. \A i \in 1 .. Len(l) : l[i] = q[n + i]
    <2> TAKE i \in 1 .. Len(l)
    <2>1. i \in 1 .. h - m + 1 /\ m + i - 1 = n + i
        BY <1>5 DEF m
    <2> QED BY <1>4, <2>1
<1> QED BY <1>4, <1>5, <1>6 DEF l, m, h

\* A call puts its task at the end of the line.
LEMMA CallHands ==
    ASSUME MutexInv, NEW j \in Tasks, Call(j)
    PROVE  MutexSerial!Hand(j)
<1> DEFINE b == KeyOf[j]
           q == chain[b]
           n == SettledOf(b)
<1>0. b \in Keys
    BY KeyedMutexAssumption
<1>1. /\ phase \in [Tasks -> {"new", "awaiting", "running"} \cup Settled] /\ chain \in [Keys -> Seq(Tasks)]
      /\ phase[j] = "new" /\ phase' = [phase EXCEPT ![j] = "awaiting"] /\ chain' = [chain EXCEPT ![b] = Append(q, j)]
    BY DEF Call, MutexInv, MutexTypeOK
<1>2. \A c \in Keys : \A i \in DOMAIN chain[c] :
         chain[c][i] \in Tasks /\ phase[chain[c][i]] # "new" /\ phase'[chain[c][i]] = phase[chain[c][i]]
    <2> TAKE c \in Keys
    <2> TAKE i \in DOMAIN chain[c]
    <2>1. chain[c][i] \in Tasks
        BY <1>1, ElementOfSeq, LenProperties
    <2>2. phase[chain[c][i]] # "new"
        BY DEF MutexInv, ChainOK
    <2> QED BY <1>1, <2>1, <2>2
<1>3. /\ q \in Seq(Tasks) /\ Len(q) \in Nat /\ DOMAIN q = 1 .. Len(q) /\ n \in 0 .. Len(q)
    BY <1>0, SettledAre
<1>4. /\ chain'[b] = Append(q, j) /\ Len(chain'[b]) = Len(q) + 1 /\ DOMAIN chain'[b] = 1 .. Len(q) + 1
      /\ chain'[b][Len(q) + 1] = j /\ \A i \in 1 .. Len(q) : chain'[b][i] = q[i]
      /\ chain'[b] \in Seq(Tasks)
    BY <1>0, <1>1, <1>3, AppendProperties, LenProperties
<1>5. phase'[j] = "awaiting"
    BY <1>1
<1>6. SettledOf(b)' = n
    <2>1. ASSUME NEW i \in DOMAIN chain'[b]
          PROVE  phase'[chain'[b][i]] \in Settled <=> i \in DOMAIN q /\ phase[q[i]] \in Settled
        <3>1. CASE i = Len(q) + 1
            <4>1. i \notin DOMAIN q
                BY <1>3, <3>1
            <4> QED BY <1>4, <1>5, <3>1, <4>1 DEF Settled
        <3>2. CASE i \in 1 .. Len(q)
            BY <1>0, <1>2, <1>3, <1>4, <3>2
        <3> QED BY <1>3, <1>4, <2>1, <3>1, <3>2
    <2>2. DOMAIN q \subseteq DOMAIN chain'[b]
        BY <1>3, <1>4
    <2>3. {i \in DOMAIN chain'[b] : phase'[chain'[b][i]] \in Settled} = {i \in DOMAIN q : phase[q[i]] \in Settled}
        BY <2>1, <2>2
    <2> QED BY <2>3 DEF SettledOf
<1>7. SubSeq(chain'[b], n + 1, Len(chain'[b])) = Append(SubSeq(q, n + 1, Len(q)), j)
    <2> DEFINE x == chain'[b]
               l == SubSeq(q, n + 1, Len(q))
               m == SubSeq(x, n + 1, Len(x))
    <2> HIDE DEF q, n
    <2>1. l \in Seq(Tasks) /\ Len(l) = Len(q) - n /\ \A i \in 1 .. Len(l) : l[i] = q[n + i]
        BY <1>3, MutexLineIs
    <2>2. x \in Seq(Tasks) /\ n \in 0 .. Len(x)
        BY <1>3, <1>4
    <2> HIDE DEF x
    <2>3. m \in Seq(Tasks) /\ Len(m) = Len(x) - n /\ \A i \in 1 .. Len(m) : m[i] = x[n + i]
        BY <2>2, MutexLineIs
    <2> HIDE DEF l, m
    <2>4. /\ Append(l, j) \in Seq(Tasks) /\ Len(Append(l, j)) = Len(l) + 1
          /\ Append(l, j)[Len(l) + 1] = j /\ \A i \in 1 .. Len(l) : Append(l, j)[i] = l[i]
        BY <2>1, AppendProperties
    <2>5. Len(m) = Len(l) + 1 /\ Len(l) \in Nat
        BY <1>3, <1>4, <2>1, <2>3 DEF x
    <2>6. ASSUME NEW i \in 1 .. Len(m) PROVE m[i] = Append(l, j)[i]
        <3>1. CASE i = Len(l) + 1
            <4>1. n + i = Len(q) + 1
                BY <1>3, <2>1, <3>1
            <4>2. x[n + i] = j
                BY <1>4, <4>1 DEF x
            <4> QED BY <2>3, <2>4, <2>6, <3>1, <4>2
        <3>2. CASE i \in 1 .. Len(l)
            <4>1. n + i \in 1 .. Len(q)
                BY <1>3, <2>1, <3>2
            <4>2. x[n + i] = q[n + i]
                BY <1>4, <4>1 DEF x
            <4> QED BY <2>1, <2>3, <2>4, <2>6, <3>2, <4>2
        <3> QED BY <2>5, <2>6, <3>1, <3>2
    <2>7. m = Append(l, j)
        BY <2>3, <2>4, <2>5, <2>6, SeqEqual
    <2> QED BY <2>7 DEF m, l, x
<1>8. \A c \in Keys : c # b => chain'[c] = chain[c] /\ SettledOf(c)' = SettledOf(c)
    <2>1. \A c \in Keys : c # b => chain'[c] = chain[c]
        BY <1>1
    <2> QED BY <1>2, <2>1, SettledSame
<1>9. mutexLine' = [mutexLine EXCEPT ![b] = Append(@, j)]
    <2>1. mutexLine'[b] = Append(mutexLine[b], j)
        BY <1>0, <1>6, <1>7 DEF mutexLine
    <2>2. \A c \in Keys : c # b => mutexLine'[c] = mutexLine[c]
        BY <1>8 DEF mutexLine
    <2> QED BY <1>0, <2>1, <2>2 DEF mutexLine
<1>10. mutexBegun' = mutexBegun
    <2>1. ASSUME NEW c \in Keys
          PROVE  (\E i \in DOMAIN chain'[c] : phase'[chain'[c][i]] = "running") <=> (\E i \in DOMAIN chain[c] : phase[chain[c][i]] = "running")
        <3>1. CASE c # b
            BY <1>2, <1>8, <3>1
        <3>2. CASE c = b
            <4>1. \A i \in DOMAIN chain'[b] : i = Len(q) + 1 \/ i \in DOMAIN q
                BY <1>3, <1>4
            <4>2. DOMAIN q \subseteq DOMAIN chain'[b]
                BY <1>3, <1>4
            <4>3. \A i \in DOMAIN q : phase'[chain'[b][i]] = phase[q[i]]
                BY <1>0, <1>2, <1>3, <1>4
            <4> QED BY <1>4, <1>5, <3>2, <4>1, <4>2, <4>3
        <3> QED BY <3>1, <3>2
    <2> QED BY <2>1 DEF mutexBegun
<1>11. mutexOutcome[j] = "new" /\ mutexOutcome' = [mutexOutcome EXCEPT ![j] = "waiting"]
    BY <1>1 DEF mutexOutcome
<1> QED BY <1>9, <1>10, <1>11 DEF MutexSerial!Hand

\* The task of a chain that waits for the settled ones only is the next of its line.
LEMMA NextOfChain ==
    ASSUME MutexInv, NEW b \in Keys, NEW i \in DOMAIN chain[b], phase[chain[b][i]] \notin Settled,
           \A k \in DOMAIN chain[b] : k < i => phase[chain[b][k]] \in Settled
    PROVE  SettledOf(b) = i - 1
<1>1. /\ Len(chain[b]) \in Nat /\ DOMAIN chain[b] = 1 .. Len(chain[b]) /\ SettledOf(b) \in 0 .. Len(chain[b])
      /\ \A k \in 1 .. Len(chain[b]) : phase[chain[b][k]] \in Settled <=> k <= SettledOf(b)
    BY SettledAre
<1>2. SettledOf(b) < i
    BY <1>1
<1>3. CASE i = 1
    BY <1>1, <1>2, <1>3
<1>4. CASE i # 1
    <2>1. i - 1 \in DOMAIN chain[b] /\ i - 1 < i
        BY <1>1, <1>4
    <2>2. i - 1 <= SettledOf(b)
        BY <1>1, <2>1
    <2> QED BY <1>1, <1>2, <2>1, <2>2
<1> QED BY <1>3, <1>4

\* What changes when a task begins or settles.
LEMMA OnePhase ==
    ASSUME MutexInv, NEW b \in Keys, NEW i \in DOMAIN chain[b], NEW v,
           chain' = chain, phase' = [phase EXCEPT ![chain[b][i]] = v]
    PROVE  /\ chain[b][i] \in Tasks /\ phase'[chain[b][i]] = v
           /\ \A c \in Keys : \A k \in DOMAIN chain[c] : c # b \/ k # i => phase'[chain[c][k]] = phase[chain[c][k]]
<1>1. /\ phase \in [Tasks -> {"new", "awaiting", "running"} \cup Settled]
      /\ \A c \in Keys : \A k \in DOMAIN chain[c] : chain[c][k] \in Tasks
    BY ElementOfSeq, LenProperties DEF MutexInv, MutexTypeOK
<1>2. \A c \in Keys : \A k \in DOMAIN chain[c] : c # b \/ k # i => chain[c][k] # chain[b][i]
    BY DEF MutexInv, ChainOK
<1> QED BY <1>1, <1>2

\* A task that enters its section is the first of its line, and nobody is in it.
LEMMA EnterBegins ==
    ASSUME MutexInv, NEW b \in Keys, NEW i \in DOMAIN chain[b], Enter(b, i)
    PROVE  MutexSerial!Begin(b)
<1> DEFINE q == chain[b]
<1>1. /\ q \in Seq(Tasks) /\ Len(q) \in Nat /\ DOMAIN q = 1 .. Len(q) /\ SettledOf(b) \in 0 .. Len(q)
      /\ \A k \in 1 .. Len(q) : phase[q[k]] \in Settled <=> k <= SettledOf(b)
    BY SettledAre
<1>2. /\ phase[q[i]] = "awaiting" /\ phase' = [phase EXCEPT ![q[i]] = "running"] /\ chain' = chain
      /\ PredecessorSettled(b, i)
    BY DEF Enter
<1>3. /\ q[i] \in Tasks /\ phase'[q[i]] = "running"
      /\ \A c \in Keys : \A k \in DOMAIN chain[c] : c # b \/ k # i => phase'[chain[c][k]] = phase[chain[c][k]]
    BY <1>2, OnePhase
<1>4. ASSUME NEW k \in DOMAIN q, k < i
      PROVE  phase[q[k]] \in Settled
    <2>1. i - 1 \in DOMAIN q /\ (i - 1) + 1 = i /\ k <= i - 1
        BY <1>1, <1>4
    <2>2. phase[q[i - 1]] \in Settled
        BY <1>2, <2>1 DEF PredecessorSettled
    <2> QED BY <1>1, <1>4, <2>1, <2>2
<1>5. SettledOf(b) = i - 1
    BY <1>2, <1>4, NextOfChain DEF Settled
<1>6. mutexLine[b] # <<>>
    <2> DEFINE n == SettledOf(b)
    <2>1. n \in 0 .. Len(q) /\ n < Len(q)
        BY <1>1, <1>5
    <2> HIDE DEF n, q
    <2> DEFINE l == SubSeq(q, n + 1, Len(q))
    <2>2. l \in Seq(Tasks) /\ Len(l) = Len(q) - n
        BY <1>1, <2>1, MutexLineIs
    <2> HIDE DEF l
    <2>3. Len(l) \in Nat \ {0}
        BY <1>1, <2>1, <2>2 DEF q
    <2>4. l # <<>>
        BY <2>2, <2>3
    <2> QED BY <2>4 DEF mutexLine, l, n, q
<1>7. \A k \in DOMAIN q : phase[q[k]] # "running"
    <2> TAKE k \in DOMAIN q
    <2>1. CASE k < i
        BY <1>4, <2>1 DEF Settled
    <2>2. CASE k = i
        BY <1>2, <2>2
    <2>3. CASE k > i
        <3>1. phase[q[i]] \notin Settled
            BY <1>2 DEF Settled
        <3>2. phase[q[k]] = "awaiting"
            BY <2>3, <3>1 DEF MutexInv, InOrder
        <3> QED BY <3>2
    <2> QED BY <1>1, <2>1, <2>2, <2>3
<1>8. mutexLine' = mutexLine
    <2>1. \A c \in Keys : \A k \in DOMAIN chain[c] : phase'[chain[c][k]] \in Settled <=> phase[chain[c][k]] \in Settled
        BY <1>2, <1>3 DEF Settled
    <2>2. \A c \in Keys : SettledOf(c)' = SettledOf(c)
        BY <1>2, <2>1, SettledSame
    <2> QED BY <1>2, <2>2 DEF mutexLine
<1>9. b \notin mutexBegun
    BY <1>7 DEF mutexBegun
<1>10. mutexBegun' = mutexBegun \cup {b}
    <2>1. ASSUME NEW c \in Keys, c # b
          PROVE  (\E k \in DOMAIN chain'[c] : phase'[chain'[c][k]] = "running") <=> (\E k \in DOMAIN chain[c] : phase[chain[c][k]] = "running")
        BY <1>2, <1>3, <2>1
    <2>2. \E k \in DOMAIN chain'[b] : phase'[chain'[b][k]] = "running"
        BY <1>2, <1>3
    <2> QED BY <2>1, <2>2 DEF mutexBegun
<1>11. mutexOutcome' = mutexOutcome
    <2>1. \A j \in Tasks : j # q[i] => phase'[j] = phase[j]
        BY <1>2, <1>3 DEF MutexInv, MutexTypeOK
    <2> QED BY <1>2, <1>3, <2>1 DEF mutexOutcome
<1> QED BY <1>6, <1>8, <1>9, <1>10, <1>11 DEF MutexSerial!Begin

\* A task that leaves is the first of its line, and the line goes on behind it.
LEMMA LeaveFinishes ==
    ASSUME MutexInv, NEW b \in Keys, NEW i \in DOMAIN chain[b], NEW out \in Settled, Leave(b, i, out)
    PROVE  MutexSerial!Finish(b, out)
<1> DEFINE q == chain[b]
<1>1. /\ q \in Seq(Tasks) /\ Len(q) \in Nat /\ DOMAIN q = 1 .. Len(q) /\ SettledOf(b) \in 0 .. Len(q)
      /\ \A k \in 1 .. Len(q) : phase[q[k]] \in Settled <=> k <= SettledOf(b)
    BY SettledAre
<1>2. phase[q[i]] = "running" /\ phase' = [phase EXCEPT ![q[i]] = out] /\ chain' = chain
    BY DEF Leave
<1>3. /\ q[i] \in Tasks /\ phase'[q[i]] = out
      /\ \A c \in Keys : \A k \in DOMAIN chain[c] : c # b \/ k # i => phase'[chain[c][k]] = phase[chain[c][k]]
    BY <1>2, OnePhase
<1>4. ASSUME NEW k \in DOMAIN q, k < i
      PROVE  phase[q[k]] \in Settled
    BY <1>2, <1>4 DEF MutexInv, InOrder
<1>5. SettledOf(b) = i - 1
    BY <1>2, <1>4, NextOfChain DEF Settled
<1>6. ASSUME NEW k \in DOMAIN q, k > i
      PROVE  phase[q[k]] = "awaiting"
    <2>1. phase[q[i]] \notin Settled
        BY <1>2 DEF Settled
    <2> QED BY <1>6, <2>1 DEF MutexInv, InOrder
<1>7. SettledOf(b)' = i
    <2>1. ASSUME NEW k \in DOMAIN q PROVE phase'[q[k]] \in Settled <=> k <= i
        <3>1. CASE k = i
            BY <1>1, <1>3, <3>1
        <3>2. CASE k # i
            <4>1. phase'[q[k]] = phase[q[k]]
                BY <1>3, <3>2
            <4>2. k <= SettledOf(b) <=> k <= i
                BY <1>1, <1>5, <3>2
            <4> QED BY <1>1, <4>1, <4>2
        <3> QED BY <3>1, <3>2
    <2>2. {k \in DOMAIN chain'[b] : phase'[chain'[b][k]] \in Settled} = 1 .. i
        BY <1>1, <1>2, <2>1
    <2>3. Cardinality(1 .. i) = i
        <3>1. 1 \in Int /\ i \in Int /\ i >= 1
            BY <1>1
        <3>2. Cardinality(1 .. i) = IF 1 > i THEN 0 ELSE i - 1 + 1
            BY <3>1, FS_Interval
        <3> QED BY <3>1, <3>2
    <2> QED BY <2>2, <2>3 DEF SettledOf
<1>8. SubSeq(q, (i - 1) + 1, Len(q)) # <<>> /\ Head(SubSeq(q, (i - 1) + 1, Len(q))) = q[i]
      /\ SubSeq(q, i + 1, Len(q)) = Tail(SubSeq(q, (i - 1) + 1, Len(q)))
    <2> DEFINE n == i - 1
               l == SubSeq(q, n + 1, Len(q))
               m == SubSeq(q, i + 1, Len(q))
    <2>1. n \in 0 .. Len(q) /\ i \in 0 .. Len(q) /\ n + 1 = i
        BY <1>1
    <2> HIDE DEF n, q
    <2>2. l \in Seq(Tasks) /\ Len(l) = Len(q) - n /\ \A k \in 1 .. Len(l) : l[k] = q[n + k]
        BY <1>1, <2>1, MutexLineIs
    <2>3. m \in Seq(Tasks) /\ Len(m) = Len(q) - i /\ \A k \in 1 .. Len(m) : m[k] = q[i + k]
        BY <1>1, <2>1, MutexLineIs
    <2> HIDE DEF l, m
    <2>4. Len(l) \in Nat \ {0} /\ Len(m) = Len(l) - 1 /\ i \in 1 .. Len(q)
        BY <1>1, <2>1, <2>2, <2>3 DEF q
    <2>5. l # <<>>
        BY <2>2, <2>4
    <2>6. /\ Tail(l) \in Seq(Tasks) /\ Len(Tail(l)) = Len(l) - 1
          /\ \A k \in 1 .. Len(Tail(l)) : Tail(l)[k] = l[k + 1]
        BY <2>2, <2>5, HeadTailProperties
    <2>7. ASSUME NEW k \in 1 .. Len(m) PROVE m[k] = Tail(l)[k]
        <3>1. k + 1 \in 1 .. Len(l) /\ n + (k + 1) = i + k
            BY <2>1, <2>4
        <3> QED BY <2>2, <2>3, <2>4, <2>6, <2>7, <3>1
    <2>8. m = Tail(l)
        BY <2>3, <2>4, <2>6, <2>7, SeqEqual
    <2>9. Head(l) = l[1]
        BY <2>2, <2>5
    <2>10. l[1] = q[i]
        BY <2>1, <2>2, <2>4
    <2> QED BY <2>5, <2>8, <2>9, <2>10 DEF l, m, n
<1>9. mutexLine[b] = SubSeq(q, (i - 1) + 1, Len(q)) /\ mutexLine'[b] = SubSeq(q, i + 1, Len(q))
    BY <1>2, <1>5, <1>7 DEF mutexLine
<1>10. mutexLine' = [mutexLine EXCEPT ![b] = Tail(@)]
    <2>1. mutexLine'[b] = Tail(mutexLine[b])
        BY <1>8, <1>9
    <2>2. ASSUME NEW c \in Keys, c # b PROVE mutexLine'[c] = mutexLine[c]
        <3>1. \A k \in DOMAIN chain[c] : phase'[chain[c][k]] \in Settled <=> phase[chain[c][k]] \in Settled
            BY <1>3, <2>2
        <3>2. SettledOf(c)' = SettledOf(c)
            BY <1>2, <3>1, SettledSame
        <3> QED BY <1>2, <3>2 DEF mutexLine
    <2> QED BY <2>1, <2>2 DEF mutexLine
<1>11. b \in mutexBegun /\ mutexBegun' = mutexBegun \ {b}
    <2>1. b \in mutexBegun
        BY <1>2 DEF mutexBegun
    <2>2. ASSUME NEW c \in Keys, c # b
          PROVE  (\E k \in DOMAIN chain'[c] : phase'[chain'[c][k]] = "running") <=> (\E k \in DOMAIN chain[c] : phase[chain[c][k]] = "running")
        BY <1>2, <1>3, <2>2
    <2>3. ASSUME NEW k \in DOMAIN q PROVE phase'[q[k]] # "running"
        <3>1. CASE k < i
            BY <1>3, <1>4, <3>1 DEF Settled
        <3>2. CASE k = i
            BY <1>3, <3>2 DEF Settled
        <3>3. CASE k > i
            <4>1. phase[q[k]] = "awaiting"
                BY <1>6, <3>3
            <4>2. k # i
                BY <1>1, <3>3
            <4> QED BY <1>3, <4>1, <4>2
        <3> QED BY <1>1, <3>1, <3>2, <3>3
    <2> QED BY <1>2, <2>1, <2>2, <2>3 DEF mutexBegun
<1>12. mutexOutcome' = [mutexOutcome EXCEPT ![q[i]] = out]
    <2>1. \A j \in Tasks : j # q[i] => phase'[j] = phase[j]
        BY <1>2, <1>3 DEF MutexInv, MutexTypeOK
    <2>2. out \notin {"awaiting", "running"}
        BY DEF Settled
    <2> QED BY <1>3, <2>1, <2>2 DEF mutexOutcome
<1>13. mutexLine[b] # <<>> /\ Head(mutexLine[b]) = q[i]
    BY <1>8, <1>9
<1> QED BY <1>10, <1>11, <1>12, <1>13 DEF MutexSerial!Finish

\* The promise chain of lib/generics.js makeMutex serialises the tasks of a key in order:
\* they are in their sections one at a time, each once, and each gets its own outcome.
THEOREM MutexSerialisesSafely == MutexSpec => MutexSerial!SerialSafety
<1>1. MutexInit => MutexSerial!SerialInit
    <2> SUFFICES ASSUME MutexInit PROVE MutexSerial!SerialInit
        OBVIOUS
    <2>1. chain = [b \in Keys |-> <<>>] /\ phase = [j \in Tasks |-> "new"]
        BY DEF MutexInit
    <2>2. ASSUME NEW b \in Keys PROVE mutexLine[b] = <<>>
        <3>1. MutexInv
            BY MutexInitInd
        <3>2. chain[b] = <<>> /\ Len(chain[b]) = 0
            BY <2>1
        <3>3. SettledOf(b) = 0
            BY <3>1, <3>2, SettledAre
        <3>4. SubSeq(chain[b], 1, 0) = <<>>
            BY SubSeqEmpty
        <3> QED BY <3>2, <3>3, <3>4 DEF mutexLine
    <2>3. mutexLine = [b \in Keys |-> <<>>]
        BY <2>2 DEF mutexLine
    <2>4. mutexBegun = {}
        BY <2>1 DEF mutexBegun
    <2>5. mutexOutcome = [j \in Tasks |-> "new"]
        BY <2>1 DEF mutexOutcome
    <2> QED BY <2>3, <2>4, <2>5 DEF MutexSerial!SerialInit
<1>2. ASSUME MutexInv, [MutexNext]_mutexVars
      PROVE  [MutexSerial!SerialNext]_MutexSerial!serialVars
    <2>1. CASE UNCHANGED mutexVars
        <3>1. chain' = chain /\ phase' = phase
            BY <2>1 DEF mutexVars
        <3>2. mutexLine' = mutexLine /\ mutexBegun' = mutexBegun /\ mutexOutcome' = mutexOutcome
            BY <3>1 DEF mutexLine, mutexBegun, mutexOutcome, SettledOf
        <3> QED BY <3>2 DEF MutexSerial!serialVars
    <2>2. ASSUME NEW j \in Tasks, Call(j) PROVE MutexSerial!SerialNext
        BY <1>2, <2>2, CallHands DEF MutexSerial!SerialNext
    <2>3. ASSUME NEW b \in Keys, NEW i \in DOMAIN chain[b], Enter(b, i) PROVE MutexSerial!SerialNext
        BY <1>2, <2>3, EnterBegins DEF MutexSerial!SerialNext
    <2>4. ASSUME NEW b \in Keys, NEW out \in Settled, NEW i \in DOMAIN chain[b], Leave(b, i, out)
          PROVE  MutexSerial!SerialNext
        BY <1>2, <2>4, LeaveFinishes DEF MutexSerial!SerialNext, MutexSerial!Outcomes, Settled
    <2> QED BY <1>2, <2>1, <2>2, <2>3, <2>4 DEF MutexNext
<1> QED BY <1>1, <1>2, MutexConsistency, PTL DEF MutexSpec, MutexSerial!SerialSafety

-----------------------------------------------------------------------------
(* The record of one device. *)

\* RecordInv of a record rec that n sessions were put into, at time t.
Healthy(rec, n, t) ==
    /\ n \in Nat
    /\ t \in Nat
    /\ DOMAIN rec \subseteq 1 .. n
    /\ rec \in [DOMAIN rec -> [closed : Nat \cup {Open}]]
    /\ OpenSessions(rec) \subseteq {n}
    /\ \A i \in DOMAIN rec : rec[i].closed <= t
    /\ \A i, k \in DOMAIN rec :
          i < k /\ IsClosed(rec, k) => rec[i].closed <= rec[k].closed
    /\ \A i \in DOMAIN rec : i .. n \subseteq DOMAIN rec
    /\ {i \in 1 .. n : i > n - ClosedMax} \subseteq DOMAIN rec

\* Closing the open session leaves a healthy record without an open one.
LEMMA CloseHealthy ==
    ASSUME NEW rec, NEW n, NEW t0, NEW t \in Nat, Healthy(rec, n, t0), t0 <= t
    PROVE  Healthy(CloseOpen(rec, t), n, t) /\ OpenSessions(CloseOpen(rec, t)) = {}
<1> DEFINE new == CloseOpen(rec, t)
<1>1. DOMAIN new = DOMAIN rec
  BY DEF CloseOpen
<1>2. \A i \in DOMAIN rec : new[i] = IF IsClosed(rec, i) THEN rec[i] ELSE [closed |-> t]
  <2> SUFFICES ASSUME NEW i \in DOMAIN rec
               PROVE  new[i] = IF IsClosed(rec, i) THEN rec[i] ELSE [closed |-> t]
    OBVIOUS
  <2>1. CASE IsClosed(rec, i)
    BY <2>1 DEF CloseOpen, IsOpenSession, OpenSessions
  <2>2. CASE ~IsClosed(rec, i)
    <3>1. i = n /\ IsOpenSession(rec, i)
      BY <2>2 DEF Healthy, OpenSessions, IsOpenSession
    <3>2. new[i] = [rec[i] EXCEPT !.closed = t]
      BY <3>1 DEF CloseOpen
    <3>3. rec[i] \in [closed : Nat \cup {Open}]
      BY DEF Healthy
    <3> QED BY <2>2, <3>2, <3>3
  <2> QED BY <2>1, <2>2
<1>3. \A i \in DOMAIN rec : rec[i].closed \in Nat \cup {Open} /\ rec[i] = [closed |-> rec[i].closed]
  BY DEF Healthy
<1>4. \A i \in DOMAIN rec : ~IsClosed(rec, i) => i = n
  BY DEF Healthy, OpenSessions
<1>5. \A i \in DOMAIN rec : new[i].closed = IF IsClosed(rec, i) THEN rec[i].closed ELSE t
  BY <1>2
<1>6. \A i \in DOMAIN rec : new[i].closed \in Nat /\ IsClosed(new, i)
  BY <1>3, <1>5 DEF IsClosed, Open
<1>7. new \in [DOMAIN new -> [closed : Nat \cup {Open}]]
  <2>1. \A i \in DOMAIN rec : new[i] \in [closed : Nat \cup {Open}]
    BY <1>2, <1>3
  <2> QED BY <2>1, <1>1 DEF CloseOpen
<1>8. OpenSessions(new) = {}
  BY <1>1, <1>6 DEF OpenSessions
<1>9. \A i \in DOMAIN new : new[i].closed <= t
  BY <1>1, <1>3, <1>5 DEF Healthy, Open
<1>10. \A i, k \in DOMAIN new : i < k /\ IsClosed(new, k) => new[i].closed <= new[k].closed
  <2> SUFFICES ASSUME NEW i \in DOMAIN rec, NEW k \in DOMAIN rec, i < k
               PROVE  new[i].closed <= new[k].closed
    BY <1>1
  <2>1. IsClosed(rec, i)
    <3>1. i \in 1 .. n /\ k \in 1 .. n /\ n \in Nat
      BY DEF Healthy
    <3> QED BY <1>4, <3>1
  <2>2. rec[i].closed <= t
    BY <1>3 DEF Healthy, Open
  <2>3. IsClosed(rec, k) => rec[i].closed <= rec[k].closed
    BY DEF Healthy
  <2> QED BY <1>5, <2>1, <2>2, <2>3
<1> HIDE DEF new
<1> QED BY <1>1, <1>7, <1>8, <1>9, <1>10 DEF Healthy, new

\* A new session may be put into a healthy record without an open one.
LEMMA PutHealthy ==
    ASSUME NEW rec, NEW n, NEW t, Healthy(rec, n, t), OpenSessions(rec) = {}
    PROVE  Healthy(Put(rec, n + 1, NewEntry), n + 1, t)
<1> DEFINE new == Put(rec, n + 1, NewEntry)
<1>0. n \in Nat /\ t \in Nat /\ DOMAIN rec \subseteq 1 .. n
  BY DEF Healthy
<1>1. /\ DOMAIN new = DOMAIN rec \cup {n + 1}
      /\ new[n + 1] = [closed |-> Open]
      /\ \A i \in DOMAIN rec : i # n + 1 /\ new[i] = rec[i]
  BY <1>0 DEF Put, NewEntry
<1>2. DOMAIN new \subseteq 1 .. (n + 1)
  BY <1>0, <1>1
<1>3. new \in [DOMAIN new -> [closed : Nat \cup {Open}]]
  <2>1. \A i \in DOMAIN new : new[i] \in [closed : Nat \cup {Open}]
    BY <1>1 DEF Healthy
  <2> QED BY <2>1, <1>1 DEF Put
<1>4. OpenSessions(new) \subseteq {n + 1}
  BY <1>1 DEF OpenSessions, IsClosed
<1>5. \A i \in DOMAIN new : new[i].closed <= t
  BY <1>0, <1>1 DEF Healthy, Open
<1>6. \A i, k \in DOMAIN new : i < k /\ IsClosed(new, k) => new[i].closed <= new[k].closed
  <2> SUFFICES ASSUME NEW i \in DOMAIN new, NEW k \in DOMAIN new, i < k, IsClosed(new, k)
               PROVE  new[i].closed <= new[k].closed
    OBVIOUS
  <2>1. k \in DOMAIN rec
    BY <1>1 DEF IsClosed
  <2>2. i \in DOMAIN rec
    BY <1>0, <1>1, <2>1
  <2> QED BY <1>1, <2>1, <2>2 DEF Healthy, IsClosed
<1>7. \A i \in DOMAIN new : i .. (n + 1) \subseteq DOMAIN new
  <2> SUFFICES ASSUME NEW i \in DOMAIN new, NEW k \in i .. (n + 1)
               PROVE  k \in DOMAIN new
    OBVIOUS
  <2>1. CASE k = n + 1
    BY <1>1, <2>1
  <2>2. CASE k # n + 1
    <3>1. i \in DOMAIN rec /\ k \in i .. n
      BY <1>0, <1>1, <2>2
    <3> QED BY <3>1, <1>1 DEF Healthy
  <2> QED BY <2>1, <2>2
<1>8. {i \in 1 .. (n + 1) : i > (n + 1) - ClosedMax} \subseteq DOMAIN new
  <2> SUFFICES ASSUME NEW i \in 1 .. (n + 1), i > (n + 1) - ClosedMax, i # n + 1
               PROVE  i \in DOMAIN rec
    BY <1>1
  <2>1. i \in 1 .. n /\ i > n - ClosedMax
    BY <1>0, SessionRecordAssumption
  <2> QED BY <2>1 DEF Healthy
<1> HIDE DEF new
<1> QED BY <1>0, <1>2, <1>3, <1>4, <1>5, <1>6, <1>7, <1>8 DEF Healthy, new

\* What the loop of removeOldSessions leaves has no gap and the newest ones.
LEMMA KeptIsNewest ==
    ASSUME NEW rec, NEW n, NEW t, Healthy(rec, n, t), NEW kept, Leaves(rec, kept)
    PROVE  /\ kept \subseteq DOMAIN rec
           /\ \A i \in kept : i .. n \subseteq kept
           /\ {i \in 1 .. n : i > n - ClosedMax} \subseteq kept
<1>0. n \in Nat /\ DOMAIN rec \subseteq 1 .. n /\ \A i \in DOMAIN rec : i \in Int
  BY DEF Healthy
<1>1. CASE Cardinality(DOMAIN rec) <= ClosedMax
  BY <1>1 DEF Leaves, Healthy
<1>2. CASE ~(Cardinality(DOMAIN rec) <= ClosedMax)
  <2>1. /\ kept \subseteq DOMAIN rec
        /\ Cardinality(kept) = ClosedMax
        /\ \A i \in DOMAIN rec \ kept :
              /\ IsClosed(rec, i)
              /\ \A k \in kept : IsClosed(rec, k) => RemovedBefore(rec, i, k)
    BY <1>2 DEF Leaves
  <2>2. ASSUME NEW i \in DOMAIN rec \ kept, NEW k \in kept
        PROVE  i < k
    <3>1. i # k /\ i \in 1 .. n /\ k \in 1 .. n /\ k \in DOMAIN rec
      BY <1>0, <2>1
    <3>2. CASE IsClosed(rec, k)
      <4>1. RemovedBefore(rec, i, k)
        BY <2>1, <3>2
      <4>2. rec[i].closed \in Int /\ rec[k].closed \in Int
        BY <3>1 DEF Healthy, Open
      <4>3. k < i => rec[k].closed <= rec[i].closed
        BY <2>1, <3>1 DEF Healthy
      <4> QED BY <3>1, <4>1, <4>2, <4>3 DEF RemovedBefore
    <3>3. CASE ~IsClosed(rec, k)
      <4>1. k = n
        BY <3>1, <3>3 DEF Healthy, OpenSessions
      <4> QED BY <1>0, <3>1, <4>1
    <3> QED BY <3>2, <3>3
  <2>3. ASSUME NEW i \in kept, NEW k \in i .. n
        PROVE  k \in kept
    <3>1. k \in DOMAIN rec
      BY <2>1 DEF Healthy
    <3>2. k \notin kept => k < i
      BY <2>2, <3>1
    <3> QED BY <1>0, <2>1, <3>2
  <2>4. ASSUME NEW i \in 1 .. n, i > n - ClosedMax
        PROVE  i \in kept
    <3> SUFFICES ASSUME i \notin kept
                 PROVE  FALSE
      OBVIOUS
    <3>1. i \in DOMAIN rec
      BY <2>4 DEF Healthy
    <3>2. kept \subseteq (i + 1) .. n
      BY <1>0, <2>1, <2>2, <3>1
    <3>3. IsFiniteSet((i + 1) .. n) /\ Cardinality((i + 1) .. n) = n - i
      BY <1>0, FS_Interval
    <3>4. Cardinality(kept) <= n - i
      BY <3>2, <3>3, FS_Subset
    <3> QED BY <1>0, <2>1, <2>4, <3>4, SessionRecordAssumption
  <2> QED BY <2>1, <2>3, <2>4
<1> QED BY <1>1, <1>2

LEMMA KeepHealthy ==
    ASSUME NEW rec, NEW n, NEW t, Healthy(rec, n, t), NEW kept, Leaves(rec, kept)
    PROVE  Healthy(KeepOnly(rec, kept), n, t)
<1> DEFINE new == KeepOnly(rec, kept)
<1>1. /\ kept \subseteq DOMAIN rec
      /\ \A i \in kept : i .. n \subseteq kept
      /\ {i \in 1 .. n : i > n - ClosedMax} \subseteq kept
  BY KeptIsNewest
<1>2. DOMAIN new = kept /\ \A i \in kept : new[i] = rec[i]
  BY DEF KeepOnly
<1>3. new \in [DOMAIN new -> [closed : Nat \cup {Open}]]
  <2>1. \A i \in kept : rec[i] \in [closed : Nat \cup {Open}]
    BY <1>1 DEF Healthy
  <2> QED BY <2>1, <1>2 DEF KeepOnly
<1>4. OpenSessions(new) \subseteq OpenSessions(rec)
  BY <1>1, <1>2 DEF OpenSessions, IsClosed
<1>5. \A i, k \in kept : i < k /\ IsClosed(new, k) => new[i].closed <= new[k].closed
  BY <1>1, <1>2 DEF Healthy, IsClosed
<1> HIDE DEF new
<1> QED BY <1>1, <1>2, <1>3, <1>4, <1>5 DEF Healthy, new

\* removeOldSessions finds enough closed sessions in a healthy record: the
\* ones it may leave are the ClosedMax newest.
LEMMA HealthyNotCorrupt ==
    ASSUME NEW rec, NEW n, NEW t, Healthy(rec, n, t)
    PROVE  ~Corrupt(rec)
<1>0. n \in Nat /\ DOMAIN rec \subseteq 1 .. n /\ \A i \in DOMAIN rec : i \in Int
  BY DEF Healthy
<1>1. SUFFICES \E kept : Leaves(rec, kept) /\ kept \subseteq DOMAIN rec
  BY DEF Corrupt, Kept
<1>2. CASE Cardinality(DOMAIN rec) <= ClosedMax
  BY <1>2 DEF Leaves
<1>3. CASE ~(Cardinality(DOMAIN rec) <= ClosedMax)
  <2> DEFINE kept == (n - ClosedMax + 1) .. n
  <2>1. IsFiniteSet(1 .. n) /\ Cardinality(1 .. n) = n
    BY <1>0, FS_Interval
  <2>2. Cardinality(DOMAIN rec) <= n /\ Cardinality(DOMAIN rec) \in Nat
    BY <1>0, <2>1, FS_Subset, FS_CardinalityType
  <2>3. ClosedMax \in Nat \ {0} /\ ClosedMax < n
    BY <1>0, <1>3, <2>2, SessionRecordAssumption
  <2>4. kept = {i \in 1 .. n : i > n - ClosedMax}
    BY <1>0, <2>3
  <2>5. kept \subseteq DOMAIN rec
    BY <2>4 DEF Healthy
  <2>6. Cardinality(kept) = ClosedMax
    BY <1>0, <2>3, FS_Interval
  <2>7. ASSUME NEW i \in DOMAIN rec \ kept
        PROVE  /\ IsClosed(rec, i)
               /\ \A k \in kept : IsClosed(rec, k) => RemovedBefore(rec, i, k)
    <3>1. i \in 1 .. n /\ i < n - ClosedMax + 1 /\ i # n
      BY <1>0, <2>3
    <3>2. IsClosed(rec, i)
      BY <3>1 DEF Healthy, OpenSessions
    <3>3. ASSUME NEW k \in kept, IsClosed(rec, k)
          PROVE  RemovedBefore(rec, i, k)
      <4>1. i < k /\ k \in DOMAIN rec
        BY <1>0, <2>3, <2>5, <3>1
      <4>2. rec[i].closed <= rec[k].closed /\ rec[i].closed \in Int /\ rec[k].closed \in Int
        BY <3>3, <4>1 DEF Healthy, Open
      <4> QED BY <4>1, <4>2 DEF RemovedBefore
    <3> QED BY <3>2, <3>3
  <2> HIDE DEF kept
  <2> QED BY <1>3, <2>5, <2>6, <2>7 DEF Leaves
<1> QED BY <1>2, <1>3
-----------------------------------------------------------------------------
\* RecordInv says just that the stored record is healthy.
LEMMA IndInvHealthy ==
    RecordInv <=> /\ Healthy(record, opened, now)
               /\ opened <= MaxSessions
               /\ NeverCorrupt
               /\ corrupt \in BOOLEAN
<1> USE SessionStoreAssumption
<1>1. ASSUME RecordInv
      PROVE  Healthy(record, opened, now) /\ opened <= MaxSessions
  BY <1>1 DEF RecordInv, StoreTypeOK, OnlyNewestOpen, NewestKept, ClosedInOrder, Healthy
<1>2. ASSUME Healthy(record, opened, now), opened <= MaxSessions
      PROVE  /\ opened \in 0 .. MaxSessions
             /\ DOMAIN record \subseteq 1 .. opened
             /\ record \in [DOMAIN record -> [closed : Nat \cup {Open}]]
             /\ now \in Nat
             /\ OnlyNewestOpen /\ NewestKept /\ ClosedInOrder
  BY <1>2 DEF OnlyNewestOpen, NewestKept, ClosedInOrder, Healthy
<1> QED BY <1>1, <1>2, Zenon DEF RecordInv, StoreTypeOK

\* The same after a step that does not fail.
LEMMA HealthyIndInvNext ==
    ASSUME Healthy(record', opened', now'), opened' <= MaxSessions,
           corrupt' = corrupt, NeverCorrupt, corrupt \in BOOLEAN
    PROVE  RecordInv'
<1>1. /\ opened' \in 0 .. MaxSessions
      /\ DOMAIN record' \subseteq 1 .. opened'
      /\ record' \in [DOMAIN record' -> [closed : Nat \cup {Open}]]
      /\ now' \in Nat
      /\ OnlyNewestOpen' /\ NewestKept' /\ ClosedInOrder'
  BY SessionStoreAssumption DEF OnlyNewestOpen, NewestKept, ClosedInOrder, Healthy
<1>2. NeverCorrupt' /\ corrupt' \in BOOLEAN
  BY Zenon DEF NeverCorrupt
<1> QED BY <1>1, <1>2, Zenon DEF RecordInv, StoreTypeOK

\* A job that ends in storeRecord with a healthy record.
LEMMA StoreKeepsIndInv ==
    ASSUME NEW rec, NEW put \in {0, 1}, RecordInv, now' \in Nat,
           Healthy(rec, opened + put, now'), opened + put <= MaxSessions,
           StoreRecord(rec, put)
    PROVE  RecordInv'
<1>1. ~Corrupt(rec)
  BY HealthyNotCorrupt
<1>2. PICK kept \in Kept(rec) : record' = KeepOnly(rec, kept)
  BY <1>1 DEF StoreRecord
<1>3. opened' = opened + put /\ corrupt' = corrupt
  BY <1>1 DEF StoreRecord
<1>4. Healthy(record', opened', now') /\ opened' <= MaxSessions
  BY <1>2, <1>3, KeepHealthy DEF Kept
<1> QED BY <1>3, <1>4, IndInvHealthy, HealthyIndInvNext

LEMMA StoreStep == RecordInv /\ [StoreNext]_storeVars => RecordInv'
<1> SUFFICES ASSUME RecordInv, [StoreNext]_storeVars
             PROVE  RecordInv'
  OBVIOUS
<1> USE SessionStoreAssumption
<1>0. Healthy(record, opened, now) /\ opened <= MaxSessions /\ NeverCorrupt /\ corrupt \in BOOLEAN
  BY IndInvHealthy
<1>1. ASSUME NEW t \in Times, InitOutgoing(t)
      PROVE  RecordInv'
  <2>1. now <= t /\ now' = t /\ t \in Nat /\ opened < MaxSessions
    BY <1>1 DEF InitOutgoing, At
  <2>2. Healthy(CloseOpen(record, t), opened, t) /\ OpenSessions(CloseOpen(record, t)) = {}
    BY <1>0, <2>1, CloseHealthy
  <2>3. Healthy(Put(CloseOpen(record, t), opened + 1, NewEntry), opened + 1, t)
    BY <2>2, PutHealthy
  <2>4. Healthy(record', opened', now') /\ opened' <= MaxSessions
    BY <1>0, <1>1, <2>1, <2>3 DEF InitOutgoing, Healthy
  <2>5. corrupt' = corrupt
    BY <1>1 DEF InitOutgoing
  <2> QED BY <1>0, <2>4, <2>5, HealthyIndInvNext
<1>2. ASSUME NEW t \in Times, InitIncoming(t)
      PROVE  RecordInv'
  <2>1. now <= t /\ now' = t /\ t \in Nat /\ opened < MaxSessions
    BY <1>2 DEF InitIncoming, At
  <2>2. Healthy(CloseOpen(record, t), opened, t) /\ OpenSessions(CloseOpen(record, t)) = {}
    BY <1>0, <2>1, CloseHealthy
  <2>3. Healthy(Put(CloseOpen(record, t), opened + 1, NewEntry), opened + 1, t)
    BY <2>2, PutHealthy
  <2>4. opened + 1 <= MaxSessions
    BY <1>0, <2>1 DEF Healthy
  <2> QED BY <1>2, <2>1, <2>3, <2>4, StoreKeepsIndInv DEF InitIncoming
<1>3. ASSUME NEW t \in Times, Use(t)
      PROVE  RecordInv'
  <2>1. now <= t /\ now' = t /\ t \in Nat
    BY <1>3 DEF Use, At
  <2>2. Healthy(record, opened, t) /\ opened + 0 = opened
    BY <1>0, <2>1 DEF Healthy, Open
  <2> QED BY <1>0, <1>3, <2>1, <2>2, StoreKeepsIndInv DEF Use
<1>4. ASSUME NEW t \in Times, CloseOpenSession(t)
      PROVE  RecordInv'
  <2>1. now <= t /\ now' = t /\ t \in Nat
    BY <1>4 DEF CloseOpenSession, At
  <2>2. Healthy(CloseOpen(record, t), opened, t) /\ opened + 0 = opened
    BY <1>0, <2>1, CloseHealthy DEF Healthy
  <2> QED BY <1>0, <1>4, <2>1, <2>2, StoreKeepsIndInv DEF CloseOpenSession
<1>5. CASE UNCHANGED storeVars
  BY <1>5 DEF storeVars, RecordInv, StoreTypeOK, OnlyNewestOpen, NeverCorrupt, NewestKept,
              ClosedInOrder, OpenSessions, IsClosed
<1> QED BY <1>1, <1>2, <1>3, <1>4, <1>5 DEF StoreNext

LEMMA StoreStart == StoreInit => RecordInv
<1> SUFFICES ASSUME StoreInit
             PROVE  RecordInv
  OBVIOUS
<1>1. DOMAIN record = {} /\ opened = 0 /\ now = 0
  BY DEF StoreInit
<1>2. record \in [DOMAIN record -> [closed : Nat \cup {Open}]]
  BY <1>1 DEF StoreInit
<1>3. OpenSessions(record) = {}
  BY <1>1 DEF OpenSessions
<1>4. Healthy(record, opened, now) /\ opened <= MaxSessions
  BY <1>1, <1>2, <1>3, SessionStoreAssumption DEF Healthy
<1>5. NeverCorrupt /\ corrupt \in BOOLEAN
  BY Zenon DEF StoreInit, NeverCorrupt
<1> QED BY <1>4, <1>5, IndInvHealthy

\* The record stays healthy through every sequence of session operations.
THEOREM RecordStaysHealthy == StoreSpec => []RecordInv
BY StoreStart, StoreStep, PTL DEF StoreSpec

\* removeOldSessions never throws 'Corrupt sessions object', although
\* initOutgoing lets the record grow past the limit.
THEOREM RemovalNeverFails == StoreSpec => []NeverCorrupt
<1>1. RecordInv => NeverCorrupt
  BY DEF RecordInv
<1> QED BY <1>1, RecordStaysHealthy, PTL

\* The ClosedMax newest sessions are never among those removed.
THEOREM RemovalSparesTheNewest == StoreSpec => []NewestKept
<1>1. RecordInv => NewestKept
  BY DEF RecordInv
<1> QED BY <1>1, RecordStaysHealthy, PTL

\* getOpenSession never has a choice.
THEOREM OneSessionOpen == StoreSpec => []OnlyNewestOpen
<1>1. RecordInv => OnlyNewestOpen
  BY DEF RecordInv
<1> QED BY <1>1, RecordStaysHealthy, PTL

-----------------------------------------------------------------------------
(* The cache of retries. *)

LEMMA InitEstablishes == RetryInit => RetryInv
BY MessageRetryAssumption
   DEF RetryInit, RetryInv, RetryTypeOK, NothingAhead, IndexExact, Counted, ResendsBounded, GivenUpIsGone, Never

\* A counter of a message that is still there has not expired, so that it
\* holds every answer since the message came: this is what the two lifetimes
\* are for.
LEMMA CounterOutlives ==
    ASSUME RetryInv, NEW k \in Messages, Cached(k)
    PROVE  RetryCount(IdOf[k]) \in Nat /\ RetryCount(IdOf[k]) >= resent[k]
<1> DEFINE i == IdOf[k]
<1>1. /\ i \in Ids /\ time \in Nat /\ added[k] \in Nat \cup {Never} /\ resent[k] \in Nat
      /\ count[i] \in Nat /\ counted[i] \in Nat \cup {Never}
      /\ MessageTTL \in Nat /\ CounterTTL \in Nat /\ MessageTTL <= CounterTTL
  BY MessageRetryAssumption DEF RetryInv, RetryTypeOK
<1>2. added[k] # Never /\ time - added[k] <= MessageTTL
  BY DEF Cached
<1>3. resent[k] > 0 => counted[i] >= added[k] /\ count[i] >= resent[k]
  BY <1>2 DEF RetryInv, Counted
<1>4. CASE resent[k] = 0
  BY <1>1, <1>4 DEF RetryCount
<1>5. CASE resent[k] > 0
  <2>1. counted[i] # Never /\ time - counted[i] <= CounterTTL
    BY <1>1, <1>2, <1>3, <1>5 DEF Never
  <2> QED BY <1>1, <1>3, <1>5, <2>1 DEF RetryCount, FreshCounter
<1> QED BY <1>1, <1>4, <1>5

LEMMA TypePreserved == RetryInv /\ [RetryNext]_retryVars => RetryTypeOK'
<1> SUFFICES ASSUME RetryInv, [RetryNext]_retryVars PROVE RetryTypeOK'
  OBVIOUS
<1>t. RetryTypeOK
  BY DEF RetryInv
<1> USE MessageRetryAssumption
<1>1. ASSUME NEW k \in Messages, Upsert(k) PROVE RetryTypeOK'
  BY <1>1, <1>t DEF RetryTypeOK, Upsert, Oldest, Older, Without, Disposed, Never
<1>2. ASSUME NEW k \in Messages, RetryUnknown(k) PROVE RetryTypeOK'
  BY <1>2, <1>t DEF RetryTypeOK, RetryUnknown, Without, Disposed, Never
<1>3. ASSUME NEW k \in Messages, RetryAnswered(k) PROVE RetryTypeOK'
  <2>1. RetryCount(IdOf[k]) + 1 \in Nat
    BY <1>3, CounterOutlives DEF RetryAnswered
  <2> QED BY <1>3, <1>t, <2>1 DEF RetryTypeOK, RetryAnswered
<1>4. ASSUME NEW k \in Messages, RetryGivenUp(k) PROVE RetryTypeOK'
  BY <1>4, <1>t DEF RetryTypeOK, RetryGivenUp, Removed, Without, Never
<1>5. CASE Purge
  BY <1>5, <1>t DEF RetryTypeOK, Purge, Never
<1>6. CASE Tick
  BY <1>6, <1>t DEF RetryTypeOK, Tick
<1>7. CASE UNCHANGED retryVars
  BY <1>7, <1>t DEF RetryTypeOK, retryVars
<1> QED BY <1>1, <1>2, <1>3, <1>4, <1>5, <1>6, <1>7 DEF RetryNext

LEMMA NothingAheadPreserved == RetryInv /\ [RetryNext]_retryVars => NothingAhead'
<1> SUFFICES ASSUME RetryInv, [RetryNext]_retryVars PROVE NothingAhead'
  OBVIOUS
<1>t. RetryTypeOK /\ NothingAhead
  BY DEF RetryInv
<1> USE MessageRetryAssumption
<1>1. ASSUME NEW k \in Messages, Upsert(k) PROVE NothingAhead'
  BY <1>1, <1>t DEF RetryTypeOK, NothingAhead, Upsert, Oldest, Older, Without, Never
<1>2. ASSUME NEW k \in Messages, RetryUnknown(k) PROVE NothingAhead'
  BY <1>2, <1>t DEF RetryTypeOK, NothingAhead, RetryUnknown, Without, Never
<1>3. ASSUME NEW k \in Messages, RetryAnswered(k) PROVE NothingAhead'
  BY <1>3, <1>t DEF RetryTypeOK, NothingAhead, RetryAnswered
<1>4. ASSUME NEW k \in Messages, RetryGivenUp(k) PROVE NothingAhead'
  BY <1>4, <1>t DEF RetryTypeOK, NothingAhead, RetryGivenUp, Removed, Without, Never
<1>5. CASE Purge
  BY <1>5, <1>t DEF RetryTypeOK, NothingAhead, Purge, Never
<1>6. CASE Tick
  BY <1>6, <1>t DEF RetryTypeOK, NothingAhead, Tick, Never
<1>7. CASE UNCHANGED retryVars
  BY <1>7, <1>t DEF NothingAhead, retryVars
<1> QED BY <1>1, <1>2, <1>3, <1>4, <1>5, <1>6, <1>7 DEF RetryNext

LEMMA IndexExactPreserved ==
    ASSUME UniqueIds PROVE RetryInv /\ [RetryNext]_retryVars => IndexExact'
<1> SUFFICES ASSUME RetryInv, [RetryNext]_retryVars PROVE IndexExact'
  OBVIOUS
<1>t. RetryTypeOK /\ IndexExact /\ \A k \in Messages : IdOf[k] \in Ids
  BY MessageRetryAssumption DEF RetryInv
<1>n. NoMessage \notin Messages
  BY MessageRetryAssumption
<1>u. \A j, k \in Messages : IdOf[j] = IdOf[k] => j = k
  BY DEF UniqueIds
<1>1. ASSUME NEW k \in Messages, Upsert(k) PROVE IndexExact'
  <2>1. CASE /\ added' = [added EXCEPT ![k] = time]
             /\ index' = [index EXCEPT ![IdOf[k]] = k]
    BY <1>t, <1>u, <2>1 DEF RetryTypeOK, IndexExact, Never
  <2>2. CASE \E j \in Oldest(k) :
                /\ added' = [Without(added, j) EXCEPT ![k] = time]
                /\ index' = [Disposed(index, j) EXCEPT ![IdOf[k]] = k]
    <3>1. PICK j \in Oldest(k) :
                /\ added' = [Without(added, j) EXCEPT ![k] = time]
                /\ index' = [Disposed(index, j) EXCEPT ![IdOf[k]] = k]
      BY <2>2
    <3>2. j \in Messages /\ j # k
      BY DEF Oldest, Older
    <3> QED BY <1>t, <1>n, <1>u, <3>1, <3>2 DEF RetryTypeOK, IndexExact, Without, Disposed, Never
  <2> QED BY <1>1, <2>1, <2>2 DEF Upsert
<1>2. ASSUME NEW k \in Messages, RetryUnknown(k) PROVE IndexExact'
  <2>1. CASE added[k] = Never
    <3>1. added' = added /\ index' = index
      BY <1>2, <1>t, <2>1 DEF RetryTypeOK, RetryUnknown, Without
    <3> QED BY <1>t, <3>1 DEF IndexExact
  <2>2. CASE added[k] # Never
    BY <1>2, <1>t, <1>n, <1>u, <2>2 DEF RetryTypeOK, IndexExact, RetryUnknown, Without, Disposed
  <2> QED BY <2>1, <2>2
<1>3. ASSUME NEW k \in Messages, RetryAnswered(k) PROVE IndexExact'
  BY <1>3, <1>t DEF IndexExact, RetryAnswered
<1>4. ASSUME NEW k \in Messages, RetryGivenUp(k) PROVE IndexExact'
  <2>1. index[IdOf[k]] = k
    BY <1>4, <1>t DEF IndexExact, RetryGivenUp, Cached
  <2>2. added' = Without(added, k) /\ index' = [index EXCEPT ![IdOf[k]] = NoMessage]
    BY <1>4, <1>n, <2>1 DEF RetryGivenUp, Removed
  <2> QED BY <1>t, <1>n, <1>u, <2>2 DEF RetryTypeOK, IndexExact, Without
<1>5. CASE Purge
  <2> DEFINE gone == {k \in Messages : added[k] # Never /\ ~Cached(k)}
  <2>1. /\ added' = [k \in Messages |-> IF k \in gone THEN Never ELSE added[k]]
        /\ index' = [i \in Ids |-> IF \E k \in gone : IdOf[k] = i THEN NoMessage ELSE index[i]]
    BY <1>5 DEF Purge
  <2> SUFFICES ASSUME NEW k \in Messages PROVE (added[k] # Never <=> index[IdOf[k]] = k)'
    BY DEF IndexExact
  <2>2. (\E j \in gone : IdOf[j] = IdOf[k]) <=> k \in gone
    BY <1>u
  <2> HIDE DEF gone
  <2>3. /\ added'[k] = IF k \in gone THEN Never ELSE added[k]
        /\ index'[IdOf[k]] = IF k \in gone THEN NoMessage ELSE index[IdOf[k]]
    BY <1>t, <2>1, <2>2
  <2> QED BY <1>t, <1>n, <2>3 DEF IndexExact
<1>6. CASE Tick
  BY <1>6, <1>t DEF IndexExact, Tick
<1>7. CASE UNCHANGED retryVars
  BY <1>7, <1>t DEF IndexExact, retryVars
<1> QED BY <1>1, <1>2, <1>3, <1>4, <1>5, <1>6, <1>7 DEF RetryNext

LEMMA CountedPreserved ==
    ASSUME UniqueIds PROVE RetryInv /\ [RetryNext]_retryVars => Counted'
<1> SUFFICES ASSUME RetryInv, [RetryNext]_retryVars PROVE Counted'
  OBVIOUS
<1>t. RetryTypeOK /\ NothingAhead /\ IndexExact /\ Counted /\ \A k \in Messages : IdOf[k] \in Ids
  BY MessageRetryAssumption DEF RetryInv
<1>u. \A j, k \in Messages : IdOf[j] = IdOf[k] => j = k
  BY DEF UniqueIds
<1>n. NoMessage \notin Messages
  BY MessageRetryAssumption
<1>a. ASSUME NEW k \in Messages, UNCHANGED <<count, counted>>,
             \A j \in Messages : j = k \/ (resent'[j] = resent[j] /\ added'[j] \in {Never, added[j]}),
             resent'[k] = 0 \/ added'[k] = Never
      PROVE  Counted'
  BY <1>t, <1>a DEF Counted
<1>1. ASSUME NEW k \in Messages, Upsert(k) PROVE Counted'
  BY <1>1, <1>t, <1>a DEF RetryTypeOK, Upsert, Oldest, Older, Without
<1>2. ASSUME NEW k \in Messages, RetryUnknown(k) PROVE Counted'
  BY <1>2, <1>t, <1>a DEF RetryTypeOK, RetryUnknown, Without
<1>3. ASSUME NEW k \in Messages, RetryAnswered(k) PROVE Counted'
  <2> DEFINE i == IdOf[k]
  <2>1. RetryCount(i) \in Nat /\ RetryCount(i) >= resent[k]
    BY <1>3, CounterOutlives DEF RetryAnswered
  <2>2. /\ count' = [count EXCEPT ![i] = RetryCount(i) + 1]
        /\ counted' = [counted EXCEPT ![i] = time]
        /\ resent' = [resent EXCEPT ![k] = @ + 1]
        /\ added' = added
    BY <1>3 DEF RetryAnswered
  <2>3. added[k] <= time /\ resent[k] \in Nat /\ time \in Nat /\ i \in Ids
    BY <1>t DEF RetryTypeOK, NothingAhead
  <2> HIDE DEF i
  <2>4. count'[i] >= resent'[k] /\ counted'[i] >= added'[k]
    BY <1>t, <2>1, <2>2, <2>3 DEF RetryTypeOK
  <2>5. ASSUME NEW j \in Messages, j # k
        PROVE  IdOf[j] # i /\ resent'[j] = resent[j]
               /\ count'[IdOf[j]] = count[IdOf[j]] /\ counted'[IdOf[j]] = counted[IdOf[j]]
    BY <1>t, <1>u, <2>2, <2>5 DEF RetryTypeOK, i
  <2> QED BY <1>t, <2>2, <2>4, <2>5 DEF Counted, i
<1>4. ASSUME NEW k \in Messages, RetryGivenUp(k) PROVE Counted'
  <2>1. index[IdOf[k]] = k
    BY <1>4, <1>t DEF IndexExact, RetryGivenUp, Cached
  <2>2. /\ added' = Without(added, k) /\ resent' = resent
        /\ count' = [count EXCEPT ![IdOf[k]] = 0]
        /\ counted' = [counted EXCEPT ![IdOf[k]] = Never]
    BY <1>4, <1>n, <2>1 DEF RetryGivenUp, Removed
  <2> QED BY <1>t, <1>u, <2>2 DEF RetryTypeOK, Counted, Without
<1>5. CASE Purge
  BY <1>5, <1>t DEF RetryTypeOK, Counted, Purge
<1>6. CASE Tick
  BY <1>6, <1>t DEF Counted, Tick
<1>7. CASE UNCHANGED retryVars
  BY <1>7, <1>t DEF Counted, retryVars
<1> QED BY <1>1, <1>2, <1>3, <1>4, <1>5, <1>6, <1>7 DEF RetryNext

LEMMA ResendsBoundedPreserved == RetryInv /\ [RetryNext]_retryVars => ResendsBounded'
<1> SUFFICES ASSUME RetryInv, [RetryNext]_retryVars PROVE ResendsBounded'
  OBVIOUS
<1>t. RetryTypeOK /\ ResendsBounded /\ RetryLimit \in Nat
  BY MessageRetryAssumption DEF RetryInv
<1>1. ASSUME NEW k \in Messages, Upsert(k) PROVE ResendsBounded'
  BY <1>1, <1>t DEF RetryTypeOK, ResendsBounded, Upsert
<1>3. ASSUME NEW k \in Messages, RetryAnswered(k) PROVE ResendsBounded'
  <2>1. RetryCount(IdOf[k]) \in Nat /\ RetryCount(IdOf[k]) >= resent[k]
    BY <1>3, CounterOutlives DEF RetryAnswered
  <2>2. ~(RetryCount(IdOf[k]) + 1 > RetryLimit) /\ resent' = [resent EXCEPT ![k] = @ + 1]
    BY <1>3 DEF RetryAnswered, Exceeds
  <2>3. resent[k] \in Nat /\ resent[k] + 1 <= RetryLimit
    BY <1>t, <2>1, <2>2 DEF RetryTypeOK
  <2> QED BY <1>t, <2>2, <2>3 DEF RetryTypeOK, ResendsBounded
<1>4. CASE UNCHANGED resent
  BY <1>4, <1>t DEF ResendsBounded
<1> QED BY <1>1, <1>3, <1>4 DEF RetryNext, RetryUnknown, RetryGivenUp, Purge, Tick, retryVars

LEMMA GivenUpPreserved == RetryInv /\ [RetryNext]_retryVars => GivenUpIsGone'
<1> SUFFICES ASSUME RetryInv, [RetryNext]_retryVars PROVE GivenUpIsGone'
  OBVIOUS
<1>t. RetryTypeOK /\ GivenUpIsGone /\ IndexExact
  BY DEF RetryInv
<1>n. NoMessage \notin Messages
  BY MessageRetryAssumption
<1>1. ASSUME NEW k \in Messages, Upsert(k) PROVE GivenUpIsGone'
  BY <1>1, <1>t DEF RetryTypeOK, GivenUpIsGone, Upsert, Oldest, Older, Without
<1>2. ASSUME NEW k \in Messages, RetryUnknown(k) PROVE GivenUpIsGone'
  BY <1>2, <1>t DEF RetryTypeOK, GivenUpIsGone, RetryUnknown, Without
<1>3. ASSUME NEW k \in Messages, RetryAnswered(k) PROVE GivenUpIsGone'
  BY <1>3, <1>t DEF GivenUpIsGone, RetryAnswered
<1>4. ASSUME NEW k \in Messages, RetryGivenUp(k) PROVE GivenUpIsGone'
  <2>1. index[IdOf[k]] = k
    BY <1>4, <1>t DEF IndexExact, RetryGivenUp, Cached
  <2>2. added' = Without(added, k) /\ gaveUp' = gaveUp \cup {k}
    BY <1>4, <1>n, <2>1 DEF RetryGivenUp, Removed
  <2> QED BY <1>t, <2>2 DEF RetryTypeOK, GivenUpIsGone, Without
<1>5. CASE Purge
  BY <1>5, <1>t DEF RetryTypeOK, GivenUpIsGone, Purge
<1>6. CASE Tick
  BY <1>6, <1>t DEF GivenUpIsGone, Tick
<1>7. CASE UNCHANGED retryVars
  BY <1>7, <1>t DEF GivenUpIsGone, retryVars
<1> QED BY <1>1, <1>2, <1>3, <1>4, <1>5, <1>6, <1>7 DEF RetryNext

\* The inductive invariant: the cache and its index know the same messages,
\* a counter holds every answer to a message that is there and is not older
\* than it, and what was given up is gone.  The code relies on message ids
\* being unique, since messageKeyIndex is keyed by them.
THEOREM RetryConsistency ==
    ASSUME UniqueIds PROVE RetrySpec => []RetryInv
<1>1. RetryInit => RetryInv
  BY InitEstablishes
<1>2. RetryInv /\ [RetryNext]_retryVars => RetryInv'
  BY TypePreserved, NothingAheadPreserved, IndexExactPreserved, CountedPreserved,
     ResendsBoundedPreserved, GivenUpPreserved DEF RetryInv
<1> QED BY <1>1, <1>2, PTL DEF RetrySpec

\* No message is answered more than RetryLimit times while it is there,
\* however many devices ask and whatever falls between (incrementRetryCount,
\* handleReceipt).
THEOREM ResendsAreBounded ==
    ASSUME UniqueIds PROVE RetrySpec => []ResendsBounded
<1>1. RetryInv => ResendsBounded
  BY DEF RetryInv
<1> QED BY <1>1, RetryConsistency, PTL

\* A message that was given up is not answered again (markRetryFailed).
THEOREM GivenUpStaysGone ==
    ASSUME UniqueIds PROVE RetrySpec => []GivenUpIsGone
<1>1. RetryInv => GivenUpIsGone
  BY DEF RetryInv
<1> QED BY <1>1, RetryConsistency, PTL

-----------------------------------------------------------------------------

(***************************************************************************)
(* Mappings of numbers and LIDs.  A key that is not in doubt has one value *)
(* wherever it is: in the cache, in the context or else the store, and in  *)
(* the hands of whoever is reading it.  While a call writes a pair, its    *)
(* keys are only where the call has brought them: into the context, or     *)
(* into the files that are not under way any more.  It takes them out of   *)
(* doubt, unless another call is writing them; at its end they come back   *)
(* into doubt if somebody is reading them; what a commit does not write    *)
(* comes into doubt.                                                       *)
(***************************************************************************)
LidsOrNone == Lids \cup {NoUser}
PnsOrNone == Pns \cup {NoUser}

CallRecords ==
    [kind : {"none", "store", "lid", "pn"},
     pc : {"new", "comparing", "reading", "writing", "setting", "failed", "committing", "asking", "done"},
     pairs : Seq(Pairs), at : Nat \ {0}, set : SUBSET Pairs,
     key : Pns \cup Lids \cup {NoUser}, out : Pns \cup Lids \cup {NoUser},
     left : SUBSET (Pns \cup Lids)]

MapTyped ==
    /\ cacheLid \in [Pns -> LidsOrNone] /\ cachePn \in [Lids -> PnsOrNone]
    /\ storedLid \in [Pns -> LidsOrNone] /\ storedPn \in [Lids -> PnsOrNone]
    /\ pendingLid \in [Pns -> LidsOrNone] /\ pendingPn \in [Lids -> PnsOrNone]
    /\ taking \in [lid : [Pns -> LidsOrNone], pn : [Lids -> PnsOrNone]]
    /\ told \in [Pns \cup Lids -> Pns \cup Lids \cup {NoUser}]
    /\ call \in [MapCalls -> CallRecords]

\* What a reading call was given is the newest, as long as its key is not in doubt
\* and nobody is writing it.
ReadRight(r) ==
    /\ r.pc = "comparing" => r.kind = "store"
    /\ r.pc = "reading" =>
          /\ \/ r.kind \in {"store", "lid"} /\ r.key \in Pns /\ r.out \in LidsOrNone
             \/ r.kind = "pn" /\ r.key \in Lids /\ r.out \in PnsOrNone
          /\ r.kind = "store" => r.at <= Len(r.pairs)
          /\ r.key \in doubt \cup BeingSet \/ r.out = told[r.key]

\* What a writing call has written is what is read, but for the files under way; of
\* these the context knows nothing.
WriteRight(r) ==
    /\ r.pc \in {"setting", "failed"} => r.key \in Pns /\ r.out \in Lids
    /\ r.left \subseteq {r.key, r.out}
    /\ r.left # {} => r.pc \in {"setting", "failed"}
    /\ r.pc = "setting" =>
          /\ r.key \in doubt \cup r.left \/ ReadLid(r.key) = r.out
          /\ r.out \in doubt \cup r.left \/ ReadPn(r.out) = r.key
    /\ \A k \in r.left \ doubt :
          /\ r.pc = "setting"
          /\ k \in Pns => pendingLid[k] = NoUser
          /\ k \in Lids => pendingPn[k] = NoUser

\* Only a context has mutations, and a commit takes no others.
ContextRight ==
    /\ owner = NoUser => pendingLid = Nowhere /\ pendingPn = NoReverse
    /\ \A p \in Pns : pendingLid[p] = NoUser => taking.lid[p] = NoUser
    /\ \A l \in Lids : pendingPn[l] = NoUser => taking.pn[l] = NoUser

\* What two calls are writing is in doubt.
WritesApart == \A c, d \in MapCalls : c # d => Writes(c) \cap Writes(d) \subseteq doubt

MapInv ==
    /\ MapTyped /\ ContextRight /\ MappingsFollow /\ WritesApart
    /\ \A c \in MapCalls : ReadRight(call[c])
    /\ \A c \in MapCalls : WriteRight(call[c])

\* A call that writes nothing.
Quiet(r) == r.pc \notin {"setting", "failed"} /\ r.left = {}

LEMMA IdleTyped == Idle \in CallRecords /\ Idle.pc = "new" /\ Idle.left = {}
BY DEF Idle, CallRecords

LEMMA MapInitially == MapInit => MapInv
<1> SUFFICES ASSUME MapInit PROVE MapInv
    OBVIOUS
<1>1. /\ Nowhere \in [Pns -> LidsOrNone] /\ NoReverse \in [Lids -> PnsOrNone]
      /\ \A p \in Pns : Nowhere[p] = NoUser
      /\ \A l \in Lids : NoReverse[l] = NoUser
    BY DEF Nowhere, NoReverse, LidsOrNone, PnsOrNone
<1>2. MapTyped
    BY <1>1, IdleTyped DEF MapInit, MapTyped
<1>3. ContextRight /\ MappingsFollow
    BY <1>1 DEF MapInit, ContextRight, MappingsFollow, ReadLid, ReadPn, Known
<1>4. \A c \in MapCalls : call[c].pc = "new" /\ call[c].left = {}
    BY IdleTyped DEF MapInit
<1>5. \A c \in MapCalls : ReadRight(call[c]) /\ WriteRight(call[c]) /\ Writes(c) = {}
    BY <1>4 DEF ReadRight, WriteRight, Writes, Setting
<1>6. WritesApart
    BY <1>5 DEF WritesApart
<1> QED BY <1>2, <1>3, <1>5, <1>6 DEF MapInv

\* What a read finds.
LEMMA ReadsTyped ==
    ASSUME MapInv
    PROVE  /\ \A p \in Pns : ReadLid(p) \in LidsOrNone /\ (p \in doubt \cup BeingSet \/ ReadLid(p) = told[p])
           /\ \A l \in Lids : ReadPn(l) \in PnsOrNone /\ (l \in doubt \cup BeingSet \/ ReadPn(l) = told[l])
BY DEF MapInv, MapTyped, MappingsFollow, ReadLid, ReadPn, Known

LEMMA WhereQuiet ==
    ASSUME MapInv, NEW c \in MapCalls, call[c].pc \notin {"setting", "failed"}
    PROVE  Quiet(call[c])
BY DEF MapInv, WriteRight, Quiet

\* A step of a call that writes nothing is none of the writing calls.
LEMMA WritesStay ==
    ASSUME MapInv, NEW c \in MapCalls, Quiet(call[c]), NEW r \in CallRecords, Quiet(r),
           call' = [call EXCEPT ![c] = r]
    PROVE  /\ BeingSet' = BeingSet
           /\ \A d \in MapCalls : Writes(d)' = Writes(d)
<1>1. call \in [MapCalls -> CallRecords]
    BY DEF MapInv, MapTyped
<1>2. ASSUME NEW d \in MapCalls PROVE Setting(d)' = Setting(d) /\ Writes(d)' = Writes(d)
    BY <1>1 DEF Quiet, Setting, Writes
<1> QED BY <1>2 DEF BeingSet

\* A step of one call that leaves the mappings alone.
LEMMA CallGoesOn ==
    ASSUME MapInv, NEW c \in MapCalls, Quiet(call[c]), NEW r \in CallRecords, ReadRight(r), Quiet(r),
           call' = [call EXCEPT ![c] = r], owner' # NoUser \/ owner' = owner,
           UNCHANGED <<cacheLid, cachePn, storedLid, storedPn, pendingLid, pendingPn, told, doubt>>,
           \/ taking' = taking
           \/ taking' = [lid |-> pendingLid, pn |-> pendingPn]
    PROVE  MapInv'
<1>1. MapTyped'
    BY DEF MapInv, MapTyped
<1>2. ContextRight'
    BY DEF MapInv, MapTyped, ContextRight
<1>3. BeingSet' = BeingSet /\ \A d \in MapCalls : Writes(d)' = Writes(d)
    BY WritesStay
<1>4. MappingsFollow' /\ WritesApart'
    BY <1>3 DEF MapInv, MappingsFollow, WritesApart, ReadLid, ReadPn, Known
<1>5. \A k \in MapCalls : ReadRight(call[k])'
    BY <1>3 DEF MapInv, MapTyped, ReadRight
<1>6. \A k \in MapCalls : WriteRight(call[k])'
    <2>1. ASSUME NEW k \in MapCalls, k # c PROVE WriteRight(call[k])'
        BY <2>1 DEF MapInv, MapTyped, WriteRight, ReadLid, ReadPn, Known
    <2>2. WriteRight(call[c])'
        BY DEF MapInv, MapTyped, WriteRight, Quiet
    <2> QED BY <2>1, <2>2
<1> QED BY <1>1, <1>2, <1>4, <1>5, <1>6 DEF MapInv

\* The same of a call that brings what it read of a number into the cache.
LEMMA CachesKeeps ==
    ASSUME MapInv, NEW c \in MapCalls, Quiet(call[c]), NEW r \in CallRecords, Quiet(r),
           r.pc \notin {"comparing", "reading"} \/ ReadRight(r)',
           call' = [call EXCEPT ![c] = r],
           NEW p \in Pns, NEW l \in Lids, p \in doubt \cup BeingSet \/ l = told[p],
           Caches(p, l), doubt' = doubt \cup LedBack(p, l),
           UNCHANGED <<storedLid, storedPn, pendingLid, pendingPn, taking, owner, told>>
    PROVE  MapInv'
<1>1. /\ cacheLid' = [cacheLid EXCEPT ![p] = l] /\ cachePn' = [cachePn EXCEPT ![l] = p]
      /\ doubt \subseteq doubt' /\ (l \in doubt' \/ told[l] = p)
    BY DEF Caches, LedBack
<1>2. MapTyped'
    BY <1>1 DEF MapInv, MapTyped, LidsOrNone, PnsOrNone
<1>3. ContextRight'
    BY DEF MapInv, ContextRight
<1>4. BeingSet' = BeingSet /\ \A d \in MapCalls : Writes(d)' = Writes(d)
    BY WritesStay
<1>5. MappingsFollow'
    <2>1. ASSUME NEW q \in Pns \ (doubt' \cup BeingSet) PROVE cacheLid'[q] \in {NoUser, told[q]} /\ ReadLid(q)' = told[q]
        BY <2>1, <1>1 DEF MapInv, MapTyped, MappingsFollow, ReadLid, Known
    <2>2. ASSUME NEW q \in Lids \ (doubt' \cup BeingSet) PROVE cachePn'[q] \in {NoUser, told[q]} /\ ReadPn(q)' = told[q]
        BY <2>2, <1>1 DEF MapInv, MapTyped, MappingsFollow, ReadPn, Known
    <2> QED BY <2>1, <2>2, <1>4 DEF MappingsFollow
<1>6. \A k \in MapCalls : ReadRight(call[k])'
    BY <1>1, <1>4 DEF MapInv, MapTyped, ReadRight
<1>7. \A k \in MapCalls : WriteRight(call[k])'
    <2>1. ASSUME NEW k \in MapCalls, k # c PROVE WriteRight(call[k])'
        BY <2>1, <1>1 DEF MapInv, MapTyped, WriteRight, ReadLid, ReadPn, Known
    <2>2. WriteRight(call[c])'
        BY DEF MapInv, MapTyped, WriteRight, Quiet
    <2> QED BY <2>1, <2>2
<1>8. WritesApart'
    BY <1>1, <1>4 DEF MapInv, WritesApart
<1> QED BY <1>2, <1>3, <1>5, <1>6, <1>7, <1>8 DEF MapInv

LEMMA CallStoreKeeps ==
    ASSUME MapInv, NEW c \in MapCalls, NEW n \in Nat, NEW pairs \in [1 .. n -> Pairs], CallStore(c, pairs)
    PROVE  MapInv'
<1> DEFINE r == [Idle EXCEPT !.kind = "store", !.pc = "comparing", !.pairs = pairs]
<1>1. pairs \in Seq(Pairs)
    OBVIOUS
<1>2. r \in CallRecords /\ r.pc = "comparing" /\ r.kind = "store" /\ r.left = {}
    BY <1>1, IdleTyped DEF CallRecords
<1>3. ReadRight(r) /\ Quiet(r)
    BY <1>2 DEF ReadRight, Quiet
<1> HIDE DEF r
<1>4. /\ call' = [call EXCEPT ![c] = r] /\ owner' = owner /\ taking' = taking
      /\ UNCHANGED <<cacheLid, cachePn, storedLid, storedPn, pendingLid, pendingPn, told, doubt>>
      /\ Quiet(call[c])
    BY WhereQuiet DEF CallStore, r
<1> QED BY <1>2, <1>3, <1>4, CallGoesOn

\* The pair that a call compares.
LEMMA PairAtHand ==
    ASSUME MapInv, NEW c \in MapCalls, call[c].at <= Len(call[c].pairs)
    PROVE  /\ call[c].pairs[call[c].at] \in Pairs
           /\ call[c].pairs[call[c].at][1] \in Pns /\ call[c].pairs[call[c].at][2] \in Lids
           /\ \A known : LeftToWrite(c, call[c].pairs[call[c].at][2], known) \in SUBSET Pairs
<1>1. call[c].pairs \in Seq(Pairs) /\ call[c].at \in Nat \ {0} /\ call[c].set \in SUBSET Pairs
    BY DEF MapInv, MapTyped, CallRecords
<1>2. call[c].pairs[call[c].at] \in Pairs
    BY <1>1
<1> QED BY <1>1, <1>2, LidAssumption DEF LeftToWrite

LEMMA CompareKeeps ==
    ASSUME MapInv, NEW c \in MapCalls, Compare(c) PROVE MapInv'
<1> DEFINE p == call[c].pairs[call[c].at][1]
           l == call[c].pairs[call[c].at][2]
           left == LeftToWrite(c, l, cacheLid[p])
           reads == [call[c] EXCEPT !.pc = "reading", !.key = p, !.out = ReadLid(p)]
           goes == [call[c] EXCEPT !.at = call[c].at + 1, !.set = left]
<1>1. /\ call[c] \in CallRecords /\ call[c].pc = "comparing" /\ call[c].kind = "store"
      /\ call[c].at \in Nat /\ p \in Pns /\ left \in SUBSET Pairs /\ Quiet(call[c])
    BY PairAtHand, WhereQuiet DEF Compare, MapInv, MapTyped, ReadRight, CallRecords
<1>2. ReadLid(p) \in LidsOrNone /\ (p \in doubt \cup BeingSet \/ ReadLid(p) = told[p])
    BY <1>1, ReadsTyped
<1>3. CASE cacheLid[p] = NoUser
    <2>1. call' = [call EXCEPT ![c] = reads]
        BY <1>3, <1>1 DEF Compare, CallRecords, MapInv, MapTyped
    <2>2. /\ reads \in CallRecords /\ reads.pc = "reading" /\ reads.kind = "store" /\ reads.key = p
          /\ reads.out = ReadLid(p) /\ reads.at = call[c].at /\ reads.pairs = call[c].pairs
          /\ reads.left = call[c].left
        BY <1>1, <1>2 DEF CallRecords, LidsOrNone
    <2>3. ReadRight(reads) /\ Quiet(reads)
        BY <2>2, <1>1, <1>2 DEF ReadRight, Compare, Quiet
    <2> HIDE DEF reads, p
    <2> QED BY <2>1, <2>2, <2>3, <1>1, CallGoesOn DEF Compare
<1>4. CASE cacheLid[p] # NoUser
    <2>1. call' = [call EXCEPT ![c] = goes]
        BY <1>4, <1>1 DEF Compare, CallRecords, MapInv, MapTyped
    <2> HIDE DEF left, p, l
    <2>2. goes \in CallRecords /\ goes.pc = "comparing" /\ goes.kind = "store" /\ goes.left = call[c].left
        <3>1. call[c].at + 1 \in Nat \ {0}
            BY <1>1
        <3> QED BY <1>1, <3>1 DEF CallRecords
    <2>3. ReadRight(goes) /\ Quiet(goes)
        BY <2>2, <1>1 DEF ReadRight, Quiet
    <2> HIDE DEF goes
    <2> QED BY <2>1, <2>2, <2>3, <1>1, CallGoesOn DEF Compare
<1> QED BY <1>3, <1>4

LEMMA ComparedKeeps ==
    ASSUME MapInv, NEW c \in MapCalls, Compared(c) PROVE MapInv'
<1> DEFINE p == call[c].key
           known == call[c].out
           left == LeftToWrite(c, call[c].pairs[call[c].at][2], known)
           r == [call[c] EXCEPT !.pc = "comparing", !.at = call[c].at + 1, !.key = NoUser, !.out = NoUser, !.set = left]
<1>1. /\ call[c] \in CallRecords /\ call[c].pc = "reading" /\ call[c].kind = "store"
      /\ p \in Pns /\ known \in LidsOrNone /\ (p \in doubt \cup BeingSet \/ known = told[p])
      /\ call[c].at <= Len(call[c].pairs) /\ Quiet(call[c])
    BY WhereQuiet DEF Compared, MapInv, MapTyped, ReadRight
<1>2. left \in SUBSET Pairs /\ call[c].at + 1 \in Nat \ {0}
    BY <1>1, PairAtHand DEF CallRecords
<1>3. call' = [call EXCEPT ![c] = r]
    BY <1>1 DEF Compared, CallRecords, MapInv, MapTyped
<1> HIDE DEF left
<1>4. r \in CallRecords /\ r.pc = "comparing" /\ r.kind = "store" /\ r.left = call[c].left
    BY <1>1, <1>2 DEF CallRecords
<1>5. UNCHANGED <<storedLid, storedPn, pendingLid, pendingPn, taking, owner, told>>
    BY DEF Compared
<1>6. PICK q \in CallRecords : q = r
    BY <1>4
<1>7. call' = [call EXCEPT ![c] = q] /\ ReadRight(q) /\ ReadRight(q)' /\ Quiet(q)
    BY <1>1, <1>3, <1>4, <1>6 DEF ReadRight, Quiet
<1>8. CASE known # NoUser
    <2>1. PICK n \in Pns, l \in Lids : n = p /\ l = known
        BY <1>1, <1>8 DEF LidsOrNone
    <2>2. Caches(n, l) /\ doubt' = doubt \cup LedBack(n, l)
        BY <2>1, <1>8 DEF Compared
    <2> QED BY <2>1, <2>2, <1>1, <1>5, <1>7, CachesKeeps
<1>9. CASE known = NoUser
    <2>1. UNCHANGED <<cacheLid, cachePn, doubt>>
        BY <1>9 DEF Compared
    <2> QED BY <2>1, <1>1, <1>5, <1>7, CallGoesOn
<1> QED BY <1>8, <1>9

\* Steps of a call that only end it or take it further.
LEMMA MapCallEnds ==
    ASSUME MapInv, NEW c \in MapCalls,
           BeginMapping(c) \/ JoinedEnds(c) \/ CommitTakes(c) PROVE MapInv'
<1>1. call[c] \in CallRecords /\ call \in [MapCalls -> CallRecords] /\ c # NoUser /\ Quiet(call[c])
    BY LidAssumption, WhereQuiet DEF MapInv, MapTyped, BeginMapping, JoinedEnds, CommitTakes
<1>2. PICK r \in CallRecords : call' = [call EXCEPT ![c] = r] /\ Quiet(r) /\ r.pc \notin {"comparing", "reading"}
    <2>1. CASE \E pc \in {"writing", "committing"} : Goes(c, pc)
        <3>1. PICK pc \in {"writing", "committing"} : Goes(c, pc)
            BY <2>1
        <3> DEFINE r == [call[c] EXCEPT !.pc = pc]
        <3>2. r \in CallRecords /\ r.pc = pc /\ call' = [call EXCEPT ![c] = r] /\ Quiet(r)
            BY <3>1, <1>1 DEF Goes, CallRecords, Quiet
        <3> QED BY <3>2
    <2>2. CASE Ends(c, NoUser)
        <3> DEFINE r == [call[c] EXCEPT !.pc = "done", !.out = NoUser]
        <3>1. r \in CallRecords /\ r.pc = "done" /\ call' = [call EXCEPT ![c] = r] /\ Quiet(r)
            BY <2>2, <1>1 DEF Ends, CallRecords, Quiet
        <3> QED BY <3>1
    <2> QED BY <2>1, <2>2 DEF BeginMapping, JoinedEnds, CommitTakes
<1>3. ReadRight(r)
    BY <1>2 DEF ReadRight
<1>4. UNCHANGED <<cacheLid, cachePn, storedLid, storedPn, pendingLid, pendingPn, told, doubt>>
    BY DEF BeginMapping, JoinedEnds, CommitTakes
<1>5. owner' # NoUser \/ owner' = owner
    BY <1>1 DEF BeginMapping, JoinedEnds, CommitTakes
<1>6. taking' = taking \/ taking' = [lid |-> pendingLid, pn |-> pendingPn]
    BY DEF BeginMapping, JoinedEnds, CommitTakes
<1> QED BY <1>1, <1>2, <1>3, <1>4, <1>5, <1>6, CallGoesOn

\* Steps of a writing call: nothing else of the call is at work.
LEMMA WriteBeginsKeeps ==
    ASSUME MapInv, NEW c \in MapCalls, WriteBegins(c) PROVE MapInv'
<1>1. /\ call[c] \in CallRecords /\ call \in [MapCalls -> CallRecords] /\ call[c].set \in SUBSET Pairs
      /\ call[c].pc = "writing" /\ Quiet(call[c])
    BY WhereQuiet DEF MapInv, MapTyped, CallRecords, WriteBegins
<1>2. PICK q \in call[c].set :
          /\ IF owner = NoUser
             THEN UNCHANGED <<pendingLid, pendingPn>>
             ELSE pendingLid' = [pendingLid EXCEPT ![q[1]] = q[2]] /\ pendingPn' = [pendingPn EXCEPT ![q[2]] = q[1]]
          /\ call' = [call EXCEPT ![c].pc = "setting", ![c].set = call[c].set \ {q}, ![c].key = q[1], ![c].out = q[2],
                                  ![c].left = IF owner = NoUser THEN {q[1], q[2]} ELSE {}]
          /\ doubt' = (doubt \ {q[1], q[2]}) \cup ({q[1], q[2]} \cap BeingWritten)
    BY <1>1, Zenon DEF WriteBegins
<1>3. PICK p \in Pns, l \in Lids : p = q[1] /\ l = q[2]
    BY <1>1, <1>2, LidAssumption
<1>4. p # l /\ p # NoUser /\ l # NoUser /\ p \notin Lids /\ l \notin Pns
    BY LidAssumption
<1>5. PICK r \in CallRecords :
          /\ call' = [call EXCEPT ![c] = r] /\ r.pc = "setting" /\ r.key = p /\ r.out = l
          /\ r.left = IF owner = NoUser THEN {p, l} ELSE {}
    <2> DEFINE r == [call[c] EXCEPT !.pc = "setting", !.set = call[c].set \ {q}, !.key = p, !.out = l,
                                    !.left = IF owner = NoUser THEN {p, l} ELSE {}]
    <2>1. r \in CallRecords
        BY <1>1 DEF CallRecords
    <2>2. /\ call' = [call EXCEPT ![c] = r] /\ r.pc = "setting" /\ r.key = p /\ r.out = l
          /\ r.left = IF owner = NoUser THEN {p, l} ELSE {}
        BY <1>1, <1>2, <1>3 DEF CallRecords
    <2> QED BY <2>1, <2>2
<1>6. /\ call'[c] = r /\ \A d \in MapCalls : d # c => call'[d] = call[d]
      /\ call' \in [MapCalls -> CallRecords]
    BY <1>1, <1>5
<1>7. /\ UNCHANGED <<cacheLid, cachePn, storedLid, storedPn, taking, owner, told>>
      /\ doubt' = (doubt \ {p, l}) \cup ({p, l} \cap BeingWritten)
    BY <1>2, <1>3 DEF WriteBegins
<1>8. \/ owner = NoUser /\ UNCHANGED <<pendingLid, pendingPn>>
      \/ /\ owner # NoUser
         /\ pendingLid' = [pendingLid EXCEPT ![p] = l] /\ pendingPn' = [pendingPn EXCEPT ![l] = p]
    BY <1>2, <1>3
<1>9. /\ Writes(c)' = {p, l} /\ \A d \in MapCalls : d # c => Writes(d)' = Writes(d)
      /\ BeingSet' = BeingSet \cup {p, l}
    <2>1. Setting(c) = {} /\ Setting(c)' = {p, l} /\ \A d \in MapCalls : d # c => Setting(d)' = Setting(d)
        BY <1>1, <1>5, <1>6 DEF Setting
    <2>2. Writes(c)' = {p, l} /\ \A d \in MapCalls : d # c => Writes(d)' = Writes(d)
        BY <2>1, <1>5, <1>6 DEF Writes
    <2>3. BeingSet' = BeingSet \cup {p, l}
        BY <2>1 DEF BeingSet
    <2> QED BY <2>2, <2>3
<1>10. \A d \in MapCalls : Writes(d) \cap {p, l} \subseteq doubt'
    BY <1>7 DEF BeingWritten
<1>11. MapTyped'
    BY <1>6, <1>7, <1>8 DEF MapInv, MapTyped, LidsOrNone, PnsOrNone
<1>12. ContextRight'
    BY <1>4, <1>7, <1>8 DEF MapInv, MapTyped, ContextRight
<1>13. /\ \A k \in Pns \ {p} : ReadLid(k)' = ReadLid(k) /\ pendingLid'[k] = pendingLid[k]
       /\ \A k \in Lids \ {l} : ReadPn(k)' = ReadPn(k) /\ pendingPn'[k] = pendingPn[k]
    BY <1>7, <1>8 DEF ReadLid, ReadPn, Known, MapInv, MapTyped
<1>14. MappingsFollow'
    <2>1. ASSUME NEW k \in Pns \ (doubt' \cup BeingSet') PROVE cacheLid'[k] \in {NoUser, told'[k]} /\ ReadLid(k)' = told'[k]
        BY <2>1, <1>7, <1>9, <1>13 DEF MapInv, MappingsFollow
    <2>2. ASSUME NEW k \in Lids \ (doubt' \cup BeingSet') PROVE cachePn'[k] \in {NoUser, told'[k]} /\ ReadPn(k)' = told'[k]
        BY <2>2, <1>7, <1>9, <1>13 DEF MapInv, MappingsFollow
    <2> QED BY <2>1, <2>2 DEF MappingsFollow
<1>15. \A d \in MapCalls : ReadRight(call[d])'
    <2>1. ReadRight(call[c])'
        BY <1>5, <1>6 DEF ReadRight
    <2>2. ASSUME NEW d \in MapCalls, d # c PROVE ReadRight(call[d])'
        BY <2>2, <1>6, <1>7, <1>9 DEF MapInv, ReadRight
    <2> QED BY <2>1, <2>2
<1>16. WritesApart'
    <2> SUFFICES ASSUME NEW d \in MapCalls, NEW e \in MapCalls, d # e, NEW k \in Writes(d)' \cap Writes(e)' PROVE k \in doubt'
        BY DEF WritesApart
    <2>1. CASE k \in {p, l}
        <3>1. k \in Writes(d) \/ k \in Writes(e)
            BY <1>9
        <3> QED BY <2>1, <3>1, <1>10
    <2>2. CASE k \notin {p, l}
        BY <2>2, <1>7, <1>9 DEF MapInv, WritesApart
    <2> QED BY <2>1, <2>2
<1>17. WriteRight(call[c])'
    <2>1. owner # NoUser => ReadLid(p)' = l /\ ReadPn(l)' = p
        BY <1>4, <1>8 DEF ReadLid, ReadPn, Known, MapInv, MapTyped
    <2>2. owner = NoUser => pendingLid'[p] = NoUser /\ pendingPn'[l] = NoUser
        BY <1>8 DEF MapInv, ContextRight, Nowhere, NoReverse
    <2> QED BY <2>1, <2>2, <1>4, <1>5, <1>6 DEF WriteRight
<1>18. ASSUME NEW d \in MapCalls, d # c PROVE WriteRight(call[d])'
    <2>1. WriteRight(call[d]) /\ call'[d] = call[d]
        BY <1>6, <1>18 DEF MapInv
    <2>2. call[d].left \subseteq Writes(d) /\ (call[d].pc = "setting" => {call[d].key, call[d].out} \subseteq Writes(d))
        BY DEF Writes, Setting
    <2>3. \A k \in Writes(d) : k \notin doubt' => k \notin {p, l} /\ k \notin doubt
        BY <1>7, <1>10
    <2>4. call[d].pc = "setting" =>
             /\ call[d].key \in doubt' \cup call[d].left \/ ReadLid(call[d].key)' = call[d].out
             /\ call[d].out \in doubt' \cup call[d].left \/ ReadPn(call[d].out)' = call[d].key
        BY <2>1, <2>2, <2>3, <1>13 DEF WriteRight
    <2>5. \A k \in call[d].left \ doubt' :
             /\ call[d].pc = "setting"
             /\ k \in Pns => pendingLid'[k] = NoUser
             /\ k \in Lids => pendingPn'[k] = NoUser
        BY <2>1, <2>2, <2>3, <1>13 DEF WriteRight
    <2> QED BY <2>1, <2>4, <2>5 DEF WriteRight
<1> QED BY <1>11, <1>12, <1>14, <1>15, <1>16, <1>17, <1>18 DEF MapInv

LEMMA FileWrittenKeeps ==
    ASSUME MapInv, NEW c \in MapCalls, NEW k \in Pns \cup Lids, FileWritten(c, k) PROVE MapInv'
<1> DEFINE r == [call[c] EXCEPT !.left = call[c].left \ {k}]
<1>1. /\ call[c] \in CallRecords /\ call \in [MapCalls -> CallRecords] /\ k \in call[c].left
      /\ WriteRight(call[c]) /\ call[c].pc \in {"setting", "failed"}
    BY DEF MapInv, MapTyped, FileWritten, WriteRight
<1>2. PICK p \in Pns, l \in Lids : p = call[c].key /\ l = call[c].out
    BY <1>1 DEF WriteRight
<1>3. p # l /\ p \notin Lids /\ l \notin Pns /\ k \in {p, l}
    BY <1>1, <1>2, LidAssumption DEF WriteRight
<1>4. call' = [call EXCEPT ![c] = r] /\ r \in CallRecords
    BY <1>1 DEF FileWritten, CallRecords
<1>5. /\ r.pc = call[c].pc /\ r.kind = call[c].kind /\ r.key = p /\ r.out = l /\ r.left = call[c].left \ {k}
    BY <1>1, <1>2 DEF CallRecords
<1> HIDE DEF r
<1>6. /\ call'[c] = r /\ \A d \in MapCalls : d # c => call'[d] = call[d]
      /\ call' \in [MapCalls -> CallRecords]
    BY <1>1, <1>4
<1>7. UNCHANGED <<cacheLid, cachePn, pendingLid, pendingPn, taking, owner, told, doubt>>
    BY DEF FileWritten
<1>8. \/ k = p /\ storedLid' = [storedLid EXCEPT ![p] = l] /\ UNCHANGED storedPn
      \/ k = l /\ storedPn' = [storedPn EXCEPT ![l] = p] /\ UNCHANGED storedLid
    BY <1>2, <1>3 DEF FileWritten
<1>9. BeingSet' = BeingSet /\ \A d \in MapCalls : Writes(d)' \subseteq Writes(d)
    <2>1. ASSUME NEW d \in MapCalls PROVE Setting(d)' = Setting(d) /\ Writes(d)' \subseteq Writes(d)
        BY <1>2, <1>5, <1>6 DEF Setting, Writes
    <2> QED BY <2>1 DEF BeingSet
<1>10. k \in Writes(c) /\ (k \notin doubt => k \in BeingSet /\ call[c].pc = "setting")
    BY <1>1, <1>2, <1>3 DEF WriteRight, Writes, Setting, BeingSet
<1>11. MapTyped'
    BY <1>6, <1>7, <1>8 DEF MapInv, MapTyped, LidsOrNone, PnsOrNone
<1>12. ContextRight'
    BY <1>7 DEF MapInv, ContextRight
<1>13. /\ \A j \in Pns \ {k} : ReadLid(j)' = ReadLid(j)
       /\ \A j \in Lids \ {k} : ReadPn(j)' = ReadPn(j)
    BY <1>3, <1>7, <1>8 DEF ReadLid, ReadPn, Known, MapInv, MapTyped
<1>14. MappingsFollow'
    BY <1>7, <1>9, <1>10, <1>13 DEF MapInv, MappingsFollow
<1>15. \A d \in MapCalls : ReadRight(call[d])'
    <2>1. ReadRight(call[c])'
        BY <1>1, <1>5, <1>6 DEF ReadRight
    <2>2. ASSUME NEW d \in MapCalls, d # c PROVE ReadRight(call[d])'
        BY <2>2, <1>6, <1>7, <1>9 DEF MapInv, ReadRight
    <2> QED BY <2>1, <2>2
<1>16. WritesApart'
    BY <1>7, <1>9 DEF MapInv, WritesApart
<1>17. WriteRight(call[c])'
    <2>1. k \notin doubt /\ k = p => ReadLid(p)' = l
        BY <1>1, <1>3, <1>7, <1>8 DEF WriteRight, ReadLid, Known, MapInv, MapTyped
    <2>2. k \notin doubt /\ k = l => ReadPn(l)' = p
        BY <1>1, <1>3, <1>7, <1>8 DEF WriteRight, ReadPn, Known, MapInv, MapTyped
    <2>3. r.pc = "setting" =>
             /\ p \in doubt' \cup r.left \/ ReadLid(p)' = l
             /\ l \in doubt' \cup r.left \/ ReadPn(l)' = p
        BY <2>1, <2>2, <1>1, <1>2, <1>3, <1>5, <1>7, <1>13 DEF WriteRight
    <2>4. /\ r.left \subseteq {p, l} /\ r.pc \in {"setting", "failed"}
          /\ \A j \in r.left \ doubt' :
                /\ r.pc = "setting"
                /\ j \in Pns => pendingLid'[j] = NoUser
                /\ j \in Lids => pendingPn'[j] = NoUser
        BY <1>1, <1>2, <1>5, <1>7 DEF WriteRight
    <2> QED BY <2>3, <2>4, <1>5, <1>6 DEF WriteRight
<1>18. ASSUME NEW d \in MapCalls, d # c PROVE WriteRight(call[d])'
    <2>1. WriteRight(call[d]) /\ call'[d] = call[d]
        BY <1>6, <1>18 DEF MapInv
    <2>2. call[d].pc = "setting" => {call[d].key, call[d].out} \subseteq Writes(d)
        BY DEF Writes, Setting
    <2>3. k \in Writes(d) => k \in doubt
        BY <1>10, <1>18 DEF MapInv, WritesApart
    <2> QED BY <2>1, <2>2, <2>3, <1>7, <1>13 DEF WriteRight
<1> QED BY <1>11, <1>12, <1>14, <1>15, <1>16, <1>17, <1>18 DEF MapInv

LEMMA FileFailsKeeps ==
    ASSUME MapInv, NEW c \in MapCalls, NEW k \in Pns \cup Lids, FileFails(c, k) PROVE MapInv'
<1> DEFINE r == [call[c] EXCEPT !.pc = "failed", !.left = call[c].left \ {k}]
<1>1. /\ call[c] \in CallRecords /\ call \in [MapCalls -> CallRecords]
      /\ WriteRight(call[c]) /\ call[c].pc \in {"setting", "failed"}
    BY DEF MapInv, MapTyped, FileFails, WriteRight
<1>2. PICK p \in Pns, l \in Lids : p = call[c].key /\ l = call[c].out
    BY <1>1 DEF WriteRight
<1>3. call' = [call EXCEPT ![c] = r] /\ r \in CallRecords
    BY <1>1 DEF FileFails, CallRecords
<1>4. r.pc = "failed" /\ r.key = p /\ r.out = l /\ r.left = call[c].left \ {k}
    BY <1>1, <1>2 DEF CallRecords
<1> HIDE DEF r
<1>5. /\ call'[c] = r /\ \A d \in MapCalls : d # c => call'[d] = call[d]
      /\ call' \in [MapCalls -> CallRecords]
    BY <1>1, <1>3
<1>6. /\ UNCHANGED <<cacheLid, cachePn, storedLid, storedPn, pendingLid, pendingPn, taking, owner, told>>
      /\ doubt' = doubt \cup {p, l}
    BY <1>2 DEF FileFails
<1>7. BeingSet \subseteq BeingSet' \cup {p, l} /\ \A d \in MapCalls : Writes(d)' \subseteq Writes(d)
    <2>1. /\ Setting(c) \subseteq {p, l} /\ \A d \in MapCalls : d # c => Setting(d)' = Setting(d)
          /\ \A d \in MapCalls : Writes(d)' \subseteq Writes(d)
        BY <1>2, <1>4, <1>5 DEF Setting, Writes
    <2> QED BY <2>1 DEF BeingSet
<1>8. MapTyped' /\ ContextRight'
    BY <1>5, <1>6 DEF MapInv, MapTyped, ContextRight
<1>9. MappingsFollow'
    BY <1>6, <1>7 DEF MapInv, MappingsFollow, ReadLid, ReadPn
<1>10. \A d \in MapCalls : ReadRight(call[d])'
    <2>1. ReadRight(call[c])'
        BY <1>4, <1>5 DEF ReadRight
    <2>2. ASSUME NEW d \in MapCalls, d # c PROVE ReadRight(call[d])'
        BY <2>2, <1>5, <1>6, <1>7 DEF MapInv, ReadRight
    <2> QED BY <2>1, <2>2
<1>11. WritesApart'
    BY <1>6, <1>7 DEF MapInv, WritesApart
<1>12. WriteRight(call[c])'
    BY <1>1, <1>2, <1>4, <1>5, <1>6 DEF WriteRight
<1>13. ASSUME NEW d \in MapCalls, d # c PROVE WriteRight(call[d])'
    BY <1>13, <1>5, <1>6 DEF MapInv, WriteRight, ReadLid, ReadPn
<1> QED BY <1>8, <1>9, <1>10, <1>11, <1>12, <1>13 DEF MapInv

\* Whoever reads one of the keys now has what was there before.
LEMMA WriteEndsKeeps ==
    ASSUME MapInv, NEW c \in MapCalls, WriteEnds(c) PROVE MapInv'
<1> DEFINE r == [call[c] EXCEPT !.pc = "writing", !.key = NoUser, !.out = NoUser]
<1>1. /\ call[c] \in CallRecords /\ call \in [MapCalls -> CallRecords]
      /\ WriteRight(call[c]) /\ call[c].pc = "setting" /\ call[c].left = {}
    BY DEF MapInv, MapTyped, WriteEnds
<1>2. PICK p \in Pns, l \in Lids : p = call[c].key /\ l = call[c].out
    BY <1>1 DEF WriteRight
<1>3. call' = [call EXCEPT ![c] = r] /\ r \in CallRecords
    BY <1>1 DEF WriteEnds, CallRecords
<1>4. r.pc = "writing" /\ r.left = {}
    BY <1>1 DEF CallRecords
<1> HIDE DEF r
<1>5. /\ call'[c] = r /\ \A d \in MapCalls : d # c => call'[d] = call[d]
      /\ call' \in [MapCalls -> CallRecords]
    BY <1>1, <1>3
<1>6. /\ cacheLid' = [cacheLid EXCEPT ![p] = l] /\ cachePn' = [cachePn EXCEPT ![l] = p]
      /\ told' = [told EXCEPT ![p] = l, ![l] = p]
      /\ doubt' = doubt \cup Reading({p, l})
      /\ UNCHANGED <<storedLid, storedPn, pendingLid, pendingPn, taking, owner>>
    BY <1>2 DEF WriteEnds, PutsInCache, Caches
<1>7. p # l /\ p \notin Lids /\ l \notin Pns
    BY LidAssumption
<1>8. /\ told' \in [Pns \cup Lids -> Pns \cup Lids \cup {NoUser}]
      /\ told'[p] = l /\ told'[l] = p /\ \A k \in (Pns \cup Lids) \ {p, l} : told'[k] = told[k]
    BY <1>6, <1>7 DEF MapInv, MapTyped
<1>9. BeingSet \subseteq BeingSet' \cup {p, l} /\ \A d \in MapCalls : Writes(d)' \subseteq Writes(d)
    <2>1. /\ Setting(c) \subseteq {p, l} /\ \A d \in MapCalls : d # c => Setting(d)' = Setting(d)
          /\ \A d \in MapCalls : Writes(d)' \subseteq Writes(d)
        BY <1>2, <1>4, <1>5 DEF Setting, Writes
    <2> QED BY <2>1 DEF BeingSet
<1>10. MapTyped' /\ ContextRight'
    <2>1. MapTyped'
        BY <1>5, <1>6, <1>8 DEF MapInv, MapTyped, LidsOrNone, PnsOrNone
    <2> QED BY <2>1, <1>6 DEF MapInv, ContextRight
<1>11. (p \in doubt \/ ReadLid(p) = l) /\ (l \in doubt \/ ReadPn(l) = p)
    BY <1>1, <1>2 DEF WriteRight
<1>12. MappingsFollow'
    <2>1. ASSUME NEW k \in Pns \ (doubt' \cup BeingSet') PROVE cacheLid'[k] \in {NoUser, told'[k]} /\ ReadLid(k)' = told'[k]
        BY <2>1, <1>6, <1>7, <1>8, <1>9, <1>11 DEF MapInv, MapTyped, MappingsFollow, ReadLid
    <2>2. ASSUME NEW k \in Lids \ (doubt' \cup BeingSet') PROVE cachePn'[k] \in {NoUser, told'[k]} /\ ReadPn(k)' = told'[k]
        BY <2>2, <1>6, <1>7, <1>8, <1>9, <1>11 DEF MapInv, MapTyped, MappingsFollow, ReadPn
    <2> QED BY <2>1, <2>2 DEF MappingsFollow
<1>13. \A d \in MapCalls : ReadRight(call[d])'
    <2>1. ReadRight(call[c])'
        BY <1>4, <1>5 DEF ReadRight
    <2>2. ASSUME NEW d \in MapCalls, d # c PROVE ReadRight(call[d])'
        <3>1. call'[d] = call[d] /\ ReadRight(call[d])
            BY <2>2, <1>5 DEF MapInv
        <3>2. CASE call[d].pc # "reading"
            BY <3>1, <3>2 DEF ReadRight
        <3>3. CASE call[d].pc = "reading"
            <4>1. call[d].key \in Pns \cup Lids /\ (call[d].key \in {p, l} => call[d].key \in doubt')
                BY <3>1, <3>3, <1>6 DEF ReadRight, Reading
            <4>2. call[d].key \in doubt' \cup BeingSet' \/ call[d].out = told'[call[d].key]
                BY <3>1, <3>3, <4>1, <1>6, <1>8, <1>9 DEF ReadRight
            <4> QED BY <3>1, <3>3, <4>2 DEF ReadRight
        <3> QED BY <3>2, <3>3
    <2> QED BY <2>1, <2>2
<1>14. WritesApart'
    BY <1>6, <1>9 DEF MapInv, WritesApart
<1>15. WriteRight(call[c])'
    BY <1>4, <1>5 DEF WriteRight
<1>16. ASSUME NEW d \in MapCalls, d # c PROVE WriteRight(call[d])'
    BY <1>16, <1>5, <1>6 DEF MapInv, WriteRight, ReadLid, ReadPn
<1> QED BY <1>10, <1>12, <1>13, <1>14, <1>15, <1>16 DEF MapInv

\* Where a commit, or the process, ends: what the store got is what the context held,
\* but for what comes into doubt.
LEMMA ContextGone ==
    ASSUME MapInv, Partly, NEW lids \in [Pns -> LidsOrNone], NEW pns \in [Lids -> PnsOrNone],
           doubt \cup Written(lids, pns) \subseteq doubt',
           \/ lids = Nowhere /\ pns = NoReverse
           \/ /\ lids = taking.lid /\ pns = taking.pn
              /\ \A p \in Pns : storedLid'[p] = Known(taking.lid, storedLid, p)
              /\ \A l \in Lids : storedPn'[l] = Known(taking.pn, storedPn, l),
           pendingLid' = Nowhere, pendingPn' = NoReverse, owner' = NoUser, told' = told,
           taking' = [lid |-> Nowhere, pn |-> NoReverse],
           \/ UNCHANGED <<cacheLid, cachePn>>
           \/ cacheLid' = Nowhere /\ cachePn' = NoReverse,
           call' \in [MapCalls -> CallRecords],
           \A k \in MapCalls : call'[k] = call[k] \/ (call'[k].pc = "done" /\ call'[k].left = {}),
           \A k \in MapCalls : call'[k] = call[k] \/ Writes(k) \subseteq doubt'
    PROVE  MapInv'
<1>1. /\ Nowhere \in [Pns -> LidsOrNone] /\ NoReverse \in [Lids -> PnsOrNone]
      /\ \A p \in Pns : Nowhere[p] = NoUser
      /\ \A l \in Lids : NoReverse[l] = NoUser
    BY DEF Nowhere, NoReverse, LidsOrNone, PnsOrNone
<1>2. /\ storedLid' \in [Pns -> LidsOrNone] /\ storedPn' \in [Lids -> PnsOrNone]
      /\ \A p \in Pns : storedLid'[p] \in {storedLid[p], Known(taking.lid, storedLid, p)}
      /\ \A l \in Lids : storedPn'[l] \in {storedPn[l], Known(taking.pn, storedPn, l)}
    <2>1. /\ storedLid' \in {storedLid, [p \in Pns |-> Known(taking.lid, storedLid, p)]}
          /\ storedPn' \in {storedPn, [l \in Lids |-> Known(taking.pn, storedPn, l)]}
        BY DEF Partly
    <2>2. /\ storedLid \in [Pns -> LidsOrNone] /\ storedPn \in [Lids -> PnsOrNone]
          /\ taking.lid \in [Pns -> LidsOrNone] /\ taking.pn \in [Lids -> PnsOrNone]
        BY DEF MapInv, MapTyped
    <2> QED BY <2>1, <2>2 DEF Known
<1>3. MapTyped'
    BY <1>1, <1>2 DEF MapInv, MapTyped
<1>4. ContextRight'
    BY <1>1 DEF ContextRight
<1>5. /\ \A k \in MapCalls : Writes(k)' \subseteq Writes(k)
      /\ BeingSet \subseteq BeingSet' \cup doubt'
    <2>1. ASSUME NEW k \in MapCalls PROVE Writes(k)' \subseteq Writes(k) /\ Setting(k) \subseteq Setting(k)' \cup doubt'
        BY DEF Writes, Setting
    <2> QED BY <2>1 DEF BeingSet
<1>6. ASSUME NEW p \in Pns \ doubt' PROVE ReadLid(p)' = ReadLid(p)
    <2>1. p \notin doubt /\ pendingLid[p] = lids[p]
        BY <1>6 DEF Written
    <2>2. storedLid'[p] = ReadLid(p)
        BY <2>1, <1>1, <1>2 DEF MapInv, ContextRight, ReadLid, Known
    <2> QED BY <2>1, <2>2, <1>1 DEF ReadLid, Known
<1>7. ASSUME NEW l \in Lids \ doubt' PROVE ReadPn(l)' = ReadPn(l)
    <2>1. l \notin doubt /\ pendingPn[l] = pns[l]
        BY <1>7 DEF Written
    <2>2. storedPn'[l] = ReadPn(l)
        BY <2>1, <1>1, <1>2 DEF MapInv, ContextRight, ReadPn, Known
    <2> QED BY <2>1, <2>2, <1>1 DEF ReadPn, Known
<1>8. MappingsFollow'
    BY <1>1, <1>5, <1>6, <1>7 DEF MapInv, MappingsFollow
<1>9. WritesApart'
    BY <1>5 DEF MapInv, WritesApart
<1>10. \A k \in MapCalls : ReadRight(call[k])'
    <2> SUFFICES ASSUME NEW k \in MapCalls PROVE ReadRight(call[k])'
        OBVIOUS
    <2>1. CASE call'[k] = call[k]
        BY <2>1, <1>5 DEF MapInv, ReadRight
    <2>2. CASE call'[k].pc = "done"
        BY <2>2 DEF ReadRight
    <2> QED BY <2>1, <2>2
<1>11. \A k \in MapCalls : WriteRight(call[k])'
    <2> SUFFICES ASSUME NEW k \in MapCalls PROVE WriteRight(call[k])'
        OBVIOUS
    <2>1. CASE call'[k] = call[k]
        <3>1. WriteRight(call[k])
            BY DEF MapInv
        <3>2. call[k].pc = "setting" =>
                 /\ call[k].key \in doubt' \cup call[k].left \/ ReadLid(call[k].key)' = call[k].out
                 /\ call[k].out \in doubt' \cup call[k].left \/ ReadPn(call[k].out)' = call[k].key
            BY <2>1, <3>1, <1>6, <1>7 DEF WriteRight
        <3>3. \A j \in call[k].left \ doubt' :
                 /\ call[k].pc = "setting"
                 /\ j \in Pns => pendingLid'[j] = NoUser
                 /\ j \in Lids => pendingPn'[j] = NoUser
            BY <3>1, <1>1 DEF WriteRight
        <3> QED BY <2>1, <3>1, <3>2, <3>3 DEF WriteRight
    <2>2. CASE call'[k].pc = "done" /\ call'[k].left = {}
        BY <2>2 DEF WriteRight
    <2> QED BY <2>1, <2>2
<1> QED BY <1>3, <1>4, <1>8, <1>9, <1>10, <1>11 DEF MapInv

LEMMA CommitEndsKeeps ==
    ASSUME MapInv, NEW c \in MapCalls, NEW ok \in BOOLEAN, CommitEnds(c, ok) PROVE MapInv'
<1> DEFINE r == [call[c] EXCEPT !.pc = "done", !.out = NoUser]
<1>1. call[c] \in CallRecords /\ call \in [MapCalls -> CallRecords]
      /\ taking.lid \in [Pns -> LidsOrNone] /\ taking.pn \in [Lids -> PnsOrNone]
      /\ Nowhere \in [Pns -> LidsOrNone] /\ NoReverse \in [Lids -> PnsOrNone]
      /\ Quiet(call[c])
    BY WhereQuiet DEF CommitEnds, MapInv, MapTyped, Nowhere, NoReverse, LidsOrNone, PnsOrNone
<1>2. r \in CallRecords /\ r.pc = "done" /\ r.left = {} /\ call' = [call EXCEPT ![c] = r]
    BY <1>1 DEF CommitEnds, Ends, CallRecords, Quiet
<1> HIDE DEF r
<1>3. /\ call' \in [MapCalls -> CallRecords]
      /\ \A k \in MapCalls : call'[k] = call[k] \/ (call'[k].pc = "done" /\ call'[k].left = {})
      /\ \A k \in MapCalls : call'[k] = call[k] \/ Writes(k) \subseteq doubt'
    BY <1>1, <1>2 DEF Quiet, Writes, Setting
<1>4. /\ Partly /\ pendingLid' = Nowhere /\ pendingPn' = NoReverse /\ owner' = NoUser /\ told' = told
      /\ taking' = [lid |-> Nowhere, pn |-> NoReverse] /\ UNCHANGED <<cacheLid, cachePn>>
    BY DEF CommitEnds
<1>5. CASE ok
    <2>1. /\ \A p \in Pns : storedLid'[p] = Known(taking.lid, storedLid, p)
          /\ \A l \in Lids : storedPn'[l] = Known(taking.pn, storedPn, l)
          /\ doubt' = doubt \cup Written(taking.lid, taking.pn)
        BY <1>5 DEF CommitEnds
    <2> QED BY <2>1, <1>1, <1>3, <1>4, ContextGone
<1>6. CASE ~ok
    <2>1. doubt' = doubt \cup Written(Nowhere, NoReverse)
        BY <1>6 DEF CommitEnds
    <2> QED BY <2>1, <1>1, <1>3, <1>4, ContextGone
<1> QED BY <1>5, <1>6

LEMMA RestartKeeps == MapInv /\ Restart => MapInv'
<1> SUFFICES ASSUME MapInv, Restart PROVE MapInv'
    OBVIOUS
<1>1. Nowhere \in [Pns -> LidsOrNone] /\ NoReverse \in [Lids -> PnsOrNone]
    BY DEF Nowhere, NoReverse, LidsOrNone, PnsOrNone
<1>2. [Idle EXCEPT !.pc = "done"] \in CallRecords /\ [Idle EXCEPT !.pc = "done"].pc = "done"
      /\ [Idle EXCEPT !.pc = "done"].left = {}
    BY IdleTyped DEF CallRecords
<1>3. call' = [c \in MapCalls |-> IF call[c].pc = "new" THEN call[c] ELSE [Idle EXCEPT !.pc = "done"]]
    BY DEF Restart
<1>4. /\ call' \in [MapCalls -> CallRecords]
      /\ \A k \in MapCalls : call'[k] = call[k] \/ (call'[k].pc = "done" /\ call'[k].left = {})
    BY <1>2, <1>3 DEF MapInv, MapTyped
<1>5. /\ Partly /\ pendingLid' = Nowhere /\ pendingPn' = NoReverse /\ owner' = NoUser /\ told' = told
      /\ taking' = [lid |-> Nowhere, pn |-> NoReverse] /\ cacheLid' = Nowhere /\ cachePn' = NoReverse
      /\ doubt' = doubt \cup Written(Nowhere, NoReverse) \cup BeingWritten
    BY DEF Restart
<1>6. \A k \in MapCalls : Writes(k) \subseteq doubt'
    BY <1>5 DEF BeingWritten
<1> QED BY <1>1, <1>4, <1>5, <1>6, ContextGone

LEMMA LookUpsKeep ==
    ASSUME MapInv, NEW c \in MapCalls,
           \/ \E p \in Pns : LookUpLid(c, p)
           \/ \E l \in Lids : LookUpPn(c, l)
    PROVE  MapInv'
<1>1. UNCHANGED <<cacheLid, cachePn, storedLid, storedPn, pendingLid, pendingPn, taking, owner, told, doubt>> /\ Quiet(call[c])
    BY WhereQuiet DEF LookUpLid, LookUpPn
<1>2. PICK r \in CallRecords : call' = [call EXCEPT ![c] = r] /\ ReadRight(r) /\ Quiet(r)
    <2>1. ASSUME NEW p \in Pns, LookUpLid(c, p)
          PROVE  \E r \in CallRecords : call' = [call EXCEPT ![c] = r] /\ ReadRight(r) /\ Quiet(r)
        <3> DEFINE done == [Idle EXCEPT !.kind = "lid", !.pc = "done", !.key = p, !.out = cacheLid[p]]
                   reads == [Idle EXCEPT !.kind = "lid", !.pc = "reading", !.key = p, !.out = ReadLid(p)]
        <3>1. cacheLid[p] \in LidsOrNone /\ ReadLid(p) \in LidsOrNone /\ (p \in doubt \cup BeingSet \/ ReadLid(p) = told[p])
            BY ReadsTyped DEF MapInv, MapTyped
        <3>2. /\ done \in CallRecords /\ done.pc = "done" /\ done.left = {} /\ reads.left = {}
              /\ reads \in CallRecords /\ reads.pc = "reading" /\ reads.kind = "lid" /\ reads.key = p
              /\ reads.out = ReadLid(p)
            BY <3>1, IdleTyped DEF CallRecords, LidsOrNone
        <3>3. ReadRight(done) /\ ReadRight(reads) /\ Quiet(done) /\ Quiet(reads)
            BY <3>1, <3>2 DEF ReadRight, Quiet
        <3>4. call' = [call EXCEPT ![c] = done] \/ call' = [call EXCEPT ![c] = reads]
            BY <2>1 DEF LookUpLid
        <3> HIDE DEF done, reads
        <3> QED BY <3>2, <3>3, <3>4
    <2>2. ASSUME NEW l \in Lids, LookUpPn(c, l)
          PROVE  \E r \in CallRecords : call' = [call EXCEPT ![c] = r] /\ ReadRight(r) /\ Quiet(r)
        <3> DEFINE done == [Idle EXCEPT !.kind = "pn", !.pc = "done", !.key = l, !.out = cachePn[l]]
                   reads == [Idle EXCEPT !.kind = "pn", !.pc = "reading", !.key = l, !.out = ReadPn(l)]
        <3>1. cachePn[l] \in PnsOrNone /\ ReadPn(l) \in PnsOrNone /\ (l \in doubt \cup BeingSet \/ ReadPn(l) = told[l])
            BY ReadsTyped DEF MapInv, MapTyped
        <3>2. /\ done \in CallRecords /\ done.pc = "done" /\ done.left = {} /\ reads.left = {}
              /\ reads \in CallRecords /\ reads.pc = "reading" /\ reads.kind = "pn" /\ reads.key = l
              /\ reads.out = ReadPn(l)
            BY <3>1, IdleTyped DEF CallRecords, PnsOrNone
        <3>3. ReadRight(done) /\ ReadRight(reads) /\ Quiet(done) /\ Quiet(reads)
            BY <3>1, <3>2 DEF ReadRight, Quiet
        <3>4. call' = [call EXCEPT ![c] = done] \/ call' = [call EXCEPT ![c] = reads]
            BY <2>2 DEF LookUpPn
        <3> HIDE DEF done, reads
        <3> QED BY <3>2, <3>3, <3>4
    <2> QED BY <2>1, <2>2
<1> QED BY <1>1, <1>2, CallGoesOn

LEMMA AskedKeeps ==
    ASSUME MapInv, NEW c \in MapCalls, NEW found \in Lids \cup {NoUser},
           <<call[c].key, found>> \in Pairs \cup (Pns \X {NoUser}), Asked(c, found)
    PROVE  MapInv'
<1>1. UNCHANGED <<cacheLid, cachePn, storedLid, storedPn, pendingLid, pendingPn, taking, owner, told, doubt>>
    BY DEF Asked
<1>2. call[c] \in CallRecords /\ call \in [MapCalls -> CallRecords] /\ Quiet(call[c])
    BY WhereQuiet DEF Asked, MapInv, MapTyped
<1>3. CASE found = NoUser
    <2> DEFINE r == [call[c] EXCEPT !.pc = "done"]
    <2>1. call' = [call EXCEPT ![c] = r]
        BY <1>2, <1>3 DEF Asked
    <2>2. r \in CallRecords /\ r.pc = "done" /\ r.left = {}
        BY <1>2 DEF CallRecords, Quiet
    <2>3. ReadRight(r) /\ Quiet(r)
        BY <2>2 DEF ReadRight, Quiet
    <2> HIDE DEF r
    <2> QED BY <2>1, <2>2, <2>3, <1>1, <1>2, CallGoesOn
<1>4. CASE found # NoUser
    <2> DEFINE pairs == <<<<call[c].key, found>>>>
               r == [Idle EXCEPT !.kind = "store", !.pc = "comparing", !.pairs = pairs]
    <2>1. call' = [call EXCEPT ![c] = r]
        BY <1>2, <1>4 DEF Asked
    <2>2. <<call[c].key, found>> \in Pairs
        BY <1>4
    <2>3. pairs \in Seq(Pairs)
        BY <2>2
    <2> HIDE DEF pairs
    <2>4. r \in CallRecords /\ r.pc = "comparing" /\ r.kind = "store" /\ r.left = {}
        BY <2>3, IdleTyped DEF CallRecords
    <2>5. ReadRight(r) /\ Quiet(r)
        BY <2>4 DEF ReadRight, Quiet
    <2> HIDE DEF r
    <2> QED BY <2>1, <2>4, <2>5, <1>1, <1>2, CallGoesOn
<1> QED BY <1>3, <1>4

LEMMA LidReadKeeps ==
    ASSUME MapInv, NEW c \in MapCalls, LidRead(c) PROVE MapInv'
<1>1. /\ call[c] \in CallRecords /\ call \in [MapCalls -> CallRecords]
      /\ call[c].key \in Pns /\ call[c].out \in LidsOrNone
      /\ \/ call[c].key \in doubt \cup BeingSet
         \/ call[c].out = told[call[c].key]
      /\ Quiet(call[c])
    BY WhereQuiet DEF LidRead, MapInv, MapTyped, ReadRight
<1>2. UNCHANGED <<storedLid, storedPn, pendingLid, pendingPn, taking, owner, told>>
    BY DEF LidRead
<1>3. CASE call[c].out # NoUser
    <2> DEFINE r == [call[c] EXCEPT !.pc = "done", !.out = call[c].out]
    <2>1. r \in CallRecords /\ r.pc = "done" /\ call' = [call EXCEPT ![c] = r] /\ Quiet(r)
        BY <1>1, <1>3 DEF LidRead, Ends, CallRecords, Quiet
    <2>2. PICK p \in Pns, l \in Lids : p = call[c].key /\ l = call[c].out
        BY <1>1, <1>3 DEF LidsOrNone
    <2>3. Caches(p, l) /\ doubt' = doubt \cup LedBack(p, l) /\ (p \in doubt \cup BeingSet \/ l = told[p])
        BY <2>2, <1>1, <1>3 DEF LidRead
    <2> HIDE DEF r
    <2> QED BY <2>1, <2>3, <1>1, <1>2, CachesKeeps
<1>4. CASE call[c].out = NoUser
    <2> DEFINE r == [call[c] EXCEPT !.pc = "asking"]
    <2>1. /\ r \in CallRecords /\ r.pc = "asking" /\ call' = [call EXCEPT ![c] = r] /\ UNCHANGED <<cacheLid, cachePn, doubt>>
          /\ Quiet(r)
        BY <1>1, <1>4 DEF LidRead, Goes, CallRecords, Quiet
    <2>2. ReadRight(r)
        BY <2>1 DEF ReadRight
    <2> HIDE DEF r
    <2> QED BY <2>1, <2>2, <1>1, <1>2, CallGoesOn
<1> QED BY <1>3, <1>4

\* A number that was read of a LID is cached under the LID only.
LEMMA PnReadKeeps ==
    ASSUME MapInv, NEW c \in MapCalls, PnRead(c) PROVE MapInv'
<1> DEFINE l == call[c].key
           p == call[c].out
           r == [call[c] EXCEPT !.pc = "done", !.out = call[c].out]
<1>1. /\ call[c] \in CallRecords /\ call \in [MapCalls -> CallRecords]
      /\ l \in Lids /\ p \in PnsOrNone /\ (l \in doubt \cup BeingSet \/ p = told[l]) /\ Quiet(call[c])
    BY LidAssumption, WhereQuiet DEF PnRead, MapInv, MapTyped, ReadRight
<1>2. r \in CallRecords /\ r.pc = "done" /\ call' = [call EXCEPT ![c] = r] /\ Quiet(r)
    BY <1>1 DEF PnRead, Ends, CallRecords, Quiet
<1>3. /\ UNCHANGED <<cacheLid, storedLid, storedPn, pendingLid, pendingPn, taking, owner, told, doubt>>
      /\ cachePn' = [cachePn EXCEPT ![l] = p] \/ cachePn' = cachePn
    BY DEF PnRead
<1> HIDE DEF r
<1>4. MapTyped'
    BY <1>1, <1>2, <1>3 DEF MapInv, MapTyped
<1>5. BeingSet' = BeingSet /\ \A d \in MapCalls : Writes(d)' = Writes(d)
    BY <1>1, <1>2, WritesStay
<1>6. MappingsFollow'
    <2>1. ASSUME NEW k \in Lids \ (doubt \cup BeingSet) PROVE cachePn'[k] \in {NoUser, told[k]}
        BY <2>1, <1>1, <1>3 DEF MapInv, MapTyped, MappingsFollow
    <2> HIDE DEF l, p
    <2> QED BY <2>1, <1>3, <1>5 DEF MapInv, MappingsFollow, ReadLid, ReadPn, Known
<1>7. ContextRight' /\ WritesApart'
    BY <1>3, <1>5 DEF MapInv, ContextRight, WritesApart
<1>8. \A k \in MapCalls : ReadRight(call[k])' /\ WriteRight(call[k])'
    <2>1. ASSUME NEW k \in MapCalls, k # c PROVE ReadRight(call[k])' /\ WriteRight(call[k])'
        BY <2>1, <1>1, <1>2, <1>3, <1>5 DEF MapInv, ReadRight, WriteRight, ReadLid, ReadPn, Known
    <2>2. ReadRight(call[c])' /\ WriteRight(call[c])'
        BY <1>1, <1>2 DEF ReadRight, WriteRight, Quiet
    <2> QED BY <2>1, <2>2
<1> QED BY <1>4, <1>6, <1>7, <1>8 DEF MapInv

LEMMA MapSteps == MapInv /\ [MapNext]_mapVars => MapInv'
<1> SUFFICES ASSUME MapInv, [MapNext]_mapVars PROVE MapInv'
    OBVIOUS
<1>1. ASSUME NEW c \in MapCalls, NEW n \in 1 .. MaxPairs, NEW pairs \in [1 .. n -> Pairs], CallStore(c, pairs)
      PROVE  MapInv'
    <2>1. n \in Nat
        BY LidAssumption
    <2> QED BY <2>1, <1>1, CallStoreKeeps
<1>2. ASSUME NEW c \in MapCalls, Compare(c) \/ Compared(c) \/ LidRead(c) \/ PnRead(c) \/ WriteBegins(c) \/ WriteEnds(c) PROVE MapInv'
    BY <1>2, CompareKeeps, ComparedKeeps, LidReadKeeps, PnReadKeeps, WriteBeginsKeeps, WriteEndsKeeps
<1>3. ASSUME NEW c \in MapCalls, NEW ok \in BOOLEAN, CommitEnds(c, ok) PROVE MapInv'
    BY <1>3, CommitEndsKeeps
<1>4. ASSUME NEW c \in MapCalls, BeginMapping(c) \/ JoinedEnds(c) \/ CommitTakes(c) PROVE MapInv'
    BY <1>4, MapCallEnds
<1>5. ASSUME NEW c \in MapCalls, (\E p \in Pns : LookUpLid(c, p)) \/ (\E l \in Lids : LookUpPn(c, l)) PROVE MapInv'
    BY <1>5, LookUpsKeep
<1>6. ASSUME NEW c \in MapCalls, NEW k \in Pns \cup Lids, FileWritten(c, k) \/ FileFails(c, k) PROVE MapInv'
    BY <1>6, FileWrittenKeeps, FileFailsKeeps
<1>7. CASE UNCHANGED mapVars
    <2>1. /\ BeingSet' = BeingSet /\ \A d \in MapCalls : Writes(d)' = Writes(d)
          /\ UNCHANGED mapVars
        BY <1>7 DEF mapVars, BeingSet, Writes, Setting
    <2>2. MapTyped' /\ ContextRight' /\ MappingsFollow' /\ WritesApart'
        BY <2>1 DEF mapVars, MapInv, MapTyped, ContextRight, MappingsFollow, WritesApart, ReadLid, ReadPn, Known
    <2>3. \A c \in MapCalls : ReadRight(call[c])' /\ WriteRight(call[c])'
        BY <2>1 DEF mapVars, MapInv, ReadRight, WriteRight, ReadLid, ReadPn, Known
    <2> QED BY <2>2, <2>3 DEF MapInv
<1> QED BY <1>1, <1>2, <1>3, <1>4, <1>5, <1>6, <1>7, AskedKeeps, RestartKeeps DEF MapNext

\* What cache and store say of a number or a LID is what was written last, unless it
\* is being written; and, until it is written next, unless its writes overlapped, it
\* was read when its write ended, its write was lost or it is the LID of a number
\* that was looked up after the user had left it: for any calls and pairs, with keys
\* of either kind, whichever files or commits fail and wherever the process stops
\* (storeLIDPNMappings, getLIDsForPNs, getPNForLID).
THEOREM MappingsAreKept == MapSpec => []MappingsFollow
<1>1. MapInv => MappingsFollow
    BY DEF MapInv
<1> QED BY MapInitially, MapSteps, <1>1, PTL DEF MapSpec
=============================================================================
