--------------------------- MODULE AppStateProofs ---------------------------
(***************************************************************************)
(* Theorems of AppState: the patches that carry the right hash, the view   *)
(* that follows what is stored, and the rounds of a sync that come to an   *)
(* end.  What is decoded is a recursive function of the patches; facts     *)
(* about it, and about the log, are proved by the least counterexample.    *)
(***************************************************************************)
EXTENDS AppState, WellFoundedInduction, NaturalsInduction, SequenceTheorems, TLAPS

-----------------------------------------------------------------------------
(* Least and greatest elements, and what an index is set to.               *)

\* A set of naturals has a least element, and one that is bounded a greatest:
\* what stands for induction below.
LEMMA LeastOf ==
    ASSUME NEW T \in SUBSET Nat, T # {}
    PROVE  \E m \in T : \A k \in T : m <= k
<1>1. PICK m \in T : \A k \in T : ~(<<k, m>> \in OpToRel(<, Nat))
    BY WFMin, NatLessThanWellFounded, Zenon
<1>2. \A k \in T : ~(k < m)
    BY <1>1, Zenon DEF OpToRel
<1> QED BY <1>2

\* A bounded set of naturals has a greatest element.
LEMMA GreatestOf ==
    ASSUME NEW T, T # {}, NEW n \in Nat, T \subseteq 0 .. n
    PROVE  \E m \in T : \A k \in T : k <= m
<1> DEFINE S == {n - k : k \in T}
<1>1. S \in SUBSET Nat /\ S # {}
    <2>1. \A k \in T : k \in 0 .. n /\ n - k \in Nat
        OBVIOUS
    <2> QED BY <2>1
<1>2. PICK d \in S : \A e \in S : d <= e
    BY <1>1, LeastOf
<1>3. PICK m \in T : d = n - m
    OBVIOUS
<1>4. ASSUME NEW k \in T PROVE k <= m
    <2>1. n - k \in S
        OBVIOUS
    <2>2. d <= n - k
        BY <1>2, <2>1
    <2> QED BY <1>3, <2>2
<1> QED BY <1>4

Entries == [op : {"set", "remove"}, index : Indices, hash : [Values -> Int]]

\* What an index is set to, and when it is not.
LEMMA SetAtIs ==
    ASSUME NEW n \in Nat, NEW i, SetAt(n, i) # Nothing
    PROVE  /\ SetAt(n, i) \in 1 .. n /\ log[SetAt(n, i)].index = i /\ log[SetAt(n, i)].op = "set"
           /\ \A l \in 1 .. n : log[l].index = i => l <= SetAt(n, i)
<1> DEFINE changes == {m \in 1 .. n : log[m].index = i}
           last == CHOOSE m \in changes : \A l \in changes : l <= m
<1>1. changes # {} /\ SetAt(n, i) = (IF log[last].op = "set" THEN last ELSE Nothing)
    BY DEF SetAt
<1>2. changes \subseteq 0 .. n
    OBVIOUS
<1>3. \E m \in changes : \A l \in changes : l <= m
    <2> HIDE DEF changes
    <2> QED BY <1>1, <1>2, GreatestOf
<1>4. last \in changes /\ \A l \in changes : l <= last
    BY <1>3
<1>5. SetAt(n, i) = last /\ log[last].op = "set"
    BY <1>1
<1> HIDE DEF last
<1>6. last \in 1 .. n /\ log[last].index = i
    BY <1>4
<1>7. \A l \in 1 .. n : log[l].index = i => l <= last
    BY <1>4
<1> QED BY <1>5, <1>6, <1>7

\* An index that does not change between two versions is set to the same.
LEMMA SetAtSame ==
    ASSUME NEW a \in Nat, NEW b \in Nat, a <= b, NEW i, \A l \in a + 1 .. b : log[l].index # i
    PROVE  SetAt(a, i) = SetAt(b, i)
<1> DEFINE A == {m \in 1 .. a : log[m].index = i}
           B == {m \in 1 .. b : log[m].index = i}
           Last(S) == CHOOSE m \in S : \A l \in S : l <= m
           Value(S) == IF S = {} THEN Nothing ELSE IF log[Last(S)].op = "set" THEN Last(S) ELSE Nothing
<1>1. A = B
    <2>1. ASSUME NEW m \in 1 .. b, log[m].index = i PROVE m \in 1 .. a
        <3>1. m \notin a + 1 .. b
            BY <2>1
        <3> QED BY <3>1
    <2>2. ASSUME NEW m \in 1 .. a PROVE m \in 1 .. b
        OBVIOUS
    <2> QED BY <2>1, <2>2
<1>2. SetAt(a, i) = Value(A) /\ SetAt(b, i) = Value(B)
    BY DEF SetAt
<1> HIDE DEF Value, A, B
<1> QED BY <1>1, <1>2

\* A change makes it what it is.
LEMMA SetAtChange ==
    ASSUME NEW n \in Nat \ {0}, NEW i, log[n].index = i
    PROVE  SetAt(n, i) = IF log[n].op = "set" THEN n ELSE Nothing
<1> DEFINE changes == {m \in 1 .. n : log[m].index = i}
           last == CHOOSE m \in changes : \A l \in changes : l <= m
<1>1. n \in changes /\ \A l \in changes : l <= n
    OBVIOUS
<1>2. last \in changes /\ \A l \in changes : l <= last
    BY <1>1
<1>3. last = n
    <2>1. last <= n /\ n <= last /\ last \in 1 .. n
        BY <1>1, <1>2
    <2> QED BY <2>1
<1>4. SetAt(n, i) = (IF log[last].op = "set" THEN last ELSE Nothing)
    BY <1>1 DEF SetAt
<1> QED BY <1>3, <1>4

\* At version 0 nothing is set.
LEMMA SetAtNone == ASSUME NEW i PROVE SetAt(0, i) = Nothing
BY DEF SetAt

\* A version is not Nothing.
LEMMA NothingIsNoNumber == \A n \in Nat : n # Nothing
BY AppStateAssumption

\* The state at version n of the log: as every device should have it.
AtVersion(n) == [i \in Indices |-> SetAt(n, i)]
RightAt(st, n) == st = [version |-> n, hash |-> TrueHash(n), at |-> AtVersion(n)]

\* The LT hash has each value once or not at all.
LEMMA HashType == ASSUME NEW at PROVE HashOf(at) \in [Values -> {0, 1}]
BY DEF HashOf

Distinct(at, n) ==
    /\ \A j \in Indices : at[j] # Nothing => at[j] \in Nat /\ at[j] < n
    /\ \A j, k \in Indices : at[j] = at[k] /\ at[j] # Nothing => j = k
Changed(at, op, i, n) == [j \in Indices |-> IF j # i THEN at[j] ELSE IF op = "set" THEN n ELSE Nothing]

\* The LT hash: subtracting the old value and adding the new one is right,
\* because no two indices have the same value.
LEMMA MixedHash ==
    ASSUME NEW at, NEW op, NEW i \in Indices, NEW n \in Nat \ {0},
           Distinct(at, n), NEW w \in Values
    PROVE  HashOf(at)[w] - Count(at[i], w) + (IF op = "set" THEN Count(n, w) ELSE 0) = HashOf(Changed(at, op, i, n))[w]
<1> DEFINE next == Changed(at, op, i, n)
<1>1. w \in Nat /\ w # Nothing
    BY AppStateAssumption, NothingIsNoNumber DEF Values
<1>2. /\ HashOf(at)[w] = IF \E j \in Indices : at[j] = w THEN 1 ELSE 0
      /\ HashOf(next)[w] = IF \E j \in Indices : next[j] = w THEN 1 ELSE 0
    BY DEF HashOf
<1>3. \A j \in Indices : j # i => next[j] = at[j]
    BY DEF Changed
<1>4. next[i] = IF op = "set" THEN n ELSE Nothing
    BY DEF Changed
<1> HIDE DEF next
<1>5. n # Nothing
    BY NothingIsNoNumber
<1>6. CASE at[i] = w
    <2>1. \A j \in Indices : at[j] = w => j = i
        BY <1>1, <1>6 DEF Distinct
    <2>2. w # n
        BY <1>1, <1>6 DEF Distinct
    <2>3. ~ \E j \in Indices : next[j] = w
        BY <1>1, <1>3, <1>4, <2>1, <2>2
    <2>4. HashOf(at)[w] = 1 /\ HashOf(next)[w] = 0
        BY <1>2, <1>6, <2>3
    <2>5. Count(at[i], w) = 1 /\ Count(n, w) = 0
        BY <1>6, <2>2 DEF Count
    <2> QED BY <2>4, <2>5 DEF next
<1>7. CASE at[i] # w /\ op = "set" /\ w = n
    <2>1. ~ \E j \in Indices : at[j] = w
        BY <1>1, <1>7 DEF Distinct
    <2>2. \E j \in Indices : next[j] = w
        BY <1>4, <1>7
    <2>3. HashOf(at)[w] = 0 /\ HashOf(next)[w] = 1
        BY <1>2, <2>1, <2>2
    <2>4. Count(at[i], w) = 0 /\ Count(n, w) = 1
        BY <1>7 DEF Count
    <2> QED BY <1>7, <2>3, <2>4 DEF next
<1>8. CASE at[i] # w /\ ~(op = "set" /\ w = n)
    <2>1. next[i] # w
        BY <1>1, <1>4, <1>8
    <2>2. (\E j \in Indices : at[j] = w) <=> (\E j \in Indices : next[j] = w)
        BY <1>3, <1>8, <2>1
    <2>3. HashOf(at)[w] = HashOf(next)[w] /\ HashOf(at)[w] \in {0, 1}
        BY <1>2, <2>2
    <2>4. Count(at[i], w) = 0 /\ (op = "set" => Count(n, w) = 0)
        BY <1>8 DEF Count
    <2> QED BY <2>3, <2>4 DEF next
<1> QED BY <1>6, <1>7, <1>8 DEF next

-----------------------------------------------------------------------------
(* The LT hash and the states of the log.                                  *)

LogRight == log \in Seq(Entries) /\ Len(log) \in 0 .. MaxVersion

\* A patch of the log, and its place.
LEMMA LogAt ==
    ASSUME LogRight, NEW n \in 1 .. Len(log)
    PROVE  /\ log[n].op \in {"set", "remove"} /\ log[n].index \in Indices
           /\ Len(log) \in Nat /\ n \in Values /\ n \in Nat \ {0}
<1>1. log[n] \in Entries
    BY ElementOfSeq DEF LogRight
<1>2. Len(log) \in Nat /\ n \in Values
    BY AppStateAssumption DEF LogRight, Values
<1> QED BY <1>1, <1>2 DEF Entries

\* What is set at a version is so for one index.
LEMMA VersionFields ==
    ASSUME LogRight, NEW n \in 0 .. Len(log)
    PROVE  /\ n \in Nat
           /\ \A i \in Indices : SetAt(n, i) # Nothing => SetAt(n, i) \in 1 .. n
           /\ \A i, j \in Indices : SetAt(n, i) = SetAt(n, j) /\ SetAt(n, i) # Nothing => i = j
<1>1. n \in Nat
    BY AppStateAssumption DEF LogRight
<1>2. ASSUME NEW i \in Indices, SetAt(n, i) # Nothing PROVE SetAt(n, i) \in 1 .. n /\ log[SetAt(n, i)].index = i
    BY <1>1, <1>2, SetAtIs
<1>3. ASSUME NEW i \in Indices, NEW j \in Indices, SetAt(n, i) = SetAt(n, j), SetAt(n, i) # Nothing PROVE i = j
    <2>1. log[SetAt(n, i)].index = i /\ log[SetAt(n, j)].index = j
        BY <1>2, <1>3
    <2> QED BY <1>3, <2>1
<1> QED BY <1>1, <1>2, <1>3

\* The log as it is after one more change.
LEMMA NextVersion ==
    ASSUME LogRight, NEW n \in 1 .. Len(log), NEW i \in Indices
    PROVE  SetAt(n, i) = IF i # log[n].index THEN SetAt(n - 1, i) ELSE IF log[n].op = "set" THEN n ELSE Nothing
<1>1. n \in Nat \ {0} /\ n - 1 \in Nat
    BY LogAt
<1>2. CASE i = log[n].index
    BY <1>1, <1>2, SetAtChange
<1>3. CASE i # log[n].index
    <2>1. \A l \in (n - 1) + 1 .. n : log[l].index # i
        BY <1>1, <1>3
    <2>2. n - 1 <= n
        BY <1>1
    <2> QED BY <1>1, <1>3, <2>1, <2>2, SetAtSame
<1> QED BY <1>2, <1>3

\* mix() and finish(), for a device that is at the version before.
LEMMA MixedIs ==
    ASSUME LogRight, NEW n \in Nat \ {0}, n - 1 \in 0 .. Len(log), NEW st, RightAt(st, n - 1),
           NEW op, NEW i \in Indices
    PROVE  LET next == Changed(AtVersion(n - 1), op, i, n)
           IN  Mixed(st, op, i, n) = [version |-> n, hash |-> HashOf(next), at |-> next]
<1> DEFINE at == AtVersion(n - 1)
           next == Changed(at, op, i, n)
<1>1. n - 1 \in Nat
    OBVIOUS
<1>2. Distinct(at, n)
    <2>1. \A j \in Indices : at[j] = SetAt(n - 1, j)
        BY DEF AtVersion
    <2>2. \A j \in Indices : SetAt(n - 1, j) # Nothing => SetAt(n - 1, j) \in 1 .. n - 1
        BY <1>1, VersionFields
    <2>3. \A j, k \in Indices : SetAt(n - 1, j) = SetAt(n - 1, k) /\ SetAt(n - 1, j) # Nothing => j = k
        BY <1>1, VersionFields
    <2> QED BY <1>1, <2>1, <2>2, <2>3 DEF Distinct
<1>3. st.hash = HashOf(at) /\ st.at = at
    BY DEF RightAt, TrueHash, AtVersion
<1>4. [st.at EXCEPT ![i] = IF op = "set" THEN n ELSE Nothing] = next
    BY <1>3 DEF AtVersion, Changed
<1>5. [w \in Values |-> st.hash[w] - Count(st.at[i], w) + (IF op = "set" THEN Count(n, w) ELSE 0)] = HashOf(next)
    <2>1. ASSUME NEW w \in Values
          PROVE  st.hash[w] - Count(st.at[i], w) + (IF op = "set" THEN Count(n, w) ELSE 0) = HashOf(next)[w]
        <3> HIDE DEF at
        <3>1. HashOf(at)[w] - Count(at[i], w) + (IF op = "set" THEN Count(n, w) ELSE 0) = HashOf(next)[w]
            BY <1>2, MixedHash
        <3> QED BY <1>3, <3>1
    <2>2. HashOf(next) = [w \in Values |-> HashOf(next)[w]]
        BY DEF HashOf
    <2> QED BY <2>1, <2>2
<1> HIDE DEF at, next
<1>6. Mixed(st, op, i, n) = [version |-> n, hash |-> HashOf(next), at |-> next]
    BY <1>4, <1>5 DEF Mixed
<1> QED BY <1>6 DEF at, next

\* It takes a device from each version to the next.
LEMMA MixedRight ==
    ASSUME LogRight, NEW n \in 1 .. Len(log), NEW st, RightAt(st, n - 1)
    PROVE  RightAt(Mixed(st, log[n].op, log[n].index, n), n)
<1> DEFINE next == Changed(AtVersion(n - 1), log[n].op, log[n].index, n)
<1>1. log[n].index \in Indices /\ n \in Nat \ {0} /\ n - 1 \in 0 .. Len(log)
    BY LogAt
<1>2. Mixed(st, log[n].op, log[n].index, n) = [version |-> n, hash |-> HashOf(next), at |-> next]
    BY <1>1, MixedIs
<1>3. next = AtVersion(n)
    <2>1. \A j \in Indices : next[j] = SetAt(n, j)
        BY NextVersion DEF Changed, AtVersion
    <2> QED BY <2>1 DEF AtVersion, Changed
<1> HIDE DEF next
<1> QED BY <1>2, <1>3 DEF RightAt, TrueHash, AtVersion

\* decodePatches: from one version to another, or not at all.
LEMMA DecodedRight ==
    ASSUME LogRight, NEW st, NEW v \in 0 .. Len(log), RightAt(st, v), NEW n \in v .. Len(log)
    PROVE  Decoded(st, n) = Nothing \/ RightAt(Decoded(st, n), n)
<1> DEFINE Next(prev, k) ==
               IF prev = Nothing \/ MixThrows(prev, log[k].op, log[k].index) THEN Nothing
               ELSE LET next == Mixed(prev, log[k].op, log[k].index, k)
                    IN  IF next.hash = log[k].hash THEN next ELSE Nothing
           Def(f, m) == f = [k \in v .. m |-> IF k = v THEN st ELSE Next(f[k - 1], k)]
           after == CHOOSE f : Def(f, n)
<1>1. v \in Nat /\ n \in Nat /\ v <= n /\ st.version = v
    BY AppStateAssumption DEF LogRight, RightAt
<1>2. Decoded(st, n) = after[n]
    BY <1>1 DEF Decoded
<1>3. ASSUME NEW m \in v .. n, m # v, NEW f, Def(f, m - 1) PROVE \E g : Def(g, m)
    <2> DEFINE g == [k \in v .. m |-> IF k = m THEN Next(f[m - 1], m) ELSE f[k]]
    <2> HIDE DEF Next
    <2>1. ASSUME NEW k \in v .. m PROVE g[k] = IF k = v THEN st ELSE Next(g[k - 1], k)
        <3>1. CASE k = m
            BY <1>1, <1>3, <3>1
        <3>2. CASE k # m
            BY <1>1, <1>3, <3>2
        <3> QED BY <3>1, <3>2
    <2>2. Def(g, m)
        BY <2>1
    <2> QED BY <2>2
<1> HIDE DEF Def, Next
<1>4. \E f : Def(f, n)
    <2> DEFINE T == {m \in v .. n : ~ \E f : Def(f, m)}
    <2>1. SUFFICES ASSUME T # {} PROVE FALSE
        BY <1>1
    <2>2. T \in SUBSET Nat
        BY <1>1
    <2>3. PICK m \in T : \A k \in T : m <= k
        BY <2>1, <2>2, LeastOf
    <2>4. m # v
        <3> DEFINE f == [k \in v .. v |-> st]
        <3>1. f = [k \in v .. v |-> IF k = v THEN st ELSE Next(f[k - 1], k)]
            BY <1>1
        <3>2. Def(f, v)
            BY <3>1 DEF Def
        <3> QED BY <3>2
    <2>5. m - 1 \in v .. n /\ m - 1 \notin T
        BY <1>1, <2>3, <2>4
    <2>6. PICK f : Def(f, m - 1)
        BY <2>5
    <2> QED BY <1>3, <2>3, <2>4, <2>6
<1>5. Def(after, n)
    BY <1>4
<1> HIDE DEF after
<1>6. \A k \in v .. n : after[k] = IF k = v THEN st ELSE Next(after[k - 1], k)
    BY <1>5 DEF Def
<1> DEFINE Good(k) == after[k] = Nothing \/ RightAt(after[k], k)
           Bad == {k \in v .. n : ~ Good(k)}
<1>7. ASSUME NEW k \in v .. n, k # v, Good(k - 1) PROVE Good(k)
    <2>1. k \in 1 .. Len(log)
        BY <1>1, <1>7
    <2>2. after[k] = Next(after[k - 1], k)
        BY <1>6, <1>7
    <2>3. CASE after[k] = Nothing
        BY <2>3
    <2>4. CASE after[k] # Nothing
        <3>1. after[k - 1] # Nothing /\ after[k] = Mixed(after[k - 1], log[k].op, log[k].index, k)
            BY <2>2, <2>4 DEF Next
        <3>2. RightAt(after[k - 1], k - 1)
            BY <1>7, <3>1
        <3> QED BY <2>1, <3>1, <3>2, MixedRight
    <2> QED BY <2>3, <2>4
<1>8. Good(v)
    BY <1>1, <1>6
<1> HIDE DEF Good
<1>9. Bad = {}
    <2>1. SUFFICES ASSUME Bad # {} PROVE FALSE
        OBVIOUS
    <2>2. Bad \in SUBSET Nat
        BY <1>1
    <2>3. PICK k \in Bad : \A l \in Bad : k <= l
        BY <2>1, <2>2, LeastOf
    <2>4. k # v
        BY <1>8
    <2>5. k - 1 \in v .. n /\ k - 1 \notin Bad
        BY <1>1, <2>3, <2>4
    <2>6. Good(k - 1)
        BY <2>5
    <2> QED BY <1>7, <2>3, <2>4, <2>6
<1>10. Good(n)
    BY <1>1, <1>9
<1> QED BY <1>2, <1>10 DEF Good

ChangesTo(entries, n, i) == {m \in 1 .. n : entries[m].index = i}
LastOf(S) == CHOOSE m \in S : \A l \in S : l <= m
ValueOf(entries, S) == IF S = {} THEN Nothing ELSE IF entries[LastOf(S)].op = "set" THEN LastOf(S) ELSE Nothing

\* The log only grows: what was set at a version stays so.
LEMMA LogGrows ==
    ASSUME LogRight, NEW x \in Entries, NEW N, N = Len(log), log' = Append(log, x), N < MaxVersion
    PROVE  /\ LogRight' /\ Len(log') = N + 1 /\ N \in Nat /\ log'[N + 1] = x
           /\ \A l \in 1 .. N : log'[l] = log[l]
           /\ \A n \in 0 .. N : \A i : SetAt(n, i)' = SetAt(n, i)
           /\ AtVersion(N + 1)' = Changed(AtVersion(N), x.op, x.index, N + 1)
<1>1. N \in Nat /\ N + 1 \in 0 .. MaxVersion
    BY AppStateAssumption DEF LogRight
<1>2. log' \in Seq(Entries) /\ Len(log') = N + 1 /\ log'[N + 1] = x /\ \A l \in 1 .. N : log'[l] = log[l]
    BY AppendProperties DEF LogRight
<1>3. LogRight'
    BY <1>1, <1>2 DEF LogRight
<1>4. ASSUME NEW n, NEW i
      PROVE  SetAt(n, i) = ValueOf(log, ChangesTo(log, n, i)) /\ SetAt(n, i)' = ValueOf(log', ChangesTo(log', n, i))
    BY DEF SetAt, ValueOf, ChangesTo, LastOf
<1>6. ASSUME NEW n \in 0 .. N, NEW i PROVE SetAt(n, i)' = SetAt(n, i)
    <2> DEFINE S == ChangesTo(log, n, i)
    <2>1. \A m \in 1 .. n : log'[m] = log[m]
        BY <1>1, <1>2
    <2>2. ChangesTo(log', n, i) = S
        BY <2>1 DEF ChangesTo
    <2>3. CASE S = {}
        BY <1>4, <2>2, <2>3 DEF ValueOf
    <2>4. CASE S # {}
        <3>1. S \subseteq 0 .. n /\ n \in Nat
            BY <1>1 DEF ChangesTo
        <3> HIDE DEF S
        <3>2. PICK m \in S : \A l \in S : l <= m
            BY <2>4, <3>1, GreatestOf
        <3>3. LastOf(S) \in S
            BY <3>2 DEF LastOf
        <3>4. log'[LastOf(S)] = log[LastOf(S)]
            BY <2>1, <3>3 DEF S, ChangesTo
        <3>5. ValueOf(log', S) = ValueOf(log, S)
            BY <3>4 DEF ValueOf
        <3>6. SetAt(n, i) = ValueOf(log, S)
            BY <1>4 DEF S
        <3>7. SetAt(n, i)' = ValueOf(log', S)
            BY <1>4, <2>2 DEF S
        <3> QED BY <3>5, <3>6, <3>7
    <2> QED BY <2>3, <2>4
<1>7. ASSUME NEW i \in Indices
      PROVE  SetAt(N + 1, i)' = IF i # x.index THEN SetAt(N, i) ELSE IF x.op = "set" THEN N + 1 ELSE Nothing
    <2>1. N \in 0 .. N /\ N + 1 \in 1 .. N + 1
        BY <1>1
    <2>2. CASE i # x.index
        <3>1. ChangesTo(log', N + 1, i) = ChangesTo(log', N, i)
            <4>1. \A m \in 1 .. N + 1 : m \notin 1 .. N => m = N + 1
                BY <1>1
            <4>2. \A m \in 1 .. N : m \in 1 .. N + 1
                BY <1>1
            <4> QED BY <1>2, <2>2, <4>1, <4>2 DEF ChangesTo
        <3>2. SetAt(N + 1, i)' = SetAt(N, i)'
            BY <1>4, <3>1
        <3> QED BY <1>6, <2>1, <2>2, <3>2
    <2>3. CASE i = x.index
        <3> DEFINE S == ChangesTo(log', N + 1, i)
        <3>1. N + 1 \in S /\ \A l \in S : l <= N + 1
            BY <1>1, <1>2, <2>1, <2>3 DEF ChangesTo
        <3>2. S # {} /\ \A l \in S : l \in 1 .. N + 1
            BY <3>1 DEF ChangesTo
        <3> HIDE DEF S
        <3>3. LastOf(S) \in S /\ \A l \in S : l <= LastOf(S)
            BY <3>1 DEF LastOf
        <3>4. LastOf(S) = N + 1
            <4>1. LastOf(S) <= N + 1 /\ N + 1 <= LastOf(S) /\ LastOf(S) \in 1 .. N + 1
                BY <3>1, <3>2, <3>3
            <4> QED BY <1>1, <4>1
        <3>5. SetAt(N + 1, i)' = ValueOf(log', S)
            BY <1>4 DEF S
        <3>6. ValueOf(log', S) = IF x.op = "set" THEN N + 1 ELSE Nothing
            BY <1>2, <3>2, <3>4 DEF ValueOf
        <3> QED BY <2>3, <3>5, <3>6
    <2> QED BY <2>2, <2>3
<1>8. AtVersion(N + 1)' = Changed(AtVersion(N), x.op, x.index, N + 1)
    <2>1. AtVersion(N + 1)' = [i \in Indices |-> SetAt(N + 1, i)']
        BY DEF AtVersion
    <2> QED BY <1>7, <2>1 DEF AtVersion, Changed
<1> QED BY <1>1, <1>2, <1>3, <1>6, <1>8

-----------------------------------------------------------------------------
(* The inductive invariant: what a device has was right at some version.   *)

\* Whatever a device stores, asks with or wants back was right at some version.
StateRight(st) == st = Nothing \/ \E n \in 0 .. Len(log) : RightAt(st, n)

\* Its own patch: built on such a state, and right itself once it is taken.
OwnRight(own) ==
    /\ own.op = "set" /\ own.index \in Indices
    /\ \E n \in 0 .. Len(log) : \E st : RightAt(st, n) /\ n < MaxVersion /\ own.state = EncodedState(st, "set", own.index)
TakenRight(own) ==
    /\ own.state.version \in 1 .. Len(log) /\ RightAt(own.state, own.state.version)
    /\ log[own.state.version].index = own.index

SyncRight(r) ==
    /\ StateRight(r.first)
    /\ r.pc \in {"asked", "answered"} => \E n \in 0 .. Len(log) : RightAt(r.from, n)
    /\ r.pc = "answered" =>
          /\ r.reply.upto \in r.from.version .. Len(log) /\ r.reply.snap \in 0 .. r.reply.upto
          /\ r.reply.snap > 0 => r.from.version = 0
    /\ r.pc \in {"sent", "taken"} => OwnRight(r.own)
    /\ r.pc = "taken" => TakenRight(r.own)

IsSync(r) ==
    /\ DOMAIN r = {"pc", "patch", "first", "from", "min", "attempts", "reply", "got", "own", "older"}
    /\ r.pc \in {"new", "queued", "asked", "answered", "again", "tell", "encode", "sent", "taken", "done"}
    /\ r.min \in Int /\ r.got \in [Indices -> Nat] /\ r.older \in BOOLEAN
    /\ r.pc \in {"new", "queued"} => r.min = -1 /\ r.got = [i \in Indices |-> 0] /\ ~r.older

AppInv ==
    /\ LogRight /\ PatchesVerify
    /\ \A st : st = stored => StateRight(st)
    /\ view \in [Indices -> Nat] /\ overlapped \in BOOLEAN /\ undone \in BOOLEAN
    /\ DOMAIN sync = Syncs /\ \A s \in Syncs : \A r : r = sync[s] => IsSync(r) /\ SyncRight(r)

\* A device that has nothing is right at version 0.
LEMMA NewStateRight == ASSUME LogRight PROVE RightAt(NewState, 0) /\ 0 \in 0 .. Len(log)
<1>1. AtVersion(0) = [i \in Indices |-> Nothing]
    BY SetAtNone DEF AtVersion
<1>2. TrueHash(0) = [v \in Values |-> 0]
    <2>1. \A v \in Values : v # Nothing
        BY AppStateAssumption DEF Values
    <2>2. TrueHash(0) = HashOf([i \in Indices |-> Nothing])
        BY <1>1 DEF TrueHash, AtVersion
    <2> QED BY <2>1, <2>2 DEF HashOf
<1>3. 0 \in 0 .. Len(log)
    BY AppStateAssumption DEF LogRight
<1> QED BY <1>1, <1>2, <1>3 DEF RightAt, NewState

\* The invariant holds at the start.
LEMMA StartRight == ASSUME AppInit PROVE AppInv
<1>1. LogRight /\ Len(log) = 0
    BY AppStateAssumption, EmptySeq DEF AppInit, LogRight
<1>2. PatchesVerify
    BY <1>1 DEF PatchesVerify
<1>3. IsSync(NewSync) /\ SyncRight(NewSync)
    BY DEF NewSync, IsSync, SyncRight, StateRight
<1>4. \A s \in Syncs : sync[s] = NewSync
    BY DEF AppInit
<1> QED BY <1>1, <1>2, <1>3, <1>4, Zenon DEF AppInit, AppInv, StateRight

\* What was right stays so as the log grows, and while it does not change.
LEMMA StaysRight ==
    ASSUME LogRight, \/ UNCHANGED log
                     \/ \E x \in Entries : Len(log) < MaxVersion /\ log' = Append(log, x)
    PROVE  /\ LogRight'
           /\ \A n \in 0 .. Len(log) : /\ n \in 0 .. Len(log') /\ n \in Nat
                                       /\ \A st : RightAt(st, n)' <=> RightAt(st, n)
           /\ \A st : StateRight(st) => StateRight(st)'
           /\ \A own : (OwnRight(own) => OwnRight(own)') /\ (TakenRight(own) => TakenRight(own)')
           /\ \A r : SyncRight(r) => SyncRight(r)'
<1>1. LogRight' /\ Len(log) \in Nat /\ Len(log') \in Nat /\ Len(log) <= Len(log')
      /\ (\A l \in 1 .. Len(log) : log'[l] = log[l])
      /\ \A n \in 0 .. Len(log) : \A i : SetAt(n, i)' = SetAt(n, i)
    <2>1. CASE UNCHANGED log
        <3>1. \A n, i : SetAt(n, i)' = SetAt(n, i)
            BY <2>1 DEF SetAt
        <3> QED BY <2>1, <3>1, AppStateAssumption DEF LogRight
    <2>2. CASE \E x \in Entries : Len(log) < MaxVersion /\ log' = Append(log, x)
        <3>1. PICK x \in Entries : Len(log) < MaxVersion /\ log' = Append(log, x)
            BY <2>2
        <3>2. PICK N : N = Len(log)
            OBVIOUS
        <3>3. LogRight' /\ Len(log') = N + 1 /\ N \in Nat
              /\ (\A l \in 1 .. N : log'[l] = log[l]) /\ \A n \in 0 .. N : \A i : SetAt(n, i)' = SetAt(n, i)
            BY <3>1, <3>2, LogGrows
        <3> QED BY <3>2, <3>3
    <2> QED BY <2>1, <2>2
<1>2. ASSUME NEW n \in 0 .. Len(log) PROVE n \in 0 .. Len(log') /\ n \in Nat /\ \A st : RightAt(st, n)' <=> RightAt(st, n)
    <2>1. AtVersion(n)' = AtVersion(n)
        BY <1>1 DEF AtVersion
    <2>2. TrueHash(n)' = TrueHash(n)
        <3>1. TrueHash(n) = HashOf(AtVersion(n)) /\ TrueHash(n)' = HashOf(AtVersion(n)')
            BY DEF TrueHash, AtVersion, HashOf
        <3> QED BY <2>1, <3>1
    <2> QED BY <1>1, <2>1, <2>2 DEF RightAt
<1>3. ASSUME NEW st, StateRight(st) PROVE StateRight(st)'
    BY <1>2, <1>3 DEF StateRight
<1>4. ASSUME NEW own, OwnRight(own) PROVE OwnRight(own)'
    <2>1. PICK n \in 0 .. Len(log) : \E st : RightAt(st, n) /\ n < MaxVersion /\ own.state = EncodedState(st, "set", own.index)
        BY <1>4 DEF OwnRight
    <2>2. PICK st : RightAt(st, n) /\ n < MaxVersion /\ own.state = EncodedState(st, "set", own.index)
        BY <2>1
    <2>3. n \in 0 .. Len(log') /\ RightAt(st, n)'
        BY <1>2, <2>2
    <2> QED BY <1>4, <2>2, <2>3 DEF OwnRight
<1>5. ASSUME NEW own, TakenRight(own) PROVE TakenRight(own)'
    <2>1. PICK n : n = own.state.version
        OBVIOUS
    <2>2. n \in 1 .. Len(log) /\ n \in 0 .. Len(log) /\ n \in 1 .. Len(log') /\ RightAt(own.state, n) /\ log[n].index = own.index
        BY <1>1, <1>5, <2>1 DEF TakenRight
    <2>3. RightAt(own.state, n)' /\ log'[n].index = own.index
        BY <1>1, <1>2, <2>2
    <2> QED BY <2>1, <2>2, <2>3 DEF TakenRight
<1>6. ASSUME NEW r, SyncRight(r) PROVE SyncRight(r)'
    <2>1. StateRight(r.first)'
        BY <1>3, <1>6 DEF SyncRight
    <2>2. r.pc \in {"asked", "answered"} => \E n \in 0 .. Len(log') : RightAt(r.from, n)'
        BY <1>2, <1>6 DEF SyncRight
    <2>3. ASSUME r.pc = "answered"
          PROVE  /\ r.reply.upto \in r.from.version .. Len(log') /\ r.reply.snap \in 0 .. r.reply.upto
                 /\ r.reply.snap > 0 => r.from.version = 0
        BY <1>1, <1>6, <2>3 DEF SyncRight
    <2>4. (r.pc \in {"sent", "taken"} => OwnRight(r.own)') /\ (r.pc = "taken" => TakenRight(r.own)')
        BY <1>4, <1>5, <1>6 DEF SyncRight
    <2> QED BY <2>1, <2>2, <2>3, <2>4 DEF SyncRight
<1> QED BY <1>1, <1>2, <1>3, <1>4, <1>5, <1>6

-----------------------------------------------------------------------------
(* The steps, one by one.                                                  *)

\* What the calls do to what they remember.
Asks(old, first, r) ==
    /\ IsSync(r) /\ r.pc = "asked" /\ r.first = first /\ r.from = (IF stored = Nothing THEN NewState ELSE stored)
    /\ r.min = (IF old.min = -1 /\ stored # Nothing THEN stored.version ELSE old.min)
    /\ r.got = old.got /\ r.older = old.older

\* The version a device has is one of the log.
LEMMA StoredVersion ==
    ASSUME AppInv, stored # Nothing
    PROVE  stored.version \in 0 .. Len(log) /\ stored.version \in Nat /\ RightAt(stored, stored.version)
<1>1. PICK n \in 0 .. Len(log) : RightAt(stored, n)
    BY DEF AppInv, StateRight
<1>2. stored.version = n
    BY <1>1 DEF RightAt
<1> QED BY <1>1, <1>2, VersionFields DEF AppInv

\* A call asks for what comes after the stored version.
LEMMA AskingIs ==
    ASSUME AppInv, NEW old, IsSync(old)
    PROVE  /\ Asks(old, old.first, Asking(old))
           /\ Asks(old, stored, Asking([old EXCEPT !.first = stored]))
<1>1. stored # Nothing => stored.version \in Int
    BY StoredVersion
<1>2. ASSUME NEW x, IsSync(x) PROVE Asks(x, x.first, Asking(x))
    BY <1>1, <1>2 DEF IsSync, Asks, Asking
<1>3. IsSync([old EXCEPT !.first = stored])
    BY DEF IsSync
<1>4. Asks([old EXCEPT !.first = stored], stored, Asking([old EXCEPT !.first = stored]))
    <2> DEFINE x == [old EXCEPT !.first = stored]
    <2>1. x.first = stored
        BY DEF IsSync
    <2> HIDE DEF x
    <2> QED BY <1>2, <1>3, <2>1 DEF x
<1>5. [old EXCEPT !.first = stored].min = old.min /\ [old EXCEPT !.first = stored].got = old.got
      /\ [old EXCEPT !.first = stored].older = old.older
    BY DEF IsSync
<1>6. Asks(old, stored, Asking([old EXCEPT !.first = stored]))
    <2> DEFINE x == [old EXCEPT !.first = stored]
    <2> HIDE DEF x
    <2> QED BY <1>4, <1>5 DEF Asks, x
<1> QED BY <1>2, <1>6

\* One call makes a step.
LEMMA OneSync ==
    ASSUME AppInv, NEW s \in Syncs, NEW new, sync' = [sync EXCEPT ![s] = new]
    PROVE  /\ DOMAIN sync' = Syncs /\ sync'[s] = new /\ \A t \in Syncs : t # s => sync'[t] = sync[t]
           /\ IsSync(sync[s]) /\ SyncRight(sync[s])
BY DEF AppInv

\* The other calls keep what they remember.
LEMMA AllRight ==
    ASSUME AppInv, NEW s \in Syncs, NEW new, sync' = [sync EXCEPT ![s] = new], IsSync(new), SyncRight(new)',
           \A r : SyncRight(r) => SyncRight(r)'
    PROVE  (DOMAIN sync = Syncs /\ \A t \in Syncs : \A r : r = sync[t] => IsSync(r) /\ SyncRight(r))'
<1>1. DOMAIN sync' = Syncs
    BY OneSync
<1>2. ASSUME NEW t \in Syncs, NEW r, r = sync'[t] PROVE IsSync(r) /\ SyncRight(r)'
    <2>1. CASE t = s
        BY <1>2, <2>1, OneSync
    <2>2. CASE t # s
        <3>1. r = sync[t]
            BY <1>2, <2>2, OneSync
        <3> QED BY <3>1 DEF AppInv
    <2> QED BY <2>1, <2>2
<1> QED BY <1>1, <1>2

\* Steps that leave the log alone, and what is stored.
LEMMA StoresKeeps ==
    ASSUME AppInv, NEW s \in Syncs, NEW new, sync' = [sync EXCEPT ![s] = new], IsSync(new), SyncRight(new),
           UNCHANGED log, NEW st, stored' = st, StateRight(st),
           view' \in [Indices -> Nat], overlapped' \in BOOLEAN, undone' \in BOOLEAN
    PROVE  AppInv'
<1>1. LogRight' /\ (\A r : SyncRight(r) => SyncRight(r)') /\ \A x : StateRight(x) => StateRight(x)'
    BY StaysRight DEF AppInv
<1>2. \A x : x = stored' => StateRight(x)'
    BY <1>1
<1>3. PatchesVerify'
    <2>1. \A n : TrueHash(n)' = TrueHash(n)
        <3>1. \A n, i : SetAt(n, i)' = SetAt(n, i)
            BY DEF SetAt
        <3> QED BY <3>1 DEF TrueHash, HashOf
    <2> QED BY <2>1 DEF AppInv, PatchesVerify
<1>4. (DOMAIN sync = Syncs /\ \A t \in Syncs : \A r : r = sync[t] => IsSync(r) /\ SyncRight(r))'
    BY <1>1, AllRight
<1> QED BY <1>1, <1>2, <1>3, <1>4 DEF AppInv

\* Steps that leave the log and the stored state alone.
LEMMA AloneKeeps ==
    ASSUME AppInv, NEW s \in Syncs, NEW new, sync' = [sync EXCEPT ![s] = new], IsSync(new), SyncRight(new),
           UNCHANGED <<log, stored>>, view' \in [Indices -> Nat], overlapped' \in BOOLEAN, undone' \in BOOLEAN
    PROVE  AppInv'
<1>1. PICK st : st = stored
    OBVIOUS
<1>2. stored' = st /\ StateRight(st)
    BY <1>1 DEF AppInv
<1> QED BY <1>2, StoresKeeps

\* What is asked with is right.
LEMMA AsksRight ==
    ASSUME AppInv, NEW old, NEW first, NEW r, SyncRight(old), Asks(old, first, r), StateRight(first)
    PROVE  SyncRight(r)
<1>1. \E n \in 0 .. Len(log) : RightAt(r.from, n)
    <2>1. CASE stored = Nothing
        BY <2>1, NewStateRight DEF Asks, AppInv
    <2>2. CASE stored # Nothing
        BY <2>2, StoredVersion DEF Asks
    <2> QED BY <2>1, <2>2
<1> QED BY <1>1 DEF SyncRight, Asks

\* BeginSync, BeginPatch and AskAgain keep the invariant.
LEMMA AsksKeeps ==
    ASSUME AppInv, NEW s \in Syncs, BeginSync(s) \/ BeginPatch(s) \/ AskAgain(s)
    PROVE  AppInv'
<1> DEFINE old == sync[s]
           again == Asking(old)
           first == Asking([old EXCEPT !.first = stored])
<1>1. IsSync(old) /\ SyncRight(old) /\ StateRight(stored) /\ StateRight(old.first)
    BY DEF AppInv, SyncRight
<1>2. IsSync(again) /\ SyncRight(again) /\ IsSync(first) /\ SyncRight(first)
    BY <1>1, AskingIs, AsksRight DEF Asks
<1>3. UNCHANGED <<log, stored, view, undone>> /\ overlapped' \in BOOLEAN
    BY DEF BeginSync, BeginPatch, AskAgain, AppInv, Overlaps
<1>4. sync' = [sync EXCEPT ![s] = first] \/ sync' = [sync EXCEPT ![s] = again]
    BY DEF BeginSync, BeginPatch, AskAgain
<1> HIDE DEF first, again
<1> QED BY <1>2, <1>3, <1>4, AloneKeeps DEF AppInv

\* CallPatch keeps the invariant.
LEMMA QueueKeeps == ASSUME AppInv, NEW s \in Syncs, CallPatch(s) PROVE AppInv'
<1> DEFINE new == [sync[s] EXCEPT !.pc = "queued", !.patch = TRUE]
<1>1. IsSync(sync[s]) /\ SyncRight(sync[s]) /\ sync[s].pc = "new"
    BY DEF AppInv, CallPatch
<1>2. IsSync(new) /\ SyncRight(new)
    BY <1>1 DEF IsSync, SyncRight
<1>3. sync' = [sync EXCEPT ![s] = new] /\ UNCHANGED <<log, stored, view, overlapped, undone>>
    BY DEF CallPatch
<1> HIDE DEF new
<1> QED BY <1>2, <1>3, AloneKeeps DEF AppInv

\* ServerAnswers keeps the invariant.
LEMMA AnswerKeeps == ASSUME AppInv, NEW s \in Syncs, ServerAnswers(s) PROVE AppInv'
<1> DEFINE old == sync[s]
<1>1. IsSync(old) /\ SyncRight(old) /\ old.pc = "asked" /\ UNCHANGED <<log, stored, view, overlapped, undone>>
    BY DEF AppInv, ServerAnswers
<1>2. PICK n \in 0 .. Len(log) : RightAt(old.from, n)
    BY <1>1 DEF SyncRight
<1>3. old.from.version = n /\ n \in Nat /\ Len(log) \in Nat
    BY <1>2, AppStateAssumption DEF RightAt, AppInv, LogRight
<1>4. PICK snap \in (IF n = 0 /\ log # <<>> THEN 1 .. Len(log) ELSE {0}), upto \in n .. Len(log) :
          /\ snap <= upto
          /\ sync' = [sync EXCEPT ![s].pc = "answered",
                                  ![s].reply = [snap |-> snap, upto |-> upto, more |-> upto < Len(log)]]
    BY <1>3 DEF ServerAnswers
<1> DEFINE reply == [snap |-> snap, upto |-> upto, more |-> upto < Len(log)]
           new == [old EXCEPT !.pc = "answered", !.reply = reply]
<1>5. sync' = [sync EXCEPT ![s] = new]
    BY <1>4
<1>6. snap \in 0 .. upto /\ (snap > 0 => n = 0)
    BY <1>3, <1>4
<1>7. reply.snap = snap /\ reply.upto = upto
    OBVIOUS
<1> HIDE DEF reply
<1>8. IsSync(new)
    BY <1>1 DEF IsSync
<1>9. SyncRight(new)
    BY <1>1, <1>2, <1>3, <1>6, <1>7 DEF SyncRight, IsSync
<1> HIDE DEF new
<1> QED BY <1>1, <1>5, <1>8, <1>9, AloneKeeps DEF AppInv

\* What an answer may be decoded to.
LEMMA SnapshotRight ==
    ASSUME LogRight, NEW n \in 0 .. Len(log)
    PROVE  FromSnapshot(n) = Nothing \/ RightAt(FromSnapshot(n), n)
BY DEF FromSnapshot, RightAt, TrueHash, AtVersion

\* A state that an answer is decoded to is right at the version the answer ends with.
LEMMA DecodesTo ==
    ASSUME AppInv, NEW r, IsSync(r), SyncRight(r), r.pc = "answered", NEW state \in Decodes(r)
    PROVE  /\ r.from.version \in Nat /\ r.reply.upto \in Nat /\ r.reply.snap \in Nat /\ r.reply.upto \in 0 .. Len(log)
           /\ r.from.version <= r.reply.upto /\ r.reply.snap <= r.reply.upto
           /\ r.reply.snap > 0 => r.from.version = 0
           /\ Empty(r) => state = r.from /\ r.reply.upto = r.from.version
           /\ state = Nothing \/ RightAt(state, r.reply.upto)
<1>1. PICK v \in 0 .. Len(log) : RightAt(r.from, v)
    BY DEF SyncRight
<1> DEFINE upto == r.reply.upto
           snap == r.reply.snap
<1>2. r.from.version = v /\ v \in Nat /\ Len(log) \in Nat
    BY <1>1, AppStateAssumption DEF RightAt, AppInv, LogRight
<1>3. upto \in v .. Len(log) /\ snap \in 0 .. upto /\ (snap > 0 => v = 0)
    BY <1>2 DEF SyncRight
<1>4. upto \in Nat /\ snap \in Nat /\ upto \in 0 .. Len(log)
    BY <1>2, <1>3
<1>5. Empty(r) => state = r.from /\ upto = v
    <2>1. ASSUME Empty(r) PROVE upto = v
        <3>1. snap = 0 /\ (v + 1) .. upto = {}
            BY <1>2, <2>1 DEF Empty, Patches, FirstPatch
        <3>2. v + 1 \notin (v + 1) .. upto
            BY <3>1
        <3> QED BY <1>2, <1>3, <1>4, <3>2
    <2> QED BY <2>1 DEF Decodes
<1>6. state = Nothing \/ RightAt(state, upto)
    <2>1. CASE Empty(r)
        BY <1>1, <1>5, <2>1
    <2>2. CASE ~Empty(r) /\ snap = 0
        <3>1. state = Nothing \/ (r.from # Nothing /\ state = Decoded(r.from, upto))
            BY <2>2 DEF Decodes
        <3> HIDE DEF upto
        <3> QED BY <1>1, <1>3, <3>1, DecodedRight DEF AppInv
    <2>3. CASE ~Empty(r) /\ snap # 0
        <3>1. state = Nothing \/ (FromSnapshot(snap) # Nothing /\ state = Decoded(FromSnapshot(snap), upto))
            BY <2>3 DEF Decodes
        <3>2. snap \in 0 .. Len(log) /\ upto \in snap .. Len(log)
            BY <1>2, <1>3, <1>4
        <3> HIDE DEF upto, snap
        <3>3. FromSnapshot(snap) = Nothing \/ RightAt(FromSnapshot(snap), snap)
            BY <3>2, SnapshotRight DEF AppInv
        <3> QED BY <3>1, <3>2, <3>3, DecodedRight DEF AppInv
    <2> QED BY <2>1, <2>2, <2>3
<1> QED BY <1>2, <1>3, <1>4, <1>5, <1>6

\* What is told of an index is the version of its newest change that it was
\* not told of, or that of the snapshot, or what was told of it before.
LEMMA NewestIs ==
    ASSUME NEW r, NEW i, NEW told \in BOOLEAN, FirstPatch(r) \in Nat, r.reply.upto \in Nat
    PROVE  LET changed == {k \in Patches(r) : log[k].index = i /\ k > r.min}
           IN  \/ /\ changed # {} /\ Newest(r, i, told) \in changed /\ \A l \in changed : l <= Newest(r, i, told)
               \/ /\ changed = {} /\ told /\ r.reply.snap > 0 /\ SetAt(r.reply.snap, i) # Nothing
                  /\ Newest(r, i, told) = SetAt(r.reply.snap, i)
               \/ /\ changed = {} /\ ~(told /\ r.reply.snap > 0 /\ SetAt(r.reply.snap, i) # Nothing)
                  /\ Newest(r, i, told) = r.got[i]
<1> DEFINE changed == {k \in Patches(r) : log[k].index = i /\ k > r.min}
<1>1. CASE changed = {}
    BY <1>1 DEF Newest
<1>2. CASE changed # {}
    <2>1. changed \subseteq 0 .. r.reply.upto
        BY DEF Patches
    <2>2. Newest(r, i, told) = CHOOSE k \in changed : \A l \in changed : l <= k
        BY <1>2 DEF Newest
    <2> HIDE DEF changed
    <2>3. \E k \in changed : \A l \in changed : l <= k
        BY <1>2, <2>1, GreatestOf
    <2>4. Newest(r, i, told) \in changed /\ \A l \in changed : l <= Newest(r, i, told)
        BY <2>2, <2>3
    <2> QED BY <1>2, <2>4 DEF changed
<1> QED BY <1>1, <1>2

\* An answer that was decoded, and one that was not.
WasApplied(old, state, new) ==
    /\ IsSync(new) /\ new.pc = (IF old.reply.more THEN "again" ELSE "tell") /\ new.first = old.first
    /\ new.got = Told(old) /\ new.min = (IF Patches(old) # {} THEN old.reply.upto ELSE old.min)
    /\ new.older = (old.older \/ (Patches(old) # {} /\ old.reply.upto < old.min))
WasDropped(old, new) ==
    /\ IsSync(new) /\ new.pc \in {"again", "tell"} /\ new.first = old.first
    /\ new.got = old.got /\ new.min = old.min /\ new.older = old.older

\* What is told is a version of each index.
LEMMA ToldType ==
    ASSUME AppInv, NEW r, IsSync(r), SyncRight(r), r.pc = "answered"
    PROVE  Told(r) \in [Indices -> Nat] /\ FirstPatch(r) \in Nat
<1>1. PICK state : state \in Decodes(r)
    <2>1. Decodes(r) # {}
        BY DEF Decodes
    <2> QED BY <2>1
<1>2. FirstPatch(r) \in Nat /\ r.reply.upto \in Nat /\ r.reply.snap \in Nat
    BY <1>1, DecodesTo DEF FirstPatch
<1>3. ASSUME NEW i \in Indices, NEW told \in BOOLEAN PROVE Newest(r, i, told) \in Nat
    <2>1. r.got[i] \in Nat
        BY DEF IsSync
    <2>2. SetAt(r.reply.snap, i) # Nothing => SetAt(r.reply.snap, i) \in Nat
        BY <1>2, SetAtIs
    <2>3. {k \in Patches(r) : log[k].index = i /\ k > r.min} \subseteq Nat
        BY <1>2 DEF Patches
    <2> QED BY <1>2, <2>1, <2>2, <2>3, NewestIs
<1>4. (r.reply.snap > r.min) \in BOOLEAN
    OBVIOUS
<1> QED BY <1>2, <1>3, <1>4 DEF Told

\* Apply: the answer is decoded and stored, or dropped with the state.
LEMMA ApplyIs ==
    ASSUME AppInv, NEW s \in Syncs, Apply(s), NEW old, old = sync[s]
    PROVE  /\ old.pc = "answered" /\ UNCHANGED <<log, mutex, view, overlapped, undone>>
           /\ \/ \E state \in Decodes(old) : \E new :
                    /\ state # Nothing /\ stored' = (IF Empty(old) THEN stored ELSE state)
                    /\ sync' = [sync EXCEPT ![s] = new] /\ WasApplied(old, state, new)
              \/ \E new : stored' = Nothing /\ sync' = [sync EXCEPT ![s] = new] /\ WasDropped(old, new)
<1>1. old.pc = "answered" /\ UNCHANGED <<log, mutex, view, overlapped, undone>>
    BY DEF Apply
<1>2. IsSync(old) /\ SyncRight(old)
    BY DEF AppInv
<1> DEFINE r == [old EXCEPT !.from = Nothing, !.reply = NoReply]
<1> DEFINE Leads(o, x, state, fatal) ==
             IF state # Nothing
             THEN /\ stored' = IF Empty(o) THEN stored ELSE state
                  /\ sync' = [sync EXCEPT ![s] =
                        [x EXCEPT !.pc = IF o.reply.more THEN "again" ELSE "tell", !.got = Told(o),
                                  !.min = IF Patches(o) # {} THEN o.reply.upto ELSE @,
                                  !.older = @ \/ (Patches(o) # {} /\ o.reply.upto < x.min)]]
             ELSE /\ stored' = Nothing
                  /\ sync' = [sync EXCEPT ![s] =
                        [x EXCEPT !.pc = IF fatal \/ x.attempts >= MaxAttempts THEN "tell" ELSE "again",
                                  !.attempts = Attempts(x)]]
<1>0. \E state \in Decodes(sync[s]), fatal \in BOOLEAN, x \in {[sync[s] EXCEPT !.from = Nothing, !.reply = NoReply]} :
          Leads(sync[s], x, state, fatal)
    BY Zenon DEF Apply
<1> HIDE DEF Leads
<1>a. \E state \in Decodes(sync[s]), fatal \in BOOLEAN : Leads(sync[s], [sync[s] EXCEPT !.from = Nothing, !.reply = NoReply], state, fatal)
    BY <1>0
<1>3. PICK state \in Decodes(old), fatal \in BOOLEAN : Leads(old, r, state, fatal)
    BY <1>a
<1>4. IsSync(r) /\ r.pc = old.pc /\ r.first = old.first /\ r.got = old.got /\ r.min = old.min /\ r.older = old.older
    BY <1>1, <1>2 DEF IsSync
<1>5. Told(old) \in [Indices -> Nat] /\ old.reply.upto \in Int
    BY <1>1, <1>2, <1>3, ToldType, DecodesTo
<1> HIDE DEF r
<1>6. CASE state # Nothing
    <2> DEFINE pc == IF old.reply.more THEN "again" ELSE "tell"
               got == Told(old)
               min == IF Patches(old) # {} THEN old.reply.upto ELSE r.min
               older == r.older \/ (Patches(old) # {} /\ old.reply.upto < r.min)
               new == [r EXCEPT !.pc = pc, !.got = got, !.min = min, !.older = older]
    <2>1. pc \in {"again", "tell"} /\ got \in [Indices -> Nat] /\ min \in Int /\ older \in BOOLEAN
        BY <1>4, <1>5 DEF IsSync
    <2>2. sync' = [sync EXCEPT ![s] = new] /\ stored' = IF Empty(old) THEN stored ELSE state
        BY <1>3, <1>6 DEF Leads
    <2>3. pc = (IF old.reply.more THEN "again" ELSE "tell") /\ got = Told(old)
          /\ min = (IF Patches(old) # {} THEN old.reply.upto ELSE old.min)
          /\ older = (old.older \/ (Patches(old) # {} /\ old.reply.upto < old.min))
        BY <1>4
    <2> HIDE DEF pc, got, min, older
    <2>4. IsSync(new) /\ new.pc = pc /\ new.first = r.first /\ new.got = got /\ new.min = min /\ new.older = older
        BY <1>4, <2>1 DEF IsSync
    <2> HIDE DEF new
    <2>5. WasApplied(old, state, new)
        BY <1>4, <2>3, <2>4 DEF WasApplied
    <2> QED BY <1>1, <1>6, <2>2, <2>5
<1>7. CASE state = Nothing
    <2> DEFINE pc == IF fatal \/ r.attempts >= MaxAttempts THEN "tell" ELSE "again"
               attempts == Attempts(r)
               new == [r EXCEPT !.pc = pc, !.attempts = attempts]
    <2>1. pc \in {"again", "tell"}
        OBVIOUS
    <2>2. sync' = [sync EXCEPT ![s] = new] /\ stored' = Nothing
        BY <1>3, <1>7 DEF Leads
    <2> HIDE DEF pc, attempts
    <2>3. IsSync(new) /\ new.pc = pc /\ new.first = r.first /\ new.got = r.got /\ new.min = r.min /\ new.older = r.older
        BY <1>4, <2>1 DEF IsSync
    <2> HIDE DEF new
    <2>4. WasDropped(old, new)
        BY <1>4, <2>1, <2>3 DEF WasDropped
    <2> QED BY <1>1, <2>2, <2>4
<1> QED BY <1>6, <1>7

\* Apply keeps the invariant.
LEMMA ApplyKeeps == ASSUME AppInv, NEW s \in Syncs, Apply(s) PROVE AppInv'
<1>1. PICK old : old = sync[s]
    OBVIOUS
<1>2. IsSync(old) /\ SyncRight(old) /\ old.pc = "answered" /\ UNCHANGED <<log, mutex, view, overlapped, undone>>
    BY <1>1, ApplyIs DEF AppInv
<1>3. view' \in [Indices -> Nat] /\ overlapped' \in BOOLEAN /\ undone' \in BOOLEAN
    BY <1>2 DEF AppInv
<1>4. ASSUME NEW state \in Decodes(old), NEW new, stored' = (IF Empty(old) THEN stored ELSE state),
             sync' = [sync EXCEPT ![s] = new], WasApplied(old, state, new)
      PROVE  AppInv'
    <2>1. SyncRight(new)
        BY <1>2, <1>4 DEF SyncRight, WasApplied
    <2>2. PICK st : st = stored'
        OBVIOUS
    <2>3. StateRight(st)
        <3>1. StateRight(stored)
            BY DEF AppInv
        <3>2. StateRight(state)
            BY <1>2, <1>4, DecodesTo DEF StateRight
        <3> QED BY <1>4, <2>2, <3>1, <3>2
    <2> QED BY <1>2, <1>3, <1>4, <2>1, <2>2, <2>3, StoresKeeps DEF WasApplied
<1>5. ASSUME NEW new, stored' = Nothing, sync' = [sync EXCEPT ![s] = new], WasDropped(old, new)
      PROVE  AppInv'
    <2>1. SyncRight(new)
        BY <1>2, <1>5 DEF SyncRight, WasDropped
    <2>2. StateRight(Nothing)
        BY DEF StateRight
    <2> QED BY <1>2, <1>3, <1>5, <2>1, <2>2, StoresKeeps DEF WasDropped
<1> QED BY <1>1, <1>4, <1>5, ApplyIs

\* The state a call is left with.
LEMMA EndedIs == IsSync(Ended) /\ SyncRight(Ended) /\ Ended.pc = "done" /\ Ended.first = Nothing
BY DEF Ended, NewSync, IsSync, SyncRight, StateRight

\* Tell: the application sees what was got, and the call ends or encodes its patch.
LEMMA TellIs ==
    ASSUME AppInv, NEW s \in Syncs, Tell(s), NEW old, old = sync[s]
    PROVE  /\ old.pc = "tell" /\ UNCHANGED <<log, stored, mutex, overlapped, undone>>
           /\ view' = Shown(old.got) /\ view' \in [Indices -> Nat]
           /\ \E new : /\ sync' = [sync EXCEPT ![s] = new] /\ IsSync(new)
                       /\ \/ new = Ended
                          \/ new.pc = "encode" /\ new.first = old.first /\ new.older = old.older
<1> DEFINE coding == [NewSync EXCEPT !.pc = "encode", !.first = old.first, !.older = old.older]
<1>1. IsSync(old) /\ view \in [Indices -> Nat]
    BY DEF AppInv
<1>2. Shown(old.got) \in [Indices -> Nat]
    BY <1>1 DEF Shown, IsSync
<1>3. IsSync(coding) /\ coding.pc = "encode" /\ coding.first = old.first /\ coding.older = old.older
    BY <1>1 DEF NewSync, IsSync
<1>4. sync' = [sync EXCEPT ![s] = coding] \/ sync' = [sync EXCEPT ![s] = Ended]
    BY DEF Tell
<1> HIDE DEF coding
<1> QED BY <1>2, <1>3, <1>4, EndedIs DEF Tell

\* Tell keeps the invariant.
LEMMA TellKeeps == ASSUME AppInv, NEW s \in Syncs, Tell(s) PROVE AppInv'
<1>1. PICK old : old = sync[s]
    OBVIOUS
<1>2. PICK new : /\ sync' = [sync EXCEPT ![s] = new] /\ IsSync(new)
                 /\ \/ new = Ended
                    \/ new.pc = "encode" /\ new.first = old.first /\ new.older = old.older
    BY <1>1, TellIs
<1>3. SyncRight(new)
    BY <1>1, <1>2, EndedIs DEF SyncRight, AppInv
<1> QED BY <1>1, <1>2, <1>3, TellIs, AloneKeeps DEF AppInv

\* encodeSyncdPatch of a value: mix() has set the index already.
LEMMA EncodedIs ==
    ASSUME LogRight, NEW n \in 0 .. Len(log), NEW st, RightAt(st, n), NEW i \in Indices
    PROVE  LET next == Changed(AtVersion(n), "set", i, n + 1)
           IN  EncodedState(st, "set", i) = [version |-> n + 1, hash |-> HashOf(next), at |-> next]
<1> DEFINE next == Changed(AtVersion(n), "set", i, n + 1)
<1>1. n \in Nat /\ n + 1 \in Nat \ {0} /\ (n + 1) - 1 = n
    BY VersionFields
<1>2. st.version = n
    BY DEF RightAt
<1>3. Mixed(st, "set", i, n + 1) = [version |-> n + 1, hash |-> HashOf(next), at |-> next]
    <2>1. \A m : m = n + 1 => m \in Nat \ {0} /\ m - 1 = n /\ m - 1 \in 0 .. Len(log)
        BY <1>1
    <2>2. PICK m : m = n + 1
        OBVIOUS
    <2>3. RightAt(st, m - 1) /\ m \in Nat \ {0} /\ m - 1 = n /\ m - 1 \in 0 .. Len(log)
        BY <2>1, <2>2
    <2>4. LET new == Changed(AtVersion(m - 1), "set", i, m)
          IN  Mixed(st, "set", i, m) = [version |-> m, hash |-> HashOf(new), at |-> new]
        BY <2>3, MixedIs
    <2> QED BY <2>2, <2>3, <2>4
<1>4. [next EXCEPT ![i] = n + 1] = next
    BY DEF Changed
<1> HIDE DEF next
<1>5. EncodedState(st, "set", i) = [[version |-> n + 1, hash |-> HashOf(next), at |-> next] EXCEPT !.at[i] = n + 1]
    BY <1>2, <1>3 DEF EncodedState
<1> QED BY <1>4, <1>5 DEF next

\* Encode keeps the invariant.
LEMMA EncodeKeeps ==
    ASSUME AppInv, OwnChanges \subseteq {"set"}, NEW s \in Syncs, Encode(s)
    PROVE  AppInv'
<1>1. PICK c \in Changes, initial \in {IF stored = Nothing THEN NewState ELSE stored} :
          /\ initial = (IF stored = Nothing THEN NewState ELSE stored) /\ initial.version < MaxVersion
          /\ sync' = [sync EXCEPT ![s].pc = "sent",
                ![s].own = [op |-> c.op, index |-> c.index, state |-> EncodedState(initial, c.op, c.index)]]
    BY DEF Encode
<1> DEFINE own == [op |-> c.op, index |-> c.index, state |-> EncodedState(initial, c.op, c.index)]
           new == [sync[s] EXCEPT !.pc = "sent", !.own = own]
<1>2. sync' = [sync EXCEPT ![s] = new] /\ UNCHANGED <<log, stored, view, overlapped, undone>>
    BY <1>1 DEF Encode
<1>3. c.op = "set" /\ c.index \in Indices
    BY DEF Changes
<1>4. \E n \in 0 .. Len(log) : RightAt(initial, n) /\ n < MaxVersion
    <2>1. CASE stored = Nothing
        <3>1. RightAt(initial, 0) /\ 0 \in 0 .. Len(log)
            BY <1>1, <2>1, NewStateRight DEF AppInv
        <3>2. initial.version = 0
            BY <3>1 DEF RightAt
        <3> QED BY <1>1, <3>1, <3>2
    <2>2. CASE stored # Nothing
        <3>1. RightAt(initial, initial.version) /\ initial.version \in 0 .. Len(log)
            BY <1>1, <2>2, StoredVersion
        <3> QED BY <1>1, <3>1
    <2> QED BY <2>1, <2>2
<1>5. own.op = "set" /\ own.index \in Indices /\ own.state = EncodedState(initial, "set", own.index)
    BY <1>3
<1> HIDE DEF own
<1>6. OwnRight(own)
    BY <1>4, <1>5 DEF OwnRight
<1>7. IsSync(sync[s]) /\ SyncRight(sync[s])
    BY DEF AppInv
<1>8. IsSync(new) /\ SyncRight(new)
    BY <1>6, <1>7 DEF IsSync, SyncRight
<1> HIDE DEF new
<1> QED BY <1>2, <1>8, AloneKeeps DEF AppInv

\* A patch with the right hash.
LEMMA EntryKeeps ==
    ASSUME AppInv, NEW x \in Entries, NEW N, N = Len(log), N < MaxVersion, log' = Append(log, x),
           x.hash = HashOf(Changed(AtVersion(N), x.op, x.index, N + 1))
    PROVE  /\ LogRight' /\ PatchesVerify' /\ N \in Nat /\ Len(log') = N + 1
           /\ AtVersion(N + 1)' = Changed(AtVersion(N), x.op, x.index, N + 1)
           /\ \A st : StateRight(st) => StateRight(st)'
           /\ \A r : SyncRight(r) => SyncRight(r)'
<1>1. /\ LogRight' /\ Len(log') = N + 1 /\ N \in Nat /\ log'[N + 1] = x
      /\ \A l \in 1 .. N : log'[l] = log[l]
      /\ \A n \in 0 .. N : \A i : SetAt(n, i)' = SetAt(n, i)
      /\ AtVersion(N + 1)' = Changed(AtVersion(N), x.op, x.index, N + 1)
    BY LogGrows DEF AppInv
<1>2. ASSUME NEW n \in 1 .. N + 1 PROVE log'[n].hash = TrueHash(n)'
    <2>1. TrueHash(n)' = HashOf(AtVersion(n)')
        BY DEF TrueHash, AtVersion, HashOf
    <2>2. CASE n = N + 1
        BY <1>1, <2>1, <2>2
    <2>3. CASE n # N + 1
        <3>1. n \in 1 .. N /\ n \in 0 .. N
            BY <1>1, <2>3
        <3>2. AtVersion(n)' = AtVersion(n)
            BY <1>1, <3>1 DEF AtVersion
        <3>3. log[n].hash = TrueHash(n)
            BY <3>1 DEF AppInv, PatchesVerify
        <3>4. TrueHash(n) = HashOf(AtVersion(n))
            BY DEF TrueHash, AtVersion
        <3> QED BY <1>1, <2>1, <3>1, <3>2, <3>3, <3>4
    <2> QED BY <2>2, <2>3
<1>3. PatchesVerify'
    BY <1>1, <1>2 DEF PatchesVerify
<1>4. (\A st : StateRight(st) => StateRight(st)') /\ \A r : SyncRight(r) => SyncRight(r)'
    BY StaysRight DEF AppInv
<1> QED BY <1>1, <1>3, <1>4

\* OtherDevice keeps the invariant.
LEMMA OtherKeeps ==
    ASSUME AppInv, NEW op \in {"set", "remove"}, NEW i \in Indices, OtherDevice(op, i)
    PROVE  AppInv'
<1>1. PICK N : N = Len(log)
    OBVIOUS
<1> DEFINE at == [j \in Indices |-> IF j # i THEN SetAt(N, j) ELSE IF op = "set" THEN N + 1 ELSE Nothing]
           x == [op |-> op, index |-> i, hash |-> HashOf(at)]
<1>2. N \in Nat /\ N + 1 - 1 = N
    BY <1>1, AppStateAssumption DEF AppInv, LogRight
<1>3. N < MaxVersion /\ log' = Append(log, x) /\ UNCHANGED <<stored, sync, view, overlapped, undone>>
    BY <1>1, <1>2 DEF OtherDevice
<1>4. at = Changed(AtVersion(N), op, i, N + 1)
    BY DEF Changed, AtVersion
<1> HIDE DEF at
<1>5. x \in Entries /\ x.op = op /\ x.index = i /\ x.hash = HashOf(at)
    BY HashType DEF Entries
<1> HIDE DEF x
<1>6. LogRight' /\ PatchesVerify' /\ (\A st : StateRight(st) => StateRight(st)') /\ \A r : SyncRight(r) => SyncRight(r)'
    <2>1. x.hash = HashOf(Changed(AtVersion(N), x.op, x.index, N + 1))
        BY <1>4, <1>5
    <2> QED BY <1>1, <1>3, <1>5, <2>1, EntryKeeps
<1>7. \A st : st = stored' => StateRight(st)'
    BY <1>3, <1>6 DEF AppInv
<1>8. \A t \in Syncs : \A r : r = sync'[t] => IsSync(r) /\ SyncRight(r)'
    BY <1>3, <1>6 DEF AppInv
<1> QED BY <1>3, <1>6, <1>7, <1>8 DEF AppInv

\* ServerTakesPatch keeps the invariant: a patch that follows the newest one was built on it.
LEMMA TakesKeeps == ASSUME AppInv, NEW s \in Syncs, ServerTakesPatch(s) PROVE AppInv'
<1>1. PICK N, own : N = Len(log) /\ own = sync[s].own
    OBVIOUS
<1>a. PICK new : new = [sync[s] EXCEPT !.pc = "taken"]
    OBVIOUS
<1> DEFINE x == [op |-> own.op, index |-> own.index, hash |-> own.state.hash]
<1>2. IsSync(sync[s]) /\ SyncRight(sync[s]) /\ sync[s].pc = "sent"
    BY DEF AppInv, ServerTakesPatch
<1>3. own.state.version = N + 1 /\ log' = Append(log, x) /\ sync' = [sync EXCEPT ![s] = new]
      /\ UNCHANGED <<stored, view, overlapped, undone>>
    BY <1>1, <1>a DEF ServerTakesPatch
<1>4. own.op = "set" /\ own.index \in Indices /\ OwnRight(own)
    BY <1>1, <1>2 DEF SyncRight, OwnRight
<1>5. PICK n \in 0 .. Len(log) : \E st : RightAt(st, n) /\ n < MaxVersion /\ own.state = EncodedState(st, "set", own.index)
    BY <1>4 DEF OwnRight
<1>6. PICK st : RightAt(st, n) /\ n < MaxVersion /\ own.state = EncodedState(st, "set", own.index)
    BY <1>5
<1> DEFINE next == Changed(AtVersion(n), "set", own.index, n + 1)
<1>7. own.state = [version |-> n + 1, hash |-> HashOf(next), at |-> next]
    BY <1>4, <1>6, EncodedIs DEF AppInv
<1>8. n = N /\ N \in Nat
    <2>1. N \in Nat /\ n \in Nat
        BY <1>1, AppStateAssumption DEF AppInv, LogRight
    <2>2. n + 1 = N + 1
        BY <1>3, <1>7
    <2> QED BY <2>1, <2>2
<1>9. next = Changed(AtVersion(N), "set", own.index, N + 1)
    BY <1>8
<1> HIDE DEF next
<1>10. x \in Entries /\ x.op = "set" /\ x.index = own.index /\ x.hash = HashOf(next)
    BY <1>4, <1>7, HashType DEF Entries
<1> HIDE DEF x
<1>11. x.hash = HashOf(Changed(AtVersion(N), x.op, x.index, N + 1))
    BY <1>9, <1>10
<1>12. /\ LogRight' /\ PatchesVerify' /\ Len(log') = N + 1
       /\ AtVersion(N + 1)' = Changed(AtVersion(N), x.op, x.index, N + 1)
       /\ (\A y : StateRight(y) => StateRight(y)') /\ \A r : SyncRight(r) => SyncRight(r)'
    BY <1>1, <1>3, <1>6, <1>8, <1>10, <1>11, EntryKeeps
<1>13. log'[N + 1] = x
    BY <1>1, <1>3, <1>8, <1>10, AppendProperties DEF AppInv, LogRight
<1>14. TakenRight(own)'
    <2>1. AtVersion(N + 1)' = next
        BY <1>9, <1>10, <1>12
    <2>2. TrueHash(N + 1)' = HashOf(AtVersion(N + 1)')
        BY DEF TrueHash, AtVersion, HashOf
    <2>3. RightAt(own.state, N + 1)'
        BY <1>7, <1>8, <2>1, <2>2 DEF RightAt
    <2>4. own.state.version = N + 1 /\ N + 1 \in 1 .. Len(log')
        BY <1>3, <1>8, <1>12
    <2>5. log'[N + 1].index = own.index
        BY <1>10, <1>13
    <2> QED BY <2>3, <2>4, <2>5 DEF TakenRight
<1>15. IsSync(new) /\ new.pc = "taken" /\ new.own = own /\ new.first = sync[s].first
    BY <1>1, <1>2, <1>a DEF IsSync
<1>16. SyncRight(new)'
    <2>1. StateRight(new.first)' /\ OwnRight(own)'
        <3>1. StateRight(sync[s].first)
            BY <1>2 DEF SyncRight
        <3>2. ASSUME NEW z, z = sync[s].first PROVE StateRight(z)'
            BY <1>12, <3>1, <3>2
        <3>3. OwnRight(own)'
            <4>1. \A o : OwnRight(o) => OwnRight(o)'
                BY <1>1, <1>3, <1>6, <1>8, <1>10, StaysRight DEF AppInv
            <4> QED BY <1>4, <4>1
        <3> QED BY <1>15, <3>2, <3>3
    <2> QED BY <1>14, <1>15, <2>1 DEF SyncRight
<1>17. (DOMAIN sync = Syncs /\ \A t \in Syncs : \A r : r = sync[t] => IsSync(r) /\ SyncRight(r))'
    BY <1>3, <1>12, <1>15, <1>16, AllRight
<1>18. \A z : z = stored' => StateRight(z)'
    BY <1>3, <1>12 DEF AppInv
<1> QED BY <1>3, <1>12, <1>17, <1>18 DEF AppInv

\* PatchAnswered keeps the invariant.
LEMMA AnsweredKeeps == ASSUME AppInv, NEW s \in Syncs, PatchAnswered(s) PROVE AppInv'
<1>1. PICK own : own = sync[s].own
    OBVIOUS
<1>2. SyncRight(sync[s]) /\ sync[s].pc = "taken"
    BY DEF AppInv, PatchAnswered
<1>3. TakenRight(own) /\ own.index \in Indices
    BY <1>1, <1>2 DEF SyncRight, OwnRight
<1>4. PICK n \in 1 .. Len(log) : n = own.state.version /\ RightAt(own.state, n)
    BY <1>3 DEF TakenRight
<1>5. n \in Nat /\ n \in 0 .. Len(log)
    BY AppStateAssumption DEF AppInv, LogRight
<1>6. stored' = own.state /\ view' = [view EXCEPT ![own.index] = n] /\ sync' = [sync EXCEPT ![s] = Ended]
      /\ UNCHANGED <<log, overlapped, undone>>
    BY <1>1, <1>4 DEF PatchAnswered
<1>7. StateRight(own.state)
    BY <1>4, <1>5 DEF StateRight
<1>8. view' \in [Indices -> Nat]
    BY <1>5, <1>6 DEF AppInv
<1>9. PICK st, new : st = own.state /\ new = Ended
    OBVIOUS
<1> QED BY <1>6, <1>7, <1>8, <1>9, EndedIs, StoresKeeps DEF AppInv

\* Throws keeps the invariant: it takes back a state that was right.
LEMMA ThrowsKeeps == ASSUME AppInv, NEW s \in Syncs, Throws(s) PROVE AppInv'
<1>1. SyncRight(sync[s]) /\ IsSync(sync[s])
    BY DEF AppInv
<1>2. PICK st, new : st = stored' /\ new = Ended
    OBVIOUS
<1>3. st \in {stored, sync[s].first}
    BY <1>2 DEF Throws
<1>4. StateRight(st)
    BY <1>1, <1>3 DEF SyncRight, AppInv
<1>5. sync' = [sync EXCEPT ![s] = new] /\ UNCHANGED <<log, view, overlapped>> /\ undone' \in BOOLEAN
    BY <1>1, <1>2 DEF Throws, AppInv, IsSync
<1> QED BY <1>2, <1>4, <1>5, EndedIs, StoresKeeps DEF AppInv

\* Every step keeps the invariant.
LEMMA NextKeeps == ASSUME AppInv, OwnChanges \subseteq {"set"}, AppNext PROVE AppInv'
<1>1. ASSUME NEW op \in {"set", "remove"}, NEW i \in Indices, OtherDevice(op, i) PROVE AppInv'
    BY <1>1, OtherKeeps
<1>2. ASSUME NEW s \in Syncs, BeginSync(s) \/ CallPatch(s) \/ ServerTakesPatch(s) \/ Continue(s) PROVE AppInv'
    BY <1>2, AsksKeeps, QueueKeeps, AnswerKeeps, ApplyKeeps, TellKeeps, EncodeKeeps, TakesKeeps, AnsweredKeeps,
       ThrowsKeeps DEF Continue
<1> QED BY <1>1, <1>2 DEF AppNext

\* So does a step that changes nothing.
LEMMA StutterKeeps == ASSUME AppInv, UNCHANGED appVars PROVE AppInv'
<1>1. UNCHANGED <<log, stored, sync, view, overlapped, undone>>
    BY DEF appVars
<1>2. LogRight' /\ (\A r : SyncRight(r) => SyncRight(r)') /\ \A x : StateRight(x) => StateRight(x)'
    BY <1>1, StaysRight DEF AppInv
<1>3. PatchesVerify'
    <2>1. \A n : TrueHash(n)' = TrueHash(n)
        <3>1. \A n, i : SetAt(n, i)' = SetAt(n, i)
            BY <1>1 DEF SetAt
        <3> QED BY <3>1 DEF TrueHash, HashOf
    <2> QED BY <1>1, <2>1 DEF AppInv, PatchesVerify
<1>4. \A x : x = stored' => StateRight(x)'
    BY <1>1, <1>2 DEF AppInv
<1>5. \A t \in Syncs : \A r : r = sync'[t] => IsSync(r) /\ SyncRight(r)'
    BY <1>1, <1>2 DEF AppInv
<1> QED BY <1>1, <1>2, <1>3, <1>4, <1>5 DEF AppInv

\* Every patch of the log carries the hash of the values that are set at its
\* version, as long as applications set indices and do not remove them (the
\* removal is the known defect: see the run removed).
THEOREM HashesAreRight == ASSUME OwnChanges \subseteq {"set"} PROVE AppSpec => []PatchesVerify
<1>1. AppInit => AppInv
    BY StartRight
<1>2. AppInv /\ [AppNext]_appVars => AppInv'
    BY NextKeeps, StutterKeeps
<1>3. AppInv => PatchesVerify
    BY DEF AppInv
<1> QED BY <1>1, <1>2, <1>3, PTL DEF AppSpec

-----------------------------------------------------------------------------
(* What the application has seen: the invariant of ViewFollows.            *)

Covers(i, n, x) == SetAt(n, i) # Nothing => x >= SetAt(n, i)
StCovers(st, w) == st # Nothing => \A i \in Indices : Covers(i, st.version, w[i])
Seen(got, w) == [i \in Indices |-> IF got[i] > 0 THEN got[i] ELSE w[i]]

Reached(i, x, min, st, bound) ==
    \E h \in Nat : h >= min /\ (st # Nothing => h >= st.version) /\ h <= bound /\ Covers(i, h, x)
Bound(r) == IF r.pc = "answered" /\ ~r.reply.more THEN r.reply.upto ELSE Len(log)
ToldUpTo(r, n) == r.min >= n /\ \A i \in Indices : r.got[i] = 0 \/ Covers(i, n, r.got[i])

Syncing == {"asked", "answered", "again", "tell"}
Patching == {"encode", "sent", "taken"}

RunFollows(r, st, w) ==
    /\ r.pc \in {"asked", "answered"} => r.from = (IF st = Nothing THEN NewState ELSE st)
    /\ r.pc \in {"asked", "answered", "again"} =>
          \A i \in Indices : Reached(i, Seen(r.got, w)[i], r.min, st, Bound(r))
    /\ r.pc = "tell" => StCovers(st, Seen(r.got, w))
    /\ r.pc \in Patching => StCovers(st, w)
    /\ r.pc \in {"sent", "taken"} => r.own.state.version = (IF st = Nothing THEN 0 ELSE st.version) + 1
    /\ r.pc \in Syncing => StCovers(r.first, w)
    /\ (r.pc \in Syncing /\ ~r.older /\ r.first # Nothing) => ToldUpTo(r, r.first.version)
    /\ (r.pc \in Patching /\ ~r.older) => StCovers(r.first, w)

IsRunning(r) == r.pc \notin {"new", "queued", "done"}

Following ==
    /\ \A s, t \in Syncs : IsRunning(sync[s]) /\ IsRunning(sync[t]) => s = t
    /\ (\A s \in Syncs : ~IsRunning(sync[s])) => \A st, w : st = stored /\ w = view => StCovers(st, w)
    /\ \A s \in Syncs : \A r, st, w : r = sync[s] /\ st = stored /\ w = view /\ IsRunning(r) => RunFollows(r, st, w)
FollowInv == AppInv /\ (~overlapped /\ ~undone => Following)

\* No call runs but this one.
Only(s) == \A t \in Syncs : IsRunning(sync[t]) => t = s

Sized(r, st) == StateRight(st) /\ StateRight(r.first) /\ (r.pc = "answered" => r.reply.upto \in 0 .. Len(log))
LogStep == UNCHANGED log \/ \E x \in Entries : Len(log) < MaxVersion /\ log' = Append(log, x)

\* A right state has a version of the log.
LEMMA VersionOf ==
    ASSUME LogRight, NEW st, StateRight(st), st # Nothing
    PROVE  st.version \in 0 .. Len(log) /\ st.version \in Nat
<1>1. PICK n \in 0 .. Len(log) : RightAt(st, n)
    BY DEF StateRight
<1>2. st.version = n
    BY <1>1 DEF RightAt
<1> QED BY <1>1, <1>2, VersionFields

\* What covers a version goes on covering it as the log grows.
LEMMA CoversStays ==
    ASSUME LogRight, LogStep
    PROVE  /\ \A n \in 0 .. Len(log) : \A i, x : Covers(i, n, x) => Covers(i, n, x)'
           /\ \A st, w : StateRight(st) /\ StCovers(st, w) => StCovers(st, w)'
<1>1. \A n \in 0 .. Len(log) : \A i : SetAt(n, i)' = SetAt(n, i)
    <2>1. CASE UNCHANGED log
        BY <2>1 DEF SetAt
    <2>2. CASE \E x \in Entries : Len(log) < MaxVersion /\ log' = Append(log, x)
        <3>1. PICK x \in Entries, N \in {Len(log)} : N = Len(log) /\ N < MaxVersion /\ log' = Append(log, x)
            BY <2>2
        <3>2. \A n \in 0 .. N : \A i : SetAt(n, i)' = SetAt(n, i)
            BY <3>1, LogGrows
        <3> QED BY <3>1, <3>2
    <2> QED BY <2>1, <2>2 DEF LogStep
<1>2. \A n \in 0 .. Len(log) : \A i, x : Covers(i, n, x) => Covers(i, n, x)'
    BY <1>1 DEF Covers
<1>3. ASSUME NEW st, NEW w, StateRight(st), StCovers(st, w) PROVE StCovers(st, w)'
    <2>1. st # Nothing => st.version \in 0 .. Len(log)
        BY <1>3, VersionOf
    <2> QED BY <1>2, <1>3, <2>1 DEF StCovers
<1> QED BY <1>2, <1>3

\* The log does not get shorter.
LEMMA LenGrows ==
    ASSUME LogRight, LogStep
    PROVE  Len(log) \in Nat /\ Len(log') \in Nat /\ Len(log) <= Len(log')
<1>1. Len(log) \in Nat
    BY AppStateAssumption DEF LogRight
<1>2. ASSUME NEW x \in Entries, log' = Append(log, x) PROVE Len(log') = Len(log) + 1
    BY <1>2, AppendProperties DEF LogRight
<1> QED BY <1>1, <1>2 DEF LogStep

\* A call goes on following as the log grows.
LEMMA FollowsStays ==
    ASSUME LogRight, LogStep, NEW r, NEW st, NEW w, Sized(r, st), IsSync(r), RunFollows(r, st, w)
    PROVE  RunFollows(r, st, w)'
<1>1. Len(log) \in Nat /\ Len(log') \in Nat /\ Len(log) <= Len(log')
    BY LenGrows
<1>2. ASSUME NEW i \in Indices, NEW x, Reached(i, x, r.min, st, Bound(r)) PROVE Reached(i, x, r.min, st, Bound(r))'
    <2>1. PICK h \in Nat : h >= r.min /\ (st # Nothing => h >= st.version) /\ h <= Bound(r) /\ Covers(i, h, x)
        BY <1>2 DEF Reached
    <2>2. h \in 0 .. Len(log) /\ h <= Bound(r)'
        BY <1>1, <2>1 DEF Bound, Sized
    <2>3. Covers(i, h, x)'
        BY <2>1, <2>2, CoversStays
    <2> QED BY <2>1, <2>2, <2>3 DEF Reached
<1>3. (\A x : StCovers(st, x) => StCovers(st, x)') /\ \A x : StCovers(r.first, x) => StCovers(r.first, x)'
    BY CoversStays DEF Sized
<1>4. r.first # Nothing /\ ToldUpTo(r, r.first.version) => ToldUpTo(r, r.first.version)'
    <2>1. SUFFICES ASSUME r.first # Nothing, ToldUpTo(r, r.first.version) PROVE ToldUpTo(r, r.first.version)'
        OBVIOUS
    <2>2. PICK n \in 0 .. Len(log) : n = r.first.version
        BY <2>1, VersionOf DEF Sized
    <2>3. \A i, x : Covers(i, n, x) => Covers(i, n, x)'
        BY CoversStays
    <2> QED BY <2>1, <2>2, <2>3 DEF ToldUpTo
<1>5. r.pc \in {"asked", "answered", "again"} =>
          \A i \in Indices : Reached(i, Seen(r.got, w)[i], r.min, st, Bound(r))'
    BY <1>2 DEF RunFollows
<1>6. r.pc = "tell" => StCovers(st, Seen(r.got, w))'
    BY <1>3 DEF RunFollows
<1> QED BY <1>3, <1>4, <1>5, <1>6 DEF RunFollows

\* A step of the only call that runs, which goes on, or begins.
LEMMA GoesOn ==
    ASSUME AppInv, Following, LogStep, NEW s \in Syncs, NEW new, sync' = [sync EXCEPT ![s] = new],
           IsRunning(new), IsSync(new), NEW st, st = stored', NEW w, w = view', Sized(new, st), RunFollows(new, st, w),
           Only(s)
    PROVE  Following'
<1>1. sync'[s] = new /\ \A t \in Syncs : t # s => sync'[t] = sync[t]
    BY OneSync
<1>2. \A t \in Syncs : IsRunning(sync'[t]) => t = s
    BY <1>1 DEF Only
<1>3. RunFollows(new, st, w)'
    BY FollowsStays DEF AppInv
<1>4. ASSUME NEW t \in Syncs, NEW r, NEW x, NEW y, r = sync'[t], x = stored', y = view', IsRunning(r)
      PROVE  RunFollows(r, x, y)'
    BY <1>1, <1>2, <1>3, <1>4
<1>5. IsRunning(sync'[s])
    BY <1>1
<1> QED BY <1>2, <1>4, <1>5 DEF Following

\* Its last step.
LEMMA Stops ==
    ASSUME AppInv, Following, LogStep, NEW s \in Syncs, NEW new, sync' = [sync EXCEPT ![s] = new],
           ~IsRunning(new), NEW st, st = stored', NEW w, w = view', StateRight(st), StCovers(st, w),
           Only(s)
    PROVE  Following'
<1>1. sync'[s] = new /\ \A t \in Syncs : t # s => sync'[t] = sync[t]
    BY OneSync
<1>2. \A t \in Syncs : ~IsRunning(sync'[t])
    BY <1>1 DEF Only
<1>3. StCovers(st, w)'
    BY CoversStays DEF AppInv
<1> QED BY <1>2, <1>3 DEF Following

\* What a call remembers is within the log.
LEMMA SizedIs == ASSUME AppInv, NEW r, SyncRight(r), NEW st, StateRight(st) PROVE Sized(r, st)
<1>1. ASSUME r.pc = "answered" PROVE r.reply.upto \in 0 .. Len(log)
    <2>1. PICK v \in 0 .. Len(log) : RightAt(r.from, v)
        BY <1>1 DEF SyncRight
    <2>2. v \in Nat /\ r.from.version = v /\ Len(log) \in Nat
        BY <2>1, AppStateAssumption DEF RightAt, AppInv, LogRight
    <2>3. r.reply.upto \in r.from.version .. Len(log)
        BY <1>1 DEF SyncRight
    <2> QED BY <2>2, <2>3
<1> QED BY <1>1 DEF Sized, SyncRight

\* The version a call began with is one of the log.
LEMMA FirstVersion ==
    ASSUME AppInv, NEW r, SyncRight(r), r.first # Nothing
    PROVE  r.first.version \in 0 .. Len(log) /\ r.first.version \in Nat
<1>1. StateRight(r.first)
    BY DEF SyncRight
<1> QED BY <1>1, VersionOf DEF AppInv

\* The same of the stored state.
LEMMA StateIs ==
    ASSUME AppInv, NEW st, st = stored
    PROVE  StateRight(st) /\ (st # Nothing => st.version \in 0 .. Len(log) /\ st.version \in Nat)
BY VersionOf DEF AppInv

\* Before anything was got the application sees what it saw.
LEMMA SeenNothing == ASSUME NEW w \in [Indices -> Nat] PROVE Seen([i \in Indices |-> 0], w) = w
BY DEF Seen

\* What the only call that runs is known to satisfy.
LEMMA RunsAlone ==
    ASSUME AppInv, Following, NEW s \in Syncs, NEW old, old = sync[s], IsRunning(old), NEW st, st = stored, NEW w, w = view
    PROVE  /\ RunFollows(old, st, w) /\ IsSync(old) /\ SyncRight(old) /\ Only(s)
           /\ StateRight(st) /\ w \in [Indices -> Nat] /\ Len(log) \in Nat
<1>1. IsSync(old) /\ SyncRight(old) /\ StateRight(st) /\ w \in [Indices -> Nat] /\ Len(log) \in Nat
    BY AppStateAssumption DEF AppInv, LogRight
<1>2. RunFollows(old, st, w) /\ Only(s)
    BY DEF Following, Only
<1> QED BY <1>1, <1>2

\* BeginSync and BeginPatch, when nothing else runs.
LEMMA BeginFollows ==
    ASSUME AppInv, Following, NEW s \in Syncs, BeginSync(s) \/ BeginPatch(s), ~overlapped'
    PROVE  Following'
<1>1. PICK old, st, w, new : old = sync[s] /\ st = stored /\ w = view /\ new = Asking([old EXCEPT !.first = st])
    OBVIOUS
<1>2. /\ sync' = [sync EXCEPT ![s] = new] /\ UNCHANGED <<log, stored, view>> /\ old.pc \in {"new", "queued"}
      /\ \A t \in Syncs : ~IsRunning(sync[t])
    BY <1>1 DEF BeginSync, BeginPatch, Overlaps, Running, IsRunning
<1>3. IsSync(old) /\ SyncRight(old) /\ w \in [Indices -> Nat] /\ Len(log) \in Nat
    BY <1>1, AppStateAssumption DEF AppInv, LogRight
<1>4. StateRight(st) /\ (st # Nothing => st.version \in 0 .. Len(log) /\ st.version \in Nat)
    BY <1>1, StateIs
<1>5. Asks(old, st, new)
    BY <1>1, <1>3, AskingIs
<1>6. StCovers(st, w)
    BY <1>1, <1>2 DEF Following
<1>7. SyncRight(new)
    BY <1>3, <1>4, <1>5, AsksRight
<1>8. IsSync(new) /\ new.pc = "asked" /\ new.first = st /\ new.from = (IF st = Nothing THEN NewState ELSE st)
      /\ new.min = (IF st # Nothing THEN st.version ELSE -1) /\ new.got = [i \in Indices |-> 0]
    BY <1>1, <1>2, <1>3, <1>5 DEF Asks, IsSync
<1>9. RunFollows(new, st, w)
    <2>1. Seen(new.got, w) = w
        BY <1>3, <1>8, SeenNothing
    <2>2. ASSUME NEW i \in Indices PROVE Reached(i, w[i], new.min, st, Bound(new))
        <3>1. Bound(new) = Len(log)
            BY <1>8 DEF Bound
        <3>2. CASE st = Nothing
            <4>1. Covers(i, 0, w[i])
                BY SetAtNone DEF Covers
            <4> QED BY <1>3, <1>8, <3>1, <3>2, <4>1 DEF Reached
        <3>3. CASE st # Nothing
            <4>1. Covers(i, st.version, w[i])
                BY <1>6, <3>3 DEF StCovers
            <4> QED BY <1>3, <1>4, <1>8, <3>1, <3>3, <4>1 DEF Reached
        <3> QED BY <3>2, <3>3
    <2>3. new.first # Nothing => ToldUpTo(new, new.first.version)
        BY <1>4, <1>8 DEF ToldUpTo
    <2> QED BY <1>6, <1>8, <2>1, <2>2, <2>3 DEF RunFollows, Patching
<1>10. Sized(new, st) /\ Only(s) /\ IsRunning(new) /\ LogStep
    BY <1>2, <1>4, <1>7, <1>8, SizedIs DEF Only, IsRunning, LogStep
<1>11. st = stored' /\ w = view'
    BY <1>1, <1>2
<1> QED BY <1>2, <1>8, <1>9, <1>10, <1>11, GoesOn

\* CallPatch only waits.
LEMMA QueuedFollows == ASSUME AppInv, Following, NEW s \in Syncs, CallPatch(s) PROVE Following'
<1>1. PICK new : new = [sync[s] EXCEPT !.pc = "queued", !.patch = TRUE]
    OBVIOUS
<1>2. sync' = [sync EXCEPT ![s] = new] /\ UNCHANGED <<log, stored, view>> /\ sync[s].pc = "new"
    BY <1>1 DEF CallPatch
<1>3. new.pc = "queued" /\ ~IsRunning(new) /\ ~IsRunning(sync[s])
    BY <1>1, <1>2 DEF IsRunning, AppInv, IsSync
<1>4. sync'[s] = new /\ \A t \in Syncs : t # s => sync'[t] = sync[t]
    BY <1>2, OneSync
<1>5. \A t \in Syncs : IsRunning(sync'[t]) => t # s /\ IsRunning(sync[t]) /\ sync'[t] = sync[t]
    BY <1>3, <1>4
<1>6. \A a, b \in Syncs : IsRunning(sync'[a]) /\ IsRunning(sync'[b]) => a = b
    BY <1>5 DEF Following
<1>7. (\A t \in Syncs : ~IsRunning(sync'[t])) => \A t \in Syncs : ~IsRunning(sync[t])
    BY <1>3, <1>4
<1>8. LogStep
    BY <1>2 DEF LogStep
<1>9. ASSUME NEW st, NEW w, st = stored, w = view, StCovers(st, w) PROVE StCovers(st, w)'
    BY <1>8, <1>9, CoversStays, StateIs DEF AppInv
<1>10. ASSUME NEW t \in Syncs, NEW r, NEW st, NEW w, r = sync'[t], st = stored, w = view, IsRunning(r) PROVE RunFollows(r, st, w)'
    <2>1. r = sync[t]
        BY <1>5, <1>10
    <2>2. RunFollows(r, st, w) /\ IsSync(r) /\ SyncRight(r) /\ StateRight(st)
        BY <1>10, <2>1, RunsAlone
    <2> QED BY <1>8, <2>2, FollowsStays, SizedIs DEF AppInv
<1>11. (\A t \in Syncs : ~IsRunning(sync'[t])) => \A st, w : st = stored' /\ w = view' => StCovers(st, w)'
    BY <1>2, <1>7, <1>9 DEF Following
<1>12. \A t \in Syncs : \A r, st, w : r = sync'[t] /\ st = stored' /\ w = view' /\ IsRunning(r) => RunFollows(r, st, w)'
    BY <1>2, <1>10
<1> QED BY <1>6, <1>11, <1>12 DEF Following

\* ServerAnswers: the last part of an answer ends with the log.
LEMMA AnswerFollows == ASSUME AppInv, Following, NEW s \in Syncs, ServerAnswers(s) PROVE Following'
<1>1. PICK old, st, w : old = sync[s] /\ st = stored /\ w = view
    OBVIOUS
<1>2. old.pc = "asked" /\ UNCHANGED <<log, stored, view>> /\ IsRunning(old)
    BY <1>1 DEF ServerAnswers, IsRunning
<1>3. RunFollows(old, st, w) /\ IsSync(old) /\ SyncRight(old) /\ Only(s) /\ StateRight(st) /\ Len(log) \in Nat
    BY <1>1, <1>2, RunsAlone
<1>4. PICK n \in 0 .. Len(log) : RightAt(old.from, n)
    BY <1>2, <1>3 DEF SyncRight
<1>5. old.from.version = n /\ n \in Nat
    BY <1>3, <1>4 DEF RightAt
<1>6. \E snap \in IF n = 0 /\ log # <<>> THEN 1..Len(log) ELSE {0}, upto \in n..Len(log) :
          /\ snap <= upto /\ (n < upto \/ upto = Len(log))
          /\ sync' = [sync EXCEPT ![s].pc = "answered",
                                  ![s].reply = [snap |-> snap, upto |-> upto, more |-> upto < Len(log)]]
    BY <1>1, <1>5 DEF ServerAnswers
<1>a. PICK snap \in IF n = 0 /\ log # <<>> THEN 1..Len(log) ELSE {0}, upto \in n..Len(log) :
          sync' = [sync EXCEPT ![s].pc = "answered",
                               ![s].reply = [snap |-> snap, upto |-> upto, more |-> upto < Len(log)]]
    BY <1>6
<1>b. PICK reply : reply = [snap |-> snap, upto |-> upto, more |-> upto < Len(log)]
    OBVIOUS
<1>7. /\ reply.upto = upto /\ (~reply.more => upto = Len(log))
      /\ sync' = [sync EXCEPT ![s].pc = "answered", ![s].reply = reply]
    <2>1. reply.upto = upto
        BY <1>b
    <2>2. reply.more <=> upto < Len(log)
        BY <1>b
    <2> QED BY <1>3, <1>5, <1>a, <1>b, <2>1, <2>2
<1>8. PICK new : new = [old EXCEPT !.pc = "answered", !.reply = reply]
    OBVIOUS
<1>9. sync' = [sync EXCEPT ![s] = new]
    BY <1>1, <1>7, <1>8
<1>10. /\ IsSync(new) /\ new.pc = "answered" /\ new.reply = reply /\ new.from = old.from /\ new.first = old.first
       /\ new.min = old.min /\ new.got = old.got /\ new.older = old.older /\ IsRunning(new)
    BY <1>2, <1>3, <1>8 DEF IsSync, IsRunning
<1>11. RunFollows(new, st, w)
    <2>1. Bound(new) = Len(log) /\ Bound(old) = Len(log)
        BY <1>2, <1>7, <1>10 DEF Bound
    <2>2. \A i \in Indices : Reached(i, Seen(new.got, w)[i], new.min, st, Bound(new))
        BY <1>2, <1>3, <1>10, <2>1 DEF RunFollows
    <2>3. StCovers(new.first, w) /\ (~new.older /\ new.first # Nothing => ToldUpTo(new, new.first.version))
        BY <1>2, <1>3, <1>10 DEF RunFollows, Syncing, ToldUpTo
    <2>4. new.from = (IF st = Nothing THEN NewState ELSE st)
        BY <1>2, <1>3, <1>10 DEF RunFollows
    <2> QED BY <1>10, <2>2, <2>3, <2>4 DEF RunFollows, Patching
<1>12. Sized(new, st)
    <2>1. StateRight(old.first)
        BY <1>3 DEF SyncRight
    <2>2. upto \in 0 .. Len(log)
        BY <1>3, <1>5
    <2> QED BY <1>3, <1>7, <1>10, <2>1, <2>2 DEF Sized
<1>13. st = stored' /\ w = view' /\ LogStep
    BY <1>1, <1>2 DEF LogStep
<1> QED BY <1>3, <1>9, <1>10, <1>11, <1>12, <1>13, GoesOn

\* AskAgain: the first read only counts when nothing was read before.
LEMMA AgainFollows == ASSUME AppInv, Following, NEW s \in Syncs, AskAgain(s) PROVE Following'
<1>1. PICK old, st, w, new : old = sync[s] /\ st = stored /\ w = view /\ new = Asking(old)
    OBVIOUS
<1>2. old.pc = "again" /\ UNCHANGED <<log, stored, view>> /\ IsRunning(old) /\ sync' = [sync EXCEPT ![s] = new]
    BY <1>1 DEF AskAgain, IsRunning
<1>3. RunFollows(old, st, w) /\ IsSync(old) /\ SyncRight(old) /\ Only(s) /\ StateRight(st) /\ Len(log) \in Nat
    BY <1>1, <1>2, RunsAlone
<1>4. Asks(old, old.first, new) /\ (st # Nothing => st.version \in 0 .. Len(log) /\ st.version \in Nat)
    BY <1>1, <1>3, AskingIs, StateIs
<1>5. SyncRight(new)
    BY <1>3, <1>4, AsksRight DEF SyncRight
<1>6. /\ IsSync(new) /\ new.pc = "asked" /\ new.from = (IF st = Nothing THEN NewState ELSE st) /\ new.first = old.first
      /\ new.min = (IF old.min = -1 /\ st # Nothing THEN st.version ELSE old.min) /\ new.got = old.got
      /\ new.older = old.older /\ IsRunning(new)
    BY <1>1, <1>4 DEF Asks, IsRunning
<1>7. RunFollows(new, st, w)
    <2>1. Bound(new) = Len(log) /\ Bound(old) = Len(log)
        BY <1>2, <1>6 DEF Bound
    <2>2. ASSUME NEW i \in Indices PROVE Reached(i, Seen(new.got, w)[i], new.min, st, Bound(new))
        <3>1. Reached(i, Seen(old.got, w)[i], old.min, st, Bound(old))
            BY <1>2, <1>3 DEF RunFollows
        <3>2. PICK h \in Nat : h >= old.min /\ (st # Nothing => h >= st.version) /\ h <= Bound(old)
                              /\ Covers(i, h, Seen(old.got, w)[i])
            BY <3>1 DEF Reached
        <3>3. h >= new.min
            BY <1>6, <3>2
        <3> QED BY <1>6, <2>1, <3>2, <3>3 DEF Reached
    <2>3. StCovers(new.first, w)
        BY <1>2, <1>3, <1>6 DEF RunFollows, Syncing
    <2>4. ASSUME ~new.older, new.first # Nothing PROVE ToldUpTo(new, new.first.version)
        <3>1. ToldUpTo(old, old.first.version)
            BY <1>2, <1>3, <1>6, <2>4 DEF RunFollows, Syncing
        <3>2. old.first.version \in Nat
            BY <1>3, <1>6, <2>4, FirstVersion
        <3>3. old.min # -1
            BY <3>1, <3>2 DEF ToldUpTo
        <3> QED BY <1>6, <3>1, <3>3 DEF ToldUpTo
    <2> QED BY <1>6, <2>2, <2>3, <2>4 DEF RunFollows, Patching
<1>8. Sized(new, st) /\ st = stored' /\ w = view' /\ LogStep
    BY <1>1, <1>2, <1>3, <1>5, SizedIs DEF LogStep
<1> QED BY <1>2, <1>3, <1>6, <1>7, <1>8, GoesOn

\* The numbers of an answer.
LEMMA AnswerIs ==
    ASSUME AppInv, NEW r, IsSync(r), SyncRight(r), r.pc = "answered"
    PROVE  /\ r.from.version \in Nat /\ r.reply.upto \in Nat /\ r.reply.snap \in Nat /\ r.reply.upto \in 0 .. Len(log)
           /\ r.from.version <= r.reply.upto /\ r.reply.snap <= r.reply.upto
           /\ r.reply.snap > 0 => r.from.version = 0
           /\ FirstPatch(r) = (IF r.reply.snap > 0 THEN r.reply.snap ELSE r.from.version) + 1
           /\ FirstPatch(r) \in Nat \ {0} /\ Len(log) \in Nat /\ LogRight
<1>1. PICK state : state \in Decodes(r)
    <2>1. Decodes(r) # {}
        BY DEF Decodes
    <2> QED BY <2>1
<1>2. Len(log) \in Nat /\ LogRight
    BY AppStateAssumption DEF AppInv, LogRight
<1> QED BY <1>1, <1>2, DecodesTo DEF FirstPatch

\* The three cases of what is told of an index.
NewestChanged(r, i, x) ==
    /\ x \in FirstPatch(r) .. r.reply.upto /\ log[x].index = i /\ x > r.min
    /\ \A l \in FirstPatch(r) .. r.reply.upto : log[l].index = i /\ l > r.min => l <= x
NoChange(r, i) == \A l \in FirstPatch(r) .. r.reply.upto : l > r.min => log[l].index # i

\* The three cases of what is told of an index.
LEMMA ToldIs ==
    ASSUME AppInv, NEW r, IsSync(r), SyncRight(r), r.pc = "answered", NEW i \in Indices, NEW x, x = Told(r)[i]
    PROVE  /\ x \in Nat
           /\ \/ NewestChanged(r, i, x)
              \/ /\ NoChange(r, i) /\ r.reply.snap > r.min /\ r.reply.snap > 0
                 /\ SetAt(r.reply.snap, i) # Nothing /\ x = SetAt(r.reply.snap, i)
              \/ /\ NoChange(r, i) /\ ~(r.reply.snap > r.min /\ r.reply.snap > 0 /\ SetAt(r.reply.snap, i) # Nothing)
                 /\ x = r.got[i]
<1>1. x \in Nat
    <2>1. Told(r) \in [Indices -> Nat]
        BY ToldType
    <2> QED BY <2>1
<1>a. (r.reply.snap > r.min) \in BOOLEAN
    OBVIOUS
<1>2. PICK told \in BOOLEAN : told = (r.reply.snap > r.min)
    BY <1>a, Zenon
<1>3. x = Newest(r, i, told)
    BY <1>2 DEF Told
<1>4. FirstPatch(r) \in Nat /\ r.reply.upto \in Nat
    BY AnswerIs
<1>5. LET changed == {k \in Patches(r) : log[k].index = i /\ k > r.min}
      IN  \/ /\ changed # {} /\ x \in changed /\ \A l \in changed : l <= x
          \/ /\ changed = {} /\ told /\ r.reply.snap > 0 /\ SetAt(r.reply.snap, i) # Nothing
             /\ x = SetAt(r.reply.snap, i)
          \/ /\ changed = {} /\ ~(told /\ r.reply.snap > 0 /\ SetAt(r.reply.snap, i) # Nothing)
             /\ x = r.got[i]
    BY <1>3, <1>4, NewestIs
<1> DEFINE changed == {k \in Patches(r) : log[k].index = i /\ k > r.min}
<1>6. changed = {} => NoChange(r, i)
    BY DEF NoChange, Patches
<1>7. x \in changed /\ (\A l \in changed : l <= x) => NewestChanged(r, i, x)
    BY DEF NewestChanged, Patches
<1> HIDE DEF changed
<1> QED BY <1>1, <1>2, <1>5, <1>6, <1>7 DEF changed

\* A version that the application has seen an index at, after one more answer.
LEMMA ReachStep ==
    ASSUME AppInv, NEW r, IsSync(r), SyncRight(r), r.pc = "answered", NEW i \in Indices, NEW w \in [Indices -> Nat],
           NEW h \in Nat, h >= r.min, h >= r.from.version, h <= Bound(r), Covers(i, h, Seen(r.got, w)[i]),
           NEW got, got = Told(r)
    PROVE  \E g \in Nat : /\ g >= r.reply.upto /\ g >= (IF Patches(r) # {} THEN r.reply.upto ELSE r.min)
                          /\ g <= (IF r.reply.more THEN Len(log) ELSE r.reply.upto) /\ Covers(i, g, Seen(got, w)[i])
<1> DEFINE upto == r.reply.upto
           snap == r.reply.snap
           min == IF Patches(r) # {} THEN upto ELSE r.min
           x == got[i]
<1>1. /\ r.from.version \in Nat /\ upto \in Nat /\ snap \in Nat /\ upto \in 0 .. Len(log)
      /\ r.from.version <= upto /\ snap <= upto /\ (snap > 0 => r.from.version = 0)
      /\ FirstPatch(r) = (IF snap > 0 THEN snap ELSE r.from.version) + 1
      /\ FirstPatch(r) \in Nat \ {0} /\ Len(log) \in Nat /\ LogRight
    BY AnswerIs
<1>2. /\ x \in Nat
      /\ \/ NewestChanged(r, i, x)
         \/ NoChange(r, i) /\ snap > r.min /\ snap > 0 /\ SetAt(snap, i) # Nothing /\ x = SetAt(snap, i)
         \/ /\ NoChange(r, i) /\ ~(snap > r.min /\ snap > 0 /\ SetAt(snap, i) # Nothing)
            /\ x = r.got[i]
    BY ToldIs
<1>3. r.min \in Int /\ r.got[i] \in Nat /\ w[i] \in Nat
    BY DEF IsSync
<1>4. Seen(got, w)[i] = (IF x > 0 THEN x ELSE w[i]) /\ Seen(r.got, w)[i] = (IF r.got[i] > 0 THEN r.got[i] ELSE w[i])
    BY DEF Seen
<1>5. min \in Int /\ (min = upto \/ min = r.min)
    BY <1>1, <1>3
<1>6. SetAt(upto, i) # Nothing => SetAt(upto, i) \in 1 .. upto /\ log[SetAt(upto, i)].index = i
    BY <1>1, SetAtIs
<1>7. upto <= (IF r.reply.more THEN Len(log) ELSE upto)
    BY <1>1
<1>8. ASSUME min <= upto, Covers(i, upto, Seen(got, w)[i])
      PROVE  \E g \in Nat : g >= upto /\ g >= min /\ g <= (IF r.reply.more THEN Len(log) ELSE upto) /\ Covers(i, g, Seen(got, w)[i])
    BY <1>1, <1>5, <1>7, <1>8
<1>9. CASE NewestChanged(r, i, x)
    <2>1. Patches(r) # {} /\ min = upto
        BY <1>9 DEF NewestChanged, Patches
    <2>2. x > 0 /\ x \in Nat /\ x >= FirstPatch(r) /\ x > r.min
        BY <1>1, <1>2, <1>9 DEF NewestChanged
    <2>3. ASSUME SetAt(upto, i) # Nothing PROVE x >= SetAt(upto, i)
        <3>1. PICK m \in 1 .. upto : m = SetAt(upto, i) /\ log[m].index = i
            BY <1>6, <2>3
        <3>2. SUFFICES ASSUME m > x PROVE FALSE
            BY <1>1, <2>2, <3>1
        <3>3. m \in FirstPatch(r) .. upto /\ m > r.min
            <4>1. m \in Nat /\ m <= upto /\ upto \in Nat /\ FirstPatch(r) \in Nat /\ r.min \in Int
                BY <1>1, <1>3
            <4> HIDE DEF x, upto
            <4> QED BY <2>2, <3>2, <4>1
        <3> QED BY <1>9, <2>2, <3>1, <3>2, <3>3 DEF NewestChanged
    <2>4. Covers(i, upto, Seen(got, w)[i])
        BY <1>4, <2>2, <2>3 DEF Covers
    <2> QED BY <1>1, <1>8, <2>1, <2>4
<1>10. CASE NoChange(r, i) /\ snap > r.min /\ snap > 0
    <2>1. min <= upto
        BY <1>1, <1>3, <1>5, <1>10
    <2>2. SetAt(snap, i) = SetAt(upto, i)
        <3>1. \A l \in snap + 1 .. upto : log[l].index # i
            BY <1>1, <1>3, <1>10 DEF NoChange
        <3> HIDE DEF snap, upto
        <3> QED BY <1>1, <3>1, SetAtSame
    <2>3. CASE SetAt(snap, i) # Nothing
        <3>1. x = SetAt(upto, i) /\ x > 0
            <4>1. x = SetAt(snap, i)
                BY <1>2, <1>10, <2>3 DEF NewestChanged, NoChange
            <4> QED BY <1>1, <1>6, <2>2, <2>3, <4>1
        <3>2. Covers(i, upto, Seen(got, w)[i])
            BY <1>2, <1>4, <3>1 DEF Covers
        <3> QED BY <1>8, <2>1, <3>2
    <2>4. CASE SetAt(snap, i) = Nothing
        BY <1>8, <2>1, <2>2, <2>4 DEF Covers
    <2> QED BY <2>3, <2>4
<1>11. CASE NoChange(r, i) /\ ~(snap > r.min /\ snap > 0) /\ x = r.got[i]
    <2>1. h >= FirstPatch(r) - 1
        BY <1>1, <1>3, <1>11
    <2>2. Covers(i, h, Seen(got, w)[i])
        BY <1>4, <1>11
    <2>3. CASE h <= upto
        <3>1. ASSUME NEW l \in h + 1 .. upto PROVE log[l].index # i
            <4>1. l \in Nat /\ l > h /\ l <= upto
                BY <1>1
            <4>2. l \in FirstPatch(r) .. upto
                BY <1>1, <2>1, <4>1
            <4>3. l > r.min
                BY <1>3, <4>1
            <4> QED BY <1>11, <4>2, <4>3 DEF NoChange
        <3>2. SetAt(h, i) = SetAt(upto, i)
            <4> HIDE DEF upto
            <4> QED BY <1>1, <2>3, <3>1, SetAtSame
        <3>3. Covers(i, upto, Seen(got, w)[i])
            BY <2>2, <3>2 DEF Covers
        <3>4. min <= upto
            BY <1>1, <1>3, <1>5, <2>3
        <3> QED BY <1>8, <3>3, <3>4
    <2>4. CASE h > upto
        <3>1. r.reply.more /\ h <= Len(log)
            BY <1>1, <2>4 DEF Bound
        <3>2. h >= min
            BY <1>1, <1>5, <2>4
        <3> QED BY <1>1, <2>2, <2>4, <3>1, <3>2
    <2> QED BY <1>1, <2>3, <2>4
<1> QED BY <1>2, <1>9, <1>10, <1>11

\* What was told stays no older than the version a call began with.
LEMMA ToldStep ==
    ASSUME AppInv, NEW r, IsSync(r), SyncRight(r), r.pc = "answered", NEW i \in Indices, NEW n \in 0 .. Len(log), r.min >= n,
           r.got[i] = 0 \/ Covers(i, n, r.got[i]), NEW got, got = Told(r)
    PROVE  got[i] = 0 \/ Covers(i, n, got[i])
<1> DEFINE upto == r.reply.upto
           snap == r.reply.snap
           x == got[i]
<1>1. upto \in Nat /\ snap \in Nat /\ snap <= upto /\ FirstPatch(r) \in Nat /\ n \in Nat /\ LogRight
    BY AnswerIs
<1>2. /\ x \in Nat
      /\ \/ NewestChanged(r, i, x)
         \/ NoChange(r, i) /\ snap > r.min /\ snap > 0 /\ SetAt(snap, i) # Nothing /\ x = SetAt(snap, i)
         \/ x = r.got[i]
    BY ToldIs
<1>3. r.min \in Int
    BY DEF IsSync
<1>4. SetAt(n, i) # Nothing => SetAt(n, i) \in 1 .. n /\ log[SetAt(n, i)].index = i
    BY <1>1, SetAtIs
<1>5. CASE NewestChanged(r, i, x)
    <2>1. x > r.min
        BY <1>5 DEF NewestChanged
    <2>2. SetAt(n, i) # Nothing => x >= SetAt(n, i)
        BY <1>1, <1>2, <1>3, <1>4, <2>1
    <2> QED BY <2>2 DEF Covers
<1>6. CASE snap > r.min /\ SetAt(snap, i) # Nothing /\ x = SetAt(snap, i)
    <2>1. \A l \in 1 .. snap : log[l].index = i => l <= SetAt(snap, i)
        BY <1>1, <1>6, SetAtIs
    <2>2. ASSUME SetAt(n, i) # Nothing PROVE x >= SetAt(n, i)
        <3>1. PICK m \in 1 .. n : m = SetAt(n, i) /\ log[m].index = i
            BY <1>4, <2>2
        <3>2. m \in 1 .. snap
            BY <1>1, <1>3, <1>6
        <3> QED BY <1>1, <1>2, <1>6, <2>1, <3>1, <3>2
    <2> QED BY <2>2 DEF Covers
<1> QED BY <1>2, <1>5, <1>6

\* Apply, of an answer that is decoded: what the application will have seen
\* reaches the new version.
LEMMA DecodedFollows ==
    ASSUME AppInv, Following, NEW s \in Syncs, NEW old, old = sync[s], old.pc = "answered", UNCHANGED <<log, view>>,
           NEW state \in Decodes(old), NEW new, state # Nothing, NEW st, st = stored, NEW next,
           next = (IF Empty(old) THEN st ELSE state), stored' = next,
           sync' = [sync EXCEPT ![s] = new], WasApplied(old, state, new)
    PROVE  Following'
<1>1. PICK w : w = view
    OBVIOUS
<1>2. RunFollows(old, st, w) /\ IsSync(old) /\ SyncRight(old) /\ Only(s) /\ StateRight(st) /\ Len(log) \in Nat
      /\ w \in [Indices -> Nat]
    <2>1. IsRunning(old)
        BY DEF IsRunning
    <2> QED BY <1>1, <2>1, RunsAlone
<1>3. PICK upto : upto = old.reply.upto
    OBVIOUS
<1>4. /\ old.from.version \in Nat /\ upto \in Nat /\ upto \in 0 .. Len(log) /\ old.from.version <= upto
      /\ (state = Nothing \/ RightAt(state, upto)) /\ (Empty(old) => upto = old.from.version)
    BY <1>2, <1>3, DecodesTo
<1>5. old.from = (IF st = Nothing THEN NewState ELSE st)
    BY <1>2 DEF RunFollows
<1>6. st # Nothing => st.version = old.from.version
    BY <1>5
<1>7. next # Nothing => next.version = upto
    <2>1. CASE Empty(old)
        BY <1>4, <1>6, <2>1
    <2>2. CASE ~Empty(old)
        BY <1>4, <2>2 DEF RightAt
    <2> QED BY <2>1, <2>2
<1>8. StateRight(next)
    <2>1. StateRight(state)
        BY <1>4 DEF StateRight
    <2> QED BY <1>2, <2>1
<1>9. PICK got, min : got = Told(old) /\ min = (IF Patches(old) # {} THEN upto ELSE old.min)
    OBVIOUS
<1>10. /\ IsSync(new) /\ new.pc = (IF old.reply.more THEN "again" ELSE "tell") /\ new.first = old.first
       /\ new.got = got /\ new.min = min /\ (~new.older => ~old.older /\ ~(Patches(old) # {} /\ upto < old.min))
    BY <1>3, <1>9 DEF WasApplied
<1>11. ASSUME NEW i \in Indices
       PROVE  \E g \in Nat : g >= upto /\ g >= min /\ g <= (IF old.reply.more THEN Len(log) ELSE upto) /\ Covers(i, g, Seen(got, w)[i])
    <2>1. Reached(i, Seen(old.got, w)[i], old.min, st, Bound(old))
        BY <1>2 DEF RunFollows
    <2>2. PICK h \in Nat : h >= old.min /\ (st # Nothing => h >= st.version) /\ h <= Bound(old)
                          /\ Covers(i, h, Seen(old.got, w)[i])
        BY <2>1 DEF Reached
    <2>3. h >= old.from.version
        <3>1. st = Nothing => old.from.version = 0
            BY <1>5 DEF NewState
        <3> QED BY <1>4, <1>6, <2>2, <3>1
    <2>4. \E g \in Nat : /\ g >= old.reply.upto /\ g >= (IF Patches(old) # {} THEN old.reply.upto ELSE old.min)
                         /\ g <= (IF old.reply.more THEN Len(log) ELSE old.reply.upto) /\ Covers(i, g, Seen(got, w)[i])
        BY <1>2, <1>9, <2>2, <2>3, ReachStep
    <2> QED BY <1>3, <1>9, <2>4
<1>12. StCovers(new.first, w)
    BY <1>2, <1>10 DEF RunFollows, Syncing
<1>13. ASSUME ~new.older, new.first # Nothing PROVE ToldUpTo(new, new.first.version)
    <2>1. ToldUpTo(old, old.first.version)
        BY <1>2, <1>10, <1>13 DEF RunFollows, Syncing
    <2>2. PICK n \in 0 .. Len(log) : n = old.first.version /\ n \in Nat
        BY <1>2, <1>10, <1>13, FirstVersion
    <2>3. min >= n
        <3>1. old.min >= n /\ old.min \in Int
            BY <1>2, <2>1, <2>2 DEF ToldUpTo, IsSync
        <3>2. Patches(old) # {} => upto >= old.min
            BY <1>4, <1>10, <1>13, <3>1
        <3> QED BY <1>4, <1>9, <2>2, <3>1, <3>2
    <2>4. ASSUME NEW i \in Indices PROVE got[i] = 0 \/ Covers(i, n, got[i])
        <3>1. old.min >= n /\ (old.got[i] = 0 \/ Covers(i, n, old.got[i]))
            BY <2>1, <2>2 DEF ToldUpTo
        <3> QED BY <1>2, <1>9, <3>1, ToldStep
    <2> QED BY <1>10, <2>2, <2>3, <2>4 DEF ToldUpTo
<1>14. RunFollows(new, next, w)
    <2>1. CASE old.reply.more
        <3>1. new.pc = "again" /\ Bound(new) = Len(log)
            BY <1>10, <2>1 DEF Bound
        <3>2. ASSUME NEW i \in Indices PROVE Reached(i, Seen(new.got, w)[i], new.min, next, Bound(new))
            <4>1. PICK g \in Nat : g >= upto /\ g >= min /\ g <= Len(log) /\ Covers(i, g, Seen(got, w)[i])
                BY <1>11, <2>1
            <4>2. next # Nothing => g >= next.version
                BY <1>7, <4>1
            <4> QED BY <1>10, <3>1, <4>1, <4>2 DEF Reached
        <3> QED BY <1>12, <1>13, <3>1, <3>2 DEF RunFollows, Patching
    <2>2. CASE ~old.reply.more
        <3>1. new.pc = "tell"
            BY <1>10, <2>2
        <3>2. ASSUME NEW i \in Indices, next # Nothing PROVE Covers(i, next.version, Seen(new.got, w)[i])
            <4>1. PICK g \in Nat : g >= upto /\ g <= upto /\ Covers(i, g, Seen(got, w)[i])
                BY <1>11, <2>2
            <4>2. g = next.version
                BY <1>4, <1>7, <3>2, <4>1
            <4> QED BY <1>10, <4>1, <4>2
        <3> QED BY <1>12, <1>13, <3>1, <3>2 DEF RunFollows, Patching, StCovers
    <2> QED BY <2>1, <2>2
<1>15. Sized(new, next) /\ IsRunning(new) /\ LogStep /\ w = view'
    BY <1>1, <1>2, <1>8, <1>10 DEF Sized, SyncRight, IsRunning, LogStep
<1> QED BY <1>2, <1>10, <1>14, <1>15, GoesOn

\* Apply, of one that is not: the state is dropped, what was got is kept.
LEMMA FailedFollows ==
    ASSUME AppInv, Following, NEW s \in Syncs, NEW old, old = sync[s], old.pc = "answered", UNCHANGED <<log, view>>,
           NEW new, stored' = Nothing, sync' = [sync EXCEPT ![s] = new], WasDropped(old, new)
    PROVE  Following'
<1>1. PICK st, w, next : st = stored /\ w = view /\ next = Nothing
    OBVIOUS
<1>2. RunFollows(old, st, w) /\ IsSync(old) /\ SyncRight(old) /\ Only(s) /\ Len(log) \in Nat
    <2>1. IsRunning(old)
        BY DEF IsRunning
    <2> QED BY <1>1, <2>1, RunsAlone
<1>3. /\ IsSync(new) /\ new.pc \in {"again", "tell"} /\ new.first = old.first
      /\ new.got = old.got /\ new.min = old.min /\ new.older = old.older
    BY DEF WasDropped
<1>4. new.pc = "again" => \A i \in Indices : Reached(i, Seen(new.got, w)[i], new.min, next, Bound(new))
    <2>1. SUFFICES ASSUME new.pc = "again", NEW i \in Indices PROVE Reached(i, Seen(new.got, w)[i], new.min, next, Bound(new))
        OBVIOUS
    <2>2. PICK h \in Nat : h >= old.min /\ h <= Bound(old) /\ Covers(i, h, Seen(old.got, w)[i])
        BY <1>2 DEF RunFollows, Reached
    <2>3. Bound(old) <= Len(log) /\ Bound(old) \in Int /\ Bound(new) = Len(log)
        BY <1>2, <2>1, AnswerIs DEF Bound
    <2> QED BY <1>1, <1>2, <1>3, <2>2, <2>3 DEF Reached
<1>5. StCovers(new.first, w) /\ (~new.older /\ new.first # Nothing => ToldUpTo(new, new.first.version))
    BY <1>2, <1>3 DEF RunFollows, Syncing, ToldUpTo
<1>6. RunFollows(new, next, w)
    BY <1>1, <1>3, <1>4, <1>5 DEF RunFollows, StCovers, Patching
<1>7. Sized(new, next) /\ IsRunning(new) /\ LogStep /\ w = view' /\ next = stored'
    BY <1>1, <1>2, <1>3 DEF Sized, SyncRight, StateRight, IsRunning, LogStep
<1> QED BY <1>2, <1>3, <1>6, <1>7, GoesOn

\* Apply in either case.
LEMMA ApplyFollows == ASSUME AppInv, Following, NEW s \in Syncs, Apply(s) PROVE Following'
<1>1. PICK old, st : old = sync[s] /\ st = stored
    OBVIOUS
<1>2. old.pc = "answered" /\ UNCHANGED <<log, view>>
    BY <1>1, ApplyIs
<1>3. ASSUME NEW state \in Decodes(old), NEW new, state # Nothing, stored' = (IF Empty(old) THEN stored ELSE state),
             sync' = [sync EXCEPT ![s] = new], WasApplied(old, state, new)
      PROVE  Following'
    <2>1. PICK next : next = (IF Empty(old) THEN st ELSE state)
        OBVIOUS
    <2>2. stored' = next
        BY <1>1, <1>3, <2>1
    <2> QED BY <1>1, <1>2, <1>3, <2>1, <2>2, DecodedFollows
<1>4. ASSUME NEW new, stored' = Nothing, sync' = [sync EXCEPT ![s] = new], WasDropped(old, new) PROVE Following'
    BY <1>1, <1>2, <1>4, FailedFollows
<1> QED BY <1>1, <1>3, <1>4, ApplyIs

\* Tell: what was got reaches the application.
LEMMA TellFollows == ASSUME AppInv, Following, NEW s \in Syncs, Tell(s) PROVE Following'
<1>1. PICK old, st, w, next : old = sync[s] /\ st = stored /\ w = view /\ next = Seen(old.got, w)
    OBVIOUS
<1>2. old.pc = "tell" /\ UNCHANGED <<log, stored>> /\ view' = Shown(old.got)
    BY <1>1, TellIs
<1>3. RunFollows(old, st, w) /\ IsSync(old) /\ SyncRight(old) /\ Only(s) /\ StateRight(st) /\ w \in [Indices -> Nat]
    <2>1. IsRunning(old)
        BY <1>2 DEF IsRunning
    <2> QED BY <1>1, <2>1, RunsAlone
<1>4. view' = next
    BY <1>1, <1>2 DEF Shown, Seen
<1>5. PICK new : /\ sync' = [sync EXCEPT ![s] = new] /\ IsSync(new)
                 /\ \/ new = Ended
                    \/ new.pc = "encode" /\ new.first = old.first /\ new.older = old.older
    BY <1>1, TellIs
<1>6. StCovers(st, next)
    BY <1>1, <1>2, <1>3 DEF RunFollows
<1>7. CASE new = Ended
    <2>1. ~IsRunning(new)
        BY <1>7, EndedIs DEF IsRunning
    <2>2. st = stored' /\ next = view' /\ LogStep
        BY <1>1, <1>2, <1>4 DEF LogStep
    <2> QED BY <1>3, <1>5, <1>6, <2>1, <2>2, Stops
<1>8. CASE new.pc = "encode" /\ new.first = old.first /\ new.older = old.older
    <2>1. ~new.older => StCovers(new.first, next)
        <3>1. SUFFICES ASSUME ~old.older, old.first # Nothing, NEW i \in Indices PROVE Covers(i, old.first.version, next[i])
            BY <1>8 DEF StCovers
        <3>2. old.got[i] = 0 \/ Covers(i, old.first.version, old.got[i])
            BY <1>2, <1>3, <3>1 DEF RunFollows, Syncing, ToldUpTo
        <3>3. Covers(i, old.first.version, w[i])
            BY <1>2, <1>3, <3>1 DEF RunFollows, Syncing, StCovers
        <3>4. next[i] = IF old.got[i] > 0 THEN old.got[i] ELSE w[i]
            BY <1>1 DEF Seen
        <3> QED BY <3>2, <3>3, <3>4
    <2>2. RunFollows(new, st, next)
        BY <1>6, <1>8, <2>1 DEF RunFollows, Syncing
    <2>3. Sized(new, st) /\ IsRunning(new) /\ st = stored' /\ next = view' /\ LogStep
        BY <1>1, <1>2, <1>3, <1>4, <1>8 DEF Sized, SyncRight, IsRunning, LogStep
    <2> QED BY <1>3, <1>5, <2>2, <2>3, GoesOn
<1> QED BY <1>5, <1>7, <1>8

\* Encode: the patch comes next to the stored version.
LEMMA EncodeFollows == ASSUME AppInv, Following, NEW s \in Syncs, Encode(s) PROVE Following'
<1>1. PICK old, st, w : old = sync[s] /\ st = stored /\ w = view
    OBVIOUS
<1>2. old.pc = "encode" /\ UNCHANGED <<log, stored, view>> /\ IsRunning(old)
    BY <1>1 DEF Encode, IsRunning
<1>3. RunFollows(old, st, w) /\ IsSync(old) /\ SyncRight(old) /\ Only(s) /\ StateRight(st)
    BY <1>1, <1>2, RunsAlone
<1>4. PICK c \in Changes, initial \in {IF stored = Nothing THEN NewState ELSE stored} :
          sync' = [sync EXCEPT ![s].pc = "sent",
                ![s].own = [op |-> c.op, index |-> c.index, state |-> EncodedState(initial, c.op, c.index)]]
    BY DEF Encode
<1>5. PICK state, own : /\ state = EncodedState(initial, c.op, c.index)
                        /\ own = [op |-> c.op, index |-> c.index, state |-> state]
    OBVIOUS
<1>6. state.version = initial.version + 1
    BY <1>5 DEF EncodedState, Mixed
<1>7. initial.version = (IF st = Nothing THEN 0 ELSE st.version)
    BY <1>1, <1>4 DEF NewState
<1>8. PICK new : new = [old EXCEPT !.pc = "sent", !.own = own]
    OBVIOUS
<1>9. sync' = [sync EXCEPT ![s] = new]
    BY <1>1, <1>4, <1>5, <1>8
<1>10. IsSync(new) /\ new.pc = "sent" /\ new.own = own /\ new.first = old.first /\ new.older = old.older
    BY <1>3, <1>8 DEF IsSync
<1>11. RunFollows(new, st, w)
    <2>1. StCovers(st, w) /\ (~new.older => StCovers(new.first, w))
        BY <1>2, <1>3, <1>10 DEF RunFollows, Patching
    <2>2. new.own.state.version = (IF st = Nothing THEN 0 ELSE st.version) + 1
        BY <1>5, <1>6, <1>7, <1>10
    <2> QED BY <1>10, <2>1, <2>2 DEF RunFollows, Syncing
<1>12. Sized(new, st) /\ IsRunning(new) /\ st = stored' /\ w = view' /\ LogStep
    BY <1>1, <1>2, <1>3, <1>10 DEF Sized, SyncRight, IsRunning, LogStep
<1> QED BY <1>3, <1>9, <1>10, <1>11, <1>12, GoesOn

\* ServerTakesPatch changes nothing for the device.
LEMMA TakesFollows ==
    ASSUME AppInv, Following, NEW s \in Syncs, ServerTakesPatch(s), LogStep
    PROVE  Following'
<1>1. PICK old, st, w, new : old = sync[s] /\ st = stored /\ w = view /\ new = [old EXCEPT !.pc = "taken"]
    OBVIOUS
<1>2. old.pc = "sent" /\ UNCHANGED <<stored, view>> /\ IsRunning(old) /\ sync' = [sync EXCEPT ![s] = new]
    BY <1>1 DEF ServerTakesPatch, IsRunning
<1>3. RunFollows(old, st, w) /\ IsSync(old) /\ SyncRight(old) /\ Only(s) /\ StateRight(st)
    BY <1>1, <1>2, RunsAlone
<1>4. IsSync(new) /\ new.pc = "taken" /\ new.own = old.own /\ new.first = old.first /\ new.older = old.older
    BY <1>1, <1>3 DEF IsSync
<1>5. RunFollows(new, st, w)
    BY <1>2, <1>3, <1>4 DEF RunFollows, Syncing, Patching
<1>6. Sized(new, st) /\ IsRunning(new) /\ st = stored' /\ w = view'
    BY <1>1, <1>2, <1>3, <1>4 DEF Sized, SyncRight, IsRunning
<1> QED BY <1>2, <1>3, <1>4, <1>5, <1>6, GoesOn

\* The server takes one patch more.
LEMMA TakesAPatch == ASSUME AppInv, NEW s \in Syncs, ServerTakesPatch(s) PROVE LogStep
<1>1. PICK own : own = sync[s].own
    OBVIOUS
<1> DEFINE x == [op |-> own.op, index |-> own.index, hash |-> own.state.hash]
<1>2. SyncRight(sync[s]) /\ sync[s].pc = "sent" /\ own.state.version = Len(log) + 1 /\ log' = Append(log, x)
    BY <1>1 DEF AppInv, ServerTakesPatch
<1>3. OwnRight(own) /\ own.op = "set" /\ own.index \in Indices
    BY <1>1, <1>2 DEF SyncRight, OwnRight
<1>4. PICK n \in 0 .. Len(log) : \E st : RightAt(st, n) /\ n < MaxVersion /\ own.state = EncodedState(st, "set", own.index)
    BY <1>3 DEF OwnRight
<1>5. PICK st : RightAt(st, n) /\ n < MaxVersion /\ own.state = EncodedState(st, "set", own.index)
    BY <1>4
<1> DEFINE next == Changed(AtVersion(n), "set", own.index, n + 1)
<1>6. own.state = [version |-> n + 1, hash |-> HashOf(next), at |-> next]
    BY <1>3, <1>5, EncodedIs DEF AppInv
<1> HIDE DEF next
<1>7. n = Len(log)
    <2>1. n \in Nat /\ Len(log) \in Nat
        BY AppStateAssumption DEF AppInv, LogRight
    <2>2. n + 1 = Len(log) + 1
        BY <1>2, <1>6
    <2> QED BY <2>1, <2>2
<1>8. x \in Entries
    BY <1>3, <1>6, HashType DEF Entries
<1> QED BY <1>2, <1>5, <1>7, <1>8 DEF LogStep

\* PatchAnswered: the change is stored, and told.
LEMMA AnsweredFollows ==
    ASSUME AppInv, Following, NEW s \in Syncs, PatchAnswered(s)
    PROVE  Following'
<1>1. PICK old, st, w, own, new : old = sync[s] /\ st = stored /\ w = view /\ own = old.own /\ new = Ended
    OBVIOUS
<1>2. old.pc = "taken" /\ UNCHANGED log /\ IsRunning(old) /\ sync' = [sync EXCEPT ![s] = new] /\ stored' = own.state
      /\ view' = [w EXCEPT ![own.index] = own.state.version]
    BY <1>1 DEF PatchAnswered, IsRunning
<1>3. RunFollows(old, st, w) /\ IsSync(old) /\ SyncRight(old) /\ Only(s) /\ StateRight(st) /\ Len(log) \in Nat
      /\ w \in [Indices -> Nat]
    BY <1>1, <1>2, RunsAlone
<1>4. TakenRight(own) /\ own.index \in Indices
    BY <1>1, <1>2, <1>3 DEF SyncRight, OwnRight
<1>5. PICK n \in 1 .. Len(log) : n = own.state.version /\ RightAt(own.state, n) /\ log[n].index = own.index
    BY <1>4 DEF TakenRight
<1>6. n \in Nat /\ n \in 0 .. Len(log) /\ n = (IF st = Nothing THEN 0 ELSE st.version) + 1
    BY <1>1, <1>2, <1>3, <1>5 DEF RunFollows
<1>7. PICK next, after : next = own.state /\ after = [w EXCEPT ![own.index] = n]
    OBVIOUS
<1>8. next = stored' /\ after = view'
    BY <1>2, <1>5, <1>7
<1>9. StateRight(next) /\ next.version = n
    BY <1>5, <1>6, <1>7 DEF StateRight
<1>10. ASSUME NEW i \in Indices PROVE Covers(i, n, after[i])
    <2>1. CASE i = own.index
        <3>1. after[i] = n
            BY <1>3, <1>4, <1>7, <2>1
        <3>2. SetAt(n, i) # Nothing => SetAt(n, i) \in 1 .. n
            BY <1>6, SetAtIs
        <3> QED BY <1>6, <3>1, <3>2 DEF Covers
    <2>2. CASE i # own.index
        <3>1. after[i] = w[i]
            BY <1>3, <1>7, <2>2
        <3>2. SetAt(n, i) = SetAt(n - 1, i)
            BY <1>5, <2>2, NextVersion DEF AppInv
        <3>3. CASE st = Nothing
            BY <1>6, <3>2, <3>3, SetAtNone DEF Covers
        <3>4. CASE st # Nothing
            <4>1. st.version \in Nat
                BY <1>1, <3>4, StateIs
            <4>2. st.version = n - 1
                BY <1>6, <3>4, <4>1
            <4>3. Covers(i, st.version, w[i])
                BY <1>2, <1>3, <3>4 DEF RunFollows, Patching, StCovers
            <4> QED BY <3>1, <3>2, <4>2, <4>3 DEF Covers
        <3> QED BY <3>3, <3>4
    <2> QED BY <2>1, <2>2
<1>11. StCovers(next, after)
    BY <1>9, <1>10 DEF StCovers
<1>12. ~IsRunning(new) /\ LogStep
    BY <1>1, <1>2, EndedIs DEF IsRunning, LogStep
<1> QED BY <1>2, <1>3, <1>8, <1>9, <1>11, <1>12, Stops

\* Throws: the state is what it was when the call began, and so was told.
LEMMA ThrowsFollows ==
    ASSUME AppInv, Following, NEW s \in Syncs, Throws(s), ~overlapped, ~undone'
    PROVE  Following'
<1>1. PICK old, st, w, first, new : old = sync[s] /\ st = stored /\ w = view /\ first = old.first /\ new = Ended
    OBVIOUS
<1>2. /\ old.pc \in {"asked", "encode", "sent", "taken"} /\ UNCHANGED <<log, view>> /\ IsRunning(old)
      /\ sync' = [sync EXCEPT ![s] = new] /\ stored' = first /\ (old.pc # "asked" => ~old.older)
    BY <1>1 DEF Throws, IsRunning
<1>3. RunFollows(old, st, w) /\ IsSync(old) /\ SyncRight(old) /\ Only(s)
    BY <1>1, <1>2, RunsAlone
<1>4. StCovers(first, w)
    BY <1>1, <1>2, <1>3 DEF RunFollows, Syncing, Patching
<1>5. StateRight(first)
    BY <1>1, <1>3 DEF SyncRight
<1>6. ~IsRunning(new) /\ LogStep /\ w = view'
    BY <1>1, <1>2, EndedIs DEF IsRunning, LogStep
<1> QED BY <1>2, <1>3, <1>4, <1>5, <1>6, Stops

\* Another device, and no device.
LEMMA StaysFollowed ==
    ASSUME AppInv, Following, LogStep, UNCHANGED <<stored, sync, view>>
    PROVE  Following'
<1>1. ASSUME NEW st, NEW w, st = stored, w = view, StCovers(st, w) PROVE StCovers(st, w)'
    BY <1>1, CoversStays, StateIs DEF AppInv
<1>2. ASSUME NEW t \in Syncs, NEW r, NEW st, NEW w, r = sync[t], st = stored, w = view, IsRunning(r) PROVE RunFollows(r, st, w)'
    <2>1. RunFollows(r, st, w) /\ IsSync(r) /\ SyncRight(r) /\ StateRight(st)
        BY <1>2, RunsAlone
    <2> QED BY <2>1, FollowsStays, SizedIs DEF AppInv
<1>3. (\A t \in Syncs : ~IsRunning(sync'[t])) => \A st, w : st = stored' /\ w = view' => StCovers(st, w)'
    BY <1>1 DEF Following
<1>4. \A t \in Syncs : \A r, st, w : r = sync'[t] /\ st = stored' /\ w = view' /\ IsRunning(r) => RunFollows(r, st, w)'
    BY <1>2
<1>5. \A a, b \in Syncs : IsRunning(sync'[a]) /\ IsRunning(sync'[b]) => a = b
    BY DEF Following
<1> QED BY <1>3, <1>4, <1>5 DEF Following

\* Another device adds a patch.
LEMMA OtherIsAStep ==
    ASSUME AppInv, NEW op \in {"set", "remove"}, NEW i \in Indices, OtherDevice(op, i)
    PROVE  LogStep
<1>1. PICK at : /\ Len(log) < MaxVersion
                /\ log' = Append(log, [op |-> op, index |-> i, hash |-> HashOf(at)])
    BY DEF OtherDevice
<1>2. [op |-> op, index |-> i, hash |-> HashOf(at)] \in Entries
    BY HashType DEF Entries
<1> QED BY <1>1, <1>2 DEF LogStep

\* Every step keeps the invariant.
LEMMA FollowsNext ==
    ASSUME FollowInv, OwnChanges \subseteq {"set"}, AppNext
    PROVE  FollowInv'
<1>1. AppInv'
    BY NextKeeps DEF FollowInv
<1>2. SUFFICES ASSUME ~overlapped', ~undone' PROVE Following'
    BY <1>1 DEF FollowInv
<1>3. ASSUME NEW op \in {"set", "remove"}, NEW i \in Indices, OtherDevice(op, i) PROVE Following'
    <2>1. UNCHANGED <<stored, sync, view, overlapped, undone>>
        BY <1>3 DEF OtherDevice
    <2> QED BY <1>2, <1>3, <2>1, OtherIsAStep, StaysFollowed DEF FollowInv
<1>4. ASSUME NEW s \in Syncs, BeginSync(s) \/ BeginPatch(s) PROVE Following'
    <2>1. ~overlapped /\ ~undone
        <3>1. UNCHANGED undone /\ overlapped' = (overlapped \/ \E t \in Syncs : Running(t))
            BY <1>4 DEF BeginSync, BeginPatch, Overlaps
        <3> QED BY <1>2, <3>1, Zenon
    <2> QED BY <1>2, <1>4, <2>1, BeginFollows DEF FollowInv
<1>5. ASSUME NEW s \in Syncs, Throws(s) PROVE Following'
    <2>1. ~overlapped /\ ~undone
        BY <1>2, <1>5 DEF Throws
    <2> QED BY <1>2, <1>5, <2>1, ThrowsFollows DEF FollowInv
<1>6. ASSUME NEW s \in Syncs, CallPatch(s) \/ ServerTakesPatch(s) \/ ServerAnswers(s) \/ Apply(s) \/ AskAgain(s) \/ Tell(s)
                              \/ Encode(s) \/ PatchAnswered(s)
      PROVE  Following'
    <2>1. ~overlapped /\ ~undone
        <3>1. UNCHANGED <<overlapped, undone>>
            BY <1>6 DEF CallPatch, ServerTakesPatch, ServerAnswers, Apply, AskAgain, Tell, Encode, PatchAnswered
        <3> QED BY <1>2, <3>1
    <2> QED BY <1>6, <2>1, QueuedFollows, TakesAPatch, TakesFollows, AnswerFollows, ApplyFollows, AgainFollows, TellFollows,
               EncodeFollows, AnsweredFollows DEF FollowInv
<1> QED BY <1>3, <1>4, <1>5, <1>6 DEF AppNext, Continue

\* So does a step that changes nothing.
LEMMA FollowsStutter == ASSUME FollowInv, UNCHANGED appVars PROVE FollowInv'
<1>1. AppInv'
    BY StutterKeeps DEF FollowInv
<1>2. LogStep /\ UNCHANGED <<stored, sync, view, overlapped, undone>>
    BY DEF appVars, LogStep
<1> QED BY <1>1, <1>2, StaysFollowed DEF FollowInv

\* The invariant holds at the start.
LEMMA FollowsInit == ASSUME AppInit PROVE FollowInv
<1>1. \A s \in Syncs : ~IsRunning(sync[s])
    BY DEF AppInit, NewSync, IsRunning
<1>2. stored = Nothing
    BY DEF AppInit
<1> QED BY <1>1, <1>2, StartRight DEF FollowInv, Following, StCovers

\* Calls that did not overlap, and were not rolled back after they told what was
\* old, leave the application with values no older than those of the stored
\* version, however often they were refused, failed or started from scratch.
THEOREM ViewIsFollowing == ASSUME OwnChanges \subseteq {"set"} PROVE AppSpec => []ViewFollows
<1>1. AppInit => FollowInv
    BY FollowsInit
<1>2. FollowInv /\ [AppNext]_appVars => FollowInv'
    BY FollowsNext, FollowsStutter
<1>3. FollowInv => ViewFollows
    <2>1. SUFFICES ASSUME FollowInv, stored # Nothing, ~overlapped, ~undone, \A s \in Syncs : ~Running(s), NEW i \in Indices
                   PROVE SetAt(stored.version, i) # Nothing => view[i] >= SetAt(stored.version, i)
        BY DEF ViewFollows
    <2>2. StCovers(stored, view)
        BY <2>1 DEF FollowInv, Following, Running, IsRunning
    <2> QED BY <2>1, <2>2 DEF StCovers, Covers
<1> QED BY <1>1, <1>2, <1>3, PTL DEF AppSpec

-----------------------------------------------------------------------------
(* How often a call asks.                                                  *)

\* Attempts are counted, and an answer that leaves more to ask for brings something.
RoundRight(r) == r.attempts \in Nat /\ (r.pc = "answered" /\ r.reply.more => r.from.version < r.reply.upto)
RoundInv == AppInv /\ \A s \in Syncs : \A r : r = sync[s] => RoundRight(r)

\* The other calls keep their count.
LEMMA OneRound ==
    ASSUME RoundInv, NEW s \in Syncs, NEW new, sync' = [sync EXCEPT ![s] = new], RoundRight(new)
    PROVE  \A t \in Syncs : \A r : r = sync'[t] => RoundRight(r)
<1>1. ASSUME NEW t \in Syncs, NEW r, r = sync'[t] PROVE RoundRight(r)
    <2>1. t # s => r = sync[t]
        BY <1>1, OneSync DEF RoundInv
    <2>2. t = s => r = new
        BY <1>1, OneSync DEF RoundInv
    <2> QED BY <2>1, <2>2 DEF RoundInv
<1> QED BY <1>1

\* What is known of one call.
LEMMA RoundOf ==
    ASSUME RoundInv, NEW s \in Syncs, NEW old, old = sync[s]
    PROVE  IsSync(old) /\ SyncRight(old) /\ RoundRight(old)
BY DEF RoundInv, AppInv

\* An answer that leaves more to ask for brings something.
LEMMA AnswerRound ==
    ASSUME RoundInv, NEW s \in Syncs, ServerAnswers(s)
    PROVE  \E new : sync' = [sync EXCEPT ![s] = new] /\ RoundRight(new)
<1>1. PICK old : old = sync[s]
    OBVIOUS
<1>2. IsSync(old) /\ RoundRight(old)
    BY <1>1, RoundOf
<1>3. PICK n : n = old.from.version
    OBVIOUS
<1>4. PICK snap \in (IF n = 0 /\ log # <<>> THEN 1..Len(log) ELSE {0}), upto \in n..Len(log) :
          /\ n < upto \/ upto = Len(log)
          /\ sync' = [sync EXCEPT ![s].pc = "answered",
                                  ![s].reply = [snap |-> snap, upto |-> upto, more |-> upto < Len(log)]]
    BY <1>1, <1>3 DEF ServerAnswers
<1>5. PICK reply : reply = [snap |-> snap, upto |-> upto, more |-> upto < Len(log)]
    OBVIOUS
<1>6. PICK new : new = [old EXCEPT !.pc = "answered", !.reply = reply]
    OBVIOUS
<1>7. sync' = [sync EXCEPT ![s] = new]
    BY <1>1, <1>4, <1>5, <1>6
<1>8. reply.upto = upto
    BY <1>5
<1>9. reply.more <=> upto < Len(log)
    BY <1>5
<1>10. new.attempts = old.attempts /\ new.from = old.from /\ new.reply = reply
    BY <1>2, <1>6 DEF IsSync
<1>11. upto < Len(log) => n < upto
    <2>1. upto = Len(log) => ~(upto < Len(log))
        BY AppStateAssumption DEF RoundInv, AppInv, LogRight
    <2> QED BY <1>4, <2>1
<1>12. RoundRight(new)
    BY <1>2, <1>3, <1>8, <1>9, <1>10, <1>11 DEF RoundRight
<1> QED BY <1>7, <1>12

\* What an answer leads to, and at what cost.
Onwards(old, new) ==
    new.pc = "again" => IF stored' = Nothing THEN old.attempts < new.attempts /\ new.attempts <= MaxAttempts
                        ELSE stored'.version > old.from.version

\* Apply: further, or one attempt less.
LEMMA ApplyRound ==
    ASSUME RoundInv, NEW s \in Syncs, Apply(s), NEW old, old = sync[s]
    PROVE  \E new : sync' = [sync EXCEPT ![s] = new] /\ RoundRight(new) /\ new.pc # "answered" /\ Onwards(old, new)
<1> DEFINE r == [old EXCEPT !.from = Nothing, !.reply = NoReply]
           Leads(o, x, state, fatal) ==
             IF state # Nothing
             THEN /\ stored' = IF Empty(o) THEN stored ELSE state
                  /\ sync' = [sync EXCEPT ![s] =
                        [x EXCEPT !.pc = IF o.reply.more THEN "again" ELSE "tell", !.got = Told(o),
                                  !.min = IF Patches(o) # {} THEN o.reply.upto ELSE @,
                                  !.older = @ \/ (Patches(o) # {} /\ o.reply.upto < x.min)]]
             ELSE /\ stored' = Nothing
                  /\ sync' = [sync EXCEPT ![s] =
                        [x EXCEPT !.pc = IF fatal \/ x.attempts >= MaxAttempts THEN "tell" ELSE "again",
                                  !.attempts = Attempts(x)]]
<1>1. \E state \in Decodes(sync[s]), fatal \in BOOLEAN, x \in {[sync[s] EXCEPT !.from = Nothing, !.reply = NoReply]} :
          Leads(sync[s], x, state, fatal)
    BY Zenon DEF Apply
<1> HIDE DEF Leads
<1>2. \E state \in Decodes(sync[s]), fatal \in BOOLEAN : Leads(sync[s], [sync[s] EXCEPT !.from = Nothing, !.reply = NoReply], state, fatal)
    BY <1>1
<1>3. PICK state \in Decodes(old), fatal \in BOOLEAN : Leads(old, r, state, fatal)
    BY <1>2
<1>4. IsSync(old) /\ SyncRight(old) /\ RoundRight(old) /\ old.pc = "answered" /\ AppInv
    BY RoundOf DEF Apply, RoundInv
<1>5. DOMAIN r = DOMAIN old /\ r.attempts = old.attempts /\ r.attempts \in Nat
    BY <1>4 DEF IsSync, RoundRight
<1>6. CASE state # Nothing
    <2> DEFINE pc == IF old.reply.more THEN "again" ELSE "tell"
               got == Told(old)
               min == IF Patches(old) # {} THEN old.reply.upto ELSE r.min
               older == r.older \/ (Patches(old) # {} /\ old.reply.upto < r.min)
               new == [r EXCEPT !.pc = pc, !.got = got, !.min = min, !.older = older]
    <2>1. sync' = [sync EXCEPT ![s] = new] /\ stored' = IF Empty(old) THEN stored ELSE state
        BY <1>3, <1>6 DEF Leads
    <2>2. pc # "answered" /\ (pc = "again" => old.reply.more)
        OBVIOUS
    <2> HIDE DEF pc, got, min, older, r
    <2>3. new.pc = pc /\ new.attempts = r.attempts
        BY <1>4, <1>5 DEF IsSync
    <2> HIDE DEF new
    <2>4. ASSUME old.reply.more PROVE stored' # Nothing /\ stored'.version > old.from.version
        <3>1. /\ old.from.version \in Nat /\ old.reply.upto \in Nat /\ old.from.version < old.reply.upto
              /\ RightAt(state, old.reply.upto) /\ (Empty(old) => old.reply.upto = old.from.version)
            BY <1>4, <1>6, <2>4, DecodesTo DEF RoundRight
        <3>2. stored' = state /\ state.version = old.reply.upto
            BY <2>1, <3>1 DEF RightAt
        <3> QED BY <1>6, <3>1, <3>2
    <2>5. Onwards(old, new)
        BY <2>2, <2>3, <2>4 DEF Onwards
    <2> QED BY <1>5, <2>1, <2>2, <2>3, <2>5 DEF RoundRight
<1>7. CASE state = Nothing
    <2> DEFINE pc == IF fatal \/ r.attempts >= MaxAttempts THEN "tell" ELSE "again"
               attempts == Attempts(r)
               new == [r EXCEPT !.pc = pc, !.attempts = attempts]
    <2>1. sync' = [sync EXCEPT ![s] = new] /\ stored' = Nothing
        BY <1>3, <1>7 DEF Leads
    <2> HIDE DEF r
    <2>2. pc # "answered" /\ (pc = "again" => r.attempts < MaxAttempts)
        BY <1>5, AppStateAssumption
    <2>3. attempts = r.attempts + 1
        BY DEF Attempts
    <2> HIDE DEF pc, attempts
    <2>4. new.pc = pc /\ new.attempts = attempts
        BY <1>4, <1>5 DEF IsSync
    <2> HIDE DEF new
    <2>5. Onwards(old, new) /\ RoundRight(new)
        BY <1>5, <2>1, <2>2, <2>3, <2>4, AppStateAssumption DEF Onwards, RoundRight
    <2> QED BY <2>1, <2>2, <2>4, <2>5
<1> QED BY <1>6, <1>7

\* The steps of a call that has no answer.
LEMMA OtherRounds ==
    ASSUME RoundInv, NEW s \in Syncs,
           \/ BeginSync(s) \/ BeginPatch(s) \/ CallPatch(s) \/ AskAgain(s) \/ Tell(s) \/ Encode(s) \/ ServerTakesPatch(s)
           \/ PatchAnswered(s) \/ Throws(s)
    PROVE  \E new : sync' = [sync EXCEPT ![s] = new] /\ RoundRight(new) /\ sync[s].pc # "answered"
<1>1. PICK old : old = sync[s]
    OBVIOUS
<1>2. IsSync(old) /\ RoundRight(old)
    BY <1>1, RoundOf
<1>3. CASE BeginSync(s) \/ BeginPatch(s) \/ AskAgain(s)
    <2>1. PICK new \in {Asking(old), Asking([old EXCEPT !.first = stored])} : sync' = [sync EXCEPT ![s] = new]
        BY <1>1, <1>3 DEF BeginSync, BeginPatch, AskAgain
    <2>2. new.pc = "asked" /\ new.attempts = old.attempts
        BY <1>2 DEF Asking, IsSync
    <2>3. sync[s].pc # "answered"
        BY <1>3 DEF BeginSync, BeginPatch, AskAgain
    <2> QED BY <1>2, <2>1, <2>2, <2>3 DEF RoundRight
<1>4. CASE CallPatch(s) \/ ServerTakesPatch(s)
    <2>1. PICK new \in {[old EXCEPT !.pc = "queued", !.patch = TRUE], [old EXCEPT !.pc = "taken"]} : sync' = [sync EXCEPT ![s] = new]
        BY <1>1, <1>4 DEF CallPatch, ServerTakesPatch
    <2>2. new.pc # "answered" /\ new.attempts = old.attempts
        BY <1>2 DEF IsSync
    <2>3. sync[s].pc # "answered"
        BY <1>4 DEF CallPatch, ServerTakesPatch
    <2> QED BY <1>2, <2>1, <2>2, <2>3 DEF RoundRight
<1>5. CASE Encode(s)
    <2>1. PICK own : sync' = [sync EXCEPT ![s].pc = "sent", ![s].own = own]
        BY <1>5 DEF Encode
    <2>2. PICK new : new = [old EXCEPT !.pc = "sent", !.own = own]
        OBVIOUS
    <2>3. sync' = [sync EXCEPT ![s] = new]
        BY <1>1, <2>1, <2>2
    <2>4. new.pc # "answered" /\ new.attempts = old.attempts
        BY <1>2, <2>2 DEF IsSync
    <2>5. sync[s].pc # "answered"
        BY <1>5 DEF Encode
    <2> QED BY <1>2, <2>3, <2>4, <2>5 DEF RoundRight
<1>6. CASE Tell(s) \/ PatchAnswered(s) \/ Throws(s)
    <2>1. PICK new \in {Ended, [NewSync EXCEPT !.pc = "encode", !.first = old.first, !.older = old.older]} : sync' = [sync EXCEPT ![s] = new]
        BY <1>1, <1>6 DEF Tell, PatchAnswered, Throws
    <2>2. new.pc # "answered" /\ new.attempts = 0
        BY DEF Ended, NewSync
    <2>3. sync[s].pc # "answered"
        BY <1>6 DEF Tell, PatchAnswered, Throws
    <2>4. RoundRight(new)
        BY <2>2 DEF RoundRight
    <2> QED BY <2>1, <2>3, <2>4, Zenon
<1> QED BY <1>3, <1>4, <1>5, <1>6

Rounds ==
    \A s \in Syncs :
          (sync[s].pc = "answered" /\ sync'[s].pc = "again")
              => IF stored' = Nothing
                 THEN sync[s].attempts < sync'[s].attempts /\ sync'[s].attempts <= MaxAttempts
                 ELSE stored'.version > sync[s].from.version

\* Every step keeps the invariant, and a call only asks again when it got
\* further or at the cost of an attempt.
LEMMA RoundsNext == ASSUME RoundInv, OwnChanges \subseteq {"set"}, AppNext PROVE RoundInv' /\ Rounds
<1>1. AppInv'
    BY NextKeeps DEF RoundInv
<1>2. ASSUME NEW op \in {"set", "remove"}, NEW i \in Indices, OtherDevice(op, i) PROVE RoundInv' /\ Rounds
    <2>1. sync' = sync
        BY <1>2 DEF OtherDevice
    <2> QED BY <1>1, <2>1 DEF RoundInv, RoundRight, Rounds
<1>3. ASSUME NEW s \in Syncs, NEW new, sync' = [sync EXCEPT ![s] = new], RoundRight(new),
             sync[s].pc = "answered" => Onwards(sync[s], new)
      PROVE  RoundInv' /\ Rounds
    <2>1. \A t \in Syncs : \A r : r = sync'[t] => RoundRight(r)
        BY <1>3, OneRound
    <2>2. RoundInv'
        BY <1>1, <2>1 DEF RoundInv, RoundRight
    <2>3. sync'[s] = new /\ \A t \in Syncs : t # s => sync'[t] = sync[t]
        BY <1>3, OneSync DEF RoundInv
    <2>4. Rounds
        BY <1>3, <2>3 DEF Rounds, Onwards
    <2> QED BY <2>2, <2>4
<1>4. ASSUME NEW s \in Syncs, ServerAnswers(s) PROVE RoundInv' /\ Rounds
    <2>1. sync[s].pc # "answered"
        BY <1>4 DEF ServerAnswers
    <2> QED BY <1>3, <1>4, <2>1, AnswerRound
<1>5. ASSUME NEW s \in Syncs, Apply(s) PROVE RoundInv' /\ Rounds
    <2>1. PICK old : old = sync[s]
        OBVIOUS
    <2>2. PICK new : sync' = [sync EXCEPT ![s] = new] /\ RoundRight(new) /\ Onwards(old, new)
        BY <1>5, <2>1, ApplyRound
    <2> QED BY <1>3, <2>1, <2>2
<1>6. ASSUME NEW s \in Syncs,
             \/ BeginSync(s) \/ BeginPatch(s) \/ CallPatch(s) \/ AskAgain(s) \/ Tell(s) \/ Encode(s) \/ ServerTakesPatch(s)
             \/ PatchAnswered(s) \/ Throws(s)
      PROVE  RoundInv' /\ Rounds
    BY <1>3, <1>6, OtherRounds
<1> QED BY <1>2, <1>4, <1>5, <1>6 DEF AppNext, Continue

\* So does a step that changes nothing.
LEMMA RoundsStutter == ASSUME RoundInv, UNCHANGED appVars PROVE RoundInv'
<1>1. AppInv' /\ sync' = sync
    BY StutterKeeps DEF RoundInv, appVars
<1> QED BY <1>1 DEF RoundInv, RoundRight

\* No call asks for ever: each time it asks again it has got further, or has one
\* attempt less, whatever the answers and however many calls run.
THEOREM RoundsComeToAnEnd == ASSUME OwnChanges \subseteq {"set"} PROVE AppSpec => RoundsEnd
<1>1. AppInit => RoundInv
    <2>1. RoundRight(NewSync)
        BY DEF RoundRight, NewSync
    <2> QED BY <2>1, StartRight DEF RoundInv, AppInit
<1>2. RoundInv /\ [AppNext]_appVars => RoundInv' /\ [Rounds]_appVars
    BY RoundsNext, RoundsStutter
<1>3. AppSpec => [][Rounds]_appVars
    BY <1>1, <1>2, PTL DEF AppSpec
<1> QED BY <1>3 DEF RoundsEnd, Rounds
=============================================================================
