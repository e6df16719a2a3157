---------------------------- MODULE ReceiveProofs ----------------------------
(***************************************************************************)
(* Proofs about Receive: what holds of the handlers of stanzas, however    *)
(* they are interleaved, for any authors and any number of stanzas.        *)
(* What is unread needs a record of who was handled together with whom     *)
(* (MetInHand) and of where the keys in front of a record came from        *)
(* (KeysRight); what a vote finds needs that everything handled is kept    *)
(* (HandledIsKept).  All of them rest on each handler being in one queue.  *)
(* And about MediaDownload: for files and ranges of any size, and blocks   *)
(* of any size, a reader gets exactly the bytes it asked for.              *)
(* And about MessageKeys: all devices mean the same message by their keys. *)
(* And about Attachments: each author has what he attached last, once.     *)
(***************************************************************************)
EXTENDS Receive, MediaDownload, MessageKeys, Attachments,
        SequenceTheorems, FiniteSetTheorems, WellFoundedInduction, TLAPS

\* What a stanza is, and where its handler may be.
Stanzas == [kind : Kinds, author : Authors, poll : Numbers \cup {NoStanza}]
Phases == {"none", "acking", "decrypting", "storing", "done"}

\* The types.
ReceiveTyped ==
    /\ stanzas \in Seq(Stanzas) /\ Len(stanzas) <= MaxStanzas
    /\ acks \in Seq(Numbers) /\ Len(acks) <= Len(stanzas)
    /\ waiting \in [Mutexes -> Seq(Numbers)]
    /\ done \in [Numbers -> Nat] /\ phase \in [Numbers -> Phases]
    /\ senderKeys \in [Authors -> Seq(DOMAIN stanzas)]
    /\ buffering \in BOOLEAN
    /\ unread \subseteq DOMAIN stanzas /\ dropped \subseteq DOMAIN stanzas

\* A stanza is in one place: it comes, its acknowledgement is settled in turn,
\* and it waits for the one mutex its next part needs.
AcksInTurn ==
    /\ \A i \in 1 .. Len(acks) : acks[i] = Len(stanzas) - Len(acks) + i
    /\ \A n \in Numbers : phase[n] = "none" <=> n > Len(stanzas)
    /\ \A n \in Numbers : phase[n] = "acking" <=> n <= Len(stanzas) /\ n > Len(stanzas) - Len(acks)
    /\ \A n \in Numbers : phase[n] \in {"none", "acking"} => done[n] = 0

\* Handler n has still a part to decrypt, and its mutex is m.
Waits(ph, dn, st, n, m) ==
    /\ ph[n] = "decrypting" /\ dn[n] < Len(Parts(st[n].kind))
    /\ m = <<IF Parts(st[n].kind)[dn[n] + 1] = "session" THEN "session" ELSE "sender key", st[n].author>>

WaitsFor(n, m) == Waits(phase, done, stanzas, n, m)

\* Each handler in a queue waits for that mutex, and once.
WaitsOnce ==
    \A m \in Mutexes :
        /\ \A i \in 1 .. Len(waiting[m]) : WaitsFor(waiting[m][i], m)
        /\ \A i, k \in 1 .. Len(waiting[m]) : waiting[m][i] = waiting[m][k] => i = k

\* Those that were in hand when one came were met.
MetInHand == \A k, n \in DOMAIN stanzas : k < n /\ phase[k] # "done" => {k, n} \in met

\* What was handled is unread, stored or held back; nothing is held back for ever.
HandledIsKept ==
    /\ \A n \in DOMAIN stanzas : phase[n] \in {"storing", "done"} => n \in unread \cup messageStore \cup held
    /\ held # {} => buffering
    /\ \A n \in unread \cup dropped : phase[n] = "done"

\* A vote is on an earlier message.
VotesLookBack == \A n \in DOMAIN stanzas : stanzas[n].kind = "vote" => stanzas[n].poll \in 1 .. n - 1

\* A vote that was dropped has its reason.
VotesRight ==
    \A n \in dropped :
        \/ stanzas[n].poll \in unread \/ {stanzas[n].poll, n} \in met \/ n \in early

\* The keys in a record came with stanzas of its author.
KeysRight ==
    \A a \in Authors : \A i \in 1 .. Len(senderKeys[a]) :
        stanzas[senderKeys[a][i]].kind = "keyed" /\ stanzas[senderKeys[a][i]].author = a

\* Another stanza with a key of that author was handled at the same time.
Overtaken(n) ==
    \E k \in DOMAIN stanzas \ {n} :
        {k, n} \in met /\ stanzas[k].kind = "keyed" /\ stanzas[k].author = stanzas[n].author

\* All keys in the record are newer than the stanza.
KeysLater(n) == \A i \in 1 .. Len(senderKeys[stanzas[n].author]) : senderKeys[stanzas[n].author][i] > n

\* Why a group message is unread.
UnreadRight == \A n \in unread : stanzas[n].kind \in {"keyed", "group"} => KeysLater(n) \/ Overtaken(n)

\* The inductive invariant.
ReceiveInv ==
    /\ ReceiveTyped /\ AcksInTurn /\ WaitsOnce /\ MetInHand /\ HandledIsKept /\ VotesLookBack
    /\ VotesRight /\ KeysRight /\ UnreadRight

\* What is needed of Parts.
PartsRight(kind) ==
    /\ Parts(kind) = <<>> <=> Len(Parts(kind)) = 0
    /\ Len(Parts(kind)) \in 0 .. 3
    /\ kind = "keyed" => Len(Parts(kind)) = 3 /\ Parts(kind)[1] = "session" /\ Parts(kind)[2] = "key" /\ Parts(kind)[3] = "chain"
    /\ kind = "group" => Len(Parts(kind)) = 1 /\ Parts(kind)[1] = "chain"
    /\ kind = "broken" => Len(Parts(kind)) = 0
    /\ kind \notin {"keyed", "group", "broken"} => Len(Parts(kind)) = 1 /\ Parts(kind)[1] = "session"

\* The parts of each kind of stanza.
LEMMA PartsAre ==
    ASSUME NEW kind \in Kinds
    PROVE  PartsRight(kind)
<1>1. CASE kind = "keyed"
    BY <1>1 DEF Parts, PartsRight
<1>2. CASE kind = "group"
    BY <1>2 DEF Parts, PartsRight
<1>3. CASE kind = "broken"
    BY <1>3 DEF Parts, PartsRight
<1>4. CASE kind \notin {"keyed", "group", "broken"}
    <2>1. Parts(kind) = <<"session">>
        BY <1>4 DEF Parts
    <2> QED BY <1>4, <2>1 DEF PartsRight
<1> QED BY <1>1, <1>2, <1>3, <1>4

\* The invariant holds before anything has come.
LEMMA ReceiveStarts == ReceiveInit => ReceiveInv
<1> SUFFICES ASSUME ReceiveInit PROVE ReceiveInv
    OBVIOUS
<1>1. ReceiveTyped
    BY ReceiveAssumption DEF ReceiveInit, ReceiveTyped, Phases
<1>2. AcksInTurn
    BY DEF ReceiveInit, AcksInTurn, Numbers
<1>3. \A m \in Mutexes : Len(waiting[m]) = 0
    BY DEF ReceiveInit
<1>4. \A a \in Authors : Len(senderKeys[a]) = 0
    BY DEF ReceiveInit
<1>5. DOMAIN stanzas = {}
    BY DEF ReceiveInit
<1>6. WaitsOnce /\ MetInHand /\ VotesLookBack /\ KeysRight
    BY <1>3, <1>4, <1>5 DEF WaitsOnce, MetInHand, VotesLookBack, KeysRight
<1>7. HandledIsKept /\ VotesRight /\ UnreadRight
    BY <1>5 DEF ReceiveInit, HandledIsKept, VotesRight, UnreadRight
<1> QED BY <1>1, <1>2, <1>6, <1>7 DEF ReceiveInv

\* A stanza that comes is acknowledged after the others, meets those in hand, and is
\* in nobody's way.
LEMMA ArrivesRight ==
    ASSUME ReceiveInv, NEW kind \in Kinds, NEW a \in Authors, NEW poll \in Numbers \cup {NoStanza}, Arrives(kind, a, poll)
    PROVE  ReceiveInv'
<1> DEFINE n == Len(stanzas) + 1
           s == [kind |-> kind, author |-> a, poll |-> poll]
<1>1. /\ n <= MaxStanzas
      /\ kind = "vote" => poll \in DOMAIN stanzas
      /\ stanzas' = Append(stanzas, s) /\ acks' = Append(acks, n)
      /\ phase' = [phase EXCEPT ![n] = "acking"]
      /\ met' = met \cup {{k, n} : k \in InHand}
      /\ UNCHANGED <<waiting, done, unread, senderKeys, buffering, held, messageStore, upserts, dropped, early>>
    BY DEF Arrives
<1>2. s \in Stanzas
    BY DEF Stanzas
<1>3. Len(stanzas) \in Nat /\ n \in Numbers /\ Len(acks) \in Nat /\ DOMAIN stanzas = 1 .. Len(stanzas)
    BY <1>1, ReceiveAssumption DEF ReceiveInv, ReceiveTyped, Numbers
<1>4. /\ stanzas' \in Seq(Stanzas) /\ Len(stanzas') = n /\ DOMAIN stanzas' = DOMAIN stanzas \cup {n}
      /\ \A k \in DOMAIN stanzas : stanzas'[k] = stanzas[k]
      /\ stanzas'[n] = s
    BY <1>1, <1>2, <1>3, AppendProperties DEF ReceiveInv, ReceiveTyped
<1>5. /\ acks' \in Seq(Numbers) /\ Len(acks') = Len(acks) + 1
      /\ \A i \in 1 .. Len(acks) : acks'[i] = acks[i]
      /\ acks'[Len(acks) + 1] = n
    BY <1>1, <1>3, AppendProperties DEF ReceiveInv, ReceiveTyped
<1>6. phase'[n] = "acking" /\ phase[n] = "none" /\ n \notin DOMAIN stanzas /\ \A k \in Numbers \ {n} : phase'[k] = phase[k]
    BY <1>1, <1>3 DEF ReceiveInv, ReceiveTyped, AcksInTurn
<1>7. DOMAIN stanzas \subseteq Numbers
    BY <1>3, ReceiveAssumption DEF ReceiveInv, ReceiveTyped, Numbers
<1> HIDE DEF n, s
<1>8. ReceiveTyped'
    <2>1. phase' \in [Numbers -> Phases]
        <3>1. phase \in [Numbers -> Phases] /\ "acking" \in Phases
            BY DEF ReceiveInv, ReceiveTyped, Phases
        <3> QED BY <1>1, <3>1
    <2>2. Len(stanzas') <= MaxStanzas /\ Len(acks') <= Len(stanzas')
        BY <1>1, <1>3, <1>4, <1>5 DEF ReceiveInv, ReceiveTyped, n
    <2>3. \A b \in Authors : senderKeys[b] \in Seq(DOMAIN stanzas')
        BY <1>4 DEF ReceiveInv, ReceiveTyped
    <2> QED BY <1>1, <1>4, <1>5, <2>1, <2>2, <2>3 DEF ReceiveInv, ReceiveTyped
<1>9. AcksInTurn'
    <2>1. /\ n = Len(stanzas) + 1 /\ Len(stanzas') = Len(stanzas) + 1 /\ Len(acks) <= Len(stanzas) /\ n \in Int
          /\ \A i \in 1 .. Len(acks) : acks[i] = Len(stanzas) - Len(acks) + i
          /\ Len(acks) \in Nat /\ Len(stanzas) \in Nat /\ \A k \in Numbers : k \in Int
        <3>1. AcksInTurn /\ ReceiveTyped
            BY DEF ReceiveInv
        <3>2. Len(acks) \in Nat /\ Len(stanzas) \in Nat /\ n = Len(stanzas) + 1
            BY <3>1 DEF ReceiveTyped, n
        <3>3. Len(acks) <= Len(stanzas) /\ \A i \in 1 .. Len(acks) : acks[i] = Len(stanzas) - Len(acks) + i
            BY <3>1 DEF AcksInTurn, ReceiveTyped
        <3>4. \A k \in Numbers : k \in Int
            BY DEF Numbers
        <3>5. Len(stanzas') = Len(stanzas) + 1
            BY <1>3, <1>4, <3>2
        <3> QED BY <3>2, <3>3, <3>4, <3>5
    <2>2. \A i \in 1 .. Len(acks') : acks'[i] = Len(stanzas') - Len(acks') + i
        <3> SUFFICES ASSUME NEW i \in 1 .. Len(acks) + 1 PROVE acks'[i] = Len(stanzas) - Len(acks) + i
            BY <2>1, <1>5
        <3>1. CASE i \in 1 .. Len(acks)
            BY <3>1, <2>1, <1>5
        <3>2. CASE i = Len(acks) + 1
            BY <3>2, <2>1, <1>5
        <3> QED BY <3>1, <3>2, <2>1
    <2>3. \A k \in Numbers : phase'[k] = "none" <=> k > Len(stanzas')
        BY <2>1, <1>6 DEF ReceiveInv, AcksInTurn
    <2>4. \A k \in Numbers : phase'[k] = "acking" <=> k <= Len(stanzas') /\ k > Len(stanzas') - Len(acks')
        <3> SUFFICES ASSUME NEW k \in Numbers
                     PROVE  phase'[k] = "acking" <=> k <= Len(stanzas') /\ k > Len(stanzas') - Len(acks')
            OBVIOUS
        <3>1. phase[k] = "acking" <=> k <= Len(stanzas) /\ k > Len(stanzas) - Len(acks)
            BY DEF ReceiveInv, AcksInTurn
        <3>2. CASE k = n
            BY <3>2, <2>1, <1>5, <1>6
        <3>3. CASE k # n
            BY <3>1, <3>3, <2>1, <1>5, <1>6
        <3> QED BY <3>2, <3>3
    <2>5. \A k \in Numbers : phase'[k] \in {"none", "acking"} => done'[k] = 0
        BY <1>1, <1>6 DEF ReceiveInv, AcksInTurn
    <2> QED BY <2>2, <2>3, <2>4, <2>5 DEF AcksInTurn
<1>10. \A k \in Numbers : phase[k] # "none" => k \in DOMAIN stanzas
    BY <1>3 DEF ReceiveInv, AcksInTurn, Numbers
<1>11. WaitsOnce'
    <2> SUFFICES ASSUME NEW m \in Mutexes, NEW i \in 1 .. Len(waiting[m]), WaitsFor(waiting[m][i], m)
                 PROVE  WaitsFor(waiting[m][i], m)'
        BY <1>1 DEF ReceiveInv, WaitsOnce
    <2>1. waiting[m][i] \in Numbers
        BY DEF ReceiveInv, ReceiveTyped
    <2>2. waiting[m][i] \in DOMAIN stanzas /\ waiting[m][i] # n
        BY <2>1, <1>6, <1>10 DEF WaitsFor, Waits
    <2> QED BY <1>1, <1>4, <1>6, <2>1, <2>2 DEF WaitsFor, Waits
<1>12. MetInHand'
    <2> SUFFICES ASSUME NEW k \in DOMAIN stanzas', NEW j \in DOMAIN stanzas', k < j, phase'[k] # "done"
                 PROVE  {k, j} \in met'
        BY DEF MetInHand
    <2>1. CASE j = n
        <3>1. k \in InHand
            BY <2>1, <1>3, <1>4, <1>6, <1>7 DEF InHand
        <3> QED BY <3>1, <2>1, <1>1
    <2>2. CASE j # n
        <3>1. j \in DOMAIN stanzas /\ k \in DOMAIN stanzas
            BY <2>2, <1>3, <1>4 DEF n
        <3> QED BY <3>1, <1>1, <1>6, <1>7 DEF ReceiveInv, MetInHand
    <2> QED BY <2>1, <2>2
<1>13. HandledIsKept'
    BY <1>1, <1>4, <1>6, <1>7 DEF ReceiveInv, HandledIsKept, ReceiveTyped
<1>14. VotesLookBack'
    BY <1>1, <1>3, <1>4 DEF ReceiveInv, VotesLookBack, n, s
<1>15. VotesRight'
    BY <1>1, <1>4 DEF ReceiveInv, VotesRight, ReceiveTyped
<1>16. \A b \in Authors : \A i \in 1 .. Len(senderKeys[b]) : senderKeys[b][i] \in DOMAIN stanzas
    BY DEF ReceiveInv, ReceiveTyped
<1>17. KeysRight'
    BY <1>1, <1>4, <1>16 DEF ReceiveInv, KeysRight
<1>18. UnreadRight'
    <2> SUFFICES ASSUME NEW k \in unread, stanzas[k].kind \in {"keyed", "group"}
                 PROVE  (KeysLater(k) \/ Overtaken(k))'
        BY <1>1, <1>4 DEF UnreadRight, ReceiveInv, ReceiveTyped
    <2>1. k \in DOMAIN stanzas /\ (KeysLater(k) \/ Overtaken(k))
        BY DEF ReceiveInv, UnreadRight, ReceiveTyped
    <2>2. CASE KeysLater(k)
        BY <2>1, <2>2, <1>1, <1>4 DEF KeysLater
    <2>3. CASE Overtaken(k)
        <3>1. PICK j \in DOMAIN stanzas \ {k} : {j, k} \in met /\ stanzas[j].kind = "keyed" /\ stanzas[j].author = stanzas[k].author
            BY <2>3 DEF Overtaken
        <3> QED BY <2>1, <3>1, <1>1, <1>4 DEF Overtaken
    <2> QED BY <2>1, <2>2, <2>3
<1> QED BY <1>8, <1>9, <1>11, <1>12, <1>13, <1>14, <1>15, <1>17, <1>18 DEF ReceiveInv

\* The queues of w are right, and n waits in none of them.
Queued(w, n) ==
    /\ w \in [Mutexes -> Seq(Numbers)]
    /\ \A m \in Mutexes :
          /\ \A i \in 1 .. Len(w[m]) : w[m][i] # n /\ Waits(phase, done, stanzas, w[m][i], m)
          /\ \A i, k \in 1 .. Len(w[m]) : w[m][i] = w[m][k] => i = k

\* What of the others stays when n goes on.
OthersStay(n) ==
    /\ UNCHANGED stanzas
    /\ \A k \in Numbers \ {n} : phase'[k] = phase[k] /\ done'[k] = done[k]

\* Where a handler goes on, the others wait for what they waited for.
LEMMA OthersWait ==
    ASSUME NEW n \in Numbers, OthersStay(n)
    PROVE  \A k \in Numbers \ {n} : \A m :
               Waits(phase, done, stanzas, k, m) => Waits(phase', done', stanzas', k, m)
BY DEF OthersStay, Waits

\* When a handler leaves the queues for good, those of the others stay right.
LEMMA QueuedStays ==
    ASSUME NEW n \in Numbers, OthersStay(n), Queued(waiting', n)
    PROVE  WaitsOnce'
<1> SUFFICES ASSUME NEW m \in Mutexes, NEW i \in 1 .. Len(waiting'[m])
             PROVE  Waits(phase', done', stanzas', waiting'[m][i], m)
    BY DEF WaitsOnce, WaitsFor, Queued
<1>1. waiting'[m][i] \in Numbers \ {n} /\ Waits(phase, done, stanzas, waiting'[m][i], m)
    BY DEF Queued
<1> QED BY <1>1, OthersWait

\* When it queues for the mutex of its next part, they all are right.
LEMMA QueuedMore ==
    ASSUME NEW n \in Numbers, OthersStay(n), NEW w, Queued(w, n), NEW m0 \in Mutexes,
           waiting' = [w EXCEPT ![m0] = Append(@, n)], Waits(phase', done', stanzas', n, m0)
    PROVE  WaitsOnce' /\ waiting' \in [Mutexes -> Seq(Numbers)]
<1>1. /\ waiting' \in [Mutexes -> Seq(Numbers)]
      /\ \A m \in Mutexes \ {m0} : waiting'[m] = w[m]
      /\ Len(waiting'[m0]) = Len(w[m0]) + 1 /\ Len(w[m0]) \in Nat
      /\ \A i \in 1 .. Len(w[m0]) : waiting'[m0][i] = w[m0][i]
      /\ waiting'[m0][Len(w[m0]) + 1] = n
    <2>1. w[m0] \in Seq(Numbers) /\ waiting'[m0] = Append(w[m0], n)
        BY DEF Queued
    <2> QED BY <2>1, AppendProperties, LenProperties DEF Queued
<1>2. ASSUME NEW m \in Mutexes, NEW i \in 1 .. Len(waiting'[m])
      PROVE  /\ Waits(phase', done', stanzas', waiting'[m][i], m)
             /\ \A k \in 1 .. Len(waiting'[m]) : waiting'[m][i] = waiting'[m][k] => i = k
    <2>1. CASE m # m0
        <3>1. waiting'[m][i] \in Numbers \ {n} /\ Waits(phase, done, stanzas, waiting'[m][i], m)
            BY <1>1, <2>1 DEF Queued
        <3> QED BY <3>1, <2>1, <1>1, OthersWait DEF Queued
    <2>2. CASE m = m0 /\ i # Len(w[m0]) + 1
        <3>1. i \in 1 .. Len(w[m0])
            BY <1>1, <2>2
        <3>2. waiting'[m][i] \in Numbers \ {n} /\ Waits(phase, done, stanzas, waiting'[m][i], m)
            BY <1>1, <2>2, <3>1 DEF Queued
        <3>3. \A k \in 1 .. Len(waiting'[m]) : k = Len(w[m0]) + 1 \/ k \in 1 .. Len(w[m0])
            BY <1>1, <2>2
        <3>4. Waits(phase', done', stanzas', waiting'[m][i], m)
            BY <3>2, OthersWait
        <3> QED BY <3>1, <3>2, <3>3, <3>4, <2>2, <1>1 DEF Queued
    <2>3. CASE m = m0 /\ i = Len(w[m0]) + 1
        <3>1. waiting'[m][i] = n
            BY <1>1, <2>3
        <3>2. \A k \in 1 .. Len(waiting'[m]) : k = Len(w[m0]) + 1 \/ k \in 1 .. Len(w[m0])
            BY <1>1, <2>3
        <3>3. \A k \in 1 .. Len(w[m0]) : waiting'[m0][k] # n
            BY <1>1 DEF Queued
        <3> QED BY <3>1, <3>2, <3>3, <2>3
    <2> QED BY <2>1, <2>2, <2>3
<1> QED BY <1>1, <1>2 DEF WaitsOnce, WaitsFor

\* The head of a mutex is in no other queue, and in none once it has left this one.
LEMMA HeadLeaves ==
    ASSUME ReceiveTyped, WaitsOnce, NEW m \in Mutexes, waiting[m] # <<>>
    PROVE  /\ Queued([waiting EXCEPT ![m] = Unlocked(m)], Head(waiting[m]))
           /\ Waits(phase, done, stanzas, Head(waiting[m]), m) /\ Head(waiting[m]) \in Numbers
<1> DEFINE s == waiting[m]
           n == Head(s)
           w == [waiting EXCEPT ![m] = Tail(s)]
<1>1. s \in Seq(Numbers) /\ s # <<>>
    BY DEF ReceiveTyped
<1>2. /\ n = s[1] /\ Len(s) \in Nat \ {0} /\ Tail(s) \in Seq(Numbers) /\ Len(Tail(s)) = Len(s) - 1
      /\ \A i \in 1 .. Len(s) - 1 : Tail(s)[i] = s[i + 1]
    BY <1>1, HeadTailProperties, LenProperties, EmptySeq
<1>3. n \in Numbers /\ Waits(phase, done, stanzas, n, m)
    BY <1>1, <1>2 DEF WaitsOnce, WaitsFor
<1>4. w \in [Mutexes -> Seq(Numbers)] /\ w[m] = Tail(s) /\ \A k \in Mutexes \ {m} : w[k] = waiting[k]
    BY <1>2 DEF ReceiveTyped
<1>5. ASSUME NEW k \in Mutexes
      PROVE  /\ \A i \in 1 .. Len(w[k]) : w[k][i] # n /\ Waits(phase, done, stanzas, w[k][i], k)
             /\ \A i, j \in 1 .. Len(w[k]) : w[k][i] = w[k][j] => i = j
    <2>1. CASE k = m
        <3>1. \A i \in 1 .. Len(s) - 1 : i + 1 \in 1 .. Len(s) /\ i + 1 # 1 /\ i \in Int
            BY <1>2
        <3>2. \A i \in 1 .. Len(w[k]) : w[k][i] = s[i + 1] /\ i + 1 \in 1 .. Len(s) /\ i + 1 # 1 /\ i \in Int
            BY <1>2, <1>4, <2>1, <3>1
        <3>3. \A i \in 1 .. Len(s) : Waits(phase, done, stanzas, s[i], m) /\ (s[i] = s[1] => i = 1)
            BY <1>2 DEF WaitsOnce, WaitsFor
        <3>4. \A i, j \in 1 .. Len(w[k]) : s[i + 1] = s[j + 1] => i + 1 = j + 1
            BY <3>2 DEF WaitsOnce, WaitsFor
        <3>5. \A i, j \in 1 .. Len(w[k]) : i + 1 = j + 1 => i = j
            BY <3>2
        <3> HIDE DEF w, s
        <3> QED BY <1>2, <2>1, <3>2, <3>3, <3>4, <3>5
    <2>2. CASE k # m
        <3>1. \A i \in 1 .. Len(w[k]) : Waits(phase, done, stanzas, w[k][i], k) /\ w[k][i] # n
            <4> SUFFICES ASSUME NEW i \in 1 .. Len(w[k]) PROVE Waits(phase, done, stanzas, w[k][i], k) /\ w[k][i] # n
                OBVIOUS
            <4>1. Waits(phase, done, stanzas, w[k][i], k)
                BY <1>4, <2>2 DEF WaitsOnce, WaitsFor
            <4>2. w[k][i] = n => k = m
                BY <4>1, <1>3 DEF Waits
            <4> QED BY <4>1, <4>2, <2>2
        <3> QED BY <3>1, <1>4, <2>2 DEF WaitsOnce, WaitsFor
    <2> QED BY <2>1, <2>2
<1> HIDE DEF w
<1>6. Queued(w, n)
    BY <1>4, <1>5 DEF Queued
<1> QED BY <1>3, <1>6 DEF w, Unlocked

\* A handler that is not decrypting waits for no mutex.
LEMMA NobodyQueued ==
    ASSUME ReceiveTyped, WaitsOnce, NEW n \in Numbers, phase[n] # "decrypting"
    PROVE  Queued(waiting, n)
<1>1. \A m \in Mutexes : \A i \in 1 .. Len(waiting[m]) : Waits(phase, done, stanzas, waiting[m][i], m)
    BY DEF WaitsOnce, WaitsFor
<1>2. \A m \in Mutexes : \A i \in 1 .. Len(waiting[m]) : waiting[m][i] # n
    BY <1>1 DEF Waits
<1> QED BY <1>1, <1>2 DEF ReceiveTyped, WaitsOnce, Queued

\* Who is done stays done, so all that were in hand are still met.
LEMMA MetStays ==
    ASSUME MetInHand, UNCHANGED <<stanzas, met>>, \A k \in DOMAIN stanzas : phase[k] = "done" => phase'[k] = "done"
    PROVE  MetInHand'
BY DEF MetInHand

\* Without a new key or an unread stanza, UnreadRight stays.
LEMMA SameUnread ==
    ASSUME UnreadRight, UNCHANGED <<stanzas, met, senderKeys, unread>>
    PROVE  UnreadRight'
<1>1. \A n : (KeysLater(n) => KeysLater(n)') /\ (Overtaken(n) => Overtaken(n)')
    BY DEF KeysLater, Overtaken
<1> QED BY <1>1 DEF UnreadRight

\* The mutex of a part is one of the mutexes.
LEMMA MutexIs ==
    ASSUME stanzas \in Seq(Stanzas), NEW n \in DOMAIN stanzas, NEW i
    PROVE  MutexOf(n, i) \in Mutexes
<1>1. stanzas[n] \in Stanzas
    BY ElementOfSeq
<1>2. stanzas[n].author \in Authors
    BY <1>1 DEF Stanzas
<1> QED BY <1>2 DEF MutexOf, Mutexes

\* The acknowledgement that is settled is that of the oldest stanza that waits for one.
LEMMA AckIs ==
    ASSUME ReceiveInv, acks # <<>>
    PROVE  /\ Head(acks) \in DOMAIN stanzas /\ Head(acks) \in Numbers /\ phase[Head(acks)] = "acking" /\ done[Head(acks)] = 0
           /\ Head(acks) = Len(stanzas) - Len(acks) + 1 /\ Tail(acks) \in Seq(Numbers)
           /\ Len(Tail(acks)) = Len(acks) - 1 /\ Len(acks) \in Nat \ {0} /\ Len(stanzas) \in Nat
           /\ \A i \in 1 .. Len(acks) - 1 : Tail(acks)[i] = acks[i + 1]
           /\ \A k \in Numbers : k \in Int /\ DOMAIN stanzas \subseteq Numbers /\ DOMAIN stanzas = 1 .. Len(stanzas)
<1>1. /\ Head(acks) = acks[1] /\ Len(acks) \in Nat \ {0} /\ Tail(acks) \in Seq(Numbers) /\ Len(Tail(acks)) = Len(acks) - 1
      /\ \A i \in 1 .. Len(acks) - 1 : Tail(acks)[i] = acks[i + 1]
    BY HeadTailProperties, LenProperties, EmptySeq DEF ReceiveInv, ReceiveTyped
<1>2. Len(stanzas) \in Nat /\ DOMAIN stanzas = 1 .. Len(stanzas) /\ DOMAIN stanzas \subseteq Numbers /\ Len(acks) <= Len(stanzas)
    BY ReceiveAssumption DEF ReceiveInv, ReceiveTyped, Numbers
<1>3. Head(acks) = Len(stanzas) - Len(acks) + 1
    BY <1>1 DEF ReceiveInv, AcksInTurn
<1>4. Head(acks) \in DOMAIN stanzas /\ Head(acks) > Len(stanzas) - Len(acks) /\ Head(acks) <= Len(stanzas)
    BY <1>1, <1>2, <1>3
<1>5. phase[Head(acks)] = "acking" /\ done[Head(acks)] = 0
    BY <1>2, <1>4 DEF ReceiveInv, AcksInTurn
<1> QED BY <1>1, <1>2, <1>3, <1>4, <1>5 DEF Numbers

\* AckSettled keeps the invariant: the stanza is queued, or it becomes a stub.
LEMMA AckSettledRight ==
    ASSUME ReceiveInv, AckSettled
    PROVE  ReceiveInv'
<1> DEFINE n == Head(acks)
<1>1. /\ acks # <<>> /\ acks' = Tail(acks)
      /\ UNCHANGED <<stanzas, done, senderKeys, buffering, held, messageStore, dropped, early, met>>
    BY DEF AckSettled
<1>2. \/ /\ Parts(stanzas[n].kind) = <<>> /\ unread' = unread \cup {n} /\ phase' = [phase EXCEPT ![n] = "done"]
         /\ UNCHANGED waiting
      \/ /\ Parts(stanzas[n].kind) # <<>> /\ waiting' = [waiting EXCEPT ![MutexOf(n, 1)] = Append(@, n)]
         /\ phase' = [phase EXCEPT ![n] = "decrypting"] /\ UNCHANGED unread
    BY DEF AckSettled
<1>3. /\ n \in DOMAIN stanzas /\ n \in Numbers /\ phase[n] = "acking" /\ done[n] = 0
      /\ n = Len(stanzas) - Len(acks) + 1 /\ Tail(acks) \in Seq(Numbers)
      /\ Len(Tail(acks)) = Len(acks) - 1 /\ Len(acks) \in Nat \ {0} /\ Len(stanzas) \in Nat
      /\ \A i \in 1 .. Len(acks) - 1 : Tail(acks)[i] = acks[i + 1]
      /\ DOMAIN stanzas \subseteq Numbers
    BY <1>1, AckIs
<1>4. \A k \in Numbers : k \in Int
    BY DEF Numbers
<1> HIDE DEF n
<1>5. phase'[n] \in {"done", "decrypting"} /\ \A k \in Numbers \ {n} : phase'[k] = phase[k]
    BY <1>2, <1>3 DEF ReceiveInv, ReceiveTyped
<1>6. OthersStay(n)
    BY <1>1, <1>5 DEF OthersStay
<1>7. Queued(waiting, n)
    BY <1>3, NobodyQueued DEF ReceiveInv
<1>8. stanzas[n] \in Stanzas /\ stanzas[n].kind \in Kinds
    <2>1. stanzas[n] \in Stanzas
        BY <1>3, ElementOfSeq DEF ReceiveInv, ReceiveTyped
    <2> QED BY <2>1 DEF Stanzas
<1>9. waiting' \in [Mutexes -> Seq(Numbers)] /\ WaitsOnce'
    <2>1. CASE UNCHANGED waiting
        <3>1. Queued(waiting', n)
            BY <2>1, <1>7 DEF Queued
        <3> QED BY <1>3, <1>6, <3>1, QueuedStays DEF Queued
    <2>2. CASE Parts(stanzas[n].kind) # <<>> /\ waiting' = [waiting EXCEPT ![MutexOf(n, 1)] = Append(@, n)] /\ phase'[n] = "decrypting"
        <3>1. Len(Parts(stanzas[n].kind)) > 0
            BY <2>2, <1>8, PartsAre DEF PartsRight
        <3>2. Waits(phase', done', stanzas', n, MutexOf(n, 1))
            <4>1. done'[n] = 0 /\ done'[n] + 1 = 1 /\ stanzas' = stanzas
                BY <1>1, <1>3
            <4>2. MutexOf(n, 1) = <<IF Parts(stanzas[n].kind)[1] = "session" THEN "session" ELSE "sender key", stanzas[n].author>>
                BY DEF MutexOf
            <4> QED BY <2>2, <3>1, <4>1, <4>2 DEF Waits
        <3>3. MutexOf(n, 1) \in Mutexes
            BY <1>3, MutexIs DEF ReceiveInv, ReceiveTyped
        <3>4. PICK m0 \in Mutexes : waiting' = [waiting EXCEPT ![m0] = Append(@, n)] /\ Waits(phase', done', stanzas', n, m0)
            BY <2>2, <3>2, <3>3
        <3> QED BY <1>3, <1>6, <1>7, <3>4, QueuedMore
    <2> QED BY <1>2, <2>1, <2>2, <1>3 DEF ReceiveInv, ReceiveTyped
<1>10. ReceiveTyped'
    <2>1. phase' \in [Numbers -> Phases]
        <3>1. phase \in [Numbers -> Phases] /\ "done" \in Phases /\ "decrypting" \in Phases
            BY DEF ReceiveInv, ReceiveTyped, Phases
        <3> QED BY <1>2, <3>1
    <2>2. acks' \in Seq(Numbers) /\ Len(acks') <= Len(stanzas') /\ unread' \subseteq DOMAIN stanzas'
        BY <1>1, <1>2, <1>3 DEF ReceiveInv, ReceiveTyped
    <2> QED BY <1>1, <1>9, <2>1, <2>2 DEF ReceiveInv, ReceiveTyped
<1>11. AcksInTurn'
    <2>1. \A i \in 1 .. Len(acks') : acks'[i] = Len(stanzas') - Len(acks') + i
        <3> SUFFICES ASSUME NEW i \in 1 .. Len(acks) - 1
                     PROVE  Tail(acks)[i] = Len(stanzas) - (Len(acks) - 1) + i
            BY <1>1, <1>3
        <3>1. i + 1 \in 1 .. Len(acks) /\ Tail(acks)[i] = acks[i + 1]
            BY <1>3
        <3>2. acks[i + 1] = Len(stanzas) - Len(acks) + (i + 1)
            BY <3>1 DEF ReceiveInv, AcksInTurn
        <3> QED BY <3>1, <3>2, <1>3
    <2>2. ASSUME NEW k \in Numbers
          PROVE  /\ phase'[k] = "none" <=> k > Len(stanzas')
                 /\ phase'[k] = "acking" <=> k <= Len(stanzas') /\ k > Len(stanzas') - Len(acks')
                 /\ phase'[k] \in {"none", "acking"} => done'[k] = 0
        <3>1. CASE k = n
            BY <3>1, <1>1, <1>3, <1>4, <1>5
        <3>2. CASE k # n
            <4>1. /\ phase[k] = "none" <=> k > Len(stanzas)
                  /\ phase[k] = "acking" <=> k <= Len(stanzas) /\ k > Len(stanzas) - Len(acks)
                  /\ phase[k] \in {"none", "acking"} => done[k] = 0
                BY DEF ReceiveInv, AcksInTurn
            <4>2. phase'[k] = phase[k] /\ Len(acks') = Len(acks) - 1 /\ UNCHANGED <<stanzas, done>> /\ k \in Int /\ n \in Int
                BY <1>1, <1>3, <1>4, <1>5, <3>2
            <4>3. k > Len(stanzas) - Len(acks) <=> k > Len(stanzas) - (Len(acks) - 1)
                BY <3>2, <1>3, <4>2
            <4> QED BY <4>1, <4>2, <4>3
        <3> QED BY <3>1, <3>2
    <2> QED BY <2>1, <2>2 DEF AcksInTurn
<1>12. MetInHand'
    BY <1>1, <1>3, <1>5, MetStays DEF ReceiveInv
<1>13. HandledIsKept'
    BY <1>1, <1>2, <1>3, <1>5 DEF ReceiveInv, HandledIsKept, ReceiveTyped
<1>14. VotesLookBack' /\ VotesRight' /\ KeysRight'
    BY <1>1, <1>2 DEF ReceiveInv, VotesLookBack, VotesRight, KeysRight
<1>15. UnreadRight'
    <2>1. \A k \in DOMAIN stanzas : (KeysLater(k) <=> KeysLater(k)') /\ (Overtaken(k) <=> Overtaken(k)')
        BY <1>1 DEF KeysLater, Overtaken
    <2>2. Parts(stanzas[n].kind) = <<>> => stanzas[n].kind \notin {"keyed", "group"}
        BY <1>8, PartsAre DEF PartsRight
    <2> QED BY <1>1, <1>2, <2>1, <2>2 DEF ReceiveInv, UnreadRight, ReceiveTyped
<1> QED BY <1>9, <1>10, <1>11, <1>12, <1>13, <1>14, <1>15 DEF ReceiveInv

\* KeysStored keeps it: the share is in the store already, or held back.
LEMMA StoredRight ==
    ASSUME ReceiveInv, NEW n \in Numbers, NEW ok, KeysStored(n, ok)
    PROVE  ReceiveInv'
<1>1. /\ phase[n] = "storing" /\ phase' = [phase EXCEPT ![n] = "done"]
      /\ UNCHANGED <<stanzas, acks, waiting, done, unread, senderKeys, buffering, held, messageStore, dropped, early, met>>
    BY DEF KeysStored
<1>2. phase'[n] = "done" /\ \A k \in Numbers \ {n} : phase'[k] = phase[k]
    BY <1>1 DEF ReceiveInv, ReceiveTyped
<1>3. ReceiveTyped'
    <2>1. phase \in [Numbers -> Phases] /\ "done" \in Phases
        BY DEF ReceiveInv, ReceiveTyped, Phases
    <2>2. phase' \in [Numbers -> Phases]
        BY <1>1, <2>1
    <2> QED BY <1>1, <2>2 DEF ReceiveInv, ReceiveTyped
<1>4. \A k \in Numbers : k # n => phase'[k] = phase[k]
    BY <1>2
<1>5. AcksInTurn'
    BY <1>1, <1>2, <1>4 DEF ReceiveInv, AcksInTurn
<1>6. OthersStay(n) /\ Queued(waiting', n)
    <2>1. Queued(waiting, n)
        BY <1>1, NobodyQueued DEF ReceiveInv
    <2> QED BY <1>1, <1>2, <2>1 DEF OthersStay
<1>7. WaitsOnce'
    BY <1>6, QueuedStays
<1>8. DOMAIN stanzas \subseteq Numbers
    BY ReceiveAssumption DEF ReceiveInv, ReceiveTyped, Numbers
<1>9. MetInHand'
    BY <1>1, <1>2, <1>8, MetStays DEF ReceiveInv
<1>10. HandledIsKept'
    <2>1. \A k \in DOMAIN stanzas : phase'[k] \in {"storing", "done"} => phase[k] \in {"storing", "done"}
        BY <1>1, <1>4, <1>8
    <2>2. \A k \in unread \cup dropped : phase'[k] = "done"
        BY <1>2, <1>8 DEF ReceiveInv, HandledIsKept, ReceiveTyped
    <2> QED BY <1>1, <2>1, <2>2 DEF ReceiveInv, HandledIsKept
<1>11. VotesLookBack' /\ VotesRight' /\ KeysRight' /\ UnreadRight'
    BY <1>1, SameUnread DEF ReceiveInv, VotesLookBack, VotesRight, KeysRight
<1> QED BY <1>3, <1>5, <1>7, <1>9, <1>10, <1>11 DEF ReceiveInv

\* FlushEvents keeps it: what was held back is stored.
LEMMA FlushRight ==
    ASSUME ReceiveInv, FlushEvents
    PROVE  ReceiveInv'
<1>1. /\ buffering' = FALSE /\ messageStore' = messageStore \cup held /\ held' = {}
      /\ UNCHANGED <<stanzas, acks, waiting, done, phase, unread, senderKeys, upserts, dropped, early, met>>
    BY DEF FlushEvents, Flushed
<1>2. ReceiveTyped'
    BY <1>1 DEF ReceiveInv, ReceiveTyped
<1>3. AcksInTurn' /\ WaitsOnce' /\ MetInHand' /\ VotesLookBack'
    BY <1>1 DEF ReceiveInv, AcksInTurn, WaitsOnce, WaitsFor, MetInHand, VotesLookBack
<1>4. HandledIsKept'
    BY <1>1 DEF ReceiveInv, HandledIsKept
<1>5. VotesRight' /\ KeysRight' /\ UnreadRight'
    BY <1>1, SameUnread DEF ReceiveInv, VotesRight, KeysRight
<1> QED BY <1>2, <1>3, <1>4, <1>5 DEF ReceiveInv

\* The stanza whose part is tried, and what comes after that part.
SectionOf(n, m, ok, w, tried) ==
    /\ n \in DOMAIN stanzas /\ n \in Numbers /\ Waits(phase, done, stanzas, n, m) /\ Queued(w, n)
    /\ tried \in Nat /\ tried > done[n] /\ stanzas[n].kind \in Kinds /\ stanzas[n].author \in Authors
    /\ LET parts == Parts(stanzas[n].kind)
           part == parts[done[n] + 1]
       IN /\ stanzas[n].kind \in {"keyed", "group"} /\ tried >= Len(parts) => ok = CanRead(n)
          /\ part = "key" => stanzas[n].kind = "keyed" /\ tried < Len(parts)
          /\ senderKeys' = IF part = "key" /\ ok THEN [senderKeys EXCEPT ![stanzas[n].author] = <<n>> \o @] ELSE senderKeys
          /\ done' = [done EXCEPT ![n] = tried]
          /\ IF tried < Len(parts)
             THEN /\ waiting' = [w EXCEPT ![MutexOf(n, tried + 1)] = Append(@, n)]
                  /\ UNCHANGED <<phase, unread, upserts, held, messageStore, dropped, early>>
             ELSE /\ waiting' = w
                  /\ Emitted(n)
                  /\ unread' = IF ok THEN unread ELSE unread \cup {n}
                  /\ IF ok THEN Listened(n) ELSE UNCHANGED <<held, messageStore>>
                  /\ Processed(n, ok)
          /\ UNCHANGED <<stanzas, acks, buffering, met>>

\* SectionEnds takes the next part of the head of a mutex: the key of a sender has come
\* with a stanza of its own, and the content is the last part of every stanza.
LEMMA SectionIs ==
    ASSUME ReceiveInv, NEW m \in Mutexes, NEW ok \in BOOLEAN, SectionEnds(m, ok)
    PROVE  \E n, w, tried : SectionOf(n, m, ok, w, tried)
<1> DEFINE n == Head(waiting[m])
           parts == Parts(stanzas[n].kind)
           part == parts[done[n] + 1]
           tried == done[n] + IF part = "session" /\ ~ok /\ stanzas[n].kind = "keyed" THEN 2 ELSE 1
           w == [waiting EXCEPT ![m] = Unlocked(m)]
<1>1. /\ waiting[m] # <<>>
      /\ done[n] < Len(parts)
      /\ part = "chain" => ok = CanRead(n)
      /\ senderKeys' = IF part = "key" /\ ok THEN [senderKeys EXCEPT ![m[2]] = <<n>> \o @] ELSE senderKeys
      /\ done' = [done EXCEPT ![n] = tried]
      /\ IF tried < Len(parts)
         THEN /\ waiting' = [w EXCEPT ![MutexOf(n, tried + 1)] = Append(@, n)]
              /\ UNCHANGED <<phase, unread, upserts, held, messageStore, dropped, early>>
         ELSE /\ waiting' = w
              /\ Emitted(n)
              /\ unread' = IF ok THEN unread ELSE unread \cup {n}
              /\ IF ok THEN Listened(n) ELSE UNCHANGED <<held, messageStore>>
              /\ Processed(n, ok)
      /\ UNCHANGED <<stanzas, acks, buffering, met>>
    BY DEF SectionEnds
<1>2. Queued(w, n) /\ Waits(phase, done, stanzas, n, m) /\ n \in Numbers
    BY <1>1, HeadLeaves DEF ReceiveInv
<1> HIDE DEF n, w
<1>3. n \in DOMAIN stanzas
    <2>1. phase[n] # "none" /\ n \in Int /\ n >= 1 /\ Len(stanzas) \in Nat /\ DOMAIN stanzas = 1 .. Len(stanzas)
        <3>1. phase[n] # "none"
            BY <1>2 DEF Waits
        <3>2. n \in Int /\ n >= 1
            BY <1>2, ReceiveAssumption DEF Numbers
        <3>3. stanzas \in Seq(Stanzas)
            BY DEF ReceiveInv, ReceiveTyped
        <3> QED BY <3>1, <3>2, <3>3, LenProperties
    <2>2. n <= Len(stanzas)
        BY <1>2, <2>1 DEF ReceiveInv, AcksInTurn
    <2> QED BY <2>1, <2>2
<1>4. stanzas[n].kind \in Kinds /\ stanzas[n].author \in Authors
    <2>1. stanzas[n] \in Stanzas
        BY <1>3, ElementOfSeq DEF ReceiveInv, ReceiveTyped
    <2> QED BY <2>1 DEF Stanzas
<1>5. m[2] = stanzas[n].author
    BY <1>2 DEF Waits
<1>6. done[n] \in Nat
    BY <1>2 DEF ReceiveInv, ReceiveTyped
<1>7. tried \in Nat /\ tried > done[n]
    BY <1>6
<1>8. PartsRight(stanzas[n].kind)
    BY <1>4, PartsAre
<1>9. ASSUME stanzas[n].kind = "keyed"
      PROVE  /\ tried >= Len(parts) => part = "chain"
             /\ part = "key" => tried < Len(parts)
    <2>1. Len(parts) = 3 /\ parts[1] = "session" /\ parts[2] = "key" /\ parts[3] = "chain" /\ done[n] \in {0, 1, 2}
        BY <1>1, <1>6, <1>8, <1>9 DEF PartsRight
    <2>2. CASE done[n] = 0
        <3>1. part = "session" /\ tried <= 2
            BY <2>1, <2>2
        <3> QED BY <3>1, <2>1, <2>2, <1>7
    <2>3. CASE done[n] = 1
        <3>1. part = "key" /\ tried = 2
            BY <2>1, <2>3
        <3> QED BY <3>1, <2>1
    <2>4. CASE done[n] = 2
        <3>1. part = "chain"
            BY <2>1, <2>4
        <3> QED BY <3>1
    <2> QED BY <2>1, <2>2, <2>3, <2>4
<1>10. ASSUME stanzas[n].kind # "keyed"
       PROVE  part # "key" /\ (stanzas[n].kind = "group" => part = "chain")
    <2>1. Len(parts) = 1 /\ done[n] = 0
        BY <1>1, <1>6, <1>8, <1>10 DEF PartsRight
    <2>2. part = parts[1]
        BY <2>1
    <2>3. parts[1] \in {"session", "chain"} /\ (stanzas[n].kind = "group" => parts[1] = "chain")
        BY <1>8, <1>10, <2>1 DEF PartsRight
    <2> QED BY <2>2, <2>3
<1>11. part = "key" => stanzas[n].kind = "keyed" /\ tried < Len(parts)
    BY <1>9, <1>10
<1>12. stanzas[n].kind \in {"keyed", "group"} /\ tried >= Len(parts) => ok = CanRead(n)
    BY <1>1, <1>9, <1>10
<1> HIDE DEF tried
<1>13. SectionOf(n, m, ok, w, tried)
    BY <1>1, <1>2, <1>3, <1>4, <1>5, <1>7, <1>11, <1>12 DEF SectionOf
<1> QED BY <1>13

\* A new sender key in front of the record: what is unread and older was handled at the
\* same time as the stanza that brought the key.
LEMMA KeyComes ==
    ASSUME ReceiveInv, NEW n \in DOMAIN stanzas, phase[n] # "done", stanzas[n].kind = "keyed",
           stanzas[n].author \in Authors, UNCHANGED <<stanzas, met, unread>>,
           senderKeys' = [senderKeys EXCEPT ![stanzas[n].author] = <<n>> \o @]
    PROVE  senderKeys' \in [Authors -> Seq(DOMAIN stanzas)] /\ KeysRight' /\ UnreadRight'
<1> DEFINE a == stanzas[n].author
           old == senderKeys[a]
<1>1. old \in Seq(DOMAIN stanzas) /\ Len(old) \in Nat
    BY DEF ReceiveInv, ReceiveTyped
<1>2. /\ senderKeys'[a] \in Seq(DOMAIN stanzas) /\ Len(senderKeys'[a]) = Len(old) + 1
      /\ senderKeys'[a][1] = n /\ \A i \in 2 .. Len(old) + 1 : senderKeys'[a][i] = old[i - 1]
    <2>1. <<n>> \in Seq(DOMAIN stanzas) /\ Len(<<n>>) = 1 /\ <<n>>[1] = n
        OBVIOUS
    <2>2. senderKeys'[a] = <<n>> \o old
        BY DEF ReceiveInv, ReceiveTyped
    <2> HIDE DEF old
    <2> DEFINE new == <<n>> \o old
    <2>3. new \in Seq(DOMAIN stanzas) /\ Len(new) = Len(<<n>>) + Len(old)
        BY <1>1, <2>1, ConcatProperties
    <2>4. \A i \in 1 .. Len(<<n>>) + Len(old) :
              new[i] = IF i <= Len(<<n>>) THEN <<n>>[i] ELSE old[i - Len(<<n>>)]
        BY <1>1, <2>1, ConcatProperties
    <2> HIDE DEF new
    <2>5. new[1] = n
        BY <1>1, <2>1, <2>4
    <2>6. \A i \in 2 .. Len(old) + 1 : new[i] = old[i - 1]
        BY <1>1, <2>1, <2>4
    <2>7. senderKeys'[a] = new
        BY <2>2 DEF new
    <2>8. Len(new) = Len(old) + 1
        BY <1>1, <2>1, <2>3
    <2> QED BY <2>3, <2>5, <2>6, <2>7, <2>8
<1>3. \A b \in Authors \ {a} : senderKeys'[b] = senderKeys[b]
    BY DEF ReceiveInv, ReceiveTyped
<1>4. senderKeys' \in [Authors -> Seq(DOMAIN stanzas)]
    BY <1>2 DEF ReceiveInv, ReceiveTyped
<1>5. KeysRight'
    <2> SUFFICES ASSUME NEW b \in Authors, NEW i \in 1 .. Len(senderKeys'[b])
                 PROVE  stanzas'[senderKeys'[b][i]].kind = "keyed" /\ stanzas'[senderKeys'[b][i]].author = b
        BY Zenon DEF KeysRight
    <2>1. CASE b # a
        BY <2>1, <1>3 DEF ReceiveInv, KeysRight
    <2>2. CASE b = a /\ i = 1
        BY <2>2, <1>2
    <2>3. CASE b = a /\ i # 1
        <3>1. i - 1 \in 1 .. Len(old) /\ senderKeys'[b][i] = old[i - 1]
            BY <2>3, <1>1, <1>2
        <3> QED BY <3>1, <2>3 DEF ReceiveInv, KeysRight
    <2> QED BY <2>1, <2>2, <2>3
<1>6. UnreadRight'
    <2> SUFFICES ASSUME NEW k \in unread, stanzas[k].kind \in {"keyed", "group"}
                 PROVE  (KeysLater(k) \/ Overtaken(k))'
        BY DEF UnreadRight
    <2>1. /\ k \in DOMAIN stanzas /\ (KeysLater(k) \/ Overtaken(k)) /\ phase[k] = "done"
          /\ k \in Nat /\ n \in Nat
        BY DEF ReceiveInv, UnreadRight, ReceiveTyped, HandledIsKept
    <2>2. Overtaken(k) => Overtaken(k)'
        BY DEF Overtaken
    <2>3. CASE n < k /\ stanzas[k].author = a
        <3>1. {n, k} \in met
            BY <2>1, <2>3 DEF ReceiveInv, MetInHand
        <3> QED BY <3>1, <2>3, <2>1 DEF Overtaken
    <2>4. CASE n > k /\ KeysLater(k) /\ stanzas[k].author = a
        <3>1. ASSUME NEW i \in 1 .. Len(senderKeys'[a]) PROVE senderKeys'[a][i] > k
            <4>1. CASE i = 1
                BY <4>1, <2>4, <1>2
            <4>2. CASE i # 1
                <5>1. i - 1 \in 1 .. Len(old) /\ senderKeys'[a][i] = old[i - 1]
                    BY <4>2, <1>1, <1>2
                <5> QED BY <5>1, <2>4 DEF KeysLater
            <4> QED BY <4>1, <4>2
        <3> QED BY <3>1, <2>4 DEF KeysLater
    <2>5. CASE stanzas[k].author # a /\ KeysLater(k)
        <3>1. stanzas[k].author \in Authors
            <4>1. stanzas[k] \in Stanzas
                BY <2>1, ElementOfSeq DEF ReceiveInv, ReceiveTyped
            <4> QED BY <4>1 DEF Stanzas
        <3> QED BY <2>5, <1>3, <3>1 DEF KeysLater
    <2>6. n # k
        BY <2>1
    <2> QED BY <2>1, <2>2, <2>3, <2>4, <2>5, <2>6
<1> QED BY <1>4, <1>5, <1>6

\* A section with a part left: the handler queues for the mutex of that part.
LEMMA SectionGoesOn ==
    ASSUME ReceiveInv, NEW n, NEW m, NEW ok \in BOOLEAN, NEW w, NEW tried, SectionOf(n, m, ok, w, tried),
           tried < Len(Parts(stanzas[n].kind))
    PROVE  ReceiveInv'
<1>1. /\ n \in DOMAIN stanzas /\ n \in Numbers /\ phase[n] = "decrypting" /\ Queued(w, n)
      /\ tried \in Nat /\ stanzas[n].kind \in Kinds /\ stanzas[n].author \in Authors
      /\ done' = [done EXCEPT ![n] = tried]
      /\ waiting' = [w EXCEPT ![MutexOf(n, tried + 1)] = Append(@, n)]
      /\ UNCHANGED <<stanzas, acks, buffering, met, phase, unread, upserts, held, messageStore, dropped, early>>
    BY DEF SectionOf, Waits
<1>2. \/ UNCHANGED senderKeys
      \/ stanzas[n].kind = "keyed" /\ senderKeys' = [senderKeys EXCEPT ![stanzas[n].author] = <<n>> \o @]
    BY DEF SectionOf
<1>3. done'[n] = tried /\ done' \in [Numbers -> Nat] /\ \A k \in Numbers \ {n} : done'[k] = done[k]
    BY <1>1 DEF ReceiveInv, ReceiveTyped
<1>4. OthersStay(n)
    BY <1>1, <1>3 DEF OthersStay
<1>5. waiting' \in [Mutexes -> Seq(Numbers)] /\ WaitsOnce'
    <2>1. MutexOf(n, tried + 1) \in Mutexes
        BY <1>1, MutexIs DEF ReceiveInv, ReceiveTyped
    <2>2. Waits(phase', done', stanzas', n, MutexOf(n, tried + 1))
        <3>1. MutexOf(n, tried + 1) =
                  <<IF Parts(stanzas[n].kind)[tried + 1] = "session" THEN "session" ELSE "sender key", stanzas[n].author>>
            BY DEF MutexOf
        <3> QED BY <1>1, <1>3, <3>1 DEF Waits
    <2> DEFINE m0 == MutexOf(n, tried + 1)
    <2>3. m0 \in Mutexes /\ waiting' = [w EXCEPT ![m0] = Append(@, n)] /\ Waits(phase', done', stanzas', n, m0)
        BY <1>1, <2>1, <2>2
    <2>4. n \in Numbers /\ Queued(w, n)
        BY <1>1
    <2> HIDE DEF m0
    <2> QED BY <1>4, <2>3, <2>4, QueuedMore
<1>6. senderKeys' \in [Authors -> Seq(DOMAIN stanzas)] /\ KeysRight' /\ UnreadRight'
    <2>1. CASE UNCHANGED senderKeys
        <3>1. senderKeys \in [Authors -> Seq(DOMAIN stanzas)] /\ KeysRight /\ UnreadRight
            BY DEF ReceiveInv, ReceiveTyped
        <3>2. UnreadRight'
            BY <1>1, <2>1, <3>1, SameUnread
        <3>3. KeysRight'
            BY <1>1, <2>1, <3>1 DEF KeysRight
        <3> QED BY <2>1, <3>1, <3>2, <3>3
    <2>2. CASE stanzas[n].kind = "keyed" /\ senderKeys' = [senderKeys EXCEPT ![stanzas[n].author] = <<n>> \o @]
        BY <2>2, <1>1, KeyComes
    <2> QED BY <1>2, <2>1, <2>2
<1>7. ReceiveTyped'
    BY <1>1, <1>3, <1>5, <1>6 DEF ReceiveInv, ReceiveTyped
<1>8. AcksInTurn'
    <2>1. \A k \in Numbers : phase[k] \in {"none", "acking"} => done'[k] = 0
        BY <1>1, <1>3 DEF ReceiveInv, AcksInTurn
    <2> QED BY <1>1, <2>1 DEF ReceiveInv, AcksInTurn
<1>9. MetInHand' /\ HandledIsKept' /\ VotesLookBack' /\ VotesRight'
    BY <1>1 DEF ReceiveInv, MetInHand, HandledIsKept, VotesLookBack, VotesRight
<1> QED BY <1>5, <1>6, <1>7, <1>8, <1>9 DEF ReceiveInv

\* The last section: the stanza is emitted, stored or held back, and its vote is looked
\* at.
LEMMA LastSection ==
    ASSUME ReceiveInv, NEW n, NEW m, NEW ok \in BOOLEAN, NEW w, NEW tried, SectionOf(n, m, ok, w, tried),
           tried >= Len(Parts(stanzas[n].kind))
    PROVE  ReceiveInv'
<1>1. /\ n \in DOMAIN stanzas /\ n \in Numbers /\ phase[n] = "decrypting" /\ Queued(w, n)
      /\ tried \in Nat /\ stanzas[n].kind \in Kinds /\ stanzas[n].author \in Authors
      /\ done' = [done EXCEPT ![n] = tried]
      /\ UNCHANGED <<stanzas, acks, buffering, met>>
      /\ stanzas[n].kind \in {"keyed", "group"} => ok = CanRead(n)
    BY DEF SectionOf, Waits
<1>2. PartsRight(stanzas[n].kind)
    BY <1>1, PartsAre
<1>3. ~(tried < Len(Parts(stanzas[n].kind)))
    BY <1>1, <1>2 DEF PartsRight
<1>4. /\ waiting' = w /\ UNCHANGED senderKeys
      /\ unread' = IF ok THEN unread ELSE unread \cup {n}
      /\ IF ok THEN Listened(n) ELSE UNCHANGED <<held, messageStore>>
      /\ Processed(n, ok)
    BY <1>3 DEF SectionOf
<1>5. /\ phase' = [phase EXCEPT ![n] = IF ok /\ stanzas[n].kind = "share" THEN "storing" ELSE "done"]
      /\ dropped \subseteq dropped' /\ dropped' \subseteq dropped \cup {n} /\ early \subseteq early'
      /\ n \in dropped' \ dropped =>
            /\ ok /\ stanzas[n].kind = "vote" /\ stanzas[n].poll \notin messageStore
            /\ buffering => n \in early'
    BY <1>4 DEF Processed
<1>6. /\ held \subseteq held' /\ messageStore \subseteq messageStore'
      /\ ok => n \in held' \cup messageStore'
      /\ held' # {} => buffering
    BY <1>4 DEF Listened, ReceiveInv, HandledIsKept
<1>7. DOMAIN stanzas \subseteq Numbers /\ \A k \in Numbers : k \in Int
    BY ReceiveAssumption DEF ReceiveInv, ReceiveTyped, Numbers
<1>8. /\ phase'[n] \in {"storing", "done"} /\ \A k \in Numbers \ {n} : phase'[k] = phase[k]
      /\ (ok /\ stanzas[n].kind = "share") \/ phase'[n] = "done"
    BY <1>1, <1>5 DEF ReceiveInv, ReceiveTyped
<1>9. done' \in [Numbers -> Nat] /\ \A k \in Numbers \ {n} : done'[k] = done[k]
    BY <1>1 DEF ReceiveInv, ReceiveTyped
<1>10. WaitsOnce' /\ waiting' \in [Mutexes -> Seq(Numbers)]
    <2>1. OthersStay(n)
        BY <1>1, <1>8, <1>9 DEF OthersStay
    <2>2. Queued(waiting', n)
        BY <1>1, <1>4
    <2> QED BY <1>1, <2>1, <2>2, QueuedStays DEF Queued
<1>11. ReceiveTyped'
    <2>1. phase \in [Numbers -> Phases] /\ "done" \in Phases /\ "storing" \in Phases
        BY DEF ReceiveInv, ReceiveTyped, Phases
    <2>2. phase' \in [Numbers -> Phases]
        BY <1>5, <2>1
    <2>3. unread' \subseteq DOMAIN stanzas /\ dropped' \subseteq DOMAIN stanzas
        BY <1>1, <1>4, <1>5 DEF ReceiveInv, ReceiveTyped
    <2> QED BY <1>1, <1>4, <1>9, <1>10, <2>2, <2>3 DEF ReceiveInv, ReceiveTyped
<1>12. AcksInTurn'
    <2>1. ASSUME NEW k \in Numbers
          PROVE  /\ phase'[k] = "none" <=> k > Len(stanzas)
                 /\ phase'[k] = "acking" <=> k <= Len(stanzas) /\ k > Len(stanzas) - Len(acks)
                 /\ phase'[k] \in {"none", "acking"} => done'[k] = 0
        <3>1. CASE k = n
            BY <3>1, <1>1, <1>8 DEF ReceiveInv, AcksInTurn
        <3>2. CASE k # n
            BY <3>2, <1>8, <1>9 DEF ReceiveInv, AcksInTurn
        <3> QED BY <3>1, <3>2
    <2> QED BY <1>1, <2>1 DEF ReceiveInv, AcksInTurn
<1>13. MetInHand'
    <2>1. \A k \in DOMAIN stanzas : phase[k] = "done" => phase'[k] = "done"
        BY <1>1, <1>7, <1>8
    <2> QED BY <1>1, <2>1, MetStays DEF ReceiveInv
<1>14. HandledIsKept'
    <2>1. ASSUME NEW k \in DOMAIN stanzas, phase'[k] \in {"storing", "done"}
          PROVE  k \in unread' \cup messageStore' \cup held'
        <3>1. CASE k = n
            BY <3>1, <1>4, <1>6
        <3>2. CASE k # n
            <4>1. k \in unread \cup messageStore \cup held
                BY <2>1, <3>2, <1>7, <1>8 DEF ReceiveInv, HandledIsKept
            <4> QED BY <4>1, <1>4, <1>6
        <3> QED BY <3>1, <3>2
    <2>2. ASSUME NEW k \in unread' \cup dropped'
          PROVE  phase'[k] = "done"
        <3>1. CASE k \in unread \cup dropped
            <4>1. phase[k] = "done" /\ k # n /\ k \in Numbers
                BY <3>1, <1>1, <1>7 DEF ReceiveInv, HandledIsKept, ReceiveTyped
            <4> QED BY <4>1, <1>8
        <3>2. CASE k \notin unread \cup dropped
            <4>1. k = n /\ (~ok \/ stanzas[n].kind = "vote")
                BY <2>2, <3>2, <1>4, <1>5
            <4> QED BY <4>1, <1>8
        <3> QED BY <3>1, <3>2
    <2> QED BY <1>1, <1>6, <2>1, <2>2 DEF HandledIsKept
<1>15. VotesRight'
    <2> SUFFICES ASSUME NEW k \in dropped'
                 PROVE  stanzas[k].poll \in unread' \/ {stanzas[k].poll, k} \in met \/ k \in early'
        BY <1>1 DEF VotesRight
    <2>1. CASE k \in dropped
        BY <2>1, <1>4, <1>5 DEF ReceiveInv, VotesRight
    <2>2. CASE k \notin dropped
        <3>1. /\ k = n /\ stanzas[n].kind = "vote" /\ stanzas[n].poll \notin messageStore
              /\ buffering => n \in early'
            BY <2>2, <1>5
        <3>2. stanzas[n].poll \in 1 .. n - 1
            BY <1>1, <3>1 DEF ReceiveInv, VotesLookBack
        <3>3. stanzas[n].poll \in DOMAIN stanzas /\ stanzas[n].poll < n
            BY <1>1, <1>7, <3>2 DEF ReceiveInv, ReceiveTyped
        <3>4. CASE phase[stanzas[n].poll] # "done"
            BY <1>1, <3>1, <3>3, <3>4 DEF ReceiveInv, MetInHand
        <3>5. CASE phase[stanzas[n].poll] = "done"
            <4>1. stanzas[n].poll \in unread \cup held /\ (held # {} => buffering)
                BY <3>1, <3>3, <3>5 DEF ReceiveInv, HandledIsKept
            <4> QED BY <3>1, <4>1, <1>4
        <3> QED BY <3>4, <3>5
    <2> QED BY <2>1, <2>2
<1>16. VotesLookBack' /\ KeysRight'
    BY <1>1, <1>4 DEF ReceiveInv, VotesLookBack, KeysRight
<1>17. UnreadRight'
    <2>1. \A k : (KeysLater(k) => KeysLater(k)') /\ (Overtaken(k) => Overtaken(k)')
        BY <1>1, <1>4 DEF KeysLater, Overtaken
    <2>2. ASSUME ~ok, stanzas[n].kind \in {"keyed", "group"}
          PROVE  KeysLater(n) \/ Overtaken(n)
        <3> DEFINE keys == senderKeys[stanzas[n].author]
        <3>1. keys \in Seq(DOMAIN stanzas) /\ Len(keys) \in Nat
            BY <1>1 DEF ReceiveInv, ReceiveTyped
        <3>2. keys = <<>> \/ ~(Head(keys) <= n)
            BY <1>1, <2>2 DEF CanRead
        <3>3. CASE keys = <<>>
            BY <3>3 DEF KeysLater
        <3>4. CASE keys # <<>>
            <4>1. Head(keys) = keys[1] /\ 1 \in 1 .. Len(keys) /\ keys[1] \in DOMAIN stanzas
                BY <3>1, <3>4, EmptySeq, ElementOfSeq
            <4>2. n < keys[1] /\ keys[1] # n
                BY <1>7, <1>1, <3>2, <3>4, <4>1
            <4>3. {n, keys[1]} \in met
                BY <1>1, <4>1, <4>2 DEF ReceiveInv, MetInHand
            <4>4. stanzas[keys[1]].kind = "keyed" /\ stanzas[keys[1]].author = stanzas[n].author
                BY <1>1, <4>1 DEF ReceiveInv, KeysRight
            <4>5. {keys[1], n} = {n, keys[1]}
                OBVIOUS
            <4> HIDE DEF keys
            <4> QED BY <4>1, <4>2, <4>3, <4>4, <4>5 DEF Overtaken
        <3> QED BY <3>3, <3>4
    <2> QED BY <1>1, <1>4, <2>1, <2>2 DEF ReceiveInv, UnreadRight
<1> QED BY <1>10, <1>11, <1>12, <1>13, <1>14, <1>15, <1>16, <1>17 DEF ReceiveInv

\* SectionEnds keeps the invariant.
LEMMA SectionRight ==
    ASSUME ReceiveInv, NEW m \in Mutexes, NEW ok \in BOOLEAN, SectionEnds(m, ok)
    PROVE  ReceiveInv'
<1>1. PICK n, w, tried : SectionOf(n, m, ok, w, tried)
    BY SectionIs
<1>2. tried \in Nat /\ PartsRight(stanzas[n].kind)
    BY <1>1, PartsAre DEF SectionOf
<1>3. Len(Parts(stanzas[n].kind)) \in Nat
    BY <1>2 DEF PartsRight
<1>4. tried < Len(Parts(stanzas[n].kind)) \/ tried >= Len(Parts(stanzas[n].kind))
    BY <1>2, <1>3
<1> QED BY <1>1, <1>4, SectionGoesOn, LastSection

\* Handlers are kept apart by nothing but the mutexes, and yet each stanza is in one
\* place: acknowledged in turn, in the queue of the one mutex its next part needs, and
\* kept, as unread, stored or held back, when it is done.  For any authors and any
\* number of stanzas.
THEOREM HandlersAreSound == ReceiveSpec => []ReceiveInv
<1>1. ReceiveInv /\ [ReceiveNext]_receiveVars => ReceiveInv'
    <2> SUFFICES ASSUME ReceiveInv, [ReceiveNext]_receiveVars PROVE ReceiveInv'
        OBVIOUS
    <2>1. CASE UNCHANGED receiveVars
        <3>1. ReceiveTyped' /\ AcksInTurn'
            BY <2>1 DEF receiveVars, ReceiveInv, ReceiveTyped, AcksInTurn
        <3>2. WaitsOnce' /\ MetInHand' /\ HandledIsKept'
            BY <2>1 DEF receiveVars, ReceiveInv, WaitsOnce, WaitsFor, MetInHand, HandledIsKept
        <3>3. VotesLookBack' /\ VotesRight' /\ KeysRight'
            BY <2>1 DEF receiveVars, ReceiveInv, VotesLookBack, VotesRight, KeysRight
        <3>4. UnreadRight'
            BY <2>1, SameUnread DEF receiveVars, ReceiveInv
        <3> QED BY <3>1, <3>2, <3>3, <3>4 DEF ReceiveInv
    <2>2. CASE \E kind \in Kinds, a \in Authors, poll \in Numbers \cup {NoStanza} : Arrives(kind, a, poll)
        BY <2>2, ArrivesRight
    <2>3. CASE AckSettled
        BY <2>3, AckSettledRight
    <2>4. CASE \E m \in Mutexes, ok \in BOOLEAN : SectionEnds(m, ok)
        BY <2>4, SectionRight
    <2>5. CASE \E n \in Numbers, ok \in BOOLEAN : KeysStored(n, ok)
        BY <2>5, StoredRight
    <2>6. CASE FlushEvents
        BY <2>6, FlushRight
    <2> QED BY <2>1, <2>2, <2>3, <2>4, <2>5, <2>6 DEF ReceiveNext
<1> QED BY <1>1, ReceiveStarts, PTL DEF ReceiveSpec

\* A group message that had its key stays unread only if another message with a key
\* was handled at the same time: the key in front of the record is then newer, and its
\* stanza was overtaken or overtook.
THEOREM UnreadWereOvertaken == ReceiveSpec => []UnreadOnlyIfOvertaken
<1>1. ReceiveInv => UnreadOnlyIfOvertaken
    <2> SUFFICES ASSUME ReceiveInv, NEW n \in unread, stanzas[n].kind \in {"keyed", "group"},
                        NEW i \in DOMAIN senderKeys[stanzas[n].author], senderKeys[stanzas[n].author][i] <= n
                 PROVE  \E k \in Numbers \ {n} :
                            {k, n} \in met /\ stanzas[k].kind = "keyed" /\ stanzas[k].author = stanzas[n].author
        BY DEF UnreadOnlyIfOvertaken
    <2>1. n \in DOMAIN stanzas /\ DOMAIN stanzas \subseteq Numbers /\ \A k \in Numbers : k \in Int
        <3>1. DOMAIN stanzas = 1 .. Len(stanzas) /\ Len(stanzas) \in Nat
            BY DEF ReceiveInv, ReceiveTyped
        <3>2. MaxStanzas \in Nat /\ Len(stanzas) <= MaxStanzas /\ n \in DOMAIN stanzas
            BY ReceiveAssumption DEF ReceiveInv, ReceiveTyped
        <3> QED BY <3>1, <3>2 DEF Numbers
    <2>2. stanzas[n].author \in Authors
        <3>1. stanzas[n] \in Stanzas
            BY <2>1, ElementOfSeq DEF ReceiveInv, ReceiveTyped
        <3> QED BY <3>1 DEF Stanzas
    <2>3. i \in 1 .. Len(senderKeys[stanzas[n].author]) /\ senderKeys[stanzas[n].author][i] \in DOMAIN stanzas
        BY <2>2, ElementOfSeq, LenProperties DEF ReceiveInv, ReceiveTyped
    <2>4. ~KeysLater(n)
        BY <2>1, <2>3 DEF KeysLater
    <2>5. Overtaken(n)
        BY <2>4 DEF ReceiveInv, UnreadRight
    <2> QED BY <2>1, <2>5 DEF Overtaken
<1> QED BY <1>1, HandlersAreSound, PTL

\* A vote whose poll could be read is counted, but for what was handled at the same
\* time or while events were held back.
THEOREM VotesAreCounted == ReceiveSpec => []VotesCounted
<1>1. ReceiveInv => VotesCounted
    BY DEF ReceiveInv, VotesRight, VotesCounted
<1> QED BY <1>1, HandlersAreSound, PTL

-----------------------------------------------------------------------------
(***************************************************************************)
(* Downloads.  Two counts run in step, though each is kept by code of its  *)
(* own: the blocks the cipher has worked through (next, less the one it    *)
(* withholds) and bytesFetched, by which pushBytes cuts.  The arithmetic   *)
(* is in whole blocks, of which products are compared.                     *)
(***************************************************************************)
\* A run of n positions from p on.
From(p, n) == [i \in 1 .. n |-> p + i - 1]

\* The greater of a number and zero.
LEMMA MaxZero ==
    ASSUME NEW n \in Int
    PROVE  Max({n, 0}) = IF n > 0 THEN n ELSE 0
<1> DEFINE m == IF n > 0 THEN n ELSE 0
<1>1. m \in {n, 0} /\ \A y \in {n, 0} : m >= y
    OBVIOUS
<1>2. \A x \in {n, 0} : (\A y \in {n, 0} : x >= y) => x = m
    OBVIOUS
<1> QED BY <1>1, <1>2 DEF Max

\* Positions are a run.
LEMMA PositionsAreFrom ==
    ASSUME NEW a \in Int, NEW b \in Int
    PROVE  Positions(a, b) = From(a, IF b > a THEN b - a ELSE 0)
<1>1. Max({b - a, 0}) = IF b > a THEN b - a ELSE 0
    BY MaxZero
<1> QED BY <1>1 DEF Positions, From

\* A run is a sequence of its length.
LEMMA FromIsSeq ==
    ASSUME NEW p \in Int, NEW n \in Nat
    PROVE  /\ From(p, n) \in Seq(Int) /\ Len(From(p, n)) = n
           /\ \A i \in 1 .. n : From(p, n)[i] = p + i - 1
BY DEF From

\* Two runs, one after the other, and a part of a run: what the lemmas below say.
Joined(p, n, k) == From(p, n) \o From(p + n, k) = From(p, n + k)
Cut(p, n, a, b) == SubSeq(From(p, n), a + 1, b) = From(p + a, IF b > a THEN b - a ELSE 0)

\* A run followed by the next one.
LEMMA FromThenFrom ==
    ASSUME NEW p \in Int, NEW n \in Nat, NEW k \in Nat
    PROVE  Joined(p, n, k)
<1> DEFINE f == From(p, n)
           g == From(p + n, k)
           h == From(p, n + k)
<1>1. /\ f \in Seq(Int) /\ Len(f) = n /\ \A i \in 1 .. n : f[i] = p + i - 1
      /\ g \in Seq(Int) /\ Len(g) = k /\ \A i \in 1 .. k : g[i] = p + n + i - 1
      /\ h \in Seq(Int) /\ Len(h) = n + k /\ \A i \in 1 .. n + k : h[i] = p + i - 1
    BY FromIsSeq
<1> HIDE DEF f, g, h
<1>2. /\ f \o g \in Seq(Int) /\ Len(f \o g) = n + k
      /\ \A i \in 1 .. n + k : (f \o g)[i] = IF i <= n THEN f[i] ELSE g[i - n]
    <2>1. f \in Seq(Int) /\ g \in Seq(Int) /\ Len(f) = n /\ Len(g) = k
        BY <1>1
    <2>2. /\ f \o g \in Seq(Int) /\ Len(f \o g) = Len(f) + Len(g)
          /\ \A i \in 1 .. Len(f) + Len(g) : (f \o g)[i] = IF i <= Len(f) THEN f[i] ELSE g[i - Len(f)]
        BY <2>1, ConcatProperties
    <2> QED BY <2>1, <2>2
<1>3. \A i \in 1 .. n + k : (f \o g)[i] = h[i]
    <2> SUFFICES ASSUME NEW i \in 1 .. n + k
                 PROVE  (f \o g)[i] = h[i]
        OBVIOUS
    <2>1. CASE i <= n
        BY <1>1, <1>2, <2>1
    <2>2. CASE i > n
        <3>1. i - n \in 1 .. k
            BY <2>2
        <3>2. g[i - n] = p + n + (i - n) - 1 /\ h[i] = p + i - 1
            BY <1>1, <3>1
        <3>3. (f \o g)[i] = IF i <= n THEN f[i] ELSE g[i - n]
            BY <1>2
        <3>4. (f \o g)[i] = g[i - n]
            BY <3>3, <2>2
        <3>5. p + n + (i - n) - 1 = p + i - 1
            OBVIOUS
        <3> QED BY <3>2, <3>4, <3>5, Zenon
    <2>3. i <= n \/ i > n
        OBVIOUS
    <2> QED BY <2>1, <2>2, <2>3, Zenon
<1>4. f \o g = h
    BY <1>1, <1>2, <1>3, SeqEqual
<1> QED BY <1>4 DEF f, g, h, Joined

\* A part of a run.
LEMMA PartOfFrom ==
    ASSUME NEW p \in Int, NEW n \in Nat, NEW a \in Nat, NEW b \in 0 .. n
    PROVE  Cut(p, n, a, b)
<1> DEFINE k == IF b > a THEN b - a ELSE 0
           f == From(p, n)
           g == SubSeq(f, a + 1, b)
           h == From(p + a, k)
<1>1. /\ f \in Seq(Int) /\ Len(f) = n /\ \A i \in 1 .. n : f[i] = p + i - 1
      /\ h \in Seq(Int) /\ Len(h) = k /\ \A i \in 1 .. k : h[i] = p + a + i - 1
    <2>1. k \in Nat /\ p + a \in Int
        OBVIOUS
    <2> HIDE DEF k
    <2> QED BY <2>1, FromIsSeq
<1> HIDE DEF f, h
<1>2. g \in Seq(Int) /\ Len(g) = k /\ \A i \in 1 .. k : g[i] = f[a + i]
    <2>1. CASE b > a
        BY <1>1, <2>1
    <2>2. CASE ~(b > a)
        BY <1>1, <2>2
    <2> QED BY <2>1, <2>2
<1>3. \A i \in 1 .. k : a + i \in 1 .. n
    OBVIOUS
<1>4. \A i \in 1 .. k : g[i] = h[i]
    BY <1>1, <1>2, <1>3
<1>5. g = h
    <2> HIDE DEF g, k
    <2> QED BY <1>1, <1>2, <1>4, SeqEqual
<1> QED BY <1>5 DEF f, g, h, Cut

\* What a caller has been given when the stream has come to position b.
Got(b) ==
    IF endByte = 0
    THEN IF startByte = 0 THEN From(0, b) ELSE <<>>
    ELSE From(startByte, LET to == IF b < endByte THEN b ELSE endByte IN IF to > startByte THEN to - startByte ELSE 0)

\* A range, and where the stream is.
Asked ==
    /\ file \in Nat /\ startByte \in Nat /\ endByte \in Nat /\ bytesFetched \in Nat
    /\ endByte = 0 \/ startByte <= endByte

\* Handing on a run that begins where the stream is.
LEMMA PushGoesOn ==
    ASSUME Asked, NEW n \in Nat
    PROVE  Got(bytesFetched) \o Pushed(From(bytesFetched, n)) = Got(bytesFetched + n)
<1> DEFINE b == bytesFetched
           f == From(b, n)
<1>1. /\ startByte \in Nat /\ endByte \in Nat /\ b \in Nat /\ (endByte = 0 \/ startByte <= endByte)
      /\ f \in Seq(Int) /\ Len(f) = n
    BY FromIsSeq DEF Asked
<1>2. CASE startByte = 0 /\ endByte = 0
    <2>1. From(0, b) \o From(0 + b, n) = From(0, b + n)
        <3>1. Joined(0, b, n)
            BY <1>1, FromThenFrom
        <3> QED BY <3>1 DEF Joined
    <2>2. Got(b) = From(0, b) /\ Got(b + n) = From(0, b + n) /\ Pushed(f) = f /\ 0 + b = b
        BY <1>1, <1>2 DEF Got, Pushed
    <2> QED BY <2>1, <2>2
<1>3. CASE startByte > 0 /\ endByte = 0
    <2>1. Got(b) = <<>> /\ Got(b + n) = <<>>
        BY <1>1, <1>3 DEF Got
    <2>2. PICK a \in Nat : Pushed(f) = Sliced(f, a, 0)
        <3> DEFINE a == IF bytesFetched >= startByte THEN 0 ELSE startByte - bytesFetched
        <3>1. a \in Nat /\ Pushed(f) = Sliced(f, a, 0)
            BY <1>1, <1>3 DEF Pushed
        <3> QED BY <3>1
    <2>3. Sliced(f, a, 0) = SubSeq(f, a + 1, 0)
        BY <1>1 DEF Sliced
    <2>4. SubSeq(f, a + 1, 0) = <<>>
        <3> HIDE DEF f
        <3> QED BY SubSeqEmpty
    <2> QED BY <2>1, <2>2, <2>3, <2>4
<1>4. CASE endByte > 0
    <2> DEFINE from == IF b >= startByte THEN 0 ELSE startByte - b
               rest == IF endByte > b THEN endByte - b ELSE 0
               to == IF rest < n THEN rest ELSE n
               had == LET e == IF b < endByte THEN b ELSE endByte IN IF e > startByte THEN e - startByte ELSE 0
               more == IF to > from THEN to - from ELSE 0
               has == LET e == IF b + n < endByte THEN b + n ELSE endByte IN IF e > startByte THEN e - startByte ELSE 0
    <2>1. Max({endByte - b, 0}) = rest
        BY <1>1, MaxZero
    <2>2. Pushed(f) = Sliced(f, from, IF b + n < endByte THEN n ELSE rest)
        BY <1>1, <1>4, <2>1 DEF Pushed
    <2>3. Sliced(f, from, IF b + n < endByte THEN n ELSE rest) = SubSeq(f, from + 1, to)
        BY <1>1 DEF Sliced
    <2>4. from \in Nat /\ to \in 0 .. n /\ had \in Nat /\ more \in Nat /\ has \in Nat
        BY <1>1
    <2>5. SubSeq(f, from + 1, to) = From(b + from, more)
        <3> HIDE DEF from, to, more
        <3>1. Cut(b, n, from, to)
            BY <1>1, <2>4, PartOfFrom
        <3> QED BY <3>1 DEF Cut, more
    <2>6. Got(b) = From(startByte, had) /\ Got(b + n) = From(startByte, has)
        BY <1>1, <1>4 DEF Got
    <2>7. has = had + more /\ (more = 0 \/ b + from = startByte + had)
        BY <1>1, <1>4
    <2>8. From(b + from, more) = From(startByte + had, more)
        <3>1. CASE more = 0
            <4> HIDE DEF more
            <4> QED BY <3>1 DEF From
        <3>2. CASE b + from = startByte + had
            <4> HIDE DEF from, had, more
            <4> QED BY <3>2
        <3> QED BY <2>7, <3>1, <3>2
    <2>9. From(startByte, had) \o From(startByte + had, more) = From(startByte, had + more)
        <3> HIDE DEF had, more
        <3>1. Joined(startByte, had, more)
            BY <1>1, <2>4, FromThenFrom
        <3> QED BY <3>1 DEF Joined
    <2>10. has = had + more
        BY <2>7
    <2>11. Pushed(f) = From(startByte + had, more)
        <3> HIDE DEF f, from, to, rest, had, more
        <3> QED BY <2>2, <2>3, <2>5, <2>8
    <2> HIDE DEF f, had, more, has
    <2> QED BY <2>6, <2>9, <2>10, <2>11, Zenon DEF f
<1> QED BY <1>1, <1>2, <1>3, <1>4

\* A block is not empty, and the MAC is less than a block.
LEMMA BlockIsPositive == Block \in Nat /\ Block > 0 /\ MacBytes \in Nat /\ MacBytes < Block
BY MediaAssumption

\* The whole blocks of a number of bytes.
LEMMA WholeBlocks ==
    ASSUME NEW n \in Nat
    PROVE  /\ n \div Block \in Nat /\ (n \div Block) * Block \in Nat
           /\ (n \div Block) * Block <= n /\ n < (n \div Block) * Block + Block
           /\ n % Block = n - (n \div Block) * Block
<1>1. Block \in Nat /\ Block > 0
    BY BlockIsPositive
<1>2. n \div Block \in Nat /\ n % Block \in 0 .. Block - 1
    BY <1>1
<1>3. n = (n \div Block) * Block + (n % Block)
    BY <1>1
<1>4. (n \div Block) * Block \in Nat
    BY <1>1, <1>2
<1> QED BY <1>1, <1>2, <1>3, <1>4

\* Bytes of blocks add up.
LEMMA BlocksAdd ==
    ASSUME NEW a \in Int, NEW b \in Int
    PROVE  /\ (a + b) * Block = a * Block + b * Block /\ (a - b) * Block = a * Block - b * Block
           /\ a * Block \in Int /\ 1 * Block = Block /\ 0 * Block = 0
BY BlockIsPositive

\* More blocks are more bytes, by a block at least.
LEMMA BlocksOrder ==
    ASSUME NEW a \in Int, NEW b \in Int
    PROVE  /\ a <= b <=> a * Block <= b * Block
           /\ a < b <=> a * Block + Block <= b * Block
<1>1. Block \in Nat /\ Block > 0 /\ a * Block \in Int /\ b * Block \in Int
    BY BlockIsPositive
<1>2. a <= b => a * Block <= b * Block
    BY <1>1
<1>3. a < b => a * Block + Block <= b * Block
    BY <1>1
<1>4. b < a => b * Block + Block <= a * Block
    BY <1>1
<1> QED BY <1>1, <1>2, <1>3, <1>4

\* The blocks of whole blocks.
LEMMA BlocksBack ==
    ASSUME NEW a \in Nat
    PROVE  (a * Block) \div Block = a
BY BlockIsPositive

\* SmallestChunk, by blocks.
LEMMA ChunkIsBlocks ==
    ASSUME NEW n \in Nat
    PROVE  \E a \in Nat : SmallestChunk(n) = a * Block /\ a * Block <= n /\ n < a * Block + Block
BY WholeBlocks DEF SmallestChunk

\* The first byte behind what is asked for.
BehindLast == IF endByte > 0 /\ EndChunk < Encrypted + MacBytes THEN EndChunk + 1 ELSE Encrypted + MacBytes

\* Whether the first block that comes is the IV.
IVDue == IF FirstBlockIsIV /\ ~aes THEN 1 ELSE 0

\* The stream is at a block, and nothing of the answer is lost.
InStep ==
    /\ remaining \in Nat /\ remaining < Block /\ body \in Nat
    /\ next * Block + remaining + body = BehindLast
    /\ bytesFetched = (next + IVDue - withheld) * Block
    /\ ~aes => body > 0 /\ withheld = 0
    /\ endByte > 0 => withheld = 0
    /\ startByte = 0 /\ endByte = 0 /\ withheld = 0 => next = 0

\* The stream does not pass what a caller may have.
Within ==
    /\ startByte = 0 /\ endByte = 0 => bytesFetched <= file
    /\ endByte > 0 => bytesFetched <= Encrypted \/ bytesFetched <= startByte

\* It has come to the end of it.
AllCame ==
    /\ startByte = 0 /\ endByte = 0 => bytesFetched = file
    /\ endByte > 0 => bytesFetched = Encrypted \/ (endByte <= bytesFetched /\ endByte <= Encrypted)

\* The types.
DownloadTypeOK ==
    /\ Asked /\ next \in Nat /\ withheld \in {0, 1} /\ aes \in BOOLEAN
    /\ transfer \in {"none", "asked", "open", "failed", "threw", "stuck", "done"}

\* The inductive invariant.
DownloadInv ==
    /\ DownloadTypeOK
    /\ transfer \in {"none", "asked"} => bytesFetched = 0 /\ remaining = 0 /\ withheld = 0 /\ ~aes
    /\ transfer = "open" => InStep
    /\ pushed = Got(bytesFetched)
    /\ Within
    /\ transfer = "done" => AllCame

\* The sizes the code computes are whole blocks.
LEMMA ChunksOf ==
    ASSUME Asked
    PROVE  \E e \in Nat, k \in Nat, s \in Nat :
              /\ Encrypted = (e + 1) * Block /\ Encrypted = e * Block + Block /\ e * Block <= file /\ file < e * Block + Block
              /\ EndChunk = (k + 1) * Block /\ endByte < EndChunk
              /\ SmallestChunk(startByte) = s * Block /\ s * Block <= startByte /\ startByte < s * Block + Block
<1>1. file \in Nat /\ endByte \in Nat /\ startByte \in Nat
    BY DEF Asked
<1>2. PICK e \in Nat : SmallestChunk(file) = e * Block /\ e * Block <= file /\ file < e * Block + Block
    BY <1>1, ChunkIsBlocks
<1>3. PICK k \in Nat : SmallestChunk(endByte) = k * Block /\ k * Block <= endByte /\ endByte < k * Block + Block
    BY <1>1, ChunkIsBlocks
<1>4. PICK s \in Nat : SmallestChunk(startByte) = s * Block /\ s * Block <= startByte /\ startByte < s * Block + Block
    BY <1>1, ChunkIsBlocks
<1>5. (e + 1) * Block = e * Block + Block /\ (k + 1) * Block = k * Block + Block
    BY BlocksAdd
<1> QED BY <1>2, <1>3, <1>4, <1>5 DEF Encrypted, EndChunk

\* No whole block comes that is behind the encrypted file: the MAC is less than one.
LEMMA NotBeyond ==
    ASSUME Asked, NEW m \in Nat, m * Block <= BehindLast
    PROVE  m * Block <= Encrypted /\ BehindLast \in Nat
<1>1. PICK e \in Nat, k \in Nat, s \in Nat :
              /\ Encrypted = (e + 1) * Block /\ Encrypted = e * Block + Block /\ e * Block <= file /\ file < e * Block + Block
              /\ EndChunk = (k + 1) * Block /\ endByte < EndChunk
    BY ChunksOf
<1>2. Block \in Nat /\ MacBytes \in Nat /\ MacBytes < Block /\ endByte \in Nat
    BY BlockIsPositive DEF Asked
<1>3. m * Block \in Int /\ (e + 1) * Block \in Int /\ (k + 1) * Block \in Int /\ e * Block \in Int
    BY <1>2
<1>4. BehindLast <= (e + 1) * Block + MacBytes /\ BehindLast \in Nat
    BY <1>1, <1>2, <1>3 DEF BehindLast
<1>5. m <= e + 1 \/ e + 1 < m
    OBVIOUS
<1>6. CASE e + 1 < m
    <2>1. (e + 1) * Block + Block <= m * Block
        BY <1>6, BlocksOrder
    <2> QED BY <1>2, <1>3, <1>4, <2>1
<1>7. CASE m <= e + 1
    <2>1. m * Block <= (e + 1) * Block
        BY <1>7, BlocksOrder
    <2> QED BY <1>1, <1>4, <2>1
<1> QED BY <1>5, <1>6, <1>7

\* Once less than a block is left to come, all that is wanted has come.
LEMMA TillTheEnd ==
    ASSUME Asked, NEW m \in Nat, m * Block <= BehindLast, BehindLast < m * Block + Block
    PROVE  \/ m * Block = Encrypted
           \/ endByte > 0 /\ endByte <= m * Block /\ endByte <= Encrypted
<1>1. PICK e \in Nat, k \in Nat, s \in Nat :
              /\ Encrypted = (e + 1) * Block /\ Encrypted = e * Block + Block /\ e * Block <= file /\ file < e * Block + Block
              /\ EndChunk = (k + 1) * Block /\ endByte < EndChunk
    BY ChunksOf
<1>2. Block \in Nat /\ Block > 0 /\ MacBytes \in Nat /\ MacBytes < Block /\ endByte \in Nat
    BY BlockIsPositive DEF Asked
<1>3. /\ m * Block \in Int /\ (e + 1) * Block \in Int /\ (k + 1) * Block \in Int
      /\ (m + 1) * Block = m * Block + Block
    BY <1>2
<1>4. m * Block <= Encrypted
    BY NotBeyond
<1>5. CASE endByte > 0 /\ EndChunk < Encrypted + MacBytes
    <2>1. BehindLast = EndChunk + 1
        BY <1>5 DEF BehindLast
    <2>2. (k + 1) * Block < (m + 1) * Block
        BY <1>1, <1>2, <1>3, <2>1
    <2>3. k + 1 < m + 1
        <3>1. m + 1 <= k + 1 => (m + 1) * Block <= (k + 1) * Block
            BY BlocksOrder
        <3> QED BY <1>2, <1>3, <2>2, <3>1
    <2>4. (k + 1) * Block <= m * Block
        <3>1. k + 1 <= m
            BY <2>3
        <3> QED BY <3>1, BlocksOrder
    <2> QED BY <1>1, <1>2, <1>3, <1>4, <1>5, <2>4
<1>6. CASE ~(endByte > 0 /\ EndChunk < Encrypted + MacBytes)
    <2>1. BehindLast = (e + 1) * Block + MacBytes
        BY <1>1, <1>6 DEF BehindLast
    <2>2. (e + 1) * Block < (m + 1) * Block
        BY <1>2, <1>3, <2>1
    <2>3. e + 1 < m + 1
        <3>1. m + 1 <= e + 1 => (m + 1) * Block <= (e + 1) * Block
            BY BlocksOrder
        <3> QED BY <1>2, <1>3, <2>2, <3>1
    <2>4. (e + 1) * Block <= m * Block
        <3>1. e + 1 <= m
            BY <2>3
        <3> QED BY <3>1, BlocksOrder
    <2> QED BY <1>1, <1>3, <1>4, <2>4
<1> QED BY <1>5, <1>6

\* A run of nothing.
LEMMA EmptyFrom ==
    ASSUME NEW p
    PROVE  From(p, 0) = <<>>
BY DEF From

\* The invariant holds at the start.
LEMMA DownloadInitIs ==
    ASSUME DownloadInit
    PROVE  DownloadInv
<1>1. From(0, 0) = <<>>
    BY EmptyFrom
<1>2. /\ file = 0 /\ startByte = 0 /\ endByte = 0 /\ withheld = 0 /\ bytesFetched = 0 /\ next = 0
      /\ remaining = 0 /\ aes = FALSE /\ pushed = <<>> /\ transfer = "none"
    BY DEF DownloadInit
<1>3. pushed = Got(bytesFetched)
    BY <1>1, <1>2 DEF Got
<1>4. DownloadTypeOK
    <2>1. Asked
        BY <1>2 DEF Asked
    <2>2. aes \in BOOLEAN
        BY <1>2
    <2> QED BY <1>2, <2>1, <2>2 DEF DownloadTypeOK
<1>5. Within
    BY <1>2 DEF Within
<1> QED BY <1>2, <1>3, <1>4, <1>5 DEF DownloadInv

\* Up to its first byte, a caller has been given nothing.
LEMMA GotNone ==
    ASSUME Asked, NEW b \in Nat, b <= startByte
    PROVE  Got(b) = <<>>
<1>1. startByte \in Nat /\ endByte \in Nat /\ (endByte = 0 \/ startByte <= endByte)
    BY DEF Asked
<1>2. CASE endByte = 0
    <2>1. startByte = 0 => b = 0
        BY <1>1
    <2> QED BY <1>2, <2>1, EmptyFrom DEF Got
<1>3. CASE endByte # 0
    <2>1. Got(b) = From(startByte, 0)
        BY <1>1, <1>3 DEF Got
    <2> QED BY <2>1, EmptyFrom
<1> QED BY <1>2, <1>3

\* downloadMediaMessage keeps it.
LEMMA StartsInv ==
    ASSUME DownloadInv, NEW f \in FileBytes, NEW from \in 0 .. LastByte, NEW to \in {0} \cup from .. LastByte,
           DownloadStarts(f, from, to)
    PROVE  DownloadInv'
<1>1. /\ file' \in Nat /\ startByte' \in Nat /\ endByte' \in Nat /\ (endByte' = 0 \/ startByte' <= endByte')
      /\ transfer' = "asked" /\ bytesFetched' = bytesFetched /\ pushed' = pushed
      /\ remaining' = remaining /\ next' = next /\ withheld' = withheld /\ aes' = aes
    BY MediaAssumption DEF DownloadStarts
<1>2. bytesFetched = 0 /\ remaining = 0 /\ withheld = 0 /\ ~aes /\ pushed = Got(0)
    BY DEF DownloadInv, DownloadStarts
<1>3. Asked /\ Asked'
    BY <1>1, <1>2 DEF Asked, DownloadInv, DownloadTypeOK
<1>4. pushed = <<>>
    <2>1. 0 \in Nat /\ 0 <= startByte
        BY <1>3 DEF Asked
    <2> QED BY <1>2, <1>3, <2>1, GotNone
<1>5. Got(bytesFetched)' = <<>>
    <2>1. CASE endByte' = 0
        BY <1>1, <1>2, <2>1, EmptyFrom DEF Got
    <2>2. CASE endByte' # 0
        <3>1. Got(bytesFetched)' = From(startByte', 0)
            BY <1>1, <1>2, <2>2 DEF Got
        <3> QED BY <3>1, EmptyFrom
    <2> QED BY <2>1, <2>2
<1>6. Within'
    BY <1>1, <1>2 DEF Within
<1> QED BY <1>1, <1>2, <1>3, <1>4, <1>5, <1>6 DEF DownloadInv, DownloadTypeOK

\* The answer keeps it: the stream begins at the block of the first byte, and the
\* blocks before that one are neither fetched nor counted, but for the IV.
LEMMA RespondInv ==
    ASSUME DownloadInv, NEW ok \in BOOLEAN, Respond(ok)
    PROVE  DownloadInv'
<1>1. /\ file' = file /\ startByte' = startByte /\ endByte' = endByte /\ pushed' = pushed
      /\ remaining' = remaining /\ withheld' = withheld /\ aes' = aes
    BY DEF Respond
<1>2. /\ bytesFetched = 0 /\ remaining = 0 /\ withheld = 0 /\ ~aes /\ pushed = Got(0) /\ Asked /\ Within
      /\ DownloadTypeOK
    BY DEF DownloadInv, Respond, DownloadTypeOK
<1>3. file \in Nat /\ startByte \in Nat /\ endByte \in Nat /\ Block \in Nat /\ Block > 0 /\ MacBytes \in Nat
    BY <1>2, BlockIsPositive DEF Asked
<1>4. CASE ~(ok /\ BodyBytes > 0)
    <2>1. transfer' = "failed" /\ next' = next /\ bytesFetched' = bytesFetched
        BY <1>4 DEF Respond
    <2> QED BY <1>1, <1>2, <2>1 DEF DownloadInv, DownloadTypeOK, Asked, Within, Got
<1>5. CASE ok /\ BodyBytes > 0
    <2>1. /\ transfer' = "open" /\ body' = BodyBytes
          /\ bytesFetched' = IF FirstBlockIsIV THEN SmallestChunk(startByte) ELSE 0
          /\ next' = StartChunk \div Block
        BY <1>5 DEF Respond
    <2>2. PICK s \in Nat : SmallestChunk(startByte) = s * Block /\ s * Block <= startByte /\ startByte < s * Block + Block
        BY <1>3, ChunkIsBlocks
    <2>3. \E q \in Nat : /\ StartChunk = q * Block /\ q = next'
                         /\ bytesFetched' = (q + IF FirstBlockIsIV THEN 1 ELSE 0) * Block
                         /\ bytesFetched' <= startByte /\ (startByte = 0 => q = 0)
        <3>1. CASE FirstBlockIsIV
            <4>1. s >= 1
                <5>1. s * Block + Block > 1 * Block
                    BY <1>3, <2>2, <3>1, BlocksAdd DEF FirstBlockIsIV
                <5>2. s = 0 => s * Block = 0
                    BY <1>3
                <5> QED BY <1>3, <2>2, <3>1, <5>2 DEF FirstBlockIsIV
            <4>2. PICK r \in Nat : s = r + 1
                <5>1. s - 1 \in Nat /\ s = (s - 1) + 1
                    BY <4>1
                <5> QED BY <5>1
            <4>3. StartChunk = r * Block
                <5>1. (r + 1) * Block = r * Block + 1 * Block /\ 1 * Block = Block /\ r * Block \in Int
                    BY BlocksAdd
                <5> QED BY <1>3, <2>2, <3>1, <4>2, <5>1 DEF StartChunk
            <4>4. next' = r
                BY <2>1, <4>3, BlocksBack
            <4>5. startByte # 0
                BY <1>3, <3>1 DEF FirstBlockIsIV
            <4> QED BY <2>1, <2>2, <3>1, <4>2, <4>3, <4>4, <4>5
        <3>2. CASE ~FirstBlockIsIV
            <4>1. StartChunk = 0 /\ 0 * Block = 0
                BY <1>3, <3>2 DEF StartChunk
            <4>2. next' = 0
                BY <2>1, <4>1, BlocksBack
            <4>3. 0 \in Nat /\ bytesFetched' = (0 + 0) * Block
                BY <1>3, <2>1, <3>2
            <4> QED BY <1>3, <2>1, <3>2, <4>1, <4>2, <4>3
        <3> QED BY <3>1, <3>2
    <2>4. PICK q \in Nat : /\ StartChunk = q * Block /\ q = next'
                           /\ bytesFetched' = (q + IF FirstBlockIsIV THEN 1 ELSE 0) * Block
                           /\ bytesFetched' <= startByte /\ (startByte = 0 => q = 0)
        BY <2>3
    <2>5. q * Block \in Nat /\ bytesFetched' \in Nat
        <3>1. SmallestChunk(startByte) \in Nat
            BY <1>3, <2>2
        <3>2. q * Block \in Nat
            BY <1>3
        <3> QED BY <2>1, <3>1, <3>2
    <2>6. BehindLast \in Nat
        <3>1. PICK e \in Nat, k \in Nat, t \in Nat :
                  Encrypted = (e + 1) * Block /\ EndChunk = (k + 1) * Block
            BY <1>2, ChunksOf
        <3>2. (e + 1) * Block \in Nat /\ (k + 1) * Block \in Nat
            BY <1>3
        <3> QED BY <1>3, <3>1, <3>2 DEF BehindLast
    <2>7. body' \in Nat /\ body' > 0 /\ q * Block + 0 + body' = BehindLast
        <3>1. BodyBytes = IF StartChunk < BehindLast THEN BehindLast - StartChunk ELSE 0
            BY DEF BodyBytes, BehindLast
        <3>2. StartChunk \in Nat /\ body' = BodyBytes /\ BodyBytes > 0 /\ StartChunk = q * Block
            BY <1>5, <2>1, <2>4, <2>5
        <3>3. body' \in Nat /\ body' > 0 /\ StartChunk + 0 + body' = BehindLast
            BY <2>6, <3>1, <3>2
        <3> QED BY <3>2, <3>3
    <2>8. InStep'
        <3>1. BehindLast' = BehindLast
            BY <1>1 DEF BehindLast, EndChunk, Encrypted, SmallestChunk
        <3>2. IVDue' = (IF FirstBlockIsIV THEN 1 ELSE 0) /\ q + (IF FirstBlockIsIV THEN 1 ELSE 0) - 0 = q + (IF FirstBlockIsIV THEN 1 ELSE 0)
            BY <1>1, <1>2 DEF IVDue, FirstBlockIsIV
        <3> QED BY <1>1, <1>2, <1>3, <2>4, <2>7, <3>1, <3>2 DEF InStep
    <2>9. pushed = <<>> /\ Got(bytesFetched') = <<>>
        <3>1. 0 \in Nat /\ 0 <= startByte
            BY <1>3
        <3>2. bytesFetched' <= startByte
            BY <2>4
        <3> QED BY <1>2, <2>5, <3>1, <3>2, GotNone
    <2>10. pushed' = Got(bytesFetched)'
        BY <1>1, <2>9 DEF Got
    <2>11. Within'
        <3>1. bytesFetched' <= startByte /\ bytesFetched' \in Nat
            BY <2>4, <2>5
        <3> QED BY <1>1, <1>3, <3>1 DEF Within
    <2> QED BY <1>1, <1>2, <2>1, <2>4, <2>5, <2>8, <2>10, <2>11 DEF DownloadInv, DownloadTypeOK, Asked
<1> QED BY <1>4, <1>5

\* Handing on blocks moves the stream by them.
LEMMA BlocksArePushed ==
    ASSUME Asked, NEW a \in Int, NEW n \in Nat, bytesFetched = a * Block, pushed = Got(bytesFetched),
           Push(Blocks(a, n))
    PROVE  /\ bytesFetched' = (a + n) * Block /\ bytesFetched' \in Nat
           /\ pushed' = Got(bytesFetched + n * Block) /\ bytesFetched' = bytesFetched + n * Block
<1>1. bytesFetched \in Nat /\ n * Block \in Nat /\ (a + n) * Block = a * Block + n * Block
    <2>1. n * Block \in Nat
        BY BlockIsPositive
    <2> QED BY <2>1, BlocksAdd DEF Asked
<1>2. Blocks(a, n) = From(bytesFetched, n * Block)
    BY DEF Blocks, From
<1>3. Len(From(bytesFetched, n * Block)) = n * Block
    BY <1>1, FromIsSeq
<1>4. bytesFetched' = bytesFetched + n * Block
    BY <1>2, <1>3 DEF Push
<1>5. Got(bytesFetched) \o Pushed(From(bytesFetched, n * Block)) = Got(bytesFetched + n * Block)
    BY <1>1, PushGoesOn
<1>6. pushed' = Got(bytesFetched + n * Block)
    BY <1>2, <1>5 DEF Push
<1> QED BY <1>1, <1>4, <1>6

\* A download that ends before it is done.
LEMMA GivenUpInv ==
    ASSUME DownloadInv, transfer' \in {"failed", "threw", "stuck"},
           UNCHANGED <<file, startByte, endByte, next, withheld, aes, bytesFetched, pushed>>
    PROVE  DownloadInv'
<1>1. DownloadTypeOK'
    BY DEF DownloadInv, DownloadTypeOK, Asked
<1>2. pushed' = Got(bytesFetched)'
    BY DEF DownloadInv, Got
<1>3. Within'
    BY DEF DownloadInv, Within, Encrypted, SmallestChunk
<1> QED BY <1>1, <1>2, <1>3 DEF DownloadInv

\* transform keeps it, whatever the piece: what it takes is whole blocks, and what it
\* hands on are those the cipher does not withhold.
LEMMA PieceInv ==
    ASSUME DownloadInv, NEW n \in 1 .. body, Piece(n)
    PROVE  DownloadInv'
<1> DEFINE data == remaining + n
           whole == data \div Block
           iv == IVDue
           kept == IF endByte = 0 /\ withheld + whole - iv > 0 THEN 1 ELSE 0
           cnt == withheld + whole - iv - kept
           at == next + iv - withheld
<1>1. DownloadTypeOK /\ Asked /\ InStep /\ Within /\ pushed = Got(bytesFetched) /\ transfer = "open"
    BY DEF DownloadInv, DownloadTypeOK, Piece
<1>2. /\ file \in Nat /\ startByte \in Nat /\ endByte \in Nat /\ next \in Nat /\ withheld \in {0, 1}
      /\ remaining \in Nat /\ body \in Nat /\ Block \in Nat /\ Block > 0 /\ iv \in {0, 1} /\ bytesFetched \in Nat
    BY <1>1, BlockIsPositive DEF DownloadTypeOK, Asked, InStep, IVDue
<1>3. file' = file /\ startByte' = startByte /\ endByte' = endByte /\ body' = body - n /\ body' \in Nat
    BY <1>2 DEF Piece
<1>4. data \in Nat /\ whole \in Nat /\ whole * Block \in Nat /\ whole * Block <= data /\ data < whole * Block + Block
    <2>1. data \in Nat
        BY <1>2
    <2> HIDE DEF data
    <2> QED BY <2>1, WholeBlocks
<1>5. CASE iv > whole
    <2>1. transfer' = "threw" /\ UNCHANGED <<remaining, next, withheld, aes, bytesFetched, pushed>>
        BY <1>5 DEF Piece, IVDue
    <2> QED BY <1>3, <2>1, GivenUpInv
<1>6. CASE ~(iv > whole)
    <2>1. /\ remaining' = data - whole * Block /\ aes' = TRUE /\ next' = next + whole /\ withheld' = kept
          /\ Push(Blocks(at, cnt)) /\ transfer' = transfer
        BY <1>6 DEF Piece, IVDue
    <2> HIDE DEF whole, iv
    <2>2. cnt \in Nat /\ at \in Int /\ kept \in {0, 1} /\ at + cnt = (next + whole) - kept /\ next + whole \in Nat
        BY <1>2, <1>4, <1>6
    <2>3. endByte > 0 => kept = 0
        BY <1>2
    <2>4. startByte = 0 /\ endByte = 0 /\ kept = 0 => next + whole = 0
        <3>1. startByte = 0 => iv = 0
            BY <1>2 DEF iv, IVDue, FirstBlockIsIV
        <3> QED BY <1>1, <1>2, <1>4, <3>1 DEF InStep
    <2> HIDE DEF cnt, at, kept
    <2>5. bytesFetched = at * Block
        BY <1>1 DEF InStep, at, iv
    <2>6. /\ bytesFetched' = (at + cnt) * Block /\ bytesFetched' \in Nat
          /\ pushed' = Got(bytesFetched + cnt * Block) /\ bytesFetched' = bytesFetched + cnt * Block
        BY <1>1, <2>1, <2>2, <2>5, BlocksArePushed
    <2>7. bytesFetched' = (next' - withheld') * Block
        <3>1. at + cnt = next' - withheld'
            BY <2>1, <2>2
        <3> QED BY <2>6, <3>1
    <2>8. /\ remaining' \in Nat /\ remaining' < Block
          /\ next' * Block + remaining' + body' = BehindLast /\ next' * Block \in Nat
        <3>1. next' * Block = next * Block + whole * Block /\ next * Block \in Nat
            <4>1. next * Block \in Nat
                BY <1>2
            <4> QED BY <1>2, <1>4, <2>1, <4>1, BlocksAdd
        <3>2. next * Block + remaining + body = BehindLast
            BY <1>1 DEF InStep
        <3> HIDE DEF whole
        <3> QED BY <1>2, <1>3, <1>4, <2>1, <3>1, <3>2
    <2>9. BehindLast' = BehindLast /\ IVDue' = 0
        BY <1>3, <2>1 DEF BehindLast, EndChunk, Encrypted, SmallestChunk, IVDue
    <2>10. InStep'
        <3>1. next' + 0 - withheld' = next' - withheld'
            BY <2>1, <2>2
        <3>2. bytesFetched' = (next' + IVDue' - withheld') * Block
            BY <2>7, <2>9, <3>1
        <3> QED BY <1>3, <2>1, <2>3, <2>4, <2>8, <2>9, <3>2 DEF InStep
    <2>11. next' * Block <= Encrypted
        <3>1. next' * Block <= BehindLast /\ next' \in Nat
            BY <1>3, <2>1, <2>2, <2>8
        <3> HIDE DEF whole
        <3> QED BY <1>1, <3>1, NotBeyond
    <2>12. Within'
        <3>1. CASE endByte > 0
            <4>1. next' - withheld' = next'
                BY <2>1, <2>2, <2>3, <3>1
            <4>2. bytesFetched' <= Encrypted
                BY <2>7, <2>11, <4>1
            <4>3. Encrypted' = Encrypted
                BY <1>3 DEF Encrypted, SmallestChunk
            <4> QED BY <1>3, <3>1, <4>2, <4>3 DEF Within
        <3>2. CASE startByte = 0 /\ endByte = 0 /\ kept = 0
            <4>1. next' - withheld' = 0 /\ 0 * Block = 0
                BY <1>2, <2>1, <2>4, <3>2
            <4>2. bytesFetched' = 0
                BY <2>7, <4>1
            <4> QED BY <1>2, <1>3, <3>2, <4>2 DEF Within
        <3>3. CASE startByte = 0 /\ endByte = 0 /\ kept = 1
            <4>1. (next' - withheld') * Block = next' * Block - Block
                <5>1. withheld' = 1 /\ next' \in Nat
                    BY <2>1, <2>2, <3>3
                <5> QED BY <1>2, <5>1, BlocksAdd
            <4>2. PICK e \in Nat, k \in Nat, s \in Nat : Encrypted = e * Block + Block /\ e * Block <= file
                BY <1>1, ChunksOf
            <4>3. e * Block \in Nat
                BY <1>2
            <4>4. bytesFetched' <= file
                BY <1>2, <2>7, <2>8, <2>11, <4>1, <4>2, <4>3
            <4> QED BY <1>2, <1>3, <3>3, <4>4 DEF Within
        <3>4. CASE startByte # 0 /\ endByte = 0
            BY <1>2, <1>3, <3>4 DEF Within
        <3> QED BY <1>2, <2>2, <3>1, <3>2, <3>3, <3>4
    <2>13. pushed' = Got(bytesFetched)'
        BY <1>3, <2>6 DEF Got
    <2>14. DownloadTypeOK'
        <3>1. next' \in Nat /\ withheld' \in {0, 1} /\ aes' \in BOOLEAN
            BY <2>1, <2>2
        <3> QED BY <1>1, <1>3, <2>1, <2>6, <3>1 DEF DownloadTypeOK, Asked
    <2> QED BY <1>1, <2>1, <2>10, <2>12, <2>13, <2>14 DEF DownloadInv
<1> QED BY <1>5, <1>6

\* final keeps it, and hands on what of the last block is file.
LEMMA FinishInv ==
    ASSUME DownloadInv, Finish
    PROVE  DownloadInv'
<1>1. DownloadTypeOK /\ Asked /\ InStep /\ Within /\ pushed = Got(bytesFetched) /\ transfer = "open" /\ body = 0
    BY DEF DownloadInv, DownloadTypeOK, Finish
<1>2. /\ file \in Nat /\ startByte \in Nat /\ endByte \in Nat /\ next \in Nat /\ withheld \in {0, 1}
      /\ remaining \in Nat /\ Block \in Nat /\ Block > 0 /\ bytesFetched \in Nat /\ aes /\ IVDue = 0
    BY <1>1, BlockIsPositive DEF DownloadTypeOK, Asked, InStep, IVDue
<1>3. /\ file' = file /\ startByte' = startByte /\ endByte' = endByte
      /\ next' = next /\ withheld' = withheld /\ aes' = aes
    BY DEF Finish
<1>4. CASE endByte = 0 /\ withheld = 0
    <2>1. transfer' = "failed" /\ UNCHANGED <<bytesFetched, pushed>>
        BY <1>4 DEF Finish
    <2> QED BY <1>3, <2>1, GivenUpInv
<1>5. CASE ~(endByte = 0 /\ withheld = 0)
    <2> DEFINE k == withheld * (file % Block)
    <2>1. transfer' = "done" /\ Push(SubSeq(Blocks(next - withheld, withheld), 1, k))
        BY <1>5 DEF Finish
    <2>2. PICK e \in Nat, z \in Nat, s \in Nat :
              Encrypted = e * Block + Block /\ e * Block <= file /\ file < e * Block + Block
        BY <1>1, ChunksOf
    <2>3. bytesFetched = (next - withheld) * Block
        <3>1. next + IVDue - withheld = next - withheld
            BY <1>2
        <3> QED BY <1>1, <3>1 DEF InStep
    <2>4. next * Block = Encrypted \/ (endByte > 0 /\ endByte <= next * Block /\ endByte <= Encrypted)
        <3>1. next * Block + remaining = BehindLast /\ remaining < Block /\ next * Block \in Nat
            <4>1. next * Block \in Nat
                BY <1>2
            <4> QED BY <1>1, <1>2, <4>1 DEF InStep
        <3>2. next * Block <= BehindLast /\ BehindLast < next * Block + Block
            BY <1>2, <3>1
        <3> QED BY <1>1, <1>2, <3>2, TillTheEnd
    <2>5. next * Block \in Nat /\ next * Block <= Encrypted
        <3>1. next * Block \in Nat /\ e * Block \in Nat
            BY <1>2
        <3>2. next * Block <= BehindLast
            BY <1>1, <1>2, <3>1 DEF InStep
        <3> QED BY <1>1, <1>2, <3>1, <3>2, NotBeyond
    <2>6. \E j \in Nat : /\ SubSeq(Blocks(next - withheld, withheld), 1, k) = From(bytesFetched, j)
                         /\ endByte > 0 => j = 0
                         /\ endByte = 0 => withheld = 1 /\ bytesFetched + j = next * Block - Block + (file % Block)
        <3>1. Blocks(next - withheld, withheld) = From(bytesFetched, withheld * Block)
            BY <2>3 DEF Blocks, From
        <3>2. file % Block \in 0 .. Block - 1
            BY <1>2
        <3>3. CASE withheld = 0
            <4>1. withheld * Block = 0 /\ k = 0
                BY <1>2, <3>2, <3>3
            <4>2. From(bytesFetched, 0) = <<>> /\ SubSeq(<<>>, 1, 0) = <<>>
                BY EmptyFrom
            <4>3. SubSeq(Blocks(next - withheld, withheld), 1, k) = From(bytesFetched, 0)
                <5> HIDE DEF k
                <5> QED BY <3>1, <4>1, <4>2
            <4>4. endByte > 0 /\ 0 \in Nat
                BY <1>2, <1>5, <3>3
            <4> HIDE DEF k
            <4> QED BY <4>3, <4>4
        <3>4. CASE withheld = 1
            <4>1. withheld * Block = Block /\ k = file % Block
                BY <1>2, <3>2, <3>4
            <4> HIDE DEF k
            <4>2. Cut(bytesFetched, Block, 0, k)
                BY <1>2, <3>2, <4>1, PartOfFrom
            <4>3. SubSeq(From(bytesFetched, Block), 1, k) = From(bytesFetched, k)
                <5>1. 0 + 1 = 1 /\ bytesFetched + 0 = bytesFetched /\ (IF k > 0 THEN k - 0 ELSE 0) = k
                    BY <1>2, <3>2, <4>1
                <5> QED BY <4>2, <5>1 DEF Cut
            <4>4. endByte = 0
                BY <1>1, <1>2, <3>4 DEF InStep
            <4>5. (next - withheld) * Block = next * Block - Block
                BY <1>2, <3>4, BlocksAdd
            <4>6. k \in Nat /\ bytesFetched + k = next * Block - Block + (file % Block)
                BY <2>3, <3>2, <4>1, <4>5
            <4> QED BY <3>1, <3>4, <4>1, <4>3, <4>4, <4>6
        <3> QED BY <1>2, <3>3, <3>4
    <2>7. PICK j \in Nat : /\ SubSeq(Blocks(next - withheld, withheld), 1, k) = From(bytesFetched, j)
                           /\ endByte > 0 => j = 0
                           /\ endByte = 0 => withheld = 1 /\ bytesFetched + j = next * Block - Block + (file % Block)
        BY <2>6
    <2> HIDE DEF k
    <2>8. bytesFetched' = bytesFetched + j /\ pushed' = Got(bytesFetched + j) /\ bytesFetched' \in Nat
        <3>1. Len(From(bytesFetched, j)) = j
            BY <1>2, FromIsSeq
        <3>2. bytesFetched' = bytesFetched + j
            BY <2>1, <2>7, <3>1 DEF Push
        <3>3. Got(bytesFetched) \o Pushed(From(bytesFetched, j)) = Got(bytesFetched + j)
            BY <1>1, PushGoesOn
        <3>4. pushed' = Got(bytesFetched + j)
            BY <1>1, <2>1, <2>7, <3>3 DEF Push
        <3> QED BY <1>2, <3>2, <3>4
    <2>9. pushed' = Got(bytesFetched)'
        BY <1>3, <2>8 DEF Got
    <2>10. Encrypted' = Encrypted
        BY <1>3 DEF Encrypted, SmallestChunk
    <2>11. startByte = 0 /\ endByte = 0 => bytesFetched' = file
        <3>1. SUFFICES ASSUME startByte = 0, endByte = 0 PROVE bytesFetched' = file
            OBVIOUS
        <3>2. file % Block = file - (file \div Block) * Block /\ Encrypted = (file \div Block) * Block + Block
            BY <1>2, WholeBlocks DEF Encrypted, SmallestChunk
        <3>3. (file \div Block) * Block \in Nat
            BY <1>2, WholeBlocks
        <3>4. next * Block = Encrypted
            BY <2>4, <3>1
        <3> QED BY <1>2, <2>7, <2>8, <3>1, <3>2, <3>3, <3>4
    <2>12. endByte > 0 => bytesFetched' = next * Block
        <3>1. SUFFICES ASSUME endByte > 0 PROVE bytesFetched' = next * Block
            OBVIOUS
        <3>2. withheld = 0
            BY <1>1, <3>1 DEF InStep
        <3>3. next - withheld = next /\ bytesFetched + 0 = bytesFetched
            BY <1>2, <3>2
        <3> QED BY <2>3, <2>7, <2>8, <3>1, <3>3
    <2>13. AllCame' /\ Within'
        BY <1>2, <1>3, <2>4, <2>5, <2>10, <2>11, <2>12 DEF AllCame, Within
    <2>14. DownloadTypeOK'
        BY <1>1, <1>3, <2>1, <2>8 DEF DownloadTypeOK, Asked
    <2> QED BY <2>1, <2>9, <2>13, <2>14 DEF DownloadInv
<1> QED BY <1>4, <1>5

\* The invariant holds.
THEOREM DownloadIsSound == DownloadSpec => []DownloadInv
<1>1. DownloadInv /\ [DownloadNext]_downloadVars => DownloadInv'
    <2> SUFFICES ASSUME DownloadInv, [DownloadNext]_downloadVars
                 PROVE  DownloadInv'
        OBVIOUS
    <2>1. ASSUME NEW f \in FileBytes, NEW from \in 0 .. LastByte, NEW to \in {0} \cup from .. LastByte,
                 DownloadStarts(f, from, to)
          PROVE  DownloadInv'
        BY <2>1, StartsInv
    <2>2. ASSUME NEW ok \in BOOLEAN, Respond(ok)
          PROVE  DownloadInv'
        BY <2>2, RespondInv
    <2>3. ASSUME NEW n \in 1 .. body, Piece(n)
          PROVE  DownloadInv'
        BY <2>3, PieceInv
    <2>4. CASE Finish
        BY <2>4, FinishInv
    <2>5. CASE Breaks
        BY <2>5, GivenUpInv DEF Breaks
    <2>6. CASE UNCHANGED downloadVars
        <3>1. DownloadTypeOK' /\ Within' /\ AllCame' = AllCame /\ pushed' = Got(bytesFetched)'
            BY <2>6 DEF downloadVars, DownloadInv, DownloadTypeOK, Asked, Within, AllCame, Got, Encrypted, SmallestChunk
        <3>2. InStep => InStep'
            BY <2>6 DEF downloadVars, InStep, IVDue, FirstBlockIsIV, BehindLast, EndChunk, Encrypted, SmallestChunk
        <3>3. transfer' = transfer /\ bytesFetched' = bytesFetched /\ remaining' = remaining /\ withheld' = withheld /\ aes' = aes
            BY <2>6 DEF downloadVars
        <3> QED BY <3>1, <3>2, <3>3 DEF DownloadInv
    <2> QED BY <2>1, <2>2, <2>3, <2>4, <2>5, <2>6 DEF DownloadNext
<1> QED BY <1>1, DownloadInitIs, PTL DEF DownloadSpec

\* The beginning of a run.
Begins(p, n, k) == Len(From(p, n)) <= Len(From(p, k)) /\ From(p, n) = SubSeq(From(p, k), 1, Len(From(p, n)))

LEMMA BeginningOf ==
    ASSUME NEW p \in Int, NEW n \in Nat, NEW k \in Nat, n <= k
    PROVE  Begins(p, n, k)
<1>1. Len(From(p, n)) = n /\ Len(From(p, k)) = k
    BY FromIsSeq
<1>2. Cut(p, k, 0, n)
    BY PartOfFrom
<1>3. 0 + 1 = 1 /\ p + 0 = p /\ (IF n > 0 THEN n - 0 ELSE 0) = n
    OBVIOUS
<1> QED BY <1>1, <1>2, <1>3 DEF Cut, Begins

\* For a file of any size, any range and any block, and however the body is cut into
\* pieces: what a reader has got is a beginning of the bytes it asked for, and all of
\* them once the download is done.
THEOREM RangesAreExact == DownloadSpec => []RangeExact
<1>1. DownloadInv => RangeExact
    <2> SUFFICES ASSUME DownloadInv PROVE RangeExact
        OBVIOUS
    <2>1. Asked /\ Within /\ pushed = Got(bytesFetched) /\ (transfer = "done" => AllCame)
        BY DEF DownloadInv, DownloadTypeOK
    <2>2. file \in Nat /\ startByte \in Nat /\ endByte \in Nat /\ bytesFetched \in Nat /\ (endByte = 0 \/ startByte <= endByte)
        BY <2>1 DEF Asked
    <2>3. Encrypted \in Nat
        <3>1. SmallestChunk(file) \in Nat
            BY <2>2, WholeBlocks DEF SmallestChunk
        <3> QED BY <3>1, BlockIsPositive DEF Encrypted
    <2>4. CASE startByte = 0 /\ endByte = 0
        <3>1. pushed = From(0, bytesFetched) /\ bytesFetched <= file /\ (transfer = "done" => bytesFetched = file)
            BY <2>1, <2>4 DEF Got, Within, AllCame
        <3>2. Positions(0, file) = From(0, file)
            <4>1. (IF file > 0 THEN file - 0 ELSE 0) = file
                BY <2>2
            <4> QED BY <2>2, <4>1, PositionsAreFrom
        <3>3. Len(pushed) <= Len(Positions(0, file)) /\ pushed = SubSeq(Positions(0, file), 1, Len(pushed))
            <4>1. Begins(0, bytesFetched, file)
                BY <2>2, <3>1, BeginningOf
            <4> QED BY <3>1, <3>2, <4>1 DEF Begins
        <3>4. transfer = "done" => pushed = Positions(0, file)
            BY <3>1, <3>2
        <3> QED BY <2>4, <3>3, <3>4 DEF RangeExact
    <2>5. CASE startByte # 0 /\ endByte = 0
        <3>1. pushed = <<>>
            BY <2>1, <2>5 DEF Got
        <3>2. Len(<<>>) <= Len(<<>>) /\ <<>> = SubSeq(<<>>, 1, Len(<<>>))
            OBVIOUS
        <3>3. startByte > 0
            BY <2>2, <2>5
        <3> QED BY <2>5, <3>1, <3>2, <3>3 DEF RangeExact
    <2>6. CASE endByte > 0
        <3> DEFINE n == LET to == IF bytesFetched < endByte THEN bytesFetched ELSE endByte IN IF to > startByte THEN to - startByte ELSE 0
                   e == IF endByte < Encrypted THEN endByte ELSE Encrypted
                   k == IF e > startByte THEN e - startByte ELSE 0
        <3>1. pushed = From(startByte, n)
            BY <2>1, <2>2, <2>6 DEF Got
        <3>2. n \in Nat /\ k \in Nat /\ e \in Nat
            BY <2>2, <2>3
        <3>3. n <= k
            BY <2>1, <2>2, <2>3, <2>6 DEF Within
        <3>4. transfer = "done" => n = k
            BY <2>1, <2>2, <2>3, <2>6 DEF AllCame
        <3>5. Positions(startByte, e) = From(startByte, k)
            <4> HIDE DEF e
            <4> QED BY <2>2, <3>2, PositionsAreFrom DEF k
        <3> HIDE DEF n, k
        <3>6. Len(pushed) <= Len(Positions(startByte, e)) /\ pushed = SubSeq(Positions(startByte, e), 1, Len(pushed))
            <4>1. Begins(startByte, n, k)
                BY <2>2, <3>2, <3>3, BeginningOf
            <4> QED BY <3>1, <3>5, <4>1 DEF Begins
        <3>7. transfer = "done" => pushed = Positions(startByte, e)
            BY <3>1, <3>4, <3>5
        <3> QED BY <2>6, <3>6, <3>7 DEF RangeExact
    <2> QED BY <2>2, <2>4, <2>5, <2>6
<1> QED BY <1>1, DownloadIsSound, PTL

-----------------------------------------------------------------------------

(***************************************************************************)
(* All devices mean the same message, for any users and devices.  What a   *)
(* device makes of a message is a function of the two devices and of the   *)
(* chat; the lemmas say which, and that what is read of a reference is     *)
(* what the reader has, whoever of them are devices of one user.           *)
(***************************************************************************)
Chats == [form : {"pn", "lid"}, group : BOOLEAN, knowsLid : BOOLEAN]

\* The key that d has of a message of m, and what e reads when d refers to it.
ViewOf(m, d) == IF d = m THEN SentKey(m) ELSE KeyFrom(m, d)
ReadOf(m, d, e) == NormaliseKey(ViewOf(m, d), KeyFrom(d, e), e)

Address(u) == [user |-> <<u, chat.form>>, device |-> 0]

LidsKnown == chat.form = "pn" \/ chat.knowsLid

LEMMA OtherOf ==
    ASSUME NEW p \in PairOf
    PROVE  Other(p) \in PairOf /\ Other(p) # p /\ \A q \in PairOf : q # p => q = Other(p)
<1>1. \E q \in PairOf : q # p
    BY KeysAssumption
<1>2. Other(p) \in PairOf /\ Other(p) # p
    BY <1>1 DEF Other
<1> QED BY <1>2, KeysAssumption

LEMMA MemberOf ==
    ASSUME NEW d \in Members
    PROVE  /\ d \in MyDevices /\ d = <<d[1], d[2]>> /\ d[1] \in People /\ d # NoSender
           /\ ~chat.group => d[1] \in PairOf
<1>1. d \in People \X Nat
    BY KeysAssumption DEF Members
<1>2. d = <<d[1], d[2]>> /\ d[1] \in People
    BY <1>1
<1>3. d # NoSender
    BY <1>2, KeysAssumption DEF NoSender
<1> QED BY <1>2, <1>3 DEF Members

\* Whoever knows its LID recognises its user in a jid of the chat.
LEMMA Recognised ==
    ASSUME chat \in Chats, LidsKnown, NEW u, NEW n, NEW e
    PROVE  IsMe([user |-> <<u, chat.form>>, device |-> n], e) <=> u = e[1]
<1> DEFINE jid == [user |-> <<u, chat.form>>, device |-> n]
<1>1. chat.form \in {"pn", "lid"} /\ jid.user = <<u, chat.form>>
    BY DEF Chats
<1>2. jid # NoJid
    BY <1>1 DEF NoJid
<1>3. MeId(e) # NoJid /\ MeId(e).user = <<e[1], "pn">>
    BY DEF MeId, JidOf, NoJid
<1>4. MeLid(e) = NoJid \/ (MeLid(e) # NoJid /\ MeLid(e).user = <<e[1], "lid">>)
    BY DEF MeLid, JidOf, NoJid
<1>5. chat.form = "lid" => MeLid(e) # NoJid
    BY DEF MeLid, JidOf, NoJid, LidsKnown
<1> HIDE DEF jid
<1>6. CASE chat.form = "pn"
    BY <1>1, <1>2, <1>3, <1>4, <1>6 DEF IsMe, SameUser, jid
<1>7. CASE chat.form = "lid"
    BY <1>1, <1>2, <1>3, <1>4, <1>5, <1>7 DEF IsMe, SameUser, jid
<1> QED BY <1>1, <1>6, <1>7 DEF jid

LEMMA RecognisedDevice ==
    ASSUME chat \in Chats, LidsKnown, NEW d \in Members, NEW e
    PROVE  IsMe(JidOf(d, chat.form), e) <=> d[1] = e[1]
BY Recognised DEF JidOf

LEMMA Cleaned ==
    ASSUME NEW a, NEW b \in BOOLEAN, NEW c
    PROVE  LET k == CleanMessage([remoteJid |-> a, fromMe |-> b, participant |-> c])
           IN  k.remoteJid = Normalized(a) /\ (k.fromMe <=> b) /\ k.participant = Normalized(c)
BY DEF CleanMessage

LEMMA Decoded ==
    ASSUME NEW from, NEW r, NEW e, from # Group
    PROVE  DecodeMessageNode([from |-> from, participant |-> NoJid, recipient |-> r], e)
             = [remoteJid |-> Either(r, from), fromMe |-> r # NoJid /\ IsMe(from, e), participant |-> NoJid]
BY DEF DecodeMessageNode

\* In a group: the group, and the author.
LEMMA ViewInGroup ==
    ASSUME chat \in Chats, LidsKnown, chat.group, NEW m \in Members, NEW d \in Members
    PROVE  /\ ViewOf(m, d).remoteJid = Group
           /\ ViewOf(m, d).fromMe <=> m[1] = d[1]
           /\ d # m => ViewOf(m, d).participant = Address(m[1])
           /\ d = m => ViewOf(m, d).participant = MeId(m)
<1>1. CASE d = m
    BY <1>1 DEF ViewOf, SentKey
<1>2. CASE d # m
    <2>1. StanzaTo(d, m) = [from |-> Group, participant |-> JidOf(m, chat.form), recipient |-> NoJid]
        BY DEF StanzaTo
    <2>2. DecodeMessageNode(StanzaTo(d, m), d)
            = [remoteJid |-> Group, fromMe |-> IsMe(JidOf(m, chat.form), d), participant |-> JidOf(m, chat.form)]
        BY <2>1 DEF DecodeMessageNode
    <2>3. Normalized(Group) = Group /\ Normalized(JidOf(m, chat.form)) = Address(m[1])
        BY DEF Normalized, Group, JidOf, Address
    <2>4. IsMe(JidOf(m, chat.form), d) \in BOOLEAN
        BY DEF IsMe, SameUser
    <2>5. ViewOf(m, d) = CleanMessage(DecodeMessageNode(StanzaTo(d, m), d))
        BY <1>2 DEF ViewOf, KeyFrom
    <2>6. /\ ViewOf(m, d).remoteJid = Group /\ ViewOf(m, d).participant = Address(m[1])
          /\ ViewOf(m, d).fromMe <=> IsMe(JidOf(m, chat.form), d)
        BY <2>2, <2>3, <2>4, <2>5, Cleaned
    <2> QED BY <1>2, <2>6, RecognisedDevice
<1> QED BY <1>1, <1>2

\* Between two: the other one, and whether it is one's own.
LEMMA ViewInPair ==
    ASSUME chat \in Chats, LidsKnown, ~chat.group, NEW m \in Members, NEW d \in Members
    PROVE  /\ ViewOf(m, d).remoteJid = Address(Other(d[1]))
           /\ ViewOf(m, d).fromMe <=> m[1] = d[1]
           /\ ViewOf(m, d).participant = NoJid
<1>0. chat.form \in {"pn", "lid"} /\ m[1] \in PairOf /\ d[1] \in PairOf
    BY MemberOf DEF Chats
<1>1. CASE d = m
    BY <1>1 DEF ViewOf, SentKey, JidOf, Address
<1>2. CASE d # m
    <2> DEFINE recipient == IF d[1] = m[1] THEN Address(Other(m[1])) ELSE NoJid
               from == JidOf(m, chat.form)
    <2>1. StanzaTo(d, m) = [from |-> from, participant |-> NoJid, recipient |-> recipient]
        BY DEF StanzaTo, JidOf, Address
    <2>2. from # Group /\ from # NoJid /\ Address(Other(m[1])) # NoJid
        BY <1>0 DEF JidOf, Group, NoJid, Address
    <2>3. Normalized(NoJid) = NoJid /\ Normalized(from) = Address(m[1])
          /\ Normalized(Address(Other(m[1]))) = Address(Other(m[1]))
        BY DEF Normalized, NoJid, JidOf, Address
    <2>4. recipient # NoJid <=> d[1] = m[1]
        BY <2>2
    <2>5. Normalized(Either(recipient, from)) = Address(Other(d[1]))
        <3>1. CASE d[1] = m[1]
            BY <2>2, <2>3, <3>1 DEF Either
        <3>2. CASE d[1] # m[1]
            <4>1. m[1] = Other(d[1])
                BY <1>0, <3>2, OtherOf
            <4> QED BY <2>3, <3>2, <4>1 DEF Either
        <3> QED BY <3>1, <3>2
    <2>6. ViewOf(m, d) = CleanMessage(DecodeMessageNode(StanzaTo(d, m), d))
        BY <1>2 DEF ViewOf, KeyFrom
    <2>7. IsMe(from, d) <=> d[1] = m[1]
        BY RecognisedDevice
    <2> HIDE DEF recipient, from
    <2> DEFINE mine == recipient # NoJid /\ IsMe(from, d)
    <2>8. DecodeMessageNode(StanzaTo(d, m), d)
            = [remoteJid |-> Either(recipient, from), fromMe |-> mine, participant |-> NoJid]
        BY <2>1, <2>2, Decoded
    <2>9. mine \in BOOLEAN /\ (mine <=> m[1] = d[1])
        BY <2>4, <2>7
    <2> HIDE DEF mine
    <2>10. /\ ViewOf(m, d).remoteJid = Normalized(Either(recipient, from))
           /\ ViewOf(m, d).fromMe <=> mine
           /\ ViewOf(m, d).participant = Normalized(NoJid)
        BY <2>6, <2>8, <2>9, Cleaned
    <2> QED BY <2>3, <2>5, <2>9, <2>10
<1> QED BY <1>1, <1>2

\* A key that was not sent by oneself is turned round.
LEMMA Turned ==
    ASSUME NEW k, NEW w, NEW e, ~w.fromMe
    PROVE  LET r == NormaliseKey(k, w, e)
           IN  /\ r.remoteJid = w.remoteJid /\ r.participant = Either(k.participant, w.participant)
               /\ r.fromMe <=> ~k.fromMe /\ IsMe(Either(k.participant, k.remoteJid), e)
BY DEF NormaliseKey

\* What e reads of the reference of d names the message as e does.
SamePlace(m, d, e) == ReadOf(m, d, e).remoteJid = ViewOf(m, e).remoteJid
SameSide(m, d, e) == ReadOf(m, d, e).fromMe <=> ViewOf(m, e).fromMe
SameAuthor(m, d, e) ==
    /\ m # d => GetKeyAuthor(ReadOf(m, d, e), e) = GetKeyAuthor(ViewOf(m, e), e)
    /\ chat.form = "pn" => SameUser(GetKeyAuthor(ReadOf(m, d, e), e), JidOf(m, "pn"))

\* A jid by number names the user of the device.
LEMMA ByNumber ==
    ASSUME chat.form = "pn", NEW m
    PROVE  /\ SameUser(Address(m[1]), JidOf(m, "pn"))
           /\ SameUser(MeId(m), JidOf(m, "pn"))
           /\ \A e : e[1] = m[1] => SameUser(Normalized(MeId(e)), JidOf(m, "pn"))
BY DEF SameUser, Address, MeId, JidOf, NoJid, Normalized

LEMMA SameInGroup ==
    ASSUME chat \in Chats, LidsKnown, chat.group,
           NEW m \in Members, NEW d \in Members, NEW e \in Members, d # e
    PROVE  SamePlace(m, d, e) /\ SameSide(m, d, e) /\ SameAuthor(m, d, e)
<1> DEFINE k == ViewOf(m, d)
           w == KeyFrom(d, e)
           v == ViewOf(m, e)
           r == ReadOf(m, d, e)
<1>1. w = ViewOf(d, e) /\ r = NormaliseKey(k, w, e)
    BY DEF ViewOf, ReadOf
<1>2. w.remoteJid = Group /\ (w.fromMe <=> d[1] = e[1])
    BY <1>1, ViewInGroup
<1>3. /\ k.remoteJid = Group /\ (k.fromMe <=> m[1] = d[1])
      /\ k.participant = IF d = m THEN MeId(m) ELSE Address(m[1])
    BY ViewInGroup
<1>4. v.remoteJid = Group /\ (v.fromMe <=> m[1] = e[1]) /\ (e # m => v.participant = Address(m[1]))
    BY ViewInGroup
<1>5. MeId(m) # NoJid /\ Address(m[1]) # NoJid
    BY DEF MeId, JidOf, NoJid, Address, Chats
<1> HIDE DEF k, w, v, r
<1>6. CASE d[1] = e[1]
    <2>1. r = k
        BY <1>1, <1>2, <1>6 DEF NormaliseKey
    <2>2. SamePlace(m, d, e) /\ SameSide(m, d, e)
        BY <1>3, <1>4, <1>6, <2>1 DEF SamePlace, SameSide, r, v
    <2>3. CASE m[1] = e[1]
        <3>1. GetKeyAuthor(r, e) = Normalized(MeId(e)) /\ GetKeyAuthor(v, e) = Normalized(MeId(e))
            BY <1>3, <1>4, <1>6, <2>1, <2>3 DEF GetKeyAuthor
        <3> QED BY <2>2, <2>3, <3>1, ByNumber DEF SameAuthor, r, v
    <2>4. CASE m[1] # e[1]
        <3>1. d # m /\ e # m
            BY <1>6, <2>4
        <3>2. GetKeyAuthor(r, e) = Address(m[1]) /\ GetKeyAuthor(v, e) = Address(m[1])
            BY <1>3, <1>4, <1>5, <1>6, <2>1, <2>4, <3>1 DEF GetKeyAuthor, Either
        <3> QED BY <2>2, <3>2, ByNumber DEF SameAuthor, r, v
    <2> QED BY <2>3, <2>4
<1>7. CASE d[1] # e[1]
    <2>1. r.remoteJid = Group /\ r.participant = k.participant
          /\ (r.fromMe <=> ~k.fromMe /\ IsMe(k.participant, e))
        BY <1>1, <1>2, <1>3, <1>5, <1>7, Turned DEF Either
    <2>2. r.fromMe <=> m[1] = e[1]
        <3>1. CASE m[1] = d[1]
            BY <1>3, <1>7, <2>1, <3>1
        <3>2. CASE m[1] # d[1]
            <4>1. IsMe(Address(m[1]), e) <=> m[1] = e[1]
                BY Recognised DEF Address
            <4> QED BY <1>3, <2>1, <3>2, <4>1
        <3> QED BY <3>1, <3>2
    <2>3. SamePlace(m, d, e) /\ SameSide(m, d, e)
        BY <1>4, <2>1, <2>2 DEF SamePlace, SameSide, r, v
    <2>4. CASE m[1] = e[1]
        <3>1. GetKeyAuthor(r, e) = Normalized(MeId(e)) /\ GetKeyAuthor(v, e) = Normalized(MeId(e))
            BY <1>4, <2>2, <2>4 DEF GetKeyAuthor
        <3> QED BY <2>3, <2>4, <3>1, ByNumber DEF SameAuthor, r, v
    <2>5. CASE m[1] # e[1]
        <3>1. GetKeyAuthor(r, e) = k.participant /\ GetKeyAuthor(v, e) = Address(m[1])
            BY <1>3, <1>4, <1>5, <2>1, <2>2, <2>5 DEF GetKeyAuthor, Either
        <3> QED BY <1>3, <2>3, <3>1, ByNumber DEF SameAuthor, r, v
    <2> QED BY <2>4, <2>5
<1> QED BY <1>6, <1>7

LEMMA SameInPair ==
    ASSUME chat \in Chats, LidsKnown, ~chat.group,
           NEW m \in Members, NEW d \in Members, NEW e \in Members, d # e
    PROVE  SamePlace(m, d, e) /\ SameSide(m, d, e) /\ SameAuthor(m, d, e)
<1> DEFINE k == ViewOf(m, d)
           w == KeyFrom(d, e)
           v == ViewOf(m, e)
           r == ReadOf(m, d, e)
<1>0. m[1] \in PairOf /\ d[1] \in PairOf /\ e[1] \in PairOf
    BY MemberOf
<1>1. w = ViewOf(d, e) /\ r = NormaliseKey(k, w, e)
    BY DEF ViewOf, ReadOf
<1>2. w.remoteJid = Address(Other(e[1])) /\ (w.fromMe <=> d[1] = e[1]) /\ w.participant = NoJid
    BY <1>1, ViewInPair
<1>3. k.remoteJid = Address(Other(d[1])) /\ (k.fromMe <=> m[1] = d[1]) /\ k.participant = NoJid
    BY ViewInPair
<1>4. v.remoteJid = Address(Other(e[1])) /\ (v.fromMe <=> m[1] = e[1]) /\ v.participant = NoJid
    BY ViewInPair
<1> HIDE DEF k, w, v, r
<1>5. r.remoteJid = Address(Other(e[1])) /\ (r.fromMe <=> m[1] = e[1]) /\ r.participant = NoJid
    <2>1. CASE d[1] = e[1]
        <3>1. r = k
            BY <1>1, <1>2, <2>1 DEF NormaliseKey
        <3> QED BY <1>3, <2>1, <3>1
    <2>2. CASE d[1] # e[1]
        <3>1. r.remoteJid = Address(Other(e[1])) /\ r.participant = NoJid
              /\ (r.fromMe <=> ~k.fromMe /\ IsMe(k.remoteJid, e))
            BY <1>1, <1>2, <1>3, <2>2, Turned DEF Either
        <3>2. IsMe(k.remoteJid, e) <=> Other(d[1]) = e[1]
            BY <1>3, Recognised DEF Address
        <3>3. Other(d[1]) = e[1] /\ (m[1] # d[1] => m[1] = Other(d[1]))
            BY <1>0, <2>2, OtherOf
        <3> QED BY <1>3, <2>2, <3>1, <3>2, <3>3
    <2> QED BY <2>1, <2>2
<1>6. SamePlace(m, d, e) /\ SameSide(m, d, e)
    BY <1>4, <1>5 DEF SamePlace, SameSide, r, v
<1>7. CASE m[1] = e[1]
    <2>1. GetKeyAuthor(r, e) = Normalized(MeId(e)) /\ GetKeyAuthor(v, e) = Normalized(MeId(e))
        BY <1>4, <1>5, <1>7 DEF GetKeyAuthor
    <2> QED BY <1>6, <1>7, <2>1, ByNumber DEF SameAuthor, r, v
<1>8. CASE m[1] # e[1]
    <2>1. Other(e[1]) = m[1]
        BY <1>0, <1>8, OtherOf
    <2>2. GetKeyAuthor(r, e) = Address(m[1]) /\ GetKeyAuthor(v, e) = Address(m[1])
        BY <1>4, <1>5, <1>8, <2>1 DEF GetKeyAuthor, Either
    <2> QED BY <1>6, <2>2, ByNumber DEF SameAuthor, r, v
<1> QED BY <1>7, <1>8

(***************************************************************************)
(* Every key that a device holds is the one it makes of the message, and   *)
(* every reference that was read is the one of the device that referred.   *)
(***************************************************************************)
KeysInv ==
    /\ chat \in Chats
    /\ message = NoSender \/ message \in Members
    /\ DOMAIN views = MyDevices /\ DOMAIN read = MyDevices
    /\ \A d \in MyDevices : views[d] # NoKey =>
          d \in Members /\ message # NoSender /\ views[d] = ViewOf(message, d)
    /\ message # NoSender => views[message] # NoKey
    /\ reference.by # NoSender =>
          reference.by \in MyDevices /\ views[reference.by] # NoKey /\ reference.key = views[reference.by]
    /\ \A e \in MyDevices : read[e] # NoKey =>
          /\ e \in Members /\ reference.by \notin {NoSender, e}
          /\ read[e] = ReadOf(message, reference.by, e)

LEMMA InitiallyUnnamed == KeysInit => KeysInv
BY DEF KeysInit, KeysInv, Chats

\* What devices make of a message depends on the chat only, which stays.
LEMMA StaysNamed ==
    ASSUME chat' = chat
    PROVE  /\ Members' = Members
           /\ \A m, d : ViewOf(m, d)' = ViewOf(m, d)
           /\ \A m, d, e : ReadOf(m, d, e)' = ReadOf(m, d, e)
<1>1. Members' = Members
    BY DEF Members
<1>2. ASSUME NEW e PROVE MeLid(e)' = MeLid(e)
    BY DEF MeLid
<1>3. ASSUME NEW jid, NEW e PROVE IsMe(jid, e)' = IsMe(jid, e)
    BY <1>2 DEF IsMe
<1>4. ASSUME NEW m, NEW d PROVE StanzaTo(d, m)' = StanzaTo(d, m)
    BY DEF StanzaTo
<1>5. ASSUME NEW m, NEW d PROVE KeyFrom(m, d)' = KeyFrom(m, d)
    BY <1>3, <1>4 DEF KeyFrom, DecodeMessageNode
<1>6. ASSUME NEW m, NEW d PROVE ViewOf(m, d)' = ViewOf(m, d)
    BY <1>5 DEF ViewOf, SentKey
<1>7. ASSUME NEW m, NEW d, NEW e PROVE ReadOf(m, d, e)' = ReadOf(m, d, e)
    BY <1>3, <1>5, <1>6 DEF ReadOf, NormaliseKey
<1> QED BY <1>1, <1>6, <1>7

\* No device has an empty key of a message.
LEMMA Named == ASSUME chat \in Chats, NEW d PROVE SentKey(d) # NoKey
<1>1. SentKey(d).fromMe /\ ~NoKey.fromMe
    BY DEF SentKey, NoKey
<1> QED BY <1>1

LEMMA StepNames == KeysInv /\ [KeysNext]_keysVars => KeysInv'
<1> SUFFICES ASSUME KeysInv, [KeysNext]_keysVars PROVE KeysInv'
    OBVIOUS
<1>0. chat' = chat
    BY DEF KeysNext, keysVars, SendsMessage, GetsMessage, Refers, ReadsReference
<1>1. CASE UNCHANGED keysVars
    BY <1>0, <1>1, StaysNamed DEF keysVars, KeysInv
<1>2. ASSUME NEW d \in MyDevices, SendsMessage(d) PROVE KeysInv'
    <2>1. \A e \in MyDevices : views[e] = NoKey /\ read[e] = NoKey
        BY <1>2 DEF SendsMessage, KeysInv
    <2>2. d \in Members /\ d # NoSender /\ message' = d /\ reference.by = NoSender
        BY <1>2, MemberOf DEF SendsMessage, KeysInv
    <2>3. views' = [views EXCEPT ![d] = ViewOf(d, d)] /\ ViewOf(d, d) # NoKey /\ UNCHANGED <<reference, read>>
        BY <1>2, Named DEF SendsMessage, ViewOf, KeysInv
    <2> QED BY <1>0, <2>1, <2>2, <2>3, StaysNamed DEF KeysInv
<1>3. ASSUME NEW d \in MyDevices, GetsMessage(d) PROVE KeysInv'
    <2>1. d # message /\ d \in Members /\ message # NoSender /\ views[d] = NoKey /\ UNCHANGED <<message, reference, read>>
        BY <1>3 DEF GetsMessage, KeysInv
    <2>2. views' = [views EXCEPT ![d] = ViewOf(message, d)]
        BY <1>3, <2>1 DEF GetsMessage, ViewOf
    <2> QED BY <1>0, <2>1, <2>2, StaysNamed DEF KeysInv
<1>4. ASSUME NEW d \in MyDevices, Refers(d) PROVE KeysInv'
    <2>1. \A e \in MyDevices : read[e] = NoKey
        BY <1>4 DEF Refers, KeysInv
    <2>2. reference' = [by |-> d, key |-> views[d]] /\ views[d] # NoKey /\ UNCHANGED <<message, views, read>>
        BY <1>4 DEF Refers
    <2> QED BY <1>0, <2>1, <2>2, StaysNamed DEF KeysInv
<1>5. ASSUME NEW e \in MyDevices, ReadsReference(e) PROVE KeysInv'
    <2>1. reference.by \notin {NoSender, e} /\ e \in Members /\ UNCHANGED <<message, views, reference>>
        BY <1>5 DEF ReadsReference
    <2>2. reference.key = ViewOf(message, reference.by)
        BY <2>1 DEF KeysInv
    <2>3. read' = [read EXCEPT ![e] = ReadOf(message, reference.by, e)]
        BY <1>5, <2>2 DEF ReadsReference, ReadOf
    <2> QED BY <1>0, <2>1, <2>3, StaysNamed DEF KeysInv
<1> QED BY <1>1, <1>2, <1>3, <1>4, <1>5 DEF KeysNext

\* A reaction or a vote means, for whoever reads it, the message that he has
\* himself: for any users, any number of devices, and either kind of chat.
THEOREM KeysAgree == KeysSpec => []KeysMatch
<1>1. KeysInv => KeysMatch
    <2> SUFFICES ASSUME KeysInv, NEW e \in MyDevices, read[e] # NoKey, views[e] # NoKey, LidsKnown
                 PROVE  /\ read[e].remoteJid = views[e].remoteJid
                        /\ read[e].fromMe <=> views[e].fromMe
                        /\ message # reference.by => GetKeyAuthor(read[e], e) = GetKeyAuthor(views[e], e)
                        /\ chat.form = "pn" => SameUser(GetKeyAuthor(read[e], e), JidOf(message, "pn"))
        BY DEF KeysMatch, LidsKnown
    <2>1. /\ chat \in Chats /\ message \in Members /\ e \in Members
          /\ reference.by \in Members /\ reference.by # e
          /\ views[e] = ViewOf(message, e) /\ read[e] = ReadOf(message, reference.by, e)
        BY DEF KeysInv
    <2>2. SamePlace(message, reference.by, e) /\ SameSide(message, reference.by, e) /\ SameAuthor(message, reference.by, e)
        BY <2>1, SameInGroup, SameInPair DEF Chats
    <2> QED BY <2>1, <2>2 DEF SamePlace, SameSide, SameAuthor
<1> QED BY InitiallyUnnamed, StepNames, <1>1, PTL DEF KeysSpec
-----------------------------------------------------------------------------
(***************************************************************************)
(* What is attached to a message, for any authors, options and texts.      *)
(***************************************************************************)
Texts0 == [author : Attachers, text : Texts]
Times0 == [read : Nat, delivered : Nat]
Receipts0 == [author : Attachers, times : Times0]
Votes0 == [author : Attachers, options : SUBSET Options]
Attachables == [there : BOOLEAN, reactions : Seq(Texts0), receipts : Seq(Receipts0), votes : Seq(Votes0)]

Reaction0 == {<<>>} \cup {<<text>> : text \in Texts}

\* A list has of an author what he attached last, if he did.
ReactionIn(list, a, r) == IF r = <<>> THEN OfAuthor(list, a) = {} ELSE Only(list, a, [author |-> a, text |-> r[1]])
ReceiptIn(list, a, t) == IF t = Unread THEN OfAuthor(list, a) = {} ELSE Only(list, a, [author |-> a, times |-> t])
VoteIn(list, a, options) == IF options = {} THEN OfAuthor(list, a) = {} ELSE Only(list, a, [author |-> a, options |-> options])

\* Of two receipts of one user what the new one has goes first.
Over(new, old) == IF new = 0 THEN old ELSE new
Together(t, s) == [read |-> Over(t.read, s.read), delivered |-> Over(t.delivered, s.delivered)]

\* The message m and what waits beside it have of an author what he attached last.
HasNewest(m, b, a, new) ==
    /\ IF OfAuthor(b.reactions, a) = {} THEN ReactionIn(m.reactions, a, new.reaction[a])
       ELSE ReactionIn(b.reactions, a, new.reaction[a])
    /\ \E s, t \in Times0 :
          ReceiptIn(m.receipts, a, s) /\ ReceiptIn(b.receipts, a, t) /\ new.receipt[a] = Together(t, s)
    /\ VoteIn(m.votes, a, new.vote[a])

MessageHas(a) == HasNewest(IF heldBack.there THEN heldBack ELSE shown, beside, a, newest)

NewestOf == [reaction : [Attachers -> Reaction0], receipt : [Attachers -> Times0], vote : [Attachers -> SUBSET Options]]

AttachTyped ==
    /\ holding \in BOOLEAN /\ attached \in Nat /\ passed \subseteq Attachers
    /\ heldBack \in Attachables /\ beside \in Attachables /\ shown \in Attachables
    /\ newest \in NewestOf

AttachInv ==
    /\ AttachTyped
    /\ ~heldBack.there => heldBack = NoMessage
    /\ ~shown.there => shown = NoMessage
    /\ ~(heldBack.there /\ shown.there)
    /\ ~heldBack.there /\ ~shown.there => passed = {}
    /\ ~holding => heldBack = NoMessage /\ beside = NoMessage /\ (shown.there \/ newest = Nothing0)
    /\ heldBack.there => \A a \in Attachers \ passed : OfAuthor(beside.reactions, a) = {} /\ OfAuthor(beside.receipts, a) = {}
    /\ \A a \in Attachers \ passed : MessageHas(a)
-----------------------------------------------------------------------------
(* Lists: appending, filtering, and what they do to an author's entry.     *)

\* A set of naturals has a least element: what stands for induction below.
LEMMA LeastIn ==
    ASSUME NEW T \in SUBSET Nat, T # {}
    PROVE  \E m \in T : \A k \in T : m <= k
<1>1. PICK m \in T : \A k \in T : ~(<<k, m>> \in OpToRel(<, Nat))
    BY WFMin, NatLessThanWellFounded, Zenon
<1>2. \A k \in T : ~(k < m)
    BY <1>1, Zenon DEF OpToRel
<1> QED BY <1>2

\* A list keeps what another has of an author.
Keeps(new, old, a) ==
    /\ OfAuthor(old, a) = {} => OfAuthor(new, a) = {}
    /\ \A e : Only(old, a, e) => Only(new, a, e)

LEMMA KeepsTwice == ASSUME NEW r, NEW s, NEW t, NEW a, Keeps(r, s, a), Keeps(s, t, a) PROVE Keeps(r, t, a)
BY DEF Keeps

\* An entry at the end is the only one of its author, if he had none.
Appended(list, e) ==
    /\ OfAuthor(list, e.author) = {} => Only(Append(list, e), e.author, e)
    /\ \A a : a # e.author => Keeps(Append(list, e), list, a)

LEMMA AppendIs == ASSUME NEW T, NEW list \in Seq(T), NEW e \in T PROVE Appended(list, e) /\ Append(list, e) \in Seq(T)
<1> DEFINE new == Append(list, e)
           last == Len(list) + 1
<1>1. /\ new \in Seq(T) /\ Len(list) \in Nat /\ DOMAIN list = 1 .. Len(list) /\ DOMAIN new = 1 .. last
      /\ new[last] = e /\ \A n \in 1 .. Len(list) : new[n] = list[n]
    OBVIOUS
<1> HIDE DEF new
<1>2. ASSUME OfAuthor(list, e.author) = {} PROVE Only(new, e.author, e)
    <2>1. OfAuthor(new, e.author) = {last}
        BY <1>1, <1>2 DEF OfAuthor
    <2> QED BY <1>1, <2>1 DEF Only
<1>3. ASSUME NEW a, a # e.author PROVE Keeps(new, list, a)
    <2>1. OfAuthor(new, a) = OfAuthor(list, a)
        BY <1>1, <1>3 DEF OfAuthor
    <2>2. \A n \in OfAuthor(list, a) : n \in DOMAIN new /\ new[n] = list[n]
        BY <1>1 DEF OfAuthor
    <2> QED BY <2>1, <2>2 DEF Keeps, Only
<1> QED BY <1>1, <1>2, <1>3 DEF Appended, new

\* What a filter leaves of an author.
FilteredRight(list, keep, a) ==
    /\ OfAuthor(list, a) \cap keep = {} => OfAuthor(Filtered(list, keep), a) = {}
    /\ \A p \in DOMAIN list : OfAuthor(list, a) \cap keep = {p} => Only(Filtered(list, keep), a, list[p])

LEMMA FilteredIs ==
    ASSUME NEW T, NEW list \in Seq(T), NEW keep, NEW a
    PROVE  FilteredRight(list, keep, a) /\ Filtered(list, keep) \in Seq(T)
<1> DEFINE Def(f, m) ==
               f = [n \in 0 .. m |-> IF n = 0 THEN <<>> ELSE IF n \in keep THEN Append(f[n - 1], list[n]) ELSE f[n - 1]]
           kept == CHOOSE f : Def(f, Len(list))
<1>1. Len(list) \in Nat /\ \A n \in 1 .. Len(list) : list[n] \in T
    OBVIOUS
<1>2. Filtered(list, keep) = kept[Len(list)]
    BY DEF Filtered
<1>3. ASSUME NEW m \in 1 .. Len(list), NEW f, Def(f, m - 1) PROVE \E g : Def(g, m)
    <2> DEFINE x == IF m \in keep THEN Append(f[m - 1], list[m]) ELSE f[m - 1]
               g == [n \in 0 .. m |-> IF n = m THEN x ELSE f[n]]
    <2>1. m \in Nat /\ m # 0 /\ m - 1 \in 0 .. m
        BY <1>1
    <2>2. ASSUME NEW n \in 0 .. m
          PROVE  g[n] = IF n = 0 THEN <<>> ELSE IF n \in keep THEN Append(g[n - 1], list[n]) ELSE g[n - 1]
        <3>1. CASE n = m
            <4>1. g[n] = x /\ g[n - 1] = f[m - 1]
                BY <2>1, <3>1
            <4> QED BY <2>1, <3>1, <4>1
        <3>2. CASE n # m
            <4>1. n \in 0 .. m - 1 /\ (n # 0 => n - 1 \in 0 .. m /\ n - 1 # m)
                BY <2>1, <3>2
            <4>2. g[n] = f[n] /\ (n # 0 => g[n - 1] = f[n - 1])
                BY <3>2, <4>1
            <4>3. f[n] = IF n = 0 THEN <<>> ELSE IF n \in keep THEN Append(f[n - 1], list[n]) ELSE f[n - 1]
                BY <1>3, <4>1
            <4> HIDE DEF g
            <4> QED BY <4>2, <4>3
        <3> QED BY <3>1, <3>2
    <2>3. Def(g, m)
        BY <2>2
    <2> QED BY <2>3
<1> HIDE DEF Def
<1>4. \E f : Def(f, Len(list))
    <2> DEFINE S == {m \in 0 .. Len(list) : ~ \E f : Def(f, m)}
    <2>1. SUFFICES ASSUME S # {} PROVE FALSE
        BY <1>1
    <2>2. S \in SUBSET Nat
        BY <1>1
    <2>3. PICK m \in S : \A k \in S : m <= k
        BY <2>1, <2>2, LeastIn
    <2>4. m # 0
        <3> DEFINE f == [n \in 0 .. 0 |-> <<>>]
        <3>1. Def(f, 0)
            BY DEF Def
        <3> QED BY <3>1
    <2>5. m - 1 \in 0 .. Len(list) /\ m - 1 \notin S /\ m \in 1 .. Len(list)
        BY <1>1, <2>3, <2>4
    <2>6. PICK f : Def(f, m - 1)
        BY <2>5
    <2> QED BY <1>3, <2>3, <2>5, <2>6
<1>5. Def(kept, Len(list))
    BY <1>4
<1> HIDE DEF kept
<1>6. /\ kept[0] = <<>>
      /\ \A n \in 1 .. Len(list) : kept[n] = IF n \in keep THEN Append(kept[n - 1], list[n]) ELSE kept[n - 1]
    <2>1. \A n \in 0 .. Len(list) :
              kept[n] = IF n = 0 THEN <<>> ELSE IF n \in keep THEN Append(kept[n - 1], list[n]) ELSE kept[n - 1]
        BY <1>5 DEF Def
    <2>2. 0 \in 0 .. Len(list) /\ \A n \in 1 .. Len(list) : n \in 0 .. Len(list) /\ n # 0
        BY <1>1
    <2> QED BY <2>1, <2>2
<1> DEFINE Of(n) == {p \in 1 .. n : p \in keep /\ list[p].author = a}
           Good(n) == /\ kept[n] \in Seq(T)
                      /\ Of(n) = {} => OfAuthor(kept[n], a) = {}
                      /\ \A p \in 1 .. n : Of(n) = {p} => Only(kept[n], a, list[p])
           Bad == {n \in 0 .. Len(list) : ~ Good(n)}
<1>7. Good(0)
    BY <1>6 DEF OfAuthor
<1>8. ASSUME NEW n \in 1 .. Len(list), Good(n - 1) PROVE Good(n)
    <2> DEFINE old == kept[n - 1]
               new == kept[n]
               e == list[n]
    <2>1. n \in Nat /\ e \in T /\ old \in Seq(T) /\ new = IF n \in keep THEN Append(old, e) ELSE old
        BY <1>1, <1>6, <1>8
    <2>2. /\ Of(n - 1) = {} => OfAuthor(old, a) = {}
          /\ \A p \in 1 .. n - 1 : Of(n - 1) = {p} => Only(old, a, list[p])
        BY <1>8
    <2>3. Appended(old, e) /\ Append(old, e) \in Seq(T)
        BY <2>1, AppendIs
    <2> HIDE DEF old, new
    <2>4. CASE n \in keep /\ e.author = a
        <3>1. Of(n) = Of(n - 1) \cup {n} /\ n \notin Of(n - 1)
            BY <2>1, <2>4
        <3>2. ASSUME NEW p \in 1 .. n, Of(n) = {p} PROVE Only(new, a, list[p])
            <4>1. p = n /\ Of(n - 1) = {}
                BY <3>1, <3>2
            <4>2. OfAuthor(old, a) = {}
                BY <2>2, <4>1
            <4> QED BY <2>1, <2>3, <2>4, <4>1, <4>2 DEF Appended
        <3> QED BY <2>1, <2>3, <2>4, <3>1, <3>2 DEF new
    <2>5. CASE ~(n \in keep /\ e.author = a)
        <3>1. Of(n) = Of(n - 1)
            BY <2>1, <2>5
        <3>2. Keeps(new, old, a) /\ new \in Seq(T)
            BY <2>1, <2>3, <2>5 DEF Appended, Keeps
        <3>3. ASSUME NEW p \in 1 .. n, Of(n) = {p} PROVE Only(new, a, list[p])
            <4>1. p \in 1 .. n - 1 /\ Of(n - 1) = {p}
                BY <3>1, <3>3
            <4>2. Only(old, a, list[p])
                BY <2>2, <4>1
            <4> QED BY <3>2, <4>2 DEF Keeps
        <3> QED BY <2>2, <3>1, <3>2, <3>3 DEF Keeps, new
    <2> QED BY <2>4, <2>5
<1>9. Good(Len(list))
    <2> HIDE DEF Good
    <2>1. SUFFICES ASSUME Bad # {} PROVE FALSE
        BY <1>1
    <2>2. Bad \in SUBSET Nat
        BY <1>1
    <2>3. PICK n \in Bad : \A k \in Bad : n <= k
        BY <2>1, <2>2, LeastIn
    <2>4. n # 0
        BY <1>7, <2>3
    <2>5. n - 1 \in 0 .. Len(list) /\ n - 1 \notin Bad /\ n \in 1 .. Len(list)
        BY <1>1, <2>3, <2>4
    <2>6. Good(n - 1)
        BY <2>5
    <2> QED BY <1>8, <2>3, <2>5, <2>6
<1>10. Of(Len(list)) = OfAuthor(list, a) \cap keep /\ DOMAIN list = 1 .. Len(list)
    BY DEF OfAuthor
<1> HIDE DEF Of
<1> QED BY <1>2, <1>9, <1>10 DEF FilteredRight

WithoutRight(list, a) ==
    /\ OfAuthor(Without(list, a), a) = {}
    /\ \A b : b # a => Keeps(Without(list, a), list, b)

LEMMA WithoutIs ==
    ASSUME NEW T, NEW list \in Seq(T), NEW a
    PROVE  WithoutRight(list, a) /\ Without(list, a) \in Seq(T)
<1> DEFINE keep == DOMAIN list \ OfAuthor(list, a)
           rest == Filtered(list, keep)
<1>1. rest = Without(list, a)
    BY DEF Without
<1> HIDE DEF keep
<1>2. rest \in Seq(T) /\ \A b : FilteredRight(list, keep, b)
    BY FilteredIs
<1>3. OfAuthor(rest, a) = {}
    <2>1. OfAuthor(list, a) \cap keep = {}
        BY DEF keep
    <2> QED BY <1>2, <2>1 DEF FilteredRight
<1>4. ASSUME NEW b, b # a PROVE Keeps(rest, list, b)
    <2>1. OfAuthor(list, b) \cap keep = OfAuthor(list, b) /\ OfAuthor(list, b) \subseteq DOMAIN list
        BY <1>4 DEF OfAuthor, keep
    <2>2. FilteredRight(list, keep, b)
        BY <1>2
    <2> QED BY <2>1, <2>2 DEF FilteredRight, Keeps, Only
<1> QED BY <1>1, <1>2, <1>3, <1>4 DEF WithoutRight

\* An entry that replaces those of its author.
Replaced(new, list, e) ==
    /\ Only(new, e.author, e)
    /\ \A b : b # e.author => Keeps(new, list, b)

LEMMA ReplacedIs ==
    ASSUME NEW T, NEW list \in Seq(T), NEW e \in T
    PROVE  Replaced(Append(Without(list, e.author), e), list, e) /\ Append(Without(list, e.author), e) \in Seq(T)
<1> DEFINE rest == Without(list, e.author)
<1>1. WithoutRight(list, e.author) /\ rest \in Seq(T)
    BY WithoutIs
<1>2. OfAuthor(rest, e.author) = {} /\ \A b : b # e.author => Keeps(rest, list, b)
    BY <1>1 DEF WithoutRight
<1> HIDE DEF rest
<1>3. Appended(rest, e) /\ Append(rest, e) \in Seq(T)
    BY <1>1, AppendIs
<1>4. Only(Append(rest, e), e.author, e)
    BY <1>2, <1>3 DEF Appended
<1>5. ASSUME NEW b, b # e.author PROVE Keeps(Append(rest, e), list, b)
    <2>1. Keeps(Append(rest, e), rest, b) /\ Keeps(rest, list, b)
        BY <1>2, <1>3, <1>5 DEF Appended
    <2> QED BY <2>1, KeepsTwice
<1> QED BY <1>3, <1>4, <1>5 DEF Replaced, rest

Rest(r, m, lists) ==
    /\ r \in Attachables /\ r.there = m.there
    /\ "reactions" \in lists => r.reactions = m.reactions
    /\ "receipts" \in lists => r.receipts = m.receipts
    /\ "votes" \in lists => r.votes = m.votes

\* A reaction takes the place of those of its author.
Reacted(r, m, a, text) ==
    /\ Rest(r, m, {"receipts", "votes"})
    /\ Only(r.reactions, a, [author |-> a, text |-> text])
    /\ \A b : b # a => Keeps(r.reactions, m.reactions, b)

LEMMA WithReactionIs ==
    ASSUME NEW m \in Attachables, NEW a \in Attachers, NEW text \in Texts
    PROVE  Reacted(WithReaction(m, a, text), m, a, text)
<1> DEFINE e == [author |-> a, text |-> text]
           list == Append(Without(m.reactions, a), e)
           r == WithReaction(m, a, text)
<1>1. m.reactions \in Seq(Texts0) /\ e \in Texts0 /\ e.author = a
    BY DEF Attachables, Texts0
<1>2. Replaced(list, m.reactions, e) /\ list \in Seq(Texts0)
    <2> DEFINE old == m.reactions
    <2> HIDE DEF old, e
    <2>1. Replaced(Append(Without(old, e.author), e), old, e) /\ Append(Without(old, e.author), e) \in Seq(Texts0)
        BY <1>1, ReplacedIs DEF old
    <2> QED BY <1>1, <2>1 DEF old
<1> HIDE DEF list
<1>3. r = [m EXCEPT !.reactions = list]
    BY DEF WithReaction, list
<1>4. Rest(r, m, {"receipts", "votes"}) /\ r.reactions = list
    BY <1>2, <1>3 DEF Rest, Attachables
<1> QED BY <1>1, <1>2, <1>4 DEF Reacted, Replaced

\* A vote takes the place of those of its author, or leaves it empty.
Voted(r, m, a, options) ==
    /\ Rest(r, m, {"reactions", "receipts"})
    /\ VoteIn(r.votes, a, options)
    /\ \A b : b # a => Keeps(r.votes, m.votes, b)

LEMMA WithVoteIs ==
    ASSUME NEW m \in Attachables, NEW a \in Attachers, NEW options \in SUBSET Options
    PROVE  Voted(WithVote(m, a, options), m, a, options)
<1> DEFINE e == [author |-> a, options |-> options]
           old == m.votes
           rest == Without(old, a)
           list == Append(rest, e)
           r == WithVote(m, a, options)
<1>1. old \in Seq(Votes0) /\ e \in Votes0 /\ e.author = a
    BY DEF Attachables, Votes0
<1> HIDE DEF old, e
<1>2. Replaced(list, old, e) /\ list \in Seq(Votes0)
    <2>1. Replaced(Append(Without(old, e.author), e), old, e) /\ Append(Without(old, e.author), e) \in Seq(Votes0)
        BY <1>1, ReplacedIs
    <2> QED BY <1>1, <2>1
<1>3. WithoutRight(old, a) /\ rest \in Seq(Votes0)
    BY <1>1, WithoutIs
<1> HIDE DEF list, rest
<1>4. r = [m EXCEPT !.votes = IF options = {} THEN rest ELSE list]
    BY DEF WithVote, list, rest, e, old
<1>5. Rest(r, m, {"reactions", "receipts"}) /\ r.votes = IF options = {} THEN rest ELSE list
    BY <1>2, <1>3, <1>4 DEF Rest, Attachables
<1>6. CASE options = {}
    BY <1>3, <1>5, <1>6 DEF Voted, VoteIn, WithoutRight, rest, old
<1>7. CASE options # {}
    <2>1. Only(list, a, e) /\ \A b : b # a => Keeps(list, old, b)
        BY <1>1, <1>2 DEF Replaced
    <2> QED BY <1>5, <1>7, <2>1 DEF Voted, VoteIn, e, old
<1> QED BY <1>6, <1>7

\* A receipt is put on that of its author, and leaves the others as they are.
Received(r, m, a, what, at) ==
    /\ Rest(r, m, {"reactions", "votes"})
    /\ \A t \in Times0 : ReceiptIn(m.receipts, a, t) => ReceiptIn(r.receipts, a, Assigned(t, what, at))
    /\ \A b : b # a => Keeps(r.receipts, m.receipts, b)

LEMMA AssignedIs ==
    ASSUME NEW t \in Times0, NEW what \in {"read", "delivered"}, NEW at \in Nat \ {0}
    PROVE  Assigned(t, what, at) \in Times0 /\ Assigned(t, what, at) # Unread
BY DEF Assigned, Times0, Unread

LEMMA WithReceiptIs ==
    ASSUME NEW m \in Attachables, NEW a \in Attachers, NEW what \in {"read", "delivered"}, NEW at \in Nat \ {0}
    PROVE  Received(WithReceipt(m, a, what, at), m, a, what, at)
<1> DEFINE old == m.receipts
           r == WithReceipt(m, a, what, at)
<1>1. old \in Seq(Receipts0) /\ DOMAIN old = 1 .. Len(old) /\ \A n \in DOMAIN old : old[n] \in Receipts0
    BY DEF Attachables
<1>2. Unread \in Times0
    BY DEF Unread, Times0
<1>3. CASE OfAuthor(old, a) # {}
    <2> DEFINE put(e) == Stamped(e, what, at)
               list == [n \in DOMAIN old |-> IF old[n].author = a THEN put(old[n]) ELSE old[n]]
    <2>1. r = [m EXCEPT !.receipts = list]
        <3>1. \E n \in DOMAIN m.receipts : m.receipts[n].author = a
            BY <1>3 DEF OfAuthor
        <3> QED BY <3>1, Zenon DEF WithReceipt
    <2>2. \A e \in Receipts0 : put(e) \in Receipts0 /\ put(e).author = e.author /\ put(e).times = Assigned(e.times, what, at)
        BY AssignedIs DEF Receipts0, Stamped
    <2> HIDE DEF put
    <2>3. list \in Seq(Receipts0)
        BY <1>1, <2>2
    <2>4. DOMAIN list = DOMAIN old /\ \A n \in DOMAIN old : list[n] = IF old[n].author = a THEN put(old[n]) ELSE old[n]
        OBVIOUS
    <2> HIDE DEF list
    <2>5. \A b : OfAuthor(list, b) = OfAuthor(old, b)
        BY <1>1, <2>2, <2>4 DEF OfAuthor
    <2>6. ASSUME NEW b, b # a PROVE Keeps(list, old, b)
        BY <2>4, <2>5, <2>6 DEF Keeps, Only, OfAuthor
    <2>7. ASSUME NEW t \in Times0, ReceiptIn(old, a, t) PROVE ReceiptIn(list, a, Assigned(t, what, at))
        <3> DEFINE e == [author |-> a, times |-> t]
                   f == [author |-> a, times |-> Assigned(t, what, at)]
        <3>1. Only(old, a, e)
            BY <1>3, <2>7 DEF ReceiptIn
        <3>2. PICK n \in DOMAIN old : OfAuthor(old, a) = {n} /\ old[n] = e
            BY <3>1 DEF Only
        <3>3. list[n] = put(e) /\ OfAuthor(list, a) = {n} /\ n \in DOMAIN list
            BY <2>4, <2>5, <3>2
        <3>4. put(e) = f
            BY DEF put, Stamped
        <3>5. Only(list, a, f)
            BY <3>3, <3>4 DEF Only
        <3>6. Assigned(t, what, at) # Unread
            BY AssignedIs
        <3> QED BY <3>5, <3>6 DEF ReceiptIn
    <2>8. Rest(r, m, {"reactions", "votes"}) /\ r.receipts = list
        BY <2>1, <2>3 DEF Rest, Attachables
    <2> QED BY <2>6, <2>7, <2>8 DEF Received
<1>4. CASE OfAuthor(old, a) = {}
    <2> DEFINE e == [author |-> a, times |-> Assigned(Unread, what, at)]
               list == Append(old, e)
    <2>1. r = [m EXCEPT !.receipts = list]
        BY <1>4 DEF WithReceipt, OfAuthor
    <2>2. e \in Receipts0 /\ e.author = a /\ Assigned(Unread, what, at) # Unread
        BY <1>2, AssignedIs DEF Receipts0
    <2> HIDE DEF e, old
    <2>3. Appended(old, e) /\ list \in Seq(Receipts0)
        BY <1>1, <2>2, AppendIs
    <2> HIDE DEF list
    <2>4. Only(list, a, e) /\ \A b : b # a => Keeps(list, old, b)
        BY <1>4, <2>2, <2>3 DEF Appended, list
    <2>5. ASSUME NEW t \in Times0, ReceiptIn(old, a, t) PROVE ReceiptIn(list, a, Assigned(t, what, at))
        <3>1. t = Unread
            BY <1>4, <2>5 DEF ReceiptIn, Only
        <3> QED BY <2>2, <2>4, <3>1 DEF ReceiptIn, e
    <2>6. Rest(r, m, {"reactions", "votes"}) /\ r.receipts = list
        BY <2>1, <2>3 DEF Rest, Attachables
    <2> QED BY <2>4, <2>5, <2>6 DEF Received, old
<1> QED BY <1>3, <1>4

\* What the reactions that waited beside a message make of it.
ReactedAll(r, m, list, a) ==
    /\ Rest(r, m, {"receipts", "votes"})
    /\ OfAuthor(list, a) = {} => Keeps(r.reactions, m.reactions, a)
    /\ \A e : Only(list, a, e) => Only(r.reactions, a, e)

LEMMA AllReactionsIs ==
    ASSUME NEW m \in Attachables, NEW list \in Seq(Texts0), NEW a
    PROVE  ReactedAll(AllReactions(m, list), m, list, a)
<1> DEFINE Has(r, old, e) == Only(r.reactions, a, e)
           After(r, n) == WithReaction(r, list[n].author, list[n].text)
           Def(f, k) == f = [n \in 0 .. k |-> IF n = 0 THEN m ELSE After(f[n - 1], n)]
           after == CHOOSE f : Def(f, Len(list))
<1>1. Len(list) \in Nat /\ DOMAIN list = 1 .. Len(list) /\ \A n \in 1 .. Len(list) : list[n] \in Texts0
    OBVIOUS
<1>2. AllReactions(m, list) = after[Len(list)]
    BY DEF AllReactions
<1> HIDE DEF After
<1>3. ASSUME NEW k \in 1 .. Len(list), NEW f, Def(f, k - 1) PROVE \E g : Def(g, k)
    <2> DEFINE x == After(f[k - 1], k)
               g == [n \in 0 .. k |-> IF n = k THEN x ELSE f[n]]
    <2>1. k \in Nat /\ k # 0 /\ k - 1 \in 0 .. k
        BY <1>1
    <2>2. ASSUME NEW n \in 0 .. k PROVE g[n] = IF n = 0 THEN m ELSE After(g[n - 1], n)
        <3>1. CASE n = k
            <4>1. g[n] = x /\ g[n - 1] = f[k - 1]
                BY <2>1, <3>1
            <4> QED BY <2>1, <3>1, <4>1
        <3>2. CASE n # k
            <4>1. n \in 0 .. k - 1 /\ (n # 0 => n - 1 \in 0 .. k /\ n - 1 # k)
                BY <2>1, <3>2
            <4>2. g[n] = f[n] /\ (n # 0 => g[n - 1] = f[n - 1])
                BY <3>2, <4>1
            <4>3. f[n] = IF n = 0 THEN m ELSE After(f[n - 1], n)
                BY <1>3, <4>1
            <4> HIDE DEF g
            <4> QED BY <4>2, <4>3
        <3> QED BY <3>1, <3>2
    <2>3. Def(g, k)
        BY <2>2
    <2> QED BY <2>3
<1> HIDE DEF Def
<1>4. \E f : Def(f, Len(list))
    <2> DEFINE S == {k \in 0 .. Len(list) : ~ \E f : Def(f, k)}
    <2>1. SUFFICES ASSUME S # {} PROVE FALSE
        BY <1>1
    <2>2. S \in SUBSET Nat
        BY <1>1
    <2>3. PICK k \in S : \A l \in S : k <= l
        BY <2>1, <2>2, LeastIn
    <2>4. k # 0
        <3> DEFINE f == [n \in 0 .. 0 |-> m]
        <3>1. Def(f, 0)
            BY DEF Def
        <3> QED BY <3>1
    <2>5. k - 1 \in 0 .. Len(list) /\ k - 1 \notin S /\ k \in 1 .. Len(list)
        BY <1>1, <2>3, <2>4
    <2>6. PICK f : Def(f, k - 1)
        BY <2>5
    <2> QED BY <1>3, <2>3, <2>5, <2>6
<1>5. Def(after, Len(list))
    BY <1>4
<1> HIDE DEF after
<1>6. after[0] = m /\ \A n \in 1 .. Len(list) : after[n] = After(after[n - 1], n)
    <2>1. \A n \in 0 .. Len(list) : after[n] = IF n = 0 THEN m ELSE After(after[n - 1], n)
        BY <1>5 DEF Def
    <2>2. 0 \in 0 .. Len(list) /\ \A n \in 1 .. Len(list) : n \in 0 .. Len(list) /\ n # 0
        BY <1>1
    <2> QED BY <2>1, <2>2
<1> DEFINE Of(n) == {p \in 1 .. n : list[p].author = a}
           Good(n) == /\ Rest(after[n], m, {"receipts", "votes"})
                      /\ Of(n) = {} => Keeps(after[n].reactions, m.reactions, a)
                      /\ \A p \in 1 .. n : Of(n) = {p} => Has(after[n], m, list[p])
           Bad == {n \in 0 .. Len(list) : ~ Good(n)}
<1>7. Good(0)
    BY <1>6 DEF Rest, Keeps
<1>8. ASSUME NEW n \in 1 .. Len(list), Good(n - 1) PROVE Good(n)
    <2> DEFINE old == after[n - 1]
               new == after[n]
               e == list[n]
    <2>1. n \in Nat /\ e \in Texts0 /\ old \in Attachables /\ new = After(old, n) /\ Rest(old, m, {"receipts", "votes"})
        BY <1>1, <1>6, <1>8 DEF Rest
    <2>2. /\ Of(n - 1) = {} => Keeps(old.reactions, m.reactions, a)
          /\ \A p \in 1 .. n - 1 : Of(n - 1) = {p} => Has(old, m, list[p])
        BY <1>8
    <2> HIDE DEF old, new, e, Has
    <2>3. Reacted(new, old, e.author, e.text)
        <3>1. new = WithReaction(old, e.author, e.text)
            BY <2>1 DEF After, e
        <3> QED BY <2>1, <3>1, WithReactionIs DEF Texts0
    <2>4. Rest(new, m, {"receipts", "votes"})
        BY <2>1, <2>3 DEF Reacted, Rest
    <2>5. CASE e.author = a
        <3>1. Of(n) = Of(n - 1) \cup {n} /\ n \notin Of(n - 1)
            BY <2>1, <2>5 DEF e
        <3>2. ASSUME NEW p \in 1 .. n, Of(n) = {p} PROVE Has(new, m, list[p])
            <4>1. p = n /\ Of(n - 1) = {}
                BY <3>1, <3>2
            <4>2. Keeps(old.reactions, m.reactions, a)
                BY <2>2, <4>1
            <4>3. Only(new.reactions, a, [author |-> a, text |-> e.text]) /\ e = [author |-> a, text |-> e.text]
                BY <2>1, <2>3, <2>5 DEF Reacted, Texts0
            <4> QED BY <4>1, <4>3 DEF Has, e
        <3> QED BY <2>4, <3>1, <3>2 DEF new
    <2>6. CASE e.author # a
        <3>1. Of(n) = Of(n - 1)
            BY <2>1, <2>6 DEF e
        <3>2. Keeps(new.reactions, old.reactions, a)
            BY <2>3, <2>6 DEF Reacted
        <3>3. ASSUME NEW p \in 1 .. n, Of(n) = {p} PROVE Has(new, m, list[p])
            <4>1. p \in 1 .. n - 1 /\ Of(n - 1) = {p}
                BY <3>1, <3>3
            <4>2. Has(old, m, list[p])
                BY <2>2, <4>1
            <4> QED BY <3>2, <4>2 DEF Has, Keeps
        <3>4. Of(n) = {} => Keeps(new.reactions, m.reactions, a)
            BY <2>2, <3>1, <3>2, KeepsTwice
        <3> QED BY <2>4, <3>3, <3>4 DEF new
    <2> QED BY <2>5, <2>6
<1> HIDE DEF Has
<1>9. Good(Len(list))
    <2> HIDE DEF Good
    <2>1. SUFFICES ASSUME Bad # {} PROVE FALSE
        BY <1>1
    <2>2. Bad \in SUBSET Nat
        BY <1>1
    <2>3. PICK n \in Bad : \A k \in Bad : n <= k
        BY <2>1, <2>2, LeastIn
    <2>4. n # 0
        BY <1>7, <2>3
    <2>5. n - 1 \in 0 .. Len(list) /\ n - 1 \notin Bad /\ n \in 1 .. Len(list)
        BY <1>1, <2>3, <2>4
    <2>6. Good(n - 1)
        BY <2>5
    <2> QED BY <1>8, <2>3, <2>5, <2>6
<1>10. Of(Len(list)) = OfAuthor(list, a) /\ \A p \in OfAuthor(list, a) : p \in 1 .. Len(list)
    BY <1>1 DEF OfAuthor
<1> HIDE DEF Of
<1>11. ASSUME NEW e, Only(list, a, e) PROVE Only(after[Len(list)].reactions, a, e)
    <2>1. PICK p \in DOMAIN list : OfAuthor(list, a) = {p} /\ list[p] = e
        BY <1>11 DEF Only
    <2>2. Has(after[Len(list)], m, list[p])
        BY <1>1, <1>9, <1>10, <2>1
    <2> QED BY <2>1, <2>2 DEF Has
<1> QED BY <1>2, <1>9, <1>10, <1>11 DEF ReactedAll

\* What a receipt that waited makes of a message.
ReceiptKept(r, m, a) == \A s \in Times0 : ReceiptIn(m, a, s) => ReceiptIn(r, a, s)

LEMMA KeepsReceipt == ASSUME NEW r, NEW m, NEW a, Keeps(r, m, a) PROVE ReceiptKept(r, m, a)
BY DEF ReceiptKept, ReceiptIn, Keeps

Given(r, m, e) ==
    /\ Rest(r, m, {"reactions", "votes"})
    /\ \A s \in Times0 : ReceiptIn(m.receipts, e.author, s) => ReceiptIn(r.receipts, e.author, Together(e.times, s))
    /\ \A b : b # e.author => Keeps(r.receipts, m.receipts, b)

LEMMA ReceiptedIs ==
    ASSUME NEW m \in Attachables, NEW e \in Receipts0
    PROVE  Given(Receipted(m, e), m, e)
<1> DEFINE a == e.author
           d == e.times.delivered
           w == e.times.read
           x == IF d = 0 THEN m ELSE WithReceipt(m, a, "delivered", d)
           y == IF w = 0 THEN x ELSE WithReceipt(x, a, "read", w)
           Then(s) == [s EXCEPT !.delivered = Over(d, @)]
<1>1. Receipted(m, e) = y
    BY DEF Receipted
<1>2. a \in Attachers /\ d \in Nat /\ w \in Nat
    BY DEF Receipts0, Times0
<1> HIDE DEF a, d, w
<1>3. /\ Rest(x, m, {"reactions", "votes"})
      /\ \A s \in Times0 : ReceiptIn(m.receipts, a, s) => ReceiptIn(x.receipts, a, Then(s))
      /\ \A b : b # a => Keeps(x.receipts, m.receipts, b)
    <2>1. CASE d = 0
        <3>1. x = m /\ \A s \in Times0 : Then(s) = s
            BY <2>1 DEF Over, Times0
        <3> HIDE DEF x
        <3> QED BY <3>1 DEF Rest, Keeps
    <2>2. CASE d # 0
        <3>1. x = WithReceipt(m, a, "delivered", d) /\ \A s \in Times0 : Then(s) = Assigned(s, "delivered", d)
            BY <2>2 DEF Over, Times0, Assigned
        <3> HIDE DEF x, Then
        <3>2. d \in Nat \ {0}
            BY <1>2, <2>2
        <3>3. Received(WithReceipt(m, a, "delivered", d), m, a, "delivered", d)
            BY <1>2, <3>2, WithReceiptIs
        <3>4. Received(x, m, a, "delivered", d)
            BY <3>1, <3>3
        <3> QED BY <3>1, <3>4 DEF Received
    <2> QED BY <2>1, <2>2
<1>4. x \in Attachables /\ \A s \in Times0 : Then(s) \in Times0
    <2>1. \A s \in Times0 : Then(s) \in Times0
        BY <1>2 DEF Over, Times0
    <2> HIDE DEF x
    <2> QED BY <1>3, <2>1 DEF Rest
<1> HIDE DEF x
<1>5. /\ Rest(y, x, {"reactions", "votes"})
      /\ \A s \in Times0 : ReceiptIn(x.receipts, a, Then(s)) => ReceiptIn(y.receipts, a, Together(e.times, s))
      /\ \A b : b # a => Keeps(y.receipts, x.receipts, b)
    <2>1. CASE w = 0
        <3>1. y = x /\ \A s \in Times0 : Then(s) = Together(e.times, s)
            BY <2>1 DEF Over, Times0, Together, d, w
        <3> HIDE DEF y, Then
        <3> QED BY <1>4, <3>1 DEF Rest, Keeps
    <2>2. CASE w # 0
        <3>1. y = WithReceipt(x, a, "read", w)
            BY <2>2
        <3>2. \A s \in Times0 : Assigned(Then(s), "read", w) = Together(e.times, s)
            <4> SUFFICES ASSUME NEW s \in Times0 PROVE Assigned(Then(s), "read", w) = Together(e.times, s)
                OBVIOUS
            <4>1. Then(s) = [read |-> s.read, delivered |-> Over(d, s.delivered)]
                BY DEF Times0
            <4> DEFINE both == Over(d, s.delivered)
            <4>2. Assigned([read |-> s.read, delivered |-> both], "read", w) = [read |-> w, delivered |-> both]
                BY DEF Assigned
            <4>3. Together(e.times, s) = [read |-> w, delivered |-> both]
                BY <2>2 DEF Together, Over, d, w
            <4> HIDE DEF Then
            <4> QED BY <4>1, <4>2, <4>3
        <3>3. \A s \in Times0 : Then(s) \in Times0
            BY <1>4
        <3> HIDE DEF y, Then
        <3>4. w \in Nat \ {0} /\ x \in Attachables
            BY <1>2, <1>4, <2>2
        <3>5. Received(WithReceipt(x, a, "read", w), x, a, "read", w)
            BY <1>2, <3>4, WithReceiptIs
        <3>6. Received(y, x, a, "read", w)
            BY <3>1, <3>5
        <3> QED BY <3>2, <3>3, <3>6 DEF Received
    <2> QED BY <2>1, <2>2
<1> HIDE DEF y, Then
<1>6. Rest(y, m, {"reactions", "votes"})
    BY <1>3, <1>5 DEF Rest
<1>7. ASSUME NEW b, b # a PROVE Keeps(y.receipts, m.receipts, b)
    BY <1>3, <1>5, <1>7, KeepsTwice
<1> QED BY <1>1, <1>3, <1>5, <1>6, <1>7 DEF Given, a

\* What the receipts that waited make of it.
GivenAll(r, m, list, a) ==
    /\ Rest(r, m, {"reactions", "votes"})
    /\ OfAuthor(list, a) = {} => Keeps(r.receipts, m.receipts, a)
    /\ \A t, s \in Times0 : /\ Only(list, a, [author |-> a, times |-> t])
                            /\ ReceiptIn(m.receipts, a, s)
                            => ReceiptIn(r.receipts, a, Together(t, s))

LEMMA AllReceiptsIs ==
    ASSUME NEW m \in Attachables, NEW list \in Seq(Receipts0), NEW a
    PROVE  GivenAll(AllReceipts(m, list), m, list, a)
<1> DEFINE Has(r, old, e) == \A s \in Times0 : ReceiptIn(old.receipts, a, s) => ReceiptIn(r.receipts, a, Together(e.times, s))
           After(r, n) == Receipted(r, list[n])
           Def(f, k) == f = [n \in 0 .. k |-> IF n = 0 THEN m ELSE After(f[n - 1], n)]
           after == CHOOSE f : Def(f, Len(list))
<1>1. Len(list) \in Nat /\ DOMAIN list = 1 .. Len(list) /\ \A n \in 1 .. Len(list) : list[n] \in Receipts0
    OBVIOUS
<1>2. AllReceipts(m, list) = after[Len(list)]
    BY DEF AllReceipts
<1> HIDE DEF After
<1>3. ASSUME NEW k \in 1 .. Len(list), NEW f, Def(f, k - 1) PROVE \E g : Def(g, k)
    <2> DEFINE x == After(f[k - 1], k)
               g == [n \in 0 .. k |-> IF n = k THEN x ELSE f[n]]
    <2>1. k \in Nat /\ k # 0 /\ k - 1 \in 0 .. k
        BY <1>1
    <2>2. ASSUME NEW n \in 0 .. k PROVE g[n] = IF n = 0 THEN m ELSE After(g[n - 1], n)
        <3>1. CASE n = k
            <4>1. g[n] = x /\ g[n - 1] = f[k - 1]
                BY <2>1, <3>1
            <4> QED BY <2>1, <3>1, <4>1
        <3>2. CASE n # k
            <4>1. n \in 0 .. k - 1 /\ (n # 0 => n - 1 \in 0 .. k /\ n - 1 # k)
                BY <2>1, <3>2
            <4>2. g[n] = f[n] /\ (n # 0 => g[n - 1] = f[n - 1])
                BY <3>2, <4>1
            <4>3. f[n] = IF n = 0 THEN m ELSE After(f[n - 1], n)
                BY <1>3, <4>1
            <4> HIDE DEF g
            <4> QED BY <4>2, <4>3
        <3> QED BY <3>1, <3>2
    <2>3. Def(g, k)
        BY <2>2
    <2> QED BY <2>3
<1> HIDE DEF Def
<1>4. \E f : Def(f, Len(list))
    <2> DEFINE S == {k \in 0 .. Len(list) : ~ \E f : Def(f, k)}
    <2>1. SUFFICES ASSUME S # {} PROVE FALSE
        BY <1>1
    <2>2. S \in SUBSET Nat
        BY <1>1
    <2>3. PICK k \in S : \A l \in S : k <= l
        BY <2>1, <2>2, LeastIn
    <2>4. k # 0
        <3> DEFINE f == [n \in 0 .. 0 |-> m]
        <3>1. Def(f, 0)
            BY DEF Def
        <3> QED BY <3>1
    <2>5. k - 1 \in 0 .. Len(list) /\ k - 1 \notin S /\ k \in 1 .. Len(list)
        BY <1>1, <2>3, <2>4
    <2>6. PICK f : Def(f, k - 1)
        BY <2>5
    <2> QED BY <1>3, <2>3, <2>5, <2>6
<1>5. Def(after, Len(list))
    BY <1>4
<1> HIDE DEF after
<1>6. after[0] = m /\ \A n \in 1 .. Len(list) : after[n] = After(after[n - 1], n)
    <2>1. \A n \in 0 .. Len(list) : after[n] = IF n = 0 THEN m ELSE After(after[n - 1], n)
        BY <1>5 DEF Def
    <2>2. 0 \in 0 .. Len(list) /\ \A n \in 1 .. Len(list) : n \in 0 .. Len(list) /\ n # 0
        BY <1>1
    <2> QED BY <2>1, <2>2
<1> DEFINE Of(n) == {p \in 1 .. n : list[p].author = a}
           Good(n) == /\ Rest(after[n], m, {"reactions", "votes"})
                      /\ Of(n) = {} => Keeps(after[n].receipts, m.receipts, a)
                      /\ \A p \in 1 .. n : Of(n) = {p} => Has(after[n], m, list[p])
           Bad == {n \in 0 .. Len(list) : ~ Good(n)}
<1>7. Good(0)
    BY <1>6 DEF Rest, Keeps
<1>8. ASSUME NEW n \in 1 .. Len(list), Good(n - 1) PROVE Good(n)
    <2> DEFINE old == after[n - 1]
               new == after[n]
               e == list[n]
    <2>1. n \in Nat /\ e \in Receipts0 /\ old \in Attachables /\ new = After(old, n) /\ Rest(old, m, {"reactions", "votes"})
        BY <1>1, <1>6, <1>8 DEF Rest
    <2>2. /\ Of(n - 1) = {} => Keeps(old.receipts, m.receipts, a)
          /\ \A p \in 1 .. n - 1 : Of(n - 1) = {p} => Has(old, m, list[p])
        BY <1>8
    <2> HIDE DEF old, new, e, Has
    <2>3. Given(new, old, e)
        <3>1. new = Receipted(old, e)
            BY <2>1 DEF After, e
        <3> QED BY <2>1, <3>1, ReceiptedIs
    <2>4. Rest(new, m, {"reactions", "votes"})
        BY <2>1, <2>3 DEF Given, Rest
    <2>5. CASE e.author = a
        <3>1. Of(n) = Of(n - 1) \cup {n} /\ n \notin Of(n - 1)
            BY <2>1, <2>5 DEF e
        <3>2. ASSUME NEW p \in 1 .. n, Of(n) = {p} PROVE Has(new, m, list[p])
            <4>1. p = n /\ Of(n - 1) = {}
                BY <3>1, <3>2
            <4>2. Keeps(old.receipts, m.receipts, a)
                BY <2>2, <4>1
            <4>3. ReceiptKept(old.receipts, m.receipts, a)
                BY <4>2, KeepsReceipt
            <4>4. Has(new, m, e)
                BY <2>3, <2>5, <4>3 DEF Has, Given, ReceiptKept
            <4> QED BY <4>1, <4>4 DEF e
        <3> QED BY <2>4, <3>1, <3>2 DEF new
    <2>6. CASE e.author # a
        <3>1. Of(n) = Of(n - 1)
            BY <2>1, <2>6 DEF e
        <3>2. Keeps(new.receipts, old.receipts, a)
            BY <2>3, <2>6 DEF Given
        <3>3. ASSUME NEW p \in 1 .. n, Of(n) = {p} PROVE Has(new, m, list[p])
            <4>1. p \in 1 .. n - 1 /\ Of(n - 1) = {p}
                BY <3>1, <3>3
            <4>2. Has(old, m, list[p])
                BY <2>2, <4>1
            <4>3. list[p] \in Receipts0 /\ list[p].times \in Times0
                BY <1>1, <4>1 DEF Receipts0
            <4>4. \A s \in Times0 : Together(list[p].times, s) \in Times0
                BY <4>3 DEF Together, Times0, Over
            <4>5. ReceiptKept(new.receipts, old.receipts, a)
                BY <3>2, KeepsReceipt
            <4> QED BY <4>2, <4>4, <4>5 DEF Has, ReceiptKept
        <3>4. Of(n) = {} => Keeps(new.receipts, m.receipts, a)
            BY <2>2, <3>1, <3>2, KeepsTwice
        <3> QED BY <2>4, <3>3, <3>4 DEF new
    <2> QED BY <2>5, <2>6
<1> HIDE DEF Has
<1>9. Good(Len(list))
    <2> HIDE DEF Good
    <2>1. SUFFICES ASSUME Bad # {} PROVE FALSE
        BY <1>1
    <2>2. Bad \in SUBSET Nat
        BY <1>1
    <2>3. PICK n \in Bad : \A k \in Bad : n <= k
        BY <2>1, <2>2, LeastIn
    <2>4. n # 0
        BY <1>7, <2>3
    <2>5. n - 1 \in 0 .. Len(list) /\ n - 1 \notin Bad /\ n \in 1 .. Len(list)
        BY <1>1, <2>3, <2>4
    <2>6. Good(n - 1)
        BY <2>5
    <2> QED BY <1>8, <2>3, <2>5, <2>6
<1>10. Of(Len(list)) = OfAuthor(list, a) /\ \A p \in OfAuthor(list, a) : p \in 1 .. Len(list)
    BY <1>1 DEF OfAuthor
<1> HIDE DEF Of
<1>11. ASSUME NEW t \in Times0, NEW s \in Times0, Only(list, a, [author |-> a, times |-> t]), ReceiptIn(m.receipts, a, s)
       PROVE  ReceiptIn(after[Len(list)].receipts, a, Together(t, s))
    <2>1. PICK p \in DOMAIN list : OfAuthor(list, a) = {p} /\ list[p] = [author |-> a, times |-> t]
        BY <1>11 DEF Only
    <2>2. Has(after[Len(list)], m, list[p])
        BY <1>1, <1>9, <1>10, <2>1
    <2>3. list[p].times = t
        BY <2>1
    <2> QED BY <1>11, <2>2, <2>3 DEF Has
<1> QED BY <1>2, <1>9, <1>10, <1>11 DEF GivenAll
-----------------------------------------------------------------------------
(* What a merge means for one author.                                      *)

KeptLists(r, m, a) ==
    Keeps(r.reactions, m.reactions, a) /\ Keeps(r.receipts, m.receipts, a) /\ Keeps(r.votes, m.votes, a)

SameNewest(n, o, a) == n.reaction[a] = o.reaction[a] /\ n.receipt[a] = o.receipt[a] /\ n.vote[a] = o.vote[a]

LEMMA KeptAgain == ASSUME NEW m, NEW a PROVE KeptLists(m, m, a)
BY DEF KeptLists, Keeps

\* What was attached by others changes nothing for him.
LEMMA HasStays ==
    ASSUME NEW m, NEW b, NEW o, NEW r, NEW q, NEW n, NEW a,
           HasNewest(m, b, a, o), KeptLists(r, m, a), KeptLists(q, b, a), SameNewest(n, o, a)
    PROVE  HasNewest(r, q, a, n)
<1>1. IF OfAuthor(q.reactions, a) = {} THEN ReactionIn(r.reactions, a, n.reaction[a]) ELSE ReactionIn(q.reactions, a, n.reaction[a])
    <2>1. CASE OfAuthor(b.reactions, a) = {}
        BY <2>1 DEF HasNewest, KeptLists, SameNewest, Keeps, ReactionIn
    <2>2. CASE OfAuthor(b.reactions, a) # {}
        <3>1. Only(b.reactions, a, [author |-> a, text |-> o.reaction[a][1]]) /\ o.reaction[a] # <<>>
            BY <2>2 DEF HasNewest, ReactionIn
        <3>2. Only(q.reactions, a, [author |-> a, text |-> o.reaction[a][1]])
            BY <3>1 DEF KeptLists, Keeps
        <3>3. OfAuthor(q.reactions, a) # {}
            BY <3>2 DEF Only
        <3> QED BY <3>1, <3>2, <3>3 DEF SameNewest, ReactionIn
    <2> QED BY <2>1, <2>2
<1>2. PICK s \in Times0, t \in Times0 :
          ReceiptIn(m.receipts, a, s) /\ ReceiptIn(b.receipts, a, t) /\ o.receipt[a] = Together(t, s)
    BY DEF HasNewest
<1>3. ReceiptIn(r.receipts, a, s) /\ ReceiptIn(q.receipts, a, t) /\ n.receipt[a] = Together(t, s)
    BY <1>2, KeepsReceipt DEF KeptLists, SameNewest, ReceiptKept
<1>4. VoteIn(r.votes, a, n.vote[a])
    BY DEF HasNewest, KeptLists, SameNewest, Keeps, VoteIn
<1> QED BY <1>1, <1>2, <1>3, <1>4 DEF HasNewest

\* What is attached is in the lists it went to.
LEMMA ReactedOthers ==
    ASSUME NEW r, NEW m, NEW a, NEW text, NEW c, c # a, Reacted(r, m, a, text)
    PROVE  KeptLists(r, m, c)
BY DEF Reacted, Rest, KeptLists, Keeps

LEMMA ReceivedOthers ==
    ASSUME NEW r, NEW m, NEW a, NEW what, NEW at, NEW c, c # a, Received(r, m, a, what, at)
    PROVE  KeptLists(r, m, c)
BY DEF Received, Rest, KeptLists, Keeps

LEMMA VotedOthers ==
    ASSUME NEW r, NEW m, NEW a, NEW options, NEW c, c # a, Voted(r, m, a, options)
    PROVE  KeptLists(r, m, c)
BY DEF Voted, Rest, KeptLists, Keeps

\* The newest is this reaction, this receipt, this vote.
WithNewest(n, o, kind, a, x) == n = [o EXCEPT ![kind][a] = x]

LEMMA NewestIs ==
    ASSUME NEW o \in NewestOf, NEW n, NEW a \in Attachers, NEW kind \in {"reaction", "receipt", "vote"}, NEW x,
           WithNewest(n, o, kind, a, x)
    PROVE  /\ n[kind][a] = x
           /\ \A other \in {"reaction", "receipt", "vote"} : other # kind => n[other][a] = o[other][a]
           /\ \A c \in Attachers : c # a => SameNewest(n, o, c)
<1>1. /\ n = [o EXCEPT ![kind] = [@ EXCEPT ![a] = x]] /\ DOMAIN o = {"reaction", "receipt", "vote"}
      /\ \A k \in {"reaction", "receipt", "vote"} : DOMAIN o[k] = Attachers
    BY DEF WithNewest, NewestOf
<1>2. n[kind] = [o[kind] EXCEPT ![a] = x] /\ \A k \in {"reaction", "receipt", "vote"} : k # kind => n[k] = o[k]
    BY <1>1
<1>3. n[kind][a] = x /\ \A c \in Attachers : c # a => n[kind][c] = o[kind][c]
    BY <1>1, <1>2
<1>4. ASSUME NEW c \in Attachers, c # a PROVE SameNewest(n, o, c)
    <2>1. n["reaction"][c] = o["reaction"][c] /\ n["receipt"][c] = o["receipt"][c] /\ n["vote"][c] = o["vote"][c]
        BY <1>2, <1>3, <1>4
    <2> QED BY <2>1 DEF SameNewest
<1> QED BY <1>2, <1>3, <1>4

LEMMA ReactedHas ==
    ASSUME NEW m, NEW b, NEW o, NEW r, NEW n, NEW a, NEW text,
           HasNewest(m, b, a, o), Reacted(r, m, a, text), OfAuthor(b.reactions, a) = {},
           n.reaction[a] = <<text>>, n.receipt[a] = o.receipt[a], n.vote[a] = o.vote[a]
    PROVE  HasNewest(r, b, a, n)
<1>1. ReactionIn(r.reactions, a, n.reaction[a])
    BY DEF Reacted, ReactionIn
<1>2. r.receipts = m.receipts /\ r.votes = m.votes
    BY DEF Reacted, Rest
<1> QED BY <1>1, <1>2 DEF HasNewest

LEMMA ReactedBeside ==
    ASSUME NEW m, NEW b, NEW o, NEW q, NEW n, NEW a, NEW text,
           HasNewest(m, b, a, o), Reacted(q, b, a, text),
           n.reaction[a] = <<text>>, n.receipt[a] = o.receipt[a], n.vote[a] = o.vote[a]
    PROVE  HasNewest(m, q, a, n)
<1>1. ReactionIn(q.reactions, a, n.reaction[a]) /\ OfAuthor(q.reactions, a) # {}
    BY DEF Reacted, ReactionIn, Only
<1>2. q.receipts = b.receipts
    BY DEF Reacted, Rest
<1> QED BY <1>1, <1>2 DEF HasNewest

LEMMA AssignedTogether ==
    ASSUME NEW s \in Times0, NEW t \in Times0, NEW what \in {"read", "delivered"}, NEW at \in Nat \ {0}
    PROVE  Together(Assigned(t, what, at), s) = Assigned(Together(t, s), what, at)
<1>1. CASE what = "read"
    <2>1. Assigned(t, what, at) = [read |-> at, delivered |-> t.delivered]
        <3>1. t = [read |-> t.read, delivered |-> t.delivered]
            BY DEF Times0
        <3>2. Assigned(t, "read", at) = [t EXCEPT !.read = at]
            BY DEF Assigned
        <3> QED BY <1>1, <3>1, <3>2
    <2>2. Together(Assigned(t, what, at), s) = [read |-> at, delivered |-> Over(t.delivered, s.delivered)]
        BY <2>1 DEF Together, Over
    <2> QED BY <1>1, <2>2 DEF Assigned, Together
<1>2. CASE what = "delivered"
    <2>1. Assigned(t, what, at) = [read |-> t.read, delivered |-> at]
        <3>1. t = [read |-> t.read, delivered |-> t.delivered]
            BY DEF Times0
        <3>2. Assigned(t, "delivered", at) = [t EXCEPT !.delivered = at]
            BY DEF Assigned
        <3> QED BY <1>2, <3>1, <3>2
    <2>2. Together(Assigned(t, what, at), s) = [read |-> Over(t.read, s.read), delivered |-> at]
        BY <2>1 DEF Together, Over
    <2> QED BY <1>2, <2>2 DEF Assigned, Together
<1> QED BY <1>1, <1>2

LEMMA TogetherNone == ASSUME NEW s \in Times0 PROVE Together(Unread, s) = s /\ Unread \in Times0
BY DEF Together, Over, Unread, Times0

LEMMA ReceivedHas ==
    ASSUME NEW m, NEW b, NEW o, NEW r, NEW n, NEW a, NEW what \in {"read", "delivered"}, NEW at \in Nat \ {0},
           HasNewest(m, b, a, o), Received(r, m, a, what, at), OfAuthor(b.receipts, a) = {},
           n.receipt[a] = Assigned(o.receipt[a], what, at), n.reaction[a] = o.reaction[a], n.vote[a] = o.vote[a]
    PROVE  HasNewest(r, b, a, n)
<1>1. PICK s \in Times0, t \in Times0 :
          ReceiptIn(m.receipts, a, s) /\ ReceiptIn(b.receipts, a, t) /\ o.receipt[a] = Together(t, s)
    BY DEF HasNewest
<1>2. t = Unread
    BY <1>1 DEF ReceiptIn, Only
<1>3. ReceiptIn(r.receipts, a, Assigned(s, what, at)) /\ Assigned(s, what, at) \in Times0
    BY <1>1, AssignedIs DEF Received
<1>4. n.receipt[a] = Together(t, Assigned(s, what, at))
    BY <1>1, <1>2, <1>3, TogetherNone
<1>5. r.reactions = m.reactions /\ r.votes = m.votes
    BY DEF Received, Rest
<1>6. \E x, y \in Times0 : ReceiptIn(r.receipts, a, x) /\ ReceiptIn(b.receipts, a, y) /\ n.receipt[a] = Together(y, x)
    BY <1>1, <1>3, <1>4
<1> QED BY <1>5, <1>6 DEF HasNewest

LEMMA ReceivedBeside ==
    ASSUME NEW m, NEW b, NEW o, NEW q, NEW n, NEW a, NEW what \in {"read", "delivered"}, NEW at \in Nat \ {0},
           HasNewest(m, b, a, o), Received(q, b, a, what, at),
           n.receipt[a] = Assigned(o.receipt[a], what, at), n.reaction[a] = o.reaction[a], n.vote[a] = o.vote[a]
    PROVE  HasNewest(m, q, a, n)
<1>1. PICK s \in Times0, t \in Times0 :
          ReceiptIn(m.receipts, a, s) /\ ReceiptIn(b.receipts, a, t) /\ o.receipt[a] = Together(t, s)
    BY DEF HasNewest
<1>2. ReceiptIn(q.receipts, a, Assigned(t, what, at)) /\ Assigned(t, what, at) \in Times0
    BY <1>1, AssignedIs DEF Received
<1>3. n.receipt[a] = Together(Assigned(t, what, at), s)
    BY <1>1, AssignedTogether
<1>4. q.reactions = b.reactions
    BY DEF Received, Rest
<1>5. \E x, y \in Times0 : ReceiptIn(m.receipts, a, x) /\ ReceiptIn(q.receipts, a, y) /\ n.receipt[a] = Together(y, x)
    BY <1>1, <1>2, <1>3
<1> QED BY <1>4, <1>5 DEF HasNewest

LEMMA VotedHas ==
    ASSUME NEW m, NEW b, NEW o, NEW r, NEW n, NEW a, NEW options,
           HasNewest(m, b, a, o), Voted(r, m, a, options),
           n.vote[a] = options, n.reaction[a] = o.reaction[a], n.receipt[a] = o.receipt[a]
    PROVE  HasNewest(r, b, a, n)
<1>1. r.receipts = m.receipts /\ r.reactions = m.reactions /\ VoteIn(r.votes, a, n.vote[a])
    BY DEF Voted, Rest
<1> QED BY <1>1 DEF HasNewest
-----------------------------------------------------------------------------
(* The steps.                                                              *)

TheMessage == IF heldBack.there THEN heldBack ELSE shown

Common == holding' = holding /\ passed' = passed /\ attached' \in Nat /\ newest' \in NewestOf

LEMMA MessageMade ==
    ASSUME NEW a, NEW m, NEW b, NEW n, (IF heldBack'.there THEN heldBack' ELSE shown') = m, beside' = b, newest' = n,
           HasNewest(m, b, a, n)
    PROVE  MessageHas(a)'
BY DEF MessageHas

LEMMA MessageIs == ASSUME AttachInv, NEW a \in Attachers \ passed PROVE HasNewest(TheMessage, beside, a, newest)
BY DEF AttachInv, MessageHas, TheMessage

LEMMA InvTyped == ASSUME AttachInv PROVE AttachTyped /\ TheMessage \in Attachables
BY DEF AttachInv, AttachTyped, TheMessage

\* A merge into the message that is there.
IntoMessage(r) ==
    /\ r \in Attachables /\ r.there
    /\ TheMessage.there /\ (holding => heldBack.there)
    /\ IF heldBack.there THEN heldBack' = r /\ shown' = shown ELSE shown' = r /\ heldBack' = heldBack
    /\ beside' = beside

LEMMA IntoMessageInv ==
    ASSUME AttachInv, Common, NEW r, IntoMessage(r),
           \A c \in Attachers \ passed : HasNewest(r, beside, c, newest')
    PROVE  AttachInv'
<1>1. AttachTyped' /\ (IF heldBack'.there THEN heldBack' ELSE shown') = r
    BY DEF AttachInv, AttachTyped, Common, IntoMessage, TheMessage
<1>2. ASSUME NEW c \in Attachers \ passed PROVE MessageHas(c)'
    <2>1. HasNewest(r, beside, c, newest')
        BY <1>2
    <2>2. beside' = beside
        BY DEF IntoMessage
    <2> QED BY <1>1, <2>1, <2>2, MessageMade
<1> QED BY <1>1, <1>2 DEF AttachInv, Common, IntoMessage, TheMessage

\* A merge beside it.
IntoBeside(q) ==
    /\ q \in Attachables /\ holding /\ ~heldBack.there
    /\ beside' = q /\ heldBack' = heldBack /\ shown' = shown

LEMMA IntoBesideInv ==
    ASSUME AttachInv, Common, NEW q, IntoBeside(q),
           \A c \in Attachers \ passed : HasNewest(TheMessage, q, c, newest')
    PROVE  AttachInv'
<1>1. AttachTyped' /\ (IF heldBack'.there THEN heldBack' ELSE shown') = TheMessage
    BY DEF AttachInv, AttachTyped, Common, IntoBeside, TheMessage
<1>2. ASSUME NEW c \in Attachers \ passed PROVE MessageHas(c)'
    <2>1. HasNewest(TheMessage, q, c, newest')
        BY <1>2
    <2>2. beside' = q
        BY DEF IntoBeside
    <2> DEFINE m == TheMessage
    <2>3. (IF heldBack'.there THEN heldBack' ELSE shown') = m /\ HasNewest(m, q, c, newest')
        BY <1>1, <2>1
    <2> HIDE DEF m
    <2> QED BY <2>2, <2>3, MessageMade
<1> QED BY <1>1, <1>2 DEF AttachInv, Common, IntoBeside

\* What comes too early leaves no trace.
LEMMA NowhereInv ==
    ASSUME AttachInv, Common, ~holding, heldBack' = heldBack, shown' = shown, beside' = beside, newest' = newest
    PROVE  AttachInv'
<1>1. ASSUME NEW c \in Attachers \ passed PROVE MessageHas(c)'
    BY <1>1 DEF AttachInv, MessageHas
<1> QED BY <1>1 DEF AttachInv, AttachTyped, Common

LEMMA NewestTyped ==
    ASSUME NEW o \in NewestOf, NEW n, NEW a \in Attachers, NEW x,
           \/ WithNewest(n, o, "reaction", a, x) /\ x \in Reaction0
           \/ WithNewest(n, o, "receipt", a, x) /\ x \in Times0
           \/ WithNewest(n, o, "vote", a, x) /\ x \in SUBSET Options
    PROVE  n \in NewestOf
BY DEF WithNewest, NewestOf

LEMMA ReactsInv ==
    ASSUME AttachInv, NEW a \in Attachers, NEW text \in Texts, Reacts(a, text)
    PROVE  AttachInv'
<1> DEFINE o == newest
           n == newest'
           m == TheMessage
           b == beside
<1>1. AttachTyped /\ m \in Attachables /\ b \in Attachables /\ o \in NewestOf
    BY InvTyped DEF AttachTyped
<1>2. CASE ~holding /\ ~shown.there
    <2>1. /\ attached' = attached + 1 /\ holding' = holding /\ passed' = passed
          /\ heldBack' = heldBack /\ shown' = shown /\ beside' = beside /\ newest' = newest
        BY <1>2 DEF Reacts, Attaches, Merges, Remembers
    <2>2. Common
        BY <1>1, <2>1 DEF Common, AttachTyped
    <2> QED BY <1>2, <2>1, <2>2, NowhereInv
<1>3. CASE holding \/ shown.there
    <2>1. WithNewest(n, o, "reaction", a, <<text>>)
        BY <1>3 DEF Reacts, Remembers, WithNewest
    <2>2. Common
        <3>1. attached' = attached + 1 /\ holding' = holding /\ passed' = passed
            BY DEF Reacts, Attaches
        <3>2. <<text>> \in Reaction0
            BY DEF Reaction0
        <3>3. n \in NewestOf
            BY <1>1, <2>1, <3>2, NewestTyped
        <3> QED BY <1>1, <3>1, <3>3 DEF Common, AttachTyped
    <2>3. /\ n.reaction[a] = <<text>> /\ n.receipt[a] = o.receipt[a] /\ n.vote[a] = o.vote[a]
          /\ \A c \in Attachers : c # a => SameNewest(n, o, c)
        <3> HIDE DEF n, o
        <3>1. /\ n["reaction"][a] = <<text>>
              /\ \A other \in {"reaction", "receipt", "vote"} : other # "reaction" => n[other][a] = o[other][a]
              /\ \A c \in Attachers : c # a => SameNewest(n, o, c)
            BY <1>1, <2>1, NewestIs
        <3>2. n["receipt"][a] = o["receipt"][a] /\ n["vote"][a] = o["vote"][a]
            BY <3>1
        <3> QED BY <3>1, <3>2
    <2>4. \A c \in Attachers \ passed : HasNewest(m, b, c, o)
        BY MessageIs
    <2>5. CASE holding /\ ~heldBack.there
        <3> DEFINE q == WithReaction(b, a, text)
        <3>1. Reacted(q, b, a, text)
            BY <1>1, WithReactionIs
        <3>2. beside' = q /\ heldBack' = heldBack /\ shown' = shown
            BY <2>5 DEF Reacts, Merges
        <3> HIDE DEF q, m, b, o, n
        <3>3. IntoBeside(q)
            BY <2>5, <3>1, <3>2 DEF IntoBeside, Reacted, Rest
        <3>4. ASSUME NEW c \in Attachers \ passed PROVE HasNewest(m, q, c, n)
            <4>1. CASE c = a
                BY <2>3, <2>4, <3>1, <3>4, <4>1, ReactedBeside
            <4>2. CASE c # a
                <5>1. KeptLists(q, b, c) /\ KeptLists(m, m, c) /\ SameNewest(n, o, c) /\ HasNewest(m, b, c, o)
                    BY <2>3, <2>4, <3>1, <3>4, <4>2, ReactedOthers, KeptAgain
                <5> QED BY <5>1, HasStays
            <4> QED BY <4>1, <4>2
        <3> QED BY <2>2, <3>3, <3>4, IntoBesideInv DEF m, n
    <2>6. CASE ~holding \/ heldBack.there
        <3> DEFINE r == WithReaction(m, a, text)
        <3>1. Reacted(r, m, a, text)
            BY <1>1, WithReactionIs
        <3>2. /\ m.there /\ beside' = b
              /\ IF heldBack.there THEN heldBack' = r /\ shown' = shown ELSE shown' = r /\ heldBack' = heldBack
            BY <1>3, <2>6 DEF Reacts, Merges, AttachInv, NoMessage, TheMessage
        <3>3. \A c \in Attachers \ passed : OfAuthor(b.reactions, c) = {}
            BY <2>6 DEF AttachInv, NoMessage, OfAuthor
        <3> HIDE DEF r
        <3>4. IntoMessage(r)
            BY <2>6, <3>1, <3>2 DEF IntoMessage, Reacted, Rest
        <3> HIDE DEF m, b, o, n
        <3>5. ASSUME NEW c \in Attachers \ passed PROVE HasNewest(r, b, c, n)
            <4>1. CASE c = a
                BY <2>3, <2>4, <3>1, <3>3, <3>5, <4>1, ReactedHas
            <4>2. CASE c # a
                <5>1. KeptLists(r, m, c) /\ KeptLists(b, b, c) /\ SameNewest(n, o, c) /\ HasNewest(m, b, c, o)
                    BY <2>3, <2>4, <3>1, <3>5, <4>2, ReactedOthers, KeptAgain
                <5> QED BY <5>1, HasStays
            <4> QED BY <4>1, <4>2
        <3> QED BY <2>2, <3>4, <3>5, IntoMessageInv DEF b, n
    <2> QED BY <2>5, <2>6
<1> QED BY <1>2, <1>3
LEMMA ReceivesInv ==
    ASSUME AttachInv, NEW a \in Attachers, NEW what \in {"read", "delivered"}, Receives(a, what)
    PROVE  AttachInv'
<1> DEFINE o == newest
           n == newest'
           m == TheMessage
           b == beside
           at == attached + 1
           t == Assigned(newest.receipt[a], what, at)
<1>1. AttachTyped /\ m \in Attachables /\ b \in Attachables /\ o \in NewestOf
    BY InvTyped DEF AttachTyped
<1>2. CASE ~holding /\ ~shown.there
    <2>1. /\ attached' = attached + 1 /\ holding' = holding /\ passed' = passed
          /\ heldBack' = heldBack /\ shown' = shown /\ beside' = beside /\ newest' = newest
        BY <1>2 DEF Receives, Attaches, Merges, Remembers
    <2>2. Common
        BY <1>1, <2>1 DEF Common, AttachTyped
    <2> QED BY <1>2, <2>1, <2>2, NowhereInv
<1>3. CASE holding \/ shown.there
    <2>1. WithNewest(n, o, "receipt", a, t)
        BY <1>3 DEF Receives, Attaches, Remembers, WithNewest
    <2>2. Common
        <3>1. attached' = attached + 1 /\ holding' = holding /\ passed' = passed
            BY DEF Receives, Attaches
        <3>2. t \in Times0
            <4>1. newest.receipt[a] \in Times0 /\ at \in Nat \ {0}
                BY <1>1 DEF NewestOf, AttachTyped
            <4> HIDE DEF at
            <4> QED BY <4>1, AssignedIs
        <3>3. n \in NewestOf
            BY <1>1, <2>1, <3>2, NewestTyped
        <3> QED BY <1>1, <3>1, <3>3 DEF Common, AttachTyped, at
    <2>3. /\ n.receipt[a] = t /\ n.reaction[a] = o.reaction[a] /\ n.vote[a] = o.vote[a]
          /\ \A c \in Attachers : c # a => SameNewest(n, o, c)
        <3> HIDE DEF n, o, t
        <3>1. /\ n["receipt"][a] = t
              /\ \A other \in {"reaction", "receipt", "vote"} : other # "receipt" => n[other][a] = o[other][a]
              /\ \A c \in Attachers : c # a => SameNewest(n, o, c)
            BY <1>1, <2>1, NewestIs
        <3>2. n["reaction"][a] = o["reaction"][a] /\ n["vote"][a] = o["vote"][a]
            BY <3>1
        <3> QED BY <3>1, <3>2
    <2>4. \A c \in Attachers \ passed : HasNewest(m, b, c, o)
        BY MessageIs
    <2>0. at \in Nat \ {0} /\ t = Assigned(o.receipt[a], what, at) /\ attached' = at
        BY <1>1 DEF AttachTyped, Receives, Attaches
    <2> HIDE DEF t
    <2>5. CASE holding /\ ~heldBack.there
        <3> DEFINE q == WithReceipt(b, a, what, at)
        <3>1. Received(q, b, a, what, at)
            BY <1>1, <2>0, WithReceiptIs
        <3>2. beside' = q /\ heldBack' = heldBack /\ shown' = shown
            BY <2>0, <2>5 DEF Receives, Merges
        <3> HIDE DEF q, m, b, o, n, at
        <3>3. IntoBeside(q)
            BY <2>5, <3>1, <3>2 DEF IntoBeside, Received, Rest
        <3>4. ASSUME NEW c \in Attachers \ passed PROVE HasNewest(m, q, c, n)
            <4>1. CASE c = a
                BY <2>0, <2>3, <2>4, <3>1, <3>4, <4>1, ReceivedBeside
            <4>2. CASE c # a
                <5>1. KeptLists(q, b, c) /\ KeptLists(m, m, c) /\ SameNewest(n, o, c) /\ HasNewest(m, b, c, o)
                    BY <2>3, <2>4, <3>1, <3>4, <4>2, ReceivedOthers, KeptAgain
                <5> QED BY <5>1, HasStays
            <4> QED BY <4>1, <4>2
        <3> QED BY <2>2, <3>3, <3>4, IntoBesideInv DEF m, n
    <2>6. CASE ~holding \/ heldBack.there
        <3> DEFINE r == WithReceipt(m, a, what, at)
        <3>1. Received(r, m, a, what, at)
            BY <1>1, <2>0, WithReceiptIs
        <3>2. /\ m.there /\ beside' = b
              /\ IF heldBack.there THEN heldBack' = r /\ shown' = shown ELSE shown' = r /\ heldBack' = heldBack
            BY <1>3, <2>0, <2>6 DEF Receives, Merges, AttachInv, NoMessage, TheMessage
        <3>3. \A c \in Attachers \ passed : OfAuthor(b.receipts, c) = {}
            BY <2>6 DEF AttachInv, NoMessage, OfAuthor
        <3> HIDE DEF r
        <3>4. IntoMessage(r)
            BY <2>6, <3>1, <3>2 DEF IntoMessage, Received, Rest
        <3> HIDE DEF m, b, o, n, at
        <3>5. ASSUME NEW c \in Attachers \ passed PROVE HasNewest(r, b, c, n)
            <4>1. CASE c = a
                BY <2>0, <2>3, <2>4, <3>1, <3>3, <3>5, <4>1, ReceivedHas
            <4>2. CASE c # a
                <5>1. KeptLists(r, m, c) /\ KeptLists(b, b, c) /\ SameNewest(n, o, c) /\ HasNewest(m, b, c, o)
                    BY <2>3, <2>4, <3>1, <3>5, <4>2, ReceivedOthers, KeptAgain
                <5> QED BY <5>1, HasStays
            <4> QED BY <4>1, <4>2
        <3> QED BY <2>2, <3>4, <3>5, IntoMessageInv DEF b, n
    <2> QED BY <2>5, <2>6
<1> QED BY <1>2, <1>3

LEMMA VotesInv ==
    ASSUME AttachInv, NEW a \in Attachers, NEW options \in SUBSET Options, Votes(a, options)
    PROVE  AttachInv'
<1> DEFINE o == newest
           n == newest'
           m == TheMessage
           b == beside
           r == WithVote(m, a, options)
<1>1. AttachTyped /\ m \in Attachables /\ b \in Attachables /\ o \in NewestOf
    BY InvTyped DEF AttachTyped
<1>2. ~holding /\ shown.there /\ ~heldBack.there /\ m = shown
    BY DEF Votes, AttachInv, NoMessage, TheMessage
<1>3. WithNewest(n, o, "vote", a, options)
    BY <1>2 DEF Votes, Remembers, WithNewest
<1>4. Common
    <2>1. attached' = attached + 1 /\ holding' = holding /\ passed' = passed
        BY DEF Votes, Attaches
    <2>2. n \in NewestOf
        BY <1>1, <1>3, NewestTyped
    <2> QED BY <1>1, <2>1, <2>2 DEF Common, AttachTyped
<1>5. /\ n.vote[a] = options /\ n.reaction[a] = o.reaction[a] /\ n.receipt[a] = o.receipt[a]
      /\ \A c \in Attachers : c # a => SameNewest(n, o, c)
    <2> HIDE DEF n, o
    <2>1. /\ n["vote"][a] = options
          /\ \A other \in {"reaction", "receipt", "vote"} : other # "vote" => n[other][a] = o[other][a]
          /\ \A c \in Attachers : c # a => SameNewest(n, o, c)
        BY <1>1, <1>3, NewestIs
    <2>2. n["reaction"][a] = o["reaction"][a] /\ n["receipt"][a] = o["receipt"][a]
        BY <2>1
    <2> QED BY <2>1, <2>2
<1>6. \A c \in Attachers \ passed : HasNewest(m, b, c, o)
    BY MessageIs
<1>7. Voted(r, m, a, options)
    BY <1>1, WithVoteIs
<1>8. shown' = r /\ heldBack' = heldBack /\ beside' = b
    BY <1>2 DEF Votes, Merges
<1> HIDE DEF r
<1>9. IntoMessage(r)
    BY <1>2, <1>7, <1>8 DEF IntoMessage, Voted, Rest
<1> HIDE DEF m, b, o, n
<1>10. ASSUME NEW c \in Attachers \ passed PROVE HasNewest(r, b, c, n)
    <2>1. CASE c = a
        BY <1>5, <1>6, <1>7, <1>10, <2>1, VotedHas
    <2>2. CASE c # a
        <3>1. KeptLists(r, m, c) /\ KeptLists(b, b, c) /\ SameNewest(n, o, c) /\ HasNewest(m, b, c, o)
            BY <1>5, <1>6, <1>7, <1>10, <2>2, VotedOthers, KeptAgain
        <3> QED BY <3>1, HasStays
    <2> QED BY <2>1, <2>2
<1> QED BY <1>4, <1>9, <1>10, IntoMessageInv DEF b, n

\* A message that has nothing yet.
LEMMA NothingThere ==
    /\ NoMessage \in Attachables /\ Fresh0 \in Attachables /\ ~NoMessage.there /\ Fresh0.there
    /\ Nothing0 \in NewestOf
    /\ \A a \in Attachers : HasNewest(NoMessage, NoMessage, a, Nothing0)
    /\ \A a \in Attachers : KeptLists(Fresh0, NoMessage, a)
<1>1. NoMessage \in Attachables /\ Fresh0 \in Attachables /\ ~NoMessage.there /\ Fresh0.there
    <2>1. <<>> \in Seq(Texts0) /\ <<>> \in Seq(Receipts0) /\ <<>> \in Seq(Votes0)
        OBVIOUS
    <2>2. NoMessage \in Attachables /\ ~NoMessage.there
        BY <2>1 DEF NoMessage, Attachables
    <2>3. \A m \in Attachables : [m EXCEPT !.there = TRUE] \in Attachables /\ [m EXCEPT !.there = TRUE].there
        BY DEF Attachables
    <2> QED BY <2>2, <2>3 DEF Fresh0
<1>2. Nothing0 \in NewestOf
    BY DEF Nothing0, NewestOf, Unread, Times0, Reaction0
<1>3. \A a : OfAuthor(<<>>, a) = {}
    BY DEF OfAuthor
<1>4. ASSUME NEW a \in Attachers PROVE HasNewest(NoMessage, NoMessage, a, Nothing0)
    <2>1. Nothing0.reaction[a] = <<>> /\ Nothing0.receipt[a] = Unread /\ Nothing0.vote[a] = {}
        BY DEF Nothing0
    <2>2. NoMessage.reactions = <<>> /\ NoMessage.receipts = <<>> /\ NoMessage.votes = <<>>
        BY DEF NoMessage
    <2>3. ReceiptIn(<<>>, a, Unread) /\ Unread \in Times0 /\ Unread = Together(Unread, Unread)
        BY <1>3, TogetherNone DEF ReceiptIn, Unread, Times0
    <2>4. ReactionIn(<<>>, a, <<>>) /\ VoteIn(<<>>, a, {})
        BY <1>3 DEF ReactionIn, VoteIn
    <2> QED BY <1>3, <2>1, <2>2, <2>3, <2>4 DEF HasNewest
<1>5. ASSUME NEW a \in Attachers PROVE KeptLists(Fresh0, NoMessage, a)
    BY DEF Fresh0, NoMessage, KeptLists, Keeps
<1> QED BY <1>1, <1>2, <1>4, <1>5

LEMMA AttachInitInv == ASSUME AttachInit PROVE AttachInv
<1>1. \A a \in Attachers : MessageHas(a)
    BY NothingThere DEF AttachInit, MessageHas
<1>2. AttachTyped
    BY NothingThere DEF AttachInit, AttachTyped
<1> QED BY <1>1, <1>2, NothingThere DEF AttachInit, AttachInv

LEMMA UpsertsInv == ASSUME AttachInv, Upserts PROVE AttachInv'
<1>1. /\ ~shown.there /\ ~heldBack.there /\ shown = NoMessage /\ heldBack = NoMessage /\ passed = {}
      /\ holding' = holding /\ beside' = beside /\ newest' = newest /\ attached' = attached
    BY DEF Upserts, AttachInv
<1>2. IF holding THEN heldBack' = Fresh0 /\ shown' = shown ELSE shown' = Fresh0 /\ heldBack' = heldBack
    BY DEF Upserts
<1>3. passed' \subseteq Attachers
    BY DEF Upserts
<1>4. ASSUME NEW c \in Attachers \ passed'
      PROVE  OfAuthor(beside.reactions, c) = {} /\ OfAuthor(beside.receipts, c) = {}
    <2>1. ~Waiting(c)
        BY <1>4 DEF Upserts
    <2> QED BY <2>1 DEF Waiting, OfAuthor
<1>5. AttachTyped'
    BY <1>1, <1>2, <1>3, NothingThere DEF AttachInv, AttachTyped
<1>6. (IF heldBack'.there THEN heldBack' ELSE shown') = Fresh0
    BY <1>1, <1>2, NothingThere
<1>7. ASSUME NEW c \in Attachers PROVE MessageHas(c)'
    <2> DEFINE none == NoMessage
               fresh == Fresh0
               b == beside
               o == newest
    <2>1. HasNewest(none, b, c, o)
        BY <1>1, MessageIs DEF TheMessage
    <2>2. KeptLists(fresh, none, c) /\ KeptLists(b, b, c) /\ SameNewest(o, o, c)
        BY NothingThere, KeptAgain DEF SameNewest
    <2>3. (IF heldBack'.there THEN heldBack' ELSE shown') = fresh /\ beside' = b /\ newest' = o
        BY <1>1, <1>6
    <2> HIDE DEF none, fresh, b, o
    <2>4. HasNewest(fresh, b, c, o)
        BY <2>1, <2>2, HasStays
    <2> QED BY <2>3, <2>4, MessageMade
<1> QED BY <1>1, <1>2, <1>4, <1>5, <1>7, NothingThere DEF AttachInv

LEMMA HoldsInv == ASSUME AttachInv, Holds PROVE AttachInv'
<1>1. ASSUME NEW c \in Attachers \ passed PROVE MessageHas(c)'
    BY <1>1 DEF AttachInv, MessageHas, Holds
<1> QED BY <1>1, NothingThere DEF AttachInv, AttachTyped, Holds

\* What a flush hands over: the message has what waited beside it.
LEMMA HandedHas ==
    ASSUME NEW m \in Attachables, NEW b \in Attachables, NEW o, NEW a \in Attachers, HasNewest(m, b, a, o),
           NEW x, NEW y, ReactedAll(x, m, b.reactions, a), GivenAll(y, x, b.receipts, a)
    PROVE  HasNewest(y, NoMessage, a, o)
<1>1. /\ x.receipts = m.receipts /\ x.votes = m.votes /\ y.reactions = x.reactions /\ y.votes = x.votes
    BY DEF ReactedAll, GivenAll, Rest
<1>2. OfAuthor(NoMessage.reactions, a) = {} /\ OfAuthor(NoMessage.receipts, a) = {}
    BY DEF OfAuthor, NoMessage
<1>3. ReactionIn(y.reactions, a, o.reaction[a])
    <2>1. CASE OfAuthor(b.reactions, a) = {}
        <3>1. ReactionIn(m.reactions, a, o.reaction[a]) /\ Keeps(x.reactions, m.reactions, a)
            BY <2>1 DEF HasNewest, ReactedAll
        <3> QED BY <1>1, <3>1 DEF ReactionIn, Keeps
    <2>2. CASE OfAuthor(b.reactions, a) # {}
        <3>1. ReactionIn(b.reactions, a, o.reaction[a])
            BY <2>2 DEF HasNewest
        <3> QED BY <1>1, <2>2, <3>1 DEF ReactionIn, ReactedAll
    <2> QED BY <2>1, <2>2
<1>4. PICK s \in Times0, t \in Times0 :
          ReceiptIn(m.receipts, a, s) /\ ReceiptIn(b.receipts, a, t) /\ o.receipt[a] = Together(t, s)
    BY DEF HasNewest
<1> DEFINE z == Together(t, s)
<1>5. z \in Times0 /\ Together(Unread, z) = z /\ Unread \in Times0
    <2>1. z \in Times0
        BY DEF Together, Over, Times0
    <2> HIDE DEF z
    <2> QED BY <2>1, TogetherNone
<1>6. ReceiptIn(y.receipts, a, z)
    <2>1. CASE t = Unread
        <3>1. z = s /\ OfAuthor(b.receipts, a) = {}
            BY <1>4, <2>1, TogetherNone DEF ReceiptIn
        <3>2. Keeps(y.receipts, m.receipts, a)
            BY <1>1, <3>1 DEF GivenAll
        <3> HIDE DEF z
        <3>3. ReceiptKept(y.receipts, m.receipts, a)
            BY <3>2, KeepsReceipt
        <3> QED BY <1>4, <3>1, <3>3 DEF ReceiptKept
    <2>2. CASE t # Unread
        <3>1. Only(b.receipts, a, [author |-> a, times |-> t]) /\ ReceiptIn(x.receipts, a, s)
            BY <1>1, <1>4, <2>2 DEF ReceiptIn
        <3> QED BY <3>1 DEF GivenAll
    <2> QED BY <2>1, <2>2
<1>7. ReceiptIn(NoMessage.receipts, a, Unread)
    BY <1>2 DEF ReceiptIn
<1> HIDE DEF z
<1>8. \E p, q \in Times0 : ReceiptIn(y.receipts, a, p) /\ ReceiptIn(NoMessage.receipts, a, q) /\ o.receipt[a] = Together(q, p)
    <2>1. o.receipt[a] = z
        BY <1>4 DEF z
    <2> QED BY <1>5, <1>6, <1>7, <2>1
<1>9. VoteIn(y.votes, a, o.vote[a])
    BY <1>1 DEF HasNewest
<1> QED BY <1>2, <1>3, <1>8, <1>9 DEF HasNewest

LEMMA HandsOverInv == ASSUME AttachInv, HandsOver PROVE AttachInv'
<1>1. /\ holding /\ holding' = FALSE /\ heldBack' = NoMessage /\ beside' = NoMessage
      /\ passed' = passed /\ attached' = attached
    BY DEF HandsOver
<1>2. CASE ~heldBack.there /\ ~shown.there
    <2>1. shown' = shown /\ shown = NoMessage /\ newest' = Nothing0 /\ passed = {}
        BY <1>2 DEF HandsOver, AttachInv
    <2>2. ASSUME NEW c \in Attachers PROVE MessageHas(c)'
        <3> DEFINE none == NoMessage
                   o == Nothing0
        <3>1. HasNewest(none, none, c, o) /\ (IF heldBack'.there THEN heldBack' ELSE shown') = none
              /\ beside' = none /\ newest' = o
            BY <1>1, <2>1, NothingThere
        <3> HIDE DEF none, o
        <3> QED BY <3>1, MessageMade
    <2> QED BY <1>1, <2>1, <2>2, NothingThere DEF AttachInv, AttachTyped
<1>3. CASE heldBack.there \/ shown.there
    <2> DEFINE m == TheMessage
               b == beside
               o == newest
               x == AllReactions(m, b.reactions)
               y == AllReceipts(x, b.receipts)
               none == NoMessage
    <2>1. shown' = y /\ newest' = newest
        BY <1>3 DEF HandsOver, HandedOver, TheMessage
    <2>2. m \in Attachables /\ b \in Attachables /\ m.there
        BY <1>3, InvTyped DEF AttachTyped, TheMessage
    <2>3. b.reactions \in Seq(Texts0) /\ b.receipts \in Seq(Receipts0)
        BY <2>2 DEF Attachables
    <2>4. \A c \in Attachers \ passed : HasNewest(m, b, c, o)
        BY MessageIs
    <2> HIDE DEF m, b, o
    <2>5. \A c : ReactedAll(x, m, b.reactions, c)
        <3> DEFINE list == b.reactions
        <3>1. list \in Seq(Texts0)
            BY <2>3
        <3> HIDE DEF list
        <3>2. \A c : ReactedAll(AllReactions(m, list), m, list, c)
            BY <2>2, <3>1, AllReactionsIs
        <3> QED BY <3>2 DEF list
    <2> HIDE DEF x
    <2>6. x \in Attachables /\ x.there
        BY <2>2, <2>5 DEF ReactedAll, Rest
    <2>7. \A c : GivenAll(y, x, b.receipts, c)
        <3> DEFINE list == b.receipts
        <3>1. list \in Seq(Receipts0)
            BY <2>3
        <3> HIDE DEF list
        <3>2. \A c : GivenAll(AllReceipts(x, list), x, list, c)
            BY <2>6, <3>1, AllReceiptsIs
        <3> QED BY <3>2 DEF list
    <2> HIDE DEF y
    <2>8. y \in Attachables /\ y.there
        BY <2>6, <2>7 DEF GivenAll, Rest
    <2>9. ASSUME NEW c \in Attachers \ passed PROVE HasNewest(y, none, c, o)
        BY <2>2, <2>4, <2>5, <2>7, HandedHas DEF none
    <2>10. (IF heldBack'.there THEN heldBack' ELSE shown') = y /\ beside' = none /\ newest' = o
        BY <1>1, <2>1, NothingThere DEF none, o
    <2> HIDE DEF none
    <2>11. ASSUME NEW c \in Attachers \ passed PROVE MessageHas(c)'
        BY <2>9, <2>10, <2>11, MessageMade
    <2>12. newest' = newest
        BY <2>1
    <2> QED BY <1>1, <2>1, <2>8, <2>11, <2>12, NothingThere DEF AttachInv, AttachTyped
<1> QED BY <1>2, <1>3

LEMMA AttachStep == ASSUME AttachInv, [AttachNext]_attachVars PROVE AttachInv'
<1>1. CASE UNCHANGED attachVars
    <2>1. \A c \in Attachers : MessageHas(c)' = MessageHas(c)
        BY <1>1 DEF attachVars, MessageHas
    <2> QED BY <1>1, <2>1 DEF attachVars, AttachInv, AttachTyped
<1>2. CASE AttachNext
    BY <1>2, ReactsInv, ReceivesInv, VotesInv, UpsertsInv, HoldsInv, HandsOverInv DEF AttachNext
<1> QED BY <1>1, <1>2

LEMMA CountedOnce ==
    ASSUME NEW m \in Attachables, NEW a, NEW options, VoteIn(m.votes, a, options), NEW o
    PROVE  Cardinality(OfAuthor(Voters(m, o), a)) = IF o \in options THEN 1 ELSE 0
<1> DEFINE list == m.votes
           keep == {n \in DOMAIN list : o \in list[n].options}
           counted == Filtered(list, keep)
<1>1. Voters(m, o) = counted
    BY DEF Voters
<1>2. FilteredRight(list, keep, a)
    <2>1. list \in Seq(Votes0)
        BY DEF Attachables
    <2> HIDE DEF list, keep
    <2> QED BY <2>1, FilteredIs
<1>3. CASE options = {}
    <2>1. OfAuthor(list, a) \cap keep = {}
        BY <1>3 DEF VoteIn
    <2>2. OfAuthor(counted, a) = {}
        BY <1>2, <2>1 DEF FilteredRight
    <2> QED BY <1>1, <1>3, <2>2, FS_EmptySet
<1>4. CASE options # {}
    <2>1. PICK n \in DOMAIN list : OfAuthor(list, a) = {n} /\ list[n] = [author |-> a, options |-> options]
        BY <1>4 DEF VoteIn, Only
    <2>2. list[n].options = options
        BY <2>1
    <2>3. CASE o \in options
        <3>1. OfAuthor(list, a) \cap keep = {n}
            BY <2>1, <2>2, <2>3
        <3>2. Only(counted, a, list[n])
            BY <1>2, <2>1, <3>1 DEF FilteredRight
        <3>3. PICK k \in DOMAIN counted : OfAuthor(counted, a) = {k}
            BY <3>2 DEF Only
        <3> HIDE DEF counted
        <3> QED BY <1>1, <2>3, <3>3, FS_Singleton
    <2>4. CASE o \notin options
        <3>1. OfAuthor(list, a) \cap keep = {}
            BY <2>1, <2>2, <2>4
        <3>2. OfAuthor(counted, a) = {}
            BY <1>2, <3>1 DEF FilteredRight
        <3> QED BY <1>1, <2>4, <3>2, FS_EmptySet
    <2> QED BY <2>3, <2>4
<1> QED BY <1>3, <1>4

LEMMA InvNewest == ASSUME AttachInv PROVE NewestOfEach
<1> SUFFICES ASSUME ~holding, shown.there, NEW a \in Attachers \ passed
             PROVE  /\ IF newest.reaction[a] = <<>> THEN OfAuthor(shown.reactions, a) = {}
                       ELSE Only(shown.reactions, a, [author |-> a, text |-> newest.reaction[a][1]])
                    /\ IF newest.receipt[a] = Unread THEN OfAuthor(shown.receipts, a) = {}
                       ELSE Only(shown.receipts, a, [author |-> a, times |-> newest.receipt[a]])
                    /\ \A o \in Options :
                          Cardinality(OfAuthor(Voters(shown, o), a)) = IF o \in newest.vote[a] THEN 1 ELSE 0
    BY DEF NewestOfEach
<1>1. shown \in Attachables /\ beside = NoMessage /\ HasNewest(shown, beside, a, newest)
    BY NothingThere DEF AttachInv, AttachTyped, MessageHas
<1>2. OfAuthor(beside.reactions, a) = {} /\ OfAuthor(beside.receipts, a) = {}
    BY <1>1 DEF OfAuthor, NoMessage
<1>3. ReactionIn(shown.reactions, a, newest.reaction[a])
    BY <1>1, <1>2 DEF HasNewest
<1>4. ReceiptIn(shown.receipts, a, newest.receipt[a])
    <2>1. PICK s \in Times0, t \in Times0 :
              ReceiptIn(shown.receipts, a, s) /\ ReceiptIn(beside.receipts, a, t) /\ newest.receipt[a] = Together(t, s)
        BY <1>1 DEF HasNewest
    <2>2. t = Unread
        BY <1>2, <2>1 DEF ReceiptIn, Only
    <2> QED BY <2>1, <2>2, TogetherNone
<1>5. VoteIn(shown.votes, a, newest.vote[a])
    BY <1>1 DEF HasNewest
<1> DEFINE m == shown
           chosen == newest.vote[a]
<1>6. \A o : Cardinality(OfAuthor(Voters(m, o), a)) = IF o \in chosen THEN 1 ELSE 0
    <2>1. m \in Attachables /\ VoteIn(m.votes, a, chosen)
        BY <1>1, <1>5
    <2> HIDE DEF m, chosen
    <2> SUFFICES ASSUME NEW o PROVE Cardinality(OfAuthor(Voters(m, o), a)) = IF o \in chosen THEN 1 ELSE 0
        OBVIOUS
    <2> QED BY <2>1, CountedOnce
<1> QED BY <1>3, <1>4, <1>6 DEF ReactionIn, ReceiptIn

\* What is attached to a message is typed; each author has of reactions, receipts and
\* votes what he attached last, in the message or beside it (lib/messages.js 864-904).
THEOREM AttachmentsAreSound == AttachSpec => []AttachInv
<1>1. AttachInit => AttachInv
    BY AttachInitInv
<1>2. AttachInv /\ [AttachNext]_attachVars => AttachInv'
    BY AttachStep
<1> QED BY <1>1, <1>2, PTL DEF AttachSpec

\* A message that is shown has of each author the newest reaction once, the last of either
\* time in one receipt, and counts his newest vote once, whatever part the buffer merged.
THEOREM NewestIsKept == AttachSpec => []NewestOfEach
<1>1. AttachInv => NewestOfEach
    BY InvNewest
<1> QED BY <1>1, AttachmentsAreSound, PTL
=============================================================================
