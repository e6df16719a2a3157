-------------------------- MODULE ConnectionProofs --------------------------
(***************************************************************************)
(* What holds of every connection, however many queries there are and      *)
(* however many codes are shown: the types, and that nothing is left to    *)
(* wait once end() was called.  NothingLeft is inductive with the types:   *)
(* an action either leaves the socket open, or rejects the queries and     *)
(* clears the timer as it closes it, or starts neither when it finds it    *)
(* closed.  The types need that the codes shown and the references left    *)
(* are together no more than the stanza brought.                           *)
(*   Below, the pre-keys that a connection uploads and rotates: the device *)
(* can read what was made with those the server hands out.  And the frames *)
(* it receives: all are handed over, in order.                             *)
(*   Last, the handshake and the channel: both ends go through the same    *)
(* states (NoiseStart to Shared4), so that all that is ever sealed is one  *)
(* of Texts, each with a key and a counter of its own.  And while no frame *)
(* was early, each end counts what is under way to it (InStep).            *)
(***************************************************************************)
EXTENDS Connection, PreKeys, NoiseFrames, NoiseHandshake, FiniteSetTheorems, SequenceTheorems, TLAPS

CodesCounted ==
    /\ told.codes + qr.refs <= MaxRefs
    /\ qr.pc \in {"none", "replying"} => told.codes = 0 /\ qr.refs = 0

ConnInv == ConnTypeOK /\ NothingLeft /\ CodesCounted

LEMMA InitiallyNothing == ConnInit => ConnInv
<1> SUFFICES ASSUME ConnInit PROVE ConnInv
    OBVIOUS
<1>1. ConnTypeOK
    <2>1. qr \in QrStates
        BY ConnectionAssumption DEF ConnInit, QrStates
    <2>2. told \in Told
        BY ConnectionAssumption DEF ConnInit, Told
    <2>3. query \in [Queries -> QueryStates]
        BY DEF ConnInit, QueryStates
    <2>4. ws = "connecting" /\ hs = "idle" /\ me \in {"none", "paired"} /\ secret = "qr"
        BY DEF ConnInit
    <2>5. login = "none" /\ logout = "none" /\ quiet \in 0..3
        BY DEF ConnInit
    <2>6. keepAlive \in BOOLEAN /\ silent \in BOOLEAN
        BY DEF ConnInit
    <2> QED BY <2>1, <2>2, <2>3, <2>4, <2>5, <2>6 DEF ConnTypeOK
<1>2. NothingLeft /\ CodesCounted
    BY ConnectionAssumption DEF ConnInit, NothingLeft, CodesCounted, Closed
<1> QED BY <1>1, <1>2 DEF ConnInv

\* A query that is rejected waits no more; the others are as they were.
LEMMA RejectedRight ==
    ASSUME ConnTypeOK
    PROVE  /\ Rejected(query) \in [Queries -> QueryStates]
           /\ \A q \in Queries : Rejected(query)[q] \notin {"sending", "sent"}
BY DEF ConnTypeOK, Rejected, QueryStates

\* A query begins on an open socket only; on any other it is refused at once.
LEMMA BegunRight ==
    ASSUME ConnInv, NEW q \in Queries
    PROVE  /\ Begun(q) \in [Queries -> QueryStates]
           /\ Closed => \A r \in Queries : Begun(q)[r] \notin {"sending", "sent"}
BY DEF ConnInv, ConnTypeOK, NothingLeft, Closed, Waiting, Begun, QueryStates

\* end() leaves nothing behind, and keeps the types.
LEMMA EndLeavesNothing ==
    ASSUME ConnInv, EndConnection,
           quiet' \in 0..3, silent' \in BOOLEAN, me' \in {"none", "claimed", "paired"},
           UNCHANGED <<secret, login>>, logout' \in {"none", "sending", "done"}
    PROVE  ConnInv'
<1>1. query' \in [Queries -> QueryStates] /\ \A q \in Queries : query'[q] \notin {"sending", "sent"}
    BY RejectedRight DEF ConnInv, EndConnection
<1>2. /\ qr' \in QrStates
      /\ ~qr'.timer /\ qr'.refs = qr.refs /\ qr'.pc = qr.pc
    BY DEF ConnInv, ConnTypeOK, EndConnection, QrStates
<1>3. told' \in Told /\ told'.codes = told.codes
    BY DEF ConnInv, ConnTypeOK, EndConnection, Told
<1>4. ws' = "closed" /\ keepAlive' = FALSE /\ hs' \in {hs, "failed"}
    BY DEF EndConnection
<1>5. ConnTypeOK'
    BY <1>1, <1>2, <1>3, <1>4 DEF ConnInv, ConnTypeOK, QueryStates
<1>6. NothingLeft'
    BY <1>1, <1>2 DEF NothingLeft, Waiting
<1>7. CodesCounted'
    BY <1>2, <1>3 DEF ConnInv, CodesCounted
<1> QED BY <1>5, <1>6, <1>7 DEF ConnInv

\* The QR handler shows a code on an open socket only, and with the last one
\* ends the connection.
LEMMA ShowingLeavesNothing ==
    ASSUME ConnInv,
           NEW q \in QrStates,
           Closed => ~q.timer,
           told.codes + q.refs <= MaxRefs,
           q.pc \in {"none", "replying"} => told.codes = 0 /\ q.refs = 0,
           GenPairQR(q),
           UNCHANGED <<quiet, silent, me, secret, login, logout>>
    PROVE  ConnInv'
<1>1. CASE ws # "open"
    <2>1. qr' = q /\ UNCHANGED <<ws, hs, keepAlive, query, told>>
        BY <1>1 DEF GenPairQR
    <2> QED BY <2>1, <1>1 DEF ConnInv, ConnTypeOK, NothingLeft, CodesCounted, Closed, Waiting
<1>2. CASE ws = "open" /\ q.refs = 0
    <2>1. /\ ws' = "closed" /\ keepAlive' = FALSE /\ query' = Rejected(query) /\ UNCHANGED hs
          /\ qr' = [q EXCEPT !.timer = FALSE] /\ told' = [told EXCEPT !.close = TRUE]
        BY <1>2 DEF GenPairQR
    <2>2. query' \in [Queries -> QueryStates] /\ \A r \in Queries : query'[r] \notin {"sending", "sent"}
        BY <2>1, RejectedRight DEF ConnInv
    <2>3. /\ qr' \in QrStates
          /\ ~qr'.timer /\ qr'.refs = q.refs /\ qr'.pc = q.pc
        BY <2>1 DEF QrStates
    <2>4. told' \in Told /\ told'.codes = told.codes
        BY <2>1 DEF ConnInv, ConnTypeOK, Told
    <2>5. ConnTypeOK'
        BY <2>1, <2>2, <2>3, <2>4 DEF ConnInv, ConnTypeOK, QueryStates
    <2>6. NothingLeft' /\ CodesCounted'
        BY <2>2, <2>3, <2>4 DEF NothingLeft, CodesCounted, Waiting
    <2> QED BY <2>5, <2>6 DEF ConnInv
<1>3. CASE ws = "open" /\ q.refs # 0
    <2>1. /\ qr' = [q EXCEPT !.refs = @ - 1, !.timer = TRUE]
          /\ told' = [told EXCEPT !.codes = @ + 1]
          /\ UNCHANGED <<ws, hs, keepAlive, query>>
        BY <1>3 DEF GenPairQR
    <2>2. /\ told.codes \in 0..MaxRefs /\ q.refs \in 0..MaxRefs /\ q.refs # 0
          /\ told.codes + 1 \in 0..MaxRefs /\ q.refs - 1 \in 0..MaxRefs
        BY <1>3, ConnectionAssumption DEF ConnInv, ConnTypeOK, QrStates, Told
    <2>3. /\ qr' \in QrStates
          /\ qr'.refs = q.refs - 1 /\ qr'.pc = q.pc
        BY <2>1, <2>2 DEF QrStates
    <2>4. told' \in Told /\ told'.codes = told.codes + 1
        BY <2>1, <2>2 DEF ConnInv, ConnTypeOK, Told
    <2>5. ConnTypeOK' /\ NothingLeft'
        BY <1>3, <2>1, <2>3, <2>4 DEF ConnInv, ConnTypeOK, NothingLeft, Closed
    <2>6. CodesCounted'
        BY <2>2, <2>3, <2>4 DEF CodesCounted
    <2> QED BY <2>5, <2>6 DEF ConnInv
<1> QED BY <1>1, <1>2, <1>3

\* One step for each action; those that only hand a frame on or wait are the same.
LEMMA StepLeavesNothing == ConnInv /\ [ConnNext]_connVars => ConnInv'
<1> SUFFICES ASSUME ConnInv, [ConnNext]_connVars PROVE ConnInv'
    OBVIOUS
<1> USE DEF ConnInv
<1>t. ConnTypeOK /\ NothingLeft /\ CodesCounted
    OBVIOUS
<1>1. CASE UNCHANGED connVars
    BY <1>1 DEF connVars, ConnTypeOK, NothingLeft, CodesCounted, Closed, Waiting
<1>2. CASE ConnectTimeout \/ Drop \/ StreamEnds
    <2>1. EndConnection /\ UNCHANGED <<silent, me, secret, login, logout>> /\ quiet' \in {0, quiet}
        BY <1>2 DEF ConnectTimeout, Drop, StreamEnds, Frame
    <2> QED BY <2>1, EndLeavesNothing DEF ConnTypeOK
<1>3. CASE KeepAliveTick
    <2>1. UNCHANGED <<silent, me, secret, login, logout>>
        BY <1>3 DEF KeepAliveTick
    <2>2. CASE EndConnection /\ UNCHANGED quiet
        BY <2>1, <2>2, EndLeavesNothing DEF ConnTypeOK
    <2>3. CASE /\ quiet + 1 < 3 /\ quiet' = quiet + 1
               /\ UNCHANGED <<ws, hs, keepAlive, qr, query, told>>
        <3>1. quiet' \in 0..3
            BY <2>3 DEF ConnTypeOK
        <3> QED BY <2>1, <2>3, <3>1 DEF ConnTypeOK, NothingLeft, CodesCounted, Closed, Waiting
    <2> QED BY <1>3, <2>2, <2>3 DEF KeepAliveTick
<1>4. CASE QrTimer
    <2>1. GenPairQR([qr EXCEPT !.timer = FALSE]) /\ UNCHANGED <<quiet, silent, me, secret, login, logout>>
        BY <1>4 DEF QrTimer
    <2> DEFINE q == [qr EXCEPT !.timer = FALSE]
    <2>2. q \in QrStates /\ q.pc = qr.pc /\ q.refs = qr.refs /\ ~q.timer
        BY DEF ConnTypeOK, QrStates
    <2>3. GenPairQR(q)
        BY <2>1
    <2> HIDE DEF q
    <2> QED BY <2>1, <2>2, <2>3, ShowingLeavesNothing DEF CodesCounted
<1>5. CASE PairDeviceReplied
    <2>1. /\ qr.pc = "replying" /\ GenPairQR([qr EXCEPT !.pc = "showing", !.refs = MaxRefs])
          /\ UNCHANGED <<quiet, silent, me, secret, login, logout>>
        BY <1>5 DEF PairDeviceReplied
    <2> DEFINE q == [qr EXCEPT !.pc = "showing", !.refs = MaxRefs]
    <2>2. q \in QrStates /\ q.pc = "showing" /\ q.refs = MaxRefs /\ (~qr.timer => ~q.timer)
        <3>1. qr \in QrStates /\ MaxRefs \in 0..MaxRefs
            BY ConnectionAssumption DEF ConnTypeOK
        <3>2. q \in QrStates
            BY <3>1 DEF QrStates
        <3>3. q.pc = "showing" /\ q.refs = MaxRefs
            BY <3>1 DEF QrStates
        <3>4. ~qr.timer => ~q.timer
            BY <3>1 DEF QrStates
        <3> QED BY <3>2, <3>3, <3>4
    <2>3. told.codes = 0 /\ (Closed => ~qr.timer)
        BY <2>1 DEF CodesCounted, NothingLeft
    <2>4. told.codes + q.refs <= MaxRefs /\ q.pc \notin {"none", "replying"}
        BY <2>2, <2>3, ConnectionAssumption
    <2>5. GenPairQR(q) /\ UNCHANGED <<quiet, silent, me, secret, login, logout>>
        BY <2>1
    <2> HIDE DEF q
    <2> QED BY <2>2, <2>3, <2>4, <2>5, ShowingLeavesNothing
<1>6. ASSUME NEW q \in Queries, QueryTimeout(q) \/ Sent(q) \/ SendFails(q) \/ Answer(q) PROVE ConnInv'
    <2>1. PICK o \in {"sent", "ok", "err"} : Becomes(q, o)
        BY <1>6 DEF QueryTimeout, Sent, SendFails, Answer
    <2>2. Waiting(q) /\ quiet' \in {0, quiet}
        BY <1>6 DEF QueryTimeout, Sent, SendFails, Answer, Waiting, Frame
    <2> QED BY <2>1, <2>2 DEF Becomes, ConnTypeOK, NothingLeft, CodesCounted, Closed, Waiting, QueryStates
<1>7. ASSUME NEW q \in Queries, query' = Begun(q), quiet' \in {0, quiet}, secret' \in {"qr", "link"},
             login' \in {"none", "count", "upload", "passive", "digest", "reupload", "open"},
             UNCHANGED <<ws, hs, keepAlive, silent, me, qr, logout, told>>
      PROVE  ConnInv'
    BY <1>7, BegunRight DEF ConnTypeOK, NothingLeft, CodesCounted, Closed, Waiting, QueryStates
<1>8. ASSUME NEW q \in Queries, Ask(q) PROVE ConnInv'
    BY <1>7, <1>8 DEF Ask, ConnTypeOK
<1>9. CASE Success
    BY <1>7, <1>9 DEF Success, Queries, Frame, ConnTypeOK
<1>10. CASE LinkCode
    BY <1>7, <1>10 DEF LinkCode, Queries, Frame, ConnTypeOK
<1>11. CASE LoginStep
    <2>1. login' \in {"upload", "passive", "digest", "reupload", "open"}
        BY <1>11 DEF LoginStep, After
    <2>2. CASE login' = "open"
        <3>1. /\ qr' \in QrStates /\ ~qr'.timer /\ qr'.refs = qr.refs /\ qr'.pc = qr.pc
              /\ told' \in Told /\ told'.codes = told.codes
            BY <1>11, <2>2 DEF LoginStep, ConnTypeOK, QrStates, Told
        <3>2. UNCHANGED <<ws, hs, keepAlive, quiet, silent, me, secret, logout, query>>
            BY <1>11, <2>2 DEF LoginStep
        <3> QED BY <2>2, <3>1, <3>2 DEF ConnTypeOK, NothingLeft, CodesCounted, Closed, Waiting
    <2>3. CASE login' # "open"
        BY <1>7, <1>11, <2>1, <2>3 DEF LoginStep, Queries, ConnTypeOK
    <2> QED BY <2>2, <2>3
<1>12. CASE Logout
    <2>1. CASE me = "none"
        BY <1>12, <2>1, EndLeavesNothing DEF Logout, ConnTypeOK
    <2>2. CASE me # "none"
        BY <1>12, <2>2 DEF Logout, ConnTypeOK, NothingLeft, CodesCounted, Closed, Waiting
    <2> QED BY <2>1, <2>2
<1>13. CASE LogoutSettles
    <2>1. CASE ~Closed
        BY <1>13, <2>1, EndLeavesNothing DEF LogoutSettles, ConnTypeOK
    <2>2. CASE Closed
        BY <1>13, <2>2 DEF LogoutSettles, ConnTypeOK, NothingLeft, CodesCounted, Closed, Waiting
    <2> QED BY <2>1, <2>2
<1>14. ASSUME NEW way \in {"qr", "link"}, PairSuccess(way) PROVE ConnInv'
    <2>1. CASE way = secret
        BY <1>14, <2>1 DEF PairSuccess, Frame, ConnTypeOK, NothingLeft, CodesCounted, Closed, Waiting
    <2>2. CASE way # secret
        BY <1>14, <2>2, EndLeavesNothing DEF PairSuccess, Frame, ConnTypeOK
    <2> QED BY <2>1, <2>2
<1>15. CASE Open
    BY <1>15 DEF Open, ConnTypeOK, NothingLeft, CodesCounted, Closed, Waiting
<1>16. CASE SendHello \/ FinishSent \/ KeysReady
    <2>1. hs' \in {"hello", "failed", "keys", "up"} /\ keepAlive' \in BOOLEAN
        BY <1>16 DEF SendHello, FinishSent, KeysReady, ConnTypeOK
    <2>2. UNCHANGED <<ws, quiet, silent, me, secret, qr, login, logout, query, told>>
        BY <1>16 DEF SendHello, FinishSent, KeysReady
    <2> QED BY <2>1, <2>2 DEF ConnTypeOK, NothingLeft, CodesCounted, Closed, Waiting
<1>17. CASE ServerHello
    BY <1>17 DEF ServerHello, ConnTypeOK, NothingLeft, CodesCounted, Closed, Waiting
<1>18. CASE PairDevice \/ PairDeviceFails
    <2>1. /\ qr' \in {[qr EXCEPT !.pc = "replying"], [qr EXCEPT !.pc = "failed"]} /\ quiet' \in {0, quiet}
          /\ UNCHANGED <<ws, hs, keepAlive, silent, me, secret, login, logout, query, told>>
          /\ qr.pc \in {"none", "replying"}
        BY <1>18 DEF PairDevice, PairDeviceFails, Frame
    <2>2. qr' \in QrStates /\ qr'.timer = qr.timer /\ qr'.refs = qr.refs
        BY <2>1 DEF ConnTypeOK, QrStates
    <2> QED BY <2>1, <2>2 DEF ConnTypeOK, NothingLeft, CodesCounted, Closed, Waiting
<1>19. CASE RequestPairingCode
    <2>1. qr' \in QrStates /\ ~qr'.timer /\ qr'.refs = qr.refs /\ qr'.pc = qr.pc
        BY <1>19 DEF RequestPairingCode, ConnTypeOK, QrStates
    <2>2. me' = "claimed" /\ UNCHANGED <<ws, hs, keepAlive, quiet, silent, secret, login, logout, query, told>>
        BY <1>19 DEF RequestPairingCode
    <2> QED BY <2>1, <2>2 DEF ConnTypeOK, NothingLeft, CodesCounted, Closed, Waiting
<1>20. CASE FallSilent
    BY <1>20 DEF FallSilent, ConnTypeOK, NothingLeft, CodesCounted, Closed, Waiting
<1> QED
    BY <1>1, <1>2, <1>3, <1>4, <1>5, <1>6, <1>8, <1>9, <1>10, <1>11, <1>12, <1>13, <1>14, <1>15, <1>16,
       <1>17, <1>18, <1>19, <1>20
    DEF ConnNext, Timers, Continuations, Environment

\* Types of a connection, for any number of queries and of references.
THEOREM ConnectionTyped == ConnSpec => []ConnTypeOK
<1>1. ConnInv => ConnTypeOK
    BY DEF ConnInv
<1> QED BY InitiallyNothing, StepLeavesNothing, <1>1, PTL DEF ConnSpec

\* Once end() was called no query waits for the connection, and no QR code is
\* shown, whatever was suspended when it was called.
THEOREM NothingIsLeft == ConnSpec => []NothingLeft
<1>1. ConnInv => NothingLeft
    BY DEF ConnInv
<1> QED BY InitiallyNothing, StepLeavesNothing, <1>1, PTL DEF ConnSpec
-----------------------------------------------------------------------------
(***************************************************************************)
(* Pre-keys, for any uploads, batches, ids and rotations.  An upload that  *)
(* overlaps with none is alone with nextPreKeyId from its beginning to its *)
(* end, so that whoever begins after it has other ids.                     *)
(***************************************************************************)
UploadStates == {"new", "storing", "asked", "taken", "answered", "stored", "done", "lost"}

KeysTyped ==
    /\ nextPreKeyId \in Nat
    /\ device \in [Ids -> Uploads \cup {NoKey}] /\ server \in [Ids -> Uploads \cup {NoKey}]
    /\ upload \in [Uploads -> [pc : UploadStates, way : {"none", "first", "after"}, from : Nat]]
    /\ handedOut \subseteq Ids \X Uploads

AloneUnlessOverlapped ==
    \A u \in Uploads \ overlapped : UnderWay(u) => \A v \in Uploads : UnderWay(v) => v = u

\* Where the ids of an upload lie, to those of the ones after it.
IdsApart ==
    \A u \in Uploads \ overlapped :
        /\ UnderWay(u) => nextPreKeyId = upload[u].from
        /\ upload[u].pc = "done" =>
               /\ upload[u].from + Batch <= nextPreKeyId
               /\ \A v \in Uploads : UnderWay(v) => upload[u].from + Batch <= upload[v].from

Public(i, u) == server[i] = u \/ <<i, u>> \in handedOut

\* The server has what it was sent, and each key once.
PublicOnce ==
    \A i \in Ids, u \in Uploads :
        /\ Public(i, u) => i \in BatchOf(u) /\ upload[u].pc \notin {"new", "storing", "asked"}
        /\ ~(server[i] = u /\ <<i, u>> \in handedOut)

HasStored(u) ==
    upload[u].pc \in IF upload[u].way = "first" THEN {"asked", "taken", "stored", "done"} ELSE {"stored", "done"}

DeviceRight ==
    \A u \in Uploads \ overlapped : \A i \in Ids \cap BatchOf(u) :
        HasStored(u) /\ (upload[u].pc = "asked" \/ Public(i, u)) => device[i] = u

KeysInv == KeysTyped /\ AloneUnlessOverlapped /\ IdsApart /\ PublicOnce /\ DeviceRight

LEMMA KeysInitially == PreKeysInit => KeysInv
<1> SUFFICES ASSUME PreKeysInit PROVE KeysInv
    OBVIOUS
<1>1. /\ \A u \in Uploads : upload[u].pc = "new" /\ ~UnderWay(u) /\ ~HasStored(u)
      /\ \A i \in Ids, u \in Uploads : ~Public(i, u)
    BY PreKeysAssumption DEF PreKeysInit, UnderWay, HasStored, Public
<1>2. KeysTyped
    BY DEF PreKeysInit, KeysTyped, UploadStates
<1> QED BY <1>1, <1>2 DEF KeysInv, AloneUnlessOverlapped, IdsApart, PublicOnce, DeviceRight, Public

\* An upload takes the next ids.
LEMMA BeginKeeps ==
    ASSUME KeysInv, NEW u \in Uploads, NEW way \in {"first", "after"}, Begin(u, way)
    PROVE  KeysInv'
<1>1. KeysTyped /\ AloneUnlessOverlapped /\ IdsApart /\ PublicOnce /\ DeviceRight
    BY DEF KeysInv
<1>2. PICK others : others = {v \in Uploads : UnderWay(v)}
    OBVIOUS
<1>3. PICK pc \in {"storing", "asked"} : pc = IF way = "first" THEN "storing" ELSE "asked"
    OBVIOUS
<1>4. /\ upload[u].pc = "new" /\ UNCHANGED <<nextPreKeyId, device, server, handedOut>>
      /\ upload' = [upload EXCEPT ![u] = [pc |-> pc, way |-> way, from |-> nextPreKeyId]]
      /\ overlapped' = IF others = {} THEN overlapped ELSE overlapped \cup others \cup {u}
    BY <1>2, <1>3 DEF Begin
<1>5. /\ upload' \in [Uploads -> [pc : UploadStates, way : {"none", "first", "after"}, from : Nat]]
      /\ upload'[u].pc = pc /\ upload'[u].way = way /\ upload'[u].from = nextPreKeyId
      /\ \A v \in Uploads : v # u => upload'[v] = upload[v]
    BY <1>1, <1>4 DEF KeysTyped, UploadStates
<1>6. KeysTyped'
    BY <1>1, <1>4, <1>5 DEF KeysTyped
<1>7. \A v \in Uploads \ overlapped' : v \notin overlapped /\ (v = u => others = {}) /\ (v # u => ~UnderWay(v) \/ others = {})
    BY <1>2, <1>4
<1>8. \A v \in Uploads : v # u => (UnderWay(v)' <=> UnderWay(v)) /\ BatchOf(v)' = BatchOf(v) /\ (HasStored(v)' <=> HasStored(v))
    BY <1>5 DEF UnderWay, BatchOf, HasStored
<1>9. UnderWay(u)' /\ ~UnderWay(u) /\ ~HasStored(u)'
    BY <1>3, <1>4, <1>5 DEF UnderWay, HasStored
<1>10. AloneUnlessOverlapped'
    BY <1>2, <1>7, <1>8, <1>9 DEF AloneUnlessOverlapped
<1>11. IdsApart'
    <2>1. ASSUME NEW v \in Uploads \ overlapped'
          PROVE  /\ UnderWay(v)' => nextPreKeyId = upload'[v].from
                 /\ upload'[v].pc = "done" =>
                       /\ upload'[v].from + Batch <= nextPreKeyId
                       /\ \A w \in Uploads : UnderWay(w)' => upload'[v].from + Batch <= upload'[w].from
        <3>1. CASE v = u
            BY <1>3, <1>5, <3>1
        <3>2. CASE v # u
            BY <1>1, <1>2, <1>5, <1>7, <1>8, <3>2 DEF IdsApart
        <3> QED BY <3>1, <3>2
    <2> QED BY <1>4, <2>1 DEF IdsApart
<1>12. PublicOnce'
    <2>1. \A i \in Ids, v \in Uploads : (Public(i, v)' <=> Public(i, v)) /\ (Public(i, v) => v # u)
        BY <1>1, <1>4 DEF Public, PublicOnce
    <2> SUFFICES ASSUME NEW i \in Ids, NEW v \in Uploads
                 PROVE  /\ Public(i, v)' => i \in BatchOf(v)' /\ upload'[v].pc \notin {"new", "storing", "asked"}
                        /\ ~(server[i] = v /\ <<i, v>> \in handedOut)
        BY <1>4 DEF PublicOnce
    <2>2. CASE v = u
        BY <1>1, <2>1, <2>2 DEF PublicOnce
    <2>3. CASE v # u
        BY <1>1, <1>5, <1>8, <2>1, <2>3 DEF PublicOnce
    <2> QED BY <2>2, <2>3
<1>13. DeviceRight'
    <2>1. \A i \in Ids, v \in Uploads : Public(i, v)' <=> Public(i, v)
        BY <1>4 DEF Public
    <2> QED BY <1>1, <1>4, <1>5, <1>7, <1>8, <1>9, <2>1 DEF DeviceRight
<1> QED BY <1>6, <1>10, <1>11, <1>12, <1>13 DEF KeysInv

\* A step of an upload that is under way.
LEMMA Moved ==
    ASSUME KeysInv, NEW u \in Uploads, NEW pc \in UploadStates \ {"new"}, Moves(u, pc), UNCHANGED overlapped, UnderWay(u)
    PROVE  /\ upload' \in [Uploads -> [pc : UploadStates, way : {"none", "first", "after"}, from : Nat]]
           /\ upload'[u].pc = pc /\ \A v \in Uploads : v # u => upload'[v] = upload[v]
           /\ \A v \in Uploads : upload'[v].from = upload[v].from /\ upload'[v].way = upload[v].way /\ BatchOf(v)' = BatchOf(v)
           /\ \A v \in Uploads : UnderWay(v)' => UnderWay(v)
           /\ AloneUnlessOverlapped'
<1>1. /\ upload' \in [Uploads -> [pc : UploadStates, way : {"none", "first", "after"}, from : Nat]]
      /\ upload'[u].pc = pc /\ \A v \in Uploads : v # u => upload'[v] = upload[v]
      /\ \A v \in Uploads : upload'[v].from = upload[v].from /\ upload'[v].way = upload[v].way
    BY DEF KeysInv, KeysTyped, Moves
<1>2. \A v \in Uploads : BatchOf(v)' = BatchOf(v)
    BY <1>1 DEF BatchOf
<1>3. \A v \in Uploads : UnderWay(v)' => UnderWay(v)
    BY <1>1 DEF UnderWay
<1>4. AloneUnlessOverlapped'
    BY <1>3 DEF KeysInv, AloneUnlessOverlapped
<1> QED BY <1>1, <1>2, <1>3, <1>4

\* One that moves on without storing, or without the ids.
LEMMA MovedIds ==
    ASSUME KeysInv, NEW u \in Uploads, NEW pc \in UploadStates \ {"new", "done"}, Moves(u, pc),
           UNCHANGED <<overlapped, nextPreKeyId>>, UnderWay(u)
    PROVE  IdsApart'
<1>1. /\ upload'[u].pc = pc /\ \A v \in Uploads : v # u => upload'[v] = upload[v]
      /\ \A v \in Uploads : upload'[v].from = upload[v].from
      /\ \A v \in Uploads : UnderWay(v)' => UnderWay(v)
    BY Moved
<1>2. \A v \in Uploads : upload'[v].pc = "done" => upload[v].pc = "done"
    BY <1>1
<1> QED BY <1>1, <1>2 DEF KeysInv, IdsApart

LEMMA StoredKeeps ==
    ASSUME KeysInv, NEW u \in Uploads, StoredFirst(u) \/ StoredAfter(u)
    PROVE  KeysInv'
<1>1. KeysTyped /\ AloneUnlessOverlapped /\ IdsApart /\ PublicOnce /\ DeviceRight
    BY DEF KeysInv
<1>2. PICK pc \in {"asked", "stored"} :
        /\ Moves(u, pc) /\ upload[u].pc = IF pc = "asked" THEN "storing" ELSE "answered"
        /\ device' = Overwritten(device, u) /\ UNCHANGED <<nextPreKeyId, server, handedOut, overlapped>>
    BY DEF StoredFirst, StoredAfter
<1>3. UnderWay(u)
    BY <1>2 DEF UnderWay
<1>4. pc \in UploadStates \ {"new", "done"}
    BY DEF UploadStates
<1>5. /\ upload' \in [Uploads -> [pc : UploadStates, way : {"none", "first", "after"}, from : Nat]]
      /\ upload'[u].pc = pc /\ \A v \in Uploads : v # u => upload'[v] = upload[v]
      /\ \A v \in Uploads : upload'[v].from = upload[v].from /\ upload'[v].way = upload[v].way /\ BatchOf(v)' = BatchOf(v)
      /\ \A v \in Uploads : UnderWay(v)' => UnderWay(v)
      /\ AloneUnlessOverlapped'
    BY <1>2, <1>3, <1>4, Moved
<1>6. IdsApart'
    BY <1>2, <1>3, <1>4, MovedIds
<1>7. device' = [i \in Ids |-> IF i \in BatchOf(u) THEN u ELSE device[i]]
    BY <1>2 DEF Overwritten
<1>8. KeysTyped'
    BY <1>1, <1>2, <1>5, <1>7 DEF KeysTyped
<1>9. \A i \in Ids, v \in Uploads : Public(i, v)' <=> Public(i, v)
    BY <1>2 DEF Public
<1>10. PublicOnce'
    BY <1>1, <1>2, <1>5, <1>9 DEF PublicOnce
<1>11. DeviceRight'
    <2> SUFFICES ASSUME NEW v \in Uploads \ overlapped, NEW i \in Ids \cap BatchOf(v),
                        HasStored(v)', upload'[v].pc = "asked" \/ Public(i, v)
                 PROVE  device'[i] = v
        BY <1>2, <1>5, <1>9 DEF DeviceRight
    <2>1. CASE v = u
        BY <1>7, <2>1
    <2>2. CASE v # u
        <3>1. HasStored(v) /\ upload[v].pc \in {"asked", "taken", "stored", "done"} /\ upload'[v] = upload[v]
            BY <1>5, <2>2 DEF HasStored
        <3>2. upload[v].pc = "done"
            BY <1>1, <1>3, <2>2, <3>1 DEF AloneUnlessOverlapped, UnderWay
        <3>3. upload[v].from + Batch <= upload[u].from
            BY <1>1, <1>3, <3>2 DEF IdsApart
        <3>4. i \notin BatchOf(u)
            <4>1. upload[v].from \in Nat /\ upload[u].from \in Nat /\ i \in Int
                BY <1>1 DEF KeysTyped, Ids
            <4> QED BY <3>3, <4>1, PreKeysAssumption DEF BatchOf
        <3> QED BY <1>1, <1>7, <3>1, <3>4 DEF DeviceRight
    <2> QED BY <2>1, <2>2
<1> QED BY <1>5, <1>6, <1>8, <1>10, <1>11 DEF KeysInv

LEMMA TakenKeeps ==
    ASSUME KeysInv, NEW u \in Uploads, ServerTakes(u)
    PROVE  KeysInv'
<1>1. KeysTyped /\ AloneUnlessOverlapped /\ IdsApart /\ PublicOnce /\ DeviceRight
    BY DEF KeysInv
<1>2. /\ Moves(u, "taken") /\ upload[u].pc = "asked" /\ server' = Overwritten(server, u)
      /\ UNCHANGED <<nextPreKeyId, device, handedOut, overlapped>>
    BY DEF ServerTakes
<1>3. UnderWay(u) /\ "taken" \in UploadStates \ {"new", "done"}
    BY <1>2 DEF UnderWay, UploadStates
<1>4. /\ upload' \in [Uploads -> [pc : UploadStates, way : {"none", "first", "after"}, from : Nat]]
      /\ upload'[u].pc = "taken" /\ \A v \in Uploads : v # u => upload'[v] = upload[v]
      /\ \A v \in Uploads : upload'[v].from = upload[v].from /\ upload'[v].way = upload[v].way /\ BatchOf(v)' = BatchOf(v)
      /\ AloneUnlessOverlapped'
    BY <1>2, <1>3, Moved
<1>5. IdsApart'
    BY <1>2, <1>3, MovedIds
<1>6. server' = [i \in Ids |-> IF i \in BatchOf(u) THEN u ELSE server[i]]
    BY <1>2 DEF Overwritten
<1>7. KeysTyped'
    BY <1>1, <1>2, <1>4, <1>6 DEF KeysTyped
<1>8. \A i \in Ids : (Public(i, u)' => i \in BatchOf(u)) /\ <<i, u>> \notin handedOut
    <2>1. \A i \in Ids : server[i] # u /\ <<i, u>> \notin handedOut
        BY <1>1, <1>2 DEF Public, PublicOnce
    <2> QED BY <1>2, <1>6, <2>1 DEF Public
<1>9. \A i \in Ids, v \in Uploads : v # u => (Public(i, v)' => Public(i, v)) /\ (server'[i] = v => server[i] = v)
    BY <1>2, <1>6 DEF Public
<1>10. PublicOnce'
    <2> SUFFICES ASSUME NEW i \in Ids, NEW v \in Uploads
                 PROVE  /\ Public(i, v)' => i \in BatchOf(v) /\ upload'[v].pc \notin {"new", "storing", "asked"}
                        /\ ~(server'[i] = v /\ <<i, v>> \in handedOut)
        BY <1>2, <1>4 DEF PublicOnce
    <2>1. CASE v = u
        BY <1>4, <1>8, <2>1
    <2>2. CASE v # u
        <3>1. upload'[v] = upload[v]
            BY <1>4, <2>2
        <3> QED BY <1>1, <1>9, <2>2, <3>1 DEF PublicOnce
    <2> QED BY <2>1, <2>2
<1>11. DeviceRight'
    <2> SUFFICES ASSUME NEW v \in Uploads \ overlapped, NEW i \in Ids \cap BatchOf(v),
                        HasStored(v)', upload'[v].pc = "asked" \/ Public(i, v)'
                 PROVE  device[i] = v
        BY <1>2, <1>4 DEF DeviceRight
    <2>1. CASE v = u
        BY <1>1, <1>2, <1>4, <2>1 DEF DeviceRight, HasStored
    <2>2. CASE v # u
        <3>1. upload'[v] = upload[v]
            BY <1>4, <2>2
        <3>2. HasStored(v)
            BY <3>1 DEF HasStored
        <3> QED BY <1>1, <1>9, <2>2, <3>1, <3>2 DEF DeviceRight
    <2> QED BY <2>1, <2>2
<1> QED BY <1>4, <1>5, <1>7, <1>10, <1>11 DEF KeysInv

LEMMA AnsweredKeeps ==
    ASSUME KeysInv, NEW u \in Uploads, Answered(u) \/ QueryFails(u)
    PROVE  KeysInv'
<1>1. KeysTyped /\ AloneUnlessOverlapped /\ IdsApart /\ PublicOnce /\ DeviceRight
    BY DEF KeysInv
<1>2. PICK pc \in {"stored", "answered", "lost"} :
        /\ Moves(u, pc) /\ upload[u].pc \in {"asked", "taken"}
        /\ pc # "lost" => upload[u].pc = "taken" /\ (pc = "stored" <=> upload[u].way = "first")
        /\ UNCHANGED <<nextPreKeyId, device, server, handedOut, overlapped>>
    BY DEF Answered, QueryFails, oneTime
<1>3. UnderWay(u) /\ pc \in UploadStates \ {"new", "done"}
    BY <1>2 DEF UnderWay, UploadStates
<1>4. /\ upload' \in [Uploads -> [pc : UploadStates, way : {"none", "first", "after"}, from : Nat]]
      /\ upload'[u].pc = pc /\ \A v \in Uploads : v # u => upload'[v] = upload[v]
      /\ \A v \in Uploads : upload'[v].from = upload[v].from /\ upload'[v].way = upload[v].way /\ BatchOf(v)' = BatchOf(v)
      /\ AloneUnlessOverlapped'
    BY <1>2, <1>3, Moved
<1>5. IdsApart'
    BY <1>2, <1>3, MovedIds
<1>6. KeysTyped'
    BY <1>1, <1>2, <1>4 DEF KeysTyped
<1>7. \A i \in Ids, v \in Uploads : Public(i, v)' <=> Public(i, v)
    BY <1>2 DEF Public
<1>8. PublicOnce'
    BY <1>1, <1>2, <1>4, <1>7 DEF PublicOnce
<1>9. \A v \in Uploads : HasStored(v)' => HasStored(v) /\ (upload'[v].pc = "asked" => upload[v].pc = "asked")
    BY <1>2, <1>4 DEF HasStored
<1>10. DeviceRight'
    BY <1>1, <1>2, <1>4, <1>7, <1>9 DEF DeviceRight
<1> QED BY <1>4, <1>5, <1>6, <1>8, <1>10 DEF KeysInv

\* An upload that was alone leaves the next id behind its batch.
LEMMA DoneKeeps ==
    ASSUME KeysInv, NEW u \in Uploads, Done(u)
    PROVE  KeysInv'
<1>1. KeysTyped /\ AloneUnlessOverlapped /\ IdsApart /\ PublicOnce /\ DeviceRight
    BY DEF KeysInv
<1>2. /\ Moves(u, "done") /\ upload[u].pc = "stored" /\ UNCHANGED <<device, server, handedOut, overlapped>>
      /\ nextPreKeyId' = IF upload[u].way = "first" THEN upload[u].from + Batch ELSE nextPreKeyId + Batch
    BY DEF Done, IdAfter
<1>3. UnderWay(u) /\ "done" \in UploadStates \ {"new"}
    BY <1>2 DEF UnderWay, UploadStates
<1>4. /\ upload' \in [Uploads -> [pc : UploadStates, way : {"none", "first", "after"}, from : Nat]]
      /\ upload'[u].pc = "done" /\ \A v \in Uploads : v # u => upload'[v] = upload[v]
      /\ \A v \in Uploads : upload'[v].from = upload[v].from /\ upload'[v].way = upload[v].way /\ BatchOf(v)' = BatchOf(v)
      /\ \A v \in Uploads : UnderWay(v)' => UnderWay(v)
      /\ AloneUnlessOverlapped'
    BY <1>2, <1>3, Moved
<1>5. nextPreKeyId \in Nat /\ Batch \in Nat /\ \A v \in Uploads : upload[v].from \in Nat
    BY <1>1, PreKeysAssumption DEF KeysTyped
<1>6. KeysTyped'
    BY <1>1, <1>2, <1>4, <1>5 DEF KeysTyped
<1>7. \A i \in Ids, v \in Uploads : Public(i, v)' <=> Public(i, v)
    BY <1>2 DEF Public
<1>8. PublicOnce'
    BY <1>1, <1>2, <1>4, <1>7 DEF PublicOnce
<1>9. \A v \in Uploads : HasStored(v)' => HasStored(v) /\ (upload'[v].pc = "asked" => upload[v].pc = "asked")
    BY <1>2, <1>4 DEF HasStored
<1>10. DeviceRight'
    BY <1>1, <1>2, <1>4, <1>7, <1>9 DEF DeviceRight
<1>11. IdsApart'
    <2> SUFFICES ASSUME NEW v \in Uploads \ overlapped
                 PROVE  /\ UnderWay(v)' => nextPreKeyId' = upload[v].from
                        /\ upload'[v].pc = "done" =>
                              /\ upload[v].from + Batch <= nextPreKeyId'
                              /\ \A w \in Uploads : UnderWay(w)' => upload[v].from + Batch <= upload[w].from
        BY <1>2, <1>4 DEF IdsApart
    <2>1. CASE v = u
        <3>1. nextPreKeyId' = upload[u].from + Batch
            BY <1>1, <1>2, <1>3, <2>1 DEF IdsApart
        <3>2. \A w \in Uploads : ~UnderWay(w)'
            BY <1>1, <1>3, <1>4, <2>1 DEF AloneUnlessOverlapped, UnderWay
        <3> QED BY <1>5, <2>1, <3>1, <3>2
    <2>2. CASE v # u
        <3>1. ~UnderWay(v) /\ ~UnderWay(v)'
            BY <1>1, <1>3, <1>4, <2>2 DEF AloneUnlessOverlapped
        <3>2. upload'[v].pc = "done" => /\ upload[v].from + Batch <= nextPreKeyId
                                       /\ \A w \in Uploads : UnderWay(w) => upload[v].from + Batch <= upload[w].from
            BY <1>1, <1>4, <2>2 DEF IdsApart
        <3> QED BY <1>2, <1>3, <1>4, <1>5, <3>1, <3>2
    <2> QED BY <2>1, <2>2
<1> QED BY <1>4, <1>6, <1>8, <1>10, <1>11 DEF KeysInv

LEMMA HandOutKeeps ==
    ASSUME KeysInv, NEW i \in Ids, HandOut(i)
    PROVE  KeysInv'
<1>1. KeysTyped /\ AloneUnlessOverlapped /\ IdsApart /\ PublicOnce /\ DeviceRight
    BY DEF KeysInv
<1>2. /\ server[i] # NoKey /\ server' = [server EXCEPT ![i] = NoKey]
      /\ handedOut' = handedOut \cup {<<i, server[i]>>}
      /\ UNCHANGED <<nextPreKeyId, device, upload, overlapped>>
    BY DEF HandOut
<1>3. server[i] \in Uploads
    BY <1>1, <1>2 DEF KeysTyped
<1>4. KeysTyped'
    BY <1>1, <1>2, <1>3 DEF KeysTyped
<1>5. \A j \in Ids, u \in Uploads : Public(j, u)' <=> Public(j, u)
    BY <1>1, <1>2, PreKeysAssumption DEF Public, KeysTyped
<1>6. \A j \in Ids, u \in Uploads : ~(server'[j] = u /\ <<j, u>> \in handedOut')
    BY <1>1, <1>2, PreKeysAssumption DEF PublicOnce, KeysTyped
<1>7. PublicOnce' /\ DeviceRight'
    BY <1>1, <1>2, <1>5, <1>6 DEF PublicOnce, DeviceRight, HasStored, BatchOf
<1>8. AloneUnlessOverlapped' /\ IdsApart'
    BY <1>1, <1>2 DEF AloneUnlessOverlapped, IdsApart, UnderWay
<1> QED BY <1>4, <1>7, <1>8 DEF KeysInv

LEMMA ReadKeeps ==
    ASSUME KeysInv, NEW k \in handedOut, ReadWith(k)
    PROVE  KeysInv'
<1>1. KeysTyped /\ AloneUnlessOverlapped /\ IdsApart /\ PublicOnce /\ DeviceRight
    BY DEF KeysInv
<1>2. PICK i \in Ids, u \in Uploads : k = <<i, u>>
    BY <1>1 DEF KeysTyped
<1>3. /\ device[i] = u /\ device' = [device EXCEPT ![i] = NoKey] /\ handedOut' = handedOut \ {<<i, u>>}
      /\ UNCHANGED <<nextPreKeyId, server, upload, overlapped>>
    BY <1>2 DEF ReadWith
<1>4. KeysTyped'
    BY <1>1, <1>3 DEF KeysTyped
<1>5. \A j \in Ids, v \in Uploads : Public(j, v)' => Public(j, v) /\ ~(j = i /\ v = u)
    BY <1>1, <1>2, <1>3 DEF Public, PublicOnce
<1>6. PublicOnce'
    BY <1>1, <1>3, <1>5 DEF PublicOnce, BatchOf
<1>7. DeviceRight'
    <2> SUFFICES ASSUME NEW v \in Uploads \ overlapped, NEW j \in Ids \cap BatchOf(v),
                        HasStored(v), upload[v].pc = "asked" \/ Public(j, v)'
                 PROVE  device'[j] = v
        BY <1>3 DEF DeviceRight, HasStored, BatchOf
    <2>1. device[j] = v
        BY <1>1, <1>5 DEF DeviceRight
    <2>2. j # i
        <3>1. SUFFICES ASSUME j = i PROVE FALSE
            OBVIOUS
        <3>2. v = u /\ upload[u].pc = "asked"
            BY <1>3, <1>5, <2>1, <3>1
        <3> QED BY <1>1, <1>2, <3>2 DEF PublicOnce, Public
    <2> QED BY <1>1, <1>3, <2>1, <2>2 DEF KeysTyped
<1>8. AloneUnlessOverlapped' /\ IdsApart'
    BY <1>1, <1>3 DEF AloneUnlessOverlapped, IdsApart, UnderWay
<1> QED BY <1>4, <1>6, <1>7, <1>8 DEF KeysInv

LEMMA KeysSteps == KeysInv /\ [PreKeysNext]_preKeyVars => KeysInv'
<1> SUFFICES ASSUME KeysInv, [PreKeysNext]_preKeyVars PROVE KeysInv'
    OBVIOUS
<1>1. ASSUME NEW u \in Uploads, BeginAfter(u) \/ BeginFirst(u) PROVE KeysInv'
    BY <1>1, BeginKeeps DEF BeginAfter, BeginFirst
<1>2. ASSUME NEW u \in Uploads, StoredFirst(u) \/ StoredAfter(u) \/ ServerTakes(u) PROVE KeysInv'
    BY <1>2, StoredKeeps, TakenKeeps
<1>3. ASSUME NEW u \in Uploads, Answered(u) \/ QueryFails(u) \/ Done(u) PROVE KeysInv'
    BY <1>3, AnsweredKeeps, DoneKeeps
<1>4. ASSUME NEW i \in Ids, HandOut(i) PROVE KeysInv'
    BY <1>4, HandOutKeeps
<1>5. ASSUME NEW k \in handedOut, ReadWith(k) PROVE KeysInv'
    BY <1>5, ReadKeeps
<1>6. CASE UNCHANGED <<oneTime, upload>>
    BY <1>6 DEF oneTime, KeysInv, KeysTyped, AloneUnlessOverlapped, UnderWay, IdsApart, PublicOnce, Public,
        BatchOf, DeviceRight, HasStored
<1>7. CASE Rotate \/ HandOutSigned \/ \E b \in bundles : LoadSignedPreKey(b)
    BY <1>6, <1>7 DEF Rotate, HandOutSigned, LoadSignedPreKey
<1>8. ASSUME NEW r \in DOMAIN rotations, ServerRotates(r) \/ RotationFails(r) \/ Rotated(r) PROVE KeysInv'
    BY <1>6, <1>8 DEF ServerRotates, RotationFails, Rotated
<1> QED BY <1>1, <1>2, <1>3, <1>4, <1>5, <1>6, <1>7, <1>8 DEF PreKeysNext, preKeyVars

LEMMA KnownKeys == KeysInv => ServerKeysKnown
<1> SUFFICES ASSUME KeysInv PROVE ServerKeysKnown
    OBVIOUS
<1>1. ASSUME NEW i \in Ids, NEW u \in Uploads, Public(i, u), upload[u].pc = "done", u \notin overlapped
      PROVE  device[i] = u
    BY <1>1 DEF KeysInv, PublicOnce, DeviceRight, HasStored
<1>2. \A k \in handedOut \cup {<<i, server[i]>> : i \in {j \in Ids : server[j] # NoKey}} :
          \E i \in Ids, u \in Uploads : k = <<i, u>> /\ Public(i, u)
    <2>1. ASSUME NEW k \in handedOut PROVE \E i \in Ids, u \in Uploads : k = <<i, u>> /\ Public(i, u)
        <3>1. k \in Ids \X Uploads
            BY <2>1 DEF KeysInv, KeysTyped
        <3>2. PICK i \in Ids, u \in Uploads : k = <<i, u>>
            BY <3>1
        <3> QED BY <2>1, <3>2 DEF Public
    <2>2. ASSUME NEW i \in Ids, server[i] # NoKey
          PROVE  \E j \in Ids, u \in Uploads : <<i, server[i]>> = <<j, u>> /\ Public(j, u)
        BY <2>2 DEF KeysInv, KeysTyped, Public
    <2> QED BY <2>1, <2>2
<1>3. ASSUME NEW k \in handedOut \cup {<<i, server[i]>> : i \in {j \in Ids : server[j] # NoKey}},
             upload[k[2]].pc = "done", k[2] \notin overlapped
      PROVE  device[k[1]] = k[2]
    BY <1>1, <1>2, <1>3
<1> QED BY <1>3 DEF ServerKeysKnown

(***************************************************************************)
(* Signed pre-keys.  An upload that was sent while no rotation was under   *)
(* way carries the key of creds to the server before any rotation can      *)
(* change either; rotations are taken and answered in the order in which   *)
(* they were sent.                                                         *)
(***************************************************************************)
Rotations == [id : Nat, pc : {"asked", "taken", "done", "lost"}, at : Nat]
SignedKeys == [id : Nat, pair : Nat]

RotationTaken == \E r \in DOMAIN rotations : rotations[r].pc = "taken"

SignedTyped ==
    /\ rotations \in Seq(Rotations) /\ requests \in Nat
    /\ signedPreKey \in SignedKeys /\ serverSigned \in SignedKeys
    /\ upload \in [Uploads -> [pc : UploadStates, way : {"none", "first", "after"}, from : Nat]]
    /\ sent \in [Uploads -> [at : Nat, skey : SignedKeys]]
    /\ \A u \in beside : u \in Uploads /\ upload[u].pc \notin {"new", "storing"}

\* A key names its rotation, of which the first has none.
IsKey(k) ==
    IF k.pair = 0 THEN k = [id |-> 1, pair |-> 0]
    ELSE k.pair \in DOMAIN rotations /\ k = [id |-> rotations[k.pair].id, pair |-> k.pair]

\* What creds had, they had from a rotation that is over.
IsOwn(k) == k.pair # 0 => rotations[k.pair].pc = "done"

KeysNamed ==
    /\ IsKey(signedPreKey) /\ IsKey(serverSigned) /\ \A u \in Uploads : IsKey(sent[u].skey)
    /\ IsOwn(signedPreKey) /\ \A u \in Uploads : IsOwn(sent[u].skey)

RequestsInOrder ==
    /\ \A u \in Uploads : sent[u].at <= requests
    /\ \A r \in DOMAIN rotations : rotations[r].at <= requests
    /\ \A q, r \in DOMAIN rotations : q < r => rotations[q].at < rotations[r].at
    /\ \A q, r \in DOMAIN rotations : rotations[q].pc = "taken" /\ rotations[r].pc = "asked" => q < r

\* An upload that is to come to the server and was sent beside no rotation.
CarriesCurrent ==
    \A u \in Uploads \ beside : upload[u].pc = "asked" =>
        /\ sent[u].skey = signedPreKey
        /\ \A r \in DOMAIN rotations :
              rotations[r].pc # "taken" /\ (rotations[r].pc = "asked" => sent[u].at < rotations[r].at)

\* Why the server may have another key than creds.
Excused ==
    \/ serverSigned.pair # 0 /\ rotations[serverSigned.pair].pc \in {"taken", "lost"}
    \/ \E u \in beside : upload[u].pc # "asked" /\ sent[u].skey = serverSigned

LastTaken ==
    /\ RotationTaken => Excused
    /\ serverSigned.pair # 0 /\ rotations[serverSigned.pair].pc = "taken" =>
          \A r \in DOMAIN rotations : rotations[r].pc = "taken" => r <= serverSigned.pair
    /\ serverSigned = signedPreKey \/ Excused

SignedInv == SignedTyped /\ KeysNamed /\ RequestsInOrder /\ CarriesCurrent /\ LastTaken

LEMMA ElementsOfSeq == ASSUME NEW S, NEW s \in Seq(S) PROVE \A i \in DOMAIN s : s[i] \in S
OBVIOUS

LEMMA SignedInitially == PreKeysInit => SignedInv
<1> SUFFICES ASSUME PreKeysInit PROVE SignedInv
    OBVIOUS
<1>1. SignedTyped
    BY DEF PreKeysInit, SignedTyped, SignedKeys, UploadStates
<1>2. KeysNamed
    BY DEF PreKeysInit, KeysNamed, IsKey, IsOwn
<1>3. RequestsInOrder /\ CarriesCurrent /\ LastTaken
    BY DEF PreKeysInit, RequestsInOrder, CarriesCurrent, LastTaken, RotationTaken
<1> QED BY <1>1, <1>2, <1>3 DEF SignedInv

\* A step of an upload that neither sends a request nor comes to the server.
LEMMA UploadStepKeeps ==
    ASSUME SignedInv, UNCHANGED <<signedPreKey, rotations, serverSigned, sending>>,
           upload' \in [Uploads -> [pc : UploadStates, way : {"none", "first", "after"}, from : Nat]],
           \A u \in Uploads :
              /\ upload'[u].pc = "asked" => upload[u].pc = "asked"
              /\ upload'[u].pc \in {"new", "storing"} => upload[u].pc \in {"new", "storing"}
    PROVE  SignedInv'
<1>1. SignedTyped'
    BY DEF SignedInv, SignedTyped, sending
<1>2. KeysNamed' /\ RequestsInOrder'
    BY DEF SignedInv, KeysNamed, IsKey, IsOwn, RequestsInOrder, sending
<1>3. CarriesCurrent'
    BY DEF SignedInv, CarriesCurrent, sending
<1>4. (Excused => Excused') /\ (RotationTaken' <=> RotationTaken)
    BY DEF SignedInv, SignedTyped, Excused, RotationTaken, sending
<1>5. LastTaken'
    BY <1>4 DEF SignedInv, LastTaken
<1> QED BY <1>1, <1>2, <1>3, <1>5 DEF SignedInv

\* An upload is sent, with the key of creds.
LEMMA SentKeeps ==
    ASSUME SignedInv, NEW u \in Uploads, upload[u].pc \in {"new", "storing"}, Sends(u),
           UNCHANGED <<signedPreKey, rotations, serverSigned>>,
           upload' \in [Uploads -> [pc : UploadStates, way : {"none", "first", "after"}, from : Nat]],
           upload'[u].pc = "asked", \A v \in Uploads : v # u => upload'[v] = upload[v]
    PROVE  SignedInv'
<1>1. SignedTyped /\ KeysNamed /\ RequestsInOrder /\ CarriesCurrent /\ LastTaken /\ u \notin beside
    BY DEF SignedInv, SignedTyped
<1>2. /\ requests \in Nat /\ requests' = requests + 1 /\ requests' \in Nat
      /\ sent' \in [Uploads -> [at : Nat, skey : SignedKeys]]
      /\ sent'[u].skey = signedPreKey /\ sent'[u].at = requests' /\ \A v \in Uploads : v # u => sent'[v] = sent[v]
      /\ \A v \in beside' : v \in beside \/ v = u
      /\ \A v \in beside : v \in beside'
    BY <1>1 DEF Sends, SignedTyped
<1>3. u \notin beside' => \A r \in DOMAIN rotations : rotations[r].pc \notin {"asked", "taken"}
    BY DEF Sends
<1>4. SignedTyped'
    BY <1>1, <1>2 DEF SignedTyped
<1>5. KeysNamed'
    <2>1. IsKey(signedPreKey)' /\ IsKey(serverSigned)' /\ IsOwn(signedPreKey)'
        BY <1>1 DEF KeysNamed, IsKey, IsOwn
    <2>2. ASSUME NEW v \in Uploads PROVE IsKey(sent[v].skey)' /\ IsOwn(sent[v].skey)'
        <3>1. CASE v = u
            BY <1>1, <1>2, <3>1 DEF KeysNamed, IsKey, IsOwn
        <3>2. CASE v # u
            BY <1>1, <1>2, <3>2 DEF KeysNamed, IsKey, IsOwn
        <3> QED BY <3>1, <3>2
    <2> QED BY <2>1, <2>2 DEF KeysNamed
<1>6. RequestsInOrder'
    <2>a. \A r \in DOMAIN rotations : rotations[r] \in Rotations
        BY <1>1, ElementsOfSeq DEF SignedTyped
    <2>1. (\A r \in DOMAIN rotations : rotations[r].at \in Nat) /\ \A v \in Uploads : sent[v].at \in Nat
        BY <1>1, <2>a DEF SignedTyped, Rotations
    <2> QED BY <1>1, <1>2, <2>1 DEF RequestsInOrder
<1>7. CarriesCurrent'
    BY <1>1, <1>2, <1>3 DEF CarriesCurrent
<1>8. (Excused => Excused') /\ (RotationTaken' <=> RotationTaken)
    BY <1>1, <1>2 DEF SignedTyped, Excused, RotationTaken
<1>9. LastTaken'
    BY <1>1, <1>8 DEF LastTaken
<1> QED BY <1>4, <1>5, <1>6, <1>7, <1>9 DEF SignedInv

\* The server takes the signed key of an upload.
LEMMA SkeyKeeps ==
    ASSUME SignedInv, NEW u \in Uploads, ServerTakes(u)
    PROVE  SignedInv'
<1>1. SignedTyped /\ KeysNamed /\ RequestsInOrder /\ CarriesCurrent /\ LastTaken
    BY DEF SignedInv
<1>2. /\ upload[u].pc = "asked" /\ serverSigned' = sent[u].skey
      /\ UNCHANGED <<signedPreKey, rotations, requests, sent, beside>>
      /\ upload' = [upload EXCEPT ![u].pc = "taken"]
    BY DEF ServerTakes, Moves, sending
<1>3. /\ upload' \in [Uploads -> [pc : UploadStates, way : {"none", "first", "after"}, from : Nat]]
      /\ upload'[u].pc = "taken" /\ \A v \in Uploads : v # u => upload'[v] = upload[v]
    BY <1>1, <1>2 DEF SignedTyped, UploadStates
<1>4. SignedTyped'
    BY <1>1, <1>2, <1>3 DEF SignedTyped
<1>5. KeysNamed'
    BY <1>1, <1>2 DEF KeysNamed, IsKey, IsOwn
<1>6. RequestsInOrder' /\ CarriesCurrent'
    BY <1>1, <1>2, <1>3 DEF RequestsInOrder, CarriesCurrent
<1>7. u \in beside => Excused'
    BY <1>2, <1>3 DEF Excused
<1>8. u \notin beside => serverSigned' = signedPreKey /\ ~RotationTaken'
    BY <1>1, <1>2 DEF CarriesCurrent, RotationTaken
<1>9. serverSigned'.pair # 0 => rotations'[serverSigned'.pair].pc = "done"
    BY <1>1, <1>2 DEF KeysNamed, IsOwn
<1>10. LastTaken'
    BY <1>2, <1>7, <1>8, <1>9 DEF LastTaken
<1> QED BY <1>4, <1>5, <1>6, <1>10 DEF SignedInv

LEMMA RotateKeeps ==
    ASSUME SignedInv, Rotate
    PROVE  SignedInv'
<1>1. SignedTyped /\ KeysNamed /\ RequestsInOrder /\ CarriesCurrent /\ LastTaken
    BY DEF SignedInv
<1>2. PICK new \in Rotations :
         /\ new.pc = "asked" /\ new.at = requests + 1 /\ rotations' = Append(rotations, new) /\ requests' = requests + 1
         /\ UNCHANGED <<upload, signedPreKey, serverSigned, sent, beside>>
    <2>1. [id |-> signedPreKey.id + 1, pc |-> "asked", at |-> requests + 1] \in Rotations
        BY <1>1 DEF Rotations, SignedTyped, SignedKeys
    <2> QED BY <2>1 DEF Rotate
<1>3. PICK n \in Nat : DOMAIN rotations = 1..n /\ n = Len(rotations)
    BY <1>1 DEF SignedTyped
<1>4. /\ rotations' \in Seq(Rotations) /\ DOMAIN rotations' = 1..(n + 1) /\ rotations'[n + 1] = new
      /\ \A r \in 1..n : rotations'[r] = rotations[r] /\ rotations[r].at \in Nat
      /\ \A r \in 1..(n + 1) : r \in 1..n \/ r = n + 1
    <2>a. \A r \in 1..n : rotations[r] \in Rotations
        BY <1>1, <1>3, ElementsOfSeq DEF SignedTyped
    <2>1. \A r \in 1..n : rotations[r].at \in Nat
        BY <2>a DEF Rotations
    <2> QED BY <1>1, <1>2, <1>3, <2>1 DEF SignedTyped
<1>5. requests \in Nat /\ sent \in [Uploads -> [at : Nat, skey : SignedKeys]] /\ \A u \in Uploads : sent[u].at \in Nat
    BY <1>1 DEF SignedTyped
<1>6. SignedTyped'
    BY <1>1, <1>2, <1>4, <1>5 DEF SignedTyped
<1>7. KeysNamed'
    <2>1. ASSUME NEW k, IsKey(k) PROVE IsKey(k)' /\ (k.pair # 0 => k.pair \in 1..n)
        BY <1>3, <1>4, <2>1 DEF IsKey
    <2>2. ASSUME NEW k, IsKey(k), IsOwn(k) PROVE IsOwn(k)'
        BY <1>4, <2>1, <2>2 DEF IsOwn
    <2>3. IsKey(signedPreKey)' /\ IsKey(serverSigned)' /\ IsOwn(signedPreKey)'
        BY <1>1, <1>2, <1>3, <1>4 DEF KeysNamed, IsKey, IsOwn
    <2>4. ASSUME NEW u \in Uploads PROVE IsKey(sent[u].skey)' /\ IsOwn(sent[u].skey)'
        <3>1. PICK k : k = sent[u].skey
            OBVIOUS
        <3>2. IsKey(k) /\ IsOwn(k)
            BY <1>1, <3>1 DEF KeysNamed
        <3>3. IsKey(k)' /\ IsOwn(k)'
            BY <2>1, <2>2, <3>2
        <3> QED BY <1>2, <3>1, <3>3 DEF IsKey, IsOwn
    <2> QED BY <2>3, <2>4 DEF KeysNamed
<1>8. RequestsInOrder'
    <2>1. \A r \in 1..n : rotations[r].at < requests + 1 /\ rotations[r].at <= requests
        BY <1>1, <1>3, <1>4, <1>5 DEF RequestsInOrder
    <2>2. \A q, r \in 1..(n + 1) : q < r => q \in 1..n
        OBVIOUS
    <2>3. \A r \in 1..n : r < n + 1
        OBVIOUS
    <2> QED BY <1>1, <1>2, <1>3, <1>4, <1>5, <2>1, <2>2, <2>3 DEF RequestsInOrder
<1>9. CarriesCurrent'
    <2>1. \A u \in Uploads : sent[u].at < requests + 1
        BY <1>1, <1>5 DEF RequestsInOrder
    <2> QED BY <1>1, <1>2, <1>3, <1>4, <2>1 DEF CarriesCurrent
<1>10. serverSigned.pair # 0 => serverSigned.pair \in 1..n
    BY <1>1, <1>3 DEF KeysNamed, IsKey
<1>11. (Excused => Excused') /\ (RotationTaken' => RotationTaken)
    BY <1>2, <1>3, <1>4, <1>10 DEF Excused, RotationTaken
<1>12. LastTaken'
    BY <1>1, <1>2, <1>3, <1>4, <1>10, <1>11 DEF LastTaken
<1> QED BY <1>6, <1>7, <1>8, <1>9, <1>12 DEF SignedInv

\* A rotation changes its state; the keys that are known stay so, but for one
\* that is taken.
LEMMA RotationStep ==
    ASSUME SignedInv, NEW r \in DOMAIN rotations, NEW pc \in {"taken", "done", "lost"}, RotationMoves(r, pc)
    PROVE  /\ rotations' \in Seq(Rotations) /\ DOMAIN rotations' = DOMAIN rotations /\ DOMAIN rotations \subseteq Nat
           /\ rotations'[r].pc = pc
           /\ \A q \in DOMAIN rotations : rotations'[q].id = rotations[q].id /\ rotations'[q].at = rotations[q].at
           /\ \A q \in DOMAIN rotations : q # r => rotations'[q] = rotations[q]
           /\ \A q \in DOMAIN rotations : rotations[q].at \in Nat
<1>1. PICK n \in Nat : DOMAIN rotations = 1..n /\ rotations \in [1..n -> Rotations]
    BY DEF SignedInv, SignedTyped
<1>2. rotations' = [rotations EXCEPT ![r].pc = pc] /\ r \in 1..n
    BY <1>1 DEF RotationMoves
<1>3. rotations' \in [1..n -> Rotations]
    BY <1>1, <1>2 DEF Rotations
<1>4. rotations' \in Seq(Rotations) /\ DOMAIN rotations' = DOMAIN rotations /\ DOMAIN rotations \subseteq Nat
    BY <1>1, <1>3
<1>5. \A q \in 1..n : IF q = r THEN /\ rotations'[q].pc = pc /\ rotations'[q].id = rotations[q].id
                                    /\ rotations'[q].at = rotations[q].at
                              ELSE rotations'[q] = rotations[q]
    BY <1>1, <1>2 DEF Rotations
<1>6. \A q \in 1..n : rotations[q].at \in Nat
    BY <1>1 DEF Rotations
<1> QED BY <1>1, <1>2, <1>4, <1>5, <1>6

\* What stays, whatever rotation moves, if it was taken or nobody's key.
LEMMA RotationNames ==
    ASSUME SignedInv, NEW r \in DOMAIN rotations, NEW pc \in {"taken", "done", "lost"}, RotationMoves(r, pc),
           rotations[r].pc \in {"asked", "taken"}, UNCHANGED sent,
           signedPreKey' = signedPreKey \/ (pc = "done" /\ signedPreKey' = [id |-> rotations[r].id, pair |-> r]),
           serverSigned' = serverSigned \/ serverSigned' = [id |-> rotations[r].id, pair |-> r]
    PROVE  KeysNamed'
<1>1. /\ DOMAIN rotations' = DOMAIN rotations /\ DOMAIN rotations \subseteq Nat /\ rotations'[r].pc = pc
      /\ \A q \in DOMAIN rotations : rotations'[q].id = rotations[q].id
      /\ \A q \in DOMAIN rotations : q # r => rotations'[q] = rotations[q]
    BY RotationStep
<1>2. 0 \notin DOMAIN rotations
    BY DEF SignedInv, SignedTyped
<1>3. KeysNamed
    BY DEF SignedInv
<1>4. IsKey(signedPreKey)' /\ IsKey(serverSigned)'
    BY <1>1, <1>2, <1>3 DEF KeysNamed, IsKey
<1>5. IsOwn(signedPreKey)'
    <2>1. signedPreKey.pair # 0 => signedPreKey.pair \in DOMAIN rotations /\ signedPreKey.pair # r
        BY <1>3 DEF KeysNamed, IsKey, IsOwn
    <2> QED BY <1>1, <1>3, <2>1 DEF KeysNamed, IsOwn
<1>6. ASSUME NEW u \in Uploads PROVE IsKey(sent[u].skey)' /\ IsOwn(sent[u].skey)'
    <2>1. sent[u].skey.pair # 0 => sent[u].skey.pair \in DOMAIN rotations /\ sent[u].skey.pair # r
        BY <1>3 DEF KeysNamed, IsKey, IsOwn
    <2> QED BY <1>1, <1>3, <2>1 DEF KeysNamed, IsKey, IsOwn
<1> QED BY <1>4, <1>5, <1>6 DEF KeysNamed

LEMMA ServerRotatesKeeps ==
    ASSUME SignedInv, NEW r \in DOMAIN rotations, ServerRotates(r)
    PROVE  SignedInv'
<1>1. SignedTyped /\ KeysNamed /\ RequestsInOrder /\ CarriesCurrent /\ LastTaken
    BY DEF SignedInv
<1>2. /\ rotations[r].pc = "asked" /\ RotationMoves(r, "taken")
      /\ serverSigned' = [id |-> rotations[r].id, pair |-> r]
      /\ UNCHANGED <<upload, signedPreKey, requests, sent, beside>>
      /\ \A u \in Uploads : sent[u].at < rotations[r].at => upload[u].pc # "asked"
      /\ \A q \in DOMAIN rotations : rotations[q].at < rotations[r].at => rotations[q].pc # "asked"
    BY DEF ServerRotates, NextInLine, sending
<1>3. /\ rotations' \in Seq(Rotations) /\ DOMAIN rotations' = DOMAIN rotations /\ DOMAIN rotations \subseteq Nat
      /\ rotations'[r].pc = "taken"
      /\ \A q \in DOMAIN rotations : rotations'[q].id = rotations[q].id /\ rotations'[q].at = rotations[q].at
      /\ \A q \in DOMAIN rotations : q # r => rotations'[q] = rotations[q]
    BY <1>2, RotationStep
<1>4. serverSigned' \in SignedKeys /\ serverSigned'.pair = r /\ r # 0
    <2>1. rotations[r] \in Rotations
        BY <1>1, ElementsOfSeq DEF SignedTyped
    <2> QED BY <1>1, <1>2, <1>3, <2>1 DEF SignedTyped, SignedKeys, Rotations
<1>5. SignedTyped'
    BY <1>1, <1>2, <1>3, <1>4 DEF SignedTyped
<1>6. KeysNamed'
    BY <1>2, RotationNames
<1>7. \A u \in Uploads \ beside : upload[u].pc # "asked"
    BY <1>1, <1>2 DEF CarriesCurrent
<1>8. CarriesCurrent'
    BY <1>2, <1>7 DEF CarriesCurrent
<1>9. \A q \in DOMAIN rotations : rotations[q].pc = "asked" => q = r \/ r < q
    BY <1>1, <1>2, <1>3 DEF RequestsInOrder
<1>10. RequestsInOrder'
    BY <1>1, <1>2, <1>3, <1>9 DEF RequestsInOrder
<1>11. \A q \in DOMAIN rotations : rotations'[q].pc = "taken" => q <= r
    BY <1>1, <1>2, <1>3 DEF RequestsInOrder
<1>12. Excused'
    BY <1>3, <1>4 DEF Excused
<1>13. LastTaken'
    BY <1>3, <1>4, <1>11, <1>12 DEF LastTaken
<1> QED BY <1>5, <1>6, <1>8, <1>10, <1>13 DEF SignedInv

LEMMA RotationFailsKeeps ==
    ASSUME SignedInv, NEW r \in DOMAIN rotations, RotationFails(r)
    PROVE  SignedInv'
<1>1. SignedTyped /\ KeysNamed /\ RequestsInOrder /\ CarriesCurrent /\ LastTaken
    BY DEF SignedInv
<1>2. /\ rotations[r].pc \in {"asked", "taken"} /\ RotationMoves(r, "lost")
      /\ UNCHANGED <<upload, signedPreKey, serverSigned, requests, sent, beside>>
    BY DEF RotationFails, sending
<1>3. /\ rotations' \in Seq(Rotations) /\ DOMAIN rotations' = DOMAIN rotations /\ DOMAIN rotations \subseteq Nat
      /\ rotations'[r].pc = "lost"
      /\ \A q \in DOMAIN rotations : rotations'[q].id = rotations[q].id /\ rotations'[q].at = rotations[q].at
      /\ \A q \in DOMAIN rotations : q # r => rotations'[q] = rotations[q]
    BY <1>2, RotationStep
<1>4. SignedTyped'
    BY <1>1, <1>2, <1>3 DEF SignedTyped
<1>5. KeysNamed'
    BY <1>2, RotationNames
<1>6. RequestsInOrder' /\ CarriesCurrent'
    BY <1>1, <1>2, <1>3 DEF RequestsInOrder, CarriesCurrent
<1>7. serverSigned.pair # 0 => serverSigned.pair \in DOMAIN rotations
    BY <1>1 DEF KeysNamed, IsKey
<1>8. (Excused => Excused') /\ (RotationTaken' => RotationTaken)
    BY <1>2, <1>3, <1>7 DEF Excused, RotationTaken
<1>9. LastTaken'
    BY <1>1, <1>2, <1>3, <1>7, <1>8 DEF LastTaken
<1> QED BY <1>4, <1>5, <1>6, <1>9 DEF SignedInv

LEMMA RotatedKeeps ==
    ASSUME SignedInv, NEW r \in DOMAIN rotations, Rotated(r)
    PROVE  SignedInv'
<1>1. SignedTyped /\ KeysNamed /\ RequestsInOrder /\ CarriesCurrent /\ LastTaken
    BY DEF SignedInv
<1>2. /\ rotations[r].pc = "taken" /\ RotationMoves(r, "done")
      /\ signedPreKey' = [id |-> rotations[r].id, pair |-> r]
      /\ UNCHANGED <<upload, serverSigned, requests, sent, beside>>
      /\ \A q \in DOMAIN rotations : rotations[q].at < rotations[r].at => rotations[q].pc \notin {"asked", "taken"}
    BY DEF Rotated, NextInLine, sending
<1>3. /\ rotations' \in Seq(Rotations) /\ DOMAIN rotations' = DOMAIN rotations /\ DOMAIN rotations \subseteq Nat
      /\ rotations'[r].pc = "done"
      /\ \A q \in DOMAIN rotations : rotations'[q].id = rotations[q].id /\ rotations'[q].at = rotations[q].at
      /\ \A q \in DOMAIN rotations : q # r => rotations'[q] = rotations[q]
    BY <1>2, RotationStep
<1>4. signedPreKey' \in SignedKeys
    <2>1. rotations[r] \in Rotations
        BY <1>1, ElementsOfSeq DEF SignedTyped
    <2> QED BY <1>2, <1>3, <2>1 DEF SignedKeys, Rotations
<1>5. SignedTyped'
    BY <1>1, <1>2, <1>3, <1>4 DEF SignedTyped
<1>6. KeysNamed'
    BY <1>2, RotationNames
<1>7. RequestsInOrder'
    BY <1>1, <1>2, <1>3 DEF RequestsInOrder
<1>8. CarriesCurrent'
    BY <1>1, <1>2 DEF CarriesCurrent
<1>9. \A q \in DOMAIN rotations : rotations[q].pc = "taken" => r <= q
    BY <1>1, <1>2, <1>3 DEF RequestsInOrder
<1>10. Excused /\ serverSigned.pair \in Nat /\ (serverSigned.pair # 0 => serverSigned.pair \in DOMAIN rotations)
    BY <1>1, <1>2 DEF LastTaken, RotationTaken, SignedTyped, SignedKeys, KeysNamed, IsKey
<1>11. CASE serverSigned.pair = r
    <2>1. serverSigned = signedPreKey'
        BY <1>1, <1>2, <1>3, <1>11 DEF KeysNamed, IsKey, SignedTyped
    <2>2. r # 0
        BY <1>1 DEF SignedTyped
    <2>3. \A q \in DOMAIN rotations : rotations[q].pc = "taken" => q = r
        BY <1>1, <1>2, <1>3, <1>9, <1>11, <2>2 DEF LastTaken
    <2>4. ~RotationTaken'
        BY <1>3, <2>3 DEF RotationTaken
    <2> QED BY <1>2, <1>3, <1>5, <1>6, <1>7, <1>8, <1>11, <2>1, <2>4 DEF LastTaken, SignedInv
<1>12. CASE serverSigned.pair # r
    <2>1. Excused'
        BY <1>2, <1>3, <1>10, <1>12 DEF Excused
    <2>2. LastTaken'
        BY <1>1, <1>2, <1>3, <1>10, <1>12, <2>1 DEF LastTaken
    <2> QED BY <1>5, <1>6, <1>7, <1>8, <2>2 DEF SignedInv
<1> QED BY <1>11, <1>12

LEMMA SignedSteps == KeysInv /\ SignedInv /\ [PreKeysNext]_preKeyVars => SignedInv'
<1> SUFFICES ASSUME KeysInv, SignedInv, [PreKeysNext]_preKeyVars PROVE SignedInv'
    OBVIOUS
<1>0. upload \in [Uploads -> [pc : UploadStates, way : {"none", "first", "after"}, from : Nat]]
      /\ \A u \in beside : upload[u].pc \notin {"new", "storing"}
    BY DEF SignedInv, SignedTyped
<1>1. ASSUME NEW u \in Uploads, NEW way \in {"first", "after"}, Begin(u, way) PROVE SignedInv'
    <2>1. PICK pc, from : upload' = [upload EXCEPT ![u] = [pc |-> pc, way |-> way, from |-> from]]
                          /\ pc = (IF way = "first" THEN "storing" ELSE "asked") /\ from = nextPreKeyId
        BY <1>1 DEF Begin
    <2>2. upload[u].pc = "new" /\ UNCHANGED <<signedPreKey, rotations, serverSigned>>
          /\ IF way = "first" THEN UNCHANGED sending ELSE Sends(u)
        BY <1>1 DEF Begin, signed
    <2>3. upload' \in [Uploads -> [pc : UploadStates, way : {"none", "first", "after"}, from : Nat]]
        BY <1>0, <2>1 DEF KeysInv, KeysTyped, UploadStates
    <2>4. upload'[u].pc = pc /\ \A v \in Uploads : v # u => upload'[v] = upload[v]
        BY <1>0, <2>1
    <2> QED BY <2>1, <2>2, <2>3, <2>4, SentKeeps, UploadStepKeeps
<1>2. ASSUME NEW u \in Uploads, StoredFirst(u) PROVE SignedInv'
    BY <1>0, <1>2, SentKeeps DEF StoredFirst, Moves, signed, UploadStates
<1>3. ASSUME NEW u \in Uploads, NEW pc \in {"answered", "stored", "lost", "done"}, Moves(u, pc),
             upload[u].pc \notin {"new", "storing"}, UNCHANGED <<signedPreKey, rotations, serverSigned, sending>>
      PROVE  SignedInv'
    <2>1. upload' \in [Uploads -> [pc : UploadStates, way : {"none", "first", "after"}, from : Nat]]
          /\ upload'[u].pc = pc /\ \A v \in Uploads : v # u => upload'[v] = upload[v]
        BY <1>0, <1>3 DEF Moves, UploadStates
    <2> QED BY <1>3, <2>1, UploadStepKeeps
<1>4. ASSUME NEW u \in Uploads, Answered(u) \/ QueryFails(u) \/ StoredAfter(u) \/ Done(u) PROVE SignedInv'
    <2>1. PICK pc \in {"answered", "stored", "lost", "done"} : Moves(u, pc)
        BY <1>4 DEF Answered, QueryFails, StoredAfter, Done
    <2>2. upload[u].pc \notin {"new", "storing"} /\ UNCHANGED <<signedPreKey, rotations, serverSigned, sending>>
        BY <1>4 DEF Answered, QueryFails, StoredAfter, Done, signed
    <2> QED BY <1>3, <2>1, <2>2
<1>5. CASE UNCHANGED <<upload, signedPreKey, rotations, serverSigned, sending>>
    BY <1>0, <1>5, UploadStepKeeps
<1>6. CASE (\E i \in Ids : HandOut(i)) \/ (\E k \in handedOut : ReadWith(k)) \/ HandOutSigned
           \/ (\E b \in bundles : LoadSignedPreKey(b)) \/ UNCHANGED preKeyVars
    BY <1>5, <1>6 DEF HandOut, ReadWith, HandOutSigned, LoadSignedPreKey, preKeyVars, signed
<1>7. ASSUME NEW r \in DOMAIN rotations, ServerRotates(r) \/ RotationFails(r) \/ Rotated(r) PROVE SignedInv'
    BY <1>7, ServerRotatesKeeps, RotationFailsKeeps, RotatedKeeps
<1>8. ASSUME NEW u \in Uploads, BeginAfter(u) \/ BeginFirst(u) \/ ServerTakes(u) PROVE SignedInv'
    BY <1>1, <1>8, SkeyKeeps DEF BeginAfter, BeginFirst
<1> QED BY <1>2, <1>4, <1>6, <1>7, <1>8, RotateKeeps DEF PreKeysNext

\* What the server hands out of one-time and of signed keys the device can read
\* with, for any uploads, batches and rotations, however they meet: but for those
\* under way, lost after the server took them, uploads that overlap, and a signed
\* key that an upload carried to the server beside a rotation.
THEOREM KeysAreKnown == PreKeysSpec => []PublicKeysKnown
<1>1. KeysInv /\ SignedInv => PublicKeysKnown
    BY KnownKeys DEF PublicKeysKnown, SignedInv, LastTaken, Excused, SignedKeyKnown
<1> QED BY KeysInitially, KeysSteps, SignedInitially, SignedSteps, <1>1, PTL DEF PreKeysSpec
-----------------------------------------------------------------------------
(***************************************************************************)
(* Frames, for any number of them, any cut of the stream and any of them   *)
(* compressed, damaged or undecodable.  A frame that was opened is being   *)
(* inflated, ready or handed over, once and in one of these places only,   *)
(* or it was none that can be decoded; and of those ready or handed over,  *)
(* in this order, only one that was inflated comes after a later one.      *)
(* FramesRight says so of what was handed over, who waits, what is being   *)
(* inflated, and how many were taken and opened.                           *)
(***************************************************************************)
OpenedRight(got, count) ==
    /\ got \in Nat /\ count \in 0 .. got
    /\ \A b \in Broken : b > count
    /\ count = got \/ count + 1 \in Broken

PlacedOnce(out, waiting, slow, count) ==
    /\ out \in Seq(1 .. count) /\ waiting \in Seq(1 .. count) /\ slow \subseteq Inflated \cap 1 .. count
    /\ \A i \in DOMAIN out : out[i] \notin Undecodable /\ out[i] \notin slow
    /\ \A i \in DOMAIN waiting : waiting[i] \notin slow
    /\ \A i, k \in DOMAIN out : out[i] = out[k] => i = k
    /\ \A i, k \in DOMAIN waiting : waiting[i] = waiting[k] => i = k
    /\ \A i \in DOMAIN out, k \in DOMAIN waiting : out[i] # waiting[k]

NoneLost(out, waiting, slow, count) ==
    \A n \in 1 .. count :
        \/ n \in Undecodable \/ n \in slow
        \/ \E i \in DOMAIN waiting : waiting[i] = n
        \/ \E i \in DOMAIN out : out[i] = n

OvertakenInflated(out, waiting) ==
    /\ \A i, k \in DOMAIN out : i < k /\ out[i] > out[k] => out[k] \in Inflated
    /\ \A i, k \in DOMAIN waiting : i < k /\ waiting[i] > waiting[k] => waiting[k] \in Inflated
    /\ \A i \in DOMAIN out, k \in DOMAIN waiting : out[i] > waiting[k] => waiting[k] \in Inflated

FramesRight(out, waiting, slow, got, count) ==
    /\ OpenedRight(got, count)
    /\ PlacedOnce(out, waiting, slow, count)
    /\ NoneLost(out, waiting, slow, count)
    /\ OvertakenInflated(out, waiting)

NobodyLeft == ready = <<>> /\ inflating = {} => inBytes < FrameBytes \/ threw

NoiseInv == inBytes \in Nat /\ FramesRight(handed, ready, inflating, taken, readCounter) /\ NobodyLeft

LEMMA NoiseInitially == NoiseInit => NoiseInv
<1> SUFFICES ASSUME NoiseInit PROVE NoiseInv
    OBVIOUS
<1>1. \A b \in Broken : b > 0
    BY NoiseAssumption
<1>2. OpenedRight(0, 0) /\ PlacedOnce(<<>>, <<>>, {}, 0) /\ NoneLost(<<>>, <<>>, {}, 0) /\ OvertakenInflated(<<>>, <<>>)
    BY <1>1 DEF OpenedRight, PlacedOnce, NoneLost, OvertakenInflated
<1> QED BY <1>2, NoiseAssumption DEF NoiseInit, NoiseInv, FramesRight, NobodyLeft

\* The positions of a sequence without its first element, and with one more.
LEMMA TailElements ==
    ASSUME NEW S, NEW s \in Seq(S), s # <<>>
    PROVE  /\ Tail(s) \in Seq(S) /\ Head(s) = s[1] /\ 1 \in DOMAIN s /\ s[1] \in S
           /\ \A i \in DOMAIN Tail(s) : i \in Nat /\ i >= 1 /\ i + 1 \in DOMAIN s /\ Tail(s)[i] = s[i + 1]
           /\ \A i \in DOMAIN s : i = 1 \/ \E k \in DOMAIN Tail(s) : Tail(s)[k] = s[i]
<1>1. PICK l \in Nat : l + 1 = Len(s) /\ DOMAIN s = 1 .. l + 1
    <2>1. Len(s) \in Nat /\ Len(s) # 0 /\ DOMAIN s = 1 .. Len(s)
        OBVIOUS
    <2>2. PICK m \in Nat : m = Len(s)
        BY <2>1
    <2>3. m - 1 \in Nat /\ (m - 1) + 1 = m
        BY <2>1, <2>2
    <2> QED BY <2>1, <2>2, <2>3
<1>2. Tail(s) \in Seq(S) /\ DOMAIN Tail(s) = 1 .. l /\ \A i \in 1 .. l : Tail(s)[i] = s[i + 1]
    BY <1>1
<1>3. ASSUME NEW i \in 1 .. l + 1, i # 1 PROVE \E k \in DOMAIN Tail(s) : Tail(s)[k] = s[i]
    <2>1. i - 1 \in 1 .. l /\ (i - 1) + 1 = i
        BY <1>3
    <2> QED BY <1>2, <2>1
<1>4. Head(s) = s[1] /\ 1 \in DOMAIN s /\ s[1] \in S
    BY <1>1
<1> QED BY <1>1, <1>2, <1>3, <1>4

LEMMA AppendElements ==
    ASSUME NEW S, NEW s \in Seq(S), NEW e \in S
    PROVE  /\ Append(s, e) \in Seq(S)
           /\ \A i \in DOMAIN s : i \in DOMAIN Append(s, e) /\ Append(s, e)[i] = s[i] /\ i < Len(s) + 1
           /\ Len(s) + 1 \in DOMAIN Append(s, e) /\ Append(s, e)[Len(s) + 1] = e /\ Len(s) + 1 \in Nat
           /\ \A i \in DOMAIN Append(s, e) : i \in DOMAIN s \/ i = Len(s) + 1
OBVIOUS

\* The first of those that wait goes on: it is handed over, or cannot be decoded.
LEMMA HeadGoesOn ==
    ASSUME NEW out, NEW waiting, NEW slow, NEW got, NEW count,
           FramesRight(out, waiting, slow, got, count), waiting # <<>>,
           NEW on, NEW left, left = Tail(waiting),
           \/ Head(waiting) \notin Undecodable /\ on = Append(out, Head(waiting))
           \/ Head(waiting) \in Undecodable /\ on = out
    PROVE  FramesRight(on, left, slow, got, count)
<1> DEFINE h == waiting[1]
           e == Len(out) + 1
<1>1. /\ OpenedRight(got, count) /\ PlacedOnce(out, waiting, slow, count) /\ NoneLost(out, waiting, slow, count)
      /\ OvertakenInflated(out, waiting)
    BY DEF FramesRight
<1>2. out \in Seq(1 .. count) /\ waiting \in Seq(1 .. count) /\ count \in Nat
    BY <1>1 DEF PlacedOnce, OpenedRight
<1>3. /\ left \in Seq(1 .. count) /\ Head(waiting) = h /\ 1 \in DOMAIN waiting /\ h \in 1 .. count
      /\ \A i \in DOMAIN left : i \in Nat /\ i >= 1 /\ i + 1 \in DOMAIN waiting /\ left[i] = waiting[i + 1]
      /\ \A i \in DOMAIN waiting : i = 1 \/ \E k \in DOMAIN left : left[k] = waiting[i]
    BY <1>2, TailElements
<1> HIDE DEF h
<1>4. CASE h \in Undecodable /\ on = out
    <2>1. PlacedOnce(on, left, slow, count)
        BY <1>1, <1>3, <1>4 DEF PlacedOnce
    <2>2. NoneLost(on, left, slow, count)
        BY <1>1, <1>3, <1>4 DEF NoneLost, h
    <2>3. OvertakenInflated(on, left)
        BY <1>1, <1>3, <1>4 DEF OvertakenInflated
    <2> QED BY <1>1, <2>1, <2>2, <2>3 DEF FramesRight
<1>5. CASE h \notin Undecodable /\ on = Append(out, h)
    <2>1. /\ on \in Seq(1 .. count)
          /\ \A i \in DOMAIN out : i \in DOMAIN on /\ on[i] = out[i] /\ i < e
          /\ e \in DOMAIN on /\ on[e] = h /\ e \in Nat
          /\ \A i \in DOMAIN on : i \in DOMAIN out \/ i = e
        BY <1>2, <1>3, <1>5, AppendElements
    <2> HIDE DEF e
    <2>2. \A i \in DOMAIN on : i \in Nat
        BY <2>1
    <2>3. PlacedOnce(on, left, slow, count)
        <3>1. \A i, k \in DOMAIN on : on[i] = on[k] => i = k
            BY <1>1, <1>3, <2>1 DEF PlacedOnce, h
        <3>2. \A i \in DOMAIN on, k \in DOMAIN left : on[i] # left[k]
            BY <1>1, <1>3, <2>1 DEF PlacedOnce, h
        <3>3. \A i \in DOMAIN on : on[i] \notin Undecodable /\ on[i] \notin slow
            BY <1>1, <1>3, <1>5, <2>1 DEF PlacedOnce, h
        <3>4. \A i, k \in DOMAIN left : left[i] = left[k] => i = k
            BY <1>1, <1>3 DEF PlacedOnce
        <3> QED BY <1>1, <1>3, <2>1, <3>1, <3>2, <3>3, <3>4 DEF PlacedOnce
    <2>4. NoneLost(on, left, slow, count)
        <3>1. ASSUME NEW n, NEW i \in DOMAIN waiting, waiting[i] = n
              PROVE  (\E k \in DOMAIN left : left[k] = n) \/ \E k \in DOMAIN on : on[k] = n
            <4>1. CASE i = 1
                BY <2>1, <3>1, <4>1 DEF h
            <4>2. CASE \E k \in DOMAIN left : left[k] = waiting[i]
                BY <3>1, <4>2
            <4> QED BY <1>3, <4>1, <4>2
        <3>2. ASSUME NEW n, NEW i \in DOMAIN out, out[i] = n PROVE \E k \in DOMAIN on : on[k] = n
            BY <2>1, <3>2
        <3> QED BY <1>1, <3>1, <3>2 DEF NoneLost
    <2>5. OvertakenInflated(on, left)
        <3>1. \A i, k \in DOMAIN on : i < k /\ on[i] > on[k] => on[k] \in Inflated
            BY <1>1, <1>3, <2>1, <2>2 DEF OvertakenInflated, h
        <3>2. \A i, k \in DOMAIN left : i < k /\ left[i] > left[k] => left[k] \in Inflated
            BY <1>1, <1>3 DEF OvertakenInflated
        <3>3. \A i \in DOMAIN on, k \in DOMAIN left : on[i] > left[k] => left[k] \in Inflated
            BY <1>1, <1>3, <2>1 DEF OvertakenInflated, h
        <3> QED BY <3>1, <3>2, <3>3 DEF OvertakenInflated
    <2> QED BY <1>1, <2>3, <2>4, <2>5 DEF FramesRight
<1> QED BY <1>3, <1>4, <1>5

\* The next frame is opened: its decoder waits for its turn, or for a thread.
LEMMA OpenedKeeps ==
    ASSUME NEW out, NEW waiting, NEW slow, NEW got, NEW count, FramesRight(out, waiting, slow, got, count),
           NEW n, n = got + 1, n = count + 1, n \notin Broken,
           NEW queue, NEW pool,
           IF n \in Inflated THEN pool = slow \cup {n} /\ queue = waiting
                             ELSE pool = slow /\ queue = Append(waiting, n)
    PROVE  FramesRight(out, queue, pool, n, n)
<1> DEFINE e == Len(waiting) + 1
<1>1. /\ OpenedRight(got, count) /\ PlacedOnce(out, waiting, slow, count) /\ NoneLost(out, waiting, slow, count)
      /\ OvertakenInflated(out, waiting)
    BY DEF FramesRight
<1>2. /\ count \in Nat /\ n \in Nat /\ n \in 1 .. n /\ n \notin 1 .. count /\ 1 .. count \subseteq 1 .. n
      /\ \A m \in 1 .. n : m \in 1 .. count \/ m = n
    BY <1>1 DEF OpenedRight
<1>3. OpenedRight(n, n)
    <2>1. \A b \in Broken : b \in Int
        BY NoiseAssumption
    <2> QED BY <1>1, <1>2, <2>1 DEF OpenedRight
<1>4. /\ out \in Seq(1 .. n) /\ waiting \in Seq(1 .. n) /\ n \notin slow
      /\ \A i \in DOMAIN out : out[i] # n /\ out[i] \in 1 .. count
      /\ \A i \in DOMAIN waiting : waiting[i] # n /\ waiting[i] \in 1 .. count
    <2>1. out \in Seq(1 .. count) /\ waiting \in Seq(1 .. count) /\ slow \subseteq 1 .. count
        BY <1>1 DEF PlacedOnce
    <2>2. \A s \in Seq(1 .. count) : s \in Seq(1 .. n) /\ \A i \in DOMAIN s : s[i] \in 1 .. count
        BY <1>2
    <2> QED BY <1>2, <2>1, <2>2
<1>5. CASE n \in Inflated
    <2>1. PlacedOnce(out, queue, pool, n)
        BY <1>1, <1>2, <1>4, <1>5 DEF PlacedOnce
    <2>2. NoneLost(out, queue, pool, n)
        BY <1>1, <1>2, <1>5 DEF NoneLost
    <2> QED BY <1>1, <1>3, <1>5, <2>1, <2>2 DEF FramesRight
<1>6. CASE n \notin Inflated
    <2>a. queue = Append(waiting, n) /\ pool = slow
        BY <1>6
    <2>1. /\ queue \in Seq(1 .. n)
          /\ \A i \in DOMAIN waiting : i \in DOMAIN queue /\ queue[i] = waiting[i] /\ i < e
          /\ e \in DOMAIN queue /\ queue[e] = n /\ e \in Nat
          /\ \A i \in DOMAIN queue : i \in DOMAIN waiting \/ i = e
        BY <1>2, <1>4, <2>a, AppendElements
    <2> HIDE DEF e
    <2>2. PlacedOnce(out, queue, pool, n)
        <3>1. slow \subseteq Inflated \cap 1 .. n
            BY <1>1, <1>2 DEF PlacedOnce
        <3>2. \A i \in DOMAIN queue : queue[i] \notin slow
            BY <1>1, <1>4, <2>1 DEF PlacedOnce
        <3>3. \A i, k \in DOMAIN queue : queue[i] = queue[k] => i = k
            BY <1>1, <1>4, <2>1 DEF PlacedOnce
        <3>4. \A i \in DOMAIN out, k \in DOMAIN queue : out[i] # queue[k]
            BY <1>1, <1>4, <2>1 DEF PlacedOnce
        <3> QED BY <1>1, <1>4, <2>a, <2>1, <3>1, <3>2, <3>3, <3>4 DEF PlacedOnce
    <2>3. NoneLost(out, queue, pool, n)
        BY <1>1, <1>2, <2>a, <2>1 DEF NoneLost
    <2>4. OvertakenInflated(out, queue)
        <3>1. \A m \in 1 .. count : ~(m > n)
            BY <1>2
        <3>2. \A i \in DOMAIN queue : i \in Nat
            BY <2>1
        <3>3. ASSUME NEW i \in DOMAIN queue, NEW k \in DOMAIN queue, i < k, queue[i] > queue[k]
              PROVE  queue[k] \in Inflated
            <4>1. i \in DOMAIN waiting
                BY <2>1, <3>2, <3>3
            <4>2. k \in DOMAIN waiting
                BY <1>4, <2>1, <3>1, <3>3, <4>1
            <4> QED BY <1>1, <2>1, <3>3, <4>1, <4>2 DEF OvertakenInflated
        <3>4. \A i \in DOMAIN out, k \in DOMAIN queue : out[i] > queue[k] => queue[k] \in Inflated
            BY <1>1, <1>4, <2>1, <3>1 DEF OvertakenInflated
        <3> QED BY <1>1, <3>3, <3>4 DEF OvertakenInflated
    <2> QED BY <1>3, <2>2, <2>3, <2>4 DEF FramesRight
<1> QED BY <1>5, <1>6

\* One turn of the loop, whatever waits.
LEMMA TakeFrameKeeps ==
    ASSUME NEW bytes \in Nat, NEW out, NEW waiting, FramesRight(out, waiting, inflating, taken, readCounter),
           TakeFrame(bytes, waiting), handed' = out
    PROVE  NoiseInv'
<1>1. OpenedRight(taken, readCounter)
    BY DEF FramesRight
<1>2. CASE bytes < FrameBytes
    <2>1. inBytes' = bytes /\ ready' = waiting /\ UNCHANGED <<taken, readCounter, inflating>>
        BY <1>2, NoiseAssumption DEF TakeFrame
    <2> QED BY <1>2, <2>1 DEF NoiseInv, NobodyLeft
<1>3. CASE bytes >= FrameBytes
    <2>1. inBytes' = bytes - FrameBytes /\ taken' = taken + 1 /\ inBytes' \in Nat
        BY <1>3, NoiseAssumption DEF TakeFrame
    <2>2. CASE Decrypts(taken + 1)
        <3>1. /\ taken' = taken + 1 /\ readCounter' = taken' /\ taken' = readCounter + 1 /\ taken' \notin Broken
              /\ Decoding(taken', waiting)
            BY <1>1, <1>3, <2>1, <2>2, NoiseAssumption DEF TakeFrame, Decrypts, OpenedRight
        <3>2. PICK n, queue, pool : n = taken' /\ queue = ready' /\ pool = inflating'
            OBVIOUS
        <3>3. IF n \in Inflated THEN pool = inflating \cup {n} /\ queue = waiting
                                ELSE pool = inflating /\ queue = Append(waiting, n)
            BY <3>1, <3>2 DEF Decoding
        <3>4. FramesRight(out, queue, pool, n, n)
            BY <3>1, <3>2, <3>3, OpenedKeeps
        <3>5. queue # <<>> \/ pool # {}
            <4>1. CASE n \in Inflated
                BY <3>3, <4>1
            <4>2. CASE n \notin Inflated
                <5>1. waiting \in Seq(1 .. readCounter)
                    BY DEF FramesRight, PlacedOnce
                <5> QED BY <3>3, <4>2, <5>1
            <4> QED BY <4>1, <4>2
        <3> QED BY <2>1, <3>1, <3>2, <3>4, <3>5 DEF NoiseInv, NobodyLeft
    <2>3. CASE ~Decrypts(taken + 1)
        <3>1. ready' = waiting /\ threw' = TRUE /\ UNCHANGED <<readCounter, inflating>>
            BY <1>3, <2>3, NoiseAssumption DEF TakeFrame
        <3>2. PICK n : n = taken'
            OBVIOUS
        <3>3. OpenedRight(n, readCounter)
            BY <1>1, <2>1, <2>3, <3>2 DEF OpenedRight, Decrypts
        <3>4. FramesRight(out, waiting, inflating, n, readCounter)
            BY <3>3 DEF FramesRight
        <3> QED BY <2>1, <3>1, <3>2, <3>4 DEF NoiseInv, NobodyLeft
    <2> QED BY <2>2, <2>3
<1>4. bytes < FrameBytes \/ bytes >= FrameBytes
    BY NoiseAssumption
<1> QED BY <1>2, <1>3, <1>4

LEMMA MessageEventKeeps ==
    ASSUME NoiseInv, NEW pieces \in 1 .. MaxFrames * FrameBytes, MessageEvent(pieces)
    PROVE  NoiseInv'
<1>1. PICK bytes \in Nat : bytes = inBytes + pieces
    BY NoiseAssumption DEF NoiseInv
<1>2. TakeFrame(bytes, ready) /\ handed' = handed /\ FramesRight(handed, ready, inflating, taken, readCounter)
    BY <1>1 DEF MessageEvent, NoiseInv
<1> QED BY <1>2, TakeFrameKeeps

\* A call that goes on with its frame takes the next, or ends.
LEMMA GoesOnKeeps ==
    ASSUME NoiseInv, HandOver \/ OnFrameThrows \/ DecodeThrows
    PROVE  NoiseInv'
<1>1. FramesRight(handed, ready, inflating, taken, readCounter) /\ inBytes \in Nat /\ ready # <<>>
    BY DEF NoiseInv, HandOver, OnFrameThrows, DecodeThrows, OnFrame
<1>2. PICK on, left : on = handed' /\ left = Tail(ready)
    OBVIOUS
<1>3. \/ Head(ready) \notin Undecodable /\ on = Append(handed, Head(ready))
      \/ Head(ready) \in Undecodable /\ on = handed
    BY <1>2 DEF HandOver, OnFrameThrows, DecodeThrows, OnFrame
<1>4. FramesRight(on, left, inflating, taken, readCounter)
    BY <1>1, <1>2, <1>3, HeadGoesOn
<1>5. CASE HandOver
    <2>1. TakeFrame(inBytes, left) /\ handed' = on
        BY <1>2, <1>5 DEF HandOver
    <2> QED BY <1>1, <1>4, <2>1, TakeFrameKeeps
<1>6. CASE OnFrameThrows \/ DecodeThrows
    <2>1. ready' = left /\ handed' = on /\ threw' = TRUE /\ UNCHANGED <<inBytes, taken, readCounter, inflating>>
        BY <1>2, <1>6 DEF OnFrameThrows, DecodeThrows, CallThrows
    <2> QED BY <1>1, <1>4, <2>1 DEF NoiseInv, NobodyLeft
<1> QED BY <1>5, <1>6

LEMMA InflatedKeeps ==
    ASSUME NoiseInv, NEW n \in Inflated, InflateDone(n)
    PROVE  NoiseInv'
<1> DEFINE e == Len(ready) + 1
<1>1. /\ OpenedRight(taken, readCounter) /\ PlacedOnce(handed, ready, inflating, readCounter)
      /\ NoneLost(handed, ready, inflating, readCounter) /\ OvertakenInflated(handed, ready)
    BY DEF NoiseInv, FramesRight
<1>2. PICK queue, pool : queue = ready' /\ pool = inflating'
    OBVIOUS
<1>3. /\ n \in inflating /\ pool = inflating \ {n} /\ queue = Append(ready, n)
      /\ UNCHANGED <<inBytes, taken, readCounter, handed, threw>>
    BY <1>2 DEF InflateDone
<1>4. /\ ready \in Seq(1 .. readCounter) /\ n \in 1 .. readCounter
    BY <1>1, <1>3 DEF PlacedOnce
<1>5. /\ queue \in Seq(1 .. readCounter)
      /\ \A i \in DOMAIN ready : i \in DOMAIN queue /\ queue[i] = ready[i] /\ i < e
      /\ e \in DOMAIN queue /\ queue[e] = n /\ e \in Nat
      /\ \A i \in DOMAIN queue : i \in DOMAIN ready \/ i = e
    BY <1>3, <1>4, AppendElements
<1> HIDE DEF e
<1>6. PlacedOnce(handed, queue, pool, readCounter)
    <2>1. (\A i \in DOMAIN handed : handed[i] # n) /\ \A i \in DOMAIN ready : ready[i] # n
        BY <1>1, <1>3 DEF PlacedOnce
    <2> QED BY <1>1, <1>3, <1>5, <2>1 DEF PlacedOnce
<1>7. NoneLost(handed, queue, pool, readCounter)
    BY <1>1, <1>3, <1>5 DEF NoneLost
<1>8. OvertakenInflated(handed, queue)
    <2>1. \A i \in DOMAIN queue : i \in Nat
        BY <1>5
    <2> QED BY <1>1, <1>5, <2>1 DEF OvertakenInflated
<1>9. FramesRight(handed, queue, pool, taken, readCounter)
    BY <1>1, <1>6, <1>7, <1>8 DEF FramesRight
<1>10. queue # <<>>
    BY <1>5
<1> QED BY <1>2, <1>3, <1>9, <1>10 DEF NoiseInv, NobodyLeft

LEMMA NoiseSteps == NoiseInv /\ [NoiseNext]_noiseVars => NoiseInv'
<1> SUFFICES ASSUME NoiseInv, [NoiseNext]_noiseVars PROVE NoiseInv'
    OBVIOUS
<1>1. CASE UNCHANGED noiseVars
    BY <1>1 DEF noiseVars, NoiseInv, NobodyLeft
<1> QED BY <1>1, MessageEventKeeps, GoesOnKeeps, InflatedKeeps DEF NoiseNext

\* Frames reach onMessageReceived in the server's order, but for those overtaken
\* while they are inflated, and all that can be read of those taken, once: for
\* any number of frames and any cut of the stream, whatever calls throw; and a
\* whole frame is left to a later event only by a call that threw.
THEOREM FramesAllHandedOver == NoiseSpec => []FramesHandedOver
<1>1. NoiseInv => FramesHandedOver
    <2> SUFFICES ASSUME NoiseInv PROVE FramesHandedOver
        OBVIOUS
    <2>1. /\ OpenedRight(taken, readCounter) /\ PlacedOnce(handed, ready, inflating, readCounter)
          /\ NoneLost(handed, ready, inflating, readCounter) /\ OvertakenInflated(handed, ready)
        BY DEF NoiseInv, FramesRight
    <2>2. FramesInOrder
        BY <2>1 DEF OvertakenInflated, FramesInOrder
    <2>3. ASSUME ready = <<>>, inflating = {}, NEW n \in 1 .. taken
          PROVE  Readable(n) <=> \E i \in DOMAIN handed : handed[i] = n
        <3>1. \A i \in DOMAIN handed : handed[i] \in 1 .. readCounter /\ handed[i] \notin Undecodable
            <4>1. handed \in Seq(1 .. readCounter) /\ \A i \in DOMAIN handed : handed[i] \notin Undecodable
                BY <2>1 DEF PlacedOnce
            <4>2. \A i \in DOMAIN handed : handed[i] \in 1 .. readCounter
                BY <4>1, ElementsOfSeq
            <4> QED BY <4>1, <4>2
        <3>2. (\A b \in Broken : n < b) <=> n \in 1 .. readCounter
            <4>1. \A b \in Broken : b \in Int
                BY NoiseAssumption
            <4> QED BY <2>1, <4>1 DEF OpenedRight
        <3>3. n \in 1 .. readCounter /\ n \notin Undecodable => \E i \in DOMAIN handed : handed[i] = n
            <4>1. DOMAIN ready = {}
                BY <2>3
            <4> QED BY <2>1, <2>3, <4>1 DEF NoneLost
        <3> QED BY <3>1, <3>2, <3>3 DEF Readable
    <2>4. \A i, k \in DOMAIN handed : handed[i] = handed[k] => i = k
        BY <2>1 DEF PlacedOnce
    <2>5. ready = <<>> /\ inflating = {} /\ inBytes >= FrameBytes => threw
        BY NoiseAssumption DEF NoiseInv, NobodyLeft
    <2> QED BY <2>2, <2>3, <2>4, <2>5 DEF FramesHandedOver, FramesComplete
<1> QED BY NoiseInitially, NoiseSteps, <1>1, PTL DEF NoiseSpec

\* The states of the handshake, which both ends go through, and its ciphertexts.
Ephemerals == Authenticated(NoiseStart, Plain("server ephemeral"))
Mixed1 == MixIntoKey(Ephemerals, {"client ephemeral", "server ephemeral"})
StaticText == Cipher(Mixed1, Plain("server static"))
Shared1 == Encrypt(Mixed1, Plain("server static"))
Mixed2 == MixIntoKey(Shared1, {"client ephemeral", "server static"})
CertificateText == Cipher(Mixed2, Plain("certificate"))
Shared2 == Encrypt(Mixed2, Plain("certificate"))
NoiseKeyText == Cipher(Shared2, Plain("noise key"))
Shared3 == Encrypt(Shared2, Plain("noise key"))
Mixed3 == MixIntoKey(Shared3, {"noise key", "server ephemeral"})
PayloadText == Cipher(Mixed3, Plain("payload"))
Shared4 == Encrypt(Mixed3, Plain("payload"))

AnswerText == <<Plain("server ephemeral"), StaticText, CertificateText>>
Finish == <<NoiseKeyText, PayloadText>>

\* A state of noise-handler.js, field by field, and a ciphertext.
State(s, hash, salt, enc, dec, reads, writes, over) ==
    /\ DOMAIN s = {"hash", "salt", "encKey", "decKey", "readCounter", "writeCounter", "isFinished"}
    /\ s.hash = hash /\ s.salt = salt /\ s.encKey = enc /\ s.decKey = dec
    /\ s.readCounter = reads /\ s.writeCounter = writes /\ s.isFinished = over
Text(c, key, counter, data, plain) == c = <<key, counter, data, plain>>

\* authenticate() adds to the hash until the handshake is over.
LEMMA AuthenticatedIs ==
    ASSUME NEW s, NEW h, NEW t, NEW e, NEW d, NEW r, NEW w, NEW x, State(s, h, t, e, d, r, w, FALSE)
    PROVE  State(Authenticated(s, x), Append(h, x), t, e, d, r, w, FALSE)
<1> DEFINE more == Append(h, x)
<1>1. s.hash = h /\ ~s.isFinished
    BY DEF State
<1>2. Authenticated(s, x) = [s EXCEPT !.hash = more]
    BY <1>1 DEF Authenticated
<1> HIDE DEF more
<1>3. State([s EXCEPT !.hash = more], more, t, e, d, r, w, FALSE)
    BY DEF State
<1> QED BY <1>2, <1>3 DEF more

\* encrypt() seals with the write key and counter, and counts.
LEMMA EncryptIs ==
    ASSUME NEW s, NEW h, NEW t, NEW e, NEW d, NEW r, NEW w \in Nat, NEW f \in BOOLEAN, NEW p,
           State(s, h, t, e, d, r, w, f)
    PROVE  /\ Text(Cipher(s, p), e, w, h, p)
           /\ ~f => State(Encrypt(s, p), Append(h, Cipher(s, p)), t, e, d, r, w + 1, FALSE)
           /\ f => State(Encrypt(s, p), h, t, e, d, r, w + 1, TRUE)
<1> DEFINE c == Cipher(s, p)
           counted == [s EXCEPT !.writeCounter = @ + 1]
<1>1. Text(c, e, w, h, p)
    BY DEF State, Text, Cipher, Sealed
<1>2. State(counted, h, t, e, d, r, w + 1, f)
    <2> DEFINE v == w + 1
    <2>1. counted = [s EXCEPT !.writeCounter = v]
        BY DEF State
    <2> HIDE DEF v
    <2>2. State([s EXCEPT !.writeCounter = v], h, t, e, d, r, v, f)
        BY DEF State
    <2> QED BY <2>1, <2>2 DEF v
<1>3. Encrypt(s, p) = Authenticated(counted, c)
    BY DEF Encrypt
<1> HIDE DEF c, counted
<1>4. CASE f
    <2>1. counted.isFinished
        BY <1>2, <1>4 DEF State
    <2>2. Encrypt(s, p) = counted
        BY <1>3, <2>1 DEF Authenticated
    <2> QED BY <1>1, <1>2, <1>4, <2>2 DEF c
<1>5. CASE ~f
    <2>1. State(counted, h, t, e, d, r, w + 1, FALSE)
        BY <1>2, <1>5
    <2> QED BY <1>1, <1>3, <1>5, <2>1, AuthenticatedIs DEF c
<1> QED BY <1>4, <1>5

\* decrypt() after the handshake: what was sealed with the read key and
\* counter opens, and the counter moves.
LEMMA DecryptIs ==
    ASSUME NEW s, NEW h, NEW t, NEW e, NEW d, NEW r \in Nat, NEW w \in Nat, NEW c,
           State(s, h, t, e, d, r, w, TRUE)
    PROVE  /\ State(Decrypt(s, c), h, t, e, d, r + 1, w, TRUE)
           /\ \A p : Text(c, d, r, h, p) => Opens(s, c)
<1> DEFINE counted == [s EXCEPT !.readCounter = @ + 1]
<1>1. State(counted, h, t, e, d, r + 1, w, TRUE)
    <2> DEFINE v == r + 1
    <2>1. counted = [s EXCEPT !.readCounter = v]
        BY DEF State
    <2> HIDE DEF v
    <2>2. State([s EXCEPT !.readCounter = v], h, t, e, d, v, w, TRUE)
        BY DEF State
    <2> QED BY <2>1, <2>2 DEF v
<1>2. s.isFinished /\ counted.isFinished
    <2>1. s.isFinished
        BY DEF State
    <2> HIDE DEF counted
    <2>2. counted.isFinished
        BY <1>1 DEF State
    <2> QED BY <2>1, <2>2
<1>3. Decrypt(s, c) = counted
    BY <1>2 DEF Decrypt, Authenticated
<1>4. ASSUME NEW p, Text(c, d, r, h, p) PROVE Opens(s, c)
    BY <1>2, <1>4 DEF Opens, DecryptsWith, State, Text
<1> QED BY <1>1, <1>3, <1>4

\* During the handshake the other end gets the state of the one that encrypts,
\* and can open it.
LEMMA BothAlike ==
    ASSUME NEW s, NEW h, NEW t, NEW e, NEW r, NEW w, NEW p, State(s, h, t, e, e, r, w, FALSE)
    PROVE  Decrypt(s, Cipher(s, p)) = Encrypt(s, p) /\ Opens(s, Cipher(s, p))
<1>1. ~s.isFinished /\ s.encKey = s.decKey
    BY DEF State
<1>2. Decrypt(s, Cipher(s, p)) = Encrypt(s, p)
    BY <1>1 DEF Decrypt, Encrypt
<1>3. Opens(s, Cipher(s, p))
    BY <1>1 DEF Opens, DecryptsWith, Cipher, Sealed
<1> QED BY <1>2, <1>3

\* mixIntoKey() gives both ends' directions one new key, and counts from 0.
LEMMA MixedIs ==
    ASSUME NEW s, NEW h, NEW t, NEW e, NEW d, NEW r, NEW w, NEW f, NEW x, State(s, h, t, e, d, r, w, f)
    PROVE  State(MixIntoKey(s, x), h, Append(t, x), Key(Append(t, x), "mixed"), Key(Append(t, x), "mixed"), 0, 0, f)
<1> DEFINE more == Append(t, x)
           key == Key(more, "mixed")
<1>1. s.salt = t
    BY DEF State
<1>2. MixIntoKey(s, x) = [s EXCEPT !.salt = more, !.encKey = key, !.decKey = key, !.readCounter = 0, !.writeCounter = 0]
    BY <1>1 DEF MixIntoKey
<1> HIDE DEF more, key
<1>3. State([s EXCEPT !.salt = more, !.encKey = key, !.decKey = key, !.readCounter = 0, !.writeCounter = 0],
            h, more, key, key, 0, 0, f)
    BY DEF State
<1> QED BY <1>2, <1>3 DEF more, key

\* finishInit() gives each direction its own key, and drops the hash.
LEMMA FinishedIs ==
    ASSUME NEW s, NEW h, NEW t, NEW e, NEW d, NEW r, NEW w, NEW f, NEW x, NEW y, State(s, h, t, e, d, r, w, f)
    PROVE  State(FinishInit(s, x, y), <<>>, t, Key(t, x), Key(t, y), 0, 0, TRUE)
<1> DEFINE write == Key(t, x)
           read == Key(t, y)
           none == <<>>
<1>1. s.salt = t
    BY DEF State
<1>2. FinishInit(s, x, y) = [s EXCEPT !.encKey = write, !.decKey = read, !.hash = none,
                                      !.readCounter = 0, !.writeCounter = 0, !.isFinished = TRUE]
    BY <1>1 DEF FinishInit
<1> HIDE DEF write, read, none
<1>3. State([s EXCEPT !.encKey = write, !.decKey = read, !.hash = none,
                      !.readCounter = 0, !.writeCounter = 0, !.isFinished = TRUE],
            none, t, write, read, 0, 0, TRUE)
    BY DEF State
<1> QED BY <1>2, <1>3 DEF write, read, none

\* The secrets that are in the keys.
Secrets1 == Append(<<>>, {"client ephemeral", "server ephemeral"})
Secrets2 == Append(Secrets1, {"client ephemeral", "server static"})
Secrets3 == Append(Secrets2, {"noise key", "server ephemeral"})

UpFrame(i) == Sealed(Key(Secrets3, "write"), i, <<>>, Plain("frame"))
DownFrame(i) == Sealed(Key(Secrets3, "read"), i, <<>>, Plain("stanza"))
ClientOver(s, r, w) == State(s, <<>>, Secrets3, Key(Secrets3, "write"), Key(Secrets3, "read"), r, w, TRUE)
PeerOver(s, r, w) == State(s, <<>>, Secrets3, Key(Secrets3, "read"), Key(Secrets3, "write"), r, w, TRUE)

\* A state of the handshake: n secrets were mixed, w counted.
Mixed(s, h, secrets, w) == State(s, h, secrets, Key(secrets, "mixed"), Key(secrets, "mixed"), 0, w, FALSE)

\* The states of the handshake and what is sealed in them, each with the
\* secrets mixed and the counter.
LEMMA HandshakeStates ==
    /\ \E h : State(NoiseStart, h, <<>>, Key(<<>>, "mode"), Key(<<>>, "mode"), 0, 0, FALSE)
    /\ \E h : State(Ephemerals, h, <<>>, Key(<<>>, "mode"), Key(<<>>, "mode"), 0, 0, FALSE)
    /\ \E h : Mixed(Mixed1, h, Secrets1, 0) /\ Text(StaticText, Key(Secrets1, "mixed"), 0, h, Plain("server static"))
    /\ \E h : Mixed(Shared1, h, Secrets1, 1)
    /\ \E h : Mixed(Mixed2, h, Secrets2, 0) /\ Text(CertificateText, Key(Secrets2, "mixed"), 0, h, Plain("certificate"))
    /\ \E h : Mixed(Shared2, h, Secrets2, 1) /\ Text(NoiseKeyText, Key(Secrets2, "mixed"), 1, h, Plain("noise key"))
    /\ \E h : Mixed(Shared3, h, Secrets2, 1 + 1)
    /\ \E h : Mixed(Mixed3, h, Secrets3, 0) /\ Text(PayloadText, Key(Secrets3, "mixed"), 0, h, Plain("payload"))
    /\ \E h : Mixed(Shared4, h, Secrets3, 1)
<1>1. PICK h0 : State(NoiseStart, h0, <<>>, Key(<<>>, "mode"), Key(<<>>, "mode"), 0, 0, FALSE)
    BY DEF NoiseStart, State
<1>2. PICK h1 : State(Ephemerals, h1, <<>>, Key(<<>>, "mode"), Key(<<>>, "mode"), 0, 0, FALSE)
    BY <1>1, AuthenticatedIs DEF Ephemerals
<1>3. Mixed(Mixed1, h1, Secrets1, 0)
    BY <1>2, MixedIs DEF Mixed, Mixed1, Secrets1
<1>4. /\ Text(StaticText, Key(Secrets1, "mixed"), 0, h1, Plain("server static"))
      /\ \E h : State(Shared1, h, Secrets1, Key(Secrets1, "mixed"), Key(Secrets1, "mixed"), 0, 0 + 1, FALSE)
    BY <1>3, EncryptIs DEF Mixed, StaticText, Shared1
<1>5. PICK h2 : Mixed(Shared1, h2, Secrets1, 1)
    <2>1. 0 + 1 = 1
        OBVIOUS
    <2> QED BY <1>4, <2>1, Zenon DEF Mixed
<1>6. Mixed(Mixed2, h2, Secrets2, 0)
    BY <1>5, MixedIs DEF Mixed, Mixed2, Secrets2
<1>7. /\ Text(CertificateText, Key(Secrets2, "mixed"), 0, h2, Plain("certificate"))
      /\ \E h : State(Shared2, h, Secrets2, Key(Secrets2, "mixed"), Key(Secrets2, "mixed"), 0, 0 + 1, FALSE)
    BY <1>6, EncryptIs DEF Mixed, CertificateText, Shared2
<1>8. PICK h3 : Mixed(Shared2, h3, Secrets2, 1)
    <2>1. 0 + 1 = 1
        OBVIOUS
    <2> QED BY <1>7, <2>1, Zenon DEF Mixed
<1>9. /\ Text(NoiseKeyText, Key(Secrets2, "mixed"), 1, h3, Plain("noise key"))
      /\ \E h : State(Shared3, h, Secrets2, Key(Secrets2, "mixed"), Key(Secrets2, "mixed"), 0, 1 + 1, FALSE)
    BY <1>8, EncryptIs DEF Mixed, NoiseKeyText, Shared3
<1>10. PICK h4 : State(Shared3, h4, Secrets2, Key(Secrets2, "mixed"), Key(Secrets2, "mixed"), 0, 1 + 1, FALSE)
    BY <1>9
<1>14. Mixed(Shared3, h4, Secrets2, 1 + 1)
    BY <1>10 DEF Mixed
<1>11. Mixed(Mixed3, h4, Secrets3, 0)
    BY <1>10, MixedIs DEF Mixed, Mixed3, Secrets3
<1>12. /\ Text(PayloadText, Key(Secrets3, "mixed"), 0, h4, Plain("payload"))
       /\ \E h : State(Shared4, h, Secrets3, Key(Secrets3, "mixed"), Key(Secrets3, "mixed"), 0, 0 + 1, FALSE)
    BY <1>11, EncryptIs DEF Mixed, PayloadText, Shared4
<1>13. \E h : Mixed(Shared4, h, Secrets3, 1)
    <2>1. 0 + 1 = 1
        OBVIOUS
    <2> QED BY <1>12, <2>1, Zenon DEF Mixed
<1> QED BY <1>1, <1>2, <1>3, <1>4, <1>5, <1>6, <1>7, <1>8, <1>9, <1>11, <1>12, <1>13, <1>14

\* All that is ever encrypted.
Texts == {StaticText, CertificateText, NoiseKeyText, PayloadText}
             \cup {UpFrame(i) : i \in Nat} \cup {DownFrame(i) : i \in Nat}

\* Each of the three keys of the handshake has one more secret in it.
LEMMA SecretsApart == Secrets1 # Secrets2 /\ Secrets1 # Secrets3 /\ Secrets2 # Secrets3
<1>1. ASSUME NEW x, NEW y, NEW z
      PROVE  /\ Len(Append(<<>>, x)) = 1 /\ Len(Append(Append(<<>>, x), y)) = 2
             /\ Len(Append(Append(Append(<<>>, x), y), z)) = 3
    <2> DEFINE S == {x, y, z}
    <2>1. x \in S /\ y \in S /\ z \in S
        OBVIOUS
    <2> HIDE DEF S
    <2>2. <<>> \in Seq(S) /\ Len(<<>>) = 0
        OBVIOUS
    <2>3. Append(<<>>, x) \in Seq(S) /\ Len(Append(<<>>, x)) = 1
        BY <2>1, <2>2, AppendProperties
    <2>4. Append(Append(<<>>, x), y) \in Seq(S) /\ Len(Append(Append(<<>>, x), y)) = 2
        BY <2>1, <2>3, AppendProperties
    <2> QED BY <2>1, <2>3, <2>4, AppendProperties
<1>2. Len(Secrets1) = 1 /\ Len(Secrets2) = 2 /\ Len(Secrets3) = 3
    <2> DEFINE x == {"client ephemeral", "server ephemeral"}
               y == {"client ephemeral", "server static"}
               z == {"noise key", "server ephemeral"}
    <2>1. Secrets1 = Append(<<>>, x) /\ Secrets2 = Append(Secrets1, y) /\ Secrets3 = Append(Secrets2, z)
        BY DEF Secrets1, Secrets2, Secrets3
    <2> HIDE DEF x, y, z
    <2>2. Secrets2 = Append(Append(<<>>, x), y) /\ Secrets3 = Append(Append(Append(<<>>, x), y), z)
        BY <2>1
    <2> QED BY <1>1, <2>1, <2>2
<1>3. 1 # 2 /\ 1 # 3 /\ 2 # 3
    OBVIOUS
<1> QED BY <1>2, <1>3, Zenon

\* The key and the counter of each.
LEMMA TextIs ==
    ASSUME NEW c \in Texts
    PROVE  /\ Len(c) = 4
           /\ \/ c = StaticText /\ c[1] = Key(Secrets1, "mixed") /\ c[2] = 0
              \/ c = CertificateText /\ c[1] = Key(Secrets2, "mixed") /\ c[2] = 0
              \/ c = NoiseKeyText /\ c[1] = Key(Secrets2, "mixed") /\ c[2] = 1
              \/ c = PayloadText /\ c[1] = Key(Secrets3, "mixed") /\ c[2] = 0
              \/ c[1] = Key(Secrets3, "write") /\ c[2] \in Nat /\ c = UpFrame(c[2])
              \/ c[1] = Key(Secrets3, "read") /\ c[2] \in Nat /\ c = DownFrame(c[2])
<1>1. ASSUME NEW e, NEW w, NEW h, NEW p, Text(c, e, w, h, p) PROVE Len(c) = 4 /\ c[1] = e /\ c[2] = w
    BY <1>1 DEF Text
<1>2. CASE c = StaticText
    <2>1. PICK h : Text(c, Key(Secrets1, "mixed"), 0, h, Plain("server static"))
        BY <1>2, HandshakeStates
    <2> QED BY <1>1, <1>2, <2>1
<1>3. CASE c = CertificateText
    <2>1. PICK h : Text(c, Key(Secrets2, "mixed"), 0, h, Plain("certificate"))
        BY <1>3, HandshakeStates
    <2> QED BY <1>1, <1>3, <2>1
<1>4. CASE c = NoiseKeyText
    <2>1. PICK h : Text(c, Key(Secrets2, "mixed"), 1, h, Plain("noise key"))
        BY <1>4, HandshakeStates
    <2> QED BY <1>1, <1>4, <2>1
<1>5. CASE c = PayloadText
    <2>1. PICK h : Text(c, Key(Secrets3, "mixed"), 0, h, Plain("payload"))
        BY <1>5, HandshakeStates
    <2> QED BY <1>1, <1>5, <2>1
<1>6. CASE c \in {UpFrame(i) : i \in Nat}
    <2>1. PICK i \in Nat : c = UpFrame(i)
        BY <1>6
    <2>2. Text(c, Key(Secrets3, "write"), i, <<>>, Plain("frame"))
        BY <2>1 DEF UpFrame, Text, Sealed
    <2> QED BY <1>1, <2>1, <2>2
<1>7. CASE c \in {DownFrame(i) : i \in Nat}
    <2>1. PICK i \in Nat : c = DownFrame(i)
        BY <1>7
    <2>2. Text(c, Key(Secrets3, "read"), i, <<>>, Plain("stanza"))
        BY <2>1 DEF DownFrame, Text, Sealed
    <2> QED BY <1>1, <2>1, <2>2
<1> QED BY <1>2, <1>3, <1>4, <1>5, <1>6, <1>7 DEF Texts

\* No two of them have the key and the counter in common.
LEMMA TextsApart ==
    ASSUME NEW c \in Texts, NEW d \in Texts, c[1] = d[1], c[2] = d[2]
    PROVE  c = d
<1>1. \A a, b : \A x, y : Key(a, x) = Key(b, y) => a = b /\ x = y
    BY DEF Key
<1>2. /\ Key(Secrets1, "mixed") # Key(Secrets2, "mixed") /\ Key(Secrets1, "mixed") # Key(Secrets3, "mixed")
      /\ Key(Secrets2, "mixed") # Key(Secrets3, "mixed")
      /\ Key(Secrets1, "mixed") # Key(Secrets3, "write") /\ Key(Secrets1, "mixed") # Key(Secrets3, "read")
      /\ Key(Secrets2, "mixed") # Key(Secrets3, "write") /\ Key(Secrets2, "mixed") # Key(Secrets3, "read")
      /\ Key(Secrets3, "mixed") # Key(Secrets3, "write") /\ Key(Secrets3, "mixed") # Key(Secrets3, "read")
      /\ Key(Secrets3, "write") # Key(Secrets3, "read")
    BY SecretsApart DEF Key
<1> QED BY <1>2, TextIs

\* What is under way, in either direction.
UpTexts == {Plain("client ephemeral"), Plain("frame"), Finish} \cup {UpFrame(i) : i \in Nat}
DownTexts == {AnswerText} \cup {DownFrame(i) : i \in Nat}

ClientAt ==
    /\ stage \in {"opening", "hello", "ephemeral", "static", "own", "sent", "over"}
    /\ stage \in {"opening", "hello"} => client = NoiseStart
    /\ stage = "ephemeral" => client = Ephemerals /\ serverHello = AnswerText
    /\ stage = "static" => client = Shared1 /\ serverHello = AnswerText
    /\ stage = "own" => client = Shared3 /\ keyEnc = NoiseKeyText
    /\ stage = "sent" => client = Shared4
    /\ stage = "over" => /\ ClientOver(client, client.readCounter, client.writeCounter)
                         /\ client.readCounter \in Nat /\ client.writeCounter \in Nat

PeerIsOver ==
    /\ PeerOver(peer, peer.readCounter, peer.writeCounter)
    /\ peer.readCounter \in Nat /\ peer.writeCounter \in Nat

PeerAt ==
    \/ peer = NoiseStart /\ stage \in {"opening", "hello"}
    \/ peer = Shared2 /\ stage # "opening"
    \/ PeerIsOver /\ stage \in {"sent", "over"}

\* The first frame of all is at the head and not answered; the last of the
\* handshake comes from a client that has sent it.
FrameRight(x, i, at, s) ==
    /\ x = Plain("client ephemeral") => i = 1 /\ s = NoiseStart
    /\ x = Finish => at \in {"sent", "over"}
UpRight(q, at, s) == \A i \in 1 .. Len(q) : FrameRight(q[i], i, at, s)

OnTheWire ==
    /\ up \in Seq(UpTexts) /\ down \in Seq(DownTexts)
    /\ stage = "opening" => up = <<>>
    /\ UpRight(up, stage, peer)
    /\ ~PeerIsOver => down = IF stage = "hello" /\ peer = Shared2 THEN <<AnswerText>> ELSE <<>>

\* While no frame was early, each end counts what is under way to it.
Written == IF stage = "over" THEN client.writeCounter ELSE 0
UpFrom(q, k) == \A i \in 1 .. Len(q) : q[i] = UpFrame(k + i - 1)
DownFrom(q, k) == \A i \in 1 .. Len(q) : q[i] = DownFrame(k + i - 1)

InStep ==
    /\ failed = {}
    /\ stage = "hello" /\ peer = NoiseStart => up = <<Plain("client ephemeral")>>
    /\ stage \notin {"sent", "over"} /\ peer = Shared2 => up = <<>>
    /\ stage \in {"sent", "over"} /\ peer = Shared2 =>
          /\ up # <<>> /\ Head(up) = Finish /\ Len(Tail(up)) = Written /\ UpFrom(Tail(up), 0)
          /\ client.readCounter = 0
    /\ PeerIsOver =>
          /\ Len(up) = Written - peer.readCounter /\ UpFrom(up, peer.readCounter)
          /\ Len(down) = peer.writeCounter - client.readCounter /\ DownFrom(down, client.readCounter)

HandshakeInv ==
    /\ ClientAt /\ PeerAt /\ OnTheWire /\ sealed \subseteq Texts
    /\ early \in BOOLEAN /\ (~early => InStep)

\* The ends that are over are told from those in the handshake.
LEMMA StatesApart ==
    /\ NoiseStart # Shared2
    /\ ~NoiseStart.isFinished /\ ~Shared2.isFinished /\ ~Shared4.isFinished /\ Shared4.readCounter = 0
    /\ \A x : \A r, w : PeerOver(x, r, w) => x.isFinished /\ x # NoiseStart /\ x # Shared2
    /\ \A x : \A r, w : ClientOver(x, r, w) => x.isFinished
<1>1. PICK h0 : State(NoiseStart, h0, <<>>, Key(<<>>, "mode"), Key(<<>>, "mode"), 0, 0, FALSE)
    BY HandshakeStates
<1>2. PICK h1 : Mixed(Shared2, h1, Secrets2, 1)
    BY HandshakeStates
<1>3. PICK h2 : Mixed(Shared4, h2, Secrets3, 1)
    BY HandshakeStates
<1>4. NoiseStart.writeCounter = 0 /\ Shared2.writeCounter = 1 /\ Shared4.readCounter = 0
    BY <1>1, <1>2, <1>3 DEF State, Mixed
<1>5. ~NoiseStart.isFinished /\ ~Shared2.isFinished /\ ~Shared4.isFinished
    BY <1>1, <1>2, <1>3 DEF State, Mixed
<1>6. ASSUME NEW x, NEW r, NEW w, PeerOver(x, r, w) PROVE x.isFinished
    BY <1>6 DEF PeerOver, State
<1>7. ASSUME NEW x, NEW r, NEW w, ClientOver(x, r, w) PROVE x.isFinished
    BY <1>7 DEF ClientOver, State
<1>8. NoiseStart # Shared2
    BY <1>4
<1>9. \A x : \A r, w : PeerOver(x, r, w) => x.isFinished /\ x # NoiseStart /\ x # Shared2
    BY <1>5, <1>6
<1>10. \A x : \A r, w : ClientOver(x, r, w) => x.isFinished
    BY <1>7
<1> QED BY <1>4, <1>5, <1>8, <1>9, <1>10

\* The server tells the frames it gets apart by their lengths.
LEMMA UpTextsApart ==
    /\ Plain("client ephemeral") # Plain("frame") /\ Plain("client ephemeral") # Finish /\ Plain("frame") # Finish
    /\ \A x \in UpTexts : /\ Len(x) = 2 => x = Finish
                          /\ x = Finish => Len(x) = 2
                          /\ x = Plain("client ephemeral") => Len(x) = 1
    /\ \A i \in Nat : /\ UpFrame(i) \in UpTexts
                       /\ UpFrame(i) # Plain("client ephemeral") /\ UpFrame(i) # Finish /\ Len(UpFrame(i)) = 4
<1>1. Len(Plain("client ephemeral")) = 1 /\ Len(Plain("frame")) = 1 /\ Len(Finish) = 2
    BY DEF Plain, Finish
<1>2. \A i \in Nat : Len(UpFrame(i)) = 4
    BY DEF UpFrame, Sealed
<1>3. 1 # 2 /\ 1 # 4 /\ 2 # 4
    OBVIOUS
<1>4. Plain("client ephemeral") # Plain("frame")
    BY DEF Plain
<1>5. ASSUME NEW i \in Nat
      PROVE  /\ UpFrame(i) \in UpTexts
             /\ UpFrame(i) # Plain("client ephemeral") /\ UpFrame(i) # Finish /\ Len(UpFrame(i)) = 4
    BY <1>1, <1>2, <1>3, Zenon DEF UpTexts
<1>6. Plain("client ephemeral") # Finish /\ Plain("frame") # Finish
    BY <1>1, <1>3, Zenon
<1>7. ASSUME NEW x \in UpTexts
      PROVE  (Len(x) = 2 => x = Finish) /\ (x = Finish => Len(x) = 2) /\ (x = Plain("client ephemeral") => Len(x) = 1)
    <2>1. x = Plain("client ephemeral") \/ x = Plain("frame") \/ x = Finish \/ \E i \in Nat : x = UpFrame(i)
        BY Zenon DEF UpTexts
    <2> QED BY <1>1, <1>2, <1>3, <2>1, Zenon
<1> QED BY <1>4, <1>5, <1>6, <1>7, Zenon

\* At first nothing was sent and nothing sealed.
LEMMA HandshakeStarts == HandshakeInit => HandshakeInv
<1> SUFFICES ASSUME HandshakeInit PROVE HandshakeInv
    OBVIOUS
<1>1. ~PeerIsOver
    BY StatesApart DEF HandshakeInit, PeerIsOver
<1>2. Len(up) = 0 /\ up = <<>> /\ down = <<>>
    BY DEF HandshakeInit
<1>3. OnTheWire
    BY <1>1, <1>2 DEF HandshakeInit, OnTheWire, UpRight
<1> QED BY <1>1, <1>3, StatesApart DEF HandshakeInit, HandshakeInv, ClientAt, PeerAt, InStep

\* How the channels change.
LEMMA Grows ==
    ASSUME NEW S, NEW q \in Seq(S), NEW x \in S
    PROVE  /\ Append(q, x) \in Seq(S) /\ Len(Append(q, x)) = Len(q) + 1 /\ Len(q) \in Nat
           /\ \A i \in 1 .. Len(q) + 1 : Append(q, x)[i] = IF i = Len(q) + 1 THEN x ELSE q[i]
BY AppendProperties, LenProperties

\* Of the rest of a channel.
LEMMA Shrinks ==
    ASSUME NEW S, NEW q \in Seq(S), q # <<>>
    PROVE  /\ Head(q) = q[1] /\ Head(q) \in S /\ Tail(q) \in Seq(S)
           /\ Len(q) \in Nat \ {0} /\ Len(Tail(q)) = Len(q) - 1
           /\ \A i \in 1 .. Len(q) - 1 : Tail(q)[i] = q[i + 1]
<1>1. Len(q) \in Nat /\ Len(q) # 0
    BY EmptySeq, LenProperties
<1>2. Head(q) = q[1]
    OBVIOUS
<1>3. q[1] \in S
    BY <1>1, ElementOfSeq
<1> QED BY <1>1, <1>2, <1>3, HeadTailProperties

\* What is sent does not change which frame is received next.
LEMMA TailGrows ==
    ASSUME NEW S, NEW q \in Seq(S), Len(q) # 0, NEW x \in S
    PROVE  Append(q, x) # <<>> /\ Head(Append(q, x)) = Head(q) /\ Tail(Append(q, x)) = Append(Tail(q), x)
<1> DEFINE r == Append(q, x)
           n == Len(q)
           u == Tail(q)
           t == Append(u, x)
<1>1. q # <<>>
    BY EmptySeq
<1>2. n \in Nat /\ n # 0 /\ u \in Seq(S) /\ Len(u) = n - 1 /\ Head(q) = q[1]
    BY <1>1, Shrinks
<1>3. \A i \in 1 .. n - 1 : u[i] = q[i + 1]
    BY <1>1, Shrinks
<1>4. r \in Seq(S) /\ Len(r) = n + 1
    BY Grows
<1>5. \A i \in 1 .. n + 1 : r[i] = IF i = n + 1 THEN x ELSE q[i]
    BY Grows
<1> HIDE DEF r, n, u
<1>6. t \in Seq(S) /\ Len(t) = Len(u) + 1
    BY <1>2, Grows
<1>7. \A i \in 1 .. Len(u) + 1 : t[i] = IF i = Len(u) + 1 THEN x ELSE u[i]
    BY <1>2, Grows
<1> HIDE DEF t
<1>8. Len(u) + 1 = n
    BY <1>2
<1>9. r # <<>>
    BY <1>2, <1>4, EmptySeq
<1>10. Head(r) = r[1] /\ Tail(r) \in Seq(S) /\ Len(Tail(r)) = n
    BY <1>2, <1>4, <1>9, Shrinks
<1>11. \A i \in 1 .. n : Tail(r)[i] = r[i + 1]
    <2>1. \A i \in 1 .. Len(r) - 1 : Tail(r)[i] = r[i + 1]
        BY <1>4, <1>9, Shrinks
    <2>2. Len(r) - 1 = n
        BY <1>2, <1>4
    <2> QED BY <2>1, <2>2, Zenon
<1>12. ASSUME NEW i \in 1 .. n PROVE Tail(r)[i] = t[i]
    <2>1. Tail(r)[i] = r[i + 1]
        BY <1>11, Zenon
    <2>0. i + 1 \in 1 .. n + 1 /\ (i + 1 = n + 1 <=> i = n)
        BY <1>2
    <2>2. t[i] = IF i = n THEN x ELSE u[i]
        BY <1>7, <1>8, Zenon
    <2>3. r[i + 1] = IF i = n THEN x ELSE q[i + 1]
        BY <1>5, <2>0, Zenon
    <2>4. i # n => i \in 1 .. n - 1
        BY <1>2
    <2> QED BY <1>3, <2>1, <2>2, <2>3, <2>4, Zenon
<1>13. Tail(r) = t
    BY <1>6, <1>8, <1>10, <1>12, SeqEqual
<1>14. Head(r) = Head(q)
    <2>1. 1 \in 1 .. n + 1 /\ 1 # n + 1
        BY <1>2
    <2>2. r[1] = IF 1 = n + 1 THEN x ELSE q[1]
        BY <1>5, <2>1, Zenon
    <2> QED BY <1>2, <1>10, <2>1, <2>2, Zenon
<1> QED BY <1>9, <1>13, <1>14 DEF r, t, u

\* The server takes the frame at the head; whatever state it is then in, the
\* rest is as it was.
LEMMA UpShrinks ==
    ASSUME NEW q \in Seq(UpTexts), NEW at, NEW s, NEW t, UpRight(q, at, s), q # <<>>
    PROVE  Tail(q) \in Seq(UpTexts) /\ UpRight(Tail(q), at, t) /\ FrameRight(Head(q), 1, at, s)
<1>1. /\ Head(q) = q[1] /\ Tail(q) \in Seq(UpTexts) /\ Len(q) \in Nat \ {0} /\ Len(Tail(q)) = Len(q) - 1
      /\ \A i \in 1 .. Len(q) - 1 : Tail(q)[i] = q[i + 1]
    BY Shrinks
<1>2. ASSUME NEW i \in 1 .. Len(Tail(q))
      PROVE  Tail(q)[i] # Plain("client ephemeral") /\ (Tail(q)[i] = Finish => at \in {"sent", "over"})
    <2>1. Tail(q)[i] = q[i + 1] /\ i + 1 \in 1 .. Len(q) /\ i + 1 # 1
        BY <1>1
    <2> QED BY <2>1 DEF UpRight, FrameRight
<1>3. 1 \in 1 .. Len(q)
    BY <1>1
<1>4. UpRight(Tail(q), at, t)
    BY <1>2 DEF UpRight, FrameRight
<1>5. FrameRight(Head(q), 1, at, s)
    BY <1>1, <1>3 DEF UpRight
<1> QED BY <1>1, <1>4, <1>5

\* A frame more from the client.
LEMMA UpGrows ==
    ASSUME NEW q \in Seq(UpTexts), NEW x \in UpTexts, NEW at, NEW s, UpRight(q, at, s), FrameRight(x, Len(q) + 1, at, s)
    PROVE  Append(q, x) \in Seq(UpTexts) /\ UpRight(Append(q, x), at, s)
<1>1. /\ Append(q, x) \in Seq(UpTexts) /\ Len(Append(q, x)) = Len(q) + 1 /\ Len(q) \in Nat
      /\ \A i \in 1 .. Len(q) + 1 : Append(q, x)[i] = IF i = Len(q) + 1 THEN x ELSE q[i]
    BY Grows
<1>2. ASSUME NEW i \in 1 .. Len(Append(q, x)) PROVE FrameRight(Append(q, x)[i], i, at, s)
    <2>1. CASE i = Len(q) + 1
        BY <1>1, <2>1
    <2>2. CASE i # Len(q) + 1
        <3>1. i \in 1 .. Len(q) /\ Append(q, x)[i] = q[i]
            BY <1>1, <2>2
        <3> QED BY <3>1 DEF UpRight
    <2> QED BY <2>1, <2>2
<1> QED BY <1>1, <1>2 DEF UpRight

\* The client goes on.
LEMMA UpStays ==
    ASSUME NEW q, NEW at, NEW on, NEW s, UpRight(q, at, s), at \in {"sent", "over"} => on \in {"sent", "over"}
    PROVE  UpRight(q, on, s)
BY DEF UpRight, FrameRight

\* The next frame that is written has the next counter.
LEMMA FramesGrow ==
    ASSUME NEW S, NEW q \in Seq(S), NEW k \in Nat, NEW n \in Nat, Len(q) = n - k
    PROVE  /\ UpFrom(q, k) /\ UpFrame(n) \in S =>
                  Len(Append(q, UpFrame(n))) = n + 1 - k /\ UpFrom(Append(q, UpFrame(n)), k)
           /\ DownFrom(q, k) /\ DownFrame(n) \in S =>
                  Len(Append(q, DownFrame(n))) = n + 1 - k /\ DownFrom(Append(q, DownFrame(n)), k)
<1>1. ASSUME UpFrom(q, k), UpFrame(n) \in S
      PROVE  Len(Append(q, UpFrame(n))) = n + 1 - k /\ UpFrom(Append(q, UpFrame(n)), k)
    <2> DEFINE x == UpFrame(n)
    <2>1. /\ Len(Append(q, x)) = Len(q) + 1 /\ Len(q) \in Nat
          /\ \A i \in 1 .. Len(q) + 1 : Append(q, x)[i] = IF i = Len(q) + 1 THEN x ELSE q[i]
        BY <1>1, Grows
    <2>2. ASSUME NEW i \in 1 .. Len(Append(q, x)) PROVE Append(q, x)[i] = UpFrame(k + i - 1)
        <3>1. CASE i = Len(q) + 1
            <4>1. k + i - 1 = n
                BY <3>1
            <4> QED BY <2>1, <3>1, <4>1
        <3>2. CASE i # Len(q) + 1
            <4>1. i \in 1 .. Len(q) /\ Append(q, x)[i] = q[i]
                BY <2>1, <3>2
            <4> QED BY <4>1, <1>1 DEF UpFrom
        <3> QED BY <3>1, <3>2
    <2>3. Len(Append(q, x)) = n + 1 - k
        BY <2>1
    <2> QED BY <2>2, <2>3 DEF UpFrom
<1>2. ASSUME DownFrom(q, k), DownFrame(n) \in S
      PROVE  Len(Append(q, DownFrame(n))) = n + 1 - k /\ DownFrom(Append(q, DownFrame(n)), k)
    <2> DEFINE x == DownFrame(n)
    <2>1. /\ Len(Append(q, x)) = Len(q) + 1 /\ Len(q) \in Nat
          /\ \A i \in 1 .. Len(q) + 1 : Append(q, x)[i] = IF i = Len(q) + 1 THEN x ELSE q[i]
        BY <1>2, Grows
    <2>2. ASSUME NEW i \in 1 .. Len(Append(q, x)) PROVE Append(q, x)[i] = DownFrame(k + i - 1)
        <3>1. CASE i = Len(q) + 1
            <4>1. k + i - 1 = n
                BY <3>1
            <4> QED BY <2>1, <3>1, <4>1
        <3>2. CASE i # Len(q) + 1
            <4>1. i \in 1 .. Len(q) /\ Append(q, x)[i] = q[i]
                BY <2>1, <3>2
            <4> QED BY <4>1, <1>2 DEF DownFrom
        <3> QED BY <3>1, <3>2
    <2>3. Len(Append(q, x)) = n + 1 - k
        BY <2>1
    <2> QED BY <2>2, <2>3 DEF DownFrom
<1> QED BY <1>1, <1>2

\* The frame at the head is the one the reader counts to.
LEMMA FramesShrink ==
    ASSUME NEW S, NEW q \in Seq(S), q # <<>>, NEW k \in Nat, NEW n \in Nat, Len(q) = n - k
    PROVE  /\ Len(Tail(q)) = n - (k + 1)
           /\ UpFrom(q, k) => Head(q) = UpFrame(k) /\ UpFrom(Tail(q), k + 1)
           /\ DownFrom(q, k) => Head(q) = DownFrame(k) /\ DownFrom(Tail(q), k + 1)
<1>1. /\ Head(q) = q[1] /\ Len(q) \in Nat \ {0} /\ Len(Tail(q)) = Len(q) - 1
      /\ \A i \in 1 .. Len(q) - 1 : Tail(q)[i] = q[i + 1]
    BY Shrinks
<1>2. 1 \in 1 .. Len(q) /\ k + 1 - 1 = k
    BY <1>1
<1>3. ASSUME NEW i \in 1 .. Len(Tail(q))
      PROVE  Tail(q)[i] = q[i + 1] /\ i + 1 \in 1 .. Len(q) /\ k + 1 + i - 1 = k + (i + 1) - 1
    BY <1>1
<1>4. ASSUME UpFrom(q, k) PROVE Head(q) = UpFrame(k) /\ UpFrom(Tail(q), k + 1)
    <2>1. ASSUME NEW i \in 1 .. Len(Tail(q)) PROVE Tail(q)[i] = UpFrame(k + 1 + i - 1)
        <3>1. q[i + 1] = UpFrame(k + (i + 1) - 1)
            BY <1>3, <1>4 DEF UpFrom
        <3> QED BY <1>3, <3>1
    <2>2. q[1] = UpFrame(k + 1 - 1)
        BY <1>2, <1>4 DEF UpFrom
    <2> QED BY <1>1, <1>2, <2>1, <2>2 DEF UpFrom
<1>5. ASSUME DownFrom(q, k) PROVE Head(q) = DownFrame(k) /\ DownFrom(Tail(q), k + 1)
    <2>1. ASSUME NEW i \in 1 .. Len(Tail(q)) PROVE Tail(q)[i] = DownFrame(k + 1 + i - 1)
        <3>1. q[i + 1] = DownFrame(k + (i + 1) - 1)
            BY <1>3, <1>5 DEF DownFrom
        <3> QED BY <1>3, <3>1
    <2>2. q[1] = DownFrame(k + 1 - 1)
        BY <1>2, <1>5 DEF DownFrom
    <2> QED BY <1>1, <1>2, <2>1, <2>2 DEF DownFrom
<1>6. Len(Tail(q)) = n - (k + 1)
    BY <1>1
<1> QED BY <1>4, <1>5, <1>6

\* A step of the client in the handshake that leaves the channels.
LEMMA QuietKeeps ==
    ASSUME HandshakeInv, ClientAt', stage \notin {"opening", "hello", "own"}, stage' \notin {"opening", "hello"},
           stage \in {"sent", "over"} => stage' \in {"sent", "over"},
           stage' \in {"sent", "over"} => /\ stage \in {"sent", "over"} /\ Written' = Written
                                          /\ client'.readCounter = client.readCounter,
           sealed' \subseteq Texts, UNCHANGED <<peer, up, down, early, failed>>
    PROVE  HandshakeInv'
<1>1. PeerIsOver' = PeerIsOver
    BY DEF PeerIsOver
<1>2. PeerAt'
    BY <1>1, StatesApart DEF HandshakeInv, PeerAt, ClientAt
<1>3. OnTheWire'
    <2>1. UpRight(up, stage', peer)
        BY UpStays DEF HandshakeInv, OnTheWire
    <2>2. stage # "opening" /\ stage' # "opening" /\ stage # "hello" /\ stage' # "hello"
        OBVIOUS
    <2> QED BY <1>1, <2>1, <2>2 DEF HandshakeInv, OnTheWire
<1>4. ASSUME InStep PROVE InStep'
    <2>1. CASE stage' \in {"sent", "over"}
        <3>1. stage \in {"sent", "over"} /\ stage # "hello" /\ stage' # "hello"
            BY <2>1
        <3> QED BY <1>1, <1>4, <2>1, <3>1 DEF InStep
    <2>2. CASE stage' \notin {"sent", "over"}
        <3>1. ~PeerIsOver
            BY <2>2, StatesApart DEF HandshakeInv, PeerAt, PeerIsOver
        <3> QED BY <1>1, <1>4, <2>2, <3>1 DEF InStep
    <2> QED BY <2>1, <2>2
<1> QED BY <1>2, <1>3, <1>4 DEF HandshakeInv

\* Who has its keys, seen from isFinished.
LEMMA Finishes ==
    ASSUME HandshakeInv
    PROVE  /\ peer.isFinished <=> PeerIsOver
           /\ PeerIsOver => peer # NoiseStart /\ peer # Shared2
           /\ client.isFinished <=> stage = "over"
<1>1. peer.isFinished <=> PeerIsOver
    BY StatesApart DEF HandshakeInv, PeerAt, PeerIsOver
<1>2. PeerIsOver => peer # NoiseStart /\ peer # Shared2
    BY StatesApart DEF PeerIsOver
<1>3. stage = "over" => client.isFinished
    BY StatesApart DEF HandshakeInv, ClientAt
<1>4. ~Ephemerals.isFinished /\ ~Shared1.isFinished /\ ~Shared3.isFinished
    <2>1. PICK h : State(Ephemerals, h, <<>>, Key(<<>>, "mode"), Key(<<>>, "mode"), 0, 0, FALSE)
        BY HandshakeStates
    <2>2. PICK h2 : Mixed(Shared1, h2, Secrets1, 1)
        BY HandshakeStates
    <2>3. PICK h3 : Mixed(Shared3, h3, Secrets2, 1 + 1)
        BY HandshakeStates
    <2> QED BY <2>1, <2>2, <2>3 DEF State, Mixed
<1>5. stage # "over" => ~client.isFinished
    BY <1>4, StatesApart DEF HandshakeInv, ClientAt
<1> QED BY <1>1, <1>2, <1>3, <1>5

\* Sequences of one.
LEMMA Single ==
    ASSUME NEW x
    PROVE  /\ Append(<<>>, x) = <<x>> /\ Head(<<x>>) = x /\ Tail(<<x>>) = <<>> /\ <<x>> # <<>>
           /\ Len(<<x>>) = 1 /\ <<x>>[1] = x
OBVIOUS

\* The client sends its ephemeral key.
LEMMA HelloKeeps == ASSUME HandshakeInv, ClientHello PROVE HandshakeInv'
<1>1. /\ stage = "opening" /\ stage' = "hello" /\ up' = Append(up, Plain("client ephemeral"))
      /\ UNCHANGED <<client, peer, serverHello, keyEnc, down, sealed, early, failed>>
    BY DEF ClientHello
<1>2. up = <<>> /\ peer = NoiseStart /\ ~PeerIsOver /\ down = <<>>
    <2>1. peer = NoiseStart /\ ~PeerIsOver
        BY <1>1, Finishes DEF HandshakeInv, PeerAt
    <2> QED BY <1>1, <2>1 DEF HandshakeInv, OnTheWire
<1>3. up' = <<Plain("client ephemeral")>>
    BY <1>1, <1>2, Single
<1>4. up' \in Seq(UpTexts) /\ UpRight(up', "hello", NoiseStart)
    <2> DEFINE x == Plain("client ephemeral")
    <2>1. x \in UpTexts /\ x # Finish
        BY UpTextsApart, Zenon DEF UpTexts
    <2>4. up' = <<x>>
        BY <1>3
    <2> HIDE DEF x
    <2>2. up' \in Seq(UpTexts) /\ Len(up') = 1 /\ up'[1] = x
        BY <2>1, <2>4, Single
    <2>3. FrameRight(x, 1, "hello", NoiseStart)
        BY <2>1 DEF FrameRight
    <2> QED BY <2>2, <2>3 DEF UpRight
<1>5. ~PeerIsOver'
    BY <1>1, <1>2 DEF PeerIsOver
<1>6. ClientAt' /\ PeerAt'
    BY <1>1, <1>2, <1>5 DEF HandshakeInv, ClientAt, PeerAt
<1>7. OnTheWire'
    BY <1>1, <1>2, <1>4, <1>5, StatesApart DEF HandshakeInv, OnTheWire
<1>8. ASSUME InStep PROVE InStep'
    BY <1>1, <1>2, <1>3, <1>5, <1>8, StatesApart DEF InStep
<1> QED BY <1>1, <1>6, <1>7, <1>8 DEF HandshakeInv

\* The server answers with all that Shared2 stands for.
LEMMA AnswerKeeps == ASSUME HandshakeInv, ServerAnswers PROVE HandshakeInv'
<1>1. /\ up # <<>> /\ Head(up) = Plain("client ephemeral") /\ up' = Tail(up)
      /\ UNCHANGED <<client, stage, serverHello, keyEnc, early, failed>>
    BY DEF ServerAnswers
<1>3. up' \in Seq(UpTexts) /\ UpRight(up', stage, Shared2) /\ peer = NoiseStart
    <2>1. up \in Seq(UpTexts) /\ UpRight(up, stage, peer)
        BY DEF HandshakeInv, OnTheWire
    <2>2. Tail(up) \in Seq(UpTexts) /\ UpRight(Tail(up), stage, Shared2)
        BY <1>1, <2>1, UpShrinks
    <2>3. peer = NoiseStart
        <3>1. FrameRight(Head(up), 1, stage, peer)
            BY <1>1, <2>1, UpShrinks
        <3> QED BY <1>1, <3>1 DEF FrameRight
    <2> QED BY <1>1, <2>2, <2>3
<1>4. stage = "hello"
    <2>1. stage # "opening"
        BY <1>1 DEF HandshakeInv, OnTheWire
    <2> QED BY <1>3, <2>1, Finishes, StatesApart DEF HandshakeInv, PeerAt
<1>5. down = <<>> /\ ~PeerIsOver
    BY <1>3, <1>4, Finishes, StatesApart DEF HandshakeInv, OnTheWire
<1>6. peer' = Shared2 /\ down' = Append(down, AnswerText) /\ sealed' = sealed \cup {StaticText, CertificateText}
    BY <1>3 DEF ServerAnswers, AnswerText, Ephemerals, Mixed1, StaticText, Shared1, Mixed2, CertificateText, Shared2
<1>7. down' = <<AnswerText>> /\ down' \in Seq(DownTexts)
    <2>1. down' = <<AnswerText>>
        BY <1>5, <1>6
    <2>2. AnswerText \in DownTexts
        BY DEF DownTexts
    <2> QED BY <2>1, <2>2
<1>8. ~PeerIsOver'
    BY <1>6, StatesApart DEF PeerIsOver
<1>9. ClientAt' /\ PeerAt'
    BY <1>1, <1>4, <1>6 DEF HandshakeInv, ClientAt, PeerAt
<1>10. OnTheWire'
    BY <1>1, <1>3, <1>4, <1>6, <1>7, <1>8, StatesApart DEF OnTheWire
<1>11. ASSUME InStep PROVE InStep'
    <2>1. up' = <<>>
        <3>1. up = <<Plain("client ephemeral")>>
            BY <1>3, <1>4, <1>11 DEF InStep
        <3> QED BY <1>1, <3>1, Single
    <2> QED BY <1>1, <1>4, <1>6, <1>8, <1>11, <2>1, StatesApart DEF InStep
<1>12. sealed' \subseteq Texts
    BY <1>6 DEF HandshakeInv, Texts
<1> QED BY <1>1, <1>9, <1>10, <1>11, <1>12 DEF HandshakeInv

\* The client takes the answer, which is the only one there is.
LEMMA ProcessKeeps == ASSUME HandshakeInv, ProcessHandshake PROVE HandshakeInv'
<1>1. /\ stage = "hello" /\ down # <<>> /\ serverHello' = Head(down) /\ down' = Tail(down)
      /\ client' = Authenticated(client, Head(down)[1]) /\ stage' = "ephemeral"
      /\ UNCHANGED <<peer, keyEnc, up, sealed, early, failed>>
    BY DEF ProcessHandshake
<1>2. ~PeerIsOver /\ peer = Shared2 /\ down = <<AnswerText>> /\ ~PeerIsOver'
    <2>1. ~PeerIsOver
        BY <1>1, Finishes DEF HandshakeInv, PeerAt
    <2>2. PeerIsOver' = PeerIsOver
        BY <1>1 DEF PeerIsOver
    <2> QED BY <1>1, <2>1, <2>2 DEF HandshakeInv, OnTheWire
<1>3. serverHello' = AnswerText /\ down' = <<>> /\ Head(down)[1] = Plain("server ephemeral")
    <2>1. Head(down) = AnswerText /\ Tail(down) = <<>>
        <3>1. Head(<<AnswerText>>) = AnswerText /\ Tail(<<AnswerText>>) = <<>>
            BY Single
        <3> QED BY <1>2, <3>1, Zenon
    <2>2. AnswerText[1] = Plain("server ephemeral")
        BY DEF AnswerText
    <2> QED BY <1>1, <2>1, <2>2
<1>4. client' = Ephemerals
    BY <1>1, <1>3 DEF HandshakeInv, ClientAt, Ephemerals
<1>5. ClientAt' /\ PeerAt'
    BY <1>1, <1>2, <1>3, <1>4 DEF ClientAt, PeerAt
<1>6. OnTheWire'
    <2>1. down' \in Seq(DownTexts)
        <3>1. <<>> \in Seq(DownTexts)
            OBVIOUS
        <3> QED BY <1>3, <3>1
    <2>2. UpRight(up, "ephemeral", peer)
        BY <1>1, UpStays DEF HandshakeInv, OnTheWire
    <2> QED BY <1>1, <1>2, <1>3, <2>1, <2>2 DEF HandshakeInv, OnTheWire
<1>7. InStep => InStep'
    BY <1>1, <1>2, StatesApart DEF InStep
<1> QED BY <1>1, <1>5, <1>6, <1>7 DEF HandshakeInv

\* It mixes the shared secret of the two ephemeral keys, and opens the static
\* key.
LEMMA EphemeralKeeps == ASSUME HandshakeInv, MixEphemeral PROVE HandshakeInv'
<1>1. /\ stage = "ephemeral" /\ stage' = "static" /\ client = Ephemerals /\ serverHello = AnswerText
      /\ UNCHANGED <<peer, serverHello, keyEnc, up, down, sealed, early>>
    BY DEF HandshakeInv, ClientAt, MixEphemeral
<1>2. serverHello[2] = StaticText
    BY <1>1 DEF AnswerText
<1>3. client' = Decrypt(Mixed1, StaticText) /\ failed' = IF Opens(Mixed1, StaticText) THEN failed ELSE failed \cup {"client"}
    BY <1>1, <1>2 DEF MixEphemeral, Mixed1
<1>4. Decrypt(Mixed1, StaticText) = Shared1 /\ Opens(Mixed1, StaticText)
    <2>1. PICK h : Mixed(Mixed1, h, Secrets1, 0)
        BY HandshakeStates
    <2> QED BY <2>1, BothAlike DEF Mixed, StaticText, Shared1
<1>5. ClientAt'
    BY <1>1, <1>3, <1>4 DEF ClientAt
<1> QED BY <1>1, <1>3, <1>4, <1>5, QuietKeeps DEF HandshakeInv

\* Then that of the static key, opens the certificate, and seals its own
\* Noise key.
LEMMA StaticKeeps == ASSUME HandshakeInv, MixStatic PROVE HandshakeInv'
<1>1. /\ stage = "static" /\ stage' = "own" /\ client = Shared1 /\ serverHello = AnswerText
      /\ UNCHANGED <<peer, serverHello, up, down, early>>
    BY DEF HandshakeInv, ClientAt, MixStatic
<1>2. serverHello[3] = CertificateText
    BY <1>1 DEF AnswerText
<1>3. Decrypt(Mixed2, CertificateText) = Shared2 /\ Opens(Mixed2, CertificateText)
    <2>1. PICK h : Mixed(Mixed2, h, Secrets2, 0)
        BY HandshakeStates
    <2> QED BY <2>1, BothAlike DEF Mixed, CertificateText, Shared2
<1>4. /\ failed' = IF Opens(Mixed2, CertificateText) THEN failed ELSE failed \cup {"client"}
      /\ client' = Encrypt(Decrypt(Mixed2, CertificateText), Plain("noise key"))
      /\ keyEnc' = Cipher(Decrypt(Mixed2, CertificateText), Plain("noise key"))
      /\ sealed' = sealed \cup {Cipher(Decrypt(Mixed2, CertificateText), Plain("noise key"))}
    BY <1>1, <1>2 DEF MixStatic, Mixed2
<1>5. failed' = failed /\ client' = Shared3 /\ keyEnc' = NoiseKeyText /\ sealed' = sealed \cup {NoiseKeyText}
    BY <1>3, <1>4 DEF Shared3, NoiseKeyText
<1>6. ClientAt' /\ sealed' \subseteq Texts
    BY <1>1, <1>5 DEF HandshakeInv, ClientAt, Texts
<1> QED BY <1>1, <1>5, <1>6, QuietKeeps

\* finishInit() of the client.
LEMMA OverKeeps == ASSUME HandshakeInv, HandshakeOver PROVE HandshakeInv'
<1>1. /\ stage = "sent" /\ stage' = "over" /\ client' = FinishInit(Shared4, "write", "read")
      /\ UNCHANGED <<peer, serverHello, keyEnc, up, down, sealed, early, failed>> /\ client = Shared4
    BY DEF HandshakeInv, ClientAt, HandshakeOver
<1>2. PICK h : Mixed(Shared4, h, Secrets3, 1)
    BY HandshakeStates
<1>3. ClientOver(client', 0, 0)
    BY <1>1, <1>2, FinishedIs DEF Mixed, ClientOver
<1>4. client'.readCounter = 0 /\ client'.writeCounter = 0
    BY <1>3 DEF ClientOver, State
<1>5. ClientAt'
    BY <1>1, <1>3, <1>4 DEF ClientAt
<1>6. Written' = Written /\ client'.readCounter = client.readCounter
    BY <1>1, <1>4, StatesApart DEF Written
<1>7. sealed' \subseteq Texts
    BY <1>1 DEF HandshakeInv
<1> QED BY <1>1, <1>5, <1>6, <1>7, QuietKeeps

\* It sends its Noise key and payload.
LEMMA FinishKeeps == ASSUME HandshakeInv, ClientFinish PROVE HandshakeInv'
<1>1. /\ stage = "own" /\ stage' = "sent" /\ client = Shared3 /\ keyEnc = NoiseKeyText
      /\ UNCHANGED <<peer, serverHello, keyEnc, down, early, failed>>
    BY DEF HandshakeInv, ClientAt, ClientFinish
<1>2. client' = Shared4 /\ up' = Append(up, Finish) /\ sealed' = sealed \cup {PayloadText}
    BY <1>1 DEF ClientFinish, Mixed3, PayloadText, Shared4, Finish
<1>3. peer = Shared2 /\ ~PeerIsOver /\ ~PeerIsOver'
    <2>1. PeerIsOver' = PeerIsOver
        BY <1>1 DEF PeerIsOver
    <2> QED BY <1>1, <2>1, Finishes DEF HandshakeInv, PeerAt
<1>4. ClientAt' /\ PeerAt'
    BY <1>1, <1>2, <1>3 DEF ClientAt, PeerAt
<1>5. up \in Seq(UpTexts) /\ Finish \in UpTexts /\ UpRight(up, "sent", peer)
    BY <1>1, UpStays, Zenon DEF HandshakeInv, OnTheWire, UpTexts
<1>6. FrameRight(Finish, Len(up) + 1, "sent", peer)
    BY UpTextsApart, Zenon DEF FrameRight
<1>7. OnTheWire'
    <2>1. up' \in Seq(UpTexts) /\ UpRight(up', "sent", peer)
        BY <1>2, <1>5, <1>6, UpGrows
    <2> QED BY <1>1, <1>3, <2>1 DEF HandshakeInv, OnTheWire
<1>8. ASSUME InStep PROVE InStep'
    <2>1. up' = <<Finish>>
        BY <1>1, <1>2, <1>3, <1>8 DEF InStep
    <2>2. up' # <<>> /\ Head(up') = Finish /\ Tail(up') = <<>>
        BY <2>1
    <2>3. Len(Tail(up')) = 0 /\ Written' = 0
        BY <2>2, <1>1 DEF Written
    <2>4. UpFrom(Tail(up'), 0)
        BY <2>3 DEF UpFrom
    <2>5. client'.readCounter = 0
        BY <1>2, StatesApart
    <2> QED BY <1>1, <1>3, <1>8, <2>2, <2>3, <2>4, <2>5, StatesApart DEF InStep
<1>9. sealed' \subseteq Texts
    BY <1>2 DEF HandshakeInv, Texts
<1> QED BY <1>1, <1>4, <1>7, <1>8, <1>9 DEF HandshakeInv

\* The server opens both and is over, with the two keys the other way round.
LEMMA ServerFinishKeeps == ASSUME HandshakeInv, ServerFinishes PROVE HandshakeInv'
<1>1. /\ up # <<>> /\ Len(Head(up)) = 2 /\ ~peer.isFinished /\ up' = Tail(up)
      /\ UNCHANGED <<client, stage, serverHello, keyEnc, down, sealed, early>>
    BY DEF ServerFinishes
<1>2. up \in Seq(UpTexts) /\ Head(up) \in UpTexts /\ UpRight(up, stage, peer)
    BY <1>1, Shrinks DEF HandshakeInv, OnTheWire
<1>4. Head(up) = Finish
    BY <1>1, <1>2, UpTextsApart
<1>5. stage \in {"sent", "over"}
    <2>1. FrameRight(Head(up), 1, stage, peer)
        BY <1>1, <1>2, UpShrinks
    <2> QED BY <1>4, <2>1 DEF FrameRight
<1>6. peer = Shared2 /\ ~PeerIsOver
    BY <1>1, <1>5, Finishes DEF HandshakeInv, PeerAt
<1>7. Head(up)[1] = NoiseKeyText /\ Head(up)[2] = PayloadText
    BY <1>4 DEF Finish
<1>8. Decrypt(Shared2, NoiseKeyText) = Shared3 /\ Opens(Shared2, NoiseKeyText)
    <2>1. PICK h : Mixed(Shared2, h, Secrets2, 1)
        BY HandshakeStates
    <2> QED BY <2>1, BothAlike DEF Mixed, NoiseKeyText, Shared3
<1>9. Decrypt(Mixed3, PayloadText) = Shared4 /\ Opens(Mixed3, PayloadText)
    <2>1. PICK h : Mixed(Mixed3, h, Secrets3, 0)
        BY HandshakeStates
    <2> QED BY <2>1, BothAlike DEF Mixed, PayloadText, Shared4
<1>10. failed' = failed /\ peer' = FinishInit(Shared4, "read", "write")
    <2>1. MixIntoKey(Decrypt(peer, Head(up)[1]), {"noise key", "server ephemeral"}) = Mixed3
        BY <1>6, <1>7, <1>8 DEF Mixed3
    <2> QED BY <1>6, <1>7, <1>8, <1>9, <2>1 DEF ServerFinishes
<1>11. PICK h : Mixed(Shared4, h, Secrets3, 1)
    BY HandshakeStates
<1>12. PeerOver(peer', 0, 0)
    BY <1>10, <1>11, FinishedIs DEF Mixed, PeerOver
<1>13. peer'.readCounter = 0 /\ peer'.writeCounter = 0
    BY <1>12 DEF PeerOver, State
<1>14. PeerIsOver' /\ peer' # NoiseStart /\ peer' # Shared2
    BY <1>12, <1>13, StatesApart DEF PeerIsOver
<1>15. ClientAt' /\ PeerAt'
    BY <1>1, <1>5, <1>14 DEF HandshakeInv, ClientAt, PeerAt
<1>16. OnTheWire'
    <2>1. up' \in Seq(UpTexts) /\ UpRight(up', stage, peer')
        BY <1>1, <1>2, UpShrinks
    <2> QED BY <1>1, <1>5, <1>14, <2>1 DEF HandshakeInv, OnTheWire
<1>17. ASSUME ~early PROVE InStep'
    <2>1. InStep /\ Written' = Written /\ Written \in Nat
        BY <1>1, <1>5, <1>17 DEF HandshakeInv, Written, ClientAt
    <2>2. Len(up') = Written /\ UpFrom(up', 0) /\ client'.readCounter = 0
        BY <1>1, <1>5, <1>6, <2>1 DEF InStep
    <2>3. down' = <<>>
        BY <1>1, <1>5, <1>6 DEF HandshakeInv, OnTheWire
    <2>4. Len(down') = 0
        BY <2>3
    <2>5. DownFrom(down', 0)
        BY <2>4 DEF DownFrom
    <2>6. Len(up') = Written' - 0 /\ Len(down') = 0 - 0
        BY <2>1, <2>2, <2>4
    <2>7. failed' = {}
        BY <1>10, <2>1 DEF InStep
    <2> QED BY <1>13, <1>14, <2>2, <2>5, <2>6, <2>7 DEF InStep
<1> QED BY <1>1, <1>15, <1>16, <1>17 DEF HandshakeInv

\* Encrypting and decrypting with the keys.
LEMMA ClientMoves ==
    ASSUME NEW s, NEW r \in Nat, NEW w \in Nat, ClientOver(s, r, w), NEW p, NEW c
    PROVE  /\ ClientOver(Encrypt(s, p), r, w + 1) /\ Text(Cipher(s, p), Key(Secrets3, "write"), w, <<>>, p)
           /\ ClientOver(Decrypt(s, c), r + 1, w)
           /\ Text(c, Key(Secrets3, "read"), r, <<>>, p) => Opens(s, c)
<1>1. State(s, <<>>, Secrets3, Key(Secrets3, "write"), Key(Secrets3, "read"), r, w, TRUE)
    BY DEF ClientOver
<1>2. /\ State(Encrypt(s, p), <<>>, Secrets3, Key(Secrets3, "write"), Key(Secrets3, "read"), r, w + 1, TRUE)
      /\ Text(Cipher(s, p), Key(Secrets3, "write"), w, <<>>, p)
    BY <1>1, EncryptIs
<1>3. /\ State(Decrypt(s, c), <<>>, Secrets3, Key(Secrets3, "write"), Key(Secrets3, "read"), r + 1, w, TRUE)
      /\ \A x : Text(c, Key(Secrets3, "read"), r, <<>>, x) => Opens(s, c)
    BY <1>1, DecryptIs
<1> QED BY <1>2, <1>3 DEF ClientOver

\* The same of the server, whose keys are the client's swapped.
LEMMA PeerMoves ==
    ASSUME NEW s, NEW r \in Nat, NEW w \in Nat, PeerOver(s, r, w), NEW p, NEW c
    PROVE  /\ PeerOver(Encrypt(s, p), r, w + 1) /\ Text(Cipher(s, p), Key(Secrets3, "read"), w, <<>>, p)
           /\ PeerOver(Decrypt(s, c), r + 1, w)
           /\ Text(c, Key(Secrets3, "write"), r, <<>>, p) => Opens(s, c)
<1>1. State(s, <<>>, Secrets3, Key(Secrets3, "read"), Key(Secrets3, "write"), r, w, TRUE)
    BY DEF PeerOver
<1>2. /\ State(Encrypt(s, p), <<>>, Secrets3, Key(Secrets3, "read"), Key(Secrets3, "write"), r, w + 1, TRUE)
      /\ Text(Cipher(s, p), Key(Secrets3, "read"), w, <<>>, p)
    BY <1>1, EncryptIs
<1>3. /\ State(Decrypt(s, c), <<>>, Secrets3, Key(Secrets3, "read"), Key(Secrets3, "write"), r + 1, w, TRUE)
      /\ \A x : Text(c, Key(Secrets3, "write"), r, <<>>, x) => Opens(s, c)
    BY <1>1, DecryptIs
<1> QED BY <1>2, <1>3 DEF PeerOver

\* The counters of an end that is over.
LEMMA OverFields ==
    /\ \A s : \A r, w : ClientOver(s, r, w) => s.readCounter = r /\ s.writeCounter = w
    /\ \A s : \A r, w : PeerOver(s, r, w) => s.readCounter = r /\ s.writeCounter = w
<1>1. ASSUME NEW s, NEW r, NEW w, ClientOver(s, r, w) PROVE s.readCounter = r /\ s.writeCounter = w
    BY <1>1 DEF ClientOver, State
<1>2. ASSUME NEW s, NEW r, NEW w, PeerOver(s, r, w) PROVE s.readCounter = r /\ s.writeCounter = w
    BY <1>2 DEF PeerOver, State
<1> QED BY <1>1, <1>2

\* A frame that is sent too early is not encrypted.
LEMMA EarlyKeeps == ASSUME HandshakeInv, SendFrame, stage # "over" PROVE HandshakeInv'
<1>1. /\ stage # "opening" /\ up' = Append(up, Plain("frame")) /\ early'
      /\ UNCHANGED <<client, sealed, peer, stage, serverHello, keyEnc, down, failed>>
    BY Finishes DEF SendFrame
<1>2. PeerIsOver' = PeerIsOver
    BY <1>1 DEF PeerIsOver
<1>3. up' \in Seq(UpTexts) /\ UpRight(up', stage, peer)
    <2> DEFINE x == Plain("frame")
    <2>1. x \in UpTexts /\ x # Finish /\ x # Plain("client ephemeral")
        BY UpTextsApart, Zenon DEF UpTexts
    <2>2. FrameRight(x, Len(up) + 1, stage, peer)
        BY <2>1, Zenon DEF FrameRight
    <2>3. up' = Append(up, x)
        BY <1>1
    <2> HIDE DEF x
    <2>4. up \in Seq(UpTexts) /\ UpRight(up, stage, peer)
        BY DEF HandshakeInv, OnTheWire
    <2> QED BY <2>1, <2>2, <2>3, <2>4, UpGrows
<1>4. OnTheWire'
    BY <1>1, <1>2, <1>3 DEF HandshakeInv, OnTheWire
<1>5. ClientAt' /\ PeerAt'
    BY <1>1, <1>2 DEF HandshakeInv, ClientAt, PeerAt
<1> QED BY <1>1, <1>4, <1>5 DEF HandshakeInv

\* A frame of the client, with its next counter.
LEMMA SendKeeps == ASSUME HandshakeInv, SendFrame, stage = "over" PROVE HandshakeInv'
<1> DEFINE w == client.writeCounter
           x == UpFrame(w)
<1>1. /\ client' = Encrypt(client, Plain("frame")) /\ up' = Append(up, Cipher(client, Plain("frame")))
      /\ sealed' = sealed \cup {Cipher(client, Plain("frame"))}
      /\ UNCHANGED <<early, peer, stage, serverHello, keyEnc, down, failed>>
    BY Finishes DEF SendFrame
<1>2. ClientOver(client, client.readCounter, w) /\ client.readCounter \in Nat /\ w \in Nat
    BY DEF HandshakeInv, ClientAt
<1>3. Text(Cipher(client, Plain("frame")), Key(Secrets3, "write"), w, <<>>, Plain("frame"))
    BY <1>2, ClientMoves
<1>4. Cipher(client, Plain("frame")) = x
    BY <1>3 DEF Text, UpFrame, Sealed
<1>5. ClientOver(client', client.readCounter, w + 1)
    BY <1>1, <1>2, ClientMoves
<1>6. client'.readCounter = client.readCounter /\ client'.writeCounter = w + 1 /\ w + 1 \in Nat
    BY <1>2, <1>5, OverFields
<1>7. PeerIsOver' = PeerIsOver
    BY <1>1 DEF PeerIsOver
<1>8. ClientAt' /\ PeerAt'
    BY <1>1, <1>2, <1>5, <1>6, <1>7 DEF HandshakeInv, ClientAt, PeerAt
<1>9. x \in UpTexts /\ x # Finish /\ x # Plain("client ephemeral")
    BY <1>2, UpTextsApart, Zenon
<1>10. sealed' \subseteq Texts
    BY <1>1, <1>2, <1>4 DEF HandshakeInv, Texts
<1> HIDE DEF x
<1>11. OnTheWire'
    <2>1. FrameRight(x, Len(up) + 1, stage, peer)
        BY <1>9, Zenon DEF FrameRight
    <2>2. up \in Seq(UpTexts) /\ UpRight(up, stage, peer)
        BY DEF HandshakeInv, OnTheWire
    <2>3. up' \in Seq(UpTexts) /\ UpRight(up', stage, peer)
        BY <1>1, <1>4, <1>9, <2>1, <2>2, UpGrows
    <2> QED BY <1>1, <1>7, <2>3 DEF HandshakeInv, OnTheWire
<1>12. ASSUME InStep PROVE InStep'
    <2>1. Written = w /\ Written' = w + 1 /\ up \in Seq(UpTexts) /\ up' = Append(up, x)
        BY <1>1, <1>4, <1>6 DEF Written, HandshakeInv, OnTheWire
    <2>2. CASE peer = Shared2
        <3>1. up # <<>> /\ Head(up) = Finish /\ Len(Tail(up)) = w /\ UpFrom(Tail(up), 0) /\ client.readCounter = 0
            BY <1>12, <2>1, <2>2 DEF InStep
        <3>2. Tail(up) \in Seq(UpTexts)
            BY <2>1, <3>1, Shrinks
        <3>3. up' # <<>> /\ Head(up') = Finish /\ Tail(up') = Append(Tail(up), x)
            <4>1. Len(up) # 0
                BY <2>1, <3>1, EmptySeq
            <4> QED BY <2>1, <3>1, <4>1, <1>9, TailGrows
        <3>4. Len(Tail(up)) = w - 0 /\ 0 \in Nat
            BY <3>1, <1>2
        <3>5. Len(Append(Tail(up), x)) = w + 1 - 0 /\ UpFrom(Append(Tail(up), x), 0)
            BY <1>2, <1>9, <3>1, <3>2, <3>4, FramesGrow DEF x
        <3>6. Len(Tail(up')) = w + 1 /\ UpFrom(Tail(up'), 0)
            <4>1. w + 1 - 0 = w + 1
                BY <1>2
            <4> QED BY <3>3, <3>5, <4>1, Zenon
        <3> QED BY <1>1, <1>6, <1>7, <1>12, <2>1, <2>2, <3>1, <3>3, <3>6, Finishes, StatesApart DEF InStep
    <2>3. CASE PeerIsOver
        <3>1. Len(up) = w - peer.readCounter /\ UpFrom(up, peer.readCounter) /\ peer.readCounter \in Nat
            BY <1>12, <2>1, <2>3 DEF InStep, PeerIsOver
        <3>2. Len(up') = w + 1 - peer.readCounter /\ UpFrom(up', peer.readCounter)
            BY <1>2, <1>9, <2>1, <3>1, FramesGrow DEF x
        <3>3. peer' # NoiseStart /\ peer' # Shared2 /\ failed' = {}
            BY <1>1, <1>12, <2>3, Finishes DEF InStep
        <3>4. Len(down') = peer'.writeCounter - client'.readCounter /\ DownFrom(down', client'.readCounter)
            BY <1>1, <1>6, <1>12, <2>3 DEF InStep
        <3>5. Len(up') = Written' - peer'.readCounter /\ UpFrom(up', peer'.readCounter)
            <4>1. peer'.readCounter = peer.readCounter
                BY <1>1
            <4>2. Written' = w + 1
                BY <2>1
            <4>3. Len(up') = Written' - peer'.readCounter
                BY <1>2, <3>1, <3>2, <4>1, <4>2
            <4>4. UpFrom(up', peer'.readCounter)
                BY <3>2, <4>1
            <4> QED BY <4>3, <4>4
        <3> QED BY <3>3, <3>4, <3>5 DEF InStep
    <2> QED BY <2>2, <2>3 DEF HandshakeInv, PeerAt
<1> QED BY <1>1, <1>8, <1>10, <1>11, <1>12 DEF HandshakeInv

\* A stanza of the server, with its next counter.
LEMMA ServerSendsKeeps == ASSUME HandshakeInv, ServerSends PROVE HandshakeInv'
<1> DEFINE w == peer.writeCounter
           x == DownFrame(w)
<1>1. /\ peer.isFinished /\ peer' = Encrypt(peer, Plain("stanza")) /\ down' = Append(down, Cipher(peer, Plain("stanza")))
      /\ sealed' = sealed \cup {Cipher(peer, Plain("stanza"))}
      /\ UNCHANGED <<client, stage, serverHello, keyEnc, up, early, failed>>
    BY DEF ServerSends
<1>2. PeerIsOver /\ stage \in {"sent", "over"}
    BY <1>1, Finishes DEF HandshakeInv, PeerAt
<1>3. PeerOver(peer, peer.readCounter, w) /\ peer.readCounter \in Nat /\ w \in Nat
    BY <1>2 DEF PeerIsOver
<1>4. Text(Cipher(peer, Plain("stanza")), Key(Secrets3, "read"), w, <<>>, Plain("stanza"))
    BY <1>3, PeerMoves
<1>5. Cipher(peer, Plain("stanza")) = x
    BY <1>4 DEF Text, DownFrame, Sealed
<1>6. PeerOver(peer', peer.readCounter, w + 1)
    BY <1>1, <1>3, PeerMoves
<1>7. peer'.readCounter = peer.readCounter /\ peer'.writeCounter = w + 1 /\ w + 1 \in Nat
    BY <1>3, <1>6, OverFields
<1>8. PeerIsOver' /\ peer' # NoiseStart /\ peer' # Shared2 /\ peer # NoiseStart
    BY <1>2, <1>3, <1>6, <1>7, Finishes, StatesApart DEF PeerIsOver
<1>9. ClientAt' /\ PeerAt'
    BY <1>1, <1>2, <1>8 DEF HandshakeInv, ClientAt, PeerAt
<1>10. sealed' \subseteq Texts
    BY <1>1, <1>3, <1>5 DEF HandshakeInv, Texts
<1>11. x \in DownTexts
    BY <1>3 DEF DownTexts
<1> HIDE DEF x
<1>12. down \in Seq(DownTexts) /\ down' = Append(down, x)
    BY <1>1, <1>5 DEF HandshakeInv, OnTheWire
<1>13. OnTheWire'
    <2>1. down' \in Seq(DownTexts)
        BY <1>11, <1>12, Grows
    <2>2. UpRight(up, stage, peer')
        BY <1>8 DEF HandshakeInv, OnTheWire, UpRight, FrameRight
    <2> QED BY <1>1, <1>8, <2>1, <2>2 DEF HandshakeInv, OnTheWire
<1>14. ASSUME InStep PROVE InStep'
    <2>1. Len(down) = w - client.readCounter /\ DownFrom(down, client.readCounter)
        BY <1>2, <1>14 DEF InStep
    <2>2. client.readCounter \in Nat
        BY <1>2, StatesApart DEF HandshakeInv, ClientAt
    <2>3. Len(down') = w + 1 - client.readCounter /\ DownFrom(down', client.readCounter)
        BY <1>3, <1>11, <1>12, <2>1, <2>2, FramesGrow DEF x
    <2>4. Written' = Written
        BY <1>1 DEF Written
    <2>5. Len(up') = Written' - peer'.readCounter /\ UpFrom(up', peer'.readCounter) /\ failed' = {}
        BY <1>1, <1>2, <1>7, <1>14, <2>4 DEF InStep
    <2>6. Len(down') = peer'.writeCounter - client'.readCounter /\ DownFrom(down', client'.readCounter)
        <3>1. client'.readCounter = client.readCounter
            BY <1>1
        <3>2. peer'.writeCounter = w + 1
            BY <1>7
        <3>3. Len(down') = peer'.writeCounter - client'.readCounter
            BY <1>3, <2>2, <2>3, <3>1, <3>2
        <3>4. DownFrom(down', client'.readCounter)
            BY <2>3, <3>1
        <3> QED BY <3>3, <3>4
    <2> QED BY <1>8, <2>5, <2>6 DEF InStep
<1> QED BY <1>1, <1>9, <1>10, <1>13, <1>14 DEF HandshakeInv

\* The server gets a frame: the next of the client's, unless one was early.
LEMMA ServerReadsKeeps == ASSUME HandshakeInv, ServerReads PROVE HandshakeInv'
<1>1. /\ up # <<>> /\ Head(up) # Plain("client ephemeral") /\ (Len(Head(up)) = 2 => peer.isFinished) /\ up' = Tail(up)
      /\ UNCHANGED <<client, stage, serverHello, keyEnc, down, sealed, early>>
    BY DEF ServerReads
<1>2. up \in Seq(UpTexts) /\ UpRight(up, stage, peer) /\ up' \in Seq(UpTexts) /\ UpRight(up', stage, peer')
    BY <1>1, UpShrinks DEF HandshakeInv, OnTheWire
<1>3. CASE PeerIsOver /\ peer' = Decrypt(peer, Head(up)) /\ UNCHANGED failed
    <2>1. PeerOver(peer', peer.readCounter + 1, peer.writeCounter) /\ peer.readCounter \in Nat /\ peer.writeCounter \in Nat
        BY <1>3, PeerMoves DEF PeerIsOver
    <2>2. peer'.readCounter = peer.readCounter + 1 /\ peer'.writeCounter = peer.writeCounter
        BY <2>1, OverFields
    <2>3. PeerIsOver' /\ peer' # NoiseStart /\ peer' # Shared2
        BY <2>1, <2>2, StatesApart DEF PeerIsOver
    <2>4. stage \in {"sent", "over"}
        BY <1>3, Finishes DEF HandshakeInv, PeerAt
    <2>5. ClientAt' /\ PeerAt' /\ OnTheWire'
        BY <1>1, <1>2, <2>3, <2>4 DEF HandshakeInv, ClientAt, PeerAt, OnTheWire
    <2>6. ASSUME InStep PROVE InStep'
        <3>1. Len(up) = Written - peer.readCounter /\ UpFrom(up, peer.readCounter)
            BY <1>3, <2>6 DEF InStep
        <3>2. Written \in Nat /\ Written' = Written
            BY <1>1, <2>4 DEF HandshakeInv, ClientAt, Written
        <3>3. Len(up') = Written - (peer.readCounter + 1) /\ UpFrom(up', peer.readCounter + 1)
            BY <1>1, <1>2, <2>1, <3>1, <3>2, FramesShrink
        <3> QED BY <1>1, <1>3, <2>2, <2>3, <2>6, <3>2, <3>3 DEF InStep
    <2> QED BY <1>1, <2>5, <2>6 DEF HandshakeInv
<1>4. CASE UNCHANGED peer /\ early
    <2>1. PeerIsOver' = PeerIsOver
        BY <1>4 DEF PeerIsOver
    <2>2. OnTheWire'
        <3>1. stage # "opening"
            BY <1>1 DEF HandshakeInv, OnTheWire
        <3> QED BY <1>1, <1>2, <1>4, <2>1, <3>1 DEF HandshakeInv, OnTheWire
    <2>3. ClientAt' /\ PeerAt'
        BY <1>1, <1>4, <2>1 DEF HandshakeInv, ClientAt, PeerAt
    <2> QED BY <1>1, <1>4, <2>2, <2>3 DEF HandshakeInv
<1>5. ASSUME ~early PROVE PeerIsOver /\ Len(Head(up)) = 4 /\ Opens(peer, Head(up))
    <2>1. InStep
        BY <1>5 DEF HandshakeInv
    <2>2. PeerIsOver
        <3>1. CASE peer = NoiseStart
            <4>1. stage = "hello"
                BY <1>1, <3>1, Finishes, StatesApart DEF HandshakeInv, PeerAt, OnTheWire
            <4>2. up = <<Plain("client ephemeral")>>
                BY <2>1, <3>1, <4>1 DEF InStep
            <4>3. Head(<<Plain("client ephemeral")>>) = Plain("client ephemeral")
                BY Single
            <4> QED BY <1>1, <4>2, <4>3, Zenon
        <3>2. CASE peer = Shared2
            <4>1. Head(up) = Finish
                BY <1>1, <2>1, <3>2 DEF InStep
            <4>2. Len(Head(up)) = 2
                BY <4>1, <1>1, <1>2, Shrinks, UpTextsApart
            <4> QED BY <1>1, <3>2, <4>2, StatesApart
        <3> QED BY <3>1, <3>2 DEF HandshakeInv, PeerAt
    <2>3. peer.readCounter \in Nat /\ peer.writeCounter \in Nat /\ PeerOver(peer, peer.readCounter, peer.writeCounter)
        BY <2>2 DEF PeerIsOver
    <2>4. Written \in Nat
        BY <2>2, Finishes DEF HandshakeInv, PeerAt, ClientAt, Written
    <2>5. Head(up) = UpFrame(peer.readCounter)
        BY <1>1, <1>2, <2>1, <2>2, <2>3, <2>4, FramesShrink DEF InStep
    <2>6. Text(Head(up), Key(Secrets3, "write"), peer.readCounter, <<>>, Plain("frame"))
        BY <2>5 DEF Text, UpFrame, Sealed
    <2>7. Opens(peer, Head(up))
        BY <2>3, <2>6, PeerMoves
    <2> QED BY <2>2, <2>3, <2>5, <2>7, UpTextsApart
<1>6. \/ PeerIsOver /\ peer' = Decrypt(peer, Head(up)) /\ UNCHANGED failed
      \/ UNCHANGED peer /\ ~(PeerIsOver /\ Len(Head(up)) = 4 /\ Opens(peer, Head(up)))
    BY Finishes DEF ServerReads
<1>7. early \in BOOLEAN
    BY DEF HandshakeInv
<1> QED BY <1>3, <1>4, <1>5, <1>6, <1>7

\* The client gets a stanza: the next of the server's, unless one was early.
LEMMA ReceiveKeeps == ASSUME HandshakeInv, ReceiveFrame PROVE HandshakeInv'
<1>1. /\ stage \in {"sent", "over"} /\ down # <<>> /\ down' = Tail(down)
      /\ UNCHANGED <<peer, stage, serverHello, keyEnc, up, sealed>>
    BY DEF ReceiveFrame
<1>2. PeerIsOver /\ PeerIsOver'
    <2>1. PeerIsOver
        BY <1>1 DEF HandshakeInv, OnTheWire
    <2> QED BY <1>1, <2>1 DEF PeerIsOver
<1>3. down \in Seq(DownTexts) /\ down' \in Seq(DownTexts)
    BY <1>1, Shrinks DEF HandshakeInv, OnTheWire
<1>4. PeerAt' /\ OnTheWire'
    BY <1>1, <1>2, <1>3 DEF HandshakeInv, PeerAt, OnTheWire
<1>5. CASE UNCHANGED client /\ early'
    <2>1. ClientAt'
        BY <1>1, <1>5 DEF HandshakeInv, ClientAt
    <2> QED BY <1>1, <1>4, <1>5, <2>1 DEF HandshakeInv
<1>6. CASE stage = "over" /\ client' = Decrypt(client, Head(down)) /\ UNCHANGED <<early, failed>>
    <2>1. /\ ClientOver(client', client.readCounter + 1, client.writeCounter)
          /\ client.readCounter \in Nat /\ client.writeCounter \in Nat
        BY <1>6, ClientMoves DEF HandshakeInv, ClientAt
    <2>2. client'.readCounter = client.readCounter + 1 /\ client'.writeCounter = client.writeCounter
        BY <2>1, OverFields
    <2>3. ClientAt'
        BY <1>1, <1>6, <2>1, <2>2 DEF ClientAt
    <2>4. ASSUME InStep PROVE InStep'
        <3>1. Len(down) = peer.writeCounter - client.readCounter /\ DownFrom(down, client.readCounter)
            BY <1>2, <2>4 DEF InStep
        <3>2. peer.writeCounter \in Nat /\ Written' = Written
            BY <1>1, <1>2, <2>2 DEF PeerIsOver, Written
        <3>3. Len(down') = peer.writeCounter - (client.readCounter + 1) /\ DownFrom(down', client.readCounter + 1)
            BY <1>1, <1>3, <2>1, <3>1, <3>2, FramesShrink
        <3> QED BY <1>1, <1>2, <1>6, <2>2, <2>4, <3>2, <3>3, Finishes DEF InStep
    <2> QED BY <1>1, <1>4, <1>6, <2>3, <2>4 DEF HandshakeInv
<1>7. ASSUME ~early, stage = "over" PROVE Opens(client, Head(down))
    <2>1. Len(down) = peer.writeCounter - client.readCounter /\ DownFrom(down, client.readCounter)
        BY <1>2, <1>7 DEF HandshakeInv, InStep
    <2>2. /\ ClientOver(client, client.readCounter, client.writeCounter)
          /\ client.readCounter \in Nat /\ client.writeCounter \in Nat /\ peer.writeCounter \in Nat
        BY <1>2, <1>7 DEF HandshakeInv, ClientAt, PeerIsOver
    <2>3. Head(down) = DownFrame(client.readCounter)
        BY <1>1, <1>3, <2>1, <2>2, FramesShrink
    <2>4. Text(Head(down), Key(Secrets3, "read"), client.readCounter, <<>>, Plain("stanza"))
        BY <2>3 DEF Text, DownFrame, Sealed
    <2> QED BY <2>2, <2>4, ClientMoves
<1>8. \/ stage # "over" /\ early' /\ UNCHANGED client
      \/ stage = "over" /\ client' = Decrypt(client, Head(down)) /\ UNCHANGED <<early, failed>>
      \/ stage = "over" /\ UNCHANGED <<client, early>> /\ ~Opens(client, Head(down))
    BY Finishes DEF ReceiveFrame
<1>9. early \in BOOLEAN
    BY DEF HandshakeInv
<1> QED BY <1>5, <1>6, <1>7, <1>8, <1>9

\* Nothing is encrypted twice with the same key and counter, and no end fails to
\* open what it gets (noise-handler.js encrypt(), decrypt()) unless a frame was
\* early: for any number of frames either way.
THEOREM TextsAreApart == HandshakeSpec => []ChannelSound
<1>1. HandshakeInv /\ [HandshakeNext]_handshakeVars => HandshakeInv'
    <2> SUFFICES ASSUME HandshakeInv, [HandshakeNext]_handshakeVars PROVE HandshakeInv'
        OBVIOUS
    <2>1. CASE UNCHANGED handshakeVars
        <3>1. UNCHANGED <<client, peer, stage, serverHello, keyEnc, up, down, sealed, early, failed>>
            BY <2>1 DEF handshakeVars
        <3>2. PeerIsOver' = PeerIsOver /\ Written' = Written
            BY <3>1 DEF PeerIsOver, Written
        <3>3. InStep' = InStep
            BY <3>1, <3>2 DEF InStep
        <3> QED BY <3>1, <3>2, <3>3 DEF HandshakeInv, ClientAt, PeerAt, OnTheWire
    <2>2. CASE ClientHello
        BY <2>2, HelloKeeps
    <2>3. CASE ProcessHandshake
        BY <2>3, ProcessKeeps
    <2>4. CASE MixEphemeral
        BY <2>4, EphemeralKeeps
    <2>5. CASE MixStatic
        BY <2>5, StaticKeeps
    <2>6. CASE ClientFinish
        BY <2>6, FinishKeeps
    <2>7. CASE HandshakeOver
        BY <2>7, OverKeeps
    <2>8. CASE SendFrame
        BY <2>8, EarlyKeeps, SendKeeps
    <2>9. CASE ReceiveFrame
        BY <2>9, ReceiveKeeps
    <2>10. CASE ServerAnswers
        BY <2>10, AnswerKeeps
    <2>11. CASE ServerFinishes
        BY <2>11, ServerFinishKeeps
    <2>12. CASE ServerSends
        BY <2>12, ServerSendsKeeps
    <2>13. CASE ServerReads
        BY <2>13, ServerReadsKeeps
    <2> QED BY <2>1, <2>2, <2>3, <2>4, <2>5, <2>6, <2>7, <2>8, <2>9, <2>10, <2>11, <2>12, <2>13 DEF HandshakeNext
<1>2. HandshakeInv => ChannelSound
    <2> SUFFICES ASSUME HandshakeInv PROVE ChannelSound
        OBVIOUS
    <2>1. ASSUME NEW c \in sealed, NEW d \in sealed, c[1] = d[1], c[2] = d[2] PROVE c = d
        BY <2>1, TextsApart DEF HandshakeInv
    <2>2. failed # {} => early
        BY DEF HandshakeInv, InStep
    <2> QED BY <2>1, <2>2 DEF ChannelSound
<1> QED BY <1>1, <1>2, HandshakeStarts, PTL DEF HandshakeSpec

=============================================================================
