---------------------------- MODULE SendingProofs ----------------------------
(***************************************************************************)
(* Promises of lib/messages-send.js and signal/group_cipher.js: a caller of*)
(* requestPlaceholderResend is told RESOLVED only of what was upserted, a   *)
(* refused upload goes on with a new authorization, relays that interleave *)
(* harm neither each other's order nor each other's keys, the lists of     *)
(* devices they go to are fresh, and a group message is read once for each *)
(* distribution message that lets it be read, and is not refused when the  *)
(* last one of its chain lets it be read.                                  *)
(***************************************************************************)
EXTENDS PlaceholderResend, MediaUpload, SendPath, DeviceLists, SenderKeys,
        FiniteSetTheorems, TLAPS

(***************************************************************************)
(* Requests, for any messages, calls and ticks, and however late the       *)
(* timers are.  As long as a message was not upserted since it was asked   *)
(* for, its entry has one owner, which alone may take it away: the call    *)
(* that waits or, after it, the timeout that the call started.             *)
(***************************************************************************)
Requests == [message : Missed, pc : {"ignored", "waiting", "sending", "sent", "resolved"}, due : Int]

ResendTypeOK ==
    /\ tick \in Nat
    /\ requests \in Seq(Requests)
    /\ \A t \in timeouts : t = [message |-> t.message, due |-> t.due] /\ AskedFor(t.message)

WaitingFor(c, m) == c \in DOMAIN requests /\ requests[c].pc = "waiting" /\ requests[c].message = m

\* What holds of a message that was not upserted since it was asked for.
OneOwner(m) ==
    /\ \A c \in DOMAIN requests :
          WaitingFor(c, m) => /\ m \in pending
                              /\ \A t \in timeouts : t.message # m
                              /\ \A d \in DOMAIN requests : WaitingFor(d, m) => d = c
    /\ \A t \in timeouts : t.message = m => m \in pending
    /\ \A t, u \in timeouts : t.message = m /\ u.message = m => t = u

ResolvedCame == \A c \in DOMAIN requests : requests[c].pc = "resolved" => requests[c].message \in came \cup repeated

ResendInv ==
    /\ ResendTypeOK
    /\ ResolvedCame
    /\ \A m \in Missed : m \in came \cup repeated \/ OneOwner(m)

LEMMA InitiallyOwned == ResendInit => ResendInv
BY DEF ResendInit, ResendInv, ResendTypeOK, ResolvedCame, OneOwner, WaitingFor, AskedFor

LEMMA RequestTyped ==
    ASSUME ResendInv, NEW c \in DOMAIN requests
    PROVE  requests[c] \in Requests /\ requests[c].message \in Missed
<1>1. requests \in Seq(Requests)
    BY DEF ResendInv, ResendTypeOK
<1>2. requests[c] \in Requests
    BY <1>1
<1> QED BY <1>2 DEF Requests

\* A call appends a request that waits only if nobody else owns the entry.
LEMMA RequestKeepsOwner ==
    ASSUME ResendInv, NEW m \in Missed, RequestPlaceholderResend(m)
    PROVE  ResendInv'
<1> DEFINE r == [message |-> m, pc |-> IF m \in pending THEN "ignored" ELSE "waiting", due |-> tick + WaitTicks]
<1>1. requests' = Append(requests, r) /\ pending' = pending \cup {m} /\ UNCHANGED <<tick, timeouts, answers, came, repeated>>
    BY DEF RequestPlaceholderResend, Call
<1>2. r \in Requests /\ r.message = m /\ (r.pc = "waiting" => m \notin pending) /\ r.pc \in {"ignored", "waiting"}
    BY DEF Requests, ResendInv, ResendTypeOK, WaitTicks
<1> HIDE DEF r
<1>3. requests \in Seq(Requests)
    BY DEF ResendInv, ResendTypeOK
<1>4. /\ DOMAIN requests' = 1..Len(requests) + 1
      /\ DOMAIN requests = 1..Len(requests)
      /\ \A c \in DOMAIN requests : requests'[c] = requests[c]
      /\ requests'[Len(requests) + 1] = r
      /\ Len(requests) \in Nat
      /\ requests' \in Seq(Requests)
    BY <1>1, <1>2, <1>3
<1>5. ResendTypeOK'
    BY <1>1, <1>4 DEF ResendInv, ResendTypeOK, AskedFor
<1>6. ResolvedCame'
    BY <1>1, <1>2, <1>4 DEF ResendInv, ResolvedCame
<1>7. ASSUME NEW x \in Missed, x \notin (came \cup repeated)' PROVE OneOwner(x)'
    <2>1. OneOwner(x)
        BY <1>1, <1>7 DEF ResendInv
    <2>2. ASSUME NEW c \in DOMAIN requests', WaitingFor(c, x)'
          PROVE  x \in pending' /\ (\A t \in timeouts' : t.message # x)
                 /\ \A d \in DOMAIN requests' : WaitingFor(d, x)' => d = c
        <3>1. CASE c = Len(requests) + 1
            <4>1. x = m /\ m \notin pending
                BY <1>2, <1>4, <2>2, <3>1 DEF WaitingFor
            <4>2. \A d \in DOMAIN requests : ~WaitingFor(d, x)
                BY <2>1, <4>1 DEF OneOwner
            <4>3. \A d \in DOMAIN requests' : WaitingFor(d, x)' => d = c
                BY <1>4, <3>1, <4>2 DEF WaitingFor
            <4> QED BY <1>1, <2>1, <4>1, <4>3 DEF OneOwner
        <3>2. CASE c # Len(requests) + 1
            <4>1. c \in DOMAIN requests /\ WaitingFor(c, x)
                BY <1>4, <2>2, <3>2 DEF WaitingFor
            <4>2. x \in pending /\ (\A t \in timeouts : t.message # x)
                  /\ \A d \in DOMAIN requests : WaitingFor(d, x) => d = c
                BY <2>1, <4>1 DEF OneOwner
            <4>3. \A d \in DOMAIN requests' : d = Len(requests) + 1 => ~WaitingFor(d, x)'
                BY <1>2, <1>4, <4>2 DEF WaitingFor
            <4>4. ASSUME NEW d \in DOMAIN requests', WaitingFor(d, x)' PROVE d = c
                <5>1. d # Len(requests) + 1
                    BY <4>3, <4>4
                <5>2. d \in DOMAIN requests
                    BY <1>4, <5>1
                <5>3. WaitingFor(d, x)
                    BY <1>4, <4>4, <5>2 DEF WaitingFor
                <5> QED BY <4>2, <5>2, <5>3
            <4> QED BY <1>1, <4>2, <4>4
        <3> QED BY <3>1, <3>2
    <2> QED BY <1>1, <2>1, <2>2 DEF OneOwner
<1> QED BY <1>5, <1>6, <1>7 DEF ResendInv

\* After its wait a call hands the entry to its timeout, or finds the message come.
LEMMA WaitOverKeepsOwner ==
    ASSUME ResendInv, NEW c \in DOMAIN requests, WaitOver(c)
    PROVE  ResendInv'
<1> DEFINE m == requests[c].message
           t == [message |-> m, due |-> tick + TimeoutTicks]
<1>1. /\ requests \in Seq(Requests) /\ requests[c] \in Requests /\ m \in Missed
      /\ requests[c].pc = "waiting" /\ UNCHANGED <<tick, pending, answers, came, repeated>>
    BY RequestTyped DEF ResendInv, ResendTypeOK, WaitOver
<1>2. /\ DOMAIN requests' = DOMAIN requests /\ requests' \in Seq(Requests)
      /\ \A d \in DOMAIN requests : requests'[d].message = requests[d].message
      /\ \A d \in DOMAIN requests : d # c => requests'[d] = requests[d]
      /\ requests'[c].pc \in {"sending", "resolved"}
      /\ requests'[c].pc = "resolved" => m \notin pending
    <2>1. PICK pc \in {"sending", "resolved"} :
             requests' = [requests EXCEPT ![c].pc = pc] /\ (pc = "resolved" => m \notin pending)
        BY DEF WaitOver
    <2> HIDE DEF m
    <2> QED BY <1>1, <2>1 DEF Requests
<1>3. m \in came \cup repeated \/ (m \in pending /\ timeouts' = timeouts \cup {t} /\ requests'[c].pc = "sending")
    <2>1. m \in came \cup repeated \/ m \in pending
        BY <1>1 DEF ResendInv, OneOwner, WaitingFor
    <2>2. m \in pending => requests' = [requests EXCEPT ![c].pc = "sending"] /\ timeouts' = timeouts \cup {t}
        BY DEF WaitOver
    <2> QED BY <1>1, <2>1, <2>2 DEF Requests
<1>4. timeouts' \in {timeouts, timeouts \cup {t}}
    BY DEF WaitOver
<1>5. t.message = m /\ t = [message |-> t.message, due |-> t.due]
    OBVIOUS
<1> HIDE DEF m, t
<1>6. ResendTypeOK'
    <2>1. \A x : AskedFor(x) => AskedFor(x)'
        BY <1>2 DEF AskedFor
    <2>2. \A x : x = m => AskedFor(x)'
        BY <1>2 DEF AskedFor, m
    <2> QED BY <1>1, <1>2, <1>4, <1>5, <2>1, <2>2 DEF ResendInv, ResendTypeOK
<1>7. ResolvedCame'
    BY <1>1, <1>2, <1>3 DEF ResendInv, ResolvedCame, m
<1>8. ASSUME NEW x \in Missed, x \notin (came \cup repeated)' PROVE OneOwner(x)'
    <2>1. OneOwner(x) /\ x \notin came \cup repeated
        BY <1>1, <1>8 DEF ResendInv
    <2>2. \A d \in DOMAIN requests' : WaitingFor(d, x)' => d # c /\ d \in DOMAIN requests /\ WaitingFor(d, x)
        BY <1>2 DEF WaitingFor
    <2>3. CASE x = m
        <3>1. m \in pending /\ timeouts' = timeouts \cup {t}
            BY <1>3, <2>1, <2>3
        <3>2. WaitingFor(c, x)
            BY <1>1, <2>3 DEF WaitingFor, m
        <3>3. (\A u \in timeouts : u.message # x) /\ \A d \in DOMAIN requests : WaitingFor(d, x) => d = c
            BY <2>1, <3>2 DEF OneOwner
        <3> QED BY <1>1, <1>5, <2>2, <2>3, <3>1, <3>3 DEF OneOwner
    <2>4. CASE x # m
        BY <1>1, <1>2, <1>4, <1>5, <2>1, <2>2, <2>4 DEF OneOwner
    <2> QED BY <2>3, <2>4
<1> QED BY <1>6, <1>7, <1>8 DEF ResendInv

\* A timeout takes away an entry that nobody waits for any more.
LEMMA TimeoutKeepsOwner ==
    ASSUME ResendInv, NEW t \in timeouts, Timeout(t)
    PROVE  ResendInv'
<1>1. timeouts' = timeouts \ {t} /\ pending' = pending \ {t.message} /\ UNCHANGED <<tick, requests, answers, came, repeated>>
    BY DEF Timeout
<1>2. ResendTypeOK' /\ ResolvedCame'
    BY <1>1 DEF ResendInv, ResendTypeOK, ResolvedCame, AskedFor
<1>3. ASSUME NEW x \in Missed, x \notin (came \cup repeated)' PROVE OneOwner(x)'
    <2>1. OneOwner(x)
        BY <1>1, <1>3 DEF ResendInv
    <2> QED BY <1>1, <2>1 DEF OneOwner, WaitingFor
<1> QED BY <1>2, <1>3 DEF ResendInv

\* An upsert takes the entry away, and is noted if anybody asked for the message.
LEMMA ComingKeepsOwner ==
    ASSUME ResendInv, NEW m \in Missed, Comes(m),
           \/ came' = Noted(m, came) /\ UNCHANGED repeated
           \/ repeated' = Noted(m, repeated) /\ UNCHANGED came
    PROVE  ResendInv'
<1>1. pending' = pending \ {m} /\ UNCHANGED <<tick, requests, timeouts>>
    BY DEF Comes
<1>2. came \cup repeated \subseteq (came \cup repeated)'
    BY DEF Noted
<1>3. ResendTypeOK' /\ ResolvedCame'
    BY <1>1, <1>2 DEF ResendInv, ResendTypeOK, ResolvedCame, AskedFor
<1>4. ASSUME NEW x \in Missed, x \notin (came \cup repeated)' PROVE OneOwner(x)'
    <2>1. OneOwner(x)
        BY <1>2, <1>4 DEF ResendInv
    <2>2. CASE x # m
        BY <1>1, <2>1, <2>2 DEF OneOwner, WaitingFor
    <2>3. CASE x = m
        <3>1. ~AskedFor(m)
            BY <1>4, <2>3 DEF Noted
        <3> QED BY <1>1, <2>3, <3>1 DEF ResendInv, ResendTypeOK, OneOwner, WaitingFor, AskedFor
    <2> QED BY <2>2, <2>3
<1> QED BY <1>3, <1>4 DEF ResendInv

LEMMA RelayedKeepsOwner ==
    ASSUME ResendInv, NEW c \in DOMAIN requests, Relayed(c)
    PROVE  ResendInv'
<1>1. requests[c].pc = "sending" /\ requests' = [requests EXCEPT ![c].pc = "sent"]
      /\ UNCHANGED <<tick, pending, timeouts, answers, came, repeated>>
    BY DEF Relayed
<1>2. requests \in Seq(Requests) /\ requests[c] \in Requests
    BY RequestTyped DEF ResendInv, ResendTypeOK
<1>3. /\ DOMAIN requests' = DOMAIN requests /\ requests' \in Seq(Requests)
      /\ \A d \in DOMAIN requests : d # c => requests'[d] = requests[d]
      /\ requests'[c].pc = "sent"
    BY <1>1, <1>2 DEF Requests
<1>4. ResendTypeOK' /\ ResolvedCame'
    BY <1>1, <1>3 DEF ResendInv, ResendTypeOK, ResolvedCame, AskedFor
<1>5. ASSUME NEW x \in Missed, x \notin (came \cup repeated)' PROVE OneOwner(x)'
    BY <1>1, <1>3, <1>5 DEF ResendInv, OneOwner, WaitingFor
<1> QED BY <1>4, <1>5 DEF ResendInv

LEMMA StepKeepsOwner == ResendInv /\ [ResendNext]_resendVars => ResendInv'
<1> SUFFICES ASSUME ResendInv, [ResendNext]_resendVars PROVE ResendInv'
    OBVIOUS
<1>1. CASE UNCHANGED resendVars
    BY <1>1 DEF resendVars, ResendInv, ResendTypeOK, ResolvedCame, OneOwner, WaitingFor, AskedFor
<1>2. ASSUME NEW m \in Missed, RequestPlaceholderResend(m) PROVE ResendInv'
    BY <1>2, RequestKeepsOwner
<1>3. ASSUME NEW m \in Missed, Upserted(m) \/ PlaceholderUpserted(m) \/ AnswerEmitted(m) PROVE ResendInv'
    BY <1>3, ComingKeepsOwner DEF Upserted, PlaceholderUpserted, AnswerEmitted
<1>4. ASSUME NEW m \in Missed, PhoneAnswers(m) PROVE ResendInv'
    BY <1>4 DEF PhoneAnswers, ResendInv, ResendTypeOK, ResolvedCame, OneOwner, WaitingFor, AskedFor
<1>5. ASSUME NEW c \in DOMAIN requests, WaitOver(c) \/ Relayed(c) PROVE ResendInv'
    BY <1>5, WaitOverKeepsOwner, RelayedKeepsOwner
<1>6. ASSUME NEW t \in timeouts, Timeout(t) PROVE ResendInv'
    BY <1>6, TimeoutKeepsOwner
<1>7. CASE Ticks
    BY <1>7 DEF Ticks, ResendInv, ResendTypeOK, ResolvedCame, OneOwner, WaitingFor, AskedFor
<1> QED BY <1>1, <1>2, <1>3, <1>4, <1>5, <1>6, <1>7 DEF ResendNext

\* A call is told RESOLVED only of a message that was upserted, though perhaps as
\* a placeholder again, since it was asked for, whatever timeouts clear the map;
\* and two calls wait for one message only after it was upserted.
THEOREM ResolvedRight == ResendSpec => []ResolvedHasCome
<1>1. ResendInv => ResolvedHasCome
    <2> SUFFICES ASSUME ResendInv PROVE ResolvedHasCome
        OBVIOUS
    <2>1. \A c \in DOMAIN requests : requests[c].message \in Missed
        BY RequestTyped
    <2> QED BY <2>1 DEF ResendInv, ResolvedCame, OneOwner, WaitingFor, ResolvedHasCome
<1> QED BY InitiallyOwned, StepKeepsOwner, <1>1, PTL DEF ResendSpec
-----------------------------------------------------------------------------
(***************************************************************************)
(* Uploads, for any number of them, of hosts and of fetches; and what is   *)
(* uploaded was all in the file.  The invariant follows an upload from its *)
(* refusal, which makes the fetch that comes next, through the wait for    *)
(* that fetch.                                                             *)
(***************************************************************************)
UploadTypeOK ==
    /\ fetches \in Seq({"asked", "answered", "failed"})
    /\ upload \in [Uploads -> {"none", "encrypting", "broken", "connecting", "offering", "posted",
                               "short", "renewing", "failed", "done"}]
    /\ tmpFile \in [Uploads -> {"none", "there", "removed"}]
    /\ encrypted \in [Uploads -> 0..Pieces] /\ flushed \in [Uploads -> 0..Pieces]
    /\ fetch \in [Uploads -> Nat] /\ auth \in [Uploads -> Nat] /\ host \in [Uploads -> Nat]
    /\ refusedAt \in [Uploads -> Int]
    /\ mediaConn \in Nat /\ mediaConnPromise \in Nat /\ expired \in BOOLEAN

\* An upload that was refused waits for the fetch made then, or has seen it.
RenewedRight(u) ==
    /\ upload[u] \in {"none", "encrypting", "broken", "connecting"} => refusedAt[u] = NotRefused
    /\ upload[u] = "renewing" =>
          fetch[u] = refusedAt[u] + 1 /\ refusedAt[u] \in Nat /\ fetch[u] \in 1..Len(fetches)
    /\ upload[u] \in {"offering", "posted", "short"} /\ refusedAt[u] # NotRefused =>
          /\ refusedAt[u] \in Nat /\ refusedAt[u] + 1 \in 1..Len(fetches)
          /\ auth[u] > refusedAt[u] \/ fetches[refusedAt[u] + 1] = "failed"

FileRight(u) ==
    /\ flushed[u] <= encrypted[u]
    /\ upload[u] = "posted" => tmpFile[u] = "there" /\ flushed[u] = Pieces
    /\ upload[u] = "done" => tmpFile[u] = "removed" /\ flushed[u] = Pieces

UploadInv ==
    /\ UploadTypeOK
    /\ \A u \in Uploads : RenewedRight(u)
    /\ \A u \in Uploads : FileRight(u)

LEMMA UploadsInitiallyRight == UploadInit => UploadInv
<1> SUFFICES ASSUME UploadInit PROVE UploadInv
    OBVIOUS
<1>1. fetches = <<>> /\ mediaConn \in Nat /\ mediaConnPromise \in Nat
    BY DEF UploadInit
<1>0. expired \in BOOLEAN
    BY DEF UploadInit
<1>2. /\ upload = [u \in Uploads |-> "none"] /\ tmpFile = [u \in Uploads |-> "none"]
      /\ refusedAt = [u \in Uploads |-> NotRefused]
    BY DEF UploadInit
<1>3. /\ encrypted = [u \in Uploads |-> 0] /\ flushed = [u \in Uploads |-> 0]
      /\ fetch = [u \in Uploads |-> 0] /\ auth = [u \in Uploads |-> 0] /\ host = [u \in Uploads |-> 0]
    BY DEF UploadInit
<1>4. encrypted \in [Uploads -> 0..Pieces] /\ flushed \in [Uploads -> 0..Pieces]
    BY <1>3, UploadAssumption
<1>5. UploadTypeOK
    BY <1>0, <1>1, <1>2, <1>3, <1>4 DEF UploadTypeOK, NotRefused
<1>6. ASSUME NEW u \in Uploads PROVE RenewedRight(u) /\ FileRight(u)
    <2>1. upload[u] = "none" /\ refusedAt[u] = NotRefused /\ flushed[u] = 0 /\ encrypted[u] = 0
        BY <1>2, <1>3
    <2> QED BY <2>1 DEF RenewedRight, FileRight
<1> QED BY <1>5, <1>6 DEF UploadInv

\* A fetch that ended stays as it ended, and none is forgotten.
FetchesKept ==
    /\ Len(fetches') >= Len(fetches) /\ Len(fetches) \in Nat /\ Len(fetches') \in Nat
    /\ fetches' \in Seq({"asked", "answered", "failed"})
    /\ \A f \in 1..Len(fetches) : fetches[f] # "asked" => fetches'[f] = fetches[f]

\* What an upload is promised is still so after a step of others.
LEMMA OthersKept ==
    ASSUME UploadInv, FetchesKept, NEW u \in Uploads, RenewedRight(u),
           upload'[u] = upload[u], refusedAt'[u] = refusedAt[u], fetch'[u] = fetch[u], auth'[u] = auth[u]
    PROVE  RenewedRight(u)'
BY DEF FetchesKept, RenewedRight

LEMMA FilesKept ==
    ASSUME NEW u \in Uploads, FileRight(u),
           upload'[u] = upload[u], tmpFile'[u] = tmpFile[u], encrypted'[u] = encrypted[u], flushed'[u] = flushed[u]
    PROVE  FileRight(u)'
BY DEF FileRight

\* refreshMediaConn makes a fetch or none, and keeps those that there are.
LEMMA RefreshKeeps ==
    ASSUME UploadInv, NEW u \in Uploads, NEW force \in BOOLEAN, RefreshMediaConn(u, force)
    PROVE  /\ FetchesKept /\ mediaConnPromise' \in Nat
           /\ fetch' \in [Uploads -> Nat] /\ auth' \in [Uploads -> Nat]
           /\ \A v \in Uploads : v # u => fetch'[v] = fetch[v] /\ auth'[v] = auth[v]
           /\ force => fetch'[u] = Len(fetches) + 1 /\ Len(fetches') = Len(fetches) + 1
<1> USE DEF UploadInv
<1>1. fetches \in Seq({"asked", "answered", "failed"}) /\ Len(fetches) \in Nat
    BY DEF UploadTypeOK
<1>2. CASE mediaConn = 0 \/ force \/ expired
    <2>1. fetch' = [fetch EXCEPT ![u] = mediaConnPromise'] /\ UNCHANGED auth
        BY <1>2 DEF RefreshMediaConn
    <2>2. CASE mediaConnPromise = 0 \/ force
        <3>1. fetches' = Append(fetches, "asked") /\ mediaConnPromise' = Len(fetches')
            BY <1>2, <2>2 DEF RefreshMediaConn
        <3>2. /\ Len(fetches') = Len(fetches) + 1 /\ fetches' \in Seq({"asked", "answered", "failed"})
              /\ \A f \in 1..Len(fetches) : fetches'[f] = fetches[f]
            BY <1>1, <3>1
        <3> QED BY <1>1, <2>1, <3>1, <3>2 DEF UploadTypeOK, FetchesKept
    <2>3. CASE ~(mediaConnPromise = 0 \/ force)
        <3>1. UNCHANGED <<fetches, mediaConnPromise>>
            BY <1>2, <2>3 DEF RefreshMediaConn
        <3> QED BY <1>1, <2>1, <2>3, <3>1 DEF UploadTypeOK, FetchesKept
    <2> QED BY <2>2, <2>3
<1>3. CASE ~(mediaConn = 0 \/ force \/ expired)
    <2>1. auth' = [auth EXCEPT ![u] = mediaConn] /\ UNCHANGED <<fetches, mediaConnPromise, fetch>>
        BY <1>3 DEF RefreshMediaConn
    <2> QED BY <1>1, <1>3, <2>1 DEF UploadTypeOK, FetchesKept
<1> QED BY <1>2, <1>3

LEMMA StepRenews == UploadInv /\ [UploadNext]_uploadVars => UploadInv'
<1> SUFFICES ASSUME UploadInv, [UploadNext]_uploadVars PROVE UploadInv'
    OBVIOUS
<1> USE DEF UploadInv
<1>t. UploadTypeOK /\ (\A u \in Uploads : RenewedRight(u)) /\ \A u \in Uploads : FileRight(u)
    OBVIOUS
<1>f. fetches \in Seq({"asked", "answered", "failed"}) /\ Len(fetches) \in Nat
    BY DEF UploadTypeOK
<1>s. UNCHANGED fetches => FetchesKept
    BY <1>f DEF FetchesKept
<1>0. CASE UNCHANGED uploadVars
    BY <1>0 DEF uploadVars, UploadTypeOK, RenewedRight, FileRight
\* Steps of the file.
<1>1. ASSUME NEW u \in Uploads, Encrypts(u) \/ EncryptsPiece(u) \/ SourceFails(u) PROVE UploadInv'
    <2>1. UploadTypeOK'
        <3>1. CASE Encrypts(u)
            BY <3>1 DEF Encrypts, Moves, mediaConnVars, fileVars, UploadTypeOK
        <3>2. CASE EncryptsPiece(u)
            <4>1. encrypted[u] + 1 \in 0..Pieces
                BY <3>2, UploadAssumption DEF EncryptsPiece, UploadTypeOK
            <4> QED BY <3>2, <4>1 DEF EncryptsPiece, mediaConnVars, UploadTypeOK
        <3>3. CASE SourceFails(u)
            <4>1. PICK to \in {"none", "there", "removed"} : tmpFile' = [tmpFile EXCEPT ![u] = to]
                BY <3>3 DEF SourceFails, UploadTypeOK
            <4> QED BY <3>3, <4>1 DEF SourceFails, Moves, mediaConnVars, UploadTypeOK
        <3> QED BY <1>1, <3>1, <3>2, <3>3
    <2>2. UNCHANGED <<fetches, fetch, auth, refusedAt>> /\ \A v \in Uploads : v # u => upload'[v] = upload[v]
        BY <1>1 DEF Encrypts, EncryptsPiece, SourceFails, Moves, mediaConnVars, UploadTypeOK
    <2>3. upload[u] \in {"none", "encrypting"} /\ upload'[u] \in {"encrypting", "broken"}
        BY <1>1 DEF Encrypts, EncryptsPiece, SourceFails, Moves, UploadTypeOK
    <2>4. RenewedRight(u)'
        BY <2>2, <2>3 DEF RenewedRight
    <2>5. FileRight(u)'
        BY <1>1, <2>3 DEF Encrypts, EncryptsPiece, SourceFails, fileVars, FileRight, UploadTypeOK
    <2>6. ASSUME NEW v \in Uploads, v # u PROVE RenewedRight(v)' /\ FileRight(v)'
        <3>1. RenewedRight(v)'
            BY <1>s, <2>2, <2>6, OthersKept
        <3>2. tmpFile'[v] = tmpFile[v] /\ encrypted'[v] = encrypted[v] /\ flushed'[v] = flushed[v]
            BY <1>1, <2>6 DEF Encrypts, EncryptsPiece, SourceFails, fileVars, UploadTypeOK
        <3> QED BY <2>2, <2>6, <3>1, <3>2, FilesKept
    <2> QED BY <2>1, <2>4, <2>5, <2>6
<1>2. ASSUME NEW u \in Uploads, Opened(u) \/ FlushesPiece(u) PROVE UploadInv'
    <2>1. UploadTypeOK'
        <3>1. CASE Opened(u)
            BY <3>1 DEF Opened, mediaConnVars, UploadTypeOK
        <3>2. CASE FlushesPiece(u)
            <4>1. flushed[u] + 1 \in 0..Pieces
                BY <3>2, UploadAssumption DEF FlushesPiece, UploadTypeOK
            <4> QED BY <3>2, <4>1 DEF FlushesPiece, mediaConnVars, UploadTypeOK
        <3> QED BY <1>2, <3>1, <3>2
    <2>2. UNCHANGED <<fetches, upload, fetch, auth, refusedAt, encrypted>>
        BY <1>2 DEF Opened, FlushesPiece, mediaConnVars
    <2>3. \A v \in Uploads : RenewedRight(v)'
        BY <2>2 DEF RenewedRight
    <2>4. \A v \in Uploads : FileRight(v)'
        BY <1>2, <2>2 DEF Opened, FlushesPiece, FileRight, UploadTypeOK
    <2> QED BY <2>1, <2>3, <2>4
\* Steps of the upload.
<1>3. ASSUME NEW u \in Uploads, EncryptionEnds(u) PROVE UploadInv'
    <2>1. RefreshMediaConn(u, FALSE) /\ upload[u] = "encrypting" /\ UNCHANGED <<mediaConn, expired, fileVars, refusedAt>>
        BY <1>3 DEF EncryptionEnds
    <2>2. PICK to \in {"connecting", "offering"} : upload' = [upload EXCEPT ![u] = to]
        BY <1>3 DEF EncryptionEnds, Moves
    <2>3. host' \in [Uploads -> Nat]
        <3>1. PICK n \in Nat : host' = host \/ host' = [host EXCEPT ![u] = n]
            BY <1>3 DEF EncryptionEnds
        <3>2. host \in [Uploads -> Nat]
            BY DEF UploadTypeOK
        <3> QED BY <3>1, <3>2
    <2>4. UploadTypeOK'
        BY <2>1, <2>2, <2>3, RefreshKeeps DEF UploadTypeOK, FetchesKept, fileVars
    <2>5. \A v \in Uploads : RenewedRight(v)'
        <3>1. /\ refusedAt' = refusedAt /\ FetchesKept
              /\ \A v \in Uploads : v # u => upload'[v] = upload[v] /\ fetch'[v] = fetch[v] /\ auth'[v] = auth[v]
            BY <2>1, <2>2, RefreshKeeps DEF UploadTypeOK
        <3>2. ASSUME NEW v \in Uploads, v # u PROVE RenewedRight(v)'
            BY <3>1, <3>2, OthersKept DEF UploadInv
        <3>3. upload'[u] \in {"connecting", "offering"} /\ refusedAt'[u] = NotRefused
            BY <2>1, <2>2, <3>1 DEF UploadInv, UploadTypeOK, RenewedRight
        <3>4. RenewedRight(u)'
            BY <3>3 DEF RenewedRight
        <3> QED BY <3>2, <3>4
    <2>6. \A v \in Uploads : FileRight(v)'
        BY <2>1, <2>2 DEF FileRight, fileVars, UploadTypeOK
    <2> QED BY <2>4, <2>5, <2>6
<1>4. ASSUME NEW u \in Uploads, Connected(u) PROVE UploadInv'
    <2>1. UNCHANGED <<mediaConnVars, fileVars, refusedAt>> /\ upload[u] = "connecting"
          /\ fetch' = [fetch EXCEPT ![u] = 0] /\ auth' \in {auth, [auth EXCEPT ![u] = fetch[u]]}
        BY <1>4 DEF Connected
    <2>2. PICK to \in {"offering", "failed"} : upload' = [upload EXCEPT ![u] = to]
        BY <1>4 DEF Connected, Moves
    <2>3. host' \in [Uploads -> Nat]
        <3>1. PICK n \in Nat : host' = host \/ host' = [host EXCEPT ![u] = n]
            BY <1>4 DEF Connected
        <3>2. host \in [Uploads -> Nat]
            BY DEF UploadTypeOK
        <3> QED BY <3>1, <3>2
    <2>4. UploadTypeOK'
        BY <2>1, <2>2, <2>3 DEF UploadTypeOK, mediaConnVars, fileVars
    <2>5. \A v \in Uploads : v # u => auth'[v] = auth[v] /\ fetch'[v] = fetch[v] /\ upload'[v] = upload[v]
        BY <2>1, <2>2 DEF UploadTypeOK
    <2>6. \A v \in Uploads : RenewedRight(v)'
        <3>1. ASSUME NEW v \in Uploads, v # u PROVE RenewedRight(v)'
            <4>1. FetchesKept /\ RenewedRight(v) /\ refusedAt' = refusedAt
                BY <1>s, <2>1 DEF mediaConnVars
            <4> QED BY <2>5, <3>1, <4>1, OthersKept
        <3>2. RenewedRight(u)'
            <4>1. refusedAt'[u] = NotRefused /\ upload'[u] = to
                BY <2>1, <2>2 DEF RenewedRight, UploadTypeOK
            <4> QED BY <4>1 DEF RenewedRight
        <3> QED BY <3>1, <3>2
    <2>7. \A v \in Uploads : FileRight(v)'
        BY <2>1, <2>2 DEF FileRight, fileVars, UploadTypeOK
    <2> QED BY <2>4, <2>6, <2>7
<1>5. ASSUME NEW u \in Uploads, Offers(u) PROVE UploadInv'
    <2>1. UNCHANGED <<mediaConnVars, fileVars, fetch, auth, host, refusedAt>> /\ upload[u] = "offering" /\ tmpFile[u] = "there"
        BY <1>5 DEF Offers
    <2>2. PICK to \in {"posted", "short"} : upload' = [upload EXCEPT ![u] = to] /\ (to = "posted" => flushed[u] = Pieces)
        BY <1>5 DEF Offers, Moves
    <2>3. UploadTypeOK'
        BY <2>1, <2>2 DEF UploadTypeOK, mediaConnVars, fileVars
    <2>4. \A v \in Uploads : RenewedRight(v)'
        BY <2>1, <2>2 DEF RenewedRight, UploadTypeOK, mediaConnVars
    <2>5. \A v \in Uploads : FileRight(v)'
        BY <2>1, <2>2 DEF FileRight, fileVars, UploadTypeOK
    <2> QED BY <2>3, <2>4, <2>5
<1>6. ASSUME NEW u \in Uploads, HostFails(u) PROVE UploadInv'
    <2>1. UNCHANGED <<mediaConnVars, fileVars, fetch, auth, refusedAt>> /\ upload[u] \in {"offering", "posted", "short"}
        BY <1>6 DEF HostFails
    <2>2. PICK to \in {"offering", "failed"} : upload' = [upload EXCEPT ![u] = to]
        BY <1>6 DEF HostFails, NextHost, Moves
    <2>3. host' \in [Uploads -> Nat]
        <3>1. host' \in {host, [host EXCEPT ![u] = host[u] + 1]}
            BY <1>6 DEF HostFails, NextHost
        <3>2. host[u] + 1 \in Nat
            BY DEF UploadTypeOK
        <3> QED BY <3>1, <3>2 DEF UploadTypeOK
    <2>4. UploadTypeOK'
        BY <2>1, <2>2, <2>3 DEF UploadTypeOK, mediaConnVars, fileVars
    <2>5. \A v \in Uploads : RenewedRight(v)'
        BY <2>1, <2>2 DEF RenewedRight, UploadTypeOK, mediaConnVars
    <2>6. \A v \in Uploads : FileRight(v)'
        BY <2>1, <2>2 DEF FileRight, fileVars, UploadTypeOK
    <2> QED BY <2>4, <2>5, <2>6
<1>7. ASSUME NEW u \in Uploads, HostTakes(u) PROVE UploadInv'
    <2>1. /\ UNCHANGED <<mediaConnVars, encrypted, flushed, fetch, auth, host, refusedAt>> /\ upload[u] = "posted"
          /\ upload' = [upload EXCEPT ![u] = "done"] /\ tmpFile' = [tmpFile EXCEPT ![u] = "removed"]
        BY <1>7 DEF HostTakes, Moves
    <2>2. UploadTypeOK'
        BY <2>1 DEF UploadTypeOK, mediaConnVars
    <2>3. \A v \in Uploads : RenewedRight(v)'
        BY <2>1 DEF RenewedRight, UploadTypeOK, mediaConnVars
    <2>4. \A v \in Uploads : FileRight(v)'
        BY <2>1 DEF FileRight, UploadTypeOK
    <2> QED BY <2>2, <2>3, <2>4
\* A refusal makes the fetch that the upload then waits for.
<1>8. ASSUME NEW u \in Uploads, HostRefuses(u) PROVE UploadInv'
    <2>1. /\ RefreshMediaConn(u, TRUE) /\ upload[u] \in {"posted", "short"} /\ UNCHANGED <<mediaConn, expired, fileVars, host>>
          /\ upload' = [upload EXCEPT ![u] = "renewing"] /\ refusedAt' = [refusedAt EXCEPT ![u] = Len(fetches)]
        BY <1>8 DEF HostRefuses, Moves
    <2>r. /\ FetchesKept /\ mediaConnPromise' \in Nat
          /\ fetch' \in [Uploads -> Nat] /\ auth' \in [Uploads -> Nat]
          /\ \A v \in Uploads : v # u => fetch'[v] = fetch[v] /\ auth'[v] = auth[v]
          /\ fetch'[u] = Len(fetches) + 1 /\ Len(fetches') = Len(fetches) + 1
        BY <2>1, RefreshKeeps
    <2>2. UploadTypeOK'
        <3>1. refusedAt' \in [Uploads -> Int]
            BY <1>f, <2>1 DEF UploadTypeOK
        <3>2. upload' \in [Uploads -> {"none", "encrypting", "broken", "connecting", "offering", "posted",
                                       "short", "renewing", "failed", "done"}]
            BY <2>1 DEF UploadTypeOK
        <3>3. fetches' \in Seq({"asked", "answered", "failed"})
            BY <2>r DEF FetchesKept
        <3>4. UNCHANGED <<mediaConn, expired, tmpFile, encrypted, flushed, host>>
            BY <2>1 DEF fileVars
        <3> QED BY <2>r, <3>1, <3>2, <3>3, <3>4 DEF UploadTypeOK
    <2>3. RenewedRight(u)'
        <3>1. upload'[u] = "renewing" /\ refusedAt'[u] = Len(fetches)
            BY <2>1 DEF UploadTypeOK
        <3> QED BY <1>f, <2>r, <3>1 DEF RenewedRight
    <2>4. \A v \in Uploads : v # u => RenewedRight(v)'
        BY <2>1, <2>r, OthersKept DEF UploadTypeOK
    <2>5. \A v \in Uploads : FileRight(v)'
        BY <2>1 DEF FileRight, fileVars, UploadTypeOK
    <2> QED BY <2>2, <2>3, <2>4, <2>5
<1>9. ASSUME NEW u \in Uploads, Renewed(u) PROVE UploadInv'
    <2>1. /\ UNCHANGED <<mediaConnVars, fileVars, refusedAt>> /\ upload[u] = "renewing" /\ fetches[fetch[u]] # "asked"
          /\ fetch' = [fetch EXCEPT ![u] = 0]
          /\ auth' = [auth EXCEPT ![u] = IF fetches[fetch[u]] = "answered" THEN fetch[u] ELSE @]
        BY <1>9 DEF Renewed
    <2>2. PICK to \in {"offering", "failed"} : upload' = [upload EXCEPT ![u] = to]
        BY <1>9 DEF Renewed, NextHost, Moves
    <2>3. host' \in [Uploads -> Nat]
        <3>1. host' \in {host, [host EXCEPT ![u] = host[u] + 1]}
            BY <1>9 DEF Renewed, NextHost
        <3>2. host[u] + 1 \in Nat
            BY DEF UploadTypeOK
        <3> QED BY <3>1, <3>2 DEF UploadTypeOK
    <2>4. UploadTypeOK'
        BY <2>1, <2>2, <2>3 DEF UploadTypeOK, mediaConnVars, fileVars
    <2>5. RenewedRight(u)'
        <3>1. fetch[u] = refusedAt[u] + 1 /\ refusedAt[u] \in Nat /\ fetch[u] \in 1..Len(fetches)
            BY <2>1 DEF RenewedRight
        <3>2. fetches[fetch[u]] \in {"answered", "failed"}
            BY <1>f, <2>1, <3>1
        <3>3. auth'[u] > refusedAt'[u] \/ fetches'[refusedAt'[u] + 1] = "failed"
            BY <2>1, <3>1, <3>2 DEF mediaConnVars, UploadTypeOK
        <3> QED BY <2>1, <2>2, <3>1, <3>3 DEF RenewedRight, mediaConnVars, UploadTypeOK
    <2>6. \A v \in Uploads : v # u => auth'[v] = auth[v] /\ fetch'[v] = fetch[v] /\ upload'[v] = upload[v]
        BY <2>1, <2>2 DEF UploadTypeOK
    <2>7. \A v \in Uploads : v # u => RenewedRight(v)'
        BY <1>s, <2>1, <2>6, OthersKept DEF mediaConnVars
    <2>8. \A v \in Uploads : FileRight(v)'
        BY <2>1, <2>2 DEF FileRight, fileVars, UploadTypeOK
    <2> QED BY <2>4, <2>5, <2>7, <2>8
\* Steps of the media connection.
<1>10. ASSUME NEW f \in DOMAIN fetches, NEW ok \in BOOLEAN, FetchEnds(f, ok) PROVE UploadInv'
    <2>1. PICK how \in {"answered", "failed"} : fetches' = [fetches EXCEPT ![f] = how]
        BY <1>10 DEF FetchEnds
    <2>2. fetches[f] = "asked" /\ UNCHANGED <<mediaConnPromise, upload, fileVars, fetch, auth, host, refusedAt>>
          /\ mediaConn' \in {mediaConn, f} /\ expired' \in BOOLEAN
        BY <1>10 DEF FetchEnds, UploadTypeOK
    <2>3. FetchesKept /\ f \in Nat
        BY <1>f, <2>1, <2>2 DEF FetchesKept
    <2>4. UploadTypeOK'
        BY <2>2, <2>3 DEF UploadTypeOK, FetchesKept, fileVars
    <2>5. \A v \in Uploads : RenewedRight(v)'
        BY <2>2, <2>3, OthersKept
    <2>6. \A v \in Uploads : FileRight(v)'
        BY <2>2 DEF FileRight, fileVars
    <2> QED BY <2>4, <2>5, <2>6
<1>11. CASE Expires
    BY <1>11 DEF Expires, fileVars, UploadTypeOK, RenewedRight, FileRight
<1> QED
    BY <1>0, <1>1, <1>2, <1>3, <1>4, <1>5, <1>6, <1>7, <1>8, <1>9, <1>10, <1>11 DEF UploadNext

\* A refused upload has, at the next host, an authorization that was asked for
\* after the refusal, unless that fetch failed; what is done was whole, and leaves
\* no file.
THEOREM UploadsAreRenewed == UploadSpec => []UploadsRenewed
<1>1. UploadInv => UploadsRenewed
    BY DEF UploadInv, UploadsRenewed, RenewedRight, FileRight
<1> QED BY UploadsInitiallyRight, StepRenews, <1>1, PTL DEF UploadSpec
-----------------------------------------------------------------------------
(***************************************************************************)
(* Relays, for any number of them, of chats and of devices.  The mutex of  *)
(* the chat leaves the relays before one that has begun ended; so two that *)
(* wait for one encryption are of two chats, and what goes out of a chat   *)
(* has the newest iteration of its group.                                  *)
(***************************************************************************)
RelayStates == {"idle", "queued", "listing", "asserting", "encrypting"} \cup Ended
HasBegun(r) == relay[r] \notin {"idle", "queued"}
Active(r) == relay[r] \in {"listing", "asserting", "encrypting"}
Chats == {ChatOf[r] : r \in Relays}
Outgoing == [of : Relays, enc : UNION {[DevicesOf[r] -> Nat] : r \in Relays}, iteration : Nat]

SendTyped ==
    /\ relayQueue \in Seq(Relays) /\ relay \in [Relays -> RelayStates]
    /\ inflight \in [Encryptions -> SUBSET Relays]
    /\ made \in Nat /\ iteration \in [Chats -> Nat]
    /\ DOMAIN enc = Relays /\ \A r \in Relays : enc[r] \in [DevicesOf[r] -> Nat]
    /\ outgoing \in Seq(Outgoing)

\* Who has been called is in the queue, once.
QueuedOnce ==
    /\ \A r \in Relays : relay[r] # "idle" => \E i \in DOMAIN relayQueue : relayQueue[i] = r
    /\ \A i \in DOMAIN relayQueue : relay[relayQueue[i]] # "idle"
    /\ \A i, k \in DOMAIN relayQueue : relayQueue[i] = relayQueue[k] => i = k

TurnsTaken ==
    \A r, s \in Relays : HasBegun(r) /\ ChatOf[s] = ChatOf[r] /\ Before(s, r) => relay[s] \in Ended

\* A relay waits for a device until it has its ciphertext, and then no more.
WaitsOnce ==
    /\ \A e \in Encryptions : \A r \in inflight[e] :
          /\ e[1] \in DevicesOf[r] /\ e[2] = BytesOf[r] /\ enc[r][e[1]] = NoCipher
          /\ relay[r] \in {"encrypting", "failed"}
    /\ \A r \in Relays : \A d \in DevicesOf[r] :
          /\ enc[r][d] <= made
          /\ enc[r][d] # NoCipher => HasBegun(r) /\ relay[r] \notin {"listing", "asserting"}
          /\ relay[r] = "sent" => enc[r][d] # NoCipher

Live(r) == relay[r] \in {"encrypting", "sent"}

CiphersApart ==
    \A r, s \in Relays : \A d \in DevicesOf[r] \cap DevicesOf[s] :
        r # s /\ Live(r) /\ Live(s) /\ enc[r][d] # NoCipher /\ enc[r][d] = enc[s][d] =>
            ChatOf[r] # ChatOf[s] /\ BytesOf[r] = BytesOf[s]

\* What went out is what the relay got, of a relay that is done.
OutgoingRight ==
    /\ \A i \in DOMAIN outgoing :
          /\ relay[outgoing[i].of] = "sent" /\ outgoing[i].enc = enc[outgoing[i].of]
          /\ outgoing[i].iteration <= iteration[ChatOf[outgoing[i].of]]
    /\ \A i, k \in DOMAIN outgoing : outgoing[i].of = outgoing[k].of => i = k

IterationsNew ==
    \A r \in Relays : \A i \in DOMAIN outgoing :
        Active(r) /\ ChatOf[r] \in Groups /\ ChatOf[outgoing[i].of] = ChatOf[r] =>
            outgoing[i].iteration < iteration[ChatOf[r]]

SendInv ==
    /\ SendTyped /\ QueuedOnce /\ TurnsTaken /\ WaitsOnce
    /\ CiphersApart /\ OutgoingRight /\ IterationsNew /\ SendsInOrder

LEMMA SendInitially == SendInit => SendInv
<1> SUFFICES ASSUME SendInit PROVE SendInv
    OBVIOUS
<1>1. \A r \in Relays : relay[r] = "idle" /\ \A d \in DevicesOf[r] : enc[r][d] = 0
    BY DEF SendInit, NoCipher
<1>2. SendTyped
    BY DEF SendInit, SendTyped, RelayStates, NoCipher, Chats
<1>3. QueuedOnce /\ TurnsTaken /\ CiphersApart /\ OutgoingRight /\ IterationsNew /\ SendsInOrder
    BY <1>1 DEF SendInit, QueuedOnce, TurnsTaken, HasBegun, CiphersApart, Live, OutgoingRight, IterationsNew, SendsInOrder
<1>4. WaitsOnce
    <2>1. \A e \in Encryptions : inflight[e] = {}
        BY DEF SendInit
    <2> QED BY <1>1, <1>2, <2>1 DEF WaitsOnce, NoCipher, SendInit
<1> QED BY <1>2, <1>3, <1>4 DEF SendInv

\* Two of one chat are never active together.
LEMMA OneOfAChat ==
    ASSUME SendInv, NEW r \in Relays, NEW s \in Relays, HasBegun(r), HasBegun(s), ChatOf[r] = ChatOf[s], r # s
    PROVE  relay[r] \in Ended \/ relay[s] \in Ended
<1>1. PICK i \in DOMAIN relayQueue, k \in DOMAIN relayQueue : relayQueue[i] = r /\ relayQueue[k] = s
    BY DEF SendInv, QueuedOnce, HasBegun
<1>2. i \in Nat /\ k \in Nat /\ i # k
    BY <1>1 DEF SendInv, SendTyped
<1>3. Before(r, s) \/ Before(s, r)
    BY <1>1, <1>2 DEF Before
<1> QED BY <1>3 DEF SendInv, TurnsTaken

\* A step of one relay that calls nobody.
LEMMA GoesOn ==
    ASSUME SendInv, NEW r \in Relays, NEW to \in RelayStates \ {"idle", "queued"}, Goes(r, to), UNCHANGED relayQueue,
           relay[r] \notin {"idle"} \cup Ended,
           relay[r] = "queued" => \A s \in Relays : ChatOf[s] = ChatOf[r] /\ Before(s, r) => relay[s] \in Ended
    PROVE  /\ relay' \in [Relays -> RelayStates] /\ relay'[r] = to /\ \A s \in Relays : s # r => relay'[s] = relay[s]
           /\ QueuedOnce' /\ TurnsTaken'
<1>1. /\ relay' \in [Relays -> RelayStates] /\ relay'[r] = to /\ \A s \in Relays : s # r => relay'[s] = relay[s]
    BY DEF SendInv, SendTyped, Goes
<1>2. QueuedOnce'
    <2>1. \A i \in DOMAIN relayQueue : relayQueue[i] \in Relays
        BY DEF SendInv, SendTyped
    <2> QED BY <1>1, <2>1 DEF SendInv, QueuedOnce
<1>3. \A s, q \in Relays : Before(s, q)' <=> Before(s, q)
    BY DEF Before
<1>4. TurnsTaken'
    <2>1. ASSUME NEW q \in Relays, NEW s \in Relays, HasBegun(q)', ChatOf[s] = ChatOf[q], Before(s, q)
          PROVE  relay'[s] \in Ended
        <3>1. relay[s] \in Ended
            <4>1. CASE HasBegun(q)
                BY <2>1, <4>1 DEF SendInv, TurnsTaken
            <4>2. CASE ~HasBegun(q)
                <5>1. q = r /\ relay[r] = "queued"
                    BY <1>1, <2>1, <4>2 DEF HasBegun
                <5> QED BY <2>1, <5>1
            <4> QED BY <4>1, <4>2
        <3> QED BY <1>1, <3>1
    <2> QED BY <1>3, <2>1 DEF TurnsTaken
<1> QED BY <1>1, <1>2, <1>4

LEMMA CallRelayKeeps ==
    ASSUME SendInv, NEW r \in Relays, CallRelay(r)
    PROVE  SendInv'
<1>1. /\ relay[r] = "idle" /\ relayQueue' = Append(relayQueue, r) /\ relay' = [relay EXCEPT ![r] = "queued"]
      /\ UNCHANGED <<inflight, made, enc, iteration, outgoing>>
    BY DEF CallRelay, Goes
<1>2. SendTyped /\ QueuedOnce /\ TurnsTaken /\ WaitsOnce /\ CiphersApart /\ OutgoingRight /\ IterationsNew /\ SendsInOrder
    BY DEF SendInv
<1>3. /\ relay' \in [Relays -> RelayStates] /\ relay'[r] = "queued" /\ \A s \in Relays : s # r => relay'[s] = relay[s]
      /\ relayQueue' \in Seq(Relays)
    BY <1>1, <1>2 DEF SendTyped, RelayStates
<1>4. SendTyped'
    BY <1>1, <1>2, <1>3 DEF SendTyped
<1>5. PICK n \in Nat : n = Len(relayQueue) /\ DOMAIN relayQueue = 1..n
    BY <1>2 DEF SendTyped
<1>6. /\ DOMAIN relayQueue' = 1..(n + 1) /\ relayQueue'[n + 1] = r
      /\ \A i \in 1..n : relayQueue'[i] = relayQueue[i] /\ relayQueue[i] \in Relays /\ relayQueue[i] # r
    <2>1. \A i \in 1..n : relayQueue[i] \in Relays /\ relay[relayQueue[i]] # "idle"
        BY <1>2, <1>5 DEF SendTyped, QueuedOnce
    <2> QED BY <1>1, <1>2, <1>5, <2>1 DEF SendTyped
<1>7. QueuedOnce'
    <2>1. \A s \in Relays : relay'[s] # "idle" => \E i \in 1..(n + 1) : relayQueue'[i] = s
        BY <1>2, <1>3, <1>5, <1>6 DEF QueuedOnce
    <2>2. \A i \in 1..(n + 1) : relay'[relayQueue'[i]] # "idle"
        BY <1>2, <1>3, <1>5, <1>6 DEF QueuedOnce
    <2>3. \A i, k \in 1..(n + 1) : relayQueue'[i] = relayQueue'[k] => i = k
        <3>1. \A i \in 1..(n + 1) : i \in 1..n \/ i = n + 1
            OBVIOUS
        <3> QED BY <1>2, <1>5, <1>6, <3>1 DEF QueuedOnce
    <2> QED BY <1>6, <2>1, <2>2, <2>3 DEF QueuedOnce
<1>8. \A s, q \in Relays : /\ q # r => (Before(s, q)' <=> Before(s, q))
                           /\ Before(s, q) => Before(s, q)'
    <2>1. \A i \in 1..(n + 1) : i \in 1..n \/ i = n + 1
        OBVIOUS
    <2>2. \A i \in 1..n : i \in 1..(n + 1) /\ i < n + 1
        OBVIOUS
    <2> QED BY <1>5, <1>6, <2>1, <2>2 DEF Before
<1>9. TurnsTaken'
    <2>1. ASSUME NEW q \in Relays, NEW s \in Relays, HasBegun(q)', ChatOf[s] = ChatOf[q], Before(s, q)'
          PROVE  relay'[s] \in Ended
        <3>1. q # r /\ HasBegun(q) /\ Before(s, q)
            BY <1>3, <1>8, <2>1 DEF HasBegun
        <3>2. relay[s] \in Ended
            BY <1>2, <2>1, <3>1 DEF TurnsTaken
        <3> QED BY <1>1, <1>3, <3>2 DEF Ended
    <2> QED BY <2>1 DEF TurnsTaken
<1>10. WaitsOnce' /\ CiphersApart' /\ IterationsNew'
    <2>1. \A s \in Relays : (HasBegun(s)' <=> HasBegun(s)) /\ (Live(s)' <=> Live(s)) /\ (Active(s)' <=> Active(s))
        BY <1>1, <1>3 DEF HasBegun, Live, Active
    <2>2. WaitsOnce'
        BY <1>1, <1>2, <1>3, <2>1 DEF WaitsOnce, SendTyped, HasBegun
    <2> QED BY <1>1, <1>2, <2>1, <2>2 DEF CiphersApart, IterationsNew
<1>11. OutgoingRight' /\ SendsInOrder'
    <2>1. \A i \in DOMAIN outgoing : outgoing[i].of \in Relays
        <3>1. \A i \in DOMAIN outgoing : outgoing[i] \in Outgoing
            BY <1>2 DEF SendTyped
        <3> QED BY <3>1 DEF Outgoing
    <2>2. OutgoingRight'
        BY <1>1, <1>2, <1>3, <2>1 DEF OutgoingRight
    <2> QED BY <1>1, <1>2, <1>8, <2>1, <2>2 DEF SendsInOrder
<1> QED BY <1>4, <1>7, <1>9, <1>10, <1>11 DEF SendInv

\* A step of one relay that neither encrypts nor sends.
LEMMA QuietStep ==
    ASSUME SendInv, NEW r \in Relays, NEW to \in {"listing", "asserting", "encrypting", "failed"}, Goes(r, to),
           UNCHANGED <<relayQueue, inflight, made, enc, outgoing>>,
           relay[r] \in {"queued", "listing", "asserting"},
           relay[r] = "queued" => Turn(r) /\ to = "listing",
           iteration' \in [Chats -> Nat],
           \A c \in Chats : IF relay[r] = "queued" /\ c = ChatOf[r] /\ c \in Groups
                            THEN iteration'[c] = iteration[c] + 1
                            ELSE iteration'[c] = iteration[c]
    PROVE  SendInv'
<1>1. SendTyped /\ QueuedOnce /\ TurnsTaken /\ WaitsOnce /\ CiphersApart /\ OutgoingRight /\ IterationsNew /\ SendsInOrder
    BY DEF SendInv
<1>2. /\ relay' \in [Relays -> RelayStates] /\ relay'[r] = to /\ \A s \in Relays : s # r => relay'[s] = relay[s]
      /\ QueuedOnce' /\ TurnsTaken'
    <2>1. to \in RelayStates \ {"idle", "queued"} /\ relay[r] \notin {"idle"} \cup Ended
        BY DEF RelayStates, Ended
    <2>2. relay[r] = "queued" => \A s \in Relays : ChatOf[s] = ChatOf[r] /\ Before(s, r) => relay[s] \in Ended
        BY DEF Turn
    <2> QED BY <2>1, <2>2, GoesOn
<1>3. SendTyped'
    BY <1>1, <1>2 DEF SendTyped
<1>4. \A d \in DevicesOf[r] : enc[r][d] = NoCipher
    BY <1>1 DEF WaitsOnce, HasBegun
<1>5. WaitsOnce'
    <2>1. \A e \in Encryptions : r \notin inflight[e]
        BY <1>1 DEF WaitsOnce
    <2>2. \A e \in Encryptions : inflight[e] \subseteq Relays
        BY <1>1 DEF SendTyped
    <2> QED BY <1>1, <1>2, <1>4, <2>1, <2>2 DEF WaitsOnce, HasBegun
<1>6. CiphersApart'
    BY <1>1, <1>2, <1>4 DEF CiphersApart, Live
<1>7. \A i \in DOMAIN outgoing : /\ outgoing[i].of \in Relays \ {r} /\ ChatOf[outgoing[i].of] \in Chats
                                 /\ outgoing[i].iteration \in Nat
    <2>1. \A i \in DOMAIN outgoing : outgoing[i] \in Outgoing
        BY <1>1 DEF SendTyped
    <2> QED BY <1>1, <2>1 DEF Outgoing, OutgoingRight, Chats
<1>8. iteration \in [Chats -> Nat] /\ \A q \in Relays : ChatOf[q] \in Chats
    BY <1>1 DEF SendTyped, Chats
<1>9. OutgoingRight'
    <2>1. \A i \in DOMAIN outgoing : outgoing[i].iteration <= iteration'[ChatOf[outgoing[i].of]]
        BY <1>1, <1>7, <1>8 DEF OutgoingRight
    <2> QED BY <1>1, <1>2, <1>7, <2>1 DEF OutgoingRight
<1>10. IterationsNew'
    <2>1. ASSUME NEW q \in Relays, NEW i \in DOMAIN outgoing, Active(q)', ChatOf[q] \in Groups,
                 ChatOf[outgoing[i].of] = ChatOf[q]
          PROVE  outgoing[i].iteration < iteration'[ChatOf[q]]
        <3>1. outgoing[i].iteration <= iteration[ChatOf[q]]
            BY <1>1, <2>1 DEF OutgoingRight
        <3>2. CASE Active(q)
            BY <1>1, <1>7, <1>8, <2>1, <3>2 DEF IterationsNew
        <3>3. CASE ~Active(q)
            BY <1>2, <1>7, <1>8, <2>1, <3>1, <3>3 DEF Active
        <3> QED BY <3>2, <3>3
    <2> QED BY <2>1 DEF IterationsNew
<1>11. SendsInOrder'
    BY <1>1 DEF SendsInOrder, Before
<1> QED BY <1>2, <1>3, <1>5, <1>6, <1>9, <1>10, <1>11 DEF SendInv

LEMMA StartKeeps ==
    ASSUME SendInv, NEW r \in Relays, StartRelay(r)
    PROVE  SendInv'
<1>1. iteration \in [Chats -> Nat] /\ ChatOf[r] \in Chats
    BY DEF SendInv, SendTyped, Chats
<1>2. /\ Turn(r) /\ relay[r] = "queued" /\ Goes(r, "listing")
      /\ UNCHANGED <<relayQueue, inflight, made, enc, outgoing>>
      /\ iteration' = IF ChatOf[r] \in Groups THEN [iteration EXCEPT ![ChatOf[r]] = @ + 1] ELSE iteration
    BY DEF StartRelay, Turn
<1>3. /\ iteration' \in [Chats -> Nat]
      /\ \A c \in Chats : IF c = ChatOf[r] /\ c \in Groups THEN iteration'[c] = iteration[c] + 1
                                                           ELSE iteration'[c] = iteration[c]
    BY <1>1, <1>2
<1> QED BY <1>2, <1>3, QuietStep

LEMMA ListedKeeps ==
    ASSUME SendInv, NEW r \in Relays, Listed(r) \/ RelayFails(r)
    PROVE  SendInv'
<1>1. PICK to \in {"asserting", "encrypting", "failed"} :
         /\ Goes(r, to) /\ relay[r] \in {"listing", "asserting"}
         /\ UNCHANGED <<relayQueue, inflight, made, enc, iteration, outgoing>>
    BY DEF Listed, RelayFails
<1>2. iteration' \in [Chats -> Nat]
    BY <1>1 DEF SendInv, SendTyped
<1> QED BY <1>1, <1>2, QuietStep

\* The encryptions begin: for no device of it the relay waited before.
LEMMA FetchedKeeps ==
    ASSUME SendInv, NEW r \in Relays, NEW injected \in SUBSET DevicesOf[r], SessionsFetched(r, injected)
    PROVE  SendInv'
<1>1. SendTyped /\ QueuedOnce /\ TurnsTaken /\ WaitsOnce /\ CiphersApart /\ OutgoingRight /\ IterationsNew /\ SendsInOrder
    BY DEF SendInv
<1>2. relay[r] = "asserting" /\ UNCHANGED <<relayQueue, made, enc, iteration, outgoing>>
    BY DEF SessionsFetched
<1>3. CASE Goes(r, "failed") /\ UNCHANGED inflight
    <2>1. iteration' \in [Chats -> Nat]
        BY <1>1, <1>2 DEF SendTyped
    <2> QED BY <1>2, <1>3, <2>1, QuietStep
<1>4. CASE /\ Goes(r, "encrypting")
           /\ inflight' = [e \in Encryptions |->
                 IF e[1] \in DevicesOf[r] /\ e[2] = BytesOf[r] THEN inflight[e] \cup {r} ELSE inflight[e]]
    <2>1. /\ relay' \in [Relays -> RelayStates] /\ relay'[r] = "encrypting" /\ \A s \in Relays : s # r => relay'[s] = relay[s]
          /\ QueuedOnce' /\ TurnsTaken'
        <3>1. "encrypting" \in RelayStates \ {"idle", "queued"} /\ relay[r] \notin {"idle"} \cup Ended
            BY <1>2 DEF RelayStates, Ended
        <3> QED BY <1>2, <1>4, <3>1, GoesOn
    <2>2. SendTyped'
        BY <1>1, <1>2, <1>4, <2>1 DEF SendTyped
    <2>3. \A d \in DevicesOf[r] : enc[r][d] = NoCipher
        BY <1>1, <1>2 DEF WaitsOnce
    <2>4. WaitsOnce'
        <3>1. ASSUME NEW e \in Encryptions, NEW s \in inflight'[e]
              PROVE  /\ e[1] \in DevicesOf[s] /\ e[2] = BytesOf[s] /\ enc[s][e[1]] = NoCipher
                     /\ relay'[s] \in {"encrypting", "failed"}
            <4>1. CASE s = r
                <5>1. r \notin inflight[e]
                    BY <1>1, <1>2 DEF WaitsOnce
                <5> QED BY <1>4, <2>1, <2>3, <3>1, <4>1, <5>1
            <4>2. CASE s # r
                <5>1. s \in inflight[e] /\ s \in Relays
                    BY <1>1, <1>4, <3>1, <4>2 DEF SendTyped
                <5> QED BY <1>1, <2>1, <4>2, <5>1 DEF WaitsOnce
            <4> QED BY <4>1, <4>2
        <3>2. \A s \in Relays : \A d \in DevicesOf[s] :
                  /\ enc[s][d] <= made
                  /\ enc[s][d] # NoCipher => HasBegun(s)' /\ relay'[s] \notin {"listing", "asserting"}
                  /\ relay'[s] = "sent" => enc[s][d] # NoCipher
            BY <1>1, <2>1, <2>3 DEF WaitsOnce, HasBegun
        <3> QED BY <1>2, <3>1, <3>2 DEF WaitsOnce
    <2>5. CiphersApart'
        BY <1>1, <1>2, <2>1, <2>3 DEF CiphersApart, Live
    <2>6. \A i \in DOMAIN outgoing : outgoing[i].of \in Relays \ {r}
        <3>1. \A i \in DOMAIN outgoing : outgoing[i] \in Outgoing
            BY <1>1 DEF SendTyped
        <3> QED BY <1>1, <1>2, <3>1 DEF Outgoing, OutgoingRight
    <2>7. OutgoingRight' /\ SendsInOrder'
        BY <1>1, <1>2, <2>1, <2>6 DEF OutgoingRight, SendsInOrder, Before
    <2>8. IterationsNew'
        <3>1. \A q \in Relays : Active(q)' => Active(q)
            BY <1>2, <2>1 DEF Active
        <3> QED BY <1>1, <1>2, <3>1 DEF IterationsNew
    <2> QED BY <2>1, <2>2, <2>4, <2>5, <2>7, <2>8 DEF SendInv
<1> QED BY <1>3, <1>4 DEF SessionsFetched

\* One ciphertext for all that wait: they are of different chats.
LEMMA EncryptedKeeps ==
    ASSUME SendInv, NEW e \in Encryptions, Encrypted1(e)
    PROVE  SendInv'
<1>1. SendTyped /\ QueuedOnce /\ TurnsTaken /\ WaitsOnce /\ CiphersApart /\ OutgoingRight /\ IterationsNew /\ SendsInOrder
    BY DEF SendInv
<1>2. /\ made' = made + 1
      /\ enc' = [r \in Relays |-> [d \in DevicesOf[r] |->
                   IF r \in inflight[e] /\ d = e[1] THEN made + 1 ELSE enc[r][d]]]
      /\ inflight' = [inflight EXCEPT ![e] = {}]
      /\ UNCHANGED <<relayQueue, relay, iteration, outgoing>>
    BY DEF Encrypted1, Delivered
<1>3. made \in Nat /\ \A r \in Relays : \A d \in DevicesOf[r] : enc[r][d] \in Nat
    BY <1>1 DEF SendTyped
<1>4. SendTyped'
    <2>1. \A r \in Relays : enc'[r] \in [DevicesOf[r] -> Nat]
        BY <1>2, <1>3
    <2>2. inflight' \in [Encryptions -> SUBSET Relays]
        BY <1>1, <1>2 DEF SendTyped
    <2> QED BY <1>1, <1>2, <1>3, <2>1, <2>2 DEF SendTyped
<1>5. \A r \in Relays : \A d \in DevicesOf[r] :
          /\ r \in inflight[e] /\ d = e[1] => enc'[r][d] = made + 1
          /\ ~(r \in inflight[e] /\ d = e[1]) => enc'[r][d] = enc[r][d]
    BY <1>2
<1>6. \A r \in inflight[e] : r \in Relays /\ e[2] = BytesOf[r] /\ relay[r] \in {"encrypting", "failed"}
    BY <1>1 DEF WaitsOnce, SendTyped
<1>7. WaitsOnce'
    <2>1. ASSUME NEW f \in Encryptions, NEW s \in inflight'[f]
          PROVE  /\ f[1] \in DevicesOf[s] /\ f[2] = BytesOf[s] /\ enc'[s][f[1]] = NoCipher
                 /\ relay[s] \in {"encrypting", "failed"}
        <3>1. f # e /\ s \in inflight[f] /\ s \in Relays
            BY <1>1, <1>2, <2>1 DEF SendTyped
        <3>2. f[1] \in DevicesOf[s] /\ f[2] = BytesOf[s] /\ enc[s][f[1]] = NoCipher /\ relay[s] \in {"encrypting", "failed"}
            BY <1>1, <3>1 DEF WaitsOnce
        <3>3. ~(s \in inflight[e] /\ f[1] = e[1])
            BY <1>6, <3>1, <3>2 DEF Encryptions
        <3> QED BY <1>5, <3>1, <3>2, <3>3
    <2>2. ASSUME NEW s \in Relays, NEW d \in DevicesOf[s]
          PROVE  /\ enc'[s][d] <= made + 1
                 /\ enc'[s][d] # NoCipher => HasBegun(s) /\ relay[s] \notin {"listing", "asserting"}
                 /\ relay[s] = "sent" => enc'[s][d] # NoCipher
        <3>1. CASE s \in inflight[e] /\ d = e[1]
            BY <1>3, <1>5, <1>6, <3>1 DEF HasBegun
        <3>2. CASE ~(s \in inflight[e] /\ d = e[1])
            BY <1>1, <1>3, <1>5, <3>2 DEF WaitsOnce
        <3> QED BY <3>1, <3>2
    <2>3. made' = made + 1 /\ relay' = relay
        BY <1>2
    <2>4. \A s \in Relays : HasBegun(s)' <=> HasBegun(s)
        BY <2>3 DEF HasBegun
    <2> QED BY <2>1, <2>2, <2>3, <2>4 DEF WaitsOnce
<1>8. CiphersApart'
    <2> SUFFICES ASSUME NEW r \in Relays, NEW s \in Relays, NEW d \in DevicesOf[r] \cap DevicesOf[s],
                        r # s, Live(r)', Live(s)', enc'[r][d] # NoCipher, enc'[r][d] = enc'[s][d]
                 PROVE  ChatOf[r] # ChatOf[s] /\ BytesOf[r] = BytesOf[s]
        BY DEF CiphersApart
    <2>1. Live(r) /\ Live(s)
        BY <1>2 DEF Live
    <2>2. enc[r][d] <= made /\ enc[s][d] <= made
        BY <1>1 DEF WaitsOnce
    <2>3. CASE r \in inflight[e] /\ d = e[1]
        <3>1. s \in inflight[e]
            BY <1>3, <1>5, <2>2, <2>3
        <3>2. relay[r] = "encrypting" /\ relay[s] = "encrypting" /\ BytesOf[r] = BytesOf[s]
            BY <1>6, <2>1, <2>3, <3>1 DEF Live
        <3>3. ChatOf[r] # ChatOf[s]
            BY <3>2, OneOfAChat DEF HasBegun, Ended
        <3> QED BY <3>2, <3>3
    <2>4. CASE ~(r \in inflight[e] /\ d = e[1])
        <3>1. enc'[r][d] = enc[r][d] /\ enc'[s][d] = enc[s][d]
            BY <1>3, <1>5, <2>2, <2>4
        <3> QED BY <1>1, <2>1, <3>1 DEF CiphersApart
    <2> QED BY <2>3, <2>4
<1>9. OutgoingRight'
    <2>1. ASSUME NEW i \in DOMAIN outgoing
          PROVE  enc'[outgoing[i].of] = enc[outgoing[i].of]
        <3>1. outgoing[i].of \in Relays /\ outgoing[i].of \notin inflight[e]
            <4>1. outgoing[i] \in Outgoing
                BY <1>1 DEF SendTyped
            <4> QED BY <1>1, <1>6, <4>1 DEF Outgoing, OutgoingRight
        <3>2. enc[outgoing[i].of] \in [DevicesOf[outgoing[i].of] -> Nat]
            BY <1>1, <3>1 DEF SendTyped
        <3> QED BY <1>2, <3>1, <3>2
    <2> QED BY <1>1, <1>2, <2>1 DEF OutgoingRight
<1>10. QueuedOnce' /\ TurnsTaken' /\ IterationsNew' /\ SendsInOrder'
    BY <1>1, <1>2 DEF QueuedOnce, TurnsTaken, HasBegun, Before, IterationsNew, Active, SendsInOrder
<1> QED BY <1>4, <1>7, <1>8, <1>9, <1>10 DEF SendInv

LEMMA EncryptFailsKeeps ==
    ASSUME SendInv, NEW e \in Encryptions, EncryptFails(e)
    PROVE  SendInv'
<1>1. SendTyped /\ QueuedOnce /\ TurnsTaken /\ WaitsOnce /\ CiphersApart /\ OutgoingRight /\ IterationsNew /\ SendsInOrder
    BY DEF SendInv
<1>2. /\ inflight' = [inflight EXCEPT ![e] = {}]
      /\ relay' = [r \in Relays |-> IF r \in inflight[e] THEN "failed" ELSE relay[r]]
      /\ UNCHANGED <<relayQueue, made, enc, iteration, outgoing>>
    BY DEF EncryptFails, Delivered
<1>3. \A r \in inflight[e] : r \in Relays /\ relay[r] \in {"encrypting", "failed"}
    BY <1>1 DEF WaitsOnce, SendTyped
<1>4. \A r \in Relays : \/ relay'[r] = relay[r] /\ r \notin inflight[e]
                        \/ relay'[r] = "failed" /\ relay[r] \in {"encrypting", "failed"}
    BY <1>2, <1>3
<1>5. SendTyped'
    BY <1>1, <1>2, <1>3 DEF SendTyped, RelayStates, Ended
<1>6. QueuedOnce' /\ TurnsTaken'
    <2>1. \A i \in DOMAIN relayQueue : relayQueue[i] \in Relays
        BY <1>1 DEF SendTyped
    <2>2. QueuedOnce'
        BY <1>1, <1>2, <1>4, <2>1 DEF QueuedOnce
    <2>3. \A r \in Relays : (HasBegun(r)' => HasBegun(r)) /\ (relay[r] \in Ended => relay'[r] \in Ended)
        BY <1>4 DEF HasBegun, Ended
    <2> QED BY <1>1, <1>2, <2>2, <2>3 DEF TurnsTaken, Before
<1>7. WaitsOnce'
    <2>1. ASSUME NEW f \in Encryptions, NEW s \in inflight'[f]
          PROVE  /\ f[1] \in DevicesOf[s] /\ f[2] = BytesOf[s] /\ enc[s][f[1]] = NoCipher
                 /\ relay'[s] \in {"encrypting", "failed"}
        <3>1. s \in inflight[f] /\ s \in Relays
            BY <1>1, <1>2, <2>1 DEF SendTyped
        <3> QED BY <1>1, <1>4, <3>1 DEF WaitsOnce
    <2>2. \A s \in Relays : \A d \in DevicesOf[s] :
              /\ enc[s][d] <= made
              /\ enc[s][d] # NoCipher => HasBegun(s)' /\ relay'[s] \notin {"listing", "asserting"}
              /\ relay'[s] = "sent" => enc[s][d] # NoCipher
        BY <1>1, <1>4 DEF WaitsOnce, HasBegun
    <2> QED BY <1>2, <2>1, <2>2 DEF WaitsOnce
<1>8. CiphersApart' /\ IterationsNew'
    BY <1>1, <1>2, <1>4 DEF CiphersApart, Live, IterationsNew, Active
<1>9. OutgoingRight'
    <2>1. \A i \in DOMAIN outgoing : outgoing[i].of \in Relays
        <3>1. \A i \in DOMAIN outgoing : outgoing[i] \in Outgoing
            BY <1>1 DEF SendTyped
        <3> QED BY <3>1 DEF Outgoing
    <2> QED BY <1>1, <1>2, <1>4, <2>1 DEF OutgoingRight
<1>10. SendsInOrder'
    BY <1>1, <1>2 DEF SendsInOrder, Before
<1> QED BY <1>5, <1>6, <1>7, <1>8, <1>9, <1>10 DEF SendInv

\* What goes out comes after everything its chat has sent.
LEMMA StanzaKeeps ==
    ASSUME SendInv, NEW r \in Relays, NEW outcome \in Ended, SendStanza(r, outcome)
    PROVE  SendInv'
<1>1. SendTyped /\ QueuedOnce /\ TurnsTaken /\ WaitsOnce /\ CiphersApart /\ OutgoingRight /\ IterationsNew /\ SendsInOrder
    BY DEF SendInv
<1>2. PICK entry : entry = [of |-> r, enc |-> enc[r], iteration |-> iteration[ChatOf[r]]]
    OBVIOUS
<1>3. /\ relay[r] = "encrypting" /\ (\A d \in DevicesOf[r] : enc[r][d] # NoCipher) /\ Goes(r, outcome)
      /\ outgoing' = IF outcome = "sent" THEN Append(outgoing, entry) ELSE outgoing
      /\ UNCHANGED <<relayQueue, inflight, made, enc, iteration>>
    BY <1>2 DEF SendStanza
<1>4. /\ relay' \in [Relays -> RelayStates] /\ relay'[r] = outcome /\ \A s \in Relays : s # r => relay'[s] = relay[s]
      /\ QueuedOnce' /\ TurnsTaken'
    <2>1. outcome \in RelayStates \ {"idle", "queued"} /\ relay[r] \notin {"idle"} \cup Ended
        BY <1>3 DEF RelayStates, Ended
    <2> QED BY <1>3, <2>1, GoesOn
<1>5. entry \in Outgoing /\ entry.of = r /\ entry.enc = enc[r] /\ entry.iteration = iteration[ChatOf[r]]
    BY <1>1, <1>2 DEF SendTyped, Outgoing, Chats
<1>6. SendTyped'
    BY <1>1, <1>3, <1>4, <1>5 DEF SendTyped
<1>7. WaitsOnce'
    <2>1. \A e \in Encryptions : r \notin inflight[e] /\ inflight[e] \subseteq Relays
        BY <1>1, <1>3 DEF WaitsOnce, SendTyped
    <2> QED BY <1>1, <1>3, <1>4, <2>1 DEF WaitsOnce, HasBegun, Ended
<1>8. CiphersApart'
    <2>1. \A s \in Relays : Live(s)' => Live(s)
        BY <1>3, <1>4 DEF Live
    <2> QED BY <1>1, <1>3, <2>1 DEF CiphersApart
<1>9. \A s \in Relays : Active(s)' => Active(s) /\ s # r
    BY <1>3, <1>4 DEF Active, Ended
<1>10. PICK n \in Nat : n = Len(outgoing) /\ DOMAIN outgoing = 1..n
    BY <1>1 DEF SendTyped
<1>11. \A i \in 1..n : /\ outgoing[i].of \in Relays /\ outgoing[i].of # r /\ relay[outgoing[i].of] = "sent"
                       /\ outgoing[i].iteration \in Nat
    <2>1. \A i \in 1..n : outgoing[i] \in Outgoing
        BY <1>1, <1>10 DEF SendTyped
    <2> QED BY <1>1, <1>3, <1>10, <2>1 DEF Outgoing, OutgoingRight
<1>12. CASE outcome # "sent"
    <2>1. OutgoingRight'
        BY <1>1, <1>3, <1>4, <1>10, <1>11, <1>12 DEF OutgoingRight
    <2>2. IterationsNew' /\ SendsInOrder'
        BY <1>1, <1>3, <1>9, <1>12 DEF IterationsNew, SendsInOrder, Before
    <2> QED BY <1>4, <1>6, <1>7, <1>8, <2>1, <2>2 DEF SendInv
<1>13. CASE outcome = "sent"
    <2>1. /\ DOMAIN outgoing' = 1..(n + 1) /\ outgoing'[n + 1] = entry
          /\ \A i \in 1..n : outgoing'[i] = outgoing[i]
        BY <1>1, <1>3, <1>5, <1>10, <1>13 DEF SendTyped
    <2>2. \A i \in 1..(n + 1) : i \in 1..n \/ i = n + 1
        OBVIOUS
    <2>3. iteration[ChatOf[r]] \in Nat
        BY <1>1 DEF SendTyped, Chats
    <2>4. OutgoingRight'
        <3>1. ASSUME NEW i \in 1..(n + 1)
              PROVE  /\ relay'[outgoing'[i].of] = "sent" /\ outgoing'[i].enc = enc[outgoing'[i].of]
                     /\ outgoing'[i].iteration <= iteration[ChatOf[outgoing'[i].of]]
            <4>1. CASE i = n + 1
                <5>1. outgoing'[i].of = r /\ outgoing'[i].enc = enc[r] /\ outgoing'[i].iteration = iteration[ChatOf[r]]
                    BY <1>5, <2>1, <4>1
                <5> QED BY <1>4, <1>13, <2>3, <5>1
            <4>2. CASE i \in 1..n
                <5>1. outgoing[i].enc = enc[outgoing[i].of] /\ outgoing[i].iteration <= iteration[ChatOf[outgoing[i].of]]
                    BY <1>1, <1>10, <4>2 DEF OutgoingRight
                <5> QED BY <1>4, <1>11, <2>1, <4>2, <5>1
            <4> QED BY <2>2, <4>1, <4>2
        <3>2. \A i, k \in 1..(n + 1) : outgoing'[i].of = outgoing'[k].of => i = k
            <4> SUFFICES ASSUME NEW i \in 1..(n + 1), NEW k \in 1..(n + 1), outgoing'[i].of = outgoing'[k].of
                         PROVE  i = k
                OBVIOUS
            <4>1. CASE i \in 1..n /\ k \in 1..n
                BY <1>1, <1>10, <2>1, <4>1 DEF OutgoingRight
            <4>2. ASSUME NEW j \in 1..n PROVE outgoing'[j].of # outgoing'[n + 1].of
                BY <1>5, <1>11, <2>1
            <4> QED BY <2>2, <4>1, <4>2
        <3> QED BY <1>3, <2>1, <3>1, <3>2 DEF OutgoingRight
    <2>5. IterationsNew'
        <3>1. ASSUME NEW q \in Relays, NEW i \in 1..(n + 1), Active(q)', ChatOf[q] \in Groups,
                     ChatOf[outgoing'[i].of] = ChatOf[q]
              PROVE  outgoing'[i].iteration < iteration[ChatOf[q]]
            <4>1. Active(q) /\ q # r
                BY <1>9, <3>1
            <4>2. ChatOf[q] # ChatOf[r]
                BY <1>3, <4>1, OneOfAChat DEF Active, HasBegun, Ended
            <4> QED BY <1>1, <1>5, <1>10, <2>1, <2>2, <3>1, <4>1, <4>2 DEF IterationsNew
        <3> QED BY <1>3, <2>1, <3>1 DEF IterationsNew
    <2>6. SendsInOrder'
        <3>1. ASSUME NEW i \in 1..n, ChatOf[outgoing[i].of] = ChatOf[r]
              PROVE  /\ Before(outgoing[i].of, r)
                     /\ ChatOf[r] \in Groups => outgoing[i].iteration < iteration[ChatOf[r]]
            <4>1. PICK s \in Relays : s = outgoing[i].of /\ s # r /\ relay[s] = "sent" /\ HasBegun(s) /\ HasBegun(r)
                BY <1>3, <1>11 DEF HasBegun
            <4>2. PICK j \in DOMAIN relayQueue, k \in DOMAIN relayQueue : relayQueue[j] = s /\ relayQueue[k] = r
                BY <1>1, <4>1 DEF QueuedOnce, HasBegun
            <4>3. Before(s, r) \/ Before(r, s)
                BY <1>1, <4>1, <4>2 DEF Before, SendTyped
            <4>4. ~Before(r, s)
                BY <1>1, <1>3, <3>1, <4>1 DEF TurnsTaken, Ended
            <4>5. Active(r)
                BY <1>3 DEF Active
            <4> QED BY <1>1, <1>10, <3>1, <4>1, <4>3, <4>4, <4>5 DEF IterationsNew
        <3> SUFFICES ASSUME NEW i \in 1..(n + 1), NEW k \in 1..(n + 1), i < k,
                            ChatOf[outgoing'[i].of] = ChatOf[outgoing'[k].of]
                     PROVE  /\ Before(outgoing'[i].of, outgoing'[k].of)
                            /\ ChatOf[outgoing'[i].of] \in Groups => outgoing'[i].iteration < outgoing'[k].iteration
            BY <1>3, <2>1 DEF SendsInOrder, Before
        <3>2. i \in 1..n
            OBVIOUS
        <3>3. CASE k = n + 1
            BY <1>5, <2>1, <3>1, <3>2, <3>3
        <3>4. CASE k \in 1..n
            <4>1. outgoing'[i] = outgoing[i] /\ outgoing'[k] = outgoing[k] /\ i \in DOMAIN outgoing /\ k \in DOMAIN outgoing
                BY <1>10, <2>1, <3>2, <3>4
            <4> QED BY <1>1, <4>1 DEF SendsInOrder
        <3> QED BY <2>2, <3>3, <3>4
    <2> QED BY <1>4, <1>6, <1>7, <1>8, <2>4, <2>5, <2>6 DEF SendInv
<1> QED BY <1>12, <1>13

LEMMA SendSteps == SendInv /\ [SendNext]_sendVars => SendInv'
<1> SUFFICES ASSUME SendInv, [SendNext]_sendVars PROVE SendInv'
    OBVIOUS
<1>1. ASSUME NEW r \in Relays, CallRelay(r) \/ StartRelay(r) \/ Listed(r) \/ RelayFails(r) PROVE SendInv'
    BY <1>1, CallRelayKeeps, StartKeeps, ListedKeeps
<1>2. ASSUME NEW r \in Relays, NEW injected \in SUBSET DevicesOf[r], SessionsFetched(r, injected) PROVE SendInv'
    BY <1>2, FetchedKeeps
<1>3. ASSUME NEW r \in Relays, NEW outcome \in Ended, SendStanza(r, outcome) PROVE SendInv'
    BY <1>3, StanzaKeeps
<1>4. ASSUME NEW e \in Encryptions, Encrypted1(e) \/ EncryptFails(e) PROVE SendInv'
    BY <1>4, EncryptedKeeps, EncryptFailsKeeps
<1>5. CASE UNCHANGED sendVars
    BY <1>5 DEF sendVars, SendInv, SendTyped, QueuedOnce, TurnsTaken, HasBegun, Before, WaitsOnce, CiphersApart, Live,
        OutgoingRight, IterationsNew, Active, SendsInOrder
<1> QED BY <1>1, <1>2, <1>3, <1>4, <1>5 DEF SendNext

LEMMA InvariantApart == SendInv => RelaysApart
<1> SUFFICES ASSUME SendInv PROVE SharedAcrossChatsOnly
    BY DEF RelaysApart, SendInv
<1>1. ASSUME NEW i \in DOMAIN outgoing, NEW k \in DOMAIN outgoing,
             NEW d \in DevicesOf[outgoing[i].of] \cap DevicesOf[outgoing[k].of],
             i # k, outgoing[i].enc[d] = outgoing[k].enc[d]
      PROVE  ChatOf[outgoing[i].of] # ChatOf[outgoing[k].of] /\ BytesOf[outgoing[i].of] = BytesOf[outgoing[k].of]
    <2>1. outgoing[i] \in Outgoing /\ outgoing[k] \in Outgoing
        BY DEF SendInv, SendTyped
    <2>2. PICK r \in Relays, s \in Relays : r = outgoing[i].of /\ s = outgoing[k].of
        BY <2>1 DEF Outgoing
    <2>3. r # s /\ relay[r] = "sent" /\ relay[s] = "sent" /\ enc[r][d] = enc[s][d]
        BY <1>1, <2>2 DEF SendInv, OutgoingRight
    <2>4. enc[r][d] # NoCipher
        BY <2>2, <2>3 DEF SendInv, WaitsOnce
    <2> QED BY <2>2, <2>3, <2>4 DEF SendInv, CiphersApart, Live
<1> QED BY <1>1 DEF SharedAcrossChatsOnly

\* Messages of a chat go out in the order of their sending, with rising group
\* keys, and two share a ciphertext only across chats: for any relays, chats and
\* devices, whichever fail.
THEOREM RelaysKeepApart == SendSpec => []RelaysApart
BY SendInitially, SendSteps, InvariantApart, PTL DEF SendSpec

(***************************************************************************)
(* Device lists.  What keeps them fresh is that every wait is short: a     *)
(* call awaits queries that were asked before it began and asks its own    *)
(* when they are answered, so it ends at most two queries after it began,  *)
(* with no row older than a lifetime before that.  And who waits, waits    *)
(* for a call that is asking, or shares one that still fetches.            *)
(***************************************************************************)
Pending(c) == calls[c].phase \in {"asking", "awaiting"}

CallRecords ==
    [phase : {"unused", "done", "sharing", "asking", "awaiting", "failed"},
     list : SUBSET Users, since : Nat, rows : [Users -> Int], targets : SUBSET Users,
     asked : Nat, awaits : [Users -> 0 .. MaxCalls], owner : 0 .. MaxCalls]

ListsTyped ==
    /\ clock \in Nat
    /\ perUser \in [Users -> [ts : Int, row : Int]]
    /\ perList \in [Lists -> [ts : Int, rows : [Users -> Int]]]
    /\ userInflight \in [Users -> 0 .. MaxCalls] /\ listInflight \in [Lists -> 0 .. MaxCalls]
    /\ calls \in [Callers -> CallRecords] /\ \A c \in Callers : calls[c].since <= clock

\* A row of a user is as old as its entry says, one of a list a fetch older.
RowsRight ==
    /\ \A u \in Users : perUser[u].ts # Missing => perUser[u].row = perUser[u].ts /\ perUser[u].ts \in 0 .. clock
    /\ \A l \in Lists : perList[l].ts # Missing =>
          /\ perList[l].ts \in 0 .. clock
          /\ \A u \in l : perList[l].rows[u] # Missing
                          /\ perList[l].ts - perList[l].rows[u] <= DevicesTTL + 2 * QueryTicks

InTime(c) ==
    /\ calls[c].since <= clock
    /\ calls[c].phase = "awaiting" => clock - calls[c].since <= QueryTicks
    /\ calls[c].phase = "asking" =>
          /\ calls[c].asked \in calls[c].since .. clock
          /\ calls[c].asked - calls[c].since <= QueryTicks /\ clock - calls[c].asked <= QueryTicks

\* Every user of a list is asked about, awaited, or has a row.
RowsComing(c) ==
    \A u \in calls[c].list :
        \/ u \in calls[c].targets
        \/ calls[c].phase = "awaiting" /\ calls[c].awaits[u] # NoCall
        \/ calls[c].rows[u] # Missing /\ calls[c].since - calls[c].rows[u] <= DevicesTTL

AwaitsAsking(c) ==
    \A u \in Users : calls[c].awaits[u] # NoCall =>
        /\ calls[c].phase = "awaiting"
        /\ calls[calls[c].awaits[u]].phase = "asking"
        /\ calls[calls[c].awaits[u]].asked <= calls[c].since

PendingRight ==
    \A c \in Callers : Pending(c) =>
        calls[c].list \in Lists /\ InTime(c) /\ RowsComing(c) /\ AwaitsAsking(c)

SharesPending(c) ==
    LET owner == calls[c].owner
    IN  /\ owner # NoCall /\ Pending(owner) /\ calls[owner].list = calls[c].list
        /\ calls[c].since - calls[owner].since \in 0 .. 2 * QueryTicks

SharingRight == \A c \in Callers : calls[c].phase = "sharing" => SharesPending(c)

DoneRight(c) ==
    \A u \in calls[c].list :
        /\ calls[c].rows[u] # Missing
        /\ calls[c].since - calls[c].rows[u] <= 2 * DevicesTTL + 2 * QueryTicks

InflightRight ==
    /\ \A l \in Lists : listInflight[l] # NoCall =>
          Pending(listInflight[l]) /\ calls[listInflight[l]].list = l
    /\ \A u \in Users : userInflight[u] # NoCall =>
          calls[userInflight[u]].phase = "asking" /\ u \in calls[userInflight[u]].targets

ListInv ==
    /\ ListsTyped /\ RowsRight /\ PendingRight /\ SharingRight /\ InflightRight
    /\ \A c \in Callers : calls[c].phase = "done" => DoneRight(c)

LEMMA UnusedTyped == Unused \in CallRecords /\ Unused.phase = "unused" /\ Unused.since = 0
BY DeviceListsAssumption DEF Unused, CallRecords, NoRows, Missing, NoCall

LEMMA ListsInitially == ListsInit => ListInv
<1> SUFFICES ASSUME ListsInit PROVE ListInv
    OBVIOUS
<1>1. Unused \in CallRecords /\ Unused.phase = "unused" /\ Unused.since = 0
    BY UnusedTyped
<1>2. ListsTyped
    <2>1. calls \in [Callers -> CallRecords] /\ \A c \in Callers : calls[c].since <= clock
        BY <1>1 DEF ListsInit
    <2>2. NoRows \in [Users -> Int] /\ Missing \in Int /\ NoCall \in 0 .. MaxCalls
        BY DeviceListsAssumption DEF NoRows, Missing, NoCall
    <2> QED BY <2>1, <2>2 DEF ListsInit, ListsTyped
<1>3. RowsRight /\ InflightRight
    BY DEF ListsInit, RowsRight, InflightRight
<1>4. \A c \in Callers : calls[c].phase = "unused"
    BY <1>1 DEF ListsInit
<1> QED BY <1>2, <1>3, <1>4 DEF ListInv, PendingRight, SharingRight, Pending

\* How long a call takes.
LEMMA CallsEnd ==
    ASSUME ListInv, NEW c \in Callers, Pending(c)
    PROVE  clock - calls[c].since \in 0 .. 2 * QueryTicks
BY DeviceListsAssumption DEF ListInv, PendingRight, InTime, Pending, ListsTyped, CallRecords

\* Rows a fetch ends with.
LEMMA RowsFetched ==
    ASSUME ListInv, NEW c \in Callers, Pending(c), NEW rows \in [Users -> Int],
           \A u \in calls[c].list : rows[u] # Missing /\ calls[c].since - rows[u] <= DevicesTTL
    PROVE  /\ calls[c].list \in Lists
           /\ \A u \in calls[c].list : clock - rows[u] <= DevicesTTL + 2 * QueryTicks
           /\ \A k \in Callers : k = c \/ (calls[k].phase = "sharing" /\ calls[k].owner = c) =>
                 /\ calls[k].list = calls[c].list
                 /\ \A u \in calls[k].list : calls[k].since - rows[u] <= DevicesTTL + 2 * QueryTicks
<1>1. calls[c].list \in Lists /\ calls[c].list \subseteq Users /\ calls[c].since \in Nat
    BY DEF ListInv, PendingRight, ListsTyped, CallRecords
<1>2. clock - calls[c].since \in 0 .. 2 * QueryTicks /\ clock \in Nat
    BY CallsEnd DEF ListInv, ListsTyped
<1>3. \A u \in calls[c].list : rows[u] \in Int
    BY <1>1
<1>4. \A u \in calls[c].list : clock - rows[u] <= DevicesTTL + 2 * QueryTicks
    BY <1>1, <1>2, <1>3, DeviceListsAssumption
<1>5. ASSUME NEW k \in Callers, calls[k].phase = "sharing", calls[k].owner = c
      PROVE  /\ calls[k].list = calls[c].list
             /\ \A u \in calls[k].list : calls[k].since - rows[u] <= DevicesTTL + 2 * QueryTicks
    <2>1. calls[k].list = calls[c].list /\ calls[k].since - calls[c].since \in 0 .. 2 * QueryTicks
        BY <1>5 DEF ListInv, SharingRight, SharesPending
    <2>2. calls[k].since \in Nat
        BY DEF ListInv, ListsTyped, CallRecords
    <2> QED BY <2>1, <2>2, <1>1, <1>3, DeviceListsAssumption
<1>6. \A u \in calls[c].list : calls[c].since - rows[u] <= DevicesTTL + 2 * QueryTicks
    BY <1>1, <1>3, DeviceListsAssumption
<1> QED BY <1>1, <1>4, <1>5, <1>6

\* A call that begins changes nothing for the others, who do not know of it.
LEMMA OthersStay ==
    ASSUME ListInv, NEW c \in Callers, calls[c].phase = "unused",
           NEW r \in CallRecords, calls' = [calls EXCEPT ![c] = r], UNCHANGED clock
    PROVE  /\ calls' \in [Callers -> CallRecords] /\ calls'[c] = r
           /\ \A k \in Callers \ {c} :
                 /\ calls'[k] = calls[k]
                 /\ Pending(k) => calls'[k].list \in Lists /\ InTime(k)' /\ RowsComing(k)' /\ AwaitsAsking(k)'
                 /\ calls[k].phase = "sharing" => SharesPending(k)'
                 /\ calls[k].phase = "done" => DoneRight(k)'
           /\ \A k \in Callers : Pending(k) => k # c /\ calls'[k] = calls[k] /\ Pending(k)'
<1>1. calls \in [Callers -> CallRecords] /\ c \notin {k \in Callers : Pending(k)}
    BY DEF ListInv, ListsTyped, Pending
<1>2. calls' \in [Callers -> CallRecords] /\ calls'[c] = r /\ \A k \in Callers \ {c} : calls'[k] = calls[k]
    BY <1>1
<1>3. \A k \in Callers : Pending(k) => k # c /\ calls'[k] = calls[k] /\ Pending(k)'
    BY <1>1, <1>2 DEF Pending
<1>4. ASSUME NEW k \in Callers \ {c}, Pending(k)
      PROVE  calls'[k].list \in Lists /\ InTime(k)' /\ RowsComing(k)' /\ AwaitsAsking(k)'
    <2>1. calls[k].list \in Lists /\ InTime(k) /\ RowsComing(k) /\ AwaitsAsking(k)
        BY <1>4 DEF ListInv, PendingRight
    <2>2. \A u \in Users : calls[k].awaits[u] # NoCall => calls[k].awaits[u] \in Callers \ {c}
        <3>1. calls[k] \in CallRecords
            BY <1>1
        <3>2. calls[k].awaits \in [Users -> 0 .. MaxCalls]
            BY <3>1 DEF CallRecords
        <3> QED BY <2>1, <3>2, DeviceListsAssumption DEF AwaitsAsking, Callers, NoCall
    <2>3. AwaitsAsking(k)'
        BY <2>1, <2>2, <1>2 DEF AwaitsAsking
    <2> QED BY <2>1, <2>3, <1>2 DEF InTime, RowsComing
<1>5. ASSUME NEW k \in Callers \ {c}, calls[k].phase = "sharing" PROVE SharesPending(k)'
    <2>1. SharesPending(k) /\ calls[k].owner \in Callers
        BY <1>1, <1>5, DeviceListsAssumption DEF ListInv, SharingRight, SharesPending, CallRecords, Callers, NoCall
    <2> QED BY <2>1, <1>2, <1>3 DEF SharesPending
<1>6. ASSUME NEW k \in Callers \ {c}, calls[k].phase = "done" PROVE DoneRight(k)'
    BY <1>2, <1>6 DEF ListInv, DoneRight
<1> QED BY <1>2, <1>3, <1>4, <1>5, <1>6

LEMMA InflightCallers ==
    ASSUME ListInv
    PROVE  /\ \A l \in Lists : listInflight[l] # NoCall => listInflight[l] \in Callers
           /\ \A u \in Users : userInflight[u] # NoCall => userInflight[u] \in Callers
BY DeviceListsAssumption DEF ListInv, ListsTyped, Callers, NoCall

LEMMA BegunTyped ==
    ASSUME ListInv, NEW list \in Lists
    PROVE  /\ Begun(list) \in CallRecords /\ list \subseteq Users
           /\ Begun(list) = [Unused EXCEPT !.list = list, !.since = clock]
<1>1. list \subseteq Users /\ clock \in Nat
    BY DeviceListsAssumption DEF ListInv, ListsTyped
<1> QED BY <1>1, UnusedTyped DEF Begun, CallRecords

LEMMA CachedKeeps ==
    ASSUME ListInv, NEW c \in Callers, NEW list \in Lists, CallCached(c, list) PROVE ListInv'
<1> DEFINE r == [Begun(list) EXCEPT !.phase = "done", !.rows = perList[list].rows]
<1>1. perList[list].rows \in [Users -> Int] /\ perList[list].ts \in Int /\ clock \in Nat
    BY DEF ListInv, ListsTyped
<1>2. r \in CallRecords /\ r.phase = "done" /\ r.list = list /\ r.since = clock /\ r.rows = perList[list].rows
    BY <1>1, BegunTyped, DeviceListsAssumption DEF CallRecords, Begun, Unused, NoRows, Missing, NoCall
<1>3. calls' = [calls EXCEPT ![c] = r] /\ calls[c].phase = "unused" /\ clock' = clock /\ Fresh(perList[list])
      /\ UNCHANGED <<perUser, perList, userInflight, listInflight>>
    BY DEF CallCached, Begins
<1> HIDE DEF r
<1>4. /\ calls' \in [Callers -> CallRecords] /\ calls'[c] = r
      /\ \A k \in Callers \ {c} :
            /\ calls'[k] = calls[k]
            /\ Pending(k) => calls'[k].list \in Lists /\ InTime(k)' /\ RowsComing(k)' /\ AwaitsAsking(k)'
            /\ calls[k].phase = "sharing" => SharesPending(k)'
            /\ calls[k].phase = "done" => DoneRight(k)'
      /\ \A k \in Callers : Pending(k) => k # c /\ calls'[k] = calls[k] /\ Pending(k)'
    BY <1>2, <1>3, OthersStay
<1>5. DoneRight(c)'
    <2>1. perList[list].ts # Missing /\ clock - perList[list].ts <= DevicesTTL
        BY <1>3 DEF Fresh
    <2>2. \A u \in list : /\ perList[list].rows[u] # Missing /\ perList[list].rows[u] \in Int
                          /\ perList[list].ts - perList[list].rows[u] <= DevicesTTL + 2 * QueryTicks
        BY <2>1, <1>1, BegunTyped DEF ListInv, RowsRight
    <2>3. \A u \in list : clock - perList[list].rows[u] <= 2 * DevicesTTL + 2 * QueryTicks
        BY <2>1, <2>2, <1>1, DeviceListsAssumption
    <2> QED BY <2>2, <2>3, <1>2, <1>4 DEF DoneRight
<1>6. PendingRight' /\ SharingRight'
    BY <1>2, <1>4 DEF PendingRight, SharingRight, Pending
<1>7. InflightRight'
    BY <1>3, <1>4, InflightCallers DEF ListInv, InflightRight, Pending
<1>8. \A k \in Callers : calls'[k].since <= clock
    BY <1>1, <1>2, <1>4 DEF ListInv, ListsTyped
<1> QED BY <1>3, <1>4, <1>5, <1>6, <1>7, <1>8 DEF ListInv, ListsTyped, RowsRight

LEMMA SharesKeeps ==
    ASSUME ListInv, NEW c \in Callers, NEW list \in Lists, CallShares(c, list) PROVE ListInv'
<1> DEFINE r == [Begun(list) EXCEPT !.phase = "sharing", !.owner = listInflight[list]]
<1>1. listInflight[list] \in 0 .. MaxCalls /\ clock \in Nat
    BY DEF ListInv, ListsTyped
<1>2. r \in CallRecords /\ r.phase = "sharing" /\ r.list = list /\ r.since = clock /\ r.owner = listInflight[list]
    BY <1>1, BegunTyped, DeviceListsAssumption DEF CallRecords, Begun, Unused, NoRows, Missing, NoCall
<1>3. calls' = [calls EXCEPT ![c] = r] /\ calls[c].phase = "unused" /\ clock' = clock /\ listInflight[list] # NoCall
      /\ UNCHANGED <<perUser, perList, userInflight, listInflight>>
    BY DEF CallShares, Begins
<1> HIDE DEF r
<1>4. /\ calls' \in [Callers -> CallRecords] /\ calls'[c] = r
      /\ \A k \in Callers \ {c} :
            /\ calls'[k] = calls[k]
            /\ Pending(k) => calls'[k].list \in Lists /\ InTime(k)' /\ RowsComing(k)' /\ AwaitsAsking(k)'
            /\ calls[k].phase = "sharing" => SharesPending(k)'
            /\ calls[k].phase = "done" => DoneRight(k)'
      /\ \A k \in Callers : Pending(k) => k # c /\ calls'[k] = calls[k] /\ Pending(k)'
    BY <1>2, <1>3, OthersStay
<1>5. SharesPending(c)'
    <2> DEFINE o == listInflight[list]
    <2>1. o \in Callers /\ Pending(o) /\ calls[o].list = list
        BY <1>3, InflightCallers DEF ListInv, InflightRight
    <2>2. clock - calls[o].since \in 0 .. 2 * QueryTicks
        BY <2>1, CallsEnd
    <2> QED BY <2>1, <2>2, <1>2, <1>3, <1>4 DEF SharesPending
<1>6. PendingRight' /\ SharingRight'
    BY <1>2, <1>4, <1>5 DEF PendingRight, SharingRight, Pending
<1>7. InflightRight'
    BY <1>3, <1>4, InflightCallers DEF ListInv, InflightRight, Pending
<1>8. \A k \in Callers : calls'[k].since <= clock
    BY <1>1, <1>2, <1>4 DEF ListInv, ListsTyped
<1> QED BY <1>2, <1>3, <1>4, <1>6, <1>7, <1>8 DEF ListInv, ListsTyped, RowsRight

LEMMA FetchesKeeps ==
    ASSUME ListInv, NEW c \in Callers, NEW list \in Lists, CallFetches(c, list) PROVE ListInv'
<1> DEFINE asksNow == Awaited(list) = {} /\ Unasked(list) # {}
           rows == [u \in Users |-> IF u \in list /\ Fresh(perUser[u]) THEN perUser[u].row ELSE Missing]
           awaits == [u \in Users |-> IF u \in Awaited(list) THEN userInflight[u] ELSE NoCall]
           r == [Begun(list) EXCEPT !.phase = IF asksNow THEN "asking" ELSE "awaiting", !.rows = rows,
                                    !.targets = Unasked(list), !.asked = clock, !.awaits = awaits]
<1>1. /\ clock \in Nat /\ list \subseteq Users /\ Unasked(list) \subseteq Users
      /\ perUser \in [Users -> [ts : Int, row : Int]] /\ userInflight \in [Users -> 0 .. MaxCalls]
    BY BegunTyped DEF ListInv, ListsTyped, Unasked
<1>2. rows \in [Users -> Int] /\ awaits \in [Users -> 0 .. MaxCalls]
    BY <1>1, DeviceListsAssumption DEF Missing, NoCall
<1>3. /\ r \in CallRecords /\ r.list = list /\ r.since = clock /\ r.asked = clock /\ r.rows = rows
      /\ r.awaits = awaits /\ r.targets = Unasked(list)
      /\ r.phase = IF asksNow THEN "asking" ELSE "awaiting"
    <2>1. Begun(list) \in CallRecords /\ Begun(list).list = list /\ Begun(list).since = clock
        BY BegunTyped, UnusedTyped DEF CallRecords
    <2> HIDE DEF rows, awaits, asksNow
    <2> QED BY <2>1, <1>1, <1>2 DEF CallRecords
<1>4. /\ calls' = [calls EXCEPT ![c] = r] /\ calls[c].phase = "unused" /\ clock' = clock
      /\ userInflight' = IF asksNow THEN Registered(c, Unasked(list)) ELSE userInflight
      /\ listInflight' = [listInflight EXCEPT ![list] = c]
      /\ UNCHANGED <<perUser, perList>>
    BY DEF CallFetches, Begins
<1> HIDE DEF r
<1>5. /\ calls' \in [Callers -> CallRecords] /\ calls'[c] = r
      /\ \A k \in Callers \ {c} :
            /\ calls'[k] = calls[k]
            /\ Pending(k) => calls'[k].list \in Lists /\ InTime(k)' /\ RowsComing(k)' /\ AwaitsAsking(k)'
            /\ calls[k].phase = "sharing" => SharesPending(k)'
            /\ calls[k].phase = "done" => DoneRight(k)'
      /\ \A k \in Callers : Pending(k) => k # c /\ calls'[k] = calls[k] /\ Pending(k)'
    BY <1>3, <1>4, OthersStay
<1>6. InTime(c)'
    BY <1>1, <1>3, <1>4, <1>5, DeviceListsAssumption DEF InTime
<1>7. RowsComing(c)'
    <2> SUFFICES ASSUME NEW u \in list, u \notin Unasked(list), ~(~asksNow /\ awaits[u] # NoCall)
                 PROVE  rows[u] # Missing /\ clock - rows[u] <= DevicesTTL
        BY <1>3, <1>5 DEF RowsComing
    <2>1. Fresh(perUser[u])
        BY <1>1 DEF Unasked, Awaited
    <2>2. perUser[u].ts # Missing /\ clock - perUser[u].ts <= DevicesTTL /\ perUser[u].row = perUser[u].ts
        BY <2>1, <1>1 DEF Fresh, ListInv, RowsRight
    <2> QED BY <2>1, <2>2, <1>1
<1>8. AwaitsAsking(c)'
    <2> SUFFICES ASSUME NEW u \in Users, awaits[u] # NoCall
                 PROVE  /\ r.phase = "awaiting"
                        /\ calls'[awaits[u]].phase = "asking" /\ calls'[awaits[u]].asked <= clock
        BY <1>3, <1>5 DEF AwaitsAsking
    <2>1. u \in Awaited(list) /\ awaits[u] = userInflight[u] /\ userInflight[u] # NoCall
        BY DEF Awaited
    <2> DEFINE a == userInflight[u]
    <2>2. a \in Callers /\ calls[a].phase = "asking"
        BY <2>1, InflightCallers DEF ListInv, InflightRight
    <2>3. calls[a].asked \in calls[a].since .. clock /\ calls[a] \in CallRecords /\ calls'[a] = calls[a]
        BY <2>2, <1>5 DEF ListInv, PendingRight, InTime, Pending, ListsTyped
    <2> QED BY <2>1, <2>2, <2>3, <1>1, <1>3 DEF CallRecords
<1>9. PendingRight' /\ SharingRight' /\ \A k \in Callers : calls'[k].phase = "done" => DoneRight(k)'
    BY <1>3, <1>5, <1>6, <1>7, <1>8 DEF PendingRight, SharingRight, Pending, ListInv
<1>10. InflightRight'
    <2>1. calls'[c].phase \in {"asking", "awaiting"} /\ calls'[c].list = list
        BY <1>3, <1>5
    <2>0. \A k \in Callers : calls[k].phase \in {"asking", "awaiting"} => calls'[k] = calls[k]
        BY <1>5 DEF Pending
    <2>2. ASSUME NEW l \in Lists, listInflight'[l] # NoCall
          PROVE  calls'[listInflight'[l]].phase \in {"asking", "awaiting"} /\ calls'[listInflight'[l]].list = l
        <3>1. CASE l = list
            BY <3>1, <2>1, <1>4 DEF ListInv, ListsTyped
        <3>2. CASE l # list
            <4>1. listInflight'[l] = listInflight[l]
                BY <3>2, <1>4 DEF ListInv, ListsTyped
            <4>2. /\ listInflight[l] \in Callers /\ calls[listInflight[l]].phase \in {"asking", "awaiting"}
                  /\ calls[listInflight[l]].list = l
                BY <2>2, <4>1, InflightCallers DEF ListInv, InflightRight, Pending
            <4> QED BY <4>1, <4>2, <2>0
        <3> QED BY <3>1, <3>2
    <2>3. ASSUME NEW u \in Users, userInflight'[u] # NoCall
          PROVE  calls'[userInflight'[u]].phase = "asking" /\ u \in calls'[userInflight'[u]].targets
        <3>1. CASE asksNow /\ u \in Unasked(list)
            BY <3>1, <1>3, <1>4, <1>5 DEF Registered
        <3>2. CASE ~(asksNow /\ u \in Unasked(list))
            <4>1. userInflight'[u] = userInflight[u]
                BY <3>2, <1>4 DEF Registered
            <4>2. userInflight[u] \in Callers /\ calls[userInflight[u]].phase = "asking"
                  /\ u \in calls[userInflight[u]].targets
                BY <2>3, <4>1, InflightCallers DEF ListInv, InflightRight
            <4> QED BY <4>1, <4>2, <2>0
        <3> QED BY <3>1, <3>2
    <2> QED BY <2>2, <2>3 DEF InflightRight, Pending
<1>11. ListsTyped'
    <2>1. userInflight' \in [Users -> 0 .. MaxCalls] /\ listInflight' \in [Lists -> 0 .. MaxCalls]
        BY <1>1, <1>4, DeviceListsAssumption DEF Registered, Callers, ListInv, ListsTyped
    <2>2. \A k \in Callers : calls'[k].since <= clock
        BY <1>1, <1>3, <1>5 DEF ListInv, ListsTyped
    <2> QED BY <2>1, <2>2, <1>4, <1>5 DEF ListInv, ListsTyped
<1> QED BY <1>4, <1>9, <1>10, <1>11 DEF ListInv, RowsRight

\* Of a call whose awaited rows have come.
LEMMA GoesOnWhole ==
    ASSUME ListInv, NEW c \in Callers, CanGoOn(c)
    PROVE  /\ Pending(c) /\ InTime(c) /\ calls[c].list \in Lists
           /\ \A u \in calls[c].list :
                 \/ u \in calls[c].targets
                 \/ calls[c].rows[u] # Missing /\ calls[c].since - calls[c].rows[u] <= DevicesTTL
<1>1. Pending(c) /\ calls[c].list \subseteq Users
    BY DEF CanGoOn, Pending, ListInv, ListsTyped, CallRecords
<1>2. \A u \in calls[c].list : calls[c].awaits[u] = NoCall
    BY <1>1 DEF CanGoOn
<1>3. RowsComing(c) /\ InTime(c) /\ calls[c].list \in Lists
    BY <1>1 DEF ListInv, PendingRight
<1>4. \A u \in calls[c].list :
          \/ u \in calls[c].targets
          \/ calls[c].rows[u] # Missing /\ calls[c].since - calls[c].rows[u] <= DevicesTTL
    BY <1>2, <1>3 DEF RowsComing
<1> QED BY <1>1, <1>3, <1>4

LEMMA AsksKeeps ==
    ASSUME ListInv, NEW c \in Callers, AsksAfter(c) PROVE ListInv'
<1> DEFINE r == [calls[c] EXCEPT !.phase = "asking", !.asked = clock]
<1>1. clock \in Nat /\ calls \in [Callers -> CallRecords] /\ calls[c].targets \subseteq Users /\ calls[c].phase = "awaiting"
    BY DEF ListInv, ListsTyped, AsksAfter, CanGoOn, CallRecords
<1>2. calls' = [calls EXCEPT ![c] = r]
    BY <1>1 DEF AsksAfter
<1>3. /\ r \in CallRecords /\ r.phase = "asking" /\ r.asked = clock /\ r.list = calls[c].list
      /\ r.rows = calls[c].rows /\ r.awaits = calls[c].awaits /\ r.targets = calls[c].targets
      /\ r.since = calls[c].since
    BY <1>1 DEF CallRecords
<1> HIDE DEF r
<1>4. /\ calls' \in [Callers -> CallRecords] /\ calls'[c] = r /\ clock' = clock
      /\ \A k \in Callers \ {c} : calls'[k] = calls[k]
      /\ userInflight' = Registered(c, calls[c].targets)
      /\ UNCHANGED <<perUser, perList, listInflight>>
    BY <1>1, <1>2, <1>3 DEF AsksAfter
<1>5. \A k \in Callers : Pending(k)' <=> Pending(k)
    BY <1>1, <1>3, <1>4 DEF Pending
<1>6. calls'[c].list \in Lists /\ InTime(c)' /\ RowsComing(c)' /\ AwaitsAsking(c)'
    <2>1. /\ InTime(c) /\ calls[c].list \in Lists /\ \A u \in Users : calls[c].awaits[u] = NoCall
          /\ \A u \in calls[c].list :
                 \/ u \in calls[c].targets
                 \/ calls[c].rows[u] # Missing /\ calls[c].since - calls[c].rows[u] <= DevicesTTL
        BY GoesOnWhole DEF AsksAfter, CanGoOn
    <2>2. calls[c].since \in Nat
        BY <1>1 DEF CallRecords
    <2>3. InTime(c)'
        BY <2>1, <2>2, <1>1, <1>3, <1>4, DeviceListsAssumption DEF InTime
    <2> QED BY <2>1, <2>3, <1>3, <1>4 DEF RowsComing, AwaitsAsking
<1>7. ASSUME NEW k \in Callers \ {c}, Pending(k)
      PROVE  calls'[k].list \in Lists /\ InTime(k)' /\ RowsComing(k)' /\ AwaitsAsking(k)'
    <2>1. calls[k].list \in Lists /\ InTime(k) /\ RowsComing(k) /\ AwaitsAsking(k)
        BY <1>7 DEF ListInv, PendingRight
    <2>2. \A u \in Users : calls[k].awaits[u] # NoCall => calls[k].awaits[u] \in Callers \ {c}
        <3>1. calls[k].awaits \in [Users -> 0 .. MaxCalls]
            BY <1>1 DEF CallRecords
        <3> QED BY <2>1, <3>1, <1>1, DeviceListsAssumption DEF AwaitsAsking, Callers, NoCall
    <2>3. AwaitsAsking(k)'
        BY <2>1, <2>2, <1>4 DEF AwaitsAsking
    <2> QED BY <2>1, <2>3, <1>4 DEF InTime, RowsComing
<1>8. PendingRight'
    BY <1>5, <1>6, <1>7 DEF PendingRight
<1>9. SharingRight' /\ \A k \in Callers : calls'[k].phase = "done" => DoneRight(k)'
    <2>1. \A k \in Callers : calls'[k].list = calls[k].list /\ calls'[k].since = calls[k].since
                             /\ calls'[k].rows = calls[k].rows
        BY <1>3, <1>4
    <2>2. \A k \in Callers : calls'[k].phase \in {"sharing", "done"} => k # c /\ calls'[k] = calls[k]
        BY <1>3, <1>4
    <2>3. ASSUME NEW k \in Callers, calls'[k].phase = "sharing" PROVE SharesPending(k)'
        <3>0. calls[k].owner \in 0 .. MaxCalls
            BY <1>1 DEF CallRecords
        <3>1. SharesPending(k) /\ calls[k].owner \in Callers
            BY <3>0, <2>2, <2>3, DeviceListsAssumption DEF ListInv, SharingRight, SharesPending, Callers, NoCall
        <3> QED BY <3>1, <2>1, <2>2, <2>3, <1>5 DEF SharesPending
    <2> QED BY <2>2, <2>3 DEF SharingRight, ListInv, DoneRight
<1>10. InflightRight'
    <2>1. \A k \in Callers : calls'[k].list = calls[k].list
        BY <1>3, <1>4
    <2>2. \A l \in Lists : listInflight'[l] # NoCall =>
              calls'[listInflight'[l]].phase \in {"asking", "awaiting"} /\ calls'[listInflight'[l]].list = l
        <3>1. \A l \in Lists : listInflight[l] # NoCall =>
                  /\ listInflight[l] \in Callers /\ Pending(listInflight[l])
                  /\ calls[listInflight[l]].list = l
            BY InflightCallers DEF ListInv, InflightRight
        <3>2. \A k \in Callers : Pending(k) => calls'[k].phase \in {"asking", "awaiting"}
            BY <1>5 DEF Pending
        <3> QED BY <3>1, <3>2, <2>1, <1>4
    <2>3. ASSUME NEW u \in Users, userInflight'[u] # NoCall
          PROVE  calls'[userInflight'[u]].phase = "asking" /\ u \in calls'[userInflight'[u]].targets
        <3>1. CASE u \in calls[c].targets
            BY <3>1, <1>3, <1>4 DEF Registered
        <3>2. CASE u \notin calls[c].targets
            <4>1. userInflight'[u] = userInflight[u]
                BY <3>2, <1>4 DEF Registered
            <4>2. userInflight[u] \in Callers /\ calls[userInflight[u]].phase = "asking"
                  /\ u \in calls[userInflight[u]].targets
                BY <2>3, <4>1, InflightCallers DEF ListInv, InflightRight
            <4> QED BY <4>1, <4>2, <1>1, <1>4
        <3> QED BY <3>1, <3>2
    <2> QED BY <2>2, <2>3 DEF InflightRight, Pending
<1>11. ListsTyped'
    <2>1. userInflight' \in [Users -> 0 .. MaxCalls]
        BY <1>4, DeviceListsAssumption DEF Registered, Callers, ListInv, ListsTyped
    <2>2. \A k \in Callers : calls'[k].since <= clock
        BY <1>1, <1>3, <1>4 DEF ListInv, ListsTyped
    <2> QED BY <2>1, <2>2, <1>4 DEF ListInv, ListsTyped
<1> QED BY <1>4, <1>8, <1>9, <1>10, <1>11 DEF ListInv, RowsRight

\* A fetch ends with rows, for its call and for those that share it; cs is what
\* the calls are once they were given what they await of it.
LEMMA EndKeeps ==
    ASSUME ListInv, NEW c \in Callers, Pending(c), NEW rows \in [Users -> Int],
           \A u \in calls[c].list : rows[u] # Missing /\ calls[c].since - rows[u] <= DevicesTTL,
           NEW cs \in [Callers -> CallRecords],
           \A k \in Callers :
               /\ cs[k].phase = calls[k].phase /\ cs[k].list = calls[k].list /\ cs[k].since = calls[k].since
               /\ cs[k].asked = calls[k].asked /\ cs[k].owner = calls[k].owner /\ cs[k].targets = calls[k].targets
               /\ \A u \in Users : Pending(k) /\ cs[k].awaits[u] # NoCall => cs[k].awaits[u] = calls[k].awaits[u] /\ cs[k].awaits[u] # c
               /\ \A u \in Users : \/ cs[k].awaits[u] = calls[k].awaits[u] /\ cs[k].rows[u] = calls[k].rows[u]
                                   \/ cs[k].rows[u] = clock,
           calls' = Ends(cs, c, rows), ListWritten(c, rows), clock' = clock,
           perUser' \in [Users -> [ts : Int, row : Int]],
           \A u \in Users : perUser'[u] = perUser[u] \/ perUser'[u] = [ts |-> clock, row |-> clock],
           userInflight' \in [Users -> 0 .. MaxCalls],
           \A u \in Users : userInflight'[u] # NoCall => userInflight'[u] = userInflight[u] /\ userInflight[u] # c
    PROVE  ListInv'
<1> DEFINE Shares(k) == k = c \/ (calls[k].phase = "sharing" /\ calls[k].owner = c)
<1>1. /\ clock \in Nat /\ calls \in [Callers -> CallRecords] /\ \A k \in Callers : calls[k].since <= clock
      /\ perList \in [Lists -> [ts : Int, rows : [Users -> Int]]] /\ listInflight \in [Lists -> 0 .. MaxCalls]
    BY DEF ListInv, ListsTyped
<1>0. \A u \in calls[c].list : rows[u] # Missing /\ calls[c].since - rows[u] <= DevicesTTL
    OBVIOUS
<1>2. /\ calls[c].list \in Lists
      /\ \A u \in calls[c].list : clock - rows[u] <= DevicesTTL + 2 * QueryTicks
      /\ \A k \in Callers : Shares(k) =>
            /\ calls[k].list = calls[c].list
            /\ \A u \in calls[k].list : calls[k].since - rows[u] <= DevicesTTL + 2 * QueryTicks
    BY <1>0, RowsFetched
<1>3. \A k \in Callers : ~Shares(k) => calls'[k] = cs[k]
    BY DEF Ends
<1>4. \A k \in Callers : Shares(k) => calls'[k] = [cs[k] EXCEPT !.phase = "done", !.rows = rows]
    BY DEF Ends
<1>5. ASSUME NEW k \in Callers, Shares(k)
      PROVE  /\ calls'[k] \in CallRecords /\ calls'[k].phase = "done" /\ calls'[k].rows = rows
             /\ calls'[k].list = calls[k].list /\ calls'[k].since = calls[k].since
    <2>1. calls'[k] = [cs[k] EXCEPT !.phase = "done", !.rows = rows] /\ cs[k] \in CallRecords
        BY <1>4, <1>5
    <2>2. cs[k].list = calls[k].list /\ cs[k].since = calls[k].since
        OBVIOUS
    <2> QED BY <2>1, <2>2 DEF CallRecords
<1>6. calls' \in [Callers -> CallRecords]
    <2>1. \A k \in Callers : calls'[k] \in CallRecords
        BY <1>3, <1>5
    <2> QED BY <2>1 DEF Ends
<1>7. \A k \in Callers : Pending(k) /\ k # c => ~Shares(k) /\ calls'[k] = cs[k]
    BY <1>3 DEF Pending
<1>8. \A k \in Callers : calls'[k].phase \in {"asking", "awaiting"} =>
          k # c /\ ~Shares(k) /\ calls'[k] = cs[k] /\ Pending(k)
    BY <1>3, <1>5 DEF Pending
<1>9. ASSUME NEW k \in Callers, k # c, Pending(k)
      PROVE  calls'[k].list \in Lists /\ InTime(k)' /\ RowsComing(k)' /\ AwaitsAsking(k)'
    <2>1. calls[k].list \in Lists /\ InTime(k) /\ RowsComing(k) /\ AwaitsAsking(k) /\ calls'[k] = cs[k]
        BY <1>7, <1>9 DEF ListInv, PendingRight
    <2>2. calls[k].since \in Nat /\ calls[k].since <= clock /\ calls[k].list \subseteq Users
        BY <1>1 DEF CallRecords
    <2>3. ASSUME NEW u \in Users, cs[k].awaits[u] # NoCall
          PROVE  /\ cs[k].phase = "awaiting" /\ calls'[cs[k].awaits[u]].phase = "asking"
                 /\ calls'[cs[k].awaits[u]].asked <= cs[k].since
        <3> DEFINE a == cs[k].awaits[u]
        <3>0. cs[k].awaits \in [Users -> 0 .. MaxCalls]
            BY DEF CallRecords
        <3>1. a = calls[k].awaits[u] /\ a # c /\ a \in 0 .. MaxCalls
            BY <3>0, <2>3, <1>9
        <3>2. a \in Callers
            BY <2>3, <3>1, DeviceListsAssumption DEF Callers, NoCall
        <3>3. calls[k].phase = "awaiting" /\ calls[a].phase = "asking" /\ calls[a].asked <= calls[k].since
            BY <2>1, <2>3, <3>1 DEF AwaitsAsking
        <3>4. calls'[a] = cs[a]
            BY <3>1, <3>2, <3>3, <1>7 DEF Pending
        <3> QED BY <3>2, <3>3, <3>4
    <2>4. AwaitsAsking(k)'
        BY <2>1, <2>3 DEF AwaitsAsking
    <2>5. ASSUME NEW u \in cs[k].list
          PROVE  \/ u \in cs[k].targets
                 \/ cs[k].phase = "awaiting" /\ cs[k].awaits[u] # NoCall
                 \/ cs[k].rows[u] # Missing /\ cs[k].since - cs[k].rows[u] <= DevicesTTL
        <3>1. u \in calls[k].list /\ u \in Users
            BY <2>2
        <3>2. CASE cs[k].rows[u] = clock
            BY <3>2, <2>2, <1>1, DeviceListsAssumption DEF Missing
        <3>3. CASE cs[k].awaits[u] = calls[k].awaits[u] /\ cs[k].rows[u] = calls[k].rows[u]
            BY <3>1, <3>3, <2>1 DEF RowsComing
        <3> QED BY <3>1, <3>2, <3>3
    <2>6. RowsComing(k)'
        BY <2>1, <2>5 DEF RowsComing
    <2>7. InTime(k)'
        BY <2>1 DEF InTime
    <2> QED BY <2>1, <2>4, <2>6, <2>7
<1>10. PendingRight'
    BY <1>8, <1>9 DEF PendingRight, Pending
<1>11. ASSUME NEW k \in Callers, calls'[k].phase = "sharing" PROVE SharesPending(k)'
    <2>1. ~Shares(k) /\ calls'[k] = cs[k] /\ calls[k].phase = "sharing"
        BY <1>11, <1>3, <1>5
    <2>2. SharesPending(k) /\ calls[k].owner \in 0 .. MaxCalls
        BY <2>1, <1>1 DEF ListInv, SharingRight, CallRecords
    <2>3. calls[k].owner \in Callers /\ calls[k].owner # c
        BY <2>1, <2>2, DeviceListsAssumption DEF SharesPending, Callers, NoCall
    <2>4. calls'[calls[k].owner] = cs[calls[k].owner]
        BY <2>2, <2>3, <1>7 DEF SharesPending
    <2> QED BY <2>1, <2>2, <2>3, <2>4 DEF SharesPending, Pending
<1>12. ASSUME NEW k \in Callers, calls'[k].phase = "done" PROVE DoneRight(k)'
    <2>1. CASE Shares(k)
        <3>1. calls'[k].rows = rows /\ calls'[k].list = calls[c].list /\ calls'[k].since = calls[k].since
              /\ calls[c].list \subseteq Users
            BY <2>1, <1>2, <1>5, <1>1 DEF CallRecords
        <3>2. \A u \in calls[c].list : rows[u] # Missing /\ rows[u] \in Int
                  /\ calls[k].since - rows[u] <= DevicesTTL + 2 * QueryTicks
            BY <2>1, <3>1, <1>2
        <3>3. calls[k].since \in Nat
            BY <1>1 DEF CallRecords
        <3>4. \A u \in calls[c].list : calls[k].since - rows[u] <= 2 * DevicesTTL + 2 * QueryTicks
            BY <3>2, <3>3, DeviceListsAssumption
        <3> QED BY <3>1, <3>2, <3>4 DEF DoneRight
    <2>2. CASE ~Shares(k)
        <3>1. calls'[k] = cs[k] /\ DoneRight(k)
            BY <1>12, <2>2, <1>3 DEF ListInv
        <3>2. calls[k].since \in Nat /\ calls[k].since <= clock /\ calls[k].list \subseteq Users
            BY <1>1 DEF CallRecords
        <3>3. ASSUME NEW u \in cs[k].list
              PROVE  cs[k].rows[u] # Missing /\ cs[k].since - cs[k].rows[u] <= 2 * DevicesTTL + 2 * QueryTicks
            <4>1. u \in calls[k].list /\ u \in Users
                BY <3>2
            <4>2. CASE cs[k].rows[u] = clock
                BY <4>2, <3>2, <1>1, DeviceListsAssumption DEF Missing
            <4>3. CASE cs[k].rows[u] = calls[k].rows[u]
                BY <4>1, <4>3, <3>1 DEF DoneRight
            <4> QED BY <4>1, <4>2, <4>3
        <3> QED BY <3>1, <3>3 DEF DoneRight
    <2> QED BY <2>1, <2>2
<1>13. /\ perList' = [perList EXCEPT ![calls[c].list] = [ts |-> clock, rows |-> rows]]
       /\ listInflight' = [listInflight EXCEPT ![calls[c].list] = NoCall]
    BY DEF ListWritten
<1>14. InflightRight'
    <2>1. ASSUME NEW l \in Lists, listInflight'[l] # NoCall
          PROVE  calls'[listInflight'[l]].phase \in {"asking", "awaiting"} /\ calls'[listInflight'[l]].list = l
        <3> DEFINE o == listInflight[l]
        <3>1. l # calls[c].list /\ listInflight'[l] = o
            BY <2>1, <1>1, <1>2, <1>13
        <3>2. o \in Callers /\ Pending(o) /\ calls[o].list = l
            BY <2>1, <3>1, InflightCallers DEF ListInv, InflightRight
        <3>3. calls'[o] = cs[o]
            BY <3>1, <3>2, <1>7
        <3> QED BY <3>1, <3>2, <3>3 DEF Pending
    <2>2. ASSUME NEW u \in Users, userInflight'[u] # NoCall
          PROVE  calls'[userInflight'[u]].phase = "asking" /\ u \in calls'[userInflight'[u]].targets
        <3> DEFINE a == userInflight[u]
        <3>1. userInflight'[u] = a /\ a # c /\ a \in Callers /\ calls[a].phase = "asking" /\ u \in calls[a].targets
            BY <2>2, InflightCallers DEF ListInv, InflightRight
        <3>2. calls'[a] = cs[a]
            BY <3>1, <1>7 DEF Pending
        <3> QED BY <3>1, <3>2
    <2> QED BY <2>1, <2>2 DEF InflightRight, Pending
<1>15. RowsRight'
    <2>1. \A u \in Users : perUser'[u].ts # Missing => perUser'[u].row = perUser'[u].ts /\ perUser'[u].ts \in 0 .. clock
        <3>1. ASSUME NEW u \in Users, perUser'[u].ts # Missing
              PROVE  perUser'[u].row = perUser'[u].ts /\ perUser'[u].ts \in 0 .. clock
            <4>1. CASE perUser'[u] = perUser[u]
                BY <3>1, <4>1 DEF ListInv, RowsRight
            <4>2. CASE perUser'[u] = [ts |-> clock, row |-> clock]
                BY <1>1, <4>2
            <4> QED BY <4>1, <4>2
        <3> QED BY <3>1
    <2>2. ASSUME NEW l \in Lists, perList'[l].ts # Missing
          PROVE  /\ perList'[l].ts \in 0 .. clock
                 /\ \A u \in l : perList'[l].rows[u] # Missing
                                 /\ perList'[l].ts - perList'[l].rows[u] <= DevicesTTL + 2 * QueryTicks
        <3>1. CASE l = calls[c].list
            BY <3>1, <1>1, <1>2, <1>13
        <3>2. CASE l # calls[c].list
            BY <2>2, <3>2, <1>1, <1>13 DEF ListInv, RowsRight
        <3> QED BY <3>1, <3>2
    <2> QED BY <2>1, <2>2 DEF RowsRight
<1>16. ListsTyped'
    <2>1. perList' \in [Lists -> [ts : Int, rows : [Users -> Int]]] /\ listInflight' \in [Lists -> 0 .. MaxCalls]
        <3>1. [ts |-> clock, rows |-> rows] \in [ts : Int, rows : [Users -> Int]]
            BY <1>1
        <3>2. NoCall \in 0 .. MaxCalls
            BY DeviceListsAssumption DEF NoCall
        <3> QED BY <3>1, <3>2, <1>1, <1>13
    <2>2. \A k \in Callers : calls'[k].since <= clock
        BY <1>1, <1>3, <1>5
    <2> QED BY <2>1, <2>2, <1>1, <1>6 DEF ListsTyped
<1> QED BY <1>10, <1>11, <1>12, <1>14, <1>15, <1>16 DEF ListInv, SharingRight

LEMMA EndsKeeps ==
    ASSUME ListInv, NEW c \in Callers, EndsAfter(c) PROVE ListInv'
<1>1. /\ Pending(c) /\ calls[c].targets = {} /\ calls[c].phase = "awaiting"
      /\ calls' = Ends(calls, c, calls[c].rows) /\ ListWritten(c, calls[c].rows)
      /\ UNCHANGED <<clock, perUser, userInflight>>
    BY DEF EndsAfter, CanGoOn, Pending
<1>2. \A u \in calls[c].list : calls[c].rows[u] # Missing /\ calls[c].since - calls[c].rows[u] <= DevicesTTL
    BY <1>1, GoesOnWhole DEF EndsAfter
<1>3. calls \in [Callers -> CallRecords] /\ calls[c].rows \in [Users -> Int]
    BY DEF ListInv, ListsTyped, CallRecords
<1>4. \A k \in Callers : Pending(k) => \A u \in Users : calls[k].awaits[u] # NoCall => calls[k].awaits[u] # c
    BY <1>1 DEF ListInv, PendingRight, AwaitsAsking
<1>5. /\ perUser \in [Users -> [ts : Int, row : Int]] /\ userInflight \in [Users -> 0 .. MaxCalls]
      /\ \A u \in Users : userInflight[u] # NoCall => userInflight[u] # c
    BY <1>1 DEF ListInv, ListsTyped, InflightRight
<1> QED BY <1>1, <1>2, <1>3, <1>4, <1>5, EndKeeps

LEMMA AnswerKeeps ==
    ASSUME ListInv, NEW c \in Callers, Answer(c) PROVE ListInv'
<1>1. /\ Pending(c) /\ calls[c].phase = "asking"
      /\ calls' = Ends(Handed(c), c, FetchedRows(c)) /\ ListWritten(c, FetchedRows(c))
      /\ perUser' = UsersWritten(c) /\ userInflight' = Forgotten(c) /\ clock' = clock
    BY DEF Answer, Pending
<1>2. /\ calls \in [Callers -> CallRecords] /\ calls[c].rows \in [Users -> Int] /\ clock \in Nat
      /\ calls[c].list \subseteq Users /\ calls[c].since \in Nat /\ calls[c].since <= clock
      /\ perUser \in [Users -> [ts : Int, row : Int]] /\ userInflight \in [Users -> 0 .. MaxCalls]
    BY DEF ListInv, ListsTyped, CallRecords
<1>3. FetchedRows(c) \in [Users -> Int]
    BY <1>2 DEF FetchedRows
<1>4. ASSUME NEW u \in calls[c].list
      PROVE  FetchedRows(c)[u] # Missing /\ calls[c].since - FetchedRows(c)[u] <= DevicesTTL
    <2>1. CASE u \in calls[c].targets
        <3>1. FetchedRows(c)[u] = clock
            BY <2>1, <1>2 DEF FetchedRows
        <3> QED BY <3>1, <1>2, DeviceListsAssumption DEF Missing
    <2>2. CASE u \notin calls[c].targets
        <3>1. FetchedRows(c)[u] = calls[c].rows[u]
            BY <2>2, <1>2 DEF FetchedRows
        <3>2. RowsComing(c)
            BY <1>1 DEF ListInv, PendingRight
        <3> QED BY <3>1, <3>2, <2>2, <1>1 DEF RowsComing
    <2> QED BY <2>1, <2>2
<1>5. ASSUME NEW k \in Callers
      PROVE  /\ Handed(c)[k] \in CallRecords
             /\ Handed(c)[k].phase = calls[k].phase /\ Handed(c)[k].list = calls[k].list
             /\ Handed(c)[k].since = calls[k].since /\ Handed(c)[k].asked = calls[k].asked
             /\ Handed(c)[k].owner = calls[k].owner /\ Handed(c)[k].targets = calls[k].targets
             /\ \A u \in Users : /\ Handed(c)[k].awaits[u] = IF calls[k].awaits[u] = c THEN NoCall ELSE calls[k].awaits[u]
                                 /\ Handed(c)[k].rows[u] = IF calls[k].awaits[u] = c THEN clock ELSE calls[k].rows[u]
    <2> DEFINE rs == [u \in Users |-> IF calls[k].awaits[u] = c THEN clock ELSE calls[k].rows[u]]
               as == [u \in Users |-> IF calls[k].awaits[u] = c THEN NoCall ELSE calls[k].awaits[u]]
    <2>1. calls[k] \in CallRecords
        BY <1>2
    <2>2. Handed(c)[k] = [calls[k] EXCEPT !.rows = rs, !.awaits = as]
        BY <2>1 DEF Handed, CallRecords
    <2>3. rs \in [Users -> Int] /\ as \in [Users -> 0 .. MaxCalls]
        BY <2>1, <1>2, DeviceListsAssumption DEF CallRecords, NoCall
    <2>4. \A u \in Users : /\ as[u] = IF calls[k].awaits[u] = c THEN NoCall ELSE calls[k].awaits[u]
                           /\ rs[u] = IF calls[k].awaits[u] = c THEN clock ELSE calls[k].rows[u]
        OBVIOUS
    <2> HIDE DEF rs, as
    <2>5. /\ Handed(c)[k] \in CallRecords /\ Handed(c)[k].rows = rs /\ Handed(c)[k].awaits = as
          /\ Handed(c)[k].phase = calls[k].phase /\ Handed(c)[k].list = calls[k].list
          /\ Handed(c)[k].since = calls[k].since /\ Handed(c)[k].asked = calls[k].asked
          /\ Handed(c)[k].owner = calls[k].owner /\ Handed(c)[k].targets = calls[k].targets
        BY <2>1, <2>2, <2>3 DEF CallRecords
    <2> QED BY <2>4, <2>5
<1>6. Handed(c) \in [Callers -> CallRecords]
    BY <1>5 DEF Handed
<1>7. c # NoCall
    BY DEF Callers, NoCall
<1>8. \A k \in Callers :
          /\ \A u \in Users : Pending(k) /\ Handed(c)[k].awaits[u] # NoCall =>
                 Handed(c)[k].awaits[u] = calls[k].awaits[u] /\ Handed(c)[k].awaits[u] # c
          /\ \A u \in Users :
                 \/ Handed(c)[k].awaits[u] = calls[k].awaits[u] /\ Handed(c)[k].rows[u] = calls[k].rows[u]
                 \/ Handed(c)[k].rows[u] = clock
    BY <1>5
<1>9. /\ perUser' \in [Users -> [ts : Int, row : Int]]
      /\ \A u \in Users : perUser'[u] = perUser[u] \/ perUser'[u] = [ts |-> clock, row |-> clock]
    BY <1>1, <1>2 DEF UsersWritten
<1>10. userInflight' \in [Users -> 0 .. MaxCalls]
    BY <1>1, <1>2, DeviceListsAssumption DEF Forgotten, NoCall
<1>11. ASSUME NEW u \in Users, userInflight'[u] # NoCall
       PROVE  userInflight'[u] = userInflight[u] /\ userInflight[u] # c
    <2>1. userInflight'[u] = userInflight[u] /\ u \notin calls[c].targets
        BY <1>1, <1>11 DEF Forgotten
    <2> QED BY <2>1, <1>11 DEF ListInv, InflightRight
<1>12. \A k \in Callers :
           /\ Handed(c)[k].phase = calls[k].phase /\ Handed(c)[k].list = calls[k].list
           /\ Handed(c)[k].since = calls[k].since
           /\ Handed(c)[k].asked = calls[k].asked /\ Handed(c)[k].owner = calls[k].owner
           /\ Handed(c)[k].targets = calls[k].targets
           /\ \A u \in Users : Pending(k) /\ Handed(c)[k].awaits[u] # NoCall =>
                  Handed(c)[k].awaits[u] = calls[k].awaits[u] /\ Handed(c)[k].awaits[u] # c
           /\ \A u \in Users :
                  \/ Handed(c)[k].awaits[u] = calls[k].awaits[u] /\ Handed(c)[k].rows[u] = calls[k].rows[u]
                  \/ Handed(c)[k].rows[u] = clock
    BY <1>5, <1>8
<1>13. ASSUME NEW rows \in [Users -> Int], rows = FetchedRows(c),
              NEW cs \in [Callers -> CallRecords], cs = Handed(c)
       PROVE  ListInv'
    <2>1. calls' = Ends(cs, c, rows) /\ ListWritten(c, rows) /\ clock' = clock /\ Pending(c)
        BY <1>1, <1>13
    <2>2. \A u \in calls[c].list : rows[u] # Missing /\ calls[c].since - rows[u] <= DevicesTTL
        BY <1>4, <1>13
    <2>3. \A k \in Callers :
           /\ cs[k].phase = calls[k].phase /\ cs[k].list = calls[k].list /\ cs[k].since = calls[k].since
           /\ cs[k].asked = calls[k].asked /\ cs[k].owner = calls[k].owner /\ cs[k].targets = calls[k].targets
           /\ \A u \in Users : Pending(k) /\ cs[k].awaits[u] # NoCall =>
                  cs[k].awaits[u] = calls[k].awaits[u] /\ cs[k].awaits[u] # c
           /\ \A u \in Users : \/ cs[k].awaits[u] = calls[k].awaits[u] /\ cs[k].rows[u] = calls[k].rows[u]
                               \/ cs[k].rows[u] = clock
        BY <1>12, <1>13
    <2> QED BY <2>1, <2>2, <2>3, <1>9, <1>10, <1>11, EndKeeps
<1> QED BY <1>3, <1>6, <1>13

LEMMA FailureKeeps ==
    ASSUME ListInv, NEW c \in Callers, QueryFails(c) PROVE ListInv'
<1> DEFINE failing == {c} \cup Awaiters(c)
           lost == failing \cup Sharers(failing)
<1>1. /\ calls[c].phase = "asking"
      /\ calls' = [k \in Callers |-> IF k \in lost THEN [calls[k] EXCEPT !.phase = "failed"] ELSE calls[k]]
      /\ listInflight' = ListsForgotten(failing) /\ userInflight' = Forgotten(c)
      /\ UNCHANGED <<clock, perUser, perList>>
    BY DEF QueryFails
<1>2. calls \in [Callers -> CallRecords] /\ failing \subseteq Callers
    BY DEF ListInv, ListsTyped, Awaiters
<1>3. \A k \in Callers : Pending(k) => (k \in lost <=> k \in failing)
    BY DEF Pending, Sharers
<1>4. \A k \in Callers : calls[k].phase = "asking" => (k \in lost <=> k = c)
    BY <1>3 DEF Pending, Awaiters
<1>5. \A k \in Callers : calls[k].phase = "sharing" /\ k \notin lost => calls[k].owner \notin failing
    BY DEF Sharers
<1>6. \A k \in Callers : calls[k].phase = "awaiting" /\ k \notin lost => \A u \in Users : calls[k].awaits[u] # c
    BY DEF Awaiters
<1>0. c \in lost
    OBVIOUS
<1> HIDE DEF lost, failing
<1>7. \A k \in Callers : /\ k \notin lost => calls'[k] = calls[k]
                         /\ k \in lost => calls'[k].phase = "failed" /\ calls'[k] \in CallRecords
                                          /\ calls'[k].since = calls[k].since
    <2>1. \A k \in Callers : calls'[k] = IF k \in lost THEN [calls[k] EXCEPT !.phase = "failed"] ELSE calls[k]
        BY <1>1
    <2>2. ASSUME NEW r \in CallRecords
          PROVE  /\ [r EXCEPT !.phase = "failed"] \in CallRecords
                 /\ [r EXCEPT !.phase = "failed"].phase = "failed" /\ [r EXCEPT !.phase = "failed"].since = r.since
        BY DEF CallRecords
    <2>3. \A k \in Callers : calls[k] \in CallRecords
        BY <1>2
    <2> QED BY <2>1, <2>2, <2>3
<1>8. calls' \in [Callers -> CallRecords]
    BY <1>1, <1>2, <1>7
<1>9. ASSUME NEW k \in Callers, k \notin lost, Pending(k)
      PROVE  calls'[k].list \in Lists /\ InTime(k)' /\ RowsComing(k)' /\ AwaitsAsking(k)'
    <2>1. calls[k].list \in Lists /\ InTime(k) /\ RowsComing(k) /\ AwaitsAsking(k) /\ calls'[k] = calls[k]
        BY <1>7, <1>9 DEF ListInv, PendingRight
    <2>2. ASSUME NEW u \in Users, calls[k].awaits[u] # NoCall
          PROVE  calls'[calls[k].awaits[u]] = calls[calls[k].awaits[u]]
        <3>0. calls[k].awaits \in [Users -> 0 .. MaxCalls]
            BY <1>2 DEF CallRecords
        <3>1. calls[k].awaits[u] \in Callers
            BY <3>0, <2>2, DeviceListsAssumption DEF Callers, NoCall
        <3>2. calls[k].awaits[u] # c /\ calls[calls[k].awaits[u]].phase = "asking"
            BY <2>1, <2>2, <1>6, <1>9 DEF AwaitsAsking
        <3> QED BY <3>1, <3>2, <1>4, <1>7
    <2>3. AwaitsAsking(k)'
        BY <2>1, <2>2 DEF AwaitsAsking
    <2> QED BY <2>1, <2>3, <1>1 DEF InTime, RowsComing
<1>10. PendingRight'
    <2>1. \A k \in Callers : Pending(k)' => k \notin lost /\ Pending(k)
        BY <1>7 DEF Pending
    <2> QED BY <2>1, <1>9 DEF PendingRight
<1>11. ASSUME NEW k \in Callers, calls'[k].phase = "sharing" PROVE SharesPending(k)'
    <2>1. k \notin lost /\ calls'[k] = calls[k] /\ calls[k].phase = "sharing"
        BY <1>7, <1>11
    <2>2. SharesPending(k) /\ calls[k].owner \in 0 .. MaxCalls
        BY <2>1, <1>2 DEF ListInv, SharingRight, CallRecords
    <2>3. calls[k].owner \in Callers /\ Pending(calls[k].owner)
        BY <2>2, DeviceListsAssumption DEF SharesPending, Callers, NoCall
    <2>4. calls'[calls[k].owner] = calls[calls[k].owner]
        BY <2>1, <2>3, <1>3, <1>5, <1>7
    <2> QED BY <2>1, <2>2, <2>3, <2>4 DEF SharesPending, Pending
<1>12. \A k \in Callers : calls'[k].phase = "done" => DoneRight(k)'
    BY <1>7 DEF ListInv, DoneRight
<1>13. InflightRight'
    <2>1. ASSUME NEW l \in Lists, listInflight'[l] # NoCall
          PROVE  calls'[listInflight'[l]].phase \in {"asking", "awaiting"} /\ calls'[listInflight'[l]].list = l
        <3> DEFINE o == listInflight[l]
        <3>1. listInflight'[l] = o /\ o \notin failing
            BY <2>1, <1>1 DEF ListsForgotten
        <3>2. o \in Callers /\ Pending(o) /\ calls[o].list = l
            BY <2>1, <3>1, InflightCallers DEF ListInv, InflightRight
        <3>3. calls'[o] = calls[o]
            BY <3>1, <3>2, <1>3, <1>7
        <3> QED BY <3>1, <3>2, <3>3 DEF Pending
    <2>2. ASSUME NEW u \in Users, userInflight'[u] # NoCall
          PROVE  calls'[userInflight'[u]].phase = "asking" /\ u \in calls'[userInflight'[u]].targets
        <3> DEFINE a == userInflight[u]
        <3>1. userInflight'[u] = a /\ u \notin calls[c].targets
            BY <2>2, <1>1 DEF Forgotten
        <3>2. a \in Callers /\ calls[a].phase = "asking" /\ u \in calls[a].targets
            BY <2>2, <3>1, InflightCallers DEF ListInv, InflightRight
        <3>3. calls'[a] = calls[a]
            BY <3>1, <3>2, <1>4, <1>7
        <3> QED BY <3>1, <3>2, <3>3
    <2> QED BY <2>1, <2>2 DEF InflightRight, Pending
<1>14. ListsTyped'
    <2>1. listInflight' \in [Lists -> 0 .. MaxCalls] /\ userInflight' \in [Users -> 0 .. MaxCalls]
        BY <1>1, DeviceListsAssumption DEF ListsForgotten, Forgotten, NoCall, ListInv, ListsTyped
    <2>2. \A k \in Callers : calls'[k].since <= clock
        BY <1>7 DEF ListInv, ListsTyped
    <2> QED BY <2>1, <2>2, <1>1, <1>8 DEF ListInv, ListsTyped
<1> QED BY <1>1, <1>10, <1>11, <1>12, <1>13, <1>14 DEF ListInv, RowsRight, SharingRight

LEMMA TickKeeps == ListInv /\ ClockTick => ListInv'
<1> SUFFICES ASSUME ListInv, ClockTick PROVE ListInv'
    OBVIOUS
<1>1. /\ clock \in Nat /\ clock' = clock + 1 /\ UNCHANGED <<perUser, perList, userInflight, listInflight, calls>>
      /\ calls \in [Callers -> CallRecords]
    BY DEF ListInv, ListsTyped, ClockTick
<1>2. ASSUME NEW c \in Callers, Pending(c)
      PROVE  InTime(c)'
    <2>1. InTime(c) /\ AwaitsAsking(c) /\ calls[c].since \in Nat /\ calls[c].asked \in Nat
          /\ calls[c].awaits \in [Users -> 0 .. MaxCalls]
        BY <1>1, <1>2 DEF ListInv, PendingRight, CallRecords
    <2>2. CASE calls[c].phase = "asking"
        <3>1. clock - calls[c].asked < QueryTicks
            BY <2>2 DEF ClockTick
        <3> QED BY <2>1, <2>2, <3>1, <1>1, DeviceListsAssumption DEF InTime
    <2>3. CASE calls[c].phase = "awaiting"
        <3>1. PICK u \in Users : calls[c].awaits[u] # NoCall
            BY <2>3 DEF ClockTick, CanGoOn
        <3> DEFINE a == calls[c].awaits[u]
        <3>2. a \in Callers /\ calls[a].phase = "asking" /\ calls[a].asked <= calls[c].since
            BY <2>1, <3>1, DeviceListsAssumption DEF AwaitsAsking, Callers, NoCall
        <3>3. clock - calls[a].asked < QueryTicks /\ calls[a].asked \in Nat
            BY <3>2, <1>1 DEF ClockTick, CallRecords
        <3> QED BY <2>1, <2>3, <3>2, <3>3, <1>1, DeviceListsAssumption DEF InTime
    <2> QED BY <2>2, <2>3, <1>2 DEF Pending
<1>3. PendingRight'
    BY <1>1, <1>2 DEF ListInv, PendingRight, Pending, RowsComing, AwaitsAsking
<1>4. ListsTyped' /\ RowsRight'
    BY <1>1 DEF ListInv, ListsTyped, RowsRight, CallRecords
<1> QED BY <1>1, <1>3, <1>4 DEF ListInv, SharingRight, SharesPending, InflightRight, DoneRight, Pending

LEMMA ListSteps == ListInv /\ [ListsNext]_listVars => ListInv'
<1> SUFFICES ASSUME ListInv, [ListsNext]_listVars PROVE ListInv'
    OBVIOUS
<1>1. ASSUME NEW c \in Callers, NEW list \in Lists,
             CallCached(c, list) \/ CallShares(c, list) \/ CallFetches(c, list)
      PROVE  ListInv'
    BY <1>1, CachedKeeps, SharesKeeps, FetchesKeeps
<1>2. ASSUME NEW c \in Callers, AsksAfter(c) \/ EndsAfter(c) \/ Answer(c) \/ QueryFails(c) PROVE ListInv'
    BY <1>2, AsksKeeps, EndsKeeps, AnswerKeeps, FailureKeeps
<1>3. CASE UNCHANGED listVars
    BY <1>3 DEF listVars, ListInv, ListsTyped, RowsRight, PendingRight, InTime, RowsComing, AwaitsAsking,
                SharingRight, SharesPending, InflightRight, DoneRight, Pending
<1> QED BY <1>1, <1>2, <1>3, TickKeeps DEF ListsNext

\* A list of devices is never older than two lifetimes of an entry and two queries,
\* and nobody waits for a call that has settled: for any users, lists and calls,
\* whichever share, await each other or fail.
THEOREM ListsAreSound == ListsSpec => []ListsSound
<1>1. ListInv => ListsSound
    <2> SUFFICES ASSUME ListInv PROVE ListsSound
        OBVIOUS
    <2>1. ListsFresh
        BY DEF ListInv, ListsFresh, DoneRight
    <2> DEFINE ongoing == {c \in Callers : calls[c].phase \in {"asking", "awaiting"}}
    <2>2. \A l \in Lists : listInflight[l] \in ongoing \cup {NoCall}
        BY InflightCallers DEF ListInv, InflightRight, Pending
    <2>3. \A u \in Users : userInflight[u] # NoCall => calls[userInflight[u]].phase = "asking"
        BY DEF ListInv, InflightRight
    <2>4. ASSUME NEW c \in Callers, calls[c].phase = "sharing" PROVE calls[c].owner \in ongoing
        <3>1. calls[c].owner \in 0 .. MaxCalls /\ SharesPending(c)
            BY <2>4 DEF ListInv, ListsTyped, CallRecords, SharingRight
        <3> QED BY <3>1, DeviceListsAssumption DEF SharesPending, Pending, Callers, NoCall
    <2>5. \A c \in ongoing, u \in Users : calls[c].awaits[u] # NoCall => calls[calls[c].awaits[u]].phase = "asking"
        BY DEF ListInv, PendingRight, AwaitsAsking, Pending
    <2> HIDE DEF ListInv
    <2>6. InflightGoesOn
        BY <2>2, <2>3, <2>4, <2>5 DEF InflightGoesOn
    <2> QED BY <2>1, <2>6 DEF ListsSound
<1> QED BY ListsInitially, ListSteps, <1>1, PTL DEF ListsSpec

(***************************************************************************)
(* Group messages.  A state of the record goes back to the distribution    *)
(* message it was made from, and can still give a key only of an iteration *)
(* that is not before its start.  A distribution message is spent for a    *)
(* message if its state cannot give the key any more or is gone: each      *)
(* reading spends one that was not, and none comes back.                   *)
(***************************************************************************)
KeyStates == [id : Nat, iteration : Nat, kept : SUBSET Nat]
Stanzas == [id : Nat, iteration : Nat, start : Nat, withKey : BOOLEAN]
Arrivals == [id : Nat, start : Nat]

GroupTyped ==
    /\ own \in KeyStates /\ states \in Seq(KeyStates) /\ arrived \in Seq(Arrivals)
    /\ posted \in Seq(Stanzas) /\ DOMAIN posted \subseteq Sends
    /\ reading \in DOMAIN posted \cup {Nobody}
    /\ reads \in [Sends -> Nat]

Gives(s, t) == s.iteration <= t \/ t \in s.kept

\* The distribution message of the state at i.
Origin(i) == Len(arrived) + 1 - i

StateFrom(s, a) ==
    /\ s.id = a.id /\ a.start <= s.iteration
    /\ \A t \in s.kept : a.start <= t /\ t < s.iteration

StatesFrom ==
    /\ Len(states) <= Len(arrived)
    /\ \A i \in DOMAIN states : StateFrom(states[i], arrived[Origin(i)])

Usable(n) ==
    {j \in DOMAIN arrived : arrived[j].id = posted[n].id /\ arrived[j].start <= posted[n].iteration}

\* Position and distribution message lead to one another.
Spent(n) ==
    {j \in Usable(n) : Origin(j) \notin DOMAIN states \/ ~Gives(states[Origin(j)], posted[n].iteration)}

ReadsSpend == \A n \in Sends : reads[n] <= IF n \in DOMAIN posted THEN Cardinality(Spent(n)) ELSE 0

GroupInv == GroupTyped /\ StatesFrom /\ ReadsSpend

LEMMA PositionsFinite ==
    ASSUME NEW k \in Nat, NEW S, S \subseteq 1 .. k PROVE IsFiniteSet(S) /\ Cardinality(S) \in Nat
<1>1. IsFiniteSet(1 .. k)
    BY FS_Interval
<1>2. IsFiniteSet(S)
    BY <1>1, FS_Subset
<1> QED BY <1>2, FS_CardinalityType

LEMMA SpentFinite ==
    ASSUME GroupTyped, NEW n PROVE IsFiniteSet(Usable(n)) /\ IsFiniteSet(Spent(n)) /\ Cardinality(Spent(n)) \in Nat
<1>1. DOMAIN arrived = 1 .. Len(arrived) /\ Len(arrived) \in Nat
    BY DEF GroupTyped
<1>2. Usable(n) \subseteq 1 .. Len(arrived) /\ Spent(n) \subseteq 1 .. Len(arrived)
    BY <1>1 DEF Usable, Spent
<1> QED BY <1>1, <1>2, PositionsFinite

LEMMA SpentFiniteAfter ==
    ASSUME GroupTyped', NEW n PROVE IsFiniteSet(Spent(n)') /\ Cardinality(Spent(n)') \in Nat
<1>1. DOMAIN arrived' = 1 .. Len(arrived') /\ Len(arrived') \in Nat
    BY DEF GroupTyped
<1>2. Spent(n)' \subseteq 1 .. Len(arrived')
    BY <1>1 DEF Usable, Spent
<1> QED BY <1>1, <1>2, PositionsFinite

\* What a step must do, if no more is spent than was, and whatever was spent stays so.
LEMMA SpentStays ==
    ASSUME GroupInv, GroupTyped', StatesFrom', reads' = reads,
           \A n \in DOMAIN posted : n \in DOMAIN posted' /\ Spent(n) \subseteq Spent(n)'
    PROVE  GroupInv'
<1>1. ASSUME NEW n \in Sends PROVE reads'[n] <= IF n \in DOMAIN posted' THEN Cardinality(Spent(n)') ELSE 0
    <2>1. IsFiniteSet(Spent(n)') /\ Cardinality(Spent(n)') \in Nat
        BY SpentFiniteAfter
    <2>2. reads[n] \in Nat /\ reads'[n] = reads[n] /\ (n \notin DOMAIN posted => reads[n] = 0)
        BY DEF GroupInv, GroupTyped, ReadsSpend
    <2>3. CASE n \in DOMAIN posted
        <3>1. Spent(n) \subseteq Spent(n)' /\ n \in DOMAIN posted'
            BY <2>3
        <3>2. Cardinality(Spent(n)) <= Cardinality(Spent(n)') /\ Cardinality(Spent(n)) \in Nat
            BY <3>1, <2>1, FS_Subset, FS_CardinalityType
        <3> QED BY <2>1, <2>2, <2>3, <3>1, <3>2 DEF GroupInv, ReadsSpend
    <2>4. CASE n \notin DOMAIN posted
        BY <2>1, <2>2, <2>4
    <2> QED BY <2>3, <2>4
<1> QED BY <1>1 DEF GroupInv, ReadsSpend

LEMMA KeyTakenTyped ==
    ASSUME NEW s \in KeyStates, NEW t \in Nat
    PROVE  /\ KeyTaken(s, t) \in KeyStates /\ KeyTaken(s, t).id = s.id
           /\ \A q \in Nat : Gives(KeyTaken(s, t), q) => Gives(s, q)
           /\ (\A k \in s.kept : k < s.iteration) => ~Gives(KeyTaken(s, t), t)
           /\ KeyTaken(s, t).iteration >= s.iteration
           /\ (\A k \in s.kept : k < s.iteration) => \A k \in KeyTaken(s, t).kept : k < KeyTaken(s, t).iteration
<1>1. CASE s.iteration > t
    <2>1. KeyTaken(s, t) = [s EXCEPT !.kept = s.kept \ {t}]
        BY <1>1 DEF KeyTaken, KeyStates
    <2>2. KeyTaken(s, t) \in KeyStates /\ KeyTaken(s, t).id = s.id /\ KeyTaken(s, t).iteration = s.iteration
          /\ KeyTaken(s, t).kept = s.kept \ {t} /\ s.iteration \in Nat
        BY <2>1 DEF KeyStates
    <2> QED BY <2>2, <1>1 DEF Gives
<1>2. CASE ~(s.iteration > t)
    <2>1. s.iteration \in Nat /\ s.kept \subseteq Nat /\ s.iteration .. t - 1 \subseteq Nat
        BY DEF KeyStates
    <2> DEFINE more == s.kept \cup (s.iteration .. t - 1)
    <2>2. KeyTaken(s, t) = [s EXCEPT !.iteration = t + 1, !.kept = more]
        BY <1>2 DEF KeyTaken, KeyStates
    <2>4. more \in SUBSET Nat /\ t + 1 \in Nat
        BY <2>1
    <2>3. KeyTaken(s, t) \in KeyStates /\ KeyTaken(s, t).id = s.id /\ KeyTaken(s, t).iteration = t + 1
          /\ KeyTaken(s, t).kept = s.kept \cup (s.iteration .. t - 1)
        <3> HIDE DEF more
        <3>1. /\ KeyTaken(s, t) \in KeyStates /\ KeyTaken(s, t).id = s.id /\ KeyTaken(s, t).iteration = t + 1
              /\ KeyTaken(s, t).kept = more
            BY <2>2, <2>4 DEF KeyStates
        <3> QED BY <3>1 DEF more
    <2> QED BY <2>1, <2>3, <1>2 DEF Gives
<1> QED BY <1>1, <1>2

LEMMA SenderInitially == SenderInit => GroupInv
<1> SUFFICES ASSUME SenderInit PROVE GroupInv
    OBVIOUS
<1>1. own \in KeyStates
    BY DEF SenderInit, NewState, KeyStates
<1>2. GroupTyped
    BY <1>1 DEF SenderInit, GroupTyped, Sends, Nobody
<1> QED BY <1>2 DEF GroupInv, SenderInit, StatesFrom, ReadsSpend

LEMMA SendGroupKeeps ==
    ASSUME GroupInv, NEW withKey \in BOOLEAN, SendGroup(withKey) PROVE GroupInv'
<1>1. Target \in Nat /\ own.iteration \in Nat /\ own.id \in Nat /\ own \in KeyStates
    BY DEF GroupInv, GroupTyped, KeyStates, Target
<1> DEFINE m == [id |-> own.id, iteration |-> Target, start |-> own.iteration, withKey |-> withKey]
<1>2. m \in Stanzas
    BY <1>1 DEF Stanzas
<1>3. /\ posted' = Append(posted, m) /\ own' = KeyTaken(own, Target) /\ Len(posted) < MaxGroupSends
      /\ UNCHANGED <<states, opened, reading, arrived, readSince, reads>>
    BY DEF SendGroup, Sendable
<1> HIDE DEF m
<1>4. posted \in Seq(Stanzas)
    BY DEF GroupInv, GroupTyped
<1>5. /\ posted' \in Seq(Stanzas) /\ DOMAIN posted' \subseteq Sends /\ DOMAIN posted \subseteq DOMAIN posted'
      /\ \A n \in DOMAIN posted : posted'[n] = posted[n]
    BY <1>2, <1>3, <1>4, SenderKeysAssumption DEF Sends
<1>6. own' \in KeyStates
    BY <1>1, <1>3, KeyTakenTyped
<1>7. GroupTyped'
    BY <1>3, <1>5, <1>6 DEF GroupInv, GroupTyped
<1>8. StatesFrom'
    BY <1>3 DEF GroupInv, StatesFrom, StateFrom, Origin
<1>9. \A n \in DOMAIN posted : n \in DOMAIN posted' /\ Spent(n) \subseteq Spent(n)'
    BY <1>3, <1>5 DEF Spent, Usable, Origin
<1> QED BY <1>3, <1>7, <1>8, <1>9, SpentStays

LEMMA OwnKeeps ==
    ASSUME GroupInv, SendGroupFails \/ CreateSession PROVE GroupInv'
<1>1. Target \in Nat /\ own \in KeyStates /\ own.id \in Nat
    BY DEF GroupInv, GroupTyped, KeyStates, Target
<1>2. own' \in KeyStates
    BY <1>1, KeyTakenTyped DEF SendGroupFails, CreateSession, NewState, KeyStates
<1>3. UNCHANGED <<posted, states, reading, arrived, reads>>
    BY DEF SendGroupFails, CreateSession
<1> QED BY <1>2, <1>3
        DEF GroupInv, GroupTyped, StatesFrom, StateFrom, Origin, ReadsSpend, Spent, Usable

\* What a distribution message does to the record and to the list of them.
LEMMA KeyArrives ==
    ASSUME GroupInv, NEW n \in Sends, ReadKey(n)
    PROVE  \E most \in 1 .. Len(states) + 1, s \in KeyStates, a \in Arrivals :
              /\ most = IF Len(states) < MaxStates THEN Len(states) + 1 ELSE MaxStates
              /\ StateFrom(s, a) /\ s.id = posted[n].id /\ s.iteration = a.start
              /\ states' \in Seq(KeyStates) /\ Len(states') = most /\ states'[1] = s
              /\ \A i \in 2 .. most : i - 1 \in DOMAIN states /\ states'[i] = states[i - 1]
              /\ arrived' \in Seq(Arrivals) /\ Len(arrived') = Len(arrived) + 1 /\ arrived'[Len(arrived) + 1] = a
              /\ \A j \in DOMAIN arrived : j \in DOMAIN arrived' /\ arrived'[j] = arrived[j]
<1> DEFINE s == NewState(posted[n].id, posted[n].start)
           a == [id |-> posted[n].id, start |-> posted[n].start]
           most == IF Len(states) < MaxStates THEN Len(states) + 1 ELSE MaxStates
<1>1. posted[n] \in Stanzas /\ n \in DOMAIN posted
    BY DEF ReadKey, GroupInv, GroupTyped
<1>2. s \in KeyStates /\ a \in Arrivals /\ StateFrom(s, a) /\ s.id = posted[n].id /\ s.iteration = a.start
    BY <1>1 DEF Stanzas, KeyStates, Arrivals, NewState, StateFrom
<1>3. states' = SubSeq(<<s>> \o states, 1, most) /\ arrived' = Append(arrived, a)
    BY DEF ReadKey, AddState
<1> HIDE DEF s, a
<1>4. states \in Seq(KeyStates) /\ arrived \in Seq(Arrivals) /\ Len(states) <= Len(arrived)
    BY DEF GroupInv, GroupTyped, StatesFrom
<1>5. most \in 1 .. Len(states) + 1
    BY <1>4, SenderKeysAssumption
<1>8. most = IF Len(states) < MaxStates THEN Len(states) + 1 ELSE MaxStates
    OBVIOUS
<1> HIDE DEF most
<1>6. /\ states' \in Seq(KeyStates) /\ Len(states') = most /\ states'[1] = s
      /\ \A i \in 2 .. most : i - 1 \in DOMAIN states /\ states'[i] = states[i - 1]
    <2> DEFINE all == <<s>> \o states
    <2>1. /\ all \in Seq(KeyStates) /\ Len(all) = Len(states) + 1 /\ all[1] = s
          /\ \A i \in 2 .. Len(states) + 1 : i - 1 \in DOMAIN states /\ all[i] = states[i - 1]
        BY <1>2, <1>4
    <2> HIDE DEF all
    <2>2. states' = SubSeq(all, 1, most)
        BY <1>3 DEF all
    <2>3. /\ SubSeq(all, 1, most) \in Seq(KeyStates) /\ Len(SubSeq(all, 1, most)) = most
          /\ \A i \in 1 .. most : SubSeq(all, 1, most)[i] = all[i]
        BY <2>1, <1>5
    <2> QED BY <2>1, <2>2, <2>3, <1>5
<1>7. /\ arrived' \in Seq(Arrivals) /\ Len(arrived') = Len(arrived) + 1 /\ arrived'[Len(arrived) + 1] = a
      /\ \A j \in DOMAIN arrived : j \in DOMAIN arrived' /\ arrived'[j] = arrived[j]
    BY <1>2, <1>3, <1>4
<1> QED BY <1>2, <1>5, <1>6, <1>7, <1>8

\* It keeps the types, the origin of every state, and what was spent.
LEMMA ReadKeyKeeps ==
    ASSUME GroupInv, NEW n \in Sends, ReadKey(n) PROVE GroupInv'
<1>1. posted[n] \in Stanzas /\ n \in DOMAIN posted
    BY DEF ReadKey, GroupInv, GroupTyped
<1>2. PICK most \in 1 .. Len(states) + 1, s \in KeyStates, a \in Arrivals :
              /\ most = IF Len(states) < MaxStates THEN Len(states) + 1 ELSE MaxStates
              /\ StateFrom(s, a) /\ s.id = posted[n].id /\ s.iteration = a.start
              /\ states' \in Seq(KeyStates) /\ Len(states') = most /\ states'[1] = s
              /\ \A i \in 2 .. most : i - 1 \in DOMAIN states /\ states'[i] = states[i - 1]
              /\ arrived' \in Seq(Arrivals) /\ Len(arrived') = Len(arrived) + 1 /\ arrived'[Len(arrived) + 1] = a
              /\ \A j \in DOMAIN arrived : j \in DOMAIN arrived' /\ arrived'[j] = arrived[j]
    BY KeyArrives
<1>3. reading' = n /\ UNCHANGED <<own, posted, reads>>
    BY DEF ReadKey
<1>4. states \in Seq(KeyStates) /\ arrived \in Seq(Arrivals) /\ Len(states) <= Len(arrived)
    BY DEF GroupInv, GroupTyped, StatesFrom
<1>5. most \in 1 .. Len(states) + 1
    BY <1>2
<1>6. /\ states' \in Seq(KeyStates) /\ Len(states') = most /\ states'[1] = s
      /\ \A i \in 2 .. most : i - 1 \in DOMAIN states /\ states'[i] = states[i - 1]
    BY <1>2
<1>7. /\ arrived' \in Seq(Arrivals) /\ Len(arrived') = Len(arrived) + 1 /\ arrived'[Len(arrived) + 1] = a
      /\ \A j \in DOMAIN arrived : j \in DOMAIN arrived' /\ arrived'[j] = arrived[j]
    BY <1>2
<1>8. GroupTyped'
    BY <1>1, <1>3, <1>6, <1>7 DEF GroupInv, GroupTyped
<1>9. StatesFrom'
    <2>1. Len(states') <= Len(arrived')
        BY <1>4, <1>5, <1>6, <1>7
    <2>2. ASSUME NEW i \in DOMAIN states' PROVE StateFrom(states'[i], arrived'[Len(arrived') + 1 - i])
        <3>1. CASE i = 1
            BY <3>1, <1>2, <1>4, <1>6, <1>7
        <3>2. CASE i # 1
            <4>1. i \in 2 .. most
                BY <3>2, <1>5, <1>6
            <4>2. i - 1 \in DOMAIN states /\ states'[i] = states[i - 1]
                BY <4>1, <1>6
            <4>3. /\ StateFrom(states[i - 1], arrived[Len(arrived) + 1 - (i - 1)])
                  /\ Len(arrived) + 1 - (i - 1) \in DOMAIN arrived
                BY <4>1, <4>2, <1>4 DEF GroupInv, StatesFrom, Origin
            <4>4. Len(arrived') + 1 - i = Len(arrived) + 1 - (i - 1)
                BY <4>1, <1>4, <1>5, <1>7
            <4> QED BY <4>2, <4>3, <4>4, <1>7
        <3> QED BY <3>1, <3>2
    <2> QED BY <2>1, <2>2 DEF StatesFrom, Origin
<1>10. ASSUME NEW k \in DOMAIN posted PROVE Spent(k) \subseteq Spent(k)'
    <2> SUFFICES ASSUME NEW j \in Spent(k) PROVE j \in Spent(k)'
        OBVIOUS
    <2>1. j \in Usable(k) /\ j \in DOMAIN arrived /\ j \in 1 .. Len(arrived)
        BY <1>4 DEF Spent, Usable
    <2>2. j \in Usable(k)'
        BY <2>1, <1>3, <1>7 DEF Usable
    <2>3. Len(arrived') + 1 - j = (Len(arrived) + 1 - j) + 1 /\ Len(arrived) + 1 - j \in Nat \ {0}
        BY <2>1, <1>4, <1>7
    <2>4. ASSUME Len(arrived') + 1 - j \in DOMAIN states'
          PROVE  ~Gives(states'[Len(arrived') + 1 - j], posted[k].iteration)
        <3>1. Len(arrived') + 1 - j \in 2 .. most
            BY <2>3, <2>4, <1>5, <1>6
        <3>2. /\ Len(arrived) + 1 - j \in DOMAIN states
              /\ states'[Len(arrived') + 1 - j] = states[Len(arrived) + 1 - j]
            BY <3>1, <2>3, <1>4, <1>6
        <3> QED BY <3>2 DEF Spent, Origin
    <2> QED BY <2>2, <2>4, <1>3 DEF Spent, Origin
<1> QED BY <1>3, <1>8, <1>9, <1>10, SpentStays

LEMMA ReadGroupKeeps ==
    ASSUME GroupInv, ReadGroup PROVE GroupInv'
<1>0. PICK n \in DOMAIN posted : n = reading
    BY DEF ReadGroup, GroupInv, GroupTyped
<1> DEFINE t == posted[n].iteration
<1>1. n \in DOMAIN posted /\ n \in Sends /\ posted[n] \in Stanzas /\ t \in Nat
    <2>1. n \in DOMAIN posted /\ n \in Sends /\ posted[n] \in Stanzas
        BY DEF GroupInv, GroupTyped
    <2> QED BY <2>1 DEF Stanzas
<1>2. PICK i \in DOMAIN states :
          /\ states[i].id = posted[n].id /\ HasKey(states[i], t)
          /\ states' = [states EXCEPT ![i] = KeyTaken(states[i], t)]
    BY <1>0 DEF ReadGroup, IsState, StatesOf
<1>3. /\ states \in Seq(KeyStates) /\ states[i] \in KeyStates /\ Len(states) <= Len(arrived)
      /\ arrived \in Seq(Arrivals)
    BY <1>2 DEF GroupInv, GroupTyped, StatesFrom
<1>4. reads' = [reads EXCEPT ![n] = @ + 1] /\ reading' = Nobody /\ UNCHANGED <<own, posted, arrived>>
    BY <1>0 DEF ReadGroup
<1> DEFINE j == Origin(i)
<1>5. j \in DOMAIN arrived /\ Origin(j) = i /\ StateFrom(states[i], arrived[j])
    BY <1>2, <1>3 DEF Origin, GroupInv, StatesFrom
<1>6. /\ KeyTaken(states[i], t) \in KeyStates /\ KeyTaken(states[i], t).id = states[i].id
      /\ \A q \in Nat : Gives(KeyTaken(states[i], t), q) => Gives(states[i], q)
      /\ ~Gives(KeyTaken(states[i], t), t)
      /\ KeyTaken(states[i], t).iteration >= states[i].iteration
      /\ \A k \in KeyTaken(states[i], t).kept : k < KeyTaken(states[i], t).iteration
    BY <1>1, <1>3, <1>5, KeyTakenTyped DEF StateFrom
<1>7. Gives(states[i], t)
    BY <1>2, <1>1, <1>3 DEF HasKey, Gives, KeyStates
<1>8. /\ states' \in Seq(KeyStates) /\ DOMAIN states' = DOMAIN states /\ Len(states') = Len(states)
      /\ states'[i] = KeyTaken(states[i], t) /\ \A k \in DOMAIN states \ {i} : states'[k] = states[k]
    BY <1>2, <1>3, <1>6
<1>9. GroupTyped'
    BY <1>1, <1>4, <1>8 DEF GroupInv, GroupTyped
<1>10. StateFrom(states'[i], arrived[j])
    <2>1. arrived[j].start \in Nat /\ states[i].iteration \in Nat /\ KeyTaken(states[i], t).iteration \in Nat
          /\ KeyTaken(states[i], t).kept \subseteq Nat
        <3>1. arrived[j] \in Arrivals
            BY <1>3, <1>5
        <3> QED BY <3>1, <1>3, <1>6 DEF Arrivals, KeyStates
    <2>2. ASSUME NEW k \in KeyTaken(states[i], t).kept PROVE arrived[j].start <= k
        <3>1. Gives(KeyTaken(states[i], t), k) /\ k \in Nat
            BY <2>1 DEF Gives
        <3>2. Gives(states[i], k)
            BY <3>1, <1>6
        <3> QED BY <3>1, <3>2, <2>1, <1>5 DEF Gives, StateFrom
    <2> QED BY <2>1, <2>2, <1>5, <1>6, <1>8 DEF StateFrom
<1>11. StatesFrom'
    BY <1>3, <1>4, <1>8, <1>10 DEF GroupInv, StatesFrom, Origin
<1>12. ASSUME NEW m \in DOMAIN posted PROVE Spent(m) \subseteq Spent(m)'
    <2> SUFFICES ASSUME NEW q \in Spent(m) PROVE q \in Spent(m)'
        OBVIOUS
    <2>0. posted[m] \in Stanzas
        BY DEF GroupInv, GroupTyped
    <2>1. posted[m].iteration \in Nat /\ q \in Usable(m)
        BY <2>0 DEF Stanzas, Spent
    <2>2. q \in Usable(m)'
        BY <2>1, <1>4 DEF Usable
    <2>3. ASSUME Origin(q) \in DOMAIN states PROVE ~Gives(states'[Origin(q)], posted[m].iteration)
        <3>1. ~Gives(states[Origin(q)], posted[m].iteration)
            BY <2>3 DEF Spent
        <3> QED BY <3>1, <2>1, <2>3, <1>6, <1>8
    <2> QED BY <2>2, <2>3, <1>4, <1>8 DEF Spent, Origin
<1>13. j \in Spent(n)' /\ j \notin Spent(n)
    <2>1. arrived[j].start \in Nat /\ states[i].iteration \in Nat
        <3>1. arrived[j] \in Arrivals
            BY <1>3, <1>5
        <3> QED BY <3>1, <1>3 DEF Arrivals, KeyStates
    <2>2. j \in Usable(n)
        BY <1>1, <1>2, <1>5, <1>7, <2>1 DEF Usable, StateFrom, Gives
    <2>3. j \in Usable(n)'
        BY <2>2, <1>4 DEF Usable
    <2>4. ~Gives(states'[i], t)
        BY <1>6, <1>8
    <2> QED BY <2>2, <2>3, <2>4, <1>4, <1>5, <1>7, <1>8 DEF Spent, Origin
<1>14. ASSUME NEW m \in Sends PROVE reads'[m] <= IF m \in DOMAIN posted' THEN Cardinality(Spent(m)') ELSE 0
    <2>1. IsFiniteSet(Spent(m)') /\ Cardinality(Spent(m)') \in Nat /\ IsFiniteSet(Spent(m)) /\ Cardinality(Spent(m)) \in Nat
        BY <1>9, SpentFinite, SpentFiniteAfter DEF GroupInv
    <2>2. reads[m] \in Nat /\ (m \in DOMAIN posted => reads[m] <= Cardinality(Spent(m)))
          /\ (m \notin DOMAIN posted => reads[m] = 0)
        BY DEF GroupInv, GroupTyped, ReadsSpend
    <2>3. CASE m = n
        <3>1. Spent(m) \cup {j} \subseteq Spent(m)' /\ j \notin Spent(m)
            BY <2>3, <1>1, <1>12, <1>13
        <3>2. Cardinality(Spent(m) \cup {j}) = Cardinality(Spent(m)) + 1
            BY <3>1, <2>1, FS_AddElement
        <3>3. Cardinality(Spent(m) \cup {j}) <= Cardinality(Spent(m)')
            BY <3>1, <2>1, FS_Subset
        <3>4. reads'[m] = reads[m] + 1
            BY <2>3, <1>4, <1>1 DEF GroupInv, GroupTyped
        <3> QED BY <3>2, <3>3, <3>4, <2>1, <2>2, <2>3, <1>1, <1>4
    <2>4. CASE m # n
        <3>1. reads'[m] = reads[m]
            BY <2>4, <1>4 DEF GroupInv, GroupTyped
        <3>2. CASE m \in DOMAIN posted
            <4>1. Cardinality(Spent(m)) <= Cardinality(Spent(m)')
                BY <3>2, <1>12, <2>1, FS_Subset
            <4> QED BY <4>1, <3>1, <3>2, <2>1, <2>2, <1>4
        <3>3. CASE m \notin DOMAIN posted
            BY <3>1, <3>3, <2>2, <1>4
        <3> QED BY <3>2, <3>3
    <2> QED BY <2>3, <2>4
<1> QED BY <1>9, <1>11, <1>14 DEF GroupInv, ReadsSpend

LEMMA SenderSteps == GroupInv /\ [SenderNext]_senderVars => GroupInv'
<1> SUFFICES ASSUME GroupInv, [SenderNext]_senderVars PROVE GroupInv'
    OBVIOUS
<1>1. ASSUME NEW n \in Sends, ReadNoKey(n) PROVE GroupInv'
    BY <1>1 DEF ReadNoKey, GroupInv, GroupTyped, StatesFrom, StateFrom, Origin, ReadsSpend, Spent, Usable
<1>2. CASE RefuseGroup \/ ReceiverStops
    BY <1>2 DEF RefuseGroup, ReceiverStops,
                GroupInv, GroupTyped, StatesFrom, StateFrom, Origin, ReadsSpend, Spent, Usable
<1>3. CASE UNCHANGED senderVars
    BY <1>3 DEF senderVars, GroupInv, GroupTyped, StatesFrom, StateFrom, Origin, ReadsSpend, Spent, Usable
<1> QED BY <1>1, <1>2, <1>3, SendGroupKeeps, OwnKeeps, ReadKeyKeeps, ReadGroupKeeps DEF SenderNext

\* A group message is read once at most for each distribution message of its chain
\* that was made before it: for any messages, orders, repetitions and stops.
THEOREM GroupsReadOnce == SenderSpec => []GroupReadOnce
<1>1. GroupInv => GroupReadOnce
    <2> SUFFICES ASSUME GroupInv, NEW n \in DOMAIN posted PROVE reads[n] <= Cardinality(Usable(n))
        BY DEF GroupReadOnce, Usable
    <2>1. IsFiniteSet(Usable(n)) /\ Cardinality(Spent(n)) \in Nat /\ Spent(n) \subseteq Usable(n)
        BY SpentFinite DEF GroupInv, Spent
    <2>2. Cardinality(Spent(n)) <= Cardinality(Usable(n)) /\ Cardinality(Usable(n)) \in Nat
        BY <2>1, FS_Subset, FS_CardinalityType
    <2>3. n \in Sends /\ reads[n] \in Nat /\ reads[n] <= Cardinality(Spent(n))
        BY DEF GroupInv, GroupTyped, ReadsSpend
    <2> QED BY <2>1, <2>2, <2>3
<1> QED BY SenderInitially, SenderSteps, <1>1, PTL DEF SenderSpec

(***************************************************************************)
(* What can be read.  A state in front of the others of its id lacks no    *)
(* key from the start of its distribution message to where it is: a key    *)
(* behind it is kept or was used since, by the one message that has it.    *)
(***************************************************************************)
\* No two messages have the same key of a chain, and a chain runs on.
MessagesApart ==
    /\ \A n \in DOMAIN posted : posted[n].id < own.id \/ (posted[n].id = own.id /\ posted[n].iteration < own.iteration)
    /\ \A n, m \in DOMAIN posted : posted[n].id = posted[m].id /\ posted[n].iteration = posted[m].iteration => n = m

\* The state that getState finds, for its id.
InFront(i) == i \in DOMAIN states /\ \A k \in DOMAIN states : states[k].id = states[i].id => i <= k

\* A key of it that is behind the chain and not kept was read with since.
ReadWith(i, t) == \E n \in readSince : posted[n].id = states[i].id /\ posted[n].iteration = t
NoneLost(i) == \A t \in arrived[Origin(i)].start .. states[i].iteration - 1 : t \in states[i].kept \/ ReadWith(i, t)

ReadableInv ==
    /\ GroupInv /\ MessagesApart
    /\ readSince \subseteq DOMAIN posted
    /\ Len(states) = IF Len(arrived) < MaxStates THEN Len(arrived) ELSE MaxStates
    /\ \A i \in DOMAIN states : InFront(i) => NoneLost(i)

\* At first there is nothing to read, and nothing to read it with.
LEMMA ReadableInitially == SenderInit => ReadableInv
<1> SUFFICES ASSUME SenderInit PROVE ReadableInv
    OBVIOUS
<1>1. GroupInv
    BY SenderInitially
<1>2. MaxStates \in Nat /\ states = <<>> /\ arrived = <<>> /\ posted = <<>> /\ readSince = {}
    BY SenderKeysAssumption DEF SenderInit
<1> QED BY <1>1, <1>2 DEF ReadableInv, MessagesApart

\* What a step leaves alone, if it changes neither the record nor what was read since.
LEMMA StatesLeft ==
    ASSUME ReadableInv, UNCHANGED <<states, arrived, readSince>>, DOMAIN posted \subseteq DOMAIN posted',
           \A n \in DOMAIN posted : posted'[n] = posted[n]
    PROVE  /\ readSince' \subseteq DOMAIN posted'
           /\ Len(states') = IF Len(arrived') < MaxStates THEN Len(arrived') ELSE MaxStates
           /\ \A i \in DOMAIN states' : InFront(i)' => NoneLost(i)'
<1>1. readSince' \subseteq DOMAIN posted' /\ Len(states') = IF Len(arrived') < MaxStates THEN Len(arrived') ELSE MaxStates
    BY DEF ReadableInv
<1>2. ASSUME NEW i \in DOMAIN states', InFront(i)' PROVE NoneLost(i)'
    <2>1. i \in DOMAIN states /\ InFront(i)
        BY <1>2 DEF InFront
    <2>2. NoneLost(i)
        BY <2>1 DEF ReadableInv
    <2>3. ASSUME NEW t \in arrived[Origin(i)].start .. states[i].iteration - 1, ~(t \in states[i].kept)
          PROVE  ReadWith(i, t)'
        <3>1. PICK n \in readSince : posted[n].id = states[i].id /\ posted[n].iteration = t
            BY <2>2, <2>3 DEF NoneLost, ReadWith
        <3>2. n \in readSince' /\ posted'[n] = posted[n]
            BY <3>1 DEF ReadableInv
        <3> QED BY <3>1, <3>2 DEF ReadWith
    <2> QED BY <2>3 DEF NoneLost, Origin
<1> QED BY <1>1, <1>2

\* Encrypting takes the own chain past the key it used.
LEMMA KeyTakenAhead ==
    ASSUME GroupInv
    PROVE  /\ Target \in Nat /\ own.iteration <= Target /\ own.iteration \in Nat /\ own.id \in Nat
           /\ KeyTaken(own, Target).id = own.id /\ KeyTaken(own, Target).iteration = Target + 1
<1>1. own \in KeyStates
    BY DEF GroupInv, GroupTyped
<1>2. own.iteration \in Nat /\ own.id \in Nat /\ Target \in Nat /\ own.iteration <= Target
    BY <1>1 DEF KeyStates, Target
<1>3. KeyTaken(own, Target) = [own EXCEPT !.iteration = Target + 1, !.kept = own.kept \cup own.iteration .. Target - 1]
    BY <1>1, <1>2 DEF KeyTaken, KeyStates
<1> QED BY <1>1, <1>2, <1>3 DEF KeyStates

\* A message has a key after all those before it.
LEMMA SendGroupReadable ==
    ASSUME ReadableInv, NEW withKey \in BOOLEAN, SendGroup(withKey)
    PROVE  ReadableInv'
<1> DEFINE m == [id |-> own.id, iteration |-> Target, start |-> own.iteration, withKey |-> withKey]
<1>1. GroupInv /\ GroupInv'
    BY SendGroupKeeps DEF ReadableInv
<1>2. /\ Target \in Nat /\ own.iteration <= Target /\ own.iteration \in Nat /\ own.id \in Nat
      /\ own'.id = own.id /\ own'.iteration = Target + 1
    BY <1>1, KeyTakenAhead DEF SendGroup
<1>3. m.id = own.id /\ m.iteration = Target
    OBVIOUS
<1>4. posted' = Append(posted, m) /\ UNCHANGED <<states, arrived, readSince>>
    BY DEF SendGroup
<1> HIDE DEF m
<1>5. posted \in Seq(Stanzas)
    BY <1>1 DEF GroupInv, GroupTyped
<1>6. PICK l \in Nat : DOMAIN posted = 1 .. l /\ DOMAIN posted' = 1 .. l + 1 /\ posted'[l + 1] = m
                       /\ \A n \in 1 .. l : posted'[n] = posted[n]
    <2>1. Len(posted) \in Nat /\ DOMAIN posted = 1 .. Len(posted) /\ DOMAIN posted' = 1 .. Len(posted) + 1
          /\ posted'[Len(posted) + 1] = m /\ \A n \in 1 .. Len(posted) : posted'[n] = posted[n]
        BY <1>4, <1>5
    <2> QED BY <2>1
<1>7. \A n \in 1 .. l : posted[n].id \in Nat /\ posted[n].iteration \in Nat
    <2>1. \A n \in 1 .. l : posted[n] \in Stanzas
        BY <1>5, <1>6
    <2> QED BY <2>1 DEF Stanzas
<1>8. \A n \in 1 .. l : posted[n].id < own.id \/ (posted[n].id = own.id /\ posted[n].iteration < own.iteration)
    BY <1>6 DEF ReadableInv, MessagesApart
<1>9. \A n \in 1 .. l : ~(posted[n].id = m.id /\ posted[n].iteration = m.iteration)
    BY <1>2, <1>3, <1>7, <1>8
<1>10. MessagesApart'
    <2>1. ASSUME NEW n \in 1 .. l + 1
          PROVE  posted'[n].id < own'.id \/ (posted'[n].id = own'.id /\ posted'[n].iteration < own'.iteration)
        <3>1. CASE n = l + 1
            BY <1>2, <1>3, <1>6, <3>1
        <3>2. CASE n \in 1 .. l
            BY <1>2, <1>6, <1>7, <1>8, <3>2
        <3> QED BY <3>1, <3>2
    <2>2. ASSUME NEW n \in 1 .. l + 1, NEW k \in 1 .. l + 1,
                 posted'[n].id = posted'[k].id, posted'[n].iteration = posted'[k].iteration
          PROVE  n = k
        <3>1. CASE n \in 1 .. l /\ k \in 1 .. l
            BY <1>6, <2>2, <3>1 DEF ReadableInv, MessagesApart
        <3>2. CASE n = l + 1 /\ k \in 1 .. l
            BY <1>6, <1>9, <2>2, <3>2
        <3>3. CASE k = l + 1 /\ n \in 1 .. l
            BY <1>6, <1>9, <2>2, <3>3
        <3> QED BY <3>1, <3>2, <3>3
    <2> QED BY <1>6, <2>1, <2>2 DEF MessagesApart
<1>11. DOMAIN posted \subseteq DOMAIN posted' /\ \A n \in DOMAIN posted : posted'[n] = posted[n]
    BY <1>6
<1> QED BY <1>1, <1>4, <1>10, <1>11, StatesLeft DEF ReadableInv

\* So has the next one if a sending fails, or if the sender starts a chain.
LEMMA OwnReadable ==
    ASSUME ReadableInv, SendGroupFails \/ CreateSession
    PROVE  ReadableInv'
<1>1. GroupInv /\ GroupInv'
    BY OwnKeeps DEF ReadableInv
<1>2. posted' = posted /\ UNCHANGED <<states, arrived, readSince>>
    BY DEF SendGroupFails, CreateSession
<1>3. \A n \in DOMAIN posted : posted[n].id \in Nat /\ posted[n].iteration \in Nat
    <2>1. \A n \in DOMAIN posted : posted[n] \in Stanzas
        BY <1>1 DEF GroupInv, GroupTyped
    <2> QED BY <2>1 DEF Stanzas
<1>4. \/ own'.id = own.id /\ own'.iteration = Target + 1
      \/ own'.id = own.id + 1
    <2>1. CASE SendGroupFails
        BY <1>1, <2>1, KeyTakenAhead DEF SendGroupFails
    <2>2. CASE CreateSession
        BY <2>2 DEF CreateSession, NewState
    <2> QED BY <2>1, <2>2
<1>5. MessagesApart'
    <2>1. Target \in Nat /\ own.iteration <= Target /\ own.iteration \in Nat /\ own.id \in Nat
        BY <1>1, KeyTakenAhead
    <2>2. ASSUME NEW n \in DOMAIN posted
          PROVE  posted[n].id < own'.id \/ (posted[n].id = own'.id /\ posted[n].iteration < own'.iteration)
        <3>1. posted[n].id < own.id \/ (posted[n].id = own.id /\ posted[n].iteration < own.iteration)
            BY DEF ReadableInv, MessagesApart
        <3> QED BY <1>3, <1>4, <2>1, <3>1
    <2> QED BY <1>2, <2>2 DEF ReadableInv, MessagesApart
<1> QED BY <1>1, <1>2, <1>5, StatesLeft DEF ReadableInv

\* A new state lacks nothing; one behind it that is still the first of its id lacks what it did.
LEMMA ReadKeyReadable ==
    ASSUME ReadableInv, NEW n \in Sends, ReadKey(n)
    PROVE  ReadableInv'
<1>1. GroupInv /\ GroupInv' /\ n \in DOMAIN posted
    BY ReadKeyKeeps DEF ReadableInv, ReadKey
<1>2. PICK most \in 1 .. Len(states) + 1, s \in KeyStates, a \in Arrivals :
              /\ most = IF Len(states) < MaxStates THEN Len(states) + 1 ELSE MaxStates
              /\ StateFrom(s, a) /\ s.id = posted[n].id /\ s.iteration = a.start
              /\ states' \in Seq(KeyStates) /\ Len(states') = most /\ states'[1] = s
              /\ \A i \in 2 .. most : i - 1 \in DOMAIN states /\ states'[i] = states[i - 1]
              /\ arrived' \in Seq(Arrivals) /\ Len(arrived') = Len(arrived) + 1 /\ arrived'[Len(arrived) + 1] = a
              /\ \A j \in DOMAIN arrived : j \in DOMAIN arrived' /\ arrived'[j] = arrived[j]
    BY <1>1, KeyArrives
<1>3. posted' = posted /\ own' = own /\ readSince' = {k \in readSince : posted[k].id # posted[n].id}
    BY DEF ReadKey
<1>4. /\ DOMAIN states = 1 .. Len(states) /\ Len(states) \in Nat /\ DOMAIN arrived = 1 .. Len(arrived) /\ Len(arrived) \in Nat
      /\ Len(states) = (IF Len(arrived) < MaxStates THEN Len(arrived) ELSE MaxStates) /\ MaxStates \in Nat \ {0}
    BY <1>1, SenderKeysAssumption DEF GroupInv, GroupTyped, ReadableInv
<1>5. Len(states') = IF Len(arrived') < MaxStates THEN Len(arrived') ELSE MaxStates
    BY <1>2, <1>4
<1>6. MessagesApart' /\ readSince' \subseteq DOMAIN posted'
    BY <1>3 DEF ReadableInv, MessagesApart
<1>7. ASSUME NEW i \in DOMAIN states', InFront(i)' PROVE NoneLost(i)'
    <2>1. i \in 1 .. most /\ 1 \in DOMAIN states'
        BY <1>2
    <2>2. CASE i = 1
        <3>1. Len(arrived') + 1 - i = Len(arrived) + 1
            BY <1>2, <1>4, <2>2
        <3>2. arrived'[Len(arrived') + 1 - i].start = a.start /\ states'[i].iteration = a.start /\ a.start \in Nat
            BY <1>2, <2>2, <3>1 DEF Arrivals
        <3>3. arrived'[Len(arrived') + 1 - i].start .. states'[i].iteration - 1 = {}
            BY <3>2
        <3> QED BY <3>3 DEF NoneLost, Origin
    <2>3. CASE i # 1
        <3>1. i \in 2 .. most
            BY <2>1, <2>3
        <3>2. PICK h \in DOMAIN states : h = i - 1 /\ states'[i] = states[h]
            BY <1>2, <3>1
        <3>3. states[h].id # posted[n].id
            <4>1. states'[i].id = states'[1].id => i <= 1
                BY <1>7, <2>1 DEF InFront
            <4> QED BY <1>2, <3>1, <3>2, <4>1
        <3>4. InFront(h)
            <4> SUFFICES ASSUME NEW k \in DOMAIN states, states[k].id = states[h].id PROVE h <= k
                BY DEF InFront
            <4>1. CASE k + 1 \in 2 .. most
                <5>1. states'[k + 1] = states[k] /\ k + 1 \in DOMAIN states'
                    <6>1. DOMAIN states' = 1 .. most
                        BY <1>2
                    <6>2. (k + 1) - 1 = k
                        BY <1>4
                    <6>3. states'[k + 1] = states[(k + 1) - 1]
                        BY <1>2, <4>1
                    <6> QED BY <4>1, <6>1, <6>2, <6>3
                <5>2. i <= k + 1
                    BY <1>7, <3>2, <5>1 DEF InFront
                <5> QED BY <1>4, <3>1, <3>2, <5>2
            <4>2. CASE k + 1 \notin 2 .. most
                <5>1. k + 1 > most
                    BY <1>4, <4>2
                <5> QED BY <1>4, <3>1, <3>2, <5>1
            <4> QED BY <4>1, <4>2
        <3>5. NoneLost(h)
            BY <3>4 DEF ReadableInv
        <3>6. Len(arrived') + 1 - i = Len(arrived) + 1 - h /\ Len(arrived) + 1 - h \in DOMAIN arrived
            <4>1. Len(arrived') = Len(arrived) + 1
                BY <1>2
            <4>2. Len(arrived) \in Nat /\ h \in 1 .. Len(states) /\ Len(states) \in Nat /\ Len(states) <= Len(arrived)
                BY <1>4
            <4>3. i = h + 1
                BY <3>1, <3>2
            <4> QED BY <1>4, <4>1, <4>2, <4>3
        <3>7. arrived'[Len(arrived') + 1 - i] = arrived[Len(arrived) + 1 - h]
            BY <1>2, <3>6
        <3>8. ASSUME NEW t \in arrived[Origin(h)].start .. states[h].iteration - 1, ~(t \in states[h].kept)
              PROVE  ReadWith(i, t)'
            <4>1. PICK k \in readSince : posted[k].id = states[h].id /\ posted[k].iteration = t
                BY <3>5, <3>8 DEF NoneLost, ReadWith
            <4>2. k \in readSince'
                BY <1>3, <3>3, <4>1
            <4> QED BY <1>3, <3>2, <4>1, <4>2 DEF ReadWith
        <3> QED BY <3>2, <3>7, <3>8 DEF NoneLost, Origin
    <2> QED BY <2>2, <2>3
<1> QED BY <1>1, <1>5, <1>6, <1>7 DEF ReadableInv

\* Taking a key keeps those before it, and leaves no other behind.
LEMMA KeyTakenKeeps ==
    ASSUME NEW s \in KeyStates, NEW t \in Nat, NEW q \in Nat, q # t, q < KeyTaken(s, t).iteration, q \notin KeyTaken(s, t).kept
    PROVE  q < s.iteration /\ q \notin s.kept
<1>1. s.iteration \in Nat
    BY DEF KeyStates
<1>2. CASE s.iteration > t
    <2>1. KeyTaken(s, t) = [s EXCEPT !.kept = s.kept \ {t}]
        BY <1>2 DEF KeyTaken, KeyStates
    <2>2. KeyTaken(s, t).iteration = s.iteration /\ KeyTaken(s, t).kept = s.kept \ {t}
        BY <2>1 DEF KeyStates
    <2> QED BY <2>2
<1>3. CASE ~(s.iteration > t)
    <2> DEFINE more == s.kept \cup (s.iteration .. t - 1)
    <2>1. KeyTaken(s, t) = [s EXCEPT !.iteration = t + 1, !.kept = more]
        BY <1>3 DEF KeyTaken, KeyStates
    <2> HIDE DEF more
    <2>2. KeyTaken(s, t).iteration = t + 1 /\ KeyTaken(s, t).kept = more
        BY <2>1 DEF KeyStates
    <2>3. q \notin s.kept /\ ~(s.iteration <= q /\ q <= t - 1)
        BY <1>1, <2>2 DEF more
    <2> QED BY <1>1, <2>2, <2>3
<1> QED BY <1>2, <1>3

\* Reading uses one key, and what it steps over is kept.
LEMMA ReadGroupReadable ==
    ASSUME ReadableInv, ReadGroup
    PROVE  ReadableInv'
<1>1. GroupInv /\ GroupInv'
    BY ReadGroupKeeps DEF ReadableInv
<1>2. PICK n \in DOMAIN posted : n = reading
    BY <1>1 DEF ReadGroup, GroupInv, GroupTyped
<1> DEFINE t == posted[n].iteration
<1>3. PICK i \in DOMAIN states : states[i].id = posted[n].id /\ states' = [states EXCEPT ![i] = KeyTaken(states[i], t)]
    BY <1>2 DEF ReadGroup, IsState, StatesOf
<1>4. UNCHANGED <<posted, own, arrived>> /\ readSince' = readSince \cup {n}
    BY <1>2 DEF ReadGroup
<1>5. /\ states \in Seq(KeyStates) /\ \A k \in DOMAIN states : states[k] \in KeyStates
      /\ \A k \in DOMAIN states : arrived[Origin(k)].start \in Nat /\ Origin(k) \in DOMAIN arrived
    <2>1. /\ states \in Seq(KeyStates) /\ \A k \in DOMAIN states : states[k] \in KeyStates /\ Origin(k) \in DOMAIN arrived
          /\ arrived \in Seq(Arrivals)
        BY <1>1 DEF GroupInv, GroupTyped, StatesFrom, Origin
    <2>2. \A k \in DOMAIN states : arrived[Origin(k)] \in Arrivals
        BY <2>1
    <2> QED BY <2>1, <2>2 DEF Arrivals
<1>6. t \in Nat
    <2>1. posted[n] \in Stanzas
        BY <1>1 DEF GroupInv, GroupTyped
    <2> QED BY <2>1 DEF Stanzas
<1>7. KeyTaken(states[i], t) \in KeyStates /\ KeyTaken(states[i], t).id = states[i].id
    BY <1>5, <1>6, KeyTakenTyped
<1> HIDE DEF t
<1>8. /\ DOMAIN states' = DOMAIN states /\ Len(states') = Len(states) /\ states'[i] = KeyTaken(states[i], t)
      /\ \A k \in DOMAIN states : k # i => states'[k] = states[k]
      /\ \A k \in DOMAIN states : states'[k].id = states[k].id
    BY <1>3, <1>5, <1>7
<1>9. ASSUME NEW k \in DOMAIN states', InFront(k)' PROVE NoneLost(k)'
    <2>1. k \in DOMAIN states /\ InFront(k)
        BY <1>8, <1>9 DEF InFront
    <2>2. NoneLost(k)
        BY <2>1 DEF ReadableInv
    <2>3. \A q : ReadWith(k, q) => ReadWith(k, q)'
        BY <1>4, <1>8, <2>1 DEF ReadWith
    <2>4. CASE k # i
        BY <1>4, <1>8, <2>1, <2>2, <2>3, <2>4 DEF NoneLost, Origin
    <2>5. CASE k = i
        <3>1. ASSUME NEW q \in arrived[Origin(i)].start .. KeyTaken(states[i], t).iteration - 1, ~(q \in KeyTaken(states[i], t).kept)
              PROVE  ReadWith(k, q)'
            <4>1. q \in Nat /\ q < KeyTaken(states[i], t).iteration /\ states[i].iteration \in Nat
                BY <1>5, <1>7, <3>1 DEF KeyStates
            <4>2. CASE q = t
                <5>1. n \in readSince' /\ posted'[n].id = states'[k].id /\ posted'[n].iteration = q
                    BY <1>3, <1>4, <1>8, <2>1, <2>5, <4>2 DEF t
                <5> QED BY <5>1 DEF ReadWith
            <4>3. CASE q # t
                <5>1. q < states[i].iteration /\ q \notin states[i].kept
                    BY <1>5, <1>6, <3>1, <4>1, <4>3, KeyTakenKeeps
                <5>2. q \in arrived[Origin(i)].start .. states[i].iteration - 1
                    BY <1>5, <3>1, <4>1, <5>1
                <5>3. ReadWith(k, q)
                    BY <2>2, <2>5, <5>1, <5>2 DEF NoneLost
                <5> QED BY <2>3, <5>3
            <4> QED BY <4>2, <4>3
        <3> QED BY <1>4, <1>8, <2>5, <3>1 DEF NoneLost, Origin
    <2> QED BY <2>4, <2>5
<1>10. MessagesApart' /\ readSince' \subseteq DOMAIN posted'
    BY <1>4 DEF ReadableInv, MessagesApart
<1>11. Len(states') = IF Len(arrived') < MaxStates THEN Len(arrived') ELSE MaxStates
    BY <1>4, <1>8 DEF ReadableInv
<1> QED BY <1>1, <1>9, <1>10, <1>11 DEF ReadableInv

\* A stanza without a distribution message, a refusal and a stop change neither keys nor messages.
LEMMA RestReadable ==
    ASSUME ReadableInv,
           \/ \E n \in Sends : ReadNoKey(n)
           \/ RefuseGroup \/ ReceiverStops \/ UNCHANGED senderVars
    PROVE  ReadableInv'
<1>1. GroupInv'
    BY SenderSteps DEF SenderNext, ReadableInv
<1>2. UNCHANGED <<own, posted, states, arrived, readSince>>
    BY DEF ReadNoKey, RefuseGroup, ReceiverStops, senderVars
<1>3. MessagesApart'
    BY <1>2 DEF ReadableInv, MessagesApart
<1>4. DOMAIN posted \subseteq DOMAIN posted' /\ \A n \in DOMAIN posted : posted'[n] = posted[n]
    BY <1>2
<1> QED BY <1>1, <1>2, <1>3, <1>4, StatesLeft DEF ReadableInv

\* No step leaves a key missing.
LEMMA ReadableSteps == ReadableInv /\ [SenderNext]_senderVars => ReadableInv'
BY SendGroupReadable, OwnReadable, ReadKeyReadable, ReadGroupReadable, RestReadable DEF SenderNext

\* A message that is due finds its key: in the state of the last distribution message for its
\* chain, which is the first of its id in the record.
LEMMA DueHasKey ==
    ASSUME ReadableInv, NEW n \in DOMAIN posted, Due(n)
    PROVE  \E h \in DOMAIN states : IsState(h, posted[n].id) /\ HasKey(states[h], posted[n].iteration)
<1> DEFINE t == posted[n].iteration
<1>1. GroupInv
    BY DEF ReadableInv
<1>2. t \in Nat
    <2>1. posted[n] \in Stanzas
        BY <1>1 DEF GroupInv, GroupTyped
    <2> QED BY <2>1 DEF Stanzas
<1>3. PICK j \in Recent :
          /\ arrived[j].id = posted[n].id
          /\ \A k \in Recent : arrived[k].id = posted[n].id => k <= j
          /\ arrived[j].start <= t
          /\ t - arrived[j].start <= MaxForward
          /\ n \notin readSince
    BY DEF Due
<1>4. /\ DOMAIN states = 1 .. Len(states) /\ Len(states) \in Nat /\ DOMAIN arrived = 1 .. Len(arrived) /\ Len(arrived) \in Nat
      /\ Len(states) = (IF Len(arrived) < MaxStates THEN Len(arrived) ELSE MaxStates) /\ MaxStates \in Nat \ {0}
    BY <1>1, SenderKeysAssumption DEF GroupInv, GroupTyped, ReadableInv
<1>5. j \in 1 .. Len(arrived) /\ j > Len(arrived) - MaxStates
    BY <1>4 DEF Recent
<1>6. PICK h \in DOMAIN states : h = Len(arrived) + 1 - j
    BY <1>4, <1>5
<1>7. Len(arrived) + 1 - h = j
    BY <1>4, <1>5, <1>6
<1>8. /\ states[h].id = posted[n].id /\ arrived[j].start <= states[h].iteration
      /\ states[h] \in KeyStates /\ arrived[j] \in Arrivals
    <2>1. StateFrom(states[h], arrived[j])
        BY <1>1, <1>7 DEF GroupInv, StatesFrom, Origin
    <2>2. states[h] \in KeyStates /\ arrived[j] \in Arrivals
        BY <1>1, <1>4, <1>5, <1>6 DEF GroupInv, GroupTyped
    <2> QED BY <1>3, <2>1, <2>2 DEF StateFrom
<1>9. ASSUME NEW k \in DOMAIN states, states[k].id = posted[n].id PROVE h <= k
    <2>1. PICK i \in DOMAIN arrived : i = Len(arrived) + 1 - k
        BY <1>4
    <2>2. i \in Recent
        BY <1>4, <2>1 DEF Recent
    <2>3. arrived[i].id = states[k].id
        BY <1>1, <2>1 DEF GroupInv, StatesFrom, StateFrom, Origin
    <2>4. i <= j
        BY <1>3, <1>9, <2>2, <2>3
    <2> QED BY <1>4, <1>5, <1>6, <2>1, <2>4
<1>10. IsState(h, posted[n].id)
    BY <1>8, <1>9 DEF IsState, StatesOf
<1>11. InFront(h)
    BY <1>8, <1>9 DEF InFront
<1>12. HasKey(states[h], t)
    <2>1. states[h].iteration \in Nat /\ arrived[j].start \in Nat /\ MaxForward \in Nat
        BY <1>8, SenderKeysAssumption DEF KeyStates, Arrivals
    <2>2. CASE states[h].iteration > t
        <3>1. t \in arrived[j].start .. states[h].iteration - 1
            BY <1>2, <1>3, <2>1, <2>2
        <3>2. t \in states[h].kept \/ ReadWith(h, t)
            BY <1>7, <1>11, <3>1 DEF ReadableInv, NoneLost, Origin
        <3>3. ~ReadWith(h, t)
            <4> SUFFICES ASSUME NEW m \in readSince, posted[m].id = states[h].id, posted[m].iteration = t PROVE FALSE
                BY DEF ReadWith
            <4>1. m \in DOMAIN posted
                BY DEF ReadableInv
            <4>2. m = n
                BY <1>8, <4>1 DEF ReadableInv, MessagesApart
            <4> QED BY <1>3, <4>2
        <3> QED BY <2>2, <3>2, <3>3 DEF HasKey
    <2>3. CASE ~(states[h].iteration > t)
        BY <1>2, <1>3, <1>8, <2>1, <2>3 DEF HasKey
    <2> QED BY <2>2, <2>3
<1> QED BY <1>10, <1>12

\* GroupCipher.decrypt refuses no message that the last distribution message of its chain lets it
\* read: for any messages, orders, losses, repetitions and stops, and any two limits.
THEOREM GroupsAreReadable == SenderSpec => GroupReadable
<1>1. ReadableInv /\ [SenderNext]_senderVars => [refused' # Nobody => ~Due(refused')]_senderVars
    <2> SUFFICES ASSUME ReadableInv, SenderNext, refused' # Nobody PROVE ~Due(refused')
        BY Zenon DEF senderVars
    <2>1. RefuseGroup
        BY DEF SenderNext, SendGroup, SendGroupFails, CreateSession, ReadKey, ReadNoKey, ReadGroup, ReceiverStops
    <2>2. PICK n \in DOMAIN posted : n = reading
        BY <2>1 DEF RefuseGroup, ReadableInv, GroupInv, GroupTyped
    <2>3. ~\E h \in DOMAIN states : IsState(h, posted[n].id) /\ HasKey(states[h], posted[n].iteration)
        BY <2>1, <2>2 DEF RefuseGroup
    <2>4. refused' = n
        BY <2>1, <2>2 DEF RefuseGroup
    <2>5. ~Due(n)
        BY <2>3, DueHasKey
    <2> QED BY <2>4, <2>5
<1> QED BY ReadableInitially, ReadableSteps, <1>1, PTL DEF SenderSpec, GroupReadable
=============================================================================
