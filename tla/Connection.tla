----------------------------- MODULE Connection -----------------------------
(***************************************************************************)
(* The life of one connection, lib/socket.js: the WebSocket, the Noise     *)
(* handshake, queries, keep-alive, pairing by QR code or by link code, the *)
(* login and end(), which may come between any two steps of the others.    *)
(*                                                                         *)
(* Every await is a state of its own: the handshake's in hs, the QR        *)
(* handler's in qr, those of the login handler and of the link code in     *)
(* the query they wait for.  A frame is the action that handles it; the    *)
(* server may fall silent for good, which is also what a frame does that   *)
(* arrives before the Noise keys are there: the counters no longer agree   *)
(* and nothing after it can be read.                                       *)
(***************************************************************************)
EXTENDS Naturals

CONSTANTS Asked,     \* queries of the application
          Login,     \* stands for the query the login handler waits for
          Link,      \* ... and for that of the link code handler
          MaxRefs    \* QR references in a pair-device stanza

ASSUME ConnectionAssumption == MaxRefs \in Nat

VARIABLES
    ws,         \* "connecting", "open" (wsOpen), "closed" (end() was called)
    hs,         \* where validateConnection is suspended
    keepAlive,  \* the interval timer runs
    quiet,      \* keep-alive intervals since the last frame (lastDateRecv)
    silent,     \* the server sends nothing more that can be read
    me,         \* creds.me: "none", "claimed" (for a pairing code), "paired"
    secret,     \* which secret creds.advSecretKey is: of the "qr" or the "link" code
    qr,         \* the pair-device handler: state, references left, timer
    login,      \* step of the success handler
    logout,     \* how far logout() is, "none" when it was not called
    query,      \* what became of each query
    told        \* connection.update events so far: codes shown, open, close

connVars == <<ws, hs, keepAlive, quiet, silent, me, secret, qr, login, logout, query, told>>

Queries == Asked \cup {Login, Link}

Closed == ws = "closed"
Waiting(q) == query[q] \in {"sending", "sent"}
Settled(q) == query[q] \in {"ok", "err"}

ConnInit ==
    /\ ws = "connecting" /\ hs = "idle" /\ keepAlive = FALSE /\ quiet = 0 /\ silent = FALSE
    /\ me \in {"none", "paired"} /\ secret = "qr"
    /\ qr = [pc |-> "none", refs |-> 0, timer |-> FALSE]
    /\ login = "none" /\ logout = "none"
    /\ query = [q \in Queries |-> "new"]
    /\ told = [codes |-> 0, open |-> FALSE, close |-> FALSE]

-----------------------------------------------------------------------------
(***************************************************************************)
(* end(): once.  It emits 'close', which rejects every query and a         *)
(* handshake that waits for the server, and only then removes listeners.   *)
(***************************************************************************)
Rejected_Unheard(qs) == qs   \* mutant: the listeners are removed before 'close' is emitted

Rejected(qs) == [q \in Queries |-> IF qs[q] \in {"sending", "sent"} THEN "err" ELSE qs[q]]

EndConnection ==
    /\ ws' = "closed"
    /\ keepAlive' = FALSE
    /\ qr' = [qr EXCEPT !.timer = FALSE]
    /\ query' = Rejected(query)
    /\ hs' = IF hs = "hello" THEN "failed" ELSE hs
    /\ told' = [told EXCEPT !.close = TRUE]

\* the WebSocket closes or fails
Drop ==
    /\ ~Closed
    /\ EndConnection
    /\ UNCHANGED <<quiet, silent, me, secret, login, logout>>

\* the server stops answering, or a frame comes before finishInit() is done
FallSilent ==
    /\ ~silent /\ ~Closed
    /\ silent' = TRUE
    /\ UNCHANGED <<ws, hs, keepAlive, quiet, me, secret, qr, login, logout, query, told>>

Frame == ws = "open" /\ hs = "up" /\ ~silent /\ quiet' = 0

\* a stream error, the end of the stream, a failure, or no multi-device account
StreamEnds ==
    /\ Frame
    /\ EndConnection
    /\ UNCHANGED <<silent, me, secret, login, logout>>

\* the application: tells the server, if there is an account, and ends in any case
Logout ==
    /\ ~Closed /\ logout = "none"
    /\ IF me = "none"
       THEN logout' = "done" /\ EndConnection
       ELSE logout' = "sending" /\ UNCHANGED <<ws, hs, keepAlive, qr, query, told>>
    /\ UNCHANGED <<quiet, silent, me, secret, login>>

\* its stanza is sent, or is not, or has been given up (sendRawMessage)
LogoutSettles ==
    /\ logout = "sending" /\ logout' = "done"
    /\ IF Closed THEN UNCHANGED <<ws, hs, keepAlive, qr, query, told>> ELSE EndConnection
    /\ UNCHANGED <<quiet, silent, me, secret, login>>

-----------------------------------------------------------------------------
(* The socket opens; the handshake.                                        *)

Open ==
    /\ ws = "connecting"
    /\ ws' = "open" /\ hs' = "version"
    /\ UNCHANGED <<keepAlive, quiet, silent, me, secret, qr, login, logout, query, told>>

\* mutant: awaitNextMessage waits without a timer
ConnectTimeout_SocketOnly ==
    /\ ws = "connecting"
    /\ EndConnection
    /\ UNCHANGED <<quiet, silent, me, secret, login, logout>>

\* handshakeTimeout of the socket, connectTimeoutMs of awaitNextMessage
ConnectTimeout ==
    /\ ws = "connecting" \/ (ws = "open" /\ hs = "hello")
    /\ EndConnection
    /\ UNCHANGED <<quiet, silent, me, secret, login, logout>>

\* the version is known; awaitNextMessage throws when the socket is not open
SendHello ==
    /\ hs = "version"
    /\ hs' = IF ws = "open" THEN "hello" ELSE "failed"
    /\ UNCHANGED <<ws, keepAlive, quiet, silent, me, secret, qr, login, logout, query, told>>

ServerHello ==
    /\ ws = "open" /\ hs = "hello" /\ ~silent
    /\ quiet' = 0
    /\ hs' = "finish"
    /\ UNCHANGED <<ws, keepAlive, silent, me, secret, qr, login, logout, query, told>>

\* sendRaw(clientFinish): rejects when the connection ended before
FinishSent ==
    /\ hs = "finish"
    /\ hs' = IF ws = "open" THEN "keys" ELSE "failed"
    /\ UNCHANGED <<ws, keepAlive, quiet, silent, me, secret, qr, login, logout, query, told>>

\* finishInit() resolves; nothing asks whether the connection is still there
KeysReady ==
    /\ hs = "keys"
    /\ hs' = "up" /\ keepAlive' = TRUE
    /\ UNCHANGED <<ws, quiet, silent, me, secret, qr, login, logout, query, told>>

\* ends the connection when the last frame is more than an interval and 5 s
\* ago: possible at the second tick after it, certain at the third
KeepAliveTick ==
    /\ keepAlive /\ ~Closed
    /\ \/ quiet + 1 >= 2 /\ EndConnection /\ UNCHANGED quiet
       \/ /\ quiet + 1 < 3
          /\ quiet' = quiet + 1
          /\ UNCHANGED <<ws, hs, keepAlive, qr, query, told>>
    /\ UNCHANGED <<silent, me, secret, login, logout>>

-----------------------------------------------------------------------------
(***************************************************************************)
(* query(): registers for the answer and for 'close', sends, and rejects   *)
(* when the send fails, when its timer fires or when end() is called.      *)
(***************************************************************************)
Begun(q) == [query EXCEPT ![q] = IF ws = "open" THEN "sending" ELSE "err"]
Becomes(q, outcome) ==
    /\ query' = [query EXCEPT ![q] = outcome]
    /\ UNCHANGED <<ws, hs, keepAlive, silent, me, secret, qr, login, logout, told>>

Ask(q) ==
    /\ q \in Asked /\ query[q] = "new"
    /\ query' = Begun(q)
    /\ UNCHANGED <<ws, hs, keepAlive, quiet, silent, me, secret, qr, login, logout, told>>

Sent(q)     == query[q] = "sending" /\ Becomes(q, "sent") /\ UNCHANGED quiet
SendFails(q) == query[q] = "sending" /\ Becomes(q, "err") /\ UNCHANGED quiet
Answer(q)   == Frame /\ query[q] = "sent" /\ \E o \in {"ok", "err"} : Becomes(q, o)
QueryTimeout(q) == Waiting(q) /\ Becomes(q, "err") /\ UNCHANGED quiet

-----------------------------------------------------------------------------
(***************************************************************************)
(* The success handler: count the pre-keys, upload some if there are few,  *)
(* tell that the device is active, ask for the digest and upload again if  *)
(* there is none.  Failing queries are logged and the handler goes on.     *)
(***************************************************************************)
Success ==
    /\ Frame /\ login = "none"
    /\ me = "paired" /\ told.codes = 0 /\ query[Link] = "new"   \* from the start
    /\ login' = "count" /\ query' = Begun(Login)
    /\ UNCHANGED <<ws, hs, keepAlive, silent, me, secret, qr, logout, told>>

\* mutant: a failing uploadPreKeysToServerIfRequired is not caught
After_Uncaught(step, outcome) ==
    IF outcome = "err" /\ step \in {"count", "upload"} THEN {}
    ELSE IF step \in {"count", "upload"} THEN {"passive"} ELSE {"open"}

After(step, outcome) ==
    CASE step = "count"   -> IF outcome = "ok" THEN {"upload", "passive"} ELSE {"passive"}
      [] step = "upload"  -> {"passive"}
      [] step = "passive" -> IF outcome = "ok" THEN {"digest"} ELSE {"open"}
      [] step = "digest"  -> IF outcome = "ok" THEN {"reupload", "open"} ELSE {"open"}
      [] OTHER            -> {"open"}

LoginStep ==
    /\ login \notin {"none", "open"} /\ Settled(Login)
    /\ login' \in After(login, query[Login])
    /\ IF login' = "open"
       THEN told' = [told EXCEPT !.open = TRUE] /\ qr' = [qr EXCEPT !.timer = FALSE] /\ UNCHANGED query
       ELSE query' = Begun(Login) /\ UNCHANGED <<told, qr>>
    /\ UNCHANGED <<ws, hs, keepAlive, quiet, silent, me, secret, logout>>

-----------------------------------------------------------------------------
(***************************************************************************)
(* Pairing by QR code: the references are shown one after another, and     *)
(* the connection ends with the last one.                                  *)
(***************************************************************************)
GenPairQR(q) ==
    IF ws # "open"
    THEN qr' = q /\ UNCHANGED <<ws, hs, keepAlive, query, told>>
    ELSE IF q.refs = 0
    THEN /\ ws' = "closed" /\ keepAlive' = FALSE /\ query' = Rejected(query) /\ UNCHANGED hs
         /\ qr' = [q EXCEPT !.timer = FALSE] /\ told' = [told EXCEPT !.close = TRUE]
    ELSE /\ qr' = [q EXCEPT !.refs = @ - 1, !.timer = TRUE]
         /\ told' = [told EXCEPT !.codes = @ + 1]
         /\ UNCHANGED <<ws, hs, keepAlive, query>>

\* the handler awaits that its reply is sent
PairDevice ==
    /\ Frame /\ qr.pc = "none" /\ login = "none" /\ me # "paired"
    /\ qr' = [qr EXCEPT !.pc = "replying"]
    /\ UNCHANGED <<ws, hs, keepAlive, silent, me, secret, login, logout, query, told>>

\* sent: the send may have succeeded just before the connection ended
PairDeviceReplied ==
    /\ qr.pc = "replying"
    /\ GenPairQR([qr EXCEPT !.pc = "showing", !.refs = MaxRefs])
    /\ UNCHANGED <<quiet, silent, me, secret, login, logout>>

PairDeviceFails ==
    /\ qr.pc = "replying"
    /\ qr' = [qr EXCEPT !.pc = "failed"]
    /\ UNCHANGED <<ws, hs, keepAlive, quiet, silent, me, secret, login, logout, query, told>>

QrTimer ==
    /\ qr.timer
    /\ GenPairQR([qr EXCEPT !.timer = FALSE])
    /\ UNCHANGED <<quiet, silent, me, secret, login, logout>>

\* the application asks for a pairing code: the QR timer is stopped
RequestPairingCode ==
    /\ hs = "up" /\ me = "none" /\ ws = "open"
    /\ me' = "claimed" /\ qr' = [qr EXCEPT !.timer = FALSE]
    /\ UNCHANGED <<ws, hs, keepAlive, quiet, silent, secret, login, logout, query, told>>

\* link_code_companion_reg: the code was entered on the phone
LinkCode ==
    /\ Frame /\ me = "claimed" /\ query[Link] = "new"
    /\ secret' = "link" /\ query' = Begun(Link)
    /\ UNCHANGED <<ws, hs, keepAlive, silent, me, qr, login, logout, told>>

\* pair-success carries a MAC with the secret of the way it was paired
PairSuccess(way) ==
    /\ Frame /\ me # "paired" /\ login = "none"
    /\ \/ way = "qr" /\ told.codes > 0
       \/ way = "link" /\ query[Link] = "ok"
    /\ IF way = secret
       THEN me' = "paired" /\ UNCHANGED <<ws, hs, keepAlive, qr, query, told>>
       ELSE EndConnection /\ UNCHANGED me
    /\ UNCHANGED <<silent, secret, login, logout>>

-----------------------------------------------------------------------------
Timers ==
    \/ ConnectTimeout \/ KeepAliveTick \/ QrTimer
    \/ \E q \in Queries : QueryTimeout(q)

Continuations ==
    \/ SendHello \/ FinishSent \/ KeysReady \/ LoginStep
    \/ PairDeviceReplied \/ PairDeviceFails \/ LogoutSettles

Environment ==
    \/ Open \/ Drop \/ StreamEnds \/ Logout \/ FallSilent \/ ServerHello \/ Success \/ PairDevice \/ RequestPairingCode \/ LinkCode
    \/ \E way \in {"qr", "link"} : PairSuccess(way)
    \/ \E q \in Queries : Ask(q) \/ Sent(q) \/ SendFails(q) \/ Answer(q)

ConnNext == Timers \/ Continuations \/ Environment

ConnGoesOn ==
    /\ WF_connVars(ConnectTimeout) /\ WF_connVars(KeepAliveTick)
    /\ WF_connVars(\E q \in Queries : QueryTimeout(q))
    /\ WF_connVars(Continuations)

ConnSpec == ConnInit /\ [][ConnNext]_connVars /\ ConnGoesOn

-----------------------------------------------------------------------------
(* Type invariant of the connection's variables.                           *)
QueryStates == {"new", "sending", "sent", "ok", "err"}
QrStates == [pc : {"none", "replying", "showing", "failed"}, refs : 0..MaxRefs, timer : BOOLEAN]
Told == [codes : 0..MaxRefs, open : BOOLEAN, close : BOOLEAN]

ConnTypeOK ==
    /\ ws \in {"connecting", "open", "closed"}
    /\ hs \in {"idle", "version", "hello", "finish", "keys", "up", "failed"}
    /\ keepAlive \in BOOLEAN /\ quiet \in 0..3 /\ silent \in BOOLEAN
    /\ me \in {"none", "claimed", "paired"} /\ secret \in {"qr", "link"}
    /\ qr \in QrStates
    /\ login \in {"none", "count", "upload", "passive", "digest", "reupload", "open"}
    /\ query \in [Queries -> QueryStates]
    /\ logout \in {"none", "sending", "done"}
    /\ told \in Told

(***************************************************************************)
(* When end() is done nothing is left that waits for the connection: every *)
(* query has been rejected, and no QR code is shown later, although the    *)
(* handlers that were suspended when it was called go on after it.         *)
(***************************************************************************)
NothingLeft ==
    Closed => /\ \A q \in Queries : ~Waiting(q)
              /\ ~qr.timer

(***************************************************************************)
(* A server that says nothing more, or nothing that can be read, does not  *)
(* leave the application with a dead connection: in every stage of it some *)
(* timer ends it.  Nor does a logout that cannot be sent.                  *)
(***************************************************************************)
SilenceEnds == (silent \/ logout = "sending") ~> Closed

(***************************************************************************)
(* A login is announced, whichever of its queries fail, time out or are    *)
(* cut off by the end of the connection.                                   *)
(***************************************************************************)
LoginEnds == login = "count" ~> told.open
=============================================================================
