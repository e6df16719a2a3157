---------------------------- MODULE SessionStore ----------------------------
(***************************************************************************)
(* How the session operations change the record of one remote device: the  *)
(* jobs of signal/session_builder.js and signal/session_cipher.js that     *)
(* load it, change it and store it back.  The jobs of one address run one  *)
(* at a time (JobQueue), and what a job changed is thrown away with its    *)
(* copy of the record when it fails, so an action is a whole job that      *)
(* stores.  Keys and chains are in SignalConversation, which implements    *)
(* this specification.                                                     *)
(***************************************************************************)
EXTENDS SessionRecord

CONSTANTS MaxSessions,   \* bound: sessions ever set up with the device
          Times          \* the instants Date.now() returns

ASSUME SessionStoreAssumption == MaxSessions \in Nat /\ Times \subseteq Nat

VARIABLES record,     \* the stored record: session number -> [closed]
          opened,     \* how many sessions were ever put into it
          now,        \* the time of the last job
          corrupt     \* a job failed with 'Corrupt sessions object'

storeVars == <<record, opened, now, corrupt>>

NewEntry == [closed |-> Open]

StoreInit ==
    /\ record = [i \in {} |-> NewEntry]
    /\ opened = 0
    /\ now = 0
    /\ corrupt = FALSE

\* A job runs at a time that is not before that of the job before it.
At(t) == now <= t /\ now' = t

\* storeRecord: removeOldSessions, then the record is saved, unless that
\* throws: then the job fails and the stored record stays as it was.
StoreRecord(rec, put) ==
    \/ \E kept \in Kept(rec) :
          /\ record' = KeepOnly(rec, kept)
          /\ opened' = opened + put
          /\ UNCHANGED corrupt
    \/ /\ Corrupt(rec)
       /\ corrupt' = TRUE
       /\ UNCHANGED <<record, opened>>

\* Plausible bug: a new outgoing session leaves the open one open.
InitOutgoing_LeavesOpen(t) ==
    /\ opened < MaxSessions
    /\ At(t)
    /\ record' = Put(record, opened + 1, NewEntry)
    /\ opened' = opened + 1
    /\ UNCHANGED corrupt

\* SessionBuilder.initOutgoing, which saves without removeOldSessions.
InitOutgoing(t) ==
    /\ opened < MaxSessions
    /\ At(t)
    /\ record' = Put(CloseOpen(record, t), opened + 1, NewEntry)
    /\ opened' = opened + 1
    /\ UNCHANGED corrupt

\* decryptPreKeyWhisperMessage on a base key the record does not hold.
InitIncoming(t) ==
    /\ opened < MaxSessions
    /\ At(t)
    /\ StoreRecord(Put(CloseOpen(record, t), opened + 1, NewEntry), 1)

\* encrypt on the open session, a decryption on any session, and a pre-key
\* message of a session the record already holds.
Use(t) ==
    /\ DOMAIN record # {}
    /\ At(t)
    /\ StoreRecord(record, 0)

\* closeOpenSession (exported by signal/session_cipher.js, called by nobody).
CloseOpenSession(t) ==
    /\ OpenSessions(record) # {}
    /\ At(t)
    /\ StoreRecord(CloseOpen(record, t), 0)

StoreNext ==
    \/ \E t \in Times : InitOutgoing(t)
    \/ \E t \in Times : InitIncoming(t)
    \/ \E t \in Times : Use(t)
    \/ \E t \in Times : CloseOpenSession(t)

StoreSpec == StoreInit /\ [][StoreNext]_storeVars
-----------------------------------------------------------------------------
StoreTypeOK ==
    /\ opened \in 0 .. MaxSessions
    /\ DOMAIN record \subseteq 1 .. opened
    /\ record \in [DOMAIN record -> [closed : Nat \cup {Open}]]
    /\ now \in Nat
    /\ corrupt \in BOOLEAN

\* At most one session is open, and it is the one set up last: encrypt never
\* has a choice, and never uses an older session than the newest.
OnlyNewestOpen == OpenSessions(record) \subseteq {opened}

\* removeOldSessions always finds a closed session to delete.
NeverCorrupt == ~corrupt

\* The ClosedMax sessions set up last are always there, whatever the order
\* of the operations and however close together the clock puts them: a
\* message is refused for want of its session only when ClosedMax newer
\* sessions were set up.
NewestKept == {i \in 1 .. opened : i > opened - ClosedMax} \subseteq DOMAIN record

\* Sessions are closed in the order they were opened, and deleted from the
\* oldest on: what is left is always an unbroken run up to the newest.
ClosedInOrder ==
    /\ \A i \in DOMAIN record : record[i].closed <= now
    /\ \A i, k \in DOMAIN record :
          i < k /\ IsClosed(record, k) => record[i].closed <= record[k].closed
    /\ \A i \in DOMAIN record : i .. opened \subseteq DOMAIN record

RecordInv == StoreTypeOK /\ OnlyNewestOpen /\ NeverCorrupt /\ NewestKept /\ ClosedInOrder
=============================================================================
