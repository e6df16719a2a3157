--------------------------- MODULE SessionRecord ---------------------------
(***************************************************************************)
(* signal/session_record.js: the sessions shared with one remote device.   *)
(* A record is a function from session numbers to entries; sessions are    *)
(* numbered in the order they are put in, the order Object.entries lists   *)
(* them in.  An entry's "closed" is -1 while the session is open and the   *)
(* time it was closed afterwards; other fields are the caller's.           *)
(***************************************************************************)
EXTENDS Integers, FiniteSets

CONSTANT ClosedMax   \* CLOSED_SESSIONS_MAX: 40 in the code

ASSUME SessionRecordAssumption == ClosedMax \in Nat \ {0}

Open == -1

IsClosed(rec, i) == rec[i].closed # Open

OpenSessions(rec) == {i \in DOMAIN rec : ~IsClosed(rec, i)}

ClosedSessions(rec) == {i \in DOMAIN rec : IsClosed(rec, i)}

\* getOpenSession: the first of the entries that is open.
IsOpenSession(rec, i) ==
    /\ i \in OpenSessions(rec)
    /\ \A k \in OpenSessions(rec) : i <= k

\* closeSession(getOpenSession()) at time t.
CloseOpen(rec, t) ==
    [i \in DOMAIN rec |-> IF IsOpenSession(rec, i) THEN [rec[i] EXCEPT !.closed = t] ELSE rec[i]]

\* setSession of a session the record does not hold yet.
Put(rec, i, entry) == [k \in DOMAIN rec \cup {i} |-> IF k = i THEN entry ELSE rec[k]]

\* Plausible bug: of sessions closed at one instant the last entry goes.
RemovedBefore_LastOnTies(rec, i, k) ==
    \/ rec[i].closed < rec[k].closed
    \/ rec[i].closed = rec[k].closed /\ i > k

\* The order in which the loop of removeOldSessions picks closed sessions:
\* the one closed first, and of those closed at one instant the first entry.
RemovedBefore(rec, i, k) ==
    \/ rec[i].closed < rec[k].closed
    \/ rec[i].closed = rec[k].closed /\ i < k

\* What removeOldSessions may leave: it deletes closed sessions, the oldest
\* first, until ClosedMax are left; a record that is small enough stays.
Leaves(rec, kept) ==
    IF Cardinality(DOMAIN rec) <= ClosedMax
    THEN kept = DOMAIN rec
    ELSE /\ kept \subseteq DOMAIN rec
         /\ Cardinality(kept) = ClosedMax
         /\ \A i \in DOMAIN rec \ kept :
               /\ IsClosed(rec, i)
               /\ \A k \in kept : IsClosed(rec, k) => RemovedBefore(rec, i, k)

Kept(rec) == {kept \in SUBSET DOMAIN rec : Leaves(rec, kept)}

\* Too few sessions are closed: removeOldSessions throws.
Corrupt(rec) == Kept(rec) = {}

KeepOnly(rec, kept) == [i \in kept |-> rec[i]]
=============================================================================
