---------------------------- MODULE DeviceLists ----------------------------
(***************************************************************************)
(* Which devices a message goes to: getUSyncDevices of                     *)
(* lib/messages-send.js asks the server for the devices of some users.     *)
(* Answers are cached twice, per user and per list of users, and calls     *)
(* share queries in flight, again per user and per list.  An answer is     *)
(* known by the instant the server gave it; it has a row for every user.   *)
(***************************************************************************)
EXTENDS Integers, FiniteSets

CONSTANTS Users,
          Lists,        \* the lists that are asked for
          MaxCalls,     \* bounds: calls, and the last instant
          MaxClock,
          DevicesTTL,   \* USYNC_DEVICES_TTL_MS: 30 seconds
          QueryTicks    \* the timeout of a query

ASSUME DeviceListsAssumption ==
    /\ Lists \subseteq SUBSET Users
    /\ DevicesTTL \in Nat /\ QueryTicks \in Nat /\ MaxCalls \in Nat

VARIABLES clock,
          perUser,      \* usyncDevicePerUserCache: a row and when it was written
          perList,      \* usyncDeviceCache: the rows of a list, and when
          userInflight, \* usyncDevicePerUserInflight: the call that asks
          listInflight, \* usyncDeviceInflight: the call that fetches
          calls         \* the calls of getUSyncDevices

listVars == <<clock, perUser, perList, userInflight, listInflight, calls>>

Callers == 1 .. MaxCalls
NoCall == 0
Missing == -1
NoRows == [u \in Users |-> Missing]

\* asked: when it asked the server about its targets; awaits: the call that asks
\* about a user for it; owner: the call whose fetch it shares.
Unused == [phase |-> "unused", list |-> {}, since |-> 0, rows |-> NoRows, targets |-> {},
           asked |-> 0, awaits |-> [u \in Users |-> NoCall], owner |-> NoCall]

ListsInit ==
    /\ clock = 0
    /\ perUser = [u \in Users |-> [ts |-> Missing, row |-> Missing]]
    /\ perList = [l \in Lists |-> [ts |-> Missing, rows |-> NoRows]]
    /\ userInflight = [u \in Users |-> NoCall]
    /\ listInflight = [l \in Lists |-> NoCall]
    /\ calls = [c \in Callers |-> Unused]

\* cacheLookup.
Fresh(entry) == entry.ts # Missing /\ clock - entry.ts <= DevicesTTL

Awaited(list) == {u \in list : ~Fresh(perUser[u]) /\ userInflight[u] # NoCall}
Unasked(list) == {u \in list : ~Fresh(perUser[u]) /\ userInflight[u] = NoCall}

Begins(c) == calls[c].phase = "unused" /\ \A k \in 1 .. c - 1 : calls[k].phase # "unused"
Begun(list) == [Unused EXCEPT !.list = list, !.since = clock]
Registered(c, targets) == [u \in Users |-> IF u \in targets THEN c ELSE userInflight[u]]

CallCached(c, list) ==
    /\ Begins(c) /\ Fresh(perList[list])
    /\ calls' = [calls EXCEPT ![c] = [Begun(list) EXCEPT !.phase = "done", !.rows = perList[list].rows]]
    /\ UNCHANGED <<clock, perUser, perList, userInflight, listInflight>>

CallShares(c, list) ==
    /\ Begins(c) /\ ~Fresh(perList[list]) /\ listInflight[list] # NoCall
    /\ calls' = [calls EXCEPT ![c] = [Begun(list) EXCEPT !.phase = "sharing", !.owner = listInflight[list]]]
    /\ UNCHANGED <<clock, perUser, perList, userInflight, listInflight>>

\* The users in the cache are taken and those asked about by others awaited
\* first.  Only then, or at once when there are none, the call asks about the
\* rest, and others can find that it does.
CallFetches(c, list) ==
    /\ Begins(c) /\ ~Fresh(perList[list]) /\ listInflight[list] = NoCall
    /\ LET asksNow == Awaited(list) = {} /\ Unasked(list) # {}
       IN /\ calls' = [calls EXCEPT ![c] =
                [Begun(list) EXCEPT
                    !.phase = IF asksNow THEN "asking" ELSE "awaiting",
                    !.rows = [u \in Users |-> IF u \in list /\ Fresh(perUser[u]) THEN perUser[u].row ELSE Missing],
                    !.targets = Unasked(list), !.asked = clock,
                    !.awaits = [u \in Users |-> IF u \in Awaited(list) THEN userInflight[u] ELSE NoCall]]]
          /\ userInflight' = IF asksNow THEN Registered(c, Unasked(list)) ELSE userInflight
    /\ listInflight' = [listInflight EXCEPT ![list] = c]
    /\ UNCHANGED <<clock, perUser, perList>>

CanGoOn(c) == calls[c].phase = "awaiting" /\ \A u \in Users : calls[c].awaits[u] = NoCall

\* What was awaited is there, and others are to be asked about.
AsksAfter(c) ==
    /\ CanGoOn(c) /\ calls[c].targets # {}
    /\ calls' = [calls EXCEPT ![c].phase = "asking", ![c].asked = clock]
    /\ userInflight' = Registered(c, calls[c].targets)
    /\ UNCHANGED <<clock, perUser, perList, listInflight>>

\* The end of fetchPromise, for its call and those that share it.
Ends(cs, c, rows) ==
    [k \in Callers |->
        IF k = c \/ (cs[k].phase = "sharing" /\ cs[k].owner = c)
        THEN [cs[k] EXCEPT !.phase = "done", !.rows = rows] ELSE cs[k]]

ListWritten(c, rows) ==
    /\ perList' = [perList EXCEPT ![calls[c].list] = [ts |-> clock, rows |-> rows]]
    /\ listInflight' = [listInflight EXCEPT ![calls[c].list] = NoCall]

\* Nothing to ask about.
EndsAfter(c) ==
    /\ CanGoOn(c) /\ calls[c].targets = {}
    /\ calls' = Ends(calls, c, calls[c].rows)
    /\ ListWritten(c, calls[c].rows)
    /\ UNCHANGED <<clock, perUser, userInflight>>

Forgotten(c) == [u \in Users |-> IF u \in calls[c].targets THEN NoCall ELSE userInflight[u]]

\* The calls that await call c get its rows.
Handed(c) ==
    [k \in Callers |-> [calls[k] EXCEPT
        !.rows = [u \in Users |-> IF calls[k].awaits[u] = c THEN clock ELSE @[u]],
        !.awaits = [u \in Users |-> IF @[u] = c THEN NoCall ELSE @[u]]]]

FetchedRows(c) == [u \in Users |-> IF u \in calls[c].targets THEN clock ELSE calls[c].rows[u]]

\* Plausible bug: every row of the answer is written, the cached ones too.
UsersWritten_All(c) ==
    [u \in Users |-> IF u \in calls[c].list /\ FetchedRows(c)[u] # Missing
                     THEN [ts |-> clock, row |-> FetchedRows(c)[u]] ELSE perUser[u]]

\* Only what was fetched is written, so that no row is kept alive by being used.
UsersWritten(c) ==
    [u \in Users |-> IF u \in calls[c].targets THEN [ts |-> clock, row |-> clock] ELSE perUser[u]]

Answer(c) ==
    /\ calls[c].phase = "asking"
    /\ perUser' = UsersWritten(c)
    /\ userInflight' = Forgotten(c)
    /\ calls' = Ends(Handed(c), c, FetchedRows(c))
    /\ ListWritten(c, FetchedRows(c))
    /\ UNCHANGED clock

Awaiters(c) == {k \in Callers : calls[k].phase = "awaiting" /\ \E u \in Users : calls[k].awaits[u] = c}
Sharers(cs) == {k \in Callers : calls[k].phase = "sharing" /\ calls[k].owner \in cs}

\* Plausible bug: the list stays in flight when its fetch fails.
ListsForgotten_OnSuccess(cs) == listInflight

ListsForgotten(cs) ==
    [l \in Lists |-> IF listInflight[l] \in cs THEN NoCall ELSE listInflight[l]]

\* The query fails: with it the calls that await it, and all that share those.
QueryFails(c) ==
    /\ calls[c].phase = "asking"
    /\ LET failing == {c} \cup Awaiters(c)
       IN /\ calls' = [k \in Callers |-> IF k \in failing \cup Sharers(failing)
                                         THEN [calls[k] EXCEPT !.phase = "failed"] ELSE calls[k]]
          /\ listInflight' = ListsForgotten(failing)
    /\ userInflight' = Forgotten(c)
    /\ UNCHANGED <<clock, perUser, perList>>

\* Time passes while nothing can go on; a query takes QueryTicks at most.
ClockTick ==
    /\ clock < MaxClock
    /\ \A c \in Callers : ~CanGoOn(c) /\ (calls[c].phase = "asking" => clock - calls[c].asked < QueryTicks)
    /\ clock' = clock + 1
    /\ UNCHANGED <<perUser, perList, userInflight, listInflight, calls>>

ListsNext ==
    \/ \E c \in Callers :
          \/ \E list \in Lists : CallCached(c, list) \/ CallShares(c, list) \/ CallFetches(c, list)
          \/ AsksAfter(c) \/ EndsAfter(c) \/ Answer(c) \/ QueryFails(c)
    \/ ClockTick

ListsSpec == ListsInit /\ [][ListsNext]_listVars
-----------------------------------------------------------------------------
\* However calls share and caches feed each other, a list of devices says what
\* the server said at most two lifetimes of a cache entry and two queries before
\* the call: a device linked since then may be missed, none for longer.
ListsFresh ==
    \A c \in Callers : calls[c].phase = "done" =>
        \A u \in calls[c].list :
            /\ calls[c].rows[u] # Missing
            /\ calls[c].since - calls[c].rows[u] <= 2 * DevicesTTL + 2 * QueryTicks

\* Nobody waits for what will not come: a call that is in flight for a user or a
\* list, or awaited, is still going to settle, whatever failed before.
InflightGoesOn ==
    LET pending == {c \in Callers : calls[c].phase \in {"asking", "awaiting"}}
    IN /\ \A l \in Lists : listInflight[l] \in pending \cup {NoCall}
       /\ \A u \in Users : userInflight[u] # NoCall => calls[userInflight[u]].phase = "asking"
       /\ \A c \in Callers : calls[c].phase = "sharing" => calls[c].owner \in pending
       /\ \A c \in pending, u \in Users :
             calls[c].phase = "awaiting" /\ calls[c].awaits[u] # NoCall =>
                 calls[calls[c].awaits[u]].phase = "asking"

\* What is cached, and what is in flight, does not outlive its worth.
ListsSound == ListsFresh /\ InflightGoesOn
=============================================================================
