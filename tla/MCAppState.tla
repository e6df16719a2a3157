----------------------------- MODULE MCAppState -----------------------------
(* Two calls, one after the other or overlapping, and another device; or    *)
(* one call of a device that comes back with version 4, and may be answered *)
(* with a snapshot that is older.                                           *)
EXTENDS AppState

CONSTANTS s1, s2, i1, i2,
          MaxFailures   \* bound: answers that cannot be decoded

HashOfOne(n) == [v \in Values |-> Count(n, v)]
ComesBack ==
    /\ log = [n \in 1..4 |-> [op |-> "set", index |-> i1, hash |-> HashOfOne(n)]]
    /\ stored = [version |-> 4, hash |-> HashOfOne(4), at |-> [i \in Indices |-> IF i = i1 THEN 4 ELSE Nothing]]
    /\ sync = [s \in Syncs |-> IF s = s1 THEN NewSync ELSE Ended]
    /\ mutex = Nothing
    /\ view = [i \in Indices |-> IF i = i1 THEN 4 ELSE 0]
    /\ overlapped = FALSE /\ undone = FALSE

\* Calls are alike, and so are indices: the second one changes second, if at
\* all.  A snapshot is of the newest version or the one before, but for the
\* device that comes back.  What happens after the calls is of no interest.
MCNext ==
    /\ AppNext
    /\ sync'[s2].pc # "new" => sync'[s1].pc # "new"
    /\ \E s \in Syncs : sync[s].pc # "done"
    /\ \A n \in 1..Len(log') : log'[n].index = i2 => n = 2
    /\ Len(log') <= IF Len(log) > 3 THEN 5 ELSE 3
    /\ \A s \in Syncs : sync'[s].reply.snap = 0 \/ sync'[s].reply.snap >= Len(log) - 1 \/ Len(log) > 3
    /\ sync'[s1].attempts + sync'[s2].attempts <= MaxFailures

MCSpec == (AppInit \/ ComesBack) /\ [][MCNext]_appVars
=============================================================================
