----------------------------- MODULE LidMapping -----------------------------
(***************************************************************************)
(* LIDMappingStore of lib/lid-utils.js: which LID a phone number has and   *)
(* the reverse, kept in a cache over the key store.  Its calls suspend     *)
(* each other at every read and between the write of a pair and its entry  *)
(* in the cache.  With keys that have transactions, those that overlap     *)
(* share one context, whose owner commits (addTransactionCapability of     *)
(* lib/auth-state.js, see KeyTransactions); with those of                  *)
(* useMultiFileAuthState every pair is written at once, a file for each    *)
(* direction.  Only the user parts of a jid count; the device is put back  *)
(* as it was.                                                              *)
(***************************************************************************)
EXTENDS Integers, Sequences, FiniteSets

CONSTANTS MapCalls,    \* calls of the store
          Pns, Lids,   \* users of both kinds
          NoUser,      \* nothing is known
          Pairs,       \* the pairs that come up, as <<pn, lid>>
          MaxPairs     \* bound: pairs of one call

ASSUME LidAssumption ==
    /\ NoUser \notin Pns \cup Lids \cup MapCalls /\ Pns \cap Lids = {}
    /\ Pairs \subseteq Pns \X Lids /\ MaxPairs \in Nat

VARIABLES transacts,            \* the keys have transactions
          cacheLid, cachePn,    \* cache, under pn: and lid:
          storedLid, storedPn,  \* the key store, under the user and its _reverse
          pendingLid, pendingPn,\* mutations of the transaction, NoUser where none
          taking,               \* what the commit under way writes
          owner,                \* the call whose transaction commits
          call,                 \* where each call is
          told,                 \* history: the newest mapping written, in both directions
          doubt                 \* history: keys whose writes overlapped, that were read when
                                \* their write ended, or whose write was lost, or a LID
                                \* looked at through a number it had

mapVars == <<transacts, cacheLid, cachePn, storedLid, storedPn, pendingLid, pendingPn, taking, owner, call, told, doubt>>

\* The key of a mapping in either direction leads to the other user.
Known(map, under, key) == IF map[key] # NoUser THEN map[key] ELSE under[key]
Nowhere == [p \in Pns |-> NoUser]
NoReverse == [l \in Lids |-> NoUser]
Idle == [kind |-> "none", pc |-> "new", pairs |-> <<>>, at |-> 1, set |-> {}, key |-> NoUser, out |-> NoUser,
         left |-> {}]

\* What a read finds: the mutations of the transaction before the store.
ReadLid(p) == Known(pendingLid, storedLid, p)
ReadPn(l) == Known(pendingPn, storedPn, l)

\* The keys that a call is writing: those of a pair until it is in the cache too, and
\* of a call that failed the files that are still under way.
Setting(c) == IF call[c].pc = "setting" THEN {call[c].key, call[c].out} ELSE {}
Writes(c) == Setting(c) \cup call[c].left
BeingSet == UNION {Setting(c) : c \in MapCalls}
BeingWritten == UNION {Writes(c) : c \in MapCalls}

MapInit ==
    /\ transacts \in BOOLEAN
    /\ cacheLid = Nowhere /\ storedLid = Nowhere /\ pendingLid = Nowhere
    /\ cachePn = NoReverse /\ storedPn = NoReverse /\ pendingPn = NoReverse
    /\ owner = NoUser /\ call = [c \in MapCalls |-> Idle]
    /\ taking = [lid |-> Nowhere, pn |-> NoReverse]
    /\ told = [k \in Pns \cup Lids |-> NoUser] /\ doubt = {}

Goes(c, pc) == call' = [call EXCEPT ![c].pc = pc]
Ends(c, out) == call' = [call EXCEPT ![c].pc = "done", ![c].out = out]
Caches(p, l) == cacheLid' = [cacheLid EXCEPT ![p] = l] /\ cachePn' = [cachePn EXCEPT ![l] = p]

\* A read under way when its key is written brings the older value into the cache.
Reading(keys) == {k \in keys : \E c \in MapCalls : call[c].pc = "reading" /\ call[c].key = k}

\* Reading the number brings both directions into the cache: the LID in doubt is one
\* whose newest number is another.
LedBack(p, l) == IF told[l] # p THEN {l} ELSE {}
-----------------------------------------------------------------------------
CallStore(c, pairs) ==
    /\ call[c].pc = "new"
    /\ call' = [call EXCEPT ![c] = [Idle EXCEPT !.kind = "store", !.pc = "comparing", !.pairs = pairs]]
    /\ UNCHANGED <<transacts, cacheLid, cachePn, storedLid, storedPn, pendingLid, pendingPn, taking, owner, told, doubt>>

\* The pair at hand is kept unless it is known already; the later of two of one number wins.
LeftToWrite(c, l, known) ==
    LET pair == call[c].pairs[call[c].at]
    IN  IF known = l THEN call[c].set ELSE {q \in call[c].set : q[1] # pair[1]} \cup {pair}

Compare(c) ==
    /\ call[c].pc = "comparing" /\ call[c].at <= Len(call[c].pairs)
    /\ LET p == call[c].pairs[call[c].at][1]
           l == call[c].pairs[call[c].at][2]
       IN IF cacheLid[p] = NoUser
          THEN call' = [call EXCEPT ![c].pc = "reading", ![c].key = p, ![c].out = ReadLid(p)]
          ELSE call' = [call EXCEPT ![c].at = @ + 1, ![c].set = LeftToWrite(c, l, cacheLid[p])]
    /\ UNCHANGED <<transacts, cacheLid, cachePn, storedLid, storedPn, pendingLid, pendingPn, taking, owner, told, doubt>>

\* The read of one of the pairs is answered.
Compared(c) ==
    /\ call[c].kind = "store" /\ call[c].pc = "reading"
    /\ LET p == call[c].key
           known == call[c].out
       IN /\ IF known # NoUser
             THEN Caches(p, known) /\ doubt' = doubt \cup LedBack(p, known)
             ELSE UNCHANGED <<cacheLid, cachePn, doubt>>
          /\ call' = [call EXCEPT ![c].pc = "comparing", ![c].at = @ + 1, ![c].key = NoUser, ![c].out = NoUser,
                                  ![c].set = LeftToWrite(c, call[c].pairs[call[c].at][2], known)]
    /\ UNCHANGED <<transacts, storedLid, storedPn, pendingLid, pendingPn, taking, owner, told>>

\* All pairs were looked at: the transaction begins, or joins the one there is.
\* transaction() of keys without them just calls the function.
BeginMapping(c) ==
    /\ call[c].pc = "comparing" /\ call[c].at > Len(call[c].pairs)
    /\ IF call[c].set = {}
       THEN Ends(c, NoUser) /\ UNCHANGED owner
       ELSE Goes(c, "writing") /\ owner' = IF transacts /\ owner = NoUser THEN c ELSE owner
    /\ UNCHANGED <<transacts, cacheLid, cachePn, storedLid, storedPn, pendingLid, pendingPn, taking, told, doubt>>

\* Plausible bug: only the number is cached.
PutsInCache_OneWay(p, l) == cacheLid' = [cacheLid EXCEPT ![p] = l] /\ UNCHANGED cachePn
PutsInCache(p, l) == Caches(p, l)

\* The set of one pair: into the context, or if there is none (any more, since it was
\* another's, or with these keys) into a file for each direction.  The pairs go one
\* by one, in the order of the object's keys: by value where they look like an
\* index, else as they came.  Any order stands for it.
WriteBegins(c) ==
    /\ call[c].pc = "writing"
    /\ \E q \in call[c].set :
          /\ IF owner = NoUser
             THEN UNCHANGED <<pendingLid, pendingPn>>
             ELSE pendingLid' = [pendingLid EXCEPT ![q[1]] = q[2]] /\ pendingPn' = [pendingPn EXCEPT ![q[2]] = q[1]]
          /\ call' = [call EXCEPT ![c].pc = "setting", ![c].set = @ \ {q}, ![c].key = q[1], ![c].out = q[2],
                                  ![c].left = IF owner = NoUser THEN {q[1], q[2]} ELSE {}]
          /\ doubt' = (doubt \ {q[1], q[2]}) \cup ({q[1], q[2]} \cap BeingWritten)
    /\ UNCHANGED <<transacts, cacheLid, cachePn, storedLid, storedPn, taking, owner, told>>

\* One of the files is written, of a call that failed for the other one too.
FileWritten(c, k) ==
    /\ k \in call[c].left
    /\ IF k = call[c].key
       THEN storedLid' = [storedLid EXCEPT ![k] = call[c].out] /\ UNCHANGED storedPn
       ELSE storedPn' = [storedPn EXCEPT ![k] = call[c].key] /\ UNCHANGED storedLid
    /\ call' = [call EXCEPT ![c].left = @ \ {k}]
    /\ UNCHANGED <<transacts, cacheLid, cachePn, pendingLid, pendingPn, taking, owner, told, doubt>>

\* The first that cannot be written ends the call (Promise.all): nothing is cached.
FileFails(c, k) ==
    /\ k \in call[c].left
    /\ call' = [call EXCEPT ![c].pc = "failed", ![c].left = @ \ {k}]
    /\ doubt' = doubt \cup {call[c].key, call[c].out}
    /\ UNCHANGED <<transacts, cacheLid, cachePn, storedLid, storedPn, pendingLid, pendingPn, taking, owner, told>>

\* The set is awaited, and the pair comes into the cache.
WriteEnds(c) ==
    /\ call[c].pc = "setting" /\ call[c].left = {}
    /\ PutsInCache(call[c].key, call[c].out)
    /\ told' = [told EXCEPT ![call[c].key] = call[c].out, ![call[c].out] = call[c].key]
    /\ doubt' = doubt \cup Reading({call[c].key, call[c].out})
    /\ call' = [call EXCEPT ![c].pc = "writing", ![c].key = NoUser, ![c].out = NoUser]
    /\ UNCHANGED <<transacts, storedLid, storedPn, pendingLid, pendingPn, taking, owner>>

\* The work of a call is done.  One that joined returns.
JoinedEnds(c) ==
    /\ call[c].pc = "writing" /\ call[c].set = {} /\ owner # c
    /\ Ends(c, NoUser)
    /\ UNCHANGED <<transacts, cacheLid, cachePn, storedLid, storedPn, pendingLid, pendingPn, taking, owner, told, doubt>>

\* The owner commits, and after a failed attempt again, with what is there by then.
CommitTakes(c) ==
    /\ call[c].pc \in {"writing", "committing"} /\ call[c].set = {} /\ owner = c
    /\ taking' = [lid |-> pendingLid, pn |-> pendingPn]
    /\ Goes(c, "committing")
    /\ UNCHANGED <<transacts, cacheLid, cachePn, storedLid, storedPn, pendingLid, pendingPn, owner, told, doubt>>

\* A write that was begun may end in the store in part; what an attempt failed to
\* write is taken to be over with it.
Partly ==
    /\ storedLid' \in {storedLid, [p \in Pns |-> Known(taking.lid, storedLid, p)]}
    /\ storedPn' \in {storedPn, [l \in Lids |-> Known(taking.pn, storedPn, l)]}

Written(lids, pns) == {p \in Pns : pendingLid[p] # lids[p]} \cup {l \in Lids : pendingPn[l] # pns[l]}

\* What joined the context after the commit took it is lost, all of it if the last
\* attempt fails.
CommitEnds(c, ok) ==
    /\ call[c].pc = "committing"
    /\ Partly
    /\ IF ok
       THEN /\ \A p \in Pns : storedLid'[p] = Known(taking.lid, storedLid, p)
            /\ \A l \in Lids : storedPn'[l] = Known(taking.pn, storedPn, l)
            /\ doubt' = doubt \cup Written(taking.lid, taking.pn)
       ELSE doubt' = doubt \cup Written(Nowhere, NoReverse)
    /\ pendingLid' = Nowhere /\ pendingPn' = NoReverse /\ owner' = NoUser
    /\ taking' = [lid |-> Nowhere, pn |-> NoReverse]
    /\ Ends(c, NoUser)
    /\ UNCHANGED <<transacts, cacheLid, cachePn, told>>
-----------------------------------------------------------------------------
\* getLIDsForPNs, of one number.
LookUpLid(c, p) ==
    /\ call[c].pc = "new"
    /\ call' = [call EXCEPT ![c] = IF cacheLid[p] # NoUser
                                   THEN [Idle EXCEPT !.kind = "lid", !.pc = "done", !.key = p, !.out = cacheLid[p]]
                                   ELSE [Idle EXCEPT !.kind = "lid", !.pc = "reading", !.key = p, !.out = ReadLid(p)]]
    /\ UNCHANGED <<transacts, cacheLid, cachePn, storedLid, storedPn, pendingLid, pendingPn, taking, owner, told, doubt>>

\* What the store does not know is asked of the server.
LidRead(c) ==
    /\ call[c].kind = "lid" /\ call[c].pc = "reading"
    /\ IF call[c].out # NoUser
       THEN /\ Caches(call[c].key, call[c].out)
            /\ doubt' = doubt \cup LedBack(call[c].key, call[c].out)
            /\ Ends(c, call[c].out)
       ELSE Goes(c, "asking") /\ UNCHANGED <<cacheLid, cachePn, doubt>>
    /\ UNCHANGED <<transacts, storedLid, storedPn, pendingLid, pendingPn, taking, owner, told>>

\* pnToLIDFunc: what it brings is stored before the call goes on with it.
Asked(c, found) ==
    /\ call[c].pc = "asking"
    /\ call' = [call EXCEPT ![c] = IF found = NoUser THEN [@ EXCEPT !.pc = "done"]
                                   ELSE [Idle EXCEPT !.kind = "store", !.pc = "comparing",
                                                     !.pairs = <<<<call[c].key, found>>>>]]
    /\ UNCHANGED <<transacts, cacheLid, cachePn, storedLid, storedPn, pendingLid, pendingPn, taking, owner, told, doubt>>

LookUpPn(c, l) ==
    /\ call[c].pc = "new"
    /\ call' = [call EXCEPT ![c] = IF cachePn[l] # NoUser
                                   THEN [Idle EXCEPT !.kind = "pn", !.pc = "done", !.key = l, !.out = cachePn[l]]
                                   ELSE [Idle EXCEPT !.kind = "pn", !.pc = "reading", !.key = l, !.out = ReadPn(l)]]
    /\ UNCHANGED <<transacts, cacheLid, cachePn, storedLid, storedPn, pendingLid, pendingPn, taking, owner, told, doubt>>

PnRead(c) ==
    /\ call[c].kind = "pn" /\ call[c].pc = "reading"
    /\ IF call[c].out # NoUser THEN cachePn' = [cachePn EXCEPT ![call[c].key] = call[c].out] ELSE UNCHANGED cachePn
    /\ Ends(c, call[c].out)
    /\ UNCHANGED <<transacts, cacheLid, storedLid, storedPn, pendingLid, pendingPn, taking, owner, told, doubt>>
-----------------------------------------------------------------------------
\* The process stops; a cold cache reads the store.
Restart ==
    /\ cacheLid # Nowhere \/ cachePn # NoReverse \/ BeingWritten # {}
    /\ cacheLid' = Nowhere /\ cachePn' = NoReverse /\ pendingLid' = Nowhere /\ pendingPn' = NoReverse
    /\ Partly
    /\ taking' = [lid |-> Nowhere, pn |-> NoReverse] /\ owner' = NoUser
    /\ call' = [c \in MapCalls |-> IF call[c].pc = "new" THEN call[c] ELSE [Idle EXCEPT !.pc = "done"]]
    /\ doubt' = doubt \cup Written(Nowhere, NoReverse) \cup BeingWritten
    /\ UNCHANGED <<transacts, told>>

MapNext ==
    \/ \E c \in MapCalls :
        \/ \E n \in 1 .. MaxPairs : \E pairs \in [1 .. n -> Pairs] : CallStore(c, pairs)
        \/ Compare(c) \/ Compared(c) \/ BeginMapping(c) \/ JoinedEnds(c) \/ CommitTakes(c)
        \/ WriteBegins(c) \/ WriteEnds(c)
        \/ \E k \in Pns \cup Lids : FileWritten(c, k) \/ FileFails(c, k)
        \/ \E ok \in BOOLEAN : CommitEnds(c, ok)
        \/ \E p \in Pns : LookUpLid(c, p)
        \/ LidRead(c)
        \/ \E found \in Lids \cup {NoUser} : <<call[c].key, found>> \in Pairs \cup (Pns \X {NoUser}) /\ Asked(c, found)
        \/ \E l \in Lids : LookUpPn(c, l)
        \/ PnRead(c)
    \/ Restart

MapSpec == MapInit /\ [][MapNext]_mapVars
-----------------------------------------------------------------------------
\* What the cache says is the newest mapping that was written, and so is what the
\* store says, now or once the transaction is committed.  Not so of the keys of a pair
\* that is written and not yet in the cache; and, until they are next written, where
\* writes of one key overlapped or a read of it was under way when its write ended,
\* and where a write was lost: a file or a commit that failed leaves cache and store
\* apart, and a pair that the cache knows is not written again.  And a number that a
\* user has left still has the LID, and looking it up turns the LID back to it.
MappingsFollow ==
    /\ \A p \in Pns \ (doubt \cup BeingSet) :
        /\ cacheLid[p] \in {NoUser, told[p]}
        /\ ReadLid(p) = told[p]
    /\ \A l \in Lids \ (doubt \cup BeingSet) :
        /\ cachePn[l] \in {NoUser, told[l]}
        /\ ReadPn(l) = told[l]
=============================================================================
