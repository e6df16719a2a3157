------------------------------ MODULE AppState ------------------------------
(***************************************************************************)
(* App-state sync of one collection: lib/chats.js resyncAppState and       *)
(* appPatch over the patches of lib/chat-utils.js and lib/lt-hash.js.  The *)
(* server keeps a log of patches; a device stores the version it has seen, *)
(* the LT hash of the values that are set, and the value of every index,   *)
(* which it needs in order to subtract it when the index changes.          *)
(*                                                                         *)
(* A value is named by the version that set it.  The LT hash is a sum in a *)
(* group, so it is a number for every value: 1 when it is in the hash.     *)
(* A sync runs in a transaction that overlapping ones share (see           *)
(* KeyTransactions): one that throws may take the stored state back to     *)
(* what it was when the sync began.                                        *)
(***************************************************************************)
EXTENDS Integers, Sequences

CONSTANTS Syncs,        \* calls of resyncAppState and appPatch
          Indices,
          OwnChanges,   \* operations of appPatch: {"set"} or {"set", "remove"}
          MaxVersion,   \* bound: patches in the log
          MaxAttempts,  \* MAX_SYNC_ATTEMPTS
          Nothing

ASSUME AppStateAssumption == MaxVersion \in Nat /\ MaxAttempts \in Nat /\ Nothing \notin Nat

VARIABLES
    log,        \* the server's patches: [op, index, hash]
    stored,     \* 'app-state-sync-version': [version, hash, at] or Nothing
    sync,       \* each call: where it is, what it has read and been answered
    mutex,      \* the call that holds processingMutex, or Nothing
    view,       \* what the application was last told of each index
    overlapped, \* history: two calls ran at the same time
    undone      \* history: a call told what was old and was rolled back

appVars == <<log, stored, sync, mutex, view, overlapped, undone>>

Values == 1..MaxVersion
Versions == 0..MaxVersion

-----------------------------------------------------------------------------
(* The log as every device should read it.                                 *)

SetAt(n, i) ==
    LET changes == {m \in 1..n : log[m].index = i}
    IN  IF changes = {} THEN Nothing
        ELSE LET last == CHOOSE m \in changes : \A l \in changes : l <= m
             IN  IF log[last].op = "set" THEN last ELSE Nothing

HashOf(at) == [v \in Values |-> IF \E i \in Indices : at[i] = v THEN 1 ELSE 0]
TrueHash(n) == HashOf([i \in Indices |-> SetAt(n, i)])

-----------------------------------------------------------------------------
(* makeLtHashGenerator and the coding of patches.                          *)

NewState == [version |-> 0, hash |-> [v \in Values |-> 0], at |-> [i \in Indices |-> Nothing]]

Count(v, w) == IF v = w THEN 1 ELSE 0

\* mutant: the value an index had before is not subtracted
Mixed_AddsOnly(state, op, i, v) ==
    [version |-> v,
     hash |-> [w \in Values |-> state.hash[w] + (IF op = "set" THEN Count(v, w) ELSE 0)],
     at   |-> [state.at EXCEPT ![i] = IF op = "set" THEN v ELSE Nothing]]

\* mix() and finish(): subtract what the index had, add what is set
Mixed(state, op, i, v) ==
    [version |-> v,
     hash |-> [w \in Values |-> state.hash[w] - Count(state.at[i], w)
                                + (IF op = "set" THEN Count(v, w) ELSE 0)],
     at   |-> [state.at EXCEPT ![i] = IF op = "set" THEN v ELSE Nothing]]

MixThrows(state, op, i) == op = "remove" /\ state.at[i] = Nothing

\* encodeSyncdPatch: afterwards the index is set to the value, removed or not
EncodedState(state, op, i) ==
    LET v == state.version + 1
    IN  [Mixed(state, op, i, v) EXCEPT !.at[i] = v]

\* the state after each patch from the one a device has, or Nothing when one
\* cannot be applied or its hash is not the one the patch was signed with
Decoded(state, n) ==
    LET after[k \in state.version..n] ==
            IF k = state.version THEN state
            ELSE IF after[k - 1] = Nothing \/ MixThrows(after[k - 1], log[k].op, log[k].index) THEN Nothing
            ELSE LET next == Mixed(after[k - 1], log[k].op, log[k].index, k)
                 IN  IF next.hash = log[k].hash THEN next ELSE Nothing
    IN  after[n]

\* decodeSyncdSnapshot: the records of version n, checked with its hash
FromSnapshot(n) ==
    LET at == [i \in Indices |-> SetAt(n, i)]
    IN  IF HashOf(at) = log[n].hash THEN [version |-> n, hash |-> HashOf(at), at |-> at] ELSE Nothing

-----------------------------------------------------------------------------
NoReply == [snap |-> 0, upto |-> 0, more |-> FALSE]

\* older (history): patches came that end before what was told already, because
\* the call started again from an older snapshot
NewSync == [pc |-> "new", patch |-> FALSE, first |-> Nothing, from |-> Nothing, min |-> -1, attempts |-> 0,
            reply |-> NoReply, got |-> [i \in Indices |-> 0], own |-> Nothing, older |-> FALSE]

AppInit ==
    /\ log = <<>> /\ stored = Nothing
    /\ sync = [s \in Syncs |-> NewSync]
    /\ mutex = Nothing
    /\ view = [i \in Indices |-> 0]
    /\ overlapped = FALSE /\ undone = FALSE

Ended == [NewSync EXCEPT !.pc = "done"]

Running(s) == sync[s].pc \notin {"new", "queued", "done"}

\* another device changes an index
OtherDevice(op, i) ==
    /\ Len(log) < MaxVersion
    /\ op = "remove" => SetAt(Len(log), i) # Nothing
    /\ LET n == Len(log) + 1
           at == [j \in Indices |-> IF j # i THEN SetAt(n - 1, j) ELSE IF op = "set" THEN n ELSE Nothing]
       IN  log' = Append(log, [op |-> op, index |-> i, hash |-> HashOf(at)])
    /\ UNCHANGED <<stored, sync, mutex, view, overlapped, undone>>

\* asked with the version that is stored; min is only set by the first read
Asking(s) ==
    [s EXCEPT !.pc = "asked", !.from = IF stored = Nothing THEN NewState ELSE stored,
              !.min = IF @ = -1 /\ stored # Nothing THEN stored.version ELSE @]

Overlaps == overlapped' = (overlapped \/ \E t \in Syncs : Running(t))

BeginSync(s) ==
    /\ sync[s].pc = "new"
    /\ sync' = [sync EXCEPT ![s] = Asking([@ EXCEPT !.first = stored])]
    /\ Overlaps
    /\ UNCHANGED <<log, stored, mutex, view, undone>>

CallPatch(s) ==
    /\ sync[s].pc = "new"
    /\ sync' = [sync EXCEPT ![s].pc = "queued", ![s].patch = TRUE]
    /\ UNCHANGED <<log, stored, mutex, view, overlapped, undone>>

\* appPatch has the mutex and syncs first
BeginPatch(s) ==
    /\ sync[s].pc = "queued" /\ mutex = Nothing
    /\ mutex' = s
    /\ sync' = [sync EXCEPT ![s] = Asking([@ EXCEPT !.first = stored])]
    /\ Overlaps
    /\ UNCHANGED <<log, stored, view, undone>>

\* a snapshot when the device has nothing, then some or all later patches
ServerAnswers(s) ==
    LET from == sync[s].from.version
    IN  /\ sync[s].pc = "asked"
        /\ \E snap \in IF from = 0 /\ log # <<>> THEN 1..Len(log) ELSE {0}, upto \in from..Len(log) :
              /\ snap <= upto /\ (from < upto \/ upto = Len(log))
              /\ sync' = [sync EXCEPT ![s].pc = "answered",
                                      ![s].reply = [snap |-> snap, upto |-> upto, more |-> upto < Len(log)]]
        /\ UNCHANGED <<log, stored, mutex, view, overlapped, undone>>

FirstPatch(r) == (IF r.reply.snap > 0 THEN r.reply.snap ELSE r.from.version) + 1
Patches(r) == FirstPatch(r)..r.reply.upto

Newest(r, i, snapshotTold) ==
    LET changed == {k \in Patches(r) : log[k].index = i /\ k > r.min}
    IN  IF changed # {} THEN CHOOSE k \in changed : \A l \in changed : l <= k
        ELSE IF snapshotTold /\ r.reply.snap > 0 /\ SetAt(r.reply.snap, i) # Nothing THEN SetAt(r.reply.snap, i)
        ELSE r.got[i]

\* mutant: what a snapshot brings is not told once the device had a version
Told_FirstOnly(r) == [i \in Indices |-> Newest(r, i, r.min = -1)]

\* the newest mutation of each index that the application has not been told
\* of; a snapshot has the indices that are set, patches also those removed
Told(r) == [i \in Indices |-> Newest(r, i, r.reply.snap > r.min)]

Empty(r) == r.reply.snap = 0 /\ Patches(r) = {}

\* the states the answer may lead to.  Nothing: decoding throws, always when a
\* hash is wrong, and whenever a key or an external blob is not to be had
Decodes(r) ==
    LET base == IF r.reply.snap = 0 THEN r.from ELSE FromSnapshot(r.reply.snap)
    IN  IF Empty(r) THEN {r.from}
        ELSE {Nothing, IF base = Nothing THEN Nothing ELSE Decoded(base, r.reply.upto)}

\* mutant: an attempt is not counted
Attempts_Uncounted(r) == r.attempts

Attempts(r) == r.attempts + 1

\* an answer that was decoded is stored, and the loop asks for more or ends;
\* one that was not is dropped, and the state with it: from scratch, a few
\* times, or not at all after a 404 or a TypeError
Apply(s) ==
    /\ sync[s].pc = "answered"
    /\ \E state \in Decodes(sync[s]), fatal \in BOOLEAN,
          r \in {[sync[s] EXCEPT !.from = Nothing, !.reply = NoReply]} :
          IF state # Nothing
          THEN /\ stored' = IF Empty(sync[s]) THEN stored ELSE state
               /\ sync' = [sync EXCEPT ![s] =
                     [r EXCEPT !.pc = IF sync[s].reply.more THEN "again" ELSE "tell", !.got = Told(sync[s]),
                               !.min = IF Patches(sync[s]) # {} THEN sync[s].reply.upto ELSE @,
                               !.older = @ \/ (Patches(sync[s]) # {} /\ sync[s].reply.upto < r.min)]]
          ELSE /\ stored' = Nothing
               /\ sync' = [sync EXCEPT ![s] =
                     [r EXCEPT !.pc = IF fatal \/ r.attempts >= MaxAttempts THEN "tell" ELSE "again",
                               !.attempts = Attempts(r)]]
    /\ UNCHANGED <<log, mutex, view, overlapped, undone>>

AskAgain(s) ==
    /\ sync[s].pc = "again"
    /\ sync' = [sync EXCEPT ![s] = Asking(@)]
    /\ UNCHANGED <<log, stored, mutex, view, overlapped, undone>>

\* processSyncAction: a mutation becomes the event that tells its index's value
Shown(got) == [i \in Indices |-> IF got[i] > 0 THEN got[i] ELSE view[i]]

\* after the transaction the mutations go to the application
Tell(s) ==
    /\ sync[s].pc = "tell"
    /\ view' = Shown(sync[s].got)
    /\ sync' = [sync EXCEPT ![s] = IF @.patch THEN [NewSync EXCEPT !.pc = "encode", !.first = sync[s].first,
                                                                         !.older = sync[s].older]
                                             ELSE Ended]
    /\ UNCHANGED <<log, stored, mutex, overlapped, undone>>

Released(s) == mutex' = IF mutex = s THEN Nothing ELSE mutex

\* the modifications an application can ask for
Changes == [op : OwnChanges, index : Indices]

\* the patch is built on what is stored now
Encode(s) ==
    /\ sync[s].pc = "encode"
    /\ \E c \in Changes, initial \in {IF stored = Nothing THEN NewState ELSE stored} :
          /\ initial.version < MaxVersion /\ ~MixThrows(initial, c.op, c.index)
          /\ sync' = [sync EXCEPT ![s].pc = "sent",
                ![s].own = [op |-> c.op, index |-> c.index, state |-> EncodedState(initial, c.op, c.index)]]
    /\ UNCHANGED <<log, stored, mutex, view, overlapped, undone>>

\* the server takes a patch that follows its newest one
ServerTakesPatch(s) ==
    /\ sync[s].pc = "sent"
    /\ sync[s].own.state.version = Len(log) + 1
    /\ LET own == sync[s].own
       IN  log' = Append(log, [op |-> own.op, index |-> own.index, hash |-> own.state.hash])
    /\ sync' = [sync EXCEPT ![s].pc = "taken"]
    /\ UNCHANGED <<stored, mutex, view, overlapped, undone>>

\* stored; with emitOwnEvents the change is told like any other
PatchAnswered(s) ==
    /\ sync[s].pc = "taken"
    /\ stored' = sync[s].own.state
    /\ view' = [view EXCEPT ![sync[s].own.index] = stored'.version]
    /\ sync' = [sync EXCEPT ![s] = Ended]
    /\ Released(s)
    /\ UNCHANGED <<log, overlapped, undone>>

\* a query that is refused, lost or times out, a key or an index that is not
\* there: the call throws, its transaction is rolled back
Throws(s) ==
    /\ sync[s].pc \in {"asked", "encode", "sent", "taken"}
    /\ stored' \in IF overlapped THEN {stored, sync[s].first} ELSE {sync[s].first}
    /\ sync' = [sync EXCEPT ![s] = Ended]
    /\ undone' = (undone \/ (sync[s].older /\ sync[s].pc # "asked"))
    /\ Released(s)
    /\ UNCHANGED <<log, view, overlapped>>

Continue(s) ==
    \/ BeginPatch(s) \/ ServerAnswers(s) \/ Apply(s) \/ AskAgain(s) \/ Tell(s)
    \/ Encode(s) \/ PatchAnswered(s) \/ Throws(s)

AppNext ==
    \/ \E op \in {"set", "remove"}, i \in Indices : OtherDevice(op, i)
    \/ \E s \in Syncs : BeginSync(s) \/ CallPatch(s) \/ ServerTakesPatch(s) \/ Continue(s)

AppSpec == AppInit /\ [][AppNext]_appVars

-----------------------------------------------------------------------------
(***************************************************************************)
(* Every patch of the log carries the hash of the values that are set, so  *)
(* that no device has to refuse it ("failed to verify LTHash"): those of   *)
(* this device too, whatever it synced, missed or lost before.             *)
(***************************************************************************)
PatchesVerify == \A n \in 1..Len(log) : log[n].hash = TrueHash(n)

(***************************************************************************)
(* Calls that did not overlap leave the application with values no older   *)
(* than those of the version that is stored, which it will not be told     *)
(* again: nothing is skipped because an earlier attempt failed, was rolled *)
(* back or started again from a snapshot.  Not so of appPatch that starts  *)
(* again from a snapshot older than the version it had, tells the older    *)
(* values, and is then rolled back to that version.                        *)
(***************************************************************************)
ViewFollows ==
    (stored # Nothing /\ ~overlapped /\ ~undone /\ \A s \in Syncs : ~Running(s))
        => \A i \in Indices : SetAt(stored.version, i) # Nothing => view[i] >= SetAt(stored.version, i)

(***************************************************************************)
(* No call asks for ever, not even when nothing can be decoded: it only    *)
(* asks again when it has got further than it was, or at the cost of one   *)
(* of the few attempts it has to start from scratch.                       *)
(***************************************************************************)
RoundsEnd ==
    [][\A s \in Syncs :
          (sync[s].pc = "answered" /\ sync'[s].pc = "again")
              => IF stored' = Nothing
                 THEN sync[s].attempts < sync'[s].attempts /\ sync'[s].attempts <= MaxAttempts
                 ELSE stored'.version > sync[s].from.version]_appVars
=============================================================================
