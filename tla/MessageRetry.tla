---------------------------- MODULE MessageRetry ----------------------------
(***************************************************************************)
(* A device that could not read a message asks for it again with a retry   *)
(* receipt.  lib/socket.js keeps what it sent or received lately in the    *)
(* MessageRetryManager of lib/message-retry.js and answers from there, as  *)
(* often as a counter per message allows.  Receipts come from any device   *)
(* of any recipient and are handled as they come; what a handler does      *)
(* after its first await (opening sessions, encrypting, sending) leaves    *)
(* this state alone, so an answer is one step.                             *)
(***************************************************************************)
EXTENDS Integers, FiniteSets

CONSTANTS Messages,            \* where messages go and what they are: <<to, id>>
          Ids, IdOf,       \* the message id of a key
          MaxRecent,       \* RECENT_MESSAGES_SIZE: 512
          MessageTTL,      \* MESSAGE_CACHE_TTL: 5 minutes
          CounterTTL,      \* RETRY_COUNTER_TTL: 15 minutes
          RetryLimit,      \* the 5 of handleReceipt, which maxMsgRetryCount does not change
          MaxTime,         \* bound: the last instant
          NoMessage

ASSUME MessageRetryAssumption ==
    /\ IdOf \in [Messages -> Ids]
    /\ NoMessage \notin Messages
    /\ MaxRecent \in Nat \ {0}
    /\ RetryLimit \in Nat
    /\ MessageTTL \in Nat /\ CounterTTL \in Nat
    /\ MessageTTL <= CounterTTL

VARIABLES time,
          added,      \* recentMessagesMap: when a message was put there
          index,      \* messageKeyIndex: the key of a message id
          count,      \* retryCounters: how often an id was asked for
          counted,    \*   and when last
          resent,     \* answers since the message was last put there
          gaveUp      \* the messages given up since then

retryVars == <<time, added, index, count, counted, resent, gaveUp>>

Never == -1

RetryInit ==
    /\ time = 0
    /\ added = [k \in Messages |-> Never]
    /\ index = [i \in Ids |-> NoMessage]
    /\ count = [i \in Ids |-> 0]
    /\ counted = [i \in Ids |-> Never]
    /\ resent = [k \in Messages |-> 0]
    /\ gaveUp = {}

\* SimpleCache.get: an entry that is older than its TTL is not there.  The
\* counter lives from the last time it was counted.
Cached(k) == added[k] # Never /\ time - added[k] <= MessageTTL
FreshCounter(i) == counted[i] # Never /\ time - counted[i] <= CounterTTL

RetryCount(i) == IF FreshCounter(i) THEN count[i] ELSE 0

\* SimpleCache.delete with dispose: the id of the key leaves the index.
Without(table, k) == [table EXCEPT ![k] = Never]
Disposed(table, k) == [table EXCEPT ![IdOf[k]] = NoMessage]

\* SimpleCache._evict on a full cache: the oldest goes; of those put there
\* within one millisecond, any.
Older(k) == {j \in Messages \ {k} : added[j] # Never}
Oldest(k) == {j \in Older(k) : \A i \in Older(k) : added[j] <= added[i]}
Full(k) == Cardinality(Older(k)) >= MaxRecent

\* The listener of messages.upsert calls addRecentMessage.
Upsert(k) ==
    /\ \/ /\ ~Full(k)
          /\ added' = [added EXCEPT ![k] = time]
          /\ index' = [index EXCEPT ![IdOf[k]] = k]
       \/ /\ Full(k)
          /\ \E j \in Oldest(k) :
                /\ added' = [Without(added, j) EXCEPT ![k] = time]
                /\ index' = [Disposed(index, j) EXCEPT ![IdOf[k]] = k]
    /\ resent' = [resent EXCEPT ![k] = 0]
    /\ gaveUp' = gaveUp \ {k}
    /\ UNCHANGED <<time, count, counted>>

\* A retry receipt for what is not there, or no longer; an expired entry is
\* dropped on the way.
RetryUnknown(k) ==
    /\ ~Cached(k)
    /\ added' = Without(added, k)
    /\ index' = IF added[k] = Never THEN index ELSE Disposed(index, k)
    /\ UNCHANGED <<time, count, counted, resent, gaveUp>>

\* Plausible bug: the limit is tested before the request is counted.
Exceeds_Before(i) == RetryCount(i) > RetryLimit
Exceeds(i) == RetryCount(i) + 1 > RetryLimit

\* incrementRetryCount, and the message goes out again.
RetryAnswered(k) ==
    LET i == IdOf[k] IN
    /\ Cached(k)
    /\ ~Exceeds(i)
    /\ count' = [count EXCEPT ![i] = RetryCount(i) + 1]
    /\ counted' = [counted EXCEPT ![i] = time]
    /\ resent' = [resent EXCEPT ![k] = @ + 1]
    /\ UNCHANGED <<time, added, index, gaveUp>>

\* Plausible bug: the counter goes and the message stays.
Removed_Not(i) == UNCHANGED <<added, index>>

\* _removeRecentMessage finds the message by its id.
Removed(i) ==
    \/ /\ index[i] = NoMessage
       /\ UNCHANGED <<added, index>>
    \/ /\ index[i] # NoMessage
       /\ added' = Without(added, index[i])
       /\ index' = [index EXCEPT ![i] = NoMessage]

\* One receipt too many: markRetryFailed.
RetryGivenUp(k) ==
    LET i == IdOf[k] IN
    /\ Cached(k)
    /\ Exceeds(i)
    /\ count' = [count EXCEPT ![i] = 0]
    /\ counted' = [counted EXCEPT ![i] = Never]
    /\ Removed(i)
    /\ gaveUp' = gaveUp \cup {k}
    /\ UNCHANGED <<time, resent>>

\* SimpleCache._purge of the messages; expired counters are as good as gone.
Purge ==
    LET gone == {k \in Messages : added[k] # Never /\ ~Cached(k)} IN
    /\ gone # {}
    /\ added' = [k \in Messages |-> IF k \in gone THEN Never ELSE added[k]]
    /\ index' = [i \in Ids |-> IF \E k \in gone : IdOf[k] = i THEN NoMessage ELSE index[i]]
    /\ UNCHANGED <<time, count, counted, resent, gaveUp>>

Tick ==
    /\ time < MaxTime
    /\ time' = time + 1
    /\ UNCHANGED <<added, index, count, counted, resent, gaveUp>>

RetryNext ==
    \/ \E k \in Messages : Upsert(k)
    \/ \E k \in Messages : RetryUnknown(k)
    \/ \E k \in Messages : RetryAnswered(k)
    \/ \E k \in Messages : RetryGivenUp(k)
    \/ Purge
    \/ Tick

RetrySpec == RetryInit /\ [][RetryNext]_retryVars
-----------------------------------------------------------------------------
RetryTypeOK ==
    /\ time \in Nat
    /\ added \in [Messages -> Nat \cup {Never}]
    /\ index \in [Ids -> Messages \cup {NoMessage}]
    /\ count \in [Ids -> Nat]
    /\ counted \in [Ids -> Nat \cup {Never}]
    /\ resent \in [Messages -> Nat]
    /\ gaveUp \subseteq Messages

\* While a message can be asked for it is answered at most RetryLimit times,
\* by however many devices and however the receipts fall in time: the
\* counter outlives the message.
ResendsBounded == \A k \in Messages : resent[k] <= RetryLimit

\* A message that was given up (handleReceipt, markRetryFailed) is not
\* answered again, unless it is upserted again.
GivenUpIsGone == \A k \in gaveUp : added[k] = Never

\* The index leads to the message and to nothing that has left the cache:
\* else markRetryFailed forgets the wrong message or none.
IndexExact == \A k \in Messages : (added[k] # Never) <=> (index[IdOf[k]] = k)

\* No id is used by two messages: ids are random, and the listener files a
\* message under one remoteJid.  The index knows a message by its id alone,
\* so without this giving up one message could forget another.
UniqueIds == \A j, k \in Messages : IdOf[j] = IdOf[k] => j = k

\* The answers to a message that is there are in its counter, and the
\* counter is no older than the message.
Counted ==
    \A k \in Messages : added[k] # Never /\ resent[k] > 0 =>
        /\ counted[IdOf[k]] >= added[k]
        /\ count[IdOf[k]] >= resent[k]

NothingAhead ==
    /\ \A k \in Messages : added[k] <= time
    /\ \A i \in Ids : counted[i] <= time

RetryInv == RetryTypeOK /\ NothingAhead /\ IndexExact /\ Counted /\ ResendsBounded /\ GivenUpIsGone
=============================================================================
