------------------------------ MODULE Receive ------------------------------
(***************************************************************************)
(* Incoming messages: processIncomingMessage of lib/socket.js.  Every      *)
(* stanza of the server starts a handler of its own.  It acknowledges the  *)
(* stanza, decrypts its parts one after the other under the mutexes of     *)
(* lib/signal-repository.js, emits messages.upsert, and then looks at what *)
(* the message says.  Nothing makes one handler wait for another but those *)
(* mutexes.  Listeners get the event when the event buffer lets it go; one *)
(* of them keeps the messages in messageStore, for the votes on polls.     *)
(* What a session or a sender key can decrypt is the matter of             *)
(* SignalConversation and SenderKeys.                                      *)
(***************************************************************************)
EXTENDS Integers, Sequences, FiniteSets

CONSTANTS Authors,    \* the devices that send
          MaxStanzas  \* bound: the stanzas that come

ASSUME ReceiveAssumption == MaxStanzas \in Nat

VARIABLES stanzas,   \* what has come, in the order of the server
          acks,      \* the stanzas whose acknowledgement is being sent
          waiting,   \* the chain of each mutex: its head holds it
          done,      \* how many parts of a stanza were decrypted, or tried
          phase,     \* where its handler is
          unread,    \* the stanzas whose content could not be decrypted
          senderKeys, \* the stanzas whose sender key is in the author's record, the first in front
          buffering, held, \* the event buffer and the upserts in it
          messageStore,
          upserts,   \* what was emitted, in order
          dropped,   \* the votes whose poll was not found
          early,     \* the votes that were looked at while events were held
          met        \* the pairs of stanzas that were handled at the same time

receiveVars == <<stanzas, acks, waiting, done, phase, unread, senderKeys, buffering, held,
                 messageStore, upserts, dropped, early, met>>

Numbers == 1 .. MaxStanzas
NoStanza == 0

\* "keyed": a group message with the sender key of its author in a part of its
\* own; "group": without; "share": app-state keys from the phone; "broken": what
\* decodeMessageNode refuses or has nothing to decrypt.
Kinds == {"direct", "vote", "share", "keyed", "group", "broken"}
Mutexes == {"session", "sender key"} \X Authors

ReceiveInit ==
    /\ stanzas = <<>> /\ acks = <<>> /\ upserts = <<>>
    /\ waiting = [m \in Mutexes |-> <<>>]
    /\ done = [n \in Numbers |-> 0]
    /\ phase = [n \in Numbers |-> "none"]
    /\ unread = {} /\ held = {} /\ messageStore = {} /\ dropped = {} /\ early = {} /\ met = {}
    /\ senderKeys = [a \in Authors |-> <<>>]
    /\ buffering \in BOOLEAN

\* Plausible bug: the group part is decrypted before the part with its key.
Parts_KeyLast(kind) ==
    CASE kind = "keyed"  -> <<"chain", "session", "key">>
      [] kind = "group"  -> <<"chain">>
      [] kind = "broken" -> <<>>
      [] OTHER           -> <<"session">>

\* The children of the stanza that are decrypted, and after a pairwise one the
\* sender key it brought.
Parts(kind) ==
    CASE kind = "keyed"  -> <<"session", "key", "chain">>
      [] kind = "group"  -> <<"chain">>
      [] kind = "broken" -> <<>>
      [] OTHER           -> <<"session">>

MutexOf(n, i) ==
    <<IF Parts(stanzas[n].kind)[i] = "session" THEN "session" ELSE "sender key", stanzas[n].author>>

InHand == {n \in DOMAIN stanzas : phase[n] # "done"}

\* CB:message.  A vote is on an earlier message, whoever sent it.
Arrives(kind, author, poll) ==
    LET n == Len(stanzas) + 1 IN
    /\ n <= MaxStanzas
    /\ IF kind = "vote" THEN poll \in DOMAIN stanzas ELSE poll = NoStanza
    /\ stanzas' = Append(stanzas, [kind |-> kind, author |-> author, poll |-> poll])
    /\ acks' = Append(acks, n)
    /\ phase' = [phase EXCEPT ![n] = "acking"]
    /\ met' = met \cup {{k, n} : k \in InHand}
    /\ UNCHANGED <<waiting, done, unread, senderKeys, buffering, held, messageStore, upserts, dropped, early>>

Emitted(n) == upserts' = Append(upserts, n)

\* messages.upsert reaches its listeners at once, or with the flush.
Listened(n) ==
    IF buffering THEN held' = held \cup {n} /\ UNCHANGED messageStore
                 ELSE messageStore' = messageStore \cup {n} /\ UNCHANGED held

\* What processMessage does with a message that was emitted: a vote needs the
\* poll in messageStore, keys are stored one after the other.
Processed(n, readable) ==
    /\ phase' = [phase EXCEPT ![n] = IF readable /\ stanzas[n].kind = "share" THEN "storing" ELSE "done"]
    /\ IF readable /\ stanzas[n].kind = "vote"
       THEN /\ dropped' = IF stanzas[n].poll \in messageStore THEN dropped ELSE dropped \cup {n}
            /\ early' = IF buffering THEN early \cup {n} ELSE early
       ELSE UNCHANGED <<dropped, early>>

\* sendMessageAck has been written, or failed; nobody asks which.  What cannot
\* be decoded becomes a stub.
AckSettled ==
    /\ acks # <<>>
    /\ acks' = Tail(acks)
    /\ LET n == Head(acks) IN
       IF Parts(stanzas[n].kind) = <<>>
       THEN /\ Emitted(n)
            /\ unread' = unread \cup {n}
            /\ phase' = [phase EXCEPT ![n] = "done"]
            /\ UNCHANGED waiting
       ELSE /\ waiting' = [waiting EXCEPT ![MutexOf(n, 1)] = Append(@, n)]
            /\ phase' = [phase EXCEPT ![n] = "decrypting"]
            /\ UNCHANGED <<unread, upserts>>
    /\ UNCHANGED <<stanzas, done, senderKeys, buffering, held, messageStore, dropped, early, met>>

\* A record has the chain of the last sender key in front, which reads nothing
\* older than itself.
CanRead(n) ==
    LET keys == senderKeys[stanzas[n].author] IN keys # <<>> /\ Head(keys) <= n

\* Plausible bug: the handler that came last goes on first.
Unlocked_Last(m) ==
    LET w == Tail(waiting[m])
    IN IF w = <<>> THEN w ELSE <<w[Len(w)]>> \o SubSeq(w, 1, Len(w) - 1)

Unlocked(m) == Tail(waiting[m])

\* The section at the head of a mutex ends.  A part that cannot be decrypted is
\* noted (the message is then marked as CIPHERTEXT, even if the last part gives
\* its content) and the next one tried; without the pairwise part there is no key.
SectionEnds(m, ok) ==
    /\ waiting[m] # <<>>
    /\ LET n == Head(waiting[m])
           parts == Parts(stanzas[n].kind)
           part == parts[done[n] + 1]
           tried == done[n] + IF part = "session" /\ ~ok /\ stanzas[n].kind = "keyed" THEN 2 ELSE 1
           free == [waiting EXCEPT ![m] = Unlocked(m)]
       IN /\ done[n] < Len(parts) /\ m = MutexOf(n, done[n] + 1)
          /\ part = "chain" => ok = CanRead(n)
          /\ senderKeys' = IF part = "key" /\ ok THEN [senderKeys EXCEPT ![m[2]] = <<n>> \o @] ELSE senderKeys
          /\ done' = [done EXCEPT ![n] = tried]
          /\ IF tried < Len(parts)
             THEN /\ waiting' = [free EXCEPT ![MutexOf(n, tried + 1)] = Append(@, n)]
                  /\ UNCHANGED <<phase, unread, upserts, held, messageStore, dropped, early>>
             ELSE /\ waiting' = free
                  /\ Emitted(n)
                  /\ unread' = IF ok THEN unread ELSE unread \cup {n}
                  /\ IF ok THEN Listened(n) ELSE UNCHANGED <<held, messageStore>>
                  /\ Processed(n, ok)
    /\ UNCHANGED <<stanzas, acks, buffering, met>>

\* A share of app-state keys is stored, or fails: the message is then emitted
\* again, as one that could not be decrypted.
KeysStored(n, ok) ==
    /\ phase[n] = "storing"
    /\ phase' = [phase EXCEPT ![n] = "done"]
    /\ IF ok THEN UNCHANGED upserts ELSE Emitted(n)
    /\ UNCHANGED <<stanzas, acks, waiting, done, unread, senderKeys, buffering, held, messageStore,
                   dropped, early, met>>

\* Plausible bug: the listener takes the first message of an event.
Flushed_First == {n \in held : \A k \in held : n <= k}

Flushed == held

\* The flush at the end of the offline phase: one event with all messages.
FlushEvents ==
    /\ buffering
    /\ buffering' = FALSE
    /\ messageStore' = messageStore \cup Flushed
    /\ held' = {}
    /\ UNCHANGED <<stanzas, acks, waiting, done, phase, unread, senderKeys, upserts, dropped, early, met>>

ReceiveNext ==
    \/ \E kind \in Kinds, a \in Authors, poll \in Numbers \cup {NoStanza} : Arrives(kind, a, poll)
    \/ AckSettled
    \/ \E m \in Mutexes, ok \in BOOLEAN : SectionEnds(m, ok)
    \/ \E n \in Numbers, ok \in BOOLEAN : KeysStored(n, ok)
    \/ FlushEvents

ReceiveSpec == ReceiveInit /\ [][ReceiveNext]_receiveVars
-----------------------------------------------------------------------------
\* Direct messages of one device are handed out in the order of the server, and
\* so are its group messages when no key comes with them, although nothing but
\* the mutexes keeps their handlers apart.
AuthorsInOrder ==
    \A i, k \in DOMAIN upserts :
        LET s == upserts[i]
            t == upserts[k]
        IN i < k /\ stanzas[s].author = stanzas[t].author
             /\ Parts(stanzas[s].kind) = Parts(stanzas[t].kind) /\ Len(Parts(stanzas[s].kind)) = 1
             /\ (\A j \in 1 .. i - 1 : upserts[j] # s) /\ (\A j \in 1 .. k - 1 : upserts[j] # t)
           => s <= t

\* Handlers overtake each other: a group message whose author's key came before
\* it or with it, and could be processed, stays unread only if another message of
\* that author with a key was handled at the same time.
UnreadOnlyIfOvertaken ==
    \A n \in unread :
        /\ phase[n] = "done" /\ stanzas[n].kind \in {"keyed", "group"}
        /\ \E i \in DOMAIN senderKeys[stanzas[n].author] : senderKeys[stanzas[n].author][i] <= n
        => \E k \in Numbers \ {n} :
              /\ {k, n} \in met
              /\ stanzas[k].kind = "keyed" /\ stanzas[k].author = stanzas[n].author

\* A vote on a poll that could be read is counted, unless the two are handled at
\* the same time or the vote while events are held back.
VotesCounted ==
    \A n \in dropped :
        LET poll == stanzas[n].poll
        IN poll \in unread \/ {poll, n} \in met \/ n \in early

=============================================================================
