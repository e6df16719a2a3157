----------------------------- MODULE SenderKeys -----------------------------
(***************************************************************************)
(* Group messages.  A device encrypts for a group with a chain of its own  *)
(* (signal/group_cipher.js) and relayGroupMessage of lib/messages-send.js  *)
(* puts the chain as it was before the message, the distribution message,  *)
(* beside every message, pairwise encrypted to the devices it takes for    *)
(* members.  A receiver puts a state in front of its record for each.      *)
(* Every operation runs under the groupMutex of the record, so one is one  *)
(* step.  The server delivers in any order, and again; the receiver reads  *)
(* the pairwise part first, and may stop between the two.                  *)
(***************************************************************************)
EXTENDS Integers, Sequences, FiniteSets

CONSTANTS MaxStates,     \* 5: the states of a record
          MaxForward,    \* 2000: how far a chain is stepped for one message
          MaxGroupSends, \* bounds: messages, chains, deliveries
          MaxChains,
          MaxDeliveries

ASSUME SenderKeysAssumption ==
    MaxStates \in Nat \ {0} /\ MaxForward \in Nat /\ MaxGroupSends \in Nat

VARIABLES own,       \* the first state of the sender's record
          posted,    \* the stanzas at the server
          states,    \* the receiver's record
          opened,    \* the pairwise messages that were read: they are not read again
          reading,   \* the stanza between its pairwise and its group part
          arrived,   \* the distribution messages processed, in order
          readSince, \* the messages read since the last distribution of their chain
          reads,     \* how often each message was read
          refused    \* the message the last step could not read

senderVars == <<own, posted, states, opened, reading, arrived, readSince, reads, refused>>

Nobody == 0
Sends == 1 .. MaxGroupSends

\* setSenderKeyState of createSession: a new id, iteration 0.
NewState(id, iteration) == [id |-> id, iteration |-> iteration, kept |-> {}]

SenderInit ==
    /\ own = NewState(1, 0)
    /\ posted = <<>> /\ states = <<>>
    /\ opened = {} /\ reading = Nobody
    /\ arrived = <<>> /\ readSince = {}
    /\ reads = [n \in Sends |-> 0]
    /\ refused = Nobody

\* GroupCipher._getSenderKey: a key behind the chain must have been kept, one
\* ahead of it is reached by keeping those in between.
HasKey(s, target) ==
    \/ s.iteration > target /\ target \in s.kept
    \/ s.iteration <= target /\ target - s.iteration <= MaxForward

\* Plausible bug: the chain is left at the key it was stepped to.
KeyTaken_Stays(s, target) ==
    IF s.iteration > target
    THEN [s EXCEPT !.kept = @ \ {target}]
    ELSE [s EXCEPT !.iteration = target, !.kept = @ \cup s.iteration .. target - 1]

\* Plausible bug: the keys stepped over are not kept.
KeyTaken_Forgets(s, target) ==
    IF s.iteration > target
    THEN [s EXCEPT !.kept = @ \ {target}]
    ELSE [s EXCEPT !.iteration = target + 1]

KeyTaken(s, target) ==
    IF s.iteration > target
    THEN [s EXCEPT !.kept = @ \ {target}]
    ELSE [s EXCEPT !.iteration = target + 1, !.kept = @ \cup s.iteration .. target - 1]

\* GroupCipher.encrypt takes 0, 2, 4, ... of its own chain.
Target == IF own.iteration = 0 THEN 0 ELSE own.iteration + 1

Sendable == Len(posted) < MaxGroupSends

\* relayGroupMessage: with the distribution message for this receiver, or
\* without, when the list of participants, which is cached for 15 seconds or
\* given by the caller, does not have it.
SendGroup(withKey) ==
    /\ Sendable
    /\ posted' = Append(posted, [id |-> own.id, iteration |-> Target,
                                 start |-> own.iteration, withKey |-> withKey])
    /\ own' = KeyTaken(own, Target)
    /\ refused' = Nobody
    /\ UNCHANGED <<states, opened, reading, arrived, readSince, reads>>

\* The participants or their devices cannot be fetched: the key is used up.
\* (Bound: the chain runs no further ahead this way than can be reached.)
SendGroupFails ==
    /\ Sendable /\ Target <= MaxForward
    /\ own' = KeyTaken(own, Target)
    /\ refused' = Nobody
    /\ UNCHANGED <<posted, states, opened, reading, arrived, readSince, reads>>

\* A sender without a record, linked anew: createSession makes a chain.
CreateSession ==
    /\ Sendable /\ own.id < MaxChains
    /\ own' = NewState(own.id + 1, 0)
    /\ refused' = Nobody
    /\ UNCHANGED <<posted, states, opened, reading, arrived, readSince, reads>>

\* SenderKeyRecord.addState: in front, whatever else has that id.
AddState(s) == SubSeq(<<s>> \o states, 1, IF Len(states) < MaxStates THEN Len(states) + 1 ELSE MaxStates)

\* The pairwise part is read once; processDistributionMessage adds its state.
ReadKey(n) ==
    /\ reading = Nobody /\ n \in DOMAIN posted
    /\ Len(arrived) < MaxDeliveries
    /\ posted[n].withKey /\ n \notin opened
    /\ opened' = opened \cup {n}
    /\ states' = AddState(NewState(posted[n].id, posted[n].start))
    /\ arrived' = Append(arrived, [id |-> posted[n].id, start |-> posted[n].start])
    /\ readSince' = {k \in readSince : posted[k].id # posted[n].id}
    /\ reading' = n
    /\ refused' = Nobody
    /\ UNCHANGED <<own, posted, reads>>

\* Of a stanza without the pairwise part, or with one that was read before.
ReadNoKey(n) ==
    /\ reading = Nobody /\ n \in DOMAIN posted
    /\ ~posted[n].withKey \/ n \in opened
    /\ reads[n] < MaxDeliveries
    /\ reading' = n
    /\ refused' = Nobody
    /\ UNCHANGED <<own, posted, states, opened, arrived, readSince, reads>>

\* SenderKeyRecord.getState: the first of that id.
StatesOf(id) == {i \in DOMAIN states : states[i].id = id}
IsState(i, id) == i \in StatesOf(id) /\ \A k \in StatesOf(id) : i <= k

\* GroupCipher.decrypt stores the record only after it could read.
ReadGroup ==
    /\ reading # Nobody
    /\ \E i \in DOMAIN states :
          /\ IsState(i, posted[reading].id)
          /\ HasKey(states[i], posted[reading].iteration)
          /\ states' = [states EXCEPT ![i] = KeyTaken(@, posted[reading].iteration)]
    /\ reads' = [reads EXCEPT ![reading] = @ + 1]
    /\ readSince' = readSince \cup {reading}
    /\ reading' = Nobody
    /\ refused' = Nobody
    /\ UNCHANGED <<own, posted, opened, arrived>>

\* No state of that id, a counter that is too old, or too far ahead.
RefuseGroup ==
    /\ reading # Nobody
    /\ ~\E i \in DOMAIN states :
          /\ IsState(i, posted[reading].id)
          /\ HasKey(states[i], posted[reading].iteration)
    /\ refused' = reading
    /\ reading' = Nobody
    /\ UNCHANGED <<own, posted, states, opened, arrived, readSince, reads>>

\* The receiver stops between the two parts; the server delivers again.
ReceiverStops ==
    /\ reading # Nobody
    /\ reading' = Nobody
    /\ refused' = Nobody
    /\ UNCHANGED <<own, posted, states, opened, arrived, readSince, reads>>

SenderNext ==
    \/ \E withKey \in BOOLEAN : SendGroup(withKey)
    \/ SendGroupFails \/ CreateSession
    \/ \E n \in Sends : ReadKey(n) \/ ReadNoKey(n)
    \/ ReadGroup \/ RefuseGroup \/ ReceiverStops

SenderSpec == SenderInit /\ [][SenderNext]_senderVars
-----------------------------------------------------------------------------
\* The distributions that the record still has a state of.
Recent == {i \in DOMAIN arrived : i > Len(arrived) - MaxStates}

\* The last of them for the chain of message n was not made after n.
Due(n) ==
    \E i \in Recent :
        /\ arrived[i].id = posted[n].id
        /\ \A k \in Recent : arrived[k].id = posted[n].id => k <= i
        /\ arrived[i].start <= posted[n].iteration
        /\ posted[n].iteration - arrived[i].start <= MaxForward
        /\ n \notin readSince

\* Whatever the order of the messages, which of them bring a distribution
\* message and which are lost: a receiver cannot read a message only when the
\* last distribution message of its chain that it processed is of a later time,
\* or out of reach, or pushed out, or when it read the message since.
GroupReadable == [][refused' # Nobody => ~Due(refused')]_senderVars

\* However often the server delivers and wherever the receiver stops, every
\* distribution message lets it read a message once at most: one that is read
\* twice had an older distribution message come in between.
GroupReadOnce ==
    \A n \in DOMAIN posted :
        reads[n] <= Cardinality({i \in DOMAIN arrived :
                        arrived[i].id = posted[n].id /\ arrived[i].start <= posted[n].iteration})
=============================================================================
