------------------------------ MODULE SendPath ------------------------------
(***************************************************************************)
(* relayMessage of lib/messages-send.js: a message goes through the list   *)
(* of devices (DeviceLists), the sessions with them, one encryption per    *)
(* device and the socket.  Relays of one chat queue on relayMutex, those   *)
(* of different chats interleave at every await; all queue on              *)
(* sessionAssertMutex, and two that encrypt equal bytes for one device at  *)
(* the same time share the ciphertext.  The devices of the own account get *)
(* other bytes, by the same way.                                           *)
(***************************************************************************)
EXTENDS Integers, Sequences, FiniteSets

CONSTANTS Relays,             \* the messages that are sent
          ChatOf, BytesOf,    \* the chat of a relay; what it encrypts pairwise
          DevicesOf,          \* the devices its list has in the end
          Groups              \* the chats that are groups

ASSUME SendPathAssumption ==
    /\ DOMAIN ChatOf = Relays /\ DOMAIN BytesOf = Relays /\ DOMAIN DevicesOf = Relays

Devices == UNION {DevicesOf[r] : r \in Relays}
Encryptions == Devices \X {BytesOf[r] : r \in Relays}

VARIABLES relayQueue,   \* the relays as they were called: the chains of relayMutex
          relay,        \* where each is
          asserting,    \* the queue of sessionAssertMutex
          withSession,  \* the devices that have a session
          inflight,     \* encryptInflight: the relays that wait for an encryption
          made,         \* ciphertexts made so far
          enc,          \* the ciphertexts a relay has got
          iteration,    \* group messages encrypted so far in a chat
          outgoing       \* what went out

sendVars == <<relayQueue, relay, asserting, withSession, inflight, made, enc, iteration, outgoing>>

NoCipher == 0
Ended == {"sent", "failed"}

SendInit ==
    /\ relayQueue = <<>> /\ asserting = <<>> /\ outgoing = <<>>
    /\ relay = [r \in Relays |-> "idle"]
    /\ withSession = {}
    /\ inflight = [e \in Encryptions |-> {}]
    /\ made = 0
    /\ enc = [r \in Relays |-> [d \in DevicesOf[r] |-> NoCipher]]
    /\ iteration = [c \in {ChatOf[r] : r \in Relays} |-> 0]

Goes(r, to) == relay' = [relay EXCEPT ![r] = to]

CallRelay(r) ==
    /\ relay[r] = "idle"
    /\ relayQueue' = Append(relayQueue, r)
    /\ Goes(r, "queued")
    /\ UNCHANGED <<asserting, withSession, inflight, made, enc, iteration, outgoing>>

Before(s, r) == \E i, k \in DOMAIN relayQueue : i < k /\ relayQueue[i] = s /\ relayQueue[k] = r

\* Plausible bug: the mutex is keyed by message, which no two relays share.
Turn_PerMessage(r) == relay[r] = "queued"

\* relayMutex, keyed by the chat.
Turn(r) ==
    /\ relay[r] = "queued"
    /\ \A s \in Relays : ChatOf[s] = ChatOf[r] /\ Before(s, r) => relay[s] \in Ended

\* relay1to1Message and relayStatusBroadcast ask for devices; relayGroupMessage
\* encrypts for the group before it knows the participants.
StartRelay(r) ==
    /\ Turn(r)
    /\ Goes(r, "listing")
    /\ iteration' = IF ChatOf[r] \in Groups THEN [iteration EXCEPT ![ChatOf[r]] = @ + 1] ELSE iteration
    /\ UNCHANGED <<relayQueue, asserting, withSession, inflight, made, enc, outgoing>>

\* fetchGroupParticipantJids, getUSyncDevices; a group without devices gets
\* nothing beside its own ciphertext.
Listed(r) ==
    /\ relay[r] = "listing"
    /\ IF ChatOf[r] \in Groups /\ DevicesOf[r] = {}
       THEN Goes(r, "encrypting") /\ UNCHANGED asserting
       ELSE Goes(r, "asserting") /\ asserting' = Append(asserting, r)
    /\ UNCHANGED <<relayQueue, withSession, inflight, made, enc, iteration, outgoing>>

\* A query fails: for the participants, the devices or the bundles.
RelayFails(r) ==
    /\ \/ relay[r] = "listing" /\ UNCHANGED asserting
       \/ relay[r] = "asserting" /\ Head(asserting) = r /\ asserting' = Tail(asserting)
    /\ Goes(r, "failed")
    /\ UNCHANGED <<relayQueue, withSession, inflight, made, enc, iteration, outgoing>>

\* assertSessions, alone: it looks for sessions under names they are not stored
\* by (user:device, not user.device), so it asks for the bundles of all devices.
\* injectE2ESession sets up what it can and hides what it cannot; a device
\* without a bundle throws before it and ends the relay.  The encryptions of all
\* devices then begin together, or join those of equal bytes that are on.
SessionsFetched(r, injected) ==
    /\ relay[r] = "asserting" /\ Head(asserting) = r
    /\ asserting' = Tail(asserting)
    /\ withSession' = withSession \cup injected
    /\ \/ /\ Goes(r, "encrypting")
          /\ inflight' = [e \in Encryptions |->
                IF e[1] \in DevicesOf[r] /\ e[2] = BytesOf[r] THEN inflight[e] \cup {r} ELSE inflight[e]]
       \/ /\ injected # DevicesOf[r]
          /\ Goes(r, "failed")
          /\ UNCHANGED inflight
    /\ UNCHANGED <<relayQueue, made, enc, iteration, outgoing>>

\* finally: the entry goes when the encryption has ended.
Delivered(e) == [inflight EXCEPT ![e] = {}]

\* createParticipantNodes, one device: SessionCipher.encrypt under the mutexes
\* of the device makes one ciphertext for all that wait.
Encrypted1(e) ==
    /\ inflight[e] # {} /\ e[1] \in withSession
    /\ made' = made + 1
    /\ enc' = [r \in Relays |-> [d \in DevicesOf[r] |->
                  IF r \in inflight[e] /\ d = e[1] THEN made + 1 ELSE enc[r][d]]]
    /\ inflight' = Delivered(e)
    /\ UNCHANGED <<relayQueue, relay, asserting, withSession, iteration, outgoing>>

\* Without a session it throws, and with it every relay that waits.
EncryptFails(e) ==
    /\ inflight[e] # {} /\ e[1] \notin withSession
    /\ inflight' = Delivered(e)
    /\ relay' = [r \in Relays |-> IF r \in inflight[e] THEN "failed" ELSE relay[r]]
    /\ UNCHANGED <<relayQueue, asserting, withSession, made, enc, iteration, outgoing>>

\* sendNode, when all devices have their ciphertext; it may fail.
SendStanza(r, outcome) ==
    /\ relay[r] = "encrypting"
    /\ \A d \in DevicesOf[r] : enc[r][d] # NoCipher
    /\ Goes(r, outcome)
    /\ outgoing' = IF outcome = "sent"
                  THEN Append(outgoing, [of |-> r, enc |-> enc[r], iteration |-> iteration[ChatOf[r]]])
                  ELSE outgoing
    /\ UNCHANGED <<relayQueue, asserting, withSession, inflight, made, enc, iteration>>

SendNext ==
    \/ \E r \in Relays :
          \/ CallRelay(r) \/ StartRelay(r) \/ Listed(r) \/ RelayFails(r)
          \/ \E injected \in SUBSET DevicesOf[r] : SessionsFetched(r, injected)
          \/ \E outcome \in Ended : SendStanza(r, outcome)
    \/ \E e \in Encryptions : Encrypted1(e) \/ EncryptFails(e)

SendSpec == SendInit /\ [][SendNext]_sendVars
-----------------------------------------------------------------------------
\* The messages of a chat go out in the order in which they were sent, with
\* group keys in that order and none used twice, whichever of them failed and
\* whatever other chats do meanwhile.
SendsInOrder ==
    \A i, k \in DOMAIN outgoing :
        i < k /\ ChatOf[outgoing[i].of] = ChatOf[outgoing[k].of] =>
            /\ Before(outgoing[i].of, outgoing[k].of)
            /\ ChatOf[outgoing[i].of] \in Groups => outgoing[i].iteration < outgoing[k].iteration

\* A device can read a ciphertext once.  Two outgoing carry the same one only if
\* the same bytes were sent to two chats at a time, say to a chat and as status.
SharedAcrossChatsOnly ==
    \A i, k \in DOMAIN outgoing :
        \A d \in DevicesOf[outgoing[i].of] \cap DevicesOf[outgoing[k].of] :
            i # k /\ outgoing[i].enc[d] = outgoing[k].enc[d] =>
                /\ ChatOf[outgoing[i].of] # ChatOf[outgoing[k].of]
                /\ BytesOf[outgoing[i].of] = BytesOf[outgoing[k].of]

\* Relays that interleave harm neither each other's order nor each other's keys.
RelaysApart == SendsInOrder /\ SharedAcrossChatsOnly
=============================================================================
