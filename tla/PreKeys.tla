------------------------------ MODULE PreKeys -------------------------------
(***************************************************************************)
(* The pre-keys on the server and those on the device.  There are two ways *)
(* to upload a batch of one-time keys: uploadPreKeys of lib/socket.js asks *)
(* the server first and stores the private keys with its answer; the       *)
(* exported uploadPreKeysToServerIfRequired of lib/messages-send.js stores *)
(* first.  Both take the ids from creds.nextPreKeyId when they begin and   *)
(* move it when they are done, both send the signed pre-key of creds along,*)
(* and both begin whenever the login, a notification or the application    *)
(* asks for it.  creds.firstUnuploadedPreKeyId always equals               *)
(* creds.nextPreKeyId and is left out.                                     *)
(*                                                                         *)
(* rotateSignedPreKey of lib/socket.js takes the id after the one in creds,*)
(* generates a pair, sends it, and puts it into creds with the answer;     *)
(* nothing keeps a second one, or an upload, from beginning meanwhile.     *)
(*                                                                         *)
(* A one-time pair is named by its id and the upload that generated it, a  *)
(* signed one by its rotation.  The connection keeps the order of requests *)
(* and of answers; a query may fail before or after the server took it.    *)
(***************************************************************************)
EXTENDS Integers, Sequences

CONSTANTS Uploads,   \* uploads, in any order and of either way
          MaxId,     \* bound: the largest pre-key id
          Batch,     \* keys of an upload (30 at login, 5 after a notification)
          NoKey,
          MaxRotations  \* bound: rotations of the signed pre-key

ASSUME PreKeysAssumption ==
    MaxId \in Nat /\ Batch \in Nat \ {0} /\ NoKey \notin Uploads /\ MaxRotations \in Nat

VARIABLES
    nextPreKeyId,  \* of creds
    device,        \* the upload whose private key is stored under an id
    server,        \* the upload whose public key the server has for an id
    upload,        \* [pc, way, from] of each upload
    handedOut,     \* keys the server gave to a sender whose message is to come
    overlapped,    \* history: uploads during which another was under way
    signedPreKey,  \* creds.signedPreKey: [id, pair]; the first is pair 0
    rotations,     \* of each rotation its id, where it is and when it was sent
    serverSigned,  \* the [id, pair] that the server has
    bundles,       \* the ones it gave to senders whose messages are to come
    requests,      \* requests sent so far, of either kind
    sent,          \* of each upload when it was sent, with which signed key
    beside         \* history: uploads sent while a rotation was under way

oneTime == <<nextPreKeyId, device, server, handedOut, overlapped>>
signed == <<signedPreKey, rotations, serverSigned, bundles>>
sending == <<requests, sent, beside>>
preKeyVars == <<oneTime, upload, signed, sending>>

Ids == 1..MaxId
BatchOf(u) == upload[u].from .. upload[u].from + Batch - 1
Overwritten(keys, u) == [i \in Ids |-> IF i \in BatchOf(u) THEN u ELSE keys[i]]
UnderWay(u) == upload[u].pc \notin {"new", "done", "lost"}
Moves(u, pc) == upload' = [upload EXCEPT ![u].pc = pc]
RotationMoves(r, pc) == rotations' = [rotations EXCEPT ![r].pc = pc]

PreKeysInit ==
    /\ nextPreKeyId = 1
    /\ device = [i \in Ids |-> NoKey] /\ server = device
    /\ upload = [u \in Uploads |-> [pc |-> "new", way |-> "none", from |-> 0]]
    /\ handedOut = {} /\ overlapped = {}
    /\ signedPreKey = [id |-> 1, pair |-> 0] /\ serverSigned = signedPreKey
    /\ rotations = <<>> /\ bundles = {}
    /\ requests = 0 /\ sent = [u \in Uploads |-> [at |-> 0, skey |-> signedPreKey]] /\ beside = {}

\* A request goes out with the creds as they are then.
Sends(u) ==
    /\ requests' = requests + 1
    /\ sent' = [sent EXCEPT ![u] = [at |-> requests + 1, skey |-> signedPreKey]]
    /\ beside' = IF \E r \in DOMAIN rotations : rotations[r].pc \in {"asked", "taken"}
                 THEN beside \cup {u} ELSE beside

\* No request sent before is in one of these states.
NextInLine(at, states) ==
    /\ \A u \in Uploads : sent[u].at < at => upload[u].pc \notin states
    /\ \A r \in DOMAIN rotations : rotations[r].at < at => rotations[r].pc \notin states

-----------------------------------------------------------------------------
Begin(u, way) ==
    /\ upload[u].pc = "new"
    /\ nextPreKeyId + Batch - 1 <= MaxId
    /\ upload' = [upload EXCEPT ![u] = [pc |-> IF way = "first" THEN "storing" ELSE "asked",
                                        way |-> way, from |-> nextPreKeyId]]
    /\ IF way = "first" THEN UNCHANGED sending ELSE Sends(u)
    /\ LET others == {v \in Uploads : UnderWay(v)}
       IN  overlapped' = IF others = {} THEN overlapped ELSE overlapped \cup others \cup {u}
    /\ UNCHANGED <<nextPreKeyId, device, server, handedOut, signed>>

BeginAfter(u) == Begin(u, "after")   \* socket.js
BeginFirst(u) == Begin(u, "first")   \* messages-send.js

\* getNextPreKeys stored the new pairs; the query goes out
StoredFirst(u) ==
    /\ upload[u].pc = "storing"
    /\ Moves(u, "asked") /\ Sends(u)
    /\ device' = Overwritten(device, u)
    /\ UNCHANGED <<nextPreKeyId, server, handedOut, overlapped, signed>>

\* the server adds the batch, and the skey replaces its signed pre-key
ServerTakes(u) ==
    /\ upload[u].pc = "asked" /\ NextInLine(sent[u].at, {"asked"})
    /\ Moves(u, "taken")
    /\ server' = Overwritten(server, u) /\ serverSigned' = sent[u].skey
    /\ UNCHANGED <<nextPreKeyId, device, handedOut, overlapped, signedPreKey, rotations, bundles, sending>>

Answered(u) ==
    /\ upload[u].pc = "taken" /\ NextInLine(sent[u].at, {"asked", "taken"})
    /\ Moves(u, IF upload[u].way = "first" THEN "stored" ELSE "answered")
    /\ UNCHANGED <<oneTime, signed, sending>>

\* refused, timed out or cut off, before or after the server took the batch; to
\* be given up and taken later is as to be taken and then given up
QueryFails(u) ==
    /\ upload[u].pc \in {"asked", "taken"}
    /\ Moves(u, "lost")
    /\ UNCHANGED <<oneTime, signed, sending>>

StoredAfter(u) ==
    /\ upload[u].pc = "answered"
    /\ Moves(u, "stored")
    /\ device' = Overwritten(device, u)
    /\ UNCHANGED <<nextPreKeyId, server, handedOut, overlapped, signed, sending>>

\* socket.js adds to the id as it is now, messages-send.js sets it from the
\* one it began with
IdAfter_Captured(u) == upload[u].from   \* mutant: the id does not move past the batch

IdAfter(u) ==
    IF upload[u].way = "first" THEN upload[u].from + Batch ELSE nextPreKeyId + Batch

Done(u) ==
    /\ upload[u].pc = "stored"
    /\ Moves(u, "done")
    /\ nextPreKeyId' = IdAfter(u)
    /\ UNCHANGED <<device, server, handedOut, overlapped, signed, sending>>

\* the server gives a key to somebody who wants to write, once
HandOut(i) ==
    /\ server[i] # NoKey
    /\ server' = [server EXCEPT ![i] = NoKey]
    /\ handedOut' = handedOut \cup {<<i, server[i]>>}
    /\ UNCHANGED <<nextPreKeyId, device, upload, overlapped, signed, sending>>

\* a first message made with the key is read: removePreKey
ReadWith(k) ==
    /\ k \in handedOut /\ device[k[1]] = k[2]
    /\ device' = [device EXCEPT ![k[1]] = NoKey]
    /\ handedOut' = handedOut \ {k}
    /\ UNCHANGED <<nextPreKeyId, server, upload, overlapped, signed, sending>>

-----------------------------------------------------------------------------
Rotate ==
    /\ Len(rotations) < MaxRotations
    /\ rotations' = Append(rotations, [id |-> signedPreKey.id + 1, pc |-> "asked", at |-> requests + 1])
    /\ requests' = requests + 1
    /\ UNCHANGED <<oneTime, upload, signedPreKey, serverSigned, bundles, sent, beside>>

ServerRotates(r) ==
    /\ rotations[r].pc = "asked" /\ NextInLine(rotations[r].at, {"asked"})
    /\ RotationMoves(r, "taken")
    /\ serverSigned' = [id |-> rotations[r].id, pair |-> r]
    /\ UNCHANGED <<oneTime, upload, signedPreKey, bundles, sending>>

\* refused or cut off, before or after the server took the key
RotationFails(r) ==
    /\ rotations[r].pc \in {"asked", "taken"}
    /\ RotationMoves(r, "lost")
    /\ UNCHANGED <<oneTime, upload, signedPreKey, serverSigned, bundles, sending>>

\* creds.update, whose listener assigns it to creds; the pair before is gone, and
\* nothing ever stores one under signed-pre-key
Rotated(r) ==
    /\ rotations[r].pc = "taken" /\ NextInLine(rotations[r].at, {"asked", "taken"})
    /\ RotationMoves(r, "done")
    /\ signedPreKey' = [id |-> rotations[r].id, pair |-> r]
    /\ UNCHANGED <<oneTime, upload, serverSigned, bundles, sending>>

HandOutSigned ==
    /\ bundles' = bundles \cup {serverSigned}
    /\ UNCHANGED <<oneTime, upload, signedPreKey, rotations, serverSigned, sending>>

\* loadSignedPreKey looks at the id: a first message made with another pair of
\* that id cannot be read, nor one made with a pair before
LoadSignedPreKey(b) ==
    /\ b \in bundles
    /\ b.id = signedPreKey.id /\ b.pair = signedPreKey.pair
    /\ bundles' = bundles \ {b}
    /\ UNCHANGED <<oneTime, upload, signedPreKey, rotations, serverSigned, sending>>

PreKeysNext ==
    \/ \E u \in Uploads : \/ BeginAfter(u) \/ BeginFirst(u) \/ StoredFirst(u) \/ ServerTakes(u)
                          \/ Answered(u) \/ QueryFails(u) \/ StoredAfter(u) \/ Done(u)
    \/ \E i \in Ids : HandOut(i)
    \/ \E k \in handedOut : ReadWith(k)
    \/ Rotate
    \/ \E r \in DOMAIN rotations : ServerRotates(r) \/ RotationFails(r) \/ Rotated(r)
    \/ HandOutSigned
    \/ \E b \in bundles : LoadSignedPreKey(b)

PreKeysSpec == PreKeysInit /\ [][PreKeysNext]_preKeyVars

-----------------------------------------------------------------------------
(***************************************************************************)
(* A key that the server has, or gave away, has its private half on the    *)
(* device, so that the message made with it can be read: unless the upload *)
(* it came with is still under way, failed after the server took it, or    *)
(* overlapped with another, which uses the same ids for other keys.        *)
(***************************************************************************)
ServerKeysKnown ==
    LET public == handedOut \cup {<<i, server[i]>> : i \in {j \in Ids : server[j] # NoKey}}
    IN  \A k \in public :
            (upload[k[2]].pc = "done" /\ k[2] \notin overlapped) => device[k[1]] = k[2]

(***************************************************************************)
(* However uploads and rotations overlap, the signed key that the server   *)
(* hands out is the one whose private half the device has: unless its      *)
(* rotation is under way or its answer was lost, or it is the skey of an   *)
(* upload that was sent while a rotation was under way, which carries the  *)
(* pair from before it and may reach the server after it.                  *)
(***************************************************************************)
SignedKeyKnown ==
    \/ serverSigned = signedPreKey
    \/ serverSigned.pair # 0 /\ rotations[serverSigned.pair].pc \in {"taken", "lost"}
    \/ \E u \in beside : upload[u].pc # "asked" /\ sent[u].skey = serverSigned

\* The keys that the server hands out, one-time and signed, are keys the device
\* has, with the exceptions above.  (What was handed out before a rotation is lost
\* with it.)
PublicKeysKnown == ServerKeysKnown /\ SignedKeyKnown
=============================================================================
