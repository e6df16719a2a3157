---------------------------- MODULE MCMessaging ----------------------------
(***************************************************************************)
(* What messages go through, part by part in one instance: sender keys,    *)
(* frames, device lists, relays, handlers of incoming messages, nodes.    *)
(* A behaviour runs one of them, "part", from its initial state, while the *)
(* others stay in theirs.  Relays come in two groups: one chat beside the  *)
(* status, and one chat beside a group.                                    *)
(***************************************************************************)
EXTENDS SenderKeys, NoiseFrames, DeviceLists, SendPath, Receive, Written, MediaDownload,
        MediaUpload, PlaceholderResend, Attachments, MessageKeys

CONSTANTS ua, ub,                 \* two users
          r1, r2, r3, r4, r5,     \* relays
          alice, club, status,    \* their chats
          uc,                     \* a third, in a group only
          da, db                  \* devices

VARIABLE part

vars == <<part, senderVars, noiseVars, listVars, sendVars, receiveVars, codecVars,
          downloadVars, uploadVars, resendVars, attachVars, recordVars, keysVars>>

TwoLists == {{ua}, {ua, ub}}
MCChatOf == [r \in Relays |-> IF r \in {r4, r5} THEN club ELSE IF r = r3 THEN status ELSE alice]
MCBytesOf == [r \in Relays |-> IF r = r4 THEN "key 1" ELSE IF r = r5 THEN "key 2" ELSE "hello"]
MCDevicesOf == [r \in Relays |-> IF r = r5 THEN {} ELSE IF r = r2 THEN {da, db} ELSE {da}]

\* The strings that a node is made of, at the bounds of every way to write one.
Repeat(c, n) == [i \in 1 .. n |-> c]
Word == Text(<<"x", "x">>)
Raw == Text(<<"a", "5", "x">>)
MCSingles == {Word}
MCDoubles == {Text(<<"5", "5">>)}
Proto == Text(<<"x", "A">>)
MCInherited == {Proto}
Strings ==
    {Empty, Word, Text(<<"5", "5">>), Raw, Text(<<"5", "-", "5">>), Text(<<"-", "5", "5", "5">>),
     Text(<<"A", "5", "A">>), Text(<<"A", "A">>), Text(<<"A", "-">>), Proto}
    \cup {Text(Repeat("5", n)) : n \in 5 .. 6} \cup {Text(Repeat("x", n)) : n \in {4, 7, 8, 9}}
    \cup {Jid(<<"5", "5", "5">>, NoDevice, "g.us"), Jid(<<>>, NoDevice, "s.whatsapp.net"), Jid(<<>>, 1, "lid")}
    \cup {Jid(<<"5">>, d, "lid") : d \in {0, 1, 3, 4}} \cup {Jid(Proto.chars, NoDevice, "g.us")}
    \cup {Jid(Raw.chars, 2, s) : s \in {"s.whatsapp.net", "hosted"}}

Node(tag, attrs, content) == [tag |-> tag, attrs |-> attrs, content |-> content]
Leaf == Node(Word, <<>>, NoContent)
Some == {Leaf, Node(Raw, <<<<Word, Raw>>>>, BytesContent(<<"x">>)), Node(Word, <<<<Word, Empty>>>>, NoContent)}
Lists2 == UNION {[1 .. n -> Some] : n \in 0 .. 2} \cup {Repeat(Leaf, n) : n \in {3, 4, 5, 15, 16}}
MCLevels ==
    <<{Node(Word, <<<<k, v>>>>, c) : k \in {Word, Raw}, v \in Strings \cup {Number}, c \in {NoContent, BytesContent(<<"x">>)}}
      \cup {Node(Word, <<<<Word, v>>, <<Raw, w>>>>, NoContent) : v, w \in Strings \cup {Number}}
      \cup {Node(t, a, StringContent(s)) : t \in {Word, Raw, Empty}, a \in {<<>>, <<<<Word, Raw>>>>}, s \in Strings}
      \cup {Node(Raw, <<>>, BytesContent(Repeat("x", n))) : n \in 0 .. 9}
      \cup {Node(Word, Repeat(<<Word, Raw>>, n), c) : n \in 6 .. 8, c \in {NoContent, BytesContent(<<"x">>)}}
      \cup Some,
      {Node(Word, <<>>, Children(l)) : l \in Lists2}
      \cup {Node(Word, <<<<Word, v>>>>, Children(l)) : v \in {Empty, Jid(<<>>, 1, "lid")}, l \in {<<>>, <<Leaf>>}},
      {Node(Raw, <<>>, Children(<<Leaf, Node(Word, <<>>, Children(l))>>)) : l \in Lists2}>>

\* Phones and companions.
MCMyDevices == {<<ua, 0>>, <<ua, 2>>, <<ub, 0>>, <<ub, 3>>, <<uc, 0>>}

\* Sessions before and after the first answer, with open and closed chains.
Buffers(fields) == [f \in fields |-> BufferOf(f)]
AChain(key, counters) == [key |-> key, counter |-> 1, type |-> "sending", messageKeys |-> [n \in counters |-> BufferOf("message key")]]
MCEntries ==
    {[registrationId |-> id,
      keys |-> Buffers({"rootKey", "ephemeral", "lastRemoteEphemeralKey", "baseKey", "remoteIdentityKey"}),
      numbers |-> [previousCounter |-> 0, closed |-> closed],
      chains |-> chains,
      pendingPreKey |-> preKey] :
        id \in {Undefined, Num("an id")}, closed \in {-1, 5},
        chains \in UNION {[C -> {AChain(k, n) : k \in {Undefined, BufferOf("chain key")}, n \in {{}, {0, 2}}}] :
                            C \in SUBSET {"ours", "theirs"}},
        preKey \in {Undefined, [signedKeyId |-> 1, preKeyId |-> 2, baseKey |-> BufferOf("baseKey")]}}

Init ==
    /\ part \in {"keys", "frames", "lists", "status", "club", "receive", "nodes",
                 "download", "upload", "resend", "attach", "records", "naming"}
    /\ SenderInit /\ NoiseInit /\ ListsInit /\ SendInit /\ ReceiveInit /\ CodecInit /\ DownloadInit
    /\ UploadInit /\ ResendInit /\ AttachInit /\ RecordInit /\ KeysInit
    /\ part # "receive" => buffering
    /\ part # "naming" => chat = [form |-> "pn", group |-> FALSE, knowsLid |-> TRUE]

Runs(p, Action, its) == IF part = p THEN Action ELSE UNCHANGED its

SomeSends ==
    /\ SendNext
    /\ \A r \in IF part = "status" THEN {r4, r5} ELSE {r2, r3} : relay'[r] = "idle"

\* The authors are alike, so the first stanza is of one of them; of those that
\* meet nobody, one comes.
SomeStanzas ==
    /\ ReceiveNext
    /\ stanzas' # <<>> => stanzas'[1].author = ua
    /\ Cardinality({n \in DOMAIN stanzas' : stanzas'[n].kind \in {"share", "broken"}}) <= 1

\* One node per behaviour.
OneNode == (sent = Number \/ wire # <<>>) /\ CodecNext

Next ==
    /\ UNCHANGED part
    /\ Runs("keys", SenderNext, senderVars)
    /\ Runs("frames", NoiseNext, noiseVars)
    /\ Runs("lists", ListsNext, listVars)
    /\ IF part \in {"status", "club"} THEN SomeSends ELSE UNCHANGED sendVars
    /\ Runs("receive", SomeStanzas, receiveVars)
    /\ Runs("nodes", OneNode, codecVars)
    /\ Runs("download", DownloadNext, downloadVars)
    /\ Runs("upload", UploadNext, uploadVars)
    /\ Runs("resend", ResendNext, resendVars)
    /\ Runs("attach", AttachNext, attachVars)
    /\ Runs("records", RecordNext, recordVars)
    /\ Runs("naming", KeysNext, keysVars)

Spec == Init /\ [][Next]_vars
=============================================================================
