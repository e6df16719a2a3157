---------------------------- MODULE MessageKeys ----------------------------
(***************************************************************************)
(* How a message is named: each device makes a key of it, from the stanza  *)
(* that brought it (decodeMessageNode and cleanMessage of                  *)
(* lib/messages-recv.js) or as its sender (lib/messages.js), and a         *)
(* reaction or a vote carries the key as its own sender sees the message,  *)
(* which cleanMessage turns into how the reader sees it.                   *)
(*                                                                         *)
(* A user has a number and a LID, and a chat is carried on in one of the   *)
(* two.  One message is sent, read by some devices, and referred to by one *)
(* that has it.                                                            *)
(***************************************************************************)
EXTENDS Naturals

CONSTANTS People,       \* users; of a chat between two, the first two
          PairOf,       \* those two
          MyDevices     \* the devices, as <<user, number>>

ASSUME KeysAssumption ==
    /\ \E p, q \in People : p # q /\ PairOf = {p, q}
    /\ MyDevices \subseteq People \X Nat /\ "none" \notin People

VARIABLES chat,      \* its form ("pn" or "lid"), whether it is a group, and whether devices know their LID
          message,   \* the device that sent it
          views,     \* the key each device has of it
          reference, \* the device that refers to it, and the key it puts into that
          read       \* the keys in the references that were read

keysVars == <<chat, message, views, reference, read>>

NoJid == [user |-> <<"none", "none">>, device |-> 0]
NoKey == [remoteJid |-> NoJid, fromMe |-> FALSE, participant |-> NoJid]
NoSender == <<"none", 0>>

JidOf(d, form) == [user |-> <<d[1], form>>, device |-> d[2]]
Group == [user |-> <<"group", "group">>, device |-> 0]
Normalized(jid) == [jid EXCEPT !.device = 0]
SameUser(a, b) == a # NoJid /\ b # NoJid /\ a.user = b.user
Either(a, b) == IF a # NoJid THEN a ELSE b

\* creds.me.id, and creds.me.lid if it is known
MeId(d) == JidOf(d, "pn")
MeLid(d) == IF chat.knowsLid THEN JidOf(d, "lid") ELSE NoJid
IsMe(jid, d) == SameUser(jid, MeId(d)) \/ SameUser(jid, MeLid(d))

Other(p) == CHOOSE q \in PairOf : q # p
Members == {d \in MyDevices : chat.group \/ d[1] \in PairOf}

KeysInit ==
    /\ chat \in [form : {"pn", "lid"}, group : BOOLEAN, knowsLid : BOOLEAN]
    /\ message = NoSender /\ views = [d \in MyDevices |-> NoKey]
    /\ reference = [by |-> NoSender, key |-> NoKey] /\ read = [d \in MyDevices |-> NoKey]
-----------------------------------------------------------------------------
\* The stanza by which the server brings what one device sends to another: to the
\* sender's other devices with the recipient.
StanzaTo(e, d) ==
    IF chat.group THEN [from |-> Group, participant |-> JidOf(d, chat.form), recipient |-> NoJid]
    ELSE [from |-> JidOf(d, chat.form), participant |-> NoJid,
          recipient |-> IF e[1] = d[1] THEN JidOf(<<Other(d[1]), 0>>, chat.form) ELSE NoJid]

\* The branches for chats and for groups.
DecodeMessageNode(stanza, e) ==
    IF stanza.from = Group
    THEN [remoteJid |-> stanza.from, fromMe |-> IsMe(stanza.participant, e), participant |-> stanza.participant]
    ELSE [remoteJid |-> Either(stanza.recipient, stanza.from),
          fromMe |-> stanza.recipient # NoJid /\ IsMe(stanza.from, e), participant |-> NoJid]

CleanMessage(key) ==
    [key EXCEPT !.remoteJid = Normalized(@), !.participant = Normalized(@)]

\* Plausible bug: only the number is compared.
NormaliseKey_ByNumber(msgKey, key, e) ==
    IF key.fromMe THEN msgKey
    ELSE [remoteJid |-> key.remoteJid,
          fromMe |-> ~msgKey.fromMe /\ SameUser(Either(msgKey.participant, msgKey.remoteJid), MeId(e)),
          participant |-> Either(msgKey.participant, key.participant)]

\* From the point of view of who refers to the message to that of the reader; what
\* comes from another device of the reader has the same.
NormaliseKey(msgKey, key, e) ==
    IF key.fromMe THEN msgKey
    ELSE [remoteJid |-> key.remoteJid,
          fromMe |-> ~msgKey.fromMe /\ IsMe(Either(msgKey.participant, msgKey.remoteJid), e),
          participant |-> Either(msgKey.participant, key.participant)]

GetKeyAuthor(key, d) == IF key.fromMe THEN Normalized(MeId(d)) ELSE Either(key.participant, key.remoteJid)

KeyFrom(d, e) == CleanMessage(DecodeMessageNode(StanzaTo(e, d), e))
-----------------------------------------------------------------------------
\* generateWAMessageFromContent: the key of what this device sends.
SentKey(d) ==
    [remoteJid |-> IF chat.group THEN Group ELSE JidOf(<<Other(d[1]), 0>>, chat.form),
     fromMe |-> TRUE,
     participant |-> IF chat.group THEN MeId(d) ELSE NoJid]

SendsMessage(d) ==
    /\ message = NoSender /\ d \in Members
    /\ message' = d
    /\ views' = [views EXCEPT ![d] = SentKey(d)]
    /\ UNCHANGED <<chat, reference, read>>

GetsMessage(e) ==
    /\ message # NoSender /\ e \in Members /\ views[e] = NoKey
    /\ views' = [views EXCEPT ![e] = KeyFrom(message, e)]
    /\ UNCHANGED <<chat, message, reference, read>>

\* A reaction or a vote.
Refers(d) ==
    /\ reference.by = NoSender /\ views[d] # NoKey
    /\ reference' = [by |-> d, key |-> views[d]]
    /\ UNCHANGED <<chat, message, views, read>>

ReadsReference(e) ==
    /\ reference.by \notin {NoSender, e} /\ e \in Members /\ read[e] = NoKey
    /\ read' = [read EXCEPT ![e] = NormaliseKey(reference.key, KeyFrom(reference.by, e), e)]
    /\ UNCHANGED <<chat, message, views, reference>>

KeysNext == \E d \in MyDevices : SendsMessage(d) \/ GetsMessage(d) \/ Refers(d) \/ ReadsReference(d)

KeysSpec == KeysInit /\ [][KeysNext]_keysVars
-----------------------------------------------------------------------------
\* All devices mean the same message: what a reaction or a vote refers to is, for
\* its reader, the message that he has himself, in the same chat, his own or of the
\* same author.  A device that knows no LID of its own fails at this where LIDs are
\* used.  And the key that the sending device itself has of a message in a group
\* names it by number and with its device: there the author is only the same user,
\* in a chat by LIDs not even that.
KeysMatch ==
    \A e \in MyDevices :
        /\ read[e] # NoKey
        /\ views[e] # NoKey
        /\ chat.form = "pn" \/ chat.knowsLid
        => /\ read[e].remoteJid = views[e].remoteJid
           /\ read[e].fromMe <=> views[e].fromMe
           /\ message # reference.by => GetKeyAuthor(read[e], e) = GetKeyAuthor(views[e], e)
           /\ chat.form = "pn" => SameUser(GetKeyAuthor(read[e], e), JidOf(message, "pn"))
=============================================================================
