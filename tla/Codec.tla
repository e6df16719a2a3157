------------------------------- MODULE Codec -------------------------------
(***************************************************************************)
(* Binary nodes: what lib/binary-node.js writes for a node and what it     *)
(* reads back.  The stream is a sequence of symbols, each of which the     *)
(* reader takes as a whole, whether it is where a string, a list or bytes  *)
(* are expected: a tag byte with the numbers that follow it, a packed      *)
(* string, or a length with its bytes.  A string that writes no symbol at  *)
(* all makes the reader take the next one in its place.                    *)
(***************************************************************************)
EXTENDS Integers, Sequences, FiniteSets

CONSTANTS SingleTokens, DoubleTokens, \* the two dictionaries
          Inherited,  \* the names every object has, as TOKEN_MAP: constructor, toString, ...
          Byte,       \* 256: what a byte can hold
          Wide,       \* 2^20: what BINARY_20 can hold
          PackedMax,  \* 127: the longest string that is packed
          Levels      \* the nodes that are sent: the children of a level are of lower ones

VARIABLES sent, wire, got

codecVars == <<sent, wire, got>>

Nodes == UNION {Levels[d] : d \in DOMAIN Levels}

\* A string is a text, or a JID with a text as its user.
NoDevice == -1
NoServer == ""
Text(chars) == [chars |-> chars, device |-> NoDevice, server |-> NoServer]
Jid(user, device, server) == [chars |-> user, device |-> device, server |-> server]
Empty == Text(<<>>)
IsJid(s) == s.server # NoServer

TextSet == [chars : Seq(STRING), device : {NoDevice}, server : {NoServer}]
StringSet == TextSet \cup [chars : Seq(STRING), device : Nat \cup {NoDevice}, server : STRING \ {NoServer}]

\* The characters of the packed alphabets; "a" stands for the small letters,
\* which packHex would take and isHex does not.
Nibbles == {"5", "-"}
Hexes == {"5", "A"}
Zero == "0"

SingleToken(s) == s \in SingleTokens
DoubleToken(s) == s \in DoubleTokens

Chars(s) == {s.chars[i] : i \in DOMAIN s.chars}
Packs(s, alphabet) == ~IsJid(s) /\ s # Empty /\ Len(s.chars) <= PackedMax /\ Chars(s) \subseteq alphabet

\* A symbol: tag, numbers a and b, and the characters or bytes of a text.
Symbol(tag, a, b, chars) == [tag |-> tag, a |-> a, b |-> b, chars |-> chars]
Tag(tag) == <<Symbol(tag, 0, 0, <<>>)>>

\* writePackedBytes: pairs, the last filled up with the character 15 of the
\* alphabet, and a bit in the count that says so.
Packed(tag, s) ==
    LET odd == Len(s.chars) % 2
    IN <<Symbol(tag, (Len(s.chars) + odd) \div 2, odd, IF odd = 1 THEN Append(s.chars, Zero) ELSE s.chars)>>

\* Plausible bug: a length that fills its byte is still written in it.
WriteBytes_OffByOne(bytes) ==
    LET n == Len(bytes)
    IN IF n >= Wide THEN <<Symbol("BINARY_32", n, 0, bytes)>>
       ELSE IF n > Byte THEN <<Symbol("BINARY_20", n % Wide, 0, bytes)>>
       ELSE <<Symbol("BINARY_8", n % Byte, 0, bytes)>>

\* writeByteLength, and the bytes.
WriteBytes(bytes) ==
    LET n == Len(bytes)
    IN IF n >= Wide THEN <<Symbol("BINARY_32", n, 0, bytes)>>
       ELSE IF n >= Byte THEN <<Symbol("BINARY_20", n % Wide, 0, bytes)>>
       ELSE <<Symbol("BINARY_8", n % Byte, 0, bytes)>>

\* writeString of a text: nothing at all for the empty one, and a zero for what
\* TOKEN_MAP has from its prototype.
WriteText(s) ==
    IF SingleToken(s) THEN <<Symbol("token", 0, 0, s.chars)>>
    ELSE IF DoubleToken(s) THEN <<Symbol("dictionary", 0, 0, s.chars)>>
    ELSE IF s \in Inherited THEN Tag("LIST_EMPTY")
    ELSE IF Packs(s, Nibbles) THEN Packed("NIBBLE_8", s)
    ELSE IF Packs(s, Hexes) THEN Packed("HEX_8", s)
    ELSE IF s = Empty THEN <<>>
    ELSE WriteBytes(s.chars)

\* jidDecode knows the domain of one server only, and only with a device.
DomainType(s) == IF s.server = "lid" THEN 1 ELSE 0

\* writeJid; the servers are tokens.
WriteString(s) ==
    LET user == Text(s.chars)
    IN IF ~IsJid(s) THEN WriteText(s)
       ELSE IF s.device # NoDevice
       THEN <<Symbol("AD_JID", DomainType(s) % Byte, s.device % Byte, <<>>)>> \o WriteText(user)
       ELSE Tag("JID_PAIR") \o (IF user = Empty THEN Tag("LIST_EMPTY") ELSE WriteText(user))
                            \o <<Symbol("server", 0, 0, s.server)>>

WriteListStart(size) ==
    IF size = 0 THEN Tag("LIST_EMPTY")
    ELSE IF size < Byte THEN <<Symbol("LIST_8", size, 0, <<>>)>>
    ELSE <<Symbol("LIST_16", size % (Byte * Byte), 0, <<>>)>>

\* All of the sequences, one after the other.
Concat(seqs) ==
    LET first[n \in 0 .. Len(seqs)] == IF n = 0 THEN <<>> ELSE first[n - 1] \o seqs[n]
    IN first[Len(seqs)]

\* An attribute is a pair of strings; a value that is no string is written Number.
Number == Symbol("number", 0, 0, <<>>)
WriteAttr(attr) == IF attr[2] = Number THEN <<>> ELSE WriteString(attr[1]) \o WriteString(attr[2])
AttrSet == StringSet \X (StringSet \cup {Number})

\* What content is: none, a string, bytes, or nodes.
NoContent == [kind |-> "none"]
StringContent(s) == [kind |-> "string", string |-> s]
BytesContent(b) == [kind |-> "bytes", bytes |-> b]
Children(nodes) == [kind |-> "nodes", nodes |-> nodes]
Kids(node) == IF node.content.kind = "nodes" THEN node.content.nodes ELSE <<>>

WriteContent(node, kids) ==
    CASE node.content.kind = "none"   -> <<>>
      [] node.content.kind = "string" -> WriteString(node.content.string)
      [] node.content.kind = "bytes"  -> WriteBytes(node.content.bytes)
      [] node.content.kind = "nodes"  -> WriteListStart(Len(kids)) \o Concat(kids)

\* Attributes that are no strings are counted.
ListSize(node) == 2 * Len(node.attrs) + 1 + (IF node.content = NoContent THEN 0 ELSE 1)

\* encodeBinaryNodeInner, with what it writes for the children.
EncodeWith(node, kids) ==
    WriteListStart(ListSize(node))
    \o WriteString(node.tag)
    \o Concat([i \in DOMAIN node.attrs |-> WriteAttr(node.attrs[i])])
    \o WriteContent(node, kids)

Encode[node \in Nodes] == EncodeWith(node, [i \in DOMAIN Kids(node) |-> Encode[Kids(node)[i]]])
-----------------------------------------------------------------------------
\* What a read gives: a value and the place after it, or an error.
Failed == [ok |-> FALSE]
Read(value, next) == [ok |-> TRUE, value |-> value, next |-> next]

ListTags == {"LIST_EMPTY", "LIST_8", "LIST_16"}
Binaries == {"BINARY_8", "BINARY_20", "BINARY_32"}
ServerOf(domainType) == IF domainType = 1 THEN "lid" ELSE "s.whatsapp.net"

\* readString of anything but a JID, at place i of stream s.
ReadText(s, i) ==
    IF i > Len(s) THEN Failed
    ELSE CASE s[i].tag \in {"token", "dictionary"} -> Read(Text(s[i].chars), i + 1)
           [] s[i].tag = "LIST_EMPTY"              -> Read(Empty, i + 1)
           [] s[i].tag \in Binaries                -> Read(Text(SubSeq(s[i].chars, 1, s[i].a)), i + 1)
           [] s[i].tag \in {"NIBBLE_8", "HEX_8"}   -> Read(Text(SubSeq(s[i].chars, 1, 2 * s[i].a - s[i].b)), i + 1)
           [] OTHER                                -> Failed

ReadAdJid(s, i) ==
    LET user == ReadText(s, i + 1)
    IN IF user.ok
       THEN Read(Jid(user.value.chars, IF s[i].b > 0 THEN s[i].b ELSE NoDevice, ServerOf(s[i].a)), user.next)
       ELSE Failed

ReadJidPair(s, i) ==
    LET user == ReadText(s, i + 1)
    IN IF user.ok /\ user.next <= Len(s) /\ s[user.next].tag = "server"
       THEN Read(Jid(user.value.chars, NoDevice, s[user.next].chars), user.next + 1)
       ELSE Failed

ReadString(s, i) ==
    IF i > Len(s) THEN Failed
    ELSE IF s[i].tag = "AD_JID" THEN ReadAdJid(s, i)
    ELSE IF s[i].tag = "JID_PAIR" THEN ReadJidPair(s, i)
    ELSE ReadText(s, i)

ReadListSize(s, i) ==
    IF i > Len(s) \/ s[i].tag \notin ListTags THEN Failed ELSE Read(s[i].a, i + 1)

\* A key and its value, after the attributes read before.
PairAfter(before, key, value) ==
    IF before.ok /\ key.ok /\ value.ok
    THEN Read(Append(before.value, <<key.value, value.value>>), value.next)
    ELSE Failed

ReadAttr(s, before) ==
    LET key == ReadString(s, before.next)
        value == ReadString(s, key.next)
    IN PairAfter(before, key, value)

ReadAttrs(s, i, n) ==
    LET attrs[k \in 0 .. n] == IF k = 0 THEN Read(<<>>, i) ELSE ReadAttr(s, attrs[k - 1])
    IN attrs[n]

\* The end of decodeDecompressedBinaryNode: a list, bytes as they are, or a string.
\* lists[<<i, n>>] are the n nodes that are read from place i.
ReadContent(s, i, lists) ==
    IF i > Len(s) THEN Failed
    ELSE IF s[i].tag \in ListTags
    THEN LET list == lists[<<i + 1, s[i].a>>]
         IN IF list.ok THEN Read(Children(list.value), list.next) ELSE Failed
    ELSE IF s[i].tag \in Binaries THEN Read(BytesContent(SubSeq(s[i].chars, 1, s[i].a)), i + 1)
    ELSE LET string == ReadString(s, i)
         IN IF string.ok THEN Read(StringContent(string.value), string.next) ELSE Failed

\* The node, unless a part could not be read or there is none.
NodeOf(size, tag, attrs, content) ==
    IF size.ok /\ tag.ok /\ size.value # 0 /\ tag.value # Empty /\ attrs.ok /\ content.ok
    THEN Read([tag |-> tag.value, attrs |-> attrs.value, content |-> content.value], content.next)
    ELSE Failed

ReadNode(s, i, lists) ==
    LET size == ReadListSize(s, i)
        tag == ReadString(s, size.next)
        attrs == ReadAttrs(s, tag.next, (size.value - 1) \div 2)
        content == IF size.value % 2 = 0 THEN ReadContent(s, attrs.next, lists) ELSE Read(NoContent, attrs.next)
    IN NodeOf(size, tag, attrs, content)

\* A node and those that follow it, as one list.
InFront(node, others) ==
    IF node.ok /\ others.ok THEN Read(<<node.value>> \o others.value, others.next) ELSE Failed

ReadList(s, i, n, lists) ==
    IF n = 0 THEN Read(<<>>, i)
    ELSE LET node == ReadNode(s, i, lists)
             others == lists[<<node.next, n - 1>>]
         IN InFront(node, others)

Decode(s) ==
    LET lists[p \in (1 .. Len(s) + 1) \X Nat] == ReadList(s, p[1], p[2], lists)
    IN ReadNode(s, 1, lists)
-----------------------------------------------------------------------------
CodecInit == sent = Number /\ wire = <<>> /\ got = Failed

\* encodeBinaryNode throws for a node without a tag.
EncodeNode(node) ==
    /\ wire = <<>> /\ node.tag # Empty
    /\ sent' = node
    /\ wire' = Encode[node]
    /\ got' = Failed

DecodeNode ==
    /\ wire # <<>>
    /\ got' = Decode(wire)
    /\ wire' = <<>>
    /\ UNCHANGED sent

CodecNext == (\E node \in Nodes : EncodeNode(node)) \/ DecodeNode

CodecSpec == CodecInit /\ [][CodecNext]_codecVars
-----------------------------------------------------------------------------
\* What a string is after the way: a device of zero is left out, and the server
\* of a device is one of two.
Canonical(s) ==
    IF s = Number \/ ~IsJid(s) \/ s.device = NoDevice THEN s
    ELSE Jid(s.chars, IF s.device = 0 THEN NoDevice ELSE s.device, ServerOf(DomainType(s)))

\* Raw strings come back as bytes when they are content.
CanonicalContent(content, kids) ==
    CASE content.kind = "string" ->
            LET s == content.string
            IN IF IsJid(s) \/ SingleToken(s) \/ DoubleToken(s) \/ Packs(s, Nibbles) \/ Packs(s, Hexes)
               THEN StringContent(Canonical(s)) ELSE BytesContent(s.chars)
      [] content.kind = "nodes" -> Children(kids)
      [] OTHER -> content

CanonicalWith(node, kids) ==
    [tag |-> Canonical(node.tag),
     attrs |-> [i \in DOMAIN node.attrs |-> <<Canonical(node.attrs[i][1]), Canonical(node.attrs[i][2])>>],
     content |-> CanonicalContent(node.content, kids)]

CanonicalNode[node \in Nodes] ==
    CanonicalWith(node, [i \in DOMAIN Kids(node) |-> CanonicalNode[Kids(node)[i]]])

\* A string the stream can hold: not empty nor a name that every object has, nor with
\* the empty user of a device, nor with a device that needs more than a byte.
Writable(s) ==
    /\ s # Number /\ s # Empty /\ Text(s.chars) \notin Inherited
    /\ IsJid(s) /\ s.device # NoDevice => s.chars # <<>> /\ s.device < Byte

WritableWith(node, kids) ==
    /\ Writable(node.tag)
    /\ \A i \in DOMAIN node.attrs : Writable(node.attrs[i][1]) /\ Writable(node.attrs[i][2])
    /\ node.content.kind = "string" => Writable(node.content.string)
    /\ ListSize(node) < Byte * Byte /\ Len(kids) < Byte * Byte
    /\ \A i \in DOMAIN kids : kids[i]

WritableNode[node \in Nodes] ==
    WritableWith(node, [i \in DOMAIN Kids(node) |-> WritableNode[Kids(node)[i]]])

\* Every node whose strings can be written is read as it was, through every way
\* strings, lengths and lists are written, at their bounds too, and to its last
\* symbol; one with an empty string or a number among its attributes never is.
NodesComeBack ==
    sent # Number /\ wire = <<>> =>
        (got = Read(CanonicalNode[sent], Len(Encode[sent]) + 1) <=> WritableNode[sent])
-----------------------------------------------------------------------------
ContentSet(d) ==
    {NoContent} \cup [kind : {"string"}, string : StringSet] \cup [kind : {"bytes"}, bytes : Seq(STRING)]
        \cup [kind : {"nodes"}, nodes : Seq(UNION {Levels[e] : e \in 1 .. d - 1})]

\* Nodes are of finite depth, and children have tags: encodeBinaryNodeInner leaves out
\* those that have none.
ASSUME CodecAssumption ==
    /\ Byte \in Nat /\ Byte > 1 /\ Wide \in Nat /\ PackedMax \in Nat
    /\ SingleTokens \subseteq TextSet /\ DoubleTokens \subseteq TextSet /\ Inherited \subseteq TextSet
    /\ Empty \notin SingleTokens \cup DoubleTokens \cup Inherited
    /\ Inherited \cap (SingleTokens \cup DoubleTokens) = {}
    /\ Len(Levels) \in Nat /\ DOMAIN Levels = 1 .. Len(Levels)
    /\ \A d \in DOMAIN Levels : \A node \in Levels[d] :
          /\ node \in [tag : StringSet, attrs : Seq(AttrSet), content : ContentSet(d)]
          /\ \A i \in DOMAIN Kids(node) : Kids(node)[i].tag # Empty
=============================================================================
