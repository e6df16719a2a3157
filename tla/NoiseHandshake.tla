--------------------------- MODULE NoiseHandshake ---------------------------
(***************************************************************************)
(* The handshake of the Noise channel and the keys it leaves:              *)
(* lib/noise-handler.js under validateConnection of lib/socket.js.  The    *)
(* keys are derived asynchronously, and meanwhile the socket may be asked  *)
(* to send, and frames may come.  Bytes are terms: a hash is the sequence  *)
(* of what was authenticated, a key the shared secrets mixed into it, a    *)
(* ciphertext its key, counter, additional data and plaintext.  The server *)
(* is the other end of the same protocol.                                  *)
(***************************************************************************)
EXTENDS Integers, Sequences

CONSTANT MaxSeals  \* bound: the frames each end seals once the keys are there

ASSUME HandshakeAssumption == MaxSeals \in Nat

VARIABLES client,   \* what noise-handler.js keeps: hash, salt, keys, counters, isFinished
          peer,   \* the same of the server
          stage,    \* the step of validateConnection
          serverHello,
          keyEnc,   \* what processHandshake gives
          up, down, \* frames under way
          sealed,   \* history: everything that was encrypted
          early,    \* history: a frame left, or came, before the keys were there
          failed    \* the ends that got a frame they cannot open

handshakeVars == <<client, peer, stage, serverHello, keyEnc, up, down, sealed, early, failed>>

Plain(what) == <<what>>
Key(secrets, part) == <<secrets, part>>
Sealed(key, counter, data, plain) == <<key, counter, data, plain>>

Authenticated(s, data) == IF s.isFinished THEN s ELSE [s EXCEPT !.hash = Append(@, data)]

\* encrypt: the ciphertext, and the state after it.
Cipher(s, plain) == Sealed(s.encKey, s.writeCounter, s.hash, plain)
Encrypt(s, plain) == Authenticated([s EXCEPT !.writeCounter = @ + 1], Cipher(s, plain))

\* Plausible bug: the handshake, too, counts what is read on its own.
Decrypt_ReadCounter(s, c) == Authenticated([s EXCEPT !.readCounter = @ + 1], c)

\* decrypt: before the handshake is over, one counter serves both directions.
DecryptsWith(s) == IF s.isFinished THEN s.readCounter ELSE s.writeCounter
Opens(s, c) == c[1] = s.decKey /\ c[2] = DecryptsWith(s) /\ c[3] = s.hash
Decrypt(s, c) ==
    Authenticated(IF s.isFinished THEN [s EXCEPT !.readCounter = @ + 1] ELSE [s EXCEPT !.writeCounter = @ + 1], c)

\* mixIntoKey, once localHKDF has answered.
MixIntoKey(s, secret) ==
    LET secrets == Append(s.salt, secret)
    IN [s EXCEPT !.salt = secrets, !.encKey = Key(secrets, "mixed"), !.decKey = Key(secrets, "mixed"),
                 !.readCounter = 0, !.writeCounter = 0]

\* finishInit, once localHKDF has answered.
FinishInit(s, write, read) ==
    [s EXCEPT !.encKey = Key(s.salt, write), !.decKey = Key(s.salt, read), !.hash = <<>>,
              !.readCounter = 0, !.writeCounter = 0, !.isFinished = TRUE]

NoiseStart ==
    [hash |-> <<Plain("mode"), Plain("header"), Plain("client ephemeral")>>,
     salt |-> <<>>, encKey |-> Key(<<>>, "mode"), decKey |-> Key(<<>>, "mode"),
     readCounter |-> 0, writeCounter |-> 0, isFinished |-> FALSE]

HandshakeInit ==
    /\ client = NoiseStart /\ peer = NoiseStart
    /\ stage = "opening" /\ serverHello = <<>> /\ keyEnc = <<>>
    /\ up = <<>> /\ down = <<>> /\ sealed = {} /\ early = FALSE /\ failed = {}
-----------------------------------------------------------------------------
ClientHello ==
    /\ stage = "opening"
    /\ stage' = "hello"
    /\ up' = Append(up, Plain("client ephemeral"))
    /\ UNCHANGED <<client, peer, serverHello, keyEnc, down, sealed, early, failed>>

\* The server answers with its ephemeral key, its static key and its certificate.
ServerAnswers ==
    /\ up # <<>> /\ Head(up) = Plain("client ephemeral") /\ "server" \notin failed
    /\ up' = Tail(up)
    /\ LET s1 == MixIntoKey(Authenticated(peer, Plain("server ephemeral")), {"client ephemeral", "server ephemeral"})
           static == Cipher(s1, Plain("server static"))
           s2 == MixIntoKey(Encrypt(s1, Plain("server static")), {"client ephemeral", "server static"})
           payload == Cipher(s2, Plain("certificate"))
       IN /\ peer' = Encrypt(s2, Plain("certificate"))
          /\ down' = Append(down, <<Plain("server ephemeral"), static, payload>>)
          /\ sealed' = sealed \cup {static, payload}
    /\ UNCHANGED <<client, stage, serverHello, keyEnc, early, failed>>

\* processHandshake up to the first await.
ProcessHandshake ==
    /\ stage = "hello" /\ down # <<>>
    /\ serverHello' = Head(down)
    /\ down' = Tail(down)
    /\ client' = Authenticated(client, Head(down)[1])
    /\ stage' = "ephemeral"
    /\ UNCHANGED <<peer, keyEnc, up, sealed, early, failed>>

\* The first secret is there: the static key of the server can be read.
MixEphemeral ==
    /\ stage = "ephemeral"
    /\ LET c == MixIntoKey(client, {"client ephemeral", "server ephemeral"})
       IN /\ client' = Decrypt(c, serverHello[2])
          /\ failed' = IF Opens(c, serverHello[2]) THEN failed ELSE failed \cup {"client"}
    /\ stage' = "static"
    /\ UNCHANGED <<peer, serverHello, keyEnc, up, down, sealed, early>>

\* The second: the certificate is read, and looked at no further, and the noise
\* key of the client is encrypted.
MixStatic ==
    /\ stage = "static" /\ "client" \notin failed
    /\ LET c == MixIntoKey(client, {"client ephemeral", "server static"})
           read == Decrypt(c, serverHello[3])
           key == Cipher(read, Plain("noise key"))
       IN /\ failed' = IF Opens(c, serverHello[3]) THEN failed ELSE failed \cup {"client"}
          /\ client' = Encrypt(read, Plain("noise key"))
          /\ keyEnc' = key
          /\ sealed' = sealed \cup {key}
    /\ stage' = "own"
    /\ UNCHANGED <<peer, serverHello, up, down, early>>

\* The third: the login or registration payload is encrypted and the last frame
\* of the handshake goes out.
ClientFinish ==
    /\ stage = "own" /\ "client" \notin failed
    /\ LET c == MixIntoKey(client, {"noise key", "server ephemeral"})
           payload == Cipher(c, Plain("payload"))
       IN /\ client' = Encrypt(c, Plain("payload"))
          /\ up' = Append(up, <<keyEnc, payload>>)
          /\ sealed' = sealed \cup {payload}
    /\ stage' = "sent"
    /\ UNCHANGED <<peer, serverHello, keyEnc, down, early, failed>>

\* The frame was written and finishInit has the keys.
HandshakeOver ==
    /\ stage = "sent"
    /\ stage' = "over"
    /\ client' = FinishInit(client, "write", "read")
    /\ UNCHANGED <<peer, serverHello, keyEnc, up, down, sealed, early, failed>>

ServerFinishes ==
    /\ up # <<>> /\ Len(Head(up)) = 2 /\ ~peer.isFinished /\ "server" \notin failed
    /\ up' = Tail(up)
    /\ LET finish == Head(up)
           read == Decrypt(peer, finish[1])
           mixed == MixIntoKey(read, {"noise key", "server ephemeral"})
       IN /\ failed' = IF Opens(peer, finish[1]) /\ Opens(mixed, finish[2]) THEN failed ELSE failed \cup {"server"}
          /\ peer' = FinishInit(Decrypt(mixed, finish[2]), "read", "write")
    /\ UNCHANGED <<client, stage, serverHello, keyEnc, down, sealed, early>>
-----------------------------------------------------------------------------
\* encodeFrame for sendNode: without the keys the frame goes out as it is.
SendFrame ==
    /\ stage # "opening"
    /\ IF client.isFinished
       THEN /\ client.writeCounter < MaxSeals
            /\ client' = Encrypt(client, Plain("frame"))
            /\ up' = Append(up, Cipher(client, Plain("frame")))
            /\ sealed' = sealed \cup {Cipher(client, Plain("frame"))}
            /\ UNCHANGED early
       ELSE /\ ~early
            /\ up' = Append(up, Plain("frame"))
            /\ early' = TRUE
            /\ UNCHANGED <<client, sealed>>
    /\ UNCHANGED <<peer, stage, serverHello, keyEnc, down, failed>>

ServerSends ==
    /\ peer.isFinished /\ peer.writeCounter < MaxSeals
    /\ peer' = Encrypt(peer, Plain("stanza"))
    /\ down' = Append(down, Cipher(peer, Plain("stanza")))
    /\ sealed' = sealed \cup {Cipher(peer, Plain("stanza"))}
    /\ UNCHANGED <<client, stage, serverHello, keyEnc, up, early, failed>>

ServerReads ==
    /\ up # <<>> /\ "server" \notin failed
    /\ Head(up) # Plain("client ephemeral") /\ (Len(Head(up)) = 2 => peer.isFinished)
    /\ up' = Tail(up)
    /\ IF peer.isFinished /\ Len(Head(up)) = 4 /\ Opens(peer, Head(up))
       THEN peer' = Decrypt(peer, Head(up)) /\ UNCHANGED failed
       ELSE failed' = failed \cup {"server"} /\ UNCHANGED peer
    /\ UNCHANGED <<client, stage, serverHello, keyEnc, down, sealed, early>>

\* decodeFrame: a frame that comes before the keys is handed on undecrypted, and
\* not counted.
ReceiveFrame ==
    /\ stage \in {"sent", "over"} /\ down # <<>> /\ "client" \notin failed
    /\ down' = Tail(down)
    /\ IF ~client.isFinished
       THEN early' = TRUE /\ UNCHANGED <<client, failed>>
       ELSE /\ UNCHANGED early
            /\ IF Opens(client, Head(down))
               THEN client' = Decrypt(client, Head(down)) /\ UNCHANGED failed
               ELSE failed' = failed \cup {"client"} /\ UNCHANGED client
    /\ UNCHANGED <<peer, stage, serverHello, keyEnc, up, sealed>>

HandshakeNext ==
    \/ ClientHello \/ ProcessHandshake \/ MixEphemeral \/ MixStatic \/ ClientFinish \/ HandshakeOver
    \/ SendFrame \/ ReceiveFrame
    \/ ServerAnswers \/ ServerFinishes \/ ServerSends \/ ServerReads

HandshakeSpec == HandshakeInit /\ [][HandshakeNext]_handshakeVars
-----------------------------------------------------------------------------
\* No key encrypts two texts with one counter, though during the handshake both
\* ends write with the same key and count in common; and either end can open all
\* that the other sends, unless a frame was sent, or came, before the keys were
\* there: such a frame leaves in the clear, or is missed in the count.
ChannelSound ==
    /\ \A c, d \in sealed : c[1] = d[1] /\ c[2] = d[2] => c = d
    /\ failed # {} => early
=============================================================================
