---------------------------- MODULE NoiseFrames ----------------------------
(***************************************************************************)
(* The receiving half of the Noise channel once its keys are there.  Every *)
(* message event of the socket calls decodeFrame of lib/noise-handler.js,  *)
(* which takes a frame off inBytes, decrypts it and waits for the decoder; *)
(* then it hands the node to onMessageReceived of lib/socket.js and takes  *)
(* the next frame.  Events come while other calls wait, and all calls      *)
(* share inBytes and readCounter.  A waiting call is known by its frame:   *)
(* one that must be inflated waits for a thread, any other for its turn in *)
(* the queue of microtasks.  A frame that cannot be opened or decoded, and *)
(* a listener that throws, end the call; what it leaves waits for another. *)
(***************************************************************************)
EXTENDS Integers, Sequences, FiniteSets

CONSTANTS MaxFrames,   \* bound: the frames the server sends
          FrameBytes,  \* the pieces in which the bytes of a frame may come
          Inflated,    \* the frames that are compressed
          Broken,      \* those that are damaged, so that aesDecryptGCM throws
          Undecodable  \* those that decodeBinaryNode, or inflate, throws for

ASSUME NoiseAssumption ==
    /\ MaxFrames \in Nat /\ FrameBytes \in Nat \ {0}
    /\ Inflated \subseteq 1 .. MaxFrames
    /\ Broken \subseteq 1 .. MaxFrames /\ Undecodable \subseteq 1 .. MaxFrames

VARIABLES inBytes,     \* pieces received and not yet taken
          taken,       \* the frames taken off inBytes
          readCounter, \* those opened: the counter a frame is decrypted with
          inflating,   \* the frames that are being inflated
          ready,       \* the decoded ones, in the order their calls go on
          handed,      \* what onFrame was given
          threw        \* history: the call that ended last ended by throwing

noiseVars == <<inBytes, taken, readCounter, inflating, ready, handed, threw>>

NoiseInit ==
    /\ inBytes = 0 /\ taken = 0 /\ readCounter = 0
    /\ inflating = {} /\ ready = <<>> /\ handed = <<>> /\ threw = FALSE

\* Plausible bug: the call whose bytes came last goes on first.
Decoding_InFront(n, waiting) ==
    IF n \in Inflated
    THEN inflating' = inflating \cup {n} /\ ready' = waiting
    ELSE ready' = <<n>> \o waiting /\ UNCHANGED inflating

\* The await of decodeBinaryNode for a frame that was opened.
Decoding(n, waiting) ==
    IF n \in Inflated
    THEN inflating' = inflating \cup {n} /\ ready' = waiting
    ELSE ready' = Append(waiting, n) /\ UNCHANGED inflating

\* decrypt: the counter goes on only after it succeeded, so that no frame opens
\* after one that did not.
Decrypts(n) == n \notin Broken /\ n = readCounter + 1

\* One turn of the loop of decodeFrame, up to its await: getBytesSize says
\* whether a frame is there; it is taken and decrypted with the next counter.
\* A call that finds none returns, one that cannot open it throws.
TakeFrame(bytes, waiting) ==
    \/ /\ bytes < FrameBytes
       /\ inBytes' = bytes /\ ready' = waiting /\ threw' = FALSE
       /\ UNCHANGED <<taken, readCounter, inflating>>
    \/ /\ bytes >= FrameBytes
       /\ inBytes' = bytes - FrameBytes /\ taken' = taken + 1
       /\ \/ /\ Decrypts(taken + 1)
             /\ readCounter' = readCounter + 1
             /\ Decoding(taken + 1, waiting)
             /\ UNCHANGED threw
          \/ /\ ~Decrypts(taken + 1)
             /\ ready' = waiting /\ threw' = TRUE
             /\ UNCHANGED <<readCounter, inflating>>

\* The socket's message event with any part of the stream, whole frames or not.
MessageEvent(pieces) ==
    /\ taken * FrameBytes + inBytes + pieces <= MaxFrames * FrameBytes
    /\ TakeFrame(inBytes + pieces, ready)
    /\ UNCHANGED handed

\* decompressingIfRequired: zlib is done, in the order of its threads.
InflateDone(n) ==
    /\ n \in inflating
    /\ inflating' = inflating \ {n}
    /\ ready' = Append(ready, n)
    /\ UNCHANGED <<inBytes, taken, readCounter, handed, threw>>

\* The decoder is done, and onFrame gets the node.
OnFrame ==
    /\ ready # <<>> /\ Head(ready) \notin Undecodable
    /\ handed' = Append(handed, Head(ready))

\* onFrame, and the next turn of the loop.
HandOver == OnFrame /\ TakeFrame(inBytes, Tail(ready))

\* The call ends without another turn, and is only logged.
CallThrows ==
    /\ ready' = Tail(ready) /\ threw' = TRUE
    /\ UNCHANGED <<inBytes, taken, readCounter, inflating>>

\* A listener throws: onFrame emits to all of them, in the same call.
OnFrameThrows == OnFrame /\ CallThrows

DecodeThrows ==
    /\ ready # <<>> /\ Head(ready) \in Undecodable
    /\ CallThrows
    /\ UNCHANGED handed

NoiseNext ==
    \/ \E pieces \in 1 .. MaxFrames * FrameBytes : MessageEvent(pieces)
    \/ \E n \in Inflated : InflateDone(n)
    \/ HandOver
    \/ OnFrameThrows
    \/ DecodeThrows

NoiseSpec == NoiseInit /\ [][NoiseNext]_noiseVars
-----------------------------------------------------------------------------
\* Frames are handed over in the order of the server, whatever calls wait: one
\* is overtaken only while it is inflated.
FramesInOrder ==
    \A i, k \in DOMAIN handed : i < k /\ handed[i] > handed[k] => handed[k] \in Inflated

\* A frame that can be read: none is after one that could not be opened.
Readable(n) == n \notin Undecodable /\ \A b \in Broken : n < b

\* When no call is left, every frame that was taken and can be read was handed
\* over, once, whatever became of the calls before and after it; and a whole
\* frame waits for a later event only behind a call that ended by throwing.
FramesComplete ==
    ready = <<>> /\ inflating = {} =>
        /\ inBytes >= FrameBytes => threw
        /\ \A i, k \in DOMAIN handed : handed[i] = handed[k] => i = k
        /\ \A n \in 1 .. taken : Readable(n) <=> \E i \in DOMAIN handed : handed[i] = n

\* What decodeFrame promises to onMessageReceived: frames in order, all of them,
\* although its calls suspend each other between any two of them and may throw.
FramesHandedOver == FramesInOrder /\ FramesComplete
=============================================================================
