---------------------------- MODULE MCConnection ----------------------------
(***************************************************************************)
(* lib/socket.js, one part per behaviour: a connection, the handshake with *)
(* its keys, or the keys that the server hands out.                        *)
(***************************************************************************)
EXTENDS Connection, PreKeys, NoiseHandshake, FiniteSets

CONSTANTS q1, u1, u2, u3,
          MaxRequests  \* bound: uploads and rotations together

VARIABLE part

vars == <<part, connVars, preKeyVars, handshakeVars>>

Init ==
    /\ part \in {"connection", "preKeys", "handshake"}
    /\ ConnInit /\ PreKeysInit /\ HandshakeInit

RunConnection == part = "connection" /\ ConnNext /\ UNCHANGED <<part, preKeyVars, handshakeVars>>

Started == {u \in Uploads : upload[u].pc # "new"}

\* uploads are alike, so they are taken to begin in one order
RunPreKeys ==
    /\ part = "preKeys" /\ PreKeysNext /\ UNCHANGED <<part, connVars, handshakeVars>>
    /\ u2 \in Started' => u1 \in Started'
    /\ u3 \in Started' => u2 \in Started'
    /\ Cardinality(Started') + Len(rotations') <= MaxRequests

RunHandshake == part = "handshake" /\ HandshakeNext /\ UNCHANGED <<part, connVars, preKeyVars>>

Next == RunConnection \/ RunPreKeys \/ RunHandshake

Spec == Init /\ [][Next]_vars /\ ConnGoesOn
=============================================================================
