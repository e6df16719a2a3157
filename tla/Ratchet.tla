------------------------------ MODULE Ratchet ------------------------------
(***************************************************************************)
(* The Double Ratchet of signal/session_builder.js and session_cipher.js   *)
(* on one session entry, with symbolic keys.  A key pair is named by its   *)
(* public key; an agreement is the set of the two keys, so both sides get  *)
(* the same; a root key is the list of the agreements derived into it; a   *)
(* chain is named by the root key it was derived with, and its message     *)
(* keys by their counter.  Keys are equal when they are derived alike.     *)
(***************************************************************************)
EXTENDS Integers, Sequences, Functions

CONSTANTS MaxJump,   \* the 2000 of fillMessageKeys
          Word       \* 2^32: a message carries its counters as uint32

ASSUME RatchetAssumption == MaxJump \in Nat /\ Word \in Nat /\ Word > 2 * MaxJump

Agree(pub, priv) == {pub, priv}

NewChain(root, sending) ==
    [seed |-> root, counter |-> -1, live |-> TRUE, sending |-> sending, keys |-> {}]

Chain(s, key) == s.chains[key]
HasChain(s, key) == key \in DOMAIN s.chains

\* fillMessageKeys: it returns, or throws with the chain untouched.
Fills(c, counter) ==
    c.counter < counter => counter - c.counter <= MaxJump /\ c.live

Filled(c, counter) ==
    IF c.counter >= counter THEN c
    ELSE [c EXCEPT !.keys = @ \cup (c.counter + 1) .. counter, !.counter = counter]

\* initSession's master key: the agreements in the order both sides put
\* them, identity against signed pre-key first; the fourth one only where
\* there is a one-time pre-key.
MasterOut(me, base, them, signed, pre) ==
    <<Agree(signed, me), Agree(them, base), Agree(signed, base)>>
        \o (IF pre = {} THEN <<>> ELSE <<{base} \cup pre>>)

MasterIn(me, signed, pre, them, base) ==
    <<Agree(them, signed), Agree(base, me), Agree(base, signed)>>
        \o (IF pre = {} THEN <<>> ELSE <<{base} \cup pre>>)

\* initSession for the initiator, calculateSendingRatchet included; bundle is
\* what the server gave out, base and eph are fresh.  A new entry is open.
Initiator(me, bundle, base, eph, now) ==
    LET root == Append(MasterOut(me, base, bundle.identity, bundle.signed, bundle.pre),
                       Agree(bundle.signed, eph))
    IN [base |-> base, ours |-> TRUE, root |-> root, eph |-> eph,
        remote |-> bundle.signed, prev |-> 0,
        chains |-> [k \in {eph} |-> NewChain(root, TRUE)],
        pending |-> TRUE, pre |-> bundle.pre, closed |-> -1, used |-> now]

\* initSession for the responder: its signed pre-key is its first ratchet
\* key, and it has no chain until the first message steps the ratchet.
Responder(me, signed, pre, them, base, now) ==
    [base |-> base, ours |-> FALSE, root |-> MasterIn(me, signed, pre, them, base),
     eph |-> signed, remote |-> base, prev |-> 0,
     chains |-> [k \in {} |-> NewChain(<<>>, TRUE)],
     pending |-> FALSE, pre |-> {}, closed |-> -1, used |-> now]

\* The message encrypt puts out on a session, and the session after it.
CanEncrypt(s) == HasChain(s, s.eph) /\ Chain(s, s.eph).sending

\* Plausible bug: the session is saved before its chain is advanced.
Encrypted_TooEarly(s) == s

Encrypted(s) == [s EXCEPT !.chains[s.eph].counter = @ + 1]

Ciphertext(s) ==
    LET c == Chain(s, s.eph) IN
    [pkmsg |-> s.pending, base |-> IF s.pending THEN {s.base} ELSE {}, pre |-> s.pre,
     eph |-> s.eph, ctr |-> c.counter + 1, prev |-> s.prev % Word,
     key |-> <<c.seed, c.counter + 1>>]

\* The part of maybeStepRatchet before the new ratchet key: the previous
\* receiving chain is filled up to its last message and closed.
OldChainFills(s, m) ==
    HasChain(s, s.remote) => Fills(Chain(s, s.remote), m.prev)

\* Plausible bug: the chain is closed without keys for its last messages.
ClosePrevious_NotFilled(s, m) ==
    IF HasChain(s, s.remote) THEN [s.chains EXCEPT ![s.remote].live = FALSE] ELSE s.chains

ClosePrevious(s, m) ==
    IF HasChain(s, s.remote)
    THEN [s.chains EXCEPT ![s.remote] = [Filled(@, m.prev) EXCEPT !.live = FALSE]]
    ELSE s.chains

\* Plausible bug: no new sending chain until the next own message.
Stepped_NoSending(s, m, fresh) ==
    LET in == Append(s.root, Agree(m.eph, s.eph)) IN
    [s EXCEPT
       !.root = Append(in, Agree(m.eph, fresh)),
       !.chains = [k \in (DOMAIN s.chains \ {s.eph}) \cup {m.eph} |->
                     IF k = m.eph THEN NewChain(in, FALSE) ELSE ClosePrevious(s, m)[k]],
       !.eph = fresh,
       !.remote = m.eph]

\* maybeStepRatchet on an unknown ratchet key, where it does not throw.
\* Restrict drops the old sending chain, whose counter the next messages
\* carry as previousCounter.
Stepped(s, m, fresh) ==
    LET in  == Append(s.root, Agree(m.eph, s.eph))
        out == Append(in, Agree(m.eph, fresh))
        old == Restrict(ClosePrevious(s, m), DOMAIN s.chains \ {s.eph})
    IN [s EXCEPT
          !.root = out,
          !.prev = IF HasChain(s, s.eph) THEN Chain(s, s.eph).counter ELSE @,
          !.chains = [k \in DOMAIN old \cup {m.eph, fresh} |->
                        IF k = fresh THEN NewChain(out, TRUE)
                        ELSE IF k = m.eph THEN NewChain(in, FALSE)
                        ELSE old[k]],
          !.eph = fresh,
          !.remote = m.eph]

\* doDecryptWhisperMessage.  It works on the session in place: what it did
\* before it throws stays done, and the caller may go on with the session.
StepsRatchet(s, m) == ~HasChain(s, m.eph)
RatchetThrows(s, m) == StepsRatchet(s, m) /\ ~OldChainFills(s, m)

\* The session when maybeStepRatchet has returned.
AfterRatchet(s, m, fresh) ==
    IF StepsRatchet(s, m) THEN Stepped(s, m, fresh) ELSE s

\* The message key is there: neither a sending chain, nor a closed or far
\* chain, nor a counter used already.
KeyThere(s, m) ==
    LET c == Chain(s, m.eph) IN
    /\ ~c.sending
    /\ Fills(c, m.ctr)
    /\ m.ctr \in Filled(c, m.ctr).keys

\* Plausible bugs: the used key stays; taking it drops the skipped ones.
KeyTaken_Stays(s, m) == [s EXCEPT !.chains[m.eph] = Filled(@, m.ctr)]

\* The key is taken out of the chain before the MAC is verified.
KeyTaken(s, m) ==
    LET c == Filled(Chain(s, m.eph), m.ctr)
    IN [s EXCEPT !.chains[m.eph] = [c EXCEPT !.keys = @ \ {m.ctr}]]

Authentic(s, m) == <<Chain(s, m.eph).seed, m.ctr>> = m.key

Decrypts(s, m, fresh) ==
    /\ ~RatchetThrows(s, m)
    /\ LET r == AfterRatchet(s, m, fresh) IN KeyThere(r, m) /\ Authentic(r, m)

\* What an attempt leaves of the session, whether it failed or not.
AfterAttempt(s, m, fresh) ==
    IF RatchetThrows(s, m) THEN s
    ELSE LET r == AfterRatchet(s, m, fresh) IN
         IF ~KeyThere(r, m) THEN
             IF ~Chain(r, m.eph).sending /\ Fills(Chain(r, m.eph), m.ctr)
             THEN [r EXCEPT !.chains[m.eph] = Filled(@, m.ctr)] ELSE r
         ELSE IF ~Authentic(r, m) THEN KeyTaken(r, m)
         ELSE [KeyTaken(r, m) EXCEPT !.pending = FALSE, !.pre = {}]
=============================================================================
