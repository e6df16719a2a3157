------------------------ MODULE SignalConversationProofs ------------------------
(***************************************************************************)
(* What holds of two devices that talk, for any number of sessions,        *)
(* messages and crashes, any window of skipped keys and any number of      *)
(* one-time pre-keys.                                                      *)
(*   Typed says of every stored session that it is good: besides the types *)
(* it has a sending chain, no other chain sends, and every chain was       *)
(* derived from the first root of the session.  An attempt to read, even   *)
(* one that throws half-way, goes on from such a session (AttemptGoesOn):  *)
(* chains only gain later keys, and the sending chain stays or is made of  *)
(* a key generated now.  The rest says what relates the two devices: no    *)
(* two sessions send on one chain and a chain is ahead of all it has sent  *)
(* (KeyInv); what was read is spent in its session (ReadInv); a pre-key    *)
(* that is offered is held or its session is (OfferInv); the records are   *)
(* those of SessionStore; and where there is one session, its two ends are *)
(* a pair (PairInv): one has stepped its ratchet last, and the other has   *)
(* or can still make the key of every message it has not read.             *)
(*   ReadInv and OfferInv are of records that keep all their sessions: an  *)
(* old one that was removed can be built again from a late message.        *)
(***************************************************************************)
EXTENDS SignalConversation, FiniteSetTheorems, SequenceTheorems, TLAPS

\* The types of chains, sessions and messages made of the keys in K.
Chains(K) ==
    [seed : Seq(SUBSET K), counter : Nat \cup {-1}, live : BOOLEAN, sending : BOOLEAN, keys : SUBSET Nat]

ChainMaps(K) == UNION {[D -> Chains(K)] : D \in SUBSET K}

Sessions(K) ==
    [base : K, ours : BOOLEAN, root : Seq(SUBSET K), eph : K, remote : K, prev : Nat \cup {-1},
     chains : ChainMaps(K), pending : BOOLEAN, pre : SUBSET K, closed : Int, used : Int]

Messages(K) ==
    [from : Peers, n : Nat, pkmsg : BOOLEAN, base : SUBSET K, pre : SUBSET K,
     eph : K, ctr : Nat, prev : Nat, key : Seq(SUBSET K) \X Nat]

\* What it is to be a map of chains.
LEMMA ChainMapsDef ==
    ASSUME NEW K, NEW f
    PROVE  f \in ChainMaps(K) <=>
              /\ f = [k \in DOMAIN f |-> f[k]] /\ DOMAIN f \subseteq K
              /\ \A k \in DOMAIN f : f[k] \in Chains(K)
BY DEF ChainMaps

\* A type over more keys takes in the type over fewer.
LEMMA ChainsGrow ==
    ASSUME NEW K, NEW L, K \subseteq L
    PROVE  Chains(K) \subseteq Chains(L) /\ ChainMaps(K) \subseteq ChainMaps(L)
           /\ Sessions(K) \subseteq Sessions(L) /\ Messages(K) \subseteq Messages(L)
<1>1. Seq(SUBSET K) \subseteq Seq(SUBSET L)
    OBVIOUS
<1>2. Chains(K) \subseteq Chains(L)
    BY <1>1 DEF Chains
<1>3. ChainMaps(K) \subseteq ChainMaps(L)
    BY <1>2, ChainMapsDef
<1>4. Sessions(K) \subseteq Sessions(L)
    BY <1>1, <1>3 DEF Sessions
<1>5. Messages(K) \subseteq Messages(L)
    BY <1>1 DEF Messages
<1> QED BY <1>2, <1>3, <1>4, <1>5

\* A chain that goes on: it keeps its seed and kind, and gains only later keys.
GrownTo(c, d) ==
    /\ d.seed = c.seed /\ d.sending = c.sending /\ c.counter <= d.counter
    /\ \A x \in d.keys : x <= c.counter => x \in c.keys

\* fillMessageKeys goes on from a chain and reaches the counter it was asked for.
LEMMA FilledGrows ==
    ASSUME NEW K, NEW c \in Chains(K), NEW n \in Nat
    PROVE  /\ Filled(c, n) \in Chains(K) /\ GrownTo(c, Filled(c, n))
           /\ n <= Filled(c, n).counter
<1>1. CASE c.counter >= n
    BY <1>1 DEF Filled, Chains, GrownTo
<1>2. CASE c.counter < n
    <2>1. c.counter \in Nat \cup {-1} /\ c.keys \subseteq Nat
        BY DEF Chains
    <2>2. /\ Filled(c, n).seed = c.seed /\ Filled(c, n).sending = c.sending /\ Filled(c, n).live = c.live
          /\ Filled(c, n).counter = n /\ Filled(c, n).keys = c.keys \cup (c.counter + 1) .. n
        BY <1>2, <2>1 DEF Filled, Chains
    <2>3. (c.counter + 1) .. n \subseteq Nat
        BY <2>1
    <2>4. Filled(c, n) \in Chains(K)
        BY <1>2, <2>1, <2>3 DEF Filled, Chains
    <2> QED BY <1>2, <2>1, <2>2, <2>4 DEF GrownTo
<1> QED BY <1>1, <1>2 DEF Chains

\* A chain that stays as it is has gone on.
LEMMA GrownSelf == ASSUME NEW K, NEW c \in Chains(K) PROVE GrownTo(c, c)
BY DEF GrownTo, Chains

\* So do the chains of a session when the previous one is filled and closed.
LEMMA ClosedGrows ==
    ASSUME NEW K, NEW s \in Sessions(K), NEW m \in Messages(K)
    PROVE  /\ ClosePrevious(s, m) \in ChainMaps(K) /\ DOMAIN ClosePrevious(s, m) = DOMAIN s.chains
           /\ \A k \in DOMAIN s.chains : GrownTo(s.chains[k], ClosePrevious(s, m)[k])
<1>1. s.chains \in ChainMaps(K) /\ s.remote \in K /\ m.prev \in Nat
    BY DEF Sessions, Messages
<1>2. /\ s.chains = [k \in DOMAIN s.chains |-> s.chains[k]] /\ DOMAIN s.chains \subseteq K
      /\ \A k \in DOMAIN s.chains : s.chains[k] \in Chains(K)
    BY <1>1, ChainMapsDef
<1>3. CASE ~HasChain(s, s.remote)
    <2>1. ClosePrevious(s, m) = s.chains
        BY <1>3 DEF ClosePrevious
    <2> QED BY <2>1, <1>1, <1>2 DEF GrownTo, Chains
<1>4. CASE HasChain(s, s.remote)
    <2> DEFINE d == [Filled(s.chains[s.remote], m.prev) EXCEPT !.live = FALSE]
    <2>1. s.remote \in DOMAIN s.chains /\ s.chains[s.remote] \in Chains(K)
        BY <1>4, <1>2 DEF HasChain
    <2>2. Filled(s.chains[s.remote], m.prev) \in Chains(K) /\ GrownTo(s.chains[s.remote], Filled(s.chains[s.remote], m.prev))
        BY <2>1, <1>1, FilledGrows
    <2>3. d \in Chains(K) /\ GrownTo(s.chains[s.remote], d)
        BY <2>2 DEF Chains, GrownTo
    <2>4. ClosePrevious(s, m) = [s.chains EXCEPT ![s.remote] = d]
        BY <1>4 DEF ClosePrevious
    <2> HIDE DEF d
    <2>5. /\ DOMAIN ClosePrevious(s, m) = DOMAIN s.chains
          /\ ClosePrevious(s, m) = [k \in DOMAIN s.chains |-> ClosePrevious(s, m)[k]]
          /\ \A k \in DOMAIN s.chains : ClosePrevious(s, m)[k] = IF k = s.remote THEN d ELSE s.chains[k]
        BY <2>1, <2>4, <1>2
    <2>6. ClosePrevious(s, m) \in ChainMaps(K)
        BY <2>5, <1>2, <2>3, ChainMapsDef
    <2>7. \A k \in DOMAIN s.chains : GrownTo(s.chains[k], ClosePrevious(s, m)[k])
        BY <2>5, <1>2, <2>3, GrownSelf
    <2> QED BY <2>5, <2>6, <2>7
<1> QED BY <1>3, <1>4

\* What a step of the ratchet, or an attempt to read, leaves alone.
SameEntry(s, r) ==
    /\ r.base = s.base /\ r.ours = s.ours /\ r.closed = s.closed /\ r.used = s.used

OneSending(s) == \A k \in DOMAIN s.chains : s.chains[k].sending => k = s.eph

\* Every chain of a session was derived from its first root, and the root goes on.
Rooted(s) ==
    /\ Len(s.root) >= 2
    /\ \A k \in DOMAIN s.chains :
          LET seed == s.chains[k].seed IN Len(seed) >= 2 /\ Len(seed) <= Len(s.root) /\ seed[2] = s.root[2]

\* The roots of the two chains a step of the ratchet derives.
RootIn(s, m) == Append(s.root, {m.eph, s.eph})
RootOut(s, m, f) == Append(RootIn(s, m), {m.eph, f})

\* The session after a step of the ratchet.
IsStep(s, m, f, r) ==
    /\ SameEntry(s, r) /\ r.pending = s.pending /\ r.pre = s.pre
    /\ r.eph = f /\ r.root = RootOut(s, m, f)
    /\ DOMAIN r.chains = (DOMAIN s.chains \ {s.eph}) \cup {m.eph, f}
    /\ \A k \in DOMAIN s.chains \ {s.eph} : k # f /\ k # m.eph /\ GrownTo(s.chains[k], r.chains[k])
    /\ r.chains[f] = NewChain(RootOut(s, m, f), TRUE)
    /\ m.eph # f /\ r.chains[m.eph] = NewChain(RootIn(s, m), FALSE)

\* maybeStepRatchet with a new key: the types, and what it does to each chain.
LEMMA SteppedKeeps ==
    ASSUME NEW K, NEW f, f \notin K, NEW s \in Sessions(K), NEW m \in Messages(K), StepsRatchet(s, m)
    PROVE  Stepped(s, m, f) \in Sessions(K \cup {f}) /\ IsStep(s, m, f, Stepped(s, m, f))
<1> DEFINE L == K \cup {f}
           r == Stepped(s, m, f)
           in == RootIn(s, m)
           out == RootOut(s, m, f)
           old == Restrict(ClosePrevious(s, m), DOMAIN s.chains \ {s.eph})
           D == (DOMAIN s.chains \ {s.eph}) \cup {m.eph, f}
           new == [k \in D |-> IF k = f THEN NewChain(out, TRUE) ELSE IF k = m.eph THEN NewChain(in, FALSE) ELSE old[k]]
<1>1. /\ s.chains \in ChainMaps(K) /\ s.root \in Seq(SUBSET K) /\ m.eph \in K /\ s.eph \in K /\ s.prev \in Nat \cup {-1}
      /\ DOMAIN s.chains \subseteq K /\ m.eph \notin DOMAIN s.chains
    BY ChainMapsDef DEF Sessions, Messages, StepsRatchet, HasChain
<1>2. in \in Seq(SUBSET L) /\ out \in Seq(SUBSET L)
    <2>1. s.root \in Seq(SUBSET L) /\ {m.eph, s.eph} \in SUBSET L /\ {m.eph, f} \in SUBSET L
        BY <1>1
    <2> QED BY <2>1 DEF RootIn, RootOut
<1>3. /\ DOMAIN old = DOMAIN s.chains \ {s.eph}
      /\ \A k \in DOMAIN old : old[k] = ClosePrevious(s, m)[k]
    BY DEF Restrict
<1>4. \A k \in DOMAIN old : k # f /\ k # m.eph /\ old[k] \in Chains(L) /\ GrownTo(s.chains[k], old[k])
    <2>1. /\ ClosePrevious(s, m) \in ChainMaps(K) /\ DOMAIN ClosePrevious(s, m) = DOMAIN s.chains
          /\ \A k \in DOMAIN s.chains : GrownTo(s.chains[k], ClosePrevious(s, m)[k])
        BY ClosedGrows
    <2>2. \A k \in DOMAIN s.chains : ClosePrevious(s, m)[k] \in Chains(K)
        BY <2>1, ChainMapsDef
    <2>3. Chains(K) \subseteq Chains(L)
        BY ChainsGrow
    <2> HIDE DEF old
    <2> QED BY <1>1, <1>3, <2>1, <2>2, <2>3
<1>5. NewChain(out, TRUE) \in Chains(L) /\ NewChain(in, FALSE) \in Chains(L)
    BY <1>2 DEF NewChain, Chains
<1>6. DOMAIN old \cup {m.eph, f} = D
    BY <1>3
<1>7. r = [s EXCEPT !.root = out,
                    !.prev = IF HasChain(s, s.eph) THEN Chain(s, s.eph).counter ELSE s.prev,
                    !.chains = new, !.eph = f, !.remote = m.eph]
    BY <1>6 DEF Stepped, Agree, Sessions, RootIn, RootOut
<1>8. (IF HasChain(s, s.eph) THEN Chain(s, s.eph).counter ELSE s.prev) \in Nat \cup {-1}
    BY <1>1, ChainMapsDef DEF HasChain, Chain, Chains
<1>9. new \in ChainMaps(L)
    <2>1. DOMAIN new = D /\ new = [k \in DOMAIN new |-> new[k]] /\ D \subseteq L
        BY <1>1
    <2>2. \A k \in D : new[k] \in Chains(L)
        BY <1>3, <1>4, <1>5
    <2> HIDE DEF new, D
    <2> QED BY <2>1, <2>2, ChainMapsDef
<1>10. /\ DOMAIN new = D /\ new[f] = NewChain(out, TRUE) /\ m.eph # f /\ new[m.eph] = NewChain(in, FALSE)
       /\ \A k \in DOMAIN s.chains \ {s.eph} : k # f /\ k # m.eph /\ GrownTo(s.chains[k], new[k])
    BY <1>1, <1>3, <1>4
<1> HIDE DEF new, D, in, out, L
<1>11. r \in Sessions(L) /\ SameEntry(s, r) /\ r.pending = s.pending /\ r.pre = s.pre
       /\ r.eph = f /\ r.root = out /\ r.chains = new
    <2>1. f \in L /\ m.eph \in L /\ s \in Sessions(L)
        BY <1>1, ChainsGrow DEF L
    <2> QED BY <2>1, <1>2, <1>7, <1>8, <1>9 DEF Sessions, SameEntry
<1> QED BY <1>10, <1>11 DEF L, D, in, out, IsStep

Sound(s) == OneSending(s) /\ Rooted(s)

\* The session sends on as before, or on a chain of the new key f.
SendsOn(s, r, K, f) ==
    \/ /\ r.eph = s.eph /\ (CanEncrypt(r) <=> CanEncrypt(s))
       /\ CanEncrypt(s) => r.chains[r.eph] = s.chains[s.eph]
    \/ /\ r.eph = f /\ CanEncrypt(r)
       /\ \E x \in Seq(SUBSET K), e \in K : r.chains[f].seed = Append(x, {e, f})

ReceivesOn(s, r) ==
    \A k \in DOMAIN s.chains \ {s.eph} : k \in DOMAIN r.chains /\ k # r.eph /\ GrownTo(s.chains[k], r.chains[k])

\* How an attempt to read goes on from a session.
GoesOn(s, r, K, f) ==
    /\ r \in Sessions(K \cup {f}) /\ SameEntry(s, r)
    /\ r.pending => s.pending /\ r.pre = s.pre
    /\ Sound(s) => Sound(r) /\ r.root[2] = s.root[2]
    /\ SendsOn(s, r, K, f) /\ ReceivesOn(s, r)

\* So the session has gone on.
LEMMA SteppedGoesOn ==
    ASSUME NEW K, NEW f, f \notin K, NEW s \in Sessions(K), NEW m \in Messages(K), StepsRatchet(s, m)
    PROVE  GoesOn(s, Stepped(s, m, f), K, f)
<1> DEFINE r == Stepped(s, m, f)
           in == RootIn(s, m)
           out == RootOut(s, m, f)
<1>0. r \in Sessions(K \cup {f}) /\ IsStep(s, m, f, r)
    BY SteppedKeeps
<1>1. /\ r \in Sessions(K \cup {f}) /\ SameEntry(s, r) /\ r.pending = s.pending /\ r.pre = s.pre
      /\ r.eph = f /\ r.root = out
      /\ DOMAIN r.chains = (DOMAIN s.chains \ {s.eph}) \cup {m.eph, f}
      /\ \A k \in DOMAIN s.chains \ {s.eph} : k # f /\ k # m.eph /\ GrownTo(s.chains[k], r.chains[k])
      /\ r.chains[f] = NewChain(out, TRUE) /\ m.eph # f /\ r.chains[m.eph] = NewChain(in, FALSE)
    BY <1>0 DEF IsStep
<1>2. /\ s.root \in Seq(SUBSET K) /\ {m.eph, s.eph} \in SUBSET K /\ m.eph \in K /\ s.pending \in BOOLEAN
      /\ in \in Seq(SUBSET K)
    <2>1. s.root \in Seq(SUBSET K) /\ {m.eph, s.eph} \in SUBSET K /\ m.eph \in K /\ s.pending \in BOOLEAN
        BY DEF Sessions, Messages
    <2> QED BY <2>1, AppendProperties DEF RootIn
<1>3. /\ Len(in) = Len(s.root) + 1 /\ Len(out) = Len(s.root) + 2 /\ Len(s.root) \in Nat
      /\ Len(s.root) >= 2 => in[2] = s.root[2] /\ out[2] = s.root[2]
    <2> DEFINE K2 == K \cup {f}
    <2>1. in \in Seq(SUBSET K2) /\ {m.eph, f} \in SUBSET K2 /\ s.root \in Seq(SUBSET K2) /\ {m.eph, s.eph} \in SUBSET K2
        BY <1>2 DEF RootIn
    <2> HIDE DEF K2
    <2> QED BY <2>1 DEF RootIn, RootOut
<1> HIDE DEF r, in, out
<1>4. r.chains[f].seed = out /\ r.chains[f].sending /\ r.chains[m.eph].seed = in /\ ~r.chains[m.eph].sending
    BY <1>1 DEF NewChain
<1>5. ReceivesOn(s, r)
    BY <1>1 DEF ReceivesOn
<1>6. SendsOn(s, r, K, f)
    <2>1. CanEncrypt(r)
        BY <1>1, <1>4 DEF CanEncrypt, HasChain, Chain
    <2>2. r.chains[f].seed = Append(in, {m.eph, f})
        BY <1>4 DEF out, in, RootOut
    <2> QED BY <1>1, <1>2, <2>1, <2>2 DEF SendsOn
<1>7. ASSUME Sound(s) PROVE Sound(r) /\ r.root[2] = s.root[2]
    <2>1. OneSending(r)
        BY <1>1, <1>4, <1>7 DEF OneSending, Sound, GrownTo
    <2>2. \A k \in DOMAIN s.chains \ {s.eph} : r.chains[k].seed = s.chains[k].seed
        BY <1>1 DEF GrownTo
    <2>3. Rooted(r) /\ r.root[2] = s.root[2]
        <3>1. /\ Len(s.root) >= 2 /\ in[2] = s.root[2] /\ r.root[2] = s.root[2]
              /\ Len(r.root) = Len(s.root) + 2
            BY <1>1, <1>3, <1>7 DEF Rooted, Sound
        <3>2. ASSUME NEW k \in DOMAIN r.chains
              PROVE  LET seed == r.chains[k].seed
                     IN Len(seed) >= 2 /\ Len(seed) <= Len(r.root) /\ seed[2] = r.root[2]
            <4>1. CASE k = f \/ k = m.eph
                <5>1. r.chains[k].seed = in \/ r.chains[k].seed = out
                    BY <1>4, <4>1
                <5>2. r.root = out
                    BY <1>1
                <5> QED BY <1>3, <3>1, <5>1, <5>2
            <4>2. CASE k \in DOMAIN s.chains \ {s.eph}
                <5>1. /\ Len(s.chains[k].seed) >= 2 /\ Len(s.chains[k].seed) <= Len(s.root)
                      /\ s.chains[k].seed[2] = s.root[2] /\ Len(s.chains[k].seed) \in Nat
                    <6>1. s.chains[k].seed \in Seq(SUBSET K)
                        BY <4>2, ChainMapsDef DEF Sessions, Chains
                    <6> QED BY <6>1, <1>7, <4>2, LenProperties DEF Rooted, Sound
                <5> QED BY <5>1, <4>2, <2>2, <3>1, <1>3
            <4> QED BY <1>1, <4>1, <4>2
        <3> QED BY <3>1, <3>2, <1>3 DEF Rooted
    <2> QED BY <2>1, <2>3 DEF Sound
<1> QED BY <1>1, <1>2, <1>5, <1>6, <1>7 DEF GoesOn, r

\* A session that stays as it is has gone on.
LEMMA SelfGoesOn ==
    ASSUME NEW K, NEW f, NEW s \in Sessions(K) PROVE GoesOn(s, s, K, f)
<1>1. s \in Sessions(K \cup {f})
    BY ChainsGrow
<1>2. ReceivesOn(s, s)
    <2>1. s.chains \in ChainMaps(K)
        BY DEF Sessions
    <2> QED BY <2>1, ChainMapsDef, GrownSelf DEF ReceivesOn
<1>3. s.pending \in BOOLEAN /\ SendsOn(s, s, K, f) /\ SameEntry(s, s)
    BY DEF Sessions, SendsOn, SameEntry
<1> QED BY <1>1, <1>2, <1>3 DEF GoesOn


\* A chain grown twice has grown.
LEMMA GrownOn ==
    ASSUME NEW K, NEW b \in Chains(K), NEW c \in Chains(K), NEW d \in Chains(K), GrownTo(b, c), GrownTo(c, d)
    PROVE  GrownTo(b, d)
<1>1. /\ b.counter \in Int /\ c.counter \in Int /\ d.counter \in Int
      /\ b.keys \subseteq Nat /\ c.keys \subseteq Nat /\ d.keys \subseteq Nat
    BY DEF Chains
<1> QED BY <1>1 DEF GrownTo

\* A receiving chain may be filled, and keys taken out of it.
LEMMA TouchedGoesOn ==
    ASSUME NEW K, NEW f, NEW s \in Sessions(K), NEW r, GoesOn(s, r, K, f),
           NEW k \in DOMAIN r.chains, ~r.chains[k].sending,
           NEW d \in Chains(K \cup {f}), GrownTo(r.chains[k], d)
    PROVE  GoesOn(s, [r EXCEPT !.chains[k] = d], K, f)
<1> DEFINE L == K \cup {f}
           t == [r EXCEPT !.chains[k] = d]
<1>1. r \in Sessions(L) /\ r.chains \in ChainMaps(L) /\ d \in Chains(L)
    BY DEF GoesOn, Sessions
<1>2. /\ r.chains = [x \in DOMAIN r.chains |-> r.chains[x]] /\ DOMAIN r.chains \subseteq L
      /\ \A x \in DOMAIN r.chains : r.chains[x] \in Chains(L)
    BY <1>1, ChainMapsDef
<1> DEFINE chains == [r.chains EXCEPT ![k] = d]
<1>3. /\ DOMAIN chains = DOMAIN r.chains /\ chains = [x \in DOMAIN chains |-> chains[x]]
      /\ \A x \in DOMAIN r.chains : chains[x] = IF x = k THEN d ELSE r.chains[x]
    BY <1>2
<1>4. chains \in ChainMaps(L)
    <2> HIDE DEF chains
    <2> QED BY <1>1, <1>2, <1>3, ChainMapsDef
<1>5. t = [r EXCEPT !.chains = chains]
    BY <1>1 DEF Sessions
<1> HIDE DEF chains, t, L
<1>6. /\ t \in Sessions(L) /\ t.chains = chains /\ t.eph = r.eph /\ t.root = r.root
      /\ SameEntry(r, t) /\ t.pending = r.pending /\ t.pre = r.pre
    BY <1>1, <1>4, <1>5 DEF Sessions, SameEntry
<1>7. d.seed = r.chains[k].seed /\ ~d.sending
    BY DEF GrownTo
<1>8. \A x \in DOMAIN r.chains : chains[x].seed = r.chains[x].seed /\ chains[x].sending = r.chains[x].sending
    BY <1>3, <1>7, <1>2 DEF Chains, GrownTo
<1>9. Sound(r) => Sound(t)
    <2>1. OneSending(r) => OneSending(t)
        BY <1>3, <1>6, <1>8 DEF OneSending
    <2>2. Rooted(r) => Rooted(t)
        BY <1>3, <1>6, <1>8 DEF Rooted
    <2> QED BY <2>1, <2>2 DEF Sound
<1>10. /\ CanEncrypt(r) <=> CanEncrypt(t)
       /\ CanEncrypt(r) => t.chains[t.eph] = r.chains[r.eph]
    BY <1>3, <1>6, <1>8 DEF CanEncrypt, HasChain, Chain
<1>11. SendsOn(s, t, K, f)
    <2>1. CASE /\ r.eph = s.eph /\ (CanEncrypt(r) <=> CanEncrypt(s))
               /\ CanEncrypt(s) => r.chains[r.eph] = s.chains[s.eph]
        BY <2>1, <1>10, <1>6 DEF SendsOn
    <2>2. CASE /\ r.eph = f /\ CanEncrypt(r)
               /\ \E x \in Seq(SUBSET K), e \in K : r.chains[f].seed = Append(x, {e, f})
        BY <2>2, <1>10, <1>6 DEF SendsOn
    <2> QED BY <2>1, <2>2 DEF GoesOn, SendsOn
<1>12. ReceivesOn(s, t)
    <2> SUFFICES ASSUME NEW x \in DOMAIN s.chains \ {s.eph}
                 PROVE  x \in DOMAIN t.chains /\ x # t.eph /\ GrownTo(s.chains[x], t.chains[x])
        BY DEF ReceivesOn
    <2>1. x \in DOMAIN r.chains /\ x # r.eph /\ GrownTo(s.chains[x], r.chains[x])
        BY DEF GoesOn, ReceivesOn
    <2>2. s.chains[x] \in Chains(L)
        <3>1. s.chains[x] \in Chains(K)
            BY ChainMapsDef DEF Sessions
        <3> QED BY <3>1, ChainsGrow DEF L
    <2>3. CASE x = k
        BY <2>1, <2>2, <2>3, <1>1, <1>2, <1>3, <1>6, GrownOn
    <2>4. CASE x # k
        BY <2>1, <2>4, <1>3, <1>6
    <2> QED BY <2>3, <2>4
<1> QED BY <1>6, <1>9, <1>11, <1>12 DEF GoesOn, L, t, SameEntry

\* Dropping the pending pre-key goes on.
LEMMA DoneGoesOn ==
    ASSUME NEW K, NEW f, NEW s, NEW r, GoesOn(s, r, K, f)
    PROVE  GoesOn(s, [r EXCEPT !.pending = FALSE, !.pre = {}], K, f)
<1> DEFINE t == [r EXCEPT !.pending = FALSE, !.pre = {}]
<1>1. r \in Sessions(K \cup {f})
    BY DEF GoesOn
<1>2. /\ t \in Sessions(K \cup {f}) /\ t.chains = r.chains /\ t.eph = r.eph /\ t.root = r.root
      /\ SameEntry(r, t) /\ ~t.pending
    BY <1>1 DEF Sessions, SameEntry
<1> HIDE DEF t
<1>3. /\ Sound(r) => Sound(t)
      /\ CanEncrypt(r) <=> CanEncrypt(t)
      /\ SendsOn(s, r, K, f) => SendsOn(s, t, K, f)
      /\ ReceivesOn(s, r) => ReceivesOn(s, t)
    BY <1>2 DEF Sound, OneSending, Rooted, SendsOn, ReceivesOn, CanEncrypt, HasChain, Chain
<1> QED BY <1>2, <1>3 DEF GoesOn, SameEntry, t

\* A session goes on through maybeStepRatchet, whether it stepped or not.
LEMMA RatchetGoesOn ==
    ASSUME NEW K, NEW f, f \notin K, NEW s \in Sessions(K), NEW m \in Messages(K)
    PROVE  /\ GoesOn(s, AfterRatchet(s, m, f), K, f)
           /\ m.eph \in DOMAIN AfterRatchet(s, m, f).chains
           /\ StepsRatchet(s, m) => CanEncrypt(AfterRatchet(s, m, f))
<1>1. CASE StepsRatchet(s, m)
    <2> DEFINE r == Stepped(s, m, f)
    <2>1. GoesOn(s, r, K, f) /\ IsStep(s, m, f, r)
        BY <1>1, SteppedGoesOn, SteppedKeeps
    <2>2. AfterRatchet(s, m, f) = r
        BY <1>1 DEF AfterRatchet
    <2>3. m.eph \in DOMAIN r.chains /\ f \in DOMAIN r.chains /\ r.eph = f
        BY <2>1 DEF IsStep
    <2>4. r.chains[f].sending
        BY <2>1 DEF IsStep, NewChain
    <2>5. CanEncrypt(r)
        BY <2>3, <2>4 DEF CanEncrypt, HasChain, Chain
    <2> HIDE DEF r
    <2> QED BY <2>1, <2>2, <2>3, <2>5
<1>2. CASE ~StepsRatchet(s, m)
    <2>1. AfterRatchet(s, m, f) = s
        BY <1>2 DEF AfterRatchet
    <2> QED BY <1>2, <2>1, SelfGoesOn DEF StepsRatchet, HasChain
<1> QED BY <1>1, <1>2

\* A message key that is gone, or was never in the chain.
Spent(s, m) ==
    /\ m.eph \in DOMAIN s.chains
    /\ LET c == s.chains[m.eph]
       IN ~c.sending /\ c.seed = m.key[1] /\ m.ctr <= c.counter /\ m.ctr \notin c.keys

\* Taking a message key goes on, and the key is spent.
LEMMA TakenSpent ==
    ASSUME NEW K, NEW f, NEW s \in Sessions(K), NEW r, NEW m \in Messages(K), GoesOn(s, r, K, f),
           m.eph \in DOMAIN r.chains, KeyThere(r, m)
    PROVE  /\ GoesOn(s, KeyTaken(r, m), K, f)
           /\ Authentic(r, m) => Spent(KeyTaken(r, m), m)
<1> DEFINE L == K \cup {f}
           c == r.chains[m.eph]
           g == Filled(c, m.ctr)
           d == [g EXCEPT !.keys = g.keys \ {m.ctr}]
<1>1. r \in Sessions(L) /\ m.ctr \in Nat /\ m.key = <<m.key[1], m.key[2]>>
    BY DEF GoesOn, Messages
<1>2. c \in Chains(L) /\ r.chains = [x \in DOMAIN r.chains |-> r.chains[x]]
    BY <1>1, ChainMapsDef DEF Sessions
<1>3. g \in Chains(L) /\ GrownTo(c, g) /\ m.ctr <= g.counter
    BY <1>1, <1>2, FilledGrows
<1> HIDE DEF g, c, L
<1>4. d \in Chains(L) /\ GrownTo(c, d) /\ m.ctr <= d.counter /\ m.ctr \notin d.keys
    BY <1>3 DEF Chains, GrownTo
<1>5. ~c.sending
    BY DEF KeyThere, Chain, c
<1>6. KeyTaken(r, m) = [r EXCEPT !.chains[m.eph] = d]
    BY DEF KeyTaken, Chain, c, g, d
<1> HIDE DEF d
<1>7. GoesOn(s, KeyTaken(r, m), K, f)
    <2>1. ~r.chains[m.eph].sending /\ d \in Chains(K \cup {f}) /\ GrownTo(r.chains[m.eph], d)
        BY <1>4, <1>5 DEF c, L
    <2>2. GoesOn(s, [r EXCEPT !.chains[m.eph] = d], K, f)
        BY <2>1, TouchedGoesOn
    <2> QED BY <2>2, <1>6
<1>8. ASSUME Authentic(r, m) PROVE Spent(KeyTaken(r, m), m)
    <2>1. c.seed = m.key[1]
        BY <1>1, <1>8 DEF Authentic, Chain, c
    <2>2. KeyTaken(r, m).chains = [r.chains EXCEPT ![m.eph] = d]
        BY <1>1, <1>6 DEF Sessions
    <2>3. KeyTaken(r, m).chains[m.eph] = d /\ m.eph \in DOMAIN KeyTaken(r, m).chains
        BY <2>2, <1>2
    <2>4. d.seed = c.seed /\ ~d.sending
        BY <1>2, <1>4, <1>5 DEF GrownTo, Chains
    <2> QED BY <2>1, <2>3, <2>4, <1>4 DEF Spent
<1> QED BY <1>7, <1>8

\* doDecryptWhisperMessage goes on from a session, also where it throws half-way;
\* when it decrypts, the key of the message is spent.
LEMMA AttemptGoesOn ==
    ASSUME NEW K, NEW f, f \notin K, NEW s \in Sessions(K), NEW m \in Messages(K)
    PROVE  /\ GoesOn(s, AfterAttempt(s, m, f), K, f)
           /\ Decrypts(s, m, f) => Spent(AfterAttempt(s, m, f), m)
           /\ Decrypts(s, m, f) /\ StepsRatchet(s, m) => CanEncrypt(AfterAttempt(s, m, f))
<1>1. CASE RatchetThrows(s, m)
    BY <1>1, SelfGoesOn DEF AfterAttempt, Decrypts
<1>2. CASE ~RatchetThrows(s, m)
    <2> DEFINE r == AfterRatchet(s, m, f)
    <2>1. GoesOn(s, r, K, f) /\ m.eph \in DOMAIN r.chains /\ (StepsRatchet(s, m) => CanEncrypt(r))
        BY RatchetGoesOn
    <2> HIDE DEF r
    <2>2. r \in Sessions(K \cup {f}) /\ m.ctr \in Nat
        BY <2>1 DEF GoesOn, Messages
    <2>3. Decrypts(s, m, f) <=> KeyThere(r, m) /\ Authentic(r, m)
        BY <1>2 DEF Decrypts, r
    <2>4. CASE ~KeyThere(r, m)
        <3>1. CASE ~Chain(r, m.eph).sending /\ Fills(Chain(r, m.eph), m.ctr)
            <4> DEFINE d == Filled(r.chains[m.eph], m.ctr)
            <4>1. r.chains[m.eph] \in Chains(K \cup {f})
                BY <2>1, <2>2, ChainMapsDef DEF Sessions
            <4>2. d \in Chains(K \cup {f}) /\ GrownTo(r.chains[m.eph], d)
                BY <4>1, <2>2, FilledGrows
            <4>3. AfterAttempt(s, m, f) = [r EXCEPT !.chains[m.eph] = d]
                BY <1>2, <2>4, <3>1 DEF AfterAttempt, r
            <4>4. ~r.chains[m.eph].sending
                BY <3>1 DEF Chain
            <4> HIDE DEF d
            <4>5. GoesOn(s, [r EXCEPT !.chains[m.eph] = d], K, f)
                BY <2>1, <4>2, <4>4, TouchedGoesOn
            <4> QED BY <2>3, <2>4, <4>3, <4>5
        <3>2. CASE ~(~Chain(r, m.eph).sending /\ Fills(Chain(r, m.eph), m.ctr))
            BY <1>2, <2>1, <2>3, <2>4, <3>2 DEF AfterAttempt, r
        <3> QED BY <3>1, <3>2
    <2>5. CASE KeyThere(r, m) /\ ~Authentic(r, m)
        BY <1>2, <2>1, <2>3, <2>5, TakenSpent DEF AfterAttempt, r
    <2>6. CASE KeyThere(r, m) /\ Authentic(r, m)
        <3> DEFINE t == KeyTaken(r, m)
                   u == [t EXCEPT !.pending = FALSE, !.pre = {}]
        <3>1. GoesOn(s, t, K, f) /\ Spent(t, m)
            BY <2>1, <2>6, TakenSpent
        <3>2. AfterAttempt(s, m, f) = u
            BY <1>2, <2>6 DEF AfterAttempt, r
        <3>3. GoesOn(s, u, K, f)
            BY <3>1, DoneGoesOn
        <3>4. t \in Sessions(K \cup {f})
            BY <3>1 DEF GoesOn
        <3> HIDE DEF t
        <3>5. u.chains = t.chains /\ u.eph = t.eph
            BY <3>4 DEF Sessions
        <3> HIDE DEF u
        <3>6. Spent(u, m)
            BY <3>1, <3>5 DEF Spent
        <3>7. StepsRatchet(s, m) => CanEncrypt(u)
            <4> SUFFICES ASSUME StepsRatchet(s, m) PROVE CanEncrypt(u)
                OBVIOUS
            <4>1. r = Stepped(s, m, f) /\ IsStep(s, m, f, Stepped(s, m, f))
                BY SteppedKeeps DEF r, AfterRatchet
            <4>2. r.eph = f /\ f # m.eph /\ CanEncrypt(r)
                BY <2>1, <4>1 DEF IsStep
            <4>3. t.chains[f] = r.chains[f] /\ f \in DOMAIN t.chains /\ t.eph = f
                BY <2>2, <4>2, ChainMapsDef DEF t, KeyTaken, Sessions, CanEncrypt, HasChain
            <4> QED BY <3>5, <4>2, <4>3 DEF CanEncrypt, HasChain, Chain
        <3> QED BY <3>2, <3>3, <3>6, <3>7
    <2> QED BY <2>4, <2>5, <2>6
<1> QED BY <1>1, <1>2

\* There are two devices, each the other of the other.
LEMMA OtherIs ==
    ASSUME NEW p \in Peers
    PROVE  Other(p) \in Peers /\ Other(p) # p /\ Other(Other(p)) = p /\ Peers = {p, Other(p)}
<1>1. PICK a \in Peers, b \in Peers : a # b /\ Peers = {a, b}
    BY ConversationAssumption
<1>2. \A x \in Peers : Other(x) \in Peers /\ Other(x) # x
    <2> SUFFICES ASSUME NEW x \in Peers PROVE Other(x) \in Peers /\ Other(x) # x
        OBVIOUS
    <2>1. \E q \in Peers : q # x
        BY <1>1
    <2> QED BY <2>1 DEF Other
<1> HIDE DEF Other
<1> QED BY <1>1, <1>2

\* The names a key can have, and those given out so far.
Names == Peers \X {"identity", "signed", "pre", "fresh"} \X Nat \X Nat
Known == {k \in Names : k[2] = "fresh" => k[3] < fresh[k[1]]}

\* A key generated now is none of those generated before.
LEMMA FreshIsNew ==
    ASSUME fresh \in [Peers -> Nat], NEW p \in Peers
    PROVE  /\ \A i \in Nat : Fresh(p, i) \notin Known /\ Fresh(p, i) \in Names
           /\ \A i, k \in Nat : Fresh(p, i) = Fresh(p, k) => i = k
           /\ \A i \in Nat : Fresh(p, i)[2] = "fresh"
           /\ NewKeys(p) => /\ fresh' \in [Peers -> Nat] /\ Known \subseteq Known'
                            /\ \A i \in Nat : Fresh(p, i) \in Known'
BY DEF Fresh, Known, Names, NewKeys

\* Identity, signed pre-key and pre-keys are known from the start.
LEMMA LastingNames ==
    ASSUME NEW p \in Peers
    PROVE  /\ Identity(p) \in Known /\ Signed(p) \in Known
           /\ \A i \in Nat : PreKey(p, i) \in Known /\ PreKey(p, i)[2] = "pre"
           /\ Identity(p)[2] = "identity" /\ Signed(p)[2] = "signed"
BY DEF Identity, Signed, PreKey, Known, Names

\* A session of a record: it can send, and its second agreement is that of
\* its base key with an identity.
Good(K, s) ==
    /\ s \in Sessions(K) /\ CanEncrypt(s) /\ Sound(s)
    /\ s.base[2] = "fresh" /\ \E x \in Peers : s.root[2] = {Identity(x), s.base}

\* A message some session has put out.
Posted(K, m) ==
    /\ m \in Messages(K) /\ m.key[2] = m.ctr
    /\ m.pkmsg => \E b \in K : b[2] = "fresh" /\ m.base = {b}

SendSeed(s) == s.chains[s.eph].seed
SendCounter(s) == s.chains[s.eph].counter

\* A sending chain derived with the new key f.
NewSeed(s, K, L, f) == \E x \in Seq(SUBSET L), e \in K : SendSeed(s) = Append(x, {e, f})

\* How a stored session goes on.
Continues(s, r, K, L, f) ==
    /\ Good(L, r) /\ r.base = s.base /\ r.root[2] = s.root[2]
    /\ r.pending => s.pending /\ r.pre = s.pre
    /\ ReceivesOn(s, r)
    /\ \/ SendSeed(r) = SendSeed(s) /\ SendCounter(s) <= SendCounter(r)
       \/ NewSeed(r, K, L, f)

SendsTyped(K, s) == SendCounter(s) \in Int /\ SendSeed(s) \in Seq(SUBSET K)

\* The sending chain of a good session has a counter and a seed.
LEMMA CounterIsInt ==
    ASSUME NEW K, NEW s, Good(K, s)
    PROVE  SendsTyped(K, s)
<1>1. s.chains[s.eph] \in Chains(K)
    BY ChainMapsDef DEF Good, Sessions, CanEncrypt, HasChain
<1> QED BY <1>1 DEF Chains, SendCounter, SendSeed, SendsTyped

\* An attempt that goes on from a good session gives a good one.
LEMMA GoesOnContinues ==
    ASSUME NEW K, NEW L, NEW f, f \notin K, K \cup {f} \subseteq L, NEW s, NEW r,
           Good(K, s), GoesOn(s, r, K, f)
    PROVE  Continues(s, r, K, L, f)
<1>1. r \in Sessions(L)
    BY ChainsGrow DEF GoesOn
<1>2. CanEncrypt(r)
    BY DEF GoesOn, SendsOn, Good
<1>3. Good(L, r)
    BY <1>1, <1>2 DEF Good, GoesOn, SameEntry
<1>4. \/ SendSeed(r) = SendSeed(s) /\ SendCounter(s) <= SendCounter(r)
      \/ NewSeed(r, K, L, f)
    <2>1. CASE r.eph = s.eph /\ r.chains[r.eph] = s.chains[s.eph]
        <3>1. SendSeed(r) = SendSeed(s) /\ SendCounter(s) = SendCounter(r)
            BY <2>1 DEF SendSeed, SendCounter
        <3>2. SendCounter(s) \in Int
            BY CounterIsInt DEF SendsTyped
        <3> QED BY <3>1, <3>2
    <2>2. CASE r.eph = f /\ \E x \in Seq(SUBSET K), e \in K : r.chains[f].seed = Append(x, {e, f})
        <3>1. PICK x \in Seq(SUBSET K), e \in K : r.chains[f].seed = Append(x, {e, f})
            BY <2>2
        <3>2. x \in Seq(SUBSET L)
            OBVIOUS
        <3>3. SendSeed(r) = Append(x, {e, f})
            BY <3>1, <2>2 DEF SendSeed
        <3> QED BY <3>2, <3>3 DEF NewSeed
    <2> QED BY <2>1, <2>2, <1>2 DEF GoesOn, SendsOn, Good
<1> QED BY <1>3, <1>4 DEF Continues, GoesOn, SameEntry, Good

\* Two entries that differ in their times at most.
SameKeys(r, t) ==
    /\ t.base = r.base /\ t.root = r.root /\ t.eph = r.eph
    /\ t.chains = r.chains /\ t.pending = r.pending /\ t.pre = r.pre

\* A good session stays good when only its times change.
LEMMA SameKeysGood ==
    ASSUME NEW L, NEW r, NEW t, SameKeys(r, t), t \in Sessions(L), Good(L, r)
    PROVE  Good(L, t)
BY DEF SameKeys, Good, CanEncrypt, HasChain, Chain, Sound, OneSending, Rooted

\* And it still goes on from the session it went on from.
LEMMA SameKeysContinue ==
    ASSUME NEW K, NEW L, NEW f, NEW s, NEW r, NEW t, Continues(s, r, K, L, f),
           SameKeys(r, t), t \in Sessions(L)
    PROVE  Continues(s, t, K, L, f)
<1>1. Good(L, t)
    BY SameKeysGood DEF Continues
<1> QED BY <1>1 DEF Continues, SameKeys, ReceivesOn, SendSeed, SendCounter, NewSeed

\* A session that stays as it is continues.
LEMMA SelfContinues ==
    ASSUME NEW K, NEW L, K \subseteq L, NEW f, NEW s, Good(K, s)
    PROVE  Continues(s, s, K, L, f)
<1>1. s \in Sessions(L)
    BY ChainsGrow DEF Good
<1>2. ReceivesOn(s, s)
    BY SelfGoesOn DEF GoesOn, Good
<1>3. SendCounter(s) \in Int
    BY CounterIsInt DEF SendsTyped
<1> QED BY <1>1, <1>2, <1>3 DEF Continues, Good

\* Any later attempt leaves a spent key spent.
LEMMA SpentStays ==
    ASSUME NEW K, NEW L, NEW s, NEW r \in Sessions(L), NEW m \in Messages(K),
           Good(K, s), ReceivesOn(s, r), Spent(s, m)
    PROVE  Spent(r, m)
<1>1. m.eph # s.eph /\ m.eph \in DOMAIN s.chains
    BY DEF Good, CanEncrypt, HasChain, Chain, Spent
<1>2. m.eph \in DOMAIN r.chains /\ GrownTo(s.chains[m.eph], r.chains[m.eph])
    BY <1>1 DEF ReceivesOn
<1>3. s.chains[m.eph].counter \in Int /\ r.chains[m.eph].counter \in Int /\ m.ctr \in Nat
    <2>1. s.chains[m.eph] \in Chains(K) /\ r.chains[m.eph] \in Chains(L)
        BY <1>1, <1>2, ChainMapsDef DEF Good, Sessions
    <2>2. s.chains[m.eph].counter \in Int /\ r.chains[m.eph].counter \in Int
        BY <2>1 DEF Chains
    <2>3. m.ctr \in Nat
        BY DEF Messages
    <2> QED BY <2>2, <2>3
<1>4. ~r.chains[m.eph].sending /\ r.chains[m.eph].seed = m.key[1]
    BY <1>2 DEF GrownTo, Spent
<1> QED BY <1>1, <1>2, <1>3, <1>4 DEF GrownTo, Spent

\* What was read with a spent key cannot be read again.
LEMMA SpentUnreadable ==
    ASSUME NEW s, NEW m, NEW f, Spent(s, m)
    PROVE  ~Decrypts(s, m, f)
<1>1. AfterRatchet(s, m, f) = s
    BY DEF Spent, AfterRatchet, StepsRatchet, HasChain
<1>2. Filled(s.chains[m.eph], m.ctr) = s.chains[m.eph]
    BY DEF Spent, Filled
<1> QED BY <1>1, <1>2 DEF Decrypts, KeyThere, Chain, Spent

\* A session decrypts only messages of a chain with its own root.
LEMMA DecryptsOwnRoot ==
    ASSUME NEW K, NEW f, f \notin K, NEW s \in Sessions(K), Sound(s), NEW m \in Messages(K), Decrypts(s, m, f)
    PROVE  m.key[1][2] = s.root[2]
<1> DEFINE r == AfterAttempt(s, m, f)
<1>1. GoesOn(s, r, K, f) /\ Spent(r, m)
    BY AttemptGoesOn
<1> HIDE DEF r
<1> QED BY <1>1 DEF GoesOn, Sound, Rooted, Spent

\* Encrypting goes on with the same chain.
LEMMA EncryptedContinues ==
    ASSUME NEW K, NEW f, NEW s, Good(K, s)
    PROVE  /\ Continues(s, Encrypted(s), K, K, f)
           /\ SendSeed(Encrypted(s)) = SendSeed(s) /\ SendCounter(Encrypted(s)) = SendCounter(s) + 1
<1> DEFINE c == s.chains[s.eph]
           d == [c EXCEPT !.counter = c.counter + 1]
           chains == [s.chains EXCEPT ![s.eph] = d]
           r == [s EXCEPT !.chains = chains]
<1>1. /\ s \in Sessions(K) /\ s.chains \in ChainMaps(K) /\ s.eph \in DOMAIN s.chains /\ c.sending
    BY DEF Good, CanEncrypt, HasChain, Chain, Sessions
<1>2. /\ s.chains = [k \in DOMAIN s.chains |-> s.chains[k]] /\ DOMAIN s.chains \subseteq K
      /\ \A k \in DOMAIN s.chains : s.chains[k] \in Chains(K)
    BY <1>1, ChainMapsDef
<1>3. /\ d \in Chains(K) /\ d.seed = c.seed /\ d.sending /\ d.counter = c.counter + 1
    <2>1. c \in Chains(K)
        BY <1>1, <1>2
    <2> HIDE DEF c
    <2> QED BY <1>1, <2>1 DEF Chains
<1>4. Encrypted(s) = r
    BY <1>1, <1>2 DEF Encrypted
<1>5. /\ DOMAIN chains = DOMAIN s.chains /\ chains = [k \in DOMAIN chains |-> chains[k]]
      /\ \A k \in DOMAIN s.chains : chains[k] = IF k = s.eph THEN d ELSE s.chains[k]
    BY <1>2
<1> HIDE DEF chains, d, c
<1>6. chains \in ChainMaps(K)
    BY <1>2, <1>3, <1>5, ChainMapsDef
<1>7. r \in Sessions(K) /\ r.chains = chains /\ r.eph = s.eph /\ r.base = s.base /\ r.root = s.root
      /\ r.pending = s.pending /\ r.pre = s.pre
    BY <1>1, <1>6 DEF Sessions
<1> HIDE DEF r
<1>8. \A k \in DOMAIN s.chains : chains[k].seed = s.chains[k].seed /\ chains[k].sending = s.chains[k].sending
    <2> SUFFICES ASSUME NEW k \in DOMAIN s.chains
                 PROVE  chains[k].seed = s.chains[k].seed /\ chains[k].sending = s.chains[k].sending
        OBVIOUS
    <2>1. CASE k = s.eph
        <3>1. chains[k] = d /\ s.chains[k] = c
            BY <1>1, <1>5, <2>1 DEF c
        <3> QED BY <3>1, <1>1, <1>2, <1>3 DEF Chains
    <2>2. CASE k # s.eph
        BY <2>2, <1>5
    <2> QED BY <2>1, <2>2
<1>9. Sound(r)
    <2>1. OneSending(s) /\ Rooted(s)
        BY DEF Good, Sound
    <2>2. OneSending(r)
        BY <1>5, <1>7, <1>8, <2>1 DEF OneSending
    <2>3. Rooted(r)
        BY <1>5, <1>7, <1>8, <2>1 DEF Rooted
    <2> QED BY <2>2, <2>3 DEF Sound
<1>10. CanEncrypt(r)
    BY <1>1, <1>3, <1>5, <1>7 DEF CanEncrypt, HasChain, Chain
<1>11. ReceivesOn(s, r)
    BY <1>2, <1>5, <1>7, GrownSelf DEF ReceivesOn
<1>12. SendSeed(r) = SendSeed(s) /\ SendCounter(r) = SendCounter(s) + 1
    BY <1>1, <1>3, <1>5, <1>7 DEF SendSeed, SendCounter, c
<1>13. SendCounter(s) <= SendCounter(r)
    <2>1. SendCounter(s) \in Int
        BY CounterIsInt DEF SendsTyped
    <2> QED BY <1>12, <2>1
<1> QED BY <1>4, <1>7, <1>9, <1>10, <1>11, <1>12, <1>13 DEF Good, Continues

\* An element of a concatenation.
LEMMA AtConcat ==
    ASSUME NEW S, NEW a \in Seq(S), NEW b \in Seq(S), NEW i \in 1 .. Len(a)
    PROVE  (a \o b)[i] = a[i]
OBVIOUS

\* The second agreement of the master key is in the first part of it.
LEMMA SecondOfConcat ==
    ASSUME NEW S, NEW a \in Seq(S), NEW b \in Seq(S), Len(a) = 3
    PROVE  a \o b \in Seq(S) /\ Len(a \o b) = 3 + Len(b) /\ (a \o b)[2] = a[2]
<1>1. a \o b \in Seq(S)
    BY ConcatProperties
<1>2. Len(a \o b) = Len(a) + Len(b)
    BY ConcatProperties
<1>3. (a \o b)[2] = a[2]
    <2> DEFINE n == 2
    <2>1. n \in 1 .. Len(a)
        OBVIOUS
    <2> HIDE DEF n
    <2>2. (a \o b)[n] = a[n]
        BY <2>1, AtConcat
    <2> QED BY <2>2 DEF n
<1> QED BY <1>1, <1>2, <1>3

\* The session InitOutgoing puts in.
IsInitiator(s, p, q, pre, base, eph, now) ==
    s = Initiator(Identity(p), [identity |-> Identity(q), signed |-> Signed(q), pre |-> pre], base, eph, now)

\* The session initOutgoing puts in.
LEMMA InitiatorIsGood ==
    ASSUME fresh \in [Peers -> Nat], NEW p \in Peers, NewKeys(p), NEW q \in Peers, NEW i \in Nat, NEW now \in Int,
           NEW pre \in SUBSET Known, i # 0,
           NEW s, IsInitiator(s, p, q, pre, Fresh(p, 0), Fresh(p, i), now)
    PROVE  /\ Good(Known', s) /\ NewSeed(s, Known, Known', Fresh(p, i))
           /\ s.base = Fresh(p, 0) /\ s.pre = pre /\ s.pending
<1> DEFINE L == Known'
           me == Identity(p)
           them == Identity(q)
           signed == Signed(q)
           base == Fresh(p, 0)
           eph == Fresh(p, i)
           first == <<Agree(signed, me), Agree(them, base), Agree(signed, base)>>
           last == IF pre = {} THEN <<>> ELSE <<{base} \cup pre>>
           master == first \o last
           root == Append(master, Agree(signed, eph))
           chain == NewChain(root, TRUE)
<1>1. /\ Known \subseteq L /\ me \in L /\ them \in L /\ signed \in Known /\ base \in L /\ eph \in L /\ pre \subseteq L
      /\ base[2] = "fresh" /\ base # eph
    BY FreshIsNew, LastingNames
<1> HIDE DEF L, me, them, signed, base, eph
<1>2. first \in Seq(SUBSET L) /\ Len(first) = 3 /\ first[2] = {them, base}
    BY <1>1 DEF Agree
<1>3. last \in Seq(SUBSET L) /\ Len(last) \in Nat
    <2>1. {base} \cup pre \in SUBSET L
        BY <1>1
    <2>2. CASE pre = {}
        BY <2>2
    <2>3. CASE pre # {}
        <3>1. last = <<{base} \cup pre>>
            BY <2>3
        <3> HIDE DEF last
        <3> QED BY <2>1, <3>1
    <2> QED BY <2>2, <2>3
<1> HIDE DEF first, last
<1>4. master \in Seq(SUBSET L) /\ Len(master) = 3 + Len(last) /\ master[2] = {them, base}
    BY <1>2, <1>3, SecondOfConcat
<1>5. /\ s = [base |-> base, ours |-> TRUE, root |-> root, eph |-> eph, remote |-> signed, prev |-> 0,
              chains |-> [k \in {eph} |-> chain],
              pending |-> TRUE, pre |-> pre, closed |-> -1, used |-> now]
    BY DEF IsInitiator, Initiator, MasterOut, first, last, me, them, signed, base, eph
<1> HIDE DEF master
<1>6. /\ root \in Seq(SUBSET L) /\ Len(root) = 4 + Len(last) /\ root[2] = {them, base}
      /\ Agree(signed, eph) \in SUBSET L
    <2>1. Agree(signed, eph) \in SUBSET L /\ Agree(signed, eph) = {signed, eph}
        BY <1>1 DEF Agree
    <2> QED BY <1>3, <1>4, <2>1, AppendProperties
<1> HIDE DEF root
<1>7. chain \in Chains(L) /\ chain.seed = root /\ chain.sending /\ chain.counter = -1
    BY <1>6 DEF NewChain, Chains
<1> HIDE DEF chain
<1>8. s.chains = [k \in {eph} |-> chain] /\ s.eph = eph /\ s.root = root /\ s.base = base /\ s.pre = pre /\ s.pending
    BY <1>5
<1>9. s.chains \in ChainMaps(L)
    BY <1>1, <1>7, <1>8, ChainMapsDef
<1>10. s \in Sessions(L)
    <2> DEFINE chains == [k \in {eph} |-> chain]
    <2>1. signed \in L /\ chains \in ChainMaps(L)
        BY <1>1, <1>8, <1>9
    <2>2. s = [base |-> base, ours |-> TRUE, root |-> root, eph |-> eph, remote |-> signed, prev |-> 0,
               chains |-> chains, pending |-> TRUE, pre |-> pre, closed |-> -1, used |-> now]
        BY <1>5
    <2> HIDE DEF chains
    <2>3. pre \in SUBSET L /\ now \in Int /\ base \in L /\ eph \in L
        BY <1>1
    <2>4. root \in Seq(SUBSET L) /\ signed \in L /\ chains \in ChainMaps(L)
        BY <1>6, <2>1
    <2> QED BY <2>2, <2>3, <2>4 DEF Sessions
<1>11. CanEncrypt(s) /\ Sound(s)
    BY <1>3, <1>6, <1>7, <1>8 DEF CanEncrypt, HasChain, Chain, Sound, OneSending, Rooted
<1>12. SendSeed(s) = root /\ SendCounter(s) = -1
    BY <1>7, <1>8 DEF SendSeed, SendCounter
<1>13. NewSeed(s, Known, L, eph)
    BY <1>1, <1>4, <1>12 DEF NewSeed, root, Agree
<1>14. s.root[2] = {Identity(q), s.base} /\ s.base[2] = "fresh"
    BY <1>1, <1>6, <1>8 DEF them
<1> QED BY <1>8, <1>10, <1>11, <1>12, <1>13, <1>14 DEF Good, L, me, them, signed, base, eph

\* The session initIncoming builds, before its first message.
IsResponder(s, p, q, pre, base, now) == s = Responder(Identity(p), Signed(p), pre, Identity(q), base, now)

\* The session initIncoming builds, before the first message steps its ratchet.
LEMMA ResponderIsSound ==
    ASSUME NEW p \in Peers, NEW q \in Peers, NEW now \in Int,
           NEW pre \in SUBSET Known, NEW base \in Known,
           NEW s, IsResponder(s, p, q, pre, base, now)
    PROVE  /\ s \in Sessions(Known) /\ Sound(s) /\ s.chains = [k \in {} |-> NewChain(<<>>, TRUE)]
           /\ s.base = base /\ s.root[2] = {Identity(p), base} /\ ~s.pending
<1> DEFINE K == Known
           me == Identity(p)
           signed == Signed(p)
           them == Identity(q)
           first == <<Agree(them, signed), Agree(base, me), Agree(base, signed)>>
           last == IF pre = {} THEN <<>> ELSE <<{base} \cup pre>>
           root == first \o last
<1>1. me \in K /\ them \in K /\ signed \in K /\ base \in K /\ pre \subseteq K
    BY LastingNames
<1> HIDE DEF K, me, them, signed
<1>2. first \in Seq(SUBSET K) /\ Len(first) = 3 /\ first[2] = {me, base}
    BY <1>1 DEF Agree
<1>3. last \in Seq(SUBSET K) /\ Len(last) \in Nat
    <2>1. {base} \cup pre \in SUBSET K
        BY <1>1
    <2>2. CASE pre = {}
        BY <2>2
    <2>3. CASE pre # {}
        <3>1. last = <<{base} \cup pre>>
            BY <2>3
        <3> HIDE DEF last
        <3> QED BY <2>1, <3>1
    <2> QED BY <2>2, <2>3
<1> HIDE DEF first, last
<1>4. root \in Seq(SUBSET K) /\ Len(root) = 3 + Len(last) /\ root[2] = {me, base}
    BY <1>2, <1>3, SecondOfConcat
<1>5. s = [base |-> base, ours |-> FALSE, root |-> root, eph |-> signed, remote |-> base, prev |-> 0,
           chains |-> [k \in {} |-> NewChain(<<>>, TRUE)],
           pending |-> FALSE, pre |-> {}, closed |-> -1, used |-> now]
    BY DEF IsResponder, Responder, MasterIn, first, last, me, them, signed
<1> HIDE DEF root
<1>6. [k \in {} |-> NewChain(<<>>, TRUE)] \in ChainMaps(K)
    BY ChainMapsDef
<1>7. s \in Sessions(K) /\ s.root = root /\ s.chains = [k \in {} |-> NewChain(<<>>, TRUE)] /\ s.base = base
      /\ ~s.pending
    BY <1>1, <1>4, <1>5, <1>6 DEF Sessions
<1>8. Sound(s)
    BY <1>3, <1>4, <1>7 DEF Sound, OneSending, Rooted
<1> QED BY <1>4, <1>7, <1>8 DEF K, me, signed, them

\* The session DecryptPreKeyNew stores.
LEMMA BuiltIsGood ==
    ASSUME fresh \in [Peers -> Nat], NEW p \in Peers, NewKeys(p), NEW q \in Peers, NEW now \in Int, NEW i \in Nat,
           NEW pre \in SUBSET Known, NEW base \in Known, base[2] = "fresh", NEW m \in Messages(Known),
           NEW s, IsResponder(s, p, q, pre, base, now),
           Decrypts(s, m, Fresh(p, i)), NEW r, r = AfterAttempt(s, m, Fresh(p, i))
    PROVE  Good(Known', r) /\ NewSeed(r, Known, Known', Fresh(p, i)) /\ Spent(r, m) /\ r.base = base /\ ~r.pending
<1> DEFINE f == Fresh(p, i)
<1>1. /\ s \in Sessions(Known) /\ Sound(s) /\ s.chains = [k \in {} |-> NewChain(<<>>, TRUE)]
      /\ s.base = base /\ s.root[2] = {Identity(p), base} /\ ~s.pending
    BY ResponderIsSound
<1>2. f \notin Known /\ f \in Known' /\ Known \subseteq Known'
    BY FreshIsNew
<1> HIDE DEF f
<1>3. StepsRatchet(s, m) /\ ~CanEncrypt(s)
    BY <1>1 DEF StepsRatchet, HasChain, CanEncrypt
<1>4. GoesOn(s, r, Known, f) /\ Spent(r, m) /\ CanEncrypt(r)
    BY <1>1, <1>2, <1>3, AttemptGoesOn DEF f
<1>5. r \in Sessions(Known') /\ Sound(r) /\ r.root[2] = {Identity(p), base} /\ r.base = base /\ ~r.pending
    <2>1. Sessions(Known \cup {f}) \subseteq Sessions(Known')
        BY <1>2, ChainsGrow
    <2> QED BY <1>1, <1>4, <2>1 DEF GoesOn, SameEntry
<1>6. NewSeed(r, Known, Known', f)
    <2>1. PICK x \in Seq(SUBSET Known), e \in Known : r.eph = f /\ r.chains[f].seed = Append(x, {e, f})
        BY <1>3, <1>4 DEF GoesOn, SendsOn
    <2>2. x \in Seq(SUBSET Known')
        BY <1>2
    <2> QED BY <2>1, <2>2 DEF NewSeed, SendSeed
<1> QED BY <1>4, <1>5, <1>6 DEF Good, f

PostedSet(K) == {m \in Messages(K) : Posted(K, m)}

JobTypes(K) ==
    {Idle} \cup [op : {"send"}, msg : PostedSet(K)] \cup [op : {"read"}, msg : PostedSet(K), pre : SUBSET K]

IsMap(f) == f = [x \in DOMAIN f |-> f[x]]

Typed ==
    /\ opened \in [Peers -> Nat] /\ clock \in [Peers -> Nat] /\ fresh \in [Peers -> Nat]
    /\ preKeys \in [Peers -> SUBSET Known] /\ stock \in [Peers -> SUBSET Known]
    /\ job \in [Peers -> JobTypes(Known)]
    /\ wire \subseteq PostedSet(Known) /\ IsFiniteSet(wire)
    /\ read \in [Peers -> SUBSET wire]
    /\ IsMap(record) /\ DOMAIN record = Peers
    /\ \A p \in Peers :
          /\ IsMap(record[p]) /\ DOMAIN record[p] \subseteq 1 .. opened[p]
          /\ \A i \in DOMAIN record[p] : Good(Known, record[p][i])

\* How entry i of p's record goes on in a step.
Goes(p, i) ==
    \/ /\ i \in DOMAIN record[p]
       /\ Continues(record[p][i], record'[p][i], Known, Known', Fresh(p, i))
    \/ /\ i \notin DOMAIN record[p] /\ Good(Known', record'[p][i])
       /\ NewSeed(record'[p][i], Known, Known', Fresh(p, i))

\* Where the record is small enough no session is removed.
NoneRemoved == MaxSessions \in 0 .. ClosedMax /\ \A p \in Peers : opened[p] <= MaxSessions

RecordGoesOn(p) ==
    /\ IsMap(record') /\ DOMAIN record' = Peers
    /\ \A q \in Peers \ {p} : record'[q] = record[q] /\ opened'[q] = opened[q]
    /\ IsMap(record'[p]) /\ DOMAIN record'[p] \subseteq 1 .. opened'[p]
    /\ \A i \in DOMAIN record'[p] : Goes(p, i)
    /\ NoneRemoved => DOMAIN record[p] \subseteq DOMAIN record'[p] /\ opened'[p] <= MaxSessions

\* Good sessions, messages and jobs stay so when keys are generated.
LEMMA GoodGrows ==
    ASSUME NEW K, NEW L, K \subseteq L
    PROVE  /\ \A s : Good(K, s) => Good(L, s)
           /\ PostedSet(K) \subseteq PostedSet(L) /\ JobTypes(K) \subseteq JobTypes(L)
<1>1. \A s : Good(K, s) => Good(L, s)
    BY ChainsGrow DEF Good
<1>2. PostedSet(K) \subseteq PostedSet(L)
    BY ChainsGrow DEF PostedSet, Posted
<1>3. JobTypes(K) \subseteq JobTypes(L)
    BY <1>2 DEF JobTypes
<1> QED BY <1>1, <1>2, <1>3

\* The records after a step in which one of them goes on.
LEMMA RecordTyped ==
    ASSUME Typed, Known \subseteq Known', NEW p \in Peers, RecordGoesOn(p), opened' \in [Peers -> Nat]
    PROVE  /\ IsMap(record') /\ DOMAIN record' = Peers
           /\ \A q \in Peers :
                 /\ IsMap(record'[q]) /\ DOMAIN record'[q] \subseteq 1 .. opened'[q]
                 /\ \A i \in DOMAIN record'[q] : Good(Known', record'[q][i])
<1> SUFFICES ASSUME NEW q \in Peers
             PROVE  /\ IsMap(record'[q]) /\ DOMAIN record'[q] \subseteq 1 .. opened'[q]
                    /\ \A i \in DOMAIN record'[q] : Good(Known', record'[q][i])
    BY DEF RecordGoesOn
<1>1. CASE q = p
    BY <1>1 DEF RecordGoesOn, Goes, Continues
<1>2. CASE q # p
    <2>1. record'[q] = record[q] /\ opened'[q] = opened[q]
        BY <1>2 DEF RecordGoesOn
    <2>2. \A i \in DOMAIN record[q] : Good(Known', record[q][i])
        BY GoodGrows DEF Typed
    <2> QED BY <2>1, <2>2 DEF Typed
<1> QED BY <1>1, <1>2

\* What a save leaves of the record it is given.
SaveOf(p, rec) ==
    /\ IsMap(record') /\ DOMAIN record' = Peers
    /\ \A q \in Peers \ {p} : record'[q] = record[q]
    /\ IsMap(record'[p]) /\ DOMAIN record'[p] \subseteq DOMAIN rec
    /\ \A i \in DOMAIN record'[p] : record'[p][i] = rec[i]
    /\ \A n \in 0 .. ClosedMax : DOMAIN rec \subseteq 1 .. n => DOMAIN record'[p] = DOMAIN rec

\* What storeRecord leaves of a record; nothing is removed from a small one.
LEMMA SaveIs ==
    ASSUME NEW p \in Peers, IsMap(record), DOMAIN record = Peers, NEW rec, Save(p, rec)
    PROVE  SaveOf(p, rec)
<1>1. PICK kept \in Kept(rec) : record' = [record EXCEPT ![p] = KeepOnly(rec, kept)]
    BY DEF Save
<1>2. kept \subseteq DOMAIN rec /\ Leaves(rec, kept)
    BY DEF Kept
<1> DEFINE new == KeepOnly(rec, kept)
<1>3. IsMap(new) /\ DOMAIN new = kept /\ \A i \in kept : new[i] = rec[i]
    BY DEF KeepOnly, IsMap
<1> HIDE DEF new
<1>4. record'[p] = new /\ IsMap(record') /\ DOMAIN record' = Peers /\ \A q \in Peers \ {p} : record'[q] = record[q]
    BY <1>1 DEF IsMap, new
<1>5. ASSUME NEW n \in 0 .. ClosedMax, DOMAIN rec \subseteq 1 .. n
      PROVE  DOMAIN record'[p] = DOMAIN rec
    <2>1. n \in Nat /\ ClosedMax \in Nat /\ n <= ClosedMax
        BY SessionRecordAssumption
    <2>2. IsFiniteSet(1 .. n) /\ Cardinality(1 .. n) = n
        BY <2>1, FS_Interval
    <2>3. Cardinality(DOMAIN rec) \in Nat /\ Cardinality(DOMAIN rec) <= n
        BY <1>5, <2>2, FS_Subset, FS_CardinalityType
    <2>4. Cardinality(DOMAIN rec) <= ClosedMax
        BY <2>1, <2>3
    <2> QED BY <1>2, <1>3, <1>4, <2>4 DEF Leaves
<1> QED BY <1>2, <1>3, <1>4, <1>5 DEF SaveOf

\* The message encrypt puts out.
PostedBy(m, p, s) ==
    /\ m.from = p /\ m.pkmsg = s.pending /\ m.pre = s.pre
    /\ m.base = IF s.pending THEN {s.base} ELSE {}
    /\ m.key[1] = SendSeed(s) /\ m.ctr = SendCounter(s) + 1

\* What encrypt puts out is a message of the sending chain, with its next key.
LEMMA StanzaPosted ==
    ASSUME Typed, NEW p \in Peers, NEW s, Good(Known, s), NEW m, m = Stanza(p, Ciphertext(s))
    PROVE  m \in PostedSet(Known) /\ PostedBy(m, p, s)
<1> DEFINE c == s.chains[s.eph]
           n == Cardinality(SentBy(p)) + 1
           prev == s.prev % Word
           base == IF s.pending THEN {s.base} ELSE {}
<1>1. s.chains[s.eph] \in Chains(Known) /\ s \in Sessions(Known)
    BY ChainMapsDef DEF Good, Sessions, CanEncrypt, HasChain
<1>2. /\ c.seed \in Seq(SUBSET Known) /\ c.counter + 1 \in Nat
      /\ s.pending \in BOOLEAN /\ s.base \in Known /\ s.pre \in SUBSET Known /\ s.eph \in Known
      /\ s.prev \in Int
    BY <1>1 DEF Chains, Sessions
<1>3. n \in Nat
    <2>1. SentBy(p) \subseteq wire /\ IsFiniteSet(wire)
        BY DEF SentBy, Typed
    <2>2. Cardinality(SentBy(p)) \in Nat
        BY <2>1, FS_Subset, FS_CardinalityType
    <2> QED BY <2>2
<1>4. prev \in Nat
    BY <1>2, RatchetAssumption
<1>5. base \in SUBSET Known
    BY <1>2
<1>6. m = [from |-> p, n |-> n, pkmsg |-> s.pending, base |-> base, pre |-> s.pre,
           eph |-> s.eph, ctr |-> c.counter + 1, prev |-> prev, key |-> <<c.seed, c.counter + 1>>]
    BY DEF Stanza, Ciphertext, Chain
<1> HIDE DEF n, prev, base
<1>7. m \in Messages(Known)
    BY <1>2, <1>3, <1>4, <1>5, <1>6 DEF Messages
<1>8. m.key[2] = m.ctr /\ m.key[1] = SendSeed(s) /\ m.ctr = SendCounter(s) + 1
    BY <1>6 DEF SendSeed, SendCounter
<1>9. m.pkmsg => \E b \in Known : b[2] = "fresh" /\ m.base = {b}
    BY <1>2, <1>6 DEF base, Good
<1> QED BY <1>6, <1>7, <1>8, <1>9 DEF PostedSet, Posted, PostedBy, base

\* A record after the open session is closed and s put in.
WithNew(p, t, s, rec) ==
    /\ IsMap(rec) /\ DOMAIN rec = DOMAIN record[p] \cup {opened[p] + 1} /\ DOMAIN rec \subseteq 1 .. opened[p] + 1
    /\ opened[p] + 1 \notin DOMAIN record[p] /\ rec[opened[p] + 1] = s
    /\ \A k \in DOMAIN record[p] : Continues(record[p][k], rec[k], Known, Known', Fresh(p, k))

\* Closing the open session and putting one in keeps the others going.
LEMMA PutAfterClosing ==
    ASSUME Typed, Known \subseteq Known', NEW p \in Peers, NEW t \in Int, NEW s, NEW rec,
           rec = Put(CloseOpen(record[p], t), opened[p] + 1, s)
    PROVE  WithNew(p, t, s, rec)
<1> DEFINE old == CloseOpen(record[p], t)
<1>1. opened[p] \in Nat /\ DOMAIN record[p] \subseteq 1 .. opened[p]
    BY DEF Typed
<1>2. opened[p] + 1 \notin DOMAIN record[p]
    BY <1>1
<1>3. /\ DOMAIN old = DOMAIN record[p]
      /\ \A k \in DOMAIN record[p] : old[k] = record[p][k] \/ old[k] = [record[p][k] EXCEPT !.closed = t]
    BY DEF CloseOpen
<1> HIDE DEF old
<1>4. /\ IsMap(rec) /\ DOMAIN rec = DOMAIN record[p] \cup {opened[p] + 1}
      /\ rec[opened[p] + 1] = s /\ \A k \in DOMAIN record[p] : rec[k] = old[k]
    BY <1>2, <1>3 DEF Put, IsMap, old
<1>5. ASSUME NEW k \in DOMAIN record[p]
      PROVE  Continues(record[p][k], rec[k], Known, Known', Fresh(p, k))
    <2>1. Good(Known, record[p][k])
        BY DEF Typed
    <2>2. Continues(record[p][k], record[p][k], Known, Known', Fresh(p, k))
        BY <2>1, SelfContinues
    <2>3. record[p][k] \in Sessions(Known')
        BY <2>1, ChainsGrow DEF Good
    <2>4. rec[k] \in Sessions(Known') /\ SameKeys(record[p][k], rec[k])
        <3>1. CASE rec[k] = record[p][k]
            BY <3>1, <2>3 DEF SameKeys
        <3>2. CASE rec[k] = [record[p][k] EXCEPT !.closed = t]
            BY <3>2, <2>3 DEF SameKeys, Sessions
        <3> QED BY <3>1, <3>2, <1>3, <1>4
    <2> QED BY <2>2, <2>4, SameKeysContinue
<1>6. DOMAIN record[p] \cup {opened[p] + 1} \subseteq 1 .. opened[p] + 1
    BY <1>1
<1> QED BY <1>2, <1>4, <1>5, <1>6 DEF WithNew

\* A step that leaves p's record and its keys.
LEMMA NothingMoves ==
    ASSUME Typed, NEW p \in Peers, UNCHANGED <<record, opened, fresh>>
    PROVE  RecordGoesOn(p) /\ Known' = Known
<1>1. Known' = Known
    BY DEF Known
<1>2. \A i \in DOMAIN record[p] : Goes(p, i)
    BY <1>1, SelfContinues DEF Goes, Typed
<1> QED BY <1>1, <1>2 DEF RecordGoesOn, Typed, NoneRemoved

\* A step that saves a record with one more session.
LEMMA NewMoves ==
    ASSUME Typed, Known \subseteq Known', NEW p \in Peers, NEW t, NEW s, NEW rec, WithNew(p, t, s, rec),
           opened[p] < MaxSessions, opened' = [opened EXCEPT ![p] = @ + 1],
           Good(Known', s), NewSeed(s, Known, Known', Fresh(p, opened[p] + 1)), SaveOf(p, rec)
    PROVE  RecordGoesOn(p)
<1>1. opened'[p] = opened[p] + 1 /\ \A q \in Peers \ {p} : opened'[q] = opened[q]
    BY DEF Typed
<1>2. \A i \in DOMAIN record'[p] : Goes(p, i)
    BY DEF WithNew, SaveOf, Goes
<1>3. ASSUME NoneRemoved
      PROVE  DOMAIN record[p] \subseteq DOMAIN record'[p] /\ opened'[p] <= MaxSessions
    <2>1. opened[p] + 1 \in 0 .. ClosedMax /\ opened'[p] <= MaxSessions
        BY <1>1, <1>3, SessionRecordAssumption DEF NoneRemoved, Typed
    <2> QED BY <2>1 DEF WithNew, SaveOf
<1> QED BY <1>1, <1>2, <1>3 DEF RecordGoesOn, SaveOf, WithNew

\* initOutgoing: the types, the new session, and the pre-key it took.
LEMMA InitOutgoingMoves ==
    ASSUME Typed, NEW p \in Peers, InitOutgoing(p)
    PROVE  /\ Typed' /\ RecordGoesOn(p) /\ Known \subseteq Known'
           /\ opened[p] + 1 \notin DOMAIN record[p]
           /\ record'[p][opened[p] + 1].base = Fresh(p, 0)
           /\ record'[p][opened[p] + 1].pre \subseteq stock[Other(p)]
           /\ stock' = [stock EXCEPT ![Other(p)] = @ \ record'[p][opened[p] + 1].pre]
           /\ DOMAIN record'[p] = DOMAIN record[p] \cup {opened[p] + 1}
<1> DEFINE i == opened[p] + 1
           t == clock[p] + 1
<1>1. PICK bundle \in Bundles(Other(p)) :
          /\ record' = [record EXCEPT ![p] = Put(CloseOpen(@, t), i, Initiator(Identity(p), bundle, Fresh(p, 0), Fresh(p, i), t))]
          /\ stock' = [stock EXCEPT ![Other(p)] = @ \ bundle.pre]
    BY DEF InitOutgoing
<1>2. /\ opened[p] < MaxSessions /\ opened' = [opened EXCEPT ![p] = @ + 1] /\ Tick(p) /\ NewKeys(p)
      /\ UNCHANGED <<preKeys, job, wire, read>>
    BY DEF InitOutgoing
<1>3. Other(p) \in Peers
    BY OtherIs
<1>4. PICK pre \in SUBSET stock[Other(p)] : bundle = [identity |-> Identity(Other(p)), signed |-> Signed(Other(p)), pre |-> pre]
    <2>1. PICK pre \in IF stock[Other(p)] = {} THEN {{}} ELSE {{k} : k \in stock[Other(p)]} :
              bundle = [identity |-> Identity(Other(p)), signed |-> Signed(Other(p)), pre |-> pre]
        BY DEF Bundles
    <2>2. pre \in SUBSET stock[Other(p)]
        OBVIOUS
    <2> QED BY <2>1, <2>2
<1>5. /\ opened[p] \in Nat /\ t \in Int /\ i \in Nat /\ i # 0 /\ pre \in SUBSET Known /\ fresh \in [Peers -> Nat]
    BY <1>3 DEF Typed
<1> HIDE DEF i, t
<1>6. Known \subseteq Known' /\ fresh' \in [Peers -> Nat]
    BY <1>2, <1>5, FreshIsNew
<1> DEFINE s == Initiator(Identity(p), bundle, Fresh(p, 0), Fresh(p, i), t)
           rec == Put(CloseOpen(record[p], t), i, s)
<1>7. IsInitiator(s, p, Other(p), pre, Fresh(p, 0), Fresh(p, i), t)
    BY <1>4 DEF IsInitiator
<1> HIDE DEF s
<1>8. /\ Good(Known', s) /\ NewSeed(s, Known, Known', Fresh(p, i))
      /\ s.base = Fresh(p, 0) /\ s.pre = pre
    BY <1>2, <1>3, <1>5, <1>7, InitiatorIsGood
<1>9. WithNew(p, t, s, rec)
    <2>1. rec = Put(CloseOpen(record[p], t), opened[p] + 1, s)
        BY DEF i
    <2> HIDE DEF rec
    <2> QED BY <2>1, <1>5, <1>6, PutAfterClosing
<1>10. record' = [record EXCEPT ![p] = rec]
    BY <1>1 DEF s
<1> HIDE DEF rec
<1>11. SaveOf(p, rec) /\ record'[p] = rec
    BY <1>9, <1>10 DEF SaveOf, Typed, IsMap, WithNew
<1>12. RecordGoesOn(p)
    BY <1>2, <1>6, <1>8, <1>9, <1>11, NewMoves DEF i
<1>13. opened' \in [Peers -> Nat] /\ clock' \in [Peers -> Nat]
    BY <1>2 DEF Typed, Tick
<1>14. Typed'
    <2>1. preKeys' \in [Peers -> SUBSET Known'] /\ stock' \in [Peers -> SUBSET Known']
        BY <1>1, <1>2, <1>3, <1>6 DEF Typed
    <2>2. job' \in [Peers -> JobTypes(Known')] /\ wire' \subseteq PostedSet(Known')
        BY <1>2, <1>6, GoodGrows DEF Typed
    <2>3. read' \in [Peers -> SUBSET wire'] /\ IsFiniteSet(wire')
        BY <1>2 DEF Typed
    <2> QED BY <1>6, <1>12, <1>13, <2>1, <2>2, <2>3, RecordTyped DEF Typed
<1> QED BY <1>1, <1>4, <1>6, <1>8, <1>9, <1>11, <1>12, <1>14 DEF WithNew, i

\* A step that saves a record with the sessions it had.
LEMMA SavedMoves ==
    ASSUME Typed, Known \subseteq Known', NEW p \in Peers, NEW rec, DOMAIN rec = DOMAIN record[p],
           \A k \in DOMAIN rec : Continues(record[p][k], rec[k], Known, Known', Fresh(p, k)),
           SaveOf(p, rec), UNCHANGED opened
    PROVE  RecordGoesOn(p) /\ (NoneRemoved => DOMAIN record'[p] = DOMAIN record[p])
<1>1. \A i \in DOMAIN record'[p] : Goes(p, i)
    BY DEF SaveOf, Goes
<1>2. DOMAIN record[p] \subseteq 1 .. opened[p] /\ opened[p] \in Nat
    BY DEF Typed
<1>3. ASSUME NoneRemoved PROVE DOMAIN record'[p] = DOMAIN record[p] /\ opened'[p] <= MaxSessions
    <2>1. opened[p] \in 0 .. ClosedMax /\ opened'[p] <= MaxSessions
        BY <1>2, <1>3, SessionRecordAssumption DEF NoneRemoved
    <2> QED BY <2>1, <1>2 DEF SaveOf
<1> QED BY <1>1, <1>2, <1>3 DEF RecordGoesOn, SaveOf

\* encrypt: the types, the message, and the chain that was advanced.
LEMMA EncryptMoves ==
    ASSUME Typed, NEW p \in Peers, Encrypt(p)
    PROVE  /\ Typed' /\ RecordGoesOn(p) /\ Known' = Known /\ DOMAIN record'[p] \subseteq DOMAIN record[p]
           /\ NoneRemoved => DOMAIN record'[p] = DOMAIN record[p]
           /\ \E i \in DOMAIN record[p], m \in PostedSet(Known) :
                 /\ PostedBy(m, p, record[p][i])
                 /\ job' = [job EXCEPT ![p] = [op |-> "send", msg |-> m]]
                 /\ i \in DOMAIN record'[p] =>
                       /\ SendSeed(record'[p][i]) = SendSeed(record[p][i])
                       /\ SendCounter(record'[p][i]) = SendCounter(record[p][i]) + 1
<1>1. /\ UNCHANGED <<opened, clock, fresh, preKeys, stock, wire, read, inits, crashes>>
      /\ \E i \in DOMAIN record[p] :
            /\ Save(p, [record[p] EXCEPT ![i] = Encrypted(@)])
            /\ job' = [job EXCEPT ![p] = [op |-> "send", msg |-> Stanza(p, Ciphertext(record[p][i]))]]
    BY DEF Encrypt
<1>2. PICK i \in DOMAIN record[p] :
         /\ Save(p, [record[p] EXCEPT ![i] = Encrypted(@)])
         /\ job' = [job EXCEPT ![p] = [op |-> "send", msg |-> Stanza(p, Ciphertext(record[p][i]))]]
    BY <1>1
<1>3. Known' = Known
    BY <1>1 DEF Known
<1> DEFINE rec == [record[p] EXCEPT ![i] = Encrypted(@)]
           s == record[p][i]
           m == Stanza(p, Ciphertext(s))
<1>4. Good(Known, s)
    BY DEF Typed
<1>5. /\ DOMAIN rec = DOMAIN record[p] /\ rec[i] = Encrypted(s)
      /\ \A k \in DOMAIN record[p] : k # i => rec[k] = record[p][k]
    BY DEF Typed, IsMap
<1>6. SaveOf(p, rec)
    BY <1>2, SaveIs DEF Typed
<1> HIDE DEF rec
<1>7. /\ Continues(s, rec[i], Known, Known, Fresh(p, i))
      /\ SendSeed(rec[i]) = SendSeed(s) /\ SendCounter(rec[i]) = SendCounter(s) + 1
    BY <1>4, <1>5, EncryptedContinues
<1>8. \A k \in DOMAIN rec : Continues(record[p][k], rec[k], Known, Known', Fresh(p, k))
    BY <1>3, <1>5, <1>7, SelfContinues DEF Typed
<1>9. RecordGoesOn(p) /\ (NoneRemoved => DOMAIN record'[p] = DOMAIN record[p])
    BY <1>1, <1>3, <1>5, <1>6, <1>8, SavedMoves
<1>10. m \in PostedSet(Known) /\ PostedBy(m, p, s)
    BY <1>4, StanzaPosted
<1> HIDE DEF m
<1>11. [op |-> "send", msg |-> m] \in JobTypes(Known)
    BY <1>10 DEF JobTypes
<1>12. job' = [job EXCEPT ![p] = [op |-> "send", msg |-> m]]
    BY <1>2 DEF m
<1>13. job' \in [Peers -> JobTypes(Known')]
    BY <1>3, <1>11, <1>12 DEF Typed
<1>14. Typed'
    BY <1>1, <1>3, <1>9, <1>13, RecordTyped DEF Typed
<1> QED BY <1>3, <1>5, <1>6, <1>7, <1>9, <1>10, <1>12, <1>14 DEF SaveOf, m

\* What a job has read: the session whose key it took, and what it still does.
LEMMA ReadTyped ==
    ASSUME Typed, NEW p \in Peers, NEW m \in wire, NewKeys(p), RecordGoesOn(p),
           opened' \in [Peers -> Nat], clock' \in [Peers -> Nat], UNCHANGED <<preKeys, stock, wire>>,
           NEW pre \in SUBSET Known,
           read' = [read EXCEPT ![p] = @ \cup {m}], job' = [job EXCEPT ![p] = Reading(m, pre)]
    PROVE  Typed'
<1>1. Known \subseteq Known' /\ fresh' \in [Peers -> Nat]
    BY FreshIsNew DEF Typed
<1>2. m \in PostedSet(Known)
    BY DEF Typed
<1>3. Reading(m, pre) \in JobTypes(Known)
    BY <1>2 DEF JobTypes, Reading
<1>4. JobTypes(Known) \subseteq JobTypes(Known') /\ PostedSet(Known) \subseteq PostedSet(Known')
    BY <1>1, GoodGrows
<1>5. job' \in [Peers -> JobTypes(Known')]
    BY <1>3, <1>4 DEF Typed
<1>6. preKeys' \in [Peers -> SUBSET Known'] /\ stock' \in [Peers -> SUBSET Known']
    BY <1>1 DEF Typed
<1>7. read' \in [Peers -> SUBSET wire']
    BY DEF Typed
<1>8. wire' \subseteq PostedSet(Known') /\ IsFiniteSet(wire')
    BY <1>4 DEF Typed
<1> QED BY <1>1, <1>5, <1>6, <1>7, <1>8, RecordTyped DEF Typed

\* An attempt to read goes on from a stored session.
LEMMA AttemptContinues ==
    ASSUME Typed, NEW p \in Peers, NEW m \in wire, NewKeys(p), NEW k \in DOMAIN record[p],
           NEW r, r = AfterAttempt(record[p][k], m, Fresh(p, k))
    PROVE  /\ Continues(record[p][k], r, Known, Known', Fresh(p, k))
           /\ Decrypts(record[p][k], m, Fresh(p, k)) => Spent(r, m)
<1>1. k \in Nat /\ Good(Known, record[p][k]) /\ m \in Messages(Known) /\ fresh \in [Peers -> Nat]
    BY DEF Typed, PostedSet
<1>2. Fresh(p, k) \notin Known /\ Known \cup {Fresh(p, k)} \subseteq Known'
    BY <1>1, FreshIsNew
<1>3. /\ GoesOn(record[p][k], AfterAttempt(record[p][k], m, Fresh(p, k)), Known, Fresh(p, k))
      /\ Decrypts(record[p][k], m, Fresh(p, k)) => Spent(AfterAttempt(record[p][k], m, Fresh(p, k)), m)
    BY <1>1, <1>2, AttemptGoesOn DEF Good
<1> QED BY <1>1, <1>2, <1>3, GoesOnContinues

\* decryptWhisperMessage: the types, and the key of the message is spent.
LEMMA DecryptWhisperMoves ==
    ASSUME Typed, NEW p \in Peers, NEW m \in wire, DecryptWhisper(p, m)
    PROVE  /\ Typed' /\ RecordGoesOn(p) /\ Known \subseteq Known' /\ DOMAIN record'[p] \subseteq DOMAIN record[p]
           /\ NoneRemoved => DOMAIN record'[p] = DOMAIN record[p]
           /\ \E i \in DOMAIN record[p] : i \in DOMAIN record'[p] => Spent(record'[p][i], m)
           /\ ~m.pkmsg /\ read' = [read EXCEPT ![p] = @ \cup {m}] /\ job' = [job EXCEPT ![p] = Reading(m, {})]
<1>1. /\ ~m.pkmsg /\ read' = [read EXCEPT ![p] = @ \cup {m}] /\ job' = [job EXCEPT ![p] = Reading(m, {})]
      /\ Tick(p) /\ NewKeys(p) /\ UNCHANGED <<opened, preKeys, stock, wire, inits, crashes>>
    BY DEF DecryptWhisper
<1>2. PICK i \in DOMAIN record[p] : Matches(p, m, i) /\ Save(p, AfterSearch(p, m, i))
    BY DEF DecryptWhisper
<1> DEFINE rec == AfterSearch(p, m, i)
<1>3. Known \subseteq Known'
    BY <1>1, FreshIsNew DEF Typed
<1>4. DOMAIN rec = DOMAIN record[p]
    BY DEF AfterSearch
<1>5. ASSUME NEW k \in DOMAIN record[p]
      PROVE  /\ Continues(record[p][k], rec[k], Known, Known', Fresh(p, k))
             /\ k = i => Spent(rec[k], m)
    <2> DEFINE s == record[p][k]
               r == AfterAttempt(s, m, Fresh(p, k))
               u == [r EXCEPT !.used = clock[p] + 1]
    <2>1. Continues(s, r, Known, Known', Fresh(p, k)) /\ (Decrypts(s, m, Fresh(p, k)) => Spent(r, m))
        BY <1>1, AttemptContinues
    <2>2. Decrypts(record[p][i], m, Fresh(p, i))
        BY <1>2 DEF Matches
    <2>3. rec[k] = IF k = i THEN u ELSE IF TriedBefore(record[p], k, i) THEN r ELSE s
        BY DEF AfterSearch
    <2>4. Continues(s, s, Known, Known', Fresh(p, k))
        BY <1>3, SelfContinues DEF Typed
    <2> HIDE DEF r, rec
    <2>5. u \in Sessions(Known') /\ SameKeys(r, u)
        <3>1. r \in Sessions(Known') /\ clock[p] + 1 \in Int
            BY <2>1 DEF Continues, Good, Typed
        <3> QED BY <3>1 DEF Sessions, SameKeys
    <2> HIDE DEF u, s
    <2>6. Continues(s, u, Known, Known', Fresh(p, k))
        BY <2>1, <2>5, SameKeysContinue
    <2>7. k = i => Spent(r, m)
        BY <2>1, <2>2 DEF s
    <2>8. k = i => Spent(u, m)
        BY <2>5, <2>7 DEF Spent, SameKeys
    <2> QED BY <2>1, <2>3, <2>4, <2>6, <2>8 DEF s
<1>6. SaveOf(p, rec)
    BY <1>2, SaveIs DEF Typed
<1> HIDE DEF rec
<1>7. RecordGoesOn(p) /\ (NoneRemoved => DOMAIN record'[p] = DOMAIN record[p])
    BY <1>1, <1>3, <1>4, <1>5, <1>6, SavedMoves
<1>8. opened' \in [Peers -> Nat] /\ clock' \in [Peers -> Nat]
    BY <1>1 DEF Typed, Tick
<1>9. Typed'
    <2>1. {} \in SUBSET Known
        OBVIOUS
    <2> QED BY <1>1, <1>7, <1>8, <2>1, ReadTyped
<1> QED BY <1>1, <1>3, <1>4, <1>5, <1>6, <1>7, <1>9 DEF SaveOf

\* decryptPreKeyWhisperMessage on a session the record holds.
LEMMA DecryptPreKeyKnownMoves ==
    ASSUME Typed, NEW p \in Peers, NEW m \in wire, DecryptPreKeyKnown(p, m)
    PROVE  /\ Typed' /\ RecordGoesOn(p) /\ Known \subseteq Known' /\ DOMAIN record'[p] \subseteq DOMAIN record[p]
           /\ NoneRemoved => DOMAIN record'[p] = DOMAIN record[p]
           /\ \E i \in DOMAIN record[p] :
                 /\ i \in DOMAIN record'[p] => Spent(record'[p][i], m) /\ m.base = {record'[p][i].base}
           /\ read' = [read EXCEPT ![p] = @ \cup {m}] /\ job' = [job EXCEPT ![p] = Reading(m, {})]
<1>1. /\ read' = [read EXCEPT ![p] = @ \cup {m}] /\ job' = [job EXCEPT ![p] = Reading(m, {})]
      /\ NewKeys(p) /\ UNCHANGED <<opened, clock, preKeys, stock, wire, inits, crashes>>
    BY DEF DecryptPreKeyKnown
<1>2. PICK i \in DOMAIN record[p] :
         /\ IsSessionOf(record[p], i, m) /\ Decrypts(record[p][i], m, Fresh(p, i))
         /\ Save(p, [record[p] EXCEPT ![i] = AfterAttempt(@, m, Fresh(p, i))])
    BY DEF DecryptPreKeyKnown
<1> DEFINE r == AfterAttempt(record[p][i], m, Fresh(p, i))
           rec == [record[p] EXCEPT ![i] = r]
<1>3. Known \subseteq Known'
    BY <1>1, FreshIsNew DEF Typed
<1>4. SaveOf(p, rec)
    BY <1>2, SaveIs DEF Typed
<1>5. Continues(record[p][i], r, Known, Known', Fresh(p, i)) /\ Spent(r, m)
    BY <1>1, <1>2, AttemptContinues
<1> HIDE DEF r
<1>6. /\ DOMAIN rec = DOMAIN record[p] /\ rec[i] = r
      /\ \A k \in DOMAIN record[p] : k # i => rec[k] = record[p][k]
    BY DEF Typed, IsMap
<1> HIDE DEF rec
<1>7. \A k \in DOMAIN rec : Continues(record[p][k], rec[k], Known, Known', Fresh(p, k))
    BY <1>3, <1>5, <1>6, SelfContinues DEF Typed
<1>8. RecordGoesOn(p) /\ (NoneRemoved => DOMAIN record'[p] = DOMAIN record[p])
    BY <1>1, <1>3, <1>4, <1>6, <1>7, SavedMoves
<1>9. Typed'
    <2>1. {} \in SUBSET Known
        OBVIOUS
    <2>2. opened' \in [Peers -> Nat] /\ clock' \in [Peers -> Nat]
        BY <1>1 DEF Typed
    <2> QED BY <1>1, <1>8, <2>1, <2>2, ReadTyped
<1>10. m.base = {r.base}
    BY <1>2, <1>5 DEF IsSessionOf, Continues
<1> QED BY <1>1, <1>3, <1>4, <1>5, <1>6, <1>8, <1>9, <1>10 DEF SaveOf

\* decryptPreKeyWhisperMessage that builds a session.
LEMMA DecryptPreKeyNewMoves ==
    ASSUME Typed, NEW p \in Peers, NEW m \in wire, DecryptPreKeyNew(p, m)
    PROVE  /\ Typed' /\ RecordGoesOn(p) /\ Known \subseteq Known'
           /\ opened[p] + 1 \notin DOMAIN record[p]
           /\ DOMAIN record'[p] \subseteq DOMAIN record[p] \cup {opened[p] + 1}
           /\ opened[p] + 1 \in DOMAIN record'[p] =>
                 /\ Spent(record'[p][opened[p] + 1], m) /\ ~record'[p][opened[p] + 1].pending
                 /\ m.base = {record'[p][opened[p] + 1].base}
           /\ NoneRemoved => DOMAIN record'[p] = DOMAIN record[p] \cup {opened[p] + 1}
           /\ m.pkmsg /\ m.from = Other(p) /\ ~\E i \in DOMAIN record[p] : IsSessionOf(record[p], i, m)
           /\ read' = [read EXCEPT ![p] = @ \cup {m}] /\ job' = [job EXCEPT ![p] = Reading(m, m.pre)]
<1> DEFINE i == opened[p] + 1
           t == clock[p] + 1
           f == Fresh(p, i)
           s == Incoming(p, m)
           r == AfterAttempt(s, m, f)
           rec == Put(CloseOpen(record[p], t), i, r)
<1>1. /\ read' = [read EXCEPT ![p] = @ \cup {m}] /\ job' = [job EXCEPT ![p] = Reading(m, m.pre)]
      /\ Tick(p) /\ NewKeys(p) /\ UNCHANGED <<preKeys, stock, wire, inits, crashes>>
      /\ m.pkmsg /\ m.from = Other(p) /\ opened[p] < MaxSessions /\ opened' = [opened EXCEPT ![p] = @ + 1]
      /\ CanBuild(p, m) /\ Save(p, rec)
    BY DEF DecryptPreKeyNew
<1>2. ~(\E k \in DOMAIN record[p] : IsSessionOf(record[p], k, m)) /\ Decrypts(s, m, f)
    BY <1>1 DEF CanBuild
<1>3. /\ Known \subseteq Known' /\ fresh \in [Peers -> Nat] /\ opened[p] \in Nat /\ i \in Nat /\ t \in Int
      /\ m \in Messages(Known) /\ Posted(Known, m) /\ Other(p) \in Peers
    BY <1>1, FreshIsNew, OtherIs DEF Typed, PostedSet
<1>4. PICK b \in Known : b[2] = "fresh" /\ m.base = {b}
    BY <1>1, <1>3 DEF Posted
<1>5. IsResponder(s, p, Other(p), m.pre, b, t)
    <2>1. (CHOOSE x \in m.base : TRUE) = b
        BY <1>4
    <2> QED BY <2>1 DEF IsResponder, Incoming
<1>6. m.pre \in SUBSET Known
    BY <1>3 DEF Messages
<1> HIDE DEF s, i, t
<1>7. /\ Good(Known', r) /\ NewSeed(r, Known, Known', f) /\ Spent(r, m) /\ r.base = b /\ ~r.pending
    BY <1>1, <1>2, <1>3, <1>4, <1>5, <1>6, BuiltIsGood
<1> HIDE DEF r
<1>8. WithNew(p, t, r, rec)
    <2>1. rec = Put(CloseOpen(record[p], t), opened[p] + 1, r)
        BY DEF i
    <2> HIDE DEF rec
    <2> QED BY <2>1, <1>3, PutAfterClosing
<1>9. SaveOf(p, rec)
    BY <1>1, SaveIs DEF Typed
<1> HIDE DEF rec
<1>10. RecordGoesOn(p)
    BY <1>1, <1>3, <1>7, <1>8, <1>9, NewMoves DEF i, f
<1>11. opened' \in [Peers -> Nat] /\ clock' \in [Peers -> Nat]
    BY <1>1 DEF Typed, Tick
<1>12. Typed'
    BY <1>1, <1>6, <1>10, <1>11, ReadTyped
<1>13. i \in DOMAIN record'[p] => record'[p][i] = r
    BY <1>8, <1>9 DEF SaveOf, WithNew, i
<1>14. i \notin DOMAIN record[p] /\ DOMAIN record'[p] \subseteq DOMAIN record[p] \cup {i}
    BY <1>8, <1>9 DEF SaveOf, WithNew, i
<1>15. ASSUME NoneRemoved PROVE DOMAIN record'[p] = DOMAIN record[p] \cup {i}
    <2>1. i \in 0 .. ClosedMax
        BY <1>1, <1>3, <1>15, SessionRecordAssumption DEF NoneRemoved, i
    <2> QED BY <2>1, <1>8, <1>9 DEF SaveOf, WithNew, i
<1> QED BY <1>1, <1>2, <1>3, <1>4, <1>7, <1>10, <1>12, <1>13, <1>14, <1>15 DEF i

\* Send, FinishRead and Crash leave the records.
LEMMA QuietMoves ==
    ASSUME Typed, NEW p \in Peers, Send(p) \/ FinishRead(p) \/ Crash(p)
    PROVE  Typed' /\ RecordGoesOn(p) /\ Known' = Known /\ UNCHANGED <<record, opened, stock, read>>
<1>1. UNCHANGED <<record, opened, clock, fresh, stock, read>>
    BY DEF Send, FinishRead, Crash
<1>2. Known' = Known /\ RecordGoesOn(p)
    BY <1>1, NothingMoves DEF Known
<1>3. job[p] \in JobTypes(Known)
    BY DEF Typed
<1>4. wire' \subseteq PostedSet(Known) /\ IsFiniteSet(wire') /\ wire \subseteq wire'
    <2>1. CASE Send(p)
        <3>1. job[p].msg \in PostedSet(Known) /\ wire' = wire \cup {job[p].msg}
            BY <2>1, <1>3 DEF JobTypes, Send, Idle
        <3> QED BY <3>1, FS_AddElement DEF Typed
    <2>2. CASE FinishRead(p) \/ Crash(p)
        BY <2>2 DEF FinishRead, Crash, Typed
    <2> QED BY <2>1, <2>2
<1>5. job' \in [Peers -> JobTypes(Known)]
    BY DEF Typed, Send, FinishRead, Crash, JobTypes
<1>6. preKeys' \in [Peers -> SUBSET Known]
    BY DEF Typed, Send, FinishRead, Crash
<1>7. read' \in [Peers -> SUBSET wire']
    BY <1>1, <1>4 DEF Typed
<1> QED BY <1>1, <1>2, <1>4, <1>5, <1>6, <1>7 DEF Typed

\* The types hold at the start.
LEMMA InitTyped == Init => Typed
<1> SUFFICES ASSUME Init PROVE Typed
    OBVIOUS
<1>1. \A p \in Peers : {PreKey(p, i) : i \in PreKeys[p]} \subseteq Known
    BY LastingNames, ConversationAssumption
<1>2. opened \in [Peers -> Nat] /\ clock \in [Peers -> Nat] /\ fresh \in [Peers -> Nat]
    BY DEF Init
<1>3. preKeys \in [Peers -> SUBSET Known] /\ stock \in [Peers -> SUBSET Known]
    BY <1>1 DEF Init
<1>4. job \in [Peers -> JobTypes(Known)]
    BY DEF Init, JobTypes
<1>5. wire \subseteq PostedSet(Known) /\ IsFiniteSet(wire) /\ read \in [Peers -> SUBSET wire]
    BY FS_EmptySet DEF Init
<1>6. /\ IsMap(record) /\ DOMAIN record = Peers
      /\ \A p \in Peers : IsMap(record[p]) /\ DOMAIN record[p] = {}
    BY DEF Init, IsMap
<1> QED BY <1>2, <1>3, <1>4, <1>5, <1>6 DEF Typed

\* Every step is one device's.
LEMMA StepTyped ==
    ASSUME Typed, [Next]_vars
    PROVE  Typed'
<1>1. CASE UNCHANGED vars
    BY <1>1 DEF vars, Typed, Known, IsMap
<1>2. CASE \E p \in Peers : InitOutgoing(p)
    BY <1>2, InitOutgoingMoves
<1>3. CASE \E p \in Peers : Encrypt(p)
    BY <1>3, EncryptMoves
<1>4. CASE \E p \in Peers, m \in wire : DecryptWhisper(p, m)
    BY <1>4, DecryptWhisperMoves
<1>5. CASE \E p \in Peers, m \in wire : DecryptPreKeyKnown(p, m)
    BY <1>5, DecryptPreKeyKnownMoves
<1>6. CASE \E p \in Peers, m \in wire : DecryptPreKeyNew(p, m)
    BY <1>6, DecryptPreKeyNewMoves
<1>7. CASE \E p \in Peers : Send(p) \/ FinishRead(p) \/ Crash(p)
    BY <1>7, QuietMoves
<1> QED BY <1>1, <1>2, <1>3, <1>4, <1>5, <1>6, <1>7 DEF Next

\* Type correctness: every session on either side is good: its chains, root and keys
\* have their types, and the base key of every message is one that was generated.
THEOREM ConversationTyped == Spec => []Typed
<1> QED BY InitTyped, StepTyped, PTL DEF Spec

\* encrypt on the open session always has a sending chain, at either end, after any
\* sequence of ratchet steps and attempts that failed, and for any number of them.
THEOREM OpenSessionsEncrypt == Spec => []EncryptReady
<1>1. Typed => EncryptReady
    BY DEF Typed, EncryptReady, OpenSessions, Good
<1> QED BY <1>1, ConversationTyped, PTL

\* A chain with a new key is none of those before, and none with another key.
LEMMA NewSeedIsNew ==
    ASSUME NEW K, NEW L, NEW f, f \notin K, NEW s, NewSeed(s, K, L, f)
    PROVE  /\ SendSeed(s) \notin Seq(SUBSET K)
           /\ \A g, r : g \notin K /\ NewSeed(r, K, L, g) /\ SendSeed(r) = SendSeed(s) => f = g
<1>1. PICK x \in Seq(SUBSET L), e \in K : SendSeed(s) = Append(x, {e, f})
    BY DEF NewSeed
<1>2. Len(x) \in Nat /\ Len(SendSeed(s)) = Len(x) + 1 /\ SendSeed(s)[Len(x) + 1] = {e, f}
    BY <1>1
<1>3. ASSUME SendSeed(s) \in Seq(SUBSET K) PROVE FALSE
    <2>1. Len(x) + 1 \in 1 .. Len(SendSeed(s))
        BY <1>2
    <2>2. SendSeed(s)[Len(x) + 1] \in SUBSET K
        BY <1>3, <2>1
    <2> QED BY <1>2, <2>2
<1>4. ASSUME NEW g, NEW r, g \notin K, NewSeed(r, K, L, g), SendSeed(r) = SendSeed(s)
      PROVE  f = g
    <2>1. PICK y \in Seq(SUBSET L), d \in K : SendSeed(r) = Append(y, {d, g})
        BY <1>4 DEF NewSeed
    <2>2. Len(y) \in Nat /\ Len(SendSeed(s)) = Len(y) + 1 /\ SendSeed(s)[Len(y) + 1] = {d, g}
        BY <1>4, <2>1
    <2>3. {e, f} = {d, g}
        BY <1>2, <2>2
    <2> QED BY <1>4, <2>3
<1> QED BY <1>3, <1>4

\* What was handed to the server, and what is about to be.
Sent == wire \cup {job[p].msg : p \in {q \in Peers : job[q].op = "send"}}

SeedsApart ==
    \A p, q \in Peers : \A i \in DOMAIN record[p], k \in DOMAIN record[q] :
        SendSeed(record[p][i]) = SendSeed(record[q][k]) => p = q /\ i = k

CountersAhead ==
    \A m \in Sent, p \in Peers : \A i \in DOMAIN record[p] :
        m.key[1] = SendSeed(record[p][i]) => m.ctr <= SendCounter(record[p][i])

KeysApart == \A m, n \in Sent : m.key = n.key => m = n

\* The sending chains of a step: as they were, or new.
LEMMA SeedsGoOn ==
    ASSUME Typed, Typed', NEW p \in Peers, RecordGoesOn(p), NEW q \in Peers, NEW i \in DOMAIN record'[q]
    PROVE  /\ SendsTyped(Known', record'[q][i])
           /\ \/ /\ i \in DOMAIN record[q] /\ SendsTyped(Known, record[q][i])
                 /\ SendSeed(record'[q][i]) = SendSeed(record[q][i])
                 /\ SendCounter(record[q][i]) <= SendCounter(record'[q][i])
              \/ /\ q = p /\ NewSeed(record'[q][i], Known, Known', Fresh(p, i)) /\ Fresh(p, i) \notin Known
                 /\ i \in Nat
<1>1. SendsTyped(Known', record'[q][i])
    BY CounterIsInt DEF Typed
<1>2. \A k \in DOMAIN record[q] : SendsTyped(Known, record[q][k])
    BY CounterIsInt DEF Typed
<1>3. CASE q = p
    <2>1. i \in Nat /\ Fresh(p, i) \notin Known
        BY <1>3, FreshIsNew DEF RecordGoesOn, Typed
    <2>2. Goes(p, i)
        BY <1>3 DEF RecordGoesOn
    <2> QED BY <1>1, <1>2, <1>3, <2>1, <2>2 DEF Goes, Continues
<1>4. CASE q # p
    <2>1. record'[q] = record[q]
        BY <1>4 DEF RecordGoesOn
    <2>2. SendCounter(record[q][i]) \in Int
        BY <1>2, <2>1 DEF SendsTyped
    <2> QED BY <1>1, <1>2, <2>1, <2>2
<1> QED BY <1>3, <1>4

\* No two sessions share a sending chain after a step.
LEMMA SeedsStayApart ==
    ASSUME Typed, Typed', SeedsApart, NEW p \in Peers, RecordGoesOn(p)
    PROVE  SeedsApart'
<1> SUFFICES ASSUME NEW q \in Peers, NEW r \in Peers, NEW i \in DOMAIN record'[q], NEW k \in DOMAIN record'[r],
                    SendSeed(record'[q][i]) = SendSeed(record'[r][k])
             PROVE  q = r /\ i = k
    BY DEF SeedsApart
<1>1. CASE /\ i \in DOMAIN record[q] /\ SendSeed(record'[q][i]) = SendSeed(record[q][i])
           /\ k \in DOMAIN record[r] /\ SendSeed(record'[r][k]) = SendSeed(record[r][k])
    <2>1. SendSeed(record[q][i]) = SendSeed(record[r][k])
        BY <1>1
    <2>2. i \in DOMAIN record[q] /\ k \in DOMAIN record[r]
        BY <1>1
    <2> HIDE <1>1
    <2> QED BY <2>1, <2>2 DEF SeedsApart
<1>2. CASE /\ q = p /\ NewSeed(record'[q][i], Known, Known', Fresh(p, i)) /\ Fresh(p, i) \notin Known /\ i \in Nat
           /\ k \in DOMAIN record[r] /\ SendSeed(record'[r][k]) = SendSeed(record[r][k])
           /\ SendsTyped(Known, record[r][k])
    BY <1>2, NewSeedIsNew DEF SendsTyped
<1>3. CASE /\ r = p /\ NewSeed(record'[r][k], Known, Known', Fresh(p, k)) /\ Fresh(p, k) \notin Known /\ k \in Nat
           /\ i \in DOMAIN record[q] /\ SendSeed(record'[q][i]) = SendSeed(record[q][i])
           /\ SendsTyped(Known, record[q][i])
    BY <1>3, NewSeedIsNew DEF SendsTyped
<1>4. CASE /\ q = p /\ NewSeed(record'[q][i], Known, Known', Fresh(p, i)) /\ Fresh(p, i) \notin Known /\ i \in Nat
           /\ r = p /\ NewSeed(record'[r][k], Known, Known', Fresh(p, k)) /\ Fresh(p, k) \notin Known /\ k \in Nat
    <2>1. Fresh(p, i) = Fresh(p, k)
        BY <1>4, NewSeedIsNew
    <2> QED BY <1>4, <2>1, FreshIsNew DEF Typed
<1> QED BY <1>1, <1>2, <1>3, <1>4, SeedsGoOn

\* What was sent stays behind the counters.
LEMMA CountersStayAhead ==
    ASSUME Typed, Typed', CountersAhead, NEW p \in Peers, RecordGoesOn(p),
           NEW m \in Sent, m \in PostedSet(Known), NEW q \in Peers, NEW i \in DOMAIN record'[q],
           m.key[1] = SendSeed(record'[q][i])
    PROVE  m.ctr <= SendCounter(record'[q][i])
<1>1. m.key[1] \in Seq(SUBSET Known) /\ m.ctr \in Int
    BY DEF PostedSet, Messages
<1>2. CASE /\ i \in DOMAIN record[q] /\ SendsTyped(Known, record[q][i])
           /\ SendSeed(record'[q][i]) = SendSeed(record[q][i])
           /\ SendCounter(record[q][i]) <= SendCounter(record'[q][i])
    <2>1. m.ctr <= SendCounter(record[q][i])
        BY <1>2 DEF CountersAhead
    <2>2. SendCounter(record'[q][i]) \in Int
        BY SeedsGoOn DEF SendsTyped
    <2> QED BY <1>1, <1>2, <2>1, <2>2 DEF SendsTyped
<1>3. CASE NewSeed(record'[q][i], Known, Known', Fresh(p, i)) /\ Fresh(p, i) \notin Known
    BY <1>1, <1>3, NewSeedIsNew
<1> QED BY <1>2, <1>3, SeedsGoOn

\* What was sent, or is about to be, has the types of messages.
LEMMA SentPosted == Typed => Sent \subseteq PostedSet(Known)
<1> SUFFICES ASSUME Typed PROVE Sent \subseteq PostedSet(Known)
    OBVIOUS
<1>1. ASSUME NEW q \in Peers, job[q].op = "send" PROVE job[q].msg \in PostedSet(Known)
    <2>1. job[q] \in JobTypes(Known)
        BY DEF Typed
    <2> QED BY <1>1, <2>1 DEF JobTypes, Idle
<1> QED BY <1>1 DEF Sent, Typed

\* What a step adds to what was sent: nothing, or what encrypt put out.
Encrypts(p) ==
    \E i \in DOMAIN record[p], m \in PostedSet(Known) :
        /\ Sent' \subseteq Sent \cup {m}
        /\ PostedBy(m, p, record[p][i])
        /\ i \in DOMAIN record'[p] =>
              /\ SendSeed(record'[p][i]) = SendSeed(record[p][i])
              /\ SendCounter(record'[p][i]) = SendCounter(record[p][i]) + 1

\* What is sent grows only by the messages encrypt puts out.
LEMMA SentStep ==
    ASSUME Typed, NEW p \in Peers
    PROVE  /\ InitOutgoing(p) => Sent' \subseteq Sent
           /\ Encrypt(p) => Encrypts(p)
           /\ \A m \in wire : DecryptWhisper(p, m) \/ DecryptPreKeyKnown(p, m) \/ DecryptPreKeyNew(p, m) => Sent' \subseteq Sent
           /\ Send(p) \/ FinishRead(p) \/ Crash(p) => Sent' \subseteq Sent
<1>1. InitOutgoing(p) => Sent' \subseteq Sent
    BY DEF InitOutgoing, Sent
<1>2. ASSUME Encrypt(p) PROVE Encrypts(p)
    <2>1. PICK i \in DOMAIN record[p], m \in PostedSet(Known) :
             /\ PostedBy(m, p, record[p][i])
             /\ job' = [job EXCEPT ![p] = [op |-> "send", msg |-> m]]
             /\ i \in DOMAIN record'[p] =>
                   /\ SendSeed(record'[p][i]) = SendSeed(record[p][i])
                   /\ SendCounter(record'[p][i]) = SendCounter(record[p][i]) + 1
        BY <1>2, EncryptMoves
    <2>2. \A q \in Peers : job'[q] = job[q] \/ job'[q].msg = m
        BY <2>1 DEF Typed
    <2>3. wire' = wire
        BY <1>2 DEF Encrypt
    <2>4. Sent' \subseteq Sent \cup {m}
        BY <2>2, <2>3 DEF Sent
    <2> QED BY <2>1, <2>4 DEF Encrypts
<1>3. ASSUME NEW m \in wire, DecryptWhisper(p, m) \/ DecryptPreKeyKnown(p, m) \/ DecryptPreKeyNew(p, m)
      PROVE  Sent' \subseteq Sent
    <2>1. PICK pre : job' = [job EXCEPT ![p] = Reading(m, pre)]
        BY <1>3 DEF DecryptWhisper, DecryptPreKeyKnown, DecryptPreKeyNew
    <2>2. \A q \in Peers : job'[q] = job[q] \/ job'[q].op # "send"
        BY <2>1 DEF Reading, Typed
    <2>3. wire' = wire
        BY <1>3 DEF DecryptWhisper, DecryptPreKeyKnown, DecryptPreKeyNew
    <2> QED BY <2>2, <2>3 DEF Sent
<1>4. ASSUME Send(p) \/ FinishRead(p) \/ Crash(p) PROVE Sent' \subseteq Sent
    <2>1. \A q \in Peers : job'[q] = job[q] \/ job'[q].op # "send"
        BY <1>4 DEF Send, FinishRead, Crash, Idle, Typed
    <2>2. wire' \subseteq Sent
        BY <1>4 DEF Send, FinishRead, Crash, Sent
    <2> QED BY <2>1, <2>2 DEF Sent
<1> QED BY <1>1, <1>2, <1>3, <1>4

KeyInv == SeedsApart /\ CountersAhead /\ KeysApart

\* A step that encrypts nothing keeps the invariant of the keys.
LEMMA KeysQuiet ==
    ASSUME Typed, Typed', KeyInv, NEW p \in Peers, RecordGoesOn(p), Sent' \subseteq Sent
    PROVE  KeyInv'
<1>1. SeedsApart'
    BY SeedsStayApart DEF KeyInv
<1>2. CountersAhead'
    BY CountersStayAhead, SentPosted DEF KeyInv, CountersAhead
<1>3. KeysApart'
    BY DEF KeyInv, KeysApart
<1> QED BY <1>1, <1>2, <1>3 DEF KeyInv

\* encrypt keeps it: the key it uses is ahead of all that were sent.
LEMMA KeysEncrypt ==
    ASSUME Typed, Typed', KeyInv, NEW p \in Peers, RecordGoesOn(p), DOMAIN record'[p] \subseteq DOMAIN record[p],
           Encrypts(p)
    PROVE  KeyInv'
<1>1. PICK i \in DOMAIN record[p], m \in PostedSet(Known) :
        /\ Sent' \subseteq Sent \cup {m}
        /\ PostedBy(m, p, record[p][i])
        /\ i \in DOMAIN record'[p] =>
              /\ SendSeed(record'[p][i]) = SendSeed(record[p][i])
              /\ SendCounter(record'[p][i]) = SendCounter(record[p][i]) + 1
    BY DEF Encrypts
<1> DEFINE s == record[p][i]
<1>2. /\ m.key[1] = SendSeed(s) /\ m.ctr = SendCounter(s) + 1 /\ m.key[2] = m.ctr
      /\ SendCounter(s) \in Int /\ SendSeed(s) \in Seq(SUBSET Known)
    <2>1. Good(Known, s)
        BY DEF Typed
    <2>2. SendCounter(s) \in Int /\ SendSeed(s) \in Seq(SUBSET Known)
        BY <2>1, CounterIsInt DEF SendsTyped
    <2>3. m.key[1] = SendSeed(s) /\ m.ctr = SendCounter(s) + 1
        BY <1>1 DEF PostedBy
    <2> QED BY <2>2, <2>3 DEF PostedSet, Posted
<1>3. SeedsApart'
    BY SeedsStayApart DEF KeyInv
<1>4. CountersAhead'
    <2> SUFFICES ASSUME NEW n \in Sent', NEW q \in Peers, NEW k \in DOMAIN record'[q],
                        n.key[1] = SendSeed(record'[q][k])
                 PROVE  n.ctr <= SendCounter(record'[q][k])
        BY DEF CountersAhead
    <2>1. CASE n \in Sent
        BY <2>1, CountersStayAhead, SentPosted DEF KeyInv
    <2>2. CASE n = m
        <3>1. SendSeed(record'[q][k]) = SendSeed(s)
            BY <1>2, <2>2
        <3>2. CASE k \in DOMAIN record[q] /\ SendSeed(record'[q][k]) = SendSeed(record[q][k])
            <4>1. SendSeed(record[q][k]) = SendSeed(record[p][i])
                BY <3>1, <3>2
            <4>2. q = p /\ k = i
                BY <3>2, <4>1 DEF KeyInv, SeedsApart, SendSeed
            <4> QED BY <1>1, <1>2, <2>2, <4>2
        <3>3. CASE NewSeed(record'[q][k], Known, Known', Fresh(p, k)) /\ Fresh(p, k) \notin Known
            BY <1>2, <3>1, <3>3, NewSeedIsNew
        <3> QED BY <3>2, <3>3, SeedsGoOn
    <2> QED BY <1>1, <2>1, <2>2
<1>5. KeysApart'
    <2>1. ASSUME NEW n \in Sent PROVE n.key # m.key
        <3>1. n.key[1] = SendSeed(s) => n.ctr <= SendCounter(s)
            BY DEF KeyInv, CountersAhead, SendSeed, SendCounter
        <3>2. n.key[2] = n.ctr
            BY SentPosted DEF PostedSet, Posted
        <3> QED BY <1>2, <3>1, <3>2
    <2> QED BY <1>1, <2>1 DEF KeyInv, KeysApart
<1> QED BY <1>3, <1>4, <1>5 DEF KeyInv

\* Every step keeps it.
LEMMA KeysStep ==
    ASSUME Typed, KeyInv, [Next]_vars
    PROVE  KeyInv'
<1>1. CASE UNCHANGED vars
    BY <1>1 DEF vars, KeyInv, SeedsApart, CountersAhead, KeysApart, Sent
<1>2. CASE \E p \in Peers : InitOutgoing(p)
    BY <1>2, InitOutgoingMoves, SentStep, KeysQuiet
<1>3. CASE \E p \in Peers : Encrypt(p)
    BY <1>3, EncryptMoves, SentStep, KeysEncrypt
<1>4. CASE \E p \in Peers, m \in wire : DecryptWhisper(p, m)
    BY <1>4, DecryptWhisperMoves, SentStep, KeysQuiet
<1>5. CASE \E p \in Peers, m \in wire : DecryptPreKeyKnown(p, m)
    BY <1>5, DecryptPreKeyKnownMoves, SentStep, KeysQuiet
<1>6. CASE \E p \in Peers, m \in wire : DecryptPreKeyNew(p, m)
    BY <1>6, DecryptPreKeyNewMoves, SentStep, KeysQuiet
<1>7. CASE \E p \in Peers : Send(p) \/ FinishRead(p) \/ Crash(p)
    BY <1>7, QuietMoves, SentStep, KeysQuiet
<1> QED BY <1>1, <1>2, <1>3, <1>4, <1>5, <1>6, <1>7 DEF Next

\* It holds at the start.
LEMMA KeysInit == Init => KeyInv
<1> SUFFICES ASSUME Init PROVE KeyInv
    OBVIOUS
<1>1. \A p \in Peers : DOMAIN record[p] = {}
    BY DEF Init
<1>2. Sent = {}
    BY DEF Init, Sent, Idle
<1> QED BY <1>1, <1>2 DEF KeyInv, SeedsApart, CountersAhead, KeysApart

\* With no session removed: the sessions of a record have base keys of their
\* own, and what was read is spent in one of them.
Few == \A p \in Peers : opened[p] <= MaxSessions

BasesApart ==
    \A p \in Peers : \A i, k \in DOMAIN record[p] : record[p][i].base = record[p][k].base => i = k

\* The session a message was read with.
ReadBy(p, m) ==
    \E i \in DOMAIN record[p] : Spent(record[p][i], m) /\ (m.pkmsg => m.base = {record[p][i].base})

ReadSpent == \A p \in Peers : \A m \in read[p] : ReadBy(p, m)

ReadInv == Few /\ BasesApart /\ ReadSpent

\* What is spent cannot be read again, with any session.
LEMMA SpentIsGone ==
    ASSUME Typed, ReadInv
    PROVE  \A p \in Peers : \A m \in read[p] : ~Readable(p, m)
<1> SUFFICES ASSUME NEW p \in Peers, NEW m \in read[p], Readable(p, m) PROVE FALSE
    OBVIOUS
<1>1. PICK i \in DOMAIN record[p] : Spent(record[p][i], m) /\ (m.pkmsg => m.base = {record[p][i].base})
    BY DEF ReadInv, ReadSpent, ReadBy
<1>2. m \in Messages(Known)
    BY DEF Typed, PostedSet
<1>3. ASSUME NEW k \in DOMAIN record[p], Decrypts(record[p][k], m, Fresh(p, k)) PROVE FALSE
    <2> DEFINE s == record[p][i]
               r == record[p][k]
    <2>1. Good(Known, s) /\ Good(Known, r) /\ k \in Nat /\ fresh \in [Peers -> Nat]
        BY DEF Typed
    <2>2. Fresh(p, k) \notin Known
        BY <2>1, FreshIsNew
    <2>3. m.key[1][2] = r.root[2]
        BY <1>2, <1>3, <2>1, <2>2, DecryptsOwnRoot DEF Good
    <2>4. m.key[1][2] = s.root[2]
        BY <1>1, <2>1 DEF Good, Sound, Rooted, Spent
    <2>5. r.base = s.base
        <3>1. PICK x \in Peers, y \in Peers : s.root[2] = {Identity(x), s.base} /\ r.root[2] = {Identity(y), r.base}
            BY <2>1 DEF Good
        <3>2. s.base[2] = "fresh" /\ r.base[2] = "fresh" /\ Identity(x)[2] = "identity" /\ Identity(y)[2] = "identity"
            BY <2>1, LastingNames DEF Good
        <3>3. {Identity(x), s.base} = {Identity(y), r.base} /\ r.base # Identity(x)
            BY <2>3, <2>4, <3>1, <3>2
        <3> QED BY <3>3
    <2>6. k = i
        BY <2>5 DEF ReadInv, BasesApart
    <2> QED BY <1>1, <1>3, <2>6, SpentUnreadable
<1>4. CASE m.pkmsg
    <2>1. IsSessionOf(record[p], i, m)
        BY <1>1, <1>4 DEF IsSessionOf
    <2>2. ~CanBuild(p, m)
        BY <2>1 DEF CanBuild
    <2> QED BY <1>3, <1>4, <2>2 DEF Readable
<1>5. CASE ~m.pkmsg
    BY <1>3, <1>5 DEF Readable
<1> QED BY <1>4, <1>5

\* What was read stays spent in its session.
LEMMA ReadStays ==
    ASSUME Typed, Typed', NEW p \in Peers, RecordGoesOn(p), NoneRemoved, NEW q \in Peers,
           NEW m \in read[q], ReadBy(q, m)
    PROVE  ReadBy(q, m)'
<1>1. PICK i \in DOMAIN record[q] : Spent(record[q][i], m) /\ (m.pkmsg => m.base = {record[q][i].base})
    BY DEF ReadBy
<1>2. CASE q # p
    BY <1>1, <1>2 DEF RecordGoesOn, ReadBy
<1>3. CASE q = p
    <2>1. i \in DOMAIN record'[p] /\ Continues(record[p][i], record'[p][i], Known, Known', Fresh(p, i))
        BY <1>1, <1>3 DEF RecordGoesOn, Goes
    <2>2. m \in Messages(Known) /\ Good(Known, record[p][i])
        BY <1>3 DEF Typed, PostedSet
    <2>3. Spent(record'[p][i], m) /\ record'[p][i].base = record[p][i].base
        BY <1>1, <1>3, <2>1, <2>2, SpentStays DEF Continues, Good
    <2> QED BY <1>1, <1>3, <2>1, <2>3 DEF ReadBy
<1> QED BY <1>2, <1>3

\* No two sessions of a record have one base key.
LEMMA BasesStayApart ==
    ASSUME Typed, Typed', BasesApart, NEW p \in Peers, RecordGoesOn(p),
           \A i, k \in DOMAIN record'[p] : i \notin DOMAIN record[p] /\ k \notin DOMAIN record[p] => i = k,
           \A i, k \in DOMAIN record'[p] :
               i \notin DOMAIN record[p] /\ k \in DOMAIN record[p] => record'[p][i].base # record[p][k].base
    PROVE  BasesApart'
<1> SUFFICES ASSUME NEW q \in Peers, NEW i \in DOMAIN record'[q], NEW k \in DOMAIN record'[q],
                    record'[q][i].base = record'[q][k].base
             PROVE  i = k
    BY DEF BasesApart
<1>1. CASE q # p
    BY <1>1 DEF RecordGoesOn, BasesApart
<1>2. CASE q = p
    <2>1. /\ i \in DOMAIN record[p] => record'[p][i].base = record[p][i].base
          /\ k \in DOMAIN record[p] => record'[p][k].base = record[p][k].base
        BY <1>2 DEF RecordGoesOn, Goes, Continues
    <2> QED BY <1>2, <2>1 DEF BasesApart
<1> QED BY <1>1, <1>2

\* A record takes in no more than MaxSessions.
LEMMA FewStay ==
    ASSUME Typed, MaxSessions \in 0 .. ClosedMax, Few, NEW p \in Peers, RecordGoesOn(p)
    PROVE  NoneRemoved /\ Few'
<1>1. NoneRemoved
    BY DEF Few, NoneRemoved
<1> QED BY <1>1 DEF RecordGoesOn, Few

\* A step that reads nothing keeps what was read spent.
LEMMA ReadQuiet ==
    ASSUME Typed, Typed', MaxSessions \in 0 .. ClosedMax, ReadInv, NEW p \in Peers, RecordGoesOn(p),
           DOMAIN record'[p] \subseteq DOMAIN record[p], UNCHANGED read
    PROVE  ReadInv'
<1>1. NoneRemoved /\ Few'
    BY FewStay DEF ReadInv
<1>2. BasesApart'
    BY BasesStayApart DEF ReadInv
<1>3. ReadSpent'
    BY <1>1, ReadStays DEF ReadInv, ReadSpent
<1> QED BY <1>1, <1>2, <1>3 DEF ReadInv

\* A step that reads m keeps it, m included.
LEMMA ReadMore ==
    ASSUME Typed, Typed', MaxSessions \in 0 .. ClosedMax, ReadInv, NEW p \in Peers, RecordGoesOn(p),
           NEW m, read' = [read EXCEPT ![p] = @ \cup {m}], BasesApart', ReadBy(p, m)'
    PROVE  ReadInv'
<1>1. NoneRemoved /\ Few'
    BY FewStay DEF ReadInv
<1>2. \A q \in Peers : \A n \in read'[q] : n \in read[q] \/ (q = p /\ n = m)
    <2>1. read \in [Peers -> SUBSET wire]
        BY DEF Typed
    <2>2. read'[p] = read[p] \cup {m} /\ \A q \in Peers \ {p} : read'[q] = read[q]
        BY <2>1
    <2>3. ASSUME NEW q \in Peers, NEW n \in read'[q] PROVE n \in read[q] \/ (q = p /\ n = m)
        <3>1. CASE q = p
            BY <2>2, <2>3, <3>1
        <3>2. CASE q # p
            BY <2>2, <2>3, <3>2
        <3> QED BY <3>1, <3>2
    <2> QED BY <2>3
<1>3. ASSUME NEW q \in Peers, NEW n \in read'[q] PROVE ReadBy(q, n)'
    <2>1. CASE n \in read[q]
        <3>1. ReadBy(q, n)
            BY <2>1 DEF ReadInv, ReadSpent
        <3> QED BY <1>1, <2>1, <3>1, ReadStays
    <2>2. CASE q = p /\ n = m
        BY <2>2
    <2> QED BY <1>2, <2>1, <2>2
<1> QED BY <1>1, <1>3 DEF ReadInv, ReadSpent

\* Every step keeps it.
LEMMA ReadStep ==
    ASSUME Typed, MaxSessions \in 0 .. ClosedMax, ReadInv, [Next]_vars
    PROVE  ReadInv'
<1>1. CASE UNCHANGED vars
    BY <1>1 DEF vars, ReadInv, Few, BasesApart, ReadSpent, ReadBy
<1>2. CASE \E p \in Peers : InitOutgoing(p)
    <2>1. PICK p \in Peers : InitOutgoing(p)
        BY <1>2
    <2>2. /\ Typed' /\ RecordGoesOn(p) /\ record'[p][opened[p] + 1].base = Fresh(p, 0)
          /\ DOMAIN record'[p] = DOMAIN record[p] \cup {opened[p] + 1}
        BY <2>1, InitOutgoingMoves
    <2>3. \A k \in DOMAIN record[p] : record[p][k].base \in Known
        BY DEF Typed, Good, Sessions
    <2>4. Fresh(p, 0) \notin Known
        BY FreshIsNew DEF Typed
    <2>5. BasesApart'
        BY <2>2, <2>3, <2>4, BasesStayApart DEF ReadInv
    <2>6. NoneRemoved /\ Few'
        BY <2>2, FewStay DEF ReadInv
    <2>7. UNCHANGED read
        BY <2>1 DEF InitOutgoing
    <2>8. ReadSpent'
        BY <2>2, <2>6, <2>7, ReadStays DEF ReadInv, ReadSpent
    <2> QED BY <2>5, <2>6, <2>8 DEF ReadInv
<1>3. CASE \E p \in Peers : Encrypt(p)
    BY <1>3, EncryptMoves, ReadQuiet DEF Encrypt
<1>4. CASE \E p \in Peers, m \in wire : DecryptWhisper(p, m)
    <2>1. PICK p \in Peers, m \in wire : DecryptWhisper(p, m)
        BY <1>4
    <2>2. /\ Typed' /\ RecordGoesOn(p) /\ DOMAIN record'[p] \subseteq DOMAIN record[p]
          /\ NoneRemoved => DOMAIN record'[p] = DOMAIN record[p]
          /\ \E i \in DOMAIN record[p] : i \in DOMAIN record'[p] => Spent(record'[p][i], m)
          /\ ~m.pkmsg /\ read' = [read EXCEPT ![p] = @ \cup {m}]
        BY <2>1, DecryptWhisperMoves
    <2>3. NoneRemoved
        BY <2>2, FewStay DEF ReadInv
    <2>4. ReadBy(p, m)'
        BY <2>2, <2>3 DEF ReadBy
    <2>5. BasesApart'
        BY <2>2, BasesStayApart DEF ReadInv
    <2> QED BY <2>2, <2>4, <2>5, ReadMore
<1>5. CASE \E p \in Peers, m \in wire : DecryptPreKeyKnown(p, m)
    <2>1. PICK p \in Peers, m \in wire : DecryptPreKeyKnown(p, m)
        BY <1>5
    <2>2. /\ Typed' /\ RecordGoesOn(p) /\ DOMAIN record'[p] \subseteq DOMAIN record[p]
          /\ NoneRemoved => DOMAIN record'[p] = DOMAIN record[p]
          /\ \E i \in DOMAIN record[p] :
                /\ i \in DOMAIN record'[p] => Spent(record'[p][i], m) /\ m.base = {record'[p][i].base}
          /\ read' = [read EXCEPT ![p] = @ \cup {m}]
        BY <2>1, DecryptPreKeyKnownMoves
    <2>3. NoneRemoved
        BY <2>2, FewStay DEF ReadInv
    <2>4. ReadBy(p, m)'
        BY <2>2, <2>3 DEF ReadBy
    <2>5. BasesApart'
        BY <2>2, BasesStayApart DEF ReadInv
    <2> QED BY <2>2, <2>4, <2>5, ReadMore
<1>6. CASE \E p \in Peers, m \in wire : DecryptPreKeyNew(p, m)
    <2>1. PICK p \in Peers, m \in wire : DecryptPreKeyNew(p, m)
        BY <1>6
    <2> DEFINE i == opened[p] + 1
    <2>2. /\ Typed' /\ RecordGoesOn(p) /\ DOMAIN record'[p] \subseteq DOMAIN record[p] \cup {i}
          /\ i \in DOMAIN record'[p] =>
                /\ Spent(record'[p][i], m) /\ m.base = {record'[p][i].base}
          /\ NoneRemoved => DOMAIN record'[p] = DOMAIN record[p] \cup {i}
          /\ ~\E k \in DOMAIN record[p] : IsSessionOf(record[p], k, m)
          /\ read' = [read EXCEPT ![p] = @ \cup {m}]
        BY <2>1, DecryptPreKeyNewMoves
    <2> HIDE DEF i
    <2>3. NoneRemoved
        BY <2>2, FewStay DEF ReadInv
    <2>4. ReadBy(p, m)'
        BY <2>2, <2>3 DEF ReadBy
    <2>5. \A k \in DOMAIN record[p] : i \in DOMAIN record'[p] => record'[p][i].base # record[p][k].base
        BY <2>2 DEF IsSessionOf
    <2>6. BasesApart'
        BY <2>2, <2>5, BasesStayApart DEF ReadInv
    <2> QED BY <2>2, <2>4, <2>6, ReadMore
<1>7. CASE \E p \in Peers : Send(p) \/ FinishRead(p) \/ Crash(p)
    <2>1. PICK p \in Peers : Send(p) \/ FinishRead(p) \/ Crash(p)
        BY <1>7
    <2>2. Typed' /\ RecordGoesOn(p) /\ UNCHANGED <<record, read>>
        BY <2>1, QuietMoves
    <2> QED BY <2>2, ReadQuiet
<1> QED BY <1>1, <1>2, <1>3, <1>4, <1>5, <1>6, <1>7 DEF Next

\* It holds at the start.
LEMMA ReadInit == ASSUME MaxSessions \in 0 .. ClosedMax PROVE Init => ReadInv
<1> SUFFICES ASSUME Init PROVE ReadInv
    OBVIOUS
<1>1. \A p \in Peers : DOMAIN record[p] = {} /\ opened[p] = 0 /\ read[p] = {}
    BY DEF Init
<1> QED BY <1>1, SessionRecordAssumption DEF ReadInv, Few, BasesApart, ReadSpent

\* A message key is used once at either end: no message is decrypted twice, however
\* often and however late the server delivers it, and no two messages leave a device
\* under one key, whatever crashes there are.  For a record that keeps all its sessions:
\* where one was removed, a late message could rebuild it.
THEOREM MessageKeysOnce == ASSUME MaxSessions \in 0 .. ClosedMax PROVE Spec => []KeysUsedOnce
<1>1. Init => Typed /\ KeyInv /\ ReadInv
    BY InitTyped, KeysInit, ReadInit
<1>2. Typed /\ KeyInv /\ ReadInv /\ [Next]_vars => (Typed /\ KeyInv /\ ReadInv)'
    BY StepTyped, KeysStep, ReadStep
<1>3. Typed /\ KeyInv /\ ReadInv => KeysUsedOnce
    <2> SUFFICES ASSUME Typed, KeyInv, ReadInv PROVE KeysUsedOnce
        OBVIOUS
    <2>1. \A m, n \in wire : m.key = n.key => m = n
        BY DEF KeyInv, KeysApart, Sent
    <2> QED BY <2>1, SpentIsGone DEF KeysUsedOnce
<1> QED BY <1>1, <1>2, <1>3, PTL DEF Spec

\* p offers the other device to use the pre-keys pre with the base key b.
OffersIn(p, b, pre) ==
    \E i \in DOMAIN record[p] : record[p][i].pending /\ record[p][i].base = b /\ record[p][i].pre = pre

OffersBy(p, b, pre) ==
    \E m \in Sent : m.from = p /\ m.pkmsg /\ m.base = {b} /\ m.pre = pre

Offers(p, b, pre) == OffersIn(p, b, pre) \/ OffersBy(p, b, pre)

HoldsBase(p, b) == \E i \in DOMAIN record[p] : record[p][i].base = b

\* The server gives a pre-key out once, so it is offered with one base key;
\* and it is there until a session with that base key is.
OffersFresh == \A p \in Peers : \A b, pre : Offers(p, b, pre) => pre \cap stock[Other(p)] = {}

OffersApart ==
    \A p \in Peers : \A b, pre, c, key :
        Offers(p, b, pre) /\ Offers(p, c, key) /\ pre \cap key # {} => b = c

OffersMet ==
    \A p \in Peers : \A b, pre :
        Offers(p, b, pre) => pre \subseteq preKeys[Other(p)] \/ HoldsBase(Other(p), b)

\* What a job is going to remove belongs to a session that is stored.
RemovesUsed(p) ==
    job[p].op = "read" =>
        /\ job[p].pre \cap stock[p] = {}
        /\ \A b, pre : Offers(Other(p), b, pre) /\ pre \cap job[p].pre # {} => HoldsBase(p, b)

StockHeld == \A p \in Peers : stock[p] \subseteq preKeys[p]

OfferInv == OffersFresh /\ OffersApart /\ OffersMet /\ StockHeld /\ \A p \in Peers : RemovesUsed(p)

\* A record that loses no session holds every base key it held.
LEMMA HoldsOn ==
    ASSUME NEW p \in Peers, RecordGoesOn(p), NoneRemoved, NEW q \in Peers, NEW b, HoldsBase(q, b)
    PROVE  HoldsBase(q, b)'
<1>1. PICK i \in DOMAIN record[q] : record[q][i].base = b
    BY DEF HoldsBase
<1>2. i \in DOMAIN record'[q] /\ record'[q][i].base = b
    BY <1>1 DEF RecordGoesOn, Goes, Continues
<1> QED BY <1>2 DEF HoldsBase

\* No step but InitOutgoing makes a new offer.
LEMMA OffersStay ==
    ASSUME Typed, NEW p \in Peers, RecordGoesOn(p), Sent' \subseteq Sent \/ Encrypts(p),
           \A i \in DOMAIN record'[p] : i \notin DOMAIN record[p] => ~record'[p][i].pending,
           NEW q \in Peers, NEW b, NEW pre, Offers(q, b, pre)'
    PROVE  Offers(q, b, pre)
<1>1. CASE OffersIn(q, b, pre)'
    <2>1. PICK i \in DOMAIN record'[q] : record'[q][i].pending /\ record'[q][i].base = b /\ record'[q][i].pre = pre
        BY <1>1 DEF OffersIn
    <2>2. i \in DOMAIN record[q] /\ record[q][i].pending /\ record[q][i].base = b /\ record[q][i].pre = pre
        BY <2>1 DEF RecordGoesOn, Goes, Continues
    <2> QED BY <2>2 DEF OffersIn, Offers
<1>2. CASE OffersBy(q, b, pre)'
    <2>1. PICK m \in Sent' : m.from = q /\ m.pkmsg /\ m.base = {b} /\ m.pre = pre
        BY <1>2 DEF OffersBy
    <2>2. CASE m \in Sent
        BY <2>1, <2>2 DEF OffersBy, Offers
    <2>3. CASE m \notin Sent
        <3>1. PICK i \in DOMAIN record[p] : PostedBy(m, p, record[p][i])
            BY <2>3 DEF Encrypts
        <3>2. record[p][i].pending /\ record[p][i].base = b /\ record[p][i].pre = pre /\ q = p
            BY <2>1, <3>1 DEF PostedBy
        <3> QED BY <3>2 DEF OffersIn, Offers
    <2> QED BY <2>2, <2>3
<1> QED BY <1>1, <1>2 DEF Offers

\* A step without a new offer that removes no pre-key.
LEMMA OffersQuiet ==
    ASSUME Typed, Typed', OfferInv, NEW p \in Peers, RecordGoesOn(p), NoneRemoved,
           Sent' \subseteq Sent \/ Encrypts(p),
           \A i \in DOMAIN record'[p] : i \notin DOMAIN record[p] => ~record'[p][i].pending,
           UNCHANGED <<stock, preKeys>>,
           \A q \in Peers \ {p} : job'[q] = job[q], RemovesUsed(p)'
    PROVE  OfferInv'
<1>1. \A q \in Peers : \A b, pre : Offers(q, b, pre)' => Offers(q, b, pre)
    BY OffersStay
<1>2. OffersFresh'
    BY <1>1 DEF OfferInv, OffersFresh
<1>3. OffersApart'
    BY <1>1 DEF OfferInv, OffersApart
<1>4. OffersMet'
    <2> SUFFICES ASSUME NEW q \in Peers, NEW b, NEW pre, Offers(q, b, pre)'
                 PROVE  pre \subseteq preKeys'[Other(q)] \/ HoldsBase(Other(q), b)'
        BY DEF OffersMet
    <2>1. pre \subseteq preKeys[Other(q)] \/ HoldsBase(Other(q), b)
        BY <1>1 DEF OfferInv, OffersMet
    <2>2. Other(q) \in Peers
        BY OtherIs
    <2> QED BY <2>1, <2>2, HoldsOn
<1>5. StockHeld'
    BY DEF OfferInv, StockHeld
<1>6. ASSUME NEW q \in Peers PROVE RemovesUsed(q)'
    <2>1. CASE q = p
        BY <2>1
    <2>2. CASE q # p
        <3>1. job'[q] = job[q] /\ Other(q) \in Peers /\ RemovesUsed(q)
            BY <2>2, OtherIs DEF OfferInv
        <3>2. ASSUME job[q].op = "read", NEW b, NEW pre, Offers(Other(q), b, pre)', pre \cap job[q].pre # {}
              PROVE  HoldsBase(q, b)'
            <4>1. Offers(Other(q), b, pre)
                BY <1>1, <3>1, <3>2
            <4>2. HoldsBase(q, b)
                BY <3>1, <3>2, <4>1 DEF RemovesUsed
            <4> QED BY <4>2, HoldsOn
        <3>3. job[q].op = "read" => job[q].pre \cap stock'[q] = {}
            BY <3>1 DEF RemovesUsed
        <3> QED BY <3>1, <3>2, <3>3 DEF RemovesUsed
    <2> QED BY <2>1, <2>2
<1> QED BY <1>2, <1>3, <1>4, <1>5, <1>6 DEF OfferInv

\* The invariant of the offers holds at the start.
LEMMA OffersInit == Init => OfferInv
<1> SUFFICES ASSUME Init PROVE OfferInv
    OBVIOUS
<1>1. \A p \in Peers : DOMAIN record[p] = {}
    BY DEF Init
<1>2. Sent = {}
    BY DEF Init, Sent, Idle
<1>3. \A p \in Peers : \A b, pre : ~Offers(p, b, pre)
    BY <1>1, <1>2 DEF Offers, OffersIn, OffersBy
<1>4. \A p \in Peers : RemovesUsed(p)
    BY DEF Init, RemovesUsed, Idle
<1>5. StockHeld
    BY DEF Init, StockHeld
<1> QED BY <1>3, <1>4, <1>5 DEF OfferInv, OffersFresh, OffersApart, OffersMet

\* initOutgoing keeps it: the pre-key it offers has left the stock.
LEMMA OffersOfInit ==
    ASSUME Typed, MaxSessions \in 0 .. ClosedMax, ReadInv, OfferInv, NEW p \in Peers, InitOutgoing(p)
    PROVE  OfferInv'
<1> DEFINE q == Other(p)
           i == opened[p] + 1
           new == record'[p][i].pre
           base == record'[p][i].base
<1>1. /\ Typed' /\ RecordGoesOn(p) /\ i \notin DOMAIN record[p]
      /\ new \subseteq stock[q] /\ stock' = [stock EXCEPT ![q] = @ \ new]
      /\ DOMAIN record'[p] = DOMAIN record[p] \cup {i}
    BY InitOutgoingMoves
<1>2. q \in Peers /\ q # p /\ Other(q) = p /\ Peers = {p, q}
    BY OtherIs
<1>3. UNCHANGED <<preKeys, job, wire>> /\ Sent' = Sent
    BY DEF InitOutgoing, Sent
<1>4. NoneRemoved
    BY <1>1, FewStay DEF ReadInv
<1> HIDE DEF q, i, new, base
<1>5. /\ stock'[q] = stock[q] \ new /\ stock'[p] = stock[p]
    BY <1>1, <1>2 DEF Typed
<1>6. \A b, pre : Offers(q, b, pre)' => Offers(q, b, pre)
    BY <1>1, <1>2, <1>3 DEF Offers, OffersIn, OffersBy, RecordGoesOn
<1>7. ASSUME NEW b, NEW pre, Offers(p, b, pre)'
      PROVE  Offers(p, b, pre) \/ (b = base /\ pre = new)
    <2>1. CASE OffersIn(p, b, pre)'
        <3>1. PICK k \in DOMAIN record'[p] : record'[p][k].pending /\ record'[p][k].base = b /\ record'[p][k].pre = pre
            BY <2>1 DEF OffersIn
        <3>2. CASE k = i
            BY <3>1, <3>2 DEF base, new
        <3>3. CASE k # i
            <4>1. k \in DOMAIN record[p] /\ record[p][k].pending /\ record[p][k].base = b /\ record[p][k].pre = pre
                BY <1>1, <3>1, <3>3 DEF RecordGoesOn, Goes, Continues
            <4> QED BY <4>1 DEF Offers, OffersIn
        <3> QED BY <3>2, <3>3
    <2>2. CASE OffersBy(p, b, pre)'
        BY <2>2, <1>3 DEF OffersBy, Offers
    <2> QED BY <1>7, <2>1, <2>2 DEF Offers
<1>8. OffersFresh'
    <2>1. \A b, pre : Offers(p, b, pre)' => pre \cap stock'[q] = {}
        <3> SUFFICES ASSUME NEW b, NEW pre, Offers(p, b, pre)' PROVE pre \cap stock'[q] = {}
            OBVIOUS
        <3>1. CASE Offers(p, b, pre)
            <4>1. pre \cap stock[q] = {}
                BY <3>1 DEF OfferInv, OffersFresh, q
            <4> QED BY <1>5, <4>1
        <3>2. CASE pre = new
            BY <1>5, <3>2
        <3> QED BY <1>7, <3>1, <3>2
    <2>2. \A b, pre : Offers(q, b, pre)' => pre \cap stock'[p] = {}
        BY <1>2, <1>5, <1>6 DEF OfferInv, OffersFresh
    <2> QED BY <1>2, <2>1, <2>2 DEF OffersFresh, q
<1>9. OffersApart'
    <2>1. ASSUME NEW b, NEW pre, NEW c, NEW key, Offers(p, b, pre)', Offers(p, c, key)', pre \cap key # {}
          PROVE  b = c
        <3>1. CASE Offers(p, b, pre) /\ Offers(p, c, key)
            BY <2>1, <3>1 DEF OfferInv, OffersApart
        <3>2. ASSUME NEW x, NEW y, Offers(p, x, y) PROVE y \cap new = {}
            <4>1. y \cap stock[q] = {}
                BY <3>2 DEF OfferInv, OffersFresh, q
            <4> QED BY <1>1, <4>1
        <3> QED BY <1>7, <2>1, <3>1, <3>2
    <2>2. ASSUME NEW b, NEW pre, NEW c, NEW key, Offers(q, b, pre)', Offers(q, c, key)', pre \cap key # {}
          PROVE  b = c
        BY <1>2, <1>6, <2>2 DEF OfferInv, OffersApart
    <2> QED BY <1>2, <2>1, <2>2 DEF OffersApart
<1>10. OffersMet'
    <2>1. ASSUME NEW b, NEW pre, Offers(p, b, pre)'
          PROVE  pre \subseteq preKeys'[q] \/ HoldsBase(q, b)'
        <3>1. CASE Offers(p, b, pre)
            <4>1. pre \subseteq preKeys[q] \/ HoldsBase(q, b)
                BY <3>1 DEF OfferInv, OffersMet, q
            <4> QED BY <1>1, <1>2, <1>3, <1>4, <4>1, HoldsOn
        <3>2. CASE pre = new
            <4>1. stock[q] \subseteq preKeys[q]
                BY <1>2 DEF OfferInv, StockHeld
            <4> QED BY <1>1, <1>3, <3>2, <4>1
        <3> QED BY <1>7, <2>1, <3>1, <3>2
    <2>2. ASSUME NEW b, NEW pre, Offers(q, b, pre)'
          PROVE  pre \subseteq preKeys'[p] \/ HoldsBase(p, b)'
        <3>1. pre \subseteq preKeys[p] \/ HoldsBase(p, b)
            BY <1>2, <1>6, <2>2 DEF OfferInv, OffersMet
        <3> QED BY <1>1, <1>3, <1>4, <3>1, HoldsOn
    <2> QED BY <1>2, <2>1, <2>2 DEF OffersMet, q
<1>11. StockHeld'
    BY <1>2, <1>3, <1>5 DEF OfferInv, StockHeld
<1>12. RemovesUsed(p)'
    <2>1. RemovesUsed(p) /\ job'[p] = job[p]
        BY <1>3 DEF OfferInv
    <2>2. ASSUME NEW b, NEW pre, job[p].op = "read", Offers(q, b, pre)', pre \cap job[p].pre # {} PROVE HoldsBase(p, b)'
        <3>1. HoldsBase(p, b)
            BY <1>6, <2>1, <2>2 DEF RemovesUsed, q
        <3> QED BY <1>1, <1>4, <3>1, HoldsOn
    <2> QED BY <1>5, <2>1, <2>2 DEF RemovesUsed, q
<1>13. RemovesUsed(q)'
    <2>1. RemovesUsed(q) /\ job'[q] = job[q]
        BY <1>2, <1>3 DEF OfferInv
    <2>2. ASSUME NEW b, NEW pre, job[q].op = "read", Offers(p, b, pre)', pre \cap job[q].pre # {} PROVE HoldsBase(q, b)'
        <3>1. CASE Offers(p, b, pre)
            <4>1. HoldsBase(q, b)
                BY <1>2, <2>1, <2>2, <3>1 DEF RemovesUsed
            <4> QED BY <1>1, <1>2, <1>4, <4>1, HoldsOn
        <3>2. CASE pre = new
            BY <1>1, <2>1, <2>2, <3>2 DEF RemovesUsed
        <3> QED BY <1>7, <2>2, <3>1, <3>2
    <2>3. job[q].op = "read" => job[q].pre \cap stock'[q] = {}
        BY <1>5, <2>1 DEF RemovesUsed
    <2> QED BY <1>2, <2>1, <2>2, <2>3 DEF RemovesUsed
<1> QED BY <1>2, <1>8, <1>9, <1>10, <1>11, <1>12, <1>13 DEF OfferInv

\* removePreKey: what goes is offered with the base key of a stored session only.
LEMMA OffersOfFinish ==
    ASSUME Typed, OfferInv, NEW p \in Peers, FinishRead(p)
    PROVE  OfferInv'
<1>1. /\ job[p].op = "read" /\ UNCHANGED <<record, stock, wire>>
      /\ preKeys' = [preKeys EXCEPT ![p] = @ \ job[p].pre] /\ job' = [job EXCEPT ![p] = Idle]
    BY DEF FinishRead
<1>2. /\ preKeys'[p] = preKeys[p] \ job[p].pre /\ \A q \in Peers \ {p} : preKeys'[q] = preKeys[q]
      /\ job'[p].op # "read" /\ \A q \in Peers \ {p} : job'[q] = job[q]
    BY <1>1 DEF Typed, Idle
<1>3. Sent' \subseteq Sent
    BY SentStep
<1>4. \A q \in Peers : \A b, pre : Offers(q, b, pre)' => Offers(q, b, pre)
    BY <1>1, <1>3 DEF Offers, OffersIn, OffersBy
<1>5. \A q \in Peers : \A b : HoldsBase(q, b) <=> HoldsBase(q, b)'
    BY <1>1 DEF HoldsBase
<1>6. OffersFresh' /\ OffersApart'
    BY <1>1, <1>4 DEF OfferInv, OffersFresh, OffersApart
<1>7. OffersMet'
    <2> SUFFICES ASSUME NEW q \in Peers, NEW b, NEW pre, Offers(q, b, pre)'
                 PROVE  pre \subseteq preKeys'[Other(q)] \/ HoldsBase(Other(q), b)'
        BY DEF OffersMet
    <2>1. Offers(q, b, pre) /\ Other(q) \in Peers /\ Other(Other(q)) = q
        BY <1>4, OtherIs
    <2>2. pre \subseteq preKeys[Other(q)] \/ HoldsBase(Other(q), b)
        BY <2>1 DEF OfferInv, OffersMet
    <2>3. CASE Other(q) = p
        <3>1. pre \cap job[p].pre # {} => HoldsBase(p, b)
            BY <1>1, <2>1, <2>3 DEF OfferInv, RemovesUsed
        <3> QED BY <1>2, <1>5, <2>2, <2>3, <3>1
    <2>4. CASE Other(q) # p
        BY <1>2, <1>5, <2>1, <2>2, <2>4
    <2> QED BY <2>3, <2>4
<1>8. StockHeld'
    <2>1. job[p].pre \cap stock[p] = {}
        BY <1>1 DEF OfferInv, RemovesUsed
    <2> QED BY <1>1, <1>2, <2>1 DEF OfferInv, StockHeld
<1>9. ASSUME NEW q \in Peers PROVE RemovesUsed(q)'
    <2>1. CASE q = p
        BY <1>2, <2>1 DEF RemovesUsed
    <2>2. CASE q # p
        <3>1. RemovesUsed(q) /\ job'[q] = job[q] /\ Other(q) \in Peers
            BY <1>2, <2>2, OtherIs DEF OfferInv
        <3> QED BY <1>1, <1>4, <1>5, <3>1 DEF RemovesUsed
    <2> QED BY <2>1, <2>2
<1> QED BY <1>6, <1>7, <1>8, <1>9 DEF OfferInv

\* Every step keeps it.
LEMMA OffersStep ==
    ASSUME Typed, MaxSessions \in 0 .. ClosedMax, ReadInv, OfferInv, [Next]_vars
    PROVE  OfferInv'
<1>1. CASE UNCHANGED vars
    <2>1. /\ \A p, b, pre : Offers(p, b, pre)' <=> Offers(p, b, pre)
          /\ \A p, b : HoldsBase(p, b)' <=> HoldsBase(p, b)
          /\ UNCHANGED <<stock, preKeys, job>>
        BY <1>1 DEF vars, Offers, OffersIn, OffersBy, HoldsBase, Sent
    <2>2. /\ OffersFresh' <=> OffersFresh
          /\ OffersApart' <=> OffersApart
        BY <2>1 DEF OffersFresh, OffersApart
    <2>3. /\ OffersMet' <=> OffersMet
          /\ StockHeld' <=> StockHeld
        BY <2>1 DEF OffersMet, StockHeld
    <2>4. \A p \in Peers : RemovesUsed(p)' <=> RemovesUsed(p)
        BY <2>1 DEF RemovesUsed
    <2> QED BY <2>2, <2>3, <2>4 DEF OfferInv
<1>2. CASE \E p \in Peers : InitOutgoing(p)
    BY <1>2, OffersOfInit
<1>3. CASE \E p \in Peers : Encrypt(p)
    <2>1. PICK p \in Peers : Encrypt(p)
        BY <1>3
    <2>2. Typed' /\ RecordGoesOn(p) /\ DOMAIN record'[p] \subseteq DOMAIN record[p] /\ Encrypts(p)
        BY <2>1, EncryptMoves, SentStep
    <2>3. UNCHANGED <<stock, preKeys>> /\ (\A q \in Peers \ {p} : job'[q] = job[q]) /\ job'[p].op = "send"
        BY <2>1 DEF Encrypt, Typed
    <2>4. NoneRemoved
        BY <2>2, FewStay DEF ReadInv
    <2>5. RemovesUsed(p)'
        BY <2>3 DEF RemovesUsed
    <2> QED BY <2>2, <2>3, <2>4, <2>5, OffersQuiet
<1>4. CASE \E p \in Peers, m \in wire : DecryptWhisper(p, m) \/ DecryptPreKeyKnown(p, m)
    <2>1. PICK p \in Peers, m \in wire : DecryptWhisper(p, m) \/ DecryptPreKeyKnown(p, m)
        BY <1>4
    <2>2. Typed' /\ RecordGoesOn(p) /\ DOMAIN record'[p] \subseteq DOMAIN record[p] /\ Sent' \subseteq Sent
        BY <2>1, DecryptWhisperMoves, DecryptPreKeyKnownMoves, SentStep
    <2>3. job' = [job EXCEPT ![p] = Reading(m, {})] /\ UNCHANGED <<stock, preKeys>>
        BY <2>1 DEF DecryptWhisper, DecryptPreKeyKnown
    <2>4. (\A q \in Peers \ {p} : job'[q] = job[q]) /\ job'[p].pre = {}
        BY <2>3 DEF Typed, Reading
    <2>5. NoneRemoved
        BY <2>2, FewStay DEF ReadInv
    <2>6. RemovesUsed(p)'
        BY <2>4 DEF RemovesUsed
    <2> QED BY <2>2, <2>3, <2>4, <2>5, <2>6, OffersQuiet
<1>5. CASE \E p \in Peers, m \in wire : DecryptPreKeyNew(p, m)
    <2>1. PICK p \in Peers, m \in wire : DecryptPreKeyNew(p, m)
        BY <1>5
    <2> DEFINE i == opened[p] + 1
    <2>2. /\ Typed' /\ RecordGoesOn(p)
          /\ DOMAIN record'[p] \subseteq DOMAIN record[p] \cup {i}
          /\ i \in DOMAIN record'[p] => ~record'[p][i].pending /\ m.base = {record'[p][i].base}
          /\ NoneRemoved => DOMAIN record'[p] = DOMAIN record[p] \cup {i}
          /\ m.pkmsg /\ m.from = Other(p) /\ job' = [job EXCEPT ![p] = Reading(m, m.pre)] /\ Sent' \subseteq Sent
        BY <2>1, DecryptPreKeyNewMoves, SentStep
    <2>3. UNCHANGED <<stock, preKeys>>
        BY <2>1 DEF DecryptPreKeyNew
    <2>4. (\A q \in Peers \ {p} : job'[q] = job[q]) /\ job'[p].pre = m.pre
        BY <2>2 DEF Typed, Reading
    <2> HIDE DEF i
    <2>5. NoneRemoved
        BY <2>2, FewStay DEF ReadInv
    <2>6. \A k \in DOMAIN record'[p] : k \notin DOMAIN record[p] => ~record'[p][k].pending
        BY <2>2
    <2> DEFINE q == Other(p)
    <2> PICK b : b = record'[p][i].base
        OBVIOUS
    <2>7. q \in Peers /\ Other(q) = p /\ m \in Sent /\ m.base = {b} /\ HoldsBase(p, b)'
        BY <2>2, <2>5, OtherIs DEF Sent, HoldsBase
    <2>8. Offers(q, b, m.pre)
        BY <2>2, <2>7 DEF Offers, OffersBy
    <2> HIDE DEF q
    <2>9. \A c, pre : Offers(q, c, pre)' => Offers(q, c, pre)
        BY <2>2, <2>6, <2>7, OffersStay
    <2>10. RemovesUsed(p)'
        <3>1. m.pre \cap stock'[p] = {}
            BY <2>3, <2>7, <2>8 DEF OfferInv, OffersFresh
        <3>2. ASSUME NEW c, NEW pre, Offers(q, c, pre)', pre \cap m.pre # {} PROVE HoldsBase(p, c)'
            <4>1. c = b
                BY <2>7, <2>8, <2>9, <3>2 DEF OfferInv, OffersApart
            <4> QED BY <2>7, <4>1
        <3> QED BY <2>4, <3>1, <3>2 DEF RemovesUsed, q
    <2> QED BY <2>2, <2>3, <2>4, <2>5, <2>6, <2>10, OffersQuiet
<1>6. CASE \E p \in Peers : FinishRead(p)
    BY <1>6, OffersOfFinish
<1>7. CASE \E p \in Peers : Send(p) \/ Crash(p)
    <2>1. PICK p \in Peers : Send(p) \/ Crash(p)
        BY <1>7
    <2>2. Typed' /\ RecordGoesOn(p) /\ Sent' \subseteq Sent /\ UNCHANGED record
        BY <2>1, QuietMoves, SentStep
    <2>3. UNCHANGED <<stock, preKeys>> /\ job' = [job EXCEPT ![p] = Idle]
        BY <2>1 DEF Send, Crash
    <2>4. (\A q \in Peers \ {p} : job'[q] = job[q]) /\ job'[p].op # "read"
        BY <2>3 DEF Typed, Idle
    <2>5. NoneRemoved
        BY <2>2, FewStay DEF ReadInv
    <2>6. RemovesUsed(p)'
        BY <2>4 DEF RemovesUsed
    <2> QED BY <2>2, <2>3, <2>4, <2>5, <2>6, OffersQuiet
<1> QED BY <1>1, <1>2, <1>3, <1>4, <1>5, <1>6, <1>7 DEF Next

\* A pre-key message, whenever it comes, finds its one-time pre-key or the session
\* that was built with it, whatever crashes there are between the save of the session
\* and the removal of the pre-key.  For a record that keeps all its sessions.
THEOREM PreKeysLast == ASSUME MaxSessions \in 0 .. ClosedMax PROVE Spec => []PreKeyOrSession
<1>1. Init => Typed /\ ReadInv /\ OfferInv
    BY InitTyped, ReadInit, OffersInit
<1>2. Typed /\ ReadInv /\ OfferInv /\ [Next]_vars => (Typed /\ ReadInv /\ OfferInv)'
    BY StepTyped, ReadStep, OffersStep
<1>3. Typed /\ OfferInv => PreKeyOrSession
    <2> SUFFICES ASSUME Typed, OfferInv, NEW p \in Peers, NEW m \in SentBy(Other(p)), m.pkmsg
                 PROVE  \/ m.pre \subseteq preKeys[p]
                        \/ \E i \in DOMAIN record[p] : IsSessionOf(record[p], i, m)
        BY DEF PreKeyOrSession
    <2>1. Other(p) \in Peers /\ Other(Other(p)) = p /\ m.from = Other(p) /\ m \in Sent
        BY OtherIs DEF SentBy, Sent
    <2>2. PICK b \in Known : m.base = {b}
        BY <2>1, SentPosted DEF PostedSet, Posted
    <2>3. Offers(Other(p), b, m.pre)
        BY <2>1, <2>2 DEF Offers, OffersBy
    <2>4. m.pre \subseteq preKeys[p] \/ HoldsBase(p, b)
        BY <2>1, <2>3 DEF OfferInv, OffersMet
    <2> QED BY <2>2, <2>4 DEF HoldsBase, IsSessionOf
<1> QED BY <1>1, <1>2, <1>3, PTL DEF Spec

\* What SessionStore knows of a record.
View(rec) == [i \in DOMAIN rec |-> [closed |-> rec[i].closed]]

Timed(rec) == \A i \in DOMAIN rec : \E K : rec[i] \in Sessions(K)

\* The operators of SessionRecord see only when a session was closed.
LEMMA ViewSame ==
    ASSUME NEW rec
    PROVE  /\ DOMAIN View(rec) = DOMAIN rec
           /\ \A i \in DOMAIN rec : IsClosed(View(rec), i) <=> IsClosed(rec, i)
           /\ OpenSessions(View(rec)) = OpenSessions(rec)
           /\ \A i \in DOMAIN rec : IsOpenSession(View(rec), i) <=> IsOpenSession(rec, i)
<1>1. DOMAIN View(rec) = DOMAIN rec /\ \A i \in DOMAIN rec : View(rec)[i].closed = rec[i].closed
    BY DEF View
<1>2. \A i \in DOMAIN rec : IsClosed(View(rec), i) <=> IsClosed(rec, i)
    BY <1>1 DEF IsClosed
<1>3. OpenSessions(View(rec)) = OpenSessions(rec)
    BY <1>1, <1>2 DEF OpenSessions
<1> QED BY <1>1, <1>2, <1>3 DEF IsOpenSession

\* So removeOldSessions leaves the same,
LEMMA ViewKept ==
    ASSUME NEW rec
    PROVE  Kept(View(rec)) = Kept(rec)
<1>1. DOMAIN View(rec) = DOMAIN rec /\ \A i \in DOMAIN rec : View(rec)[i].closed = rec[i].closed
    BY DEF View
<1> DEFINE v == View(rec)
<1> HIDE DEF v
<1>2. ASSUME NEW kept \in SUBSET DOMAIN rec PROVE Leaves(v, kept) <=> Leaves(rec, kept)
    <2>1. \A i \in DOMAIN rec : IsClosed(v, i) <=> IsClosed(rec, i)
        BY <1>1 DEF IsClosed, v
    <2>2. \A i, k \in DOMAIN rec : RemovedBefore(v, i, k) <=> RemovedBefore(rec, i, k)
        BY <1>1 DEF RemovedBefore, v
    <2> QED BY <1>1, <2>1, <2>2 DEF Leaves, v
<1> QED BY <1>1, <1>2 DEF Kept, v

\* and the record it leaves looks the same;
LEMMA ViewKeepOnly ==
    ASSUME NEW rec, NEW kept \in SUBSET DOMAIN rec
    PROVE  View(KeepOnly(rec, kept)) = KeepOnly(View(rec), kept)
BY DEF View, KeepOnly

\* so do closing the open session and putting one in.
LEMMA ViewPutClosed ==
    ASSUME NEW rec, Timed(rec), NEW t, NEW n, NEW s
    PROVE  View(Put(CloseOpen(rec, t), n, s)) = Put(CloseOpen(View(rec), t), n, [closed |-> s.closed])
<1> DEFINE old == CloseOpen(rec, t)
           v == View(rec)
           cv == CloseOpen(v, t)
<1>1. /\ DOMAIN v = DOMAIN rec /\ \A i \in DOMAIN rec : v[i] = [closed |-> rec[i].closed]
      /\ \A i \in DOMAIN rec : IsOpenSession(v, i) <=> IsOpenSession(rec, i)
    BY ViewSame DEF View
<1>2. ASSUME NEW i \in DOMAIN rec
      PROVE  [closed |-> old[i].closed] = cv[i]
    <2>1. PICK K : rec[i] \in Sessions(K)
        BY DEF Timed
    <2>2. CASE IsOpenSession(rec, i)
        <3>1. old[i] = [rec[i] EXCEPT !.closed = t] /\ cv[i] = [v[i] EXCEPT !.closed = t]
            BY <1>1, <2>2 DEF CloseOpen
        <3>2. old[i].closed = t
            BY <2>1, <3>1 DEF Sessions
        <3>3. cv[i] = [closed |-> t]
            BY <1>1, <3>1
        <3> QED BY <3>2, <3>3
    <2>3. CASE ~IsOpenSession(rec, i)
        BY <1>1, <2>3 DEF CloseOpen
    <2> QED BY <2>2, <2>3
<1>3. DOMAIN old = DOMAIN rec /\ DOMAIN cv = DOMAIN rec
    BY <1>1 DEF CloseOpen
<1> HIDE DEF old, v, cv
<1> QED BY <1>2, <1>3 DEF View, Put, old, v, cv

\* A save, as SessionStore sees it.
LEMMA ViewSave ==
    ASSUME NEW p \in Peers, DOMAIN record = Peers, NEW rec, Save(p, rec)
    PROVE  \E kept \in Kept(View(rec)) : View(record'[p]) = KeepOnly(View(rec), kept)
<1>1. PICK kept \in Kept(rec) : record' = [record EXCEPT ![p] = KeepOnly(rec, kept)]
    BY DEF Save
<1>2. kept \in SUBSET DOMAIN rec /\ kept \in Kept(View(rec))
    BY ViewKept DEF Kept
<1>3. record'[p] = KeepOnly(rec, kept)
    BY <1>1
<1> QED BY <1>2, <1>3, ViewKeepOnly

\* The actions of SessionStore, in terms of what it sees.
LEMMA StoreInitIs ==
    ASSUME NEW p \in Peers, DOMAIN record[p] = {}, opened[p] = 0, clock[p] = 0
    PROVE  Store(p)!StoreInit
BY DEF Store!StoreInit, Store!NewEntry

\* initOutgoing is one of them,
LEMMA StoreOutgoing ==
    ASSUME NEW p \in Peers, NEW t \in Times, opened[p] < MaxSessions, clock[p] <= t, clock'[p] = t,
           View(record'[p]) = Put(CloseOpen(View(record[p]), t), opened[p] + 1, [closed |-> -1]),
           opened'[p] = opened[p] + 1
    PROVE  Store(p)!StoreNext
<1>1. Store(p)!InitOutgoing(t)
    BY DEF Store!InitOutgoing, Store!At, Store!Put, Store!CloseOpen, Store!IsOpenSession, Store!OpenSessions,
           Store!IsClosed, Store!Open, Store!NewEntry, View, Put, CloseOpen, IsOpenSession, OpenSessions, IsClosed, Open
<1> QED BY <1>1 DEF Store!StoreNext

\* Counting is the same in both.
LEMMA StoreCounts ==
    ASSUME NEW p, NEW S
    PROVE  Store(p)!Cardinality(S) = Cardinality(S)
BY DEF Store!Cardinality, Cardinality

\* removeOldSessions is the same in both.
StoreKeeps(p, rec) ==
    /\ Store(p)!Kept(rec) = Kept(rec)
    /\ \A kept : Store(p)!KeepOnly(rec, kept) = KeepOnly(rec, kept)

\* StoreKeeps holds of every record.
LEMMA StoreKept ==
    ASSUME NEW p, NEW rec
    PROVE  StoreKeeps(p, rec)
<1>1. \A kept : Store(p)!Leaves(rec, kept) <=> Leaves(rec, kept)
    BY StoreCounts DEF Store!Leaves, Store!RemovedBefore, Store!IsClosed, Store!Open, Leaves, RemovedBefore, IsClosed, Open
<1> QED BY <1>1 DEF StoreKeeps, Store!Kept, Kept, Store!KeepOnly, KeepOnly

\* a job that saves the sessions it found is Use,
LEMMA StoreUse ==
    ASSUME NEW p \in Peers, NEW t \in Times, DOMAIN record = Peers, DOMAIN record[p] # {},
           clock[p] <= t, clock'[p] = t, opened[p] \in Nat, opened'[p] = opened[p],
           NEW rec, View(rec) = View(record[p]), Save(p, rec)
    PROVE  Store(p)!StoreNext
<1> DEFINE v == View(record[p])
<1>1. PICK kept \in Kept(v) : View(record'[p]) = KeepOnly(v, kept)
    BY ViewSave
<1>2. DOMAIN v # {}
    BY DEF View
<1>3. StoreKeeps(p, v)
    BY StoreKept
<1>4. v = [i \in DOMAIN record[p] |-> [closed |-> record[p][i].closed]]
    BY DEF View
<1> HIDE DEF v
<1>5. Store(p)!StoreRecord(v, 0)
    BY <1>1, <1>3 DEF Store!StoreRecord, View, StoreKeeps
<1>6. Store(p)!Use(t)
    BY <1>2, <1>4, <1>5 DEF Store!Use, Store!At
<1> QED BY <1>6 DEF Store!StoreNext

\* and one that saves one more is InitIncoming.
LEMMA StoreIncoming ==
    ASSUME NEW p \in Peers, NEW t \in Times, DOMAIN record = Peers, opened[p] < MaxSessions,
           clock[p] <= t, clock'[p] = t, opened'[p] = opened[p] + 1,
           NEW rec, View(rec) = Put(CloseOpen(View(record[p]), t), opened[p] + 1, [closed |-> -1]), Save(p, rec)
    PROVE  Store(p)!StoreNext
<1> DEFINE new == Put(CloseOpen(View(record[p]), t), opened[p] + 1, [closed |-> -1])
<1>1. PICK kept \in Kept(new) : View(record'[p]) = KeepOnly(new, kept)
    BY ViewSave
<1>2. new = Store(p)!Put(Store(p)!CloseOpen(View(record[p]), t), opened[p] + 1, Store(p)!NewEntry)
    BY DEF Store!Put, Store!CloseOpen, Store!IsOpenSession, Store!OpenSessions, Store!IsClosed, Store!Open,
           Store!NewEntry, Put, CloseOpen, IsOpenSession, OpenSessions, IsClosed, Open
<1> HIDE DEF new
<1>5. StoreKeeps(p, new)
    BY StoreKept
<1>3. Store(p)!StoreRecord(new, 1)
    BY <1>1, <1>5 DEF Store!StoreRecord, View, StoreKeeps
<1>4. Store(p)!InitIncoming(t)
    BY <1>2, <1>3 DEF Store!InitIncoming, Store!At, View
<1> QED BY <1>4 DEF Store!StoreNext

\* A device that saves nothing stutters.
LEMMA StoreRests ==
    ASSUME NEW p \in Peers, record'[p] = record[p], opened'[p] = opened[p], clock'[p] = clock[p]
    PROVE  UNCHANGED Store(p)!storeVars
BY DEF Store!storeVars

\* An attempt to read leaves a session open or closed as it was.
LEMMA AttemptKeepsClosed ==
    ASSUME Typed, NEW p \in Peers, NEW m \in wire, NEW k \in DOMAIN record[p]
    PROVE  /\ AfterAttempt(record[p][k], m, Fresh(p, k)).closed = record[p][k].closed
           /\ [AfterAttempt(record[p][k], m, Fresh(p, k)) EXCEPT !.used = clock[p] + 1].closed = record[p][k].closed
<1>1. k \in Nat /\ Good(Known, record[p][k]) /\ m \in Messages(Known) /\ fresh \in [Peers -> Nat]
    BY DEF Typed, PostedSet
<1>2. Fresh(p, k) \notin Known
    BY <1>1 DEF Known, Fresh
<1> DEFINE r == AfterAttempt(record[p][k], m, Fresh(p, k))
<1>3. GoesOn(record[p][k], r, Known, Fresh(p, k))
    BY <1>1, <1>2, AttemptGoesOn DEF Good
<1> HIDE DEF r
<1>4. r \in Sessions(Known \cup {Fresh(p, k)}) /\ r.closed = record[p][k].closed
    BY <1>3 DEF GoesOn, SameEntry
<1>5. [r EXCEPT !.used = clock[p] + 1].closed = r.closed
    BY <1>4 DEF Sessions
<1> QED BY <1>4, <1>5 DEF r

StoreActs(p) == Store(p)!StoreNext \/ UNCHANGED Store(p)!storeVars

\* Records with the same closing times look the same.
LEMMA SameView ==
    ASSUME NEW rec, NEW old, DOMAIN rec = DOMAIN old, \A k \in DOMAIN old : rec[k].closed = old[k].closed
    PROVE  View(rec) = View(old)
BY DEF View

\* The clocks are instants.
LEMMA ClockIs ==
    ASSUME Typed, NEW p \in Peers
    PROVE  /\ clock[p] \in Nat /\ opened[p] \in Nat /\ clock[p] <= clock[p] /\ clock[p] <= clock[p] + 1
           /\ clock[p] + 1 \in Nat
           /\ Tick(p) => clock'[p] = clock[p] + 1 /\ \A q \in Peers \ {p} : clock'[q] = clock[q]
BY DEF Typed, Tick

\* initOutgoing is InitOutgoing of SessionStore.
LEMMA OutgoingActs ==
    ASSUME Nat \subseteq Times, Typed, NEW p \in Peers, InitOutgoing(p)
    PROVE  StoreActs(p)
<1> DEFINE t == clock[p] + 1
           i == opened[p] + 1
<1>1. PICK bundle \in Bundles(Other(p)) :
          record' = [record EXCEPT ![p] = Put(CloseOpen(@, t), i, Initiator(Identity(p), bundle, Fresh(p, 0), Fresh(p, i), t))]
    BY DEF InitOutgoing
<1> DEFINE s == Initiator(Identity(p), bundle, Fresh(p, 0), Fresh(p, i), t)
<1>2. s.closed = -1
    BY DEF Initiator
<1> HIDE DEF s
<1>3. record'[p] = Put(CloseOpen(record[p], t), i, s)
    BY <1>1 DEF Typed, s
<1>4. t \in Times /\ clock[p] <= t /\ clock'[p] = t
    BY ClockIs DEF InitOutgoing
<1>5. Timed(record[p])
    BY DEF Timed, Typed, Good
<1> HIDE DEF t
<1>6. View(record'[p]) = Put(CloseOpen(View(record[p]), t), i, [closed |-> -1])
    BY <1>2, <1>3, <1>5, ViewPutClosed
<1>7. opened[p] < MaxSessions /\ opened'[p] = i
    BY DEF InitOutgoing, Typed
<1> QED BY <1>4, <1>6, <1>7, StoreOutgoing DEF StoreActs

\* encrypt is Use,
LEMMA EncryptActs ==
    ASSUME Nat \subseteq Times, Typed, NEW p \in Peers, Encrypt(p)
    PROVE  StoreActs(p)
<1>1. PICK i \in DOMAIN record[p] : Save(p, [record[p] EXCEPT ![i] = Encrypted(@)])
    BY DEF Encrypt
<1> DEFINE rec == [record[p] EXCEPT ![i] = Encrypted(@)]
<1>2. record[p][i] \in Sessions(Known)
    BY DEF Typed, Good
<1>3. Encrypted(record[p][i]).closed = record[p][i].closed
    BY <1>2 DEF Encrypted, Sessions
<1>4. DOMAIN rec = DOMAIN record[p] /\ \A k \in DOMAIN record[p] : rec[k].closed = record[p][k].closed
    BY <1>3 DEF Typed, IsMap
<1> HIDE DEF rec
<1>5. View(rec) = View(record[p])
    BY <1>4, SameView
<1>6. clock[p] \in Times /\ opened[p] \in Nat /\ clock[p] <= clock[p] /\ UNCHANGED <<clock, opened>>
    BY ClockIs DEF Encrypt
<1>7. DOMAIN record = Peers /\ DOMAIN record[p] # {}
    BY DEF Typed
<1> QED BY <1>1, <1>5, <1>6, <1>7, StoreUse DEF StoreActs, rec

\* and so are decryptWhisperMessage, the attempts that failed included,
LEMMA WhisperActs ==
    ASSUME Nat \subseteq Times, Typed, NEW p \in Peers, NEW m \in wire, DecryptWhisper(p, m)
    PROVE  StoreActs(p)
<1>1. PICK i \in DOMAIN record[p] : Save(p, AfterSearch(p, m, i))
    BY DEF DecryptWhisper
<1> DEFINE rec == AfterSearch(p, m, i)
<1>2. DOMAIN rec = DOMAIN record[p]
    BY DEF AfterSearch
<1>3. \A k \in DOMAIN record[p] : rec[k].closed = record[p][k].closed
    BY AttemptKeepsClosed DEF AfterSearch
<1> HIDE DEF rec
<1>4. View(rec) = View(record[p])
    BY <1>2, <1>3, SameView
<1> DEFINE t == clock[p] + 1
<1>5. t \in Times /\ opened[p] \in Nat /\ clock[p] <= t /\ clock'[p] = t /\ UNCHANGED opened
    BY ClockIs DEF DecryptWhisper
<1>6. DOMAIN record = Peers /\ DOMAIN record[p] # {}
    BY DEF Typed
<1> HIDE DEF t
<1> QED BY <1>1, <1>4, <1>5, <1>6, StoreUse DEF StoreActs, rec

\* and decryptPreKeyWhisperMessage on a session the record holds.
LEMMA KnownActs ==
    ASSUME Nat \subseteq Times, Typed, NEW p \in Peers, NEW m \in wire, DecryptPreKeyKnown(p, m)
    PROVE  StoreActs(p)
<1>1. PICK i \in DOMAIN record[p] : Save(p, [record[p] EXCEPT ![i] = AfterAttempt(@, m, Fresh(p, i))])
    BY DEF DecryptPreKeyKnown
<1> DEFINE rec == [record[p] EXCEPT ![i] = AfterAttempt(@, m, Fresh(p, i))]
<1>2. DOMAIN rec = DOMAIN record[p] /\ \A k \in DOMAIN record[p] : rec[k].closed = record[p][k].closed
    BY AttemptKeepsClosed DEF Typed, IsMap
<1> HIDE DEF rec
<1>3. View(rec) = View(record[p])
    BY <1>2, SameView
<1>4. clock[p] \in Times /\ opened[p] \in Nat /\ clock[p] <= clock[p] /\ UNCHANGED <<clock, opened>>
    BY ClockIs DEF DecryptPreKeyKnown
<1>5. DOMAIN record = Peers /\ DOMAIN record[p] # {}
    BY DEF Typed
<1> QED BY <1>1, <1>3, <1>4, <1>5, StoreUse DEF StoreActs, rec

\* On one it does not hold it is InitIncoming.
LEMMA NewActs ==
    ASSUME Nat \subseteq Times, Typed, NEW p \in Peers, NEW m \in wire, DecryptPreKeyNew(p, m)
    PROVE  StoreActs(p)
<1> DEFINE t == clock[p] + 1
           i == opened[p] + 1
           f == Fresh(p, i)
           b == CHOOSE x \in m.base : TRUE
           s == Incoming(p, m)
           r == AfterAttempt(s, m, f)
           rec == Put(CloseOpen(record[p], t), i, r)
<1>1. /\ Save(p, rec) /\ opened[p] < MaxSessions /\ opened' = [opened EXCEPT ![p] = @ + 1]
      /\ Tick(p) /\ CanBuild(p, m) /\ m.pkmsg
    BY DEF DecryptPreKeyNew
<1>2. m \in Messages(Known) /\ Posted(Known, m) /\ Other(p) \in Peers
    BY OtherIs DEF Typed, PostedSet
<1>3. b \in Known
    BY <1>1, <1>2 DEF Posted
<1>4. r.closed = -1
    <2>1. s.closed = -1 /\ IsResponder(s, p, Other(p), m.pre, b, t)
        BY DEF IsResponder, Incoming, Responder
    <2>2. m.pre \in SUBSET Known /\ t \in Int /\ opened[p] \in Nat /\ fresh \in [Peers -> Nat]
        BY <1>2 DEF Messages, Typed
    <2>3. s \in Sessions(Known)
        BY <1>2, <1>3, <2>1, <2>2, ResponderIsSound
    <2>4. f \notin Known
        BY <2>2 DEF Known, Fresh
    <2> HIDE DEF s, f
    <2>5. GoesOn(s, r, Known, f)
        BY <1>2, <2>3, <2>4, AttemptGoesOn
    <2> QED BY <2>1, <2>5 DEF GoesOn, SameEntry
<1>5. Timed(record[p])
    BY DEF Timed, Typed, Good
<1>6. t \in Times /\ clock[p] <= t /\ clock'[p] = t /\ opened'[p] = i
    BY <1>1, ClockIs DEF Typed
<1>7. DOMAIN record = Peers
    BY DEF Typed
<1> HIDE DEF t, r
<1>8. View(rec) = Put(CloseOpen(View(record[p]), t), i, [closed |-> -1])
    BY <1>4, <1>5, ViewPutClosed
<1> QED BY <1>1, <1>6, <1>7, <1>8, StoreIncoming DEF StoreActs

\* The other device does nothing in a step of this one.
LEMMA OthersRest ==
    ASSUME Typed, NEW p \in Peers, NEW q \in Peers, q # p, RecordGoesOn(p),
           Tick(p) \/ UNCHANGED clock
    PROVE  StoreActs(q)
<1>1. record'[q] = record[q] /\ opened'[q] = opened[q] /\ clock'[q] = clock[q]
    BY ClockIs DEF RecordGoesOn
<1> QED BY <1>1, StoreRests DEF StoreActs

\* Every step is a step of SessionStore on either side, or none.
LEMMA AllAct ==
    ASSUME Nat \subseteq Times, Typed, [Next]_vars, NEW q \in Peers
    PROVE  StoreActs(q)
<1>1. CASE UNCHANGED vars
    BY <1>1, StoreRests DEF vars, StoreActs
<1>2. ASSUME NEW p \in Peers, InitOutgoing(p) PROVE StoreActs(q)
    BY <1>2, InitOutgoingMoves, OutgoingActs, OthersRest DEF InitOutgoing
<1>3. ASSUME NEW p \in Peers, Encrypt(p) PROVE StoreActs(q)
    BY <1>3, EncryptMoves, EncryptActs, OthersRest DEF Encrypt
<1>4. ASSUME NEW p \in Peers, NEW m \in wire, DecryptWhisper(p, m) PROVE StoreActs(q)
    BY <1>4, DecryptWhisperMoves, WhisperActs, OthersRest DEF DecryptWhisper
<1>5. ASSUME NEW p \in Peers, NEW m \in wire, DecryptPreKeyKnown(p, m) PROVE StoreActs(q)
    BY <1>5, DecryptPreKeyKnownMoves, KnownActs, OthersRest DEF DecryptPreKeyKnown
<1>6. ASSUME NEW p \in Peers, NEW m \in wire, DecryptPreKeyNew(p, m) PROVE StoreActs(q)
    BY <1>6, DecryptPreKeyNewMoves, NewActs, OthersRest DEF DecryptPreKeyNew
<1>7. ASSUME NEW p \in Peers, Send(p) \/ FinishRead(p) \/ Crash(p) PROVE StoreActs(q)
    <2>1. UNCHANGED <<record, opened, clock>>
        BY <1>7 DEF Send, FinishRead, Crash
    <2> QED BY <2>1, StoreRests DEF StoreActs
<1> QED BY <1>1, <1>2, <1>3, <1>4, <1>5, <1>6, <1>7 DEF Next

\* Refinement: what the two devices do to their records, keys and chains forgotten,
\* is what SessionStore says, step by step: its theorems (at most one session is open,
\* the newest are kept, closing follows opening) hold of a conversation too.
THEOREM RecordsKept == ASSUME Nat \subseteq Times PROVE Spec => KeepsRecords
<1>1. Init => \A p \in Peers : Store(p)!StoreInit
    BY StoreInitIs DEF Init
<1>2. Typed /\ [Next]_vars => [\A p \in Peers : Store(p)!StoreNext \/ UNCHANGED Store(p)!storeVars]_vars
    BY AllAct DEF StoreActs
<1> QED BY <1>1, <1>2, ConversationTyped, PTL DEF Spec, KeepsRecords

-----------------------------------------------------------------------------
\* With one session between the two devices, every message can be read.

\* Session x has the chain that y sends on, and is not ahead of it.
Follows(y, x) ==
    /\ HasChain(x, y.eph) /\ SendCounter(y) >= 0
    /\ LET c == x.chains[y.eph]
       IN ~c.sending /\ c.live /\ c.seed = SendSeed(y) /\ c.counter <= SendCounter(y)

\* x has stepped its ratchet last: its root comes after that of y, which
\* does not know the new key yet.
Ahead(x, y) ==
    /\ x.root = Append(y.root, {y.eph, x.eph}) /\ x.remote = y.eph
    /\ CanEncrypt(x) /\ SendSeed(x) = x.root /\ ~HasChain(y, x.eph)
    /\ HasChain(y, y.eph) => CanEncrypt(y) /\ Follows(y, x)

\* The chain c has the key of m, or can still make it where it is the last,
\* unless m was read.
HasKey(c, m, done, last) ==
    /\ ~c.sending /\ c.seed = m.key[1]
    /\ m.ctr <= c.counter => done \/ m.ctr \in c.keys
    /\ m.ctr > c.counter => last

HoldsKey(y, m, R) == HasChain(y, m.eph) /\ HasKey(y.chains[m.eph], m, m \in R, m.eph = y.remote)

\* What the session x says of a message of its own.
SentOn(x, m) == m.eph = x.eph => m.ctr <= SendCounter(x) /\ m.key[1] = SendSeed(x) /\ m.prev = x.prev

LastIsLive(y) == HasChain(y, y.remote) => y.chains[y.remote].live

\* x is ahead of y, M and N are the messages of either, R and S what was read
\* of them: y has the keys of M but for those of the new chain, and
\* what the message that ends its last chain says is the end of it.
Leads(x, y, M, N, R, S) ==
    /\ Ahead(x, y) /\ LastIsLive(x) /\ LastIsLive(y)
    /\ \A m \in M :
          /\ SentOn(x, m)
          /\ m.eph # x.eph => HoldsKey(y, m, R) /\ (m.eph = y.remote => m.ctr <= x.prev)
    /\ \A n \in N : HasChain(y, y.eph) /\ SentOn(y, n) /\ HoldsKey(x, n, S)

Pair(x, y, M, N, R, S) == Leads(x, y, M, N, R, S) \/ Leads(y, x, N, M, S, R)

\* No counter of s has reached n.
Below(s, n) == (CanEncrypt(s) => SendCounter(s) < n) /\ s.prev \in Nat /\ (s.prev = 0 \/ s.prev < n)

\* What fillMessageKeys makes of a chain.
FilledTo(c, n, d) ==
    /\ d.seed = c.seed /\ d.sending = c.sending /\ d.live = c.live
    /\ c.counter >= n => d.counter = c.counter /\ d.keys = c.keys
    /\ c.counter < n => d.counter = n /\ d.keys = c.keys \cup (c.counter + 1) .. n

\* So fillMessageKeys does to a chain.
LEMMA FilledIs ==
    ASSUME NEW K, NEW c \in Chains(K), NEW n \in Nat
    PROVE  Filled(c, n) \in Chains(K) /\ FilledTo(c, n, Filled(c, n))
<1>1. Filled(c, n) \in Chains(K)
    BY FilledGrows
<1>2. c.counter \in Int
    BY DEF Chains
<1>3. CASE c.counter >= n
    BY <1>2, <1>3 DEF Filled, FilledTo
<1>4. CASE c.counter < n
    <2>1. /\ Filled(c, n).seed = c.seed /\ Filled(c, n).sending = c.sending /\ Filled(c, n).live = c.live
          /\ Filled(c, n).counter = n /\ Filled(c, n).keys = c.keys \cup (c.counter + 1) .. n
        BY <1>2, <1>4 DEF Filled, Chains
    <2> QED BY <1>1, <1>2, <1>4, <2>1 DEF FilledTo
<1> QED BY <1>1, <1>2, <1>3, <1>4

\* The chain when a key was taken out of it, and when it is closed.
Taken(c, n) == [Filled(c, n) EXCEPT !.keys = Filled(c, n).keys \ {n}]
Closed(c, n) == [Filled(c, n) EXCEPT !.live = FALSE]

\* Taking a key leaves the rest of the chain,
LEMMA TakenIs ==
    ASSUME NEW K, NEW c \in Chains(K), NEW n \in Nat
    PROVE  LET d == Taken(c, n) g == Filled(c, n)
           IN /\ d \in Chains(K) /\ d.seed = c.seed /\ d.sending = c.sending /\ d.live = c.live
              /\ d.counter = g.counter /\ d.keys = g.keys \ {n}
<1> DEFINE g == Filled(c, n)
<1>1. g \in Chains(K) /\ FilledTo(c, n, g)
    BY FilledIs
<1> HIDE DEF g
<1>2. [g EXCEPT !.keys = g.keys \ {n}] \in Chains(K)
    BY <1>1 DEF Chains
<1>3. LET d == [g EXCEPT !.keys = g.keys \ {n}]
      IN d.seed = g.seed /\ d.sending = g.sending /\ d.live = g.live /\ d.counter = g.counter /\ d.keys = g.keys \ {n}
    BY <1>1 DEF Chains
<1> QED BY <1>1, <1>2, <1>3 DEF Taken, g, FilledTo

\* and so does closing it.
LEMMA ClosedIs ==
    ASSUME NEW K, NEW c \in Chains(K), NEW n \in Nat
    PROVE  LET d == Closed(c, n) g == Filled(c, n)
           IN /\ d \in Chains(K) /\ d.seed = c.seed /\ d.sending = c.sending
              /\ d.counter = g.counter /\ d.keys = g.keys
<1> DEFINE g == Filled(c, n)
<1>1. g \in Chains(K) /\ FilledTo(c, n, g)
    BY FilledIs
<1> HIDE DEF g
<1>2. [g EXCEPT !.live = FALSE] \in Chains(K)
    BY <1>1 DEF Chains
<1>3. LET d == [g EXCEPT !.live = FALSE]
      IN d.seed = g.seed /\ d.sending = g.sending /\ d.counter = g.counter /\ d.keys = g.keys
    BY <1>1 DEF Chains
<1> QED BY <1>1, <1>2, <1>3 DEF Closed, g, FilledTo

\* Taking the key of one message leaves those of the others.
LEMMA KeyOfOthers ==
    ASSUME NEW K, NEW c \in Chains(K), NEW m \in Messages(K), NEW n \in Nat,
           NEW done, NEW then, NEW last, HasKey(c, m, done, last), done => then, m.ctr = n => then
    PROVE  HasKey(Taken(c, n), m, then, last)
<1> DEFINE d == Taken(c, n)
           g == Filled(c, n)
<1>1. /\ d.seed = c.seed /\ d.sending = c.sending /\ d.counter = g.counter /\ d.keys = g.keys \ {n}
      /\ FilledTo(c, n, g)
    BY TakenIs, FilledIs
<1>2. c.counter \in Int /\ m.ctr \in Nat
    BY DEF Chains, Messages
<1> HIDE DEF d, g
<1>3. CASE c.counter >= n
    BY <1>1, <1>2, <1>3 DEF FilledTo, HasKey, d
<1>4. CASE c.counter < n
    <2>1. d.counter = n /\ d.keys = (c.keys \cup (c.counter + 1) .. n) \ {n}
        BY <1>1, <1>4 DEF FilledTo
    <2>2. m.ctr <= n => then \/ m.ctr \in d.keys
        <3>1. CASE m.ctr <= c.counter
            BY <3>1, <2>1 DEF HasKey
        <3>2. CASE m.ctr > c.counter /\ m.ctr <= n
            BY <3>2, <1>2, <2>1
        <3> QED BY <1>2, <3>1, <3>2
    <2>3. m.ctr > n => last
        BY <1>2, <1>4 DEF HasKey
    <2> QED BY <1>1, <2>1, <2>2, <2>3 DEF HasKey, d
<1> QED BY <1>2, <1>3, <1>4

\* A chain that is closed at its end has the keys of all its messages.
LEMMA KeyOfClosed ==
    ASSUME NEW K, NEW c \in Chains(K), NEW m \in Messages(K), NEW n \in Nat,
           NEW done, NEW then, NEW last, HasKey(c, m, done, TRUE), done => then, m.ctr <= n
    PROVE  HasKey(Closed(c, n), m, then, last)
<1> DEFINE d == Closed(c, n)
           g == Filled(c, n)
<1>1. /\ d.seed = c.seed /\ d.sending = c.sending /\ d.counter = g.counter /\ d.keys = g.keys
      /\ FilledTo(c, n, g)
    BY ClosedIs, FilledIs
<1>2. c.counter \in Int /\ m.ctr \in Nat
    BY DEF Chains, Messages
<1> HIDE DEF d, g
<1>3. CASE c.counter >= n
    BY <1>1, <1>2, <1>3 DEF FilledTo, HasKey, d
<1>4. CASE c.counter < n
    <2>1. d.counter = n /\ d.keys = c.keys \cup (c.counter + 1) .. n
        BY <1>1, <1>4 DEF FilledTo
    <2>2. then \/ m.ctr \in d.keys
        BY <1>2, <2>1 DEF HasKey
    <2> QED BY <1>1, <1>2, <2>1, <2>2 DEF HasKey, d
<1> QED BY <1>2, <1>3, <1>4

\* What a step makes of the old chains, and what the next messages will carry.
ClosesLast(s, m, r) ==
    /\ r.remote = m.eph /\ r.prev = IF HasChain(s, s.eph) THEN SendCounter(s) ELSE s.prev
    /\ \A k \in DOMAIN s.chains \ {s.eph} :
          r.chains[k] = IF k = s.remote THEN Closed(s.chains[k], m.prev) ELSE s.chains[k]

\* maybeStepRatchet closes the last chain and leaves the other old ones.
LEMMA StepIs ==
    ASSUME NEW K, NEW f, f \notin K, NEW s \in Sessions(K), NEW m \in Messages(K), StepsRatchet(s, m)
    PROVE  IsStep(s, m, f, Stepped(s, m, f)) /\ ClosesLast(s, m, Stepped(s, m, f))
<1> DEFINE r == Stepped(s, m, f)
           in == Append(s.root, Agree(m.eph, s.eph))
           out == Append(in, Agree(m.eph, f))
           old == Restrict(ClosePrevious(s, m), DOMAIN s.chains \ {s.eph})
           new == [k \in DOMAIN old \cup {m.eph, f} |->
                     IF k = f THEN NewChain(out, TRUE) ELSE IF k = m.eph THEN NewChain(in, FALSE) ELSE old[k]]
           prev == IF HasChain(s, s.eph) THEN Chain(s, s.eph).counter ELSE s.prev
<1>1. IsStep(s, m, f, r)
    BY SteppedKeeps
<1>2. r = [s EXCEPT !.root = out, !.prev = prev, !.chains = new, !.eph = f, !.remote = m.eph]
    BY DEF Stepped
<1> HIDE DEF r, new, out, prev
<1>3. r.remote = m.eph /\ r.prev = prev /\ r.chains = new
    BY <1>2 DEF Sessions
<1>4. s.chains \in ChainMaps(K) /\ s.chains = [k \in DOMAIN s.chains |-> s.chains[k]] /\ DOMAIN s.chains \subseteq K
    BY ChainMapsDef DEF Sessions
<1>5. ASSUME NEW k \in DOMAIN s.chains \ {s.eph}
      PROVE  r.chains[k] = IF k = s.remote THEN Closed(s.chains[k], m.prev) ELSE s.chains[k]
    <2>1. k # f /\ k # m.eph
        BY <1>4 DEF StepsRatchet, HasChain
    <2>2. DOMAIN old = DOMAIN s.chains \ {s.eph} /\ old[k] = ClosePrevious(s, m)[k]
        BY DEF Restrict
    <2>3. new[k] = ClosePrevious(s, m)[k]
        BY <2>1, <2>2 DEF new
    <2>4. CASE ~HasChain(s, s.remote)
        BY <1>3, <2>3, <2>4 DEF ClosePrevious, HasChain
    <2>5. CASE HasChain(s, s.remote)
        <3>1. ClosePrevious(s, m) = [s.chains EXCEPT ![s.remote] = Closed(s.chains[s.remote], m.prev)]
            BY <2>5 DEF ClosePrevious, Closed
        <3> QED BY <1>3, <1>4, <2>3, <2>5, <3>1 DEF HasChain
    <2> QED BY <2>4, <2>5
<1> QED BY <1>1, <1>3, <1>5 DEF r, prev, SendCounter, Chain, ClosesLast

\* The keys of two sessions that talk in the same way.
SameRatchet(r, t) ==
    t.root = r.root /\ t.eph = r.eph /\ t.remote = r.remote /\ t.prev = r.prev /\ t.chains = r.chains

\* t is r with the key of m taken out.
TookKey(r, m, t) ==
    /\ t.root = r.root /\ t.eph = r.eph /\ t.remote = r.remote /\ t.prev = r.prev
    /\ m.eph \in DOMAIN r.chains /\ ~r.chains[m.eph].sending
    /\ DOMAIN t.chains = DOMAIN r.chains /\ t.chains[m.eph] = Taken(r.chains[m.eph], m.ctr)
    /\ \A k \in DOMAIN r.chains : k # m.eph => t.chains[k] = r.chains[k]

\* An attempt that decrypts takes the key out of the session after the step.
LEMMA AttemptIs ==
    ASSUME NEW K, NEW f, f \notin K, NEW s \in Sessions(K), NEW m \in Messages(K), Decrypts(s, m, f)
    PROVE  TookKey(AfterRatchet(s, m, f), m, AfterAttempt(s, m, f))
<1> DEFINE r == AfterRatchet(s, m, f)
           t == KeyTaken(r, m)
           u == [t EXCEPT !.pending = FALSE, !.pre = {}]
           d == Taken(r.chains[m.eph], m.ctr)
<1>1. r \in Sessions(K \cup {f}) /\ m.eph \in DOMAIN r.chains
    BY RatchetGoesOn DEF GoesOn
<1>2. AfterAttempt(s, m, f) = u /\ ~r.chains[m.eph].sending
    BY DEF AfterAttempt, Decrypts, KeyThere, Chain
<1> HIDE DEF r
<1>3. t = [r EXCEPT !.chains[m.eph] = d]
    BY DEF KeyTaken, Taken, Chain
<1> HIDE DEF t, d
<1>4. /\ t.root = r.root /\ t.eph = r.eph /\ t.remote = r.remote /\ t.prev = r.prev
      /\ t.chains = [r.chains EXCEPT ![m.eph] = d]
    BY <1>1, <1>3 DEF Sessions
<1>5. u.root = t.root /\ u.eph = t.eph /\ u.remote = t.remote /\ u.prev = t.prev /\ u.chains = t.chains
    BY <1>1, <1>3 DEF Sessions
<1> HIDE DEF u
<1>6. r.chains = [k \in DOMAIN r.chains |-> r.chains[k]]
    BY <1>1, ChainMapsDef DEF Sessions
<1>7. DOMAIN u.chains = DOMAIN r.chains /\ u.chains[m.eph] = d /\ \A k \in DOMAIN r.chains : k # m.eph => u.chains[k] = r.chains[k]
    BY <1>1, <1>4, <1>5, <1>6
<1> QED BY <1>1, <1>2, <1>4, <1>5, <1>7 DEF TookKey, d, r

\* What is known of the messages either side has posted.
Mail(K, M) == M \subseteq PostedSet(K) /\ \A m, n \in M : m.key = n.key => m = n

\* A message of the mail has its types, and its key is its own.
LEMMA MailIs ==
    ASSUME NEW K, NEW M, Mail(K, M), NEW m \in M
    PROVE  /\ m \in Messages(K) /\ m.ctr \in Nat /\ m.prev \in Nat /\ m.eph \in K
           /\ m.key = <<m.key[1], m.ctr>>
           /\ \A n \in M : n.ctr = m.ctr /\ n.key[1] = m.key[1] => n = m
<1>1. \A n \in M : n \in Messages(K) /\ n.key[2] = n.ctr
    BY DEF Mail, PostedSet, Posted
<1>2. \A n \in M : n.key = <<n.key[1], n.ctr>> /\ n.ctr \in Nat /\ n.prev \in Nat /\ n.eph \in K
    BY <1>1 DEF Messages
<1> QED BY <1>1, <1>2 DEF Mail

\* A chain of a session.
LEMMA ChainOf ==
    ASSUME NEW K, NEW s \in Sessions(K), NEW k \in DOMAIN s.chains
    PROVE  s.chains[k] \in Chains(K) /\ k \in K /\ s.chains[k].counter \in Int
<1>1. s.chains[k] \in Chains(K) /\ k \in K
    BY ChainMapsDef DEF Sessions
<1> QED BY <1>1 DEF Chains

\* Taking the key of m leaves the keys of all other messages.
LEMMA OthersHeld ==
    ASSUME NEW K, NEW y \in Sessions(K), NEW M, Mail(K, M), NEW m \in M, NEW t, TookKey(y, m, t),
           y.chains[m.eph].seed = m.key[1], NEW R, NEW n \in M, HoldsKey(y, n, R)
    PROVE  HoldsKey(t, n, R \cup {m})
<1>1. n.eph \in DOMAIN y.chains /\ HasKey(y.chains[n.eph], n, n \in R, n.eph = y.remote)
    BY DEF HoldsKey, HasChain
<1>2. n.eph \in DOMAIN t.chains /\ t.remote = y.remote
    BY <1>1 DEF TookKey
<1>3. n \in Messages(K) /\ m.ctr \in Nat
    BY MailIs
<1>4. CASE n.eph = m.eph
    <2> DEFINE c == y.chains[m.eph]
               done == n \in R
               then == n \in R \cup {m}
               last == n.eph = y.remote
    <2>1. c \in Chains(K) /\ HasKey(c, n, done, last) /\ (done => then)
        BY <1>1, <1>4, ChainOf
    <2>2. n.ctr = m.ctr => then
        <3>1. n.key[1] = m.key[1]
            BY <2>1 DEF HasKey
        <3> QED BY <3>1, MailIs
    <2>3. t.chains[n.eph] = Taken(c, m.ctr)
        BY <1>4 DEF TookKey
    <2> HIDE DEF c, done, then, last
    <2>4. HasKey(Taken(c, m.ctr), n, then, last)
        BY <1>3, <2>1, <2>2, KeyOfOthers
    <2> QED BY <1>2, <2>3, <2>4 DEF HoldsKey, HasChain, then, last
<1>5. CASE n.eph # m.eph
    <2>1. t.chains[n.eph] = y.chains[n.eph]
        BY <1>1, <1>5 DEF TookKey
    <2> QED BY <1>1, <1>2, <2>1 DEF HoldsKey, HasChain, HasKey
<1> QED BY <1>4, <1>5

\* Reading a message whose chain is known leaves the session sending as it did.
LEMMA SendsAsBefore ==
    ASSUME NEW K, NEW y \in Sessions(K), NEW m, NEW t, TookKey(y, m, t), HasChain(y, y.eph) => CanEncrypt(y)
    PROVE  /\ HasChain(t, t.eph) <=> HasChain(y, y.eph)
           /\ HasChain(y, y.eph) => /\ CanEncrypt(t) /\ t.chains[t.eph] = y.chains[y.eph]
                                    /\ SendSeed(t) = SendSeed(y) /\ SendCounter(t) = SendCounter(y)
                                    /\ \A n : SentOn(y, n) => SentOn(t, n)
<1>1. t.eph = y.eph /\ DOMAIN t.chains = DOMAIN y.chains /\ t.prev = y.prev
    BY DEF TookKey
<1>2. HasChain(t, t.eph) <=> HasChain(y, y.eph)
    BY <1>1 DEF HasChain
<1>3. ASSUME HasChain(y, y.eph)
      PROVE  /\ CanEncrypt(t) /\ t.chains[t.eph] = y.chains[y.eph]
             /\ SendSeed(t) = SendSeed(y) /\ SendCounter(t) = SendCounter(y)
    <2>1. y.eph # m.eph /\ y.chains[y.eph].sending
        BY <1>3 DEF TookKey, CanEncrypt, Chain
    <2>2. t.chains[t.eph] = y.chains[y.eph]
        BY <1>1, <1>3, <2>1 DEF TookKey, HasChain
    <2> QED BY <1>2, <1>3, <2>1, <2>2 DEF CanEncrypt, Chain, SendSeed, SendCounter
<1>4. HasChain(y, y.eph) => \A n : SentOn(y, n) => SentOn(t, n)
    BY <1>1, <1>3 DEF SentOn
<1> QED BY <1>2, <1>3, <1>4

\* The last chain stays live when a key is taken.
LEMMA StaysLive ==
    ASSUME NEW K, NEW y \in Sessions(K), NEW m, m.ctr \in Nat, NEW t, TookKey(y, m, t), LastIsLive(y)
    PROVE  LastIsLive(t)
<1> SUFFICES ASSUME HasChain(t, t.remote) PROVE t.chains[t.remote].live
    BY DEF LastIsLive
<1>1. t.remote = y.remote /\ HasChain(y, y.remote) /\ y.chains[y.remote].live
    BY DEF TookKey, HasChain, LastIsLive
<1>2. CASE y.remote = m.eph
    <2> DEFINE c == y.chains[m.eph]
    <2>1. c \in Chains(K) /\ c.live /\ t.chains[t.remote] = Taken(c, m.ctr)
        BY <1>1, <1>2, ChainOf DEF TookKey
    <2> HIDE DEF c
    <2>2. Taken(c, m.ctr).live = c.live
        BY <2>1, TakenIs
    <2> QED BY <2>1, <2>2
<1>3. CASE y.remote # m.eph
    BY <1>1, <1>3 DEF TookKey, HasChain
<1> QED BY <1>2, <1>3

\* The session behind reads a message whose chain it knows.
LEMMA ReadBehind ==
    ASSUME NEW K, NEW x \in Sessions(K), NEW y \in Sessions(K), NEW M, Mail(K, M), NEW N, NEW R, NEW S,
           Leads(x, y, M, N, R, S), NEW m \in M, NEW t, TookKey(y, m, t), y.chains[m.eph].seed = m.key[1]
    PROVE  Leads(x, t, M, N, R \cup {m}, S)
<1>1. t.root = y.root /\ t.eph = y.eph /\ t.remote = y.remote /\ t.prev = y.prev /\ DOMAIN t.chains = DOMAIN y.chains
    BY DEF TookKey
<1>2. HasChain(y, y.eph) => CanEncrypt(y) /\ Follows(y, x)
    BY DEF Leads, Ahead
<1>3. /\ HasChain(t, t.eph) <=> HasChain(y, y.eph)
      /\ HasChain(y, y.eph) => /\ CanEncrypt(t) /\ SendSeed(t) = SendSeed(y) /\ SendCounter(t) = SendCounter(y)
                               /\ \A n : SentOn(y, n) => SentOn(t, n)
    BY <1>2, SendsAsBefore
<1>4. Ahead(x, t)
    <2>1. HasChain(y, y.eph) => Follows(t, x)
        BY <1>1, <1>2, <1>3 DEF Follows
    <2> QED BY <1>1, <1>3, <2>1 DEF Leads, Ahead, HasChain
<1>5. LastIsLive(t)
    BY StaysLive, MailIs DEF Leads
<1>6. ASSUME NEW n \in M
      PROVE  /\ SentOn(x, n)
             /\ n.eph # x.eph => HoldsKey(t, n, R \cup {m}) /\ (n.eph = t.remote => n.ctr <= x.prev)
    <2>1. n.eph # x.eph => HoldsKey(t, n, R \cup {m})
        BY OthersHeld DEF Leads
    <2> QED BY <1>1, <2>1 DEF Leads
<1>7. \A n \in N : HasChain(t, t.eph) /\ SentOn(t, n) /\ HoldsKey(x, n, S)
    BY <1>3 DEF Leads
<1> QED BY <1>4, <1>5, <1>6, <1>7 DEF Leads

\* So does the session ahead.
LEMMA ReadAhead ==
    ASSUME NEW K, NEW x \in Sessions(K), NEW y \in Sessions(K), NEW M, Mail(K, M), NEW N, NEW R, NEW S,
           Leads(y, x, N, M, S, R), NEW m \in M, NEW t, TookKey(y, m, t), y.chains[m.eph].seed = m.key[1]
    PROVE  Leads(t, x, N, M, S, R \cup {m})
<1>1. t.root = y.root /\ t.eph = y.eph /\ t.remote = y.remote /\ t.prev = y.prev /\ DOMAIN t.chains = DOMAIN y.chains
    BY DEF TookKey
<1>2. CanEncrypt(y) /\ HasChain(y, y.eph)
    BY DEF Leads, Ahead, CanEncrypt
<1>3. /\ CanEncrypt(t) /\ SendSeed(t) = SendSeed(y) /\ SendCounter(t) = SendCounter(y)
      /\ \A n : SentOn(y, n) => SentOn(t, n)
    BY <1>2, SendsAsBefore
<1>4. HasChain(x, x.eph) => Follows(x, t)
    <2> SUFFICES ASSUME HasChain(x, x.eph) PROVE Follows(x, t)
        OBVIOUS
    <2> DEFINE c == y.chains[x.eph]
    <2>1. /\ x.eph \in DOMAIN y.chains /\ SendCounter(x) >= 0 /\ CanEncrypt(x)
          /\ ~c.sending /\ c.live /\ c.seed = SendSeed(x) /\ c.counter <= SendCounter(x)
        BY DEF Leads, Ahead, Follows, HasChain
    <2>2. c \in Chains(K) /\ SendCounter(x) \in Int /\ m.ctr \in Nat /\ c.counter \in Int
        BY <2>1, ChainOf, MailIs DEF CanEncrypt, HasChain, SendCounter
    <2>3. CASE x.eph # m.eph
        <3>1. t.chains[x.eph] = c
            BY <2>1, <2>3 DEF TookKey
        <3> QED BY <1>1, <2>1, <3>1 DEF Follows, HasChain
    <2>4. CASE x.eph = m.eph
        <3>1. t.chains[x.eph] = Taken(c, m.ctr) /\ m.ctr <= SendCounter(x)
            BY <2>4 DEF TookKey, Leads, SentOn
        <3> HIDE DEF c
        <3>2. LET d == Taken(c, m.ctr)
              IN /\ d.seed = c.seed /\ d.sending = c.sending /\ d.live = c.live
                 /\ d.counter = Filled(c, m.ctr).counter
            BY <2>2, TakenIs
        <3>3. Filled(c, m.ctr).counter = c.counter \/ Filled(c, m.ctr).counter = m.ctr
            <4>1. FilledTo(c, m.ctr, Filled(c, m.ctr))
                BY <2>2, FilledIs
            <4>2. c.counter >= m.ctr \/ c.counter < m.ctr
                BY <2>2
            <4> QED BY <4>1, <4>2 DEF FilledTo
        <3>4. LET d == t.chains[x.eph]
              IN ~d.sending /\ d.live /\ d.seed = SendSeed(x) /\ d.counter <= SendCounter(x)
            BY <2>1, <3>1, <3>2, <3>3
        <3>5. HasChain(t, x.eph)
            BY <1>1, <2>1 DEF HasChain
        <3> QED BY <2>1, <3>4, <3>5 DEF Follows
    <2> QED BY <2>3, <2>4
<1>5. Ahead(t, x)
    BY <1>1, <1>3, <1>4 DEF Leads, Ahead, HasChain
<1>6. LastIsLive(t)
    BY StaysLive, MailIs DEF Leads
<1>7. ASSUME NEW n \in N
      PROVE  /\ SentOn(t, n)
             /\ n.eph # t.eph => HoldsKey(x, n, S) /\ (n.eph = x.remote => n.ctr <= t.prev)
    BY <1>1, <1>3 DEF Leads
<1>8. \A n \in M : HasChain(x, x.eph) /\ SentOn(x, n) /\ HoldsKey(t, n, R \cup {m})
    BY OthersHeld DEF Leads
<1> QED BY <1>5, <1>6, <1>7, <1>8 DEF Leads

\* The session behind reads a message of the new chain and is ahead from then on.
LEMMA ReadNew ==
    ASSUME NEW K, NEW f, f \notin K, NEW x \in Sessions(K), NEW y \in Sessions(K), NEW M, Mail(K, M), NEW N, Mail(K, N),
           NEW R, NEW S, Leads(x, y, M, N, R, S), NEW m \in M, m.eph = x.eph,
           NEW r, r = Stepped(y, m, f), NEW t, TookKey(r, m, t)
    PROVE  Leads(t, x, N, M, S, R \cup {m})
<1>1. /\ Ahead(x, y) /\ LastIsLive(x) /\ SentOn(x, m) /\ CanEncrypt(x)
      /\ x.root = Append(y.root, {y.eph, x.eph}) /\ x.remote = y.eph /\ ~HasChain(y, x.eph) /\ SendSeed(x) = x.root
    BY DEF Leads, Ahead
<1>2. m \in Messages(K) /\ m.ctr \in Nat /\ m.prev \in Nat /\ m.ctr <= SendCounter(x) /\ m.prev = x.prev /\ m.key[1] = x.root
    BY <1>1, MailIs DEF SentOn
<1>3. IsStep(y, m, f, r) /\ ClosesLast(y, m, r)
    <2>1. StepsRatchet(y, m)
        BY <1>1 DEF StepsRatchet, HasChain
    <2> QED BY <1>2, <2>1, StepIs
<1>4. /\ RootIn(y, m) = x.root /\ RootOut(y, m, f) = Append(x.root, {x.eph, f})
    <2>1. {m.eph, y.eph} = {y.eph, x.eph}
        OBVIOUS
    <2> QED BY <1>1, <2>1 DEF RootIn, RootOut
<1> DEFINE new == NewChain(x.root, FALSE)
<1>5. /\ r.eph = f /\ r.root = Append(x.root, {x.eph, f}) /\ x.eph # f
      /\ DOMAIN r.chains = (DOMAIN y.chains \ {y.eph}) \cup {x.eph, f}
      /\ \A k \in DOMAIN y.chains \ {y.eph} : k # f /\ k # x.eph
      /\ r.chains[f] = NewChain(r.root, TRUE) /\ r.chains[x.eph] = new
    BY <1>3, <1>4 DEF IsStep
<1>6. /\ t.eph = f /\ t.root = r.root /\ t.remote = x.eph /\ t.prev = r.prev /\ DOMAIN t.chains = DOMAIN r.chains
      /\ t.chains[x.eph] = Taken(new, m.ctr) /\ \A k \in DOMAIN r.chains : k # x.eph => t.chains[k] = r.chains[k]
    BY <1>3, <1>5 DEF TookKey, ClosesLast
<1>7. CanEncrypt(t) /\ SendSeed(t) = t.root
    <2>1. t.chains[f] = NewChain(t.root, TRUE) /\ f \in DOMAIN t.chains
        BY <1>5, <1>6
    <2> QED BY <1>6, <2>1 DEF CanEncrypt, HasChain, Chain, SendSeed, NewChain
<1>8. new \in Chains(K) /\ new.seed = x.root /\ ~new.sending /\ new.live /\ new.counter = -1 /\ new.keys = {}
    <2>1. x.root \in Seq(SUBSET K)
        BY DEF Sessions
    <2>2. new \in Chains(K)
        BY <2>1 DEF NewChain, Chains
    <2> QED BY <2>2 DEF NewChain
<1> HIDE DEF new
<1> DEFINE d == Taken(new, m.ctr)
<1>9. d.seed = x.root /\ ~d.sending /\ d.live /\ d.counter = m.ctr
    <2>0. new \in Chains(K) /\ m.ctr \in Nat
        BY <1>2, <1>8
    <2>1. /\ d.seed = new.seed /\ d.sending = new.sending /\ d.live = new.live /\ d.counter = Filled(new, m.ctr).counter
        BY <2>0, TakenIs
    <2>2. FilledTo(new, m.ctr, Filled(new, m.ctr)) /\ new.counter < m.ctr
        BY <1>2, <1>8, FilledIs
    <2>3. Filled(new, m.ctr).counter = m.ctr
        BY <2>2 DEF FilledTo
    <2> QED BY <1>8, <2>1, <2>3
<1>10. \A n \in M : n.eph = x.eph => HoldsKey(t, n, R \cup {m})
    <2> SUFFICES ASSUME NEW n \in M, n.eph = x.eph PROVE HoldsKey(t, n, R \cup {m})
        OBVIOUS
    <2> DEFINE then == n \in R \cup {m}
    <2>1. n \in Messages(K) /\ n.ctr \in Nat /\ n.key[1] = x.root /\ (n.ctr = m.ctr => then)
        <3>1. n.key[1] = x.root
            BY <1>1 DEF Leads, SentOn
        <3> QED BY <1>2, <3>1, MailIs
    <2>2. HasKey(new, n, FALSE, TRUE)
        BY <1>8, <2>1 DEF HasKey
    <2> HIDE DEF then
    <2>3. HasKey(Taken(new, m.ctr), n, then, TRUE)
        BY <1>2, <1>8, <2>1, <2>2, KeyOfOthers
    <2> QED BY <1>5, <1>6, <2>3 DEF HoldsKey, HasChain, HasKey, then
<1>11. \A n \in M : n.eph # x.eph => HoldsKey(t, n, R \cup {m})
    <2> SUFFICES ASSUME NEW n \in M, n.eph # x.eph PROVE HoldsKey(t, n, R \cup {m})
        OBVIOUS
    <2> DEFINE c == y.chains[n.eph]
               done == n \in R
               then == n \in R \cup {m}
               last == n.eph = t.remote
    <2>1. n \in Messages(K) /\ n.ctr \in Nat /\ n.eph \in DOMAIN y.chains /\ HasKey(c, n, done, n.eph = y.remote)
        BY MailIs DEF Leads, HoldsKey, HasChain
    <2>2. n.eph # y.eph
        <3>1. ~c.sending
            BY <2>1 DEF HasKey
        <3>2. HasChain(y, y.eph) => y.chains[y.eph].sending
            BY <1>1 DEF Ahead, CanEncrypt, Chain
        <3> QED BY <2>1, <3>1, <3>2 DEF HasChain
    <2>3. c \in Chains(K) /\ c.counter \in Int /\ (done => then)
        BY <2>1, ChainOf
    <2>4. n.eph \in DOMAIN t.chains /\ t.chains[n.eph] = IF n.eph = y.remote THEN Closed(c, m.prev) ELSE c
        BY <1>3, <1>5, <1>6, <2>1, <2>2 DEF ClosesLast
    <2> HIDE DEF c, done, then, last
    <2>5. CASE n.eph = y.remote
        <3>1. HasKey(c, n, done, TRUE)
            BY <2>1 DEF HasKey
        <3>2. n.ctr <= m.prev
            BY <1>2, <2>5 DEF Leads
        <3>3. HasKey(Closed(c, m.prev), n, then, last)
            BY <1>2, <2>1, <2>3, <3>1, <3>2, KeyOfClosed
        <3> QED BY <2>4, <2>5, <3>3 DEF HoldsKey, HasChain, then, last
    <2>6. CASE n.eph # y.remote
        <3>1. HasKey(c, n, then, last)
            BY <2>1, <2>3, <2>6 DEF HasKey
        <3> QED BY <2>4, <2>6, <3>1 DEF HoldsKey, HasChain, then, last
    <2> QED BY <2>5, <2>6
<1>12. Ahead(t, x)
    <2>1. ~HasChain(x, t.eph)
        BY <1>6, ChainOf DEF HasChain
    <2>2. Follows(x, t)
        <3>1. HasChain(t, x.eph) /\ t.chains[x.eph] = d
            BY <1>5, <1>6 DEF HasChain
        <3>2. SendCounter(x) \in Int
            BY <1>1, ChainOf DEF CanEncrypt, HasChain, SendCounter
        <3> HIDE DEF d
        <3> QED BY <1>1, <1>2, <1>9, <3>1, <3>2 DEF Follows
    <2> QED BY <1>1, <1>5, <1>6, <1>7, <2>1, <2>2 DEF Ahead
<1>13. LastIsLive(t)
    BY <1>6, <1>9 DEF LastIsLive
<1>14. ASSUME NEW n \in N
       PROVE  /\ SentOn(t, n) /\ HoldsKey(x, n, S)
              /\ n.eph = x.remote => n.ctr <= t.prev
    <2>1. n.eph # f
        BY MailIs
    <2> QED BY <1>1, <1>3, <1>6, <2>1 DEF Leads, SentOn, ClosesLast
<1>15. HasChain(x, x.eph) /\ \A n \in M : SentOn(x, n)
    BY <1>1 DEF Leads, CanEncrypt
<1> QED BY <1>1, <1>10, <1>11, <1>12, <1>13, <1>14, <1>15 DEF Leads

\* Whatever message is read, all others still have their keys.
LEMMA ReadKeepsPair ==
    ASSUME NEW K, NEW f, f \notin K, NEW x \in Sessions(K), NEW y \in Sessions(K), NEW M, Mail(K, M), NEW N, Mail(K, N),
           NEW R, NEW S, Pair(x, y, M, N, R, S), NEW m \in M, Decrypts(y, m, f),
           NEW t, SameRatchet(AfterAttempt(y, m, f), t)
    PROVE  Pair(x, t, M, N, R \cup {m}, S)
<1> DEFINE r == AfterRatchet(y, m, f)
<1>1. m \in Messages(K)
    BY MailIs
<1>2. TookKey(r, m, AfterAttempt(y, m, f)) /\ Authentic(r, m)
    BY <1>1, AttemptIs DEF Decrypts
<1> HIDE DEF r
<1>3. TookKey(r, m, t)
    BY <1>2 DEF TookKey, SameRatchet
<1>4. r.chains[m.eph].seed = m.key[1]
    BY <1>1, <1>2 DEF Authentic, Chain, Messages
<1>5. CASE ~StepsRatchet(y, m)
    <2>1. r = y
        BY <1>5 DEF r, AfterRatchet
    <2> QED BY <1>3, <1>4, <2>1, ReadBehind, ReadAhead DEF Pair
<1>6. CASE StepsRatchet(y, m)
    <2>1. r = Stepped(y, m, f) /\ ~HasChain(y, m.eph)
        BY <1>6 DEF r, AfterRatchet, StepsRatchet
    <2>2. CASE Leads(y, x, N, M, S, R)
        BY <2>1, <2>2 DEF Leads, HoldsKey
    <2>3. CASE Leads(x, y, M, N, R, S)
        <3>1. m.eph = x.eph
            BY <2>1, <2>3 DEF Leads, HoldsKey
        <3> QED BY <1>3, <2>1, <2>3, <3>1, ReadNew DEF Pair
    <2> QED BY <2>2, <2>3 DEF Pair
<1> QED BY <1>5, <1>6

\* The counters a step leaves stay below what they were below.
LEMMA ReadBelow ==
    ASSUME NEW K, NEW f, f \notin K, NEW x \in Sessions(K), NEW y \in Sessions(K), NEW M, Mail(K, M), NEW N,
           NEW R, NEW S, Pair(x, y, M, N, R, S), NEW m \in M, Decrypts(y, m, f),
           NEW t, SameRatchet(AfterAttempt(y, m, f), t), NEW b \in Nat, Below(y, b)
    PROVE  Below(t, b)
<1> DEFINE r == AfterRatchet(y, m, f)
<1>1. m \in Messages(K)
    BY MailIs
<1>2. TookKey(r, m, AfterAttempt(y, m, f))
    BY <1>1, AttemptIs
<1> HIDE DEF r
<1>3. TookKey(r, m, t)
    BY <1>2 DEF TookKey, SameRatchet
<1>4. HasChain(y, y.eph) => CanEncrypt(y)
    BY DEF Pair, Leads, Ahead
<1>5. CASE ~StepsRatchet(y, m)
    <2>1. r = y
        BY <1>5 DEF r, AfterRatchet
    <2>2. CanEncrypt(t) => CanEncrypt(y) /\ SendCounter(t) = SendCounter(y)
        BY <1>3, <1>4, <2>1, SendsAsBefore DEF CanEncrypt
    <2>3. t.prev = y.prev
        BY <1>3, <2>1 DEF TookKey
    <2> QED BY <2>2, <2>3 DEF Below
<1>6. CASE StepsRatchet(y, m)
    <2>1. r = Stepped(y, m, f) /\ ~HasChain(y, m.eph)
        BY <1>6 DEF r, AfterRatchet, StepsRatchet
    <2>2. IsStep(y, m, f, r) /\ ClosesLast(y, m, r)
        BY <1>1, <1>6, <2>1, StepIs
    <2>3. r.eph = f /\ m.eph # f /\ f \in DOMAIN r.chains /\ r.chains[f].counter = -1
        BY <2>2 DEF IsStep, NewChain
    <2>4. t.eph = f /\ t.chains[f] = r.chains[f] /\ t.prev = r.prev
        BY <1>3, <2>3 DEF TookKey
    <2>5. SendCounter(t) = -1
        BY <2>3, <2>4 DEF SendCounter
    <2>6. t.prev = IF HasChain(y, y.eph) THEN SendCounter(y) ELSE y.prev
        BY <2>2, <2>4 DEF ClosesLast
    <2>7. HasChain(y, y.eph) => SendCounter(y) \in Nat
        <3>1. CASE Leads(y, x, N, M, S, R)
            BY <2>1, <3>1 DEF Leads, HoldsKey
        <3>2. CASE Leads(x, y, M, N, R, S)
            <4>1. HasChain(y, y.eph) => SendCounter(y) >= 0
                BY <3>2 DEF Leads, Ahead, Follows
            <4>2. HasChain(y, y.eph) => SendCounter(y) \in Int
                BY ChainOf DEF HasChain, SendCounter
            <4> QED BY <4>1, <4>2
        <3> QED BY <3>1, <3>2 DEF Pair
    <2> QED BY <1>4, <2>5, <2>6, <2>7 DEF Below
<1> QED BY <1>5, <1>6

\* encrypt goes on in the chain the session sends on, and changes nothing else.
Advanced(s, e) ==
    /\ e.root = s.root /\ e.eph = s.eph /\ e.remote = s.remote /\ e.prev = s.prev /\ e.base = s.base
    /\ e.pending = s.pending /\ e.pre = s.pre
    /\ DOMAIN e.chains = DOMAIN s.chains /\ \A k \in DOMAIN s.chains \ {s.eph} : e.chains[k] = s.chains[k]
    /\ SendSeed(e) = SendSeed(s) /\ SendCounter(e) = SendCounter(s) + 1
    /\ CanEncrypt(e) /\ e.chains[e.eph].live = s.chains[s.eph].live

\* So encrypt does.
LEMMA EncryptedIs ==
    ASSUME NEW K, NEW s \in Sessions(K), CanEncrypt(s)
    PROVE  Advanced(s, Encrypted(s))
<1> DEFINE c == s.chains[s.eph]
           d == [c EXCEPT !.counter = c.counter + 1]
           e == Encrypted(s)
<1>1. s.eph \in DOMAIN s.chains /\ c.sending
    BY DEF CanEncrypt, HasChain, Chain
<1>2. c \in Chains(K) /\ s.chains = [k \in DOMAIN s.chains |-> s.chains[k]]
    BY <1>1, ChainOf, ChainMapsDef DEF Sessions
<1>3. e = [s EXCEPT !.chains[s.eph] = d]
    BY <1>1, <1>2 DEF Encrypted
<1> HIDE DEF e
<1>4. d.seed = c.seed /\ d.sending = c.sending /\ d.live = c.live /\ d.counter = c.counter + 1
    <2> HIDE DEF c
    <2> QED BY <1>2 DEF Chains
<1> HIDE DEF d, c
<1>5. /\ e.root = s.root /\ e.eph = s.eph /\ e.remote = s.remote /\ e.prev = s.prev /\ e.base = s.base
      /\ e.pending = s.pending /\ e.pre = s.pre /\ e.chains = [s.chains EXCEPT ![s.eph] = d]
    BY <1>3 DEF Sessions
<1>6. DOMAIN e.chains = DOMAIN s.chains /\ e.chains[s.eph] = d /\ \A k \in DOMAIN s.chains \ {s.eph} : e.chains[k] = s.chains[k]
    BY <1>1, <1>2, <1>5
<1>7. SendSeed(e) = SendSeed(s) /\ SendCounter(e) = SendCounter(s) + 1 /\ e.chains[e.eph].live = s.chains[s.eph].live
    BY <1>4, <1>5, <1>6 DEF SendSeed, SendCounter, c
<1>8. CanEncrypt(e)
    BY <1>1, <1>4, <1>5, <1>6 DEF CanEncrypt, HasChain, Chain
<1> QED BY <1>5, <1>6, <1>7, <1>8 DEF Advanced, e

\* What is new on the mail of a session.
NextOn(x, m) ==
    m.eph = x.eph /\ m.ctr = SendCounter(x) + 1 /\ m.key[1] = SendSeed(x) /\ m.prev = x.prev

\* A session that has advanced sees its peer's messages as before, and its own.
LEMMA AdvancedSees ==
    ASSUME NEW K, NEW x \in Sessions(K), CanEncrypt(x), NEW e, Advanced(x, e)
    PROVE  /\ SendCounter(x) \in Int
           /\ \A n \in Messages(K) : SentOn(x, n) => SentOn(e, n)
           /\ \A n : NextOn(x, n) => SentOn(e, n)
           /\ \A n, S : HoldsKey(x, n, S) => HoldsKey(e, n, S)
           /\ LastIsLive(x) => LastIsLive(e)
<1>1. SendCounter(x) \in Int /\ x.eph \in DOMAIN x.chains /\ x.chains[x.eph].sending
    BY ChainOf DEF CanEncrypt, HasChain, SendCounter, Chain
<1>2. \A n \in Messages(K) : SentOn(x, n) => SentOn(e, n)
    <2> SUFFICES ASSUME NEW n \in Messages(K), SentOn(x, n) PROVE SentOn(e, n)
        OBVIOUS
    <2>1. n.ctr \in Int
        BY DEF Messages
    <2> QED BY <1>1, <2>1 DEF SentOn, Advanced
<1>3. \A n : NextOn(x, n) => SentOn(e, n)
    BY <1>1 DEF SentOn, NextOn, Advanced
<1>4. ASSUME NEW n, NEW S, HoldsKey(x, n, S) PROVE HoldsKey(e, n, S)
    <2>1. n.eph # x.eph /\ n.eph \in DOMAIN x.chains
        BY <1>1, <1>4 DEF HoldsKey, HasKey, HasChain
    <2> QED BY <1>4, <2>1 DEF HoldsKey, HasChain, Advanced
<1>5. LastIsLive(x) => LastIsLive(e)
    <2> SUFFICES ASSUME LastIsLive(x), HasChain(e, e.remote) PROVE e.chains[e.remote].live
        BY DEF LastIsLive
    <2>1. CASE x.remote = x.eph
        BY <2>1 DEF Advanced, LastIsLive, HasChain
    <2>2. CASE x.remote # x.eph
        BY <2>2 DEF Advanced, LastIsLive, HasChain
    <2> QED BY <2>1, <2>2
<1> QED BY <1>1, <1>2, <1>3, <1>4, <1>5

\* A message that is sent can be read.
LEMMA SendKeepsPair ==
    ASSUME NEW K, NEW x \in Sessions(K), NEW y \in Sessions(K), CanEncrypt(x), NEW M, Mail(K, M), NEW N,
           NEW R, NEW S, Pair(x, y, M, N, R, S), NEW e, Advanced(x, e), NEW m \in Messages(K), NextOn(x, m),
           NEW L, L \subseteq M \cup {m}
    PROVE  Pair(e, y, L, N, R, S)
<1>1. /\ e.root = x.root /\ e.eph = x.eph /\ e.remote = x.remote /\ e.prev = x.prev /\ DOMAIN e.chains = DOMAIN x.chains
      /\ SendSeed(e) = SendSeed(x) /\ SendCounter(e) = SendCounter(x) + 1 /\ CanEncrypt(e)
    BY DEF Advanced
<1>2. SendCounter(x) \in Int
    BY AdvancedSees
<1>3. \A n \in L : n \in Messages(K)
    BY MailIs
<1>4. \A n, T : HoldsKey(x, n, T) => HoldsKey(e, n, T)
    BY AdvancedSees
<1>5. LastIsLive(x) => LastIsLive(e)
    BY AdvancedSees
<1>6. \A n \in L : (n \in M => SentOn(x, n)) => SentOn(e, n)
    BY <1>3, AdvancedSees
<1>7. CASE Leads(x, y, M, N, R, S)
    <2>1. HasChain(y, y.eph) => Follows(y, e)
        <3> SUFFICES ASSUME HasChain(y, y.eph) PROVE Follows(y, e)
            OBVIOUS
        <3>1. Follows(y, x)
            BY <1>7 DEF Leads, Ahead
        <3>2. y.eph # x.eph /\ y.eph \in DOMAIN x.chains
            BY <3>1 DEF Follows, CanEncrypt, HasChain, Chain
        <3>3. e.chains[y.eph] = x.chains[y.eph]
            BY <3>2 DEF Advanced
        <3> QED BY <1>1, <3>1, <3>3 DEF Follows, HasChain
    <2>2. Ahead(e, y)
        BY <1>1, <1>7, <2>1 DEF Leads, Ahead
    <2>3. ASSUME NEW n \in L
          PROVE  /\ SentOn(e, n)
                 /\ n.eph # e.eph => HoldsKey(y, n, R) /\ (n.eph = y.remote => n.ctr <= e.prev)
        <3>1. CASE n \in M
            BY <1>1, <1>6, <1>7, <3>1 DEF Leads
        <3>2. CASE n = m
            BY <1>1, <3>2, AdvancedSees DEF NextOn
        <3> QED BY <3>1, <3>2
    <2> QED BY <1>4, <1>5, <1>7, <2>2, <2>3 DEF Leads, Pair
<1>8. CASE Leads(y, x, N, M, S, R)
    <2>1. HasChain(x, x.eph) /\ Follows(x, y) /\ y.remote = x.eph
        BY <1>8 DEF Leads, Ahead, CanEncrypt
    <2>2. Follows(e, y)
        <3>1. y.chains[x.eph].counter \in Int
            BY <2>1, ChainOf DEF Follows, HasChain
        <3> QED BY <1>1, <1>2, <2>1, <3>1 DEF Follows
    <2>3. Ahead(y, e)
        BY <1>1, <1>8, <2>2 DEF Leads, Ahead, HasChain
    <2>4. HoldsKey(y, m, R)
        <3>1. m.eph = x.eph /\ m.ctr = SendCounter(x) + 1 /\ m.key[1] = SendSeed(x)
            BY DEF NextOn
        <3>2. y.chains[x.eph].counter \in Int
            BY <2>1, ChainOf DEF Follows, HasChain
        <3> QED BY <1>2, <2>1, <3>1, <3>2 DEF Follows, HoldsKey, HasKey
    <2>5. ASSUME NEW n \in L PROVE HasChain(e, e.eph) /\ SentOn(e, n) /\ HoldsKey(y, n, R)
        BY <1>1, <1>6, <1>8, <2>1, <2>4 DEF Leads, HasChain
    <2>6. ASSUME NEW n \in N
          PROVE  /\ SentOn(y, n)
                 /\ n.eph # y.eph => HoldsKey(e, n, S) /\ (n.eph = e.remote => n.ctr <= y.prev)
        BY <1>1, <1>4, <1>8 DEF Leads
    <2>7. LastIsLive(y) /\ LastIsLive(e)
        BY <1>5, <1>8 DEF Leads
    <2> QED BY <2>3, <2>5, <2>6, <2>7 DEF Leads, Pair
<1> QED BY <1>7, <1>8 DEF Pair

\* No more messages are skipped by the n-th of a chain than fillMessageKeys takes,
Near(c, n) == n - c.counter <= MaxJump

\* nor by m in its chain and in the one that m ends.
Within(y, m) ==
    /\ HasChain(y, m.eph) => Near(y.chains[m.eph], m.ctr)
    /\ ~HasChain(y, m.eph) => m.ctr < MaxJump /\ (HasChain(y, y.remote) => Near(y.chains[y.remote], m.prev))

\* A chain that has the key of a message, or can make it, gives it out.
LEMMA KeyIsThere ==
    ASSUME NEW K, NEW r, NEW m \in Messages(K), m.key = <<m.key[1], m.ctr>>, NEW L, NEW c \in Chains(L), c = r.chains[m.eph],
           NEW last, HasKey(c, m, FALSE, last), last => c.live, Near(c, m.ctr)
    PROVE  KeyThere(r, m) /\ Authentic(r, m)
<1>1. c.counter \in Nat \cup {-1} /\ m.ctr \in Nat /\ MaxJump \in Nat
    BY RatchetAssumption DEF Chains, Messages
<1>2. ~c.sending /\ c.seed = m.key[1]
    BY DEF HasKey
<1>3. Fills(c, m.ctr)
    BY <1>1 DEF Fills, HasKey, Near
<1>4. m.ctr \in Filled(c, m.ctr).keys
    <2>1. FilledTo(c, m.ctr, Filled(c, m.ctr))
        BY <1>1, FilledIs
    <2>2. CASE c.counter >= m.ctr
        BY <1>1, <2>1, <2>2 DEF FilledTo, HasKey
    <2>3. CASE c.counter < m.ctr
        <3>1. m.ctr \in (c.counter + 1) .. m.ctr
            BY <1>1, <2>3
        <3> QED BY <2>1, <2>3, <3>1 DEF FilledTo
    <2> QED BY <1>1, <2>2, <2>3
<1> QED BY <1>2, <1>3, <1>4 DEF KeyThere, Authentic, Chain

\* A message that was not read can be read now, whatever was read before.
LEMMA PairReads ==
    ASSUME NEW K, NEW f, f \notin K, NEW x \in Sessions(K), NEW y \in Sessions(K), NEW M, Mail(K, M), NEW N,
           NEW R, NEW S, Pair(x, y, M, N, R, S), NEW m \in M, m \notin R, Within(y, m)
    PROVE  Decrypts(y, m, f)
<1>1. /\ m \in Messages(K) /\ m.ctr \in Nat /\ m.prev \in Nat /\ m.key = <<m.key[1], m.ctr>>
      /\ MaxJump \in Nat
    BY MailIs, RatchetAssumption
<1>2. LastIsLive(y)
    BY DEF Pair, Leads
<1>3. CASE HoldsKey(y, m, R)
    <2> DEFINE c == y.chains[m.eph]
               last == m.eph = y.remote
    <2>1. m.eph \in DOMAIN y.chains /\ HasKey(c, m, FALSE, last)
        BY <1>3 DEF HoldsKey, HasChain, HasKey
    <2>2. c \in Chains(K) /\ (last => c.live) /\ Near(c, m.ctr)
        BY <1>2, <2>1, ChainOf DEF LastIsLive, HasChain, Within
    <2> HIDE DEF c, last
    <2>3. KeyThere(y, m) /\ Authentic(y, m)
        BY <1>1, <2>1, <2>2, KeyIsThere DEF c
    <2>4. ~RatchetThrows(y, m) /\ AfterRatchet(y, m, f) = y
        BY <2>1 DEF RatchetThrows, AfterRatchet, StepsRatchet, HasChain
    <2> QED BY <2>3, <2>4 DEF Decrypts
<1>4. CASE ~HoldsKey(y, m, R)
    <2>1. Leads(x, y, M, N, R, S) /\ m.eph = x.eph
        BY <1>4 DEF Pair, Leads
    <2>2. /\ ~HasChain(y, m.eph) /\ x.root = Append(y.root, {y.eph, x.eph}) /\ SendSeed(x) = x.root
          /\ m.key[1] = x.root /\ m.prev = x.prev
        BY <2>1 DEF Leads, Ahead, SentOn
    <2> DEFINE r == Stepped(y, m, f)
               c == r.chains[m.eph]
    <2>3. StepsRatchet(y, m) /\ AfterRatchet(y, m, f) = r
        BY <2>2 DEF StepsRatchet, AfterRatchet
    <2>4. IsStep(y, m, f, r) /\ r \in Sessions(K \cup {f})
        BY <1>1, <2>3, SteppedKeeps
    <2> HIDE DEF r
    <2>5. c = NewChain(x.root, FALSE) /\ m.eph \in DOMAIN r.chains
        <3>1. {m.eph, y.eph} = {y.eph, x.eph}
            BY <2>1
        <3> QED BY <2>2, <2>4, <3>1 DEF IsStep, RootIn
    <2>6. c.live /\ HasKey(c, m, FALSE, TRUE) /\ Near(c, m.ctr)
        BY <1>1, <2>2, <2>5 DEF NewChain, HasKey, Within, Near
    <2>7. c \in Chains(K \cup {f})
        BY <2>4, <2>5, ChainOf
    <2> HIDE DEF c
    <2>8. KeyThere(r, m) /\ Authentic(r, m)
        BY <1>1, <2>6, <2>7, KeyIsThere DEF c
    <2>9. OldChainFills(y, m)
        <3> SUFFICES ASSUME HasChain(y, y.remote) PROVE Fills(y.chains[y.remote], m.prev)
            BY DEF OldChainFills, Chain
        <3>1. y.chains[y.remote] \in Chains(K) /\ y.chains[y.remote].live
            BY <1>2, ChainOf DEF LastIsLive, HasChain
        <3>2. Near(y.chains[y.remote], m.prev)
            BY <2>2 DEF Within
        <3> QED BY <3>1, <3>2 DEF Fills, Near
    <2> QED BY <2>3, <2>8, <2>9 DEF Decrypts, RatchetThrows
<1> QED BY <1>3, <1>4

\* Where few messages are sent at all, none skips too many.
LEMMA FewAreWithin ==
    ASSUME NEW K, NEW x \in Sessions(K), NEW y \in Sessions(K), NEW M, Mail(K, M), NEW N,
           NEW R, NEW S, Pair(x, y, M, N, R, S), NEW m \in M,
           NEW b \in Nat, b <= MaxJump, Below(x, b), m.ctr < b
    PROVE  Within(y, m)
<1>1. m.ctr \in Nat /\ m.prev \in Nat /\ MaxJump \in Nat /\ m.ctr < MaxJump
    BY MailIs, RatchetAssumption
<1>2. \A k \in DOMAIN y.chains : y.chains[k].counter \in Nat \cup {-1}
    BY ChainOf DEF Chains
<1>3. CASE HasChain(y, m.eph)
    BY <1>1, <1>2, <1>3 DEF Within, Near, HasChain
<1>4. CASE ~HasChain(y, m.eph)
    <2>1. Leads(x, y, M, N, R, S) /\ m.eph = x.eph
        BY <1>4 DEF Pair, Leads, HoldsKey
    <2>2. m.prev = x.prev
        BY <2>1 DEF Leads, SentOn
    <2>3. m.prev < MaxJump
        BY <1>1, <2>2 DEF Below
    <2> QED BY <1>1, <1>2, <1>4, <2>3 DEF Within, Near, HasChain
<1> QED BY <1>3, <1>4

\* The two ends of a new session are a pair.
LEMMA PairStarts ==
    ASSUME NEW p, NEW q, NEW pre, NEW base, NEW eph, NEW now, NEW later,
           NEW x, IsInitiator(x, p, q, pre, base, eph, now),
           NEW y, IsResponder(y, q, p, pre, base, later), NEW R, NEW S, NEW b \in Nat
    PROVE  /\ Pair(x, y, {}, {}, R, S) /\ Below(x, b) /\ Below(y, b)
           /\ x.pre = pre /\ x.base = base /\ x.pending
<1> DEFINE signed == Signed(q)
           me == Identity(p)
           them == Identity(q)
           last == IF pre = {} THEN <<>> ELSE <<{base} \cup pre>>
           master == <<{signed, me}, {them, base}, {signed, base}>> \o last
           root == Append(master, {signed, eph})
           chain == NewChain(root, TRUE)
<1>1. /\ x.root = root /\ x.eph = eph /\ x.remote = signed /\ x.prev = 0 /\ x.chains = [k \in {eph} |-> chain]
      /\ x.pre = pre /\ x.base = base /\ x.pending
    BY DEF IsInitiator, Initiator, MasterOut, Agree
<1>2. y.root = master /\ y.eph = signed /\ y.prev = 0 /\ y.chains = [k \in {} |-> NewChain(<<>>, TRUE)]
    <2>1. /\ y.root = MasterIn(them, signed, pre, me, base) /\ y.eph = signed /\ y.prev = 0
          /\ y.chains = [k \in {} |-> NewChain(<<>>, TRUE)]
        BY DEF IsResponder, Responder
    <2>2. {me, signed} = {signed, me} /\ {base, them} = {them, base} /\ {base, signed} = {signed, base}
        OBVIOUS
    <2>3. MasterIn(them, signed, pre, me, base) = master
        BY <2>2 DEF MasterIn, Agree
    <2> QED BY <2>1, <2>3
<1> HIDE DEF signed, master, me, them
<1>3. chain.seed = root /\ chain.sending /\ chain.live /\ chain.counter = -1
    BY DEF NewChain
<1> HIDE DEF chain, root
<1>4. CanEncrypt(x) /\ SendSeed(x) = root /\ SendCounter(x) = -1 /\ LastIsLive(x)
    BY <1>1, <1>3 DEF CanEncrypt, HasChain, Chain, SendSeed, SendCounter, LastIsLive
<1>5. \A k : ~HasChain(y, k)
    BY <1>2 DEF HasChain
<1>6. Ahead(x, y) /\ LastIsLive(y) /\ ~CanEncrypt(y)
    <2>1. x.root = Append(y.root, {y.eph, x.eph})
        BY <1>1, <1>2 DEF root
    <2> QED BY <1>1, <1>2, <1>4, <1>5, <2>1 DEF Ahead, LastIsLive, CanEncrypt
<1>7. Below(x, b) /\ Below(y, b)
    BY <1>1, <1>2, <1>4, <1>6 DEF Below
<1> QED BY <1>1, <1>4, <1>6, <1>7 DEF Pair, Leads

\* Losing some of the mail, a pair stays one; and it is one from either side.
LEMMA PairKeeps ==
    ASSUME NEW x, NEW y, NEW M, NEW N, NEW R, NEW S, Pair(x, y, M, N, R, S)
    PROVE  /\ Pair(y, x, N, M, S, R)
           /\ \A L \in SUBSET M : Pair(x, y, L, N, R, S)
<1>1. Pair(y, x, N, M, S, R)
    BY DEF Pair
<1>2. \A L \in SUBSET M : Pair(x, y, L, N, R, S)
    BY DEF Pair, Leads
<1> QED BY <1>1, <1>2

\* One of the two sets up a session, once, and no counter of a message exceeds
\* its 32 bits: what a crash keeps from being sent counts as well.
OneSession ==
    /\ \E p \in Peers : MaxInits[p] \in {0, 1} /\ MaxInits[Other(p)] = 0
    /\ \A p \in Peers : MaxSends[p] \in Nat /\ MaxCrashes[p] \in Nat /\ MaxSends[p] + MaxCrashes[p] < Word

\* Nobody encrypts more messages than may be skipped.
FewMessages == \A p \in Peers : MaxSends[p] + MaxCrashes[p] <= MaxJump

Caller == CHOOSE p \in Peers : MaxInits[p] \in {0, 1} /\ MaxInits[Other(p)] = 0
Called == Other(Caller)

HasSession(p) == 1 \in DOMAIN record[p]

\* The session that a pre-key message of the other would build.
Awaits(p) ==
    LET s == record[Other(p)][1]
    IN Responder(Identity(p), Signed(p), s.pre, Identity(Other(p)), s.base, clock[p] + 1)

Side(p) == IF HasSession(p) THEN record[p][1] ELSE Awaits(p)

\* What p has encrypted and not lost.
Posts(p) == {m \in Sent : m.from = p}

\* How many messages p has encrypted, at least.
Sending(p) == IF job[p].op = "send" THEN 1 ELSE 0
Count(p) == Cardinality(SentBy(p)) + crashes[p] + Sending(p)

CountedOf(p) ==
    /\ crashes[p] \in 0 .. MaxCrashes[p]
    /\ Cardinality(SentBy(p)) + Sending(p) <= MaxSends[p]
    /\ job[p].op = "send" => job[p].msg.from = p /\ job[p].msg \notin wire
    /\ \A m \in Posts(p) : m.ctr < Count(p)
    /\ HasSession(Caller) => Below(Side(p), Count(p))

Counted == inits \in [Peers -> Nat] /\ crashes \in [Peers -> Nat] /\ \A p \in Peers : CountedOf(p)

\* Whoever has no session has done nothing.
Rests(p) == ~HasSession(p) => Posts(p) = {} /\ job[p] = Idle /\ stock[p] \subseteq preKeys[p]

\* The one who set up the session sends pre-key messages, at least as long as
\* the other has none; the other never does.
Calls ==
    /\ \A p \in Peers : DOMAIN record[p] = 1 .. opened[p] /\ opened[p] \in {0, 1} /\ Rests(p)
    /\ opened[Caller] = inits[Caller] /\ opened[Called] <= opened[Caller]
    /\ \A m \in Posts(Called) : ~m.pkmsg
    /\ HasSession(Called) => ~record[Called][1].pending /\ record[Called][1].base = record[Caller][1].base
    /\ HasSession(Caller) => \A m \in Posts(Caller) : m.pkmsg => m.base = {record[Caller][1].base}
    /\ HasSession(Caller) /\ ~HasSession(Called) =>
          /\ record[Caller][1].pending /\ record[Caller][1].pre \subseteq preKeys[Called]
          /\ \A m \in Posts(Caller) : m.pkmsg /\ m.pre = record[Caller][1].pre

\* What p reads of the other's messages.
PairOf(p) == Pair(Side(Other(p)), Side(p), Posts(Other(p)), Posts(p), read[p], read[Other(p)])

Paired == HasSession(Caller) => \A p \in Peers : PairOf(p)

PairInv == Counted /\ Calls /\ Paired

\* One of the two is the caller, the other is called.
LEMMA CallerIs ==
    ASSUME OneSession
    PROVE  /\ Caller \in Peers /\ Called \in Peers /\ Called # Caller /\ Peers = {Caller, Called}
           /\ Other(Caller) = Called /\ Other(Called) = Caller
           /\ MaxInits[Caller] \in {0, 1} /\ MaxInits[Called] = 0
<1>1. PICK p \in Peers : MaxInits[p] \in {0, 1} /\ MaxInits[Other(p)] = 0
    BY DEF OneSession
<1>2. Caller \in Peers /\ MaxInits[Caller] \in {0, 1} /\ MaxInits[Other(Caller)] = 0
    BY <1>1 DEF Caller
<1> HIDE DEF Caller
<1> QED BY <1>2, OtherIs DEF Called

\* The count of messages fits in a counter.
LEMMA CountIs ==
    ASSUME OneSession, Typed, NEW p \in Peers, CountedOf(p)
    PROVE  /\ Count(p) \in Nat /\ Count(p) < Word /\ (FewMessages => Count(p) <= MaxJump) /\ IsFiniteSet(SentBy(p)) /\ Cardinality(SentBy(p)) \in Nat
           /\ Sending(p) \in {0, 1}
<1>1. IsFiniteSet(SentBy(p)) /\ Cardinality(SentBy(p)) \in Nat
    BY FS_Subset, FS_CardinalityType DEF SentBy, Typed
<1>2. Sending(p) \in {0, 1} /\ MaxSends[p] \in Nat /\ MaxCrashes[p] \in Nat /\ MaxSends[p] + MaxCrashes[p] < Word
    BY DEF Sending, OneSession
<1>3. MaxJump \in Nat /\ Word \in Nat /\ (FewMessages => MaxSends[p] + MaxCrashes[p] <= MaxJump)
    BY RatchetAssumption DEF FewMessages
<1> QED BY <1>1, <1>2, <1>3 DEF CountedOf, Count

\* The mail of either is of good messages, each with a key of its own.
LEMMA PostsAreMail ==
    ASSUME Typed, KeyInv
    PROVE  \A p : Mail(Known, Posts(p))
BY SentPosted DEF KeyInv, KeysApart, Mail, Posts

\* A session that was awaited.
Awaited(s, base) == s \in Sessions(Known) /\ ~s.pending /\ s.base = base

\* The session initIncoming builds is one.
LEMMA AwaitedIs ==
    ASSUME NEW p \in Peers, NEW q \in Peers, NEW pre \in SUBSET Known, NEW base \in Known, NEW now \in Int,
           NEW s, IsResponder(s, p, q, pre, base, now)
    PROVE  Awaited(s, base)
<1>1. /\ s \in Sessions(Known) /\ Sound(s) /\ s.chains = [k \in {} |-> NewChain(<<>>, TRUE)]
      /\ s.base = base /\ s.root[2] = {Identity(p), base} /\ ~s.pending
    BY ResponderIsSound
<1> QED BY <1>1 DEF Awaited

\* The sessions of either side.
LEMMA SideTyped ==
    ASSUME OneSession, Typed, Calls, HasSession(Caller), NEW p \in Peers
    PROVE  /\ Side(p) \in Sessions(Known)
           /\ HasSession(p) => Side(p) = record[p][1] /\ Good(Known, record[p][1])
           /\ ~HasSession(p) => /\ Side(p) = Awaits(p) /\ HasSession(Other(p)) /\ p = Called /\ ~Side(p).pending
                                /\ Side(p).base = record[Other(p)][1].base
<1>1. p = Caller \/ p = Called
    BY CallerIs
<1>2. HasSession(p) => Side(p) = record[p][1] /\ Good(Known, record[p][1])
    BY DEF Side, HasSession, Typed
<1>3. ASSUME ~HasSession(p)
      PROVE  /\ Side(p) = Awaits(p) /\ HasSession(Other(p)) /\ p = Called /\ Side(p) \in Sessions(Known) /\ ~Side(p).pending
             /\ Side(p).base = record[Other(p)][1].base
    <2>1. p = Called /\ Other(p) = Caller /\ HasSession(Other(p)) /\ Other(p) \in Peers
        BY <1>1, <1>3, CallerIs
    <2> DEFINE s == record[Other(p)][1]
    <2>2. s \in Sessions(Known)
        BY <2>1 DEF HasSession, Typed, Good
    <2> HIDE DEF s
    <2> DEFINE pre == s.pre
               base == s.base
               now == clock[p] + 1
               q == Other(p)
               y == Awaits(p)
    <2>3. pre \in SUBSET Known /\ base \in Known /\ now \in Int /\ q \in Peers
        BY <2>1, <2>2 DEF Sessions, Typed
    <2>4. IsResponder(y, p, q, pre, base, now)
        BY DEF IsResponder, Awaits, s
    <2> HIDE DEF y, pre, base, now, q
    <2>5. Awaited(y, base)
        BY <2>3, <2>4, AwaitedIs
    <2> QED BY <1>3, <2>1, <2>5 DEF Side, y, s, base, Awaited
<1> QED BY <1>2, <1>3 DEF Good

\* p reads m of q with its session, and that is all it does before the save.
Reads(p, q, m) ==
    /\ m \in Posts(q) /\ HasSession(q) /\ Decrypts(Side(p), m, Fresh(p, 1))
    /\ SameRatchet(AfterAttempt(Side(p), m, Fresh(p, 1)), record'[p][1])
    /\ record'[p][1].base = Side(p).base /\ ~record'[p][1].pending
    /\ DOMAIN record'[p] = 1 .. 1 /\ opened'[p] = 1 /\ record'[q] = record[q] /\ opened'[q] = opened[q]
    /\ job[p] = Idle /\ job'[p].op = "read" /\ job'[q] = job[q]
    /\ read'[p] = read[p] \cup {m} /\ read'[q] = read[q] /\ UNCHANGED <<wire, inits, crashes>>

\* What of the jobs says how many messages are on their way.
SameSending(p) == job'[p].op = "send" <=> job[p].op = "send"

\* The messages are those of before when no job comes to send or ceases to.
LEMMA SentSame ==
    ASSUME UNCHANGED wire, NEW p \in Peers, NEW q \in Peers, Peers = {p, q},
           job[p].op # "send", job'[p].op # "send", job'[q] = job[q]
    PROVE  /\ Sent' = Sent
           /\ \A r \in Peers : Posts(r)' = Posts(r) /\ Sending(r)' = Sending(r) /\ SentBy(r)' = SentBy(r)
<1>1. Sent' = Sent
    BY DEF Sent
<1>2. \A r \in Peers : Sending(r)' = Sending(r)
    BY DEF Sending
<1> QED BY <1>1, <1>2 DEF Posts, SentBy

\* Reading keeps the invariant: the keys of all other messages stay.
LEMMA ReadsPair ==
    ASSUME OneSession, Typed, KeyInv, PairInv, NEW p \in Peers, NEW q \in Peers, q = Other(p), NEW m, Reads(p, q, m)
    PROVE  Pair(Side(q), record'[p][1], Posts(q), Posts(p), read'[p], read[q]) /\ Below(record'[p][1], Count(p))
<1>1. HasSession(Caller) /\ p = Other(q)
    <2>1. p = Other(q)
        BY OtherIs
    <2> QED BY <2>1, CallerIs DEF PairInv, Calls, Reads, HasSession
<1> DEFINE y == Side(p)
           x == Side(q)
           f == Fresh(p, 1)
           M == Posts(q)
           N == Posts(p)
           R == read[p]
           S == read[q]
           t == record'[p][1]
           b == Count(p)
           K == Known
<1>2. x \in Sessions(K) /\ y \in Sessions(K)
    BY <1>1, SideTyped DEF PairInv
<1>3. Mail(K, M) /\ Mail(K, N)
    BY PostsAreMail
<1>4. Pair(x, y, M, N, R, S) /\ Below(y, b)
    BY <1>1 DEF PairInv, Paired, PairOf, Counted, CountedOf
<1>5. b \in Nat
    BY CountIs DEF PairInv, Counted
<1>6. f \notin K
    BY FreshIsNew DEF Typed
<1>7. m \in M /\ Decrypts(y, m, f) /\ SameRatchet(AfterAttempt(y, m, f), t)
    BY DEF Reads
<1>8. read'[p] = R \cup {m}
    BY DEF Reads
<1> HIDE DEF x, y, f, M, N, R, S, t, b, K
<1>9. Pair(x, t, M, N, R \cup {m}, S)
    BY <1>2, <1>3, <1>4, <1>6, <1>7, ReadKeepsPair
<1>10. Below(t, b)
    BY <1>2, <1>3, <1>4, <1>5, <1>6, <1>7, ReadBelow
<1> QED BY <1>8, <1>9, <1>10 DEF x, M, N, S, t, b

\* Who has a session, and how its record is.
LEMMA OneEntry ==
    ASSUME Calls, NEW p \in Peers
    PROVE  /\ HasSession(p) <=> DOMAIN record[p] = 1 .. 1
           /\ HasSession(p) <=> opened[p] = 1
           /\ ~HasSession(p) => DOMAIN record[p] = {} /\ opened[p] = 0
<1>1. DOMAIN record[p] = 1 .. opened[p] /\ opened[p] \in {0, 1}
    BY DEF Calls
<1>2. 1 .. 0 = {} /\ 1 \in 1 .. 1
    OBVIOUS
<1> QED BY <1>1, <1>2 DEF HasSession

\* So it keeps all of the invariant.
LEMMA ReadsKeepPair ==
    ASSUME OneSession, Typed, KeyInv, PairInv, NEW p \in Peers, NEW q \in Peers, q = Other(p), NEW m, Reads(p, q, m)
    PROVE  PairInv'
<1>1. p = Other(q) /\ p # q /\ Peers = {p, q} /\ Caller \in {p, q} /\ Called \in {p, q} /\ Caller # Called
    BY OtherIs, CallerIs
<1>2. HasSession(Caller) /\ HasSession(q)
    BY <1>1, CallerIs DEF PairInv, Calls, Reads, HasSession
<1>3. HasSession(p)' /\ HasSession(q)' /\ Side(p)' = record'[p][1] /\ Side(q)' = record[q][1] /\ Side(q) = record[q][1]
    <2>1. HasSession(p)' /\ HasSession(q)'
        BY <1>2 DEF HasSession, Reads
    <2> QED BY <1>2, <2>1 DEF Side, Reads
<1>4. Sent' = Sent /\ \A r \in Peers : Posts(r)' = Posts(r) /\ Sending(r)' = Sending(r) /\ SentBy(r)' = SentBy(r)
    BY <1>1, SentSame DEF Reads, Idle
<1>5. \A r \in Peers : Count(r)' = Count(r)
    BY <1>4 DEF Count, Reads
<1>6. Pair(Side(q), record'[p][1], Posts(q), Posts(p), read'[p], read[q]) /\ Below(record'[p][1], Count(p))
    BY ReadsPair
<1>7. Counted'
    <2> SUFFICES ASSUME NEW r \in Peers PROVE CountedOf(r)'
        BY DEF Counted, PairInv, Reads
    <2>1. CountedOf(r)
        BY DEF PairInv, Counted
    <2>2. Below(Side(r)', Count(r))
        <3>1. CASE r = p
            BY <1>3, <1>6, <3>1
        <3>2. CASE r = q
            BY <1>2, <1>3, <2>1, <3>2 DEF CountedOf
        <3> QED BY <1>1, <3>1, <3>2
    <2>3. job'[r].op = "send" => job'[r].msg.from = r /\ job'[r].msg \notin wire'
        BY <1>1, <2>1 DEF CountedOf, Reads
    <2>4. /\ crashes'[r] \in 0 .. MaxCrashes[r] /\ Cardinality(SentBy(r)') + Sending(r)' <= MaxSends[r]
          /\ \A n \in Posts(r)' : n.ctr < Count(r)'
        BY <1>4, <1>5, <2>1 DEF CountedOf, Reads
    <2> QED BY <1>5, <2>2, <2>3, <2>4 DEF CountedOf
<1>8. Calls'
    <2>1. \A r \in Peers : (DOMAIN record[r] = 1 .. opened[r])' /\ opened'[r] \in {0, 1} /\ Rests(r)'
        <3>1. DOMAIN record'[q] = 1 .. opened'[q] /\ opened'[q] \in {0, 1}
            BY DEF Reads, PairInv, Calls
        <3>2. DOMAIN record'[p] = 1 .. opened'[p] /\ opened'[p] \in {0, 1}
            BY DEF Reads
        <3> QED BY <1>1, <1>3, <3>1, <3>2 DEF Rests
    <2>2. opened'[Caller] = 1 /\ opened'[Called] = 1 /\ opened[Caller] = 1 /\ inits'[Caller] = inits[Caller]
        BY <1>1, <1>2, OneEntry DEF Reads, PairInv
    <2>3. opened'[Caller] = inits'[Caller] /\ opened'[Called] <= opened'[Caller]
        <3>1. opened[Caller] = inits[Caller]
            BY DEF PairInv, Calls
        <3> QED BY <2>2, <3>1
    <2>4. record'[Caller][1].base = record[Caller][1].base
        <3>1. CASE Caller = p
            BY <1>2, <3>1 DEF Side, Reads
        <3>2. CASE Caller = q
            BY <3>2 DEF Reads
        <3> QED BY <1>1, <3>1, <3>2
    <2>5. ~record'[Called][1].pending /\ record'[Called][1].base = record[Caller][1].base
        <3>1. CASE Called = p
            <4>1. record'[p][1].base = Side(p).base /\ ~record'[p][1].pending
                BY DEF Reads
            <4>2. HasSession(p) => Side(p).base = record[Caller][1].base
                BY <3>1 DEF PairInv, Calls, Side
            <4>3. ~HasSession(p) => Side(p).base = record[Caller][1].base
                BY <1>1, <1>2, <3>1, SideTyped DEF PairInv
            <4> QED BY <3>1, <4>1, <4>2, <4>3
        <3>2. CASE Called = q
            BY <1>2, <3>2 DEF Reads, PairInv, Calls
        <3> QED BY <1>1, <3>1, <3>2
    <2>6. /\ \A n \in Posts(Called)' : ~n.pkmsg
          /\ \A n \in Posts(Caller)' : n.pkmsg => n.base = {record'[Caller][1].base}
        BY <1>2, <1>4, <2>4, CallerIs DEF PairInv, Calls
    <2>7. HasSession(Called)'
        BY <1>1, <1>3
    <2> QED BY <2>1, <2>3, <2>4, <2>5, <2>6, <2>7 DEF Calls
<1>9. PairOf(p)' /\ PairOf(q)'
    <2>1. Pair(Side(q)', Side(p)', Posts(q)', Posts(p)', read'[p], read'[q])
        BY <1>3, <1>4, <1>6 DEF Reads
    <2>2. Pair(Side(p)', Side(q)', Posts(p)', Posts(q)', read'[q], read'[p])
        BY <2>1, PairKeeps
    <2>3. p = Other(q) /\ q = Other(p)
        BY <1>1
    <2> QED BY <2>1, <2>2, <2>3 DEF PairOf
<1>10. Paired'
    BY <1>1, <1>9 DEF Paired
<1> QED BY <1>7, <1>8, <1>10 DEF PairInv

\* u is what reading m leaves of s.
DoneWith(s, m, f, u) == SameRatchet(AfterAttempt(s, m, f), u) /\ u.base = s.base /\ ~u.pending

\* An attempt that decrypts leaves this, whatever time of use is noted.
LEMMA DoneIs ==
    ASSUME NEW K, NEW f, f \notin K, NEW s \in Sessions(K), NEW m \in Messages(K), Decrypts(s, m, f), NEW now \in Int
    PROVE  /\ DoneWith(s, m, f, AfterAttempt(s, m, f))
           /\ DoneWith(s, m, f, [AfterAttempt(s, m, f) EXCEPT !.used = now])
<1> DEFINE r == AfterRatchet(s, m, f)
           t == KeyTaken(r, m)
           a == AfterAttempt(s, m, f)
           u == [a EXCEPT !.used = now]
<1>1. GoesOn(s, r, K, f) /\ m.eph \in DOMAIN r.chains /\ GoesOn(s, a, K, f)
    BY RatchetGoesOn, AttemptGoesOn
<1>2. KeyThere(r, m) /\ a = [t EXCEPT !.pending = FALSE, !.pre = {}]
    BY DEF Decrypts, AfterAttempt
<1> HIDE DEF r
<1>3. t \in Sessions(K \cup {f})
    BY <1>1, <1>2, TakenSpent DEF GoesOn
<1> HIDE DEF t
<1>4. ~a.pending
    <2>1. a.pending = FALSE
        BY <1>2, <1>3 DEF Sessions
    <2> QED BY <2>1
<1>5. a \in Sessions(K \cup {f}) /\ a.base = s.base
    BY <1>1 DEF GoesOn, SameEntry
<1> HIDE DEF a
<1>6. SameRatchet(a, a) /\ SameRatchet(a, u) /\ u.base = a.base /\ u.pending = a.pending
    BY <1>5 DEF SameRatchet, Sessions
<1> HIDE DEF u
<1> QED BY <1>4, <1>5, <1>6 DEF DoneWith, a, u

\* The message is one the other, which has a session, has sent.
LEMMA ReadIsPost ==
    ASSUME Typed, Calls, NEW p \in Peers, NEW q \in Peers, NEW m \in wire, m.from = q
    PROVE  m \in Posts(q) /\ HasSession(q) /\ m \in Messages(Known)
<1>1. m \in Posts(q)
    BY DEF Posts, Sent
<1>2. HasSession(q)
    BY <1>1 DEF Calls, Rests
<1> QED BY <1>1, <1>2 DEF Typed, PostedSet

\* What the three ways of reading have in common.
ReadsWith(p, q, m, pre, u) ==
    /\ m.from = q /\ job[p] = Idle /\ job' = [job EXCEPT ![p] = Reading(m, pre)]
    /\ read' = [read EXCEPT ![p] = @ \cup {m}] /\ UNCHANGED <<wire, inits, crashes>>
    /\ IsMap(record') /\ DOMAIN record'[p] = 1 .. 1 /\ record'[p][1] = u /\ record'[q] = record[q]
    /\ opened'[p] = 1 /\ opened'[q] = opened[q]

\* They are all that Reads says.
LEMMA ReadsIs ==
    ASSUME Typed, Calls, NEW p \in Peers, NEW q \in Peers, p # q, NEW m \in wire, NEW pre, NEW u,
           ReadsWith(p, q, m, pre, u), Decrypts(Side(p), m, Fresh(p, 1)), DoneWith(Side(p), m, Fresh(p, 1), u)
    PROVE  Reads(p, q, m)
<1>1. m \in Posts(q) /\ HasSession(q)
    BY ReadIsPost DEF ReadsWith
<1>2. job'[p].op = "read" /\ job'[q] = job[q]
    BY DEF ReadsWith, Reading, Typed
<1>3. read'[p] = read[p] \cup {m} /\ read'[q] = read[q]
    BY DEF ReadsWith, Typed
<1> QED BY <1>1, <1>2, <1>3 DEF Reads, ReadsWith, DoneWith

\* Saving a record of one session saves just that.
LEMMA SavesOne ==
    ASSUME Typed, NEW p \in Peers, NEW q \in Peers, p # q, NEW rec, Save(p, rec), DOMAIN rec = 1 .. 1
    PROVE  IsMap(record') /\ DOMAIN record'[p] = 1 .. 1 /\ record'[p][1] = rec[1] /\ record'[q] = record[q]
<1>1. SaveOf(p, rec)
    BY SaveIs DEF Typed
<1>2. 1 \in 0 .. ClosedMax /\ 1 \in 1 .. 1
    BY SessionRecordAssumption
<1> QED BY <1>1, <1>2 DEF SaveOf

\* decryptWhisperMessage reads with the one session there is;
LEMMA WhisperReads ==
    ASSUME Typed, Calls, NEW p \in Peers, NEW q \in Peers, q = Other(p), NEW m \in wire, DecryptWhisper(p, m)
    PROVE  Reads(p, q, m)
<1>1. /\ m.from = q /\ job[p] = Idle /\ job' = [job EXCEPT ![p] = Reading(m, {})] /\ UNCHANGED opened
      /\ read' = [read EXCEPT ![p] = @ \cup {m}] /\ UNCHANGED <<wire, inits, crashes>>
    BY DEF DecryptWhisper
<1>2. PICK i \in DOMAIN record[p] : Matches(p, m, i) /\ Save(p, AfterSearch(p, m, i))
    BY DEF DecryptWhisper
<1>3. HasSession(p) /\ i = 1 /\ DOMAIN record[p] = 1 .. 1 /\ opened[p] = 1 /\ p # q
    <2>1. HasSession(p) /\ DOMAIN record[p] = 1 .. 1 /\ opened[p] = 1
        BY <1>2, OneEntry
    <2> QED BY <1>2, <2>1, OtherIs
<1> DEFINE s == record[p][1]
           f == Fresh(p, 1)
           now == clock[p] + 1
           u == [AfterAttempt(s, m, f) EXCEPT !.used = now]
           rec == AfterSearch(p, m, 1)
<1>4. rec[1] = u /\ DOMAIN rec = 1 .. 1
    BY <1>3 DEF AfterSearch
<1>5. Decrypts(s, m, f) /\ Side(p) = s /\ Save(p, rec)
    BY <1>2, <1>3 DEF Matches, Side
<1>6. f \notin Known /\ s \in Sessions(Known) /\ m \in Messages(Known) /\ now \in Int
    BY <1>3, FreshIsNew DEF Typed, PostedSet, Good
<1> HIDE DEF s, f, now, rec
<1>7. DoneWith(s, m, f, u)
    BY <1>5, <1>6, DoneIs
<1> HIDE DEF u
<1>8. IsMap(record') /\ DOMAIN record'[p] = 1 .. 1 /\ record'[p][1] = u /\ record'[q] = record[q]
    BY <1>3, <1>4, <1>5, SavesOne
<1>9. ReadsWith(p, q, m, {}, u)
    BY <1>1, <1>3, <1>8 DEF ReadsWith
<1> QED BY <1>3, <1>5, <1>7, <1>9, ReadsIs DEF f

\* so does decryptPreKeyWhisperMessage where the session is known,
LEMMA KnownReads ==
    ASSUME Typed, Calls, NEW p \in Peers, NEW q \in Peers, q = Other(p), NEW m \in wire, DecryptPreKeyKnown(p, m)
    PROVE  Reads(p, q, m)
<1>1. /\ m.from = q /\ job[p] = Idle /\ job' = [job EXCEPT ![p] = Reading(m, {})] /\ UNCHANGED opened
      /\ read' = [read EXCEPT ![p] = @ \cup {m}] /\ UNCHANGED <<wire, inits, crashes>>
    BY DEF DecryptPreKeyKnown
<1>2. PICK i \in DOMAIN record[p] :
          /\ Decrypts(record[p][i], m, Fresh(p, i))
          /\ Save(p, [record[p] EXCEPT ![i] = AfterAttempt(@, m, Fresh(p, i))])
    BY DEF DecryptPreKeyKnown
<1>3. HasSession(p) /\ i = 1 /\ DOMAIN record[p] = 1 .. 1 /\ opened[p] = 1 /\ p # q
    <2>1. HasSession(p) /\ DOMAIN record[p] = 1 .. 1 /\ opened[p] = 1
        BY <1>2, OneEntry
    <2> QED BY <1>2, <2>1, OtherIs
<1> DEFINE s == record[p][1]
           f == Fresh(p, 1)
           u == AfterAttempt(s, m, f)
           rec == [record[p] EXCEPT ![1] = u]
<1>4. rec[1] = u /\ DOMAIN rec = 1 .. 1
    BY <1>3
<1>5. Decrypts(s, m, f) /\ Side(p) = s /\ Save(p, rec)
    BY <1>2, <1>3 DEF Side
<1>6. f \notin Known /\ s \in Sessions(Known) /\ m \in Messages(Known) /\ 0 \in Int
    BY <1>3, FreshIsNew DEF Typed, PostedSet, Good
<1> HIDE DEF s, f, rec
<1>7. DoneWith(s, m, f, u)
    BY <1>5, <1>6, DoneIs
<1> HIDE DEF u
<1>8. IsMap(record') /\ DOMAIN record'[p] = 1 .. 1 /\ record'[p][1] = u /\ record'[q] = record[q]
    BY <1>3, <1>4, <1>5, SavesOne
<1>9. ReadsWith(p, q, m, {}, u)
    BY <1>1, <1>3, <1>8 DEF ReadsWith
<1> QED BY <1>3, <1>5, <1>7, <1>9, ReadsIs DEF f

\* The session a first message builds is the one that was awaited.
LEMMA FirstBuilds ==
    ASSUME OneSession, Typed, Calls, NEW p \in Peers, NEW q \in Peers, q = Other(p), NEW m \in Posts(q), m.pkmsg,
           ~\E i \in DOMAIN record[p] : IsSessionOf(record[p], i, m)
    PROVE  /\ p = Called /\ q = Caller /\ HasSession(q) /\ ~HasSession(p) /\ opened[p] = 0 /\ DOMAIN record[p] = {}
           /\ Incoming(p, m) = Awaits(p) /\ Side(p) = Awaits(p) /\ m.pre \subseteq preKeys[p]
<1>1. HasSession(q)
    BY DEF Calls, Rests
<1>2. p = Called /\ q = Caller
    <2>1. q # Called
        BY DEF Calls
    <2> QED BY <2>1, OtherIs, CallerIs
<1>3. m.base = {record[q][1].base}
    BY <1>1, <1>2 DEF Calls
<1>4. ~HasSession(p)
    <2> SUFFICES ASSUME HasSession(p) PROVE FALSE
        OBVIOUS
    <2>1. record[p][1].base = record[q][1].base
        BY <1>2 DEF Calls
    <2> QED BY <1>3, <2>1 DEF IsSessionOf, HasSession
<1>5. opened[p] = 0 /\ DOMAIN record[p] = {}
    BY <1>4, OneEntry
<1>6. m.pre = record[q][1].pre /\ m.pre \subseteq preKeys[p]
    BY <1>1, <1>2, <1>4 DEF Calls
<1>7. (CHOOSE b \in m.base : TRUE) = record[q][1].base
    BY <1>3
<1>8. Incoming(p, m) = Awaits(p)
    BY <1>6, <1>7 DEF Incoming, Awaits
<1> QED BY <1>1, <1>2, <1>4, <1>5, <1>6, <1>8 DEF Side

\* and where it builds it, with the one that was awaited.
LEMMA NewReads ==
    ASSUME OneSession, Typed, Calls, NEW p \in Peers, NEW q \in Peers, q = Other(p), NEW m \in wire, DecryptPreKeyNew(p, m)
    PROVE  Reads(p, q, m)
<1>1. /\ m.from = q /\ job[p] = Idle /\ job' = [job EXCEPT ![p] = Reading(m, m.pre)] /\ m.pkmsg
      /\ opened' = [opened EXCEPT ![p] = @ + 1] /\ CanBuild(p, m)
      /\ read' = [read EXCEPT ![p] = @ \cup {m}] /\ UNCHANGED <<wire, inits, crashes>>
      /\ Save(p, Put(CloseOpen(record[p], clock[p] + 1), opened[p] + 1,
                     AfterAttempt(Incoming(p, m), m, Fresh(p, opened[p] + 1))))
    BY DEF DecryptPreKeyNew
<1>2. /\ HasSession(q) /\ opened[p] = 0 /\ DOMAIN record[p] = {} /\ Incoming(p, m) = Side(p)
      /\ q = Caller /\ p # q
    <2>1. m \in Posts(q)
        BY <1>1, ReadIsPost
    <2>2. ~\E i \in DOMAIN record[p] : IsSessionOf(record[p], i, m)
        BY <1>1 DEF CanBuild
    <2>3. p # q
        BY OtherIs
    <2> QED BY <1>1, <2>1, <2>2, <2>3, FirstBuilds
<1> DEFINE s == Side(p)
           f == Fresh(p, 1)
           u == AfterAttempt(s, m, f)
           old == CloseOpen(record[p], clock[p] + 1)
           rec == Put(old, 1, u)
<1>3. Decrypts(s, m, f) /\ Save(p, rec)
    BY <1>1, <1>2 DEF CanBuild
<1>4. f \notin Known /\ s \in Sessions(Known) /\ m \in Messages(Known) /\ 0 \in Int
    BY <1>2, FreshIsNew, SideTyped DEF Typed, PostedSet
<1>5. DOMAIN old = {}
    BY <1>2 DEF CloseOpen
<1> HIDE DEF s, f, u, old
<1>6. DoneWith(s, m, f, u)
    BY <1>3, <1>4, DoneIs DEF u
<1>7. rec[1] = u /\ DOMAIN rec = 1 .. 1
    BY <1>5 DEF Put
<1> HIDE DEF rec
<1>8. IsMap(record') /\ DOMAIN record'[p] = 1 .. 1 /\ record'[p][1] = u /\ record'[q] = record[q]
    BY <1>2, <1>3, <1>7, SavesOne
<1>9. opened'[p] = 1 /\ opened'[q] = opened[q]
    BY <1>1, <1>2 DEF Typed
<1>10. ReadsWith(p, q, m, m.pre, u)
    BY <1>1, <1>8, <1>9 DEF ReadsWith
<1> QED BY <1>2, <1>3, <1>6, <1>10, ReadsIs DEF s, f

\* p encrypts m on its session, and that is all it does before the send.
Puts(p, q, m) ==
    LET s == record[p][1] e == record'[p][1]
    IN /\ HasSession(p) /\ CanEncrypt(s) /\ Advanced(s, e) /\ NextOn(s, m) /\ PostedBy(m, p, s) /\ m \in PostedSet(Known)
       /\ m \notin wire /\ job[p] = Idle /\ job'[p] = [op |-> "send", msg |-> m] /\ job'[q] = job[q]
       /\ DOMAIN record'[p] = 1 .. 1 /\ record'[q] = record[q]
       /\ UNCHANGED <<opened, clock, preKeys, stock, wire, read, inits, crashes>>
       /\ Cardinality(SentBy(p)) < MaxSends[p]

\* A counter below 2^32 is sent as it is.
LEMMA PrevFits ==
    ASSUME NEW n \in Nat, NEW b \in Nat, b < Word, n = 0 \/ n < b
    PROVE  n % Word = n
<1>1. n < Word /\ Word \in Nat
    BY RatchetAssumption
<1> QED BY <1>1

\* encrypt does that: the message is new, and the counters in it are exact.
LEMMA EncryptPuts ==
    ASSUME OneSession, Typed, KeyInv, PairInv, NEW p \in Peers, NEW q \in Peers, q = Other(p), Encrypt(p)
    PROVE  \E m \in PostedSet(Known) : Puts(p, q, m)
<1>1. /\ job[p] = Idle /\ Cardinality(SentBy(p)) < MaxSends[p] /\ p # q
      /\ UNCHANGED <<opened, clock, preKeys, stock, wire, read, inits, crashes>>
    BY OtherIs DEF Encrypt
<1>2. PICK i \in DOMAIN record[p] :
         /\ CanEncrypt(record[p][i]) /\ Save(p, [record[p] EXCEPT ![i] = Encrypted(@)])
         /\ job' = [job EXCEPT ![p] = [op |-> "send", msg |-> Stanza(p, Ciphertext(record[p][i]))]]
    BY DEF Encrypt
<1>3. HasSession(p) /\ i = 1 /\ DOMAIN record[p] = 1 .. 1
    <2>1. HasSession(p) /\ DOMAIN record[p] = 1 .. 1
        BY <1>2, OneEntry DEF PairInv
    <2> QED BY <1>2, <2>1
<1> DEFINE s == record[p][1]
           e == Encrypted(s)
           rec == [record[p] EXCEPT ![1] = e]
           m == Stanza(p, Ciphertext(s))
           b == Count(p)
           prev == s.prev
<1>4. Good(Known, s) /\ s \in Sessions(Known) /\ CanEncrypt(s)
    BY <1>2, <1>3 DEF Typed, Good
<1>5. rec[1] = e /\ DOMAIN rec = 1 .. 1 /\ Save(p, rec)
    BY <1>2, <1>3
<1>6. m \in PostedSet(Known) /\ PostedBy(m, p, s)
    BY <1>4, StanzaPosted
<1>7. m.eph = s.eph /\ m.prev = prev % Word
    BY DEF Stanza, Ciphertext
<1>8. Below(s, b) /\ b \in Nat /\ b < Word
    <2>1. CountedOf(p) /\ HasSession(Caller) /\ Side(p) = s
        BY <1>3, CallerIs DEF PairInv, Counted, Calls, HasSession, Side
    <2> QED BY <2>1, CountIs DEF CountedOf
<1>9. prev \in Nat /\ (prev = 0 \/ prev < b)
    BY <1>8 DEF Below
<1> HIDE DEF m, e, rec, b, prev
<1>10. NextOn(s, m)
    <2>1. prev % Word = prev
        BY <1>8, <1>9, PrevFits
    <2> QED BY <1>6, <1>7, <2>1 DEF NextOn, PostedBy, prev
<1>11. m \notin wire
    <2> SUFFICES ASSUME m \in wire PROVE FALSE
        OBVIOUS
    <2>1. m \in Sent
        BY DEF Sent
    <2>2. m.ctr <= SendCounter(s)
        BY <1>3, <1>6, <2>1 DEF KeyInv, CountersAhead, PostedBy
    <2>3. SendCounter(s) \in Int
        BY <1>4, ChainOf DEF CanEncrypt, HasChain, SendCounter
    <2> QED BY <1>6, <2>2, <2>3 DEF PostedBy
<1>12. Advanced(s, e)
    BY <1>4, EncryptedIs DEF e
<1>13. DOMAIN record'[p] = 1 .. 1 /\ record'[p][1] = e /\ record'[q] = record[q]
    BY <1>1, <1>5, SavesOne
<1>14. job'[p] = [op |-> "send", msg |-> m] /\ job'[q] = job[q]
    BY <1>1, <1>2, <1>3 DEF Typed, m
<1> HIDE DEF s
<1>15. Puts(p, q, m)
    BY <1>1, <1>3, <1>4, <1>6, <1>10, <1>11, <1>12, <1>13, <1>14 DEF Puts, s
<1> QED BY <1>6, <1>15

\* The session p's messages are for is the one of before.
LEMMA PutsSides ==
    ASSUME OneSession, Typed, Calls, NEW p \in Peers, NEW q \in Peers, q = Other(p), NEW m, Puts(p, q, m)
    PROVE  /\ HasSession(p)' /\ (HasSession(q)' <=> HasSession(q)) /\ (HasSession(Caller)' <=> HasSession(Caller))
           /\ Side(p) = record[p][1] /\ Side(p)' = record'[p][1] /\ Side(q)' = Side(q) /\ HasSession(Caller)
           /\ record'[p][1].base = record[p][1].base
<1>1. p = Other(q) /\ Caller \in {p, q}
    BY OtherIs, CallerIs
<1>2. HasSession(p)' /\ HasSession(p) /\ (HasSession(q)' <=> HasSession(q))
    BY DEF HasSession, Puts
<1>3. HasSession(Caller)
    BY <1>2, CallerIs DEF Calls, HasSession
<1>4. Awaits(q)' = Awaits(q)
    <2>1. /\ record'[p][1].pre = record[p][1].pre /\ record'[p][1].base = record[p][1].base /\ clock' = clock
        BY DEF Puts, Advanced
    <2> QED BY <1>1, <2>1 DEF Awaits
<1>5. Side(q)' = Side(q)
    BY <1>2, <1>4 DEF Side, Puts
<1> QED BY <1>1, <1>2, <1>3, <1>5 DEF Side, Puts, Advanced

\* The messages are those of before and m.
LEMMA PutsPosts ==
    ASSUME OneSession, Typed, KeyInv, Counted, NEW p \in Peers, NEW q \in Peers, q = Other(p), NEW m, Puts(p, q, m)
    PROVE  /\ Posts(p)' \subseteq Posts(p) \cup {m} /\ Posts(q)' \subseteq Posts(q)
           /\ Count(p)' = Count(p) + 1 /\ Count(q)' = Count(q) /\ Sending(p)' = 1 /\ Sending(p) = 0 /\ Sending(q)' = Sending(q)
           /\ \A r \in Peers : SentBy(r)' = SentBy(r)
<1>1. m.from = p /\ p # q /\ Peers = {p, q} /\ job'[p] = [op |-> "send", msg |-> m] /\ job'[q] = job[q] /\ wire' = wire
      /\ crashes' = crashes /\ job[p] = Idle
    BY OtherIs DEF Puts, PostedBy
<1>2. Sent' \subseteq Sent \cup {m}
    BY <1>1 DEF Sent
<1>3. Sending(p)' = 1 /\ Sending(p) = 0 /\ Sending(q)' = Sending(q)
    BY <1>1 DEF Sending, Idle
<1>4. \A r \in Peers : SentBy(r)' = SentBy(r)
    BY <1>1 DEF SentBy
<1>5. Cardinality(SentBy(p)) \in Nat /\ crashes[p] \in Nat
    BY CountIs DEF Counted, CountedOf, OneSession
<1>6. Count(p)' = Count(p) + 1 /\ Count(q)' = Count(q)
    BY <1>1, <1>3, <1>4, <1>5 DEF Count
<1> QED BY <1>1, <1>2, <1>3, <1>4, <1>6 DEF Posts

\* The counts stay right,
LEMMA PutsCounted ==
    ASSUME OneSession, Typed, KeyInv, PairInv, NEW p \in Peers, NEW q \in Peers, q = Other(p), NEW m, Puts(p, q, m)
    PROVE  Counted'
<1> DEFINE s == record[p][1]
           e == record'[p][1]
<1>1. /\ Posts(p)' \subseteq Posts(p) \cup {m} /\ Posts(q)' \subseteq Posts(q)
      /\ Count(p)' = Count(p) + 1 /\ Count(q)' = Count(q) /\ Sending(p)' = 1 /\ Sending(p) = 0 /\ Sending(q)' = Sending(q)
      /\ \A r \in Peers : SentBy(r)' = SentBy(r)
    BY PutsPosts DEF PairInv
<1>2. Side(p) = s /\ Side(p)' = e /\ Side(q)' = Side(q) /\ HasSession(Caller) /\ p # q /\ Peers = {p, q}
    BY PutsSides, OtherIs DEF PairInv
<1>3. CountedOf(p) /\ CountedOf(q) /\ Count(p) \in Nat /\ Cardinality(SentBy(p)) \in Nat
    BY CountIs DEF PairInv, Counted
<1>4. SendCounter(s) \in Int /\ SendCounter(e) = SendCounter(s) + 1 /\ e.prev = s.prev /\ CanEncrypt(s)
    <2>1. s \in Sessions(Known) /\ CanEncrypt(s)
        BY DEF Puts, Typed, Good, HasSession
    <2>2. SendCounter(s) \in Int
        BY <2>1, AdvancedSees DEF Puts
    <2> QED BY <2>1, <2>2 DEF Puts, Advanced
<1> HIDE DEF s, e
<1>5. Below(s, Count(p))
    BY <1>2, <1>3 DEF CountedOf
<1>6. Below(e, Count(p) + 1)
    BY <1>3, <1>4, <1>5 DEF Below
<1>7. \A n \in Posts(p)' : n.ctr < Count(p) + 1
    <2> SUFFICES ASSUME NEW n \in Posts(p)' PROVE n.ctr < Count(p) + 1
        OBVIOUS
    <2>1. CASE n \in Posts(p)
        <3>1. n.ctr < Count(p) /\ n.ctr \in Nat
            BY <1>3, <2>1, PostsAreMail, MailIs DEF CountedOf
        <3> QED BY <1>3, <3>1
    <2>2. CASE n = m
        <3>1. n.ctr = SendCounter(s) + 1
            BY <2>2 DEF Puts, NextOn, s
        <3> QED BY <1>3, <1>4, <1>5, <3>1 DEF Below
    <2> QED BY <1>1, <2>1, <2>2
<1>8. CountedOf(p)'
    <2>1. job'[p].op = "send" => job'[p].msg.from = p /\ job'[p].msg \notin wire'
        BY DEF Puts, PostedBy
    <2>2. Cardinality(SentBy(p)') + Sending(p)' <= MaxSends[p]
        <3>1. Cardinality(SentBy(p)) < MaxSends[p] /\ MaxSends[p] \in Nat
            BY DEF Puts, OneSession
        <3> QED BY <1>1, <1>3, <3>1
    <2>3. crashes'[p] \in 0 .. MaxCrashes[p]
        BY <1>3 DEF Puts, CountedOf
    <2> QED BY <1>1, <1>2, <1>6, <1>7, <2>1, <2>2, <2>3 DEF CountedOf
<1>9. CountedOf(q)'
    <2>1. job'[q].op = "send" => job'[q].msg.from = q /\ job'[q].msg \notin wire'
        BY <1>3 DEF Puts, CountedOf
    <2>2. crashes'[q] \in 0 .. MaxCrashes[q]
        BY <1>3 DEF Puts, CountedOf
    <2> QED BY <1>1, <1>2, <1>3, <2>1, <2>2 DEF CountedOf
<1> QED BY <1>2, <1>8, <1>9 DEF Counted, PairInv, Puts

\* the message is of the kind the other can take,
LEMMA PutsCalls ==
    ASSUME OneSession, Typed, KeyInv, PairInv, NEW p \in Peers, NEW q \in Peers, q = Other(p), NEW m, Puts(p, q, m)
    PROVE  Calls'
<1> DEFINE s == record[p][1]
           e == record'[p][1]
<1>1. Posts(p)' \subseteq Posts(p) \cup {m} /\ Posts(q)' \subseteq Posts(q)
    BY PutsPosts DEF PairInv
<1>2. /\ HasSession(p)' /\ HasSession(p) /\ (HasSession(q)' <=> HasSession(q)) /\ (HasSession(Caller)' <=> HasSession(Caller))
      /\ HasSession(Caller) /\ p # q /\ Peers = {p, q}
    BY PutsSides, OtherIs DEF PairInv, Puts
<1>3. Calls /\ Caller \in {p, q} /\ Called \in {p, q} /\ Caller # Called
    BY CallerIs DEF PairInv
<1>4. /\ e.base = s.base /\ e.pre = s.pre /\ e.pending = s.pending /\ record'[q] = record[q]
      /\ m.pkmsg = s.pending /\ m.pre = s.pre /\ (s.pending => m.base = {s.base})
    BY DEF Puts, Advanced, PostedBy
<1> HIDE DEF s, e
<1>5. \A r \in Peers : (DOMAIN record[r] = 1 .. opened[r])' /\ opened'[r] \in {0, 1} /\ Rests(r)'
    <2>1. (DOMAIN record[p] = 1 .. opened[p])' /\ opened'[p] \in {0, 1} /\ Rests(p)'
        <3>1. opened[p] = 1
            BY <1>2, <1>3, OneEntry
        <3> QED BY <1>2, <3>1 DEF Puts, Rests
    <2>2. (DOMAIN record[q] = 1 .. opened[q])' /\ opened'[q] \in {0, 1} /\ Rests(q)'
        BY <1>1, <1>2, <1>3 DEF Calls, Puts, Rests
    <2> QED BY <1>2, <2>1, <2>2
<1>6. opened'[Caller] = inits'[Caller] /\ opened'[Called] <= opened'[Caller]
    BY <1>3 DEF Calls, Puts
<1>7. CASE p = Caller
    <2>1. q = Called
        BY <1>3, <1>7
    <2>2. \A n \in Posts(Called)' : ~n.pkmsg
        BY <1>1, <1>3, <2>1 DEF Calls
    <2>3. HasSession(Called)' => ~record'[Called][1].pending /\ record'[Called][1].base = record'[Caller][1].base
        BY <1>2, <1>3, <1>4, <1>7, <2>1 DEF Calls, s, e
    <2>4. \A n \in Posts(Caller)' : n.pkmsg => n.base = {record'[Caller][1].base}
        BY <1>1, <1>2, <1>3, <1>4, <1>7 DEF Calls, s, e
    <2>5. ~HasSession(Called)' =>
             /\ record'[Caller][1].pending /\ record'[Caller][1].pre \subseteq preKeys'[Called]
             /\ \A n \in Posts(Caller)' : n.pkmsg /\ n.pre = record'[Caller][1].pre
        BY <1>1, <1>2, <1>3, <1>4, <1>7, <2>1 DEF Calls, s, e, Puts
    <2> QED BY <1>5, <1>6, <2>2, <2>3, <2>4, <2>5 DEF Calls
<1>8. CASE p = Called
    <2>1. q = Caller
        BY <1>3, <1>8
    <2>2. \A n \in Posts(Called)' : ~n.pkmsg
        BY <1>1, <1>2, <1>3, <1>4, <1>8 DEF Calls, s
    <2>3. HasSession(Called)' => ~record'[Called][1].pending /\ record'[Called][1].base = record'[Caller][1].base
        BY <1>2, <1>3, <1>4, <1>8, <2>1 DEF Calls, s, e
    <2>4. \A n \in Posts(Caller)' : n.pkmsg => n.base = {record'[Caller][1].base}
        BY <1>1, <1>2, <1>3, <1>4, <2>1 DEF Calls
    <2> QED BY <1>2, <1>5, <1>6, <1>8, <2>2, <2>3, <2>4 DEF Calls
<1> QED BY <1>3, <1>7, <1>8

\* and the two sessions stay a pair.
LEMMA PutsPaired ==
    ASSUME OneSession, Typed, KeyInv, PairInv, NEW p \in Peers, NEW q \in Peers, q = Other(p), NEW m, Puts(p, q, m)
    PROVE  Paired'
<1> DEFINE x == record[p][1]
           y == Side(q)
           e == record'[p][1]
           M == Posts(p)
           N == Posts(q)
           R == read[q]
           S == read[p]
           L == Posts(p)'
           O == Posts(q)'
           K == Known
<1>1. L \subseteq M \cup {m} /\ O \subseteq N
    BY PutsPosts DEF PairInv
<1>2. /\ Side(p) = x /\ Side(p)' = e /\ Side(q)' = y /\ HasSession(Caller) /\ p = Other(q) /\ Peers = {p, q}
    BY PutsSides, OtherIs DEF PairInv
<1>3. Pair(x, y, M, N, R, S)
    BY <1>2 DEF PairInv, Paired, PairOf
<1>4. x \in Sessions(K) /\ y \in Sessions(K)
    BY <1>2, SideTyped DEF PairInv
<1>5. Mail(K, M)
    BY PostsAreMail
<1>6. CanEncrypt(x) /\ Advanced(x, e) /\ m \in Messages(K) /\ NextOn(x, m)
    BY DEF Puts, PostedSet
<1>7. read' = read
    BY DEF Puts
<1> HIDE DEF x, y, e, M, N, R, S, L, O, K
<1>8. Pair(e, y, L, N, R, S)
    BY <1>1, <1>3, <1>4, <1>5, <1>6, SendKeepsPair
<1>9. Pair(y, e, O, L, S, R)
    BY <1>1, <1>8, PairKeeps
<1>10. Pair(e, y, L, O, R, S)
    BY <1>9, PairKeeps
<1>11. PairOf(p)' /\ PairOf(q)'
    BY <1>2, <1>7, <1>9, <1>10 DEF PairOf, y, e, L, O, R, S
<1> QED BY <1>2, <1>11 DEF Paired

\* p sets up the session s with q.
SetsUp(p, q, pre, s) ==
    /\ IsInitiator(s, p, q, pre, Fresh(p, 0), Fresh(p, 1), clock[p] + 1) /\ pre \subseteq stock[q] /\ pre \subseteq preKeys[q]
    /\ p = Caller /\ q = Called /\ opened[p] = 0 /\ opened'[p] = 1 /\ opened[q] = 0 /\ opened'[q] = 0 /\ inits'[p] = 1
    /\ DOMAIN record'[p] = 1 .. 1 /\ record'[p][1] = s /\ record'[q] = record[q] /\ DOMAIN record[q] = {}
    /\ inits' \in [Peers -> Nat] /\ stock'[q] \subseteq preKeys[q] /\ job[q] = Idle
    /\ UNCHANGED <<preKeys, job, wire, read, crashes>>
    /\ Posts(p) = {} /\ Posts(q) = {}

\* initOutgoing does that, as long as neither has a session.
LEMMA InitSetsUp ==
    ASSUME OneSession, Typed, PairInv, NEW p \in Peers, NEW q \in Peers, q = Other(p), InitOutgoing(p)
    PROVE  \E pre, s : SetsUp(p, q, pre, s)
<1>1. p = Caller /\ q = Called /\ p # q /\ Peers = {p, q}
    <2>1. inits[p] \in Nat /\ inits[p] < MaxInits[p]
        BY DEF InitOutgoing, PairInv, Counted
    <2>2. p # Called
        BY <2>1, CallerIs
    <2> QED BY <2>2, CallerIs, OtherIs
<1>2. opened[p] = 0 /\ inits[p] = 0 /\ opened[q] = 0
    <2>1. opened[p] = inits[p] /\ opened[q] <= opened[p] /\ opened[p] \in {0, 1} /\ opened[q] \in {0, 1}
        BY <1>1 DEF PairInv, Calls
    <2>2. inits[p] < MaxInits[p] /\ MaxInits[p] \in {0, 1}
        BY <1>1, CallerIs DEF InitOutgoing
    <2> QED BY <2>1, <2>2
<1>3. ~HasSession(p) /\ ~HasSession(q) /\ DOMAIN record[p] = {} /\ DOMAIN record[q] = {}
    BY <1>2, OneEntry DEF PairInv
<1>4. Posts(p) = {} /\ Posts(q) = {} /\ job[q] = Idle /\ stock[q] \subseteq preKeys[q]
    BY <1>3 DEF PairInv, Calls, Rests
<1> DEFINE t == clock[p] + 1
           old == CloseOpen(record[p], t)
<1>5. PICK bundle \in Bundles(Other(p)) :
          /\ record' = [record EXCEPT ![p] = Put(CloseOpen(@, t), opened[p] + 1,
                          Initiator(Identity(p), bundle, Fresh(p, 0), Fresh(p, opened[p] + 1), t))]
          /\ stock' = [stock EXCEPT ![Other(p)] = @ \ bundle.pre]
    BY DEF InitOutgoing
<1>6. /\ opened' = [opened EXCEPT ![p] = @ + 1] /\ inits' = [inits EXCEPT ![p] = @ + 1]
      /\ UNCHANGED <<preKeys, job, wire, read, crashes>>
    BY DEF InitOutgoing
<1>7. PICK pre \in SUBSET stock[q] : bundle = [identity |-> Identity(q), signed |-> Signed(q), pre |-> pre]
    <2>1. PICK pre \in IF stock[q] = {} THEN {{}} ELSE {{k} : k \in stock[q]} :
              bundle = [identity |-> Identity(q), signed |-> Signed(q), pre |-> pre]
        BY DEF Bundles
    <2>2. pre \in SUBSET stock[q]
        OBVIOUS
    <2> QED BY <2>1, <2>2
<1> DEFINE s == Initiator(Identity(p), bundle, Fresh(p, 0), Fresh(p, 1), t)
           rec == Put(old, 1, s)
<1>8. IsInitiator(s, p, q, pre, Fresh(p, 0), Fresh(p, 1), t)
    BY <1>7 DEF IsInitiator
<1>9. record' = [record EXCEPT ![p] = rec]
    BY <1>2, <1>5
<1>10. DOMAIN old = {}
    BY <1>3 DEF CloseOpen
<1> HIDE DEF s, old
<1>11. DOMAIN rec = 1 .. 1 /\ rec[1] = s
    BY <1>10 DEF Put
<1> HIDE DEF rec
<1>12. DOMAIN record'[p] = 1 .. 1 /\ record'[p][1] = s /\ record'[q] = record[q]
    BY <1>1, <1>9, <1>11 DEF Typed
<1>13. opened'[p] = 1 /\ opened'[q] = 0
    BY <1>1, <1>2, <1>6 DEF Typed
<1>14. stock'[q] \subseteq preKeys[q]
    BY <1>4, <1>5 DEF Typed
<1>15. inits'[p] = 1 /\ inits' \in [Peers -> Nat]
    BY <1>1, <1>2, <1>6 DEF PairInv, Counted
<1>16. SetsUp(p, q, pre, s)
    BY <1>1, <1>2, <1>3, <1>4, <1>6, <1>7, <1>8, <1>12, <1>13, <1>14, <1>15 DEF SetsUp
<1> QED BY <1>16

\* Setting up the session makes the two ends a pair.
LEMMA SetUpPair ==
    ASSUME OneSession, Typed, PairInv, NEW p \in Peers, NEW q \in Peers, q = Other(p), NEW pre, NEW s, SetsUp(p, q, pre, s)
    PROVE  PairInv'
<1> DEFINE y == Awaits(q)'
           base == Fresh(p, 0)
           eph == Fresh(p, 1)
           now == clock[p] + 1
           later == (clock[q] + 1)'
           R == read[q]
           S == read[p]
<1>1. p = Caller /\ q = Called /\ p # q /\ Peers = {p, q} /\ p = Other(q)
    BY OtherIs DEF SetsUp
<1>2. \A b \in Nat : /\ Pair(s, y, {}, {}, R, S) /\ Below(s, b) /\ Below(y, b)
                     /\ s.pre = pre /\ s.base = base /\ s.pending
    <2> SUFFICES ASSUME NEW b \in Nat
                 PROVE  /\ Pair(s, y, {}, {}, R, S) /\ Below(s, b) /\ Below(y, b)
                        /\ s.pre = pre /\ s.base = base /\ s.pending
        OBVIOUS
    <2>1. IsInitiator(s, p, q, pre, base, eph, now)
        BY DEF SetsUp
    <2>2. s.pre = pre /\ s.base = base
        BY <2>1 DEF IsInitiator, Initiator
    <2>3. IsResponder(y, q, p, pre, base, later)
        <3>1. record'[p][1].pre = pre /\ record'[p][1].base = base
            BY <2>2 DEF SetsUp
        <3> QED BY <1>1, <3>1 DEF IsResponder, Awaits, Identity, Signed
    <2> HIDE DEF y, base, eph, now, later, R, S
    <2> QED BY <2>1, <2>3, PairStarts
<1>3. HasSession(p)' /\ ~HasSession(q)' /\ Side(p)' = s /\ Side(q)' = y
    <2>1. HasSession(p)' /\ ~HasSession(q)'
        BY DEF SetsUp, HasSession
    <2> QED BY <2>1 DEF Side, SetsUp
<1> HIDE DEF y, R, S, base
<1>4. Posts(p)' = {} /\ Posts(q)' = {} /\ \A r \in Peers : SentBy(r)' = SentBy(r) /\ Sending(r)' = Sending(r)
    <2>1. Sent' = Sent
        BY DEF Sent, SetsUp
    <2> QED BY <2>1 DEF Posts, SentBy, Sending, SetsUp
<1>5. \A r \in Peers : Count(r)' = Count(r) /\ Count(r) \in Nat
    BY <1>4, CountIs DEF Count, SetsUp, PairInv, Counted
<1>6. Counted'
    <2> SUFFICES ASSUME NEW r \in Peers PROVE CountedOf(r)'
        <3>1. inits' \in [Peers -> Nat] /\ crashes' \in [Peers -> Nat]
            BY <1>1 DEF PairInv, Counted, SetsUp
        <3> QED BY <3>1 DEF Counted
    <2>1. CountedOf(r)
        BY DEF PairInv, Counted
    <2>2. Below(Side(r)', Count(r)')
        BY <1>1, <1>2, <1>3, <1>5
    <2> QED BY <1>1, <1>4, <2>1, <2>2 DEF CountedOf, SetsUp
<1>7. Calls'
    <2>1. \A r \in Peers : (DOMAIN record[r] = 1 .. opened[r])' /\ opened'[r] \in {0, 1} /\ Rests(r)'
        <3>1. 1 .. 0 = {}
            OBVIOUS
        <3> QED BY <1>1, <1>3, <1>4, <3>1 DEF SetsUp, Rests
    <2> QED BY <1>1, <1>2, <1>3, <1>4, <2>1 DEF Calls, SetsUp
<1>8. PairOf(p)' /\ PairOf(q)'
    <2>1. Pair(s, y, {}, {}, R, S)
        BY <1>2
    <2>2. Pair(y, s, {}, {}, S, R)
        BY <2>1, PairKeeps
    <2>3. read' = read
        BY DEF SetsUp
    <2> QED BY <1>1, <1>3, <1>4, <2>1, <2>2, <2>3 DEF PairOf, R, S
<1> QED BY <1>1, <1>6, <1>7, <1>8 DEF PairInv, Paired

\* p leaves the sessions alone: no message is new, and no count goes down.
Rested(p, q) ==
    /\ UNCHANGED <<record, opened, clock, read, stock, inits>> /\ HasSession(p) /\ preKeys'[q] = preKeys[q] /\ job'[q] = job[q]
    /\ crashes' \in [Peers -> Nat]
    /\ \A r \in Peers :
          /\ Posts(r)' \subseteq Posts(r) /\ Count(r)' \in Nat /\ Count(r) <= Count(r)'
          /\ Cardinality(SentBy(r)') + Sending(r)' <= MaxSends[r] /\ crashes'[r] \in 0 .. MaxCrashes[r]
          /\ job'[r].op = "send" => job'[r].msg.from = r /\ job'[r].msg \notin wire'

\* encrypt's caller hands the message over: it was counted already.
LEMMA SendRests ==
    ASSUME OneSession, Typed, PairInv, NEW p \in Peers, NEW q \in Peers, q = Other(p), Send(p)
    PROVE  Rested(p, q)
<1> DEFINE m == job[p].msg
<1>1. /\ job[p].op = "send" /\ wire' = wire \cup {m} /\ job'[p] = Idle /\ job'[q] = job[q] /\ p # q /\ Peers = {p, q}
      /\ UNCHANGED <<record, opened, clock, fresh, preKeys, stock, read, inits, crashes>>
    BY OtherIs DEF Send, Typed
<1>2. /\ CountedOf(p) /\ CountedOf(q) /\ m.from = p /\ m \notin wire
      /\ crashes \in [Peers -> Nat]
    BY <1>1 DEF PairInv, Counted, CountedOf
<1>3. HasSession(p)
    BY <1>1 DEF PairInv, Calls, Rests, Idle
<1> HIDE DEF m
<1>4. \A r \in Peers : Posts(r)' \subseteq Posts(r)
    <2>1. Sent' \subseteq Sent
        BY <1>1 DEF Sent, Idle, m
    <2> QED BY <2>1 DEF Posts
<1>5. SentBy(q)' = SentBy(q) /\ SentBy(p)' = SentBy(p) \cup {m} /\ m \notin SentBy(p)
    BY <1>1, <1>2 DEF SentBy
<1>6. /\ IsFiniteSet(SentBy(p)) /\ Cardinality(SentBy(p)) \in Nat /\ Cardinality(SentBy(q)) \in Nat
      /\ Sending(q) \in {0, 1}
    BY <1>2, CountIs
<1>7. Cardinality(SentBy(p)') = Cardinality(SentBy(p)) + 1
    BY <1>5, <1>6, FS_AddElement
<1>8. Sending(p)' = 0 /\ Sending(p) = 1 /\ Sending(q)' = Sending(q)
    BY <1>1 DEF Sending, Idle
<1>9. ASSUME NEW r \in Peers
      PROVE  /\ Count(r)' \in Nat /\ Count(r) <= Count(r)' /\ Cardinality(SentBy(r)') + Sending(r)' <= MaxSends[r]
             /\ crashes'[r] \in 0 .. MaxCrashes[r] /\ (job'[r].op = "send" => job'[r].msg.from = r /\ job'[r].msg \notin wire')
    <2>1. CASE r = p
        BY <1>1, <1>2, <1>6, <1>7, <1>8, <2>1 DEF CountedOf, Count, Idle
    <2>2. CASE r = q
        <3>1. job[q].op = "send" => job[q].msg.from = q /\ job[q].msg \notin wire'
            BY <1>1, <1>2 DEF CountedOf
        <3> QED BY <1>1, <1>2, <1>5, <1>6, <1>8, <2>2, <3>1 DEF CountedOf, Count
    <2> QED BY <1>1, <2>1, <2>2
<1> QED BY <1>1, <1>2, <1>3, <1>4, <1>9 DEF Rested

\* FinishRead and Crash send nothing.
LEMMA EndRests ==
    ASSUME OneSession, Typed, PairInv, NEW p \in Peers, NEW q \in Peers, q = Other(p), FinishRead(p) \/ Crash(p)
    PROVE  Rested(p, q)
<1>1. /\ job[p] # Idle /\ job'[p] = Idle /\ job'[q] = job[q] /\ p # q /\ Peers = {p, q} /\ preKeys'[q] = preKeys[q]
      /\ UNCHANGED <<record, opened, clock, fresh, stock, wire, read, inits>>
      /\ \/ crashes' = crashes /\ Sending(p) = 0
         \/ crashes' = [crashes EXCEPT ![p] = @ + 1] /\ crashes[p] < MaxCrashes[p]
    <2>1. p # q /\ Peers = {p, q}
        BY OtherIs
    <2>2. CASE FinishRead(p)
        BY <2>1, <2>2 DEF FinishRead, Typed, Idle, Sending
    <2>3. CASE Crash(p)
        BY <2>1, <2>3 DEF Crash, Typed
    <2> QED BY <2>2, <2>3
<1>2. CountedOf(p) /\ CountedOf(q) /\ crashes \in [Peers -> Nat] /\ MaxCrashes[p] \in Nat
    BY DEF PairInv, Counted, OneSession
<1>3. HasSession(p)
    BY <1>1 DEF PairInv, Calls, Rests
<1>4. \A r \in Peers : Posts(r)' \subseteq Posts(r) /\ SentBy(r)' = SentBy(r)
    <2>1. Sent' \subseteq Sent
        BY <1>1 DEF Sent, Idle
    <2> QED BY <1>1, <2>1 DEF Posts, SentBy
<1>5. \A r \in Peers : Cardinality(SentBy(r)) \in Nat /\ Sending(r) \in {0, 1}
    BY CountIs DEF PairInv, Counted
<1>6. Sending(p)' = 0 /\ Sending(q)' = Sending(q)
    BY <1>1 DEF Sending, Idle
<1>7. /\ crashes' \in [Peers -> Nat] /\ crashes'[q] = crashes[q]
      /\ crashes'[p] \in 0 .. MaxCrashes[p] /\ crashes[p] + Sending(p) <= crashes'[p]
    <2>1. CASE crashes' = crashes /\ Sending(p) = 0
        BY <1>1, <1>2, <1>5, <2>1 DEF CountedOf
    <2>2. CASE crashes' = [crashes EXCEPT ![p] = @ + 1] /\ crashes[p] < MaxCrashes[p]
        BY <1>1, <1>2, <1>5, <2>2
    <2> QED BY <1>1, <2>1, <2>2
<1>8. ASSUME NEW r \in Peers
      PROVE  /\ Count(r)' \in Nat /\ Count(r) <= Count(r)' /\ Cardinality(SentBy(r)') + Sending(r)' <= MaxSends[r]
             /\ crashes'[r] \in 0 .. MaxCrashes[r] /\ (job'[r].op = "send" => job'[r].msg.from = r /\ job'[r].msg \notin wire')
    <2>1. CASE r = p
        <3>1. /\ Cardinality(SentBy(p)) \in Nat /\ Sending(p) \in {0, 1} /\ MaxSends[p] \in Nat /\ crashes[p] \in Nat
              /\ Cardinality(SentBy(p)) + Sending(p) <= MaxSends[p] /\ crashes'[p] \in Nat
            BY <1>2, <1>5, <1>7 DEF CountedOf, OneSession
        <3>2. Cardinality(SentBy(p)') = Cardinality(SentBy(p)) /\ Count(p)' = Cardinality(SentBy(p)) + crashes'[p] + 0
            BY <1>4, <1>6 DEF Count
        <3>3. Count(p) = Cardinality(SentBy(p)) + crashes[p] + Sending(p)
            BY DEF Count
        <3> QED BY <1>1, <1>6, <1>7, <2>1, <3>1, <3>2, <3>3 DEF Idle
    <2>2. CASE r = q
        BY <1>1, <1>2, <1>4, <1>5, <1>6, <1>7, <2>2 DEF CountedOf, Count
    <2> QED BY <1>1, <2>1, <2>2
<1> QED BY <1>1, <1>3, <1>4, <1>7, <1>8 DEF Rested

\* Such a step keeps the invariant.
LEMMA RestKeepsPair ==
    ASSUME OneSession, Typed, KeyInv, PairInv, NEW p \in Peers, NEW q \in Peers, q = Other(p), Rested(p, q)
    PROVE  PairInv'
<1>1. /\ p # q /\ Peers = {p, q} /\ Caller \in {p, q} /\ Called \in {p, q} /\ Caller # Called
      /\ UNCHANGED <<record, opened, clock, read, stock, inits>> /\ HasSession(p) /\ preKeys'[q] = preKeys[q] /\ job'[q] = job[q]
    BY OtherIs, CallerIs DEF Rested
<1>2. \A r \in Peers : HasSession(r)' = HasSession(r) /\ Side(r)' = Side(r) /\ Posts(r)' \subseteq Posts(r)
    BY <1>1 DEF HasSession, Side, Awaits, Rested
<1>3. HasSession(Caller)' = HasSession(Caller)
    BY <1>1, <1>2
<1>4. Counted'
    <2> SUFFICES ASSUME NEW r \in Peers PROVE CountedOf(r)'
        BY <1>1 DEF Counted, PairInv, Rested
    <2> DEFINE s == Side(r)
    <2>1. CountedOf(r) /\ Count(r) \in Nat /\ Count(r)' \in Nat /\ Count(r) <= Count(r)'
        BY CountIs DEF PairInv, Counted, Rested
    <2>2. HasSession(Caller) => Below(s, Count(r)')
        <3> SUFFICES ASSUME HasSession(Caller) PROVE Below(s, Count(r)')
            OBVIOUS
        <3>1. s \in Sessions(Known) /\ Below(s, Count(r))
            BY <2>1, SideTyped DEF PairInv, CountedOf
        <3> HIDE DEF s
        <3>2. CanEncrypt(s) => SendCounter(s) \in Int
            BY <3>1, ChainOf DEF CanEncrypt, HasChain, SendCounter
        <3> QED BY <2>1, <3>1, <3>2 DEF Below
    <2>3. \A n \in Posts(r)' : n.ctr < Count(r)'
        <3> SUFFICES ASSUME NEW n \in Posts(r)' PROVE n.ctr < Count(r)'
            OBVIOUS
        <3>1. n \in Posts(r) /\ n.ctr \in Nat
            BY <1>2, PostsAreMail, MailIs
        <3> QED BY <2>1, <3>1 DEF CountedOf
    <2> QED BY <1>2, <1>3, <2>2, <2>3 DEF CountedOf, Rested
<1>5. Calls'
    <2>1. \A r \in Peers : (DOMAIN record[r] = 1 .. opened[r])' /\ opened'[r] \in {0, 1} /\ Rests(r)'
        <3>1. Rests(p)'
            BY <1>1, <1>2 DEF Rests
        <3>2. Rests(q)'
            BY <1>1, <1>2 DEF Rests, PairInv, Calls
        <3>3. \A r \in Peers : DOMAIN record[r] = 1 .. opened[r] /\ opened[r] \in {0, 1}
            BY DEF PairInv, Calls
        <3> QED BY <1>1, <3>1, <3>2, <3>3
    <2>2. \A n \in Posts(Called)' : ~n.pkmsg
        BY <1>1, <1>2 DEF PairInv, Calls
    <2>3. HasSession(Caller) => \A n \in Posts(Caller)' : n.pkmsg => n.base = {record[Caller][1].base}
        BY <1>1, <1>2 DEF PairInv, Calls
    <2>4. HasSession(Caller) /\ ~HasSession(Called) =>
             /\ record[Caller][1].pending /\ record[Caller][1].pre \subseteq preKeys'[Called]
             /\ \A n \in Posts(Caller)' : n.pkmsg /\ n.pre = record[Caller][1].pre
        <3> SUFFICES ASSUME HasSession(Caller), ~HasSession(Called)
                     PROVE  /\ record[Caller][1].pending /\ record[Caller][1].pre \subseteq preKeys'[Called]
                            /\ \A n \in Posts(Caller)' : n.pkmsg /\ n.pre = record[Caller][1].pre
            OBVIOUS
        <3>1. q = Called
            BY <1>1
        <3> QED BY <1>1, <1>2, <3>1 DEF PairInv, Calls
    <2>5. /\ opened[Caller] = inits[Caller] /\ opened[Called] <= opened[Caller]
          /\ HasSession(Called) => ~record[Called][1].pending /\ record[Called][1].base = record[Caller][1].base
        BY DEF PairInv, Calls
    <2> QED BY <1>1, <1>2, <1>3, <2>1, <2>2, <2>3, <2>4, <2>5 DEF Calls
<1>6. Paired'
    <2> SUFFICES ASSUME HasSession(Caller), NEW r \in Peers PROVE PairOf(r)'
        BY <1>3 DEF Paired
    <2> DEFINE x == Side(Other(r))
               y == Side(r)
               M == Posts(Other(r))
               N == Posts(r)
               L == Posts(Other(r))'
               O == Posts(r)'
               R == read[r]
               S == read[Other(r)]
    <2>1. x' = x /\ y' = y /\ L \subseteq M /\ O \subseteq N /\ R' = R /\ S' = S
        BY <1>1, <1>2, OtherIs
    <2>2. Pair(x, y, M, N, R, S)
        BY DEF PairInv, Paired, PairOf
    <2> DEFINE same == Pair(x, y, L, O, R, S)
    <2>3. PairOf(r)' <=> same
        BY <2>1 DEF PairOf
    <2> HIDE DEF x, y, M, N, L, O, R, S
    <2>4. Pair(x, y, L, N, R, S)
        BY <2>1, <2>2, PairKeeps
    <2>5. Pair(y, x, N, L, S, R)
        BY <2>4, PairKeeps
    <2>6. Pair(y, x, O, L, S, R)
        BY <2>1, <2>5, PairKeeps
    <2>7. Pair(x, y, L, O, R, S)
        BY <2>6, PairKeeps
    <2> QED BY <2>3, <2>7
<1> QED BY <1>4, <1>5, <1>6 DEF PairInv

\* At the start there is no session and no message.
LEMMA PairInit == ASSUME OneSession PROVE Init => PairInv
<1> SUFFICES ASSUME Init PROVE PairInv
    OBVIOUS
<1>1. \A p \in Peers : ~HasSession(p) /\ DOMAIN record[p] = {} /\ opened[p] = 0 /\ inits[p] = 0 /\ job[p] = Idle
                       /\ crashes[p] = 0 /\ stock[p] \subseteq preKeys[p]
    BY DEF Init, HasSession
<1>2. Caller \in Peers /\ Called \in Peers
    BY CallerIs
<1>3. \A p \in Peers : Posts(p) = {} /\ SentBy(p) = {} /\ Sending(p) = 0
    <2>1. Sent = {}
        BY <1>1 DEF Sent, Init, Idle
    <2> QED BY <1>1, <2>1 DEF Posts, SentBy, Sending, Init, Idle
<1>4. Counted
    <2>1. inits \in [Peers -> Nat] /\ crashes \in [Peers -> Nat]
        BY DEF Init
    <2>2. Cardinality({}) = 0
        BY FS_EmptySet
    <2>3. ASSUME NEW p \in Peers PROVE CountedOf(p)
        <3>1. 0 \in 0 .. MaxCrashes[p] /\ 0 + 0 <= MaxSends[p]
            BY DEF OneSession
        <3>2. crashes[p] \in 0 .. MaxCrashes[p] /\ Cardinality(SentBy(p)) + Sending(p) <= MaxSends[p]
            BY <1>1, <1>3, <2>2, <3>1
        <3>3. job[p].op # "send" /\ Posts(p) = {} /\ ~HasSession(Caller)
            BY <1>1, <1>2, <1>3 DEF Idle
        <3> QED BY <3>2, <3>3 DEF CountedOf
    <2> QED BY <2>1, <2>3 DEF Counted
<1>5. Calls
    <2>1. \A p \in Peers : DOMAIN record[p] = 1 .. opened[p] /\ opened[p] \in {0, 1} /\ Rests(p)
        <3>1. 1 .. 0 = {}
            OBVIOUS
        <3> QED BY <1>1, <1>3, <3>1 DEF Rests
    <2>2. opened[Caller] = inits[Caller] /\ opened[Called] <= opened[Caller]
        BY <1>1, <1>2
    <2> QED BY <1>1, <1>2, <1>3, <2>1, <2>2 DEF Calls
<1>6. Paired
    BY <1>1, <1>2 DEF Paired
<1> QED BY <1>4, <1>5, <1>6 DEF PairInv

\* Every step keeps it.
LEMMA PairStep ==
    ASSUME OneSession, Typed, KeyInv, PairInv, [Next]_vars
    PROVE  PairInv'
<1>1. \A p \in Peers : Other(p) \in Peers
    BY OtherIs
<1>2. CASE UNCHANGED vars
    <2>0. Sent' = Sent
        BY <1>2 DEF vars, Sent
    <2>1. \A p \in Peers :
             /\ Posts(p)' = Posts(p) /\ Count(p)' = Count(p) /\ SentBy(p)' = SentBy(p) /\ Sending(p)' = Sending(p)
             /\ HasSession(p)' = HasSession(p) /\ Awaits(p)' = Awaits(p)
        <3> SUFFICES ASSUME NEW p \in Peers
                     PROVE  /\ Posts(p)' = Posts(p) /\ Count(p)' = Count(p) /\ SentBy(p)' = SentBy(p) /\ Sending(p)' = Sending(p)
                            /\ HasSession(p)' = HasSession(p) /\ Awaits(p)' = Awaits(p)
            OBVIOUS
        <3>1. SentBy(p)' = SentBy(p) /\ Sending(p)' = Sending(p) /\ HasSession(p)' = HasSession(p) /\ Posts(p)' = Posts(p)
            BY <1>2, <2>0 DEF vars, SentBy, Sending, HasSession, Posts
        <3>2. Count(p)' = Count(p)
            BY <1>2, <3>1 DEF vars, Count
        <3>3. Awaits(p)' = Awaits(p)
            BY <1>2 DEF vars, Awaits
        <3> QED BY <3>1, <3>2, <3>3
    <2>2. \A p \in Peers : Side(p)' = Side(p)
        BY <1>2, <2>1 DEF vars, Side
    <2>3. Caller \in Peers /\ Called \in Peers
        BY CallerIs
    <2>4. \A p \in Peers : CountedOf(p)' = CountedOf(p) /\ Rests(p)' = Rests(p) /\ PairOf(p)' = PairOf(p)
        <3> SUFFICES ASSUME NEW p \in Peers
                     PROVE  CountedOf(p)' = CountedOf(p) /\ Rests(p)' = Rests(p) /\ PairOf(p)' = PairOf(p)
            OBVIOUS
        <3>1. CountedOf(p)' = CountedOf(p)
            BY <1>2, <2>1, <2>2, <2>3 DEF vars, CountedOf
        <3>2. Rests(p)' = Rests(p)
            BY <1>2, <2>1 DEF vars, Rests
        <3>3. PairOf(p)' = PairOf(p)
            BY <1>1, <1>2, <2>1, <2>2 DEF vars, PairOf
        <3> QED BY <3>1, <3>2, <3>3
    <2>5. Counted' /\ Paired'
        BY <1>2, <2>1, <2>3, <2>4 DEF vars, PairInv, Counted, Paired
    <2>6. Calls'
        BY <1>2, <2>1, <2>3, <2>4 DEF vars, PairInv, Calls
    <2> QED BY <2>5, <2>6 DEF PairInv
<1>3. CASE \E p \in Peers : InitOutgoing(p)
    BY <1>1, <1>3, InitSetsUp, SetUpPair
<1>4. CASE \E p \in Peers : Encrypt(p)
    <2>1. PICK p \in Peers : Encrypt(p)
        BY <1>4
    <2>2. PICK m \in PostedSet(Known) : Puts(p, Other(p), m)
        BY <1>1, <2>1, EncryptPuts
    <2> QED BY <1>1, <2>2, PutsCounted, PutsCalls, PutsPaired DEF PairInv
<1>5. CASE \E p \in Peers, m \in wire : DecryptWhisper(p, m)
    BY <1>1, <1>5, WhisperReads, ReadsKeepPair DEF PairInv
<1>6. CASE \E p \in Peers, m \in wire : DecryptPreKeyKnown(p, m)
    BY <1>1, <1>6, KnownReads, ReadsKeepPair DEF PairInv
<1>7. CASE \E p \in Peers, m \in wire : DecryptPreKeyNew(p, m)
    BY <1>1, <1>7, NewReads, ReadsKeepPair DEF PairInv
<1>8. CASE \E p \in Peers : Send(p) \/ FinishRead(p) \/ Crash(p)
    BY <1>1, <1>8, SendRests, EndRests, RestKeepsPair
<1> QED BY <1>2, <1>3, <1>4, <1>5, <1>6, <1>7, <1>8 DEF Next

\* What has been sent and not read has its key on the other side.
LEMMA PairReadable ==
    ASSUME OneSession, Typed, KeyInv, PairInv, NEW p \in Peers, NEW q \in Peers, q = Other(p),
           NEW m \in wire, m.from = q, m \notin read[p]
    PROVE  /\ Within(Side(p), m) => Readable(p, m)
           /\ FewMessages => Within(Side(p), m)
<1> DEFINE x == Side(q)
           y == Side(p)
           f == Fresh(p, 1)
           M == Posts(q)
           N == Posts(p)
           R == read[p]
           S == read[q]
           b == Count(q)
           K == Known
<1>1. m \in M /\ HasSession(q) /\ HasSession(Caller)
    <2>1. m \in M /\ HasSession(q)
        BY ReadIsPost DEF PairInv
    <2> QED BY <2>1, CallerIs DEF PairInv, Calls, HasSession
<1>2. x \in Sessions(K) /\ y \in Sessions(K) /\ Mail(K, M)
    BY <1>1, SideTyped, PostsAreMail DEF PairInv
<1>3. Pair(x, y, M, N, R, S) /\ Below(x, b) /\ m.ctr < b /\ b \in Nat /\ (FewMessages => b <= MaxJump)
    <2>1. CountedOf(q)
        BY DEF PairInv, Counted
    <2> QED BY <1>1, <2>1, CountIs DEF PairInv, Paired, PairOf, CountedOf
<1>4. f \notin K
    BY FreshIsNew DEF Typed
<1> HIDE DEF x, y, f, M, N, R, S, b, K
<1>5. FewMessages => Within(y, m)
    BY <1>1, <1>2, <1>3, FewAreWithin
<1>6. ASSUME Within(y, m) PROVE Readable(p, m)
    <2>1. Decrypts(y, m, f)
        BY <1>1, <1>2, <1>3, <1>4, <1>6, PairReads DEF R
    <2>2. CASE ~HasSession(p)
        <3>1. p = Called /\ q = Caller
            BY <1>1, <2>2, CallerIs, OtherIs
        <3>2. m.pkmsg
            BY <1>1, <2>2, <3>1 DEF PairInv, Calls, M
        <3>3. DOMAIN record[p] = {}
            BY <2>2, OneEntry DEF PairInv
        <3>4. ~\E i \in DOMAIN record[p] : IsSessionOf(record[p], i, m)
            BY <3>3
        <3>5. opened[p] = 0 /\ Incoming(p, m) = y /\ m.pre \subseteq preKeys[p]
            BY <1>1, <3>2, <3>4, FirstBuilds DEF PairInv, M, y
        <3>6. CanBuild(p, m)
            BY <2>1, <3>4, <3>5 DEF CanBuild, f
        <3> QED BY <3>2, <3>6 DEF Readable
    <2>3. CASE HasSession(p)
        <3>1. 1 \in DOMAIN record[p] /\ Decrypts(record[p][1], m, Fresh(p, 1))
            BY <2>1, <2>3 DEF HasSession, Side, y, f
        <3>2. m.pkmsg => IsSessionOf(record[p], 1, m)
            <4> SUFFICES ASSUME m.pkmsg PROVE m.base = {record[p][1].base}
                BY <3>1 DEF IsSessionOf
            <4>1. q # Called
                BY <1>1 DEF PairInv, Calls, M
            <4>2. q = Caller /\ p = Called
                BY <4>1, CallerIs, OtherIs
            <4> QED BY <1>1, <2>3, <4>2 DEF PairInv, Calls, M
        <3> QED BY <3>1, <3>2 DEF Readable
    <2> QED BY <2>2, <2>3
<1> QED BY <1>5, <1>6 DEF y

\* What a side has not read of the other's messages it can read, unless more messages
\* were skipped on the way to it than fillMessageKeys allows.
NearIsReadable ==
    \A p \in Peers : \A m \in SentBy(Other(p)) \ read[p] :
        Within(Side(p), m) => Readable(p, m)

\* In one session a message becomes unreadable for no other reason than that more than
\* MaxJump keys would have to be skipped, in its chain or in the one it closes: losses,
\* reordering, ratchet steps and crashes cost no other key (maybeStepRatchet and
\* fillMessageKeys put by those the messages on their way need).
THEOREM OnlySkippedAreLost == ASSUME OneSession PROVE Spec => []NearIsReadable
<1>1. Init => Typed /\ KeyInv /\ PairInv
    BY InitTyped, KeysInit, PairInit
<1>2. (Typed /\ KeyInv /\ PairInv) /\ [Next]_vars => (Typed /\ KeyInv /\ PairInv)'
    BY StepTyped, KeysStep, PairStep
<1>3. Typed /\ KeyInv /\ PairInv => NearIsReadable
    <2> SUFFICES ASSUME Typed, KeyInv, PairInv, NEW p \in Peers, NEW m \in SentBy(Other(p)) \ read[p],
                        Within(Side(p), m)
                 PROVE  Readable(p, m)
        BY DEF NearIsReadable
    <2>1. m \in wire /\ m.from = Other(p) /\ m \notin read[p] /\ Other(p) \in Peers
        BY OtherIs DEF SentBy
    <2> QED BY <2>1, PairReadable
<1> QED BY <1>1, <1>2, <1>3, PTL DEF Spec

\* Every message that one session carries can be read, however many ratchet steps, losses
\* and crashes there are, in whatever order they arrive, as long as neither side puts out
\* more messages than may be skipped.
THEOREM MessagesStayReadable ==
    ASSUME OneSession, FewMessages PROVE Spec => []EveryMessageReadable
<1>1. Init => Typed /\ KeyInv /\ PairInv
    BY InitTyped, KeysInit, PairInit
<1>2. (Typed /\ KeyInv /\ PairInv) /\ [Next]_vars => (Typed /\ KeyInv /\ PairInv)'
    BY StepTyped, KeysStep, PairStep
<1>3. Typed /\ KeyInv /\ PairInv => EveryMessageReadable
    <2> SUFFICES ASSUME Typed, KeyInv, PairInv, NEW p \in Peers, NEW m \in SentBy(Other(p)) \ read[p]
                 PROVE  Readable(p, m)
        BY DEF EveryMessageReadable
    <2>1. m \in wire /\ m.from = Other(p) /\ m \notin read[p] /\ Other(p) \in Peers
        BY OtherIs DEF SentBy
    <2> QED BY <2>1, PairReadable
<1> QED BY <1>1, <1>2, <1>3, PTL DEF Spec
=================================================================================
