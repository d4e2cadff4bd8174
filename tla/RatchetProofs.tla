---------------------------- MODULE RatchetProofs ----------------------------
(***************************************************************************)
(* Proofs about Ratchet for every value of its constants.                  *)
(*                                                                         *)
(* The inductive invariant orders the message keys by the length of the    *)
(* root they hang from.  The sending roots of the initiator have odd       *)
(* length and those of the responder even length; a session's root only    *)
(* grows, and every key that was sent, opened or stashed lies behind the   *)
(* chain it came from.                                                     *)
(*                                                                         *)
(* The second half shows that the two sessions stay synchronised: whatever *)
(* is lost, repeated, reordered or tampered with, each end can still       *)
(* derive the key of every message of the other that it has not opened.    *)
(* Its invariant Synced adds how the counters of the headers, the two      *)
(* receiving positions, the stores of skipped keys and the two roots       *)
(* belong together.                                                        *)
(***************************************************************************)
EXTENDS Ratchet, FiniteSetTheorems, TLAPS

Side(p) == IF p = "I" THEN 1 ELSE 0

(* key was derived before chain ck came to its present position. *)
Behind(ck, key) ==
    /\ Len(key.root) <= Len(ck.root)
    /\ Len(key.root) = Len(ck.root) => key.root = ck.root /\ key.i < ck.i

StoreInv(p, s) ==
    /\ \A e \in s.skipped : Behind(s.ckr, e.mk) /\ Len(e.mk.root) % 2 = Side(Peer(p))
    /\ \A e, f \in s.skipped : e.mk = f.mk => e = f
    /\ IsFiniteSet(s.skipped)
    /\ Cardinality(s.skipped) <= MaxSkip

SessionInv(p, s) ==
    /\ s \in Session
    /\ Len(s.rk) % 2 = Side(p)
    /\ s.cks.root = s.rk
    /\ s.rk = <<>> => s.cks = NoChain
    /\ s.ckr # NoChain => Len(s.ckr.root) + 1 = Len(s.rk) /\ s.ckr.root # <<>>
    /\ StoreInv(p, s)

(* S: what p has sent, up to position ck of its sending chain, as n messages. *)
SentGood(p, S, ck, n) ==
    /\ \A pkt \in S :
          /\ pkt.box.pt.from = p /\ pkt.box.pt.id <= n
          /\ pkt.box.key.root # <<>>
          /\ Len(pkt.box.key.root) % 2 = Side(p)
          /\ Behind(ck, pkt.box.key)
    /\ \A a, b \in S : a.box.pt = b.box.pt \/ a.box.key = b.box.key => a = b

SentInv(p) == SentGood(p, sent[p], sess[p].cks, nsent[p])

OpenedInv(p) ==
    /\ \A m \in opened[p] : \E pkt \in sent[Peer(p)] : pkt.box.pt = m
    /\ \A pkt \in sent[Peer(p)] : pkt.box.pt \in opened[p] =>
          /\ Behind(sess[p].ckr, pkt.box.key)
          /\ \A e \in sess[p].skipped : e.mk # pkt.box.key

IndInv ==
    /\ TypeOK
    /\ \A p \in Party : SessionInv(p, sess[p]) /\ SentInv(p) /\ OpenedInv(p)

(***************************************************************************)
(* What the helpers of ratchet_decrypt return.                             *)
(***************************************************************************)
(* kdf_rk appends one secret to the root, kdf_ck moves along the chain.    *)
LEMMA KdfType ==
    ASSUME NEW rk \in Root, NEW dh \in SUBSET Key, NEW ss \in Ct \X Key
    PROVE  /\ KdfRk(rk, dh, ss) \in Root
           /\ Len(KdfRk(rk, dh, ss)) = Len(rk) + 1
           /\ KdfRk(rk, dh, ss) # <<>>
           /\ ChainOf(rk) \in ChainKey
           /\ ChainOf(rk).root = rk
           /\ ChainOf(rk).i = 0
  BY DEF KdfRk, Root, Mix, ChainOf, ChainKey

LEMMA AdvanceType ==
    ASSUME NEW ck \in ChainKey, NEW k \in Nat
    PROVE  /\ Advance(ck, k) \in ChainKey
           /\ Advance(ck, k).root = ck.root
           /\ Advance(ck, k).i = ck.i + k
  BY DEF Advance, ChainKey

LEMMA NoChainType == NoChain \in ChainKey /\ Len(NoChain.root) = 0 /\ NoChain.i = 0
  BY DEF NoChain, ChainKey, Root

LEMMA KeyType ==
    /\ NoKey \in Key
    /\ NoCt \in Ct
    /\ NoSS \in Ct \X Key
    /\ \A k \in Key : NextKey(k) \in Key
    /\ \A a, b \in Key : DH(a, b) \in SUBSET Key
    /\ \A ct \in Ct : \A k \in Key : Decaps(ct, k) \in Ct \X Key
  BY DEF NoKey, NoCt, NoSS, Key, Ct, NextKey, DH, Decaps


LEMMA RecvHalfFacts ==
    ASSUME NEW s \in Session, NEW h \in Header
    PROVE  /\ RecvHalf(s, h) \in Session
           /\ Len(RecvHalf(s, h).rk) = Len(s.rk) + 1
           /\ RecvHalf(s, h).ckr.root = RecvHalf(s, h).rk
           /\ RecvHalf(s, h).ckr.i = 0
           /\ RecvHalf(s, h).skipped = s.skipped
           /\ RecvHalf(s, h).dhs = s.dhs
<1>0. /\ s.rk \in Root /\ s.dhs \in Key /\ s.kem \in Key /\ s.kem_r \in Key
      /\ s.kss_recv \in Ct \X Key
      /\ h.dh \in Key /\ h.kem_ct \in Ct /\ h.kem_pk \in Key
  BY DEF Session, Header
<1>1. KssRecv(s, h) \in Ct \X Key /\ KemR(s, h) \in Key
  BY <1>0, KeyType DEF KssRecv, KemR
<1>2. DH(s.dhs, h.dh) \in SUBSET Key
  BY <1>0, KeyType
<1>3. /\ RecvRoot(s, h) \in Root
      /\ Len(RecvRoot(s, h)) = Len(s.rk) + 1
      /\ ChainOf(RecvRoot(s, h)) \in ChainKey
      /\ ChainOf(RecvRoot(s, h)).root = RecvRoot(s, h)
      /\ ChainOf(RecvRoot(s, h)).i = 0
  BY <1>0, <1>1, <1>2, KdfType DEF RecvRoot
<1>4. RecvHalf(s, h) \in Session
  <2> DEFINE dhr == h.dh
             kr  == KemR(s, h)
             kss == KssRecv(s, h)
             rk  == RecvRoot(s, h)
             ckr == ChainOf(RecvRoot(s, h))
             pn  == s.ns
  <2>1. /\ s \in Session /\ pn \in Nat /\ dhr \in Key /\ kr \in Key /\ kss \in Ct \X Key
        /\ rk \in Root /\ ckr \in ChainKey
    BY <1>0, <1>1, <1>3 DEF Session
  <2>2. RecvHalf(s, h) = [s EXCEPT !.pn = pn, !.ns = 0, !.nr = 0, !.dhr = dhr,
                                   !.kem_r = kr, !.kss_recv = kss, !.rk = rk, !.ckr = ckr]
    BY Zenon DEF RecvHalf
  <2> HIDE DEF dhr, kr, kss, rk, ckr, pn
  <2>3. [s EXCEPT !.pn = pn, !.ns = 0, !.nr = 0, !.dhr = dhr, !.kem_r = kr,
                  !.kss_recv = kss, !.rk = rk, !.ckr = ckr] \in Session
    BY ONLY <2>1, Zenon DEF Session
  <2>4. QED
    BY <2>2, <2>3
<1>5. /\ RecvHalf(s, h).rk = RecvRoot(s, h)
      /\ RecvHalf(s, h).ckr = ChainOf(RecvRoot(s, h))
      /\ RecvHalf(s, h).skipped = s.skipped
      /\ RecvHalf(s, h).dhs = s.dhs
  BY DEF RecvHalf, Session
<1>6. QED
  BY <1>3, <1>4, <1>5

LEMMA CadenceFacts ==
    ASSUME NEW s \in Session
    PROVE  /\ Cadence(s) \in Session
           /\ Cadence(s).ckr = s.ckr
           /\ Cadence(s).skipped = s.skipped
<1>0. /\ s.send_steps \in Nat /\ s.kem \in Key /\ s.kem_r \in Key /\ s.dhs \in Key
      /\ s.kss_send \in Ct \X Key /\ s.advertised \in {0, 1}
  BY DEF Session
<1>1. SendFull(s) \in {0, 1} /\ Advertised(s) \in {0, 1}
  BY <1>0 DEF SendFull, Advertised, Rotate
<1>2. EncapsCt(s) \in Ct
  BY <1>0 DEF EncapsCt, Ct, Key
<1>3. KemKey(s) \in Key /\ PendCt(s) \in Ct /\ KssSend(s) \in Ct \X Key
  BY <1>0, <1>2, KeyType DEF KemKey, PendCt, KssSend
<1>4. KemStep(s) \in Session
  <2>1. s.send_steps + 1 \in Nat
    BY <1>0
  <2>2. QED
    BY <2>1, <1>1, <1>3 DEF KemStep, Session
<1>5. KemStep(s).ckr = s.ckr /\ KemStep(s).skipped = s.skipped
  BY DEF KemStep, Session
<1>6. QED
  BY <1>4, <1>5 DEF Cadence

LEMMA SendHalfFacts ==
    ASSUME NEW s \in Session
    PROVE  /\ SendHalf(s) \in Session
           /\ Len(SendHalf(s).rk) = Len(s.rk) + 1
           /\ SendHalf(s).cks.root = SendHalf(s).rk
           /\ SendHalf(s).ckr = s.ckr
           /\ SendHalf(s).skipped = s.skipped
<1>0. s.rk \in Root /\ s.dhs \in Key /\ s.dhr \in Key /\ Cadence(s).kss_send \in Ct \X Key
  BY CadenceFacts DEF Session
<1>1. NextKey(s.dhs) \in Key /\ DH(NextKey(s.dhs), s.dhr) \in SUBSET Key
  BY <1>0, KeyType
<1>2. /\ SendRoot(s) \in Root
      /\ Len(SendRoot(s)) = Len(s.rk) + 1
      /\ ChainOf(SendRoot(s)) \in ChainKey
      /\ ChainOf(SendRoot(s)).root = SendRoot(s)
  BY <1>0, <1>1, KdfType DEF SendRoot
<1>3. /\ SendHalf(s) \in Session
      /\ SendHalf(s).rk = SendRoot(s)
      /\ SendHalf(s).cks = ChainOf(SendRoot(s))
      /\ SendHalf(s).ckr = Cadence(s).ckr
      /\ SendHalf(s).skipped = Cadence(s).skipped
  <2> DEFINE c   == Cadence(s)
             dhs == NextKey(s.dhs)
             rk  == SendRoot(s)
             cks == ChainOf(SendRoot(s))
             t   == [c EXCEPT !.dhs = dhs, !.rk = rk, !.cks = cks]
  <2>1. c \in Session /\ dhs \in Key /\ rk \in Root /\ cks \in ChainKey
    BY <1>1, <1>2, CadenceFacts
  <2>2. SendHalf(s) = t
    BY Zenon DEF SendHalf
  <2> HIDE DEF c, dhs, rk, cks
  <2>3. t \in Session
    BY ONLY <2>1, Zenon DEF Session
  <2>4. t.rk = rk /\ t.cks = cks /\ t.ckr = c.ckr /\ t.skipped = c.skipped
    BY ONLY <2>1, Zenon DEF Session
  <2> HIDE DEF t
  <2>5. QED
    BY <2>2, <2>3, <2>4 DEF c, rk, cks
<1>4. QED
  BY <1>2, <1>3, CadenceFacts

(* A ratchet step extends the root by two secrets, puts the receiving      *)
(* chain on the first and the sending chain on the second, and leaves the  *)
(* store alone.                                                            *)
LEMMA DHRatchetFacts ==
    ASSUME NEW s \in Session, NEW h \in Header
    PROVE  /\ DHRatchet(s, h) \in Session
           /\ Len(DHRatchet(s, h).rk) = Len(s.rk) + 2
           /\ DHRatchet(s, h).cks.root = DHRatchet(s, h).rk
           /\ Len(DHRatchet(s, h).ckr.root) = Len(s.rk) + 1
           /\ DHRatchet(s, h).ckr.i = 0
           /\ DHRatchet(s, h).skipped = s.skipped
<1> DEFINE r == RecvHalf(s, h)
<1>1. /\ r \in Session
      /\ Len(r.rk) = Len(s.rk) + 1
      /\ r.ckr.root = r.rk
      /\ r.ckr.i = 0
      /\ r.skipped = s.skipped
  BY RecvHalfFacts
<1> HIDE DEF r
<1>2. Len(s.rk) \in Nat
  BY DEF Session, Root
<1>3. DHRatchet(s, h) = SendHalf(r)
  BY DEF DHRatchet, r
<1>4. QED
  BY <1>1, <1>2, <1>3, SendHalfFacts

(* skip_message_keys stays on its chain, and what it stashes lies between  *)
(* the old and the new position.                                           *)
LEMMA StashFacts ==
    ASSUME NEW s \in Session, NEW until \in Nat, s.nr <= until
    PROVE  /\ Stash(s, until) \in SUBSET Skipped
           /\ \A e \in Stash(s, until) :
                 /\ e.mk.root = s.ckr.root
                 /\ s.ckr.i <= e.mk.i
                 /\ e.mk.i < s.ckr.i + (until - s.nr)
           /\ \A e, f \in Stash(s, until) : e.mk = f.mk => e = f
           /\ IsFiniteSet(Stash(s, until))
           /\ Cardinality(Stash(s, until)) <= until - s.nr
<1> DEFINE Entry(m) == [dh |-> s.dhr, n |-> m, mk |-> Advance(s.ckr, m - s.nr)]
           D == s.nr .. (until - 1)
<1>0. s.nr \in Nat /\ s.dhr \in Key /\ s.ckr \in ChainKey /\ s.ckr.i \in Nat
  BY DEF Session, ChainKey
<1>1. Stash(s, until) = {Entry(m) : m \in D}
  BY DEF Stash
<1>2. ASSUME NEW m \in D
      PROVE  /\ Entry(m) \in Skipped
             /\ Entry(m).mk.root = s.ckr.root
             /\ Entry(m).mk.i = s.ckr.i + (m - s.nr)
             /\ Entry(m).n = m
  <2>1. m \in Nat /\ m - s.nr \in Nat
    BY <1>0
  <2>2. QED
    BY <1>0, <2>1, AdvanceType DEF Skipped
<1>3. IsFiniteSet(D) /\ Cardinality(D) = until - s.nr
  <2>1. s.nr \in Int /\ until - 1 \in Int
    BY <1>0
  <2>2. IsFiniteSet(D) /\ Cardinality(D) = IF s.nr > until - 1 THEN 0 ELSE (until - 1) - s.nr + 1
    BY <2>1, FS_Interval
  <2>3. QED
    BY <1>0, <2>2
<1> HIDE DEF Entry, D
<1>4. IsFiniteSet(Stash(s, until)) /\ Cardinality(Stash(s, until)) <= Cardinality(D)
  <2> DEFINE g == [m \in D |-> Entry(m)]
  <2>1. g \in Surjection(D, Stash(s, until))
    BY <1>1 DEF Surjection
  <2> HIDE DEF g
  <2>2. QED
    BY <1>3, <2>1, FS_Surjection
<1>5. \A m, k \in D : Entry(m).mk = Entry(k).mk => Entry(m) = Entry(k)
  BY <1>0, <1>2 DEF D
<1>6. \A m \in D : s.ckr.i <= s.ckr.i + (m - s.nr) /\ s.ckr.i + (m - s.nr) < s.ckr.i + (until - s.nr)
  BY <1>0 DEF D
<1>7. \A e \in Stash(s, until) : /\ e \in Skipped
                                 /\ e.mk.root = s.ckr.root
                                 /\ s.ckr.i <= e.mk.i
                                 /\ e.mk.i < s.ckr.i + (until - s.nr)
  BY <1>1, <1>2, <1>6
<1>8. \A e, f \in Stash(s, until) : e.mk = f.mk => e = f
  BY <1>1, <1>5
<1>9. QED
  BY <1>3, <1>4, <1>7, <1>8

LEMMA SkipToFacts ==
    ASSUME NEW s \in Session, NEW until \in Nat, s.nr <= until, s.ckr # NoChain
    PROVE  /\ SkipTo(s, until) \in Session
           /\ SkipTo(s, until).rk = s.rk
           /\ SkipTo(s, until).cks = s.cks
           /\ SkipTo(s, until).skipped = s.skipped \cup Stash(s, until)
           /\ SkipTo(s, until).ckr.root = s.ckr.root
           /\ SkipTo(s, until).ckr.i = s.ckr.i + (until - s.nr)
<1>0. s.nr \in Nat /\ until - s.nr \in Nat /\ s.ckr \in ChainKey /\ s.skipped \in SUBSET Skipped
  BY DEF Session
<1>1. /\ Advance(s.ckr, until - s.nr) \in ChainKey
      /\ Advance(s.ckr, until - s.nr).root = s.ckr.root
      /\ Advance(s.ckr, until - s.nr).i = s.ckr.i + (until - s.nr)
  BY <1>0, AdvanceType
<1>2. s.skipped \cup Stash(s, until) \in SUBSET Skipped
  BY <1>0, StashFacts
<1>3. /\ SkipTo(s, until) \in Session
      /\ SkipTo(s, until).rk = s.rk
      /\ SkipTo(s, until).cks = s.cks
      /\ SkipTo(s, until).skipped = s.skipped \cup Stash(s, until)
      /\ SkipTo(s, until).ckr = Advance(s.ckr, until - s.nr)
  BY <1>1, <1>2 DEF SkipTo, Session
<1>4. QED
  BY <1>1, <1>3

(***************************************************************************)
(* The order on message keys.                                              *)
(***************************************************************************)
(* A key stays behind a chain that moves on, is behind every chain of a    *)
(* longer root, and is not one the chain can still produce.                *)
LEMMA BehindOrder ==
    ASSUME NEW ck \in ChainKey, NEW dk \in ChainKey, NEW key \in ChainKey, Behind(ck, key)
    PROVE  /\ dk.root = ck.root /\ dk.i >= ck.i => Behind(dk, key)
           /\ Len(dk.root) > Len(ck.root) => Behind(dk, key)
           /\ ~(key.root = ck.root /\ ck.i <= key.i)
<1>1. /\ Len(ck.root) \in Nat /\ Len(dk.root) \in Nat /\ Len(key.root) \in Nat
      /\ ck.i \in Nat /\ dk.i \in Nat /\ key.i \in Nat
  BY DEF ChainKey, Root
<1>2. QED
  BY <1>1 DEF Behind

(* The roots of the two directions have lengths of different parity.       *)
LEMMA Parity ==
    ASSUME NEW p \in Party, NEW n \in Nat
    PROVE  /\ (n + 1) % 2 = Side(p) => n % 2 = Side(Peer(p))
           /\ n % 2 = Side(p) => (n + 1) % 2 = Side(Peer(p)) /\ (n + 2) % 2 = Side(p)
           /\ n % 2 = Side(p) => n % 2 # Side(Peer(p))
<1>1. \A m \in Nat : m % 2 \in {0, 1} /\ ((m + 1) % 2 = 1 - (m % 2)) /\ ((m + 2) % 2 = m % 2)
  OBVIOUS
<1>2. Side(Peer(p)) = 1 - Side(p) /\ Side(p) \in {0, 1}
  BY DEF Side, Peer, Party
<1>3. QED
  BY <1>1, <1>2

(***************************************************************************)
(* The session invariant is kept by the stages of ratchet_decrypt.         *)
(***************************************************************************)
(* Skipping within the bound keeps the invariant, never moves the chain    *)
(* back, and only stashes keys that were still ahead.                      *)
LEMMA SkipToInv ==
    ASSUME NEW p \in Party, NEW s, SessionInv(p, s), NEW until \in Nat,
           SkipRc(s, until) = "ok"
    PROVE  /\ SessionInv(p, SkipTo(s, until))
           /\ SkipTo(s, until).rk = s.rk
           /\ SkipTo(s, until).cks = s.cks
           /\ SkipTo(s, until).ckr.root = s.ckr.root
           /\ SkipTo(s, until).ckr.i >= s.ckr.i
           /\ SkipTo(s, until).ckr = NoChain <=> s.ckr = NoChain
           /\ \A e \in SkipTo(s, until).skipped :
                 e \in s.skipped \/ (e.mk.root = s.ckr.root /\ s.ckr.i <= e.mk.i)
<1>0. /\ s \in Session /\ s.ckr \in ChainKey /\ s.ckr.i \in Nat /\ s.nr \in Nat
      /\ s.ckr.root \in Root /\ Len(s.ckr.root) \in Nat
  BY DEF SessionInv, Session, ChainKey, Root
<1>1. CASE s.ckr = NoChain
  BY <1>0, <1>1 DEF SkipTo
<1>2. CASE s.ckr # NoChain
  <2> DEFINE t == SkipTo(s, until)
  <2>0. s.nr <= until /\ Cardinality(s.skipped) + (until - s.nr) <= MaxSkip
    <3>1. Cardinality(s.skipped) \in Nat
      BY FS_CardinalityType DEF SessionInv, StoreInv
    <3>2. QED
      BY <1>0, <1>2, <3>1, RatchetAssumption DEF SkipRc
  <2>1. /\ t \in Session
        /\ t.rk = s.rk
        /\ t.cks = s.cks
        /\ t.skipped = s.skipped \cup Stash(s, until)
        /\ t.ckr.root = s.ckr.root
        /\ t.ckr.i = s.ckr.i + (until - s.nr)
    BY <1>0, <1>2, <2>0, SkipToFacts
  <2>2. /\ \A e \in Stash(s, until) :
              /\ e.mk.root = s.ckr.root
              /\ s.ckr.i <= e.mk.i
              /\ e.mk.i < s.ckr.i + (until - s.nr)
        /\ \A e, f \in Stash(s, until) : e.mk = f.mk => e = f
        /\ IsFiniteSet(Stash(s, until))
        /\ Cardinality(Stash(s, until)) <= until - s.nr
    BY <1>0, <2>0, StashFacts
  <2>3. t.ckr # NoChain
    BY <1>2, <2>1 DEF SessionInv, NoChain
  <2>4. \A e \in s.skipped : e.mk \in ChainKey /\ e.mk.i \in Nat
    BY <1>0 DEF Session, Skipped, ChainKey
  <2>5. t.ckr.i >= s.ckr.i /\ t.ckr.i \in Nat
    BY <1>0, <2>0, <2>1
  <2> HIDE DEF t
  <2>6. StoreInv(p, t)
    <3>1. \A e \in t.skipped : Behind(t.ckr, e.mk) /\ Len(e.mk.root) % 2 = Side(Peer(p))
      <4>1. ASSUME NEW e \in s.skipped
            PROVE  Behind(t.ckr, e.mk) /\ Len(e.mk.root) % 2 = Side(Peer(p))
        <5>1. Behind(s.ckr, e.mk) /\ Len(e.mk.root) % 2 = Side(Peer(p))
          BY DEF SessionInv, StoreInv
        <5>2. t.ckr \in ChainKey
          BY <2>1 DEF Session
        <5>3. QED
          BY <1>0, <2>1, <2>4, <2>5, <5>1, <5>2, BehindOrder
      <4>2. ASSUME NEW e \in Stash(s, until)
            PROVE  Behind(t.ckr, e.mk) /\ Len(e.mk.root) % 2 = Side(Peer(p))
        <5>1. Behind(t.ckr, e.mk)
          BY <1>0, <2>1, <2>2 DEF Behind
        <5>2. Len(s.ckr.root) % 2 = Side(Peer(p))
          <6>1. (Len(s.ckr.root) + 1) % 2 = Side(p)
            BY <1>2 DEF SessionInv
          <6>2. QED
            BY <1>0, <6>1, Parity
        <5>3. QED
          BY <5>1, <5>2, <2>2
      <4>3. QED
        BY <2>1, <4>1, <4>2
    <3>2. ASSUME NEW e \in t.skipped, NEW f \in t.skipped, e.mk = f.mk
          PROVE  e = f
      <4>1. CASE e \in s.skipped /\ f \in s.skipped
        BY <3>2, <4>1 DEF SessionInv, StoreInv
      <4>2. CASE e \in Stash(s, until) /\ f \in Stash(s, until)
        BY <3>2, <4>2, <2>2
      <4>3. \A a \in s.skipped : \A b \in Stash(s, until) : a.mk # b.mk
        <5> SUFFICES ASSUME NEW a \in s.skipped, NEW b \in Stash(s, until), a.mk = b.mk
                     PROVE  FALSE
          OBVIOUS
        <5>1. Behind(s.ckr, a.mk)
          BY DEF SessionInv, StoreInv
        <5>2. QED
          BY <1>0, <2>2, <2>4, <5>1, BehindOrder
      <4>4. QED
        BY <2>1, <3>2, <4>1, <4>2, <4>3
    <3>3. IsFiniteSet(t.skipped) /\ Cardinality(t.skipped) <= MaxSkip
      <4>1. IsFiniteSet(s.skipped) /\ IsFiniteSet(Stash(s, until))
        BY <2>2 DEF SessionInv, StoreInv
      <4>2. /\ IsFiniteSet(t.skipped)
            /\ Cardinality(t.skipped) =
                 Cardinality(s.skipped) + Cardinality(Stash(s, until))
                   - Cardinality(s.skipped \cap Stash(s, until))
        BY <2>1, <4>1, FS_Union
      <4>3. /\ Cardinality(s.skipped) \in Nat /\ Cardinality(Stash(s, until)) \in Nat
            /\ Cardinality(s.skipped \cap Stash(s, until)) \in Nat
        BY <4>1, FS_CardinalityType, FS_Intersection
      <4>4. QED
        BY <1>0, <2>0, <2>2, <4>2, <4>3, RatchetAssumption
    <3>4. QED
      BY <3>1, <3>2, <3>3 DEF StoreInv
  <2>7. SessionInv(p, t)
    BY <1>2, <2>1, <2>3, <2>6 DEF SessionInv
  <2>8. QED
    BY <1>2, <2>1, <2>2, <2>3, <2>5, <2>7 DEF t
<1>3. QED
  BY <1>1, <1>2

(* No key behind a chain of s comes back in t: the chains of t are no      *)
(* earlier, and what t stores and s did not was still ahead of s.          *)
Later(s, t) ==
    /\ \A key \in ChainKey : Behind(s.cks, key) => Behind(t.cks, key)
    /\ \A key \in ChainKey : Behind(s.ckr, key) => Behind(t.ckr, key)
    /\ \A e \in t.skipped : e \in s.skipped \/ ~Behind(s.ckr, e.mk)

LEMMA SessionTypes ==
    ASSUME NEW s \in Session
    PROVE  /\ s.cks \in ChainKey /\ s.ckr \in ChainKey /\ s.rk \in Root
           /\ Len(s.rk) \in Nat /\ Len(s.cks.root) \in Nat /\ Len(s.ckr.root) \in Nat
           /\ s.cks.i \in Nat /\ s.ckr.i \in Nat /\ s.nr \in Nat
           /\ \A e \in s.skipped : e \in Skipped /\ e.mk \in ChainKey
  BY DEF Session, Skipped, ChainKey, Root

LEMMA LaterTransitive ==
    ASSUME NEW s, NEW t, NEW u \in Session, Later(s, t), Later(t, u)
    PROVE  Later(s, u)
  BY SessionTypes DEF Later

LEMMA SkipToLater ==
    ASSUME NEW p \in Party, NEW s, SessionInv(p, s), NEW until \in Nat,
           SkipRc(s, until) = "ok"
    PROVE  Later(s, SkipTo(s, until))
<1> DEFINE t == SkipTo(s, until)
<1>1. /\ SessionInv(p, t)
      /\ t.cks = s.cks
      /\ t.ckr.root = s.ckr.root
      /\ t.ckr.i >= s.ckr.i
      /\ \A e \in t.skipped : e \in s.skipped \/ (e.mk.root = s.ckr.root /\ s.ckr.i <= e.mk.i)
  BY SkipToInv
<1> HIDE DEF t
<1>2. s \in Session /\ t \in Session
  BY <1>1 DEF SessionInv
<1>3. \A key \in ChainKey : Behind(s.ckr, key) => Behind(t.ckr, key)
  BY <1>1, <1>2, SessionTypes, BehindOrder
<1>4. \A e \in t.skipped : e \in s.skipped \/ ~Behind(s.ckr, e.mk)
  BY <1>1, <1>2, SessionTypes, BehindOrder
<1>5. QED
  BY <1>1, <1>3, <1>4 DEF Later, t

LEMMA DHRatchetInv ==
    ASSUME NEW p \in Party, NEW s, SessionInv(p, s), NEW h \in Header
    PROVE  /\ SessionInv(p, DHRatchet(s, h))
           /\ Later(s, DHRatchet(s, h))
           /\ DHRatchet(s, h).ckr # NoChain
<1> DEFINE t == DHRatchet(s, h)
<1>1. s \in Session
  BY DEF SessionInv
<1>2. /\ t \in Session
      /\ Len(t.rk) = Len(s.rk) + 2
      /\ t.cks.root = t.rk
      /\ Len(t.ckr.root) = Len(s.rk) + 1
      /\ t.skipped = s.skipped
  BY <1>1, DHRatchetFacts
<1> HIDE DEF t
<1>3. /\ s.cks \in ChainKey /\ s.ckr \in ChainKey /\ t.cks \in ChainKey /\ t.ckr \in ChainKey
      /\ Len(s.rk) \in Nat /\ Len(s.ckr.root) \in Nat /\ Len(s.cks.root) \in Nat
      /\ \A e \in s.skipped : e.mk \in ChainKey
  BY <1>1, <1>2, SessionTypes
<1>4. Len(s.ckr.root) <= Len(s.rk) /\ Len(s.cks.root) = Len(s.rk)
  <2>1. s.ckr = NoChain => Len(s.ckr.root) = 0
    BY NoChainType
  <2>2. QED
    BY <1>3, <2>1 DEF SessionInv
<1>5. Len(t.ckr.root) > Len(s.ckr.root) /\ Len(t.cks.root) > Len(s.cks.root)
  BY <1>2, <1>3, <1>4
<1>6. Later(s, t)
  BY <1>2, <1>3, <1>5, BehindOrder DEF Later
<1>7. StoreInv(p, t)
  <2>1. \A e \in s.skipped : Behind(t.ckr, e.mk)
    BY <1>3, <1>6 DEF Later, SessionInv, StoreInv
  <2>2. QED
    BY <1>2, <2>1 DEF SessionInv, StoreInv
<1>8. Len(t.rk) % 2 = Side(p)
  BY <1>2, <1>3, Parity DEF SessionInv
<1>9. t.ckr.root # <<>> /\ t.rk # <<>> /\ t.ckr # NoChain
  BY <1>2, <1>3, NoChainType
<1>10. Len(t.ckr.root) + 1 = Len(t.rk)
  BY <1>2, <1>3
<1>11. QED
  BY <1>2, <1>6, <1>7, <1>8, <1>9, <1>10 DEF SessionInv, t

(* Steps 2 and 3 of ratchet_decrypt: the working copy from which the       *)
(* message key is taken.                                                   *)
LEMMA ReadyInv ==
    ASSUME NEW p \in Party, NEW s, SessionInv(p, s), NEW h \in Header,
           NewKey(s, h) => SkipRc(s, h.pn) = "ok",
           SkipRc(Stepped(s, h), h.n) = "ok"
    PROVE  SessionInv(p, Ready(s, h)) /\ Later(s, Ready(s, h))
           /\ (\A key \in ChainKey : Behind(s.ckr, key) => key # Ready(s, h).ckr)
<1>0. h.pn \in Nat /\ h.n \in Nat
  BY DEF Header
<1>1. SessionInv(p, Stepped(s, h)) /\ Later(s, Stepped(s, h))
  <2>1. CASE NewKey(s, h)
    <3> DEFINE w == SkipTo(s, h.pn)
    <3>1. SessionInv(p, w) /\ Later(s, w)
      BY <1>0, <2>1, SkipToInv, SkipToLater
    <3> HIDE DEF w
    <3>2. SessionInv(p, DHRatchet(w, h)) /\ Later(w, DHRatchet(w, h))
      BY <3>1, DHRatchetInv
    <3>3. DHRatchet(w, h) \in Session
      BY <3>2 DEF SessionInv
    <3>4. Later(s, DHRatchet(w, h))
      BY <3>1, <3>2, <3>3, LaterTransitive
    <3>5. QED
      BY <2>1, <3>2, <3>4 DEF Stepped, w
  <2>2. CASE ~NewKey(s, h)
    BY <2>2 DEF Stepped, Later
  <2>3. QED
    BY <2>1, <2>2
<1>2. SessionInv(p, Ready(s, h)) /\ Later(Stepped(s, h), Ready(s, h))
  BY <1>0, <1>1, SkipToInv, SkipToLater DEF Ready
<1>3. Ready(s, h) \in Session
  BY <1>2 DEF SessionInv
<1>4. Later(s, Ready(s, h))
  BY <1>1, <1>2, <1>3, LaterTransitive
<1>5. \A key \in ChainKey : Behind(s.ckr, key) => key # Ready(s, h).ckr
  <2> SUFFICES ASSUME NEW key \in ChainKey, Behind(s.ckr, key), key = Ready(s, h).ckr
               PROVE  FALSE
    OBVIOUS
  <2>1. Behind(Ready(s, h).ckr, key)
    BY <1>4 DEF Later
  <2>2. QED
    BY <2>1, BehindOrder DEF ChainKey
<1>6. QED
  BY <1>2, <1>4, <1>5

(* What a successful ratchet_decrypt commits.  The key it used belongs to  *)
(* the receiving direction and is gone afterwards; before, it was stored   *)
(* or still ahead.                                                         *)
Consumes(p, s, t, key) ==
    /\ SessionInv(p, t)
    /\ Later(s, t)
    /\ Len(key.root) % 2 = Side(Peer(p))
    /\ Behind(t.ckr, key)
    /\ \A e \in t.skipped : e.mk # key
    /\ (\E e \in s.skipped : e.mk = key) \/ ~Behind(s.ckr, key)

LEMMA StoredKeyConsumed ==
    ASSUME NEW p \in Party, NEW s, SessionInv(p, s), NEW pkt \in Packet,
           DecryptRc(s, pkt) = "ok", SkippedFind(s, pkt.hdr) # {}
    PROVE  Consumes(p, s, DecryptState(s, pkt), pkt.box.key)
<1> DEFINE key == pkt.box.key
           F == SkippedFind(s, pkt.hdr)
           t == DecryptState(s, pkt)
<1>0. s \in Session /\ StoreInv(p, s) /\ s.skipped \in SUBSET Skipped
  BY DEF SessionInv, Session
<1>1. PICK e \in F : Opens(e.mk, pkt)
  BY DEF DecryptRc
<1>2. e \in s.skipped /\ e.mk = key /\ F \subseteq s.skipped
  BY <1>1 DEF SkippedFind, Opens
<1>3. /\ t \in Session
      /\ t.skipped = s.skipped \ F
      /\ t.rk = s.rk /\ t.cks = s.cks /\ t.ckr = s.ckr
  BY <1>0 DEF DecryptState, Session
<1> HIDE DEF t, F
<1>4. Behind(s.ckr, key) /\ Len(key.root) % 2 = Side(Peer(p))
  BY <1>0, <1>2 DEF StoreInv
<1>5. \A f \in t.skipped : f.mk # key
  BY <1>0, <1>1, <1>2, <1>3 DEF StoreInv
<1>6. IsFiniteSet(t.skipped) /\ Cardinality(t.skipped) <= MaxSkip
  <2>1. t.skipped \in SUBSET s.skipped /\ IsFiniteSet(s.skipped)
    BY <1>0, <1>3 DEF StoreInv
  <2>2. IsFiniteSet(t.skipped) /\ Cardinality(t.skipped) <= Cardinality(s.skipped)
    BY <2>1, FS_Subset
  <2>3. Cardinality(t.skipped) \in Nat /\ Cardinality(s.skipped) \in Nat
    BY <2>1, <2>2, FS_CardinalityType
  <2>4. QED
    BY <1>0, <2>2, <2>3, RatchetAssumption DEF StoreInv
<1>7. SessionInv(p, t)
  <2>1. StoreInv(p, t)
    BY <1>0, <1>3, <1>6 DEF StoreInv
  <2>2. QED
    BY <1>3, <2>1 DEF SessionInv
<1>8. Later(s, t)
  BY <1>3 DEF Later
<1>9. QED
  BY <1>2, <1>3, <1>4, <1>5, <1>7, <1>8 DEF Consumes, t

LEMMA ChainKeyConsumed ==
    ASSUME NEW p \in Party, NEW s, SessionInv(p, s), NEW pkt \in Packet,
           DecryptRc(s, pkt) = "ok", SkippedFind(s, pkt.hdr) = {}
    PROVE  Consumes(p, s, DecryptState(s, pkt), pkt.box.key)
<1> DEFINE key == pkt.box.key
           h == pkt.hdr
           r == Ready(s, h)
           t == DecryptState(s, pkt)
<1>0. h \in Header /\ key \in ChainKey
  BY DEF Packet, Box
<1>1. /\ NewKey(s, h) => SkipRc(s, h.pn) = "ok"
      /\ SkipRc(Stepped(s, h), h.n) = "ok"
      /\ r.ckr # NoChain
      /\ Opens(r.ckr, pkt)
  BY DEF DecryptRc
<1>2. /\ SessionInv(p, r) /\ Later(s, r)
      /\ ~Behind(s.ckr, key)
  <2>1. SessionInv(p, r) /\ Later(s, r) /\ (\A k \in ChainKey : Behind(s.ckr, k) => k # r.ckr)
    BY <1>0, <1>1, ReadyInv
  <2>2. QED
    BY <1>0, <1>1, <2>1 DEF Opens
<1>3. key = r.ckr
  BY <1>1 DEF Opens
<1>4. t = [r EXCEPT !.ckr = Advance(r.ckr, 1), !.nr = r.nr + 1]
  BY DEF DecryptState
<1> HIDE DEF r, t, key
<1>5. r \in Session /\ r.nr + 1 \in Nat /\ r.ckr \in ChainKey /\ r.ckr.i \in Nat
  <2>1. r \in Session
    BY <1>2 DEF SessionInv
  <2>2. r.nr \in Nat /\ r.ckr \in ChainKey
    BY ONLY <2>1, Zenon DEF Session
  <2>3. r.ckr.i \in Nat
    BY ONLY <2>2, Zenon DEF ChainKey
  <2>4. QED
    BY ONLY <2>1, <2>2, <2>3
<1>6. /\ Advance(r.ckr, 1) \in ChainKey
      /\ Advance(r.ckr, 1).root = r.ckr.root
      /\ Advance(r.ckr, 1).i = r.ckr.i + 1
  BY <1>5, AdvanceType
<1>7. /\ t \in Session
      /\ t.rk = r.rk /\ t.cks = r.cks /\ t.skipped = r.skipped
      /\ t.ckr = Advance(r.ckr, 1)
  BY <1>4, <1>5, <1>6 DEF Session
<1>8. Behind(t.ckr, key)
  <2>1. Len(r.ckr.root) \in Nat
    BY <1>5 DEF ChainKey, Root
  <2>2. QED
    BY <1>3, <1>5, <1>6, <1>7, <2>1 DEF Behind
<1>9. \A k \in ChainKey : Behind(r.ckr, k) => Behind(t.ckr, k)
  BY <1>5, <1>6, <1>7, BehindOrder
<1>10. Later(r, t)
  BY <1>7, <1>9 DEF Later
<1>11. Later(s, t)
  BY <1>2, <1>7, <1>10, LaterTransitive
<1>12. \A e \in r.skipped : Behind(r.ckr, e.mk) /\ e.mk \in ChainKey
  BY <1>2, <1>5, SessionTypes DEF SessionInv, StoreInv
<1>13. \A e \in t.skipped : e.mk # key
  BY <1>3, <1>5, <1>7, <1>12, BehindOrder
<1>14. Len(key.root) % 2 = Side(Peer(p))
  <2>1. (Len(r.ckr.root) + 1) % 2 = Side(p)
    BY <1>1, <1>2 DEF SessionInv, r
  <2>2. Len(r.ckr.root) \in Nat
    BY <1>5 DEF ChainKey, Root
  <2>3. QED
    BY <1>3, <2>1, <2>2, Parity
<1>15. SessionInv(p, t)
  <2>1. StoreInv(p, t)
    BY <1>2, <1>7, <1>9, <1>12 DEF SessionInv, StoreInv
  <2>2. t.ckr # NoChain => Len(t.ckr.root) + 1 = Len(t.rk) /\ t.ckr.root # <<>>
    BY <1>1, <1>2, <1>6, <1>7 DEF SessionInv, r
  <2>3. QED
    BY <1>2, <1>7, <2>1, <2>2 DEF SessionInv
<1>16. QED
  BY <1>2, <1>8, <1>11, <1>13, <1>14, <1>15 DEF Consumes, t, key

LEMMA DecryptConsumes ==
    ASSUME NEW p \in Party, NEW s, SessionInv(p, s), NEW pkt \in Packet,
           DecryptRc(s, pkt) = "ok"
    PROVE  Consumes(p, s, DecryptState(s, pkt), pkt.box.key)
  BY StoredKeyConsumed, ChainKeyConsumed

(***************************************************************************)
(* Types of what goes over the wire.                                       *)
(***************************************************************************)
LEMMA PeerType == \A p \in Party : Peer(p) \in Party /\ Peer(Peer(p)) = p /\ Peer(p) # p
  BY DEF Peer, Party

LEMMA TamperedType ==
    ASSUME NEW h \in Header
    PROVE  Tampered(h) \subseteq Header
<1>1. h.n + 1 \in Nat /\ h.pn + 1 \in Nat /\ h.kem_pk \in Key
  BY DEF Header
<1>2. Foreign \in Key /\ NoKey \in Key /\ NoCt \in Ct /\ [to |-> h.kem_pk, id |-> Foreign] \in Ct
  BY <1>1, KeyType DEF Foreign, Key, Ct
<1>3. /\ [h EXCEPT !.dh = Foreign] \in Header
      /\ [h EXCEPT !.n = @ + 1] \in Header
      /\ [h EXCEPT !.pn = @ + 1] \in Header
  BY <1>1, <1>2 DEF Header
<1>4. /\ [h EXCEPT !.type = "lite", !.kem_pk = NoKey, !.kem_ct = NoCt] \in Header
      /\ [h EXCEPT !.kem_pk = Foreign] \in Header
      /\ [h EXCEPT !.kem_ct = NoCt] \in Header
  BY <1>2 DEF Header
<1>5. [h EXCEPT !.kem_ct = [to |-> h.kem_pk, id |-> Foreign]] \in Header
  BY <1>2 DEF Header
<1>6. QED
  BY <1>3, <1>4, <1>5 DEF Tampered

(* Whatever the network delivers carries the box of a packet that was sent. *)
LEMMA NetworkType ==
    ASSUME TypeOK, NEW pkt \in Network
    PROVE  pkt \in Packet /\ \E g \in Genuine : g.box = pkt.box
<1>1. \A g \in Genuine : g \in Packet
  BY DEF Genuine, TypeOK, Party
<1>2. CASE pkt \in Genuine
  BY <1>1, <1>2
<1>3. CASE pkt \notin Genuine
  <2>1. PICK g \in Genuine : \E h \in Tampered(g.hdr) : pkt = [g EXCEPT !.hdr = h]
    BY <1>3 DEF Network
  <2>2. PICK h \in Tampered(g.hdr) : pkt = [g EXCEPT !.hdr = h]
    BY <2>1
  <2>3. h \in Header
    BY <1>1, TamperedType DEF Packet
  <2>4. QED
    BY <1>1, <2>2, <2>3 DEF Packet
<1>4. QED
  BY <1>2, <1>3

LEMMA SealType ==
    ASSUME NEW s \in Session, NEW m \in Plain
    PROVE  [hdr |-> HdrBuild(s), box |-> Seal(s, m)] \in Packet
<1>1. HdrBuild(s) \in Header
  BY KeyType DEF HdrBuild, Header, Session
<1>2. Seal(s, m) \in Box
  BY <1>1 DEF Seal, Box, Session
<1>3. QED
  BY <1>1, <1>2 DEF Packet

(***************************************************************************)
(* The inductive invariant.                                                *)
(***************************************************************************)
(* Moving a sending chain along, as kdf_ck in ratchet_encrypt does.        *)
LEMMA SendingInv ==
    ASSUME NEW p \in Party, NEW s, SessionInv(p, s), s.cks # NoChain, NEW t \in Session,
           t.cks = Advance(s.cks, 1), t.rk = s.rk, t.ckr = s.ckr, t.skipped = s.skipped
    PROVE  /\ SessionInv(p, t)
           /\ s.cks.root # <<>>
           /\ Behind(t.cks, s.cks)
           /\ \A key \in ChainKey : Behind(s.cks, key) => Behind(t.cks, key) /\ key # s.cks
<1>1. s \in Session /\ s.cks \in ChainKey /\ s.cks.i \in Nat /\ Len(s.cks.root) \in Nat
  <2>1. s \in Session
    BY DEF SessionInv
  <2>2. s.cks \in ChainKey
    BY <2>1, Zenon DEF Session
  <2>3. s.cks.i \in Nat /\ s.cks.root \in Root
    BY <2>2, Zenon DEF ChainKey
  <2>4. Len(s.cks.root) \in Nat
    BY <2>3 DEF Root
  <2>5. QED
    BY <2>1, <2>2, <2>3, <2>4
<1>2. t.cks \in ChainKey /\ t.cks.root = s.cks.root /\ t.cks.i = s.cks.i + 1
  <2>1. /\ Advance(s.cks, 1) \in ChainKey
        /\ Advance(s.cks, 1).root = s.cks.root
        /\ Advance(s.cks, 1).i = s.cks.i + 1
    BY <1>1, AdvanceType
  <2>2. QED
    BY <2>1
<1>3. s.cks.root # <<>> /\ s.rk # <<>>
  BY DEF SessionInv
<1>4. SessionInv(p, t)
  BY <1>2, <1>3 DEF SessionInv, StoreInv
<1>5. Behind(t.cks, s.cks)
  BY <1>1, <1>2 DEF Behind
<1>6. \A key \in ChainKey : Behind(s.cks, key) => Behind(t.cks, key) /\ key # s.cks
  BY <1>1, <1>2, BehindOrder
<1>7. QED
  BY <1>3, <1>4, <1>5, <1>6

LEMMA ReloadFacts ==
    ASSUME NEW s \in Session
    PROVE  /\ Unpack(Pack(s)) \in Session
           /\ Unpack(Pack(s)).rk = s.rk
           /\ Unpack(Pack(s)).cks = s.cks
           /\ Unpack(Pack(s)).ckr = s.ckr
           /\ Unpack(Pack(s)).skipped = s.skipped
<1> DEFINE f == Pack(s).fixed
           k == Pack(s).kem
<1>1. /\ s.rk \in Root /\ s.dhs \in Key /\ s.dhr \in Key /\ s.cks \in ChainKey
      /\ s.ckr \in ChainKey /\ s.ns \in Nat /\ s.nr \in Nat /\ s.pn \in Nat
      /\ s.skipped \in SUBSET Skipped
  BY DEF Session
<1>2. /\ s.kem_r \in Key /\ s.pend_ct \in Ct /\ s.kss_send \in Ct \X Key
      /\ s.kss_recv \in Ct \X Key /\ s.send_full \in {0, 1} /\ s.advertised \in {0, 1}
      /\ s.send_steps \in Nat /\ s.kem \in Key
  BY DEF Session
<1>3. f = <<s.rk, s.dhs, s.dhr, s.cks, s.ckr, s.ns, s.nr, s.pn>>
      /\ Pack(s).skipped = s.skipped
  BY DEF Pack
<1>4. k = IF PQ THEN <<s.kem_r, s.pend_ct, s.kss_send, s.kss_recv, s.send_full,
                       s.advertised, s.send_steps, s.kem>>
                ELSE <<NoKey, NoCt, NoSS, NoSS, 0, 0, 0, NoKey>>
  BY DEF Pack
<1> HIDE DEF f, k
<1>5. /\ f[1] = s.rk /\ f[2] = s.dhs /\ f[3] = s.dhr /\ f[4] = s.cks /\ f[5] = s.ckr
      /\ f[6] = s.ns /\ f[7] = s.nr /\ f[8] = s.pn
  BY ONLY <1>3
<1>6. /\ k[1] \in Key /\ k[2] \in Ct /\ k[3] \in Ct \X Key /\ k[4] \in Ct \X Key
      /\ k[5] \in {0, 1} /\ k[6] \in {0, 1} /\ k[7] \in Nat /\ k[8] \in Key
  <2>1. CASE PQ
    BY ONLY <1>2, <1>4, <2>1
  <2>2. CASE ~PQ
    BY ONLY <1>4, <2>2, KeyType
  <2>3. QED
    BY <2>1, <2>2
<1> DEFINE u == [rk |-> f[1], dhs |-> f[2], dhr |-> f[3], cks |-> f[4],
                 ckr |-> f[5], ns |-> f[6], nr |-> f[7], pn |-> f[8],
                 skipped |-> s.skipped,
                 kem_r |-> k[1], pend_ct |-> k[2], kss_send |-> k[3],
                 kss_recv |-> k[4], send_full |-> k[5], advertised |-> k[6],
                 send_steps |-> k[7], kem |-> k[8]]
<1>7. Unpack(Pack(s)) = u
  BY <1>3, Zenon DEF Unpack, f, k
<1>8. u \in Session
  BY ONLY <1>1, <1>5, <1>6 DEF Session
<1>9. u.rk = f[1] /\ u.cks = f[4] /\ u.ckr = f[5] /\ u.skipped = s.skipped
  OBVIOUS
<1>10. QED
  BY <1>5, <1>7, <1>8, <1>9, Zenon

LEMMA InitInv == Init => IndInv
<1> SUFFICES ASSUME Init PROVE IndInv
  OBVIOUS
<1>1. /\ \A p \in Party : Blank(p) \in Session
      /\ \A p \in Party : /\ Blank(p).rk = <<>> /\ Blank(p).cks = NoChain
                         /\ Blank(p).ckr = NoChain /\ Blank(p).skipped = {}
  BY KeyType, NoChainType DEF Blank, Session, Party, Key, Root
<1> DEFINE rk == KdfRk(<<>>, DH(<<"I", 0>>, <<"R", 0>>), NoSS)
           i == InitInitiator
           r == InitResponder
<1>2. rk \in Root /\ Len(rk) = 1 /\ ChainOf(rk) \in ChainKey /\ ChainOf(rk).root = rk
  <2>1. <<>> \in Root /\ Len(<<>>) = 0 /\ <<"I", 0>> \in Key /\ <<"R", 0>> \in Key
    BY DEF Root, Key, Party
  <2> DEFINE d == DH(<<"I", 0>>, <<"R", 0>>)
             z == <<>>
  <2>2. d \in SUBSET Key /\ NoSS \in Ct \X Key
    BY <2>1, KeyType
  <2>3. z \in Root /\ Len(z) = 0 /\ rk = KdfRk(z, d, NoSS)
    BY <2>1
  <2> HIDE DEF d, z, rk
  <2>4. rk \in Root /\ Len(rk) = Len(z) + 1
    BY <2>2, <2>3, KdfType
  <2>5. ChainOf(rk) \in ChainKey /\ ChainOf(rk).root = rk
    BY <2>4 DEF ChainOf, ChainKey
  <2>6. QED
    BY <2>3, <2>4, <2>5
<1> HIDE DEF rk
<1>3. /\ i \in Session /\ i.rk = rk /\ i.cks = ChainOf(rk) /\ i.ckr = NoChain
      /\ i.skipped = {}
  <2>1. Blank("I") \in Session /\ <<"R", 0>> \in Key /\ (IF PQ THEN 1 ELSE 0) \in {0, 1}
    BY <1>1 DEF Party, Key
  <2>2. i = [Blank("I") EXCEPT !.dhr = <<"R", 0>>, !.rk = rk, !.cks = ChainOf(rk),
                               !.send_full = IF PQ THEN 1 ELSE 0,
                               !.advertised = IF PQ THEN 1 ELSE 0]
    BY DEF InitInitiator, rk
  <2>3. Blank("I").ckr = NoChain /\ Blank("I").skipped = {}
    BY <1>1 DEF Party
  <2> HIDE DEF i
  <2>4. QED
    BY <1>2, <2>1, <2>2, <2>3 DEF Session
<1>4. /\ r \in Session /\ r.rk = <<>> /\ r.cks = NoChain /\ r.ckr = NoChain
      /\ r.skipped = {}
  BY <1>1 DEF InitResponder, Party
<1> HIDE DEF i, r
<1>5. IsFiniteSet({}) /\ Cardinality({}) <= MaxSkip
  BY FS_EmptySet, RatchetAssumption
<1>6. SessionInv("I", i)
  <2>1. rk # <<>> /\ Len(rk) % 2 = 1
    BY <1>2
  <2>2. QED
    BY <1>2, <1>3, <1>5, <2>1 DEF SessionInv, StoreInv, Side
<1>7. SessionInv("R", r)
  BY <1>4, <1>5, NoChainType DEF SessionInv, StoreInv, Side, NoChain
<1>8. sess = [p \in Party |-> IF p = "I" THEN i ELSE r]
  BY DEF Init, i, r
<1>9. \A p \in Party : SessionInv(p, sess[p])
  BY <1>6, <1>7, <1>8 DEF Party
<1>10. \A p \in Party : SentInv(p) /\ OpenedInv(p)
  BY PeerType DEF Init, SentInv, SentGood, OpenedInv
<1>11. TypeOK
  BY <1>3, <1>4, <1>8, RatchetAssumption DEF Init, TypeOK
<1>12. QED
  BY <1>9, <1>10, <1>11 DEF IndInv

LEMMA BurnedFacts ==
    ASSUME NEW s \in Session
    PROVE  /\ Burned(s) \in Session
           /\ Burned(s).cks = Advance(s.cks, 1) /\ Burned(s).rk = s.rk
           /\ Burned(s).ckr = s.ckr /\ Burned(s).skipped = s.skipped
           /\ Burned(s).ns = s.ns
<1>1. Advance(s.cks, 1) \in ChainKey
  BY SessionTypes, AdvanceType
<1>2. QED
  BY <1>1 DEF Burned, Session

LEMMA CountedFacts ==
    ASSUME NEW s \in Session
    PROVE  /\ Counted(s) \in Session
           /\ Counted(s).cks = s.cks /\ Counted(s).rk = s.rk
           /\ Counted(s).ckr = s.ckr /\ Counted(s).skipped = s.skipped
<1>1. s.ns + 1 \in Nat
  BY DEF Session
<1>2. QED
  BY <1>1 DEF Counted, Session

(* new, sealed under the chain key ck, is the next message of p, and dk is *)
(* what the chain key becomes.                                             *)
NextMessage(p, S, ck, dk, n, new) ==
    /\ S \in SUBSET Packet /\ ck \in ChainKey /\ dk \in ChainKey /\ n \in Nat
    /\ SentGood(p, S, ck, n) /\ new \in Packet
    /\ new.box.key = ck /\ new.box.pt.from = p /\ new.box.pt.id = n + 1
    /\ ck.root # <<>> /\ Len(ck.root) % 2 = Side(p) /\ Behind(dk, ck)
    /\ \A key \in ChainKey : Behind(ck, key) => Behind(dk, key) /\ key # ck

(* The next message has a key and a plaintext no earlier one has. *)
LEMMA SentStep ==
    ASSUME NEW p, NEW S, NEW ck, NEW dk, NEW n, NEW new,
           NextMessage(p, S, ck, dk, n, new)
    PROVE  SentGood(p, S \cup {new}, dk, n + 1) /\ \A a \in S : a.box.pt # new.box.pt
<1> USE DEF NextMessage
<1>0. \A a \in S : a.box.key \in ChainKey /\ a.box.pt.id \in Nat
  BY DEF Packet, Box, Plain
<1>1. \A a \in S : /\ a.box.pt.from = p /\ a.box.pt.id <= n
                   /\ a.box.key.root # <<>>
                   /\ Len(a.box.key.root) % 2 = Side(p)
                   /\ Behind(dk, a.box.key) /\ a.box.key # ck
  BY <1>0 DEF SentGood
<1>2. \A a \in S : a.box.pt.id <= n + 1 /\ a.box.pt.id # n + 1
  <2>1. \A k \in Nat : k <= n => k <= n + 1 /\ k # n + 1
    OBVIOUS
  <2>2. QED
    BY <1>0, <1>1, <2>1
<1>3. \A a \in S : a.box.pt # new.box.pt /\ a.box.key # new.box.key
  BY <1>1, <1>2
<1>4. \A a, b \in S : a.box.pt = b.box.pt \/ a.box.key = b.box.key => a = b
  BY DEF SentGood
<1>5. new.box.pt.id <= n + 1
  OBVIOUS
<1>6. QED
  BY <1>1, <1>2, <1>3, <1>4, <1>5 DEF SentGood

LEMMA EncryptInv ==
    ASSUME IndInv, NEW p \in Party, Encrypt(p)
    PROVE  IndInv'
<1> DEFINE s == sess[p]
           t == Counted(Burned(s))
           m == NextPlain(p)
           new == [hdr |-> HdrBuild(s), box |-> Seal(s, m)]
<1>0. /\ SessionInv(p, s) /\ SentInv(p) /\ nsent[p] < MaxSent /\ s.cks # NoChain
      /\ sess \in [Party -> Session] /\ sent \in [Party -> SUBSET Packet]
      /\ nsent \in [Party -> 0 .. MaxSent]
  BY DEF IndInv, TypeOK, Encrypt
<1>1. s \in Session /\ nsent[p] \in Nat /\ sent[p] \in SUBSET Packet
  BY <1>0, RatchetAssumption
<1>2. m \in Plain /\ m.from = p /\ m.id = nsent[p] + 1
  BY <1>0, <1>1, RatchetAssumption DEF Plain, NextPlain
<1>3. new \in Packet /\ new.box.key = s.cks /\ new.box.pt = m
  BY <1>1, <1>2, SealType DEF Seal
<1>4. /\ sess' = [sess EXCEPT ![p] = t]
      /\ sent' = [sent EXCEPT ![p] = sent[p] \cup {new}]
      /\ nsent' = [nsent EXCEPT ![p] = nsent[p] + 1]
      /\ opened' = opened /\ nopened' = nopened /\ faults' = faults
  BY DEF Encrypt
<1>5. /\ t \in Session
      /\ t.cks = Advance(s.cks, 1) /\ t.rk = s.rk /\ t.ckr = s.ckr /\ t.skipped = s.skipped
  BY <1>1, BurnedFacts, CountedFacts
<1> HIDE DEF new, m, t
<1>6. /\ SessionInv(p, t)
      /\ s.cks.root # <<>>
      /\ Behind(t.cks, s.cks)
      /\ \A key \in ChainKey : Behind(s.cks, key) => Behind(t.cks, key) /\ key # s.cks
  BY <1>0, <1>5, SendingInv
<1>7. SentGood(p, sent[p] \cup {new}, t.cks, nsent[p] + 1) /\ \A a \in sent[p] : a.box.pt # m
  <2>1. s.cks \in ChainKey /\ t.cks \in ChainKey
    BY <1>1, <1>5, SessionTypes
  <2>2. Len(s.cks.root) % 2 = Side(p)
    BY <1>0 DEF SessionInv
  <2>3. /\ SentGood(p, sent[p], s.cks, nsent[p])
        /\ new.box.pt.from = p /\ new.box.pt.id = nsent[p] + 1
    BY <1>0, <1>2, <1>3 DEF SentInv
  <2> DEFINE S == sent[p]
             ck == s.cks
             dk == t.cks
             n == nsent[p]
  <2>4. NextMessage(p, S, ck, dk, n, new)
    BY <1>1, <1>3, <1>6, <2>1, <2>2, <2>3 DEF NextMessage
  <2>5. SentGood(p, S \cup {new}, dk, n + 1) /\ \A a \in S : a.box.pt # new.box.pt
    <3> HIDE DEF S, ck, dk, n
    <3>1. QED
      BY <2>4, SentStep
  <2>6. QED
    BY <1>3, <2>5
<1>8. /\ sess'[p] = t /\ sent'[p] = sent[p] \cup {new} /\ nsent'[p] = nsent[p] + 1
      /\ \A q \in Party : q # p => sess'[q] = sess[q] /\ sent'[q] = sent[q] /\ nsent'[q] = nsent[q]
  BY <1>0, <1>4
<1>9. TypeOK'
  <2>1. sess' \in [Party -> Session]
    BY <1>0, <1>4, <1>5
  <2>2. sent' \in [Party -> SUBSET Packet]
    BY <1>0, <1>3, <1>4
  <2>3. nsent' \in [Party -> 0 .. MaxSent]
    BY <1>0, <1>1, <1>4, RatchetAssumption
  <2>4. QED
    BY <1>4, <2>1, <2>2, <2>3 DEF TypeOK, IndInv
<1>10. ASSUME NEW q \in Party
       PROVE  SessionInv(q, sess'[q]) /\ SentInv(q)' /\ OpenedInv(q)'
  <2>0. SessionInv(q, sess[q]) /\ SentInv(q) /\ OpenedInv(q) /\ Peer(q) \in Party
    BY PeerType DEF IndInv
  <2>1. SessionInv(q, sess'[q])
    BY <1>6, <1>8, <2>0
  <2>2. SentInv(q)'
    BY <1>7, <1>8, <2>0 DEF SentInv
  <2>3. sess'[q].ckr = sess[q].ckr /\ sess'[q].skipped = sess[q].skipped
    BY <1>5, <1>8
  <2>4. sent[Peer(q)] \subseteq sent'[Peer(q)]
    BY <1>8, <2>0
  <2>5. ASSUME NEW pkt \in sent'[Peer(q)], pkt.box.pt \in opened[q]
        PROVE  pkt \in sent[Peer(q)]
    <3> SUFFICES ASSUME pkt \notin sent[Peer(q)] PROVE FALSE
      OBVIOUS
    <3>1. pkt = new /\ Peer(q) = p
      BY <1>8, <2>0
    <3>2. \E g \in sent[p] : g.box.pt = m
      BY <1>3, <2>0, <2>5, <3>1 DEF OpenedInv
    <3>3. QED
      BY <1>7, <3>2
  <2>6. OpenedInv(q)'
    BY <1>4, <2>0, <2>3, <2>4, <2>5 DEF OpenedInv
  <2>7. QED
    BY <2>1, <2>2, <2>6
<1>11. QED
  BY <1>9, <1>10 DEF IndInv

(* Steps of p that send nothing: it is enough that the session of p is     *)
(* still good and no earlier, and that whatever p opens is accounted for.  *)
LEMMA LocalStepInv ==
    ASSUME IndInv, NEW p \in Party, TypeOK', sent' = sent, nsent' = nsent,
           \A q \in Party : q # p => sess'[q] = sess[q] /\ opened'[q] = opened[q],
           SessionInv(p, sess'[p]),
           \A key \in ChainKey : Behind(sess[p].cks, key) => Behind(sess'[p].cks, key),
           OpenedInv(p)'
    PROVE  IndInv'
<1>0. \A q \in Party : Peer(q) \in Party
  BY PeerType
<1>1. \A q \in Party : SessionInv(q, sess'[q])
  BY DEF IndInv
<1>2. \A pkt \in sent[p] : pkt.box.key \in ChainKey
  BY DEF IndInv, TypeOK, Packet, Box
<1>3. SentInv(p)'
  BY <1>2 DEF IndInv, SentInv, SentGood
<1>4. ASSUME NEW q \in Party, q # p
      PROVE  SentInv(q)' /\ OpenedInv(q)'
  <2>1. /\ SentInv(q) /\ OpenedInv(q) /\ sess'[q] = sess[q] /\ opened'[q] = opened[q]
    BY <1>4 DEF IndInv
  <2>2. SentInv(q)'
    BY <2>1 DEF SentInv
  <2>3. OpenedInv(q)'
    BY <2>1 DEF OpenedInv
  <2>4. QED
    BY <2>2, <2>3
<1>5. \A q \in Party : (SessionInv(q, sess[q]) /\ SentInv(q) /\ OpenedInv(q))'
  BY <1>1, <1>3, <1>4
<1>6. QED
  BY <1>5 DEF IndInv

LEMMA EncryptFailsInv ==
    ASSUME IndInv, NEW p \in Party, EncryptFails(p)
    PROVE  IndInv'
<1> DEFINE s == sess[p]
           t == sess'[p]
<1>0. /\ TypeOK /\ SessionInv(p, s) /\ s \in Session /\ s.cks # NoChain
      /\ sess \in [Party -> Session] /\ faults \in [Party -> 0 .. MaxFaults]
      /\ faults[p] < MaxFaults
  BY DEF IndInv, SessionInv, EncryptFails, TypeOK
<1>1. /\ t \in Session
      /\ t.cks = Advance(s.cks, 1) /\ t.rk = s.rk /\ t.ckr = s.ckr /\ t.skipped = s.skipped
  <2>1. t = Burned(s)
    BY <1>0 DEF EncryptFails
  <2>2. QED
    BY <1>0, <2>1, BurnedFacts
<1>2. /\ SessionInv(p, t)
      /\ \A key \in ChainKey : Behind(s.cks, key) => Behind(t.cks, key)
  BY <1>0, <1>1, SendingInv
<1>3. /\ \A q \in Party : q # p => sess'[q] = sess[q]
      /\ sent' = sent /\ nsent' = nsent /\ opened' = opened /\ nopened' = nopened
  BY <1>0 DEF EncryptFails
<1>4. TypeOK'
  <2>1. sess' \in [Party -> Session] /\ faults' \in [Party -> 0 .. MaxFaults]
    BY <1>0, <1>1, RatchetAssumption DEF EncryptFails
  <2>2. QED
    BY <1>0, <1>3, <2>1 DEF TypeOK
<1>5. OpenedInv(p)'
  BY <1>1, <1>3 DEF IndInv, OpenedInv
<1>6. QED
  BY <1>2, <1>3, <1>4, <1>5, LocalStepInv

LEMMA ReloadInv ==
    ASSUME IndInv, NEW p \in Party, Reload(p)
    PROVE  IndInv'
<1> DEFINE s == sess[p]
           t == sess'[p]
<1>0. /\ TypeOK /\ SessionInv(p, s) /\ s \in Session /\ sess \in [Party -> Session]
  BY DEF IndInv, SessionInv, TypeOK
<1>1. t = Unpack(Pack(s))
  BY <1>0 DEF Reload
<1>2. t \in Session /\ t.rk = s.rk /\ t.cks = s.cks /\ t.ckr = s.ckr /\ t.skipped = s.skipped
  BY <1>0, <1>1, ReloadFacts
<1>3. SessionInv(p, t)
  BY <1>0, <1>2 DEF SessionInv, StoreInv
<1>4. /\ \A q \in Party : q # p => sess'[q] = sess[q]
      /\ sent' = sent /\ nsent' = nsent /\ faults' = faults
      /\ opened' = opened /\ nopened' = nopened
  BY <1>0 DEF Reload
<1>5. TypeOK'
  <2>1. sess' \in [Party -> Session]
    BY <1>0, <1>1, <1>2 DEF Reload
  <2>2. QED
    BY <1>0, <1>4, <2>1 DEF TypeOK
<1>6. OpenedInv(p)'
  BY <1>2, <1>4 DEF IndInv, OpenedInv
<1>7. QED
  BY <1>2, <1>3, <1>4, <1>5, <1>6, LocalStepInv

(* What ratchet_decrypt opens was sealed by the peer and is opened for the *)
(* first time: the key that opened it was stored or ahead, and the keys of *)
(* everything opened before are neither.                                   *)
LEMMA CommitFacts ==
    ASSUME IndInv, NEW p \in Party, NEW pkt \in Network, DecryptRc(sess[p], pkt) = "ok"
    PROVE  /\ Consumes(p, sess[p], DecryptState(sess[p], pkt), pkt.box.key)
           /\ \E g \in sent[Peer(p)] : g.box = pkt.box
           /\ pkt.box.pt \notin opened[p]
           /\ pkt.box.pt \in Plain
<1>0. TypeOK /\ SessionInv(p, sess[p]) /\ OpenedInv(p) /\ Peer(p) \in Party
  BY PeerType DEF IndInv
<1>1. pkt \in Packet
  BY <1>0, NetworkType
<1>2. PICK g \in Genuine : g.box = pkt.box
  BY <1>0, NetworkType
<1>3. Consumes(p, sess[p], DecryptState(sess[p], pkt), pkt.box.key)
  BY <1>0, <1>1, DecryptConsumes
<1>4. g \in sent[Peer(p)]
  <2>1. g \in sent[p] \/ g \in sent[Peer(p)]
    BY <1>2 DEF Genuine, Peer, Party
  <2>2. SUFFICES ASSUME g \in sent[p] PROVE FALSE
    BY <2>1
  <2>3. Len(g.box.key.root) % 2 = Side(p)
    BY <2>2 DEF IndInv, SentInv, SentGood
  <2>4. Len(g.box.key.root) % 2 = Side(Peer(p))
    BY <1>2, <1>3 DEF Consumes
  <2>5. Len(g.box.key.root) \in Nat
    BY <1>1, <1>2 DEF Packet, Box, ChainKey, Root
  <2>6. QED
    BY <2>3, <2>4, <2>5, Parity
<1>5. pkt.box.pt \notin opened[p]
  <2>1. SUFFICES ASSUME pkt.box.pt \in opened[p] PROVE FALSE
    OBVIOUS
  <2>2. /\ Behind(sess[p].ckr, pkt.box.key)
        /\ \A e \in sess[p].skipped : e.mk # pkt.box.key
    BY <1>0, <1>2, <1>4, <2>1 DEF OpenedInv
  <2>3. QED
    BY <1>3, <2>2 DEF Consumes
<1>6. pkt.box.pt \in Plain
  BY <1>1 DEF Packet, Box
<1>7. QED
  BY <1>2, <1>3, <1>4, <1>5, <1>6

LEMMA DecryptInv ==
    ASSUME IndInv, NEW p \in Party, NEW pkt \in Network, Decrypt(p, pkt)
    PROVE  IndInv'
<1>1. CASE Reject(p, pkt)
  <2>1. UNCHANGED vars
    BY <1>1 DEF Decrypt, Reject, vars
  <2>2. QED
    BY <2>1 DEF vars, IndInv, TypeOK, SentInv, OpenedInv
<1>2. CASE Commit(p, pkt)
  <2> DEFINE s == sess[p]
             t == DecryptState(s, pkt)
             m == pkt.box.pt
  <2>0. /\ TypeOK /\ sess \in [Party -> Session] /\ opened \in [Party -> SUBSET Plain]
        /\ nopened \in [Party -> Nat] /\ OpenedInv(p) /\ SentInv(Peer(p))
        /\ sent[Peer(p)] \in SUBSET Packet
    BY PeerType DEF IndInv, TypeOK
  <2>1. /\ Consumes(p, s, t, pkt.box.key)
        /\ m \in Plain
    BY <1>2, CommitFacts DEF Commit
  <2>2. PICK g \in sent[Peer(p)] : g.box = pkt.box
    BY <1>2, CommitFacts DEF Commit
  <2>3. /\ sess' = [sess EXCEPT ![p] = t] /\ opened' = [opened EXCEPT ![p] = opened[p] \cup {m}]
        /\ nopened' = [nopened EXCEPT ![p] = nopened[p] + 1]
        /\ sent' = sent /\ nsent' = nsent /\ faults' = faults
    BY <1>2 DEF Commit, Decrypt
  <2> HIDE DEF t, m
  <2>4. t \in Session /\ SessionInv(p, t) /\ Later(s, t)
    BY <2>1 DEF Consumes, SessionInv
  <2>5. /\ sess'[p] = t /\ opened'[p] = opened[p] \cup {m}
        /\ \A q \in Party : q # p => sess'[q] = sess[q] /\ opened'[q] = opened[q]
    BY <2>0, <2>3
  <2>6. TypeOK'
    <3>1. sess' \in [Party -> Session]
      BY <2>0, <2>3, <2>4
    <3>2. opened' \in [Party -> SUBSET Plain]
      BY <2>0, <2>1, <2>3
    <3>3. nopened[p] + 1 \in Nat
      BY <2>0
    <3>4. nopened' \in [Party -> Nat]
      BY <2>0, <2>3, <3>3
    <3>5. QED
      BY <2>0, <2>3, <3>1, <3>2, <3>4 DEF TypeOK
  <2>7. \A k \in opened'[p] : \E g1 \in sent[Peer(p)] : g1.box.pt = k
    BY <2>0, <2>2, <2>5 DEF OpenedInv, m
  <2>8. ASSUME NEW a \in sent[Peer(p)], a.box.pt \in opened'[p]
        PROVE  Behind(t.ckr, a.box.key) /\ \A e \in t.skipped : e.mk # a.box.key
    <3>0. a.box.key \in ChainKey
      BY <2>0 DEF Packet, Box
    <3>1. CASE a.box.pt = m
      <4>1. a.box.pt = g.box.pt
        BY <2>2, <3>1 DEF m
      <4>2. a = g
        BY <2>0, <2>2, <4>1 DEF SentInv, SentGood
      <4>3. QED
        BY <2>1, <2>2, <4>2 DEF Consumes
    <3>2. CASE a.box.pt # m
      <4>1. /\ Behind(s.ckr, a.box.key)
            /\ \A e \in s.skipped : e.mk # a.box.key
        BY <2>0, <2>5, <2>8, <3>2 DEF OpenedInv
      <4>2. Behind(t.ckr, a.box.key)
        BY <2>4, <3>0, <4>1 DEF Later
      <4>3. \A e \in t.skipped : e.mk # a.box.key
        BY <2>4, <4>1 DEF Later
      <4>4. QED
        BY <4>2, <4>3
    <3>3. QED
      BY <3>1, <3>2
  <2>9. OpenedInv(p)'
    BY <2>3, <2>5, <2>7, <2>8 DEF OpenedInv
  <2>10. QED
    BY <2>3, <2>4, <2>5, <2>6, <2>9, LocalStepInv DEF Later
<1>3. QED
  BY <1>1, <1>2 DEF Decrypt

LEMMA NextInv == IndInv /\ [Next]_vars => IndInv'
<1> SUFFICES ASSUME IndInv, [Next]_vars PROVE IndInv'
  OBVIOUS
<1>1. CASE UNCHANGED vars
  BY <1>1 DEF vars, IndInv, TypeOK, SentInv, OpenedInv
<1>2. CASE Next
  BY <1>2, EncryptInv, EncryptFailsInv, DecryptInv, ReloadInv DEF Next
<1>3. QED
  BY <1>1, <1>2

LEMMA Inductive == Spec => []IndInv
<1>1. QED
  BY InitInv, NextInv, PTL DEF Spec

(***************************************************************************)
(* The theorems.                                                           *)
(***************************************************************************)
(* Every field of both sessions and every packet keeps its type, in        *)
(* particular no counter of a header becomes negative, whatever the        *)
(* network delivers to ratchet_decrypt.                                    *)
THEOREM TypeCorrect == Spec => []TypeOK
<1>1. IndInv => TypeOK
  BY DEF IndInv
<1>2. QED
  BY <1>1, Inductive, PTL

(* What a session can derive is stored, or not behind its chains.          *)
LEMMA NotDerivable ==
    ASSUME NEW p \in Party, NEW s, SessionInv(p, s), NEW key \in ChainKey, key.root # <<>>,
           \/ Len(key.root) % 2 = Side(p) /\ Behind(s.cks, key)
           \/ /\ Len(key.root) % 2 = Side(Peer(p)) /\ Behind(s.ckr, key)
              /\ \A e \in s.skipped : e.mk # key
    PROVE  ~Derivable(s, key)
<1>0. /\ s \in Session /\ s.cks \in ChainKey /\ s.ckr \in ChainKey
      /\ Len(s.rk) \in Nat /\ Len(s.ckr.root) \in Nat
      /\ key.root \in Root /\ Len(key.root) \in Nat
  BY SessionTypes DEF SessionInv, ChainKey, Root
<1>1. /\ s.cks.root = s.rk /\ Len(s.rk) % 2 = Side(p)
      /\ s.ckr # NoChain => Len(s.ckr.root) + 1 = Len(s.rk)
      /\ \A e \in s.skipped : Len(e.mk.root) % 2 = Side(Peer(p))
  BY DEF SessionInv, StoreInv
<1>2. /\ s.ckr # NoChain => Len(s.ckr.root) % 2 = Side(Peer(p))
      /\ Side(p) # Side(Peer(p))
  BY <1>0, <1>1, Parity
<1>3. s.ckr = NoChain => s.ckr.root # key.root /\ Len(s.ckr.root) = 0
  BY NoChainType DEF NoChain
<1>4. CASE Len(key.root) % 2 = Side(p) /\ Behind(s.cks, key)
  <2>1. ~(s.cks.root = key.root /\ s.cks.i <= key.i)
    BY <1>0, <1>4, BehindOrder
  <2>2. Len(key.root) <= Len(s.rk)
    BY <1>1, <1>4 DEF Behind
  <2>3. s.ckr.root # key.root /\ \A e \in s.skipped : e.mk # key
    BY <1>1, <1>2, <1>3, <1>4
  <2>4. QED
    BY <1>0, <2>1, <2>2, <2>3 DEF Derivable
<1>5. CASE /\ Len(key.root) % 2 = Side(Peer(p)) /\ Behind(s.ckr, key)
           /\ \A e \in s.skipped : e.mk # key
  <2>1. ~(s.ckr.root = key.root /\ s.ckr.i <= key.i)
    BY <1>0, <1>5, BehindOrder
  <2>2. s.cks.root # key.root
    BY <1>1, <1>2, <1>5
  <2>3. ~(Len(s.rk) < Len(key.root))
    BY <1>0, <1>1, <1>3, <1>5 DEF Behind
  <2>4. QED
    BY <1>5, <2>1, <2>2, <2>3 DEF Derivable
<1>6. QED
  BY <1>4, <1>5

(* A message's keys are gone from the sender's session once ratchet_encrypt *)
(* has returned and from the receiver's once ratchet_decrypt has: neither  *)
(* holds the message key, a chain key or a root key that leads to it.      *)
THEOREM MessageKeysForgotten == Spec => []ForwardSecrecy
<1>1. ASSUME IndInv PROVE ForwardSecrecy
  <2> SUFFICES ASSUME NEW p \in Party
               PROVE  /\ \A pkt \in sent[p] : ~Derivable(sess[p], pkt.box.key)
                      /\ \A pkt \in Genuine :
                            pkt.box.pt \in opened[p] => ~Derivable(sess[p], pkt.box.key)
    BY DEF ForwardSecrecy
  <2>0. /\ SessionInv(p, sess[p]) /\ SentInv(p) /\ SentInv(Peer(p)) /\ OpenedInv(p)
        /\ Peer(p) \in Party /\ Peer(p) # p
    BY <1>1, PeerType DEF IndInv
  <2>1. \A q \in Party : \A pkt \in sent[q] : pkt.box.key \in ChainKey
    BY <1>1 DEF IndInv, TypeOK, Packet, Box
  <2>2. ASSUME NEW pkt \in sent[p] PROVE ~Derivable(sess[p], pkt.box.key)
    <3>1. /\ pkt.box.key.root # <<>> /\ Len(pkt.box.key.root) % 2 = Side(p)
          /\ Behind(sess[p].cks, pkt.box.key)
      BY <2>0 DEF SentInv, SentGood
    <3>2. QED
      BY <2>0, <2>1, <3>1, NotDerivable
  <2>3. ASSUME NEW pkt \in Genuine, pkt.box.pt \in opened[p]
        PROVE  ~Derivable(sess[p], pkt.box.key)
    <3>1. \E g \in sent[Peer(p)] : g.box.pt = pkt.box.pt
      BY <2>0, <2>3 DEF OpenedInv
    <3>2. pkt.box.pt.from = Peer(p)
      BY <2>0, <3>1 DEF SentInv, SentGood
    <3>3. pkt \notin sent[p]
      BY <2>0, <3>2 DEF SentInv, SentGood
    <3>4. pkt \in sent[Peer(p)]
      BY <3>3 DEF Genuine, Peer, Party
    <3>5. /\ Behind(sess[p].ckr, pkt.box.key)
          /\ \A e \in sess[p].skipped : e.mk # pkt.box.key
      BY <2>0, <2>3, <3>4 DEF OpenedInv
    <3>6. /\ pkt.box.key.root # <<>> /\ Len(pkt.box.key.root) % 2 = Side(Peer(p))
      BY <2>0, <3>4 DEF SentInv, SentGood
    <3>7. pkt.box.key \in ChainKey
      BY <2>0, <2>1, <3>4
    <3>8. QED
      BY <2>0, <3>5, <3>6, <3>7, NotDerivable
  <2>4. QED
    BY <2>2, <2>3
<1>2. QED
  BY <1>1, Inductive, PTL

(* ratchet_encrypt never seals two messages under one key, in either       *)
(* direction and across ratchet steps, failed seals and reloads.           *)
THEOREM KeysUsedOnce == Spec => []NoKeyReuse
<1>1. ASSUME IndInv PROVE NoKeyReuse
  <2> SUFFICES ASSUME NEW a \in Genuine, NEW b \in Genuine, a.box.key = b.box.key
               PROVE  a = b
    BY DEF NoKeyReuse
  <2>1. PICK p \in Party : a \in sent[p]
    BY DEF Genuine, Party
  <2>2. PICK q \in Party : b \in sent[q]
    BY DEF Genuine, Party
  <2>3. SentInv(p) /\ SentInv(q)
    BY <1>1 DEF IndInv
  <2>4. Len(a.box.key.root) % 2 = Side(p) /\ Len(a.box.key.root) % 2 = Side(q)
    BY <2>1, <2>2, <2>3 DEF SentInv, SentGood
  <2>5. p = q
    <3>1. \A x, y \in Party : Side(x) = Side(y) => x = y
      BY DEF Side, Party
    <3>2. Side(p) = Side(q)
      BY <2>4
    <3>3. QED
      BY <3>1, <3>2
  <2>6. QED
    BY <2>1, <2>2, <2>3, <2>5 DEF SentInv, SentGood
<1>2. QED
  BY <1>1, Inductive, PTL

(* The skipped array of RATCHET_MAX_SKIP entries is never written past its *)
(* end, however many gaps of however many chains accumulate in it.         *)
THEOREM StoreBounded == Spec => []SkippedBounded
<1>1. IndInv => SkippedBounded
  BY DEF IndInv, SessionInv, StoreInv, SkippedBounded
<1>2. QED
  BY <1>1, Inductive, PTL

(***************************************************************************)
(* The ratchet implements SecureChannel.                                   *)
(***************************************************************************)
LEMMA EncryptSends ==
    ASSUME IndInv, NEW p \in Party, Encrypt(p)
    PROVE  Channel!Send(p)
<1> DEFINE Bar(S) == [q \in Party |-> {pkt.box.pt : pkt \in S[q]}]
           m == NextPlain(p)
           new == [hdr |-> HdrBuild(sess[p]), box |-> Seal(sess[p], m)]
<1>0. /\ sent \in [Party -> SUBSET Packet] /\ nsent \in [Party -> 0 .. MaxSent]
      /\ nsent[p] < MaxSent /\ \A q \in Party : SentInv(q)
  BY DEF IndInv, TypeOK, Encrypt
<1>1. nsent[p] \in Nat /\ m \in Plain /\ m.from = p /\ m.id = nsent[p] + 1
  BY <1>0, RatchetAssumption DEF Plain, NextPlain
<1>2. sent' = [sent EXCEPT ![p] = sent[p] \cup {new}] /\ new.box.pt = m
  BY DEF Encrypt, Seal
<1>3. opened' = opened /\ nopened' = nopened
  BY DEF Encrypt
<1> HIDE DEF m, new
<1>4. ASSUME NEW q \in Party PROVE m \notin Bar(sent)[q]
  <2> SUFFICES ASSUME NEW a \in sent[q], a.box.pt = m PROVE FALSE
    OBVIOUS
  <2>1. a.box.pt.from = q /\ a.box.pt.id <= nsent[q]
    BY <1>0 DEF SentInv, SentGood
  <2>2. QED
    BY <1>0, <1>1, <2>1
<1>5. Bar(sent') = [Bar(sent) EXCEPT ![p] = Bar(sent)[p] \cup {m}]
  <2>1. ASSUME NEW q \in Party
        PROVE  Bar(sent')[q] = IF q = p THEN Bar(sent)[p] \cup {m} ELSE Bar(sent)[q]
    <3>1. CASE q = p
      <4>1. sent'[q] = sent[p] \cup {new}
        BY <1>0, <1>2, <3>1
      <4>2. QED
        BY <1>2, <3>1, <4>1
    <3>2. CASE q # p
      BY <1>0, <1>2, <3>2
    <3>3. QED
      BY <3>1, <3>2
  <2> HIDE DEF Bar
  <2>2. Bar(sent) = [q \in Party |-> Bar(sent)[q]] /\ Bar(sent') = [q \in Party |-> Bar(sent')[q]]
    BY DEF Bar
  <2>3. QED
    BY <2>1, <2>2
<1>6. QED
  BY <1>1, <1>3, <1>4, <1>5 DEF Channel!Send

LEMMA CommitDelivers ==
    ASSUME IndInv, NEW p \in Party, NEW pkt \in Network, Commit(p, pkt), sent' = sent
    PROVE  Channel!Deliver(p)
<1> DEFINE bar == [q \in Party |-> {a.box.pt : a \in sent[q]}]
           src == [q \in Party |-> Peer(q)]
<1>1. PICK g \in sent[Peer(p)] : g.box = pkt.box
  BY CommitFacts DEF Commit
<1>2. pkt.box.pt \notin opened[p]
  BY CommitFacts DEF Commit
<1>3. src[p] = Peer(p) /\ Peer(p) \in Party
  BY PeerType
<1>4. pkt.box.pt \in bar[src[p]] \ opened[p]
  BY <1>1, <1>2, <1>3
<1>5. /\ opened' = [opened EXCEPT ![p] = opened[p] \cup {pkt.box.pt}]
      /\ nopened' = [nopened EXCEPT ![p] = nopened[p] + 1]
  BY DEF Commit
<1>6. QED
  BY <1>4, <1>5 DEF Channel!Deliver

(* ratchet_encrypt and ratchet_decrypt implement the at-most-once          *)
(* authenticated channel for every value of the bounds, classical and PQ:  *)
(* each step of a session is a send, a first delivery of something the     *)
(* peer sent, or changes nothing a caller can see.                         *)
THEOREM RatchetImplementsChannel == Spec => AtMostOnceAuthentic
<1>1. Init => Channel!Init
  BY DEF Init, Channel!Init
<1>2. ASSUME IndInv, [Next]_vars PROVE [Channel!Next]_(Channel!vars)
  <2>1. CASE UNCHANGED <<sent, opened, nopened>>
    BY <2>1 DEF Channel!vars
  <2>2. ASSUME NEW p \in Party, Encrypt(p) PROVE Channel!Next
    BY <1>2, <2>2, EncryptSends DEF Channel!Next
  <2>3. ASSUME NEW p \in Party, NEW pkt \in Network, Decrypt(p, pkt), Commit(p, pkt)
        PROVE  Channel!Next
    <3>1. sent' = sent
      BY <2>3 DEF Decrypt
    <3>2. Channel!Deliver(p)
      BY <1>2, <2>3, <3>1, CommitDelivers
    <3>3. QED
      BY <3>2 DEF Channel!Next
  <2>4. ASSUME NEW p \in Party,
               \/ EncryptFails(p)
               \/ Reload(p)
               \/ \E pkt \in Network : Decrypt(p, pkt) /\ Reject(p, pkt)
        PROVE  UNCHANGED <<sent, opened, nopened>>
    BY <2>4 DEF EncryptFails, Reload, Decrypt, Reject
  <2>5. CASE Next
    <3>1. PICK p \in Party : \/ Encrypt(p)
                             \/ EncryptFails(p) \/ Reload(p)
                             \/ \E pkt \in Network : Decrypt(p, pkt)
      BY <2>5 DEF Next
    <3>2. \A pkt \in Network : Decrypt(p, pkt) => Commit(p, pkt) \/ Reject(p, pkt)
      BY DEF Decrypt
    <3>3. QED
      BY <2>1, <2>2, <2>3, <2>4, <3>1, <3>2
  <2>6. QED
    BY <1>2, <2>1, <2>5 DEF vars
<1>3. QED
  BY <1>1, <1>2, Inductive, PTL DEF Spec, AtMostOnceAuthentic, Channel!Spec

(***************************************************************************)
(* The sending side: every header names the ratchet key of the chain that  *)
(* sealed its packet and counts without a gap, to ns on the present chain  *)
(* and to pn on the one before.  The epoch of a ratchet key <<p, k>> is k. *)
(***************************************************************************)
PacketInv(p, pkt) ==
    /\ pkt.hdr.dh[1] = p
    /\ Len(pkt.box.key.root) = 2 * pkt.hdr.dh[2] + Side(p)
    /\ pkt.box.n = pkt.hdr.n
    /\ pkt.box.aad = pkt.hdr
    /\ TypeOf(pkt.hdr)

(* h is a header hdr_build makes on the present sending chain of s. *)
HeaderOf(s, h) ==
    /\ h.dh = s.dhs
    /\ h.pn = s.pn
    /\ PQ => h.type = IF s.send_full = 1 THEN "full" ELSE "lite"
    /\ PQ /\ s.send_full = 1 => h.kem_pk = s.kem /\ h.kem_ct = s.pend_ct

(* S holds a packet of epoch k with counter n. *)
Counter(S, k, n) == \E pkt \in S : pkt.hdr.dh[2] = k /\ pkt.hdr.n = n

SendSync(p, s, S) ==
    /\ s.dhs[1] = p
    /\ Len(s.rk) = 2 * s.dhs[2] + Side(p)
    /\ s.ns <= s.cks.i
    /\ \A pkt \in S : PacketInv(p, pkt) /\ pkt.hdr.dh[2] <= s.dhs[2]
    /\ \A pkt \in S : pkt.hdr.dh[2] = s.dhs[2] => HeaderOf(s, pkt.hdr) /\ pkt.hdr.n < s.ns
    /\ \A pkt \in S : pkt.hdr.dh[2] + 1 = s.dhs[2] => pkt.hdr.n < s.pn
    /\ \A n \in 0 .. (s.ns - 1) : Counter(S, s.dhs[2], n)
    /\ \A n \in 0 .. (s.pn - 1) : Counter(S, s.dhs[2] - 1, n)
    /\ \A a, b \in S : a.hdr.dh[2] = b.hdr.dh[2] =>
          a.box.key.root = b.box.key.root /\ (a.hdr.n = b.hdr.n => a = b)

(***************************************************************************)
(* The receiving side: S is what the peer q sent, O what s has opened.  A  *)
(* header is seen when its position has been passed, and a message seen    *)
(* and not opened has its key in the store.                                *)
(***************************************************************************)
Seen(s, h) == h.dh[2] < s.dhr[2] \/ (h.dh[2] = s.dhr[2] /\ h.n < s.nr)

Stored(s, pkt) ==
    \E e \in s.skipped : e.dh = pkt.hdr.dh /\ e.n = pkt.hdr.n /\ e.mk = pkt.box.key

Awaits(s, O, e, pkt) ==
    /\ pkt.hdr.dh = e.dh /\ pkt.hdr.n = e.n
    /\ pkt.box.key.root = e.mk.root /\ e.mk.i = e.n
    /\ pkt.box.pt \notin O
    /\ Seen(s, pkt.hdr)

RecvSync(q, s, S, O) ==
    /\ s.nr = s.ckr.i
    /\ s.ckr # NoChain => s.dhr[1] = q
    /\ \A pkt \in S : s.ckr # NoChain /\ pkt.hdr.dh = s.dhr => pkt.box.key.root = s.ckr.root
    /\ \A pkt \in S : pkt.box.pt \in O => Seen(s, pkt.hdr)
    /\ \A pkt \in S : Seen(s, pkt.hdr) /\ InStep(pkt) /\ pkt.box.pt \notin O => Stored(s, pkt)
    /\ \A e \in s.skipped : \E pkt \in S : Awaits(s, O, e, pkt)

(***************************************************************************)
(* The two sessions: one, L of party l, has taken the last ratchet step,   *)
(* and its root is one secret ahead of the root of the other, F.  F will   *)
(* derive that secret from any header L sends now.                         *)
(***************************************************************************)
KemSync(l, L, F) ==
    /\ L.kem[1] = l /\ F.kem[1] = Peer(l)
    /\ L.advertised = 1
    /\ IF L.pend_ct = NoCt THEN L.kss_send = F.kss_recv
       ELSE L.send_full = 1 /\ L.kss_send = Decaps(L.pend_ct, F.kem)
    /\ L.kss_recv = F.kss_send
    /\ F.advertised = 1 => L.kem_r = F.kem
    /\ L.send_full = 0 => F.kem_r = L.kem

NoKem(s) == s.kss_send = NoSS /\ s.kss_recv = NoSS

Leads(l, L, F) ==
    /\ Len(L.rk) = Len(F.rk) + 1
    /\ L.dhr = F.dhs
    /\ L.rk = KdfRk(F.rk, DH(L.dhs, F.dhs), L.kss_send)
    /\ IF L.ckr = NoChain THEN F.rk = <<>> ELSE L.ckr.root = F.rk
    /\ L.nr <= F.ns
    /\ F.dhr = IF L.dhs[2] = 0 THEN NoKey ELSE <<l, L.dhs[2] - 1>>
    /\ F.nr <= L.pn
    /\ F.ckr = NoChain => L.pn = 0
    /\ IF PQ THEN KemSync(l, L, F) ELSE NoKem(L) /\ NoKem(F)

PartySync(p) ==
    /\ SendSync(p, sess[p], sent[p])
    /\ RecvSync(Peer(p), sess[p], sent[Peer(p)], opened[p])

Synced ==
    /\ \A p \in Party : PartySync(p)
    /\ \E l \in Party : Leads(l, sess[l], sess[Peer(l)])

SyncInv == IndInv /\ Synced

(***************************************************************************)
(* Types and small facts the proofs keep needing.                          *)
(***************************************************************************)
(* The fields of a session a step of the proof talks about.                *)
LEMMA FieldTypes ==
    ASSUME NEW s \in Session
    PROVE  /\ s.rk \in Root /\ s.dhs \in Key /\ s.dhr \in Key
           /\ s.cks \in ChainKey /\ s.ckr \in ChainKey
           /\ s.ns \in Nat /\ s.nr \in Nat /\ s.pn \in Nat
           /\ s.skipped \in SUBSET Skipped
           /\ s.kem \in Key /\ s.kem_r \in Key /\ s.pend_ct \in Ct
           /\ s.kss_send \in Ct \X Key /\ s.kss_recv \in Ct \X Key
           /\ s.send_full \in {0, 1} /\ s.advertised \in {0, 1} /\ s.send_steps \in Nat
  BY DEF Session

(* A key is its owner and its number.                                      *)
LEMMA KeyPair ==
    /\ \A k \in Key : k = <<k[1], k[2]>> /\ k[2] \in Nat
    /\ \A j, k \in Key : j[1] = k[1] /\ j[2] = k[2] => j = k
    /\ \A k \in Key : NextKey(k)[1] = k[1] /\ NextKey(k)[2] = k[2] + 1
    /\ NoKey[1] = "none" /\ NoKey[2] = 0
    /\ \A p \in Party : p # "none"
  BY DEF Key, NextKey, NoKey, Party

LEMMA ChainPair ==
    /\ \A ck \in ChainKey : ck.root \in Root /\ Len(ck.root) \in Nat /\ ck.i \in Nat
    /\ \A ck, dk \in ChainKey : ck.root = dk.root /\ ck.i = dk.i => ck = dk
    /\ NoChain.root = <<>> /\ NoChain.i = 0
    /\ \A r \in Root : Len(r) \in Nat /\ (Len(r) = 0 <=> r = <<>>)
  BY DEF ChainKey, NoChain, Root

LEMMA PacketTypes ==
    ASSUME NEW pkt \in Packet
    PROVE  /\ pkt.hdr \in Header /\ pkt.box \in Box /\ pkt.box.key \in ChainKey
           /\ pkt.box.pt \in Plain /\ pkt.box.n \in Nat
           /\ pkt.hdr.dh \in Key /\ pkt.hdr.dh[2] \in Nat
           /\ pkt.hdr.n \in Nat /\ pkt.hdr.pn \in Nat
           /\ pkt.hdr.kem_pk \in Key /\ pkt.hdr.kem_ct \in Ct
  BY KeyPair DEF Packet, Box, Header

LEMMA SideType == \A p \in Party : Side(p) \in {0, 1}
  BY DEF Side

(* Two packets with the same header number and ratchet key, or the same    *)
(* plaintext, are the same packet.                                         *)
LEMMA OnePacket ==
    ASSUME NEW p \in Party, NEW s, NEW S, NEW ck, NEW n, SendSync(p, s, S),
           SentGood(p, S, ck, n), NEW a \in S, NEW b \in S,
           (a.hdr.dh = b.hdr.dh /\ a.hdr.n = b.hdr.n) \/ a.box.pt = b.box.pt
    PROVE  a = b
  BY DEF SendSync, SentGood

(* What the invariant says of one party and what its peer has sent.        *)
LEMMA PartyFacts ==
    ASSUME SyncInv, NEW p \in Party
    PROVE  /\ Peer(p) \in Party /\ Peer(p) # p /\ Peer(Peer(p)) = p
           /\ sess[p] \in Session /\ sess[Peer(p)] \in Session
           /\ SessionInv(p, sess[p]) /\ SessionInv(Peer(p), sess[Peer(p)])
           /\ sent[p] \in SUBSET Packet /\ sent[Peer(p)] \in SUBSET Packet
           /\ SentGood(p, sent[p], sess[p].cks, nsent[p])
           /\ SentGood(Peer(p), sent[Peer(p)], sess[Peer(p)].cks, nsent[Peer(p)])
           /\ SendSync(p, sess[p], sent[p])
           /\ SendSync(Peer(p), sess[Peer(p)], sent[Peer(p)])
           /\ RecvSync(Peer(p), sess[p], sent[Peer(p)], opened[p])
           /\ RecvSync(p, sess[Peer(p)], sent[p], opened[Peer(p)])
           /\ Leads(p, sess[p], sess[Peer(p)]) \/ Leads(Peer(p), sess[Peer(p)], sess[p])
<1>1. Peer(p) \in Party /\ Peer(p) # p /\ Peer(Peer(p)) = p /\ Party = {p, Peer(p)}
  BY PeerType DEF Party, Peer
<1>2. QED
  BY <1>1 DEF SyncInv, Synced, PartySync, IndInv, TypeOK, SentInv, SessionInv

(***************************************************************************)
(* Where a message that has not been seen stands: ahead on the present     *)
(* receiving chain, or on the chain of the leader the session will reach   *)
(* by its next ratchet step.                                               *)
(***************************************************************************)
(* A chain that has sent nothing is at its start.                          *)
LEMMA EmptyRoot ==
    ASSUME NEW p \in Party, NEW s, NEW S, SessionInv(p, s), SendSync(p, s, S), s.rk = <<>>
    PROVE  s.ns = 0
  BY ChainPair, FieldTypes DEF SessionInv, SendSync

(* Before its first ratchet step a session has seen nothing.               *)
LEMMA NothingSeen ==
    ASSUME NEW l \in Party, NEW L \in Session, NEW F \in Session, NEW S, NEW O,
           Leads(l, L, F), RecvSync(l, F, S, O), F.dhr = NoKey
    PROVE  F.nr = 0
<1>1. F.ckr = NoChain
  BY KeyPair DEF RecvSync
<1>2. F.nr = 0
  BY <1>1, ChainPair DEF RecvSync
<1>3. QED
  BY <1>2

(* The follower is on the leader's chain before the present one.           *)
LEMMA FollowerKey ==
    ASSUME NEW l \in Party, NEW L \in Session, NEW F \in Session, Leads(l, L, F),
           L.dhs[1] = l
    PROVE  /\ L.dhs[2] = 0 => F.dhr = NoKey
           /\ L.dhs[2] # 0 => F.dhr \in Key /\ F.dhr[1] = l /\ F.dhr[2] + 1 = L.dhs[2]
           /\ F.dhr # L.dhs
           /\ F.dhr[2] <= L.dhs[2]
<1>1. L.dhs \in Key /\ L.dhs[2] \in Nat /\ F.dhr \in Key
  BY KeyPair, FieldTypes
<1>2. L.dhs[2] = 0 => F.dhr = NoKey
  BY DEF Leads
<1>3. L.dhs[2] # 0 => F.dhr = <<l, L.dhs[2] - 1>>
  BY DEF Leads
<1>4. QED
  BY <1>1, <1>2, <1>3, KeyPair

LEMMA Where ==
    ASSUME SyncInv, NEW p \in Party, NEW pkt \in sent[Peer(p)], ~Seen(sess[p], pkt.hdr)
    PROVE  \/ /\ pkt.hdr.dh = sess[p].dhr /\ sess[p].ckr # NoChain
              /\ sess[p].nr <= pkt.hdr.n
           \/ /\ Leads(Peer(p), sess[Peer(p)], sess[p])
              /\ pkt.hdr.dh = sess[Peer(p)].dhs /\ NewKey(sess[p], pkt.hdr)
<1> DEFINE s == sess[p]
           q == Peer(p)
           t == sess[q]
           h == pkt.hdr
<1>0. /\ q \in Party /\ s \in Session /\ t \in Session /\ pkt \in Packet
      /\ SessionInv(p, s) /\ SessionInv(q, t) /\ SendSync(p, s, sent[p])
      /\ SendSync(q, t, sent[q]) /\ RecvSync(q, s, sent[q], opened[p])
      /\ Leads(p, s, t) \/ Leads(q, t, s)
      /\ pkt \in sent[q] /\ Peer(q) = p
  BY PartyFacts
<1>1. /\ h.dh \in Key /\ h.dh[2] \in Nat /\ h.n \in Nat /\ h.pn \in Nat
      /\ s.nr \in Nat /\ s.dhr \in Key /\ s.dhr[2] \in Nat
      /\ t.dhs \in Key /\ t.dhs[2] \in Nat /\ t.dhs[1] = q /\ t.ns \in Nat /\ t.pn \in Nat
  BY <1>0, PacketTypes, FieldTypes, KeyPair DEF SendSync
<1>2. /\ h.dh[1] = q /\ h.dh[2] <= t.dhs[2]
      /\ h.dh[2] = t.dhs[2] => HeaderOf(t, h) /\ h.n < t.ns
      /\ h.dh[2] + 1 = t.dhs[2] => h.n < t.pn
  BY <1>0 DEF SendSync, PacketInv
<1>3. h.dh[2] > s.dhr[2] \/ (h.dh[2] = s.dhr[2] /\ s.nr <= h.n)
  BY <1>1 DEF Seen
<1> HIDE DEF s, q, t, h
<1>4. CASE Leads(p, s, t)
  <2>1. s.dhr = t.dhs
    BY <1>4 DEF Leads
  <2>2. h.dh = s.dhr /\ s.nr <= h.n /\ h.n < t.ns
    BY <1>1, <1>2, <1>3, <2>1, KeyPair
  <2>3. s.ckr # NoChain
    <3>1. s.ckr = NoChain => t.rk = <<>>
      BY <1>4 DEF Leads
    <3>2. t.rk = <<>> => t.ns = 0
      BY <1>0, EmptyRoot
    <3>3. QED
      BY <3>1, <3>2, <2>2, <1>1
  <2>4. QED
    BY <2>2, <2>3 DEF s, h
<1>5. CASE Leads(q, t, s)
  <2>0. /\ t.dhs[2] = 0 => s.dhr = NoKey
        /\ t.dhs[2] # 0 => s.dhr \in Key /\ s.dhr[1] = q /\ s.dhr[2] + 1 = t.dhs[2]
        /\ s.dhr # t.dhs
    BY <1>0, <1>1, <1>5, FollowerKey
  <2>1. CASE h.dh = t.dhs
    BY <1>5, <2>0, <2>1 DEF NewKey, s, q, t, h
  <2>2. CASE h.dh # t.dhs
    <3>1. h.dh[2] < t.dhs[2]
      BY <1>1, <1>2, <2>2, KeyPair
    <3>2. t.dhs[2] # 0 /\ h.dh[2] + 1 = t.dhs[2] /\ h.dh = s.dhr
      BY <1>1, <1>2, <1>3, <2>0, <3>1, KeyPair
    <3>3. h.n < t.pn /\ s.nr <= h.n
      BY <1>1, <1>2, <1>3, <3>2
    <3>4. s.ckr # NoChain
      BY <1>1, <1>5, <3>3 DEF Leads
    <3>5. QED
      BY <3>2, <3>3, <3>4 DEF s, h
  <2>3. QED
    BY <2>1, <2>2
<1>6. QED
  BY <1>0, <1>4, <1>5

(***************************************************************************)
(* What the stages of ratchet_decrypt do to the fields of a session.       *)
(***************************************************************************)
(* The fields of the KEM ratchet.                                          *)
SameKem(s, t) ==
    /\ t.kem = s.kem /\ t.kem_r = s.kem_r /\ t.pend_ct = s.pend_ct
    /\ t.kss_send = s.kss_send /\ t.kss_recv = s.kss_recv
    /\ t.send_full = s.send_full /\ t.advertised = s.advertised
    /\ t.send_steps = s.send_steps

(* The fields that skip_message_keys and the end of a chain leave alone.   *)
SameSending(s, t) ==
    /\ t.rk = s.rk /\ t.dhs = s.dhs /\ t.dhr = s.dhr /\ t.cks = s.cks
    /\ t.ns = s.ns /\ t.pn = s.pn
    /\ SameKem(s, t)

LEMMA SkipFields ==
    ASSUME NEW p \in Party, NEW s, SessionInv(p, s), NEW u \in Nat, SkipRc(s, u) = "ok"
    PROVE  /\ SameSending(s, SkipTo(s, u))
           /\ s.ckr = NoChain => SkipTo(s, u) = s
           /\ s.ckr # NoChain =>
                /\ s.nr <= u
                /\ SkipTo(s, u).nr = u
                /\ SkipTo(s, u).ckr.root = s.ckr.root
                /\ SkipTo(s, u).ckr.i = s.ckr.i + (u - s.nr)
                /\ SkipTo(s, u).skipped = s.skipped \cup Stash(s, u)
<1>0. s \in Session /\ s.nr \in Nat
  BY FieldTypes DEF SessionInv
<1>1. CASE s.ckr = NoChain
  BY <1>1 DEF SkipTo, SameSending, SameKem
<1>2. CASE s.ckr # NoChain
  <2>1. s.nr <= u
    BY <1>0, <1>2 DEF SkipRc
  <2>2. /\ SkipTo(s, u).skipped = s.skipped \cup Stash(s, u)
        /\ SkipTo(s, u).ckr.root = s.ckr.root
        /\ SkipTo(s, u).ckr.i = s.ckr.i + (u - s.nr)
    BY <1>0, <1>2, <2>1, SkipToFacts
  <2>3. SkipTo(s, u).nr = u /\ SameSending(s, SkipTo(s, u))
    BY <1>0, <1>2 DEF SkipTo, SameSending, SameKem, Session
  <2>4. QED
    BY <1>2, <2>1, <2>2, <2>3
<1>3. QED
  BY <1>1, <1>2

(* An entry of the store is a position of the chain.                       *)
LEMMA StashEntry ==
    ASSUME NEW s \in Session, s.nr = s.ckr.i, NEW u \in Nat, s.nr <= u
    PROVE  /\ \A e \in Stash(s, u) : /\ e.dh = s.dhr /\ e.n \in s.nr .. (u - 1)
                                     /\ e.mk.root = s.ckr.root /\ e.mk.i = e.n
           /\ \A n \in s.nr .. (u - 1) :
                 \E e \in Stash(s, u) : /\ e.dh = s.dhr /\ e.n = n
                                        /\ e.mk.root = s.ckr.root /\ e.mk.i = n
<1>0. s.nr \in Nat /\ s.ckr \in ChainKey /\ s.ckr.i \in Nat
  BY FieldTypes, ChainPair
<1>1. \A n \in s.nr .. (u - 1) : /\ n - s.nr \in Nat
                                 /\ Advance(s.ckr, n - s.nr).root = s.ckr.root
                                 /\ Advance(s.ckr, n - s.nr).i = n
  <2> SUFFICES ASSUME NEW n \in s.nr .. (u - 1)
               PROVE  /\ n - s.nr \in Nat
                      /\ Advance(s.ckr, n - s.nr).root = s.ckr.root
                      /\ Advance(s.ckr, n - s.nr).i = n
    OBVIOUS
  <2>1. n - s.nr \in Nat /\ s.ckr.i + (n - s.nr) = n
    BY <1>0
  <2>2. QED
    BY <1>0, <2>1, AdvanceType
<1> DEFINE Entry(m) == [dh |-> s.dhr, n |-> m, mk |-> Advance(s.ckr, m - s.nr)]
<1>2. Stash(s, u) = {Entry(m) : m \in s.nr .. (u - 1)}
  BY DEF Stash
<1>3. \A m : Entry(m).dh = s.dhr /\ Entry(m).n = m /\ Entry(m).mk = Advance(s.ckr, m - s.nr)
  OBVIOUS
<1> HIDE DEF Entry
<1>4. QED
  BY <1>1, <1>2, <1>3

(* The header of the leader gives the follower the leader's root.          *)
LEMMA KemDerived ==
    ASSUME NEW l \in Party, NEW L \in Session, NEW F \in Session, Leads(l, L, F),
           NEW h \in Header, HeaderOf(L, h)
    PROVE  /\ KssRecv(F, h) = L.kss_send
           /\ RecvRoot(F, h) = L.rk
           /\ PQ => KemR(F, h) = L.kem
<1>0. L.send_full \in {0, 1}
  BY FieldTypes
<1>1. KssRecv(F, h) = L.kss_send /\ (PQ => KemR(F, h) = L.kem)
  <2>1. CASE ~PQ
    BY <2>1 DEF KssRecv, PqFull, Leads, NoKem
  <2>2. CASE PQ /\ L.send_full = 1
    BY <2>2 DEF KssRecv, KemR, PqFull, Leads, KemSync, HeaderOf
  <2>3. CASE PQ /\ L.send_full = 0
    BY <2>3 DEF KssRecv, KemR, PqFull, Leads, KemSync, HeaderOf
  <2>4. QED
    BY <1>0, <2>1, <2>2, <2>3, RatchetAssumption
<1>2. DH(L.dhs, F.dhs) = DH(F.dhs, h.dh)
  BY DEF DH, HeaderOf
<1>3. QED
  BY <1>1, <1>2 DEF RecvRoot, Leads

(* dh_ratchet, field by field.                                             *)
LEMMA StepFields ==
    ASSUME NEW s \in Session, NEW h \in Header
    PROVE  LET r == RecvHalf(s, h)
               d == DHRatchet(s, h)
           IN  /\ r \in Session /\ d \in Session
               /\ d.dhs = NextKey(s.dhs) /\ d.dhr = h.dh
               /\ d.ns = 0 /\ d.nr = 0 /\ d.pn = s.ns
               /\ d.ckr = ChainOf(RecvRoot(s, h))
               /\ d.rk = KdfRk(RecvRoot(s, h), DH(NextKey(s.dhs), h.dh), Cadence(r).kss_send)
               /\ d.cks = ChainOf(d.rk)
               /\ d.skipped = s.skipped
               /\ SameKem(Cadence(r), d)
               /\ r.kem = s.kem /\ r.pend_ct = s.pend_ct /\ r.kss_send = s.kss_send
               /\ r.send_full = s.send_full /\ r.advertised = s.advertised
               /\ r.send_steps = s.send_steps
               /\ r.kem_r = KemR(s, h) /\ r.kss_recv = KssRecv(s, h) /\ r.dhs = s.dhs
<1> DEFINE r == RecvHalf(s, h)
           d == DHRatchet(s, h)
<1>1. r \in Session /\ d \in Session
  BY RecvHalfFacts, DHRatchetFacts
<1>2. /\ r.dhs = s.dhs /\ r.dhr = h.dh /\ r.ns = 0 /\ r.nr = 0 /\ r.pn = s.ns
      /\ r.rk = RecvRoot(s, h) /\ r.ckr = ChainOf(RecvRoot(s, h)) /\ r.skipped = s.skipped
      /\ r.kem_r = KemR(s, h) /\ r.kss_recv = KssRecv(s, h)
      /\ r.kem = s.kem /\ r.pend_ct = s.pend_ct /\ r.kss_send = s.kss_send
      /\ r.send_full = s.send_full /\ r.advertised = s.advertised
      /\ r.send_steps = s.send_steps
  BY DEF RecvHalf, Session
<1>4. d = SendHalf(r)
  BY DEF DHRatchet
<1> HIDE DEF r
<1> DEFINE c == Cadence(r)
<1>5. /\ c \in Session /\ c.ckr = r.ckr /\ c.skipped = r.skipped
  BY <1>1, CadenceFacts
<1>6. c.ns = r.ns /\ c.nr = r.nr /\ c.pn = r.pn /\ c.dhr = r.dhr
  BY <1>1 DEF Cadence, KemStep, Session
<1>7. d = [c EXCEPT !.dhs = NextKey(r.dhs), !.rk = SendRoot(r), !.cks = ChainOf(SendRoot(r))]
  BY <1>4 DEF SendHalf
<1>8. SendRoot(r) = KdfRk(r.rk, DH(NextKey(r.dhs), r.dhr), c.kss_send)
  BY DEF SendRoot
<1> HIDE DEF c, d
<1>9. /\ d.dhs = NextKey(r.dhs) /\ d.rk = SendRoot(r) /\ d.cks = ChainOf(SendRoot(r))
      /\ d.dhr = c.dhr /\ d.ns = c.ns /\ d.nr = c.nr /\ d.pn = c.pn
      /\ d.ckr = c.ckr /\ d.skipped = c.skipped
      /\ SameKem(c, d)
  BY <1>5, <1>7 DEF Session, SameKem
<1>10. QED
  BY <1>1, <1>2, <1>5, <1>6, <1>8, <1>9 DEF r, d, c

(***************************************************************************)
(* Room in the store: every skipped key, stored or about to be, belongs to *)
(* a message that is outstanding.                                          *)
(***************************************************************************)
LEMMA CountThree ==
    ASSUME NEW P, IsFiniteSet(P), NEW A \in SUBSET P, NEW B \in SUBSET P, NEW C \in SUBSET P,
           A \cap B = {}, A \cap C = {}, B \cap C = {}
    PROVE  /\ IsFiniteSet(A) /\ IsFiniteSet(B) /\ IsFiniteSet(C)
           /\ Cardinality(A) \in Nat /\ Cardinality(B) \in Nat
           /\ Cardinality(C) \in Nat /\ Cardinality(P) \in Nat
           /\ Cardinality(A) + Cardinality(B) + Cardinality(C) <= Cardinality(P)
<1>1. IsFiniteSet(A) /\ IsFiniteSet(B) /\ IsFiniteSet(C)
  BY FS_Subset
<1>2. IsFiniteSet(A \cup B) /\ Cardinality(A \cup B) = Cardinality(A) + Cardinality(B)
  <2>1. /\ IsFiniteSet(A \cup B)
        /\ Cardinality(A \cup B) = Cardinality(A) + Cardinality(B) - Cardinality(A \cap B)
    BY <1>1, FS_Union
  <2>2. Cardinality(A \cap B) = 0
    BY FS_EmptySet
  <2>3. QED
    BY <1>1, <2>1, <2>2, FS_CardinalityType
<1>3. /\ IsFiniteSet((A \cup B) \cup C)
      /\ Cardinality((A \cup B) \cup C) = Cardinality(A \cup B) + Cardinality(C)
  <2>0. (A \cup B) \cap C = {}
    OBVIOUS
  <2>1. /\ IsFiniteSet((A \cup B) \cup C)
        /\ Cardinality((A \cup B) \cup C) =
             Cardinality(A \cup B) + Cardinality(C) - Cardinality((A \cup B) \cap C)
    BY <1>1, <1>2, FS_Union
  <2>2. Cardinality((A \cup B) \cap C) = 0
    BY <2>0, FS_EmptySet
  <2>3. QED
    BY <1>1, <1>2, <2>1, <2>2, FS_CardinalityType
<1>4. (A \cup B) \cup C \in SUBSET P
  OBVIOUS
<1>5. Cardinality((A \cup B) \cup C) <= Cardinality(P)
  BY <1>4, FS_Subset
<1>6. QED
  BY <1>1, <1>2, <1>3, <1>5, FS_CardinalityType

(* The messages of P at the positions a to b of epoch k.                   *)
Slots(P, k, a, b) == {pkt \in P : pkt.hdr.dh[2] = k /\ pkt.hdr.n \in a .. b}

LEMMA SlotsFilled ==
    ASSUME NEW P, IsFiniteSet(P), NEW k, NEW a \in Nat, NEW b \in Int, a <= b + 1,
           \A n \in a .. b : Counter(P, k, n)
    PROVE  b - a + 1 <= Cardinality(Slots(P, k, a, b))
<1> DEFINE f == [pkt \in Slots(P, k, a, b) |-> pkt.hdr.n]
<1>1. IsFiniteSet(Slots(P, k, a, b))
  <2>1. Slots(P, k, a, b) \in SUBSET P
    BY DEF Slots
  <2>2. QED
    BY <2>1, FS_Subset
<1>2. f \in Surjection(Slots(P, k, a, b), a .. b)
  BY DEF Surjection, Slots, Counter
<1> HIDE DEF f
<1>3. Cardinality(a .. b) <= Cardinality(Slots(P, k, a, b))
  BY <1>1, <1>2, FS_Surjection
<1>4. Cardinality(a .. b) = IF a > b THEN 0 ELSE b - a + 1
  BY FS_Interval
<1>5. Cardinality(Slots(P, k, a, b)) \in Nat
  BY <1>1, FS_CardinalityType
<1>6. QED
  BY <1>3, <1>4, <1>5

(* Those of P whose position has been passed.                              *)
Passed(s, P) == {pkt \in P : Seen(s, pkt.hdr)}

LEMMA StoreMatched ==
    ASSUME NEW s \in Session, NEW S, NEW O, NEW P, IsFiniteSet(P),
           P = {pkt \in S : pkt.box.pt \notin O},
           \A e \in s.skipped : \E pkt \in S : Awaits(s, O, e, pkt)
    PROVE  /\ IsFiniteSet(s.skipped)
           /\ Cardinality(s.skipped) <= Cardinality(Passed(s, P))
<1> DEFINE A == {pkt \in Passed(s, P) : \E e \in s.skipped : Awaits(s, O, e, pkt)}
           f == [pkt \in A |-> CHOOSE e \in s.skipped : Awaits(s, O, e, pkt)]
<1>1. IsFiniteSet(Passed(s, P)) /\ IsFiniteSet(A) /\ Cardinality(A) <= Cardinality(Passed(s, P))
  <2>1. Passed(s, P) \in SUBSET P /\ A \in SUBSET Passed(s, P)
    BY DEF Passed
  <2>2. QED
    BY <2>1, FS_Subset
<1>2. \A pkt \in A : f[pkt] \in s.skipped /\ Awaits(s, O, f[pkt], pkt)
  OBVIOUS
<1>3. ASSUME NEW pkt, NEW d \in s.skipped, NEW e \in s.skipped,
             Awaits(s, O, d, pkt), Awaits(s, O, e, pkt)
      PROVE  d = e
  <2>1. /\ d.dh = e.dh /\ d.n = e.n /\ d.mk.root = e.mk.root /\ d.mk.i = e.mk.i
    BY <1>3 DEF Awaits
  <2>2. d \in Skipped /\ e \in Skipped /\ d.mk \in ChainKey /\ e.mk \in ChainKey
    BY FieldTypes DEF Skipped
  <2>3. d.mk = e.mk
    BY <2>1, <2>2, ChainPair
  <2>4. QED
    BY <2>1, <2>2, <2>3 DEF Skipped
<1>4. \A e \in s.skipped : \E pkt \in A : f[pkt] = e
  <2> SUFFICES ASSUME NEW e \in s.skipped
               PROVE  \E pkt \in A : f[pkt] = e
    OBVIOUS
  <2>1. PICK pkt \in S : Awaits(s, O, e, pkt)
    OBVIOUS
  <2>2. pkt \in A
    BY <2>1 DEF Awaits, Passed
  <2>3. f[pkt] = e
    BY <1>2, <1>3, <2>1, <2>2
  <2>4. QED
    BY <2>2, <2>3
<1>5. f \in Surjection(A, s.skipped)
  BY <1>2, <1>4 DEF Surjection
<1> HIDE DEF f, A
<1>6. IsFiniteSet(s.skipped) /\ Cardinality(s.skipped) <= Cardinality(A)
  BY <1>1, <1>5, FS_Surjection
<1>7. /\ Cardinality(s.skipped) \in Nat /\ Cardinality(A) \in Nat
      /\ Cardinality(Passed(s, P)) \in Nat
  BY <1>1, <1>6, FS_CardinalityType
<1>8. QED
  BY <1>1, <1>6, <1>7

(* What a party has sent is finite, as its messages are numbered.          *)
LEMMA SentFinite ==
    ASSUME NEW p \in Party, NEW S \in SUBSET Packet, NEW ck, NEW n \in Nat, SentGood(p, S, ck, n)
    PROVE  IsFiniteSet(S)
<1> DEFINE f == [pkt \in S |-> pkt.box.pt.id]
<1>0. /\ \A m \in Plain : m.id \in 1 .. MaxSent
      /\ \A m, k \in Plain : m.from = k.from /\ m.id = k.id => m = k
  BY DEF Plain
<1>1. \A pkt \in S : pkt.box.pt \in Plain /\ pkt.box.pt.id \in 1 .. n
  <2> SUFFICES ASSUME NEW pkt \in S
               PROVE  pkt.box.pt \in Plain /\ pkt.box.pt.id \in 1 .. n
    OBVIOUS
  <2>1. pkt.box.pt \in Plain
    BY PacketTypes
  <2>2. pkt.box.pt.id \in 1 .. MaxSent /\ MaxSent \in Nat
    BY <1>0, <2>1, RatchetAssumption
  <2>3. pkt.box.pt.id <= n
    BY DEF SentGood
  <2>4. QED
    BY <2>1, <2>2, <2>3
<1>2. \A a, b \in S : a.box.pt.id = b.box.pt.id => a.box.pt = b.box.pt
  <2>1. \A a \in S : a.box.pt.from = p
    BY DEF SentGood
  <2>2. QED
    BY <1>0, <1>1, <2>1
<1>3. f \in Injection(S, 1 .. n)
  BY <1>1, <1>2 DEF Injection, IsInjective, SentGood
<1> HIDE DEF f
<1>4. IsFiniteSet(1 .. n)
  BY FS_Interval
<1>5. QED
  BY <1>3, <1>4, FS_Injection

(***************************************************************************)
(* Decryptable.                                                            *)
(***************************************************************************)
(* Whoever sent an unseen message sent every lower counter of its chain.   *)
LEMMA UnseenCounters ==
    ASSUME SyncInv, NEW p \in Party, NEW pkt \in sent[Peer(p)], ~Seen(sess[p], pkt.hdr)
    PROVE  \A m \in 0 .. pkt.hdr.n : Counter(sent[Peer(p)], pkt.hdr.dh[2], m)
<1> DEFINE s == sess[p]
           q == Peer(p)
           t == sess[q]
           h == pkt.hdr
<1>0. /\ q \in Party /\ s \in Session /\ t \in Session /\ pkt \in Packet
      /\ SendSync(q, t, sent[q])
      /\ Leads(p, s, t) \/ Leads(q, t, s)
      /\ pkt \in sent[q]
  BY PartyFacts
<1>1. /\ h.dh \in Key /\ h.dh[2] \in Nat /\ h.n \in Nat
      /\ s.nr \in Nat /\ s.dhr \in Key /\ s.dhr[2] \in Nat
      /\ t.dhs \in Key /\ t.dhs[2] \in Nat /\ t.dhs[1] = q /\ t.ns \in Nat /\ t.pn \in Nat
  BY <1>0, PacketTypes, FieldTypes, KeyPair DEF SendSync
<1>2. h.dh[2] >= s.dhr[2]
  BY <1>1 DEF Seen
<1> HIDE DEF s, q, t, h
<1>3. t.dhs[2] <= h.dh[2] + 1
  <2>1. CASE Leads(p, s, t)
    BY <1>1, <1>2, <2>1 DEF Leads
  <2>2. CASE Leads(q, t, s)
    BY <1>0, <1>1, <1>2, <2>2, FollowerKey
  <2>3. QED
    BY <1>0, <2>1, <2>2
<1>4. h.dh[2] = t.dhs[2] \/ (h.dh[2] + 1 = t.dhs[2] /\ t.dhs[2] - 1 = h.dh[2])
  <2>1. h.dh[2] <= t.dhs[2]
    BY <1>0 DEF SendSync, h
  <2>2. QED
    BY <1>1, <1>3, <2>1
<1>5. ASSUME NEW m \in 0 .. h.n
      PROVE  Counter(sent[q], h.dh[2], m)
  <2>1. CASE h.dh[2] = t.dhs[2]
    <3>1. h.n < t.ns /\ \A n \in 0 .. (t.ns - 1) : Counter(sent[q], t.dhs[2], n)
      BY <1>0, <2>1 DEF SendSync, h
    <3>2. m \in 0 .. (t.ns - 1)
      BY <1>1, <3>1
    <3>3. QED
      BY <2>1, <3>1, <3>2
  <2>2. CASE h.dh[2] + 1 = t.dhs[2] /\ t.dhs[2] - 1 = h.dh[2]
    <3>1. h.n < t.pn /\ \A n \in 0 .. (t.pn - 1) : Counter(sent[q], t.dhs[2] - 1, n)
      BY <1>0, <2>2 DEF SendSync, h
    <3>2. m \in 0 .. (t.pn - 1)
      BY <1>1, <3>1
    <3>3. QED
      BY <2>2, <3>1, <3>2
  <2>3. QED
    BY <1>4, <2>1, <2>2
<1>6. QED
  BY <1>5 DEF q, h

(* A position that has not been passed holds a message still outstanding.  *)
LEMMA PendingCounter ==
    ASSUME NEW q, NEW s, NEW S, NEW O, NEW P, RecvSync(q, s, S, O),
           P = {pkt \in S : pkt.box.pt \notin O}, NEW k, NEW m, Counter(S, k, m),
           ~(k < s.dhr[2]), ~(k = s.dhr[2] /\ m < s.nr)
    PROVE  Counter(P, k, m)
<1>1. PICK pkt \in S : pkt.hdr.dh[2] = k /\ pkt.hdr.n = m
  BY DEF Counter
<1>2. ~Seen(s, pkt.hdr)
  BY <1>1 DEF Seen
<1>3. pkt \in P
  BY <1>2 DEF RecvSync
<1>4. QED
  BY <1>1, <1>3 DEF Counter

LEMMA RoomCurrent ==
    ASSUME SyncInv, NEW p \in Party, NEW pkt \in sent[Peer(p)],
           pkt.hdr.dh = sess[p].dhr, sess[p].nr <= pkt.hdr.n
    PROVE  /\ IsFiniteSet(Pending(p)) /\ Cardinality(Pending(p)) \in Nat
           /\ IsFiniteSet(sess[p].skipped) /\ Cardinality(sess[p].skipped) \in Nat
           /\ Cardinality(sess[p].skipped) + (pkt.hdr.n - sess[p].nr) + 1
                <= Cardinality(Pending(p))
<1> DEFINE s == sess[p]
           q == Peer(p)
           S == sent[q]
           O == opened[p]
           P == Pending(p)
           k == pkt.hdr.dh[2]
           n == pkt.hdr.n
           A == Passed(s, P)
           B == Slots(P, k, s.nr, n)
<1>0. /\ q \in Party /\ s \in Session /\ S \in SUBSET Packet /\ pkt \in Packet
      /\ RecvSync(q, s, S, O) /\ SentGood(q, S, sess[q].cks, nsent[q])
      /\ nsent[q] \in Nat
  BY PartyFacts, RatchetAssumption DEF SyncInv, IndInv, TypeOK
<1>1. n \in Nat /\ s.nr \in Nat /\ s.nr <= n /\ k = s.dhr[2] /\ k \in Nat
  BY <1>0, PacketTypes, FieldTypes
<1>2. P = {x \in S : x.box.pt \notin O}
  BY DEF Pending
<1>3. \A m \in 0 .. n : Counter(S, k, m)
  <2>1. ~Seen(s, pkt.hdr)
    BY <1>1 DEF Seen
  <2>2. QED
    BY <2>1, UnseenCounters
<1>4. IsFiniteSet(P)
  <2>1. IsFiniteSet(S)
    BY <1>0, SentFinite
  <2>2. P \in SUBSET S
    BY <1>2
  <2>3. QED
    BY <2>1, <2>2, FS_Subset
<1> HIDE DEF s, q, S, O, P, k, n
<1>5. \A m \in s.nr .. n : Counter(P, k, m)
  <2>1. \A m \in s.nr .. n : m \in 0 .. n /\ ~(m < s.nr)
    BY <1>1
  <2>2. QED
    BY <1>0, <1>1, <1>2, <1>3, <2>1, PendingCounter
<1>6. n - s.nr + 1 <= Cardinality(B)
  BY <1>1, <1>4, <1>5, SlotsFilled
<1>7. IsFiniteSet(s.skipped) /\ Cardinality(s.skipped) <= Cardinality(A)
  <2>1. \A e \in s.skipped : \E x \in S : Awaits(s, O, e, x)
    BY <1>0 DEF RecvSync
  <2>2. QED
    BY <1>0, <1>2, <1>4, <2>1, StoreMatched
<1>8. A \in SUBSET P /\ B \in SUBSET P /\ A \cap B = {}
  <2>1. \A x \in B : ~Seen(s, x.hdr)
    BY <1>1 DEF Slots, Seen
  <2>2. QED
    BY <2>1 DEF Passed, Slots
<1> HIDE DEF A, B
<1>9. /\ Cardinality(A) \in Nat /\ Cardinality(B) \in Nat /\ Cardinality(P) \in Nat
      /\ Cardinality(A) + Cardinality(B) <= Cardinality(P)
  <2>1. {} \in SUBSET P /\ A \cap {} = {} /\ B \cap {} = {}
    OBVIOUS
  <2>2. /\ Cardinality(A) \in Nat /\ Cardinality(B) \in Nat /\ Cardinality(P) \in Nat
        /\ Cardinality(A) + Cardinality(B) + Cardinality({}) <= Cardinality(P)
    BY <1>4, <1>8, <2>1, CountThree
  <2>3. QED
    BY <2>2, FS_EmptySet
<1>10. Cardinality(s.skipped) \in Nat
  BY <1>7, FS_CardinalityType
<1>11. Cardinality(s.skipped) + (n - s.nr) + 1 <= Cardinality(P)
  BY <1>1, <1>6, <1>7, <1>9, <1>10
<1>12. QED
  BY <1>4, <1>7, <1>9, <1>10, <1>11 DEF s, P, n

(* Before a ratchet step both the rest of the old chain and the new one    *)
(* have to fit.                                                            *)
LEMMA RoomNext ==
    ASSUME SyncInv, NEW p \in Party, NEW pkt \in sent[Peer(p)], ~Seen(sess[p], pkt.hdr),
           Leads(Peer(p), sess[Peer(p)], sess[p]), pkt.hdr.dh = sess[Peer(p)].dhs,
           sess[p].ckr # NoChain
    PROVE  /\ IsFiniteSet(Pending(p)) /\ Cardinality(Pending(p)) \in Nat
           /\ IsFiniteSet(sess[p].skipped) /\ Cardinality(sess[p].skipped) \in Nat
           /\ sess[p].nr <= pkt.hdr.pn
           /\ Cardinality(sess[p].skipped) + (pkt.hdr.pn - sess[p].nr) + pkt.hdr.n + 1
                <= Cardinality(Pending(p))
<1> DEFINE s == sess[p]
           q == Peer(p)
           t == sess[q]
           S == sent[q]
           O == opened[p]
           P == Pending(p)
           k == pkt.hdr.dh[2]
           j == s.dhr[2]
           n == pkt.hdr.n
           pn == pkt.hdr.pn
           A == Passed(s, P)
           B == Slots(P, j, s.nr, pn - 1)
           C == Slots(P, k, 0, n)
<1>0. /\ q \in Party /\ s \in Session /\ t \in Session /\ S \in SUBSET Packet /\ pkt \in Packet
      /\ SendSync(q, t, S) /\ RecvSync(q, s, S, O) /\ SentGood(q, S, t.cks, nsent[q])
      /\ nsent[q] \in Nat /\ Leads(q, t, s)
  BY PartyFacts, RatchetAssumption DEF SyncInv, IndInv, TypeOK
<1>1. /\ n \in Nat /\ pn \in Nat /\ s.nr \in Nat /\ j \in Nat /\ k \in Nat
      /\ t.dhs[1] = q /\ t.dhs[2] = k /\ t.pn = pn
  <2>1. t.pn = pn
    BY <1>0 DEF SendSync, HeaderOf
  <2>2. QED
    BY <1>0, <2>1, PacketTypes, FieldTypes, KeyPair DEF SendSync
<1>2. P = {x \in S : x.box.pt \notin O}
  BY DEF Pending
<1>3. \A m \in 0 .. n : Counter(S, k, m)
  BY UnseenCounters
<1>4. IsFiniteSet(P)
  <2>1. IsFiniteSet(S)
    BY <1>0, SentFinite
  <2>2. P \in SUBSET S
    BY <1>2
  <2>3. QED
    BY <2>1, <2>2, FS_Subset
<1>5. s.dhr[1] = q /\ s.ckr # NoChain
  BY <1>0 DEF RecvSync
<1> HIDE DEF s, q, t, S, O, P, k, n, j, pn
<1>6. j + 1 = k /\ s.nr <= pn
  <2>1. s.dhr # NoKey
    BY <1>0, <1>5, KeyPair
  <2>2. t.dhs[2] # 0 => s.dhr[2] + 1 = t.dhs[2]
    BY <1>0, <1>1, FollowerKey
  <2>3. t.dhs[2] = 0 => s.dhr = NoKey
    BY <1>0, <1>1, FollowerKey
  <2>4. s.nr <= t.pn
    BY <1>0 DEF Leads
  <2>5. QED
    BY <1>1, <2>1, <2>2, <2>3, <2>4 DEF j
<1>7. \A m \in 0 .. (pn - 1) : Counter(S, j, m)
  <2>1. j = t.dhs[2] - 1
    BY <1>1, <1>6
  <2>2. QED
    BY <1>0, <1>1, <2>1 DEF SendSync
<1>8. \A m \in s.nr .. (pn - 1) : Counter(P, j, m)
  <2>1. \A m \in s.nr .. (pn - 1) : m \in 0 .. (pn - 1) /\ ~(m < s.nr) /\ ~(j < s.dhr[2])
    BY <1>1 DEF j
  <2>2. QED
    BY <1>0, <1>2, <1>7, <2>1, PendingCounter
<1>9. \A m \in 0 .. n : Counter(P, k, m)
  <2>1. ~(k < s.dhr[2]) /\ k # s.dhr[2]
    BY <1>1, <1>6 DEF j
  <2>2. QED
    BY <1>0, <1>2, <1>3, <2>1, PendingCounter
<1>10. pn - s.nr <= Cardinality(B)
  <2>1. (pn - 1) - s.nr + 1 <= Cardinality(B)
    BY <1>1, <1>4, <1>6, <1>8, SlotsFilled
  <2> HIDE DEF B
  <2>2. (pn - 1) - s.nr + 1 = pn - s.nr
    BY <1>1
  <2>3. QED
    BY <2>1, <2>2
<1>11. n + 1 <= Cardinality(C)
  <2>1. n - 0 + 1 <= Cardinality(C)
    BY <1>1, <1>4, <1>9, SlotsFilled
  <2> HIDE DEF C
  <2>2. QED
    BY <1>1, <2>1
<1>12. IsFiniteSet(s.skipped) /\ Cardinality(s.skipped) <= Cardinality(A)
  <2>1. \A e \in s.skipped : \E x \in S : Awaits(s, O, e, x)
    BY <1>0 DEF RecvSync
  <2>2. QED
    BY <1>0, <1>2, <1>4, <2>1, StoreMatched
<1>13. /\ A \in SUBSET P /\ B \in SUBSET P /\ C \in SUBSET P
       /\ A \cap B = {} /\ A \cap C = {} /\ B \cap C = {}
  <2>1. \A x \in B : ~Seen(s, x.hdr)
    BY <1>1 DEF Slots, Seen, j
  <2>2. \A x \in C : ~Seen(s, x.hdr)
    BY <1>1, <1>6 DEF Slots, Seen, j
  <2>3. \A x \in B : x.hdr.dh[2] # k
    BY <1>1, <1>6 DEF Slots
  <2>4. QED
    BY <2>1, <2>2, <2>3 DEF Passed, Slots
<1> HIDE DEF A, B, C
<1>14. /\ Cardinality(A) \in Nat /\ Cardinality(B) \in Nat
       /\ Cardinality(C) \in Nat /\ Cardinality(P) \in Nat
       /\ Cardinality(A) + Cardinality(B) + Cardinality(C) <= Cardinality(P)
  BY <1>4, <1>13, CountThree
<1>15. Cardinality(s.skipped) \in Nat
  BY <1>12, FS_CardinalityType
<1>16. Cardinality(s.skipped) + (pn - s.nr) + n + 1 <= Cardinality(P)
  BY <1>1, <1>10, <1>11, <1>12, <1>14, <1>15
<1>17. QED
  BY <1>4, <1>6, <1>12, <1>14, <1>15, <1>16 DEF s, P, n, pn

(* Without a receiving chain only the new one has to fit.                  *)
LEMMA RoomFirst ==
    ASSUME SyncInv, NEW p \in Party, NEW pkt \in sent[Peer(p)], ~Seen(sess[p], pkt.hdr),
           Leads(Peer(p), sess[Peer(p)], sess[p]), sess[p].dhr # pkt.hdr.dh
    PROVE  /\ IsFiniteSet(Pending(p)) /\ Cardinality(Pending(p)) \in Nat
           /\ IsFiniteSet(sess[p].skipped) /\ Cardinality(sess[p].skipped) \in Nat
           /\ Cardinality(sess[p].skipped) + pkt.hdr.n + 1 <= Cardinality(Pending(p))
<1> DEFINE s == sess[p]
           q == Peer(p)
           t == sess[q]
           S == sent[q]
           O == opened[p]
           P == Pending(p)
           k == pkt.hdr.dh[2]
           n == pkt.hdr.n
           A == Passed(s, P)
           C == Slots(P, k, 0, n)
<1>0. /\ q \in Party /\ s \in Session /\ t \in Session /\ S \in SUBSET Packet /\ pkt \in Packet
      /\ SendSync(q, t, S) /\ RecvSync(q, s, S, O) /\ SentGood(q, S, t.cks, nsent[q])
      /\ nsent[q] \in Nat /\ Leads(q, t, s)
  BY PartyFacts, RatchetAssumption DEF SyncInv, IndInv, TypeOK
<1>1. /\ n \in Nat /\ s.nr \in Nat /\ k \in Nat /\ pkt.hdr.dh \in Key
      /\ s.dhr \in Key /\ s.dhr[2] \in Nat /\ pkt.hdr.dh[1] = q
      /\ t.dhs[1] = q /\ t.dhs \in Key /\ t.dhs[2] \in Nat
  BY <1>0, PacketTypes, FieldTypes, KeyPair DEF SendSync, PacketInv
<1>2. P = {x \in S : x.box.pt \notin O}
  BY DEF Pending
<1>3. \A m \in 0 .. n : Counter(S, k, m)
  BY UnseenCounters
<1>4. IsFiniteSet(P)
  <2>1. IsFiniteSet(S)
    BY <1>0, SentFinite
  <2>2. P \in SUBSET S
    BY <1>2
  <2>3. QED
    BY <2>1, <2>2, FS_Subset
<1>5. k >= s.dhr[2] /\ s.dhr # pkt.hdr.dh
  BY <1>1 DEF Seen
<1> HIDE DEF s, q, t, S, O, P, n
<1>6. k = s.dhr[2] => s.nr = 0
  <2>1. ASSUME k = s.dhr[2]
        PROVE  s.dhr = NoKey
    <3>1. s.dhr[1] # q
      BY <1>1, <1>5, <2>1, KeyPair
    <3>2. QED
      BY <1>0, <1>1, <3>1, FollowerKey
  <2>2. QED
    BY <1>0, <2>1, NothingSeen
<1> HIDE DEF k
<1>7. \A m \in 0 .. n : Counter(P, k, m)
  <2>1. \A m \in 0 .. n : ~(k < s.dhr[2]) /\ ~(k = s.dhr[2] /\ m < s.nr)
    BY <1>1, <1>5, <1>6
  <2>2. QED
    BY <1>0, <1>2, <1>3, <2>1, PendingCounter
<1>8. n + 1 <= Cardinality(C)
  <2>1. n - 0 + 1 <= Cardinality(C)
    BY <1>1, <1>4, <1>7, SlotsFilled
  <2> HIDE DEF C
  <2>2. QED
    BY <1>1, <2>1
<1>9. IsFiniteSet(s.skipped) /\ Cardinality(s.skipped) <= Cardinality(A)
  <2>1. \A e \in s.skipped : \E x \in S : Awaits(s, O, e, x)
    BY <1>0 DEF RecvSync
  <2>2. QED
    BY <1>0, <1>2, <1>4, <2>1, StoreMatched
<1>10. A \in SUBSET P /\ C \in SUBSET P /\ A \cap C = {}
  <2>1. \A x \in C : ~Seen(s, x.hdr)
    BY <1>1, <1>5, <1>6 DEF Slots, Seen
  <2>2. QED
    BY <2>1 DEF Passed, Slots
<1> HIDE DEF A, C
<1>11. /\ Cardinality(A) \in Nat /\ Cardinality(C) \in Nat /\ Cardinality(P) \in Nat
       /\ Cardinality(A) + Cardinality(C) <= Cardinality(P)
  <2>1. {} \in SUBSET P /\ A \cap {} = {} /\ C \cap {} = {}
    OBVIOUS
  <2>2. /\ Cardinality(A) \in Nat /\ Cardinality(C) \in Nat /\ Cardinality(P) \in Nat
        /\ Cardinality(A) + Cardinality(C) + Cardinality({}) <= Cardinality(P)
    BY <1>4, <1>10, <2>1, CountThree
  <2>3. QED
    BY <2>2, FS_EmptySet
<1>12. Cardinality(s.skipped) \in Nat
  BY <1>9, FS_CardinalityType
<1>13. Cardinality(s.skipped) + n + 1 <= Cardinality(P)
  BY <1>1, <1>8, <1>9, <1>11, <1>12
<1>14. QED
  BY <1>4, <1>9, <1>11, <1>12, <1>13 DEF s, P, n

(* A position within the bounds is reached by skip_message_keys.           *)
LEMMA SkipOk ==
    ASSUME NEW s \in Session, NEW u \in Nat, NEW c \in Nat, s.nr <= u,
           c = Cardinality(s.skipped), c + (u - s.nr) <= MaxSkip
    PROVE  SkipRc(s, u) = "ok"
  BY FieldTypes, RatchetAssumption DEF SkipRc

(* The message key at the position of the header is the one it was sealed  *)
(* under.                                                                  *)
LEMMA ReadyOpens ==
    ASSUME NEW r \in Session, NEW pkt \in Packet, NEW q, PacketInv(q, pkt), InStep(pkt),
           r.ckr.root = pkt.box.key.root, r.ckr.i = pkt.hdr.n
    PROVE  Opens(r.ckr, pkt)
<1>1. r.ckr \in ChainKey /\ pkt.box.key \in ChainKey
  BY FieldTypes, PacketTypes
<1>2. r.ckr = pkt.box.key
  BY <1>1, ChainPair DEF InStep
<1>3. QED
  BY <1>2 DEF Opens, PacketInv

LEMMA SeenDecrypts ==
    ASSUME SyncInv, NEW p \in Party, NEW pkt \in Pending(p), InStep(pkt),
           Seen(sess[p], pkt.hdr)
    PROVE  DecryptRc(sess[p], pkt) = "ok"
<1>1. /\ pkt \in sent[Peer(p)] /\ pkt.box.pt \notin opened[p]
      /\ RecvSync(Peer(p), sess[p], sent[Peer(p)], opened[p])
      /\ SendSync(Peer(p), sess[Peer(p)], sent[Peer(p)])
  BY PartyFacts DEF Pending
<1>2. PICK e \in sess[p].skipped :
         e.dh = pkt.hdr.dh /\ e.n = pkt.hdr.n /\ e.mk = pkt.box.key
  BY <1>1 DEF RecvSync, Stored
<1>3. PacketInv(Peer(p), pkt)
  BY <1>1 DEF SendSync
<1>4. e \in SkippedFind(sess[p], pkt.hdr) /\ Opens(e.mk, pkt) /\ TypeOf(pkt.hdr)
  BY <1>2, <1>3 DEF SkippedFind, Opens, PacketInv
<1>5. QED
  BY <1>4 DEF DecryptRc

(* No entry of the store is for a message that has not been seen.          *)
LEMMA UnseenNotFound ==
    ASSUME NEW q, NEW s, NEW S, NEW O, NEW h, RecvSync(q, s, S, O), ~Seen(s, h)
    PROVE  SkippedFind(s, h) = {}
  BY DEF RecvSync, SkippedFind, Awaits, Seen

LEMMA CurrentDecrypts ==
    ASSUME SyncInv, NEW p \in Party, NEW pkt \in Pending(p), InStep(pkt),
           Cardinality(Pending(p)) <= MaxSkip + 1, ~Seen(sess[p], pkt.hdr),
           pkt.hdr.dh = sess[p].dhr, sess[p].ckr # NoChain, sess[p].nr <= pkt.hdr.n
    PROVE  DecryptRc(sess[p], pkt) = "ok"
<1> DEFINE s == sess[p]
           q == Peer(p)
           h == pkt.hdr
           r == SkipTo(s, h.n)
<1>0. /\ pkt \in sent[q] /\ q \in Party /\ s \in Session /\ pkt \in Packet
      /\ SessionInv(p, s) /\ SendSync(q, sess[q], sent[q])
      /\ RecvSync(q, s, sent[q], opened[p])
  BY PartyFacts DEF Pending
<1>1. /\ h.n \in Nat /\ s.nr \in Nat /\ PacketInv(q, pkt) /\ TypeOf(h)
      /\ pkt.box.key.root = s.ckr.root /\ s.nr = s.ckr.i
      /\ s.ckr.root # <<>> /\ s.ckr \in ChainKey
  BY <1>0, PacketTypes, FieldTypes DEF SendSync, PacketInv, RecvSync, SessionInv
<1>2. /\ Cardinality(s.skipped) \in Nat /\ Cardinality(Pending(p)) \in Nat
      /\ Cardinality(s.skipped) + (h.n - s.nr) + 1 <= Cardinality(Pending(p))
  BY <1>0, RoomCurrent
<1>3. SkipRc(s, h.n) = "ok"
  <2>1. Cardinality(s.skipped) + (h.n - s.nr) <= MaxSkip
    BY <1>1, <1>2, RatchetAssumption
  <2>2. QED
    BY <1>0, <1>1, <1>2, <2>1, SkipOk
<1>4. /\ r \in Session
      /\ r.ckr.root = s.ckr.root /\ r.ckr.i = s.ckr.i + (h.n - s.nr)
  <2>1. SessionInv(p, r)
    BY <1>0, <1>1, <1>3, SkipToInv
  <2>2. QED
    BY <1>0, <1>1, <1>3, <2>1, SkipFields DEF SessionInv
<1> HIDE DEF r
<1>5. r.ckr.i = h.n /\ r.ckr # NoChain
  BY <1>1, <1>4, ChainPair
<1>6. Opens(r.ckr, pkt)
  BY <1>0, <1>1, <1>4, <1>5, ReadyOpens
<1>7. ~NewKey(s, h) /\ Stepped(s, h) = s /\ Ready(s, h) = r
  BY DEF NewKey, Stepped, Ready, r
<1>8. SkippedFind(s, h) = {}
  BY <1>0, UnseenNotFound
<1> HIDE DEF s, h
<1>9. DecryptRc(s, pkt) = "ok"
  BY <1>1, <1>3, <1>5, <1>6, <1>7, <1>8 DEF DecryptRc, h
<1>10. QED
  BY <1>9 DEF s

(* The copy after skipping to pn still derives the leader's root.          *)
LEMMA RootAfterSkip ==
    ASSUME NEW s, NEW w, NEW h, SameSending(s, w)
    PROVE  RecvRoot(w, h) = RecvRoot(s, h) /\ KssRecv(w, h) = KssRecv(s, h)
           /\ KemR(w, h) = KemR(s, h)
  BY DEF SameSending, SameKem, RecvRoot, KssRecv, KemR

(* Every packet of the present sending chain hangs from the present root.  *)
LEMMA SealedUnderRoot ==
    ASSUME NEW q \in Party, NEW t, NEW S \in SUBSET Packet, NEW n, SessionInv(q, t),
           SendSync(q, t, S), SentGood(q, S, t.cks, n), NEW pkt \in S,
           pkt.hdr.dh[2] = t.dhs[2]
    PROVE  pkt.box.key.root = t.rk
<1>1. Len(pkt.box.key.root) = Len(t.rk) /\ Behind(t.cks, pkt.box.key) /\ t.cks.root = t.rk
  BY DEF SendSync, PacketInv, SentGood, SessionInv
<1>2. QED
  BY <1>1 DEF Behind

(* The KEM ratchet of one step of s on header h, which gives d.            *)
KemStepped(s, h, d) ==
    /\ d.kem_r = KemR(s, h) /\ d.kss_recv = KssRecv(s, h)
    /\ ~PQ => d.kss_send = s.kss_send
    /\ PQ => /\ d.send_steps = s.send_steps + 1
             /\ d.kem = IF Rotate(s) THEN NextKey(s.kem) ELSE s.kem
             /\ d.send_full = IF Rotate(s) \/ s.advertised = 0 THEN 1 ELSE 0
             /\ d.advertised = 1
             /\ IF d.send_full = 1 /\ d.kem_r # NoKey
                THEN /\ d.pend_ct = [to |-> d.kem_r, id |-> <<s.dhs[1], s.send_steps + 1>>]
                     /\ d.kss_send = Decaps(d.pend_ct, d.kem_r)
                ELSE d.pend_ct = NoCt /\ d.kss_send = s.kss_send

LEMMA KemStepFields ==
    ASSUME NEW s \in Session, NEW r \in Session, NEW d, NEW h, SameKem(Cadence(r), d),
           r.kem = s.kem, r.pend_ct = s.pend_ct, r.kss_send = s.kss_send,
           r.send_full = s.send_full, r.advertised = s.advertised,
           r.send_steps = s.send_steps, r.dhs = s.dhs,
           r.kem_r = KemR(s, h), r.kss_recv = KssRecv(s, h)
    PROVE  KemStepped(s, h, d)
<1>0. s.advertised \in {0, 1}
  BY FieldTypes
<1>1. CASE ~PQ
  BY <1>1 DEF Cadence, SameKem, KemStepped
<1>2. CASE PQ
  <2>0. Rotate(r) <=> Rotate(s)
    BY DEF Rotate
  <2>1. Cadence(r) = KemStep(r)
    BY <1>2 DEF Cadence
  <2>2. /\ KemStep(r).send_steps = s.send_steps + 1
        /\ KemStep(r).kem = KemKey(r) /\ KemStep(r).send_full = SendFull(r)
        /\ KemStep(r).advertised = Advertised(r) /\ KemStep(r).pend_ct = PendCt(r)
        /\ KemStep(r).kss_send = KssSend(r)
        /\ KemStep(r).kem_r = r.kem_r /\ KemStep(r).kss_recv = r.kss_recv
    BY DEF KemStep, Session
  <2>3. /\ KemKey(r) = IF Rotate(s) THEN NextKey(s.kem) ELSE s.kem
        /\ SendFull(r) = IF Rotate(s) \/ s.advertised = 0 THEN 1 ELSE 0
    BY <2>0 DEF KemKey, SendFull
  <2>4. Advertised(r) = 1
    BY <1>0, <2>3 DEF Advertised
  <2>5. IF SendFull(r) = 1 /\ r.kem_r # NoKey
        THEN /\ PendCt(r) = [to |-> r.kem_r, id |-> <<s.dhs[1], s.send_steps + 1>>]
             /\ KssSend(r) = Decaps(PendCt(r), r.kem_r)
        ELSE PendCt(r) = NoCt /\ KssSend(r) = s.kss_send
    BY DEF PendCt, KssSend, Encapsulate, EncapsCt
  <2>6. QED
    BY <1>2, <2>1, <2>2, <2>3, <2>4, <2>5 DEF SameKem, KemStepped
<1>3. QED
  BY <1>1, <1>2, RatchetAssumption

(* The working copy after the ratchet step, field by field.                *)
LEMMA StepAfterSkip ==
    ASSUME NEW p \in Party, NEW s, SessionInv(p, s), NEW h \in Header,
           SkipRc(s, h.pn) = "ok"
    PROVE  LET w == SkipTo(s, h.pn)
               d == DHRatchet(w, h)
           IN  /\ SessionInv(p, w) /\ SessionInv(p, d)
               /\ d.dhs = NextKey(s.dhs) /\ d.dhr = h.dh
               /\ d.ns = 0 /\ d.nr = 0 /\ d.pn = s.ns
               /\ d.ckr.root = RecvRoot(s, h) /\ d.ckr.i = 0 /\ d.ckr # NoChain
               /\ d.rk = KdfRk(RecvRoot(s, h), DH(NextKey(s.dhs), h.dh), d.kss_send)
               /\ d.cks.root = d.rk /\ d.cks.i = 0
               /\ d.skipped = w.skipped
               /\ KemStepped(s, h, d)
<1> DEFINE w == SkipTo(s, h.pn)
           d == DHRatchet(w, h)
           r == RecvHalf(w, h)
<1>0. h.pn \in Nat /\ s \in Session
  BY DEF Header, SessionInv
<1>1. SessionInv(p, w) /\ SameSending(s, w) /\ w \in Session
  <2>1. SessionInv(p, w)
    BY <1>0, SkipToInv
  <2>2. SameSending(s, w)
    BY <1>0, SkipFields
  <2>3. QED
    BY <2>1, <2>2 DEF SessionInv
<1>2. /\ RecvRoot(w, h) = RecvRoot(s, h) /\ KssRecv(w, h) = KssRecv(s, h)
      /\ KemR(w, h) = KemR(s, h)
  BY <1>1, RootAfterSkip
<1> HIDE DEF w
<1>3. SessionInv(p, d) /\ d.ckr # NoChain
  BY <1>1, DHRatchetInv
<1>4. /\ r \in Session
      /\ d.dhs = NextKey(w.dhs) /\ d.dhr = h.dh
      /\ d.ns = 0 /\ d.nr = 0 /\ d.pn = w.ns
      /\ d.ckr = ChainOf(RecvRoot(w, h))
      /\ d.rk = KdfRk(RecvRoot(w, h), DH(NextKey(w.dhs), h.dh), Cadence(r).kss_send)
      /\ d.cks = ChainOf(d.rk)
      /\ d.skipped = w.skipped
      /\ SameKem(Cadence(r), d)
      /\ r.kem = w.kem /\ r.pend_ct = w.pend_ct /\ r.kss_send = w.kss_send
      /\ r.send_full = w.send_full /\ r.advertised = w.advertised
      /\ r.send_steps = w.send_steps
      /\ r.kem_r = KemR(w, h) /\ r.kss_recv = KssRecv(w, h) /\ r.dhs = w.dhs
  BY <1>1, StepFields
<1> HIDE DEF d, r
<1>5. /\ r.kem = s.kem /\ r.pend_ct = s.pend_ct /\ r.kss_send = s.kss_send
      /\ r.send_full = s.send_full /\ r.advertised = s.advertised
      /\ r.send_steps = s.send_steps /\ r.dhs = s.dhs /\ w.ns = s.ns /\ w.dhs = s.dhs
      /\ r.kem_r = KemR(s, h) /\ r.kss_recv = KssRecv(s, h)
  BY <1>1, <1>2, <1>4 DEF SameSending, SameKem
<1>6. KemStepped(s, h, d)
  BY <1>0, <1>4, <1>5, KemStepFields
<1>7. d.kss_send = Cadence(r).kss_send
  BY <1>4 DEF SameKem
<1>8. \A k : ChainOf(k).root = k /\ ChainOf(k).i = 0
  BY DEF ChainOf
<1>9. QED
  BY <1>1, <1>2, <1>3, <1>4, <1>5, <1>6, <1>7, <1>8 DEF w, d

(* A store that skipped to u has grown by at most the gap.                 *)
LEMMA SkipGrowth ==
    ASSUME NEW p \in Party, NEW s, SessionInv(p, s), NEW u \in Nat, SkipRc(s, u) = "ok"
    PROVE  /\ Cardinality(s.skipped) \in Nat /\ Cardinality(SkipTo(s, u).skipped) \in Nat
           /\ s.ckr = NoChain => Cardinality(SkipTo(s, u).skipped) = Cardinality(s.skipped)
           /\ s.ckr # NoChain => Cardinality(SkipTo(s, u).skipped)
                                   <= Cardinality(s.skipped) + (u - s.nr)
<1>0. s \in Session /\ s.nr \in Nat /\ IsFiniteSet(s.skipped)
  BY FieldTypes DEF SessionInv, StoreInv
<1>1. Cardinality(s.skipped) \in Nat
  BY <1>0, FS_CardinalityType
<1>2. CASE s.ckr = NoChain
  BY <1>1, <1>2 DEF SkipTo
<1>3. CASE s.ckr # NoChain
  <2>1. s.nr <= u /\ SkipTo(s, u).skipped = s.skipped \cup Stash(s, u)
    BY <1>3, SkipFields
  <2>2. IsFiniteSet(Stash(s, u)) /\ Cardinality(Stash(s, u)) <= u - s.nr
    BY <1>0, <2>1, StashFacts
  <2>3. /\ IsFiniteSet(s.skipped \cup Stash(s, u))
        /\ Cardinality(s.skipped \cup Stash(s, u)) =
             Cardinality(s.skipped) + Cardinality(Stash(s, u))
               - Cardinality(s.skipped \cap Stash(s, u))
    BY <1>0, <2>2, FS_Union
  <2>4. /\ Cardinality(Stash(s, u)) \in Nat
        /\ Cardinality(s.skipped \cap Stash(s, u)) \in Nat
        /\ Cardinality(s.skipped \cup Stash(s, u)) \in Nat
    BY <1>0, <2>2, <2>3, FS_CardinalityType, FS_Intersection
  <2>5. QED
    BY <1>0, <1>1, <1>3, <2>1, <2>2, <2>3, <2>4
<1>4. QED
  BY <1>2, <1>3

LEMMA NextDecrypts ==
    ASSUME SyncInv, NEW p \in Party, NEW pkt \in Pending(p), InStep(pkt),
           Cardinality(Pending(p)) <= MaxSkip + 1, ~Seen(sess[p], pkt.hdr),
           Leads(Peer(p), sess[Peer(p)], sess[p]), pkt.hdr.dh = sess[Peer(p)].dhs,
           NewKey(sess[p], pkt.hdr)
    PROVE  DecryptRc(sess[p], pkt) = "ok"
<1> DEFINE s == sess[p]
           q == Peer(p)
           t == sess[q]
           h == pkt.hdr
           w == SkipTo(s, h.pn)
           d == DHRatchet(w, h)
           r == SkipTo(d, h.n)
<1>0. /\ pkt \in sent[q] /\ q \in Party /\ s \in Session /\ t \in Session /\ pkt \in Packet
      /\ h \in Header /\ SessionInv(p, s) /\ SessionInv(q, t) /\ SendSync(q, t, sent[q])
      /\ SentGood(q, sent[q], t.cks, nsent[q]) /\ sent[q] \in SUBSET Packet
      /\ RecvSync(q, s, sent[q], opened[p])
      /\ ~Seen(s, h) /\ Leads(q, t, s) /\ h.dh = t.dhs /\ NewKey(s, h)
  BY PartyFacts, PacketTypes DEF Pending
<1>1. /\ h.n \in Nat /\ h.pn \in Nat /\ s.nr \in Nat /\ PacketInv(q, pkt) /\ TypeOf(h)
      /\ HeaderOf(t, h)
  BY <1>0, PacketTypes, FieldTypes DEF SendSync, PacketInv
<1>2. /\ Cardinality(s.skipped) \in Nat /\ Cardinality(Pending(p)) \in Nat
      /\ Cardinality(s.skipped) + h.n + 1 <= Cardinality(Pending(p))
  BY <1>0, RoomFirst DEF NewKey
<1>3. s.ckr # NoChain =>
         /\ s.nr <= h.pn
         /\ Cardinality(s.skipped) + (h.pn - s.nr) + h.n + 1 <= Cardinality(Pending(p))
  BY <1>0, RoomNext
<1> HIDE DEF s, q, t, h
<1>4. SkipRc(s, h.pn) = "ok"
  <2>1. CASE s.ckr = NoChain
    BY <2>1 DEF SkipRc
  <2>2. CASE s.ckr # NoChain
    <3>1. Cardinality(s.skipped) + (h.pn - s.nr) <= MaxSkip
      BY <1>1, <1>2, <1>3, <2>2, RatchetAssumption
    <3>2. QED
      BY <1>0, <1>1, <1>2, <1>3, <2>2, <3>1, SkipOk
  <2>3. QED
    BY <2>1, <2>2
<1>5. /\ SessionInv(p, w) /\ SessionInv(p, d)
      /\ d.nr = 0 /\ d.ckr.root = RecvRoot(s, h) /\ d.ckr.i = 0 /\ d.ckr # NoChain
      /\ d.skipped = w.skipped
  BY <1>0, <1>4, StepAfterSkip
<1>6. Cardinality(w.skipped) \in Nat /\ Cardinality(w.skipped) + h.n <= MaxSkip
  <2>1. /\ Cardinality(w.skipped) \in Nat
        /\ s.ckr = NoChain => Cardinality(w.skipped) = Cardinality(s.skipped)
        /\ s.ckr # NoChain =>
              Cardinality(w.skipped) <= Cardinality(s.skipped) + (h.pn - s.nr)
    BY <1>0, <1>1, <1>4, SkipGrowth
  <2> HIDE DEF w
  <2>2. CASE s.ckr = NoChain
    BY <1>1, <1>2, <2>1, <2>2, RatchetAssumption
  <2>3. CASE s.ckr # NoChain
    BY <1>1, <1>2, <1>3, <2>1, <2>3, RatchetAssumption
  <2>4. QED
    BY <2>1, <2>2, <2>3
<1> HIDE DEF w
<1>7. d \in Session
  BY <1>5 DEF SessionInv
<1> HIDE DEF d
<1>8. SkipRc(d, h.n) = "ok"
  <2>1. d.nr <= h.n /\ Cardinality(d.skipped) + (h.n - d.nr) <= MaxSkip
    BY <1>1, <1>5, <1>6
  <2>2. QED
    BY <1>1, <1>5, <1>6, <1>7, <2>1, SkipOk
<1>9. /\ r \in Session /\ r.ckr.root = d.ckr.root /\ r.ckr.i = d.ckr.i + (h.n - d.nr)
      /\ r.ckr # NoChain
  <2>1. SessionInv(p, r) /\ (r.ckr = NoChain <=> d.ckr = NoChain)
    BY <1>1, <1>5, <1>8, SkipToInv
  <2>2. QED
    BY <1>1, <1>5, <1>8, <2>1, SkipFields DEF SessionInv
<1> HIDE DEF r
<1>10. r.ckr.root = pkt.box.key.root /\ r.ckr.i = h.n
  <2>1. RecvRoot(s, h) = t.rk
    BY <1>0, <1>1, KemDerived
  <2>2. pkt.box.key.root = t.rk
    BY <1>0, <1>1, SealedUnderRoot DEF h
  <2>3. QED
    BY <1>1, <1>5, <1>9, <2>1, <2>2
<1>11. Opens(r.ckr, pkt)
  BY <1>0, <1>1, <1>9, <1>10, ReadyOpens DEF h
<1>12. Stepped(s, h) = d /\ Ready(s, h) = r
  BY <1>0 DEF Stepped, Ready, r, d, w
<1>13. SkippedFind(s, h) = {}
  BY <1>0, UnseenNotFound
<1>14. DecryptRc(s, pkt) = "ok"
  BY <1>0, <1>1, <1>4, <1>8, <1>9, <1>11, <1>12, <1>13 DEF DecryptRc, h
<1>15. QED
  BY <1>14 DEF s

LEMMA SyncDecryptable == SyncInv => Decryptable
<1> SUFFICES ASSUME SyncInv, NEW p \in Party, NEW pkt \in Pending(p), InStep(pkt),
                    Cardinality(Pending(p)) <= MaxSkip + 1
             PROVE  DecryptRc(sess[p], pkt) = "ok"
  BY DEF Decryptable
<1>1. pkt \in sent[Peer(p)]
  BY DEF Pending
<1>2. QED
  BY <1>1, Where, SeenDecrypts, CurrentDecrypts, NextDecrypts

(***************************************************************************)
(* The invariant holds at the start, and each action keeps it.             *)
(***************************************************************************)
LEMMA SyncFrom ==
    ASSUME NEW p \in Party, IndInv', PartySync(p)', PartySync(Peer(p))',
           \/ Leads(p, sess[p], sess[Peer(p)])'
           \/ Leads(Peer(p), sess[Peer(p)], sess[p])'
    PROVE  SyncInv'
<1>1. Party = {p, Peer(p)} /\ Peer(p) \in Party /\ Peer(Peer(p)) = p
  BY DEF Party, Peer
<1>2. \A q \in Party : PartySync(q)'
  BY <1>1
<1>3. \E l \in Party : Leads(l, sess[l], sess[Peer(l)])'
  BY <1>1
<1>4. QED
  BY <1>2, <1>3 DEF SyncInv, Synced

LEMMA InitSync == Init => SyncInv
<1> SUFFICES ASSUME Init
             PROVE  SyncInv
  OBVIOUS
<1> DEFINE i == InitInitiator
           r == InitResponder
<1>0. /\ sess["I"] = i /\ sess["R"] = r
      /\ \A p \in Party : sent[p] = {} /\ opened[p] = {}
      /\ Party = {"I", "R"} /\ Peer("I") = "R" /\ Peer("R") = "I"
  BY DEF Init, Party, Peer
<1>1. r = Blank("R")
  BY DEF InitResponder
<1>2. /\ r.rk = <<>> /\ r.dhs = <<"R", 0>> /\ r.dhr = NoKey /\ r.cks = NoChain
      /\ r.ckr = NoChain /\ r.ns = 0 /\ r.nr = 0 /\ r.pn = 0 /\ r.skipped = {}
      /\ r.kss_send = NoSS /\ r.kss_recv = NoSS /\ r.advertised = 0
      /\ PQ => r.kem = <<"R", 0>>
  BY <1>1 DEF Blank
<1>3. /\ i.rk = KdfRk(<<>>, DH(<<"I", 0>>, <<"R", 0>>), NoSS)
      /\ i.dhs = <<"I", 0>> /\ i.dhr = <<"R", 0>> /\ i.cks = ChainOf(i.rk)
      /\ i.ckr = NoChain /\ i.ns = 0 /\ i.nr = 0 /\ i.pn = 0 /\ i.skipped = {}
      /\ i.kss_send = NoSS /\ i.kss_recv = NoSS /\ i.pend_ct = NoCt
      /\ PQ => i.kem = <<"I", 0>> /\ i.advertised = 1 /\ i.send_full = 1
  BY DEF InitInitiator, Blank
<1>4. NoChain.i = 0 /\ ChainOf(i.rk).i = 0
  BY DEF NoChain, ChainOf
<1>5. Len(i.rk) = 1 /\ Len(r.rk) = 0 /\ Side("I") = 1 /\ Side("R") = 0
  BY <1>2, <1>3 DEF KdfRk, Side
<1> HIDE DEF i, r
<1>6. SendSync("I", i, {}) /\ SendSync("R", r, {})
  <2>1. 0 .. (0 - 1) = {}
    OBVIOUS
  <2>2. /\ i.dhs[1] = "I" /\ i.dhs[2] = 0 /\ r.dhs[1] = "R" /\ r.dhs[2] = 0
        /\ Len(i.rk) = 2 * i.dhs[2] + Side("I") /\ Len(r.rk) = 2 * r.dhs[2] + Side("R")
    <3>1. i.dhs[1] = "I" /\ i.dhs[2] = 0
      BY <1>3
    <3>2. r.dhs[1] = "R" /\ r.dhs[2] = 0
      BY <1>2
    <3> HIDE <1>2, <1>3
    <3>3. QED
      BY <1>5, <3>1, <3>2
  <2>3. SendSync("I", i, {})
    BY <1>3, <1>4, <2>1, <2>2 DEF SendSync
  <2>4. SendSync("R", r, {})
    BY <1>2, <1>4, <2>1, <2>2 DEF SendSync
  <2>5. QED
    BY <2>3, <2>4
<1>7. RecvSync("R", i, {}, {}) /\ RecvSync("I", r, {}, {})
  BY <1>2, <1>3, <1>4 DEF RecvSync
<1>8. Leads("I", i, r)
  <2>1. NoKem(i) /\ NoKem(r)
    BY <1>2, <1>3 DEF NoKem
  <2>2. PQ => KemSync("I", i, r)
    BY <1>0, <1>2, <1>3 DEF KemSync
  <2>3. QED
    BY <1>2, <1>3, <1>5, <2>1, <2>2 DEF Leads
<1>9. \A p \in Party : PartySync(p)
  BY <1>0, <1>6, <1>7 DEF PartySync
<1>10. \E l \in Party : Leads(l, sess[l], sess[Peer(l)])
  BY <1>0, <1>8
<1>11. QED
  BY <1>9, <1>10, InitInv DEF SyncInv, Synced

(* t differs from s in nothing the peer could notice but messages sent.    *)
Steady(s, t) ==
    /\ t.rk = s.rk /\ t.dhs = s.dhs /\ t.dhr = s.dhr /\ t.ckr = s.ckr
    /\ t.nr = s.nr /\ t.pn = s.pn /\ t.ns >= s.ns
    /\ PQ => SameKem(s, t)
    /\ ~PQ => (NoKem(s) => NoKem(t))

LEMMA LeadsSteady ==
    ASSUME NEW l \in Party, NEW L \in Session, NEW F \in Session, NEW M \in Session,
           NEW G \in Session, Leads(l, L, F), Steady(L, M), Steady(F, G)
    PROVE  Leads(l, M, G)
<1>1. M.nr <= G.ns
  <2>1. L.nr <= F.ns /\ G.ns >= F.ns /\ M.nr = L.nr
    BY DEF Leads, Steady
  <2>2. QED
    BY <2>1, FieldTypes
<1>2. IF PQ THEN KemSync(l, M, G) ELSE NoKem(M) /\ NoKem(G)
  <2>1. CASE PQ
    BY <2>1 DEF Leads, Steady, SameKem, KemSync
  <2>2. CASE ~PQ
    BY <2>2 DEF Leads, Steady
  <2>3. QED
    BY <2>1, <2>2
<1>3. M.kss_send = L.kss_send
  BY <1>2 DEF Leads, Steady, SameKem, NoKem
<1>4. QED
  BY <1>1, <1>2, <1>3 DEF Leads, Steady

LEMMA SteadySame ==
    ASSUME NEW s \in Session
    PROVE  Steady(s, s)
  BY FieldTypes DEF Steady, SameKem

(* The sending side of a session that has sent nothing more.               *)
LEMMA SendSteady ==
    ASSUME NEW p \in Party, NEW s \in Session, NEW t \in Session, NEW S, SendSync(p, s, S),
           Steady(s, t), t.ns = s.ns, t.cks.i >= s.cks.i
    PROVE  SendSync(p, t, S)
<1>1. t.ns <= t.cks.i
  <2>1. s.ns \in Nat /\ s.cks.i \in Nat /\ t.cks.i \in Nat /\ s.ns <= s.cks.i
    BY FieldTypes, ChainPair DEF SendSync
  <2>2. QED
    BY <2>1
<1>2. \A h : HeaderOf(s, h) => HeaderOf(t, h)
  BY DEF HeaderOf, Steady, SameKem
<1>3. t.dhs = s.dhs /\ t.rk = s.rk /\ t.pn = s.pn
  BY DEF Steady
<1>4. QED
  BY <1>1, <1>2, <1>3 DEF SendSync

(* The receiving side does not depend on what the session sends.           *)
LEMMA RecvSteady ==
    ASSUME NEW q, NEW s, NEW t, NEW S, NEW O, RecvSync(q, s, S, O),
           t.dhr = s.dhr, t.nr = s.nr, t.ckr = s.ckr, t.skipped = s.skipped
    PROVE  RecvSync(q, t, S, O)
<1>1. \A h : Seen(t, h) <=> Seen(s, h)
  BY DEF Seen
<1>2. \A x : Stored(s, x) => Stored(t, x)
  BY DEF Stored
<1>3. \A e, x : Awaits(s, O, e, x) => Awaits(t, O, e, x)
  BY <1>1 DEF Awaits
<1>4. QED
  BY <1>1, <1>2, <1>3 DEF RecvSync

(***************************************************************************)
(* Encrypt, EncryptFails and Reload.                                       *)
(***************************************************************************)
LEMMA BurnedSteady ==
    ASSUME NEW s \in Session
    PROVE  /\ Burned(s) \in Session /\ Steady(s, Burned(s)) /\ Burned(s).ns = s.ns
           /\ Burned(s).cks.i = s.cks.i + 1 /\ Burned(s).skipped = s.skipped
           /\ Counted(Burned(s)) \in Session /\ Steady(s, Counted(Burned(s)))
           /\ Counted(Burned(s)).ns = s.ns + 1 /\ Counted(Burned(s)).cks.i = s.cks.i + 1
           /\ Counted(Burned(s)).skipped = s.skipped
<1>0. s.ns \in Nat /\ s.cks \in ChainKey
  BY FieldTypes
<1>1. /\ Burned(s) \in Session /\ Burned(s).cks = Advance(s.cks, 1)
      /\ Burned(s).rk = s.rk /\ Burned(s).ckr = s.ckr
      /\ Burned(s).skipped = s.skipped /\ Burned(s).ns = s.ns
  BY BurnedFacts
<1>2. /\ Burned(s).dhs = s.dhs /\ Burned(s).dhr = s.dhr /\ Burned(s).nr = s.nr
      /\ Burned(s).pn = s.pn /\ SameKem(s, Burned(s))
  BY DEF Burned, Session, SameKem
<1> DEFINE b == Burned(s)
<1> HIDE DEF b
<1>3. /\ Counted(b) \in Session /\ Counted(b).cks = b.cks /\ Counted(b).rk = b.rk
      /\ Counted(b).ckr = b.ckr /\ Counted(b).skipped = b.skipped
  BY <1>1, CountedFacts DEF b
<1>4. /\ Counted(b).dhs = b.dhs /\ Counted(b).dhr = b.dhr /\ Counted(b).nr = b.nr
      /\ Counted(b).pn = b.pn /\ SameKem(b, Counted(b)) /\ Counted(b).ns = b.ns + 1
  BY <1>1 DEF Counted, Session, SameKem, b
<1>5. Advance(s.cks, 1).i = s.cks.i + 1
  BY <1>0, AdvanceType
<1>6. b = Burned(s) /\ s.ns >= s.ns /\ s.ns + 1 >= s.ns
  BY <1>0 DEF b
<1>7. Steady(s, b)
  BY <1>1, <1>2, <1>6 DEF Steady, SameKem, NoKem
<1>8. Steady(s, Counted(b))
  BY <1>1, <1>2, <1>3, <1>4, <1>6 DEF Steady, SameKem, NoKem
<1>9. QED
  BY <1>1, <1>3, <1>4, <1>5, <1>6, <1>7, <1>8

(* The next message counts on where the chain stands.                      *)
LEMMA SendNext ==
    ASSUME NEW p \in Party, NEW s, NEW S \in SUBSET Packet, NEW n, SessionInv(p, s),
           SendSync(p, s, S), SentGood(p, S, s.cks, n), s.cks # NoChain,
           NEW t \in Session, Steady(s, t), t.ns = s.ns + 1, t.cks.i = s.cks.i + 1,
           NEW new \in Packet, new.hdr = HdrBuild(s), new.box.key = s.cks,
           new.box.n = s.ns, new.box.aad = HdrBuild(s)
    PROVE  SendSync(p, t, S \cup {new})
<1> DEFINE h == new.hdr
           k == s.dhs[2]
<1>0. /\ s \in Session /\ s.ns \in Nat /\ s.pn \in Nat /\ s.cks.i \in Nat /\ t.cks.i \in Nat
      /\ s.dhs \in Key /\ k \in Nat /\ s.cks \in ChainKey
      /\ \A pkt \in S : pkt.hdr.n \in Nat /\ pkt.hdr.dh[2] \in Nat
  BY FieldTypes, ChainPair, KeyPair, PacketTypes DEF SessionInv
<1>1. /\ h.dh = s.dhs /\ h.pn = s.pn /\ h.n = s.ns /\ TypeOf(h) /\ HeaderOf(s, h)
  <2>1. s.send_full \in {0, 1} /\ PQ \in BOOLEAN
    BY <1>0, FieldTypes, RatchetAssumption
  <2>2. QED
    BY <2>1 DEF HdrBuild, TypeOf, HeaderOf
<1>2. /\ t.dhs = s.dhs /\ t.rk = s.rk /\ t.pn = s.pn
      /\ \A x : HeaderOf(s, x) => HeaderOf(t, x)
  BY DEF Steady, SameKem, HeaderOf
<1>3. s.dhs[1] = p /\ Len(s.rk) = 2 * k + Side(p) /\ s.cks.root = s.rk /\ s.ns <= s.cks.i
  BY DEF SendSync, SessionInv
<1>4. PacketInv(p, new)
  BY <1>1, <1>3 DEF PacketInv
<1>5. \A pkt \in S : /\ PacketInv(p, pkt) /\ pkt.hdr.dh[2] <= k
                     /\ pkt.hdr.dh[2] = k => HeaderOf(s, pkt.hdr) /\ pkt.hdr.n < s.ns
                     /\ pkt.hdr.dh[2] + 1 = k => pkt.hdr.n < s.pn
                     /\ pkt.hdr.dh[2] = k => pkt.box.key.root = s.rk
  BY SealedUnderRoot DEF SendSync
<1> HIDE DEF h, k
<1>6. h.dh[2] = k /\ new.hdr = h /\ t.dhs[2] = k /\ t.dhs[1] = p
  BY <1>1, <1>2, <1>3 DEF h, k
<1>7. \A pkt \in S \cup {new} :
         /\ PacketInv(p, pkt) /\ pkt.hdr.dh[2] <= t.dhs[2]
         /\ pkt.hdr.dh[2] = t.dhs[2] => HeaderOf(t, pkt.hdr) /\ pkt.hdr.n < t.ns
         /\ pkt.hdr.dh[2] + 1 = t.dhs[2] => pkt.hdr.n < t.pn
  <2>1. ASSUME NEW pkt \in S
        PROVE  /\ PacketInv(p, pkt) /\ pkt.hdr.dh[2] <= t.dhs[2]
               /\ pkt.hdr.dh[2] = t.dhs[2] => HeaderOf(t, pkt.hdr) /\ pkt.hdr.n < t.ns
               /\ pkt.hdr.dh[2] + 1 = t.dhs[2] => pkt.hdr.n < t.pn
    BY <1>0, <1>2, <1>5, <1>6
  <2>2. /\ PacketInv(p, new) /\ new.hdr.dh[2] <= t.dhs[2]
        /\ HeaderOf(t, new.hdr) /\ new.hdr.n < t.ns
        /\ new.hdr.dh[2] + 1 # t.dhs[2]
    BY <1>0, <1>1, <1>2, <1>4, <1>6
  <2>3. QED
    BY <2>1, <2>2
<1>8. \A n1 \in 0 .. (t.ns - 1) : Counter(S \cup {new}, t.dhs[2], n1)
  <2> SUFFICES ASSUME NEW n1 \in 0 .. (t.ns - 1)
               PROVE  Counter(S \cup {new}, t.dhs[2], n1)
    OBVIOUS
  <2>1. CASE n1 = s.ns
    BY <1>1, <1>6, <2>1 DEF Counter, h
  <2>2. CASE n1 # s.ns
    <3>1. n1 \in 0 .. (s.ns - 1)
      BY <1>0, <2>2
    <3>2. Counter(S, s.dhs[2], n1)
      BY <3>1 DEF SendSync
    <3>3. QED
      BY <1>2, <3>2 DEF Counter
  <2>3. QED
    BY <2>1, <2>2
<1>9. \A n1 \in 0 .. (t.pn - 1) : Counter(S \cup {new}, t.dhs[2] - 1, n1)
  BY <1>2 DEF SendSync, Counter
<1>10. \A a, b \in S \cup {new} : a.hdr.dh[2] = b.hdr.dh[2] =>
          a.box.key.root = b.box.key.root /\ (a.hdr.n = b.hdr.n => a = b)
  <2>1. \A a \in S : a.hdr.dh[2] = k => a.box.key.root = new.box.key.root /\ a.hdr.n # h.n
    BY <1>0, <1>1, <1>3, <1>5 DEF h
  <2>2. \A a, b \in S : a.hdr.dh[2] = b.hdr.dh[2] =>
          a.box.key.root = b.box.key.root /\ (a.hdr.n = b.hdr.n => a = b)
    BY DEF SendSync
  <2>3. QED
    BY <1>6, <2>1, <2>2
<1>11. t.ns <= t.cks.i
  BY <1>0, <1>3
<1>12. Len(t.rk) = 2 * t.dhs[2] + Side(p)
  BY <1>2, <1>3, <1>6
<1>13. QED
  BY <1>6, <1>7, <1>8, <1>9, <1>10, <1>11, <1>12 DEF SendSync

(* The peer has not passed the position of the next message, and if it is  *)
(* on that chain already it has the root the message is sealed under.      *)
LEMMA NextUnseen ==
    ASSUME NEW p \in Party, NEW s \in Session, NEW t \in Session, NEW S, NEW O,
           SendSync(p, s, S), RecvSync(p, t, S, O),
           Leads(p, s, t) \/ Leads(Peer(p), t, s),
           NEW h, h.dh = s.dhs, h.n = s.ns
    PROVE  /\ ~Seen(t, h)
           /\ t.ckr # NoChain /\ h.dh = t.dhr => t.ckr.root = s.rk
<1>0. /\ s.dhs \in Key /\ s.dhs[2] \in Nat /\ s.ns \in Nat /\ t.nr \in Nat
      /\ t.dhr \in Key /\ t.dhr[2] \in Nat /\ s.dhs[1] = p /\ Peer(p) \in Party
  BY FieldTypes, KeyPair, PeerType DEF SendSync
<1>1. CASE Leads(Peer(p), t, s)
  BY <1>0, <1>1 DEF Leads, Seen
<1>2. CASE Leads(p, s, t)
  <2>1. /\ s.dhs[2] = 0 => t.dhr = NoKey
        /\ s.dhs[2] # 0 => t.dhr[2] + 1 = s.dhs[2]
        /\ t.dhr # s.dhs
    BY <1>0, <1>2, FollowerKey
  <2>2. s.dhs[2] = 0 => t.nr = 0
    BY <1>2, <2>1, NothingSeen
  <2>3. ~Seen(t, h)
    <3>1. CASE s.dhs[2] = 0
      <4>1. h.dh[2] = 0 /\ t.dhr[2] = 0 /\ t.nr = 0 /\ h.n \in Nat
        BY <1>0, <2>1, <2>2, <3>1, KeyPair
      <4>2. QED
        BY <4>1 DEF Seen
    <3>2. CASE s.dhs[2] # 0
      BY <1>0, <2>1, <3>2 DEF Seen
    <3>3. QED
      BY <3>1, <3>2
  <2>4. QED
    BY <2>1, <2>3
<1>3. QED
  BY <1>1, <1>2

LEMMA RecvNext ==
    ASSUME NEW q, NEW t, NEW S, NEW O, RecvSync(q, t, S, O), NEW new,
           ~Seen(t, new.hdr), new.box.pt \notin O,
           t.ckr # NoChain /\ new.hdr.dh = t.dhr => new.box.key.root = t.ckr.root
    PROVE  RecvSync(q, t, S \cup {new}, O)
  BY DEF RecvSync

LEMMA EncryptSync ==
    ASSUME SyncInv, NEW p \in Party, Encrypt(p)
    PROVE  SyncInv'
<1> DEFINE s == sess[p]
           q == Peer(p)
           t == Counted(Burned(s))
           new == [hdr |-> HdrBuild(s), box |-> Seal(s, NextPlain(p))]
<1>0. /\ q \in Party /\ q # p /\ Peer(q) = p
      /\ s \in Session /\ sess[q] \in Session /\ SessionInv(p, s)
      /\ sent[p] \in SUBSET Packet
      /\ SentGood(p, sent[p], s.cks, nsent[p])
      /\ SendSync(p, s, sent[p]) /\ SendSync(q, sess[q], sent[q])
      /\ RecvSync(q, s, sent[q], opened[p]) /\ RecvSync(p, sess[q], sent[p], opened[q])
      /\ Leads(p, s, sess[q]) \/ Leads(q, sess[q], s)
      /\ s.cks # NoChain
  BY PartyFacts DEF Encrypt
<1>1. IndInv /\ IndInv'
  BY EncryptInv DEF SyncInv
<1>2. /\ sess \in [Party -> Session] /\ sent \in [Party -> SUBSET Packet]
      /\ nsent \in [Party -> 0 .. MaxSent] /\ OpenedInv(q)
  BY <1>0, <1>1 DEF IndInv, TypeOK
<1>3. /\ sess' = [sess EXCEPT ![p] = t] /\ opened' = opened
      /\ sent' = [sent EXCEPT ![p] = sent[p] \cup {new}] /\ nsent[p] < MaxSent
  BY DEF Encrypt
<1>4. nsent[p] \in Nat /\ NextPlain(p) \in Plain
  BY <1>2, <1>3, RatchetAssumption DEF NextPlain, Plain
<1>5. /\ new \in Packet /\ new.hdr = HdrBuild(s) /\ new.box.key = s.cks
      /\ new.box.n = s.ns /\ new.box.aad = HdrBuild(s) /\ new.box.pt = NextPlain(p)
      /\ new.hdr.dh = s.dhs /\ new.hdr.n = s.ns
  BY <1>0, <1>4, SealType DEF Seal, HdrBuild
<1>6. /\ t \in Session /\ Steady(s, t) /\ t.ns = s.ns + 1 /\ t.cks.i = s.cks.i + 1
      /\ t.skipped = s.skipped
  BY <1>0, BurnedSteady
<1>7. new.box.pt \notin opened[q]
  <2>1. \A m \in opened[q] : \E pkt \in sent[p] : pkt.box.pt = m
    BY <1>0, <1>2 DEF OpenedInv
  <2>2. \A pkt \in sent[p] : pkt.box.pt.id <= nsent[p] /\ pkt.box.pt.id \in Nat
    <3>1. \A m \in Plain : m.id \in Nat
      BY RatchetAssumption DEF Plain
    <3>2. \A pkt \in sent[p] : pkt.box.pt \in Plain
      BY <1>0, PacketTypes
    <3>3. QED
      BY <1>0, <3>1, <3>2 DEF SentGood
  <2>3. new.box.pt.id = nsent[p] + 1
    BY <1>5 DEF NextPlain
  <2> HIDE DEF new
  <2>4. QED
    BY <1>4, <2>1, <2>2, <2>3
<1> HIDE DEF s, t, new, q
<1>8. /\ sess'[p] = t /\ sess'[q] = sess[q]
      /\ sent'[p] = sent[p] \cup {new} /\ sent'[q] = sent[q]
  BY <1>0, <1>2, <1>3
<1>9. SendSync(p, t, sent[p] \cup {new})
  BY <1>0, <1>5, <1>6, SendNext
<1>10. RecvSync(q, t, sent[q], opened[p])
  BY <1>0, <1>6, RecvSteady DEF Steady
<1>11. RecvSync(p, sess[q], sent[p] \cup {new}, opened[q])
  <2>1. /\ ~Seen(sess[q], new.hdr)
        /\ sess[q].ckr # NoChain /\ new.hdr.dh = sess[q].dhr => sess[q].ckr.root = s.rk
    BY <1>0, <1>5, NextUnseen DEF q
  <2>2. new.box.key.root = s.rk
    BY <1>0, <1>5 DEF SessionInv
  <2>3. QED
    BY <1>0, <1>7, <2>1, <2>2, RecvNext
<1>12. Leads(p, t, sess[q]) \/ Leads(q, sess[q], t)
  BY <1>0, <1>6, LeadsSteady, SteadySame
<1>13. PartySync(p)'
  BY <1>3, <1>8, <1>9, <1>10 DEF PartySync, q
<1>14. PartySync(q)'
  BY <1>0, <1>3, <1>8, <1>11 DEF PartySync
<1>15. QED
  BY <1>1, <1>8, <1>12, <1>13, <1>14, SyncFrom DEF q

(* An action that leaves the messages alone and the session steady.        *)
LEMMA SteadySync ==
    ASSUME SyncInv, IndInv', NEW p \in Party, NEW t \in Session,
           sess' = [sess EXCEPT ![p] = t], sent' = sent, opened' = opened,
           Steady(sess[p], t), t.ns = sess[p].ns, t.cks.i >= sess[p].cks.i,
           t.skipped = sess[p].skipped
    PROVE  SyncInv'
<1> DEFINE s == sess[p]
           q == Peer(p)
<1>0. /\ q \in Party /\ q # p /\ Peer(q) = p
      /\ s \in Session /\ sess[q] \in Session
      /\ SendSync(p, s, sent[p]) /\ SendSync(q, sess[q], sent[q])
      /\ RecvSync(q, s, sent[q], opened[p]) /\ RecvSync(p, sess[q], sent[p], opened[q])
      /\ Leads(p, s, sess[q]) \/ Leads(q, sess[q], s)
  BY PartyFacts
<1>1. sess \in [Party -> Session]
  BY DEF SyncInv, IndInv, TypeOK
<1> HIDE DEF s, q
<1>2. sess'[p] = t /\ sess'[q] = sess[q]
  BY <1>0, <1>1
<1>3. SendSync(p, t, sent[p])
  BY <1>0, SendSteady DEF s
<1>4. RecvSync(q, t, sent[q], opened[p])
  BY <1>0, RecvSteady DEF Steady, s
<1>5. Leads(p, t, sess[q]) \/ Leads(q, sess[q], t)
  BY <1>0, LeadsSteady, SteadySame DEF s
<1>6. PartySync(p)' /\ PartySync(q)'
  BY <1>0, <1>2, <1>3, <1>4 DEF PartySync, q
<1>7. QED
  BY <1>2, <1>5, <1>6, SyncFrom DEF q

LEMMA EncryptFailsSync ==
    ASSUME SyncInv, NEW p \in Party, EncryptFails(p)
    PROVE  SyncInv'
<1>1. IndInv' /\ sess[p] \in Session
  BY EncryptFailsInv, PartyFacts DEF SyncInv
<1>2. sess' = [sess EXCEPT ![p] = Burned(sess[p])] /\ sent' = sent /\ opened' = opened
  BY DEF EncryptFails
<1>3. sess[p].cks.i \in Nat /\ sess[p].cks.i + 1 >= sess[p].cks.i
  BY <1>1, FieldTypes, ChainPair
<1>4. QED
  BY <1>1, <1>2, <1>3, BurnedSteady, SteadySync

(* pack and unpack lose nothing: under pq everything is written, and       *)
(* without it the KEM fields that are not written were never used.         *)
LEMMA ReloadSteady ==
    ASSUME NEW s \in Session
    PROVE  LET t == Unpack(Pack(s))
           IN  /\ t \in Session /\ Steady(s, t) /\ t.ns = s.ns
               /\ t.cks = s.cks /\ t.skipped = s.skipped
<1> DEFINE t == Unpack(Pack(s))
<1>1. t \in Session
  BY ReloadFacts
<1>2. /\ t.rk = s.rk /\ t.dhs = s.dhs /\ t.dhr = s.dhr /\ t.cks = s.cks /\ t.ckr = s.ckr
      /\ t.ns = s.ns /\ t.nr = s.nr /\ t.pn = s.pn /\ t.skipped = s.skipped
  BY DEF Pack, Unpack
<1>3. PQ => SameKem(s, t)
  BY DEF Pack, Unpack, SameKem
<1>4. ~PQ => NoKem(t)
  BY DEF Pack, Unpack, NoKem
<1> HIDE DEF t
<1>5. s.ns >= s.ns
  BY FieldTypes
<1>6. QED
  BY <1>1, <1>2, <1>3, <1>4, <1>5 DEF Steady, t

LEMMA ReloadSync ==
    ASSUME SyncInv, NEW p \in Party, Reload(p)
    PROVE  SyncInv'
<1>1. IndInv' /\ sess[p] \in Session
  BY ReloadInv, PartyFacts DEF SyncInv
<1>2. sess' = [sess EXCEPT ![p] = Unpack(Pack(sess[p]))] /\ sent' = sent /\ opened' = opened
  BY DEF Reload
<1>3. sess[p].cks.i >= sess[p].cks.i
  BY <1>1, FieldTypes, ChainPair
<1>4. QED
  BY <1>1, <1>2, <1>3, ReloadSteady, SteadySync

(***************************************************************************)
(* Decrypt.                                                                *)
(***************************************************************************)
(* A packet that decrypts is one the peer sent: its header is the one it   *)
(* was sealed with.                                                        *)
LEMMA CommitGenuine ==
    ASSUME SyncInv, NEW p \in Party, NEW pkt \in Network, DecryptRc(sess[p], pkt) = "ok"
    PROVE  pkt \in sent[Peer(p)] /\ pkt.box.pt \notin opened[p]
<1>0. /\ IndInv /\ TypeOK /\ SendSync(Peer(p), sess[Peer(p)], sent[Peer(p)])
      /\ sent[Peer(p)] \in SUBSET Packet
  BY PartyFacts DEF SyncInv, IndInv
<1>1. pkt \in Packet
  BY <1>0, NetworkType
<1>2. PICK g \in sent[Peer(p)] : g.box = pkt.box
  BY <1>0, CommitFacts
<1>3. \E mk : Opens(mk, pkt)
  BY DEF DecryptRc
<1>4. g.box.aad = g.hdr /\ pkt.box.aad = pkt.hdr
  BY <1>0, <1>3 DEF SendSync, PacketInv, Opens
<1>5. pkt = g
  BY <1>0, <1>1, <1>2, <1>4 DEF Packet
<1>6. QED
  BY <1>0, <1>5, CommitFacts

(* The ways ratchet_decrypt succeeds.                                      *)
LEMMA DecryptWays ==
    ASSUME NEW s, NEW pkt, DecryptRc(s, pkt) = "ok"
    PROVE  \/ SkippedFind(s, pkt.hdr) # {}
           \/ /\ SkippedFind(s, pkt.hdr) = {}
              /\ NewKey(s, pkt.hdr) => SkipRc(s, pkt.hdr.pn) = "ok"
              /\ SkipRc(Stepped(s, pkt.hdr), pkt.hdr.n) = "ok"
              /\ Ready(s, pkt.hdr).ckr # NoChain
              /\ Opens(Ready(s, pkt.hdr).ckr, pkt)
  BY DEF DecryptRc

(* Spending a stored key.                                                  *)
LEMMA RecvStored ==
    ASSUME NEW q \in Party, NEW s, NEW u, NEW S, NEW O, NEW ck, NEW n,
           RecvSync(q, s, S, O), SendSync(q, u, S), SentGood(q, S, ck, n),
           NEW pkt \in S, SkippedFind(s, pkt.hdr) # {}, NEW t,
           t.dhr = s.dhr, t.nr = s.nr, t.ckr = s.ckr,
           t.skipped = s.skipped \ SkippedFind(s, pkt.hdr)
    PROVE  RecvSync(q, t, S, O \cup {pkt.box.pt})
<1> DEFINE Q == O \cup {pkt.box.pt}
<1>1. \A h : Seen(t, h) <=> Seen(s, h)
  BY DEF Seen
<1>2. Seen(s, pkt.hdr)
  BY DEF RecvSync, SkippedFind, Awaits, Seen
<1>3. \A x \in S : x.box.pt \in Q => Seen(t, x.hdr)
  <2>1. \A x \in S : x.box.pt = pkt.box.pt => x = pkt
    BY DEF SentGood
  <2>2. QED
    BY <1>1, <1>2, <2>1 DEF RecvSync
<1>4. ASSUME NEW x \in S, Seen(t, x.hdr), InStep(x), x.box.pt \notin Q
      PROVE  Stored(t, x)
  <2>1. PICK e \in s.skipped : e.dh = x.hdr.dh /\ e.n = x.hdr.n /\ e.mk = x.box.key
    BY <1>1, <1>4 DEF RecvSync, Stored
  <2>2. x # pkt
    BY <1>4
  <2>3. e \notin SkippedFind(s, pkt.hdr)
    BY <2>1, <2>2, OnePacket DEF SkippedFind
  <2>4. QED
    BY <2>1, <2>3 DEF Stored
<1>5. ASSUME NEW e \in t.skipped
      PROVE  \E x \in S : Awaits(t, Q, e, x)
  <2>1. e \in s.skipped /\ e \notin SkippedFind(s, pkt.hdr)
    OBVIOUS
  <2>2. PICK x \in S : Awaits(s, O, e, x)
    BY <2>1 DEF RecvSync
  <2>3. x # pkt
    BY <2>1, <2>2 DEF Awaits, SkippedFind
  <2>4. x.box.pt # pkt.box.pt
    BY <2>3 DEF SentGood
  <2>5. QED
    BY <1>1, <2>2, <2>4 DEF Awaits
<1>6. QED
  BY <1>3, <1>4, <1>5 DEF RecvSync

(* Moving forward: N is what the store gains, pkt the message opened.      *)
Gains(s, t, S, N, pkt) ==
    /\ t.skipped = s.skipped \cup N
    /\ ~Seen(s, pkt.hdr) /\ Seen(t, pkt.hdr)
    /\ \A x \in S : Seen(s, x.hdr) => Seen(t, x.hdr)
    /\ \A x \in S : Seen(t, x.hdr) /\ ~Seen(s, x.hdr) /\ InStep(x) /\ x # pkt =>
          \E e \in N : e.dh = x.hdr.dh /\ e.n = x.hdr.n /\ e.mk = x.box.key
    /\ \A e \in N : \E x \in S :
          /\ x # pkt /\ x.hdr.dh = e.dh /\ x.hdr.n = e.n
          /\ x.box.key.root = e.mk.root /\ e.mk.i = e.n
          /\ ~Seen(s, x.hdr) /\ Seen(t, x.hdr)

LEMMA RecvForward ==
    ASSUME NEW q, NEW s, NEW S, NEW O, NEW ck, NEW n, RecvSync(q, s, S, O),
           SentGood(q, S, ck, n), NEW pkt \in S, NEW t, NEW N, Gains(s, t, S, N, pkt),
           t.nr = t.ckr.i, t.dhr[1] = q,
           \A x \in S : x.hdr.dh = t.dhr => x.box.key.root = t.ckr.root
    PROVE  RecvSync(q, t, S, O \cup {pkt.box.pt})
<1> DEFINE Q == O \cup {pkt.box.pt}
<1>0. \A a, b \in S : a.box.pt = b.box.pt => a = b
  BY DEF SentGood
<1>1. \A x \in S : x.box.pt \in O => Seen(s, x.hdr)
  BY DEF RecvSync
<1>2. \A x \in S : x.box.pt \in Q => Seen(t, x.hdr)
  BY <1>0, <1>1 DEF Gains
<1>3. ASSUME NEW x \in S, Seen(t, x.hdr), InStep(x), x.box.pt \notin Q
      PROVE  Stored(t, x)
  <2>1. CASE Seen(s, x.hdr)
    <3>1. PICK e \in s.skipped : e.dh = x.hdr.dh /\ e.n = x.hdr.n /\ e.mk = x.box.key
      BY <1>3, <2>1 DEF RecvSync, Stored
    <3>2. QED
      BY <3>1 DEF Stored, Gains
  <2>2. CASE ~Seen(s, x.hdr)
    <3>1. PICK e \in N : e.dh = x.hdr.dh /\ e.n = x.hdr.n /\ e.mk = x.box.key
      BY <1>3, <2>2 DEF Gains
    <3>2. QED
      BY <3>1 DEF Stored, Gains
  <2>3. QED
    BY <2>1, <2>2
<1>4. ASSUME NEW e \in t.skipped
      PROVE  \E x \in S : Awaits(t, Q, e, x)
  <2>1. CASE e \in s.skipped
    <3>1. PICK x \in S : Awaits(s, O, e, x)
      BY <2>1 DEF RecvSync
    <3>2. Seen(t, x.hdr) /\ x # pkt
      BY <3>1 DEF Gains, Awaits
    <3>3. x.box.pt \notin Q
      BY <1>0, <3>1, <3>2 DEF Awaits
    <3>4. QED
      BY <3>1, <3>2, <3>3 DEF Awaits
  <2>2. CASE e \in N
    <3>1. PICK x \in S : /\ x # pkt /\ x.hdr.dh = e.dh /\ x.hdr.n = e.n
                         /\ x.box.key.root = e.mk.root /\ e.mk.i = e.n
                         /\ ~Seen(s, x.hdr) /\ Seen(t, x.hdr)
      BY <2>2 DEF Gains
    <3>2. x.box.pt \notin Q
      BY <1>0, <1>1, <3>1
    <3>3. QED
      BY <3>1, <3>2 DEF Awaits
  <2>3. QED
    BY <2>1, <2>2 DEF Gains
<1>5. QED
  BY <1>2, <1>3, <1>4 DEF RecvSync

(* The counters s.nr .. u - 1 of s's receiving chain are those of          *)
(* messages of q, sealed on that chain.                                    *)
Stashable(q, S, s, u) ==
    /\ s.nr = s.ckr.i /\ s.nr <= u /\ s.dhr[1] = q
    /\ \A x \in S : x.hdr.dh[1] = q
    /\ \A x \in S : x.hdr.dh = s.dhr => x.box.key.root = s.ckr.root
    /\ \A m \in s.nr .. (u - 1) : Counter(S, s.dhr[2], m)

(* The keys skip_message_keys derives for them are theirs.                 *)
StashFits(S, s, u) ==
    /\ \A x \in S : x.hdr.dh[2] = s.dhr[2] /\ x.hdr.n \in s.nr .. (u - 1) /\ InStep(x) =>
          \E e \in Stash(s, u) : e.dh = x.hdr.dh /\ e.n = x.hdr.n /\ e.mk = x.box.key
    /\ \A e \in Stash(s, u) : \E x \in S :
          /\ x.hdr.dh = e.dh /\ x.hdr.n = e.n /\ e.dh = s.dhr
          /\ x.hdr.n \in s.nr .. (u - 1)
          /\ x.box.key.root = e.mk.root /\ e.mk.i = e.n

(* The keys stashed on a chain are those of the messages on it.            *)
LEMMA StashSync ==
    ASSUME NEW q, NEW s \in Session, NEW u \in Nat, NEW S \in SUBSET Packet,
           Stashable(q, S, s, u)
    PROVE  StashFits(S, s, u)
<1> USE DEF Stashable
<1>0. /\ \A x \in S : x \in Packet /\ x.hdr.dh \in Key /\ x.box.key \in ChainKey
      /\ s.dhr \in Key
  BY FieldTypes, PacketTypes
<1>1. \A x \in S : x.hdr.dh[2] = s.dhr[2] => x.hdr.dh = s.dhr
  BY <1>0, KeyPair
<1>2. \A e \in Stash(s, u) : /\ e.dh = s.dhr /\ e.n \in s.nr .. (u - 1)
                             /\ e.mk.root = s.ckr.root /\ e.mk.i = e.n
                             /\ e.mk \in ChainKey
  BY StashEntry, StashFacts DEF Skipped
<1>3. ASSUME NEW x \in S, x.hdr.dh[2] = s.dhr[2], x.hdr.n \in s.nr .. (u - 1), InStep(x)
      PROVE  \E e \in Stash(s, u) : e.dh = x.hdr.dh /\ e.n = x.hdr.n /\ e.mk = x.box.key
  <2>1. PICK e \in Stash(s, u) : /\ e.dh = s.dhr /\ e.n = x.hdr.n
                                 /\ e.mk.root = s.ckr.root /\ e.mk.i = x.hdr.n
    BY <1>3, StashEntry
  <2>2. e.mk = x.box.key
    BY <1>0, <1>1, <1>2, <1>3, <2>1, ChainPair DEF InStep
  <2>3. QED
    BY <1>1, <1>3, <2>1, <2>2
<1>4. ASSUME NEW e \in Stash(s, u)
      PROVE  \E x \in S : /\ x.hdr.dh = e.dh /\ x.hdr.n = e.n /\ e.dh = s.dhr
                          /\ x.hdr.n \in s.nr .. (u - 1)
                          /\ x.box.key.root = e.mk.root /\ e.mk.i = e.n
  <2>1. PICK x \in S : x.hdr.dh[2] = s.dhr[2] /\ x.hdr.n = e.n
    BY <1>2 DEF Counter
  <2>2. QED
    BY <1>1, <1>2, <2>1
<1>5. QED
  BY <1>3, <1>4 DEF StashFits

(* The end of ratchet_decrypt moves past the message it opened.            *)
LEMMA FinishFields ==
    ASSUME NEW s, NEW pkt, SkippedFind(s, pkt.hdr) = {}, Ready(s, pkt.hdr) \in Session
    PROVE  LET r == Ready(s, pkt.hdr)
               t == DecryptState(s, pkt)
           IN  /\ t \in Session /\ SameSending(r, t) /\ t.skipped = r.skipped
               /\ t.nr = r.nr + 1 /\ t.ckr.root = r.ckr.root /\ t.ckr.i = r.ckr.i + 1
               /\ t.ckr # NoChain
<1> DEFINE r == Ready(s, pkt.hdr)
           t == DecryptState(s, pkt)
<1>1. t = [r EXCEPT !.ckr = Advance(r.ckr, 1), !.nr = r.nr + 1]
  BY DEF DecryptState
<1> HIDE DEF r, t
<1>2. r \in Session /\ r.ckr \in ChainKey /\ r.ckr.i \in Nat /\ r.nr + 1 \in Nat
  BY FieldTypes, ChainPair DEF r
<1>3. /\ Advance(r.ckr, 1) \in ChainKey
      /\ Advance(r.ckr, 1).root = r.ckr.root /\ Advance(r.ckr, 1).i = r.ckr.i + 1
  BY <1>2, AdvanceType
<1>4. /\ t \in Session /\ SameSending(r, t) /\ t.skipped = r.skipped
      /\ t.nr = r.nr + 1 /\ t.ckr = Advance(r.ckr, 1)
  BY <1>1, <1>2, <1>3 DEF Session, SameSending, SameKem
<1>5. t.ckr # NoChain
  BY <1>2, <1>3, <1>4, ChainPair
<1>6. QED
  BY <1>3, <1>4, <1>5 DEF r, t

LEMMA SameSendingTransitive ==
    ASSUME NEW s, NEW t, NEW u, SameSending(s, t), SameSending(t, u)
    PROVE  SameSending(s, u)
  BY DEF SameSending, SameKem

LEMMA CurrentFields ==
    ASSUME NEW p \in Party, NEW s, SessionInv(p, s), NEW pkt \in Packet,
           SkippedFind(s, pkt.hdr) = {}, ~NewKey(s, pkt.hdr),
           SkipRc(Stepped(s, pkt.hdr), pkt.hdr.n) = "ok", Ready(s, pkt.hdr).ckr # NoChain
    PROVE  LET t == DecryptState(s, pkt)
           IN  /\ s.ckr # NoChain /\ t.ckr # NoChain /\ s.nr <= pkt.hdr.n
               /\ t \in Session /\ SameSending(s, t)
               /\ t.nr = pkt.hdr.n + 1 /\ t.ckr.root = s.ckr.root
               /\ t.ckr.i = s.ckr.i + (pkt.hdr.n - s.nr) + 1
               /\ t.skipped = s.skipped \cup Stash(s, pkt.hdr.n)
               /\ Ready(s, pkt.hdr).ckr.root = s.ckr.root
<1> DEFINE h == pkt.hdr
           r == Ready(s, h)
           t == DecryptState(s, pkt)
<1>0. h.n \in Nat
  BY PacketTypes
<1>1. r = SkipTo(s, h.n) /\ SkipRc(s, h.n) = "ok"
  BY DEF Ready, Stepped
<1>2. SessionInv(p, r) /\ s.ckr # NoChain
  BY <1>0, <1>1, SkipToInv
<1>3. /\ SameSending(s, r) /\ s.nr <= h.n /\ r.nr = h.n /\ r.ckr.root = s.ckr.root
      /\ r.ckr.i = s.ckr.i + (h.n - s.nr) /\ r.skipped = s.skipped \cup Stash(s, h.n)
  BY <1>0, <1>1, <1>2, SkipFields
<1>4. r \in Session
  BY <1>2 DEF SessionInv
<1>5. /\ t \in Session /\ SameSending(r, t) /\ t.skipped = r.skipped
      /\ t.nr = r.nr + 1 /\ t.ckr.root = r.ckr.root /\ t.ckr.i = r.ckr.i + 1
      /\ t.ckr # NoChain
  BY <1>4, FinishFields
<1> HIDE DEF r, t
<1>6. QED
  BY <1>2, <1>3, <1>5, SameSendingTransitive DEF r, t

LEMMA SendSame ==
    ASSUME NEW p, NEW s, NEW t, NEW S, SendSync(p, s, S), SameSending(s, t)
    PROVE  SendSync(p, t, S)
<1>1. \A h : HeaderOf(s, h) => HeaderOf(t, h)
  BY DEF HeaderOf, SameSending, SameKem
<1>2. t.dhs = s.dhs /\ t.rk = s.rk /\ t.pn = s.pn /\ t.ns = s.ns /\ t.cks = s.cks
  BY DEF SameSending
<1>3. QED
  BY <1>1, <1>2 DEF SendSync

(* Moving along the receiving chain keeps who leads.                       *)
LEMMA LeadsMoves ==
    ASSUME NEW l, NEW L, NEW F, NEW M, Leads(l, L, F)
    PROVE  /\ SameSending(L, M) /\ L.ckr # NoChain /\ M.ckr # NoChain
              /\ M.ckr.root = L.ckr.root /\ M.nr <= F.ns => Leads(l, M, F)
           /\ SameSending(F, M) /\ M.ckr # NoChain /\ M.nr <= L.pn => Leads(l, L, M)
<1>1. SameSending(L, M) => (KemSync(l, L, F) => KemSync(l, M, F)) /\ (NoKem(L) => NoKem(M))
  BY DEF SameSending, SameKem, KemSync, NoKem
<1>2. SameSending(F, M) => (KemSync(l, L, F) => KemSync(l, L, M)) /\ (NoKem(F) => NoKem(M))
  BY DEF SameSending, SameKem, KemSync, NoKem
<1>3. ASSUME SameSending(L, M), L.ckr # NoChain, M.ckr # NoChain,
             M.ckr.root = L.ckr.root, M.nr <= F.ns
      PROVE  Leads(l, M, F)
  <2>1. /\ M.rk = L.rk /\ M.dhs = L.dhs /\ M.dhr = L.dhr /\ M.pn = L.pn
        /\ M.kss_send = L.kss_send
    BY <1>3 DEF SameSending, SameKem
  <2>2. QED
    BY <1>1, <1>3, <2>1 DEF Leads
<1>4. ASSUME SameSending(F, M), M.ckr # NoChain, M.nr <= L.pn
      PROVE  Leads(l, L, M)
  <2>1. M.rk = F.rk /\ M.dhs = F.dhs /\ M.dhr = F.dhr /\ M.ns = F.ns
    BY <1>4 DEF SameSending
  <2>2. QED
    BY <1>2, <1>4, <2>1 DEF Leads
<1>5. QED
  BY <1>3, <1>4

(* What one delivery has to establish.                                     *)
LEMMA DeliverySync ==
    ASSUME SyncInv, IndInv', NEW p \in Party, NEW t \in Session, NEW m,
           sess' = [sess EXCEPT ![p] = t], sent' = sent,
           opened' = [opened EXCEPT ![p] = opened[p] \cup {m}],
           SendSync(p, t, sent[p]),
           RecvSync(Peer(p), t, sent[Peer(p)], opened[p] \cup {m}),
           Leads(p, t, sess[Peer(p)]) \/ Leads(Peer(p), sess[Peer(p)], t)
    PROVE  SyncInv'
<1> DEFINE q == Peer(p)
<1>0. /\ q \in Party /\ q # p /\ Peer(q) = p
      /\ SendSync(q, sess[q], sent[q]) /\ RecvSync(p, sess[q], sent[p], opened[q])
  BY PartyFacts
<1>1. sess \in [Party -> Session] /\ opened \in [Party -> SUBSET Plain]
  BY DEF SyncInv, IndInv, TypeOK
<1> HIDE DEF q
<1>2. /\ sess'[p] = t /\ sess'[q] = sess[q]
      /\ opened'[p] = opened[p] \cup {m} /\ opened'[q] = opened[q]
  BY <1>0, <1>1
<1>3. PartySync(p)' /\ PartySync(q)'
  BY <1>0, <1>2 DEF PartySync, q
<1>4. QED
  BY <1>2, <1>3, SyncFrom DEF q

LEMMA StoredDelivery ==
    ASSUME SyncInv, NEW p \in Party, NEW pkt \in sent[Peer(p)],
           SkippedFind(sess[p], pkt.hdr) # {}
    PROVE  LET t == DecryptState(sess[p], pkt)
           IN  /\ t \in Session /\ SendSync(p, t, sent[p])
               /\ RecvSync(Peer(p), t, sent[Peer(p)], opened[p] \cup {pkt.box.pt})
               /\ Leads(p, t, sess[Peer(p)]) \/ Leads(Peer(p), sess[Peer(p)], t)
<1> DEFINE s == sess[p]
           q == Peer(p)
           t == DecryptState(s, pkt)
<1>0. /\ q \in Party /\ s \in Session /\ sess[q] \in Session
      /\ SentGood(q, sent[q], sess[q].cks, nsent[q])
      /\ SendSync(p, s, sent[p]) /\ SendSync(q, sess[q], sent[q])
      /\ RecvSync(q, s, sent[q], opened[p])
      /\ Leads(p, s, sess[q]) \/ Leads(q, sess[q], s)
  BY PartyFacts
<1>1. /\ t \in Session /\ Steady(s, t) /\ t.ns = s.ns /\ t.cks = s.cks
      /\ t.skipped = s.skipped \ SkippedFind(s, pkt.hdr)
  <2>1. t = [s EXCEPT !.skipped = s.skipped \ SkippedFind(s, pkt.hdr)]
    BY DEF DecryptState
  <2> HIDE DEF t
  <2>2. /\ t \in Session /\ t.skipped = s.skipped \ SkippedFind(s, pkt.hdr)
        /\ t.rk = s.rk /\ t.dhs = s.dhs /\ t.dhr = s.dhr /\ t.ckr = s.ckr
        /\ t.nr = s.nr /\ t.pn = s.pn /\ t.ns = s.ns /\ t.cks = s.cks
        /\ SameKem(s, t)
    BY <1>0, <2>1 DEF Session, SameKem
  <2>3. s.ns >= s.ns
    BY <1>0, FieldTypes
  <2>4. QED
    BY <2>2, <2>3 DEF Steady, SameKem, NoKem
<1>2. s.cks.i >= s.cks.i
  BY <1>0, FieldTypes, ChainPair
<1> HIDE DEF s, t, q
<1>3. SendSync(p, t, sent[p])
  BY <1>0, <1>1, <1>2, SendSteady
<1>4. RecvSync(q, t, sent[q], opened[p] \cup {pkt.box.pt})
  BY <1>0, <1>1, RecvStored DEF Steady, s, q
<1>5. Leads(p, t, sess[q]) \/ Leads(q, sess[q], t)
  BY <1>0, <1>1, LeadsSteady, SteadySame
<1>6. QED
  BY <1>1, <1>3, <1>4, <1>5 DEF s, t, q

LEMMA CurrentDelivery ==
    ASSUME SyncInv, NEW p \in Party, NEW pkt \in sent[Peer(p)],
           DecryptRc(sess[p], pkt) = "ok", SkippedFind(sess[p], pkt.hdr) = {},
           ~NewKey(sess[p], pkt.hdr)
    PROVE  LET t == DecryptState(sess[p], pkt)
           IN  /\ t \in Session /\ SendSync(p, t, sent[p])
               /\ RecvSync(Peer(p), t, sent[Peer(p)], opened[p] \cup {pkt.box.pt})
               /\ Leads(p, t, sess[Peer(p)]) \/ Leads(Peer(p), sess[Peer(p)], t)
<1> DEFINE s == sess[p]
           q == Peer(p)
           u == sess[q]
           S == sent[q]
           h == pkt.hdr
           t == DecryptState(s, pkt)
           N == Stash(s, h.n)
<1>0. /\ q \in Party /\ s \in Session /\ u \in Session /\ S \in SUBSET Packet
      /\ SessionInv(p, s) /\ pkt \in Packet /\ pkt \in S
      /\ SentGood(q, S, u.cks, nsent[q])
      /\ SendSync(p, s, sent[p]) /\ SendSync(q, u, S) /\ RecvSync(q, s, S, opened[p])
      /\ Leads(p, s, u) \/ Leads(q, u, s)
  BY PartyFacts
<1>1. /\ SkipRc(Stepped(s, h), h.n) = "ok" /\ Ready(s, h).ckr # NoChain /\ h.dh = s.dhr
  BY DecryptWays DEF NewKey
<1>2. /\ s.ckr # NoChain /\ t.ckr # NoChain /\ s.nr <= h.n
      /\ t \in Session /\ SameSending(s, t)
      /\ t.nr = h.n + 1 /\ t.ckr.root = s.ckr.root
      /\ t.ckr.i = s.ckr.i + (h.n - s.nr) + 1
      /\ t.skipped = s.skipped \cup N
  BY <1>0, <1>1, CurrentFields DEF NewKey
<1>3. /\ h.n \in Nat /\ s.nr \in Nat /\ s.nr = s.ckr.i /\ s.dhr[1] = q
      /\ s.dhr[2] \in Nat /\ u.ns \in Nat /\ u.pn \in Nat /\ u.dhs \in Key
      /\ u.dhs[1] = q /\ s.dhr \in Key /\ t.dhr = s.dhr
      /\ \A x \in S : x.hdr.n \in Nat /\ x.hdr.dh[2] \in Nat
      /\ \A x \in S : x.hdr.dh[1] = q
      /\ \A x \in S : x.hdr.dh = s.dhr => x.box.key.root = s.ckr.root
  <2>1. \A x \in S : x.hdr.n \in Nat /\ x.hdr.dh[2] \in Nat
    BY <1>0, PacketTypes
  <2>2. /\ s.nr = s.ckr.i /\ s.dhr[1] = q
        /\ \A x \in S : x.hdr.dh = s.dhr => x.box.key.root = s.ckr.root
    BY <1>0, <1>2 DEF RecvSync
  <2>3. u.dhs[1] = q /\ \A x \in S : x.hdr.dh[1] = q
    BY <1>0 DEF SendSync, PacketInv
  <2>4. /\ h.n \in Nat /\ s.nr \in Nat /\ s.dhr[2] \in Nat /\ u.ns \in Nat /\ u.pn \in Nat
        /\ u.dhs \in Key /\ s.dhr \in Key
    BY <1>0, PacketTypes, FieldTypes, KeyPair
  <2>5. t.dhr = s.dhr
    BY <1>2 DEF SameSending
  <2>6. QED
    BY <2>1, <2>2, <2>3, <2>4, <2>5
<1>4. \A m \in 0 .. h.n : Counter(S, s.dhr[2], m)
  <2>1. ~Seen(s, h)
    BY <1>1, <1>2, <1>3 DEF Seen
  <2>2. QED
    BY <1>1, <2>1, UnseenCounters
<1> HIDE DEF s, q, u, S, h, t
<1>5. SendSync(p, t, sent[p])
  BY <1>0, <1>2, SendSame
<1>6. t.nr = t.ckr.i
  BY <1>2, <1>3
<1>7. Gains(s, t, S, N, pkt)
  <2>1. \A x \in S : /\ Seen(s, x.hdr) <=> x.hdr.dh[2] < s.dhr[2]
                                            \/ (x.hdr.dh[2] = s.dhr[2] /\ x.hdr.n < s.nr)
                     /\ Seen(t, x.hdr) <=> x.hdr.dh[2] < s.dhr[2]
                                            \/ (x.hdr.dh[2] = s.dhr[2] /\ x.hdr.n < h.n + 1)
    BY <1>2, <1>3 DEF Seen
  <2>2. pkt.hdr = h /\ h.dh = s.dhr
    BY <1>1 DEF h
  <2>3. \A m \in s.nr .. (h.n - 1) : Counter(S, s.dhr[2], m)
    BY <1>3, <1>4
  <2>4. /\ \A x \in S : x.hdr.dh[2] = s.dhr[2] /\ x.hdr.n \in s.nr .. (h.n - 1) /\ InStep(x) =>
                 \E e \in N : e.dh = x.hdr.dh /\ e.n = x.hdr.n /\ e.mk = x.box.key
        /\ \A e \in N : \E x \in S :
                 /\ x.hdr.dh = e.dh /\ x.hdr.n = e.n /\ e.dh = s.dhr
                 /\ x.hdr.n \in s.nr .. (h.n - 1)
                 /\ x.box.key.root = e.mk.root /\ e.mk.i = e.n
    <3>1. /\ s \in Session /\ s.nr = s.ckr.i /\ h.n \in Nat /\ s.nr <= h.n
          /\ S \in SUBSET Packet /\ s.dhr[1] = q /\ \A x \in S : x.hdr.dh[1] = q
          /\ \A x \in S : x.hdr.dh = s.dhr => x.box.key.root = s.ckr.root
      BY <1>0, <1>2, <1>3
    <3>2. StashFits(S, s, h.n)
      BY <2>3, <3>1, StashSync DEF Stashable
    <3>3. QED
      BY <3>2 DEF StashFits
  <2> HIDE DEF N
  <2>5. ~Seen(s, pkt.hdr) /\ Seen(t, pkt.hdr)
    BY <1>0, <1>2, <1>3, <2>1, <2>2
  <2>6. \A x \in S : Seen(s, x.hdr) => Seen(t, x.hdr)
    BY <1>2, <1>3, <2>1
  <2>7. ASSUME NEW x \in S, Seen(t, x.hdr), ~Seen(s, x.hdr), InStep(x), x # pkt
        PROVE  \E e \in N : e.dh = x.hdr.dh /\ e.n = x.hdr.n /\ e.mk = x.box.key
    <3>1. x.hdr.dh[2] = s.dhr[2] /\ x.hdr.n < h.n + 1 /\ s.nr <= x.hdr.n
      BY <1>3, <2>1, <2>7
    <3>2. x.hdr.n # h.n
      <4>1. x.hdr.dh[2] = pkt.hdr.dh[2]
        BY <2>2, <3>1
      <4>2. QED
        BY <1>0, <2>2, <2>7, <4>1 DEF SendSync
    <3>3. x.hdr.n \in s.nr .. (h.n - 1)
      BY <1>3, <3>1, <3>2
    <3>4. QED
      BY <2>4, <2>7, <3>1, <3>3
  <2>8. ASSUME NEW e \in N
        PROVE  \E x \in S : /\ x # pkt /\ x.hdr.dh = e.dh /\ x.hdr.n = e.n
                            /\ x.box.key.root = e.mk.root /\ e.mk.i = e.n
                            /\ ~Seen(s, x.hdr) /\ Seen(t, x.hdr)
    <3>1. PICK x \in S : /\ x.hdr.dh = e.dh /\ x.hdr.n = e.n /\ e.dh = s.dhr
                         /\ x.hdr.n \in s.nr .. (h.n - 1)
                         /\ x.box.key.root = e.mk.root /\ e.mk.i = e.n
      BY <2>4
    <3>2. x.hdr.n < h.n /\ s.nr <= x.hdr.n /\ x.hdr.n < h.n + 1
      BY <1>3, <3>1
    <3>3. x # pkt
      BY <1>3, <2>2, <3>2
    <3>4. ~Seen(s, x.hdr) /\ Seen(t, x.hdr)
      BY <1>3, <2>1, <3>1, <3>2
    <3>5. QED
      BY <3>1, <3>3, <3>4
  <2>9. QED
    BY <1>2, <2>5, <2>6, <2>7, <2>8 DEF Gains
<1>8. RecvSync(q, t, S, opened[p] \cup {pkt.box.pt})
  BY <1>0, <1>2, <1>3, <1>6, <1>7, RecvForward
<1>9. Leads(p, t, u) \/ Leads(q, u, t)
  <2>0. h.dh = s.dhr /\ h = pkt.hdr /\ h.dh[1] = q
    BY <1>0, <1>1, <1>3 DEF h
  <2>1. CASE Leads(p, s, u)
    <3>1. s.dhr = u.dhs
      BY <2>1 DEF Leads
    <3>2. h.n < u.ns
      BY <1>0, <2>0, <3>1 DEF SendSync
    <3>3. t.nr <= u.ns
      BY <1>2, <1>3, <3>2
    <3>4. QED
      BY <1>2, <2>1, <3>3, LeadsMoves
  <2>2. CASE Leads(q, u, s)
    <3>1. u.dhs[2] # 0 /\ s.dhr[2] + 1 = u.dhs[2]
      BY <1>0, <1>3, <2>0, <2>2, FollowerKey, KeyPair
    <3>2. h.n < u.pn
      BY <1>0, <2>0, <3>1 DEF SendSync
    <3>3. t.nr <= u.pn
      BY <1>2, <1>3, <3>2
    <3>4. QED
      BY <1>2, <2>2, <3>3, LeadsMoves
  <2>3. QED
    BY <1>0, <2>1, <2>2
<1>10. QED
  BY <1>2, <1>5, <1>8, <1>9 DEF s, t, q, u, S

(* The two KEM ratchets stay in step: the secret and the key the follower  *)
(* now advertises are the ones the leader will find.                       *)
LEMMA KemStepSync ==
    ASSUME PQ, NEW p \in Party, NEW s \in Session, NEW u \in Session, NEW t,
           KemSync(Peer(p), u, s), NEW h, KemStepped(s, h, t),
           KssRecv(s, h) = u.kss_send, KemR(s, h) = u.kem
    PROVE  KemSync(p, t, u)
<1>0. /\ Peer(Peer(p)) = p /\ Peer(p) \in Party /\ s.kem \in Key /\ u.kem \in Key
      /\ s.advertised \in {0, 1}
  BY PeerType, FieldTypes
<1>1. t.kem[1] = p /\ u.kem[1] = Peer(p) /\ u.kem # NoKey
  BY <1>0, KeyPair DEF KemSync, KemStepped
<1>2. t.kem_r = u.kem /\ t.kss_recv = u.kss_send /\ t.advertised = 1
  BY DEF KemStepped
<1>3. IF t.pend_ct = NoCt THEN t.kss_send = u.kss_recv
      ELSE t.send_full = 1 /\ t.kss_send = Decaps(t.pend_ct, u.kem)
  <2>1. CASE t.send_full = 1
    <3>1. t.pend_ct.to = u.kem /\ t.kss_send = Decaps(t.pend_ct, u.kem)
      BY <1>1, <1>2, <2>1 DEF KemStepped
    <3>2. t.pend_ct # NoCt
      BY <1>1, <3>1 DEF NoCt
    <3>3. QED
      BY <2>1, <3>1, <3>2
  <2>2. CASE t.send_full # 1
    BY <2>2 DEF KemStepped, KemSync
  <2>3. QED
    BY <2>1, <2>2
<1>4. t.send_full = 0 => u.kem_r = t.kem
  BY <1>0 DEF KemStepped, KemSync
<1>5. QED
  BY <1>1, <1>2, <1>3, <1>4 DEF KemSync

(* After the step the follower leads.                                      *)
LEMMA LeadTaken ==
    ASSUME NEW p \in Party, NEW s \in Session, NEW u \in Session, NEW t \in Session,
           NEW S, NEW O, NEW T, SessionInv(Peer(p), u), SendSync(p, s, T),
           SessionInv(p, s), SendSync(Peer(p), u, S), RecvSync(Peer(p), s, S, O),
           Leads(Peer(p), u, s), NEW h \in Header, HeaderOf(u, h), h.n < u.ns,
           t.dhs = NextKey(s.dhs), t.dhr = h.dh, t.nr = h.n + 1, t.pn = s.ns,
           t.ckr.root = RecvRoot(s, h), t.ckr # NoChain,
           t.rk = KdfRk(RecvRoot(s, h), DH(NextKey(s.dhs), h.dh), t.kss_send),
           KemStepped(s, h, t)
    PROVE  Leads(p, t, u)
<1>0. /\ Peer(p) \in Party /\ Peer(Peer(p)) = p /\ h.n \in Nat /\ h.dh = u.dhs
      /\ u.ns \in Nat /\ s.ns \in Nat /\ u.rk \in Root /\ s.dhs \in Key /\ s.dhs[2] \in Nat
      /\ s.dhs[1] = p
  BY PeerType, FieldTypes, KeyPair DEF Header, HeaderOf, SendSync
<1>1. RecvRoot(s, h) = u.rk /\ KssRecv(s, h) = u.kss_send /\ (PQ => KemR(s, h) = u.kem)
  BY <1>0, KemDerived
<1>2. t.rk = KdfRk(u.rk, DH(t.dhs, u.dhs), t.kss_send) /\ Len(t.rk) = Len(u.rk) + 1
  <2>1. t.rk = KdfRk(u.rk, DH(t.dhs, u.dhs), t.kss_send)
    BY <1>0, <1>1
  <2>2. \A x : Len(Append(u.rk, x)) = Len(u.rk) + 1
    BY <1>0 DEF Root
  <2>3. QED
    BY <2>1, <2>2 DEF KdfRk
<1>3. t.nr <= u.ns
  BY <1>0
<1>4. u.dhr = IF t.dhs[2] = 0 THEN NoKey ELSE <<p, t.dhs[2] - 1>>
  <2>1. u.dhr = s.dhs
    BY DEF Leads
  <2>2. t.dhs[2] = s.dhs[2] + 1
    BY <1>0, KeyPair
  <2>3. t.dhs[2] # 0 /\ t.dhs[2] - 1 = s.dhs[2]
    BY <1>0, <2>2
  <2>4. s.dhs = <<p, s.dhs[2]>>
    BY <1>0, KeyPair
  <2>5. QED
    BY <2>1, <2>3, <2>4
<1>5. u.nr <= t.pn
  BY DEF Leads
<1>6. u.ckr = NoChain => t.pn = 0
  BY EmptyRoot DEF Leads
<1>7. IF PQ THEN KemSync(p, t, u) ELSE NoKem(t) /\ NoKem(u)
  <2>1. CASE PQ
    <3>1. KemSync(Peer(p), u, s)
      BY <2>1 DEF Leads
    <3>2. QED
      BY <1>1, <2>1, <3>1, KemStepSync
  <2>2. CASE ~PQ
    BY <1>1, <2>2 DEF Leads, NoKem, KemStepped
  <2>3. QED
    BY <2>1, <2>2
<1>8. QED
  BY <1>0, <1>1, <1>2, <1>3, <1>4, <1>5, <1>6, <1>7 DEF Leads

(* The new sending chain starts empty, the old one is closed at pn.        *)
LEMMA SendStep ==
    ASSUME NEW p \in Party, NEW s \in Session, NEW t \in Session, NEW T \in SUBSET Packet,
           SendSync(p, s, T), t.dhs = NextKey(s.dhs), t.ns = 0, t.pn = s.ns, t.cks.i = 0,
           Len(t.rk) = Len(s.rk) + 2
    PROVE  SendSync(p, t, T)
<1>0. /\ s.dhs \in Key /\ s.dhs[2] \in Nat /\ s.ns \in Nat
      /\ \A x \in T : x.hdr.dh[2] \in Nat /\ x.hdr.n \in Nat
      /\ Side(p) \in {0, 1}
  BY FieldTypes, KeyPair, PacketTypes, SideType
<1>1. t.dhs[1] = p /\ t.dhs[2] = s.dhs[2] + 1
  BY <1>0, KeyPair DEF SendSync
<1>2. Len(t.rk) = 2 * t.dhs[2] + Side(p)
  <2>1. Len(s.rk) = 2 * s.dhs[2] + Side(p)
    BY DEF SendSync
  <2>2. QED
    BY <1>0, <1>1, <2>1
<1>3. t.ns <= t.cks.i
  OBVIOUS
<1>4. \A x \in T : PacketInv(p, x) /\ x.hdr.dh[2] <= s.dhs[2]
  BY DEF SendSync
<1>5. \A x \in T : x.hdr.dh[2] <= t.dhs[2] /\ x.hdr.dh[2] # t.dhs[2]
  BY <1>0, <1>1, <1>4
<1>6. \A x \in T : x.hdr.dh[2] + 1 = t.dhs[2] => x.hdr.n < t.pn
  <2>1. \A x \in T : x.hdr.dh[2] = s.dhs[2] => x.hdr.n < s.ns
    BY DEF SendSync
  <2>2. \A x \in T : x.hdr.dh[2] + 1 = t.dhs[2] => x.hdr.dh[2] = s.dhs[2]
    BY <1>0, <1>1
  <2>3. QED
    BY <2>1, <2>2
<1>7. \A n \in 0 .. (t.ns - 1) : Counter(T, t.dhs[2], n)
  OBVIOUS
<1>8. \A n \in 0 .. (t.pn - 1) : Counter(T, t.dhs[2] - 1, n)
  <2>1. t.dhs[2] - 1 = s.dhs[2]
    BY <1>0, <1>1
  <2>2. QED
    BY <2>1 DEF SendSync
<1>9. QED
  BY <1>1, <1>2, <1>3, <1>4, <1>5, <1>6, <1>7, <1>8 DEF SendSync

(* The copy a ratchet step commits, and the message it opened: the peer    *)
(* leads, and the message is of its present chain.                         *)
LEMMA NextFields ==
    ASSUME SyncInv, NEW p \in Party, NEW pkt \in sent[Peer(p)],
           pkt.box.pt \notin opened[p], DecryptRc(sess[p], pkt) = "ok",
           SkippedFind(sess[p], pkt.hdr) = {}, NewKey(sess[p], pkt.hdr)
    PROVE  LET s == sess[p]
               u == sess[Peer(p)]
               h == pkt.hdr
               w == SkipTo(s, h.pn)
               d == DHRatchet(w, h)
               t == DecryptState(s, pkt)
           IN  /\ SkipRc(s, h.pn) = "ok" /\ ~Seen(s, h)
               /\ d \in Session /\ d.nr = 0 /\ d.ckr.i = 0 /\ d.ckr.root = RecvRoot(s, h)
               /\ d.dhr = h.dh
               /\ t \in Session /\ t.dhs = NextKey(s.dhs) /\ t.dhr = h.dh
               /\ t.ns = 0 /\ t.nr = h.n + 1 /\ t.pn = s.ns
               /\ t.ckr.root = RecvRoot(s, h) /\ t.ckr.i = h.n + 1 /\ t.ckr # NoChain
               /\ t.rk = KdfRk(RecvRoot(s, h), DH(NextKey(s.dhs), h.dh), t.kss_send)
               /\ t.cks.i = 0 /\ KemStepped(s, h, t)
               /\ t.skipped = w.skipped \cup Stash(d, h.n)
               /\ Leads(Peer(p), u, s) /\ h.dh = u.dhs /\ InStep(pkt)
<1> DEFINE s == sess[p]
           q == Peer(p)
           u == sess[q]
           h == pkt.hdr
           w == SkipTo(s, h.pn)
           d == DHRatchet(w, h)
           r == Ready(s, h)
           t == DecryptState(s, pkt)
<1>0. /\ q \in Party /\ s \in Session /\ SessionInv(p, s)
      /\ pkt \in Packet /\ h \in Header /\ h.n \in Nat
      /\ RecvSync(q, s, sent[q], opened[p]) /\ SendSync(q, u, sent[q])
      /\ pkt \in sent[q] /\ pkt.box.pt \notin opened[p] /\ NewKey(s, h)
      /\ SkippedFind(s, h) = {}
  BY PartyFacts, PacketTypes
<1>1. /\ SkipRc(s, h.pn) = "ok" /\ SkipRc(Stepped(s, h), h.n) = "ok"
      /\ r.ckr # NoChain /\ Opens(r.ckr, pkt)
  BY DecryptWays
<1>2. Stepped(s, h) = d /\ r = SkipTo(d, h.n) /\ SkipRc(d, h.n) = "ok"
  BY <1>0, <1>1 DEF Stepped, Ready
<1>3. /\ SessionInv(p, w) /\ SessionInv(p, d)
      /\ d.dhs = NextKey(s.dhs) /\ d.dhr = h.dh
      /\ d.ns = 0 /\ d.nr = 0 /\ d.pn = s.ns
      /\ d.ckr.root = RecvRoot(s, h) /\ d.ckr.i = 0 /\ d.ckr # NoChain
      /\ d.rk = KdfRk(RecvRoot(s, h), DH(NextKey(s.dhs), h.dh), d.kss_send)
      /\ d.cks.root = d.rk /\ d.cks.i = 0
      /\ d.skipped = w.skipped
      /\ KemStepped(s, h, d)
  BY <1>0, <1>1, StepAfterSkip
<1> HIDE DEF s, u, w, d, r, h
<1>4. /\ r \in Session /\ SameSending(d, r) /\ r.nr = h.n
      /\ r.ckr.root = d.ckr.root /\ r.ckr.i = h.n
      /\ r.skipped = d.skipped \cup Stash(d, h.n)
  <2>1. r \in Session
    <3>1. SessionInv(p, r)
      BY <1>0, <1>2, <1>3, SkipToInv
    <3>2. QED
      BY <3>1 DEF SessionInv
  <2>2. /\ SameSending(d, r) /\ r.nr = h.n
        /\ r.ckr.root = d.ckr.root /\ r.ckr.i = d.ckr.i + (h.n - d.nr)
        /\ r.skipped = d.skipped \cup Stash(d, h.n)
    BY <1>0, <1>2, <1>3, SkipFields
  <2>3. d.ckr.i + (h.n - d.nr) = h.n
    BY <1>0, <1>3
  <2>4. QED
    BY <2>1, <2>2, <2>3
<1>5. /\ t \in Session /\ SameSending(r, t) /\ t.skipped = r.skipped
      /\ t.nr = r.nr + 1 /\ t.ckr.root = r.ckr.root /\ t.ckr.i = r.ckr.i + 1
      /\ t.ckr # NoChain
  BY <1>0, <1>4, FinishFields DEF r, h
<1> HIDE DEF t
<1>6. SameSending(d, t)
  BY <1>4, <1>5, SameSendingTransitive
<1>7. /\ t.dhs = d.dhs /\ t.dhr = d.dhr /\ t.ns = d.ns /\ t.pn = d.pn /\ t.rk = d.rk
      /\ t.cks = d.cks /\ t.kss_send = d.kss_send
      /\ KemStepped(s, h, t)
  BY <1>3, <1>6 DEF SameSending, SameKem, KemStepped
<1>8. InStep(pkt)
  BY <1>1, <1>4 DEF Opens, InStep, h
<1>9. ~Seen(s, h)
  <2>1. Seen(s, h) => Stored(s, pkt)
    BY <1>0, <1>8 DEF RecvSync, h
  <2>2. Stored(s, pkt) => SkippedFind(s, h) # {}
    BY DEF Stored, SkippedFind, h
  <2>3. QED
    BY <1>0, <2>1, <2>2
<1>10. Leads(q, u, s) /\ h.dh = u.dhs
  BY <1>0, <1>9, Where DEF NewKey, s, u, h
<1>11. d \in Session
  BY <1>3 DEF SessionInv
<1>12. QED
  BY <1>1, <1>3, <1>4, <1>5, <1>7, <1>8, <1>9, <1>10, <1>11 DEF s, u, w, d, t, h

LEMMA NextGains ==
    ASSUME SyncInv, NEW p \in Party, NEW pkt \in sent[Peer(p)],
           pkt.box.pt \notin opened[p], DecryptRc(sess[p], pkt) = "ok",
           SkippedFind(sess[p], pkt.hdr) = {}, NewKey(sess[p], pkt.hdr)
    PROVE  LET s == sess[p]
               w == SkipTo(s, pkt.hdr.pn)
               d == DHRatchet(w, pkt.hdr)
               M == IF s.ckr = NoChain THEN {} ELSE Stash(s, pkt.hdr.pn)
           IN  Gains(s, DecryptState(s, pkt), sent[Peer(p)], M \cup Stash(d, pkt.hdr.n), pkt)
<1> DEFINE s == sess[p]
           q == Peer(p)
           u == sess[q]
           S == sent[q]
           h == pkt.hdr
           w == SkipTo(s, h.pn)
           d == DHRatchet(w, h)
           t == DecryptState(s, pkt)
           M == IF s.ckr = NoChain THEN {} ELSE Stash(s, h.pn)
           D == Stash(d, h.n)
           K == h.dh[2]
<1>0. /\ q \in Party /\ s \in Session /\ u \in Session /\ SessionInv(p, s)
      /\ SessionInv(q, u) /\ SentGood(q, S, u.cks, nsent[q])
      /\ S \in SUBSET Packet /\ pkt \in Packet /\ pkt \in S
      /\ RecvSync(q, s, S, opened[p]) /\ SendSync(q, u, S)
  BY PartyFacts
<1>1. /\ SkipRc(s, h.pn) = "ok" /\ ~Seen(s, h)
      /\ d \in Session /\ d.nr = 0 /\ d.ckr.i = 0 /\ d.ckr.root = RecvRoot(s, h)
      /\ d.dhr = h.dh /\ t.dhr = h.dh /\ t.nr = h.n + 1
      /\ t.skipped = w.skipped \cup D
      /\ Leads(q, u, s) /\ h.dh = u.dhs
  BY NextFields
<1>2. /\ h \in Header /\ h.n \in Nat /\ h.pn \in Nat /\ h.dh \in Key /\ K \in Nat /\ s.nr \in Nat
      /\ s.dhr \in Key /\ s.dhr[2] \in Nat /\ u.dhs \in Key /\ u.dhs[1] = q
      /\ \A x \in S : x.hdr.n \in Nat /\ x.hdr.dh \in Key /\ x.hdr.dh[2] \in Nat
  BY <1>0, PacketTypes, FieldTypes, KeyPair DEF SendSync
<1>3. /\ \A x \in S : x.hdr.dh[1] = q /\ x.hdr.dh[2] <= u.dhs[2]
      /\ \A x \in S : x.hdr.dh[2] + 1 = u.dhs[2] => x.hdr.n < u.pn
      /\ \A n \in 0 .. (u.pn - 1) : Counter(S, u.dhs[2] - 1, n)
      /\ \A a, b \in S : a.hdr.dh[2] = b.hdr.dh[2] /\ a.hdr.n = b.hdr.n => a = b
      /\ HeaderOf(u, h)
  BY <1>0, <1>1 DEF SendSync, PacketInv
<1>4. \A m \in 0 .. h.n : Counter(S, K, m)
  BY <1>1, UnseenCounters
<1>5. s.ckr # NoChain => s.nr <= h.pn /\ w.skipped = s.skipped \cup Stash(s, h.pn)
  BY <1>0, <1>1, <1>2, SkipFields
<1>6. w.skipped = s.skipped \cup M
  <2>1. s.ckr = NoChain => w = s
    BY DEF SkipTo
  <2>2. QED
    BY <1>5, <2>1
<1> HIDE DEF s, q, u, S, h, w, d, t, M, D, K
<1>7. /\ u.dhs[2] = K /\ u.pn = h.pn
      /\ K = 0 => s.dhr = NoKey /\ s.nr = 0 /\ s.dhr[2] = 0
      /\ K # 0 => s.dhr[1] = q /\ s.dhr[2] + 1 = K
      /\ s.ckr = NoChain => h.pn = 0
      /\ s.ckr # NoChain => K # 0
  <2>1. u.dhs[2] = K /\ u.pn = h.pn
    BY <1>1, <1>3 DEF HeaderOf, K
  <2>2. /\ K = 0 => s.dhr = NoKey
        /\ K # 0 => s.dhr[1] = q /\ s.dhr[2] + 1 = K
    BY <1>0, <1>1, <1>2, <2>1, FollowerKey
  <2>3. K = 0 => s.nr = 0
    BY <1>0, <1>1, <2>2, NothingSeen
  <2>4. s.ckr = NoChain => h.pn = 0
    BY <1>1, <2>1 DEF Leads
  <2>5. s.ckr # NoChain => s.dhr # NoKey
    BY <1>0, KeyPair DEF RecvSync
  <2>6. QED
    BY <2>1, <2>2, <2>3, <2>4, <2>5, KeyPair
<1>8. \A x \in S : /\ Seen(s, x.hdr) <=> x.hdr.dh[2] < s.dhr[2]
                                          \/ (x.hdr.dh[2] = s.dhr[2] /\ x.hdr.n < s.nr)
                   /\ Seen(t, x.hdr) <=> x.hdr.dh[2] < K
                                          \/ (x.hdr.dh[2] = K /\ x.hdr.n < h.n + 1)
  BY <1>1 DEF Seen, K
<1>9. pkt.hdr = h /\ h.dh[2] = K
  BY DEF h, K
<1>10. s.ckr # NoChain =>
        /\ \A x \in S : x.hdr.dh[2] = s.dhr[2] /\ x.hdr.n \in s.nr .. (h.pn - 1) /\ InStep(x) =>
              \E e \in M : e.dh = x.hdr.dh /\ e.n = x.hdr.n /\ e.mk = x.box.key
        /\ \A e \in M : \E x \in S :
              /\ x.hdr.dh = e.dh /\ x.hdr.n = e.n /\ e.dh = s.dhr
              /\ x.hdr.n \in s.nr .. (h.pn - 1)
              /\ x.box.key.root = e.mk.root /\ e.mk.i = e.n
  <2> HAVE s.ckr # NoChain
  <2>1. /\ s \in Session /\ s.nr = s.ckr.i /\ h.pn \in Nat /\ s.nr <= h.pn
        /\ S \in SUBSET Packet /\ s.dhr[1] = q /\ \A x \in S : x.hdr.dh[1] = q
        /\ \A x \in S : x.hdr.dh = s.dhr => x.box.key.root = s.ckr.root
    BY <1>0, <1>2, <1>3, <1>5 DEF RecvSync
  <2>2. \A m \in s.nr .. (h.pn - 1) : Counter(S, s.dhr[2], m)
    <3>1. s.dhr[2] = u.dhs[2] - 1
      BY <1>2, <1>7
    <3>2. \A m \in s.nr .. (h.pn - 1) : m \in 0 .. (u.pn - 1)
      BY <1>2, <1>7
    <3>3. QED
      BY <1>3, <3>1, <3>2
  <2>3. M = Stash(s, h.pn)
    BY DEF M
  <2>4. QED
    <3>1. StashFits(S, s, h.pn)
      BY <2>1, <2>2, StashSync DEF Stashable
    <3>2. QED
      BY <2>3, <3>1 DEF StashFits
<1>11. /\ \A x \in S : x.hdr.dh[2] = K /\ x.hdr.n \in 0 .. (h.n - 1) /\ InStep(x) =>
              \E e \in D : e.dh = x.hdr.dh /\ e.n = x.hdr.n /\ e.mk = x.box.key
       /\ \A e \in D : \E x \in S :
              /\ x.hdr.dh = e.dh /\ x.hdr.n = e.n /\ e.dh = d.dhr
              /\ x.hdr.n \in 0 .. (h.n - 1)
              /\ x.box.key.root = e.mk.root /\ e.mk.i = e.n
  <2>1. /\ d \in Session /\ d.nr = d.ckr.i /\ h.n \in Nat /\ d.nr <= h.n
        /\ S \in SUBSET Packet /\ d.dhr[1] = q /\ \A x \in S : x.hdr.dh[1] = q
    BY <1>0, <1>1, <1>2, <1>3
  <2>2. \A x \in S : x.hdr.dh = d.dhr => x.box.key.root = d.ckr.root
    <3>1. RecvRoot(s, h) = u.rk
      BY <1>0, <1>1, <1>2, <1>3, KemDerived
    <3>2. \A x \in S : x.hdr.dh[2] = u.dhs[2] => x.box.key.root = u.rk
      BY <1>0, SealedUnderRoot
    <3>3. QED
      BY <1>1, <3>1, <3>2
  <2>3. \A m \in d.nr .. (h.n - 1) : Counter(S, d.dhr[2], m)
    BY <1>1, <1>2, <1>4 DEF K
  <2>4. /\ \A x \in S : x.hdr.dh[2] = d.dhr[2] /\ x.hdr.n \in d.nr .. (h.n - 1) /\ InStep(x) =>
              \E e \in Stash(d, h.n) : e.dh = x.hdr.dh /\ e.n = x.hdr.n /\ e.mk = x.box.key
        /\ \A e \in Stash(d, h.n) : \E x \in S :
              /\ x.hdr.dh = e.dh /\ x.hdr.n = e.n /\ e.dh = d.dhr
              /\ x.hdr.n \in d.nr .. (h.n - 1)
              /\ x.box.key.root = e.mk.root /\ e.mk.i = e.n
    <3>1. StashFits(S, d, h.n)
      BY <2>1, <2>2, <2>3, StashSync DEF Stashable
    <3>2. QED
      BY <3>1 DEF StashFits
  <2>5. d.nr = 0 /\ d.dhr[2] = K /\ D = Stash(d, h.n)
    BY <1>1 DEF D, K
  <2>6. QED
    BY ONLY <2>4, <2>5
<1>12. ~Seen(s, pkt.hdr) /\ Seen(t, pkt.hdr)
  BY <1>0, <1>1, <1>2, <1>8, <1>9
<1>13. \A x \in S : Seen(s, x.hdr) => Seen(t, x.hdr)
  BY <1>2, <1>7, <1>8
<1>14. ASSUME NEW x \in S, Seen(t, x.hdr), ~Seen(s, x.hdr), InStep(x), x # pkt
       PROVE  \E e \in M \cup D : e.dh = x.hdr.dh /\ e.n = x.hdr.n /\ e.mk = x.box.key
  <2>1. CASE x.hdr.dh[2] = K
    <3>1. x.hdr.n # h.n
      BY <1>0, <1>3, <1>9, <1>14, <2>1
    <3>2. x.hdr.n \in 0 .. (h.n - 1)
      BY <1>2, <1>8, <1>14, <2>1, <3>1
    <3>3. QED
      BY <1>11, <1>14, <2>1, <3>2
  <2>2. CASE x.hdr.dh[2] # K
    <3>1. x.hdr.dh[2] < K /\ K # 0 /\ x.hdr.dh[2] = s.dhr[2] /\ s.nr <= x.hdr.n
      BY <1>2, <1>7, <1>8, <1>14, <2>2
    <3>2. x.hdr.n < h.pn
      BY <1>2, <1>3, <1>7, <3>1
    <3>3. s.ckr # NoChain /\ x.hdr.n \in s.nr .. (h.pn - 1)
      BY <1>2, <1>7, <3>1, <3>2
    <3>4. QED
      BY <1>10, <1>14, <3>1, <3>3
  <2>3. QED
    BY <2>1, <2>2
<1>15. ASSUME NEW e \in M \cup D
       PROVE  \E x \in S : /\ x # pkt /\ x.hdr.dh = e.dh /\ x.hdr.n = e.n
                           /\ x.box.key.root = e.mk.root /\ e.mk.i = e.n
                           /\ ~Seen(s, x.hdr) /\ Seen(t, x.hdr)
  <2>1. CASE e \in M
    <3>1. s.ckr # NoChain
      BY <2>1 DEF M
    <3>2. PICK x \in S : /\ x.hdr.dh = e.dh /\ x.hdr.n = e.n /\ e.dh = s.dhr
                         /\ x.hdr.n \in s.nr .. (h.pn - 1)
                         /\ x.box.key.root = e.mk.root /\ e.mk.i = e.n
      BY <1>10, <2>1, <3>1
    <3>3. x.hdr.dh[2] = s.dhr[2] /\ s.dhr[2] + 1 = K /\ s.nr <= x.hdr.n
      BY <1>2, <1>7, <3>1, <3>2
    <3>4. x # pkt /\ ~Seen(s, x.hdr) /\ Seen(t, x.hdr)
      BY <1>2, <1>8, <1>9, <3>3
    <3>5. QED
      BY <3>2, <3>4
  <2>2. CASE e \in D
    <3>1. PICK x \in S : /\ x.hdr.dh = e.dh /\ x.hdr.n = e.n /\ e.dh = d.dhr
                         /\ x.hdr.n \in 0 .. (h.n - 1)
                         /\ x.box.key.root = e.mk.root /\ e.mk.i = e.n
      BY <1>11, <2>2
    <3>2. x.hdr.dh[2] = K /\ x.hdr.n < h.n
      BY <1>1, <1>2, <3>1 DEF K
    <3>3. x # pkt /\ ~Seen(s, x.hdr) /\ Seen(t, x.hdr)
      BY <1>2, <1>7, <1>8, <1>9, <3>2
    <3>4. QED
      BY <3>1, <3>3
  <2>3. QED
    BY <2>1, <2>2
<1>16. t.skipped = s.skipped \cup (M \cup D)
  BY <1>1, <1>6
<1>17. Gains(s, t, S, M \cup D, pkt)
  BY <1>12, <1>13, <1>14, <1>15, <1>16 DEF Gains
<1>18. QED
  BY <1>17 DEF s, t, S, M, D, d, w, h, q

(* A message of the peer's new ratchet key is delivered: the receiver now   *)
(* leads.                                                                  *)
LEMMA NextDelivery ==
    ASSUME SyncInv, NEW p \in Party, NEW pkt \in sent[Peer(p)],
           pkt.box.pt \notin opened[p], DecryptRc(sess[p], pkt) = "ok",
           SkippedFind(sess[p], pkt.hdr) = {}, NewKey(sess[p], pkt.hdr)
    PROVE  LET t == DecryptState(sess[p], pkt)
           IN  /\ t \in Session /\ SendSync(p, t, sent[p])
               /\ RecvSync(Peer(p), t, sent[Peer(p)], opened[p] \cup {pkt.box.pt})
               /\ Leads(p, t, sess[Peer(p)]) \/ Leads(Peer(p), sess[Peer(p)], t)
<1> DEFINE s == sess[p]
           q == Peer(p)
           u == sess[q]
           S == sent[q]
           h == pkt.hdr
           t == DecryptState(s, pkt)
<1>0. /\ q \in Party /\ s \in Session /\ u \in Session /\ S \in SUBSET Packet
      /\ SessionInv(p, s) /\ SessionInv(q, u) /\ pkt \in Packet /\ pkt \in S
      /\ SentGood(q, S, u.cks, nsent[q]) /\ sent[p] \in SUBSET Packet
      /\ SendSync(p, s, sent[p]) /\ SendSync(q, u, S) /\ RecvSync(q, s, S, opened[p])
  BY PartyFacts
<1>1. /\ t \in Session /\ t.dhs = NextKey(s.dhs) /\ t.dhr = h.dh
      /\ t.ns = 0 /\ t.nr = h.n + 1 /\ t.pn = s.ns
      /\ t.ckr.root = RecvRoot(s, h) /\ t.ckr.i = h.n + 1 /\ t.ckr # NoChain
      /\ t.rk = KdfRk(RecvRoot(s, h), DH(NextKey(s.dhs), h.dh), t.kss_send)
      /\ t.cks.i = 0 /\ KemStepped(s, h, t)
      /\ Leads(q, u, s) /\ h.dh = u.dhs
  BY NextFields
<1>2. PICK N : Gains(s, t, S, N, pkt)
  BY NextGains
<1> HIDE DEF s, q, u, S, t
<1>3. h \in Header /\ HeaderOf(u, h) /\ h.n < u.ns
  <2>1. h \in Header
    BY <1>0, PacketTypes
  <2>2. HeaderOf(u, h) /\ h.n < u.ns
    BY <1>0, <1>1 DEF SendSync
  <2>3. QED
    BY <2>1, <2>2
<1> HIDE DEF h
<1>4. RecvRoot(s, h) = u.rk
  BY <1>0, <1>1, <1>3, KemDerived
<1>5. \A x \in S : x.hdr.dh = t.dhr => x.box.key.root = t.ckr.root
  <2>1. \A x \in S : x.hdr.dh[2] = u.dhs[2] => x.box.key.root = u.rk
    BY <1>0, SealedUnderRoot
  <2>2. QED
    BY <1>1, <1>4, <2>1
<1>6. RecvSync(q, t, S, opened[p] \cup {pkt.box.pt})
  <2>1. t.nr = t.ckr.i
    BY <1>1
  <2>2. t.dhr[1] = q
    BY <1>0, <1>1 DEF SendSync
  <2>3. QED
    BY <1>0, <1>2, <1>5, <2>1, <2>2, RecvForward
<1>7. Len(t.rk) = Len(s.rk) + 2
  <2>1. Len(u.rk) = Len(s.rk) + 1 /\ Len(s.rk) \in Nat /\ u.rk \in Root /\ s.rk \in Root
    BY <1>0, <1>1, FieldTypes, ChainPair DEF Leads
  <2>2. Len(t.rk) = Len(u.rk) + 1
    BY <1>1, <1>4, <2>1 DEF KdfRk, Root
  <2>3. QED
    BY <2>1, <2>2
<1>8. SendSync(p, t, sent[p])
  BY <1>0, <1>1, <1>7, SendStep
<1>9. Leads(p, t, u)
  BY <1>0, <1>1, <1>3, LeadTaken DEF q
<1>10. QED
  BY <1>1, <1>6, <1>8, <1>9 DEF s, t, q, u, S

(* ratchet_decrypt keeps the two sessions synchronised.                    *)
LEMMA DecryptSync ==
    ASSUME SyncInv, NEW p \in Party, NEW pkt \in Network, Decrypt(p, pkt)
    PROVE  SyncInv'
<1>1. IndInv'
  BY DecryptInv DEF SyncInv
<1>2. CASE Reject(p, pkt)
  <2>1. UNCHANGED <<sess, sent, opened>>
    BY <1>2 DEF Decrypt, Reject
  <2>2. Synced'
    BY <2>1 DEF SyncInv, Synced, PartySync
  <2>3. QED
    BY <1>1, <2>2 DEF SyncInv
<1>3. CASE Commit(p, pkt)
  <2> DEFINE t == DecryptState(sess[p], pkt)
  <2>1. /\ DecryptRc(sess[p], pkt) = "ok"
        /\ sess' = [sess EXCEPT ![p] = t] /\ sent' = sent
        /\ opened' = [opened EXCEPT ![p] = opened[p] \cup {pkt.box.pt}]
    BY <1>3 DEF Commit, Decrypt
  <2>2. pkt \in sent[Peer(p)] /\ pkt.box.pt \notin opened[p]
    BY <2>1, CommitGenuine
  <2>3. /\ t \in Session /\ SendSync(p, t, sent[p])
        /\ RecvSync(Peer(p), t, sent[Peer(p)], opened[p] \cup {pkt.box.pt})
        /\ Leads(p, t, sess[Peer(p)]) \/ Leads(Peer(p), sess[Peer(p)], t)
    <3>1. CASE SkippedFind(sess[p], pkt.hdr) # {}
      BY <2>2, <3>1, StoredDelivery
    <3>2. CASE SkippedFind(sess[p], pkt.hdr) = {} /\ ~NewKey(sess[p], pkt.hdr)
      BY <2>1, <2>2, <3>2, CurrentDelivery
    <3>3. CASE SkippedFind(sess[p], pkt.hdr) = {} /\ NewKey(sess[p], pkt.hdr)
      BY <2>1, <2>2, <3>3, NextDelivery
    <3>4. QED
      BY <3>1, <3>2, <3>3
  <2> HIDE DEF t
  <2>4. QED
    BY <1>1, <2>1, <2>3, DeliverySync
<1>4. QED
  BY <1>2, <1>3 DEF Decrypt

LEMMA NextSync == SyncInv /\ [Next]_vars => SyncInv'
<1> SUFFICES ASSUME SyncInv, [Next]_vars PROVE SyncInv'
  OBVIOUS
<1>1. CASE Next
  BY <1>1, EncryptSync, EncryptFailsSync, DecryptSync, ReloadSync DEF Next
<1>2. CASE UNCHANGED vars
  <2>1. UNCHANGED <<sess, sent, opened>>
    BY <1>2 DEF vars
  <2>2. Synced'
    BY <2>1 DEF SyncInv, Synced, PartySync
  <2>3. IndInv'
    BY <1>2, NextInv DEF SyncInv
  <2>4. QED
    BY <2>2, <2>3 DEF SyncInv
<1>3. QED
  BY <1>1, <1>2

LEMMA SyncInductive == Spec => []SyncInv
<1>1. QED
  BY InitSync, NextSync, PTL DEF Spec

(* The double ratchet never wedges: for every store size, KEM cadence and   *)
(* number of messages, ratchet_decrypt opens any outstanding message that   *)
(* was sealed in step with its counter, whatever was lost, reordered,       *)
(* replayed, tampered with or reloaded before, as long as at most MaxSkip   *)
(* other messages are outstanding.                                          *)
THEOREM NeverWedged == Spec => []Decryptable
<1>1. QED
  BY SyncInductive, SyncDecryptable, PTL

(***************************************************************************)
(* Healing.  Position 2 * k + Side(o) of a root is the secret party o      *)
(* mixed in at its k-th ratchet step: none, or one it encapsulated at that *)
(* step or before, and a new one whenever the step is on the cadence.      *)
(***************************************************************************)
OnCadence(k) == k % KemEvery = 0

MixedBy(o, k, ss) == ss = NoSS \/ (ss[1].id[1] = o /\ ss[1].id[2] <= k)

MixedAt(o, k, ss) ==
    /\ MixedBy(o, k, ss)
    /\ k >= 1 /\ OnCadence(k) => ss[1].id = <<o, k>>

RootMixed(rk) ==
    \A o \in Party : \A k \in Nat :
        2 * k + Side(o) \in 1 .. Len(rk) => MixedAt(o, k, rk[2 * k + Side(o)].ss)

SessionMixed(p, s) ==
    /\ RootMixed(s.rk)
    /\ s.send_steps = s.dhs[2]
    /\ MixedBy(p, s.dhs[2], s.kss_send)

MixedInv == \A p \in Party : SessionMixed(p, sess[p])

(* A position of a root is one party's, at one of its steps.               *)
LEMMA PositionOf ==
    /\ \A i \in Nat : i >= 1 => \E o \in Party : \E k \in Nat : i = 2 * k + Side(o)
    /\ \A o, a \in Party : \A k, b \in Nat : 2 * k + Side(o) = 2 * b + Side(a) => o = a /\ k = b
<1>1. Side("I") = 1 /\ Side("R") = 0 /\ Party = {"I", "R"}
  BY DEF Side, Party
<1>2. ASSUME NEW i \in Nat, i >= 1 PROVE \E o \in Party : \E k \in Nat : i = 2 * k + Side(o)
  <2>1. (i \div 2) \in Nat /\ (i = 2 * (i \div 2) \/ i = 2 * (i \div 2) + 1)
    OBVIOUS
  <2>2. QED
    BY <1>1, <2>1
<1>3. ASSUME NEW o \in Party, NEW a \in Party, NEW k \in Nat, NEW b \in Nat,
             2 * k + Side(o) = 2 * b + Side(a)
      PROVE  o = a /\ k = b
  BY <1>1, <1>3
<1>4. QED
  BY <1>2, <1>3

LEMMA MixedSame ==
    ASSUME NEW p, NEW s, NEW t, SessionMixed(p, s), t.rk = s.rk, t.dhs = s.dhs,
           t.send_steps = s.send_steps, t.kss_send = s.kss_send
    PROVE  SessionMixed(p, t)
  BY DEF SessionMixed

(* An action of the other party, or one that leaves the root and the KEM   *)
(* state of the session as they were.                                      *)
LEMMA MixedFrom ==
    ASSUME MixedInv, NEW p \in Party, NEW t, sess \in [Party -> Session],
           sess' = [sess EXCEPT ![p] = t], SessionMixed(p, t)
    PROVE  MixedInv'
<1>1. \A r \in Party : sess'[r] = IF r = p THEN t ELSE sess[r]
  OBVIOUS
<1>2. QED
  BY <1>1 DEF MixedInv

LEMMA MixedInit == PQ /\ Init => MixedInv
<1> SUFFICES ASSUME PQ, Init PROVE MixedInv
  OBVIOUS
<1> DEFINE i == InitInitiator
           r == InitResponder
<1>1. sess["I"] = i /\ sess["R"] = r /\ Party = {"I", "R"} /\ Side("I") = 1 /\ Side("R") = 0
  BY DEF Init, Party, Side
<1>2. /\ r.rk = <<>> /\ r.dhs = <<"R", 0>> /\ r.send_steps = 0 /\ r.kss_send = NoSS
  BY DEF InitResponder, Blank
<1>3. /\ i.rk = KdfRk(<<>>, DH(<<"I", 0>>, <<"R", 0>>), NoSS)
      /\ i.dhs = <<"I", 0>> /\ i.send_steps = 0 /\ i.kss_send = NoSS
  BY DEF InitInitiator, Blank
<1> HIDE DEF i, r
<1>4. Len(i.rk) = 1 /\ i.rk[1].ss = NoSS
  BY <1>3 DEF KdfRk
<1>5. RootMixed(i.rk)
  <2>1. ASSUME NEW o \in Party, NEW k \in Nat, 2 * k + Side(o) \in 1 .. Len(i.rk)
        PROVE  MixedAt(o, k, i.rk[2 * k + Side(o)].ss)
    <3>1. k = 0 /\ 2 * k + Side(o) = 1
      BY <1>1, <1>4, <2>1
    <3>2. QED
      BY <1>4, <3>1 DEF MixedAt, MixedBy
  <2>2. QED
    BY <2>1 DEF RootMixed
<1>6. RootMixed(r.rk)
  BY <1>2 DEF RootMixed
<1>7. QED
  BY <1>1, <1>2, <1>3, <1>5, <1>6 DEF MixedInv, SessionMixed, MixedBy

(* A ratchet step mixes in a new secret when it is on the cadence, and one  *)
(* the party encapsulated before when it is not.                           *)
LEMMA StepMixed ==
    ASSUME PQ, NEW p \in Party, NEW s \in Session, NEW u \in Session, NEW t \in Session,
           SessionMixed(p, s), RootMixed(u.rk), s.dhs[1] = p, t.dhs = NextKey(s.dhs),
           NEW h, KemStepped(s, h, t), KemR(s, h) # NoKey,
           NEW x, t.rk = KdfRk(u.rk, x, t.kss_send),
           Len(t.rk) = 2 * t.dhs[2] + Side(p)
    PROVE  SessionMixed(p, t)
<1> DEFINE k == s.dhs[2] + 1
<1>0. /\ s.dhs[2] \in Nat /\ k \in Nat /\ k >= 1 /\ t.dhs[2] = k /\ s.send_steps = s.dhs[2]
      /\ u.rk \in Root /\ Len(u.rk) \in Nat
      /\ t.send_full \in {0, 1}
  BY FieldTypes, KeyPair, ChainPair DEF SessionMixed
<1>1. t.send_steps = t.dhs[2]
  BY <1>0 DEF KemStepped
<1>2. \/ t.kss_send = s.kss_send /\ ~OnCadence(k)
      \/ t.kss_send[1].id = <<p, k>>
  <2>1. t.kem_r # NoKey
    BY DEF KemStepped
  <2>2. CASE t.send_full = 1
    <3>1. /\ t.pend_ct = [to |-> t.kem_r, id |-> <<s.dhs[1], s.send_steps + 1>>]
          /\ t.kss_send = Decaps(t.pend_ct, t.kem_r)
      BY <2>1, <2>2 DEF KemStepped
    <3>2. t.pend_ct.id = <<p, k>> /\ t.kss_send[1] = t.pend_ct
      BY <1>0, <3>1 DEF Decaps
    <3>3. QED
      BY <3>2
  <2>3. CASE t.send_full # 1
    <3>1. t.kss_send = s.kss_send
      BY <2>3 DEF KemStepped
    <3>2. ~Rotate(s)
      BY <2>3 DEF KemStepped
    <3>3. ~OnCadence(k)
      BY <1>0, <3>2 DEF Rotate, OnCadence
    <3>4. QED
      BY <3>1, <3>3
  <2>4. QED
    BY <2>2, <2>3
<1>3. MixedAt(p, k, t.kss_send)
  <2>1. MixedBy(p, s.dhs[2], s.kss_send)
    BY DEF SessionMixed
  <2>2. CASE t.kss_send = s.kss_send /\ ~OnCadence(k)
    <3>1. s.kss_send # NoSS => s.kss_send[1].id[2] <= k
      <4>1. s.kss_send[1].id[2] \in Nat
        BY FieldTypes, KeyPair DEF Ct
      <4>2. QED
        BY <1>0, <2>1, <4>1 DEF MixedBy
    <3>2. QED
      BY <2>1, <2>2, <3>1 DEF MixedAt, MixedBy
  <2>3. CASE t.kss_send[1].id = <<p, k>>
    BY <1>0, <2>3 DEF MixedAt, MixedBy
  <2>4. QED
    BY <1>2, <2>2, <2>3
<1> HIDE DEF k
<1>4. RootMixed(t.rk)
  <2>1. /\ Len(t.rk) = Len(u.rk) + 1
        /\ t.rk[Len(t.rk)].ss = t.kss_send
        /\ \A i \in 1 .. Len(u.rk) : t.rk[i] = u.rk[i]
    BY <1>0 DEF KdfRk, Root
  <2>2. ASSUME NEW o \in Party, NEW j \in Nat, 2 * j + Side(o) \in 1 .. Len(t.rk)
        PROVE  MixedAt(o, j, t.rk[2 * j + Side(o)].ss)
    <3>1. CASE 2 * j + Side(o) \in 1 .. Len(u.rk)
      BY <2>1, <3>1 DEF RootMixed
    <3>2. CASE 2 * j + Side(o) = Len(t.rk)
      <4>1. 2 * j + Side(o) = 2 * k + Side(p) /\ k \in Nat
        BY <1>0, <3>2
      <4>2. o = p /\ j = k
        BY ONLY o \in Party, j \in Nat, p \in Party, <4>1, PositionOf
      <4>3. QED
        BY <1>3, <2>1, <3>2, <4>2
    <3>3. 2 * j + Side(o) \in Int
      BY DEF Side
    <3>4. QED
      BY <1>0, <2>1, <2>2, <3>1, <3>2, <3>3
  <2>3. QED
    BY <2>2 DEF RootMixed
<1>5. MixedBy(p, t.dhs[2], t.kss_send)
  BY <1>0, <1>3 DEF MixedAt
<1>6. QED
  BY <1>1, <1>4, <1>5 DEF SessionMixed

LEMMA DecryptMixed ==
    ASSUME PQ, SyncInv, MixedInv, NEW p \in Party, NEW pkt \in Network, Decrypt(p, pkt)
    PROVE  MixedInv'
<1> DEFINE s == sess[p]
           q == Peer(p)
           u == sess[q]
           h == pkt.hdr
           t == DecryptState(s, pkt)
<1>0. /\ q \in Party /\ s \in Session /\ u \in Session /\ SessionInv(p, s)
      /\ SessionMixed(p, s) /\ RootMixed(u.rk) /\ s.dhs[1] = p
      /\ sess \in [Party -> Session]
      /\ SendSync(q, u, sent[q])
  <2>1. SendSync(p, s, sent[p]) /\ SendSync(q, u, sent[q])
    BY PartyFacts
  <2>2. sess \in [Party -> Session]
    BY DEF SyncInv, IndInv, TypeOK
  <2>3. QED
    BY <2>1, <2>2, PartyFacts DEF SendSync, MixedInv, SessionMixed
<1>1. CASE Reject(p, pkt)
  BY <1>1 DEF Reject, MixedInv
<1>2. CASE Commit(p, pkt)
  <2>1. DecryptRc(s, pkt) = "ok" /\ sess' = [sess EXCEPT ![p] = t]
    BY <1>2 DEF Commit
  <2>2. pkt \in sent[q] /\ pkt.box.pt \notin opened[p] /\ pkt \in Packet
    BY <2>1, CommitGenuine, PartyFacts
  <2>3. CASE SkippedFind(s, h) # {}
    <3>1. t = [s EXCEPT !.skipped = @ \ SkippedFind(s, h)]
      BY <2>3 DEF DecryptState
    <3>2. /\ t.rk = s.rk /\ t.dhs = s.dhs
          /\ t.send_steps = s.send_steps /\ t.kss_send = s.kss_send
      BY <1>0, <3>1 DEF Session
    <3> HIDE DEF t, s
    <3>3. SessionMixed(p, t)
      BY <1>0, <3>2, MixedSame
    <3>4. QED
      BY <1>0, <2>1, <3>3, MixedFrom
  <2>4. CASE SkippedFind(s, h) = {} /\ ~NewKey(s, h)
    <3>1. SkipRc(Stepped(s, h), h.n) = "ok" /\ Ready(s, h).ckr # NoChain
      BY <2>1, <2>4, DecryptWays
    <3>2. SameSending(s, t)
      BY <1>0, <2>2, <2>4, <3>1, CurrentFields
    <3> HIDE DEF t, s
    <3>3. SessionMixed(p, t)
      BY <1>0, <3>2, MixedSame DEF SameSending, SameKem
    <3>4. QED
      BY <1>0, <2>1, <3>3, MixedFrom
  <2>5. CASE SkippedFind(s, h) = {} /\ NewKey(s, h)
    <3>1. /\ t \in Session /\ t.dhs = NextKey(s.dhs) /\ KemStepped(s, h, t)
          /\ t.rk = KdfRk(RecvRoot(s, h), DH(NextKey(s.dhs), h.dh), t.kss_send)
          /\ Leads(q, u, s) /\ h.dh = u.dhs
      BY <2>1, <2>2, <2>5, NextFields
    <3>2. SendSync(p, t, sent[p])
      BY <2>1, <2>2, <2>5, NextDelivery
    <3>3. h \in Header
      BY <2>2, PacketTypes
    <3> HIDE DEF t, s, u, q, h
    <3>4. HeaderOf(u, h)
      BY <1>0, <2>2, <3>1 DEF SendSync, h
    <3>5. RecvRoot(s, h) = u.rk /\ KemR(s, h) = u.kem
      BY <1>0, <3>1, <3>3, <3>4, KemDerived
    <3>6. u.kem # NoKey
      BY <1>0, <3>1, KeyPair DEF Leads, KemSync
    <3>7. Len(t.rk) = 2 * t.dhs[2] + Side(p)
      BY <3>2 DEF SendSync
    <3>8. SessionMixed(p, t)
      BY <1>0, <3>1, <3>5, <3>6, <3>7, StepMixed
    <3>9. QED
      BY <1>0, <2>1, <3>8, MixedFrom DEF s
  <2>6. QED
    BY <2>3, <2>4, <2>5
<1>3. QED
  BY <1>1, <1>2 DEF Decrypt

LEMMA NextMixed == PQ /\ SyncInv /\ MixedInv /\ [Next]_vars => MixedInv'
<1> SUFFICES ASSUME PQ, SyncInv, MixedInv, [Next]_vars PROVE MixedInv'
  OBVIOUS
<1>0. /\ sess \in [Party -> Session]
      /\ \A p \in Party : SessionMixed(p, sess[p])
  BY DEF SyncInv, IndInv, TypeOK, MixedInv
<1>1. ASSUME NEW p \in Party, NEW t, sess' = [sess EXCEPT ![p] = t],
             t.rk = sess[p].rk, t.dhs = sess[p].dhs,
             t.send_steps = sess[p].send_steps, t.kss_send = sess[p].kss_send
      PROVE  MixedInv'
  <2>1. SessionMixed(p, t)
    BY <1>0, <1>1, MixedSame
  <2>2. QED
    BY <1>0, <1>1, <2>1, MixedFrom
<1>2. ASSUME NEW p \in Party, Encrypt(p) PROVE MixedInv'
  <2> DEFINE t == Counted(Burned(sess[p]))
  <2>1. sess' = [sess EXCEPT ![p] = t]
    BY <1>2 DEF Encrypt
  <2>2. /\ t.rk = sess[p].rk /\ t.dhs = sess[p].dhs
        /\ t.send_steps = sess[p].send_steps /\ t.kss_send = sess[p].kss_send
    BY <1>0 DEF Counted, Burned, Session
  <2> HIDE DEF t
  <2>3. QED
    BY <1>1, <2>1, <2>2
<1>3. ASSUME NEW p \in Party, EncryptFails(p) PROVE MixedInv'
  <2> DEFINE t == Burned(sess[p])
  <2>1. sess' = [sess EXCEPT ![p] = t]
    BY <1>3 DEF EncryptFails
  <2>2. /\ t.rk = sess[p].rk /\ t.dhs = sess[p].dhs
        /\ t.send_steps = sess[p].send_steps /\ t.kss_send = sess[p].kss_send
    BY <1>0 DEF Burned, Session
  <2> HIDE DEF t
  <2>3. QED
    BY <1>1, <2>1, <2>2
<1>4. ASSUME NEW p \in Party, Reload(p) PROVE MixedInv'
  <2> DEFINE t == Unpack(Pack(sess[p]))
  <2>1. sess' = [sess EXCEPT ![p] = t]
    BY <1>4 DEF Reload
  <2>2. /\ t.rk = sess[p].rk /\ t.dhs = sess[p].dhs
        /\ t.send_steps = sess[p].send_steps /\ t.kss_send = sess[p].kss_send
    BY DEF Pack, Unpack
  <2> HIDE DEF t
  <2>3. QED
    BY <1>1, <2>1, <2>2
<1>5. CASE UNCHANGED vars
  BY <1>5 DEF vars, MixedInv
<1>6. QED
  BY <1>2, <1>3, <1>4, <1>5, DecryptMixed DEF Next

(* Any KemEvery consecutive counters have one on the cadence.              *)
LEMMA CadenceComes ==
    ASSUME NEW k \in Nat PROVE \E j \in 0 .. (KemEvery - 1) : OnCadence(k + j)
<1> DEFINE K == KemEvery
           r == k % K
<1>1. K \in Nat /\ K >= 1
  BY RatchetAssumption
<1>2. r \in 0 .. (K - 1) /\ (k \div K) \in Nat /\ k = K * (k \div K) + r
  BY <1>1
<1>3. CASE r = 0
  BY <1>1, <1>3 DEF OnCadence
<1>4. CASE r # 0
  <2>1. K - r \in 0 .. (K - 1) /\ k + (K - r) = K * ((k \div K) + 1)
    BY <1>1, <1>2, <1>4
  <2>2. (K * ((k \div K) + 1)) % K = 0
    BY <1>1, <1>2
  <2>3. QED
    BY <2>1, <2>2 DEF OnCadence
<1>5. QED
  BY <1>3, <1>4

LEMMA MixedHeals == SyncInv /\ MixedInv => HealsWithinK
<1> SUFFICES ASSUME SyncInv, MixedInv, NEW p \in Party, NEW q \in 2 .. Len(sess[p].rk),
                    q + 2 * (KemEvery - 1) <= Len(sess[p].rk)
             PROVE  \E j \in 0 .. (KemEvery - 1) : Fresh(sess[p].rk, q + 2 * j)
  BY DEF HealsWithinK
<1> DEFINE rk == sess[p].rk
<1>0. RootMixed(rk) /\ rk \in Root /\ Len(rk) \in Nat /\ KemEvery \in Nat /\ q \in Nat
  BY PartyFacts, FieldTypes, ChainPair, RatchetAssumption DEF MixedInv, SessionMixed
<1> HIDE DEF rk
<1>1. PICK o \in Party, k \in Nat : q = 2 * k + Side(o)
  BY <1>0, PositionOf
<1>2. k >= 1 /\ Side(o) \in {0, 1}
  BY <1>1 DEF Side
<1>3. PICK j \in 0 .. (KemEvery - 1) : OnCadence(k + j)
  BY CadenceComes
<1> DEFINE i == q + 2 * j
<1>4. /\ k + j \in Nat /\ k + j >= 1 /\ i = 2 * (k + j) + Side(o) /\ i \in 1 .. Len(rk)
  <2> DEFINE s == Side(o)
             n == Len(rk)
             K == KemEvery
  <2>1. /\ k \in Nat /\ k >= 1 /\ s \in {0, 1} /\ n \in Nat /\ q \in Nat /\ q >= 2
        /\ q = 2 * k + s /\ K \in Nat
    BY <1>0, <1>1, <1>2
  <2>2. q + 2 * (K - 1) <= n
    BY DEF rk
  <2>3. j \in Nat /\ j <= K - 1
    BY <1>3, <2>1
  <2> HIDE DEF s, n, K
  <2>4. i \in Nat /\ i >= 1 /\ i <= n
    BY ONLY <2>1, <2>2, <2>3
  <2>5. k + j \in Nat /\ k + j >= 1 /\ i = 2 * (k + j) + s
    BY ONLY <2>1, <2>3
  <2>6. QED
    BY ONLY <2>1, <2>4, <2>5 DEF s, n
<1>5. rk[i].ss[1].id = <<o, k + j>>
  BY <1>0, <1>3, <1>4 DEF RootMixed, MixedAt
<1>6. rk[i].ss # NoSS
  BY <1>5, KeyPair DEF NoSS, NoCt
<1> HIDE DEF i
<1>7. ASSUME NEW x \in 1 .. (i - 1), rk[x].ss = rk[i].ss PROVE FALSE
  <2>0. x \in Nat /\ x >= 1 /\ x < i /\ x \in 1 .. Len(rk)
    BY <1>0, <1>4
  <2>1. PICK a \in Party, b \in Nat : x = 2 * b + Side(a)
    BY ONLY <2>0, PositionOf
  <2>2. MixedBy(a, b, rk[x].ss)
    BY <1>0, <2>0, <2>1 DEF RootMixed, MixedAt
  <2>3. a = o /\ k + j <= b
    BY <1>5, <1>6, <1>7, <2>2 DEF MixedBy
  <2>4. QED
    BY <1>2, <1>4, <2>0, <2>1, <2>3
<1>8. Fresh(rk, i)
  BY <1>6, <1>7 DEF Fresh
<1>9. QED
  BY <1>8 DEF rk, i

(* Post-compromise security heals within KemEvery ratchet steps, for every  *)
(* cadence and every order of delivery: the PQ session's dh_ratchet and     *)
(* make_kem_step mix into the root, at least once in any KemEvery steps of  *)
(* a party, a KEM secret that was in no earlier root.                       *)
THEOREM HealsOnCadence == PQ => (Spec => []HealsWithinK)
<1> SUFFICES ASSUME PQ PROVE Spec => []HealsWithinK
  OBVIOUS
<1>1. Init => MixedInv
  BY MixedInit
<1>2. SyncInv /\ MixedInv /\ [Next]_vars => MixedInv'
  BY NextMixed
<1>3. QED
  BY <1>1, <1>2, SyncInductive, MixedHeals, PTL DEF Spec
==============================================================================
