--------------------------- MODULE RatchetHEProofs ---------------------------
(***************************************************************************)
(* Proofs that the header-encrypted ratchet is the classical one with its  *)
(* headers veiled: the chain ratchet_decrypt_he finds by trial is the one  *)
(* the ratchet key in the header names.                                    *)
(*                                                                         *)
(* In a classical session the root of length n is always the same, RootAt, *)
(* and so is the header key of the chain that hangs from it, HkAt.  The    *)
(* invariant says that every header key a session or a packet holds is the *)
(* one of its place in that order; the rest is what RatchetProofs          *)
(* shows of the classical sessions underneath.                             *)
(***************************************************************************)
EXTENDS RatchetHE, RatchetProofs, SequenceTheorems

(* The root after n ratchet steps, and the place of a ratchet key: the     *)
(* length of the root its sending chain hangs from.                        *)
MixAt(m) == [dh |-> {<<"I", (m - 1) \div 2>>, <<"R", m \div 2>>}, ss |-> NoSS]
RootAt(n) == [m \in 1 .. n |-> MixAt(m)]

Place(key) == 2 * key[2] + Side(key[1])

(* The header key of the sending chain that hangs from the root of length  *)
(* n; the responder's root of length 0 has no chain.                       *)
HkAt(n) ==
    CASE n = 0 -> NoHk
      [] n = 1 -> HKA
      [] n = 2 -> NHKB
      [] OTHER -> HeaderKeyOf(RootAt(n - 2))

HeaderKey == [tag : {"none", "hka", "nhkb", "rk"}, root : Root]
SkippedHE == [dh : Key, n : Nat, mk : ChainKey, hk : HeaderKey]
HeaderHE == [hk : HeaderKey, hpt : [dh : Key, pn : Nat, n : Nat]]
BoxHE == [key : ChainKey, n : Nat, aad : HeaderHE, pt : Plain]
PacketHE == [hdr : HeaderHE, box : BoxHE]

Field == DOMAIN InitResponder

HeSession(s) ==
    /\ DOMAIN s = Field \cup {"hks", "hkr", "nhks", "nhkr"}
    /\ s.rk = RootAt(Len(s.rk))
    /\ s.hks = HkAt(Len(s.rk))
    /\ s.nhks = HkAt(Len(s.rk) + 2)
    /\ s.hkr = HkAt(Place(s.dhr))
    /\ s.nhkr = HkAt(Len(s.rk) + 1)
    /\ \A e \in s.skipped : e \in SkippedHE /\ e.hk = HkAt(Place(e.dh))

HePacket(pkt) ==
    /\ pkt \in PacketHE
    /\ pkt.box.aad = pkt.hdr
    /\ pkt.hdr.hk = HkAt(Place(pkt.hdr.hpt.dh))
    /\ pkt.hdr.hk # NoHk

Veil ==
    /\ \A p \in Party : HeSession(sess[p])
    /\ \A pkt \in Genuine : HePacket(pkt)
    /\ DOMAIN sess = Party
    /\ DOMAIN sent = Party

(* The sessions and packets underneath, and what is proved about them.     *)
Open == INSTANCE RatchetProofs WITH
    sess <- [p \in Party |-> Unveiled(sess[p])],
    sent <- [p \in Party |-> {UnveiledPacket(pkt) : pkt \in sent[p]}]

VeilInv == Open!SyncInv /\ Veil

(***************************************************************************)
(* The order of the header keys.                                           *)
(***************************************************************************)
LEMMA RootAtLength ==
    ASSUME NEW n \in Nat
    PROVE  RootAt(n) \in Seq({MixAt(m) : m \in 1 .. n}) /\ Len(RootAt(n)) = n
<1> DEFINE S == {MixAt(m) : m \in 1 .. n}
<1>1. RootAt(n) \in [1 .. n -> S]
  BY DEF RootAt
<1> HIDE DEF S
<1>2. RootAt(n) \in Seq(S)
  BY <1>1, SeqDef
<1>3. Len(RootAt(n)) = n
  BY <1>1, <1>2, LenProperties
<1>4. QED
  BY <1>2, <1>3 DEF S

(* No two places have the same header key.                                 *)
LEMMA HkInjective ==
    ASSUME NEW m \in Nat, NEW n \in Nat, HkAt(m) = HkAt(n)
    PROVE  m = n
<1>1. /\ NoHk.tag = "none" /\ HKA.tag = "hka" /\ NHKB.tag = "nhkb"
      /\ \A rk : HeaderKeyOf(rk).tag = "rk" /\ HeaderKeyOf(rk).root = rk
  BY DEF NoHk, HKA, NHKB, HeaderKeyOf
<1>2. /\ HkAt(0) = NoHk /\ HkAt(1) = HKA /\ HkAt(2) = NHKB
      /\ \A k \in Nat : k \notin {0, 1, 2} => HkAt(k) = HeaderKeyOf(RootAt(k - 2))
  BY DEF HkAt
<1>3. CASE m \in {0, 1, 2} \/ n \in {0, 1, 2}
  BY <1>1, <1>2, <1>3
<1>4. CASE m \notin {0, 1, 2} /\ n \notin {0, 1, 2}
  <2>1. RootAt(m - 2) = RootAt(n - 2)
    BY <1>1, <1>2, <1>4
  <2>2. m - 2 \in Nat /\ n - 2 \in Nat
    BY <1>4
  <2>3. Len(RootAt(m - 2)) = m - 2 /\ Len(RootAt(n - 2)) = n - 2
    BY <2>2, RootAtLength
  <2>4. QED
    BY <2>1, <2>2, <2>3
<1>5. QED
  BY <1>3, <1>4

(* A header key that has been derived is not the empty one.                *)
LEMMA HkNone == \A n \in Nat : HkAt(n) = NoHk <=> n = 0
<1>1. HkAt(0) = NoHk
  BY DEF HkAt
<1>2. QED
  BY <1>1, HkInjective

LEMMA PlaceType == \A k \in Key : Place(k) \in Nat
  BY KeyPair DEF Place, Side

(* The parity of a place is the side of its party, so a ratchet key of one *)
(* of the two parties is told by its place.                                *)
LEMMA PlaceInjective ==
    ASSUME NEW j \in Key, NEW k \in Key, j[1] \in Party, k[1] \in Party,
           Place(j) = Place(k)
    PROVE  j = k
<1>1. j[2] \in Nat /\ k[2] \in Nat
  BY KeyPair
<1>2. 2 * j[2] + Side(j[1]) = 2 * k[2] + Side(k[1])
  BY DEF Place
<1>3. j[1] = k[1] /\ j[2] = k[2]
  BY <1>1, <1>2 DEF Side, Party
<1>4. QED
  BY <1>3, KeyPair

(* A ratchet key of the peer is never at a place of one's own.             *)
LEMMA PlaceParity ==
    ASSUME NEW j \in Key, NEW k \in Key, j[1] \in Party, k[1] = Peer(j[1])
    PROVE  Place(j) # Place(k)
<1>1. k[1] \in Party /\ k[1] # j[1]
  BY PeerType
<1>2. QED
  BY <1>1, PlaceInjective

LEMMA Halves == \A k \in Nat : (2 * k) \div 2 = k /\ (2 * k + 1) \div 2 = k
  OBVIOUS

(* One ratchet step further: the secret of two adjacent places.            *)
LEMMA RootStep ==
    ASSUME NEW p \in Party, NEW a \in Key, NEW b \in Key, a[1] = p, b[1] = Peer(p),
           Place(b) = Place(a) + 1
    PROVE  /\ KdfRk(RootAt(Place(a)), DH(a, b), NoSS) = RootAt(Place(b))
           /\ NextKey(a) \in Key /\ Place(NextKey(a)) = Place(b) + 1 /\ NextKey(a)[1] = p
<1>0. /\ a[2] \in Nat /\ b[2] \in Nat /\ a = <<a[1], a[2]>> /\ b = <<b[1], b[2]>>
      /\ Place(a) \in Nat /\ Place(b) \in Nat
  BY KeyPair, PlaceType
<1> DEFINE n == Place(a)
<1>1. DH(a, b) = {<<"I", n \div 2>>, <<"R", (n + 1) \div 2>>}
  <2>1. CASE p = "I"
    <3>0. b[1] = "R" /\ n = 2 * a[2] + 1 /\ n + 1 = 2 * b[2]
      BY <1>0, <2>1 DEF Place, Side, Peer
    <3>1. a[2] = n \div 2 /\ b[2] = (n + 1) \div 2
      BY <1>0, <3>0, Halves
    <3>2. QED
      BY <1>0, <2>1, <3>0, <3>1 DEF DH
  <2>2. CASE p = "R"
    <3>0. b[1] = "I" /\ n = 2 * a[2] /\ n + 1 = 2 * b[2] + 1
      BY <1>0, <2>2 DEF Place, Side, Peer
    <3>1. a[2] = (n + 1) \div 2 /\ b[2] = n \div 2
      BY <1>0, <3>0, Halves
    <3>2. QED
      BY <1>0, <2>2, <3>0, <3>1 DEF DH
  <2>3. QED
    BY <2>1, <2>2 DEF Party
<1>2. KdfRk(RootAt(n), DH(a, b), NoSS) = Append(RootAt(n), MixAt(n + 1))
  <2>1. (n + 1) - 1 = n
    BY <1>0
  <2>2. MixAt(n + 1) = [dh |-> DH(a, b), ss |-> NoSS]
    BY <1>1, <2>1, Zenon DEF MixAt
  <2>3. QED
    BY <2>2 DEF KdfRk
<1> HIDE DEF n
<1>3. \A m \in Nat : RootAt(m) = [j \in 1 .. m |-> MixAt(j)]
  BY DEF RootAt
<1>4. Append(RootAt(n), MixAt(n + 1)) = RootAt(n + 1)
  <2>0. n \in Nat
    BY <1>0 DEF n
  <2>1. /\ RootAt(n) = [j \in 1 .. n |-> MixAt(j)]
        /\ RootAt(n + 1) = [j \in 1 .. (n + 1) |-> MixAt(j)]
    BY <1>3, <2>0
  <2>2. Len(RootAt(n)) = n
    BY <2>0, RootAtLength
  <2>3. Append(RootAt(n), MixAt(n + 1))
          = [j \in 1 .. (n + 1) |-> IF j <= n THEN RootAt(n)[j] ELSE MixAt(n + 1)]
    BY <2>0, <2>2, RootAtLength
  <2>4. QED
    BY <2>0, <2>1, <2>3
<1>5. /\ NextKey(a) \in Key /\ NextKey(a)[1] = a[1] /\ NextKey(a)[2] = a[2] + 1
  BY KeyPair, KeyType
<1>6. Place(NextKey(a)) = Place(a) + 2
  BY <1>0, <1>5 DEF Place, Side
<1>7. QED
  BY <1>0, <1>2, <1>4, <1>5, <1>6 DEF n

(***************************************************************************)
(* The stages of ratchet_decrypt_he on a session, and those of             *)
(* ratchet_decrypt on what is underneath.                                  *)
(***************************************************************************)
(* The entries of the store without their header keys.                     *)
BareOf(e) == [dh |-> e.dh, n |-> e.n, mk |-> e.mk]
Bare(S) == {BareOf(e) : e \in S}

(* Entries as skip_message_keys files them, under a header key.            *)
TaggedOf(e, hk) == [dh |-> e.dh, n |-> e.n, mk |-> e.mk, hk |-> hk]
Tagged(S, hk) == {TaggedOf(e, hk) : e \in S}

LEMMA Fields ==
    /\ Field = {"rk", "dhs", "dhr", "cks", "ckr", "ns", "nr", "pn", "skipped", "kem", "kem_r",
                "pend_ct", "kss_send", "kss_recv", "send_full", "advertised", "send_steps"}
    /\ \A s \in Session : DOMAIN s = Field /\ s = [f \in Field |-> s[f]]
  BY DEF Field, InitResponder, Blank, Session

LEMMA UnveiledFields ==
    ASSUME NEW s
    PROVE  /\ DOMAIN Unveiled(s) = Field
           /\ Unveiled(s) = [f \in Field |-> Unveiled(s)[f]]
           /\ \A f \in Field \ {"skipped"} : Unveiled(s)[f] = s[f]
           /\ Unveiled(s).skipped = Bare(s.skipped)
  BY Fields DEF Unveiled, Bare, BareOf, Field

LEMMA NamedFields ==
    ASSUME NEW s
    PROVE  LET U == Unveiled(s)
           IN  /\ U.rk = s.rk /\ U.dhs = s.dhs /\ U.dhr = s.dhr /\ U.cks = s.cks
               /\ U.ckr = s.ckr /\ U.ns = s.ns /\ U.nr = s.nr /\ U.pn = s.pn
               /\ U.kss_send = s.kss_send /\ U.kss_recv = s.kss_recv
               /\ U.skipped = Bare(s.skipped)
  BY UnveiledFields, Fields

(* Two sessions underneath are equal when their fields are.                *)
LEMMA UnveiledEqual ==
    ASSUME NEW s, NEW t, DOMAIN t = Field, t = [f \in Field |-> t[f]],
           \A f \in Field \ {"skipped"} : s[f] = t[f],
           Bare(s.skipped) = t.skipped
    PROVE  Unveiled(s) = t
<1>1. ASSUME NEW f \in Field PROVE Unveiled(s)[f] = t[f]
  BY UnveiledFields
<1>2. QED
  BY <1>1, UnveiledFields

(* skip_message_keys.                                                      *)
LEMMA UnveilStash ==
    ASSUME NEW s, NEW u, NEW hk
    PROVE  /\ Stash(Unveiled(s), u) = Stash(s, u)
           /\ Bare(Tagged(Stash(s, u), hk)) = Stash(s, u)
<1>1. Stash(Unveiled(s), u) = Stash(s, u)
  BY NamedFields DEF Stash
<1>2. ASSUME NEW e \in Stash(s, u)
      PROVE  BareOf(e) = e
  <2>1. PICK m \in s.nr .. (u - 1) :
          e = [dh |-> s.dhr, n |-> m, mk |-> Advance(s.ckr, m - s.nr)]
    BY DEF Stash
  <2>2. QED
    BY <2>1 DEF BareOf
<1>3. \A e : BareOf(TaggedOf(e, hk)) = BareOf(e)
  BY DEF BareOf, TaggedOf
<1> DEFINE S == Stash(s, u)
<1> HIDE DEF S
<1>4. Bare(Tagged(S, hk)) = {BareOf(e) : e \in S}
  BY <1>3 DEF Bare, Tagged
<1>5. \A e \in S : BareOf(e) = e
  BY <1>2 DEF S
<1>6. {BareOf(e) : e \in S} = S
  BY <1>5
<1>7. QED
  BY <1>1, <1>4, <1>6 DEF S

LEMMA BareUnion == \A S, T : Bare(S \cup T) = Bare(S) \cup Bare(T)
  BY DEF Bare

LEMMA UnveilSkip ==
    ASSUME NEW s, Field \subseteq DOMAIN s, NEW u
    PROVE  /\ Unveiled(SkipToHE(s, u)) = SkipTo(Unveiled(s), u)
           /\ DOMAIN SkipToHE(s, u) = DOMAIN s
<1> DEFINE U == Unveiled(s)
           new == s.skipped \cup Tagged(Stash(s, u), s.hkr)
           a == SkipToHE(s, u)
           b == SkipTo(U, u)
<1>1. CASE s.ckr = NoChain
  BY <1>1, NamedFields DEF SkipToHE, SkipTo
<1>2. CASE s.ckr # NoChain
  <2>1. a = [s EXCEPT !.skipped = new, !.ckr = Advance(s.ckr, u - s.nr), !.nr = u]
    BY <1>2, Fields DEF SkipToHE, SkipTo, Tagged, TaggedOf
  <2>2. b = [U EXCEPT !.skipped = U.skipped \cup Stash(U, u),
                      !.ckr = Advance(U.ckr, u - U.nr), !.nr = u]
    BY <1>2, NamedFields DEF SkipTo
  <2>3. Bare(new) = U.skipped \cup Stash(U, u)
    <3>1. Bare(new) = Bare(s.skipped) \cup Bare(Tagged(Stash(s, u), s.hkr))
      BY BareUnion
    <3>2. Bare(Tagged(Stash(s, u), s.hkr)) = Stash(U, u)
      BY UnveilStash
    <3>3. Bare(s.skipped) = U.skipped
      BY NamedFields
    <3>4. QED
      BY <3>1, <3>2, <3>3
  <2> HIDE DEF new
  <2>4. DOMAIN b = Field /\ b = [f \in Field |-> b[f]]
    BY <2>2, UnveiledFields
  <2>5. ASSUME NEW f \in Field \ {"skipped"} PROVE a[f] = b[f]
    <3>0. /\ U[f] = s[f] /\ U.ckr = s.ckr /\ U.nr = s.nr
          /\ f \in DOMAIN s /\ f \in DOMAIN U /\ f # "skipped"
      BY UnveiledFields, NamedFields
    <3> HIDE DEF a, b, U
    <3>1. a[f] = IF f = "ckr" THEN Advance(s.ckr, u - s.nr) ELSE IF f = "nr" THEN u ELSE s[f]
      BY <2>1, <3>0
    <3>2. b[f] = IF f = "ckr" THEN Advance(U.ckr, u - U.nr) ELSE IF f = "nr" THEN u ELSE U[f]
      BY <2>2, <3>0
    <3>4. QED
      BY <3>0, <3>1, <3>2
  <2>6. a.skipped = new /\ b.skipped = U.skipped \cup Stash(U, u)
    BY <2>1, <2>2, Fields, UnveiledFields
  <2>7. DOMAIN a = DOMAIN s
    BY <2>1
  <2>8. QED
    BY <2>3, <2>4, <2>5, <2>6, <2>7, UnveiledEqual, SMTT(30)
<1>3. QED
  BY <1>1, <1>2

(* dh_ratchet of a classical session, field by field.                      *)
PlainRecv(s, h) == KdfRk(s.rk, DH(s.dhs, h.dh), s.kss_recv)
PlainSend(s, h) == KdfRk(PlainRecv(s, h), DH(NextKey(s.dhs), h.dh), s.kss_send)

PlainField(s, h, f) ==
    IF f = "pn" THEN s.ns
    ELSE IF f \in {"ns", "nr"} THEN 0
    ELSE IF f = "dhr" THEN h.dh
    ELSE IF f = "dhs" THEN NextKey(s.dhs)
    ELSE IF f = "rk" THEN PlainSend(s, h)
    ELSE IF f = "ckr" THEN ChainOf(PlainRecv(s, h))
    ELSE IF f = "cks" THEN ChainOf(PlainSend(s, h))
    ELSE s[f]

LEMMA PlainStep ==
    ASSUME NEW s, Field \subseteq DOMAIN s, NEW h
    PROVE  /\ DOMAIN DHRatchet(s, h) = DOMAIN s
           /\ DHRatchet(s, h) = [f \in DOMAIN s |-> DHRatchet(s, h)[f]]
           /\ \A f \in DOMAIN s : DHRatchet(s, h)[f] = PlainField(s, h, f)
           /\ RecvHalf(s, h).rk = PlainRecv(s, h)
           /\ SendRoot(RecvHalf(s, h)) = PlainSend(s, h)
<1> DEFINE r == RecvHalf(s, h)
<1>1. ~ PQ
  BY ClassicalAssumption
<1>2. RecvRoot(s, h) = PlainRecv(s, h)
  BY <1>1 DEF RecvRoot, KssRecv, PqFull, PlainRecv
<1>3. r = [s EXCEPT !.pn = s.ns, !.ns = 0, !.nr = 0, !.dhr = h.dh,
                    !.kem_r = s.kem_r, !.kss_recv = s.kss_recv,
                    !.rk = PlainRecv(s, h), !.ckr = ChainOf(PlainRecv(s, h))]
  BY <1>1, <1>2 DEF RecvHalf, KemR, KssRecv, PqFull
<1>4. /\ r.dhs = s.dhs /\ r.dhr = h.dh /\ r.kss_send = s.kss_send /\ r.rk = PlainRecv(s, h)
      /\ DOMAIN r = DOMAIN s
  BY <1>3, Fields
<1> HIDE DEF r
<1>5. SendRoot(r) = PlainSend(s, h)
  BY <1>1, <1>4 DEF SendRoot, Cadence, PlainSend
<1>6. DHRatchet(s, h) = [r EXCEPT !.dhs = NextKey(s.dhs), !.rk = PlainSend(s, h),
                                  !.cks = ChainOf(PlainSend(s, h))]
  BY <1>1, <1>4, <1>5 DEF DHRatchet, SendHalf, Cadence, r
<1>7. ASSUME NEW f \in DOMAIN s
      PROVE  r[f] = IF f = "pn" THEN s.ns
                    ELSE IF f \in {"ns", "nr"} THEN 0
                    ELSE IF f = "dhr" THEN h.dh
                    ELSE IF f = "rk" THEN PlainRecv(s, h)
                    ELSE IF f = "ckr" THEN ChainOf(PlainRecv(s, h))
                    ELSE s[f]
  BY <1>3, <1>7
<1>8. ASSUME NEW f \in DOMAIN s PROVE DHRatchet(s, h)[f] = PlainField(s, h, f)
  BY <1>4, <1>6, <1>7, <1>8 DEF PlainField
<1>9. DOMAIN DHRatchet(s, h) = DOMAIN s
  BY <1>4, <1>6
<1>10. DHRatchet(s, h) = [f \in DOMAIN s |-> DHRatchet(s, h)[f]]
  BY <1>4, <1>6
<1>11. QED
  BY <1>4, <1>5, <1>8, <1>9, <1>10 DEF r

(* dh_ratchet_he is dh_ratchet and a move of the header keys.              *)
LEMMA UnveilStep ==
    ASSUME NEW s, NEW h, Field \subseteq DOMAIN s,
           {"hks", "hkr", "nhks", "nhkr"} \subseteq DOMAIN s
    PROVE  LET t == DHRatchetHE(s, h)
           IN  /\ Unveiled(t) = DHRatchet(Unveiled(s), h)
               /\ DOMAIN t = DOMAIN s
               /\ t.skipped = s.skipped
               /\ t.hks = s.nhks /\ t.hkr = s.nhkr
               /\ t.nhkr = HeaderKeyOf(PlainRecv(s, h))
               /\ t.nhks = HeaderKeyOf(PlainSend(s, h))
               /\ \A f \in Field : t[f] = PlainField(s, h, f)
<1> DEFINE U == Unveiled(s)
           t == DHRatchetHE(s, h)
           d == DHRatchet(s, h)
           b == DHRatchet(U, h)
<1>1. t = [d EXCEPT !.hks = s.nhks, !.hkr = s.nhkr,
                    !.nhkr = HeaderKeyOf(PlainRecv(s, h)),
                    !.nhks = HeaderKeyOf(PlainSend(s, h))]
  BY PlainStep, Zenon DEF DHRatchetHE, DHRatchet
<1>2. /\ DOMAIN d = DOMAIN s
      /\ \A f \in DOMAIN s : d[f] = PlainField(s, h, f)
  BY PlainStep
<1>3. /\ DOMAIN b = Field /\ b = [f \in Field |-> b[f]]
      /\ \A f \in Field : b[f] = PlainField(U, h, f)
  BY PlainStep, UnveiledFields
<1>4. {"hks", "hkr", "nhks", "nhkr"} \cap Field = {}
  BY Fields
<1> HIDE DEF t, d, b, U
<1>5. DOMAIN t = DOMAIN s /\ \A f \in Field : t[f] = PlainField(s, h, f)
  BY <1>1, <1>2, <1>4
<1>6. /\ PlainRecv(U, h) = PlainRecv(s, h) /\ PlainSend(U, h) = PlainSend(s, h)
      /\ U.ns = s.ns /\ U.dhs = s.dhs /\ \A f \in Field \ {"skipped"} : U[f] = s[f]
      /\ U.skipped = Bare(s.skipped)
  BY NamedFields, UnveiledFields DEF PlainRecv, PlainSend, U
<1>7. \A f \in Field \ {"skipped"} : t[f] = b[f]
  BY <1>3, <1>5, <1>6 DEF PlainField
<1>8. t.skipped = s.skipped /\ b.skipped = U.skipped
  BY <1>3, <1>5, Fields DEF PlainField
<1>9. Unveiled(t) = b
  BY <1>3, <1>6, <1>7, <1>8, UnveiledEqual
<1>10. t.hks = s.nhks /\ t.hkr = s.nhkr /\ t.nhkr = HeaderKeyOf(PlainRecv(s, h))
         /\ t.nhks = HeaderKeyOf(PlainSend(s, h))
  BY <1>1, <1>2
<1>11. QED
  BY <1>5, <1>8, <1>9, <1>10 DEF t, b, U

(***************************************************************************)
(* The operators of Ratchet are the same in the sessions underneath.       *)
(***************************************************************************)
LEMMA SameTypes ==
    /\ Open!Party = Party /\ Open!NoKey = NoKey /\ Open!NoCt = NoCt /\ Open!NoSS = NoSS
    /\ Open!Key = Key /\ Open!NoChain = NoChain /\ Open!ChainKey = ChainKey
    /\ Open!Session = Session /\ Open!Packet = Packet /\ Open!Plain = Plain
    /\ \A p : Open!Peer(p) = Peer(p) /\ Open!Side(p) = Side(p)
    /\ \A k : Open!NextKey(k) = NextKey(k)
<1>1. /\ Open!Party = Party /\ Open!NoKey = NoKey /\ Open!NoCt = NoCt /\ Open!NoSS = NoSS
      /\ Open!Key = Key /\ Open!NoChain = NoChain /\ Open!Plain = Plain
  BY DEF Open!Party, Party, Open!NoKey, NoKey, Open!NoCt, NoCt, Open!NoSS, NoSS,
         Open!Key, Key, Open!NoChain, NoChain, Open!Plain, Plain
<1>2. Open!Ct = Ct /\ Open!Root = Root
  BY <1>1 DEF Open!Ct, Ct, Open!Root, Root, Open!Mix, Mix
<1>3. Open!ChainKey = ChainKey
  BY <1>2 DEF Open!ChainKey, ChainKey
<1>4. Open!Session = Session
  BY <1>1, <1>2, <1>3 DEF Open!Session, Session, Open!Skipped, Skipped
<1>5. Open!Packet = Packet
  BY <1>1, <1>2, <1>3 DEF Open!Packet, Packet, Open!Box, Box, Open!Header, Header
<1>6. \A p : Open!Peer(p) = Peer(p) /\ Open!Side(p) = Side(p)
  BY DEF Open!Peer, Peer, Open!Side, Side
<1>7. \A k : Open!NextKey(k) = NextKey(k)
  BY DEF Open!NextKey, NextKey
<1>8. QED
  BY <1>1, <1>3, <1>4, <1>5, <1>6, <1>7

LEMMA SameCardinality == \A S : Open!Cardinality(S) = Cardinality(S)
  BY DEF Open!Cardinality, Cardinality

LEMMA SameFinite == \A S : Open!IsFiniteSet(S) = IsFiniteSet(S)
  BY DEF Open!IsFiniteSet, IsFiniteSet

LEMMA SameSkip ==
    ASSUME NEW s, NEW u
    PROVE  /\ Open!SkipRc(s, u) = SkipRc(s, u)
           /\ Open!SkipTo(s, u) = SkipTo(s, u)
<1>1. /\ \A ck, k : Open!Advance(ck, k) = Advance(ck, k)
      /\ Open!NoChain = NoChain
  BY SameTypes DEF Open!Advance, Advance
<1>2. Open!Stash(s, u) = Stash(s, u)
  BY <1>1 DEF Open!Stash, Stash
<1>3. Open!SkipRc(s, u) = SkipRc(s, u)
  BY <1>1, SameCardinality DEF Open!SkipRc, SkipRc
<1>4. Open!SkipTo(s, u) = SkipTo(s, u)
  BY <1>1, <1>2 DEF Open!SkipTo, SkipTo
<1>5. QED
  BY <1>3, <1>4

LEMMA SameStep ==
    ASSUME NEW s, NEW h
    PROVE  Open!DHRatchet(s, h) = DHRatchet(s, h)
<1>1. ~ PQ
  BY ClassicalAssumption
<1>2. /\ \A rk, dh, ss : Open!KdfRk(rk, dh, ss) = KdfRk(rk, dh, ss)
      /\ \A a, b : Open!DH(a, b) = DH(a, b)
      /\ \A rk : Open!ChainOf(rk) = ChainOf(rk)
      /\ \A k : Open!NextKey(k) = NextKey(k)
  BY DEF Open!KdfRk, KdfRk, Open!DH, DH, Open!ChainOf, ChainOf, Open!NextKey, NextKey
<1>3. Open!KssRecv(s, h) = KssRecv(s, h) /\ Open!KemR(s, h) = KemR(s, h)
  BY <1>1 DEF Open!KssRecv, KssRecv, Open!KemR, KemR, Open!PqFull, PqFull
<1>4. Open!RecvRoot(s, h) = RecvRoot(s, h)
  BY <1>2, <1>3 DEF Open!RecvRoot, RecvRoot
<1>5. Open!RecvHalf(s, h) = RecvHalf(s, h)
  BY <1>2, <1>3, <1>4 DEF Open!RecvHalf, RecvHalf
<1>6. \A t : Open!SendHalf(t) = SendHalf(t)
  BY <1>1, <1>2 DEF Open!SendHalf, SendHalf, Open!SendRoot, SendRoot, Open!Cadence, Cadence
<1>7. QED
  BY <1>5, <1>6 DEF Open!DHRatchet, DHRatchet

LEMMA SameDecrypt ==
    ASSUME NEW s, NEW pkt
    PROVE  /\ Open!DecryptRc(s, pkt) = DecryptRc(s, pkt)
           /\ Open!DecryptState(s, pkt) = DecryptState(s, pkt)
<1> DEFINE h == pkt.hdr
<1>1. /\ Open!SkippedFind(s, h) = SkippedFind(s, h)
      /\ Open!NewKey(s, h) = NewKey(s, h)
      /\ Open!TypeOf(h) = TypeOf(h)
      /\ \A mk : Open!Opens(mk, pkt) = Opens(mk, pkt)
      /\ \A ck, k : Open!Advance(ck, k) = Advance(ck, k)
      /\ Open!NoChain = NoChain
  BY SameTypes DEF Open!SkippedFind, SkippedFind, Open!NewKey, NewKey, Open!TypeOf, TypeOf,
                   Open!Opens, Opens, Open!Advance, Advance
<1>2. Open!Stepped(s, h) = Stepped(s, h)
  BY <1>1, SameStep, SameSkip DEF Open!Stepped, Stepped
<1>3. Open!Ready(s, h) = Ready(s, h)
  BY <1>2, SameSkip DEF Open!Ready, Ready
<1> HIDE DEF h
<1>4. Open!DecryptRc(s, pkt) = DecryptRc(s, pkt)
  BY <1>1, <1>2, <1>3, SameSkip DEF Open!DecryptRc, DecryptRc, h
<1>5. Open!DecryptState(s, pkt) = DecryptState(s, pkt)
  BY <1>1, <1>3 DEF Open!DecryptState, DecryptState, h
<1>6. QED
  BY <1>4, <1>5

(***************************************************************************)
(* What the invariant of RatchetProofs says of the sessions underneath     *)
(* that matters for their header keys.                                     *)
(***************************************************************************)
Facts(p, U, S, T) ==
    /\ SessionInv(p, U)
    /\ U.dhs[1] = p /\ Len(U.rk) = Place(U.dhs)
    /\ U.kss_send = NoSS /\ U.kss_recv = NoSS
    /\ U.dhr = NoKey \/ U.dhr[1] = Peer(p)
    /\ U.ckr # NoChain => U.dhr[1] = Peer(p)
    /\ Place(U.dhr) <= Len(U.rk)
    /\ \A pkt \in S : pkt.hdr.dh[1] = p
    /\ \A e \in U.skipped :
          /\ e.dh[1] = Peer(p)
          /\ Place(e.dh) <= Len(U.rk)
          /\ \E pkt \in T : pkt.hdr.dh = e.dh

Under(p) == [q \in Party |-> Unveiled(sess[q])][p]
UnderSent(p) == [q \in Party |-> {UnveiledPacket(pkt) : pkt \in sent[q]}][p]

(* Whoever leads has processed the chain the other still sends on, whoever *)
(* follows the chain before the one the other sends on now.                *)
LEMMA LeaderPlaces ==
    ASSUME NEW l \in Party, NEW L \in Session, NEW F \in Session, Open!Leads(l, L, F),
           L.dhs[1] = l, F.dhs[1] = Peer(l),
           Len(L.rk) = Place(L.dhs), Len(F.rk) = Place(F.dhs)
    PROVE  /\ L.dhr[1] = Peer(l) /\ Place(L.dhr) <= Len(L.rk)
           /\ F.dhr = NoKey \/ F.dhr[1] = l
           /\ Place(F.dhr) <= Len(F.rk)
           /\ Len(L.rk) = Len(F.rk) + 1
           /\ L.kss_send = NoSS /\ L.kss_recv = NoSS /\ F.kss_send = NoSS /\ F.kss_recv = NoSS
<1>1. ~ PQ
  BY ClassicalAssumption
<1>2. /\ Len(L.rk) = Len(F.rk) + 1 /\ L.dhr = F.dhs
      /\ F.dhr = IF L.dhs[2] = 0 THEN NoKey ELSE <<l, L.dhs[2] - 1>>
      /\ L.kss_send = NoSS /\ L.kss_recv = NoSS /\ F.kss_send = NoSS /\ F.kss_recv = NoSS
  BY <1>1, SameTypes DEF Open!Leads, Open!NoKem
<1>3. /\ L.dhs[2] \in Nat /\ F.dhs[2] \in Nat /\ L.dhs \in Key /\ F.dhs \in Key
      /\ Place(L.dhs) \in Nat /\ Place(F.dhs) \in Nat
  BY FieldTypes, KeyPair, PlaceType
<1>4. Place(NoKey) = 0
  BY DEF Place, NoKey, Side
<1>5. ASSUME L.dhs[2] # 0
      PROVE  F.dhr[1] = l /\ Place(F.dhr) <= Len(F.rk)
  <2>1. F.dhr[1] = l /\ F.dhr[2] = L.dhs[2] - 1
    BY <1>2, <1>5
  <2>2. Place(F.dhr) + 2 = Place(L.dhs)
    BY <1>3, <2>1 DEF Place, Side
  <2>3. Len(L.rk) = Place(F.dhs) + 1 /\ Len(F.rk) = Place(F.dhs)
    BY <1>2
  <2>4. Place(F.dhr) \in Int
    BY <1>3, <2>1 DEF Place, Side
  <2>5. QED
    BY <1>3, <2>1, <2>2, <2>3, <2>4
<1>6. ASSUME L.dhs[2] = 0
      PROVE  F.dhr = NoKey /\ Place(F.dhr) <= Len(F.rk)
  BY <1>2, <1>3, <1>4, <1>6
<1>7. L.dhr[1] = Peer(l) /\ Place(L.dhr) <= Len(L.rk)
  BY <1>2, <1>3
<1>8. QED
  BY <1>2, <1>5, <1>6, <1>7

LEMMA UnderFacts ==
    ASSUME Open!SyncInv, NEW p \in Party
    PROVE  Facts(p, Under(p), UnderSent(p), UnderSent(Peer(p)))
<1> DEFINE q == Peer(p)
           U == Under(p)
           V == Under(q)
           S == UnderSent(p)
           T == UnderSent(q)
           O == opened[p]
<1>0. q \in Party /\ q # p /\ Peer(q) = p
  BY PeerType
<1>1. /\ U \in Session /\ V \in Session
      /\ Open!SessionInv(p, U) /\ Open!SessionInv(q, V)
      /\ T \in SUBSET Packet
      /\ Open!SendSync(p, U, S) /\ Open!SendSync(q, V, T)
      /\ Open!RecvSync(q, U, T, O)
      /\ Open!Leads(p, U, V) \/ Open!Leads(q, V, U)
  BY Open!PartyFacts, SameTypes, RatchetAssumption DEF Under, UnderSent
<1> HIDE DEF U, V, S, T, O, q
<1>2. SessionInv(p, U)
  <2>1. \A ck, key : Open!Behind(ck, key) = Behind(ck, key)
    BY DEF Open!Behind, Behind
  <2>2. Open!StoreInv(p, U) = StoreInv(p, U)
    BY <2>1, SameTypes, SameFinite, SameCardinality DEF Open!StoreInv, StoreInv
  <2>3. QED
    BY <1>1, <2>2, SameTypes DEF Open!SessionInv, SessionInv
<1>3. /\ U.dhs[1] = p /\ Len(U.rk) = Place(U.dhs)
      /\ V.dhs[1] = q /\ Len(V.rk) = Place(V.dhs)
      /\ \A pkt \in S : pkt.hdr.dh[1] = p
      /\ \A pkt \in T : pkt.hdr.dh[1] = q
  BY <1>1, SameTypes DEF Open!SendSync, Open!PacketInv, Place
<1>4. /\ U.kss_send = NoSS /\ U.kss_recv = NoSS
      /\ U.dhr = NoKey \/ U.dhr[1] = q
      /\ Place(U.dhr) <= Len(U.rk)
  <2>1. CASE Open!Leads(p, U, V)
    BY <1>0, <1>1, <1>3, <2>1, LeaderPlaces DEF q
  <2>2. CASE Open!Leads(q, V, U)
    BY <1>0, <1>1, <1>3, <2>2, LeaderPlaces
  <2>3. QED
    BY <1>1, <2>1, <2>2
<1>5. U.ckr # NoChain => U.dhr[1] = q
  BY <1>1, SameTypes DEF Open!RecvSync
<1>6. ASSUME NEW e \in U.skipped
      PROVE  /\ e.dh[1] = q /\ Place(e.dh) <= Len(U.rk)
             /\ \E pkt \in T : pkt.hdr.dh = e.dh
  <2>1. PICK pkt \in T : pkt.hdr.dh = e.dh /\ Open!Seen(U, pkt.hdr)
    BY <1>1 DEF Open!RecvSync, Open!Awaits
  <2>2. e.dh[1] = q
    BY <1>3, <2>1
  <2>3. /\ e.dh \in Key /\ e.dh[2] \in Nat /\ U.dhr \in Key /\ U.dhr[2] \in Nat
        /\ pkt.hdr.n \in Nat /\ U.nr \in Nat /\ Len(U.rk) \in Nat
    BY <1>1, <2>1, PacketTypes, FieldTypes, KeyPair, ChainPair
  <2>4. e.dh[2] < U.dhr[2] \/ (e.dh[2] = U.dhr[2] /\ pkt.hdr.n < U.nr)
    BY <2>1 DEF Open!Seen
  <2>5. CASE U.dhr[1] = q
    <3>1. Place(e.dh) <= Place(U.dhr)
      BY <2>2, <2>3, <2>4, <2>5 DEF Place, Side
    <3>2. Place(e.dh) <= Len(U.rk)
      BY <1>4, <2>3, <3>1, PlaceType
    <3>3. QED
      BY <2>1, <2>2, <3>2
  <2>6. CASE U.dhr = NoKey
    <3>1. U.ckr = NoChain
      BY <1>0, <1>5, <2>6, KeyPair
    <3>2. U.nr = 0
      BY <1>1, <3>1, ChainPair DEF Open!RecvSync
    <3>3. QED
      BY <2>3, <2>4, <2>6, <3>2, KeyPair
  <2>7. QED
    BY <1>4, <2>1, <2>2, <2>5, <2>6
<1>7. QED
  BY <1>1, <1>2, <1>3, <1>4, <1>5, <1>6 DEF Facts, U, S, T, q

(***************************************************************************)
(* The stages of ratchet_decrypt_he keep the header keys in their places.  *)
(***************************************************************************)
HeStore(S) == \A e \in S : e \in SkippedHE /\ e.hk = HkAt(Place(e.dh))

Sound(p, s) == HeSession(s) /\ SessionInv(p, Unveiled(s))

LEMMA HkType == \A n \in Nat : HkAt(n) \in HeaderKey
<1>1. \A m \in Nat : m # 0 => MixAt(m) \in Mix
  <2> SUFFICES ASSUME NEW m \in Nat, m # 0 PROVE MixAt(m) \in Mix
    OBVIOUS
  <2>1. (m - 1) \div 2 \in Nat /\ m \div 2 \in Nat
    OBVIOUS
  <2>2. <<"I", (m - 1) \div 2>> \in Key /\ <<"R", m \div 2>> \in Key
    BY <2>1 DEF Key, Party
  <2>3. NoSS \in Ct \X Key
    BY KeyType DEF NoSS, NoCt, Ct
  <2>4. QED
    BY <2>2, <2>3 DEF MixAt, Mix
<1>2. ASSUME NEW n \in Nat PROVE RootAt(n) \in Root
  <2>1. {MixAt(m) : m \in 1 .. n} \subseteq Mix
    BY <1>1
  <2>2. QED
    BY <2>1, RootAtLength, SeqMonotonic DEF Root
<1>3. <<>> \in Root
  BY DEF Root
<1>4. ASSUME NEW n \in Nat PROVE HkAt(n) \in HeaderKey
  <2>1. CASE n \in {0, 1, 2}
    BY <1>3, <2>1 DEF HkAt, NoHk, HKA, NHKB, HeaderKey
  <2>2. CASE n \notin {0, 1, 2}
    <3>1. RootAt(n - 2) \in Root
      BY <1>2, <2>2
    <3>2. HkAt(n) = HeaderKeyOf(RootAt(n - 2))
      BY <2>2 DEF HkAt
    <3>3. QED
      BY <3>1, <3>2 DEF HeaderKeyOf, HeaderKey
  <2>3. QED
    BY <2>1, <2>2
<1>5. QED
  BY <1>4

(* An entry of the store is known without its header key.                  *)
LEMMA StoreSize ==
    ASSUME NEW S, HeStore(S), IsFiniteSet(Bare(S))
    PROVE  Cardinality(S) = Cardinality(Bare(S))
<1> DEFINE Back(b) == TaggedOf(b, HkAt(Place(b.dh)))
           g == [b \in Bare(S) |-> Back(b)]
<1>1. ASSUME NEW e \in S PROVE Back(BareOf(e)) = e
  <2>1. e \in SkippedHE /\ e.hk = HkAt(Place(e.dh))
    BY DEF HeStore
  <2>2. QED
    BY <2>1 DEF TaggedOf, BareOf, SkippedHE
<1> HIDE DEF Back
<1>2. \A b \in Bare(S) : Back(b) \in S /\ BareOf(Back(b)) = b
  BY <1>1 DEF Bare
<1>3. \A e \in S : BareOf(e) \in Bare(S)
  BY DEF Bare
<1>4. g \in [Bare(S) -> S] /\ \A b \in Bare(S) : g[b] = Back(b)
  BY <1>2
<1> HIDE DEF g
<1>5. \A a, b \in Bare(S) : g[a] = g[b] => a = b
  BY <1>2, <1>4
<1>6. \A e \in S : \E b \in Bare(S) : g[b] = e
  BY <1>1, <1>3, <1>4
<1>7. g \in Bijection(Bare(S), S)
  BY <1>4, <1>5, <1>6 DEF Bijection, Injection, Surjection, IsInjective
<1>8. ExistsBijection(Bare(S), S)
  BY <1>7 DEF ExistsBijection
<1>9. QED
  BY <1>8, FS_Bijection

LEMMA RcSame ==
    ASSUME NEW p \in Party, NEW s, Sound(p, s), NEW u
    PROVE  SkipRc(s, u) = SkipRc(Unveiled(s), u)
<1>1. Cardinality(s.skipped) = Cardinality(Bare(s.skipped))
  BY StoreSize, NamedFields DEF Sound, HeSession, HeStore, SessionInv, StoreInv
<1>2. QED
  BY <1>1, NamedFields DEF SkipRc

LEMMA SkipSound ==
    ASSUME NEW p \in Party, NEW s, Sound(p, s), NEW u \in Nat,
           SkipRc(Unveiled(s), u) = "ok"
    PROVE  /\ Sound(p, SkipToHE(s, u))
           /\ Unveiled(SkipToHE(s, u)) = SkipTo(Unveiled(s), u)
           /\ SameSending(Unveiled(s), Unveiled(SkipToHE(s, u)))
           /\ SkipToHE(s, u).nhkr = s.nhkr /\ SkipToHE(s, u).hkr = s.hkr
<1> DEFINE U == Unveiled(s)
           t == SkipToHE(s, u)
<1>0. Field \subseteq DOMAIN s /\ DOMAIN s = Field \cup {"hks", "hkr", "nhks", "nhkr"}
  BY DEF Sound, HeSession
<1>1. Unveiled(t) = SkipTo(U, u) /\ DOMAIN t = DOMAIN s
  BY <1>0, UnveilSkip
<1>2. SessionInv(p, U) /\ U \in Session
  BY DEF Sound, SessionInv
<1>3. /\ SessionInv(p, Unveiled(t)) /\ SameSending(U, Unveiled(t))
      /\ U.ckr # NoChain => U.nr <= u
  BY <1>1, <1>2, SkipToInv, SkipFields
<1>4. t.rk = s.rk /\ t.dhr = s.dhr
  BY <1>3, NamedFields DEF SameSending
<1>5. /\ t.hks = s.hks /\ t.hkr = s.hkr /\ t.nhks = s.nhks /\ t.nhkr = s.nhkr
      /\ t.skipped = IF s.ckr = NoChain THEN s.skipped
                     ELSE s.skipped \cup Tagged(Stash(s, u), s.hkr)
  <2>1. {"hks", "hkr", "nhks", "nhkr", "skipped"} \cap {"ckr", "nr"} = {}
    OBVIOUS
  <2>2. CASE s.ckr = NoChain
    BY <2>2 DEF SkipToHE
  <2>3. CASE s.ckr # NoChain
    <3>1. t = [s EXCEPT !.skipped = s.skipped \cup Tagged(Stash(s, u), s.hkr),
                        !.ckr = Advance(s.ckr, u - s.nr), !.nr = u]
      BY <1>0, <2>3, Fields DEF SkipToHE, SkipTo, Tagged, TaggedOf
    <3> HIDE DEF t
    <3>2. {"hks", "hkr", "nhks", "nhkr", "skipped"} \subseteq DOMAIN s
      BY <1>0, Fields
    <3>3. QED
      BY <2>3, <3>1, <3>2
  <2>4. QED
    BY <2>2, <2>3
<1>6. HeStore(t.skipped)
  <2>1. HeStore(s.skipped) /\ s.hkr = HkAt(Place(s.dhr))
    BY DEF Sound, HeSession, HeStore
  <2>2. ASSUME s.ckr # NoChain, NEW e \in Stash(s, u)
        PROVE  /\ TaggedOf(e, s.hkr) \in SkippedHE
               /\ TaggedOf(e, s.hkr).hk = HkAt(Place(TaggedOf(e, s.hkr).dh))
    <3>1. e \in Skipped
      <4>1. e \in Stash(U, u) /\ U.nr <= u
        BY <1>3, <2>2, UnveilStash, NamedFields
      <4>2. QED
        BY <1>2, <4>1, StashFacts
    <3>2. e.dh = s.dhr
      BY DEF Stash
    <3>3. s.dhr \in Key
      BY <1>2, FieldTypes, NamedFields
    <3>4. s.hkr \in HeaderKey
      BY <2>1, <3>3, HkType, PlaceType
    <3>5. QED
      BY <2>1, <3>1, <3>2, <3>4 DEF TaggedOf, SkippedHE, Skipped
  <2>3. s.ckr # NoChain => HeStore(Tagged(Stash(s, u), s.hkr))
    BY <2>2 DEF HeStore, Tagged
  <2>4. QED
    BY <1>5, <2>1, <2>3 DEF HeStore
<1>7. HeSession(t)
  <2>1. /\ s.rk = RootAt(Len(s.rk)) /\ s.hks = HkAt(Len(s.rk))
        /\ s.nhks = HkAt(Len(s.rk) + 2) /\ s.hkr = HkAt(Place(s.dhr))
        /\ s.nhkr = HkAt(Len(s.rk) + 1)
    BY DEF Sound, HeSession
  <2>2. QED
    BY <1>0, <1>1, <1>4, <1>5, <1>6, <2>1 DEF HeSession, HeStore
<1>8. QED
  BY <1>1, <1>3, <1>5, <1>7 DEF Sound

LEMMA StepSound ==
    ASSUME NEW p \in Party, NEW s, Sound(p, s), NEW h \in Header,
           s.dhs[1] = p, Len(s.rk) = Place(s.dhs),
           s.kss_send = NoSS, s.kss_recv = NoSS,
           h.dh[1] = Peer(p), Place(h.dh) = Len(s.rk) + 1
    PROVE  /\ Sound(p, DHRatchetHE(s, h))
           /\ Unveiled(DHRatchetHE(s, h)) = DHRatchet(Unveiled(s), h)
<1> DEFINE t == DHRatchetHE(s, h)
           n == Len(s.rk)
<1>0. /\ DOMAIN s = Field \cup {"hks", "hkr", "nhks", "nhkr"}
      /\ s.rk = RootAt(n) /\ s.nhks = HkAt(n + 2) /\ s.nhkr = HkAt(n + 1)
      /\ HeStore(s.skipped)
  BY DEF Sound, HeSession, HeStore
<1>1. SessionInv(p, Unveiled(s)) /\ Unveiled(s) \in Session
  BY DEF Sound, SessionInv
<1>2. /\ Unveiled(t) = DHRatchet(Unveiled(s), h)
      /\ DOMAIN t = DOMAIN s
      /\ t.skipped = s.skipped
      /\ t.hks = s.nhks /\ t.hkr = s.nhkr
      /\ t.nhkr = HeaderKeyOf(PlainRecv(s, h))
      /\ t.nhks = HeaderKeyOf(PlainSend(s, h))
      /\ \A f \in Field : t[f] = PlainField(s, h, f)
  BY <1>0, UnveilStep
<1>3. /\ s.dhs \in Key /\ h.dh \in Key /\ n \in Nat
      /\ Peer(p) \in Party /\ Peer(Peer(p)) = p
  BY <1>1, FieldTypes, NamedFields, ChainPair, PeerType DEF Header
<1>4. /\ PlainRecv(s, h) = RootAt(n + 1)
      /\ NextKey(s.dhs) \in Key /\ NextKey(s.dhs)[1] = p /\ Place(NextKey(s.dhs)) = n + 2
  <2>1. /\ KdfRk(RootAt(Place(s.dhs)), DH(s.dhs, h.dh), NoSS) = RootAt(Place(h.dh))
        /\ NextKey(s.dhs) \in Key /\ NextKey(s.dhs)[1] = p
        /\ Place(NextKey(s.dhs)) = Place(h.dh) + 1
    BY <1>3, RootStep
  <2>2. QED
    BY <1>0, <1>3, <2>1 DEF PlainRecv
<1>5. PlainSend(s, h) = RootAt(n + 2)
  <2>1. Place(NextKey(s.dhs)) = Place(h.dh) + 1
    BY <1>3, <1>4
  <2>2. KdfRk(RootAt(Place(h.dh)), DH(h.dh, NextKey(s.dhs)), NoSS)
          = RootAt(Place(NextKey(s.dhs)))
    BY <1>3, <1>4, <2>1, RootStep
  <2>3. DH(h.dh, NextKey(s.dhs)) = DH(NextKey(s.dhs), h.dh)
    BY DEF DH
  <2>4. QED
    BY <1>4, <2>2, <2>3 DEF PlainSend
<1>6. /\ HeaderKeyOf(RootAt(n + 1)) = HkAt(n + 3)
      /\ HeaderKeyOf(RootAt(n + 2)) = HkAt(n + 4)
  <2>1. \A k \in Nat : k \notin {0, 1, 2} => HkAt(k) = HeaderKeyOf(RootAt(k - 2))
    BY DEF HkAt
  <2>2. /\ n + 3 \in Nat /\ n + 3 \notin {0, 1, 2} /\ (n + 3) - 2 = n + 1
        /\ n + 4 \in Nat /\ n + 4 \notin {0, 1, 2} /\ (n + 4) - 2 = n + 2
    BY <1>3
  <2>3. QED
    BY <2>1, <2>2
<1>7. t.rk = RootAt(n + 2) /\ t.dhr = h.dh /\ Len(t.rk) = n + 2
  <2>1. t.rk = PlainSend(s, h) /\ t.dhr = h.dh
    BY <1>2, Fields DEF PlainField
  <2>2. n + 2 \in Nat
    BY <1>3
  <2>3. QED
    BY <1>5, <2>1, <2>2, RootAtLength
<1> HIDE DEF t, n
<1>8. HeSession(t)
  <2>1. (n + 2) + 1 = n + 3 /\ (n + 2) + 2 = n + 4
    BY <1>3
  <2>2. t.nhkr = HkAt(Len(t.rk) + 1) /\ t.nhks = HkAt(Len(t.rk) + 2)
    BY <1>2, <1>4, <1>5, <1>6, <1>7, <2>1
  <2>3. t.hks = HkAt(Len(t.rk)) /\ t.hkr = HkAt(Place(t.dhr))
    BY <1>0, <1>2, <1>7 DEF n
  <2>4. QED
    BY <1>0, <1>2, <1>7, <2>2, <2>3 DEF HeSession, HeStore
<1>9. SessionInv(p, Unveiled(t))
  BY <1>1, <1>2, DHRatchetInv
<1>10. QED
  BY <1>2, <1>8, <1>9 DEF Sound, t

(***************************************************************************)
(* Trial decryption finds the chain that the ratchet key names.            *)
(***************************************************************************)
(* The keys a packet in flight may be tried against.                       *)
Tries(s, pkt) ==
    \/ StoredFor(s, pkt) # {}
    \/ HeaderOpens(s.hkr, pkt.hdr)
    \/ HeaderOpens(s.nhkr, pkt.hdr)

(* What is used of the session and of a packet, of either party.           *)
Local(p, s, pkt) ==
    /\ Sound(p, s)
    /\ s.dhs[1] = p /\ Len(s.rk) = Place(s.dhs)
    /\ s.kss_send = NoSS /\ s.kss_recv = NoSS
    /\ s.dhr = NoKey \/ s.dhr[1] = Peer(p)
    /\ \A e \in s.skipped : e.dh[1] = Peer(p)
    /\ HePacket(pkt)
    /\ pkt.hdr.hpt.dh[1] \in Party

LEMMA LocalTypes ==
    ASSUME NEW p \in Party, NEW s, NEW pkt, Local(p, s, pkt)
    PROVE  LET h == Classical(pkt.hdr.hpt)
           IN  /\ Unveiled(s) \in Session /\ SessionInv(p, Unveiled(s))
               /\ h \in Header /\ h.n \in Nat /\ h.pn \in Nat
               /\ h.dh = pkt.hdr.hpt.dh /\ h.n = pkt.hdr.hpt.n /\ h.pn = pkt.hdr.hpt.pn
               /\ h.dh \in Key /\ Place(h.dh) \in Nat
               /\ s.dhr \in Key /\ Place(s.dhr) \in Nat /\ Len(s.rk) \in Nat
               /\ UnveiledPacket(pkt).hdr = h
<1>1. pkt.hdr.hpt \in [dh : Key, pn : Nat, n : Nat]
  BY DEF Local, HePacket, PacketHE, HeaderHE
<1>2. Classical(pkt.hdr.hpt) \in Header
  BY <1>1, KeyType DEF Classical, Header
<1>3. Unveiled(s) \in Session /\ SessionInv(p, Unveiled(s))
  BY DEF Local, Sound, SessionInv
<1>4. s.dhr \in Key /\ Len(s.rk) \in Nat
  BY <1>3, FieldTypes, NamedFields, ChainPair
<1>5. QED
  BY <1>1, <1>2, <1>3, <1>4, PlaceType DEF Classical, UnveiledPacket

(* A stored key is tried when its ratchet key and number match.            *)
LEMMA StoredSame ==
    ASSUME NEW p \in Party, NEW s, NEW pkt, Local(p, s, pkt)
    PROVE  /\ StoredFor(s, pkt) =
                {e \in s.skipped : e.dh = pkt.hdr.hpt.dh /\ e.n = pkt.hdr.hpt.n}
           /\ SkippedFind(Unveiled(s), UnveiledPacket(pkt).hdr) = Bare(StoredFor(s, pkt))
<1>1. \A e \in s.skipped : e.dh = pkt.hdr.hpt.dh => HeaderOpens(e.hk, pkt.hdr)
  BY DEF Local, Sound, HeSession, HePacket, HeaderOpens
<1>2. StoredFor(s, pkt) =
        {e \in s.skipped : e.dh = pkt.hdr.hpt.dh /\ e.n = pkt.hdr.hpt.n}
  BY <1>1 DEF StoredFor
<1>3. \A e : BareOf(e).dh = e.dh /\ BareOf(e).n = e.n
  BY DEF BareOf
<1>4. SkippedFind(Unveiled(s), UnveiledPacket(pkt).hdr)
        = {b \in Bare(s.skipped) : b.dh = pkt.hdr.hpt.dh /\ b.n = pkt.hdr.hpt.n}
  BY LocalTypes, NamedFields DEF SkippedFind
<1>5. QED
  BY <1>2, <1>3, <1>4 DEF Bare

(* The next chain is taken exactly when the ratchet key is a new one.      *)
LEMMA EpochSame ==
    ASSUME NEW p \in Party, NEW s, NEW pkt, Local(p, s, pkt)
    PROVE  /\ NewEpoch(s, pkt) <=> NewKey(Unveiled(s), UnveiledPacket(pkt).hdr)
           /\ NewEpoch(s, pkt) /\ HeaderOpens(s.nhkr, pkt.hdr) =>
                /\ pkt.hdr.hpt.dh[1] = Peer(p)
                /\ Place(pkt.hdr.hpt.dh) = Len(s.rk) + 1
<1> DEFINE d == pkt.hdr.hpt.dh
<1>0. /\ d \in Key /\ Place(d) \in Nat /\ s.dhr \in Key /\ Place(s.dhr) \in Nat
      /\ Len(s.rk) \in Nat
      /\ NewKey(Unveiled(s), UnveiledPacket(pkt).hdr) <=> d # s.dhr
  BY LocalTypes, NamedFields DEF NewKey
<1>1. /\ pkt.hdr.hk = HkAt(Place(d)) /\ pkt.hdr.hk # NoHk
      /\ s.hkr = HkAt(Place(s.dhr)) /\ s.nhkr = HkAt(Len(s.rk) + 1)
      /\ d[1] \in Party /\ (s.dhr = NoKey \/ s.dhr[1] = Peer(p))
      /\ s.dhs[1] = p /\ Len(s.rk) = Place(s.dhs)
  BY DEF Local, Sound, HeSession, HePacket
<1>2. d = s.dhr => ~ NewEpoch(s, pkt)
  BY <1>1 DEF NewEpoch, HeaderOpens
<1>3. ASSUME ~ NewEpoch(s, pkt) PROVE d = s.dhr
  <2>1. Place(d) = Place(s.dhr) /\ s.hkr # NoHk
    BY <1>0, <1>1, <1>3, HkInjective DEF NewEpoch, HeaderOpens
  <2>2. s.dhr # NoKey
    <3>1. Place(NoKey) = 0
      BY DEF Place, NoKey, Side
    <3>2. QED
      BY <1>1, <2>1, <3>1, HkNone
  <2>3. s.dhr[1] \in Party
    BY <1>1, <2>2, PeerType
  <2>4. QED
    BY <1>0, <1>1, <2>1, <2>3, PlaceInjective
<1>4. ASSUME HeaderOpens(s.nhkr, pkt.hdr)
      PROVE  d[1] = Peer(p) /\ Place(d) = Len(s.rk) + 1
  <2> DEFINE n == Len(s.rk) + 1
  <2>0. HkAt(Place(d)) = HkAt(n) /\ n \in Nat
    BY <1>0, <1>1, <1>4 DEF HeaderOpens
  <2> HIDE DEF d
  <2>1. Place(d) = n
    <3> HIDE DEF n
    <3>1. QED
      BY <1>0, <2>0, HkInjective
  <2>2. s.dhs \in Key /\ s.dhs[2] \in Nat /\ d[2] \in Nat
    BY <1>0, LocalTypes, FieldTypes, NamedFields, KeyPair
  <2>3. ASSUME d[1] = p PROVE FALSE
    <3>1. 2 * d[2] + Side(p) = 2 * s.dhs[2] + Side(p) + 1
      BY <1>1, <2>1, <2>3 DEF Place
    <3>2. QED
      BY <2>2, <3>1, SideType
  <2>4. QED
    BY <1>1, <2>1, <2>3 DEF Party, Peer
<1>5. QED
  BY <1>0, <1>2, <1>3, <1>4

LEMMA OpensSame ==
    ASSUME NEW pkt, HePacket(pkt), NEW mk
    PROVE  /\ OpensHE(mk, pkt) <=> Opens(mk, UnveiledPacket(pkt))
           /\ UnveiledPacket(pkt).box.pt = pkt.box.pt
           /\ UnveiledPacket(pkt).box.key = pkt.box.key
<1>1. pkt.box \in BoxHE /\ pkt.box.aad = pkt.hdr
  BY DEF HePacket, PacketHE
<1> DEFINE o == UnveiledPacket(pkt)
<1>2. o.hdr = Classical(pkt.hdr.hpt) /\ o.box = [pkt.box EXCEPT !.aad = Classical(pkt.hdr.hpt)]
  BY <1>1 DEF UnveiledPacket
<1>3. /\ o.box.key = pkt.box.key /\ o.box.n = pkt.box.n /\ o.box.pt = pkt.box.pt
      /\ o.box.aad = Classical(pkt.hdr.hpt)
  BY <1>1, <1>2 DEF BoxHE
<1>4. Classical(pkt.hdr.hpt).n = pkt.hdr.hpt.n
  BY DEF Classical
<1> HIDE DEF o
<1>5. OpensHE(mk, pkt) <=> Opens(mk, o)
  BY <1>1, <1>2, <1>3, <1>4 DEF OpensHE, Opens
<1>6. QED
  BY <1>3, <1>5 DEF o

LEMMA SteppedSame ==
    ASSUME NEW p \in Party, NEW s, NEW pkt, Local(p, s, pkt),
           NewEpoch(s, pkt) => /\ HeaderOpens(s.nhkr, pkt.hdr)
                               /\ SkipRc(Unveiled(s), pkt.hdr.hpt.pn) = "ok"
    PROVE  /\ Sound(p, SteppedHE(s, pkt))
           /\ Unveiled(SteppedHE(s, pkt)) = Stepped(Unveiled(s), UnveiledPacket(pkt).hdr)
<1> DEFINE U == Unveiled(s)
           h == Classical(pkt.hdr.hpt)
           w == SkipToHE(s, pkt.hdr.hpt.pn)
<1>0. /\ h \in Header /\ h.pn \in Nat /\ h.pn = pkt.hdr.hpt.pn /\ h.dh = pkt.hdr.hpt.dh
      /\ UnveiledPacket(pkt).hdr = h
      /\ Sound(p, s)
  BY LocalTypes DEF Local
<1>1. CASE ~ NewEpoch(s, pkt)
  BY <1>0, <1>1, EpochSame DEF SteppedHE, Stepped
<1>2. CASE NewEpoch(s, pkt)
  <2>1. NewKey(U, h) /\ h.dh[1] = Peer(p) /\ Place(h.dh) = Len(s.rk) + 1
    BY <1>0, <1>2, EpochSame
  <2>2. Sound(p, w) /\ Unveiled(w) = SkipTo(U, h.pn) /\ SameSending(U, Unveiled(w))
    BY <1>0, <1>2, SkipSound
  <2> HIDE DEF w, h
  <2>3. /\ w.dhs = s.dhs /\ w.rk = s.rk /\ w.kss_send = s.kss_send /\ w.kss_recv = s.kss_recv
    BY <2>2, NamedFields DEF SameSending, SameKem
  <2>4. /\ w.dhs[1] = p /\ Len(w.rk) = Place(w.dhs) /\ w.kss_send = NoSS /\ w.kss_recv = NoSS
    BY <2>3 DEF Local
  <2>5. Place(h.dh) = Len(w.rk) + 1
    BY <2>1, <2>3
  <2>6. Sound(p, DHRatchetHE(w, h)) /\ Unveiled(DHRatchetHE(w, h)) = DHRatchet(SkipTo(U, h.pn), h)
    BY <1>0, <2>1, <2>2, <2>4, <2>5, StepSound
  <2>7. SteppedHE(s, pkt) = DHRatchetHE(w, h)
    BY <1>2 DEF SteppedHE, w, h
  <2>8. Stepped(U, h) = DHRatchet(SkipTo(U, h.pn), h)
    BY <2>1 DEF Stepped
  <2>9. QED
    BY <1>0, <2>6, <2>7, <2>8
<1>3. QED
  BY <1>1, <1>2

LEMMA ReadySame ==
    ASSUME NEW p \in Party, NEW s, NEW pkt, Local(p, s, pkt),
           NewEpoch(s, pkt) => /\ HeaderOpens(s.nhkr, pkt.hdr)
                               /\ SkipRc(Unveiled(s), pkt.hdr.hpt.pn) = "ok",
           SkipRc(Stepped(Unveiled(s), UnveiledPacket(pkt).hdr), pkt.hdr.hpt.n) = "ok"
    PROVE  /\ Sound(p, ReadyHE(s, pkt))
           /\ Unveiled(ReadyHE(s, pkt)) = Ready(Unveiled(s), UnveiledPacket(pkt).hdr)
<1> DEFINE t == SteppedHE(s, pkt)
           o == UnveiledPacket(pkt)
<1>1. Sound(p, t) /\ Unveiled(t) = Stepped(Unveiled(s), o.hdr)
  BY SteppedSame
<1>2. pkt.hdr.hpt.n \in Nat /\ o.hdr.n = pkt.hdr.hpt.n
  BY LocalTypes
<1> HIDE DEF t, o
<1>3. /\ Sound(p, SkipToHE(t, pkt.hdr.hpt.n))
      /\ Unveiled(SkipToHE(t, pkt.hdr.hpt.n)) = SkipTo(Unveiled(t), pkt.hdr.hpt.n)
  BY <1>1, <1>2, SkipSound DEF o
<1>4. QED
  BY <1>1, <1>2, <1>3 DEF ReadyHE, Ready, t, o

(* When a header opens at all, ratchet_decrypt_he returns what             *)
(* ratchet_decrypt returns for the packet underneath.                      *)
LEMMA DecryptRcSame ==
    ASSUME NEW p \in Party, NEW s, NEW pkt, Local(p, s, pkt), Tries(s, pkt)
    PROVE  DecryptRcHE(s, pkt) = DecryptRc(Unveiled(s), UnveiledPacket(pkt))
<1> DEFINE U == Unveiled(s)
           o == UnveiledPacket(pkt)
           h == o.hdr
           F == StoredFor(s, pkt)
           G == SkippedFind(U, h)
<1>0. /\ h.n = pkt.hdr.hpt.n /\ h.pn = pkt.hdr.hpt.pn /\ TypeOf(h)
      /\ HePacket(pkt) /\ Sound(p, s)
  <2>1. h = Classical(pkt.hdr.hpt) /\ h.n = pkt.hdr.hpt.n /\ h.pn = pkt.hdr.hpt.pn
    BY LocalTypes
  <2>2. Classical(pkt.hdr.hpt).type = "classical"
    BY DEF Classical
  <2> HIDE DEF h
  <2>3. TypeOf(h)
    BY <2>1, <2>2, ClassicalAssumption DEF TypeOf
  <2>4. QED
    BY <2>1, <2>3 DEF Local
<1>1. G = Bare(F)
  BY StoredSame
<1>2. NewEpoch(s, pkt) <=> NewKey(U, h)
  BY EpochSame
<1>3. \A mk : OpensHE(mk, pkt) <=> Opens(mk, o)
  BY <1>0, OpensSame
<1> HIDE DEF U, o, h, F, G
<1>4. CASE F # {}
  <2>1. G # {} /\ ((\E e \in F : OpensHE(e.mk, pkt)) <=> (\E e \in G : Opens(e.mk, o)))
    <3>1. \A e : BareOf(e).mk = e.mk
      BY DEF BareOf
    <3>2. QED
      BY <1>1, <1>3, <1>4, <3>1 DEF Bare
  <2>2. DecryptRcHE(s, pkt) =
          IF \E e \in F : OpensHE(e.mk, pkt) THEN "ok" ELSE "integrity"
    BY <1>4 DEF DecryptRcHE, F
  <2>3. DecryptRc(U, o) = IF \E e \in G : Opens(e.mk, o) THEN "ok" ELSE "integrity"
    BY <1>0, <2>1 DEF DecryptRc, G, h
  <2>4. QED
    BY <2>1, <2>2, <2>3 DEF U, o
<1>5. CASE F = {}
  <2>0. G = {}
    BY <1>1, <1>5 DEF Bare
  <2>1. HeaderOpens(s.hkr, pkt.hdr) \/ HeaderOpens(s.nhkr, pkt.hdr)
    BY <1>5 DEF Tries, F
  <2>2. SkipRc(s, h.pn) = SkipRc(U, h.pn)
    BY <1>0, RcSame DEF U
  <2>3. CASE NewEpoch(s, pkt) /\ SkipRc(U, h.pn) # "ok"
    <3>1. DecryptRcHE(s, pkt) = SkipRc(s, h.pn)
      BY <1>0, <1>5, <2>1, <2>2, <2>3 DEF DecryptRcHE, F
    <3>2. DecryptRc(U, o) = SkipRc(U, h.pn)
      BY <1>0, <1>2, <2>0, <2>3 DEF DecryptRc, G, h
    <3>3. QED
      BY <2>2, <3>1, <3>2 DEF U, o
  <2>4. CASE ~ (NewEpoch(s, pkt) /\ SkipRc(U, h.pn) # "ok")
    <3>0. NewEpoch(s, pkt) => HeaderOpens(s.nhkr, pkt.hdr) /\ SkipRc(U, h.pn) = "ok"
      BY <2>1, <2>4 DEF NewEpoch
    <3>1. Sound(p, SteppedHE(s, pkt)) /\ Unveiled(SteppedHE(s, pkt)) = Stepped(U, h)
      BY <1>0, <3>0, SteppedSame DEF U, h, o
    <3>2. SkipRc(SteppedHE(s, pkt), h.n) = SkipRc(Stepped(U, h), h.n)
      BY <3>1, RcSame
    <3>3. CASE SkipRc(Stepped(U, h), h.n) # "ok"
      <4>1. DecryptRcHE(s, pkt) = SkipRc(SteppedHE(s, pkt), h.n)
        BY <1>0, <1>5, <2>1, <2>2, <3>0, <3>2, <3>3 DEF DecryptRcHE, F
      <4>2. DecryptRc(U, o) = SkipRc(Stepped(U, h), h.n)
        BY <1>0, <1>2, <2>0, <3>0, <3>3 DEF DecryptRc, G, h
      <4>3. QED
        BY <3>2, <4>1, <4>2 DEF U, o
    <3>4. CASE SkipRc(Stepped(U, h), h.n) = "ok"
      <4>1. Unveiled(ReadyHE(s, pkt)) = Ready(U, h)
        BY <1>0, <3>0, <3>4, ReadySame DEF U, h, o
      <4>2. ReadyHE(s, pkt).ckr = Ready(U, h).ckr
        BY <4>1, NamedFields
      <4>3. DecryptRcHE(s, pkt) =
              IF \/ ReadyHE(s, pkt).ckr = NoChain
                 \/ ~OpensHE(ReadyHE(s, pkt).ckr, pkt) THEN "integrity" ELSE "ok"
        BY <1>0, <1>5, <2>1, <2>2, <3>0, <3>2, <3>4 DEF DecryptRcHE, F
      <4>4. DecryptRc(U, o) =
              IF Ready(U, h).ckr = NoChain \/ ~Opens(Ready(U, h).ckr, o) THEN "integrity" ELSE "ok"
        BY <1>0, <1>2, <2>0, <3>0, <3>4 DEF DecryptRc, G, h
      <4>5. QED
        BY <1>3, <4>2, <4>3, <4>4 DEF U, o
    <3>5. QED
      BY <3>3, <3>4
  <2>5. QED
    BY <2>3, <2>4
<1>6. QED
  BY <1>4, <1>5

(* What a body that opens says of the stages before.                       *)
LEMMA OpenedStages ==
    ASSUME NEW s, NEW pkt, DecryptRcHE(s, pkt) = "ok", StoredFor(s, pkt) = {}
    PROVE  /\ NewEpoch(s, pkt) => /\ HeaderOpens(s.nhkr, pkt.hdr)
                                  /\ SkipRc(s, pkt.hdr.hpt.pn) = "ok"
           /\ SkipRc(SteppedHE(s, pkt), pkt.hdr.hpt.n) = "ok"
<1>1. HeaderOpens(s.hkr, pkt.hdr) \/ HeaderOpens(s.nhkr, pkt.hdr)
  BY DEF DecryptRcHE
<1>2. ~ (NewEpoch(s, pkt) /\ SkipRc(s, pkt.hdr.hpt.pn) # "ok")
  BY <1>1 DEF DecryptRcHE
<1>3. SkipRc(SteppedHE(s, pkt), pkt.hdr.hpt.n) = "ok"
  BY <1>1, <1>2 DEF DecryptRcHE
<1>4. QED
  BY <1>1, <1>2, <1>3 DEF NewEpoch

LEMMA OkTries ==
    ASSUME NEW s, NEW pkt, DecryptRcHE(s, pkt) = "ok"
    PROVE  Tries(s, pkt)
<1>1. CASE StoredFor(s, pkt) # {}
  BY <1>1 DEF Tries
<1>2. CASE StoredFor(s, pkt) = {}
  BY <1>2, OpenedStages DEF NewEpoch, Tries
<1>3. QED
  BY <1>1, <1>2

(* A session that differs only in fields the header keys do not depend on. *)
LEMMA HeSessionKept ==
    ASSUME NEW s, HeSession(s), NEW t, DOMAIN t = DOMAIN s,
           t.rk = s.rk, t.dhr = s.dhr, t.hks = s.hks, t.hkr = s.hkr,
           t.nhks = s.nhks, t.nhkr = s.nhkr, t.skipped \subseteq s.skipped
    PROVE  HeSession(t)
<1>1. /\ DOMAIN s = Field \cup {"hks", "hkr", "nhks", "nhkr"}
      /\ s.rk = RootAt(Len(s.rk))
      /\ s.hks = HkAt(Len(s.rk))
      /\ s.nhks = HkAt(Len(s.rk) + 2)
      /\ s.hkr = HkAt(Place(s.dhr))
      /\ s.nhkr = HkAt(Len(s.rk) + 1)
      /\ \A e \in s.skipped : e \in SkippedHE /\ e.hk = HkAt(Place(e.dh))
  BY DEF HeSession
<1>2. QED
  BY <1>1 DEF HeSession

LEMMA StoredStateSame ==
    ASSUME NEW p \in Party, NEW s, NEW pkt, Local(p, s, pkt), StoredFor(s, pkt) # {}
    PROVE  /\ Unveiled(DecryptStateHE(s, pkt)) = DecryptState(Unveiled(s), UnveiledPacket(pkt))
           /\ HeSession(DecryptStateHE(s, pkt))
<1> DEFINE U == Unveiled(s)
           o == UnveiledPacket(pkt)
           F == StoredFor(s, pkt)
           G == SkippedFind(U, o.hdr)
           t == [s EXCEPT !.skipped = s.skipped \ F]
           b == [U EXCEPT !.skipped = U.skipped \ G]
<1>0. /\ HeSession(s) /\ DOMAIN s = Field \cup {"hks", "hkr", "nhks", "nhkr"}
      /\ "skipped" \in Field
      /\ {"rk", "dhr", "hks", "hkr", "nhks", "nhkr"} \subseteq DOMAIN s \ {"skipped"}
  BY Fields DEF Local, Sound, HeSession
<1>1. /\ G = Bare(F)
      /\ F = {e \in s.skipped : e.dh = pkt.hdr.hpt.dh /\ e.n = pkt.hdr.hpt.n}
  BY StoredSame
<1>2. G # {}
  BY <1>1 DEF Bare
<1>3. DecryptStateHE(s, pkt) = t
  BY DEF DecryptStateHE
<1>4. DecryptState(U, o) = b
  BY <1>2 DEF DecryptState
<1>5. Bare(s.skipped \ F) = Bare(s.skipped) \ Bare(F)
  <2>1. \A e : BareOf(e).dh = e.dh /\ BareOf(e).n = e.n
    BY DEF BareOf
  <2> HIDE DEF F
  <2>2. \A e, f \in s.skipped : f \in F /\ BareOf(e) = BareOf(f) => e \in F
    BY <1>1, <2>1, Zenon
  <2>3. F \subseteq s.skipped
    BY <1>1
  <2>4. QED
    BY <2>2, <2>3 DEF Bare
<1>6. U.skipped = Bare(s.skipped) /\ DOMAIN U = Field
  BY NamedFields, UnveiledFields
<1> HIDE DEF F, G, U, o
<1>7. /\ DOMAIN b = Field /\ b = [f \in Field |-> b[f]]
      /\ b.skipped = Bare(s.skipped) \ G
      /\ \A f \in Field \ {"skipped"} : b[f] = U[f]
  BY <1>0, <1>6
<1>8. /\ DOMAIN t = DOMAIN s /\ t.skipped = s.skipped \ F
      /\ \A f \in DOMAIN s \ {"skipped"} : t[f] = s[f]
  BY <1>0
<1> HIDE DEF t, b
<1>9. Unveiled(t) = b
  <2>1. \A f \in Field \ {"skipped"} : t[f] = b[f]
    BY <1>0, <1>7, <1>8, UnveiledFields DEF U
  <2>2. Bare(t.skipped) = b.skipped
    BY <1>1, <1>5, <1>7, <1>8
  <2>3. QED
    BY <1>7, <2>1, <2>2, UnveiledEqual
<1>10. HeSession(t)
  <2>1. /\ t.rk = s.rk /\ t.dhr = s.dhr /\ t.hks = s.hks /\ t.hkr = s.hkr
        /\ t.nhks = s.nhks /\ t.nhkr = s.nhkr
    BY <1>0, <1>8
  <2>2. t.skipped \subseteq s.skipped
    BY <1>8
  <2>3. QED
    BY <1>0, <1>8, <2>1, <2>2, HeSessionKept
<1>11. QED
  BY <1>3, <1>4, <1>9, <1>10 DEF U, o

LEMMA ChainStateSame ==
    ASSUME NEW p \in Party, NEW s, NEW pkt, Local(p, s, pkt), StoredFor(s, pkt) = {},
           DecryptRcHE(s, pkt) = "ok"
    PROVE  /\ Unveiled(DecryptStateHE(s, pkt)) = DecryptState(Unveiled(s), UnveiledPacket(pkt))
           /\ HeSession(DecryptStateHE(s, pkt))
<1> DEFINE U == Unveiled(s)
           o == UnveiledPacket(pkt)
           r == ReadyHE(s, pkt)
           R == Ready(U, o.hdr)
           t == [r EXCEPT !.ckr = Advance(r.ckr, 1), !.nr = r.nr + 1]
           b == [R EXCEPT !.ckr = Advance(R.ckr, 1), !.nr = R.nr + 1]
<1>1. Sound(p, r) /\ Unveiled(r) = R
  <2>1. /\ NewEpoch(s, pkt) => /\ HeaderOpens(s.nhkr, pkt.hdr)
                               /\ SkipRc(s, pkt.hdr.hpt.pn) = "ok"
        /\ SkipRc(SteppedHE(s, pkt), pkt.hdr.hpt.n) = "ok"
    BY OpenedStages
  <2>2. Sound(p, s)
    BY DEF Local
  <2>3. SkipRc(s, pkt.hdr.hpt.pn) = SkipRc(U, pkt.hdr.hpt.pn)
    BY <2>2, RcSame
  <2>4. Sound(p, SteppedHE(s, pkt)) /\ Unveiled(SteppedHE(s, pkt)) = Stepped(U, o.hdr)
    BY <2>1, <2>3, SteppedSame
  <2>5. SkipRc(Stepped(U, o.hdr), pkt.hdr.hpt.n) = "ok"
    BY <2>1, <2>4, RcSame
  <2>6. QED
    BY <2>1, <2>3, <2>5, ReadySame
<1>2. SkippedFind(U, o.hdr) = {}
  BY StoredSame DEF Bare
<1>3. DecryptStateHE(s, pkt) = t
  BY DEF DecryptStateHE
<1>4. DecryptState(U, o) = b
  BY <1>2 DEF DecryptState
<1>5. /\ HeSession(r) /\ DOMAIN r = Field \cup {"hks", "hkr", "nhks", "nhkr"}
      /\ {"ckr", "nr", "skipped", "rk", "dhr"} \subseteq Field
      /\ {"hks", "hkr", "nhks", "nhkr"} \cap {"ckr", "nr"} = {}
  BY <1>1, Fields DEF Sound, HeSession
<1>6. R.ckr = r.ckr /\ R.nr = r.nr /\ R.skipped = Bare(r.skipped) /\ DOMAIN R = Field
  BY <1>1, NamedFields, UnveiledFields
<1>7. \A f \in Field \ {"skipped"} : R[f] = r[f]
  BY <1>1, UnveiledFields
<1> HIDE DEF r, R, U, o
<1>8. /\ DOMAIN b = Field /\ b = [f \in Field |-> b[f]]
      /\ b.ckr = Advance(R.ckr, 1) /\ b.nr = R.nr + 1
      /\ \A f \in Field \ {"ckr", "nr"} : b[f] = R[f]
  BY <1>5, <1>6
<1>9. /\ DOMAIN t = DOMAIN r
      /\ t.ckr = Advance(r.ckr, 1) /\ t.nr = r.nr + 1
      /\ \A f \in DOMAIN r \ {"ckr", "nr"} : t[f] = r[f]
  BY <1>5
<1> HIDE DEF t, b
<1>10. Unveiled(t) = b
  <2>1. ASSUME NEW f \in Field \ {"skipped"} PROVE t[f] = b[f]
    BY <1>5, <1>6, <1>7, <1>8, <1>9
  <2>2. Bare(t.skipped) = b.skipped
    BY <1>5, <1>6, <1>8, <1>9
  <2>3. QED
    BY <1>8, <2>1, <2>2, UnveiledEqual
<1>11. HeSession(t)
  <2>1. /\ t.rk = r.rk /\ t.dhr = r.dhr /\ t.hks = r.hks /\ t.hkr = r.hkr
        /\ t.nhks = r.nhks /\ t.nhkr = r.nhkr /\ t.skipped = r.skipped
    BY <1>5, <1>9
  <2>2. QED
    BY <1>5, <1>9, <2>1, HeSessionKept
<1>12. QED
  BY <1>3, <1>4, <1>10, <1>11 DEF U, o

(* When the packet opens, the session ratchet_decrypt_he commits is the    *)
(* one ratchet_decrypt commits underneath.                                 *)
LEMMA DecryptStateSame ==
    ASSUME NEW p \in Party, NEW s, NEW pkt, Local(p, s, pkt), DecryptRcHE(s, pkt) = "ok"
    PROVE  /\ Unveiled(DecryptStateHE(s, pkt)) = DecryptState(Unveiled(s), UnveiledPacket(pkt))
           /\ HeSession(DecryptStateHE(s, pkt))
<1>1. CASE StoredFor(s, pkt) # {}
  BY <1>1, StoredStateSame
<1>2. CASE StoredFor(s, pkt) = {}
  BY <1>2, ChainStateSame
<1>3. QED
  BY <1>1, <1>2

(***************************************************************************)
(* What the invariant says of a session and any packet in flight.          *)
(***************************************************************************)
LEMMA UnderIs ==
    ASSUME NEW p \in Party
    PROVE  /\ Under(p) = Unveiled(sess[p])
           /\ UnderSent(p) = {UnveiledPacket(pkt) : pkt \in sent[p]}
  BY DEF Under, UnderSent

LEMMA PacketDh ==
    ASSUME NEW pkt
    PROVE  UnveiledPacket(pkt).hdr.dh = pkt.hdr.hpt.dh
  BY DEF UnveiledPacket, Classical

LEMMA SentBy ==
    ASSUME VeilInv, NEW p \in Party, NEW pkt \in sent[p]
    PROVE  pkt.hdr.hpt.dh[1] = p
<1>1. \A o \in UnderSent(p) : o.hdr.dh[1] = p
  BY UnderFacts DEF Facts, VeilInv
<1>2. UnveiledPacket(pkt) \in UnderSent(p)
  BY UnderIs
<1>3. QED
  BY <1>1, <1>2, PacketDh

LEMMA SessFacts ==
    ASSUME VeilInv, NEW p \in Party
    PROVE  LET s == sess[p]
           IN  /\ Sound(p, s)
               /\ s.dhs[1] = p /\ Len(s.rk) = Place(s.dhs)
               /\ s.kss_send = NoSS /\ s.kss_recv = NoSS
               /\ s.dhr = NoKey \/ s.dhr[1] = Peer(p)
               /\ Place(s.dhr) <= Len(s.rk)
               /\ \A e \in s.skipped :
                    /\ e.dh[1] = Peer(p)
                    /\ Place(e.dh) <= Len(s.rk)
                    /\ \E pkt \in sent[Peer(p)] : pkt.hdr.hpt.dh = e.dh
<1> DEFINE s == sess[p]
           U == Under(p)
<1>1. Facts(p, U, UnderSent(p), UnderSent(Peer(p)))
  BY UnderFacts DEF VeilInv
<1>2. U = Unveiled(s) /\ Peer(p) \in Party
  BY UnderIs, PeerType
<1>3. HeSession(s)
  BY DEF VeilInv, Veil
<1>4. Sound(p, s)
  BY <1>1, <1>2, <1>3 DEF Sound, Facts
<1> HIDE DEF s, U
<1>5. /\ U.rk = s.rk /\ U.dhs = s.dhs /\ U.dhr = s.dhr
      /\ U.kss_send = s.kss_send /\ U.kss_recv = s.kss_recv
      /\ U.skipped = Bare(s.skipped)
  BY <1>2, NamedFields
<1>6. ASSUME NEW e \in s.skipped
      PROVE  /\ e.dh[1] = Peer(p) /\ Place(e.dh) <= Len(s.rk)
             /\ \E pkt \in sent[Peer(p)] : pkt.hdr.hpt.dh = e.dh
  <2>1. BareOf(e) \in U.skipped /\ BareOf(e).dh = e.dh
    BY <1>5 DEF Bare, BareOf
  <2>2. /\ e.dh[1] = Peer(p) /\ Place(e.dh) <= Len(U.rk)
        /\ \E o \in UnderSent(Peer(p)) : o.hdr.dh = e.dh
    BY <1>1, <2>1 DEF Facts
  <2>3. PICK pkt \in sent[Peer(p)] : UnveiledPacket(pkt).hdr.dh = e.dh
    BY <1>2, <2>2, UnderIs
  <2>4. QED
    BY <1>5, <2>2, <2>3, PacketDh
<1>7. QED
  BY <1>1, <1>4, <1>5, <1>6 DEF Facts, s

LEMMA GenuineFrom ==
    ASSUME VeilInv, NEW pkt \in Genuine
    PROVE  \E p \in Party : pkt \in sent[p] /\ pkt.hdr.hpt.dh[1] = p
<1>1. PICK p \in Party : pkt \in sent[p]
  BY DEF Genuine, Party
<1>2. QED
  BY <1>1, SentBy

LEMMA AnyLocal ==
    ASSUME VeilInv, NEW p \in Party, NEW pkt \in Genuine
    PROVE  Local(p, sess[p], pkt)
<1>1. HePacket(pkt)
  BY DEF VeilInv, Veil
<1>2. pkt.hdr.hpt.dh[1] \in Party
  BY GenuineFrom
<1>3. QED
  BY <1>1, <1>2, SessFacts DEF Local

(* The packets of the other party lie on the chains it has sent on so far. *)
LEMMA GenuineType ==
    ASSUME VeilInv, NEW pkt \in Genuine
    PROVE  /\ HePacket(pkt) /\ pkt.hdr.hpt.dh \in Key /\ Place(pkt.hdr.hpt.dh) \in Nat
           /\ pkt.hdr.hpt.dh[1] \in Party
<1>1. HePacket(pkt)
  BY DEF VeilInv, Veil
<1>2. QED
  BY <1>1, GenuineFrom, PlaceType DEF HePacket, PacketHE, HeaderHE

(***************************************************************************)
(* OneHeaderKeyOpens.                                                      *)
(***************************************************************************)
LEMMA VeilOneKey == VeilInv => OneHeaderKeyOpens
<1> SUFFICES ASSUME VeilInv PROVE OneHeaderKeyOpens
  OBVIOUS
<1>1. ASSUME NEW a \in Genuine, NEW b \in Genuine
      PROVE  a.hdr.hk = b.hdr.hk <=> a.hdr.hpt.dh = b.hdr.hpt.dh
  <2>1. /\ a.hdr.hk = HkAt(Place(a.hdr.hpt.dh))
        /\ b.hdr.hk = HkAt(Place(b.hdr.hpt.dh))
    BY GenuineType DEF HePacket
  <2>2. QED
    BY <2>1, GenuineType, HkInjective, PlaceInjective
<1>2. ASSUME NEW p \in Party
      PROVE  LET s == sess[p]
             IN  /\ s.hkr # s.nhkr
                 /\ \A e \in s.skipped : e.hk # s.nhkr /\ (e.hk = s.hkr <=> e.dh = s.dhr)
                 /\ \A pkt \in sent[p] :
                       pkt.hdr.hk \notin {s.hkr, s.nhkr} \cup {e.hk : e \in s.skipped}
  <2> DEFINE s == sess[p]
             n == Len(s.rk) + 1
  <2>1. /\ s.hkr = HkAt(Place(s.dhr)) /\ s.nhkr = HkAt(n)
        /\ \A e \in s.skipped : e \in SkippedHE /\ e.hk = HkAt(Place(e.dh))
        /\ Unveiled(s) \in Session
    BY SessFacts DEF Sound, HeSession, SessionInv
  <2>2. /\ s.dhs[1] = p /\ Len(s.rk) = Place(s.dhs)
        /\ s.dhr = NoKey \/ s.dhr[1] = Peer(p)
        /\ Place(s.dhr) <= Len(s.rk)
        /\ \A e \in s.skipped : /\ e.dh[1] = Peer(p)
                                /\ Place(e.dh) <= Len(s.rk)
                                /\ \E pkt \in sent[Peer(p)] : pkt.hdr.hpt.dh = e.dh
    BY SessFacts
  <2>3. /\ s.dhr \in Key /\ s.dhs \in Key /\ Place(s.dhr) \in Nat /\ Place(s.dhs) \in Nat
        /\ Peer(p) \in Party /\ Peer(p) # p
    BY <2>1, FieldTypes, NamedFields, PlaceType, PeerType
  <2>4. n \in Nat /\ n # Place(s.dhr) /\ n # 0
    BY <2>2, <2>3
  <2>5. \A e \in s.skipped : e.dh \in Key /\ Place(e.dh) \in Nat /\ n # Place(e.dh)
    <3>1. \A e \in s.skipped : e.dh \in Key /\ Place(e.dh) \in Nat
      BY <2>1, PlaceType DEF SkippedHE
    <3>2. QED
      BY <2>2, <2>3, <3>1
  <2>6. \A e \in s.skipped : e.dh # NoKey
    BY <2>2, <2>3, KeyPair
  <2>7. Place(NoKey) = 0
    BY DEF Place, NoKey, Side
  <2> HIDE DEF s, n
  <2>8. s.hkr # s.nhkr
    BY <2>1, <2>3, <2>4, HkInjective
  <2>9. ASSUME NEW e \in s.skipped
        PROVE  e.hk # s.nhkr /\ (e.hk = s.hkr <=> e.dh = s.dhr)
    <3>1. e.hk = HkAt(Place(e.dh)) /\ e.dh[1] \in Party /\ e.dh[1] = Peer(p)
      BY <2>1, <2>2, <2>3
    <3>2. e.hk # s.nhkr
      BY <2>1, <2>4, <2>5, <3>1, HkInjective
    <3>3. ASSUME e.hk = s.hkr PROVE e.dh = s.dhr
      <4>1. Place(e.dh) = Place(s.dhr)
        BY <2>1, <2>3, <2>5, <3>1, <3>3, HkInjective
      <4>2. CASE s.dhr = NoKey
        <5>1. PICK pkt \in sent[Peer(p)] : pkt.hdr.hpt.dh = e.dh
          BY <2>2
        <5>2. pkt \in Genuine
          BY <2>3, <5>1 DEF Genuine, Party
        <5>3. HkAt(Place(e.dh)) # NoHk
          BY <5>1, <5>2, GenuineType DEF HePacket
        <5>4. QED
          BY <2>7, <4>1, <4>2, <5>3, HkNone
      <4>3. CASE s.dhr[1] = Peer(p)
        BY <2>3, <2>5, <3>1, <4>1, <4>3, PlaceInjective
      <4>4. QED
        BY <2>2, <4>2, <4>3
    <3>4. QED
      BY <2>1, <3>1, <3>2, <3>3
  <2>10. ASSUME NEW pkt \in sent[p]
         PROVE  pkt.hdr.hk \notin {s.hkr, s.nhkr} \cup {e.hk : e \in s.skipped}
    <3> DEFINE d == pkt.hdr.hpt.dh
    <3>0. pkt \in Genuine
      BY DEF Genuine, Party
    <3>1. /\ d \in Key /\ Place(d) \in Nat /\ d[1] = p
          /\ pkt.hdr.hk = HkAt(Place(d)) /\ HkAt(Place(d)) # NoHk
      BY <3>0, GenuineType, SentBy DEF HePacket
    <3> HIDE DEF d
    <3>2. ASSUME pkt.hdr.hk = s.hkr PROVE FALSE
      <4>1. Place(d) = Place(s.dhr)
        BY <2>1, <2>3, <3>1, <3>2, HkInjective
      <4>2. s.dhr # NoKey
        BY <2>7, <3>1, <4>1, HkNone
      <4>3. QED
        BY <2>2, <2>3, <3>1, <4>1, <4>2, PlaceParity
    <3>3. ASSUME NEW e \in s.skipped, pkt.hdr.hk = e.hk PROVE FALSE
      <4>1. Place(d) = Place(e.dh)
        BY <2>1, <2>5, <3>1, <3>3, HkInjective
      <4>2. QED
        BY <2>2, <2>3, <2>5, <3>1, <4>1, PlaceParity
    <3>4. ASSUME pkt.hdr.hk = s.nhkr PROVE FALSE
      <4>1. Place(d) = n
        BY <2>1, <2>4, <3>1, <3>4, HkInjective
      <4>2. d[2] \in Nat /\ s.dhs[2] \in Nat
        BY <2>3, <3>1, KeyPair
      <4>3. 2 * d[2] + Side(p) = 2 * s.dhs[2] + Side(p) + 1
        BY <2>2, <3>1, <4>1 DEF Place, n
      <4>4. QED
        BY <4>2, <4>3, SideType
    <3>5. QED
      BY <3>2, <3>3, <3>4
  <2>11. QED
    BY <2>8, <2>9, <2>10 DEF s
<1>3. QED
  BY <1>1, <1>2 DEF OneHeaderKeyOpens

(***************************************************************************)
(* DecryptableHE.                                                          *)
(***************************************************************************)
(* A packet is known from the one underneath.                              *)
Veiled(o) ==
    LET hdr == [hk |-> HkAt(Place(o.hdr.dh)),
                hpt |-> [dh |-> o.hdr.dh, pn |-> o.hdr.pn, n |-> o.hdr.n]]
    IN  [hdr |-> hdr,
         box |-> [key |-> o.box.key, n |-> o.box.n, aad |-> hdr, pt |-> o.box.pt]]

LEMMA VeiledBack ==
    ASSUME NEW pkt, HePacket(pkt)
    PROVE  Veiled(UnveiledPacket(pkt)) = pkt
<1> DEFINE o == UnveiledPacket(pkt)
           h == pkt.hdr.hpt
<1>0. /\ h \in [dh : Key, pn : Nat, n : Nat]
      /\ pkt.hdr \in [hk : HeaderKey, hpt : [dh : Key, pn : Nat, n : Nat]]
      /\ pkt.box \in [key : ChainKey, n : Nat, aad : HeaderHE, pt : Plain]
      /\ pkt \in [hdr : HeaderHE, box : BoxHE]
      /\ pkt.box.aad = pkt.hdr /\ pkt.hdr.hk = HkAt(Place(h.dh))
  BY DEF HePacket, PacketHE, HeaderHE, BoxHE
<1>1. o.hdr = Classical(h) /\ o.box = [pkt.box EXCEPT !.aad = Classical(h)]
  BY <1>0 DEF UnveiledPacket
<1>2. /\ Classical(h).dh = h.dh /\ Classical(h).pn = h.pn /\ Classical(h).n = h.n
  BY DEF Classical
<1>3. o.box.key = pkt.box.key /\ o.box.n = pkt.box.n /\ o.box.pt = pkt.box.pt
  BY <1>0, <1>1
<1> HIDE DEF o
<1>4. h = [dh |-> h.dh, pn |-> h.pn, n |-> h.n]
  BY <1>0
<1> HIDE DEF h
<1>5. pkt.hdr = [hk |-> HkAt(Place(h.dh)), hpt |-> h]
  BY <1>0 DEF h
<1>6. pkt.box = [key |-> pkt.box.key, n |-> pkt.box.n, aad |-> pkt.hdr, pt |-> pkt.box.pt]
  BY <1>0
<1>7. pkt = [hdr |-> pkt.hdr, box |-> pkt.box]
  BY <1>0
<1>8. o.hdr.dh = h.dh /\ o.hdr.pn = h.pn /\ o.hdr.n = h.n
  BY <1>1, <1>2
<1>9. Veiled(o) = [hdr |-> pkt.hdr, box |-> pkt.box]
  BY <1>3, <1>4, <1>5, <1>6, <1>8 DEF Veiled
<1>10. QED
  BY <1>7, <1>9 DEF o

LEMMA UnderPending ==
    ASSUME VeilInv, NEW p \in Party
    PROVE  /\ Open!Pending(p) = {UnveiledPacket(pkt) : pkt \in Pending(p)}
           /\ Open!Cardinality(Open!Pending(p)) = Cardinality(Pending(p))
<1> DEFINE q == Peer(p)
           P == Pending(p)
           O == {UnveiledPacket(pkt) : pkt \in P}
           g == [o \in O |-> Veiled(o)]
<1>0. q \in Party /\ Open!Peer(p) = q
  BY PeerType, SameTypes
<1>1. \A pkt \in P : HePacket(pkt) /\ UnveiledPacket(pkt).box.pt = pkt.box.pt
  <2>1. P \subseteq Genuine
    BY <1>0 DEF Pending, Genuine, Party
  <2>2. QED
    BY <2>1, OpensSame DEF VeilInv, Veil
<1>2. \A pkt \in sent[q] : UnveiledPacket(pkt).box.pt = pkt.box.pt
  <2>1. sent[q] \subseteq Genuine
    BY <1>0 DEF Genuine, Party
  <2>2. QED
    BY <2>1, OpensSame DEF VeilInv, Veil
<1>3. Open!Pending(p) = O
  <2>1. Open!Pending(p) = {o \in UnderSent(q) : o.box.pt \notin opened[p]}
    BY <1>0, SameTypes DEF Open!Pending, UnderSent
  <2>2. UnderSent(q) = {UnveiledPacket(pkt) : pkt \in sent[q]}
    BY <1>0, UnderIs
  <2>3. QED
    BY <1>2, <2>1, <2>2 DEF Pending
<1>4. IsFiniteSet(O)
  <2>1. /\ UnderSent(q) \in SUBSET Packet
        /\ Open!SentGood(q, UnderSent(q), Under(q).cks, nsent[q])
    BY <1>0, Open!PartyFacts, RatchetAssumption, SameTypes DEF VeilInv, UnderSent, Under
  <2>2. nsent[q] \in Nat
    <3>1. nsent \in [Party -> 0 .. MaxSent]
      BY SameTypes DEF VeilInv, Open!SyncInv, Open!IndInv, Open!TypeOK
    <3>2. QED
      BY <1>0, <3>1, RatchetAssumption
  <2>3. IsFiniteSet(UnderSent(q))
    BY <1>0, <2>1, <2>2, Open!SentFinite, RatchetAssumption, SameTypes, SameFinite
  <2>4. O \subseteq UnderSent(q)
    BY <1>0, UnderIs DEF Pending
  <2>5. QED
    BY <2>3, <2>4, FS_Subset
<1>5. \A pkt \in P : Veiled(UnveiledPacket(pkt)) = pkt
  BY <1>1, VeiledBack
<1> HIDE DEF P
<1>6. \A o \in O : Veiled(o) \in P /\ UnveiledPacket(Veiled(o)) = o
  BY <1>5
<1>7. g \in [O -> P] /\ \A o \in O : g[o] = Veiled(o)
  BY <1>6
<1>8. \A pkt \in P : \E o \in O : g[o] = pkt
  BY <1>5, <1>7
<1>9. \A a, b \in O : g[a] = g[b] => a = b
  BY <1>6, <1>7
<1> HIDE DEF O, g
<1>10. g \in Bijection(O, P)
  BY <1>7, <1>8, <1>9 DEF Bijection, Injection, Surjection, IsInjective
<1>11. Cardinality(O) = Cardinality(P)
  BY <1>4, <1>10, FS_Bijection DEF ExistsBijection
<1>12. QED
  BY <1>3, <1>11, SameCardinality DEF O, P

(* A message that can be decrypted underneath has a header that opens.     *)
LEMMA PendingTries ==
    ASSUME VeilInv, NEW p \in Party, NEW pkt \in Pending(p), pkt.box.key.i = pkt.hdr.hpt.n
    PROVE  Tries(sess[p], pkt)
<1> DEFINE s == sess[p]
           q == Peer(p)
           t == sess[q]
           U == Under(p)
           V == Under(q)
           o == UnveiledPacket(pkt)
           d == pkt.hdr.hpt.dh
<1>0. /\ q \in Party /\ Open!Peer(p) = q /\ Open!Party = Party
      /\ pkt \in sent[q] /\ pkt \in Genuine /\ o \in UnderSent(q)
      /\ U = Unveiled(s) /\ V = Unveiled(t)
  BY PeerType, SameTypes, UnderIs DEF Pending, Genuine, Party
<1>1. Local(p, s, pkt)
  BY <1>0, AnyLocal
<1>2. o.hdr.dh = d /\ o.hdr.n = pkt.hdr.hpt.n /\ d \in Key
  BY <1>1, LocalTypes
<1>3. /\ pkt.hdr.hk = HkAt(Place(d)) /\ pkt.hdr.hk # NoHk
      /\ s.hkr = HkAt(Place(s.dhr)) /\ s.nhkr = HkAt(Len(s.rk) + 1)
  BY <1>1 DEF Local, HePacket, Sound, HeSession
<1>4. o.box.pt = pkt.box.pt /\ o.box.key = pkt.box.key
  BY <1>1, OpensSame DEF Local
<1>5. /\ Open!RecvSync(q, U, UnderSent(q), opened[p])
      /\ U \in Session /\ V \in Session
      /\ Open!SendSync(p, U, UnderSent(p)) /\ Open!SendSync(q, V, UnderSent(q))
  BY <1>0, Open!PartyFacts, RatchetAssumption, SameTypes DEF VeilInv, Under, UnderSent
<1> HIDE DEF s, q, t, U, V, o, d
<1>6. CASE Open!Seen(U, o.hdr)
  <2>1. o.box.pt \notin opened[p]
    BY <1>4 DEF Pending
  <2>2. Open!InStep(o)
    BY <1>2, <1>4 DEF Open!InStep
  <2>3. PICK b \in U.skipped : b.dh = o.hdr.dh /\ b.n = o.hdr.n
    BY <1>0, <1>5, <1>6, <2>1, <2>2 DEF Open!RecvSync, Open!Stored
  <2>4. SkippedFind(Unveiled(s), UnveiledPacket(pkt).hdr) # {}
    BY <1>0, <2>3 DEF SkippedFind, o
  <2>5. StoredFor(s, pkt) # {}
    BY <1>1, <2>4, StoredSame DEF Bare
  <2>6. QED
    BY <2>5 DEF Tries, s
<1>7. CASE ~ Open!Seen(U, o.hdr)
  <2>1. \/ o.hdr.dh = U.dhr
        \/ Open!Leads(q, V, U) /\ o.hdr.dh = V.dhs
    <3>1. /\ o \in {UnveiledPacket(x) : x \in sent[q]}
          /\ [r \in Party |-> {UnveiledPacket(x) : x \in sent[r]}][Open!Peer(p)]
                = {UnveiledPacket(x) : x \in sent[q]}
      BY <1>0 DEF o
    <3>2. ~ Open!Seen([r \in Party |-> Unveiled(sess[r])][p], o.hdr)
      BY <1>7 DEF U, Under
    <3>3. QED
      BY <1>0, <3>1, <3>2, Open!Where, RatchetAssumption DEF VeilInv, U, V, Under
  <2>2. U.dhr = s.dhr /\ V.dhs = t.dhs /\ U.rk = s.rk /\ V.rk = t.rk
    BY <1>0, NamedFields
  <2>3. CASE o.hdr.dh = U.dhr
    <3>1. HeaderOpens(s.hkr, pkt.hdr)
      BY <1>2, <1>3, <2>2, <2>3 DEF HeaderOpens
    <3>2. QED
      BY <3>1 DEF Tries, s
  <2>4. CASE Open!Leads(q, V, U) /\ o.hdr.dh = V.dhs
    <3>1. Len(V.rk) = Len(U.rk) + 1
      BY <2>4 DEF Open!Leads
    <3>2. Place(V.dhs) = Len(V.rk)
      BY <1>0, <2>2, SessFacts DEF t
    <3>3. HeaderOpens(s.nhkr, pkt.hdr)
      BY <1>2, <1>3, <2>2, <2>4, <3>1, <3>2 DEF HeaderOpens
    <3>4. QED
      BY <3>3 DEF Tries, s
  <2>5. QED
    BY <2>1, <2>3, <2>4
<1>8. QED
  BY <1>6, <1>7

LEMMA VeilDecryptable == VeilInv => DecryptableHE
<1> SUFFICES ASSUME VeilInv, NEW p \in Party, NEW pkt \in Pending(p),
                    pkt.box.key.i = pkt.hdr.hpt.n, Cardinality(Pending(p)) <= MaxSkip + 1
             PROVE  DecryptRcHE(sess[p], pkt) = "ok"
  BY DEF DecryptableHE
<1> DEFINE o == UnveiledPacket(pkt)
<1>0. pkt \in Genuine
  BY PeerType DEF Pending, Genuine, Party
<1>1. Local(p, sess[p], pkt) /\ Tries(sess[p], pkt)
  BY <1>0, AnyLocal, PendingTries
<1>2. DecryptRcHE(sess[p], pkt) = DecryptRc(Unveiled(sess[p]), o)
  BY <1>1, DecryptRcSame
<1>3. /\ o \in Open!Pending(p)
      /\ Open!Cardinality(Open!Pending(p)) <= MaxSkip + 1
  BY UnderPending
<1>4. Open!InStep(o)
  <2>1. o.box.key = pkt.box.key
    BY <1>1, OpensSame DEF Local
  <2>2. o.hdr.n = pkt.hdr.hpt.n
    BY <1>1, LocalTypes
  <2> HIDE DEF o
  <2>3. QED
    BY <2>1, <2>2 DEF Open!InStep
<1> HIDE DEF o
<1>5. Open!DecryptRc(Under(p), o) = "ok"
  <2>1. Open!Decryptable
    BY Open!SyncDecryptable, RatchetAssumption DEF VeilInv
  <2>2. Open!DecryptRc([r \in Party |-> Unveiled(sess[r])][p], o) = "ok"
    BY <1>3, <1>4, <2>1, SameTypes DEF Open!Decryptable
  <2>3. QED
    BY <2>2 DEF Under
<1>6. QED
  BY <1>2, <1>5, UnderIs, SameDecrypt DEF o

(***************************************************************************)
(* The initial state.                                                      *)
(***************************************************************************)
LEMMA FirstRoots ==
    /\ RootAt(0) = <<>> /\ InitInitiator.rk = RootAt(1)
    /\ HkAt(0) = NoHk /\ HkAt(1) = HKA /\ HkAt(2) = NHKB /\ HkAt(3) = HeaderKeyOf(RootAt(1))
    /\ Place(NoKey) = 0 /\ Place(<<"R", 0>>) = 0
    /\ InitInitiator.dhr = <<"R", 0>> /\ InitInitiator.skipped = {}
    /\ InitResponder.rk = <<>> /\ InitResponder.dhr = NoKey /\ InitResponder.skipped = {}
    /\ DOMAIN InitInitiator = Field
    /\ InitInitiator = [f \in Field |-> InitInitiator[f]]
    /\ InitResponder = [f \in Field |-> InitResponder[f]]
<1>1. RootAt(0) = <<>>
  BY DEF RootAt
<1>2. MixAt(1) = [dh |-> {<<"I", 0>>, <<"R", 0>>}, ss |-> NoSS]
  BY DEF MixAt
<1>3. RootAt(1) = <<MixAt(1)>>
  <2>1. \A S : [m \in 1 .. 1 |-> MixAt(m)] = <<MixAt(1)>>
    OBVIOUS
  <2>2. QED
    BY <2>1 DEF RootAt
<1>4. InitInitiator.rk = <<MixAt(1)>>
  <2>1. InitInitiator.rk = KdfRk(<<>>, DH(<<"I", 0>>, <<"R", 0>>), NoSS)
    BY DEF InitInitiator, Blank
  <2>2. KdfRk(<<>>, DH(<<"I", 0>>, <<"R", 0>>), NoSS) = <<MixAt(1)>>
    BY <1>2 DEF KdfRk, DH
  <2>3. QED
    BY <2>1, <2>2
<1>5. /\ HkAt(0) = NoHk /\ HkAt(1) = HKA /\ HkAt(2) = NHKB
      /\ HkAt(3) = HeaderKeyOf(RootAt(1))
  BY DEF HkAt
<1>6. Place(NoKey) = 0 /\ Place(<<"R", 0>>) = 0
  BY DEF Place, Side, NoKey
<1>7. /\ InitInitiator.dhr = <<"R", 0>> /\ InitInitiator.skipped = {}
      /\ InitResponder.rk = <<>> /\ InitResponder.dhr = NoKey /\ InitResponder.skipped = {}
  BY DEF InitInitiator, InitResponder, Blank
<1>8. /\ DOMAIN InitInitiator = Field
      /\ InitInitiator = [f \in Field |-> InitInitiator[f]]
      /\ InitResponder = [f \in Field |-> InitResponder[f]]
  <2> DEFINE b == Blank("R")
             c == Blank("I")
  <2>1. DOMAIN b = DOMAIN c
    BY DEF Blank
  <2>2. b = [f \in DOMAIN b |-> b[f]] /\ c = [f \in DOMAIN c |-> c[f]]
    BY DEF Blank
  <2>3. InitResponder = b /\ Field = DOMAIN b
    BY Zenon DEF InitResponder, Field
  <2> HIDE DEF b
  <2>4. /\ DOMAIN InitInitiator = DOMAIN c
        /\ InitInitiator = [f \in DOMAIN c |-> InitInitiator[f]]
    <3> HIDE DEF c
    <3>1. QED
      BY <2>2, Zenon DEF InitInitiator, c
  <2>5. QED
    BY <2>1, <2>2, <2>3, <2>4, Zenon
<1>9. QED
  BY <1>1, <1>3, <1>4, <1>5, <1>6, <1>7, <1>8

(* A session with the header keys of its root added.                       *)
KeysOf(s) ==
    [hks |-> HkAt(Len(s.rk)), hkr |-> HkAt(Place(s.dhr)),
     nhks |-> HkAt(Len(s.rk) + 2), nhkr |-> HkAt(Len(s.rk) + 1)]

LEMMA WithKeysFacts ==
    ASSUME NEW s, DOMAIN s = Field, s = [f \in Field |-> s[f]], s.skipped = {},
           s.rk = RootAt(Len(s.rk))
    PROVE  HeSession(WithKeys(s, KeysOf(s))) /\ Unveiled(WithKeys(s, KeysOf(s))) = s
<1> DEFINE k == KeysOf(s)
           t == WithKeys(s, k)
<1>1. /\ DOMAIN k = {"hks", "hkr", "nhks", "nhkr"}
      /\ k.hks = HkAt(Len(s.rk)) /\ k.hkr = HkAt(Place(s.dhr))
      /\ k.nhks = HkAt(Len(s.rk) + 2) /\ k.nhkr = HkAt(Len(s.rk) + 1)
  BY DEF KeysOf
<1>2. {"hks", "hkr", "nhks", "nhkr"} \cap Field = {} /\ {"rk", "dhr", "skipped"} \subseteq Field
  BY Fields
<1> HIDE DEF k
<1>3. /\ DOMAIN t = Field \cup {"hks", "hkr", "nhks", "nhkr"}
      /\ \A f \in Field : t[f] = s[f]
      /\ t.hks = k.hks /\ t.hkr = k.hkr /\ t.nhks = k.nhks /\ t.nhkr = k.nhkr
  BY <1>1, <1>2 DEF WithKeys
<1> HIDE DEF t
<1>4. HeSession(t)
  BY <1>1, <1>2, <1>3 DEF HeSession
<1>5. Unveiled(t) = s
  <2>1. Bare(t.skipped) = s.skipped
    BY <1>2, <1>3 DEF Bare
  <2>2. QED
    BY <1>3, <2>1, UnveiledEqual
<1>6. QED
  BY <1>4, <1>5 DEF t, k

LEMMA InitVeil == InitHE => VeilInv /\ Open!Init
<1> SUFFICES ASSUME InitHE PROVE VeilInv /\ Open!Init
  OBVIOUS
<1>1. HeSession(InitResponderHE) /\ Unveiled(InitResponderHE) = InitResponder
  <2>1. Len(InitResponder.rk) = 0
    BY FirstRoots
  <2>2. DOMAIN InitResponder = Field
    BY DEF Field
  <2> DEFINE s == InitResponder
  <2>3. InitResponderHE = WithKeys(s, [hks |-> NoHk, hkr |-> NoHk, nhks |-> NHKB, nhkr |-> HKA])
    BY DEF InitResponderHE
  <2> HIDE DEF s
  <2>4. /\ DOMAIN s = Field /\ s = [f \in Field |-> s[f]] /\ s.skipped = {}
        /\ Len(s.rk) = 0 /\ s.rk = RootAt(Len(s.rk)) /\ Place(s.dhr) = 0
    BY <2>1, <2>2, FirstRoots DEF s
  <2>5. /\ NoHk = HkAt(Len(s.rk)) /\ NoHk = HkAt(Place(s.dhr))
        /\ NHKB = HkAt(Len(s.rk) + 2) /\ HKA = HkAt(Len(s.rk) + 1)
    <3>1. 0 + 2 = 2 /\ 0 + 1 = 1
      OBVIOUS
    <3>2. QED
      BY <2>4, <3>1, FirstRoots
  <2>6. InitResponderHE = WithKeys(s, KeysOf(s))
    BY <2>3, <2>5 DEF KeysOf
  <2>7. QED
    BY <2>4, <2>6, WithKeysFacts DEF s
<1>2. HeSession(InitInitiatorHE) /\ Unveiled(InitInitiatorHE) = InitInitiator
  <2>1. Len(InitInitiator.rk) = 1
    BY FirstRoots, RootAtLength
  <2> DEFINE s == InitInitiator
             k == HeaderKeyOf(s.rk)
  <2>2. InitInitiatorHE = WithKeys(s, [hks |-> HKA, hkr |-> NoHk, nhks |-> k, nhkr |-> NHKB])
    BY DEF InitInitiatorHE
  <2> HIDE DEF s
  <2>3. /\ DOMAIN s = Field /\ s = [f \in Field |-> s[f]] /\ s.skipped = {}
        /\ Len(s.rk) = 1 /\ s.rk = RootAt(Len(s.rk)) /\ Place(s.dhr) = 0
    BY <2>1, FirstRoots DEF s
  <2>4. /\ HKA = HkAt(Len(s.rk)) /\ NoHk = HkAt(Place(s.dhr))
        /\ k = HkAt(Len(s.rk) + 2) /\ NHKB = HkAt(Len(s.rk) + 1)
    <3>1. 1 + 2 = 3 /\ 1 + 1 = 2
      OBVIOUS
    <3>2. QED
      BY <2>3, <3>1, FirstRoots
  <2> HIDE DEF k
  <2>5. InitInitiatorHE = WithKeys(s, KeysOf(s))
    BY <2>2, <2>4 DEF KeysOf
  <2>6. QED
    BY <2>3, <2>5, WithKeysFacts DEF s
<1>3. /\ sess = [p \in Party |-> IF p = "I" THEN InitInitiatorHE ELSE InitResponderHE]
      /\ sent = [p \in Party |-> {}]
      /\ nsent = [p \in Party |-> 0] /\ faults = [p \in Party |-> 0]
      /\ opened = [p \in Party |-> {}] /\ nopened = [p \in Party |-> 0]
  BY DEF InitHE
<1>4. Veil
  BY <1>1, <1>2, <1>3 DEF Veil, Genuine, Party
<1>5. Open!InitInitiator = InitInitiator /\ Open!InitResponder = InitResponder
  <2>1. \A p : Open!Blank(p) = Blank(p)
    BY SameTypes DEF Open!Blank, Blank
  <2>2. /\ \A rk, dh, ss : Open!KdfRk(rk, dh, ss) = KdfRk(rk, dh, ss)
        /\ \A a, b : Open!DH(a, b) = DH(a, b)
        /\ \A rk : Open!ChainOf(rk) = ChainOf(rk)
    BY DEF Open!KdfRk, KdfRk, Open!DH, DH, Open!ChainOf, ChainOf
  <2>3. QED
    BY <2>1, <2>2, SameTypes DEF Open!InitInitiator, InitInitiator,
                                 Open!InitResponder, InitResponder
<1>6. /\ [p \in Party |-> Unveiled(sess[p])]
            = [p \in Party |-> IF p = "I" THEN InitInitiator ELSE InitResponder]
      /\ [p \in Party |-> {UnveiledPacket(pkt) : pkt \in sent[p]}] = [p \in Party |-> {}]
  BY <1>1, <1>2, <1>3
<1>7. Open!Init
  BY <1>3, <1>5, <1>6, SameTypes DEF Open!Init
<1>8. Open!SyncInv
  BY <1>7, Open!InitSync, RatchetAssumption
<1>9. QED
  BY <1>4, <1>7, <1>8 DEF VeilInv

(***************************************************************************)
(* The steps.                                                              *)
(***************************************************************************)
LEMMA SessMoves ==
    ASSUME VeilInv, NEW p \in Party, NEW x, sess' = [sess EXCEPT ![p] = x], HeSession(x)
    PROVE  /\ [q \in Party |-> Unveiled(sess[q])]'
                = [[q \in Party |-> Unveiled(sess[q])] EXCEPT ![p] = Unveiled(x)]
           /\ \A q \in Party : HeSession(sess[q])'
           /\ (DOMAIN sess)' = Party
  BY DEF VeilInv, Veil

LEMMA SessionFields ==
    ASSUME NEW s, HeSession(s)
    PROVE  /\ {"rk", "dhr", "dhs", "cks", "ns", "skipped"} \subseteq DOMAIN s \cap Field
           /\ {"hks", "hkr", "nhks", "nhkr"} \subseteq DOMAIN s \ Field
           /\ Field \subseteq DOMAIN s
  BY Fields DEF HeSession

(* kdf_ck and the counter touch nothing the header keys depend on.         *)
LEMMA BurnedVeil ==
    ASSUME NEW s, HeSession(s)
    PROVE  /\ HeSession(Burned(s)) /\ Unveiled(Burned(s)) = Burned(Unveiled(s))
           /\ HeSession(Counted(s)) /\ Unveiled(Counted(s)) = Counted(Unveiled(s))
<1> DEFINE U == Unveiled(s)
           t == [s EXCEPT !.cks = Advance(s.cks, 1)]
           b == [U EXCEPT !.cks = Advance(U.cks, 1)]
           c == [s EXCEPT !.ns = s.ns + 1]
           d == [U EXCEPT !.ns = U.ns + 1]
<1>1. Burned(s) = t /\ Burned(U) = b /\ Counted(s) = c /\ Counted(U) = d
  BY DEF Burned, Counted
<1>2. /\ U.cks = s.cks /\ U.ns = s.ns /\ U.skipped = Bare(s.skipped) /\ DOMAIN U = Field
      /\ \A f \in Field \ {"skipped"} : U[f] = s[f]
  BY NamedFields, UnveiledFields
<1> HIDE DEF U
<1>3. /\ DOMAIN t = DOMAIN s /\ t.cks = Advance(s.cks, 1)
      /\ \A f \in DOMAIN s \ {"cks"} : t[f] = s[f]
      /\ DOMAIN c = DOMAIN s /\ c.ns = s.ns + 1
      /\ \A f \in DOMAIN s \ {"ns"} : c[f] = s[f]
  BY SessionFields
<1>4. /\ DOMAIN b = Field /\ b = [f \in Field |-> b[f]] /\ b.cks = Advance(U.cks, 1)
      /\ \A f \in Field \ {"cks"} : b[f] = U[f]
      /\ DOMAIN d = Field /\ d = [f \in Field |-> d[f]] /\ d.ns = U.ns + 1
      /\ \A f \in Field \ {"ns"} : d[f] = U[f]
  BY <1>2, SessionFields
<1> HIDE DEF t, b, c, d
<1>5. HeSession(t)
  BY <1>3, SessionFields, HeSessionKept
<1>6. HeSession(c)
  BY <1>3, SessionFields, HeSessionKept
<1>7. Unveiled(t) = b
  <2>1. \A f \in Field \ {"skipped"} : t[f] = b[f]
    BY <1>2, <1>3, <1>4, SessionFields
  <2>2. Bare(t.skipped) = b.skipped
    BY <1>2, <1>3, <1>4, SessionFields
  <2>3. QED
    BY <1>4, <2>1, <2>2, UnveiledEqual
<1>8. Unveiled(c) = d
  <2>1. \A f \in Field \ {"skipped"} : c[f] = d[f]
    BY <1>2, <1>3, <1>4, SessionFields
  <2>2. Bare(c.skipped) = d.skipped
    BY <1>2, <1>3, <1>4, SessionFields
  <2>3. QED
    BY <1>4, <2>1, <2>2, UnveiledEqual
<1>9. QED
  BY <1>1, <1>5, <1>6, <1>7, <1>8 DEF U

(* The packet ratchet_encrypt_he makes.                                    *)
HePacketOf(p) == [hdr |-> HeHdrBuild(sess[p]), box |-> SealHE(sess[p], NextPlain(p))]

LEMMA NewPacket ==
    ASSUME VeilInv, NEW p \in Party, nsent[p] < MaxSent, CanSendHE(sess[p])
    PROVE  /\ HePacket(HePacketOf(p))
           /\ UnveiledPacket(HePacketOf(p))
                = [hdr |-> Open!HdrBuild(Under(p)),
                   box |-> Open!Seal(Under(p), Open!NextPlain(p))]
<1> DEFINE s == sess[p]
           U == Under(p)
           h == [dh |-> s.dhs, pn |-> s.pn, n |-> s.ns]
           hdr == [hk |-> s.hks, hpt |-> h]
           m == NextPlain(p)
<1>1. /\ HeHdrBuild(s) = hdr
      /\ SealHE(s, m) = [key |-> s.cks, n |-> s.ns, aad |-> hdr, pt |-> m]
  BY DEF HeHdrBuild, SealHE
<1>2. /\ Sound(p, s) /\ Len(s.rk) = Place(s.dhs) /\ U = Unveiled(s) /\ U \in Session
  BY SessFacts, UnderIs DEF Sound, SessionInv
<1>3. m \in Plain
  <2>1. nsent \in [Party -> 0 .. MaxSent]
    BY SameTypes DEF VeilInv, Open!SyncInv, Open!IndInv, Open!TypeOK
  <2>2. nsent[p] + 1 \in 1 .. MaxSent
    BY <2>1, RatchetAssumption
  <2>3. QED
    BY <2>2 DEF NextPlain, Plain
<1>4. /\ U.dhs = s.dhs /\ U.pn = s.pn /\ U.ns = s.ns /\ U.cks = s.cks
      /\ s.dhs \in Key /\ s.pn \in Nat /\ s.ns \in Nat /\ s.cks \in ChainKey
      /\ Place(s.dhs) \in Nat
  BY <1>2, FieldTypes, NamedFields, PlaceType
<1>5. s.hks = HkAt(Place(s.dhs)) /\ s.hks # NoHk
  BY <1>2 DEF Sound, HeSession, CanSendHE
<1>6. s.hks \in HeaderKey
  BY <1>4, <1>5, HkType
<1>7. Classical(h) = Open!HdrBuild(U)
  <2>1. ~ PQ
    BY ClassicalAssumption
  <2>2. Classical(h) = [type |-> "classical", dh |-> s.dhs, pn |-> s.pn, n |-> s.ns,
                        kem_pk |-> NoKey, kem_ct |-> NoCt]
    BY DEF Classical
  <2> HIDE DEF s, U
  <2>3. Open!HdrBuild(U) = [type |-> "classical", dh |-> U.dhs, pn |-> U.pn, n |-> U.ns,
                            kem_pk |-> NoKey, kem_ct |-> NoCt]
    BY <2>1, SameTypes DEF Open!HdrBuild
  <2>4. QED
    BY <1>4, <2>2, <2>3
<1>8. Open!NextPlain(p) = m
  BY DEF Open!NextPlain, NextPlain
<1> DEFINE box == [key |-> s.cks, n |-> s.ns, aad |-> hdr, pt |-> m]
           pkt == [hdr |-> hdr, box |-> box]
<1>9. HePacketOf(p) = pkt
  BY <1>1 DEF HePacketOf
<1> HIDE DEF s, U, m
<1>10. HePacket(pkt)
  <2>1. h \in [dh : Key, pn : Nat, n : Nat]
    BY <1>4
  <2>2. pkt.hdr = hdr /\ pkt.box = box /\ box.aad = hdr /\ hdr.hk = s.hks /\ hdr.hpt = h
        /\ h.dh = s.dhs
    OBVIOUS
  <2> HIDE DEF h
  <2>3. hdr \in HeaderHE
    BY <1>6, <2>1 DEF HeaderHE
  <2> HIDE DEF hdr
  <2>4. box \in BoxHE
    BY <1>3, <1>4, <2>3 DEF BoxHE
  <2> HIDE DEF box
  <2>5. pkt \in PacketHE
    BY <2>3, <2>4 DEF PacketHE
  <2>6. QED
    BY <1>5, <2>2, <2>5 DEF HePacket
<1>11. UnveiledPacket(pkt)
         = [hdr |-> Classical(h),
            box |-> [key |-> s.cks, n |-> s.ns, aad |-> Classical(h), pt |-> m]]
  BY DEF UnveiledPacket
<1>12. Open!Seal(U, m) = [key |-> s.cks, n |-> s.ns, aad |-> Classical(h), pt |-> m]
  BY <1>4, <1>7 DEF Open!Seal
<1> HIDE DEF h
<1>13. UnveiledPacket(pkt) = [hdr |-> Open!HdrBuild(U), box |-> Open!Seal(U, m)]
  BY <1>7, <1>11, <1>12
<1>14. QED
  BY <1>8, <1>9, <1>10, <1>13 DEF U, m, s

LEMMA SameBurned == \A s : Open!Burned(s) = Burned(s) /\ Open!Counted(s) = Counted(s)
  BY DEF Open!Burned, Burned, Open!Advance, Advance, Open!Counted, Counted

LEMMA EncryptVeil ==
    ASSUME VeilInv, NEW p \in Party, EncryptHE(p)
    PROVE  Open!Encrypt(p) /\ Veil'
<1> DEFINE s == sess[p]
           U == Under(p)
           x == Counted(Burned(s))
           new == HePacketOf(p)
           us == [q \in Party |-> Unveiled(sess[q])]
           ut == [q \in Party |-> {UnveiledPacket(pkt) : pkt \in sent[q]}]
<1>1. /\ nsent[p] < MaxSent /\ CanSendHE(s)
      /\ sess' = [sess EXCEPT ![p] = x]
      /\ nsent' = [nsent EXCEPT ![p] = @ + 1]
      /\ sent' = [sent EXCEPT ![p] = @ \cup {new}]
      /\ UNCHANGED <<faults, opened, nopened>>
  BY DEF EncryptHE, HePacketOf
<1>2. /\ HePacket(new)
      /\ UnveiledPacket(new) = [hdr |-> Open!HdrBuild(U), box |-> Open!Seal(U, Open!NextPlain(p))]
  BY <1>1, NewPacket
<1>3. HeSession(x) /\ Unveiled(x) = Open!Counted(Open!Burned(U)) /\ U = Unveiled(s)
  <2>1. HeSession(s)
    BY DEF VeilInv, Veil
  <2>2. HeSession(Burned(s)) /\ Unveiled(Burned(s)) = Burned(Unveiled(s))
    BY <2>1, BurnedVeil
  <2>3. HeSession(x) /\ Unveiled(x) = Counted(Unveiled(Burned(s)))
    BY <2>2, BurnedVeil
  <2>4. QED
    BY <2>2, <2>3, SameBurned, UnderIs
<1>4. /\ us' = [us EXCEPT ![p] = Unveiled(x)]
      /\ \A q \in Party : HeSession(sess[q])'
      /\ (DOMAIN sess)' = Party
  BY <1>1, <1>3, SessMoves
<1> HIDE DEF x, new
<1>5. ut' = [ut EXCEPT ![p] = @ \cup {UnveiledPacket(new)}]
  BY <1>1 DEF VeilInv, Veil
<1>6. us[p] = U /\ us[p].cks = s.cks
  <2>1. U.cks = s.cks
    BY <1>3, NamedFields
  <2>2. QED
    BY <2>1 DEF Under
<1>7. Open!Encrypt(p)
  <2>1. us[p].cks # Open!NoChain
    BY <1>1, <1>6, SameTypes DEF CanSendHE
  <2>2. us' = [us EXCEPT ![p] = Open!Counted(Open!Burned(@))]
    BY <1>3, <1>4, <1>6
  <2>3. ut' = [ut EXCEPT ![p] = @ \cup {[hdr |-> Open!HdrBuild(us[p]),
                                         box |-> Open!Seal(us[p], Open!NextPlain(p))]}]
    BY <1>2, <1>5, <1>6
  <2>4. QED
    BY <1>1, <2>1, <2>2, <2>3 DEF Open!Encrypt
<1>8. Veil'
  <2>1. (DOMAIN sent)' = Party
    BY <1>1 DEF VeilInv, Veil
  <2>2. \A pkt \in Genuine' : HePacket(pkt)
    <3>1. Genuine' \subseteq Genuine \cup {new}
      BY <1>1 DEF Genuine, Party, VeilInv, Veil
    <3>2. \A pkt \in Genuine : HePacket(pkt)
      BY DEF VeilInv, Veil
    <3>3. QED
      BY <1>2, <3>1, <3>2
  <2>3. QED
    BY <1>4, <2>1, <2>2 DEF Veil
<1>9. QED
  BY <1>7, <1>8

(* A step that sends nothing.                                              *)
LEMMA VeilKept ==
    ASSUME VeilInv, UNCHANGED sent, \A q \in Party : HeSession(sess[q])', (DOMAIN sess)' = Party
    PROVE  /\ Veil'
           /\ UNCHANGED [q \in Party |-> {UnveiledPacket(pkt) : pkt \in sent[q]}]
<1>1. Genuine' = Genuine /\ (DOMAIN sent)' = Party
  BY DEF Genuine, VeilInv, Veil
<1>2. \A pkt \in Genuine' : HePacket(pkt)
  BY <1>1 DEF VeilInv, Veil
<1>3. QED
  BY <1>1, <1>2 DEF Veil

LEMMA EncryptFailsVeil ==
    ASSUME VeilInv, NEW p \in Party, EncryptHEFails(p)
    PROVE  Open!EncryptFails(p) /\ Veil'
<1> DEFINE s == sess[p]
           U == Under(p)
           x == Burned(s)
           us == [q \in Party |-> Unveiled(sess[q])]
<1>1. /\ faults[p] < MaxFaults /\ CanSendHE(s)
      /\ sess' = [sess EXCEPT ![p] = x]
      /\ faults' = [faults EXCEPT ![p] = @ + 1]
      /\ UNCHANGED <<sent, nsent, opened, nopened>>
  BY DEF EncryptHEFails
<1>2. HeSession(x) /\ Unveiled(x) = Open!Burned(U) /\ U = Unveiled(s)
  <2>1. HeSession(s)
    BY DEF VeilInv, Veil
  <2>2. QED
    BY <2>1, BurnedVeil, SameBurned, UnderIs
<1>3. /\ us' = [us EXCEPT ![p] = Unveiled(x)]
      /\ \A q \in Party : HeSession(sess[q])'
      /\ (DOMAIN sess)' = Party
  BY <1>1, <1>2, SessMoves
<1> HIDE DEF x
<1>4. Veil' /\ UNCHANGED [q \in Party |-> {UnveiledPacket(pkt) : pkt \in sent[q]}]
  BY <1>1, <1>3, VeilKept
<1>5. us[p] = U /\ us[p].cks # Open!NoChain
  <2>1. U.cks = s.cks
    BY <1>2, NamedFields
  <2>2. QED
    BY <1>1, <2>1, SameTypes DEF Under, CanSendHE
<1>6. us' = [us EXCEPT ![p] = Open!Burned(@)]
  BY <1>2, <1>3, <1>5
<1>7. Open!EncryptFails(p)
  BY <1>1, <1>4, <1>5, <1>6 DEF Open!EncryptFails
<1>8. QED
  BY <1>4, <1>7

(* A body opens only with the header it was sealed with.                   *)
LEMMA OpenedGenuine ==
    ASSUME VeilInv, NEW p \in Party, NEW pkt \in NetworkHE, DecryptRcHE(sess[p], pkt) = "ok"
    PROVE  pkt \in Genuine
<1> DEFINE s == sess[p]
<1>1. pkt.box.aad = pkt.hdr
  <2>1. \E mk : OpensHE(mk, pkt)
    <3>1. CASE StoredFor(s, pkt) # {}
      BY <3>1 DEF DecryptRcHE
    <3>2. CASE StoredFor(s, pkt) = {}
      <4>1. /\ NewEpoch(s, pkt) => /\ HeaderOpens(s.nhkr, pkt.hdr)
                                   /\ SkipRc(s, pkt.hdr.hpt.pn) = "ok"
            /\ SkipRc(SteppedHE(s, pkt), pkt.hdr.hpt.n) = "ok"
        BY <3>2, OpenedStages
      <4>2. OpensHE(ReadyHE(s, pkt).ckr, pkt)
        BY <3>2, <4>1 DEF DecryptRcHE, NewEpoch
      <4>3. QED
        BY <4>2
    <3>3. QED
      BY <3>1, <3>2
  <2>2. QED
    BY <2>1 DEF OpensHE
<1>2. PICK g \in Genuine : \E h : pkt = [g EXCEPT !.hdr = h]
  BY DEF NetworkHE
<1>3. PICK h : pkt = [g EXCEPT !.hdr = h]
  BY <1>2
<1>4. /\ g \in [hdr : HeaderHE, box : BoxHE] /\ g.box.aad = g.hdr
  BY DEF VeilInv, Veil, HePacket, PacketHE
<1>5. pkt.hdr = h /\ pkt.box = g.box
  BY <1>3, <1>4
<1>6. h = g.hdr
  BY <1>1, <1>4, <1>5
<1>7. pkt = g
  BY <1>3, <1>4, <1>6
<1>8. QED
  BY <1>7

LEMMA CommitVeil ==
    ASSUME VeilInv, NEW p \in Party, NEW pkt \in NetworkHE, CommitHE(p, pkt),
           UNCHANGED <<sent, nsent, faults>>
    PROVE  /\ Veil'
           /\ UnveiledPacket(pkt) \in Open!Network
           /\ Open!Decrypt(p, UnveiledPacket(pkt))
<1> DEFINE s == sess[p]
           U == Under(p)
           o == UnveiledPacket(pkt)
           x == DecryptStateHE(s, pkt)
           us == [q \in Party |-> Unveiled(sess[q])]
           ut == [q \in Party |-> {UnveiledPacket(r) : r \in sent[q]}]
<1>1. /\ DecryptRcHE(s, pkt) = "ok" /\ x.dhs[2] <= MaxSteps
      /\ sess' = [sess EXCEPT ![p] = x]
      /\ opened' = [opened EXCEPT ![p] = @ \cup {pkt.box.pt}]
      /\ nopened' = [nopened EXCEPT ![p] = @ + 1]
      /\ UNCHANGED <<sent, nsent, faults>>
  BY DEF CommitHE
<1>2. pkt \in Genuine
  BY <1>1, OpenedGenuine
<1>3. Local(p, s, pkt) /\ U = Unveiled(s)
  BY <1>2, AnyLocal, UnderIs
<1>4. Open!DecryptRc(U, o) = "ok"
  BY <1>1, <1>3, OkTries, DecryptRcSame, SameDecrypt
<1>5. Unveiled(x) = Open!DecryptState(U, o) /\ HeSession(x)
  BY <1>1, <1>3, DecryptStateSame, SameDecrypt
<1>6. o.box.pt = pkt.box.pt
  BY <1>3, OpensSame DEF Local
<1> HIDE DEF x, o
<1>7. /\ us' = [us EXCEPT ![p] = Unveiled(x)]
      /\ \A q \in Party : HeSession(sess[q])'
      /\ (DOMAIN sess)' = Party
  BY <1>1, <1>5, SessMoves
<1>8. Veil' /\ UNCHANGED ut
  BY <1>1, <1>7, VeilKept
<1>9. us[p] = U
  BY DEF Under
<1>10. Open!DecryptState(U, o).dhs[2] <= MaxSteps
  BY <1>1, <1>5, NamedFields
<1>11. Open!Commit(p, o)
  <2>1. us' = [us EXCEPT ![p] = Open!DecryptState(@, o)]
    BY <1>5, <1>7, <1>9
  <2>2. opened' = [opened EXCEPT ![p] = @ \cup {o.box.pt}]
    BY <1>1, <1>6
  <2>3. QED
    BY <1>1, <1>4, <1>9, <1>10, <2>1, <2>2 DEF Open!Commit
<1>12. Open!Decrypt(p, o)
  BY <1>1, <1>8, <1>11 DEF Open!Decrypt
<1>13. o \in Open!Network
  <2>1. o \in ut["I"] \cup ut["R"]
    BY <1>2 DEF Genuine, Party, o
  <2>2. o \in Open!Genuine
    BY <2>1 DEF Open!Genuine
  <2>3. QED
    BY <2>2 DEF Open!Network
<1>14. QED
  BY <1>8, <1>12, <1>13 DEF o

(* Every step is a step of the classical ratchet underneath or leaves it   *)
(* as it was.                                                              *)
LEMMA VeilSteps == VeilInv /\ [NextHE]_vars => [Open!Next]_Open!vars /\ Veil'
<1> SUFFICES ASSUME VeilInv, [NextHE]_vars PROVE [Open!Next]_Open!vars /\ Veil'
  OBVIOUS
<1>0. Open!Party = Party
  BY SameTypes
<1>1. ASSUME NEW p \in Party, EncryptHE(p)
      PROVE  Open!Next /\ Veil'
  BY <1>0, <1>1, EncryptVeil DEF Open!Next
<1>2. ASSUME NEW p \in Party, EncryptHEFails(p)
      PROVE  Open!Next /\ Veil'
  BY <1>0, <1>2, EncryptFailsVeil DEF Open!Next
<1>3. ASSUME UNCHANGED vars
      PROVE  UNCHANGED Open!vars /\ Veil'
  <2>1. UNCHANGED <<sess, sent, nsent, faults, opened, nopened>>
    BY <1>3 DEF vars
  <2>2. UNCHANGED Open!vars
    BY <2>1 DEF Open!vars
  <2>3. Veil'
    BY <2>1 DEF VeilInv, Veil, Genuine
  <2>4. QED
    BY <2>2, <2>3
<1>4. ASSUME NEW p \in Party, NEW pkt \in NetworkHE, DecryptHE(p, pkt)
      PROVE  [Open!Next]_Open!vars /\ Veil'
  <2>1. CASE CommitHE(p, pkt)
    <3>1. UNCHANGED <<sent, nsent, faults>>
      BY <1>4 DEF DecryptHE
    <3>2. /\ Veil' /\ UnveiledPacket(pkt) \in Open!Network
          /\ Open!Decrypt(p, UnveiledPacket(pkt))
      BY <2>1, <3>1, CommitVeil
    <3>3. QED
      BY <1>0, <3>2 DEF Open!Next
  <2>2. CASE RejectHE(p, pkt)
    <3>1. UNCHANGED vars
      BY <1>4, <2>2 DEF DecryptHE, RejectHE, vars
    <3>2. QED
      BY <1>3, <3>1
  <2>3. QED
    BY <1>4, <2>1, <2>2 DEF DecryptHE
<1>5. QED
  BY <1>1, <1>2, <1>3, <1>4 DEF NextHE

LEMMA VeilStep == VeilInv /\ [NextHE]_vars => VeilInv'
<1>1. Open!SyncInv /\ [Open!Next]_Open!vars => Open!SyncInv'
  BY Open!NextSync, RatchetAssumption
<1>2. QED
  BY <1>1, VeilSteps DEF VeilInv

LEMMA VeilInductive == SpecHE => []VeilInv
<1>1. InitHE => VeilInv
  BY InitVeil
<1>2. QED
  BY <1>1, VeilStep, PTL DEF SpecHE

(* No order of sending, losing, reordering and damage wedges               *)
(* ratchet_decrypt_he, whatever header is put before a body.               *)
THEOREM NeverWedgedHE == SpecHE => []DecryptableHE
  BY VeilInductive, VeilDecryptable, PTL

(* The trials of ratchet_decrypt_he find one key or none: a header opens   *)
(* under the key of its own chain and under no other.                      *)
THEOREM HeaderKeysSeparate == SpecHE => []OneHeaderKeyOpens
  BY VeilInductive, VeilOneKey, PTL

(***************************************************************************)
(* The refinement.  Plainly and Open see the same operators and the same   *)
(* actions.                                                                *)
(***************************************************************************)
LEMMA PlainTypes ==
    /\ Plainly!Party = Open!Party /\ Plainly!NoKey = Open!NoKey /\ Plainly!NoCt = Open!NoCt
    /\ Plainly!NoSS = Open!NoSS /\ Plainly!NoChain = Open!NoChain
    /\ \A rk, dh, ss : Plainly!KdfRk(rk, dh, ss) = Open!KdfRk(rk, dh, ss)
    /\ \A rk : Plainly!ChainOf(rk) = Open!ChainOf(rk)
    /\ \A ck, k : Plainly!Advance(ck, k) = Open!Advance(ck, k)
    /\ \A k : Plainly!NextKey(k) = Open!NextKey(k)
    /\ \A a, b : Plainly!DH(a, b) = Open!DH(a, b)
    /\ \A S : Plainly!Cardinality(S) = Open!Cardinality(S)
<1>1. /\ Plainly!Party = Open!Party /\ Plainly!NoKey = Open!NoKey /\ Plainly!NoCt = Open!NoCt
      /\ Plainly!NoSS = Open!NoSS /\ Plainly!NoChain = Open!NoChain
  BY DEF Plainly!Party, Open!Party, Plainly!NoKey, Open!NoKey, Plainly!NoCt, Open!NoCt,
         Plainly!NoSS, Open!NoSS, Plainly!NoChain, Open!NoChain
<1>2. /\ \A rk, dh, ss : Plainly!KdfRk(rk, dh, ss) = Open!KdfRk(rk, dh, ss)
      /\ \A rk : Plainly!ChainOf(rk) = Open!ChainOf(rk)
      /\ \A ck, k : Plainly!Advance(ck, k) = Open!Advance(ck, k)
      /\ \A k : Plainly!NextKey(k) = Open!NextKey(k)
      /\ \A a, b : Plainly!DH(a, b) = Open!DH(a, b)
  BY DEF Plainly!KdfRk, Open!KdfRk, Plainly!ChainOf, Open!ChainOf, Plainly!Advance,
         Open!Advance, Plainly!NextKey, Open!NextKey, Plainly!DH, Open!DH
<1>3. \A S : Plainly!Cardinality(S) = Open!Cardinality(S)
  BY DEF Plainly!Cardinality, Open!Cardinality
<1>4. QED
  BY <1>1, <1>2, <1>3

LEMMA PlainDecrypt ==
    ASSUME NEW s, NEW pkt
    PROVE  /\ Plainly!DecryptRc(s, pkt) = Open!DecryptRc(s, pkt)
           /\ Plainly!DecryptState(s, pkt) = Open!DecryptState(s, pkt)
<1> DEFINE h == pkt.hdr
<1>0. ~ PQ
  BY ClassicalAssumption
<1>1. /\ \A t, u : Plainly!SkipRc(t, u) = Open!SkipRc(t, u)
      /\ \A t, u : Plainly!SkipTo(t, u) = Open!SkipTo(t, u)
  <2>1. \A t, u : Plainly!SkipRc(t, u) = Open!SkipRc(t, u)
    BY PlainTypes DEF Plainly!SkipRc, Open!SkipRc
  <2>2. \A t, u : Plainly!Stash(t, u) = Open!Stash(t, u)
    BY PlainTypes DEF Plainly!Stash, Open!Stash
  <2>3. \A t, u : Plainly!SkipTo(t, u) = Open!SkipTo(t, u)
    BY <2>2, PlainTypes DEF Plainly!SkipTo, Open!SkipTo
  <2>4. QED
    BY <2>1, <2>3
<1>2. \A t : Plainly!DHRatchet(t, h) = Open!DHRatchet(t, h)
  <2>1. \A t : Plainly!KssRecv(t, h) = Open!KssRecv(t, h) /\ Plainly!KemR(t, h) = Open!KemR(t, h)
    BY <1>0 DEF Plainly!KssRecv, Open!KssRecv, Plainly!KemR, Open!KemR,
                Plainly!PqFull, Open!PqFull
  <2>2. \A t : Plainly!RecvRoot(t, h) = Open!RecvRoot(t, h)
    BY <2>1, PlainTypes DEF Plainly!RecvRoot, Open!RecvRoot
  <2>3. \A t : Plainly!RecvHalf(t, h) = Open!RecvHalf(t, h)
    BY <2>1, <2>2, PlainTypes DEF Plainly!RecvHalf, Open!RecvHalf
  <2>4. \A t : Plainly!SendHalf(t) = Open!SendHalf(t)
    BY <1>0, PlainTypes DEF Plainly!SendHalf, Open!SendHalf, Plainly!SendRoot,
                            Open!SendRoot, Plainly!Cadence, Open!Cadence
  <2>5. QED
    BY <2>3, <2>4 DEF Plainly!DHRatchet, Open!DHRatchet
<1>3. /\ Plainly!SkippedFind(s, h) = Open!SkippedFind(s, h)
      /\ Plainly!NewKey(s, h) = Open!NewKey(s, h)
      /\ Plainly!TypeOf(h) = Open!TypeOf(h)
      /\ \A mk : Plainly!Opens(mk, pkt) = Open!Opens(mk, pkt)
  BY DEF Plainly!SkippedFind, Open!SkippedFind, Plainly!NewKey, Open!NewKey,
         Plainly!TypeOf, Open!TypeOf, Plainly!Opens, Open!Opens
<1>4. Plainly!Stepped(s, h) = Open!Stepped(s, h)
  BY <1>1, <1>2, <1>3 DEF Plainly!Stepped, Open!Stepped
<1>5. Plainly!Ready(s, h) = Open!Ready(s, h)
  BY <1>1, <1>4 DEF Plainly!Ready, Open!Ready
<1> HIDE DEF h
<1>6. Plainly!DecryptRc(s, pkt) = Open!DecryptRc(s, pkt)
  BY <1>1, <1>3, <1>4, <1>5, PlainTypes DEF Plainly!DecryptRc, Open!DecryptRc, h
<1>7. Plainly!DecryptState(s, pkt) = Open!DecryptState(s, pkt)
  BY <1>3, <1>5, PlainTypes DEF Plainly!DecryptState, Open!DecryptState, h
<1>8. QED
  BY <1>6, <1>7

LEMMA PlainInit == Open!Init => Plainly!Init
<1>1. /\ Plainly!InitResponder = Open!InitResponder
      /\ Plainly!InitInitiator = Open!InitInitiator
  <2>1. \A p : Plainly!Blank(p) = Open!Blank(p)
    BY PlainTypes DEF Plainly!Blank, Open!Blank
  <2>2. QED
    BY <2>1, PlainTypes DEF Plainly!InitResponder, Open!InitResponder,
                            Plainly!InitInitiator, Open!InitInitiator
<1>2. QED
  BY <1>1, PlainTypes DEF Plainly!Init, Open!Init

LEMMA PlainNetwork == Plainly!Network = Open!Network
<1>1. Plainly!Genuine = Open!Genuine
  BY DEF Plainly!Genuine, Open!Genuine
<1>2. \A h : Plainly!Tampered(h) = Open!Tampered(h)
  BY PlainTypes DEF Plainly!Tampered, Open!Tampered, Plainly!Foreign, Open!Foreign
<1>3. QED
  BY <1>1, <1>2 DEF Plainly!Network, Open!Network

LEMMA PlainNext == Open!Next => Plainly!Next
<1>1. ASSUME NEW p, Open!Encrypt(p) PROVE Plainly!Encrypt(p)
  <2>1. \A s : Plainly!HdrBuild(s) = Open!HdrBuild(s)
    BY PlainTypes DEF Plainly!HdrBuild, Open!HdrBuild
  <2>2. \A s, m : Plainly!Seal(s, m) = Open!Seal(s, m)
    BY <2>1 DEF Plainly!Seal, Open!Seal
  <2>3. Plainly!NextPlain(p) = Open!NextPlain(p)
    BY DEF Plainly!NextPlain, Open!NextPlain
  <2>4. \A s : Plainly!Counted(Plainly!Burned(s)) = Open!Counted(Open!Burned(s))
    BY PlainTypes DEF Plainly!Counted, Open!Counted, Plainly!Burned, Open!Burned
  <2>5. QED
    BY <1>1, <2>1, <2>2, <2>3, <2>4, PlainTypes, Zenon DEF Plainly!Encrypt, Open!Encrypt
<1>2. ASSUME NEW p, Open!EncryptFails(p) PROVE Plainly!EncryptFails(p)
  <2>1. \A s : Plainly!Burned(s) = Open!Burned(s)
    BY PlainTypes DEF Plainly!Burned, Open!Burned
  <2>2. QED
    BY <1>2, <2>1, PlainTypes DEF Plainly!EncryptFails, Open!EncryptFails
<1>3. ASSUME NEW p, NEW pkt, Open!Decrypt(p, pkt) PROVE Plainly!Decrypt(p, pkt)
  <2>1. Open!Commit(p, pkt) => Plainly!Commit(p, pkt)
    BY PlainDecrypt, ZenonT(60) DEF Plainly!Commit, Open!Commit
  <2>2. Open!Reject(p, pkt) => Plainly!Reject(p, pkt)
    BY PlainDecrypt DEF Plainly!Reject, Open!Reject
  <2>3. QED
    BY <1>3, <2>1, <2>2 DEF Plainly!Decrypt, Open!Decrypt
<1>4. ASSUME NEW p, Open!Reload(p) PROVE Plainly!Reload(p)
  <2>1. \A s : Plainly!Unpack(Plainly!Pack(s)) = Open!Unpack(Open!Pack(s))
    BY PlainTypes DEF Plainly!Unpack, Plainly!Pack, Open!Unpack, Open!Pack
  <2>2. QED
    BY <1>4, <2>1 DEF Plainly!Reload, Open!Reload
<1>5. QED
  BY <1>1, <1>2, <1>3, <1>4, PlainTypes, PlainNetwork DEF Plainly!Next, Open!Next

(* ratchet_encrypt_he and ratchet_decrypt_he implement the classical       *)
(* ratchet: with the headers open, each run is one of Ratchet's.           *)
THEOREM HeadersVeiled == SpecHE => VeilsRatchet
<1>1. InitHE => Plainly!Init
  BY InitVeil, PlainInit
<1>2. VeilInv /\ [NextHE]_vars => [Plainly!Next]_(Plainly!vars)
  <2>1. UNCHANGED Open!vars => UNCHANGED Plainly!vars
    BY DEF Plainly!vars, Open!vars
  <2>2. QED
    BY <2>1, VeilSteps, PlainNext
<1>3. QED
  BY <1>1, <1>2, VeilInductive, PTL DEF SpecHE, VeilsRatchet, Plainly!Spec
==============================================================================
