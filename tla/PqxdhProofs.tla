----------------------------- MODULE PqxdhProofs -----------------------------
(***************************************************************************)
(* Proofs about Pqxdh for every number of parties, one-time prekeys,       *)
(* openings and sessions.                                                  *)
(*                                                                         *)
(* The inductive invariant says of every opening that its legs are those   *)
(* of the initiator and of the peer it asked for: the labels and signers   *)
(* that pqxdh_initiator checks leave the relay no other bundle to answer   *)
(* with.  The three properties of the handshake follow from it.            *)
(***************************************************************************)
EXTENDS Pqxdh, SequenceTheorems, TLAPS

(* The one-time prekey of a handshake: none, or the i-th of the pool.       *)
IsOpk(q, id, leg, ek) ==
    \/ id = -1 /\ leg = NoLeg
    \/ id >= 0 /\ \E i \in Slot : opk_id[q][i] = id /\ leg = DH(ek, Opk(q, i))

(* An opening is a message and a MAC of it under sk. *)
IsOpening(o, sk) == o = [msg |-> o.msg, mac |-> Mac(sk, o.msg)]

(* What pqxdh_initiator derived is what it should derive from q's keys.     *)
OpeningInv(x) ==
    LET m == x.opening.msg
    IN  /\ x.self \in Party /\ x.peer \in Party
        /\ IsOpening(x.opening, x.sk)
        /\ m.ik_sig = x.self
        /\ m.ik_dh = IkDh(x.self)
        /\ m.ik_dh_cert = Cert(x.self)
        /\ x.sk.dh1 = DH(IkDh(x.self), Spk(x.peer))
        /\ x.sk.dh2 = DH(m.ek, IkDh(x.peer))
        /\ x.sk.dh3 = DH(m.ek, Spk(x.peer))
        /\ IsOpk(x.peer, m.opk_id, x.sk.dh4, m.ek)
        /\ x.sk.ss = SharedSecret(Pqk(x.peer), m.pq_ct)
        /\ x.sk = derive_sk(x.sk.dh1, x.sk.dh2, x.sk.dh3, x.sk.dh4, x.sk.ss)

AcceptedInv(a) ==
    \E x \in openings :
        /\ x.self = a.opening.msg.ik_sig
        /\ x.peer = a.self
        /\ x.sk = a.sk
        /\ x.opening.msg.opk_id = a.opening.msg.opk_id
        /\ x.opening.msg.pq = a.opening.msg.pq

IndInv ==
    /\ opk_id \in [Party -> [Slot -> 0 .. IdSpace - 1]]
    /\ accepted \in Seq({accepted[i] : i \in 1 .. Len(accepted)})
    /\ \A x \in openings : OpeningInv(x)
    /\ \A i \in 1 .. Len(accepted) : AcceptedInv(accepted[i])

(***************************************************************************)
(* Bundles.                                                                *)
(***************************************************************************)
(* A signature checks out for one key, label, id and signer only. *)
LEMMA SignedPart ==
    ASSUME NEW s \in SignedParts, NEW label, NEW q, s.sig = sign_labeled(label, -1, s.key, q)
    PROVE  /\ label = "IDDH" => s.key = IkDh(q)
           /\ label = "SPK" => s.key = Spk(q)
           /\ label = "PQK" => s.key = Pqk(q)
<1>1. PICK o \in Owner :
        \/ s = [key |-> IkDh(o), sig |-> sign_labeled("IDDH", -1, IkDh(o), o)]
        \/ s = [key |-> Spk(o), sig |-> sign_labeled("SPK", -1, Spk(o), o)]
        \/ s = [key |-> Pqk(o), sig |-> sign_labeled("PQK", -1, Pqk(o), o)]
  BY DEF SignedParts, pqxdh_publish_bundle, Cert
<1>2. s.sig.by = q /\ s.sig.label = label
  BY DEF sign_labeled
<1>3. s.sig.by = o
  BY <1>1 DEF sign_labeled
<1>4. QED
  BY <1>1, <1>2, <1>3 DEF sign_labeled

(* q's bundle is the record pqxdh_publish_bundle fills, with q's one-time   *)
(* prekey or none.                                                          *)
LEMMA HonestBundle ==
    ASSUME NEW q \in Party, NEW b \in Honest(q), opk_id \in [Party -> [Slot -> 0 .. IdSpace - 1]]
    PROVE  \E id, k, sig :
              /\ b = [ik_sig |-> q, ik_dh |-> IkDh(q), ik_dh_cert |-> Cert(q),
                      spk |-> Spk(q), spk_sig |-> sign_labeled("SPK", -1, Spk(q), q),
                      pqk |-> Pqk(q), pqk_sig |-> sign_labeled("PQK", -1, Pqk(q), q),
                      opk_id |-> id, opk |-> k, opk_sig |-> sig]
              /\ id = -1 \/ (id >= 0 /\ \E i \in Slot : opk_id[q][i] = id /\ k = Opk(q, i))
<1>1. CASE b = pqxdh_publish_bundle(q)
  BY <1>1 DEF pqxdh_publish_bundle
<1>2. ASSUME NEW i \in Slot, b = WithOpk(pqxdh_publish_bundle(q), pqxdh_opk_public(q, i))
      PROVE  \E id, k, sig :
              /\ b = [ik_sig |-> q, ik_dh |-> IkDh(q), ik_dh_cert |-> Cert(q),
                      spk |-> Spk(q), spk_sig |-> sign_labeled("SPK", -1, Spk(q), q),
                      pqk |-> Pqk(q), pqk_sig |-> sign_labeled("PQK", -1, Pqk(q), q),
                      opk_id |-> id, opk |-> k, opk_sig |-> sig]
              /\ id >= 0 /\ \E j \in Slot : opk_id[q][j] = id /\ k = Opk(q, j)
  <2>1. opk_id[q][i] >= 0
    BY PqxdhAssumption
  <2>2. b = [ik_sig |-> q, ik_dh |-> IkDh(q), ik_dh_cert |-> Cert(q),
             spk |-> Spk(q), spk_sig |-> sign_labeled("SPK", -1, Spk(q), q),
             pqk |-> Pqk(q), pqk_sig |-> sign_labeled("PQK", -1, Pqk(q), q),
             opk_id |-> opk_id[q][i], opk |-> Opk(q, i),
             opk_sig |-> sign_labeled("OPK", opk_id[q][i], Opk(q, i), q)]
    BY <1>2 DEF pqxdh_publish_bundle, pqxdh_opk_public, WithOpk
  <2>3. QED
    BY <2>1, <2>2
<1>3. QED
  BY <1>1, <1>2 DEF Honest

(* Whatever the relay answers, a bundle that verifies under the pinned      *)
(* signing key is made of keys of that party, each of its own kind.         *)
LEMMA VerifiedBundle ==
    ASSUME NEW q \in Party, NEW b \in Bundles(q), b.ik_sig = q, BundleVerifies(b),
           opk_id \in [Party -> [Slot -> 0 .. IdSpace - 1]]
    PROVE  /\ b.ik_dh = IkDh(q) /\ b.spk = Spk(q) /\ b.pqk = Pqk(q)
           /\ \/ b.opk_id = -1
              \/ b.opk_id >= 0 /\ \E i \in Slot : opk_id[q][i] = b.opk_id /\ b.opk = Opk(q, i)
<1>1. /\ b.spk_sig = sign_labeled("SPK", -1, b.spk, q)
      /\ b.pqk_sig = sign_labeled("PQK", -1, b.pqk, q)
      /\ b.ik_dh_cert = sign_labeled("IDDH", -1, b.ik_dh, q)
      /\ b.opk_id >= 0 => b.opk_sig = sign_labeled("OPK", b.opk_id, b.opk, q)
  BY DEF BundleVerifies, verify_labeled
<1>2. CASE b \in Honest(q)
  BY <1>2, HonestBundle
<1>3. ASSUME NEW h \in Honest(q), NEW s \in SignedParts,
             \/ b = WithIkDh(h, s)
             \/ b = WithSpk(h, s)
             \/ b = WithPqk(h, s)
      PROVE  /\ b.ik_dh = IkDh(q) /\ b.spk = Spk(q) /\ b.pqk = Pqk(q)
             /\ \/ b.opk_id = -1
                \/ b.opk_id >= 0 /\ \E i \in Slot : opk_id[q][i] = b.opk_id /\ b.opk = Opk(q, i)
  <2>1. PICK id, k, sig :
          /\ h = [ik_sig |-> q, ik_dh |-> IkDh(q), ik_dh_cert |-> Cert(q),
                  spk |-> Spk(q), spk_sig |-> sign_labeled("SPK", -1, Spk(q), q),
                  pqk |-> Pqk(q), pqk_sig |-> sign_labeled("PQK", -1, Pqk(q), q),
                  opk_id |-> id, opk |-> k, opk_sig |-> sig]
          /\ id = -1 \/ (id >= 0 /\ \E i \in Slot : opk_id[q][i] = id /\ k = Opk(q, i))
    BY HonestBundle
  <2>2. CASE b = WithIkDh(h, s)
    <3>1. b.ik_dh = s.key /\ b.ik_dh_cert = s.sig
      BY <2>1, <2>2 DEF WithIkDh
    <3>2. b.ik_dh = IkDh(q)
      BY <1>1, <3>1, SignedPart
    <3>3. QED
      BY <2>1, <2>2, <3>2 DEF WithIkDh
  <2>3. CASE b = WithSpk(h, s)
    <3>1. b.spk = s.key /\ b.spk_sig = s.sig
      BY <2>1, <2>3 DEF WithSpk
    <3>2. b.spk = Spk(q)
      BY <1>1, <3>1, SignedPart
    <3>3. QED
      BY <2>1, <2>3, <3>2 DEF WithSpk
  <2>4. CASE b = WithPqk(h, s)
    <3>1. b.pqk = s.key /\ b.pqk_sig = s.sig
      BY <2>1, <2>4 DEF WithPqk
    <3>2. b.pqk = Pqk(q)
      BY <1>1, <3>1, SignedPart
    <3>3. QED
      BY <2>1, <2>4, <3>2 DEF WithPqk
  <2>5. QED
    BY <1>3, <2>2, <2>3, <2>4
<1>4. ASSUME NEW h \in Honest(q), NEW r \in Party, NEW i \in Slot,
             b = WithOpk(h, pqxdh_opk_public(r, i))
      PROVE  /\ b.ik_dh = IkDh(q) /\ b.spk = Spk(q) /\ b.pqk = Pqk(q)
             /\ b.opk_id >= 0 /\ opk_id[q][i] = b.opk_id /\ b.opk = Opk(q, i)
  <2>1. PICK id, k, sig :
          h = [ik_sig |-> q, ik_dh |-> IkDh(q), ik_dh_cert |-> Cert(q),
               spk |-> Spk(q), spk_sig |-> sign_labeled("SPK", -1, Spk(q), q),
               pqk |-> Pqk(q), pqk_sig |-> sign_labeled("PQK", -1, Pqk(q), q),
               opk_id |-> id, opk |-> k, opk_sig |-> sig]
    BY HonestBundle
  <2>2. /\ b.opk_id = opk_id[r][i] /\ b.opk = Opk(r, i)
        /\ b.opk_sig = sign_labeled("OPK", opk_id[r][i], Opk(r, i), r)
        /\ b.ik_dh = IkDh(q) /\ b.spk = Spk(q) /\ b.pqk = Pqk(q)
    BY <1>4, <2>1 DEF WithOpk, pqxdh_opk_public
  <2>3. b.opk_id >= 0
    BY <2>2, PqxdhAssumption
  <2>4. r = q
    <3>1. b.opk_sig.by = q
      BY <1>1, <2>3 DEF sign_labeled
    <3>2. b.opk_sig.by = r
      BY <2>2 DEF sign_labeled
    <3>3. QED
      BY <3>1, <3>2
  <2>5. QED
    BY <2>2, <2>3, <2>4
<1>5. CASE b = [pqxdh_publish_bundle(Relay) EXCEPT !.ik_sig = q]
  <2>1. b.spk_sig = sign_labeled("SPK", -1, Spk(Relay), Relay)
    BY <1>5 DEF pqxdh_publish_bundle
  <2>2. b.spk_sig.by = Relay /\ b.spk_sig.by = q
    BY <1>1, <2>1 DEF sign_labeled
  <2>3. QED
    BY <2>2, PqxdhAssumption
<1>6. \/ b \in Honest(q)
      \/ \E h \in Honest(q), s \in SignedParts :
            b = WithIkDh(h, s) \/ b = WithSpk(h, s) \/ b = WithPqk(h, s)
      \/ \E h \in Honest(q), r \in Party, i \in Slot : b = WithOpk(h, pqxdh_opk_public(r, i))
      \/ b = [pqxdh_publish_bundle(Relay) EXCEPT !.ik_sig = q]
  BY DEF Bundles
<1>7. QED
  BY <1>2, <1>3, <1>4, <1>5, <1>6, Zenon

(***************************************************************************)
(* The invariant.                                                          *)
(***************************************************************************)
(* The opening and SK that pqxdh_initiator computes from a bundle it       *)
(* verified.                                                               *)
LEMMA InitiatorFacts ==
    ASSUME NEW p \in Party, NEW q \in Party, NEW b \in Bundles(q), NEW pq \in BOOLEAN, NEW n,
           b.ik_sig = q, BundleVerifies(b),
           opk_id \in [Party -> [Slot -> 0 .. IdSpace - 1]]
    PROVE  OpeningInv([self |-> p, peer |-> q, opening |-> Opening(p, b, pq, n),
                       sk |-> InitiatorSk(p, b, n)])
<1> DEFINE sk == InitiatorSk(p, b, n)
           o == Opening(p, b, pq, n)
           ek == Key(p, "ek", n)
<1>1. /\ b.ik_dh = IkDh(q) /\ b.spk = Spk(q) /\ b.pqk = Pqk(q)
      /\ \/ b.opk_id = -1
         \/ b.opk_id >= 0 /\ \E i \in Slot : opk_id[q][i] = b.opk_id /\ b.opk = Opk(q, i)
  BY VerifiedBundle
<1>2. /\ o.msg.ik_sig = p /\ o.msg.ik_dh = IkDh(p) /\ o.msg.ik_dh_cert = Cert(p)
      /\ o.msg.ek = ek /\ o.msg.pq_ct = Encaps(b.pqk, p, n) /\ o.msg.opk_id = b.opk_id
      /\ IsOpening(o, sk)
  BY DEF Opening, IsOpening
<1>3. /\ sk.dh1 = DH(IkDh(p), b.spk) /\ sk.dh2 = DH(ek, b.ik_dh) /\ sk.dh3 = DH(ek, b.spk)
      /\ sk.dh4 = IF b.opk_id >= 0 THEN DH(ek, b.opk) ELSE NoLeg
      /\ sk.ss = SharedSecret(b.pqk, Encaps(b.pqk, p, n))
      /\ sk = derive_sk(sk.dh1, sk.dh2, sk.dh3, sk.dh4, sk.ss)
  BY DEF InitiatorSk, derive_sk
<1>4. IsOpk(q, b.opk_id, sk.dh4, ek)
  BY <1>1, <1>3 DEF IsOpk
<1> DEFINE x == [self |-> p, peer |-> q, opening |-> o, sk |-> sk]
<1>5. x.self = p /\ x.peer = q /\ x.opening = o /\ x.sk = sk
  OBVIOUS
<1> HIDE DEF sk, o, ek, x
<1>6. OpeningInv(x)
  BY <1>1, <1>2, <1>3, <1>4, <1>5 DEF OpeningInv
<1>7. QED
  BY <1>6 DEF x, o, sk

(* What a delivered opening that passes pqxdh_responder was made from: the  *)
(* MAC covers all that the relay could alter, and the relay has no SK under *)
(* the certificate of a party.                                              *)
LEMMA ResponderFacts ==
    ASSUME IndInv, NEW q \in Party, NEW o \in Delivered(q), ResponderRc(q, o) = "ok"
    PROVE  \E x \in openings :
              /\ x.self = o.msg.ik_sig /\ x.peer = q /\ x.sk = ResponderSk(q, o.msg)
              /\ x.opening.msg.opk_id = o.msg.opk_id /\ x.opening.msg.pq = o.msg.pq
<1>1. /\ o.mac = Mac(ResponderSk(q, o.msg), o.msg)
      /\ o.msg.ik_dh_cert = sign_labeled("IDDH", -1, o.msg.ik_dh, o.msg.ik_sig)
  BY DEF ResponderRc, verify_labeled
<1>2. ASSUME NEW x \in openings, o.mac = x.opening.mac
      PROVE  /\ x.self = o.msg.ik_sig /\ x.peer = q /\ x.sk = ResponderSk(q, o.msg)
             /\ x.opening.msg.opk_id = o.msg.opk_id /\ x.opening.msg.pq = o.msg.pq
  <2>1. /\ IsOpening(x.opening, x.sk) /\ x.opening.msg.ik_sig = x.self
        /\ x.sk.ss = SharedSecret(Pqk(x.peer), x.opening.msg.pq_ct)
    BY DEF IndInv, OpeningInv
  <2> HIDE DEF IndInv
  <2>0. x.opening.mac = Mac(x.sk, x.opening.msg)
    BY <2>1 DEF IsOpening
  <2>2. /\ x.sk = ResponderSk(q, o.msg)
        /\ opening_mac_bytes(x.opening.msg) = opening_mac_bytes(o.msg)
    BY <1>1, <1>2, <2>0 DEF Mac
  <2>3. /\ x.opening.msg.ik_sig = o.msg.ik_sig
        /\ x.opening.msg.opk_id = o.msg.opk_id /\ x.opening.msg.pq = o.msg.pq
    BY <2>2 DEF opening_mac_bytes
  <2>4. Pqk(x.peer) = Pqk(q)
    BY <2>1, <2>2 DEF ResponderSk, derive_sk, SharedSecret
  <2>5. QED
    BY <2>1, <2>2, <2>3, <2>4 DEF Pqk, Key
<1>3. ASSUME NEW x \in openings, NEW m, o = [x.opening EXCEPT !.msg = m]
      PROVE  o.mac = x.opening.mac
  <2>1. IsOpening(x.opening, x.sk)
    BY DEF IndInv, OpeningInv
  <2>2. PICK n, t : x.opening = [msg |-> n, mac |-> t]
    BY <2>1 DEF IsOpening
  <2>3. QED
    BY <1>3, <2>2
<1>4. ASSUME NEW m \in WrittenMsgs(q), RelayKnows(ResponderSk(q, m)),
             o = [msg |-> m, mac |-> Mac(ResponderSk(q, m), m)]
      PROVE  FALSE
  <2>1. PICK p \in Party, d \in Owner :
          m.ik_sig = p /\ m.ik_dh = IkDh(d) /\ m.ik_dh_cert = Cert(d)
    BY DEF WrittenMsgs, WrittenMsg
  <2>2. d = p
    BY <1>1, <1>4, <2>1 DEF Cert, sign_labeled
  <2>3. ResponderSk(q, m).dh1 = {Spk(q), IkDh(p)}
    BY <2>1, <2>2 DEF ResponderSk, derive_sk, DH
  <2>4. RelayKnowsDH({Spk(q), IkDh(p)})
    BY <1>4, <2>3 DEF RelayKnows
  <2>5. Spk(q).own = q /\ IkDh(p).own = p
    BY DEF Spk, IkDh, Key
  <2>6. QED
    BY <2>4, <2>5, PqxdhAssumption DEF RelayKnowsDH, RelayHolds, NoLeg
<1>5. \E x \in openings : o = x.opening \/ \E m : o = [x.opening EXCEPT !.msg = m]
  BY <1>4 DEF Delivered
<1>6. QED
  BY <1>2, <1>3, <1>5

LEMMA InitInv == Init => IndInv
<1>1. ASSUME Init
      PROVE  accepted \in Seq({accepted[i] : i \in 1 .. Len(accepted)})
  BY <1>1 DEF Init
<1>2. QED
  BY <1>1 DEF Init, IndInv

(* Openings are only added, and the ids of one-time prekeys never change. *)
LEMMA InitiateStep ==
    ASSUME IndInv, NEW q \in Party, NEW p \in Party \ {q}, NEW b \in Bundles(q),
           NEW pq \in BOOLEAN, Initiate(p, q, b, pq)
    PROVE  IndInv'
<1>1. PICK n : n = Cardinality(openings)
  OBVIOUS
<1>2. PICK y : y = [self |-> p, peer |-> q, opening |-> Opening(p, b, pq, n),
                    sk |-> InitiatorSk(p, b, n)]
  OBVIOUS
<1>3. OpeningInv(y)
  BY <1>2, InitiatorFacts DEF IndInv, Initiate
<1>4. /\ openings' = openings \cup {y}
      /\ opk_id' = opk_id /\ accepted' = accepted
  BY <1>1, <1>2 DEF Initiate
<1>5. \A x : OpeningInv(x) => OpeningInv(x)'
  BY <1>4 DEF OpeningInv, IsOpk
<1>6. \A a : AcceptedInv(a) => AcceptedInv(a)'
  BY <1>4 DEF AcceptedInv
<1>7. QED
  BY <1>3, <1>4, <1>5, <1>6 DEF IndInv

LEMMA RespondStep ==
    ASSUME IndInv, NEW q \in Party, NEW o \in Delivered(q), Respond(q, o)
    PROVE  IndInv'
<1> DEFINE a == [self |-> q, opening |-> o, sk |-> ResponderSk(q, o.msg)]
           S == {accepted[i] : i \in 1 .. Len(accepted)}
<1>1. /\ accepted' = Append(accepted, a)
      /\ opk_id' = opk_id /\ openings' = openings /\ ResponderRc(q, o) = "ok"
  BY DEF Respond
<1>2. AcceptedInv(a)
  BY <1>1, ResponderFacts DEF AcceptedInv
<1>3. accepted \in Seq(S) /\ Len(accepted) \in Nat
  BY LenProperties DEF IndInv
<1> HIDE DEF a, S
<1>4. /\ Len(accepted') = Len(accepted) + 1
      /\ \A i \in 1 .. Len(accepted) : accepted'[i] = accepted[i]
      /\ accepted'[Len(accepted) + 1] = a
      /\ accepted' \in Seq(S \cup {a})
  <2>1. accepted \in Seq(S \cup {a}) /\ a \in S \cup {a}
    BY <1>3, SeqMonotonic
  <2>2. QED
    BY <1>1, <1>3, <2>1, AppendProperties
<1>5. {accepted'[i] : i \in 1 .. Len(accepted')} = S \cup {a}
  <2> DEFINE n == Len(accepted)
             T == {accepted'[i] : i \in 1 .. Len(accepted')}
  <2>1. n \in Nat /\ Len(accepted') = n + 1 /\ n + 1 \in 1 .. n + 1 /\ 1 .. n \subseteq 1 .. n + 1
    BY <1>3, <1>4
  <2>2. S \subseteq T
    <3>1. ASSUME NEW x \in S PROVE x \in T
      <4>1. PICK i \in 1 .. n : x = accepted[i]
        BY DEF S
      <4>2. i \in 1 .. Len(accepted') /\ accepted'[i] = x
        BY <1>4, <2>1, <4>1
      <4>3. QED
        BY <4>2
    <3>2. QED
      BY <3>1
  <2>3. a \in T
    BY <1>4, <2>1
  <2>4. ASSUME NEW i \in 1 .. Len(accepted') PROVE accepted'[i] \in S \cup {a}
    <3>1. i \in 1 .. n \/ i = n + 1
      BY <2>1
    <3>2. CASE i \in 1 .. n
      BY <1>4, <3>2 DEF S
    <3>3. CASE i = n + 1
      BY <1>4, <3>3
    <3>4. QED
      BY <3>1, <3>2, <3>3
  <2>5. QED
    BY <2>2, <2>3, <2>4
<1>6. \A x : OpeningInv(x) => OpeningInv(x)'
  BY <1>1 DEF OpeningInv, IsOpk
<1>7. \A d : AcceptedInv(d) => AcceptedInv(d)'
  BY <1>1 DEF AcceptedInv
<1>8. \A i \in 1 .. Len(accepted') : AcceptedInv(accepted'[i])
  <2>1. \A i \in 1 .. Len(accepted) : AcceptedInv(accepted[i])
    BY DEF IndInv
  <2>2. ASSUME NEW i \in 1 .. Len(accepted') PROVE AcceptedInv(accepted'[i])
    <3>1. i \in 1 .. Len(accepted) \/ i = Len(accepted) + 1
      BY ONLY <1>3, <1>4
    <3>2. QED
      BY ONLY <1>2, <1>4, <2>1, <3>1
  <2>3. QED
    BY <2>2
<1>9. QED
  BY <1>1, <1>4, <1>5, <1>6, <1>7, <1>8 DEF IndInv

LEMMA Inductive == IndInv /\ [Next]_vars => IndInv'
<1> SUFFICES ASSUME IndInv, [Next]_vars
             PROVE  IndInv'
  OBVIOUS
<1>1. CASE UNCHANGED vars
  BY <1>1 DEF vars, IndInv, OpeningInv, IsOpk, AcceptedInv
<1>2. CASE Next
  BY <1>2, InitiateStep, RespondStep DEF Next
<1>3. QED
  BY <1>1, <1>2

(***************************************************************************)
(* The properties.                                                         *)
(***************************************************************************)
(* Whoever's opening pqxdh_responder accepts made one for this responder    *)
(* with the same SK, one-time prekey and kind of ratchet, whatever the      *)
(* relay altered on the way or wrote itself.                                *)
THEOREM HandshakesAgree == Spec => []Agreement
<1>1. IndInv => Agreement
  BY DEF IndInv, AcceptedInv, Agreement
<1>2. QED
  BY <1>1, InitInv, Inductive, PTL DEF Spec

(* The relay knows neither half of DH1, whatever bundle it answered with:   *)
(* it cannot derive the SK of pqxdh_initiator.                              *)
THEOREM RelayNeverKnows == Spec => []RelayExcluded
<1>1. IndInv => RelayExcluded
  <2> SUFFICES ASSUME IndInv, NEW x \in openings, RelayKnows(x.sk)
               PROVE  FALSE
    BY DEF RelayExcluded
  <2>1. /\ x.self \in Party /\ x.peer \in Party
        /\ x.sk.dh1 = {IkDh(x.self), Spk(x.peer)}
    BY DEF IndInv, OpeningInv, DH
  <2>2. IkDh(x.self).own = x.self /\ Spk(x.peer).own = x.peer
    BY DEF IkDh, Spk, Key
  <2>3. RelayKnowsDH({IkDh(x.self), Spk(x.peer)})
    BY <2>1 DEF RelayKnows
  <2>4. QED
    BY <2>1, <2>2, <2>3, PqxdhAssumption DEF RelayKnowsDH, RelayHolds, NoLeg
<1>2. QED
  BY <1>1, InitInv, Inductive, PTL DEF Spec

(* With distinct ids the search of pqxdh_responder finds one prekey. *)
LEMMA FoundIs ==
    ASSUME NEW q, NEW i \in Slot, \A j, k \in Slot : opk_id[q][j] = opk_id[q][k] => j = k
    PROVE  FoundOpk(q, opk_id[q][i]) = {i}
<1>1. \A j \in 1 .. i - 1 : j \in Slot /\ j # i
  BY PqxdhAssumption DEF Slot
<1>2. QED
  BY <1>1 DEF FoundOpk

(* A mixture of signed prekeys that passes the checks of pqxdh_initiator    *)
(* never fails at pqxdh_responder: the opening is accepted with the same SK *)
(* (if the ids of the peer's one-time prekeys are distinct).                *)
THEOREM OpeningsWork == Spec => []OpeningsAccepted
<1>1. IndInv => OpeningsAccepted
  <2> SUFFICES ASSUME IndInv, NEW x \in openings,
                      \A i, j \in Slot : opk_id[x.peer][i] = opk_id[x.peer][j] => i = j
               PROVE  /\ ResponderRc(x.peer, x.opening) = "ok"
                      /\ ResponderSk(x.peer, x.opening.msg) = x.sk
    BY DEF OpeningsAccepted
  <2> DEFINE q == x.peer
             m == x.opening.msg
  <2>1. /\ x.self \in Party /\ q \in Party
        /\ IsOpening(x.opening, x.sk)
        /\ m.ik_sig = x.self /\ m.ik_dh = IkDh(x.self) /\ m.ik_dh_cert = Cert(x.self)
        /\ x.sk.dh1 = DH(IkDh(x.self), Spk(q))
        /\ x.sk.dh2 = DH(m.ek, IkDh(q))
        /\ x.sk.dh3 = DH(m.ek, Spk(q))
        /\ IsOpk(q, m.opk_id, x.sk.dh4, m.ek)
        /\ x.sk.ss = SharedSecret(Pqk(q), m.pq_ct)
        /\ x.sk = derive_sk(x.sk.dh1, x.sk.dh2, x.sk.dh3, x.sk.dh4, x.sk.ss)
    BY DEF IndInv, OpeningInv
  <2> HIDE DEF m, IndInv
  <2>2. /\ m.opk_id >= 0 => FoundOpk(q, m.opk_id) # {}
        /\ x.sk.dh4 = IF m.opk_id >= 0
                      THEN DH(Opk(q, CHOOSE i \in FoundOpk(q, m.opk_id) : TRUE), m.ek)
                      ELSE NoLeg
    <3>1. CASE m.opk_id = -1 /\ x.sk.dh4 = NoLeg
      BY <3>1
    <3>2. ASSUME m.opk_id >= 0,
                 NEW i \in Slot, opk_id[q][i] = m.opk_id, x.sk.dh4 = DH(m.ek, Opk(q, i))
          PROVE  /\ FoundOpk(q, m.opk_id) # {}
                 /\ x.sk.dh4 = DH(Opk(q, CHOOSE j \in FoundOpk(q, m.opk_id) : TRUE), m.ek)
      <4>1. FoundOpk(q, m.opk_id) = {i}
        BY <3>2, FoundIs
      <4>2. (CHOOSE j \in FoundOpk(q, m.opk_id) : TRUE) = i
        BY <4>1
      <4>3. QED
        BY <3>2, <4>1, <4>2 DEF DH
    <3>3. QED
      BY <2>1, <3>1, <3>2 DEF IsOpk
  <2>3. ResponderSk(q, m) = x.sk
    <3>1. ResponderSk(q, m) = derive_sk(x.sk.dh1, x.sk.dh2, x.sk.dh3, x.sk.dh4, x.sk.ss)
      BY <2>1, <2>2 DEF ResponderSk, DH
    <3>2. QED
      BY <2>1, <3>1
  <2>4. x.opening.mac = Mac(ResponderSk(q, m), m)
    BY <2>1, <2>3 DEF IsOpening, m
  <2>5. verify_labeled("IDDH", -1, m.ik_dh, m.ik_dh_cert, m.ik_sig)
    BY <2>1 DEF verify_labeled, Cert
  <2>6. ResponderRc(q, x.opening) = "ok"
    BY <2>2, <2>4, <2>5 DEF ResponderRc, m
  <2>7. QED
    BY <2>3, <2>6 DEF m
<1>2. QED
  BY <1>1, InitInv, Inductive, PTL DEF Spec
==============================================================================
