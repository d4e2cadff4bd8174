------------------------------- MODULE Pqxdh -------------------------------
(***************************************************************************)
(* The PQXDH handshake of pqxdh.c: parties publish signed prekeys and      *)
(* one-time prekeys through a relay, an initiator derives SK from a bundle *)
(* and sends an opening message, a responder derives SK from the opening.  *)
(*                                                                         *)
(* A key is named by its owner, its kind and a number; a DH value is the   *)
(* set of the two keys; a signature is what was signed, under which label  *)
(* and by whom; SK is the record of the legs that derive_sk hashes; the    *)
(* MAC is the SK and the bytes it covers.  KEM decapsulation rejects       *)
(* implicitly.                                                             *)
(*                                                                         *)
(* The relay is untrusted: it mixes the signed parts of bundles, puts in   *)
(* keys of its own, alters openings and delivers them as often as it       *)
(* likes.  The layer above pins the signing key of the peer (external).    *)
(***************************************************************************)
EXTENDS Integers, FiniteSets, Sequences

CONSTANTS
    Party,        \* the parties with an identity
    Relay,        \* the relay, a name not in Party
    PoolSize,     \* PQXDH_OPK_POOL
    IdSpace,      \* number of values of a one-time-prekey id (2^32)
    MaxOpenings,  \* bound on openings made
    MaxAccepts    \* bound on sessions of responders

ASSUME PqxdhAssumption ==
    /\ Relay \notin Party
    /\ PoolSize \in Nat
    /\ IdSpace \in Nat \ {0}
    /\ MaxOpenings \in Nat
    /\ MaxAccepts \in Nat

Slot == 1 .. PoolSize
Owner == Party \cup {Relay}

VARIABLES
    opk_id,    \* opk_id[p][i]: the id of p's i-th one-time prekey
    openings,  \* what initiators did: who, with whom, the message and the SK
    accepted   \* what responders did: who, the message and the SK

vars == <<opk_id, openings, accepted>>

----------------------------------------------------------------------------
(* Symbolic cryptography.                                                  *)

Key(o, kind, n) == [own |-> o, kind |-> kind, n |-> n]
IkDh(o) == Key(o, "ik", 0)
Spk(o)  == Key(o, "spk", 0)
Pqk(o)  == Key(o, "pqk", 0)
Opk(o, i) == Key(o, "opk", i)
NoKey == Key(Relay, "none", 0)

DH(a, b) == {a, b}

Encaps(pk, o, n) == [to |-> pk, by |-> o, n |-> n]
SharedSecret(k, ct) == [key |-> k, ct |-> ct]

sign_labeled(label, id, k, o) == [by |-> o, label |-> label, id |-> id, key |-> k]

(* Mutants: the label, or the signer, is not looked at.                    *)
VerifyNoLabel(label, id, k, sig, o) == sig.by = o /\ sig.id = id /\ sig.key = k
VerifyAnySigner(label, id, k, sig, o) == sig.label = label /\ sig.id = id /\ sig.key = k

verify_labeled(label, id, k, sig, o) == sig = sign_labeled(label, id, k, o)

NoSig == sign_labeled("none", -1, NoKey, Relay)

----------------------------------------------------------------------------
(* pqxdh_publish_bundle and pqxdh_opk_public.                              *)

Cert(o) == sign_labeled("IDDH", -1, IkDh(o), o)

pqxdh_publish_bundle(o) ==
    [ik_sig |-> o, ik_dh |-> IkDh(o), ik_dh_cert |-> Cert(o),
     spk |-> Spk(o), spk_sig |-> sign_labeled("SPK", -1, Spk(o), o),
     pqk |-> Pqk(o), pqk_sig |-> sign_labeled("PQK", -1, Pqk(o), o),
     opk_id |-> -1, opk |-> NoKey, opk_sig |-> NoSig]

pqxdh_opk_public(p, i) ==
    [id |-> opk_id[p][i], key |-> Opk(p, i),
     sig |-> sign_labeled("OPK", opk_id[p][i], Opk(p, i), p)]

WithOpk(b, e) == [b EXCEPT !.opk_id = e.id, !.opk = e.key, !.opk_sig = e.sig]

(* Bundles the relay may answer with when asked for q: q's own, with any   *)
(* one-time prekey or none; each part exchanged for another signed part    *)
(* of somebody's bundle or for a key of the relay; all parts exchanged.    *)
Honest(q) ==
    {pqxdh_publish_bundle(q)}
      \cup {WithOpk(pqxdh_publish_bundle(q), pqxdh_opk_public(q, i)) : i \in Slot}

SignedParts ==
    UNION {LET b == pqxdh_publish_bundle(o)
           IN  {[key |-> b.ik_dh, sig |-> b.ik_dh_cert],
                [key |-> b.spk, sig |-> b.spk_sig],
                [key |-> b.pqk, sig |-> b.pqk_sig]} : o \in Owner}

WithIkDh(b, s) == [b EXCEPT !.ik_dh = s.key, !.ik_dh_cert = s.sig]
WithSpk(b, s) == [b EXCEPT !.spk = s.key, !.spk_sig = s.sig]
WithPqk(b, s) == [b EXCEPT !.pqk = s.key, !.pqk_sig = s.sig]

Bundles(q) ==
    Honest(q)
      \cup {WithIkDh(b, s) : b \in Honest(q), s \in SignedParts}
      \cup {WithSpk(b, s) : b \in Honest(q), s \in SignedParts}
      \cup {WithPqk(b, s) : b \in Honest(q), s \in SignedParts}
      \cup {WithOpk(b, pqxdh_opk_public(r, i)) : b \in Honest(q), r \in Party, i \in Slot}
      \cup {[pqxdh_publish_bundle(Relay) EXCEPT !.ik_sig = q]}

----------------------------------------------------------------------------
(* derive_sk, and the bytes opening_mac_bytes collects.                    *)

NoLeg == {}

derive_sk(dh1, dh2, dh3, dh4, ss) ==
    [dh1 |-> dh1, dh2 |-> dh2, dh3 |-> dh3, dh4 |-> dh4, ss |-> ss]

(* Mutant: the PQ intent is left out of the MAC.                           *)
MacBytesNoPq(m) ==
    [ik_sig |-> m.ik_sig, ik_dh |-> m.ik_dh, ek |-> m.ek, pq_ct |-> m.pq_ct,
     opk_id |-> m.opk_id]

opening_mac_bytes(m) ==
    [ik_sig |-> m.ik_sig, ik_dh |-> m.ik_dh, ek |-> m.ek, pq_ct |-> m.pq_ct,
     opk_id |-> m.opk_id, pq |-> m.pq]

Mac(sk, m) == [sk |-> sk, bytes |-> opening_mac_bytes(m)]

BundleVerifies(b) ==
    /\ verify_labeled("SPK", -1, b.spk, b.spk_sig, b.ik_sig)
    /\ verify_labeled("PQK", -1, b.pqk, b.pqk_sig, b.ik_sig)
    /\ verify_labeled("IDDH", -1, b.ik_dh, b.ik_dh_cert, b.ik_sig)
    /\ b.opk_id >= 0 => verify_labeled("OPK", b.opk_id, b.opk, b.opk_sig, b.ik_sig)

(* The SK and the opening of self's n-th handshake.                        *)
InitiatorSk(self, b, n) ==
    LET ek == Key(self, "ek", n)
    IN  derive_sk(DH(IkDh(self), b.spk), DH(ek, b.ik_dh), DH(ek, b.spk),
                  IF b.opk_id >= 0 THEN DH(ek, b.opk) ELSE NoLeg,
                  SharedSecret(b.pqk, Encaps(b.pqk, self, n)))

Opening(self, b, pq, n) ==
    LET m == [ik_sig |-> self, ik_dh |-> IkDh(self), ik_dh_cert |-> Cert(self),
              ek |-> Key(self, "ek", n), pq_ct |-> Encaps(b.pqk, self, n),
              opk_id |-> b.opk_id, pq |-> pq]
    IN  [msg |-> m, mac |-> Mac(InitiatorSk(self, b, n), m)]

(* pqxdh_responder: the first one-time prekey with the id, the legs, the   *)
(* MAC.                                                                    *)
FoundOpk(q, id) == {i \in Slot : opk_id[q][i] = id /\ \A j \in 1 .. i - 1 : opk_id[q][j] # id}

ResponderSk(q, m) ==
    derive_sk(DH(Spk(q), m.ik_dh), DH(IkDh(q), m.ek), DH(Spk(q), m.ek),
              IF m.opk_id >= 0 THEN DH(Opk(q, CHOOSE i \in FoundOpk(q, m.opk_id) : TRUE), m.ek)
              ELSE NoLeg,
              SharedSecret(Pqk(q), m.pq_ct))

ResponderRc(q, o) ==
    LET m == o.msg
    IN  IF ~verify_labeled("IDDH", -1, m.ik_dh, m.ik_dh_cert, m.ik_sig) THEN "integrity"
        ELSE IF m.opk_id >= 0 /\ FoundOpk(q, m.opk_id) = {} THEN "input"
        ELSE IF o.mac # Mac(ResponderSk(q, m), m) THEN "integrity"
        ELSE "ok"

----------------------------------------------------------------------------
(* What the relay can put before a responder.                              *)

RelayHolds(k) == k.own = Relay
RelayKnowsDH(d) == d = NoLeg \/ \E k \in d : RelayHolds(k)
RelayKnowsSecret(ss) == RelayHolds(ss.key) \/ (ss.ct.by = Relay /\ ss.ct.to = ss.key)
RelayKnows(sk) ==
    /\ RelayKnowsDH(sk.dh1)
    /\ RelayKnowsDH(sk.dh2)
    /\ RelayKnowsDH(sk.dh3)
    /\ RelayKnowsDH(sk.dh4)
    /\ RelayKnowsSecret(sk.ss)

Ids == {-1} \cup (0 .. IdSpace - 1)

(* An opening with one field altered, and one the relay writes itself,     *)
(* with a MAC if it can derive the SK.                                     *)
AlteredMsgs(m) ==
    {[m EXCEPT !.ik_sig = p] : p \in Party}
      \cup {[m EXCEPT !.ik_dh = IkDh(p), !.ik_dh_cert = Cert(p)] : p \in Owner}
      \cup {[m EXCEPT !.ek = x.opening.msg.ek] : x \in openings}
      \cup {[m EXCEPT !.pq_ct = x.opening.msg.pq_ct] : x \in openings}
      \cup {[m EXCEPT !.opk_id = id] : id \in Ids}
      \cup {[m EXCEPT !.pq = ~m.pq]}

WrittenMsg(q, p, d, id) ==
    [ik_sig |-> p, ik_dh |-> IkDh(d), ik_dh_cert |-> Cert(d),
     ek |-> Key(Relay, "ek", 0), pq_ct |-> Encaps(Pqk(q), Relay, 0),
     opk_id |-> id, pq |-> TRUE]

WrittenMsgs(q) ==
    {WrittenMsg(q, p, d, id) : p \in Party, d \in Owner,
                               id \in {i \in Ids : i < 0 \/ FoundOpk(q, i) # {}}}

Delivered(q) ==
    {x.opening : x \in openings}
      \cup (UNION {{[x.opening EXCEPT !.msg = m] : m \in AlteredMsgs(x.opening.msg)}
                     : x \in openings})
      \cup {[msg |-> m, mac |-> Mac(ResponderSk(q, m), m)]
              : m \in {n \in WrittenMsgs(q) : RelayKnows(ResponderSk(q, n))}}

----------------------------------------------------------------------------
(* pqxdh_identity_generate: the ids are random, and may collide.           *)
Init ==
    /\ opk_id \in [Party -> [Slot -> 0 .. IdSpace - 1]]
    /\ openings = {}
    /\ accepted = <<>>

Initiate(p, q, b, pq) ==
    /\ Cardinality(openings) < MaxOpenings
    /\ b.ik_sig = q
    /\ BundleVerifies(b)
    /\ LET n == Cardinality(openings)
       IN  openings' = openings \cup
             {[self |-> p, peer |-> q, opening |-> Opening(p, b, pq, n), sk |-> InitiatorSk(p, b, n)]}
    /\ UNCHANGED <<opk_id, accepted>>

(* pqxdh_responder takes the identity as const: nothing is spent.          *)
Respond(q, o) ==
    /\ Len(accepted) < MaxAccepts
    /\ ResponderRc(q, o) = "ok"
    /\ accepted' = Append(accepted, [self |-> q, opening |-> o, sk |-> ResponderSk(q, o.msg)])
    /\ UNCHANGED <<opk_id, openings>>

Next ==
    \E q \in Party :
        \/ \E p \in Party \ {q}, b \in Bundles(q), pq \in BOOLEAN : Initiate(p, q, b, pq)
        \/ \E o \in Delivered(q) : Respond(q, o)

Spec == Init /\ [][Next]_vars

----------------------------------------------------------------------------
(* A responder that accepts an opening in a party's name shares SK, the    *)
(* one-time prekey and the kind of ratchet with an opening which that      *)
(* party made for this responder, whatever the relay altered (pqxdh.h: "a  *)
(* MITM can't downgrade").                                                 *)
Agreement ==
    \A i \in 1 .. Len(accepted) :
        LET a == accepted[i]
        IN  \E x \in openings :
                /\ x.self = a.opening.msg.ik_sig
                /\ x.peer = a.self
                /\ x.sk = a.sk
                /\ x.opening.msg.opk_id = a.opening.msg.opk_id
                /\ x.opening.msg.pq = a.opening.msg.pq

(* Whatever bundle the relay answered with, it cannot derive the SK of an  *)
(* opening made from it.                                                   *)
RelayExcluded == \A x \in openings : ~RelayKnows(x.sk)

(* An opening made from a bundle that verified is accepted by the peer     *)
(* with the same SK: no mixture of signed parts passes the initiator's     *)
(* checks only to fail at the responder.  Needs distinct one-time-prekey   *)
(* ids.                                                                    *)
OpeningsAccepted ==
    \A x \in openings :
        (\A i, j \in Slot : opk_id[x.peer][i] = opk_id[x.peer][j] => i = j)
        => /\ ResponderRc(x.peer, x.opening) = "ok"
           /\ ResponderSk(x.peer, x.opening.msg) = x.sk
============================================================================
