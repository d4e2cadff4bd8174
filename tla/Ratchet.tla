------------------------------- MODULE Ratchet -------------------------------
(***************************************************************************)
(* The double ratchet of src/src/ratchet.c, classical and with the         *)
(* periodic ML-KEM ratchet (pq): one session at each end, over a network   *)
(* that loses, duplicates, reorders, reflects and tampers with packets.    *)
(*                                                                         *)
(* Keys are symbolic.  A root key is the sequence of the secrets mixed     *)
(* into it by kdf_rk, a chain key is a root and a position, and the        *)
(* message key derived at a position is named by that same pair, so two    *)
(* keys are equal exactly when they were derived from equal inputs.        *)
(***************************************************************************)
EXTENDS Integers, Sequences, FiniteSets

CONSTANTS
    PQ,         \* the session's pq flag
    MaxSkip,    \* RATCHET_MAX_SKIP
    KemEvery,   \* RATCHET_KEM_EVERY
    MaxSent,    \* bound: messages sent by one party
    MaxFaults,  \* bound: failed seals of one party
    MaxSteps    \* bound: ratchet keys one party generates

ASSUME RatchetAssumption ==
    /\ PQ \in BOOLEAN
    /\ MaxSkip \in Nat
    /\ KemEvery \in Nat \ {0}
    /\ MaxSent \in Nat
    /\ MaxFaults \in Nat
    /\ MaxSteps \in Nat

VARIABLES
    sess,       \* sess[p]: the struct ratchet_session of party p
    sent,       \* sent[p]: every packet p has produced (packets are never lost from here)
    nsent,      \* nsent[p]: how many messages p has sent, names the next plaintext
    faults,     \* faults[p]: how many seals of p have failed
    opened,     \* opened[p]: the plaintexts ratchet_decrypt has handed to p
    nopened     \* nopened[p]: how many times it has handed one over

vars == <<sess, sent, nsent, faults, opened, nopened>>

Party == {"I", "R"}                       \* the initiator and the responder
Peer(p) == IF p = "I" THEN "R" ELSE "I"
Plain == [from : Party, id : 1 .. MaxSent]

(* Key pairs are named by their owner and the order of their generation.   *)
Key == (Party \cup {"X", "none"}) \X Nat
NoKey == <<"none", 0>>                    \* have_dhr = 0, have_kem_r = 0
Foreign == <<"X", 0>>                     \* a key of neither party

DH(a, b) == {a, b}                        \* crypto_x25519_dh, from either side

(* Decapsulation under a key gives the encapsulated secret only if the     *)
(* ciphertext was made for that key; ML-KEM rejects implicitly, by giving  *)
(* another secret.                                                         *)
Ct == [to : Key, id : Key]
NoCt == [to |-> NoKey, id |-> NoKey]      \* have_ct = 0
NoSS == <<NoCt, NoKey>>                   \* have_kss_send = 0, have_kss_recv = 0
Decaps(ct, key) == <<ct, key>>

Mix == [dh : SUBSET Key, ss : Ct \X Key]
Root == Seq(Mix)
ChainKey == [root : Root, i : Nat]
NoChain == [root |-> <<>>, i |-> 0]       \* have_cks = 0, have_ckr = 0

Skipped == [dh : Key, n : Nat, mk : ChainKey]
Session == [rk : Root, dhs : Key, dhr : Key, cks : ChainKey, ckr : ChainKey,
            ns : Nat, nr : Nat, pn : Nat, skipped : SUBSET Skipped,
            kem : Key, kem_r : Key, pend_ct : Ct,
            kss_send : Ct \X Key, kss_recv : Ct \X Key,
            send_full : {0, 1}, advertised : {0, 1}, send_steps : Nat]
Header == [type : {"classical", "full", "lite"}, dh : Key, pn : Nat, n : Nat,
           kem_pk : Key, kem_ct : Ct]
Box == [key : ChainKey, n : Nat, aad : Header, pt : Plain]
Packet == [hdr : Header, box : Box]

(***************************************************************************)
(* The key schedule.                                                       *)
(***************************************************************************)
KdfRk(rk, dh, ss) == Append(rk, [dh |-> dh, ss |-> ss])
ChainOf(rk) == [root |-> rk, i |-> 0]
Advance(ck, k) == [ck EXCEPT !.i = @ + k]
NextKey(key) == <<key[1], key[2] + 1>>    \* a keypair generation

(***************************************************************************)
(* ratchet_init_*: the responder's first ratchet key is its signed prekey, *)
(* which the initiator has as peer_dh_pub; sk is the empty root.           *)
(***************************************************************************)
Blank(p) ==
    [rk |-> <<>>, dhs |-> <<p, 0>>, dhr |-> NoKey, cks |-> NoChain, ckr |-> NoChain,
     ns |-> 0, nr |-> 0, pn |-> 0, skipped |-> {},
     kem |-> IF PQ THEN <<p, 0>> ELSE NoKey, kem_r |-> NoKey, pend_ct |-> NoCt,
     kss_send |-> NoSS, kss_recv |-> NoSS,
     send_full |-> 0, advertised |-> 0, send_steps |-> 0]

InitResponder == Blank("R")

InitInitiator ==
    LET rk == KdfRk(<<>>, DH(<<"I", 0>>, <<"R", 0>>), NoSS)
    IN  [Blank("I") EXCEPT !.dhr = <<"R", 0>>, !.rk = rk, !.cks = ChainOf(rk),
                           !.send_full = IF PQ THEN 1 ELSE 0,
                           !.advertised = IF PQ THEN 1 ELSE 0]

(***************************************************************************)
(* skip_message_keys: what it returns, and the session it leaves when it   *)
(* succeeds.                                                               *)
(***************************************************************************)
(* Mutant: the gap is checked, the room left in the store is not.          *)
SkipRcGapOnly(s, until) ==
    IF s.ckr = NoChain THEN "ok"
    ELSE IF until < s.nr THEN "integrity"
    ELSE IF until - s.nr > MaxSkip THEN "input" ELSE "ok"

SkipRc(s, until) ==
    IF s.ckr = NoChain THEN "ok"
    ELSE IF until < s.nr THEN "integrity"
    ELSE IF \/ until - s.nr > MaxSkip
            \/ Cardinality(s.skipped) + (until - s.nr) > MaxSkip
         THEN "input"
         ELSE "ok"

Stash(s, until) ==
    {[dh |-> s.dhr, n |-> m, mk |-> Advance(s.ckr, m - s.nr)] : m \in s.nr .. (until - 1)}

SkipTo(s, until) ==
    IF s.ckr = NoChain THEN s
    ELSE [s EXCEPT !.skipped = @ \cup Stash(s, until),
                   !.ckr = Advance(@, until - s.nr),
                   !.nr = until]

(***************************************************************************)
(* dh_ratchet, in its two halves: the receiving chain, and (with a new     *)
(* ratchet key and, on the rotation cadence, new KEM material) the sending *)
(* chain.                                                                  *)
(***************************************************************************)
PqFull(h) == PQ /\ h.type = "full"

KssRecv(s, h) ==
    IF PqFull(h) /\ h.kem_ct # NoCt THEN Decaps(h.kem_ct, s.kem) ELSE s.kss_recv

KemR(s, h) == IF PqFull(h) THEN h.kem_pk ELSE s.kem_r

RecvRoot(s, h) == KdfRk(s.rk, DH(s.dhs, h.dh), KssRecv(s, h))

(* Mutant: pn is the index of the last message, not the number sent.       *)
RecvHalfLastIndex(s, h) ==
    [s EXCEPT !.pn = s.ns - 1, !.ns = 0, !.nr = 0, !.dhr = h.dh,
              !.kem_r = KemR(s, h), !.kss_recv = KssRecv(s, h),
              !.rk = RecvRoot(s, h), !.ckr = ChainOf(RecvRoot(s, h))]

RecvHalf(s, h) ==
    [s EXCEPT !.pn = s.ns, !.ns = 0, !.nr = 0, !.dhr = h.dh,
              !.kem_r = KemR(s, h), !.kss_recv = KssRecv(s, h),
              !.rk = RecvRoot(s, h), !.ckr = ChainOf(RecvRoot(s, h))]

Rotate(s) == (s.send_steps + 1) % KemEvery = 0
SendFull(s) == IF Rotate(s) \/ s.advertised = 0 THEN 1 ELSE 0

(* Mutant: a rotation advertises a new key and keeps the old secret.       *)
EncapsulateOnce(s) == s.advertised = 0 /\ s.kem_r # NoKey

Encapsulate(s) == SendFull(s) = 1 /\ s.kem_r # NoKey
EncapsCt(s) == [to |-> s.kem_r, id |-> <<s.dhs[1], s.send_steps + 1>>]

Advertised(s) == IF SendFull(s) = 1 THEN 1 ELSE s.advertised
KemKey(s) == IF Rotate(s) THEN NextKey(s.kem) ELSE s.kem
PendCt(s) == IF Encapsulate(s) THEN EncapsCt(s) ELSE NoCt
KssSend(s) == IF Encapsulate(s) THEN Decaps(EncapsCt(s), s.kem_r) ELSE s.kss_send

KemStep(s) ==
    [s EXCEPT !.send_steps = s.send_steps + 1, !.kem = KemKey(s),
              !.send_full = SendFull(s), !.advertised = Advertised(s),
              !.pend_ct = PendCt(s), !.kss_send = KssSend(s)]

Cadence(s) == IF PQ THEN KemStep(s) ELSE s

SendRoot(s) == KdfRk(s.rk, DH(NextKey(s.dhs), s.dhr), Cadence(s).kss_send)

SendHalf(s) ==
    [Cadence(s) EXCEPT !.dhs = NextKey(s.dhs), !.rk = SendRoot(s),
                       !.cks = ChainOf(SendRoot(s))]

DHRatchet(s, h) == SendHalf(RecvHalf(s, h))

(***************************************************************************)
(* The header of the next message, and the sealed box it is bound to.      *)
(***************************************************************************)
HdrBuild(s) ==
    LET full == PQ /\ s.send_full = 1
    IN  [type   |-> IF ~PQ THEN "classical" ELSE IF full THEN "full" ELSE "lite",
         dh     |-> s.dhs, pn |-> s.pn, n |-> s.ns,
         kem_pk |-> IF full THEN s.kem ELSE NoKey,
         kem_ct |-> IF full THEN s.pend_ct ELSE NoCt]

Seal(s, m) == [key |-> s.cks, n |-> s.ns, aad |-> HdrBuild(s), pt |-> m]

(* open_with_mk: GCM authenticates key, nonce and header together.         *)
(* Mutant: the KEM part of the header is left out of the AAD.              *)
OpensShortAad(mk, pkt) ==
    /\ pkt.box.key = mk
    /\ pkt.box.aad.dh = pkt.hdr.dh
    /\ pkt.box.aad.pn = pkt.hdr.pn
    /\ pkt.box.aad.n = pkt.hdr.n

Opens(mk, pkt) ==
    /\ pkt.box.key = mk
    /\ pkt.box.n = pkt.hdr.n
    /\ pkt.box.aad = pkt.hdr

(***************************************************************************)
(* ratchet_decrypt: the working copy after each of its stages, what it     *)
(* returns, and the copy it commits when the tag authenticates.            *)
(***************************************************************************)
TypeOf(h) == h.type \in IF PQ THEN {"full", "lite"} ELSE {"classical"}

SkippedFind(s, h) == {e \in s.skipped : e.dh = h.dh /\ e.n = h.n}

NewKey(s, h) == h.dh # s.dhr

Stepped(s, h) == IF NewKey(s, h) THEN DHRatchet(SkipTo(s, h.pn), h) ELSE s

Ready(s, h) == SkipTo(Stepped(s, h), h.n)

DecryptRc(s, pkt) ==
    LET h == pkt.hdr
    IN  IF ~TypeOf(h) THEN "input"
        ELSE IF SkippedFind(s, h) # {}
        THEN IF \E e \in SkippedFind(s, h) : Opens(e.mk, pkt) THEN "ok" ELSE "integrity"
        ELSE IF NewKey(s, h) /\ SkipRc(s, h.pn) # "ok" THEN SkipRc(s, h.pn)
        ELSE IF SkipRc(Stepped(s, h), h.n) # "ok" THEN SkipRc(Stepped(s, h), h.n)
        ELSE IF Ready(s, h).ckr = NoChain \/ ~Opens(Ready(s, h).ckr, pkt) THEN "integrity"
        ELSE "ok"

(* Mutant: a skipped key is kept after it has been used.                   *)
DecryptStateKeepsKey(s, pkt) ==
    LET h == pkt.hdr
    IN  IF SkippedFind(s, h) # {} THEN s
        ELSE [Ready(s, h) EXCEPT !.ckr = Advance(@, 1), !.nr = @ + 1]

DecryptState(s, pkt) ==
    LET h == pkt.hdr
    IN  IF SkippedFind(s, h) # {}
        THEN [s EXCEPT !.skipped = @ \ SkippedFind(s, h)]
        ELSE [Ready(s, h) EXCEPT !.ckr = Advance(@, 1), !.nr = @ + 1]

(***************************************************************************)
(* ratchet_session_serialize and _deserialize: pack writes the fields the  *)
(* blob has room for, the KEM part only under pq; unpack fills a zeroed    *)
(* session from it.                                                        *)
(***************************************************************************)
Pack(s) ==
    [fixed   |-> <<s.rk, s.dhs, s.dhr, s.cks, s.ckr, s.ns, s.nr, s.pn>>,
     skipped |-> s.skipped,
     kem     |-> IF PQ THEN <<s.kem_r, s.pend_ct, s.kss_send, s.kss_recv, s.send_full,
                              s.advertised, s.send_steps, s.kem>>
                       ELSE <<NoKey, NoCt, NoSS, NoSS, 0, 0, 0, NoKey>>]

Unpack(b) ==
    [rk |-> b.fixed[1], dhs |-> b.fixed[2], dhr |-> b.fixed[3], cks |-> b.fixed[4],
     ckr |-> b.fixed[5], ns |-> b.fixed[6], nr |-> b.fixed[7], pn |-> b.fixed[8],
     skipped |-> b.skipped,
     kem_r |-> b.kem[1], pend_ct |-> b.kem[2], kss_send |-> b.kem[3],
     kss_recv |-> b.kem[4], send_full |-> b.kem[5], advertised |-> b.kem[6],
     send_steps |-> b.kem[7], kem |-> b.kem[8]]

(***************************************************************************)
(* The network: every packet ever sent, to either party and as often as it *)
(* likes, and every such packet with a changed header.                     *)
(***************************************************************************)
Genuine == sent["I"] \cup sent["R"]

Tampered(h) ==
    {[h EXCEPT !.dh = Foreign], [h EXCEPT !.n = @ + 1], [h EXCEPT !.pn = @ + 1]}
    \cup IF h.type # "full" THEN {}
         ELSE {[h EXCEPT !.type = "lite", !.kem_pk = NoKey, !.kem_ct = NoCt],
               [h EXCEPT !.kem_pk = Foreign], [h EXCEPT !.kem_ct = NoCt],
               [h EXCEPT !.kem_ct = [to |-> h.kem_pk, id |-> Foreign]]}

Network ==
    Genuine \cup UNION {{[pkt EXCEPT !.hdr = h] : h \in Tampered(pkt.hdr)} : pkt \in Genuine}

(***************************************************************************)
(* The actions.                                                            *)
(***************************************************************************)
Init ==
    /\ sess = [p \in Party |-> IF p = "I" THEN InitInitiator ELSE InitResponder]
    /\ sent = [p \in Party |-> {}]
    /\ nsent = [p \in Party |-> 0]
    /\ faults = [p \in Party |-> 0]
    /\ opened = [p \in Party |-> {}]
    /\ nopened = [p \in Party |-> 0]

NextPlain(p) == [from |-> p, id |-> nsent[p] + 1]

(* kdf_ck on the sending chain: its present message key is used up.        *)
Burned(s) == [s EXCEPT !.cks = Advance(@, 1)]
Counted(s) == [s EXCEPT !.ns = @ + 1]

(* Mutant: the chain key is not advanced.                                  *)
EncryptSameKey(p) ==
    /\ nsent[p] < MaxSent
    /\ sess[p].cks # NoChain
    /\ sess' = [sess EXCEPT ![p] = Counted(@)]
    /\ nsent' = [nsent EXCEPT ![p] = @ + 1]
    /\ sent' = [sent EXCEPT ![p] = @ \cup {[hdr |-> HdrBuild(sess[p]),
                                            box |-> Seal(sess[p], NextPlain(p))]}]
    /\ UNCHANGED <<faults, opened, nopened>>

Encrypt(p) ==
    /\ nsent[p] < MaxSent
    /\ sess[p].cks # NoChain
    /\ sess' = [sess EXCEPT ![p] = Counted(Burned(@))]
    /\ nsent' = [nsent EXCEPT ![p] = @ + 1]
    /\ sent' = [sent EXCEPT ![p] = @ \cup {[hdr |-> HdrBuild(sess[p]),
                                            box |-> Seal(sess[p], NextPlain(p))]}]
    /\ UNCHANGED <<faults, opened, nopened>>

(* The chain key is advanced before the seal: when the seal fails, the     *)
(* session has lost a position and ns does not say so.                     *)
EncryptFails(p) ==
    /\ faults[p] < MaxFaults
    /\ sess[p].cks # NoChain
    /\ sess' = [sess EXCEPT ![p] = Burned(@)]
    /\ faults' = [faults EXCEPT ![p] = @ + 1]
    /\ UNCHANGED <<sent, nsent, opened, nopened>>

Commit(p, pkt) ==
    /\ DecryptRc(sess[p], pkt) = "ok"
    /\ DecryptState(sess[p], pkt).dhs[2] <= MaxSteps
    /\ sess' = [sess EXCEPT ![p] = DecryptState(@, pkt)]
    /\ opened' = [opened EXCEPT ![p] = @ \cup {pkt.box.pt}]
    /\ nopened' = [nopened EXCEPT ![p] = @ + 1]

(* Mutant: the working copy is the live session.                           *)
RejectInPlace(p, pkt) ==
    /\ DecryptRc(sess[p], pkt) # "ok"
    /\ sess' = [sess EXCEPT ![p] = IF /\ NewKey(@, pkt.hdr)
                                      /\ SkipRc(@, pkt.hdr.pn) = "ok"
                                   THEN Stepped(@, pkt.hdr) ELSE @]
    /\ UNCHANGED <<opened, nopened>>

(* A packet that is refused leaves the live session as it was.             *)
Reject(p, pkt) ==
    /\ DecryptRc(sess[p], pkt) # "ok"
    /\ UNCHANGED <<sess, opened, nopened>>

Decrypt(p, pkt) ==
    /\ Commit(p, pkt) \/ Reject(p, pkt)
    /\ UNCHANGED <<sent, nsent, faults>>

Reload(p) ==
    /\ sess' = [sess EXCEPT ![p] = Unpack(Pack(@))]
    /\ UNCHANGED <<sent, nsent, faults, opened, nopened>>

Next ==
    \E p \in Party :
        \/ Encrypt(p)
        \/ EncryptFails(p)
        \/ \E pkt \in Network : Decrypt(p, pkt)
        \/ Reload(p)

Spec == Init /\ [][Next]_vars

(***************************************************************************)
(* Properties.                                                             *)
(***************************************************************************)
(* Every session, packet and counter has its type.                         *)
TypeOK ==
    /\ sess \in [Party -> Session]
    /\ sent \in [Party -> SUBSET Packet]
    /\ nsent \in [Party -> 0 .. MaxSent]
    /\ faults \in [Party -> 0 .. MaxFaults]
    /\ opened \in [Party -> SUBSET Plain]
    /\ nopened \in [Party -> Nat]

Pending(p) == {pkt \in sent[Peer(p)] : pkt.box.pt \notin opened[p]}

(* A failed seal puts the positions of the chain behind ns from then on.   *)
InStep(pkt) == pkt.box.key.i = pkt.hdr.n

(* No order of sending, losing, reordering, replaying and tampering can    *)
(* wedge a session: as long as at most MaxSkip other messages of the peer  *)
(* are outstanding, ratchet_decrypt opens any message that was sealed in   *)
(* step with its counter, whichever arrives next.                          *)
Decryptable ==
    \A p \in Party : \A pkt \in Pending(p) :
        InStep(pkt) /\ Cardinality(Pending(p)) <= MaxSkip + 1
            => DecryptRc(sess[p], pkt) = "ok"

(* The session can still produce a message key: it is stored, or ahead on  *)
(* a live chain, or a root it extends is still the session's root.         *)
Derivable(s, key) ==
    \/ \E e \in s.skipped : e.mk = key
    \/ \E ck \in {s.cks, s.ckr} : ck.root = key.root /\ ck.i <= key.i
    \/ /\ Len(s.rk) < Len(key.root)
       /\ s.rk = SubSeq(key.root, 1, Len(s.rk))

(* Forward secrecy: once a message has been sent or opened, the session of *)
(* the party that did it no longer holds or can derive its message key.    *)
ForwardSecrecy ==
    \A p \in Party :
        /\ \A pkt \in sent[p] : ~Derivable(sess[p], pkt.box.key)
        /\ \A pkt \in Genuine :
              pkt.box.pt \in opened[p] => ~Derivable(sess[p], pkt.box.key)

(* No two messages are ever sealed under the same message key: the nonce   *)
(* is only the counter, so a second use would break AES-GCM.               *)
NoKeyReuse ==
    \A a, b \in Genuine : a.box.key = b.box.key => a = b

(* The store of skipped keys never outgrows the array that holds it,       *)
(* however the gaps of several chains add up.                              *)
SkippedBounded == \A p \in Party : Cardinality(sess[p].skipped) <= MaxSkip

(* A root position that mixes in a KEM secret no earlier position has.     *)
Fresh(rk, q) == rk[q].ss # NoSS /\ \A j \in 1 .. (q - 1) : rk[j].ss # rk[q].ss

(* Post-compromise security heals within KemEvery steps: any KemEvery      *)
(* consecutive ratchet steps of one party mix at least one KEM secret into *)
(* the root that was in no earlier state of either session.                *)
HealsWithinK ==
    \A p \in Party : \A q \in 2 .. Len(sess[p].rk) :
        /\ (Len(sess[p].rk) - q) % 2 = 0
        /\ q + 2 * (KemEvery - 1) <= Len(sess[p].rk)
        => \E j \in 0 .. (KemEvery - 1) : Fresh(sess[p].rk, q + 2 * j)

(* The ratchet implements the at-most-once authenticated channel.          *)
Channel == INSTANCE SecureChannel WITH
    Sender <- Party, Receiver <- Party, Source <- [p \in Party |-> Peer(p)],
    Msg <- Plain,
    sent <- [p \in Party |-> {pkt.box.pt : pkt \in sent[p]}]

AtMostOnceAuthentic == Channel!Spec
==============================================================================
