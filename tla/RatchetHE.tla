------------------------------ MODULE RatchetHE ------------------------------
(***************************************************************************)
(* The header-encrypted ratchet of src/src/ratchet.c (ratchet_he_init_*,   *)
(* ratchet_encrypt_he, ratchet_decrypt_he): the classical ratchet, with    *)
(* the header sealed under a header key of its chain.  A receiver tells    *)
(* the chain of a packet, and so whether to take a ratchet step, only from *)
(* the key that opens its header.                                          *)
(*                                                                         *)
(* The sessions have the fields of Ratchet's and five more; its key        *)
(* schedule and its skip_message_keys are used as they are.                *)
(***************************************************************************)
EXTENDS Ratchet

ASSUME ClassicalAssumption == ~PQ          \* "Only the classical ratchet is HE-enabled"

(* A header key is one of the two derive_he_hdr_keys takes from the shared *)
(* secret, or the third output of kdf_rk at a root.                        *)
NoHk == [tag |-> "none", root |-> <<>>]    \* have_hks = 0, ...
HKA == [tag |-> "hka", root |-> <<>>]
NHKB == [tag |-> "nhkb", root |-> <<>>]
HeaderKeyOf(rk) == [tag |-> "rk", root |-> rk]

WithKeys(s, keys) ==
    [f \in DOMAIN s \cup DOMAIN keys |-> IF f \in DOMAIN keys THEN keys[f] ELSE s[f]]

InitResponderHE ==
    WithKeys(InitResponder, [hks |-> NoHk, hkr |-> NoHk, nhks |-> NHKB, nhkr |-> HKA])

InitInitiatorHE ==
    WithKeys(InitInitiator, [hks |-> HKA, hkr |-> NoHk,
                             nhks |-> HeaderKeyOf(InitInitiator.rk), nhkr |-> NHKB])

(* skip_message_keys also files the header key of the chain it skips on.   *)
SkipToHE(s, until) ==
    IF s.ckr = NoChain THEN s
    ELSE [SkipTo(s, until) EXCEPT
            !.skipped = s.skipped \cup
                {[dh |-> e.dh, n |-> e.n, mk |-> e.mk, hk |-> s.hkr] : e \in Stash(s, until)}]

(***************************************************************************)
(* dh_ratchet_he: the next header keys become the current ones, and each   *)
(* of the two kdf_rk calls gives the next.                                 *)
(***************************************************************************)
(* Mutant: the third output of the receiving kdf_rk is not kept.           *)
DHRatchetHEStaleRecv(s, h) ==
    LET recv == RecvHalf(s, h)
    IN  [SendHalf(recv) EXCEPT !.hks = s.nhks, !.hkr = s.nhkr, !.nhks = HeaderKeyOf(SendRoot(recv))]

DHRatchetHE(s, h) ==
    LET recv == RecvHalf(s, h)
    IN  [SendHalf(recv) EXCEPT !.hks = s.nhks, !.hkr = s.nhkr,
                               !.nhkr = HeaderKeyOf(recv.rk), !.nhks = HeaderKeyOf(SendRoot(recv))]

(***************************************************************************)
(* ratchet_encrypt_he.                                                     *)
(***************************************************************************)
HeHdrBuild(s) == [hk |-> s.hks, hpt |-> [dh |-> s.dhs, pn |-> s.pn, n |-> s.ns]]

SealHE(s, m) == [key |-> s.cks, n |-> s.ns, aad |-> HeHdrBuild(s), pt |-> m]

CanSendHE(s) == s.cks # NoChain /\ s.hks # NoHk

(***************************************************************************)
(* ratchet_decrypt_he.                                                     *)
(***************************************************************************)
HeaderOpens(hk, hdr) == hk # NoHk /\ hdr.hk = hk

(* The entries the first loop stops at.                                    *)
StoredFor(s, pkt) ==
    {e \in s.skipped : /\ HeaderOpens(e.hk, pkt.hdr)
                       /\ e.n = pkt.hdr.hpt.n
                       /\ e.dh = pkt.hdr.hpt.dh}

NewEpoch(s, pkt) == ~HeaderOpens(s.hkr, pkt.hdr)

(* The header as dh_ratchet takes it.                                      *)
Classical(hpt) ==
    [type |-> "classical", dh |-> hpt.dh, pn |-> hpt.pn, n |-> hpt.n,
     kem_pk |-> NoKey, kem_ct |-> NoCt]

(* Mutant: the rest of the chain that is left is not skipped.              *)
SteppedHENoSkip(s, pkt) ==
    IF NewEpoch(s, pkt) THEN DHRatchetHE(s, Classical(pkt.hdr.hpt)) ELSE s

SteppedHE(s, pkt) ==
    IF NewEpoch(s, pkt)
    THEN DHRatchetHE(SkipToHE(s, pkt.hdr.hpt.pn), Classical(pkt.hdr.hpt))
    ELSE s

ReadyHE(s, pkt) == SkipToHE(SteppedHE(s, pkt), pkt.hdr.hpt.n)

OpensHE(mk, pkt) ==
    /\ pkt.box.key = mk
    /\ pkt.box.n = pkt.hdr.hpt.n
    /\ pkt.box.aad = pkt.hdr

DecryptRcHE(s, pkt) ==
    IF StoredFor(s, pkt) # {}
    THEN IF \E e \in StoredFor(s, pkt) : OpensHE(e.mk, pkt) THEN "ok" ELSE "integrity"
    ELSE IF ~HeaderOpens(s.hkr, pkt.hdr) /\ ~HeaderOpens(s.nhkr, pkt.hdr) THEN "integrity"
    ELSE IF NewEpoch(s, pkt) /\ SkipRc(s, pkt.hdr.hpt.pn) # "ok" THEN SkipRc(s, pkt.hdr.hpt.pn)
    ELSE IF SkipRc(SteppedHE(s, pkt), pkt.hdr.hpt.n) # "ok"
    THEN SkipRc(SteppedHE(s, pkt), pkt.hdr.hpt.n)
    ELSE IF ReadyHE(s, pkt).ckr = NoChain \/ ~OpensHE(ReadyHE(s, pkt).ckr, pkt) THEN "integrity"
    ELSE "ok"

DecryptStateHE(s, pkt) ==
    IF StoredFor(s, pkt) # {}
    THEN [s EXCEPT !.skipped = @ \ StoredFor(s, pkt)]
    ELSE [ReadyHE(s, pkt) EXCEPT !.ckr = Advance(@, 1), !.nr = @ + 1]

(***************************************************************************)
(* The relay delivers what was sent to whom and as often as it likes, with *)
(* a header that opens under no key, or with the header of another packet. *)
(***************************************************************************)
Damaged(hdr) == [hdr EXCEPT !.hk = NoHk]

NetworkHE ==
    {[pkt EXCEPT !.hdr = h] : pkt \in Genuine, h \in {q.hdr : q \in Genuine}}
    \cup {[pkt EXCEPT !.hdr = Damaged(@)] : pkt \in Genuine}

InitHE ==
    /\ sess = [p \in Party |-> IF p = "I" THEN InitInitiatorHE ELSE InitResponderHE]
    /\ sent = [p \in Party |-> {}]
    /\ nsent = [p \in Party |-> 0]
    /\ faults = [p \in Party |-> 0]
    /\ opened = [p \in Party |-> {}]
    /\ nopened = [p \in Party |-> 0]

EncryptHE(p) ==
    /\ nsent[p] < MaxSent
    /\ CanSendHE(sess[p])
    /\ sess' = [sess EXCEPT ![p] = Counted(Burned(@))]
    /\ nsent' = [nsent EXCEPT ![p] = @ + 1]
    /\ sent' = [sent EXCEPT ![p] = @ \cup {[hdr |-> HeHdrBuild(sess[p]),
                                            box |-> SealHE(sess[p], NextPlain(p))]}]
    /\ UNCHANGED <<faults, opened, nopened>>

(* The header seal or the body seal fails, after kdf_ck has moved cks on.  *)
EncryptHEFails(p) ==
    /\ faults[p] < MaxFaults
    /\ CanSendHE(sess[p])
    /\ sess' = [sess EXCEPT ![p] = Burned(@)]
    /\ faults' = [faults EXCEPT ![p] = @ + 1]
    /\ UNCHANGED <<sent, nsent, opened, nopened>>

CommitHE(p, pkt) ==
    /\ DecryptRcHE(sess[p], pkt) = "ok"
    /\ DecryptStateHE(sess[p], pkt).dhs[2] <= MaxSteps
    /\ sess' = [sess EXCEPT ![p] = DecryptStateHE(@, pkt)]
    /\ opened' = [opened EXCEPT ![p] = @ \cup {pkt.box.pt}]
    /\ nopened' = [nopened EXCEPT ![p] = @ + 1]

(* Mutant: the key of the position is spent before the body has opened.    *)
RejectHESpends(p, pkt) ==
    /\ DecryptRcHE(sess[p], pkt) # "ok"
    /\ sess' = [sess EXCEPT ![p] =
                  IF /\ StoredFor(@, pkt) = {}
                     /\ HeaderOpens(@.hkr, pkt.hdr) /\ SkipRc(@, pkt.hdr.hpt.n) = "ok"
                  THEN DecryptStateHE(@, pkt) ELSE @]
    /\ UNCHANGED <<opened, nopened>>

RejectHE(p, pkt) ==
    /\ DecryptRcHE(sess[p], pkt) # "ok"
    /\ UNCHANGED <<sess, opened, nopened>>

DecryptHE(p, pkt) ==
    /\ CommitHE(p, pkt) \/ RejectHE(p, pkt)
    /\ UNCHANGED <<sent, nsent, faults>>

(* ratchet_session_serialize refuses a session with header keys, so there  *)
(* is no reload.                                                           *)
NextHE ==
    \E p \in Party :
        \/ EncryptHE(p)
        \/ EncryptHEFails(p)
        \/ \E pkt \in NetworkHE : DecryptHE(p, pkt)

SpecHE == InitHE /\ [][NextHE]_vars

(***************************************************************************)
(* Properties.                                                             *)
(***************************************************************************)
(* The session without its header keys, the packet with its header open.   *)
Unveiled(s) ==
    [f \in DOMAIN InitResponder |->
        IF f = "skipped" THEN {[dh |-> e.dh, n |-> e.n, mk |-> e.mk] : e \in s.skipped}
        ELSE s[f]]

UnveiledPacket(pkt) ==
    [hdr |-> Classical(pkt.hdr.hpt), box |-> [pkt.box EXCEPT !.aad = Classical(@.hpt)]]

(* Encrypting the header changes nothing but what the relay sees: with the *)
(* headers open, every run of the header-encrypted ratchet is a run of the *)
(* classical one.  Choosing the chain by trial opening is choosing it by   *)
(* the ratchet key in the clear, so what holds of Ratchet (at-most-once,   *)
(* forward secrecy, no key used twice, the bounded store) holds here.      *)
Plainly == INSTANCE Ratchet WITH
    sess <- [p \in Party |-> Unveiled(sess[p])],
    sent <- [p \in Party |-> {UnveiledPacket(pkt) : pkt \in sent[p]}]

VeilsRatchet == Plainly!Spec

(* No order of loss, reordering and damage wedges ratchet_decrypt_he, and  *)
(* no header of another packet put before a body does: any outstanding     *)
(* message in step with its counter opens next.                            *)
DecryptableHE ==
    \A p \in Party : \A pkt \in Pending(p) :
        pkt.box.key.i = pkt.hdr.hpt.n /\ Cardinality(Pending(p)) <= MaxSkip + 1
            => DecryptRcHE(sess[p], pkt) = "ok"

(* A header opens under at most one of the keys ratchet_decrypt_he tries,  *)
(* stored keys of one chain counting once, and never under a key of the    *)
(* party that sealed it: the order of the trials decides nothing.  And a   *)
(* header key seals the headers of one chain only, so that a relay that    *)
(* learned one could read and link no other chain.                         *)
OneHeaderKeyOpens ==
    /\ \A a, b \in Genuine : a.hdr.hk = b.hdr.hk <=> a.hdr.hpt.dh = b.hdr.hpt.dh
    /\ \A p \in Party :
        LET s == sess[p]
        IN  /\ s.hkr # s.nhkr
            /\ \A e \in s.skipped : e.hk # s.nhkr /\ (e.hk = s.hkr <=> e.dh = s.dhr)
            /\ \A pkt \in sent[p] :
                  pkt.hdr.hk \notin {s.hkr, s.nhkr} \cup {e.hk : e \in s.skipped}
==============================================================================
