-------------------------------- MODULE Group --------------------------------
(***************************************************************************)
(* The sender-key group ratchet of src/src/group.c: every sender has a     *)
(* hash chain and a signature key, every other member a receiving chain    *)
(* per sender, installed from a distribution message (SKDM) that travels   *)
(* over the pairwise channel.  Frames are broadcast over a network that    *)
(* loses, duplicates, reorders, misdirects and tampers, and a member who   *)
(* holds a chain key may seal frames of its own under it.                  *)
(*                                                                         *)
(* A chain key, and the message key derived from it, is named by the       *)
(* sender, the generation of its sender key and the position.              *)
(***************************************************************************)
EXTENDS Integers, FiniteSets

CONSTANTS
    Member,     \* the group
    Sender,     \* the members that send
    MaxSkip,    \* GROUP_MAX_SKIP
    IndexMod,   \* 2^32: the index is a uint32_t
    MaxSent,    \* bound: messages of one sender
    MaxGen      \* bound: sender keys one sender creates

ASSUME GroupAssumption ==
    /\ Sender \subseteq Member
    /\ MaxSkip \in Nat
    /\ IndexMod \in Nat \ {0}
    /\ MaxSent \in Nat
    /\ MaxGen \in Nat \ {0}

VARIABLES
    send,       \* send[s]: the group_sender_t of s
    recv,       \* recv[c]: the group_receiver_t of chain c
    skdm,       \* skdm[c]: the distribution messages on their way to chain c
    given,      \* given[c]: the generations c was sent a distribution message of
    joined,     \* joined[c]: the position chain c was installed at (history)
    sent,       \* sent[s]: every frame s has produced
    nsent,      \* nsent[s]: how many, names the next plaintext
    opened,     \* opened[c]: the plaintexts group_decrypt has returned on c
    nopened     \* nopened[c]: how many times it has returned one

vars == <<send, recv, skdm, given, joined, sent, nsent, opened, nopened>>

Chain == [to : Member, from : Sender]     \* the receiving chain of one member for one sender
SigKey == [own : Member, gen : Nat]
ChainKey == [own : Sender, gen : Nat, i : Nat]
Index == 0 .. (IndexMod - 1)

Plain == [from : Sender, id : 1 .. MaxSent]
ForgedText == [from : Sender, id : {0}]   \* what an insider seals in the name of a sender

Skipped == [index : Index, mk : ChainKey]
SenderKey == [ck : ChainKey, index : Index, sig : SigKey]
Receiver == [ck : ChainKey, index : Index, sig_pk : SigKey, skipped : SUBSET Skipped]
Box == [key : ChainKey, index : Index, pt : Plain \cup ForgedText]
Frame == [index : Index, box : Box, by : SigKey, sindex : Index, sbox : Box]

(***************************************************************************)
(* The key schedule and the life of a chain.                               *)
(***************************************************************************)
Advance(ck, k) == [ck EXCEPT !.i = @ + k]           \* k applications of g_kdf_ck
Succ(index) == (index + 1) % IndexMod

SenderInit(s, gen) ==
    [ck |-> [own |-> s, gen |-> gen, i |-> 0], index |-> 0, sig |-> [own |-> s, gen |-> gen]]

Distribution(k) == [ck |-> k.ck, index |-> k.index, sig_pk |-> k.sig]

(* Mutant: an installed chain starts with the index of the first message.  *)
ReceiverInitAtZero(d) == [ck |-> d.ck, index |-> 0, sig_pk |-> d.sig_pk, skipped |-> {}]

ReceiverInit(d) == [ck |-> d.ck, index |-> d.index, sig_pk |-> d.sig_pk, skipped |-> {}]

(* Before its first SKDM a chain has generation 0, which no sender key has. *)
NoReceiver(c) ==
    [ck |-> [own |-> c.from, gen |-> 0, i |-> 0], index |-> 0,
     sig_pk |-> [own |-> c.to, gen |-> 0], skipped |-> {}]

(***************************************************************************)
(* Frames: the AEAD binds key, nonce and index, the signature covers index *)
(* and ciphertext.                                                         *)
(***************************************************************************)
Seal(key, index, pt, by) ==
    LET box == [key |-> key, index |-> index, pt |-> pt]
    IN  [index |-> index, box |-> box, by |-> by, sindex |-> index, sbox |-> box]

(* Mutant: the signature is checked against the key named in the frame.    *)
VerifyAnyKey(f, pk) == f.sindex = f.index /\ f.sbox = f.box

Verify(f, pk) == f.by = pk /\ f.sindex = f.index /\ f.sbox = f.box

Opens(mk, f) == f.box.key = mk /\ f.box.index = f.index

(***************************************************************************)
(* group_decrypt: what it returns for a frame, and the copy of the chain   *)
(* it commits when the tag authenticates.                                  *)
(***************************************************************************)
(* The store is filled in chain order, so the first match is the oldest.   *)
SkippedFind(w, index) ==
    {e \in w.skipped : /\ e.index = index
                       /\ \A f \in w.skipped : f.index = index => e.mk.i <= f.mk.i}

Gap(w, f) == f.index - w.index

(* Mutant: only the gap is checked, not the room left in the store.        *)
TooFarGapOnly(w, f) == Gap(w, f) > MaxSkip

TooFar(w, f) == Gap(w, f) > MaxSkip \/ Cardinality(w.skipped) + Gap(w, f) > MaxSkip

Stash(w, f) == {[index |-> w.index + k, mk |-> Advance(w.ck, k)] : k \in 0 .. (Gap(w, f) - 1)}

MsgKey(w, f) == Advance(w.ck, Gap(w, f))

DecryptRc(w, f) ==
    IF ~Verify(f, w.sig_pk) THEN "integrity"
    ELSE IF f.index < w.index
    THEN IF \E e \in SkippedFind(w, f.index) : Opens(e.mk, f) THEN "ok" ELSE "integrity"
    ELSE IF TooFar(w, f) THEN "input"
    ELSE IF Opens(MsgKey(w, f), f) THEN "ok" ELSE "integrity"

(* Mutant: a key taken from the store stays in it.                         *)
DecryptStateKeepsKey(w, f) ==
    IF f.index < w.index THEN w
    ELSE [w EXCEPT !.skipped = @ \cup Stash(w, f), !.ck = Advance(MsgKey(w, f), 1),
                   !.index = Succ(f.index)]

DecryptState(w, f) ==
    IF f.index < w.index
    THEN [w EXCEPT !.skipped = @ \ SkippedFind(w, f.index)]
    ELSE [w EXCEPT !.skipped = @ \cup Stash(w, f), !.ck = Advance(MsgKey(w, f), 1),
                   !.index = Succ(f.index)]

(***************************************************************************)
(* group_receiver_serialize and _deserialize: the used entries of the      *)
(* store and their number, read back into a zeroed receiver; a blob whose  *)
(* count and length disagree is refused.                                   *)
(***************************************************************************)
Pack(w) == [head |-> <<w.ck, w.index, w.sig_pk>>, n |-> Cardinality(w.skipped), tail |-> w.skipped]

PackOk(b) == b.n <= MaxSkip /\ Cardinality(b.tail) = b.n

Unpack(b) == [ck |-> b.head[1], index |-> b.head[2], sig_pk |-> b.head[3], skipped |-> b.tail]

(***************************************************************************)
(* The network: every frame ever produced, to any chain and as often as it *)
(* likes, with its index or plaintext changed, and what insiders seal      *)
(* under the chain and message keys they hold and sign with their own key. *)
(***************************************************************************)
Genuine == UNION {sent[s] : s \in Sender}

Insider(c) ==
    {Seal(recv[c].ck, recv[c].index, [from |-> c.from, id |-> 0], [own |-> c.to, gen |-> 1])}
    \cup {Seal(e.mk, e.index, [from |-> c.from, id |-> 0], [own |-> c.to, gen |-> 1])
             : e \in recv[c].skipped}

Tampered(f) ==
    {[f EXCEPT !.index = Succ(f.index)],
     [f EXCEPT !.box.pt = [from |-> f.box.key.own, id |-> 0]]}

Network ==
    Genuine
    \cup (UNION {Tampered(f) : f \in Genuine})
    \cup (UNION {Insider(c) : c \in {d \in Chain : d.to # d.from /\ recv[d].sig_pk.gen # 0}})

(***************************************************************************)
(* The actions.                                                            *)
(***************************************************************************)
Init ==
    /\ send = [s \in Sender |-> SenderInit(s, 1)]
    /\ recv = [c \in Chain |-> NoReceiver(c)]
    /\ skdm = [c \in Chain |-> {}]
    /\ given = [c \in Chain |-> {}]
    /\ joined = [c \in Chain |-> 0]
    /\ sent = [s \in Sender |-> {}]
    /\ nsent = [s \in Sender |-> 0]
    /\ opened = [c \in Chain |-> {}]
    /\ nopened = [c \in Chain |-> 0]

(* group_sender_init anew: a member left, or the old key is retired.       *)
Rotate(s) ==
    /\ send[s].ck.gen < MaxGen
    /\ send' = [send EXCEPT ![s] = SenderInit(s, @.ck.gen + 1)]
    /\ UNCHANGED <<recv, skdm, given, joined, sent, nsent, opened, nopened>>

(* group_sender_distribution, once to each other member and sender key.    *)
Distribute(c) ==
    /\ c.to # c.from
    /\ send[c.from].ck.gen \notin given[c]
    /\ skdm' = [skdm EXCEPT ![c] = @ \cup {Distribution(send[c.from])}]
    /\ given' = [given EXCEPT ![c] = @ \cup {send[c.from].ck.gen}]
    /\ UNCHANGED <<send, recv, joined, sent, nsent, opened, nopened>>

(* group_receiver_init: the pairwise channel delivers once, in any order.  *)
Install(c) ==
    /\ \E d \in skdm[c] :
          /\ recv' = [recv EXCEPT ![c] = ReceiverInit(d)]
          /\ skdm' = [skdm EXCEPT ![c] = @ \ {d}]
          /\ joined' = [joined EXCEPT ![c] = d.ck.i]
    /\ UNCHANGED <<send, given, sent, nsent, opened, nopened>>

NextPlain(s) == [from |-> s, id |-> nsent[s] + 1]

Spend(k) == [k EXCEPT !.ck = Advance(@, 1), !.index = Succ(@)]

(* Mutant: the next chain key is not committed.                            *)
EncryptSameKey(s) ==
    /\ nsent[s] < MaxSent
    /\ sent' = [sent EXCEPT ![s] =
                  @ \cup {Seal(send[s].ck, send[s].index, NextPlain(s), send[s].sig)}]
    /\ nsent' = [nsent EXCEPT ![s] = @ + 1]
    /\ send' = [send EXCEPT ![s].index = Succ(@)]
    /\ UNCHANGED <<recv, skdm, given, joined, opened, nopened>>

(* The sender is committed last: a seal or signature that fails leaves it  *)
(* as it was, and is a stuttering step.                                    *)
Encrypt(s) ==
    /\ nsent[s] < MaxSent
    /\ sent' = [sent EXCEPT ![s] =
                  @ \cup {Seal(send[s].ck, send[s].index, NextPlain(s), send[s].sig)}]
    /\ nsent' = [nsent EXCEPT ![s] = @ + 1]
    /\ send' = [send EXCEPT ![s] = Spend(@)]
    /\ UNCHANGED <<recv, skdm, given, joined, opened, nopened>>

Commit(c, f) ==
    /\ DecryptRc(recv[c], f) = "ok"
    /\ recv' = [recv EXCEPT ![c] = DecryptState(@, f)]
    /\ opened' = [opened EXCEPT ![c] = @ \cup {f.box.pt}]
    /\ nopened' = [nopened EXCEPT ![c] = @ + 1]

(* A frame that is refused leaves the chain as it was.                     *)
Reject(c, f) ==
    /\ DecryptRc(recv[c], f) # "ok"
    /\ UNCHANGED <<recv, opened, nopened>>

Decrypt(c, f) ==
    /\ recv[c].sig_pk.gen # 0
    /\ Commit(c, f) \/ Reject(c, f)
    /\ UNCHANGED <<send, skdm, given, joined, sent, nsent>>

Reload(c) ==
    /\ PackOk(Pack(recv[c]))
    /\ recv' = [recv EXCEPT ![c] = Unpack(Pack(@))]
    /\ UNCHANGED <<send, skdm, given, joined, sent, nsent, opened, nopened>>

Next ==
    \/ \E s \in Sender : Rotate(s) \/ Encrypt(s)
    \/ \E c \in Chain :
          \/ Distribute(c)
          \/ Install(c)
          \/ \E f \in Network : Decrypt(c, f)
          \/ Reload(c)

Spec == Init /\ [][Next]_vars

(***************************************************************************)
(* Properties.                                                             *)
(***************************************************************************)
(* Every sender, receiving chain and frame has its type; only plaintexts   *)
(* of a sender are ever opened; and no gap or sum of gaps puts more keys   *)
(* into the skipped array of a chain than it has room for, so that a chain *)
(* in use can always be written to disk and read back.                     *)
TypeOK ==
    /\ send \in [Sender -> SenderKey]
    /\ recv \in [Chain -> Receiver]
    /\ skdm \in [Chain -> SUBSET [ck : ChainKey, index : Index, sig_pk : SigKey]]
    /\ given \in [Chain -> SUBSET (1 .. MaxGen)]
    /\ joined \in [Chain -> Nat]
    /\ sent \in [Sender -> SUBSET Frame]
    /\ nsent \in [Sender -> 0 .. MaxSent]
    /\ opened \in [Chain -> SUBSET Plain]
    /\ nopened \in [Chain -> Nat]
    /\ \A c \in Chain : PackOk(Pack(recv[c]))

(* The frames a chain was installed for and has not opened.                *)
Owed(c) ==
    {f \in sent[c.from] : /\ f.box.key.gen = recv[c].ck.gen
                          /\ f.box.key.i >= joined[c]
                          /\ f.box.pt \notin opened[c]}

(* No loss, reordering, replay, misdirection or forgery wedges a receiving *)
(* chain: while at most MaxSkip other frames are owed to it, group_decrypt *)
(* opens each frame it was installed for, whichever arrives next.  (Until  *)
(* the 32-bit index wraps: neither a gap across the wrap nor a key stored  *)
(* before it is recognised after.)                                         *)
Decryptable ==
    \A c \in Chain :
        /\ Cardinality(Owed(c)) <= MaxSkip + 1
        /\ recv[c].ck.i < IndexMod
        /\ \A f \in Owed(c) : f.box.key.i < IndexMod
        => \A f \in Owed(c) : DecryptRc(recv[c], f) = "ok"

(* The chain can still produce a message key.                              *)
Derivable(w, key) ==
    \/ \E e \in w.skipped : e.mk = key
    \/ w.ck.own = key.own /\ w.ck.gen = key.gen /\ w.ck.i <= key.i

(* Forward secrecy of group chains: the sender keeps nothing that leads to *)
(* the key of a frame it sent, a receiver nothing that leads to the key of *)
(* a frame it opened or of one sent before the SKDM it joined with.        *)
ForwardSecrecy ==
    /\ \A s \in Sender : \A f \in sent[s] :
          ~(send[s].ck.gen = f.box.key.gen /\ send[s].ck.i <= f.box.key.i)
    /\ \A c \in Chain : \A f \in sent[c.from] :
          \/ f.box.pt \in opened[c]
          \/ f.box.key.gen = recv[c].ck.gen /\ f.box.key.i < joined[c]
          => ~Derivable(recv[c], f.box.key)

(* No two frames, of any sender, are sealed under one message key.         *)
NoKeyReuse == \A f, g \in Genuine : f.box.key = g.box.key => f = g

(* The group implements an at-most-once authenticated channel from every   *)
(* sender to each of the receiving chains.                                 *)
Channel == INSTANCE SecureChannel WITH
    Receiver <- Chain, Source <- [c \in Chain |-> c.from], Msg <- Plain,
    sent <- [s \in Sender |-> {f.box.pt : f \in sent[s]}]

AtMostOnceAuthentic == Channel!Spec
==============================================================================
