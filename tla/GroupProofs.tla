----------------------------- MODULE GroupProofs -----------------------------
(***************************************************************************)
(* Proofs about Group for every value of its constants.                    *)
(*                                                                         *)
(* The inductive invariant follows a sender key from the SKDM that hands   *)
(* it out to the chain it is installed in: a chain is never ahead of its   *)
(* sender, every key in its store lies behind it and belongs to a frame    *)
(* that was sent, a generation is handed to a chain once, and every frame  *)
(* the chain has passed was either opened or has its key in the store.     *)
(***************************************************************************)
EXTENDS Group, FiniteSetTheorems, TLAPS

Dist == [ck : ChainKey, index : Index, sig_pk : SigKey]

(* The index a chain shows at position i. *)
IndexOf(i) == i % IndexMod

(* A frame as s produced it, with its key behind the sender's position.    *)
FrameInv(s, f) ==
    /\ f.box.key.own = s
    /\ f.box.index = f.index
    /\ f.sindex = f.index /\ f.sbox = f.box
    /\ f.by = [own |-> s, gen |-> f.box.key.gen]
    /\ f.index = IndexOf(f.box.key.i)
    /\ f.box.key.gen # 0
    /\ f.box.key.gen <= send[s].ck.gen
    /\ f.box.key.gen = send[s].ck.gen => f.box.key.i < send[s].ck.i
    /\ f.box.pt.from = s
    /\ f.box.pt.id \in 1 .. nsent[s]

SenderInv(s) ==
    /\ send[s].ck.own = s
    /\ send[s].ck.gen \in 1 .. MaxGen
    /\ send[s].sig = [own |-> s, gen |-> send[s].ck.gen]
    /\ send[s].index = IndexOf(send[s].ck.i)

SentKey(s, gen, i) == \E f \in sent[s] : f.box.key = [own |-> s, gen |-> gen, i |-> i]

(* Plaintexts and keys are used once, and every generation was sent from   *)
(* position 0 on without a gap.                                            *)
SentInv(s) ==
    /\ IsFiniteSet(sent[s])
    /\ \A f \in sent[s] : FrameInv(s, f)
    /\ \A f, g \in sent[s] : f.box.pt = g.box.pt \/ f.box.key = g.box.key => f = g
    /\ \A i \in Nat : i < send[s].ck.i => SentKey(s, send[s].ck.gen, i)
    /\ \A f \in sent[s] : \A i \in Nat : i < f.box.key.i => SentKey(s, f.box.key.gen, i)

(* s has been at ck, so that all it sends from now on is sealed at ck or later. *)
ReachedBy(s, ck) ==
    /\ ck.own = s
    /\ ck.gen <= send[s].ck.gen
    /\ ck.gen = send[s].ck.gen => ck.i <= send[s].ck.i

(***************************************************************************)
(* One receiving chain c: its receiver w, the distribution messages D on   *)
(* their way to it, the generations G it was given, the position j it was  *)
(* installed at and the plaintexts O it has opened.                        *)
(***************************************************************************)
SkdmInv(c, w, D, G) ==
    /\ \A d \in D :
          /\ ReachedBy(c.from, d.ck)
          /\ d.ck.gen \in G
          /\ d.ck.gen # w.ck.gen
          /\ d.ck.gen # 0
          /\ d.index = IndexOf(d.ck.i)
          /\ d.sig_pk = [own |-> c.from, gen |-> d.ck.gen]
    /\ \A d, e \in D : d.ck.gen = e.ck.gen => d = e

StoreInv(c, w, j) ==
    /\ IsFiniteSet(w.skipped)
    /\ Cardinality(w.skipped) <= MaxSkip
    /\ \A e \in w.skipped :
          /\ e.mk.own = w.ck.own
          /\ e.mk.gen = w.ck.gen
          /\ e.mk.i < w.ck.i
          /\ j <= e.mk.i
          /\ e.index = IndexOf(e.mk.i)
          /\ SentKey(c.from, e.mk.gen, e.mk.i)
    /\ \A e, f \in w.skipped : e.mk = f.mk => e = f

RecvInv(c, w, G, j) ==
    /\ w.index = IndexOf(w.ck.i)
    /\ w.sig_pk.gen = w.ck.gen
    /\ w.ck.gen # 0 => w.sig_pk.own = c.from /\ w.ck.gen \in G
    /\ ReachedBy(c.from, w.ck)
    /\ j <= w.ck.i

OpenedInv(c, w, D, G, j, O) ==
    /\ \A m \in O : \E f \in sent[c.from] : f.box.pt = m
    /\ \A f \in sent[c.from] : f.box.pt \in O =>
          /\ f.box.key.gen \in G
          /\ \A d \in D : d.ck.gen # f.box.key.gen
          /\ ~Derivable(w, f.box.key)
    /\ \A f \in sent[c.from] :
          /\ f.box.key.gen = w.ck.gen
          /\ j <= f.box.key.i
          /\ f.box.key.i < w.ck.i
          => f.box.pt \in O \/ \E e \in w.skipped : e.mk = f.box.key

ChainInv(c, w, D, G, j, O) ==
    /\ SkdmInv(c, w, D, G)
    /\ RecvInv(c, w, G, j)
    /\ StoreInv(c, w, j)
    /\ OpenedInv(c, w, D, G, j, O)

IndInv ==
    /\ TypeOK
    /\ \A s \in Sender : SenderInv(s) /\ SentInv(s)
    /\ \A c \in Chain : ChainInv(c, recv[c], skdm[c], given[c], joined[c], opened[c])

(***************************************************************************)
(* The index of a chain is its position modulo IndexMod.                   *)
(***************************************************************************)
LEMMA DivMod ==
    ASSUME NEW M \in Nat \ {0}, NEW x \in Nat
    PROVE  /\ x \div M \in Nat
           /\ x = M * (x \div M) + (x % M)
           /\ x % M \in 0 .. (M - 1)
  OBVIOUS

LEMMA ModUnique ==
    ASSUME NEW M \in Nat \ {0}, NEW q \in Nat, NEW r \in 0 .. (M - 1)
    PROVE  (M * q + r) % M = r
  OBVIOUS

(* Below the wrap, k steps of the index are k steps of the position. *)
LEMMA ModAdd ==
    ASSUME NEW M \in Nat \ {0}, NEW x \in Nat, NEW k \in Nat, (x % M) + k < M
    PROVE  (x + k) % M = (x % M) + k
<1> DEFINE q == x \div M
           r == x % M
<1>1. q \in Nat /\ r \in 0 .. (M - 1) /\ x = M * q + r
  BY DivMod
<1> HIDE DEF q, r
<1>2. x + k = M * q + (r + k) /\ r + k \in 0 .. (M - 1)
  BY <1>1 DEF r
<1>3. (M * q + (r + k)) % M = r + k
  BY <1>1, <1>2, ModUnique
<1>4. QED
  BY <1>2, <1>3 DEF r

(* Succ is the step of the index, across the wrap too. *)
LEMMA ModSucc ==
    ASSUME NEW M \in Nat \ {0}, NEW x \in Nat
    PROVE  (x + 1) % M = ((x % M) + 1) % M
<1> DEFINE q == x \div M
           r == x % M
<1>1. q \in Nat /\ r \in 0 .. (M - 1) /\ x = M * q + r
  BY DivMod
<1> HIDE DEF q, r
<1>2. CASE r + 1 < M
  <2>1. (x + 1) % M = r + 1
    BY <1>1, <1>2, ModAdd DEF r
  <2>2. (r + 1) % M = r + 1
    BY <1>1, <1>2
  <2>3. QED
    BY <2>1, <2>2 DEF r
<1>3. CASE r + 1 = M
  <2>1. x + 1 = M * (q + 1) + 0
    BY <1>1, <1>3
  <2>2. (M * (q + 1) + 0) % M = 0
    BY <1>1, ModUnique
  <2>3. (r + 1) % M = 0
    BY <1>3
  <2>4. QED
    BY <2>1, <2>2, <2>3 DEF r
<1>4. QED
  BY <1>1, <1>2, <1>3

LEMMA SuccType ==
    ASSUME NEW i \in Nat
    PROVE  IndexOf(i) \in Index /\ Succ(IndexOf(i)) = IndexOf(i + 1)
  BY GroupAssumption, DivMod, ModSucc DEF Index, Succ, IndexOf

(***************************************************************************)
(* The chain keys and what the helpers of group_decrypt return.            *)
(***************************************************************************)
LEMMA AdvanceType ==
    ASSUME NEW ck \in ChainKey, NEW k \in Nat
    PROVE  Advance(ck, k) = [own |-> ck.own, gen |-> ck.gen, i |-> ck.i + k]
  BY DEF Advance, ChainKey

(* A chain key is its owner, generation and position. *)
LEMMA KeyIs ==
    ASSUME NEW ck \in ChainKey
    PROVE  /\ ck = [own |-> ck.own, gen |-> ck.gen, i |-> ck.i]
           /\ ck.own \in Sender /\ ck.gen \in Nat /\ ck.i \in Nat
  BY DEF ChainKey

LEMMA GapType ==
    ASSUME NEW w \in Receiver, NEW f, f.index \in Index, ~(f.index < w.index)
    PROVE  /\ Gap(w, f) \in Nat
           /\ f.index = w.index + Gap(w, f)
           /\ f.index < IndexMod
           /\ MsgKey(w, f) = [own |-> w.ck.own, gen |-> w.ck.gen, i |-> w.ck.i + Gap(w, f)]
<1>1. w.index \in Nat /\ f.index \in Nat /\ f.index < IndexMod /\ w.ck \in ChainKey
  BY GroupAssumption DEF Receiver, Index
<1>2. Gap(w, f) \in Nat /\ f.index = w.index + Gap(w, f)
  BY <1>1 DEF Gap
<1>3. QED
  BY <1>1, <1>2, AdvanceType DEF MsgKey

(* Every frame the network carries has a 32-bit index. *)
LEMMA NetworkIndex ==
    ASSUME IndInv, NEW f \in Network
    PROVE  f.index \in Index
<1>1. \A s \in Sender : sent[s] \subseteq Frame
  BY DEF IndInv, TypeOK
<1>2. \A g \in Genuine : g \in Frame
  BY <1>1 DEF Genuine
<1>3. CASE f \in Genuine
  BY <1>2, <1>3 DEF Frame
<1>4. ASSUME NEW g \in Genuine, f \in Tampered(g)
      PROVE  f.index \in Index
  <2>1. g.index \in Nat /\ Succ(g.index) \in Index /\ g \in Frame
    BY <1>2, GroupAssumption, DivMod DEF Frame, Index, Succ
  <2>2. QED
    BY <1>4, <2>1 DEF Tampered, Frame
<1>5. ASSUME NEW c \in Chain, f \in Insider(c)
      PROVE  f.index \in Index
  <2>1. recv[c] \in Receiver
    BY DEF IndInv, TypeOK
  <2>2. recv[c].index \in Index /\ \A e \in recv[c].skipped : e.index \in Index
    BY <2>1 DEF Receiver, Skipped
  <2>3. QED
    BY <1>5, <2>2 DEF Insider, Seal
<1>6. QED
  BY <1>3, <1>4, <1>5 DEF Network

(* What opens a frame is a key of the chain itself. *)
LEMMA OpensWithOwn ==
    ASSUME NEW c \in Chain, NEW w \in Receiver, NEW G, NEW j, NEW f, f.index \in Index,
           RecvInv(c, w, G, j), StoreInv(c, w, j), DecryptRc(w, f) = "ok"
    PROVE  /\ Verify(f, w.sig_pk)
           /\ f.box.key.own = c.from /\ f.box.key.gen = w.ck.gen
<1>1. w.ck.own = c.from
  BY DEF RecvInv, ReachedBy
<1>2. Verify(f, w.sig_pk)
  BY DEF DecryptRc
<1>3. CASE f.index < w.index
  <2>1. PICK e \in SkippedFind(w, f.index) : Opens(e.mk, f)
    BY <1>2, <1>3 DEF DecryptRc
  <2>2. e \in w.skipped
    BY DEF SkippedFind
  <2>3. QED
    BY <1>1, <1>2, <2>1, <2>2 DEF StoreInv, Opens
<1>4. CASE ~(f.index < w.index)
  <2>1. Opens(MsgKey(w, f), f)
    BY <1>2, <1>4 DEF DecryptRc
  <2>2. QED
    BY <1>1, <1>2, <1>4, <2>1, GapType DEF Opens
<1>5. QED
  BY <1>3, <1>4

(* Of all the network carries, only frames of the sender itself are opened:  *)
(* a tampered one does not verify, and what an insider of another chain      *)
(* signs is verified only by chains of that insider, whose keys it lacks.    *)
LEMMA OkIsGenuine ==
    ASSUME IndInv, NEW c \in Chain, NEW f \in Network,
           recv[c].sig_pk.gen # 0, DecryptRc(recv[c], f) = "ok"
    PROVE  f \in sent[c.from] /\ f.box.key.gen = recv[c].ck.gen
<1> DEFINE w == recv[c]
<1>1. /\ w \in Receiver
      /\ RecvInv(c, w, given[c], joined[c])
      /\ StoreInv(c, w, joined[c])
  BY DEF IndInv, TypeOK, ChainInv
<1>2. /\ Verify(f, w.sig_pk)
      /\ f.box.key.own = c.from /\ f.box.key.gen = w.ck.gen
  BY <1>1, NetworkIndex, OpensWithOwn
<1>3. w.sig_pk.own = c.from
  BY <1>1 DEF RecvInv
<1>4. \A s \in Sender : \A g \in sent[s] : g \in Frame /\ FrameInv(s, g)
  BY DEF IndInv, TypeOK, SentInv
<1>5. CASE f \in Genuine
  <2>1. PICK s \in Sender : f \in sent[s]
    BY <1>5 DEF Genuine
  <2>2. f.box.key.own = s
    BY <1>4, <2>1 DEF FrameInv
  <2>3. QED
    BY <1>2, <2>1, <2>2
<1>6. ASSUME NEW g \in Genuine, f \in Tampered(g)
      PROVE  f \in sent[c.from]
  <2>1. PICK s \in Sender : g \in sent[s]
    BY DEF Genuine
  <2>2. g \in Frame /\ FrameInv(s, g)
    BY <1>4, <2>1
  <2>3. f.sindex = f.index /\ f.sbox = f.box
    BY <1>2 DEF Verify
  <2>4. CASE f = [g EXCEPT !.index = Succ(g.index)]
    <3>1. f.index = g.index
      BY <2>2, <2>3, <2>4 DEF FrameInv, Frame
    <3>2. f = g
      BY <2>2, <2>4, <3>1 DEF Frame
    <3>3. QED
      BY <1>2, <2>1, <2>2, <3>2 DEF FrameInv
  <2>5. CASE f = [g EXCEPT !.box.pt = [from |-> g.box.key.own, id |-> 0]]
    <3>1. f.box.pt.id = 0 /\ f.sbox = g.sbox
      BY <2>2, <2>5 DEF Frame, Box
    <3>2. g.box.pt.id = 0
      BY <2>2, <2>3, <3>1 DEF FrameInv
    <3>3. QED
      BY <2>2, <3>2 DEF FrameInv
  <2>6. QED
    BY <1>6, <2>4, <2>5 DEF Tampered
<1>7. ASSUME NEW d \in Chain, d.to # d.from, recv[d].sig_pk.gen # 0, f \in Insider(d)
      PROVE  FALSE
  <2>1. /\ recv[d].ck.own = d.from
        /\ \A e \in recv[d].skipped : e.mk.own = d.from
    BY DEF IndInv, ChainInv, RecvInv, StoreInv, ReachedBy
  <2>2. f.by.own = d.to /\ f.box.key.own = d.from
    BY <1>7, <2>1 DEF Insider, Seal
  <2>3. QED
    BY <1>2, <1>3, <1>7, <2>2 DEF Verify
<1>8. QED
  BY <1>2, <1>5, <1>6, <1>7 DEF Network

(***************************************************************************)
(* One chain: what each operation on it keeps of ChainInv.                 *)
(***************************************************************************)
LEMMA ChainSource == \A c \in Chain : c.from \in Sender /\ c.to \in Member
  BY DEF Chain

(* A sender key is a well-typed distribution message of its own generation. *)
LEMMA DistributionFacts ==
    ASSUME NEW s \in Sender, send[s] \in SenderKey, SenderInv(s)
    PROVE  /\ Distribution(send[s]) \in Dist
           /\ Distribution(send[s]).ck = send[s].ck
           /\ Distribution(send[s]).index = IndexOf(send[s].ck.i)
           /\ Distribution(send[s]).sig_pk = [own |-> s, gen |-> send[s].ck.gen]
           /\ ReachedBy(s, send[s].ck)
  BY DEF SenderKey, SenderInv, Distribution, Dist, ReachedBy, ChainKey

(* Distribution hands out a generation the chain has not been given. *)
LEMMA DistributeKeeps ==
    ASSUME NEW c \in Chain, NEW w \in Receiver, NEW D \in SUBSET Dist, NEW G, NEW j, NEW O,
           ChainInv(c, w, D, G, j, O),
           send[c.from] \in SenderKey, SenderInv(c.from), send[c.from].ck.gen \notin G
    PROVE  ChainInv(c, w, D \cup {Distribution(send[c.from])},
                    G \cup {send[c.from].ck.gen}, j, O)
<1> DEFINE k == send[c.from].ck.gen
           n == Distribution(send[c.from])
           E == D \cup {n}
           H == G \cup {k}
<1>1. /\ n \in Dist /\ n.ck = send[c.from].ck /\ n.index = IndexOf(n.ck.i)
      /\ n.sig_pk = [own |-> c.from, gen |-> k] /\ ReachedBy(c.from, n.ck)
      /\ n.ck.gen = k /\ k # 0 /\ k \notin G
  BY ChainSource, DistributionFacts, GroupAssumption DEF SenderInv
<1> HIDE DEF n, k
<1>2. w.ck.gen # k
  BY <1>1 DEF ChainInv, RecvInv
<1>3. SkdmInv(c, w, E, H)
  <2>1. ASSUME NEW d \in E
        PROVE  /\ ReachedBy(c.from, d.ck) /\ d.ck.gen \in H /\ d.ck.gen # w.ck.gen
               /\ d.ck.gen # 0 /\ d.index = IndexOf(d.ck.i)
               /\ d.sig_pk = [own |-> c.from, gen |-> d.ck.gen]
    <3>1. CASE d \in D
      BY <3>1 DEF ChainInv, SkdmInv
    <3>2. CASE d = n
      BY <1>1, <1>2, <3>2
    <3>3. QED
      BY <3>1, <3>2
  <2>2. \A d, e \in E : d.ck.gen = e.ck.gen => d = e
    <3>1. \A d \in D : d.ck.gen # k
      BY <1>1 DEF ChainInv, SkdmInv
    <3>2. \A d, e \in D : d.ck.gen = e.ck.gen => d = e
      BY DEF ChainInv, SkdmInv
    <3>3. QED
      BY <1>1, <3>1, <3>2
  <2>3. QED
    BY <2>1, <2>2 DEF SkdmInv
<1>4. RecvInv(c, w, H, j) /\ StoreInv(c, w, j)
  BY DEF ChainInv, RecvInv
<1>5. OpenedInv(c, w, E, H, j, O)
  <2>1. ASSUME NEW f \in sent[c.from], f.box.pt \in O
        PROVE  /\ f.box.key.gen \in H
               /\ \A d \in E : d.ck.gen # f.box.key.gen
               /\ ~Derivable(w, f.box.key)
    BY <1>1, <2>1 DEF ChainInv, OpenedInv
  <2>2. QED
    BY <2>1 DEF ChainInv, OpenedInv
<1>6. QED
  BY <1>3, <1>4, <1>5 DEF ChainInv, n, k

(* group_receiver_init starts an empty store at the position of the SKDM,   *)
(* in a generation of which nothing has been opened.                        *)
LEMMA InstallKeeps ==
    ASSUME NEW c \in Chain, NEW w \in Receiver, NEW D \in SUBSET Dist, NEW G, NEW j, NEW O,
           ChainInv(c, w, D, G, j, O), sent[c.from] \in SUBSET Frame, NEW d \in D
    PROVE  /\ ReceiverInit(d) \in Receiver
           /\ ChainInv(c, ReceiverInit(d), D \ {d}, G, d.ck.i, O)
<1> DEFINE v == ReceiverInit(d)
<1>1. /\ v.ck = d.ck /\ v.index = d.index /\ v.sig_pk = d.sig_pk /\ v.skipped = {}
      /\ d.ck.i \in Nat
      /\ v \in Receiver
  BY DEF ReceiverInit, Dist, Receiver, ChainKey
<1> HIDE DEF v
<1>2. /\ ReachedBy(c.from, d.ck) /\ d.ck.gen \in G
      /\ d.index = IndexOf(d.ck.i)
      /\ d.sig_pk = [own |-> c.from, gen |-> d.ck.gen]
  BY DEF ChainInv, SkdmInv
<1>3. SkdmInv(c, v, D \ {d}, G)
  BY <1>1 DEF ChainInv, SkdmInv
<1>4. RecvInv(c, v, G, d.ck.i)
  BY <1>1, <1>2 DEF RecvInv
<1>5. StoreInv(c, v, d.ck.i)
  BY <1>1, FS_EmptySet, GroupAssumption DEF StoreInv
<1>6. OpenedInv(c, v, D \ {d}, G, d.ck.i, O)
  <2>1. ASSUME NEW f \in sent[c.from], f.box.pt \in O
        PROVE  ~Derivable(v, f.box.key)
    BY <1>1, <2>1 DEF ChainInv, OpenedInv, Derivable
  <2>2. ASSUME NEW f \in sent[c.from]
        PROVE  ~(d.ck.i <= f.box.key.i /\ f.box.key.i < d.ck.i)
    <3>1. f.box.key.i \in Nat
      BY DEF Frame, Box, ChainKey
    <3>2. QED
      BY <1>1, <3>1
  <2>3. QED
    BY <1>1, <2>1, <2>2 DEF ChainInv, OpenedInv
<1>7. QED
  BY <1>1, <1>3, <1>4, <1>5, <1>6 DEF ChainInv, v

(* The keys stashed on the way to a frame: the gap's positions, once each. *)
LEMMA StashFacts ==
    ASSUME NEW w \in Receiver, w.index = IndexOf(w.ck.i),
           NEW f, f.index \in Index, ~(f.index < w.index)
    PROVE  /\ Stash(w, f) \in SUBSET Skipped
           /\ \A e \in Stash(w, f) :
                 /\ e.mk.own = w.ck.own /\ e.mk.gen = w.ck.gen
                 /\ w.ck.i <= e.mk.i /\ e.mk.i < w.ck.i + Gap(w, f)
                 /\ e.index = IndexOf(e.mk.i)
           /\ \A i \in Nat : w.ck.i <= i /\ i < w.ck.i + Gap(w, f) =>
                 \E e \in Stash(w, f) :
                     e.mk = [own |-> w.ck.own, gen |-> w.ck.gen, i |-> i]
           /\ \A e, g \in Stash(w, f) : e.mk = g.mk => e = g
           /\ IsFiniteSet(Stash(w, f))
           /\ Cardinality(Stash(w, f)) <= Gap(w, f)
<1> DEFINE K == 0 .. (Gap(w, f) - 1)
           Entry(k) == [index |-> w.index + k, mk |-> Advance(w.ck, k)]
<1>1. /\ w.ck \in ChainKey /\ w.ck.i \in Nat /\ w.index \in Nat
      /\ Gap(w, f) \in Nat /\ f.index = w.index + Gap(w, f) /\ f.index < IndexMod
      /\ IndexMod \in Nat \ {0}
  BY GapType, GroupAssumption DEF Receiver, Index, ChainKey
<1>2. Stash(w, f) = {Entry(k) : k \in K}
  BY DEF Stash
<1>3. ASSUME NEW k \in K
      PROVE  /\ k \in Nat /\ k < Gap(w, f)
             /\ Entry(k).mk = [own |-> w.ck.own, gen |-> w.ck.gen, i |-> w.ck.i + k]
             /\ Entry(k).mk.i = w.ck.i + k
             /\ Entry(k).index = IndexOf(w.ck.i + k)
             /\ Entry(k) \in Skipped
  <2>1. k \in Nat /\ k < Gap(w, f)
    BY <1>1
  <2>2. Entry(k).mk = [own |-> w.ck.own, gen |-> w.ck.gen, i |-> w.ck.i + k]
    BY <1>1, <2>1, AdvanceType
  <2>3. IndexOf(w.ck.i + k) = w.index + k
    BY <1>1, <2>1, ModAdd DEF IndexOf
  <2>4. Entry(k).index \in Index
    BY <1>1, <2>1 DEF Index
  <2>5. Entry(k).mk \in ChainKey
    BY <1>1, <2>1, <2>2 DEF ChainKey
  <2>6. QED
    BY <2>1, <2>2, <2>3, <2>4, <2>5 DEF Skipped
<1>4. IsFiniteSet(K) /\ Cardinality(K) = Gap(w, f)
  <2> DEFINE n == Gap(w, f) - 1
  <2>1. n \in Int /\ K = 0 .. n
    BY <1>1
  <2> HIDE DEF n, K
  <2>2. IsFiniteSet(K) /\ Cardinality(K) = IF 0 > n THEN 0 ELSE n - 0 + 1
    BY <2>1, FS_Interval
  <2>3. QED
    BY <1>1, <2>1, <2>2 DEF n
<1>5. \A i \in Nat : w.ck.i <= i /\ i < w.ck.i + Gap(w, f) => i - w.ck.i \in K /\ i = w.ck.i + (i - w.ck.i)
  BY <1>1
<1> HIDE DEF K, Entry
<1>6. IsFiniteSet(Stash(w, f)) /\ Cardinality(Stash(w, f)) <= Cardinality(K)
  <2> DEFINE g == [k \in K |-> Entry(k)]
  <2>1. g \in Surjection(K, Stash(w, f))
    BY <1>2 DEF Surjection
  <2> HIDE DEF g
  <2>2. QED
    BY <1>4, <2>1, FS_Surjection
<1>7. ASSUME NEW k \in K, NEW l \in K, Entry(k).mk = Entry(l).mk
      PROVE  k = l
  <2>1. w.ck.i + k = w.ck.i + l /\ k \in Nat /\ l \in Nat
    BY <1>3, <1>7
  <2>2. QED
    BY <1>1, <2>1
<1>8. \A i \in Nat : w.ck.i <= i /\ i < w.ck.i + Gap(w, f) =>
         \E e \in Stash(w, f) : e.mk = [own |-> w.ck.own, gen |-> w.ck.gen, i |-> i]
  <2>1. TAKE i \in Nat
  <2>2. HAVE w.ck.i <= i /\ i < w.ck.i + Gap(w, f)
  <2>3. Entry(i - w.ck.i) \in Stash(w, f)
    BY <1>2, <1>5, <2>2
  <2>4. Entry(i - w.ck.i).mk = [own |-> w.ck.own, gen |-> w.ck.gen, i |-> i]
    BY <1>3, <1>5, <2>2
  <2>5. QED
    BY <2>3, <2>4
<1>9. ASSUME NEW e \in Stash(w, f)
      PROVE  /\ e \in Skipped
             /\ e.mk.own = w.ck.own /\ e.mk.gen = w.ck.gen
             /\ w.ck.i <= e.mk.i /\ e.mk.i < w.ck.i + Gap(w, f)
             /\ e.index = IndexOf(e.mk.i)
  <2>1. PICK k \in K : e = Entry(k)
    BY <1>2
  <2>2. /\ e.mk = [own |-> w.ck.own, gen |-> w.ck.gen, i |-> w.ck.i + k]
        /\ e.mk.i = w.ck.i + k /\ e.index = IndexOf(w.ck.i + k)
        /\ e \in Skipped /\ k \in Nat /\ k < Gap(w, f)
    BY <1>3, <2>1, Zenon
  <2>3. QED
    BY <1>1, <2>2
<1>10. QED
  BY <1>2, <1>4, <1>6, <1>7, <1>8, <1>9

(* A frame whose key is in the store: the entry found is the only one taken, *)
(* and the frame had not been opened.                                        *)
LEMMA OpenStored ==
    ASSUME NEW c \in Chain, NEW w \in Receiver, NEW D, NEW G, NEW j, NEW O,
           ChainInv(c, w, D, G, j, O), sent[c.from] \in SUBSET Frame, SentInv(c.from),
           NEW f \in sent[c.from], w.ck.gen # 0,
           f.index < w.index, DecryptRc(w, f) = "ok"
    PROVE  /\ f.box.pt \notin O
           /\ DecryptState(w, f) \in Receiver
           /\ ChainInv(c, DecryptState(w, f), D, G, j, O \cup {f.box.pt})
<1> DEFINE S == SkippedFind(w, f.index)
           v == DecryptState(w, f)
           P == O \cup {f.box.pt}
<1>1. PICK e \in S : f.box.key = e.mk
  BY DEF DecryptRc, Opens
<1>2. /\ e \in w.skipped /\ S \subseteq w.skipped
      /\ \A x \in S : x.index = e.index /\ x.mk.i <= e.mk.i /\ e.mk.i <= x.mk.i
  BY DEF SkippedFind
<1>3. \A x \in w.skipped : x.mk \in ChainKey /\ x.mk.own = w.ck.own /\ x.mk.gen = w.ck.gen
  BY DEF ChainInv, StoreInv, Receiver, Skipped
<1>4. ASSUME NEW x \in S
      PROVE  x = e
  <2>1. x.mk.i = e.mk.i
    BY <1>2, <1>3, KeyIs
  <2>2. x.mk = e.mk
    BY <1>2, <1>3, <2>1, KeyIs
  <2>3. QED
    BY <1>2, <2>2 DEF ChainInv, StoreInv
<1>5. /\ v \in Receiver
      /\ v.ck = w.ck /\ v.index = w.index /\ v.sig_pk = w.sig_pk
      /\ v.skipped = w.skipped \ {e}
  <2>1. S = {e}
    BY <1>1, <1>4
  <2>2. v = [w EXCEPT !.skipped = w.skipped \ {e}]
    BY <2>1 DEF DecryptState
  <2>3. QED
    BY <2>2 DEF Receiver
<1> HIDE DEF v, S
<1>6. /\ e.mk.gen = w.ck.gen /\ e.mk.i < w.ck.i /\ w.ck.i \in Nat /\ e.mk.i \in Nat
  BY <1>2, <1>3, KeyIs DEF ChainInv, StoreInv, Receiver
<1>7. f.box.pt \notin O
  BY <1>1, <1>2 DEF ChainInv, OpenedInv, Derivable
<1>8. SkdmInv(c, v, D, G) /\ RecvInv(c, v, G, j)
  BY <1>5 DEF ChainInv, SkdmInv, RecvInv
<1>9. StoreInv(c, v, j)
  <2>1. IsFiniteSet(v.skipped) /\ Cardinality(v.skipped) <= MaxSkip
    <3>1. IsFiniteSet(w.skipped) /\ Cardinality(w.skipped) <= MaxSkip
      BY DEF ChainInv, StoreInv
    <3>2. /\ IsFiniteSet(v.skipped) /\ Cardinality(v.skipped) = Cardinality(w.skipped) - 1
          /\ Cardinality(w.skipped) \in Nat
      BY <1>2, <1>5, <3>1, FS_RemoveElement, FS_CardinalityType
    <3>3. QED
      BY <3>1, <3>2, GroupAssumption
  <2>2. QED
    BY <1>5, <2>1 DEF ChainInv, StoreInv
<1>10. OpenedInv(c, v, D, G, j, P)
  <2>1. \A m \in P : \E g \in sent[c.from] : g.box.pt = m
    BY DEF ChainInv, OpenedInv
  <2>2. ASSUME NEW g \in sent[c.from], g.box.pt \in P
        PROVE  /\ g.box.key.gen \in G
               /\ \A d \in D : d.ck.gen # g.box.key.gen
               /\ ~Derivable(v, g.box.key)
    <3>1. CASE g.box.pt \in O
      BY <1>5, <3>1 DEF ChainInv, OpenedInv, Derivable
    <3>2. CASE g.box.pt = f.box.pt
      <4>1. g.box.key = e.mk
        BY <1>1, <3>2 DEF SentInv
      <4>2. e.mk.gen \in G /\ \A d \in D : d.ck.gen # e.mk.gen
        BY <1>6 DEF ChainInv, RecvInv, SkdmInv
      <4>3. \A x \in v.skipped : x.mk # e.mk
        BY <1>2, <1>5 DEF ChainInv, StoreInv
      <4>4. QED
        BY <1>5, <1>6, <4>1, <4>2, <4>3 DEF Derivable
    <3>3. QED
      BY <2>2, <3>1, <3>2
  <2>3. ASSUME NEW g \in sent[c.from], g.box.key.gen = v.ck.gen,
               j <= g.box.key.i, g.box.key.i < v.ck.i
        PROVE  g.box.pt \in P \/ \E x \in v.skipped : x.mk = g.box.key
    <3>1. g.box.pt \in O \/ \E x \in w.skipped : x.mk = g.box.key
      BY <1>5, <2>3 DEF ChainInv, OpenedInv
    <3>2. e.mk = g.box.key => g.box.pt = f.box.pt
      BY <1>1 DEF SentInv
    <3>3. QED
      BY <1>5, <3>1, <3>2
  <2>4. QED
    BY <2>1, <2>2, <2>3 DEF OpenedInv
<1>11. QED
  BY <1>5, <1>7, <1>8, <1>9, <1>10 DEF ChainInv, v

(* The state after a frame at or past the chain's position. *)
LEMMA ForwardFacts ==
    ASSUME NEW w \in Receiver, w.index = IndexOf(w.ck.i), IsFiniteSet(w.skipped),
           NEW f \in Frame, f.index = IndexOf(f.box.key.i), f.box.index = f.index,
           ~(f.index < w.index), DecryptRc(w, f) = "ok"
    PROVE  /\ Cardinality(w.skipped) + Gap(w, f) <= MaxSkip
           /\ f.box.key = [own |-> w.ck.own, gen |-> w.ck.gen, i |-> w.ck.i + Gap(w, f)]
           /\ f.box.key.i = w.ck.i + Gap(w, f)
           /\ DecryptState(w, f) \in Receiver
           /\ DecryptState(w, f).ck =
                 [own |-> w.ck.own, gen |-> w.ck.gen, i |-> f.box.key.i + 1]
           /\ DecryptState(w, f).index = IndexOf(f.box.key.i + 1)
           /\ DecryptState(w, f).sig_pk = w.sig_pk
           /\ DecryptState(w, f).skipped = w.skipped \cup Stash(w, f)
<1> DEFINE v == DecryptState(w, f)
           key == f.box.key
<1>1. /\ f.index \in Index /\ key \in ChainKey /\ key.i \in Nat
      /\ w.ck \in ChainKey /\ w.ck.own \in Sender /\ w.ck.gen \in Nat /\ w.ck.i \in Nat
  BY DEF Frame, Box, Receiver, ChainKey
<1>2. /\ Gap(w, f) \in Nat
      /\ MsgKey(w, f) = [own |-> w.ck.own, gen |-> w.ck.gen, i |-> w.ck.i + Gap(w, f)]
  BY <1>1, GapType
<1>3. Opens(MsgKey(w, f), f) /\ ~TooFar(w, f)
  BY DEF DecryptRc
<1>4. key = MsgKey(w, f) /\ key.i = w.ck.i + Gap(w, f)
  BY <1>2, <1>3 DEF Opens
<1>5. Advance(MsgKey(w, f), 1) = [own |-> w.ck.own, gen |-> w.ck.gen, i |-> key.i + 1]
  BY <1>1, <1>2, <1>4, AdvanceType
<1>6. Advance(MsgKey(w, f), 1) \in ChainKey
  BY <1>1, <1>5 DEF ChainKey
<1>7. Succ(f.index) = IndexOf(key.i + 1) /\ Succ(f.index) \in Index
  BY <1>1, SuccType
<1>8. v = [w EXCEPT !.skipped = w.skipped \cup Stash(w, f),
                    !.ck = Advance(MsgKey(w, f), 1), !.index = Succ(f.index)]
  BY DEF DecryptState
<1>9. w.skipped \cup Stash(w, f) \in SUBSET Skipped
  BY <1>1, StashFacts DEF Receiver
<1>10. /\ v \in Receiver
       /\ v.ck = Advance(MsgKey(w, f), 1)
       /\ v.index = Succ(f.index)
       /\ v.sig_pk = w.sig_pk
       /\ v.skipped = w.skipped \cup Stash(w, f)
  BY <1>6, <1>7, <1>8, <1>9 DEF Receiver
<1>11. Cardinality(w.skipped) + Gap(w, f) <= MaxSkip
  <2>1. ~(Cardinality(w.skipped) + Gap(w, f) > MaxSkip)
    BY <1>3 DEF TooFar
  <2>2. Cardinality(w.skipped) \in Nat
    BY FS_CardinalityType
  <2>3. QED
    BY <1>2, <2>1, <2>2, GroupAssumption
<1> HIDE DEF v, key
<1>12. QED
  BY <1>2, <1>4, <1>5, <1>7, <1>10, <1>11 DEF v, key

(* A frame at or past the chain's position: it had not been opened, and     *)
(* every frame between the two positions has its key stashed.               *)
LEMMA OpenForward ==
    ASSUME NEW c \in Chain, NEW w \in Receiver, NEW D, NEW G, NEW j \in Nat, NEW O,
           ChainInv(c, w, D, G, j, O), sent[c.from] \in SUBSET Frame, SentInv(c.from),
           send[c.from] \in SenderKey, NEW f \in sent[c.from], w.ck.gen # 0,
           ~(f.index < w.index), DecryptRc(w, f) = "ok"
    PROVE  /\ f.box.pt \notin O
           /\ DecryptState(w, f) \in Receiver
           /\ ChainInv(c, DecryptState(w, f), D, G, j, O \cup {f.box.pt})
<1> DEFINE v == DecryptState(w, f)
           P == O \cup {f.box.pt}
           n == w.ck.i + Gap(w, f)
<1>1. /\ f \in Frame /\ FrameInv(c.from, f)
      /\ f.box.key \in ChainKey /\ f.index \in Index
      /\ w.ck.i \in Nat
  BY DEF SentInv, Frame, Box, Receiver, ChainKey
<1>2. /\ RecvInv(c, w, G, j) /\ StoreInv(c, w, j) /\ SkdmInv(c, w, D, G)
      /\ OpenedInv(c, w, D, G, j, O)
  BY DEF ChainInv
<1>3. /\ w.index = IndexOf(w.ck.i) /\ w.ck.own = c.from /\ j <= w.ck.i
      /\ IsFiniteSet(w.skipped)
  BY <1>2 DEF RecvInv, ReachedBy, StoreInv
<1>4. /\ Gap(w, f) \in Nat
      /\ Cardinality(w.skipped) + Gap(w, f) <= MaxSkip
      /\ f.box.key = [own |-> c.from, gen |-> w.ck.gen, i |-> n]
      /\ f.box.key.i = n
      /\ v \in Receiver
      /\ v.ck = [own |-> c.from, gen |-> w.ck.gen, i |-> n + 1]
      /\ v.index = IndexOf(n + 1)
      /\ v.sig_pk = w.sig_pk
      /\ v.skipped = w.skipped \cup Stash(w, f)
  <2>1. f.index = IndexOf(f.box.key.i) /\ f.box.index = f.index /\ f.index \in Index
    BY <1>1 DEF FrameInv
  <2>2. Gap(w, f) \in Nat
    BY <2>1, GapType
  <2>3. /\ Cardinality(w.skipped) + Gap(w, f) <= MaxSkip
        /\ f.box.key = [own |-> w.ck.own, gen |-> w.ck.gen, i |-> n]
        /\ f.box.key.i = n
        /\ v \in Receiver
        /\ v.ck = [own |-> w.ck.own, gen |-> w.ck.gen, i |-> f.box.key.i + 1]
        /\ v.index = IndexOf(f.box.key.i + 1)
        /\ v.sig_pk = w.sig_pk
        /\ v.skipped = w.skipped \cup Stash(w, f)
    BY <1>1, <1>3, <2>1, ForwardFacts, Zenon
  <2> HIDE DEF n, v
  <2>4. QED
    BY <1>3, <2>2, <2>3, Zenon
<1>5. n \in Nat /\ w.ck.i <= n /\ j <= n + 1
  BY <1>1, <1>3, <1>4
<1>6. /\ v.ck.own = c.from /\ v.ck.gen = w.ck.gen /\ v.ck.i = n + 1
      /\ f.box.key.own = c.from /\ f.box.key.gen = w.ck.gen
  BY <1>4
<1>7. /\ \A e \in Stash(w, f) :
            /\ e.mk.own = c.from /\ e.mk.gen = w.ck.gen
            /\ w.ck.i <= e.mk.i /\ e.mk.i < n
            /\ e.mk.i \in Nat
            /\ e.index = IndexOf(e.mk.i)
      /\ \A i \in Nat : w.ck.i <= i /\ i < n =>
            \E e \in Stash(w, f) : e.mk = [own |-> c.from, gen |-> w.ck.gen, i |-> i]
      /\ \A e, g \in Stash(w, f) : e.mk = g.mk => e = g
      /\ IsFiniteSet(Stash(w, f))
      /\ Cardinality(Stash(w, f)) <= Gap(w, f)
  BY <1>1, <1>3, StashFacts DEF Skipped, ChainKey
<1>8. \A g \in sent[c.from] : /\ g.box.key \in ChainKey /\ g.box.key.own = c.from
                              /\ g.box.key.i \in Nat
  BY DEF Frame, Box, ChainKey, SentInv, FrameInv
<1>9. \A e \in w.skipped : /\ e.mk.own = c.from /\ e.mk.gen = w.ck.gen
                           /\ e.mk.i < w.ck.i /\ e.mk.i \in Nat /\ j <= e.mk.i
                           /\ e.index = IndexOf(e.mk.i)
                           /\ SentKey(c.from, e.mk.gen, e.mk.i)
  BY <1>2, <1>3 DEF StoreInv, Receiver, Skipped, ChainKey
<1> HIDE DEF v, n
<1>10. ASSUME NEW g \in sent[c.from], g.box.pt \in O, g.box.key.gen = w.ck.gen
       PROVE  g.box.key.i < w.ck.i /\ \A e \in w.skipped : e.mk # g.box.key
  <2>1. ~Derivable(w, g.box.key)
    BY <1>2, <1>10 DEF OpenedInv
  <2>2. g.box.key.i \in Nat /\ g.box.key.own = c.from
    BY <1>8
  <2>3. QED
    BY <1>1, <1>3, <1>10, <2>1, <2>2 DEF Derivable
<1>11. f.box.pt \notin O
  BY <1>1, <1>4, <1>5, <1>6, <1>10
<1>12. SkdmInv(c, v, D, G)
  BY <1>2, <1>6 DEF SkdmInv
<1>13. RecvInv(c, v, G, j)
  <2>1. ReachedBy(c.from, v.ck)
    <3>1. w.ck.gen <= send[c.from].ck.gen
      BY <1>2 DEF RecvInv, ReachedBy
    <3>2. w.ck.gen = send[c.from].ck.gen => n < send[c.from].ck.i
      BY <1>1, <1>4, <1>6 DEF FrameInv
    <3>3. send[c.from].ck.i \in Nat
      BY DEF SenderKey, ChainKey
    <3>4. QED
      BY <1>5, <1>6, <3>1, <3>2, <3>3 DEF ReachedBy
  <2>2. QED
    BY <1>2, <1>4, <1>5, <1>6, <2>1 DEF RecvInv
<1>14. StoreInv(c, v, j)
  <2>1. IsFiniteSet(v.skipped) /\ Cardinality(v.skipped) <= MaxSkip
    <3>1. /\ IsFiniteSet(v.skipped)
          /\ Cardinality(v.skipped) = Cardinality(w.skipped) + Cardinality(Stash(w, f))
                                      - Cardinality(w.skipped \cap Stash(w, f))
      BY <1>3, <1>4, <1>7, FS_Union
    <3>2. /\ Cardinality(w.skipped) \in Nat /\ Cardinality(Stash(w, f)) \in Nat
          /\ Cardinality(w.skipped \cap Stash(w, f)) \in Nat
      BY <1>3, <1>7, FS_CardinalityType, FS_Intersection
    <3>3. /\ Gap(w, f) \in Nat /\ Cardinality(w.skipped) + Gap(w, f) <= MaxSkip
          /\ Cardinality(Stash(w, f)) <= Gap(w, f)
      BY <1>4, <1>7
    <3>4. QED
      BY <3>1, <3>2, <3>3, GroupAssumption
  <2>2. ASSUME NEW e \in v.skipped
        PROVE  /\ e.mk.own = v.ck.own /\ e.mk.gen = v.ck.gen
               /\ e.mk.i < v.ck.i /\ j <= e.mk.i
               /\ e.index = IndexOf(e.mk.i)
               /\ SentKey(c.from, e.mk.gen, e.mk.i)
    <3>1. CASE e \in w.skipped
      BY <1>1, <1>5, <1>6, <1>9, <3>1
    <3>2. CASE e \in Stash(w, f)
      <4>1. e.mk.i < f.box.key.i /\ e.mk.gen = f.box.key.gen /\ e.mk.i \in Nat
        BY <1>4, <1>6, <1>7, <3>2
      <4>2. SentKey(c.from, e.mk.gen, e.mk.i)
        BY <4>1 DEF SentInv
      <4>3. e.mk.i < v.ck.i /\ j <= e.mk.i
        BY <1>1, <1>3, <1>5, <1>6, <1>7, <3>2
      <4>4. QED
        BY <1>6, <1>7, <3>2, <4>2, <4>3
    <3>3. QED
      BY <1>4, <3>1, <3>2
  <2>3. ASSUME NEW e \in v.skipped, NEW g \in v.skipped, e.mk = g.mk
        PROVE  e = g
    <3>1. CASE e \in w.skipped /\ g \in w.skipped
      BY <1>2, <2>3, <3>1 DEF StoreInv
    <3>2. CASE e \in Stash(w, f) /\ g \in Stash(w, f)
      BY <1>7, <2>3, <3>2
    <3>3. \A x \in w.skipped : \A y \in Stash(w, f) : x.mk # y.mk
      BY <1>1, <1>7, <1>9
    <3>4. QED
      BY <1>4, <2>3, <3>1, <3>2, <3>3
  <2>4. QED
    BY <2>1, <2>2, <2>3 DEF StoreInv
<1>15. OpenedInv(c, v, D, G, j, P)
  <2>1. \A m \in P : \E g \in sent[c.from] : g.box.pt = m
    BY <1>2 DEF OpenedInv
  <2>2. ASSUME NEW g \in sent[c.from], g.box.pt \in P
        PROVE  /\ g.box.key.gen \in G
               /\ \A d \in D : d.ck.gen # g.box.key.gen
               /\ ~Derivable(v, g.box.key)
    <3>1. CASE g.box.pt \in O
      <4>1. g.box.key.gen \in G /\ \A d \in D : d.ck.gen # g.box.key.gen
        BY <1>2, <3>1 DEF OpenedInv
      <4>2. CASE g.box.key.gen = w.ck.gen
        <5>1. g.box.key.i < w.ck.i /\ \A e \in w.skipped : e.mk # g.box.key
          BY <1>10, <3>1, <4>2
        <5>2. \A e \in Stash(w, f) : e.mk # g.box.key
          BY <1>1, <1>7, <1>8, <5>1
        <5>3. g.box.key.i \in Nat
          BY <1>8
        <5>3a. ~(v.ck.i <= g.box.key.i)
          BY <1>1, <1>5, <1>6, <5>1, <5>3
        <5>4. QED
          BY <1>4, <4>1, <5>1, <5>2, <5>3a DEF Derivable
      <4>3. CASE g.box.key.gen # w.ck.gen
        BY <1>4, <1>6, <1>7, <1>9, <4>1, <4>3 DEF Derivable
      <4>4. QED
        BY <4>2, <4>3
    <3>2. CASE g.box.pt = f.box.pt
      <4>1. g.box.key = f.box.key
        BY <3>2 DEF SentInv
      <4>2. w.ck.gen \in G /\ \A d \in D : d.ck.gen # w.ck.gen
        BY <1>2 DEF RecvInv, SkdmInv
      <4>3. \A e \in v.skipped : e.mk.i # n
        BY <1>1, <1>4, <1>5, <1>7, <1>9
      <4>4. ~Derivable(v, f.box.key)
        BY <1>4, <1>5, <1>6, <4>3 DEF Derivable
      <4>5. QED
        BY <1>6, <4>1, <4>2, <4>4
    <3>3. QED
      BY <2>2, <3>1, <3>2
  <2>3. ASSUME NEW g \in sent[c.from], g.box.key.gen = v.ck.gen,
               j <= g.box.key.i, g.box.key.i < v.ck.i
        PROVE  g.box.pt \in P \/ \E x \in v.skipped : x.mk = g.box.key
    <3>1. CASE g.box.key.i < w.ck.i
      BY <1>2, <1>4, <1>6, <2>3, <3>1 DEF OpenedInv
    <3>2. CASE w.ck.i <= g.box.key.i /\ g.box.key.i < n
      <4>1. g.box.key = [own |-> c.from, gen |-> w.ck.gen, i |-> g.box.key.i]
        BY <1>6, <1>8, <2>3, KeyIs
      <4>2. \E e \in Stash(w, f) : e.mk = g.box.key
        BY <1>7, <1>8, <3>2, <4>1
      <4>3. QED
        BY <1>4, <4>2
    <3>3. CASE g.box.key.i = n
      <4>1. g.box.key = f.box.key
        BY <1>4, <1>6, <1>8, <2>3, <3>3, KeyIs
      <4>2. QED
        BY <4>1 DEF SentInv
    <3>4. g.box.key.i \in Nat /\ g.box.key.i < n + 1
      BY <1>6, <1>8, <2>3
    <3>5. QED
      BY <1>1, <1>5, <3>1, <3>2, <3>3, <3>4
  <2>4. QED
    BY <2>1, <2>2, <2>3 DEF OpenedInv
<1>16. QED
  BY <1>4, <1>11, <1>12, <1>13, <1>14, <1>15 DEF ChainInv, v

(***************************************************************************)
(* The senders, and what their steps keep of the chains.                   *)
(***************************************************************************)
(* A step of the sender that leaves every position it has been at behind    *)
(* it, and adds only frames the chain has not passed, keeps the chain.      *)
LEMMA ChainKept ==
    ASSUME NEW c \in Chain, NEW w \in Receiver, NEW D \in SUBSET Dist, NEW G, NEW j, NEW O,
           ChainInv(c, w, D, G, j, O),
           \A ck \in ChainKey : ReachedBy(c.from, ck) => ReachedBy(c.from, ck)',
           sent[c.from] \subseteq sent'[c.from],
           \A f \in sent'[c.from] \ sent[c.from] :
               f.box.pt \notin O /\ ~(f.box.key.gen = w.ck.gen /\ f.box.key.i < w.ck.i)
    PROVE  ChainInv(c, w, D, G, j, O)'
<1>1. \A gen, i : SentKey(c.from, gen, i) => SentKey(c.from, gen, i)'
  BY DEF SentKey
<1>2. w.ck \in ChainKey /\ \A d \in D : d.ck \in ChainKey
  BY DEF Receiver, Dist
<1>3. SkdmInv(c, w, D, G)'
  BY <1>2 DEF ChainInv, SkdmInv
<1>4. RecvInv(c, w, G, j)'
  BY <1>2 DEF ChainInv, RecvInv
<1>5. StoreInv(c, w, j)'
  BY <1>1 DEF ChainInv, StoreInv
<1>6. OpenedInv(c, w, D, G, j, O)'
  BY DEF ChainInv, OpenedInv, Derivable
<1>7. QED
  BY <1>3, <1>4, <1>5, <1>6 DEF ChainInv

(* The types of the state, and the two invariants of a sender. *)
LEMMA SenderFacts ==
    ASSUME IndInv, NEW s \in Sender
    PROVE  /\ send[s] \in SenderKey /\ sent[s] \in SUBSET Frame /\ nsent[s] \in 0 .. MaxSent
           /\ SenderInv(s) /\ SentInv(s)
  BY DEF IndInv, TypeOK

LEMMA ChainFacts ==
    ASSUME IndInv, NEW c \in Chain
    PROVE  /\ recv[c] \in Receiver /\ skdm[c] \in SUBSET Dist /\ joined[c] \in Nat
           /\ ChainInv(c, recv[c], skdm[c], given[c], joined[c], opened[c])
           /\ c.from \in Sender
  BY ChainSource DEF IndInv, TypeOK, Dist

(* What a step that leaves the chains alone has to show of the senders. *)
LEMMA SendersStep ==
    ASSUME IndInv, NEW s \in Sender,
           UNCHANGED <<recv, skdm, given, joined, opened, nopened>>,
           send' \in [Sender -> SenderKey], sent' \in [Sender -> SUBSET Frame],
           nsent' \in [Sender -> 0 .. MaxSent],
           \A t \in Sender \ {s} : send'[t] = send[t] /\ sent'[t] = sent[t] /\ nsent'[t] = nsent[t],
           SenderInv(s)', SentInv(s)',
           \A ck \in ChainKey : ReachedBy(s, ck) => ReachedBy(s, ck)',
           sent[s] \subseteq sent'[s],
           \A f \in sent'[s] \ sent[s] :
               f.box.pt.id > nsent[s] /\ f.box.key = send[s].ck
    PROVE  IndInv'
<1>1. ASSUME NEW t \in Sender
      PROVE  SenderInv(t)' /\ SentInv(t)'
  <2>1. CASE t = s
    BY <2>1
  <2>2. CASE t # s
    <3>1. send'[t] = send[t] /\ sent'[t] = sent[t] /\ nsent'[t] = nsent[t]
      BY <2>2
    <3>2. SenderInv(t) /\ SentInv(t)
      BY SenderFacts
    <3>3. \A f : FrameInv(t, f) => FrameInv(t, f)'
      BY <3>1 DEF FrameInv
    <3>4. \A gen, i : SentKey(t, gen, i) => SentKey(t, gen, i)'
      BY <3>1 DEF SentKey
    <3>5. QED
      BY <3>1, <3>2, <3>3, <3>4 DEF SenderInv, SentInv
  <2>3. QED
    BY <2>1, <2>2
<1>2. ASSUME NEW c \in Chain
      PROVE  ChainInv(c, recv[c], skdm[c], given[c], joined[c], opened[c])'
  <2> DEFINE w == recv[c]
             D == skdm[c]
             O == opened[c]
  <2>1. /\ w \in Receiver /\ D \in SUBSET Dist /\ c.from \in Sender
        /\ ChainInv(c, w, D, given[c], joined[c], O)
    BY ChainFacts
  <2>2. /\ \A ck \in ChainKey : ReachedBy(c.from, ck) => ReachedBy(c.from, ck)'
        /\ sent[c.from] \subseteq sent'[c.from]
    <3>1. CASE c.from = s
      BY <3>1
    <3>2. CASE c.from # s
      BY <2>1, <3>2 DEF ReachedBy
    <3>3. QED
      BY <3>1, <3>2
  <2>3. ASSUME NEW f \in sent'[c.from] \ sent[c.from]
        PROVE  f.box.pt \notin O /\ ~(f.box.key.gen = w.ck.gen /\ f.box.key.i < w.ck.i)
    <3>1. c.from = s
      BY <2>1, <2>3
    <3>2. f.box.pt.id > nsent[s] /\ f.box.key = send[s].ck
      BY <2>3, <3>1
    <3>3. ASSUME f.box.pt \in O
          PROVE  FALSE
      <4>1. PICK g \in sent[s] : g.box.pt = f.box.pt
        BY <2>1, <3>1, <3>3 DEF ChainInv, OpenedInv
      <4>2. g.box.pt.id \in 1 .. nsent[s] /\ nsent[s] \in Nat
        <5>1. nsent[s] \in 0 .. MaxSent /\ SentInv(s)
          BY SenderFacts
        <5>2. nsent[s] \in Nat
          BY <5>1, GroupAssumption
        <5>3. FrameInv(s, g)
          BY <4>1, <5>1 DEF SentInv
        <5>4. QED
          BY <5>2, <5>3 DEF FrameInv
      <4>3. QED
        BY <3>2, <4>1, <4>2
    <3>4. ReachedBy(s, w.ck)
      BY <2>1, <3>1 DEF ChainInv, RecvInv
    <3>5. send[s].ck.i \in Nat /\ w.ck.i \in Nat
      BY <2>1, SenderFacts DEF SenderKey, Receiver, ChainKey
    <3>6. QED
      BY <3>2, <3>3, <3>4, <3>5 DEF ReachedBy
  <2>4. /\ recv'[c] = w /\ skdm'[c] = D /\ given'[c] = given[c] /\ joined'[c] = joined[c]
        /\ opened'[c] = O
    OBVIOUS
  <2>5. SUFFICES ASSUME NEW x \in Receiver, NEW E \in SUBSET Dist, NEW G, NEW j, NEW P,
                        x = w, E = D, G = given[c], j = joined[c], P = O
                 PROVE  ChainInv(c, x, E, G, j, P)'
    BY <2>1, <2>4
  <2>6. QED
    BY <2>1, <2>2, <2>3, <2>5, ChainKept
<1>3. TypeOK'
  BY <1>2 DEF IndInv, TypeOK, PackOk, Pack, ChainInv, StoreInv
<1>4. QED
  BY <1>1, <1>2, <1>3 DEF IndInv

(* group_sender_init anew: a later generation, from position 0. *)
LEMMA RotateKeeps ==
    ASSUME IndInv, NEW s \in Sender, Rotate(s)
    PROVE  IndInv'
<1> DEFINE k == send[s]
           gen == k.ck.gen + 1
<1>1. /\ k \in SenderKey /\ sent[s] \in SUBSET Frame /\ SenderInv(s) /\ SentInv(s)
      /\ k.ck.gen \in Nat /\ gen \in 1 .. MaxGen /\ s \in Member
  BY SenderFacts, GroupAssumption DEF SenderKey, ChainKey, Rotate, SenderInv
<1>2. /\ send' = [send EXCEPT ![s] = SenderInit(s, gen)]
      /\ UNCHANGED <<recv, skdm, given, joined, sent, nsent, opened, nopened>>
  BY DEF Rotate
<1>3. IndexOf(0) = 0 /\ 0 \in Index
  BY GroupAssumption DEF IndexOf, Index
<1>4. /\ SenderInit(s, gen) \in SenderKey
      /\ SenderInit(s, gen).ck = [own |-> s, gen |-> gen, i |-> 0]
      /\ SenderInit(s, gen).sig = [own |-> s, gen |-> gen]
      /\ SenderInit(s, gen).index = 0
  BY <1>1, <1>3 DEF SenderInit, SenderKey, ChainKey, SigKey
<1>5. /\ send \in [Sender -> SenderKey] /\ sent \in [Sender -> SUBSET Frame]
      /\ nsent \in [Sender -> 0 .. MaxSent]
  BY DEF IndInv, TypeOK
<1>6. send' \in [Sender -> SenderKey] /\ send'[s] = SenderInit(s, gen)
  BY <1>2, <1>4, <1>5
<1> HIDE DEF gen
<1>7. send'[s].ck.gen = gen /\ send'[s].ck.i = 0 /\ k.ck.gen < gen
  BY <1>1, <1>4, <1>6 DEF gen
<1>8. SenderInv(s)'
  BY <1>1, <1>3, <1>4, <1>6 DEF SenderInv
<1>9. SentInv(s)'
  <2>1. \A f \in sent[s] : f.box.key.gen \in Nat /\ f.box.key.gen <= k.ck.gen
    BY <1>1 DEF Frame, Box, ChainKey, SentInv, FrameInv
  <2>2. \A f \in sent[s] : FrameInv(s, f)'
    BY <1>1, <1>2, <1>7, <2>1 DEF SentInv, FrameInv
  <2>3. \A i \in Nat : ~(i < send'[s].ck.i)
    BY <1>7
  <2>4. QED
    BY <1>1, <1>2, <2>2, <2>3 DEF SentInv, SentKey
<1>10. \A ck \in ChainKey : ReachedBy(s, ck) => ReachedBy(s, ck)'
  BY <1>1, <1>7 DEF ReachedBy, ChainKey
<1>11. QED
  BY <1>2, <1>5, <1>6, <1>8, <1>9, <1>10, SendersStep

(* What group_encrypt adds: the next plaintext under the sender's key. *)
LEMMA EncryptFacts ==
    ASSUME IndInv, NEW s \in Sender, Encrypt(s)
    PROVE  LET k == send[s]
               f == Seal(k.ck, k.index, NextPlain(s), k.sig)
           IN  /\ f \in Frame /\ f.box.key = k.ck /\ f.box.pt = NextPlain(s)
               /\ sent' = [sent EXCEPT ![s] = sent[s] \cup {f}]
               /\ nsent' = [nsent EXCEPT ![s] = nsent[s] + 1]
               /\ nsent[s] \in Nat /\ nsent[s] + 1 \in 0 .. MaxSent
               /\ send' = [send EXCEPT ![s] = Spend(k)]
               /\ Spend(k) \in SenderKey
               /\ Spend(k).ck = [own |-> s, gen |-> k.ck.gen, i |-> k.ck.i + 1]
               /\ Spend(k).index = IndexOf(k.ck.i + 1)
               /\ Spend(k).sig = k.sig
               /\ NextPlain(s).from = s /\ NextPlain(s).id = nsent[s] + 1
               /\ NextPlain(s) \in Plain
<1> DEFINE k == send[s]
           f == Seal(k.ck, k.index, NextPlain(s), k.sig)
<1>1. /\ k \in SenderKey /\ nsent[s] \in 0 .. MaxSent /\ SenderInv(s)
      /\ k.ck \in ChainKey /\ k.ck.i \in Nat /\ k.index \in Index /\ k.sig \in SigKey
  BY SenderFacts DEF SenderKey, ChainKey
<1>2. nsent[s] \in Nat /\ nsent[s] + 1 \in 0 .. MaxSent /\ nsent[s] + 1 \in 1 .. MaxSent
  BY <1>1, GroupAssumption DEF Encrypt
<1>3. NextPlain(s) \in Plain /\ NextPlain(s).from = s /\ NextPlain(s).id = nsent[s] + 1
  BY <1>2 DEF NextPlain, Plain
<1>4. f \in Frame /\ f.box.key = k.ck /\ f.box.pt = NextPlain(s)
  BY <1>1, <1>3 DEF Seal, Frame, Box
<1>5. /\ Advance(k.ck, 1) = [own |-> s, gen |-> k.ck.gen, i |-> k.ck.i + 1]
      /\ Advance(k.ck, 1) \in ChainKey
  BY <1>1, AdvanceType DEF SenderInv, ChainKey
<1>6. Succ(k.index) = IndexOf(k.ck.i + 1) /\ Succ(k.index) \in Index
  BY <1>1, SuccType DEF SenderInv
<1>7. Spend(k) = [k EXCEPT !.ck = Advance(k.ck, 1), !.index = Succ(k.index)]
  BY DEF Spend
<1>8. /\ Spend(k) \in SenderKey /\ Spend(k).ck = Advance(k.ck, 1)
      /\ Spend(k).index = Succ(k.index) /\ Spend(k).sig = k.sig
  BY <1>1, <1>5, <1>6, <1>7 DEF SenderKey
<1>9. /\ sent' = [sent EXCEPT ![s] = sent[s] \cup {f}]
      /\ nsent' = [nsent EXCEPT ![s] = nsent[s] + 1]
      /\ send' = [send EXCEPT ![s] = Spend(k)]
  BY DEF Encrypt
<1> HIDE DEF f
<1>10. QED
  BY <1>2, <1>3, <1>4, <1>5, <1>6, <1>8, <1>9 DEF f

(* group_encrypt commits the next position after the frame it produced. *)
LEMMA EncryptKeeps ==
    ASSUME IndInv, NEW s \in Sender, Encrypt(s)
    PROVE  IndInv'
<1> DEFINE k == send[s]
           S == sent[s]
<1>1. /\ k \in SenderKey /\ S \in SUBSET Frame /\ SenderInv(s) /\ SentInv(s)
      /\ k.ck \in ChainKey /\ k.ck.i \in Nat /\ k.ck.gen \in Nat /\ k.ck.own = s
  BY SenderFacts DEF SenderKey, ChainKey, SenderInv
<1>0. PICK f : f = Seal(k.ck, k.index, NextPlain(s), k.sig)
  OBVIOUS
<1>2. /\ f \in Frame /\ f.box.key = k.ck /\ f.box.pt = NextPlain(s)
      /\ sent' = [sent EXCEPT ![s] = S \cup {f}]
      /\ nsent' = [nsent EXCEPT ![s] = nsent[s] + 1]
      /\ nsent[s] \in Nat /\ nsent[s] + 1 \in 0 .. MaxSent
      /\ send' = [send EXCEPT ![s] = Spend(k)]
      /\ Spend(k) \in SenderKey
      /\ Spend(k).ck = [own |-> s, gen |-> k.ck.gen, i |-> k.ck.i + 1]
      /\ Spend(k).index = IndexOf(k.ck.i + 1)
      /\ Spend(k).sig = k.sig
      /\ NextPlain(s).from = s /\ NextPlain(s).id = nsent[s] + 1
  BY <1>0, EncryptFacts
<1>3. /\ f.index = k.index /\ f.box.index = k.index /\ f.sindex = k.index
      /\ f.sbox = f.box /\ f.by = k.sig
  BY <1>0 DEF Seal
<1>4. UNCHANGED <<recv, skdm, given, joined, opened, nopened>>
  BY DEF Encrypt
<1>5. /\ send \in [Sender -> SenderKey] /\ sent \in [Sender -> SUBSET Frame]
      /\ nsent \in [Sender -> 0 .. MaxSent]
  BY DEF IndInv, TypeOK
<1>6. /\ send' \in [Sender -> SenderKey] /\ sent' \in [Sender -> SUBSET Frame]
      /\ nsent' \in [Sender -> 0 .. MaxSent]
      /\ send'[s] = Spend(k) /\ sent'[s] = S \cup {f} /\ nsent'[s] = nsent[s] + 1
      /\ \A t \in Sender \ {s} :
            send'[t] = send[t] /\ sent'[t] = sent[t] /\ nsent'[t] = nsent[t]
  BY <1>1, <1>2, <1>5
<1>7. /\ send'[s].ck.gen = k.ck.gen /\ send'[s].ck.i = k.ck.i + 1
      /\ send'[s].ck.own = s /\ send'[s].sig = k.sig
      /\ send'[s].index = IndexOf(k.ck.i + 1)
  BY <1>2, <1>6
<1>8. SenderInv(s)'
  BY <1>1, <1>7 DEF SenderInv
<1>9. SentInv(s)'
  <2>1. \A g \in S : /\ FrameInv(s, g) /\ g.box.key.i \in Nat /\ g.box.key.gen \in Nat
                     /\ g.box.pt # f.box.pt /\ g.box.key # f.box.key
    <3>1. TAKE g \in S
    <3>2. FrameInv(s, g) /\ g.box.key.i \in Nat /\ g.box.key.gen \in Nat
      BY <1>1 DEF SentInv, Frame, Box, ChainKey
    <3>3. g.box.pt.id <= nsent[s] /\ g.box.pt.id \in Nat
      BY <1>2, <3>2 DEF FrameInv
    <3>4. g.box.pt # f.box.pt
      BY <1>2, <3>3
    <3>5. g.box.key # f.box.key
      BY <1>1, <1>2, <3>2 DEF FrameInv
    <3>6. QED
      BY <3>2, <3>4, <3>5
  <2>2. ASSUME NEW g \in S
        PROVE  FrameInv(s, g)'
    <3>1. FrameInv(s, g) /\ g.box.key.i \in Nat
      BY <2>1
    <3>2. g.box.key.gen = send'[s].ck.gen => g.box.key.i < send'[s].ck.i
      BY <1>1, <1>7, <3>1 DEF FrameInv
    <3>3. g.box.pt.id \in 1 .. nsent'[s]
      BY <1>2, <1>6, <3>1 DEF FrameInv
    <3>4. QED
      BY <1>7, <3>1, <3>2, <3>3 DEF FrameInv
  <2>3. FrameInv(s, f)'
    <3>1. f.box.pt.id \in 1 .. nsent'[s] /\ f.box.key.i < send'[s].ck.i
      BY <1>1, <1>2, <1>6, <1>7
    <3>2. /\ f.box.key.own = s /\ f.by = [own |-> s, gen |-> f.box.key.gen]
          /\ f.index = IndexOf(f.box.key.i) /\ f.box.pt.from = s
          /\ f.box.key.gen # 0
      BY <1>1, <1>2, <1>3 DEF SenderInv
    <3>3. f.box.key.gen <= send'[s].ck.gen
      BY <1>1, <1>2, <1>7
    <3>4. QED
      BY <1>3, <3>1, <3>2, <3>3 DEF FrameInv
  <2>4. IsFiniteSet(S \cup {f})
    BY <1>1, FS_AddElement DEF SentInv
  <2>5. \A g, h \in S \cup {f} : g.box.pt = h.box.pt \/ g.box.key = h.box.key => g = h
    BY <1>1, <2>1 DEF SentInv
  <2> DEFINE Has(gen, i) == \E h \in S \cup {f} : h.box.key = [own |-> s, gen |-> gen, i |-> i]
  <2>6. \A gen, i : SentKey(s, gen, i) => Has(gen, i)
    BY DEF SentKey
  <2>7. ASSUME NEW i \in Nat, i < k.ck.i + 1
        PROVE  Has(k.ck.gen, i)
    <3>1. CASE i < k.ck.i
      <4>1. SentKey(s, k.ck.gen, i)
        BY <1>1, <3>1 DEF SentInv
      <4>2. QED
        BY <2>6, <4>1
    <3>2. CASE i = k.ck.i
      <4>1. f.box.key = [own |-> s, gen |-> k.ck.gen, i |-> i]
        BY <1>1, <1>2, <3>2, KeyIs
      <4>2. QED
        BY <4>1
    <3>3. QED
      BY <1>1, <2>7, <3>1, <3>2
  <2>8. ASSUME NEW g \in S \cup {f}, NEW i \in Nat, i < g.box.key.i
        PROVE  Has(g.box.key.gen, i)
    <3>1. CASE g \in S
      <4>1. SentKey(s, g.box.key.gen, i)
        BY <1>1, <2>8, <3>1 DEF SentInv
      <4>2. QED
        BY <2>6, <4>1
    <3>2. CASE g = f
      <4>1. i < k.ck.i + 1 /\ g.box.key.gen = k.ck.gen
        BY <1>1, <1>2, <2>8, <3>2
      <4>2. QED
        BY <2>7, <4>1
    <3>3. QED
      BY <3>1, <3>2
  <2>9. \A gen, i : Has(gen, i) => SentKey(s, gen, i)'
    BY <1>6 DEF SentKey
  <2> HIDE DEF Has
  <2>10. \A i \in Nat : i < send'[s].ck.i => SentKey(s, send[s].ck.gen, i)'
    BY <1>7, <2>7, <2>9
  <2>11. \A g \in sent'[s] : \A i \in Nat : i < g.box.key.i => SentKey(s, g.box.key.gen, i)'
    BY <1>6, <2>8, <2>9
  <2>12. \A g \in sent'[s] : FrameInv(s, g)'
    BY <1>6, <2>2, <2>3
  <2>13. /\ IsFiniteSet(sent'[s])
         /\ \A g, h \in sent'[s] : g.box.pt = h.box.pt \/ g.box.key = h.box.key => g = h
    BY <1>6, <2>4, <2>5
  <2>14. QED
    BY <2>10, <2>11, <2>12, <2>13 DEF SentInv
<1>10. \A ck \in ChainKey : ReachedBy(s, ck) => ReachedBy(s, ck)'
  BY <1>1, <1>7 DEF ReachedBy, ChainKey
<1>11. \A g \in sent'[s] \ sent[s] : g.box.pt.id > nsent[s] /\ g.box.key = send[s].ck
  BY <1>2, <1>6
<1>12. QED
  BY <1>4, <1>6, <1>8, <1>9, <1>10, <1>11, SendersStep

(***************************************************************************)
(* The steps of a chain.                                                   *)
(***************************************************************************)
(* What a step of one chain has to show: its own invariant, at its new state. *)
LEMMA ChainStep ==
    ASSUME IndInv, NEW c \in Chain, UNCHANGED <<send, sent, nsent>>,
           NEW v \in Receiver, NEW D \in SUBSET Dist, NEW G \in SUBSET (1 .. MaxGen),
           NEW j \in Nat, NEW O \in SUBSET Plain,
           ChainInv(c, v, D, G, j, O),
           recv' = [recv EXCEPT ![c] = v], skdm' = [skdm EXCEPT ![c] = D],
           given' = [given EXCEPT ![c] = G], joined' = [joined EXCEPT ![c] = j],
           opened' = [opened EXCEPT ![c] = O], nopened' \in [Chain -> Nat]
    PROVE  IndInv'
<1>1. /\ recv \in [Chain -> Receiver] /\ skdm \in [Chain -> SUBSET Dist]
      /\ given \in [Chain -> SUBSET (1 .. MaxGen)] /\ joined \in [Chain -> Nat]
      /\ opened \in [Chain -> SUBSET Plain]
  BY DEF IndInv, TypeOK, Dist
<1>2. ASSUME NEW s \in Sender
      PROVE  SenderInv(s)' /\ SentInv(s)'
  <2>1. SenderInv(s) /\ SentInv(s)
    BY SenderFacts
  <2>2. QED
    BY <2>1 DEF SenderInv, SentInv, FrameInv, SentKey
<1>3. ASSUME NEW b \in Chain, NEW w \in Receiver, NEW E \in SUBSET Dist, NEW H, NEW i, NEW P,
             ChainInv(b, w, E, H, i, P)
      PROVE  ChainInv(b, w, E, H, i, P)'
  <2>1. \A ck \in ChainKey : ReachedBy(b.from, ck) => ReachedBy(b.from, ck)'
    BY DEF ReachedBy
  <2>2. QED
    BY <1>3, <2>1, ChainKept
<1>4. ASSUME NEW b \in Chain
      PROVE  ChainInv(b, recv[b], skdm[b], given[b], joined[b], opened[b])'
  <2>1. CASE b = c
    <3>1. /\ recv'[b] = v /\ skdm'[b] = D /\ given'[b] = G /\ joined'[b] = j /\ opened'[b] = O
      BY <1>1, <2>1
    <3>2. ChainInv(b, v, D, G, j, O)'
      BY <1>3, <2>1
    <3>3. QED
      BY <3>1, <3>2
  <2>2. CASE b # c
    <3>1. /\ recv'[b] = recv[b] /\ skdm'[b] = skdm[b] /\ given'[b] = given[b]
          /\ joined'[b] = joined[b] /\ opened'[b] = opened[b]
      BY <1>1, <2>2
    <3>2. SUFFICES ASSUME NEW w \in Receiver, NEW E \in SUBSET Dist, NEW H, NEW i, NEW P,
                          w = recv[b], E = skdm[b], H = given[b], i = joined[b], P = opened[b]
                   PROVE  ChainInv(b, w, E, H, i, P)'
      BY <1>1, <3>1, ChainFacts
    <3>3. ChainInv(b, w, E, H, i, P)
      BY <3>2, ChainFacts
    <3>4. QED
      BY <1>3, <3>3
  <2>3. QED
    BY <2>1, <2>2
<1>5. TypeOK'
  <2>1. /\ recv' \in [Chain -> Receiver] /\ skdm' \in [Chain -> SUBSET Dist]
        /\ given' \in [Chain -> SUBSET (1 .. MaxGen)] /\ joined' \in [Chain -> Nat]
        /\ opened' \in [Chain -> SUBSET Plain]
    BY <1>1
  <2>2. /\ send' \in [Sender -> SenderKey] /\ sent' \in [Sender -> SUBSET Frame]
        /\ nsent' \in [Sender -> 0 .. MaxSent]
    BY DEF IndInv, TypeOK
  <2>3. \A b \in Chain : PackOk(Pack(recv[b]))'
    BY <1>4 DEF PackOk, Pack, ChainInv, StoreInv
  <2>4. QED
    BY <2>1, <2>2, <2>3 DEF TypeOK, Dist
<1>6. QED
  BY <1>2, <1>4, <1>5 DEF IndInv

LEMMA DistributeStep ==
    ASSUME IndInv, NEW c \in Chain, Distribute(c)
    PROVE  IndInv'
<1> DEFINE n == Distribution(send[c.from])
           gen == send[c.from].ck.gen
<1>1. /\ recv[c] \in Receiver /\ skdm[c] \in SUBSET Dist /\ joined[c] \in Nat
      /\ ChainInv(c, recv[c], skdm[c], given[c], joined[c], opened[c])
      /\ c.from \in Sender
  BY ChainFacts
<1>2. send[c.from] \in SenderKey /\ SenderInv(c.from) /\ gen \notin given[c]
  BY <1>1, SenderFacts DEF Distribute
<1>3. n \in Dist /\ gen \in 1 .. MaxGen
  BY <1>1, <1>2, DistributionFacts DEF SenderInv
<1>4. /\ given[c] \in SUBSET (1 .. MaxGen) /\ opened[c] \in SUBSET Plain
      /\ nopened \in [Chain -> Nat]
  BY DEF IndInv, TypeOK
<1>5. ChainInv(c, recv[c], skdm[c] \cup {n}, given[c] \cup {gen}, joined[c], opened[c])
  BY <1>1, <1>2, DistributeKeeps
<1>6. /\ UNCHANGED <<send, sent, nsent>> /\ nopened' \in [Chain -> Nat]
      /\ recv' = [recv EXCEPT ![c] = recv[c]]
      /\ skdm' = [skdm EXCEPT ![c] = skdm[c] \cup {n}]
      /\ given' = [given EXCEPT ![c] = given[c] \cup {gen}]
      /\ joined' = [joined EXCEPT ![c] = joined[c]]
      /\ opened' = [opened EXCEPT ![c] = opened[c]]
  BY <1>4 DEF Distribute, IndInv, TypeOK
<1> HIDE DEF n, gen
<1>7. QED
  BY <1>1, <1>3, <1>4, <1>5, <1>6, ChainStep

LEMMA InstallStep ==
    ASSUME IndInv, NEW c \in Chain, Install(c)
    PROVE  IndInv'
<1>1. /\ recv[c] \in Receiver /\ skdm[c] \in SUBSET Dist
      /\ ChainInv(c, recv[c], skdm[c], given[c], joined[c], opened[c])
      /\ c.from \in Sender
  BY ChainFacts
<1>2. PICK d \in skdm[c] :
          /\ recv' = [recv EXCEPT ![c] = ReceiverInit(d)]
          /\ skdm' = [skdm EXCEPT ![c] = skdm[c] \ {d}]
          /\ joined' = [joined EXCEPT ![c] = d.ck.i]
  BY DEF Install
<1>3. /\ given[c] \in SUBSET (1 .. MaxGen) /\ opened[c] \in SUBSET Plain
      /\ nopened \in [Chain -> Nat] /\ sent[c.from] \in SUBSET Frame
  BY <1>1 DEF IndInv, TypeOK
<1>4. /\ ReceiverInit(d) \in Receiver
      /\ ChainInv(c, ReceiverInit(d), skdm[c] \ {d}, given[c], d.ck.i, opened[c])
  BY <1>1, <1>3, InstallKeeps
<1>5. d.ck.i \in Nat /\ skdm[c] \ {d} \in SUBSET Dist
  BY <1>1 DEF Dist, ChainKey
<1>6. /\ UNCHANGED <<send, sent, nsent>> /\ nopened' \in [Chain -> Nat]
      /\ given' = [given EXCEPT ![c] = given[c]]
      /\ opened' = [opened EXCEPT ![c] = opened[c]]
  BY <1>3 DEF Install, IndInv, TypeOK
<1>7. QED
  BY <1>2, <1>3, <1>4, <1>5, <1>6, ChainStep

(* What group_decrypt commits: a frame of the chain's own sender, opened for *)
(* the first time.                                                           *)
LEMMA CommitFacts ==
    ASSUME IndInv, NEW c \in Chain, NEW f \in Network,
           recv[c].sig_pk.gen # 0, DecryptRc(recv[c], f) = "ok"
    PROVE  /\ f \in sent[c.from] /\ f.box.pt \in Plain
           /\ f.box.pt \notin opened[c]
           /\ DecryptState(recv[c], f) \in Receiver
           /\ ChainInv(c, DecryptState(recv[c], f), skdm[c], given[c], joined[c],
                       opened[c] \cup {f.box.pt})
<1> DEFINE w == recv[c]
<1>1. /\ w \in Receiver /\ joined[c] \in Nat
      /\ ChainInv(c, w, skdm[c], given[c], joined[c], opened[c])
      /\ c.from \in Sender
  BY ChainFacts
<1>2. /\ sent[c.from] \in SUBSET Frame /\ SentInv(c.from) /\ send[c.from] \in SenderKey
      /\ nsent[c.from] \in 0 .. MaxSent
  BY <1>1, SenderFacts
<1>3. f \in sent[c.from]
  BY OkIsGenuine
<1>4. w.ck.gen # 0
  BY <1>1 DEF ChainInv, RecvInv
<1>5. f.box.pt \in Plain
  <2>1. /\ f.box.pt \in Plain \cup ForgedText /\ f.box.pt.id \in 1 .. nsent[c.from]
    BY <1>2, <1>3 DEF SentInv, FrameInv, Frame, Box
  <2>2. f.box.pt.id # 0
    BY <2>1
  <2>3. QED
    BY <2>1, <2>2 DEF ForgedText
<1>6. CASE f.index < w.index
  BY <1>1, <1>2, <1>3, <1>4, <1>5, <1>6, OpenStored
<1>7. CASE ~(f.index < w.index)
  BY <1>1, <1>2, <1>3, <1>4, <1>5, <1>7, OpenForward
<1>8. QED
  BY <1>6, <1>7

LEMMA DecryptStep ==
    ASSUME IndInv, NEW c \in Chain, NEW f \in Network, Decrypt(c, f)
    PROVE  IndInv'
<1>1. /\ recv \in [Chain -> Receiver] /\ skdm[c] \in SUBSET Dist /\ joined[c] \in Nat
      /\ given[c] \in SUBSET (1 .. MaxGen) /\ opened[c] \in SUBSET Plain
      /\ nopened \in [Chain -> Nat]
      /\ ChainInv(c, recv[c], skdm[c], given[c], joined[c], opened[c])
  BY ChainFacts DEF IndInv, TypeOK, Dist
<1>2. /\ UNCHANGED <<send, sent, nsent>>
      /\ skdm' = [skdm EXCEPT ![c] = skdm[c]]
      /\ given' = [given EXCEPT ![c] = given[c]]
      /\ joined' = [joined EXCEPT ![c] = joined[c]]
  BY DEF Decrypt, IndInv, TypeOK
<1>3. CASE Commit(c, f)
  <2>1. recv[c].sig_pk.gen # 0 /\ DecryptRc(recv[c], f) = "ok"
    BY <1>3 DEF Decrypt, Commit
  <2>2. /\ f.box.pt \in Plain /\ DecryptState(recv[c], f) \in Receiver
        /\ ChainInv(c, DecryptState(recv[c], f), skdm[c], given[c], joined[c],
                    opened[c] \cup {f.box.pt})
    BY <2>1, CommitFacts
  <2>3. /\ recv' = [recv EXCEPT ![c] = DecryptState(recv[c], f)]
        /\ opened' = [opened EXCEPT ![c] = opened[c] \cup {f.box.pt}]
        /\ nopened' \in [Chain -> Nat]
    BY <1>1, <1>3 DEF Commit
  <2>4. opened[c] \cup {f.box.pt} \in SUBSET Plain
    BY <1>1, <2>2
  <2>5. QED
    BY <1>1, <1>2, <2>2, <2>3, <2>4, ChainStep
<1>4. CASE Reject(c, f)
  <2>1. /\ recv' = [recv EXCEPT ![c] = recv[c]]
        /\ opened' = [opened EXCEPT ![c] = opened[c]]
        /\ nopened' \in [Chain -> Nat]
    BY <1>1, <1>4 DEF Reject, IndInv, TypeOK
  <2>2. recv[c] \in Receiver
    BY <1>1
  <2>3. QED
    BY <1>1, <1>2, <2>1, <2>2, ChainStep
<1>5. QED
  BY <1>3, <1>4 DEF Decrypt

(* A chain read back from its blob is the chain that was written. *)
LEMMA UnpackPack ==
    ASSUME NEW w \in Receiver
    PROVE  Unpack(Pack(w)) = w
  BY DEF Pack, Unpack, Receiver

LEMMA ReloadStep ==
    ASSUME IndInv, NEW c \in Chain, Reload(c)
    PROVE  IndInv' /\ UNCHANGED vars
<1>1. recv[c] \in Receiver /\ recv \in [Chain -> Receiver]
  BY ChainFacts DEF IndInv, TypeOK
<1>2. recv' = [recv EXCEPT ![c] = recv[c]]
  BY <1>1, UnpackPack DEF Reload
<1>3. UNCHANGED vars
  BY <1>1, <1>2 DEF Reload, vars
<1>4. /\ skdm[c] \in SUBSET Dist /\ joined[c] \in Nat
      /\ given[c] \in SUBSET (1 .. MaxGen) /\ opened[c] \in SUBSET Plain
      /\ ChainInv(c, recv[c], skdm[c], given[c], joined[c], opened[c])
  BY ChainFacts DEF IndInv, TypeOK
<1>5. /\ UNCHANGED <<send, sent, nsent>>
      /\ recv' = [recv EXCEPT ![c] = recv[c]] /\ skdm' = [skdm EXCEPT ![c] = skdm[c]]
      /\ given' = [given EXCEPT ![c] = given[c]] /\ joined' = [joined EXCEPT ![c] = joined[c]]
      /\ opened' = [opened EXCEPT ![c] = opened[c]] /\ nopened' \in [Chain -> Nat]
  BY <1>2, <1>3 DEF vars, IndInv, TypeOK
<1>6. IndInv'
  BY <1>1, <1>4, <1>5, ChainStep
<1>7. QED
  BY <1>3, <1>6

(***************************************************************************)
(* The theorems.                                                           *)
(***************************************************************************)
LEMMA InitInv == Init => IndInv
<1> SUFFICES ASSUME Init PROVE IndInv
  OBVIOUS
<1>1. IndexOf(0) = 0 /\ 0 \in Index /\ 1 \in 1 .. MaxGen
  BY GroupAssumption DEF IndexOf, Index
<1>2. \A s \in Sender : /\ SenderInit(s, 1) \in SenderKey
                        /\ SenderInit(s, 1).ck.own = s
                        /\ SenderInit(s, 1).ck.gen = 1
                        /\ SenderInit(s, 1).ck.i = 0
                        /\ SenderInit(s, 1).sig = [own |-> s, gen |-> 1]
                        /\ SenderInit(s, 1).index = 0
  BY <1>1, GroupAssumption DEF SenderInit, SenderKey, ChainKey, SigKey
<1>3. \A c \in Chain : /\ NoReceiver(c) \in Receiver
                       /\ NoReceiver(c).ck.own = c.from
                       /\ NoReceiver(c).ck.gen = 0
                       /\ NoReceiver(c).ck.i = 0
                       /\ NoReceiver(c).index = 0 /\ NoReceiver(c).sig_pk.gen = 0
                       /\ NoReceiver(c).skipped = {}
  BY <1>1, ChainSource DEF NoReceiver, Receiver, ChainKey, SigKey
<1>4. ASSUME NEW s \in Sender
      PROVE  SenderInv(s) /\ SentInv(s)
  <2>1. send[s] = SenderInit(s, 1) /\ sent[s] = {}
    BY DEF Init
  <2>2. send[s].ck.own = s /\ send[s].ck.gen = 1 /\ send[s].ck.i = 0
    <3>1. /\ SenderInit(s, 1).ck.own = s /\ SenderInit(s, 1).ck.gen = 1
          /\ SenderInit(s, 1).ck.i = 0
      BY <1>2
    <3>2. QED
      BY ONLY <2>1, <3>1
  <2>3. SenderInv(s)
    <3>1. send[s].sig = [own |-> s, gen |-> 1] /\ send[s].index = 0
      BY <1>2, <2>1
    <3>2. IndexOf(0) = 0 /\ 1 \in 1 .. MaxGen
      BY <1>1
    <3>3. QED
      BY ONLY <2>2, <3>1, <3>2, Zenon DEF SenderInv
  <2>4. \A i \in Nat : ~(i < send[s].ck.i)
    BY <2>2
  <2>5. QED
    BY <2>1, <2>3, <2>4, FS_EmptySet DEF SentInv
<1>5. ASSUME NEW c \in Chain
      PROVE  ChainInv(c, recv[c], skdm[c], given[c], joined[c], opened[c])
  <2>1. /\ recv[c] = NoReceiver(c) /\ skdm[c] = {} /\ given[c] = {} /\ joined[c] = 0
        /\ opened[c] = {} /\ sent[c.from] = {} /\ send[c.from] = SenderInit(c.from, 1)
    BY ChainSource DEF Init
  <2>2. /\ recv[c].ck.own = c.from /\ recv[c].ck.gen = 0 /\ recv[c].ck.i = 0
        /\ recv[c].index = 0 /\ recv[c].sig_pk.gen = 0 /\ recv[c].skipped = {}
    BY <1>3, <2>1
  <2>3. ReachedBy(c.from, recv[c].ck)
    <3>1. c.from \in Sender
      BY ChainSource
    <3>2. send[c.from].ck.gen = 1
      BY <1>2, <2>1, <3>1, Zenon
    <3>3. QED
      BY <2>2, <3>2 DEF ReachedBy
  <2>4. RecvInv(c, recv[c], given[c], joined[c])
    BY <1>1, <2>1, <2>2, <2>3 DEF RecvInv
  <2>5. StoreInv(c, recv[c], joined[c])
    BY <2>2, FS_EmptySet, GroupAssumption DEF StoreInv
  <2>6. SkdmInv(c, recv[c], skdm[c], given[c])
    BY <2>1 DEF SkdmInv
  <2>7. OpenedInv(c, recv[c], skdm[c], given[c], joined[c], opened[c])
    BY <2>1 DEF OpenedInv
  <2>8. QED
    BY <2>4, <2>5, <2>6, <2>7 DEF ChainInv
<1>6. TypeOK
  <2>1. \A c \in Chain : PackOk(Pack(recv[c]))
    BY <1>5 DEF PackOk, Pack, ChainInv, StoreInv
  <2>2. send \in [Sender -> SenderKey] /\ recv \in [Chain -> Receiver]
    BY <1>2, <1>3 DEF Init
  <2>3. /\ skdm \in [Chain -> SUBSET [ck : ChainKey, index : Index, sig_pk : SigKey]]
        /\ given \in [Chain -> SUBSET (1 .. MaxGen)]
        /\ opened \in [Chain -> SUBSET Plain]
        /\ sent \in [Sender -> SUBSET Frame]
    BY DEF Init
  <2>4. /\ joined \in [Chain -> Nat] /\ nopened \in [Chain -> Nat]
        /\ nsent \in [Sender -> 0 .. MaxSent]
    BY GroupAssumption DEF Init
  <2>5. QED
    BY <2>1, <2>2, <2>3, <2>4 DEF TypeOK
<1>7. QED
  BY <1>4, <1>5, <1>6 DEF IndInv

LEMMA Inductive == Spec => []IndInv
<1>1. ASSUME IndInv, [Next]_vars
      PROVE  IndInv'
  <2>1. CASE UNCHANGED vars
    BY <1>1, <2>1 DEF vars, IndInv, TypeOK, PackOk, Pack, SenderInv, SentInv, FrameInv, SentKey,
                      ChainInv, SkdmInv, RecvInv, StoreInv, OpenedInv, ReachedBy, Derivable
  <2>2. ASSUME NEW s \in Sender, Rotate(s) \/ Encrypt(s)
        PROVE  IndInv'
    BY <1>1, <2>2, RotateKeeps, EncryptKeeps
  <2>3. ASSUME NEW c \in Chain, Distribute(c) \/ Install(c) \/ Reload(c)
        PROVE  IndInv'
    BY <1>1, <2>3, DistributeStep, InstallStep, ReloadStep
  <2>4. ASSUME NEW c \in Chain, NEW f \in Network, Decrypt(c, f)
        PROVE  IndInv'
    BY <1>1, <2>4, DecryptStep
  <2>5. QED
    BY <1>1, <2>1, <2>2, <2>3, <2>4 DEF Next
<1>2. QED
  BY <1>1, InitInv, PTL DEF Spec

(* group_encrypt, group_decrypt, the SKDMs and the serializer keep every   *)
(* sender, chain and frame well-typed and a store within GROUP_MAX_SKIP,   *)
(* whatever the network and the insiders do.                               *)
THEOREM GroupTypeCorrect == Spec => []TypeOK
<1>1. IndInv => TypeOK
  BY DEF IndInv
<1>2. QED
  BY <1>1, Inductive, PTL

(* Forward secrecy of sender keys and receiving chains: no key of a frame  *)
(* that was sent, opened or sealed before the chain joined can be derived. *)
THEOREM GroupKeysForgotten == Spec => []ForwardSecrecy
<1>1. ASSUME IndInv PROVE ForwardSecrecy
  <2>1. ASSUME NEW s \in Sender, NEW f \in sent[s],
               send[s].ck.gen = f.box.key.gen, send[s].ck.i <= f.box.key.i
        PROVE  FALSE
    <3>1. FrameInv(s, f) /\ send[s] \in SenderKey /\ f \in Frame
      BY <1>1, SenderFacts DEF SentInv
    <3>2. f.box.key.i < send[s].ck.i /\ f.box.key.i \in Nat /\ send[s].ck.i \in Nat
      BY <2>1, <3>1 DEF FrameInv, SenderKey, ChainKey, Frame, Box
    <3>3. QED
      BY <2>1, <3>2
  <2>2. ASSUME NEW c \in Chain, NEW f \in sent[c.from],
               f.box.pt \in opened[c]
        PROVE  ~Derivable(recv[c], f.box.key)
    BY <1>1, <2>2, ChainFacts DEF ChainInv, OpenedInv
  <2>3. ASSUME NEW c \in Chain, NEW f \in sent[c.from],
               f.box.key.gen = recv[c].ck.gen, f.box.key.i < joined[c],
               Derivable(recv[c], f.box.key)
        PROVE  FALSE
    <3>1. /\ recv[c] \in Receiver /\ joined[c] \in Nat /\ c.from \in Sender
          /\ RecvInv(c, recv[c], given[c], joined[c]) /\ StoreInv(c, recv[c], joined[c])
      BY <1>1, ChainFacts DEF ChainInv
    <3>2. f \in Frame
      BY <1>1, <3>1, SenderFacts
    <3>3. f.box.key.i \in Nat /\ recv[c].ck.i \in Nat /\ joined[c] <= recv[c].ck.i
      BY <3>1, <3>2 DEF Frame, Box, ChainKey, Receiver, RecvInv
    <3>4. ~(recv[c].ck.i <= f.box.key.i)
      BY <2>3, <3>1, <3>3
    <3>5. \A e \in recv[c].skipped : joined[c] <= e.mk.i
      BY <3>1 DEF StoreInv
    <3>6. \A e \in recv[c].skipped : e.mk # f.box.key
      BY <2>3, <3>1, <3>3, <3>5
    <3>7. QED
      BY <2>3, <3>4, <3>6 DEF Derivable
  <2>4. QED
    BY <2>1, <2>2, <2>3 DEF ForwardSecrecy
<1>2. QED
  BY <1>1, Inductive, PTL

(* group_encrypt never seals two frames under one key, in any generation   *)
(* and for any two senders.                                                *)
THEOREM GroupKeysUsedOnce == Spec => []NoKeyReuse
<1>1. ASSUME IndInv PROVE NoKeyReuse
  <2> SUFFICES ASSUME NEW f \in Genuine, NEW g \in Genuine, f.box.key = g.box.key
               PROVE  f = g
    BY DEF NoKeyReuse
  <2>1. PICK s \in Sender : f \in sent[s]
    BY DEF Genuine
  <2>2. PICK t \in Sender : g \in sent[t]
    BY DEF Genuine
  <2>3. SentInv(s) /\ SentInv(t)
    BY <1>1, SenderFacts
  <2>4. s = t
    <3>1. FrameInv(s, f) /\ FrameInv(t, g)
      BY <2>1, <2>2, <2>3 DEF SentInv
    <3>2. QED
      BY <3>1 DEF FrameInv
  <2>5. QED
    BY <2>1, <2>2, <2>3, <2>4 DEF SentInv
<1>2. QED
  BY <1>1, Inductive, PTL

(***************************************************************************)
(* The group implements SecureChannel.                                     *)
(***************************************************************************)
LEMMA EncryptSends ==
    ASSUME IndInv, NEW s \in Sender, Encrypt(s)
    PROVE  Channel!Send(s)
<1> DEFINE Bar(S) == [t \in Sender |-> {f.box.pt : f \in S[t]}]
           m == NextPlain(s)
<1>0. PICK new : new = Seal(send[s].ck, send[s].index, NextPlain(s), send[s].sig)
  OBVIOUS
<1>1. /\ sent' = [sent EXCEPT ![s] = sent[s] \cup {new}] /\ new.box.pt = m
      /\ nsent[s] \in Nat /\ m \in Plain /\ m.from = s /\ m.id = nsent[s] + 1
  BY <1>0, EncryptFacts
<1>2. sent \in [Sender -> SUBSET Frame] /\ \A t \in Sender : SentInv(t)
  BY DEF IndInv, TypeOK
<1>3. opened' = opened /\ nopened' = nopened
  BY DEF Encrypt
<1> HIDE DEF m
<1>4. ASSUME NEW t \in Sender PROVE m \notin Bar(sent)[t]
  <2> SUFFICES ASSUME NEW g \in sent[t], g.box.pt = m PROVE FALSE
    OBVIOUS
  <2>1. FrameInv(t, g)
    BY <1>2 DEF SentInv
  <2>2. g.box.pt.from = t /\ g.box.pt.id \in 1 .. nsent[t]
    BY <2>1 DEF FrameInv
  <2>3. QED
    BY <1>1, <2>2
<1>5. Bar(sent') = [Bar(sent) EXCEPT ![s] = Bar(sent)[s] \cup {m}]
  <2>1. ASSUME NEW t \in Sender
        PROVE  Bar(sent')[t] = IF t = s THEN Bar(sent)[s] \cup {m} ELSE Bar(sent)[t]
    <3>1. CASE t = s
      <4>1. sent'[t] = sent[s] \cup {new}
        BY <1>1, <1>2, <3>1
      <4>2. QED
        BY <1>1, <3>1, <4>1
    <3>2. CASE t # s
      BY <1>1, <1>2, <3>2
    <3>3. QED
      BY <3>1, <3>2
  <2> HIDE DEF Bar
  <2>2. Bar(sent) = [t \in Sender |-> Bar(sent)[t]] /\ Bar(sent') = [t \in Sender |-> Bar(sent')[t]]
    BY DEF Bar
  <2>3. QED
    BY <2>1, <2>2
<1>6. QED
  BY <1>1, <1>3, <1>4, <1>5 DEF Channel!Send

LEMMA CommitDelivers ==
    ASSUME IndInv, NEW c \in Chain, NEW f \in Network, recv[c].sig_pk.gen # 0,
           Commit(c, f), sent' = sent
    PROVE  Channel!Deliver(c)
<1> DEFINE bar == [s \in Sender |-> {g.box.pt : g \in sent[s]}]
           src == [b \in Chain |-> b.from]
<1>1. f \in sent[c.from] /\ f.box.pt \notin opened[c]
  BY CommitFacts DEF Commit
<1>2. src[c] = c.from /\ c.from \in Sender
  BY ChainSource
<1>3. f.box.pt \in bar[src[c]] \ opened[c]
  BY <1>1, <1>2
<1>4. /\ opened' = [opened EXCEPT ![c] = opened[c] \cup {f.box.pt}]
      /\ nopened' = [nopened EXCEPT ![c] = nopened[c] + 1]
  BY DEF Commit
<1>5. QED
  BY <1>3, <1>4 DEF Channel!Deliver

(* Sender keys implement the at-most-once authenticated channel for every   *)
(* group and every index width: each step is a broadcast, a first delivery  *)
(* on one chain of something its sender sent, or changes nothing a caller   *)
(* can see; rotations, lost SKDMs, insiders and the wrap included.          *)
THEOREM GroupImplementsChannel == Spec => AtMostOnceAuthentic
<1>1. Init => Channel!Init
  BY DEF Init, Channel!Init
<1>2. ASSUME IndInv, [Next]_vars PROVE [Channel!Next]_(Channel!vars)
  <2>1. CASE UNCHANGED <<sent, opened, nopened>>
    BY <2>1 DEF Channel!vars
  <2>2. ASSUME NEW s \in Sender, Encrypt(s) PROVE Channel!Next
    BY <1>2, <2>2, EncryptSends DEF Channel!Next
  <2>3. ASSUME NEW c \in Chain, NEW f \in Network, Decrypt(c, f), Commit(c, f)
        PROVE  Channel!Next
    <3>1. sent' = sent /\ recv[c].sig_pk.gen # 0
      BY <2>3 DEF Decrypt
    <3>2. Channel!Deliver(c)
      BY <1>2, <2>3, <3>1, CommitDelivers
    <3>3. QED
      BY <3>2 DEF Channel!Next
  <2>4. ASSUME NEW c \in Chain,
               \/ Distribute(c) \/ Install(c) \/ Reload(c)
               \/ \E f \in Network : Decrypt(c, f) /\ Reject(c, f)
        PROVE  UNCHANGED <<sent, opened, nopened>>
    BY <2>4 DEF Distribute, Install, Reload, Decrypt, Reject
  <2>5. ASSUME NEW s \in Sender, Rotate(s)
        PROVE  UNCHANGED <<sent, opened, nopened>>
    BY <2>5 DEF Rotate
  <2>6. CASE Next
    <3>1. CASE \E s \in Sender : Rotate(s) \/ Encrypt(s)
      BY <2>1, <2>2, <2>5, <3>1
    <3>2. CASE \E c \in Chain : \/ Distribute(c) \/ Install(c) \/ Reload(c)
                                \/ \E f \in Network : Decrypt(c, f)
      <4>1. PICK c \in Chain : \/ Distribute(c) \/ Install(c) \/ Reload(c)
                               \/ \E f \in Network : Decrypt(c, f)
        BY <3>2
      <4>2. \A f \in Network : Decrypt(c, f) => Commit(c, f) \/ Reject(c, f)
        BY DEF Decrypt
      <4>3. QED
        BY <2>1, <2>3, <2>4, <4>1, <4>2
    <3>3. QED
      BY <2>6, <3>1, <3>2 DEF Next
  <2>7. QED
    BY <1>2, <2>1, <2>6 DEF vars
<1>3. QED
  BY <1>1, <1>2, Inductive, PTL DEF Spec, AtMostOnceAuthentic, Channel!Spec

(***************************************************************************)
(* No chain is ever wedged.                                                *)
(***************************************************************************)
(* Below the wrap, the keys in the store and the positions up to a frame    *)
(* that is owed all belong to frames that are owed: the room the store      *)
(* needs is bounded by what is owed.                                        *)
LEMMA RoomNeeded ==
    ASSUME IndInv, NEW c \in Chain, NEW f \in Owed(c), recv[c].ck.i <= f.box.key.i
    PROVE  /\ IsFiniteSet(Owed(c)) /\ IsFiniteSet(recv[c].skipped)
           /\ Cardinality(recv[c].skipped) + (f.box.key.i - recv[c].ck.i) + 1
                 <= Cardinality(Owed(c))
<1> DEFINE w == recv[c]
           S == w.skipped
           A == {e.mk.i : e \in S}
           B == w.ck.i .. f.box.key.i
           U == {g.box.key.i : g \in Owed(c)}
<1>1. /\ w \in Receiver /\ joined[c] \in Nat /\ c.from \in Sender
      /\ RecvInv(c, w, given[c], joined[c]) /\ StoreInv(c, w, joined[c])
      /\ OpenedInv(c, w, skdm[c], given[c], joined[c], opened[c])
  BY ChainFacts DEF ChainInv
<1>2. SentInv(c.from) /\ sent[c.from] \in SUBSET Frame
  BY <1>1, SenderFacts
<1>3. /\ w.ck.own = c.from /\ w.ck.gen \in Nat /\ w.ck.i \in Nat /\ joined[c] <= w.ck.i
  BY <1>1 DEF RecvInv, ReachedBy, Receiver, ChainKey
<1>4. /\ f \in sent[c.from] /\ f.box.key.gen = w.ck.gen /\ f.box.key.i \in Nat
      /\ Owed(c) \subseteq sent[c.from]
  BY <1>2 DEF Owed, Frame, Box, ChainKey
<1>5. \A e \in S : /\ e.mk \in ChainKey /\ e.mk.own = c.from /\ e.mk.gen = w.ck.gen
                   /\ e.mk.i \in Nat /\ e.mk.i < w.ck.i /\ joined[c] <= e.mk.i
                   /\ SentKey(c.from, e.mk.gen, e.mk.i)
  BY <1>1, <1>3 DEF StoreInv, Receiver, Skipped, ChainKey
<1>6. IsFiniteSet(Owed(c)) /\ IsFiniteSet(S)
  BY <1>1, <1>2, <1>4, FS_Subset DEF SentInv, StoreInv
<1>7. ASSUME NEW g \in sent[c.from], NEW i \in Nat, joined[c] <= i,
             g.box.key = [own |-> c.from, gen |-> w.ck.gen, i |-> i],
             Derivable(w, g.box.key)
      PROVE  i \in U
  <2>1. g.box.pt \notin opened[c]
    BY <1>1, <1>7 DEF OpenedInv
  <2>2. g.box.key.gen = w.ck.gen /\ g.box.key.i = i
    BY <1>7
  <2>3. g \in Owed(c)
    BY <1>7, <2>1, <2>2 DEF Owed
  <2>4. QED
    BY <2>2, <2>3
<1> HIDE DEF U
<1>8. ASSUME NEW e \in S
      PROVE  e.mk.i \in U
  <2>1. PICK g \in sent[c.from] : g.box.key = [own |-> c.from, gen |-> w.ck.gen, i |-> e.mk.i]
    BY <1>5 DEF SentKey
  <2>2. g.box.key = e.mk
    BY <1>5, <2>1, KeyIs
  <2>3. Derivable(w, g.box.key)
    BY <2>2 DEF Derivable
  <2>4. QED
    BY <1>5, <1>7, <2>1, <2>3
<1>9. ASSUME NEW i \in B
      PROVE  i \in U
  <2>1. i \in Nat /\ w.ck.i <= i /\ i <= f.box.key.i /\ joined[c] <= i
    BY <1>1, <1>3, <1>4
  <2>2. PICK g \in sent[c.from] : g.box.key = [own |-> c.from, gen |-> w.ck.gen, i |-> i]
    <3>1. CASE i < f.box.key.i
      BY <1>2, <1>4, <2>1, <3>1 DEF SentInv, SentKey
    <3>2. CASE i = f.box.key.i
      <4>1. f.box.key \in ChainKey /\ f.box.key.own = c.from
        BY <1>2, <1>4 DEF SentInv, FrameInv, Frame, Box
      <4>2. QED
        BY <1>4, <3>2, <4>1, KeyIs
    <3>3. QED
      BY <1>4, <2>1, <3>1, <3>2
  <2>3. Derivable(w, g.box.key)
    BY <1>3, <2>1, <2>2 DEF Derivable
  <2>4. QED
    BY <1>7, <2>1, <2>2, <2>3
<1>10. IsFiniteSet(U) /\ Cardinality(U) <= Cardinality(Owed(c))
  <2> DEFINE h == [g \in Owed(c) |-> g.box.key.i]
  <2>1. h \in Surjection(Owed(c), U)
    BY DEF Surjection, U
  <2> HIDE DEF h
  <2>2. QED
    BY <1>6, <2>1, FS_Surjection
<1>11. IsFiniteSet(A) /\ Cardinality(A) = Cardinality(S)
  <2> DEFINE h == [e \in S |-> e.mk.i]
  <2>1. h \in Surjection(S, A)
    BY DEF Surjection
  <2>2. ASSUME NEW d \in S, NEW e \in S, d.mk.i = e.mk.i
        PROVE  d = e
    <3>1. d.mk = e.mk
      BY <1>5, <2>2, KeyIs
    <3>2. QED
      BY <1>1, <3>1 DEF StoreInv
  <2>3. h \in Injection(S, A)
    BY <2>2 DEF Injection, IsInjective
  <2> HIDE DEF h, A
  <2>4. QED
    BY <1>6, <2>1, <2>3, FS_Surjection
<1>12. IsFiniteSet(B) /\ Cardinality(B) = (f.box.key.i - w.ck.i) + 1
  <2>1. w.ck.i \in Int /\ f.box.key.i \in Int /\ ~(w.ck.i > f.box.key.i)
    BY <1>3, <1>4
  <2>2. IsFiniteSet(B) /\ Cardinality(B) = f.box.key.i - w.ck.i + 1
    BY <2>1, FS_Interval
  <2>3. QED
    BY <2>2
<1>13. A \cap B = {} /\ A \cup B \subseteq U
  BY <1>3, <1>4, <1>5, <1>8, <1>9
<1> HIDE DEF A, B, S
<1>14. /\ IsFiniteSet(A \cup B)
       /\ Cardinality(A \cup B) = Cardinality(A) + Cardinality(B) - 0
  BY <1>11, <1>12, <1>13, FS_Union, FS_EmptySet
<1>15. Cardinality(A \cup B) <= Cardinality(U)
  BY <1>10, <1>13, FS_Subset
<1>16. /\ Cardinality(A) \in Nat /\ Cardinality(B) \in Nat /\ Cardinality(U) \in Nat
       /\ Cardinality(Owed(c)) \in Nat
  BY <1>6, <1>10, <1>11, <1>12, FS_CardinalityType
<1>17. Cardinality(S) + (f.box.key.i - w.ck.i) + 1 <= Cardinality(Owed(c))
  <2>1. Cardinality(A) + Cardinality(B) <= Cardinality(Owed(c))
    BY <1>10, <1>14, <1>15, <1>16
  <2>2. f.box.key.i - w.ck.i \in Nat
    BY <1>3, <1>4
  <2>3. QED
    BY <1>11, <1>12, <1>16, <2>1, <2>2
<1>18. QED
  BY <1>6, <1>17 DEF S

(* No loss, reordering, replay or forgery wedges a chain: group_decrypt opens *)
(* each frame the chain was installed for and has not opened, whichever comes *)
(* next, as long as the other frames owed to it fit its store.                *)
THEOREM GroupNeverWedged == Spec => []Decryptable
<1>1. IndInv => Decryptable
  <2> SUFFICES ASSUME IndInv, NEW c \in Chain, NEW f \in Owed(c),
                      Cardinality(Owed(c)) <= MaxSkip + 1,
                      recv[c].ck.i < IndexMod, f.box.key.i < IndexMod
               PROVE  DecryptRc(recv[c], f) = "ok"
    BY DEF Decryptable
  <2> DEFINE w == recv[c]
  <2>1. /\ w \in Receiver /\ joined[c] \in Nat /\ c.from \in Sender
        /\ RecvInv(c, w, given[c], joined[c]) /\ StoreInv(c, w, joined[c])
        /\ OpenedInv(c, w, skdm[c], given[c], joined[c], opened[c])
    BY ChainFacts DEF ChainInv
  <2>2. /\ f \in sent[c.from] /\ f \in Frame /\ FrameInv(c.from, f)
        /\ f.box.key.gen = w.ck.gen /\ joined[c] <= f.box.key.i
        /\ f.box.pt \notin opened[c]
    BY <2>1, SenderFacts DEF Owed, SentInv
  <2>3. /\ w.ck \in ChainKey /\ f.box.key \in ChainKey
        /\ w.ck.own = c.from /\ f.box.key.own = c.from /\ w.ck.gen # 0
        /\ w.ck.i \in Nat /\ f.box.key.i \in Nat
    BY <2>1, <2>2 DEF Receiver, Frame, Box, ChainKey, RecvInv, ReachedBy, FrameInv
  <2>4. Verify(f, w.sig_pk)
    <3>1. w.sig_pk = [own |-> c.from, gen |-> w.ck.gen]
      BY <2>1, <2>3 DEF Receiver, SigKey, RecvInv
    <3>2. QED
      BY <2>2, <3>1 DEF FrameInv, Verify
  <2>5. \A i \in Nat : i < IndexMod => IndexOf(i) = i
    BY GroupAssumption DEF IndexOf
  <2>6. w.index = w.ck.i /\ f.index = f.box.key.i /\ f.box.index = f.index
    BY <2>1, <2>2, <2>3, <2>5 DEF RecvInv, FrameInv
  <2>7. CASE f.index < w.index
    <3>1. PICK e \in w.skipped : e.mk = f.box.key
      BY <2>1, <2>2, <2>3, <2>6, <2>7 DEF OpenedInv
    <3>2. \A d \in w.skipped : d.mk \in ChainKey /\ d.mk.own = c.from /\ d.mk.gen = w.ck.gen
                               /\ d.mk.i \in Nat /\ d.index = d.mk.i
      <4>1. ASSUME NEW d \in w.skipped
            PROVE  /\ d.mk \in ChainKey /\ d.mk.own = c.from /\ d.mk.gen = w.ck.gen
                   /\ d.mk.i \in Nat /\ d.mk.i < w.ck.i
                   /\ d.index = IndexOf(d.mk.i)
        BY <2>1, <2>3 DEF Receiver, Skipped, StoreInv, ChainKey
      <4>2. \A d \in w.skipped : d.mk.i < IndexMod
        BY <2>3, <4>1, GroupAssumption
      <4>3. QED
        BY <2>5, <4>1, <4>2
    <3>3. e \in SkippedFind(w, f.index)
      <4>1. e.index = f.index
        BY <2>6, <3>1, <3>2
      <4>2. \A d \in w.skipped : d.index = f.index => e.mk.i <= d.mk.i
        BY <3>2, <4>1
      <4>3. QED
        BY <4>1, <4>2 DEF SkippedFind
    <3>4. Opens(e.mk, f)
      BY <2>6, <3>1 DEF Opens
    <3>5. QED
      BY <2>4, <2>7, <3>3, <3>4 DEF DecryptRc
  <2>8. CASE ~(f.index < w.index)
    <3>1. f.index \in Index
      BY <2>2 DEF Frame
    <3>2. /\ Gap(w, f) = f.box.key.i - w.ck.i
          /\ MsgKey(w, f) = [own |-> w.ck.own, gen |-> w.ck.gen, i |-> w.ck.i + Gap(w, f)]
      BY <2>1, <2>6, <2>8, <3>1, GapType DEF Gap
    <3>3. MsgKey(w, f) = f.box.key
      <4>1. w.ck.i + Gap(w, f) = f.box.key.i
        BY <2>3, <3>2
      <4>2. QED
        BY <2>2, <2>3, <3>2, <4>1, KeyIs
    <3>4. ~TooFar(w, f)
      <4>1. /\ IsFiniteSet(Owed(c)) /\ IsFiniteSet(w.skipped)
            /\ Cardinality(w.skipped) + (f.box.key.i - w.ck.i) + 1 <= Cardinality(Owed(c))
        BY <2>3, <2>6, <2>8, RoomNeeded
      <4>2. Cardinality(Owed(c)) \in Nat /\ Cardinality(w.skipped) \in Nat /\ MaxSkip \in Nat
        BY <4>1, FS_CardinalityType, GroupAssumption
      <4>3. QED
        BY <2>3, <3>2, <4>1, <4>2 DEF TooFar
    <3>5. Opens(MsgKey(w, f), f)
      BY <2>6, <3>3 DEF Opens
    <3>6. QED
      BY <2>4, <2>8, <3>4, <3>5 DEF DecryptRc
  <2>9. QED
    BY <2>7, <2>8
<1>2. QED
  BY <1>1, InitInv, Inductive, PTL DEF Spec
==============================================================================
