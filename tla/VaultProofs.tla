----------------------------- MODULE VaultProofs -----------------------------
(***************************************************************************)
(* Proofs about Vault for one process at a time, and any number of         *)
(* passphrases, names, contents, sizes of container and lengths of slots   *)
(* and blocks.                                                             *)
(***************************************************************************)
EXTENDS Vault, FiniteSetTheorems, FunctionTheorems, SequenceTheorems, WellFoundedInduction, TLAPS

(* One process at a time uses the container.                               *)
OneWriter == \E w : Writer = {w}

(***************************************************************************)
(* Numbers.                                                                *)
(***************************************************************************)
LEMMA AllNumbers ==
    ASSUME NEW S, 0 \in S, \A n \in Nat : n \in S => n + 1 \in S
    PROVE  Nat \subseteq S
<1> SUFFICES ASSUME Nat \ S # {} PROVE FALSE
  OBVIOUS
<1>1. PICK h0 \in Nat \ S : \A k \in Nat \ S : ~ (<<k, h0>> \in OpToRel(<, Nat))
  BY NatLessThanWellFounded, WFMin
<1>2. h0 # 0 /\ h0 \in Nat
  BY <1>1
<1>3. h0 - 1 \in Nat /\ (h0 - 1) + 1 = h0 /\ h0 - 1 < h0
  BY <1>2
<1>4. h0 - 1 \in Nat \ S
  BY <1>1, <1>3
<1>5. <<h0 - 1, h0>> \in OpToRel(<, Nat)
  BY <1>2, <1>3 DEF OpToRel
<1>6. QED
  BY <1>1, <1>4, <1>5

LEMMA LeastOf ==
    ASSUME NEW S, S \subseteq Nat, S # {}
    PROVE  \E x \in S : \A y \in S : x <= y
<1>1. PICK x \in S : \A y \in S : ~ (<<y, x>> \in OpToRel(<, Nat))
  BY NatLessThanWellFounded, WFMin
<1>2. \A y \in S : ~ (y < x)
  BY <1>1 DEF OpToRel
<1>3. QED
  BY <1>2

LEMMA DivIs ==
    ASSUME NEW a \in Nat, NEW b \in Nat \ {0}
    PROVE  a \div b \in Nat /\ (a \div b) * b <= a /\ a < (a \div b) * b + b
  OBVIOUS

(***************************************************************************)
(* Lengths.                                                                *)
(***************************************************************************)
LEMMA SlotLen ==
    ASSUME NEW cap \in Nat \ {0}
    PROVE  vault_slot_len(cap) \in Nat \ {0}
<1>1. cap \div FrameLen \in Nat
  BY DivIs, VaultAssumption
<1>2. PICK q \in Nat : q = cap \div FrameLen + 1
  BY <1>1
<1>3. TagLen \in Nat /\ SaltLen \in Nat
  BY VaultAssumption
<1>4. TagLen * q \in Nat
  BY <1>2, <1>3
<1>5. vault_slot_len(cap) = SaltLen + cap + TagLen * q
  BY <1>2 DEF vault_slot_len
<1>6. QED
  BY <1>3, <1>4, <1>5

LEMMA BlockLenIs == BlockLen \in Nat \ {0} /\ AnchorCap \in Nat \ {0}
  BY SlotLen, VaultAssumption DEF BlockLen

(* How many directory blocks a count of entries needs.                     *)
LEMMA BlocksNeeded ==
    ASSUME NEW count \in Nat, count <= MaxVolEntries, NEW n, n = vault_required_blocks(count)
    PROVE  /\ n \in 1 .. MaxBlocks
           /\ InnerData \in Nat \ {0} /\ InnerData * (n - 1) \in Nat
           /\ InnerData * (n - 1) <= count
<1>1. InnerData \in Nat \ {0} /\ MaxBlocks \in Nat \ {0} /\ MaxEntries = InnerData + 1
  BY VaultAssumption DEF InnerData
<1>2. PICK d, m : d = InnerData /\ m = MaxBlocks
  OBVIOUS
<1>3. d \in Nat \ {0} /\ m \in Nat \ {0} /\ d * (m - 1) \in Nat
  BY <1>1, <1>2
<1>4. CASE count <= MaxEntries
  <2>1. n = 1
    BY <1>4 DEF vault_required_blocks
  <2>2. d * (n - 1) = 0
    BY <1>3, <2>1
  <2>3. QED
    BY <1>1, <1>2, <1>3, <2>1, <2>2
<1>5. CASE count > MaxEntries
  <2>1. PICK q : q = (count - 2) \div d
    OBVIOUS
  <2>2. count - MaxEntries + InnerData - 1 = count - 2 /\ count - 2 \in Nat
    BY <1>1, <1>5
  <2>3. n = 1 + q
    BY <1>1, <1>2, <1>5, <2>1, <2>2 DEF vault_required_blocks
  <2>4. q \in Nat /\ q * d <= count - 2
    BY <1>3, <2>1, <2>2, DivIs
  <2>5. q * d \in Nat /\ d * (n - 1) = q * d
    BY <1>3, <2>3, <2>4
  <2>6. count <= d * (m - 1) + d + 1
    BY <1>1, <1>2 DEF MaxVolEntries
  <2>7. q < m
    <3> SUFFICES ASSUME q >= m PROVE FALSE
      BY <1>3, <2>4
    <3>1. (q - m) * d \in Nat
      BY <1>3, <2>4
    <3>2. q * d >= m * d /\ m * d = d * (m - 1) + d /\ m * d \in Nat
      BY <1>3, <2>4, <3>1
    <3>3. QED
      BY <1>3, <2>4, <2>5, <2>6, <3>2
  <2>8. QED
    BY <1>1, <1>2, <1>3, <2>3, <2>4, <2>5, <2>7
<1>6. QED
  BY <1>1, <1>4, <1>5

(***************************************************************************)
(* Slots.                                                                  *)
(***************************************************************************)
SlotOk(s) == s.off \in Int /\ s.cap \in Nat \ {0}

LEMMA SpanIs ==
    ASSUME NEW s, SlotOk(s)
    PROVE  /\ Span(s).start = s.off /\ Span(s).end = s.off + vault_slot_len(s.cap)
           /\ Span(s).start \in Int /\ Span(s).end \in Int /\ Span(s).start < Span(s).end
<1>1. vault_slot_len(s.cap) \in Nat \ {0}
  BY SlotLen DEF SlotOk
<1>2. QED
  BY <1>1 DEF SlotOk, Span, range

LEMMA SamePlaceMeets ==
    ASSUME NEW s, NEW t, SlotOk(s), s.off = t.off, s.cap = t.cap
    PROVE  Meet(Span(s), Span(t))
<1>1. SlotOk(t)
  BY DEF SlotOk
<1>2. QED
  BY <1>1, SpanIs DEF Meet

(* Nothing was sealed over anything.                                       *)
Apart(img) ==
    \A s \in img.slots :
        SlotOk(s) /\ \A t \in img.slots \ {s} : ~ Meet(Span(s), Span(t))

LEMMA SealedIs ==
    ASSUME NEW img, Apart(img), NEW s \in img.slots, NEW p, NEW off, NEW cap,
           s.pass = p, s.off = off, s.cap = cap
    PROVE  Sealed(img, p, off, cap) = {s} /\ vault_v2_open(img, p, off, cap) = s.data
<1>1. s \in Sealed(img, p, off, cap)
  BY DEF Apart, Sealed
<1>2. ASSUME NEW t \in Sealed(img, p, off, cap) PROVE t = s
  BY SamePlaceMeets, <1>2 DEF Apart, Sealed
<1>3. Sealed(img, p, off, cap) = {s}
  BY <1>1, <1>2
<1>4. QED
  BY <1>3 DEF vault_v2_open

(***************************************************************************)
(* What a rewrite seals.                                                   *)
(***************************************************************************)
EntrySet == [name : Name, off : Int, cap : Nat \ {0}]

Distinct(dir) ==
    \A i, j \in 1 .. Len(dir.entries) : dir.entries[i].name = dir.entries[j].name => i = j

DirOk(dir) ==
    /\ dir.entries \in Seq(EntrySet) /\ dir.overflow \in Seq(Int)
    /\ Len(dir.entries) <= MaxVolEntries
    /\ Distinct(dir)

Data == Content \cup {NoContent}

PlanOk(img, size, plan) ==
    /\ plan.pass \in Pass /\ vault_anchor_offset(plan.pass, size) \in Nat
    /\ DirOk(plan.dir)
    /\ plan.new \in Data
    /\ \A i \in 1 .. Len(plan.dir.entries) :
          IsNew(plan, i) \/ Extract(img, plan.read, plan.dir.entries[i]) \in Data

PlansOk(img, size, plans) ==
    /\ Len(plans) \in Nat \ {0} /\ size \in Nat
    /\ \A v \in 1 .. Len(plans) : PlanOk(img, size, plans[v])

Blocks(plan) == vault_required_blocks(Len(plan.dir.entries))

Spots(plan) == 1 - Blocks(plan) .. Len(plan.dir.entries)

SlotOf(img, size, plan, i) ==
    IF i > 0 THEN DataSlot(img, plan, i) ELSE BlockSlot(size, plan, - i, Blocks(plan))

(* R is an image with the slots of all plans and no others, none over      *)
(* another and none over the end.                                          *)
Written(img, size, plans, R) ==
    /\ R.size = size /\ BlockLen <= size
    /\ \A v \in 1 .. Len(plans) : ~ PlanRefused(img, size, plans[v])
    /\ \A v \in 1 .. Len(plans) : \A i \in Spots(plans[v]) :
          LET s == SlotOf(img, size, plans[v], i)
          IN  SlotOk(s) /\ s \in R.slots /\ Span(s).end <= size
    /\ \A s \in R.slots : \E v \in 1 .. Len(plans) : \E i \in Spots(plans[v]) :
          s = SlotOf(img, size, plans[v], i)
    /\ \A v, u \in 1 .. Len(plans) : \A i \in Spots(plans[v]), j \in Spots(plans[u]) :
          v # u \/ i # j
          => ~ Meet(Span(SlotOf(img, size, plans[v], i)), Span(SlotOf(img, size, plans[u], j)))

LEMMA PlanBlocks ==
    ASSUME NEW img, NEW size, NEW plan, PlanOk(img, size, plan)
    PROVE  /\ Len(plan.dir.entries) \in Nat /\ Len(plan.dir.overflow) \in Nat
           /\ Blocks(plan) \in 1 .. MaxBlocks
           /\ InnerData \in Nat \ {0} /\ InnerData * (Blocks(plan) - 1) \in Nat
           /\ InnerData * (Blocks(plan) - 1) <= Len(plan.dir.entries)
<1>1. Len(plan.dir.entries) \in Nat /\ Len(plan.dir.overflow) \in Nat
      /\ Len(plan.dir.entries) <= MaxVolEntries
  BY DEF PlanOk, DirOk
<1>2. QED
  BY <1>1, BlocksNeeded DEF Blocks

LEMMA SlotOfOk ==
    ASSUME NEW img, NEW size, NEW plan, PlanOk(img, size, plan), NEW i \in Spots(plan),
           ~ PlanRefused(img, size, plan)
    PROVE  SlotOk(SlotOf(img, size, plan, i))
<1>1. /\ Len(plan.dir.entries) \in Nat /\ Len(plan.dir.overflow) \in Nat /\ Blocks(plan) \in Nat
      /\ plan.dir.entries \in Seq(EntrySet) /\ plan.dir.overflow \in Seq(Int)
      /\ vault_anchor_offset(plan.pass, size) \in Nat
  <2>1. /\ Len(plan.dir.entries) \in Nat /\ Len(plan.dir.overflow) \in Nat
        /\ Blocks(plan) \in 1 .. MaxBlocks
    BY PlanBlocks
  <2>2. QED
    BY <2>1, VaultAssumption DEF PlanOk, DirOk
<1>2. CASE i > 0
  <2>1. i \in 1 .. Len(plan.dir.entries)
    BY <1>1, <1>2 DEF Spots
  <2>2. plan.dir.entries[i] \in EntrySet
    BY <1>1, <2>1
  <2>3. QED
    BY <1>2, <2>2 DEF SlotOf, DataSlot, SlotOk, EntrySet
<1>3. CASE ~ (i > 0)
  <2>1. PICK b : b = - i
    OBVIOUS
  <2>2. b \in 0 .. Blocks(plan) - 1
    BY <1>1, <1>3, <2>1 DEF Spots
  <2>3. Blocks(plan) - 1 <= Len(plan.dir.overflow)
    BY <1>1 DEF PlanRefused, Blocks
  <2>4. b # 0 => plan.dir.overflow[b] \in Int
    BY <1>1, <2>2, <2>3
  <2>5. SlotOf(img, size, plan, i) = BlockSlot(size, plan, b, Blocks(plan))
    BY <1>3, <2>1 DEF SlotOf
  <2>6. QED
    BY <1>1, <2>4, <2>5, BlockLenIs DEF BlockSlot, SlotOk
<1>4. QED
  BY <1>2, <1>3

LEMMA PlacesAre ==
    ASSUME NEW plans
    PROVE  /\ \A v \in 1 .. Len(plans) : \A i \in Spots(plans[v]) : <<v, i>> \in Places(plans)
           /\ \A x \in Places(plans) : \E v \in 1 .. Len(plans) : \E i \in Spots(plans[v]) :
                 x = <<v, i>>
  BY DEF Places, Spots, Blocks

LEMMA SlotsAre ==
    ASSUME NEW img, NEW size, NEW plans, NEW v \in 1 .. Len(plans), NEW i \in Spots(plans[v])
    PROVE  Slots(img, size, plans)[<<v, i>>] = SlotOf(img, size, plans[v], i)
<1>1. PICK x : x = <<v, i>>
  OBVIOUS
<1>2. x \in Places(plans) /\ x[1] = v /\ x[2] = i
  BY <1>1, PlacesAre
<1>3. QED
  BY <1>1, <1>2 DEF Slots, SlotOf, Blocks

LEMMA RewriteShape ==
    ASSUME NEW img, NEW size, NEW plans, PlansOk(img, size, plans),
           NEW R, R = vault_rewrite(img, size, plans), R # Truncated
    PROVE  Written(img, size, plans, R)
<1> DEFINE slot == Slots(img, size, plans)
<1>1. /\ \A v \in 1 .. Len(plans) : ~ PlanRefused(img, size, plans[v])
      /\ ~ Collides(size, slot)
      /\ R = [size |-> size, slots |-> {slot[x] : x \in DOMAIN slot}]
  BY DEF vault_rewrite
<1>2. DOMAIN slot = Places(plans)
  BY DEF Slots
<1>3. ASSUME NEW v \in 1 .. Len(plans), NEW i \in Spots(plans[v])
      PROVE  <<v, i>> \in Places(plans) /\ slot[<<v, i>>] = SlotOf(img, size, plans[v], i)
  BY SlotsAre, PlacesAre
<1>4. R.size = size /\ R.slots = {slot[x] : x \in Places(plans)}
  BY <1>1, <1>2
<1> HIDE DEF slot
<1>5. ASSUME NEW v \in 1 .. Len(plans), NEW i \in Spots(plans[v])
      PROVE  LET s == SlotOf(img, size, plans[v], i)
             IN  SlotOk(s) /\ s \in R.slots /\ Span(s).end <= size
  <2>1. PICK s : s = SlotOf(img, size, plans[v], i)
    OBVIOUS
  <2>2. SlotOk(s)
    BY <1>1, <2>1, SlotOfOk DEF PlansOk
  <2>3. s \in R.slots
    BY <1>3, <1>4, <2>1
  <2>4. ~ (Span(s).end > size)
    BY <1>1, <1>2, <1>3, <2>1 DEF Collides
  <2>5. Span(s).end <= size
    BY <2>2, <2>4, SpanIs DEF PlansOk
  <2>6. QED
    BY <2>1, <2>2, <2>3, <2>5
<1>6. ASSUME NEW s \in R.slots
      PROVE  \E v \in 1 .. Len(plans) : \E i \in Spots(plans[v]) :
                s = SlotOf(img, size, plans[v], i)
  <2>1. PICK x \in Places(plans) : s = slot[x]
    BY <1>4
  <2>2. PICK v \in 1 .. Len(plans) : \E i \in Spots(plans[v]) : x = <<v, i>>
    BY PlacesAre
  <2>3. PICK i \in Spots(plans[v]) : x = <<v, i>>
    BY <2>2
  <2>4. QED
    BY <1>3, <2>1, <2>3
<1>7. ASSUME NEW v \in 1 .. Len(plans), NEW u \in 1 .. Len(plans),
             NEW i \in Spots(plans[v]), NEW j \in Spots(plans[u]), v # u \/ i # j
      PROVE  ~ Meet(Span(SlotOf(img, size, plans[v], i)), Span(SlotOf(img, size, plans[u], j)))
  <2>1. PICK x, y : x = <<v, i>> /\ y = <<u, j>>
    OBVIOUS
  <2>2. x # y
    BY <1>7, <2>1
  <2>3. /\ x \in Places(plans) /\ slot[x] = SlotOf(img, size, plans[v], i)
        /\ y \in Places(plans) /\ slot[y] = SlotOf(img, size, plans[u], j)
    BY <1>3, <2>1
  <2>4. ~ Meet(Span(slot[x]), Span(slot[y]))
    BY <1>1, <1>2, <2>2, <2>3 DEF Collides, vault_ranges_overlap
  <2>5. QED
    BY <2>3, <2>4
<1>8. BlockLen <= size
  <2>1. 1 \in 1 .. Len(plans)
    BY DEF PlansOk
  <2>2. ~ (size < BlockLen)
    BY <1>1, <2>1 DEF PlanRefused
  <2>3. QED
    BY <2>2, BlockLenIs DEF PlansOk
<1>9. QED
  BY <1>1, <1>4, <1>5, <1>6, <1>7, <1>8 DEF Written

LEMMA WrittenApart ==
    ASSUME NEW img, NEW size, NEW plans, NEW R, Written(img, size, plans, R)
    PROVE  Apart(R)
<1> SUFFICES ASSUME NEW s \in R.slots
             PROVE  SlotOk(s) /\ \A t \in R.slots \ {s} : ~ Meet(Span(s), Span(t))
  BY DEF Apart
<1>1. PICK v \in 1 .. Len(plans) : \E i \in Spots(plans[v]) : s = SlotOf(img, size, plans[v], i)
  BY DEF Written
<1>2. PICK i \in Spots(plans[v]) : s = SlotOf(img, size, plans[v], i)
  BY <1>1
<1>3. SlotOk(s)
  BY <1>2 DEF Written
<1>4. ASSUME NEW t \in R.slots \ {s} PROVE ~ Meet(Span(s), Span(t))
  <2>1. PICK u \in 1 .. Len(plans) : \E j \in Spots(plans[u]) : t = SlotOf(img, size, plans[u], j)
    BY DEF Written
  <2>2. PICK j \in Spots(plans[u]) : t = SlotOf(img, size, plans[u], j)
    BY <2>1
  <2>3. v # u \/ i # j
    BY <1>2, <1>4, <2>2
  <2>4. QED
    BY <1>2, <2>2, <2>3 DEF Written
<1>5. QED
  BY <1>3, <1>4

LEMMA FirstSpot ==
    ASSUME NEW img, NEW size, NEW plan, PlanOk(img, size, plan)
    PROVE  0 \in Spots(plan) /\ SlotOf(img, size, plan, 0) = BlockSlot(size, plan, 0, Blocks(plan))
<1>1. Blocks(plan) \in 1 .. MaxBlocks /\ MaxBlocks \in Nat /\ Len(plan.dir.entries) \in Nat
  BY PlanBlocks, VaultAssumption
<1>2. 0 \in Spots(plan)
  BY <1>1 DEF Spots
<1>3. PICK i, b : i = 0 /\ b = - i
  OBVIOUS
<1>4. b \in Int /\ b >= 0 /\ b <= 0
  BY <1>3
<1>5. b = 0 /\ ~ (i > 0)
  <2>1. b = 0
    BY <1>4
  <2>2. ~ (i > 0)
    BY <1>3
  <2>3. QED
    BY <2>1, <2>2
<1>6. SlotOf(img, size, plan, i) = BlockSlot(size, plan, b, Blocks(plan))
  BY <1>3, <1>5 DEF SlotOf
<1>7. QED
  BY <1>2, <1>3, <1>5, <1>6

LEMMA PassesDiffer ==
    ASSUME NEW img, NEW size, NEW plans, PlansOk(img, size, plans),
           NEW R, Written(img, size, plans, R),
           NEW v \in 1 .. Len(plans), NEW u \in 1 .. Len(plans), plans[v].pass = plans[u].pass
    PROVE  v = u
<1> SUFFICES ASSUME v # u PROVE FALSE
  OBVIOUS
<1>1. PICK s, t : s = SlotOf(img, size, plans[v], 0) /\ t = SlotOf(img, size, plans[u], 0)
  OBVIOUS
<1>2. PlanOk(img, size, plans[v]) /\ PlanOk(img, size, plans[u])
  BY DEF PlansOk
<1>3. /\ 0 \in Spots(plans[v]) /\ 0 \in Spots(plans[u])
      /\ s = BlockSlot(size, plans[v], 0, Blocks(plans[v]))
      /\ t = BlockSlot(size, plans[u], 0, Blocks(plans[u]))
  BY <1>1, <1>2, FirstSpot
<1>4. SlotOk(s) /\ ~ Meet(Span(s), Span(t))
  BY <1>1, <1>3 DEF Written
<1>5. s.off = t.off /\ s.cap = t.cap
  BY <1>3 DEF BlockSlot
<1>6. QED
  BY <1>4, <1>5, SamePlaceMeets

LEMMA SlotPass ==
    ASSUME NEW img, NEW size, NEW plan, NEW i
    PROVE  SlotOf(img, size, plan, i).pass = plan.pass
  BY DEF SlotOf, DataSlot, BlockSlot

(***************************************************************************)
(* vault_open_volume.                                                      *)
(***************************************************************************)
DirSet == [state : {"open", "done", "bad"}, at : Int, entries : Seq(EntrySet),
           overflow : Seq(Int)]

Start(img, p) == [NoDir EXCEPT !.state = "open", !.at = vault_anchor_offset(p, img.size)]

Walks(w, img, p) ==
    \A b \in 0 .. MaxBlocks : w[b] = IF b = 0 THEN Start(img, p) ELSE Step(img, p, w[b - 1])

(* The recursive definition of the walk defines a function.                *)
LEMMA WalkIs ==
    ASSUME NEW img, NEW p
    PROVE  \E w : /\ Walks(w, img, p)
                  /\ vault_open_volume(img, p) = IF img.size < BlockLen THEN NoDir
                                                 ELSE w[MaxBlocks]
<1> DEFINE n == MaxBlocks
           Body(f, b) == IF b = 0 THEN Start(img, p) ELSE Step(img, p, f[b - 1])
           Rec(f, k) == \A b \in 0 .. n : b <= k => f[b] = Body(f, b)
           S == {k \in Nat : \E f : f = [b \in 0 .. n |-> f[b]] /\ Rec(f, k)}
           Whole(f) == f = [b \in 0 .. n |-> Body(f, b)]
<1>0. n \in Nat
  BY VaultAssumption
<1>1. 0 \in S
  <2> DEFINE f == [b \in 0 .. n |-> Start(img, p)]
  <2>1. f = [b \in 0 .. n |-> f[b]] /\ Rec(f, 0)
    OBVIOUS
  <2> HIDE DEF f
  <2>2. QED
    BY <2>1
<1>2. ASSUME NEW k \in Nat, k \in S PROVE k + 1 \in S
  <2>1. PICK f : f = [b \in 0 .. n |-> f[b]] /\ Rec(f, k)
    BY <1>2
  <2> DEFINE c == Body(f, k + 1)
             g == [b \in 0 .. n |-> IF b = k + 1 THEN c ELSE f[b]]
  <2>2. ASSUME NEW b \in 0 .. n, b <= k + 1 PROVE g[b] = Body(g, b)
    <3>1. b # 0 => b - 1 \in 0 .. n /\ b - 1 # k + 1 /\ b - 1 <= k
      BY <1>0, <2>2
    <3>2. b # 0 => g[b - 1] = f[b - 1]
      BY <3>1
    <3>3. Body(g, b) = Body(f, b)
      <4> HIDE DEF g
      <4>1. QED
        BY <3>2
    <3>4. g[b] = Body(f, b)
      <4> HIDE DEF c
      <4>1. CASE b = k + 1
        BY <4>1 DEF c
      <4>2. CASE b # k + 1
        <5>1. b <= k
          BY <1>0, <2>2, <4>2
        <5>2. QED
          BY <2>1, <4>2, <5>1
      <4>3. QED
        BY <4>1, <4>2
    <3>5. QED
      BY <3>3, <3>4
  <2>3. g = [b \in 0 .. n |-> g[b]]
    OBVIOUS
  <2> HIDE DEF g
  <2>4. Rec(g, k + 1)
    BY <2>2
  <2> HIDE DEF Rec
  <2>5. \E f1 : f1 = [b \in 0 .. n |-> f1[b]] /\ Rec(f1, k + 1)
    BY <2>3, <2>4
  <2>6. k + 1 \in Nat
    OBVIOUS
  <2>7. QED
    BY <2>5, <2>6
<1>3. n \in S
  <2> HIDE DEF S
  <2>1. QED
    BY <1>0, <1>1, <1>2, AllNumbers
<1>4. PICK f : f = [b \in 0 .. n |-> f[b]] /\ Rec(f, n)
  BY <1>3
<1>5. \A b \in 0 .. n : f[b] = Body(f, b)
  <2> HIDE DEF Body
  <2>1. QED
    BY <1>0, <1>4
<1>6. Whole(f)
  <2> HIDE DEF Body
  <2>1. QED
    BY <1>4, <1>5
<1> DEFINE w == CHOOSE f0 : Whole(f0)
<1>7. vault_open_volume(img, p) = IF img.size < BlockLen THEN NoDir ELSE w[n]
  BY DEF vault_open_volume, Start
<1>8. Whole(w)
  <2> HIDE DEF Whole
  <2>1. QED
    BY <1>6
<1> HIDE DEF w
<1>9. Walks(w, img, p)
  BY <1>8 DEF Walks
<1>10. QED
  BY <1>7, <1>9

(* A step from a block that does not open, and after the end.              *)
LEMMA StepStops ==
    ASSUME NEW img, NEW p, NEW s, s.state # "open"
    PROVE  Step(img, p, s) = s
  BY DEF Step

LEMMA StepFails ==
    ASSUME NEW img, NEW p, NEW s, s.state = "open", Sealed(img, p, s.at, AnchorCap) = {}
    PROVE  Step(img, p, s) = [s EXCEPT !.state = "bad"]
  BY DEF Step

(* The walk after b steps, along the blocks of a plan.                     *)
WalkAt(s, b, size, plan) ==
    LET n == Blocks(plan)
        E == plan.dir.entries
        O == plan.dir.overflow
    IN  /\ s \in DirSet
        /\ b < n => /\ s.state = "open" /\ s.at = BlockSlot(size, plan, b, n).off
                    /\ s.entries = SubSeq(E, 1, InnerData * b)
                    /\ s.overflow = SubSeq(O, 1, b)
        /\ b >= n => s.state = "done" /\ s.entries = E /\ s.overflow = SubSeq(O, 1, n - 1)

LEMMA TimesMonotone ==
    ASSUME NEW a \in Int, NEW b \in Int, NEW c \in Nat, a <= b
    PROVE  a * c \in Int /\ b * c \in Int /\ a * c <= b * c
<1>1. (b - a) * c >= 0
  OBVIOUS
<1>2. (b - a) * c = b * c - a * c
  OBVIOUS
<1>3. a * c \in Int /\ b * c \in Int
  OBVIOUS
<1>4. QED
  BY <1>1, <1>2, <1>3

(* The shares of the blocks.                                               *)
LEMMA Shares ==
    ASSUME NEW img, NEW size, NEW plan, PlanOk(img, size, plan),
           NEW b \in 0 .. Blocks(plan) - 1
    PROVE  /\ InnerData * b \in Nat /\ InnerData * b <= Len(plan.dir.entries)
           /\ InnerData * (b + 1) = InnerData * b + InnerData
           /\ b # Blocks(plan) - 1 =>
                 InnerData * b + InnerData <= Len(plan.dir.entries)
<1>1. PICK d, n : d = InnerData /\ n = Blocks(plan)
  OBVIOUS
<1>2. PICK L : L = Len(plan.dir.entries)
  OBVIOUS
<1>3. d \in Nat \ {0} /\ d * (n - 1) \in Nat /\ d * (n - 1) <= L /\ L \in Nat
  BY <1>1, <1>2, PlanBlocks
<1>4. n \in Nat /\ b \in Nat /\ b <= n - 1
  <2>1. n \in 1 .. MaxBlocks /\ MaxBlocks \in Nat
    BY <1>1, PlanBlocks, VaultAssumption
  <2>2. QED
    BY <1>1, <2>1
<1>5. b * d <= (n - 1) * d /\ b * d \in Nat
  BY <1>3, <1>4, TimesMonotone
<1>6. d * b = b * d /\ d * (n - 1) = (n - 1) * d /\ d * (b + 1) = d * b + d
  BY <1>3, <1>4
<1>7. ASSUME b # n - 1 PROVE d * b + d <= L
  <2>1. (b + 1) * d <= (n - 1) * d /\ (b + 1) * d = b * d + d
    BY <1>3, <1>4, <1>7, TimesMonotone
  <2>2. QED
    BY <1>3, <1>4, <1>5, <1>6, <2>1
<1>8. QED
  BY <1>1, <1>2, <1>3, <1>4, <1>5, <1>6, <1>7

LEMMA Adjacent ==
    ASSUME NEW T, NEW E \in Seq(T), NEW a \in 0 .. Len(E), NEW b \in a .. Len(E)
    PROVE  SubSeq(E, 1, a) \o SubSeq(E, a + 1, b) = SubSeq(E, 1, b)
<1>1. 1 \in 1 .. Len(E) + 1 /\ a \in 1 - 1 .. Len(E)
  OBVIOUS
<1>2. QED
  BY <1>1, ConcatAdjacentSubSeq

(* The block the walk is at.                                               *)
OpensAt(R, plan, t) ==
    /\ t.pass = plan.pass /\ t.cap = AnchorCap
    /\ Sealed(R, plan.pass, t.off, AnchorCap) = {t}
    /\ vault_v2_open(R, plan.pass, t.off, AnchorCap) = t.data
    /\ t.off \in Int /\ t.off + BlockLen <= R.size

LEMMA BlockAt ==
    ASSUME NEW img, NEW size, NEW plans, PlansOk(img, size, plans),
           NEW R, Written(img, size, plans, R), NEW v \in 1 .. Len(plans),
           NEW plan, plan = plans[v], NEW b \in 0 .. Blocks(plan) - 1,
           NEW t, t = BlockSlot(size, plan, b, Blocks(plan))
    PROVE  OpensAt(R, plan, t)
<1>1. PlanOk(img, size, plan) /\ Apart(R) /\ R.size = size
  <2>1. Apart(R)
    BY WrittenApart
  <2>2. PlanOk(img, size, plan) /\ R.size = size
    BY DEF PlansOk, Written
  <2>3. QED
    BY <2>1, <2>2
<1>2. Blocks(plan) \in 1 .. MaxBlocks /\ MaxBlocks \in Nat /\ Len(plan.dir.entries) \in Nat
  BY <1>1, PlanBlocks, VaultAssumption
<1>3. PICK i : i = - b
  OBVIOUS
<1>4. i \in Spots(plan) /\ ~ (i > 0)
  BY <1>2, <1>3 DEF Spots
<1>5. PICK c : c = - i
  OBVIOUS
<1>6. b - c <= 0 /\ c - b <= 0 /\ c \in Int
  BY <1>2, <1>3, <1>5
<1>7. c = b
  BY <1>6
<1>8. SlotOf(img, size, plan, i) = t
  BY <1>4, <1>5, <1>7 DEF SlotOf
<1>9. SlotOk(t) /\ t \in R.slots /\ Span(t).end <= size
  BY <1>4, <1>8 DEF Written
<1>10. t.pass = plan.pass /\ t.cap = AnchorCap
  BY DEF BlockSlot
<1>11. Span(t).end = t.off + BlockLen /\ t.off \in Int
  BY <1>9, <1>10, SpanIs DEF BlockLen, SlotOk
<1>12. /\ Sealed(R, plan.pass, t.off, AnchorCap) = {t}
       /\ vault_v2_open(R, plan.pass, t.off, AnchorCap) = t.data
  BY <1>1, <1>9, <1>10, SealedIs
<1>13. QED
  BY <1>1, <1>9, <1>10, <1>11, <1>12 DEF OpensAt

LEMMA WalkStep ==
    ASSUME NEW img, NEW size, NEW plans, PlansOk(img, size, plans),
           NEW R, Written(img, size, plans, R), NEW v \in 1 .. Len(plans),
           NEW plan, plan = plans[v], NEW b \in Nat, NEW s, WalkAt(s, b, size, plan)
    PROVE  WalkAt(Step(R, plan.pass, s), b + 1, size, plan)
<1>0. PICK n, E, O : n = Blocks(plan) /\ E = plan.dir.entries /\ O = plan.dir.overflow
  OBVIOUS
<1>1. PlanOk(img, size, plan)
  BY DEF PlansOk
<1>2. /\ n \in 1 .. MaxBlocks /\ MaxBlocks \in Nat /\ Len(E) \in Nat /\ Len(O) \in Nat
      /\ E \in Seq(EntrySet) /\ O \in Seq(Int) /\ Len(E) <= MaxVolEntries
  BY <1>0, <1>1, PlanBlocks, VaultAssumption DEF PlanOk, DirOk
<1>3. n - 1 <= Len(O)
  <2>1. ~ PlanRefused(img, size, plan)
    BY DEF Written
  <2>2. QED
    BY <1>0, <1>2, <2>1 DEF PlanRefused, Blocks
<1>4. CASE b >= n
  <2>1. s.state = "done" /\ s.entries = E /\ s.overflow = SubSeq(O, 1, n - 1) /\ s \in DirSet
    BY <1>0, <1>4 DEF WalkAt
  <2>2. Step(R, plan.pass, s) = s
    BY <2>1, StepStops
  <2>3. ~ (b + 1 < n)
    BY <1>2, <1>4
  <2>4. QED
    BY <1>0, <2>1, <2>2, <2>3 DEF WalkAt
<1>5. CASE b < n
  <2>0. b \in 0 .. Blocks(plan) - 1
    BY <1>0, <1>2, <1>5
  <2>1. PICK t : t = BlockSlot(size, plan, b, n)
    OBVIOUS
  <2>2. /\ s \in DirSet /\ s.state = "open" /\ s.at = t.off
        /\ s.entries = SubSeq(E, 1, InnerData * b) /\ s.overflow = SubSeq(O, 1, b)
    BY <1>0, <1>5, <2>1 DEF WalkAt
  <2>3. /\ Sealed(R, plan.pass, s.at, AnchorCap) = {t}
        /\ vault_v2_open(R, plan.pass, s.at, AnchorCap) = t.data
        /\ s.at \in Int /\ s.at + BlockLen <= R.size
    <3>1. t = BlockSlot(size, plan, b, Blocks(plan))
      BY <1>0, <2>1
    <3>2. OpensAt(R, plan, t)
      BY <2>0, <3>1, BlockAt
    <3>3. QED
      BY <2>2, <3>2 DEF OpensAt
  <2>4. R.size \in Nat
    BY DEF Written, PlansOk
  <2>5. ~ (s.at + BlockLen > R.size)
    BY <2>3, <2>4, BlockLenIs
  <2>6. PICK lo : lo = InnerData * b
    OBVIOUS
  <2>7. /\ lo \in Nat /\ lo <= Len(E) /\ InnerData * (b + 1) = lo + InnerData
        /\ InnerData \in Nat \ {0}
        /\ b # n - 1 => lo + InnerData <= Len(E)
    BY <1>0, <1>1, <2>0, <2>6, Shares, PlanBlocks
  <2>8. s.entries = SubSeq(E, 1, lo) /\ s.entries \in Seq(EntrySet) /\ Len(s.entries) = lo
    <3>1. s.entries = SubSeq(E, 1, lo)
      BY <2>2, <2>6
    <3>2. E \in Seq(EntrySet) /\ Len(E) \in Nat
      BY <1>2
    <3>3. SubSeq(E, 1, lo) \in Seq(EntrySet) /\ Len(SubSeq(E, 1, lo)) = lo
      BY <2>7, <3>2
    <3>4. QED
      BY <3>1, <3>3
  <2>9. Len(s.overflow) = b /\ s.overflow \in Seq(Int)
    BY <1>2, <1>3, <1>5, <2>2
  <2>10. CASE b = n - 1
    <3>1. PICK data : data = SubSeq(E, lo + 1, Len(E))
      OBVIOUS
    <3>2. t.data = Block(data, <<>>)
      BY <1>0, <2>1, <2>6, <2>10, <3>1 DEF BlockSlot
    <3>3. t.data.entries = data /\ t.data.over = <<>>
      BY <3>2 DEF Block
    <3>4. data \in Seq(EntrySet) /\ Len(data) = Len(E) - lo
      BY <1>2, <2>7, <3>1
    <3>5. s.entries \o data = E
      <4>1. SubSeq(E, 1, lo) \o SubSeq(E, lo + 1, Len(E)) = SubSeq(E, 1, Len(E))
        <5>1. lo \in 0 .. Len(E) /\ Len(E) \in lo .. Len(E)
          BY <1>2, <2>7
        <5>2. QED
          BY <1>2, <5>1, Adjacent
      <4>2. SubSeq(E, 1, Len(E)) = E
        BY <1>2, SubSeqFull
      <4>3. QED
        BY <2>8, <3>1, <4>1, <4>2
    <3>6. ~ (Len(s.entries) + Len(data) > MaxVolEntries) /\ ~ (Len(t.data.over) > 1)
      <4>1. Len(s.entries) + Len(data) = Len(E)
        BY <1>2, <2>7, <2>8, <3>4
      <4>2. MaxVolEntries \in Int
        BY VaultAssumption DEF MaxVolEntries, InnerData
      <4>3. Len(t.data.over) = 0
        BY <3>3
      <4>4. QED
        BY <1>2, <4>1, <4>2, <4>3
    <3>7. Step(R, plan.pass, s) = [s EXCEPT !.state = "done", !.entries = @ \o data]
      BY <2>2, <2>3, <2>5, <3>3, <3>6 DEF Step
    <3>8. PICK z : z = Step(R, plan.pass, s)
      OBVIOUS
    <3>9. /\ z \in DirSet /\ z.state = "done" /\ z.entries = E /\ z.overflow = SubSeq(O, 1, b)
      BY <1>2, <2>2, <3>5, <3>7, <3>8 DEF DirSet
    <3>10. ~ (b + 1 < n)
      BY <1>2, <2>10
    <3>11. QED
      BY <1>0, <2>10, <3>8, <3>9, <3>10 DEF WalkAt
  <2>11. CASE b # n - 1
    <3>1. PICK data : data = SubSeq(E, lo + 1, lo + InnerData)
      OBVIOUS
    <3>2. t.data = Block(data, <<O[b + 1]>>)
      <4>1. lo + 1 + InnerData - 1 = lo + InnerData
        BY <2>7
      <4>2. t.data = Block(SubSeq(E, lo + 1, lo + 1 + InnerData - 1), <<O[b + 1]>>)
        BY <1>0, <2>1, <2>6, <2>11 DEF BlockSlot
      <4>3. QED
        BY <3>1, <4>1, <4>2
    <3>3. t.data.entries = data /\ t.data.over = <<O[b + 1]>>
      <4>1. PICK o : o = O[b + 1]
        OBVIOUS
      <4>2. t.data = Block(data, <<o>>)
        BY <3>2, <4>1
      <4>3. QED
        BY <4>1, <4>2 DEF Block
    <3>4. data \in Seq(EntrySet) /\ Len(data) = InnerData
      BY <1>2, <2>7, <2>11, <3>1
    <3>5. s.entries \o data = SubSeq(E, 1, lo + InnerData)
      <4>1. SubSeq(E, 1, lo) \o SubSeq(E, lo + 1, lo + InnerData) = SubSeq(E, 1, lo + InnerData)
        <5>1. lo \in 0 .. Len(E) /\ lo + InnerData \in lo .. Len(E)
          BY <1>2, <2>7, <2>11
        <5>2. QED
          BY <1>2, <5>1, Adjacent
      <4>2. QED
        BY <2>8, <3>1, <4>1
    <3>6. ~ (Len(s.entries) + Len(data) > MaxVolEntries) /\ ~ (Len(t.data.over) > 1)
      <4>1. Len(s.entries) + Len(data) <= Len(E)
        BY <1>2, <2>7, <2>8, <2>11, <3>4
      <4>2. MaxVolEntries \in Int
        BY VaultAssumption DEF MaxVolEntries, InnerData
      <4>3. Len(t.data.over) = 1
        BY <3>3
      <4>4. Len(s.entries) + Len(data) \in Int
        BY <2>7, <2>8, <3>4
      <4>5. QED
        BY <1>2, <4>1, <4>2, <4>3, <4>4
    <3>7. ~ (Len(s.overflow) >= MaxBlocks - 1)
      BY <1>2, <1>5, <2>9, <2>11
    <3>8. b + 1 \in 1 .. Len(O) /\ O[b + 1] \in Int /\ t.data.over # <<>>
          /\ t.data.over[1] = O[b + 1]
      BY <1>2, <1>3, <1>5, <2>11, <3>3
    <3>9. Step(R, plan.pass, s) = [s EXCEPT !.entries = @ \o data,
                                            !.overflow = Append(@, O[b + 1]),
                                            !.at = O[b + 1]]
      BY <2>2, <2>3, <2>5, <3>3, <3>6, <3>7, <3>8 DEF Step
    <3>10. PICK z : z = Step(R, plan.pass, s)
      OBVIOUS
    <3>11. Append(s.overflow, O[b + 1]) = SubSeq(O, 1, b + 1)
      BY <1>2, <2>2, <3>8
    <3>12. /\ z \in DirSet /\ z.state = "open" /\ z.at = O[b + 1]
           /\ z.entries = SubSeq(E, 1, lo + InnerData) /\ z.overflow = SubSeq(O, 1, b + 1)
      <4>1. /\ SubSeq(E, 1, lo + InnerData) \in Seq(EntrySet)
            /\ SubSeq(O, 1, b + 1) \in Seq(Int)
        BY <1>2, <2>7, <2>11, <3>8
      <4>2. PICK F, P : F = SubSeq(E, 1, lo + InnerData) /\ P = SubSeq(O, 1, b + 1)
        OBVIOUS
      <4>3. F \in Seq(EntrySet) /\ P \in Seq(Int) /\ O[b + 1] \in Int
        BY <3>8, <4>1, <4>2
      <4>4. z = [s EXCEPT !.entries = F, !.overflow = P, !.at = O[b + 1]]
        BY <3>5, <3>9, <3>10, <3>11, <4>2
      <4>5. QED
        BY <2>2, <4>2, <4>3, <4>4 DEF DirSet
    <3>13. BlockSlot(size, plan, b + 1, n).off = O[b + 1]
      BY <1>0 DEF BlockSlot
    <3>14. b + 1 < n /\ ~ (b + 1 >= n)
      BY <1>2, <1>5, <2>11
    <3>15. QED
      BY <1>0, <2>7, <3>10, <3>12, <3>13, <3>14 DEF WalkAt
  <2>12. QED
    BY <2>10, <2>11
<1>6. QED
  BY <1>2, <1>4, <1>5

(* A planned volume opens with the planned directory.                      *)
LEMMA OpensPlanned ==
    ASSUME NEW img, NEW size, NEW plans, PlansOk(img, size, plans),
           NEW R, Written(img, size, plans, R), NEW v \in 1 .. Len(plans),
           NEW plan, plan = plans[v], NEW dir, dir = vault_open_volume(R, plan.pass)
    PROVE  /\ Opened(dir) /\ dir.entries = plan.dir.entries
           /\ dir.overflow = SubSeq(plan.dir.overflow, 1, Blocks(plan) - 1)
<1>1. PlanOk(img, size, plan) /\ R.size = size /\ BlockLen <= size /\ size \in Nat
  BY DEF PlansOk, Written
<1>2. PICK w : Walks(w, R, plan.pass) /\ dir = IF R.size < BlockLen THEN NoDir ELSE w[MaxBlocks]
  BY WalkIs
<1>3. Blocks(plan) \in 1 .. MaxBlocks /\ MaxBlocks \in Nat
  BY <1>1, PlanBlocks, VaultAssumption
<1> DEFINE S == {b \in Nat : b <= MaxBlocks => WalkAt(w[b], b, size, plan)}
<1>4. 0 \in S
  <2>1. w[0] = Start(R, plan.pass)
    BY <1>2, <1>3 DEF Walks
  <2>2. PICK a : a = vault_anchor_offset(plan.pass, size)
    OBVIOUS
  <2>3. w[0] = [state |-> "open", at |-> a, entries |-> <<>>, overflow |-> <<>>]
    BY <1>1, <2>1, <2>2 DEF Start, NoDir
  <2>4. a \in Int
    BY <1>1, <2>2 DEF PlanOk
  <2>5. w[0] \in DirSet
    BY <2>3, <2>4 DEF DirSet
  <2>6. BlockSlot(size, plan, 0, Blocks(plan)).off = a
    BY <2>2 DEF BlockSlot
  <2>7. /\ SubSeq(plan.dir.entries, 1, InnerData * 0) = <<>>
        /\ SubSeq(plan.dir.overflow, 1, 0) = <<>>
    <3>1. InnerData * 0 = 0
      BY VaultAssumption DEF InnerData
    <3>2. QED
      BY <3>1, SubSeqEmpty
  <2>8. 0 < Blocks(plan) /\ ~ (0 >= Blocks(plan))
    BY <1>3
  <2>9. WalkAt(w[0], 0, size, plan)
    <3>1. PICK s : s = w[0]
      OBVIOUS
    <3>2. s.state = "open" /\ s.at = a /\ s.entries = <<>> /\ s.overflow = <<>> /\ s \in DirSet
      BY <2>3, <2>5, <3>1
    <3>3. WalkAt(s, 0, size, plan)
      <4>1. PICK lo : lo = InnerData * 0
        OBVIOUS
      <4>2. s.entries = SubSeq(plan.dir.entries, 1, lo)
        BY <2>7, <3>2, <4>1
      <4>3. s.overflow = SubSeq(plan.dir.overflow, 1, 0)
        BY <2>7, <3>2
      <4>4. s.at = BlockSlot(size, plan, 0, Blocks(plan)).off
        BY <2>6, <3>2
      <4>5. QED
        BY <2>8, <3>2, <4>1, <4>2, <4>3, <4>4 DEF WalkAt
    <3>4. QED
      BY <3>1, <3>3
  <2>10. QED
    BY <2>9
<1>5. ASSUME NEW b \in Nat, b \in S PROVE b + 1 \in S
  <2>1. ASSUME b + 1 <= MaxBlocks PROVE WalkAt(w[b + 1], b + 1, size, plan)
    <3>1. b <= MaxBlocks
      BY <1>3, <2>1
    <3>2. WalkAt(w[b], b, size, plan)
      BY <1>5, <3>1
    <3>3. b + 1 \in 0 .. MaxBlocks /\ b + 1 # 0 /\ (b + 1) - 1 = b
      BY <1>3, <2>1
    <3>4. w[b + 1] = Step(R, plan.pass, w[b])
      BY <1>2, <3>3 DEF Walks
    <3>5. PICK s : s = w[b]
      OBVIOUS
    <3>6. WalkAt(s, b, size, plan)
      BY <3>2, <3>5
    <3>7. WalkAt(Step(R, plan.pass, s), b + 1, size, plan)
      BY <3>6, WalkStep
    <3>8. QED
      BY <3>4, <3>5, <3>7
  <2>2. QED
    BY <2>1
<1>6. WalkAt(w[MaxBlocks], MaxBlocks, size, plan)
  <2> HIDE DEF S
  <2>1. MaxBlocks \in S
    BY <1>3, <1>4, <1>5, AllNumbers
  <2>2. QED
    BY <1>3, <2>1 DEF S
<1>7. MaxBlocks >= Blocks(plan) /\ ~ (R.size < BlockLen)
  BY <1>1, <1>3, BlockLenIs
<1>8. dir = w[MaxBlocks]
  BY <1>2, <1>7
<1>9. QED
  BY <1>6, <1>7, <1>8 DEF WalkAt, Opened

(* No other passphrase opens anything.                                     *)
LEMMA OpensUnplanned ==
    ASSUME NEW img, NEW size, NEW plans, NEW R, Written(img, size, plans, R),
           NEW p, \A v \in 1 .. Len(plans) : plans[v].pass # p
    PROVE  ~ Opened(vault_open_volume(R, p))
<1>1. \A s \in R.slots : s.pass # p
  <2>1. ASSUME NEW s \in R.slots PROVE s.pass # p
    <3>1. PICK v \in 1 .. Len(plans) : \E i \in Spots(plans[v]) :
             s = SlotOf(img, size, plans[v], i)
      BY DEF Written
    <3>2. PICK i \in Spots(plans[v]) : s = SlotOf(img, size, plans[v], i)
      BY <3>1
    <3>3. QED
      BY <3>2, SlotPass
  <2>2. QED
    BY <2>1
<1>2. \A off, cap : Sealed(R, p, off, cap) = {}
  BY <1>1 DEF Sealed
<1>3. PICK w : /\ Walks(w, R, p)
               /\ vault_open_volume(R, p) = IF R.size < BlockLen THEN NoDir ELSE w[MaxBlocks]
  BY WalkIs
<1>4. MaxBlocks \in Nat \ {0}
  BY VaultAssumption
<1> DEFINE S == {b \in Nat : b + 1 <= MaxBlocks => w[b + 1].state = "bad"}
<1>5. 0 \in S
  <2>1. w[0] = Start(R, p)
    BY <1>3, <1>4 DEF Walks
  <2>2. PICK a : a = vault_anchor_offset(p, R.size)
    OBVIOUS
  <2>3. w[0] = [state |-> "open", at |-> a, entries |-> <<>>, overflow |-> <<>>]
    BY <2>1, <2>2 DEF Start, NoDir
  <2>4. 1 \in 0 .. MaxBlocks /\ 1 # 0 /\ 1 - 1 = 0 /\ 0 + 1 = 1
    BY <1>4
  <2>5. w[1] = Step(R, p, w[0])
    BY <1>3, <2>4 DEF Walks
  <2>6. w[1] = [w[0] EXCEPT !.state = "bad"]
    BY <1>2, <2>3, <2>5, StepFails
  <2>7. w[1].state = "bad"
    BY <2>3, <2>6
  <2>8. QED
    BY <2>4, <2>7
<1>6. ASSUME NEW b \in Nat, b \in S PROVE b + 1 \in S
  <2>1. ASSUME (b + 1) + 1 <= MaxBlocks PROVE w[(b + 1) + 1].state = "bad"
    <3>1. b + 1 <= MaxBlocks
      BY <1>4, <2>1
    <3>2. w[b + 1].state = "bad"
      BY <1>6, <3>1
    <3>3. (b + 1) + 1 \in 0 .. MaxBlocks /\ (b + 1) + 1 # 0 /\ ((b + 1) + 1) - 1 = b + 1
      BY <1>4, <2>1
    <3>4. w[(b + 1) + 1] = Step(R, p, w[b + 1])
      BY <1>3, <3>3 DEF Walks
    <3>5. QED
      BY <3>2, <3>4, StepStops
  <2>2. QED
    BY <2>1
<1>7. w[MaxBlocks].state = "bad"
  <2>1. MaxBlocks - 1 \in Nat /\ (MaxBlocks - 1) + 1 = MaxBlocks
    BY <1>4
  <2>2. MaxBlocks - 1 \in S
    <3> HIDE DEF S
    <3>1. QED
      BY <1>5, <1>6, <2>1, AllNumbers
  <2>3. QED
    BY <1>4, <2>1, <2>2
<1>8. QED
  BY <1>3, <1>7 DEF Opened, NoDir

(***************************************************************************)
(* Looking up a name.                                                      *)
(***************************************************************************)
LEMMA FindIs ==
    ASSUME NEW dir, NEW n, Len(dir.entries) \in Nat, NEW f, f = vault_dir_find(dir, n)
    PROVE  \/ f = 0 /\ \A i \in 1 .. Len(dir.entries) : dir.entries[i].name # n
           \/ f \in 1 .. Len(dir.entries) /\ dir.entries[f].name = n
<1> DEFINE I == {i \in 1 .. Len(dir.entries) : dir.entries[i].name = n}
<1>1. f = IF I # {} THEN Min(I) ELSE 0
  BY DEF vault_dir_find, SelectInSeq
<1>2. CASE I = {}
  BY <1>1, <1>2
<1>3. CASE I # {}
  <2>1. I \subseteq Nat
    OBVIOUS
  <2>2. \E x \in I : \A y \in I : x <= y
    <3> HIDE DEF I
    <3>1. QED
      BY <1>3, <2>1, LeastOf
  <2>3. Min(I) \in I
    <3> HIDE DEF I
    <3>1. QED
      BY <2>2 DEF Min
  <2>4. QED
    BY <1>1, <1>3, <2>3
<1>4. QED
  BY <1>2, <1>3

LEMMA FindOwn ==
    ASSUME NEW dir, Len(dir.entries) \in Nat, Distinct(dir), NEW i \in 1 .. Len(dir.entries)
    PROVE  vault_dir_find(dir, dir.entries[i].name) = i
<1>1. PICK n, f : n = dir.entries[i].name /\ f = vault_dir_find(dir, n)
  OBVIOUS
<1>2. \/ f = 0 /\ \A j \in 1 .. Len(dir.entries) : dir.entries[j].name # n
      \/ f \in 1 .. Len(dir.entries) /\ dir.entries[f].name = n
  BY <1>1, FindIs
<1>3. QED
  BY <1>1, <1>2 DEF Distinct

LEMMA SameEntries ==
    ASSUME NEW d, NEW e, d.entries = e.entries
    PROVE  Names(d) = Names(e) /\ \A n : vault_dir_find(d, n) = vault_dir_find(e, n)
<1>1. Names(d) = Names(e)
  BY DEF Names
<1>2. ASSUME NEW n PROVE vault_dir_find(d, n) = vault_dir_find(e, n)
  BY DEF vault_dir_find, SelectInSeq
<1>3. QED
  BY <1>1, <1>2

LEMMA NamesAre ==
    ASSUME NEW dir, DirOk(dir), NEW n \in Names(dir)
    PROVE  /\ n \in Name
           /\ vault_dir_find(dir, n) \in 1 .. Len(dir.entries)
           /\ dir.entries[vault_dir_find(dir, n)].name = n
<1>1. PICK i \in 1 .. Len(dir.entries) : n = dir.entries[i].name
  BY DEF Names
<1>2. dir.entries[i] \in EntrySet /\ Len(dir.entries) \in Nat /\ Distinct(dir)
  BY DEF DirOk
<1>3. vault_dir_find(dir, n) = i
  BY <1>1, <1>2, FindOwn
<1>4. QED
  BY <1>1, <1>2, <1>3 DEF EntrySet

(***************************************************************************)
(* What a written image holds.                                             *)
(***************************************************************************)
PlanVolume(img, plan) ==
    [n \in Names(plan.dir) |-> DataSlot(img, plan, vault_dir_find(plan.dir, n)).data]

VolumeOf(img, p, dir) ==
    [n \in Names(dir) |-> Extract(img, p, dir.entries[vault_dir_find(dir, n)])]

LEMMA VolumesAre ==
    ASSUME NEW img, NEW p \in Pass
    PROVE  Volumes(img)[p] = IF Opened(vault_open_volume(img, p))
                             THEN VolumeOf(img, p, vault_open_volume(img, p)) ELSE NoVolume
  BY DEF Volumes, VolumeOf

(* The directories an image opens are in order, and the contents are       *)
(* contents.                                                               *)
VolumeOk(img, p, dir) ==
    DirOk(dir) /\ \A i \in 1 .. Len(dir.entries) : Extract(img, p, dir.entries[i]) \in Data

(* To seal the directory a passphrase opens would make the slots the image *)
(* holds under it, none over another.                                      *)
Sealable(img, p, dir) ==
    LET spots == Spots(Plan(p, dir))
        slot(i) == SlotOf(img, img.size, Plan(p, dir), i)
    IN  /\ Blocks(Plan(p, dir)) = Len(dir.overflow) + 1
        /\ \A i \in spots : slot(i) \in img.slots
        /\ \A s \in img.slots : s.pass = p => \E i \in spots : s = slot(i)
        /\ \A i, j \in spots : i # j => ~ Meet(Span(slot(i)), Span(slot(j)))

Placed(img) ==
    /\ Apart(img)
    /\ \A s \in img.slots : Span(s).end <= img.size
    /\ \A p \in Pass :
          LET dir == vault_open_volume(img, p)
          IN  Opened(dir) => BlockLen <= img.size /\ Sealable(img, p, dir)

ImageOk(img) ==
    /\ \A p \in Pass :
          Opened(vault_open_volume(img, p)) => VolumeOk(img, p, vault_open_volume(img, p))
    /\ Placed(img)

LEMMA ExtractsPlanned ==
    ASSUME NEW img, NEW size, NEW plans, PlansOk(img, size, plans),
           NEW R, Written(img, size, plans, R), NEW v \in 1 .. Len(plans),
           NEW plan, plan = plans[v], NEW i \in 1 .. Len(plan.dir.entries)
    PROVE  /\ Extract(R, plan.pass, plan.dir.entries[i]) = DataSlot(img, plan, i).data
           /\ DataSlot(img, plan, i).data \in Data
           /\ ~ IsNew(plan, i) =>
                 DataSlot(img, plan, i).data = Extract(img, plan.read, plan.dir.entries[i])
<1>1. PlanOk(img, size, plan)
  BY DEF PlansOk
<1>2. Apart(R)
  BY WrittenApart
<1>3. Len(plan.dir.entries) \in Nat /\ Blocks(plan) \in 1 .. MaxBlocks /\ MaxBlocks \in Nat
  BY <1>1, PlanBlocks, VaultAssumption
<1>4. i \in Spots(plan) /\ i > 0
  BY <1>3 DEF Spots
<1>5. PICK s, e : s = DataSlot(img, plan, i) /\ e = plan.dir.entries[i]
  OBVIOUS
<1>6. s = SlotOf(img, size, plan, i)
  BY <1>4, <1>5 DEF SlotOf
<1>7. s \in R.slots
  BY <1>4, <1>6 DEF Written
<1>8. s.pass = plan.pass /\ s.off = e.off /\ s.cap = e.cap
  BY <1>5 DEF DataSlot
<1>9. Sealed(R, plan.pass, e.off, e.cap) = {s} /\ vault_v2_open(R, plan.pass, e.off, e.cap) = s.data
  BY <1>2, <1>7, <1>8, SealedIs
<1>10. Extract(R, plan.pass, e) = s.data
  BY <1>9 DEF Extract
<1>11. ASSUME ~ IsNew(plan, i) PROVE s.data = Extract(img, plan.read, e)
  <2>1. Readable(img, plan, i)
    <3>1. ~ PlanRefused(img, size, plan)
      BY DEF Written
    <3>2. QED
      BY <3>1 DEF PlanRefused
  <2>2. Sealed(img, plan.read, e.off, e.cap) # {}
    BY <1>5, <1>11, <2>1 DEF Readable
  <2>3. s.data = vault_v2_open(img, plan.read, e.off, e.cap)
    BY <1>5, <1>11 DEF DataSlot
  <2>4. QED
    BY <2>2, <2>3 DEF Extract
<1>12. s.data \in Data
  <2>1. CASE IsNew(plan, i)
    BY <1>1, <1>5, <2>1 DEF DataSlot, PlanOk
  <2>2. CASE ~ IsNew(plan, i)
    BY <1>1, <1>5, <1>11, <2>2 DEF PlanOk
  <2>3. QED
    BY <2>1, <2>2
<1>13. QED
  BY <1>5, <1>10, <1>11, <1>12

LEMMA VolumesWritten ==
    ASSUME NEW img, NEW size, NEW plans, PlansOk(img, size, plans),
           NEW R, Written(img, size, plans, R), NEW v \in 1 .. Len(plans),
           NEW plan, plan = plans[v], plan.pass \in Pass
    PROVE  /\ Volumes(R)[plan.pass] = PlanVolume(img, plan)
           /\ VolumeOk(R, plan.pass, vault_open_volume(R, plan.pass))
<1>1. PICK dir : dir = vault_open_volume(R, plan.pass)
  OBVIOUS
<1>2. /\ Opened(dir) /\ dir.entries = plan.dir.entries
      /\ dir.overflow = SubSeq(plan.dir.overflow, 1, Blocks(plan) - 1)
  BY <1>1, OpensPlanned
<1>3. PlanOk(img, size, plan)
  BY DEF PlansOk
<1>4. DirOk(plan.dir)
  BY <1>3 DEF PlanOk
<1>5. Names(dir) = Names(plan.dir)
      /\ \A n : vault_dir_find(dir, n) = vault_dir_find(plan.dir, n)
  BY <1>2, SameEntries
<1>6. Volumes(R)[plan.pass] = VolumeOf(R, plan.pass, dir)
  BY <1>1, <1>2, VolumesAre
<1>7. ASSUME NEW n \in Names(plan.dir)
      PROVE  Extract(R, plan.pass, dir.entries[vault_dir_find(dir, n)])
                = DataSlot(img, plan, vault_dir_find(plan.dir, n)).data
  <2>1. PICK i : i = vault_dir_find(plan.dir, n)
    OBVIOUS
  <2>2. i \in 1 .. Len(plan.dir.entries)
    BY <1>4, <2>1, NamesAre
  <2>3. Extract(R, plan.pass, plan.dir.entries[i]) = DataSlot(img, plan, i).data
    BY <2>2, ExtractsPlanned
  <2>4. QED
    BY <1>2, <1>5, <2>1, <2>3
<1>8. VolumeOf(R, plan.pass, dir) = PlanVolume(img, plan)
  BY <1>5, <1>7 DEF VolumeOf, PlanVolume
<1>9. DirOk(dir)
  <2>1. dir.overflow \in Seq(Int)
    <3>1. /\ Blocks(plan) \in 1 .. MaxBlocks /\ MaxBlocks \in Nat
          /\ Len(plan.dir.overflow) \in Nat /\ plan.dir.overflow \in Seq(Int)
      BY <1>3, <1>4, PlanBlocks, VaultAssumption DEF DirOk
    <3>2. Blocks(plan) - 1 <= Len(plan.dir.overflow)
      <4>1. ~ PlanRefused(img, size, plan)
        BY DEF Written
      <4>2. QED
        BY <3>1, <4>1 DEF PlanRefused, Blocks
    <3>3. PICK n, O : n = Blocks(plan) - 1 /\ O = plan.dir.overflow
      OBVIOUS
    <3>4. n \in Nat /\ O \in Seq(Int) /\ n <= Len(O)
      BY <3>1, <3>2, <3>3
    <3>5. SubSeq(O, 1, n) \in Seq(Int)
      BY <3>4
    <3>6. QED
      BY <1>2, <3>3, <3>5
  <2>2. Distinct(dir)
    BY <1>2, <1>4 DEF DirOk, Distinct
  <2>3. QED
    BY <1>2, <1>4, <2>1, <2>2 DEF DirOk
<1>10. ASSUME NEW i \in 1 .. Len(dir.entries)
       PROVE  Extract(R, plan.pass, dir.entries[i]) \in Data
  <2>1. i \in 1 .. Len(plan.dir.entries)
    BY <1>2
  <2>2. /\ Extract(R, plan.pass, plan.dir.entries[i]) = DataSlot(img, plan, i).data
        /\ DataSlot(img, plan, i).data \in Data
    BY <2>1, ExtractsPlanned
  <2>3. QED
    BY <1>2, <2>2
<1>11. QED
  BY <1>1, <1>6, <1>8, <1>9, <1>10 DEF VolumeOk

(* The directory a written image opens would be sealed as it was.          *)
LEMMA Resealed ==
    ASSUME NEW img, NEW size, NEW plans, PlansOk(img, size, plans),
           NEW R, Written(img, size, plans, R), NEW v \in 1 .. Len(plans),
           NEW plan, plan = plans[v], NEW dir, dir = vault_open_volume(R, plan.pass),
           NEW again, again = Plan(plan.pass, dir)
    PROVE  /\ Blocks(again) = Blocks(plan) /\ Spots(again) = Spots(plan)
           /\ Blocks(plan) = Len(dir.overflow) + 1
           /\ \A i \in Spots(plan) : SlotOf(R, size, again, i) = SlotOf(img, size, plan, i)
<1>1. /\ dir.entries = plan.dir.entries
      /\ dir.overflow = SubSeq(plan.dir.overflow, 1, Blocks(plan) - 1)
  BY OpensPlanned
<1>2. /\ again.pass = plan.pass /\ again.read = plan.pass
      /\ again.dir = dir /\ again.new = NoContent
  BY DEF Plan
<1>3. PlanOk(img, size, plan) /\ ~ PlanRefused(img, size, plan)
  BY DEF PlansOk, Written
<1>4. PICK n, O, E : n = Blocks(plan) /\ O = plan.dir.overflow /\ E = plan.dir.entries
  OBVIOUS
<1>5. n \in Nat \ {0} /\ O \in Seq(Int) /\ Len(O) \in Nat /\ Len(E) \in Nat
  <2>1. Blocks(plan) \in 1 .. MaxBlocks /\ MaxBlocks \in Nat
    BY <1>3, PlanBlocks, VaultAssumption
  <2>2. O \in Seq(Int) /\ Len(E) \in Nat
    BY <1>3, <1>4, PlanBlocks DEF PlanOk, DirOk
  <2>3. QED
    BY <1>4, <2>1, <2>2
<1>6. n - 1 <= Len(O)
  BY <1>3, <1>4, <1>5 DEF PlanRefused, Blocks
<1>7. Blocks(again) = n /\ Spots(again) = Spots(plan)
  BY <1>1, <1>2, <1>4 DEF Blocks, Spots
<1>8. Len(dir.overflow) = n - 1 /\ \A b \in 1 .. n - 1 : dir.overflow[b] = O[b]
  <2>1. PICK m : m = n - 1
    OBVIOUS
  <2>2. dir.overflow = SubSeq(O, 1, m) /\ m \in Nat /\ m <= Len(O)
    BY <1>1, <1>4, <1>5, <1>6, <2>1
  <2>3. Len(SubSeq(O, 1, m)) = m /\ \A b \in 1 .. m : SubSeq(O, 1, m)[b] = O[b]
    BY <1>5, <2>2
  <2>4. QED
    BY <2>1, <2>2, <2>3
<1>9. ASSUME NEW i \in Spots(plan), i > 0
      PROVE  SlotOf(R, size, again, i) = SlotOf(img, size, plan, i)
  <2>1. PICK t, e, d : t = SlotOf(img, size, plan, i) /\ e = E[i]
                       /\ d = vault_v2_open(R, plan.pass, e.off, e.cap)
    OBVIOUS
  <2>2. t \in R.slots
    BY <2>1 DEF Written
  <2>3. /\ t = [pass |-> plan.pass, off |-> e.off, cap |-> e.cap, data |-> t.data]
        /\ t.pass = plan.pass /\ t.off = e.off /\ t.cap = e.cap
    BY <1>4, <1>9, <2>1 DEF SlotOf, DataSlot
  <2>4. d = t.data
    BY <2>1, <2>2, <2>3, SealedIs, WrittenApart
  <2>5. ~ IsNew(again, i)
    BY <1>2 DEF IsNew
  <2>6. SlotOf(R, size, again, i) = [pass |-> plan.pass, off |-> e.off, cap |-> e.cap, data |-> d]
    BY <1>1, <1>2, <1>4, <1>9, <2>1, <2>5 DEF SlotOf, DataSlot
  <2>7. QED
    BY <2>1, <2>3, <2>4, <2>6
<1>10. ASSUME NEW i \in Spots(plan), ~ (i > 0)
       PROVE  SlotOf(R, size, again, i) = SlotOf(img, size, plan, i)
  <2>1. PICK b : b = - i
    OBVIOUS
  <2>2. b \in 0 .. n - 1
    BY <1>4, <1>5, <1>10, <2>1 DEF Spots
  <2>3. /\ SlotOf(R, size, again, i) = BlockSlot(size, again, b, n)
        /\ SlotOf(img, size, plan, i) = BlockSlot(size, plan, b, n)
    BY <1>4, <1>7, <1>10, <2>1 DEF SlotOf
  <2>4. b # 0 => dir.overflow[b] = O[b]
    BY <1>5, <1>8, <2>2
  <2>5. b # n - 1 => dir.overflow[b + 1] = O[b + 1]
    BY <1>5, <1>8, <2>2
  <2>6. BlockSlot(size, again, b, n) = BlockSlot(size, plan, b, n)
    BY <1>1, <1>2, <1>4, <2>4, <2>5 DEF BlockSlot
  <2>7. QED
    BY <2>3, <2>6
<1>11. Blocks(plan) = Len(dir.overflow) + 1
  BY <1>4, <1>5, <1>8
<1>12. QED
  BY <1>4, <1>7, <1>9, <1>10, <1>11

LEMMA WrittenPlaced ==
    ASSUME NEW img, NEW size, NEW plans, PlansOk(img, size, plans),
           NEW R, Written(img, size, plans, R)
    PROVE  Placed(R)
<1>1. R.size = size /\ BlockLen <= size /\ Apart(R)
  <2>1. Apart(R)
    BY WrittenApart
  <2>2. QED
    BY <2>1 DEF Written
<1>2. ASSUME NEW s \in R.slots PROVE Span(s).end <= R.size
  <2>1. PICK v \in 1 .. Len(plans) : \E i \in Spots(plans[v]) : s = SlotOf(img, size, plans[v], i)
    BY DEF Written
  <2>2. QED
    BY <1>1, <2>1 DEF Written
<1>3. ASSUME NEW p \in Pass, NEW dir, dir = vault_open_volume(R, p), Opened(dir)
      PROVE  Sealable(R, p, dir)
  <2>1. PICK v \in 1 .. Len(plans) : plans[v].pass = p
    BY <1>3, OpensUnplanned
  <2>2. PICK plan, again : plan = plans[v] /\ again = Plan(p, dir)
    OBVIOUS
  <2>3. plan.pass = p /\ dir = vault_open_volume(R, plan.pass) /\ again = Plan(plan.pass, dir)
    BY <1>3, <2>1, <2>2
  <2>4. /\ Blocks(again) = Blocks(plan) /\ Spots(again) = Spots(plan)
        /\ Blocks(plan) = Len(dir.overflow) + 1
        /\ \A i \in Spots(plan) : SlotOf(R, size, again, i) = SlotOf(img, size, plan, i)
    BY <2>2, <2>3, Resealed
  <2>5. ASSUME NEW i \in Spots(again)
        PROVE  SlotOf(R, R.size, again, i) = SlotOf(img, size, plan, i)
               /\ SlotOf(img, size, plan, i) \in R.slots
    BY <1>1, <2>2, <2>4 DEF Written
  <2>6. ASSUME NEW s \in R.slots, s.pass = p
        PROVE  \E i \in Spots(again) : s = SlotOf(R, R.size, again, i)
    <3>1. PICK u \in 1 .. Len(plans) : \E i \in Spots(plans[u]) : s = SlotOf(img, size, plans[u], i)
      BY DEF Written
    <3>2. PICK i \in Spots(plans[u]) : s = SlotOf(img, size, plans[u], i)
      BY <3>1
    <3>3. plans[u].pass = plans[v].pass
      BY <2>1, <2>6, <3>2, SlotPass
    <3>4. u = v
      BY <3>3, PassesDiffer
    <3>5. QED
      BY <2>2, <2>4, <2>5, <3>2, <3>4
  <2>7. ASSUME NEW i \in Spots(again), NEW j \in Spots(again), i # j
        PROVE  ~ Meet(Span(SlotOf(R, R.size, again, i)), Span(SlotOf(R, R.size, again, j)))
    <3>1. ~ Meet(Span(SlotOf(img, size, plan, i)), Span(SlotOf(img, size, plan, j)))
      BY <2>2, <2>4, <2>7 DEF Written
    <3>2. QED
      BY <2>5, <3>1
  <2>8. QED
    BY <2>2, <2>4, <2>5, <2>6, <2>7 DEF Sealable
<1>4. QED
  BY <1>1, <1>2, <1>3 DEF Placed

LEMMA WrittenOk ==
    ASSUME NEW img, NEW size, NEW plans, PlansOk(img, size, plans),
           NEW R, Written(img, size, plans, R)
    PROVE  ImageOk(R)
<1> SUFFICES ASSUME NEW p \in Pass, Opened(vault_open_volume(R, p))
             PROVE  VolumeOk(R, p, vault_open_volume(R, p))
  BY WrittenPlaced DEF ImageOk
<1>1. PICK v \in 1 .. Len(plans) : plans[v].pass = p
  BY OpensUnplanned
<1>2. PICK plan : plan = plans[v]
  OBVIOUS
<1>3. plan.pass \in Pass
  BY <1>1, <1>2
<1>4. VolumeOk(R, plan.pass, vault_open_volume(R, plan.pass))
  BY <1>2, <1>3, VolumesWritten
<1>5. QED
  BY <1>1, <1>2, <1>4

(***************************************************************************)
(* The volumes a command keeps.                                            *)
(***************************************************************************)
LEMMA PlainVolume ==
    ASSUME NEW img, NEW size, NEW plans, PlansOk(img, size, plans),
           NEW R, Written(img, size, plans, R), NEW v \in 1 .. Len(plans),
           NEW plan, plan = plans[v], plan.new = NoContent
    PROVE  PlanVolume(img, plan) = VolumeOf(img, plan.read, plan.dir)
<1>1. DirOk(plan.dir)
  BY DEF PlansOk, PlanOk
<1>2. ASSUME NEW n \in Names(plan.dir)
      PROVE  DataSlot(img, plan, vault_dir_find(plan.dir, n)).data
                = Extract(img, plan.read, plan.dir.entries[vault_dir_find(plan.dir, n)])
  <2>1. PICK i : i = vault_dir_find(plan.dir, n)
    OBVIOUS
  <2>2. i \in 1 .. Len(plan.dir.entries)
    BY <1>1, <2>1, NamesAre
  <2>3. ~ IsNew(plan, i)
    BY DEF IsNew
  <2>4. DataSlot(img, plan, i).data = Extract(img, plan.read, plan.dir.entries[i])
    BY <2>2, <2>3, ExtractsPlanned
  <2>5. QED
    BY <2>1, <2>4
<1>3. QED
  BY <1>2 DEF PlanVolume, VolumeOf

LEMMA KeepPlanOk ==
    ASSUME NEW img, ImageOk(img), NEW size, NEW p \in Pass,
           vault_anchor_offset(p, size) \in Nat, Opened(vault_open_volume(img, p))
    PROVE  PlanOk(img, size, Plan(p, vault_open_volume(img, p)))
<1>1. PICK dir, plan : dir = vault_open_volume(img, p) /\ plan = Plan(p, dir)
  OBVIOUS
<1>2. VolumeOk(img, p, dir)
  BY <1>1 DEF ImageOk
<1>3. plan.pass = p /\ plan.read = p /\ plan.dir = dir /\ plan.new = NoContent
  BY <1>1 DEF Plan
<1>4. PlanOk(img, size, plan)
  BY <1>2, <1>3 DEF PlanOk, VolumeOk, Data
<1>5. QED
  BY <1>1, <1>4

KeptVolumes(img, K, p, vol) ==
    [x \in Pass |-> IF x = p THEN vol ELSE IF x \in K THEN Volumes(img)[x] ELSE NoVolume]

KeepOk(keep, size) ==
    keep \in Seq(Pass) /\ \A k \in 1 .. Len(keep) : vault_anchor_offset(keep[k], size) \in Nat

KeepSet(keep) == {keep[k] : k \in DOMAIN keep}

PlansFor(plans, img, plan, keep) ==
    /\ Len(plans) = 1 + Len(keep) /\ plans[1] = plan
    /\ \A k \in 1 .. Len(keep) : plans[k + 1] = Plan(keep[k], vault_open_volume(img, keep[k]))

LEMMA PlansAre ==
    ASSUME NEW img, NEW plan, NEW keep \in Seq(Pass), NEW plans,
           plans = <<plan>> \o KeepPlans(img, keep)
    PROVE  PlansFor(plans, img, plan, keep)
<1> DEFINE KP == KeepPlans(img, keep)
           T == {Plan(keep[k], vault_open_volume(img, keep[k])) : k \in 1 .. Len(keep)}
<1>1. KP \in [1 .. Len(keep) -> T] /\ Len(keep) \in Nat
  BY DEF KeepPlans
<1>2. \A k \in 1 .. Len(keep) : KP[k] = Plan(keep[k], vault_open_volume(img, keep[k]))
  BY DEF KeepPlans
<1> HIDE DEF KP, T
<1>3. KP \in Seq(T) /\ Len(KP) = Len(keep)
  <2>1. KP \in Seq(T)
    BY <1>1, SeqDef
  <2>2. DOMAIN KP = 1 .. Len(keep)
    BY <1>1
  <2>3. QED
    BY <1>1, <2>1, <2>2
<1>4. plans = <<plan>> \o KP
  BY DEF KP
<1>5. Len(plans) = 1 + Len(keep) /\ plans[1] = plan
      /\ \A k \in 1 .. Len(keep) : plans[k + 1] = KP[k]
  BY <1>1, <1>3, <1>4
<1>6. QED
  BY <1>2, <1>5 DEF PlansFor

LEMMA KeptBy ==
    ASSUME NEW img, ImageOk(img), NEW size \in Nat, NEW plan, PlanOk(img, size, plan),
           NEW keep, KeepOk(keep, size), KeepsOpen(img, keep),
           NEW R, R = vault_rewrite(img, size, <<plan>> \o KeepPlans(img, keep)), R # Truncated
    PROVE  /\ Volumes(R) = KeptVolumes(img, KeepSet(keep), plan.pass, PlanVolume(img, plan))
           /\ plan.pass \notin KeepSet(keep)
           /\ \A x \in KeepSet(keep) : x \in Pass /\ Opened(vault_open_volume(img, x))
           /\ ImageOk(R) /\ R.size = size
           /\ plan.new = NoContent => PlanVolume(img, plan) = VolumeOf(img, plan.read, plan.dir)
<1>1. PICK plans : plans = <<plan>> \o KeepPlans(img, keep)
  OBVIOUS
<1>2. keep \in Seq(Pass) /\ Len(keep) \in Nat /\ DOMAIN keep = 1 .. Len(keep)
  BY DEF KeepOk
<1>3. /\ Len(plans) = 1 + Len(keep) /\ plans[1] = plan
      /\ \A k \in 1 .. Len(keep) :
            plans[k + 1] = Plan(keep[k], vault_open_volume(img, keep[k]))
  <2>1. PlansFor(plans, img, plan, keep)
    BY <1>1, <1>2, PlansAre
  <2>2. QED
    BY <2>1 DEF PlansFor
<1>4. ASSUME NEW k \in 1 .. Len(keep)
      PROVE  keep[k] \in Pass /\ Opened(vault_open_volume(img, keep[k]))
             /\ PlanOk(img, size, plans[k + 1])
  <2>1. keep[k] \in Pass /\ Opened(vault_open_volume(img, keep[k]))
        /\ vault_anchor_offset(keep[k], size) \in Nat
    BY <1>2 DEF KeepsOpen, KeepOk
  <2>2. QED
    BY <1>3, <2>1, KeepPlanOk
<1>5. PlansOk(img, size, plans)
  <2>1. ASSUME NEW v \in 1 .. Len(plans) PROVE PlanOk(img, size, plans[v])
    <3>1. CASE v = 1
      BY <1>3, <3>1
    <3>2. CASE v # 1
      <4>1. PICK k : k = v - 1
        OBVIOUS
      <4>2. k \in 1 .. Len(keep) /\ v = k + 1
        BY <1>2, <1>3, <3>2, <4>1
      <4>3. QED
        BY <1>4, <4>2
    <3>3. QED
      BY <3>1, <3>2
  <2>2. QED
    BY <1>2, <1>3, <2>1 DEF PlansOk
<1>6. Written(img, size, plans, R)
  BY <1>1, <1>5, RewriteShape
<1>7. 1 \in 1 .. Len(plans) /\ \A k \in 1 .. Len(keep) : k + 1 \in 1 .. Len(plans) /\ k + 1 # 1
  BY <1>2, <1>3
<1>8. ASSUME NEW k \in 1 .. Len(keep)
      PROVE  /\ Volumes(R)[keep[k]] = Volumes(img)[keep[k]]
             /\ keep[k] # plan.pass
  <2>1. PICK q, p, dir : q = plans[k + 1] /\ p = keep[k] /\ dir = vault_open_volume(img, p)
    OBVIOUS
  <2>2. q = Plan(p, dir) /\ p \in Pass /\ Opened(dir)
    BY <1>3, <1>4, <2>1
  <2>3. q.pass = p /\ q.read = p /\ q.dir = dir /\ q.new = NoContent
    BY <2>2 DEF Plan
  <2>4. Volumes(R)[q.pass] = PlanVolume(img, q)
    <3>1. PICK v : v = k + 1
      OBVIOUS
    <3>2. v \in 1 .. Len(plans) /\ q = plans[v] /\ q.pass \in Pass
      BY <1>7, <2>1, <2>2, <2>3, <3>1
    <3>3. QED
      BY <1>5, <1>6, <3>2, VolumesWritten
  <2>5. PlanVolume(img, q) = VolumeOf(img, q.read, q.dir)
    BY <1>5, <1>6, <1>7, <2>1, <2>3, PlainVolume
  <2>6. Volumes(img)[p] = VolumeOf(img, p, dir)
    BY <2>1, <2>2, VolumesAre
  <2>7. q.pass # plan.pass
    BY <1>3, <1>5, <1>6, <1>7, <2>1, PassesDiffer
  <2>8. QED
    BY <2>1, <2>3, <2>4, <2>5, <2>6, <2>7
<1>9. Volumes(R)[plan.pass] = PlanVolume(img, plan)
  BY <1>3, <1>5, <1>6, <1>7, VolumesWritten DEF PlanOk
<1>10. ASSUME NEW x \in Pass
       PROVE  Volumes(R)[x] = KeptVolumes(img, KeepSet(keep), plan.pass, PlanVolume(img, plan))[x]
  <2>1. CASE x = plan.pass
    BY <1>9, <2>1 DEF KeptVolumes
  <2>2. CASE x # plan.pass /\ x \in KeepSet(keep)
    BY <1>2, <1>8, <2>2 DEF KeptVolumes, KeepSet
  <2>3. CASE x # plan.pass /\ x \notin KeepSet(keep)
    <3>1. ASSUME NEW v \in 1 .. Len(plans) PROVE plans[v].pass # x
      <4>1. CASE v = 1
        BY <1>3, <2>3, <4>1
      <4>2. CASE v # 1
        <5>1. PICK k : k = v - 1
          OBVIOUS
        <5>2. k \in 1 .. Len(keep) /\ v = k + 1
          BY <1>2, <1>3, <4>2, <5>1
        <5>3. plans[v].pass = keep[k]
          <6>1. PICK p, dir : p = keep[k] /\ dir = vault_open_volume(img, p)
            OBVIOUS
          <6>2. plans[v] = Plan(p, dir)
            BY <1>3, <5>2, <6>1
          <6>3. QED
            BY <6>1, <6>2 DEF Plan
        <5>4. keep[k] \in KeepSet(keep)
          BY <1>2, <5>2 DEF KeepSet
        <5>5. QED
          BY <2>3, <5>3, <5>4
      <4>3. QED
        BY <4>1, <4>2
    <3>2. ~ Opened(vault_open_volume(R, x))
      BY <1>6, <3>1, OpensUnplanned
    <3>3. Volumes(R)[x] = NoVolume
      BY <3>2, VolumesAre
    <3>4. QED
      BY <2>3, <3>3 DEF KeptVolumes
  <2>4. QED
    BY <2>1, <2>2, <2>3
<1>11. Volumes(R) = KeptVolumes(img, KeepSet(keep), plan.pass, PlanVolume(img, plan))
  <2>1. /\ Volumes(R) = [x \in Pass |-> Volumes(R)[x]]
        /\ KeptVolumes(img, KeepSet(keep), plan.pass, PlanVolume(img, plan))
             = [x \in Pass |->
                  KeptVolumes(img, KeepSet(keep), plan.pass, PlanVolume(img, plan))[x]]
    BY DEF Volumes, KeptVolumes
  <2>2. QED
    BY <1>10, <2>1
<1>12. plan.pass \notin KeepSet(keep)
       /\ \A x \in KeepSet(keep) : x \in Pass /\ Opened(vault_open_volume(img, x))
  BY <1>2, <1>4, <1>8 DEF KeepSet
<1>13. ImageOk(R) /\ R.size = size
  <2>1. ImageOk(R)
    BY <1>5, <1>6, WrittenOk
  <2>2. QED
    BY <1>6, <2>1 DEF Written
<1>14. plan.new = NoContent => PlanVolume(img, plan) = VolumeOf(img, plan.read, plan.dir)
  BY <1>3, <1>5, <1>6, <1>7, PlainVolume
<1>15. QED
  BY <1>11, <1>12, <1>13, <1>14

(***************************************************************************)
(* The commands.                                                           *)
(***************************************************************************)
LEMMA KeepListOk ==
    ASSUME NEW keep \in KeepLists, NEW size \in Sizes
    PROVE  KeepOk(keep, size) /\ KeepSet(keep) \in SUBSET Pass
<1>1. PICK n \in 0 .. MaxKeep : keep \in [1 .. n -> Pass]
  BY DEF KeepLists
<1>2. n \in Nat
  BY <1>1, VaultAssumption
<1>3. keep \in Seq(Pass)
  BY <1>1, <1>2, SeqDef
<1>4. \A k \in 1 .. Len(keep) : keep[k] \in Pass
  BY <1>3
<1>5. \A k \in 1 .. Len(keep) : vault_anchor_offset(keep[k], size) \in Nat
  BY <1>4, VaultAssumption DEF vault_anchor_offset
<1>6. KeepSet(keep) \in SUBSET Pass
  BY <1>1 DEF KeepSet
<1>7. QED
  BY <1>3, <1>5, <1>6 DEF KeepOk

(* A command that may run, and the image it makes.                         *)
Good(op, R) ==
    /\ op \in Commands
    /\ ImageOk(R) /\ R.size \in Sizes
    /\ Store!Allowed(op) /\ Volumes(R) = Store!Effect(op)

(* The container before a command.                                         *)
Ready == vols = Volumes(Current) /\ ImageOk(Current) /\ (path # 0 => Current.size \in Sizes)

LEMMA VolumeNotNone ==
    ASSUME NEW img, ImageOk(img), NEW p \in Pass, Opened(vault_open_volume(img, p))
    PROVE  Volumes(img)[p] # NoVolume
<1>1. PICK dir, vol : dir = vault_open_volume(img, p) /\ vol = VolumeOf(img, p, dir)
  OBVIOUS
<1>2. VolumeOk(img, p, dir) /\ DirOk(dir)
  BY <1>1 DEF ImageOk, VolumeOk
<1>3. Volumes(img)[p] = vol
  BY <1>1, VolumesAre
<1>4. Names(dir) \in SUBSET Name
  BY <1>2, NamesAre
<1>5. vol \in [Names(dir) -> Data]
  <2>1. ASSUME NEW n \in Names(dir)
        PROVE  Extract(img, p, dir.entries[vault_dir_find(dir, n)]) \in Data
    <3>1. vault_dir_find(dir, n) \in 1 .. Len(dir.entries)
      BY <1>2, NamesAre
    <3>2. QED
      BY <1>2, <3>1 DEF VolumeOk
  <2>2. QED
    BY <1>1, <2>1 DEF VolumeOf
<1>6. QED
  BY <1>3, <1>4, <1>5, NothingAssumption DEF Data

LEMMA EmptyPlanOk ==
    ASSUME NEW p \in Pass, NEW size \in Sizes, NEW img
    PROVE  /\ PlanOk(img, size, Plan(p, EmptyDir))
           /\ Plan(p, EmptyDir).pass = p
           /\ PlanVolume(img, Plan(p, EmptyDir)) = Store!EmptyVolume
<1>1. PICK plan, dir : plan = Plan(p, dir) /\ dir = EmptyDir
  OBVIOUS
<1>2. plan.pass = p /\ plan.read = p /\ plan.dir = dir /\ plan.new = NoContent
  BY <1>1 DEF Plan
<1>3. dir.entries = <<>> /\ dir.overflow = <<>>
  BY <1>1 DEF EmptyDir, NoDir
<1>4. MaxVolEntries \in Nat
  <2>1. InnerData \in Nat /\ MaxBlocks - 1 \in Nat /\ MaxEntries \in Nat
    BY VaultAssumption DEF InnerData
  <2>2. InnerData * (MaxBlocks - 1) \in Nat
    BY <2>1
  <2>3. QED
    BY <2>1, <2>2 DEF MaxVolEntries
<1>5. DirOk(dir)
  BY <1>3, <1>4 DEF DirOk, Distinct
<1>6. PlanOk(img, size, plan)
  <2>1. vault_anchor_offset(p, size) \in Nat
    BY VaultAssumption DEF vault_anchor_offset
  <2>2. QED
    BY <1>2, <1>3, <1>5, <2>1 DEF PlanOk, Data
<1>7. Names(dir) = {}
  BY <1>3 DEF Names
<1>8. PlanVolume(img, plan) = Store!EmptyVolume
  BY <1>2, <1>7 DEF PlanVolume, Store!EmptyVolume
<1>9. QED
  BY <1>1, <1>2, <1>6, <1>8

LEMMA OpIs ==
    ASSUME NEW kind, NEW p, NEW to, NEW keep, NEW n, NEW c, NEW op,
           op = Op(kind, p, to, keep, n, c)
    PROVE  /\ op.kind = kind /\ op.pass = p /\ op.to = to /\ op.name = n /\ op.content = c
           /\ op.keep = KeepSet(keep)
  BY DEF Op, KeepSet

LEMMA OpType ==
    ASSUME NEW kind \in {"create", "add", "put", "rm", "passwd"}, NEW p \in Pass, NEW to \in Pass,
           NEW keep \in KeepLists, NEW n \in Name \cup {NoName},
           NEW c \in Content \cup {NoContent}
    PROVE  Op(kind, p, to, keep, n, c) \in Commands
<1>1. KeepSet(keep) \in SUBSET Pass
  <2>1. PICK k \in 0 .. MaxKeep : keep \in [1 .. k -> Pass]
    BY DEF KeepLists
  <2>2. QED
    BY <2>1 DEF KeepSet
<1>2. Op(kind, p, to, keep, n, c) = [kind |-> kind, pass |-> p, to |-> to, keep |-> KeepSet(keep),
                                     name |-> n, content |-> c]
  BY DEF Op, KeepSet
<1>3. QED
  BY <1>1, <1>2 DEF Commands

(* No passphrase opens a file of no bytes.                                 *)
LEMMA TruncatedOk == ImageOk(Truncated) /\ Volumes(Truncated) = [p \in Pass |-> NoVolume]
<1>1. Truncated.size = 0 /\ 0 < BlockLen
  BY BlockLenIs DEF Truncated
<1>2. \A q : ~ Opened(vault_open_volume(Truncated, q))
  BY <1>1 DEF vault_open_volume, NoDir, Opened
<1>3. Volumes(Truncated) = [p \in Pass |-> Volumes(Truncated)[p]]
  BY DEF Volumes
<1>4. \A p \in Pass : Volumes(Truncated)[p] = NoVolume
  BY <1>2, VolumesAre
<1>5. Truncated.slots = {}
  BY DEF Truncated
<1>6. Placed(Truncated)
  BY <1>2, <1>5 DEF Placed, Apart
<1>7. QED
  BY <1>2, <1>3, <1>4, <1>6 DEF ImageOk

LEMMA CreateGood ==
    ASSUME Ready, NEW p \in Pass, NEW size \in Sizes \cup {0}, NEW force \in BOOLEAN,
           NEW keep \in KeepLists,
           NEW R, R = CreateImage(p, size, force, keep), R # Truncated
    PROVE  Good(Op("create", p, p, keep, NoName, NoContent), R)
<1>1. PICK op, plan : op = Op("create", p, p, keep, NoName, NoContent) /\ plan = Plan(p, EmptyDir)
  OBVIOUS
<1>2. op.kind = "create" /\ op.pass = p /\ op.keep = KeepSet(keep) /\ op \in Commands
  BY <1>1, OpIs, OpType
<1>3. CASE size > 0
  <2>1. keep = <<>> /\ R = vault_rewrite(Truncated, size, <<plan>>)
    BY <1>1, <1>3 DEF CreateImage
  <2>2. KeepPlans(Truncated, keep) = <<>>
    BY <2>1 DEF KeepPlans
  <2>3. <<plan>> \o KeepPlans(Truncated, keep) = <<plan>>
    BY <2>2
  <2>4. size \in Sizes /\ size \in Nat
    BY <1>3, VaultAssumption
  <2>5. KeepOk(keep, size) /\ KeepSet(keep) = {}
    BY <2>1, <2>4, KeepListOk DEF KeepSet
  <2>6. KeepsOpen(Truncated, keep)
    BY <2>1 DEF KeepsOpen
  <2>7. ImageOk(Truncated)
    BY TruncatedOk
  <2>8. /\ PlanOk(Truncated, size, plan) /\ plan.pass = p
        /\ PlanVolume(Truncated, plan) = Store!EmptyVolume
    BY <1>1, <2>4, EmptyPlanOk
  <2>9. R = vault_rewrite(Truncated, size, <<plan>> \o KeepPlans(Truncated, keep))
    BY <2>1, <2>3
  <2>10. /\ Volumes(R) = KeptVolumes(Truncated, KeepSet(keep), plan.pass,
                                     PlanVolume(Truncated, plan))
         /\ ImageOk(R) /\ R.size = size
    BY <2>4, <2>5, <2>6, <2>7, <2>8, <2>9, KeptBy
  <2>11. Volumes(R) = Store!Effect(op)
    BY <1>2, <2>5, <2>8, <2>10 DEF KeptVolumes, Store!Effect, Store!Kept
  <2>12. Store!Allowed(op)
    BY <1>2, <2>5 DEF Store!Allowed
  <2>13. QED
    BY <1>1, <1>2, <2>4, <2>10, <2>11, <2>12 DEF Good
<1>4. CASE ~ (size > 0)
  <2>1. /\ path # 0 /\ KeepsOpen(Current, keep)
        /\ R = vault_rewrite(Current, Current.size, <<plan>> \o KeepPlans(Current, keep))
    BY <1>1, <1>4 DEF CreateImage
  <2>2. PICK img, z : img = Current /\ z = Current.size
    OBVIOUS
  <2>3. z \in Sizes /\ z \in Nat /\ ImageOk(img) /\ vols = Volumes(img)
    BY <2>1, <2>2, VaultAssumption DEF Ready
  <2>4. KeepOk(keep, z)
    BY <2>3, KeepListOk
  <2>5. PlanOk(img, z, plan) /\ plan.pass = p /\ PlanVolume(img, plan) = Store!EmptyVolume
    BY <1>1, <2>3, EmptyPlanOk
  <2>6. R = vault_rewrite(img, z, <<plan>> \o KeepPlans(img, keep)) /\ KeepsOpen(img, keep)
    BY <2>1, <2>2
  <2>7. /\ Volumes(R) = KeptVolumes(img, KeepSet(keep), plan.pass, PlanVolume(img, plan))
        /\ plan.pass \notin KeepSet(keep)
        /\ \A x \in KeepSet(keep) : x \in Pass /\ Opened(vault_open_volume(img, x))
        /\ ImageOk(R) /\ R.size = z
    BY <2>3, <2>4, <2>5, <2>6, KeptBy
  <2>8. Volumes(R) = Store!Effect(op)
    BY <1>2, <2>3, <2>5, <2>7 DEF KeptVolumes, Store!Effect, Store!Kept
  <2>9. \A x \in KeepSet(keep) : vols[x] # NoVolume
    BY <2>3, <2>7, VolumeNotNone
  <2>10. Store!Allowed(op)
    BY <1>2, <2>5, <2>7, <2>9 DEF Store!Allowed
  <2>11. QED
    BY <1>1, <1>2, <2>3, <2>7, <2>8, <2>10 DEF Good
<1>5. QED
  BY <1>3, <1>4

LEMMA PasswdGood ==
    ASSUME Ready, NEW p \in Pass, NEW to \in Pass, NEW keep \in KeepLists,
           NEW R, R = PasswdImage(p, to, keep), R # Truncated
    PROVE  Good(Op("passwd", p, to, keep, NoName, NoContent), R)
<1>1. PICK op, img, z, dir, plan :
         /\ op = Op("passwd", p, to, keep, NoName, NoContent)
         /\ img = Current /\ z = Current.size /\ dir = vault_open_volume(img, p)
         /\ plan = [Plan(p, dir) EXCEPT !.pass = to]
  OBVIOUS
<1>2. /\ op.kind = "passwd" /\ op.pass = p /\ op.to = to /\ op.keep = KeepSet(keep)
      /\ op \in Commands
  BY <1>1, OpIs, OpType
<1>3. /\ path # 0 /\ Opened(dir) /\ KeepsOpen(img, keep)
      /\ R = vault_rewrite(img, z, <<plan>> \o KeepPlans(img, keep))
  BY <1>1 DEF PasswdImage, vault_mutate
<1>4. z \in Sizes /\ z \in Nat /\ ImageOk(img) /\ vols = Volumes(img)
  BY <1>1, <1>3, VaultAssumption DEF Ready
<1>5. plan.pass = to /\ plan.read = p /\ plan.dir = dir /\ plan.new = NoContent
  BY <1>1 DEF Plan
<1>6. VolumeOk(img, p, dir)
  BY <1>1, <1>3, <1>4 DEF ImageOk
<1>7. PlanOk(img, z, plan)
  <2>1. vault_anchor_offset(to, z) \in Nat
    BY <1>4, VaultAssumption DEF vault_anchor_offset
  <2>2. QED
    BY <1>5, <1>6, <2>1 DEF PlanOk, VolumeOk, Data
<1>8. KeepOk(keep, z)
  BY <1>4, KeepListOk
<1>9. /\ Volumes(R) = KeptVolumes(img, KeepSet(keep), plan.pass, PlanVolume(img, plan))
      /\ plan.pass \notin KeepSet(keep)
      /\ \A x \in KeepSet(keep) : x \in Pass /\ Opened(vault_open_volume(img, x))
      /\ ImageOk(R) /\ R.size = z
      /\ plan.new = NoContent => PlanVolume(img, plan) = VolumeOf(img, plan.read, plan.dir)
  BY <1>3, <1>4, <1>7, <1>8, KeptBy
<1>10. PlanVolume(img, plan) = vols[p]
  BY <1>1, <1>3, <1>4, <1>5, <1>9, VolumesAre
<1>11. Volumes(R) = Store!Effect(op)
  BY <1>2, <1>4, <1>5, <1>9, <1>10 DEF KeptVolumes, Store!Effect, Store!Kept
<1>12. (\A x \in KeepSet(keep) : vols[x] # NoVolume) /\ vols[p] # NoVolume
  BY <1>1, <1>3, <1>4, <1>9, VolumeNotNone
<1>13. Store!Allowed(op)
  BY <1>2, <1>12 DEF Store!Allowed
<1>14. QED
  BY <1>1, <1>2, <1>4, <1>9, <1>11, <1>13 DEF Good

(***************************************************************************)
(* vault_dir_remove and vault_volume_rm.                                   *)
(***************************************************************************)
LEMMA Removed ==
    ASSUME NEW T, NEW E \in Seq(T), NEW i \in 1 .. Len(E), NEW F, F = RemoveAt(E, i)
    PROVE  /\ F \in Seq(T) /\ Len(F) = Len(E) - 1
           /\ \A j \in 1 .. Len(F) : F[j] = IF j < i THEN E[j] ELSE E[j + 1]
<1> DEFINE A == SubSeq(E, 1, i - 1)
           B == SubSeq(E, i + 1, Len(E))
<1>1. /\ A \in Seq(T) /\ Len(A) = i - 1
      /\ \A j \in 1 .. i - 1 : A[j] = E[j]
  OBVIOUS
<1>2. /\ B \in Seq(T) /\ Len(B) = Len(E) - i
      /\ \A j \in 1 .. Len(E) - i : B[j] = E[i + j]
  OBVIOUS
<1>3. F = A \o B
  BY DEF RemoveAt
<1> HIDE DEF A, B
<1>4. F \in Seq(T) /\ Len(F) = Len(A) + Len(B)
      /\ \A j \in 1 .. Len(A) + Len(B) : F[j] = IF j <= Len(A) THEN A[j] ELSE B[j - Len(A)]
  <2>1. PICK a, b : a = A /\ b = B
    OBVIOUS
  <2>2. a \in Seq(T) /\ b \in Seq(T)
    BY <1>1, <1>2, <2>1
  <2>3. a \o b \in Seq(T) /\ Len(a \o b) = Len(a) + Len(b)
        /\ \A j \in 1 .. Len(a) + Len(b) :
              (a \o b)[j] = IF j <= Len(a) THEN a[j] ELSE b[j - Len(a)]
    BY <2>2
  <2>4. QED
    BY <1>3, <2>1, <2>3
<1>5. ASSUME NEW j \in 1 .. Len(F) PROVE F[j] = IF j < i THEN E[j] ELSE E[j + 1]
  <2>1. j \in 1 .. Len(A) + Len(B)
    BY <1>4
  <2>2. CASE j < i
    <3>1. j <= Len(A) /\ j \in 1 .. i - 1
      BY <1>1, <1>2, <2>1, <2>2
    <3>2. QED
      BY <1>1, <1>4, <2>1, <2>2, <3>1
  <2>3. CASE ~ (j < i)
    <3>1. ~ (j <= Len(A)) /\ j - Len(A) \in 1 .. Len(E) - i /\ i + (j - Len(A)) = j + 1
      BY <1>1, <1>2, <2>1, <2>3
    <3>2. QED
      BY <1>1, <1>2, <1>4, <2>1, <2>3, <3>1
  <2>4. QED
    BY <2>2, <2>3
<1>6. QED
  BY <1>1, <1>2, <1>4, <1>5

(* The entry of a name, whichever directory it is looked up in.            *)
LEMMA LookedUp ==
    ASSUME NEW dir, DirOk(dir), NEW i \in 1 .. Len(dir.entries), NEW n,
           n = dir.entries[i].name
    PROVE  n \in Names(dir) /\ dir.entries[vault_dir_find(dir, n)] = dir.entries[i]
<1>1. n \in Names(dir)
  BY DEF Names
<1>2. vault_dir_find(dir, n) = i
  BY FindOwn DEF DirOk
<1>3. QED
  BY <1>1, <1>2

LEMMA NotFound ==
    ASSUME NEW dir, DirOk(dir), NEW n
    PROVE  vault_dir_find(dir, n) = 0 <=> n \notin Names(dir)
<1>1. PICK f : f = vault_dir_find(dir, n)
  OBVIOUS
<1>2. \/ f = 0 /\ \A i \in 1 .. Len(dir.entries) : dir.entries[i].name # n
      \/ f \in 1 .. Len(dir.entries) /\ dir.entries[f].name = n
  BY <1>1, FindIs DEF DirOk
<1>3. QED
  BY <1>1, <1>2 DEF Names

(* Without n: the same entries, but for that of n.                         *)
LacksOnly(d, dir, n) ==
    /\ DirOk(d) /\ Names(d) = Names(dir) \ {n}
    /\ d.overflow = dir.overflow
    /\ Len(d.entries) = Len(dir.entries) - 1
    /\ \A m \in Names(d) :
          d.entries[vault_dir_find(d, m)] = dir.entries[vault_dir_find(dir, m)]

LEMMA RemoveIs ==
    ASSUME NEW dir, DirOk(dir), dir = [dir EXCEPT !.entries = dir.entries],
           NEW n \in Names(dir), "entries" \in DOMAIN dir, "overflow" \in DOMAIN dir
    PROVE  LacksOnly(vault_dir_remove(dir, n), dir, n)
<1>1. PICK i, d, E : i = vault_dir_find(dir, n) /\ d = vault_dir_remove(dir, n) /\ E = dir.entries
  OBVIOUS
<1>2. i \in 1 .. Len(E) /\ E[i].name = n
  BY <1>1, NamesAre
<1>3. d.entries = RemoveAt(E, i) /\ d.overflow = dir.overflow
  BY <1>1 DEF vault_dir_remove
<1>4. PICK F : F = RemoveAt(E, i)
  OBVIOUS
<1>5. /\ E \in Seq(EntrySet) /\ Len(E) \in Nat /\ Len(E) <= MaxVolEntries /\ MaxVolEntries \in Int
      /\ dir.overflow \in Seq(Int)
      /\ \A j, k \in 1 .. Len(E) : E[j].name = E[k].name => j = k
  <2>1. MaxVolEntries \in Int
    BY VaultAssumption DEF MaxVolEntries, InnerData
  <2>2. QED
    BY <1>1, <2>1 DEF DirOk, Distinct
<1>6. /\ F \in Seq(EntrySet) /\ Len(F) = Len(E) - 1
      /\ \A j \in 1 .. Len(F) : F[j] = IF j < i THEN E[j] ELSE E[j + 1]
  BY <1>2, <1>4, <1>5, Removed
<1>7. d.entries = F
  BY <1>3, <1>4
<1>8. ASSUME NEW j \in 1 .. Len(F)
      PROVE  \E k \in 1 .. Len(E) : F[j] = E[k] /\ k = (IF j < i THEN j ELSE j + 1) /\ k # i
  BY <1>2, <1>5, <1>6
<1>9. ASSUME NEW j \in 1 .. Len(F), NEW k \in 1 .. Len(F), F[j].name = F[k].name PROVE j = k
  <2>1. PICK a \in 1 .. Len(E) : F[j] = E[a] /\ a = (IF j < i THEN j ELSE j + 1) /\ a # i
    BY <1>8
  <2>2. PICK b \in 1 .. Len(E) : F[k] = E[b] /\ b = (IF k < i THEN k ELSE k + 1) /\ b # i
    BY <1>8
  <2>3. a = b
    BY <1>5, <1>9, <2>1, <2>2
  <2>4. QED
    BY <1>2, <1>5, <1>6, <2>1, <2>2, <2>3
<1>10. DirOk(d)
  <2>1. Distinct(d)
    BY <1>7, <1>9 DEF Distinct
  <2>2. Len(F) <= MaxVolEntries
    BY <1>5, <1>6
  <2>3. QED
    BY <1>3, <1>5, <1>6, <1>7, <2>1, <2>2 DEF DirOk
<1>11. ASSUME NEW k \in 1 .. Len(E), k # i PROVE \E j \in 1 .. Len(F) : F[j] = E[k]
  <2>1. CASE k < i
    <3>1. k \in 1 .. Len(F)
      BY <1>2, <1>5, <1>6, <2>1
    <3>2. QED
      BY <1>6, <2>1, <3>1
  <2>2. CASE ~ (k < i)
    <3>1. k - 1 \in 1 .. Len(F) /\ ~ (k - 1 < i) /\ (k - 1) + 1 = k
      BY <1>2, <1>5, <1>6, <1>11, <2>2
    <3>2. QED
      BY <1>6, <3>1
  <2>3. QED
    BY <2>1, <2>2
<1>12. ASSUME NEW m
       PROVE  m \in Names(d) <=> m \in Names(dir) /\ m # n
  <2>1. ASSUME m \in Names(d) PROVE m \in Names(dir) /\ m # n
    <3>1. PICK j \in 1 .. Len(F) : m = F[j].name
      BY <1>7, <2>1 DEF Names
    <3>2. PICK k \in 1 .. Len(E) : F[j] = E[k] /\ k # i
      BY <1>8
    <3>3. QED
      BY <1>1, <1>2, <1>5, <3>1, <3>2 DEF Names
  <2>2. ASSUME m \in Names(dir), m # n PROVE m \in Names(d)
    <3>1. PICK k \in 1 .. Len(E) : m = E[k].name
      BY <1>1, <2>2 DEF Names
    <3>2. k # i
      BY <1>2, <2>2, <3>1
    <3>3. PICK j \in 1 .. Len(F) : F[j] = E[k]
      BY <1>11, <3>2
    <3>4. QED
      BY <1>7, <3>1, <3>3 DEF Names
  <2>3. QED
    BY <2>1, <2>2
<1>13. ASSUME NEW m \in Names(d)
       PROVE  d.entries[vault_dir_find(d, m)] = dir.entries[vault_dir_find(dir, m)]
  <2>1. PICK j \in 1 .. Len(F) : m = F[j].name
    BY <1>7 DEF Names
  <2>2. PICK k \in 1 .. Len(E) : F[j] = E[k] /\ k # i
    BY <1>8
  <2>3. d.entries[vault_dir_find(d, m)] = F[j]
    BY <1>7, <1>10, <2>1, LookedUp
  <2>4. dir.entries[vault_dir_find(dir, m)] = E[k]
    BY <1>1, <2>1, <2>2, LookedUp
  <2>5. QED
    BY <2>2, <2>3, <2>4
<1>14. QED
  BY <1>1, <1>3, <1>6, <1>7, <1>10, <1>12, <1>13 DEF LacksOnly

(* An opened directory is a record of a walk.                              *)
LEMMA DirShape ==
    ASSUME NEW img, NEW p, NEW dir, dir = vault_open_volume(img, p)
    PROVE  /\ dir = [dir EXCEPT !.entries = dir.entries]
           /\ "entries" \in DOMAIN dir /\ "overflow" \in DOMAIN dir
<1> DEFINE Shaped(s) == \E a, b, c, e :
              s = [state |-> a, at |-> b, entries |-> c, overflow |-> e]
<1>1. PICK w : Walks(w, img, p) /\ dir = IF img.size < BlockLen THEN NoDir ELSE w[MaxBlocks]
  BY WalkIs
<1>2. MaxBlocks \in Nat
  BY VaultAssumption
<1>3. Shaped(NoDir) /\ Shaped(Start(img, p))
  <2>1. Shaped(NoDir)
    BY DEF NoDir
  <2>2. PICK a : a = vault_anchor_offset(p, img.size)
    OBVIOUS
  <2>3. Start(img, p) = [NoDir EXCEPT !.state = "open", !.at = a]
    BY <2>2 DEF Start
  <2>4. Start(img, p) = [state |-> "open", at |-> a, entries |-> <<>>, overflow |-> <<>>]
    BY <2>3 DEF NoDir
  <2>5. QED
    BY <2>1, <2>4
<1>4. ASSUME NEW s, Shaped(s) PROVE Shaped(Step(img, p, s))
  <2>1. PICK a, b, c, e : s = [state |-> a, at |-> b, entries |-> c, overflow |-> e]
    BY <1>4
  <2>2. PICK t : t = Step(img, p, s)
    OBVIOUS
  <2>3. \/ t = s
        \/ t = [s EXCEPT !.state = "bad"]
        \/ \E x : t = [s EXCEPT !.state = "done", !.entries = x]
        \/ \E x, y, z : t = [s EXCEPT !.entries = x, !.overflow = y, !.at = z]
    BY <2>2 DEF Step
  <2>4. CASE t = s
    BY <1>4, <2>2, <2>4
  <2>5. CASE t = [s EXCEPT !.state = "bad"]
    <3>1. t = [state |-> "bad", at |-> b, entries |-> c, overflow |-> e]
      BY <2>1, <2>5
    <3>2. QED
      BY <2>2, <3>1
  <2>6. CASE \E x : t = [s EXCEPT !.state = "done", !.entries = x]
    <3>1. PICK x : t = [s EXCEPT !.state = "done", !.entries = x]
      BY <2>6
    <3>2. t = [state |-> "done", at |-> b, entries |-> x, overflow |-> e]
      BY <2>1, <3>1
    <3>3. QED
      BY <2>2, <3>2
  <2>7. CASE \E x, y, z : t = [s EXCEPT !.entries = x, !.overflow = y, !.at = z]
    <3>1. PICK x, y, z : t = [s EXCEPT !.entries = x, !.overflow = y, !.at = z]
      BY <2>7
    <3>2. t = [state |-> a, at |-> z, entries |-> x, overflow |-> y]
      BY <2>1, <3>1
    <3>3. QED
      BY <2>2, <3>2
  <2>8. QED
    BY <2>3, <2>4, <2>5, <2>6, <2>7
<1> HIDE DEF Shaped
<1> DEFINE S == {b \in Nat : b <= MaxBlocks => Shaped(w[b])}
<1>5. 0 \in S
  BY <1>1, <1>2, <1>3 DEF Walks
<1>6. ASSUME NEW b \in Nat, b \in S PROVE b + 1 \in S
  <2>1. ASSUME b + 1 <= MaxBlocks PROVE Shaped(w[b + 1])
    <3>1. b <= MaxBlocks /\ b + 1 \in 0 .. MaxBlocks /\ b + 1 # 0 /\ (b + 1) - 1 = b
      BY <1>2, <2>1
    <3>2. w[b + 1] = Step(img, p, w[b])
      BY <1>1, <3>1 DEF Walks
    <3>3. Shaped(w[b])
      BY <1>6, <3>1
    <3>4. QED
      BY <1>4, <3>2, <3>3
  <2>2. QED
    BY <2>1
<1>7. Shaped(w[MaxBlocks])
  <2>1. MaxBlocks \in S
    <3> HIDE DEF S
    <3>1. QED
      BY <1>2, <1>5, <1>6, AllNumbers
  <2>2. QED
    BY <1>2, <2>1
<1>8. Shaped(dir)
  BY <1>1, <1>3, <1>7
<1>9. PICK a, b, c, e : dir = [state |-> a, at |-> b, entries |-> c, overflow |-> e]
  BY <1>8 DEF Shaped
<1>10. QED
  BY <1>9

LEMMA Lacking ==
    ASSUME NEW img, NEW p, NEW dir, VolumeOk(img, p, dir), NEW n, NEW d, LacksOnly(d, dir, n)
    PROVE  /\ VolumeOk(img, p, d)
           /\ VolumeOf(img, p, d) = Store!Without(VolumeOf(img, p, dir), n)
<1>1. DirOk(d) /\ DirOk(dir)
  BY DEF LacksOnly, VolumeOk
<1>2. ASSUME NEW i \in 1 .. Len(d.entries) PROVE Extract(img, p, d.entries[i]) \in Data
  <2>1. PICK m, k : m = d.entries[i].name /\ k = vault_dir_find(dir, m)
    OBVIOUS
  <2>2. m \in Names(d) /\ d.entries[vault_dir_find(d, m)] = d.entries[i]
    BY <1>1, <2>1, LookedUp
  <2>3. d.entries[i] = dir.entries[k] /\ m \in Names(dir)
    BY <2>1, <2>2 DEF LacksOnly
  <2>4. k \in 1 .. Len(dir.entries)
    BY <1>1, <2>1, <2>3, NamesAre
  <2>5. QED
    BY <2>3, <2>4 DEF VolumeOk
<1>3. PICK D, V : D = VolumeOf(img, p, d) /\ V = VolumeOf(img, p, dir)
  OBVIOUS
<1>4. DOMAIN V = Names(dir) /\ Names(d) = Names(dir) \ {n}
  BY <1>3 DEF VolumeOf, LacksOnly
<1>5. Store!Without(V, n) = [m \in Names(d) |-> V[m]]
  BY <1>4 DEF Store!Without, Store!Restrict
<1>6. ASSUME NEW m \in Names(d) PROVE D[m] = V[m]
  <2>1. d.entries[vault_dir_find(d, m)] = dir.entries[vault_dir_find(dir, m)] /\ m \in Names(dir)
    BY <1>4 DEF LacksOnly
  <2>2. QED
    BY <1>3, <2>1 DEF VolumeOf
<1>7. D = [m \in Names(d) |-> D[m]]
  BY <1>3 DEF VolumeOf
<1>8. QED
  BY <1>1, <1>2, <1>3, <1>5, <1>6, <1>7 DEF VolumeOk

LEMMA RmGood ==
    ASSUME Ready, NEW p \in Pass, NEW n \in Name, NEW keep \in KeepLists,
           NEW R, R = RmImage(p, n, keep), R # Truncated
    PROVE  Good(Op("rm", p, p, keep, n, NoContent), R)
<1>1. PICK op, img, z, dir, d, plan :
         /\ op = Op("rm", p, p, keep, n, NoContent)
         /\ img = Current /\ z = Current.size /\ dir = vault_open_volume(img, p)
         /\ d = vault_dir_remove(dir, n) /\ plan = Plan(p, d)
  OBVIOUS
<1>2. /\ op.kind = "rm" /\ op.pass = p /\ op.name = n /\ op.keep = KeepSet(keep)
      /\ op \in Commands
  BY <1>1, OpIs, OpType
<1>3. /\ path # 0 /\ Opened(dir) /\ KeepsOpen(img, keep) /\ vault_dir_find(dir, n) # 0
      /\ R = vault_rewrite(img, z, <<plan>> \o KeepPlans(img, keep))
  BY <1>1 DEF RmImage, vault_mutate
<1>4. z \in Sizes /\ z \in Nat /\ ImageOk(img) /\ vols = Volumes(img)
  BY <1>1, <1>3, VaultAssumption DEF Ready
<1>5. plan.pass = p /\ plan.read = p /\ plan.dir = d /\ plan.new = NoContent
  BY <1>1 DEF Plan
<1>6. VolumeOk(img, p, dir) /\ DirOk(dir)
  BY <1>1, <1>3, <1>4 DEF ImageOk, VolumeOk
<1>7. n \in Names(dir)
  BY <1>3, <1>6, NotFound
<1>8. LacksOnly(d, dir, n)
  <2>1. /\ dir = [dir EXCEPT !.entries = dir.entries]
        /\ "entries" \in DOMAIN dir /\ "overflow" \in DOMAIN dir
    BY <1>1, DirShape
  <2>2. QED
    BY <1>1, <1>6, <1>7, <2>1, RemoveIs
<1>9. VolumeOk(img, p, d) /\ VolumeOf(img, p, d) = Store!Without(VolumeOf(img, p, dir), n)
  BY <1>6, <1>8, Lacking
<1>10. PlanOk(img, z, plan)
  <2>1. vault_anchor_offset(p, z) \in Nat
    BY <1>4, VaultAssumption DEF vault_anchor_offset
  <2>2. QED
    BY <1>5, <1>9, <2>1 DEF PlanOk, VolumeOk, Data
<1>11. KeepOk(keep, z)
  BY <1>4, KeepListOk
<1>12. /\ Volumes(R) = KeptVolumes(img, KeepSet(keep), plan.pass, PlanVolume(img, plan))
       /\ plan.pass \notin KeepSet(keep)
       /\ \A x \in KeepSet(keep) : x \in Pass /\ Opened(vault_open_volume(img, x))
       /\ ImageOk(R) /\ R.size = z
       /\ plan.new = NoContent => PlanVolume(img, plan) = VolumeOf(img, plan.read, plan.dir)
  BY <1>3, <1>4, <1>10, <1>11, KeptBy
<1>13. vols[p] = VolumeOf(img, p, dir)
  BY <1>1, <1>3, <1>4, VolumesAre
<1>14. PlanVolume(img, plan) = Store!Without(vols[p], n)
  BY <1>5, <1>9, <1>12, <1>13
<1>15. Volumes(R) = Store!Effect(op)
  BY <1>2, <1>4, <1>5, <1>12, <1>14 DEF KeptVolumes, Store!Effect, Store!Kept
<1>16. (\A x \in KeepSet(keep) : vols[x] # NoVolume) /\ vols[p] # NoVolume
  BY <1>1, <1>3, <1>4, <1>12, VolumeNotNone
<1>17. n \in DOMAIN vols[p]
  BY <1>7, <1>13 DEF VolumeOf
<1>18. Store!Allowed(op)
  BY <1>2, <1>5, <1>12, <1>16, <1>17 DEF Store!Allowed
<1>19. QED
  BY <1>1, <1>2, <1>4, <1>12, <1>15, <1>18 DEF Good

(***************************************************************************)
(* Placement.                                                              *)
(***************************************************************************)
RangeSet == [start : Int, end : Int]

RangesOk(r) == r \subseteq RangeSet /\ IsFiniteSet(r)

(* A finite set of ranges has a first one.                                 *)
LEMMA FirstIs ==
    ASSUME NEW r, RangesOk(r), r # {}
    PROVE  First(r) \in r /\ \A y \in r : First(r).start <= y.start
<1> DEFINE Low(c) == \E x \in c : \A y \in c : x.start <= y.start
           S == {k \in Nat : \A c \in SUBSET r : c # {} /\ Cardinality(c) = k => Low(c)}
<1>1. 0 \in S
  <2>1. ASSUME NEW c \in SUBSET r, c # {}, Cardinality(c) = 0 PROVE FALSE
    BY <2>1, FS_Subset, FS_EmptySet DEF RangesOk
  <2>2. QED
    BY <2>1
<1>2. ASSUME NEW k \in Nat, k \in S PROVE k + 1 \in S
  <2>1. ASSUME NEW c \in SUBSET r, c # {}, Cardinality(c) = k + 1 PROVE Low(c)
    <3>1. PICK x \in c : TRUE
      BY <2>1
    <3>2. PICK b : b = c \ {x}
      OBVIOUS
    <3>3. IsFiniteSet(c) /\ b \in SUBSET r /\ Cardinality(b) = k /\ c = b \cup {x}
      <4>1. IsFiniteSet(c)
        BY FS_Subset DEF RangesOk
      <4>2. Cardinality(b) = Cardinality(c) - 1
        BY <3>1, <3>2, <4>1, FS_RemoveElement
      <4>3. QED
        BY <2>1, <3>1, <3>2, <4>1, <4>2
    <3>4. CASE b = {}
      <4>1. c = {x} /\ x.start \in Int
        BY <3>3, <3>4 DEF RangesOk, RangeSet
      <4>2. QED
        BY <4>1
    <3>5. CASE b # {}
      <4>1. PICK y \in b : \A t \in b : y.start <= t.start
        BY <1>2, <3>3, <3>5
      <4>2. \A t \in c : t.start \in Int
        BY DEF RangesOk, RangeSet
      <4>3. CASE y.start <= x.start
        BY <3>3, <4>1, <4>3
      <4>4. CASE ~ (y.start <= x.start)
        <5>1. \A t \in c : x.start <= t.start
          BY <3>3, <4>1, <4>2, <4>4
        <5>2. QED
          BY <3>1, <5>1
      <4>5. QED
        BY <4>3, <4>4
    <3>6. QED
      BY <3>4, <3>5
  <2> HIDE DEF Low
  <2>2. k + 1 \in Nat
    OBVIOUS
  <2>3. QED
    BY <2>1, <2>2
<1>3. Low(r)
  <2>1. Cardinality(r) \in Nat
    BY FS_CardinalityType DEF RangesOk
  <2>2. Cardinality(r) \in S
    <3> HIDE DEF S
    <3>1. QED
      BY <1>1, <1>2, <2>1, AllNumbers
  <2>3. QED
    BY <2>2
<1>4. QED
  BY <1>3 DEF First

(* vault_find_free goes through the ranges by their starts.                *)
ScanStart(r) == [left |-> r, found |-> FALSE, cursor |-> 0]

ScanStep(s, need) ==
    LET x == First(s.left)
    IN  IF s.found \/ (x.start > s.cursor /\ x.start - s.cursor >= need)
        THEN [s EXCEPT !.found = TRUE]
        ELSE [s EXCEPT !.left = @ \ {x}, !.cursor = IF x.end > @ THEN x.end ELSE @]

ScanEnd(s, size, need) ==
    IF s.found \/ (size > s.cursor /\ size - s.cursor >= need) THEN s.cursor ELSE -1

Scans(w, r, need) ==
    \A i \in 0 .. Cardinality(r) :
        w[i] = IF i = 0 THEN ScanStart(r) ELSE ScanStep(w[i - 1], need)

LEMMA ScanIs ==
    ASSUME NEW r, RangesOk(r), NEW size, NEW need
    PROVE  \E w : /\ Scans(w, r, need)
                  /\ vault_find_free(r, size, need) = ScanEnd(w[Cardinality(r)], size, need)
<1> DEFINE n == Cardinality(r)
           Body(f, b) == IF b = 0 THEN ScanStart(r) ELSE ScanStep(f[b - 1], need)
           Rec(f, k) == \A b \in 0 .. n : b <= k => f[b] = Body(f, b)
           S == {k \in Nat : \E f : f = [b \in 0 .. n |-> f[b]] /\ Rec(f, k)}
           Whole(f) == f = [b \in 0 .. n |-> Body(f, b)]
<1>0. n \in Nat
  BY FS_CardinalityType DEF RangesOk
<1>1. 0 \in S
  <2> DEFINE f == [b \in 0 .. n |-> ScanStart(r)]
  <2>1. f = [b \in 0 .. n |-> f[b]] /\ Rec(f, 0)
    OBVIOUS
  <2> HIDE DEF f
  <2>2. QED
    BY <2>1
<1>2. ASSUME NEW k \in Nat, k \in S PROVE k + 1 \in S
  <2>1. PICK f : f = [b \in 0 .. n |-> f[b]] /\ Rec(f, k)
    BY <1>2
  <2> DEFINE c == Body(f, k + 1)
             g == [b \in 0 .. n |-> IF b = k + 1 THEN c ELSE f[b]]
  <2>2. ASSUME NEW b \in 0 .. n, b <= k + 1 PROVE g[b] = Body(g, b)
    <3>1. b # 0 => b - 1 \in 0 .. n /\ b - 1 # k + 1 /\ b - 1 <= k
      BY <1>0, <2>2
    <3>2. b # 0 => g[b - 1] = f[b - 1]
      BY <3>1
    <3>3. Body(g, b) = Body(f, b)
      <4> HIDE DEF g
      <4>1. QED
        BY <3>2
    <3>4. g[b] = Body(f, b)
      <4> HIDE DEF c
      <4>1. CASE b = k + 1
        BY <4>1 DEF c
      <4>2. CASE b # k + 1
        <5>1. b <= k
          BY <1>0, <2>2, <4>2
        <5>2. QED
          BY <2>1, <4>2, <5>1
      <4>3. QED
        BY <4>1, <4>2
    <3>5. QED
      BY <3>3, <3>4
  <2>3. g = [b \in 0 .. n |-> g[b]]
    OBVIOUS
  <2> HIDE DEF g
  <2>4. Rec(g, k + 1)
    BY <2>2
  <2> HIDE DEF Rec
  <2>5. \E f1 : f1 = [b \in 0 .. n |-> f1[b]] /\ Rec(f1, k + 1)
    BY <2>3, <2>4
  <2>6. k + 1 \in Nat
    OBVIOUS
  <2>7. QED
    BY <2>5, <2>6
<1>3. n \in S
  <2> HIDE DEF S
  <2>1. QED
    BY <1>0, <1>1, <1>2, AllNumbers
<1>4. PICK f : f = [b \in 0 .. n |-> f[b]] /\ Rec(f, n)
  BY <1>3
<1>5. \A b \in 0 .. n : f[b] = Body(f, b)
  <2> HIDE DEF Body
  <2>1. QED
    BY <1>0, <1>4
<1>6. Whole(f)
  <2> HIDE DEF Body
  <2>1. QED
    BY <1>4, <1>5
<1> DEFINE w == CHOOSE f0 : Whole(f0)
<1>7. vault_find_free(r, size, need) = ScanEnd(w[n], size, need)
  BY DEF vault_find_free, ScanStart, ScanStep, ScanEnd
<1>8. Whole(w)
  <2> HIDE DEF Whole
  <2>1. QED
    BY <1>6
<1> HIDE DEF w
<1>9. Scans(w, r, need)
  BY <1>8 DEF Scans
<1>10. QED
  BY <1>7, <1>9

(* The place of a slot of need bytes at x is free.                         *)
FreeAt(r, x, need) == \A t \in r : ~ (x < t.end /\ t.start < x + need)

(* After i ranges: what lies behind the cursor, and what was not free.     *)
ScanAt(s, r, i, need) ==
    /\ s \in [left : SUBSET r, found : BOOLEAN, cursor : Nat]
    /\ ~ s.found => Cardinality(s.left) = Cardinality(r) - i
    /\ \A t \in r \ s.left : t.end <= s.cursor
    /\ \A y \in Nat : y < s.cursor => ~ FreeAt(r, y, need)
    /\ s.found => FreeAt(r, s.cursor, need)

LEMMA ScanStepOk ==
    ASSUME NEW r, RangesOk(r), NEW need \in Nat \ {0}, NEW i \in Nat, i < Cardinality(r),
           NEW s, ScanAt(s, r, i, need)
    PROVE  ScanAt(ScanStep(s, need), r, i + 1, need)
<1>1. PICK l, f, c : l = s.left /\ f = s.found /\ c = s.cursor
  OBVIOUS
<1>2. /\ s = [left |-> l, found |-> f, cursor |-> c]
      /\ l \in SUBSET r /\ f \in BOOLEAN /\ c \in Nat
  BY <1>1 DEF ScanAt
<1>3. PICK t : t = ScanStep(s, need)
  OBVIOUS
<1>4. CASE f
  <2>1. t = [left |-> l, found |-> TRUE, cursor |-> c]
    BY <1>1, <1>2, <1>3, <1>4 DEF ScanStep
  <2>2. QED
    BY <1>1, <1>2, <1>3, <1>4, <2>1 DEF ScanAt
<1>5. CASE ~ f
  <2>1. PICK x : x = First(l)
    OBVIOUS
  <2>2. Cardinality(r) \in Nat /\ IsFiniteSet(l) /\ Cardinality(l) = Cardinality(r) - i
    BY <1>1, <1>2, <1>5, FS_CardinalityType, FS_Subset DEF RangesOk, ScanAt
  <2>3. l # {}
    BY <2>2, FS_EmptySet
  <2>4. x \in l /\ (\A y \in l : x.start <= y.start)
    BY <1>2, <2>1, <2>2, <2>3, FirstIs DEF RangesOk
  <2>5. \A y \in r : y.start \in Int /\ y.end \in Int
    BY DEF RangesOk, RangeSet
  <2>6. /\ \A y \in r \ l : y.end <= c
        /\ \A y \in Nat : y < c => ~ FreeAt(r, y, need)
    BY <1>1 DEF ScanAt
  <2>7. CASE x.start > c /\ x.start - c >= need
    <3>1. t = [left |-> l, found |-> TRUE, cursor |-> c]
      BY <1>2, <1>3, <1>5, <2>1, <2>7 DEF ScanStep
    <3>2. FreeAt(r, c, need)
      <4> SUFFICES ASSUME NEW y \in r PROVE ~ (c < y.end /\ y.start < c + need)
        BY DEF FreeAt
      <4>1. CASE y \in l
        BY <1>2, <2>4, <2>5, <2>7, <4>1
      <4>2. CASE y \notin l
        BY <1>2, <2>5, <2>6, <4>2
      <4>3. QED
        BY <4>1, <4>2
    <3>3. /\ t \in [left : SUBSET r, found : BOOLEAN, cursor : Nat]
          /\ t.left = l /\ t.found /\ t.cursor = c
      BY <1>2, <3>1
    <3>4. ScanAt(t, r, i + 1, need)
      BY <2>6, <3>2, <3>3 DEF ScanAt
    <3>5. QED
      BY <1>3, <3>4
  <2>8. CASE ~ (x.start > c /\ x.start - c >= need)
    <3>1. PICK d : d = IF x.end > c THEN x.end ELSE c
      OBVIOUS
    <3>2. d \in Nat /\ d >= c /\ d >= x.end
      BY <1>2, <2>4, <2>5, <3>1
    <3>3. t = [left |-> l \ {x}, found |-> FALSE, cursor |-> d]
      BY <1>2, <1>3, <1>5, <2>1, <2>8, <3>1 DEF ScanStep
    <3>4. Cardinality(l \ {x}) = Cardinality(r) - (i + 1)
      <4>1. Cardinality(l \ {x}) = Cardinality(l) - 1
        BY <2>2, <2>4, FS_RemoveElement
      <4>2. QED
        BY <2>2, <4>1
    <3>5. ASSUME NEW y \in r \ (l \ {x}) PROVE y.end <= d
      BY <1>2, <2>4, <2>5, <2>6, <3>2
    <3>6. ASSUME NEW y \in Nat, y < d PROVE ~ FreeAt(r, y, need)
      <4>1. CASE y < c
        BY <2>6, <4>1
      <4>2. CASE ~ (y < c)
        <5>1. x \in r /\ x.start \in Int /\ x.end \in Int
          BY <1>2, <2>4, <2>5
        <5>2. y < x.end /\ x.start < y + need
          BY <1>2, <2>8, <3>1, <3>6, <4>2, <5>1
        <5>3. QED
          BY <5>1, <5>2 DEF FreeAt
      <4>3. QED
        BY <4>1, <4>2
    <3>7. /\ t \in [left : SUBSET r, found : BOOLEAN, cursor : Nat]
          /\ t.left = l \ {x} /\ ~ t.found /\ t.cursor = d
      BY <1>2, <3>2, <3>3
    <3>8. ScanAt(t, r, i + 1, need)
      BY <3>4, <3>5, <3>6, <3>7 DEF ScanAt
    <3>9. QED
      BY <1>3, <3>8
  <2>9. QED
    BY <2>7, <2>8
<1>6. QED
  BY <1>2, <1>4, <1>5

(* vault_find_free finds the lowest free place, if one is before size.     *)
FirstFree(off, r, size, need) ==
    /\ off \in Int
    /\ off # -1 => off \in Nat /\ FreeAt(r, off, need)
                   /\ \A y \in Nat : y < off => ~ FreeAt(r, y, need)
    /\ off = -1 => \A y \in Nat : FreeAt(r, y, need) => y + need > size

LEMMA FirstFit ==
    ASSUME NEW r, RangesOk(r), NEW size \in Nat, NEW need \in Nat \ {0}
    PROVE  FirstFree(vault_find_free(r, size, need), r, size, need)
<1>1. PICK w : /\ Scans(w, r, need)
               /\ vault_find_free(r, size, need) = ScanEnd(w[Cardinality(r)], size, need)
  BY ScanIs
<1>2. PICK n \in Nat : n = Cardinality(r)
  BY FS_CardinalityType DEF RangesOk
<1> DEFINE S == {i \in Nat : i <= n => ScanAt(w[i], r, i, need)}
<1>3. 0 \in S
  <2>1. 0 \in 0 .. Cardinality(r)
    BY <1>2
  <2>2. w[0] = ScanStart(r)
    BY <1>1, <2>1 DEF Scans
  <2>3. w[0] = [left |-> r, found |-> FALSE, cursor |-> 0]
    BY <2>2 DEF ScanStart
  <2>4. ScanAt(w[0], r, 0, need)
    BY <1>2, <2>3 DEF ScanAt
  <2>5. QED
    BY <2>4
<1>4. ASSUME NEW i \in Nat, i \in S PROVE i + 1 \in S
  <2>1. ASSUME i + 1 <= n PROVE ScanAt(w[i + 1], r, i + 1, need)
    <3>1. i < Cardinality(r) /\ i + 1 \in 0 .. Cardinality(r) /\ i + 1 # 0 /\ (i + 1) - 1 = i
      BY <1>2, <2>1
    <3>2. w[i + 1] = ScanStep(w[i], need)
      BY <1>1, <3>1 DEF Scans
    <3>3. PICK s : s = w[i]
      OBVIOUS
    <3>4. ScanAt(s, r, i, need)
      BY <1>2, <1>4, <3>1, <3>3
    <3>5. ScanAt(ScanStep(s, need), r, i + 1, need)
      BY <3>1, <3>4, ScanStepOk
    <3>6. QED
      BY <3>2, <3>3, <3>5
  <2>2. QED
    BY <2>1
<1>5. ScanAt(w[n], r, n, need)
  <2> HIDE DEF S
  <2>1. n \in S
    BY <1>3, <1>4, AllNumbers
  <2>2. QED
    BY <2>1 DEF S
<1>6. PICK s, c, off : s = w[n] /\ c = s.cursor /\ off = vault_find_free(r, size, need)
  OBVIOUS
<1>7. /\ off = ScanEnd(s, size, need) /\ c \in Nat
      /\ \A y \in Nat : y < c => ~ FreeAt(r, y, need)
  BY <1>1, <1>2, <1>5, <1>6 DEF ScanAt
<1>8. FreeAt(r, c, need)
  <2>1. CASE s.found
    BY <1>5, <1>6, <2>1 DEF ScanAt
  <2>2. CASE ~ s.found
    <3>1. s.left \subseteq r /\ Cardinality(s.left) = 0
      BY <1>2, <1>5, <1>6, <2>2 DEF ScanAt
    <3>2. s.left = {}
      BY <3>1, FS_Subset, FS_EmptySet DEF RangesOk
    <3>3. \A t \in r : t.end <= c /\ t.end \in Int
      BY <1>5, <1>6, <3>2 DEF ScanAt, RangesOk, RangeSet
    <3>4. QED
      BY <1>7, <3>3 DEF FreeAt
  <2>3. QED
    BY <2>1, <2>2
<1>9. CASE off = c
  BY <1>6, <1>7, <1>8, <1>9 DEF FirstFree
<1>10. CASE off # c
  <2>1. off = -1 /\ ~ (size > c /\ size - c >= need)
    BY <1>6, <1>7, <1>10 DEF ScanEnd
  <2>2. ASSUME NEW y \in Nat, FreeAt(r, y, need) PROVE y + need > size
    <3>1. y >= c
      BY <1>7, <2>2
    <3>2. QED
      BY <1>7, <2>1, <3>1
  <2>3. QED
    BY <1>6, <2>1, <2>2 DEF FirstFree
<1>11. QED
  BY <1>9, <1>10

(* The overflow blocks are grown one at a time.                            *)
GrowStart(have, ranges) == [blocks |-> have, ranges |-> ranges]

GrowStep(g, size) ==
    LET off == vault_find_free(g.ranges, size, BlockLen)
    IN  IF off = -1 THEN g
        ELSE [blocks |-> Append(g.blocks, off), ranges |-> g.ranges \cup {range(off, BlockLen)}]

Grows(w, have, ranges, size) ==
    \A b \in 0 .. MaxBlocks :
        w[b] = IF b <= Len(have) THEN GrowStart(have, ranges) ELSE GrowStep(w[b - 1], size)

LEMMA GrowIs ==
    ASSUME NEW have \in Seq(Int), NEW ranges, NEW size, NEW need
    PROVE  \E w : /\ Grows(w, have, ranges, size)
                  /\ Overflow(have, ranges, size, need) = w[need - 1].blocks
<1> DEFINE n == MaxBlocks
           Body(f, b) == IF b <= Len(have) THEN GrowStart(have, ranges)
                         ELSE GrowStep(f[b - 1], size)
           Rec(f, k) == \A b \in 0 .. n : b <= k => f[b] = Body(f, b)
           S == {k \in Nat : \E f : f = [b \in 0 .. n |-> f[b]] /\ Rec(f, k)}
           Whole(f) == f = [b \in 0 .. n |-> Body(f, b)]
<1>0. n \in Nat /\ Len(have) \in Nat
  BY VaultAssumption
<1>1. 0 \in S
  <2> DEFINE f == [b \in 0 .. n |-> GrowStart(have, ranges)]
  <2>1. f = [b \in 0 .. n |-> f[b]] /\ Rec(f, 0)
    BY <1>0
  <2> HIDE DEF f
  <2>2. QED
    BY <2>1
<1>2. ASSUME NEW k \in Nat, k \in S PROVE k + 1 \in S
  <2>1. PICK f : f = [b \in 0 .. n |-> f[b]] /\ Rec(f, k)
    BY <1>2
  <2> DEFINE c == Body(f, k + 1)
             g == [b \in 0 .. n |-> IF b = k + 1 THEN c ELSE f[b]]
  <2>2. ASSUME NEW b \in 0 .. n, b <= k + 1 PROVE g[b] = Body(g, b)
    <3>1. ~ (b <= Len(have)) => b - 1 \in 0 .. n /\ b - 1 # k + 1 /\ b - 1 <= k
      BY <1>0, <2>2
    <3>2. ~ (b <= Len(have)) => g[b - 1] = f[b - 1]
      BY <3>1
    <3>3. Body(g, b) = Body(f, b)
      <4> HIDE DEF g
      <4>1. QED
        BY <3>2
    <3>4. g[b] = Body(f, b)
      <4> HIDE DEF c
      <4>1. CASE b = k + 1
        BY <4>1 DEF c
      <4>2. CASE b # k + 1
        <5>1. b <= k
          BY <1>0, <2>2, <4>2
        <5>2. QED
          BY <2>1, <4>2, <5>1
      <4>3. QED
        BY <4>1, <4>2
    <3>5. QED
      BY <3>3, <3>4
  <2>3. g = [b \in 0 .. n |-> g[b]]
    OBVIOUS
  <2> HIDE DEF g
  <2>4. Rec(g, k + 1)
    BY <2>2
  <2> HIDE DEF Rec
  <2>5. \E f1 : f1 = [b \in 0 .. n |-> f1[b]] /\ Rec(f1, k + 1)
    BY <2>3, <2>4
  <2>6. k + 1 \in Nat
    OBVIOUS
  <2>7. QED
    BY <2>5, <2>6
<1>3. n \in S
  <2> HIDE DEF S
  <2>1. QED
    BY <1>0, <1>1, <1>2, AllNumbers
<1>4. PICK f : f = [b \in 0 .. n |-> f[b]] /\ Rec(f, n)
  BY <1>3
<1>5. \A b \in 0 .. n : f[b] = Body(f, b)
  <2> HIDE DEF Body
  <2>1. QED
    BY <1>0, <1>4
<1>6. Whole(f)
  <2> HIDE DEF Body
  <2>1. QED
    BY <1>4, <1>5
<1> DEFINE w == CHOOSE f0 : Whole(f0)
<1>7. Overflow(have, ranges, size, need) = w[need - 1].blocks
  BY DEF Overflow, GrowStart, GrowStep
<1>8. Whole(w)
  <2> HIDE DEF Whole
  <2>1. QED
    BY <1>6
<1> HIDE DEF w
<1>9. Grows(w, have, ranges, size)
  BY <1>8 DEF Grows
<1>10. QED
  BY <1>7, <1>9

GrownOk(g) == g.blocks \in Seq(Int) /\ RangesOk(g.ranges)

LEMMA GrowStepOk ==
    ASSUME NEW size \in Nat, NEW g, GrownOk(g)
    PROVE  GrownOk(GrowStep(g, size))
<1>1. PICK off : off = vault_find_free(g.ranges, size, BlockLen)
  OBVIOUS
<1>2. off \in Int /\ BlockLen \in Nat \ {0}
  BY <1>1, FirstFit, BlockLenIs DEF FirstFree, GrownOk
<1>3. CASE off = -1
  BY <1>1, <1>3 DEF GrowStep
<1>4. CASE off # -1
  <2>1. PICK B, r, t : B = g.blocks /\ r = g.ranges /\ t = range(off, BlockLen)
    OBVIOUS
  <2>2. GrowStep(g, size) = [blocks |-> Append(B, off), ranges |-> r \cup {t}]
    BY <1>1, <1>4, <2>1 DEF GrowStep
  <2>3. Append(B, off) \in Seq(Int) /\ RangesOk(r)
    BY <1>2, <2>1 DEF GrownOk
  <2>4. t \in RangeSet
    BY <1>2, <2>1 DEF range, RangeSet
  <2>5. IsFiniteSet(r \cup {t})
    BY <2>3, FS_AddElement DEF RangesOk
  <2>6. RangesOk(r \cup {t})
    BY <2>3, <2>4, <2>5 DEF RangesOk
  <2>7. QED
    BY <2>2, <2>3, <2>6 DEF GrownOk
<1>5. QED
  BY <1>3, <1>4

(* What Overflow returns: at most one block more is one first-fit more.    *)
Grown(B, have, ranges, size, need) ==
    /\ B \in Seq(Int)
    /\ need - 1 <= Len(have) => B = have
    /\ need - 1 = Len(have) + 1 =>
          LET off == vault_find_free(ranges, size, BlockLen)
          IN  B = IF off = -1 THEN have ELSE Append(have, off)

LEMMA OverflowIs ==
    ASSUME NEW have \in Seq(Int), NEW ranges, RangesOk(ranges), NEW size \in Nat,
           NEW need \in 1 .. MaxBlocks
    PROVE  Grown(Overflow(have, ranges, size, need), have, ranges, size, need)
<1>1. PICK w : /\ Grows(w, have, ranges, size)
               /\ Overflow(have, ranges, size, need) = w[need - 1].blocks
  BY GrowIs
<1>2. MaxBlocks \in Nat /\ Len(have) \in Nat
  BY VaultAssumption
<1> DEFINE S == {b \in Nat : b <= MaxBlocks => GrownOk(w[b])}
<1>3. GrownOk(GrowStart(have, ranges))
  BY DEF GrowStart, GrownOk
<1>4. 0 \in S
  <2>1. 0 \in 0 .. MaxBlocks /\ 0 <= Len(have)
    BY <1>2
  <2>2. w[0] = GrowStart(have, ranges)
    BY <1>1, <2>1 DEF Grows
  <2>3. QED
    BY <1>3, <2>2
<1>5. ASSUME NEW b \in Nat, b \in S PROVE b + 1 \in S
  <2>1. ASSUME b + 1 <= MaxBlocks PROVE GrownOk(w[b + 1])
    <3>1. b <= MaxBlocks /\ b + 1 \in 0 .. MaxBlocks /\ (b + 1) - 1 = b
      BY <1>2, <2>1
    <3>2. w[b + 1] = IF b + 1 <= Len(have) THEN GrowStart(have, ranges)
                     ELSE GrowStep(w[b], size)
      BY <1>1, <3>1 DEF Grows
    <3>3. GrownOk(w[b])
      BY <1>5, <3>1
    <3>4. GrownOk(GrowStep(w[b], size))
      BY <3>3, GrowStepOk
    <3>5. QED
      BY <1>3, <3>2, <3>4
  <2>2. QED
    BY <2>1
<1>6. PICK k : k = need - 1
  OBVIOUS
<1>7. k \in 0 .. MaxBlocks /\ k \in Nat /\ k <= MaxBlocks
  BY <1>2, <1>6
<1>8. GrownOk(w[k])
  <2> HIDE DEF S
  <2>1. k \in S
    BY <1>4, <1>5, <1>7, AllNumbers
  <2>2. QED
    BY <1>7, <2>1 DEF S
<1>9. ASSUME k <= Len(have) PROVE w[k].blocks = have
  <2>1. w[k] = GrowStart(have, ranges)
    BY <1>1, <1>7, <1>9 DEF Grows
  <2>2. QED
    BY <2>1 DEF GrowStart
<1>10. ASSUME k = Len(have) + 1
       PROVE  LET off == vault_find_free(ranges, size, BlockLen)
              IN  w[k].blocks = IF off = -1 THEN have ELSE Append(have, off)
  <2>1. PICK g : g = GrowStart(have, ranges)
    OBVIOUS
  <2>2. k - 1 \in 0 .. MaxBlocks /\ k - 1 <= Len(have) /\ ~ (k <= Len(have))
    BY <1>2, <1>7, <1>10
  <2>3. w[k - 1] = g
    BY <1>1, <2>1, <2>2 DEF Grows
  <2>4. w[k] = GrowStep(w[k - 1], size)
    BY <1>1, <1>7, <2>2 DEF Grows
  <2>5. w[k] = GrowStep(g, size)
    BY <2>3, <2>4
  <2>6. g.blocks = have /\ g.ranges = ranges
    BY <2>1 DEF GrowStart
  <2>7. PICK off : off = vault_find_free(ranges, size, BlockLen)
    OBVIOUS
  <2>8. GrowStep(g, size) =
           IF off = -1 THEN g
           ELSE [blocks |-> Append(have, off), ranges |-> ranges \cup {range(off, BlockLen)}]
    BY <2>6, <2>7 DEF GrowStep
  <2>9. w[k].blocks = IF off = -1 THEN have ELSE Append(have, off)
    BY <2>5, <2>6, <2>8
  <2>10. QED
    BY <2>7, <2>9
<1>11. Overflow(have, ranges, size, need) \in Seq(Int)
  BY <1>1, <1>6, <1>8 DEF GrownOk
<1>12. QED
  BY <1>1, <1>6, <1>9, <1>10, <1>11 DEF Grown

LEMMA ImageFinite ==
    ASSUME NEW n \in Nat, NEW f, NEW T, T = {f[i] : i \in 1 .. n}
    PROVE  IsFiniteSet(T)
<1> DEFINE g == [i \in 1 .. n |-> f[i]]
<1>1. IsFiniteSet(1 .. n)
  BY FS_Interval
<1>2. g \in Surjection(1 .. n, T)
  BY DEF Surjection
<1> HIDE DEF g
<1>3. QED
  BY <1>1, <1>2, FS_Surjection

LEMMA CollectOk ==
    ASSUME NEW a \in Int, NEW dir, DirOk(dir)
    PROVE  RangesOk(vault_collect_ranges(a, dir))
<1>1. PICK O, E : O = dir.overflow /\ E = dir.entries
  OBVIOUS
<1>2. O \in Seq(Int) /\ E \in Seq(EntrySet) /\ Len(O) \in Nat /\ Len(E) \in Nat
  BY <1>1 DEF DirOk
<1> DEFINE f == [i \in 1 .. Len(O) |-> range(O[i], BlockLen)]
           g == [i \in 1 .. Len(E) |-> Span(E[i])]
           F == {f[i] : i \in 1 .. Len(O)}
           G == {g[i] : i \in 1 .. Len(E)}
           A == {range(a, BlockLen)}
<1>3. vault_collect_ranges(a, dir) = A \cup F \cup G
  BY <1>1 DEF vault_collect_ranges
<1>4. IsFiniteSet(F) /\ IsFiniteSet(G) /\ IsFiniteSet(A)
  <2> HIDE DEF f, g
  <2>1. IsFiniteSet(F)
    BY <1>2, ImageFinite
  <2>2. IsFiniteSet(G)
    BY <1>2, ImageFinite
  <2>3. IsFiniteSet(A)
    BY FS_Singleton
  <2>4. QED
    BY <2>1, <2>2, <2>3
<1>5. \A o \in Int : range(o, BlockLen) \in RangeSet
  BY BlockLenIs DEF range, RangeSet
<1>6. \A i \in 1 .. Len(E) : Span(E[i]) \in RangeSet
  <2> SUFFICES ASSUME NEW i \in 1 .. Len(E) PROVE Span(E[i]) \in RangeSet
    OBVIOUS
  <2>1. E[i] \in EntrySet
    BY <1>2
  <2>2. E[i].off \in Int /\ E[i].cap \in Nat \ {0}
    BY <2>1 DEF EntrySet
  <2>3. vault_slot_len(E[i].cap) \in Nat
    BY <2>2, SlotLen
  <2>4. QED
    BY <2>2, <2>3 DEF Span, range, RangeSet
<1>7. A \subseteq RangeSet /\ F \subseteq RangeSet /\ G \subseteq RangeSet
  BY <1>2, <1>5, <1>6
<1>8. IsFiniteSet(A \cup F \cup G)
  <2> HIDE DEF A, F, G
  <2>1. QED
    BY <1>4, FS_Union
<1>9. QED
  BY <1>3, <1>7, <1>8 DEF RangesOk

LEMMA OccupiedOk ==
    ASSUME NEW img, img = Current, ImageOk(img), NEW p \in Pass,
           vault_anchor_offset(p, img.size) \in Nat, NEW dir, DirOk(dir),
           NEW keep, KeepOk(keep, img.size), KeepsOpen(img, keep)
    PROVE  RangesOk(Occupied(p, dir, keep))
<1>1. keep \in Seq(Pass) /\ Len(keep) \in Nat
  BY DEF KeepOk
<1> DEFINE f == [k \in 1 .. Len(keep) |->
                   vault_collect_ranges(vault_anchor_offset(keep[k], img.size),
                                        vault_open_volume(img, keep[k]))]
           F == {f[k] : k \in 1 .. Len(keep)}
           A == vault_collect_ranges(vault_anchor_offset(p, img.size), dir)
<1>2. Occupied(p, dir, keep) = A \cup UNION F
  BY DEF Occupied
<1>3. RangesOk(A)
  BY CollectOk
<1>4. \A k \in 1 .. Len(keep) : RangesOk(f[k])
  <2> SUFFICES ASSUME NEW k \in 1 .. Len(keep) PROVE RangesOk(f[k])
    OBVIOUS
  <2>1. PICK q, d : q = keep[k] /\ d = vault_open_volume(img, q)
    OBVIOUS
  <2>2. q \in Pass /\ Opened(d) /\ vault_anchor_offset(q, img.size) \in Int
    BY <1>1, <2>1 DEF KeepOk, KeepsOpen
  <2>3. DirOk(d)
    BY <2>1, <2>2 DEF ImageOk, VolumeOk
  <2>4. QED
    BY <2>1, <2>2, <2>3, CollectOk
<1> HIDE DEF f, A
<1>5. IsFiniteSet(F) /\ \A T \in F : RangesOk(T)
  BY <1>1, <1>4, ImageFinite
<1> HIDE DEF F
<1>6. IsFiniteSet(UNION F) /\ UNION F \subseteq RangeSet
  BY <1>5, FS_UNION DEF RangesOk
<1>7. IsFiniteSet(A \cup UNION F)
  BY <1>3, <1>6, FS_Union DEF RangesOk
<1>8. QED
  BY <1>2, <1>3, <1>6, <1>7 DEF RangesOk

(***************************************************************************)
(* vault_volume_add and vault_secret_put.                                  *)
(***************************************************************************)
(* With e: the same entries, and e after them.                             *)
Extended(d, dir, e) ==
    /\ DirOk(d) /\ Names(d) = Names(dir) \cup {e.name}
    /\ Len(d.entries) = Len(dir.entries) + 1
    /\ d.entries[Len(dir.entries) + 1] = e
    /\ vault_dir_find(d, e.name) = Len(dir.entries) + 1
    /\ \A i \in 1 .. Len(dir.entries) : d.entries[i] = dir.entries[i]
    /\ \A m \in Names(dir) : vault_dir_find(d, m) = vault_dir_find(dir, m)

LEMMA ExtendIs ==
    ASSUME NEW dir, DirOk(dir), NEW e \in EntrySet, e.name \notin Names(dir),
           Len(dir.entries) < MaxVolEntries, NEW d,
           d.entries = Append(dir.entries, e), d.overflow \in Seq(Int)
    PROVE  Extended(d, dir, e)
<1>1. PICK E, F, k : E = dir.entries /\ F = d.entries /\ k = Len(dir.entries)
  OBVIOUS
<1>2. /\ E \in Seq(EntrySet) /\ k \in Nat /\ k = Len(E) /\ F = Append(E, e)
      /\ MaxVolEntries \in Int /\ k < MaxVolEntries
      /\ \A i, j \in 1 .. k : E[i].name = E[j].name => i = j
  <2>1. MaxVolEntries \in Int
    BY VaultAssumption DEF MaxVolEntries, InnerData
  <2>2. QED
    BY <1>1, <2>1 DEF DirOk, Distinct
<1>3. /\ F \in Seq(EntrySet) /\ Len(F) = k + 1 /\ F[k + 1] = e
      /\ \A i \in 1 .. k : F[i] = E[i]
  BY <1>2
<1>4. \A i \in 1 .. k : E[i].name # e.name
  BY <1>1 DEF Names
<1>5. \A i, j \in 1 .. k + 1 : F[i].name = F[j].name => i = j
  <2> SUFFICES ASSUME NEW i \in 1 .. k + 1, NEW j \in 1 .. k + 1, F[i].name = F[j].name
               PROVE  i = j
    OBVIOUS
  <2>1. (i \in 1 .. k \/ i = k + 1) /\ (j \in 1 .. k \/ j = k + 1)
    BY <1>2
  <2>2. QED
    BY <1>2, <1>3, <1>4, <2>1
<1>6. DirOk(d)
  <2>1. Distinct(d)
    BY <1>1, <1>3, <1>5 DEF Distinct
  <2>2. Len(F) <= MaxVolEntries
    BY <1>2, <1>3
  <2>3. QED
    BY <1>1, <1>3, <2>1, <2>2 DEF DirOk
<1>7. \A i \in 1 .. k + 1 : i \in 1 .. k \/ i = k + 1
  BY <1>2
<1>8. \A i \in 1 .. k : i \in 1 .. k + 1
  BY <1>2
<1>9. k + 1 \in 1 .. k + 1
  BY <1>2
<1>10. ASSUME NEW m
       PROVE  m \in Names(d) <=> m \in Names(dir) \cup {e.name}
  BY <1>1, <1>3, <1>7, <1>8, <1>9 DEF Names
<1>11. vault_dir_find(d, e.name) = k + 1
  <2>1. PICK i : i = k + 1
    OBVIOUS
  <2>2. i \in 1 .. Len(d.entries) /\ Len(d.entries) \in Nat /\ d.entries[i] = e
    BY <1>1, <1>2, <1>3, <1>9, <2>1
  <2>3. Distinct(d)
    BY <1>6 DEF DirOk
  <2>4. vault_dir_find(d, d.entries[i].name) = i
    BY <2>2, <2>3, FindOwn
  <2>5. QED
    BY <2>1, <2>2, <2>4
<1>12. ASSUME NEW m \in Names(dir) PROVE vault_dir_find(d, m) = vault_dir_find(dir, m)
  <2>1. PICK f : f = vault_dir_find(dir, m)
    OBVIOUS
  <2>2. f \in 1 .. k /\ E[f].name = m
    BY <1>1, <2>1, NamesAre
  <2>3. f \in 1 .. Len(d.entries) /\ d.entries[f].name = m
    BY <1>1, <1>3, <1>8, <2>2
  <2>4. Distinct(d) /\ Len(d.entries) \in Nat
    BY <1>1, <1>2, <1>3, <1>6 DEF DirOk
  <2>5. vault_dir_find(d, d.entries[f].name) = f
    BY <2>3, <2>4, FindOwn
  <2>6. QED
    BY <2>1, <2>3, <2>5
<1>13. QED
  BY <1>1, <1>3, <1>6, <1>10, <1>11, <1>12 DEF Extended

(* A rewrite reads every entry that is not new.                            *)
LEMMA ReadsPlanned ==
    ASSUME NEW img, NEW size, NEW plan, NEW keep \in Seq(Pass),
           vault_rewrite(img, size, <<plan>> \o KeepPlans(img, keep)) # Truncated,
           NEW i \in 1 .. Len(plan.dir.entries), ~ IsNew(plan, i)
    PROVE  DataSlot(img, plan, i).data = Extract(img, plan.read, plan.dir.entries[i])
<1>1. PICK plans : plans = <<plan>> \o KeepPlans(img, keep)
  OBVIOUS
<1>2. PlansFor(plans, img, plan, keep)
  BY <1>1, PlansAre
<1>3. 1 \in 1 .. Len(plans) /\ plans[1] = plan
  BY <1>2 DEF PlansFor
<1>4. ~ PlanRefused(img, size, plan)
  BY <1>1, <1>3 DEF vault_rewrite
<1>5. PICK e : e = plan.dir.entries[i]
  OBVIOUS
<1>6. Sealed(img, plan.read, e.off, e.cap) # {}
  BY <1>4, <1>5 DEF PlanRefused, Readable
<1>7. QED
  BY <1>5, <1>6 DEF DataSlot, Extract

(* The volume an extended plan makes.                                      *)
LEMMA ExtendedVolume ==
    ASSUME NEW img, NEW p, NEW dir, VolumeOk(img, p, dir), NEW e, NEW d, Extended(d, dir, e),
           e.name \notin Names(dir), NEW c \in Content, NEW plan,
           plan.read = p, plan.dir = d, plan.new = c,
           \A i \in 1 .. Len(d.entries) :
              ~ IsNew(plan, i) => DataSlot(img, plan, i).data = Extract(img, p, d.entries[i])
    PROVE  PlanVolume(img, plan) = Store!With(VolumeOf(img, p, dir), e.name, c)
<1>1. PICK V, W, k : V = VolumeOf(img, p, dir) /\ W = PlanVolume(img, plan) /\ k = Len(dir.entries)
  OBVIOUS
<1>2. DirOk(dir) /\ k \in Nat
  BY <1>1 DEF VolumeOk, DirOk
<1>3. DOMAIN V = Names(dir) /\ W = [m \in Names(d) |-> W[m]] /\ Names(d) = Names(dir) \cup {e.name}
  BY <1>1 DEF VolumeOf, PlanVolume, Extended
<1>4. W[e.name] = c
  <2>1. vault_dir_find(d, e.name) = k + 1 /\ Len(d.entries) = k + 1 /\ e.name \in Names(d)
    BY <1>1, <1>3 DEF Extended
  <2>2. IsNew(plan, k + 1)
    BY <2>1, NothingAssumption DEF IsNew
  <2>3. DataSlot(img, plan, k + 1).data = c
    BY <2>2 DEF DataSlot
  <2>4. QED
    BY <1>1, <2>1, <2>3 DEF PlanVolume
<1>5. ASSUME NEW m \in Names(dir) PROVE W[m] = V[m]
  <2>1. PICK i : i = vault_dir_find(dir, m)
    OBVIOUS
  <2>2. i \in 1 .. k /\ vault_dir_find(d, m) = i /\ d.entries[i] = dir.entries[i]
    <3>1. i \in 1 .. k
      BY <1>1, <1>2, <2>1, NamesAre
    <3>2. QED
      BY <1>1, <2>1, <3>1 DEF Extended
  <2>3. i \in 1 .. Len(d.entries) /\ ~ IsNew(plan, i)
    <3>1. Len(d.entries) = k + 1
      BY <1>1 DEF Extended
    <3>2. i \in 1 .. Len(d.entries) /\ i # Len(d.entries)
      BY <1>2, <2>2, <3>1
    <3>3. QED
      BY <3>2 DEF IsNew
  <2>4. W[m] = DataSlot(img, plan, i).data
    BY <1>1, <1>3, <2>2 DEF PlanVolume
  <2>5. V[m] = Extract(img, p, dir.entries[i])
    BY <1>1, <2>1 DEF VolumeOf
  <2>6. QED
    BY <2>2, <2>3, <2>4, <2>5
<1>6. Store!With(V, e.name, c) = [m \in Names(d) |-> IF m = e.name THEN c ELSE V[m]]
  BY <1>3 DEF Store!With
<1>7. QED
  BY <1>1, <1>3, <1>4, <1>5, <1>6

(* The directory an entry is added to, and the slot that is asked for.     *)
LEMMA AddDir ==
    ASSUME NEW img, ImageOk(img), NEW p \in Pass, NEW found, found = vault_open_volume(img, p),
           Opened(found), NEW n \in Name, NEW dir,
           dir = IF vault_dir_find(found, n) # 0 THEN vault_dir_remove(found, n) ELSE found,
           NEW V, V = VolumeOf(img, p, found)
    PROVE  /\ VolumeOk(img, p, dir) /\ n \notin Names(dir)
           /\ "entries" \in DOMAIN dir /\ "overflow" \in DOMAIN dir
           /\ dir.overflow = found.overflow
           /\ \A c : Store!With(VolumeOf(img, p, dir), n, c) = Store!With(V, n, c)
<1>1. VolumeOk(img, p, found) /\ DirOk(found)
  BY DEF ImageOk, VolumeOk
<1>2. /\ found = [found EXCEPT !.entries = found.entries]
      /\ "entries" \in DOMAIN found /\ "overflow" \in DOMAIN found
  BY DirShape
<1>3. CASE vault_dir_find(found, n) # 0
  <2>1. n \in Names(found)
    BY <1>1, <1>3, NotFound
  <2>2. dir = vault_dir_remove(found, n)
    BY <1>3
  <2>3. LacksOnly(dir, found, n)
    BY <1>1, <1>2, <2>1, <2>2, RemoveIs
  <2>4. VolumeOk(img, p, dir) /\ VolumeOf(img, p, dir) = Store!Without(V, n)
    BY <1>1, <2>3, Lacking
  <2>5. DOMAIN dir = DOMAIN found
    BY <2>2 DEF vault_dir_remove
  <2>6. ASSUME NEW c PROVE Store!With(Store!Without(V, n), n, c) = Store!With(V, n, c)
    <3>1. PICK U : U = Store!Without(V, n)
      OBVIOUS
    <3>2. DOMAIN U = DOMAIN V \ {n} /\ \A m \in DOMAIN V \ {n} : U[m] = V[m]
      BY <3>1 DEF Store!Without, Store!Restrict
    <3>3. DOMAIN U \cup {n} = DOMAIN V \cup {n}
      BY <3>2
    <3>4. \A m \in DOMAIN V \cup {n} : (IF m = n THEN c ELSE U[m]) = IF m = n THEN c ELSE V[m]
      BY <3>2
    <3>5. Store!With(U, n, c) = Store!With(V, n, c)
      BY <3>3, <3>4 DEF Store!With
    <3>6. QED
      BY <3>1, <3>5
  <2>7. QED
    BY <1>2, <2>3, <2>4, <2>5, <2>6 DEF LacksOnly
<1>4. CASE vault_dir_find(found, n) = 0
  <2>1. n \notin Names(found) /\ dir = found
    BY <1>1, <1>4, NotFound
  <2>2. QED
    BY <1>1, <1>2, <2>1
<1>5. QED
  BY <1>3, <1>4

AnyPlace == Placements \cup {NoPlacement}

LEMMA PlaceOk ==
    ASSUME NEW c \in Content, NEW place \in AnyPlace
    PROVE  SlotCap(c, place) \in Int /\ place.off \in Int
<1>1. place.off \in Int /\ place.cap \in Int
  BY VaultAssumption DEF AnyPlace, NoPlacement
<1>2. ContentLen[c] \in Nat /\ LenField \in Nat /\ MinCap \in Nat
  BY VaultAssumption
<1>3. QED
  BY <1>1, <1>2 DEF SlotCap

(* What AddEntry makes of a directory.                                     *)
AddsTo(d, dir, n, off, cap, occ, z) ==
    /\ Extended(d, dir, Entry(n, off, cap)) /\ Entry(n, off, cap).name = n
    /\ Grown(d.overflow, dir.overflow, occ \cup {range(off, vault_slot_len(cap))}, z,
             vault_required_blocks(Len(dir.entries) + 1))
    /\ vault_required_blocks(Len(dir.entries) + 1) \in 1 .. MaxBlocks

LEMMA AddEntryIs ==
    ASSUME NEW z \in Nat, z = Current.size, NEW dir, DirOk(dir),
           "entries" \in DOMAIN dir, "overflow" \in DOMAIN dir,
           Len(dir.entries) < MaxVolEntries,
           NEW n \in Name, n \notin Names(dir), NEW off \in Int, NEW cap \in Nat \ {0},
           NEW occ, RangesOk(occ), NEW d, d = AddEntry(dir, n, off, cap, occ)
    PROVE  AddsTo(d, dir, n, off, cap, occ, z)
<1>1. PICK e, E, O, t, need :
         /\ e = Entry(n, off, cap) /\ E = Append(dir.entries, e) /\ O = dir.overflow
         /\ t = occ \cup {range(off, vault_slot_len(cap))}
         /\ need = vault_required_blocks(Len(E))
  OBVIOUS
<1>2. d = [dir EXCEPT !.entries = E, !.overflow = Overflow(O, t, z, need)]
  BY <1>1 DEF AddEntry
<1>3. d.entries = E /\ d.overflow = Overflow(O, t, z, need)
  BY <1>2
<1>4. e \in EntrySet /\ e.name = n
  BY <1>1 DEF Entry, EntrySet
<1>5. dir.entries \in Seq(EntrySet) /\ O \in Seq(Int) /\ Len(dir.entries) \in Nat
  BY <1>1 DEF DirOk
<1>6. Len(E) = Len(dir.entries) + 1 /\ Len(E) \in Nat /\ Len(E) <= MaxVolEntries
  <2>1. MaxVolEntries \in Int
    BY VaultAssumption DEF MaxVolEntries, InnerData
  <2>2. QED
    BY <1>1, <1>4, <1>5, <2>1
<1>7. need \in 1 .. MaxBlocks
  BY <1>1, <1>6, BlocksNeeded
<1>8. RangesOk(t)
  <2>1. range(off, vault_slot_len(cap)) \in RangeSet
    BY SlotLen DEF range, RangeSet
  <2>2. QED
    BY <1>1, <2>1, FS_AddElement DEF RangesOk
<1>9. Grown(d.overflow, O, t, z, need)
  BY <1>3, <1>5, <1>7, <1>8, OverflowIs
<1>10. d.overflow \in Seq(Int)
  BY <1>9 DEF Grown
<1>11. Extended(d, dir, e)
  BY <1>1, <1>3, <1>4, <1>10, ExtendIs
<1>12. QED
  BY <1>1, <1>4, <1>6, <1>7, <1>9, <1>11 DEF AddsTo

AddKind(replace) == IF replace THEN "put" ELSE "add"

LEMMA AddGood ==
    ASSUME Ready, NEW p \in Pass, NEW n \in Name, NEW c \in Content, NEW place \in AnyPlace,
           NEW replace \in BOOLEAN, NEW keep \in KeepLists,
           NEW R, R = AddImage(p, n, c, place, replace, keep), R # Truncated
    PROVE  Good(Op(AddKind(replace), p, p, keep, n, c), R)
<1>1. PICK op, img, z, found, dir, cap, occ :
         /\ op = Op(AddKind(replace), p, p, keep, n, c)
         /\ img = Current /\ z = Current.size /\ found = vault_open_volume(img, p)
         /\ dir = IF vault_dir_find(found, n) # 0 THEN vault_dir_remove(found, n) ELSE found
         /\ cap = SlotCap(c, place) /\ occ = Occupied(p, dir, keep)
  OBVIOUS
<1>2. PICK off :
         off = IF place.off >= 0 THEN place.off
               ELSE vault_find_free(occ, z, vault_slot_len(cap))
  OBVIOUS
<1>3. PICK d, plan : d = AddEntry(dir, n, off, cap, occ)
                     /\ plan = [Plan(p, d) EXCEPT !.new = c]
  OBVIOUS
<1>4. /\ AddKind(replace) \in {"create", "add", "put", "rm", "passwd"}
      /\ AddKind(replace) \in {"add", "put"} /\ (AddKind(replace) = "add" => ~ replace)
  BY DEF AddKind
<1>5. /\ op.kind = AddKind(replace) /\ op.pass = p /\ op.name = n /\ op.content = c
      /\ op.keep = KeepSet(keep) /\ op \in Commands
  BY <1>1, <1>4, OpIs, OpType
<1>6. /\ cap >= MinCap /\ path # 0 /\ Opened(found) /\ KeepsOpen(img, keep)
      /\ vault_dir_find(found, n) # 0 => replace
      /\ off # -1 /\ ~ (Len(dir.entries) >= MaxVolEntries)
      /\ R = vault_mutate(plan, keep)
  <2>1. R = IF \/ cap < MinCap
               \/ path = 0
               \/ ~ Opened(found)
               \/ vault_dir_find(found, n) # 0 /\ ~ replace
               \/ ContentLen[c] > cap - LenField
               \/ ~ KeepsOpen(Current, keep)
               \/ off = -1
               \/ Len(dir.entries) >= MaxVolEntries
            THEN Truncated
            ELSE vault_mutate(plan, keep)
    BY <1>1, <1>2, <1>3, Zenon DEF AddImage
  <2>2. cap \in Int /\ MinCap \in Int
    BY <1>1, PlaceOk, VaultAssumption
  <2>3. QED
    BY <1>1, <2>1, <2>2
<1>7. R = vault_rewrite(img, z, <<plan>> \o KeepPlans(img, keep))
  BY <1>1, <1>6 DEF vault_mutate
<1>8. z \in Sizes /\ z \in Nat /\ ImageOk(img) /\ vols = Volumes(img)
  BY <1>1, <1>6, VaultAssumption DEF Ready
<1>9. PICK V : V = VolumeOf(img, p, found)
  OBVIOUS
<1>10. /\ VolumeOk(img, p, dir) /\ n \notin Names(dir)
       /\ "entries" \in DOMAIN dir /\ "overflow" \in DOMAIN dir
       /\ Store!With(VolumeOf(img, p, dir), n, c) = Store!With(V, n, c)
  BY <1>1, <1>6, <1>8, <1>9, AddDir
<1>11. cap \in Nat \ {0} /\ vault_slot_len(cap) \in Nat \ {0}
  <2>1. cap \in Int /\ MinCap \in Nat /\ LenField \in Nat /\ LenField < MinCap
    BY <1>1, PlaceOk, VaultAssumption
  <2>2. cap \in Nat \ {0}
    BY <1>6, <2>1
  <2>3. QED
    BY <2>2, SlotLen
<1>12. KeepOk(keep, z) /\ keep \in Seq(Pass)
  BY <1>8, KeepListOk DEF KeepOk
<1>13. vault_anchor_offset(p, z) \in Nat
  BY <1>8, VaultAssumption DEF vault_anchor_offset
<1>14. DirOk(dir)
  BY <1>10 DEF VolumeOk
<1>15. RangesOk(occ)
  BY <1>1, <1>6, <1>8, <1>12, <1>13, <1>14, OccupiedOk
<1>16. off \in Int
  <2>1. place.off \in Int
    BY PlaceOk
  <2>2. vault_find_free(occ, z, vault_slot_len(cap)) \in Int
    BY <1>8, <1>11, <1>15, FirstFit DEF FirstFree
  <2>3. QED
    BY <1>2, <2>1, <2>2
<1>17. PICK e : e = Entry(n, off, cap)
  OBVIOUS
<1>18. /\ Extended(d, dir, e) /\ e.name = n
       /\ DirOk(d)
  <2>1. Len(dir.entries) < MaxVolEntries
    <3>1. Len(dir.entries) \in Nat /\ MaxVolEntries \in Int
      BY <1>14, VaultAssumption DEF DirOk, MaxVolEntries, InnerData
    <3>2. QED
      BY <1>6, <3>1
  <2>2. Extended(d, dir, Entry(n, off, cap)) /\ Entry(n, off, cap).name = n
    <3>1. AddsTo(d, dir, n, off, cap, occ, z)
      BY <1>1, <1>3, <1>8, <1>10, <1>11, <1>14, <1>15, <1>16, <2>1, AddEntryIs
    <3>2. QED
      BY <3>1 DEF AddsTo
  <2>3. QED
    BY <1>17, <2>2 DEF Extended
<1>19. plan.pass = p /\ plan.read = p /\ plan.dir = d /\ plan.new = c
  BY <1>3 DEF Plan
<1>20. PlanOk(img, z, plan)
  <2>1. ASSUME NEW i \in 1 .. Len(d.entries)
        PROVE  IsNew(plan, i) \/ Extract(img, p, d.entries[i]) \in Data
    <3>1. PICK k \in Nat : k = Len(dir.entries)
      BY <1>14 DEF DirOk
    <3>2. Len(d.entries) = k + 1
      BY <1>18, <3>1 DEF Extended
    <3>3. CASE i = k + 1
      BY <1>19, <3>2, <3>3, NothingAssumption DEF IsNew
    <3>4. CASE i # k + 1
      <4>1. i \in 1 .. k
        BY <3>1, <3>2, <3>4
      <4>2. d.entries[i] = dir.entries[i] /\ i \in 1 .. Len(dir.entries)
        BY <1>18, <3>1, <4>1 DEF Extended
      <4>3. QED
        BY <1>10, <4>2 DEF VolumeOk
    <3>5. QED
      BY <3>3, <3>4
  <2>2. QED
    BY <1>13, <1>18, <1>19, <2>1 DEF PlanOk, Data
<1>21. /\ Volumes(R) = KeptVolumes(img, KeepSet(keep), plan.pass, PlanVolume(img, plan))
       /\ plan.pass \notin KeepSet(keep)
       /\ \A x \in KeepSet(keep) : x \in Pass /\ Opened(vault_open_volume(img, x))
       /\ ImageOk(R) /\ R.size = z
  BY <1>6, <1>7, <1>8, <1>12, <1>20, KeptBy
<1>22. vols[p] = V
  BY <1>1, <1>6, <1>8, <1>9, VolumesAre
<1>23. PlanVolume(img, plan) = Store!With(vols[p], n, c)
  <2>1. ASSUME NEW i \in 1 .. Len(d.entries), ~ IsNew(plan, i)
        PROVE  DataSlot(img, plan, i).data = Extract(img, p, d.entries[i])
    <3>1. vault_rewrite(img, z, <<plan>> \o KeepPlans(img, keep)) # Truncated
      BY <1>7
    <3>2. i \in 1 .. Len(plan.dir.entries)
      BY <1>19
    <3>3. DataSlot(img, plan, i).data = Extract(img, plan.read, plan.dir.entries[i])
      BY <1>12, <2>1, <3>1, <3>2, ReadsPlanned
    <3>4. QED
      BY <1>19, <3>3
  <2>2. PlanVolume(img, plan) = Store!With(VolumeOf(img, p, dir), e.name, c)
    BY <1>10, <1>18, <1>19, <2>1, ExtendedVolume
  <2>3. QED
    BY <1>10, <1>18, <1>22, <2>2
<1>24. Volumes(R) = Store!Effect(op)
  BY <1>4, <1>5, <1>8, <1>19, <1>21, <1>23 DEF KeptVolumes, Store!Effect, Store!Kept
<1>25. (\A x \in KeepSet(keep) : vols[x] # NoVolume) /\ vols[p] # NoVolume
  BY <1>1, <1>6, <1>8, <1>21, VolumeNotNone
<1>26. ~ replace => n \notin DOMAIN vols[p]
  <2>1. DOMAIN V = Names(found)
    BY <1>9 DEF VolumeOf
  <2>2. DirOk(found)
    BY <1>1, <1>6, <1>8 DEF ImageOk, VolumeOk
  <2>3. ~ replace => n \notin Names(found)
    BY <1>6, <2>2, NotFound
  <2>4. QED
    BY <1>22, <2>1, <2>3
<1>27. Store!Allowed(op)
  BY <1>4, <1>5, <1>19, <1>21, <1>25, <1>26 DEF Store!Allowed
<1>28. QED
  BY <1>1, <1>5, <1>8, <1>21, <1>24, <1>27 DEF Good

(***************************************************************************)
(* The files.                                                              *)
(***************************************************************************)
(* With one process there are three files.                                 *)
LEMMA ThreeFiles ==
    ASSUME NEW w, Writer = {w}
    PROVE  Inode = 1 .. 3
<1>1. Cardinality(Writer) = 1
  BY FS_Singleton
<1>2. QED
  BY <1>1 DEF Inode

(* What a process holds on each step of vault_atomic_write.                *)
Pcs == {"idle", "planned", "opened", "written", "refused", "unlinked", "created"}

ThenOk(t) ==
    t = NoOp \/ \E p \in Pass, n \in Name, c \in Content : t = Op("put", p, p, <<>>, n, c)

ProcOk(s) ==
    /\ s = [pc |-> s.pc, op |-> s.op, img |-> s.img, fd |-> s.fd, then |-> s.then]
    /\ s.pc \in Pcs
    /\ ThenOk(s.then) /\ (s.pc = "created" => s.then # NoOp)
    /\ s.pc \in {"idle", "created"} => s.op = NoOp
    /\ s.pc \notin {"idle", "created"} => Good(s.op, s.img)
    /\ s.fd = IF s.pc = "opened" THEN tmp ELSE 0
    /\ s.pc = "opened" => tmp # 0
    /\ s.pc \in {"written", "refused", "unlinked"} => tmp # 0 /\ file[tmp] = s.img
    /\ s.pc \in {"refused", "unlinked"} => faulty
    /\ s.pc = "unlinked" => path = 0
    /\ s.pc # "unlinked" => vols = Volumes(Current)

FilesOk ==
    /\ path \in Inode \cup {0} /\ tmp \in Inode \cup {0}
    /\ file = [i \in Inode |-> file[i]]
    /\ path # 0 => path # tmp /\ file[path].size \in Sizes
    /\ \A i \in Inode : file[i].size \in Sizes \cup {0}
    /\ ImageOk(Current)

Counted ==
    /\ proc = [w \in Writer |-> proc[w]]
    /\ rc \in [Writer -> {"none", "ok", "error", "crashed"}]
    /\ faulty \in BOOLEAN
    /\ ops \in 0 .. MaxOps /\ faults \in 0 .. MaxFaults

VaultInv == FilesOk /\ Counted /\ \A w \in Writer : ProcOk(proc[w])

LEMMA GoodStays ==
    ASSUME NEW op, NEW img, Good(op, img), vols' = vols
    PROVE  Good(op, img)'
  BY DEF Good, Store!Allowed, Store!Effect, Store!Kept

LEMMA InitOk == Init => VaultInv
<1> SUFFICES ASSUME Init PROVE VaultInv
  OBVIOUS
<1>1. Truncated.size = 0 /\ Current = Truncated
  BY DEF Truncated, Current, Init
<1>2. FilesOk
  BY <1>1, TruncatedOk DEF Init, FilesOk
<1>3. Counted
  <2>1. MaxOps \in Nat /\ MaxFaults \in Nat
    BY VaultAssumption
  <2>2. PICK i : i = Idle
    OBVIOUS
  <2>3. proc = [w \in Writer |-> i] /\ rc = [w \in Writer |-> "none"]
    BY <2>2 DEF Init
  <2>4. proc = [w \in Writer |-> proc[w]]
    BY <2>3
  <2>5. rc \in [Writer -> {"none", "ok", "error", "crashed"}]
    BY <2>3
  <2>6. faulty \in BOOLEAN /\ ops = 0 /\ faults = 0
    BY DEF Init
  <2>7. ops \in 0 .. MaxOps /\ faults \in 0 .. MaxFaults
    BY <2>1, <2>6
  <2>8. QED
    BY <2>4, <2>5, <2>6, <2>7 DEF Counted
<1>4. ASSUME NEW w \in Writer PROVE ProcOk(proc[w])
  <2>1. proc[w] = Idle
    BY DEF Init
  <2>2. PICK t : t = Truncated
    OBVIOUS
  <2>3. proc[w] = [pc |-> "idle", op |-> NoOp, img |-> t, fd |-> 0, then |-> NoOp]
    BY <2>1, <2>2 DEF Idle
  <2>4. vols = Volumes(Current)
    BY <1>1 DEF Init
  <2>5. QED
    BY <2>3, <2>4 DEF ProcOk, Pcs, ThenOk
<1>5. QED
  BY <1>2, <1>3, <1>4 DEF VaultInv

(* A command that is not refused.                                          *)
LEMMA LaunchOk ==
    ASSUME NEW w, Writer = {w}, VaultInv, proc[w].pc \in {"idle", "created"},
           NEW op, NEW img, NEW then, ThenOk(then), Good(op, img),
           Launch(w, op, img, then), ops' \in 0 .. MaxOps
    PROVE  VaultInv' /\ Store!Begin(w)
<1>1. w \in Writer /\ ProcOk(proc[w]) /\ FilesOk /\ Counted
  BY DEF VaultInv
<1>2. PICK r : r = [Idle EXCEPT !.pc = "planned", !.op = op, !.img = img, !.then = then]
  OBVIOUS
<1>3. /\ proc' = [proc EXCEPT ![w] = [pc |-> "planned", op |-> op, img |-> img, fd |-> 0,
                                      then |-> then]]
      /\ UNCHANGED <<path, tmp, file, rc, faulty, vols, faults>>
  <2>1. PICK t : t = Truncated
    OBVIOUS
  <2>2. Idle = [pc |-> "idle", op |-> NoOp, img |-> t, fd |-> 0, then |-> NoOp]
    BY <2>1 DEF Idle
  <2>3. r = [pc |-> "planned", op |-> op, img |-> img, fd |-> 0, then |-> then]
    BY <1>2, <2>2
  <2>4. QED
    BY <1>2, <2>3 DEF Launch
<1>4. proc'[w] = [pc |-> "planned", op |-> op, img |-> img, fd |-> 0, then |-> then]
  BY <1>1, <1>3 DEF Counted
<1>5. vols = Volumes(Current) /\ Current' = Current
  BY <1>1, <1>3 DEF ProcOk, Current
<1>6. FilesOk'
  BY <1>1, <1>3, <1>5 DEF FilesOk
<1>7. Counted'
  BY <1>1, <1>3 DEF Counted
<1>8. Good(op, img)'
  BY <1>3, GoodStays
<1>9. ThenOk(then)'
  BY DEF ThenOk
<1>10. ProcOk(proc[w])'
  BY <1>3, <1>4, <1>5, <1>8, <1>9 DEF ProcOk, Pcs
<1>11. VaultInv'
  BY <1>6, <1>7, <1>10 DEF VaultInv
<1>12. op \in Store!Op
  BY DEF Good, Commands, Store!Op
<1>13. /\ [x \in Writer |-> proc[x].op][w] = NoOp
       /\ [x \in Writer |-> proc'[x].op][w] = op
       /\ [x \in Writer |-> proc'[x].op] = [[x \in Writer |-> proc[x].op] EXCEPT ![w] = op]
  BY <1>1, <1>4 DEF ProcOk
<1>14. QED
  BY <1>3, <1>11, <1>12, <1>13 DEF Store!Begin

(* A process that has returned.                                            *)
Rest(pc, i, t) == [pc |-> pc, op |-> NoOp, img |-> i, fd |-> 0, then |-> t]

Rested(s) ==
    \E i, t : ThenOk(t) /\ (s = Rest("idle", i, t) \/ (t # NoOp /\ s = Rest("created", i, t)))

Running == [w \in Writer |-> proc[w].op]

LEMMA EndOk ==
    ASSUME NEW w, Writer = {w}, VaultInv, NEW s, Rested(s), proc' = [proc EXCEPT ![w] = s],
           NEW r \in {"ok", "error", "crashed"}, rc' = [rc EXCEPT ![w] = r],
           FilesOk', faulty' = faulty, ops' \in 0 .. MaxOps, faults' \in 0 .. MaxFaults,
           vols' = Volumes(Current)'
    PROVE  VaultInv' /\ Running' = [Running EXCEPT ![w] = NoOp]
<1>1. w \in Writer /\ Counted
  BY DEF VaultInv
<1>2. PICK pc, i, t :
         /\ pc \in {"idle", "created"}
         /\ s = Rest(pc, i, t)
         /\ ThenOk(t) /\ (pc = "created" => t # NoOp)
  BY DEF Rested
<1>3. proc'[w] = [pc |-> pc, op |-> NoOp, img |-> i, fd |-> 0, then |-> t]
  BY <1>1, <1>2 DEF Counted, Rest
<1>4. ThenOk(t)'
  BY <1>2 DEF ThenOk
<1>5. ProcOk(proc[w])'
  BY <1>2, <1>3, <1>4 DEF ProcOk, Pcs
<1>6. Counted'
  BY <1>1 DEF Counted
<1>7. VaultInv'
  BY <1>5, <1>6 DEF VaultInv
<1>8. Running' = [Running EXCEPT ![w] = NoOp]
  BY <1>1, <1>3 DEF Running
<1>9. QED
  BY <1>7, <1>8

LEMMA IdleRested == Rested(Idle)
<1>1. PICK t : t = Truncated
  OBVIOUS
<1>2. Idle = Rest("idle", t, NoOp)
  BY <1>1 DEF Idle, Rest
<1>3. ThenOk(NoOp)
  BY DEF ThenOk
<1>4. QED
  BY <1>2, <1>3 DEF Rested

LEMMA ReturnIs ==
    ASSUME NEW w, Writer = {w}, VaultInv, NEW r, Return(w, r)
    PROVE  \E s : Rested(s) /\ proc' = [proc EXCEPT ![w] = s] /\ rc' = [rc EXCEPT ![w] = r]
<1>1. ProcOk(proc[w]) /\ proc = [x \in Writer |-> proc[x]] /\ w \in Writer
  BY DEF VaultInv, Counted
<1>2. PICK t : t = proc[w].then
  OBVIOUS
<1>3. PICK s : s = IF r = "ok" /\ t # NoOp THEN [Idle EXCEPT !.pc = "created", !.then = t]
                   ELSE Idle
  OBVIOUS
<1>4. proc' = [proc EXCEPT ![w] = s] /\ rc' = [rc EXCEPT ![w] = r]
  BY <1>1, <1>2, <1>3 DEF Return
<1>5. ThenOk(t)
  BY <1>1, <1>2 DEF ProcOk
<1>6. Rested(s)
  <2>1. PICK i : i = Truncated
    OBVIOUS
  <2>2. Idle = [pc |-> "idle", op |-> NoOp, img |-> i, fd |-> 0, then |-> NoOp]
    BY <2>1 DEF Idle
  <2>3. CASE r = "ok" /\ t # NoOp
    <3>1. s = [pc |-> "created", op |-> NoOp, img |-> i, fd |-> 0, then |-> t]
      BY <1>3, <2>2, <2>3
    <3>2. s = Rest("created", i, t)
      BY <3>1 DEF Rest
    <3>3. QED
      BY <1>5, <2>3, <3>2 DEF Rested
  <2>4. CASE ~ (r = "ok" /\ t # NoOp)
    BY <1>3, <2>4, IdleRested
  <2>5. QED
    BY <2>3, <2>4
<1>7. QED
  BY <1>4, <1>6

(* A command that fails where it changes no file.                          *)
LEMMA FailOk ==
    ASSUME NEW w, Writer = {w}, VaultInv, NEW s, Rested(s), proc' = [proc EXCEPT ![w] = s],
           NEW r \in {"error", "crashed"}, rc' = [rc EXCEPT ![w] = r],
           UNCHANGED <<path, tmp, file, faulty>>, proc[w].pc # "unlinked",
           vols' \in {vols, Volumes(Current)},
           ops' \in 0 .. MaxOps, faults' \in 0 .. MaxFaults
    PROVE  VaultInv' /\ Store!Fail(w)
<1>1. w \in Writer /\ ProcOk(proc[w]) /\ FilesOk
  BY DEF VaultInv
<1>2. vols = Volumes(Current) /\ Current' = Current
  BY <1>1 DEF ProcOk, Current
<1>3. FilesOk'
  BY <1>1, <1>2 DEF FilesOk
<1>4. vols' = vols /\ vols' = Volumes(Current)'
  BY <1>2
<1>5. VaultInv' /\ Running' = [Running EXCEPT ![w] = NoOp]
  BY <1>3, <1>4, EndOk
<1>6. QED
  BY <1>4, <1>5 DEF Store!Fail, Running

(* The commands.                                                           *)
LEMMA ReadyIs ==
    ASSUME NEW w, Writer = {w}, VaultInv, proc[w].pc # "unlinked"
    PROVE  Ready
<1>1. ProcOk(proc[w]) /\ FilesOk
  BY DEF VaultInv
<1>2. vols = Volumes(Current) /\ ImageOk(Current)
  BY <1>1 DEF ProcOk, FilesOk
<1>3. path # 0 => Current.size \in Sizes
  BY <1>1 DEF FilesOk, Current
<1>4. QED
  BY <1>2, <1>3 DEF Ready

LEMMA NoKeepOk == <<>> \in KeepLists
<1>1. 0 \in 0 .. MaxKeep
  BY VaultAssumption
<1>2. <<>> \in [1 .. 0 -> Pass]
  OBVIOUS
<1>3. QED
  BY <1>1, <1>2 DEF KeepLists

LEMMA AddsGood ==
    ASSUME Ready, NEW p \in Pass, NEW n \in Name, NEW c \in Content, NEW place \in AnyPlace,
           NEW keep \in KeepLists, NEW R, R # Truncated
    PROVE  /\ R = AddImage(p, n, c, place, FALSE, keep) => Good(Op("add", p, p, keep, n, c), R)
           /\ R = AddImage(p, n, c, place, TRUE, keep) => Good(Op("put", p, p, keep, n, c), R)
<1>1. ASSUME NEW replace \in BOOLEAN, R = AddImage(p, n, c, place, replace, keep)
      PROVE  Good(Op(AddKind(replace), p, p, keep, n, c), R)
  BY <1>1, AddGood
<1>2. AddKind(FALSE) = "add" /\ AddKind(TRUE) = "put"
  BY DEF AddKind
<1>3. QED
  BY <1>1, <1>2, Zenon

LEMMA CommandOk ==
    ASSUME NEW w, Writer = {w}, VaultInv,
           Create(w) \/ Add(w) \/ SecretPut(w) \/ Rm(w) \/ Passwd(w)
    PROVE  VaultInv' /\ Store!Begin(w)
<1>1. Command(w)
  BY DEF Create, Add, SecretPut, Rm, Passwd
<1>2. proc[w].pc = "idle" /\ ops' \in 0 .. MaxOps
  <2>1. ops \in 0 .. MaxOps /\ MaxOps \in Nat
    BY VaultAssumption DEF VaultInv, Counted
  <2>2. QED
    BY <1>1, <2>1 DEF Command
<1>3. Ready
  BY <1>2, ReadyIs
<1>4. ThenOk(NoOp)
  BY DEF ThenOk
<1>5. ASSUME NEW op, NEW img, NEW then, ThenOk(then), Good(op, img), Launch(w, op, img, then)
      PROVE  VaultInv' /\ Store!Begin(w)
  BY <1>2, <1>5, LaunchOk
<1>6. CASE Create(w)
  <2>1. PICK p \in Pass, size \in Sizes \cup {0}, force \in BOOLEAN, keep \in KeepLists :
           Launch(w, Op("create", p, p, keep, NoName, NoContent),
                  CreateImage(p, size, force, keep), NoOp)
    BY <1>6 DEF Create
  <2>2. PICK img : img = CreateImage(p, size, force, keep)
    OBVIOUS
  <2>3. img # Truncated
    BY <2>1, <2>2 DEF Launch
  <2>4. Good(Op("create", p, p, keep, NoName, NoContent), img)
    BY <1>3, <2>2, <2>3, CreateGood
  <2>5. QED
    BY <1>4, <1>5, <2>1, <2>2, <2>4
<1>7. CASE Add(w)
  <2>1. PICK p \in Pass, n \in Name, c \in Content, place \in Placements, keep \in KeepLists :
           Launch(w, Op("add", p, p, keep, n, c), AddImage(p, n, c, place, FALSE, keep), NoOp)
    BY <1>7 DEF Add
  <2>2. PICK img : img = AddImage(p, n, c, place, FALSE, keep)
    OBVIOUS
  <2>3. img # Truncated /\ place \in AnyPlace
    BY <2>1, <2>2 DEF Launch, AnyPlace
  <2>4. Good(Op("add", p, p, keep, n, c), img)
    BY <1>3, <2>2, <2>3, AddsGood
  <2>5. QED
    BY <1>4, <1>5, <2>1, <2>2, <2>4
<1>8. CASE SecretPut(w)
  <2>1. PICK p \in Pass, n \in Name, c \in Content :
           IF path = 0
           THEN \E size \in Sizes :
                  Launch(w, Op("create", p, p, <<>>, NoName, NoContent),
                         CreateImage(p, size, FALSE, <<>>), Op("put", p, p, <<>>, n, c))
           ELSE Launch(w, Op("put", p, p, <<>>, n, c),
                       AddImage(p, n, c, NoPlacement, TRUE, <<>>), NoOp)
    BY <1>8 DEF SecretPut
  <2>2. PICK put : put = Op("put", p, p, <<>>, n, c)
    OBVIOUS
  <2>3. ThenOk(put)
    BY <2>2 DEF ThenOk
  <2>4. CASE path = 0
    <3>1. PICK size \in Sizes :
             Launch(w, Op("create", p, p, <<>>, NoName, NoContent),
                    CreateImage(p, size, FALSE, <<>>), put)
      BY <2>1, <2>2, <2>4
    <3>2. PICK img, op : img = CreateImage(p, size, FALSE, <<>>)
                         /\ op = Op("create", p, p, <<>>, NoName, NoContent)
      OBVIOUS
    <3>3. img # Truncated
      BY <3>1, <3>2 DEF Launch
    <3>4. ASSUME NEW force \in BOOLEAN, img = CreateImage(p, size, force, <<>>)
          PROVE  Good(Op("create", p, p, <<>>, NoName, NoContent), img)
      <4>1. PICK keep : keep = <<>>
        OBVIOUS
      <4>2. Good(Op("create", p, p, keep, NoName, NoContent), img)
        BY <1>3, <3>3, <3>4, <4>1, NoKeepOk, CreateGood
      <4>3. QED
        BY <4>1, <4>2
    <3>5. Good(op, img)
      BY <3>2, <3>4, Zenon
    <3>6. QED
      BY <1>5, <2>3, <3>1, <3>2, <3>5
  <2>5. CASE path # 0
    <3>1. PICK img : img = AddImage(p, n, c, NoPlacement, TRUE, <<>>)
      OBVIOUS
    <3>2. Launch(w, put, img, NoOp)
      BY <2>1, <2>2, <2>5, <3>1
    <3>3. img # Truncated /\ NoPlacement \in AnyPlace
      BY <3>2 DEF Launch, AnyPlace
    <3>4. Good(put, img)
      <4>1. PICK keep, place : keep = <<>> /\ place = NoPlacement
        OBVIOUS
      <4>2. keep \in KeepLists /\ place \in AnyPlace
        BY <3>3, <4>1, NoKeepOk
      <4>3. img = AddImage(p, n, c, place, TRUE, keep)
        BY <3>1, <4>1
      <4>4. Good(Op("put", p, p, keep, n, c), img)
        BY <1>3, <3>3, <4>2, <4>3, AddsGood
      <4>5. QED
        BY <2>2, <4>1, <4>4
    <3>5. QED
      BY <1>4, <1>5, <3>2, <3>4
  <2>6. QED
    BY <2>4, <2>5
<1>9. CASE Rm(w)
  <2>1. PICK p \in Pass, n \in Name, keep \in KeepLists :
           Launch(w, Op("rm", p, p, keep, n, NoContent), RmImage(p, n, keep), NoOp)
    BY <1>9 DEF Rm
  <2>2. PICK img : img = RmImage(p, n, keep)
    OBVIOUS
  <2>3. img # Truncated
    BY <2>1, <2>2 DEF Launch
  <2>4. Good(Op("rm", p, p, keep, n, NoContent), img)
    BY <1>3, <2>2, <2>3, RmGood
  <2>5. QED
    BY <1>4, <1>5, <2>1, <2>2, <2>4
<1>10. CASE Passwd(w)
  <2>1. PICK p \in Pass, to \in Pass, keep \in KeepLists :
           Launch(w, Op("passwd", p, to, keep, NoName, NoContent), PasswdImage(p, to, keep), NoOp)
    BY <1>10 DEF Passwd
  <2>2. PICK img : img = PasswdImage(p, to, keep)
    OBVIOUS
  <2>3. img # Truncated
    BY <2>1, <2>2 DEF Launch
  <2>4. Good(Op("passwd", p, to, keep, NoName, NoContent), img)
    BY <1>3, <2>2, <2>3, PasswdGood
  <2>5. QED
    BY <1>4, <1>5, <2>1, <2>2, <2>4
<1>11. QED
  BY <1>6, <1>7, <1>8, <1>9, <1>10

LEMMA RefusedOk ==
    ASSUME NEW w, Writer = {w}, VaultInv, proc[w].pc # "unlinked", Refuse(w), ops' \in 0 .. MaxOps
    PROVE  VaultInv' /\ Store!Fail(w)
<1>1. PICK s : s = Idle
  OBVIOUS
<1>2. faults \in 0 .. MaxFaults
  BY DEF VaultInv, Counted
<1>3. /\ proc' = [proc EXCEPT ![w] = s] /\ rc' = [rc EXCEPT ![w] = "error"]
      /\ UNCHANGED <<path, tmp, file, faulty>> /\ vols' = vols /\ faults' \in 0 .. MaxFaults
  BY <1>1, <1>2 DEF Refuse
<1>4. QED
  BY <1>1, <1>3, IdleRested, FailOk

LEMMA PutAfterCreateOk ==
    ASSUME NEW w, Writer = {w}, VaultInv, PutAfterCreate(w)
    PROVE  VaultInv' /\ (Store!Begin(w) \/ Store!Fail(w))
<1>1. PICK put, img :
         /\ put = proc[w].then
         /\ img = AddImage(put.pass, put.name, put.content, NoPlacement, TRUE, <<>>)
  OBVIOUS
<1>2. /\ proc[w].pc = "created" /\ UNCHANGED ops
      /\ Launch(w, put, img, NoOp) \/ (img = Truncated /\ Refuse(w))
  BY <1>1 DEF PutAfterCreate
<1>3. Ready /\ ops' \in 0 .. MaxOps
  BY <1>2, ReadyIs DEF VaultInv, Counted
<1>4. put # NoOp /\ ThenOk(put)
  BY <1>1, <1>2 DEF VaultInv, ProcOk
<1>5. PICK p \in Pass, n \in Name, c \in Content : put = Op("put", p, p, <<>>, n, c)
  BY <1>4 DEF ThenOk
<1>6. put.pass = p /\ put.name = n /\ put.content = c
  BY <1>5, OpIs
<1>7. img = AddImage(p, n, c, NoPlacement, TRUE, <<>>)
  BY <1>1, <1>6
<1>8. CASE Launch(w, put, img, NoOp)
  <2>1. img # Truncated /\ NoPlacement \in AnyPlace
    BY <1>8 DEF Launch, AnyPlace
  <2>2. Good(put, img)
    <3>1. PICK keep, place : keep = <<>> /\ place = NoPlacement
      OBVIOUS
    <3>2. keep \in KeepLists /\ place \in AnyPlace
      BY <2>1, <3>1, NoKeepOk
    <3>3. img = AddImage(p, n, c, place, TRUE, keep)
      BY <1>7, <3>1
    <3>4. Good(Op("put", p, p, keep, n, c), img)
      BY <1>3, <2>1, <3>2, <3>3, AddsGood
    <3>5. QED
      BY <1>5, <3>1, <3>4
  <2>3. ThenOk(NoOp)
    BY DEF ThenOk
  <2>4. QED
    BY <1>2, <1>3, <1>8, <2>2, <2>3, LaunchOk
<1>9. CASE Refuse(w)
  BY <1>2, <1>3, <1>9, RefusedOk
<1>10. QED
  BY <1>2, <1>8, <1>9

(* The steps of vault_atomic_write that go on.                             *)
LEMMA OpenTmpOk ==
    ASSUME NEW w, Writer = {w}, VaultInv, OpenTmp(w)
    PROVE  VaultInv' /\ UNCHANGED <<vols, Running, rc, faulty>>
<1>1. w \in Writer /\ ProcOk(proc[w]) /\ FilesOk /\ Counted
  BY DEF VaultInv
<1>2. PICK i : i = IF tmp # 0 THEN tmp ELSE CHOOSE k \in Unused : \A j \in Unused : k <= j
  OBVIOUS
<1>3. /\ proc[w].pc = "planned" /\ tmp' = i /\ file' = [file EXCEPT ![i] = Truncated]
      /\ proc' = [proc EXCEPT ![w].pc = "opened", ![w].fd = i]
      /\ UNCHANGED <<path, rc, faulty, vols, ops, faults>>
  BY <1>2 DEF OpenTmp, At
<1>4. i \in Inode /\ i # path /\ i # 0
  <2>1. Inode = 1 .. 3
    BY ThreeFiles
  <2>2. CASE tmp # 0
    BY <1>1, <1>2, <2>1, <2>2 DEF FilesOk
  <2>3. CASE tmp = 0
    <3>1. proc[w].fd = 0
      BY <1>1, <1>3 DEF ProcOk
    <3>2. Unused = (1 .. 3) \ {path, 0}
      BY <2>1, <2>3, <3>1 DEF Unused
    <3>3. \E k \in Unused : \A j \in Unused : k <= j
      <4>1. 1 \in Unused \/ 2 \in Unused
        BY <3>2
      <4>2. Unused \subseteq Nat
        BY <3>2
      <4>3. QED
        BY <4>1, <4>2, LeastOf
    <3>4. i \in Unused
      BY <1>2, <2>3, <3>3
    <3>5. QED
      BY <2>1, <3>2, <3>4
  <2>4. QED
    BY <2>2, <2>3
<1>5. PICK t, s, k, o, m, f, h :
         /\ t = Truncated /\ s = proc[w]
         /\ k = s.pc /\ o = s.op /\ m = s.img /\ f = s.fd /\ h = s.then
  OBVIOUS
<1>6. proc'[w] = [pc |-> "opened", op |-> o, img |-> m, fd |-> i, then |-> h]
  <2>1. s = [pc |-> k, op |-> o, img |-> m, fd |-> f, then |-> h]
    BY <1>1, <1>5 DEF ProcOk
  <2>2. proc'[w] = [s EXCEPT !.pc = "opened", !.fd = i]
    BY <1>1, <1>3, <1>5 DEF Counted
  <2>3. QED
    BY <2>1, <2>2
<1>7. Current' = Current
  BY <1>1, <1>3, <1>4 DEF Current, FilesOk
<1>8. FilesOk'
  <2>1. t.size = 0 /\ file' = [file EXCEPT ![i] = t]
    BY <1>3, <1>5 DEF Truncated
  <2>2. path # 0 => path # i /\ file'[path] = file[path]
    BY <1>1, <1>4, <2>1 DEF FilesOk
  <2>3. \A j \in Inode : file'[j].size \in Sizes \cup {0}
    BY <1>1, <1>4, <2>1 DEF FilesOk
  <2>4. file' = [j \in Inode |-> file'[j]]
    BY <1>1, <2>1 DEF FilesOk
  <2>5. QED
    BY <1>1, <1>3, <1>4, <1>7, <2>2, <2>3, <2>4 DEF FilesOk
<1>9. Counted'
  BY <1>1, <1>3 DEF Counted
<1>10. Good(o, m) /\ ThenOk(h)
  BY <1>1, <1>3, <1>5 DEF ProcOk
<1>11. Good(o, m)' /\ ThenOk(h)'
  BY <1>3, <1>10, GoodStays DEF ThenOk
<1>12. vols' = Volumes(Current)'
  BY <1>1, <1>3, <1>7 DEF ProcOk
<1>13. ProcOk(proc[w])'
  <2>1. /\ proc'[w].pc = "opened" /\ proc'[w].op = o /\ proc'[w].img = m
        /\ proc'[w].fd = i /\ proc'[w].then = h
        /\ proc'[w] = [pc |-> proc'[w].pc, op |-> proc'[w].op, img |-> proc'[w].img,
                       fd |-> proc'[w].fd, then |-> proc'[w].then]
    BY <1>6
  <2>2. QED
    BY <1>3, <1>4, <1>6, <1>11, <1>12, <2>1 DEF ProcOk, Pcs
<1>14. VaultInv'
  BY <1>8, <1>9, <1>13 DEF VaultInv
<1>15. Running' = Running
  BY <1>1, <1>3, <1>5, <1>6 DEF Running
<1>16. QED
  BY <1>3, <1>14, <1>15

LEMMA WriteTmpOk ==
    ASSUME NEW w, Writer = {w}, VaultInv, WriteTmp(w)
    PROVE  VaultInv' /\ UNCHANGED <<vols, Running, rc, faulty>>
<1>1. w \in Writer /\ ProcOk(proc[w]) /\ FilesOk /\ Counted
  BY DEF VaultInv
<1>2. PICK s, k, o, m, f, h :
         /\ s = proc[w] /\ k = s.pc /\ o = s.op /\ m = s.img /\ f = s.fd /\ h = s.then
  OBVIOUS
<1>3. /\ s.pc = "opened" /\ s.fd = tmp /\ tmp # 0
      /\ Good(o, m) /\ ThenOk(h) /\ vols = Volumes(Current)
      /\ s = [pc |-> k, op |-> o, img |-> m, fd |-> f, then |-> h]
  BY <1>1, <1>2 DEF WriteTmp, At, ProcOk
<1>4. /\ file' = [file EXCEPT ![tmp] = m]
      /\ proc' = [proc EXCEPT ![w].pc = "written", ![w].fd = 0]
      /\ UNCHANGED <<path, tmp, rc, faulty, vols, ops, faults>>
  BY <1>2, <1>3 DEF WriteTmp
<1>5. proc'[w] = [pc |-> "written", op |-> o, img |-> m, fd |-> 0, then |-> h]
  <2>1. proc'[w] = [s EXCEPT !.pc = "written", !.fd = 0]
    BY <1>1, <1>2, <1>4 DEF Counted
  <2>2. QED
    BY <1>3, <2>1
<1>6. tmp \in Inode /\ (path # 0 => path # tmp) /\ m.size \in Sizes
  BY <1>1, <1>3 DEF FilesOk, Good
<1>7. Current' = Current
  BY <1>1, <1>4, <1>6 DEF Current, FilesOk
<1>8. FilesOk'
  <2>1. path # 0 => file'[path] = file[path]
    BY <1>1, <1>4, <1>6 DEF FilesOk
  <2>2. \A j \in Inode : file'[j].size \in Sizes \cup {0}
    BY <1>1, <1>4, <1>6 DEF FilesOk
  <2>3. file' = [j \in Inode |-> file'[j]]
    BY <1>1, <1>4 DEF FilesOk
  <2>4. QED
    BY <1>1, <1>4, <1>7, <2>1, <2>2, <2>3 DEF FilesOk
<1>9. Counted'
  BY <1>1, <1>4 DEF Counted
<1>10. Good(o, m)' /\ ThenOk(h)'
  BY <1>3, <1>4, GoodStays DEF ThenOk
<1>11. vols' = Volumes(Current)' /\ file'[tmp] = m
  BY <1>1, <1>3, <1>4, <1>6, <1>7 DEF FilesOk
<1>12. ProcOk(proc[w])'
  <2>1. /\ proc'[w].pc = "written" /\ proc'[w].op = o /\ proc'[w].img = m
        /\ proc'[w].fd = 0 /\ proc'[w].then = h
        /\ proc'[w] = [pc |-> proc'[w].pc, op |-> proc'[w].op, img |-> proc'[w].img,
                       fd |-> proc'[w].fd, then |-> proc'[w].then]
    BY <1>5
  <2>2. QED
    BY <1>3, <1>4, <1>5, <1>10, <1>11, <2>1 DEF ProcOk, Pcs
<1>13. VaultInv'
  BY <1>8, <1>9, <1>12 DEF VaultInv
<1>14. Running' = Running
  BY <1>1, <1>2, <1>4, <1>5 DEF Running
<1>15. QED
  BY <1>4, <1>13, <1>14

LEMMA RenameFailsOk ==
    ASSUME NEW w, Writer = {w}, VaultInv, RenameFails(w)
    PROVE  VaultInv' /\ UNCHANGED <<vols, Running, rc>> /\ faulty' = TRUE
<1>1. w \in Writer /\ ProcOk(proc[w]) /\ FilesOk /\ Counted
  BY DEF VaultInv
<1>2. PICK s, k, o, m, f, h :
         /\ s = proc[w] /\ k = s.pc /\ o = s.op /\ m = s.img /\ f = s.fd /\ h = s.then
  OBVIOUS
<1>3. /\ s.pc = "written" /\ s.fd = 0 /\ tmp # 0 /\ file[tmp] = m
      /\ Good(o, m) /\ ThenOk(h) /\ vols = Volumes(Current)
      /\ s = [pc |-> k, op |-> o, img |-> m, fd |-> f, then |-> h]
  BY <1>1, <1>2 DEF RenameFails, At, ProcOk
<1>4. /\ proc' = [proc EXCEPT ![w].pc = "refused"]
      /\ UNCHANGED <<path, tmp, file, rc, vols, ops>>
      /\ faulty' = TRUE /\ faults < MaxFaults /\ faults' = faults + 1
  BY <1>3 DEF RenameFails, Fault
<1>5. proc'[w] = [pc |-> "refused", op |-> o, img |-> m, fd |-> 0, then |-> h]
  <2>1. proc'[w] = [s EXCEPT !.pc = "refused"]
    BY <1>1, <1>2, <1>4 DEF Counted
  <2>2. QED
    BY <1>3, <2>1
<1>6. Current' = Current
  BY <1>4 DEF Current
<1>7. FilesOk'
  BY <1>1, <1>4, <1>6 DEF FilesOk
<1>8. Counted'
  <2>1. faults' \in 0 .. MaxFaults
    BY <1>1, <1>4, VaultAssumption DEF Counted
  <2>2. QED
    BY <1>1, <1>4, <2>1 DEF Counted
<1>9. Good(o, m)' /\ ThenOk(h)'
  BY <1>3, <1>4, GoodStays DEF ThenOk
<1>10. ProcOk(proc[w])'
  BY <1>3, <1>4, <1>5, <1>6, <1>9 DEF ProcOk, Pcs
<1>11. VaultInv'
  BY <1>7, <1>8, <1>10 DEF VaultInv
<1>12. Running' = Running
  BY <1>1, <1>2, <1>4, <1>5 DEF Running
<1>13. QED
  BY <1>4, <1>11, <1>12

LEMMA RemoveOldOk ==
    ASSUME NEW w, Writer = {w}, VaultInv, RemoveOld(w)
    PROVE  VaultInv' /\ UNCHANGED <<vols, Running, rc, faulty>>
<1>1. w \in Writer /\ ProcOk(proc[w]) /\ FilesOk /\ Counted
  BY DEF VaultInv
<1>2. PICK t, s, k, o, m, f, h :
         /\ t = Truncated /\ s = proc[w]
         /\ k = s.pc /\ o = s.op /\ m = s.img /\ f = s.fd /\ h = s.then
  OBVIOUS
<1>3. /\ s.pc = "refused" /\ s.fd = 0 /\ tmp # 0 /\ file[tmp] = m /\ faulty
      /\ Good(o, m) /\ ThenOk(h)
      /\ s = [pc |-> k, op |-> o, img |-> m, fd |-> f, then |-> h]
  BY <1>1, <1>2 DEF RemoveOld, At, ProcOk
<1>4. /\ path # 0 /\ path' = 0 /\ file' = [file EXCEPT ![path] = t]
      /\ proc' = [proc EXCEPT ![w].pc = "unlinked"]
      /\ UNCHANGED <<tmp, rc, faulty, vols, ops, faults>>
  BY <1>2 DEF RemoveOld, Unlink
<1>5. proc'[w] = [pc |-> "unlinked", op |-> o, img |-> m, fd |-> 0, then |-> h]
  <2>1. proc'[w] = [s EXCEPT !.pc = "unlinked"]
    BY <1>1, <1>2, <1>4 DEF Counted
  <2>2. QED
    BY <1>3, <2>1
<1>6. Current' = t /\ t.size = 0 /\ ImageOk(t)
  BY <1>2, <1>4, TruncatedOk DEF Current, Truncated
<1>7. FilesOk'
  <2>1. \A j \in Inode : file'[j].size \in Sizes \cup {0}
    BY <1>1, <1>4, <1>6 DEF FilesOk
  <2>2. file' = [j \in Inode |-> file'[j]]
    BY <1>1, <1>4 DEF FilesOk
  <2>3. QED
    BY <1>1, <1>4, <1>6, <2>1, <2>2 DEF FilesOk
<1>8. Counted'
  BY <1>1, <1>4 DEF Counted
<1>9. Good(o, m)' /\ ThenOk(h)'
  BY <1>3, <1>4, GoodStays DEF ThenOk
<1>10. file'[tmp] = m
  BY <1>1, <1>3, <1>4 DEF FilesOk
<1>11. ProcOk(proc[w])'
  BY <1>3, <1>4, <1>5, <1>9, <1>10 DEF ProcOk, Pcs
<1>12. VaultInv'
  BY <1>7, <1>8, <1>11 DEF VaultInv
<1>13. Running' = Running
  BY <1>1, <1>2, <1>4, <1>5 DEF Running
<1>14. QED
  BY <1>4, <1>12, <1>13

(* The steps that end it.                                                  *)
LEMMA RemoveTmpOk ==
    ASSUME FilesOk, RemoveTmp, path' = path
    PROVE  FilesOk' /\ Current' = Current
<1>1. PICK t, k : t = Truncated /\ k = tmp
  OBVIOUS
<1>2. tmp' = 0 /\ file' = (IF k = 0 THEN file ELSE [file EXCEPT ![k] = t]) /\ t.size = 0
  BY <1>1 DEF RemoveTmp, Unlink, Truncated
<1>3. /\ k \in Inode \cup {0} /\ (path # 0 => path # k) /\ path \in Inode \cup {0}
      /\ file = [i \in Inode |-> file[i]] /\ (\A i \in Inode : file[i].size \in Sizes \cup {0})
  BY <1>1 DEF FilesOk
<1>4. path # 0 => file'[path] = file[path]
  BY <1>2, <1>3
<1>5. file' = [i \in Inode |-> file'[i]]
  BY <1>2, <1>3
<1>6. \A i \in Inode : file'[i].size \in Sizes \cup {0}
  BY <1>2, <1>3
<1>7. Current' = Current
  BY <1>4 DEF Current
<1>8. QED
  BY <1>2, <1>4, <1>5, <1>6, <1>7 DEF FilesOk

LEMMA FaultCounted ==
    ASSUME Counted, Fault \/ UNCHANGED faults
    PROVE  faults' \in 0 .. MaxFaults
  BY VaultAssumption DEF Counted, Fault

LEMMA FailsOk ==
    ASSUME NEW w, Writer = {w}, VaultInv, OpenFails(w) \/ WriteFails(w) \/ RemoveOldFails(w)
    PROVE  VaultInv' /\ Store!Fail(w)
<1>1. w \in Writer /\ ProcOk(proc[w]) /\ FilesOk /\ Counted
  BY DEF VaultInv
<1>2. /\ proc[w].pc \in {"planned", "opened", "refused"} /\ Return(w, "error")
      /\ RemoveTmp \/ UNCHANGED <<tmp, file>>
      /\ Fault \/ UNCHANGED faults
      /\ UNCHANGED <<path, faulty, vols, ops>>
  BY DEF OpenFails, WriteFails, RemoveOldFails, At
<1>3. PICK s : Rested(s) /\ proc' = [proc EXCEPT ![w] = s] /\ rc' = [rc EXCEPT ![w] = "error"]
  BY <1>2, ReturnIs
<1>4. faults' \in 0 .. MaxFaults /\ ops' \in 0 .. MaxOps
  BY <1>1, <1>2, FaultCounted DEF Counted
<1>5. vols = Volumes(Current)
  BY <1>1, <1>2 DEF ProcOk
<1>6. CASE RemoveTmp
  <2>1. FilesOk' /\ Current' = Current
    BY <1>1, <1>2, <1>6, RemoveTmpOk
  <2>2. vols' = Volumes(Current)'
    BY <1>2, <1>5, <2>1
  <2>3. VaultInv' /\ Running' = [Running EXCEPT ![w] = NoOp]
    BY <1>2, <1>3, <1>4, <2>1, <2>2, EndOk
  <2>4. QED
    BY <1>2, <1>3, <2>3 DEF Store!Fail, Running
<1>7. CASE UNCHANGED <<tmp, file>>
  BY <1>2, <1>3, <1>4, <1>7, FailOk
<1>8. QED
  BY <1>2, <1>6, <1>7

LEMMA ReplaceOk ==
    ASSUME NEW w, Writer = {w}, VaultInv, proc[w].pc \in {"written", "unlinked"}, Replace(w)
    PROVE  VaultInv' /\ Store!Complete(w)
<1>1. w \in Writer /\ ProcOk(proc[w]) /\ FilesOk /\ Counted
  BY DEF VaultInv
<1>2. PICK t, o, m, a, b :
         /\ t = Truncated /\ o = proc[w].op /\ m = proc[w].img /\ a = path /\ b = tmp
  OBVIOUS
<1>3. b # 0 /\ file[b] = m /\ Good(o, m)
  BY <1>1, <1>2 DEF ProcOk
<1>4. /\ path' = b /\ tmp' = 0 /\ file' = (IF a = 0 THEN file ELSE [file EXCEPT ![a] = t])
      /\ vols' = Volumes(m) /\ Return(w, "ok") /\ UNCHANGED <<faulty, ops, faults>>
  BY <1>2, <1>3 DEF Replace, Unlink
<1>5. /\ b \in Inode /\ a \in Inode \cup {0} /\ (a # 0 => a # b) /\ t.size = 0
      /\ file = [i \in Inode |-> file[i]] /\ (\A i \in Inode : file[i].size \in Sizes \cup {0})
  BY <1>1, <1>2, <1>3 DEF FilesOk, Truncated
<1>6. file'[b] = m
  BY <1>3, <1>4, <1>5
<1>7. Current' = m
  BY <1>3, <1>4, <1>6 DEF Current
<1>8. /\ file' = [i \in Inode |-> file'[i]]
      /\ \A i \in Inode : file'[i].size \in Sizes \cup {0}
  BY <1>4, <1>5
<1>9. /\ m.size \in Sizes /\ ImageOk(m) /\ o \in Commands /\ o # NoOp
      /\ Store!Allowed(o) /\ Volumes(m) = Store!Effect(o)
  BY <1>3, NothingAssumption DEF Good
<1>10. FilesOk'
  BY <1>3, <1>4, <1>5, <1>6, <1>7, <1>8, <1>9 DEF FilesOk
<1>11. PICK s : Rested(s) /\ proc' = [proc EXCEPT ![w] = s] /\ rc' = [rc EXCEPT ![w] = "ok"]
  BY <1>4, ReturnIs
<1>12. vols' = Volumes(Current)'
  BY <1>4, <1>7
<1>13. VaultInv' /\ Running' = [Running EXCEPT ![w] = NoOp]
  BY <1>1, <1>4, <1>10, <1>11, <1>12, EndOk DEF Counted
<1>14. [x \in Writer |-> proc[x].op][w] = o
  BY <1>1, <1>2
<1>15. QED
  BY <1>4, <1>9, <1>11, <1>13, <1>14 DEF Store!Complete, Running

LEMMA RenameAgainFailsOk ==
    ASSUME NEW w, Writer = {w}, VaultInv, RenameAgainFails(w)
    PROVE  VaultInv' /\ Store!Lose(w)
<1>1. w \in Writer /\ ProcOk(proc[w]) /\ FilesOk /\ Counted
  BY DEF VaultInv
<1>2. /\ proc[w].pc = "unlinked" /\ Return(w, "error") /\ RemoveTmp
      /\ Fault \/ UNCHANGED faults
      /\ vols' = Volumes(Truncated) /\ UNCHANGED <<path, faulty, ops>>
  BY DEF RenameAgainFails, At
<1>3. PICK s : Rested(s) /\ proc' = [proc EXCEPT ![w] = s] /\ rc' = [rc EXCEPT ![w] = "error"]
  BY <1>2, ReturnIs
<1>4. faults' \in 0 .. MaxFaults /\ ops' \in 0 .. MaxOps
  BY <1>1, <1>2, FaultCounted DEF Counted
<1>5. FilesOk'
  BY <1>1, <1>2, RemoveTmpOk
<1>6. path = 0 /\ faulty
  BY <1>1, <1>2 DEF ProcOk
<1>7. vols' = Volumes(Current)'
  BY <1>2, <1>6 DEF Current
<1>8. VaultInv' /\ Running' = [Running EXCEPT ![w] = NoOp]
  BY <1>2, <1>3, <1>4, <1>5, <1>7, EndOk
<1>9. QED
  BY <1>2, <1>3, <1>6, <1>8, TruncatedOk DEF Store!Lose, Running

LEMMA CrashOk ==
    ASSUME NEW w, Writer = {w}, VaultInv, Crash(w)
    PROVE  VaultInv' /\ (Store!Fail(w) \/ Store!Lose(w))
<1>1. w \in Writer /\ ProcOk(proc[w]) /\ FilesOk /\ Counted
  BY DEF VaultInv
<1>2. PICK s : s = Idle
  OBVIOUS
<1>3. /\ Fault /\ proc' = [proc EXCEPT ![w] = s] /\ rc' = [rc EXCEPT ![w] = "crashed"]
      /\ vols' = Volumes(Current) /\ UNCHANGED <<path, tmp, file, faulty, ops>>
  BY <1>2 DEF Crash
<1>4. Rested(s) /\ faults' \in 0 .. MaxFaults /\ ops' \in 0 .. MaxOps
  BY <1>1, <1>2, <1>3, IdleRested, FaultCounted DEF Counted
<1>5. CASE proc[w].pc # "unlinked"
  BY <1>3, <1>4, <1>5, FailOk
<1>6. CASE proc[w].pc = "unlinked"
  <2>1. path = 0 /\ faulty
    BY <1>1, <1>6 DEF ProcOk
  <2>2. Current = Truncated /\ Current' = Truncated
    BY <1>3, <2>1 DEF Current
  <2>3. FilesOk'
    BY <1>1, <1>3, <2>2 DEF FilesOk
  <2>4. vols' = Volumes(Current)'
    BY <1>3, <2>2
  <2>5. VaultInv' /\ Running' = [Running EXCEPT ![w] = NoOp]
    BY <1>3, <1>4, <2>3, <2>4, EndOk
  <2>6. QED
    BY <1>3, <2>1, <2>2, <2>5, TruncatedOk DEF Store!Lose, Running
<1>7. QED
  BY <1>5, <1>6

(***************************************************************************)
(* The vault.                                                              *)
(***************************************************************************)
LEMMA StepOk ==
    ASSUME OneWriter, VaultInv, [Next]_vars
    PROVE  VaultInv' /\ [Store!Next]_(Store!svars)
<1>1. PICK w : Writer = {w}
  BY DEF OneWriter
<1>2. w \in Writer /\ ProcOk(proc[w]) /\ FilesOk /\ Counted
  BY <1>1 DEF VaultInv
<1>3. ASSUME VaultInv', UNCHANGED <<vols, Running, rc, faulty>>
      PROVE  VaultInv' /\ [Store!Next]_(Store!svars)
  BY <1>3 DEF Store!svars, Running
<1>4. ASSUME VaultInv', Store!Begin(w) \/ Store!Complete(w) \/ Store!Fail(w) \/ Store!Lose(w)
      PROVE  VaultInv' /\ [Store!Next]_(Store!svars)
  BY <1>2, <1>4 DEF Store!Next
<1>5. CASE UNCHANGED vars
  <2>1. UNCHANGED <<path, tmp, file, proc, rc, faulty, vols, ops, faults>>
    BY <1>5 DEF vars
  <2>2. Current' = Current
    BY <2>1 DEF Current
  <2>3. FilesOk'
    BY <1>2, <2>1, <2>2 DEF FilesOk
  <2>4. Counted'
    BY <1>2, <2>1 DEF Counted
  <2>5. PICK s : s = proc[w]
    OBVIOUS
  <2>6. PICK k, o, m, f, h : k = s.pc /\ o = s.op /\ m = s.img /\ f = s.fd /\ h = s.then
    OBVIOUS
  <2>7. k \notin {"idle", "created"} => Good(o, m)'
    BY <1>2, <2>1, <2>5, <2>6, GoodStays DEF ProcOk
  <2>8. ThenOk(h)'
    BY <1>2, <2>5, <2>6 DEF ProcOk, ThenOk
  <2>9. ProcOk(s)'
    BY <1>2, <2>1, <2>2, <2>5, <2>6, <2>7, <2>8 DEF ProcOk
  <2>10. proc'[w] = s
    BY <2>1, <2>5
  <2>11. ProcOk(proc[w])'
    BY <2>9, <2>10 DEF ProcOk
  <2>12. VaultInv'
    BY <1>1, <2>3, <2>4, <2>11 DEF VaultInv
  <2>13. Running' = Running
    BY <2>1 DEF Running
  <2>14. QED
    BY <1>3, <2>1, <2>12, <2>13
<1>6. CASE Create(w) \/ Add(w) \/ SecretPut(w) \/ Rm(w) \/ Passwd(w)
  BY <1>1, <1>4, <1>6, CommandOk
<1>7. CASE PutAfterCreate(w)
  BY <1>1, <1>4, <1>7, PutAfterCreateOk
<1>8. CASE Refused(w)
  <2>1. proc[w].pc = "idle" /\ ops' \in 0 .. MaxOps /\ Refuse(w)
    <3>1. ops \in 0 .. MaxOps /\ MaxOps \in Nat
      BY <1>2, VaultAssumption DEF Counted
    <3>2. QED
      BY <1>8, <3>1 DEF Refused, Command
  <2>2. QED
    BY <1>1, <1>4, <2>1, RefusedOk
<1>9. CASE OpenTmp(w)
  BY <1>1, <1>3, <1>9, OpenTmpOk
<1>10. CASE WriteTmp(w)
  BY <1>1, <1>3, <1>10, WriteTmpOk
<1>11. CASE OpenFails(w) \/ WriteFails(w) \/ RemoveOldFails(w)
  BY <1>1, <1>4, <1>11, FailsOk
<1>12. CASE Rename(w) \/ RenameAgain(w)
  <2>1. proc[w].pc \in {"written", "unlinked"} /\ Replace(w)
    BY <1>12 DEF Rename, RenameAgain, At
  <2>2. QED
    BY <1>1, <1>4, <2>1, ReplaceOk
<1>13. CASE RenameFails(w)
  <2>1. VaultInv' /\ UNCHANGED <<vols, Running, rc>> /\ faulty' = TRUE
    BY <1>1, <1>13, RenameFailsOk
  <2>2. Store!RenameRefused
    BY <2>1 DEF Store!RenameRefused, Running
  <2>3. QED
    BY <2>1, <2>2 DEF Store!Next
<1>14. CASE RemoveOld(w)
  BY <1>1, <1>3, <1>14, RemoveOldOk
<1>15. CASE RenameAgainFails(w)
  BY <1>1, <1>4, <1>15, RenameAgainFailsOk
<1>16. CASE Crash(w)
  BY <1>1, <1>4, <1>16, CrashOk
<1>17. CASE Next
  <2>1. \/ Create(w) \/ Add(w) \/ SecretPut(w) \/ PutAfterCreate(w) \/ Rm(w) \/ Passwd(w)
        \/ Refused(w)
        \/ OpenTmp(w) \/ OpenFails(w) \/ WriteTmp(w) \/ WriteFails(w)
        \/ Rename(w) \/ RenameFails(w) \/ RemoveOld(w) \/ RemoveOldFails(w)
        \/ RenameAgain(w) \/ RenameAgainFails(w) \/ Crash(w)
    BY <1>1, <1>17 DEF Next
  <2>2. QED
    BY <1>6, <1>7, <1>8, <1>9, <1>10, <1>11, <1>12, <1>13, <1>14, <1>15, <1>16, <2>1
<1>18. QED
  BY <1>5, <1>17

(* With one process at a time every state satisfies the invariant: between *)
(* any two system calls of vault_atomic_write the files hold what the      *)
(* process counter says, and the image a process carries keeps every       *)
(* volume that its command keeps.                                          *)
THEOREM VaultInductive == OneWriter => (Spec => []VaultInv)
<1> SUFFICES ASSUME OneWriter PROVE Spec => []VaultInv
  OBVIOUS
<1>1. Init => VaultInv
  BY InitOk
<1>2. VaultInv /\ [Next]_vars => VaultInv'
  BY StepOk
<1>3. QED
  BY <1>1, <1>2, PTL DEF Spec

(* With one process at a time the container's path never names a file that *)
(* is only partly written: every command reaches the path with a rename of *)
(* the finished temporary file, and what the passphrases open is what the  *)
(* last command that succeeded made (vault_atomic_write).                  *)
THEOREM VaultTypeCorrect == OneWriter => (Spec => []TypeOK)
<1> SUFFICES ASSUME OneWriter PROVE Spec => []TypeOK
  OBVIOUS
<1>1. VaultInv => TypeOK
  <2> SUFFICES ASSUME VaultInv PROVE TypeOK
    OBVIOUS
  <2>1. PICK w : Writer = {w}
    BY DEF OneWriter
  <2>2. FilesOk /\ Counted /\ ProcOk(proc[w]) /\ w \in Writer
    BY <2>1 DEF VaultInv
  <2>3. (\A x \in Writer : ~ At(x, "unlinked")) => vols = Volumes(Current)
    BY <2>2 DEF ProcOk, At
  <2>4. QED
    BY <2>2, <2>3 DEF FilesOk, Counted, TypeOK
<1>2. QED
  BY <1>1, VaultInductive, PTL

(* The vault implements VolumeStore: whatever system call fails and        *)
(* wherever the process dies, a command has taken effect as a whole or not *)
(* at all, on exactly the volumes it names and keeps; everything is lost   *)
(* only after the file system has refused a rename (vault_volume_create,   *)
(* vault_volume_add, vault_volume_rm, vault_volume_passwd,                 *)
(* vault_secret_put, vault_atomic_write).                                  *)
THEOREM VaultImplementsStore == OneWriter => (Spec => AllOrNothing)
<1> SUFFICES ASSUME OneWriter PROVE Spec => AllOrNothing
  OBVIOUS
<1>1. Init => Store!Init
  <2> SUFFICES ASSUME Init PROVE Store!Init
    OBVIOUS
  <2>1. \A w \in Writer : proc[w].op = NoOp
    BY DEF Init, Idle
  <2>2. QED
    BY <2>1, TruncatedOk DEF Init, Store!Init
<1>2. VaultInv /\ [Next]_vars => [Store!Next]_(Store!svars)
  BY StepOk
<1>3. QED
  BY <1>1, <1>2, VaultInductive, PTL DEF Spec, AllOrNothing, Store!Spec

(***************************************************************************)
(* First-fit finds the room there is.                                      *)
(***************************************************************************)
LEMMA LowestIs ==
    ASSUME NEW img, img.size \in Nat, NEW passes, NEW len, NEW taken,
           NEW x, x = Lowest(img, passes, len, taken)
    PROVE  /\ x \in 0 .. img.size
           /\ x = img.size \/ Free(img, passes, x, len, taken)
           /\ \A y \in 0 .. x - 1 : ~ Free(img, passes, y, len, taken)
<1> DEFINE S == {y \in 0 .. img.size : y = img.size \/ Free(img, passes, y, len, taken)}
<1>1. S \subseteq Nat /\ img.size \in S
  OBVIOUS
<1>2. PICK z \in S : \A y \in S : z <= y
  BY <1>1, LeastOf
<1>3. \A y \in 0 .. z - 1 : ~ Free(img, passes, y, len, taken)
  <2> SUFFICES ASSUME NEW y \in 0 .. z - 1, Free(img, passes, y, len, taken) PROVE FALSE
    OBVIOUS
  <2>1. z \in 0 .. img.size
    BY <1>2
  <2>2. y \in 0 .. img.size /\ ~ (z <= y)
    BY <2>1
  <2>3. QED
    BY <1>2, <2>2
<1>4. z \in 0 .. img.size /\ (z = img.size \/ Free(img, passes, z, len, taken))
  BY <1>2
<1>5. QED
  BY <1>3, <1>4 DEF Lowest

(* The scan of the ranges finds the lowest place, and it is free.          *)
Found(img, passes, r, len, taken, x) ==
    /\ vault_find_free(r, img.size, len) = x /\ x \in Nat
    /\ Free(img, passes, x, len, taken)

LEMMA FoundLowest ==
    ASSUME NEW img, img.size \in Nat, NEW passes, NEW len \in Nat \ {0}, NEW taken,
           NEW r, RangesOk(r),
           \A y \in Nat : Free(img, passes, y, len, taken)
                             <=> y + len <= img.size /\ FreeAt(r, y, len),
           NEW x, x = Lowest(img, passes, len, taken), x < img.size
    PROVE  Found(img, passes, r, len, taken, x)
<1>1. PICK f : f = vault_find_free(r, img.size, len)
  OBVIOUS
<1>2. FirstFree(f, r, img.size, len)
  BY <1>1, FirstFit
<1>3. x \in 0 .. img.size /\ \A y \in 0 .. x - 1 : ~ Free(img, passes, y, len, taken)
  BY LowestIs
<1>4. x \in Nat /\ Free(img, passes, x, len, taken)
  <2>1. x = img.size \/ Free(img, passes, x, len, taken)
    BY LowestIs
  <2>2. QED
    BY <1>3, <2>1
<1>5. x + len <= img.size /\ FreeAt(r, x, len)
  BY <1>4
<1>6. f # -1 /\ f \in Nat
  <2>1. f # -1
    <3>1. SUFFICES ASSUME f = -1 PROVE FALSE
      OBVIOUS
    <3>2. x + len > img.size
      BY <1>2, <1>4, <1>5, <3>1 DEF FirstFree
    <3>3. QED
      BY <1>4, <1>5, <3>2
  <2>2. QED
    BY <1>2, <2>1 DEF FirstFree
<1>7. FreeAt(r, f, len) /\ \A y \in Nat : y < f => ~ FreeAt(r, y, len)
  BY <1>2, <1>6 DEF FirstFree
<1>8. ~ (x < f)
  BY <1>4, <1>5, <1>7
<1>9. ~ (f < x)
  <2>1. SUFFICES ASSUME f < x PROVE FALSE
    OBVIOUS
  <2>2. f + len <= img.size /\ f \in 0 .. x - 1
    BY <1>4, <1>5, <1>6, <2>1
  <2>3. Free(img, passes, f, len, taken)
    BY <1>6, <1>7, <2>2
  <2>4. QED
    BY <1>3, <2>2, <2>3
<1>10. f = x
  BY <1>4, <1>6, <1>8, <1>9
<1>11. QED
  BY <1>1, <1>4, <1>10 DEF Found

(* The slots of some volumes, and their places.                            *)
SlotsUnder(img, passes) == {s \in img.slots : s.pass \in passes}

SpansUnder(img, passes) == {Span(s) : s \in SlotsUnder(img, passes)}

LEMMA FreeOfSpans ==
    ASSUME NEW img, NEW passes, NEW y, NEW len, NEW taken
    PROVE  /\ Free(img, passes, y, len, taken)
                <=> y + len <= img.size
                    /\ FreeAt(SpansUnder(img, passes) \cup {taken}, y, len)
           /\ FreeAt(SpansUnder(img, passes), y, len)
                /\ ~ Meet(range(y, len), taken)
                <=> FreeAt(SpansUnder(img, passes) \cup {taken}, y, len)
<1>1. \A t : Meet(range(y, len), t) <=> y < t.end /\ t.start < y + len
  BY DEF Meet, range
<1>2. FreeAt(SpansUnder(img, passes), y, len)
      <=> \A s \in img.slots : s.pass \in passes => ~ Meet(range(y, len), Span(s))
  BY <1>1 DEF FreeAt, SpansUnder, SlotsUnder
<1>3. FreeAt(SpansUnder(img, passes) \cup {taken}, y, len)
      <=> FreeAt(SpansUnder(img, passes), y, len) /\ ~ Meet(range(y, len), taken)
  BY <1>1 DEF FreeAt
<1>4. QED
  BY <1>2, <1>3 DEF Free

(* The slot of the new entry.                                              *)
LEMMA FirstRoom ==
    ASSUME NEW img, img.size \in Nat, NEW passes, NEW len \in Nat \ {0},
           RangesOk(SpansUnder(img, passes)),
           NEW x, x = Lowest(img, passes, len, range(0, 0)), x < img.size
    PROVE  Found(img, passes, SpansUnder(img, passes), len, range(0, 0), x)
<1>1. PICK r : r = SpansUnder(img, passes)
  OBVIOUS
<1>2. ASSUME NEW y \in Nat
      PROVE  Free(img, passes, y, len, range(0, 0))
                <=> y + len <= img.size /\ FreeAt(r, y, len)
  <2>1. ~ Meet(range(y, len), range(0, 0))
    BY DEF Meet, range
  <2>2. QED
    BY <1>1, <2>1, FreeOfSpans
<1>3. Found(img, passes, r, len, range(0, 0), x)
  BY <1>1, <1>2, FoundLowest
<1>4. QED
  BY <1>1, <1>3

(* The overflow block, if there is to be one more.                         *)
LEMMA NextRoom ==
    ASSUME NEW img, img.size \in Nat, NEW passes, NEW off \in Nat, NEW need \in Nat,
           RangesOk(SpansUnder(img, passes)),
           NEW x, x = Lowest(img, passes, BlockLen, range(off, need)), x < img.size
    PROVE  Found(img, passes, SpansUnder(img, passes) \cup {range(off, need)}, BlockLen,
                 range(off, need), x)
<1>1. PICK r, t : t = range(off, need) /\ r = SpansUnder(img, passes) \cup {t}
  OBVIOUS
<1>2. RangesOk(r)
  <2>1. t \in RangeSet
    BY <1>1 DEF range, RangeSet
  <2>2. IsFiniteSet(r)
    BY <1>1, FS_AddElement DEF RangesOk
  <2>3. QED
    BY <1>1, <2>1, <2>2 DEF RangesOk
<1>3. \A y \in Nat : Free(img, passes, y, BlockLen, t)
                        <=> y + BlockLen <= img.size /\ FreeAt(r, y, BlockLen)
  BY <1>1, FreeOfSpans
<1>4. BlockLen \in Nat \ {0}
  BY BlockLenIs
<1>5. Found(img, passes, r, BlockLen, t, x)
  BY <1>1, <1>2, <1>3, <1>4, FoundLowest
<1>6. QED
  BY <1>1, <1>5

(* Where the slots of a plan are.                                          *)
LEMMA SpotIs ==
    ASSUME NEW img, NEW size, NEW plan, NEW i \in Int, NEW s, s = SlotOf(img, size, plan, i)
    PROVE  /\ i > 0 => Span(s) = Span(plan.dir.entries[i])
           /\ i = 0 => Span(s) = range(vault_anchor_offset(plan.pass, size), BlockLen)
           /\ i < 0 => Span(s) = range(plan.dir.overflow[- i], BlockLen)
<1>1. CASE i > 0
  BY <1>1 DEF SlotOf, DataSlot, Span
<1>2. CASE ~ (i > 0)
  <2>1. PICK b : b = - i
    OBVIOUS
  <2>2. s = BlockSlot(size, plan, b, Blocks(plan)) /\ (b = 0 <=> i = 0)
    BY <1>2, <2>1 DEF SlotOf
  <2>3. s.cap = AnchorCap
    BY <2>2 DEF BlockSlot
  <2>4. b = 0 => s.off = vault_anchor_offset(plan.pass, size)
    BY <2>2 DEF BlockSlot
  <2>5. b # 0 => s.off = plan.dir.overflow[b]
    BY <2>2 DEF BlockSlot
  <2>6. Span(s) = range(s.off, BlockLen)
    BY <2>3 DEF Span, BlockLen
  <2>7. i = 0 => Span(s) = range(vault_anchor_offset(plan.pass, size), BlockLen)
    BY <2>2, <2>4, <2>6
  <2>8. i < 0 => Span(s) = range(plan.dir.overflow[- i], BlockLen)
    BY <2>1, <2>2, <2>5, <2>6
  <2>9. QED
    BY <1>2, <2>7, <2>8
<1>3. QED
  BY <1>1, <1>2

(* The places a volume takes, by the passphrase that opens it.             *)
LEMMA VolumeRanges ==
    ASSUME NEW img, NEW p, NEW dir, DirOk(dir), Sealable(img, p, dir)
    PROVE  vault_collect_ranges(vault_anchor_offset(p, img.size), dir)
              = SpansUnder(img, {p})
<1>1. PICK plan, a, C : plan = Plan(p, dir) /\ a = vault_anchor_offset(p, img.size)
                        /\ C = vault_collect_ranges(a, dir)
  OBVIOUS
<1>2. plan.pass = p /\ plan.dir = dir
  BY <1>1 DEF Plan
<1>3. Len(dir.entries) \in Nat /\ Len(dir.overflow) \in Nat
  BY DEF DirOk
<1>4. Spots(plan) = - Len(dir.overflow) .. Len(dir.entries)
  <2>1. Blocks(plan) = Len(dir.overflow) + 1
    BY <1>1 DEF Sealable
  <2>2. 1 - (Len(dir.overflow) + 1) = - Len(dir.overflow)
    BY <1>3
  <2>3. QED
    BY <1>2, <2>1, <2>2 DEF Spots
<1>5. C = {range(a, BlockLen)}
            \cup {range(dir.overflow[i], BlockLen) : i \in 1 .. Len(dir.overflow)}
            \cup {Span(dir.entries[i]) : i \in 1 .. Len(dir.entries)}
  BY <1>1 DEF vault_collect_ranges
<1>6. ASSUME NEW i \in Spots(plan)
      PROVE  /\ Span(SlotOf(img, img.size, plan, i)) \in C
             /\ Span(SlotOf(img, img.size, plan, i)) \in SpansUnder(img, {p})
  <2>1. PICK s : s = SlotOf(img, img.size, plan, i)
    OBVIOUS
  <2>2. i \in Int
    BY <1>3, <1>4
  <2>3. s \in img.slots /\ s.pass = p
    BY <1>1, <1>2, <2>1, SlotPass DEF Sealable
  <2>4. CASE i > 0
    <3>1. Span(s) = Span(dir.entries[i]) /\ i \in 1 .. Len(dir.entries)
      BY <1>2, <1>3, <1>4, <2>1, <2>2, <2>4, SpotIs
    <3>2. QED
      BY <1>5, <2>1, <2>3, <3>1 DEF SpansUnder, SlotsUnder
  <2>5. CASE i = 0
    <3>1. Span(s) = range(a, BlockLen)
      BY <1>1, <1>2, <2>1, <2>2, <2>5, SpotIs
    <3>2. QED
      BY <1>5, <2>1, <2>3, <3>1 DEF SpansUnder, SlotsUnder
  <2>6. CASE i < 0
    <3>1. Span(s) = range(dir.overflow[- i], BlockLen)
      BY <1>2, <2>1, <2>2, <2>6, SpotIs
    <3>2. - i \in 1 .. Len(dir.overflow)
      BY <1>3, <1>4, <2>2, <2>6
    <3>3. QED
      BY <1>5, <2>1, <2>3, <3>1, <3>2 DEF SpansUnder, SlotsUnder
  <2>7. QED
    BY <2>2, <2>4, <2>5, <2>6
<1>7. ASSUME NEW t \in C PROVE \E i \in Spots(plan) : t = Span(SlotOf(img, img.size, plan, i))
  <2>1. CASE t = range(a, BlockLen)
    <3>1. 0 \in Spots(plan)
      BY <1>3, <1>4
    <3>2. Span(SlotOf(img, img.size, plan, 0)) = range(a, BlockLen)
      BY <1>1, <1>2, SpotIs
    <3>3. QED
      BY <2>1, <3>1, <3>2
  <2>2. CASE \E b \in 1 .. Len(dir.overflow) : t = range(dir.overflow[b], BlockLen)
    <3>1. PICK b \in 1 .. Len(dir.overflow) : t = range(dir.overflow[b], BlockLen)
      BY <2>2
    <3>2. PICK i : i = - b
      OBVIOUS
    <3>3. i \in Int /\ i < 0 /\ - i = b /\ i \in Spots(plan)
      BY <1>3, <1>4, <3>2
    <3>4. Span(SlotOf(img, img.size, plan, i)) = range(dir.overflow[- i], BlockLen)
      BY <1>2, <3>3, SpotIs
    <3>5. QED
      BY <3>1, <3>3, <3>4
  <2>3. CASE \E i \in 1 .. Len(dir.entries) : t = Span(dir.entries[i])
    <3>1. PICK i \in 1 .. Len(dir.entries) : t = Span(dir.entries[i])
      BY <2>3
    <3>2. i \in Int /\ i > 0 /\ i \in Spots(plan)
      BY <1>3, <1>4
    <3>3. Span(SlotOf(img, img.size, plan, i)) = Span(dir.entries[i])
      BY <1>2, <3>2, SpotIs
    <3>4. QED
      BY <3>1, <3>2, <3>3
  <2>4. QED
    BY <1>5, <2>1, <2>2, <2>3
<1>8. ASSUME NEW t \in SpansUnder(img, {p})
      PROVE  \E i \in Spots(plan) : t = Span(SlotOf(img, img.size, plan, i))
  <2>1. PICK s \in img.slots : s.pass = p /\ t = Span(s)
    BY DEF SpansUnder, SlotsUnder
  <2>2. QED
    BY <1>1, <2>1 DEF Sealable
<1>9. C = SpansUnder(img, {p})
  BY <1>6, <1>7, <1>8
<1>10. QED
  BY <1>1, <1>9

(* What vault_volume_add keeps clear of: the slots of the volumes it can   *)
(* open.                                                                   *)
LEMMA OccupiedIs ==
    ASSUME NEW img, img = Current, ImageOk(img), NEW p \in Pass,
           NEW dir, dir = vault_open_volume(img, p), Opened(dir),
           NEW keep \in Seq(Pass), KeepsOpen(img, keep)
    PROVE  Occupied(p, dir, keep) = SpansUnder(img, {p} \cup Range(keep))
<1>1. ASSUME NEW q \in Pass, NEW d, d = vault_open_volume(img, q), Opened(d)
      PROVE  vault_collect_ranges(vault_anchor_offset(q, img.size), d) = SpansUnder(img, {q})
  BY <1>1, VolumeRanges DEF ImageOk, VolumeOk, Placed
<1>2. /\ vault_collect_ranges(vault_anchor_offset(p, img.size), dir) = SpansUnder(img, {p})
      /\ \A k \in 1 .. Len(keep) :
            vault_collect_ranges(vault_anchor_offset(keep[k], img.size),
                                 vault_open_volume(img, keep[k])) = SpansUnder(img, {keep[k]})
  BY <1>1 DEF KeepsOpen
<1>3. Occupied(p, dir, keep)
         = SpansUnder(img, {p})
             \cup UNION {SpansUnder(img, {keep[k]}) : k \in 1 .. Len(keep)}
  BY <1>2 DEF Occupied
<1>4. Range(keep) = {keep[k] : k \in 1 .. Len(keep)}
  BY DEF Range
<1>5. QED
  BY <1>3, <1>4 DEF SpansUnder, SlotsUnder

(* One entry more takes at most one directory block more, and the last     *)
(* block has room for what the others leave.                               *)
LEMMA OneBlockMore ==
    ASSUME NEW count \in Nat
    PROVE  LET now == vault_required_blocks(count)
               next == vault_required_blocks(count + 1)
           IN  now \in Nat /\ (next = now \/ next = now + 1)
<1>1. PICK d : d = InnerData
  OBVIOUS
<1>2. d \in Nat \ {0} /\ MaxEntries = d + 1
  BY <1>1, VaultAssumption DEF InnerData
<1>3. CASE count + 1 <= MaxEntries
  BY <1>2, <1>3 DEF vault_required_blocks
<1>4. CASE count = MaxEntries
  <2>1. (count + 1) - MaxEntries + InnerData - 1 = d
    BY <1>1, <1>2, <1>4
  <2>2. d \div d = 1
    BY <1>2
  <2>3. vault_required_blocks(count + 1) = 2 /\ vault_required_blocks(count) = 1
    BY <1>1, <1>2, <1>4, <2>1, <2>2 DEF vault_required_blocks
  <2>4. QED
    BY <2>3
<1>5. CASE count > MaxEntries
  <2>1. PICK a : a = count - 2
    OBVIOUS
  <2>2. /\ a \in Nat
        /\ count - MaxEntries + InnerData - 1 = a
        /\ (count + 1) - MaxEntries + InnerData - 1 = a + 1
    BY <1>1, <1>2, <1>5, <2>1
  <2>3. PICK u, v : u = a \div d /\ v = (a + 1) \div d
    OBVIOUS
  <2>4. /\ vault_required_blocks(count) = 1 + u
        /\ vault_required_blocks(count + 1) = 1 + v
    BY <1>1, <1>2, <1>5, <2>2, <2>3 DEF vault_required_blocks
  <2>5. u \in Nat /\ u * d <= a /\ a < u * d + d
    BY <1>2, <2>2, <2>3, DivIs
  <2>6. v \in Nat /\ v * d <= a + 1 /\ a + 1 < v * d + d
    BY <1>2, <2>2, <2>3, DivIs
  <2>7. ~ (u + 2 <= v)
    <3> SUFFICES ASSUME u + 2 <= v PROVE FALSE
      OBVIOUS
    <3>1. (u + 2) * d \in Int /\ v * d \in Int /\ (u + 2) * d <= v * d
      BY <1>2, <2>5, <2>6, TimesMonotone
    <3>2. (u + 2) * d = u * d + d + d /\ u * d \in Int
      BY <1>2, <2>5
    <3>3. QED
      BY <1>2, <2>2, <2>5, <2>6, <3>1, <3>2
  <2>8. ~ (v + 1 <= u)
    <3> SUFFICES ASSUME v + 1 <= u PROVE FALSE
      OBVIOUS
    <3>1. (v + 1) * d \in Int /\ u * d \in Int /\ (v + 1) * d <= u * d
      BY <1>2, <2>5, <2>6, TimesMonotone
    <3>2. (v + 1) * d = v * d + d /\ v * d \in Int
      BY <1>2, <2>6
    <3>3. QED
      BY <1>2, <2>2, <2>5, <2>6, <3>1, <3>2
  <2>9. v = u \/ v = u + 1
    BY <2>5, <2>6, <2>7, <2>8
  <2>10. QED
    BY <2>4, <2>5, <2>9
<1>6. QED
  BY <1>2, <1>3, <1>4, <1>5

LEMMA LastBlockHolds ==
    ASSUME NEW count \in Nat
    PROVE  ~ (count - InnerData * (vault_required_blocks(count) - 1) > MaxEntries)
<1>1. PICK d, n : d = InnerData /\ n = vault_required_blocks(count)
  OBVIOUS
<1>2. d \in Nat \ {0} /\ MaxEntries = d + 1
  BY <1>1, VaultAssumption DEF InnerData
<1>3. CASE count <= MaxEntries
  <2>1. n = 1
    BY <1>1, <1>3 DEF vault_required_blocks
  <2>2. d * (n - 1) = 0
    BY <1>2, <2>1
  <2>3. QED
    BY <1>1, <1>2, <1>3, <2>2
<1>4. CASE count > MaxEntries
  <2>1. PICK u : u = (count - 2) \div d
    OBVIOUS
  <2>2. count - MaxEntries + InnerData - 1 = count - 2 /\ count - 2 \in Nat
    BY <1>1, <1>2, <1>4
  <2>3. n = 1 + u
    BY <1>1, <1>2, <1>4, <2>1, <2>2 DEF vault_required_blocks
  <2>4. u \in Nat /\ count - 2 < u * d + d
    BY <1>2, <2>1, <2>2, DivIs
  <2>5. d * (n - 1) = u * d /\ u * d \in Nat
    BY <1>2, <2>3, <2>4
  <2>6. QED
    BY <1>1, <1>2, <2>4, <2>5
<1>5. QED
  BY <1>2, <1>3, <1>4

(* The slots of the volumes that open, each at a place of its own.         *)
Reopened(img, q) == Plan(q, vault_open_volume(img, q))

Place(img, q, i) == Span(SlotOf(img, img.size, Reopened(img, q), i))

LEMMA OldSpot ==
    ASSUME NEW img, Placed(img), NEW q \in Pass, Opened(vault_open_volume(img, q)),
           NEW i \in Spots(Reopened(img, q)),
           NEW s, s = SlotOf(img, img.size, Reopened(img, q), i)
    PROVE  /\ s \in img.slots /\ s.pass = q /\ SlotOk(s)
           /\ Place(img, q, i) = Span(s) /\ Span(s).end <= img.size
<1>1. Sealable(img, q, vault_open_volume(img, q))
  BY DEF Placed
<1>2. s \in img.slots
  BY <1>1 DEF Sealable, Reopened
<1>3. s.pass = q
  <2>1. Reopened(img, q).pass = q
    BY DEF Reopened, Plan
  <2>2. QED
    BY <2>1, SlotPass
<1>4. SlotOk(s) /\ Span(s).end <= img.size
  BY <1>2 DEF Placed, Apart
<1>5. QED
  BY <1>2, <1>3, <1>4 DEF Place

LEMMA OldApart ==
    ASSUME NEW img, Placed(img),
           NEW q \in Pass, Opened(vault_open_volume(img, q)), NEW i \in Spots(Reopened(img, q)),
           NEW z \in Pass, Opened(vault_open_volume(img, z)), NEW j \in Spots(Reopened(img, z)),
           q # z \/ i # j
    PROVE  ~ Meet(Place(img, q, i), Place(img, z, j))
<1>1. PICK s, t : /\ s = SlotOf(img, img.size, Reopened(img, q), i)
                  /\ t = SlotOf(img, img.size, Reopened(img, z), j)
  OBVIOUS
<1>2. /\ s \in img.slots /\ s.pass = q /\ Place(img, q, i) = Span(s)
      /\ t \in img.slots /\ t.pass = z /\ Place(img, z, j) = Span(t)
  BY <1>1, OldSpot
<1>3. CASE q # z
  <2>1. s # t
    BY <1>2, <1>3
  <2>2. ~ Meet(Span(s), Span(t))
    BY <1>2, <2>1 DEF Placed, Apart
  <2>3. QED
    BY <1>2, <2>2
<1>4. CASE q = z
  <2>1. i # j
    BY <1>4
  <2>2. Sealable(img, q, vault_open_volume(img, q))
    BY DEF Placed
  <2>3. ~ Meet(Span(SlotOf(img, img.size, Reopened(img, q), i)),
               Span(SlotOf(img, img.size, Reopened(img, q), j)))
    BY <1>4, <2>1, <2>2 DEF Sealable, Reopened
  <2>4. QED
    BY <1>4, <2>3 DEF Place
<1>5. QED
  BY <1>3, <1>4

LEMMA OldReads ==
    ASSUME NEW img, ImageOk(img), NEW q \in Pass,
           NEW dir, dir = vault_open_volume(img, q), Opened(dir),
           NEW i \in 1 .. Len(dir.entries), NEW e, e = dir.entries[i]
    PROVE  Sealed(img, q, e.off, e.cap) # {}
<1>1. DirOk(dir) /\ Placed(img) /\ Sealable(img, q, dir)
  BY DEF ImageOk, VolumeOk, Placed
<1>2. PICK plan, s : plan = Reopened(img, q) /\ s = SlotOf(img, img.size, plan, i)
  OBVIOUS
<1>3. plan.pass = q /\ plan.dir = dir /\ Blocks(plan) = Len(dir.overflow) + 1
  BY <1>1, <1>2 DEF Reopened, Plan, Sealable
<1>4. Len(dir.entries) \in Nat /\ Len(dir.overflow) \in Nat
  BY <1>1 DEF DirOk
<1>5. i \in Spots(plan) /\ i > 0
  BY <1>3, <1>4 DEF Spots
<1>6. s \in img.slots /\ s.pass = q
  BY <1>1, <1>2, <1>5, OldSpot
<1>7. s.off = e.off /\ s.cap = e.cap
  BY <1>2, <1>3, <1>5 DEF SlotOf, DataSlot
<1>8. Sealed(img, q, e.off, e.cap) = {s}
  BY <1>1, <1>6, <1>7, SealedIs DEF Placed
<1>9. QED
  BY <1>8

(* A plan for a volume that opens, or that one with one more entry, is not *)
(* refused.                                                                *)
LEMMA NotRefused ==
    ASSUME NEW img, img.size \in Nat, BlockLen <= img.size, NEW plan,
           Len(plan.dir.entries) \in Nat, Len(plan.dir.overflow) \in Nat,
           Blocks(plan) = Len(plan.dir.overflow) + 1,
           \A i \in 1 .. Len(plan.dir.entries) : Readable(img, plan, i)
    PROVE  ~ PlanRefused(img, img.size, plan)
<1>1. PICK n : n = Blocks(plan)
  OBVIOUS
<1>2. n = vault_required_blocks(Len(plan.dir.entries))
  BY <1>1 DEF Blocks
<1>3. ~ (Len(plan.dir.entries) - InnerData * (n - 1) > MaxEntries)
  BY <1>2, LastBlockHolds
<1>4. ~ (n - 1 > Len(plan.dir.overflow)) /\ ~ (img.size < BlockLen)
  BY <1>1, BlockLenIs
<1>5. QED
  BY <1>2, <1>3, <1>4 DEF PlanRefused

LEMMA OldNotRefused ==
    ASSUME NEW img, ImageOk(img), img.size \in Nat,
           NEW q \in Pass, Opened(vault_open_volume(img, q))
    PROVE  ~ PlanRefused(img, img.size, Reopened(img, q))
<1>1. PICK dir, plan : dir = vault_open_volume(img, q) /\ plan = Reopened(img, q)
  OBVIOUS
<1>2. DirOk(dir) /\ Sealable(img, q, dir) /\ BlockLen <= img.size
  BY <1>1 DEF ImageOk, VolumeOk, Placed
<1>3. plan.read = q /\ plan.dir = dir /\ Blocks(plan) = Len(dir.overflow) + 1
  BY <1>1, <1>2 DEF Reopened, Plan, Sealable
<1>4. ASSUME NEW i \in 1 .. Len(plan.dir.entries) PROVE Readable(img, plan, i)
  <2>1. Sealed(img, q, dir.entries[i].off, dir.entries[i].cap) # {}
    BY <1>1, <1>3, OldReads
  <2>2. QED
    BY <1>3, <2>1 DEF Readable
<1>5. Len(dir.entries) \in Nat /\ Len(dir.overflow) \in Nat
  BY <1>2 DEF DirOk
<1>6. ~ PlanRefused(img, img.size, plan)
  BY <1>2, <1>3, <1>4, <1>5, NotRefused
<1>7. QED
  BY <1>1, <1>6

(* A rewrite is refused for no other reason.                               *)
LEMMA RewriteMakes ==
    ASSUME NEW img, NEW size, NEW plans,
           \A v \in 1 .. Len(plans) : ~ PlanRefused(img, size, plans[v]),
           \A v \in 1 .. Len(plans) : \A i \in Spots(plans[v]) :
              ~ (Span(SlotOf(img, size, plans[v], i)).end > size),
           \A v, u \in 1 .. Len(plans) : \A i \in Spots(plans[v]), j \in Spots(plans[u]) :
              v # u \/ i # j
              => ~ Meet(Span(SlotOf(img, size, plans[v], i)), Span(SlotOf(img, size, plans[u], j))),
           NEW v \in 1 .. Len(plans), NEW i \in Spots(plans[v])
    PROVE  SlotOf(img, size, plans[v], i) \in vault_rewrite(img, size, plans).slots
<1> DEFINE slot == Slots(img, size, plans)
<1>1. DOMAIN slot = Places(plans)
  BY DEF Slots
<1>2. ASSUME NEW x \in Places(plans)
      PROVE  \E u \in 1 .. Len(plans) : \E j \in Spots(plans[u]) :
                x = <<u, j>> /\ slot[x] = SlotOf(img, size, plans[u], j)
  <2>1. PICK u \in 1 .. Len(plans) : \E j \in Spots(plans[u]) : x = <<u, j>>
    BY PlacesAre
  <2>2. PICK j \in Spots(plans[u]) : x = <<u, j>>
    BY <2>1
  <2>3. QED
    BY <2>2, SlotsAre
<1>3. <<v, i>> \in Places(plans) /\ slot[<<v, i>>] = SlotOf(img, size, plans[v], i)
  BY SlotsAre, PlacesAre
<1>4. vault_rewrite(img, size, plans)
         = IF \E u \in 1 .. Len(plans) : PlanRefused(img, size, plans[u]) THEN Truncated
           ELSE IF Collides(size, slot) THEN Truncated
           ELSE [size |-> size, slots |-> {slot[x] : x \in DOMAIN slot}]
  BY DEF vault_rewrite
<1> HIDE DEF slot
<1>5. ASSUME NEW x \in Places(plans) PROVE ~ (Span(slot[x]).end > size)
  BY <1>2
<1>6. ASSUME NEW x \in Places(plans), NEW y \in Places(plans), x # y
      PROVE  ~ Meet(Span(slot[x]), Span(slot[y]))
  <2>1. PICK u \in 1 .. Len(plans) : \E j \in Spots(plans[u]) :
           x = <<u, j>> /\ slot[x] = SlotOf(img, size, plans[u], j)
    BY <1>2
  <2>2. PICK j \in Spots(plans[u]) : x = <<u, j>> /\ slot[x] = SlotOf(img, size, plans[u], j)
    BY <2>1
  <2>3. PICK w \in 1 .. Len(plans) : \E k \in Spots(plans[w]) :
           y = <<w, k>> /\ slot[y] = SlotOf(img, size, plans[w], k)
    BY <1>2
  <2>4. PICK k \in Spots(plans[w]) : y = <<w, k>> /\ slot[y] = SlotOf(img, size, plans[w], k)
    BY <2>3
  <2>5. u # w \/ j # k
    BY <1>6, <2>2, <2>4
  <2>6. QED
    BY <2>2, <2>4, <2>5
<1>7. ~ Collides(size, slot)
  BY <1>1, <1>5, <1>6 DEF Collides, vault_ranges_overlap
<1>8. vault_rewrite(img, size, plans).slots = {slot[x] : x \in Places(plans)}
  BY <1>1, <1>4, <1>7
<1>9. QED
  BY <1>3, <1>8

(* The slots of a directory with one more entry.                           *)
LEMMA AddedSpots ==
    ASSUME NEW img, ImageOk(img), NEW p \in Pass,
           NEW dir, dir = vault_open_volume(img, p), Opened(dir),
           NEW e, NEW d, Extended(d, dir, e), NEW block \in Int,
           d.overflow = dir.overflow \/ d.overflow = Append(dir.overflow, block),
           NEW plan, plan.pass = p, plan.dir = d, Blocks(plan) = Len(d.overflow) + 1,
           NEW i \in Spots(plan), NEW s, s = SlotOf(img, img.size, plan, i)
    PROVE  \/ i \in Spots(Reopened(img, p)) /\ Span(s) = Place(img, p, i)
           \/ i = Len(d.entries) /\ Span(s) = Span(e)
           \/ i = - Len(d.overflow) /\ Span(s) = range(block, BlockLen)
<1>1. DirOk(dir) /\ Sealable(img, p, dir)
  BY DEF ImageOk, VolumeOk, Placed
<1>2. PICK old, t : old = Reopened(img, p) /\ t = SlotOf(img, img.size, old, i)
  OBVIOUS
<1>3. old.pass = p /\ old.dir = dir /\ Blocks(old) = Len(dir.overflow) + 1
  BY <1>1, <1>2 DEF Reopened, Plan, Sealable
<1>4. PICK m \in Nat, k \in Nat : m = Len(dir.entries) /\ k = Len(dir.overflow)
  <2>1. Len(dir.entries) \in Nat /\ Len(dir.overflow) \in Nat
    BY <1>1 DEF DirOk
  <2>2. QED
    BY <2>1
<1>5. dir.overflow \in Seq(Int)
  BY <1>1 DEF DirOk
<1>6. /\ Len(d.overflow) = k \/ Len(d.overflow) = k + 1
      /\ \A b \in 1 .. k : d.overflow[b] = dir.overflow[b]
      /\ Len(d.overflow) = k + 1 => d.overflow[k + 1] = block
  BY <1>4, <1>5
<1>7. /\ Len(d.entries) = m + 1 /\ d.entries[m + 1] = e
      /\ \A b \in 1 .. m : d.entries[b] = dir.entries[b]
  BY <1>4 DEF Extended
<1>8. Spots(old) = - k .. m /\ Spots(plan) = - Len(d.overflow) .. m + 1
  <2>1. 1 - (k + 1) = - k /\ 1 - (Len(d.overflow) + 1) = - Len(d.overflow)
    BY <1>4, <1>6
  <2>2. QED
    BY <1>3, <1>4, <1>7, <2>1 DEF Spots
<1>9. i \in Int /\ - Len(d.overflow) <= i /\ i <= m + 1
  BY <1>6, <1>8
<1>10. Place(img, p, i) = Span(t)
  BY <1>2 DEF Place
<1>11. CASE i > 0
  <2>1. Span(s) = Span(d.entries[i]) /\ Span(t) = Span(dir.entries[i])
    BY <1>2, <1>3, <1>9, <1>11, SpotIs
  <2>2. CASE i = m + 1
    BY <1>7, <2>1, <2>2
  <2>3. CASE i # m + 1
    <3>1. i \in 1 .. m /\ i \in Spots(old)
      BY <1>8, <1>9, <1>11, <2>3
    <3>2. QED
      BY <1>2, <1>7, <1>10, <2>1, <3>1
  <2>4. QED
    BY <2>2, <2>3
<1>12. CASE i = 0
  <2>1. Span(s) = Span(t)
    BY <1>2, <1>3, <1>9, <1>12, SpotIs
  <2>2. i \in Spots(old)
    BY <1>8, <1>12
  <2>3. QED
    BY <1>2, <1>10, <2>1, <2>2
<1>13. CASE i < 0
  <2>1. Span(s) = range(d.overflow[- i], BlockLen) /\ Span(t) = range(dir.overflow[- i], BlockLen)
    BY <1>2, <1>3, <1>9, <1>13, SpotIs
  <2>2. CASE - i \in 1 .. k
    <3>1. i \in Spots(old)
      BY <1>8, <1>9, <2>2
    <3>2. d.overflow[- i] = dir.overflow[- i]
      BY <1>6, <2>2
    <3>3. QED
      BY <1>2, <1>10, <2>1, <3>1, <3>2
  <2>3. CASE ~ (- i \in 1 .. k)
    <3>1. Len(d.overflow) = k + 1 /\ - i = k + 1 /\ i = - Len(d.overflow)
      BY <1>6, <1>9, <1>13, <2>3
    <3>2. QED
      BY <1>6, <2>1, <3>1
  <2>4. QED
    BY <2>2, <2>3
<1>14. QED
  BY <1>9, <1>11, <1>12, <1>13

(* A range that is free for the volumes meets none of their slots.         *)
LEMMA FreeMeets ==
    ASSUME NEW img, Placed(img), NEW K, NEW off, NEW len, NEW taken,
           Free(img, K, off, len, taken),
           NEW q \in Pass, q \in K, Opened(vault_open_volume(img, q)),
           NEW i \in Spots(Reopened(img, q))
    PROVE  /\ ~ Meet(range(off, len), Place(img, q, i))
           /\ ~ Meet(Place(img, q, i), range(off, len))
<1>1. PICK s : s = SlotOf(img, img.size, Reopened(img, q), i)
  OBVIOUS
<1>2. s \in img.slots /\ s.pass = q /\ Place(img, q, i) = Span(s)
  BY <1>1, OldSpot
<1>3. ~ Meet(range(off, len), Span(s))
  BY <1>2 DEF Free
<1>4. QED
  BY <1>2, <1>3 DEF Meet

(* With room for the slot of the new entry, and for a directory block, the *)
(* rewrite is not refused.                                                 *)
LEMMA AddedMakes ==
    ASSUME NEW img, ImageOk(img), img.size \in Nat, NEW p \in Pass,
           NEW keep \in Seq(Pass), IsInjective(keep), p \notin Range(keep), KeepsOpen(img, keep),
           NEW dir, dir = vault_open_volume(img, p), Opened(dir),
           NEW e, NEW d, Extended(d, dir, e), NEW off \in Nat, NEW need \in Nat,
           Span(e) = range(off, need), NEW block \in Nat,
           d.overflow = dir.overflow \/ d.overflow = Append(dir.overflow, block),
           NEW plan, plan.pass = p, plan.read = p, plan.dir = d, plan.new # NoContent,
           Blocks(plan) = Len(d.overflow) + 1,
           NEW K, K = {p} \cup Range(keep),
           Free(img, K, off, need, range(0, 0)),
           Free(img, K, block, BlockLen, range(off, need)),
           NEW plans, plans = <<plan>> \o KeepPlans(img, keep)
    PROVE  SlotOf(img, img.size, plan, Len(d.entries))
              \in vault_rewrite(img, img.size, plans).slots
<1> DEFINE place(v, i) == Span(SlotOf(img, img.size, plans[v], i))
           Old(v, i) == /\ i \in Spots(Reopened(img, plans[v].pass))
                        /\ place(v, i) = Place(img, plans[v].pass, i)
           Entered(v, i) == v = 1 /\ i = Len(d.entries) /\ place(v, i) = range(off, need)
           Chained(v, i) == v = 1 /\ i = - Len(d.overflow) /\ place(v, i) = range(block, BlockLen)
<1>1. PlansFor(plans, img, plan, keep)
  BY PlansAre
<1>2. Len(plans) = 1 + Len(keep) /\ plans[1] = plan /\ Len(keep) \in Nat
  BY <1>1 DEF PlansFor
<1>3. ASSUME NEW k \in 1 .. Len(keep)
      PROVE  /\ plans[k + 1] = Reopened(img, keep[k]) /\ plans[k + 1].pass = keep[k]
             /\ keep[k] \in Pass /\ keep[k] \in K /\ keep[k] # p
             /\ Opened(vault_open_volume(img, keep[k]))
  <2>1. plans[k + 1] = Reopened(img, keep[k])
    BY <1>1 DEF PlansFor, Reopened
  <2>2. Reopened(img, keep[k]).pass = keep[k]
    BY DEF Reopened, Plan
  <2>3. keep[k] \in Range(keep)
    BY DEF Range
  <2>4. Opened(vault_open_volume(img, keep[k]))
    BY DEF KeepsOpen
  <2>5. keep[k] \in Pass
    OBVIOUS
  <2>6. keep[k] \in K /\ keep[k] # p
    BY <2>3
  <2>7. QED
    BY <2>1, <2>2, <2>4, <2>5, <2>6
<1>4. ASSUME NEW v \in 1 .. Len(plans)
      PROVE  v = 1 \/ \E k \in 1 .. Len(keep) : v = k + 1
  <2>1. v = 1 \/ v - 1 \in 1 .. Len(keep)
    BY <1>2
  <2>2. v = (v - 1) + 1
    OBVIOUS
  <2>3. QED
    BY <2>1, <2>2
<1>5. ASSUME NEW v \in 1 .. Len(plans)
      PROVE  /\ plans[v].pass \in Pass /\ plans[v].pass \in K
             /\ Opened(vault_open_volume(img, plans[v].pass))
             /\ v # 1 => plans[v] = Reopened(img, plans[v].pass)
  <2>1. CASE v = 1
    BY <1>2, <2>1
  <2>2. CASE \E k \in 1 .. Len(keep) : v = k + 1
    <3>1. PICK k \in 1 .. Len(keep) : v = k + 1
      BY <2>2
    <3>2. QED
      BY <1>3, <3>1
  <2>3. QED
    BY <1>4, <2>1, <2>2
<1>6. ASSUME NEW v \in 1 .. Len(plans), NEW u \in 1 .. Len(plans), plans[v].pass = plans[u].pass
      PROVE  v = u
  <2>1. CASE v = 1
    <3>1. SUFFICES ASSUME u # 1 PROVE FALSE
      BY <2>1
    <3>2. PICK k \in 1 .. Len(keep) : u = k + 1
      BY <1>4, <3>1
    <3>3. QED
      BY <1>2, <1>3, <1>6, <2>1, <3>2
  <2>2. CASE u = 1
    <3>1. SUFFICES ASSUME v # 1 PROVE FALSE
      BY <2>2
    <3>2. PICK k \in 1 .. Len(keep) : v = k + 1
      BY <1>4, <3>1
    <3>3. QED
      BY <1>2, <1>3, <1>6, <2>2, <3>2
  <2>3. CASE v # 1 /\ u # 1
    <3>1. PICK k \in 1 .. Len(keep) : v = k + 1
      BY <1>4, <2>3
    <3>2. PICK j \in 1 .. Len(keep) : u = j + 1
      BY <1>4, <2>3
    <3>3. keep[k] = keep[j]
      BY <1>3, <1>6, <3>1, <3>2
    <3>4. k \in DOMAIN keep /\ j \in DOMAIN keep
      OBVIOUS
    <3>5. k = j
      BY <3>3, <3>4 DEF IsInjective
    <3>6. QED
      BY <3>1, <3>2, <3>5
  <2>4. QED
    BY <2>1, <2>2, <2>3
<1>7. ASSUME NEW v \in 1 .. Len(plans), NEW i \in Spots(plans[v])
      PROVE  Old(v, i) \/ Entered(v, i) \/ Chained(v, i)
  <2>1. CASE v # 1
    BY <1>5, <2>1 DEF Place
  <2>2. CASE v = 1
    <3>1. PICK s : s = SlotOf(img, img.size, plan, i)
      OBVIOUS
    <3>2. i \in Spots(plan) /\ place(v, i) = Span(s) /\ plans[v].pass = p
      BY <1>2, <2>2, <3>1
    <3>3. \/ i \in Spots(Reopened(img, p)) /\ Span(s) = Place(img, p, i)
          \/ i = Len(d.entries) /\ Span(s) = Span(e)
          \/ i = - Len(d.overflow) /\ Span(s) = range(block, BlockLen)
      BY <3>1, <3>2, AddedSpots
    <3>4. QED
      BY <2>2, <3>2, <3>3
  <2>3. QED
    BY <2>1, <2>2
<1>8. Placed(img)
  BY DEF ImageOk
<1> HIDE DEF place, Old, Entered, Chained
<1>9. ASSUME NEW v \in 1 .. Len(plans), NEW i \in Spots(plans[v])
      PROVE  ~ (place(v, i).end > img.size)
  <2>1. CASE Old(v, i)
    <3>1. PICK q, s : q = plans[v].pass /\ s = SlotOf(img, img.size, Reopened(img, q), i)
      OBVIOUS
    <3>2. i \in Spots(Reopened(img, q)) /\ place(v, i) = Place(img, q, i)
      BY <2>1, <3>1 DEF Old
    <3>3. q \in Pass /\ Opened(vault_open_volume(img, q))
      BY <1>5, <3>1
    <3>4. SlotOk(s) /\ Place(img, q, i) = Span(s) /\ Span(s).end <= img.size
      BY <1>8, <3>1, <3>2, <3>3, OldSpot
    <3>5. QED
      BY <3>2, <3>4, SpanIs
  <2>2. CASE Entered(v, i)
    <3>1. off + need <= img.size
      BY DEF Free
    <3>2. place(v, i).end = off + need
      BY <2>2 DEF Entered, range
    <3>3. QED
      BY <3>1, <3>2
  <2>3. CASE Chained(v, i)
    <3>1. block + BlockLen <= img.size
      BY DEF Free
    <3>2. place(v, i).end = block + BlockLen
      BY <2>3 DEF Chained, range
    <3>3. QED
      BY <3>1, <3>2, BlockLenIs
  <2>4. QED
    BY <1>7, <2>1, <2>2, <2>3
<1>10. ASSUME NEW v \in 1 .. Len(plans), NEW i \in Spots(plans[v]), Old(v, i)
       PROVE  /\ ~ Meet(range(off, need), place(v, i)) /\ ~ Meet(place(v, i), range(off, need))
              /\ ~ Meet(range(block, BlockLen), place(v, i))
              /\ ~ Meet(place(v, i), range(block, BlockLen))
  <2>1. PICK q : q = plans[v].pass
    OBVIOUS
  <2>2. /\ i \in Spots(Reopened(img, q)) /\ place(v, i) = Place(img, q, i)
        /\ q \in Pass /\ q \in K /\ Opened(vault_open_volume(img, q))
    BY <1>5, <1>10, <2>1 DEF Old
  <2>3. /\ ~ Meet(range(off, need), Place(img, q, i))
        /\ ~ Meet(Place(img, q, i), range(off, need))
    BY <1>8, <2>2, FreeMeets
  <2>4. /\ ~ Meet(range(block, BlockLen), Place(img, q, i))
        /\ ~ Meet(Place(img, q, i), range(block, BlockLen))
    BY <1>8, <2>2, FreeMeets
  <2>5. QED
    BY <2>2, <2>3, <2>4
<1>11. /\ ~ Meet(range(block, BlockLen), range(off, need))
       /\ ~ Meet(range(off, need), range(block, BlockLen))
  <2>1. ~ Meet(range(block, BlockLen), range(off, need))
    BY DEF Free
  <2>2. QED
    BY <2>1 DEF Meet
<1>12. ASSUME NEW v \in 1 .. Len(plans), NEW u \in 1 .. Len(plans),
              NEW i \in Spots(plans[v]), NEW j \in Spots(plans[u]), v # u \/ i # j
       PROVE  ~ Meet(place(v, i), place(u, j))
  <2>1. CASE Old(v, i) /\ Old(u, j)
    <3>1. PICK q, z : q = plans[v].pass /\ z = plans[u].pass
      OBVIOUS
    <3>2. /\ q \in Pass /\ Opened(vault_open_volume(img, q)) /\ i \in Spots(Reopened(img, q))
          /\ z \in Pass /\ Opened(vault_open_volume(img, z)) /\ j \in Spots(Reopened(img, z))
          /\ place(v, i) = Place(img, q, i) /\ place(u, j) = Place(img, z, j)
      BY <1>5, <2>1, <3>1 DEF Old
    <3>3. q # z \/ i # j
      BY <1>6, <1>12, <3>1
    <3>4. QED
      BY <1>8, <3>2, <3>3, OldApart
  <2>2. CASE Old(v, i) /\ ~ Old(u, j)
    <3>1. place(u, j) = range(off, need) \/ place(u, j) = range(block, BlockLen)
      BY <1>7, <2>2 DEF Entered, Chained
    <3>2. QED
      BY <1>10, <2>2, <3>1
  <2>3. CASE ~ Old(v, i) /\ Old(u, j)
    <3>1. place(v, i) = range(off, need) \/ place(v, i) = range(block, BlockLen)
      BY <1>7, <2>3 DEF Entered, Chained
    <3>2. QED
      BY <1>10, <2>3, <3>1
  <2>4. CASE ~ Old(v, i) /\ ~ Old(u, j)
    <3>1. (Entered(v, i) \/ Chained(v, i)) /\ (Entered(u, j) \/ Chained(u, j))
      BY <1>7, <2>4
    <3>2. ~ (Entered(v, i) /\ Entered(u, j)) /\ ~ (Chained(v, i) /\ Chained(u, j))
      BY <1>12 DEF Entered, Chained
    <3>3. \/ place(v, i) = range(off, need) /\ place(u, j) = range(block, BlockLen)
          \/ place(v, i) = range(block, BlockLen) /\ place(u, j) = range(off, need)
      BY <3>1, <3>2 DEF Entered, Chained
    <3>4. QED
      BY <1>11, <3>3
  <2>5. QED
    BY <2>1, <2>2, <2>3, <2>4
<1>13. Len(d.entries) \in Nat /\ Len(d.overflow) \in Nat /\ Len(d.entries) = Len(dir.entries) + 1
  BY DEF Extended, DirOk
<1>14. ~ PlanRefused(img, img.size, plan)
  <2>1. BlockLen <= img.size
    BY <1>8 DEF Placed
  <2>2. ASSUME NEW i \in 1 .. Len(plan.dir.entries) PROVE Readable(img, plan, i)
    <3>1. CASE i = Len(d.entries)
      BY <3>1 DEF Readable, IsNew
    <3>2. CASE i # Len(d.entries)
      <4>1. i \in 1 .. Len(dir.entries)
        <5>1. Len(dir.entries) \in Nat
          BY DEF ImageOk, VolumeOk, DirOk
        <5>2. QED
          BY <1>13, <3>2, <5>1
      <4>2. d.entries[i] = dir.entries[i]
        BY <4>1 DEF Extended
      <4>3. Sealed(img, p, dir.entries[i].off, dir.entries[i].cap) # {}
        BY <4>1, OldReads
      <4>4. QED
        BY <4>2, <4>3 DEF Readable
    <3>3. QED
      BY <3>1, <3>2
  <2>3. Len(plan.dir.entries) \in Nat /\ Len(plan.dir.overflow) \in Nat
        /\ Blocks(plan) = Len(plan.dir.overflow) + 1
    BY <1>13
  <2>4. QED
    BY <2>1, <2>2, <2>3, NotRefused
<1>15. ASSUME NEW v \in 1 .. Len(plans) PROVE ~ PlanRefused(img, img.size, plans[v])
  <2>1. CASE v = 1
    BY <1>2, <1>14, <2>1
  <2>2. CASE v # 1
    <3>1. ~ PlanRefused(img, img.size, Reopened(img, plans[v].pass))
      BY <1>5, OldNotRefused
    <3>2. QED
      BY <1>5, <2>2, <3>1
  <2>3. QED
    BY <2>1, <2>2
<1>16. 1 \in 1 .. Len(plans) /\ Len(d.entries) \in Spots(plans[1])
  <2>1. Blocks(plan) \in Nat /\ Blocks(plan) >= 1
    BY <1>13
  <2>2. Spots(plan) = 1 - Blocks(plan) .. Len(d.entries)
    BY DEF Spots
  <2>3. Len(d.entries) \in Spots(plan)
    BY <1>13, <2>1, <2>2
  <2>4. QED
    BY <1>2, <2>3
<1>17. SlotOf(img, img.size, plans[1], Len(d.entries))
          \in vault_rewrite(img, img.size, plans).slots
  BY <1>9, <1>12, <1>15, <1>16, RewriteMakes DEF place
<1>18. QED
  BY <1>2, <1>17

(* What RoomIsFound says of one addition.                                  *)
RoomServes(p, keep, c, n) ==
    LET known == {p} \cup Range(keep)
        need  == vault_slot_len(SlotCap(c, NoPlacement))
        off   == Lowest(Current, known, need, range(0, 0))
        block == Lowest(Current, known, BlockLen, range(off, need))
    IN  off < Current.size /\ block < Current.size
        => \E s \in AddImage(p, n, c, NoPlacement, FALSE, keep).slots :
              s.off = off /\ s.pass = p /\ s.data = c

LEMMA RoomUsed ==
    ASSUME Ready, path # 0, NEW p \in Pass, NEW keep \in KeepLists,
           IsInjective(keep), p \notin Range(keep),
           NEW dir, dir = vault_open_volume(Current, p), Opened(dir), KeepsOpen(Current, keep),
           Len(dir.entries) < MaxVolEntries, NEW c \in Content, NEW n \in Name \ Names(dir)
    PROVE  RoomServes(p, keep, c, n)
<1>1. PICK img, cap, occ, need, K : /\ img = Current /\ cap = SlotCap(c, NoPlacement)
                                    /\ occ = Occupied(p, dir, keep)
                                    /\ need = vault_slot_len(cap) /\ K = {p} \cup Range(keep)
  OBVIOUS
<1>off. PICK off : off = Lowest(img, K, need, range(0, 0))
  OBVIOUS
<1>block. PICK block : block = Lowest(img, K, BlockLen, range(off, need))
  OBVIOUS
<1> SUFFICES ASSUME off < img.size, block < img.size
             PROVE  \E s \in AddImage(p, n, c, NoPlacement, FALSE, keep).slots :
                       s.off = off /\ s.pass = p /\ s.data = c
  BY <1>1, <1>off, <1>block DEF RoomServes
<1>2. img.size \in Sizes /\ img.size \in Nat /\ ImageOk(img)
  BY <1>1, VaultAssumption DEF Ready
<1>3. /\ cap \in Nat \ {0} /\ ~ (cap < MinCap) /\ ~ (ContentLen[c] > cap - LenField)
      /\ need \in Nat \ {0}
  <2>1. cap = IF ContentLen[c] + LenField < MinCap THEN MinCap ELSE ContentLen[c] + LenField
    BY <1>1 DEF SlotCap, NoPlacement
  <2>2. ContentLen[c] \in Nat /\ LenField \in Nat /\ MinCap \in Nat /\ LenField < MinCap
    BY VaultAssumption
  <2>3. cap \in Nat \ {0} /\ ~ (cap < MinCap) /\ ~ (ContentLen[c] > cap - LenField)
    BY <2>1, <2>2
  <2>4. QED
    BY <1>1, <2>3, SlotLen
<1>4. KeepOk(keep, img.size) /\ keep \in Seq(Pass)
  BY <1>2, KeepListOk DEF KeepOk
<1>5. DirOk(dir) /\ Sealable(img, p, dir)
  BY <1>1, <1>2 DEF ImageOk, VolumeOk, Placed
<1>6. RangesOk(occ)
  <2>1. vault_anchor_offset(p, img.size) \in Nat
    BY <1>2, VaultAssumption DEF vault_anchor_offset
  <2>2. QED
    BY <1>1, <1>2, <1>4, <1>5, <2>1, OccupiedOk
<1>7. occ = SpansUnder(img, K)
  BY <1>1, <1>2, <1>4, OccupiedIs
<1>8. /\ vault_find_free(occ, img.size, need) = off /\ off \in Nat
      /\ Free(img, K, off, need, range(0, 0))
  <2>1. RangesOk(SpansUnder(img, K)) /\ off = Lowest(img, K, need, range(0, 0)) /\ off < img.size
    BY <1>6, <1>7, <1>off
  <2>2. Found(img, K, SpansUnder(img, K), need, range(0, 0), off)
    BY <1>2, <1>3, <2>1, FirstRoom
  <2>3. QED
    BY <1>7, <2>2 DEF Found
<1>9. /\ vault_find_free(occ \cup {range(off, need)}, img.size, BlockLen) = block
      /\ block \in Nat /\ Free(img, K, block, BlockLen, range(off, need))
  <2>1. RangesOk(SpansUnder(img, K)) /\ need \in Nat /\ off \in Nat
    BY <1>3, <1>6, <1>7, <1>8
  <2>2. block = Lowest(img, K, BlockLen, range(off, need)) /\ block < img.size
    BY <1>block
  <2>3. Found(img, K, SpansUnder(img, K) \cup {range(off, need)}, BlockLen,
              range(off, need), block)
    BY <1>2, <2>1, <2>2, NextRoom
  <2>4. QED
    BY <1>7, <2>3 DEF Found
<1>10. PICK d, plan, R : /\ d = AddEntry(dir, n, off, cap, occ)
                         /\ plan = [Plan(p, d) EXCEPT !.new = c]
                         /\ R = AddImage(p, n, c, NoPlacement, FALSE, keep)
  OBVIOUS
<1>11. plan.pass = p /\ plan.read = p /\ plan.dir = d /\ plan.new = c /\ c # NoContent
  BY <1>10, NothingAssumption DEF Plan
<1>12. AddsTo(d, dir, n, off, cap, occ, img.size)
  <2>1. "entries" \in DOMAIN dir /\ "overflow" \in DOMAIN dir
    BY DirShape
  <2>2. QED
    BY <1>1, <1>2, <1>3, <1>5, <1>6, <1>8, <1>10, <2>1, AddEntryIs
<1>13. PICK e : e = Entry(n, off, cap)
  OBVIOUS
<1>14. Extended(d, dir, e) /\ Span(e) = range(off, need) /\ e.off = off
  <2>1. Extended(d, dir, e)
    BY <1>12, <1>13 DEF AddsTo
  <2>2. e.off = off /\ e.cap = cap
    BY <1>13 DEF Entry
  <2>3. QED
    BY <1>1, <2>1, <2>2 DEF Span
<1>15. /\ d.overflow = dir.overflow \/ d.overflow = Append(dir.overflow, block)
       /\ Blocks(plan) = Len(d.overflow) + 1
  <2>1. PICK now, next : /\ now = vault_required_blocks(Len(dir.entries))
                         /\ next = vault_required_blocks(Len(dir.entries) + 1)
    OBVIOUS
  <2>2. /\ Len(dir.entries) \in Nat /\ Len(dir.overflow) \in Nat /\ dir.overflow \in Seq(Int)
    BY <1>5 DEF DirOk
  <2>3. now = Len(dir.overflow) + 1
    BY <1>5, <2>1 DEF Sealable, Blocks, Plan
  <2>4. next = now \/ next = now + 1
    BY <2>1, <2>2, OneBlockMore
  <2>5. Blocks(plan) = next
    BY <1>11, <1>14, <2>1 DEF Blocks, Extended
  <2>6. Grown(d.overflow, dir.overflow, occ \cup {range(off, need)}, img.size, next)
    BY <1>1, <1>12, <2>1 DEF AddsTo
  <2>7. CASE next = now
    <3>1. d.overflow = dir.overflow
      BY <2>2, <2>3, <2>6, <2>7 DEF Grown
    <3>2. QED
      BY <2>3, <2>5, <2>7, <3>1
  <2>8. CASE next = now + 1
    <3>1. next - 1 = Len(dir.overflow) + 1
      BY <2>2, <2>3, <2>8
    <3>2. block # -1
      BY <1>9
    <3>3. d.overflow = Append(dir.overflow, block)
      BY <1>9, <2>6, <3>1, <3>2 DEF Grown
    <3>4. Len(d.overflow) = Len(dir.overflow) + 1
      BY <1>9, <2>2, <3>3
    <3>5. QED
      BY <2>2, <2>3, <2>5, <2>8, <3>3, <3>4
  <2>9. QED
    BY <2>4, <2>7, <2>8
<1>16. R = vault_rewrite(img, img.size, <<plan>> \o KeepPlans(img, keep))
  <2>1. vault_dir_find(dir, n) = 0
    BY <1>5, NotFound
  <2>2. ~ (Len(dir.entries) >= MaxVolEntries)
    <3>1. Len(dir.entries) \in Nat /\ MaxVolEntries \in Int
      BY <1>5, VaultAssumption DEF DirOk, MaxVolEntries, InnerData
    <3>2. QED
      BY <3>1
  <2>3. off # -1 /\ ~ (NoPlacement.off >= 0)
    BY <1>8 DEF NoPlacement
  <2>4. vault_find_free(occ, Current.size, vault_slot_len(cap)) = off
    BY <1>1, <1>8
  <2>5. R = vault_mutate(plan, keep)
    BY <1>1, <1>3, <1>10, <2>1, <2>2, <2>3, <2>4, Zenon DEF AddImage
  <2>6. QED
    BY <1>1, <2>5 DEF vault_mutate
<1>17. PICK s : s = SlotOf(img, img.size, plan, Len(d.entries))
  OBVIOUS
<1>18. s \in R.slots
  <2>1. PICK plans : plans = <<plan>> \o KeepPlans(img, keep)
    OBVIOUS
  <2>2. /\ KeepsOpen(img, keep) /\ dir = vault_open_volume(img, p)
        /\ plan.new # NoContent /\ off \in Nat /\ need \in Nat /\ block \in Nat
    BY <1>1, <1>3, <1>8, <1>9, <1>11
  <2>3. Free(img, K, off, need, range(0, 0)) /\ Free(img, K, block, BlockLen, range(off, need))
    BY <1>8, <1>9
  <2>4. K = {p} \cup Range(keep) /\ keep \in Seq(Pass) /\ img.size \in Nat /\ ImageOk(img)
    BY <1>1, <1>2, <1>4
  <2>5. SlotOf(img, img.size, plan, Len(d.entries)) \in vault_rewrite(img, img.size, plans).slots
    BY <1>11, <1>14, <1>15, <2>1, <2>2, <2>3, <2>4, AddedMakes
  <2>6. QED
    BY <1>16, <1>17, <2>1, <2>5
<1>19. s.off = off /\ s.pass = p /\ s.data = c
  <2>1. Len(d.entries) = Len(dir.entries) + 1 /\ Len(dir.entries) \in Nat
        /\ d.entries[Len(d.entries)] = e
    BY <1>5, <1>14 DEF Extended, DirOk
  <2>2. Len(d.entries) > 0
    BY <2>1
  <2>3. s = DataSlot(img, plan, Len(d.entries))
    BY <1>17, <2>2 DEF SlotOf
  <2>4. IsNew(plan, Len(d.entries))
    BY <1>11 DEF IsNew
  <2>5. QED
    BY <1>11, <1>14, <2>1, <2>3, <2>4 DEF DataSlot
<1>20. QED
  BY <1>10, <1>18, <1>19

(* First-fit does its work: with one process, when the volumes a command   *)
(* can open leave room for the slot of a new entry and for a directory     *)
(* block, vault_volume_add (vault.c) seals the content at the lowest free  *)
(* offset; neither the collision check of the rewrite nor a block it finds *)
(* no place for refuses it.                                                *)
THEOREM VaultFindsRoom == OneWriter => (Spec => []RoomIsFound)
<1> SUFFICES ASSUME OneWriter PROVE Spec => []RoomIsFound
  OBVIOUS
<1>1. VaultInv => RoomIsFound
  <2> SUFFICES ASSUME VaultInv PROVE RoomIsFound
    OBVIOUS
  <2>1. PICK w : Writer = {w}
    BY DEF OneWriter
  <2> SUFFICES ASSUME NEW keep \in KeepLists, NEW p \in Pass,
                      path # 0, \A x \in Writer : proc[x].pc = "idle",
                      IsInjective(keep), p \notin Range(keep),
                      Opened(vault_open_volume(Current, p)), KeepsOpen(Current, keep),
                      Len(vault_open_volume(Current, p).entries) < MaxVolEntries,
                      NEW c \in Content, NEW n \in Name \ Names(vault_open_volume(Current, p))
               PROVE  RoomServes(p, keep, c, n)
    BY DEF RoomIsFound, RoomServes
  <2>2. Ready
    <3>1. proc[w].pc # "unlinked"
      BY <2>1
    <3>2. QED
      BY <2>1, <3>1, ReadyIs
  <2>3. QED
    BY <2>2, RoomUsed
<1>2. QED
  BY <1>1, VaultInductive, PTL
==============================================================================
