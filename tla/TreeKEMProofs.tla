---------------------------- MODULE TreeKEMProofs ----------------------------
(***************************************************************************)
(* Proofs about TreeKEM for every height of the tree, number of people and *)
(* choice of who commits and to whom mishaps happen.                       *)
(***************************************************************************)
EXTENDS TreeKEM, FiniteSetTheorems, FunctionTheorems, SequenceTheorems, WellFoundedInduction, TLAPS

(* The sealed path secrets of a commit are those of one draw, each hashed  *)
(* as often as its step is high, and the committer's root secret is the    *)
(* one of that draw at the top.                                            *)
EntryOk(entry) ==
    /\ DOMAIN entry.commit.step = 1 .. Depth
    /\ entry.root = [id |-> entry.root.id, h |-> Depth]
    /\ \A h \in 1 .. Depth : \A e \in entry.commit.step[h].enc :
          e.ps = [id |-> entry.root.id, h |-> h]

LogOk ==
    /\ log \in Seq({log[i] : i \in 1 .. Len(log)})
    /\ \A i \in 1 .. Len(log) : /\ EntryOk(log[i])
                                /\ log[i].change.op = "add" =>
                                      /\ log[i].change.who \notin Founder
                                      /\ log[i].change.leaf # 0

(* The functions have the people for their domain, and whoever was not     *)
(* there from the start and has not joined has processed nothing.          *)
PeopleOk ==
    /\ leaf = [p \in People |-> leaf[p]]
    /\ root = [p \in People |-> root[p]]
    /\ epoch \in [People -> Nat]
    /\ \A p \in People : epoch[p] <= Len(log)
    /\ \A p \in People \ Founder : leaf[p] = 0 => epoch[p] = 0 /\ root[p] = None

Agreed ==
    \A p \in People :
        epoch[p] > 0 /\ root[p] # None /\ p \notin forked => root[p] = log[epoch[p]].root

AgreeInv == LogOk /\ PeopleOk /\ Agreed

LEMMA AgreedRoots == AgreeInv => RootsAgree
  BY DEF AgreeInv, Agreed, RootsAgree

(* The tree has at least one leaf: 2^Depth counts the subsets of 1..Depth.  *)
LEMMA LeavesPositive == NLeaves \in Nat \ {0}
<1>0. Depth \in Nat
  BY TreeKEMAssumption
<1>1. IsFiniteSet(1 .. Depth) /\ Cardinality(1 .. Depth) = Depth
  BY <1>0, FS_Interval
<1>2. IsFiniteSet(SUBSET (1 .. Depth)) /\ Cardinality(SUBSET (1 .. Depth)) = 2^Depth
  BY <1>1, FS_SUBSET
<1>3. SUBSET (1 .. Depth) # {}
  OBVIOUS
<1>4. QED
  BY <1>2, <1>3, FS_CardinalityType, FS_EmptySet DEF NLeaves

(* A set of numbers has a lowest one.                                      *)
LEMMA Lowest ==
    ASSUME NEW S \in SUBSET Nat, S # {}
    PROVE  (CHOOSE h \in S : \A k \in S : h <= k) \in S
<1>1. PICK h \in S : \A k \in S : ~ (<<k, h>> \in OpToRel(<, Nat))
  BY NatLessThanWellFounded, WFMin
<1>2. ASSUME NEW k \in S PROVE h <= k
  <2>0. k \in Nat /\ h \in Nat
    OBVIOUS
  <2>1. ~ (<<k, h>> \in OpToRel(<, Nat))
    BY <1>1
  <2>2. ~ (k < h)
    BY <2>0, <2>1 DEF OpToRel
  <2>3. QED
    BY <2>0, <2>2
<1>3. QED
  BY <1>2

(* The leaf given to a joiner is a leaf of the tree, and not number 0.     *)
LEMMA FreeLeafIsOne ==
    ASSUME NEW t, FreeLeaves(t) # {}
    PROVE  treekem_free_leaf(t) \in Nat \ {0}
<1>1. FreeLeaves(t) \subseteq Nat \ {0}
  BY LeavesPositive DEF FreeLeaves, Leaf
<1>2. QED
  BY <1>1, Lowest DEF treekem_free_leaf

(* treekem_process, when it accepts, derives the root secret of the        *)
(* committer, whatever tree it starts from and whichever box it opens.     *)
LEMMA ProcessRoot ==
    ASSUME NEW entry, EntryOk(entry), NEW t, NEW l,
           treekem_process(t, l, entry.commit).ok
    PROVE  treekem_process(t, l, entry.commit).root = entry.root
<1> DEFINE c    == entry.commit
           t1   == Install(t, c)
           open == OpenSteps(t1, l, c)
           h    == CHOOSE h \in open : \A k \in open : h <= k
           e    == CHOOSE e \in Openable(t1, l, c, h) : TRUE
<1>0. Depth \in Nat
  BY TreeKEMAssumption
<1>1. c.sender_leaf # l /\ open # {}
  BY DEF treekem_process
<1>2. treekem_process(t, l, c).root = RootAbove(e.ps, h)
  BY <1>1 DEF treekem_process
<1>3. open \subseteq 1 .. Depth
  BY DEF OpenSteps, EntryOk
<1>4. open \in SUBSET Nat
  BY <1>0, <1>3
<1>5. h \in open
  BY <1>1, <1>4, Lowest
<1>6. Openable(t1, l, c, h) # {}
  BY <1>5 DEF OpenSteps
<1>7. e \in c.step[h].enc
  BY <1>6 DEF Openable
<1>8. h \in 1 .. Depth /\ e.ps = [id |-> entry.root.id, h |-> h]
  <2>1. h \in 1 .. Depth
    BY <1>3, <1>5
  <2>2. QED
    BY <2>1, <1>7 DEF EntryOk
<1>9. RootAbove(e.ps, h) = [id |-> entry.root.id, h |-> Depth]
  <2> HIDE DEF c, t1, open, h, e
  <2>1. h + (Depth - h) = Depth
    BY <1>0, <1>8
  <2>2. QED
    BY <1>8, <2>1 DEF RootAbove
<1>10. QED
  BY <1>2, <1>9 DEF EntryOk

(* A commit as treekem_commit makes it.                                    *)
LEMMA CommitEntry ==
    ASSUME NEW t, NEW l, NEW id, NEW entry,
           entry.commit = treekem_commit(t, l, id),
           entry.root = [id |-> id, h |-> Depth]
    PROVE  EntryOk(entry)
<1>1. DOMAIN entry.commit.step = 1 .. Depth
  BY DEF treekem_commit
<1>2. ASSUME NEW h \in 1 .. Depth, NEW e \in entry.commit.step[h].enc
      PROVE  e.ps = [id |-> entry.root.id, h |-> h]
  <2>1. e \in seal_ps(t, id, h, PathNode(l, h - 1))
    BY DEF treekem_commit
  <2>2. QED
    BY <2>1 DEF seal_ps
<1>3. QED
  BY <1>1, <1>2 DEF EntryOk

----------------------------------------------------------------------------
LEMMA AgreeInit == Init => AgreeInv
<1> SUFFICES ASSUME Init PROVE AgreeInv
  OBVIOUS
<1>1. LogOk
  BY DEF Init, LogOk
<1>2. PeopleOk
  BY DEF Init, PeopleOk
<1>3. Agreed
  BY DEF Init, Agreed
<1>4. QED
  BY <1>1, <1>2, <1>3 DEF AgreeInv

(* Whoever may commit has a leaf: the first commit is a founder's, and     *)
(* whoever is not one has processed every commit since it joined.          *)
LEMMA CommittersHaveLeaves ==
    ASSUME AgreeInv, NEW p \in People, CanCommit(p), p \notin Founder
    PROVE  leaf[p] # 0
<1>1. SUFFICES ASSUME leaf[p] = 0 PROVE FALSE
  OBVIOUS
<1>2. Len(log) = 0
  BY <1>1 DEF AgreeInv, PeopleOk, CanCommit
<1>3. QED
  BY <1>2 DEF CanCommit, Member, Roster

(* The step that puts a commit into the log.                               *)
LEMMA AgreeCommit ==
    ASSUME AgreeInv, NEW p \in People, NEW change \in Changes(p), Commit(p, change)
    PROVE  AgreeInv'
<1>1. PICK new : /\ log' = Append(log, new)
                 /\ new.commit = treekem_commit(Apply(tree[p], change), leaf[p], fresh)
                 /\ new.root = [id |-> fresh, h |-> Depth]
                 /\ new.change = change
  <2> DEFINE new == [commit  |-> treekem_commit(Apply(tree[p], change), leaf[p], fresh),
                     by      |-> p,
                     change  |-> change,
                     welcome |-> treekem_export(Rekey(Apply(tree[p], change), leaf[p],
                                                      fresh, Depth)),
                     root    |-> [id |-> fresh, h |-> Depth],
                     roster  |->
                       CASE change.op = "none"   -> Roster(Len(log))
                         [] change.op = "remove" -> Roster(Len(log)) \ {change.who}
                         [] change.op = "add"    -> Roster(Len(log)) \cup {change.who}]
  <2>1. log' = Append(log, new)
    BY Zenon DEF Commit
  <2>2. /\ new.commit = treekem_commit(Apply(tree[p], change), leaf[p], fresh)
        /\ new.root = [id |-> fresh, h |-> Depth]
        /\ new.change = change
    OBVIOUS
  <2> HIDE DEF new
  <2>3. QED
    BY <2>1, <2>2
<1>2. /\ root' = [root EXCEPT ![p] = [id |-> fresh, h |-> Depth]]
      /\ epoch' = [epoch EXCEPT ![p] = Len(log) + 1]
      /\ leaf' = leaf /\ forked' = forked /\ CanCommit(p)
  BY DEF Commit
<1>3. /\ Len(log) \in Nat
      /\ Len(log') = Len(log) + 1
      /\ \A i \in 1 .. Len(log) : log'[i] = log[i]
      /\ log'[Len(log) + 1] = new
      /\ log' \in Seq({log[i] : i \in 1 .. Len(log)} \cup {new})
  <2> DEFINE S == {log[i] : i \in 1 .. Len(log)} \cup {new}
  <2>1. log \in Seq(S) /\ new \in S
    <3>1. log \in Seq({log[i] : i \in 1 .. Len(log)})
      BY DEF AgreeInv, LogOk
    <3>2. QED
      BY <3>1
  <2> HIDE DEF S
  <2>2. QED
    BY <1>1, <2>1 DEF S
<1>4. LogOk'
  <2>1. log' \in Seq({log'[i] : i \in 1 .. Len(log')})
    BY <1>3
  <2>2. EntryOk(new)
    BY <1>1, CommitEntry
  <2>3. new.change.op = "add" => new.change.who \notin Founder /\ new.change.leaf # 0
    <3>1. CASE change.op = "add"
      <4>1. /\ FreeLeaves(tree[p]) # {}
            /\ change \in {[op |-> "add", who |-> q, leaf |-> treekem_free_leaf(tree[p])]
                             : q \in {q \in People :
                                        \A i \in 0 .. Len(log) : q \notin Roster(i)}}
        BY <3>1 DEF Changes, NoChange
      <4>2. PICK q \in People : /\ \A i \in 0 .. Len(log) : q \notin Roster(i)
                                /\ change.who = q
                                /\ change.leaf = treekem_free_leaf(tree[p])
        BY <4>1
      <4>3. q \notin Founder
        BY <1>3, <4>2 DEF Roster
      <4>4. QED
        BY <1>1, <4>1, <4>2, <4>3, FreeLeafIsOne
    <3>2. QED
      BY <1>1, <3>1
  <2>4. ASSUME NEW i \in 1 .. Len(log')
        PROVE  /\ EntryOk(log'[i])
               /\ log'[i].change.op = "add" => /\ log'[i].change.who \notin Founder
                                               /\ log'[i].change.leaf # 0
    <3>1. CASE i = Len(log) + 1
      BY <1>3, <2>2, <2>3, <3>1
    <3>2. CASE i \in 1 .. Len(log)
      BY <1>3, <3>2 DEF AgreeInv, LogOk
    <3>3. QED
      BY <1>3, <3>1, <3>2
  <2>5. QED
    BY <2>1, <2>4 DEF LogOk
<1>5. PeopleOk'
  <2>0. PeopleOk
    BY DEF AgreeInv
  <2>1. leaf' = [q \in People |-> leaf'[q]]
    BY <1>2, <2>0 DEF PeopleOk
  <2>2. root' = [q \in People |-> root'[q]]
    BY <1>2, <2>0 DEF PeopleOk
  <2>3. epoch' \in [People -> Nat]
    BY <1>2, <1>3, <2>0 DEF PeopleOk
  <2>4. ASSUME NEW q \in People PROVE epoch'[q] <= Len(log')
    BY <1>2, <1>3, <2>0 DEF PeopleOk
  <2>5. ASSUME NEW q \in People \ Founder, leaf'[q] = 0
        PROVE  epoch'[q] = 0 /\ root'[q] = None
    <3>1. q # p
      BY <1>2, <2>5, CommittersHaveLeaves
    <3>2. QED
      BY <1>2, <2>0, <2>5, <3>1 DEF PeopleOk
  <2>6. QED
    BY <2>1, <2>2, <2>3, <2>4, <2>5 DEF PeopleOk
<1>6. Agreed'
  <2> SUFFICES ASSUME NEW q \in People, epoch'[q] > 0, root'[q] # None, q \notin forked'
               PROVE  root'[q] = log'[epoch'[q]].root
    BY DEF Agreed
  <2>1. CASE q = p
    BY <1>1, <1>2, <1>3, <2>1 DEF AgreeInv, PeopleOk
  <2>2. CASE q # p
    <3>1. epoch'[q] = epoch[q] /\ root'[q] = root[q]
      BY <1>2, <2>2 DEF AgreeInv, PeopleOk
    <3>2. epoch[q] \in 1 .. Len(log)
      BY <1>3, <3>1 DEF AgreeInv, PeopleOk
    <3>3. root[q] = log[epoch[q]].root
      BY <1>2, <3>1 DEF AgreeInv, Agreed
    <3>4. QED
      BY <1>3, <3>1, <3>2, <3>3
  <2>3. QED
    BY <2>1, <2>2
<1>7. QED
  BY <1>4, <1>5, <1>6 DEF AgreeInv

(* The log is kept by every other step.                                    *)
LEMMA LogKept == ASSUME LogOk, log' = log PROVE LogOk'
  BY DEF LogOk

(* A commit that fails or loses the race leaves a root secret of its own   *)
(* behind only at somebody it counts as forked.                            *)
LEMMA AgreeCommitLost ==
    ASSUME AgreeInv, NEW p \in People, NEW k \in 0 .. Depth, CommitLost(p, k)
    PROVE  AgreeInv'
<1>1. /\ leaf' = leaf /\ epoch' = epoch /\ log' = log /\ CanCommit(p)
      /\ \/ root' = [root EXCEPT ![p] = [id |-> fresh, h |-> Depth]] /\ forked' = forked \cup {p}
         \/ root' = root /\ forked' = forked
  BY DEF CommitLost
<1>2. LogOk'
  BY <1>1, LogKept DEF AgreeInv
<1>3. PeopleOk'
  BY <1>1, CommittersHaveLeaves DEF AgreeInv, PeopleOk
<1>4. Agreed'
  BY <1>1 DEF AgreeInv, PeopleOk, Agreed
<1>5. QED
  BY <1>2, <1>3, <1>4 DEF AgreeInv

(* A joiner has a leaf, has processed nothing and holds no root secret.    *)
LEMMA AgreeJoin ==
    ASSUME AgreeInv, NEW q \in People, Join(q)
    PROVE  AgreeInv'
<1>1. PICK i \in 1 .. Len(log) :
          /\ log[i].change.op = "add"
          /\ log[i].change.who = q
          /\ leaf' = [leaf EXCEPT ![q] = log[i].change.leaf]
          /\ epoch' = [epoch EXCEPT ![q] = i - 1]
  BY DEF Join
<1>2. leaf[q] = 0 /\ root' = root /\ log' = log /\ forked' = forked
  BY DEF Join
<1>3. LogOk'
  BY <1>2, LogKept DEF AgreeInv
<1>4. q \notin Founder /\ log[i].change.leaf # 0
  BY <1>1 DEF AgreeInv, LogOk
<1>5. root[q] = None
  BY <1>2, <1>4 DEF AgreeInv, PeopleOk
<1>6. Len(log) \in Nat
  BY DEF AgreeInv, LogOk
<1>7. PeopleOk'
  <2>0. PeopleOk
    BY DEF AgreeInv
  <2>1. leaf' = [p \in People |-> leaf'[p]]
    BY <1>1, <2>0 DEF PeopleOk
  <2>2. root' = [p \in People |-> root'[p]]
    BY <1>2, <2>0 DEF PeopleOk
  <2>3. epoch' \in [People -> Nat]
    BY <1>1, <1>6, <2>0 DEF PeopleOk
  <2>4. ASSUME NEW p \in People PROVE epoch'[p] <= Len(log')
    BY <1>1, <1>2, <1>6, <2>0 DEF PeopleOk
  <2>5. ASSUME NEW p \in People \ Founder, leaf'[p] = 0
        PROVE  epoch'[p] = 0 /\ root'[p] = None
    <3>1. p # q
      BY <1>1, <1>4, <2>0, <2>5 DEF PeopleOk
    <3>2. QED
      BY <1>1, <1>2, <2>0, <2>5, <3>1 DEF PeopleOk
  <2>6. QED
    BY <2>1, <2>2, <2>3, <2>4, <2>5 DEF PeopleOk
<1>8. Agreed'
  BY <1>1, <1>2, <1>5 DEF AgreeInv, PeopleOk, Agreed
<1>9. QED
  BY <1>3, <1>7, <1>8 DEF AgreeInv

(* The root secret somebody has after treekem_process accepted a commit of *)
(* the log, the epoch it is then in, and everybody else as before.         *)
Accepted(p, i) ==
    /\ i \in 1 .. Len(log)
    /\ log' = log
    /\ leaf' = leaf
    /\ leaf[p] # 0
    /\ root' = [root EXCEPT ![p] = log[i].root]
    /\ epoch' = [epoch EXCEPT ![p] = i]

LEMMA AgreeAccepted ==
    ASSUME AgreeInv, NEW p \in People, NEW i, Accepted(p, i), forked' = forked \ {p}
    PROVE  AgreeInv'
<1>1. LogOk'
  BY LogKept DEF AgreeInv, Accepted
<1>2. Len(log) \in Nat /\ i \in Nat /\ i <= Len(log) /\ i > 0
  BY DEF AgreeInv, LogOk, Accepted
<1>3. PeopleOk'
  <2>0. PeopleOk
    BY DEF AgreeInv
  <2>1. leaf' = [q \in People |-> leaf'[q]]
    BY <2>0 DEF PeopleOk, Accepted
  <2>2. root' = [q \in People |-> root'[q]]
    BY <2>0 DEF PeopleOk, Accepted
  <2>3. epoch' \in [People -> Nat]
    BY <1>2, <2>0 DEF PeopleOk, Accepted
  <2>4. ASSUME NEW q \in People PROVE epoch'[q] <= Len(log')
    BY <1>2, <2>0 DEF PeopleOk, Accepted
  <2>5. ASSUME NEW q \in People \ Founder, leaf'[q] = 0
        PROVE  epoch'[q] = 0 /\ root'[q] = None
    <3>1. q # p
      BY <2>5 DEF Accepted
    <3>2. QED
      BY <2>0, <2>5, <3>1 DEF PeopleOk, Accepted
  <2>6. QED
    BY <2>1, <2>2, <2>3, <2>4, <2>5 DEF PeopleOk
<1>4. Agreed'
  <2> SUFFICES ASSUME NEW q \in People, epoch'[q] > 0, root'[q] # None, q \notin forked'
               PROVE  root'[q] = log'[epoch'[q]].root
    BY DEF Agreed
  <2>1. CASE q = p
    BY <2>1 DEF AgreeInv, PeopleOk, Accepted
  <2>2. CASE q # p
    BY <2>2 DEF AgreeInv, PeopleOk, Agreed, Accepted
  <2>3. QED
    BY <2>1, <2>2
<1>5. QED
  BY <1>1, <1>3, <1>4 DEF AgreeInv

(* Nothing but the tree changes when treekem_process refuses.              *)
LEMMA AgreeRefused ==
    ASSUME AgreeInv, leaf' = leaf, root' = root, epoch' = epoch, log' = log,
           forked' = forked
    PROVE  AgreeInv'
<1>1. LogOk'
  BY LogKept DEF AgreeInv
<1>2. PeopleOk'
  BY DEF AgreeInv, PeopleOk
<1>3. Agreed'
  BY DEF AgreeInv, Agreed
<1>4. QED
  BY <1>1, <1>2, <1>3 DEF AgreeInv

(* The next commit of the log is processed.                                *)
LEMMA AgreeProcess ==
    ASSUME AgreeInv, NEW p \in People, Process(p)
    PROVE  AgreeInv'
<1> DEFINE r == ProcessUpcoming(p, Upcoming(p).commit)
<1>1. /\ leaf[p] # 0 /\ epoch[p] < Len(log) /\ leaf' = leaf /\ log' = log
      /\ root' = IF r.ok THEN [root EXCEPT ![p] = r.root] ELSE root
      /\ epoch' = IF r.ok THEN [epoch EXCEPT ![p] = epoch[p] + 1] ELSE epoch
      /\ forked' = IF r.ok THEN forked \ {p} ELSE forked
  BY DEF Process
<1>2. epoch[p] + 1 \in 1 .. Len(log)
  BY <1>1 DEF AgreeInv, LogOk, PeopleOk
<1>3. r.ok => r.root = log[epoch[p] + 1].root
  <2>1. EntryOk(Upcoming(p))
    BY <1>2 DEF AgreeInv, LogOk, Upcoming
  <2>2. QED
    BY <2>1, ProcessRoot DEF ProcessUpcoming, Upcoming
<1> HIDE DEF r
<1>4. CASE r.ok
  <2>1. Accepted(p, epoch[p] + 1)
    BY <1>1, <1>2, <1>3, <1>4 DEF Accepted
  <2>2. QED
    BY <1>1, <1>4, <2>1, AgreeAccepted
<1>5. CASE ~ r.ok
  BY <1>1, <1>5, AgreeRefused
<1>6. QED
  BY <1>4, <1>5

(* The commit processed last arrives again.                                *)
LEMMA AgreeRedeliver ==
    ASSUME AgreeInv, NEW p \in People, Redeliver(p)
    PROVE  AgreeInv'
<1> DEFINE r == treekem_process(tree[p], leaf[p], log[epoch[p]].commit)
<1>1. /\ leaf[p] # 0 /\ epoch[p] > 0 /\ leaf' = leaf /\ log' = log /\ epoch' = epoch
      /\ root' = IF r.ok THEN [root EXCEPT ![p] = r.root] ELSE root
      /\ forked' = IF r.ok THEN forked \ {p} ELSE forked
  BY DEF Redeliver
<1>2. epoch[p] \in 1 .. Len(log)
  BY <1>1 DEF AgreeInv, LogOk, PeopleOk
<1>3. r.ok => r.root = log[epoch[p]].root
  BY <1>2, ProcessRoot DEF AgreeInv, LogOk
<1> HIDE DEF r
<1>4. CASE r.ok
  <2>1. epoch' = [epoch EXCEPT ![p] = epoch[p]]
    BY <1>1 DEF AgreeInv, PeopleOk
  <2>2. Accepted(p, epoch[p])
    BY <1>1, <1>2, <1>3, <1>4, <2>1 DEF Accepted
  <2>3. QED
    BY <1>1, <1>4, <2>2, AgreeAccepted
<1>5. CASE ~ r.ok
  BY <1>1, <1>5, AgreeRefused
<1>6. QED
  BY <1>4, <1>5

LEMMA AgreeStep == AgreeInv /\ [Next]_vars => AgreeInv'
<1> SUFFICES ASSUME AgreeInv, [Next]_vars PROVE AgreeInv'
  OBVIOUS
<1>1. ASSUME NEW p \in People, NEW change \in Changes(p), Commit(p, change)
      PROVE  AgreeInv'
  BY <1>1, AgreeCommit
<1>2. ASSUME NEW p \in People, NEW k \in 0 .. Depth, CommitLost(p, k)
      PROVE  AgreeInv'
  BY <1>2, AgreeCommitLost
<1>3. ASSUME NEW p \in People, Join(p) PROVE AgreeInv'
  BY <1>3, AgreeJoin
<1>4. ASSUME NEW p \in People, Process(p) PROVE AgreeInv'
  BY <1>4, AgreeProcess
<1>5. ASSUME NEW p \in People, ProcessGarbled(p) PROVE AgreeInv'
  BY <1>5, AgreeRefused DEF ProcessGarbled
<1>6. ASSUME NEW p \in People, Redeliver(p) PROVE AgreeInv'
  BY <1>6, AgreeRedeliver
<1>7. ASSUME NEW p \in People, Compromise(p) PROVE AgreeInv'
  BY <1>7, AgreeRefused DEF Compromise
<1>8. CASE UNCHANGED vars
  BY <1>8, AgreeRefused DEF vars
<1>9. QED
  BY <1>1, <1>2, <1>3, <1>4, <1>5, <1>6, <1>7, <1>8 DEF Next

(* Whoever has processed commit i of the log, in a tree of any height that *)
(* any number of commits, changes of membership, lost commits, damaged and *)
(* repeated deliveries have shaped, holds the root secret its committer    *)
(* derived: treekem_process never derives another one.                     *)
THEOREM ProcessedRootsAgree == Spec => []RootsAgree
<1>1. Init => AgreeInv
  BY AgreeInit
<1>2. AgreeInv /\ [Next]_vars => AgreeInv'
  BY AgreeStep
<1>3. AgreeInv => RootsAgree
  BY AgreedRoots
<1>4. QED
  BY <1>1, <1>2, <1>3, PTL DEF Spec

(***************************************************************************)
(* Tree arithmetic: powers of two, paths and siblings.                     *)
(***************************************************************************)
(* What holds of 0 and of the successor of each, for a set.                *)
LEMMA AllNumbers ==
    ASSUME NEW S, 0 \in S, \A n \in Nat : n \in S => n + 1 \in S
    PROVE  Nat \subseteq S
<1> SUFFICES ASSUME Nat \ S # {} PROVE FALSE
  OBVIOUS
<1>1. PICK h0 \in Nat \ S : \A k \in Nat \ S : ~ (<<k, h0>> \in OpToRel(<, Nat))
  BY NatLessThanWellFounded, WFMin
<1>2. h0 # 0 /\ h0 \in Nat
  BY <1>1
<1>3. h0 - 1 \in Nat /\ (h0 - 1) + 1 = h0 /\ h0 - 1 < h0
  BY <1>2
<1>4. h0 - 1 \in Nat \ S
  BY <1>1, <1>3
<1>5. <<h0 - 1, h0>> \in OpToRel(<, Nat)
  BY <1>2, <1>3 DEF OpToRel
<1>6. QED
  BY <1>1, <1>4, <1>5

LEMMA PowerPositive ==
    ASSUME NEW n \in Nat
    PROVE  2 ^ n \in Nat \ {0}
<1>1. IsFiniteSet(1 .. n) /\ Cardinality(1 .. n) = n
  BY FS_Interval
<1>2. IsFiniteSet(SUBSET (1 .. n)) /\ Cardinality(SUBSET (1 .. n)) = 2^n
  BY <1>1, FS_SUBSET
<1>3. SUBSET (1 .. n) # {}
  OBVIOUS
<1>4. QED
  BY <1>2, <1>3, FS_CardinalityType, FS_EmptySet

(* The subsets of 1..n+1 are those of 1..n, with n+1 or without.           *)
LEMMA PowerStep ==
    ASSUME NEW n \in Nat
    PROVE  2 ^ (n + 1) = 2 * 2 ^ n
<1> DEFINE A == SUBSET (1 .. n)
           B == {X \cup {n + 1} : X \in A}
           f == [X \in A |-> X \cup {n + 1}]
<1>1. IsFiniteSet(1 .. n) /\ Cardinality(1 .. n) = n
      /\ IsFiniteSet(1 .. n + 1) /\ Cardinality(1 .. n + 1) = n + 1
  BY FS_Interval
<1>2. IsFiniteSet(A) /\ Cardinality(A) = 2 ^ n
  BY <1>1, FS_SUBSET
<1>3. Cardinality(SUBSET (1 .. n + 1)) = 2 ^ (n + 1)
  BY <1>1, FS_SUBSET
<1>4. \A X \in A : n + 1 \notin X
  OBVIOUS
<1>5. f \in Bijection(A, B)
  <2>1. \A X, Y \in A : f[X] = f[Y] => X = Y
    <3> SUFFICES ASSUME NEW X \in A, NEW Y \in A, X \cup {n + 1} = Y \cup {n + 1}
                 PROVE  X = Y
      OBVIOUS
    <3>1. QED
      BY <1>4
  <2>2. f \in [A -> B]
    OBVIOUS
  <2>3. \A Z \in B : \E X \in A : f[X] = Z
    OBVIOUS
  <2>4. QED
    BY <2>1, <2>2, <2>3, Fun_IsBij
<1>6. IsFiniteSet(B) /\ Cardinality(B) = 2 ^ n
  BY <1>2, <1>5, FS_Bijection DEF ExistsBijection
<1>7. A \cap B = {}
  BY <1>4
<1>8. SUBSET (1 .. n + 1) = A \cup B
  <2>1. A \cup B \subseteq SUBSET (1 .. n + 1)
    <3>1. 1 .. n \subseteq 1 .. n + 1 /\ n + 1 \in 1 .. n + 1
      OBVIOUS
    <3>2. QED
      BY <3>1
  <2>2. ASSUME NEW X \in SUBSET (1 .. n + 1) PROVE X \in A \cup B
    <3>1. CASE n + 1 \in X
      <4>1. X \ {n + 1} \in A /\ X = (X \ {n + 1}) \cup {n + 1}
        BY <3>1
      <4>2. QED
        BY <4>1
    <3>2. CASE n + 1 \notin X
      BY <3>2
    <3>3. QED
      BY <3>1, <3>2
  <2>3. QED
    BY <2>1, <2>2
<1> HIDE DEF A, B
<1>9. Cardinality(A \cup B) = 2 ^ n + 2 ^ n - Cardinality(A \cap B)
  BY <1>2, <1>6, FS_Union
<1>10. Cardinality(A \cap B) = 0
  BY <1>7, FS_EmptySet
<1> DEFINE p == 2 ^ n
           q == 2 ^ (n + 1)
<1>11. p \in Nat
  BY PowerPositive
<1>12. q = p + p - 0
  BY <1>3, <1>8, <1>9, <1>10
<1> HIDE DEF p, q
<1>13. q = 2 * p
  BY <1>11, <1>12
<1>14. QED
  BY <1>13 DEF p, q

LEMMA PowerGrows ==
    ASSUME NEW a \in Nat, NEW b \in Nat, a < b
    PROVE  2 * 2 ^ a <= 2 ^ b
<1> DEFINE S == {d \in Nat : 2 * 2 ^ a <= 2 ^ (a + 1 + d)}
<1>1. 2 ^ (a + 1) = 2 * 2 ^ a /\ 2 ^ a \in Nat
  BY PowerStep, PowerPositive
<1>2. 0 \in S
  <2> DEFINE x == a + 1
  <2>1. x + 0 = x
    OBVIOUS
  <2> HIDE DEF x
  <2>2. 2 * 2 ^ a \in Nat /\ 2 ^ x = 2 * 2 ^ a
    BY <1>1 DEF x
  <2>3. 2 * 2 ^ a <= 2 ^ (x + 0)
    <3> DEFINE u == 2 ^ a
               v == 2 ^ x
    <3>1. u \in Nat /\ v = 2 * u
      BY <1>1, <2>2
    <3> HIDE DEF u, v
    <3>2. 2 * u <= v
      BY <3>1
    <3>3. QED
      BY <2>1, <3>2 DEF u, v
  <2>4. QED
    BY <2>3 DEF x
<1>3. ASSUME NEW d \in Nat, d \in S PROVE d + 1 \in S
  <2> DEFINE x == a + 1 + d
             u == 2 ^ x
             v == 2 ^ (x + 1)
             w == 2 ^ a
  <2>1. x \in Nat /\ a + 1 + (d + 1) = x + 1
    OBVIOUS
  <2>2. v = 2 * u /\ u \in Nat /\ w \in Nat
    <3> HIDE DEF x
    <3>1. QED
      BY <2>1, PowerStep, PowerPositive
  <2>3. 2 * w <= u
    BY <1>3
  <2> HIDE DEF u, v, w
  <2>4. 2 * w <= v
    BY <2>2, <2>3
  <2> HIDE DEF x
  <2>5. 2 * 2 ^ a <= 2 ^ (a + 1 + (d + 1))
    BY <2>1, <2>4 DEF v, w
  <2>6. QED
    BY <2>5
<1> HIDE DEF S
<1>4. Nat \subseteq S
  BY <1>2, <1>3, AllNumbers
<1>5. b - a - 1 \in Nat /\ a + 1 + (b - a - 1) = b
  OBVIOUS
<1>6. b - a - 1 \in S
  BY <1>4, <1>5
<1>7. 2 * 2 ^ a <= 2 ^ (a + 1 + (b - a - 1))
  BY <1>6 DEF S
<1>8. QED
  BY <1>5, <1>7

(* The nodes at height d from below the root's: 2^d .. 2*2^d - 1.          *)
InLevel(x, d) == 2 ^ d <= x /\ x < 2 * 2 ^ d

LEMMA OneLevel ==
    ASSUME NEW x \in Nat, NEW a \in Nat, NEW b \in Nat, InLevel(x, a), InLevel(x, b)
    PROVE  a = b
<1> DEFINE u == 2 ^ a
           v == 2 ^ b
<1>1. u \in Nat /\ v \in Nat /\ u <= x /\ x < 2 * u /\ v <= x /\ x < 2 * v
  BY PowerPositive DEF InLevel
<1>2. (a < b => 2 * u <= v) /\ (b < a => 2 * v <= u)
  BY PowerGrows
<1> HIDE DEF u, v
<1>3. ~(a < b) /\ ~(b < a)
  BY <1>1, <1>2
<1>4. QED
  BY <1>3

LEMMA Quotient ==
    ASSUME NEW l \in Nat, NEW a \in Nat \ {0}
    PROVE  /\ l \div a \in Nat
           /\ (l \div a) \div 2 = l \div (2 * a)
  OBVIOUS

(* A step towards the root halves the index.                               *)
LEMMA PathUp ==
    ASSUME NEW l \in Nat, NEW h \in Nat
    PROVE  /\ PathNode(l, h) \in Nat
           /\ PathNode(l, 0) = l
           /\ PathNode(l, h + 1) = PathNode(l, h) \div 2
<1> DEFINE a == 2 ^ h
           b == 2 ^ (h + 1)
<1>1. a \in Nat \ {0} /\ b = 2 * a
  BY PowerPositive, PowerStep
<1>2. PathNode(l, h) = l \div a /\ PathNode(l, h + 1) = l \div b
  BY DEF PathNode
<1>3. 2 ^ 0 = 1
  OBVIOUS
<1>4. PathNode(l, 0) = l
  <2>1. PathNode(l, 0) = l \div (2 ^ 0)
    BY DEF PathNode
  <2>2. PathNode(l, 0) = l \div 1
    BY <1>3, <2>1
  <2>3. QED
    BY <2>2
<1> HIDE DEF a, b
<1>5. l \div a \in Nat /\ (l \div a) \div 2 = l \div b
  BY <1>1, Quotient
<1>6. QED
  BY <1>2, <1>4, <1>5

(* Two paths that have met stay together.                                  *)
LEMMA PathsMerge ==
    ASSUME NEW l \in Nat, NEW s \in Nat, NEW h \in Nat, PathNode(l, h) = PathNode(s, h),
           NEW k \in Nat, h <= k
    PROVE  PathNode(l, k) = PathNode(s, k)
<1> DEFINE S == {d \in Nat : PathNode(l, h + d) = PathNode(s, h + d)}
<1>1. 0 \in S
  OBVIOUS
<1>2. ASSUME NEW d \in Nat, d \in S PROVE d + 1 \in S
  <2>1. h + d \in Nat /\ h + (d + 1) = (h + d) + 1
    OBVIOUS
  <2>2. PathNode(l, h + d) = PathNode(s, h + d)
    BY <1>2
  <2>3. PathNode(l, (h + d) + 1) = PathNode(s, (h + d) + 1)
    BY <2>1, <2>2, PathUp
  <2>4. QED
    BY <2>1, <2>3
<1> HIDE DEF S
<1>3. Nat \subseteq S
  BY <1>1, <1>2, AllNumbers
<1>4. k - h \in Nat /\ h + (k - h) = k
  OBVIOUS
<1>5. k - h \in S
  BY <1>3, <1>4
<1>6. QED
  BY <1>4, <1>5 DEF S

LEMMA DepthType == Depth \in Nat \ {0}
  BY TreeKEMAssumption

LEMMA LeafType == \A l \in Leaf : l \in Nat /\ l >= 1 /\ l \in Node
<1>1. NLeaves \in Nat \ {0}
  BY LeavesPositive
<1>2. QED
  BY <1>1 DEF Leaf, Node

(* A path climbs one level at each step, from the leaves' to the root's.   *)
LEMMA PathLevel ==
    ASSUME NEW l \in Leaf, NEW h \in 0 .. Depth
    PROVE  InLevel(PathNode(l, h), Depth - h)
<1> DEFINE S == {k \in Nat : k <= Depth => InLevel(PathNode(l, k), Depth - k)}
<1>0. Depth \in Nat /\ l \in Nat /\ h \in Nat /\ h <= Depth
  BY DepthType, LeafType
<1>1. 0 \in S
  <2>1. Depth - 0 = Depth /\ PathNode(l, 0) = l
    BY <1>0, PathUp
  <2> DEFINE p == 2 ^ Depth
  <2>2. p \in Nat \ {0} /\ p = NLeaves
    BY <1>0, PowerPositive DEF NLeaves
  <2>3. l \in p .. (2 * p - 1)
    BY <2>2 DEF Leaf
  <2> HIDE DEF p
  <2>4. p <= l /\ l < 2 * p
    BY <1>0, <2>2, <2>3
  <2>5. InLevel(l, Depth)
    BY <2>4 DEF InLevel, p
  <2>6. QED
    BY <2>1, <2>5
<1>2. ASSUME NEW k \in Nat, k \in S PROVE k + 1 \in S
  <2> SUFFICES ASSUME k + 1 <= Depth PROVE InLevel(PathNode(l, k + 1), Depth - (k + 1))
    OBVIOUS
  <2> DEFINE d == Depth - (k + 1)
             x == PathNode(l, k)
             y == PathNode(l, k + 1)
             u == 2 ^ d
             v == 2 ^ (d + 1)
  <2>1. d \in Nat /\ Depth - k = d + 1 /\ k <= Depth
    BY <1>0
  <2>2. x \in Nat /\ y = x \div 2
    BY <1>0, PathUp
  <2>3. v = 2 * u /\ u \in Nat \ {0}
    <3> HIDE DEF d
    <3>1. QED
      BY <2>1, PowerStep, PowerPositive
  <2>4. v <= x /\ x < 2 * v
    BY <1>2, <2>1 DEF InLevel
  <2> HIDE DEF x, y, u, v
  <2>5. u <= y /\ y < 2 * u
    BY ONLY <2>2, <2>3, <2>4
  <2>6. QED
    BY <2>5 DEF InLevel, u, y
<1> HIDE DEF S
<1>3. Nat \subseteq S
  BY <1>1, <1>2, AllNumbers
<1>4. QED
  BY <1>0, <1>3 DEF S

(* A node is on one level only, so paths meet at the same height.          *)
LEMMA SameHeight ==
    ASSUME NEW l \in Leaf, NEW s \in Leaf, NEW h \in 0 .. Depth, NEW k \in 0 .. Depth,
           PathNode(l, h) = PathNode(s, k)
    PROVE  h = k
<1>1. /\ Depth \in Nat /\ l \in Nat /\ s \in Nat /\ h \in Nat /\ k \in Nat
      /\ h <= Depth /\ k <= Depth
  BY DepthType, LeafType
<1>2. InLevel(PathNode(l, h), Depth - h) /\ InLevel(PathNode(l, h), Depth - k)
  BY PathLevel
<1>3. PathNode(l, h) \in Nat /\ Depth - h \in Nat /\ Depth - k \in Nat
  BY <1>1, PathUp
<1>4. Depth - h = Depth - k
  BY ONLY <1>2, <1>3, OneLevel
<1>5. QED
  BY <1>1, <1>4

LEMMA PathTop ==
    ASSUME NEW l \in Leaf
    PROVE  /\ PathNode(l, Depth) = 1
           /\ \A h \in 0 .. Depth : PathNode(l, h) \in Node
           /\ \A h \in 0 .. Depth - 1 : PathNode(l, h) >= 2
<1>0. Depth \in Nat \ {0} /\ l \in Nat
  BY DepthType, LeafType
<1>1. PathNode(l, Depth) = 1
  <2>1. InLevel(PathNode(l, Depth), 0)
    <3>1. Depth - Depth = 0 /\ Depth \in 0 .. Depth
      BY <1>0
    <3>2. InLevel(PathNode(l, Depth), Depth - Depth)
      BY <3>1, PathLevel
    <3>3. QED
      BY <3>1, <3>2
  <2>2. 2 ^ 0 = 1
    OBVIOUS
  <2>3. 1 <= PathNode(l, Depth) /\ PathNode(l, Depth) < 2
    BY <2>1, <2>2 DEF InLevel
  <2>4. QED
    BY <1>0, <2>3, PathUp
<1>2. ASSUME NEW h \in 0 .. Depth
      PROVE  PathNode(l, h) \in Node /\ (h < Depth => PathNode(l, h) >= 2)
  <2> DEFINE x == PathNode(l, h)
             d == Depth - h
             u == 2 ^ d
             p == 2 ^ Depth
             e == 2 ^ 0
  <2>0. h \in Nat /\ h <= Depth
    BY <1>0
  <2>1. x \in Nat /\ h \in Nat /\ d \in Nat /\ (h # 0 => d < Depth) /\ (h < Depth => 0 < d)
    <3>1. x \in Nat
      BY <1>0, <2>0, PathUp
    <3>2. QED
      BY <1>0, <2>0, <3>1
  <2>2. u \in Nat \ {0} /\ p \in Nat \ {0} /\ p = NLeaves /\ e = 1
    <3> HIDE DEF d
    <3>1. QED
      BY <1>0, <2>1, PowerPositive DEF NLeaves
  <2>3. u <= x /\ x < 2 * u
    BY PathLevel DEF InLevel
  <2>4. h # 0 => 2 * u <= p
    <3> HIDE DEF d
    <3>1. QED
      BY <1>0, <2>1, PowerGrows
  <2>5. h = 0 => u = p
    <3>1. h = 0 => d = Depth
      BY <1>0
    <3> HIDE DEF d
    <3>2. QED
      BY <3>1
  <2>6. h < Depth => 2 * e <= u
    <3> HIDE DEF d
    <3>1. QED
      BY <2>1, PowerGrows
  <2> HIDE DEF x, d, u, p, e
  <2>7. x >= 1 /\ x <= 2 * p - 1 /\ (h < Depth => x >= 2)
    BY ONLY <2>1, <2>2, <2>3, <2>4, <2>5, <2>6
  <2>8. QED
    BY <2>1, <2>2, <2>7 DEF Node, x
<1>3. QED
  BY <1>0, <1>1, <1>2

(* A leaf is above no leaf but itself.                                     *)
LEMMA LeafAbove ==
    ASSUME NEW k \in Leaf, NEW l \in Leaf
    PROVE  is_ancestor(k, l) <=> k = l
<1>1. Depth \in Nat /\ 0 \in 0 .. Depth /\ PathNode(k, 0) = k /\ PathNode(l, 0) = l
  BY DepthType, LeafType, PathUp
<1>2. ASSUME is_ancestor(k, l) PROVE k = l
  <2>1. PICK h \in 0 .. Depth : PathNode(l, h) = k
    BY <1>2 DEF is_ancestor
  <2>2. h = 0
    BY <1>1, <2>1, SameHeight
  <2>3. QED
    BY <1>1, <2>1, <2>2
<1>3. ASSUME k = l PROVE is_ancestor(k, l)
  BY <1>1, <1>3 DEF is_ancestor
<1>4. QED
  BY <1>2, <1>3

LEMMA SiblingIs ==
    ASSUME NEW v \in Nat, v >= 2
    PROVE  /\ sibling(v) \in Nat /\ sibling(v) >= 2 /\ sibling(v) # v
           /\ sibling(v) \div 2 = v \div 2
           /\ \A a \in Nat : a \div 2 = v \div 2 /\ a # v => a = sibling(v)
  BY DEF sibling

LEMMA SiblingLevel ==
    ASSUME NEW v \in Nat, v >= 2, NEW d \in Nat, InLevel(v, d + 1)
    PROVE  InLevel(sibling(v), d + 1)
<1> DEFINE u == 2 ^ d
           p == 2 ^ (d + 1)
<1>1. u \in Nat /\ p = 2 * u /\ p <= v /\ v < 2 * p
  BY PowerPositive, PowerStep DEF InLevel
<1> HIDE DEF u, p
<1>2. p <= sibling(v) /\ sibling(v) < 2 * p
  BY ONLY <1>1, v \in Nat, v >= 2 DEF sibling
<1>3. QED
  BY <1>2 DEF InLevel, p

(* Where the sibling of a node on the path of s is above the leaf l, the   *)
(* path of l has gone through it, and from the next node on the two paths  *)
(* are one.                                                                *)
LEMMA PathSibling ==
    ASSUME NEW s \in Leaf, NEW l \in Leaf, NEW h \in 1 .. Depth,
           is_ancestor(sibling(PathNode(s, h - 1)), l)
    PROVE  /\ PathNode(l, h - 1) = sibling(PathNode(s, h - 1))
           /\ PathNode(l, h - 1) # PathNode(s, h - 1)
           /\ \A k \in h .. Depth : PathNode(l, k) = PathNode(s, k)
<1> DEFINE g == h - 1
           v == PathNode(s, g)
           w == sibling(v)
<1>0. /\ Depth \in Nat /\ l \in Nat /\ s \in Nat /\ g \in Nat /\ g <= Depth - 1
      /\ g \in 0 .. Depth /\ g \in 0 .. Depth - 1 /\ h = g + 1
  BY DepthType, LeafType
<1> HIDE DEF g
<1>1. v \in Nat /\ v >= 2
  BY <1>0, PathUp, PathTop
<1>2. PICK k \in 0 .. Depth : PathNode(l, k) = w
  BY <1>0 DEF is_ancestor, g
<1>3. InLevel(v, Depth - g) /\ InLevel(w, Depth - k)
  BY <1>0, <1>2, PathLevel
<1>4. InLevel(w, Depth - g)
  <2> DEFINE d == Depth - g - 1
  <2>1. d \in Nat /\ Depth - g = d + 1
    BY <1>0
  <2> HIDE DEF d, v
  <2>2. InLevel(v, d + 1)
    BY <1>3, <2>1
  <2>3. InLevel(w, d + 1)
    BY <1>1, <2>1, <2>2, SiblingLevel
  <2>4. QED
    BY <2>1, <2>3
<1>5. w \in Nat /\ w # v /\ w \div 2 = v \div 2
  BY <1>1, SiblingIs
<1>6. k = g
  <2>1. Depth - k \in Nat /\ Depth - g \in Nat
    BY <1>0
  <2>2. Depth - k = Depth - g
    BY ONLY <1>3, <1>4, <1>5, <2>1, OneLevel
  <2>3. QED
    BY <1>0, <2>2
<1>7. PathNode(l, g) = w
  BY <1>2, <1>6
<1>8. PathNode(l, h) = PathNode(s, h)
  BY <1>0, <1>5, <1>7, PathUp
<1>9. ASSUME NEW k0 \in h .. Depth PROVE PathNode(l, k0) = PathNode(s, k0)
  BY <1>0, <1>8, PathsMerge
<1>10. QED
  BY <1>5, <1>7, <1>9 DEF g

(* The paths of two leaves meet below some node: there is a height at      *)
(* which one has gone through the sibling of the other's node.             *)
LEMMA PathsMeet ==
    ASSUME NEW s \in Leaf, NEW l \in Leaf, s # l
    PROVE  \E h \in 1 .. Depth : is_ancestor(sibling(PathNode(s, h - 1)), l)
<1> DEFINE S == {h \in Nat : h <= Depth /\ PathNode(l, h) = PathNode(s, h)}
<1>0. Depth \in Nat /\ l \in Nat /\ s \in Nat
  BY DepthType, LeafType
<1>1. Depth \in S
  BY <1>0, PathTop
<1>2. \E a \in S : \A b \in S : a <= b
  <2>1. PICK a \in S : \A b \in S : ~ (<<b, a>> \in OpToRel(<, Nat))
    BY <1>1, NatLessThanWellFounded, WFMin
  <2>2. ASSUME NEW b \in S PROVE a <= b
    <3>1. a \in Nat /\ b \in Nat
      OBVIOUS
    <3>2. ~(b < a)
      BY <2>1, <3>1 DEF OpToRel
    <3>3. QED
      BY <3>1, <3>2
  <2>3. QED
    BY <2>2
<1>3. PICK a \in S : \A b \in S : a <= b
  BY <1>2
<1>4. a \in Nat /\ a <= Depth /\ PathNode(l, a) = PathNode(s, a)
  OBVIOUS
<1>5. a # 0
  BY <1>0, <1>4, PathUp
<1> DEFINE g == a - 1
<1>6. g \in Nat /\ a = g + 1 /\ a \in 1 .. Depth /\ g \in 0 .. Depth - 1 /\ g < a /\ g <= Depth
      /\ g \in 0 .. Depth
  BY <1>0, <1>4, <1>5
<1> HIDE DEF g
<1>7. PathNode(l, g) # PathNode(s, g)
  <2>1. g \notin S
    BY <1>3, <1>6
  <2>2. QED
    BY <1>6, <2>1
<1>8. PathNode(l, g) \div 2 = PathNode(s, g) \div 2 /\ PathNode(l, g) \in Nat
      /\ PathNode(s, g) \in Nat /\ PathNode(s, g) >= 2
  <2>1. PathNode(l, g + 1) = PathNode(s, g + 1)
    BY <1>4, <1>6
  <2>2. PathNode(s, g) >= 2
    BY <1>6, PathTop
  <2>3. QED
    BY <1>0, <1>6, <2>1, <2>2, PathUp
<1>9. PathNode(l, g) = sibling(PathNode(s, g))
  BY <1>7, <1>8, SiblingIs
<1>10. is_ancestor(sibling(PathNode(s, g)), l)
  BY <1>6, <1>9 DEF is_ancestor
<1>11. QED
  BY <1>6, <1>10 DEF g

(* Everything above a node above l is above l.                             *)
Under(r, v) == \A l \in Leaf : is_ancestor(r, l) => is_ancestor(v, l)

LEMMA ChildrenUnder ==
    ASSUME NEW v \in Nat, v >= 1, v < NLeaves
    PROVE  /\ Under(2 * v, v) /\ Under(2 * v + 1, v)
           /\ \A l \in Leaf : is_ancestor(v, l) =>
                 is_ancestor(2 * v, l) \/ is_ancestor(2 * v + 1, l)
<1>0. Depth \in Nat /\ NLeaves \in Nat /\ \A l \in Leaf : l \in Nat /\ l >= NLeaves
  BY DepthType, LeafType, LeavesPositive DEF Leaf
<1>1. ASSUME NEW c \in Nat, c \div 2 = v, c >= 2 PROVE Under(c, v)
  <2> SUFFICES ASSUME NEW l \in Leaf, is_ancestor(c, l) PROVE is_ancestor(v, l)
    BY DEF Under
  <2>1. PICK h \in 0 .. Depth : PathNode(l, h) = c
    BY DEF is_ancestor
  <2>2. h # Depth
    BY <1>1, <2>1, PathTop
  <2>3. h \in Nat /\ h + 1 \in 0 .. Depth
    BY <1>0, <2>2
  <2>4. PathNode(l, h + 1) = v
    BY <1>0, <1>1, <2>1, <2>3, PathUp
  <2>5. QED
    BY <2>3, <2>4 DEF is_ancestor
<1>2. ASSUME NEW l \in Leaf, is_ancestor(v, l)
      PROVE  is_ancestor(2 * v, l) \/ is_ancestor(2 * v + 1, l)
  <2>1. PICK h \in 0 .. Depth : PathNode(l, h) = v
    BY <1>2 DEF is_ancestor
  <2>2. h # 0
    BY <1>0, <2>1, PathUp
  <2> DEFINE g == h - 1
  <2>3. g \in Nat /\ h = g + 1 /\ g \in 0 .. Depth
    BY <1>0, <2>2
  <2> HIDE DEF g
  <2>4. PathNode(l, g) \in Nat /\ PathNode(l, g) \div 2 = v
    BY <1>0, <2>1, <2>3, PathUp
  <2>5. PathNode(l, g) = 2 * v \/ PathNode(l, g) = 2 * v + 1
    BY <2>4
  <2>6. QED
    BY <2>3, <2>5 DEF is_ancestor
<1>3. 2 * v \in Nat /\ (2 * v) \div 2 = v /\ 2 * v >= 2
      /\ 2 * v + 1 \in Nat /\ (2 * v + 1) \div 2 = v /\ 2 * v + 1 >= 2
  OBVIOUS
<1>4. QED
  BY <1>1, <1>2, <1>3

(***************************************************************************)
(* resolution: the nodes it returns for v are populated and below v, and   *)
(* below v every populated leaf has one of them above it.                  *)
(***************************************************************************)
Resolved(t, v, R) ==
    /\ \A r \in R : r \in Node /\ t[r].pub # None /\ Under(r, v)
    /\ \A l \in Leaf : is_ancestor(v, l) /\ t[l].pub # None => \E r \in R : is_ancestor(r, l)

ResBody(t, f, v) ==
    IF t[v].pub # None THEN {v}
    ELSE IF v >= NLeaves THEN {}
    ELSE f[2 * v] \cup f[2 * v + 1]

(* The recursive definition defines a function: it calls itself on greater *)
(* indices only, so it is built from the highest index down.               *)
LEMMA ResolutionIs ==
    ASSUME NEW t
    PROVE  \A v \in Node : resolution(t)[v] = ResBody(t, resolution(t), v)
<1> DEFINE M == 2 * NLeaves - 1
           Rec(f, k) == \A v \in Node : v > M - k => f[v] = ResBody(t, f, v)
           S == {k \in Nat : \E f : f = [v \in Node |-> f[v]] /\ Rec(f, k)}
           Whole(f) == f = [v \in Node |-> ResBody(t, f, v)]
<1>0. NLeaves \in Nat /\ NLeaves >= 1 /\ Node = 1 .. M /\ M \in Nat
  BY LeavesPositive DEF Node
<1>1. 0 \in S
  <2> DEFINE f == [v \in Node |-> {}]
  <2>1. f = [v \in Node |-> f[v]] /\ Rec(f, 0)
    BY <1>0
  <2> HIDE DEF f
  <2>2. QED
    BY <2>1
<1>2. ASSUME NEW k \in Nat, k \in S PROVE k + 1 \in S
  <2>1. PICK f : f = [v \in Node |-> f[v]] /\ Rec(f, k)
    BY <1>2
  <2> DEFINE b == ResBody(t, f, M - k)
             g == [v \in Node |-> IF v = M - k THEN b ELSE f[v]]
  <2>2. ASSUME NEW v \in Node, v > M - (k + 1) PROVE g[v] = ResBody(t, g, v)
    <3>1. v \in Nat /\ v >= 1 /\ v <= M
      BY <1>0
    <3>2. v < NLeaves => /\ 2 * v \in Node /\ 2 * v + 1 \in Node
                         /\ 2 * v # M - k /\ 2 * v + 1 # M - k
      BY <1>0, <2>2, <3>1
    <3>3. v < NLeaves => g[2 * v] = f[2 * v] /\ g[2 * v + 1] = f[2 * v + 1]
      BY <3>2
    <3>4. NLeaves \in Nat /\ (v < NLeaves \/ v >= NLeaves)
      BY <1>0, <3>1
    <3>5. ResBody(t, g, v) = ResBody(t, f, v)
      <4> HIDE DEF g
      <4>1. CASE v >= NLeaves
        BY <4>1 DEF ResBody
      <4>2. CASE v < NLeaves
        BY <3>3, <4>2 DEF ResBody
      <4>3. QED
        BY <3>4, <4>1, <4>2
    <3>6. g[v] = ResBody(t, f, v)
      <4> HIDE DEF b
      <4>1. CASE v = M - k
        BY <4>1 DEF b
      <4>2. CASE v # M - k
        <5>1. v > M - k
          BY <1>0, <2>2, <3>1, <4>2
        <5>2. QED
          BY <2>1, <4>2, <5>1
      <4>3. QED
        BY <4>1, <4>2
    <3>7. QED
      BY <3>5, <3>6
  <2>3. g = [v \in Node |-> g[v]]
    OBVIOUS
  <2> HIDE DEF g
  <2>4. Rec(g, k + 1)
    BY <2>2
  <2> HIDE DEF Rec
  <2>5. QED
    BY <2>3, <2>4
<1>3. M \in S
  <2> HIDE DEF S
  <2>1. QED
    BY <1>0, <1>1, <1>2, AllNumbers
<1>4. PICK f : f = [v \in Node |-> f[v]] /\ Rec(f, M)
  BY <1>3
<1>5. \A v \in Node : f[v] = ResBody(t, f, v)
  BY <1>0, <1>4
<1>6. Whole(f)
  BY <1>4, <1>5
<1> DEFINE w == CHOOSE f0 : Whole(f0)
<1>7. resolution(t) = w
  BY DEF resolution, ResBody
<1>8. Whole(w)
  <2> HIDE DEF Whole
  <2>1. QED
    BY <1>6
<1> HIDE DEF w
<1>9. QED
  BY <1>7, <1>8

LEMMA ResolutionCovers ==
    ASSUME NEW t, NEW v \in Node
    PROVE  Resolved(t, v, resolution(t)[v])
<1> DEFINE f == resolution(t)
           M == 2 * NLeaves - 1
           S == {k \in Nat : \A u \in Node : u > M - k => Resolved(t, u, f[u])}
<1>0. NLeaves \in Nat /\ NLeaves >= 1 /\ Node = 1 .. M /\ M \in Nat
      /\ Leaf = NLeaves .. M
  BY LeavesPositive DEF Node, Leaf
<1>1. \A u \in Node : f[u] = ResBody(t, f, u)
  BY ResolutionIs
<1> HIDE DEF f
<1>2. 0 \in S
  BY <1>0
<1>3. ASSUME NEW k \in Nat, k \in S PROVE k + 1 \in S
  <2> SUFFICES ASSUME NEW u \in Node, u > M - (k + 1) PROVE Resolved(t, u, f[u])
    OBVIOUS
  <2>0. u \in Nat /\ u >= 1 /\ u <= M
    BY <1>0
  <2>1. CASE t[u].pub # None
    <3>1. f[u] = {u}
      BY <1>1, <2>1 DEF ResBody
    <3>2. QED
      BY <2>1, <3>1 DEF Resolved, Under
  <2>2. CASE t[u].pub = None /\ u >= NLeaves
    <3>1. f[u] = {}
      BY <1>1, <2>2 DEF ResBody
    <3>2. u \in Leaf
      BY <1>0, <2>0, <2>2
    <3>3. \A l \in Leaf : is_ancestor(u, l) => l = u
      BY <3>2, LeafAbove
    <3>4. QED
      BY <2>2, <3>1, <3>3 DEF Resolved
  <2>3. CASE t[u].pub = None /\ ~(u >= NLeaves)
    <3>1. f[u] = f[2 * u] \cup f[2 * u + 1]
      BY <1>1, <2>3 DEF ResBody
    <3>2. u < NLeaves /\ 2 * u \in Node /\ 2 * u + 1 \in Node
          /\ 2 * u > M - k /\ 2 * u + 1 > M - k
      BY <1>0, <2>0, <2>3
    <3>3. Resolved(t, 2 * u, f[2 * u]) /\ Resolved(t, 2 * u + 1, f[2 * u + 1])
      BY <1>3, <3>2
    <3>4. /\ Under(2 * u, u) /\ Under(2 * u + 1, u)
          /\ \A l \in Leaf : is_ancestor(u, l) =>
                is_ancestor(2 * u, l) \/ is_ancestor(2 * u + 1, l)
      BY <2>0, <3>2, ChildrenUnder
    <3> DEFINE a == 2 * u
               b == 2 * u + 1
    <3> HIDE DEF a, b
    <3>5. /\ Resolved(t, a, f[a]) /\ Resolved(t, b, f[b]) /\ f[u] = f[a] \cup f[b]
          /\ Under(a, u) /\ Under(b, u)
          /\ \A l \in Leaf : is_ancestor(u, l) => is_ancestor(a, l) \/ is_ancestor(b, l)
      BY <3>1, <3>3, <3>4 DEF a, b
    <3>6. \A r \in f[u] : r \in Node /\ t[r].pub # None /\ Under(r, u)
      BY <3>5 DEF Resolved, Under
    <3>7. ASSUME NEW l \in Leaf, is_ancestor(u, l), t[l].pub # None
          PROVE  \E r \in f[u] : is_ancestor(r, l)
      BY <3>5, <3>7 DEF Resolved
    <3>8. QED
      BY <3>6, <3>7 DEF Resolved
  <2>4. QED
    BY <2>1, <2>2, <2>3
<1> HIDE DEF S
<1>4. M + 1 \in S
  BY <1>0, <1>2, <1>3, AllNumbers
<1>5. v > M - (M + 1)
  BY <1>0
<1>6. QED
  BY <1>4, <1>5 DEF S, f

(***************************************************************************)
(* What the log holds.  Public(i, v) is the key of node v in the tree after *)
(* the first i commits, read back from the Welcome of the last one.        *)
(***************************************************************************)
Sender(i) == log[i].commit.sender_leaf
IdOf(i) == log[i].commit.leaf_pub.id
ChangeOf(i) == log[i].change

Public(i, v) ==
    IF i = 0 THEN IF v \in Leaf THEN LeafKey(v - NLeaves) ELSE None
    ELSE treekem_import(log[i].welcome, 0, None)[v].pub

Added(i, p) == ChangeOf(i).op = "add" /\ ChangeOf(i).who = p
Removed(i, p) == ChangeOf(i).op = "remove" /\ ChangeOf(i).who = p

(* The nodes a change of membership replaces, and what it puts there.      *)
Touched(change, v) == change.op # "none" /\ is_ancestor(v, change.leaf)

Changed(change, v, key) ==
    IF ~ Touched(change, v) THEN key
    ELSE IF change.op = "add" /\ v = change.leaf THEN LeafKey(change.who)
    ELSE None

(* The leaf of a founder is fixed; anybody else's is the one it was added  *)
(* with.                                                                   *)
HasLeaf(p, l) ==
    \/ p \in Founder /\ l = NLeaves + p
    \/ \E i \in 1 .. Len(log) : Added(i, p) /\ ChangeOf(i).leaf = l

Height(l, v) == CHOOSE h \in 0 .. Depth : PathNode(l, h) = v

(* A commit sent from leaf s with the path secrets of draw id; a damaged   *)
(* one has this form too.                                                  *)
Shaped(c, s, id) ==
    /\ s \in Leaf
    /\ c = [sender_leaf |-> s,
            leaf_pub    |-> [id |-> id, h |-> 0],
            step        |-> [h \in 1 .. Depth |->
                               [node |-> PathNode(s, h),
                                pub  |-> [id |-> id, h |-> h],
                                enc  |-> c.step[h].enc]]]

BoxesOf(c, id) ==
    \A h \in 1 .. Depth : \A e \in c.step[h].enc :
        e = [recipient |-> e.recipient, to |-> e.to, ps |-> [id |-> id, h |-> h]]

(* The boxes of a commit: sealed to keys of the tree the commit leads to,  *)
(* outside the committer's path, and openable by every populated leaf      *)
(* under the sibling they are sealed for.                                  *)
BoxesOk(i) ==
    \A h \in 1 .. Depth :
        LET sib == sibling(PathNode(Sender(i), h - 1))
            enc == log[i].commit.step[h].enc
        IN  /\ \A e \in enc : /\ e.recipient \in Node
                              /\ Under(e.recipient, sib)
                              /\ e.to = Public(i, e.recipient)
                              /\ e.to # None
            /\ \A l \in Leaf : is_ancestor(sib, l) /\ Public(i, l) # None =>
                  \E e \in enc : is_ancestor(e.recipient, l)

ChangeOk(i) ==
    LET change == ChangeOf(i)
    IN  /\ change.op = "none" => /\ change.who = -1
                                 /\ log[i].roster = Roster(i - 1)
        /\ change.op = "remove" => /\ change.who \in Roster(i - 1)
                                   /\ HasLeaf(change.who, change.leaf)
                                   /\ log[i].roster = Roster(i - 1) \ {change.who}
        /\ change.op = "add" => /\ \A j \in 0 .. i - 1 : change.who \notin Roster(j)
                                /\ change.who \in People
                                /\ change.leaf \in Leaf
                                /\ Public(i - 1, change.leaf) = None
                                /\ log[i].roster = Roster(i - 1) \cup {change.who}
        /\ change.op \in {"none", "remove", "add"}

CommitOk(i) ==
    LET x == log[i]
        c == x.commit
    IN  /\ x.by \in People /\ x.by \in Roster(i - 1) /\ x.by # x.change.who
        /\ HasLeaf(x.by, Sender(i))
        /\ IdOf(i) \in Nat /\ NumPeople <= IdOf(i) /\ IdOf(i) < fresh
        /\ \A j \in 1 .. i - 1 : IdOf(j) < IdOf(i)
        /\ Shaped(c, Sender(i), IdOf(i)) /\ BoxesOf(c, IdOf(i))
        /\ x.root = [id |-> IdOf(i), h |-> Depth]
        /\ \A v \in Node :
              Public(i, v) = IF is_ancestor(v, Sender(i))
                             THEN [id |-> IdOf(i), h |-> Height(Sender(i), v)]
                             ELSE Changed(x.change, v, Public(i - 1, v))

ChainOk ==
    /\ fresh \in Nat /\ NumPeople <= fresh
    /\ \A i \in 1 .. Len(log) : CommitOk(i) /\ ChangeOk(i) /\ BoxesOk(i)

(* Members of the group have populated leaves of their own.                *)
SeatsOk ==
    \A i \in 0 .. Len(log) : \A p \in Roster(i), l \in Leaf :
        HasLeaf(p, l) => /\ Public(i, l) # None
                         /\ \A q \in Roster(i) : HasLeaf(q, l) => q = p

(***************************************************************************)
(* What each member's own tree holds.                                      *)
(***************************************************************************)
JoinedOk ==
    /\ tree = [p \in People |-> tree[p]]
    /\ \A p \in Founder : leaf[p] # 0
    /\ \A p \in People : leaf[p] # 0 => leaf[p] \in Leaf /\ HasLeaf(p, leaf[p])
    /\ \A p \in People, i \in 1 .. Len(log) :
          /\ leaf[p] # 0 /\ Added(i, p) => epoch[p] >= i - 1
          /\ log[i].by = p => leaf[p] # 0 /\ i <= epoch[p]

(* The members whose view is in step with the log: never re-keyed by a     *)
(* lost commit, and in the group after the next commit they process.       *)
InStep(p) ==
    /\ leaf[p] # 0
    /\ p \notin diverged
    /\ p \in Roster(IF epoch[p] < Len(log) THEN epoch[p] + 1 ELSE epoch[p])

(* The nodes the next commit replaces anyway: a damaged delivery may have  *)
(* left anything there.                                                    *)
Replaced(i, v) == is_ancestor(v, Sender(i)) \/ Touched(ChangeOf(i), v)

Upset(i, v) == i < Len(log) /\ Replaced(i + 1, v)

(* Tree t of p, with leaf l, after i commits.                              *)
ViewAt(t, i, l, p) ==
    /\ \A v \in Node :
          ~ Upset(i, v) =>
             /\ ~ is_ancestor(v, l) => t[v].pub = Public(i, v)
             /\ is_ancestor(v, l) /\ Public(i, v) # None => t[v].priv = Public(i, v)
    /\ t[l].pub # None
    /\ i < Len(log) /\ Added(i + 1, p) => t[l].priv = LeafKey(p)

ViewOk(p) == ViewAt(tree[p], epoch[p], leaf[p], p)

ViewsOk == \A p \in People : InStep(p) => ViewOk(p)

ViewInv == AgreeInv /\ ChainOk /\ SeatsOk /\ JoinedOk /\ ViewsOk

(***************************************************************************)
(* What keys somebody holds: its own leaf key as it was drawn, and keys of *)
(* nodes above its leaf.                                                   *)
(***************************************************************************)
OwnKey(key, p, l, upto) ==
    \/ key = LeafKey(p)
    \/ /\ key.id \in Nat /\ NumPeople <= key.id /\ key.id < fresh
       /\ \A j \in 1 .. Len(log) :
             key.id = IdOf(j) => /\ j <= upto
                                 /\ key.h \in 0 .. Depth
                                 /\ is_ancestor(PathNode(Sender(j), key.h), l)

HeldBy(p) ==
    /\ \A v \in Node :
          tree[p][v].priv # None => /\ leaf[p] # 0
                                    /\ is_ancestor(v, leaf[p])
                                    /\ OwnKey(tree[p][v].priv, p, leaf[p], Len(log))
    /\ root[p] # None => leaf[p] # 0 /\ OwnKey(root[p], p, leaf[p], Len(log))

HoldingsOk == \A p \in People : HeldBy(p)

LeakOk ==
    /\ leak.at \in 0 .. Len(log)
    /\ leak.who # -1 =>
       /\ leak.who \in People
       /\ leaf[leak.who] # 0
       /\ \A key \in leak.keys : OwnKey(key, leak.who, leaf[leak.who], leak.at)

KeysInv == ViewInv /\ HoldingsOk /\ LeakOk

(***************************************************************************)
(* The model's operators, node by node.                                    *)
(***************************************************************************)
LEMMA AboveSelf == \A l \in Leaf : is_ancestor(l, l)
<1> SUFFICES ASSUME NEW l \in Leaf PROVE is_ancestor(l, l)
  OBVIOUS
<1>1. PathNode(l, 0) = l
  BY LeafType, PathUp
<1>2. 0 \in 0 .. Depth
  BY DepthType
<1>3. QED
  BY <1>1, <1>2 DEF is_ancestor

LEMMA AbovePath ==
    ASSUME NEW l \in Leaf, NEW h \in 0 .. Depth
    PROVE  /\ is_ancestor(PathNode(l, h), l)
           /\ Height(l, PathNode(l, h)) = h
<1>1. is_ancestor(PathNode(l, h), l)
  BY DEF is_ancestor
<1>2. /\ Height(l, PathNode(l, h)) \in 0 .. Depth
      /\ PathNode(l, Height(l, PathNode(l, h))) = PathNode(l, h)
  BY DEF Height
<1>3. QED
  BY <1>1, <1>2, SameHeight

LEMMA HeightIs ==
    ASSUME NEW l \in Leaf, NEW v, is_ancestor(v, l)
    PROVE  /\ Height(l, v) \in 0 .. Depth
           /\ PathNode(l, Height(l, v)) = v
  BY DEF Height, is_ancestor

(* What a change of membership does to a tree.                             *)
LEMMA ApplyAt ==
    ASSUME NEW t, NEW change, change.op \in {"none", "remove", "add"},
           change.op = "add" => change.leaf \in Leaf,
           NEW v \in Node
    PROVE  /\ ~ Touched(change, v) => Apply(t, change)[v] = t[v]
           /\ Touched(change, v) => Apply(t, change)[v].priv = None
           /\ Apply(t, change)[v].pub = Changed(change, v, t[v].pub)
<1>1. CASE change.op = "none"
  BY <1>1 DEF Apply, Touched, Changed
<1>2. CASE change.op = "remove"
  <2>1. Apply(t, change) = treekem_blank_leaf(t, change.leaf)
    BY <1>2 DEF Apply
  <2>2. Apply(t, change)[v] = IF is_ancestor(v, change.leaf) THEN Blank ELSE t[v]
    BY <2>1 DEF treekem_blank_leaf
  <2>3. QED
    BY <1>2, <2>2 DEF Touched, Changed, Blank
<1>3. CASE change.op = "add"
  <2>1. Apply(t, change) = treekem_add_leaf(t, change.leaf, LeafKey(change.who))
    BY <1>3 DEF Apply
  <2>2. Apply(t, change)[v] =
            IF v = change.leaf THEN [pub |-> LeafKey(change.who), priv |-> None]
            ELSE IF is_ancestor(v, change.leaf) THEN Blank ELSE t[v]
    BY <2>1 DEF treekem_add_leaf
  <2>3. is_ancestor(change.leaf, change.leaf)
    BY <1>3, AboveSelf
  <2>4. QED
    BY <1>3, <2>2, <2>3 DEF Touched, Changed, Blank
<1>4. QED
  BY <1>1, <1>2, <1>3

LEMMA RekeyAt ==
    ASSUME NEW t, NEW l \in Leaf, NEW id, NEW k \in 0 .. Depth, NEW v \in Node
    PROVE  Rekey(t, l, id, k)[v] =
               IF is_ancestor(v, l) /\ Height(l, v) <= k
               THEN [pub  |-> [id |-> id, h |-> Height(l, v)],
                     priv |-> [id |-> id, h |-> Height(l, v)]]
               ELSE t[v]
<1> DEFINE hit == \E h \in 0 .. k : PathNode(l, h) = v
           hh  == CHOOSE h \in 0 .. k : PathNode(l, h) = v
<1>1. Rekey(t, l, id, k)[v] =
          IF hit THEN [pub |-> [id |-> id, h |-> hh], priv |-> [id |-> id, h |-> hh]]
          ELSE t[v]
  BY DEF Rekey
<1>2. hit => hh \in 0 .. k /\ PathNode(l, hh) = v
  OBVIOUS
<1> HIDE DEF hh
<1>3. hit => is_ancestor(v, l) /\ Height(l, v) <= k /\ hh = Height(l, v)
  <2> SUFFICES ASSUME hit PROVE is_ancestor(v, l) /\ Height(l, v) <= k /\ hh = Height(l, v)
    OBVIOUS
  <2>1. hh \in 0 .. Depth /\ hh <= k
    BY <1>2, DepthType
  <2>2. is_ancestor(PathNode(l, hh), l) /\ Height(l, PathNode(l, hh)) = hh
    BY <2>1, AbovePath
  <2>3. QED
    BY <1>2, <2>1, <2>2
<1>4. is_ancestor(v, l) /\ Height(l, v) <= k => hit
  BY HeightIs, DepthType
<1> HIDE DEF hit
<1>5. QED
  BY <1>1, <1>3, <1>4


Reads(c, s, id) ==
    /\ s \in Leaf
    /\ c.sender_leaf = s
    /\ c.leaf_pub = [id |-> id, h |-> 0]
    /\ DOMAIN c.step = 1 .. Depth
    /\ \A h \in 1 .. Depth : /\ c.step[h].node = PathNode(s, h)
                             /\ c.step[h].pub = [id |-> id, h |-> h]

LEMMA ShapedReads ==
    ASSUME NEW c, NEW s, NEW id, Shaped(c, s, id)
    PROVE  Reads(c, s, id)
<1>0. s \in Leaf
  BY DEF Shaped
<1> DEFINE f == [h \in 1 .. Depth |-> [node |-> PathNode(s, h),
                                       pub  |-> [id |-> id, h |-> h],
                                       enc  |-> c.step[h].enc]]
<1>1. c = [sender_leaf |-> s, leaf_pub |-> [id |-> id, h |-> 0], step |-> f]
  BY DEF Shaped
<1>2. \A h \in 1 .. Depth : f[h].node = PathNode(s, h) /\ f[h].pub = [id |-> id, h |-> h]
  OBVIOUS
<1>3. DOMAIN f = 1 .. Depth
  OBVIOUS
<1> HIDE DEF f
<1>4. c.sender_leaf = s /\ c.leaf_pub = [id |-> id, h |-> 0] /\ c.step = f
  BY <1>1
<1>5. QED
  BY <1>0, <1>2, <1>3, <1>4 DEF Reads

LEMMA InstallAt ==
    ASSUME NEW t, NEW c, NEW s, NEW id, Shaped(c, s, id), NEW v \in Node
    PROVE  Install(t, c)[v] =
               IF is_ancestor(v, s)
               THEN [pub |-> [id |-> id, h |-> Height(s, v)], priv |-> None]
               ELSE t[v]
<1>r. Reads(c, s, id)
  BY ShapedReads
<1> DEFINE hit == \E h \in DOMAIN c.step : c.step[h].node = v
           hh  == CHOOSE h \in DOMAIN c.step : c.step[h].node = v
<1>0. s \in Leaf /\ Depth \in Nat
  BY DepthType, <1>r DEF Reads

<1>1. Install(t, c)[v] =
          IF v = s THEN [pub |-> [id |-> id, h |-> 0], priv |-> None]
          ELSE IF hit THEN [pub |-> c.step[hh].pub, priv |-> None]
          ELSE t[v]
  BY <1>r DEF Install, Reads
<1>2. hit => hh \in 1 .. Depth /\ PathNode(s, hh) = v /\ c.step[hh].pub = [id |-> id, h |-> hh]
  BY <1>r DEF Reads
<1>3. CASE v = s
  <2>1. is_ancestor(v, s) /\ Height(s, v) = 0
    BY <1>0, <1>3, AbovePath, PathUp, LeafType
  <2>2. QED
    BY <1>1, <1>3, <2>1
<1>4. CASE v # s /\ hit
  <2> HIDE DEF hh
  <2>1. hh \in 0 .. Depth
    BY <1>0, <1>2, <1>4
  <2>2. is_ancestor(v, s) /\ Height(s, v) = hh
    BY <1>0, <1>2, <1>4, <2>1, AbovePath
  <2>3. QED
    BY <1>1, <1>2, <1>4, <2>2
<1>5. CASE v # s /\ ~ hit
  <2>1. ASSUME is_ancestor(v, s) PROVE FALSE
    <3>1. Height(s, v) \in 0 .. Depth /\ PathNode(s, Height(s, v)) = v
      BY <1>0, <2>1, HeightIs
    <3>2. Height(s, v) # 0
      BY <1>0, <1>5, <3>1, PathUp, LeafType
    <3>3. Height(s, v) \in 1 .. Depth
      BY <1>0, <3>1, <3>2
    <3>4. Height(s, v) \in DOMAIN c.step /\ c.step[Height(s, v)].node = v
      <4>1. DOMAIN c.step = 1 .. Depth
        BY <1>r DEF Reads
      <4>2. \A h \in 1 .. Depth : c.step[h].node = PathNode(s, h)
        BY <1>r DEF Reads
      <4>3. QED
        BY <3>1, <3>3, <4>1, <4>2
    <3>5. QED
      BY <1>5, <3>4
  <2>2. QED
    BY <1>1, <1>5, <2>1
<1>6. QED
  BY <1>3, <1>4, <1>5

Rederived(t, s, id, h, v) ==
    IF is_ancestor(v, s) /\ h <= Height(s, v)
    THEN [pub  |-> [id |-> id, h |-> Height(s, v)],
          priv |-> [id |-> id, h |-> Height(s, v)]]
    ELSE t[v]

LEMMA RederiveAt ==
    ASSUME NEW t, NEW c, NEW s, NEW id, Shaped(c, s, id), NEW h \in 1 .. Depth,
           NEW v \in Node
    PROVE  Rederive(t, c, h, [id |-> id, h |-> h])[v] = Rederived(t, s, id, h, v)
<1>r. Reads(c, s, id)
  BY ShapedReads
<1> DEFINE hit == \E k \in h .. Depth : c.step[k].node = v
           kk  == CHOOSE k \in h .. Depth : c.step[k].node = v
           ps  == [id |-> id, h |-> h]
           key == [id |-> ps.id, h |-> ps.h + (kk - h)]
<1>0. s \in Leaf /\ Depth \in Nat /\ h \in Nat /\ h >= 1 /\ h <= Depth
  BY DepthType, <1>r DEF Reads
<1>1. Rederive(t, c, h, ps)[v] = IF hit THEN [pub |-> key, priv |-> key] ELSE t[v]
  BY DEF Rederive
<1>2. hit => kk \in h .. Depth /\ c.step[kk].node = v
  OBVIOUS
<1> HIDE DEF kk
<1>3. hit => /\ kk \in 0 .. Depth /\ h <= kk /\ PathNode(s, kk) = v
             /\ key = [id |-> id, h |-> kk]
  <2> SUFFICES ASSUME hit
               PROVE  /\ kk \in 0 .. Depth /\ h <= kk /\ PathNode(s, kk) = v
                      /\ key = [id |-> id, h |-> kk]
    OBVIOUS
  <2>1. kk \in 1 .. Depth /\ h <= kk /\ kk \in Nat
    BY <1>0, <1>2
  <2>2. PathNode(s, kk) = v
    BY <1>2, <2>1, <1>r DEF Reads
  <2>3. h + (kk - h) = kk
    BY <1>0, <2>1
  <2>4. QED
    BY <1>0, <2>1, <2>2, <2>3
<1> HIDE DEF key
<1>4. hit => is_ancestor(v, s) /\ Height(s, v) = kk
  BY <1>0, <1>3, AbovePath
<1>5. is_ancestor(v, s) /\ h <= Height(s, v) => hit
  <2> SUFFICES ASSUME is_ancestor(v, s), h <= Height(s, v) PROVE hit
    OBVIOUS
  <2>1. Height(s, v) \in 0 .. Depth /\ PathNode(s, Height(s, v)) = v
    BY <1>0, HeightIs
  <2>2. Height(s, v) \in h .. Depth /\ Height(s, v) \in 1 .. Depth
    BY <1>0, <2>1
  <2>3. QED
    BY <2>1, <2>2, <1>r DEF Reads
<1> HIDE DEF hit
<1>6. QED
  BY <1>1, <1>3, <1>4, <1>5 DEF Rederived

LEMMA ChildAt ==
    ASSUME NEW c, NEW s, NEW id, Shaped(c, s, id), NEW h \in 1 .. Depth
    PROVE  Child(c, h) = PathNode(s, h - 1)
<1>r. Reads(c, s, id)
  BY ShapedReads
<1>0. s \in Leaf /\ Depth \in Nat
  BY DepthType, <1>r DEF Reads
<1>1. CASE h = 1
  BY <1>0, <1>1, PathUp, LeafType, <1>r DEF Child, Reads
<1>2. CASE h # 1
  <2>1. h - 1 \in 1 .. Depth
    BY <1>0, <1>2
  <2>2. QED
    BY <1>2, <2>1, <1>r DEF Child, Reads
<1>3. QED
  BY <1>1, <1>2

(***************************************************************************)
(* The log: who is in the group when, on which leaf.                       *)
(***************************************************************************)
LEMMA LogLength == LogOk => Len(log) \in Nat
  BY DEF LogOk


LEMMA IdsDiffer ==
    ASSUME LogOk, ChainOk, NEW i \in 1 .. Len(log), NEW j \in 1 .. Len(log), IdOf(i) = IdOf(j)
    PROVE  i = j
<1>1. /\ IdOf(i) \in Nat /\ \A k \in 1 .. i - 1 : IdOf(k) < IdOf(i)
      /\ IdOf(j) \in Nat /\ \A k \in 1 .. j - 1 : IdOf(k) < IdOf(j)
  BY DEF ChainOk, CommitOk
<1>2. i \in Nat /\ j \in Nat
  BY LogLength
<1>3. CASE i < j
  <2>1. i \in 1 .. j - 1
    BY <1>2, <1>3
  <2>2. QED
    BY <1>1, <2>1
<1>4. CASE j < i
  <2>1. j \in 1 .. i - 1
    BY <1>2, <1>4
  <2>2. QED
    BY <1>1, <2>1
<1>5. QED
  BY <1>2, <1>3, <1>4

LEMMA RosterAt ==
    ASSUME LogOk, ChainOk, NEW i \in 1 .. Len(log)
    PROVE  /\ i - 1 \in 0 .. Len(log)
           /\ Roster(i) = log[i].roster
           /\ \A p : p \in Roster(i) /\ p \notin Roster(i - 1) => Added(i, p)
           /\ \A p : p \in Roster(i - 1) /\ p \notin Roster(i) => Removed(i, p)
           /\ \A p : Added(i, p) => /\ p \in Roster(i) /\ p \in People
                                    /\ ChangeOf(i).leaf \in Leaf
                                    /\ \A j \in 0 .. i - 1 : p \notin Roster(j)
           /\ \A p : Removed(i, p) => p \notin Roster(i) /\ p \in Roster(i - 1)
<1>1. ChangeOk(i)
  BY DEF ChainOk
<1>2. Len(log) \in Nat /\ i \in Nat /\ i >= 1
  BY LogLength
<1>3. i - 1 \in 0 .. Len(log)
  BY <1>2
<1>4. Roster(i) = log[i].roster
  BY <1>2 DEF Roster
<1>5. \A p : Added(i, p) => /\ p \in Roster(i) /\ p \in People
                            /\ ChangeOf(i).leaf \in Leaf
                            /\ \A j \in 0 .. i - 1 : p \notin Roster(j)
  BY <1>1, <1>4 DEF ChangeOk, Added
<1>6. \A p : Removed(i, p) => p \notin Roster(i) /\ p \in Roster(i - 1)
  BY <1>1, <1>4 DEF ChangeOk, Removed
<1>7. \A p : p \in Roster(i) /\ p \notin Roster(i - 1) => Added(i, p)
  BY <1>1, <1>4 DEF ChangeOk, Added
<1>8. \A p : p \in Roster(i - 1) /\ p \notin Roster(i) => Removed(i, p)
  BY <1>1, <1>4 DEF ChangeOk, Removed
<1>9. QED
  BY <1>3, <1>4, <1>5, <1>6, <1>7, <1>8

LEMMA AddedOnce ==
    ASSUME LogOk, ChainOk, NEW p, NEW i \in 1 .. Len(log), NEW j \in 1 .. Len(log),
           Added(i, p), Added(j, p)
    PROVE  i = j
<1>0. Len(log) \in Nat
  BY LogLength
<1>1. p \in Roster(i) /\ p \in Roster(j)
  BY RosterAt
<1>2. CASE i < j
  <2>1. i \in 0 .. j - 1
    BY <1>0, <1>2
  <2>2. QED
    BY <1>1, <2>1, RosterAt
<1>3. CASE j < i
  <2>1. j \in 0 .. i - 1
    BY <1>0, <1>3
  <2>2. QED
    BY <1>1, <2>1, RosterAt
<1>4. QED
  BY <1>0, <1>2, <1>3

(* Whoever has a leaf has or had a place in the group, and never another   *)
(* leaf.                                                                   *)
LEMMA OneLeaf ==
    ASSUME LogOk, ChainOk, NEW p, NEW l, HasLeaf(p, l)
    PROVE  /\ l \in Leaf
           /\ p \in People
           /\ \E i \in 0 .. Len(log) : p \in Roster(i)
           /\ \A k : HasLeaf(p, k) => k = l
<1>0. Len(log) \in Nat
  BY LogLength
<1>1. \A i \in 1 .. Len(log) : Added(i, p) => p \notin Founder
  <2> SUFFICES ASSUME NEW i \in 1 .. Len(log), Added(i, p) PROVE p \notin Founder
    OBVIOUS
  <2>1. 0 \in 0 .. i - 1
    BY <1>0
  <2>2. QED
    BY <2>1, RosterAt DEF Roster
<1>2. \A i, j \in 1 .. Len(log) : Added(i, p) /\ Added(j, p) => i = j
  BY AddedOnce
<1>3. CASE p \in Founder /\ l = NLeaves + p
  <2>1. NLeaves \in Nat \ {0} /\ NumPeople \in Nat /\ NumPeople >= NLeaves
    BY LeavesPositive, TreeKEMAssumption DEF NLeaves
  <2>2. l \in Leaf /\ p \in People
    BY <1>3, <2>1 DEF Leaf, Founder, People
  <2>3. 0 \in 0 .. Len(log) /\ p \in Roster(0)
    BY <1>0, <1>3 DEF Roster
  <2>4. \A k : HasLeaf(p, k) => k = l
    BY <1>1, <1>3 DEF HasLeaf
  <2>5. QED
    BY <2>2, <2>3, <2>4
<1>4. ASSUME NEW i \in 1 .. Len(log), Added(i, p), ChangeOf(i).leaf = l
      PROVE  /\ l \in Leaf
             /\ p \in People
             /\ \E j \in 0 .. Len(log) : p \in Roster(j)
             /\ \A k : HasLeaf(p, k) => k = l
  <2>1. l \in Leaf /\ p \in People /\ p \in Roster(i) /\ i \in 0 .. Len(log)
    BY <1>0, <1>4, RosterAt
  <2>2. \A k : HasLeaf(p, k) => k = l
    BY <1>1, <1>2, <1>4 DEF HasLeaf
  <2>3. QED
    BY <2>1, <2>2
<1>5. QED
  BY <1>3, <1>4 DEF HasLeaf

(***************************************************************************)
(* treekem_process, node by node: the committer's path gets its new keys,  *)
(* with the private halves of what lies above one's own leaf if a box      *)
(* opened.                                                                 *)
(***************************************************************************)
Installed(t, s, id, v) ==
    IF is_ancestor(v, s)
    THEN [pub |-> [id |-> id, h |-> Height(s, v)], priv |-> None]
    ELSE t[v]

Taken(t, s, id, l, v) ==
    IF is_ancestor(v, s)
    THEN [pub  |-> [id |-> id, h |-> Height(s, v)],
          priv |-> IF is_ancestor(v, l) THEN [id |-> id, h |-> Height(s, v)] ELSE None]
    ELSE t[v]

LEMMA AboveBoth ==
    ASSUME NEW s \in Leaf, NEW l \in Leaf, NEW h \in 1 .. Depth,
           is_ancestor(sibling(PathNode(s, h - 1)), l),
           NEW v, is_ancestor(v, s)
    PROVE  is_ancestor(v, l) <=> h <= Height(s, v)
<1>0. Depth \in Nat /\ h \in Nat /\ h >= 1 /\ h <= Depth /\ s \in Nat /\ l \in Nat
  BY DepthType, LeafType
<1>1. /\ PathNode(l, h - 1) # PathNode(s, h - 1)
      /\ \A k \in h .. Depth : PathNode(l, k) = PathNode(s, k)
  BY PathSibling
<1> DEFINE k == Height(s, v)
<1>2. k \in 0 .. Depth /\ PathNode(s, k) = v
  BY HeightIs
<1> HIDE DEF k
<1>3. ASSUME h <= k PROVE is_ancestor(v, l)
  <2>1. k \in h .. Depth
    BY <1>0, <1>2, <1>3
  <2>2. PathNode(l, k) = v
    BY <1>1, <1>2, <2>1
  <2>3. QED
    BY <1>2, <2>2, AbovePath
<1>4. ASSUME is_ancestor(v, l) PROVE h <= k
  <2>1. Height(l, v) \in 0 .. Depth /\ PathNode(l, Height(l, v)) = v
    BY <1>4, HeightIs
  <2>2. Height(l, v) = k
    BY <1>2, <2>1, SameHeight
  <2>3. CASE k < h
    <3>1. k <= h - 1 /\ k \in Nat /\ h - 1 \in Nat
      BY <1>0, <1>2, <2>3
    <3>2. PathNode(l, h - 1) = PathNode(s, h - 1)
      BY <1>0, <1>2, <2>1, <2>2, <3>1, PathsMerge
    <3>3. QED
      BY <1>1, <3>2
  <2>4. QED
    BY <1>0, <1>2, <2>3
<1>5. QED
  BY <1>3, <1>4 DEF k

Processed(c, s, id, l, t) ==
    LET r    == treekem_process(t, l, c)
        open == OpenSteps(Install(t, c), l, c)
    IN  /\ s = l => ~ r.ok /\ r.tree = t
        /\ s # l => (r.ok <=> open # {})
        /\ s # l /\ ~ r.ok => \A v \in Node : r.tree[v] = Installed(t, s, id, v)
        /\ r.ok => \A v \in Node : r.tree[v] = Taken(t, s, id, l, v)
        /\ r.ok => r.root = [id |-> id, h |-> Depth]

LEMMA ProcessAt ==
    ASSUME NEW c, NEW s, NEW id, Shaped(c, s, id), BoxesOf(c, id),
           NEW l \in Leaf, NEW t
    PROVE  Processed(c, s, id, l, t)
<1>r. Reads(c, s, id)
  BY ShapedReads
<1> DEFINE r    == treekem_process(t, l, c)
           t1   == Install(t, c)
           open == OpenSteps(t1, l, c)
           h    == CHOOSE h \in open : \A k \in open : h <= k
           e    == CHOOSE e \in Openable(t1, l, c, h) : TRUE
<1>0. s \in Leaf /\ Depth \in Nat /\ c.sender_leaf = s
  BY DepthType, <1>r DEF Reads
<1>1. s = l => ~ r.ok /\ r.tree = t
  BY <1>0 DEF treekem_process
<1>2. s # l /\ open = {} => ~ r.ok /\ r.tree = t1
  BY <1>0 DEF treekem_process
<1>3. s # l /\ open # {} => r.ok /\ r.tree = Rederive(t1, c, h, e.ps)
                                 /\ r.root = RootAbove(e.ps, h)
  BY <1>0 DEF treekem_process
<1>4. open # {} => /\ h \in 1 .. Depth
                   /\ is_ancestor(sibling(PathNode(s, h - 1)), l)
                   /\ e.ps = [id |-> id, h |-> h]
  <2> SUFFICES ASSUME open # {}
               PROVE  /\ h \in 1 .. Depth
                      /\ is_ancestor(sibling(PathNode(s, h - 1)), l)
                      /\ e.ps = [id |-> id, h |-> h]
    OBVIOUS
  <2>1. open \subseteq 1 .. Depth
    BY <1>r DEF OpenSteps, Reads
  <2>2. open \in SUBSET Nat
    BY <1>0, <2>1
  <2>3. h \in open
    BY <2>2, Lowest
  <2>4. Openable(t1, l, c, h) # {}
    BY <2>3 DEF OpenSteps
  <2>5. e \in c.step[h].enc /\ is_ancestor(sibling(Child(c, h)), l)
    BY <2>4 DEF Openable
  <2>6. h \in 1 .. Depth
    BY <2>1, <2>3
  <2> HIDE DEF e, h
  <2>7. QED
    BY <2>5, <2>6, ChildAt DEF BoxesOf
<1> HIDE DEF r, t1, open, e, h
<1>5. \A v \in Node : t1[v] = Installed(t, s, id, v)
  BY InstallAt DEF t1, Installed
<1>6. ASSUME s # l, NEW v \in Node
      PROVE  r.tree[v] = IF open = {} THEN Installed(t, s, id, v) ELSE Taken(t, s, id, l, v)
  <2>1. CASE open = {}
    BY <1>2, <1>5, <1>6, <2>1
  <2>2. CASE open # {}
    <3>1. r.tree[v] = IF is_ancestor(v, s) /\ h <= Height(s, v)
                      THEN [pub  |-> [id |-> id, h |-> Height(s, v)],
                            priv |-> [id |-> id, h |-> Height(s, v)]]
                      ELSE t1[v]
      <4>1. r.tree = Rederive(t1, c, h, [id |-> id, h |-> h]) /\ h \in 1 .. Depth
        BY <1>3, <1>4, <1>6, <2>2
      <4>2. Rederive(t1, c, h, [id |-> id, h |-> h])[v] = Rederived(t1, s, id, h, v)
        BY <4>1, RederiveAt
      <4>3. QED
        BY <4>1, <4>2 DEF Rederived
    <3>2. is_ancestor(v, s) => (is_ancestor(v, l) <=> h <= Height(s, v))
      BY <1>0, <1>4, <2>2, AboveBoth
    <3>3. QED
      BY <1>5, <2>2, <3>1, <3>2 DEF Installed, Taken
  <2>3. QED
    BY <2>1, <2>2
<1>7. ASSUME r.ok PROVE r.root = [id |-> id, h |-> Depth]
  <2>1. s # l /\ open # {}
    BY <1>1, <1>2, <1>7
  <2>2. r.root = RootAbove([id |-> id, h |-> h], h) /\ h \in 1 .. Depth
    BY <1>3, <1>4, <2>1
  <2>3. h + (Depth - h) = Depth
    BY <1>0, <2>2
  <2>4. QED
    BY <2>2, <2>3 DEF RootAbove
<1>8. s # l => (r.ok <=> open # {})
  BY <1>2, <1>3
<1>9. s # l /\ ~ r.ok => \A v \in Node : r.tree[v] = Installed(t, s, id, v)
  BY <1>6, <1>8
<1>10. r.ok => \A v \in Node : r.tree[v] = Taken(t, s, id, l, v)
  BY <1>1, <1>6, <1>8
<1>11. QED
  BY <1>1, <1>7, <1>8, <1>9, <1>10 DEF r, open, t1, Processed

(* A box sealed to a key one holds opens.                                  *)
LEMMA BoxOpens ==
    ASSUME NEW c, NEW s, NEW id, Shaped(c, s, id), NEW l \in Leaf, NEW t,
           NEW h \in 1 .. Depth, NEW e \in c.step[h].enc,
           is_ancestor(sibling(PathNode(s, h - 1)), l),
           e.recipient \in Node, is_ancestor(e.recipient, l),
           ~ is_ancestor(e.recipient, s),
           t[e.recipient].priv = e.to, e.to # None
    PROVE  OpenSteps(Install(t, c), l, c) # {}
<1>r. Reads(c, s, id)
  BY ShapedReads
<1>1. Install(t, c)[e.recipient] = t[e.recipient]
  <2>1. \A v \in Node : Install(t, c)[v] = Installed(t, s, id, v)
    BY InstallAt DEF Installed
  <2>2. QED
    BY <2>1 DEF Installed
<1>2. Child(c, h) = PathNode(s, h - 1)
  BY ChildAt
<1>3. e \in Openable(Install(t, c), l, c, h)
  BY <1>1, <1>2 DEF Openable
<1>4. h \in OpenSteps(Install(t, c), l, c)
  BY <1>3, <1>r DEF OpenSteps, Reads
<1>5. QED
  BY <1>4

(* None of the boxes of a damaged commit opens.                            *)
LEMMA GarbledAt ==
    ASSUME NEW c, NEW s, NEW id, Shaped(c, s, id), BoxesOf(c, id), NEW l \in Leaf, NEW t
    PROVE  /\ Shaped(Garbled(c), s, id)
           /\ BoxesOf(Garbled(c), id)
           /\ OpenSteps(Install(t, Garbled(c)), l, Garbled(c)) = {}
<1> DEFINE g == Garbled(c)
<1> DEFINE f == [h \in 1 .. Depth |-> [node |-> PathNode(s, h),
                                       pub  |-> [id |-> id, h |-> h],
                                       enc  |-> c.step[h].enc]]
           bad(e) == [recipient |-> e.recipient, to |-> None, ps |-> e.ps]
           b(h) == {bad(e) : e \in c.step[h].enc}
           k == [h \in 1 .. Depth |-> [node |-> PathNode(s, h),
                                       pub  |-> [id |-> id, h |-> h],
                                       enc  |-> b(h)]]
<1>1. c = [sender_leaf |-> s, leaf_pub |-> [id |-> id, h |-> 0], step |-> f] /\ s \in Leaf
  BY DEF Shaped
<1>2. \A h \in 1 .. Depth : {[e EXCEPT !.to = None] : e \in c.step[h].enc} = b(h)
  <2> SUFFICES ASSUME NEW h \in 1 .. Depth
               PROVE  {[e EXCEPT !.to = None] : e \in c.step[h].enc} = b(h)
    OBVIOUS
  <2> DEFINE none(e) == [e EXCEPT !.to = None]
  <2>1. \A e \in c.step[h].enc : none(e) = bad(e)
    BY DEF BoxesOf
  <2> HIDE DEF none, bad
  <2>2. {none(e) : e \in c.step[h].enc} = {bad(e) : e \in c.step[h].enc}
    BY <2>1
  <2>3. QED
    BY <2>2 DEF none
<1>3. c.step = f
  <2> HIDE DEF f
  <2>1. QED
    BY <1>1
<1>4. g.step = k
  <2>1. g.step = [h \in DOMAIN c.step |->
                    [c.step[h] EXCEPT !.enc = {[e EXCEPT !.to = None] : e \in c.step[h].enc}]]
    <3> DEFINE x == [h \in DOMAIN c.step |->
                    [c.step[h] EXCEPT !.enc = {[e EXCEPT !.to = None] : e \in c.step[h].enc}]]
    <3>1. g = [c EXCEPT !.step = x]
      BY DEF Garbled
    <3> HIDE DEF x, g, f
    <3>2. g.step = x
      BY <1>1, <3>1
    <3>3. QED
      BY <3>2 DEF x
  <2>2. DOMAIN c.step = 1 .. Depth
    BY <1>3
  <2>3. \A h \in 1 .. Depth :
           [c.step[h] EXCEPT !.enc = {[e EXCEPT !.to = None] : e \in c.step[h].enc}]
           = [node |-> PathNode(s, h), pub |-> [id |-> id, h |-> h], enc |-> b(h)]
    <3> SUFFICES ASSUME NEW h \in 1 .. Depth
                 PROVE  [c.step[h] EXCEPT !.enc = {[e EXCEPT !.to = None] : e \in c.step[h].enc}]
                        = [node |-> PathNode(s, h), pub |-> [id |-> id, h |-> h], enc |-> b(h)]
      OBVIOUS
    <3> DEFINE y == {[e EXCEPT !.to = None] : e \in c.step[h].enc}
               n == PathNode(s, h)
               u == [id |-> id, h |-> h]
               w == c.step[h].enc
    <3>1. c.step[h] = [node |-> n, pub |-> u, enc |-> w]
      BY <1>3
    <3>2. y = b(h)
      BY <1>2
    <3> HIDE DEF y, b, n, u, w
    <3>3. [c.step[h] EXCEPT !.enc = y] = [node |-> n, pub |-> u, enc |-> y]
      BY <3>1
    <3>4. QED
      BY <3>2, <3>3 DEF y, n, u
  <2> HIDE DEF b, g
  <2>4. QED
    BY <2>1, <2>2, <2>3
<1>5. g = [sender_leaf |-> s, leaf_pub |-> [id |-> id, h |-> 0], step |-> k]
  <2>1. g.sender_leaf = s /\ g.leaf_pub = [id |-> id, h |-> 0]
        /\ g = [sender_leaf |-> g.sender_leaf, leaf_pub |-> g.leaf_pub, step |-> g.step]
    <3> DEFINE x == [h \in DOMAIN c.step |->
                    [c.step[h] EXCEPT !.enc = {[e EXCEPT !.to = None] : e \in c.step[h].enc}]]
               u == [id |-> id, h |-> 0]
    <3>1. g = [c EXCEPT !.step = x]
      BY DEF Garbled
    <3> HIDE DEF x, g, f, u
    <3>2. c = [sender_leaf |-> s, leaf_pub |-> u, step |-> f]
      BY <1>1 DEF u
    <3>3. g = [sender_leaf |-> s, leaf_pub |-> u, step |-> x]
      BY <3>1, <3>2
    <3>4. QED
      BY <3>3 DEF u
  <2> HIDE DEF g, k
  <2>2. QED
    BY <1>4, <2>1
<1>6. \A h \in 1 .. Depth : k[h].enc = b(h)
  OBVIOUS
<1>7. Shaped(g, s, id)
  <2>1. k = [h \in 1 .. Depth |-> [node |-> PathNode(s, h),
                                   pub  |-> [id |-> id, h |-> h],
                                   enc  |-> g.step[h].enc]]
    BY <1>4, <1>6
  <2> HIDE DEF g
  <2>2. QED
    BY <1>1, <1>5, <2>1 DEF Shaped
<1>8. \A h \in 1 .. Depth : \A e \in g.step[h].enc :
         e.to = None /\ e = [recipient |-> e.recipient, to |-> e.to,
                             ps |-> [id |-> id, h |-> h]]
  <2> SUFFICES ASSUME NEW h \in 1 .. Depth, NEW e \in b(h)
               PROVE  e.to = None /\ e = [recipient |-> e.recipient, to |-> e.to,
                                          ps |-> [id |-> id, h |-> h]]
    BY <1>4, <1>6
  <2>1. PICK o \in c.step[h].enc : e = bad(o)
    OBVIOUS
  <2>2. o.ps = [id |-> id, h |-> h]
    BY DEF BoxesOf
  <2>3. QED
    BY <2>1, <2>2
<1> HIDE DEF g
<1>9. \A t1, h : Openable(t1, l, g, h) = {} \/ h \notin 1 .. Depth
  BY <1>8 DEF Openable
<1>10. DOMAIN g.step = 1 .. Depth
  BY <1>7, ShapedReads DEF Reads
<1>11. OpenSteps(Install(t, g), l, g) = {}
  BY <1>9, <1>10 DEF OpenSteps
<1>12. QED
  BY <1>7, <1>8, <1>11 DEF g, BoxesOf

(***************************************************************************)
(* What the log says of a commit, and which of its boxes a member opens.   *)
(***************************************************************************)
LEMMA EntryFacts ==
    ASSUME ChainOk, NEW i \in 1 .. Len(log)
    PROVE  /\ Sender(i) \in Leaf
           /\ Shaped(log[i].commit, Sender(i), IdOf(i))
           /\ BoxesOf(log[i].commit, IdOf(i))
           /\ log[i].root = [id |-> IdOf(i), h |-> Depth]
           /\ IdOf(i) \in Nat /\ NumPeople <= IdOf(i) /\ IdOf(i) < fresh
           /\ \A v \in Node :
                 Public(i, v) = IF is_ancestor(v, Sender(i))
                                THEN [id |-> IdOf(i), h |-> Height(Sender(i), v)]
                                ELSE Changed(ChangeOf(i), v, Public(i - 1, v))
           /\ ChangeOf(i).op \in {"none", "remove", "add"}
  BY DEF ChainOk, CommitOk, ChangeOk, Shaped, ChangeOf

(* The leaf a change of membership is about.                               *)
LEMMA ChangedLeaf ==
    ASSUME LogOk, ChainOk, NEW i \in 1 .. Len(log), ChangeOf(i).op # "none"
    PROVE  /\ ChangeOf(i).leaf \in Leaf
           /\ \A l \in Leaf : Touched(ChangeOf(i), l) => l = ChangeOf(i).leaf
<1>1. ChangeOk(i)
  BY DEF ChainOk
<1>2. ChangeOf(i).leaf \in Leaf
  <2>1. CASE ChangeOf(i).op = "add"
    BY <1>1, <2>1 DEF ChangeOk
  <2>2. CASE ChangeOf(i).op = "remove"
    <3>1. HasLeaf(ChangeOf(i).who, ChangeOf(i).leaf)
      BY <1>1, <2>2 DEF ChangeOk
    <3>2. QED
      BY <3>1, OneLeaf
  <2>3. QED
    BY <1>1, <2>1, <2>2 DEF ChangeOk
<1>3. QED
  BY <1>2, LeafAbove DEF Touched

(* Who stays in the group keeps its leaf as it was.                        *)
LEMMA SeatKept ==
    ASSUME LogOk, ChainOk, SeatsOk, NEW i \in 1 .. Len(log), NEW p, NEW l,
           HasLeaf(p, l), p \in Roster(i), p \in Roster(i - 1)
    PROVE  ~ Touched(ChangeOf(i), l)
<1> SUFFICES ASSUME Touched(ChangeOf(i), l) PROVE FALSE
  OBVIOUS
<1>1. ChangeOf(i).op # "none" /\ ChangeOk(i) /\ i - 1 \in 0 .. Len(log)
  BY RosterAt DEF Touched, ChainOk
<1>2. l \in Leaf
  BY OneLeaf
<1>3. l = ChangeOf(i).leaf
  BY <1>1, <1>2, ChangedLeaf
<1>4. /\ Public(i - 1, l) # None
      /\ \A q \in Roster(i - 1) : HasLeaf(q, l) => q = p
  BY <1>1, <1>2 DEF SeatsOk
<1>5. CASE ChangeOf(i).op = "add"
  BY <1>1, <1>3, <1>4, <1>5 DEF ChangeOk
<1>6. CASE ChangeOf(i).op = "remove"
  <2>1. /\ ChangeOf(i).who \in Roster(i - 1)
        /\ HasLeaf(ChangeOf(i).who, l)
        /\ log[i].roster = Roster(i - 1) \ {ChangeOf(i).who}
    BY <1>1, <1>3, <1>6 DEF ChangeOk
  <2>2. ChangeOf(i).who = p
    BY <1>4, <2>1
  <2>3. Removed(i, p)
    BY <1>6, <2>2 DEF Removed
  <2>4. QED
    BY <2>3, RosterAt
<1>7. QED
  BY <1>1, <1>5, <1>6 DEF ChangeOk

(* The holder of a populated leaf finds a box for it, sealed to a node     *)
(* above that leaf and off the committer's path.                           *)
BoxFor(i, l, h, e) ==
    /\ is_ancestor(sibling(PathNode(Sender(i), h - 1)), l)
    /\ e.recipient \in Node
    /\ is_ancestor(e.recipient, l)
    /\ ~ is_ancestor(e.recipient, Sender(i))
    /\ e.to = Public(i, e.recipient)
    /\ e.to # None

LEMMA BoxFacts ==
    ASSUME ChainOk, NEW i \in 1 .. Len(log), NEW h \in 1 .. Depth,
           NEW e \in log[i].commit.step[h].enc
    PROVE  /\ e.recipient \in Node
           /\ ~ is_ancestor(e.recipient, Sender(i))
           /\ e.to = Public(i, e.recipient) /\ e.to # None
           /\ \A l \in Leaf : is_ancestor(e.recipient, l) =>
                 is_ancestor(sibling(PathNode(Sender(i), h - 1)), l)
<1> DEFINE sib == sibling(PathNode(Sender(i), h - 1))
<1>1. /\ e.recipient \in Node
      /\ Under(e.recipient, sib)
      /\ e.to = Public(i, e.recipient)
      /\ e.to # None
  BY DEF ChainOk, BoxesOk
<1>2. Sender(i) \in Leaf
  BY EntryFacts
<1>3. ~ is_ancestor(sib, Sender(i))
  BY <1>2, PathSibling
<1>4. QED
  BY <1>1, <1>2, <1>3 DEF Under

LEMMA BoxExists ==
    ASSUME ChainOk, NEW i \in 1 .. Len(log), NEW l \in Leaf, l # Sender(i),
           Public(i, l) # None
    PROVE  \E h \in 1 .. Depth : \E e \in log[i].commit.step[h].enc : BoxFor(i, l, h, e)
<1>1. Sender(i) \in Leaf
  BY EntryFacts
<1>2. PICK h \in 1 .. Depth : is_ancestor(sibling(PathNode(Sender(i), h - 1)), l)
  BY <1>1, PathsMeet
<1>3. PICK e \in log[i].commit.step[h].enc : is_ancestor(e.recipient, l)
  BY <1>2 DEF ChainOk, BoxesOk
<1>4. BoxFor(i, l, h, e)
  BY <1>2, <1>3, BoxFacts DEF BoxFor
<1>5. QED
  BY <1>4

LEMMA Opened ==
    ASSUME LogOk, ChainOk, NEW i \in 1 .. Len(log), NEW l \in Leaf, l # Sender(i), NEW t,
           NEW h \in 1 .. Depth, NEW e \in log[i].commit.step[h].enc, BoxFor(i, l, h, e),
           t[e.recipient].priv = e.to
    PROVE  treekem_process(t, l, log[i].commit).ok
<1> DEFINE c == log[i].commit
<1>1. Shaped(c, Sender(i), IdOf(i)) /\ BoxesOf(c, IdOf(i))
  BY EntryFacts
<1>2. OpenSteps(Install(t, c), l, c) # {}
  <2> HIDE DEF c
  <2>1. e \in c.step[h].enc
    BY DEF c
  <2>2. /\ is_ancestor(sibling(PathNode(Sender(i), h - 1)), l)
        /\ e.recipient \in Node /\ is_ancestor(e.recipient, l)
        /\ ~ is_ancestor(e.recipient, Sender(i))
        /\ e.to # None
    BY DEF BoxFor
  <2>3. QED
    BY <1>1, <2>1, <2>2, BoxOpens
<1>3. Processed(c, Sender(i), IdOf(i), l, t)
  BY <1>1, ProcessAt
<1>4. QED
  BY <1>2, <1>3 DEF Processed

(* A tree that holds the private keys above its leaf takes the commit.     *)
LEMMA Accepts ==
    ASSUME LogOk, ChainOk, NEW i \in 1 .. Len(log), NEW l \in Leaf, l # Sender(i),
           Public(i, l) # None, NEW t,
           \A v \in Node : /\ is_ancestor(v, l)
                           /\ ~ is_ancestor(v, Sender(i))
                           /\ Public(i, v) # None
                           => t[v].priv = Public(i, v)
    PROVE  treekem_process(t, l, log[i].commit).ok
<1>1. PICK h \in 1 .. Depth : \E e \in log[i].commit.step[h].enc : BoxFor(i, l, h, e)
  BY BoxExists
<1>2. PICK e \in log[i].commit.step[h].enc : BoxFor(i, l, h, e)
  BY <1>1
<1>3. t[e.recipient].priv = e.to
  BY <1>2 DEF BoxFor
<1>4. QED
  BY <1>2, <1>3, Opened

(***************************************************************************)
(* A member in step with the log and the next commit it processes.         *)
(***************************************************************************)
LogsOk == AgreeInv /\ ChainOk /\ SeatsOk /\ JoinedOk

NextFacts(p, i, l) ==
    /\ i \in 1 .. Len(log)
    /\ i - 1 = epoch[p]
    /\ l \in Leaf
    /\ HasLeaf(p, l)
    /\ l # Sender(i)
    /\ p \in Roster(i)
    /\ Public(i, l) # None
    /\ ChangeOf(i).who = p <=> Added(i, p)
    /\ Added(i, p) => ChangeOf(i).leaf = l
    /\ ~ Added(i, p) => p \in Roster(i - 1) /\ ~ Touched(ChangeOf(i), l)

LEMMA NextCommit ==
    ASSUME LogsOk, NEW p \in People, InStep(p), epoch[p] < Len(log)
    PROVE  NextFacts(p, epoch[p] + 1, leaf[p])
<1> DEFINE i == epoch[p] + 1
           l == leaf[p]
           q == log[i].by
<1>0. LogOk /\ PeopleOk /\ ChainOk /\ SeatsOk /\ JoinedOk
  BY DEF LogsOk, AgreeInv
<1>1. Len(log) \in Nat /\ epoch[p] \in Nat
  BY <1>0, LogLength DEF PeopleOk
<1>2. i \in 1 .. Len(log) /\ i - 1 = epoch[p] /\ i \in 0 .. Len(log)
  BY <1>1
<1> HIDE DEF i
<1>3. l \in Leaf /\ HasLeaf(p, l) /\ p \in Roster(i)
  BY <1>0 DEF JoinedOk, InStep, i
<1>4. Public(i, l) # None /\ \A r \in Roster(i) : HasLeaf(r, l) => r = p
  BY <1>0, <1>2, <1>3 DEF SeatsOk
<1>5. l # Sender(i)
  <2>1. q \in Roster(i - 1) /\ q # ChangeOf(i).who /\ HasLeaf(q, Sender(i))
    BY <1>0, <1>2 DEF ChainOk, CommitOk, ChangeOf
  <2>2. q \in Roster(i)
    BY <1>0, <1>2, <2>1, RosterAt DEF Removed
  <2>3. ASSUME l = Sender(i) PROVE FALSE
    <3>1. q = p
      BY <1>4, <2>1, <2>2, <2>3
    <3>2. i <= epoch[p]
      BY <1>0, <1>2, <3>1 DEF JoinedOk
    <3>3. QED
      BY <1>1, <1>2, <3>2
  <2>4. QED
    BY <2>3
<1>6. ChangeOf(i).who = p <=> Added(i, p)
  <2>1. ASSUME ChangeOf(i).who = p PROVE Added(i, p)
    <3>1. ChangeOk(i)
      BY <1>0, <1>2 DEF ChainOk
    <3>2. ChangeOf(i).op # "none"
      <4>1. p \in Nat
        BY TreeKEMAssumption DEF People
      <4>2. QED
        BY <2>1, <3>1, <4>1 DEF ChangeOk
    <3>3. ChangeOf(i).op # "remove"
      BY <1>0, <1>2, <1>3, <2>1, RosterAt DEF Removed
    <3>4. QED
      BY <2>1, <3>1, <3>2, <3>3 DEF ChangeOk, Added
  <2>2. QED
    BY <2>1 DEF Added
<1>7. Added(i, p) => ChangeOf(i).leaf = l
  <2>1. Added(i, p) => HasLeaf(p, ChangeOf(i).leaf)
    BY <1>2 DEF HasLeaf
  <2>2. QED
    BY <1>0, <1>3, <2>1, OneLeaf
<1>8. ~ Added(i, p) => p \in Roster(i - 1) /\ ~ Touched(ChangeOf(i), l)
  <2>1. ~ Added(i, p) => p \in Roster(i - 1)
    BY <1>0, <1>2, <1>3, RosterAt
  <2>2. QED
    BY <1>0, <1>2, <1>3, <2>1, SeatKept
<1>9. QED
  BY <1>2, <1>3, <1>4, <1>5, <1>6, <1>7, <1>8 DEF NextFacts, i

(* The tree a member applies the next commit to.                           *)
Ready(p) ==
    IF Upcoming(p).change.who = p THEN tree[p] ELSE Apply(tree[p], Upcoming(p).change)

ReadyOk(p, i, l) ==
    /\ \A v \in Node :
          ~ is_ancestor(v, Sender(i)) =>
             /\ ~ is_ancestor(v, l) => Ready(p)[v].pub = Public(i, v)
             /\ is_ancestor(v, l) /\ Public(i, v) # None => Ready(p)[v].priv = Public(i, v)
    /\ Ready(p)[l].pub # None
    /\ \A v \in Node : ~ Replaced(i, v) => Ready(p)[v] = tree[p][v]
    /\ Added(i, p) => Ready(p) = tree[p]

LEMMA ReadyFor ==
    ASSUME LogsOk, NEW p \in People, InStep(p), epoch[p] < Len(log), ViewOk(p)
    PROVE  ReadyOk(p, epoch[p] + 1, leaf[p])
<1> DEFINE i == epoch[p] + 1
           l == leaf[p]
           t == Ready(p)
           change == ChangeOf(i)
<1>0. LogOk /\ PeopleOk /\ ChainOk /\ SeatsOk /\ JoinedOk
  BY DEF LogsOk, AgreeInv
<1>1. NextFacts(p, i, l)
  BY NextCommit
<1>2. t = IF change.who = p THEN tree[p] ELSE Apply(tree[p], change)
  BY DEF Ready, Upcoming, ChangeOf
<1>3. /\ \A v \in Node :
            ~ Replaced(i, v) =>
               /\ ~ is_ancestor(v, l) => tree[p][v].pub = Public(i - 1, v)
               /\ is_ancestor(v, l) /\ Public(i - 1, v) # None
                     => tree[p][v].priv = Public(i - 1, v)
      /\ tree[p][l].pub # None
      /\ Added(i, p) => tree[p][l].priv = LeafKey(p)
  BY <1>1 DEF ViewOk, ViewAt, Upset, NextFacts
<1> HIDE DEF i, l, t, change
<1>4. i \in 1 .. Len(log) /\ l \in Leaf /\ l \in Node
  BY <1>1, LeafType DEF NextFacts
<1>5. \A v \in Node : ~ is_ancestor(v, Sender(i)) =>
                         Public(i, v) = Changed(change, v, Public(i - 1, v))
  BY <1>0, <1>4, EntryFacts DEF change
<1>6. /\ change.op \in {"none", "remove", "add"}
      /\ change.op # "none" => change.leaf \in Leaf
  BY <1>0, <1>4, EntryFacts, ChangedLeaf DEF change
<1>7. \A v \in Node :
         /\ ~ Touched(change, v) => Apply(tree[p], change)[v] = tree[p][v]
         /\ Apply(tree[p], change)[v].pub = Changed(change, v, tree[p][v].pub)
  BY <1>6, ApplyAt
<1>8. CASE Added(i, p)
  <2>1. t = tree[p] /\ change.leaf = l /\ change.op = "add" /\ change.who = p
    BY <1>1, <1>2, <1>8 DEF NextFacts, Added, change
  <2>2. ASSUME NEW v \in Node, ~ is_ancestor(v, Sender(i))
        PROVE  /\ ~ is_ancestor(v, l) => t[v].pub = Public(i, v)
               /\ is_ancestor(v, l) /\ Public(i, v) # None => t[v].priv = Public(i, v)
    <3>1. CASE ~ is_ancestor(v, l)
      <4>1. ~ Replaced(i, v) /\ ~ Touched(change, v)
        BY <2>1, <2>2, <3>1 DEF Replaced, Touched, change
      <4>2. QED
        BY <1>3, <1>5, <2>1, <2>2, <3>1, <4>1 DEF Changed
    <3>2. CASE is_ancestor(v, l)
      <4>1. Public(i, v) = IF v = l THEN LeafKey(p) ELSE None
        BY <1>5, <2>1, <2>2, <3>2 DEF Changed, Touched
      <4>2. QED
        BY <1>3, <1>8, <2>1, <3>2, <4>1
    <3>3. QED
      BY <3>1, <3>2
  <2>3. QED
    BY <1>3, <2>1, <2>2 DEF ReadyOk, i, l, t
<1>9. CASE ~ Added(i, p)
  <2>1. t = Apply(tree[p], change) /\ ~ Touched(change, l)
    BY <1>1, <1>2, <1>9 DEF NextFacts, change
  <2>2. ASSUME NEW v \in Node, ~ is_ancestor(v, Sender(i))
        PROVE  /\ ~ is_ancestor(v, l) => t[v].pub = Public(i, v)
               /\ is_ancestor(v, l) /\ Public(i, v) # None => t[v].priv = Public(i, v)
    <3>1. CASE ~ Touched(change, v)
      <4>1. ~ Replaced(i, v)
        BY <2>2, <3>1 DEF Replaced, change
      <4>2. Public(i, v) = Public(i - 1, v) /\ t[v] = tree[p][v]
        BY <1>5, <1>7, <2>1, <2>2, <3>1 DEF Changed
      <4>3. QED
        BY <1>3, <4>1, <4>2
    <3>2. CASE Touched(change, v)
      <4>1. t[v].pub = Public(i, v)
        BY <1>5, <1>7, <2>1, <2>2, <3>2 DEF Changed
      <4>2. is_ancestor(v, l) => Public(i, v) = None
        <5>1. change.leaf \in Leaf
          BY <1>6, <3>2 DEF Touched
        <5>2. is_ancestor(v, l) => v # change.leaf
          BY <1>4, <2>1, <3>2, <5>1, LeafAbove
        <5>3. QED
          BY <1>5, <2>2, <3>2, <5>2 DEF Changed
      <4>3. QED
        BY <4>1, <4>2
    <3>3. QED
      BY <3>1, <3>2
  <2>3. t[l].pub # None
    BY <1>3, <1>4, <1>7, <2>1
  <2>4. \A v \in Node : ~ Replaced(i, v) => t[v] = tree[p][v]
    BY <1>7, <2>1 DEF Replaced, change
  <2>5. QED
    BY <1>9, <2>2, <2>3, <2>4 DEF ReadyOk, i, l, t
<1>10. QED
  BY <1>8, <1>9

(* So the next commit is accepted.                                         *)
LEMMA NextAccepted ==
    ASSUME LogsOk, NEW p \in People, InStep(p), epoch[p] < Len(log), ViewOk(p)
    PROVE  ProcessUpcoming(p, Upcoming(p).commit).ok
<1> DEFINE i == epoch[p] + 1
           l == leaf[p]
           t == Ready(p)
<1>0. LogOk /\ ChainOk
  BY DEF LogsOk, AgreeInv
<1>1. NextFacts(p, i, l) /\ ReadyOk(p, i, l)
  BY NextCommit, ReadyFor
<1>2. ProcessUpcoming(p, Upcoming(p).commit) = treekem_process(t, l, log[i].commit)
  BY DEF ProcessUpcoming, Ready, Upcoming
<1> HIDE DEF i, l
<1>3. /\ i \in 1 .. Len(log) /\ l \in Leaf /\ l # Sender(i) /\ Public(i, l) # None
      /\ \A v \in Node : /\ is_ancestor(v, l)
                         /\ ~ is_ancestor(v, Sender(i))
                         /\ Public(i, v) # None
                         => t[v].priv = Public(i, v)
  BY <1>1 DEF NextFacts, ReadyOk
<1> HIDE DEF t
<1>4. treekem_process(t, l, log[i].commit).ok
  BY <1>0, <1>3, Accepts
<1>5. QED
  BY <1>2, <1>4

(***************************************************************************)
(* Steps that leave the log alone.                                         *)
(***************************************************************************)
LEMMA ChainKept ==
    ASSUME ChainOk, SeatsOk, log' = log, fresh' \in Nat, fresh <= fresh'
    PROVE  ChainOk' /\ SeatsOk'
<1>0. fresh \in Nat /\ NumPeople <= fresh /\ NumPeople \in Nat
  BY TreeKEMAssumption DEF ChainOk
<1>1. ASSUME NEW i \in 1 .. Len(log) PROVE CommitOk(i)'
  <2>1. CommitOk(i) /\ IdOf(i) \in Nat /\ IdOf(i) < fresh
    BY DEF ChainOk, CommitOk
  <2>2. IdOf(i) < fresh'
    BY <1>0, <2>1
  <2>3. QED
    BY <2>1, <2>2 DEF CommitOk, Roster, Sender, HasLeaf, IdOf, ChangeOf, Added, Public
<1>2. ASSUME NEW i \in 1 .. Len(log) PROVE ChangeOk(i)'
  <2>1. ChangeOk(i)
    BY DEF ChainOk
  <2>2. QED
    BY <2>1 DEF ChangeOk, Roster, HasLeaf, ChangeOf, Added, Public
<1>3. ASSUME NEW i \in 1 .. Len(log) PROVE BoxesOk(i)'
  <2>1. BoxesOk(i)
    BY DEF ChainOk
  <2>2. QED
    BY <2>1 DEF BoxesOk, Sender, Public
<1>4. ChainOk'
  BY <1>0, <1>1, <1>2, <1>3 DEF ChainOk
<1>5. SeatsOk'
  BY DEF SeatsOk, Roster, HasLeaf, ChangeOf, Added, Public
<1>6. QED
  BY <1>4, <1>5

LEMMA ViewKept ==
    ASSUME log' = log, NEW p \in People, NEW t, NEW i, NEW l, ViewAt(t, i, l, p),
           tree'[p] = t, epoch'[p] = i, leaf'[p] = l
    PROVE  ViewOk(p)'
<1>1. ASSUME NEW v \in Node PROVE Upset(i, v)' <=> Upset(i, v)
  BY DEF Upset, Replaced, Sender, ChangeOf
<1>2. ASSUME NEW v \in Node PROVE Public(i, v)' = Public(i, v)
  BY DEF Public
<1>3. Added(i + 1, p)' <=> Added(i + 1, p)
  BY DEF Added, ChangeOf
<1>4. ViewAt(t, i, l, p)'
  BY <1>1, <1>2, <1>3 DEF ViewAt
<1>5. QED
  BY <1>4 DEF ViewOk, ViewAt, Upset, Public, Added, ChangeOf, Replaced, Sender

(* Somebody to whom nothing happens.                                       *)
LEMMA BystanderKept ==
    ASSUME ViewsOk, log' = log, NEW p \in People, tree'[p] = tree[p],
           epoch'[p] = epoch[p], leaf'[p] = leaf[p], p \in diverged => p \in diverged'
    PROVE  InStep(p)' => ViewOk(p)'
<1> SUFFICES ASSUME InStep(p)' PROVE ViewOk(p)'
  OBVIOUS
<1>1. InStep(p)
  BY DEF InStep, Roster
<1>2. ViewAt(tree[p], epoch[p], leaf[p], p)
  BY <1>1 DEF ViewsOk, ViewOk
<1>3. PICK t, i, l : t = tree[p] /\ i = epoch[p] /\ l = leaf[p]
  OBVIOUS
<1>4. ViewAt(t, i, l, p) /\ tree'[p] = t /\ epoch'[p] = i /\ leaf'[p] = l
  BY <1>2, <1>3
<1>5. QED
  BY <1>4, ViewKept

LEMMA JoinedKept ==
    ASSUME JoinedOk, log' = log, leaf' = leaf, tree' = [q \in People |-> tree'[q]],
           PeopleOk, LogOk, epoch' \in [People -> Nat],
           \A q \in People : epoch[q] <= epoch'[q]
    PROVE  JoinedOk'
<1>0. Len(log) \in Nat /\ \A q \in People : epoch[q] \in Nat /\ epoch'[q] \in Nat
  BY LogLength DEF PeopleOk
<1>1. ASSUME NEW p \in People, leaf'[p] # 0 PROVE leaf'[p] \in Leaf /\ HasLeaf(p, leaf[p])
  BY <1>1 DEF JoinedOk
<1>2. ASSUME NEW p \in People, NEW i \in 1 .. Len(log)
      PROVE  /\ leaf[p] # 0 /\ Added(i, p) => epoch'[p] >= i - 1
             /\ log[i].by = p => leaf[p] # 0 /\ i <= epoch'[p]
  <2>1. /\ leaf[p] # 0 /\ Added(i, p) => epoch[p] >= i - 1
        /\ log[i].by = p => leaf[p] # 0 /\ i <= epoch[p]
    BY DEF JoinedOk
  <2>2. QED
    BY <1>0, <2>1
<1>3. QED
  BY <1>1, <1>2 DEF JoinedOk, HasLeaf, Added, ChangeOf

LEMMA ViewProcess ==
    ASSUME LogsOk, ViewsOk, NEW p \in People, Process(p)
    PROVE  InStep(p)' => ViewOk(p)'
<1> SUFFICES ASSUME InStep(p)' PROVE ViewOk(p)'
  OBVIOUS
<1>0. LogOk /\ PeopleOk /\ ChainOk /\ SeatsOk /\ JoinedOk
  BY DEF LogsOk, AgreeInv
<1>1. PICK r, i, l, t : /\ r = ProcessUpcoming(p, Upcoming(p).commit)
                        /\ i = epoch[p] + 1 /\ l = leaf[p] /\ t = Ready(p)
  OBVIOUS
<1>2. /\ leaf[p] # 0 /\ epoch[p] < Len(log)
      /\ tree' = [tree EXCEPT ![p] = r.tree]
      /\ epoch' = IF r.ok THEN [epoch EXCEPT ![p] = @ + 1] ELSE epoch
      /\ leaf' = leaf /\ log' = log /\ diverged' = diverged
  BY <1>1 DEF Process
<1>3. /\ tree'[p] = r.tree
      /\ epoch'[p] = IF r.ok THEN i ELSE epoch[p]
  BY <1>0, <1>1, <1>2 DEF JoinedOk, PeopleOk
<1>4. Len(log) \in Nat /\ epoch[p] \in Nat /\ i \in 1 .. Len(log) /\ i \in 0 .. Len(log)
      /\ epoch[p] = i - 1
  BY <1>0, <1>1, <1>2, LogLength DEF PeopleOk
<1>5. InStep(p)
  <2>1. CASE ~ r.ok
    BY <1>2, <1>3, <2>1 DEF InStep, Roster
  <2>2. CASE r.ok
    <3>1. p \in Roster(IF i < Len(log) THEN i + 1 ELSE i) /\ p \notin diverged
      BY <1>2, <1>3, <2>2 DEF InStep, Roster
    <3>2. p \in Roster(i)
      <4>1. ASSUME i < Len(log), p \in Roster(i + 1), p \notin Roster(i) PROVE FALSE
        <5>1. i + 1 \in 1 .. Len(log) /\ (i + 1) - 1 = i
          BY <1>4, <4>1
        <5>2. Added(i + 1, p)
          BY <1>0, <4>1, <5>1, RosterAt
        <5>3. epoch[p] >= (i + 1) - 1
          BY <1>0, <1>2, <5>1, <5>2 DEF JoinedOk
        <5>4. QED
          BY <1>4, <5>3
      <4>2. QED
        BY <3>1, <4>1
    <3>3. QED
      BY <1>1, <1>2, <3>1, <3>2 DEF InStep
  <2>3. QED
    BY <2>1, <2>2
<1>6. ViewOk(p)
  BY <1>5 DEF ViewsOk
<1>7. r.ok
  BY <1>1, <1>2, <1>5, <1>6, NextAccepted
<1>8. NextFacts(p, i, l) /\ ReadyOk(p, i, l)
  BY <1>1, <1>2, <1>5, <1>6, NextCommit, ReadyFor
<1>9. Processed(log[i].commit, Sender(i), IdOf(i), l, t)
  <2>1. l \in Leaf
    BY <1>8 DEF NextFacts
  <2>2. QED
    BY <1>0, <1>4, <2>1, EntryFacts, ProcessAt
<1>10. r = treekem_process(t, l, log[i].commit)
  BY <1>1 DEF ProcessUpcoming, Ready, Upcoming
<1>11. \A v \in Node : r.tree[v] = Taken(t, Sender(i), IdOf(i), l, v)
  BY <1>7, <1>8, <1>9, <1>10 DEF Processed, NextFacts
<1>12. \A v \in Node :
          Public(i, v) = IF is_ancestor(v, Sender(i))
                         THEN [id |-> IdOf(i), h |-> Height(Sender(i), v)]
                         ELSE Changed(ChangeOf(i), v, Public(i - 1, v))
  BY <1>0, <1>4, EntryFacts
<1>13. /\ \A v \in Node :
            ~ is_ancestor(v, Sender(i)) =>
               /\ ~ is_ancestor(v, l) => t[v].pub = Public(i, v)
               /\ is_ancestor(v, l) /\ Public(i, v) # None => t[v].priv = Public(i, v)
       /\ t[l].pub # None /\ l \in Node /\ ~ is_ancestor(l, Sender(i))
  <2>1. Sender(i) \in Leaf /\ l \in Leaf /\ l # Sender(i)
    BY <1>0, <1>4, <1>8, EntryFacts DEF NextFacts
  <2>2. QED
    BY <1>1, <1>8, <2>1, LeafAbove, LeafType DEF ReadyOk
<1>14. ~ (i < Len(log) /\ Added(i + 1, p))
  <2> SUFFICES ASSUME i < Len(log), Added(i + 1, p) PROVE FALSE
    OBVIOUS
  <2>1. i + 1 \in 1 .. Len(log)
    BY <1>4
  <2>2. epoch[p] >= (i + 1) - 1
    BY <1>0, <1>2, <2>1 DEF JoinedOk
  <2>3. QED
    BY <1>4, <2>2
<1>15. ViewAt(r.tree, i, l, p)
  <2>1. ASSUME NEW v \in Node
        PROVE  /\ ~ is_ancestor(v, l) => r.tree[v].pub = Public(i, v)
               /\ is_ancestor(v, l) /\ Public(i, v) # None => r.tree[v].priv = Public(i, v)
    <3>1. CASE is_ancestor(v, Sender(i))
      <4> DEFINE key == [id |-> IdOf(i), h |-> Height(Sender(i), v)]
      <4>1. Public(i, v) = key
        BY <1>12, <3>1
      <4>2. r.tree[v] = [pub |-> key, priv |-> IF is_ancestor(v, l) THEN key ELSE None]
        BY <1>11, <3>1 DEF Taken
      <4> HIDE DEF key
      <4>3. r.tree[v].pub = key /\ (is_ancestor(v, l) => r.tree[v].priv = key)
        BY <4>2
      <4>4. QED
        BY <4>1, <4>3
    <3>2. CASE ~ is_ancestor(v, Sender(i))
      BY <1>11, <1>13, <3>2 DEF Taken
    <3>3. QED
      BY <3>1, <3>2
  <2>2. r.tree[l].pub # None
    BY <1>11, <1>13 DEF Taken
  <2>3. QED
    BY <1>14, <2>1, <2>2 DEF ViewAt
<1>16. QED
  BY <1>1, <1>2, <1>3, <1>7, <1>15, ViewKept

(* A damaged commit only disturbs what the commit replaces.                *)
LEMMA ViewGarbled ==
    ASSUME LogsOk, ViewsOk, NEW p \in People, ProcessGarbled(p)
    PROVE  InStep(p)' => ViewOk(p)'
<1> SUFFICES ASSUME InStep(p)' PROVE ViewOk(p)'
  OBVIOUS
<1>0. LogOk /\ PeopleOk /\ ChainOk /\ SeatsOk /\ JoinedOk
  BY DEF LogsOk, AgreeInv
<1>1. PICK r, i, l, t, e, c :
         /\ r = ProcessUpcoming(p, Garbled(Upcoming(p).commit))
         /\ e = epoch[p] /\ i = e + 1 /\ l = leaf[p] /\ t = Ready(p)
         /\ c = log[i].commit
  OBVIOUS
<1>2. /\ epoch[p] < Len(log) /\ tree' = [tree EXCEPT ![p] = r.tree]
      /\ epoch' = epoch /\ leaf' = leaf /\ log' = log /\ diverged' = diverged
  BY <1>1 DEF ProcessGarbled
<1>3. tree'[p] = r.tree /\ epoch'[p] = e /\ leaf'[p] = l
  BY <1>0, <1>1, <1>2 DEF JoinedOk
<1>4. InStep(p)
  BY <1>2 DEF InStep, Roster
<1>5. ViewAt(tree[p], e, l, p)
  BY <1>1, <1>4 DEF ViewsOk, ViewOk
<1>6. NextFacts(p, i, l) /\ ReadyOk(p, i, l)
  BY <1>1, <1>2, <1>4, NextCommit, ReadyFor DEF ViewsOk
<1>7. /\ i \in 1 .. Len(log) /\ l \in Leaf /\ l # Sender(i) /\ e < Len(log) /\ l \in Node
      /\ Sender(i) \in Leaf
  BY <1>0, <1>1, <1>2, <1>6, EntryFacts, LeafType DEF NextFacts
<1>8. Shaped(c, Sender(i), IdOf(i)) /\ BoxesOf(c, IdOf(i))
  BY <1>0, <1>1, <1>7, EntryFacts
<1>9. /\ Shaped(Garbled(c), Sender(i), IdOf(i)) /\ BoxesOf(Garbled(c), IdOf(i))
      /\ OpenSteps(Install(t, Garbled(c)), l, Garbled(c)) = {}
  BY <1>7, <1>8, GarbledAt
<1>10. Processed(Garbled(c), Sender(i), IdOf(i), l, t)
  BY <1>7, <1>9, ProcessAt
<1>11. r = treekem_process(t, l, Garbled(c))
  BY <1>1 DEF ProcessUpcoming, Ready, Upcoming
<1>12. \A v \in Node : ~ is_ancestor(v, Sender(i)) => r.tree[v] = t[v]
  BY <1>7, <1>9, <1>10, <1>11 DEF Processed, Installed
<1>13. \A v \in Node : ~ Upset(e, v) => r.tree[v] = tree[p][v]
  BY <1>1, <1>6, <1>7, <1>12 DEF Upset, Replaced, ReadyOk
<1>14. r.tree[l] = t[l]
  BY <1>7, <1>12, LeafAbove
<1>15. ViewAt(r.tree, e, l, p)
  BY <1>1, <1>5, <1>6, <1>13, <1>14 DEF ViewAt, ReadyOk
<1>16. QED
  BY <1>2, <1>3, <1>15, ViewKept

(* What is replaced on a path is replaced all the way up.                  *)
LEMMA AboveUp ==
    ASSUME NEW l \in Leaf, NEW x \in Leaf, NEW m \in 0 .. Depth, NEW k \in 0 .. Depth, m <= k,
           is_ancestor(PathNode(l, m), x)
    PROVE  is_ancestor(PathNode(l, k), x)
<1>1. Depth \in Nat /\ l \in Nat /\ x \in Nat /\ m \in Nat /\ k \in Nat
  BY DepthType, LeafType
<1> DEFINE n == Height(x, PathNode(l, m))
<1>2. n \in 0 .. Depth /\ PathNode(x, n) = PathNode(l, m)
  BY HeightIs
<1> HIDE DEF n
<1>3. n = m
  BY <1>2, SameHeight
<1>4. PathNode(x, k) = PathNode(l, k)
  BY <1>1, <1>2, <1>3, PathsMerge
<1>5. QED
  BY <1>4, AbovePath

LEMMA ReplacedUp ==
    ASSUME LogOk, ChainOk, NEW i \in 1 .. Len(log), NEW l \in Leaf,
           NEW m \in 0 .. Depth, NEW k \in 0 .. Depth, m <= k, Replaced(i, PathNode(l, m))
    PROVE  Replaced(i, PathNode(l, k))
<1>1. Sender(i) \in Leaf
  BY EntryFacts
<1>2. ChangeOf(i).op # "none" => ChangeOf(i).leaf \in Leaf
  BY ChangedLeaf
<1>3. CASE is_ancestor(PathNode(l, m), Sender(i))
  BY <1>1, <1>3, AboveUp DEF Replaced
<1>4. CASE Touched(ChangeOf(i), PathNode(l, m))
  BY <1>2, <1>4, AboveUp DEF Replaced, Touched
<1>5. QED
  BY <1>3, <1>4 DEF Replaced

(* The last commit, delivered again, opens again, unless a damaged         *)
(* delivery of the next one has upset the path it would restore.           *)
LEMMA OpensAgain ==
    ASSUME LogsOk, NEW p \in People, InStep(p), epoch[p] > 0,
           NEW i, i = epoch[p], NEW l, l = leaf[p], NEW t, ViewAt(t, i, l, p),
           l # Sender(i),
           NEW v \in Node, ~ Upset(i, v), is_ancestor(v, Sender(i)), is_ancestor(v, l)
    PROVE  treekem_process(t, l, log[i].commit).ok
<1>0. LogOk /\ PeopleOk /\ ChainOk /\ SeatsOk /\ JoinedOk
  BY DEF LogsOk, AgreeInv
<1>1. Len(log) \in Nat /\ i \in 1 .. Len(log) /\ i \in 0 .. Len(log) /\ Depth \in Nat
  BY <1>0, LogLength, DepthType DEF PeopleOk
<1>2. l \in Leaf /\ HasLeaf(p, l) /\ Sender(i) \in Leaf
  BY <1>0, <1>1, EntryFacts DEF InStep, JoinedOk
<1>3. p \in Roster(i)
  <2>1. CASE i < Len(log)
    <3>1. NextFacts(p, i + 1, l) /\ (i + 1) - 1 = i
      BY <1>1, <2>1, NextCommit
    <3>2. ~ Added(i + 1, p)
      <4> SUFFICES ASSUME Added(i + 1, p) PROVE FALSE
        OBVIOUS
      <4>1. Touched(ChangeOf(i + 1), v)
        BY <3>1 DEF NextFacts, Added, Touched
      <4>2. QED
        BY <2>1, <4>1 DEF Upset, Replaced
    <3>3. QED
      BY <3>1, <3>2 DEF NextFacts
  <2>2. CASE ~ (i < Len(log))
    BY <2>2 DEF InStep
  <2>3. QED
    BY <2>1, <2>2
<1>4. Public(i, l) # None
  BY <1>0, <1>1, <1>2, <1>3 DEF SeatsOk
<1>5. PICK h \in 1 .. Depth : \E e \in log[i].commit.step[h].enc : BoxFor(i, l, h, e)
  BY <1>0, <1>1, <1>2, <1>4, BoxExists
<1>6. PICK e \in log[i].commit.step[h].enc : BoxFor(i, l, h, e)
  BY <1>5
<1>7. CASE t[e.recipient].priv = e.to
  BY <1>0, <1>1, <1>2, <1>6, <1>7, Opened
<1>8. CASE t[e.recipient].priv # e.to
  <2> DEFINE r == e.recipient
             m == Height(l, r)
             k == Height(Sender(i), v)
  <2>1. /\ is_ancestor(sibling(PathNode(Sender(i), h - 1)), l)
        /\ r \in Node /\ is_ancestor(r, l) /\ ~ is_ancestor(r, Sender(i))
        /\ e.to = Public(i, r) /\ e.to # None
    BY <1>6 DEF BoxFor
  <2>2. m \in 0 .. Depth /\ PathNode(l, m) = r
        /\ k \in 0 .. Depth /\ PathNode(Sender(i), k) = v
    BY <1>2, <2>1, HeightIs
  <2>3. h <= k
    BY <1>2, <2>1, AboveBoth
  <2>4. \A j \in h .. Depth : PathNode(l, j) = PathNode(Sender(i), j)
    BY <1>2, <2>1, PathSibling
  <2>5. Upset(i, r)
    BY <1>8, <2>1 DEF ViewAt
  <2> HIDE DEF m, k, r
  <2>6. PathNode(l, k) = v
    <3>1. k \in h .. Depth
      BY <1>1, <2>2, <2>3
    <3>2. QED
      BY <2>2, <2>4, <3>1
  <2>7. ~ (h <= m)
    <3>1. ASSUME h <= m PROVE FALSE
      <4>1. m \in h .. Depth
        BY <1>1, <2>2, <3>1
      <4>2. PathNode(Sender(i), m) = r
        BY <2>2, <2>4, <4>1
      <4>3. is_ancestor(r, Sender(i))
        BY <1>2, <2>2, <4>2, AbovePath
      <4>4. QED
        BY <2>1, <4>3 DEF r
    <3>2. QED
      BY <3>1
  <2>8. m <= k
    BY <1>1, <2>2, <2>3, <2>7
  <2>9. i + 1 \in 1 .. Len(log) /\ Replaced(i + 1, PathNode(l, m))
    BY <1>1, <2>2, <2>5 DEF Upset
  <2>10. Replaced(i + 1, PathNode(l, k))
    BY <1>0, <1>2, <2>2, <2>8, <2>9, ReplacedUp
  <2>11. Upset(i, v)
    BY <2>5, <2>6, <2>10 DEF Upset
  <2>12. QED
    BY <2>11
<1>9. QED
  BY <1>7, <1>8

LEMMA ViewRedeliver ==
    ASSUME LogsOk, ViewsOk, NEW p \in People, Redeliver(p)
    PROVE  InStep(p)' => ViewOk(p)'
<1> SUFFICES ASSUME InStep(p)' PROVE ViewOk(p)'
  OBVIOUS
<1>0. LogOk /\ PeopleOk /\ ChainOk /\ SeatsOk /\ JoinedOk
  BY DEF LogsOk, AgreeInv
<1>1. PICK r, i, l, t : /\ r = treekem_process(t, l, log[i].commit)
                        /\ i = epoch[p] /\ l = leaf[p] /\ t = tree[p]
  OBVIOUS
<1>2. /\ epoch[p] > 0 /\ tree' = [tree EXCEPT ![p] = r.tree]
      /\ epoch' = epoch /\ leaf' = leaf /\ log' = log /\ diverged' = diverged
  BY <1>1 DEF Redeliver
<1>3. tree'[p] = r.tree /\ epoch'[p] = i /\ leaf'[p] = l
  BY <1>0, <1>1, <1>2 DEF JoinedOk
<1>4. InStep(p)
  BY <1>2 DEF InStep, Roster
<1>5. ViewAt(t, i, l, p)
  BY <1>1, <1>4 DEF ViewsOk, ViewOk
<1>6. i \in 1 .. Len(log) /\ l \in Leaf /\ l \in Node /\ Sender(i) \in Leaf
  <2>1. i \in 1 .. Len(log)
    BY <1>0, <1>1, <1>2, LogLength DEF PeopleOk
  <2>2. QED
    BY <1>0, <1>1, <1>4, <2>1, EntryFacts, LeafType DEF InStep, JoinedOk
<1>7. Processed(log[i].commit, Sender(i), IdOf(i), l, t)
  BY <1>0, <1>6, EntryFacts, ProcessAt
<1>8. CASE l = Sender(i)
  <2>1. r.tree = t
    BY <1>1, <1>7, <1>8 DEF Processed
  <2>2. QED
    BY <1>2, <1>3, <1>5, <2>1, ViewKept
<1>9. CASE l # Sender(i)
  <2>1. \A v \in Node : ~ is_ancestor(v, Sender(i)) => r.tree[v] = t[v]
    BY <1>1, <1>7, <1>9 DEF Processed, Installed, Taken
  <2>2. \A v \in Node :
          is_ancestor(v, Sender(i)) =>
             /\ r.tree[v].pub = [id |-> IdOf(i), h |-> Height(Sender(i), v)]
             /\ r.ok /\ is_ancestor(v, l) =>
                   r.tree[v].priv = [id |-> IdOf(i), h |-> Height(Sender(i), v)]
    <3> SUFFICES ASSUME NEW v \in Node, is_ancestor(v, Sender(i))
                 PROVE  /\ r.tree[v].pub = [id |-> IdOf(i), h |-> Height(Sender(i), v)]
                        /\ r.ok /\ is_ancestor(v, l) =>
                              r.tree[v].priv = [id |-> IdOf(i), h |-> Height(Sender(i), v)]
      OBVIOUS
    <3> DEFINE key == [id |-> IdOf(i), h |-> Height(Sender(i), v)]
    <3>1. CASE r.ok
      <4>1. r.tree[v] = [pub |-> key, priv |-> IF is_ancestor(v, l) THEN key ELSE None]
        BY <1>1, <1>7, <3>1 DEF Processed, Taken
      <4> HIDE DEF key
      <4>2. r.tree[v].pub = key /\ (is_ancestor(v, l) => r.tree[v].priv = key)
        BY <4>1
      <4>3. QED
        BY <4>2 DEF key
    <3>2. CASE ~ r.ok
      <4>1. r.tree[v] = [pub |-> key, priv |-> None]
        BY <1>1, <1>7, <1>9, <3>2 DEF Processed, Installed
      <4>2. QED
        BY <3>2, <4>1
    <3>3. QED
      BY <3>1, <3>2
  <2>3. \A v \in Node : is_ancestor(v, Sender(i)) =>
                           Public(i, v) = [id |-> IdOf(i), h |-> Height(Sender(i), v)]
    BY <1>0, <1>6, EntryFacts
  <2>4. ASSUME NEW v \in Node, ~ Upset(i, v)
        PROVE  /\ ~ is_ancestor(v, l) => r.tree[v].pub = Public(i, v)
               /\ is_ancestor(v, l) /\ Public(i, v) # None => r.tree[v].priv = Public(i, v)
    <3>1. CASE ~ is_ancestor(v, Sender(i))
      BY <1>5, <2>1, <2>4, <3>1 DEF ViewAt
    <3>2. CASE is_ancestor(v, Sender(i))
      <4>1. is_ancestor(v, l) => r.ok
        BY <1>1, <1>2, <1>4, <1>5, <1>9, <2>4, <3>2, OpensAgain
      <4>2. QED
        BY <2>2, <2>3, <3>2, <4>1
    <3>3. QED
      BY <3>1, <3>2
  <2>5. r.tree[l] = t[l]
    BY <1>6, <1>9, <2>1, LeafAbove
  <2>6. ViewAt(r.tree, i, l, p)
    BY <1>5, <2>4, <2>5 DEF ViewAt
  <2>7. QED
    BY <1>2, <1>3, <2>6, ViewKept
<1>10. QED
  BY <1>8, <1>9

(***************************************************************************)
(* A joiner's tree is the one the commit that added it leads to.           *)
(***************************************************************************)
LEMMA ViewJoin ==
    ASSUME LogsOk, ViewsOk, NEW q \in People, Join(q)
    PROVE  ViewOk(q)' /\ JoinedOk'
<1>0. LogOk /\ PeopleOk /\ ChainOk /\ SeatsOk /\ JoinedOk
  BY DEF LogsOk, AgreeInv
<1>1. PICK i \in 1 .. Len(log) :
         /\ Added(i, q)
         /\ leaf' = [leaf EXCEPT ![q] = ChangeOf(i).leaf]
         /\ tree' = [tree EXCEPT ![q] = treekem_import(log[i].welcome, ChangeOf(i).leaf,
                                                       LeafKey(q))]
         /\ epoch' = [epoch EXCEPT ![q] = i - 1]
  BY DEF Join, Added, ChangeOf
<1>2. leaf[q] = 0 /\ log' = log
  BY DEF Join
<1>3. PICK l, t, e : /\ l = ChangeOf(i).leaf /\ e = i - 1
                     /\ t = treekem_import(log[i].welcome, l, LeafKey(q))
  OBVIOUS
<1>4. leaf'[q] = l /\ tree'[q] = t /\ epoch'[q] = e
  BY <1>0, <1>1, <1>3 DEF JoinedOk, PeopleOk
<1>5. Len(log) \in Nat /\ i \in Nat /\ i >= 1 /\ i <= Len(log) /\ e < Len(log) /\ e + 1 = i
      /\ e \in Nat
  BY <1>0, <1>3, LogLength
<1>6. HasLeaf(q, l) /\ l \in Leaf /\ l \in Node /\ q \in Roster(i)
  <2>1. HasLeaf(q, l) /\ q \in Roster(i)
    BY <1>0, <1>1, <1>3, RosterAt DEF HasLeaf
  <2>2. QED
    BY <1>0, <2>1, OneLeaf, LeafType
<1>7. \A v \in Node : t[v].pub = Public(i, v)
  BY <1>3, <1>5 DEF Public, treekem_import
<1>8. t[l].priv = LeafKey(q)
  BY <1>3, <1>6 DEF treekem_import
<1>9. ViewAt(t, e, l, q)
  <2>1. ASSUME NEW v \in Node, ~ Upset(e, v)
        PROVE  /\ ~ is_ancestor(v, l)
               /\ t[v].pub = Public(e, v)
    <3>1. ~ Touched(ChangeOf(i), v) /\ ~ is_ancestor(v, Sender(i))
      BY <1>5, <2>1 DEF Upset, Replaced
    <3>2. ~ is_ancestor(v, l)
      BY <1>1, <1>3, <3>1 DEF Touched, Added
    <3>3. Public(i, v) = Public(e, v)
      BY <1>0, <1>3, <3>1, EntryFacts DEF Changed
    <3>4. QED
      BY <1>7, <3>2, <3>3
  <2>2. t[l].pub # None
    <3>1. i \in 0 .. Len(log)
      BY <1>5
    <3>2. QED
      BY <1>0, <1>6, <1>7, <3>1 DEF SeatsOk
  <2>3. QED
    BY <1>8, <2>1, <2>2 DEF ViewAt
<1>10. ViewOk(q)'
  BY <1>2, <1>4, <1>9, ViewKept
<1>11. ASSUME NEW p \in People, leaf'[p] # 0 PROVE leaf'[p] \in Leaf /\ HasLeaf(p, leaf'[p])
  <2>1. CASE p = q
    BY <1>4, <1>6, <2>1
  <2>2. CASE p # q
    BY <1>0, <1>1, <1>11, <2>2 DEF JoinedOk, PeopleOk
  <2>3. QED
    BY <2>1, <2>2
<1>12. ASSUME NEW p \in People, NEW j \in 1 .. Len(log)
       PROVE  /\ leaf'[p] # 0 /\ Added(j, p) => epoch'[p] >= j - 1
              /\ log[j].by = p => leaf'[p] # 0 /\ j <= epoch'[p]
  <2>1. CASE p = q
    <3>1. log[j].by # p
      BY <1>0, <1>2, <2>1 DEF JoinedOk
    <3>2. Added(j, p) => j = i
      BY <1>0, <1>1, <2>1, AddedOnce
    <3>3. QED
      BY <1>3, <1>4, <1>5, <2>1, <3>1, <3>2
  <2>2. CASE p # q
    BY <1>0, <1>1, <2>2 DEF JoinedOk, PeopleOk
  <2>3. QED
    BY <2>1, <2>2
<1>13. ASSUME NEW p \in Founder PROVE leaf'[p] # 0
  <2>1. p \in People
    BY LeavesPositive, TreeKEMAssumption DEF Founder, People, NLeaves
  <2>2. QED
    BY <1>0, <1>1, <1>2, <2>1 DEF JoinedOk, PeopleOk
<1>14. tree' = [p \in People |-> tree'[p]]
  BY <1>0, <1>1 DEF JoinedOk
<1>15. JoinedOk'
  BY <1>2, <1>11, <1>12, <1>13, <1>14 DEF JoinedOk, HasLeaf, Added, ChangeOf
<1>16. QED
  BY <1>10, <1>15

(***************************************************************************)
(* The log with one more commit.                                           *)
(***************************************************************************)
NewKey(x, v) == treekem_import(x.welcome, 0, None)[v].pub

NewChange(x) ==
    LET n      == Len(log)
        change == x.change
    IN  /\ change.op \in {"none", "remove", "add"}
        /\ change.op = "none" => change.who = -1 /\ x.roster = Roster(n)
        /\ change.op = "remove" => /\ change.who \in Roster(n)
                                   /\ HasLeaf(change.who, change.leaf)
                                   /\ x.roster = Roster(n) \ {change.who}
        /\ change.op = "add" => /\ \A j \in 0 .. n : change.who \notin Roster(j)
                                /\ change.who \in People
                                /\ change.leaf \in Leaf
                                /\ Public(n, change.leaf) = None
                                /\ x.roster = Roster(n) \cup {change.who}

NewBoxes(x, s) ==
    \A h \in 1 .. Depth :
        LET sib == sibling(PathNode(s, h - 1))
            enc == x.commit.step[h].enc
        IN  /\ \A e \in enc : /\ e.recipient \in Node
                              /\ Under(e.recipient, sib)
                              /\ e.to = NewKey(x, e.recipient)
                              /\ e.to # None
            /\ \A l \in Leaf : is_ancestor(sib, l) /\ NewKey(x, l) # None =>
                  \E e \in enc : is_ancestor(e.recipient, l)

NewOk(x, s) ==
    /\ x.by \in People /\ x.by \in Roster(Len(log)) /\ x.by # x.change.who
    /\ HasLeaf(x.by, s)
    /\ Shaped(x.commit, s, fresh) /\ BoxesOf(x.commit, fresh)
    /\ x.root = [id |-> fresh, h |-> Depth]
    /\ \A v \in Node :
          NewKey(x, v) = IF is_ancestor(v, s)
                         THEN [id |-> fresh, h |-> Height(s, v)]
                         ELSE Changed(x.change, v, Public(Len(log), v))
    /\ NewChange(x)
    /\ NewBoxes(x, s)

LEMMA Extension ==
    ASSUME LogOk, NEW x, log' = Append(log, x)
    PROVE  /\ Len(log) \in Nat
           /\ Len(log') = Len(log) + 1
           /\ log'[Len(log) + 1] = x
           /\ \A j \in 1 .. Len(log) : log'[j] = log[j]
<1> DEFINE S == {log[j] : j \in 1 .. Len(log)} \cup {x}
<1>1. log \in Seq(S) /\ x \in S
  <2>1. log \in Seq({log[j] : j \in 1 .. Len(log)})
    BY DEF LogOk
  <2>2. QED
    BY <2>1
<1> HIDE DEF S
<1>2. QED
  BY <1>1

(* What was said of earlier commits is still so.                           *)
Unchanged(n) ==
    /\ \A j \in 1 .. n : Sender(j)' = Sender(j) /\ IdOf(j)' = IdOf(j)
                         /\ ChangeOf(j)' = ChangeOf(j)
    /\ \A j \in 0 .. n : Roster(j)' = Roster(j)
    /\ \A j \in 0 .. n : \A v \in Node : Public(j, v)' = Public(j, v)

LEMMA EarlierKept ==
    ASSUME LogOk, NEW x, log' = Append(log, x), NEW n, n = Len(log)
    PROVE  Unchanged(n)
<1>1. /\ n \in Nat /\ \A j \in 1 .. n : log'[j] = log[j]
  BY Extension
<1>2. ASSUME NEW j \in 1 .. n
      PROVE  Sender(j)' = Sender(j) /\ IdOf(j)' = IdOf(j) /\ ChangeOf(j)' = ChangeOf(j)
  BY <1>1 DEF Sender, IdOf, ChangeOf
<1>3. ASSUME NEW j \in 0 .. n PROVE Roster(j)' = Roster(j)
  BY <1>1 DEF Roster
<1>4. ASSUME NEW j \in 0 .. n, NEW v \in Node PROVE Public(j, v)' = Public(j, v)
  BY <1>1 DEF Public
<1>5. QED
  BY <1>2, <1>3, <1>4 DEF Unchanged

NewLeaf(x, p, l) == x.change.op = "add" /\ x.change.who = p /\ x.change.leaf = l

LEMMA LeafKept ==
    ASSUME LogOk, NEW x, log' = Append(log, x), NEW p, NEW l
    PROVE  /\ HasLeaf(p, l)' => HasLeaf(p, l) \/ NewLeaf(x, p, l)
           /\ HasLeaf(p, l) => HasLeaf(p, l)'
           /\ NewLeaf(x, p, l) => HasLeaf(p, l)'
<1>1. /\ Len(log) \in Nat /\ Len(log') = Len(log) + 1 /\ log'[Len(log) + 1] = x
      /\ \A j \in 1 .. Len(log) : log'[j] = log[j]
  BY Extension
<1>2. ASSUME HasLeaf(p, l)', ~ (p \in Founder /\ l = NLeaves + p)
      PROVE  HasLeaf(p, l) \/ NewLeaf(x, p, l)
  <2>1. PICK i \in 1 .. Len(log') : /\ log'[i].change.op = "add" /\ log'[i].change.who = p
                                    /\ log'[i].change.leaf = l
    BY <1>2 DEF HasLeaf, Added, ChangeOf
  <2>2. CASE i = Len(log) + 1
    BY <1>1, <2>1, <2>2 DEF NewLeaf
  <2>3. CASE i # Len(log) + 1
    <3>1. i \in 1 .. Len(log)
      BY <1>1, <2>3
    <3>2. QED
      BY <1>1, <2>1, <3>1 DEF HasLeaf, Added, ChangeOf
  <2>4. QED
    BY <2>2, <2>3
<1>3. ASSUME HasLeaf(p, l) PROVE HasLeaf(p, l)'
  <2>1. CASE p \in Founder /\ l = NLeaves + p
    BY <2>1 DEF HasLeaf
  <2>2. ASSUME NEW i \in 1 .. Len(log), Added(i, p), ChangeOf(i).leaf = l
        PROVE  HasLeaf(p, l)'
    <3>1. i \in 1 .. Len(log') /\ log'[i] = log[i]
      BY <1>1
    <3>2. QED
      BY <2>2, <3>1 DEF HasLeaf, Added, ChangeOf
  <2>3. QED
    BY <1>3, <2>1, <2>2 DEF HasLeaf
<1>4. ASSUME NewLeaf(x, p, l) PROVE HasLeaf(p, l)'
  <2>1. Len(log) + 1 \in 1 .. Len(log')
    BY <1>1
  <2>2. QED
    BY <1>1, <1>4, <2>1 DEF NewLeaf, HasLeaf, Added, ChangeOf
<1>5. QED
  BY <1>2, <1>3, <1>4 DEF HasLeaf

LEMMA ChainExtended ==
    ASSUME LogOk, ChainOk, NEW x, NEW s, NewOk(x, s), log' = Append(log, x),
           fresh' = fresh + 1
    PROVE  ChainOk'
<1>0. fresh \in Nat /\ NumPeople <= fresh /\ NumPeople \in Nat
  BY TreeKEMAssumption DEF ChainOk
<1>1. PICK n : n = Len(log)
  OBVIOUS
<1>2. /\ n \in Nat /\ Len(log') = n + 1 /\ log'[n + 1] = x
      /\ \A j \in 1 .. n : log'[j] = log[j]
  BY <1>1, Extension
<1>3. Unchanged(n)
  BY <1>1, EarlierKept
<1>4. ASSUME NEW i \in 1 .. n PROVE CommitOk(i)'
  <2>1. CommitOk(i) /\ IdOf(i) \in Nat /\ IdOf(i) < fresh
    BY <1>1 DEF ChainOk, CommitOk
  <2>2. IdOf(i) < fresh'
    BY <1>0, <2>1
  <2>3. i - 1 \in 0 .. n /\ i \in 0 .. n /\ \A j \in 1 .. i - 1 : j \in 1 .. n
    BY <1>2
  <2>4. HasLeaf(log[i].by, Sender(i))'
    BY <1>2, <1>3, <2>1, LeafKept DEF CommitOk, Unchanged
  <2>5. QED
    BY <1>2, <1>3, <2>1, <2>2, <2>3, <2>4 DEF CommitOk, Unchanged
<1>5. ASSUME NEW i \in 1 .. n PROVE ChangeOk(i)'
  <2>1. ChangeOk(i)
    BY <1>1 DEF ChainOk
  <2>2. i - 1 \in 0 .. n /\ i \in 0 .. n /\ \A j \in 0 .. i - 1 : j \in 0 .. n
    BY <1>2
  <2>3. HasLeaf(ChangeOf(i).who, ChangeOf(i).leaf) =>
            HasLeaf(ChangeOf(i).who, ChangeOf(i).leaf)'
    BY <1>3, LeafKept DEF Unchanged
  <2>4. \A l \in Leaf : l \in Node
    BY LeafType
  <2>5. QED
    BY <1>2, <1>3, <2>1, <2>2, <2>3, <2>4 DEF ChangeOk, Unchanged
<1>6. ASSUME NEW i \in 1 .. n PROVE BoxesOk(i)'
  <2>1. BoxesOk(i)
    BY <1>1 DEF ChainOk
  <2>2. i \in 0 .. n /\ \A l \in Leaf : l \in Node
    BY <1>2, LeafType
  <2>3. QED
    BY <1>2, <1>3, <2>1, <2>2 DEF BoxesOk, Unchanged
<1>7. /\ Sender(n + 1)' = s /\ IdOf(n + 1)' = fresh /\ ChangeOf(n + 1)' = x.change
      /\ \A v \in Node : Public(n + 1, v)' = NewKey(x, v)
      /\ (n + 1) - 1 = n /\ n \in 0 .. n
  <2>1. Sender(n + 1)' = s /\ IdOf(n + 1)' = fresh /\ ChangeOf(n + 1)' = x.change
    <3>1. x.commit.sender_leaf = s /\ x.commit.leaf_pub = [id |-> fresh, h |-> 0]
      BY ShapedReads DEF NewOk, Reads
    <3>2. QED
      BY <1>2, <3>1 DEF Sender, IdOf, ChangeOf
  <2>2. ASSUME NEW v \in Node PROVE Public(n + 1, v)' = NewKey(x, v)
    BY <1>2 DEF Public, NewKey
  <2>3. QED
    BY <1>2, <2>1, <2>2
<1>8. CommitOk(n + 1)'
  <2>1. \A j \in 1 .. n : IdOf(j) \in Nat /\ IdOf(j) < fresh
    BY <1>1 DEF ChainOk, CommitOk
  <2>2. HasLeaf(x.by, s)'
    BY LeafKept DEF NewOk
  <2>3. /\ log'[n + 1].by \in People /\ log'[n + 1].by \in Roster(n)'
        /\ log'[n + 1].by # log'[n + 1].change.who
    BY <1>1, <1>2, <1>3, <1>7 DEF NewOk, Unchanged
  <2>4. \A v \in Node :
          Public(n + 1, v)' = IF is_ancestor(v, s)
                              THEN [id |-> fresh, h |-> Height(s, v)]
                              ELSE Changed(x.change, v, Public(n, v)')
    BY <1>1, <1>3, <1>7 DEF NewOk, Unchanged
  <2>5. /\ Shaped(log'[n + 1].commit, s, fresh) /\ BoxesOf(log'[n + 1].commit, fresh)
        /\ log'[n + 1].root = [id |-> fresh, h |-> Depth]
        /\ log'[n + 1].change = x.change
    BY <1>2 DEF NewOk
  <2>6. \A j \in 1 .. n : IdOf(j)' < fresh
    BY <1>3, <2>1 DEF Unchanged
  <2>8. fresh \in Nat /\ NumPeople <= fresh /\ fresh < fresh'
    BY <1>0
  <2>9. HasLeaf(log[n + 1].by, Sender(n + 1))'
    BY <1>2, <1>7, <2>2 DEF HasLeaf
  <2>10. PICK m : m = n + 1
    OBVIOUS
  <2>11. m - 1 = n
    BY <1>7, <2>10
  <2>12. /\ log'[m].by \in People /\ log'[m].by \in Roster(m - 1)'
         /\ log'[m].by # log'[m].change.who
    BY <2>3, <2>10, <2>11
  <2>13. IdOf(m)' = fresh /\ Sender(m)' = s /\ \A j \in 1 .. m - 1 : IdOf(j)' < IdOf(m)'
    BY <1>7, <2>6, <2>10, <2>11
  <2>14. \A v \in Node :
          Public(m, v)' = IF is_ancestor(v, Sender(m)')
                          THEN [id |-> IdOf(m)', h |-> Height(Sender(m)', v)]
                          ELSE Changed(log'[m].change, v, Public(m - 1, v)')
    <3> SUFFICES ASSUME NEW v \in Node
                 PROVE  Public(m, v)' = IF is_ancestor(v, s)
                          THEN [id |-> fresh, h |-> Height(s, v)]
                          ELSE Changed(x.change, v, Public(m - 1, v)')
      BY <2>5, <2>10, <2>13
    <3>1. QED
      BY <2>4, <2>10, <2>11
  <2>15. HasLeaf(log[m].by, Sender(m))'
    BY <2>9, <2>10
  <2>16. CommitOk(m)'
    BY <2>5, <2>8, <2>10, <2>12, <2>13, <2>14, <2>15 DEF CommitOk
  <2>17. QED
    BY <2>10, <2>16
<1>9. ChangeOk(n + 1)'
  <2>1. NewChange(x)
    BY DEF NewOk
  <2>2. HasLeaf(x.change.who, x.change.leaf) => HasLeaf(x.change.who, x.change.leaf)'
    BY LeafKept
  <2>3. \A l \in Leaf : l \in Node
    BY LeafType
  <2>4. log'[n + 1].roster = x.roster
    BY <1>2
  <2>5. QED
    BY <1>1, <1>3, <1>7, <2>1, <2>2, <2>3, <2>4 DEF ChangeOk, NewChange, Unchanged
<1>10. BoxesOk(n + 1)'
  <2>1. NewBoxes(x, s) /\ \A l \in Leaf : l \in Node
    BY LeafType DEF NewOk
  <2>2. QED
    BY <1>2, <1>7, <2>1 DEF BoxesOk, NewBoxes
<1>11. \A i \in 1 .. Len(log') : i \in 1 .. n \/ i = n + 1
  BY <1>2
<1>12. fresh' \in Nat /\ NumPeople <= fresh'
  BY <1>0
<1>13. \A i \in 1 .. Len(log') : CommitOk(i)' /\ ChangeOk(i)' /\ BoxesOk(i)'
  BY <1>4, <1>5, <1>6, <1>8, <1>9, <1>10, <1>11
<1>14. QED
  BY <1>12, <1>13 DEF ChainOk

LEMMA KeysNotNone ==
    /\ \A p \in People : LeafKey(p) # None /\ LeafKey(p).id = p
    /\ \A id \in Nat : \A h : [id |-> id, h |-> h] # None
<1>1. \A id \in Nat : \A h : [id |-> id, h |-> h] # None
  <2> SUFFICES ASSUME NEW id \in Nat, NEW h PROVE [id |-> id, h |-> h] # None
    OBVIOUS
  <2>1. [id |-> id, h |-> h].id # None.id
    BY DEF None
  <2>2. QED
    BY <2>1
<1>2. \A p \in People : p \in Nat
  BY TreeKEMAssumption DEF People
<1>3. QED
  BY <1>1, <1>2 DEF LeafKey

LEMMA SeatsExtended ==
    ASSUME LogOk, ChainOk, SeatsOk, NEW x, NEW s, NewOk(x, s), log' = Append(log, x)
    PROVE  SeatsOk'
<1>0. fresh \in Nat
  BY DEF ChainOk
<1>1. PICK n : n = Len(log)
  OBVIOUS
<1>2. /\ n \in Nat /\ Len(log') = n + 1 /\ log'[n + 1] = x
      /\ \A j \in 1 .. n : log'[j] = log[j]
  BY <1>1, Extension
<1>3. Unchanged(n)
  BY <1>1, EarlierKept
<1>4. NewChange(x) /\ \A l \in Leaf : l \in Node
  BY LeafType DEF NewOk
<1>5. \A i \in 0 .. n : \A p, l : p \in Roster(i) => (HasLeaf(p, l)' => HasLeaf(p, l))
  <2> SUFFICES ASSUME NEW i \in 0 .. n, NEW p, NEW l, p \in Roster(i), NewLeaf(x, p, l)
               PROVE  FALSE
    BY LeafKept
  <2>1. QED
    BY <1>1, <1>4 DEF NewLeaf, NewChange
<1>6. ASSUME NEW i \in 0 .. n, NEW p \in Roster(i), NEW l \in Leaf, HasLeaf(p, l)'
      PROVE  /\ Public(i, l)' # None
             /\ \A q \in Roster(i) : HasLeaf(q, l)' => q = p
  <2>1. HasLeaf(p, l)
    BY <1>5, <1>6
  <2>2. Public(i, l) # None /\ \A q \in Roster(i) : HasLeaf(q, l) => q = p
    BY <1>1, <2>1 DEF SeatsOk
  <2>3. QED
    BY <1>3, <1>4, <1>5, <2>2 DEF Unchanged
<1>7. ASSUME NEW q \in x.roster, NEW k \in Leaf, HasLeaf(q, k)'
      PROVE  \/ NewLeaf(x, q, k) /\ Public(n, k) = None /\ q \in People
             \/ q \in Roster(n) /\ HasLeaf(q, k) /\ Public(n, k) # None
  <2>1. CASE q \in Roster(n)
    <3>1. HasLeaf(q, k)
      BY <1>2, <1>5, <1>7, <2>1
    <3>2. QED
      BY <1>1, <1>2, <2>1, <3>1 DEF SeatsOk
  <2>2. CASE q \notin Roster(n)
    <3>1. x.change.op = "add" /\ q = x.change.who
      BY <1>1, <1>4, <2>2 DEF NewChange
    <3>2. ~ HasLeaf(q, k)
      BY <1>1, <1>4, <3>1, OneLeaf DEF NewChange
    <3>3. QED
      BY <1>1, <1>4, <1>7, <3>1, <3>2, LeafKept DEF NewChange, NewLeaf
  <2>3. QED
    BY <2>1, <2>2
<1>8. ASSUME NEW p \in x.roster, NEW l \in Leaf, HasLeaf(p, l)'
      PROVE  /\ NewKey(x, l) # None
             /\ \A q \in x.roster : HasLeaf(q, l)' => q = p
  <2>1. \A q \in x.roster : HasLeaf(q, l)' => q = p
    BY <1>1, <1>2, <1>7, <1>8 DEF NewLeaf, SeatsOk
  <2>2. s \in Leaf /\ (is_ancestor(l, s) <=> l = s) /\ l \in Node
    BY <1>4, LeafAbove DEF NewOk, Shaped
  <2>3. NewKey(x, l) = IF is_ancestor(l, s)
                       THEN [id |-> fresh, h |-> Height(s, l)]
                       ELSE Changed(x.change, l, Public(n, l))
    BY <1>1, <2>2 DEF NewOk
  <2>4. CASE is_ancestor(l, s)
    BY <1>0, <2>1, <2>3, <2>4, KeysNotNone
  <2>5. CASE ~ is_ancestor(l, s)
    <3>1. CASE NewLeaf(x, p, l) /\ Public(n, l) = None /\ p \in People
      <4>1. Changed(x.change, l, Public(n, l)) = LeafKey(p)
        BY <3>1, AboveSelf DEF Changed, Touched, NewLeaf
      <4>2. QED
        BY <2>1, <2>3, <2>5, <3>1, <4>1, KeysNotNone
    <3>2. CASE p \in Roster(n) /\ HasLeaf(p, l) /\ Public(n, l) # None
      <4>1. ASSUME Touched(x.change, l) PROVE FALSE
        <5>1. x.change.op = "add" => FALSE
          <6> SUFFICES ASSUME x.change.op = "add" PROVE FALSE
            OBVIOUS
          <6>1. x.change.leaf \in Leaf /\ Public(n, x.change.leaf) = None
            BY <1>1, <1>4 DEF NewChange
          <6>2. l = x.change.leaf
            BY <4>1, <6>1, LeafAbove DEF Touched
          <6>3. QED
            BY <3>2, <6>1, <6>2
        <5>2. x.change.op = "remove" => FALSE
          <6> SUFFICES ASSUME x.change.op = "remove" PROVE FALSE
            OBVIOUS
          <6>1. /\ x.change.who \in Roster(n) /\ HasLeaf(x.change.who, x.change.leaf)
                /\ x.roster = Roster(n) \ {x.change.who}
            BY <1>1, <1>4 DEF NewChange
          <6>2. x.change.leaf \in Leaf
            BY <6>1, OneLeaf
          <6>3. l = x.change.leaf
            BY <4>1, <6>2, LeafAbove DEF Touched
          <6>4. x.change.who = p
            BY <1>1, <1>2, <3>2, <6>1, <6>3 DEF SeatsOk
          <6>5. QED
            BY <6>1, <6>4
        <5>3. QED
          BY <1>4, <4>1, <5>1, <5>2 DEF NewChange, Touched
      <4>2. QED
        BY <2>1, <2>3, <2>5, <3>2, <4>1 DEF Changed
    <3>3. QED
      BY <1>7, <1>8, <3>1, <3>2
  <2>6. QED
    BY <2>4, <2>5
<1>9. Roster(n + 1)' = x.roster /\ \A l \in Node : Public(n + 1, l)' = NewKey(x, l)
  BY <1>2 DEF Roster, Public, NewKey
<1>10. ASSUME NEW i \in 0 .. Len(log') PROVE i \in 0 .. n \/ i = n + 1
  BY <1>2
<1>11. ASSUME NEW i \in 0 .. Len(log'), NEW p \in Roster(i)', NEW l \in Leaf, HasLeaf(p, l)'
       PROVE  /\ Public(i, l)' # None
              /\ \A q \in Roster(i)' : HasLeaf(q, l)' => q = p
  <2>1. CASE i \in 0 .. n
    BY <1>3, <1>6, <1>11, <2>1 DEF Unchanged
  <2>2. CASE i = n + 1
    BY <1>4, <1>8, <1>9, <1>11, <2>2
  <2>3. QED
    BY <1>10, <2>1, <2>2
<1>12. QED
  BY <1>11 DEF SeatsOk

(* Who commits has processed what it commits after, and whoever else has a *)
(* leaf keeps it.                                                          *)
LEMMA JoinedExtended ==
    ASSUME LogOk, PeopleOk, ChainOk, JoinedOk, NEW x, NEW s, NewOk(x, s),
           log' = Append(log, x), leaf' = leaf, tree' = [q \in People |-> tree'[q]],
           leaf[x.by] # 0, epoch' = [epoch EXCEPT ![x.by] = Len(log) + 1]
    PROVE  JoinedOk'
<1>1. PICK n : n = Len(log)
  OBVIOUS
<1>2. /\ n \in Nat /\ Len(log') = n + 1 /\ log'[n + 1] = x
      /\ \A j \in 1 .. n : log'[j] = log[j]
  BY <1>1, Extension
<1>3. /\ \A p \in People : epoch[p] \in Nat /\ epoch[p] <= n
      /\ \A p \in People : epoch'[p] = IF p = x.by THEN n + 1 ELSE epoch[p]
  BY <1>1 DEF PeopleOk
<1>4. ASSUME NEW p \in People, leaf'[p] # 0 PROVE leaf'[p] \in Leaf /\ HasLeaf(p, leaf[p])'
  <2>1. leaf[p] \in Leaf /\ HasLeaf(p, leaf[p])
    BY <1>4 DEF JoinedOk
  <2>2. PICK l : l = leaf[p]
    OBVIOUS
  <2>3. HasLeaf(p, l)'
    BY <2>1, <2>2, LeafKept
  <2>4. QED
    BY <2>1, <2>2, <2>3 DEF HasLeaf
<1>5. ASSUME NEW p \in People, NEW i \in 1 .. Len(log')
      PROVE  /\ leaf'[p] # 0 /\ Added(i, p)' => epoch'[p] >= i - 1
             /\ log'[i].by = p => leaf'[p] # 0 /\ i <= epoch'[p]
  <2>1. CASE i = n + 1
    <3>1. Added(i, p)' => x.change.op = "add" /\ x.change.who = p
      BY <1>2, <2>1 DEF Added, ChangeOf
    <3>2. leaf[p] # 0 => ~ (x.change.op = "add" /\ x.change.who = p)
      <4> SUFFICES ASSUME leaf[p] # 0, x.change.op = "add", x.change.who = p PROVE FALSE
        OBVIOUS
      <4>1. \E j \in 0 .. Len(log) : p \in Roster(j)
        BY OneLeaf DEF JoinedOk
      <4>2. QED
        BY <4>1 DEF NewOk, NewChange
    <3>3. QED
      BY <1>2, <1>3, <2>1, <3>1, <3>2
  <2>2. CASE i # n + 1
    <3>1. i \in 1 .. n
      BY <1>2, <2>2
    <3>2. Added(i, p)' <=> Added(i, p)
      BY <1>2, <3>1 DEF Added, ChangeOf
    <3>3. /\ leaf[p] # 0 /\ Added(i, p) => epoch[p] >= i - 1
          /\ log[i].by = p => leaf[p] # 0 /\ i <= epoch[p]
      BY <1>1, <3>1 DEF JoinedOk
    <3>4. QED
      BY <1>2, <1>3, <3>1, <3>2, <3>3
  <2>3. QED
    BY <2>1, <2>2
<1>6. QED
  BY <1>4, <1>5 DEF JoinedOk

(***************************************************************************)
(* The commit a member makes.                                              *)
(***************************************************************************)
LEMMA ExportImport ==
    ASSUME NEW t, NEW v \in Node
    PROVE  treekem_import(treekem_export(t), 0, None)[v].pub = t[v].pub
<1> DEFINE w == treekem_export(t)
<1>1. w = {[node |-> u, pub |-> t[u].pub] : u \in {u \in Node : t[u].pub # None}}
  BY DEF treekem_export
<1>2. treekem_import(w, 0, None)[v].pub =
          IF \E e \in w : e.node = v THEN (CHOOSE e \in w : e.node = v).pub ELSE None
  BY DEF treekem_import
<1>3. CASE t[v].pub # None
  <2>1. [node |-> v, pub |-> t[v].pub] \in w
    BY <1>1, <1>3
  <2>2. \E e \in w : e.node = v
    BY <2>1
  <2>3. \A e \in w : e.node = v => e.pub = t[v].pub
    BY <1>1
  <2>4. (CHOOSE e \in w : e.node = v).pub = t[v].pub
    <3> HIDE DEF w
    <3>1. QED
      BY <2>2, <2>3
  <2>5. QED
    BY <1>2, <2>2, <2>4
<1>4. CASE t[v].pub = None
  <2>1. ~ \E e \in w : e.node = v
    BY <1>1, <1>4
  <2>2. QED
    BY <1>2, <1>4, <2>1
<1>5. QED
  BY <1>3, <1>4

LEMMA SiblingNode ==
    ASSUME NEW l \in Leaf, NEW h \in 1 .. Depth
    PROVE  /\ sibling(PathNode(l, h - 1)) \in Node
           /\ ~ is_ancestor(sibling(PathNode(l, h - 1)), l)
<1>0. Depth \in Nat /\ l \in Nat /\ h \in Nat /\ h >= 1 /\ h <= Depth
  BY DepthType, LeafType
<1> DEFINE v == PathNode(l, h - 1)
           d == Depth - h
<1>1. h - 1 \in 0 .. Depth /\ h - 1 \in 0 .. Depth - 1 /\ d \in Nat /\ Depth - (h - 1) = d + 1
  BY <1>0
<1>2. v \in Nat /\ v >= 2
  <2> DEFINE g == h - 1
  <2>1. g \in Nat /\ g \in 0 .. Depth - 1
    BY <1>0
  <2> HIDE DEF g
  <2>2. PathNode(l, g) \in Nat /\ PathNode(l, g) >= 2
    BY <1>0, <2>1, PathTop, PathUp
  <2>3. QED
    BY <2>2 DEF g
<1>3. InLevel(v, d + 1)
  <2>1. InLevel(v, Depth - (h - 1))
    BY <1>1, PathLevel
  <2>2. QED
    BY <1>1, <2>1
<1> HIDE DEF v, d
<1>4. /\ sibling(v) \in Nat /\ sibling(v) >= 2 /\ InLevel(sibling(v), d + 1)
  BY <1>1, <1>2, <1>3, SiblingIs, SiblingLevel
<1>5. d + 1 <= Depth /\ d + 1 \in Nat
  BY <1>0 DEF d
<1>6. sibling(v) < 2 * NLeaves
  <2>1. sibling(v) < 2 * 2 ^ (d + 1)
    BY <1>4 DEF InLevel
  <2>2. CASE d + 1 = Depth
    BY <2>1, <2>2 DEF NLeaves
  <2>3. CASE d + 1 < Depth
    <3> DEFINE e == d + 1
               a == 2 ^ e
               b == 2 ^ Depth
               w == sibling(v)
    <3>1. a \in Nat /\ b \in Nat /\ 2 * a <= b /\ w \in Nat
      <4> HIDE DEF e
      <4>1. e \in Nat /\ e < Depth /\ Depth \in Nat
        BY <1>0, <1>5, <2>3 DEF e
      <4>2. QED
        BY <1>4, <4>1, PowerGrows, PowerPositive
    <3>2. w < 2 * a
      BY <2>1
    <3> HIDE DEF a, b, w
    <3>3. w < 2 * b
      BY <3>1, <3>2
    <3>4. QED
      BY <3>3 DEF b, w, NLeaves
  <2>4. QED
    BY <1>0, <1>5, <2>2, <2>3
<1>7. sibling(v) \in Node
  BY <1>4, <1>6, LeavesPositive DEF Node
<1>8. ~ is_ancestor(sibling(v), l)
  BY PathSibling DEF v
<1>9. QED
  BY <1>7, <1>8 DEF v

(* What the layer above asks for fits the log.                             *)
LEMMA ChangeFits ==
    ASSUME LogsOk, ViewsOk, NEW p \in People, NEW change \in Changes(p), CanCommit(p)
    PROVE  /\ InStep(p) /\ ViewOk(p) /\ leaf[p] \in Leaf /\ HasLeaf(p, leaf[p])
           /\ epoch[p] = Len(log) /\ p \in Roster(Len(log))
           /\ \A v \in Node :
                 ~ is_ancestor(v, leaf[p]) => tree[p][v].pub = Public(Len(log), v)
           /\ change.op \in {"none", "remove", "add"}
           /\ change.who # p
           /\ change.op = "none" => change.who = -1
           /\ change.op = "remove" => /\ change.who \in Roster(Len(log))
                                      /\ HasLeaf(change.who, change.leaf)
           /\ change.op = "add" => /\ \A j \in 0 .. Len(log) : change.who \notin Roster(j)
                                   /\ change.who \in People
                                   /\ change.leaf \in Leaf
                                   /\ Public(Len(log), change.leaf) = None
<1> DEFINE n == Len(log)
           l == leaf[p]
<1>0. LogOk /\ PeopleOk /\ ChainOk /\ SeatsOk /\ JoinedOk /\ n \in Nat
  BY LogLength DEF LogsOk, AgreeInv
<1>1. epoch[p] = n /\ p \in Roster(n) /\ p \notin diverged
  BY DEF CanCommit, Member
<1>2. l # 0
  <2>1. CASE p \in Founder
    BY <1>0, <2>1 DEF JoinedOk
  <2>2. CASE p \notin Founder
    BY <2>2, CommittersHaveLeaves DEF LogsOk
  <2>3. QED
    BY <2>1, <2>2
<1>3. l \in Leaf /\ HasLeaf(p, l)
  BY <1>0, <1>2 DEF JoinedOk
<1>4. InStep(p)
  BY <1>0, <1>1, <1>2 DEF InStep
<1>5. ViewOk(p)
  BY <1>4 DEF ViewsOk
<1>6. /\ \A v \in Node : ~ is_ancestor(v, l) => tree[p][v].pub = Public(n, v)
      /\ tree[p][l].pub # None
  BY <1>0, <1>1, <1>5 DEF ViewOk, ViewAt, Upset
<1>7. CASE change = NoChange
  <2>1. p \in Nat
    BY TreeKEMAssumption DEF People
  <2>2. change.op = "none" /\ change.who = -1
    BY <1>7 DEF NoChange
  <2>3. QED
    BY <1>1, <1>3, <1>4, <1>5, <1>6, <2>1, <2>2
<1>8. CASE change \in {[op |-> "remove", who |-> q, leaf |-> leaf[q]]
                         : q \in {q \in Roster(n) : q # p /\ leaf[q] # 0}}
  <2>1. PICK q : /\ q \in Roster(n) /\ q # p /\ leaf[q] # 0
                 /\ change = [op |-> "remove", who |-> q, leaf |-> leaf[q]]
    BY <1>8
  <2>2. q \in People
    <3>1. q \in Founder => q \in People
      BY LeavesPositive, TreeKEMAssumption DEF Founder, People, NLeaves
    <3>2. ASSUME n # 0 PROVE q \in People
      <4> DEFINE S == {j \in Nat : j <= n => Roster(j) \subseteq People}
      <4>1. 0 \in S
        <5>1. Founder \subseteq People
          BY LeavesPositive, TreeKEMAssumption DEF Founder, People, NLeaves
        <5>2. QED
          BY <5>1 DEF Roster
      <4>2. ASSUME NEW j \in Nat, j \in S PROVE j + 1 \in S
        <5> SUFFICES ASSUME j + 1 <= n PROVE Roster(j + 1) \subseteq People
          OBVIOUS
        <5>1. j + 1 \in 1 .. Len(log) /\ (j + 1) - 1 = j /\ Roster(j) \subseteq People
          BY <1>0, <4>2
        <5>2. \A r : r \in Roster(j + 1) /\ r \notin Roster((j + 1) - 1) => r \in People
          BY <1>0, <5>1, RosterAt
        <5>3. QED
          BY <5>1, <5>2
      <4> HIDE DEF S
      <4>3. n \in S
        BY <1>0, <4>1, <4>2, AllNumbers
      <4>4. QED
        BY <2>1, <4>3 DEF S
    <3>3. QED
      BY <2>1, <3>1, <3>2 DEF Roster
  <2>3. HasLeaf(q, leaf[q])
    BY <1>0, <2>1, <2>2 DEF JoinedOk
  <2>4. change.op = "remove" /\ change.who = q /\ change.leaf = leaf[q]
    BY <2>1
  <2>5. QED
    BY <1>1, <1>3, <1>4, <1>5, <1>6, <2>1, <2>3, <2>4
<1>9. CASE /\ FreeLeaves(tree[p]) # {}
           /\ change \in {[op |-> "add", who |-> q, leaf |-> treekem_free_leaf(tree[p])]
                            : q \in {q \in People :
                                       \A i \in 0 .. Len(log) : q \notin Roster(i)}}
  <2>1. PICK q \in People : /\ \A i \in 0 .. Len(log) : q \notin Roster(i)
                            /\ change.op = "add" /\ change.who = q
                            /\ change.leaf = treekem_free_leaf(tree[p])
    BY <1>9
  <2>2. treekem_free_leaf(tree[p]) \in FreeLeaves(tree[p])
    <3>1. FreeLeaves(tree[p]) \subseteq Nat
      BY LeafType DEF FreeLeaves
    <3>2. QED
      BY <1>9, <3>1, Lowest DEF treekem_free_leaf
  <2>3. change.leaf \in Leaf /\ tree[p][change.leaf].pub = None
    BY <2>1, <2>2 DEF FreeLeaves
  <2>4. change.leaf \in Node /\ ~ is_ancestor(change.leaf, l)
    BY <1>3, <1>6, <2>3, LeafAbove, LeafType
  <2>5. Public(n, change.leaf) = None
    BY <1>6, <2>3, <2>4
  <2>6. p # q
    BY <1>0, <1>1, <2>1
  <2>7. QED
    BY <1>1, <1>3, <1>4, <1>5, <1>6, <2>1, <2>3, <2>5, <2>6
<1>10. QED
  BY <1>7, <1>8, <1>9 DEF Changes

(* The boxes of a commit, in terms of the tree they were sealed with.      *)
SealedFrom(c, l, t) ==
    \A h \in 1 .. Depth :
        LET sib == sibling(PathNode(l, h - 1))
            enc == c.step[h].enc
        IN  /\ \A e \in enc : /\ e.recipient \in Node
                              /\ Under(e.recipient, sib)
                              /\ ~ is_ancestor(e.recipient, l)
                              /\ e.to = t[e.recipient].pub
                              /\ e.to # None
            /\ \A k \in Leaf : is_ancestor(sib, k) /\ t[k].pub # None =>
                  /\ ~ is_ancestor(k, l)
                  /\ \E e \in enc : is_ancestor(e.recipient, k)

LEMMA CommitAt ==
    ASSUME NEW l \in Leaf, NEW t, NEW id, NEW c, c = treekem_commit(t, l, id)
    PROVE  Shaped(c, l, id) /\ BoxesOf(c, id) /\ SealedFrom(c, l, t)
<1>1. \A h \in 1 .. Depth : c.step[h].enc = seal_ps(t, id, h, PathNode(l, h - 1))
  BY DEF treekem_commit
<1>2. Shaped(c, l, id)
  <2>1. c = [sender_leaf |-> l,
             leaf_pub    |-> [id |-> id, h |-> 0],
             step        |-> c.step]
    BY DEF treekem_commit
  <2>2. c.step = [h \in 1 .. Depth |-> [node |-> PathNode(l, h), pub |-> [id |-> id, h |-> h],
                                        enc |-> c.step[h].enc]]
    BY <1>1 DEF treekem_commit
  <2>3. QED
    BY <2>1, <2>2 DEF Shaped
<1>3. BoxesOf(c, id)
  BY <1>1 DEF BoxesOf, seal_ps
<1>4. ASSUME NEW h \in 1 .. Depth
      PROVE  LET sib == sibling(PathNode(l, h - 1))
                 enc == c.step[h].enc
             IN  /\ \A e \in enc : /\ e.recipient \in Node
                                   /\ Under(e.recipient, sib)
                                   /\ ~ is_ancestor(e.recipient, l)
                                   /\ e.to = t[e.recipient].pub
                                   /\ e.to # None
                 /\ \A k \in Leaf : is_ancestor(sib, k) /\ t[k].pub # None =>
                       /\ ~ is_ancestor(k, l)
                       /\ \E e \in enc : is_ancestor(e.recipient, k)
  <2> DEFINE sib == sibling(PathNode(l, h - 1))
             enc == c.step[h].enc
             res == resolution(t)[sib]
  <2>1. enc = {[recipient |-> r, to |-> t[r].pub, ps |-> [id |-> id, h |-> h]] : r \in res}
    BY <1>1 DEF seal_ps
  <2>2. sib \in Node /\ ~ is_ancestor(sib, l)
    BY SiblingNode
  <2>3. Resolved(t, sib, res)
    BY <2>2, ResolutionCovers
  <2>4. \A r \in res : r \in Node /\ t[r].pub # None /\ Under(r, sib)
    BY <2>3 DEF Resolved
  <2>5. \A r \in res : ~ is_ancestor(r, l)
    BY <2>2, <2>4 DEF Under
  <2>6. ASSUME NEW k \in Leaf, is_ancestor(sib, k), t[k].pub # None
        PROVE  ~ is_ancestor(k, l) /\ \E e \in enc : is_ancestor(e.recipient, k)
    <3>1. PICK r \in res : is_ancestor(r, k)
      BY <2>3, <2>6 DEF Resolved
    <3>2. \E e \in enc : is_ancestor(e.recipient, k)
      <4>1. [recipient |-> r, to |-> t[r].pub, ps |-> [id |-> id, h |-> h]] \in enc
        BY <2>1, <3>1
      <4> HIDE DEF enc
      <4>2. QED
        BY <3>1, <4>1
    <3>3. ~ is_ancestor(k, l)
      BY <2>2, <2>6, LeafAbove
    <3>4. QED
      BY <3>2, <3>3
  <2>7. ASSUME NEW e \in enc
        PROVE  /\ e.recipient \in Node /\ Under(e.recipient, sib)
               /\ ~ is_ancestor(e.recipient, l)
               /\ e.to = t[e.recipient].pub /\ e.to # None
    <3>1. PICK r \in res : /\ e = [recipient |-> r, to |-> t[r].pub,
                                   ps |-> [id |-> id, h |-> h]]
      BY <2>1
    <3>2. QED
      BY <2>4, <2>5, <3>1
  <2>8. QED
    BY <2>6, <2>7
<1>5. SealedFrom(c, l, t)
  BY <1>4 DEF SealedFrom
<1>6. QED
  BY <1>2, <1>3, <1>5

RosterAfter(change) ==
    CASE change.op = "none"   -> Roster(Len(log))
      [] change.op = "remove" -> Roster(Len(log)) \ {change.who}
      [] change.op = "add"    -> Roster(Len(log)) \cup {change.who}

CommitMade(x, l, done) ==
    /\ NewOk(x, l)
    /\ \A v \in Node : /\ done[v].pub = NewKey(x, v)
                       /\ is_ancestor(v, l) => done[v].priv = NewKey(x, v)

LEMMA NewCommit ==
    ASSUME LogsOk, ViewsOk, NEW p \in People, NEW change \in Changes(p), CanCommit(p),
           NEW t, t = Apply(tree[p], change),
           NEW l, l = leaf[p],
           NEW done, done = Rekey(t, l, fresh, Depth),
           NEW x, x.commit = treekem_commit(t, l, fresh), x.by = p, x.change = change,
           x.welcome = treekem_export(done), x.root = [id |-> fresh, h |-> Depth],
           x.roster = RosterAfter(change)
    PROVE  CommitMade(x, l, done)
<1>0. /\ l \in Leaf /\ HasLeaf(p, l) /\ p \in Roster(Len(log))
      /\ \A v \in Node : ~ is_ancestor(v, l) => tree[p][v].pub = Public(Len(log), v)
      /\ change.op \in {"none", "remove", "add"} /\ change.who # p
  BY ChangeFits
<1>1. change.op = "add" => change.leaf \in Leaf
  BY ChangeFits
<1>2. \A v \in Node : done[v].pub = NewKey(x, v)
  BY ExportImport DEF NewKey
<1>3. ASSUME NEW v \in Node
      PROVE  /\ is_ancestor(v, l) => /\ done[v].pub = [id |-> fresh, h |-> Height(l, v)]
                                     /\ done[v].priv = done[v].pub
             /\ ~ is_ancestor(v, l) =>
                   /\ done[v].pub = t[v].pub
                   /\ t[v].pub = Changed(change, v, Public(Len(log), v))
  <2>1. 0 <= Depth /\ Depth \in 0 .. Depth
    BY DepthType
  <2>2. is_ancestor(v, l) => Height(l, v) <= Depth
    BY <1>0, DepthType, HeightIs
  <2>3. t[v].pub = Changed(change, v, tree[p][v].pub)
    BY <1>0, <1>1, ApplyAt
  <2>4. done[v] = IF is_ancestor(v, l)
                  THEN [pub  |-> [id |-> fresh, h |-> Height(l, v)],
                        priv |-> [id |-> fresh, h |-> Height(l, v)]]
                  ELSE t[v]
    BY <1>0, <2>1, <2>2, RekeyAt
  <2>5. QED
    BY <1>0, <2>3, <2>4
<1>4. \A v \in Node :
         NewKey(x, v) = IF is_ancestor(v, l)
                        THEN [id |-> fresh, h |-> Height(l, v)]
                        ELSE Changed(x.change, v, Public(Len(log), v))
  BY <1>2, <1>3
<1>5. Shaped(x.commit, l, fresh) /\ BoxesOf(x.commit, fresh) /\ SealedFrom(x.commit, l, t)
  BY <1>0, CommitAt
<1>6. \A v \in Node : ~ is_ancestor(v, l) => NewKey(x, v) = t[v].pub
  BY <1>2, <1>3
<1>7. NewBoxes(x, l)
  <2> SUFFICES ASSUME NEW h \in 1 .. Depth
               PROVE  LET sib == sibling(PathNode(l, h - 1))
                          enc == x.commit.step[h].enc
                      IN  /\ \A e \in enc : /\ e.recipient \in Node
                                            /\ Under(e.recipient, sib)
                                            /\ e.to = NewKey(x, e.recipient)
                                            /\ e.to # None
                          /\ \A k \in Leaf : is_ancestor(sib, k) /\ NewKey(x, k) # None =>
                                \E e \in enc : is_ancestor(e.recipient, k)
    BY DEF NewBoxes
  <2> DEFINE sib == sibling(PathNode(l, h - 1))
             enc == x.commit.step[h].enc
  <2>1. /\ \A e \in enc : /\ e.recipient \in Node
                          /\ Under(e.recipient, sib)
                          /\ ~ is_ancestor(e.recipient, l)
                          /\ e.to = t[e.recipient].pub
                          /\ e.to # None
        /\ \A k \in Leaf : is_ancestor(sib, k) /\ t[k].pub # None =>
              /\ ~ is_ancestor(k, l)
              /\ \E e \in enc : is_ancestor(e.recipient, k)
    BY <1>5 DEF SealedFrom
  <2>2. \A k \in Leaf : is_ancestor(sib, k) => ~ is_ancestor(k, l) /\ k \in Node
    BY <1>0, LeafAbove, LeafType, SiblingNode
  <2>3. QED
    BY <1>6, <2>1, <2>2
<1>8. NewChange(x)
  <2>1. /\ change.op = "none" => change.who = -1
        /\ change.op = "remove" => /\ change.who \in Roster(Len(log))
                                   /\ HasLeaf(change.who, change.leaf)
        /\ change.op = "add" => /\ \A j \in 0 .. Len(log) : change.who \notin Roster(j)
                                /\ change.who \in People
                                /\ change.leaf \in Leaf
                                /\ Public(Len(log), change.leaf) = None
    BY ChangeFits
  <2>2. /\ change.op = "none" => x.roster = Roster(Len(log))
        /\ change.op = "remove" => x.roster = Roster(Len(log)) \ {change.who}
        /\ change.op = "add" => x.roster = Roster(Len(log)) \cup {change.who}
    BY <1>0 DEF RosterAfter
  <2>3. QED
    BY <1>0, <2>1, <2>2 DEF NewChange
<1>9. NewOk(x, l)
  BY <1>0, <1>4, <1>5, <1>7, <1>8 DEF NewOk
<1>10. \A v \in Node : is_ancestor(v, l) => done[v].priv = NewKey(x, v)
  BY <1>3, <1>4
<1>11. QED
  BY <1>2, <1>9, <1>10 DEF CommitMade

(* What a commit leaves of everybody else's view.                          *)
LEMMA ViewExtended ==
    ASSUME LogsOk, ViewsOk, NEW x, NEW s, NewOk(x, s), log' = Append(log, x),
           NEW q \in People, tree'[q] = tree[q], epoch'[q] = epoch[q], leaf'[q] = leaf[q],
           diverged' = diverged, InStep(q)'
    PROVE  ViewOk(q)'
<1> DEFINE n == Len(log)
           i == epoch[q]
           l == leaf[q]
<1>0. LogOk /\ PeopleOk /\ ChainOk /\ JoinedOk /\ n \in Nat /\ i \in Nat /\ i <= n
  BY LogLength DEF LogsOk, AgreeInv, PeopleOk
<1>1. /\ Len(log') = n + 1 /\ log'[n + 1] = x
      /\ \A j \in 1 .. n : log'[j] = log[j]
  BY <1>0, Extension
<1>2. Unchanged(n)
  BY <1>0, EarlierKept
<1>3. l # 0 /\ q \notin diverged
  BY DEF InStep
<1>4. /\ i < n + 1
      /\ q \in (IF i + 1 = 0 THEN Founder ELSE log'[i + 1].roster)
  BY <1>0, <1>1 DEF InStep, Roster
<1>5. CASE i < n
  <2>1. i + 1 \in 1 .. n /\ i \in 0 .. n /\ i + 1 \in 0 .. n
    BY <1>0, <1>5
  <2>2. q \in Roster(i + 1)
    BY <1>1, <1>4, <2>1 DEF Roster
  <2>3. ViewAt(tree[q], i, l, q)
    BY <1>3, <1>5, <2>2 DEF InStep, ViewsOk, ViewOk
  <2>4. \A v \in Node : Public(i, v)' = Public(i, v)
    BY <1>2, <2>1 DEF Unchanged
  <2>5. log'[i + 1] = log[i + 1]
    BY <1>1, <2>1
  <2>6. ASSUME NEW v \in Node
        PROVE  Upset(i, v) => i < Len(log') /\ ( \/ is_ancestor(v, log'[i + 1].commit.sender_leaf)
                                                 \/ Touched(log'[i + 1].change, v))
    BY <1>0, <1>1, <1>5, <2>5 DEF Upset, Replaced, Sender, ChangeOf
  <2>7. \A v \in Node : Upset(i, v) => Upset(epoch[q], v)'
    BY <2>6 DEF Upset, Replaced, Sender, ChangeOf
  <2>8. Added(i + 1, q)' => Added(i + 1, q)
    BY <2>5 DEF Added, ChangeOf
  <2>9. QED
    BY <1>5, <2>3, <2>4, <2>7, <2>8 DEF ViewOk, ViewAt
<1>6. CASE i = n
  <2>1. q \in x.roster
    BY <1>0, <1>1, <1>4, <1>6
  <2>2. ~(x.change.op = "add" /\ x.change.who = q)
    BY <1>0, <1>3, OneLeaf DEF JoinedOk, NewOk, NewChange
  <2>3. q \in Roster(n)
    BY <2>1, <2>2 DEF NewOk, NewChange
  <2>4. ViewAt(tree[q], i, l, q)
    BY <1>0, <1>3, <1>6, <2>3 DEF InStep, ViewsOk, ViewOk
  <2>5. \A v \in Node : Public(i, v)' = Public(i, v)
    BY <1>0, <1>2, <1>6 DEF Unchanged
  <2>6. \A v \in Node : ~ Upset(i, v)
    BY <1>0, <1>6 DEF Upset
  <2>7. ~ Added(i + 1, q)'
    BY <1>1, <1>6, <2>2 DEF Added, ChangeOf
  <2>8. QED
    BY <2>4, <2>5, <2>6, <2>7 DEF ViewOk, ViewAt
<1>7. QED
  BY <1>0, <1>5, <1>6

LEMMA ViewCommit ==
    ASSUME LogsOk, ViewsOk, NEW p \in People, NEW change \in Changes(p), Commit(p, change)
    PROVE  ChainOk' /\ SeatsOk' /\ JoinedOk' /\ ViewsOk'
<1> DEFINE n == Len(log)
           l == leaf[p]
           t == Apply(tree[p], change)
           done == Rekey(t, l, fresh, Depth)
           x == [commit  |-> treekem_commit(t, l, fresh),
                 by      |-> p,
                 change  |-> change,
                 welcome |-> treekem_export(done),
                 root    |-> [id |-> fresh, h |-> Depth],
                 roster  |->
                   CASE change.op = "none"   -> Roster(Len(log))
                     [] change.op = "remove" -> Roster(Len(log)) \ {change.who}
                     [] change.op = "add"    -> Roster(Len(log)) \cup {change.who}]
<1>0. LogOk /\ PeopleOk /\ ChainOk /\ SeatsOk /\ JoinedOk /\ n \in Nat
  BY LogLength DEF LogsOk, AgreeInv
<1>1. log' = Append(log, x) /\ tree' = [tree EXCEPT ![p] = done]
  BY Zenon DEF Commit
<1>2. /\ CanCommit(p) /\ epoch' = [epoch EXCEPT ![p] = Len(log) + 1]
      /\ fresh' = fresh + 1 /\ leaf' = leaf /\ diverged' = diverged
  BY DEF Commit
<1>3. /\ NewOk(x, l)
      /\ \A v \in Node : /\ done[v].pub = NewKey(x, v)
                         /\ is_ancestor(v, l) => done[v].priv = NewKey(x, v)
  <2>1. /\ x.commit = treekem_commit(t, l, fresh) /\ x.by = p /\ x.change = change
        /\ x.welcome = treekem_export(done) /\ x.root = [id |-> fresh, h |-> Depth]
        /\ x.roster = RosterAfter(change)
    BY DEF RosterAfter
  <2> HIDE DEF x, done, t, l
  <2>2. t = Apply(tree[p], change) /\ l = leaf[p] /\ done = Rekey(t, l, fresh, Depth)
    BY DEF t, l, done
  <2>3. CommitMade(x, l, done)
    BY <1>2, <2>1, <2>2, NewCommit
  <2>4. QED
    BY <2>3 DEF CommitMade
<1>4. /\ l \in Leaf /\ l # 0 /\ x.by = p
  BY <1>2, ChangeFits, LeafType, LeavesPositive
<1> HIDE DEF x, done, t
<1>5. ChainOk'
  BY <1>0, <1>1, <1>2, <1>3, ChainExtended
<1>6. SeatsOk'
  BY <1>0, <1>1, <1>3, SeatsExtended
<1>7. tree' = [q \in People |-> tree'[q]]
  BY <1>0, <1>1 DEF JoinedOk
<1>8. JoinedOk'
  BY <1>0, <1>1, <1>2, <1>3, <1>4, <1>7, JoinedExtended
<1>9. ASSUME NEW q \in People, q # p PROVE InStep(q)' => ViewOk(q)'
  <2>1. tree'[q] = tree[q] /\ epoch'[q] = epoch[q] /\ leaf'[q] = leaf[q]
    BY <1>0, <1>1, <1>2, <1>9 DEF JoinedOk, PeopleOk
  <2>2. QED
    BY <1>1, <1>2, <1>3, <2>1, ViewExtended
<1>10. ViewOk(p)'
  <2>1. /\ Len(log') = n + 1 /\ log'[n + 1] = x
    BY <1>0, <1>1, Extension
  <2>2. tree'[p] = done /\ epoch'[p] = n + 1 /\ leaf'[p] = l
    BY <1>0, <1>1, <1>2 DEF JoinedOk, PeopleOk
  <2>3. \A v : ~ Upset(epoch[p], v)'
    BY <1>0, <2>1, <2>2 DEF Upset
  <2>4. \A v : Public(epoch[p], v)' = NewKey(x, v)
    BY <1>0, <2>1, <2>2 DEF Public, NewKey
  <2>5. done[l].pub # None
    <3>1. l \in Node /\ is_ancestor(l, l)
      BY <1>4, AboveSelf, LeafType
    <3>2. done[l].pub = [id |-> fresh, h |-> Height(l, l)]
      BY <1>3, <3>1 DEF NewOk
    <3>3. QED
      BY <1>0, <3>2, KeysNotNone DEF ChainOk
  <2>6. ~(epoch[p] < Len(log))'
    BY <1>0, <2>1, <2>2
  <2>7. QED
    BY <1>3, <2>2, <2>3, <2>4, <2>5, <2>6 DEF ViewOk, ViewAt
<1>11. QED
  BY <1>5, <1>6, <1>8, <1>9, <1>10 DEF ViewsOk

LEMMA ViewCommitLost ==
    ASSUME LogsOk, ViewsOk, NEW p \in People, NEW k \in 0 .. Depth, CommitLost(p, k)
    PROVE  ChainOk' /\ SeatsOk' /\ JoinedOk' /\ ViewsOk'
<1>0. LogOk /\ PeopleOk /\ ChainOk /\ SeatsOk /\ JoinedOk
  BY DEF LogsOk, AgreeInv
<1>1. /\ tree' = [tree EXCEPT ![p] = Rekey(tree[p], leaf[p], fresh, k)]
      /\ diverged' = diverged \cup {p} /\ fresh' = fresh + 1
      /\ leaf' = leaf /\ epoch' = epoch /\ log' = log
  BY DEF CommitLost
<1>2. ChainOk' /\ SeatsOk'
  <2>1. fresh \in Nat
    BY <1>0 DEF ChainOk
  <2>2. fresh' \in Nat /\ fresh <= fresh'
    BY <1>1, <2>1
  <2>3. QED
    BY <1>0, <1>1, <2>2, ChainKept
<1>3. JoinedOk'
  <2>1. tree' = [q \in People |-> tree'[q]]
    BY <1>0, <1>1 DEF JoinedOk
  <2>2. epoch' \in [People -> Nat] /\ \A q \in People : epoch[q] <= epoch'[q]
    BY <1>0, <1>1 DEF PeopleOk
  <2>3. QED
    BY <1>0, <1>1, <2>1, <2>2, JoinedKept
<1>4. ASSUME NEW q \in People PROVE InStep(q)' => ViewOk(q)'
  <2>1. CASE q = p
    BY <1>1, <2>1 DEF InStep
  <2>2. CASE q # p
    <3>1. tree'[q] = tree[q]
      BY <1>0, <1>1, <2>2 DEF JoinedOk
    <3>2. QED
      BY <1>1, <3>1, BystanderKept
  <2>3. QED
    BY <2>1, <2>2
<1>5. QED
  BY <1>2, <1>3, <1>4 DEF ViewsOk

(* The steps that move one member's tree only.                             *)
LEMMA OneMoves ==
    ASSUME LogsOk, ViewsOk, NEW p \in People, NEW t, tree' = [tree EXCEPT ![p] = t],
           leaf' = leaf, log' = log, fresh' = fresh, diverged' = diverged,
           NEW e \in Nat, epoch[p] <= e, epoch' = [epoch EXCEPT ![p] = e],
           InStep(p)' => ViewOk(p)'
    PROVE  ChainOk' /\ SeatsOk' /\ JoinedOk' /\ ViewsOk'
<1>0. LogOk /\ PeopleOk /\ ChainOk /\ SeatsOk /\ JoinedOk /\ fresh \in Nat
  BY DEF LogsOk, AgreeInv, ChainOk
<1>1. ChainOk' /\ SeatsOk'
  BY <1>0, ChainKept
<1>2. epoch' \in [People -> Nat] /\ \A q \in People : epoch[q] <= epoch'[q]
  BY <1>0 DEF PeopleOk
<1>3. tree' = [q \in People |-> tree'[q]]
  BY <1>0 DEF JoinedOk
<1>4. JoinedOk'
  BY <1>0, <1>2, <1>3, JoinedKept
<1>5. ASSUME NEW q \in People, q # p PROVE InStep(q)' => ViewOk(q)'
  <2>1. tree'[q] = tree[q] /\ epoch'[q] = epoch[q]
    BY <1>0, <1>5 DEF JoinedOk, PeopleOk
  <2>2. QED
    BY <2>1, BystanderKept
<1>6. QED
  BY <1>1, <1>4, <1>5 DEF ViewsOk

LEMMA ViewStep == ViewInv /\ [Next]_vars => ViewInv'
<1> SUFFICES ASSUME ViewInv, [Next]_vars PROVE ViewInv'
  OBVIOUS
<1>0. LogsOk /\ ViewsOk /\ AgreeInv /\ ChainOk /\ SeatsOk /\ JoinedOk /\ PeopleOk
  BY DEF ViewInv, LogsOk, AgreeInv
<1>1. AgreeInv'
  BY <1>0, AgreeStep
<1>2. ASSUME NEW p \in People, NEW change \in Changes(p), Commit(p, change) PROVE ViewInv'
  BY <1>0, <1>1, <1>2, ViewCommit DEF ViewInv
<1>3. ASSUME NEW p \in People, NEW k \in 0 .. Depth, CommitLost(p, k) PROVE ViewInv'
  BY <1>0, <1>1, <1>3, ViewCommitLost DEF ViewInv
<1>4. ASSUME NEW p \in People, Join(p) PROVE ViewInv'
  <2>1. ViewOk(p)' /\ JoinedOk'
    BY <1>0, <1>4, ViewJoin
  <2>2. log' = log /\ fresh' = fresh /\ diverged' = diverged
    BY <1>4 DEF Join
  <2>3. \A q \in People : q # p => /\ tree'[q] = tree[q] /\ epoch'[q] = epoch[q]
                                   /\ leaf'[q] = leaf[q]
    <3>1. PICK i \in 1 .. Len(log) :
             /\ leaf' = [leaf EXCEPT ![p] = log[i].change.leaf]
             /\ tree' = [tree EXCEPT ![p] =
                           treekem_import(log[i].welcome, log[i].change.leaf, LeafKey(p))]
             /\ epoch' = [epoch EXCEPT ![p] = i - 1]
      BY <1>4 DEF Join
    <3>2. QED
      BY <1>0, <3>1 DEF JoinedOk, PeopleOk
  <2>4. \A q \in People : q # p => (InStep(q)' => ViewOk(q)')
    BY <1>0, <2>2, <2>3, BystanderKept
  <2>5. ChainOk' /\ SeatsOk'
    <3>1. fresh \in Nat
      BY <1>0 DEF ChainOk
    <3>2. QED
      BY <1>0, <2>2, <3>1, ChainKept
  <2>6. QED
    BY <1>1, <2>1, <2>4, <2>5 DEF ViewInv, ViewsOk
<1>5. ASSUME NEW p \in People, Process(p) PROVE ViewInv'
  <2> DEFINE r == ProcessUpcoming(p, Upcoming(p).commit)
             e == IF r.ok THEN epoch[p] + 1 ELSE epoch[p]
  <2>1. /\ tree' = [tree EXCEPT ![p] = r.tree]
        /\ epoch' = IF r.ok THEN [epoch EXCEPT ![p] = @ + 1] ELSE epoch
        /\ leaf' = leaf /\ log' = log /\ fresh' = fresh /\ diverged' = diverged
    BY <1>5 DEF Process
  <2>2. e \in Nat /\ epoch[p] <= e /\ epoch' = [epoch EXCEPT ![p] = e]
    <3> HIDE DEF r
    <3>1. epoch[p] \in Nat /\ epoch \in [People -> Nat]
      BY <1>0 DEF PeopleOk
    <3>2. CASE r.ok
      BY <2>1, <3>1, <3>2
    <3>3. CASE ~ r.ok
      BY <2>1, <3>1, <3>3
    <3>4. QED
      BY <3>2, <3>3
  <2>3. InStep(p)' => ViewOk(p)'
    BY <1>0, <1>5, ViewProcess
  <2> HIDE DEF r, e
  <2>4. QED
    BY <1>0, <1>1, <2>1, <2>2, <2>3, OneMoves DEF ViewInv
<1>6. ASSUME NEW p \in People, ProcessGarbled(p) PROVE ViewInv'
  <2> DEFINE t == ProcessUpcoming(p, Garbled(Upcoming(p).commit)).tree
             e == epoch[p]
  <2>1. /\ tree' = [tree EXCEPT ![p] = t] /\ epoch' = epoch
        /\ leaf' = leaf /\ log' = log /\ fresh' = fresh /\ diverged' = diverged
    BY <1>6 DEF ProcessGarbled
  <2>2. e \in Nat /\ epoch[p] <= e /\ epoch' = [epoch EXCEPT ![p] = e]
    BY <1>0, <2>1 DEF PeopleOk
  <2>3. InStep(p)' => ViewOk(p)'
    BY <1>0, <1>6, ViewGarbled
  <2> HIDE DEF t, e
  <2>4. QED
    BY <1>0, <1>1, <2>1, <2>2, <2>3, OneMoves DEF ViewInv
<1>7. ASSUME NEW p \in People, Redeliver(p) PROVE ViewInv'
  <2> DEFINE t == treekem_process(tree[p], leaf[p], log[epoch[p]].commit).tree
             e == epoch[p]
  <2>1. /\ tree' = [tree EXCEPT ![p] = t] /\ epoch' = epoch
        /\ leaf' = leaf /\ log' = log /\ fresh' = fresh /\ diverged' = diverged
    BY <1>7 DEF Redeliver
  <2>2. e \in Nat /\ epoch[p] <= e /\ epoch' = [epoch EXCEPT ![p] = e]
    BY <1>0, <2>1 DEF PeopleOk
  <2>3. InStep(p)' => ViewOk(p)'
    BY <1>0, <1>7, ViewRedeliver
  <2> HIDE DEF t, e
  <2>4. QED
    BY <1>0, <1>1, <2>1, <2>2, <2>3, OneMoves DEF ViewInv
<1>8. ASSUME leaf' = leaf, tree' = tree, epoch' = epoch, log' = log, fresh' = fresh,
             diverged' = diverged
      PROVE  ViewInv'
  <2>1. fresh \in Nat /\ tree' = [q \in People |-> tree'[q]] /\ epoch' \in [People -> Nat]
        /\ \A q \in People : epoch[q] <= epoch'[q]
    BY <1>0, <1>8 DEF ChainOk, JoinedOk, PeopleOk
  <2>2. ChainOk' /\ SeatsOk'
    BY <1>0, <1>8, <2>1, ChainKept
  <2>3. JoinedOk'
    BY <1>0, <1>8, <2>1, JoinedKept DEF AgreeInv
  <2>4. \A q \in People : InStep(q)' => ViewOk(q)'
    BY <1>0, <1>8, BystanderKept
  <2>5. QED
    BY <1>1, <2>2, <2>3, <2>4 DEF ViewInv, ViewsOk
<1>9. CASE vars' = vars
  BY <1>8, <1>9 DEF vars
<1>10. ASSUME NEW p \in People, Compromise(p) PROVE ViewInv'
  BY <1>8, <1>10 DEF Compromise
<1>11. QED
  BY <1>2, <1>3, <1>4, <1>5, <1>6, <1>7, <1>9, <1>10 DEF Next

LEMMA ViewInit == Init => ViewInv
<1> SUFFICES ASSUME Init PROVE ViewInv
  OBVIOUS
<1>0. /\ leaf = [p \in People |-> IF p \in Founder THEN NLeaves + p ELSE 0]
      /\ tree = [p \in People |-> IF p \in Founder THEN treekem_init(p) ELSE NoView]
      /\ epoch = [p \in People |-> 0] /\ log = <<>> /\ Len(log) = 0
      /\ fresh = NumPeople
  BY DEF Init
<1>1. NLeaves \in Nat \ {0} /\ NumPeople \in Nat /\ Founder \subseteq People
      /\ Founder \subseteq Nat
  BY LeavesPositive, TreeKEMAssumption DEF Founder, People, NLeaves
<1>2. AgreeInv
  BY AgreeInit
<1>3. ChainOk
  BY <1>0, <1>1 DEF ChainOk
<1>4. \A p, l : HasLeaf(p, l) => p \in Founder /\ l = NLeaves + p
  BY <1>0 DEF HasLeaf
<1>5. SeatsOk
  <2> SUFFICES ASSUME NEW p \in Roster(0), NEW l \in Leaf, HasLeaf(p, l)
               PROVE  /\ Public(0, l) # None
                      /\ \A q \in Roster(0) : HasLeaf(q, l) => q = p
    BY <1>0 DEF SeatsOk
  <2>1. p \in Nat /\ l = NLeaves + p
    BY <1>1, <1>4
  <2>2. Public(0, l) = LeafKey(p)
    BY <1>1, <2>1 DEF Public
  <2>3. Public(0, l) # None
    BY <2>1, <2>2 DEF LeafKey, None
  <2>4. \A q \in Roster(0) : HasLeaf(q, l) => q = p
    BY <1>1, <1>4, <2>1
  <2>5. QED
    BY <2>3, <2>4
<1>6. \A p \in Founder : NLeaves + p \in Leaf /\ NLeaves + p # 0
  BY <1>1 DEF Founder, Leaf
<1>7. JoinedOk
  <2>1. \A p \in Founder : leaf[p] = NLeaves + p /\ leaf[p] # 0
    BY <1>0, <1>1, <1>6
  <2>2. ASSUME NEW p \in People, leaf[p] # 0 PROVE leaf[p] \in Leaf /\ HasLeaf(p, leaf[p])
    <3>1. p \in Founder
      BY <1>0, <2>2
    <3>2. QED
      BY <1>6, <2>1, <3>1 DEF HasLeaf
  <2>3. tree = [p \in People |-> tree[p]]
    BY <1>0
  <2>4. \A i \in 1 .. Len(log) : FALSE
    BY <1>0
  <2>5. QED
    BY <2>1, <2>2, <2>3, <2>4 DEF JoinedOk
<1>8. ASSUME NEW p \in People, InStep(p) PROVE ViewOk(p)
  <2>1. p \in Founder
    BY <1>0, <1>8 DEF InStep, Roster
  <2> DEFINE t == treekem_init(p)
             l == NLeaves + p
  <2>2. tree[p] = t /\ epoch[p] = 0 /\ leaf[p] = l /\ p \in Nat /\ l \in Leaf
    BY <1>0, <1>1, <1>6, <2>1
  <2>3. ASSUME NEW v \in Node
        PROVE  /\ v \notin Leaf => t[v].pub = None
               /\ v \in Leaf => t[v].pub = LeafKey(v - NLeaves)
               /\ v \in Leaf /\ v = l => t[v].priv = LeafKey(p)
    <3>1. t[v] = IF v \notin Leaf THEN Blank
                 ELSE [pub  |-> LeafKey(v - NLeaves),
                       priv |-> IF v = l THEN LeafKey(p) ELSE None]
      BY DEF treekem_init
    <3> HIDE DEF t, l
    <3>2. CASE v \notin Leaf
      BY <3>1, <3>2 DEF Blank
    <3>3. CASE v \in Leaf
      BY <3>1, <3>3
    <3>4. QED
      BY <3>2, <3>3
  <2> HIDE DEF t
  <2>4. \A v \in Node : t[v].pub = Public(0, v)
    BY <2>3 DEF Public
  <2>5. ASSUME NEW v \in Node, is_ancestor(v, l), Public(0, v) # None
        PROVE  t[v].priv = Public(0, v)
    <3>1. v \in Leaf
      BY <2>5 DEF Public
    <3>2. v = l
      BY <2>2, <2>5, <3>1, LeafAbove
    <3>3. v - NLeaves = p
      BY <1>1, <2>2, <3>2
    <3>4. t[v].priv = LeafKey(p)
      BY <2>3, <3>1, <3>2
    <3>5. Public(0, v) = LeafKey(p)
      BY <3>1, <3>3 DEF Public
    <3>6. QED
      BY <3>4, <3>5
  <2>6. t[l].pub # None
    <3>1. l \in Node /\ l - NLeaves = p
      BY <1>1, <2>2, LeafType
    <3>2. Public(0, l) = LeafKey(p)
      BY <2>2, <3>1 DEF Public
    <3>3. LeafKey(p) # None
      BY <2>2 DEF LeafKey, None
    <3>4. QED
      BY <2>4, <3>1, <3>2, <3>3
  <2>7. ViewAt(t, 0, l, p)
    BY <1>0, <2>4, <2>5, <2>6 DEF ViewAt
  <2>8. QED
    BY <2>2, <2>7 DEF ViewOk
<1>9. QED
  BY <1>2, <1>3, <1>5, <1>7, <1>8 DEF ViewInv, ViewsOk

LEMMA ViewAlways == Spec => []ViewInv
<1>1. QED
  BY ViewInit, ViewStep, PTL DEF Spec

(* treekem_process accepts the next commit at every member that was not    *)
(* re-keyed by a lost commit of its own (InOrderAccepted).                 *)
THEOREM CommitsAreAccepted == Spec => []InOrderAccepted
<1>1. ViewInv => InOrderAccepted
  <2> SUFFICES ASSUME ViewInv, NEW p \in People, leaf[p] # 0, epoch[p] < Len(log),
                      p \in Roster(epoch[p] + 1), p \notin diverged
               PROVE  ProcessUpcoming(p, Upcoming(p).commit).ok
    BY DEF InOrderAccepted
  <2>1. InStep(p)
    BY DEF InStep
  <2>2. LogsOk /\ ViewOk(p)
    BY <2>1 DEF ViewInv, LogsOk, ViewsOk
  <2>3. QED
    BY <2>1, <2>2, NextAccepted
<1>2. QED
  BY <1>1, ViewAlways, PTL

(***************************************************************************)
(* What somebody holds.                                                    *)
(***************************************************************************)
KeysGrow ==
    \A key, p, l : \A upto \in Nat, to \in Nat :
        OwnKey(key, p, l, upto) /\ upto <= to => OwnKey(key, p, l, to)'

LEMMA KeysKept ==
    ASSUME LogOk, ChainOk, fresh' \in Nat, fresh <= fresh', log' = log
    PROVE  KeysGrow
<1>0. fresh \in Nat /\ NumPeople \in Nat /\ Len(log) \in Nat
  BY LogLength, TreeKEMAssumption DEF ChainOk
<1> SUFFICES ASSUME NEW key, NEW p, NEW l, NEW upto \in Nat, NEW to \in Nat,
                    OwnKey(key, p, l, upto), upto <= to
             PROVE  OwnKey(key, p, l, to)'
  BY DEF KeysGrow
<1>1. CASE key = LeafKey(p)
  BY <1>1 DEF OwnKey
<1>2. CASE key # LeafKey(p)
  <2>1. /\ key.id \in Nat /\ NumPeople <= key.id /\ key.id < fresh'
        /\ \A j \in 1 .. Len(log) :
              key.id = IdOf(j) => /\ j <= to /\ key.h \in 0 .. Depth
                                  /\ is_ancestor(PathNode(Sender(j), key.h), l)
    BY <1>0, <1>2 DEF OwnKey
  <2>2. QED
    BY <2>1 DEF OwnKey, IdOf, Sender
<1>3. QED
  BY <1>1, <1>2

LEMMA KeysExtended ==
    ASSUME LogOk, ChainOk, NEW x, NEW s, NewOk(x, s), log' = Append(log, x),
           fresh' = fresh + 1, NEW n, n = Len(log)
    PROVE  /\ KeysGrow
           /\ IdOf(n + 1)' = fresh /\ Sender(n + 1)' = s
           /\ \A j \in 1 .. n : IdOf(j)' < fresh
<1>0. fresh \in Nat /\ NumPeople \in Nat /\ n \in Nat
  BY LogLength, TreeKEMAssumption DEF ChainOk
<1>1. /\ Len(log') = n + 1 /\ log'[n + 1] = x
      /\ \A j \in 1 .. n : log'[j] = log[j]
  BY Extension
<1>2. x.commit.leaf_pub.id = fresh /\ x.commit.sender_leaf = s
  <2>1. Reads(x.commit, s, fresh)
    BY ShapedReads DEF NewOk
  <2>2. QED
    BY <2>1 DEF Reads
<1>3. IdOf(n + 1)' = fresh /\ Sender(n + 1)' = s
  <2>1. log'[n + 1].commit.leaf_pub.id = fresh /\ log'[n + 1].commit.sender_leaf = s
    BY <1>1, <1>2
  <2>2. QED
    BY <2>1 DEF IdOf, Sender
<1>4. ASSUME NEW j \in 1 .. n PROVE IdOf(j)' = IdOf(j) /\ Sender(j)' = Sender(j) /\ IdOf(j) < fresh
  BY <1>1, EntryFacts DEF IdOf, Sender
<1>5. KeysGrow
  <2> SUFFICES ASSUME NEW key, NEW p, NEW l, NEW upto \in Nat, NEW to \in Nat,
                      OwnKey(key, p, l, upto), upto <= to
               PROVE  OwnKey(key, p, l, to)'
    BY DEF KeysGrow
  <2>1. CASE key = LeafKey(p)
    BY <2>1 DEF OwnKey
  <2>2. CASE key # LeafKey(p)
    <3>1. /\ key.id \in Nat /\ NumPeople <= key.id /\ key.id < fresh
          /\ \A j \in 1 .. Len(log) :
                key.id = IdOf(j) => /\ j <= to /\ key.h \in 0 .. Depth
                                    /\ is_ancestor(PathNode(Sender(j), key.h), l)
      BY <1>0, <2>2 DEF OwnKey
    <3>2. ASSUME NEW j \in 1 .. n + 1, key.id = log'[j].commit.leaf_pub.id
          PROVE  /\ j <= to /\ key.h \in 0 .. Depth
                 /\ is_ancestor(PathNode(log'[j].commit.sender_leaf, key.h), l)
      <4>1. j # n + 1
        BY <1>0, <1>1, <1>2, <3>1, <3>2
      <4>2. j \in 1 .. n /\ log'[j] = log[j]
        BY <1>0, <1>1, <4>1
      <4>3. QED
        BY <3>1, <3>2, <4>2 DEF IdOf, Sender
    <3>3. key.id < fresh'
      BY <1>0, <3>1
    <3>4. QED
      BY <1>1, <3>1, <3>2, <3>3 DEF OwnKey, IdOf, Sender
  <2>3. QED
    BY <2>1, <2>2
<1>6. QED
  BY <1>3, <1>4, <1>5

LEMMA HoldingsMove ==
    ASSUME HoldingsOk, LeakOk, KeysGrow, Len(log) \in Nat, Len(log') \in Nat,
           Len(log) <= Len(log'), NEW p \in People,
           \A q \in People : q # p => /\ tree'[q] = tree[q] /\ root'[q] = root[q]
                                      /\ leaf'[q] = leaf[q],
           leaf[p] # 0 => leaf'[p] = leaf[p], leak' = leak, HeldBy(p)'
    PROVE  HoldingsOk' /\ LeakOk'
<1>1. ASSUME NEW q \in People, q # p PROVE HeldBy(q)'
  <2>1. HeldBy(q)
    BY DEF HoldingsOk
  <2>2. \A key, l : OwnKey(key, q, l, Len(log)) => OwnKey(key, q, l, Len(log))'
    <3>1. PICK n, m : n = Len(log) /\ m = Len(log')
      OBVIOUS
    <3>2. \A key, l : OwnKey(key, q, l, n) => OwnKey(key, q, l, m)'
      BY <3>1 DEF KeysGrow
    <3>3. QED
      BY <3>1, <3>2 DEF OwnKey, IdOf, Sender
  <2>3. tree'[q] = tree[q] /\ root'[q] = root[q] /\ leaf'[q] = leaf[q]
    BY <1>1
  <2>4. PICK tq, rq, lq : tq = tree[q] /\ rq = root[q] /\ lq = leaf[q]
    OBVIOUS
  <2>5. /\ \A v \in Node : tq[v].priv # None =>
                /\ lq # 0 /\ is_ancestor(v, lq)
                /\ OwnKey(tq[v].priv, q, lq, Len(log))
        /\ rq # None => lq # 0 /\ OwnKey(rq, q, lq, Len(log))
    BY <2>1, <2>4 DEF HeldBy
  <2>6. /\ \A v \in Node : tq[v].priv # None =>
                /\ lq # 0 /\ is_ancestor(v, lq)
                /\ OwnKey(tq[v].priv, q, lq, Len(log))'
        /\ rq # None => lq # 0 /\ OwnKey(rq, q, lq, Len(log))'
    BY <2>2, <2>5
  <2>7. tree'[q] = tq /\ root'[q] = rq /\ leaf'[q] = lq
    BY <2>3, <2>4
  <2>8. QED
    BY <2>6, <2>7 DEF HeldBy
<1>2. HoldingsOk'
  BY <1>1 DEF HoldingsOk
<1>3. LeakOk'
  <2>1. CASE leak.who = -1
    <3>1. leak'.at \in 0 .. Len(log')
      BY DEF LeakOk
    <3>2. QED
      BY <2>1, <3>1 DEF LeakOk
  <2>2. CASE leak.who # -1
    <3>1. PICK w, l, k : w = leak.who /\ l = leaf[leak.who] /\ k = leak.at
      OBVIOUS
    <3>2. /\ w \in People /\ l # 0 /\ k \in 0 .. Len(log)
          /\ \A key \in leak.keys : OwnKey(key, w, l, k)
      BY <2>2, <3>1 DEF LeakOk
    <3>3. leaf'[w] = l
      BY <3>1, <3>2
    <3>4. k \in 0 .. Len(log') /\ k \in Nat
      BY <3>2
    <3>5. \A key \in leak.keys : OwnKey(key, w, l, k)'
      BY <3>2, <3>4 DEF KeysGrow
    <3>6. QED
      BY <3>1, <3>2, <3>3, <3>4, <3>5 DEF LeakOk, OwnKey, IdOf, Sender
  <2>3. QED
    BY <2>1, <2>2
<1>4. QED
  BY <1>2, <1>3

(* The keys a commit of the log yields to whoever opens it.                *)
LEMMA OwnTaken ==
    ASSUME LogOk, ChainOk, NEW i \in 1 .. Len(log), NEW p, NEW l, NEW k \in 0 .. Depth,
           is_ancestor(PathNode(Sender(i), k), l),
           NEW key, key = [id |-> IdOf(i), h |-> k]
    PROVE  OwnKey(key, p, l, Len(log))
<1>1. /\ IdOf(i) \in Nat /\ NumPeople <= IdOf(i) /\ IdOf(i) < fresh
      /\ Len(log) \in Nat
  BY EntryFacts, LogLength
<1>2. key.id = IdOf(i) /\ key.h = k
  OBVIOUS
<1>3. ASSUME NEW j \in 1 .. Len(log), key.id = IdOf(j) PROVE j = i
  BY <1>2, <1>3, IdsDiffer
<1>4. QED
  BY <1>1, <1>2, <1>3 DEF OwnKey

(* What treekem_process leaves p with.                                     *)
LEMMA HeldProcess ==
    ASSUME LogOk, ChainOk, NEW i \in 1 .. Len(log), NEW p, NEW l \in Leaf, NEW t,
           NEW c, Shaped(c, Sender(i), IdOf(i)), BoxesOf(c, IdOf(i)),
           \A v \in Node : t[v].priv # None => /\ is_ancestor(v, l)
                                               /\ OwnKey(t[v].priv, p, l, Len(log)),
           NEW r, r = treekem_process(t, l, c)
    PROVE  /\ \A v \in Node : r.tree[v].priv # None =>
                 /\ is_ancestor(v, l)
                 /\ OwnKey(r.tree[v].priv, p, l, Len(log))
           /\ r.ok => OwnKey(r.root, p, l, Len(log))
<1> DEFINE s == Sender(i)
           id == IdOf(i)
<1>0. s \in Leaf
  BY DEF Shaped
<1>1. Processed(c, s, id, l, t)
  BY ProcessAt
<1> HIDE DEF s, id
<1>2. /\ s = l => ~ r.ok /\ r.tree = t
      /\ s # l /\ ~ r.ok => \A v \in Node : r.tree[v] = Installed(t, s, id, v)
      /\ r.ok => \A v \in Node : r.tree[v] = Taken(t, s, id, l, v)
      /\ r.ok => r.root = [id |-> id, h |-> Depth]
  BY <1>1 DEF Processed
<1>3. ASSUME NEW v \in Node, r.tree[v].priv # None
      PROVE  /\ is_ancestor(v, l)
             /\ OwnKey(r.tree[v].priv, p, l, Len(log))
  <2>1. CASE r.tree[v] = t[v]
    BY <1>3, <2>1
  <2>2. CASE r.tree[v] = [pub |-> [id |-> id, h |-> Height(s, v)], priv |-> None]
    BY <1>3, <2>2
  <2>3. CASE /\ is_ancestor(v, s) /\ is_ancestor(v, l)
             /\ r.tree[v].priv = [id |-> id, h |-> Height(s, v)]
    <3>1. Height(s, v) \in 0 .. Depth /\ PathNode(s, Height(s, v)) = v
      BY <1>0, <2>3, HeightIs
    <3>2. QED
      BY <2>3, <3>1, OwnTaken DEF s, id
  <2>4. CASE s = l
    BY <1>2, <2>1, <2>4
  <2>5. CASE s # l /\ ~ r.ok
    BY <1>2, <2>1, <2>2, <2>5 DEF Installed
  <2>6. CASE r.ok
    <3>1. r.tree[v] = Taken(t, s, id, l, v)
      BY <1>2, <2>6
    <3>2. CASE ~ is_ancestor(v, s)
      BY <2>1, <3>1, <3>2 DEF Taken
    <3>3. CASE is_ancestor(v, s)
      <4>1. r.tree[v].priv = IF is_ancestor(v, l) THEN [id |-> id, h |-> Height(s, v)] ELSE None
        BY <3>1, <3>3 DEF Taken
      <4>2. is_ancestor(v, l)
        BY <1>3, <4>1
      <4>3. QED
        BY <2>3, <3>3, <4>1, <4>2
    <3>4. QED
      BY <3>2, <3>3
  <2>7. QED
    BY <2>4, <2>5, <2>6
<1>4. ASSUME r.ok PROVE OwnKey(r.root, p, l, Len(log))
  <2>1. Depth \in 0 .. Depth /\ PathNode(s, Depth) = 1 /\ PathNode(l, Depth) = 1
    BY <1>0, DepthType, PathTop
  <2>2. is_ancestor(PathNode(s, Depth), l)
    BY <2>1, AbovePath
  <2>3. QED
    BY <1>2, <1>4, <2>1, <2>2, OwnTaken DEF s, id
<1>5. QED
  BY <1>3, <1>4

(* A change of membership takes keys away at most.                         *)
LEMMA HeldReady ==
    ASSUME LogsOk, NEW p \in People, HeldBy(p), leaf[p] # 0, epoch[p] < Len(log)
    PROVE  /\ epoch[p] + 1 \in 1 .. Len(log)
           /\ leaf[p] \in Leaf
           /\ ProcessUpcoming(p, Upcoming(p).commit)
                = treekem_process(Ready(p), leaf[p], log[epoch[p] + 1].commit)
           /\ ProcessUpcoming(p, Garbled(Upcoming(p).commit))
                = treekem_process(Ready(p), leaf[p], Garbled(log[epoch[p] + 1].commit))
           /\ \A v \in Node : Ready(p)[v].priv # None =>
                 /\ is_ancestor(v, leaf[p])
                 /\ OwnKey(Ready(p)[v].priv, p, leaf[p], Len(log))
<1>0. LogOk /\ PeopleOk /\ ChainOk /\ JoinedOk /\ Len(log) \in Nat /\ epoch[p] \in Nat
  BY LogLength DEF LogsOk, AgreeInv, PeopleOk
<1> DEFINE i == epoch[p] + 1
           change == ChangeOf(i)
<1>1. i \in 1 .. Len(log)
  BY <1>0
<1>2. change.op \in {"none", "remove", "add"} /\ (change.op = "add" => change.leaf \in Leaf)
  BY <1>0, <1>1, EntryFacts, ChangedLeaf
<1>3. Ready(p) = IF change.who = p THEN tree[p] ELSE Apply(tree[p], change)
  BY DEF Ready, Upcoming, ChangeOf
<1>4. ASSUME NEW v \in Node
      PROVE  Ready(p)[v].priv = None \/ Ready(p)[v].priv = tree[p][v].priv
  <2>1. CASE change.who = p
    BY <1>3, <2>1
  <2>2. CASE change.who # p
    <3>1. Ready(p) = Apply(tree[p], change)
      BY <1>3, <2>2
    <3> HIDE DEF change, i
    <3>2. QED
      BY <1>2, <3>1, ApplyAt
  <2>3. QED
    BY <2>1, <2>2
<1>5. \A v \in Node : tree[p][v].priv # None =>
          is_ancestor(v, leaf[p]) /\ OwnKey(tree[p][v].priv, p, leaf[p], Len(log))
  BY DEF HeldBy
<1>6. leaf[p] \in Leaf
  BY <1>0 DEF JoinedOk
<1>7. QED
  BY <1>1, <1>4, <1>5, <1>6 DEF ProcessUpcoming, Upcoming, Ready

LEMMA HeldLater ==
    ASSUME KeysGrow, Len(log) \in Nat, Len(log') \in Nat, Len(log) <= Len(log')
    PROVE  \A key, p, l : OwnKey(key, p, l, Len(log)) => OwnKey(key, p, l, Len(log))'
<1>1. PICK n, m : n = Len(log) /\ m = Len(log')
  OBVIOUS
<1>2. \A key, p, l : OwnKey(key, p, l, n) => OwnKey(key, p, l, m)'
  BY <1>1 DEF KeysGrow
<1>3. QED
  BY <1>1, <1>2 DEF OwnKey, IdOf, Sender

LEMMA KeysInit == Init => KeysInv
<1> SUFFICES ASSUME Init PROVE KeysInv
  OBVIOUS
<1>1. /\ leaf = [p \in People |-> IF p \in Founder THEN NLeaves + p ELSE 0]
      /\ tree = [p \in People |-> IF p \in Founder THEN treekem_init(p) ELSE NoView]
      /\ root = [p \in People |-> None] /\ leak.who = -1 /\ leak.at = 0 /\ Len(log) = 0
  BY DEF Init
<1>2. ASSUME NEW p \in People PROVE HeldBy(p)
  <2>1. CASE p \notin Founder
    BY <1>1, <2>1 DEF HeldBy, NoView, Blank
  <2>2. CASE p \in Founder
    <3> DEFINE l == NLeaves + p
               t == treekem_init(p)
    <3>1. tree[p] = t /\ leaf[p] = l /\ root[p] = None /\ l # 0 /\ l \in Leaf
      BY <1>1, <2>2, LeavesPositive DEF Founder, Leaf
    <3>2. ASSUME NEW v \in Node
          PROVE  t[v].priv # None => v = l /\ t[v].priv = LeafKey(p)
      <4>1. t[v] = IF v \notin Leaf THEN Blank
                   ELSE [pub  |-> LeafKey(v - NLeaves),
                         priv |-> IF v = l THEN LeafKey(p) ELSE None]
        BY DEF treekem_init
      <4> HIDE DEF t, l
      <4>2. CASE v \notin Leaf
        BY <4>1, <4>2 DEF Blank
      <4>3. CASE v \in Leaf
        BY <4>1, <4>3
      <4>4. QED
        BY <4>2, <4>3
    <3> HIDE DEF t, l
    <3>3. \A v \in Node : t[v].priv # None =>
              l # 0 /\ is_ancestor(v, l) /\ OwnKey(t[v].priv, p, l, Len(log))
      BY <3>1, <3>2, AboveSelf DEF OwnKey
    <3>4. QED
      BY <3>1, <3>3 DEF HeldBy
  <2>3. QED
    BY <2>1, <2>2
<1>3. QED
  BY <1>1, <1>2, ViewInit DEF KeysInv, HoldingsOk, LeakOk

LEMMA HeldCommit ==
    ASSUME ViewInv, HoldingsOk, LeakOk, NEW p \in People, NEW change \in Changes(p),
           Commit(p, change)
    PROVE  HoldingsOk' /\ LeakOk'
<1> DEFINE n == Len(log)
           l == leaf[p]
           t == Apply(tree[p], change)
           done == Rekey(t, l, fresh, Depth)
           x == [commit  |-> treekem_commit(t, l, fresh),
                 by      |-> p,
                 change  |-> change,
                 welcome |-> treekem_export(done),
                 root    |-> [id |-> fresh, h |-> Depth],
                 roster  |-> RosterAfter(change)]
<1>0. LogOk /\ PeopleOk /\ ChainOk /\ SeatsOk /\ JoinedOk /\ LogsOk /\ ViewsOk /\ n \in Nat
      /\ fresh \in Nat /\ HeldBy(p) /\ NumPeople <= fresh
  BY LogLength DEF ViewInv, LogsOk, AgreeInv, ChainOk, HoldingsOk
<1>1. log' = Append(log, x) /\ tree' = [tree EXCEPT ![p] = done]
  BY Zenon DEF Commit, RosterAfter
<1>2. /\ CanCommit(p) /\ root' = [root EXCEPT ![p] = [id |-> fresh, h |-> Depth]]
      /\ fresh' = fresh + 1 /\ leaf' = leaf /\ leak' = leak
  BY DEF Commit
<1>3. NewOk(x, l)
  <2>1. /\ x.commit = treekem_commit(t, l, fresh) /\ x.by = p /\ x.change = change
        /\ x.welcome = treekem_export(done) /\ x.root = [id |-> fresh, h |-> Depth]
        /\ x.roster = RosterAfter(change)
    OBVIOUS
  <2> HIDE DEF x, done, t, l
  <2>2. t = Apply(tree[p], change) /\ l = leaf[p] /\ done = Rekey(t, l, fresh, Depth)
    BY DEF t, l, done
  <2>3. CommitMade(x, l, done)
    BY <1>0, <1>2, <2>1, <2>2, NewCommit
  <2>4. QED
    BY <2>3 DEF CommitMade
<1>4. /\ l \in Leaf /\ l # 0
      /\ change.op \in {"none", "remove", "add"} /\ (change.op = "add" => change.leaf \in Leaf)
  BY <1>0, <1>2, ChangeFits, LeafType, LeavesPositive
<1>5. ASSUME NEW v \in Node
      PROVE  \/ is_ancestor(v, l) /\ done[v].priv = [id |-> fresh, h |-> Height(l, v)]
             \/ done[v].priv = None
             \/ done[v].priv = tree[p][v].priv
  <2>1. t[v].priv = None \/ t[v].priv = tree[p][v].priv
    <3> HIDE DEF l
    <3>1. QED
      BY <1>4, ApplyAt
  <2>2. Depth \in 0 .. Depth
    BY DepthType
  <2>3. done[v] = IF is_ancestor(v, l) /\ Height(l, v) <= Depth
                  THEN [pub  |-> [id |-> fresh, h |-> Height(l, v)],
                        priv |-> [id |-> fresh, h |-> Height(l, v)]]
                  ELSE t[v]
    <3> HIDE DEF t, l
    <3>1. l \in Leaf
      BY <1>4
    <3>2. Rekey(t, l, fresh, Depth)[v] =
              IF is_ancestor(v, l) /\ Height(l, v) <= Depth
              THEN [pub  |-> [id |-> fresh, h |-> Height(l, v)],
                    priv |-> [id |-> fresh, h |-> Height(l, v)]]
              ELSE t[v]
      BY ONLY <2>2, <3>1, v \in Node, RekeyAt
    <3>3. QED
      BY <3>2
  <2> HIDE DEF done, t, l
  <2>4. QED
    BY <2>1, <2>3
<1> HIDE DEF x, done, t
<1>6. PICK m, a, f, d : m = n /\ a = l /\ f = fresh /\ d = done
  OBVIOUS
<1>7. /\ KeysGrow /\ IdOf(m + 1)' = fresh /\ Sender(m + 1)' = l
      /\ \A j \in 1 .. m : IdOf(j)' < fresh
  BY <1>0, <1>1, <1>2, <1>3, <1>6, KeysExtended
<1>8. Len(log') = m + 1
  BY <1>0, <1>1, <1>6, Extension
<1>9. \A key, q, k : OwnKey(key, q, k, Len(log)) => OwnKey(key, q, k, Len(log))'
  BY <1>0, <1>6, <1>7, <1>8, HeldLater
<1>10. \A k \in 0 .. Depth : \A key : key = [id |-> f, h |-> k] => OwnKey(key, p, a, Len(log))'
  <2> SUFFICES ASSUME NEW k \in 0 .. Depth, NEW key, key = [id |-> f, h |-> k]
               PROVE  OwnKey(key, p, a, Len(log))'
    OBVIOUS
  <2>1. \A j \in 1 .. Len(log') : IdOf(j)' = f => j = m + 1
    BY <1>0, <1>6, <1>7, <1>8
  <2>2. is_ancestor(PathNode(a, k), a)
    BY <1>4, <1>6, AbovePath
  <2>3. key.id = f /\ key.h = k
    OBVIOUS
  <2>4. f < fresh' /\ NumPeople <= f /\ f \in Nat
    BY <1>0, <1>2, <1>6
  <2>5. m + 1 <= Len(log')
    BY <1>0, <1>6, <1>8
  <2>6. \A j \in 1 .. Len(log') : IdOf(j)' = f =>
            j <= Len(log') /\ is_ancestor(PathNode(Sender(j)', k), a)
    BY <1>6, <1>7, <2>1, <2>2, <2>5
  <2>7. QED
    BY <2>3, <2>4, <2>6 DEF OwnKey
<1>11. HeldBy(p)'
  <2>1. tree'[p] = d /\ root'[p] = [id |-> f, h |-> Depth] /\ leaf'[p] = a /\ a # 0
    BY <1>0, <1>1, <1>2, <1>4, <1>6 DEF JoinedOk, PeopleOk
  <2>2. ASSUME NEW v \in Node, d[v].priv # None
        PROVE  is_ancestor(v, a) /\ OwnKey(d[v].priv, p, a, Len(log))'
    <3>1. CASE is_ancestor(v, a) /\ d[v].priv = [id |-> f, h |-> Height(a, v)]
      <4>1. Height(a, v) \in 0 .. Depth
        BY <1>4, <1>6, <3>1, HeightIs
      <4>2. OwnKey(d[v].priv, p, a, Len(log))'
        BY <1>10, <3>1, <4>1
      <4>3. QED
        BY <3>1, <4>2
    <3>2. CASE d[v].priv = tree[p][v].priv
      <4>1. is_ancestor(v, a) /\ OwnKey(d[v].priv, p, a, Len(log))
        BY <1>0, <1>6, <2>2, <3>2 DEF HeldBy
      <4>2. OwnKey(d[v].priv, p, a, Len(log))'
        BY <1>9, <4>1
      <4>3. QED
        BY <4>1, <4>2
    <3>3. QED
      BY <1>5, <1>6, <2>2, <3>1, <3>2
  <2>3. \A key : key = [id |-> f, h |-> Depth] => OwnKey(key, p, a, Len(log))'
    BY <1>10, DepthType
  <2>4. \A v \in Node : d[v].priv # None =>
           is_ancestor(v, a) /\ OwnKey(d[v].priv, p, a, Len(log))'
    BY <2>2
  <2>5. QED
    BY <2>1, <2>3, <2>4 DEF HeldBy
<1>12. \A q \in People : q # p => tree'[q] = tree[q] /\ root'[q] = root[q] /\ leaf'[q] = leaf[q]
  BY <1>0, <1>1, <1>2 DEF JoinedOk, PeopleOk
<1>13. QED
  BY <1>0, <1>2, <1>6, <1>7, <1>8, <1>11, <1>12, HoldingsMove

(* The steps in which one member's tree and root move and the log does not. *)
LEMMA HeldOne ==
    ASSUME ViewInv, HoldingsOk, LeakOk, NEW p \in People, NEW t, NEW r, NEW l, l = leaf[p],
           l # 0, tree' = [tree EXCEPT ![p] = t], root' = [root EXCEPT ![p] = r],
           leaf' = leaf, log' = log, leak' = leak, fresh' \in Nat, fresh <= fresh',
           \A v \in Node : t[v].priv # None =>
               is_ancestor(v, l) /\ OwnKey(t[v].priv, p, l, Len(log))',
           r # None => OwnKey(r, p, l, Len(log))'
    PROVE  HoldingsOk' /\ LeakOk'
<1>0. LogOk /\ PeopleOk /\ ChainOk /\ JoinedOk /\ Len(log) \in Nat
  BY LogLength DEF ViewInv, AgreeInv
<1>1. KeysGrow
  BY <1>0, KeysKept
<1>2. HeldBy(p)'
  <2>1. tree'[p] = t /\ root'[p] = r /\ leaf'[p] = l
    BY <1>0 DEF JoinedOk, PeopleOk
  <2>2. QED
    BY <2>1 DEF HeldBy
<1>3. \A q \in People : q # p => tree'[q] = tree[q] /\ root'[q] = root[q] /\ leaf'[q] = leaf[q]
  BY <1>0 DEF JoinedOk, PeopleOk
<1>4. QED
  BY <1>0, <1>1, <1>2, <1>3, HoldingsMove

LEMMA HeldUnchanged ==
    ASSUME ViewInv, HoldingsOk, NEW p \in People, log' = log, fresh' \in Nat, fresh <= fresh'
    PROVE  \A key, l : OwnKey(key, p, l, Len(log)) => OwnKey(key, p, l, Len(log))'
<1>0. LogOk /\ ChainOk /\ Len(log) \in Nat
  BY LogLength DEF ViewInv, AgreeInv
<1>1. KeysGrow
  BY <1>0, KeysKept
<1>2. QED
  BY <1>0, <1>1, HeldLater

LEMMA HeldCommitLost ==
    ASSUME ViewInv, HoldingsOk, LeakOk, NEW p \in People, NEW k \in 0 .. Depth,
           CommitLost(p, k)
    PROVE  HoldingsOk' /\ LeakOk'
<1>0. LogOk /\ PeopleOk /\ ChainOk /\ JoinedOk /\ LogsOk /\ ViewsOk /\ HeldBy(p)
      /\ fresh \in Nat /\ NumPeople <= fresh /\ Len(log) \in Nat
  BY LogLength DEF ViewInv, LogsOk, AgreeInv, ChainOk, HoldingsOk
<1>1. PICK l, f, t, r : /\ l = leaf[p] /\ f = fresh
                        /\ t = Rekey(tree[p], leaf[p], fresh, k)
                        /\ r = IF k = Depth THEN [id |-> fresh, h |-> Depth] ELSE root[p]
  OBVIOUS
<1>2. /\ CanCommit(p) /\ tree' = [tree EXCEPT ![p] = t]
      /\ root' = IF k = Depth THEN [root EXCEPT ![p] = [id |-> fresh, h |-> Depth]] ELSE root
      /\ fresh' = fresh + 1 /\ leaf' = leaf /\ log' = log /\ leak' = leak
  BY <1>1 DEF CommitLost
<1>3. l \in Leaf /\ l # 0
  <2>1. NoChange \in Changes(p)
    BY DEF Changes
  <2>2. QED
    BY <1>0, <1>1, <1>2, <2>1, ChangeFits, LeafType, LeavesPositive
<1>4. \A key, a : OwnKey(key, p, a, Len(log)) => OwnKey(key, p, a, Len(log))'
  BY <1>0, <1>2, HeldUnchanged
<1>5. \A h, key : key = [id |-> f, h |-> h] => OwnKey(key, p, l, Len(log))'
  <2> SUFFICES ASSUME NEW h, NEW key, key = [id |-> f, h |-> h]
               PROVE  OwnKey(key, p, l, Len(log))'
    OBVIOUS
  <2>0. \A j \in 1 .. Len(log) : IdOf(j) \in Nat /\ IdOf(j) < fresh
    BY <1>0, EntryFacts
  <2>1. \A j \in 1 .. Len(log) : IdOf(j)' = IdOf(j) /\ IdOf(j) # f
    BY <1>0, <1>1, <1>2, <2>0 DEF IdOf
  <2>2. key.id = f /\ f \in Nat /\ NumPeople <= f /\ f < fresh'
    BY <1>0, <1>1, <1>2
  <2>3. QED
    BY <1>2, <2>1, <2>2 DEF OwnKey
<1>6. ASSUME NEW v \in Node, t[v].priv # None
      PROVE  is_ancestor(v, l) /\ OwnKey(t[v].priv, p, l, Len(log))'
  <2>1. t[v] = IF is_ancestor(v, l) /\ Height(l, v) <= k
               THEN [pub  |-> [id |-> f, h |-> Height(l, v)],
                     priv |-> [id |-> f, h |-> Height(l, v)]]
               ELSE tree[p][v]
    BY <1>1, <1>3, RekeyAt
  <2>2. CASE is_ancestor(v, l) /\ Height(l, v) <= k
    <3>1. t[v].priv = [id |-> f, h |-> Height(l, v)]
      BY <2>1, <2>2
    <3>2. OwnKey(t[v].priv, p, l, Len(log))'
      BY <1>5, <3>1
    <3>3. QED
      BY <2>2, <3>2
  <2>3. CASE ~(is_ancestor(v, l) /\ Height(l, v) <= k)
    <3>1. t[v] = tree[p][v]
      BY <2>1, <2>3
    <3>2. is_ancestor(v, l) /\ OwnKey(t[v].priv, p, l, Len(log))
      BY <1>0, <1>1, <1>6, <3>1 DEF HeldBy
    <3>3. OwnKey(t[v].priv, p, l, Len(log))'
      BY <1>4, <3>2
    <3>4. QED
      BY <3>2, <3>3
  <2>4. QED
    BY <2>2, <2>3
<1>7. r # None => OwnKey(r, p, l, Len(log))'
  <2>1. CASE k = Depth
    BY <1>1, <1>5, <2>1
  <2>2. CASE k # Depth
    BY <1>0, <1>1, <1>4, <2>2 DEF HeldBy
  <2>3. QED
    BY <2>1, <2>2
<1>8. root' = [root EXCEPT ![p] = r]
  BY <1>0, <1>1, <1>2 DEF PeopleOk
<1>9. fresh' \in Nat /\ fresh <= fresh'
  BY <1>0, <1>2
<1>10. QED
  BY <1>1, <1>2, <1>3, <1>6, <1>7, <1>8, <1>9, HeldOne

LEMMA HeldJoin ==
    ASSUME ViewInv, HoldingsOk, LeakOk, NEW q \in People, Join(q)
    PROVE  HoldingsOk' /\ LeakOk'
<1>0. LogOk /\ PeopleOk /\ ChainOk /\ JoinedOk /\ LogsOk /\ ViewsOk /\ HeldBy(q)
      /\ fresh \in Nat /\ Len(log) \in Nat
  BY LogLength DEF ViewInv, LogsOk, AgreeInv, ChainOk, HoldingsOk
<1>1. PICK i \in 1 .. Len(log) :
         /\ leaf[q] = 0 /\ log[i].change.op = "add"
         /\ leaf' = [leaf EXCEPT ![q] = log[i].change.leaf]
         /\ tree' = [tree EXCEPT ![q] =
                       treekem_import(log[i].welcome, log[i].change.leaf, LeafKey(q))]
         /\ root' = root /\ log' = log /\ fresh' = fresh /\ leak' = leak
  BY DEF Join
<1>2. PICK l, t : l = log[i].change.leaf /\ t = treekem_import(log[i].welcome, l, LeafKey(q))
  OBVIOUS
<1>3. l \in Leaf /\ l # 0
  <2>1. ChangeOf(i).leaf \in Leaf
    BY <1>0, <1>1, ChangedLeaf DEF ChangeOf
  <2>2. QED
    BY <1>2, <2>1, LeafType DEF ChangeOf
<1>4. root[q] = None
  BY <1>0, <1>1 DEF HeldBy
<1>5. tree'[q] = t /\ leaf'[q] = l /\ root'[q] = None
  BY <1>0, <1>1, <1>2, <1>4 DEF JoinedOk, PeopleOk
<1>6. \A v \in Node : t[v].priv # None => v = l /\ t[v].priv = LeafKey(q)
  BY <1>2 DEF treekem_import
<1>7. HeldBy(q)'
  BY <1>3, <1>5, <1>6, AboveSelf DEF HeldBy, OwnKey
<1>8. KeysGrow
  BY <1>0, <1>1, KeysKept
<1>9. \A p \in People : p # q => tree'[p] = tree[p] /\ root'[p] = root[p] /\ leaf'[p] = leaf[p]
  BY <1>0, <1>1 DEF JoinedOk, PeopleOk
<1>10. QED
  BY <1>0, <1>1, <1>7, <1>8, <1>9, HoldingsMove

(* A delivery, in order or again, damaged or not.                          *)
LEMMA HeldDelivery ==
    ASSUME ViewInv, HoldingsOk, LeakOk, NEW p \in People, leaf[p] # 0,
           NEW i \in 1 .. Len(log), NEW t,
           NEW c, Shaped(c, Sender(i), IdOf(i)), BoxesOf(c, IdOf(i)),
           \A v \in Node : t[v].priv # None =>
               is_ancestor(v, leaf[p]) /\ OwnKey(t[v].priv, p, leaf[p], Len(log)),
           NEW r, r = treekem_process(t, leaf[p], c),
           tree' = [tree EXCEPT ![p] = r.tree],
           \/ root' = root
           \/ r.ok /\ root' = [root EXCEPT ![p] = r.root],
           leaf' = leaf, log' = log, leak' = leak, fresh' = fresh
    PROVE  HoldingsOk' /\ LeakOk'
<1>0. LogOk /\ PeopleOk /\ ChainOk /\ JoinedOk /\ HeldBy(p) /\ fresh \in Nat /\ leaf[p] \in Leaf
  BY DEF ViewInv, AgreeInv, ChainOk, HoldingsOk, JoinedOk
<1>1. PICK l, n, z : l = leaf[p] /\ n = r.tree /\ z = root'[p]
  OBVIOUS
<1>2. /\ \A v \in Node : n[v].priv # None =>
            is_ancestor(v, l) /\ OwnKey(n[v].priv, p, l, Len(log))
      /\ r.ok => OwnKey(r.root, p, l, Len(log))
  BY <1>0, <1>1, HeldProcess
<1>3. \A key, a : OwnKey(key, p, a, Len(log)) => OwnKey(key, p, a, Len(log))'
  BY <1>0, HeldUnchanged
<1>4. \A v \in Node : n[v].priv # None =>
          is_ancestor(v, l) /\ OwnKey(n[v].priv, p, l, Len(log))'
  BY <1>2, <1>3
<1>5. root' = [root EXCEPT ![p] = z] /\ (z = root[p] \/ (r.ok /\ z = r.root))
  BY <1>0, <1>1 DEF PeopleOk
<1>6. z # None => OwnKey(z, p, l, Len(log))
  BY <1>0, <1>1, <1>2, <1>5 DEF HeldBy
<1>7. z # None => OwnKey(z, p, l, Len(log))'
  BY <1>3, <1>6
<1>8. l # 0 /\ tree' = [tree EXCEPT ![p] = n] /\ fresh' \in Nat /\ fresh <= fresh'
  BY <1>0, <1>1
<1>9. leaf' = leaf /\ log' = log /\ leak' = leak
  OBVIOUS
<1>10. ViewInv /\ HoldingsOk /\ LeakOk /\ l = leaf[p] /\ p \in People
  BY <1>1
<1>11. root' = [root EXCEPT ![p] = z]
  BY <1>5
<1>12. QED
  BY ONLY <1>4, <1>7, <1>8, <1>9, <1>10, <1>11, HeldOne

LEMMA HeldCompromise ==
    ASSUME ViewInv, HoldingsOk, NEW p \in People, Compromise(p)
    PROVE  HoldingsOk' /\ LeakOk'
<1>0. LogOk /\ PeopleOk /\ ChainOk /\ HeldBy(p) /\ fresh \in Nat /\ Len(log) \in Nat
  BY LogLength DEF ViewInv, AgreeInv, ChainOk, HoldingsOk
<1>1. /\ leaf[p] # 0 /\ leaf' = leaf /\ tree' = tree /\ root' = root /\ log' = log
      /\ fresh' = fresh
      /\ leak' = [who |-> p,
                  keys |-> ({tree[p][v].priv : v \in Node} \cup {root[p]}) \ {None},
                  at |-> Len(log)]
  BY DEF Compromise
<1>2. HoldingsOk'
  BY <1>1 DEF HoldingsOk, HeldBy, OwnKey, IdOf, Sender
<1>3. /\ leak'.who = p /\ leak'.at = Len(log)
      /\ leak'.keys = ({tree[p][v].priv : v \in Node} \cup {root[p]}) \ {None}
  BY <1>1
<1>4. \A key \in leak'.keys : OwnKey(key, p, leaf[p], Len(log))
  BY <1>0, <1>3 DEF HeldBy
<1>5. Len(log) \in 0 .. Len(log)
  BY <1>0
<1>6. LeakOk'
  BY <1>1, <1>3, <1>4, <1>5 DEF LeakOk, OwnKey, IdOf, Sender
<1>7. QED
  BY <1>2, <1>6

LEMMA KeysStep == KeysInv /\ [Next]_vars => KeysInv'
<1> SUFFICES ASSUME KeysInv, [Next]_vars PROVE HoldingsOk' /\ LeakOk'
  BY ViewStep DEF KeysInv
<1>0. /\ ViewInv /\ HoldingsOk /\ LeakOk /\ LogsOk /\ LogOk /\ PeopleOk /\ ChainOk /\ JoinedOk
      /\ \A p \in People : HeldBy(p)
      /\ Len(log) \in Nat
  BY LogLength DEF KeysInv, ViewInv, LogsOk, AgreeInv, HoldingsOk
<1>1. ASSUME NEW p \in People, NEW change \in Changes(p), Commit(p, change)
      PROVE  HoldingsOk' /\ LeakOk'
  BY <1>0, <1>1, HeldCommit
<1>2. ASSUME NEW p \in People, NEW k \in 0 .. Depth, CommitLost(p, k)
      PROVE  HoldingsOk' /\ LeakOk'
  BY <1>0, <1>2, HeldCommitLost
<1>3. ASSUME NEW p \in People, Join(p) PROVE HoldingsOk' /\ LeakOk'
  BY <1>0, <1>3, HeldJoin
<1>4. ASSUME NEW p \in People, Process(p) PROVE HoldingsOk' /\ LeakOk'
  <2> DEFINE i == epoch[p] + 1
             t == Ready(p)
             c == log[i].commit
             r == treekem_process(t, leaf[p], c)
  <2>1. leaf[p] # 0 /\ epoch[p] < Len(log)
    BY <1>4 DEF Process
  <2>2. /\ i \in 1 .. Len(log)
        /\ ProcessUpcoming(p, Upcoming(p).commit) = r
        /\ \A v \in Node : t[v].priv # None =>
              is_ancestor(v, leaf[p]) /\ OwnKey(t[v].priv, p, leaf[p], Len(log))
    BY <1>0, <2>1, HeldReady
  <2>3. /\ tree' = [tree EXCEPT ![p] = r.tree]
        /\ root' = IF r.ok THEN [root EXCEPT ![p] = r.root] ELSE root
        /\ leaf' = leaf /\ log' = log /\ leak' = leak /\ fresh' = fresh
    BY <1>4, <2>2 DEF Process
  <2>4. Shaped(c, Sender(i), IdOf(i)) /\ BoxesOf(c, IdOf(i))
    BY <1>0, <2>2, EntryFacts
  <2> HIDE DEF i, t, c
  <2>5. \/ root' = root
        \/ r.ok /\ root' = [root EXCEPT ![p] = r.root]
    BY <2>3
  <2>6. QED
    BY <1>0, <2>1, <2>2, <2>3, <2>4, <2>5, HeldDelivery
<1>5. ASSUME NEW p \in People, ProcessGarbled(p) PROVE HoldingsOk' /\ LeakOk'
  <2> DEFINE i == epoch[p] + 1
             t == Ready(p)
             c == Garbled(log[i].commit)
             r == treekem_process(t, leaf[p], c)
  <2>1. leaf[p] # 0 /\ epoch[p] < Len(log)
    BY <1>5 DEF ProcessGarbled
  <2>2. /\ i \in 1 .. Len(log) /\ leaf[p] \in Leaf
        /\ ProcessUpcoming(p, Garbled(Upcoming(p).commit)) = r
        /\ \A v \in Node : t[v].priv # None =>
              is_ancestor(v, leaf[p]) /\ OwnKey(t[v].priv, p, leaf[p], Len(log))
    BY <1>0, <2>1, HeldReady
  <2>3. /\ tree' = [tree EXCEPT ![p] = r.tree] /\ root' = root
        /\ leaf' = leaf /\ log' = log /\ leak' = leak /\ fresh' = fresh
    BY <1>5, <2>2 DEF ProcessGarbled
  <2>4. Shaped(c, Sender(i), IdOf(i)) /\ BoxesOf(c, IdOf(i))
    BY <1>0, <2>2, EntryFacts, GarbledAt
  <2> HIDE DEF i, t, c
  <2>5. QED
    BY <1>0, <2>1, <2>2, <2>3, <2>4, HeldDelivery
<1>6. ASSUME NEW p \in People, Redeliver(p) PROVE HoldingsOk' /\ LeakOk'
  <2> DEFINE i == epoch[p]
             t == tree[p]
             c == log[i].commit
             r == treekem_process(t, leaf[p], c)
  <2>1. leaf[p] # 0 /\ epoch[p] > 0
    BY <1>6 DEF Redeliver
  <2>2. i \in 1 .. Len(log)
    BY <1>0, <2>1 DEF PeopleOk
  <2>3. \A v \in Node : t[v].priv # None =>
            is_ancestor(v, leaf[p]) /\ OwnKey(t[v].priv, p, leaf[p], Len(log))
    BY <1>0 DEF HeldBy
  <2>4. /\ tree' = [tree EXCEPT ![p] = r.tree]
        /\ root' = IF r.ok THEN [root EXCEPT ![p] = r.root] ELSE root
        /\ leaf' = leaf /\ log' = log /\ leak' = leak /\ fresh' = fresh
    BY <1>6 DEF Redeliver
  <2>5. Shaped(c, Sender(i), IdOf(i)) /\ BoxesOf(c, IdOf(i))
    BY <1>0, <2>2, EntryFacts
  <2> HIDE DEF i, t, c
  <2>6. \/ root' = root
        \/ r.ok /\ root' = [root EXCEPT ![p] = r.root]
    BY <2>4
  <2>7. QED
    BY <1>0, <2>1, <2>2, <2>3, <2>4, <2>5, <2>6, HeldDelivery
<1>7. ASSUME NEW p \in People, Compromise(p) PROVE HoldingsOk' /\ LeakOk'
  BY <1>0, <1>7, HeldCompromise
<1>8. CASE vars' = vars
  <2>1. /\ leaf' = leaf /\ tree' = tree /\ root' = root /\ log' = log /\ fresh' = fresh
        /\ leak' = leak
    BY <1>8 DEF vars
  <2>2. HoldingsOk'
    BY <1>0, <2>1 DEF HeldBy, HoldingsOk, OwnKey, IdOf, Sender
  <2>3. LeakOk'
    BY <1>0, <2>1 DEF LeakOk, OwnKey, IdOf, Sender
  <2>4. QED
    BY <2>2, <2>3
<1>9. QED
  BY <1>1, <1>2, <1>3, <1>4, <1>5, <1>6, <1>7, <1>8 DEF Next

LEMMA KeysAlways == Spec => []KeysInv
<1>1. QED
  BY KeysInit, KeysStep, PTL DEF Spec

(***************************************************************************)
(* What can be learned from the log.                                       *)
(***************************************************************************)

(* The recursive definition of Derivable defines a function.               *)
Known(f, keys) ==
    \A i \in 0 .. Len(log) : f[i] = IF i = 0 THEN keys ELSE Learn(f[i - 1], log[i])

LEMMA DerivableIs ==
    ASSUME NEW keys, Len(log) \in Nat
    PROVE  \E f : Known(f, keys) /\ Derivable(keys) = f[Len(log)]
<1> DEFINE n == Len(log)
           Body(f, i) == IF i = 0 THEN keys ELSE Learn(f[i - 1], log[i])
           Rec(f, k) == \A i \in 0 .. n : i <= k => f[i] = Body(f, i)
           S == {k \in Nat : \E f : f = [i \in 0 .. n |-> f[i]] /\ Rec(f, k)}
           Whole(f) == f = [i \in 0 .. n |-> Body(f, i)]
<1>1. 0 \in S
  <2> DEFINE f == [i \in 0 .. n |-> keys]
  <2>1. f = [i \in 0 .. n |-> f[i]] /\ Rec(f, 0)
    OBVIOUS
  <2> HIDE DEF f
  <2>2. QED
    BY <2>1
<1>2. ASSUME NEW k \in Nat, k \in S PROVE k + 1 \in S
  <2>1. PICK f : f = [i \in 0 .. n |-> f[i]] /\ Rec(f, k)
    BY <1>2
  <2> DEFINE b == Body(f, k + 1)
             g == [i \in 0 .. n |-> IF i = k + 1 THEN b ELSE f[i]]
  <2>2. ASSUME NEW i \in 0 .. n, i <= k + 1 PROVE g[i] = Body(g, i)
    <3>1. i # 0 => i - 1 \in 0 .. n /\ i - 1 # k + 1 /\ i - 1 <= k
      BY <2>2
    <3>2. i # 0 => g[i - 1] = f[i - 1]
      BY <3>1
    <3>3. Body(g, i) = Body(f, i)
      <4> HIDE DEF g
      <4>1. QED
        BY <3>2
    <3>4. g[i] = Body(f, i)
      <4> HIDE DEF b
      <4>1. CASE i = k + 1
        BY <4>1 DEF b
      <4>2. CASE i # k + 1
        <5>1. i <= k
          BY <2>2, <4>2
        <5>2. QED
          BY <2>1, <4>2, <5>1
      <4>3. QED
        BY <4>1, <4>2
    <3>5. QED
      BY <3>3, <3>4
  <2>3. g = [i \in 0 .. n |-> g[i]]
    OBVIOUS
  <2> HIDE DEF g
  <2>4. Rec(g, k + 1)
    BY <2>2
  <2> HIDE DEF Rec
  <2>5. QED
    BY <2>3, <2>4
<1>3. n \in S
  <2> HIDE DEF S
  <2>1. QED
    BY <1>1, <1>2, AllNumbers
<1>4. PICK f : f = [i \in 0 .. n |-> f[i]] /\ Rec(f, n)
  BY <1>3
<1>5. \A i \in 0 .. n : f[i] = Body(f, i)
  <2> HIDE DEF Body
  <2>1. QED
    BY <1>4
<1>6. Whole(f)
  BY <1>4, <1>5
<1> DEFINE w == CHOOSE f0 : Whole(f0)
<1>7. Derivable(keys) = w[n]
  BY DEF Derivable
<1>8. Whole(w)
  <2> HIDE DEF Whole
  <2>1. QED
    BY <1>6
<1> HIDE DEF w
<1>9. Known(w, keys)
  BY <1>8 DEF Known
<1>10. QED
  BY <1>7, <1>9

(* Where the key of a node comes from: nobody's, the leaf key of somebody  *)
(* who is in the group, or a commit's, all of whose readers are still in.  *)
KeyOf(i, v) ==
    \/ Public(i, v) = None
    \/ \E q \in People : /\ Public(i, v) = LeafKey(q)
                         /\ HasLeaf(q, v)
                         /\ q \in Roster(i)
    \/ \E j \in 1 .. i, k \in 0 .. Depth :
          /\ Public(i, v) = [id |-> IdOf(j), h |-> k]
          /\ v = PathNode(Sender(j), k)
          /\ \A q \in Roster(j), l \in Leaf :
                HasLeaf(q, l) /\ is_ancestor(v, l) => q \in Roster(i)

LEMMA KeyOfStart ==
    ASSUME NEW v \in Node
    PROVE  KeyOf(0, v)
<1>1. CASE v \in Leaf
  <2> DEFINE q == v - NLeaves
  <2>1. q \in Founder /\ q \in People /\ v = NLeaves + q
    BY <1>1, LeavesPositive, TreeKEMAssumption DEF Founder, People, Leaf, NLeaves
  <2>2. Public(0, v) = LeafKey(q)
    BY <1>1 DEF Public
  <2> HIDE DEF q
  <2>3. HasLeaf(q, v) /\ q \in Roster(0)
    BY <2>1 DEF HasLeaf, Roster
  <2>4. QED
    BY <2>1, <2>2, <2>3 DEF KeyOf
<1>2. CASE v \notin Leaf
  BY <1>2 DEF Public, KeyOf
<1>3. QED
  BY <1>1, <1>2

LEMMA KeyOfNext ==
    ASSUME LogOk, ChainOk, NEW n \in Nat, NEW i, i = n + 1, i <= Len(log), NEW v \in Node,
           KeyOf(n, v)
    PROVE  KeyOf(i, v)
<1>0. i \in 1 .. Len(log) /\ i - 1 = n /\ Len(log) \in Nat /\ i \in 1 .. i /\ i \in Nat
  BY LogLength
<1> DEFINE s == Sender(i)
           change == ChangeOf(i)
<1>1. /\ s \in Leaf
      /\ Public(i, v) = IF is_ancestor(v, s) THEN [id |-> IdOf(i), h |-> Height(s, v)]
                        ELSE Changed(change, v, Public(n, v))
  BY <1>0, EntryFacts
<1>2. CASE is_ancestor(v, s)
  <2>1. Height(s, v) \in 0 .. Depth /\ PathNode(s, Height(s, v)) = v
    BY <1>1, <1>2, HeightIs
  <2>2. QED
    BY <1>0, <1>1, <1>2, <2>1 DEF KeyOf
<1>3. CASE ~ is_ancestor(v, s)
  <2>1. Public(i, v) = Changed(change, v, Public(n, v))
    BY <1>1, <1>3
  <2>2. CASE Touched(change, v) /\ change.op = "add" /\ v = change.leaf
    <3> DEFINE q == change.who
    <3>1. Public(i, v) = LeafKey(q)
      BY <2>1, <2>2 DEF Changed
    <3>2. Added(i, q)
      BY <2>2 DEF Added
    <3>3. q \in Roster(i) /\ q \in People
      BY <1>0, <3>2, RosterAt
    <3>4. HasLeaf(q, v)
      BY <1>0, <2>2, <3>2 DEF HasLeaf
    <3>5. QED
      BY <3>1, <3>3, <3>4 DEF KeyOf
  <2>3. CASE Touched(change, v) /\ ~(change.op = "add" /\ v = change.leaf)
    BY <2>1, <2>3 DEF Changed, KeyOf
  <2>4. CASE ~ Touched(change, v)
    <3>1. Public(i, v) = Public(n, v)
      BY <2>1, <2>4 DEF Changed
    <3>2. ASSUME NEW q \in Roster(n), NEW l \in Leaf, HasLeaf(q, l), is_ancestor(v, l)
          PROVE  q \in Roster(i)
      <4> SUFFICES ASSUME q \notin Roster(i) PROVE FALSE
        OBVIOUS
      <4>1. Removed(i, q)
        BY <1>0, <3>2, RosterAt
      <4>2. HasLeaf(q, change.leaf) /\ change.op = "remove"
        BY <1>0, <4>1 DEF Removed, ChainOk, ChangeOk
      <4>3. change.leaf = l
        BY <3>2, <4>2, OneLeaf
      <4>4. QED
        BY <2>4, <3>2, <4>2, <4>3 DEF Touched
    <3>3. CASE Public(n, v) = None
      BY <3>1, <3>3 DEF KeyOf
    <3>4. ASSUME NEW q \in People, Public(n, v) = LeafKey(q), HasLeaf(q, v), q \in Roster(n)
          PROVE  KeyOf(i, v)
      <4>1. v \in Leaf /\ is_ancestor(v, v)
        BY <3>4, OneLeaf, AboveSelf
      <4>2. q \in Roster(i)
        BY <3>2, <3>4, <4>1
      <4>3. QED
        BY <3>1, <3>4, <4>2 DEF KeyOf
    <3>5. ASSUME NEW j \in 1 .. n, NEW k \in 0 .. Depth,
                 Public(n, v) = [id |-> IdOf(j), h |-> k],
                 v = PathNode(Sender(j), k),
                 \A q \in Roster(j), l \in Leaf :
                    HasLeaf(q, l) /\ is_ancestor(v, l) => q \in Roster(n)
          PROVE  KeyOf(i, v)
      <4>1. j \in 1 .. i
        BY <1>0
      <4>2. \A q \in Roster(j), l \in Leaf :
               HasLeaf(q, l) /\ is_ancestor(v, l) => q \in Roster(i)
        BY <3>2, <3>5
      <4>3. QED
        BY <3>1, <3>5, <4>1, <4>2 DEF KeyOf
    <3>6. QED
      BY <3>3, <3>4, <3>5 DEF KeyOf
  <2>5. QED
    BY <2>2, <2>3, <2>4
<1>4. QED
  BY <1>2, <1>3

LEMMA KeyOrigin ==
    ASSUME LogOk, ChainOk, NEW i \in 0 .. Len(log), NEW v \in Node
    PROVE  KeyOf(i, v)
<1> DEFINE S == {n \in Nat : n <= Len(log) => \A u \in Node : KeyOf(n, u)}
<1>0. Len(log) \in Nat
  BY LogLength
<1>1. 0 \in S
  BY KeyOfStart
<1>2. ASSUME NEW n \in Nat, n \in S PROVE n + 1 \in S
  <2>1. ASSUME n + 1 <= Len(log), NEW u \in Node PROVE KeyOf(n + 1, u)
    BY <1>0, <1>2, <2>1, KeyOfNext
  <2>2. QED
    BY <2>1
<1> HIDE DEF S
<1>3. i \in S
  BY <1>0, <1>1, <1>2, AllNumbers
<1>4. QED
  BY <1>0, <1>3 DEF S

(* The commits in J are those whose keys somebody with leaf key w and leaf *)
(* l can come to know: what it can open of a later commit puts that one in *)
(* J too.                                                                  *)
Readable(w, l, J) ==
    \A i \in 1 .. Len(log), v \in Node :
        /\ Public(i, v) = LeafKey(w) /\ v = l => i \in J
        /\ \A j \in J, k \in 0 .. Depth :
              /\ j \in 1 .. i
              /\ Public(i, v) = [id |-> IdOf(j), h |-> k]
              /\ v = PathNode(Sender(j), k)
              /\ is_ancestor(v, l)
              => i \in J

KeyWithin(key, w, l, J) ==
    \/ key = LeafKey(w)
    \/ /\ key.id \in Nat /\ NumPeople <= key.id
       /\ \A j \in 1 .. Len(log) :
             key.id = IdOf(j) => /\ j \in J
                                 /\ key.h \in 0 .. Depth
                                 /\ is_ancestor(PathNode(Sender(j), key.h), l)

Within(keys, w, l, J) == \A key \in keys : KeyWithin(key, w, l, J)

(* Whoever opens a box of commit i is under the sibling it was sealed for. *)
LEMMA OpenedBox ==
    ASSUME LogOk, ChainOk, NEW w \in People, NEW l \in Leaf, \A k : HasLeaf(w, k) => k = l,
           NEW J, Readable(w, l, J), NEW i \in 1 .. Len(log), NEW h \in 1 .. Depth,
           NEW e \in log[i].commit.step[h].enc, KeyWithin(e.to, w, l, J)
    PROVE  i \in J /\ is_ancestor(sibling(PathNode(Sender(i), h - 1)), l)
<1>0. Len(log) \in Nat /\ i \in 0 .. Len(log) /\ NumPeople \in Nat
  BY LogLength, TreeKEMAssumption
<1> DEFINE r == e.recipient
<1>1. /\ r \in Node /\ e.to = Public(i, r) /\ e.to # None
      /\ is_ancestor(r, l) => is_ancestor(sibling(PathNode(Sender(i), h - 1)), l)
  BY BoxFacts
<1> HIDE DEF r
<1>2. KeyOf(i, r)
  BY <1>0, <1>1, KeyOrigin
<1>3. ASSUME NEW q \in People, e.to = LeafKey(q), HasLeaf(q, r)
      PROVE  i \in J /\ is_ancestor(r, l)
  <2>1. q \in Nat /\ q < NumPeople /\ e.to.id = q
    BY <1>0, <1>3 DEF People, LeafKey
  <2>2. e.to = LeafKey(w)
    BY <1>0, <2>1 DEF KeyWithin
  <2>3. q = w
    BY <2>1, <2>2 DEF LeafKey
  <2>4. r = l
    BY <1>3, <2>3
  <2>5. QED
    BY <1>1, <2>2, <2>4, AboveSelf DEF Readable
<1>4. ASSUME NEW j \in 1 .. i, NEW k \in 0 .. Depth, e.to = [id |-> IdOf(j), h |-> k],
             r = PathNode(Sender(j), k)
      PROVE  i \in J /\ is_ancestor(r, l)
  <2>1. j \in 1 .. Len(log)
    BY <1>0
  <2>2. e.to.id = IdOf(j) /\ e.to.h = k
    BY <1>4
  <2>3. IdOf(j) \in Nat /\ NumPeople <= IdOf(j)
    BY <2>1, EntryFacts
  <2>4. e.to # LeafKey(w)
    BY <1>0, <2>2, <2>3 DEF LeafKey, People
  <2>5. j \in J /\ is_ancestor(PathNode(Sender(j), k), l)
    BY <2>1, <2>2, <2>4 DEF KeyWithin
  <2>6. QED
    BY <1>1, <1>4, <2>5 DEF Readable
<1>5. QED
  BY <1>1, <1>2, <1>3, <1>4 DEF KeyOf

LEMMA LearnOne ==
    ASSUME LogOk, ChainOk, NEW w \in People, NEW l \in Leaf, \A k : HasLeaf(w, k) => k = l,
           NEW J, Readable(w, l, J), NEW i \in 1 .. Len(log),
           NEW keys, Within(keys, w, l, J)
    PROVE  Within(Learn(keys, log[i]), w, l, J)
<1> SUFFICES ASSUME NEW key \in Learn(keys, log[i]), key \notin keys
             PROVE  KeyWithin(key, w, l, J)
  BY DEF Within
<1>1. PICK h, e, k :
         /\ h \in 1 .. Depth /\ e \in log[i].commit.step[h].enc /\ k \in e.ps.h .. Depth
         /\ e.to \in keys /\ key = [id |-> e.ps.id, h |-> k]
  BY DEF Learn
<1>2. i \in J /\ is_ancestor(sibling(PathNode(Sender(i), h - 1)), l)
  BY <1>1, OpenedBox DEF Within
<1>3. /\ Sender(i) \in Leaf /\ BoxesOf(log[i].commit, IdOf(i))
      /\ IdOf(i) \in Nat /\ NumPeople <= IdOf(i)
  BY EntryFacts
<1>4. e.ps = [id |-> IdOf(i), h |-> h]
  <2>1. e = [recipient |-> e.recipient, to |-> e.to, ps |-> [id |-> IdOf(i), h |-> h]]
    BY <1>1, <1>3 DEF BoxesOf
  <2>2. QED
    BY <2>1
<1>5. k \in h .. Depth /\ key = [id |-> IdOf(i), h |-> k]
  BY <1>1, <1>4
<1>6. k \in 0 .. Depth
  BY <1>1, <1>5, DepthType
<1>7. PathNode(Sender(i), k) = PathNode(l, k)
  BY <1>1, <1>2, <1>3, <1>5, PathSibling
<1>8. is_ancestor(PathNode(Sender(i), k), l)
  BY <1>6, <1>7, AbovePath
<1>9. \A j \in 1 .. Len(log) : IdOf(i) = IdOf(j) => j = i
  BY IdsDiffer
<1>10. key.id = IdOf(i) /\ key.h = k
  BY <1>5
<1>11. QED
  BY <1>2, <1>3, <1>6, <1>8, <1>9, <1>10 DEF KeyWithin

LEMMA LearnAll ==
    ASSUME LogOk, ChainOk, NEW w \in People, NEW l \in Leaf, \A k : HasLeaf(w, k) => k = l,
           NEW J, Readable(w, l, J), NEW keys, Within(keys, w, l, J)
    PROVE  \A i \in 1 .. Len(log) : i \notin J => log[i].root \notin Derivable(keys)
<1>0. Len(log) \in Nat
  BY LogLength
<1>1. PICK f : Known(f, keys) /\ Derivable(keys) = f[Len(log)]
  BY <1>0, DerivableIs
<1> DEFINE S == {n \in Nat : n <= Len(log) => Within(f[n], w, l, J)}
<1>2. 0 \in S
  <2>1. f[0] = keys
    BY <1>0, <1>1 DEF Known
  <2>2. QED
    BY <2>1
<1>3. ASSUME NEW n \in Nat, n \in S PROVE n + 1 \in S
  <2> SUFFICES ASSUME n + 1 <= Len(log) PROVE Within(f[n + 1], w, l, J)
    OBVIOUS
  <2>1. n + 1 \in 1 .. Len(log) /\ n + 1 \in 0 .. Len(log) /\ n + 1 # 0 /\ (n + 1) - 1 = n
        /\ Within(f[n], w, l, J)
    BY <1>0, <1>3
  <2>2. f[n + 1] = Learn(f[n], log[n + 1])
    BY <1>1, <2>1 DEF Known
  <2>3. QED
    BY <2>1, <2>2, LearnOne
<1> HIDE DEF S
<1>4. Len(log) \in S
  BY <1>0, <1>2, <1>3, AllNumbers
<1>5. Within(Derivable(keys), w, l, J)
  BY <1>0, <1>1, <1>4 DEF S
<1>6. ASSUME NEW i \in 1 .. Len(log), log[i].root \in Derivable(keys) PROVE i \in J
  <2>1. KeyWithin(log[i].root, w, l, J)
    BY <1>5, <1>6 DEF Within
  <2>2. /\ log[i].root = [id |-> IdOf(i), h |-> Depth]
        /\ IdOf(i) \in Nat /\ NumPeople <= IdOf(i)
    BY EntryFacts
  <2>3. log[i].root.id = IdOf(i)
    BY <2>2
  <2>4. log[i].root # LeafKey(w)
    BY <2>2, <2>3, TreeKEMAssumption DEF LeafKey, People
  <2>5. QED
    BY <2>1, <2>3, <2>4 DEF KeyWithin
<1>7. QED
  BY <1>6

(* After a commit, the nodes above its sender hold nothing older.          *)
LEMMA AfterCommit ==
    ASSUME LogOk, ChainOk, NEW j \in 1 .. Len(log), NEW i \in j .. Len(log),
           NEW v \in Node, is_ancestor(v, Sender(j))
    PROVE  \/ Public(i, v) = None
           \/ \E q \in People : q # log[j].by /\ Public(i, v) = LeafKey(q)
           \/ \E m \in j .. i, k \in 0 .. Depth : Public(i, v) = [id |-> IdOf(m), h |-> k]
<1> DEFINE Newer(n, u) ==
               \/ Public(n, u) = None
               \/ \E q \in People : q # log[j].by /\ Public(n, u) = LeafKey(q)
               \/ \E m \in j .. n, k \in 0 .. Depth : Public(n, u) = [id |-> IdOf(m), h |-> k]
           S == {n \in Nat : j + n <= Len(log) => Newer(j + n, v)}
<1>0. Len(log) \in Nat /\ j \in Nat /\ j >= 1 /\ i \in Nat
  BY LogLength
<1>1. ASSUME NEW n \in 1 .. Len(log), j <= n, is_ancestor(v, Sender(n)) PROVE Newer(n, v)
  <2>1. Public(n, v) = [id |-> IdOf(n), h |-> Height(Sender(n), v)] /\ Sender(n) \in Leaf
    BY <1>1, EntryFacts
  <2>2. Height(Sender(n), v) \in 0 .. Depth
    BY <1>1, <2>1, HeightIs
  <2>3. n \in j .. n
    BY <1>0, <1>1
  <2>4. QED
    BY <2>1, <2>2, <2>3
<1>2. 0 \in S
  BY <1>0, <1>1
<1>3. ASSUME NEW n \in Nat, n \in S PROVE n + 1 \in S
  <2> SUFFICES ASSUME j + (n + 1) <= Len(log) PROVE Newer(j + (n + 1), v)
    OBVIOUS
  <2>1. PICK a, b : a = j + n /\ b = j + (n + 1)
    OBVIOUS
  <2>2. /\ b \in 1 .. Len(log) /\ b - 1 = a /\ Newer(a, v) /\ j <= a /\ j <= b /\ b \in Nat
        /\ a \in Nat /\ b = a + 1
    BY <1>0, <1>3, <2>1
  <2>3. CASE is_ancestor(v, Sender(b))
    BY <1>1, <2>1, <2>2, <2>3
  <2>4. CASE ~ is_ancestor(v, Sender(b))
    <3>1. Public(b, v) = Changed(ChangeOf(b), v, Public(a, v))
      BY <2>2, <2>4, EntryFacts
    <3>2. CASE /\ Touched(ChangeOf(b), v)
               /\ ChangeOf(b).op = "add" /\ v = ChangeOf(b).leaf
      <4> DEFINE q == ChangeOf(b).who
      <4>1. Public(b, v) = LeafKey(q)
        BY <3>1, <3>2 DEF Changed
      <4>2. Added(b, q)
        BY <3>2 DEF Added
      <4>3. q \in People /\ \A g \in 0 .. b - 1 : q \notin Roster(g)
        BY <2>2, <4>2, RosterAt
      <4>4. log[j].by \in Roster(j - 1) /\ j - 1 \in 0 .. b - 1
        <5>1. CommitOk(j)
          BY DEF ChainOk
        <5>2. log[j].by \in Roster(j - 1)
          BY <5>1 DEF CommitOk
        <5>3. QED
          BY <1>0, <2>2, <5>2
      <4> HIDE DEF q
      <4>5. q # log[j].by
        BY <4>3, <4>4
      <4>6. Newer(b, v)
        BY <4>1, <4>3, <4>5
      <4>7. QED
        BY <2>1, <4>6
    <3>3. CASE /\ Touched(ChangeOf(b), v)
               /\ ~(ChangeOf(b).op = "add" /\ v = ChangeOf(b).leaf)
      <4>1. Public(b, v) = None
        BY <3>1, <3>3 DEF Changed
      <4>2. QED
        BY <2>1, <4>1
    <3>4. CASE ~ Touched(ChangeOf(b), v)
      <4>1. Public(b, v) = Public(a, v)
        BY <3>1, <3>4 DEF Changed
      <4>2. \A m \in j .. a : m \in j .. b
        BY <1>0, <2>2
      <4>3. Newer(b, v)
        BY <2>2, <4>1, <4>2
      <4>4. QED
        BY <2>1, <4>3
    <3>5. QED
      BY <3>2, <3>3, <3>4
  <2>5. QED
    BY <2>3, <2>4
<1> HIDE DEF S
<1>4. i - j \in S
  BY <1>0, <1>2, <1>3, AllNumbers
<1>5. j + (i - j) = i
  BY <1>0
<1>6. Newer(i, v)
  BY <1>0, <1>4, <1>5 DEF S
<1>7. QED
  BY <1>6

LEMMA OutsiderLearns ==
    ASSUME ViewInv, NEW p \in People, NEW i \in 1 .. Len(log), p \notin log[i].roster
    PROVE  log[i].root \notin Derivable(Drawn(p))
<1> DEFINE J == {j \in 1 .. Len(log) : p \in Roster(j)}
<1>0. LogOk /\ ChainOk /\ Len(log) \in Nat /\ i \notin J
  BY LogLength, RosterAt DEF ViewInv, AgreeInv
<1>1. \A j \in 1 .. Len(log), v \in Node : Public(j, v) = LeafKey(p) =>
          HasLeaf(p, v) /\ j \in J
  <2> SUFFICES ASSUME NEW j \in 1 .. Len(log), NEW v \in Node, Public(j, v) = LeafKey(p)
               PROVE  HasLeaf(p, v) /\ p \in Roster(j)
    OBVIOUS
  <2>1. KeyOf(j, v) /\ p \in Nat /\ p < NumPeople /\ LeafKey(p).id = p
    BY <1>0, KeyOrigin, TreeKEMAssumption DEF People, LeafKey
  <2>2. Public(j, v) # None
    BY KeysNotNone
  <2>3. \A q \in People : Public(j, v) = LeafKey(q) => q = p
    BY DEF LeafKey
  <2>4. \A g \in 1 .. j : \A k : Public(j, v) # [id |-> IdOf(g), h |-> k]
    <3> SUFFICES ASSUME NEW g \in 1 .. j, NEW k, Public(j, v) = [id |-> IdOf(g), h |-> k]
                 PROVE  FALSE
      OBVIOUS
    <3>1. g \in 1 .. Len(log)
      BY <1>0
    <3>2. IdOf(g) \in Nat /\ NumPeople <= IdOf(g)
      BY <1>0, <3>1, EntryFacts
    <3>3. LeafKey(p).id = IdOf(g)
      BY <2>1
    <3>4. QED
      BY <2>1, <3>2, <3>3, TreeKEMAssumption
  <2>5. QED
    BY <2>1, <2>2, <2>3, <2>4 DEF KeyOf
<1>2. ASSUME NEW j \in 1 .. Len(log), log[j].by = p
      PROVE  j \in J /\ HasLeaf(p, Sender(j)) /\ Sender(j) \in Leaf
  <2>1. /\ p \in Roster(j - 1) /\ p # ChangeOf(j).who /\ HasLeaf(p, Sender(j))
    BY <1>0, <1>2 DEF ChainOk, CommitOk, ChangeOf
  <2>2. p \in Roster(j)
    BY <1>0, <2>1, RosterAt DEF Removed
  <2>3. QED
    BY <1>0, <2>1, <2>2, EntryFacts
<1>3. ASSUME NEW l \in Leaf, \A k : HasLeaf(p, k) => k = l
      PROVE  Within(Drawn(p), p, l, J)
  <2> SUFFICES ASSUME NEW key \in Drawn(p), key # LeafKey(p) PROVE KeyWithin(key, p, l, J)
    BY DEF Within, KeyWithin
  <2>1. PICK j \in 1 .. Len(log), k \in 0 .. Depth :
           log[j].by = p /\ key = [id |-> IdOf(j), h |-> k]
    BY DEF Drawn, IdOf
  <2>2. j \in J /\ Sender(j) = l
    BY <1>2, <1>3, <2>1
  <2>3. /\ key.id = IdOf(j) /\ key.h = k
        /\ IdOf(j) \in Nat /\ NumPeople <= IdOf(j)
    BY <1>0, <2>1, EntryFacts
  <2>4. \A g \in 1 .. Len(log) : key.id = IdOf(g) => g = j
    BY <1>0, <2>3, IdsDiffer
  <2>5. is_ancestor(PathNode(Sender(j), k), l)
    BY <2>2, AbovePath
  <2> HIDE DEF J
  <2>6. QED
    BY <2>2, <2>3, <2>4, <2>5 DEF KeyWithin
<1>4. ASSUME NEW l \in Leaf, HasLeaf(p, l) PROVE log[i].root \notin Derivable(Drawn(p))
  <2>1. \A k : HasLeaf(p, k) => k = l
    BY <1>0, <1>4, OneLeaf
  <2>2. ASSUME NEW m \in 1 .. Len(log), NEW v \in Node, NEW j \in J, NEW k \in 0 .. Depth,
               j \in 1 .. m, Public(m, v) = [id |-> IdOf(j), h |-> k],
               is_ancestor(v, l)
        PROVE  m \in J
    <3>1. j \in 1 .. Len(log) /\ p \in Roster(j) /\ KeyOf(m, v)
      BY <1>0, KeyOrigin
    <3>2. IdOf(j) \in Nat /\ NumPeople <= IdOf(j) /\ Public(m, v).id = IdOf(j)
      <4>1. IdOf(j) \in Nat /\ NumPeople <= IdOf(j)
        BY <1>0, <3>1, EntryFacts
      <4>2. QED
        BY <2>2, <4>1
    <3>3. Public(m, v) # None
      BY <2>2, <3>2, KeysNotNone
    <3>4. \A q \in People : Public(m, v) # LeafKey(q)
      BY <3>2, TreeKEMAssumption DEF LeafKey, People
    <3>5. PICK g \in 1 .. m, b \in 0 .. Depth :
             /\ Public(m, v) = [id |-> IdOf(g), h |-> b]
             /\ \A q \in Roster(g), a \in Leaf :
                   HasLeaf(q, a) /\ is_ancestor(v, a) => q \in Roster(m)
      BY <3>1, <3>3, <3>4 DEF KeyOf
    <3>6. IdOf(g) = IdOf(j) /\ g \in 1 .. Len(log)
      BY <1>0, <3>2, <3>5
    <3>7. g = j
      BY <1>0, <3>1, <3>6, IdsDiffer
    <3>8. QED
      BY <1>4, <2>2, <3>1, <3>5, <3>7
  <2> HIDE DEF J
  <2>3. Readable(p, l, J)
    BY <1>1, <2>2 DEF Readable
  <2>4. Within(Drawn(p), p, l, J)
    BY <1>3, <2>1
  <2>5. QED
    BY <1>0, <2>1, <2>3, <2>4, LearnAll
<1>5. ASSUME \A l \in Leaf : ~ HasLeaf(p, l) PROVE log[i].root \notin Derivable(Drawn(p))
  <2> DEFINE l == NLeaves
  <2>1. l \in Leaf
    BY LeavesPositive DEF Leaf
  <2>2. \A k : ~ HasLeaf(p, k)
    BY <1>0, <1>5, OneLeaf
  <2> HIDE DEF l
  <2>3. Readable(p, l, {})
    BY <1>1, <2>2 DEF Readable
  <2>4. Drawn(p) = {LeafKey(p)}
    BY <1>2, <2>2 DEF Drawn
  <2>5. Within(Drawn(p), p, l, {})
    BY <2>4 DEF Within, KeyWithin
  <2>6. QED
    BY <1>0, <2>1, <2>2, <2>3, <2>5, LearnAll
<1>6. QED
  BY <1>4, <1>5

(* A leaf removed or not yet added is really outside: treekem_commit's     *)
(* boxes for the group, all of them, give it no root secret of a commit    *)
(* that does not list it, and no tree ever holds the private key of a node *)
(* off its owner's path (OutsidersExcluded).                               *)
THEOREM OutsidersStayOut == Spec => []OutsidersExcluded
<1>1. KeysInv => OutsidersExcluded
  <2> SUFFICES ASSUME KeysInv PROVE OutsidersExcluded
    OBVIOUS
  <2>1. \A p \in People, v \in Node : tree[p][v].priv # None => is_ancestor(v, leaf[p])
    BY DEF KeysInv, HoldingsOk, HeldBy
  <2>2. \A p \in People : \A i \in 1 .. Len(log) :
            p \notin log[i].roster => log[i].root \notin Derivable(Drawn(p))
    BY OutsiderLearns DEF KeysInv
  <2>3. QED
    BY <2>1, <2>2 DEF OutsidersExcluded
<1>2. QED
  BY <1>1, KeysAlways, PTL

(* One commit of its own after a compromise locks out whoever read the     *)
(* member's state: treekem_commit re-keys every node that state could open *)
(* (Heals).                                                                *)
THEOREM CompromiseHeals == Spec => []Heals
<1>1. KeysInv => Heals
  <2> SUFFICES ASSUME KeysInv, NEW j \in leak.at + 1 .. Len(log), log[j].by = leak.who,
                      NEW i \in j .. Len(log)
               PROVE  log[i].root \notin Derivable(leak.keys)
    BY DEF Heals
  <2>0. LogOk /\ ChainOk /\ JoinedOk /\ LeakOk /\ Len(log) \in Nat
    BY LogLength DEF KeysInv, ViewInv, AgreeInv
  <2> DEFINE w == leak.who
             l == leaf[w]
             J == 1 .. j - 1
  <2>1. leak.at \in Nat /\ j \in 1 .. Len(log) /\ leak.at < j /\ i \in 1 .. Len(log)
        /\ j \in Nat /\ i \notin J
    BY <2>0 DEF LeakOk
  <2>2. log[j].by \in People /\ HasLeaf(log[j].by, Sender(j))
    BY <2>0, <2>1 DEF ChainOk, CommitOk
  <2>3. w \in People /\ w # -1 /\ w \in Nat
    BY <2>2, TreeKEMAssumption DEF People
  <2>4. l # 0 /\ \A key \in leak.keys : OwnKey(key, w, l, leak.at)
    BY <2>0, <2>3 DEF LeakOk
  <2>5. l \in Leaf /\ HasLeaf(w, l) /\ Sender(j) = l /\ \A k : HasLeaf(w, k) => k = l
    BY <2>0, <2>2, <2>3, <2>4, OneLeaf DEF JoinedOk
  <2>6. ASSUME NEW m \in 1 .. Len(log), m \notin J, NEW v \in Node, is_ancestor(v, l)
        PROVE  /\ Public(m, v) # LeafKey(w)
               /\ \A g \in J : \A k : Public(m, v) # [id |-> IdOf(g), h |-> k]
    <3>1. m \in j .. Len(log)
      BY <2>0, <2>1, <2>6
    <3>2. \/ Public(m, v) = None
          \/ \E q \in People : q # w /\ Public(m, v) = LeafKey(q)
          \/ \E a \in j .. m, k \in 0 .. Depth : Public(m, v) = [id |-> IdOf(a), h |-> k]
      BY <2>0, <2>1, <2>5, <2>6, <3>1, AfterCommit
    <3>3. \A q \in People : LeafKey(q).id = q /\ q \in Nat /\ q < NumPeople /\ LeafKey(q) # None
      BY KeysNotNone, TreeKEMAssumption DEF People
    <3>4. ASSUME NEW a \in 1 .. Len(log), NEW k
          PROVE  LET key == [id |-> IdOf(a), h |-> k]
                 IN  key # None /\ key.id = IdOf(a) /\ IdOf(a) \in Nat /\ NumPeople <= IdOf(a)
      <4>1. IdOf(a) \in Nat /\ NumPeople <= IdOf(a)
        BY <2>0, EntryFacts
      <4>2. QED
        BY <4>1, KeysNotNone
    <3>5. CASE Public(m, v) = None
      <4>1. \A g \in J : g \in 1 .. Len(log)
        BY <2>0, <2>1
      <4>2. QED
        BY <2>3, <3>3, <3>4, <3>5, <4>1
    <3>6. ASSUME NEW q \in People, q # w, Public(m, v) = LeafKey(q)
          PROVE  /\ Public(m, v) # LeafKey(w)
                 /\ \A g \in J : \A k : Public(m, v) # [id |-> IdOf(g), h |-> k]
      <4>1. Public(m, v) # LeafKey(w)
        BY <2>3, <3>3, <3>6
      <4>2. ASSUME NEW g \in J, NEW k, Public(m, v) = [id |-> IdOf(g), h |-> k] PROVE FALSE
        <5>1. g \in 1 .. Len(log)
          BY <2>0, <2>1
        <5>2. Public(m, v).id = IdOf(g) /\ IdOf(g) \in Nat /\ NumPeople <= IdOf(g)
          BY <3>4, <4>2, <5>1
        <5>3. Public(m, v).id = q
          BY <3>3, <3>6
        <5>4. QED
          BY <3>3, <5>2, <5>3, TreeKEMAssumption
      <4>3. QED
        BY <4>1, <4>2
    <3>7. ASSUME NEW a \in j .. m, NEW b \in 0 .. Depth,
                 Public(m, v) = [id |-> IdOf(a), h |-> b]
          PROVE  /\ Public(m, v) # LeafKey(w)
                 /\ \A g \in J : \A k : Public(m, v) # [id |-> IdOf(g), h |-> k]
      <4>1. a \in 1 .. Len(log) /\ a \notin J
        BY <2>0, <2>1
      <4>2. Public(m, v).id = IdOf(a) /\ IdOf(a) \in Nat /\ NumPeople <= IdOf(a)
        BY <3>4, <3>7, <4>1
      <4>3. Public(m, v) # LeafKey(w)
        BY <2>3, <3>3, <4>2, TreeKEMAssumption
      <4>4. ASSUME NEW g \in J, NEW k, Public(m, v) = [id |-> IdOf(g), h |-> k] PROVE FALSE
        <5>1. g \in 1 .. Len(log)
          BY <2>0, <2>1
        <5>2. IdOf(g) = IdOf(a)
          BY <3>4, <4>2, <4>4, <5>1
        <5>3. g = a
          BY <2>0, <4>1, <5>1, <5>2, IdsDiffer
        <5>4. QED
          BY <4>1, <5>3
      <4>5. QED
        BY <4>3, <4>4
    <3>8. QED
      BY <3>2, <3>5, <3>6, <3>7
  <2>7. Readable(w, l, J)
    <3> SUFFICES ASSUME NEW m \in 1 .. Len(log), NEW v \in Node, m \notin J
                 PROVE  /\ ~(Public(m, v) = LeafKey(w) /\ v = l)
                        /\ \A g \in J, k \in 0 .. Depth :
                              ~(Public(m, v) = [id |-> IdOf(g), h |-> k] /\ is_ancestor(v, l))
      <4> HIDE DEF J, w, l
      <4>1. QED
        BY DEF Readable
    <3>1. QED
      BY <2>5, <2>6, AboveSelf
  <2>8. Within(leak.keys, w, l, J)
    <3> SUFFICES ASSUME NEW key \in leak.keys, key # LeafKey(w) PROVE KeyWithin(key, w, l, J)
      BY DEF Within, KeyWithin
    <3>1. /\ key.id \in Nat /\ NumPeople <= key.id
          /\ \A g \in 1 .. Len(log) :
                key.id = IdOf(g) => /\ g <= leak.at /\ key.h \in 0 .. Depth
                                    /\ is_ancestor(PathNode(Sender(g), key.h), l)
      BY <2>4 DEF OwnKey
    <3>2. \A g \in 1 .. Len(log) : g <= leak.at => g \in J
      BY <2>0, <2>1
    <3> HIDE DEF J, w, l
    <3>3. QED
      BY <3>1, <3>2 DEF KeyWithin
  <2> HIDE DEF J, l, w
  <2>9. \A m \in 1 .. Len(log) : m \notin J => log[m].root \notin Derivable(leak.keys)
    BY <2>0, <2>3, <2>5, <2>7, <2>8, LearnAll
  <2>10. QED
    BY <2>1, <2>9
<1>2. QED
  BY <1>1, KeysAlways, PTL
==============================================================================
