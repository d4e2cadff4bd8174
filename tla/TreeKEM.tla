------------------------------ MODULE TreeKEM ------------------------------
(***************************************************************************)
(* The ratchet tree of treekem.c: one view of the tree per member, commits *)
(* that re-key the committer's path to the root, and changes of            *)
(* membership.                                                             *)
(*                                                                         *)
(* The tree is a heap: root 1, children 2i and 2i+1, leaves N..2N-1.  A    *)
(* path secret is [id, h]: the secret of draw id, hashed h times on its    *)
(* way up; the key pair of a node is named by the path secret it is        *)
(* derived from, and the root (group) secret by the path secret at height  *)
(* Depth.                                                                  *)
(*                                                                         *)
(* The layer above is external ("MLS proposals, framing, and the epoch key *)
(* schedule are separate layers", treekem.h:7): it puts the commits in one *)
(* order (log), lets only a member that has processed all of them commit,  *)
(* and has every member apply a change of membership before it processes   *)
(* the commit that carries it.                                             *)
(***************************************************************************)
EXTENDS Integers, FiniteSets, Sequences, SequencesExt

CONSTANTS
    Depth,        \* height of the tree: it has 2^Depth leaves
    NumPeople,    \* people; the first 2^Depth found the group
    MaxCommits,   \* bound on commits attempted
    MaxMishaps,   \* bound on lost commits, bad deliveries and compromises together
    Active,       \* who commits; the others only follow, or are removed
    Unlucky       \* whose deliveries may be damaged or repeated, whose commits may
                  \* be lost and whose state may be read

ASSUME TreeKEMAssumption ==
    /\ Depth \in Nat \ {0}
    /\ NumPeople \in Nat
    /\ NumPeople >= 2^Depth
    /\ MaxCommits \in Nat
    /\ MaxMishaps \in Nat
    /\ Active \subseteq 0 .. NumPeople - 1
    /\ Unlucky \subseteq 0 .. NumPeople - 1

NLeaves == 2^Depth
Node == 1 .. 2 * NLeaves - 1
Leaf == NLeaves .. 2 * NLeaves - 1
People == 0 .. NumPeople - 1
Founder == 0 .. NLeaves - 1

None == [id |-> -1, h |-> 0]              \* no key; also a sealed box nobody opens
Blank == [pub |-> None, priv |-> None]
NoView == [v \in Node |-> Blank]

VARIABLES
    leaf,       \* leaf[p]: my_leaf of p's tree, 0 before p has one
    tree,       \* tree[p]: the nodes of p's tree
    root,       \* root[p]: root_secret, None before have_root
    epoch,      \* epoch[p]: how many commits of the log p has processed
    log,        \* the accepted commits with the change and roster of each
    fresh,      \* the next unused draw of randomness
    diverged,   \* people whose tree was re-keyed by a commit that was lost
    forked,     \* people whose root secret is that of a lost commit
    mishaps,    \* number of lost commits, bad deliveries and compromises
    leak        \* what a compromise saw: who, the keys, the length of the log

vars == <<leaf, tree, root, epoch, log, fresh, diverged, forked, mishaps, leak>>

----------------------------------------------------------------------------
(* Tree arithmetic.                                                        *)

PathNode(l, h) == l \div 2^h

sibling(v) == IF v % 2 = 0 THEN v + 1 ELSE v - 1

is_ancestor(a, l) == \E h \in 0 .. Depth : PathNode(l, h) = a

(* The highest populated nodes of each subtree.                            *)
resolution(t) ==
    LET res[v \in Node] ==
            IF t[v].pub # None THEN {v}
            ELSE IF v >= NLeaves THEN {}
            ELSE res[2 * v] \cup res[2 * v + 1]
    IN  res

----------------------------------------------------------------------------
(* treekem_init, treekem_export, treekem_import.                           *)

LeafKey(p) == [id |-> p, h |-> 0]

treekem_init(me) ==
    [v \in Node |->
        IF v \notin Leaf THEN Blank
        ELSE [pub  |-> LeafKey(v - NLeaves),
              priv |-> IF v = NLeaves + me THEN LeafKey(me) ELSE None]]

(* The Welcome carries the index and key of each populated node.           *)
treekem_export(t) == {[node |-> v, pub |-> t[v].pub] : v \in {u \in Node : t[u].pub # None}}

treekem_import(welcome, l, priv) ==
    [v \in Node |->
        [pub  |-> IF \E e \in welcome : e.node = v
                  THEN (CHOOSE e \in welcome : e.node = v).pub
                  ELSE None,
         priv |-> IF v = l THEN priv ELSE None]]

----------------------------------------------------------------------------
(* treekem_blank_leaf, treekem_add_leaf, treekem_free_leaf.                *)

(* Mutant: the nodes above the leaf keep their keys.                       *)
BlankLeafOnly(t, l) == [t EXCEPT ![l] = Blank]

treekem_blank_leaf(t, l) ==
    [v \in Node |-> IF is_ancestor(v, l) THEN Blank ELSE t[v]]

(* Mutant: the direct path of the joiner is not blanked.                   *)
AddLeafOnly(t, l, pub) == [t EXCEPT ![l] = [pub |-> pub, priv |-> None]]

treekem_add_leaf(t, l, pub) ==
    [v \in Node |->
        IF v = l THEN [pub |-> pub, priv |-> None]
        ELSE IF is_ancestor(v, l) THEN Blank ELSE t[v]]

FreeLeaves(t) == {l \in Leaf : t[l].pub = None}

treekem_free_leaf(t) == CHOOSE l \in FreeLeaves(t) : \A k \in FreeLeaves(t) : l <= k

(* A change of membership, as the layer above hands it to a member.        *)
NoChange == [op |-> "none", who |-> -1, leaf |-> 0]

Apply(t, change) ==
    CASE change.op = "none"   -> t
      [] change.op = "remove" -> treekem_blank_leaf(t, change.leaf)
      [] change.op = "add"    -> treekem_add_leaf(t, change.leaf, LeafKey(change.who))

----------------------------------------------------------------------------
(* treekem_commit: node_from_ps on the leaf and on each node of the path up *)
(* to height k (Depth, unless it fails half way), the path secret of each  *)
(* sealed to the resolution of the sibling below it.                       *)

Rekey(t, l, id, k) ==
    [v \in Node |->
        IF \E h \in 0 .. k : PathNode(l, h) = v
        THEN LET s == [id |-> id, h |-> CHOOSE h \in 0 .. k : PathNode(l, h) = v]
             IN  [pub |-> s, priv |-> s]
        ELSE t[v]]

seal_ps(t, id, h, child) ==
    {[recipient |-> r, to |-> t[r].pub, ps |-> [id |-> id, h |-> h]]
        : r \in resolution(t)[sibling(child)]}

treekem_commit(t, l, id) ==
    [sender_leaf |-> l,
     leaf_pub    |-> [id |-> id, h |-> 0],
     step        |-> [h \in 1 .. Depth |->
                        [node |-> PathNode(l, h),
                         pub  |-> [id |-> id, h |-> h],
                         enc  |-> seal_ps(t, id, h, PathNode(l, h - 1))]]]

----------------------------------------------------------------------------
(* treekem_process.                                                        *)

(* Mutant: the new leaf key of the committer is forgotten.                 *)
InstallPathOnly(t, c) ==
    [v \in Node |->
        IF \E h \in DOMAIN c.step : c.step[h].node = v
        THEN [pub  |-> c.step[CHOOSE h \in DOMAIN c.step : c.step[h].node = v].pub,
              priv |-> None]
        ELSE t[v]]

(* 1. The committer's public keys go in, private halves go out.            *)
Install(t, c) ==
    [v \in Node |->
        IF v = c.sender_leaf THEN [pub |-> c.leaf_pub, priv |-> None]
        ELSE IF \E h \in DOMAIN c.step : c.step[h].node = v
        THEN [pub  |-> c.step[CHOOSE h \in DOMAIN c.step : c.step[h].node = v].pub,
              priv |-> None]
        ELSE t[v]]

Child(c, h) == IF h = 1 THEN c.sender_leaf ELSE c.step[h - 1].node

(* 2. The sealed path secrets of step h that open for the holder of leaf l. *)
Openable(t, l, c, h) ==
    {e \in c.step[h].enc :
        /\ is_ancestor(sibling(Child(c, h)), l)
        /\ is_ancestor(e.recipient, l)
        /\ t[e.recipient].priv # None
        /\ t[e.recipient].priv = e.to}

OpenSteps(t, l, c) == {h \in DOMAIN c.step : Openable(t, l, c, h) # {}}

(* 3. From the intersection node to the root, the keys are derived again.  *)
Rederive(t, c, h, ps) ==
    [v \in Node |->
        IF \E k \in h .. Depth : c.step[k].node = v
        THEN LET k == CHOOSE k \in h .. Depth : c.step[k].node = v
                 s == [id |-> ps.id, h |-> ps.h + (k - h)]
             IN  [pub |-> s, priv |-> s]
        ELSE t[v]]

(* Mutant: the root secret is that of the intersection node.                *)
RootOfPs(ps, h) == ps

(* The root secret at the end of that walk.                                *)
RootAbove(ps, h) == [id |-> ps.id, h |-> ps.h + (Depth - h)]

treekem_process(t, l, c) ==
    LET t1   == Install(t, c)
        open == OpenSteps(t1, l, c)
        h    == CHOOSE h \in open : \A k \in open : h <= k
        ps   == (CHOOSE e \in Openable(t1, l, c, h) : TRUE).ps
    IN  IF c.sender_leaf = l THEN [ok |-> FALSE, tree |-> t, root |-> None]
        ELSE IF open = {} THEN [ok |-> FALSE, tree |-> t1, root |-> None]
        ELSE [ok   |-> TRUE,
              tree |-> Rederive(t1, c, h, ps),
              root |-> RootAbove(ps, h)]

(* A commit damaged on its way: no sealed box of it opens.                 *)
Garbled(c) ==
    [c EXCEPT !.step = [h \in DOMAIN c.step |->
        [c.step[h] EXCEPT !.enc = {[e EXCEPT !.to = None] : e \in c.step[h].enc}]]]

----------------------------------------------------------------------------
Roster(i) == IF i = 0 THEN Founder ELSE log[i].roster

Member(p) == p \in Roster(Len(log))

(* The entry of the log that person p processes next, and what p's tree    *)
(* makes of its commit as delivered, c.  The subject of a change does not  *)
(* apply it to its own tree.                                               *)
Upcoming(p) == log[epoch[p] + 1]

ProcessUpcoming(p, c) ==
    LET change == Upcoming(p).change
        t == IF change.who = p THEN tree[p] ELSE Apply(tree[p], change)
    IN  treekem_process(t, leaf[p], c)

Init ==
    /\ leaf = [p \in People |-> IF p \in Founder THEN NLeaves + p ELSE 0]
    /\ tree = [p \in People |-> IF p \in Founder THEN treekem_init(p) ELSE NoView]
    /\ root = [p \in People |-> None]
    /\ epoch = [p \in People |-> 0]
    /\ log = <<>>
    /\ fresh = NumPeople
    /\ diverged = {}
    /\ forked = {}
    /\ mishaps = 0
    /\ leak = [who |-> -1, keys |-> {}, at |-> 0]

(* Each commit, lost or not, draws fresh randomness once.                  *)
Attempts == fresh - NumPeople

CanCommit(p) ==
    /\ p \in Active
    /\ Member(p)
    /\ epoch[p] = Len(log)
    /\ p \notin diverged

Changes(p) ==
    {NoChange}
      \cup {[op |-> "remove", who |-> q, leaf |-> leaf[q]]
              : q \in {q \in Roster(Len(log)) : q # p /\ leaf[q] # 0}}
      \cup (IF FreeLeaves(tree[p]) = {} THEN {}
            ELSE {[op |-> "add", who |-> q, leaf |-> treekem_free_leaf(tree[p])]
                    : q \in {q \in People :
                               \A i \in 0 .. Len(log) : q \notin Roster(i)}})

(* A change of membership and the commit that carries it, accepted.        *)
Commit(p, change) ==
    /\ CanCommit(p)
    /\ Attempts < MaxCommits
    /\ LET t == Apply(tree[p], change)
           done == Rekey(t, leaf[p], fresh, Depth)
       IN  /\ tree' = [tree EXCEPT ![p] = done]
           /\ log' = Append(log,
                 [commit  |-> treekem_commit(t, leaf[p], fresh),
                  by      |-> p,
                  change  |-> change,
                  welcome |-> treekem_export(done),
                  root    |-> [id |-> fresh, h |-> Depth],
                  roster  |-> CASE change.op = "none"   -> Roster(Len(log))
                                [] change.op = "remove" -> Roster(Len(log)) \ {change.who}
                                [] change.op = "add"    -> Roster(Len(log)) \cup {change.who}])
    /\ root' = [root EXCEPT ![p] = [id |-> fresh, h |-> Depth]]
    /\ epoch' = [epoch EXCEPT ![p] = Len(log) + 1]
    /\ fresh' = fresh + 1
    /\ UNCHANGED <<leaf, diverged, forked, mishaps, leak>>

(* treekem_commit fails after height k, or completes (k = Depth) and loses  *)
(* the race to another commit: the tree has been re-keyed all the same.    *)
CommitLost(p, k) ==
    /\ p \in Unlucky
    /\ CanCommit(p)
    /\ mishaps < MaxMishaps
    /\ Attempts < MaxCommits
    /\ tree' = [tree EXCEPT ![p] = Rekey(tree[p], leaf[p], fresh, k)]
    /\ root' = IF k = Depth THEN [root EXCEPT ![p] = [id |-> fresh, h |-> Depth]] ELSE root
    /\ forked' = IF k = Depth THEN forked \cup {p} ELSE forked
    /\ diverged' = diverged \cup {p}
    /\ fresh' = fresh + 1
    /\ mishaps' = mishaps + 1
    /\ UNCHANGED <<leaf, epoch, log, leak>>

(* A joiner builds its tree from the Welcome and will process the commit   *)
(* that added it.                                                          *)
Join(q) ==
    /\ leaf[q] = 0
    /\ \E i \in 1 .. Len(log) :
          /\ log[i].change.op = "add"
          /\ log[i].change.who = q
          /\ leaf' = [leaf EXCEPT ![q] = log[i].change.leaf]
          /\ tree' = [tree EXCEPT ![q] =
                        treekem_import(log[i].welcome, log[i].change.leaf, LeafKey(q))]
          /\ epoch' = [epoch EXCEPT ![q] = i - 1]
    /\ UNCHANGED <<root, log, fresh, diverged, forked, mishaps, leak>>

Process(p) ==
    /\ leaf[p] # 0
    /\ epoch[p] < Len(log)
    /\ LET r == ProcessUpcoming(p, Upcoming(p).commit)
       IN  /\ tree' = [tree EXCEPT ![p] = r.tree]
           /\ root' = IF r.ok THEN [root EXCEPT ![p] = r.root] ELSE root
           /\ epoch' = IF r.ok THEN [epoch EXCEPT ![p] = @ + 1] ELSE epoch
           /\ forked' = IF r.ok THEN forked \ {p} ELSE forked
    /\ UNCHANGED <<leaf, log, fresh, diverged, mishaps, leak>>

(* The next commit arrives damaged: it is refused, but not without trace.  *)
ProcessGarbled(p) ==
    /\ p \in Unlucky
    /\ leaf[p] # 0
    /\ epoch[p] < Len(log)
    /\ mishaps < MaxMishaps
    /\ tree' = [tree EXCEPT ![p] = ProcessUpcoming(p, Garbled(Upcoming(p).commit)).tree]
    /\ mishaps' = mishaps + 1
    /\ UNCHANGED <<leaf, root, epoch, log, fresh, diverged, forked, leak>>

(* The commit p processed last arrives a second time.                      *)
Redeliver(p) ==
    /\ p \in Unlucky
    /\ leaf[p] # 0
    /\ epoch[p] > 0
    /\ mishaps < MaxMishaps
    /\ LET r == treekem_process(tree[p], leaf[p], log[epoch[p]].commit)
       IN  /\ tree' = [tree EXCEPT ![p] = r.tree]
           /\ root' = IF r.ok THEN [root EXCEPT ![p] = r.root] ELSE root
           /\ forked' = IF r.ok THEN forked \ {p} ELSE forked
    /\ mishaps' = mishaps + 1
    /\ UNCHANGED <<leaf, epoch, log, fresh, diverged, leak>>

(* Someone reads everything p holds.                                       *)
Compromise(p) ==
    /\ p \in Unlucky
    /\ mishaps < MaxMishaps
    /\ leak.who = -1
    /\ leaf[p] # 0
    /\ leak' = [who |-> p,
                keys |-> ({tree[p][v].priv : v \in Node} \cup {root[p]}) \ {None},
                at |-> Len(log)]
    /\ mishaps' = mishaps + 1
    /\ UNCHANGED <<leaf, tree, root, epoch, log, fresh, diverged, forked>>

Next ==
    \E p \in People :
        \/ \E change \in Changes(p) : Commit(p, change)
        \/ \E k \in 0 .. Depth : CommitLost(p, k)
        \/ Join(p)
        \/ Process(p)
        \/ ProcessGarbled(p)
        \/ Redeliver(p)
        \/ Compromise(p)

Spec == Init /\ [][Next]_vars

----------------------------------------------------------------------------
(* What follows from a set of keys and every commit of the log: a box that *)
(* opens gives a path secret and all those above it.  Boxes are sealed to  *)
(* keys of earlier commits, so one pass in order suffices.                 *)
Learn(keys, entry) ==
    LET boxes == UNION {entry.commit.step[h].enc : h \in 1 .. Depth}
    IN  keys \cup UNION {{[id |-> e.ps.id, h |-> k] : k \in e.ps.h .. Depth}
                           : e \in {e \in boxes : e.to \in keys}}

Derivable(keys) ==
    LET known[i \in 0 .. Len(log)] ==
            IF i = 0 THEN keys ELSE Learn(known[i - 1], log[i])
    IN  known[Len(log)]

(* Every secret p ever drew.                                               *)
Drawn(p) ==
    {LeafKey(p)} \cup {[id |-> log[i].commit.leaf_pub.id, h |-> k] :
                         i \in {i \in 1 .. Len(log) : log[i].by = p}, k \in 0 .. Depth}

(* A member whose commits were never lost can process the next commit of   *)
(* the log, whatever mixture of commits, removals, additions, damaged and  *)
(* repeated deliveries led here: treekem_process returns CRYPTO_SUCCESS.   *)
InOrderAccepted ==
    \A p \in People :
        /\ leaf[p] # 0
        /\ epoch[p] < Len(log)
        /\ p \in Roster(epoch[p] + 1)
        /\ p \notin diverged
        => ProcessUpcoming(p, Upcoming(p).commit).ok

(* Whoever has processed commit i holds the root secret of its committer,  *)
(* even when its own tree was left half re-keyed by a lost commit          *)
(* (treekem.h: "derive the new root secret (which equals the               *)
(* committer's)").                                                         *)
RootsAgree ==
    \A p \in People :
        leaf[p] # 0 /\ epoch[p] > 0 /\ root[p] # None /\ p \notin forked
        => root[p] = log[epoch[p]].root

(* Who is not in the group after a commit, because removed before or not   *)
(* yet added, cannot derive its root secret from every secret it ever drew *)
(* and every commit of the log; and nobody holds the private key of a node *)
(* that is not above its own leaf, what blanking a removed leaf rests on.  *)
OutsidersExcluded ==
    /\ \A p \in People, v \in Node : tree[p][v].priv # None => is_ancestor(v, leaf[p])
    /\ \A p \in People :
        LET known == Derivable(Drawn(p))
        IN  \A i \in 1 .. Len(log) : p \notin log[i].roster => log[i].root \notin known

(* Post-compromise security: once a member whose state was read commits,   *)
(* neither that root secret nor a later one follows from what was read.    *)
Heals ==
    LET known == Derivable(leak.keys)
    IN  \A j \in leak.at + 1 .. Len(log) :
            log[j].by = leak.who =>
                \A i \in j .. Len(log) : log[i].root \notin known

============================================================================
