------------------------------- MODULE Translog -------------------------------
(***************************************************************************)
(* The transparency log of src/src/translog.c: an operator appends leaves, *)
(* signs tree heads and serves proofs; clients verify inclusion and the    *)
(* consistency of two heads, with proofs that reach them through an        *)
(* untrusted relay.  An operator that equivocates keeps several logs       *)
(* (views) under one key.                                                  *)
(***************************************************************************)
EXTENDS Merkle, FiniteSets, Functions

CONSTANTS
    View,       \* the logs the operator keeps; one when it is honest
    Leaf,       \* the bindings appended
    MaxLeaves,  \* bound: leaves of all logs together
    MaxHeads    \* bound: tree heads issued

ASSUME TranslogAssumption == IsFiniteSet(View) /\ MaxLeaves \in Nat /\ MaxHeads \in Nat

VARIABLES
    log,        \* log[v]: the leaf hashes of view v
    heads       \* the tree heads signed so far, as a view and a size

vars == <<log, heads>>

(* What a head commits to: logs only grow, so a prefix of today's log.     *)
Content(h) == SubSeq(log[h.view], 1, h.size)

SthOf(leaves) == [size |-> Len(leaves), root |-> Root(leaves)]

(* A signed head: the STH as presented, and the key and bytes of its       *)
(* signature (translog_sth_sign).                                          *)
Sign(sth, key) == [sth |-> sth, by |-> key, over |-> sth]

SthVerify(s) == s.by = "log" /\ s.over = s.sth

(***************************************************************************)
(* What clients compute.                                                   *)
(***************************************************************************)
ClientVerifyInclusion(sth, index, data, proof) ==
    index < sth.size /\ VerifyInclusion(index, sth.size, HashLeaf(data), proof, sth.root)

ClientVerifyConsistency(a, b, proof) ==
    a.size <= b.size /\ VerifyConsistency(a.size, b.size, a.root, b.root, proof)

(* Mutant: the proof is taken to lead from a to b, whichever is larger.    *)
GossipCheckUnordered(a, b, proof) ==
    IF ~SthVerify(a) \/ ~SthVerify(b) THEN "badsig"
    ELSE IF VerifyConsistency(a.sth.size, b.sth.size, a.sth.root, b.sth.root, proof)
         THEN "consistent" ELSE "fork"

GossipCheck(a, b, proof) ==
    IF ~SthVerify(a) \/ ~SthVerify(b) THEN "badsig"
    ELSE LET lo == IF a.sth.size > b.sth.size THEN b.sth ELSE a.sth
             hi == IF a.sth.size > b.sth.size THEN a.sth ELSE b.sth
         IN  IF lo.size = hi.size
             THEN IF lo.root = hi.root THEN "consistent" ELSE "fork"
             ELSE IF VerifyConsistency(lo.size, hi.size, lo.root, hi.root, proof)
                  THEN "consistent" ELSE "fork"

(***************************************************************************)
(* What the operator serves: proofs about the log as it is now.            *)
(***************************************************************************)
ProvesInclusion(v, index) == index < Len(log[v])
ProveInclusion(v, index) == InclusionProof(log[v], index)
ProvesConsistency(v, old) == old # 0 /\ old <= Len(log[v])
ProveConsistency(v, old) == ConsistencyProof(log[v], old)

(***************************************************************************)
(* The actions.                                                            *)
(***************************************************************************)
Init ==
    /\ log = [v \in View |-> <<>>]
    /\ heads = {}

TotalLeaves == FoldFunction(LAMBDA l, n : n + Len(l), 0, log)

LogAppend(v, data) ==
    /\ TotalLeaves < MaxLeaves
    /\ log' = [log EXCEPT ![v] = Append(@, HashLeaf(data))]
    /\ UNCHANGED heads

(* translog_head and translog_sth_sign. *)
IssueHead(v) ==
    /\ Cardinality(heads) < MaxHeads
    /\ heads' = heads \cup {[view |-> v, size |-> Len(log[v])]}
    /\ UNCHANGED log

Next ==
    \E v \in View : (\E data \in Leaf : LogAppend(v, data)) \/ IssueHead(v)

Spec == Init /\ [][Next]_vars

(***************************************************************************)
(* What may be presented to a client: proofs of any kind, about any view   *)
(* at any size, cut short or extended; heads that are genuine, signed with *)
(* another key, or changed after signing.                                  *)
(***************************************************************************)
Prefixes == UNION {{SubSeq(log[v], 1, n) : n \in 0 .. Len(log[v])} : v \in View}

InclusionProofs ==
    UNION {{InclusionProof(p, i) : i \in 0 .. (Len(p) - 1)} : p \in Prefixes}

ConsistencyProofs ==
    UNION {{ConsistencyProof(p, m) : m \in 1 .. Len(p)} : p \in Prefixes}

Spoiled(proofs) ==
    proofs \cup {<<>>} \cup {Append(p, HashEmpty) : p \in proofs}
           \cup {Tail(p) : p \in proofs \ {<<>>}}

Proofs == Spoiled(InclusionProofs \cup ConsistencyProofs)

SignedHead(h) == Sign(SthOf(Content(h)), "log")

Presented(h) ==
    LET s == SignedHead(h)
    IN  {s, [s EXCEPT !.by = "relay"], [s EXCEPT !.sth.size = @ + 1]}

IsPrefixOf(p, q) == Len(p) <= Len(q) /\ p = SubSeq(q, 1, Len(p))

(***************************************************************************)
(* Properties.                                                             *)
(***************************************************************************)
(* No proof whatever makes translog_gossip_check call two heads consistent *)
(* unless the log key signed both and one log extends the other: a log     *)
(* that shows two clients different histories cannot hide it from them.    *)
(* A client with one head takes only an append-only extension of it for a  *)
(* later one (translog_verify_consistency).                                *)
SplitViewDetected ==
    \A p \in Proofs : \A g, h \in heads :
        /\ \A a \in Presented(g), b \in Presented(h) : GossipCheck(a, b, p) = "consistent" =>
            /\ a = SignedHead(g) /\ b = SignedHead(h)
            /\ IsPrefixOf(Content(g), Content(h)) \/ IsPrefixOf(Content(h), Content(g))
        /\ ClientVerifyConsistency(SthOf(Content(g)), SthOf(Content(h)), p) =>
              IsPrefixOf(Content(g), Content(h))

Current(h) == h.size = Len(log[h.view])

(* An older head and the current one of the same log are consistent under  *)
(* the proof the operator serves now, in whichever order they are given    *)
(* (from the empty log no proof is served and none is needed).             *)
ExtensionsAccepted ==
    \A g, h \in heads : g.view = h.view /\ Current(h) =>
        LET p == IF ProvesConsistency(g.view, g.size) THEN ProveConsistency(g.view, g.size)
                                                      ELSE <<>>
        IN  /\ GossipCheck(SignedHead(g), SignedHead(h), p) = "consistent"
            /\ GossipCheck(SignedHead(h), SignedHead(g), p) = "consistent"
            /\ ClientVerifyConsistency(SthOf(Content(g)), SthOf(Content(h)), p)

(* translog_verify_inclusion accepts a binding exactly where the log has   *)
(* it: no proof places it at another index or in another tree, and the     *)
(* proof the operator serves is accepted under the current head.           *)
InclusionExact ==
    \A h \in heads :
        LET sth == SthOf(Content(h)) IN
        /\ \A p \in Proofs : \A index \in 0 .. MaxLeaves, d \in Leaf :
              ClientVerifyInclusion(sth, index, d, p) =>
                  /\ index < h.size /\ Content(h)[index + 1] = HashLeaf(d)
                  /\ p = InclusionProof(Content(h), index)
        /\ \A index \in 0 .. MaxLeaves, d \in Leaf :
              Current(h) /\ ProvesInclusion(h.view, index) =>
                  (ClientVerifyInclusion(sth, index, d, ProveInclusion(h.view, index))
                      <=> Content(h)[index + 1] = HashLeaf(d))
===============================================================================
