-------------------------------- MODULE Merkle --------------------------------
(***************************************************************************)
(* The RFC 6962 Merkle tree of src/src/merkle.c.  Hashes are symbolic: a   *)
(* leaf hash and a node hash never collide (their prefixes differ), and    *)
(* equal hashes have equal inputs.  Leaves are numbered from 0 as in the   *)
(* code: leaf i of a sequence is leaves[i + 1].                            *)
(***************************************************************************)
EXTENDS Integers, Sequences

HashEmpty == <<"empty">>
HashLeaf(data) == <<"leaf", data>>
HashChildren(l, r) == <<"node", l, r>>

(* The largest power of two less than n. *)
Split(n) == CHOOSE k \in {2 ^ e : e \in 0 .. n} : k < n /\ 2 * k >= n

RECURSIVE Mth(_, _, _)
Mth(leaves, lo, hi) ==
    IF hi = lo THEN HashEmpty
    ELSE IF hi - lo = 1 THEN leaves[lo + 1]
    ELSE LET k == Split(hi - lo)
         IN  HashChildren(Mth(leaves, lo, lo + k), Mth(leaves, lo + k, hi))

Root(leaves) == Mth(leaves, 0, Len(leaves))

(***************************************************************************)
(* Inclusion: the audit path, deepest sibling first, and the root it is    *)
(* verified against.                                                       *)
(***************************************************************************)
RECURSIVE Path(_, _, _, _)
Path(leaves, lo, hi, m) ==
    IF hi - lo <= 1 THEN <<>>
    ELSE LET k == Split(hi - lo)
         IN  IF m < lo + k
             THEN Append(Path(leaves, lo, lo + k, m), Mth(leaves, lo + k, hi))
             ELSE Append(Path(leaves, lo + k, hi, m), Mth(leaves, lo, lo + k))

InclusionProof(leaves, m) == Path(leaves, 0, Len(leaves), m)

(* Rebuild: the hash computed for [lo, hi), and how much of the proof was  *)
(* used; used exceeds the proof's length when the proof is too short.      *)
RECURSIVE Rebuild(_, _, _, _, _)
Rebuild(lo, hi, m, leaf, proof) ==
    IF hi - lo = 1 THEN [used |-> 0, hash |-> leaf]
    ELSE LET k     == Split(hi - lo)
             left  == m < lo + k
             sub   == IF left THEN Rebuild(lo, lo + k, m, leaf, proof)
                              ELSE Rebuild(lo + k, hi, m, leaf, proof)
             used  == sub.used + 1
         IN  IF used > Len(proof) THEN [used |-> Len(proof) + 1, hash |-> HashEmpty]
             ELSE [used |-> used,
                   hash |-> IF left THEN HashChildren(sub.hash, proof[used])
                                    ELSE HashChildren(proof[used], sub.hash)]

(* Mutant: what is left of the proof is ignored. *)
VerifyInclusionPrefix(m, n, leaf, proof, root) ==
    /\ m < n
    /\ LET r == Rebuild(0, n, m, leaf, proof) IN r.used <= Len(proof) /\ r.hash = root

VerifyInclusion(m, n, leaf, proof, root) ==
    /\ m < n
    /\ LET r == Rebuild(0, n, m, leaf, proof) IN r.used = Len(proof) /\ r.hash = root

(***************************************************************************)
(* Consistency: SUBPROOF of RFC 6962, and the iterative verifier.          *)
(***************************************************************************)
RECURSIVE Subproof(_, _, _, _, _)
Subproof(leaves, lo, hi, m, b) ==
    IF m = hi - lo THEN IF b THEN <<>> ELSE <<Mth(leaves, lo, hi)>>
    ELSE LET k == Split(hi - lo)
         IN  IF m <= k
             THEN Append(Subproof(leaves, lo, lo + k, m, b), Mth(leaves, lo + k, hi))
             ELSE Append(Subproof(leaves, lo + k, hi, m - k, FALSE), Mth(leaves, lo, lo + k))

ConsistencyProof(leaves, m) ==
    IF m = Len(leaves) THEN <<>> ELSE Subproof(leaves, 0, Len(leaves), m, TRUE)

IsPow2(x) == x \in {2 ^ e : e \in 0 .. x}

(* The verifier's loop state: the positions fn and sn of the two trees'    *)
(* last leaves at this level, and the two roots built so far.              *)
Up(st) == [st EXCEPT !.fn = @ \div 2, !.sn = @ \div 2]

RECURSIVE SkipOdd(_)
SkipOdd(st) == IF st.fn % 2 = 1 THEN SkipOdd(Up(st)) ELSE st

RECURSIVE SkipEven(_)
SkipEven(st) == IF st.fn # 0 /\ st.fn % 2 = 0 THEN SkipEven(Up(st)) ELSE st

Fold(st, c) ==
    IF st.fn % 2 = 1 \/ st.fn = st.sn
    THEN Up(SkipEven([st EXCEPT !.fr = HashChildren(c, @), !.sr = HashChildren(c, @)]))
    ELSE Up([st EXCEPT !.sr = HashChildren(@, c)])

(* One element of the proof at a time; an element left over when the       *)
(* second tree is complete makes the proof invalid.                        *)
RECURSIVE FoldAll(_, _)
FoldAll(st, proof) ==
    IF proof = <<>> THEN [st EXCEPT !.ok = st.sn = 0]
    ELSE IF st.sn = 0 THEN st
    ELSE FoldAll(Fold(st, Head(proof)), Tail(proof))

(* Mutant: only the new root is compared with the recomputed one. *)
VerifyConsistencyNewOnly(m, n, first, second, proof) ==
    IF m > n THEN FALSE
    ELSE IF m = n THEN proof = <<>> /\ first = second
    ELSE IF m = 0 THEN proof = <<>>
    ELSE IF ~IsPow2(m) /\ proof = <<>> THEN FALSE
    ELSE LET seed == IF IsPow2(m) THEN first ELSE Head(proof)
             rest == IF IsPow2(m) THEN proof ELSE Tail(proof)
             st0  == SkipOdd([fn |-> m - 1, sn |-> n - 1, fr |-> seed, sr |-> seed, ok |-> FALSE])
             st   == FoldAll(st0, rest)
         IN  st.ok /\ st.sr = second

VerifyConsistency(m, n, first, second, proof) ==
    IF m > n THEN FALSE
    ELSE IF m = n THEN proof = <<>> /\ first = second
    ELSE IF m = 0 THEN proof = <<>>
    ELSE IF ~IsPow2(m) /\ proof = <<>> THEN FALSE
    ELSE LET seed == IF IsPow2(m) THEN first ELSE Head(proof)
             rest == IF IsPow2(m) THEN proof ELSE Tail(proof)
             st0  == SkipOdd([fn |-> m - 1, sn |-> n - 1, fr |-> seed, sr |-> seed, ok |-> FALSE])
             st   == FoldAll(st0, rest)
         IN  st.ok /\ st.fr = first /\ st.sr = second
===============================================================================
