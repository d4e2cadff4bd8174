------------------------------ MODULE MCVault ------------------------------
(* Vault with three passphrases: p's anchor is at the start of the         *)
(* container, q's in its middle, and r's overlaps p's.                     *)
EXTENDS Vault, TLC

CONSTANTS p, q, r, short, long, huge

MCAnchor == (p :> (26 :> 0)) @@ (q :> (26 :> 9)) @@ (r :> (26 :> 2))

(* huge fits in no container.                                              *)
MCContentLen == (short :> 1) @@ (long :> 2) @@ (huge :> 30)

(* Placed by the vault, or with the offset and capacity given; the latter  *)
(* is too small for the long content.                                      *)
MCPlacements == {[off |-> -1, cap |-> -1], [off |-> 14, cap |-> 2]}

NameSymmetry == Permutations(Name)
============================================================================
