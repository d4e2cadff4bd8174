----------------------------- MODULE MCTranslog -----------------------------
(* Translog with interchangeable views and interchangeable bindings.       *)
EXTENDS Translog, TLC

LogSymmetry == Permutations(View) \cup Permutations(Leaf)
=============================================================================
