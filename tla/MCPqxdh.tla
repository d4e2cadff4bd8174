------------------------------ MODULE MCPqxdh ------------------------------
(* Pqxdh with interchangeable parties.                                     *)
EXTENDS Pqxdh, TLC

PartySymmetry == Permutations(Party)
============================================================================
