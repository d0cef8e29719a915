------------------------------ MODULE MCGrants ------------------------------
(* Instances of Grants for TLC.                                            *)
EXTENDS Grants, TLC

Symmetry == Permutations(Nodes) \cup Permutations(Tokens)
=============================================================================
