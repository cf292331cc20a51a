---------------------------- MODULE MCConnStore ----------------------------
(* ConnStore for TLC: the symmetry sets of its runs.                       *)
EXTENDS ConnStore, TLC

IdSymmetry == Permutations(Ids)
CallSymmetry == Permutations(Ids) \cup Permutations(Calls)
=============================================================================
