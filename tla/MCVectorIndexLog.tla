-------------------------- MODULE MCVectorIndexLog --------------------------
(* Instances of VectorIndexLog for TLC.                                      *)
EXTENDS VectorIndexLog, TLC

\* Neither entries nor handles are told apart.
Symmetry == Permutations(Items) \cup Permutations(Writers)
=============================================================================
