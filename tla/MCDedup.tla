------------------------------ MODULE MCDedup ------------------------------
(* The duplicate filter with more nodes than entries and more sequence      *)
(* numbers than a ring holds; both are only compared, hence the symmetry.   *)
EXTENDS Dedup, TLC

Symmetry == Permutations(Nodes) \union Permutations(Seqs)
=============================================================================
