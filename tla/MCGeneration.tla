----------------------------- MODULE MCGeneration -----------------------------
(* Small instances of Generation for TLC.                                  *)
EXTENDS Generation, TLC

\* Brokers, mutations and issues are told apart by identity only.
Symmetry == Permutations(Brokers) \union Permutations(Mutations) \union Permutations(Issues)
=============================================================================
