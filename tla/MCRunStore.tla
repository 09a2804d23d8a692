------------------------------ MODULE MCRunStore ------------------------------
(* Small instances of RunStore for TLC.                                    *)
EXTENDS RunStore, TLC

\* Mutation, issue and operation ids carry no meaning of their own where every
\* claim can be released.
Symmetry == Permutations(Mutations) \union Permutations(Operations) \union Permutations(Issues)
=============================================================================
