--------------------------- MODULE MCAttentionOutbox ---------------------------
(* Small instances of AttentionOutbox for TLC.                             *)
EXTENDS AttentionOutbox, TLC

\* Identities of mutations and conditions carry no meaning of their own.
Symmetry == Permutations(Mutations) \union Permutations(Conditions)
=============================================================================
