---------------------------- MODULE MCRunEditors ----------------------------
(* Small instances of RunEditors for TLC.                                  *)
EXTENDS RunEditors, TLC

\* Editors, operations and Sessions carry no meaning of their own.
Symmetry == Permutations(Editors) \union Permutations(Operations) \union Permutations(Sessions)
=============================================================================
