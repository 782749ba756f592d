----------------------------- MODULE MCCategories -----------------------------
(* Instances of Categories for TLC. *)
EXTENDS Categories, TLC

Symmetry == Permutations(Requests) \union Permutations(Ids) \union Permutations(Names)
    \union Permutations(Types)
=============================================================================
