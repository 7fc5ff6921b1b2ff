--------------------------- MODULE MCRepositories ---------------------------
(***************************************************************************)
(* Instances of Repositories for TLC: the productions are interchangeable, *)
(* and so are the calls.                                                   *)
(***************************************************************************)
EXTENDS Repositories, TLC

Symmetry == Permutations(Calls) \cup Permutations(Ids)

=============================================================================
