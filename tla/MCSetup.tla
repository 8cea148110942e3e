------------------------------ MODULE MCSetup ------------------------------
(* Setup on small instances; the bounds are explained in README.md. *)
EXTENDS Setup, TLC

Symmetric == Permutations(Commands) \cup Permutations(Repos)
=============================================================================
