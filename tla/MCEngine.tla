------------------------------ MODULE MCEngine ------------------------------
(* Small instances of Engine for TLC.                                      *)
EXTENDS Engine, TLC

Symmetry == Permutations(Clients) \union Permutations(Handlers)
              \union Permutations(Holders) \union Permutations(Procs)
=============================================================================
