------------------------- MODULE MCObservatoryTasks -------------------------
(* Small instances of ObservatoryTasks for TLC.                            *)
EXTENDS ObservatoryTasks, TLC

Symmetry == Permutations(Callers) \union Permutations(Tasks)
=============================================================================
