-------------------------- MODULE MCNodeSwitching ---------------------------
(* Small instances of NodeSwitching for TLC.                               *)
EXTENDS NodeSwitching, TLC

Symmetry == Permutations(Nodes)
AllModes == {"manual", "leastping", "stable"}
=============================================================================
