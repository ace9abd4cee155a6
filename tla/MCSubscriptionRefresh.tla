----------------------- MODULE MCSubscriptionRefresh ------------------------
(* Small instances of SubscriptionRefresh for TLC.                         *)
EXTENDS SubscriptionRefresh, TLC

Symmetry == Permutations(Links) \union Permutations(Endpoints)
=============================================================================
