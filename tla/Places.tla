-------------------------------- MODULE Places --------------------------------
(***************************************************************************)
(* Parts of a list: the elements at some of its places, in their order.    *)
(***************************************************************************)
EXTENDS Naturals, Sequences, FiniteSets

(* The place that k - 1 others come before.                                *)
Nth(places, k) == CHOOSE i \in places : Cardinality({m \in places : m < i}) = k - 1

Pick(list, places) == [k \in 1 .. Cardinality(places) |-> list[Nth(places, k)]]
=============================================================================
