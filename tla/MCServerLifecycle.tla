------------------------- MODULE MCServerLifecycle -------------------------
(* ServerLifecycle with a few requests of the kinds the routes give rise to. *)
EXTENDS ServerLifecycle, TLC

Health == [queries |-> 0, timed |-> FALSE, panics |-> FALSE]
OneLayer == [queries |-> 1, timed |-> TRUE, panics |-> FALSE]
TwoLayers == [queries |-> 2, timed |-> TRUE, panics |-> FALSE]
List == [queries |-> 2, timed |-> FALSE, panics |-> FALSE]
ListWithOutParameter == [queries |-> 2, timed |-> FALSE, panics |-> TRUE]

AllKinds == {Health, OneLayer, ListWithOutParameter}
TilesAndLists == {OneLayer, List}
(* For the disagreements the README lists without a run.                   *)
MultiTiles == {TwoLayers}
BadLists == {ListWithOutParameter}

Symmetry == Permutations(Requests)
=============================================================================
