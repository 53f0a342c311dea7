------------------------------- MODULE MCList -------------------------------
(* Two lists over four nodes: a node can be alone, first, last or between  *)
(* two others, and the other list can hold its neighbours.                 *)
EXTENDS List

Symmetry == Permutations(Lists) \union Permutations(Nodes)
=============================================================================
