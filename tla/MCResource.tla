----------------------------- MODULE MCResource -----------------------------
(* Three resources, four keys of which one is the key of an unused entry,   *)
(* and three clients: the pool runs full and its slots change hands.        *)
EXTENDS Resource

CONSTANTS d1, d2, d3

Objects == {d1, d2, d3}
InOrder == (1 :> d1) @@ (2 :> d2) @@ (3 :> d3)
=============================================================================
