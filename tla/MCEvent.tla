------------------------------ MODULE MCEvent ------------------------------
(* Two events and three callbacks, of which one gets and loses its function *)
(* while the program runs; a trigger within a trigger, and up to two calls  *)
(* by a callback each time it runs.                                         *)
EXTENDS Event
=============================================================================
