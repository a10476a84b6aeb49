------------------------------ MODULE MCObserve -------------------------------
(* The bounds of the runs over the waits are given in their configurations. *)
EXTENDS ObserveProperties
==============================================================================
