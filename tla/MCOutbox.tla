-------------------------------- MODULE MCOutbox --------------------------------
(* Outbox on small instances: two concurrent drains, a cap and an attempt budget *)
(* small enough to be reached.                                                   *)
EXTENDS Outbox, TLC

CONSTANTS d1, d2

Symmetry == Permutations(Drains)
=============================================================================
