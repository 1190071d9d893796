--------------------------- MODULE MCRWSemaphore ---------------------------
(* Five worlds on one semaphore; without symmetry, which liveness checks   *)
(* do not allow.                                                           *)
EXTENDS RWSemaphore, TLC

=============================================================================
