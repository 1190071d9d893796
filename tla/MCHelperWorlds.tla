----------------------------- MODULE MCHelperWorlds -----------------------------
(* Two helper worlds serve one queue; queues share nothing but the ring.   *)
EXTENDS HelperWorlds

CONSTANTS h1, h2

ServedQueue == (h1 :> 0) @@ (h2 :> 0)
===============================================================================
