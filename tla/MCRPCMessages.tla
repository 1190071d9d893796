----------------------------- MODULE MCRPCMessages -----------------------------
(* One connection with few buffers, so that senders and repliers run out   *)
(* of them, and a few worlds in any role; without symmetry, which liveness *)
(* checks do not allow.                                                    *)
EXTENDS RPCMessages

===============================================================================
