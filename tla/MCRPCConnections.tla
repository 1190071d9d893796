--------------------------- MODULE MCRPCConnections ---------------------------
(* The connection table on small instances: two entries and four           *)
(* registrations, so that entries are reused, the ids of the first entry   *)
(* wrap (0, 2, 4, 0) and the third of the last entry would be              *)
(* RPC_CNX_INVALID and is skipped (1, 3, 1); without symmetry, which       *)
(* liveness checks do not allow.                                           *)
EXTENDS RPCConnections

===============================================================================
