---------------------------- MODULE MCTLBShootdown ----------------------------
(* Three processors, two worlds and one page: two invalidations compete,   *)
(* and each has two targets.                                               *)
EXTENDS TLBShootdown

===============================================================================
