----------------------------- MODULE MCCpuSchedWait -----------------------------
(* Sleeping and waking on small instances: two sibling vcpus and a thread  *)
(* of the vmkernel, one event, and no event hashed to another bucket.      *)
EXTENDS CpuSchedWait, TLC

CONSTANTS e1, q1, q2

Buckets    == e1 :> q1 @@ NoEvent :> q2
WaitMasks  == {{}, {"vmk", "mon"}}
VcpuSymmetry == Permutations(Vcpus)
HaltMasks  == {{"vmk", "mon"}}

===============================================================================
