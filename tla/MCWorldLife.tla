----------------------------- MODULE MCWorldLife -----------------------------
(* Instances of WorldLife for TLC.                                         *)
EXTENDS WorldLife, TLC

CONSTANTS s1, s2, t1, t2, h1, h2

Symmetries == Permutations(Slots) \cup Permutations(Threads) \cup Permutations(Helpers)
===============================================================================
