------------------------------- MODULE MCTimers -------------------------------
(* One-shot timers of the default group and periodic ones of a group.      *)
EXTENDS Timers

CONSTANT g1

TwoKinds == {<<0, Default>>, <<Period, g1>>}
===============================================================================
