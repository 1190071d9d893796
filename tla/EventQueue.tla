------------------------------ MODULE EventQueue ------------------------------
(***************************************************************************)
(* What a sleeping world sees of the event queues of main/event.c and of   *)
(* the wait and wakeup entry points of sched/cpusched.c.                   *)
(*                                                                         *)
(* A wait queue is a function from worlds to the event each one sleeps on, *)
(* NoEvent for a world that is in no queue.  CpuSchedWait inserts the      *)
(* caller before it releases the caller's lock, so "insert and unlock" is  *)
(* one step for every other world; CpuSched_Wakeup removes every world     *)
(* whose waitEvent matches; CpuSched_ForceWakeup removes one world         *)
(* whatever it waits for (a kill, an action or a stray timer), which is    *)
(* why every caller of CpuSched_Wait has to re-test its condition.         *)
(***************************************************************************)

CONSTANT NoEvent  \* the waitEvent of a world that is on no event queue

IsWaiting(waitEvent, w) == waitEvent[w] # NoEvent

(* EventQueue_Insert as CpuSchedWait calls it for the running world.       *)
WaitOn(waitEvent, w, e) == [waitEvent EXCEPT ![w] = e]

(* CpuSched_Wakeup: every world waiting on e leaves its queue.             *)
Wakeup(waitEvent, e) ==
  [w \in DOMAIN waitEvent |-> IF waitEvent[w] = e THEN NoEvent ELSE waitEvent[w]]

(* CpuSched_ForceWakeup: world w leaves whatever queue it is on.           *)
ForceWakeup(waitEvent, w) == [waitEvent EXCEPT ![w] = NoEvent]

===============================================================================
