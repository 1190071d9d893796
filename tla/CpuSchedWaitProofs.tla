-------------------------- MODULE CpuSchedWaitProofs --------------------------
(***************************************************************************)
(* That no event, no action of the vmkernel and no action of the monitor   *)
(* is lost by a vcpu that goes to sleep or busy-waits, and that sleepers,  *)
(* wakers and busy-waiters do not deadlock, for any number of vcpus,       *)
(* threads, events and buckets.                                            *)
(***************************************************************************)
EXTENDS CpuSchedWait, TLAPS

(* On the way to a wait, with the caller's lock.                           *)
Before == {"waitQueue", "waitCell", "arm", "mask", "insert"}

(* Where a vcpu holds the cell lock across actions.                        *)
InCell == {"arm", "mask", "insert", "dispatch", "handback"}

(* In a wait.                                                              *)
Off == {"dispatch", "asleep", "busy", "busyQueue", "busyWake", "busyCell", "handback"}

ToVcpu == {"setVector", "setStatus", "readHint", "check", "force", "forceEvent", "forceQueue", "forceAct"}

(* What the target and the memory of a thread are, by where it stands.     *)
Fits(t, at, x, m) ==
  /\ at \in ToVcpu => x \in Vcpus
  /\ at \in Before \cup {"wakeQueue", "wakeLoop"} => x \in Events
  /\ at = "busyWake" => x \in Queues
  /\ at \in {"forceEvent", "forceQueue", "forceAct"} =>
       m \in [state : RunStates, event : Events \cup {NoEvent}]
  /\ at \in Before => m \in SUBSET Statuses
  /\ at \in Before \cup Off \cup {"serve"} => t \in Vcpus

Targets ==
  /\ tgt = [t \in Threads |-> tgt[t]] /\ mem = [t \in Threads |-> mem[t]]
  /\ \A t \in Threads : Fits(t, pc[t], tgt[t], mem[t])

SharedOK ==
  /\ vcpu \in [Vcpus -> [runState : RunStates, waitEvent : Events \cup {NoEvent},
                         mask : SUBSET Statuses]]
  /\ hint \in [Vcpus -> BOOLEAN]
  /\ status \in [Vcpus -> SUBSET Statuses]
  /\ vector \in [Vcpus -> BOOLEAN]
  /\ queue \in [Queues -> SUBSET Vcpus]
  /\ qlock \in [Queues -> Threads \cup {Nobody}]
  /\ cell \in Vcpus \cup {Nobody}
  /\ mutex \in Vcpus \cup {Nobody}
  /\ ready \in [Events -> BOOLEAN]

Types == TypeOK /\ Targets

(* Who holds which lock follows from where the threads stand.              *)
CellOwned == \A v \in Vcpus : cell = v <=> pc[v] \in InCell

MutexOwned == \A v \in Vcpus : pc[v] \in Before => mutex = v

QueuesOwned ==
  \A q \in Queues : \A t \in Threads : qlock[q] = t =>
    \/ pc[t] \in {"wakeLoop", "waitCell", "arm", "mask", "insert"} /\ q = QueueOf[tgt[t]]
    \/ pc[t] = "busyWake" /\ q = tgt[t]
    \/ pc[t] = "forceAct"

(* The run state of a vcpu, its event and its mask, by where it stands.    *)
StateOK(v) ==
  /\ pc[v] \notin Off => vcpu[v].runState = "RUN" /\ vcpu[v].waitEvent = NoEvent
  /\ pc[v] = "dispatch" => vcpu[v].runState = "WAIT" /\ vcpu[v].waitEvent # NoEvent
  /\ pc[v] = "asleep" => \/ vcpu[v].runState = "WAIT" /\ vcpu[v].waitEvent # NoEvent
                         \/ vcpu[v].runState = "READY" /\ vcpu[v].waitEvent = NoEvent
  /\ pc[v] \in {"busy", "busyQueue", "busyWake", "busyCell", "handback"} =>
       vcpu[v].runState = "BUSY_WAIT"

StatesOK == \A v \in Vcpus : StateOK(v)

(* What a vcpu is about to wait for has not come.                          *)
NotYet == \A v \in Vcpus : pc[v] \in Before => ~ready[tgt[v]]

EventsSignalled ==
  \A v \in Vcpus : \A e \in Events :
    vcpu[v].waitEvent = e /\ ready[e]
    => \E t \in Threads : tgt[t] = e /\ pc[t] \in {"wakeQueue", "wakeLoop"}

WaitInv ==
  /\ Types /\ CellOwned /\ MutexOwned /\ QueuesOwned
  /\ StatesOK /\ QueuesExact /\ NotYet /\ EventsSignalled /\ VectorSeen

(* A vcpu that waits off the processor, or is about to.                    *)
Settled(v) == pc[v] \in {"insert", "dispatch"} \/ Asleep(v)

Comes(t, v) == tgt[t] = v /\ pc[t] \in {"check", "force", "forceEvent", "forceQueue", "forceAct"}

(* The hint is on from before the mask is set until the vcpu is woken or   *)
(* busy-waits.                                                             *)
HintOK(v) ==
  /\ pc[v] = "mask" /\ mem[v] # {} => hint[v]
  /\ pc[v] = "insert" => vcpu[v].mask = mem[v]
  /\ Settled(v) /\ vcpu[v].mask # {} => hint[v]

Hinted == \A v \in Vcpus : HintOK(v)

(* Somebody comes for a vcpu with an action pending; when it is handed     *)
(* back from a busy-wait, somebody who does not look at the hint any more. *)
Due(v) ==
  /\ Settled(v) /\ PendingInMask(v, vcpu[v].mask) => \E t \in Threads : Rescues(t, v)
  /\ pc[v] \in {"busyCell", "handback"} /\ vcpu[v].waitEvent # NoEvent
       /\ PendingInMask(v, vcpu[v].mask) => \E t \in Threads : Comes(t, v)
  /\ pc[v] = "busyWake" /\ vcpu[v].waitEvent # NoEvent => tgt[v] = QueueOf[vcpu[v].waitEvent]

ActionsDue == \A v \in Vcpus : Due(v)

ActionInv == WaitInv /\ Hinted /\ ActionsDue

(* Constants of the model, spelled out.                                    *)
LEMMA ConstantFacts ==
  /\ Vcpus \subseteq Threads /\ Callers \subseteq Threads /\ Nobody \notin Threads /\ NoEvent \notin Events
  /\ \A e \in Events \cup {NoEvent} : QueueOf[e] \in Queues
  /\ \A m \in Masks : m \in SUBSET Statuses
  BY WaitAssumption DEF Threads, Statuses

(* A thread goes on, and the others stay where they are.                   *)
LEMMA AtFacts ==
  ASSUME Types, NEW t \in Threads, NEW to \in PCs, NEW x, NEW m, At(t, to, x, m)
  PROVE  /\ pc' \in [Threads -> PCs]
         /\ tgt' = [u \in Threads |-> tgt'[u]] /\ mem' = [u \in Threads |-> mem'[u]]
         /\ pc'[t] = to /\ tgt'[t] = x /\ mem'[t] = m
         /\ \A u \in Threads \ {t} : pc'[u] = pc[u] /\ tgt'[u] = tgt[u] /\ mem'[u] = mem[u]
  BY DEF At, Types, TypeOK, Targets

(* The thread that makes a step goes where its target and memory fit.      *)
Moves(t) ==
  \/ UNCHANGED <<pc, tgt, mem>>
  \/ \E to \in PCs : \E x, m : At(t, to, x, m) /\ Fits(t, to, x, m)

(* A thread that goes where its target and memory fit keeps the types, if  *)
(* the shared state does.                                                  *)
LEMMA MoveTypes ==
  ASSUME Types, SharedOK', NEW t \in Threads, Moves(t)
  PROVE  Types'
<1>1. CASE UNCHANGED <<pc, tgt, mem>>
  BY <1>1 DEF Types, TypeOK, Targets, SharedOK
<1>2. ASSUME NEW to \in PCs, NEW x, NEW m, At(t, to, x, m), Fits(t, to, x, m) PROVE Types'
  <2>1. /\ pc' \in [Threads -> PCs]
        /\ tgt' = [u \in Threads |-> tgt'[u]] /\ mem' = [u \in Threads |-> mem'[u]]
        /\ pc'[t] = to /\ tgt'[t] = x /\ mem'[t] = m
        /\ \A u \in Threads \ {t} : pc'[u] = pc[u] /\ tgt'[u] = tgt[u] /\ mem'[u] = mem[u]
    BY <1>2, AtFacts
  <2>2. \A u \in Threads : Fits(u, pc'[u], tgt'[u], mem'[u])
    BY <1>2, <2>1 DEF Types, Targets
  <2> QED
    BY <2>1, <2>2 DEF Types, TypeOK, Targets, SharedOK
<1> QED
  BY <1>1, <1>2 DEF Moves

(* At, with a fitting target and memory, is such a move, ...               *)
LEMMA AtMoves ==
  ASSUME NEW t \in Threads, NEW to \in PCs, NEW x, NEW m, At(t, to, x, m), Fits(t, to, x, m)
  PROVE  Moves(t)
  BY DEF Moves

(* ... so is Goto, which keeps both, ...                                   *)
LEMMA GotoMoves ==
  ASSUME NEW t \in Threads, NEW to \in PCs, Goto(t, to), Fits(t, to, tgt[t], mem[t])
  PROVE  Moves(t)
  BY DEF Goto, Moves

(* ... and so is Done, which fits everywhere.                              *)
LEMMA DoneMoves ==
  ASSUME NEW t \in Threads, Done(t)
  PROVE  Moves(t)
  BY DEF Done, Moves, Fits, ToVcpu, Before, Off, PCs

(* Wakeups leave the record of a vcpu as it may be.                        *)
LEMMA WakeupTypes ==
  ASSUME SharedOK, NEW v \in Vcpus, CpuSchedVcpuWakeup(v)
  PROVE  /\ vcpu' \in [Vcpus -> [runState : RunStates, waitEvent : Events \cup {NoEvent}, mask : SUBSET Statuses]]
         /\ hint' \in [Vcpus -> BOOLEAN]
<1>1. PICK r : r = IF vcpu[v].runState = "BUSY_WAIT" THEN "BUSY_WAIT" ELSE "READY"
  OBVIOUS
<1>2. r \in RunStates
  BY <1>1 DEF RunStates
<1>3. vcpu' = [vcpu EXCEPT ![v] = [runState |-> r, waitEvent |-> NoEvent, mask |-> {}]]
  BY <1>1 DEF CpuSchedVcpuWakeup
<1> QED
  BY <1>2, <1>3 DEF CpuSchedVcpuWakeup, SharedOK

(* What a step leaves in the shared variables and where it leads.          *)
LEMMA TypesStep ==
  ASSUME Types, Next
  PROVE  Types'
<1> USE ConstantFacts
<1>0. SharedOK /\ (\A t \in Threads : pc[t] \in PCs /\ Fits(t, pc[t], tgt[t], mem[t]))
  BY DEF Types, TypeOK, SharedOK, Targets
<1>1. ASSUME NEW t \in Threads, Action_Set(t) PROVE Types'
  <2>1. SharedOK'
    <3>1. tgt[t] \in Vcpus
      BY <1>0, <1>1 DEF Action_Set, Fits, ToVcpu
    <3>2. CASE /\ vector' = [vector EXCEPT ![tgt[t]] = TRUE]
               /\ UNCHANGED <<vcpu, hint, status, queue, qlock, cell, mutex, ready>>
      BY <1>0, <3>2 DEF SharedOK
    <3>3. CASE /\ status' = [status EXCEPT ![tgt[t]] = @ \cup {"vmk"}]
               /\ UNCHANGED <<vcpu, hint, vector, queue, qlock, cell, mutex, ready>>
      BY <1>0, <3>1, <3>3 DEF SharedOK, Statuses
    <3> QED
      BY <1>1, <3>2, <3>3 DEF Action_Set
  <2>2. Moves(t)
    BY <1>0, <1>1, AtMoves, GotoMoves, DoneMoves DEF Action_Set, Fits, ToVcpu, Before, Off, PCs
  <2> QED
    BY <2>1, <2>2, MoveTypes
<1>2. ASSUME NEW t \in Threads, MonitorNotify(t) PROVE Types'
  <2>1. SharedOK'
    BY <1>0, <1>2 DEF MonitorNotify, shared, SharedOK
  <2>2. Moves(t)
    BY <1>0, <1>2, AtMoves, GotoMoves, DoneMoves DEF MonitorNotify, Fits, ToVcpu, Before, Off, PCs
  <2> QED
    BY <2>1, <2>2, MoveTypes
<1>3. ASSUME NEW t \in Threads, CpuSched_AsyncCheckActions(t) PROVE Types'
  <2>1. SharedOK'
    BY <1>0, <1>3 DEF CpuSched_AsyncCheckActions, shared, SharedOK
  <2>2. Moves(t)
    BY <1>0, <1>3, AtMoves, GotoMoves, DoneMoves DEF CpuSched_AsyncCheckActions, Fits, ToVcpu, Before, Off, PCs
  <2> QED
    BY <2>1, <2>2, MoveTypes
<1>4. ASSUME NEW t \in Threads, EventLockSnapshot(t) PROVE Types'
  <2>1. SharedOK'
    BY <1>0, <1>4 DEF EventLockSnapshot, shared, SharedOK
  <2>2. Moves(t)
    <3>1. tgt[t] \in Vcpus /\ vcpu[tgt[t]].runState \in RunStates /\ vcpu[tgt[t]].waitEvent \in Events \cup {NoEvent}
      BY <1>0, <1>4 DEF EventLockSnapshot, Fits, ToVcpu, SharedOK
    <3>2. CASE At(t, "forceEvent", tgt[t], [state |-> vcpu[tgt[t]].runState, event |-> NoEvent])
      BY <3>1, <3>2, AtMoves DEF Fits, ToVcpu, Before, Off, PCs
    <3>3. CASE pc[t] = "forceEvent" /\ At(t, "forceQueue", tgt[t], [mem[t] EXCEPT !.event = vcpu[tgt[t]].waitEvent])
      <4>1. PICK m : m = [mem[t] EXCEPT !.event = vcpu[tgt[t]].waitEvent]
        OBVIOUS
      <4>2. m \in [state : RunStates, event : Events \cup {NoEvent}]
        BY <1>0, <3>1, <3>3, <4>1 DEF Fits
      <4> QED
        BY <3>1, <3>3, <4>1, <4>2, AtMoves DEF Fits, ToVcpu, Before, Off, PCs
    <3> QED
      BY <1>4, <3>2, <3>3 DEF EventLockSnapshot
  <2> QED
    BY <2>1, <2>2, MoveTypes
<1>5. ASSUME NEW t \in Threads, EventLockQueue(t) PROVE Types'
  <2>1. SharedOK'
    BY <1>0, <1>5 DEF EventLockQueue, SharedOK, RunStates, Statuses
  <2>2. Moves(t)
    BY <1>0, <1>5, AtMoves, GotoMoves, DoneMoves DEF EventLockQueue, Fits, ToVcpu, Before, Off, PCs
  <2> QED
    BY <2>1, <2>2, MoveTypes
<1>6. ASSUME NEW t \in Threads, ForceWakeupOrRetry(t) PROVE Types'
  <2>1. SharedOK'
    <3>1. tgt[t] \in Vcpus
      BY <1>0, <1>6 DEF ForceWakeupOrRetry, Fits, ToVcpu
    <3>2. queue' \in [Queues -> SUBSET Vcpus] /\ qlock' \in [Queues -> Threads \cup {Nobody}]
      BY <1>0, <1>6 DEF ForceWakeupOrRetry, SharedOK
    <3>3. CASE CpuSchedVcpuWakeup(tgt[t])
      BY <1>0, <1>6, <3>1, <3>2, <3>3, WakeupTypes DEF ForceWakeupOrRetry, SharedOK
    <3>4. CASE UNCHANGED <<queue, vcpu, hint>>
      BY <1>0, <1>6, <3>2, <3>4 DEF ForceWakeupOrRetry, SharedOK
    <3> QED
      BY <1>6, <3>3, <3>4 DEF ForceWakeupOrRetry
  <2>2. Moves(t)
    BY <1>0, <1>6, AtMoves, GotoMoves, DoneMoves DEF ForceWakeupOrRetry, Fits, ToVcpu, Before, Off, PCs
  <2> QED
    BY <2>1, <2>2, MoveTypes
<1>7. ASSUME NEW t \in Threads, WakeupLockQueue(t) PROVE Types'
  <2>1. SharedOK'
    BY <1>0, <1>7 DEF WakeupLockQueue, SharedOK, RunStates, Statuses
  <2>2. Moves(t)
    BY <1>0, <1>7, AtMoves, GotoMoves, DoneMoves DEF WakeupLockQueue, Fits, ToVcpu, Before, Off, PCs
  <2> QED
    BY <2>1, <2>2, MoveTypes
<1>8. ASSUME NEW t \in Threads, WakeupDone(t) PROVE Types'
  <2>1. SharedOK'
    BY <1>0, <1>8 DEF WakeupDone, SharedOK, RunStates, Statuses
  <2>2. Moves(t)
    BY <1>0, <1>8, AtMoves, GotoMoves, DoneMoves DEF WakeupDone, Fits, ToVcpu, Before, Off, PCs
  <2> QED
    BY <2>1, <2>2, MoveTypes
<1>9. ASSUME NEW t \in Threads, NEW v \in Vcpus, WakeupOne(t, v) PROVE Types'
  <2>1. SharedOK'
    <3>1. queue' \in [Queues -> SUBSET Vcpus]
      BY <1>0, <1>9 DEF WakeupOne, SharedOK
    <3> QED
      BY <1>0, <1>9, <3>1, WakeupTypes DEF WakeupOne, SharedOK
  <2>2. Moves(t)
    BY <1>9 DEF WakeupOne, Moves
  <2> QED
    BY <2>1, <2>2, MoveTypes
<1>10. ASSUME NEW t \in Threads, NEW v \in Vcpus, Action_Post(t, v) PROVE Types'
  <2>1. SharedOK'
    BY <1>0, <1>10 DEF Action_Post, shared, SharedOK
  <2>2. Moves(t)
    BY <1>0, <1>10, AtMoves, GotoMoves, DoneMoves DEF Action_Post, Fits, ToVcpu, Before, Off, PCs
  <2> QED
    BY <2>1, <2>2, MoveTypes
<1>11. ASSUME NEW t \in Threads, NEW v \in Vcpus, CpuSched_ForceWakeup(t, v) PROVE Types'
  <2>1. SharedOK'
    BY <1>0, <1>11 DEF CpuSched_ForceWakeup, shared, SharedOK
  <2>2. Moves(t)
    BY <1>0, <1>11, AtMoves, GotoMoves, DoneMoves DEF CpuSched_ForceWakeup, Fits, ToVcpu, Before, Off, PCs
  <2> QED
    BY <2>1, <2>2, MoveTypes
<1>12. ASSUME NEW t \in Threads, NEW e \in Events, NEW come \in BOOLEAN, CpuSched_Wakeup(t, e, come) PROVE Types'
  <2>1. SharedOK'
    BY <1>0, <1>12 DEF CpuSched_Wakeup, SharedOK, RunStates, Statuses
  <2>2. Moves(t)
    BY <1>0, <1>12, AtMoves, GotoMoves, DoneMoves DEF CpuSched_Wakeup, Fits, ToVcpu, Before, Off, PCs
  <2> QED
    BY <2>1, <2>2, MoveTypes
<1>13. ASSUME NEW t \in Vcpus, NEW v \in Vcpus, MonitorPost(t, v) PROVE Types'
  <2>1. SharedOK'
    BY <1>0, <1>13 DEF MonitorPost, SharedOK, RunStates, Statuses
  <2>2. Moves(t)
    BY <1>0, <1>13, AtMoves, GotoMoves, DoneMoves DEF MonitorPost, Fits, ToVcpu, Before, Off, PCs
  <2> QED
    BY <2>1, <2>2, MoveTypes
<1>14. ASSUME NEW t \in Vcpus, MonitorServe(t) PROVE Types'
  <2>1. SharedOK'
    BY ZenonT(30), <1>0, <1>14 DEF MonitorServe, SharedOK, RunStates, Statuses
  <2>2. Moves(t)
    BY <1>0, <1>14, AtMoves, GotoMoves, DoneMoves DEF MonitorServe, Fits, ToVcpu, Before, Off, PCs
  <2> QED
    BY <2>1, <2>2, MoveTypes
<1>15. ASSUME NEW t \in Vcpus, NEW e \in Events, NEW m \in Masks, CpuSched_Wait(t, e, m) PROVE Types'
  <2>1. SharedOK'
    BY <1>0, <1>15 DEF CpuSched_Wait, SharedOK, RunStates, Statuses
  <2>2. Moves(t)
    <3>1. CASE UNCHANGED <<pc, tgt, mem>>
      BY <3>1 DEF Moves
    <3>2. CASE At(t, "waitQueue", e, m)
      BY <3>2, AtMoves DEF Fits, ToVcpu, Before, Off, PCs
    <3> QED
      BY <1>15, <3>1, <3>2 DEF CpuSched_Wait
  <2> QED
    BY <2>1, <2>2, MoveTypes
<1>16. ASSUME NEW t \in Vcpus, WaitLockQueue(t) PROVE Types'
  <2>1. SharedOK'
    BY <1>0, <1>16 DEF WaitLockQueue, SharedOK, RunStates, Statuses
  <2>2. Moves(t)
    BY <1>0, <1>16, AtMoves, GotoMoves, DoneMoves DEF WaitLockQueue, Fits, ToVcpu, Before, Off, PCs
  <2> QED
    BY <2>1, <2>2, MoveTypes
<1>17. ASSUME NEW t \in Vcpus, WaitLockCell(t) PROVE Types'
  <2>1. SharedOK'
    BY <1>0, <1>17 DEF WaitLockCell, SharedOK, RunStates, Statuses
  <2>2. Moves(t)
    BY <1>0, <1>17, AtMoves, GotoMoves, DoneMoves DEF WaitLockCell, Fits, ToVcpu, Before, Off, PCs
  <2> QED
    BY <2>1, <2>2, MoveTypes
<1>18. ASSUME NEW t \in Vcpus, ArmNotify(t) PROVE Types'
  <2>1. SharedOK'
    BY <1>0, <1>18 DEF ArmNotify, SharedOK, RunStates, Statuses
  <2>2. Moves(t)
    BY <1>0, <1>18, AtMoves, GotoMoves, DoneMoves DEF ArmNotify, Fits, ToVcpu, Before, Off, PCs
  <2> QED
    BY <2>1, <2>2, MoveTypes
<1>19. ASSUME NEW t \in Vcpus, ArmMask(t) PROVE Types'
  <2>1. SharedOK'
    <3>1. PICK k \in SUBSET Statuses : vcpu' = [vcpu EXCEPT ![t].mask = k]
      BY <1>0, <1>19 DEF ArmMask, Fits, Before
    <3>2. vcpu' \in [Vcpus -> [runState : RunStates, waitEvent : Events \cup {NoEvent}, mask : SUBSET Statuses]]
      BY <1>0, <3>1 DEF SharedOK
    <3> QED
      BY <1>0, <1>19, <3>2 DEF ArmMask, SharedOK
  <2>2. Moves(t)
    BY <1>0, <1>19, AtMoves, GotoMoves, DoneMoves DEF ArmMask, Fits, ToVcpu, Before, Off, PCs
  <2> QED
    BY <2>1, <2>2, MoveTypes
<1>20. ASSUME NEW t \in Vcpus, WaitInsert(t) PROVE Types'
  <2>1. SharedOK'
    <3>1. PICK e, w : e \in Events /\ e = tgt[t] /\ w = [vcpu[t] EXCEPT !.runState = "WAIT", !.waitEvent = e]
      BY <1>0, <1>20 DEF WaitInsert, Fits, Before
    <3>2. vcpu' = [vcpu EXCEPT ![t] = w]
      BY <1>0, <1>20, <3>1 DEF WaitInsert, SharedOK
    <3>3. w \in [runState : RunStates, waitEvent : Events \cup {NoEvent}, mask : SUBSET Statuses]
      <4>1. vcpu[t] \in [runState : RunStates, waitEvent : Events \cup {NoEvent}, mask : SUBSET Statuses]
        BY <1>0 DEF SharedOK
      <4>2. PICK u : u = [vcpu[t] EXCEPT !.runState = "WAIT"]
        OBVIOUS
      <4>3. u \in [runState : RunStates, waitEvent : Events \cup {NoEvent}, mask : SUBSET Statuses]
        BY <4>1, <4>2 DEF RunStates
      <4>4. w = [u EXCEPT !.waitEvent = e]
        BY <3>1, <4>2
      <4> QED
        BY <3>1, <4>3, <4>4
    <3>4. vcpu' \in [Vcpus -> [runState : RunStates, waitEvent : Events \cup {NoEvent}, mask : SUBSET Statuses]]
      BY <1>0, <3>2, <3>3 DEF SharedOK
    <3> QED
      BY <1>0, <1>20, <3>4 DEF WaitInsert, SharedOK
  <2>2. Moves(t)
    BY <1>0, <1>20, AtMoves, GotoMoves, DoneMoves DEF WaitInsert, Fits, ToVcpu, Before, Off, PCs
  <2> QED
    BY <2>1, <2>2, MoveTypes
<1>21. ASSUME NEW t \in Vcpus, SwitchOut(t) PROVE Types'
  <2>1. SharedOK'
    BY <1>0, <1>21 DEF SwitchOut, SharedOK, RunStates, Statuses
  <2>2. Moves(t)
    BY <1>0, <1>21, AtMoves, GotoMoves, DoneMoves DEF SwitchOut, Fits, ToVcpu, Before, Off, PCs
  <2> QED
    BY <2>1, <2>2, MoveTypes
<1>22. ASSUME NEW t \in Vcpus, StartBusyWait(t) PROVE Types'
  <2>1. SharedOK'
    BY <1>0, <1>22 DEF StartBusyWait, SharedOK, RunStates, Statuses
  <2>2. Moves(t)
    BY <1>0, <1>22, AtMoves, GotoMoves, DoneMoves DEF StartBusyWait, Fits, ToVcpu, Before, Off, PCs
  <2> QED
    BY <2>1, <2>2, MoveTypes
<1>23. ASSUME NEW t \in Vcpus, Resume(t) PROVE Types'
  <2>1. SharedOK'
    <3>1. vcpu' \in [Vcpus -> [runState : RunStates, waitEvent : Events \cup {NoEvent}, mask : SUBSET Statuses]]
      BY <1>0, <1>23 DEF Resume, SharedOK, RunStates, Fits, Before
    <3> QED
      BY <1>0, <1>23, <3>1 DEF Resume, SharedOK
  <2>2. Moves(t)
    BY <1>0, <1>23, AtMoves, GotoMoves, DoneMoves DEF Resume, Fits, ToVcpu, Before, Off, PCs
  <2> QED
    BY <2>1, <2>2, MoveTypes
<1>24. ASSUME NEW t \in Vcpus, BusyWaitEnd(t) PROVE Types'
  <2>1. SharedOK'
    BY <1>0, <1>24 DEF BusyWaitEnd, shared, SharedOK
  <2>2. Moves(t)
    BY <1>0, <1>24, AtMoves, GotoMoves, DoneMoves DEF BusyWaitEnd, Fits, ToVcpu, Before, Off, PCs
  <2> QED
    BY <2>1, <2>2, MoveTypes
<1>25. ASSUME NEW t \in Vcpus, BusyLockQueue(t) PROVE Types'
  <2>1. SharedOK'
    BY <1>0, <1>25 DEF BusyLockQueue, SharedOK, RunStates, Statuses
  <2>2. Moves(t)
    <3>1. PICK q \in Queues : q = QueueOf[vcpu[t].waitEvent]
      BY <1>0 DEF SharedOK
    <3> QED
      BY <1>25, <3>1, AtMoves DEF BusyLockQueue, Fits, ToVcpu, Before, Off, PCs
  <2> QED
    BY <2>1, <2>2, MoveTypes
<1>26. ASSUME NEW t \in Vcpus, BusyWake(t) PROVE Types'
  <2>1. SharedOK'
    <3>1. queue' \in [Queues -> SUBSET Vcpus]
      <4>1. CASE t \in queue[tgt[t]]
        BY <1>0, <1>26, <4>1 DEF BusyWake, SharedOK
      <4>2. CASE t \notin queue[tgt[t]]
        BY <1>0, <1>26, <4>2 DEF BusyWake, SharedOK
      <4> QED
        BY <4>1, <4>2
    <3>2. qlock' \in [Queues -> Threads \cup {Nobody}]
      BY <1>0, <1>26 DEF BusyWake, SharedOK
    <3> QED
      BY <1>0, <1>26, <3>1, <3>2, WakeupTypes DEF BusyWake, SharedOK
  <2>2. Moves(t)
    BY <1>0, <1>26, AtMoves, GotoMoves, DoneMoves DEF BusyWake, Fits, ToVcpu, Before, Off, PCs
  <2> QED
    BY <2>1, <2>2, MoveTypes
<1>27. ASSUME NEW t \in Vcpus, BusyLockCell(t) PROVE Types'
  <2>1. SharedOK'
    BY <1>0, <1>27 DEF BusyLockCell, SharedOK, RunStates, Statuses
  <2>2. Moves(t)
    BY <1>0, <1>27, AtMoves, GotoMoves, DoneMoves DEF BusyLockCell, Fits, ToVcpu, Before, Off, PCs
  <2> QED
    BY <2>1, <2>2, MoveTypes
<1>28. ASSUME NEW t \in Vcpus, CpuSchedVcpuBusyWaitDone(t) PROVE Types'
  <2>1. SharedOK'
    <3>1. PICK r \in {"RUN", "WAIT"} : vcpu' = [vcpu EXCEPT ![t].runState = r]
      BY <1>28 DEF CpuSchedVcpuBusyWaitDone
    <3>2. vcpu' \in [Vcpus -> [runState : RunStates, waitEvent : Events \cup {NoEvent}, mask : SUBSET Statuses]]
      BY <1>0, <3>1 DEF SharedOK, RunStates
    <3> QED
      BY <1>0, <1>28, <3>2 DEF CpuSchedVcpuBusyWaitDone, SharedOK
  <2>2. Moves(t)
    BY <1>0, <1>28, AtMoves, GotoMoves, DoneMoves DEF CpuSchedVcpuBusyWaitDone, Fits, ToVcpu, Before, Off, PCs
  <2> QED
    BY <2>1, <2>2, MoveTypes
<1> QED
  BY <1>1, <1>2, <1>3, <1>4, <1>5, <1>6, <1>7, <1>8, <1>9, <1>10, <1>11, <1>12, <1>13, <1>14, <1>15, <1>16, <1>17,
     <1>18, <1>19, <1>20, <1>21, <1>22, <1>23, <1>24, <1>25, <1>26, <1>27, <1>28 DEF Next, WakerStep, SleeperStep, Start

(* Nobody but t moves.                                                     *)
OthersStay(t) ==
  \A u \in Threads \ {t} : pc'[u] = pc[u] /\ tgt'[u] = tgt[u] /\ mem'[u] = mem[u]

(* At moves one thread.                                                    *)
LEMMA OthersFacts ==
  ASSUME Targets, pc \in [Threads -> PCs], NEW t \in Threads, NEW to, NEW x, NEW m, At(t, to, x, m)
  PROVE  OthersStay(t)
  BY DEF At, Targets, OthersStay

(* The cell lock is held by the vcpu that stands where it holds it.        *)
LEMMA CellStep ==
  ASSUME WaitInv, Next
  PROVE  CellOwned'
<1> USE ConstantFacts
<1>0. SharedOK /\ pc \in [Threads -> PCs] /\ Targets /\ (\A t \in Threads : Fits(t, pc[t], tgt[t], mem[t])) /\ CellOwned
  BY DEF WaitInv, Types, TypeOK, SharedOK, Targets
<1>1. ASSUME NEW t \in Threads, Action_Set(t) PROVE CellOwned'
  BY <1>0, <1>1 DEF Action_Set, At, Goto, Done, shared, CellOwned, InCell, Targets
<1>2. ASSUME NEW t \in Threads, MonitorNotify(t) PROVE CellOwned'
  BY <1>0, <1>2 DEF MonitorNotify, At, Goto, Done, shared, CellOwned, InCell, Targets
<1>3. ASSUME NEW t \in Threads, CpuSched_AsyncCheckActions(t) PROVE CellOwned'
  BY <1>0, <1>3 DEF CpuSched_AsyncCheckActions, At, Goto, Done, shared, CellOwned, InCell, Targets
<1>4. ASSUME NEW t \in Threads, EventLockSnapshot(t) PROVE CellOwned'
  BY <1>0, <1>4 DEF EventLockSnapshot, At, Goto, Done, shared, CellOwned, InCell, Targets
<1>5. ASSUME NEW t \in Threads, EventLockQueue(t) PROVE CellOwned'
  BY <1>0, <1>5 DEF EventLockQueue, At, Goto, Done, shared, CellOwned, InCell, Targets
<1>6. ASSUME NEW t \in Threads, ForceWakeupOrRetry(t) PROVE CellOwned'
  BY <1>0, <1>6 DEF ForceWakeupOrRetry, At, Goto, Done, shared, CellOwned, InCell, Targets
<1>7. ASSUME NEW t \in Threads, WakeupLockQueue(t) PROVE CellOwned'
  BY <1>0, <1>7 DEF WakeupLockQueue, At, Goto, Done, shared, CellOwned, InCell, Targets
<1>8. ASSUME NEW t \in Threads, WakeupDone(t) PROVE CellOwned'
  BY <1>0, <1>8 DEF WakeupDone, At, Goto, Done, shared, CellOwned, InCell, Targets
<1>9. ASSUME NEW t \in Threads, NEW v \in Vcpus, WakeupOne(t, v) PROVE CellOwned'
  BY <1>0, <1>9 DEF WakeupOne, At, Goto, Done, shared, CellOwned, InCell, Targets
<1>10. ASSUME NEW t \in Threads, NEW v \in Vcpus, Action_Post(t, v) PROVE CellOwned'
  BY <1>0, <1>10 DEF Action_Post, At, Goto, Done, shared, CellOwned, InCell, Targets
<1>11. ASSUME NEW t \in Threads, NEW v \in Vcpus, CpuSched_ForceWakeup(t, v) PROVE CellOwned'
  BY <1>0, <1>11 DEF CpuSched_ForceWakeup, At, Goto, Done, shared, CellOwned, InCell, Targets
<1>12. ASSUME NEW t \in Threads, NEW e \in Events, NEW come \in BOOLEAN, CpuSched_Wakeup(t, e, come) PROVE CellOwned'
  BY <1>0, <1>12 DEF CpuSched_Wakeup, At, Goto, Done, shared, CellOwned, InCell, Targets
<1>13. ASSUME NEW t \in Vcpus, NEW v \in Vcpus, MonitorPost(t, v) PROVE CellOwned'
  BY <1>0, <1>13 DEF MonitorPost, At, Goto, Done, shared, CellOwned, InCell, Targets
<1>14. ASSUME NEW t \in Vcpus, MonitorServe(t) PROVE CellOwned'
  BY <1>0, <1>14 DEF MonitorServe, At, Goto, Done, shared, CellOwned, InCell, Targets
<1>15. ASSUME NEW t \in Vcpus, NEW e \in Events, NEW m \in Masks, CpuSched_Wait(t, e, m) PROVE CellOwned'
  BY <1>0, <1>15 DEF CpuSched_Wait, At, Goto, Done, shared, CellOwned, InCell, Targets
<1>16. ASSUME NEW t \in Vcpus, WaitLockQueue(t) PROVE CellOwned'
  BY <1>0, <1>16 DEF WaitLockQueue, At, Goto, Done, shared, CellOwned, InCell, Targets
<1>17. ASSUME NEW t \in Vcpus, WaitLockCell(t) PROVE CellOwned'
  BY <1>0, <1>17 DEF WaitLockCell, At, Goto, Done, shared, CellOwned, InCell, Targets
<1>18. ASSUME NEW t \in Vcpus, ArmNotify(t) PROVE CellOwned'
  BY <1>0, <1>18 DEF ArmNotify, At, Goto, Done, shared, CellOwned, InCell, Targets
<1>19. ASSUME NEW t \in Vcpus, ArmMask(t) PROVE CellOwned'
  BY <1>0, <1>19 DEF ArmMask, At, Goto, Done, shared, CellOwned, InCell, Targets
<1>20. ASSUME NEW t \in Vcpus, WaitInsert(t) PROVE CellOwned'
  BY <1>0, <1>20 DEF WaitInsert, At, Goto, Done, shared, CellOwned, InCell, Targets
<1>21. ASSUME NEW t \in Vcpus, SwitchOut(t) PROVE CellOwned'
  BY <1>0, <1>21 DEF SwitchOut, At, Goto, Done, shared, CellOwned, InCell, Targets
<1>22. ASSUME NEW t \in Vcpus, StartBusyWait(t) PROVE CellOwned'
  BY <1>0, <1>22 DEF StartBusyWait, At, Goto, Done, shared, CellOwned, InCell, Targets
<1>23. ASSUME NEW t \in Vcpus, Resume(t) PROVE CellOwned'
  BY <1>0, <1>23 DEF Resume, At, Goto, Done, shared, CellOwned, InCell, Targets
<1>24. ASSUME NEW t \in Vcpus, BusyWaitEnd(t) PROVE CellOwned'
  BY <1>0, <1>24 DEF BusyWaitEnd, At, Goto, Done, shared, CellOwned, InCell, Targets
<1>25. ASSUME NEW t \in Vcpus, BusyLockQueue(t) PROVE CellOwned'
  BY <1>0, <1>25 DEF BusyLockQueue, At, Goto, Done, shared, CellOwned, InCell, Targets
<1>26. ASSUME NEW t \in Vcpus, BusyWake(t) PROVE CellOwned'
  BY <1>0, <1>26 DEF BusyWake, At, Goto, Done, shared, CellOwned, InCell, Targets
<1>27. ASSUME NEW t \in Vcpus, BusyLockCell(t) PROVE CellOwned'
  BY <1>0, <1>27 DEF BusyLockCell, At, Goto, Done, shared, CellOwned, InCell, Targets
<1>28. ASSUME NEW t \in Vcpus, CpuSchedVcpuBusyWaitDone(t) PROVE CellOwned'
  BY <1>0, <1>28 DEF CpuSchedVcpuBusyWaitDone, At, Goto, Done, shared, CellOwned, InCell, Targets
<1> QED
  BY <1>1, <1>2, <1>3, <1>4, <1>5, <1>6, <1>7, <1>8, <1>9, <1>10, <1>11, <1>12, <1>13, <1>14, <1>15, <1>16, <1>17,
     <1>18, <1>19, <1>20, <1>21, <1>22, <1>23, <1>24, <1>25, <1>26, <1>27, <1>28 DEF Next, WakerStep, SleeperStep, Start

(* The caller's lock is held from the decision to wait until the vcpu is   *)
(* in the queue.                                                           *)
LEMMA MutexStep ==
  ASSUME WaitInv, Next
  PROVE  MutexOwned'
<1> USE ConstantFacts
<1>0. SharedOK /\ pc \in [Threads -> PCs] /\ Targets /\ (\A t \in Threads : Fits(t, pc[t], tgt[t], mem[t])) /\ MutexOwned
  BY DEF WaitInv, Types, TypeOK, SharedOK, Targets
<1>1. ASSUME NEW t \in Threads, Action_Set(t) PROVE MutexOwned'
  BY <1>0, <1>1 DEF Action_Set, At, Goto, Done, shared, MutexOwned, Before, Targets
<1>2. ASSUME NEW t \in Threads, MonitorNotify(t) PROVE MutexOwned'
  BY <1>0, <1>2 DEF MonitorNotify, At, Goto, Done, shared, MutexOwned, Before, Targets
<1>3. ASSUME NEW t \in Threads, CpuSched_AsyncCheckActions(t) PROVE MutexOwned'
  BY <1>0, <1>3 DEF CpuSched_AsyncCheckActions, At, Goto, Done, shared, MutexOwned, Before, Targets
<1>4. ASSUME NEW t \in Threads, EventLockSnapshot(t) PROVE MutexOwned'
  BY <1>0, <1>4 DEF EventLockSnapshot, At, Goto, Done, shared, MutexOwned, Before, Targets
<1>5. ASSUME NEW t \in Threads, EventLockQueue(t) PROVE MutexOwned'
  BY <1>0, <1>5 DEF EventLockQueue, At, Goto, Done, shared, MutexOwned, Before, Targets
<1>6. ASSUME NEW t \in Threads, ForceWakeupOrRetry(t) PROVE MutexOwned'
  BY <1>0, <1>6 DEF ForceWakeupOrRetry, At, Goto, Done, shared, MutexOwned, Before, Targets
<1>7. ASSUME NEW t \in Threads, WakeupLockQueue(t) PROVE MutexOwned'
  BY <1>0, <1>7 DEF WakeupLockQueue, At, Goto, Done, shared, MutexOwned, Before, Targets
<1>8. ASSUME NEW t \in Threads, WakeupDone(t) PROVE MutexOwned'
  BY <1>0, <1>8 DEF WakeupDone, At, Goto, Done, shared, MutexOwned, Before, Targets
<1>9. ASSUME NEW t \in Threads, NEW v \in Vcpus, WakeupOne(t, v) PROVE MutexOwned'
  BY <1>0, <1>9 DEF WakeupOne, At, Goto, Done, shared, MutexOwned, Before, Targets
<1>10. ASSUME NEW t \in Threads, NEW v \in Vcpus, Action_Post(t, v) PROVE MutexOwned'
  BY <1>0, <1>10 DEF Action_Post, At, Goto, Done, shared, MutexOwned, Before, Targets
<1>11. ASSUME NEW t \in Threads, NEW v \in Vcpus, CpuSched_ForceWakeup(t, v) PROVE MutexOwned'
  BY <1>0, <1>11 DEF CpuSched_ForceWakeup, At, Goto, Done, shared, MutexOwned, Before, Targets
<1>12. ASSUME NEW t \in Threads, NEW e \in Events, NEW come \in BOOLEAN, CpuSched_Wakeup(t, e, come) PROVE MutexOwned'
  BY <1>0, <1>12 DEF CpuSched_Wakeup, At, Goto, Done, shared, MutexOwned, Before, Targets
<1>13. ASSUME NEW t \in Vcpus, NEW v \in Vcpus, MonitorPost(t, v) PROVE MutexOwned'
  BY <1>0, <1>13 DEF MonitorPost, At, Goto, Done, shared, MutexOwned, Before, Targets
<1>14. ASSUME NEW t \in Vcpus, MonitorServe(t) PROVE MutexOwned'
  BY <1>0, <1>14 DEF MonitorServe, At, Goto, Done, shared, MutexOwned, Before, Targets
<1>15. ASSUME NEW t \in Vcpus, NEW e \in Events, NEW m \in Masks, CpuSched_Wait(t, e, m) PROVE MutexOwned'
  BY <1>0, <1>15 DEF CpuSched_Wait, At, Goto, Done, shared, MutexOwned, Before, Targets
<1>16. ASSUME NEW t \in Vcpus, WaitLockQueue(t) PROVE MutexOwned'
  BY <1>0, <1>16 DEF WaitLockQueue, At, Goto, Done, shared, MutexOwned, Before, Targets
<1>17. ASSUME NEW t \in Vcpus, WaitLockCell(t) PROVE MutexOwned'
  BY <1>0, <1>17 DEF WaitLockCell, At, Goto, Done, shared, MutexOwned, Before, Targets
<1>18. ASSUME NEW t \in Vcpus, ArmNotify(t) PROVE MutexOwned'
  BY <1>0, <1>18 DEF ArmNotify, At, Goto, Done, shared, MutexOwned, Before, Targets
<1>19. ASSUME NEW t \in Vcpus, ArmMask(t) PROVE MutexOwned'
  BY <1>0, <1>19 DEF ArmMask, At, Goto, Done, shared, MutexOwned, Before, Targets
<1>20. ASSUME NEW t \in Vcpus, WaitInsert(t) PROVE MutexOwned'
  BY <1>0, <1>20 DEF WaitInsert, At, Goto, Done, shared, MutexOwned, Before, Targets
<1>21. ASSUME NEW t \in Vcpus, SwitchOut(t) PROVE MutexOwned'
  BY <1>0, <1>21 DEF SwitchOut, At, Goto, Done, shared, MutexOwned, Before, Targets
<1>22. ASSUME NEW t \in Vcpus, StartBusyWait(t) PROVE MutexOwned'
  BY <1>0, <1>22 DEF StartBusyWait, At, Goto, Done, shared, MutexOwned, Before, Targets
<1>23. ASSUME NEW t \in Vcpus, Resume(t) PROVE MutexOwned'
  BY <1>0, <1>23 DEF Resume, At, Goto, Done, shared, MutexOwned, Before, Targets
<1>24. ASSUME NEW t \in Vcpus, BusyWaitEnd(t) PROVE MutexOwned'
  BY <1>0, <1>24 DEF BusyWaitEnd, At, Goto, Done, shared, MutexOwned, Before, Targets
<1>25. ASSUME NEW t \in Vcpus, BusyLockQueue(t) PROVE MutexOwned'
  BY <1>0, <1>25 DEF BusyLockQueue, At, Goto, Done, shared, MutexOwned, Before, Targets
<1>26. ASSUME NEW t \in Vcpus, BusyWake(t) PROVE MutexOwned'
  BY <1>0, <1>26 DEF BusyWake, At, Goto, Done, shared, MutexOwned, Before, Targets
<1>27. ASSUME NEW t \in Vcpus, BusyLockCell(t) PROVE MutexOwned'
  BY <1>0, <1>27 DEF BusyLockCell, At, Goto, Done, shared, MutexOwned, Before, Targets
<1>28. ASSUME NEW t \in Vcpus, CpuSchedVcpuBusyWaitDone(t) PROVE MutexOwned'
  BY <1>0, <1>28 DEF CpuSchedVcpuBusyWaitDone, At, Goto, Done, shared, MutexOwned, Before, Targets
<1> QED
  BY <1>1, <1>2, <1>3, <1>4, <1>5, <1>6, <1>7, <1>8, <1>9, <1>10, <1>11, <1>12, <1>13, <1>14, <1>15, <1>16, <1>17,
     <1>18, <1>19, <1>20, <1>21, <1>22, <1>23, <1>24, <1>25, <1>26, <1>27, <1>28 DEF Next, WakerStep, SleeperStep, Start

(* The lock of a bucket is held by a thread that stands where it holds it. *)
LEMMA QlockStep ==
  ASSUME WaitInv, Next
  PROVE  QueuesOwned'
<1> USE ConstantFacts
<1>0. SharedOK /\ pc \in [Threads -> PCs] /\ Targets /\ (\A t \in Threads : Fits(t, pc[t], tgt[t], mem[t])) /\ QueuesOwned
  BY DEF WaitInv, Types, TypeOK, SharedOK, Targets
<1>1. ASSUME NEW t \in Threads, Action_Set(t) PROVE QueuesOwned'
  BY <1>0, <1>1 DEF Action_Set, At, Goto, Done, shared, QueuesOwned, Targets, SharedOK, Fits, Before
<1>2. ASSUME NEW t \in Threads, MonitorNotify(t) PROVE QueuesOwned'
  BY <1>0, <1>2 DEF MonitorNotify, At, Goto, Done, shared, QueuesOwned, Targets, SharedOK, Fits, Before
<1>3. ASSUME NEW t \in Threads, CpuSched_AsyncCheckActions(t) PROVE QueuesOwned'
  BY <1>0, <1>3 DEF CpuSched_AsyncCheckActions, At, Goto, Done, shared, QueuesOwned, Targets, SharedOK, Fits, Before
<1>4. ASSUME NEW t \in Threads, EventLockSnapshot(t) PROVE QueuesOwned'
  BY <1>0, <1>4 DEF EventLockSnapshot, At, Goto, Done, shared, QueuesOwned, Targets, SharedOK, Fits, Before
<1>5. ASSUME NEW t \in Threads, EventLockQueue(t) PROVE QueuesOwned'
  BY <1>0, <1>5 DEF EventLockQueue, At, Goto, Done, shared, QueuesOwned, Targets, SharedOK, Fits, Before
<1>6. ASSUME NEW t \in Threads, ForceWakeupOrRetry(t) PROVE QueuesOwned'
  BY <1>0, <1>6 DEF ForceWakeupOrRetry, At, Goto, Done, shared, QueuesOwned, Targets, SharedOK, Fits, Before
<1>7. ASSUME NEW t \in Threads, WakeupLockQueue(t) PROVE QueuesOwned'
  <2>1. PICK e \in Events, k \in Queues : e = tgt[t] /\ k = QueueOf[e]
    BY <1>0, <1>7 DEF WakeupLockQueue, Fits, Before
  <2>2. qlock' = [qlock EXCEPT ![k] = t] /\ At(t, "wakeLoop", e, mem[t])
    BY <1>7, <2>1 DEF WakeupLockQueue, Goto
  <2>3. OthersStay(t) /\ pc'[t] = "wakeLoop" /\ tgt'[t] = e
    BY <1>0, <2>1, <2>2, OthersFacts DEF At, Targets
  <2>4. \A r \in Queues : qlock[r] # t
    BY <1>0, <1>7 DEF WakeupLockQueue, QueuesOwned
  <2> QED
    BY <1>0, <2>1, <2>2, <2>3, <2>4 DEF QueuesOwned, OthersStay, SharedOK
<1>8. ASSUME NEW t \in Threads, WakeupDone(t) PROVE QueuesOwned'
  BY <1>0, <1>8 DEF WakeupDone, At, Goto, Done, shared, QueuesOwned, Targets, SharedOK, Fits, Before
<1>9. ASSUME NEW t \in Threads, NEW v \in Vcpus, WakeupOne(t, v) PROVE QueuesOwned'
  BY <1>0, <1>9 DEF WakeupOne, At, Goto, Done, shared, QueuesOwned, Targets, SharedOK, Fits, Before
<1>10. ASSUME NEW t \in Threads, NEW v \in Vcpus, Action_Post(t, v) PROVE QueuesOwned'
  BY <1>0, <1>10 DEF Action_Post, At, Goto, Done, shared, QueuesOwned, Targets, SharedOK, Fits, Before
<1>11. ASSUME NEW t \in Threads, NEW v \in Vcpus, CpuSched_ForceWakeup(t, v) PROVE QueuesOwned'
  BY <1>0, <1>11 DEF CpuSched_ForceWakeup, At, Goto, Done, shared, QueuesOwned, Targets, SharedOK, Fits, Before
<1>12. ASSUME NEW t \in Threads, NEW e \in Events, NEW come \in BOOLEAN, CpuSched_Wakeup(t, e, come) PROVE QueuesOwned'
  BY <1>0, <1>12 DEF CpuSched_Wakeup, At, Goto, Done, shared, QueuesOwned, Targets, SharedOK, Fits, Before
<1>13. ASSUME NEW t \in Vcpus, NEW v \in Vcpus, MonitorPost(t, v) PROVE QueuesOwned'
  BY <1>0, <1>13 DEF MonitorPost, At, Goto, Done, shared, QueuesOwned, Targets, SharedOK, Fits, Before
<1>14. ASSUME NEW t \in Vcpus, MonitorServe(t) PROVE QueuesOwned'
  BY <1>0, <1>14 DEF MonitorServe, At, Goto, Done, shared, QueuesOwned, Targets, SharedOK, Fits, Before
<1>15. ASSUME NEW t \in Vcpus, NEW e \in Events, NEW m \in Masks, CpuSched_Wait(t, e, m) PROVE QueuesOwned'
  BY <1>0, <1>15 DEF CpuSched_Wait, At, Goto, Done, shared, QueuesOwned, Targets, SharedOK, Fits, Before
<1>16. ASSUME NEW t \in Vcpus, WaitLockQueue(t) PROVE QueuesOwned'
  <2>1. PICK e \in Events, k \in Queues : e = tgt[t] /\ k = QueueOf[e]
    BY <1>0, <1>16 DEF WaitLockQueue, Fits, Before
  <2>2. qlock' = [qlock EXCEPT ![k] = t] /\ At(t, "waitCell", e, mem[t])
    BY <1>16, <2>1 DEF WaitLockQueue, Goto
  <2>3. OthersStay(t) /\ pc'[t] = "waitCell" /\ tgt'[t] = e
    BY <1>0, <2>1, <2>2, OthersFacts DEF At, Targets
  <2>4. \A r \in Queues : qlock[r] # t
    BY <1>0, <1>16 DEF WaitLockQueue, QueuesOwned
  <2> QED
    BY <1>0, <2>1, <2>2, <2>3, <2>4 DEF QueuesOwned, OthersStay, SharedOK
<1>17. ASSUME NEW t \in Vcpus, WaitLockCell(t) PROVE QueuesOwned'
  BY <1>0, <1>17 DEF WaitLockCell, At, Goto, Done, shared, QueuesOwned, Targets, SharedOK, Fits, Before
<1>18. ASSUME NEW t \in Vcpus, ArmNotify(t) PROVE QueuesOwned'
  BY <1>0, <1>18 DEF ArmNotify, At, Goto, Done, shared, QueuesOwned, Targets, SharedOK, Fits, Before
<1>19. ASSUME NEW t \in Vcpus, ArmMask(t) PROVE QueuesOwned'
  <2>1. CASE qlock' = qlock /\ Goto(t, "insert")
    BY <1>0, <1>19, <2>1 DEF ArmMask, At, Goto, QueuesOwned, Targets, SharedOK
  <2>2. CASE qlock' = [qlock EXCEPT ![QueueOf[tgt[t]]] = Nobody] /\ Done(t)
    BY <1>0, <1>19, <2>2 DEF ArmMask, At, Done, QueuesOwned, Targets, SharedOK
  <2> QED
    BY <1>19, <2>1, <2>2 DEF ArmMask
<1>20. ASSUME NEW t \in Vcpus, WaitInsert(t) PROVE QueuesOwned'
  BY <1>0, <1>20 DEF WaitInsert, At, Goto, Done, shared, QueuesOwned, Targets, SharedOK, Fits, Before
<1>21. ASSUME NEW t \in Vcpus, SwitchOut(t) PROVE QueuesOwned'
  BY <1>0, <1>21 DEF SwitchOut, At, Goto, Done, shared, QueuesOwned, Targets, SharedOK, Fits, Before
<1>22. ASSUME NEW t \in Vcpus, StartBusyWait(t) PROVE QueuesOwned'
  BY <1>0, <1>22 DEF StartBusyWait, At, Goto, Done, shared, QueuesOwned, Targets, SharedOK, Fits, Before
<1>23. ASSUME NEW t \in Vcpus, Resume(t) PROVE QueuesOwned'
  BY <1>0, <1>23 DEF Resume, At, Goto, Done, shared, QueuesOwned, Targets, SharedOK, Fits, Before
<1>24. ASSUME NEW t \in Vcpus, BusyWaitEnd(t) PROVE QueuesOwned'
  BY <1>0, <1>24 DEF BusyWaitEnd, At, Goto, Done, shared, QueuesOwned, Targets, SharedOK, Fits, Before
<1>25. ASSUME NEW t \in Vcpus, BusyLockQueue(t) PROVE QueuesOwned'
  <2>1. PICK k \in Queues : k = QueueOf[vcpu[t].waitEvent]
    BY <1>0 DEF SharedOK
  <2>2. qlock' = [qlock EXCEPT ![k] = t] /\ At(t, "busyWake", k, <<>>)
    BY <1>25, <2>1 DEF BusyLockQueue
  <2>3. OthersStay(t) /\ pc'[t] = "busyWake" /\ tgt'[t] = k
    BY <1>0, <2>2, OthersFacts DEF At, Targets
  <2>4. \A r \in Queues : qlock[r] # t
    BY <1>0, <1>25 DEF BusyLockQueue, QueuesOwned
  <2> QED
    BY <1>0, <2>1, <2>2, <2>3, <2>4 DEF QueuesOwned, OthersStay, SharedOK
<1>26. ASSUME NEW t \in Vcpus, BusyWake(t) PROVE QueuesOwned'
  BY <1>0, <1>26 DEF BusyWake, At, Goto, Done, shared, QueuesOwned, Targets, SharedOK, Fits, Before
<1>27. ASSUME NEW t \in Vcpus, BusyLockCell(t) PROVE QueuesOwned'
  BY <1>0, <1>27 DEF BusyLockCell, At, Goto, Done, shared, QueuesOwned, Targets, SharedOK, Fits, Before
<1>28. ASSUME NEW t \in Vcpus, CpuSchedVcpuBusyWaitDone(t) PROVE QueuesOwned'
  BY SMTT(30), <1>0, <1>28 DEF CpuSchedVcpuBusyWaitDone, At, Goto, Done, shared, QueuesOwned, Targets, SharedOK, Fits, Before
<1> QED
  BY <1>1, <1>2, <1>3, <1>4, <1>5, <1>6, <1>7, <1>8, <1>9, <1>10, <1>11, <1>12, <1>13, <1>14, <1>15, <1>16, <1>17,
     <1>18, <1>19, <1>20, <1>21, <1>22, <1>23, <1>24, <1>25, <1>26, <1>27, <1>28 DEF Next, WakerStep, SleeperStep, Start

(* A step that touches neither word of the actions, by a thread that is    *)
(* not between the two, overlooks none.                                    *)
LEMMA VectorKept ==
  ASSUME VectorSeen, UNCHANGED <<vector, status>>,
         NEW t \in Threads, pc[t] \notin {"setStatus", "serve"}, OthersStay(t)
  PROVE  VectorSeen'
  BY DEF VectorSeen, OthersStay, Threads

(* An action in the vector is seen.                                        *)
LEMMA VectorStep ==
  ASSUME WaitInv, Next
  PROVE  VectorSeen'
<1> USE ConstantFacts
<1>0. SharedOK /\ pc \in [Threads -> PCs] /\ Targets /\ (\A t \in Threads : Fits(t, pc[t], tgt[t], mem[t])) /\ VectorSeen
  BY DEF WaitInv, Types, TypeOK, SharedOK, Targets
<1>1. ASSUME NEW t \in Threads, Action_Set(t) PROVE VectorSeen'
  BY SMTT(30), <1>0, <1>1 DEF Action_Set, At, Goto, Done, shared, VectorSeen, Targets, SharedOK, Fits, ToVcpu
<1>2. ASSUME NEW t \in Threads, MonitorNotify(t) PROVE VectorSeen'
  <2>1. OthersStay(t) /\ pc[t] \notin {"setStatus", "serve"} /\ UNCHANGED <<vector, status>>
    BY <1>0, <1>2, OthersFacts DEF MonitorNotify, Goto, Done, shared
  <2> QED
    BY <1>0, <2>1, VectorKept
<1>3. ASSUME NEW t \in Threads, CpuSched_AsyncCheckActions(t) PROVE VectorSeen'
  <2>1. OthersStay(t) /\ pc[t] \notin {"setStatus", "serve"} /\ UNCHANGED <<vector, status>>
    BY <1>0, <1>3, OthersFacts DEF CpuSched_AsyncCheckActions, Goto, Done, shared
  <2> QED
    BY <1>0, <2>1, VectorKept
<1>4. ASSUME NEW t \in Threads, EventLockSnapshot(t) PROVE VectorSeen'
  BY <1>0, <1>4 DEF EventLockSnapshot, At, Goto, Done, shared, VectorSeen, Targets, SharedOK, Fits, ToVcpu
<1>5. ASSUME NEW t \in Threads, EventLockQueue(t) PROVE VectorSeen'
  BY <1>0, <1>5 DEF EventLockQueue, At, Goto, Done, shared, VectorSeen, Targets, SharedOK, Fits, ToVcpu
<1>6. ASSUME NEW t \in Threads, ForceWakeupOrRetry(t) PROVE VectorSeen'
  <2>1. OthersStay(t) /\ pc[t] \notin {"setStatus", "serve"} /\ UNCHANGED <<vector, status>>
    BY <1>0, <1>6, OthersFacts DEF ForceWakeupOrRetry, Goto, Done
  <2> QED
    BY <1>0, <2>1, VectorKept
<1>7. ASSUME NEW t \in Threads, WakeupLockQueue(t) PROVE VectorSeen'
  BY <1>0, <1>7 DEF WakeupLockQueue, At, Goto, Done, shared, VectorSeen, Targets, SharedOK, Fits, ToVcpu
<1>8. ASSUME NEW t \in Threads, WakeupDone(t) PROVE VectorSeen'
  BY <1>0, <1>8 DEF WakeupDone, At, Goto, Done, shared, VectorSeen, Targets, SharedOK, Fits, ToVcpu
<1>9. ASSUME NEW t \in Threads, NEW v \in Vcpus, WakeupOne(t, v) PROVE VectorSeen'
  BY <1>0, <1>9 DEF WakeupOne, At, Goto, Done, shared, VectorSeen, Targets, SharedOK, Fits, ToVcpu
<1>10. ASSUME NEW t \in Threads, NEW v \in Vcpus, Action_Post(t, v) PROVE VectorSeen'
  BY <1>0, <1>10 DEF Action_Post, At, Goto, Done, shared, VectorSeen, Targets, SharedOK, Fits, ToVcpu
<1>11. ASSUME NEW t \in Threads, NEW v \in Vcpus, CpuSched_ForceWakeup(t, v) PROVE VectorSeen'
  BY <1>0, <1>11 DEF CpuSched_ForceWakeup, At, Goto, Done, shared, VectorSeen, Targets, SharedOK, Fits, ToVcpu
<1>12. ASSUME NEW t \in Threads, NEW e \in Events, NEW come \in BOOLEAN, CpuSched_Wakeup(t, e, come) PROVE VectorSeen'
  BY <1>0, <1>12 DEF CpuSched_Wakeup, At, Goto, Done, shared, VectorSeen, Targets, SharedOK, Fits, ToVcpu
<1>13. ASSUME NEW t \in Vcpus, NEW v \in Vcpus, MonitorPost(t, v) PROVE VectorSeen'
  BY ZenonT(30), <1>0, <1>13 DEF MonitorPost, At, Goto, Done, shared, VectorSeen, Targets, SharedOK, Fits, ToVcpu
<1>14. ASSUME NEW t \in Vcpus, MonitorServe(t) PROVE VectorSeen'
  BY SMTT(30), <1>0, <1>14 DEF MonitorServe, At, Goto, Done, shared, VectorSeen, Targets, SharedOK, Fits, ToVcpu
<1>15. ASSUME NEW t \in Vcpus, NEW e \in Events, NEW m \in Masks, CpuSched_Wait(t, e, m) PROVE VectorSeen'
  BY <1>0, <1>15 DEF CpuSched_Wait, At, Goto, Done, shared, VectorSeen, Targets, SharedOK, Fits, ToVcpu
<1>16. ASSUME NEW t \in Vcpus, WaitLockQueue(t) PROVE VectorSeen'
  BY <1>0, <1>16 DEF WaitLockQueue, At, Goto, Done, shared, VectorSeen, Targets, SharedOK, Fits, ToVcpu
<1>17. ASSUME NEW t \in Vcpus, WaitLockCell(t) PROVE VectorSeen'
  BY <1>0, <1>17 DEF WaitLockCell, At, Goto, Done, shared, VectorSeen, Targets, SharedOK, Fits, ToVcpu
<1>18. ASSUME NEW t \in Vcpus, ArmNotify(t) PROVE VectorSeen'
  BY <1>0, <1>18 DEF ArmNotify, At, Goto, Done, shared, VectorSeen, Targets, SharedOK, Fits, ToVcpu
<1>19. ASSUME NEW t \in Vcpus, ArmMask(t) PROVE VectorSeen'
  <2>1. OthersStay(t) /\ pc[t] \notin {"setStatus", "serve"} /\ UNCHANGED <<vector, status>>
    BY <1>0, <1>19, OthersFacts DEF ArmMask, Goto, Done
  <2> QED
    BY <1>0, <2>1, VectorKept
<1>20. ASSUME NEW t \in Vcpus, WaitInsert(t) PROVE VectorSeen'
  BY <1>0, <1>20 DEF WaitInsert, At, Goto, Done, shared, VectorSeen, Targets, SharedOK, Fits, ToVcpu
<1>21. ASSUME NEW t \in Vcpus, SwitchOut(t) PROVE VectorSeen'
  BY <1>0, <1>21 DEF SwitchOut, At, Goto, Done, shared, VectorSeen, Targets, SharedOK, Fits, ToVcpu
<1>22. ASSUME NEW t \in Vcpus, StartBusyWait(t) PROVE VectorSeen'
  BY <1>0, <1>22 DEF StartBusyWait, At, Goto, Done, shared, VectorSeen, Targets, SharedOK, Fits, ToVcpu
<1>23. ASSUME NEW t \in Vcpus, Resume(t) PROVE VectorSeen'
  BY <1>0, <1>23 DEF Resume, At, Goto, Done, shared, VectorSeen, Targets, SharedOK, Fits, ToVcpu
<1>24. ASSUME NEW t \in Vcpus, BusyWaitEnd(t) PROVE VectorSeen'
  <2>1. OthersStay(t) /\ pc[t] \notin {"setStatus", "serve"} /\ UNCHANGED <<vector, status>>
    BY <1>0, <1>24, OthersFacts DEF BusyWaitEnd, Goto, Done, shared
  <2> QED
    BY <1>0, <2>1, VectorKept
<1>25. ASSUME NEW t \in Vcpus, BusyLockQueue(t) PROVE VectorSeen'
  BY <1>0, <1>25 DEF BusyLockQueue, At, Goto, Done, shared, VectorSeen, Targets, SharedOK, Fits, ToVcpu
<1>26. ASSUME NEW t \in Vcpus, BusyWake(t) PROVE VectorSeen'
  BY <1>0, <1>26 DEF BusyWake, At, Goto, Done, shared, VectorSeen, Targets, SharedOK, Fits, ToVcpu
<1>27. ASSUME NEW t \in Vcpus, BusyLockCell(t) PROVE VectorSeen'
  BY <1>0, <1>27 DEF BusyLockCell, At, Goto, Done, shared, VectorSeen, Targets, SharedOK, Fits, ToVcpu
<1>28. ASSUME NEW t \in Vcpus, CpuSchedVcpuBusyWaitDone(t) PROVE VectorSeen'
  <2>1. OthersStay(t) /\ pc[t] \notin {"setStatus", "serve"} /\ UNCHANGED <<vector, status>>
    BY <1>0, <1>28, OthersFacts DEF CpuSchedVcpuBusyWaitDone, Goto, Done
  <2> QED
    BY <1>0, <2>1, VectorKept
<1> QED
  BY <1>1, <1>2, <1>3, <1>4, <1>5, <1>6, <1>7, <1>8, <1>9, <1>10, <1>11, <1>12, <1>13, <1>14, <1>15, <1>16, <1>17,
     <1>18, <1>19, <1>20, <1>21, <1>22, <1>23, <1>24, <1>25, <1>26, <1>27, <1>28 DEF Next, WakerStep, SleeperStep, Start

(* A vcpu that is woken, while nobody has the cell lock, was asleep or     *)
(* busy-waits.                                                             *)
LEMMA StateWoken ==
  ASSUME StatesOK, CellOwned, SharedOK, cell = Nobody, NEW v \in Vcpus, IsWaiting(v), CpuSchedVcpuWakeup(v),
         NEW t \in Threads, OthersStay(t), pc'[t] \in {"run", "force", "wakeLoop"}, pc[t] \in {"forceAct", "wakeLoop"}
  PROVE  StatesOK'
<1> USE ConstantFacts
<1>1. pc[v] \in {"asleep", "busy", "busyQueue", "busyWake", "busyCell"}
  BY DEF StatesOK, StateOK, IsWaiting, CellOwned, InCell, Off
<1>2. pc'[v] = pc[v]
  BY <1>1 DEF OthersStay
<1>3. /\ vcpu'[v] = [runState |-> IF vcpu[v].runState = "BUSY_WAIT" THEN "BUSY_WAIT" ELSE "READY",
                      waitEvent |-> NoEvent, mask |-> {}]
      /\ \A u \in Vcpus \ {v} : vcpu'[u] = vcpu[u]
  BY DEF CpuSchedVcpuWakeup, SharedOK
<1>4. StateOK(v)'
  BY <1>1, <1>2, <1>3 DEF StatesOK, StateOK, Off
<1>5. \A u \in Vcpus \ {v} : StateOK(u)'
  BY <1>3 DEF StatesOK, StateOK, OthersStay, Off
<1> QED
  BY <1>4, <1>5 DEF StatesOK

(* The run state of a vcpu fits where it stands.                           *)
LEMMA StateStep ==
  ASSUME WaitInv, Next
  PROVE  StatesOK'
<1> USE ConstantFacts
<1>0. SharedOK /\ pc \in [Threads -> PCs] /\ Targets /\ (\A t \in Threads : Fits(t, pc[t], tgt[t], mem[t])) /\ StatesOK /\ CellOwned /\ QueuesExact
  BY DEF WaitInv, Types, TypeOK, SharedOK, Targets
<1>1. ASSUME NEW t \in Threads, Action_Set(t) PROVE StatesOK'
  BY <1>0, <1>1 DEF Action_Set, At, Goto, Done, shared, CpuSchedVcpuWakeup, StatesOK, StateOK, Off, Before,
     ToVcpu, Fits, CellOwned, InCell, Targets, SharedOK, IsWaiting
<1>2. ASSUME NEW t \in Threads, MonitorNotify(t) PROVE StatesOK'
  BY <1>0, <1>2 DEF MonitorNotify, At, Goto, Done, shared, CpuSchedVcpuWakeup, StatesOK, StateOK, Off, Before,
     ToVcpu, Fits, CellOwned, InCell, Targets, SharedOK, IsWaiting
<1>3. ASSUME NEW t \in Threads, CpuSched_AsyncCheckActions(t) PROVE StatesOK'
  BY <1>0, <1>3 DEF CpuSched_AsyncCheckActions, At, Goto, Done, shared, CpuSchedVcpuWakeup, StatesOK, StateOK,
     Off, Before, ToVcpu, Fits, CellOwned, InCell, Targets, SharedOK, IsWaiting
<1>4. ASSUME NEW t \in Threads, EventLockSnapshot(t) PROVE StatesOK'
  BY <1>0, <1>4 DEF EventLockSnapshot, At, Goto, Done, shared, CpuSchedVcpuWakeup, StatesOK, StateOK, Off, Before,
     ToVcpu, Fits, CellOwned, InCell, Targets, SharedOK, IsWaiting
<1>5. ASSUME NEW t \in Threads, EventLockQueue(t) PROVE StatesOK'
  BY <1>0, <1>5 DEF EventLockQueue, At, Goto, Done, shared, CpuSchedVcpuWakeup, StatesOK, StateOK, Off, Before,
     ToVcpu, Fits, CellOwned, InCell, Targets, SharedOK, IsWaiting
<1>6. ASSUME NEW t \in Threads, ForceWakeupOrRetry(t) PROVE StatesOK'
  <2>1. PICK v \in Vcpus : v = tgt[t]
    BY <1>0, <1>6 DEF ForceWakeupOrRetry, Fits, ToVcpu
  <2>2. cell = Nobody /\ pc[t] = "forceAct" /\ pc'[t] \in {"run", "force"} /\ OthersStay(t)
    BY <1>0, <1>6, OthersFacts DEF ForceWakeupOrRetry, At, Done, Targets
  <2>3. CASE UNCHANGED vcpu
    BY <1>0, <2>2, <2>3 DEF StatesOK, StateOK, OthersStay, Off
  <2>4. CASE CpuSchedVcpuWakeup(v) /\ IsWaiting(v)
    BY <1>0, <2>2, <2>4, StateWoken
  <2> QED
    BY <1>6, <2>1, <2>3, <2>4 DEF ForceWakeupOrRetry
<1>7. ASSUME NEW t \in Threads, WakeupLockQueue(t) PROVE StatesOK'
  BY <1>0, <1>7 DEF WakeupLockQueue, At, Goto, Done, shared, CpuSchedVcpuWakeup, StatesOK, StateOK, Off, Before,
     ToVcpu, Fits, CellOwned, InCell, Targets, SharedOK, IsWaiting
<1>8. ASSUME NEW t \in Threads, WakeupDone(t) PROVE StatesOK'
  BY <1>0, <1>8 DEF WakeupDone, At, Goto, Done, shared, CpuSchedVcpuWakeup, StatesOK, StateOK, Off, Before,
     ToVcpu, Fits, CellOwned, InCell, Targets, SharedOK, IsWaiting
<1>9. ASSUME NEW t \in Threads, NEW v \in Vcpus, WakeupOne(t, v) PROVE StatesOK'
  <2>1. cell = Nobody /\ pc' = pc /\ CpuSchedVcpuWakeup(v) /\ OthersStay(t) /\ pc[t] = "wakeLoop"
    BY <1>9 DEF WakeupOne, OthersStay
  <2>2. vcpu[v].waitEvent # NoEvent
    BY <1>0, <1>9 DEF WakeupOne, Matching, Fits, Before
  <2>3. IsWaiting(v)
    BY <1>0, <2>2 DEF StatesOK, StateOK, IsWaiting, Off
  <2> QED
    BY <1>0, <2>1, <2>3, StateWoken
<1>10. ASSUME NEW t \in Threads, NEW v \in Vcpus, Action_Post(t, v) PROVE StatesOK'
  BY <1>0, <1>10 DEF Action_Post, At, Goto, Done, shared, CpuSchedVcpuWakeup, StatesOK, StateOK, Off, Before,
     ToVcpu, Fits, CellOwned, InCell, Targets, SharedOK, IsWaiting
<1>11. ASSUME NEW t \in Threads, NEW v \in Vcpus, CpuSched_ForceWakeup(t, v) PROVE StatesOK'
  BY <1>0, <1>11 DEF CpuSched_ForceWakeup, At, Goto, Done, shared, CpuSchedVcpuWakeup, StatesOK, StateOK, Off,
     Before, ToVcpu, Fits, CellOwned, InCell, Targets, SharedOK, IsWaiting
<1>12. ASSUME NEW t \in Threads, NEW e \in Events, NEW come \in BOOLEAN, CpuSched_Wakeup(t, e, come) PROVE StatesOK'
  BY <1>0, <1>12 DEF CpuSched_Wakeup, At, Goto, Done, shared, CpuSchedVcpuWakeup, StatesOK, StateOK, Off, Before,
     ToVcpu, Fits, CellOwned, InCell, Targets, SharedOK, IsWaiting
<1>13. ASSUME NEW t \in Vcpus, NEW v \in Vcpus, MonitorPost(t, v) PROVE StatesOK'
  BY <1>0, <1>13 DEF MonitorPost, At, Goto, Done, shared, CpuSchedVcpuWakeup, StatesOK, StateOK, Off, Before,
     ToVcpu, Fits, CellOwned, InCell, Targets, SharedOK, IsWaiting
<1>14. ASSUME NEW t \in Vcpus, MonitorServe(t) PROVE StatesOK'
  BY <1>0, <1>14 DEF MonitorServe, At, Goto, Done, shared, CpuSchedVcpuWakeup, StatesOK, StateOK, Off, Before,
     ToVcpu, Fits, CellOwned, InCell, Targets, SharedOK, IsWaiting
<1>15. ASSUME NEW t \in Vcpus, NEW e \in Events, NEW m \in Masks, CpuSched_Wait(t, e, m) PROVE StatesOK'
  BY <1>0, <1>15 DEF CpuSched_Wait, At, Goto, Done, shared, CpuSchedVcpuWakeup, StatesOK, StateOK, Off, Before,
     ToVcpu, Fits, CellOwned, InCell, Targets, SharedOK, IsWaiting
<1>16. ASSUME NEW t \in Vcpus, WaitLockQueue(t) PROVE StatesOK'
  BY <1>0, <1>16 DEF WaitLockQueue, At, Goto, Done, shared, CpuSchedVcpuWakeup, StatesOK, StateOK, Off, Before,
     ToVcpu, Fits, CellOwned, InCell, Targets, SharedOK, IsWaiting
<1>17. ASSUME NEW t \in Vcpus, WaitLockCell(t) PROVE StatesOK'
  BY <1>0, <1>17 DEF WaitLockCell, At, Goto, Done, shared, CpuSchedVcpuWakeup, StatesOK, StateOK, Off, Before,
     ToVcpu, Fits, CellOwned, InCell, Targets, SharedOK, IsWaiting
<1>18. ASSUME NEW t \in Vcpus, ArmNotify(t) PROVE StatesOK'
  BY <1>0, <1>18 DEF ArmNotify, At, Goto, Done, shared, CpuSchedVcpuWakeup, StatesOK, StateOK, Off, Before,
     ToVcpu, Fits, CellOwned, InCell, Targets, SharedOK, IsWaiting
<1>19. ASSUME NEW t \in Vcpus, ArmMask(t) PROVE StatesOK'
  BY <1>0, <1>19 DEF ArmMask, At, Goto, Done, shared, CpuSchedVcpuWakeup, StatesOK, StateOK, Off, Before, ToVcpu,
     Fits, CellOwned, InCell, Targets, SharedOK, IsWaiting
<1>20. ASSUME NEW t \in Vcpus, WaitInsert(t) PROVE StatesOK'
  BY <1>0, <1>20 DEF WaitInsert, At, Goto, Done, shared, CpuSchedVcpuWakeup, StatesOK, StateOK, Off, Before,
     ToVcpu, Fits, CellOwned, InCell, Targets, SharedOK, IsWaiting
<1>21. ASSUME NEW t \in Vcpus, SwitchOut(t) PROVE StatesOK'
  BY <1>0, <1>21 DEF SwitchOut, At, Goto, Done, shared, CpuSchedVcpuWakeup, StatesOK, StateOK, Off, Before,
     ToVcpu, Fits, CellOwned, InCell, Targets, SharedOK, IsWaiting
<1>22. ASSUME NEW t \in Vcpus, StartBusyWait(t) PROVE StatesOK'
  BY <1>0, <1>22 DEF StartBusyWait, At, Goto, Done, shared, CpuSchedVcpuWakeup, StatesOK, StateOK, Off, Before,
     ToVcpu, Fits, CellOwned, InCell, Targets, SharedOK, IsWaiting
<1>23. ASSUME NEW t \in Vcpus, Resume(t) PROVE StatesOK'
  BY <1>0, <1>23 DEF Resume, At, Goto, Done, shared, CpuSchedVcpuWakeup, StatesOK, StateOK, Off, Before, ToVcpu,
     Fits, CellOwned, InCell, Targets, SharedOK, IsWaiting
<1>24. ASSUME NEW t \in Vcpus, BusyWaitEnd(t) PROVE StatesOK'
  BY <1>0, <1>24 DEF BusyWaitEnd, At, Goto, Done, shared, CpuSchedVcpuWakeup, StatesOK, StateOK, Off, Before,
     ToVcpu, Fits, CellOwned, InCell, Targets, SharedOK, IsWaiting
<1>25. ASSUME NEW t \in Vcpus, BusyLockQueue(t) PROVE StatesOK'
  BY <1>0, <1>25 DEF BusyLockQueue, At, Goto, Done, shared, CpuSchedVcpuWakeup, StatesOK, StateOK, Off, Before,
     ToVcpu, Fits, CellOwned, InCell, Targets, SharedOK, IsWaiting
<1>26. ASSUME NEW t \in Vcpus, BusyWake(t) PROVE StatesOK'
  BY <1>0, <1>26 DEF BusyWake, At, Goto, Done, shared, CpuSchedVcpuWakeup, StatesOK, StateOK, Off, Before, ToVcpu,
     Fits, CellOwned, InCell, Targets, SharedOK, IsWaiting
<1>27. ASSUME NEW t \in Vcpus, BusyLockCell(t) PROVE StatesOK'
  BY <1>0, <1>27 DEF BusyLockCell, At, Goto, Done, shared, CpuSchedVcpuWakeup, StatesOK, StateOK, Off, Before,
     ToVcpu, Fits, CellOwned, InCell, Targets, SharedOK, IsWaiting
<1>28. ASSUME NEW t \in Vcpus, CpuSchedVcpuBusyWaitDone(t) PROVE StatesOK'
  BY <1>0, <1>28 DEF CpuSchedVcpuBusyWaitDone, At, Goto, Done, shared, CpuSchedVcpuWakeup, StatesOK, StateOK, Off,
     Before, ToVcpu, Fits, CellOwned, InCell, Targets, SharedOK, IsWaiting
<1> QED
  BY <1>1, <1>2, <1>3, <1>4, <1>5, <1>6, <1>7, <1>8, <1>9, <1>10, <1>11, <1>12, <1>13, <1>14, <1>15, <1>16, <1>17,
     <1>18, <1>19, <1>20, <1>21, <1>22, <1>23, <1>24, <1>25, <1>26, <1>27, <1>28 DEF Next, WakerStep, SleeperStep, Start

(* A vcpu that is woken is taken out of its bucket.                        *)
LEMMA QueueWoken ==
  ASSUME QueuesExact, SharedOK, NEW v \in Vcpus, CpuSchedVcpuWakeup(v),
         \A q \in Queues : queue'[q] = queue[q] \ {v}
  PROVE  QueuesExact'
<1>1. vcpu'[v].waitEvent = NoEvent /\ \A u \in Vcpus \ {v} : vcpu'[u] = vcpu[u]
  BY DEF CpuSchedVcpuWakeup, SharedOK
<1> QED
  BY <1>1 DEF QueuesExact

(* The event table holds those who wait, each in its bucket.               *)
LEMMA QueueStep ==
  ASSUME WaitInv, Next
  PROVE  QueuesExact'
<1> USE ConstantFacts
<1>0. SharedOK /\ pc \in [Threads -> PCs] /\ Targets /\ (\A t \in Threads : Fits(t, pc[t], tgt[t], mem[t])) /\ QueuesExact
  BY DEF WaitInv, Types, TypeOK, SharedOK, Targets
<1>1. ASSUME NEW t \in Threads, Action_Set(t) PROVE QueuesExact'
  BY <1>0, <1>1 DEF Action_Set, At, Goto, Done, shared, CpuSchedVcpuWakeup, QueuesExact, SharedOK, Fits, Before
<1>2. ASSUME NEW t \in Threads, MonitorNotify(t) PROVE QueuesExact'
  BY <1>0, <1>2 DEF MonitorNotify, At, Goto, Done, shared, CpuSchedVcpuWakeup, QueuesExact, SharedOK, Fits, Before
<1>3. ASSUME NEW t \in Threads, CpuSched_AsyncCheckActions(t) PROVE QueuesExact'
  BY <1>0, <1>3 DEF CpuSched_AsyncCheckActions, At, Goto, Done, shared, CpuSchedVcpuWakeup, QueuesExact, SharedOK,
     Fits, Before
<1>4. ASSUME NEW t \in Threads, EventLockSnapshot(t) PROVE QueuesExact'
  BY <1>0, <1>4 DEF EventLockSnapshot, At, Goto, Done, shared, CpuSchedVcpuWakeup, QueuesExact, SharedOK, Fits, Before
<1>5. ASSUME NEW t \in Threads, EventLockQueue(t) PROVE QueuesExact'
  BY <1>0, <1>5 DEF EventLockQueue, At, Goto, Done, shared, CpuSchedVcpuWakeup, QueuesExact, SharedOK, Fits, Before
<1>6. ASSUME NEW t \in Threads, ForceWakeupOrRetry(t) PROVE QueuesExact'
  <2>1. PICK v \in Vcpus : v = tgt[t]
    BY <1>0, <1>6 DEF ForceWakeupOrRetry, Fits, ToVcpu
  <2>2. CASE UNCHANGED <<queue, vcpu>>
    BY <1>0, <2>2 DEF QueuesExact
  <2>3. CASE /\ SnapshotValid(t) /\ IsWaiting(v) /\ CpuSchedVcpuWakeup(v)
             /\ queue' = [q \in Queues |-> IF q \in SnapshotQueue(t) THEN queue[q] \ {v} ELSE queue[q]]
    <3>1. SnapshotQueue(t) = {QueueOf[vcpu[v].waitEvent]}
      BY <2>1, <2>3 DEF SnapshotValid, SnapshotQueue, IsWaiting
    <3>2. \A q \in Queues : queue'[q] = queue[q] \ {v}
      BY <1>0, <2>3, <3>1 DEF QueuesExact
    <3> QED
      BY <1>0, <2>3, <3>2, QueueWoken
  <2> QED
    BY <1>6, <2>1, <2>2, <2>3 DEF ForceWakeupOrRetry
<1>7. ASSUME NEW t \in Threads, WakeupLockQueue(t) PROVE QueuesExact'
  BY <1>0, <1>7 DEF WakeupLockQueue, At, Goto, Done, shared, CpuSchedVcpuWakeup, QueuesExact, SharedOK, Fits, Before
<1>8. ASSUME NEW t \in Threads, WakeupDone(t) PROVE QueuesExact'
  BY <1>0, <1>8 DEF WakeupDone, At, Goto, Done, shared, CpuSchedVcpuWakeup, QueuesExact, SharedOK, Fits, Before
<1>9. ASSUME NEW t \in Threads, NEW v \in Vcpus, WakeupOne(t, v) PROVE QueuesExact'
  <2>1. PICK e \in Events, k \in Queues : e = tgt[t] /\ k = QueueOf[e]
    BY <1>0, <1>9 DEF WakeupOne, Fits, Before
  <2>2. vcpu[v].waitEvent = e /\ CpuSchedVcpuWakeup(v) /\ queue' = [queue EXCEPT ![k] = @ \ {v}]
    BY <1>9, <2>1 DEF WakeupOne, Matching
  <2>3. \A q \in Queues : queue'[q] = queue[q] \ {v}
    BY <1>0, <2>1, <2>2 DEF QueuesExact, SharedOK
  <2> QED
    BY <1>0, <2>2, <2>3, QueueWoken
<1>10. ASSUME NEW t \in Threads, NEW v \in Vcpus, Action_Post(t, v) PROVE QueuesExact'
  BY <1>0, <1>10 DEF Action_Post, At, Goto, Done, shared, CpuSchedVcpuWakeup, QueuesExact, SharedOK, Fits, Before
<1>11. ASSUME NEW t \in Threads, NEW v \in Vcpus, CpuSched_ForceWakeup(t, v) PROVE QueuesExact'
  BY <1>0, <1>11 DEF CpuSched_ForceWakeup, At, Goto, Done, shared, CpuSchedVcpuWakeup, QueuesExact, SharedOK,
     Fits, Before
<1>12. ASSUME NEW t \in Threads, NEW e \in Events, NEW come \in BOOLEAN, CpuSched_Wakeup(t, e, come) PROVE QueuesExact'
  BY <1>0, <1>12 DEF CpuSched_Wakeup, At, Goto, Done, shared, CpuSchedVcpuWakeup, QueuesExact, SharedOK, Fits, Before
<1>13. ASSUME NEW t \in Vcpus, NEW v \in Vcpus, MonitorPost(t, v) PROVE QueuesExact'
  BY <1>0, <1>13 DEF MonitorPost, At, Goto, Done, shared, CpuSchedVcpuWakeup, QueuesExact, SharedOK, Fits, Before
<1>14. ASSUME NEW t \in Vcpus, MonitorServe(t) PROVE QueuesExact'
  BY <1>0, <1>14 DEF MonitorServe, At, Goto, Done, shared, CpuSchedVcpuWakeup, QueuesExact, SharedOK, Fits, Before
<1>15. ASSUME NEW t \in Vcpus, NEW e \in Events, NEW m \in Masks, CpuSched_Wait(t, e, m) PROVE QueuesExact'
  BY <1>0, <1>15 DEF CpuSched_Wait, At, Goto, Done, shared, CpuSchedVcpuWakeup, QueuesExact, SharedOK, Fits, Before
<1>16. ASSUME NEW t \in Vcpus, WaitLockQueue(t) PROVE QueuesExact'
  BY <1>0, <1>16 DEF WaitLockQueue, At, Goto, Done, shared, CpuSchedVcpuWakeup, QueuesExact, SharedOK, Fits, Before
<1>17. ASSUME NEW t \in Vcpus, WaitLockCell(t) PROVE QueuesExact'
  BY <1>0, <1>17 DEF WaitLockCell, At, Goto, Done, shared, CpuSchedVcpuWakeup, QueuesExact, SharedOK, Fits, Before
<1>18. ASSUME NEW t \in Vcpus, ArmNotify(t) PROVE QueuesExact'
  BY <1>0, <1>18 DEF ArmNotify, At, Goto, Done, shared, CpuSchedVcpuWakeup, QueuesExact, SharedOK, Fits, Before
<1>19. ASSUME NEW t \in Vcpus, ArmMask(t) PROVE QueuesExact'
  BY SMTT(30), <1>0, <1>19 DEF ArmMask, At, Goto, Done, shared, CpuSchedVcpuWakeup, QueuesExact, SharedOK, Fits, Before
<1>20. ASSUME NEW t \in Vcpus, WaitInsert(t) PROVE QueuesExact'
  BY <1>0, <1>20 DEF WaitInsert, At, Goto, Done, shared, CpuSchedVcpuWakeup, QueuesExact, SharedOK, Fits, Before
<1>21. ASSUME NEW t \in Vcpus, SwitchOut(t) PROVE QueuesExact'
  BY <1>0, <1>21 DEF SwitchOut, At, Goto, Done, shared, CpuSchedVcpuWakeup, QueuesExact, SharedOK, Fits, Before
<1>22. ASSUME NEW t \in Vcpus, StartBusyWait(t) PROVE QueuesExact'
  BY <1>0, <1>22 DEF StartBusyWait, At, Goto, Done, shared, CpuSchedVcpuWakeup, QueuesExact, SharedOK, Fits, Before
<1>23. ASSUME NEW t \in Vcpus, Resume(t) PROVE QueuesExact'
  BY <1>0, <1>23 DEF Resume, At, Goto, Done, shared, CpuSchedVcpuWakeup, QueuesExact, SharedOK, Fits, Before
<1>24. ASSUME NEW t \in Vcpus, BusyWaitEnd(t) PROVE QueuesExact'
  BY <1>0, <1>24 DEF BusyWaitEnd, At, Goto, Done, shared, CpuSchedVcpuWakeup, QueuesExact, SharedOK, Fits, Before
<1>25. ASSUME NEW t \in Vcpus, BusyLockQueue(t) PROVE QueuesExact'
  BY <1>0, <1>25 DEF BusyLockQueue, At, Goto, Done, shared, CpuSchedVcpuWakeup, QueuesExact, SharedOK, Fits, Before
<1>26. ASSUME NEW t \in Vcpus, BusyWake(t) PROVE QueuesExact'
  <2>1. CASE UNCHANGED <<queue, vcpu>>
    BY <1>0, <2>1 DEF QueuesExact
  <2>2. CASE /\ t \in queue[tgt[t]] /\ CpuSchedVcpuWakeup(t)
             /\ queue' = [queue EXCEPT ![tgt[t]] = @ \ {t}]
    <3>1. tgt[t] \in Queues
      BY <1>0, <1>26 DEF BusyWake, Fits
    <3>2. \A q \in Queues : queue'[q] = queue[q] \ {t}
      BY <1>0, <2>2, <3>1 DEF QueuesExact, SharedOK
    <3> QED
      BY <1>0, <2>2, <3>2, QueueWoken
  <2> QED
    BY <1>26, <2>1, <2>2 DEF BusyWake
<1>27. ASSUME NEW t \in Vcpus, BusyLockCell(t) PROVE QueuesExact'
  BY <1>0, <1>27 DEF BusyLockCell, At, Goto, Done, shared, CpuSchedVcpuWakeup, QueuesExact, SharedOK, Fits, Before
<1>28. ASSUME NEW t \in Vcpus, CpuSchedVcpuBusyWaitDone(t) PROVE QueuesExact'
  BY <1>0, <1>28 DEF CpuSchedVcpuBusyWaitDone, At, Goto, Done, shared, CpuSchedVcpuWakeup, QueuesExact, SharedOK,
     Fits, Before
<1> QED
  BY <1>1, <1>2, <1>3, <1>4, <1>5, <1>6, <1>7, <1>8, <1>9, <1>10, <1>11, <1>12, <1>13, <1>14, <1>15, <1>16, <1>17,
     <1>18, <1>19, <1>20, <1>21, <1>22, <1>23, <1>24, <1>25, <1>26, <1>27, <1>28 DEF Next, WakerStep, SleeperStep, Start

(* What a vcpu is about to wait for does not come without the lock.        *)
LEMMA NotYetKept ==
  ASSUME NotYet, ready' = ready, NEW t \in Threads, OthersStay(t),
         pc'[t] \in Before => pc[t] \in Before /\ tgt'[t] = tgt[t]
  PROVE  NotYet'
  BY ConstantFacts DEF NotYet, OthersStay

(* Only the holder of the mutex makes an event happen, so that a vcpu that *)
(* holds it on its way to sleep is still waiting for something.            *)
LEMMA NotYetStep ==
  ASSUME WaitInv, Next
  PROVE  NotYet'
<1> USE ConstantFacts
<1>0. SharedOK /\ pc \in [Threads -> PCs] /\ Targets /\ (\A t \in Threads : Fits(t, pc[t], tgt[t], mem[t])) /\ NotYet /\ MutexOwned
  BY DEF WaitInv, Types, TypeOK, SharedOK, Targets
<1>1. ASSUME NEW t \in Threads,
             \/ Action_Set(t) \/ MonitorNotify(t) \/ CpuSched_AsyncCheckActions(t) \/ EventLockSnapshot(t)
             \/ EventLockQueue(t) \/ ForceWakeupOrRetry(t) \/ WakeupLockQueue(t) \/ WakeupDone(t)
      PROVE  NotYet'
  <2>1. ready' = ready /\ OthersStay(t)
    BY <1>0, <1>1, OthersFacts DEF Goto, Done, shared, Action_Set, MonitorNotify, CpuSched_AsyncCheckActions,
       EventLockSnapshot, EventLockQueue, ForceWakeupOrRetry, WakeupLockQueue, WakeupDone
  <2>2. pc'[t] \notin Before
    BY <1>0, <1>1 DEF At, Goto, Done, Before, Action_Set, MonitorNotify, CpuSched_AsyncCheckActions,
       EventLockSnapshot, EventLockQueue, ForceWakeupOrRetry, WakeupLockQueue, WakeupDone
  <2> QED
    BY <1>0, <2>1, <2>2, NotYetKept
<1>2. ASSUME NEW t \in Threads, NEW v \in Vcpus, Action_Post(t, v) \/ CpuSched_ForceWakeup(t, v) PROVE NotYet'
  <2>1. ready' = ready /\ OthersStay(t) /\ pc'[t] \notin Before
    BY <1>0, <1>2, OthersFacts DEF Action_Post, CpuSched_ForceWakeup, At, shared, Before
  <2> QED
    BY <1>0, <2>1, NotYetKept
<1>3. ASSUME NEW t \in Vcpus, NEW v \in Vcpus, MonitorPost(t, v) PROVE NotYet'
  <2>1. ready' = ready /\ OthersStay(t) /\ pc'[t] \notin Before
    BY <1>0, <1>3, OthersFacts DEF MonitorPost, At, Before
  <2> QED
    BY <1>0, <2>1, NotYetKept
<1>4. ASSUME NEW t \in Threads, NEW v \in Vcpus, WakeupOne(t, v) PROVE NotYet'
  BY <1>0, <1>4 DEF WakeupOne, NotYet
<1>5. ASSUME NEW t \in Vcpus,
             \/ MonitorServe(t) \/ WaitLockQueue(t) \/ WaitLockCell(t) \/ ArmNotify(t)
             \/ ArmMask(t) \/ WaitInsert(t) \/ SwitchOut(t) \/ StartBusyWait(t)
             \/ Resume(t) \/ BusyWaitEnd(t) \/ BusyLockQueue(t) \/ BusyWake(t)
             \/ BusyLockCell(t) \/ CpuSchedVcpuBusyWaitDone(t)
      PROVE  NotYet'
  <2>1. ready' = ready /\ OthersStay(t)
    BY <1>0, <1>5, OthersFacts DEF Goto, Done, shared, MonitorServe, WaitLockQueue, WaitLockCell, ArmNotify,
       ArmMask, WaitInsert, SwitchOut, StartBusyWait, Resume, BusyWaitEnd, BusyLockQueue, BusyWake, BusyLockCell, CpuSchedVcpuBusyWaitDone
  <2>2. pc'[t] \in Before => pc[t] \in Before /\ tgt'[t] = tgt[t]
    BY <1>0, <1>5 DEF At, Goto, Done, Targets, Before, MonitorServe, WaitLockQueue, WaitLockCell, ArmNotify,
       ArmMask, WaitInsert, SwitchOut, StartBusyWait, Resume, BusyWaitEnd, BusyLockQueue, BusyWake, BusyLockCell, CpuSchedVcpuBusyWaitDone
  <2> QED
    BY <1>0, <2>1, <2>2, NotYetKept
<1>6. ASSUME NEW t \in Threads, NEW e \in Events, NEW come \in BOOLEAN, CpuSched_Wakeup(t, e, come) PROVE NotYet'
  BY ZenonT(30), <1>0, <1>6 DEF CpuSched_Wakeup, At, NotYet, MutexOwned, Before, Targets, SharedOK, Fits
<1>7. ASSUME NEW t \in Vcpus, NEW e \in Events, NEW m \in Masks, CpuSched_Wait(t, e, m) PROVE NotYet'
  BY <1>0, <1>7 DEF CpuSched_Wait, At, NotYet, MutexOwned, Before, Targets, SharedOK, Fits
<1> QED
  BY <1>1, <1>2, <1>3, <1>4, <1>5, <1>6, <1>7 DEF Next, WakerStep, SleeperStep, Start

(* A vcpu that waits for what has come keeps the thread that wakes it.     *)
LEMMA EventsKept ==
  ASSUME EventsSignalled, \A e \in Events : ready'[e] => ready[e],
         \A v \in Vcpus : vcpu'[v].waitEvent \in {vcpu[v].waitEvent, NoEvent},
         NEW t \in Threads, OthersStay(t),
         pc[t] \in {"wakeQueue", "wakeLoop"} => pc'[t] \in {"wakeQueue", "wakeLoop"} /\ tgt'[t] = tgt[t]
  PROVE  EventsSignalled'
<1> SUFFICES ASSUME NEW v \in Vcpus, NEW e \in Events, vcpu'[v].waitEvent = e, ready'[e]
             PROVE  \E u \in Threads : tgt'[u] = e /\ pc'[u] \in {"wakeQueue", "wakeLoop"}
  BY DEF EventsSignalled
<1>1. vcpu[v].waitEvent = e /\ ready[e]
  BY ConstantFacts
<1>2. PICK u \in Threads : tgt[u] = e /\ pc[u] \in {"wakeQueue", "wakeLoop"}
  BY <1>1 DEF EventsSignalled
<1> QED
  BY <1>2 DEF OthersStay

(* An event that has happened finds its sleepers awake or a waker on the   *)
(* way to them.                                                            *)
LEMMA EventStep ==
  ASSUME WaitInv, Next
  PROVE  EventsSignalled'
<1> USE ConstantFacts
<1>0. SharedOK /\ pc \in [Threads -> PCs] /\ Targets /\ (\A t \in Threads : Fits(t, pc[t], tgt[t], mem[t]))
      /\ EventsSignalled /\ NotYet /\ QueuesExact
  BY DEF WaitInv, Types, TypeOK, SharedOK, Targets
<1>1. ASSUME NEW t \in Threads,
             \/ Action_Set(t) \/ MonitorNotify(t) \/ CpuSched_AsyncCheckActions(t) \/ EventLockSnapshot(t)
             \/ EventLockQueue(t)
      PROVE  EventsSignalled'
  <2>1. ready' = ready /\ vcpu' = vcpu /\ OthersStay(t) /\ pc[t] \notin {"wakeQueue", "wakeLoop"}
    BY <1>0, <1>1, OthersFacts DEF Goto, Done, shared, Action_Set, MonitorNotify, CpuSched_AsyncCheckActions,
       EventLockSnapshot, EventLockQueue
  <2> QED
    BY <1>0, <2>1, EventsKept
<1>2. ASSUME NEW t \in Threads, NEW v \in Vcpus, Action_Post(t, v) \/ CpuSched_ForceWakeup(t, v) PROVE EventsSignalled'
  <2>1. ready' = ready /\ vcpu' = vcpu /\ OthersStay(t) /\ pc[t] \notin {"wakeQueue", "wakeLoop"}
    BY <1>0, <1>2, OthersFacts DEF Action_Post, CpuSched_ForceWakeup, shared
  <2> QED
    BY <1>0, <2>1, EventsKept
<1>3. ASSUME NEW t \in Vcpus, NEW v \in Vcpus, MonitorPost(t, v) PROVE EventsSignalled'
  <2>1. ready' = ready /\ vcpu' = vcpu /\ OthersStay(t) /\ pc[t] \notin {"wakeQueue", "wakeLoop"}
    BY <1>0, <1>3, OthersFacts DEF MonitorPost
  <2> QED
    BY <1>0, <2>1, EventsKept
<1>4. ASSUME NEW t \in Vcpus,
             \/ MonitorServe(t) \/ WaitLockQueue(t) \/ WaitLockCell(t) \/ ArmNotify(t)
             \/ SwitchOut(t) \/ BusyWaitEnd(t) \/ BusyLockQueue(t) \/ BusyLockCell(t)
      PROVE  EventsSignalled'
  <2>1. ready' = ready /\ vcpu' = vcpu /\ OthersStay(t) /\ pc[t] \notin {"wakeQueue", "wakeLoop"}
    BY <1>0, <1>4, OthersFacts DEF Goto, Done, shared, MonitorServe, WaitLockQueue, WaitLockCell, ArmNotify,
       SwitchOut, BusyWaitEnd, BusyLockQueue, BusyLockCell
  <2> QED
    BY <1>0, <2>1, EventsKept
<1>5. ASSUME NEW t \in Vcpus, ArmMask(t) \/ StartBusyWait(t) \/ Resume(t) \/ CpuSchedVcpuBusyWaitDone(t)
      PROVE  EventsSignalled'
  <2>1. ready' = ready /\ OthersStay(t) /\ pc[t] \notin {"wakeQueue", "wakeLoop"}
    BY <1>0, <1>5, OthersFacts DEF Goto, Done, ArmMask, StartBusyWait, Resume, CpuSchedVcpuBusyWaitDone
  <2>2. \A v \in Vcpus : vcpu'[v].waitEvent = vcpu[v].waitEvent
    <3>1. CASE ArmMask(t)
      <4>1. PICK k : vcpu' = [vcpu EXCEPT ![t].mask = k]
        BY <3>1 DEF ArmMask
      <4> QED
        BY <1>0, <4>1 DEF SharedOK
    <3>2. CASE StartBusyWait(t) \/ Resume(t) \/ CpuSchedVcpuBusyWaitDone(t)
      <4>1. PICK r : vcpu' = [vcpu EXCEPT ![t].runState = r]
        BY <3>2 DEF StartBusyWait, Resume, CpuSchedVcpuBusyWaitDone
      <4> QED
        BY <1>0, <4>1 DEF SharedOK
    <3> QED
      BY <1>5, <3>1, <3>2
  <2> QED
    BY <1>0, <2>1, <2>2, EventsKept
<1>6. ASSUME NEW v \in Vcpus, CpuSchedVcpuWakeup(v)
      PROVE  \A u \in Vcpus : vcpu'[u].waitEvent \in {vcpu[u].waitEvent, NoEvent}
  BY <1>0, <1>6 DEF CpuSchedVcpuWakeup, SharedOK
<1>7. ASSUME NEW t \in Threads, ForceWakeupOrRetry(t) PROVE EventsSignalled'
  <2>1. ready' = ready /\ OthersStay(t) /\ pc[t] \notin {"wakeQueue", "wakeLoop"} /\ tgt[t] \in Vcpus
    BY <1>0, <1>7, OthersFacts DEF ForceWakeupOrRetry, Done, Fits, ToVcpu
  <2>2. \A u \in Vcpus : vcpu'[u].waitEvent \in {vcpu[u].waitEvent, NoEvent}
    BY <1>6, <1>7, <2>1 DEF ForceWakeupOrRetry
  <2> QED
    BY <1>0, <2>1, <2>2, EventsKept
<1>8. ASSUME NEW t \in Threads, NEW v \in Vcpus, WakeupOne(t, v) PROVE EventsSignalled'
  <2>1. ready' = ready /\ OthersStay(t) /\ UNCHANGED <<pc, tgt, mem>> /\ CpuSchedVcpuWakeup(v)
    BY <1>8 DEF WakeupOne, OthersStay
  <2> QED
    BY <1>0, <1>6, <2>1, EventsKept
<1>9. ASSUME NEW t \in Vcpus, BusyWake(t) PROVE EventsSignalled'
  <2>1. ready' = ready /\ OthersStay(t) /\ pc[t] \notin {"wakeQueue", "wakeLoop"}
    BY <1>0, <1>9, OthersFacts DEF BusyWake
  <2>2. \A u \in Vcpus : vcpu'[u].waitEvent \in {vcpu[u].waitEvent, NoEvent}
    BY <1>6, <1>9 DEF BusyWake
  <2> QED
    BY <1>0, <2>1, <2>2, EventsKept
<1>10. ASSUME NEW t \in Threads, WakeupLockQueue(t) PROVE EventsSignalled'
  <2>1. ready' = ready /\ vcpu' = vcpu /\ OthersStay(t)
    BY <1>0, <1>10, OthersFacts DEF WakeupLockQueue, Goto
  <2>2. pc'[t] = "wakeLoop" /\ tgt'[t] = tgt[t]
    BY <1>0, <1>10 DEF WakeupLockQueue, Goto, At, Targets
  <2> QED
    BY <1>0, <2>1, <2>2, EventsKept
<1>11. ASSUME NEW t \in Threads, WakeupDone(t) PROVE EventsSignalled'
  <2>1. PICK f \in Events : f = tgt[t]
    BY <1>0, <1>11 DEF WakeupDone, Fits
  <2>2. ready' = ready /\ vcpu' = vcpu /\ OthersStay(t)
    BY <1>0, <1>11, OthersFacts DEF WakeupDone, Done
  <2>3. \A v \in Vcpus : vcpu[v].waitEvent # f
    BY <1>0, <1>11, <2>1 DEF WakeupDone, Matching, QueuesExact
  <2> SUFFICES ASSUME NEW v \in Vcpus, NEW e \in Events, vcpu[v].waitEvent = e, ready[e]
               PROVE  \E u \in Threads : tgt'[u] = e /\ pc'[u] \in {"wakeQueue", "wakeLoop"}
    BY <2>2 DEF EventsSignalled
  <2>4. PICK u \in Threads : tgt[u] = e /\ pc[u] \in {"wakeQueue", "wakeLoop"}
    BY <1>0 DEF EventsSignalled
  <2> QED
    BY <2>1, <2>2, <2>3, <2>4 DEF OthersStay
<1>12. ASSUME NEW t \in Threads, NEW e \in Events, NEW come \in BOOLEAN, CpuSched_Wakeup(t, e, come)
       PROVE  EventsSignalled'
  <2>1. vcpu' = vcpu /\ OthersStay(t) /\ pc[t] = "run" /\ pc'[t] = "wakeQueue" /\ tgt'[t] = e
    BY <1>0, <1>12, OthersFacts DEF CpuSched_Wakeup, At, Targets
  <2>2. \A f \in Events \ {e} : ready'[f] = ready[f]
    BY <1>0, <1>12 DEF CpuSched_Wakeup, SharedOK
  <2> SUFFICES ASSUME NEW v \in Vcpus, NEW f \in Events, vcpu[v].waitEvent = f, ready'[f], f # e
               PROVE  \E u \in Threads : tgt'[u] = f /\ pc'[u] \in {"wakeQueue", "wakeLoop"}
    BY <2>1 DEF EventsSignalled
  <2>3. PICK u \in Threads : tgt[u] = f /\ pc[u] \in {"wakeQueue", "wakeLoop"}
    BY <1>0, <2>2 DEF EventsSignalled
  <2> QED
    BY <2>1, <2>3 DEF OthersStay
<1>13. ASSUME NEW t \in Vcpus, NEW e \in Events, NEW m \in Masks, CpuSched_Wait(t, e, m)
       PROVE  EventsSignalled'
  <2>1. vcpu' = vcpu /\ OthersStay(t) /\ pc[t] = "run"
    BY <1>0, <1>13, OthersFacts DEF CpuSched_Wait, OthersStay
  <2>2. \A f \in Events : ready'[f] => ready[f]
    BY <1>0, <1>13 DEF CpuSched_Wait, SharedOK
  <2> QED
    BY <1>0, <2>1, <2>2, EventsKept
<1>14. ASSUME NEW t \in Vcpus, WaitInsert(t) PROVE EventsSignalled'
  <2>1. PICK f \in Events : f = tgt[t]
    BY <1>0, <1>14 DEF WaitInsert, Fits, Before
  <2>2. ready' = ready /\ OthersStay(t) /\ pc[t] = "insert" /\ ~ready[f]
    BY <1>0, <1>14, <2>1, OthersFacts DEF WaitInsert, NotYet, Before
  <2>3. \A v \in Vcpus : vcpu'[v].waitEvent \in {vcpu[v].waitEvent, f}
    BY <1>0, <1>14, <2>1 DEF WaitInsert, SharedOK
  <2> SUFFICES ASSUME NEW v \in Vcpus, NEW e \in Events, vcpu'[v].waitEvent = e, ready[e]
               PROVE  \E u \in Threads : tgt'[u] = e /\ pc'[u] \in {"wakeQueue", "wakeLoop"}
    BY <2>2 DEF EventsSignalled
  <2>4. PICK u \in Threads : tgt[u] = e /\ pc[u] \in {"wakeQueue", "wakeLoop"}
    BY <1>0, <2>2, <2>3 DEF EventsSignalled
  <2> QED
    BY <2>2, <2>4 DEF OthersStay
<1> QED
  BY <1>1, <1>2, <1>3, <1>4, <1>5, <1>7, <1>8, <1>9, <1>10, <1>11, <1>12, <1>13, <1>14
     DEF Next, WakerStep, SleeperStep, Start

(* Everybody runs at first.                                                *)
LEMMA InitWait == Init => ActionInv
<1> SUFFICES ASSUME Init PROVE ActionInv
  OBVIOUS
<1> USE ConstantFacts
<1>1. TypeOK
  BY DEF Init, TypeOK, RunStates, Statuses, PCs
<1>2. Targets
  BY DEF Init, Targets, Fits, ToVcpu, Before, Off
<1>3. CellOwned /\ MutexOwned /\ QueuesOwned
  BY DEF Init, CellOwned, MutexOwned, QueuesOwned, InCell, Before
<1>4. StatesOK /\ QueuesExact /\ NotYet /\ EventsSignalled /\ VectorSeen
  BY DEF Init, StatesOK, StateOK, QueuesExact, NotYet, EventsSignalled, VectorSeen, Off, Before
<1>5. Hinted /\ ActionsDue
  BY DEF Init, Hinted, HintOK, ActionsDue, Due, Settled, Asleep
<1> QED
  BY <1>1, <1>2, <1>3, <1>4, <1>5 DEF ActionInv, WaitInv, Types

(* Every step keeps what is known of events, locks and run states.         *)
LEMMA NextWait ==
  ASSUME WaitInv, [Next]_vars
  PROVE  WaitInv'
<1>1. CASE UNCHANGED vars
  <2>1. Types'
    BY <1>1 DEF vars, WaitInv, Types, TypeOK, Targets
  <2>2. CellOwned' /\ MutexOwned' /\ QueuesOwned'
    BY <1>1 DEF vars, WaitInv, CellOwned, MutexOwned, QueuesOwned
  <2>3. StatesOK' /\ QueuesExact'
    BY <1>1 DEF vars, WaitInv, StatesOK, StateOK, QueuesExact
  <2>4. NotYet' /\ EventsSignalled' /\ VectorSeen'
    BY <1>1 DEF vars, WaitInv, NotYet, EventsSignalled, VectorSeen
  <2> QED
    BY <2>1, <2>2, <2>3, <2>4 DEF WaitInv
<1>2. CASE Next
  <2>1. Types
    BY DEF WaitInv
  <2> QED
    BY <1>2, <2>1, TypesStep, CellStep, MutexStep, QlockStep, StateStep, QueueStep, NotYetStep, EventStep,
       VectorStep DEF WaitInv
<1> QED
  BY <1>1, <1>2

(* Going to sleep and waking keep the invariant, from the start on.        *)
LEMMA WaitInvariant == Spec => []WaitInv
<1>1. Init => WaitInv
  BY InitWait DEF ActionInv
<1>2. WaitInv /\ [Next]_vars => WaitInv'
  BY NextWait
<1> QED
  BY <1>1, <1>2, PTL DEF Spec

(* While a vcpu waits for what has come, CpuSched_Wakeup is running for    *)
(* it and will find it in the bucket of its event: CpuSchedWait releases   *)
(* the caller's lock only after EventQueue_Insert.                         *)
THEOREM EventsNotLost == Spec => []NoLostEvent
<1>1. WaitInv => NoLostEvent
  BY DEF WaitInv, Types, EventsSignalled, NoLostEvent
<1> QED
  BY <1>1, WaitInvariant, PTL

(* An action that Action_Post has put into the vector is seen: its bit in  *)
(* the status is set, is about to be set, or is being served.              *)
THEOREM ActionsSeen == Spec => []VectorSeen
<1>1. WaitInv => VectorSeen
  BY DEF WaitInv
<1> QED
  BY <1>1, WaitInvariant, PTL

(* Sleepers, wakers and busy-waiters, which take the lock of a bucket      *)
(* before the cell lock, do not wait for each other in a circle.           *)
THEOREM NoDeadlock == Spec => []NoLockCycle
<1>1. WaitInv => NoLockCycle
  <2> SUFFICES ASSUME WaitInv, NEW S \in SUBSET Threads, S # {}
               PROVE  \E t \in S : BlockedBy(t) \cap S = {}
    BY DEF NoLockCycle
  <2> USE ConstantFacts
  <2>1. cell \in Vcpus \cup {Nobody} /\ CellOwned /\ QueuesOwned
    BY DEF WaitInv, Types, TypeOK
  <2>2. CASE cell \in S
    <3>1. pc[cell] \in InCell
      BY <2>1, <2>2 DEF CellOwned
    <3>2. BlockedBy(cell) = {}
      BY <3>1 DEF BlockedBy, InCell
    <3> QED
      BY <2>2, <3>2
  <2>3. CASE cell \notin S /\ \E t \in S : \E q \in Queues : qlock[q] = t
    <3>1. PICK t \in S, q \in Queues : qlock[q] = t
      BY <2>3
    <3>2. pc[t] \in {"wakeLoop", "waitCell", "arm", "mask", "insert", "busyWake", "forceAct"}
      BY <2>1, <3>1 DEF QueuesOwned
    <3>3. BlockedBy(t) \in {{cell}, {}}
      BY <3>2 DEF BlockedBy
    <3> QED
      BY <2>3, <3>3
  <2>4. CASE cell \notin S /\ \A q \in Queues : qlock[q] \notin S
    <3>1. PICK t \in S : TRUE
      OBVIOUS
    <3>2. BlockedBy(t) \subseteq {cell} \cup {qlock[q] : q \in Queues}
      <4>1. Fits(t, pc[t], tgt[t], mem[t]) /\ (t \in Vcpus => vcpu[t].waitEvent \in Events \cup {NoEvent})
        BY DEF WaitInv, Types, TypeOK, Targets
      <4>2. CASE pc[t] \in {"waitQueue", "wakeQueue"}
        BY <4>1, <4>2 DEF BlockedBy, Fits, Before
      <4>3. CASE pc[t] = "forceQueue"
        <5>1. SnapshotQueue(t) \subseteq Queues
          BY <4>1, <4>3 DEF SnapshotQueue, Fits
        <5> QED
          BY <4>3, <5>1 DEF BlockedBy
      <4>4. CASE pc[t] = "busyQueue"
        BY <4>1, <4>4 DEF BlockedBy, Fits, Off
      <4>5. CASE pc[t] \in {"waitCell", "forceAct", "wakeLoop", "busyWake", "busyCell"}
        BY <4>5 DEF BlockedBy
      <4>6. CASE pc[t] \notin {"waitQueue", "wakeQueue", "forceQueue", "busyQueue", "waitCell", "forceAct",
                               "wakeLoop", "busyWake", "busyCell"}
        BY <4>6 DEF BlockedBy
      <4> QED
        BY <4>2, <4>3, <4>4, <4>5, <4>6
    <3> QED
      BY <2>4, <3>1, <3>2
  <2> QED
    BY <2>2, <2>3, <2>4
<1> QED
  BY <1>1, WaitInvariant, PTL

-------------------------------------------------------------------------------
(* The hint is as it was where neither it, nor a vcpu that waits or is     *)
(* about to, has changed.                                                  *)
LEMMA HintKept ==
  ASSUME Hinted, NEW t \in Threads, OthersStay(t), vcpu' = vcpu, hint' = hint,
         pc'[t] \notin {"mask", "insert", "dispatch", "asleep"}
  PROVE  Hinted'
<1> SUFFICES ASSUME NEW v \in Vcpus PROVE HintOK(v)'
  BY DEF Hinted
<1>1. CASE v = t
  BY <1>1 DEF HintOK, Settled, Asleep
<1>2. CASE v # t
  <2>1. pc'[v] = pc[v] /\ mem'[v] = mem[v]
    BY <1>2, ConstantFacts DEF OthersStay
  <2> QED
    BY <2>1 DEF Hinted, HintOK, Settled, Asleep
<1> QED
  BY <1>1, <1>2

(* The same for the vcpus other than the one a step is about.              *)
LEMMA HintOther ==
  ASSUME Hinted, NEW t \in Threads, OthersStay(t), NEW v \in Vcpus, v # t,
         vcpu'[v] = vcpu[v], hint'[v] = hint[v]
  PROVE  HintOK(v)'
<1>1. pc'[v] = pc[v] /\ mem'[v] = mem[v]
  BY ConstantFacts DEF OthersStay
<1> QED
  BY <1>1 DEF Hinted, HintOK, Settled, Asleep

(* A wakeup takes the hint and the mask together.                          *)
LEMMA HintWoken ==
  ASSUME Hinted, StatesOK, CellOwned, SharedOK, cell = Nobody, NEW v \in Vcpus, IsWaiting(v),
         CpuSchedVcpuWakeup(v), NEW t \in Threads, OthersStay(t),
         pc'[t] \notin {"mask", "insert", "dispatch", "asleep"}
  PROVE  Hinted'
<1> USE ConstantFacts
<1>1. pc[v] \in {"asleep", "busy", "busyQueue", "busyWake", "busyCell"}
  BY DEF StatesOK, StateOK, IsWaiting, CellOwned, InCell, Off
<1>2. vcpu'[v].mask = {} /\ \A u \in Vcpus \ {v} : vcpu'[u] = vcpu[u] /\ hint'[u] = hint[u]
  BY DEF CpuSchedVcpuWakeup, SharedOK
<1>3. HintOK(v)'
  BY <1>1, <1>2 DEF HintOK, OthersStay
<1>4. ASSUME NEW u \in Vcpus \ {v}, u # t PROVE HintOK(u)'
  BY <1>2, <1>4, HintOther
<1>5. t \in Vcpus => HintOK(t)'
  BY DEF HintOK, Settled, Asleep
<1> QED
  BY <1>3, <1>4, <1>5 DEF Hinted

(* The notification hint is on whenever a vcpu with a mask sleeps off the  *)
(* processor, or is about to.                                              *)
LEMMA HintStep ==
  ASSUME ActionInv, Next
  PROVE  Hinted'
<1> USE ConstantFacts
<1>0. SharedOK /\ pc \in [Threads -> PCs] /\ Targets /\ (\A t \in Threads : Fits(t, pc[t], tgt[t], mem[t]))
      /\ StatesOK /\ CellOwned /\ QueuesExact /\ Hinted
  BY DEF ActionInv, WaitInv, Types, TypeOK, SharedOK, Targets
<1>1. ASSUME NEW t \in Threads,
             \/ Action_Set(t) \/ MonitorNotify(t) \/ CpuSched_AsyncCheckActions(t) \/ EventLockSnapshot(t)
             \/ EventLockQueue(t) \/ WakeupLockQueue(t) \/ WakeupDone(t)
      PROVE  Hinted'
  <2>1. vcpu' = vcpu /\ hint' = hint /\ OthersStay(t)
    BY <1>0, <1>1, OthersFacts DEF Goto, Done, shared, Action_Set, MonitorNotify, CpuSched_AsyncCheckActions,
       EventLockSnapshot, EventLockQueue, WakeupLockQueue, WakeupDone
  <2>2. pc'[t] \notin {"mask", "insert", "dispatch", "asleep"}
    BY <1>0, <1>1 DEF At, Goto, Done, Action_Set, MonitorNotify, CpuSched_AsyncCheckActions,
       EventLockSnapshot, EventLockQueue, WakeupLockQueue, WakeupDone
  <2> QED
    BY <1>0, <2>1, <2>2, HintKept
<1>2. ASSUME NEW t \in Threads, NEW v \in Vcpus, Action_Post(t, v) \/ CpuSched_ForceWakeup(t, v) PROVE Hinted'
  <2>1. vcpu' = vcpu /\ hint' = hint /\ OthersStay(t)
    BY <1>0, <1>2, OthersFacts DEF Action_Post, CpuSched_ForceWakeup, shared
  <2>2. pc'[t] \notin {"mask", "insert", "dispatch", "asleep"}
    BY <1>0, <1>2 DEF At, Action_Post, CpuSched_ForceWakeup
  <2> QED
    BY <1>0, <2>1, <2>2, HintKept
<1>3. ASSUME NEW t \in Threads, NEW e \in Events, NEW come \in BOOLEAN, CpuSched_Wakeup(t, e, come) PROVE Hinted'
  <2>1. vcpu' = vcpu /\ hint' = hint /\ OthersStay(t)
    BY <1>0, <1>3, OthersFacts DEF CpuSched_Wakeup
  <2>2. pc'[t] \notin {"mask", "insert", "dispatch", "asleep"}
    BY <1>0, <1>3 DEF At, CpuSched_Wakeup
  <2> QED
    BY <1>0, <2>1, <2>2, HintKept
<1>4. ASSUME NEW t \in Vcpus, NEW v \in Vcpus, MonitorPost(t, v) PROVE Hinted'
  <2>1. vcpu' = vcpu /\ hint' = hint /\ OthersStay(t)
    BY <1>0, <1>4, OthersFacts DEF MonitorPost
  <2>2. pc'[t] \notin {"mask", "insert", "dispatch", "asleep"}
    BY <1>0, <1>4 DEF At, MonitorPost
  <2> QED
    BY <1>0, <2>1, <2>2, HintKept
<1>5. ASSUME NEW t \in Vcpus,
             \/ MonitorServe(t) \/ WaitLockQueue(t) \/ WaitLockCell(t) \/ BusyWaitEnd(t) \/ BusyLockQueue(t)
             \/ BusyLockCell(t)
      PROVE  Hinted'
  <2>1. vcpu' = vcpu /\ hint' = hint /\ OthersStay(t)
    BY <1>0, <1>5, OthersFacts DEF Goto, Done, shared, MonitorServe, WaitLockQueue, WaitLockCell, BusyWaitEnd,
       BusyLockQueue, BusyLockCell
  <2>2. pc'[t] \notin {"mask", "insert", "dispatch", "asleep"}
    BY <1>0, <1>5 DEF At, Goto, Done, MonitorServe, WaitLockQueue, WaitLockCell, BusyWaitEnd, BusyLockQueue,
       BusyLockCell
  <2> QED
    BY <1>0, <2>1, <2>2, HintKept
<1>6. ASSUME NEW t \in Vcpus, NEW e \in Events, NEW m \in Masks, CpuSched_Wait(t, e, m) PROVE Hinted'
  <2>1. vcpu' = vcpu /\ hint' = hint /\ OthersStay(t)
    BY <1>0, <1>6, OthersFacts DEF CpuSched_Wait, OthersStay
  <2>2. pc'[t] \notin {"mask", "insert", "dispatch", "asleep"}
    BY <1>0, <1>6 DEF At, CpuSched_Wait
  <2> QED
    BY <1>0, <2>1, <2>2, HintKept
<1>7. ASSUME NEW t \in Vcpus, ArmNotify(t) PROVE Hinted'
  <2>1. OthersStay(t) /\ \A u \in Vcpus \ {t} : vcpu'[u] = vcpu[u] /\ hint'[u] = hint[u]
    BY <1>0, <1>7, OthersFacts DEF ArmNotify, Goto, SharedOK
  <2>2. HintOK(t)'
    BY <1>0, <1>7 DEF ArmNotify, Goto, At, Targets, SharedOK, HintOK, Settled, Asleep
  <2> QED
    BY <1>0, <2>1, <2>2, HintOther DEF Hinted
<1>8. ASSUME NEW t \in Vcpus, ArmMask(t) PROVE Hinted'
  <2>1. OthersStay(t)
    BY <1>0, <1>8, OthersFacts DEF ArmMask, Goto, Done
  <2>2. PICK k : vcpu' = [vcpu EXCEPT ![t].mask = k]
    BY <1>8 DEF ArmMask
  <2>3. \A u \in Vcpus \ {t} : vcpu'[u] = vcpu[u] /\ hint'[u] = hint[u]
    BY <1>0, <1>8, <2>2 DEF ArmMask, SharedOK
  <2>4. ASSUME pc'[t] = "insert" PROVE HintOK(t)'
    <3>1. vcpu'[t].mask = mem[t] /\ hint'[t] = hint[t] /\ mem'[t] = mem[t] /\ pc[t] = "mask"
      BY <1>0, <1>8, <2>4 DEF ArmMask, Goto, Done, At, Targets, SharedOK
    <3> QED
      BY <1>0, <2>4, <3>1 DEF Hinted, HintOK, Settled, Asleep
  <2>5. pc'[t] \in {"insert", "run"}
    BY <1>0, <1>8 DEF ArmMask, Goto, Done, At
  <2>6. HintOK(t)'
    BY <1>0, <2>4, <2>5 DEF HintOK, Settled, Asleep
  <2> QED
    BY <1>0, <2>1, <2>3, <2>6, HintOther DEF Hinted
<1>9. ASSUME NEW t \in Vcpus, WaitInsert(t) PROVE Hinted'
  <2>1. OthersStay(t) /\ pc[t] = "insert" /\ pc'[t] = "dispatch" /\ hint' = hint
    BY <1>0, <1>9, OthersFacts DEF WaitInsert, At
  <2>2. vcpu'[t].mask = vcpu[t].mask /\ \A u \in Vcpus \ {t} : vcpu'[u] = vcpu[u]
    BY <1>0, <1>9 DEF WaitInsert, SharedOK
  <2>3. HintOK(t)'
    BY <1>0, <2>1, <2>2 DEF Hinted, HintOK, Settled
  <2> QED
    BY <1>0, <2>1, <2>2, <2>3, HintOther DEF Hinted
<1>10. ASSUME NEW t \in Vcpus, SwitchOut(t) PROVE Hinted'
  <2>1. OthersStay(t) /\ pc[t] = "dispatch" /\ pc'[t] = "asleep" /\ hint' = hint /\ vcpu' = vcpu
    BY <1>0, <1>10, OthersFacts DEF SwitchOut, Goto, At
  <2>2. HintOK(t)'
    BY <1>0, <2>1 DEF Hinted, HintOK, Settled
  <2> QED
    BY <1>0, <2>1, <2>2, HintOther DEF Hinted
<1>11. ASSUME NEW t \in Vcpus, StartBusyWait(t) \/ Resume(t) PROVE Hinted'
  <2>1. OthersStay(t) /\ pc'[t] \in {"busy", "run"}
    BY <1>0, <1>11, OthersFacts DEF StartBusyWait, Resume, Goto, Done, At
  <2>2. \A u \in Vcpus \ {t} : vcpu'[u] = vcpu[u] /\ hint'[u] = hint[u]
    BY <1>0, <1>11 DEF StartBusyWait, Resume, SharedOK
  <2>3. HintOK(t)'
    BY <2>1 DEF HintOK, Settled, Asleep
  <2> QED
    BY <1>0, <2>1, <2>2, <2>3, HintOther DEF Hinted
<1>12. ASSUME NEW t \in Vcpus, CpuSchedVcpuBusyWaitDone(t) PROVE Hinted'
  <2>1. OthersStay(t) /\ pc'[t] \in {"dispatch", "run"}
    BY <1>0, <1>12, OthersFacts DEF CpuSchedVcpuBusyWaitDone, Goto, Done, At
  <2>2. PICK r : vcpu' = [vcpu EXCEPT ![t].runState = r]
    BY <1>12 DEF CpuSchedVcpuBusyWaitDone
  <2>3. vcpu'[t].mask = vcpu[t].mask /\ \A u \in Vcpus \ {t} : vcpu'[u] = vcpu[u]
    BY <1>0, <2>2 DEF SharedOK
  <2>4. \A u \in Vcpus \ {t} : hint'[u] = hint[u]
    BY <1>0, <1>12 DEF CpuSchedVcpuBusyWaitDone, SharedOK
  <2>5. pc'[t] = "dispatch" => hint' = [hint EXCEPT ![t] = @ \/ vcpu[t].mask # {}]
    BY <1>0, <1>12 DEF CpuSchedVcpuBusyWaitDone, Goto, Done, At
  <2>6. HintOK(t)'
    BY <1>0, <2>1, <2>3, <2>5 DEF HintOK, Settled, Asleep, SharedOK
  <2> QED
    BY <1>0, <2>1, <2>3, <2>4, <2>6, HintOther DEF Hinted
<1>13. ASSUME NEW t \in Threads, ForceWakeupOrRetry(t) PROVE Hinted'
  <2>1. PICK v \in Vcpus : v = tgt[t]
    BY <1>0, <1>13 DEF ForceWakeupOrRetry, Fits, ToVcpu
  <2>2. cell = Nobody /\ pc'[t] \notin {"mask", "insert", "dispatch", "asleep"} /\ OthersStay(t)
    BY <1>0, <1>13, OthersFacts DEF ForceWakeupOrRetry, At, Done
  <2>3. CASE UNCHANGED <<vcpu, hint>>
    BY <1>0, <2>2, <2>3, HintKept
  <2>4. CASE CpuSchedVcpuWakeup(v) /\ IsWaiting(v)
    BY <1>0, <2>2, <2>4, HintWoken
  <2> QED
    BY <1>13, <2>1, <2>3, <2>4 DEF ForceWakeupOrRetry
<1>14. ASSUME NEW t \in Threads, NEW v \in Vcpus, WakeupOne(t, v) PROVE Hinted'
  <2>1. cell = Nobody /\ pc'[t] = "wakeLoop" /\ CpuSchedVcpuWakeup(v) /\ OthersStay(t)
    BY <1>14 DEF WakeupOne, OthersStay
  <2>2. vcpu[v].waitEvent # NoEvent
    BY <1>0, <1>14 DEF WakeupOne, Matching, Fits, Before
  <2>3. IsWaiting(v)
    BY <1>0, <2>2 DEF StatesOK, StateOK, IsWaiting, Off
  <2> QED
    BY <1>0, <2>1, <2>3, HintWoken
<1>15. ASSUME NEW t \in Vcpus, BusyWake(t) PROVE Hinted'
  <2>1. cell = Nobody /\ pc[t] = "busyWake" /\ pc'[t] = "handback" /\ OthersStay(t)
    BY <1>0, <1>15, OthersFacts DEF BusyWake, At
  <2>2. IsWaiting(t)
    BY <1>0, <2>1 DEF StatesOK, StateOK, IsWaiting
  <2>3. CASE UNCHANGED <<vcpu, hint>>
    BY <1>0, <2>1, <2>3, HintKept
  <2>4. CASE CpuSchedVcpuWakeup(t)
    BY <1>0, <2>1, <2>2, <2>4, HintWoken
  <2> QED
    BY <1>15, <2>3, <2>4 DEF BusyWake
<1> QED
  BY <1>1, <1>2, <1>3, <1>4, <1>5, <1>6, <1>7, <1>8, <1>9, <1>10, <1>11, <1>12, <1>13, <1>14, <1>15
     DEF Next, WakerStep, SleeperStep, Start

-------------------------------------------------------------------------------
(* Nothing is due for a vcpu that is not in a wait, or looks by itself.    *)
LEMMA DueElsewhere ==
  ASSUME NEW v, pc'[v] \notin {"insert", "dispatch", "asleep", "busyCell", "handback", "busyWake"}
  PROVE  Due(v)'
  BY DEF Due, Settled, Asleep

(* Who comes for a vcpu keeps coming, as long as he does not give up.      *)
LEMMA DueOther ==
  ASSUME ActionsDue, NEW t \in Threads, OthersStay(t), NEW v \in Vcpus, v # t,
         vcpu'[v] = vcpu[v], status'[v] = status[v],
         Rescues(t, v) => Rescues(t, v)', Comes(t, v) => Comes(t, v)'
  PROVE  Due(v)'
<1>1. pc'[v] = pc[v] /\ tgt'[v] = tgt[v] /\ Due(v)
  BY ConstantFacts DEF OthersStay, ActionsDue
<1>2. (\E u \in Threads : Rescues(u, v)) => \E u \in Threads : Rescues(u, v)'
  BY DEF Rescues, OthersStay
<1>3. (\E u \in Threads : Comes(u, v)) => \E u \in Threads : Comes(u, v)'
  BY DEF Comes, OthersStay
<1>4. /\ Settled(v)' <=> Settled(v)
      /\ PendingInMask(v, vcpu[v].mask)' <=> PendingInMask(v, vcpu[v].mask)
  BY <1>1 DEF Settled, Asleep, PendingInMask
<1> QED
  BY <1>1, <1>2, <1>3, <1>4 DEF Due

(* A step of a thread that is not on its way to a vcpu disturbs only its   *)
(* own.                                                                    *)
LEMMA DueOwn ==
  ASSUME ActionsDue, NEW t \in Threads, OthersStay(t),
         \A v \in Vcpus \ {t} : vcpu'[v] = vcpu[v] /\ status'[v] = status[v],
         pc[t] \notin {"readHint", "check", "force", "forceEvent", "forceQueue", "forceAct"},
         t \in Vcpus => Due(t)'
  PROVE  ActionsDue'
<1> SUFFICES ASSUME NEW v \in Vcpus, v # t PROVE Due(v)'
  BY DEF ActionsDue
<1>1. ~Rescues(t, v) /\ ~Comes(t, v)
  BY DEF Rescues, Comes
<1> QED
  BY <1>1, DueOther

(* A vcpu with an action pending that is not looking by itself is being    *)
(* woken.                                                                  *)
LEMMA DueStep ==
  ASSUME OpenWindows = {}, ActionInv, Next
  PROVE  ActionsDue'
<1> USE ConstantFacts
<1>0. SharedOK /\ pc \in [Threads -> PCs] /\ Targets /\ (\A t \in Threads : Fits(t, pc[t], tgt[t], mem[t]))
      /\ StatesOK /\ CellOwned /\ QueuesExact /\ Hinted /\ ActionsDue
  BY DEF ActionInv, WaitInv, Types, TypeOK, SharedOK, Targets
<1>1. ASSUME NEW t \in Threads, Action_Set(t) PROVE ActionsDue'
  <2>1. PICK v \in Vcpus : v = tgt[t]
    BY <1>0, <1>1 DEF Action_Set, Fits, ToVcpu
  <2>2. OthersStay(t) /\ vcpu' = vcpu /\ pc[t] \in {"setVector", "setStatus"}
    BY <1>0, <1>1, OthersFacts DEF Action_Set, Goto, Done
  <2>3. pc'[t] \in {"setStatus", "run", "check"}
    BY <1>0, <1>1 DEF Action_Set, Goto, Done, At
  <2>4. \A u \in Vcpus \ {v} : status'[u] = status[u]
    BY <1>0, <1>1, <2>1 DEF Action_Set, SharedOK
  <2>5. status' = status \/ v = t \/ (tgt'[t] = v /\ pc'[t] = "check")
    BY <1>0, <1>1, <2>1 DEF Action_Set, Goto, At, Targets
  <2>6. t \in Vcpus => Due(t)'
    BY <2>3, DueElsewhere
  <2>7. CASE status' = status
    BY <1>0, <2>2, <2>6, <2>7, DueOwn
  <2>8. CASE v = t
    BY <1>0, <2>2, <2>4, <2>6, <2>8, DueOwn
  <2>9. CASE v # t /\ tgt'[t] = v /\ pc'[t] = "check"
    <3>1. Rescues(t, v)' /\ Comes(t, v)'
      BY <2>9 DEF Rescues, Comes
    <3>2. pc'[v] = pc[v] /\ tgt'[v] = tgt[v] /\ Due(v)
      BY <1>0, <2>2, <2>9 DEF OthersStay, ActionsDue
    <3>3. Due(v)'
      BY <2>2, <3>1, <3>2 DEF Due
    <3>4. ASSUME NEW u \in Vcpus, u # v, u # t PROVE Due(u)'
      <4>1. ~Rescues(t, u) /\ ~Comes(t, u)
        BY <2>1, <3>4 DEF Rescues, Comes
      <4> QED
        BY <1>0, <2>2, <2>4, <3>4, <4>1, DueOther
    <3> QED
      BY <2>6, <3>3, <3>4 DEF ActionsDue
  <2> QED
    BY <2>5, <2>7, <2>8, <2>9
<1>2. ASSUME NEW t \in Threads, MonitorNotify(t) PROVE ActionsDue'
  <2>1. PICK v \in Vcpus : v = tgt[t]
    BY <1>0, <1>2 DEF MonitorNotify, Fits, ToVcpu
  <2>2. OthersStay(t) /\ vcpu' = vcpu /\ status' = status /\ pc[t] = "readHint"
    BY <1>0, <1>2, OthersFacts DEF MonitorNotify, Goto, Done, shared
  <2>3. pc'[t] \in {"run", "check"} /\ (hint[v] => pc'[t] = "check" /\ tgt'[t] = v)
    BY <1>0, <1>2, <2>1 DEF MonitorNotify, Goto, Done, At, Targets
  <2>4. ASSUME NEW u \in Vcpus, u # v, u # t PROVE Due(u)'
    <3>1. ~Rescues(t, u) /\ ~Comes(t, u)
      BY <2>1, <2>4 DEF Rescues, Comes
    <3> QED
      BY <1>0, <2>2, <2>4, <3>1, DueOther
  <2>5. ASSUME v # t PROVE Due(v)'
    <3>1. CASE hint[v]
      <4>1. Rescues(t, v)' /\ Comes(t, v)'
        BY <2>3, <3>1 DEF Rescues, Comes
      <4> QED
        BY <1>0, <2>2, <2>5, <4>1, DueOther
    <3>2. CASE ~hint[v]
      <4>1. pc'[v] = pc[v] /\ tgt'[v] = tgt[v] /\ Due(v) /\ HintOK(v)
        BY <1>0, <2>2, <2>5 DEF OthersStay, ActionsDue, Hinted
      <4>2. ~(Settled(v) /\ PendingInMask(v, vcpu[v].mask))
        BY <3>2, <4>1 DEF HintOK, PendingInMask
      <4>3. ~(Settled(v) /\ PendingInMask(v, vcpu[v].mask))'
        BY <2>2, <4>1, <4>2 DEF Settled, Asleep, PendingInMask
      <4>4. (\E u \in Threads : Comes(u, v)) => \E u \in Threads : Comes(u, v)'
        BY <2>2 DEF Comes, OthersStay
      <4>5. PendingInMask(v, vcpu[v].mask)' <=> PendingInMask(v, vcpu[v].mask)
        BY <2>2 DEF PendingInMask
      <4> QED
        BY <2>2, <4>1, <4>3, <4>4, <4>5 DEF Due
    <3> QED
      BY <3>1, <3>2
  <2>6. t \in Vcpus => Due(t)'
    BY <2>3, DueElsewhere
  <2> QED
    BY <2>4, <2>5, <2>6 DEF ActionsDue
<1>3. ASSUME NEW t \in Threads, CpuSched_AsyncCheckActions(t) PROVE ActionsDue'
  <2>1. PICK v \in Vcpus : v = tgt[t]
    BY <1>0, <1>3 DEF CpuSched_AsyncCheckActions, Fits, ToVcpu
  <2>2. OthersStay(t) /\ vcpu' = vcpu /\ status' = status /\ pc[t] = "check"
    BY <1>0, <1>3, OthersFacts DEF CpuSched_AsyncCheckActions, Goto, Done, shared
  <2>3. pc'[t] \in {"run", "force"} /\ (PendingInMask(v, vcpu[v].mask) => pc'[t] = "force" /\ tgt'[t] = v)
    BY <1>0, <1>3, <2>1 DEF CpuSched_AsyncCheckActions, Goto, Done, At, Targets
  <2>4. ASSUME NEW u \in Vcpus, u # v, u # t PROVE Due(u)'
    <3>1. ~Rescues(t, u) /\ ~Comes(t, u)
      BY <2>1, <2>4 DEF Rescues, Comes
    <3> QED
      BY <1>0, <2>2, <2>4, <3>1, DueOther
  <2>5. ASSUME v # t PROVE Due(v)'
    <3>1. CASE PendingInMask(v, vcpu[v].mask)
      <4>1. Rescues(t, v)' /\ Comes(t, v)'
        BY <2>3, <3>1 DEF Rescues, Comes
      <4> QED
        BY <1>0, <2>2, <2>5, <4>1, DueOther
    <3>2. CASE ~PendingInMask(v, vcpu[v].mask)
      <4>1. pc'[v] = pc[v] /\ tgt'[v] = tgt[v] /\ Due(v)
        BY <1>0, <2>2, <2>5 DEF OthersStay, ActionsDue
      <4>2. ~PendingInMask(v, vcpu[v].mask)'
        BY <2>2, <3>2 DEF PendingInMask
      <4> QED
        BY <2>2, <4>1, <4>2 DEF Due
    <3> QED
      BY <3>1, <3>2
  <2>6. t \in Vcpus => Due(t)'
    BY <2>3, DueElsewhere
  <2> QED
    BY <2>4, <2>5, <2>6 DEF ActionsDue
<1>4. ASSUME NEW t \in Threads, EventLockSnapshot(t) \/ EventLockQueue(t) PROVE ActionsDue'
  <2>1. OthersStay(t) /\ vcpu' = vcpu /\ status' = status
    BY <1>0, <1>4, OthersFacts DEF EventLockSnapshot, EventLockQueue, Goto, shared
  <2>2. tgt'[t] = tgt[t] /\ pc'[t] \in {"forceEvent", "forceQueue", "forceAct"}
    BY <1>0, <1>4 DEF EventLockSnapshot, EventLockQueue, Goto, At, Targets
  <2>3. t \in Vcpus => Due(t)'
    BY <2>2, DueElsewhere
  <2>4. ASSUME NEW u \in Vcpus, u # t PROVE Due(u)'
    <3>1. (Rescues(t, u) => Rescues(t, u)') /\ (Comes(t, u) => Comes(t, u)')
      BY <2>2 DEF Rescues, Comes
    <3> QED
      BY <1>0, <2>1, <2>4, <3>1, DueOther
  <2> QED
    BY <2>3, <2>4 DEF ActionsDue
<1>5. ASSUME NEW t \in Threads, ForceWakeupOrRetry(t) PROVE ActionsDue'
  <2>1. PICK v \in Vcpus : v = tgt[t]
    BY <1>0, <1>5 DEF ForceWakeupOrRetry, Fits, ToVcpu
  <2>2. OthersStay(t) /\ status' = status /\ pc[t] = "forceAct" /\ cell = Nobody
    BY <1>0, <1>5, OthersFacts DEF ForceWakeupOrRetry, Done
  <2>3. pc'[t] \in {"run", "force"} /\ (~SnapshotValid(t) => pc'[t] = "force" /\ tgt'[t] = v)
    BY <1>0, <1>5, <2>1 DEF ForceWakeupOrRetry, Done, At, Targets
  <2>4. \A u \in Vcpus \ {v} : vcpu'[u] = vcpu[u]
    BY <1>0, <1>5, <2>1 DEF ForceWakeupOrRetry, CpuSchedVcpuWakeup, SharedOK
  <2>5. ASSUME NEW u \in Vcpus, u # v, u # t PROVE Due(u)'
    <3>1. ~Rescues(t, u) /\ ~Comes(t, u)
      BY <2>1, <2>5 DEF Rescues, Comes
    <3> QED
      BY <1>0, <2>2, <2>4, <2>5, <3>1, DueOther
  <2>6. ASSUME v # t PROVE Due(v)'
    <3>1. CASE SnapshotValid(t) /\ IsWaiting(v)
      <4>1. vcpu'[v].mask = {} /\ vcpu'[v].waitEvent = NoEvent
        BY <1>0, <1>5, <2>1, <3>1 DEF ForceWakeupOrRetry, CpuSchedVcpuWakeup, SharedOK
      <4> QED
        BY <4>1 DEF Due, PendingInMask
    <3>2. CASE SnapshotValid(t) /\ ~IsWaiting(v)
      <4>1. pc[v] \notin {"insert", "dispatch", "busyCell", "handback", "busyWake"}
        BY <1>0, <2>2, <3>2 DEF StatesOK, StateOK, IsWaiting, CellOwned, InCell
      <4>2. ~Asleep(v) /\ pc'[v] = pc[v] /\ vcpu' = vcpu
        BY <1>5, <2>1, <2>2, <2>6, <3>2 DEF Asleep, IsWaiting, OthersStay, ForceWakeupOrRetry
      <4> QED
        BY <4>1, <4>2 DEF Due, Settled, Asleep
    <3>3. CASE ~SnapshotValid(t)
      <4>1. Rescues(t, v)' /\ Comes(t, v)'
        BY <2>3, <3>3 DEF Rescues, Comes
      <4>2. vcpu' = vcpu
        BY <1>5, <3>3 DEF ForceWakeupOrRetry
      <4> QED
        BY <1>0, <2>2, <2>6, <4>1, <4>2, DueOther
    <3> QED
      BY <3>1, <3>2, <3>3
  <2>7. t \in Vcpus => Due(t)'
    BY <2>3, DueElsewhere
  <2> QED
    BY <2>5, <2>6, <2>7 DEF ActionsDue
<1>6. ASSUME NEW t \in Threads, NEW v \in Vcpus, WakeupOne(t, v) PROVE ActionsDue'
  <2>1. OthersStay(t) /\ status' = status /\ pc[t] = "wakeLoop" /\ pc' = pc
    BY <1>6 DEF WakeupOne, OthersStay
  <2>2. /\ vcpu'[v].mask = {} /\ vcpu'[v].waitEvent = NoEvent
        /\ \A u \in Vcpus \ {v} : vcpu'[u] = vcpu[u]
    BY <1>0, <1>6 DEF WakeupOne, CpuSchedVcpuWakeup, SharedOK
  <2>3. Due(v)'
    BY <2>2 DEF Due, PendingInMask
  <2>4. t \in Vcpus => Due(t)'
    BY <2>1, DueElsewhere
  <2>5. ASSUME NEW u \in Vcpus, u # v, u # t PROVE Due(u)'
    <3>1. ~Rescues(t, u) /\ ~Comes(t, u)
      BY <2>1 DEF Rescues, Comes
    <3> QED
      BY <1>0, <2>1, <2>2, <2>5, <3>1, DueOther
  <2> QED
    BY <2>3, <2>4, <2>5 DEF ActionsDue
<1>7. ASSUME NEW t \in Threads, WakeupLockQueue(t) \/ WakeupDone(t) PROVE ActionsDue'
  <2>1. OthersStay(t) /\ vcpu' = vcpu /\ status' = status /\ pc[t] \in {"wakeQueue", "wakeLoop"}
    BY <1>0, <1>7, OthersFacts DEF WakeupLockQueue, WakeupDone, Goto, Done
  <2>2. pc'[t] \in {"wakeLoop", "run"}
    BY <1>0, <1>7 DEF WakeupLockQueue, WakeupDone, Goto, Done, At
  <2> QED
    BY <1>0, <2>1, <2>2, DueElsewhere, DueOwn
<1>8. ASSUME NEW t \in Threads, NEW v \in Vcpus, Action_Post(t, v) \/ CpuSched_ForceWakeup(t, v)
      PROVE  ActionsDue'
  <2>1. OthersStay(t) /\ vcpu' = vcpu /\ status' = status /\ pc[t] = "run"
    BY <1>0, <1>8, OthersFacts DEF Action_Post, CpuSched_ForceWakeup, shared
  <2>2. pc'[t] \in {"setVector", "force"}
    BY <1>0, <1>8 DEF Action_Post, CpuSched_ForceWakeup, At
  <2> QED
    BY <1>0, <2>1, <2>2, DueElsewhere, DueOwn
<1>9. ASSUME NEW t \in Threads, NEW e \in Events, NEW come \in BOOLEAN, CpuSched_Wakeup(t, e, come)
      PROVE  ActionsDue'
  <2>1. OthersStay(t) /\ vcpu' = vcpu /\ status' = status /\ pc[t] = "run" /\ pc'[t] = "wakeQueue"
    BY <1>0, <1>9, OthersFacts DEF CpuSched_Wakeup, At
  <2> QED
    BY <1>0, <2>1, DueElsewhere, DueOwn
<1>10. ASSUME NEW t \in Vcpus, NEW e \in Events, NEW m \in Masks, CpuSched_Wait(t, e, m) PROVE ActionsDue'
  <2>1. OthersStay(t) /\ vcpu' = vcpu /\ status' = status /\ pc[t] = "run"
    BY <1>0, <1>10, OthersFacts DEF CpuSched_Wait, OthersStay
  <2>2. pc'[t] \in {"waitQueue", "run"}
    BY <1>0, <1>10 DEF CpuSched_Wait, At
  <2> QED
    BY <1>0, <2>1, <2>2, DueElsewhere, DueOwn
<1>11. ASSUME NEW t \in Vcpus, NEW v \in Vcpus, MonitorPost(t, v) PROVE ActionsDue'
  <2>1. OthersStay(t) /\ vcpu' = vcpu /\ pc[t] = "run" /\ pc'[t] = "readHint" /\ tgt'[t] = v /\ t # v
    BY <1>0, <1>11, OthersFacts DEF MonitorPost, At, Targets
  <2>2. pc[v] \notin {"busyCell", "handback"} /\ \A u \in Vcpus \ {v} : status'[u] = status[u]
    BY <1>0, <1>11 DEF MonitorPost, SharedOK
  <2>3. pc'[v] = pc[v] /\ tgt'[v] = tgt[v] /\ Due(v)
    BY <1>0, <2>1 DEF OthersStay, ActionsDue
  <2>4. Rescues(t, v)'
    BY <2>1 DEF Rescues
  <2>5. Due(v)'
    BY <2>1, <2>2, <2>3, <2>4 DEF Due
  <2>6. ASSUME NEW u \in Vcpus, u # v, u # t PROVE Due(u)'
    <3>1. ~Rescues(t, u) /\ ~Comes(t, u)
      BY <2>1 DEF Rescues, Comes
    <3> QED
      BY <1>0, <2>1, <2>2, <2>6, <3>1, DueOther
  <2>7. Due(t)'
    BY <2>1, DueElsewhere
  <2> QED
    BY <2>5, <2>6, <2>7 DEF ActionsDue
<1>12. ASSUME NEW t \in Vcpus,
              MonitorServe(t) \/ WaitLockQueue(t) \/ WaitLockCell(t) \/ ArmNotify(t)
       PROVE  ActionsDue'
  <2>1. /\ OthersStay(t) /\ vcpu' = vcpu
        /\ pc[t] \notin {"readHint", "check", "force", "forceEvent", "forceQueue", "forceAct"}
    BY <1>0, <1>12, OthersFacts DEF MonitorServe, WaitLockQueue, WaitLockCell, ArmNotify, Goto, Done
  <2>2. pc'[t] \in {"run", "serve", "waitCell", "arm", "mask"}
    BY <1>0, <1>12 DEF MonitorServe, WaitLockQueue, WaitLockCell, ArmNotify, Goto, Done, At
  <2>3. \A u \in Vcpus \ {t} : status'[u] = status[u]
    BY <1>0, <1>12 DEF MonitorServe, WaitLockQueue, WaitLockCell, ArmNotify, SharedOK
  <2> QED
    BY <1>0, <2>1, <2>2, <2>3, DueElsewhere, DueOwn
<1>13. ASSUME NEW t \in Vcpus, StartBusyWait(t) \/ Resume(t) PROVE ActionsDue'
  <2>1. OthersStay(t) /\ status' = status /\ pc[t] \in {"dispatch", "asleep"} /\ pc'[t] \in {"busy", "run"}
    BY <1>0, <1>13, OthersFacts DEF StartBusyWait, Resume, Goto, Done, At
  <2>2. \A u \in Vcpus \ {t} : vcpu'[u] = vcpu[u]
    BY <1>0, <1>13 DEF StartBusyWait, Resume, SharedOK
  <2> QED
    BY <1>0, <2>1, <2>2, DueElsewhere, DueOwn
<1>14. ASSUME NEW t \in Vcpus, ArmMask(t) PROVE ActionsDue'
  <2>1. OthersStay(t) /\ status' = status /\ pc[t] = "mask" /\ pc'[t] \in {"insert", "run"}
    BY <1>0, <1>14, OthersFacts DEF ArmMask, Goto, Done, At
  <2>2. PICK k : vcpu' = [vcpu EXCEPT ![t].mask = k]
    BY <1>14 DEF ArmMask
  <2>3. vcpu'[t].mask = k /\ \A u \in Vcpus \ {t} : vcpu'[u] = vcpu[u]
    BY <1>0, <2>2 DEF SharedOK
  <2>4. ASSUME pc'[t] = "insert" PROVE ~PendingInMask(t, k)
    BY <1>0, <1>14, <2>2, <2>4 DEF ArmMask, Goto, Done, At, SharedOK
  <2>5. Due(t)'
    BY <2>1, <2>3, <2>4, DueElsewhere DEF Due, PendingInMask
  <2> QED
    BY <1>0, <2>1, <2>3, <2>5, DueOwn
<1>15. ASSUME NEW t \in Vcpus, WaitInsert(t) \/ SwitchOut(t) PROVE ActionsDue'
  <2>1. /\ OthersStay(t) /\ status' = status /\ pc[t] \in {"insert", "dispatch"}
        /\ pc'[t] \in {"dispatch", "asleep"}
    BY <1>0, <1>15, OthersFacts DEF WaitInsert, SwitchOut, Goto, At
  <2>2. vcpu'[t].mask = vcpu[t].mask /\ \A u \in Vcpus \ {t} : vcpu'[u] = vcpu[u]
    BY <1>0, <1>15 DEF WaitInsert, SwitchOut, SharedOK
  <2>3. Due(t) /\ Settled(t)
    BY <1>0, <2>1 DEF ActionsDue, Settled
  <2>4. (\E u \in Threads : Rescues(u, t)) => \E u \in Threads : Rescues(u, t)'
    BY <2>1 DEF Rescues, OthersStay
  <2>5. PendingInMask(t, vcpu[t].mask)' <=> PendingInMask(t, vcpu[t].mask)
    BY <2>1, <2>2 DEF PendingInMask
  <2>6. Due(t)'
    BY <2>1, <2>3, <2>4, <2>5 DEF Due
  <2> QED
    BY <1>0, <2>1, <2>2, <2>6, DueOwn
<1>16. ASSUME NEW t \in Vcpus, BusyWaitEnd(t) \/ BusyLockQueue(t) PROVE ActionsDue'
  <2>1. OthersStay(t) /\ vcpu' = vcpu /\ status' = status /\ pc[t] \in {"busy", "busyQueue"}
    BY <1>0, <1>16, OthersFacts DEF BusyWaitEnd, BusyLockQueue, Goto, shared
  <2>2. /\ pc'[t] \in {"busyQueue", "busyCell", "busyWake"}
        /\ pc'[t] = "busyCell" => ~PendingInMask(t, vcpu[t].mask) \/ vcpu[t].waitEvent = NoEvent
        /\ pc'[t] = "busyWake" => tgt'[t] = QueueOf[vcpu[t].waitEvent]
    BY <1>0, <1>16 DEF BusyWaitEnd, BusyLockQueue, Goto, At, Targets
  <2>3. PendingInMask(t, vcpu[t].mask)' <=> PendingInMask(t, vcpu[t].mask)
    BY <2>1 DEF PendingInMask
  <2>4. Due(t)'
    BY <2>1, <2>2, <2>3 DEF Due, Settled, Asleep
  <2> QED
    BY <1>0, <2>1, <2>4, DueOwn
<1>17. ASSUME NEW t \in Vcpus, BusyWake(t) PROVE ActionsDue'
  <2>1. OthersStay(t) /\ status' = status /\ pc[t] = "busyWake" /\ pc'[t] = "handback" /\ Due(t)
    BY <1>0, <1>17, OthersFacts DEF BusyWake, At, ActionsDue
  <2>2. \A u \in Vcpus \ {t} : vcpu'[u] = vcpu[u]
    BY <1>0, <1>17 DEF BusyWake, CpuSchedVcpuWakeup, SharedOK
  <2>3. vcpu'[t].waitEvent = NoEvent
    <3>1. CASE t \in queue[tgt[t]]
      BY <1>0, <1>17, <3>1 DEF BusyWake, CpuSchedVcpuWakeup, SharedOK
    <3>2. CASE t \notin queue[tgt[t]]
      <4>1. tgt[t] \in Queues /\ vcpu' = vcpu
        BY <1>0, <1>17, <2>1, <3>2 DEF BusyWake, Fits
      <4> QED
        BY <1>0, <2>1, <3>2, <4>1 DEF QueuesExact, Due
    <3> QED
      BY <3>1, <3>2
  <2>4. Due(t)'
    BY <2>1, <2>3 DEF Due, Settled, Asleep
  <2> QED
    BY <1>0, <2>1, <2>2, <2>4, DueOwn
<1>18. ASSUME NEW t \in Vcpus, BusyLockCell(t) PROVE ActionsDue'
  <2>1. /\ OthersStay(t) /\ vcpu' = vcpu /\ status' = status /\ Due(t)
        /\ pc[t] = "busyCell" /\ pc'[t] = "handback"
    BY <1>0, <1>18, OthersFacts DEF BusyLockCell, Goto, At, ActionsDue
  <2>2. (\E u \in Threads : Comes(u, t)) => \E u \in Threads : Comes(u, t)'
    BY <2>1 DEF Comes, OthersStay
  <2>3. PendingInMask(t, vcpu[t].mask)' <=> PendingInMask(t, vcpu[t].mask)
    BY <2>1 DEF PendingInMask
  <2>4. Due(t)'
    BY <2>1, <2>2, <2>3 DEF Due, Settled, Asleep
  <2> QED
    BY <1>0, <2>1, <2>4, DueOwn
<1>19. ASSUME NEW t \in Vcpus, CpuSchedVcpuBusyWaitDone(t) PROVE ActionsDue'
  <2>1. OthersStay(t) /\ status' = status /\ pc[t] = "handback" /\ pc'[t] \in {"dispatch", "run"} /\ Due(t)
    BY <1>0, <1>19, OthersFacts DEF CpuSchedVcpuBusyWaitDone, Goto, Done, At, ActionsDue
  <2>2. PICK r : vcpu' = [vcpu EXCEPT ![t].runState = r]
    BY <1>19 DEF CpuSchedVcpuBusyWaitDone
  <2>3. vcpu'[t].mask = vcpu[t].mask /\ \A u \in Vcpus \ {t} : vcpu'[u] = vcpu[u]
    BY <1>0, <2>2 DEF SharedOK
  <2>4. pc'[t] = "dispatch" => vcpu[t].waitEvent # NoEvent
    BY <1>0, <1>19 DEF CpuSchedVcpuBusyWaitDone, Goto, Done, At
  <2>5. (\E u \in Threads : Comes(u, t)) => \E u \in Threads : Rescues(u, t)'
    BY <2>1 DEF Comes, Rescues, OthersStay
  <2>6. PendingInMask(t, vcpu[t].mask)' <=> PendingInMask(t, vcpu[t].mask)
    BY <2>1, <2>3 DEF PendingInMask
  <2>7. Due(t)'
    BY <2>1, <2>4, <2>5, <2>6 DEF Due, Settled, Asleep
  <2> QED
    BY <1>0, <2>1, <2>3, <2>7, DueOwn
<1> QED
  BY <1>1, <1>2, <1>3, <1>4, <1>5, <1>6, <1>7, <1>8, <1>9, <1>10, <1>11, <1>12, <1>13, <1>14, <1>15, <1>16,
     <1>17, <1>18, <1>19 DEF Next, WakerStep, SleeperStep, Start

(* With the window at the end of a busy-wait closed, every step keeps the  *)
(* invariant about actions.                                                *)
LEMMA ActionInvariant ==
  ASSUME OpenWindows = {}
  PROVE  Spec => []ActionInv
<1>1. Init => ActionInv
  BY InitWait
<1>2. ActionInv /\ [Next]_vars => ActionInv'
  <2> SUFFICES ASSUME ActionInv, [Next]_vars PROVE ActionInv'
    OBVIOUS
  <2>1. WaitInv'
    BY NextWait DEF ActionInv
  <2>2. CASE Next
    BY <2>1, <2>2, HintStep, DueStep DEF ActionInv
  <2>3. CASE UNCHANGED vars
    <3>1. Hinted'
      BY <2>3 DEF vars, ActionInv, Hinted, HintOK, Settled, Asleep
    <3>2. ActionsDue'
      BY <2>3 DEF vars, ActionInv, ActionsDue, Due, Settled, Asleep, Rescues, Comes, PendingInMask
    <3> QED
      BY <2>1, <3>1, <3>2 DEF ActionInv
  <2> QED
    BY <2>2, <2>3
<1> QED
  BY <1>1, <1>2, PTL DEF Spec

(* A vcpu that sleeps off the processor with an action pending that its    *)
(* mask asks for is being woken, and its notification hint is on for what  *)
(* the monitors will post: CpuSchedWait sets the hint before the mask and  *)
(* looks for actions after it.  A post that falls between the end of a     *)
(* busy-wait and CpuSchedVcpuBusyWaitDone is excluded: the code does lose  *)
(* it.                                                                     *)
THEOREM ActionsNotLost ==
  ASSUME OpenWindows = {}
  PROVE  Spec => []NoLostAction
<1>1. ActionInv => NoLostAction
  BY DEF ActionInv, Hinted, HintOK, ActionsDue, Due, Settled, NoLostAction, ActionsHeard, SleeperHinted
<1> QED
  BY <1>1, ActionInvariant, PTL

===============================================================================
