----------------------------- MODULE CpuSchedWait -----------------------------
(***************************************************************************)
(* How a vcpu goes to sleep in the vmkernel and how others wake it:        *)
(* CpuSchedWait, CpuSched_Wakeup and CpuSched_ForceWakeup of               *)
(* sched/cpusched.c, the busy-wait it may do instead of leaving the        *)
(* processor, and the actions of main/action.h that must wake it.          *)
(*                                                                         *)
(* Locks are taken in the order caller's lock, event queue, cell.  What    *)
(* runs under the cell lock of the vcpu is one action, except in the       *)
(* sleeper itself, whose run state, mask and notification hint others      *)
(* read without that lock.  actionWakeupLock is held within one action.    *)
(* The vcpus are those of one virtual machine and share a cell.  The       *)
(* monitor, which is not part of the vmkernel, posts actions to its        *)
(* siblings and asks the vmkernel for help only when the hint says so.     *)
(***************************************************************************)
EXTENDS Naturals, FiniteSets

CONSTANTS
  Vcpus,       \* the vcpus of one virtual machine
  Kernel,      \* other threads of the vmkernel (helpers, timers, the host)
  Callers,     \* the threads that post vmkernel actions and wake vcpus
  Events,      \* what vcpus wait for
  NoEvent,     \* CPUSCHED_EVENT_NONE
  Queues,      \* the buckets of the event table
  QueueOf,     \* EventQueue_Find: the bucket of each event, and of NoEvent
  Masks,       \* the actionWakeupMasks of callers
  Nobody,      \* the holder of a free lock
  OpenWindows  \* the unprotected windows posters may step into

Threads == Vcpus \cup Kernel

ASSUME WaitAssumption ==
  /\ Nobody \notin Threads /\ NoEvent \notin Events
  /\ Callers \subseteq Threads
  /\ QueueOf \in [Events \cup {NoEvent} -> Queues]
  /\ Masks \subseteq SUBSET {"vmk", "mon"}
  /\ OpenWindows \subseteq {"handback"}

VARIABLES
  vcpu,    \* runState, waitEvent and actionWakeupMask of each vcpu
  hint,    \* notify.vcpuHint: the monitor is to tell the vmkernel of its posts
  status,  \* actionStatus: "vmk" for vmkernel actions, "mon" for the monitor's
  vector,  \* a vmkernel action is set in the second level
  queue,   \* the vcpus in each bucket of the event table
  qlock,   \* who holds the lock of each bucket
  cell,    \* who holds the cell lock across actions
  mutex,   \* who holds the lock of the code that waits and wakes
  ready,   \* what that code waits for has come
  pc,      \* where each thread stands
  tgt,     \* the vcpu a thread wakes, or the event it waits for or signals
  mem      \* the mask a waiter brought, or the snapshot of a waker

vars == <<vcpu, hint, status, vector, queue, qlock, cell, mutex, ready, pc, tgt, mem>>
shared == <<vcpu, hint, status, vector, queue, qlock, cell, mutex, ready>>

Statuses == {"vmk", "mon"}
RunStates == {"RUN", "READY", "WAIT", "BUSY_WAIT"}
PCs == {"run", "setVector", "setStatus", "readHint", "check", "force", "forceEvent",
        "forceQueue", "forceAct", "wakeQueue", "wakeLoop", "waitQueue", "waitCell",
        "arm", "mask", "insert", "dispatch", "asleep", "busy", "busyQueue", "busyWake",
        "busyCell", "handback", "serve"}

Init ==
  /\ vcpu = [v \in Vcpus |-> [runState |-> "RUN", waitEvent |-> NoEvent, mask |-> {}]]
  /\ hint = [v \in Vcpus |-> FALSE]
  /\ status = [v \in Vcpus |-> {}]
  /\ vector = [v \in Vcpus |-> FALSE]
  /\ queue = [q \in Queues |-> {}]
  /\ qlock = [q \in Queues |-> Nobody]
  /\ cell = Nobody
  /\ mutex = Nobody
  /\ ready = [e \in Events |-> FALSE]
  /\ pc = [t \in Threads |-> "run"]
  /\ tgt = [t \in Threads |-> Nobody]
  /\ mem = [t \in Threads |-> <<>>]

-------------------------------------------------------------------------------
(* Thread t goes on to `to' with target x and memory m, or is done.        *)
At(t, to, x, m) ==
  /\ pc' = [pc EXCEPT ![t] = to]
  /\ tgt' = [tgt EXCEPT ![t] = x]
  /\ mem' = [mem EXCEPT ![t] = m]

Goto(t, to) == At(t, to, tgt[t], mem[t])
Done(t) == At(t, "run", Nobody, <<>>)

PendingInMask(v, m) == status[v] \cap m # {}
IsWaiting(v) == vcpu[v].runState \in {"WAIT", "BUSY_WAIT"}

(* CpuSchedVcpuWakeup, under the cell lock: notifications stop, and the    *)
(* vcpu becomes ready, or will notice in its busy-wait loop.               *)
CpuSchedVcpuWakeup(v) ==
  /\ vcpu' = [vcpu EXCEPT ![v] =
               [runState |-> IF @.runState = "BUSY_WAIT" THEN "BUSY_WAIT" ELSE "READY",
                waitEvent |-> NoEvent, mask |-> {}]]
  /\ hint' = [hint EXCEPT ![v] = @ /\ vcpu[v].mask = {}]

-------------------------------------------------------------------------------
(* Action_Post of a vmkernel action; nothing to do if it is present.       *)
Action_Post(t, v) ==
  /\ pc[t] = "run"
  /\ ~vector[v]
  /\ At(t, "setVector", v, <<>>)
  /\ UNCHANGED shared

(* A slip: the two levels are set in the other order.                      *)
Action_SetReversed(t) ==
  \/ /\ pc[t] = "setVector"
     /\ status' = [status EXCEPT ![tgt[t]] = @ \cup {"vmk"}]
     /\ Goto(t, "setStatus")
     /\ UNCHANGED <<vcpu, hint, vector, queue, qlock, cell, mutex, ready>>
  \/ /\ pc[t] = "setStatus"
     /\ vector' = [vector EXCEPT ![tgt[t]] = TRUE]
     /\ IF tgt[t] = t THEN Done(t) ELSE Goto(t, "check")
     /\ UNCHANGED <<vcpu, hint, status, queue, qlock, cell, mutex, ready>>

(* Action_Set: the vector, then the status the monitor looks at; an action *)
(* for another world is followed by CpuSched_AsyncCheckActions.            *)
Action_Set(t) ==
  \/ /\ pc[t] = "setVector"
     /\ vector' = [vector EXCEPT ![tgt[t]] = TRUE]
     /\ Goto(t, "setStatus")
     /\ UNCHANGED <<vcpu, hint, status, queue, qlock, cell, mutex, ready>>
  \/ /\ pc[t] = "setStatus"
     /\ status' = [status EXCEPT ![tgt[t]] = @ \cup {"vmk"}]
     /\ IF tgt[t] = t THEN Done(t) ELSE Goto(t, "check")
     /\ UNCHANGED <<vcpu, hint, vector, queue, qlock, cell, mutex, ready>>

(* The monitor of vcpu t posts an action to sibling v ...                  *)
MonitorPost(t, v) ==
  /\ t # v /\ pc[t] = "run"
  /\ "mon" \notin status[v]
  /\ "handback" \in OpenWindows \/ pc[v] \notin {"busyCell", "handback"}
  /\ status' = [status EXCEPT ![v] = @ \cup {"mon"}]
  /\ At(t, "readHint", v, <<>>)
  /\ UNCHANGED <<vcpu, hint, vector, queue, qlock, cell, mutex, ready>>

(* ... and, if the hint is on, calls CpuSched_ActionNotifyVcpu.            *)
MonitorNotify(t) ==
  /\ pc[t] = "readHint"
  /\ IF hint[tgt[t]] THEN Goto(t, "check") ELSE Done(t)
  /\ UNCHANGED shared

(* CpuSched_AsyncCheckActions, under actionWakeupLock.                     *)
CpuSched_AsyncCheckActions(t) ==
  /\ pc[t] = "check"
  /\ IF PendingInMask(tgt[t], vcpu[tgt[t]].mask) THEN Goto(t, "force") ELSE Done(t)
  /\ UNCHANGED shared

(* The monitor's loop clears the status first and then takes the vector.   *)
MonitorServe(v) ==
  \/ /\ pc[v] = "run" /\ status[v] # {}
     /\ status' = [status EXCEPT ![v] = {}]
     /\ IF "vmk" \in status[v] THEN Goto(v, "serve") ELSE Goto(v, "run")
     /\ UNCHANGED <<vcpu, hint, vector, queue, qlock, cell, mutex, ready>>
  \/ /\ pc[v] = "serve"
     /\ vector' = [vector EXCEPT ![v] = FALSE]
     /\ Done(v)
     /\ UNCHANGED <<vcpu, hint, status, queue, qlock, cell, mutex, ready>>

-------------------------------------------------------------------------------
(* CpuSched_ForceWakeup for any other reason, a kill for example.          *)
CpuSched_ForceWakeup(t, v) ==
  /\ pc[t] = "run" /\ t # v
  /\ At(t, "force", v, <<>>)
  /\ UNCHANGED shared

(* CpuSchedVcpuEventLock reads the run state and the event without a lock, *)
(* one after the other, ...                                                *)
EventLockSnapshot(t) ==
  /\ \/ /\ pc[t] = "force"
        /\ At(t, "forceEvent", tgt[t], [state |-> vcpu[tgt[t]].runState, event |-> NoEvent])
     \/ /\ pc[t] = "forceEvent"
        /\ At(t, "forceQueue", tgt[t], [mem[t] EXCEPT !.event = vcpu[tgt[t]].waitEvent])
  /\ UNCHANGED shared

SnapshotQueue(t) ==
  IF mem[t].state \in {"WAIT", "BUSY_WAIT"} THEN {QueueOf[mem[t].event]} ELSE {}

(* ... locks the queue they point to, if any, ...                          *)
EventLockQueue(t) ==
  /\ pc[t] = "forceQueue"
  /\ \A q \in SnapshotQueue(t) : qlock[q] = Nobody
  /\ qlock' = [q \in Queues |-> IF q \in SnapshotQueue(t) THEN t ELSE qlock[q]]
  /\ Goto(t, "forceAct")
  /\ UNCHANGED <<vcpu, hint, status, vector, queue, cell, mutex, ready>>

SnapshotValid(t) ==
  /\ vcpu[tgt[t]].runState = mem[t].state
  /\ vcpu[tgt[t]].waitEvent = mem[t].event

(* ... and with the cell lock compares again: the snapshot still holds,    *)
(* and the vcpu is woken if it waits, or everything is tried once more.    *)
ForceWakeupOrRetry(t) ==
  /\ pc[t] = "forceAct"
  /\ cell = Nobody
  /\ IF SnapshotValid(t) /\ IsWaiting(tgt[t])
     THEN /\ queue' = [q \in Queues |->
                        IF q \in SnapshotQueue(t) THEN queue[q] \ {tgt[t]} ELSE queue[q]]
          /\ CpuSchedVcpuWakeup(tgt[t])
     ELSE UNCHANGED <<queue, vcpu, hint>>
  /\ qlock' = [q \in Queues |-> IF qlock[q] = t THEN Nobody ELSE qlock[q]]
  /\ IF SnapshotValid(t) THEN Done(t) ELSE At(t, "force", tgt[t], <<>>)
  /\ UNCHANGED <<status, vector, cell, mutex, ready>>

(* What is waited for has come, or a timeout (CpuSchedSleepTimeout,        *)
(* CpuSchedHaltCallback) has: CpuSched_Wakeup ...                          *)
CpuSched_Wakeup(t, e, come) ==
  /\ pc[t] = "run"
  /\ come => mutex = Nobody
  /\ ready' = [ready EXCEPT ![e] = @ \/ come]
  /\ At(t, "wakeQueue", e, <<>>)
  /\ UNCHANGED <<vcpu, hint, status, vector, queue, qlock, cell, mutex>>

WakeupLockQueue(t) ==
  LET q == QueueOf[tgt[t]] IN
  /\ pc[t] = "wakeQueue"
  /\ qlock[q] = Nobody
  /\ qlock' = [qlock EXCEPT ![q] = t]
  /\ Goto(t, "wakeLoop")
  /\ UNCHANGED <<vcpu, hint, status, vector, queue, cell, mutex, ready>>

Matching(t) == {v \in queue[QueueOf[tgt[t]]] : vcpu[v].waitEvent = tgt[t]}

(* ... wakes the vcpus that wait for this event, one by one, and no others *)
(* of the same bucket.                                                     *)
WakeupOne(t, v) ==
  /\ pc[t] = "wakeLoop"
  /\ v \in Matching(t)
  /\ cell = Nobody
  /\ queue' = [queue EXCEPT ![QueueOf[tgt[t]]] = @ \ {v}]
  /\ CpuSchedVcpuWakeup(v)
  /\ UNCHANGED <<status, vector, qlock, cell, mutex, ready, pc, tgt, mem>>

WakeupDone(t) ==
  /\ pc[t] = "wakeLoop"
  /\ Matching(t) = {}
  /\ qlock' = [qlock EXCEPT ![QueueOf[tgt[t]]] = Nobody]
  /\ Done(t)
  /\ UNCHANGED <<vcpu, hint, status, vector, queue, cell, mutex, ready>>

-------------------------------------------------------------------------------
(* The caller of a wait holds its lock, and waits because what it needs    *)
(* has not come; otherwise it takes it.                                    *)
CpuSched_Wait(v, e, m) ==
  /\ pc[v] = "run"
  /\ mutex = Nobody
  /\ \/ /\ ~ready[e]
        /\ mutex' = v
        /\ At(v, "waitQueue", e, m)
        /\ UNCHANGED ready
     \/ /\ ready[e]
        /\ ready' = [ready EXCEPT ![e] = FALSE]
        /\ UNCHANGED <<mutex, pc, tgt, mem>>
  /\ UNCHANGED <<vcpu, hint, status, vector, queue, qlock, cell>>

(* A slip: the caller's lock is released before the vcpu is in the queue.  *)
WaitLockQueueUnlocked(v) ==
  LET q == QueueOf[tgt[v]] IN
  /\ pc[v] = "waitQueue"
  /\ qlock[q] = Nobody
  /\ qlock' = [qlock EXCEPT ![q] = v]
  /\ mutex' = Nobody
  /\ Goto(v, "waitCell")
  /\ UNCHANGED <<vcpu, hint, status, vector, queue, cell, ready>>

(* CpuSchedDoWaitDirectedYield takes the queue lock and the cell lock.     *)
WaitLockQueue(v) ==
  LET q == QueueOf[tgt[v]] IN
  /\ pc[v] = "waitQueue"
  /\ qlock[q] = Nobody
  /\ qlock' = [qlock EXCEPT ![q] = v]
  /\ Goto(v, "waitCell")
  /\ UNCHANGED <<vcpu, hint, status, vector, queue, cell, mutex, ready>>

WaitLockCell(v) ==
  /\ pc[v] = "waitCell"
  /\ cell = Nobody
  /\ cell' = v
  /\ Goto(v, "arm")
  /\ UNCHANGED <<vcpu, hint, status, vector, queue, qlock, mutex, ready>>

(* CpuSchedWait asks for notifications, ...                                *)
ArmNotify(v) ==
  /\ pc[v] = "arm"
  /\ hint' = [hint EXCEPT ![v] = @ \/ mem[v] # {}]
  /\ Goto(v, "mask")
  /\ UNCHANGED <<vcpu, status, vector, queue, qlock, cell, mutex, ready>>

(* A slip: the mask is set, but pending actions are not looked for.        *)
ArmMaskUnchecked(v) ==
  /\ pc[v] = "mask"
  /\ vcpu' = [vcpu EXCEPT ![v].mask = mem[v]]
  /\ Goto(v, "insert")
  /\ UNCHANGED <<hint, status, vector, queue, qlock, cell, mutex, ready>>

(* ... sets the mask and, under the same actionWakeupLock, looks for       *)
(* actions that are pending already: then it does not wait.                *)
ArmMask(v) ==
  /\ pc[v] = "mask"
  /\ \/ /\ ~PendingInMask(v, mem[v])
        /\ vcpu' = [vcpu EXCEPT ![v].mask = mem[v]]
        /\ Goto(v, "insert")
        /\ UNCHANGED <<hint, qlock, cell, mutex>>
     \/ /\ PendingInMask(v, mem[v])
        /\ vcpu' = [vcpu EXCEPT ![v].mask = {}]
        /\ hint' = [hint EXCEPT ![v] = FALSE]
        /\ qlock' = [qlock EXCEPT ![QueueOf[tgt[v]]] = Nobody]
        /\ cell' = Nobody
        /\ mutex' = Nobody
        /\ Done(v)
  /\ UNCHANGED <<status, vector, queue, ready>>

(* The vcpu is in the queue before the caller's lock is released.          *)
WaitInsert(v) ==
  LET q == QueueOf[tgt[v]] IN
  /\ pc[v] = "insert"
  /\ vcpu' = [vcpu EXCEPT ![v].runState = "WAIT", ![v].waitEvent = tgt[v]]
  /\ queue' = [queue EXCEPT ![q] = @ \cup {v}]
  /\ qlock' = [qlock EXCEPT ![q] = Nobody]
  /\ mutex' = Nobody
  /\ At(v, "dispatch", Nobody, <<>>)
  /\ UNCHANGED <<hint, status, vector, cell, ready>>

-------------------------------------------------------------------------------
(* CpuSchedDispatch: another world runs, or the vcpu busy-waits, looking   *)
(* for actions by itself, and the monitor need not tell.                   *)
SwitchOut(v) ==
  /\ pc[v] = "dispatch"
  /\ cell' = Nobody
  /\ Goto(v, "asleep")
  /\ UNCHANGED <<vcpu, hint, status, vector, queue, qlock, mutex, ready>>

StartBusyWait(v) ==
  /\ pc[v] = "dispatch"
  /\ vcpu' = [vcpu EXCEPT ![v].runState = "BUSY_WAIT"]
  /\ hint' = [hint EXCEPT ![v] = @ /\ vcpu[v].mask = {}]
  /\ cell' = Nobody
  /\ Goto(v, "busy")
  /\ UNCHANGED <<status, vector, queue, qlock, mutex, ready>>

(* A vcpu that has been made ready is chosen by a later dispatch.          *)
Resume(v) ==
  /\ pc[v] = "asleep" /\ vcpu[v].runState = "READY"
  /\ cell = Nobody
  /\ vcpu' = [vcpu EXCEPT ![v].runState = "RUN"]
  /\ Done(v)
  /\ UNCHANGED <<hint, status, vector, queue, qlock, cell, mutex, ready>>

(* The busy-wait loop ends because the vcpu has been woken or finds an     *)
(* action, or because the processor is needed; an action found wakes the   *)
(* vcpu.                                                                   *)
BusyWaitEnd(v) ==
  /\ pc[v] = "busy"
  /\ IF PendingInMask(v, vcpu[v].mask) /\ vcpu[v].waitEvent # NoEvent
     THEN Goto(v, "busyQueue") ELSE Goto(v, "busyCell")
  /\ UNCHANGED shared

(* A slip: the cell lock is taken before the lock of the queue.            *)
BusyLockCellFirst(v) ==
  LET q == QueueOf[vcpu[v].waitEvent] IN
  /\ pc[v] = "busyQueue"
  /\ \/ /\ cell = Nobody
        /\ cell' = v
        /\ UNCHANGED <<vcpu, hint, queue, pc, tgt, mem>>
     \/ /\ cell = v /\ qlock[q] = Nobody
        /\ IF v \in queue[q]
           THEN CpuSchedVcpuWakeup(v) /\ queue' = [queue EXCEPT ![q] = @ \ {v}]
           ELSE UNCHANGED <<vcpu, hint, queue>>
        /\ At(v, "handback", Nobody, <<>>)
        /\ UNCHANGED cell
  /\ UNCHANGED <<status, vector, qlock, mutex, ready>>

BusyLockQueue(v) ==
  LET q == QueueOf[vcpu[v].waitEvent] IN
  /\ pc[v] = "busyQueue"
  /\ qlock[q] = Nobody
  /\ qlock' = [qlock EXCEPT ![q] = v]
  /\ At(v, "busyWake", q, <<>>)
  /\ UNCHANGED <<vcpu, hint, status, vector, queue, cell, mutex, ready>>

BusyWake(v) ==
  LET q == tgt[v] IN
  /\ pc[v] = "busyWake"
  /\ cell = Nobody
  /\ IF v \in queue[q]
     THEN CpuSchedVcpuWakeup(v) /\ queue' = [queue EXCEPT ![q] = @ \ {v}]
     ELSE UNCHANGED <<vcpu, hint, queue>>
  /\ qlock' = [qlock EXCEPT ![q] = Nobody]
  /\ cell' = v
  /\ At(v, "handback", Nobody, <<>>)
  /\ UNCHANGED <<status, vector, mutex, ready>>

BusyLockCell(v) ==
  /\ pc[v] = "busyCell"
  /\ cell = Nobody
  /\ cell' = v
  /\ Goto(v, "handback")
  /\ UNCHANGED <<vcpu, hint, status, vector, queue, qlock, mutex, ready>>

(* CpuSchedVcpuBusyWaitDone: the vcpu runs if it has been woken; else it   *)
(* waits on, with notifications on again, for the next dispatch.           *)
CpuSchedVcpuBusyWaitDone(v) ==
  /\ pc[v] = "handback"
  /\ IF vcpu[v].waitEvent = NoEvent
     THEN /\ vcpu' = [vcpu EXCEPT ![v].runState = "RUN"]
          /\ cell' = Nobody
          /\ Done(v)
          /\ UNCHANGED hint
     ELSE /\ vcpu' = [vcpu EXCEPT ![v].runState = "WAIT"]
          /\ hint' = [hint EXCEPT ![v] = @ \/ vcpu[v].mask # {}]
          /\ Goto(v, "dispatch")
          /\ UNCHANGED cell
  /\ UNCHANGED <<status, vector, queue, qlock, mutex, ready>>

-------------------------------------------------------------------------------
(* The steps of a thread that has begun something.                         *)
WakerStep(t) ==
  \/ Action_Set(t) \/ MonitorNotify(t) \/ CpuSched_AsyncCheckActions(t)
  \/ EventLockSnapshot(t) \/ EventLockQueue(t) \/ ForceWakeupOrRetry(t)
  \/ WakeupLockQueue(t) \/ WakeupDone(t) \/ \E v \in Vcpus : WakeupOne(t, v)

SleeperStep(v) ==
  \/ WaitLockQueue(v) \/ WaitLockCell(v) \/ ArmNotify(v) \/ ArmMask(v) \/ WaitInsert(v)
  \/ SwitchOut(v) \/ StartBusyWait(v) \/ Resume(v)
  \/ BusyWaitEnd(v) \/ BusyLockQueue(v) \/ BusyWake(v) \/ BusyLockCell(v)
  \/ CpuSchedVcpuBusyWaitDone(v)

Start(t) ==
  \/ \E v \in Vcpus : Action_Post(t, v) \/ CpuSched_ForceWakeup(t, v)
  \/ \E e \in Events, come \in BOOLEAN : CpuSched_Wakeup(t, e, come)

Next ==
  \/ \E t \in Threads : WakerStep(t)
  \/ \E t \in Callers : Start(t)
  \/ \E t, v \in Vcpus : MonitorPost(t, v)
  \/ \E v \in Vcpus : SleeperStep(v) \/ MonitorServe(v)
  \/ \E v \in Vcpus, e \in Events, m \in Masks : CpuSched_Wait(v, e, m)

Spec == Init /\ [][Next]_vars

-------------------------------------------------------------------------------
(* Types and ranges.                                                       *)
TypeOK ==
  /\ vcpu \in [Vcpus -> [runState : RunStates, waitEvent : Events \cup {NoEvent},
                         mask : SUBSET Statuses]]
  /\ hint \in [Vcpus -> BOOLEAN]
  /\ status \in [Vcpus -> SUBSET Statuses]
  /\ vector \in [Vcpus -> BOOLEAN]
  /\ queue \in [Queues -> SUBSET Vcpus]
  /\ qlock \in [Queues -> Threads \cup {Nobody}]
  /\ cell \in Vcpus \cup {Nobody}
  /\ mutex \in Vcpus \cup {Nobody}
  /\ ready \in [Events -> BOOLEAN]
  /\ pc \in [Threads -> PCs]

(* A vcpu is in the event table exactly while it waits for an event, and   *)
(* in the bucket of that event: whoever takes it out, having chosen the    *)
(* bucket without a lock, takes it out of the right one.                   *)
QueuesExact ==
  \A v \in Vcpus, q \in Queues :
    v \in queue[q] <=> vcpu[v].waitEvent # NoEvent /\ q = QueueOf[vcpu[v].waitEvent]

(* Thread t is on its way to wake v because of an action.                  *)
Rescues(t, v) ==
  tgt[t] = v /\ pc[t] \in {"readHint", "check", "force", "forceEvent", "forceQueue", "forceAct"}

Asleep(v) == pc[v] = "asleep" /\ vcpu[v].runState = "WAIT"

(* A vcpu that sleeps off the processor and is to be woken by actions has  *)
(* its hint on in the monitors' shared areas, through busy-waits as well.  *)
SleeperHinted ==
  \A v \in Vcpus : Asleep(v) /\ vcpu[v].mask # {} => hint[v]

(* While a vcpu sleeps off the processor with an action pending that its   *)
(* mask asks for, somebody is on the way to wake it.                       *)
ActionsHeard ==
  \A v \in Vcpus :
    Asleep(v) /\ PendingInMask(v, vcpu[v].mask) => \E t \in Threads : Rescues(t, v)

(* No lost action: a sleeping vcpu is being woken for what is pending, and *)
(* its hint makes sure that it is for what is still to be posted.          *)
NoLostAction == ActionsHeard /\ SleeperHinted

(* No lost event: while a vcpu waits for what has come, CpuSched_Wakeup is *)
(* running for it, because the caller's lock is held until the vcpu is in  *)
(* the queue; and the wakeup will find it there.                           *)
NoLostEvent ==
  /\ TypeOK
  /\ QueuesExact
  /\ \A v \in Vcpus : \A e \in Events :
       vcpu[v].waitEvent = e /\ ready[e]
       => \E t \in Threads : tgt[t] = e /\ pc[t] \in {"wakeQueue", "wakeLoop"}

(* An action set in the vector is not lost between the vmkernel, which     *)
(* sets vector and status, and the monitor, which clears status and vector.*)
VectorSeen ==
  \A v \in Vcpus : vector[v] =>
    \/ "vmk" \in status[v] \/ pc[v] = "serve"
    \/ \E t \in Threads : tgt[t] = v /\ pc[t] = "setStatus"

(* The holders of the lock thread t spins for.                             *)
BlockedBy(t) ==
  CASE pc[t] \in {"waitQueue", "wakeQueue"} -> {qlock[QueueOf[tgt[t]]]}
    [] pc[t] = "forceQueue" -> {qlock[q] : q \in SnapshotQueue(t)}
    [] pc[t] = "busyQueue" -> {qlock[QueueOf[vcpu[t].waitEvent]]}
    [] pc[t] \in {"waitCell", "forceAct", "wakeLoop", "busyWake", "busyCell"} -> {cell}
    [] OTHER -> {}

(* No deadlock of sleepers, wakers and busy-waiters: in every group of     *)
(* threads somebody does not spin for a lock that the group holds.         *)
NoLockCycle ==
  \A S \in SUBSET Threads : S # {} => \E t \in S : BlockedBy(t) \cap S = {}

-------------------------------------------------------------------------------
(* CpuSched_VcpuHalt: "The vcpu will be awakened if an action is posted to *)
(* it", also when it is handed back from a busy-wait at that moment.       *)
HaltAwakened == ActionsHeard

===============================================================================
