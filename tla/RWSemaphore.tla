------------------------------ MODULE RWSemaphore ------------------------------
(***************************************************************************)
(* The suspending reader-writer lock of main/semaphore.c: shared and       *)
(* exclusive access, the upgrade from shared to exclusive (one upgrader at *)
(* a time, every other caller gets VMK_BUSY) and the downgrade back.       *)
(*                                                                         *)
(* sema->lock is a spin lock held from the first to the last access of a   *)
(* call except across CpuSched_Wait, which queues the caller and releases  *)
(* the lock in one step.  A stretch between taking and giving up the lock  *)
(* is therefore one action: a call that has to sleep is the action that    *)
(* starts it, followed, each time the world is woken, by its retry.        *)
(***************************************************************************)
EXTENDS Naturals, FiniteSets, EventQueue

CONSTANT Worlds  \* the worlds that call the semaphore

ASSUME WorldsAssumption == IsFiniteSet(Worlds)
ASSUME NoEventAssumption ==
  NoEvent \notin {"sharedWaiters", "exclusiveWaiters", "upgradeWaiter"}

VARIABLES
  exclusiveWaiters,  \* calls of BeginWrite that have not been granted yet
  sharedWaiters,     \* calls of BeginRead that have not been granted yet
  exclusiveAccess,   \* granted exclusive accesses
  sharedAccess,      \* granted shared accesses
  upgradeWaiter,     \* a reader is waiting to become the writer
  pc,                \* where each world stands
  waitEvent          \* the event each world sleeps on

counters == <<exclusiveWaiters, sharedWaiters, exclusiveAccess, sharedAccess>>
vars == <<exclusiveWaiters, sharedWaiters, exclusiveAccess, sharedAccess,
          upgradeWaiter, pc, waitEvent>>

(* The address of a field of the semaphore is the event its waiters use.   *)
Events == {"sharedWaiters", "exclusiveWaiters", "upgradeWaiter"}

PCs == {"idle", "beginRead", "shared", "beginWrite", "exclusive", "upgrade"}

Goto(w, from, to) == pc[w] = from /\ pc' = [pc EXCEPT ![w] = to]

(* Semaphore_RWInit *)
Init ==
  /\ exclusiveWaiters = 0
  /\ sharedWaiters = 0
  /\ exclusiveAccess = 0
  /\ sharedAccess = 0
  /\ upgradeWaiter = FALSE
  /\ pc = [w \in Worlds |-> "idle"]
  /\ waitEvent = [w \in Worlds |-> NoEvent]

-------------------------------------------------------------------------------
(* The conditions of the three wait loops.                                 *)

(* Slips a change of the read condition could make: no test for the writer *)
(* inside, or for the writers in line.                                     *)
ReadBlockedNoAccess  == exclusiveWaiters > 0 \/ upgradeWaiter
ReadBlockedNoWaiters == exclusiveAccess > 0 \/ upgradeWaiter

(* A slip: the upgrade's condition copied to the writers' wait loop.       *)
WriteBlockedAsUpgrade == sharedAccess > 1 \/ exclusiveAccess > 0

ReadBlocked == exclusiveWaiters > 0 \/ exclusiveAccess > 0 \/ upgradeWaiter

WriteBlocked == sharedAccess > 0 \/ exclusiveAccess > 0 \/ upgradeWaiter

UpgradeBlocked == sharedAccess > 1

(* Semaphore_BeginRead: the call, granted at once or put to sleep ...      *)
BeginRead(w) ==
  \/ /\ ~ReadBlocked
     /\ Goto(w, "idle", "shared")
     /\ sharedAccess' = sharedAccess + 1
     /\ UNCHANGED <<exclusiveWaiters, sharedWaiters, exclusiveAccess,
                    upgradeWaiter, waitEvent>>
  \/ /\ ReadBlocked
     /\ Goto(w, "idle", "beginRead")
     /\ sharedWaiters' = sharedWaiters + 1
     /\ waitEvent' = WaitOn(waitEvent, w, "sharedWaiters")
     /\ UNCHANGED <<exclusiveWaiters, exclusiveAccess, sharedAccess, upgradeWaiter>>

(* ... and its wait loop after a wakeup.                                   *)
BeginReadRetry(w) ==
  /\ ~IsWaiting(waitEvent, w)
  /\ \/ /\ ~ReadBlocked
        /\ Goto(w, "beginRead", "shared")
        /\ sharedWaiters' = sharedWaiters - 1
        /\ sharedAccess' = sharedAccess + 1
        /\ UNCHANGED <<exclusiveWaiters, exclusiveAccess, upgradeWaiter, waitEvent>>
     \/ /\ ReadBlocked
        /\ pc[w] = "beginRead"
        /\ waitEvent' = WaitOn(waitEvent, w, "sharedWaiters")
        /\ UNCHANGED <<counters, upgradeWaiter, pc>>

(* A slip: the upgrader is woken when no reader is left, itself included.  *)
EndReadWakesLate(w) ==
  /\ Goto(w, "shared", "idle")
  /\ sharedAccess' = sharedAccess - 1
  /\ waitEvent' =
       IF upgradeWaiter /\ sharedAccess' = 0 THEN Wakeup(waitEvent, "upgradeWaiter")
       ELSE IF sharedAccess' = 0 /\ exclusiveWaiters > 0
            THEN Wakeup(waitEvent, "exclusiveWaiters")
            ELSE waitEvent
  /\ UNCHANGED <<exclusiveWaiters, sharedWaiters, exclusiveAccess, upgradeWaiter>>

(* Semaphore_EndRead: the last reader but the upgrader wakes the upgrader, *)
(* the last reader of all the writers.                                     *)
EndRead(w) ==
  /\ Goto(w, "shared", "idle")
  /\ sharedAccess' = sharedAccess - 1
  /\ waitEvent' =
       IF upgradeWaiter /\ sharedAccess' = 1 THEN Wakeup(waitEvent, "upgradeWaiter")
       ELSE IF sharedAccess' = 0 /\ exclusiveWaiters > 0
            THEN Wakeup(waitEvent, "exclusiveWaiters")
            ELSE waitEvent
  /\ UNCHANGED <<exclusiveWaiters, sharedWaiters, exclusiveAccess, upgradeWaiter>>

(* Semaphore_BeginWrite *)
BeginWrite(w) ==
  \/ /\ ~WriteBlocked
     /\ Goto(w, "idle", "exclusive")
     /\ exclusiveAccess' = exclusiveAccess + 1
     /\ UNCHANGED <<exclusiveWaiters, sharedWaiters, sharedAccess,
                    upgradeWaiter, waitEvent>>
  \/ /\ WriteBlocked
     /\ Goto(w, "idle", "beginWrite")
     /\ exclusiveWaiters' = exclusiveWaiters + 1
     /\ waitEvent' = WaitOn(waitEvent, w, "exclusiveWaiters")
     /\ UNCHANGED <<sharedWaiters, exclusiveAccess, sharedAccess, upgradeWaiter>>

BeginWriteRetry(w) ==
  /\ ~IsWaiting(waitEvent, w)
  /\ \/ /\ ~WriteBlocked
        /\ Goto(w, "beginWrite", "exclusive")
        /\ exclusiveWaiters' = exclusiveWaiters - 1
        /\ exclusiveAccess' = exclusiveAccess + 1
        /\ UNCHANGED <<sharedWaiters, sharedAccess, upgradeWaiter, waitEvent>>
     \/ /\ WriteBlocked
        /\ pc[w] = "beginWrite"
        /\ waitEvent' = WaitOn(waitEvent, w, "exclusiveWaiters")
        /\ UNCHANGED <<counters, upgradeWaiter, pc>>

(* Semaphore_EndWrite: writers are preferred to readers.                   *)
EndWrite(w) ==
  /\ Goto(w, "exclusive", "idle")
  /\ exclusiveAccess' = exclusiveAccess - 1
  /\ waitEvent' =
       IF exclusiveWaiters > 0 THEN Wakeup(waitEvent, "exclusiveWaiters")
       ELSE IF sharedWaiters > 0 THEN Wakeup(waitEvent, "sharedWaiters")
       ELSE waitEvent
  /\ UNCHANGED <<exclusiveWaiters, sharedWaiters, sharedAccess, upgradeWaiter>>

(* A slip: the second upgrader waits instead of being refused.             *)
UpgradeFromSharedAlwaysWaits(w) ==
  /\ UpgradeBlocked
  /\ Goto(w, "shared", "upgrade")
  /\ upgradeWaiter' = TRUE
  /\ waitEvent' = WaitOn(waitEvent, w, "upgradeWaiter")
  /\ UNCHANGED counters

(* Semaphore_UpgradeFromShared.  A second upgrader gets VMK_BUSY and stays *)
(* a reader: nothing changes, so that outcome is a stuttering step.        *)
UpgradeFromShared(w) ==
  /\ ~upgradeWaiter
  /\ \/ /\ ~UpgradeBlocked
        /\ Goto(w, "shared", "exclusive")
        /\ sharedAccess' = sharedAccess - 1
        /\ exclusiveAccess' = exclusiveAccess + 1
        /\ UNCHANGED <<exclusiveWaiters, sharedWaiters, upgradeWaiter, waitEvent>>
     \/ /\ UpgradeBlocked
        /\ Goto(w, "shared", "upgrade")
        /\ upgradeWaiter' = TRUE
        /\ waitEvent' = WaitOn(waitEvent, w, "upgradeWaiter")
        /\ UNCHANGED counters

(* A slip: the upgraded reader keeps its shared access too.                *)
UpgradeRetryKeepsShared(w) ==
  /\ ~IsWaiting(waitEvent, w)
  /\ ~UpgradeBlocked
  /\ Goto(w, "upgrade", "exclusive")
  /\ upgradeWaiter' = FALSE
  /\ exclusiveAccess' = exclusiveAccess + 1
  /\ UNCHANGED <<exclusiveWaiters, sharedWaiters, sharedAccess, waitEvent>>

UpgradeRetry(w) ==
  /\ ~IsWaiting(waitEvent, w)
  /\ \/ /\ ~UpgradeBlocked
        /\ Goto(w, "upgrade", "exclusive")
        /\ upgradeWaiter' = FALSE
        /\ sharedAccess' = sharedAccess - 1
        /\ exclusiveAccess' = exclusiveAccess + 1
        /\ UNCHANGED <<exclusiveWaiters, sharedWaiters, waitEvent>>
     \/ /\ UpgradeBlocked
        /\ pc[w] = "upgrade"
        /\ waitEvent' = WaitOn(waitEvent, w, "upgradeWaiter")
        /\ UNCHANGED <<counters, upgradeWaiter, pc>>

(* Semaphore_DowngradeToShared: readers are let in unless a writer waits.  *)
DowngradeToShared(w) ==
  /\ Goto(w, "exclusive", "shared")
  /\ exclusiveAccess' = exclusiveAccess - 1
  /\ sharedAccess' = sharedAccess + 1
  /\ waitEvent' = IF exclusiveWaiters = 0 /\ sharedWaiters > 0
                  THEN Wakeup(waitEvent, "sharedWaiters")
                  ELSE waitEvent
  /\ UNCHANGED <<exclusiveWaiters, sharedWaiters, upgradeWaiter>>

(* A wakeup that no call of the semaphore asked for.                       *)
SpuriousWakeup(w) ==
  /\ IsWaiting(waitEvent, w)
  /\ waitEvent' = ForceWakeup(waitEvent, w)
  /\ UNCHANGED <<counters, upgradeWaiter, pc>>

-------------------------------------------------------------------------------
Retry(w) == BeginReadRetry(w) \/ BeginWriteRetry(w) \/ UpgradeRetry(w)
Release(w) == EndRead(w) \/ EndWrite(w)

Next ==
  \E w \in Worlds :
    \/ BeginRead(w) \/ BeginReadRetry(w) \/ EndRead(w)
    \/ BeginWrite(w) \/ BeginWriteRetry(w) \/ EndWrite(w)
    \/ UpgradeFromShared(w) \/ UpgradeRetry(w) \/ DowngradeToShared(w)
    \/ SpuriousWakeup(w)

Spec == Init /\ [][Next]_vars

(* A world that is not asleep is scheduled, and one that has access gives  *)
(* it up in the end.                                                       *)
Fairness == \A w \in Worlds : WF_vars(Retry(w)) /\ WF_vars(Release(w))

FairSpec == Spec /\ Fairness

-------------------------------------------------------------------------------
InState(S) == {w \in Worlds : pc[w] \in S}

Readers == InState({"shared", "upgrade"})
Writers == InState({"exclusive"})
Waiters == InState({"beginRead", "beginWrite", "upgrade"})

(* Types and ranges.                                                       *)
TypeOK ==
  /\ exclusiveWaiters \in Nat
  /\ sharedWaiters \in Nat
  /\ exclusiveAccess \in Nat
  /\ sharedAccess \in Nat
  /\ upgradeWaiter \in BOOLEAN
  /\ pc \in [Worlds -> PCs]
  /\ waitEvent \in [Worlds -> Events \cup {NoEvent}]

(* Each counter of the semaphore is the number of worlds it stands for: no *)
(* path through a wait loop, an upgrade or a downgrade loses or repeats an *)
(* increment or a decrement (lines 219-381 of semaphore.c).                *)
CountersExact ==
  /\ sharedAccess = Cardinality(Readers)
  /\ exclusiveAccess = Cardinality(Writers)
  /\ sharedWaiters = Cardinality(InState({"beginRead"}))
  /\ exclusiveWaiters = Cardinality(InState({"beginWrite"}))
  /\ upgradeWaiter <=> \E w \in Worlds : pc[w] = "upgrade"

(* A writer is alone, whichever way it became one; the assertions on       *)
(* exclusiveAccess, sharedAccess and upgradeWaiter in BeginRead, EndRead,  *)
(* BeginWrite, EndWrite, UpgradeFromShared and DowngradeToShared.          *)
WriterExcludesAll ==
  \A v, w \in Worlds :
    pc[w] = "exclusive" /\ v # w => pc[v] \notin {"exclusive", "shared", "upgrade"}

(* No two worlds ever wait for the upgrade of the same lock: they would    *)
(* wait for each other's shared access for ever.                           *)
OneUpgrader ==
  \A v, w \in Worlds : pc[v] = "upgrade" /\ pc[w] = "upgrade" => v = w

(* No lost wakeup: a world that sleeps in a wait loop sleeps on the event  *)
(* of that loop and its condition really holds, so whoever makes it false  *)
(* still has the wakeup to do.                                             *)
SleepersBlocked ==
  \A w \in Worlds : IsWaiting(waitEvent, w) =>
    \/ pc[w] = "beginRead" /\ waitEvent[w] = "sharedWaiters" /\ ReadBlocked
    \/ pc[w] = "beginWrite" /\ waitEvent[w] = "exclusiveWaiters" /\ WriteBlocked
    \/ pc[w] = "upgrade" /\ waitEvent[w] = "upgradeWaiter" /\ UpgradeBlocked

(* Worlds never all wait for one another: when some world waits, one has   *)
(* access and is not itself waiting, or one has been woken and will run.   *)
SomeoneCanMove ==
  Waiters # {} =>
    \/ \E w \in Worlds : pc[w] \in {"shared", "exclusive"}
    \/ \E w \in Waiters : ~IsWaiting(waitEvent, w)

(* A world waiting for the upgrade becomes the writer: the readers before  *)
(* it leave, BeginRead and BeginWrite let nobody in past upgradeWaiter.    *)
UpgradeCompletes ==
  \A w \in Worlds : pc[w] = "upgrade" ~> pc[w] = "exclusive"

(* Readers do not starve writers: a call of BeginWrite stops later calls   *)
(* of BeginRead, so the readers drain and some world gets exclusive access *)
(* (which writer, and when a waiting reader gets in, is left open).        *)
WritersNotStarvedByReaders ==
  ((\E w \in Worlds : pc[w] = "beginWrite") /\ Writers = {}) ~> (Writers # {})

(* Nobody who is to have exclusive access waits for ever: neither the      *)
(* reader that upgrades nor the writers, however many readers come.        *)
WaitsEnd == UpgradeCompletes /\ WritersNotStarvedByReaders

(* The upgrade keeps the caller's snapshot: between asking for it and      *)
(* getting it no other world gets exclusive access.                        *)
UpgradeIsAtomic ==
  [][\A v, w \in Worlds :
       pc[v] = "upgrade" /\ pc'[w] = "exclusive" /\ pc[w] # "exclusive" => v = w]_vars

===============================================================================
