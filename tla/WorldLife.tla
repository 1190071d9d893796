------------------------------ MODULE WorldLife ------------------------------
(***************************************************************************)
(* The life of VMM worlds, main/world.c: they are made in slots of a table *)
(* that is used over and over, looked up by id, bound to by VMXes, made    *)
(* runnable, killed, and in the end reaped by a helper world, from a timer *)
(* that is set again for as long as somebody has a use for the world.      *)
(* Everything done under the world lock is one step.                       *)
(*                                                                         *)
(* An id stands for one use of a slot: ids are 30 bits wide and do not     *)
(* come round again while anybody remembers one.  A world that runs and    *)
(* one that is ready to run are not told apart.                            *)
(***************************************************************************)
EXTENDS Integers, FiniteSets

CONSTANTS
  Slots,              \* the entries of worlds[]
  Threads,            \* callers of the interface, each with one reference at most
  Helpers,            \* requests that the misc queue of the helper worlds takes
  SCSI_REAP_RETRIES,
  MaxMade,            \* bound on the worlds made
  MaxKills,           \* bound on the calls of World_Kill
  MaxBinds,           \* bound on a world's hostCount
  OpenWindows         \* the unprotected windows of the code that are open

Generations == 0 .. MaxMade
Ids == Slots \X Generations
NoId == <<"none", 0>>

ASSUME WorldBounds ==
  /\ IsFiniteSet(Slots) /\ IsFiniteSet(Threads)
  /\ SCSI_REAP_RETRIES \in Nat \ {0}
  /\ MaxMade \in Nat /\ MaxKills \in Nat /\ MaxBinds \in Nat
  /\ "none" \notin Slots
(* halfmade: a world is looked up before it is made.  sleep: a world that  *)
(* is to die goes to sleep just after it was to be woken.                  *)
ASSUME WindowsAssumption == OpenWindows \subseteq {"halfmade", "sleep"}

VARIABLES
  world,       \* the table
  made,        \* how many worlds were made
  thread,      \* where each caller stands, and with which world
  helper,      \* the requests for WorldReap and how far they got
  reapTimers,  \* the timers that call WorldReapCallback, by id: none, one or more
  killTimers,  \* the ids for which a timer calls WorldKillDemand
  kills        \* how many calls of World_Kill there were

vars == <<world, made, thread, helper, reapTimers, killTimers, kills>>

(* leader is the vmm leader: the world's own id unless it joined a group.  *)
(* joined: it has its place in the group, and its reference to the leader. *)
Blank(generation) ==
  [inUse |-> FALSE, generation |-> generation, runState |-> "NEW", deathPending |-> FALSE,
   killLevel |-> "UNSET", readerCount |-> 0, hostCount |-> 0, reapScheduled |-> FALSE,
   reapStarted |-> FALSE, reapCalls |-> 0, leader |-> NoId, joined |-> FALSE]

Idle == [at |-> "idle", id |-> NoId]

Init ==
  /\ world = [s \in Slots |-> Blank(0)]
  /\ made = 0
  /\ thread = [t \in Threads |-> Idle]
  /\ helper = [h \in Helpers |-> Idle]
  /\ reapTimers = [id \in Ids |-> 0]
  /\ killTimers = {}
  /\ kills = 0

IdOf(s) == <<s, world[s].generation>>

(* WorldFind: the slot is in use, for a world of that id.                  *)
WorldFind(id) == id[1] \in Slots /\ IdOf(id[1]) = id /\ world[id[1]].inUse

(* What WorldFindOptReaderLock and World_Bind find.                        *)
Findable(id) == WorldFind(id) /\ ~world[id[1]].reapStarted

Making(t) == thread[t].at \in {"init", "join", "lost", "rest", "clean", "wipe"}
HalfMade(id) == \E t \in Threads : Making(t) /\ thread[t].id = id

(* Worlds that the callers know of.                                        *)
Known(id) == "halfmade" \in OpenWindows \/ ~HalfMade(id)

Go(t, at) == thread' = [thread EXCEPT ![t].at = at]

(* WorldScheduleReap.  Two timers of one id are as good as any more.       *)
WorldScheduleReap(timers, id) == [timers EXCEPT ![id] = IF @ < 2 THEN @ + 1 ELSE @]

-------------------------------------------------------------------------------
(* WorldNewInt, up to WorldInit: a free slot is taken, and the world can   *)
(* be found from then on.  group is the leader whose group it is to join,  *)
(* NoId for one of its own; the leader of a group is its vmm leader here.  *)
WorldNewInt(t, s, group) ==
  LET id == <<s, world[s].generation + 1>>
  IN /\ thread[t].at = "idle"
     /\ made < MaxMade
     /\ ~world[s].inUse
     /\ group # NoId => Findable(group) /\ Known(group) /\ world[group[1]].leader = group
     /\ world' = [world EXCEPT ![s] = [Blank(id[2]) EXCEPT
                    !.inUse = TRUE, !.leader = IF group = NoId THEN id ELSE group]]
     /\ made' = made + 1
     /\ thread' = [thread EXCEPT ![t] = [at |-> "init", id |-> id]]
     /\ UNCHANGED <<helper, reapTimers, killTimers, kills>>

(* A slip: the member takes no reference to its leader.                    *)
JoinWithoutReference(t) ==
  LET id == thread[t].id
  IN /\ world' = [world EXCEPT ![id[1]].joined = TRUE]
     /\ Go(t, "rest")

(* The end of WorldGroupInit: the reference to the vmm leader.  The code   *)
(* does not look whether it got one.  If it did not, the world goes on in  *)
(* a group that the reap of the leader clears, or frees, under it, up to   *)
(* the World_Release of a leader that is not there: its maker is lost, and *)
(* what becomes of the world is not followed.                              *)
Join(t) ==
  LET id == thread[t].id
      leader == world[id[1]].leader
  IN \/ /\ id = leader \/ Findable(leader)
        /\ world' = [s \in Slots |->
                       LET w == IF s = id[1] THEN [world[s] EXCEPT !.joined = TRUE] ELSE world[s]
                       IN IF id # leader /\ s = leader[1]
                          THEN [w EXCEPT !.readerCount = @ + 1] ELSE w]
        /\ Go(t, "rest")
     \/ /\ id # leader /\ ~Findable(leader)
        /\ Go(t, "lost")
        /\ UNCHANGED world

(* WorldGroupInit.  The leader of the group is looked up, and let go of    *)
(* again before the reference that lasts is taken.                         *)
WorldGroupInit(t) ==
  LET id == thread[t].id
      leader == world[id[1]].leader
  IN /\ thread[t].at \in {"init", "join"}
     /\ UNCHANGED <<made, helper, reapTimers, killTimers, kills>>
     /\ \/ /\ thread[t].at = "init" /\ id # leader
           /\ Go(t, IF Findable(leader) THEN "join" ELSE "wipe")
           /\ UNCHANGED world
        \/ /\ thread[t].at = (IF id = leader THEN "init" ELSE "join")
           /\ Join(t)

(* The rest of WorldInit, which may fail: WorldNewInt cleans up then.      *)
WorldInit(t, ok) ==
  /\ thread[t].at = "rest"
  /\ thread' = [thread EXCEPT ![t] = IF ok THEN Idle ELSE [@ EXCEPT !.at = "clean"]]
  /\ UNCHANGED <<world, made, helper, reapTimers, killTimers, kills>>

-------------------------------------------------------------------------------
World_Find(t, id) ==
  /\ thread[t].at = "idle"
  /\ Findable(id) /\ Known(id)
  /\ world' = [world EXCEPT ![id[1]].readerCount = @ + 1]
  /\ thread' = [thread EXCEPT ![t] = [at |-> "holds", id |-> id]]
  /\ UNCHANGED <<made, helper, reapTimers, killTimers, kills>>

World_Release(t) ==
  /\ thread[t].at = "holds"
  /\ world' = [world EXCEPT ![thread[t].id[1]].readerCount = @ - 1]
  /\ thread' = [thread EXCEPT ![t] = Idle]
  /\ UNCHANGED <<made, helper, reapTimers, killTimers, kills>>

World_Bind(id) ==
  /\ Findable(id) /\ Known(id)
  /\ world[id[1]].hostCount < MaxBinds
  /\ world' = [world EXCEPT ![id[1]].hostCount = @ + 1]
  /\ UNCHANGED <<made, thread, helper, reapTimers, killTimers, kills>>

(* World_Kill, up to what it does with a world that was NEW.               *)
World_Kill(t, hostCount) ==
  LET id == thread[t].id
      new == world[id[1]].runState = "NEW"
  IN /\ kills < MaxKills
     /\ world' = [world EXCEPT ![id[1]].hostCount = hostCount, ![id[1]].deathPending = TRUE,
                               ![id[1]].killLevel = "NICE"]
     /\ killTimers' = IF new THEN killTimers ELSE killTimers \cup {id}
     /\ kills' = kills + 1
     /\ IF new THEN Go(t, "remove") ELSE UNCHANGED thread

(* World_Destroy, by a caller that has found the world.                    *)
World_Destroy(t, clearHostCount) ==
  LET w == world[thread[t].id[1]]
      hostCount == IF clearHostCount THEN 0 ELSE w.hostCount - 1
  IN /\ thread[t].at = "holds"
     /\ clearHostCount \/ w.hostCount > 0
     /\ UNCHANGED <<made, helper, reapTimers>>
     /\ IF hostCount > 0
        THEN /\ world' = [world EXCEPT ![thread[t].id[1]].hostCount = hostCount]
             /\ UNCHANGED <<thread, killTimers, kills>>
        ELSE World_Kill(t, hostCount)

(* CpuSched_ForceWakeup and any other wakeup.                              *)
Woken(w) == IF w.runState = "WAIT" THEN [w EXCEPT !.runState = "WOKEN"] ELSE w

(* WorldKillUnconditional.  Sched_Remove removes a world that does not     *)
(* run, whatever its state by now; it also returns VMK_OK, and does        *)
(* nothing, while another caller is in it.                                 *)
WorldKillUnconditional(t) ==
  LET id == thread[t].id
      w == [world[id[1]] EXCEPT !.deathPending = TRUE, !.killLevel = "UNCONDITIONAL"]
      other == \E u \in Threads \ {t} : thread[u] = thread[t]
  IN /\ thread[t].at = "remove"
     /\ Go(t, "holds")
     /\ \/ /\ world' = [world EXCEPT ![id[1]] = [w EXCEPT !.runState = "ZOMBIE"]]
           /\ reapTimers' = WorldScheduleReap(reapTimers, id)
        \/ /\ w.runState \in {"RUN", "LEAVING", "EXIT"}
           /\ world' = [world EXCEPT ![id[1]] = Woken(w)]
           /\ UNCHANGED reapTimers
        \/ /\ w.runState \in {"RUN", "LEAVING", "EXIT"} /\ other
           /\ world' = [world EXCEPT ![id[1]] = w]
           /\ reapTimers' = WorldScheduleReap(reapTimers, id)
     /\ UNCHANGED <<made, helper, killTimers, kills>>

(* A slip: the level is raised but the world is not woken.                 *)
WorldKillDemandQuietly(id) ==
  /\ id \in killTimers
  /\ killTimers' = killTimers \ {id}
  /\ world' = IF Findable(id) THEN [world EXCEPT ![id[1]].killLevel = "DEMAND"] ELSE world
  /\ UNCHANGED <<made, thread, helper, reapTimers, kills>>

(* WorldKillDemand, from a timer.  Its reference does not outlast it.      *)
WorldKillDemand(id) ==
  /\ id \in killTimers
  /\ killTimers' = killTimers \ {id}
  /\ world' = IF Findable(id)
              THEN [world EXCEPT ![id[1]] = Woken([@ EXCEPT !.killLevel = "DEMAND"])] ELSE world
  /\ UNCHANGED <<made, thread, helper, reapTimers, kills>>

(* World_MakeRunnable sees a world that is NEW, and then adds it to the    *)
(* scheduler: CpuSchedAddInt starts afresh, whatever the state by then.    *)
World_MakeRunnable(t) ==
  /\ \/ /\ thread[t].at = "holds"
        /\ world[thread[t].id[1]].runState = "NEW"
        /\ Go(t, "add")
        /\ UNCHANGED world
     \/ /\ thread[t].at = "add"
        /\ world' = [world EXCEPT ![thread[t].id[1]].runState = "RUN"]
        /\ Go(t, "holds")
  /\ UNCHANGED <<made, helper, reapTimers, killTimers, kills>>

-------------------------------------------------------------------------------
(* What the world itself does: it waits for an event, is woken, and looks  *)
(* whether it is to die when the wait returns, but not before it waits.    *)
ToDie(w) == w.deathPending /\ w.killLevel \in {"DEMAND", "UNCONDITIONAL"}

CpuSched_Wait(s) ==
  /\ world[s].runState = "RUN"
  /\ "sleep" \in OpenWindows \/ ~ToDie(world[s])
  /\ world' = [world EXCEPT ![s].runState = "WAIT"]
  /\ UNCHANGED <<made, thread, helper, reapTimers, killTimers, kills>>

(* The event the world waits for; it need not ever come.                   *)
CpuSched_Wakeup(s) ==
  /\ world[s].runState = "WAIT"
  /\ world' = [world EXCEPT ![s] = Woken(@)]
  /\ UNCHANGED <<made, thread, helper, reapTimers, killTimers, kills>>

(* CpuSchedWait returns VMK_DEATH_PENDING, or CpuSchedDispatch ends the    *)
(* world, or the wait is over and the world goes on.                       *)
WaitReturns(s) ==
  /\ world[s].runState = "WOKEN"
  /\ world' = [world EXCEPT ![s].runState = IF ToDie(world[s]) THEN "LEAVING" ELSE "RUN"]
  /\ UNCHANGED <<made, thread, helper, reapTimers, killTimers, kills>>

(* World_Exit, at a safepoint of a world that is to die or by its own      *)
(* choice: the reap comes first, and may well come before CpuSched_Die.    *)
World_Exit(s) ==
  /\ world[s].runState \in {"RUN", "LEAVING"}
  /\ world' = [world EXCEPT ![s].runState = "EXIT"]
  /\ reapTimers' = WorldScheduleReap(reapTimers, IdOf(s))
  /\ UNCHANGED <<made, thread, helper, killTimers, kills>>

CpuSched_Die(s) ==
  /\ world[s].runState = "EXIT"
  /\ world' = [world EXCEPT ![s].runState = "ZOMBIE"]
  /\ UNCHANGED <<made, thread, helper, reapTimers, killTimers, kills>>

-------------------------------------------------------------------------------
(* A slip: a reap that is under way is not looked for.                     *)
WorldReapCallbackTwice(id) ==
  /\ reapTimers[id] > 0
  /\ reapTimers' = [reapTimers EXCEPT ![id] = @ - 1]
  /\ \/ /\ ~WorldFind(id)
        /\ UNCHANGED <<world, helper>>
     \/ \E h \in Helpers :
          /\ WorldFind(id) /\ helper[h] = Idle
          /\ world' = [world EXCEPT ![id[1]].reapScheduled = TRUE]
          /\ helper' = [helper EXCEPT ![h] = [at |-> "asked", id |-> id]]
  /\ UNCHANGED <<made, thread, killTimers, kills>>

(* WorldReapCallback, from a timer.  If there is no room for the request   *)
(* the timer is set once more, which leaves everything as it was.          *)
WorldReapCallback(id) ==
  /\ reapTimers[id] > 0
  /\ reapTimers' = [reapTimers EXCEPT ![id] = @ - 1]
  /\ \/ /\ ~WorldFind(id) \/ world[id[1]].reapScheduled
        /\ UNCHANGED <<world, helper>>
     \/ \E h \in Helpers :
          /\ WorldFind(id) /\ ~world[id[1]].reapScheduled
          /\ helper[h] = Idle
          /\ world' = [world EXCEPT ![id[1]].reapScheduled = TRUE]
          /\ helper' = [helper EXCEPT ![h] = [at |-> "asked", id |-> id]]
  /\ UNCHANGED <<made, thread, killTimers, kills>>

(* The first part of WorldReap, with the PreCleanup functions that follow  *)
(* the first time, without the lock.  Only fewer than SCSI_REAP_RETRIES    *)
(* calls are told apart from each other.                                   *)
WorldReap(h) ==
  LET s == helper[h].id[1]
  IN /\ helper[h].at = "asked"
     /\ world' = [world EXCEPT ![s].reapCalls = IF @ < SCSI_REAP_RETRIES THEN @ + 1 ELSE @]
     /\ helper' = [helper EXCEPT ![h].at = "look"]
     /\ UNCHANGED <<made, thread, reapTimers, killTimers, kills>>

(* Slips: worlds that still run, and references, are not looked for.       *)
InUseStopped(w, scsiActive) == w.readerCount > 0 \/ w.hostCount > 0 \/ scsiActive
InUseUnread(w, scsiActive) == w.hostCount > 0 \/ scsiActive \/ w.runState # "ZOMBIE"

(* What keeps a world from being cleaned up.                               *)
InUse(w, scsiActive) ==
  w.readerCount > 0 \/ w.hostCount > 0 \/ scsiActive \/ w.runState # "ZOMBIE"

(* The second part of WorldReap.  SCSI_ActiveHandles says what it likes.   *)
WorldReapLook(h, scsiActive) ==
  LET id == helper[h].id
      w == world[id[1]]
  IN /\ helper[h].at = "look"
     /\ scsiActive => w.reapCalls < SCSI_REAP_RETRIES
     /\ \/ /\ InUse(w, scsiActive)
           /\ world' = [world EXCEPT ![id[1]].reapScheduled = FALSE]
           /\ reapTimers' = WorldScheduleReap(reapTimers, id)
           /\ helper' = [helper EXCEPT ![h] = Idle]
        \/ /\ ~InUse(w, scsiActive)
           /\ world' = [world EXCEPT ![id[1]].reapStarted = TRUE]
           /\ helper' = [helper EXCEPT ![h].at = "clean"]
           /\ UNCHANGED reapTimers
     /\ UNCHANGED <<made, thread, killTimers, kills>>

(* WorldGroupCleanup, after the other modules: the leader is let go of.    *)
WorldGroupCleanup(id) ==
  LET leader == world[id[1]].leader
  IN world' = [s \in Slots |->
                 LET w == IF s = id[1] THEN [world[s] EXCEPT !.joined = FALSE] ELSE world[s]
                 IN IF world[id[1]].joined /\ id # leader /\ s = leader[1]
                    THEN [w EXCEPT !.readerCount = @ - 1] ELSE w]

(* A slip: those who wait are woken before the slot is given back.         *)
WipeAfterWakeup(id, from) ==
  world' = [world EXCEPT ![id[1]] = Blank(id[2])] /\ thread' = from

(* The end of WorldCleanup, under worldDeathLock: the slot is given back,  *)
(* and those are woken who wait for it.                                    *)
Wipe(id, from) ==
  /\ world' = [world EXCEPT ![id[1]] = Blank(id[2])]
  /\ thread' = [t \in Threads |-> IF from[t] = [at |-> "asleep", id |-> id]
                                 THEN [at |-> "awaits", id |-> id] ELSE from[t]]

(* WorldCleanup, by the helper world that reaps the world...               *)
WorldCleanup(h) ==
  /\ UNCHANGED <<made, reapTimers, killTimers, kills>>
  /\ \/ /\ helper[h].at = "clean"
        /\ WorldGroupCleanup(helper[h].id)
        /\ helper' = [helper EXCEPT ![h].at = "wipe"]
        /\ UNCHANGED thread
     \/ /\ helper[h].at = "wipe"
        /\ Wipe(helper[h].id, thread)
        /\ helper' = [helper EXCEPT ![h] = Idle]

(* ... or by the caller of WorldNewInt if the world was not made.          *)
WorldCleanupHalfMade(t) ==
  /\ UNCHANGED <<made, helper, reapTimers, killTimers, kills>>
  /\ \/ thread[t].at = "clean" /\ WorldGroupCleanup(thread[t].id) /\ Go(t, "wipe")
     \/ thread[t].at = "wipe" /\ Wipe(thread[t].id, [thread EXCEPT ![t] = Idle])

(* World_ReleaseAndWaitForDeath: the release...                            *)
World_ReleaseAndWaitForDeath(t) ==
  /\ thread[t].at = "holds"
  /\ world[thread[t].id[1]].deathPending
  /\ world' = [world EXCEPT ![thread[t].id[1]].readerCount = @ - 1]
  /\ Go(t, "awaits")
  /\ UNCHANGED <<made, helper, reapTimers, killTimers, kills>>

(* ... and the loop, under worldDeathLock until it sleeps.                 *)
AwaitDeath(t) ==
  /\ thread[t].at = "awaits"
  /\ thread' = [thread EXCEPT ![t] = IF WorldFind(thread[t].id) THEN [@ EXCEPT !.at = "asleep"] ELSE Idle]
  /\ UNCHANGED <<world, made, helper, reapTimers, killTimers, kills>>

-------------------------------------------------------------------------------
Next ==
  \/ \E t \in Threads :
       \/ \E s \in Slots : \E group \in {NoId} \cup {IdOf(u) : u \in Slots} : WorldNewInt(t, s, group)
       \/ WorldGroupInit(t)
       \/ \E ok \in BOOLEAN : WorldInit(t, ok)
       \/ WorldCleanupHalfMade(t)
       \/ \E s \in Slots : World_Find(t, IdOf(s))
       \/ World_Release(t)
       \/ \E clearHostCount \in BOOLEAN : World_Destroy(t, clearHostCount)
       \/ WorldKillUnconditional(t)
       \/ World_MakeRunnable(t)
       \/ World_ReleaseAndWaitForDeath(t)
       \/ AwaitDeath(t)
  \/ \E s \in Slots :
       \/ World_Bind(IdOf(s))
       \/ CpuSched_Wait(s)
       \/ CpuSched_Wakeup(s)
       \/ WaitReturns(s)
       \/ World_Exit(s)
       \/ CpuSched_Die(s)
  \/ \E id \in Ids : WorldKillDemand(id) \/ WorldReapCallback(id)
  \/ \E h \in Helpers :
       \/ WorldReap(h)
       \/ \E scsiActive \in BOOLEAN : WorldReapLook(h, scsiActive)
       \/ WorldCleanup(h)

Spec == Init /\ [][Next]_vars

(* Callers get on with what they began and let go of what they hold, but   *)
(* need not begin anything; timers fire, helper worlds run, and there is   *)
(* room for a request in the end; a world that is to die and does not wait *)
(* comes to a safepoint.  The event a world waits for may never come.      *)
Fairness ==
  /\ \A t \in Threads :
       /\ WF_vars(WorldGroupInit(t)) /\ WF_vars(\E ok \in BOOLEAN : WorldInit(t, ok))
       /\ WF_vars(WorldCleanupHalfMade(t)) /\ WF_vars(WorldKillUnconditional(t))
       /\ WF_vars(thread[t].at = "add" /\ World_MakeRunnable(t))
       /\ WF_vars(World_Release(t)) /\ WF_vars(AwaitDeath(t))
  /\ \A s \in Slots :
       /\ WF_vars(WaitReturns(s)) /\ WF_vars(CpuSched_Die(s))
       /\ WF_vars(world[s].deathPending /\ World_Exit(s))
  /\ \A id \in Ids : WF_vars(WorldKillDemand(id)) /\ WF_vars(WorldReapCallback(id))
  /\ \A h \in Helpers :
       /\ WF_vars(WorldReap(h)) /\ WF_vars(WorldCleanup(h))
       /\ WF_vars(\E scsiActive \in BOOLEAN : WorldReapLook(h, scsiActive))

FairSpec == Spec /\ Fairness

-------------------------------------------------------------------------------
RunStates == {"NEW", "RUN", "WAIT", "WOKEN", "LEAVING", "EXIT", "ZOMBIE"}
KillLevels == {"UNSET", "NICE", "DEMAND", "UNCONDITIONAL"}
Counts == 0 .. Cardinality(Slots) + Cardinality(Threads)

(* Types and ranges.                                                       *)
TypeOK ==
  /\ world \in [Slots -> [inUse : BOOLEAN, generation : Generations, runState : RunStates,
                          deathPending : BOOLEAN, killLevel : KillLevels, readerCount : Counts,
                          hostCount : 0 .. MaxBinds, reapScheduled : BOOLEAN, reapStarted : BOOLEAN,
                          reapCalls : 0 .. SCSI_REAP_RETRIES, leader : Ids \cup {NoId},
                          joined : BOOLEAN]]
  /\ made \in Generations
  /\ thread \in [Threads -> [at : {"idle", "init", "join", "lost", "rest", "clean", "wipe", "holds",
                                   "remove", "add", "awaits", "asleep"}, id : Ids \cup {NoId}]]
  /\ helper \in [Helpers -> [at : {"idle", "asked", "look", "clean", "wipe"},
                             id : Ids \cup {NoId}]]
  /\ reapTimers \in [Ids -> 0 .. 2]
  /\ killTimers \subseteq Ids
  /\ kills \in 0 .. MaxKills

Holders(id) == {t \in Threads : thread[t].id = id /\ thread[t].at \in {"holds", "remove", "add"}}
Members(id) == {s \in Slots : world[s].joined /\ world[s].leader = id /\ IdOf(s) # id}

(* A world that somebody found and has not released is still the one it    *)
(* was, and is not being cleaned up: WorldReap's check under the lock and  *)
(* the reapStarted test of World_Find leave no gap, and the count they go  *)
(* by stays within its bounds (the assertion of World_Release).            *)
HeldWorldsIntact ==
  /\ TypeOK
  /\ \A t \in Threads : \A id \in Ids : t \in Holders(id) => Findable(id)

(* A world is cleaned up only once it is off the processors for good and   *)
(* no VMX is bound to it: neither World_MakeRunnable of a world that was   *)
(* NEW when it looked, nor a reap that is ahead of CpuSched_Die, nor a     *)
(* late World_Bind gets in between.                                        *)
ReapedAtRest ==
  \A s \in Slots : world[s].inUse /\ world[s].reapStarted =>
    world[s].runState = "ZOMBIE" /\ world[s].hostCount = 0

(* However many timers the killers, the exit of the world and the retries  *)
(* leave behind, at most one WorldReap deals with a world, and it is the   *)
(* world it was asked for and not a later one in the same slot.            *)
OneReap ==
  \A h \in Helpers : helper[h] # Idle =>
    /\ WorldFind(helper[h].id) /\ world[helper[h].id[1]].reapScheduled
    /\ \A g \in Helpers \ {h} : helper[g].id # helper[h].id

(* The vmm leader is there, and not being cleaned up, as long as a world   *)
(* has its reference to it, whatever kills, reaps and failed makings of    *)
(* members there are: the reference WorldGroupInit takes is the one        *)
(* WorldGroupCleanup gives back.  A world that the reap of its leader      *)
(* overtook on the way to that reference has none: VmmLeaderStays.         *)
LeaderOutlivesMembers ==
  \A s \in Slots : world[s].joined => world[s].leader = IdOf(s) \/ Findable(world[s].leader)

(* "This ensures that the vmm leader doesn't go away until all the other   *)
(* members have been destroyed" (WorldGroupInit).  So no world that is one *)
(* of the group is left without the leader.                                *)
VmmLeaderStays == \A t \in Threads : thread[t].at # "lost"

(* Nobody sleeps in World_ReleaseAndWaitForDeath for a world that is gone: *)
(* worldDeathLock keeps WorldCleanup out between the look and the sleep,   *)
(* and the next world in the slot is not taken for the one awaited.        *)
NoneAwaitsTheGone == \A t \in Threads : thread[t].at = "asleep" => WorldFind(thread[t].id)

(* A reap is of a world at rest, is the only one of that world, and leaves *)
(* nobody waiting for its death, whatever timers, retries and second uses  *)
(* of the slot there were.                                                 *)
ReapIsSound == ReapedAtRest /\ OneReap /\ NoneAwaitsTheGone

(* A world that was killed is gone in the end, unless a VMX is bound to    *)
(* it, it leads others, or it is looked up again and again: no order of    *)
(* kills, timers, wakeups, retries of the reap and World_MakeRunnable      *)
(* leaves it behind, asleep or unreaped.  That is for a world that does    *)
(* not go to sleep after the wakeup of its kill: with the window "sleep"   *)
(* open a world may, and sleep on.                                         *)
Doomed(id) ==
  /\ WorldFind(id) /\ world[id[1]].deathPending
  /\ world[id[1]].hostCount = 0 /\ Members(id) = {} /\ Holders(id) = {}
KilledReaped == \A id \in Ids : []<>~Doomed(id)

(* WorldKillDemand: "Set the killLevel to DEMAND and wake up the world.    *)
(* The world will notice that the CpuSched_Wait* funtion returns a         *)
(* VMK_DEATH_PENDING".  So it does not stay asleep.                        *)
DemandHeard ==
  \A s \in Slots : world[s].killLevel = "DEMAND" /\ world[s].runState = "WAIT" ~>
    world[s].runState # "WAIT"
===============================================================================
