---------------------------- MODULE WorldLifeProofs ----------------------------
(***************************************************************************)
(* That a world that is held is not taken away, that the vmm leader of a   *)
(* group outlives its members, and that a reap is of a world at rest and   *)
(* the only one, for any number of slots, callers and helper requests.     *)
(***************************************************************************)
EXTENDS WorldLife, FiniteSetTheorems, TLAPS

(* TypeOK but for the range of readerCount, which rests on the counting.   *)
Records ==
  [inUse : BOOLEAN, generation : Generations, runState : RunStates, deathPending : BOOLEAN,
   killLevel : KillLevels, readerCount : Int, hostCount : 0 .. MaxBinds,
   reapScheduled : BOOLEAN, reapStarted : BOOLEAN, reapCalls : 0 .. SCSI_REAP_RETRIES,
   leader : Ids \cup {NoId}, joined : BOOLEAN]

Types ==
  /\ world \in [Slots -> Records]
  /\ made \in Generations
  /\ thread \in [Threads -> [at : {"idle", "init", "join", "lost", "rest", "clean", "wipe", "holds",
                                   "remove", "add", "awaits", "asleep"}, id : Ids \cup {NoId}]]
  /\ helper \in [Helpers -> [at : {"idle", "asked", "look", "clean", "wipe"},
                             id : Ids \cup {NoId}]]
  /\ reapTimers \in [Ids -> 0 .. 2]
  /\ killTimers \subseteq Ids
  /\ kills \in 0 .. MaxKills

(* An id that was given out.                                               *)
Past(id) == id \in Ids /\ id[2] <= world[id[1]].generation

(* Nobody has an id before it is given out, and a slot that is not in use  *)
(* is blank.                                                               *)
IdsPast ==
  /\ \A s \in Slots : /\ world[s].generation <= made
                      /\ world[s].inUse => Past(world[s].leader)
                      /\ ~world[s].inUse => world[s] = Blank(world[s].generation)
  /\ \A t \in Threads : IF thread[t].at = "idle" THEN thread[t] = Idle ELSE Past(thread[t].id)
  /\ \A id \in Ids : reapTimers[id] > 0 => Past(id)
  /\ \A h \in Helpers : helper[h].at = "idle" => helper[h] = Idle

(* What is known of a world while WorldNewInt makes it: nobody else has to *)
(* do with it, and it has its place in the group only from "rest" on.      *)
MadeAlone(t, id) ==
  /\ WorldFind(id)
  /\ ~world[id[1]].reapStarted /\ ~world[id[1]].reapScheduled /\ world[id[1]].runState = "NEW"
  /\ reapTimers[id] = 0 /\ world[id[1]].readerCount = 0
  /\ world[id[1]].joined <=> thread[t].at \in {"rest", "clean"}
  /\ \A u \in Threads \ {t} : thread[u].id # id
  /\ \A s \in Slots : world[s].leader = id => s = id[1]

MakersAlone == \A t \in Threads : Making(t) => MadeAlone(t, thread[t].id)

Held == \A t \in Threads : \A id \in Ids : t \in Holders(id) => Findable(id)

(* readerCount is the number of those who hold the world and of its        *)
(* members.                                                                *)
ReadersExact ==
  \A s \in Slots :
    world[s].readerCount = Cardinality(Holders(IdOf(s))) + Cardinality(Members(IdOf(s)))

(* A world being cleaned up has no readers either, and has left its group  *)
(* when the slot is about to be given back.                                *)
ReapedUnread ==
  /\ ReapedAtRest
  /\ \A s \in Slots : world[s].inUse /\ world[s].reapStarted => world[s].readerCount = 0
  /\ \A h \in Helpers : helper[h].at \in {"clean", "wipe"} => world[helper[h].id[1]].reapStarted
  /\ \A h \in Helpers : helper[h].at = "wipe" => ~world[helper[h].id[1]].joined

WorldInv ==
  /\ Types /\ IdsPast /\ MakersAlone /\ Held /\ ReadersExact
  /\ LeaderOutlivesMembers /\ ReapedUnread /\ OneReap /\ NoneAwaitsTheGone

(* No id stands for none.                                                  *)
LEMMA IdFacts ==
  /\ NoId \notin Ids
  /\ \A id \in Ids : id[1] \in Slots /\ id[2] \in Generations /\ id = <<id[1], id[2]>>
  /\ \A s \in Slots, g \in Generations : <<s, g>> \in Ids
  BY WorldBounds DEF NoId, Ids

(* The table is empty at first.                                            *)
LEMMA InitWorld == Init => WorldInv
<1> SUFFICES ASSUME Init PROVE WorldInv
  OBVIOUS
<1>1. 0 \in Generations /\ 0 \in 0..MaxBinds /\ 0 \in 0..SCSI_REAP_RETRIES /\ 0 \in 0..MaxKills
  BY WorldBounds DEF Generations
<1>2. Types
  BY <1>1 DEF Init, Types, Records, Blank, Idle, RunStates, KillLevels
<1>3. IdsPast
  <2>1. \A s \in Slots : world[s] = Blank(0) /\ world[s].generation = 0 /\ ~world[s].inUse
    BY DEF Init, Blank
  <2> QED
    BY <1>1, <2>1 DEF Init, IdsPast, Idle
<1>4. MakersAlone /\ Held /\ LeaderOutlivesMembers /\ ReapedUnread /\ OneReap /\ NoneAwaitsTheGone
  BY DEF Init, MakersAlone, Making, Held, Holders, LeaderOutlivesMembers, ReapedUnread,
         ReapedAtRest, OneReap, NoneAwaitsTheGone, Blank, Idle
<1>5. \A id : Holders(id) = {} /\ Members(id) = {}
  BY DEF Init, Holders, Members, Blank, Idle
<1>6. ReadersExact
  <2>1. \A s \in Slots : world[s].readerCount = 0
    BY DEF Init, Blank
  <2>2. \A id : Cardinality(Holders(id)) = 0 /\ Cardinality(Members(id)) = 0
    BY <1>5, FS_EmptySet
  <2> QED
    BY <2>1, <2>2 DEF ReadersExact
<1> QED
  BY <1>2, <1>3, <1>4, <1>6 DEF WorldInv

(* Holders and members can be counted.                                     *)
LEMMA ReadersFinite ==
  ASSUME NEW id
  PROVE  /\ IsFiniteSet(Holders(id)) /\ IsFiniteSet(Members(id))
         /\ Cardinality(Holders(id)) \in 0 .. Cardinality(Threads)
         /\ Cardinality(Members(id)) \in 0 .. Cardinality(Slots)
         /\ Cardinality(Threads) \in Nat /\ Cardinality(Slots) \in Nat
<1>1. Holders(id) \subseteq Threads /\ Members(id) \subseteq Slots
  BY DEF Holders, Members
<1>2. /\ IsFiniteSet(Holders(id)) /\ Cardinality(Holders(id)) <= Cardinality(Threads)
      /\ IsFiniteSet(Members(id)) /\ Cardinality(Members(id)) <= Cardinality(Slots)
  BY <1>1, FS_Subset, WorldBounds
<1>3. /\ Cardinality(Holders(id)) \in Nat /\ Cardinality(Members(id)) \in Nat
      /\ Cardinality(Threads) \in Nat /\ Cardinality(Slots) \in Nat
  BY <1>2, FS_CardinalityType, WorldBounds
<1> QED
  BY <1>2, <1>3

(* A world without readers has no holders and no members.                  *)
LEMMA NoReaders ==
  ASSUME WorldInv, NEW s \in Slots, world[s].readerCount = 0
  PROVE  Holders(IdOf(s)) = {} /\ Members(IdOf(s)) = {}
<1>1. Cardinality(Holders(IdOf(s))) + Cardinality(Members(IdOf(s))) = 0
  BY DEF WorldInv, ReadersExact
<1>2. Cardinality(Holders(IdOf(s))) = 0 /\ Cardinality(Members(IdOf(s))) = 0
  BY <1>1, ReadersFinite
<1> QED
  BY <1>2, ReadersFinite, FS_EmptySet

(* A world that somebody found is no half-made one, and can be found.      *)
LEMMA HolderFacts ==
  ASSUME WorldInv, NEW t \in Threads, thread[t].at \in {"holds", "remove", "add"}
  PROVE  /\ thread[t].id \in Ids /\ Findable(thread[t].id) /\ Past(thread[t].id)
         /\ thread[t].id[1] \in Slots /\ thread[t].id = IdOf(thread[t].id[1])
         /\ \A u \in Threads : Making(u) => thread[u].id[1] # thread[t].id[1]
<1>1. Past(thread[t].id) /\ thread[t].id \in Ids
  BY DEF WorldInv, IdsPast, Past
<1>2. Findable(thread[t].id)
  BY <1>1 DEF WorldInv, Held, Holders
<1>3. \A u \in Threads : Making(u) => thread[u].id # thread[t].id /\ WorldFind(thread[u].id)
  BY DEF WorldInv, MakersAlone, MadeAlone, Making
<1> QED
  BY <1>1, <1>2, <1>3 DEF Findable, WorldFind

(* A world that runs or waits is in use, not being cleaned up, and no      *)
(* half-made one.                                                          *)
LEMMA RunnerFacts ==
  ASSUME WorldInv, NEW s \in Slots, world[s].runState \notin {"NEW", "ZOMBIE"}
  PROVE  /\ IdOf(s) \in Ids /\ Findable(IdOf(s)) /\ Past(IdOf(s))
         /\ \A u \in Threads : Making(u) => thread[u].id[1] # s
<1>1. IdOf(s) \in Ids /\ IdOf(s)[1] = s /\ Past(IdOf(s))
  BY IdFacts DEF WorldInv, Types, Records, IdOf, Past, Generations
<1>2. world[s].inUse /\ ~world[s].reapStarted
  <2>1. Blank(world[s].generation).runState = "NEW"
    BY DEF Blank
  <2>2. world[s].inUse
    BY <2>1 DEF WorldInv, IdsPast
  <2> QED
    BY <2>2 DEF WorldInv, ReapedUnread, ReapedAtRest
<1>3. \A u \in Threads : Making(u) => thread[u].id[1] # s
  BY DEF WorldInv, MakersAlone, MadeAlone
<1> QED
  BY <1>1, <1>2, <1>3 DEF Findable, WorldFind

(* The world in a slot, after it ran, slept, was bound to or killed.       *)
RunsLike(w, v) ==
  /\ w.inUse = v.inUse /\ w.generation = v.generation
  /\ w.leader = v.leader /\ w.joined = v.joined
  /\ w.readerCount = v.readerCount
  /\ w.reapStarted = v.reapStarted /\ w.reapScheduled = v.reapScheduled

(* A step that changes neither who holds what nor what is made, reaped or  *)
(* joined: worlds run, sleep, die, are bound to and killed.                *)
LEMMA QuietStep ==
  ASSUME WorldInv, Types', made' = made, helper' = helper,
         \A s \in Slots : RunsLike(world'[s], world[s]),
         \A s \in Slots : ~world[s].inUse => world'[s] = world[s],
         \A s \in Slots : world[s].reapStarted =>
           world'[s].runState = world[s].runState /\ world'[s].hostCount = world[s].hostCount,
         \A t \in Threads : Making(t) => world'[thread[t].id[1]].runState = "NEW",
         \A t \in Threads :
           /\ thread'[t].id = thread[t].id
           /\ \/ thread'[t].at = thread[t].at
              \/ {thread'[t].at, thread[t].at} \subseteq {"holds", "remove", "add"},
         \A id \in Ids : reapTimers'[id] > 0 =>
           reapTimers[id] > 0 \/ (Past(id) /\ \A t \in Threads : Making(t) => thread[t].id # id)
  PROVE  WorldInv'
<1> USE DEF WorldInv, RunsLike
<1>1. \A s \in Slots : IdOf(s)' = IdOf(s)
  BY DEF IdOf
<1>2. \A id : (id \in Ids => (Past(id)' <=> Past(id))) /\ (WorldFind(id)' <=> WorldFind(id)) /\ (Findable(id)' <=> Findable(id))
  BY <1>1, IdFacts DEF Past, WorldFind, Findable
<1>3. \A t \in Threads : Making(t)' <=> Making(t)
  BY DEF Making
<1>4. \A id : Holders(id)' = Holders(id)
  BY DEF Holders
<1>5. \A id : Members(id)' = Members(id)
  BY <1>1 DEF Members
<1>6. IdsPast'
  <2>1. \A s \in Slots : /\ world'[s].generation <= made'
                         /\ world'[s].inUse => Past(world[s].leader)'
                         /\ ~world'[s].inUse => world'[s] = Blank(world'[s].generation)
    BY <1>2 DEF IdsPast, Past
  <2>2. \A t \in Threads : IF thread'[t].at = "idle" THEN thread'[t] = Idle ELSE Past(thread[t].id)'
    <3>1. \A t \in Threads : thread'[t].at = "idle" => thread[t] = Idle
      BY DEF IdsPast
    <3>2. \A t \in Threads : thread'[t] = [at |-> thread'[t].at, id |-> thread'[t].id]
      BY DEF Types
    <3>3. \A t \in Threads : thread'[t].at = "idle" => thread'[t] = Idle
      BY <3>1, <3>2 DEF Idle
    <3>4. \A t \in Threads : thread'[t].at # "idle" => Past(thread[t].id)'
      BY <1>2 DEF IdsPast, Past
    <3> QED
      BY <3>3, <3>4
  <2>3. \A id \in Ids : reapTimers'[id] > 0 => Past(id)'
    BY <1>2 DEF IdsPast
  <2> QED
    BY <2>1, <2>2, <2>3 DEF IdsPast, Past
<1>7. MakersAlone'
  <2> SUFFICES ASSUME NEW t \in Threads, Making(t) PROVE MadeAlone(t, thread[t].id)'
    BY <1>3 DEF MakersAlone
  <2>1. thread[t].id \in Ids /\ thread[t].id[1] \in Slots /\ thread'[t].at = thread[t].at
    BY IdFacts DEF IdsPast, Past, Making
  <2>2. MadeAlone(t, thread[t].id)
    BY DEF MakersAlone
  <2>3. reapTimers'[thread[t].id] = 0
    BY <2>1, <2>2 DEF Types, MadeAlone
  <2>4. LET s == thread[t].id[1]
        IN /\ world'[s].joined = world[s].joined /\ world'[s].leader = world[s].leader
           /\ world'[s].reapStarted = world[s].reapStarted
           /\ world'[s].reapScheduled = world[s].reapScheduled
           /\ world'[s].readerCount = world[s].readerCount
    BY <2>1
  <2>5. WorldFind(thread[t].id)'
    BY <2>1, <2>2 DEF MadeAlone, WorldFind, IdOf
  <2>6. world'[thread[t].id[1]].joined <=> thread'[t].at \in {"rest", "clean"}
    BY <2>1, <2>2, <2>4 DEF MadeAlone
  <2>7. \A u \in Threads \ {t} : thread'[u].id # thread[t].id
    BY <2>2 DEF MadeAlone
  <2>8. \A s \in Slots : world'[s].leader = thread[t].id => s = thread[t].id[1]
    BY <2>2 DEF MadeAlone
  <2> QED
    BY <2>1, <2>2, <2>3, <2>4, <2>5, <2>6, <2>7, <2>8 DEF MadeAlone
<1>8. Held' /\ ReadersExact' /\ LeaderOutlivesMembers'
  BY <1>1, <1>2, <1>4, <1>5 DEF Held, ReadersExact, LeaderOutlivesMembers, Findable, WorldFind, IdOf
<1>9. OneReap' /\ NoneAwaitsTheGone'
  BY <1>2, IdFacts DEF OneReap, NoneAwaitsTheGone, Idle, WorldFind, IdOf
<1>10. ReapedUnread'
  <2>1. \A h \in Helpers : helper[h].at \in {"clean", "wipe"} => helper[h].id[1] \in Slots
    BY DEF OneReap, Idle, WorldFind
  <2> QED
    BY <2>1 DEF ReapedUnread, ReapedAtRest
<1> QED
  BY <1>6, <1>7, <1>8, <1>9, <1>10

(* The same for a step that changes one world, which is in use and neither *)
(* half-made nor being cleaned up.                                         *)
LEMMA QuietWorld ==
  ASSUME WorldInv, made' = made, helper' = helper,
         NEW s \in Slots, NEW w \in Records, RunsLike(w, world[s]), world' = [world EXCEPT ![s] = w],
         Findable(IdOf(s)), \A u \in Threads : Making(u) => thread[u].id[1] # s,
         \/ thread' = thread
         \/ \E t \in Threads, to \in {"holds", "remove", "add"} :
              thread[t].at \in {"holds", "remove", "add"} /\ thread' = [thread EXCEPT ![t].at = to],
         reapTimers' = reapTimers \/ reapTimers' = WorldScheduleReap(reapTimers, IdOf(s)),
         killTimers' \subseteq Ids, kills' \in 0 .. MaxKills
  PROVE  WorldInv'
<1> USE DEF WorldInv
<1>1. IdOf(s) \in Ids /\ IdOf(s)[1] = s /\ Past(IdOf(s))
  BY IdFacts DEF Types, Records, IdOf, Past, Generations
<1>2. world[s].inUse /\ ~world[s].reapStarted
  BY <1>1 DEF Findable, WorldFind
<1>3. thread' \in [Threads -> [at : {"idle", "init", "join", "lost", "rest", "clean", "wipe", "holds",
                                   "remove", "add", "awaits", "asleep"}, id : Ids \cup {NoId}]]
  BY DEF Types
<1>4. reapTimers' \in [Ids -> 0 .. 2]
  BY <1>1 DEF Types, WorldScheduleReap
<1>5. Types'
  BY <1>3, <1>4 DEF Types
<1>6. \A r \in Slots : r # s => world'[r] = world[r]
  BY DEF Types
<1>7. world'[s] = w
  BY DEF Types
<1>8. \A t \in Threads :
        /\ thread'[t].id = thread[t].id
        /\ \/ thread'[t].at = thread[t].at
           \/ {thread'[t].at, thread[t].at} \subseteq {"holds", "remove", "add"}
  BY DEF Types
<1>9. \A t \in Threads : Making(t) => thread[t].id[1] \in Slots /\ world[thread[t].id[1]].runState = "NEW"
  BY DEF MakersAlone, MadeAlone, WorldFind
<1>10. \A t \in Threads : Making(t) => thread[t].id # IdOf(s)
  BY <1>1
<1>11. \A id \in Ids : reapTimers'[id] > 0 =>
         reapTimers[id] > 0 \/ (Past(id) /\ \A t \in Threads : Making(t) => thread[t].id # id)
  BY <1>1, <1>10 DEF WorldScheduleReap, Types
<1>12. \A t \in Threads : Making(t) => world'[thread[t].id[1]].runState = "NEW"
  BY <1>6, <1>9
<1>13. \A r \in Slots : RunsLike(world'[r], world[r])
  BY <1>6, <1>7 DEF RunsLike
<1>14. /\ \A r \in Slots : ~world[r].inUse => world'[r] = world[r]
       /\ \A r \in Slots : world[r].reapStarted =>
            world'[r].runState = world[r].runState /\ world'[r].hostCount = world[r].hostCount
  BY <1>2, <1>6
<1> QED
  BY <1>5, <1>8, <1>11, <1>12, <1>13, <1>14, QuietStep

(* What World_Kill and WorldKillUnconditional set.                         *)
LEMMA KilledRecord ==
  ASSUME NEW v \in Records, NEW hc \in 0 .. MaxBinds, NEW level \in KillLevels
  PROVE  /\ [v EXCEPT !.hostCount = hc, !.deathPending = TRUE, !.killLevel = level] \in Records
         /\ RunsLike([v EXCEPT !.hostCount = hc, !.deathPending = TRUE, !.killLevel = level], v)
         /\ [v EXCEPT !.deathPending = TRUE, !.killLevel = level] \in Records
         /\ RunsLike([v EXCEPT !.deathPending = TRUE, !.killLevel = level], v)
<1>1. [v EXCEPT !.hostCount = hc, !.deathPending = TRUE, !.killLevel = level] \in Records
  BY DEF Records
<1>2. RunsLike([v EXCEPT !.hostCount = hc, !.deathPending = TRUE, !.killLevel = level], v)
  BY DEF Records, RunsLike
<1>3. [v EXCEPT !.deathPending = TRUE, !.killLevel = level] \in Records
  BY DEF Records
<1>4. RunsLike([v EXCEPT !.deathPending = TRUE, !.killLevel = level], v)
  BY DEF Records, RunsLike
<1> QED
  BY <1>1, <1>2, <1>3, <1>4

(* World_Bind, the kills, World_MakeRunnable and what the world itself     *)
(* does are such steps.                                                    *)
LEMMA QuietActions ==
  ASSUME WorldInv,
         \/ \E t \in Threads : \/ \E clearHostCount \in BOOLEAN : World_Destroy(t, clearHostCount)
                               \/ WorldKillUnconditional(t) \/ World_MakeRunnable(t)
         \/ \E s \in Slots : \/ World_Bind(IdOf(s)) \/ CpuSched_Wait(s) \/ CpuSched_Wakeup(s)
                             \/ WaitReturns(s) \/ World_Exit(s) \/ CpuSched_Die(s)
         \/ \E id \in Ids : WorldKillDemand(id),
         OpenWindows \subseteq {"sleep"}
  PROVE  WorldInv'
<1>0. /\ world \in [Slots -> Records] /\ (\A s \in Slots : world[s] \in Records /\ IdOf(s)[1] = s)
      /\ killTimers \subseteq Ids /\ kills \in 0 .. MaxKills
  BY DEF WorldInv, Types, IdOf
<1>1. ASSUME NEW t \in Threads, NEW clearHostCount \in BOOLEAN, World_Destroy(t, clearHostCount)
      PROVE  WorldInv'
  <2> DEFINE s == thread[t].id[1]
  <2>1. /\ s \in Slots /\ thread[t].id = IdOf(s) /\ Findable(IdOf(s)) /\ thread[t].id \in Ids
        /\ \A u \in Threads : Making(u) => thread[u].id[1] # s
    BY <1>1, HolderFacts DEF World_Destroy
  <2>2. PICK hc \in 0 .. MaxBinds :
          /\ thread[t].at = "holds" /\ UNCHANGED <<made, helper, reapTimers>>
          /\ \/ /\ world' = [world EXCEPT ![thread[t].id[1]].hostCount = hc]
                /\ UNCHANGED <<thread, killTimers, kills>>
             \/ World_Kill(t, hc)
    <3> DEFINE h == IF clearHostCount THEN 0 ELSE world[thread[t].id[1]].hostCount - 1
    <3>1. world[s].hostCount \in 0 .. MaxBinds
      BY <1>0, <2>1 DEF Records
    <3>2. clearHostCount \/ world[s].hostCount > 0
      BY <1>1 DEF World_Destroy
    <3>3. h \in 0 .. MaxBinds
      BY <3>1, <3>2, WorldBounds
    <3>4. /\ thread[t].at = "holds" /\ UNCHANGED <<made, helper, reapTimers>>
          /\ IF h > 0
             THEN /\ world' = [world EXCEPT ![thread[t].id[1]].hostCount = h]
                  /\ UNCHANGED <<thread, killTimers, kills>>
             ELSE World_Kill(t, h)
      BY <1>1, Zenon DEF World_Destroy
    <3> HIDE DEF h
    <3> QED
      BY <3>3, <3>4, Zenon
  <2>3. CASE /\ world' = [world EXCEPT ![thread[t].id[1]].hostCount = hc]
             /\ UNCHANGED <<thread, killTimers, kills>>
    <3> DEFINE w == [world[s] EXCEPT !.hostCount = hc]
    <3>1. w \in Records /\ RunsLike(w, world[s])
      BY <1>0, <2>1 DEF Records, RunsLike
    <3>2. world' = [world EXCEPT ![s] = w]
      BY <2>3
    <3> HIDE DEF w
    <3> QED
      BY <1>0, <2>1, <2>2, <2>3, <3>1, <3>2, QuietWorld
  <2>4. CASE World_Kill(t, hc)
    <3> DEFINE w == [world[s] EXCEPT !.hostCount = hc, !.deathPending = TRUE, !.killLevel = "NICE"]
    <3>1. w \in Records /\ RunsLike(w, world[s])
      BY <1>0, <2>1, KilledRecord DEF KillLevels
    <3>2. world' = [world EXCEPT ![s] = w]
      BY <1>0, <2>1, <2>4 DEF World_Kill
    <3>3. killTimers' \subseteq Ids
      BY <1>0, <2>1, <2>4 DEF World_Kill
    <3>4. kills' \in 0 .. MaxKills
      BY <1>0, <2>4, WorldBounds DEF World_Kill
    <3>5. thread' = thread \/ thread' = [thread EXCEPT ![t].at = "remove"]
      BY <2>4 DEF World_Kill, Go
    <3> HIDE DEF w
    <3> QED
      BY <1>0, <2>1, <2>2, <3>1, <3>2, <3>3, <3>4, <3>5, QuietWorld
  <2> QED
    BY <2>2, <2>3, <2>4
<1>2. ASSUME NEW t \in Threads, WorldKillUnconditional(t) PROVE WorldInv'
  <2> DEFINE s == thread[t].id[1]
             v == [world[s] EXCEPT !.deathPending = TRUE, !.killLevel = "UNCONDITIONAL"]
  <2>1. /\ s \in Slots /\ thread[t].id = IdOf(s) /\ Findable(IdOf(s)) /\ thread[t].id \in Ids
        /\ \A u \in Threads : Making(u) => thread[u].id[1] # s
    BY <1>2, HolderFacts DEF WorldKillUnconditional
  <2>2. v \in Records /\ RunsLike(v, world[s])
    <3>1. 0 \in 0 .. MaxBinds /\ world[s] \in Records /\ "UNCONDITIONAL" \in KillLevels
      BY <1>0, <2>1, WorldBounds DEF KillLevels
    <3> QED
      BY <3>1, KilledRecord
  <2>3. PICK w : /\ w \in {v, [v EXCEPT !.runState = "ZOMBIE"], [v EXCEPT !.runState = "WOKEN"]}
                 /\ world' = [world EXCEPT ![s] = w]
    BY <1>2 DEF WorldKillUnconditional, Woken
  <2>4. w \in Records /\ RunsLike(w, world[s])
    <3> HIDE DEF v
    <3> QED
      BY <2>2, <2>3 DEF Records, RunsLike, RunStates
  <2>5. reapTimers' = reapTimers \/ reapTimers' = WorldScheduleReap(reapTimers, IdOf(s))
    BY <1>2, <2>1 DEF WorldKillUnconditional
  <2> QED
    BY <1>0, <1>2, <2>1, <2>3, <2>4, <2>5, QuietWorld DEF WorldKillUnconditional, Go
<1>3. ASSUME NEW t \in Threads, World_MakeRunnable(t) PROVE WorldInv'
  <2> DEFINE s == thread[t].id[1]
  <2>1. /\ s \in Slots /\ thread[t].id = IdOf(s) /\ Findable(IdOf(s)) /\ thread[t].id \in Ids
        /\ \A u \in Threads : Making(u) => thread[u].id[1] # s
    BY <1>3, HolderFacts DEF World_MakeRunnable
  <2>2. PICK w : w \in {world[s], [world[s] EXCEPT !.runState = "RUN"]} /\ world' = [world EXCEPT ![s] = w]
    BY <1>0, <1>3 DEF World_MakeRunnable
  <2>3. w \in Records /\ RunsLike(w, world[s])
    BY <1>0, <2>1, <2>2 DEF Records, RunsLike, RunStates
  <2> QED
    BY <1>0, <1>3, <2>1, <2>2, <2>3, QuietWorld DEF World_MakeRunnable, Go
<1>4. ASSUME NEW s \in Slots, World_Bind(IdOf(s)) PROVE WorldInv'
  <2>1. Findable(IdOf(s)) /\ \A u \in Threads : Making(u) => thread[u].id # IdOf(s)
    BY <1>4 DEF World_Bind, Known, HalfMade
  <2>2. \A u \in Threads : Making(u) => thread[u].id[1] # s
    BY <2>1 DEF WorldInv, MakersAlone, MadeAlone, WorldFind
  <2> DEFINE w == [world[s] EXCEPT !.hostCount = @ + 1]
  <2>3. w \in Records /\ RunsLike(w, world[s])
    BY <1>0, <1>4, WorldBounds DEF World_Bind, RunsLike, Records
  <2>4. world' = [world EXCEPT ![s] = w]
    BY <1>0, <1>4 DEF World_Bind
  <2> HIDE DEF w
  <2> QED
    BY <1>0, <1>4, <2>1, <2>2, <2>3, <2>4, QuietWorld DEF World_Bind
<1>5. ASSUME NEW s \in Slots,
             CpuSched_Wait(s) \/ CpuSched_Wakeup(s) \/ WaitReturns(s) \/ World_Exit(s) \/ CpuSched_Die(s)
      PROVE  WorldInv'
  <2>1. world[s].runState \notin {"NEW", "ZOMBIE"}
    BY <1>5 DEF CpuSched_Wait, CpuSched_Wakeup, WaitReturns, World_Exit, CpuSched_Die
  <2>2. Findable(IdOf(s)) /\ \A u \in Threads : Making(u) => thread[u].id[1] # s
    BY <2>1, RunnerFacts
  <2>3. PICK to \in RunStates : world' = [world EXCEPT ![s].runState = to]
    <3>1. CASE CpuSched_Wakeup(s)
      <4>1. Woken(world[s]) = [world[s] EXCEPT !.runState = "WOKEN"]
        BY <3>1 DEF CpuSched_Wakeup, Woken
      <4> QED
        BY <3>1, <4>1 DEF CpuSched_Wakeup, RunStates
    <3> QED
      BY <1>5, <3>1 DEF CpuSched_Wait, WaitReturns, World_Exit, CpuSched_Die, RunStates
  <2> DEFINE w == [world[s] EXCEPT !.runState = to]
  <2>4. w \in Records /\ RunsLike(w, world[s])
    BY <1>0, <2>3 DEF RunsLike, Records
  <2>5. world' = [world EXCEPT ![s] = w]
    BY <2>3
  <2>6. /\ UNCHANGED <<made, thread, helper, killTimers, kills>>
        /\ reapTimers' = reapTimers \/ reapTimers' = WorldScheduleReap(reapTimers, IdOf(s))
    BY <1>5 DEF CpuSched_Wait, CpuSched_Wakeup, WaitReturns, World_Exit, CpuSched_Die
  <2> HIDE DEF w
  <2> QED
    BY <1>0, <2>2, <2>4, <2>5, <2>6, QuietWorld
<1>6. ASSUME NEW id \in Ids, WorldKillDemand(id) PROVE WorldInv'
  <2>1. CASE Findable(id) /\ \A u \in Threads : Making(u) => thread[u].id # id
    <3> DEFINE s == id[1]
               v == [world[s] EXCEPT !.killLevel = "DEMAND"]
    <3>1. s \in Slots /\ id = IdOf(s) /\ Findable(IdOf(s))
      BY <2>1 DEF Findable, WorldFind
    <3>2. \A u \in Threads : Making(u) => thread[u].id[1] # s
      BY <2>1, <3>1 DEF WorldInv, MakersAlone, MadeAlone, WorldFind
    <3>3. v \in Records /\ RunsLike(v, world[s])
      BY <1>0, <3>1 DEF Records, RunsLike, KillLevels
    <3>4. PICK w : w \in {v, [v EXCEPT !.runState = "WOKEN"]} /\ world' = [world EXCEPT ![s] = w]
      BY <1>6, <2>1 DEF WorldKillDemand, Woken
    <3>5. w \in Records /\ RunsLike(w, world[s])
      <4> HIDE DEF v
      <4> QED
        BY <3>3, <3>4 DEF Records, RunsLike, RunStates
    <3> QED
      BY <1>0, <1>6, <3>1, <3>2, <3>4, <3>5, QuietWorld DEF WorldKillDemand
  <2>2. CASE ~Findable(id)
    <3>1. UNCHANGED <<world, made, thread, helper, reapTimers>>
      BY <1>6, <2>2 DEF WorldKillDemand
    <3>2. Types'
      BY <1>6, <3>1 DEF WorldInv, Types, WorldKillDemand
    <3>3. \A t \in Threads : Making(t) => world'[thread[t].id[1]].runState = "NEW"
      BY <3>1 DEF WorldInv, MakersAlone, MadeAlone
    <3> QED
      BY <3>1, <3>2, <3>3, QuietStep DEF RunsLike
  <2>3. CASE \E u \in Threads : Making(u) /\ thread[u].id = id
    <3>1. PICK u \in Threads : Making(u) /\ thread[u].id = id
      BY <2>3
    <3>2. /\ MadeAlone(u, id) /\ id[1] \in Slots /\ Findable(id)
          /\ world[id[1]].runState = "NEW" /\ world[id[1]].inUse /\ ~world[id[1]].reapStarted
      BY <3>1 DEF WorldInv, MakersAlone, MadeAlone, WorldFind, Findable
    <3> DEFINE v == [world[id[1]] EXCEPT !.killLevel = "DEMAND"]
    <3>3. v \in Records /\ RunsLike(v, world[id[1]]) /\ v.runState = "NEW"
      <4>1. world[id[1]] \in Records
        BY <1>0, <3>2
      <4>2. v \in Records
        BY <4>1 DEF Records, KillLevels
      <4> QED
        BY <3>2, <4>1, <4>2 DEF Records, RunsLike
    <3>4. world' = [world EXCEPT ![id[1]] = v] /\ UNCHANGED <<made, thread, helper, reapTimers, kills>>
      BY <1>6, <3>2, <3>3 DEF WorldKillDemand, Woken
    <3> HIDE DEF v
    <3>5. Types'
      <4>1. world' \in [Slots -> Records]
        BY <1>0, <3>3, <3>4
      <4>2. killTimers' \subseteq Ids
        BY <1>0, <1>6 DEF WorldKillDemand
      <4> QED
        BY <3>4, <4>1, <4>2 DEF WorldInv, Types
    <3>6. world'[id[1]] = v /\ \A r \in Slots : r # id[1] => world'[r] = world[r]
      BY <1>0, <3>2, <3>4
    <3>7. \A t \in Threads : Making(t) => thread[t].id[1] \in Slots /\ world[thread[t].id[1]].runState = "NEW"
      BY DEF WorldInv, MakersAlone, MadeAlone, WorldFind
    <3>8. \A r \in Slots : RunsLike(world'[r], world[r])
      BY <3>3, <3>6 DEF RunsLike
    <3>9. \A t \in Threads : Making(t) => world'[thread[t].id[1]].runState = "NEW"
      BY <3>3, <3>6, <3>7
    <3>10. /\ \A r \in Slots : ~world[r].inUse => world'[r] = world[r]
           /\ \A r \in Slots : world[r].reapStarted =>
                world'[r].runState = world[r].runState /\ world'[r].hostCount = world[r].hostCount
      BY <3>2, <3>6
    <3> QED
      BY <3>4, <3>5, <3>8, <3>9, <3>10, QuietStep
  <2> QED
    BY <2>1, <2>2, <2>3
<1> QED
  BY <1>1, <1>2, <1>3, <1>4, <1>5, <1>6

(* A step that gives no slot out and takes none back.                      *)
LEMMA SameTable ==
  ASSUME WorldInv,
         \A s \in Slots : world'[s].inUse = world[s].inUse /\ world'[s].generation = world[s].generation
  PROVE  /\ \A s \in Slots : IdOf(s)' = IdOf(s)
         /\ \A id : WorldFind(id)' <=> WorldFind(id)
         /\ \A id \in Ids : Past(id)' <=> Past(id)
  BY IdFacts DEF IdOf, WorldFind, Past

(* World_Find: one more holder of a world that is made and not reaped.     *)
LEMMA FindStep ==
  ASSUME WorldInv, OpenWindows \subseteq {"sleep"},
         NEW t \in Threads, NEW s \in Slots, World_Find(t, IdOf(s))
  PROVE  WorldInv'
<1> USE DEF WorldInv
<1>1. PICK id : id = IdOf(s)
  OBVIOUS
<1>2. id \in Ids /\ id[1] = s /\ Past(id) /\ id = <<s, world[s].generation>>
  BY <1>1, IdFacts DEF Types, Records, IdOf, Past, Generations
<1>3. Findable(id) /\ (\A u \in Threads : Making(u) => thread[u].id # id) /\ thread[t].at = "idle"
  BY <1>1 DEF World_Find, Known, HalfMade
<1>4. \A u \in Threads : Making(u) => thread[u].id[1] \in Slots /\ thread[u].id[1] # s
  <2>1. \A u \in Threads : Making(u) => WorldFind(thread[u].id)
    BY DEF MakersAlone, MadeAlone
  <2> QED
    BY <1>1, <1>3, <2>1 DEF WorldFind
<1>5. /\ world' = [world EXCEPT ![s].readerCount = @ + 1]
      /\ thread' = [thread EXCEPT ![t] = [at |-> "holds", id |-> id]]
      /\ UNCHANGED <<made, helper, reapTimers, killTimers, kills>>
  BY <1>1, <1>2 DEF World_Find
<1>6. /\ \A r \in Slots : r # s => world'[r] = world[r]
      /\ world'[s] = [world[s] EXCEPT !.readerCount = @ + 1] /\ world[s] \in Records
  BY <1>5 DEF Types
<1>7. /\ world'[s].inUse = world[s].inUse /\ world'[s].generation = world[s].generation
      /\ world'[s].leader = world[s].leader /\ world'[s].joined = world[s].joined
      /\ world'[s].reapStarted = world[s].reapStarted /\ world'[s].reapScheduled = world[s].reapScheduled
      /\ world'[s].readerCount = world[s].readerCount + 1
      /\ world'[s].runState = world[s].runState /\ world'[s].hostCount = world[s].hostCount
  BY <1>6 DEF Records
<1>8. /\ thread'[t] = [at |-> "holds", id |-> id]
      /\ \A u \in Threads : u # t => thread'[u] = thread[u]
  BY <1>5 DEF Types
<1>9. world[s].inUse /\ ~world[s].reapStarted
  BY <1>2, <1>3 DEF Findable, WorldFind
<1>10. /\ \A r \in Slots : IdOf(r)' = IdOf(r)
       /\ \A i : WorldFind(i)' <=> WorldFind(i)
       /\ \A i \in Ids : Past(i)' <=> Past(i)
  BY <1>6, <1>7, SameTable
<1>11. \A i : Findable(i)' <=> Findable(i)
  BY <1>6, <1>7, <1>10 DEF Findable, WorldFind
<1>12. Types'
  <2>1. world' \in [Slots -> Records]
    <3>1. [world[s] EXCEPT !.readerCount = @ + 1] \in Records
      BY <1>6 DEF Records
    <3> QED
      BY <1>5, <3>1 DEF Types
  <2> QED
    BY <1>2, <1>5, <2>1 DEF Types
<1>13. IdsPast'
  <2>1. \A r \in Slots : /\ world'[r].generation <= made'
                         /\ world'[r].inUse => Past(world[r].leader)
                         /\ ~world'[r].inUse => world'[r] = Blank(world'[r].generation)
                         /\ world'[r].leader = world[r].leader
    BY <1>5, <1>6, <1>7, <1>9 DEF IdsPast
  <2>2. \A u \in Threads : IF thread'[u].at = "idle" THEN thread'[u] = Idle ELSE Past(thread'[u].id)
    BY <1>2, <1>8 DEF IdsPast
  <2> QED
    BY <1>5, <1>10, <2>1, <2>2 DEF IdsPast, Past
<1>14. MakersAlone'
  <2> SUFFICES ASSUME NEW u \in Threads, Making(u)' PROVE MadeAlone(u, thread[u].id)'
    BY DEF MakersAlone
  <2>1. u # t /\ Making(u) /\ thread'[u] = thread[u]
    BY <1>8 DEF Making
  <2>2. PICK i : i = thread[u].id
    OBVIOUS
  <2>3. MadeAlone(u, i) /\ i[1] \in Slots /\ i[1] # s /\ world'[i[1]] = world[i[1]] /\ i # id
    BY <1>3, <1>4, <1>6, <2>1, <2>2 DEF MakersAlone
  <2>4. \A r \in Slots : world'[r].leader = i => r = i[1]
    <3>1. \A r \in Slots : world[r].leader = i => r = i[1]
      BY <2>3 DEF MadeAlone
    <3> QED
      BY <1>6, <1>7, <3>1
  <2>5. MadeAlone(u, i)'
    BY <1>5, <1>8, <1>10, <2>1, <2>3, <2>4 DEF MadeAlone
  <2> QED
    BY <2>1, <2>2, <2>5
<1>15. \A i : Members(i)' = Members(i)
  BY <1>6, <1>7, <1>10 DEF Members
<1>16. Holders(id)' = Holders(id) \cup {t} /\ t \notin Holders(id)
  BY <1>3, <1>8 DEF Holders
<1>17. \A i : i # id => Holders(i)' = Holders(i)
  BY <1>3, <1>8 DEF Holders
<1>18. Held'
  BY <1>3, <1>11, <1>16, <1>17 DEF Held
<1>19. ReadersExact'
  <2>1. Cardinality(Holders(id) \cup {t}) = Cardinality(Holders(id)) + 1
    BY <1>16, ReadersFinite, FS_AddElement
  <2>2. Cardinality(Holders(id)) \in Nat /\ Cardinality(Members(id)) \in Nat
    BY ReadersFinite
  <2>3. world'[s].readerCount = Cardinality(Holders(id)') + Cardinality(Members(id)')
    BY <1>1, <1>7, <1>15, <1>16, <2>1, <2>2 DEF ReadersExact
  <2>4. \A r \in Slots : r # s => IdOf(r) # id
    BY <1>2 DEF IdOf
  <2>5. \A r \in Slots : r # s =>
          world'[r].readerCount = Cardinality(Holders(IdOf(r))') + Cardinality(Members(IdOf(r))')
    BY <1>6, <1>10, <1>15, <1>17, <2>4 DEF ReadersExact
  <2> QED
    BY <1>1, <1>10, <2>3, <2>5 DEF ReadersExact
<1>20. LeaderOutlivesMembers'
  BY <1>6, <1>7, <1>10, <1>11 DEF LeaderOutlivesMembers
<1>21. ReapedUnread'
  <2>1. \A h \in Helpers : helper[h].at \in {"clean", "wipe"} => helper[h].id[1] \in Slots
    BY DEF OneReap, Idle, WorldFind
  <2> QED
    BY <1>5, <1>6, <1>7, <1>9, <2>1 DEF ReapedUnread, ReapedAtRest
<1>22. OneReap' /\ NoneAwaitsTheGone'
  BY <1>5, <1>6, <1>7, <1>8, <1>10 DEF OneReap, NoneAwaitsTheGone, WorldFind, IdOf
<1> QED
  BY <1>12, <1>13, <1>14, <1>18, <1>19, <1>20, <1>21, <1>22

(* Nothing is done to the world that u makes, and nobody gets to know it.  *)
LEMMA MakerKept ==
  ASSUME WorldInv, NEW u \in Threads, Making(u), thread'[u] = thread[u],
         NEW i, i = thread[u].id, world'[i[1]] = world[i[1]], reapTimers'[i] = reapTimers[i],
         \A v \in Threads \ {u} : thread'[v].id = thread[v].id \/ thread'[v].id # i,
         \A r \in Slots : world'[r].leader = world[r].leader \/ world'[r].leader # i
  PROVE  MadeAlone(u, thread[u].id)'
<1>1. MadeAlone(u, i)
  BY DEF WorldInv, MakersAlone
<1>2. WorldFind(i)'
  BY <1>1 DEF MadeAlone, WorldFind, IdOf
<1>3. \A v \in Threads \ {u} : thread'[v].id # i
  BY <1>1 DEF MadeAlone
<1>4. \A r \in Slots : world'[r].leader = i => r = i[1]
  BY <1>1 DEF MadeAlone
<1>5. MadeAlone(u, i)'
  BY <1>1, <1>2, <1>3, <1>4 DEF MadeAlone
<1> QED
  BY <1>5

(* World_Release, also where World_ReleaseAndWaitForDeath begins: one      *)
(* holder less.                                                            *)
LEMMA ReleaseStep ==
  ASSUME WorldInv, NEW t \in Threads, World_Release(t) \/ World_ReleaseAndWaitForDeath(t)
  PROVE  WorldInv'
<1> USE DEF WorldInv
<1>1. PICK id, s : id = thread[t].id /\ s = id[1]
  OBVIOUS
<1>2. /\ id \in Ids /\ s \in Slots /\ Findable(id) /\ Past(id) /\ id = IdOf(s)
      /\ (\A u \in Threads : Making(u) => thread[u].id[1] # s) /\ thread[t].at = "holds"
  BY <1>1, HolderFacts DEF World_Release, World_ReleaseAndWaitForDeath
<1>3. PICK to \in {Idle, [at |-> "awaits", id |-> id]} : thread' = [thread EXCEPT ![t] = to]
  <2>1. [thread[t] EXCEPT !.at = "awaits"] = [at |-> "awaits", id |-> id]
    BY <1>1 DEF Types
  <2> QED
    BY <2>1 DEF World_Release, World_ReleaseAndWaitForDeath, Go
<1>4. /\ world' = [world EXCEPT ![s].readerCount = @ - 1]
      /\ UNCHANGED <<made, helper, reapTimers, killTimers, kills>>
  BY <1>1 DEF World_Release, World_ReleaseAndWaitForDeath
<1>5. /\ \A r \in Slots : r # s => world'[r] = world[r]
      /\ world'[s] = [world[s] EXCEPT !.readerCount = @ - 1] /\ world[s] \in Records
  BY <1>2, <1>4 DEF Types
<1>6. /\ world'[s].inUse = world[s].inUse /\ world'[s].generation = world[s].generation
      /\ world'[s].leader = world[s].leader /\ world'[s].joined = world[s].joined
      /\ world'[s].reapStarted = world[s].reapStarted /\ world'[s].reapScheduled = world[s].reapScheduled
      /\ world'[s].readerCount = world[s].readerCount - 1
      /\ world'[s].runState = world[s].runState /\ world'[s].hostCount = world[s].hostCount
  BY <1>5 DEF Records
<1>7. thread'[t] = to /\ to.at \in {"idle", "awaits"} /\ to.id \in {NoId, id} /\ (to.at # "idle" => to.id = id)
  BY <1>3 DEF Types, Idle
<1>8. \A u \in Threads : u # t => thread'[u] = thread[u]
  BY <1>3 DEF Types
<1>9. world[s].inUse /\ ~world[s].reapStarted
  BY <1>1, <1>2 DEF Findable, WorldFind
<1>10. /\ \A r \in Slots : IdOf(r)' = IdOf(r)
       /\ \A i : WorldFind(i)' <=> WorldFind(i)
       /\ \A i \in Ids : Past(i)' <=> Past(i)
  BY <1>5, <1>6, SameTable
<1>11. \A i : Findable(i)' <=> Findable(i)
  BY <1>5, <1>6, <1>10 DEF Findable, WorldFind
<1>12. Types'
  <2>1. world' \in [Slots -> Records]
    <3>1. [world[s] EXCEPT !.readerCount = @ - 1] \in Records
      BY <1>5 DEF Records
    <3> QED
      BY <1>4, <3>1 DEF Types
  <2>2. to \in [at : {"idle", "awaits"}, id : Ids \cup {NoId}]
    BY <1>2, <1>3 DEF Idle
  <2> QED
    BY <1>3, <1>4, <2>1, <2>2 DEF Types
<1>13. IdsPast'
  <2>1. \A r \in Slots : /\ world'[r].generation <= made'
                         /\ world'[r].inUse => Past(world[r].leader)
                         /\ ~world'[r].inUse => world'[r] = Blank(world'[r].generation)
                         /\ world'[r].leader = world[r].leader
    BY <1>4, <1>5, <1>6, <1>9 DEF IdsPast
  <2>2. \A u \in Threads : IF thread'[u].at = "idle" THEN thread'[u] = Idle ELSE Past(thread'[u].id)
    BY <1>2, <1>7, <1>8 DEF IdsPast
  <2> QED
    BY <1>4, <1>10, <2>1, <2>2 DEF IdsPast, Past
<1>14. MakersAlone'
  <2> SUFFICES ASSUME NEW u \in Threads, Making(u)' PROVE MadeAlone(u, thread[u].id)'
    BY DEF MakersAlone
  <2>1. u # t /\ Making(u) /\ thread'[u] = thread[u]
    BY <1>7, <1>8 DEF Making
  <2>2. PICK i : i = thread[u].id
    OBVIOUS
  <2>3. i \in Ids /\ i[1] \in Slots /\ i[1] # s /\ world'[i[1]] = world[i[1]]
    BY <1>2, <1>5, <2>1, <2>2, IdFacts DEF IdsPast, Past, Making
  <2>4. \A v \in Threads \ {u} : thread'[v].id = thread[v].id \/ thread'[v].id # i
    BY <1>1, <1>7, <1>8, <2>3, IdFacts
  <2> QED
    BY <1>4, <1>5, <1>6, <1>11, <2>1, <2>2, <2>3, <2>4, MakerKept
<1>15. \A i : Members(i)' = Members(i)
  BY <1>5, <1>6, <1>10 DEF Members
<1>16. Holders(id)' = Holders(id) \ {t} /\ t \in Holders(id)
  BY <1>1, <1>2, <1>7, <1>8 DEF Holders
<1>17. \A i : i # id => Holders(i)' = Holders(i)
  BY <1>1, <1>7, <1>8 DEF Holders
<1>18. Held'
  BY <1>2, <1>11, <1>16, <1>17 DEF Held
<1>19. ReadersExact'
  <2>1. Cardinality(Holders(id) \ {t}) = Cardinality(Holders(id)) - 1
    BY <1>16, ReadersFinite, FS_RemoveElement
  <2>2. Cardinality(Holders(id)) \in Nat /\ Cardinality(Members(id)) \in Nat
    BY ReadersFinite
  <2>3. world'[s].readerCount = Cardinality(Holders(id)') + Cardinality(Members(id)')
    BY <1>2, <1>6, <1>15, <1>16, <2>1, <2>2 DEF ReadersExact
  <2>4. \A r \in Slots : r # s => IdOf(r) # id
    BY <1>1 DEF IdOf
  <2>5. \A r \in Slots : r # s =>
          world'[r].readerCount = Cardinality(Holders(IdOf(r))') + Cardinality(Members(IdOf(r))')
    BY <1>5, <1>10, <1>15, <1>17, <2>4 DEF ReadersExact
  <2> QED
    BY <1>2, <1>10, <2>3, <2>5 DEF ReadersExact
<1>20. LeaderOutlivesMembers'
  BY <1>5, <1>6, <1>10, <1>11 DEF LeaderOutlivesMembers
<1>21. ReapedUnread'
  <2>1. \A h \in Helpers : helper[h].at \in {"clean", "wipe"} => helper[h].id[1] \in Slots
    BY DEF OneReap, Idle, WorldFind
  <2> QED
    BY <1>4, <1>5, <1>6, <1>9, <2>1 DEF ReapedUnread, ReapedAtRest
<1>22. OneReap' /\ NoneAwaitsTheGone'
  BY <1>4, <1>5, <1>6, <1>7, <1>8, <1>10 DEF OneReap, NoneAwaitsTheGone, WorldFind, IdOf
<1> QED
  BY <1>12, <1>13, <1>14, <1>18, <1>19, <1>20, <1>21, <1>22

(* The loop of World_ReleaseAndWaitForDeath, the rest of WorldInit, and    *)
(* the looks of WorldGroupInit at the leader but for the one that gets the *)
(* reference: a caller goes on, and the table stays.                       *)
LEMMA CallerStep ==
  ASSUME WorldInv, UNCHANGED <<world, made, helper, reapTimers, killTimers, kills>>,
         NEW t \in Threads, NEW to, thread' = [thread EXCEPT ![t] = to],
         \/ to = Idle /\ (Making(t) => world[thread[t].id[1]].joined)
         \/ \E a : to = [thread[t] EXCEPT !.at = a]
              /\ \/ a = "asleep" /\ WorldFind(thread[t].id)
                 \/ a \in {"join", "wipe"} /\ thread[t].at = "init"
                 \/ a = "lost" /\ thread[t].at = "join"
                 \/ a = "clean" /\ thread[t].at = "rest",
         thread[t].at \in {"init", "join", "rest", "awaits"}
  PROVE  WorldInv'
<1> USE DEF WorldInv
<1>1. /\ thread'[t] = to /\ \A u \in Threads : u # t => thread'[u] = thread[u]
  BY DEF Types
<1>2. thread[t].id \in Ids /\ Past(thread[t].id)
  BY DEF IdsPast, Past
<1>3. /\ to \in [at : {"idle", "join", "lost", "clean", "wipe", "asleep"}, id : Ids \cup {NoId}]
      /\ to.at # "idle" => to.id = thread[t].id
      /\ to.at \in {"join", "lost", "clean", "wipe"} => Making(t) /\ to.id = thread[t].id
      /\ to.at \in {"join", "lost", "wipe"} => thread[t].at \in {"init", "join"}
      /\ to.at = "clean" => thread[t].at = "rest"
      /\ to.at = "asleep" => WorldFind(thread[t].id)
      /\ to.id \in {NoId, thread[t].id}
  BY <1>2 DEF Types, Idle, Making
<1>4. Types'
  BY <1>1, <1>3 DEF Types
<1>5. IdsPast'
  BY <1>1, <1>2, <1>3 DEF IdsPast, Past
<1>6. \A id : Holders(id)' = Holders(id) /\ Members(id)' = Members(id)
  BY <1>1, <1>3 DEF Holders, Members, IdOf
<1>7. \A id : WorldFind(id)' = WorldFind(id) /\ Findable(id)' = Findable(id)
  BY DEF WorldFind, Findable, IdOf
<1>8. MakersAlone'
  <2> SUFFICES ASSUME NEW u \in Threads, Making(u)' PROVE MadeAlone(u, thread[u].id)'
    BY DEF MakersAlone
  <2>1. PICK i : i = thread[u].id
    OBVIOUS
  <2>2. CASE u # t
    <3>1. Making(u) /\ thread'[u] = thread[u] /\ i \in Ids /\ i[1] \in Slots
      BY <1>1, <2>1, <2>2, IdFacts DEF Making, IdsPast, Past
    <3>2. \A v \in Threads \ {u} : thread'[v].id = thread[v].id \/ thread'[v].id # i
      BY <1>1, <1>3, <3>1, IdFacts
    <3> QED
      BY <1>7, <2>1, <3>1, <3>2, MakerKept
  <2>3. CASE u = t
    <3>1. to.at \in {"join", "lost", "clean", "wipe"} /\ Making(t) /\ to.id = i
      BY <1>1, <1>3, <2>1, <2>3 DEF Making
    <3>2. MadeAlone(t, i)
      BY <2>1, <2>3, <3>1 DEF MakersAlone
    <3>3. \A v \in Threads \ {u} : thread'[v].id # i
      BY <1>1, <2>3, <3>2 DEF MadeAlone
    <3>4. world[i[1]].joined <=> to.at \in {"rest", "clean"}
      BY <1>3, <3>1, <3>2 DEF MadeAlone
    <3>5. MadeAlone(t, i)'
      BY <1>1, <1>7, <2>1, <2>3, <3>2, <3>3, <3>4 DEF MadeAlone
    <3> QED
      BY <1>1, <2>1, <2>3, <3>1, <3>5
  <2> QED
    BY <2>2, <2>3
<1>9. Held' /\ ReadersExact' /\ LeaderOutlivesMembers'
  BY <1>6, <1>7 DEF Held, ReadersExact, LeaderOutlivesMembers, IdOf
<1>10. ReapedUnread' /\ OneReap'
  BY <1>7 DEF ReapedUnread, ReapedAtRest, OneReap
<1>11. NoneAwaitsTheGone'
  BY <1>1, <1>3, <1>7 DEF NoneAwaitsTheGone
<1> QED
  BY <1>4, <1>5, <1>8, <1>9, <1>10, <1>11

(* The world in a slot, and a request about it, after a step of the reap.  *)
ReapedLike(w, v) ==
  /\ w.inUse = v.inUse /\ w.generation = v.generation
  /\ w.leader = v.leader /\ w.joined = v.joined
  /\ w.readerCount = v.readerCount
  /\ w.runState = v.runState /\ w.hostCount = v.hostCount

RequestAfter(to, id, w) ==
  \/ to = Idle
  \/ /\ to.id = id /\ to \in [at : {"asked", "look", "clean"}, id : Ids] /\ w.reapScheduled
     /\ to.at = "clean" => w.reapStarted

(* The steps of WorldReapCallback and WorldReap up to the cleanup: one     *)
(* request and the world it is about go on.                                *)
LEMMA ReapMove ==
  ASSUME WorldInv, UNCHANGED <<made, thread, killTimers, kills>>,
         NEW h \in Helpers, NEW id \in Ids, WorldFind(id),
         \A u \in Threads : Making(u) => thread[u].id # id,
         \A g \in Helpers \ {h} : helper[g].id # id,
         NEW w \in Records, world' = [world EXCEPT ![id[1]] = w],
         ReapedLike(w, world[id[1]]),
         \/ w.reapStarted = world[id[1]].reapStarted
         \/ w.runState = "ZOMBIE" /\ w.hostCount = 0 /\ w.readerCount = 0,
         NEW to, helper' = [helper EXCEPT ![h] = to],
         RequestAfter(to, id, w),
         reapTimers' \in [Ids -> 0 .. 2],
         \A i \in Ids : reapTimers'[i] > 0 => reapTimers[i] > 0 \/ i = id
  PROVE  WorldInv'
<1> USE DEF WorldInv, ReapedLike, RequestAfter
<1>1. PICK s : s = id[1]
  OBVIOUS
<1>2. s \in Slots /\ id = IdOf(s) /\ world[s].inUse /\ Past(id)
  BY <1>1, IdFacts DEF WorldFind, IdOf, Past, Types, Records, Generations
<1>3. world'[s] = w /\ \A r \in Slots : r # s => world'[r] = world[r]
  BY <1>1, <1>2 DEF Types
<1>4. helper'[h] = to /\ \A g \in Helpers : g # h => helper'[g] = helper[g]
  BY DEF Types
<1>5. /\ \A r \in Slots : IdOf(r)' = IdOf(r)
      /\ \A i : WorldFind(i)' <=> WorldFind(i)
      /\ \A i \in Ids : Past(i)' <=> Past(i)
  BY <1>1, <1>3, SameTable
<1>6. \A i : i # id => (Findable(i)' <=> Findable(i))
  BY <1>2, <1>3, <1>5 DEF Findable, WorldFind
<1>7. w.reapStarted = world[s].reapStarted => \A i : Findable(i)' <=> Findable(i)
  BY <1>3, <1>5 DEF Findable, WorldFind
<1>8. w.reapStarted = world[s].reapStarted \/ (Holders(id) = {} /\ Members(id) = {})
  BY <1>1, <1>2, NoReaders
<1>9. Types'
  <2>1. world' \in [Slots -> Records]
    BY DEF Types
  <2>2. to \in [at : {"idle", "asked", "look", "clean"}, id : Ids \cup {NoId}]
    BY DEF Idle
  <2> QED
    BY <2>1, <2>2 DEF Types
<1>10. IdsPast'
  <2>1. \A r \in Slots : /\ world'[r].generation <= made'
                         /\ world'[r].inUse => Past(world[r].leader)
                         /\ ~world'[r].inUse => world'[r] = Blank(world'[r].generation)
                         /\ world'[r].leader = world[r].leader
    <3> SUFFICES ASSUME NEW r \in Slots
                 PROVE  /\ world'[r].generation <= made'
                        /\ world'[r].inUse => Past(world[r].leader)
                        /\ ~world'[r].inUse => world'[r] = Blank(world'[r].generation)
                        /\ world'[r].leader = world[r].leader
      OBVIOUS
    <3>1. CASE r = s
      <4>1. world[s].generation <= made /\ Past(world[s].leader)
        BY <1>2 DEF IdsPast
      <4>2. world'[s].generation <= made'
        BY <1>1, <1>3, <4>1
      <4>3. world'[s].inUse /\ world'[s].leader = world[s].leader
        BY <1>1, <1>2, <1>3
      <4> QED
        BY <3>1, <4>1, <4>2, <4>3
    <3>2. CASE r # s
      BY <1>3, <3>2 DEF IdsPast
    <3> QED
      BY <3>1, <3>2
  <2>2. \A i \in Ids : reapTimers'[i] > 0 => Past(i)
    BY <1>2 DEF IdsPast
  <2>3. \A g \in Helpers : helper'[g].at = "idle" => helper'[g] = Idle
    BY <1>4 DEF IdsPast, Idle
  <2>4. \A r \in Slots : world'[r].inUse => Past(world[r].leader)'
    BY <1>5, <2>1 DEF Past
  <2> QED
    BY <1>5, <2>1, <2>2, <2>3, <2>4 DEF IdsPast, Past
<1>11. MakersAlone'
  <2> SUFFICES ASSUME NEW u \in Threads, Making(u) PROVE MadeAlone(u, thread[u].id)'
    BY DEF MakersAlone, Making
  <2>1. PICK i : i = thread[u].id
    OBVIOUS
  <2>2. i \in Ids /\ i[1] \in Slots /\ i # id /\ MadeAlone(u, i)
    BY <2>1, IdFacts DEF MakersAlone, IdsPast, Past, Making
  <2>3. i[1] # s
    BY <1>2, <2>2 DEF MadeAlone, WorldFind
  <2>4. reapTimers'[i] = reapTimers[i]
    BY <2>2 DEF MadeAlone, Types
  <2>5. \A r \in Slots : world'[r].leader = world[r].leader
    BY <1>1, <1>3
  <2> QED
    BY <1>3, <2>1, <2>2, <2>3, <2>4, <2>5, MakerKept
<1>12. \A i : Holders(i)' = Holders(i) /\ Members(i)' = Members(i)
  BY <1>1, <1>3, <1>5 DEF Holders, Members
<1>13. Held'
  BY <1>6, <1>7, <1>8, <1>12 DEF Held
<1>14. ReadersExact'
  BY <1>1, <1>3, <1>5, <1>12 DEF ReadersExact
<1>15. LeaderOutlivesMembers'
  <2> SUFFICES ASSUME NEW r \in Slots, world'[r].joined, world'[r].leader # IdOf(r)'
               PROVE  Findable(world[r].leader)'
    BY DEF LeaderOutlivesMembers
  <2>1. PICK l : l = world[r].leader
    OBVIOUS
  <2>2. world'[r].leader = l /\ world[r].joined /\ l # IdOf(r) /\ r \in Members(l)
    BY <1>1, <1>3, <1>5, <2>1 DEF Members
  <2>3. Findable(l)
    BY <2>1, <2>2 DEF LeaderOutlivesMembers
  <2>4. Findable(l)'
    BY <1>6, <1>7, <1>8, <2>2, <2>3
  <2> QED
    BY <2>2, <2>4
<1>16. OneReap'
  <2>1. world'[s].reapScheduled = w.reapScheduled
    BY <1>3
  <2>2. \A g \in Helpers : g # h /\ helper[g] # Idle => helper[g].id[1] # s
    BY <1>2 DEF OneReap, WorldFind
  <2>3. \A g \in Helpers : helper'[g] # Idle =>
          WorldFind(helper'[g].id) /\ world'[helper'[g].id[1]].reapScheduled
    BY <1>1, <1>3, <1>4, <2>1, <2>2 DEF OneReap, WorldFind
  <2>4. \A g \in Helpers : helper'[g] # Idle => WorldFind(helper[g].id)'
    BY <1>5, <2>3
  <2>5. \A g \in Helpers : helper'[g] # Idle => \A f \in Helpers \ {g} : helper'[f].id # helper'[g].id
    <3>1. \A g \in Helpers : helper[g] # Idle => helper[g].id # NoId
      BY WorldBounds DEF OneReap, WorldFind, NoId
    <3>2. to.id = id \/ (to = Idle /\ to.id = NoId)
      BY DEF Idle
    <3>3. ASSUME NEW g \in Helpers, helper'[g] # Idle, NEW f \in Helpers \ {g}
          PROVE  helper'[f].id # helper'[g].id
      <4>1. CASE g = h
        BY <1>4, <3>2, <3>3, <4>1
      <4>2. CASE f = h
        BY <1>4, <3>1, <3>2, <3>3, <4>2
      <4>3. CASE g # h /\ f # h
        BY <1>4, <3>3, <4>3 DEF OneReap
      <4> QED
        BY <4>1, <4>2, <4>3
    <3> QED
      BY <3>3
  <2> QED
    BY <2>3, <2>4, <2>5 DEF OneReap
<1>17. ReapedUnread'
  <2>1. \A g \in Helpers : helper'[g].at \in {"clean", "wipe"} =>
          helper'[g].id[1] \in Slots /\ (g # h => helper'[g].id[1] # s)
    BY <1>1, <1>2, <1>4 DEF OneReap, Idle, WorldFind
  <2>2. ReapedAtRest' /\ \A r \in Slots : world'[r].inUse /\ world'[r].reapStarted => world'[r].readerCount = 0
    BY <1>1, <1>2, <1>3 DEF ReapedUnread, ReapedAtRest
  <2>3. helper'[h].at # "wipe" /\ (helper'[h].at = "clean" => helper'[h].id[1] = s /\ w.reapStarted)
    BY <1>1, <1>4 DEF Idle
  <2> QED
    BY <1>3, <1>4, <2>1, <2>2, <2>3 DEF ReapedUnread
<1>18. NoneAwaitsTheGone'
  BY <1>5 DEF NoneAwaitsTheGone
<1> QED
  BY <1>9, <1>10, <1>11, <1>13, <1>14, <1>15, <1>16, <1>17, <1>18

(* WorldReapCallback, and WorldReap until it cleans up or gives up.        *)
LEMMA ReapSteps ==
  ASSUME WorldInv, OpenWindows \subseteq {"sleep"},
         \/ \E id \in Ids : WorldReapCallback(id)
         \/ \E h \in Helpers : WorldReap(h) \/ \E scsiActive \in BOOLEAN : WorldReapLook(h, scsiActive)
  PROVE  WorldInv'
<1> USE DEF WorldInv
<1>0. /\ world \in [Slots -> Records] /\ \A s \in Slots : world[s] \in Records
      /\ reapTimers \in [Ids -> 0 .. 2]
  BY DEF Types
<1>1. ASSUME NEW id \in Ids, WorldReapCallback(id) PROVE WorldInv'
  <2>1. /\ reapTimers[id] > 0 /\ reapTimers' = [reapTimers EXCEPT ![id] = @ - 1]
        /\ UNCHANGED <<made, thread, killTimers, kills>>
    BY <1>1 DEF WorldReapCallback
  <2>2. reapTimers' \in [Ids -> 0 .. 2] /\ \A i \in Ids : reapTimers'[i] > 0 => reapTimers[i] > 0
    BY <1>0, <2>1
  <2>3. CASE UNCHANGED <<world, helper>>
    <3>1. Types'
      BY <2>1, <2>2, <2>3 DEF Types
    <3>2. \A t \in Threads : Making(t) => world'[thread[t].id[1]].runState = "NEW"
      BY <2>3 DEF MakersAlone, MadeAlone
    <3> QED
      BY <2>1, <2>2, <2>3, <3>1, <3>2, QuietStep DEF RunsLike
  <2>4. CASE \E h \in Helpers :
               /\ WorldFind(id) /\ ~world[id[1]].reapScheduled
               /\ helper[h] = Idle
               /\ world' = [world EXCEPT ![id[1]].reapScheduled = TRUE]
               /\ helper' = [helper EXCEPT ![h] = [at |-> "asked", id |-> id]]
    <3>1. PICK h \in Helpers :
               /\ WorldFind(id) /\ ~world[id[1]].reapScheduled
               /\ helper[h] = Idle
               /\ world' = [world EXCEPT ![id[1]].reapScheduled = TRUE]
               /\ helper' = [helper EXCEPT ![h] = [at |-> "asked", id |-> id]]
      BY <2>4
    <3>2. id[1] \in Slots /\ world[id[1]] \in Records
      BY <1>0, IdFacts
    <3> DEFINE w == [world[id[1]] EXCEPT !.reapScheduled = TRUE]
               to == [at |-> "asked", id |-> id]
    <3>3. w \in Records /\ w.reapScheduled
      BY <3>2 DEF Records
    <3>4. /\ ReapedLike(w, world[id[1]])
          /\ w.reapStarted = world[id[1]].reapStarted
      BY <3>2 DEF Records, ReapedLike
    <3>5. \A u \in Threads : Making(u) => thread[u].id # id
      BY <2>1 DEF MakersAlone, MadeAlone
    <3>6. \A g \in Helpers : helper[g].id # id
      BY <3>1, IdFacts DEF OneReap, Idle
    <3>7. world' = [world EXCEPT ![id[1]] = w] /\ helper' = [helper EXCEPT ![h] = to]
      BY <3>1
    <3>8. RequestAfter(to, id, w)
      BY <3>3 DEF RequestAfter
    <3> HIDE DEF w, to, WorldInv
    <3> QED
      BY <2>1, <2>2, <3>1, <3>3, <3>4, <3>5, <3>6, <3>7, <3>8, ReapMove
  <2> QED
    BY <1>1, <2>3, <2>4 DEF WorldReapCallback
<1>2. ASSUME NEW h \in Helpers, helper[h].at \in {"asked", "look"}
      PROVE  LET id == helper[h].id
             IN /\ id \in Ids /\ WorldFind(id) /\ id[1] \in Slots /\ world[id[1]] \in Records
                /\ world[id[1]].reapScheduled
                /\ \A u \in Threads : Making(u) => thread[u].id # id
                /\ \A g \in Helpers \ {h} : helper[g].id # id
  <2>1. helper[h] # Idle
    BY <1>2 DEF Idle
  <2>2. WorldFind(helper[h].id) /\ helper[h].id[1] \in Slots /\ world[helper[h].id[1]].reapScheduled
    BY <2>1 DEF OneReap, WorldFind
  <2>3. helper[h].id \in Ids
    BY <2>2, WorldBounds DEF Types, NoId
  <2>4. \A u \in Threads : Making(u) => thread[u].id # helper[h].id
    BY <2>2 DEF MakersAlone, MadeAlone
  <2> QED
    BY <1>0, <2>1, <2>2, <2>3, <2>4 DEF OneReap
<1>3. ASSUME NEW h \in Helpers, WorldReap(h) PROVE WorldInv'
  <2>1. PICK id : id = helper[h].id
    OBVIOUS
  <2>2. /\ helper[h].at = "asked" /\ UNCHANGED <<made, thread, reapTimers, killTimers, kills>>
        /\ helper' = [helper EXCEPT ![h].at = "look"]
    BY <1>3 DEF WorldReap
  <2>3. /\ id \in Ids /\ WorldFind(id) /\ id[1] \in Slots /\ world[id[1]] \in Records
        /\ world[id[1]].reapScheduled
        /\ \A u \in Threads : Making(u) => thread[u].id # id
        /\ \A g \in Helpers \ {h} : helper[g].id # id
    BY <1>2, <2>1, <2>2
  <2> DEFINE n == IF world[id[1]].reapCalls < SCSI_REAP_RETRIES THEN world[id[1]].reapCalls + 1
                  ELSE world[id[1]].reapCalls
             w == [world[id[1]] EXCEPT !.reapCalls = n]
             to == [helper[h] EXCEPT !.at = "look"]
  <2>4. n \in 0 .. SCSI_REAP_RETRIES
    BY <2>3, WorldBounds DEF Records
  <2>5. world' = [world EXCEPT ![id[1]] = w] /\ helper' = [helper EXCEPT ![h] = to]
    BY <1>3, <2>1, <2>2 DEF WorldReap
  <2> HIDE DEF n
  <2>6. w \in Records
    BY <2>3, <2>4 DEF Records
  <2>7. /\ ReapedLike(w, world[id[1]])
        /\ w.reapStarted = world[id[1]].reapStarted /\ w.reapScheduled = world[id[1]].reapScheduled
    BY <2>3 DEF Records, ReapedLike
  <2>8. RequestAfter(to, id, w)
    BY <2>1, <2>3, <2>7 DEF Types, RequestAfter
  <2> HIDE DEF w, to, WorldInv
  <2> QED
    BY <1>0, <2>2, <2>3, <2>5, <2>6, <2>7, <2>8, ReapMove
<1>4. ASSUME NEW h \in Helpers, NEW scsiActive \in BOOLEAN, WorldReapLook(h, scsiActive)
      PROVE  WorldInv'
  <2>1. PICK id : id = helper[h].id
    OBVIOUS
  <2>2. helper[h].at = "look" /\ UNCHANGED <<made, thread, killTimers, kills>>
    BY <1>4 DEF WorldReapLook
  <2>3. /\ id \in Ids /\ WorldFind(id) /\ id[1] \in Slots /\ world[id[1]] \in Records
        /\ world[id[1]].reapScheduled
        /\ \A u \in Threads : Making(u) => thread[u].id # id
        /\ \A g \in Helpers \ {h} : helper[g].id # id
    BY <1>2, <2>1, <2>2
  <2>4. CASE /\ world' = [world EXCEPT ![id[1]].reapScheduled = FALSE]
             /\ reapTimers' = WorldScheduleReap(reapTimers, id)
             /\ helper' = [helper EXCEPT ![h] = Idle]
    <3> DEFINE w == [world[id[1]] EXCEPT !.reapScheduled = FALSE]
    <3>1. w \in Records
      BY <2>3 DEF Records
    <3>2. /\ ReapedLike(w, world[id[1]])
          /\ w.reapStarted = world[id[1]].reapStarted
      BY <2>3 DEF Records, ReapedLike
    <3>3. world' = [world EXCEPT ![id[1]] = w]
      BY <2>4
    <3>4. /\ reapTimers' \in [Ids -> 0 .. 2] /\ RequestAfter(Idle, id, w)
          /\ \A i \in Ids : reapTimers'[i] > 0 => reapTimers[i] > 0 \/ i = id
      BY <1>0, <2>3, <2>4 DEF WorldScheduleReap, RequestAfter
    <3> HIDE DEF w, WorldInv
    <3> QED
      BY <2>2, <2>3, <2>4, <3>1, <3>2, <3>3, <3>4, ReapMove
  <2>5. CASE /\ ~InUse(world[id[1]], scsiActive)
             /\ world' = [world EXCEPT ![id[1]].reapStarted = TRUE]
             /\ helper' = [helper EXCEPT ![h].at = "clean"]
             /\ UNCHANGED reapTimers
    <3> DEFINE w == [world[id[1]] EXCEPT !.reapStarted = TRUE]
               to == [helper[h] EXCEPT !.at = "clean"]
    <3>1. w \in Records /\ w.reapStarted
      BY <2>3 DEF Records
    <3>2. /\ ReapedLike(w, world[id[1]])
          /\ w.reapScheduled = world[id[1]].reapScheduled
      BY <2>3 DEF Records, ReapedLike
    <3>3. world[id[1]].runState = "ZOMBIE" /\ world[id[1]].hostCount = 0 /\ ~(world[id[1]].readerCount > 0)
      BY <2>3, <2>5, WorldBounds DEF InUse, Records
    <3>4. world[id[1]].readerCount = 0
      BY <2>3, <3>3, ReadersFinite DEF ReadersExact
    <3>5. world' = [world EXCEPT ![id[1]] = w] /\ helper' = [helper EXCEPT ![h] = to]
      BY <2>5
    <3>6. RequestAfter(to, id, w)
      BY <2>1, <2>3, <3>1, <3>2 DEF Types, RequestAfter
    <3>7. w.runState = "ZOMBIE" /\ w.hostCount = 0 /\ w.readerCount = 0
      BY <3>2, <3>3, <3>4 DEF ReapedLike
    <3> HIDE DEF w, to, WorldInv
    <3> QED
      BY <1>0, <2>2, <2>3, <2>5, <3>1, <3>2, <3>5, <3>6, <3>7, ReapMove
  <2> QED
    BY <1>4, <2>1, <2>4, <2>5 DEF WorldReapLook
<1> QED
  BY <1>1, <1>3, <1>4

(* WorldNewInt takes a slot for an id that nobody has.                     *)
LEMMA NewStep ==
  ASSUME WorldInv, OpenWindows \subseteq {"sleep"}, NEW t \in Threads, NEW s \in Slots,
         NEW group, group \in {NoId} \cup {IdOf(u) : u \in Slots}, WorldNewInt(t, s, group)
  PROVE  WorldInv'
<1> USE DEF WorldInv
<1>1. PICK id : id = <<s, world[s].generation + 1>>
  OBVIOUS
<1>2. /\ thread[t].at = "idle" /\ made < MaxMade /\ ~world[s].inUse
      /\ group # NoId => Findable(group) /\ Known(group)
      /\ made' = made + 1 /\ thread' = [thread EXCEPT ![t] = [at |-> "init", id |-> id]]
      /\ UNCHANGED <<helper, reapTimers, killTimers, kills>>
  BY <1>1 DEF WorldNewInt
<1>3. /\ world[s].generation \in Nat /\ world[s].generation <= made /\ made \in Nat
      /\ made + 1 \in Generations /\ world[s].generation + 1 \in Generations
  BY <1>2, WorldBounds DEF Types, Records, IdsPast, Generations
<1>4. id \in Ids /\ id[1] = s /\ id[2] = world[s].generation + 1 /\ ~Past(id)
  BY <1>1, <1>3, IdFacts DEF Past
<1>5. PICK l \in Ids : /\ l = id \/ (l = group /\ Findable(group) /\ Known(group))
                       /\ world' = [world EXCEPT ![s] = [Blank(id[2]) EXCEPT !.inUse = TRUE, !.leader = l]]
  <2>1. group # NoId => group \in Ids
    BY IdFacts DEF IdOf, Types, Records
  <2> QED
    BY <1>1, <1>2, <1>4, <2>1 DEF WorldNewInt
<1>6. \A r \in Slots : r # s => world'[r] = world[r]
  BY <1>5 DEF Types
<1>7. /\ world'[s].inUse /\ world'[s].generation = id[2] /\ world'[s].leader = l
      /\ ~world'[s].joined /\ ~world'[s].reapStarted /\ ~world'[s].reapScheduled
      /\ world'[s].readerCount = 0 /\ world'[s].runState = "NEW"
  BY <1>5 DEF Types, Blank
<1>8. /\ thread'[t] = [at |-> "init", id |-> id]
      /\ \A u \in Threads : u # t => thread'[u] = thread[u]
  BY <1>2 DEF Types
<1>9. \A i : WorldFind(i) => i[1] # s /\ WorldFind(i)'
  BY <1>2, <1>6 DEF WorldFind, IdOf
<1>10. \A i : Findable(i) => Findable(i)'
  BY <1>6, <1>9 DEF Findable, WorldFind
<1>11. WorldFind(id)'
  BY <1>1, <1>4, <1>7 DEF WorldFind, IdOf
<1>12. \A i \in Ids : (Past(i) => Past(i)') /\ (WorldFind(i) => Past(i))
  <2>1. ASSUME NEW i \in Ids, Past(i) PROVE Past(i)'
    <3>1. i[2] \in Nat /\ i[1] \in Slots
      BY IdFacts, WorldBounds DEF Generations
    <3>2. CASE i[1] = s
      BY <1>3, <1>4, <1>7, <2>1, <3>1, <3>2 DEF Past
    <3>3. CASE i[1] # s
      BY <1>6, <2>1, <3>1, <3>3 DEF Past
    <3> QED
      BY <3>2, <3>3
  <2>2. ASSUME NEW i \in Ids, WorldFind(i) PROVE Past(i)
    BY <2>2, IdFacts, WorldBounds DEF Past, WorldFind, IdOf, Generations
  <2> QED
    BY <2>1, <2>2
<1>13. Past(id)' /\ Past(l)'
  BY <1>3, <1>4, <1>5, <1>7, <1>12 DEF Past, Findable, Generations
<1>14. ~world[s].joined
  <2>1. ~Blank(world[s].generation).joined
    BY DEF Blank
  <2> QED
    BY <1>2, <2>1 DEF IdsPast
<1>15. Types'
  <2>1. [Blank(id[2]) EXCEPT !.inUse = TRUE, !.leader = l] \in Records
    <3>1. Blank(id[2]) \in Records
      BY <1>3, <1>4, WorldBounds DEF Blank, Records, RunStates, KillLevels
    <3> QED
      BY <1>5, <3>1 DEF Records
  <2> QED
    BY <1>2, <1>3, <1>4, <1>5, <2>1 DEF Types
<1>16. IdsPast'
  <2>1. \A r \in Slots : /\ world'[r].generation <= made'
                         /\ world'[r].inUse => Past(world[r].leader)'
                         /\ ~world'[r].inUse => world'[r] = Blank(world'[r].generation)
    <3>1. world'[s].generation <= made' /\ Past(world[s].leader)'
      BY <1>2, <1>3, <1>4, <1>7, <1>13
    <3>2. ASSUME NEW r \in Slots, r # s
          PROVE  /\ world'[r].generation <= made'
                 /\ world'[r].inUse => Past(world[r].leader)'
                 /\ ~world'[r].inUse => world'[r] = Blank(world'[r].generation)
      <4>1. world[r].generation <= made /\ world[r].generation \in Nat /\ (world[r].inUse => Past(world[r].leader))
        BY DEF IdsPast, Types, Records, Generations
      <4>2. world'[r] = world[r]
        BY <1>6, <3>2
      <4>3. PICK m : m = world[r].leader
        OBVIOUS
      <4>4. Past(m) => Past(m)'
        BY <1>12 DEF Past
      <4> QED
        BY <1>2, <1>3, <4>1, <4>2, <4>3, <4>4 DEF IdsPast
    <3> QED
      BY <1>7, <3>1, <3>2
  <2>2. \A u \in Threads : IF thread'[u].at = "idle" THEN thread'[u] = Idle ELSE Past(thread[u].id)'
    <3>1. Past(thread[t].id)'
      BY <1>8, <1>13
    <3>2. ASSUME NEW u \in Threads, u # t
          PROVE  IF thread'[u].at = "idle" THEN thread'[u] = Idle ELSE Past(thread[u].id)'
      <4>1. PICK m : m = thread[u].id
        OBVIOUS
      <4>2. thread'[u] = thread[u] /\ (Past(m) => Past(m)')
        BY <1>8, <1>12, <3>2 DEF Past
      <4> QED
        BY <4>1, <4>2 DEF IdsPast
    <3> QED
      BY <1>8, <3>1, <3>2
  <2>3. \A i \in Ids : reapTimers'[i] > 0 => Past(i)'
    BY <1>2, <1>12 DEF IdsPast
  <2> QED
    BY <1>2, <2>1, <2>2, <2>3 DEF IdsPast
<1>17. \A u \in Threads : u # t => thread[u].id # id
  <2>1. \A u \in Threads : thread[u].id = NoId \/ Past(thread[u].id)
    BY DEF IdsPast, Idle
  <2> QED
    BY <1>4, <2>1, IdFacts
<1>18. \A r \in Slots : r # s => world'[r].leader # id
  <2>1. \A g : Blank(g).leader = NoId
    BY DEF Blank
  <2>2. \A r \in Slots : world[r].leader = NoId \/ Past(world[r].leader)
    BY <2>1 DEF IdsPast
  <2> QED
    BY <1>4, <1>6, <2>2, IdFacts
<1>19. MakersAlone'
  <2> SUFFICES ASSUME NEW u \in Threads, Making(u)' PROVE MadeAlone(u, thread[u].id)'
    BY DEF MakersAlone
  <2>1. CASE u = t
    <3>1. reapTimers'[id] = 0
      BY <1>2, <1>4 DEF IdsPast, Types
    <3>2. \A v \in Threads \ {t} : thread'[v].id # id
      BY <1>8, <1>17
    <3>3. MadeAlone(t, id)'
      BY <1>4, <1>7, <1>8, <1>11, <1>18, <3>1, <3>2 DEF MadeAlone
    <3> QED
      BY <1>8, <2>1, <3>3
  <2>2. CASE u # t
    <3>1. PICK i : i = thread[u].id
      OBVIOUS
    <3>2. Making(u) /\ thread'[u] = thread[u]
      BY <1>8, <2>2 DEF Making
    <3>3. MadeAlone(u, i) /\ i # id
      BY <1>17, <2>2, <3>1, <3>2 DEF MakersAlone
    <3>4. WorldFind(i) /\ i[1] \in Slots /\ i[1] # s /\ world'[i[1]] = world[i[1]]
      BY <1>6, <1>9, <3>3 DEF MadeAlone, WorldFind
    <3>5. l # i
      BY <1>5, <3>1, <3>2, <3>3 DEF Known, HalfMade
    <3>6. \A r \in Slots : world'[r].leader = world[r].leader \/ world'[r].leader # i
      BY <1>6, <1>7, <3>5
    <3>7. \A v \in Threads \ {u} : thread'[v].id = thread[v].id \/ thread'[v].id # i
      BY <1>8, <3>3
    <3> QED
      BY <1>2, <1>10, <3>1, <3>2, <3>4, <3>6, <3>7, MakerKept
  <2> QED
    BY <2>1, <2>2
<1>20. \A i : Holders(i)' = Holders(i)
  BY <1>2, <1>8 DEF Holders
<1>21. \A i : Members(i)' = Members(i)
  BY <1>6, <1>7, <1>14 DEF Members, IdOf
<1>22. Held' /\ NoneAwaitsTheGone'
  <2>1. Held'
    BY <1>10, <1>20 DEF Held
  <2>2. \A u \in Threads : thread'[u].at = "asleep" => u # t /\ thread'[u] = thread[u] /\ WorldFind(thread[u].id)
    BY <1>8 DEF NoneAwaitsTheGone
  <2>3. \A u \in Threads : thread'[u].at = "asleep" => WorldFind(thread[u].id)'
    BY <1>9, <2>2
  <2> QED
    BY <2>1, <2>3 DEF NoneAwaitsTheGone
<1>23. ReadersExact'
  <2>1. Holders(id) = {}
    BY <1>2, <1>17 DEF Holders
  <2>2. Members(id) = {}
    BY <1>6, <1>14, <1>18 DEF Members
  <2>3. world'[s].readerCount = Cardinality(Holders(id)') + Cardinality(Members(id)')
    BY <1>7, <1>20, <1>21, <2>1, <2>2, FS_EmptySet
  <2>4. IdOf(s)' = id /\ \A r \in Slots : r # s => IdOf(r)' = IdOf(r)
    BY <1>1, <1>4, <1>6, <1>7 DEF IdOf
  <2>5. \A r \in Slots : r # s =>
          world'[r].readerCount = Cardinality(Holders(IdOf(r))') + Cardinality(Members(IdOf(r))')
    BY <1>6, <1>20, <1>21, <2>4 DEF ReadersExact
  <2> QED
    BY <2>3, <2>4, <2>5 DEF ReadersExact
<1>24. LeaderOutlivesMembers'
  <2> SUFFICES ASSUME NEW r \in Slots, world'[r].joined, world'[r].leader # IdOf(r)'
               PROVE  Findable(world[r].leader)'
    BY DEF LeaderOutlivesMembers
  <2>1. r # s /\ world'[r] = world[r] /\ IdOf(r)' = IdOf(r)
    BY <1>6, <1>7 DEF IdOf
  <2>2. PICK m : m = world[r].leader
    OBVIOUS
  <2>3. Findable(m)
    BY <2>1, <2>2 DEF LeaderOutlivesMembers
  <2> QED
    BY <1>10, <2>1, <2>2, <2>3
<1>25. \A h \in Helpers : helper[h] # Idle => helper[h].id[1] # s /\ helper[h].id[1] \in Slots /\ WorldFind(helper[h].id)'
  BY <1>2, <1>9 DEF OneReap, WorldFind
<1>26. OneReap'
  BY <1>2, <1>6, <1>25 DEF OneReap
<1>27. ReapedUnread'
  <2>1. \A h \in Helpers : helper[h].at \in {"clean", "wipe"} => helper[h] # Idle
    BY DEF Idle
  <2> QED
    BY <1>2, <1>6, <1>7, <1>25, <2>1 DEF ReapedUnread, ReapedAtRest
<1> QED
  BY <1>15, <1>16, <1>19, <1>22, <1>23, <1>24, <1>26, <1>27

(* The end of WorldCleanup gives a slot back: nobody holds the world any   *)
(* more, none is its member, and those who sleep for its death are woken.  *)
LEMMA WipeStep ==
  ASSUME WorldInv, UNCHANGED <<made, reapTimers, killTimers, kills>>,
         NEW id \in Ids, WorldFind(id),
         world[id[1]].readerCount = 0, ~world[id[1]].joined,
         world' = [world EXCEPT ![id[1]] = Blank(id[2])],
         Types',
         \A u \in Threads :
           \/ thread'[u] = thread[u] /\ thread[u] # [at |-> "asleep", id |-> id]
                /\ ~(Making(u) /\ thread[u].id = id)
           \/ thread'[u] = Idle /\ Making(u) /\ thread[u].id = id
           \/ thread'[u] = [at |-> "awaits", id |-> id] /\ thread[u] = [at |-> "asleep", id |-> id],
         \A h \in Helpers : \/ helper'[h] = helper[h] /\ helper[h].id # id
                            \/ helper'[h] = Idle
  PROVE  WorldInv'
<1> USE DEF WorldInv
<1>1. PICK s : s = id[1]
  OBVIOUS
<1>2. s \in Slots /\ id = IdOf(s) /\ id = <<s, world[s].generation>> /\ world[s].inUse
  BY <1>1 DEF WorldFind, IdOf
<1>3. /\ world'[s] = Blank(world[s].generation) /\ \A r \in Slots : r # s => world'[r] = world[r]
  BY <1>1, <1>2 DEF Types
<1>4. /\ ~world'[s].inUse /\ world'[s].generation = world[s].generation /\ ~world'[s].joined
      /\ world'[s].readerCount = 0 /\ world'[s].leader = NoId
  BY <1>3 DEF Blank
<1>5. Holders(id) = {} /\ Members(id) = {}
  BY <1>1, <1>2, NoReaders
<1>6. \A i : i # id => (WorldFind(i)' <=> WorldFind(i)) /\ (Findable(i)' <=> Findable(i))
  BY <1>2, <1>3, <1>4 DEF WorldFind, Findable, IdOf
<1>7. \A i \in Ids : Past(i)' <=> Past(i)
  BY <1>3, <1>4, IdFacts DEF Past
<1>8. \A r \in Slots : IdOf(r)' = IdOf(r)
  BY <1>3, <1>4 DEF IdOf
<1>9. \A u \in Threads :
        /\ thread'[u].id \in {NoId, thread[u].id}
        /\ thread'[u].at # "idle" => thread'[u].id = thread[u].id /\ thread[u].at # "idle"
        /\ thread'[u].at \in {"holds", "remove", "add"} <=> thread[u].at \in {"holds", "remove", "add"}
  BY DEF Idle, Making
<1>10. IdsPast'
  <2>1. \A r \in Slots : /\ world'[r].generation <= made'
                         /\ world'[r].inUse => Past(world[r].leader)'
                         /\ ~world'[r].inUse => world'[r] = Blank(world'[r].generation)
    <3>1. world[s].generation <= made
      BY <1>2 DEF IdsPast
    <3>2. ASSUME NEW r \in Slots, r # s
          PROVE  /\ world'[r].generation <= made'
                 /\ world'[r].inUse => Past(world[r].leader)'
                 /\ ~world'[r].inUse => world'[r] = Blank(world'[r].generation)
      <4>1. world'[r] = world[r]
        BY <1>3, <3>2
      <4>2. PICK m : m = world[r].leader
        OBVIOUS
      <4>3. Past(m) => Past(m)'
        BY <1>7 DEF Past
      <4> QED
        BY <4>1, <4>2, <4>3 DEF IdsPast
    <3> QED
      BY <1>3, <1>4, <3>1, <3>2
  <2>2. \A u \in Threads : IF thread'[u].at = "idle" THEN thread'[u] = Idle ELSE Past(thread[u].id)'
    <3>1. \A u \in Threads : thread'[u].at = "idle" => thread'[u] = Idle
      BY DEF IdsPast, Idle
    <3>2. \A u \in Threads : thread'[u].at # "idle" => Past(thread'[u].id)
      BY <1>9 DEF IdsPast
    <3>3. \A u \in Threads : thread'[u].at # "idle" => Past(thread[u].id)'
      BY <1>7, <3>2 DEF Past
    <3> QED
      BY <3>1, <3>3
  <2>3. \A i \in Ids : reapTimers'[i] > 0 => Past(i)'
    BY <1>7 DEF IdsPast
  <2>4. \A h \in Helpers : helper'[h].at = "idle" => helper'[h] = Idle
    BY DEF IdsPast, Idle
  <2> QED
    BY <2>1, <2>2, <2>3, <2>4 DEF IdsPast
<1>11. MakersAlone'
  <2> SUFFICES ASSUME NEW u \in Threads, Making(u)' PROVE MadeAlone(u, thread[u].id)'
    BY DEF MakersAlone
  <2>1. PICK i : i = thread[u].id
    OBVIOUS
  <2>2. thread'[u] = thread[u] /\ Making(u) /\ i # id
    BY <2>1 DEF Making, Idle
  <2>3. MadeAlone(u, i) /\ WorldFind(i)
    BY <2>1, <2>2 DEF MakersAlone, MadeAlone
  <2>4. i \in Ids /\ i[1] \in Slots /\ i[1] # s /\ world'[i[1]] = world[i[1]]
    BY <1>2, <1>3, <2>1, <2>2, <2>3 DEF WorldFind, IdsPast, Past, Making
  <2>5. \A v \in Threads \ {u} : thread'[v].id = thread[v].id \/ thread'[v].id # i
    BY <1>9, <2>4, IdFacts
  <2>6. \A r \in Slots : world'[r].leader = world[r].leader \/ world'[r].leader # i
    BY <1>3, <1>4, <2>4, IdFacts
  <2> QED
    BY <2>1, <2>2, <2>4, <2>5, <2>6, MakerKept
<1>12. \A i \in Ids : Holders(i)' = Holders(i)
  BY <1>9, IdFacts DEF Holders
<1>13. \A i : Members(i)' = Members(i)
  BY <1>1, <1>3, <1>4, <1>8 DEF Members
<1>14. Held'
  BY <1>5, <1>6, <1>12 DEF Held
<1>15. ReadersExact'
  <2>1. \A r \in Slots : IdOf(r) \in Ids
    BY IdFacts DEF IdOf, Types, Records
  <2>2. \A r \in Slots : world'[r].readerCount = world[r].readerCount
    BY <1>1, <1>3, <1>4
  <2> QED
    BY <1>8, <1>12, <1>13, <2>1, <2>2 DEF ReadersExact
<1>16. LeaderOutlivesMembers'
  <2> SUFFICES ASSUME NEW r \in Slots, world'[r].joined, world'[r].leader # IdOf(r)'
               PROVE  Findable(world[r].leader)'
    BY DEF LeaderOutlivesMembers
  <2>1. r # s /\ world'[r] = world[r] /\ IdOf(r)' = IdOf(r)
    BY <1>3, <1>4, <1>8
  <2>2. PICK m : m = world[r].leader
    OBVIOUS
  <2>3. Findable(m) /\ r \in Members(m)
    BY <2>1, <2>2 DEF LeaderOutlivesMembers, Members
  <2> QED
    BY <1>5, <1>6, <2>1, <2>2, <2>3
<1>17. \A h \in Helpers : helper'[h] # Idle =>
         /\ helper'[h] = helper[h] /\ helper[h].id # id /\ WorldFind(helper[h].id)
         /\ helper[h].id[1] # s /\ helper[h].id[1] \in Slots
  BY <1>2 DEF OneReap, WorldFind
<1>18. OneReap'
  <2>1. \A h \in Helpers : helper'[h] # Idle => WorldFind(helper[h].id)'
    BY <1>6, <1>17
  <2>2. \A h \in Helpers : helper'[h] # Idle => world'[helper'[h].id[1]].reapScheduled
    BY <1>3, <1>17 DEF OneReap
  <2>3. \A h \in Helpers : helper'[h] # Idle => \A g \in Helpers \ {h} : helper'[g].id # helper'[h].id
    <3>1. \A h \in Helpers : helper'[h] # Idle => helper'[h].id # NoId
      BY <1>17, WorldBounds DEF WorldFind, NoId
    <3> QED
      <4>1. Idle.id = NoId
        BY DEF Idle
      <4>2. ASSUME NEW h \in Helpers, helper'[h] # Idle, NEW g \in Helpers \ {h}
            PROVE  helper'[g].id # helper'[h].id
        BY <1>17, <3>1, <4>1, <4>2 DEF OneReap
      <4> QED
        BY <4>2
  <2> QED
    BY <2>1, <2>2, <2>3 DEF OneReap
<1>19. ReapedUnread'
  <2>1. \A h \in Helpers : helper'[h].at \in {"clean", "wipe"} => helper'[h] # Idle
    BY DEF Idle
  <2> QED
    BY <1>3, <1>4, <1>17, <2>1 DEF ReapedUnread, ReapedAtRest
<1>20. NoneAwaitsTheGone'
  <2>1. \A u \in Threads : thread'[u].at = "asleep" => thread'[u] = thread[u] /\ WorldFind(thread[u].id)
    BY DEF NoneAwaitsTheGone, Idle
  <2>2. \A u \in Threads : thread'[u].at = "asleep" => thread[u].id # id
    <3>1. \A u \in Threads : thread[u] = [at |-> thread[u].at, id |-> thread[u].id]
      BY DEF Types
    <3>2. ASSUME NEW u \in Threads, thread'[u].at = "asleep", thread[u].id = id PROVE FALSE
      <4>1. thread[u] = [at |-> "asleep", id |-> id]
        BY <2>1, <3>1, <3>2
      <4>2. thread'[u] = Idle \/ thread'[u] = [at |-> "awaits", id |-> id]
        BY <4>1
      <4> QED
        BY <3>2, <4>2 DEF Idle
    <3> QED
      BY <3>2
  <2>3. \A u \in Threads : thread'[u].at = "asleep" => WorldFind(thread[u].id)'
    BY <1>6, <2>1, <2>2
  <2> QED
    BY <2>3 DEF NoneAwaitsTheGone
<1> QED
  BY <1>10, <1>11, <1>14, <1>15, <1>16, <1>18, <1>19, <1>20

(* What joining (j) or leaving the group of l makes of the table, of the   *)
(* callers and of the requests: the world in s is a member or not, its     *)
(* leader has a reader more or less, and whoever does it goes on.          *)
TableGoes(s, l, j) ==
  /\ world'[s].joined = j /\ world[s].joined # j
  /\ \A r \in Slots :
       /\ world'[r].inUse = world[r].inUse /\ world'[r].generation = world[r].generation
       /\ world'[r].leader = world[r].leader /\ (r # s => world'[r].joined = world[r].joined)
       /\ world'[r].runState = world[r].runState /\ world'[r].hostCount = world[r].hostCount
       /\ world'[r].reapStarted = world[r].reapStarted
       /\ world'[r].reapScheduled = world[r].reapScheduled
       /\ r # s /\ r # l[1] => world'[r] = world[r]
       /\ r # l[1] \/ l = IdOf(s) => world'[r].readerCount = world[r].readerCount
  /\ l # IdOf(s) => world'[l[1]].readerCount = world[l[1]].readerCount + (IF j THEN 1 ELSE -1)

CallersGo(s, j) ==
  \A u \in Threads :
    IF Making(u) /\ thread[u].id = IdOf(s)
    THEN thread'[u].id = thread[u].id /\ thread'[u].at = (IF j THEN "rest" ELSE "wipe")
    ELSE thread'[u] = thread[u]

RequestsGo(s, j) ==
  \A h \in Helpers :
    /\ \/ helper'[h] = helper[h]
       \/ ~j /\ helper[h].at = "clean" /\ helper'[h] = [helper[h] EXCEPT !.at = "wipe"]
    /\ j /\ helper[h] # Idle => helper[h].id # IdOf(s)
    /\ helper'[h].at = "wipe" /\ helper[h].at # "wipe" => helper[h].id[1] = s

(* The end of WorldGroupInit and WorldGroupCleanup: the world in s joins   *)
(* or leaves the group, and its leader has a reader more or less.          *)
LEMMA GroupStep ==
  ASSUME WorldInv, UNCHANGED <<made, reapTimers, killTimers, kills>>, Types',
         NEW s \in Slots, world[s].inUse, NEW l, l = world[s].leader, l = IdOf(s) \/ Findable(l),
         NEW j \in BOOLEAN, TableGoes(s, l, j), CallersGo(s, j), RequestsGo(s, j)
  PROVE  WorldInv'
<1> USE DEF WorldInv, TableGoes, CallersGo, RequestsGo
<1>1. PICK id : id = IdOf(s)
  OBVIOUS
<1>2. id \in Ids /\ id[1] = s /\ WorldFind(id)
  BY <1>1, IdFacts DEF WorldFind, IdOf, Types, Records
<1>3. l # id => l[1] \in Slots /\ l[1] # s /\ l = IdOf(l[1]) /\ Findable(l) /\ l \in Ids
  <2>1. l \in Ids
    BY DEF IdsPast, Past
  <2> QED
    BY <1>1, <2>1 DEF Findable, WorldFind
<1>4. /\ \A r \in Slots : IdOf(r)' = IdOf(r)
      /\ \A i : WorldFind(i)' <=> WorldFind(i)
      /\ \A i \in Ids : Past(i)' <=> Past(i)
  BY SameTable
<1>5. \A i : Findable(i)' <=> Findable(i)
  BY <1>4 DEF Findable, WorldFind
<1>6. \A u \in Threads : thread'[u].id = thread[u].id /\ (Making(u)' <=> Making(u))
  BY DEF Making
<1>7. \A u \in Threads : (Making(u) => thread[u].id # id) => thread'[u] = thread[u]
  BY <1>1
<1>8. IdsPast'
  <2>1. \A r \in Slots : /\ world'[r].generation <= made'
                         /\ world'[r].inUse => Past(world[r].leader)'
                         /\ ~world'[r].inUse => world'[r] = Blank(world'[r].generation)
    <3> SUFFICES ASSUME NEW r \in Slots
                 PROVE  /\ world'[r].generation <= made'
                        /\ world'[r].inUse => Past(world[r].leader)'
                        /\ ~world'[r].inUse => world'[r] = Blank(world'[r].generation)
      OBVIOUS
    <3>1. PICK m : m = world[r].leader
      OBVIOUS
    <3>2. Past(m) => Past(m)'
      BY <1>4 DEF Past
    <3>3. ~world[r].inUse => r # s /\ (r = l[1] => l = id)
      BY <1>3 DEF Findable, WorldFind
    <3>4. ~world[r].inUse => world'[r] = world[r]
      BY <1>1, <1>2, <3>3
    <3>5. world[r].generation <= made /\ (world[r].inUse => Past(m)) /\ (~world[r].inUse => world[r] = Blank(world[r].generation))
      BY <3>1 DEF IdsPast
    <3>6. world'[r].generation <= made'
      BY <3>5
    <3>7. world'[r].inUse => Past(world[r].leader)'
      BY <3>1, <3>2, <3>5
    <3>8. ~world'[r].inUse => world'[r] = Blank(world'[r].generation)
      BY <3>4, <3>5
    <3> QED
      BY <3>6, <3>7, <3>8
  <2>2. \A u \in Threads : IF thread'[u].at = "idle" THEN thread'[u] = Idle ELSE Past(thread[u].id)'
    <3>1. \A u \in Threads : thread'[u].at = "idle" => thread[u].at = "idle" /\ thread'[u] = thread[u]
      BY DEF Making
    <3>2. \A u \in Threads : thread'[u].at # "idle" => Past(thread[u].id)
      BY DEF IdsPast, Making
    <3>3. \A u \in Threads : thread'[u].at # "idle" => Past(thread[u].id)'
      BY <1>4, <1>6, <3>2 DEF Past
    <3> QED
      BY <3>1, <3>3 DEF IdsPast
  <2>3. \A h \in Helpers : helper'[h].at = "idle" => helper'[h] = Idle
    BY DEF IdsPast, Types
  <2> QED
    BY <1>4, <2>1, <2>2, <2>3 DEF IdsPast
<1>9. MakersAlone'
  <2> SUFFICES ASSUME NEW u \in Threads, Making(u) PROVE MadeAlone(u, thread[u].id)'
    BY <1>6 DEF MakersAlone
  <2>1. PICK i : i = thread[u].id
    OBVIOUS
  <2>2. MadeAlone(u, i) /\ WorldFind(i) /\ i[1] \in Slots /\ i = IdOf(i[1])
    BY <2>1 DEF MakersAlone, MadeAlone, WorldFind
  <2>3. l # id => i[1] # l[1]
    <3>1. \A r \in Slots : world[r].leader = i => r = i[1]
      BY <2>2 DEF MadeAlone
    <3> QED
      BY <1>3, <2>2, <3>1
  <2>4. CASE i # id
    <3>1. i[1] # s /\ world'[i[1]] = world[i[1]]
      <4>1. i[1] # s
        BY <1>1, <2>2, <2>4
      <4>2. l = id => l[1] = s
        BY <1>2
      <4> QED
        BY <2>2, <2>3, <4>1, <4>2
    <3> QED
      BY <1>1, <1>5, <1>6, <2>1, <2>2, <2>4, <3>1, MakerKept
  <2>5. CASE i = id
    <3>1. i[1] = s /\ (j <=> thread'[u].at \in {"rest", "clean"})
      <4>1. i[1] = s /\ thread'[u].at = IF j THEN "rest" ELSE "wipe"
        BY <1>1, <1>2, <2>1, <2>5
      <4>2. CASE j
        BY <4>1, <4>2
      <4>3. CASE ~j
        BY <4>1, <4>3
      <4> QED
        BY <4>2, <4>3
    <3>2. world'[s].readerCount = 0
      BY <1>1, <1>3, <2>2, <3>1 DEF MadeAlone
    <3>3. \A v \in Threads \ {u} : thread'[v].id # i
      BY <1>6, <2>2 DEF MadeAlone
    <3>4. \A r \in Slots : world'[r].leader = i => r = i[1]
      BY <2>2 DEF MadeAlone
    <3>5. ~world'[s].reapStarted /\ ~world'[s].reapScheduled /\ world'[s].runState = "NEW" /\ reapTimers'[i] = 0
      BY <2>2, <3>1 DEF MadeAlone
    <3>6. MadeAlone(u, i)'
      BY <1>4, <2>2, <3>1, <3>2, <3>3, <3>4, <3>5 DEF MadeAlone
    <3> QED
      BY <1>6, <2>1, <3>6
  <2> QED
    BY <2>4, <2>5
<1>10. \A i : Holders(i)' = Holders(i)
  BY <1>6 DEF Holders, Making
<1>11. Held'
  BY <1>5, <1>10 DEF Held
<1>12. \A i : i # l \/ l = id => Members(i)' = Members(i)
  BY <1>1, <1>4 DEF Members
<1>13. l # id => IF j THEN s \notin Members(l) /\ Members(l)' = Members(l) \cup {s}
                 ELSE s \in Members(l) /\ Members(l)' = Members(l) \ {s}
  BY <1>1, <1>4 DEF Members, Types, Records
<1>14. ReadersExact'
  <2>1. Cardinality(Members(l)) \in Nat /\ Cardinality(Holders(l)) \in Nat
    BY ReadersFinite
  <2>2. l # id => Cardinality(Members(l)') = Cardinality(Members(l)) + (IF j THEN 1 ELSE -1)
    <3>1. CASE l # id /\ j
      BY <1>13, <2>1, <3>1, ReadersFinite, FS_AddElement
    <3>2. CASE l # id /\ ~j
      BY <1>13, <2>1, <3>2, ReadersFinite, FS_RemoveElement
    <3> QED
      BY <3>1, <3>2
  <2>3. ASSUME NEW r \in Slots
        PROVE  world'[r].readerCount = Cardinality(Holders(IdOf(r))') + Cardinality(Members(IdOf(r))')
    <3>1. CASE l = id \/ IdOf(r) # l
      <4>1. world'[r].readerCount = world[r].readerCount
        BY <1>1, <1>3, <3>1
      <4> QED
        BY <1>4, <1>10, <1>12, <3>1, <4>1 DEF ReadersExact
    <3>2. CASE l # id /\ IdOf(r) = l
      <4>1. l[1] = r /\ world[r].readerCount = Cardinality(Holders(l)) + Cardinality(Members(l))
        <5>1. l[1] = r
          BY <3>2 DEF IdOf
        <5> QED
          BY <3>2, <5>1 DEF ReadersExact
      <4> QED
        BY <1>1, <1>4, <1>10, <2>1, <2>2, <3>2, <4>1
    <3> QED
      BY <3>1, <3>2
  <2> QED
    BY <1>4, <2>3 DEF ReadersExact
<1>15. LeaderOutlivesMembers'
  <2> SUFFICES ASSUME NEW r \in Slots, world'[r].joined, world'[r].leader # IdOf(r)'
               PROVE  Findable(world[r].leader)'
    BY DEF LeaderOutlivesMembers
  <2>1. PICK m : m = world[r].leader
    OBVIOUS
  <2>2. Findable(m)
    BY <1>1, <1>4, <2>1 DEF LeaderOutlivesMembers
  <2> QED
    BY <1>5, <2>1, <2>2
<1>16. \A h \in Helpers : /\ helper'[h].id = helper[h].id /\ (helper'[h] # Idle <=> helper[h] # Idle)
                          /\ helper'[h].at \in {"clean", "wipe"} <=> helper[h].at \in {"clean", "wipe"}
  BY DEF Types, Idle
<1>17. OneReap'
  <2>1. \A h \in Helpers : helper'[h] # Idle => WorldFind(helper[h].id) /\ helper[h].id[1] \in Slots
    BY <1>16 DEF OneReap, WorldFind
  <2>2. \A h \in Helpers : helper'[h] # Idle => WorldFind(helper[h].id)'
    BY <1>4, <1>16, <2>1
  <2> QED
    BY <1>16, <2>1, <2>2 DEF OneReap
<1>18. ReapedUnread'
  <2>1. \A h \in Helpers : helper[h].at \in {"clean", "wipe"} => helper[h].id[1] \in Slots /\ WorldFind(helper[h].id) /\ helper[h] # Idle
    BY DEF OneReap, Idle, WorldFind
  <2>2. l # id => ~world[l[1]].reapStarted
    BY <1>3 DEF Findable
  <2>3. ReapedAtRest' /\ \A r \in Slots : world'[r].inUse /\ world'[r].reapStarted => world'[r].readerCount = 0
    BY <1>1, <2>2 DEF ReapedUnread, ReapedAtRest
  <2>4. \A h \in Helpers : helper'[h].at \in {"clean", "wipe"} => world'[helper'[h].id[1]].reapStarted
    BY <1>16, <2>1 DEF ReapedUnread
  <2>5. \A h \in Helpers : helper'[h].at = "wipe" => ~world'[helper'[h].id[1]].joined
    <3> SUFFICES ASSUME NEW h \in Helpers, helper'[h].at = "wipe" PROVE ~world'[helper[h].id[1]].joined
      BY <1>16
    <3>1. helper[h].id[1] \in Slots /\ WorldFind(helper[h].id) /\ helper[h] # Idle
      BY <1>16, <2>1
    <3>2. CASE helper[h].id[1] = s
      BY <1>1, <3>1, <3>2 DEF WorldFind
    <3>3. CASE helper[h].id[1] # s
      BY <3>1, <3>3 DEF ReapedUnread
    <3> QED
      BY <3>2, <3>3
  <2> QED
    BY <2>3, <2>4, <2>5 DEF ReapedUnread
<1>19. NoneAwaitsTheGone'
  <2>1. \A u \in Threads : thread'[u].at = "asleep" => WorldFind(thread[u].id)
    BY DEF NoneAwaitsTheGone, Making
  <2> QED
    BY <1>4, <1>6, <2>1 DEF NoneAwaitsTheGone
<1> QED
  BY <1>8, <1>9, <1>11, <1>14, <1>15, <1>17, <1>18, <1>19

(* The fields of a record that joining and leaving a group assign.         *)
LEMMA RecordFacts ==
  ASSUME NEW w \in Records
  PROVE  /\ [w EXCEPT !.joined = TRUE] \in Records
         /\ [w EXCEPT !.joined = FALSE] \in Records
         /\ [w EXCEPT !.readerCount = @ + 1] \in Records
         /\ [w EXCEPT !.readerCount = @ - 1] \in Records
<1>1. [w EXCEPT !.joined = TRUE] \in Records
  BY DEF Records
<1>2. [w EXCEPT !.joined = FALSE] \in Records
  BY DEF Records
<1>3. ASSUME NEW n \in Int PROVE [w EXCEPT !.readerCount = n] \in Records
  BY DEF Records
<1>4. w.readerCount + 1 \in Int /\ w.readerCount - 1 \in Int
  BY DEF Records
<1> QED
  BY <1>1, <1>2, <1>3, <1>4

(* The world that t makes.                                                 *)
LEMMA MakerFacts ==
  ASSUME WorldInv, NEW t \in Threads, Making(t)
  PROVE  /\ thread[t].id \in Ids /\ thread[t].id[1] \in Slots
         /\ WorldFind(thread[t].id) /\ thread[t].id = IdOf(thread[t].id[1])
         /\ world[thread[t].id[1]].inUse
         /\ MadeAlone(t, thread[t].id)
         /\ \A u \in Threads : Making(u) /\ thread[u].id = thread[t].id => u = t
         /\ \A h \in Helpers : helper[h].id # thread[t].id
<1>1. MadeAlone(t, thread[t].id) /\ thread[t].id \in Ids
  BY DEF WorldInv, MakersAlone, IdsPast, Past, Making
<1>2. \A h \in Helpers : helper[h].id # thread[t].id
  <2>1. \A h \in Helpers : helper[h] # Idle => world[helper[h].id[1]].reapScheduled
    BY DEF WorldInv, OneReap
  <2>2. Idle.id \notin Ids
    BY IdFacts DEF Idle
  <2> QED
    BY <1>1, <2>1, <2>2 DEF MadeAlone
<1> QED
  BY <1>1, <1>2 DEF MadeAlone, WorldFind

(* The end of WorldGroupInit, when the leader is the world itself or is    *)
(* still there.                                                            *)
LEMMA JoinStep ==
  ASSUME WorldInv, NEW t \in Threads, Join(t),
         UNCHANGED <<made, helper, reapTimers, killTimers, kills>>,
         \/ thread[t].id = world[thread[t].id[1]].leader
         \/ Findable(world[thread[t].id[1]].leader),
         thread[t].at = IF thread[t].id = world[thread[t].id[1]].leader THEN "init" ELSE "join"
  PROVE  WorldInv'
<1>1. PICK id, s, l : id = thread[t].id /\ s = id[1] /\ l = world[s].leader
  OBVIOUS
<1>2. Making(t)
  BY DEF Making
<1>3. /\ id \in Ids /\ s \in Slots /\ id = IdOf(s) /\ world[s].inUse /\ MadeAlone(t, id)
      /\ \A u \in Threads : Making(u) /\ thread[u].id = id => u = t
      /\ \A h \in Helpers : helper[h].id # id
  BY <1>1, <1>2, MakerFacts
<1>4. world[s].joined = FALSE /\ (l = id \/ Findable(l))
  BY <1>1, <1>3 DEF MadeAlone, WorldInv, Types, Records
<1>5. l # id => l[1] \in Slots /\ l[1] # s
  BY <1>3, <1>4 DEF Findable, WorldFind
<1>6. world' = [r \in Slots |->
                  LET w == IF r = s THEN [world[r] EXCEPT !.joined = TRUE] ELSE world[r]
                  IN IF id # l /\ r = l[1] THEN [w EXCEPT !.readerCount = @ + 1] ELSE w]
  <2>1. \/ world' = [r \in Slots |->
                      LET w == IF r = s THEN [world[r] EXCEPT !.joined = TRUE] ELSE world[r]
                      IN IF id # l /\ r = l[1] THEN [w EXCEPT !.readerCount = @ + 1] ELSE w]
        \/ id # l /\ ~Findable(l)
    BY <1>1, Zenon DEF Join
  <2> QED
    BY <1>4, <2>1, Zenon
<1>7. /\ world'[s] = [world[s] EXCEPT !.joined = TRUE]
      /\ l # id => world'[l[1]] = [world[l[1]] EXCEPT !.readerCount = @ + 1]
      /\ \A r \in Slots : r # s /\ (l = id \/ r # l[1]) => world'[r] = world[r]
  BY <1>3, <1>5, <1>6
<1>8. /\ \A r \in Slots : world[r] \in Records
      /\ thread \in [Threads -> [at : {"idle", "init", "join", "lost", "rest", "clean", "wipe", "holds",
                                       "remove", "add", "awaits", "asleep"}, id : Ids \cup {NoId}]]
  BY DEF WorldInv, Types
<1>9. \A w \in Records : [w EXCEPT !.joined = TRUE] \in Records /\ [w EXCEPT !.readerCount = @ + 1] \in Records
  BY RecordFacts
<1>10. Types'
  <2>1. world' \in [Slots -> Records]
    BY <1>6, <1>8, <1>9
  <2>2. thread' = [thread EXCEPT ![t].at = "rest"]
    BY DEF Join, Go
  <2>3. thread' \in [Threads -> [at : {"idle", "init", "join", "lost", "rest", "clean", "wipe", "holds",
                                      "remove", "add", "awaits", "asleep"}, id : Ids \cup {NoId}]]
    BY <1>8, <2>2
  <2> QED
    BY <2>1, <2>3 DEF WorldInv, Types
<1>11. ASSUME NEW r \in Slots
       PROVE  /\ world'[r].inUse = world[r].inUse /\ world'[r].generation = world[r].generation
              /\ world'[r].leader = world[r].leader /\ (r # s => world'[r].joined = world[r].joined)
              /\ world'[r].runState = world[r].runState /\ world'[r].hostCount = world[r].hostCount
              /\ world'[r].reapStarted = world[r].reapStarted
              /\ world'[r].reapScheduled = world[r].reapScheduled
              /\ r # s /\ r # l[1] => world'[r] = world[r]
              /\ r # l[1] \/ l = id => world'[r].readerCount = world[r].readerCount
  <2>1. CASE r = s
    BY <1>7, <1>8, <2>1 DEF Records
  <2>2. CASE r # s /\ l # id /\ r = l[1]
    BY <1>7, <1>8, <2>2 DEF Records
  <2>3. CASE r # s /\ (l = id \/ r # l[1])
    BY <1>7, <2>3
  <2> QED
    BY <2>1, <2>2, <2>3
<1>12. world'[s].joined = TRUE /\ (l # id => world'[l[1]].readerCount = world[l[1]].readerCount + 1)
  BY <1>3, <1>5, <1>7, <1>8 DEF Records
<1>13. \A u \in Threads :
         IF Making(u) /\ thread[u].id = id
         THEN thread'[u].id = thread[u].id /\ thread'[u].at = "rest"
         ELSE thread'[u] = thread[u]
  BY <1>1, <1>2, <1>3, <1>8 DEF Join, Go
<1>14. TableGoes(s, l, TRUE)
  BY <1>3, <1>4, <1>11, <1>12 DEF TableGoes
<1>15. CallersGo(s, TRUE)
  BY <1>3, <1>13 DEF CallersGo
<1>16. RequestsGo(s, TRUE)
  BY <1>3 DEF RequestsGo
<1>17. l = world[s].leader /\ (l = IdOf(s) \/ Findable(l))
  BY <1>1, <1>3, <1>4
<1> QED
  BY <1>3, <1>10, <1>14, <1>15, <1>16, <1>17, GroupStep

(* WorldGroupCleanup, of a world that is in its group.                     *)
LEMMA LeaveStep ==
  ASSUME WorldInv, UNCHANGED <<made, reapTimers, killTimers, kills>>,
         NEW s \in Slots, world[s].inUse, world[s].joined, WorldGroupCleanup(IdOf(s)),
         \/ /\ helper' = helper
            /\ \E t \in Threads : /\ thread[t].at = "clean" /\ thread[t].id = IdOf(s)
                                  /\ thread' = [thread EXCEPT ![t].at = "wipe"]
         \/ /\ thread' = thread
            /\ \E h \in Helpers : /\ helper[h].at = "clean" /\ helper[h].id = IdOf(s)
                                  /\ helper' = [helper EXCEPT ![h].at = "wipe"]
  PROVE  WorldInv'
<1>1. PICK id, l : id = IdOf(s) /\ l = world[s].leader
  OBVIOUS
<1>2. id[1] = s
  BY <1>1 DEF IdOf
<1>3. l = id \/ Findable(l)
  BY <1>1 DEF WorldInv, LeaderOutlivesMembers
<1>4. l # id => l[1] \in Slots /\ l[1] # s
  BY <1>1, <1>3 DEF Findable, WorldFind
<1>5. world' = [r \in Slots |->
                  LET w == IF r = s THEN [world[r] EXCEPT !.joined = FALSE] ELSE world[r]
                  IN IF id # l /\ r = l[1] THEN [w EXCEPT !.readerCount = @ - 1] ELSE w]
  BY <1>1, <1>2 DEF WorldGroupCleanup
<1>6. /\ world'[s] = [world[s] EXCEPT !.joined = FALSE]
      /\ l # id => world'[l[1]] = [world[l[1]] EXCEPT !.readerCount = @ - 1]
      /\ \A r \in Slots : r # s /\ (l = id \/ r # l[1]) => world'[r] = world[r]
  BY <1>4, <1>5
<1>7. /\ \A r \in Slots : world[r] \in Records
      /\ thread \in [Threads -> [at : {"idle", "init", "join", "lost", "rest", "clean", "wipe", "holds",
                                       "remove", "add", "awaits", "asleep"}, id : Ids \cup {NoId}]]
      /\ helper \in [Helpers -> [at : {"idle", "asked", "look", "clean", "wipe"}, id : Ids \cup {NoId}]]
  BY DEF WorldInv, Types
<1>8. \A w \in Records : [w EXCEPT !.joined = FALSE] \in Records /\ [w EXCEPT !.readerCount = @ - 1] \in Records
  BY RecordFacts
<1>9. Types'
  <2>1. world' \in [Slots -> Records]
    BY <1>5, <1>7, <1>8
  <2>2. thread' \in [Threads -> [at : {"idle", "init", "join", "lost", "rest", "clean", "wipe", "holds",
                                      "remove", "add", "awaits", "asleep"}, id : Ids \cup {NoId}]]
    BY <1>7
  <2>3. helper' \in [Helpers -> [at : {"idle", "asked", "look", "clean", "wipe"}, id : Ids \cup {NoId}]]
    BY <1>7
  <2> QED
    BY <2>1, <2>2, <2>3 DEF WorldInv, Types
<1>10. ASSUME NEW r \in Slots
       PROVE  /\ world'[r].inUse = world[r].inUse /\ world'[r].generation = world[r].generation
              /\ world'[r].leader = world[r].leader /\ (r # s => world'[r].joined = world[r].joined)
              /\ world'[r].runState = world[r].runState /\ world'[r].hostCount = world[r].hostCount
              /\ world'[r].reapStarted = world[r].reapStarted
              /\ world'[r].reapScheduled = world[r].reapScheduled
              /\ r # s /\ r # l[1] => world'[r] = world[r]
              /\ r # l[1] \/ l = id => world'[r].readerCount = world[r].readerCount
  <2>1. CASE r = s
    BY <1>6, <1>7, <2>1 DEF Records
  <2>2. CASE r # s /\ l # id /\ r = l[1]
    BY <1>6, <1>7, <2>2 DEF Records
  <2>3. CASE r # s /\ (l = id \/ r # l[1])
    BY <1>6, <2>3
  <2> QED
    BY <2>1, <2>2, <2>3
<1>11. world'[s].joined = FALSE /\ (l # id => world'[l[1]].readerCount = world[l[1]].readerCount + (-1))
  BY <1>4, <1>6, <1>7 DEF Records
<1>12. TableGoes(s, l, FALSE)
  <2>1. world[s].joined = TRUE
    BY <1>7 DEF Records
  <2> QED
    BY <1>1, <1>10, <1>11, <2>1 DEF TableGoes
<1>13. CASE \E t \in Threads : /\ thread[t].at = "clean" /\ thread[t].id = id
                               /\ thread' = [thread EXCEPT ![t].at = "wipe"] /\ helper' = helper
  <2>1. PICK t \in Threads : /\ thread[t].at = "clean" /\ thread[t].id = id
                             /\ thread' = [thread EXCEPT ![t].at = "wipe"]
    BY <1>13
  <2>2. Making(t) /\ \A u \in Threads : Making(u) /\ thread[u].id = id => u = t
    BY <2>1, MakerFacts DEF Making
  <2>3. \A u \in Threads :
          IF Making(u) /\ thread[u].id = id
          THEN thread'[u].id = thread[u].id /\ thread'[u].at = "wipe"
          ELSE thread'[u] = thread[u]
    BY <1>7, <2>1, <2>2
  <2>4. CallersGo(s, FALSE)
    BY <1>1, <2>3 DEF CallersGo
  <2>5. RequestsGo(s, FALSE)
    BY <1>13 DEF RequestsGo
  <2>6. l = world[s].leader /\ (l = IdOf(s) \/ Findable(l))
    BY <1>1, <1>3
  <2> QED
    BY <1>9, <1>12, <2>4, <2>5, <2>6, GroupStep
<1>14. CASE \E h \in Helpers : /\ helper[h].at = "clean" /\ helper[h].id = id
                               /\ helper' = [helper EXCEPT ![h].at = "wipe"] /\ thread' = thread
  <2>1. PICK h \in Helpers : /\ helper[h].at = "clean" /\ helper[h].id = id
                             /\ helper' = [helper EXCEPT ![h].at = "wipe"]
    BY <1>14
  <2>2. \A u \in Threads : ~(Making(u) /\ thread[u].id = id)
    BY <2>1, MakerFacts
  <2>3. \A g \in Helpers : \/ helper'[g] = helper[g]
                           \/ helper[g].at = "clean" /\ helper'[g] = [helper[g] EXCEPT !.at = "wipe"]
    BY <1>7, <2>1
  <2>4. \A g \in Helpers : helper'[g].at = "wipe" /\ helper[g].at # "wipe" => helper[g].id[1] = s
    BY <1>2, <1>7, <2>1
  <2>5. CallersGo(s, FALSE)
    BY <1>1, <1>14, <2>2 DEF CallersGo
  <2>6. RequestsGo(s, FALSE)
    BY <2>3, <2>4 DEF RequestsGo
  <2>7. l = world[s].leader /\ (l = IdOf(s) \/ Findable(l))
    BY <1>1, <1>3
  <2> QED
    BY <1>9, <1>12, <2>5, <2>6, <2>7, GroupStep
<1> QED
  BY <1>1, <1>13, <1>14

(* A request that is cleaning a world up: nobody reads the world or makes  *)
(* it, and no other request is about it.                                   *)
LEMMA CleanerFacts ==
  ASSUME WorldInv, NEW h \in Helpers, helper[h].at \in {"clean", "wipe"}
  PROVE  /\ helper[h].id \in Ids /\ helper[h].id[1] \in Slots /\ WorldFind(helper[h].id)
         /\ helper[h].id = IdOf(helper[h].id[1]) /\ world[helper[h].id[1]].inUse
         /\ world[helper[h].id[1]].readerCount = 0
         /\ \A u \in Threads : Making(u) => thread[u].id # helper[h].id
         /\ \A g \in Helpers \ {h} : helper[g].id # helper[h].id
<1>1. PICK id : id = helper[h].id
  OBVIOUS
<1>2. helper[h] # Idle
  BY DEF Idle
<1>3. WorldFind(id) /\ world[id[1]].reapScheduled /\ \A g \in Helpers \ {h} : helper[g].id # id
  BY <1>1, <1>2 DEF WorldInv, OneReap
<1>4. id[1] \in Slots /\ id = IdOf(id[1]) /\ world[id[1]].inUse
  BY <1>3 DEF WorldFind
<1>5. id \in Ids
  BY <1>4, IdFacts DEF WorldInv, Types, Records, IdOf
<1>6. world[id[1]].reapStarted
  BY <1>1 DEF WorldInv, ReapedUnread
<1>7. world[id[1]].readerCount = 0
  BY <1>4, <1>6 DEF WorldInv, ReapedUnread
<1>8. \A u \in Threads : Making(u) => thread[u].id # id
  BY <1>3 DEF WorldInv, MakersAlone, MadeAlone
<1> QED
  BY <1>1, <1>3, <1>4, <1>5, <1>7, <1>8

(* What depends on the table and the callers alone stays when they do.     *)
LEMMA Stutters ==
  ASSUME WorldInv, UNCHANGED <<world, thread, reapTimers>>
  PROVE  MakersAlone' /\ Held' /\ ReadersExact' /\ LeaderOutlivesMembers' /\ NoneAwaitsTheGone'
<1>1. /\ \A i : Findable(i)' <=> Findable(i)
      /\ \A i : Holders(i)' = Holders(i)
      /\ \A i : Members(i)' = Members(i)
  BY DEF WorldFind, Findable, Holders, Members, IdOf
<1>2. \A s \in Slots : IdOf(s)' = IdOf(s)
  BY DEF IdOf
<1>3. MakersAlone'
  BY DEF WorldInv, MakersAlone, MadeAlone, Making, WorldFind, Findable, IdOf
<1>4. ReadersExact'
  <2>1. \A s \in Slots :
          world'[s].readerCount = Cardinality(Holders(IdOf(s))') + Cardinality(Members(IdOf(s))')
    BY <1>1, <1>2 DEF WorldInv, ReadersExact
  <2> QED
    BY <1>2, <2>1 DEF ReadersExact
<1>5. Held'
  BY <1>1 DEF WorldInv, Held
<1>6. LeaderOutlivesMembers' /\ NoneAwaitsTheGone'
  BY DEF WorldInv, LeaderOutlivesMembers, NoneAwaitsTheGone, Findable, WorldFind, IdOf
<1> QED
  BY <1>3, <1>4, <1>5, <1>6

(* WorldCleanup by the helper world that reaps the world.                  *)
LEMMA CleanupStep ==
  ASSUME WorldInv, NEW h \in Helpers, WorldCleanup(h)
  PROVE  WorldInv'
<1>1. PICK id, s : id = helper[h].id /\ s = id[1]
  OBVIOUS
<1>2. helper[h].at \in {"clean", "wipe"} /\ UNCHANGED <<made, reapTimers, killTimers, kills>>
  BY DEF WorldCleanup
<1>3. /\ id \in Ids /\ s \in Slots /\ WorldFind(id) /\ id = IdOf(s) /\ world[s].inUse
      /\ world[s].readerCount = 0
      /\ \A u \in Threads : Making(u) => thread[u].id # id
      /\ \A g \in Helpers \ {h} : helper[g].id # id
  BY <1>1, <1>2, CleanerFacts
<1>4. /\ world \in [Slots -> Records]
      /\ thread \in [Threads -> [at : {"idle", "init", "join", "lost", "rest", "clean", "wipe", "holds",
                                       "remove", "add", "awaits", "asleep"}, id : Ids \cup {NoId}]]
      /\ helper \in [Helpers -> [at : {"idle", "asked", "look", "clean", "wipe"}, id : Ids \cup {NoId}]]
  BY DEF WorldInv, Types
<1>5. CASE helper[h].at = "clean" /\ world[s].joined
  <2>1. /\ WorldGroupCleanup(IdOf(s)) /\ thread' = thread
        /\ helper' = [helper EXCEPT ![h].at = "wipe"] /\ helper[h].at = "clean" /\ helper[h].id = IdOf(s)
    BY <1>1, <1>3, <1>5 DEF WorldCleanup
  <2> QED
    BY <1>2, <1>3, <1>5, <2>1, LeaveStep
<1>6. CASE helper[h].at = "clean" /\ ~world[s].joined
  <2>1. /\ WorldGroupCleanup(id) /\ thread' = thread /\ helper' = [helper EXCEPT ![h].at = "wipe"]
    BY <1>1, <1>6 DEF WorldCleanup
  <2>2. \A w \in Records : ~w.joined => [w EXCEPT !.joined = FALSE] = w
    BY DEF Records
  <2>3. world' = world
    BY <1>1, <1>4, <1>6, <2>1, <2>2 DEF WorldGroupCleanup
  <2>4. helper' \in [Helpers -> [at : {"idle", "asked", "look", "clean", "wipe"}, id : Ids \cup {NoId}]]
    BY <1>4, <2>1
  <2>5. Types'
    BY <1>2, <2>1, <2>3, <2>4 DEF WorldInv, Types
  <2>6. \A g \in Helpers : /\ helper'[g].id = helper[g].id
                           /\ helper'[g] = helper[g] \/ g = h
    BY <1>4, <2>1
  <2>7. helper'[h].at = "wipe" /\ helper[h] # Idle /\ helper'[h] # Idle
    BY <1>4, <1>6, <2>1 DEF Idle
  <2>8. IdsPast'
    <3>1. \A g \in Helpers : helper'[g].at = "idle" => helper'[g] = Idle
      BY <2>6, <2>7 DEF WorldInv, IdsPast
    <3> QED
      BY <1>2, <2>1, <2>3, <3>1 DEF WorldInv, IdsPast, Past
  <2>9. MakersAlone' /\ Held' /\ ReadersExact' /\ LeaderOutlivesMembers' /\ NoneAwaitsTheGone'
    BY <1>2, <2>1, <2>3, Stutters DEF WorldInv
  <2>10. ReapedUnread'
    BY <1>1, <1>2, <1>6, <2>3, <2>6, <2>7 DEF WorldInv, ReapedUnread, ReapedAtRest
  <2>11. OneReap'
    BY <2>3, <2>6, <2>7 DEF WorldInv, OneReap, WorldFind, IdOf
  <2> QED
    BY <2>5, <2>8, <2>9, <2>10, <2>11 DEF WorldInv
<1>7. CASE helper[h].at = "wipe"
  <2>1. Wipe(id, thread) /\ helper' = [helper EXCEPT ![h] = Idle]
    BY <1>1, <1>7 DEF WorldCleanup
  <2>2. ~world[s].joined
    BY <1>1, <1>7 DEF WorldInv, ReapedUnread
  <2>3. world' = [world EXCEPT ![s] = Blank(id[2])]
    BY <1>1, <2>1 DEF Wipe
  <2>4. \A u \in Threads : thread'[u] = IF thread[u] = [at |-> "asleep", id |-> id]
                                       THEN [at |-> "awaits", id |-> id] ELSE thread[u]
    BY <2>1 DEF Wipe
  <2>5. Types'
    <3>1. Blank(id[2]) \in Records
      BY <1>3, IdFacts, WorldBounds DEF Blank, Records, RunStates, KillLevels
    <3>2. thread' \in [Threads -> [at : {"idle", "init", "join", "lost", "rest", "clean", "wipe", "holds",
                                         "remove", "add", "awaits", "asleep"}, id : Ids \cup {NoId}]]
      BY <1>3, <1>4, <2>1 DEF Wipe
    <3>3. helper' \in [Helpers -> [at : {"idle", "asked", "look", "clean", "wipe"}, id : Ids \cup {NoId}]]
      BY <1>4, <2>1 DEF Idle
    <3>4. world' \in [Slots -> Records]
      BY <1>4, <2>3, <3>1
    <3> QED
      BY <1>2, <3>2, <3>3, <3>4 DEF WorldInv, Types
  <2>6. \A g \in Helpers : \/ helper'[g] = helper[g] /\ helper[g].id # id
                           \/ helper'[g] = Idle
    BY <1>3, <1>4, <2>1
  <2>7. \A u \in Threads :
           \/ thread'[u] = thread[u] /\ thread[u] # [at |-> "asleep", id |-> id]
                /\ ~(Making(u) /\ thread[u].id = id)
           \/ thread'[u] = Idle /\ Making(u) /\ thread[u].id = id
           \/ thread'[u] = [at |-> "awaits", id |-> id] /\ thread[u] = [at |-> "asleep", id |-> id]
    BY <1>3, <2>4
  <2> QED
    BY <1>1, <1>2, <1>3, <2>2, <2>3, <2>5, <2>6, <2>7, WipeStep
<1> QED
  BY <1>2, <1>5, <1>6, <1>7

(* WorldCleanup by the caller whose world was not made.                    *)
LEMMA HalfMadeStep ==
  ASSUME WorldInv, NEW t \in Threads, WorldCleanupHalfMade(t)
  PROVE  WorldInv'
<1>1. PICK id, s : id = thread[t].id /\ s = id[1]
  OBVIOUS
<1>2. /\ thread[t].at \in {"clean", "wipe"} /\ Making(t)
      /\ UNCHANGED <<made, helper, reapTimers, killTimers, kills>>
  BY DEF WorldCleanupHalfMade, Making
<1>3. /\ id \in Ids /\ s \in Slots /\ WorldFind(id) /\ id = IdOf(s) /\ world[s].inUse /\ MadeAlone(t, id)
      /\ \A u \in Threads : Making(u) /\ thread[u].id = id => u = t
      /\ \A h \in Helpers : helper[h].id # id
  BY <1>1, <1>2, MakerFacts
<1>4. /\ world \in [Slots -> Records]
      /\ thread \in [Threads -> [at : {"idle", "init", "join", "lost", "rest", "clean", "wipe", "holds",
                                       "remove", "add", "awaits", "asleep"}, id : Ids \cup {NoId}]]
  BY DEF WorldInv, Types
<1>5. CASE thread[t].at = "clean"
  <2>1. /\ WorldGroupCleanup(IdOf(s)) /\ helper' = helper /\ world[s].joined
        /\ thread' = [thread EXCEPT ![t].at = "wipe"] /\ thread[t].at = "clean" /\ thread[t].id = IdOf(s)
    BY <1>1, <1>2, <1>3, <1>5 DEF WorldCleanupHalfMade, MadeAlone, Go
  <2> QED
    BY <1>2, <1>3, <2>1, LeaveStep
<1>6. CASE thread[t].at = "wipe"
  <2>1. Wipe(id, [thread EXCEPT ![t] = Idle])
    BY <1>1, <1>6 DEF WorldCleanupHalfMade
  <2>2. ~world[s].joined /\ world[s].readerCount = 0
    BY <1>1, <1>3, <1>6 DEF MadeAlone
  <2>3. world' = [world EXCEPT ![s] = Blank(id[2])]
    BY <1>1, <2>1 DEF Wipe
  <2>4. /\ \A u \in Threads \ {t} : thread'[u] = IF thread[u] = [at |-> "asleep", id |-> id]
                                                THEN [at |-> "awaits", id |-> id] ELSE thread[u]
        /\ thread'[t] = Idle
    BY <1>4, <2>1 DEF Wipe, Idle
  <2>5. Types'
    <3>1. Blank(id[2]) \in Records
      BY <1>3, IdFacts, WorldBounds DEF Blank, Records, RunStates, KillLevels
    <3>2. thread' \in [Threads -> [at : {"idle", "init", "join", "lost", "rest", "clean", "wipe", "holds",
                                         "remove", "add", "awaits", "asleep"}, id : Ids \cup {NoId}]]
      BY <1>3, <1>4, <2>1 DEF Wipe, Idle
    <3>3. world' \in [Slots -> Records]
      BY <1>4, <2>3, <3>1
    <3> QED
      BY <1>2, <3>2, <3>3 DEF WorldInv, Types
  <2>6. \A u \in Threads :
           \/ thread'[u] = thread[u] /\ thread[u] # [at |-> "asleep", id |-> id]
                /\ ~(Making(u) /\ thread[u].id = id)
           \/ thread'[u] = Idle /\ Making(u) /\ thread[u].id = id
           \/ thread'[u] = [at |-> "awaits", id |-> id] /\ thread[u] = [at |-> "asleep", id |-> id]
    BY <1>1, <1>2, <1>3, <2>4
  <2> QED
    BY <1>1, <1>2, <1>3, <2>2, <2>3, <2>5, <2>6, WipeStep
<1> QED
  BY <1>2, <1>5, <1>6

(* Every step keeps all that.                                              *)
LEMMA NextWorld ==
  ASSUME WorldInv, OpenWindows \subseteq {"sleep"}, [Next]_vars
  PROVE  WorldInv'
<1>0. CASE UNCHANGED vars
  <2>1. MakersAlone' /\ Held' /\ ReadersExact' /\ LeaderOutlivesMembers' /\ NoneAwaitsTheGone'
    BY <1>0, Stutters DEF vars, WorldInv
  <2>2. Types' /\ IdsPast'
    BY <1>0 DEF vars, WorldInv, Types, IdsPast, Past
  <2>3. ReapedUnread' /\ OneReap'
    BY <1>0 DEF vars, WorldInv, ReapedUnread, ReapedAtRest, OneReap, WorldFind, IdOf
  <2> QED
    BY <2>1, <2>2, <2>3 DEF WorldInv
<1>1. ASSUME NEW t \in Threads,
             \E s \in Slots : \E group \in {NoId} \cup {IdOf(u) : u \in Slots} : WorldNewInt(t, s, group)
      PROVE  WorldInv'
  BY <1>1, NewStep
<1>2. ASSUME NEW t \in Threads, WorldGroupInit(t) PROVE WorldInv'
  <2>1. CASE Join(t) /\ thread[t].at = IF thread[t].id = world[thread[t].id[1]].leader THEN "init" ELSE "join"
    <3>1. CASE thread[t].id = world[thread[t].id[1]].leader \/ Findable(world[thread[t].id[1]].leader)
      BY <1>2, <2>1, <3>1, JoinStep DEF WorldGroupInit
    <3>2. CASE ~(thread[t].id = world[thread[t].id[1]].leader \/ Findable(world[thread[t].id[1]].leader))
      <4>1. thread[t].at = "join" /\ thread' = [thread EXCEPT ![t].at = "lost"] /\ UNCHANGED world
        BY <2>1, <3>2 DEF Join, Go
      <4>2. PICK to : to = [thread[t] EXCEPT !.at = "lost"]
        OBVIOUS
      <4>3. thread' = [thread EXCEPT ![t] = to]
        BY <4>1, <4>2
      <4> QED
        BY <1>2, <4>1, <4>2, <4>3, CallerStep DEF WorldGroupInit
    <3> QED
      BY <3>1, <3>2
  <2>2. CASE /\ thread[t].at = "init" /\ thread[t].id # world[thread[t].id[1]].leader
             /\ Go(t, IF Findable(world[thread[t].id[1]].leader) THEN "join" ELSE "wipe")
             /\ UNCHANGED world
    <3>1. PICK a : a = IF Findable(world[thread[t].id[1]].leader) THEN "join" ELSE "wipe"
      OBVIOUS
    <3>2. PICK to : to = [thread[t] EXCEPT !.at = a]
      OBVIOUS
    <3>3. a \in {"join", "wipe"} /\ thread' = [thread EXCEPT ![t] = to]
      BY <2>2, <3>1, <3>2 DEF WorldInv, Types, Go
    <3> QED
      BY <1>2, <2>2, <3>2, <3>3, CallerStep DEF WorldGroupInit
  <2> QED
    BY <1>2, <2>1, <2>2 DEF WorldGroupInit
<1>3. ASSUME NEW t \in Threads, NEW ok \in BOOLEAN, WorldInit(t, ok) PROVE WorldInv'
  <2>1. Making(t) /\ world[thread[t].id[1]].joined
    <3>1. Making(t)
      BY <1>3 DEF WorldInit, Making
    <3> QED
      BY <1>3, <3>1 DEF WorldInit, WorldInv, MakersAlone, MadeAlone
  <2>2. PICK to : /\ thread' = [thread EXCEPT ![t] = to]
                  /\ to = Idle \/ to = [thread[t] EXCEPT !.at = "clean"]
    BY <1>3 DEF WorldInit
  <2> QED
    BY <1>3, <2>1, <2>2, CallerStep DEF WorldInit
<1>4. ASSUME NEW t \in Threads, AwaitDeath(t) PROVE WorldInv'
  <2>1. ~Making(t)
    BY <1>4 DEF AwaitDeath, Making
  <2>2. PICK to : /\ thread' = [thread EXCEPT ![t] = to]
                  /\ to = Idle \/ (to = [thread[t] EXCEPT !.at = "asleep"] /\ WorldFind(thread[t].id))
    BY <1>4 DEF AwaitDeath
  <2> QED
    BY <1>4, <2>1, <2>2, CallerStep DEF AwaitDeath
<1>5. CASE Next
  BY <1>1, <1>2, <1>3, <1>4, <1>5, HalfMadeStep, FindStep, ReleaseStep, QuietActions, ReapSteps, CleanupStep
     DEF Next
<1> QED
  BY <1>0, <1>5

(* A reader count is never negative and never more than there are slots    *)
(* and callers.                                                            *)
LEMMA WorldInvTypes == WorldInv => TypeOK
<1> SUFFICES ASSUME WorldInv PROVE TypeOK
  OBVIOUS
<1>1. \A s \in Slots : world[s].readerCount \in Counts
  BY ReadersFinite DEF WorldInv, ReadersExact, Counts
<1>2. \A s \in Slots : world[s] \in Records
  BY DEF WorldInv, Types
<1>3. \A s \in Slots : world[s] \in
        [inUse : BOOLEAN, generation : Generations, runState : RunStates, deathPending : BOOLEAN,
         killLevel : KillLevels, readerCount : Counts, hostCount : 0 .. MaxBinds,
         reapScheduled : BOOLEAN, reapStarted : BOOLEAN, reapCalls : 0 .. SCSI_REAP_RETRIES,
         leader : Ids \cup {NoId}, joined : BOOLEAN]
  BY <1>1, <1>2 DEF Records
<1> QED
  BY <1>3 DEF WorldInv, Types, TypeOK

(* Everything that the theorems below need, in every state, when nobody    *)
(* looks up a world that is still being made.                              *)
LEMMA WorldInvariant ==
  ASSUME OpenWindows \subseteq {"sleep"}
  PROVE  Spec => []WorldInv
<1>1. WorldInv /\ [Next]_vars => WorldInv'
  BY NextWorld
<1> QED
  BY <1>1, InitWorld, PTL DEF Spec

(* A world that somebody found with World_Find and has not released is     *)
(* still the one it was and is not being cleaned up, and readerCount stays *)
(* within its bounds, whatever kills, timers, reaps and new uses of slots  *)
(* there are.                                                              *)
THEOREM WorldsHeld ==
  ASSUME OpenWindows \subseteq {"sleep"}
  PROVE  Spec => []HeldWorldsIntact
<1>1. WorldInv => HeldWorldsIntact
  BY WorldInvTypes DEF WorldInv, Held, HeldWorldsIntact
<1> QED
  BY <1>1, WorldInvariant, PTL

(* The reference that WorldGroupInit takes keeps the vmm leader of a group *)
(* there, and from being cleaned up, as long as there is a member that got *)
(* it: also when other worlds are on the way into the group while the      *)
(* leader is reaped, which then get none (VmmLeaderStays, not proved: it   *)
(* does not hold).                                                         *)
THEOREM LeadersStay ==
  ASSUME OpenWindows \subseteq {"sleep"}
  PROVE  Spec => []LeaderOutlivesMembers
<1>1. WorldInv => LeaderOutlivesMembers
  BY DEF WorldInv
<1> QED
  BY <1>1, WorldInvariant, PTL

(* WorldReap cleans up only a world at rest, at most one request deals     *)
(* with a world, and nobody sleeps in World_ReleaseAndWaitForDeath for a   *)
(* world that is gone.                                                     *)
THEOREM ReapsSound ==
  ASSUME OpenWindows \subseteq {"sleep"}
  PROVE  Spec => []ReapIsSound
<1>1. WorldInv => ReapIsSound
  BY DEF WorldInv, ReapedUnread, ReapIsSound
<1> QED
  BY <1>1, WorldInvariant, PTL

===============================================================================
