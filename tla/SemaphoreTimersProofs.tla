------------------------- MODULE SemaphoreTimersProofs -------------------------
(***************************************************************************)
(* Proofs about two components that stand alone, RWSemaphore and Timers.   *)
(*                                                                         *)
(* RWSemaphore, for any finite set of worlds: the semaphore grants access  *)
(* by its counters, the properties speak of the worlds, so the invariant   *)
(* ties the two together (CountersExact) and every step is first a step of *)
(* the four counts (CountMoves).                                           *)
(*                                                                         *)
(* Timers, for any number of timers and spokes and any width of a spoke: a *)
(* step under the lock takes timers in the hand, changes them and puts     *)
(* them down, so the invariant of the wheel (WheelOK) is stated for any    *)
(* state w of it with the timers X in the hand, and there is one lemma for *)
(* each such move.  Where the timers are that a pass must find (SpokesOK)  *)
(* is told by the arc of spokes that it has ahead.                         *)
(***************************************************************************)
EXTENDS RWSemaphore, Timers, FiniteSetTheorems, SequenceTheorems, WellFoundedInduction, TLAPS

(* The inductive invariant.  WriterExcludesAll needs the counters to be    *)
(* exact; no lost wakeup needs in addition that there is one upgrader.     *)
IInv == TypeOK /\ CountersExact /\ WriterExcludesAll /\ OneUpgrader /\ SleepersBlocked

(* A world that moves from one state to another changes the number of      *)
(* worlds in a set of states by at most one.                               *)
LEMMA CountMoves ==
  ASSUME TypeOK, NEW w \in Worlds, NEW to \in PCs, NEW S,
         pc' = [pc EXCEPT ![w] = to]
  PROVE  /\ Cardinality(InState(S)) \in Nat
         /\ Cardinality(InState(S))' \in Nat
         /\ (to \in S /\ pc[w] \notin S)
               => Cardinality(InState(S))' = Cardinality(InState(S)) + 1
         /\ (to \notin S /\ pc[w] \in S)
               => Cardinality(InState(S))' = Cardinality(InState(S)) - 1
         /\ (to \in S <=> pc[w] \in S)
               => Cardinality(InState(S))' = Cardinality(InState(S))
<1> DEFINE A == InState(S)
           B == {v \in Worlds : pc'[v] \in S}
<1>1. InState(S)' = B
  BY DEF InState
<1>2. IsFiniteSet(A) /\ IsFiniteSet(B)
  BY FS_Subset, WorldsAssumption DEF InState
<1>3. Cardinality(A) \in Nat /\ Cardinality(B) \in Nat
  BY <1>2, FS_CardinalityType
<1>4. pc \in [Worlds -> PCs] /\ pc'[w] = to /\ \A v \in Worlds \ {w} : pc'[v] = pc[v]
  BY DEF TypeOK
<1>5. ASSUME to \in S, pc[w] \notin S PROVE Cardinality(B) = Cardinality(A) + 1
  <2>1. B = A \cup {w} /\ w \notin A
    BY <1>4, <1>5 DEF InState
  <2> QED BY <2>1, <1>2, FS_AddElement
<1>6. ASSUME to \notin S, pc[w] \in S PROVE Cardinality(B) = Cardinality(A) - 1
  <2>1. B = A \ {w} /\ w \in A
    BY <1>4, <1>6 DEF InState
  <2> QED BY <2>1, <1>2, FS_RemoveElement
<1>7. ASSUME to \in S <=> pc[w] \in S PROVE B = A
  BY <1>4, <1>7 DEF InState
<1>8. Cardinality(InState(S))' = Cardinality(B)
  BY <1>1
<1> QED BY <1>3, <1>5, <1>6, <1>7, <1>8

(* The counts of a state in which no world has moved.                      *)
LEMMA CountStays ==
  ASSUME UNCHANGED pc, NEW S
  PROVE  InState(S)' = InState(S)
BY DEF InState

(* What the counters say about the worlds.                                 *)
LEMMA CountsMean ==
  ASSUME TypeOK, CountersExact
  PROVE  /\ sharedAccess = 0 => \A w \in Worlds : pc[w] \notin {"shared", "upgrade"}
         /\ exclusiveAccess = 0 => \A w \in Worlds : pc[w] # "exclusive"
         /\ exclusiveWaiters = 0 <=> \A w \in Worlds : pc[w] # "beginWrite"
         /\ sharedWaiters = 0 <=> \A w \in Worlds : pc[w] # "beginRead"
         /\ ~UpgradeBlocked =>
              \A v, w \in Worlds : {pc[v], pc[w]} \subseteq {"shared", "upgrade"} => v = w
         /\ (\A w \in Worlds : pc[w] # "shared") /\ OneUpgrader => ~UpgradeBlocked
<1> DEFINE C(S) == Cardinality(InState(S))
<1>1. \A S : IsFiniteSet(InState(S)) /\ C(S) \in Nat
  BY FS_Subset, FS_CardinalityType, WorldsAssumption DEF InState
<1>2. \A S : C(S) = 0 <=> InState(S) = {}
  BY <1>1, FS_EmptySet
<1>3. \A S : C(S) = 0 <=> \A w \in Worlds : pc[w] \notin S
  BY <1>2 DEF InState
<1>4. ASSUME ~UpgradeBlocked, NEW v \in Worlds, NEW w \in Worlds,
             {pc[v], pc[w]} \subseteq {"shared", "upgrade"}
      PROVE v = w
  <2>1. v \in Readers /\ w \in Readers /\ IsFiniteSet(Readers)
    BY <1>1, <1>4 DEF Readers, InState
  <2>2. Cardinality(Readers) <= 1 /\ Cardinality(Readers) \in Nat
    BY <1>1, <1>4 DEF UpgradeBlocked, CountersExact, Readers, TypeOK
  <2>3. Cardinality(Readers) # 0
    BY <2>1, FS_EmptySet
  <2>4. \E x : Readers = {x}
    BY <2>1, <2>2, <2>3, FS_Singleton
  <2> QED BY <2>1, <2>4
<1>5. ASSUME \A w \in Worlds : pc[w] # "shared", OneUpgrader
      PROVE ~UpgradeBlocked
  <2>1. CASE Readers = {}
    BY <2>1, FS_EmptySet DEF UpgradeBlocked, CountersExact, TypeOK
  <2>2. CASE Readers # {}
    <3>1. PICK x : x \in Readers
      BY <2>2
    <3>2. Readers = {x}
      BY <3>1, <1>5 DEF Readers, InState, OneUpgrader
    <3>3. Cardinality(Readers) = 1
      BY <3>2, FS_Singleton
    <3> QED BY <3>3 DEF UpgradeBlocked, CountersExact, TypeOK
  <2> QED BY <2>1, <2>2
<1>6. /\ sharedAccess = 0 => \A w \in Worlds : pc[w] \notin {"shared", "upgrade"}
      /\ exclusiveAccess = 0 => \A w \in Worlds : pc[w] # "exclusive"
      /\ exclusiveWaiters = 0 <=> \A w \in Worlds : pc[w] # "beginWrite"
      /\ sharedWaiters = 0 <=> \A w \in Worlds : pc[w] # "beginRead"
  BY <1>3 DEF CountersExact, Readers, Writers
<1> QED BY <1>4, <1>5, <1>6

-------------------------------------------------------------------------------
(* At first nobody has access and nobody waits.                            *)
LEMMA InitIInv == Init => IInv
<1> SUFFICES ASSUME Init PROVE IInv
  OBVIOUS
<1>1. \A w \in Worlds : pc[w] = "idle" /\ waitEvent[w] = NoEvent
  BY DEF Init
<1>2. Readers = {} /\ Writers = {}
      /\ InState({"beginRead"}) = {} /\ InState({"beginWrite"}) = {}
  BY <1>1 DEF InState, Readers, Writers
<1>3. CountersExact
  BY <1>1, <1>2, FS_EmptySet DEF Init, CountersExact
<1>4. TypeOK
  BY DEF Init, TypeOK, PCs, Events
<1> QED BY <1>1, <1>3, <1>4 DEF IInv, WriterExcludesAll, OneUpgrader, SleepersBlocked, IsWaiting

Delta(to, from, S) == (IF to \in S THEN 1 ELSE 0) - (IF from \in S THEN 1 ELSE 0)

(* The numbers of worlds behind the four counters after a move.            *)
LEMMA CountersMove ==
  ASSUME TypeOK, CountersExact, NEW w \in Worlds, NEW from, NEW to \in PCs, Goto(w, from, to)
  PROVE  /\ Cardinality(Readers)' = sharedAccess + Delta(to, from, {"shared", "upgrade"})
         /\ Cardinality(Writers)' = exclusiveAccess + Delta(to, from, {"exclusive"})
         /\ Cardinality(InState({"beginRead"}))'
              = sharedWaiters + Delta(to, from, {"beginRead"})
         /\ Cardinality(InState({"beginWrite"}))'
              = exclusiveWaiters + Delta(to, from, {"beginWrite"})
         /\ Cardinality(Readers)' \in Nat
         /\ Cardinality(Writers)' \in Nat
         /\ Cardinality(InState({"beginRead"}))' \in Nat
         /\ Cardinality(InState({"beginWrite"}))' \in Nat
<1>1. pc' = [pc EXCEPT ![w] = to] /\ pc[w] = from
  BY DEF Goto
<1>2. \A S : /\ Cardinality(InState(S))' = Cardinality(InState(S)) + Delta(to, from, S)
            /\ Cardinality(InState(S))' \in Nat
  <2> SUFFICES ASSUME NEW S
               PROVE /\ Cardinality(InState(S))' = Cardinality(InState(S)) + Delta(to, from, S)
                     /\ Cardinality(InState(S))' \in Nat
    OBVIOUS
  <2> DEFINE c == Cardinality(InState(S))
             d == Cardinality(InState(S))'
  <2>1. /\ c \in Nat /\ d \in Nat
        /\ (to \in S /\ from \notin S) => d = c + 1
        /\ (to \notin S /\ from \in S) => d = c - 1
        /\ (to \in S <=> from \in S) => d = c
    BY <1>1, CountMoves
  <2> HIDE DEF c, d
  <2>2. d = c + Delta(to, from, S) /\ d \in Nat
    BY <2>1 DEF Delta
  <2> QED BY <2>2 DEF c, d
<1> QED BY <1>2 DEF Readers, Writers, CountersExact

(* Every action preserves the invariant.  A step that moves a world gets   *)
(* the exact counters and their types from CountersMove; what its guard    *)
(* says of the other worlds (<1>m) gives exclusion, the single upgrader    *)
(* and that the worlds left asleep are still blocked.                      *)
LEMMA NextIInv == IInv /\ [Next]_vars => IInv'
<1> SUFFICES ASSUME IInv, [Next]_vars PROVE IInv'
  OBVIOUS
<1> USE DEF IInv
<1>m. /\ sharedAccess = 0 => \A w \in Worlds : pc[w] \notin {"shared", "upgrade"}
      /\ exclusiveAccess = 0 => \A w \in Worlds : pc[w] # "exclusive"
      /\ exclusiveWaiters = 0 <=> \A w \in Worlds : pc[w] # "beginWrite"
      /\ sharedWaiters = 0 <=> \A w \in Worlds : pc[w] # "beginRead"
      /\ ~UpgradeBlocked =>
           \A v, w \in Worlds : {pc[v], pc[w]} \subseteq {"shared", "upgrade"} => v = w
  BY CountsMean
<1>e. Events \cup {NoEvent} = {"sharedWaiters", "exclusiveWaiters", "upgradeWaiter", NoEvent}
  BY DEF Events
<1>1. ASSUME NEW w \in Worlds, BeginRead(w) PROVE IInv'
  <2>1. CASE ~ReadBlocked
    <3>g. Goto(w, "idle", "shared")
      BY <1>1, <2>1 DEF BeginRead
    <3>p. pc' = [pc EXCEPT ![w] = "shared"] /\ pc[w] = "idle" /\ pc \in [Worlds -> PCs]
      BY <3>g DEF Goto, TypeOK
    <3>1. CountersExact' /\ TypeOK'
      <4>1. /\ sharedAccess' = Cardinality(Readers)'
            /\ exclusiveAccess' = Cardinality(Writers)'
            /\ sharedWaiters' = Cardinality(InState({"beginRead"}))'
            /\ exclusiveWaiters' = Cardinality(InState({"beginWrite"}))'
            /\ sharedAccess' \in Nat /\ exclusiveAccess' \in Nat
            /\ sharedWaiters' \in Nat /\ exclusiveWaiters' \in Nat
        BY <1>1, <2>1, <3>g, CountersMove DEF BeginRead, Delta, PCs, TypeOK, counters
      <4>2. upgradeWaiter' <=> \E v \in Worlds : pc'[v] = "upgrade"
        BY <1>1, <2>1, <3>p DEF BeginRead, CountersExact, OneUpgrader, PCs, counters
      <4>3. pc' \in [Worlds -> PCs]
        BY <3>p DEF PCs
      <4>4. upgradeWaiter' \in BOOLEAN /\ waitEvent' \in [Worlds -> Events \cup {NoEvent}]
        BY <1>1, <2>1, <1>e DEF BeginRead, TypeOK, WaitOn, Wakeup
      <4> QED BY <4>1, <4>2, <4>3, <4>4 DEF CountersExact, TypeOK
    <3>2. WriterExcludesAll' /\ OneUpgrader'
      BY <1>1, <2>1, <1>m, <3>p DEF BeginRead, WriterExcludesAll, OneUpgrader, CountersExact, TypeOK,
         ReadBlocked, WriteBlocked, counters
    <3>3. SleepersBlocked'
      BY <1>1, <2>1, <1>m, <1>e, <3>p, NoEventAssumption DEF BeginRead, TypeOK, SleepersBlocked, IsWaiting,
         WaitOn, Wakeup,
         ReadBlocked, WriteBlocked, UpgradeBlocked, OneUpgrader, WriterExcludesAll, CountersExact, counters
    <3> QED BY <3>1, <3>2, <3>3
  <2>2. CASE ReadBlocked
    <3>g. Goto(w, "idle", "beginRead")
      BY <1>1, <2>2 DEF BeginRead
    <3>p. pc' = [pc EXCEPT ![w] = "beginRead"] /\ pc[w] = "idle" /\ pc \in [Worlds -> PCs]
      BY <3>g DEF Goto, TypeOK
    <3>1. CountersExact' /\ TypeOK'
      <4>1. /\ sharedAccess' = Cardinality(Readers)'
            /\ exclusiveAccess' = Cardinality(Writers)'
            /\ sharedWaiters' = Cardinality(InState({"beginRead"}))'
            /\ exclusiveWaiters' = Cardinality(InState({"beginWrite"}))'
            /\ sharedAccess' \in Nat /\ exclusiveAccess' \in Nat
            /\ sharedWaiters' \in Nat /\ exclusiveWaiters' \in Nat
        BY <1>1, <2>2, <3>g, CountersMove DEF BeginRead, Delta, PCs, TypeOK, counters
      <4>2. upgradeWaiter' <=> \E v \in Worlds : pc'[v] = "upgrade"
        BY <1>1, <2>2, <3>p DEF BeginRead, CountersExact, OneUpgrader, PCs, counters
      <4>3. pc' \in [Worlds -> PCs]
        BY <3>p DEF PCs
      <4>4. upgradeWaiter' \in BOOLEAN /\ waitEvent' \in [Worlds -> Events \cup {NoEvent}]
        BY <1>1, <2>2, <1>e DEF BeginRead, TypeOK, WaitOn, Wakeup
      <4> QED BY <4>1, <4>2, <4>3, <4>4 DEF CountersExact, TypeOK
    <3>2. WriterExcludesAll' /\ OneUpgrader'
      BY <1>1, <2>2, <1>m, <3>p DEF BeginRead, WriterExcludesAll, OneUpgrader, CountersExact, TypeOK,
         ReadBlocked, WriteBlocked, counters
    <3>3. SleepersBlocked'
      BY <1>1, <2>2, <1>m, <1>e, <3>p, NoEventAssumption DEF BeginRead, TypeOK, SleepersBlocked, IsWaiting,
         WaitOn, Wakeup,
         ReadBlocked, WriteBlocked, UpgradeBlocked, OneUpgrader, WriterExcludesAll, CountersExact, counters
    <3> QED BY <3>1, <3>2, <3>3
  <2> QED BY <2>1, <2>2
<1>2. ASSUME NEW w \in Worlds, BeginReadRetry(w) PROVE IInv'
  <2>1. CASE ~ReadBlocked
    <3>g. Goto(w, "beginRead", "shared")
      BY <1>2, <2>1 DEF BeginReadRetry
    <3>p. pc' = [pc EXCEPT ![w] = "shared"] /\ pc[w] = "beginRead" /\ pc \in [Worlds -> PCs]
      BY <3>g DEF Goto, TypeOK
    <3>1. CountersExact' /\ TypeOK'
      <4>1. /\ sharedAccess' = Cardinality(Readers)'
            /\ exclusiveAccess' = Cardinality(Writers)'
            /\ sharedWaiters' = Cardinality(InState({"beginRead"}))'
            /\ exclusiveWaiters' = Cardinality(InState({"beginWrite"}))'
            /\ sharedAccess' \in Nat /\ exclusiveAccess' \in Nat
            /\ sharedWaiters' \in Nat /\ exclusiveWaiters' \in Nat
        BY <1>2, <2>1, <3>g, CountersMove DEF BeginReadRetry, Delta, PCs, TypeOK, counters
      <4>2. upgradeWaiter' <=> \E v \in Worlds : pc'[v] = "upgrade"
        BY <1>2, <2>1, <3>p DEF BeginReadRetry, CountersExact, OneUpgrader, PCs, counters
      <4>3. pc' \in [Worlds -> PCs]
        BY <3>p DEF PCs
      <4>4. upgradeWaiter' \in BOOLEAN /\ waitEvent' \in [Worlds -> Events \cup {NoEvent}]
        BY <1>2, <2>1, <1>e DEF BeginReadRetry, TypeOK, WaitOn, Wakeup
      <4> QED BY <4>1, <4>2, <4>3, <4>4 DEF CountersExact, TypeOK
    <3>2. WriterExcludesAll' /\ OneUpgrader'
      BY <1>2, <2>1, <1>m, <3>p DEF BeginReadRetry, WriterExcludesAll, OneUpgrader, CountersExact, TypeOK,
         ReadBlocked, WriteBlocked, counters
    <3>3. SleepersBlocked'
      BY <1>2, <2>1, <1>m, <1>e, <3>p, NoEventAssumption DEF BeginReadRetry, TypeOK, SleepersBlocked, IsWaiting,
         WaitOn, Wakeup,
         ReadBlocked, WriteBlocked, UpgradeBlocked, OneUpgrader, WriterExcludesAll, CountersExact, counters
    <3> QED BY <3>1, <3>2, <3>3
  <2>2. CASE ReadBlocked
    <3>1. CountersExact'
      BY <1>2, <2>2, CountStays DEF BeginReadRetry, counters, CountersExact, Readers, Writers
    <3>2. TypeOK'
      BY <1>2, <2>2 DEF BeginReadRetry, counters, TypeOK, WaitOn, Events
    <3>3. WriterExcludesAll' /\ OneUpgrader'
      BY <1>2, <2>2 DEF BeginReadRetry, WriterExcludesAll, OneUpgrader
    <3>4. SleepersBlocked'
      BY <1>2, <2>2 DEF BeginReadRetry, counters, TypeOK, SleepersBlocked, IsWaiting, WaitOn,
         ReadBlocked, WriteBlocked, UpgradeBlocked
    <3> QED BY <3>1, <3>2, <3>3, <3>4
  <2> QED BY <2>1, <2>2
<1>3. ASSUME NEW w \in Worlds, EndRead(w) PROVE IInv'
  <2>g. Goto(w, "shared", "idle")
    BY <1>3 DEF EndRead
  <2>p. pc' = [pc EXCEPT ![w] = "idle"] /\ pc[w] = "shared" /\ pc \in [Worlds -> PCs]
    BY <2>g DEF Goto, TypeOK
  <2>1. CountersExact' /\ TypeOK'
    <3>1. /\ sharedAccess' = Cardinality(Readers)'
          /\ exclusiveAccess' = Cardinality(Writers)'
          /\ sharedWaiters' = Cardinality(InState({"beginRead"}))'
          /\ exclusiveWaiters' = Cardinality(InState({"beginWrite"}))'
          /\ sharedAccess' \in Nat /\ exclusiveAccess' \in Nat
          /\ sharedWaiters' \in Nat /\ exclusiveWaiters' \in Nat
      BY <1>3, <2>g, CountersMove DEF EndRead, Delta, PCs, TypeOK, counters
    <3>2. upgradeWaiter' <=> \E v \in Worlds : pc'[v] = "upgrade"
      BY <1>3, <2>p DEF EndRead, CountersExact, OneUpgrader, PCs, counters
    <3>3. pc' \in [Worlds -> PCs]
      BY <2>p DEF PCs
    <3>4. upgradeWaiter' \in BOOLEAN /\ waitEvent' \in [Worlds -> Events \cup {NoEvent}]
      BY <1>3, <1>e DEF EndRead, TypeOK, WaitOn, Wakeup
    <3> QED BY <3>1, <3>2, <3>3, <3>4 DEF CountersExact, TypeOK
  <2>2. WriterExcludesAll' /\ OneUpgrader'
    BY <1>3, <1>m, <2>p DEF EndRead, WriterExcludesAll, OneUpgrader, CountersExact, TypeOK,
       ReadBlocked, WriteBlocked, counters
  <2>3. SleepersBlocked'
    BY <1>3, <1>m, <1>e, <2>p, NoEventAssumption DEF EndRead, TypeOK, SleepersBlocked, IsWaiting, WaitOn, Wakeup,
       ReadBlocked, WriteBlocked, UpgradeBlocked, OneUpgrader, WriterExcludesAll, CountersExact, counters
  <2> QED BY <2>1, <2>2, <2>3
<1>4. ASSUME NEW w \in Worlds, BeginWrite(w) PROVE IInv'
  <2>1. CASE ~WriteBlocked
    <3>g. Goto(w, "idle", "exclusive")
      BY <1>4, <2>1 DEF BeginWrite
    <3>p. pc' = [pc EXCEPT ![w] = "exclusive"] /\ pc[w] = "idle" /\ pc \in [Worlds -> PCs]
      BY <3>g DEF Goto, TypeOK
    <3>1. CountersExact' /\ TypeOK'
      <4>1. /\ sharedAccess' = Cardinality(Readers)'
            /\ exclusiveAccess' = Cardinality(Writers)'
            /\ sharedWaiters' = Cardinality(InState({"beginRead"}))'
            /\ exclusiveWaiters' = Cardinality(InState({"beginWrite"}))'
            /\ sharedAccess' \in Nat /\ exclusiveAccess' \in Nat
            /\ sharedWaiters' \in Nat /\ exclusiveWaiters' \in Nat
        BY <1>4, <2>1, <3>g, CountersMove DEF BeginWrite, Delta, PCs, TypeOK, counters
      <4>2. upgradeWaiter' <=> \E v \in Worlds : pc'[v] = "upgrade"
        BY <1>4, <2>1, <3>p DEF BeginWrite, CountersExact, OneUpgrader, PCs, counters
      <4>3. pc' \in [Worlds -> PCs]
        BY <3>p DEF PCs
      <4>4. upgradeWaiter' \in BOOLEAN /\ waitEvent' \in [Worlds -> Events \cup {NoEvent}]
        BY <1>4, <2>1, <1>e DEF BeginWrite, TypeOK, WaitOn, Wakeup
      <4> QED BY <4>1, <4>2, <4>3, <4>4 DEF CountersExact, TypeOK
    <3>2. WriterExcludesAll' /\ OneUpgrader'
      BY <1>4, <2>1, <1>m, <3>p DEF BeginWrite, WriterExcludesAll, OneUpgrader, CountersExact, TypeOK,
         ReadBlocked, WriteBlocked, counters
    <3>3. SleepersBlocked'
      BY <1>4, <2>1, <1>m, <1>e, <3>p, NoEventAssumption DEF BeginWrite, TypeOK, SleepersBlocked, IsWaiting,
         WaitOn, Wakeup,
         ReadBlocked, WriteBlocked, UpgradeBlocked, OneUpgrader, WriterExcludesAll, CountersExact, counters
    <3> QED BY <3>1, <3>2, <3>3
  <2>2. CASE WriteBlocked
    <3>g. Goto(w, "idle", "beginWrite")
      BY <1>4, <2>2 DEF BeginWrite
    <3>p. pc' = [pc EXCEPT ![w] = "beginWrite"] /\ pc[w] = "idle" /\ pc \in [Worlds -> PCs]
      BY <3>g DEF Goto, TypeOK
    <3>1. CountersExact' /\ TypeOK'
      <4>1. /\ sharedAccess' = Cardinality(Readers)'
            /\ exclusiveAccess' = Cardinality(Writers)'
            /\ sharedWaiters' = Cardinality(InState({"beginRead"}))'
            /\ exclusiveWaiters' = Cardinality(InState({"beginWrite"}))'
            /\ sharedAccess' \in Nat /\ exclusiveAccess' \in Nat
            /\ sharedWaiters' \in Nat /\ exclusiveWaiters' \in Nat
        BY <1>4, <2>2, <3>g, CountersMove DEF BeginWrite, Delta, PCs, TypeOK, counters
      <4>2. upgradeWaiter' <=> \E v \in Worlds : pc'[v] = "upgrade"
        BY <1>4, <2>2, <3>p DEF BeginWrite, CountersExact, OneUpgrader, PCs, counters
      <4>3. pc' \in [Worlds -> PCs]
        BY <3>p DEF PCs
      <4>4. upgradeWaiter' \in BOOLEAN /\ waitEvent' \in [Worlds -> Events \cup {NoEvent}]
        BY <1>4, <2>2, <1>e DEF BeginWrite, TypeOK, WaitOn, Wakeup
      <4> QED BY <4>1, <4>2, <4>3, <4>4 DEF CountersExact, TypeOK
    <3>2. WriterExcludesAll' /\ OneUpgrader'
      BY <1>4, <2>2, <1>m, <3>p DEF BeginWrite, WriterExcludesAll, OneUpgrader, CountersExact, TypeOK,
         ReadBlocked, WriteBlocked, counters
    <3>3. SleepersBlocked'
      BY <1>4, <2>2, <1>m, <1>e, <3>p, NoEventAssumption DEF BeginWrite, TypeOK, SleepersBlocked, IsWaiting,
         WaitOn, Wakeup,
         ReadBlocked, WriteBlocked, UpgradeBlocked, OneUpgrader, WriterExcludesAll, CountersExact, counters
    <3> QED BY <3>1, <3>2, <3>3
  <2> QED BY <2>1, <2>2
<1>5. ASSUME NEW w \in Worlds, BeginWriteRetry(w) PROVE IInv'
  <2>1. CASE ~WriteBlocked
    <3>g. Goto(w, "beginWrite", "exclusive")
      BY <1>5, <2>1 DEF BeginWriteRetry
    <3>p. pc' = [pc EXCEPT ![w] = "exclusive"] /\ pc[w] = "beginWrite" /\ pc \in [Worlds -> PCs]
      BY <3>g DEF Goto, TypeOK
    <3>1. CountersExact' /\ TypeOK'
      <4>1. /\ sharedAccess' = Cardinality(Readers)'
            /\ exclusiveAccess' = Cardinality(Writers)'
            /\ sharedWaiters' = Cardinality(InState({"beginRead"}))'
            /\ exclusiveWaiters' = Cardinality(InState({"beginWrite"}))'
            /\ sharedAccess' \in Nat /\ exclusiveAccess' \in Nat
            /\ sharedWaiters' \in Nat /\ exclusiveWaiters' \in Nat
        BY <1>5, <2>1, <3>g, CountersMove DEF BeginWriteRetry, Delta, PCs, TypeOK, counters
      <4>2. upgradeWaiter' <=> \E v \in Worlds : pc'[v] = "upgrade"
        BY <1>5, <2>1, <3>p DEF BeginWriteRetry, CountersExact, OneUpgrader, PCs, counters
      <4>3. pc' \in [Worlds -> PCs]
        BY <3>p DEF PCs
      <4>4. upgradeWaiter' \in BOOLEAN /\ waitEvent' \in [Worlds -> Events \cup {NoEvent}]
        BY <1>5, <2>1, <1>e DEF BeginWriteRetry, TypeOK, WaitOn, Wakeup
      <4> QED BY <4>1, <4>2, <4>3, <4>4 DEF CountersExact, TypeOK
    <3>2. WriterExcludesAll' /\ OneUpgrader'
      BY <1>5, <2>1, <1>m, <3>p DEF BeginWriteRetry, WriterExcludesAll, OneUpgrader, CountersExact, TypeOK,
         ReadBlocked, WriteBlocked, counters
    <3>3. SleepersBlocked'
      BY <1>5, <2>1, <1>m, <1>e, <3>p, NoEventAssumption DEF BeginWriteRetry, TypeOK, SleepersBlocked, IsWaiting,
         WaitOn, Wakeup,
         ReadBlocked, WriteBlocked, UpgradeBlocked, OneUpgrader, WriterExcludesAll, CountersExact, counters
    <3> QED BY <3>1, <3>2, <3>3
  <2>2. CASE WriteBlocked
    <3>1. CountersExact'
      BY <1>5, <2>2, CountStays DEF BeginWriteRetry, counters, CountersExact, Readers, Writers
    <3>2. TypeOK'
      BY <1>5, <2>2 DEF BeginWriteRetry, counters, TypeOK, WaitOn, Events
    <3>3. WriterExcludesAll' /\ OneUpgrader'
      BY <1>5, <2>2 DEF BeginWriteRetry, WriterExcludesAll, OneUpgrader
    <3>4. SleepersBlocked'
      BY <1>5, <2>2 DEF BeginWriteRetry, counters, TypeOK, SleepersBlocked, IsWaiting, WaitOn,
         ReadBlocked, WriteBlocked, UpgradeBlocked
    <3> QED BY <3>1, <3>2, <3>3, <3>4
  <2> QED BY <2>1, <2>2
<1>6. ASSUME NEW w \in Worlds, EndWrite(w) PROVE IInv'
  <2>g. Goto(w, "exclusive", "idle")
    BY <1>6 DEF EndWrite
  <2>p. pc' = [pc EXCEPT ![w] = "idle"] /\ pc[w] = "exclusive" /\ pc \in [Worlds -> PCs]
    BY <2>g DEF Goto, TypeOK
  <2>1. CountersExact' /\ TypeOK'
    <3>1. /\ sharedAccess' = Cardinality(Readers)'
          /\ exclusiveAccess' = Cardinality(Writers)'
          /\ sharedWaiters' = Cardinality(InState({"beginRead"}))'
          /\ exclusiveWaiters' = Cardinality(InState({"beginWrite"}))'
          /\ sharedAccess' \in Nat /\ exclusiveAccess' \in Nat
          /\ sharedWaiters' \in Nat /\ exclusiveWaiters' \in Nat
      BY <1>6, <2>g, CountersMove DEF EndWrite, Delta, PCs, TypeOK, counters
    <3>2. upgradeWaiter' <=> \E v \in Worlds : pc'[v] = "upgrade"
      BY <1>6, <2>p DEF EndWrite, CountersExact, OneUpgrader, PCs, counters
    <3>3. pc' \in [Worlds -> PCs]
      BY <2>p DEF PCs
    <3>4. upgradeWaiter' \in BOOLEAN /\ waitEvent' \in [Worlds -> Events \cup {NoEvent}]
      BY <1>6, <1>e DEF EndWrite, TypeOK, WaitOn, Wakeup
    <3> QED BY <3>1, <3>2, <3>3, <3>4 DEF CountersExact, TypeOK
  <2>2. WriterExcludesAll' /\ OneUpgrader'
    BY <1>6, <1>m, <2>p DEF EndWrite, WriterExcludesAll, OneUpgrader, CountersExact, TypeOK,
       ReadBlocked, WriteBlocked, counters
  <2>3. SleepersBlocked'
    BY <1>6, <1>m, <1>e, <2>p, NoEventAssumption DEF EndWrite, TypeOK, SleepersBlocked, IsWaiting, WaitOn, Wakeup,
       ReadBlocked, WriteBlocked, UpgradeBlocked, OneUpgrader, WriterExcludesAll, CountersExact, counters
  <2> QED BY <2>1, <2>2, <2>3
<1>7. ASSUME NEW w \in Worlds, UpgradeFromShared(w) PROVE IInv'
  <2>1. CASE ~UpgradeBlocked
    <3>g. Goto(w, "shared", "exclusive")
      BY <1>7, <2>1 DEF UpgradeFromShared
    <3>p. pc' = [pc EXCEPT ![w] = "exclusive"] /\ pc[w] = "shared" /\ pc \in [Worlds -> PCs]
      BY <3>g DEF Goto, TypeOK
    <3>1. CountersExact' /\ TypeOK'
      <4>1. /\ sharedAccess' = Cardinality(Readers)'
            /\ exclusiveAccess' = Cardinality(Writers)'
            /\ sharedWaiters' = Cardinality(InState({"beginRead"}))'
            /\ exclusiveWaiters' = Cardinality(InState({"beginWrite"}))'
            /\ sharedAccess' \in Nat /\ exclusiveAccess' \in Nat
            /\ sharedWaiters' \in Nat /\ exclusiveWaiters' \in Nat
        BY <1>7, <2>1, <3>g, CountersMove DEF UpgradeFromShared, Delta, PCs, TypeOK, counters
      <4>2. upgradeWaiter' <=> \E v \in Worlds : pc'[v] = "upgrade"
        BY <1>7, <2>1, <3>p DEF UpgradeFromShared, CountersExact, OneUpgrader, PCs, counters
      <4>3. pc' \in [Worlds -> PCs]
        BY <3>p DEF PCs
      <4>4. upgradeWaiter' \in BOOLEAN /\ waitEvent' \in [Worlds -> Events \cup {NoEvent}]
        BY <1>7, <2>1, <1>e DEF UpgradeFromShared, TypeOK, WaitOn, Wakeup
      <4> QED BY <4>1, <4>2, <4>3, <4>4 DEF CountersExact, TypeOK
    <3>2. WriterExcludesAll' /\ OneUpgrader'
      BY <1>7, <2>1, <1>m, <3>p DEF UpgradeFromShared, WriterExcludesAll, OneUpgrader, CountersExact, TypeOK,
         ReadBlocked, WriteBlocked, counters
    <3>3. SleepersBlocked'
      BY <1>7, <2>1, <1>m, <1>e, <3>p, NoEventAssumption DEF UpgradeFromShared, TypeOK, SleepersBlocked,
         IsWaiting, WaitOn, Wakeup,
         ReadBlocked, WriteBlocked, UpgradeBlocked, OneUpgrader, WriterExcludesAll, CountersExact, counters
    <3> QED BY <3>1, <3>2, <3>3
  <2>2. CASE UpgradeBlocked
    <3>g. Goto(w, "shared", "upgrade")
      BY <1>7, <2>2 DEF UpgradeFromShared
    <3>p. pc' = [pc EXCEPT ![w] = "upgrade"] /\ pc[w] = "shared" /\ pc \in [Worlds -> PCs]
      BY <3>g DEF Goto, TypeOK
    <3>1. CountersExact' /\ TypeOK'
      <4>1. /\ sharedAccess' = Cardinality(Readers)'
            /\ exclusiveAccess' = Cardinality(Writers)'
            /\ sharedWaiters' = Cardinality(InState({"beginRead"}))'
            /\ exclusiveWaiters' = Cardinality(InState({"beginWrite"}))'
            /\ sharedAccess' \in Nat /\ exclusiveAccess' \in Nat
            /\ sharedWaiters' \in Nat /\ exclusiveWaiters' \in Nat
        BY <1>7, <2>2, <3>g, CountersMove DEF UpgradeFromShared, Delta, PCs, TypeOK, counters
      <4>2. upgradeWaiter' <=> \E v \in Worlds : pc'[v] = "upgrade"
        BY <1>7, <2>2, <3>p DEF UpgradeFromShared, CountersExact, OneUpgrader, PCs, counters
      <4>3. pc' \in [Worlds -> PCs]
        BY <3>p DEF PCs
      <4>4. upgradeWaiter' \in BOOLEAN /\ waitEvent' \in [Worlds -> Events \cup {NoEvent}]
        BY <1>7, <2>2, <1>e DEF UpgradeFromShared, TypeOK, WaitOn, Wakeup
      <4> QED BY <4>1, <4>2, <4>3, <4>4 DEF CountersExact, TypeOK
    <3>2. WriterExcludesAll' /\ OneUpgrader'
      BY <1>7, <2>2, <1>m, <3>p DEF UpgradeFromShared, WriterExcludesAll, OneUpgrader, CountersExact, TypeOK,
         ReadBlocked, WriteBlocked, counters
    <3>3. SleepersBlocked'
      BY <1>7, <2>2, <1>m, <1>e, <3>p, NoEventAssumption DEF UpgradeFromShared, TypeOK, SleepersBlocked,
         IsWaiting, WaitOn, Wakeup,
         ReadBlocked, WriteBlocked, UpgradeBlocked, OneUpgrader, WriterExcludesAll, CountersExact, counters
    <3> QED BY <3>1, <3>2, <3>3
  <2> QED BY <2>1, <2>2
<1>8. ASSUME NEW w \in Worlds, UpgradeRetry(w) PROVE IInv'
  <2>1. CASE ~UpgradeBlocked
    <3>g. Goto(w, "upgrade", "exclusive")
      BY <1>8, <2>1 DEF UpgradeRetry
    <3>p. pc' = [pc EXCEPT ![w] = "exclusive"] /\ pc[w] = "upgrade" /\ pc \in [Worlds -> PCs]
      BY <3>g DEF Goto, TypeOK
    <3>1. CountersExact' /\ TypeOK'
      <4>1. /\ sharedAccess' = Cardinality(Readers)'
            /\ exclusiveAccess' = Cardinality(Writers)'
            /\ sharedWaiters' = Cardinality(InState({"beginRead"}))'
            /\ exclusiveWaiters' = Cardinality(InState({"beginWrite"}))'
            /\ sharedAccess' \in Nat /\ exclusiveAccess' \in Nat
            /\ sharedWaiters' \in Nat /\ exclusiveWaiters' \in Nat
        BY <1>8, <2>1, <3>g, CountersMove DEF UpgradeRetry, Delta, PCs, TypeOK, counters
      <4>2. upgradeWaiter' <=> \E v \in Worlds : pc'[v] = "upgrade"
        BY <1>8, <2>1, <3>p DEF UpgradeRetry, CountersExact, OneUpgrader, PCs, counters
      <4>3. pc' \in [Worlds -> PCs]
        BY <3>p DEF PCs
      <4>4. upgradeWaiter' \in BOOLEAN /\ waitEvent' \in [Worlds -> Events \cup {NoEvent}]
        BY <1>8, <2>1, <1>e DEF UpgradeRetry, TypeOK, WaitOn, Wakeup
      <4> QED BY <4>1, <4>2, <4>3, <4>4 DEF CountersExact, TypeOK
    <3>2. WriterExcludesAll' /\ OneUpgrader'
      BY <1>8, <2>1, <1>m, <3>p DEF UpgradeRetry, WriterExcludesAll, OneUpgrader, CountersExact, TypeOK,
         ReadBlocked, WriteBlocked, counters
    <3>3. SleepersBlocked'
      BY <1>8, <2>1, <1>m, <1>e, <3>p, NoEventAssumption DEF UpgradeRetry, TypeOK, SleepersBlocked, IsWaiting,
         WaitOn, Wakeup,
         ReadBlocked, WriteBlocked, UpgradeBlocked, OneUpgrader, WriterExcludesAll, CountersExact, counters
    <3> QED BY <3>1, <3>2, <3>3
  <2>2. CASE UpgradeBlocked
    <3>1. CountersExact'
      BY <1>8, <2>2, CountStays DEF UpgradeRetry, counters, CountersExact, Readers, Writers
    <3>2. TypeOK'
      BY <1>8, <2>2 DEF UpgradeRetry, counters, TypeOK, WaitOn, Events
    <3>3. WriterExcludesAll' /\ OneUpgrader'
      BY <1>8, <2>2 DEF UpgradeRetry, WriterExcludesAll, OneUpgrader
    <3>4. SleepersBlocked'
      BY <1>8, <2>2 DEF UpgradeRetry, counters, TypeOK, SleepersBlocked, IsWaiting, WaitOn,
         ReadBlocked, WriteBlocked, UpgradeBlocked
    <3> QED BY <3>1, <3>2, <3>3, <3>4
  <2> QED BY <2>1, <2>2
<1>9. ASSUME NEW w \in Worlds, DowngradeToShared(w) PROVE IInv'
  <2>g. Goto(w, "exclusive", "shared")
    BY <1>9 DEF DowngradeToShared
  <2>p. pc' = [pc EXCEPT ![w] = "shared"] /\ pc[w] = "exclusive" /\ pc \in [Worlds -> PCs]
    BY <2>g DEF Goto, TypeOK
  <2>1. CountersExact' /\ TypeOK'
    <3>1. /\ sharedAccess' = Cardinality(Readers)'
          /\ exclusiveAccess' = Cardinality(Writers)'
          /\ sharedWaiters' = Cardinality(InState({"beginRead"}))'
          /\ exclusiveWaiters' = Cardinality(InState({"beginWrite"}))'
          /\ sharedAccess' \in Nat /\ exclusiveAccess' \in Nat
          /\ sharedWaiters' \in Nat /\ exclusiveWaiters' \in Nat
      BY <1>9, <2>g, CountersMove DEF DowngradeToShared, Delta, PCs, TypeOK, counters
    <3>2. upgradeWaiter' <=> \E v \in Worlds : pc'[v] = "upgrade"
      BY <1>9, <2>p DEF DowngradeToShared, CountersExact, OneUpgrader, PCs, counters
    <3>3. pc' \in [Worlds -> PCs]
      BY <2>p DEF PCs
    <3>4. upgradeWaiter' \in BOOLEAN /\ waitEvent' \in [Worlds -> Events \cup {NoEvent}]
      BY <1>9, <1>e DEF DowngradeToShared, TypeOK, WaitOn, Wakeup
    <3> QED BY <3>1, <3>2, <3>3, <3>4 DEF CountersExact, TypeOK
  <2>2. WriterExcludesAll' /\ OneUpgrader'
    BY <1>9, <1>m, <2>p DEF DowngradeToShared, WriterExcludesAll, OneUpgrader, CountersExact, TypeOK,
       ReadBlocked, WriteBlocked, counters
  <2>3. SleepersBlocked'
    BY <1>9, <1>m, <1>e, <2>p, NoEventAssumption DEF DowngradeToShared, TypeOK, SleepersBlocked, IsWaiting,
       WaitOn, Wakeup,
       ReadBlocked, WriteBlocked, UpgradeBlocked, OneUpgrader, WriterExcludesAll, CountersExact, counters
  <2> QED BY <2>1, <2>2, <2>3
<1>10. ASSUME NEW w \in Worlds, SpuriousWakeup(w) PROVE IInv'
  <2>1. CountersExact'
    BY <1>10, CountStays DEF SpuriousWakeup, counters, CountersExact, Readers, Writers
  <2>2. TypeOK'
    BY <1>10 DEF SpuriousWakeup, counters, TypeOK, ForceWakeup
  <2>3. WriterExcludesAll' /\ OneUpgrader'
    BY <1>10 DEF SpuriousWakeup, WriterExcludesAll, OneUpgrader
  <2>4. SleepersBlocked'
    BY <1>10 DEF SpuriousWakeup, ForceWakeup, counters, TypeOK, SleepersBlocked, IsWaiting,
       ReadBlocked, WriteBlocked, UpgradeBlocked
  <2> QED BY <2>1, <2>2, <2>3, <2>4
<1>11. CASE UNCHANGED vars
  BY <1>11, CountStays DEF vars, TypeOK, CountersExact, Readers, Writers, WriterExcludesAll,
     OneUpgrader, SleepersBlocked, IsWaiting, ReadBlocked, WriteBlocked, UpgradeBlocked
<1> QED
  BY <1>1, <1>2, <1>3, <1>4, <1>5, <1>6, <1>7, <1>8, <1>9, <1>10, <1>11 DEF Next

(* The counters, exclusion, the single upgrader and the sleepers' wait      *)
(* conditions hold in every state of Semaphore_Begin/End/Upgrade/Downgrade. *)
THEOREM Invariant == Spec => []IInv
BY InitIInv, NextIInv, PTL DEF Spec

(* Mutual exclusion of the reader-writer lock, for any number of worlds.    *)
THEOREM Exclusion == Spec => []WriterExcludesAll
<1>1. IInv => WriterExcludesAll
  BY DEF IInv
<1> QED BY <1>1, Invariant, PTL

(* The counters of RWSemaphore are the numbers of worlds they stand for.    *)
THEOREM Counting == Spec => []CountersExact
<1>1. IInv => CountersExact
  BY DEF IInv
<1> QED BY <1>1, Invariant, PTL

(* No call of the semaphore leaves a world asleep whose wait is over.       *)
THEOREM NoLostWakeup == Spec => []SleepersBlocked
<1>1. IInv => SleepersBlocked
  BY DEF IInv
<1> QED BY <1>1, Invariant, PTL

(* The worlds in the three wait loops never all wait for each other: were   *)
(* nobody to hold the lock and everybody asleep, a waiting upgrader would   *)
(* be the only reader, a waiting writer would be blocked by nobody, and a   *)
(* waiting reader only by a waiting writer or upgrader.                     *)
THEOREM Progress == Spec => []SomeoneCanMove
<1>1. ASSUME IInv PROVE SomeoneCanMove
  <2> SUFFICES ASSUME NEW u \in Waiters,
                      \A w \in Worlds : pc[w] \notin {"shared", "exclusive"},
                      \A w \in Waiters : IsWaiting(waitEvent, w)
               PROVE FALSE
    BY DEF SomeoneCanMove
  <2> USE <1>1 DEF IInv
  <2>1. ~UpgradeBlocked
    BY CountsMean
  <2>2. \A w \in Worlds : pc[w] # "upgrade"
    BY <2>1 DEF Waiters, InState, SleepersBlocked
  <2>3. ~upgradeWaiter
    BY <2>2 DEF CountersExact
  <2>4. Readers = {} /\ Writers = {}
    BY <2>2 DEF Readers, Writers, InState
  <2>5. sharedAccess = 0 /\ exclusiveAccess = 0
    BY <2>4, FS_EmptySet DEF CountersExact
  <2>6. ~WriteBlocked
    BY <2>3, <2>5 DEF WriteBlocked
  <2>7. \A w \in Worlds : pc[w] # "beginWrite"
    BY <2>6 DEF Waiters, InState, SleepersBlocked
  <2>8. exclusiveWaiters = 0
    BY <2>7, CountsMean
  <2>9. ~ReadBlocked
    BY <2>3, <2>5, <2>8 DEF ReadBlocked
  <2> QED BY <2>2, <2>7, <2>9 DEF Waiters, InState, SleepersBlocked
<1> QED BY <1>1, Invariant, PTL

(* Nobody gets exclusive access ahead of a world that waits for the upgrade *)
(* in Semaphore_UpgradeFromShared.                                          *)
THEOREM UpgradeAtomicity == Spec => UpgradeIsAtomic
<1> DEFINE A == \A v, w \in Worlds :
              pc[v] = "upgrade" /\ pc'[w] = "exclusive" /\ pc[w] # "exclusive" => v = w
<1>1. ASSUME IInv, Next PROVE A
  <2> SUFFICES ASSUME NEW v \in Worlds, NEW w \in Worlds, pc[v] = "upgrade",
                      pc'[w] = "exclusive", pc[w] # "exclusive"
               PROVE v = w
    OBVIOUS
  <2>1. upgradeWaiter /\ WriteBlocked /\ pc \in [Worlds -> PCs]
    BY <1>1 DEF IInv, CountersExact, WriteBlocked, TypeOK
  <2>2. PICK x \in Worlds :
            \/ BeginRead(x) \/ BeginReadRetry(x) \/ EndRead(x)
            \/ BeginWrite(x) \/ BeginWriteRetry(x) \/ EndWrite(x)
            \/ UpgradeFromShared(x) \/ UpgradeRetry(x) \/ DowngradeToShared(x)
            \/ SpuriousWakeup(x)
    BY <1>1 DEF Next
  <2>3. CASE UpgradeRetry(x)
    BY <1>1, <2>1, <2>3 DEF UpgradeRetry, Goto, IInv, OneUpgrader
  <2>4. CASE UpgradeFromShared(x)
    BY <2>1, <2>4 DEF UpgradeFromShared
  <2>5. CASE BeginWrite(x) \/ BeginWriteRetry(x)
    BY <2>1, <2>5 DEF BeginWrite, BeginWriteRetry, Goto
  <2>6. CASE BeginRead(x) \/ BeginReadRetry(x) \/ EndRead(x) \/ EndWrite(x)
             \/ DowngradeToShared(x) \/ SpuriousWakeup(x)
    BY <2>1, <2>6 DEF BeginRead, BeginReadRetry, EndRead, EndWrite, DowngradeToShared,
       SpuriousWakeup, Goto
  <2> QED BY <2>2, <2>3, <2>4, <2>5, <2>6
<1>2. IInv /\ [Next]_vars => [A]_vars
  BY <1>1
<1> QED BY <1>2, Invariant, PTL DEF Spec, UpgradeIsAtomic

-------------------------------------------------------------------------------
(* The state of the wheel as a record, with its types.                     *)
Flags == {"FREE", "ONE_SHOT", "PERIODIC", "FIRING", "EXPIRED"}
TimerRecords ==
  [flags : SUBSET Flags, deadlineTC : 0 .. MaxTime + Period, periodTC : {0, Period},
   group : Groups \cup {Default}, generation : Generations]
Fates ==
  [issued : SUBSET Handles, fired : SUBSET Handles, removed : SUBSET Handles,
   synced : SUBSET Handles, stray : SUBSET Handles]
Wheels ==
  [timer : [Timers -> TimerRecords], freeList : Seq(Timers), wheel : [Spokes -> Seq(Timers)],
   fate : Fates]

(* Lists of timers: none occurs twice, i occurs, in order of deadlines.    *)
Distinct(l) == \A a, b \in 1 .. Len(l) : l[a] = l[b] => a = b
In(l, i) == \E k \in 1 .. Len(l) : l[k] = i
Ascending(w, l) ==
  \A a, b \in 1 .. Len(l) : a < b => w.timer[l[a]].deadlineTC <= w.timer[l[b]].deadlineTC

(* The lists of w: the free timers, and spokes in the order of deadlines   *)
(* with the timers that are neither free nor expired nor in X, the timers  *)
(* that a step holds in its hand.                                          *)
ListsOK(w, X) ==
  /\ Distinct(w.freeList)
  /\ \A i \in Timers : In(w.freeList, i) <=> "FREE" \in w.timer[i].flags
  /\ \A s \in Spokes : Distinct(w.wheel[s]) /\ Ascending(w, w.wheel[s])
  /\ \A s, u \in Spokes : \A i \in Timers : In(w.wheel[s], i) /\ In(w.wheel[u], i) => s = u
  /\ \A i \in Timers :
       (\E s \in Spokes : In(w.wheel[s], i)) <=> i \notin X /\ w.timer[i].flags \cap {"FREE", "EXPIRED"} = {}

(* The flags, when the callback of p runs.                                 *)
FlagsOK(w, X, p) ==
  \A i \in Timers :
    LET f == w.timer[i].flags
    IN /\ "FREE" \in f => f = {"FREE"} /\ i \notin X
       /\ "FREE" \notin f => ("ONE_SHOT" \in f <=> "PERIODIC" \notin f)
       /\ i \notin X /\ "EXPIRED" \in f => "FIRING" \in f
       /\ "FIRING" \in f <=> p = i

(* The generations, when n timers were added.                              *)
GenerationsOK(w, n) ==
  \A i \in Timers : /\ w.timer[i].generation <= n + 1
                    /\ "FREE" \notin w.timer[i].flags => w.timer[i].generation <= n

(* A handle is of the past when its timer has a later one, and over when   *)
(* it is of the past or its timer has expired.                             *)
Past(w, h) == h[2] < w.timer[h[1]].generation
Over(w, h) == Past(w, h) \/ (h[2] = w.timer[h[1]].generation /\ "EXPIRED" \in w.timer[h[1]].flags)

(* The history: of a handle that is over, removed or waited for.           *)
FatesOK(w) ==
  /\ \A h \in Handles :
       h \in w.fate.issued <=>
         Past(w, h) \/ (h[2] = w.timer[h[1]].generation /\ "FREE" \notin w.timer[h[1]].flags)
  /\ \A h \in w.fate.synced : Past(w, h)
  /\ \A h \in w.fate.fired \cup w.fate.removed : Over(w, h)
  /\ w.fate.fired \cap w.fate.removed = {}

(* Where the timers are that a pass has to find: those not due for it in   *)
(* the spoke of their deadline; the others in a spoke of arc, and in that  *)
(* of their deadline unless they were overdue at time tc.                  *)
SpokesOK(w, passTC, arc, tc) ==
  \A s \in Spokes : \A i \in Timers :
    LET d == w.timer[i].deadlineTC
    IN In(w.wheel[s], i) /\ <<i, w.timer[i].generation>> \notin w.fate.stray =>
         \/ s = TimerTCToSpoke(d) /\ d > passTC
         \/ s \in arc /\ (s = TimerTCToSpoke(d) \/ d <= tc)

(* How many spokes it is from one to another, which one is k further on,   *)
(* and the spokes from one to another.                                     *)
Distance(from, to) == IF to >= from THEN to - from ELSE to - from + NumSpokes
Further(from, k) == IF from + k < NumSpokes THEN from + k ELSE from + k - NumSpokes
Arc(from, to) == {s \in Spokes : Distance(from, s) <= Distance(from, to)}

(* One timer in the hand.                                                  *)
Hand(i) == {i}

(* The wheel with the timers X in the hand, while the callback of p runs.  *)
WheelOK(w, X, p, n) ==
  w \in Wheels /\ ListsOK(w, X) /\ FlagsOK(w, X, p) /\ GenerationsOK(w, n) /\ FatesOK(w)

(* Timers that can be found can still be found.                            *)
SpokesKept(w, v) ==
  \A passTC, arc, tc : SpokesOK(w, passTC, arc, tc) => SpokesOK(v, passTC, arc, tc)

(* No handle is taken back, no generation returns, and what has expired    *)
(* has expired for as long as its timer keeps its generation.              *)
Later(w, v) ==
  /\ w.fate.issued \subseteq v.fate.issued
  /\ \A i \in Timers :
       /\ w.timer[i].generation <= v.timer[i].generation
       /\ w.timer[i].generation = v.timer[i].generation /\ "EXPIRED" \in w.timer[i].flags =>
            "EXPIRED" \in v.timer[i].flags

(* No timer that the pass knows of is due.                                 *)
NoneDue(w, tc) ==
  \A s \in Spokes : \A i \in Timers :
    In(w.wheel[s], i) /\ <<i, w.timer[i].generation>> \notin w.fate.stray => w.timer[i].deadlineTC > tc

(* A timer is taken from the free list and becomes r, a timer becomes r,   *)
(* a timer is not firing any more.                                         *)
Taken(w, i, r) ==
  [timer |-> [w.timer EXCEPT ![i] = r], freeList |-> Tail(w.freeList), wheel |-> w.wheel,
   fate |-> [w.fate EXCEPT !.issued = @ \cup {<<i, w.timer[i].generation>>}]]
Changed(w, i, r) == [w EXCEPT !.timer[i] = r]
Quiet(w, i) == [w EXCEPT !.timer[i].flags = @ \ {"FIRING"}]

(* A timer in the hand may become r, while q instead of p may be firing.   *)
MayBecome(w, i, r, p, q) ==
  /\ r \in TimerRecords /\ r.generation = w.timer[i].generation /\ "FREE" \notin r.flags
  /\ "ONE_SHOT" \in r.flags <=> "PERIODIC" \notin r.flags
  /\ "EXPIRED" \in w.timer[i].flags => "EXPIRED" \in r.flags
  /\ "FIRING" \in r.flags <=> q = i
  /\ \A j \in Timers : j # i => (p = j <=> q = j)

(* A timer with deadline d goes where SpokesOK wants it.                   *)
GoesRight(d, curr, spoke, passTC, arc, tc) ==
  LET s == IF d > curr THEN TimerTCToSpoke(d) ELSE spoke
  IN \/ late
     \/ s = TimerTCToSpoke(d) /\ d > passTC
     \/ s \in arc /\ (s = TimerTCToSpoke(d) \/ d <= tc)

(* The handler: between passes it stands on the spoke of the last one; an  *)
(* interrupt moves curTC on during a pass only if the pass is then late;   *)
(* the time does not come round to the spoke of the last pass.             *)
PassOK ==
  /\ curTC \in 0 .. now /\ now \in 0 .. MaxTime
  /\ curSpoke \in Spokes
  /\ pass \in [curTC : 0 .. now, lastSpoke : Spokes, timer : Timers \cup {NoTimer}]
  /\ adds \in 0 .. MaxAdds /\ late \in BOOLEAN
  /\ pass.curTC <= curTC
  /\ pass.lastSpoke = TimerTCToSpoke(pass.curTC)
  /\ ~IsFiring => curSpoke = pass.lastSpoke
  /\ late => IsFiring
  /\ IsFiring /\ ~late => curTC = pass.curTC
  /\ now \div SpokeWidth - pass.curTC \div SpokeWidth < NumSpokes

(* Whoever is in Timer_RemoveSync waits for a handle that was given out.   *)
CallersOK ==
  /\ caller \in [Callers -> [at : {"idle", "look", "spin"}, handle : Handles]]
  /\ \A c \in Callers : caller[c].at # "idle" => Issued(caller[c].handle)

(* The time at which overdue timers went to the current spoke.             *)
PassTime == IF IsFiring THEN pass.curTC ELSE curTC

(* The inductive invariant of Timers.                                      *)
TimersInv ==
  /\ PassOK /\ CallersOK
  /\ WheelOK(Now, {}, pass.timer, adds)
  /\ SpokesOK(Now, pass.curTC, Arc(curSpoke, pass.lastSpoke), PassTime)

-------------------------------------------------------------------------------
(* What division and remainder are, for a positive divisor.                *)
LEMMA DivMod ==
  ASSUME NEW a \in Int, NEW n \in Int, n > 0
  PROVE  a \div n \in Int /\ a % n \in 0 .. n - 1 /\ a % n = a - n * (a \div n)
<1>1. a \div n \in Int /\ a % n \in 0 .. n - 1
  OBVIOUS
<1>2. a % n = a - n * (a \div n)
  BY Z3
<1> QED
  BY <1>1, <1>2, Z3

(* The remainder is the only one of its kind.                              *)
LEMMA ModUnique ==
  ASSUME NEW n \in Nat \ {0}, NEW q \in Int, NEW r \in 0 .. n - 1, NEW a \in Int, a = n * q + r
  PROVE  a % n = r
  BY SMTT(30)

(* The remainder of less than twice the divisor.                           *)
LEMMA ModOver ==
  ASSUME NEW n \in Nat \ {0}, NEW a \in n .. 2 * n - 1
  PROVE  a % n = a - n
  BY SMTT(30)

(* The spokes of times, and the steps from spoke to spoke.                 *)
LEMMA SpokeFacts ==
  /\ \A d \in Nat : TimerTCToSpoke(d) \in Spokes
  /\ \A s, c \in Spokes : (s - c) % NumSpokes = Distance(c, s)
  /\ \A c \in Spokes : \A k \in 0 .. NumSpokes - 1 : (c + k) % NumSpokes = Further(c, k)
<1> USE TimerBounds
<1>1. ASSUME NEW d \in Nat PROVE TimerTCToSpoke(d) \in Spokes
  <2>1. d \div SpokeWidth \in Int
    BY DivMod
  <2> QED
    BY <2>1, DivMod DEF TimerTCToSpoke, Spokes
<1>2. ASSUME NEW s \in Spokes, NEW c \in Spokes PROVE (s - c) % NumSpokes = Distance(c, s)
  <2>1. PICK q \in {0, -1} : s - c = NumSpokes * q + Distance(c, s)
    <3>1. s - c = NumSpokes * 0 + Distance(c, s) \/ s - c = NumSpokes * (-1) + Distance(c, s)
      BY DEF Spokes, Distance
    <3> QED
      BY <3>1
  <2>2. s - c \in Int /\ Distance(c, s) \in 0 .. NumSpokes - 1 /\ q \in Int
    BY DEF Spokes, Distance
  <2> QED
    BY <2>1, <2>2, ModUnique
<1>3. ASSUME NEW c \in Spokes, NEW k \in 0 .. NumSpokes - 1 PROVE (c + k) % NumSpokes = Further(c, k)
  <2>1. CASE c + k < NumSpokes
    <3>1. c + k \in 0 .. NumSpokes - 1
      BY <2>1 DEF Spokes
    <3> QED
      BY <2>1, <3>1 DEF Further
  <2>2. CASE ~(c + k < NumSpokes)
    <3> DEFINE x == c + k
    <3>1. x \in NumSpokes .. 2 * NumSpokes - 1 /\ Further(c, k) = x - NumSpokes
      BY <2>2 DEF Spokes, Further
    <3> HIDE DEF x
    <3>2. x % NumSpokes = x - NumSpokes
      BY <3>1, ModOver
    <3> QED
      BY <3>1, <3>2 DEF x
  <2> QED
    BY <2>1, <2>2
<1> QED
  BY <1>1, <1>2, <1>3

(* An arc begins where it begins, a pass that has come to its last spoke   *)
(* has no other ahead, and what lies in the arc is ahead.                  *)
LEMMA ArcFacts ==
  ASSUME NEW c \in Spokes, NEW l \in Spokes
  PROVE  /\ c \in Arc(c, l) /\ Arc(c, c) = {c} /\ Distance(c, l) \in 0 .. NumSpokes - 1
         /\ \A s \in Arc(c, l) : Distance(c, s) \in 0 .. Distance(c, l) /\ Further(c, Distance(c, s)) = s
  BY TimerBounds DEF Arc, Distance, Further, Spokes

(* When a pass moves k spokes on, what it had ahead it has passed or has   *)
(* ahead still.                                                            *)
LEMMA ArcMoves ==
  ASSUME NEW c \in Spokes, NEW l \in Spokes, NEW k \in 0 .. Distance(c, l)
  PROVE  LET t == Further(c, k)
         IN /\ t \in Spokes /\ t \in Arc(c, l) /\ Arc(t, l) \subseteq Arc(c, l)
            /\ \A s \in Arc(c, l) : s \in Arc(t, l) \/ Distance(c, s) < k
<1> DEFINE t == Further(c, k)
<1>1. t \in Spokes /\ t \in Arc(c, l)
  BY TimerBounds DEF Arc, Distance, Further, Spokes
<1>2. Arc(t, l) \subseteq Arc(c, l)
  BY TimerBounds DEF Arc, Distance, Further, Spokes
<1>3. \A s \in Arc(c, l) : s \in Arc(t, l) \/ Distance(c, s) < k
  BY TimerBounds DEF Arc, Distance, Further, Spokes
<1> QED
  BY <1>1, <1>2, <1>3

(* A deadline between two passes falls on the arc between their spokes.    *)
LEMMA ArcOfTimes ==
  ASSUME NEW p \in Nat, NEW d \in Nat, NEW n \in Nat, p <= d, d <= n,
         n \div SpokeWidth - p \div SpokeWidth < NumSpokes
  PROVE  TimerTCToSpoke(d) \in Arc(TimerTCToSpoke(p), TimerTCToSpoke(n))
<1> DEFINE P == p \div SpokeWidth  D == d \div SpokeWidth  M == n \div SpokeWidth
           q == P \div NumSpokes   c == P % NumSpokes
<1>1. P \in Int /\ D \in Int /\ M \in Int
  BY DivMod, TimerBounds
<1>2. P <= D /\ D <= M
  <2>1. \A a, b \in Int : a <= b => a \div SpokeWidth <= b \div SpokeWidth
    BY TimerBounds, SMTT(30)
  <2> QED
    BY <2>1
<1>3. q \in Int /\ c \in 0 .. NumSpokes - 1 /\ P = NumSpokes * q + c
  BY <1>1, DivMod, TimerBounds
<1>4. M - P < NumSpokes
  OBVIOUS
<1>5. TimerTCToSpoke(p) = c /\ TimerTCToSpoke(d) = D % NumSpokes /\ TimerTCToSpoke(n) = M % NumSpokes
  BY DEF TimerTCToSpoke
<1> HIDE DEF P, D, M, q, c
<1>6. ASSUME NEW x \in Int, P <= x, x - P < NumSpokes
      PROVE  x % NumSpokes = Further(c, x - P)
  <2>1. PICK a \in Int : x = NumSpokes * a + Further(c, x - P)
    <3>1. CASE c + (x - P) < NumSpokes
      <4>1. x = NumSpokes * q + Further(c, x - P)
        BY <1>1, <1>3, <3>1, TimerBounds DEF Further
      <4> QED
        BY <1>3, <4>1
    <3>2. CASE ~(c + (x - P) < NumSpokes)
      <4>1. NumSpokes * (q + 1) = NumSpokes * q + NumSpokes
        BY <1>3, TimerBounds
      <4>2. x = NumSpokes * (q + 1) + Further(c, x - P)
        BY <1>1, <1>3, <3>2, <4>1, TimerBounds DEF Further
      <4> QED
        BY <1>3, <4>2
    <3> QED
      BY <3>1, <3>2
  <2>2. Further(c, x - P) \in 0 .. NumSpokes - 1
    BY <1>1, <1>3, <1>6, TimerBounds DEF Further
  <2> QED
    <3> DEFINE f == Further(c, x - P)
    <3>1. f \in 0 .. NumSpokes - 1 /\ x = NumSpokes * a + f
      BY <2>1, <2>2
    <3> HIDE DEF f
    <3>2. x % NumSpokes = f
      BY <3>1, TimerBounds, ModUnique
    <3> QED
      BY <3>2 DEF f
<1>7. D - P < NumSpokes
  BY <1>1, <1>2, <1>4, TimerBounds
<1>8. D % NumSpokes = Further(c, D - P) /\ M % NumSpokes = Further(c, M - P)
  <2>1. P <= M
    BY <1>1, <1>2
  <2>2. D % NumSpokes = Further(c, D - P)
    BY <1>1, <1>2, <1>6, <1>7, Zenon
  <2>3. M % NumSpokes = Further(c, M - P)
    BY <1>1, <1>4, <1>6, <2>1, Zenon
  <2> QED
    BY <2>2, <2>3, Zenon
<1>9. Further(c, D - P) \in Arc(c, Further(c, M - P))
  BY <1>1, <1>2, <1>3, <1>4, TimerBounds DEF Further, Distance, Arc, Spokes
<1> QED
  BY <1>5, <1>8, <1>9

-------------------------------------------------------------------------------
(* A set of natural numbers has a first one.                               *)
LEMMA LeastExists ==
  ASSUME NEW S \in SUBSET Nat, S # {}
  PROVE  \E m \in S : \A r \in S : m <= r
<1> DEFINE R == OpToRel(<, Nat)
<1>1. IsWellFoundedOn(R, Nat)
  BY NatLessThanWellFounded
<1> HIDE DEF R
<1>2. PICK m \in S : \A r \in S : ~(<<r, m>> \in R)
  BY <1>1, WFMin
<1>3. \A r \in S : r < m => <<r, m>> \in R
  BY DEF R, OpToRel
<1>4. m \in S /\ \A r \in S : ~(r < m)
  BY <1>2, <1>3, Zenon
<1> QED
  BY <1>4

(* The places up to n of a set can be counted in their order.              *)
LEMMA Enumeration ==
  ASSUME NEW n \in Nat, NEW K \in SUBSET (1 .. n)
  PROVE  /\ Cardinality(K) \in Nat
         /\ \E f \in [1 .. Cardinality(K) -> K] :
              \A a, b \in 1 .. Cardinality(K) : a < b => f[a] < f[b]
<1> DEFINE c == Cardinality(K)
           upTo(k) == {j \in K : j <= k}
           rank == [k \in K |-> Cardinality(upTo(k))]
<1>0. \A j \in K : j \in Int
  OBVIOUS
<1>1. IsFiniteSet(K) /\ c \in Nat
  <2>1. IsFiniteSet(1 .. n)
    BY FS_Interval
  <2>2. IsFiniteSet(K)
    BY <2>1, FS_Subset
  <2> QED
    BY <2>2, FS_CardinalityType
<1>2. \A k \in K : IsFiniteSet(upTo(k)) /\ Cardinality(upTo(k)) \in Nat /\ Cardinality(upTo(k)) <= c
  BY <1>1, FS_Subset, FS_CardinalityType
<1>3. ASSUME NEW k \in K PROVE rank[k] \in 1 .. c
  <2>1. upTo(k) # {}
    BY <1>3
  <2>2. Cardinality(upTo(k)) # 0
    BY <1>2, <2>1, FS_EmptySet
  <2> QED
    BY <1>1, <1>2, <2>2
<1>4. ASSUME NEW k \in K, NEW m \in K, k < m PROVE rank[k] < rank[m]
  <2>1. upTo(k) \in SUBSET upTo(m) /\ m \in upTo(m) /\ m \notin upTo(k)
    <3>1. \A j \in K : j <= k => j <= m
      BY <1>0, <1>4
    <3>2. upTo(k) \subseteq upTo(m)
      BY <3>1
    <3>3. m <= m /\ ~(m <= k)
      BY <1>0, <1>4
    <3> QED
      BY <3>2, <3>3
  <2>2. /\ Cardinality(upTo(k)) <= Cardinality(upTo(m))
        /\ Cardinality(upTo(m)) = Cardinality(upTo(k)) => upTo(m) = upTo(k)
    BY <1>2, <2>1, FS_Subset
  <2> HIDE DEF upTo
  <2>3. Cardinality(upTo(m)) # Cardinality(upTo(k))
    BY <2>1, <2>2
  <2> QED
    BY <1>2, <2>2, <2>3
<1> HIDE DEF rank
<1>5. rank \in [K -> 1 .. c]
  BY <1>3 DEF rank
<1>6. rank \in Injection(K, 1 .. c)
  <2>1. ASSUME NEW a \in K, NEW b \in K, rank[a] = rank[b] PROVE a = b
    <3>1. a \in Int /\ b \in Int /\ rank[a] \in Int /\ rank[b] \in Int
      BY <1>3
    <3> QED
      BY <1>4, <2>1, <3>1
  <2> QED
    BY <1>5, <2>1 DEF Injection, IsInjective
<1>7. rank \in Surjection(K, 1 .. c)
  <2>1. IsFiniteSet(1 .. c) /\ Cardinality(1 .. c) = c
    BY <1>1, FS_Interval
  <2> QED
    BY <1>6, <2>1, FS_Injection
<1>8. \A a \in 1 .. c : \E k \in K : rank[k] = a
  BY <1>7 DEF Surjection
<1> DEFINE f == [a \in 1 .. c |-> CHOOSE k \in K : rank[k] = a]
<1>9. \A a \in 1 .. c : f[a] \in K /\ rank[f[a]] = a
  BY <1>8
<1>10. f \in [1 .. c -> K]
  BY <1>9
<1> HIDE DEF f
<1>11. ASSUME NEW a \in 1 .. c, NEW b \in 1 .. c, a < b PROVE f[a] < f[b]
  <2>1. f[a] \in K /\ f[b] \in K /\ rank[f[a]] = a /\ rank[f[b]] = b
    BY <1>9
  <2>2. f[a] # f[b]
    BY <1>11, <2>1
  <2>3. ~(f[b] < f[a])
    <3>1. ASSUME f[b] < f[a] PROVE b < a
      BY <1>4, <2>1, <3>1
    <3> QED
      BY <1>11, <3>1
  <2>4. f[a] \in Int /\ f[b] \in Int
    BY <1>0, <2>1
  <2> QED
    BY <2>2, <2>3, <2>4
<1> QED
  BY <1>1, <1>10, <1>11

(* A list without some of its members.                                     *)
LEMMA WithoutFacts ==
  ASSUME NEW l \in Seq(Timers), NEW S, NEW w
  PROVE  /\ Without(l, S) \in Seq(Timers)
         /\ \A i : In(Without(l, S), i) <=> In(l, i) /\ i \notin S
         /\ Distinct(l) => Distinct(Without(l, S))
         /\ Ascending(w, l) => Ascending(w, Without(l, S))
<1> DEFINE K == {k \in DOMAIN l : l[k] \notin S}
           c == Cardinality(K)
           f == Kept(l, S)
           m == Without(l, S)
<1>1. Len(l) \in Nat /\ DOMAIN l = 1 .. Len(l) /\ \A k \in 1 .. Len(l) : l[k] \in Timers
  BY LenProperties, ElementOfSeq
<1>2. K \in SUBSET (1 .. Len(l))
  BY <1>1
<1> HIDE DEF K
<1>3. c \in Nat /\ \E g \in [1 .. c -> K] : \A a, b \in 1 .. c : a < b => g[a] < g[b]
  BY <1>1, <1>2, Enumeration
<1>4. f \in [1 .. c -> K] /\ \A a, b \in 1 .. c : a < b => f[a] < f[b]
  <2> DEFINE P(g) == \A a, b \in DOMAIN g : a < b => g[a] < g[b]
  <2>1. \E g \in [1 .. c -> K] : P(g)
    BY <1>3
  <2>2. f = CHOOSE g \in [1 .. c -> K] : P(g)
    BY DEF Kept, K
  <2>3. f \in [1 .. c -> K] /\ P(f)
    <3> HIDE DEF P, f, c
    <3> QED
      BY <2>1, <2>2
  <2> QED
    BY <2>3
<1> HIDE DEF f, c
<1>5. \A k \in K : k \in 1 .. Len(l) /\ l[k] \in Timers /\ l[k] \notin S
  BY <1>1 DEF K
<1>6. m \in Seq(Timers) /\ Len(m) = c /\ \A a \in 1 .. c : m[a] = l[f[a]] /\ f[a] \in K
  <2>1. m = [a \in 1 .. c |-> l[f[a]]]
    BY <1>4 DEF Without, f
  <2>2. \A a \in 1 .. c : l[f[a]] \in Timers
    BY <1>4, <1>5
  <2> QED
    BY <1>3, <1>4, <2>1, <2>2
<1>7. \A k \in K : \E a \in 1 .. c : f[a] = k
  <2>1. IsFiniteSet(K) /\ IsFiniteSet(1 .. c) /\ Cardinality(1 .. c) = Cardinality(K)
    <3>1. IsFiniteSet(1 .. Len(l)) /\ IsFiniteSet(1 .. c) /\ Cardinality(1 .. c) = c
      BY <1>1, <1>3, FS_Interval
    <3> QED
      BY <1>2, <3>1, FS_Subset DEF c
  <2>2. ASSUME NEW a \in 1 .. c, NEW b \in 1 .. c, f[a] = f[b] PROVE a = b
    <3>1. ~(f[a] < f[b]) /\ ~(f[b] < f[a])
      BY <1>4, <1>5, <2>2
    <3>2. ~(a < b) /\ ~(b < a)
      BY <1>4, <3>1
    <3> QED
      BY <3>2
  <2>3. f \in Injection(1 .. c, K)
    BY <1>4, <2>2 DEF Injection, IsInjective
  <2>4. f \in Surjection(1 .. c, K)
    BY <2>1, <2>3, FS_Injection
  <2> QED
    BY <2>4 DEF Surjection
<1> HIDE DEF m
<1>8. ASSUME NEW i PROVE In(m, i) <=> In(l, i) /\ i \notin S
  <2>1. ASSUME In(m, i) PROVE In(l, i) /\ i \notin S
    BY <1>5, <1>6, <2>1 DEF In
  <2>2. ASSUME In(l, i), i \notin S PROVE In(m, i)
    <3>1. PICK k \in 1 .. Len(l) : l[k] = i
      BY <2>2 DEF In
    <3>2. k \in K
      BY <1>1, <2>2, <3>1 DEF K
    <3>3. PICK a \in 1 .. c : f[a] = k
      BY <1>7, <3>2
    <3> QED
      BY <1>6, <3>1, <3>3 DEF In
  <2> QED
    BY <2>1, <2>2
<1>9. ASSUME Distinct(l) PROVE Distinct(m)
  <2> SUFFICES ASSUME NEW a \in 1 .. c, NEW b \in 1 .. c, m[a] = m[b] PROVE a = b
    BY <1>6 DEF Distinct
  <2>1. f[a] = f[b]
    BY <1>5, <1>6, <1>9 DEF Distinct
  <2>2. f[a] \in Int /\ ~(f[a] < f[b]) /\ ~(f[b] < f[a])
    BY <1>5, <1>6, <2>1
  <2>3. ~(a < b) /\ ~(b < a)
    BY <1>4, <2>2
  <2> QED
    BY <2>3
<1>10. ASSUME Ascending(w, l) PROVE Ascending(w, m)
  <2> SUFFICES ASSUME NEW a \in 1 .. c, NEW b \in 1 .. c, a < b
               PROVE  w.timer[m[a]].deadlineTC <= w.timer[m[b]].deadlineTC
    BY <1>6 DEF Ascending
  <2>1. f[a] < f[b] /\ f[a] \in 1 .. Len(l) /\ f[b] \in 1 .. Len(l)
    BY <1>4, <1>5, <1>6
  <2> QED
    BY <1>6, <1>10, <2>1 DEF Ascending
<1> QED
  BY <1>6, <1>8, <1>9, <1>10 DEF m

(* A list with a timer put in at its place.                                *)
LEMMA InsertFacts ==
  ASSUME NEW w, NEW l \in Seq(Timers), NEW i \in Timers, NEW d \in Nat, ~In(l, i), w.timer[i].deadlineTC = d,
         \A j \in Timers : w.timer[j].deadlineTC \in Nat
  PROVE  LET m == InsertAt(l, Place(w, l, d), i)
         IN /\ m \in Seq(Timers)
            /\ \A j : In(m, j) <=> In(l, j) \/ j = i
            /\ Distinct(l) => Distinct(m)
            /\ Ascending(w, l) => Ascending(w, m)
<1> DEFINE n == Len(l)
           p == Place(w, l, d)
           m == InsertAt(l, p, i)
           at(k) == w.timer[l[k]].deadlineTC
<1>1. n \in Nat /\ \A k \in 1 .. n : l[k] \in Timers /\ at(k) \in Nat
  BY LenProperties, ElementOfSeq
<1> HIDE DEF at
<1>2. \E q \in 1 .. n + 1 : (\A k \in 1 .. q - 1 : at(k) < d) /\ (q <= n => d <= at(q))
  <2> DEFINE S == {k \in 1 .. n : d <= at(k)}
  <2>1. CASE S = {}
    <3>1. \A k \in 1 .. n : at(k) < d
      BY <1>1, <2>1
    <3>2. n + 1 \in 1 .. n + 1 /\ ~(n + 1 <= n) /\ (n + 1) - 1 = n
      BY <1>1
    <3> QED
      BY <3>1, <3>2
  <2>2. CASE S # {}
    <3>1. S \in SUBSET Nat
      BY <1>1
    <3>2. PICK q \in S : \A k \in S : q <= k
      BY <2>2, <3>1, LeastExists
    <3>3. \A k \in 1 .. q - 1 : at(k) < d
      BY <1>1, <3>2
    <3> QED
      BY <1>1, <3>2, <3>3
  <2> QED
    BY <2>1, <2>2
<1>3. p \in 1 .. n + 1 /\ (\A k \in 1 .. p - 1 : at(k) < d) /\ (p <= n => d <= at(p))
  BY <1>2 DEF Place, at
<1> HIDE DEF p
<1>4. /\ m \in Seq(Timers) /\ Len(m) = n + 1
      /\ \A k \in 1 .. n + 1 : m[k] = IF k < p THEN l[k] ELSE IF k = p THEN i ELSE l[k - 1]
  <2> DEFINE a == SubSeq(l, 1, p - 1)  c == SubSeq(l, p, n)  b == a \o <<i>>
  <2>1. m = b \o c
    BY DEF InsertAt
  <2>2. a \in Seq(Timers) /\ Len(a) = p - 1 /\ \A k \in 1 .. p - 1 : a[k] = l[k]
    <3>1. 1 \in 1 .. n + 1 /\ p - 1 \in 1 - 1 .. n
      BY <1>1, <1>3
    <3>2. /\ a \in Seq(Timers) /\ Len(a) = IF 1 <= p - 1 THEN (p - 1) - 1 + 1 ELSE 0
          /\ \A k \in 1 .. (p - 1) - 1 + 1 : a[k] = l[1 + k - 1]
      BY <3>1, SubSeqProperties
    <3> QED
      BY <1>1, <1>3, <3>2
  <2>3. c \in Seq(Timers) /\ Len(c) = n - p + 1 /\ \A k \in 1 .. n - p + 1 : c[k] = l[p + k - 1]
    <3>1. p \in 1 .. n + 1 /\ n \in p - 1 .. n
      BY <1>1, <1>3
    <3>2. /\ c \in Seq(Timers) /\ Len(c) = IF p <= n THEN n - p + 1 ELSE 0
          /\ \A k \in 1 .. n - p + 1 : c[k] = l[p + k - 1]
      BY <3>1, SubSeqProperties
    <3> QED
      BY <1>1, <1>3, <3>2
  <2> HIDE DEF a, c, m
  <2>4. <<i>> \in Seq(Timers) /\ Len(<<i>>) = 1 /\ <<i>>[1] = i
    OBVIOUS
  <2>5. b \in Seq(Timers) /\ Len(b) = p /\ (\A k \in 1 .. p - 1 : b[k] = l[k]) /\ b[p] = i
    <3>1. /\ b \in Seq(Timers) /\ Len(b) = Len(a) + Len(<<i>>)
          /\ \A k \in 1 .. Len(a) + Len(<<i>>) : b[k] = IF k <= Len(a) THEN a[k] ELSE <<i>>[k - Len(a)]
      BY <2>2, <2>4, ConcatProperties
    <3>2. Len(b) = p /\ \A k \in 1 .. p : b[k] = IF k <= p - 1 THEN a[k] ELSE <<i>>[k - (p - 1)]
      BY <1>3, <2>2, <2>4, <3>1
    <3>3. b[p] = <<i>>[p - (p - 1)] /\ p - (p - 1) = 1
      BY <1>3, <3>2
    <3> QED
      BY <1>3, <2>2, <2>4, <3>1, <3>2, <3>3
  <2> HIDE DEF b
  <2>6. /\ m \in Seq(Timers) /\ Len(m) = n + 1
        /\ \A k \in 1 .. n + 1 : m[k] = IF k <= p THEN b[k] ELSE c[k - p]
    <3>1. /\ m \in Seq(Timers) /\ Len(m) = Len(b) + Len(c)
          /\ \A k \in 1 .. Len(b) + Len(c) : m[k] = IF k <= Len(b) THEN b[k] ELSE c[k - Len(b)]
      BY <2>1, <2>3, <2>5, ConcatProperties
    <3>2. Len(b) + Len(c) = n + 1
      BY <1>1, <1>3, <2>3, <2>5
    <3> QED
      BY <2>5, <3>1, <3>2
  <2>7. \A k \in 1 .. n + 1 : k > p => c[k - p] = l[k - 1]
    <3> SUFFICES ASSUME NEW k \in 1 .. n + 1, k > p PROVE c[k - p] = l[k - 1]
      OBVIOUS
    <3>1. k - p \in 1 .. n - p + 1 /\ p + (k - p) - 1 = k - 1
      BY <1>1, <1>3
    <3> QED
      BY <2>3, <3>1
  <2>8. ASSUME NEW k \in 1 .. n + 1
        PROVE  m[k] = IF k < p THEN l[k] ELSE IF k = p THEN i ELSE l[k - 1]
    <3>1. CASE k < p
      <4>1. k \in 1 .. p - 1 /\ k <= p
        BY <1>3, <3>1
      <4> QED
        BY <2>5, <2>6, <3>1, <4>1
    <3>2. CASE k = p
      BY <1>3, <2>5, <2>6, <3>2
    <3>3. CASE k > p
      BY <1>3, <2>6, <2>7, <3>3
    <3> QED
      BY <1>3, <3>1, <3>2, <3>3
  <2> QED
    BY <2>6, <2>8
<1> HIDE DEF m
<1>5. ASSUME NEW j PROVE In(m, j) <=> In(l, j) \/ j = i
  <2>1. ASSUME In(m, j) PROVE In(l, j) \/ j = i
    <3>1. PICK k \in 1 .. n + 1 : m[k] = j
      BY <1>4, <2>1 DEF In
    <3>2. CASE k < p
      BY <1>1, <1>3, <1>4, <3>1, <3>2 DEF In
    <3>3. CASE k > p
      <4>1. k - 1 \in 1 .. n /\ l[k - 1] = j
        BY <1>1, <1>3, <1>4, <3>1, <3>3
      <4> QED
        BY <4>1 DEF In
    <3> QED
      BY <1>3, <1>4, <3>1, <3>2, <3>3
  <2>2. ASSUME j = i PROVE In(m, j)
    BY <1>1, <1>3, <1>4, <2>2 DEF In
  <2>3. ASSUME In(l, j) PROVE In(m, j)
    <3>1. PICK k \in 1 .. n : l[k] = j
      BY <2>3 DEF In
    <3>2. CASE k < p
      BY <1>1, <1>4, <3>1, <3>2 DEF In
    <3>3. CASE k >= p
      <4>1. k + 1 \in 1 .. n + 1 /\ m[k + 1] = l[k]
        BY <1>1, <1>3, <1>4, <3>3
      <4> QED
        BY <1>4, <3>1, <4>1 DEF In
    <3> QED
      BY <1>1, <1>3, <3>2, <3>3
  <2> QED
    BY <2>1, <2>2, <2>3
<1>6. ASSUME Distinct(l) PROVE Distinct(m)
  <2> SUFFICES ASSUME NEW a \in 1 .. n + 1, NEW b \in 1 .. n + 1, m[a] = m[b] PROVE a = b
    BY <1>4 DEF Distinct
  <2> DEFINE from(x) == IF x < p THEN x ELSE x - 1
  <2>1. ASSUME NEW x \in 1 .. n + 1, x # p
        PROVE  from(x) \in 1 .. n /\ m[x] = l[from(x)] /\ m[x] # i
    <3>1. from(x) \in 1 .. n /\ m[x] = l[from(x)]
      BY <1>1, <1>3, <1>4, <2>1
    <3> QED
      BY <3>1 DEF In
  <2>2. m[p] = i
    BY <1>3, <1>4
  <2>3. a = p <=> b = p
    BY <2>1, <2>2
  <2>4. ASSUME a # p, b # p PROVE a = b
    <3>1. from(a) \in 1 .. n /\ from(b) \in 1 .. n /\ l[from(a)] = l[from(b)]
      BY <2>1, <2>3, <2>4
    <3>2. from(a) = from(b)
      BY <1>6, <3>1 DEF Distinct
    <3> QED
      BY <1>1, <1>3, <2>4, <3>2
  <2> QED
    BY <2>3, <2>4
<1>7. ASSUME Ascending(w, l) PROVE Ascending(w, m)
  <2> DEFINE D(x) == w.timer[m[x]].deadlineTC
  <2> SUFFICES ASSUME NEW a \in 1 .. n + 1, NEW b \in 1 .. n + 1, a < b PROVE D(a) <= D(b)
    BY <1>4 DEF Ascending
  <2>1. \A x \in 1 .. n + 1 : D(x) = IF x < p THEN at(x) ELSE IF x = p THEN d ELSE at(x - 1)
    BY <1>4 DEF at
  <2>2. \A x, y \in 1 .. n : x < y => at(x) <= at(y)
    BY <1>7 DEF Ascending, at
  <2>3. \A x \in 1 .. n : x >= p => d <= at(x)
    <3> SUFFICES ASSUME NEW x \in 1 .. n, x >= p PROVE d <= at(x)
      OBVIOUS
    <3>1. p \in 1 .. n /\ d <= at(p) /\ at(p) \in Nat /\ at(x) \in Nat
      BY <1>1, <1>3
    <3>2. x = p \/ p < x
      BY <1>3
    <3>3. ASSUME p < x PROVE at(p) <= at(x)
      BY <2>2, <3>1, <3>3
    <3> QED
      BY <3>1, <3>2, <3>3
  <2> HIDE DEF D
  <2>4. CASE b < p
    <3>1. a \in 1 .. n /\ b \in 1 .. n /\ a < p
      BY <1>1, <1>3, <2>4
    <3> QED
      BY <2>1, <2>2, <2>4, <3>1
  <2>5. CASE b = p
    <3>1. a \in 1 .. p - 1 /\ a \in 1 .. n
      BY <1>1, <1>3, <2>5
    <3>2. at(a) < d /\ at(a) \in Nat
      BY <1>1, <1>3, <3>1
    <3> QED
      BY <1>3, <2>1, <2>5, <3>1, <3>2
  <2>6. CASE b > p
    <3>1. b - 1 \in 1 .. n /\ b - 1 >= p /\ D(b) = at(b - 1) /\ d <= at(b - 1) /\ at(b - 1) \in Nat
      <4>1. b - 1 \in 1 .. n /\ b - 1 >= p
        BY <1>1, <1>3, <2>6
      <4>2. D(b) = at(b - 1)
        BY <1>3, <2>1, <2>6
      <4> QED
        BY <1>1, <2>3, <4>1, <4>2
    <3>2. CASE a < p
      <4>1. a \in 1 .. p - 1 /\ a \in 1 .. n
        BY <1>1, <1>3, <3>2
      <4>2. D(a) = at(a) /\ at(a) < d /\ at(a) \in Nat
        BY <1>1, <1>3, <2>1, <3>2, <4>1
      <4> QED
        BY <3>1, <4>2
    <3>3. CASE a = p
      BY <1>3, <2>1, <3>1, <3>3
    <3>4. CASE a > p
      <4>1. a - 1 \in 1 .. n /\ a - 1 < b - 1
        BY <1>1, <1>3, <3>4
      <4>2. D(a) = at(a - 1)
        BY <1>3, <2>1, <3>4
      <4> QED
        BY <2>2, <3>1, <4>1, <4>2
    <3> QED
      BY <1>3, <3>2, <3>3, <3>4
  <2> QED
    BY <1>3, <2>4, <2>5, <2>6
<1> QED
  BY <1>4, <1>5, <1>6, <1>7 DEF m, p

(* Lists that grow at the end and shrink at the front.                     *)
LEMMA ConcatFacts ==
  ASSUME NEW l \in Seq(Timers), NEW m \in Seq(Timers)
  PROVE  /\ l \o m \in Seq(Timers)
         /\ \A i : In(l \o m, i) <=> In(l, i) \/ In(m, i)
         /\ Distinct(l) /\ Distinct(m) /\ (\A i : ~(In(l, i) /\ In(m, i))) => Distinct(l \o m)
<1> DEFINE n == Len(l)  k == Len(m)  c == l \o m
<1>1. n \in Nat /\ k \in Nat
  BY LenProperties
<1>2. /\ c \in Seq(Timers) /\ Len(c) = n + k
      /\ \A a \in 1 .. n + k : c[a] = IF a <= n THEN l[a] ELSE m[a - n]
  BY ConcatProperties
<1> HIDE DEF c, n, k
<1>3. ASSUME NEW i PROVE In(c, i) <=> In(l, i) \/ In(m, i)
  <2>1. ASSUME In(c, i) PROVE In(l, i) \/ In(m, i)
    <3>1. PICK a \in 1 .. n + k : c[a] = i
      BY <1>2, <2>1 DEF In
    <3>2. CASE a <= n
      BY <1>1, <1>2, <3>1, <3>2 DEF In, n
    <3>3. CASE a > n
      <4>1. a - n \in 1 .. k /\ m[a - n] = i
        BY <1>1, <1>2, <3>1, <3>3
      <4> QED
        BY <4>1 DEF In, k
    <3> QED
      BY <1>1, <3>2, <3>3
  <2>2. ASSUME In(l, i) PROVE In(c, i)
    <3>1. PICK a \in 1 .. n : l[a] = i
      BY <2>2 DEF In, n
    <3>2. a \in 1 .. n + k /\ c[a] = i
      BY <1>1, <1>2, <3>1
    <3> QED
      BY <1>2, <3>2 DEF In
  <2>3. ASSUME In(m, i) PROVE In(c, i)
    <3>1. PICK a \in 1 .. k : m[a] = i
      BY <2>3 DEF In, k
    <3>2. n + a \in 1 .. n + k /\ c[n + a] = i
      BY <1>1, <1>2, <3>1
    <3> QED
      BY <1>2, <3>2 DEF In
  <2> QED
    BY <2>1, <2>2, <2>3
<1>4. ASSUME Distinct(l), Distinct(m), \A i : ~(In(l, i) /\ In(m, i)) PROVE Distinct(c)
  <2> SUFFICES ASSUME NEW a \in 1 .. n + k, NEW b \in 1 .. n + k, c[a] = c[b] PROVE a = b
    BY <1>2 DEF Distinct
  <2>1. ASSUME NEW x \in 1 .. n + k, NEW y \in 1 .. n + k, x <= n, y > n PROVE c[x] # c[y]
    <3>1. x \in 1 .. n /\ y - n \in 1 .. k /\ c[x] = l[x] /\ c[y] = m[y - n]
      BY <1>1, <1>2, <2>1
    <3>2. In(l, c[x]) /\ In(m, c[y])
      BY <3>1 DEF In, n, k
    <3> QED
      BY <1>4, <3>2
  <2>2. CASE a <= n /\ b <= n
    BY <1>1, <1>2, <1>4, <2>2 DEF Distinct, n
  <2>3. CASE a > n /\ b > n
    <3>1. a - n \in 1 .. k /\ b - n \in 1 .. k /\ m[a - n] = m[b - n]
      BY <1>1, <1>2, <2>3
    <3>2. a - n = b - n
      BY <1>4, <3>1 DEF Distinct, k
    <3> QED
      BY <1>1, <3>2
  <2> QED
    BY <1>1, <2>1, <2>2, <2>3
<1> QED
  BY <1>2, <1>3, <1>4 DEF c

(* The free list takes a timer at its end ...                              *)
LEMMA AppendFacts ==
  ASSUME NEW l \in Seq(Timers), NEW i \in Timers
  PROVE  /\ Append(l, i) \in Seq(Timers)
         /\ \A j : In(Append(l, i), j) <=> In(l, j) \/ j = i
         /\ Distinct(l) /\ ~In(l, i) => Distinct(Append(l, i))
<1>1. Len(l) \in Nat
  BY LenProperties
<1>2. /\ Append(l, i) \in Seq(Timers) /\ Len(Append(l, i)) = Len(l) + 1
      /\ \A k \in 1 .. Len(l) : Append(l, i)[k] = l[k]
      /\ Append(l, i)[Len(l) + 1] = i
  BY AppendProperties
<1> QED
  BY <1>1, <1>2 DEF In, Distinct

(* ... and gives one away at its head.                                     *)
LEMMA TailFacts ==
  ASSUME NEW l \in Seq(Timers), l # <<>>
  PROVE  /\ Head(l) \in Timers /\ Tail(l) \in Seq(Timers) /\ In(l, Head(l))
         /\ Distinct(l) => Distinct(Tail(l)) /\ \A j : In(Tail(l), j) <=> In(l, j) /\ j # Head(l)
<1> DEFINE t == Tail(l)  n == Len(l)
<1>1. n \in Nat \ {0} /\ l[1] = Head(l) /\ \A k \in 1 .. n : l[k] \in Timers
  BY EmptySeq, LenProperties, ElementOfSeq
<1>2. t \in Seq(Timers) /\ Len(t) = n - 1 /\ \A k \in 1 .. n - 1 : t[k] = l[k + 1]
  BY HeadTailProperties
<1> HIDE DEF t, n
<1>3. Head(l) \in Timers /\ In(l, Head(l))
  BY <1>1 DEF In, n
<1>4. ASSUME Distinct(l) PROVE Distinct(t) /\ \A j : In(t, j) <=> In(l, j) /\ j # Head(l)
  <2>1. \A a, b \in 1 .. n : l[a] = l[b] => a = b
    BY <1>4 DEF Distinct, n
  <2>2. Distinct(t)
    BY <1>1, <1>2, <2>1 DEF Distinct
  <2>3. ASSUME NEW j, In(t, j) PROVE In(l, j) /\ j # Head(l)
    <3>1. PICK k \in 1 .. n - 1 : t[k] = j
      BY <1>2, <2>3 DEF In
    <3>2. k + 1 \in 1 .. n /\ l[k + 1] = j /\ k + 1 # 1 /\ 1 \in 1 .. n
      BY <1>1, <1>2, <3>1
    <3> QED
      BY <1>1, <2>1, <3>2 DEF In, n
  <2>4. ASSUME NEW j, In(l, j), j # Head(l) PROVE In(t, j)
    <3>1. PICK k \in 1 .. n : l[k] = j
      BY <2>4 DEF In, n
    <3>2. k - 1 \in 1 .. n - 1 /\ t[k - 1] = j
      BY <1>1, <1>2, <2>4, <3>1
    <3> QED
      BY <1>2, <3>2 DEF In
  <2> QED
    BY <2>2, <2>3, <2>4
<1> QED
  BY <1>2, <1>3, <1>4 DEF t

-------------------------------------------------------------------------------
(* What a step under the lock makes of the lists and the timers.  First,   *)
(* timers are taken off the wheel and held in the hand.                    *)
LEMMA UnlinkOK ==
  ASSUME NEW w, NEW S \in SUBSET Timers, NEW p, NEW n, WheelOK(w, {}, p, n),
         \A i \in S : w.timer[i].flags \cap {"FREE", "EXPIRED"} = {},
         NEW v, v = Unlink(w, S)
  PROVE  /\ WheelOK(v, S, p, n)
         /\ v.timer = w.timer /\ v.freeList = w.freeList /\ v.fate = w.fate
         /\ SpokesKept(w, v)
<1>1. w \in Wheels /\ ListsOK(w, {}) /\ FlagsOK(w, {}, p) /\ GenerationsOK(w, n) /\ FatesOK(w)
  BY DEF WheelOK
<1>2. /\ v.timer = w.timer /\ v.freeList = w.freeList /\ v.fate = w.fate
      /\ \A s \in Spokes : v.wheel[s] = Without(w.wheel[s], S)
      /\ v = [timer |-> w.timer, freeList |-> w.freeList, wheel |-> [s \in Spokes |-> Without(w.wheel[s], S)],
              fate |-> w.fate]
  BY <1>1 DEF Unlink, Wheels
<1>3. ASSUME NEW s \in Spokes
      PROVE  /\ v.wheel[s] \in Seq(Timers)
             /\ \A i : In(v.wheel[s], i) <=> In(w.wheel[s], i) /\ i \notin S
             /\ Distinct(v.wheel[s]) /\ Ascending(v, v.wheel[s])
  <2>1. w.wheel[s] \in Seq(Timers)
    BY <1>1 DEF Wheels
  <2>2. Distinct(w.wheel[s]) /\ Ascending(w, w.wheel[s])
    BY <1>1 DEF ListsOK
  <2>3. Ascending(w, v.wheel[s])
    BY <1>2, <2>1, <2>2, WithoutFacts
  <2>4. Ascending(v, v.wheel[s])
    BY <1>2, <2>3 DEF Ascending
  <2> QED
    BY <1>2, <2>1, <2>2, <2>4, WithoutFacts
<1>4. v \in Wheels
  <2>1. [s \in Spokes |-> Without(w.wheel[s], S)] \in [Spokes -> Seq(Timers)]
    BY <1>2, <1>3
  <2> QED
    BY <1>1, <1>2, <2>1 DEF Wheels
<1>5. ListsOK(v, S)
  BY <1>1, <1>2, <1>3 DEF ListsOK
<1>6. FlagsOK(v, S, p)
  BY <1>1, <1>2 DEF FlagsOK
<1>7. GenerationsOK(v, n) /\ FatesOK(v)
  BY <1>1, <1>2 DEF GenerationsOK, FatesOK, Past, Over
<1>8. ASSUME NEW passTC, NEW arc, NEW tc, SpokesOK(w, passTC, arc, tc) PROVE SpokesOK(v, passTC, arc, tc)
  BY <1>2, <1>3, <1>8 DEF SpokesOK
<1> QED
  BY <1>2, <1>4, <1>5, <1>6, <1>7, <1>8 DEF WheelOK, SpokesKept

(* A timer in the hand is changed, and q instead of p may be firing.       *)
LEMMA ChangeOK ==
  ASSUME NEW w, NEW i \in Timers, NEW p, NEW q, NEW n, WheelOK(w, Hand(i), p, n), NEW r,
         MayBecome(w, i, r, p, q),
         NEW v, v = Changed(w, i, r)
  PROVE  /\ WheelOK(v, Hand(i), q, n)
         /\ v.timer[i] = r /\ (\A j \in Timers : j # i => v.timer[j] = w.timer[j])
         /\ v.freeList = w.freeList /\ v.wheel = w.wheel /\ v.fate = w.fate
         /\ SpokesKept(w, v)
<1>1. w \in Wheels /\ ListsOK(w, {i}) /\ FlagsOK(w, {i}, p) /\ GenerationsOK(w, n) /\ FatesOK(w)
  BY DEF WheelOK, Hand
<1>2. /\ v.timer[i] = r /\ (\A j \in Timers : j # i => v.timer[j] = w.timer[j])
      /\ v.freeList = w.freeList /\ v.wheel = w.wheel /\ v.fate = w.fate /\ v \in Wheels
  BY <1>1 DEF Wheels, MayBecome, Changed
<1>3. "FREE" \notin w.timer[i].flags
  BY <1>1 DEF FlagsOK
<1>4. \A s \in Spokes : ~In(w.wheel[s], i)
  BY <1>1 DEF ListsOK
<1>5. ASSUME NEW s \in Spokes, Ascending(w, w.wheel[s]) PROVE Ascending(v, w.wheel[s])
  <2>1. \A k \in 1 .. Len(w.wheel[s]) : w.wheel[s][k] \in Timers /\ w.wheel[s][k] # i
    <3>1. w.wheel[s] \in Seq(Timers)
      BY <1>1 DEF Wheels
    <3> QED
      BY <1>4, <3>1, ElementOfSeq DEF In
  <2> QED
    BY <1>2, <1>5, <2>1 DEF Ascending
<1>6. ListsOK(v, {i})
  BY <1>1, <1>2, <1>3, <1>5 DEF ListsOK, MayBecome
<1>7. FlagsOK(v, {i}, q)
  BY <1>1, <1>2 DEF FlagsOK, MayBecome
<1>8. GenerationsOK(v, n)
  BY <1>1, <1>2, <1>3 DEF GenerationsOK, MayBecome
<1>9. FatesOK(v)
  <2>1. \A h \in Handles : (Past(w, h) <=> Past(v, h)) /\ (Over(w, h) => Over(v, h)) /\ h[1] \in Timers
    BY <1>2 DEF Past, Over, Handles, MayBecome
  <2>2. v.fate \in Fates
    BY <1>2 DEF Wheels
  <2>3. ASSUME NEW h \in Handles
        PROVE  h \in v.fate.issued <=>
                 Past(v, h) \/ (h[2] = v.timer[h[1]].generation /\ "FREE" \notin v.timer[h[1]].flags)
    BY <1>1, <1>2, <1>3, <2>1 DEF FatesOK, MayBecome
  <2> QED
    BY <1>1, <1>2, <2>1, <2>2, <2>3 DEF FatesOK, Fates
<1>10. ASSUME NEW passTC, NEW arc, NEW tc, SpokesOK(w, passTC, arc, tc) PROVE SpokesOK(v, passTC, arc, tc)
  BY <1>2, <1>4, <1>10 DEF SpokesOK
<1> QED
  BY <1>2, <1>6, <1>7, <1>8, <1>9, <1>10 DEF WheelOK, SpokesKept, Hand

(* A timer in the hand is freed.                                           *)
LEMMA FreeOK ==
  ASSUME NEW w, NEW i \in Timers, NEW p, NEW n \in 0 .. MaxAdds, WheelOK(w, Hand(i), p, n), p # i,
         NEW v, v = TimerFree(w, i)
  PROVE  /\ WheelOK(v, {}, p, n)
         /\ v.timer[i] = FreeTimer(w.timer[i].generation + 1)
         /\ (\A j \in Timers : j # i => v.timer[j] = w.timer[j])
         /\ v.wheel = w.wheel
         /\ v.fate = [w.fate EXCEPT !.stray = @ \ {<<i, w.timer[i].generation>>}]
         /\ SpokesKept(w, v)
<1> DEFINE g == w.timer[i].generation
<1>1. w \in Wheels /\ ListsOK(w, {i}) /\ FlagsOK(w, {i}, p) /\ GenerationsOK(w, n) /\ FatesOK(w)
  BY DEF WheelOK, Hand
<1>2. "FREE" \notin w.timer[i].flags /\ g \in Generations /\ g <= n /\ g + 1 \in Generations /\ g \in Nat
  <2>1. "FREE" \notin w.timer[i].flags
    BY <1>1 DEF FlagsOK
  <2>2. g \in Generations
    BY <1>1 DEF Wheels, TimerRecords
  <2>3. g <= n
    BY <1>1, <2>1 DEF GenerationsOK
  <2> QED
    BY <2>1, <2>2, <2>3, TimerBounds DEF Generations
<1>3. /\ v.timer[i] = FreeTimer(g + 1) /\ (\A j \in Timers : j # i => v.timer[j] = w.timer[j])
      /\ v.freeList = Append(w.freeList, i) /\ v.wheel = w.wheel
      /\ v.fate = [w.fate EXCEPT !.stray = @ \ {<<i, g>>}]
      /\ v.timer = [w.timer EXCEPT ![i] = FreeTimer(g + 1)]
      /\ v = [timer |-> v.timer, freeList |-> v.freeList, wheel |-> v.wheel, fate |-> v.fate]
  <2>1. /\ w.timer \in [Timers -> TimerRecords] /\ w.fate \in Fates
        /\ w = [timer |-> w.timer, freeList |-> w.freeList, wheel |-> w.wheel, fate |-> w.fate]
    BY <1>1 DEF Wheels
  <2> QED
    BY <2>1 DEF TimerFree
<1>4. /\ FreeTimer(g + 1) \in TimerRecords /\ FreeTimer(g + 1).flags = {"FREE"}
      /\ FreeTimer(g + 1).generation = g + 1
  BY <1>2, TimerBounds DEF FreeTimer, TimerRecords, Flags
<1>5. /\ Append(w.freeList, i) \in Seq(Timers)
      /\ (\A j : In(Append(w.freeList, i), j) <=> In(w.freeList, j) \/ j = i)
      /\ Distinct(Append(w.freeList, i))
  <2>1. w.freeList \in Seq(Timers) /\ Distinct(w.freeList) /\ ~In(w.freeList, i)
    BY <1>1, <1>2 DEF Wheels, ListsOK
  <2> QED
    BY <2>1, AppendFacts
<1>6. v \in Wheels
  <2>1. v.fate \in Fates
    BY <1>1, <1>3 DEF Wheels, Fates
  <2>2. v.timer \in [Timers -> TimerRecords] /\ v.wheel \in [Spokes -> Seq(Timers)]
    BY <1>1, <1>3, <1>4 DEF Wheels
  <2> QED
    BY <1>3, <1>5, <2>1, <2>2 DEF Wheels
<1>7. \A s \in Spokes : ~In(w.wheel[s], i)
  BY <1>1 DEF ListsOK
<1>8. ASSUME NEW s \in Spokes, Ascending(w, w.wheel[s]) PROVE Ascending(v, w.wheel[s])
  <2>1. \A k \in 1 .. Len(w.wheel[s]) : w.wheel[s][k] \in Timers /\ w.wheel[s][k] # i
    <3>1. w.wheel[s] \in Seq(Timers)
      BY <1>1 DEF Wheels
    <3> QED
      BY <1>7, <3>1, ElementOfSeq DEF In
  <2> QED
    BY <1>3, <1>8, <2>1 DEF Ascending
<1>9. ListsOK(v, {})
  <2>1. \A j \in Timers : In(v.freeList, j) <=> "FREE" \in v.timer[j].flags
    BY <1>1, <1>3, <1>4, <1>5 DEF ListsOK
  <2>2. \A j \in Timers :
          (\E s \in Spokes : In(v.wheel[s], j)) <=> v.timer[j].flags \cap {"FREE", "EXPIRED"} = {}
    BY <1>1, <1>3, <1>4, <1>7 DEF ListsOK
  <2> QED
    BY <1>1, <1>3, <1>5, <1>8, <2>1, <2>2 DEF ListsOK
<1>10. FlagsOK(v, {}, p)
  BY <1>1, <1>3, <1>4 DEF FlagsOK
<1>11. GenerationsOK(v, n)
  <2> SUFFICES ASSUME NEW j \in Timers
               PROVE  /\ v.timer[j].generation <= n + 1
                      /\ "FREE" \notin v.timer[j].flags => v.timer[j].generation <= n
    BY DEF GenerationsOK
  <2>1. CASE j = i
    BY <1>2, <1>3, <1>4, <2>1
  <2>2. CASE j # i
    BY <1>1, <1>3, <2>2 DEF GenerationsOK
  <2> QED
    BY <2>1, <2>2
<1>12. FatesOK(v)
  <2>1. ASSUME NEW h \in Handles
        PROVE  /\ h[1] \in Timers /\ h[2] \in Nat
               /\ Past(v, h) <=> Past(w, h) \/ (h[1] = i /\ h[2] = g)
    <3>1. h[1] \in Timers /\ h[2] \in Nat
      BY TimerBounds DEF Handles, Generations
    <3>2. CASE h[1] = i
      BY <1>2, <1>3, <1>4, <3>1, <3>2 DEF Past
    <3>3. CASE h[1] # i
      BY <1>3, <3>1, <3>3 DEF Past
    <3> QED
      BY <3>1, <3>2, <3>3
  <2>2. \A h \in Handles : Over(w, h) => Over(v, h)
    BY <1>3, <2>1 DEF Over
  <2>3. ASSUME NEW h \in Handles
        PROVE  h \in w.fate.issued <=>
                 Past(v, h) \/ (h[2] = v.timer[h[1]].generation /\ "FREE" \notin v.timer[h[1]].flags)
    <3>1. CASE h[1] = i
      BY <1>1, <1>2, <1>3, <1>4, <2>1, <3>1 DEF FatesOK
    <3>2. CASE h[1] # i
      BY <1>1, <1>3, <2>1, <3>2 DEF FatesOK
    <3> QED
      BY <3>1, <3>2
  <2>4. /\ v.fate.issued = w.fate.issued /\ v.fate.synced = w.fate.synced
        /\ v.fate.fired = w.fate.fired /\ v.fate.removed = w.fate.removed /\ w.fate \in Fates
    BY <1>1, <1>3 DEF Wheels, Fates
  <2> QED
    BY <1>1, <2>1, <2>2, <2>3, <2>4 DEF FatesOK, Fates
<1>13. ASSUME NEW passTC, NEW arc, NEW tc, SpokesOK(w, passTC, arc, tc) PROVE SpokesOK(v, passTC, arc, tc)
  <2>1. \A j \in Timers : \A x : j # i => (<<j, x>> \in v.fate.stray <=> <<j, x>> \in w.fate.stray)
    BY <1>1, <1>3 DEF Wheels, Fates
  <2> QED
    BY <1>3, <1>7, <1>13, <2>1 DEF SpokesOK
<1> QED
  BY <1>3, <1>6, <1>9, <1>10, <1>11, <1>12, <1>13 DEF WheelOK, SpokesKept, Hand

(* A timer in the hand is put on the wheel; the spoke is right for the     *)
(* passes to come, or the timer is known as stray.                         *)
LEMMA InsertOK ==
  ASSUME NEW w, NEW i \in Timers, NEW p, NEW n, WheelOK(w, Hand(i), p, n),
         w.timer[i].flags \cap {"FREE", "EXPIRED"} = {}, NEW curr, NEW spoke \in Spokes,
         NEW v, v = TimerInsert(w, i, curr, spoke)
  PROVE  /\ WheelOK(v, {}, p, n)
         /\ v.timer = w.timer /\ v.freeList = w.freeList
         /\ v.fate.issued = w.fate.issued /\ v.fate.fired = w.fate.fired
         /\ \A passTC, arc, tc :
              SpokesOK(w, passTC, arc, tc) /\ GoesRight(w.timer[i].deadlineTC, curr, spoke, passTC, arc, tc) =>
                SpokesOK(v, passTC, arc, tc)
<1> DEFINE d == w.timer[i].deadlineTC
           s == IF d > curr THEN TimerTCToSpoke(d) ELSE spoke
           l == w.wheel[s]
           h == <<i, w.timer[i].generation>>
           stray == IF late THEN w.fate.stray \cup {h} ELSE w.fate.stray \ {h}
<1>1. w \in Wheels /\ ListsOK(w, {i}) /\ FlagsOK(w, {i}, p) /\ GenerationsOK(w, n) /\ FatesOK(w)
  BY DEF WheelOK, Hand
<1>2. /\ \A j \in Timers : w.timer[j] \in TimerRecords /\ w.timer[j].deadlineTC \in Nat
      /\ d \in Nat /\ h \in Handles
  BY <1>1, TimerBounds DEF Wheels, TimerRecords, Handles
<1>3. s \in Spokes /\ TimerTCToSpoke(d) \in Spokes
  BY <1>2, SpokeFacts
<1>4. l \in Seq(Timers) /\ Distinct(l) /\ Ascending(w, l) /\ \A u \in Spokes : ~In(w.wheel[u], i)
  BY <1>1, <1>3 DEF Wheels, ListsOK
<1> DEFINE m == InsertAt(l, Place(w, l, d), i)
<1>5. /\ v = [timer |-> w.timer, freeList |-> w.freeList, wheel |-> [w.wheel EXCEPT ![s] = m],
              fate |-> [w.fate EXCEPT !.stray = stray]]
  BY DEF TimerInsert
<1>6. m \in Seq(Timers) /\ (\A j : In(m, j) <=> In(l, j) \/ j = i) /\ Distinct(m) /\ Ascending(w, m)
  BY <1>2, <1>3, <1>4, InsertFacts
<1> HIDE DEF m, s, d, l
<1>7. /\ v.timer = w.timer /\ v.freeList = w.freeList
      /\ v.wheel[s] = m /\ (\A u \in Spokes : u # s => v.wheel[u] = w.wheel[u])
      /\ v.fate.issued = w.fate.issued /\ v.fate.fired = w.fate.fired /\ v.fate.removed = w.fate.removed
      /\ v.fate.synced = w.fate.synced /\ v.fate.stray = stray
  <2> HIDE DEF stray
  <2>1. /\ v.timer = w.timer /\ v.freeList = w.freeList /\ v.wheel = [w.wheel EXCEPT ![s] = m]
        /\ v.fate = [w.fate EXCEPT !.stray = stray]
    BY <1>5
  <2>2. w.wheel \in [Spokes -> Seq(Timers)] /\ w.fate \in Fates
    BY <1>1 DEF Wheels
  <2>3. v.wheel[s] = m /\ \A u \in Spokes : u # s => v.wheel[u] = w.wheel[u]
    BY <1>3, <2>1, <2>2
  <2>4. /\ v.fate.issued = w.fate.issued /\ v.fate.fired = w.fate.fired /\ v.fate.removed = w.fate.removed
        /\ v.fate.synced = w.fate.synced /\ v.fate.stray = stray
    BY <2>1, <2>2 DEF Fates
  <2> QED
    BY <2>1, <2>3, <2>4
<1>8. v \in Wheels
  <2>1. stray \in SUBSET Handles
    BY <1>1, <1>2 DEF Wheels, Fates
  <2> HIDE DEF stray
  <2>2. [w.fate EXCEPT !.stray = stray] \in Fates
    BY <1>1, <2>1 DEF Wheels, Fates
  <2>3. [w.wheel EXCEPT ![s] = m] \in [Spokes -> Seq(Timers)]
    BY <1>1, <1>6 DEF Wheels
  <2> QED
    BY <1>1, <1>5, <2>2, <2>3 DEF Wheels
<1> HIDE DEF stray
<1>9. \A u \in Spokes : \A j : In(v.wheel[u], j) <=> In(w.wheel[u], j) \/ (u = s /\ j = i)
  BY <1>6, <1>7 DEF l
<1>10. ListsOK(v, {})
  <2>1. ASSUME NEW u \in Spokes PROVE Distinct(v.wheel[u]) /\ Ascending(v, v.wheel[u])
    BY <1>1, <1>6, <1>7 DEF ListsOK, Ascending
  <2>2. ASSUME NEW j \in Timers, NEW u \in Spokes, NEW t \in Spokes, In(v.wheel[u], j), In(v.wheel[t], j)
        PROVE  u = t
    BY <1>1, <1>4, <1>9, <2>2 DEF ListsOK
  <2>3. ASSUME NEW j \in Timers
        PROVE  (\E u \in Spokes : In(v.wheel[u], j)) <=> v.timer[j].flags \cap {"FREE", "EXPIRED"} = {}
    BY <1>1, <1>3, <1>7, <1>9 DEF ListsOK
  <2> QED
    BY <1>1, <1>7, <2>1, <2>2, <2>3 DEF ListsOK
<1>11. FlagsOK(v, {}, p)
  BY <1>1, <1>7 DEF FlagsOK
<1>12. GenerationsOK(v, n) /\ FatesOK(v)
  BY <1>1, <1>7 DEF GenerationsOK, FatesOK, Past, Over
<1>13. ASSUME NEW passTC, NEW arc, NEW tc, SpokesOK(w, passTC, arc, tc),
              GoesRight(w.timer[i].deadlineTC, curr, spoke, passTC, arc, tc)
       PROVE  SpokesOK(v, passTC, arc, tc)
  <2> SUFFICES ASSUME NEW u \in Spokes, NEW j \in Timers, In(v.wheel[u], j),
                      <<j, v.timer[j].generation>> \notin v.fate.stray
               PROVE  \/ u = TimerTCToSpoke(v.timer[j].deadlineTC) /\ v.timer[j].deadlineTC > passTC
                      \/ u \in arc /\ (u = TimerTCToSpoke(v.timer[j].deadlineTC) \/ v.timer[j].deadlineTC <= tc)
    BY DEF SpokesOK
  <2>1. CASE j = i
    <3>1. u = s /\ ~late
      BY <1>4, <1>7, <1>9, <2>1 DEF stray
    <3> QED
      BY <1>7, <1>13, <2>1, <3>1 DEF d, s, GoesRight
  <2>2. CASE j # i
    <3>1. In(w.wheel[u], j) /\ <<j, w.timer[j].generation>> \notin w.fate.stray
      BY <1>7, <1>9, <2>2 DEF stray
    <3> QED
      BY <1>7, <1>13, <3>1 DEF SpokesOK
  <2> QED
    BY <2>1, <2>2
<1> QED
  BY <1>7, <1>8, <1>10, <1>11, <1>12, <1>13 DEF WheelOK

(* An expired timer may be taken in the hand, and laid down again while it *)
(* is firing.                                                              *)
LEMMA HoldOK ==
  ASSUME NEW w, NEW i \in Timers, NEW p, NEW n, "EXPIRED" \in w.timer[i].flags, "FREE" \notin w.timer[i].flags
  PROVE  /\ WheelOK(w, {}, p, n) => WheelOK(w, Hand(i), p, n)
         /\ WheelOK(w, Hand(i), p, n) /\ p = i => WheelOK(w, {}, p, n)
<1>1. ListsOK(w, {}) <=> ListsOK(w, {i})
  BY DEF ListsOK
<1>2. FlagsOK(w, {}, p) => FlagsOK(w, {i}, p)
  BY DEF FlagsOK
<1>3. FlagsOK(w, {i}, p) /\ p = i => FlagsOK(w, {}, p)
  BY DEF FlagsOK
<1> QED
  BY <1>1, <1>2, <1>3 DEF WheelOK, Hand

(* The callback of a timer that stays on the wheel returns.                *)
LEMMA ClearOK ==
  ASSUME NEW w, NEW i \in Timers, NEW n, WheelOK(w, {}, i, n), "EXPIRED" \notin w.timer[i].flags,
         NEW v, v = Quiet(w, i)
  PROVE  /\ WheelOK(v, {}, NoTimer, n) /\ v.fate = w.fate /\ Later(w, v)
         /\ SpokesKept(w, v)
<1>1. w \in Wheels /\ ListsOK(w, {}) /\ FlagsOK(w, {}, i) /\ GenerationsOK(w, n) /\ FatesOK(w)
  BY DEF WheelOK
<1>2. /\ v.freeList = w.freeList /\ v.wheel = w.wheel /\ v.fate = w.fate /\ v \in Wheels
      /\ \A j \in Timers : /\ v.timer[j].generation = w.timer[j].generation
                           /\ v.timer[j].deadlineTC = w.timer[j].deadlineTC
                           /\ v.timer[j].flags = IF j = i THEN w.timer[i].flags \ {"FIRING"} ELSE w.timer[j].flags
  BY <1>1 DEF Wheels, TimerRecords, Quiet
<1>3. ASSUME NEW s \in Spokes, Ascending(w, w.wheel[s]) PROVE Ascending(v, w.wheel[s])
  <2>1. \A k \in 1 .. Len(w.wheel[s]) : w.wheel[s][k] \in Timers
    <3>1. w.wheel[s] \in Seq(Timers)
      BY <1>1 DEF Wheels
    <3> QED
      BY <3>1, ElementOfSeq
  <2> QED
    BY <1>2, <1>3, <2>1 DEF Ascending
<1>4. ListsOK(v, {})
  BY <1>1, <1>2, <1>3 DEF ListsOK
<1>5. FlagsOK(v, {}, NoTimer)
  <2>1. \A j \in Timers : j # NoTimer
    BY TimerBounds DEF Timers, NoTimer
  <2>2. "FREE" \notin w.timer[i].flags
    BY <1>1 DEF FlagsOK
  <2> QED
    BY <1>1, <1>2, <2>1, <2>2 DEF FlagsOK
<1>6. GenerationsOK(v, n)
  BY <1>1, <1>2 DEF GenerationsOK
<1>7. FatesOK(v)
  <2>1. \A h \in Handles : h[1] \in Timers
    BY DEF Handles
  <2>2. \A h \in Handles : (Past(w, h) <=> Past(v, h)) /\ (Over(w, h) => Over(v, h))
    BY <1>2, <2>1 DEF Past, Over
  <2>3. w.fate \in Fates
    BY <1>1 DEF Wheels
  <2> QED
    BY <1>1, <1>2, <2>1, <2>2, <2>3 DEF FatesOK, Fates
<1>8. ASSUME NEW passTC, NEW arc, NEW tc, SpokesOK(w, passTC, arc, tc) PROVE SpokesOK(v, passTC, arc, tc)
  BY <1>2, <1>8 DEF SpokesOK
<1>9. Later(w, v)
  <2>1. \A j \in Timers : w.timer[j].generation \in Nat
    BY <1>1, TimerBounds DEF Wheels, TimerRecords, Generations
  <2> QED
    BY <1>2, <2>1 DEF Later
<1> QED
  BY <1>2, <1>4, <1>5, <1>6, <1>7, <1>8, <1>9 DEF WheelOK, SpokesKept

(* Entries of the history.                                                 *)
LEMMA HistoryOK ==
  ASSUME NEW w, NEW p, NEW n, WheelOK(w, {}, p, n)
  PROVE  /\ \A h \in Handles : Over(w, h) /\ h \notin w.fate.removed =>
              WheelOK(Fired(w, h), {}, p, n) /\ Fired(w, h).fate.issued = w.fate.issued
         /\ \A H \in SUBSET Handles : (\A h \in H : Over(w, h) /\ h \notin w.fate.fired) =>
              WheelOK(Removed(w, H), {}, p, n) /\ Removed(w, H).fate.issued = w.fate.issued
         /\ \A h \in Handles : Past(w, h) =>
              WheelOK(Synced(w, h), {}, p, n) /\ Synced(w, h).fate.issued = w.fate.issued
<1>1. w \in Wheels /\ ListsOK(w, {}) /\ FlagsOK(w, {}, p) /\ GenerationsOK(w, n) /\ FatesOK(w) /\ w.fate \in Fates
  BY DEF WheelOK, Wheels
<1>2. ASSUME NEW v, v \in Wheels, v.timer = w.timer, v.freeList = w.freeList, v.wheel = w.wheel, FatesOK(v)
      PROVE  WheelOK(v, {}, p, n)
  BY <1>1, <1>2 DEF WheelOK, ListsOK, FlagsOK, GenerationsOK, Ascending
<1>3. ASSUME NEW h \in Handles, Over(w, h), h \notin w.fate.removed
      PROVE  WheelOK(Fired(w, h), {}, p, n) /\ Fired(w, h).fate.issued = w.fate.issued
  <2> DEFINE v == Fired(w, h)
  <2>1. /\ v \in Wheels /\ v.timer = w.timer /\ v.freeList = w.freeList /\ v.wheel = w.wheel
        /\ v.fate.issued = w.fate.issued /\ v.fate.synced = w.fate.synced
        /\ v.fate.fired = w.fate.fired \cup {h} /\ v.fate.removed = w.fate.removed
    BY <1>1 DEF Wheels, Fates, Fired
  <2> HIDE DEF v
  <2>2. FatesOK(v)
    BY <1>1, <1>3, <2>1 DEF FatesOK, Past, Over
  <2>3. WheelOK(v, {}, p, n)
    BY <1>2, <2>1, <2>2
  <2> QED
    BY <2>1, <2>3 DEF v
<1>4. ASSUME NEW H \in SUBSET Handles, \A h \in H : Over(w, h) /\ h \notin w.fate.fired
      PROVE  WheelOK(Removed(w, H), {}, p, n) /\ Removed(w, H).fate.issued = w.fate.issued
  <2> DEFINE v == Removed(w, H)
  <2>1. /\ v \in Wheels /\ v.timer = w.timer /\ v.freeList = w.freeList /\ v.wheel = w.wheel
        /\ v.fate.issued = w.fate.issued /\ v.fate.synced = w.fate.synced
        /\ v.fate.fired = w.fate.fired /\ v.fate.removed = w.fate.removed \cup H
    BY <1>1 DEF Wheels, Fates, Removed
  <2> HIDE DEF v
  <2>2. FatesOK(v)
    BY <1>1, <1>4, <2>1 DEF FatesOK, Past, Over
  <2>3. WheelOK(v, {}, p, n)
    BY <1>2, <2>1, <2>2
  <2> QED
    BY <2>1, <2>3 DEF v
<1>5. ASSUME NEW h \in Handles, Past(w, h)
      PROVE  WheelOK(Synced(w, h), {}, p, n) /\ Synced(w, h).fate.issued = w.fate.issued
  <2> DEFINE v == Synced(w, h)
  <2>1. /\ v \in Wheels /\ v.timer = w.timer /\ v.freeList = w.freeList /\ v.wheel = w.wheel
        /\ v.fate.issued = w.fate.issued /\ v.fate.synced = w.fate.synced \cup {h}
        /\ v.fate.fired = w.fate.fired /\ v.fate.removed = w.fate.removed
    BY <1>1 DEF Wheels, Fates, Synced
  <2> HIDE DEF v
  <2>2. FatesOK(v)
    BY <1>1, <1>5, <2>1 DEF FatesOK, Past, Over
  <2>3. WheelOK(v, {}, p, n)
    BY <1>2, <2>1, <2>2
  <2> QED
    BY <2>1, <2>3 DEF v
<1> QED
  BY <1>3, <1>4, <1>5

(* The history does not touch where the timers are.                        *)
LEMMA HistorySpokes ==
  ASSUME NEW w \in Wheels, NEW x, NEW passTC, NEW arc, NEW tc, SpokesOK(w, passTC, arc, tc)
  PROVE  /\ SpokesOK(Fired(w, x), passTC, arc, tc) /\ SpokesOK(Removed(w, x), passTC, arc, tc)
         /\ SpokesOK(Synced(w, x), passTC, arc, tc)
<1>1. ASSUME NEW v, v.timer = w.timer, v.wheel = w.wheel, v.fate.stray = w.fate.stray
      PROVE  SpokesOK(v, passTC, arc, tc)
  BY <1>1 DEF SpokesOK
<1>2. /\ Fired(w, x).timer = w.timer /\ Fired(w, x).wheel = w.wheel /\ Fired(w, x).fate.stray = w.fate.stray
      /\ Removed(w, x).timer = w.timer /\ Removed(w, x).wheel = w.wheel
      /\ Removed(w, x).fate.stray = w.fate.stray
      /\ Synced(w, x).timer = w.timer /\ Synced(w, x).wheel = w.wheel /\ Synced(w, x).fate.stray = w.fate.stray
  BY DEF Fired, Removed, Synced, Wheels, Fates
<1> QED
  BY <1>1, <1>2

-------------------------------------------------------------------------------
(* The state of the wheel after a step.                                    *)
LEMMA NowIs ==
  ASSUME NEW w \in Wheels, SetTo(w)
  PROVE  Now' = w
  BY DEF SetTo, Now, Wheels

(* What every step does.                                                   *)
StepOK ==
  /\ TimersInv' /\ Later(Now, Now')
  /\ pass' # pass /\ ~IsFiring' => NoneDue(Now', pass'.curTC)

(* A step under the lock that leaves the handler alone.                    *)
LEMMA WheelStep ==
  ASSUME TimersInv, NEW w, SetTo(w), adds' \in 0 .. MaxAdds, WheelOK(w, {}, pass.timer, adds'), Later(Now, w),
         SpokesOK(w, pass.curTC, Arc(curSpoke, pass.lastSpoke), PassTime), CallersOK',
         UNCHANGED <<curTC, curSpoke, now, pass, late>>
  PROVE  StepOK
<1>1. Now' = w
  BY NowIs DEF WheelOK
<1>2. PassOK' /\ PassTime' = PassTime
  BY DEF TimersInv, PassOK, PassTime, IsFiring
<1>3. WheelOK(Now', {}, pass'.timer, adds')
  BY <1>1
<1>4. SpokesOK(Now', pass'.curTC, Arc(curSpoke', pass'.lastSpoke), PassTime')
  BY <1>1, <1>2
<1>5. TimersInv'
  BY <1>2, <1>3, <1>4 DEF TimersInv
<1> QED
  BY <1>1, <1>5 DEF StepOK

(* Those who wait for a handle still wait for a handle.                    *)
LEMMA CallersKept ==
  ASSUME CallersOK, NEW w, SetTo(w), Later(Now, w), UNCHANGED caller
  PROVE  CallersOK'
<1>1. fate.issued \subseteq fate'.issued
  BY DEF Later, Now, SetTo
<1> QED
  BY <1>1 DEF CallersOK, Issued

(* A deadline is put where the passes to come find it.                     *)
LEMMA InsertHere ==
  ASSUME PassOK, NEW d \in Nat
  PROVE  GoesRight(d, curTC, curSpoke, pass.curTC, Arc(curSpoke, pass.lastSpoke), PassTime)
<1>1. curTC \in Nat /\ pass.curTC \in Nat /\ pass.curTC <= curTC /\ curSpoke \in Spokes /\ pass.lastSpoke \in Spokes
  BY TimerBounds DEF PassOK
<1>2. curSpoke \in Arc(curSpoke, pass.lastSpoke)
  BY <1>1, ArcFacts
<1>3. late \/ PassTime = curTC
  BY DEF PassOK, PassTime
<1> QED
  BY <1>1, <1>2, <1>3 DEF GoesRight

(* A timer is taken from the free list and filled in.                      *)
LEMMA TakeOK ==
  ASSUME NEW w, NEW p, NEW n \in 0 .. MaxAdds - 1, WheelOK(w, {}, p, n), w.freeList # <<>>,
         NEW r \in TimerRecords, NEW i, i = Head(w.freeList), r.generation = w.timer[i].generation,
         r.flags = {"ONE_SHOT"} \/ r.flags = {"PERIODIC"},
         NEW v, v = Taken(w, i, r)
  PROVE  /\ WheelOK(v, Hand(i), p, n + 1) /\ Later(w, v) /\ i \in Timers /\ v.timer[i] = r
         /\ SpokesKept(w, v)
<1> DEFINE h == <<i, w.timer[i].generation>>
<1>1. w \in Wheels /\ ListsOK(w, {}) /\ FlagsOK(w, {}, p) /\ GenerationsOK(w, n) /\ FatesOK(w)
  BY DEF WheelOK, Hand
<1>2. /\ w.timer \in [Timers -> TimerRecords] /\ w.freeList \in Seq(Timers)
      /\ w.wheel \in [Spokes -> Seq(Timers)] /\ w.fate \in Fates
  BY <1>1 DEF Wheels
<1>3. /\ i \in Timers /\ Tail(w.freeList) \in Seq(Timers) /\ In(w.freeList, i)
      /\ Distinct(Tail(w.freeList)) /\ \A j : In(Tail(w.freeList), j) <=> In(w.freeList, j) /\ j # i
  BY <1>1, <1>2, TailFacts DEF ListsOK
<1>4. w.timer[i].flags = {"FREE"} /\ p # i
  BY <1>1, <1>3 DEF ListsOK, FlagsOK
<1>5. /\ w.timer[i].generation \in Nat /\ w.timer[i].generation <= n + 1 /\ n \in Nat /\ h \in Handles
      /\ \A j \in Timers : w.timer[j].generation \in Nat
  <2>1. \A j \in Timers : w.timer[j].generation \in Generations /\ w.timer[j].generation <= n + 1
    BY <1>1, <1>2 DEF GenerationsOK, TimerRecords
  <2>2. h \in Handles
    BY <1>3, <2>1 DEF Handles
  <2> HIDE DEF h
  <2> QED
    BY <1>3, <2>1, <2>2, TimerBounds DEF Generations
<1>6. /\ v.timer[i] = r /\ (\A j \in Timers : j # i => v.timer[j] = w.timer[j])
      /\ v.freeList = Tail(w.freeList) /\ v.wheel = w.wheel
      /\ v.fate.issued = w.fate.issued \cup {h} /\ v.fate.fired = w.fate.fired
      /\ v.fate.removed = w.fate.removed /\ v.fate.synced = w.fate.synced /\ v.fate.stray = w.fate.stray
  <2>1. /\ v.timer = [w.timer EXCEPT ![i] = r] /\ v.freeList = Tail(w.freeList) /\ v.wheel = w.wheel
        /\ v.fate = [w.fate EXCEPT !.issued = @ \cup {h}]
    BY DEF Taken
  <2> HIDE DEF h
  <2> QED
    BY <1>2, <1>3, <2>1 DEF Fates
<1>7. v \in Wheels
  <2>1. [w.timer EXCEPT ![i] = r] \in [Timers -> TimerRecords]
    BY <1>2
  <2>2. [w.fate EXCEPT !.issued = @ \cup {h}] \in Fates
    BY <1>2, <1>5 DEF Fates
  <2> QED
    BY <1>2, <1>3, <2>1, <2>2 DEF Wheels, Taken
<1>8. \A s \in Spokes : ~In(w.wheel[s], i)
  BY <1>1, <1>3, <1>4 DEF ListsOK
<1>9. ASSUME NEW s \in Spokes, Ascending(w, w.wheel[s]) PROVE Ascending(v, w.wheel[s])
  <2>1. \A k \in 1 .. Len(w.wheel[s]) : w.wheel[s][k] \in Timers /\ w.wheel[s][k] # i
    <3>1. w.wheel[s] \in Seq(Timers)
      BY <1>2
    <3> QED
      BY <1>8, <3>1, ElementOfSeq DEF In
  <2> QED
    BY <1>6, <1>9, <2>1 DEF Ascending
<1>10. ListsOK(v, {i})
  <2>1. \A j \in Timers : In(v.freeList, j) <=> "FREE" \in v.timer[j].flags
    BY <1>1, <1>3, <1>6 DEF ListsOK
  <2>2. \A j \in Timers :
          (\E s \in Spokes : In(v.wheel[s], j)) <=> j \notin {i} /\ v.timer[j].flags \cap {"FREE", "EXPIRED"} = {}
    BY <1>1, <1>6, <1>8 DEF ListsOK
  <2> QED
    BY <1>1, <1>3, <1>6, <1>9, <2>1, <2>2 DEF ListsOK
<1>11. FlagsOK(v, {i}, p)
  BY <1>1, <1>4, <1>6 DEF FlagsOK
<1>12. GenerationsOK(v, n + 1) /\ Later(w, v)
  BY <1>1, <1>4, <1>5, <1>6 DEF GenerationsOK, Later
<1>13. FatesOK(v)
  <2>1. \A x \in Handles : (Past(w, x) <=> Past(v, x)) /\ (Over(w, x) => Over(v, x)) /\ x[1] \in Timers
    BY <1>4, <1>6 DEF Past, Over, Handles
  <2>2. ASSUME NEW x \in Handles
        PROVE  x \in v.fate.issued <=>
                 Past(v, x) \/ (x[2] = v.timer[x[1]].generation /\ "FREE" \notin v.timer[x[1]].flags)
    <3>1. CASE x[1] = i
      <4>1. x = h <=> x[2] = w.timer[i].generation
        BY <3>1 DEF Handles
      <4> QED
        BY <1>1, <1>4, <1>6, <2>1, <3>1, <4>1 DEF FatesOK
    <3>2. CASE x[1] # i
      BY <1>1, <1>6, <2>1, <3>2 DEF FatesOK
    <3> QED
      BY <3>1, <3>2
  <2> QED
    BY <1>1, <1>2, <1>6, <2>1, <2>2 DEF FatesOK, Fates
<1>14. ASSUME NEW passTC, NEW arc, NEW tc, SpokesOK(w, passTC, arc, tc) PROVE SpokesOK(v, passTC, arc, tc)
  BY <1>6, <1>8, <1>14 DEF SpokesOK
<1> QED
  BY <1>3, <1>6, <1>7, <1>10, <1>11, <1>12, <1>13, <1>14 DEF WheelOK, SpokesKept, Hand

(* A timer is dropped: its handle is over, and past if it was not firing.  *)
LEMMA DropOK ==
  ASSUME NEW w, NEW i \in Timers, NEW p, NEW n \in 0 .. MaxAdds, WheelOK(w, {}, p, n),
         w.timer[i].flags \cap {"FREE", "EXPIRED"} = {}
  PROVE  LET v == Drop(w, i)
             h == <<i, w.timer[i].generation>>
         IN /\ WheelOK(v, {}, p, n) /\ Later(w, v) /\ v.fate.fired = w.fate.fired /\ Over(v, h)
            /\ "FIRING" \notin w.timer[i].flags => Past(v, h)
            /\ SpokesKept(w, v)
<1> DEFINE u == Unlink(w, {i})
           v == Drop(w, i)
           h == <<i, w.timer[i].generation>>
           r == [w.timer[i] EXCEPT !.flags = @ \cup {"EXPIRED"}]
<1>1. /\ w \in Wheels /\ FlagsOK(w, {}, p) /\ w.timer[i] \in TimerRecords /\ w.fate \in Fates
      /\ \A j \in Timers : w.timer[j].generation \in Nat
  BY TimerBounds DEF WheelOK, Wheels, TimerRecords, Generations
<1>2. /\ WheelOK(u, Hand(i), p, n) /\ u.timer = w.timer /\ u.freeList = w.freeList /\ u.fate = w.fate
      /\ SpokesKept(w, u)
  BY UnlinkOK DEF Hand
<1> HIDE DEF u
<1>3. CASE "FIRING" \in w.timer[i].flags
  <2>1. /\ r \in TimerRecords /\ r.generation = w.timer[i].generation
        /\ r.flags = w.timer[i].flags \cup {"EXPIRED"}
    BY <1>1 DEF TimerRecords, Flags
  <2>2. /\ p = i /\ "FREE" \notin w.timer[i].flags
        /\ "ONE_SHOT" \in w.timer[i].flags <=> "PERIODIC" \notin w.timer[i].flags
    BY <1>1, <1>3 DEF FlagsOK
  <2>3. v = Changed(u, i, r)
    BY <1>2, <1>3 DEF Drop, Changed, u
  <2> HIDE DEF r, v
  <2>4. /\ WheelOK(v, Hand(i), p, n) /\ v.timer[i] = r /\ v.fate = w.fate /\ SpokesKept(u, v)
        /\ \A j \in Timers : j # i => v.timer[j] = w.timer[j]
    <3>1. MayBecome(u, i, r, p, p)
      BY <1>2, <1>3, <2>1, <2>2 DEF MayBecome
    <3> QED
      BY <1>2, <2>3, <3>1, ChangeOK
  <2>5. WheelOK(v, {}, p, n)
    BY <2>1, <2>2, <2>4, HoldOK
  <2>6. Later(w, v)
    BY <1>1, <2>1, <2>4 DEF Later
  <2>7. Over(v, h)
    BY <2>1, <2>4 DEF Over
  <2> QED
    BY <1>2, <1>3, <2>4, <2>5, <2>6, <2>7 DEF v, SpokesKept
<1>4. CASE "FIRING" \notin w.timer[i].flags
  <2>1. p # i
    BY <1>1, <1>4 DEF FlagsOK
  <2>2. v = TimerFree(u, i)
    BY <1>4 DEF Drop, u
  <2> HIDE DEF v
  <2>3. /\ WheelOK(v, {}, p, n) /\ v.timer[i] = FreeTimer(w.timer[i].generation + 1)
        /\ (\A j \in Timers : j # i => v.timer[j] = w.timer[j])
        /\ v.fate = [w.fate EXCEPT !.stray = @ \ {h}]
        /\ SpokesKept(u, v)
    <3>1. /\ WheelOK(v, {}, p, n) /\ v.timer[i] = FreeTimer(u.timer[i].generation + 1) /\ SpokesKept(u, v)
          /\ (\A j \in Timers : j # i => v.timer[j] = u.timer[j])
          /\ v.fate = [u.fate EXCEPT !.stray = @ \ {<<i, u.timer[i].generation>>}]
      BY <1>2, <2>1, <2>2, FreeOK
    <3> QED
      BY <1>2, <3>1, Zenon
  <2>4. v.timer[i].generation = w.timer[i].generation + 1
    BY <2>3 DEF FreeTimer
  <2>5. v.fate.issued = w.fate.issued /\ v.fate.fired = w.fate.fired
    BY <1>1, <2>3 DEF Fates
  <2>6. Later(w, v)
    BY <1>1, <2>3, <2>4, <2>5 DEF Later
  <2>7. Past(v, h) /\ Over(v, h)
    BY <1>1, <2>4 DEF Past, Over
  <2> QED
    BY <1>2, <2>3, <2>5, <2>6, <2>7 DEF v, SpokesKept
<1> QED
  BY <1>3, <1>4

(* A step that removes some timers leaves their handles over: that they    *)
(* were removed is true of the ones that shot once and had not fired.      *)
LEMMA RemovedOK ==
  ASSUME NEW w, NEW v, NEW p, NEW n, WheelOK(w, {}, p, n), WheelOK(v, {}, p, n), v.fate.fired = w.fate.fired,
         NEW H \in SUBSET Handles, \A h \in H : ~Over(w, h) /\ Over(v, h), Later(w, v)
  PROVE  WheelOK(Removed(v, H), {}, p, n) /\ Removed(v, H).timer = v.timer /\ Later(w, Removed(v, H))
<1>1. \A h \in H : h \notin v.fate.fired
  BY DEF WheelOK, FatesOK
<1>2. WheelOK(Removed(v, H), {}, p, n) /\ Removed(v, H).fate.issued = v.fate.issued
  BY <1>1, HistoryOK
<1>3. Removed(v, H).timer = v.timer
  BY DEF WheelOK, Wheels, Removed
<1> QED
  BY <1>2, <1>3 DEF Later

(* Timer_AddTC keeps the invariant.                                        *)
LEMMA AddStep ==
  ASSUME TimersInv, NEW d \in Deadlines, NEW k \in Kinds, Timer_AddTC(d, k[1], k[2])
  PROVE  StepOK
<1> DEFINE i == Head(freeList)
           new == [flags |-> {IF k[1] = 0 THEN "ONE_SHOT" ELSE "PERIODIC"}, deadlineTC |-> d,
                   periodTC |-> k[1], group |-> k[2], generation |-> timer[i].generation]
           w == [timer |-> [timer EXCEPT ![i] = new], freeList |-> Tail(freeList), wheel |-> wheel,
                 fate |-> [fate EXCEPT !.issued = @ \cup {<<i, timer[i].generation>>}]]
           v == TimerInsert(w, i, curTC, curSpoke)
<1>1. /\ PassOK /\ CallersOK /\ WheelOK(Now, {}, pass.timer, adds) /\ Now \in Wheels
      /\ SpokesOK(Now, pass.curTC, Arc(curSpoke, pass.lastSpoke), PassTime) /\ curSpoke \in Spokes
  BY DEF TimersInv, WheelOK, PassOK
<1>2. /\ Now.timer = timer /\ Now.freeList = freeList /\ Now.wheel = wheel /\ Now.fate = fate
  BY DEF Now
<1>3. /\ adds \in 0 .. MaxAdds - 1 /\ adds' = adds + 1 /\ adds' \in 0 .. MaxAdds /\ freeList # <<>>
      /\ UNCHANGED <<curTC, curSpoke, now, pass, late>> /\ UNCHANGED caller
  BY <1>1, TimerBounds DEF Timer_AddTC, PassOK
<1>4. SetTo(v)
  BY DEF Timer_AddTC, HandleOf
<1>5. /\ new \in TimerRecords /\ new.generation = timer[i].generation /\ new.deadlineTC = d
      /\ (new.flags = {"ONE_SHOT"} \/ new.flags = {"PERIODIC"}) /\ d \in Nat
  <2>1. k[1] \in {0, Period} /\ k[2] \in Groups \cup {Default}
    BY GroupsAssumption
  <2>2. d \in 0 .. MaxTime
    BY DEF Deadlines
  <2>3. i \in Timers
    BY <1>1, <1>2, <1>3, TailFacts DEF Wheels
  <2>4. timer[i].generation \in Generations
    BY <1>1, <1>2, <2>3 DEF Wheels, TimerRecords
  <2>5. d \in 0 .. MaxTime + Period /\ d \in Nat
    BY <2>2, TimerBounds
  <2> QED
    BY <2>1, <2>4, <2>5 DEF TimerRecords, Flags
<1> HIDE DEF new
<1>6. /\ WheelOK(w, Hand(i), pass.timer, adds + 1) /\ Later(Now, w) /\ i \in Timers /\ w.timer[i] = new
      /\ SpokesOK(w, pass.curTC, Arc(curSpoke, pass.lastSpoke), PassTime)
  <2>1. i = Head(Now.freeList) /\ Now.freeList # <<>> /\ new.generation = Now.timer[i].generation
    BY <1>2, <1>3, <1>5
  <2>2. w = Taken(Now, i, new)
    BY <1>2 DEF Taken
  <2> HIDE DEF i, w
  <2>3. /\ WheelOK(w, Hand(i), pass.timer, adds + 1) /\ Later(Now, w)
        /\ i \in Timers /\ w.timer[i] = new /\ SpokesKept(Now, w)
    BY <1>1, <1>3, <1>5, <2>1, <2>2, TakeOK
  <2> QED
    BY <1>1, <2>3 DEF SpokesKept
<1> HIDE DEF w, i
<1>7. w.timer[i].flags \cap {"FREE", "EXPIRED"} = {} /\ w.timer[i].deadlineTC = d
  BY <1>5, <1>6
<1>8. GoesRight(d, curTC, curSpoke, pass.curTC, Arc(curSpoke, pass.lastSpoke), PassTime)
  BY <1>1, <1>5, InsertHere
<1>9. /\ WheelOK(v, {}, pass.timer, adds + 1) /\ v.timer = w.timer /\ v.fate.issued = w.fate.issued
      /\ SpokesOK(v, pass.curTC, Arc(curSpoke, pass.lastSpoke), PassTime)
  BY <1>1, <1>6, <1>7, <1>8, InsertOK
<1> HIDE DEF v
<1>10. Later(Now, v)
  BY <1>6, <1>9 DEF Later
<1>11. CallersOK'
  BY <1>1, <1>3, <1>4, <1>10, CallersKept
<1> QED
  BY <1>3, <1>4, <1>9, <1>10, <1>11, WheelStep

(* A removal that returns TRUE.                                            *)
LEMMA DropRemoved ==
  ASSUME TimersInv, NEW i \in Timers, timer[i].flags \cap {"FREE", "EXPIRED"} = {},
         NEW v, v = Removed(Drop(Now, i), OneShots({i}))
  PROVE  /\ WheelOK(v, {}, pass.timer, adds) /\ Later(Now, v)
         /\ SpokesOK(v, pass.curTC, Arc(curSpoke, pass.lastSpoke), PassTime)
         /\ "FIRING" \notin timer[i].flags => Past(v, HandleOf(i))
<1> DEFINE u == Drop(Now, i)
           H == OneShots({i})
           h == <<i, Now.timer[i].generation>>
<1>1. /\ WheelOK(Now, {}, pass.timer, adds) /\ Now \in Wheels /\ adds \in 0 .. MaxAdds
      /\ SpokesOK(Now, pass.curTC, Arc(curSpoke, pass.lastSpoke), PassTime)
  BY DEF TimersInv, WheelOK, PassOK
<1>2. Now.timer = timer /\ h = HandleOf(i)
  BY DEF Now, HandleOf
<1>3. Now.timer[i].generation \in Generations /\ h \in Handles
  BY <1>1 DEF Wheels, TimerRecords, Handles
<1>4. /\ WheelOK(u, {}, pass.timer, adds) /\ Later(Now, u) /\ u.fate.fired = Now.fate.fired /\ Over(u, h)
      /\ "FIRING" \notin Now.timer[i].flags => Past(u, h)
      /\ SpokesKept(Now, u)
  BY <1>1, <1>2, DropOK
<1> HIDE DEF u
<1>5. H \in SUBSET Handles /\ \A x \in H : x = h
  BY <1>2, <1>3 DEF OneShots
<1>6. ~Over(Now, h)
  BY <1>2, <1>3, TimerBounds DEF Over, Past, Generations
<1>7. \A x \in H : ~Over(Now, x) /\ Over(u, x)
  BY <1>4, <1>5, <1>6
<1> HIDE DEF H
<1>8. v = Removed(u, H)
  BY DEF u, H
<1>9. WheelOK(v, {}, pass.timer, adds) /\ v.timer = u.timer /\ Later(Now, v)
  BY <1>1, <1>4, <1>5, <1>7, <1>8, RemovedOK
<1>10. SpokesOK(v, pass.curTC, Arc(curSpoke, pass.lastSpoke), PassTime)
  BY <1>1, <1>4, <1>8, HistorySpokes DEF SpokesKept, WheelOK
<1>11. "FIRING" \notin timer[i].flags => Past(v, HandleOf(i))
  BY <1>2, <1>4, <1>9 DEF Past
<1> QED
  BY <1>9, <1>10, <1>11

(* Timer_Remove keeps the invariant.                                       *)
LEMMA RemoveStep ==
  ASSUME TimersInv, NEW h \in Handles, Timer_Remove(h)
  PROVE  StepOK
<1> DEFINE v == Removed(Drop(Now, h[1]), OneShots({h[1]}))
<1>1. h[1] \in Timers /\ timer[h[1]].flags \cap {"FREE", "EXPIRED"} = {}
  BY DEF Timer_Remove, Found, Handles
<1>2. SetTo(v) /\ UNCHANGED <<curTC, curSpoke, now, pass, late>> /\ UNCHANGED caller /\ adds' = adds
  BY DEF Timer_Remove
<1>3. /\ WheelOK(v, {}, pass.timer, adds) /\ Later(Now, v)
      /\ SpokesOK(v, pass.curTC, Arc(curSpoke, pass.lastSpoke), PassTime)
  BY <1>1, DropRemoved
<1> HIDE DEF v
<1>4. adds' \in 0 .. MaxAdds /\ CallersOK
  BY <1>2 DEF TimersInv, PassOK
<1>5. CallersOK'
  BY <1>2, <1>3, <1>4, CallersKept
<1> QED
  BY <1>2, <1>3, <1>4, <1>5, WheelStep

(* Timer_ModifyTimeoutTC keeps the invariant.                              *)
LEMMA ModifyStep ==
  ASSUME TimersInv, NEW h \in Handles, NEW d \in Deadlines, Timer_ModifyTimeoutTC(h, d)
  PROVE  StepOK
<1> DEFINE i == h[1]
           u == Unlink(Now, {i})
           r == [u.timer[i] EXCEPT !.deadlineTC = d]
           w == Changed(u, i, r)
           v == TimerInsert(w, i, curTC, curSpoke)
<1>1. i \in Timers /\ timer[i].flags \cap {"FREE", "EXPIRED"} = {} /\ Now.timer = timer
  BY DEF Timer_ModifyTimeoutTC, Found, Handles, Now
<1>2. /\ WheelOK(Now, {}, pass.timer, adds) /\ Now \in Wheels /\ adds \in 0 .. MaxAdds /\ curSpoke \in Spokes
      /\ SpokesOK(Now, pass.curTC, Arc(curSpoke, pass.lastSpoke), PassTime) /\ CallersOK /\ PassOK
  BY DEF TimersInv, WheelOK, PassOK
<1>3. /\ UNCHANGED <<curTC, curSpoke, now, pass, late>> /\ UNCHANGED caller /\ adds' = adds
      /\ SetTo(TimerInsert([u EXCEPT !.timer[i].deadlineTC = d], i, curTC, curSpoke))
  BY DEF Timer_ModifyTimeoutTC
<1> HIDE DEF i
<1>4. WheelOK(u, Hand(i), pass.timer, adds) /\ u.timer = Now.timer /\ u.fate = Now.fate /\ SpokesKept(Now, u)
  BY <1>1, <1>2, UnlinkOK DEF Hand
<1>5. [u EXCEPT !.timer[i].deadlineTC = d] = w
  BY DEF Changed
<1>6. SetTo(v)
  BY <1>3, <1>5
<1> HIDE DEF u
<1>7. d \in 0 .. MaxTime /\ d \in Nat /\ d \in 0 .. MaxTime + Period
  BY TimerBounds DEF Deadlines
<1>8. Now.timer[i] \in TimerRecords
  BY <1>1, <1>2 DEF Wheels
<1>9. /\ r \in TimerRecords /\ r.deadlineTC = d /\ r.flags = timer[i].flags
      /\ r.generation = u.timer[i].generation
  BY <1>1, <1>4, <1>7, <1>8 DEF TimerRecords
<1> HIDE DEF r
<1>10. MayBecome(u, i, r, pass.timer, pass.timer)
  <2>1. FlagsOK(Now, {}, pass.timer)
    BY <1>2 DEF WheelOK
  <2> QED
    BY <1>1, <1>4, <1>9, <2>1 DEF MayBecome, FlagsOK
<1>11. /\ WheelOK(w, Hand(i), pass.timer, adds) /\ w.timer[i] = r /\ w.fate = u.fate /\ SpokesKept(u, w)
       /\ \A j \in Timers : j # i => w.timer[j] = u.timer[j]
  <2>1. w = Changed(u, i, r)
    OBVIOUS
  <2> HIDE DEF w
  <2> QED
    BY <1>1, <1>4, <1>10, <2>1, ChangeOK
<1> HIDE DEF w
<1>12. GoesRight(d, curTC, curSpoke, pass.curTC, Arc(curSpoke, pass.lastSpoke), PassTime)
  BY <1>2, <1>7, InsertHere
<1>13. SpokesOK(w, pass.curTC, Arc(curSpoke, pass.lastSpoke), PassTime)
  BY <1>2, <1>4, <1>11 DEF SpokesKept
<1>14. w.timer[i].flags \cap {"FREE", "EXPIRED"} = {} /\ w.timer[i].deadlineTC = d
  BY <1>1, <1>9, <1>11
<1>15. /\ WheelOK(v, {}, pass.timer, adds) /\ v.timer = w.timer /\ v.fate.issued = w.fate.issued
       /\ SpokesOK(v, pass.curTC, Arc(curSpoke, pass.lastSpoke), PassTime)
  BY <1>1, <1>2, <1>11, <1>12, <1>13, <1>14, InsertOK
<1> HIDE DEF v
<1>16. Later(Now, v)
  <2>1. \A j \in Timers : Now.timer[j].generation \in Nat
    BY <1>2, TimerBounds DEF Wheels, TimerRecords, Generations
  <2>2. \A j \in Timers : v.timer[j].generation = Now.timer[j].generation /\ v.timer[j].flags = Now.timer[j].flags
    BY <1>1, <1>4, <1>9, <1>11, <1>15
  <2>3. v.fate.issued = Now.fate.issued
    BY <1>4, <1>11, <1>15
  <2> QED
    BY <2>1, <2>2, <2>3 DEF Later
<1>17. CallersOK'
  BY <1>2, <1>3, <1>6, <1>16, CallersKept
<1> QED
  BY <1>2, <1>3, <1>6, <1>15, <1>16, <1>17, WheelStep

(* Timer_RemoveSync's look at the timer keeps the invariant.               *)
LEMMA LookStep ==
  ASSUME TimersInv, NEW c \in Callers, NEW h \in Handles, Issued(h), Look(c, h)
  PROVE  StepOK
<1> DEFINE i == h[1]
           here == HandleOf(i) = h /\ "FREE" \notin timer[i].flags
<1>1. /\ WheelOK(Now, {}, pass.timer, adds) /\ Now \in Wheels /\ adds \in 0 .. MaxAdds
      /\ SpokesOK(Now, pass.curTC, Arc(curSpoke, pass.lastSpoke), PassTime) /\ CallersOK /\ PassOK
  BY DEF TimersInv, WheelOK, PassOK
<1>2. /\ Now.timer = timer /\ Now.fate = fate /\ Now.freeList = freeList /\ Now.wheel = wheel /\ i \in Timers
      /\ h = <<i, h[2]>>
  BY DEF Now, Handles
<1>3. UNCHANGED <<curTC, curSpoke, now, pass, late>> /\ adds' = adds /\ adds' \in 0 .. MaxAdds
  BY <1>1 DEF Look
<1>4. \A j \in Timers : Now.timer[j].generation \in Nat
  BY <1>1, TimerBounds DEF Wheels, TimerRecords, Generations
<1>5. CASE here /\ "FIRING" \in timer[i].flags
  <2>1. caller' = [caller EXCEPT ![c] = [at |-> "spin", handle |-> h]] /\ UNCHANGED <<wheelVars, fate>>
    BY <1>5 DEF Look
  <2>2. SetTo(Now)
    BY <2>1 DEF SetTo, Now, wheelVars
  <2>3. Later(Now, Now)
    BY <1>4 DEF Later
  <2>4. CallersOK'
    BY <1>1, <2>1 DEF CallersOK, Issued
  <2> QED
    BY <1>1, <1>3, <2>2, <2>3, <2>4, WheelStep
<1>6. CASE ~(here /\ "FIRING" \in timer[i].flags)
  <2> DEFINE u == IF here /\ "EXPIRED" \notin timer[i].flags
                  THEN Removed(TimerFree(Unlink(Now, {i}), i), OneShots({i})) ELSE Now
             v == Synced(u, h)
  <2>1. caller' = [caller EXCEPT ![c] = IdleCaller] /\ SetTo(v)
    BY <1>6 DEF Look
  <2>2. /\ WheelOK(u, {}, pass.timer, adds) /\ Later(Now, u) /\ Past(u, h)
        /\ SpokesOK(u, pass.curTC, Arc(curSpoke, pass.lastSpoke), PassTime)
    <3>1. CASE here /\ "EXPIRED" \notin timer[i].flags
      <4>1. timer[i].flags \cap {"FREE", "EXPIRED"} = {} /\ "FIRING" \notin timer[i].flags
        BY <1>6, <3>1
      <4>2. u = Removed(Drop(Now, i), OneShots({i}))
        BY <1>2, <3>1, <4>1 DEF Drop
      <4> HIDE DEF u
      <4>3. /\ WheelOK(u, {}, pass.timer, adds) /\ Later(Now, u) /\ Past(u, HandleOf(i))
            /\ SpokesOK(u, pass.curTC, Arc(curSpoke, pass.lastSpoke), PassTime)
        BY <1>2, <4>1, <4>2, DropRemoved
      <4> QED
        BY <3>1, <4>3
    <3>2. CASE ~(here /\ "EXPIRED" \notin timer[i].flags)
      <4>1. u = Now
        BY <3>2
      <4>2. FatesOK(Now) /\ FlagsOK(Now, {}, pass.timer)
        BY <1>1 DEF WheelOK
      <4>3. ~here
        BY <1>2, <1>6, <3>2, <4>2 DEF FlagsOK
      <4>4. h \in Now.fate.issued
        BY <1>2 DEF Issued
      <4>5. Past(Now, h)
        BY <1>2, <4>2, <4>3, <4>4 DEF FatesOK, HandleOf
      <4>6. Later(Now, Now)
        BY <1>4 DEF Later
      <4> QED
        BY <1>1, <4>1, <4>5, <4>6
    <3> QED
      BY <3>1, <3>2
  <2> HIDE DEF u
  <2>3. /\ WheelOK(v, {}, pass.timer, adds) /\ v.fate.issued = u.fate.issued /\ v.timer = u.timer
        /\ SpokesOK(v, pass.curTC, Arc(curSpoke, pass.lastSpoke), PassTime)
    <3>1. WheelOK(v, {}, pass.timer, adds) /\ v.fate.issued = u.fate.issued
      BY <2>2, HistoryOK
    <3>2. SpokesOK(v, pass.curTC, Arc(curSpoke, pass.lastSpoke), PassTime)
      BY <2>2, HistorySpokes DEF WheelOK
    <3>3. v.timer = u.timer
      BY <2>2 DEF WheelOK, Wheels, Synced
    <3> QED
      BY <3>1, <3>2, <3>3
  <2> HIDE DEF v
  <2>4. Later(Now, v)
    BY <2>2, <2>3 DEF Later
  <2>5. CallersOK'
    <3>1. fate.issued \subseteq fate'.issued
      BY <1>2, <2>1, <2>4 DEF Later, SetTo
    <3>2. IdleCaller \in [at : {"idle", "look", "spin"}, handle : Handles] /\ IdleCaller.at = "idle"
      BY TimerBounds DEF IdleCaller, Handles, Timers, Generations
    <3> QED
      BY <1>1, <2>1, <3>1, <3>2 DEF CallersOK, Issued
  <2> QED
    BY <1>3, <2>1, <2>3, <2>4, <2>5, WheelStep
<1> QED
  BY <1>5, <1>6

(* A step that leaves the wheel alone.                                     *)
LEMMA SameWheel ==
  ASSUME TimersInv, UNCHANGED <<timer, freeList, wheel, fate>>
  PROVE  Now' = Now /\ Later(Now, Now')
<1>1. \A j \in Timers : Now.timer[j].generation \in Nat
  BY TimerBounds DEF TimersInv, WheelOK, Wheels, TimerRecords, Generations
<1>2. Now' = Now
  BY DEF Now
<1> QED
  BY <1>1, <1>2 DEF Later

(* A caller sees that the timer is not firing.                             *)
LEMMA SpinStep ==
  ASSUME TimersInv, NEW c \in Callers, SpinDone(c)
  PROVE  StepOK
<1>1. /\ UNCHANGED <<timer, freeList, wheel, fate>> /\ UNCHANGED <<curTC, curSpoke, now, pass, late>>
      /\ adds' = adds /\ caller[c].at = "spin" /\ caller' = [caller EXCEPT ![c].at = "look"]
  BY DEF SpinDone, wheelVars
<1>2. SetTo(Now)
  BY <1>1 DEF SetTo, Now
<1>3. /\ WheelOK(Now, {}, pass.timer, adds') /\ adds' \in 0 .. MaxAdds
      /\ SpokesOK(Now, pass.curTC, Arc(curSpoke, pass.lastSpoke), PassTime) /\ CallersOK
  BY <1>1 DEF TimersInv, PassOK
<1>4. Later(Now, Now)
  BY <1>1, SameWheel
<1>5. CallersOK'
  BY <1>1, <1>3 DEF CallersOK, Issued
<1> QED
  BY <1>1, <1>2, <1>3, <1>4, <1>5, WheelStep

(* Timer_Interrupt moves curTC on: the current spoke takes more timers.    *)
LEMMA InterruptStep ==
  ASSUME TimersInv, Timer_Interrupt
  PROVE  StepOK
<1>1. /\ UNCHANGED <<timer, freeList, wheel, fate>> /\ UNCHANGED <<curSpoke, now, pass, caller, adds>>
      /\ curTC' = now /\ late' = (late \/ IsFiring)
  BY DEF Timer_Interrupt, wheelVars
<1>2. Now' = Now /\ Later(Now, Now') /\ UNCHANGED fate
  BY <1>1, SameWheel
<1>3. /\ PassOK /\ CallersOK /\ WheelOK(Now, {}, pass.timer, adds)
      /\ SpokesOK(Now, pass.curTC, Arc(curSpoke, pass.lastSpoke), PassTime)
  BY DEF TimersInv
<1>4. PassOK'
  <2>1. curTC' \in 0 .. now' /\ pass'.curTC <= curTC'
    BY <1>1, <1>3, TimerBounds DEF PassOK
  <2>2. IsFiring' = IsFiring /\ late' \in BOOLEAN
    BY <1>1 DEF IsFiring
  <2> QED
    BY <1>1, <1>3, <2>1, <2>2 DEF PassOK
<1>5. CallersOK'
  BY <1>1, <1>2, <1>3 DEF CallersOK, Issued
<1>6. PassTime \in Nat /\ PassTime' \in Nat /\ PassTime <= PassTime'
  BY <1>1, <1>3, TimerBounds DEF PassTime, IsFiring, PassOK
<1>7. SpokesOK(Now, pass.curTC, Arc(curSpoke, pass.lastSpoke), PassTime')
  <2>1. \A j \in Timers : Now.timer[j].deadlineTC \in Nat
    BY <1>3, TimerBounds DEF WheelOK, Wheels, TimerRecords
  <2>2. \A j \in Timers : Now.timer[j].deadlineTC <= PassTime => Now.timer[j].deadlineTC <= PassTime'
    BY <1>6, <2>1
  <2> QED
    BY <1>3, <2>2 DEF SpokesOK
<1>8. WheelOK(Now', {}, pass'.timer, adds') /\ SpokesOK(Now', pass'.curTC, Arc(curSpoke', pass'.lastSpoke), PassTime')
  BY <1>1, <1>2, <1>3, <1>7
<1> QED
  BY <1>1, <1>2, <1>4, <1>5, <1>8 DEF StepOK, TimersInv

(* Time goes on.                                                           *)
LEMMA TickStep ==
  ASSUME TimersInv, Tick
  PROVE  StepOK
<1>1. /\ UNCHANGED <<timer, freeList, wheel, fate>> /\ UNCHANGED <<curTC, curSpoke, pass, caller, adds, late>>
      /\ now' = now + 1 /\ now < MaxTime /\ (now + 1) \div SpokeWidth - pass.curTC \div SpokeWidth < NumSpokes
  BY DEF Tick, wheelVars
<1>2. Now' = Now /\ Later(Now, Now')
  BY <1>1, SameWheel
<1>3. /\ PassOK /\ CallersOK /\ WheelOK(Now, {}, pass.timer, adds)
      /\ SpokesOK(Now, pass.curTC, Arc(curSpoke, pass.lastSpoke), PassTime)
  BY DEF TimersInv
<1>4. PassOK'
  <2>1. now' \div SpokeWidth - pass'.curTC \div SpokeWidth < NumSpokes
    BY <1>1
  <2>2. /\ curTC' \in 0 .. now' /\ now' \in 0 .. MaxTime
        /\ pass' \in [curTC : 0 .. now', lastSpoke : Spokes, timer : Timers \cup {NoTimer}]
    BY <1>1, <1>3, TimerBounds DEF PassOK
  <2> QED
    BY <1>1, <1>3, <2>1, <2>2 DEF PassOK, IsFiring
<1>5. CallersOK' /\ PassTime' = PassTime
  BY <1>1, <1>3 DEF CallersOK, Issued, PassTime, IsFiring
<1>6. WheelOK(Now', {}, pass'.timer, adds') /\ SpokesOK(Now', pass'.curTC, Arc(curSpoke', pass'.lastSpoke), PassTime')
  BY <1>1, <1>2, <1>3, <1>5
<1> QED
  BY <1>1, <1>2, <1>4, <1>5, <1>6 DEF StepOK, TimersInv

-------------------------------------------------------------------------------
(* A pass has come to spoke, and finds timer i due at time tc.             *)
FindsDue(w, i, n, tc, wheelTC, arc, spoke) ==
  /\ i \in Timers /\ n \in 0 .. MaxAdds /\ WheelOK(w, {}, NoTimer, n)
  /\ w.timer[i].flags \cap {"FREE", "EXPIRED"} = {}
  /\ tc \in 0 .. MaxTime /\ w.timer[i].deadlineTC <= tc /\ (late \/ wheelTC = tc)
  /\ spoke \in Spokes /\ spoke \in arc /\ SpokesOK(w, tc, arc, tc)

(* A due timer fires: a periodic one is on the wheel again where the pass  *)
(* or a later one finds it, a one-shot is over.                            *)
LEMMA FireOK ==
  ASSUME NEW w, NEW i, NEW n, NEW tc, NEW wheelTC, NEW arc, NEW spoke,
         FindsDue(w, i, n, tc, wheelTC, arc, spoke), NEW v, v = Fire(w, i, tc, wheelTC, spoke)
  PROVE  /\ WheelOK(v, {}, i, n) /\ Later(w, v) /\ SpokesOK(v, tc, arc, tc)
         /\ "ONE_SHOT" \in w.timer[i].flags => Over(v, <<i, w.timer[i].generation>>) /\ v.fate = w.fate
<1> DEFINE off == Unlink(w, {i})
           x == w.timer[i]
           next == x.deadlineTC + x.periodTC
           deadline == IF next < tc THEN tc + x.periodTC ELSE next
<1> USE DEF FindsDue
<1>1. /\ w \in Wheels /\ FlagsOK(w, {}, NoTimer) /\ \A j \in Timers : w.timer[j].generation \in Nat
      /\ x \in TimerRecords
  BY TimerBounds DEF WheelOK, Wheels, TimerRecords, Generations
<1>2. WheelOK(off, Hand(i), NoTimer, n) /\ off.timer = w.timer /\ off.fate = w.fate /\ SpokesKept(w, off)
  BY UnlinkOK DEF Hand
<1>3. \A j \in Timers : j # NoTimer
  BY TimerBounds DEF Timers, NoTimer
<1>4. "ONE_SHOT" \in x.flags <=> "PERIODIC" \notin x.flags
  BY <1>1 DEF FlagsOK
<1>5. x.deadlineTC \in Nat /\ x.periodTC \in Nat /\ x.periodTC <= Period /\ tc \in Nat /\ tc <= MaxTime
  BY <1>1, TimerBounds DEF TimerRecords
<1> HIDE DEF off, x
<1>6. CASE "PERIODIC" \in x.flags
  <2> DEFINE r == [x EXCEPT !.deadlineTC = deadline, !.flags = @ \cup {"FIRING"}]
             c == Changed(off, i, r)
  <2>1. deadline \in 0 .. MaxTime + Period /\ deadline \in Nat /\ deadline >= tc
    BY <1>5, TimerBounds DEF x
  <2>2. v = TimerInsert(c, i, wheelTC, spoke)
    <3>1. v = TimerInsert([off EXCEPT !.timer[i] = r], i, wheelTC, spoke)
      BY <1>6 DEF Fire, off, x
    <3> QED
      BY <3>1 DEF Changed
  <2> HIDE DEF deadline
  <2>3. /\ r \in TimerRecords /\ r.deadlineTC = deadline /\ r.flags = x.flags \cup {"FIRING"}
        /\ r.generation = x.generation
    BY <1>1, <2>1 DEF TimerRecords, Flags
  <2>4. c = Changed(off, i, r)
    OBVIOUS
  <2> HIDE DEF r, c
  <2>5. MayBecome(off, i, r, NoTimer, i)
    BY <1>2, <1>3, <1>4, <2>3 DEF MayBecome, x
  <2>6. /\ WheelOK(c, Hand(i), i, n) /\ c.timer[i] = r /\ (\A j \in Timers : j # i => c.timer[j] = off.timer[j])
        /\ c.fate = off.fate /\ SpokesKept(off, c)
    BY <1>2, <2>4, <2>5, ChangeOK
  <2>7. SpokesOK(c, tc, arc, tc)
    BY <1>2, <2>6 DEF SpokesKept
  <2>8. GoesRight(deadline, wheelTC, spoke, tc, arc, tc)
    BY <1>5, <2>1 DEF GoesRight
  <2>9. c.timer[i].flags \cap {"FREE", "EXPIRED"} = {} /\ c.timer[i].deadlineTC = deadline
    BY <2>3, <2>6 DEF x
  <2>10. /\ WheelOK(v, {}, i, n) /\ v.timer = c.timer /\ v.fate.issued = c.fate.issued
         /\ SpokesOK(v, tc, arc, tc)
    BY <2>2, <2>6, <2>7, <2>8, <2>9, InsertOK
  <2>11. Later(w, v)
    <3>1. \A j \in Timers : v.timer[j].generation = w.timer[j].generation /\ w.timer[j].flags \subseteq v.timer[j].flags
      BY <1>2, <2>3, <2>6, <2>10 DEF x
    <3>2. v.fate.issued = w.fate.issued
      BY <1>2, <2>6, <2>10
    <3> QED
      BY <1>1, <3>1, <3>2 DEF Later
  <2> QED
    BY <1>4, <1>6, <2>10, <2>11 DEF x
<1>7. CASE "PERIODIC" \notin x.flags
  <2> DEFINE r == [x EXCEPT !.flags = @ \cup {"FIRING", "EXPIRED"}]
             c == Changed(off, i, r)
  <2>1. v = c /\ c = Changed(off, i, r)
    BY <1>2, <1>7 DEF Fire, Changed, off, x
  <2>2. r \in TimerRecords /\ r.flags = x.flags \cup {"FIRING", "EXPIRED"} /\ r.generation = x.generation
    BY <1>1 DEF TimerRecords, Flags
  <2> HIDE DEF r, c
  <2>3. MayBecome(off, i, r, NoTimer, i)
    BY <1>2, <1>3, <1>4, <2>2 DEF MayBecome, x
  <2>4. /\ WheelOK(v, Hand(i), i, n) /\ v.timer[i] = r /\ (\A j \in Timers : j # i => v.timer[j] = off.timer[j])
        /\ v.fate = off.fate /\ SpokesKept(off, v)
    <3>1. /\ WheelOK(c, Hand(i), i, n) /\ c.timer[i] = r /\ (\A j \in Timers : j # i => c.timer[j] = off.timer[j])
          /\ c.fate = off.fate /\ SpokesKept(off, c)
      BY <1>2, <2>1, <2>3, ChangeOK
    <3> QED
      BY <2>1, <3>1, Zenon
  <2>5. "EXPIRED" \in v.timer[i].flags /\ "FREE" \notin v.timer[i].flags
    BY <2>2, <2>4 DEF x
  <2>6. WheelOK(v, {}, i, n)
    BY <2>4, <2>5, HoldOK
  <2>7. SpokesOK(v, tc, arc, tc)
    BY <1>2, <2>4 DEF SpokesKept
  <2>8. Later(w, v)
    <3>1. \A j \in Timers : v.timer[j].generation = w.timer[j].generation /\ w.timer[j].flags \subseteq v.timer[j].flags
      BY <1>2, <2>2, <2>4 DEF x
    <3>2. v.fate.issued = w.fate.issued
      BY <1>2, <2>4
    <3> QED
      BY <1>1, <3>1, <3>2 DEF Later
  <2>9. Over(v, <<i, w.timer[i].generation>>)
    BY <2>2, <2>4, <2>5 DEF Over, x
  <2> QED
    BY <1>2, <2>4, <2>6, <2>7, <2>8, <2>9
<1> QED
  BY <1>6, <1>7

(* When the first timer of a spoke is not due, none of them is.            *)
LEMMA NoneDueHere ==
  ASSUME NEW w, NEW p, NEW n, WheelOK(w, {}, p, n), NEW s \in Spokes, NEW tc \in Nat,
         ~(w.wheel[s] # <<>> /\ w.timer[Head(w.wheel[s])].deadlineTC <= tc)
  PROVE  \A i \in Timers : In(w.wheel[s], i) => w.timer[i].deadlineTC > tc
<1> DEFINE l == w.wheel[s]
           d(k) == w.timer[l[k]].deadlineTC
<1>1. /\ l \in Seq(Timers) /\ Ascending(w, l) /\ \A j \in Timers : w.timer[j].deadlineTC \in Nat
  BY TimerBounds DEF WheelOK, Wheels, ListsOK, TimerRecords
<1> SUFFICES ASSUME NEW i \in Timers, In(l, i) PROVE w.timer[i].deadlineTC > tc
  OBVIOUS
<1> HIDE DEF l
<1>2. PICK k \in 1 .. Len(l) : l[k] = i
  BY DEF In
<1>3. Len(l) \in Nat /\ \A a \in 1 .. Len(l) : l[a] \in Timers
  BY <1>1, LenProperties, ElementOfSeq
<1>4. l # <<>> /\ 1 \in 1 .. Len(l) /\ Head(l) = l[1]
  BY <1>1, <1>2, <1>3, EmptySeq
<1>5. d(1) \in Nat /\ d(k) \in Nat /\ d(1) > tc
  BY <1>1, <1>3, <1>4 DEF l
<1>6. k = 1 \/ 1 < k
  BY <1>3
<1>7. ASSUME 1 < k PROVE d(1) <= d(k)
  BY <1>1, <1>4, <1>7 DEF Ascending
<1> QED
  BY <1>2, <1>5, <1>6, <1>7

(* The spokes that a pass has ahead.                                       *)
LEMMA AheadFacts ==
  ASSUME curSpoke \in Spokes, NEW last \in Spokes
  PROVE  /\ Ahead(last) = 0 .. Distance(curSpoke, last)
         /\ \A k \in Ahead(last) : SpokeAt(k) = Further(curSpoke, k) /\ SpokeAt(k) \in Spokes
<1>1. Ahead(last) = 0 .. Distance(curSpoke, last)
  BY SpokeFacts DEF Ahead
<1>2. ASSUME NEW k \in 0 .. Distance(curSpoke, last)
      PROVE  SpokeAt(k) = Further(curSpoke, k) /\ Further(curSpoke, k) \in Spokes
  <2>1. k \in 0 .. NumSpokes - 1
    BY ArcFacts, TimerBounds
  <2>2. SpokeAt(k) = Further(curSpoke, k)
    BY <2>1, SpokeFacts DEF SpokeAt
  <2> QED
    BY <2>2, ArcMoves
<1> QED
  BY <1>1, <1>2

(* From a state with all timers where they are found: on to the next       *)
(* callback with the timers that are due still ahead, or to the end of the *)
(* pass with none of them left.                                            *)
LEMMA AdvanceOK ==
  ASSUME curSpoke \in Spokes, NEW w, NEW n \in 0 .. MaxAdds, WheelOK(w, {}, NoTimer, n), NEW last \in Spokes,
         NEW tc \in 0 .. MaxTime, SpokesOK(w, tc, Arc(curSpoke, last), tc), NEW wheelTC, late \/ wheelTC = tc,
         Advance(w, tc, last, wheelTC)
  PROVE  /\ WheelOK(Now', {}, pass'.timer, n) /\ Later(w, Now')
         /\ pass'.timer \in Timers \cup {NoTimer} /\ curSpoke' \in Spokes
         /\ pass' = [curTC |-> tc, lastSpoke |-> last, timer |-> pass'.timer]
         /\ pass'.timer = NoTimer =>
              curSpoke' = last /\ NoneDue(Now', tc) /\ \A arc, t : SpokesOK(Now', tc, arc, t)
         /\ pass'.timer # NoTimer => SpokesOK(Now', tc, Arc(curSpoke', last), tc)
<1> DEFINE ks == Due(w, tc, last)
           due(s) == w.wheel[s] # <<>> /\ w.timer[Head(w.wheel[s])].deadlineTC <= tc
<1>1. /\ w \in Wheels /\ ListsOK(w, {}) /\ FlagsOK(w, {}, NoTimer) /\ FatesOK(w) /\ tc \in Nat
      /\ \A j \in Timers : w.timer[j].generation \in Nat /\ w.timer[j].deadlineTC \in Nat
  BY TimerBounds DEF WheelOK, Wheels, TimerRecords, Generations
<1>2. /\ Ahead(last) = 0 .. Distance(curSpoke, last)
      /\ \A k \in Ahead(last) : SpokeAt(k) = Further(curSpoke, k) /\ SpokeAt(k) \in Spokes
  BY AheadFacts
<1>3. ks \in SUBSET Nat /\ \A k \in 0 .. Distance(curSpoke, last) : k \in ks <=> due(Further(curSpoke, k))
  <2>1. ks \subseteq Ahead(last) /\ \A k \in Ahead(last) : k \in ks <=> due(SpokeAt(k))
    BY DEF Due
  <2> HIDE DEF ks, due
  <2>2. Distance(curSpoke, last) \in Nat
    BY ArcFacts, TimerBounds
  <2>3. ks \in SUBSET Nat
    BY <1>2, <2>1, <2>2
  <2> QED
    BY <1>2, <2>1, <2>3
<1> HIDE DEF ks
<1>4. \A s \in Spokes : ~due(s) => \A i \in Timers : In(w.wheel[s], i) => w.timer[i].deadlineTC > tc
  BY <1>1, NoneDueHere
<1>5. \A s \in Arc(curSpoke, last) :
        /\ s \in Spokes /\ Distance(curSpoke, s) \in 0 .. Distance(curSpoke, last)
        /\ Further(curSpoke, Distance(curSpoke, s)) = s
  BY ArcFacts DEF Arc
<1>6. \A s \in Arc(curSpoke, last) :
        Distance(curSpoke, s) \notin ks => \A i \in Timers : In(w.wheel[s], i) => w.timer[i].deadlineTC > tc
  BY <1>3, <1>4, <1>5, Zenon
<1>7. CASE ks = {}
  <2>1. SetTo(w) /\ curSpoke' = last /\ pass' = [curTC |-> tc, lastSpoke |-> last, timer |-> NoTimer]
    BY <1>7 DEF Advance, ks
  <2>2. Now' = w
    BY <1>1, <2>1, NowIs
  <2>3. Later(w, w)
    BY <1>1 DEF Later
  <2>4. ASSUME NEW s \in Spokes, NEW i \in Timers, In(w.wheel[s], i), <<i, w.timer[i].generation>> \notin w.fate.stray
        PROVE  w.timer[i].deadlineTC > tc /\ s = TimerTCToSpoke(w.timer[i].deadlineTC)
    <3>1. ASSUME s \in Arc(curSpoke, last) PROVE w.timer[i].deadlineTC > tc
      BY <1>6, <1>7, <2>4, <3>1
    <3>2. \/ s = TimerTCToSpoke(w.timer[i].deadlineTC) /\ w.timer[i].deadlineTC > tc
          \/ s \in Arc(curSpoke, last) /\ (s = TimerTCToSpoke(w.timer[i].deadlineTC) \/ w.timer[i].deadlineTC <= tc)
      BY <2>4 DEF SpokesOK
    <3>3. w.timer[i].deadlineTC \in Nat
      BY <1>1
    <3> QED
      BY <1>1, <3>1, <3>2, <3>3
  <2>5. NoneDue(w, tc)
    BY <2>4 DEF NoneDue
  <2>6. \A arc, t : SpokesOK(w, tc, arc, t)
    BY <2>4 DEF SpokesOK
  <2> QED
    BY <2>1, <2>2, <2>3, <2>5, <2>6
<1>8. CASE ks # {}
  <2> DEFINE k == CHOOSE j \in ks : \A l \in ks : j <= l
             s == SpokeAt(k)
             i == Head(w.wheel[s])
             h == <<i, w.timer[i].generation>>
             f == Fire(w, i, tc, wheelTC, s)
             v == IF "ONE_SHOT" \in w.timer[i].flags THEN Fired(f, h) ELSE f
  <2>1. SetTo(v) /\ curSpoke' = s /\ pass' = [curTC |-> tc, lastSpoke |-> last, timer |-> i]
    BY <1>8 DEF Advance, ks
  <2>2. k \in ks /\ \A l \in ks : k <= l
    BY <1>3, <1>8, LeastExists
  <2> HIDE DEF k
  <2>3. k \in 0 .. Distance(curSpoke, last) /\ s = Further(curSpoke, k) /\ s \in Spokes /\ due(s)
    <3>1. k \in Ahead(last)
      BY <2>2 DEF ks, Due
    <3> QED
      BY <1>2, <1>3, <2>2, <3>1
  <2> HIDE DEF s
  <2>4. /\ s \in Arc(s, last) /\ Arc(s, last) \subseteq Arc(curSpoke, last)
        /\ \A u \in Arc(curSpoke, last) : u \in Arc(s, last) \/ Distance(curSpoke, u) < k
    BY <2>3, ArcMoves, ArcFacts
  <2>5. SpokesOK(w, tc, Arc(s, last), tc)
    <3> SUFFICES ASSUME NEW u \in Spokes, NEW j \in Timers, In(w.wheel[u], j),
                        <<j, w.timer[j].generation>> \notin w.fate.stray
                 PROVE  LET d == w.timer[j].deadlineTC
                        IN \/ u = TimerTCToSpoke(d) /\ d > tc
                           \/ u \in Arc(s, last) /\ (u = TimerTCToSpoke(d) \/ d <= tc)
      BY DEF SpokesOK
    <3> DEFINE d == w.timer[j].deadlineTC
    <3>1. \/ u = TimerTCToSpoke(d) /\ d > tc
          \/ u \in Arc(curSpoke, last) /\ (u = TimerTCToSpoke(d) \/ d <= tc)
      BY DEF SpokesOK
    <3>2. ASSUME u \in Arc(curSpoke, last), u \notin Arc(s, last) PROVE d > tc
      <4>1. Distance(curSpoke, u) < k /\ Distance(curSpoke, u) \in Nat /\ k \in Nat
        BY <1>5, <2>3, <2>4, <3>2, ArcFacts
      <4>2. Distance(curSpoke, u) \notin ks
        BY <2>2, <4>1
      <4> QED
        BY <1>6, <3>2, <4>2
    <3>3. d \in Nat
      BY <1>1
    <3> HIDE DEF d
    <3>4. d > tc => ~(d <= tc)
      BY <1>1, <3>3
    <3> QED
      BY <3>1, <3>2, <3>4 DEF d
  <2>6. /\ i \in Timers /\ In(w.wheel[s], i) /\ w.timer[i].deadlineTC <= tc
        /\ w.timer[i].flags \cap {"FREE", "EXPIRED"} = {}
    <3>1. w.wheel[s] \in Seq(Timers) /\ w.wheel[s] # <<>>
      BY <1>1, <2>3 DEF Wheels
    <3>2. i \in Timers /\ In(w.wheel[s], i)
      BY <3>1, TailFacts
    <3> QED
      BY <1>1, <2>3, <3>2 DEF ListsOK
  <2> HIDE DEF i
  <2>7. /\ WheelOK(f, {}, i, n) /\ Later(w, f) /\ SpokesOK(f, tc, Arc(s, last), tc)
        /\ "ONE_SHOT" \in w.timer[i].flags => Over(f, h) /\ f.fate = w.fate
    <3>1. f = Fire(w, i, tc, wheelTC, s)
      OBVIOUS
    <3>2. FindsDue(w, i, n, tc, wheelTC, Arc(s, last), s)
      BY <2>3, <2>4, <2>5, <2>6 DEF FindsDue
    <3> HIDE DEF f
    <3> QED
      BY <3>1, <3>2, FireOK
  <2> HIDE DEF f
  <2>8. WheelOK(v, {}, i, n) /\ Later(w, v) /\ SpokesOK(v, tc, Arc(s, last), tc)
    <3>1. CASE "ONE_SHOT" \in w.timer[i].flags
      <4>1. h \in Handles
        BY <1>1, <2>6 DEF Wheels, TimerRecords, Handles
      <4>2. ~Over(w, h)
        BY <1>1, <2>6 DEF Over, Past
      <4>3. h \notin f.fate.removed
        BY <1>1, <2>7, <3>1, <4>2 DEF FatesOK
      <4>4. v = Fired(f, h)
        BY <3>1
      <4> HIDE DEF v
      <4>5. WheelOK(v, {}, i, n) /\ v.fate.issued = f.fate.issued
        BY <2>7, <3>1, <4>1, <4>3, <4>4, HistoryOK
      <4>6. v.timer = f.timer
        BY <2>7, <4>4 DEF WheelOK, Wheels, Fired
      <4>7. SpokesOK(v, tc, Arc(s, last), tc)
        BY <2>7, <4>4, HistorySpokes DEF WheelOK
      <4>8. Later(w, v)
        BY <2>7, <4>5, <4>6 DEF Later
      <4> QED
        BY <4>5, <4>7, <4>8
    <3>2. CASE "ONE_SHOT" \notin w.timer[i].flags
      BY <2>7, <3>2
    <3> QED
      BY <3>1, <3>2
  <2> HIDE DEF v
  <2>9. Now' = v
    BY <2>1, <2>8, NowIs DEF WheelOK
  <2>10. i # NoTimer /\ pass'.timer = i
    BY <2>1, <2>6, TimerBounds DEF Timers, NoTimer
  <2> QED
    BY <2>1, <2>3, <2>6, <2>8, <2>9, <2>10
<1> QED
  BY <1>7, <1>8

(* Timer_BHHandler begins a pass: every timer that has become due since    *)
(* the last one lies on the arc from the spoke of that one.                *)
LEMMA BeginStep ==
  ASSUME TimersInv, Timer_BHHandler
  PROVE  StepOK
<1> DEFINE last == TimerTCToSpoke(now)
<1>1. /\ PassOK /\ CallersOK /\ WheelOK(Now, {}, pass.timer, adds)
      /\ SpokesOK(Now, pass.curTC, Arc(curSpoke, pass.lastSpoke), PassTime)
  BY DEF TimersInv
<1>2. /\ pass.timer = NoTimer /\ ~IsFiring /\ curTC' = now /\ late' = FALSE /\ UNCHANGED <<now, caller, adds>>
      /\ Advance(Now, now, last, now)
  BY DEF Timer_BHHandler, IsFiring
<1>3. /\ curSpoke \in Spokes /\ curSpoke = pass.lastSpoke /\ pass.lastSpoke = TimerTCToSpoke(pass.curTC)
      /\ pass.curTC \in Nat /\ pass.curTC <= curTC /\ curTC \in Nat /\ curTC <= now /\ now \in Nat
      /\ now \in 0 .. MaxTime /\ adds \in 0 .. MaxAdds /\ ~late /\ PassTime = curTC
      /\ now \div SpokeWidth - pass.curTC \div SpokeWidth < NumSpokes
  BY <1>1, <1>2, TimerBounds DEF PassOK, PassTime
<1>4. last \in Spokes
  BY <1>3, SpokeFacts
<1>5. SpokesOK(Now, now, Arc(curSpoke, last), now)
  <2> SUFFICES ASSUME NEW u \in Spokes, NEW j \in Timers, In(Now.wheel[u], j),
                      <<j, Now.timer[j].generation>> \notin Now.fate.stray
               PROVE  LET d == Now.timer[j].deadlineTC
                      IN \/ u = TimerTCToSpoke(d) /\ d > now
                         \/ u \in Arc(curSpoke, last) /\ (u = TimerTCToSpoke(d) \/ d <= now)
    BY DEF SpokesOK
  <2> DEFINE d == Now.timer[j].deadlineTC
  <2>1. \/ u = TimerTCToSpoke(d) /\ d > pass.curTC
        \/ u \in Arc(curSpoke, pass.lastSpoke) /\ (u = TimerTCToSpoke(d) \/ d <= curTC)
    BY <1>1, <1>3 DEF SpokesOK
  <2>2. d \in Nat
    BY <1>1, TimerBounds DEF WheelOK, Wheels, TimerRecords
  <2> HIDE DEF d
  <2>3. ASSUME u = TimerTCToSpoke(d), d > pass.curTC, d <= now PROVE u \in Arc(curSpoke, last)
    <3>1. pass.curTC <= d
      BY <1>3, <2>2, <2>3
    <3> HIDE DEF last
    <3>2. TimerTCToSpoke(d) \in Arc(TimerTCToSpoke(pass.curTC), TimerTCToSpoke(now))
      BY <1>3, <2>2, <2>3, <3>1, ArcOfTimes
    <3> QED
      BY <1>3, <2>3, <3>2, Zenon DEF last
  <2>4. ASSUME u \in Arc(curSpoke, pass.lastSpoke) PROVE u \in Arc(curSpoke, last)
    BY <1>3, <1>4, <2>4, ArcFacts
  <2>5. (d > now \/ d <= now) /\ (d <= curTC => d <= now)
    BY <1>3, <2>2
  <2> HIDE DEF last
  <2> QED
    BY <2>1, <2>3, <2>4, <2>5 DEF d
<1> HIDE DEF last
<1>6. /\ WheelOK(Now', {}, pass'.timer, adds) /\ Later(Now, Now')
      /\ pass'.timer \in Timers \cup {NoTimer} /\ curSpoke' \in Spokes
      /\ pass' = [curTC |-> now, lastSpoke |-> last, timer |-> pass'.timer]
      /\ pass'.timer = NoTimer =>
           curSpoke' = last /\ NoneDue(Now', now) /\ \A arc, t : SpokesOK(Now', now, arc, t)
      /\ pass'.timer # NoTimer => SpokesOK(Now', now, Arc(curSpoke', last), now)
  BY <1>1, <1>2, <1>3, <1>4, <1>5, AdvanceOK
<1>7. pass'.curTC = now /\ pass'.lastSpoke = last /\ (IsFiring' <=> pass'.timer # NoTimer)
  BY <1>6 DEF IsFiring
<1>8. PassOK'
  <2>1. /\ pass' \in [curTC : 0 .. now', lastSpoke : Spokes, timer : Timers \cup {NoTimer}]
        /\ curTC' \in 0 .. now' /\ now' \in 0 .. MaxTime /\ pass'.curTC <= curTC' /\ adds' \in 0 .. MaxAdds
    BY <1>2, <1>3, <1>4, <1>6, <1>7
  <2>2. now' \div SpokeWidth - pass'.curTC \div SpokeWidth < NumSpokes
    <3>1. now \div SpokeWidth \in Int
      BY <1>3, DivMod, TimerBounds
    <3> DEFINE q == now \div SpokeWidth
    <3>2. now' \div SpokeWidth = q /\ pass'.curTC \div SpokeWidth = q
      BY <1>2, <1>7
    <3> HIDE DEF q
    <3>3. q - q < NumSpokes
      BY <3>1, TimerBounds DEF q
    <3> QED
      BY <3>2, <3>3
  <2>3. pass'.lastSpoke = TimerTCToSpoke(pass'.curTC)
    BY <1>7 DEF last
  <2>4. (~IsFiring' => curSpoke' = pass'.lastSpoke) /\ curTC' = pass'.curTC /\ late' = FALSE /\ curSpoke' \in Spokes
    BY <1>2, <1>6, <1>7
  <2> QED
    BY <2>1, <2>2, <2>3, <2>4 DEF PassOK
<1>9. CallersOK'
  <2>1. fate.issued \subseteq fate'.issued
    BY <1>6 DEF Later, Now
  <2> QED
    BY <1>1, <1>2, <2>1 DEF CallersOK, Issued
<1>10. SpokesOK(Now', pass'.curTC, Arc(curSpoke', pass'.lastSpoke), PassTime')
  <2>1. IsFiring' => PassTime' = now
    BY <1>7 DEF PassTime
  <2> QED
    BY <1>6, <1>7, <2>1
<1>11. WheelOK(Now', {}, pass'.timer, adds') /\ TimersInv'
  BY <1>2, <1>6, <1>8, <1>9, <1>10 DEF TimersInv
<1> QED
  BY <1>6, <1>7, <1>11 DEF StepOK

(* One step after another.                                                 *)
LEMMA LaterTwice ==
  ASSUME NEW w \in Wheels, NEW u \in Wheels, NEW v \in Wheels, Later(w, u), Later(u, v)
  PROVE  Later(w, v)
<1>1. \A i \in Timers : /\ w.timer[i].generation \in Nat /\ u.timer[i].generation \in Nat
                        /\ v.timer[i].generation \in Nat
  BY TimerBounds DEF Wheels, TimerRecords, Generations
<1>2. w.fate.issued \subseteq v.fate.issued
  BY DEF Later
<1>3. ASSUME NEW i \in Timers
      PROVE  /\ w.timer[i].generation <= v.timer[i].generation
             /\ w.timer[i].generation = v.timer[i].generation /\ "EXPIRED" \in w.timer[i].flags =>
                  "EXPIRED" \in v.timer[i].flags
  <2> DEFINE a == w.timer[i].generation  b == u.timer[i].generation  c == v.timer[i].generation
  <2>1. a \in Nat /\ b \in Nat /\ c \in Nat /\ a <= b /\ b <= c
    BY <1>1 DEF Later
  <2>2. a <= c /\ (a = c => a = b /\ b = c)
    BY <2>1
  <2> QED
    BY <2>2 DEF Later
<1> QED
  BY <1>2, <1>3 DEF Later

(* A callback has returned: the timer stays on the wheel or is freed.      *)
LEMMA ReturnOK ==
  ASSUME TimersInv, IsFiring,
         NEW v, v = IF "EXPIRED" \in timer[pass.timer].flags
                    THEN TimerFree(Quiet(Now, pass.timer), pass.timer) ELSE Quiet(Now, pass.timer)
  PROVE  WheelOK(v, {}, NoTimer, adds) /\ Later(Now, v) /\ SpokesKept(Now, v)
<1> DEFINE i == pass.timer
           u == Quiet(Now, i)
<1>1. i \in Timers /\ i # NoTimer /\ adds \in 0 .. MaxAdds
  BY DEF TimersInv, PassOK, IsFiring
<1>2. WheelOK(Now, {}, i, adds) /\ Now.timer = timer
  BY DEF TimersInv, Now
<1>3. /\ Now \in Wheels /\ FlagsOK(Now, {}, i) /\ timer[i] \in TimerRecords
      /\ \A j \in Timers : Now.timer[j].generation \in Nat
  BY <1>1, <1>2, TimerBounds DEF WheelOK, Wheels, TimerRecords, Generations
<1>4. /\ "FREE" \notin timer[i].flags /\ ("ONE_SHOT" \in timer[i].flags <=> "PERIODIC" \notin timer[i].flags)
  BY <1>1, <1>2, <1>3 DEF FlagsOK
<1>5. u = Quiet(Now, i) /\ v = IF "EXPIRED" \in timer[i].flags THEN TimerFree(u, i) ELSE u
  OBVIOUS
<1> HIDE DEF i, u
<1>6. CASE "EXPIRED" \notin timer[i].flags
  <2>1. WheelOK(u, {}, NoTimer, adds) /\ Later(Now, u) /\ SpokesKept(Now, u)
    BY <1>1, <1>2, <1>5, <1>6, ClearOK
  <2> QED
    BY <1>5, <1>6, <2>1
<1>7. CASE "EXPIRED" \in timer[i].flags
  <2> DEFINE r == [timer[i] EXCEPT !.flags = @ \ {"FIRING"}]
  <2>1. r \in TimerRecords /\ r.flags = timer[i].flags \ {"FIRING"} /\ r.generation = timer[i].generation
    BY <1>3 DEF TimerRecords, Flags
  <2>2. u = Changed(Now, i, r)
    BY <1>2, <1>5 DEF Quiet, Changed
  <2> HIDE DEF r
  <2>3. WheelOK(Now, Hand(i), i, adds)
    BY <1>1, <1>2, <1>4, <1>7, HoldOK
  <2>4. MayBecome(Now, i, r, i, NoTimer)
    <3>1. \A j \in Timers : j # NoTimer
      BY TimerBounds DEF Timers, NoTimer
    <3> QED
      BY <1>1, <1>2, <1>4, <1>7, <2>1, <3>1 DEF MayBecome
  <2>5. /\ WheelOK(u, Hand(i), NoTimer, adds) /\ u.timer[i] = r /\ u.fate = Now.fate /\ SpokesKept(Now, u)
        /\ \A j \in Timers : j # i => u.timer[j] = Now.timer[j]
    <3> DEFINE o == Now
    <3>1. u = Changed(o, i, r) /\ WheelOK(o, Hand(i), i, adds) /\ MayBecome(o, i, r, i, NoTimer)
      BY <2>2, <2>3, <2>4
    <3> HIDE DEF o
    <3>2. /\ WheelOK(u, Hand(i), NoTimer, adds) /\ u.timer[i] = r /\ u.fate = o.fate /\ SpokesKept(o, u)
          /\ \A j \in Timers : j # i => u.timer[j] = o.timer[j]
      BY <1>1, <3>1, ChangeOK, SMTT(40)
    <3> QED
      BY <3>2 DEF o
  <2>6. v = TimerFree(u, i)
    BY <1>5, <1>7
  <2>7. /\ WheelOK(v, {}, NoTimer, adds) /\ v.timer[i] = FreeTimer(u.timer[i].generation + 1) /\ SpokesKept(u, v)
        /\ (\A j \in Timers : j # i => v.timer[j] = u.timer[j])
        /\ v.fate = [u.fate EXCEPT !.stray = @ \ {<<i, u.timer[i].generation>>}]
    BY <1>1, <2>5, <2>6, FreeOK
  <2>8. SpokesKept(Now, v)
    BY <2>5, <2>7 DEF SpokesKept
  <2>9. v.timer[i].generation = Now.timer[i].generation + 1
    BY <1>2, <2>1, <2>5, <2>7 DEF FreeTimer
  <2>10. v.fate.issued = Now.fate.issued
    <3>1. Now.fate \in Fates
      BY <1>3 DEF Wheels
    <3> QED
      BY <2>5, <2>7, <3>1 DEF Fates
  <2>11. Later(Now, v)
    BY <1>1, <1>3, <2>5, <2>7, <2>9, <2>10 DEF Later
  <2> QED
    BY <2>7, <2>8, <2>11
<1> QED
  BY <1>6, <1>7

(* CallbackReturns keeps the invariant: what was ahead is still ahead.     *)
LEMMA ReturnStep ==
  ASSUME TimersInv, CallbackReturns
  PROVE  StepOK
<1> DEFINE v == IF "EXPIRED" \in timer[pass.timer].flags
                THEN TimerFree(Quiet(Now, pass.timer), pass.timer) ELSE Quiet(Now, pass.timer)
           tc == pass.curTC
           last == pass.lastSpoke
<1>1. /\ PassOK /\ CallersOK /\ WheelOK(Now, {}, pass.timer, adds)
      /\ SpokesOK(Now, tc, Arc(curSpoke, last), PassTime)
  BY DEF TimersInv
<1>2. /\ IsFiring /\ UNCHANGED <<curTC, now, caller, adds>> /\ late' = (late /\ pass'.timer # NoTimer)
      /\ Advance(v, tc, last, curTC)
  BY DEF CallbackReturns, Quiet
<1>3. WheelOK(v, {}, NoTimer, adds) /\ Later(Now, v) /\ SpokesKept(Now, v)
  BY <1>2, ReturnOK
<1> HIDE DEF v
<1>4. /\ curSpoke \in Spokes /\ last \in Spokes /\ tc \in 0 .. MaxTime /\ adds \in 0 .. MaxAdds
      /\ (late \/ curTC = tc) /\ PassTime = tc
  BY <1>1, <1>2, TimerBounds DEF PassOK, PassTime
<1>5. SpokesOK(v, tc, Arc(curSpoke, last), tc)
  BY <1>1, <1>3, <1>4 DEF SpokesKept
<1>6. tc = pass.curTC /\ last = pass.lastSpoke
  OBVIOUS
<1> HIDE DEF tc, last
<1>7. /\ WheelOK(Now', {}, pass'.timer, adds) /\ Later(v, Now')
      /\ pass'.timer \in Timers \cup {NoTimer} /\ curSpoke' \in Spokes
      /\ pass' = [curTC |-> tc, lastSpoke |-> last, timer |-> pass'.timer]
      /\ pass'.timer = NoTimer =>
           curSpoke' = last /\ NoneDue(Now', tc) /\ \A arc, t : SpokesOK(Now', tc, arc, t)
      /\ pass'.timer # NoTimer => SpokesOK(Now', tc, Arc(curSpoke', last), tc)
  BY <1>2, <1>3, <1>4, <1>5, AdvanceOK
<1>8. Later(Now, Now')
  <2>1. Now \in Wheels /\ v \in Wheels /\ Now' \in Wheels
    BY <1>1, <1>3, <1>7 DEF WheelOK
  <2> QED
    BY <1>3, <1>7, <2>1, LaterTwice
<1>9. pass'.curTC = tc /\ pass'.lastSpoke = last /\ (IsFiring' <=> pass'.timer # NoTimer)
  BY <1>7 DEF IsFiring
<1>10. PassOK'
  <2>1. /\ pass' \in [curTC : 0 .. now', lastSpoke : Spokes, timer : Timers \cup {NoTimer}]
        /\ curTC' \in 0 .. now' /\ now' \in 0 .. MaxTime /\ pass'.curTC <= curTC' /\ adds' \in 0 .. MaxAdds
        /\ late' \in BOOLEAN /\ pass'.lastSpoke = TimerTCToSpoke(pass'.curTC)
        /\ now' \div SpokeWidth - pass'.curTC \div SpokeWidth < NumSpokes
    <3>1. tc \in 0 .. now /\ last \in Spokes /\ tc <= curTC /\ last = TimerTCToSpoke(tc)
      BY <1>1, <1>6 DEF PassOK
    <3>2. now \div SpokeWidth - tc \div SpokeWidth < NumSpokes
      BY <1>1, <1>6 DEF PassOK
    <3>3. curTC \in 0 .. now /\ now \in 0 .. MaxTime
      BY <1>1 DEF PassOK
    <3>4. pass' \in [curTC : 0 .. now', lastSpoke : Spokes, timer : Timers \cup {NoTimer}]
      BY <1>2, <1>7, <3>1
    <3> QED
      BY <1>2, <1>4, <1>9, <3>1, <3>2, <3>3, <3>4
  <2>2. /\ ~IsFiring' => curSpoke' = pass'.lastSpoke
        /\ late' => IsFiring'
        /\ IsFiring' /\ ~late' => curTC' = pass'.curTC
        /\ curSpoke' \in Spokes
    BY <1>2, <1>4, <1>7, <1>9
  <2> QED
    BY <2>1, <2>2 DEF PassOK
<1>11. CallersOK'
  <2>1. fate.issued \subseteq fate'.issued
    BY <1>8 DEF Later, Now
  <2> QED
    BY <1>1, <1>2, <2>1 DEF CallersOK, Issued
<1>12. SpokesOK(Now', pass'.curTC, Arc(curSpoke', pass'.lastSpoke), PassTime')
  <2>1. IsFiring' => PassTime' = tc
    BY <1>9 DEF PassTime
  <2> QED
    BY <1>7, <1>9, <2>1
<1>13. WheelOK(Now', {}, pass'.timer, adds') /\ TimersInv'
  BY <1>2, <1>7, <1>10, <1>11, <1>12 DEF TimersInv
<1> QED
  BY <1>7, <1>8, <1>9, <1>13 DEF StepOK

-------------------------------------------------------------------------------
(* Timers in the hand are dropped, those that are not firing in turn.      *)
Quiets(w, S) == {i \in S : "FIRING" \notin w.timer[i].flags}
Dropped(w, S, turns) ==
  [timer |-> [i \in Timers |->
                IF i \in Quiets(w, S) THEN FreeTimer(w.timer[i].generation + 1)
                ELSE IF i \in S THEN [w.timer[i] EXCEPT !.flags = @ \cup {"EXPIRED"}, !.group = Default]
                ELSE w.timer[i]],
   freeList |-> w.freeList \o turns, wheel |-> w.wheel,
   fate |-> [w.fate EXCEPT !.stray = @ \ {<<i, w.timer[i].generation>> : i \in Quiets(w, S)}]]

(* They are free or firing and expired, and their handles are over.        *)
LEMMA DropAllOK ==
  ASSUME NEW w, NEW S \in SUBSET Timers, NEW p, NEW n \in 0 .. MaxAdds, WheelOK(w, S, p, n),
         NEW turns \in Seq(Timers), Distinct(turns), \A i : In(turns, i) <=> i \in Quiets(w, S),
         NEW v, v = Dropped(w, S, turns)
  PROVE  /\ WheelOK(v, {}, p, n) /\ Later(w, v) /\ SpokesKept(w, v) /\ v.fate.fired = w.fate.fired
         /\ \A i \in S : Over(v, <<i, w.timer[i].generation>>)
<1> DEFINE Q == Quiets(w, S)
           t(i) == w.timer[i]
           gone == {<<i, w.timer[i].generation>> : i \in Q}
<1>1. w \in Wheels /\ ListsOK(w, S) /\ FlagsOK(w, S, p) /\ GenerationsOK(w, n) /\ FatesOK(w)
  BY DEF WheelOK
<1>2. /\ w.timer \in [Timers -> TimerRecords] /\ w.freeList \in Seq(Timers)
      /\ w.wheel \in [Spokes -> Seq(Timers)] /\ w.fate \in Fates
  BY <1>1 DEF Wheels
<1>3. Q \subseteq S /\ \A i \in S : "FREE" \notin t(i).flags /\ (i \in Q <=> "FIRING" \notin t(i).flags)
  BY <1>1 DEF Quiets, FlagsOK
<1>4. \A i \in Timers : t(i).generation \in Generations /\ t(i).generation \in Nat
  BY <1>2, TimerBounds DEF TimerRecords, Generations
<1>5. \A i \in S : t(i).generation <= n /\ t(i).generation + 1 \in Generations
  BY <1>1, <1>3, <1>4, TimerBounds DEF GenerationsOK, Generations
<1>6. /\ v.timer \in [Timers -> TimerRecords]
      /\ \A i \in Q : v.timer[i].flags = {"FREE"} /\ v.timer[i].generation = t(i).generation + 1
      /\ \A i \in S \ Q : v.timer[i].flags = t(i).flags \cup {"EXPIRED"} /\ v.timer[i].generation = t(i).generation
      /\ \A i \in Timers \ S : v.timer[i] = t(i)
  <2>1. v.timer = [i \in Timers |-> IF i \in Q THEN FreeTimer(t(i).generation + 1)
                     ELSE IF i \in S THEN [t(i) EXCEPT !.flags = @ \cup {"EXPIRED"}, !.group = Default] ELSE t(i)]
    BY DEF Dropped
  <2> HIDE DEF Q
  <2>2. ASSUME NEW i \in S
        PROVE  /\ FreeTimer(t(i).generation + 1) \in TimerRecords
               /\ FreeTimer(t(i).generation + 1).flags = {"FREE"}
               /\ FreeTimer(t(i).generation + 1).generation = t(i).generation + 1
    BY <1>5, TimerBounds DEF FreeTimer, TimerRecords, Flags
  <2>3. ASSUME NEW i \in S
        PROVE  LET r == [t(i) EXCEPT !.flags = @ \cup {"EXPIRED"}, !.group = Default]
               IN r \in TimerRecords /\ r.flags = t(i).flags \cup {"EXPIRED"} /\ r.generation = t(i).generation
    <3>1. t(i) \in TimerRecords
      BY <1>2
    <3> HIDE DEF t
    <3> QED
      BY <3>1 DEF TimerRecords, Flags
  <2>4. ASSUME NEW i \in Timers PROVE v.timer[i] \in TimerRecords
    <3> DEFINE r == [t(i) EXCEPT !.flags = @ \cup {"EXPIRED"}, !.group = Default]
    <3>1. v.timer[i] = IF i \in Q THEN FreeTimer(t(i).generation + 1) ELSE IF i \in S THEN r ELSE t(i)
      BY <2>1
    <3>2. (i \in S => r \in TimerRecords) /\ (i \in Q => FreeTimer(t(i).generation + 1) \in TimerRecords)
          /\ t(i) \in TimerRecords
      BY <1>2, <1>3, <2>2, <2>3
    <3> HIDE DEF r, t
    <3> QED
      BY <3>1, <3>2
  <2>5. v.timer \in [Timers -> TimerRecords]
    BY <2>1, <2>4
  <2>6. \A i \in Q : v.timer[i].flags = {"FREE"} /\ v.timer[i].generation = t(i).generation + 1
    BY <1>3, <2>1, <2>2
  <2>7. \A i \in S \ Q : v.timer[i].flags = t(i).flags \cup {"EXPIRED"} /\ v.timer[i].generation = t(i).generation
    BY <1>3, <2>1, <2>3
  <2>8. \A i \in Timers \ S : v.timer[i] = t(i)
    BY <1>3, <2>1
  <2> QED
    BY <2>5, <2>6, <2>7, <2>8
<1>7. /\ v.freeList = w.freeList \o turns /\ v.wheel = w.wheel
      /\ v.fate = [w.fate EXCEPT !.stray = @ \ gone]
      /\ v = [timer |-> v.timer, freeList |-> v.freeList, wheel |-> v.wheel, fate |-> v.fate]
  BY DEF Dropped
<1> HIDE DEF gone
<1>8. /\ v.fate.issued = w.fate.issued /\ v.fate.fired = w.fate.fired /\ v.fate.removed = w.fate.removed
      /\ v.fate.synced = w.fate.synced /\ v.fate.stray = w.fate.stray \ gone /\ v.fate \in Fates
  BY <1>2, <1>7 DEF Fates
<1>9. /\ v.freeList \in Seq(Timers) /\ Distinct(v.freeList)
      /\ \A i : In(v.freeList, i) <=> In(w.freeList, i) \/ i \in Q
  <2>1. \A i : ~(In(w.freeList, i) /\ In(turns, i))
    BY <1>1, <1>3 DEF ListsOK
  <2>2. Distinct(w.freeList)
    BY <1>1 DEF ListsOK
  <2> QED
    BY <1>2, <1>7, <2>1, <2>2, ConcatFacts
<1>10. v \in Wheels
  BY <1>2, <1>6, <1>7, <1>8, <1>9 DEF Wheels
<1> HIDE DEF Q
<1>11. \A s \in Spokes : \A i \in S : ~In(w.wheel[s], i)
  BY <1>1 DEF ListsOK
<1>12. ASSUME NEW s \in Spokes, Ascending(w, w.wheel[s]) PROVE Ascending(v, w.wheel[s])
  <2>1. \A k \in 1 .. Len(w.wheel[s]) : w.wheel[s][k] \in Timers \ S
    <3>1. w.wheel[s] \in Seq(Timers)
      BY <1>2
    <3> QED
      BY <1>11, <3>1, ElementOfSeq DEF In
  <2> QED
    BY <1>6, <1>12, <2>1 DEF Ascending
<1>13. ListsOK(v, {})
  <2>1. \A i \in Timers : In(v.freeList, i) <=> "FREE" \in v.timer[i].flags
    <3> SUFFICES ASSUME NEW i \in Timers PROVE In(v.freeList, i) <=> "FREE" \in v.timer[i].flags
      OBVIOUS
    <3>1. In(w.freeList, i) <=> "FREE" \in w.timer[i].flags
      BY <1>1 DEF ListsOK
    <3>2. CASE i \in Q
      BY <1>6, <1>9, <3>2
    <3>3. CASE i \in S \ Q
      BY <1>3, <1>6, <1>9, <3>1, <3>3
    <3>4. CASE i \notin S
      BY <1>3, <1>6, <1>9, <3>1, <3>4
    <3> QED
      BY <3>2, <3>3, <3>4
  <2>2. ASSUME NEW i \in Timers
        PROVE  (\E s \in Spokes : In(v.wheel[s], i)) <=> v.timer[i].flags \cap {"FREE", "EXPIRED"} = {}
    <3>1. CASE i \in S
      <4>1. "FREE" \in v.timer[i].flags \/ "EXPIRED" \in v.timer[i].flags
        BY <1>6, <3>1
      <4>2. \A s \in Spokes : ~In(v.wheel[s], i)
        BY <1>7, <1>11, <3>1
      <4> QED
        BY <4>1, <4>2
    <3>2. CASE i \notin S
      BY <1>1, <1>6, <1>7, <3>2 DEF ListsOK
    <3> QED
      BY <3>1, <3>2
  <2> QED
    BY <1>1, <1>7, <1>9, <1>12, <2>1, <2>2 DEF ListsOK
<1>14. FlagsOK(v, {}, p)
  <2> SUFFICES ASSUME NEW i \in Timers
               PROVE  LET f == v.timer[i].flags
                      IN /\ "FREE" \in f => f = {"FREE"} /\ i \notin {}
                         /\ "FREE" \notin f => ("ONE_SHOT" \in f <=> "PERIODIC" \notin f)
                         /\ i \notin {} /\ "EXPIRED" \in f => "FIRING" \in f
                         /\ "FIRING" \in f <=> p = i
    BY DEF FlagsOK
  <2>1. CASE i \in Q
    <3>1. p # i
      BY <1>1, <1>3, <2>1 DEF FlagsOK
    <3> QED
      BY <1>6, <2>1, <3>1
  <2>2. CASE i \in S \ Q
    BY <1>1, <1>3, <1>6, <2>2 DEF FlagsOK
  <2>3. CASE i \notin S
    BY <1>1, <1>6, <2>3 DEF FlagsOK
  <2> QED
    BY <2>1, <2>2, <2>3
<1>15. GenerationsOK(v, n) /\ Later(w, v)
  <2>1. ASSUME NEW i \in Timers
        PROVE  /\ v.timer[i].generation <= n + 1
               /\ "FREE" \notin v.timer[i].flags => v.timer[i].generation <= n
               /\ t(i).generation <= v.timer[i].generation
               /\ t(i).generation = v.timer[i].generation /\ "EXPIRED" \in t(i).flags => "EXPIRED" \in v.timer[i].flags
    <3>1. CASE i \in Q
      BY <1>3, <1>4, <1>5, <1>6, <3>1
    <3>2. CASE i \in S \ Q
      BY <1>4, <1>5, <1>6, <3>2
    <3>3. CASE i \notin S
      BY <1>1, <1>4, <1>6, <3>3 DEF GenerationsOK
    <3> QED
      BY <3>1, <3>2, <3>3
  <2> QED
    BY <1>8, <2>1 DEF GenerationsOK, Later
<1>16. FatesOK(v)
  <2>1. ASSUME NEW h \in Handles
        PROVE  /\ h[1] \in Timers /\ h[2] \in Nat
               /\ Past(v, h) <=> Past(w, h) \/ (h[1] \in Q /\ h[2] = t(h[1]).generation)
    <3>1. h[1] \in Timers /\ h[2] \in Nat
      BY TimerBounds DEF Handles, Generations
    <3>2. CASE h[1] \in Q
      BY <1>4, <1>6, <3>1, <3>2 DEF Past
    <3>3. CASE h[1] \notin Q
      BY <1>6, <3>1, <3>3 DEF Past
    <3> QED
      BY <3>1, <3>2, <3>3
  <2>2. ASSUME NEW h \in Handles, Over(w, h) PROVE Over(v, h)
    <3>1. CASE h[1] \in Q
      BY <2>1, <2>2, <3>1 DEF Over
    <3>2. CASE h[1] \notin Q
      BY <1>6, <2>1, <2>2, <3>2 DEF Over
    <3> QED
      BY <3>1, <3>2
  <2>3. ASSUME NEW h \in Handles
        PROVE  h \in w.fate.issued <=>
                 Past(v, h) \/ (h[2] = v.timer[h[1]].generation /\ "FREE" \notin v.timer[h[1]].flags)
    <3>1. CASE h[1] \in Q
      BY <1>1, <1>3, <1>4, <1>6, <2>1, <3>1 DEF FatesOK
    <3>2. CASE h[1] \in S \ Q
      BY <1>1, <1>3, <1>6, <2>1, <3>2 DEF FatesOK
    <3>3. CASE h[1] \notin S
      BY <1>1, <1>3, <1>6, <2>1, <3>3 DEF FatesOK
    <3> QED
      BY <3>1, <3>2, <3>3
  <2> QED
    BY <1>1, <1>8, <2>1, <2>2, <2>3 DEF FatesOK, Fates
<1>17. ASSUME NEW passTC, NEW arc, NEW tc, SpokesOK(w, passTC, arc, tc) PROVE SpokesOK(v, passTC, arc, tc)
  <2>1. \A i \in Timers \ S : \A x : <<i, x>> \in v.fate.stray <=> <<i, x>> \in w.fate.stray
    BY <1>3, <1>8 DEF gone
  <2> QED
    BY <1>6, <1>7, <1>11, <1>17, <2>1 DEF SpokesOK
<1>18. ASSUME NEW i \in S PROVE Over(v, <<i, t(i).generation>>)
  <2>1. CASE i \in Q
    BY <1>4, <1>6, <2>1 DEF Over, Past
  <2>2. CASE i \notin Q
    BY <1>6, <2>2 DEF Over
  <2> QED
    BY <2>1, <2>2
<1> QED
  BY <1>8, <1>10, <1>13, <1>14, <1>15, <1>16, <1>17, <1>18 DEF WheelOK, SpokesKept

(* On the wheel, as the code and as the proofs see it.                     *)
LEMMA OnWheelIs ==
  ASSUME wheel \in [Spokes -> Seq(Timers)], NEW i
  PROVE  OnWheel(i) <=> \E s \in Spokes : In(wheel[s], i)
<1>1. ASSUME NEW s \in Spokes PROVE i \in Range(wheel[s]) <=> In(wheel[s], i)
  <2>1. wheel[s] \in Seq(Timers) /\ DOMAIN wheel[s] = 1 .. Len(wheel[s])
    BY LenProperties
  <2> QED
    BY <2>1 DEF Range, In
<1> QED
  BY <1>1 DEF OnWheel

(* The walk over the wheel comes to every timer once, so the timers freed  *)
(* on the way are each freed once.                                         *)
LEMMA TurnsFacts ==
  ASSUME TimersInv, NEW S \in SUBSET Timers, NEW turns \in [1 .. Cardinality(S) -> S],
         \A a, b \in DOMAIN turns : a < b => Before(turns[a], turns[b])
  PROVE  turns \in Seq(Timers) /\ Distinct(turns) /\ \A i : In(turns, i) <=> i \in S
<1> DEFINE c == Cardinality(S)
<1>1. IsFiniteSet(S) /\ c \in Nat /\ IsFiniteSet(1 .. c) /\ Cardinality(1 .. c) = c
  <2>1. IsFiniteSet(Timers)
    BY FS_Interval, TimerBounds DEF Timers
  <2>2. IsFiniteSet(S)
    BY <2>1, FS_Subset
  <2> QED
    BY <2>2, FS_CardinalityType, FS_Interval
<1> HIDE DEF c
<1>2. turns \in [1 .. c -> S] /\ DOMAIN turns = 1 .. c
  BY DEF c
<1>3. turns \in Seq(Timers) /\ Len(turns) = c
  BY <1>1, <1>2
<1>4. ASSUME NEW i \in S PROVE ~Before(i, i)
  <2>1. /\ wheel \in [Spokes -> Seq(Timers)] /\ \A s \in Spokes : Distinct(wheel[s])
        /\ \A s, u \in Spokes : \A j \in Timers : In(wheel[s], j) /\ In(wheel[u], j) => s = u
    BY DEF TimersInv, WheelOK, Wheels, ListsOK, Now
  <2> SUFFICES ASSUME NEW s \in Spokes, NEW u \in Spokes, NEW a \in DOMAIN wheel[s], NEW b \in DOMAIN wheel[u],
                      wheel[s][a] = i, wheel[u][b] = i, s < u \/ (s = u /\ a < b)
               PROVE  FALSE
    BY DEF Before
  <2>2. /\ DOMAIN wheel[s] = 1 .. Len(wheel[s]) /\ Len(wheel[s]) \in Nat
        /\ DOMAIN wheel[u] = 1 .. Len(wheel[u]) /\ Len(wheel[u]) \in Nat
    BY <2>1, LenProperties
  <2>3. In(wheel[s], i) /\ In(wheel[u], i)
    BY <2>2 DEF In
  <2>4. s = u
    BY <2>1, <2>3
  <2>5. a = b
    BY <2>1, <2>2, <2>4 DEF Distinct
  <2> QED
    BY <2>2, <2>4, <2>5 DEF Spokes
<1>5. ASSUME NEW a \in 1 .. c, NEW b \in 1 .. c, turns[a] = turns[b] PROVE a = b
  <2>1. turns[a] \in S /\ ~Before(turns[a], turns[b]) /\ ~Before(turns[b], turns[a])
    BY <1>2, <1>4, <1>5
  <2>2. ~(a < b) /\ ~(b < a)
    BY <1>2, <2>1
  <2> QED
    BY <2>2
<1>6. Distinct(turns)
  BY <1>3, <1>5 DEF Distinct
<1>7. turns \in Surjection(1 .. c, S)
  <2>1. turns \in Injection(1 .. c, S)
    BY <1>2, <1>5 DEF Injection, IsInjective
  <2>2. Cardinality(1 .. c) = Cardinality(S)
    BY <1>1 DEF c
  <2> QED
    BY <1>1, <2>1, <2>2, FS_Injection
<1>8. ASSUME NEW i PROVE In(turns, i) <=> i \in S
  <2>1. ASSUME In(turns, i) PROVE i \in S
    BY <1>2, <1>3, <2>1 DEF In
  <2>2. ASSUME i \in S PROVE In(turns, i)
    BY <1>3, <1>7, <2>2 DEF Surjection, In
  <2> QED
    BY <2>1, <2>2
<1> QED
  BY <1>3, <1>6, <1>8

(* Timer_RemoveGroup keeps the invariant.                                  *)
LEMMA GroupStep ==
  ASSUME TimersInv, NEW g \in Groups, Timer_RemoveGroup(g)
  PROVE  StepOK
<1> DEFINE mine == {i \in Timers : OnWheel(i) /\ timer[i].group = g}
           freed == {i \in mine : "FIRING" \notin timer[i].flags}
           left == [i \in Timers |->
                      IF i \in freed THEN FreeTimer(timer[i].generation + 1)
                      ELSE IF i \in mine
                      THEN [timer[i] EXCEPT !.flags = @ \cup {"EXPIRED"}, !.group = Default]
                      ELSE timer[i]]
           H == OneShots(mine)
           u == Unlink(Now, mine)
<1>1. /\ WheelOK(Now, {}, pass.timer, adds) /\ Now \in Wheels /\ adds \in 0 .. MaxAdds /\ ListsOK(Now, {})
      /\ SpokesOK(Now, pass.curTC, Arc(curSpoke, pass.lastSpoke), PassTime) /\ CallersOK
      /\ wheel \in [Spokes -> Seq(Timers)]
  BY DEF TimersInv, WheelOK, PassOK, Wheels, Now
<1>2. Now.timer = timer /\ Now.freeList = freeList /\ Now.wheel = wheel /\ Now.fate = fate
  BY DEF Now
<1>3. UNCHANGED <<curTC, curSpoke, now, pass, late>> /\ UNCHANGED caller /\ adds' = adds /\ adds' \in 0 .. MaxAdds
  BY <1>1 DEF Timer_RemoveGroup
<1>4. PICK turns \in [1 .. Cardinality(freed) -> freed] :
        /\ \A a, b \in DOMAIN turns : a < b => Before(turns[a], turns[b])
        /\ SetTo(Removed([timer |-> left, freeList |-> freeList \o turns, wheel |-> u.wheel,
                          fate |-> [fate EXCEPT !.stray = @ \ {HandleOf(i) : i \in freed}]], H))
  BY DEF Timer_RemoveGroup
<1>5. mine \in SUBSET Timers /\ freed \in SUBSET Timers
  OBVIOUS
<1>6. \A i \in mine : timer[i].flags \cap {"FREE", "EXPIRED"} = {}
  BY <1>1, <1>2, OnWheelIs DEF ListsOK
<1> HIDE DEF mine
<1>7. turns \in Seq(Timers) /\ Distinct(turns) /\ \A i : In(turns, i) <=> i \in freed
  BY <1>4, <1>5, TurnsFacts
<1>8. /\ WheelOK(u, mine, pass.timer, adds) /\ u.timer = timer /\ u.freeList = freeList /\ u.fate = fate
      /\ SpokesKept(Now, u)
  BY <1>1, <1>2, <1>5, <1>6, UnlinkOK
<1> HIDE DEF u
<1>9. freed = Quiets(u, mine)
  BY <1>8 DEF Quiets
<1> DEFINE v == Dropped(u, mine, turns)
<1>10. [timer |-> left, freeList |-> freeList \o turns, wheel |-> u.wheel,
        fate |-> [fate EXCEPT !.stray = @ \ {HandleOf(i) : i \in freed}]] = v
  <2>1. v = [timer |-> [i \in Timers |->
                IF i \in freed THEN FreeTimer(timer[i].generation + 1)
                ELSE IF i \in mine THEN [timer[i] EXCEPT !.flags = @ \cup {"EXPIRED"}, !.group = Default]
                ELSE timer[i]],
               freeList |-> freeList \o turns, wheel |-> u.wheel,
               fate |-> [fate EXCEPT !.stray = @ \ {<<i, timer[i].generation>> : i \in freed}]]
    BY <1>8, <1>9, Zenon DEF Dropped
  <2> QED
    BY <2>1, Zenon DEF HandleOf
<1>11. SetTo(Removed(v, H))
  BY <1>4, <1>10
<1>12. /\ WheelOK(v, {}, pass.timer, adds) /\ Later(u, v) /\ SpokesKept(u, v) /\ v.fate.fired = u.fate.fired
       /\ \A i \in mine : Over(v, <<i, u.timer[i].generation>>)
  <2>1. v = Dropped(u, mine, turns)
    OBVIOUS
  <2> HIDE DEF v, freed
  <2> QED
    BY <1>1, <1>5, <1>7, <1>8, <1>9, <2>1, DropAllOK
<1> HIDE DEF v
<1>13. Later(Now, v)
  BY <1>2, <1>8, <1>12 DEF Later
<1>14. H \in SUBSET Handles /\ \A h \in H : ~Over(Now, h) /\ Over(v, h)
  <2> SUFFICES ASSUME NEW h \in H PROVE h \in Handles /\ ~Over(Now, h) /\ Over(v, h)
    OBVIOUS
  <2>1. PICK i \in mine : h = HandleOf(i)
    BY DEF OneShots
  <2>2. h = <<i, timer[i].generation>> /\ i \in Timers
    BY <1>5, <2>1 DEF HandleOf
  <2>3. timer[i].generation \in Generations /\ timer[i].generation \in Nat
    BY <1>1, <1>2, <2>2, TimerBounds DEF Wheels, TimerRecords, Generations
  <2>4. h \in Handles /\ Over(v, h)
    BY <1>8, <1>12, <2>2, <2>3 DEF Handles
  <2>5. ~Over(Now, h)
    BY <1>2, <1>6, <2>2, <2>3 DEF Over, Past
  <2> QED
    BY <2>4, <2>5
<1> HIDE DEF H
<1> DEFINE x == Removed(v, H)
<1>15. WheelOK(x, {}, pass.timer, adds) /\ Later(Now, x)
  BY <1>1, <1>2, <1>8, <1>12, <1>13, <1>14, RemovedOK
<1>16. SpokesOK(x, pass.curTC, Arc(curSpoke, pass.lastSpoke), PassTime)
  BY <1>1, <1>8, <1>12, HistorySpokes DEF SpokesKept, WheelOK
<1>17. SetTo(x)
  BY <1>11
<1> HIDE DEF x
<1>18. CallersOK'
  BY <1>1, <1>3, <1>15, <1>17, CallersKept
<1> QED
  BY <1>3, <1>15, <1>16, <1>17, <1>18, WheelStep

-------------------------------------------------------------------------------
(* The invariant holds at first.                                           *)
LEMMA TimersInit ==
  ASSUME Timer_Init
  PROVE  TimersInv
<1>1. TimerTCToSpoke(0) = 0 /\ 0 \in Spokes /\ 0 \div SpokeWidth - 0 \div SpokeWidth = 0
  <2>1. 0 \div SpokeWidth = 0 /\ 0 % NumSpokes = 0
    BY TimerBounds
  <2> QED
    BY <2>1, TimerBounds DEF TimerTCToSpoke, Spokes
<1>2. PassOK
  <2>1. /\ curTC = 0 /\ now = 0 /\ curSpoke = TimerTCToSpoke(0) /\ adds = 0 /\ late = FALSE
        /\ pass = [curTC |-> 0, lastSpoke |-> 0, timer |-> NoTimer]
    BY DEF Timer_Init
  <2>2. ~IsFiring /\ pass \in [curTC : 0 .. now, lastSpoke : Spokes, timer : Timers \cup {NoTimer}]
    BY <1>1, <2>1 DEF IsFiring
  <2>3. now \div SpokeWidth - pass.curTC \div SpokeWidth < NumSpokes
    <3>1. now \div SpokeWidth - pass.curTC \div SpokeWidth = 0
      BY <1>1, <2>1
    <3> QED
      BY <3>1, TimerBounds
  <2>4. pass.curTC <= curTC /\ pass.lastSpoke = TimerTCToSpoke(pass.curTC) /\ curSpoke = pass.lastSpoke
    BY <1>1, <2>1
  <2>5. curTC \in 0 .. now /\ now \in 0 .. MaxTime /\ curSpoke \in Spokes /\ adds \in 0 .. MaxAdds /\ late = FALSE
    BY <1>1, <2>1, TimerBounds
  <2> QED
    BY <2>2, <2>3, <2>4, <2>5 DEF PassOK
<1>3. CallersOK
  <2>1. IdleCaller \in [at : {"idle", "look", "spin"}, handle : Handles] /\ IdleCaller.at = "idle"
    BY TimerBounds DEF IdleCaller, Handles, Timers, Generations
  <2> QED
    BY <2>1 DEF Timer_Init, CallersOK
<1>4. /\ freeList \in Seq(Timers) /\ Distinct(freeList) /\ \A i \in Timers : In(freeList, i)
  <2>1. freeList = [k \in 1 .. NumTimers |-> k - 1]
    BY DEF Timer_Init
  <2>2. \A k \in 1 .. NumTimers : k - 1 \in Timers
    BY TimerBounds DEF Timers
  <2>3. freeList \in Seq(Timers) /\ Len(freeList) = NumTimers
    BY <2>1, <2>2, TimerBounds
  <2>4. Distinct(freeList)
    BY <2>1, <2>3, TimerBounds DEF Distinct
  <2>5. ASSUME NEW i \in Timers PROVE In(freeList, i)
    <3>1. i + 1 \in 1 .. NumTimers /\ (i + 1) - 1 = i
      BY TimerBounds DEF Timers
    <3> QED
      BY <2>1, <2>3, <3>1 DEF In
  <2> QED
    BY <2>3, <2>4, <2>5
<1>5. /\ Now.freeList = freeList /\ Now.fate = NoFate /\ (\A i \in Timers : Now.timer[i] = FreeTimer(1))
      /\ Now.timer = [i \in Timers |-> FreeTimer(1)] /\ Now.wheel = [s \in Spokes |-> <<>>]
      /\ \A s \in Spokes : Now.wheel[s] = <<>>
      /\ Now = [timer |-> Now.timer, freeList |-> Now.freeList, wheel |-> Now.wheel, fate |-> Now.fate]
  BY DEF Timer_Init, Now
<1>6. FreeTimer(1) \in TimerRecords /\ FreeTimer(1).flags = {"FREE"} /\ FreeTimer(1).generation = 1
  BY TimerBounds DEF FreeTimer, TimerRecords, Flags, Generations
<1>7. /\ NoFate \in Fates /\ NoFate.issued = {} /\ NoFate.fired = {} /\ NoFate.removed = {} /\ NoFate.synced = {}
  BY DEF NoFate, Fates
<1>8. Now \in Wheels
  <2>1. Now.timer \in [Timers -> TimerRecords]
    BY <1>5, <1>6
  <2>2. Now.wheel \in [Spokes -> Seq(Timers)]
    BY <1>5
  <2> QED
    BY <1>4, <1>5, <1>7, <2>1, <2>2 DEF Wheels
<1>9. \A s \in Spokes : Len(Now.wheel[s]) = 0 /\ \A i : ~In(Now.wheel[s], i)
  BY <1>5 DEF In
<1>10. ListsOK(Now, {})
  <2>1. \A s \in Spokes : Distinct(Now.wheel[s]) /\ Ascending(Now, Now.wheel[s])
    BY <1>9 DEF Distinct, Ascending
  <2> QED
    BY <1>4, <1>5, <1>6, <1>9, <2>1 DEF ListsOK
<1>11. FlagsOK(Now, {}, pass.timer)
  <2>1. \A i \in Timers : pass.timer # i
    BY TimerBounds DEF Timer_Init, Timers, NoTimer
  <2> QED
    BY <1>5, <1>6, <2>1 DEF FlagsOK
<1>12. GenerationsOK(Now, adds)
  <2>1. adds = 0
    BY DEF Timer_Init
  <2> QED
    BY <1>5, <1>6, <2>1 DEF GenerationsOK
<1>13. FatesOK(Now)
  <2>1. \A h \in Handles : h[1] \in Timers /\ h[2] \in Nat /\ h[2] >= 1
    BY TimerBounds DEF Handles, Generations
  <2>2. \A h \in Handles : ~Past(Now, h)
    BY <1>5, <1>6, <2>1 DEF Past
  <2> QED
    BY <1>5, <1>6, <1>7, <2>1, <2>2 DEF FatesOK
<1>14. SpokesOK(Now, pass.curTC, Arc(curSpoke, pass.lastSpoke), PassTime)
  BY <1>9 DEF SpokesOK
<1> QED
  BY <1>2, <1>3, <1>8, <1>10, <1>11, <1>12, <1>13, <1>14 DEF TimersInv, WheelOK

(* Every step keeps it.                                                    *)
LEMMA TimersStep ==
  ASSUME TimersInv, TimersNext
  PROVE  StepOK
<1>1. ASSUME NEW d \in Deadlines, NEW k \in Kinds, Timer_AddTC(d, k[1], k[2]) PROVE StepOK
  BY <1>1, AddStep
<1>2. ASSUME NEW h \in Handles, Timer_Remove(h) PROVE StepOK
  BY <1>2, RemoveStep
<1>3. ASSUME NEW h \in Handles, NEW d \in Deadlines, Timer_ModifyTimeoutTC(h, d) PROVE StepOK
  BY <1>3, ModifyStep
<1>4. ASSUME NEW g \in Groups, Timer_RemoveGroup(g) PROVE StepOK
  BY <1>4, GroupStep
<1>5. ASSUME NEW c \in Callers, LookAgain(c) PROVE StepOK
  <2>1. caller[c].handle \in Handles /\ Issued(caller[c].handle) /\ Look(c, caller[c].handle)
    BY <1>5 DEF LookAgain, TimersInv, CallersOK
  <2> QED
    BY <2>1, LookStep
<1>6. ASSUME NEW c \in Callers, SpinDone(c) PROVE StepOK
  BY <1>6, SpinStep
<1>7. ASSUME NEW c \in Callers, NEW h \in Handles, Timer_RemoveSync(c, h) PROVE StepOK
  BY <1>7, LookStep DEF Timer_RemoveSync
<1> QED
  BY <1>1, <1>2, <1>3, <1>4, <1>5, <1>6, <1>7, BeginStep, ReturnStep, InterruptStep, TickStep DEF TimersNext

(* The inductive invariant of the timer wheel, for every number of timers  *)
(* and spokes, width of a spoke, period, set of callers and of groups.     *)
THEOREM TimersInvariant == TimersSpec => []TimersInv
<1>1. Timer_Init => TimersInv
  BY TimersInit
<1>2. TimersInv /\ [TimersNext]_timerVars => TimersInv'
  <2>1. ASSUME TimersInv, TimersNext PROVE TimersInv'
    BY <2>1, TimersStep DEF StepOK
  <2>2. ASSUME TimersInv, UNCHANGED timerVars PROVE TimersInv'
    <3>1. /\ UNCHANGED <<timer, freeList, wheel, fate>> /\ UNCHANGED <<curTC, curSpoke, now>>
          /\ UNCHANGED <<pass, caller, adds, late>>
      BY <2>2 DEF timerVars
    <3>2. Now' = Now
      BY <2>2, <3>1, SameWheel
    <3>3. PassOK' /\ CallersOK' /\ PassTime' = PassTime
      BY <2>2, <3>1 DEF TimersInv, PassOK, CallersOK, PassTime, IsFiring, Issued
    <3>4. /\ WheelOK(Now', {}, pass'.timer, adds')
          /\ SpokesOK(Now', pass'.curTC, Arc(curSpoke', pass'.lastSpoke), PassTime')
      BY <2>2, <3>1, <3>2, <3>3 DEF TimersInv
    <3> QED
      BY <3>3, <3>4 DEF TimersInv
  <2> QED
    BY <2>1, <2>2
<1> QED
  BY <1>1, <1>2, PTL DEF TimersSpec

(* How often a timer is on a list.                                         *)
LEMMA TimesIs ==
  ASSUME NEW l \in Seq(Timers), Distinct(l), NEW i
  PROVE  Times(l, i) = IF In(l, i) THEN 1 ELSE 0
<1> DEFINE K == {k \in DOMAIN l : l[k] = i}
<1>1. DOMAIN l = 1 .. Len(l)
  BY LenProperties
<1>2. CASE In(l, i)
  <2>1. PICK k \in 1 .. Len(l) : l[k] = i
    BY <1>2 DEF In
  <2>2. K = {k}
    BY <1>1, <2>1 DEF Distinct
  <2>3. Cardinality({k}) = 1
    BY FS_Singleton
  <2> QED
    BY <1>2, <2>2, <2>3 DEF Times
<1>3. CASE ~In(l, i)
  <2>1. K = {}
    BY <1>1, <1>3 DEF In
  <2>2. Cardinality({}) = 0
    BY FS_EmptySet
  <2> QED
    BY <1>3, <2>1, <2>2 DEF Times
<1> QED
  BY <1>2, <1>3

(* A list without repetitions is no longer than there are timers.          *)
LEMMA ShortList ==
  ASSUME NEW l \in Seq(Timers), Distinct(l)
  PROVE  Len(l) <= NumTimers
<1>1. Len(l) \in Nat /\ l \in [1 .. Len(l) -> Timers]
  BY LenProperties
<1>2. IsFiniteSet(Timers) /\ Cardinality(Timers) = NumTimers
  <2>1. /\ IsFiniteSet(0 .. NumTimers - 1)
        /\ Cardinality(0 .. NumTimers - 1) = IF 0 > NumTimers - 1 THEN 0 ELSE (NumTimers - 1) - 0 + 1
    BY FS_Interval, TimerBounds
  <2>2. (IF 0 > NumTimers - 1 THEN 0 ELSE (NumTimers - 1) - 0 + 1) = NumTimers
    BY TimerBounds
  <2> QED
    BY <2>1, <2>2 DEF Timers
<1>3. Cardinality(1 .. Len(l)) = Len(l)
  BY <1>1, FS_Interval
<1>4. l \in Injection(1 .. Len(l), Timers)
  BY <1>1 DEF Injection, IsInjective, Distinct
<1> QED
  BY <1>2, <1>3, <1>4, FS_Injection

(* PlacesExact is part of the invariant.                                   *)
LEMMA InvPlaces ==
  ASSUME TimersInv
  PROVE  PlacesExact
<1>1. Now.timer = timer /\ Now.freeList = freeList /\ Now.wheel = wheel
  BY DEF Now
<1>2. /\ Now \in Wheels /\ ListsOK(Now, {}) /\ FlagsOK(Now, {}, pass.timer) /\ PassOK /\ CallersOK
  BY DEF TimersInv, WheelOK
<1>3. timer \in [Timers -> TimerRecords] /\ freeList \in Seq(Timers) /\ wheel \in [Spokes -> Seq(Timers)]
  BY <1>1, <1>2 DEF Wheels
<1>4. TimersTypeOK
  BY <1>2, <1>3 DEF TimersTypeOK, TimerRecords, Flags, PassOK, CallersOK
<1>5. ASSUME NEW i \in Timers
      PROVE  LET f == timer[i].flags
                 turns == {q \in Spokes \X (1 .. NumTimers) : q[2] \in DOMAIN wheel[q[1]] /\ wheel[q[1]][q[2]] = i}
             IN /\ Times(freeList, i) = IF "FREE" \in f THEN 1 ELSE 0
                /\ Cardinality(turns) = IF f \cap {"FREE", "EXPIRED"} = {} THEN 1 ELSE 0
                /\ "EXPIRED" \in f => "FIRING" \in f
                /\ "FIRING" \in f <=> pass.timer = i
  <2> DEFINE f == timer[i].flags
             turns == {q \in Spokes \X (1 .. NumTimers) : q[2] \in DOMAIN wheel[q[1]] /\ wheel[q[1]][q[2]] = i}
  <2>1. Times(freeList, i) = IF "FREE" \in f THEN 1 ELSE 0
    <3>1. Distinct(freeList) /\ (In(freeList, i) <=> "FREE" \in f)
      BY <1>1, <1>2 DEF ListsOK
    <3> QED
      BY <1>3, <3>1, TimesIs
  <2>2. ("EXPIRED" \in f => "FIRING" \in f) /\ ("FIRING" \in f <=> pass.timer = i)
    BY <1>1, <1>2 DEF FlagsOK
  <2>3. \A s \in Spokes : /\ wheel[s] \in Seq(Timers) /\ Distinct(wheel[s])
                          /\ Len(wheel[s]) \in Nat /\ DOMAIN wheel[s] = 1 .. Len(wheel[s])
                          /\ Len(wheel[s]) <= NumTimers
    BY <1>1, <1>2, <1>3, ShortList, LenProperties DEF ListsOK
  <2>4. (\E s \in Spokes : In(wheel[s], i)) <=> f \cap {"FREE", "EXPIRED"} = {}
    BY <1>1, <1>2 DEF ListsOK
  <2>5. CASE f \cap {"FREE", "EXPIRED"} = {}
    <3>1. PICK s \in Spokes : In(wheel[s], i)
      BY <2>4, <2>5
    <3>2. PICK k \in 1 .. Len(wheel[s]) : wheel[s][k] = i
      BY <3>1 DEF In
    <3>3. k \in 1 .. NumTimers /\ k \in DOMAIN wheel[s]
      BY <2>3, TimerBounds
    <3>4. ASSUME NEW u \in Spokes, NEW m \in DOMAIN wheel[u], wheel[u][m] = i PROVE u = s /\ m = k
      <4>1. m \in 1 .. Len(wheel[u]) /\ In(wheel[u], i)
        BY <2>3, <3>4 DEF In
      <4>2. u = s
        BY <1>1, <1>2, <3>1, <4>1 DEF ListsOK
      <4> QED
        BY <2>3, <3>2, <3>4, <4>1, <4>2 DEF Distinct
    <3>5. turns = {<<s, k>>}
      <4>1. <<s, k>> \in turns
        BY <3>2, <3>3
      <4>2. ASSUME NEW q \in turns PROVE q = <<s, k>>
        <5>1. q = <<q[1], q[2]>> /\ q[1] \in Spokes /\ q[2] \in DOMAIN wheel[q[1]] /\ wheel[q[1]][q[2]] = i
          OBVIOUS
        <5>2. q[1] = s /\ q[2] = k
          BY <3>4, <5>1
        <5> QED
          BY <5>1, <5>2
      <4> HIDE DEF turns
      <4> QED
        BY <4>1, <4>2
    <3>6. Cardinality({<<s, k>>}) = 1
      BY FS_Singleton
    <3> HIDE DEF turns
    <3>7. Cardinality(turns) = 1
      BY <3>5, <3>6
    <3> QED
      BY <2>1, <2>2, <2>5, <3>7 DEF turns
  <2>6. CASE f \cap {"FREE", "EXPIRED"} # {}
    <3>1. ASSUME NEW u \in Spokes, NEW m \in DOMAIN wheel[u] PROVE wheel[u][m] # i
      BY <2>3, <2>4, <2>6, <3>1 DEF In
    <3>2. turns = {}
      BY <3>1
    <3>3. Cardinality({}) = 0
      BY FS_EmptySet
    <3> HIDE DEF turns
    <3>4. Cardinality(turns) = 0
      BY <3>2, <3>3
    <3> QED
      BY <2>1, <2>2, <2>6, <3>4 DEF turns
  <2> QED
    BY <2>5, <2>6
<1> QED
  BY <1>4, <1>5 DEF PlacesExact

(* Every timer structure is in one place: on the free list, on the wheel,  *)
(* or in the hands of the handler that runs its callback and will free it. *)
THEOREM TimerPlaces == TimersSpec => []PlacesExact
<1>1. TimersInv => PlacesExact
  BY InvPlaces
<1> QED
  BY <1>1, TimersInvariant, PTL

(* Removals tell the truth: no callback is called for a one-shot whose     *)
(* removal returned TRUE, and none runs or is to come for a timer when     *)
(* Timer_RemoveSync has returned.                                          *)
THEOREM TimerRemovals == TimersSpec => []RemovalKept
<1>1. ASSUME TimersInv PROVE RemovalKept
  <2>1. FatesOK(Now) /\ Now \in Wheels /\ Now.timer = timer /\ Now.fate = fate
    BY <1>1 DEF TimersInv, WheelOK, Now
  <2>2. fate \in Fates /\ \A i \in Timers : timer[i].generation \in Nat
    BY <2>1, TimerBounds DEF Wheels, TimerRecords, Generations
  <2>3. RemoveTruthful
    BY <2>1 DEF FatesOK, RemoveTruthful
  <2>4. ASSUME NEW h \in fate.synced PROVE ~Found(h) /\ (IsFiring => HandleOf(pass.timer) # h)
    <3>1. h \in Handles /\ h[1] \in Timers /\ h[2] \in Nat
      BY <2>2, TimerBounds DEF Fates, Handles, Generations
    <3>2. h[2] < timer[h[1]].generation
      BY <2>1 DEF FatesOK, Past
    <3>3. ASSUME NEW i, HandleOf(i) = h PROVE i = h[1] /\ timer[i].generation = h[2]
      BY <3>3 DEF HandleOf
    <3>4. timer[h[1]].generation # h[2]
      BY <2>2, <3>1, <3>2
    <3> QED
      BY <3>3, <3>4 DEF Found
  <2> QED
    BY <2>3, <2>4 DEF RemovalKept, NoCallbackAfterSync
<1> QED
  BY <1>1, TimersInvariant, PTL

(* Timer_Pending never changes from FALSE back to TRUE: a handle that was  *)
(* given out and names no timer any more never names one again.            *)
THEOREM TimerHandles == TimersSpec => PendingNeverReturns
<1> DEFINE A == \A h \in Handles : Issued(h) /\ ~Found(h) => ~Found(h)'
<1>1. ASSUME TimersInv, [TimersNext]_timerVars PROVE [A]_timerVars
  <2> SUFFICES ASSUME TimersNext, NEW h \in Handles, Issued(h), ~Found(h) PROVE ~Found(h)'
    BY <1>1
  <2>1. Later(Now, Now') /\ TimersInv'
    BY <1>1, TimersStep DEF StepOK
  <2>2. Now.timer = timer /\ Now.fate = fate /\ Now'.timer = timer'
    BY DEF Now
  <2>3. FatesOK(Now) /\ Now \in Wheels /\ Now' \in Wheels
    BY <1>1, <2>1 DEF TimersInv, WheelOK
  <2>4. h[1] \in Timers /\ h[2] \in Nat /\ h = <<h[1], h[2]>>
    BY TimerBounds DEF Handles, Generations
  <2>5. \A i \in Timers : timer[i].generation \in Nat /\ timer'[i].generation \in Nat
    BY <2>2, <2>3, TimerBounds DEF Wheels, TimerRecords, Generations
  <2>6. Over(Now, h)
    <3>1. Past(Now, h) \/ (h[2] = timer[h[1]].generation /\ "FREE" \notin timer[h[1]].flags)
      BY <2>2, <2>3 DEF FatesOK, Issued
    <3>2. h[2] = timer[h[1]].generation => HandleOf(h[1]) = h
      BY <2>4 DEF HandleOf
    <3> QED
      BY <2>2, <3>1, <3>2 DEF Over, Found
  <2>7. \/ h[2] < timer'[h[1]].generation
        \/ h[2] = timer'[h[1]].generation /\ "EXPIRED" \in timer'[h[1]].flags
    <3>1. /\ timer[h[1]].generation <= timer'[h[1]].generation
          /\ timer[h[1]].generation = timer'[h[1]].generation /\ "EXPIRED" \in timer[h[1]].flags =>
               "EXPIRED" \in timer'[h[1]].flags
      BY <2>1, <2>2, <2>4 DEF Later
    <3>2. timer[h[1]].generation \in Nat /\ timer'[h[1]].generation \in Nat
      BY <2>4, <2>5
    <3> QED
      BY <2>2, <2>4, <2>6, <3>1, <3>2 DEF Over, Past
  <2>8. HandleOf(h[1])' = <<h[1], timer'[h[1]].generation>>
    BY DEF HandleOf
  <2>9. ASSUME Found(h)' PROVE h[2] = timer'[h[1]].generation /\ "EXPIRED" \notin timer'[h[1]].flags
    BY <2>4, <2>8, <2>9 DEF Found
  <2> QED
    BY <2>4, <2>5, <2>7, <2>9
<1> QED
  BY <1>1, TimersInvariant, PTL DEF TimersSpec, PendingNeverReturns

(* A pass of Timer_BHHandler leaves no timer behind that was due when it   *)
(* began, except those put on the wheel after an interrupt moved curTC on  *)
(* in the middle of a pass.                                                *)
THEOREM TimerPasses == TimersSpec => NoneLeftBehind
<1> DEFINE A == pass' # pass /\ ~IsFiring' =>
                  \A i \in Timers :
                    (OnWheel(i) /\ HandleOf(i) \notin fate.stray => timer[i].deadlineTC > pass.curTC)'
<1>1. ASSUME TimersInv, [TimersNext]_timerVars PROVE [A]_timerVars
  <2> SUFFICES ASSUME TimersNext, pass' # pass, ~IsFiring', NEW i \in Timers
               PROVE  (OnWheel(i) /\ HandleOf(i) \notin fate.stray => timer[i].deadlineTC > pass.curTC)'
    BY <1>1
  <2>1. NoneDue(Now', pass'.curTC) /\ TimersInv'
    BY <1>1, TimersStep DEF StepOK
  <2>2. Now'.timer = timer' /\ Now'.wheel = wheel' /\ Now'.fate = fate'
    BY DEF Now
  <2>3. wheel' \in [Spokes -> Seq(Timers)]
    BY <2>1, <2>2 DEF TimersInv, WheelOK, Wheels
  <2>4. OnWheel(i)' => \E s \in Spokes : In(wheel'[s], i)
    <3>1. \A s \in Spokes : wheel'[s] \in Seq(Timers) /\ DOMAIN wheel'[s] = 1 .. Len(wheel'[s])
      BY <2>3, LenProperties
    <3> QED
      BY <3>1 DEF OnWheel, Range, In
  <2> QED
    BY <2>1, <2>2, <2>4 DEF NoneDue, HandleOf
<1> QED
  BY <1>1, TimersInvariant, PTL DEF TimersSpec, NoneLeftBehind

===============================================================================
