--------------------------- MODULE TLBShootdownProofs ---------------------------
(***************************************************************************)
(* That invalidations take turns and no turn is lost, for any processors,  *)
(* worlds and pages, whether or not interrupts are taken late; and that an *)
(* invalidation has flushed where it was to when it returns, if no         *)
(* interrupt of an earlier one is still on its way when it begins.         *)
(***************************************************************************)
EXTENDS TLBShootdown, FiniteSetTheorems, TLAPS

(* The part of TypeOK the argument needs; it says nothing of flushCount,   *)
(* whose range rests on every target counting itself once.                 *)
TurnTypes ==
  /\ invalidateInProgress \in BOOLEAN
  /\ pc \in [Worlds -> PCs]
  /\ waitEvent \in [Worlds -> {"inProgress", NoEvent}]

TurnInv == TurnTypes /\ OneInvalidation /\ NoLostTurn

(* Nobody has begun an invalidation after TLB_LateInit.                    *)
LEMMA InitTurns == Init => TurnInv
  BY TLBEventAssumption
     DEF Init, TurnInv, TurnTypes, PCs, OneInvalidation, NoLostTurn, Active, IsWaiting

(* A step that leaves the flag and the sleepers alone, and moves a world   *)
(* between places outside its turn, or within it, changes nothing.         *)
LEMMA MoveKeepsTurns ==
  ASSUME TurnInv, NEW w \in Worlds, NEW to \in PCs,
         pc' = [pc EXCEPT ![w] = to],
         (to \in {"send", "spin", "finish"}) <=> Active(w),
         ~IsWaiting(waitEvent, w),
         UNCHANGED <<invalidateInProgress, waitEvent>>
  PROVE  TurnInv'
<1>1. \A v \in Worlds : Active(v)' <=> Active(v)
  BY DEF TurnInv, TurnTypes, Active
<1>2. TurnTypes'
  BY DEF TurnInv, TurnTypes
<1>3. OneInvalidation'
  BY <1>1 DEF TurnInv, OneInvalidation
<1>4. NoLostTurn'
  BY DEF TurnInv, TurnTypes, NoLostTurn, IsWaiting
<1> QED
  BY <1>2, <1>3, <1>4 DEF TurnInv

(* Every step of a world and of a handler of TLBInvalidateHandler keeps    *)
(* the turns.                                                              *)
LEMMA NextTurns == TurnInv /\ [Next]_vars => TurnInv'
<1> SUFFICES ASSUME TurnInv, [Next]_vars PROVE TurnInv'
  OBVIOUS
<1>1. ASSUME UNCHANGED <<invalidateInProgress, pc, waitEvent>> PROVE TurnInv'
  BY <1>1 DEF TurnInv, TurnTypes, OneInvalidation, NoLostTurn, Active, IsWaiting
<1>2. ASSUME NEW w \in Worlds, NEW p \in Pcpus, NEW v \in VPNs, Change(w, p, v)
      PROVE  TurnInv'
  <2>1. pc[w] = "idle" /\ pc' = [pc EXCEPT ![w] = "enter"]
        /\ UNCHANGED <<invalidateInProgress, waitEvent>>
    BY <1>2 DEF Change, Goto, state
  <2>2. ~IsWaiting(waitEvent, w)
    BY <2>1 DEF TurnInv, NoLostTurn
  <2> QED
    BY <2>1, <2>2, MoveKeepsTurns DEF PCs, Active
<1>3. ASSUME NEW w \in Worlds, NEW p \in Pcpus, NEW t \in Pcpus, TLB_FlushPCPU(w, p, t)
      PROVE  TurnInv'
  <2>1. pc[w] = "idle" /\ pc' = [pc EXCEPT ![w] = "enter"]
        /\ UNCHANGED <<invalidateInProgress, waitEvent>>
    BY <1>3 DEF TLB_FlushPCPU, Goto, state
  <2>2. ~IsWaiting(waitEvent, w)
    BY <2>1 DEF TurnInv, NoLostTurn
  <2> QED
    BY <2>1, <2>2, MoveKeepsTurns DEF PCs, Active
<1>4. ASSUME NEW w \in Worlds, Start(w) PROVE TurnInv'
  <2>1. /\ ~invalidateInProgress /\ invalidateInProgress' = TRUE
        /\ pc' = [pc EXCEPT ![w] = "send"] /\ waitEvent' = waitEvent
    BY <1>4 DEF Start, Goto
  <2>2. \A v \in Worlds : ~Active(v) /\ ~IsWaiting(waitEvent, v)
    BY <2>1 DEF TurnInv, OneInvalidation, NoLostTurn
  <2>3. \A v \in Worlds : Active(v)' <=> v = w
    BY <2>1, <2>2 DEF TurnInv, TurnTypes, Active
  <2>4. TurnTypes'
    BY <2>1 DEF TurnInv, TurnTypes, PCs
  <2>5. OneInvalidation'
    BY <2>1, <2>3 DEF OneInvalidation
  <2>6. NoLostTurn'
    BY <2>1, <2>2 DEF NoLostTurn, IsWaiting
  <2> QED
    BY <2>4, <2>5, <2>6 DEF TurnInv
<1>5. ASSUME NEW w \in Worlds, WaitTurn(w) PROVE TurnInv'
  <2>1. /\ pc[w] = "enter" /\ invalidateInProgress
        /\ waitEvent' = [waitEvent EXCEPT ![w] = "inProgress"]
        /\ UNCHANGED <<invalidateInProgress, pc>>
    BY <1>5 DEF WaitTurn, WaitOn, state
  <2>2. TurnTypes' /\ OneInvalidation'
    BY <2>1 DEF TurnInv, TurnTypes, OneInvalidation, Active
  <2>3. NoLostTurn'
    BY <2>1 DEF TurnInv, TurnTypes, NoLostTurn, IsWaiting
  <2> QED
    BY <2>2, <2>3 DEF TurnInv
<1>6. ASSUME NEW w \in Worlds, SendIPI(w) PROVE TurnInv'
  <2>1. Active(w) /\ pc' = [pc EXCEPT ![w] = "spin"] /\ Awake(w)
        /\ UNCHANGED <<invalidateInProgress, waitEvent>>
    BY <1>6 DEF SendIPI, Goto, Active, Runs, state
  <2> QED
    BY <2>1, MoveKeepsTurns DEF PCs, Awake
<1>7. ASSUME NEW w \in Worlds, SpinDone(w) PROVE TurnInv'
  <2>1. Active(w) /\ pc' = [pc EXCEPT ![w] = "finish"] /\ Awake(w)
        /\ UNCHANGED <<invalidateInProgress, waitEvent>>
    BY <1>7 DEF SpinDone, Goto, Active, Runs, state
  <2> QED
    BY <2>1, MoveKeepsTurns DEF PCs, Awake
<1>8. ASSUME NEW w \in Worlds, Finish(w) PROVE TurnInv'
  <2>1. /\ Active(w) /\ invalidateInProgress' = FALSE
        /\ pc' = [pc EXCEPT ![w] = "done"]
        /\ waitEvent' = Wakeup(waitEvent, "inProgress")
    BY <1>8 DEF Finish, Goto, Active
  <2>2. \A v \in Worlds : ~Active(v)'
    BY <2>1 DEF TurnInv, TurnTypes, OneInvalidation, Active
  <2>3. \A v \in Worlds : waitEvent'[v] = NoEvent
    BY <2>1 DEF TurnInv, TurnTypes, Wakeup
  <2>4. TurnTypes'
    BY <2>1 DEF TurnInv, TurnTypes, PCs, Wakeup
  <2>5. OneInvalidation' /\ NoLostTurn'
    BY <2>1, <2>2, <2>3 DEF OneInvalidation, NoLostTurn, IsWaiting
  <2> QED
    BY <2>4, <2>5 DEF TurnInv
<1>9. ASSUME NEW w \in Worlds, Return(w) PROVE TurnInv'
  <2>1. pc[w] = "done" /\ pc' = [pc EXCEPT ![w] = "idle"] /\ Awake(w)
        /\ UNCHANGED <<invalidateInProgress, waitEvent>>
    BY <1>9 DEF Return, Goto, Runs, state
  <2> QED
    BY <2>1, MoveKeepsTurns DEF PCs, Active, Awake
<1>10. ASSUME NEW w \in Worlds, NEW p \in Pcpus,
              Move(w, p) \/ \E v \in VPNs : ChangeLocal(w, p, v)
       PROVE  TurnInv'
  BY <1>1, <1>10 DEF Move, ChangeLocal, state
<1>11. ASSUME NEW p \in Pcpus, Handler(p) PROVE TurnInv'
  BY <1>1, <1>11 DEF Handler, Interrupt, CountDown, NothingToDo, Flush, state
<1>12. CASE UNCHANGED vars
  BY <1>1, <1>12 DEF vars
<1>13. Pages \subseteq VPNs /\ FLUSH_VPN \in VPNs
  BY DEF VPNs
<1>14. ASSUME NEW w \in Worlds, Call(w) PROVE TurnInv'
  BY <1>2, <1>3, <1>10, <1>13, <1>14 DEF Call, TLB_Invalidate, TLB_Flush
<1>15. ASSUME NEW w \in Worlds, Step(w) PROVE TurnInv'
  BY <1>4, <1>5, <1>6, <1>7, <1>8, <1>9, <1>15 DEF Step
<1> QED
  BY <1>10, <1>11, <1>12, <1>14, <1>15 DEF Next

(* TLBDoInvalidate has one invalidation in progress at a time, and the     *)
(* flag says whether there is one.                                         *)
THEOREM Turns == Spec => []OneInvalidation
<1>1. TurnInv => OneInvalidation
  BY DEF TurnInv
<1> QED
  BY InitTurns, NextTurns, <1>1, PTL DEF Spec

(* A world that sleeps in TLBDoInvalidate sleeps only while an             *)
(* invalidation is in progress, so the end of that one wakes it.           *)
THEOREM TurnsNotLost == Spec => []NoLostTurn
<1>1. TurnInv => NoLostTurn
  BY DEF TurnInv
<1> QED
  BY InitTurns, NextTurns, <1>1, PTL DEF Spec

-------------------------------------------------------------------------------
(* Interrupts on their way, or just taken, are for targets of the          *)
(* invalidation in progress, and there are none when it ends.              *)
StraysKnown ==
  /\ \A w \in Worlds : Active(w) =>
       /\ ipi \subseteq Targets(w)
       /\ \A p \in Pcpus : handler[p] = "entered" => p \in Targets(w)
  /\ \A w \in Worlds : pc[w] = "finish" => NoStrays
  /\ ~invalidateInProgress => NoStrays

(* What the shared variables say of the invalidation in progress.          *)
CountKept ==
  \A w \in Worlds : Active(w) =>
    /\ flushVPN = arg[w].vpn
    /\ flushCount = Cardinality(Targets(w) \ acked)

(* Where the old translation may still be used: at targets that have not   *)
(* counted themselves or are in the handler, about to flush.               *)
DueKept ==
  \A w \in Worlds :
    /\ pc[w] = "idle" => due[w] = {}
    /\ pc[w] = "enter" \/ Active(w) => due[w] \subseteq Targets(w)
    /\ Active(w) => \A p \in due[w] : p \in acked => AboutToDrop(p, w)
    /\ pc[w] \in {"finish", "done"} => \A p \in due[w] : AboutToDrop(p, w)

FlushInv == TurnInv /\ TypeOK /\ StraysKnown /\ CountKept /\ DueKept

(* Nothing is in progress, pending or due after TLB_LateInit.              *)
LEMMA InitFlush == Init => FlushInv
<1> SUFFICES ASSUME Init PROVE FlushInv
  OBVIOUS
<1>1. TurnInv
  BY InitTurns
<1>2. 0 \in 0..Cardinality(Pcpus)
  BY FS_CardinalityType, PcpusAssumption
<1>3. TypeOK
  BY <1>2 DEF Init, TypeOK, PCs, VPNs, AllPages
<1>4. StraysKnown /\ CountKept /\ DueKept
  BY DEF Init, StraysKnown, CountKept, DueKept, NoStrays, Active
<1> QED
  BY <1>1, <1>3, <1>4 DEF FlushInv

(* Targets of a call are processors, and those that are left can be        *)
(* counted.                                                                *)
LEMMA TargetsCounted ==
  ASSUME TypeOK, NEW w \in Worlds, NEW S
  PROVE  /\ Targets(w) \subseteq Pcpus
         /\ IsFiniteSet(Targets(w) \ S)
         /\ Cardinality(Targets(w) \ S) \in 0..Cardinality(Pcpus)
<1>1. Targets(w) \subseteq Pcpus
  BY DEF TypeOK, Targets
<1>2. Targets(w) \ S \subseteq Pcpus
  BY <1>1
<1>3. /\ IsFiniteSet(Targets(w) \ S)
      /\ Cardinality(Targets(w) \ S) <= Cardinality(Pcpus)
  BY <1>2, FS_Subset, PcpusAssumption
<1>4. Cardinality(Targets(w) \ S) \in Nat /\ Cardinality(Pcpus) \in Nat
  BY <1>3, FS_CardinalityType, PcpusAssumption
<1> QED
  BY <1>1, <1>3, <1>4

(* TLBDoInvalidate sets the count to the number of its targets.            *)
LEMMA CountSet ==
  ASSUME TypeOK, NEW w \in Worlds
  PROVE  Cardinality(Targets(w)) = IF arg[w].pcpu = Broadcast THEN Cardinality(Pcpus) - 1 ELSE 1
<1>1. at[w] \in Pcpus
  BY DEF TypeOK
<1>2. Cardinality(Pcpus \ {at[w]}) = Cardinality(Pcpus) - 1
  BY <1>1, FS_RemoveElement, PcpusAssumption
<1>3. Cardinality({arg[w].pcpu}) = 1
  BY FS_Singleton
<1> QED
  BY <1>2, <1>3 DEF Targets

(* The callers: a translation is due at the targets of the call, or less   *)
(* is due than before.                                                     *)
LEMMA CallFlushes ==
  ASSUME FlushInv, TurnInv', NEW w \in Worlds, Call(w)
  PROVE  FlushInv'
<1> USE DEF FlushInv
<1>1. ASSUME NEW p \in Pcpus, NEW v \in VPNs, Change(w, p, v) PROVE FlushInv'
  <2>1. TypeOK'
    BY <1>1 DEF Change, TypeOK, Goto, Dropped, PCs, state, intr
  <2>2. \A u \in Worlds \ {w} : pc'[u] = pc[u] /\ at'[u] = at[u] /\ arg'[u] = arg[u]
    BY <1>1 DEF Change, Goto, TypeOK
  <2>3. pc'[w] = "enter" /\ Targets(w)' = Pcpus \ {p} /\ due'[w] = Pcpus \ {p}
    BY <1>1 DEF Change, Goto, TypeOK, Targets, Dropped
  <2>4. \A u \in Worlds \ {w} : Targets(u)' = Targets(u) /\ (Active(u)' <=> Active(u))
    BY <2>2 DEF Targets, Active
  <2>5. ~Active(w)'
    BY <2>3 DEF Active
  <2>6. StraysKnown'
    BY <1>1, <2>2, <2>3, <2>4, <2>5 DEF StraysKnown, Change, state, intr, NoStrays
  <2>7. CountKept'
    BY <1>1, <2>2, <2>4, <2>5 DEF CountKept, Change, state
  <2>8. \A u \in Worlds \ {w} : due'[u] \subseteq due[u]
    BY <1>1 DEF Change, Dropped, TypeOK
  <2>9. \A u \in Worlds \ {w}, q \in Pcpus : AboutToDrop(q, u)' <=> AboutToDrop(q, u)
    BY <1>1, <2>2 DEF AboutToDrop, Change, intr
  <2>10. DueKept'
    BY <1>1, <2>1, <2>2, <2>3, <2>4, <2>5, <2>8, <2>9 DEF DueKept, TypeOK, Change, state
  <2> QED
    BY <2>1, <2>6, <2>7, <2>10
<1>2. ASSUME NEW p \in Pcpus, NEW v \in VPNs, ChangeLocal(w, p, v) PROVE FlushInv'
  <2>1. UNCHANGED <<state, intr, pc, at, arg, waitEvent>>
    BY <1>2 DEF ChangeLocal
  <2>2. TypeOK'
    BY <1>2 DEF ChangeLocal, TypeOK, Dropped, state, intr
  <2>3. \A u \in Worlds : due'[u] \subseteq due[u]
    BY <1>2 DEF ChangeLocal, Dropped, TypeOK
  <2>4. StraysKnown' /\ CountKept'
    BY <2>1 DEF StraysKnown, CountKept, NoStrays, Active, Targets, state, intr
  <2>5. DueKept'
    BY <2>1, <2>3 DEF DueKept, Active, Targets, AboutToDrop, state, intr
  <2> QED
    BY <2>2, <2>4, <2>5
<1>3. ASSUME NEW p \in Pcpus, NEW target \in Pcpus, TLB_FlushPCPU(w, p, target)
      PROVE  FlushInv'
  <2>1. TypeOK'
    BY <1>3 DEF TLB_FlushPCPU, TypeOK, Goto, PCs, VPNs, state, intr
  <2>2. \A u \in Worlds \ {w} : pc'[u] = pc[u] /\ at'[u] = at[u] /\ arg'[u] = arg[u] /\ due'[u] = due[u]
    BY <1>3 DEF TLB_FlushPCPU, Goto, TypeOK
  <2>3. pc'[w] = "enter" /\ Targets(w)' = {target} /\ due'[w] = {target}
    BY <1>3, PcpusAssumption DEF TLB_FlushPCPU, Goto, TypeOK, Targets
  <2>4. \A u \in Worlds \ {w} : Targets(u)' = Targets(u) /\ (Active(u)' <=> Active(u))
    BY <2>2 DEF Targets, Active
  <2>5. ~Active(w)'
    BY <2>3 DEF Active
  <2>6. StraysKnown'
    BY <1>3, <2>2, <2>3, <2>4, <2>5 DEF StraysKnown, TLB_FlushPCPU, state, intr, NoStrays
  <2>7. CountKept'
    BY <1>3, <2>2, <2>4, <2>5 DEF CountKept, TLB_FlushPCPU, state
  <2>8. \A u \in Worlds \ {w}, q \in Pcpus : AboutToDrop(q, u)' <=> AboutToDrop(q, u)
    BY <1>3, <2>2 DEF AboutToDrop, TLB_FlushPCPU, intr
  <2>9. DueKept'
    BY <1>3, <2>1, <2>2, <2>3, <2>4, <2>5, <2>8 DEF DueKept, TypeOK, TLB_FlushPCPU, state
  <2> QED
    BY <2>1, <2>6, <2>7, <2>9
<1>4. Pages \subseteq VPNs /\ FLUSH_VPN \in VPNs
  BY DEF VPNs
<1> QED
  BY <1>1, <1>2, <1>3, <1>4 DEF Call, TLB_Invalidate, TLB_Flush

(* TLBDoInvalidate, without strays: an invalidation begins with nothing    *)
(* pending and its targets counted, and ends when all have counted         *)
(* themselves.                                                             *)
LEMMA StepFlushes ==
  ASSUME OpenWindows = {}, FlushInv, TurnInv', NEW w \in Worlds, Step(w)
  PROVE  FlushInv'
<1> USE DEF FlushInv
<1>1. ASSUME Start(w) PROVE FlushInv'
  <2>1. \A u \in Worlds : ~Active(u)
    BY <1>1 DEF Start, TurnInv, OneInvalidation
  <2>2. \A u \in Worlds : Active(u)' <=> u = w
    BY <1>1, <2>1 DEF Start, Goto, Active, TypeOK
  <2>3. \A u \in Worlds : Targets(u)' = Targets(u)
    BY <1>1 DEF Start, Targets
  <2>4. flushCount' = Cardinality(Targets(w)) /\ acked' = {}
    BY <1>1, CountSet DEF Start
  <2>5. Cardinality(Targets(w) \ {}) \in 0..Cardinality(Pcpus) /\ Targets(w) \ {} = Targets(w)
    BY TargetsCounted
  <2>6. TypeOK'
    BY <1>1, <2>4, <2>5 DEF Start, Goto, TypeOK, PCs, intr
  <2>7. StraysKnown'
    BY <1>1, <2>2, <2>3 DEF Start, Goto, TypeOK, StraysKnown, NoStrays, Active, intr
  <2>8. CountKept'
    BY <1>1, <2>2, <2>3, <2>4, <2>5 DEF Start, CountKept
  <2>9. DueKept'
    BY <1>1, <2>2, <2>3, <2>4 DEF Start, Goto, TypeOK, DueKept, Active, AboutToDrop, intr
  <2> QED
    BY <2>6, <2>7, <2>8, <2>9
<1>2. ASSUME WaitTurn(w) PROVE FlushInv'
  <2>1. UNCHANGED <<state, intr, pc, at, arg, due>>
    BY <1>2 DEF WaitTurn
  <2>2. TypeOK'
    BY <1>2 DEF WaitTurn, WaitOn, TypeOK, state, intr
  <2>3. StraysKnown' /\ CountKept' /\ DueKept'
    BY <2>1 DEF StraysKnown, CountKept, DueKept, NoStrays, Active, Targets, AboutToDrop, state, intr
  <2> QED
    BY <2>2, <2>3
<1>3. ASSUME SendIPI(w) PROVE FlushInv'
  <2>1. Active(w) /\ \A u \in Worlds : Active(u)' <=> Active(u)
    BY <1>3 DEF SendIPI, Goto, Active, TypeOK
  <2>2. \A u \in Worlds : Active(u) => u = w
    BY <2>1 DEF TurnInv, OneInvalidation
  <2>3. Targets(w) \subseteq Pcpus /\ \A u \in Worlds : Targets(u)' = Targets(u)
    BY <1>3, TargetsCounted DEF SendIPI, Targets
  <2>4. TypeOK'
    BY <1>3, <2>3 DEF SendIPI, Goto, TypeOK, PCs, state
  <2>5. pc'[w] = "spin" /\ \A u \in Worlds \ {w} : pc'[u] = pc[u]
    BY <1>3 DEF SendIPI, Goto, TypeOK
  <2>6. invalidateInProgress /\ \A u \in Worlds : pc'[u] # "finish"
    BY <2>1, <2>2, <2>5 DEF TurnInv, OneInvalidation, Active
  <2>7. StraysKnown'
    BY <1>3, <2>1, <2>2, <2>3, <2>6 DEF SendIPI, StraysKnown, state
  <2>8. CountKept'
    BY <1>3, <2>1, <2>3 DEF SendIPI, CountKept, state
  <2>9. DueKept'
    BY <1>3, <2>1, <2>3, <2>5 DEF SendIPI, DueKept, AboutToDrop, state
  <2> QED
    BY <2>4, <2>7, <2>8, <2>9
<1>4. ASSUME SpinDone(w) PROVE FlushInv'
  <2>1. Active(w) /\ NoStrays /\ \A u \in Worlds : Active(u)' <=> Active(u)
    BY <1>4 DEF SpinDone, Goto, Active, TypeOK
  <2>2. UNCHANGED <<state, intr, at, arg, waitEvent, due>>
    BY <1>4 DEF SpinDone
  <2>3. pc'[w] = "finish" /\ \A u \in Worlds \ {w} : pc'[u] = pc[u]
    BY <1>4 DEF SpinDone, Goto, TypeOK
  <2>4. Cardinality(Targets(w) \ acked) <= 0
    BY <1>4, <2>1 DEF SpinDone, CountKept
  <2>5. Targets(w) \ acked = {}
    <3>1. IsFiniteSet(Targets(w) \ acked) /\ Cardinality(Targets(w) \ acked) \in Nat
      BY TargetsCounted, FS_CardinalityType
    <3>2. Cardinality(Targets(w) \ acked) = 0
      BY <2>4, <3>1
    <3> QED
      BY <3>1, <3>2, FS_EmptySet
  <2>6. TypeOK'
    BY <1>4, <2>2 DEF SpinDone, Goto, TypeOK, PCs, state, intr
  <2>7. \A u \in Worlds : Targets(u)' = Targets(u)
    BY <2>2 DEF Targets
  <2>8. StraysKnown' /\ CountKept'
    BY <2>1, <2>2, <2>7 DEF StraysKnown, CountKept, NoStrays, state, intr
  <2>9. DueKept'
    BY <2>1, <2>2, <2>3, <2>5, <2>7 DEF DueKept, AboutToDrop, state, intr
  <2> QED
    BY <2>6, <2>8, <2>9
<1>5. ASSUME Finish(w) PROVE FlushInv'
  <2>1. UNCHANGED <<flushVPN, flushCount, acked, intr, at, arg, due>>
    BY <1>5 DEF Finish
  <2>2. pc[w] = "finish" /\ pc'[w] = "done" /\ \A u \in Worlds \ {w} : pc'[u] = pc[u]
    BY <1>5 DEF Finish, Goto, TypeOK
  <2>3. \A u \in Worlds : ~Active(u)'
    BY <1>5 DEF Finish, TurnInv, OneInvalidation
  <2>4. TypeOK'
    BY <1>5, <2>1 DEF Finish, Goto, Wakeup, TypeOK, PCs, intr
  <2>5. StraysKnown'
    BY <2>1, <2>2, <2>3 DEF StraysKnown, NoStrays, Active, intr
  <2>6. CountKept'
    BY <2>3 DEF CountKept
  <2>7. DueKept'
    BY <2>1, <2>2, <2>3 DEF DueKept, Active, Targets, AboutToDrop, intr
  <2> QED
    BY <2>4, <2>5, <2>6, <2>7
<1>6. ASSUME Return(w) PROVE FlushInv'
  <2>1. UNCHANGED <<state, intr, at, waitEvent>>
    BY <1>6 DEF Return
  <2>2. /\ pc[w] = "done" /\ pc'[w] = "idle" /\ due'[w] = {}
        /\ \A u \in Worlds \ {w} : pc'[u] = pc[u] /\ arg'[u] = arg[u] /\ due'[u] = due[u]
    BY <1>6 DEF Return, Goto, TypeOK
  <2>3. TypeOK'
    BY <1>6, <2>1 DEF Return, Goto, AllPages, VPNs, TypeOK, PCs, state, intr
  <2>4. ~Active(w) /\ ~Active(w)' /\ \A u \in Worlds \ {w} : Targets(u)' = Targets(u) /\ (Active(u)' <=> Active(u))
    BY <2>1, <2>2 DEF Targets, Active
  <2>5. StraysKnown' /\ CountKept'
    BY <2>1, <2>2, <2>4 DEF StraysKnown, CountKept, NoStrays, state, intr
  <2>6. DueKept'
    BY <2>1, <2>2, <2>4 DEF DueKept, AboutToDrop, state, intr
  <2> QED
    BY <2>3, <2>5, <2>6
<1> QED
  BY <1>1, <1>2, <1>3, <1>4, <1>5, <1>6 DEF Step

(* A world that is switched in elsewhere while it waits for its turn has   *)
(* other targets, and the page root load does for the one that was left    *)
(* out.                                                                    *)
LEMMA MoveFlushes ==
  ASSUME FlushInv, TurnInv', NEW w \in Worlds, NEW p \in Pcpus, Move(w, p)
  PROVE  FlushInv'
<1> USE DEF FlushInv
<1>1. UNCHANGED <<state, intr, pc, arg, waitEvent>>
  BY DEF Move
<1>2. pc[w] = "enter" /\ ~Active(w) /\ \A u \in Worlds : Active(u)' <=> Active(u)
  BY <1>1 DEF Move, TurnInv, NoLostTurn, Active
<1>3. \A u \in Worlds : due'[u] = due[u] \ {p}
  BY DEF Move, Dropped, Covers
<1>4. \A u \in Worlds \ {w} : Targets(u)' = Targets(u)
  BY <1>1 DEF Move, Targets, TypeOK
<1>5. due[w] \ {p} \subseteq Targets(w)'
  BY <1>1, <1>2 DEF Move, Targets, TypeOK, DueKept
<1>6. TypeOK'
  BY <1>1 DEF Move, Dropped, TypeOK, state, intr
<1>7. StraysKnown' /\ CountKept'
  BY <1>1, <1>2, <1>4 DEF StraysKnown, CountKept, NoStrays, state, intr
<1>8. DueKept'
  BY <1>1, <1>2, <1>3, <1>4, <1>5 DEF DueKept, AboutToDrop, state, intr
<1> QED
  BY <1>6, <1>7, <1>8

(* TLBInvalidateHandler: a target that has not counted itself does, and    *)
(* from then on is about to flush what the invalidation is about.          *)
LEMMA HandlerFlushes ==
  ASSUME FlushInv, TurnInv', NEW p \in Pcpus, Handler(p)
  PROVE  FlushInv'
<1> USE DEF FlushInv
<1>0. \A u \in Worlds : /\ pc'[u] = pc[u] /\ arg'[u] = arg[u] /\ Targets(u)' = Targets(u)
                        /\ Active(u)' <=> Active(u)
  BY DEF Handler, Interrupt, CountDown, NothingToDo, Flush, Targets, Active
<1>1. ASSUME Interrupt(p) PROVE FlushInv'
  <2>1. TypeOK'
    BY <1>1 DEF Interrupt, TypeOK, state
  <2>2. StraysKnown'
    BY <1>0, <1>1 DEF Interrupt, StraysKnown, NoStrays, TypeOK, state
  <2>3. CountKept'
    BY <1>0, <1>1 DEF Interrupt, CountKept, state
  <2>4. \A u \in Worlds, q \in Pcpus : AboutToDrop(q, u)' <=> AboutToDrop(q, u)
    BY <1>1 DEF Interrupt, AboutToDrop, TypeOK
  <2>5. DueKept'
    BY <1>0, <1>1, <2>4 DEF Interrupt, DueKept, TypeOK, state
  <2> QED
    BY <2>1, <2>2, <2>3, <2>5
<1>2. ASSUME CountDown(p) PROVE FlushInv'
  <2>1. PICK w \in Worlds : Active(w)
    BY <1>2 DEF CountDown, TurnInv, OneInvalidation
  <2>2. \A u \in Worlds : Active(u) => u = w
    BY <2>1 DEF TurnInv, OneInvalidation
  <2>3. p \in Targets(w) \ acked
    BY <1>2, <2>1 DEF CountDown, StraysKnown
  <2>4. /\ IsFiniteSet(Targets(w) \ acked) /\ Targets(w) \ acked' = (Targets(w) \ acked) \ {p}
        /\ Cardinality(Targets(w) \ acked') \in 0..Cardinality(Pcpus)
    BY <1>2, TargetsCounted DEF CountDown
  <2>5. flushCount' = Cardinality(Targets(w) \ acked')
    BY <1>2, <2>1, <2>3, <2>4, FS_RemoveElement DEF CountDown, CountKept
  <2>6. TypeOK'
    BY <1>2, <2>4, <2>5 DEF CountDown, TypeOK
  <2>7. StraysKnown'
    BY <1>0, <1>2 DEF CountDown, StraysKnown, NoStrays, TypeOK
  <2>8. CountKept'
    BY <1>0, <1>2, <2>2, <2>5 DEF CountDown, CountKept
  <2>9. \A u \in Worlds, q \in Pcpus : q # p => (AboutToDrop(q, u)' <=> AboutToDrop(q, u))
    BY <1>2 DEF CountDown, AboutToDrop, TypeOK
  <2>10. AboutToDrop(p, w)'
    BY <1>2, <2>1 DEF CountDown, AboutToDrop, TypeOK, CountKept, Covers
  <2>11. \A u \in Worlds : ~AboutToDrop(p, u)
    BY <1>2 DEF CountDown, AboutToDrop
  <2>12. DueKept'
    BY <1>0, <1>2, <2>2, <2>9, <2>10, <2>11 DEF CountDown, DueKept, TypeOK
  <2> QED
    BY <2>6, <2>7, <2>8, <2>12
<1>3. ASSUME NothingToDo(p) PROVE FlushInv'
  <2>1. TypeOK'
    BY <1>3 DEF NothingToDo, TypeOK, state
  <2>2. StraysKnown'
    BY <1>0, <1>3 DEF NothingToDo, StraysKnown, NoStrays, TypeOK, state
  <2>3. CountKept'
    BY <1>0, <1>3 DEF NothingToDo, CountKept, state
  <2>4. \A u \in Worlds, q \in Pcpus : AboutToDrop(q, u)' <=> AboutToDrop(q, u)
    BY <1>3 DEF NothingToDo, AboutToDrop, TypeOK
  <2>5. DueKept'
    BY <1>0, <1>3, <2>4 DEF NothingToDo, DueKept, TypeOK, state
  <2> QED
    BY <2>1, <2>2, <2>3, <2>5
<1>4. ASSUME Flush(p) PROVE FlushInv'
  <2>1. TypeOK'
    BY <1>4 DEF Flush, Dropped, VPNs, TypeOK, state
  <2>2. StraysKnown'
    BY <1>0, <1>4 DEF Flush, StraysKnown, NoStrays, TypeOK, state
  <2>3. CountKept'
    BY <1>0, <1>4 DEF Flush, CountKept, state
  <2>4. \A u \in Worlds, q \in Pcpus : q # p => (AboutToDrop(q, u)' <=> AboutToDrop(q, u))
    BY <1>4 DEF Flush, AboutToDrop, TypeOK
  <2>5. \A u \in Worlds : due'[u] \subseteq due[u] /\ (AboutToDrop(p, u) => p \notin due'[u])
    BY <1>4 DEF Flush, Dropped, AboutToDrop
  <2>6. DueKept'
    BY <1>0, <1>4, <2>4, <2>5 DEF Flush, DueKept, TypeOK, state
  <2> QED
    BY <2>1, <2>2, <2>3, <2>6
<1> QED
  BY <1>1, <1>2, <1>3, <1>4 DEF Handler

(* If invalidations begin without strays, TLB_Validate, TLB_Invalidate,    *)
(* TLB_Flush and TLB_FlushPCPU return only when no processor they are      *)
(* about runs on with the old translation, for any number of processors,   *)
(* worlds and repeated IPIs.                                               *)
THEOREM FlushesDone == ASSUME OpenWindows = {} PROVE Spec => []FlushedOnReturn
<1>1. FlushInv /\ [Next]_vars => FlushInv'
  <2> SUFFICES ASSUME FlushInv, [Next]_vars PROVE FlushInv'
    OBVIOUS
  <2>1. TurnInv'
    BY NextTurns DEF FlushInv
  <2>2. CASE UNCHANGED vars
    BY <2>1, <2>2 DEF FlushInv, TypeOK, StraysKnown, CountKept, DueKept, NoStrays, Active,
                      Targets, AboutToDrop, vars
  <2> QED
    BY <2>1, <2>2, CallFlushes, StepFlushes, MoveFlushes, HandlerFlushes DEF Next
<1>2. FlushInv => FlushedOnReturn
  BY DEF FlushInv, FlushedOnReturn, CountKept, CountExact, DueKept
<1> QED
  BY InitFlush, <1>1, <1>2, PTL DEF Spec

===============================================================================
