------------------------------ MODULE TLBShootdown ------------------------------
(***************************************************************************)
(* The TLB shootdown of main/tlb.c: a world changes a mapping, drops it    *)
(* from the TLB of its own processor and has all the others, or one of     *)
(* them, drop it too.  There is one invalidation at a time; the initiator  *)
(* sends IPIs, sends them again after a while, and spins until each target *)
(* has counted itself.                                                     *)
(*                                                                         *)
(* A stretch under invLock is one action.  What a TLB holds is abstracted  *)
(* to due[w], the processors that may still use a translation older than   *)
(* the change that the call of world w is about.  perCPUFlushGen never     *)
(* exceeds flushGen, and the code only asks whether it is smaller; acked   *)
(* is the set of processors where it is equal.  The initiator is not       *)
(* preempted while it spins, and the panic after too many repeats is left  *)
(* out: a target answers in the end.                                       *)
(***************************************************************************)
EXTENDS Integers, FiniteSets, EventQueue

CONSTANTS
  Pcpus,       \* physical processors
  Worlds,      \* worlds that change mappings
  Pages,       \* virtual pages
  FLUSH_VPN,   \* stands for all pages
  Broadcast,   \* TLB_PCPU_BROADCAST
  OpenWindows  \* unprotected windows processors may step into

ASSUME PcpusAssumption == IsFiniteSet(Pcpus) /\ Broadcast \notin Pcpus
ASSUME PagesAssumption == FLUSH_VPN \notin Pages
ASSUME TLBWindowsAssumption == OpenWindows \subseteq {"stray"}
ASSUME TLBEventAssumption == NoEvent # "inProgress"

VARIABLES
  invalidateInProgress, flushVPN, flushCount,
  acked,      \* the processors that have seen the current generation
  ipi,        \* the processors with an interrupt of the vector pending
  handler,    \* where TLBInvalidateHandler stands on each processor
  hvpn,       \* its local variable vpn, FLUSH_VPN while it has none
  pc,         \* where each world stands
  at,         \* the processor a world runs on
  arg,        \* the page and the processors a call is about
  waitEvent,  \* who sleeps for its turn
  due         \* history: processors yet to drop the old translation

state == <<invalidateInProgress, flushVPN, flushCount, acked>>
intr == <<ipi, handler, hvpn>>
vars == <<invalidateInProgress, flushVPN, flushCount, acked, ipi, handler, hvpn,
          pc, at, arg, waitEvent, due>>

PCs == {"idle", "enter", "send", "spin", "finish", "done"}
VPNs == Pages \cup {FLUSH_VPN}
AllPages == [vpn |-> FLUSH_VPN, pcpu |-> Broadcast]

Init ==
  /\ invalidateInProgress = FALSE
  /\ flushVPN = FLUSH_VPN
  /\ flushCount = 0
  /\ acked = Pcpus
  /\ ipi = {}
  /\ handler = [p \in Pcpus |-> "none"]
  /\ hvpn = [p \in Pcpus |-> FLUSH_VPN]
  /\ pc = [w \in Worlds |-> "idle"]
  /\ at \in [Worlds -> Pcpus]
  /\ arg = [w \in Worlds |-> AllPages]
  /\ waitEvent = [w \in Worlds |-> NoEvent]
  /\ due = [w \in Worlds |-> {}]

-------------------------------------------------------------------------------
Goto(w, to) == pc' = [pc EXCEPT ![w] = to]

Awake(w) == ~IsWaiting(waitEvent, w)

(* No world is in a call on processor p, and no handler interrupts it.     *)
Free(p) ==
  /\ handler[p] = "none"
  /\ \A w \in Worlds : at[w] = p => pc[w] = "idle" \/ IsWaiting(waitEvent, w)

(* World w runs on its processor.                                          *)
Runs(w) == Awake(w) /\ handler[at[w]] = "none"

Covers(v, page) == v = FLUSH_VPN \/ v = page

(* Dropping v (or everything) from the TLB of p, of what is still due.     *)
Dropped(d, p, v) ==
  [w \in Worlds |-> IF Covers(v, arg[w].vpn) THEN d[w] \ {p} ELSE d[w]]

(* The processors a call reaches by IPI.                                   *)
Targets(w) == IF arg[w].pcpu = Broadcast THEN Pcpus \ {at[w]} ELSE {arg[w].pcpu}

(* The page table has changed and the local TLB is up to date; without     *)
(* TLB_LOCALONLY the others follow.  TLB_Validate is as TLB_Invalidate.    *)
Change(w, p, v) ==
  /\ pc[w] = "idle" /\ Free(p)
  /\ at' = [at EXCEPT ![w] = p]
  /\ arg' = [arg EXCEPT ![w] = [vpn |-> v, pcpu |-> Broadcast]]
  /\ due' = [Dropped(due, p, v) EXCEPT ![w] = Pcpus \ {p}]
  /\ Goto(w, "enter")
  /\ UNCHANGED <<state, intr, waitEvent>>

TLB_Invalidate(w, p, v) == Change(w, p, v)

TLB_Flush(w, p) == Change(w, p, FLUSH_VPN)

(* With TLB_LOCALONLY, and TLB_LocalValidate and its like.                 *)
ChangeLocal(w, p, v) ==
  /\ pc[w] = "idle" /\ Free(p)
  /\ due' = Dropped(due, p, v)
  /\ UNCHANGED <<state, intr, pc, at, arg, waitEvent>>

(* TLB_FlushPCPU; for the caller's own processor it is a local flush.      *)
TLB_FlushPCPU(w, p, target) ==
  /\ pc[w] = "idle" /\ Free(p)
  /\ p # target
  /\ at' = [at EXCEPT ![w] = p]
  /\ arg' = [arg EXCEPT ![w] = [vpn |-> FLUSH_VPN, pcpu |-> target]]
  /\ due' = [due EXCEPT ![w] = {target}]
  /\ Goto(w, "enter")
  /\ UNCHANGED <<state, intr, waitEvent>>

-------------------------------------------------------------------------------
(* A slip: the caller's turn has come when it wakes up.                    *)
StartWoken(w) ==
  /\ pc[w] = "enter" /\ Runs(w)
  /\ invalidateInProgress' = TRUE
  /\ flushCount' = IF arg[w].pcpu = Broadcast THEN Cardinality(Pcpus) - 1 ELSE 1
  /\ flushVPN' = arg[w].vpn
  /\ acked' = {}
  /\ Goto(w, "send")
  /\ UNCHANGED <<intr, at, arg, waitEvent, due>>

(* A slip: the generation stays.                                           *)
StartSameGeneration(w) ==
  /\ pc[w] = "enter" /\ Runs(w)
  /\ ~invalidateInProgress
  /\ invalidateInProgress' = TRUE
  /\ flushCount' = IF arg[w].pcpu = Broadcast THEN Cardinality(Pcpus) - 1 ELSE 1
  /\ flushVPN' = arg[w].vpn
  /\ Goto(w, "send")
  /\ UNCHANGED <<acked, intr, at, arg, waitEvent, due>>

(* TLBDoInvalidate, under invLock: the world takes its turn ...            *)
Start(w) ==
  /\ pc[w] = "enter" /\ Runs(w)
  /\ ~invalidateInProgress
  /\ invalidateInProgress' = TRUE
  /\ flushCount' = IF arg[w].pcpu = Broadcast THEN Cardinality(Pcpus) - 1 ELSE 1
  /\ flushVPN' = arg[w].vpn
  /\ acked' = {}
  /\ Goto(w, "send")
  /\ UNCHANGED <<intr, at, arg, waitEvent, due>>

(* ... or sleeps while another invalidation is in progress, ...            *)
WaitTurn(w) ==
  /\ pc[w] = "enter" /\ Runs(w)
  /\ invalidateInProgress
  /\ waitEvent' = WaitOn(waitEvent, w, "inProgress")
  /\ UNCHANGED <<state, intr, pc, at, arg, due>>

(* A slip: the world is switched in without loading the page root.         *)
MoveUnflushed(w, p) ==
  /\ IsWaiting(waitEvent, w) /\ Free(p)
  /\ at' = [at EXCEPT ![w] = p]
  /\ UNCHANGED <<state, intr, pc, arg, waitEvent, due>>

(* ... and may be switched in on another processor, where the switch loads *)
(* the page root and so empties the TLB.                                   *)
Move(w, p) ==
  /\ IsWaiting(waitEvent, w) /\ Free(p)
  /\ at' = [at EXCEPT ![w] = p]
  /\ due' = Dropped(due, p, FLUSH_VPN)
  /\ UNCHANGED <<state, intr, pc, arg, waitEvent>>

(* The IPIs, and the same again when a target is late.                     *)
SendIPI(w) ==
  /\ \/ pc[w] = "send"
     \/ pc[w] = "spin" /\ flushCount > 0
  /\ Runs(w)
  /\ ipi' = ipi \cup Targets(w)
  /\ Goto(w, "spin")
  /\ UNCHANGED <<state, handler, hvpn, at, arg, waitEvent, due>>

(* Interrupts that have been sent and not yet been dealt with.             *)
NoStrays == ipi = {} /\ \A p \in Pcpus : handler[p] # "entered"

(* The spin loop ends.                                                     *)
SpinDone(w) ==
  /\ pc[w] = "spin" /\ Runs(w)
  /\ flushCount <= 0
  /\ "stray" \in OpenWindows \/ NoStrays
  /\ Goto(w, "finish")
  /\ UNCHANGED <<state, intr, at, arg, waitEvent, due>>

(* A slip: nobody is told.                                                 *)
FinishSilent(w) ==
  /\ pc[w] = "finish" /\ Runs(w)
  /\ invalidateInProgress' = FALSE
  /\ Goto(w, "done")
  /\ UNCHANGED <<flushVPN, flushCount, acked, intr, at, arg, waitEvent, due>>

(* The end of TLBDoInvalidate, under invLock: the next one's turn.         *)
Finish(w) ==
  /\ pc[w] = "finish" /\ Runs(w)
  /\ invalidateInProgress' = FALSE
  /\ waitEvent' = Wakeup(waitEvent, "inProgress")
  /\ Goto(w, "done")
  /\ UNCHANGED <<flushVPN, flushCount, acked, intr, at, arg, due>>

Return(w) ==
  /\ pc[w] = "done" /\ Runs(w)
  /\ Goto(w, "idle")
  /\ arg' = [arg EXCEPT ![w] = AllPages]
  /\ due' = [due EXCEPT ![w] = {}]
  /\ UNCHANGED <<state, intr, at, waitEvent>>

-------------------------------------------------------------------------------
(* The interrupt is taken; from here on another may become pending.        *)
Interrupt(p) ==
  /\ p \in ipi /\ handler[p] = "none"
  /\ ipi' = ipi \ {p}
  /\ handler' = [handler EXCEPT ![p] = "entered"]
  /\ UNCHANGED <<state, hvpn, pc, at, arg, waitEvent, due>>

(* TLBInvalidateHandler, under invLock: the processor counts itself, once  *)
(* per generation, before it flushes; or there is nothing to do.           *)
CountDown(p) ==
  /\ handler[p] = "entered"
  /\ invalidateInProgress /\ p \notin acked
  /\ acked' = acked \cup {p}
  /\ flushCount' = flushCount - 1
  /\ hvpn' = [hvpn EXCEPT ![p] = flushVPN]
  /\ handler' = [handler EXCEPT ![p] = "flush"]
  /\ UNCHANGED <<invalidateInProgress, flushVPN, ipi, pc, at, arg, waitEvent, due>>

NothingToDo(p) ==
  /\ handler[p] = "entered"
  /\ ~invalidateInProgress \/ p \in acked
  /\ handler' = [handler EXCEPT ![p] = "none"]
  /\ UNCHANGED <<state, ipi, hvpn, pc, at, arg, waitEvent, due>>

(* A slip: the page is read from flushVPN after the lock is gone, which    *)
(* may be that of the next invalidation by then.                           *)
FlushLate(p) ==
  /\ handler[p] = "flush"
  /\ due' = Dropped(due, p, flushVPN)
  /\ handler' = [handler EXCEPT ![p] = "none"]
  /\ hvpn' = [hvpn EXCEPT ![p] = FLUSH_VPN]
  /\ UNCHANGED <<state, ipi, pc, at, arg, waitEvent>>

(* After the unlock: TLB_FLUSH or TLB_INVALIDATE_PAGE.                     *)
Flush(p) ==
  /\ handler[p] = "flush"
  /\ due' = Dropped(due, p, hvpn[p])
  /\ handler' = [handler EXCEPT ![p] = "none"]
  /\ hvpn' = [hvpn EXCEPT ![p] = FLUSH_VPN]
  /\ UNCHANGED <<state, ipi, pc, at, arg, waitEvent>>

-------------------------------------------------------------------------------
Call(w) ==
  \/ \E p \in Pcpus, v \in Pages : TLB_Invalidate(w, p, v)
  \/ \E p \in Pcpus : TLB_Flush(w, p)
  \/ \E p \in Pcpus, v \in VPNs : ChangeLocal(w, p, v)
  \/ \E p, target \in Pcpus : TLB_FlushPCPU(w, p, target)

Step(w) ==
  \/ Start(w) \/ WaitTurn(w) \/ SendIPI(w) \/ SpinDone(w) \/ Finish(w) \/ Return(w)

Handler(p) == Interrupt(p) \/ CountDown(p) \/ NothingToDo(p) \/ Flush(p)

Next ==
  \/ \E w \in Worlds : Call(w) \/ Step(w) \/ \E p \in Pcpus : Move(w, p)
  \/ \E p \in Pcpus : Handler(p)

Spec == Init /\ [][Next]_vars

(* Interrupts are taken, handlers run on, and so do worlds that are awake. *)
(* A resend is no progress of its own.                                     *)
FairSpec ==
  /\ Spec
  /\ \A p \in Pcpus : WF_vars(Handler(p))
  /\ \A w \in Worlds :
       WF_vars(Start(w) \/ (pc[w] = "send" /\ SendIPI(w)) \/ SpinDone(w)
               \/ Finish(w) \/ Return(w))

-------------------------------------------------------------------------------
(* Types and ranges.                                                       *)
TypeOK ==
  /\ invalidateInProgress \in BOOLEAN
  /\ flushVPN \in VPNs
  /\ flushCount \in 0..Cardinality(Pcpus)
  /\ acked \subseteq Pcpus
  /\ ipi \subseteq Pcpus
  /\ handler \in [Pcpus -> {"none", "entered", "flush"}]
  /\ hvpn \in [Pcpus -> VPNs]
  /\ pc \in [Worlds -> PCs]
  /\ at \in [Worlds -> Pcpus]
  /\ arg \in [Worlds -> [vpn : VPNs, pcpu : Pcpus \cup {Broadcast}]]
  /\ waitEvent \in [Worlds -> {"inProgress", NoEvent}]
  /\ due \in [Worlds -> SUBSET Pcpus]

Active(w) == pc[w] \in {"send", "spin", "finish"}

(* Processor p is in the handler and is going to drop what w has changed   *)
(* before it runs anything else.                                           *)
AboutToDrop(p, w) == handler[p] = "flush" /\ Covers(hvpn[p], arg[w].vpn)

(* flushCount is the number of targets that have not counted themselves.   *)
CountExact ==
  \A w \in Worlds : Active(w) => flushCount = Cardinality(Targets(w) \ acked)

(* When TLB_Validate, TLB_Invalidate, TLB_Flush or TLB_FlushPCPU returns,  *)
(* no processor it is about runs on with the old translation, although     *)
(* processors count themselves before they flush, worlds move while they   *)
(* wait for their turn, and IPIs are sent again: the count the initiator   *)
(* goes by is exact.                                                       *)
FlushedOnReturn ==
  /\ TypeOK
  /\ CountExact
  /\ \A w \in Worlds : pc[w] = "done" => \A p \in due[w] : AboutToDrop(p, w)

(* One invalidation at a time: they share flushVPN, flushCount and the     *)
(* generation.                                                             *)
OneInvalidation ==
  /\ \A v, w \in Worlds : Active(v) /\ Active(w) => v = w
  /\ invalidateInProgress <=> \E w \in Worlds : Active(w)

(* No lost turn: a world that sleeps in TLBDoInvalidate sleeps because an  *)
(* invalidation is in progress, whose end will wake it.                    *)
NoLostTurn ==
  \A w \in Worlds : IsWaiting(waitEvent, w) => pc[w] = "enter" /\ invalidateInProgress

(* An invalidation ends: every target is interrupted and counts itself.    *)
InvalidationEnds == \A w \in Worlds : Active(w) ~> pc[w] = "done"

(* TLB_FlushPCPU: "Invalidate all virtual to machine mappings in the TLB   *)
(* on processor "pcpuNum"", also when an IPI of an earlier invalidation,   *)
(* sent twice, is taken late by another processor.                         *)
FlushPCPUFlushes ==
  \A w \in Worlds :
    pc[w] = "done" /\ arg[w].pcpu # Broadcast => \A p \in due[w] : AboutToDrop(p, w)

===============================================================================
