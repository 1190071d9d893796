-------------------------------- MODULE Timers --------------------------------
(***************************************************************************)
(* The timer wheel of one processor, main/timer.c.  BH_Check ends with a   *)
(* pass of Timer_BHHandler over it (SOFTTIMERS is 1), one at a time thanks *)
(* to bhInProgress.  The handler holds the lock except while a callback    *)
(* runs, so it is cut at the callbacks: one action from the start of a     *)
(* pass, or from the return of a callback, to the next callback or to the  *)
(* end of the pass.  Everything else is called by callbacks and by other   *)
(* processors, under the lock; only Timer_RemoveSync lets go of it, to     *)
(* spin.                                                                   *)
(*                                                                         *)
(* Time is counted in units of TIMER_SPOKE_WIDTH / SpokeWidth cycles, and  *)
(* a pass is begun before the time comes round to the spoke of the last    *)
(* one, as the hard timer interrupt sees to.  Handles are 64 bits wide:    *)
(* their generation does not come round again.                             *)
(***************************************************************************)
EXTENDS Integers, SequencesExt

CONSTANTS
  NumTimers,   \* MAX_TIMERS
  NumSpokes,   \* TIMER_NUM_SPOKES
  SpokeWidth,  \* TIMER_SPOKE_WIDTH
  Period,      \* the period of a periodic timer
  Callers,     \* worlds on other processors that call Timer_RemoveSync
  Groups,      \* timer groups other than DEFAULT_GROUP_ID
  Default,     \* DEFAULT_GROUP_ID
  Kinds,       \* the periods and groups of timers that are added
  MaxTime,     \* bound on the time
  MaxAdds      \* bound on the timers added

Timers == 0 .. NumTimers - 1
Spokes == 0 .. NumSpokes - 1
Generations == 1 .. MaxAdds + 1
Handles == Timers \X Generations
NoTimer == NumTimers

ASSUME TimerBounds ==
  /\ NumTimers \in Nat \ {0} /\ NumSpokes \in Nat \ {0} /\ SpokeWidth \in Nat \ {0}
  /\ Period \in Nat \ {0} /\ MaxTime \in Nat /\ MaxAdds \in Nat
ASSUME GroupsAssumption ==
  Default \notin Groups /\ Kinds \subseteq {0, Period} \X (Groups \cup {Default})

VARIABLES
  timer,      \* the Timer structures
  freeList, wheel,
  curTC, curSpoke,
  now,        \* Timer_GetCycles
  pass,       \* Timer_BHHandler: its curTC, lastSpoke and the timer it fires
  caller,     \* Timer_RemoveSync: where each caller stands, for which handle
  adds,       \* how many timers were added
  late,       \* history: an interrupt moved curTC on during this pass
  fate        \* history: what became of each handle

wheelVars == <<timer, freeList, wheel>>
timerVars == <<timer, freeList, wheel, curTC, curSpoke, now, pass, caller, adds, late, fate>>

TimerTCToSpoke(tc) == (tc \div SpokeWidth) % NumSpokes
HandleOf(i) == <<i, timer[i].generation>>

FreeTimer(generation) ==
  [flags |-> {"FREE"}, deadlineTC |-> 0, periodTC |-> 0, group |-> Default, generation |-> generation]

IdleCaller == [at |-> "idle", handle |-> <<0, 1>>]

(* issued: Timer_AddTC returned the handle.  Of one-shot timers, fired:    *)
(* the callback was called, and removed: a removal returned TRUE.  Of all, *)
(* synced: Timer_RemoveSync returned, and stray: put on the wheel under a  *)
(* time that the running pass does not know.                               *)
NoFate == [issued |-> {}, fired |-> {}, removed |-> {}, synced |-> {}, stray |-> {}]

Timer_Init ==
  /\ timer = [i \in Timers |-> FreeTimer(1)]
  /\ freeList = [k \in 1 .. NumTimers |-> k - 1]
  /\ wheel = [s \in Spokes |-> <<>>]
  /\ curTC = 0 /\ now = 0
  /\ curSpoke = TimerTCToSpoke(0)
  /\ pass = [curTC |-> 0, lastSpoke |-> 0, timer |-> NoTimer]
  /\ caller = [c \in Callers |-> IdleCaller]
  /\ adds = 0
  /\ late = FALSE
  /\ fate = NoFate

-------------------------------------------------------------------------------
(* The state of the wheel, to be handed from one step under the lock to    *)
(* the next: w has the fields timer, freeList, wheel and fate.             *)
Now == [timer |-> timer, freeList |-> freeList, wheel |-> wheel, fate |-> fate]

SetTo(w) ==
  /\ timer' = w.timer
  /\ freeList' = w.freeList
  /\ wheel' = w.wheel
  /\ fate' = w.fate

(* A slip: new timers go to the end of their spoke.                        *)
TimerInsertLast(w, i, tc, spoke) ==
  LET d == w.timer[i].deadlineTC
      s == IF d > tc THEN TimerTCToSpoke(d) ELSE spoke
      h == <<i, w.timer[i].generation>>
  IN [w EXCEPT !.wheel[s] = Append(@, i),
               !.fate.stray = IF late THEN @ \cup {h} ELSE @ \ {h}]

(* The place in list l for a deadline: before the first that is not before *)
(* it, or at the end.                                                      *)
Place(w, l, d) ==
  CHOOSE p \in 1 .. Len(l) + 1 :
    /\ \A k \in 1 .. p - 1 : w.timer[l[k]].deadlineTC < d
    /\ p <= Len(l) => d <= w.timer[l[p]].deadlineTC

(* TimerInsert: into the spoke of the deadline, or the current one if that *)
(* is overdue, before the timers with the same or a later deadline.        *)
TimerInsert(w, i, tc, spoke) ==
  LET d == w.timer[i].deadlineTC
      s == IF d > tc THEN TimerTCToSpoke(d) ELSE spoke
      h == <<i, w.timer[i].generation>>
  IN [timer |-> w.timer, freeList |-> w.freeList,
      wheel |-> [w.wheel EXCEPT ![s] = InsertAt(@, Place(w, @, d), i)],
      fate |-> [w.fate EXCEPT !.stray = IF late THEN @ \cup {h} ELSE @ \ {h}]]

(* The places of l that hold none of S, in their order.                    *)
Kept(l, S) ==
  LET K == {k \in DOMAIN l : l[k] \notin S}
  IN CHOOSE f \in [1 .. Cardinality(K) -> K] : \A a, b \in DOMAIN f : a < b => f[a] < f[b]

Without(l, S) == [n \in DOMAIN Kept(l, S) |-> l[Kept(l, S)[n]]]

(* List_Remove of timers on the wheel.                                     *)
Unlink(w, S) == [w EXCEPT !.wheel = [s \in Spokes |-> Without(w.wheel[s], S)]]

(* A slip: the handle is not changed.                                      *)
TimerFreeKeepHandle(w, i) ==
  [w EXCEPT !.timer[i] = FreeTimer(w.timer[i].generation), !.freeList = Append(@, i)]

(* TimerFree: a new handle, and to the end of the free list.               *)
TimerFree(w, i) ==
  [timer |-> [w.timer EXCEPT ![i] = FreeTimer(w.timer[i].generation + 1)],
   freeList |-> Append(w.freeList, i), wheel |-> w.wheel,
   fate |-> [w.fate EXCEPT !.stray = @ \ {<<i, w.timer[i].generation>>}]]

(* The handle names a timer that is neither free nor expired.              *)
Found(h) == HandleOf(h[1]) = h /\ timer[h[1]].flags \cap {"FREE", "EXPIRED"} = {}

Issued(h) == h \in fate.issued
OneShots(S) == {HandleOf(i) : i \in {j \in S : "ONE_SHOT" \in timer[j].flags}}
OnWheel(i) == \E s \in Spokes : i \in Range(wheel[s])
IsFiring == pass.timer # NoTimer

(* In the history: the callback of handle h is called, a removal of the    *)
(* handles H returns TRUE, Timer_RemoveSync returns for h.                 *)
Fired(w, h) == [w EXCEPT !.fate.fired = @ \cup {h}]
Removed(w, H) == [w EXCEPT !.fate.removed = @ \cup H]
Synced(w, h) == [w EXCEPT !.fate.synced = @ \cup {h}]

-------------------------------------------------------------------------------
Timer_AddTC(deadline, period, group) ==
  LET i == Head(freeList)
      new == [flags |-> {IF period = 0 THEN "ONE_SHOT" ELSE "PERIODIC"},
              deadlineTC |-> deadline, periodTC |-> period,
              group |-> group, generation |-> timer[i].generation]
      w == [timer |-> [timer EXCEPT ![i] = new], freeList |-> Tail(freeList), wheel |-> wheel,
            fate |-> [fate EXCEPT !.issued = @ \cup {HandleOf(i)}]]
  IN /\ adds < MaxAdds
     /\ freeList # <<>>
     /\ SetTo(TimerInsert(w, i, curTC, curSpoke))
     /\ adds' = adds + 1
     /\ UNCHANGED <<curTC, curSpoke, now, pass, caller, late>>

(* A slip: the timer is freed although its callback runs.                  *)
DropFiring(w, i) == TimerFree(Unlink(w, {i}), i)

(* A timer is taken off the wheel; if it is firing the handler frees it.   *)
Drop(w, i) ==
  IF "FIRING" \in w.timer[i].flags
  THEN [Unlink(w, {i}) EXCEPT !.timer[i].flags = @ \cup {"EXPIRED"}]
  ELSE TimerFree(Unlink(w, {i}), i)

Timer_Remove(h) ==
  /\ Found(h)
  /\ SetTo(Removed(Drop(Now, h[1]), OneShots({h[1]})))
  /\ UNCHANGED <<curTC, curSpoke, now, pass, caller, adds, late>>

(* Timer i comes before j as the spokes and their lists are walked.        *)
Before(i, j) ==
  \E s, u \in Spokes : \E a \in DOMAIN wheel[s], b \in DOMAIN wheel[u] :
    wheel[s][a] = i /\ wheel[u][b] = j /\ (s < u \/ (s = u /\ a < b))

(* Timer_RemoveGroup: every timer of the group that is on the wheel; the   *)
(* one that is firing leaves its group, the others are freed in turn.      *)
Timer_RemoveGroup(g) ==
  LET mine == {i \in Timers : OnWheel(i) /\ timer[i].group = g}
      freed == {i \in mine : "FIRING" \notin timer[i].flags}
      left == [i \in Timers |->
                 IF i \in freed THEN FreeTimer(timer[i].generation + 1)
                 ELSE IF i \in mine
                 THEN [timer[i] EXCEPT !.flags = @ \cup {"EXPIRED"}, !.group = Default]
                 ELSE timer[i]]
  IN /\ mine # {}
     /\ \E turns \in [1 .. Cardinality(freed) -> freed] :
          /\ \A a, b \in DOMAIN turns : a < b => Before(turns[a], turns[b])
          /\ SetTo(Removed([timer |-> left, freeList |-> freeList \o turns,
                             wheel |-> Unlink(Now, mine).wheel,
                             fate |-> [fate EXCEPT !.stray = @ \ {HandleOf(i) : i \in freed}]],
                            OneShots(mine)))
     /\ UNCHANGED <<curTC, curSpoke, now, pass, caller, adds, late>>

Timer_ModifyTimeoutTC(h, deadline) ==
  /\ Found(h)
  /\ SetTo(TimerInsert([Unlink(Now, {h[1]}) EXCEPT !.timer[h[1]].deadlineTC = deadline],
                       h[1], curTC, curSpoke))
  /\ UNCHANGED <<curTC, curSpoke, now, pass, caller, adds, late>>

-------------------------------------------------------------------------------
(* A slip: an expired timer is gone already.                               *)
LookIgnoreExpired(c, h) ==
  LET i == h[1] IN
  /\ IF Found(h) /\ "FIRING" \in timer[i].flags
     THEN /\ caller' = [caller EXCEPT ![c] = [at |-> "spin", handle |-> h]]
          /\ UNCHANGED <<wheelVars, fate>>
     ELSE /\ caller' = [caller EXCEPT ![c] = IdleCaller]
          /\ SetTo(Synced(IF Found(h) THEN Removed(Drop(Now, i), OneShots({i})) ELSE Now, h))
  /\ UNCHANGED <<curTC, curSpoke, now, pass, adds, late>>

(* Timer_RemoveSync, under the lock: an expired timer counts too; if it is *)
(* firing the caller spins, if it waits it is removed, and otherwise there *)
(* is none to remove.                                                      *)
Look(c, h) ==
  LET i == h[1]
      here == HandleOf(i) = h /\ "FREE" \notin timer[i].flags
  IN /\ IF here /\ "FIRING" \in timer[i].flags
        THEN /\ caller' = [caller EXCEPT ![c] = [at |-> "spin", handle |-> h]]
             /\ UNCHANGED <<wheelVars, fate>>
        ELSE /\ caller' = [caller EXCEPT ![c] = IdleCaller]
             /\ SetTo(Synced(IF here /\ "EXPIRED" \notin timer[i].flags
                             THEN Removed(TimerFree(Unlink(Now, {i}), i), OneShots({i})) ELSE Now, h))
     /\ UNCHANGED <<curTC, curSpoke, now, pass, adds, late>>

(* Called on a processor other than the wheel's.                           *)
Timer_RemoveSync(c, h) ==
  /\ caller[c].at = "idle"
  /\ Issued(h)
  /\ Look(c, h)

LookAgain(c) ==
  /\ caller[c].at = "look"
  /\ Look(c, caller[c].handle)

(* The caller, without the lock, finds that the timer is not firing, be it *)
(* the same timer or another one in its place.                             *)
SpinDone(c) ==
  /\ caller[c].at = "spin"
  /\ "FIRING" \notin timer[caller[c].handle[1]].flags
  /\ caller' = [caller EXCEPT ![c].at = "look"]
  /\ UNCHANGED <<wheelVars, curTC, curSpoke, now, pass, adds, late, fate>>

-------------------------------------------------------------------------------
(* The spokes a pass has yet to visit, as distances from the current one.  *)
Ahead(lastSpoke) == 0 .. (lastSpoke - curSpoke) % NumSpokes
SpokeAt(k) == (curSpoke + k) % NumSpokes

(* Those of them whose first timer is due.                                 *)
Due(w, tc, lastSpoke) ==
  {k \in Ahead(lastSpoke) : LET l == w.wheel[SpokeAt(k)] IN l # <<>> /\ w.timer[Head(l)].deadlineTC <= tc}

(* The first due timer leaves its spoke: a periodic one goes back on the   *)
(* wheel at once, a one-shot is marked to be freed.                        *)
Fire(w, i, tc, wheelTC, spoke) ==
  LET off == Unlink(w, {i})
      next == w.timer[i].deadlineTC + w.timer[i].periodTC
      deadline == IF next < tc THEN tc + w.timer[i].periodTC ELSE next
      again == [w.timer[i] EXCEPT !.deadlineTC = deadline, !.flags = @ \cup {"FIRING"}]
  IN IF "PERIODIC" \in w.timer[i].flags
     THEN TimerInsert([off EXCEPT !.timer[i] = again], i, wheelTC, spoke)
     ELSE [off EXCEPT !.timer[i].flags = @ \cup {"FIRING", "EXPIRED"}]

(* From state w: on to the next callback, or to the end of the pass.       *)
Advance(w, tc, lastSpoke, wheelTC) ==
  LET ks == Due(w, tc, lastSpoke)
      k == CHOOSE j \in ks : \A l \in ks : j <= l
      i == Head(w.wheel[SpokeAt(k)])
      h == <<i, w.timer[i].generation>>
  IN IF ks = {}
     THEN /\ SetTo(w)
          /\ curSpoke' = lastSpoke
          /\ pass' = [curTC |-> tc, lastSpoke |-> lastSpoke, timer |-> NoTimer]
     ELSE /\ SetTo(IF "ONE_SHOT" \in w.timer[i].flags
                   THEN Fired(Fire(w, i, tc, wheelTC, SpokeAt(k)), h)
                   ELSE Fire(w, i, tc, wheelTC, SpokeAt(k)))
          /\ curSpoke' = SpokeAt(k)
          /\ pass' = [curTC |-> tc, lastSpoke |-> lastSpoke, timer |-> i]

(* Timer_BHHandler begins a pass.                                          *)
Timer_BHHandler ==
  /\ ~IsFiring
  /\ curTC' = now
  /\ late' = FALSE
  /\ Advance(Now, now, TimerTCToSpoke(now), now)
  /\ UNCHANGED <<now, caller, adds>>

(* A callback has returned; a timer that expired meanwhile is freed.       *)
CallbackReturns ==
  LET i == pass.timer
      cleared == [Now EXCEPT !.timer[i].flags = @ \ {"FIRING"}]
  IN /\ IsFiring
     /\ Advance(IF "EXPIRED" \in timer[i].flags THEN TimerFree(cleared, i) ELSE cleared,
                pass.curTC, pass.lastSpoke, curTC)
     /\ late' = (late /\ pass'.timer # NoTimer)
     /\ UNCHANGED <<curTC, now, caller, adds>>

(* Timer_Interrupt: on this processor, also while a callback runs.         *)
Timer_Interrupt ==
  /\ curTC # now
  /\ curTC' = now
  /\ late' = (late \/ IsFiring)
  /\ UNCHANGED <<wheelVars, curSpoke, now, pass, caller, adds, fate>>

(* Time goes on, by less than NumSpokes spokes between two passes.         *)
Tick ==
  /\ now < MaxTime
  /\ (now + 1) \div SpokeWidth - pass.curTC \div SpokeWidth < NumSpokes
  /\ now' = now + 1
  /\ UNCHANGED <<wheelVars, curTC, curSpoke, pass, caller, adds, late, fate>>

(* Already overdue, soon, and a whole rotation away.                       *)
Deadlines == {now, now + 1, now + NumSpokes * SpokeWidth} \cap (0 .. MaxTime)

TimersNext ==
  \/ \E d \in Deadlines, k \in Kinds : Timer_AddTC(d, k[1], k[2])
  \/ \E h \in Handles : Timer_Remove(h)
  \/ \E h \in Handles, d \in Deadlines : Timer_ModifyTimeoutTC(h, d)
  \/ \E g \in Groups : Timer_RemoveGroup(g)
  \/ \E c \in Callers : LookAgain(c) \/ SpinDone(c) \/ \E h \in Handles : Timer_RemoveSync(c, h)
  \/ Timer_BHHandler \/ CallbackReturns \/ Timer_Interrupt \/ Tick

TimersSpec == Timer_Init /\ [][TimersNext]_timerVars

-------------------------------------------------------------------------------
(* Types and ranges.                                                       *)
TimersTypeOK ==
  /\ timer \in [Timers -> [flags : SUBSET {"FREE", "ONE_SHOT", "PERIODIC", "FIRING", "EXPIRED"},
                           deadlineTC : 0 .. MaxTime + Period, periodTC : {0, Period},
                           group : Groups \cup {Default}, generation : Generations]]
  /\ freeList \in Seq(Timers)
  /\ wheel \in [Spokes -> Seq(Timers)]
  /\ curTC \in 0 .. now /\ now \in 0 .. MaxTime
  /\ curSpoke \in Spokes
  /\ pass \in [curTC : 0 .. now, lastSpoke : Spokes, timer : Timers \cup {NoTimer}]
  /\ caller \in [Callers -> [at : {"idle", "look", "spin"}, handle : Handles]]
  /\ adds \in 0 .. MaxAdds
  /\ late \in BOOLEAN

Times(l, i) == Cardinality({k \in DOMAIN l : l[k] = i})

(* Every timer structure is in one place: free and once on the free list,  *)
(* once on one spoke of the wheel, or off both, and then it has expired    *)
(* and the handler, which is in its callback, will free it.  TIMER_FIRING  *)
(* is set for the timer whose callback runs and for no other.              *)
PlacesExact ==
  /\ TimersTypeOK
  /\ \A i \in Timers :
    LET f == timer[i].flags
        turns == {p \in Spokes \X (1 .. NumTimers) : p[2] \in DOMAIN wheel[p[1]] /\ wheel[p[1]][p[2]] = i}
    IN /\ Times(freeList, i) = IF "FREE" \in f THEN 1 ELSE 0
       /\ Cardinality(turns) = IF f \cap {"FREE", "EXPIRED"} = {} THEN 1 ELSE 0
       /\ "EXPIRED" \in f => "FIRING" \in f
       /\ "FIRING" \in f <=> pass.timer = i

(* When Timer_RemoveSync has returned, with TRUE or with FALSE, the        *)
(* callback of that timer does not run, and never runs again: its caller   *)
(* may free what the callback uses.  The slot may be in use again.         *)
NoCallbackAfterSync ==
  \A h \in fate.synced :
    /\ ~Found(h)
    /\ IsFiring => HandleOf(pass.timer) # h

(* "For one-shot timers, TRUE indicates that the timer has not fired (and  *)
(* now never will)", for Timer_Remove, Timer_RemoveSync and groups alike.  *)
RemoveTruthful == fate.removed \cap fate.fired = {}

(* What removing a timer promises, whichever way and while callbacks run:  *)
(* what it returns is true, and after Timer_RemoveSync all is over.        *)
RemovalKept == NoCallbackAfterSync /\ RemoveTruthful

(* Timer_Pending: "the result will never change from FALSE back to TRUE",  *)
(* so a handle that was removed or has fired never names another timer.    *)
PendingNeverReturns ==
  [][\A h \in Handles : Issued(h) /\ ~Found(h) => ~Found(h)']_timerVars

(* A pass leaves no timer behind that was due when it began, whatever was  *)
(* added, moved or removed while callbacks ran and however the deadlines   *)
(* share spokes.  Timers put on the wheel after an interrupt moved curTC   *)
(* on in the middle of a pass are excepted: see the README.                *)
NoneLeftBehind ==
  [][pass' # pass /\ ~IsFiring' =>
       \A i \in Timers : (OnWheel(i) /\ HandleOf(i) \notin fate.stray => timer[i].deadlineTC > pass.curTC)']_timerVars

(* "already overdue; fire as soon as possible": the same without the       *)
(* exception; a timer that is due when a pass begins fires in that pass.   *)
OverdueFires ==
  [][pass' # pass /\ ~IsFiring' =>
       \A i \in Timers : (OnWheel(i) => timer[i].deadlineTC > pass.curTC)']_timerVars

===============================================================================
