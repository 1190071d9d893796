------------------------------- MODULE UserPipe -------------------------------
(***************************************************************************)
(* The waits of user threads, user/userThread.c, under the pipe of         *)
(* user/userPipe.c: reads, writes, closes, UserObj_Poll and                *)
(* UserThread_Sleep, interrupted by UserThread_KillPeers, by UserSig_Send  *)
(* and by timeouts.                                                        *)
(*                                                                         *)
(* What is done under the pipe's semaphore touches the buffer alone and is *)
(* one step; a waitLock is a step of its own, except that a thread on its  *)
(* way to sleep holds it from the check of its bits to CpuSched_Wait, and  *)
(* has released the semaphore in between.  The processor calls one timer   *)
(* back at a time, and Timer_Remove does not wait for a callback that      *)
(* runs.  A thread in a read or a write holds a reference to its end of    *)
(* the pipe, one that sleeps in a poll does not.                           *)
(***************************************************************************)
EXTENDS Naturals

CONSTANTS
  Threads, Cartels,
  CartelOf,       \* the cartel of each thread
  readCartel, writeCartel,
  PipeSize,       \* PIPE_BUFFER_SIZE
  Menu,           \* the system calls each thread may make
  CopyInFaults,   \* which of the two copies of a write may fault
  CopyOutFaults,  \* which of the two copies of a read may fault
  MaxCalls,       \* bound on the system calls made
  MaxSignals,     \* bound on the signals sent
  Nobody

ASSUME CartelAssumption ==
  CartelOf \in [Threads -> Cartels] /\ {readCartel, writeCartel} \subseteq Cartels
ASSUME PipeAssumption ==
  /\ PipeSize \in Nat \ {0}
  /\ MaxCalls \in Nat /\ MaxSignals \in Nat
  /\ CopyInFaults \cup CopyOutFaults \subseteq {1, 2}
ASSUME NobodyAssumption == Nobody \notin Threads

Ends == {"read", "write"}
Other(e) == CHOOSE f \in Ends : f # e
CartelAt(e) == IF e = "read" THEN readCartel ELSE writeCartel
Bytes == 0 .. PipeSize

NoCall == [kind |-> "none", end |-> "read", len |-> 0, left |-> 0,
           block |-> FALSE, timed |-> FALSE]

Transfer(e, n, b) == [kind |-> "transfer", end |-> e, len |-> n, left |-> n,
                      block |-> b, timed |-> FALSE]

PollCall(e, b) == [NoCall EXCEPT !.kind = "poll", !.end = e, !.block = TRUE, !.timed = b]

CloseCall(e) == [NoCall EXCEPT !.kind = "close", !.end = e]

SleepCall == [NoCall EXCEPT !.kind = "sleep", !.block = TRUE, !.timed = TRUE]

\* A read or a write of no bytes returns at once, and is left out.
ASSUME MenuAssumption ==
  \A t \in Threads : \A c \in Menu[t] :
    /\ c.end \in Ends /\ c.block \in BOOLEAN /\ c.timed \in BOOLEAN
    /\ c.kind = "transfer" => c.len \in Nat \ {0}

VARIABLES
  pc, call,            \* where each thread stands, in which call
  state,               \* waitInfo.state
  asleep,              \* the event a thread sleeps on, or "none"
  dead, pendingBit,
  kicks,               \* bits set by kickers that have yet to take the waitLock
  armed, firing,       \* timeouts on the timer wheel, and called back
  waitLock,            \* who sleeps off holding the waitLock of each cartel
  sema,                \* who holds the semaphore of the pipe
  buf, pipe,           \* UserPipe_Buf
  pollers,             \* readPollWaiters and writePollWaiters
  written, taken,      \* how many bytes went in and came out, modulo PipeSize + 1
  calls, signals       \* how many calls were made and signals sent

threadVars == <<dead, pendingBit, kicks, signals>>
waitVars == <<state, asleep, armed, firing, waitLock>>
pipeVars == <<buf, pipe, written, taken>>
vars == <<pc, call, state, asleep, dead, pendingBit, kicks, armed, firing, waitLock,
          sema, buf, pipe, pollers, written, taken, calls, signals>>

Init ==
  /\ pc = [t \in Threads |-> "user"]
  /\ call = [t \in Threads |-> NoCall]
  /\ state = [t \in Threads |-> "AWAKE"]
  /\ asleep = [t \in Threads |-> "none"]
  /\ dead = [t \in Threads |-> FALSE]
  /\ pendingBit = [t \in Threads |-> FALSE]
  /\ kicks = {} /\ armed = {} /\ firing = {}
  /\ waitLock = [c \in Cartels |-> Nobody]
  /\ sema = Nobody
  /\ buf = [i \in 0 .. PipeSize - 1 |-> 0]
  /\ pipe = [readStart |-> 0, readLength |-> 0, open |-> Ends]
  /\ pollers = [e \in Ends |-> {}]
  /\ written = 0 /\ taken = 0
  /\ calls = 0 /\ signals = 0

(***************************************************************************)
(* Where threads stand.                                                    *)
(***************************************************************************)
Go(t, where) == pc' = [pc EXCEPT ![t] = where]

Return(t) == Go(t, "user") /\ call' = [call EXCEPT ![t] = NoCall]

Transfers(t, e) == call[t].kind = "transfer" /\ call[t].end = e

Free(c) == waitLock[c] = Nobody

(***************************************************************************)
(* Wakeups, all under a waitLock.                                          *)
(***************************************************************************)

\* What a wakeup makes of the state of a world that is not awake: an
\* interruption prevails over a completion, that over a timeout.
Overridden(old, new) ==
  IF \/ old \in {"BLOCKED", "PRE_BLOCK"}
     \/ old = "TIMEOUT" /\ new \in {"WAIT_COMPLETE", "BACKOUT"}
     \/ old = "WAIT_COMPLETE" /\ new = "BACKOUT"
  THEN new ELSE old

UserThread_WakeupWorld(t, new) ==
  /\ Free(CartelOf[t])
  /\ IF state[t] = "AWAKE"
     THEN UNCHANGED <<state, asleep>>
     ELSE /\ state' = [state EXCEPT ![t] = Overridden(@, new)]
          /\ asleep' = [asleep EXCEPT ![t] = "none"]

\* Wakes whoever sleeps as reader or writer, under the waitLock of cartel c.
UserThread_WakeupGroup(c, e) ==
  /\ Free(c)
  /\ asleep' = [t \in Threads |-> IF asleep[t] = e THEN "none" ELSE asleep[t]]

(***************************************************************************)
(* System calls.                                                           *)
(***************************************************************************)
Called(t, c, where) ==
  /\ c \in Menu[t]
  /\ pc[t] = "user" /\ ~dead[t] /\ calls < MaxCalls
  /\ calls' = calls + 1
  /\ call' = [call EXCEPT ![t] = c]
  /\ Go(t, where)

HasEnd(t, e) == CartelOf[t] = CartelAt(e) /\ e \in pipe.open

CallTransfer(t, e, n, b) ==
  /\ HasEnd(t, e)
  /\ Called(t, Transfer(e, n, b), "enter")
  /\ UNCHANGED <<waitVars, threadVars, sema, pipeVars, pollers>>

UserThread_Sleep(t) ==
  /\ Called(t, SleepCall, "wait")
  /\ UNCHANGED <<waitVars, threadVars, sema, pipeVars, pollers>>

\* UserObj_Poll begins with UserThread_PrepareToWait.
UserObj_Poll(t, e, b) ==
  /\ HasEnd(t, e)
  /\ Called(t, PollCall(e, b), "register")
  /\ Free(CartelOf[t])
  /\ state' = [state EXCEPT ![t] = "PRE_BLOCK"]
  /\ UNCHANGED <<asleep, armed, firing, waitLock, threadVars, sema, pipeVars, pollers>>

\* The last reference to an end is gone: nobody reads, or writes, there.
UserPipe_Close(t, e) ==
  /\ HasEnd(t, e)
  /\ \A u \in Threads : ~Transfers(u, e)
  /\ sema = Nobody
  /\ Called(t, CloseCall(e),
            IF Other(e) \in pipe.open THEN "closed" ELSE "cleanup")
  /\ pipe' = [pipe EXCEPT !.open = @ \ {e}]
  /\ sema' = t
  /\ UNCHANGED <<waitVars, threadVars, buf, written, taken, pollers>>

(***************************************************************************)
(* Copies, under the semaphore: at most two chunks, where the ring wraps.  *)
(* A fault is the chunk whose copy fails, 0 for none; what was copied      *)
(* before it stays copied.                                                 *)
(***************************************************************************)
Min(i, j) == IF i < j THEN i ELSE j

Copied(chunks, fault) ==
  CASE fault = 1 -> 0
    [] fault = 2 -> chunks[1]
    [] OTHER -> chunks[1] + chunks[2]

FaultsIn(chunks, faults) == {0} \cup {i \in faults : chunks[i] > 0}

UserPipeReadNoBlock(n) ==
  LET first == Min(Min(n, pipe.readLength), PipeSize - pipe.readStart)
  IN  <<first, Min(n - first, pipe.readLength - first)>>

\* A small write is whole or not at all.
UserPipeWriteNoBlock(n) ==
  LET end == pipe.readStart + pipe.readLength
      first == IF end < PipeSize THEN Min(n, PipeSize - end)
               ELSE Min(n, pipe.readStart - (end - PipeSize))
  IN  IF n <= PipeSize /\ n > PipeSize - pipe.readLength THEN <<0, 0>>
      ELSE <<first, IF end < PipeSize THEN Min(n - first, pipe.readStart) ELSE 0>>

\* The ring after n bytes went in, the first of them at the end of what is there.
Filled(n) ==
  [i \in DOMAIN buf |->
     LET end == (pipe.readStart + pipe.readLength) % PipeSize
         k == (i + PipeSize - end) % PipeSize
     IN  IF k < n THEN (written + k) % (PipeSize + 1) ELSE buf[i]]

\* A slip: the optimisation that rewinds an empty pipe is dropped.
StartAfterNoRewind(n, fault) == (pipe.readStart + n) % PipeSize

\* readStart after n bytes came out; an empty pipe, read without a fault,
\* starts again at the front.
StartAfter(n, fault) ==
  IF fault = 0 /\ n = pipe.readLength THEN 0 ELSE (pipe.readStart + n) % PipeSize

\* A thread that is about to copy: it holds the semaphore, or takes it now.
AtBuffer(t, e) ==
  /\ Transfers(t, e)
  /\ (pc[t] = "enter" /\ sema = Nobody) \/ pc[t] = "again"

\* How a copy ends: the call fails, or the other side is told.
AfterCopy(t, n, fault) ==
  IF fault = 0
  THEN /\ Go(t, "broadcast") /\ sema' = t
       /\ call' = [call EXCEPT ![t].left = @ - n]
  ELSE Return(t) /\ sema' = Nobody

UserPipe_Read(t) ==
  /\ AtBuffer(t, "read")
  /\ LET chunks == UserPipeReadNoBlock(call[t].left)
     IN  \E fault \in FaultsIn(chunks, CopyOutFaults) :
           LET n == Copied(chunks, fault)
           IN  /\ pipe' = [pipe EXCEPT !.readStart = StartAfter(n, fault), !.readLength = @ - n]
               /\ taken' = (taken + n) % (PipeSize + 1)
               /\ AfterCopy(t, n, fault)
  /\ UNCHANGED <<waitVars, threadVars, buf, written, pollers, calls>>

UserPipe_Write(t) ==
  /\ AtBuffer(t, "write") /\ "read" \in pipe.open
  /\ LET chunks == UserPipeWriteNoBlock(call[t].left)
     IN  \E fault \in FaultsIn(chunks, CopyInFaults) :
           LET n == Copied(chunks, fault)
           IN  /\ pipe' = [pipe EXCEPT !.readLength = @ + n]
               /\ buf' = Filled(n)
               /\ written' = (written + n) % (PipeSize + 1)
               /\ AfterCopy(t, n, fault)
  /\ UNCHANGED <<waitVars, threadVars, taken, pollers, calls>>

\* No reader: VMK_BROKEN_PIPE, and the writer, awake, sends itself SIGPIPE.
BrokenPipe(t) ==
  /\ AtBuffer(t, "write") /\ "read" \notin pipe.open
  /\ pendingBit' = [pendingBit EXCEPT ![t] = TRUE]
  /\ sema' = Nobody
  /\ Return(t)
  /\ UNCHANGED <<waitVars, dead, kicks, signals, pipeVars, pollers, calls>>

(***************************************************************************)
(* After a copy: wake the other side, then wait or be done.                *)
(***************************************************************************)
UserPipeBroadcastTo(t) ==
  /\ pc[t] = "broadcast"
  /\ UserThread_WakeupGroup(CartelOf[t], Other(call[t].end))
  /\ Go(t, "pollers")
  /\ UNCHANGED <<call, state, armed, firing, waitLock, threadVars, sema, pipeVars,
                 pollers, calls>>

\* VMKPoll_WakeupAndRemoveWaiters, one waiter at a time.
WakePoller(t, e, p) ==
  /\ p \in pollers[e]
  /\ UserThread_WakeupWorld(p, "WAIT_COMPLETE")
  /\ pollers' = [pollers EXCEPT ![e] = @ \ {p}]
  /\ UNCHANGED <<pc, call, armed, firing, waitLock, threadVars, sema, pipeVars, calls>>

WakePollers(t) ==
  /\ pc[t] = "pollers"
  /\ \E p \in Threads : WakePoller(t, Other(call[t].end), p)

\* Whether the loop of a read or a write has to wait for the other side.
MustWait(t) ==
  IF call[t].end = "read" THEN call[t].left = call[t].len /\ "write" \in pipe.open
  ELSE call[t].left > 0

TransferDecides(t) ==
  /\ pc[t] = "pollers" /\ pollers[Other(call[t].end)] = {}
  /\ IF MustWait(t) /\ call[t].block
     THEN Go(t, "wait") /\ UNCHANGED <<call, sema>>
     ELSE Return(t) /\ sema' = Nobody
  /\ UNCHANGED <<waitVars, threadVars, pipeVars, pollers, calls>>

\* UserPipe_Close, one end closed: sleepers on the other are woken, under the
\* waitLock of their cartel; pollers are not.
CloseBroadcast(t) ==
  /\ pc[t] = "closed"
  /\ UserThread_WakeupGroup(CartelAt(Other(call[t].end)), Other(call[t].end))
  /\ sema' = Nobody
  /\ Return(t)
  /\ UNCHANGED <<state, armed, firing, waitLock, threadVars, pipeVars, pollers, calls>>

\* Both ends closed: every poller is woken, then the pipe is freed.
UserPipeCleanup(t) ==
  /\ pc[t] = "cleanup"
  /\ \/ \E e \in Ends, p \in Threads : WakePoller(t, e, p)
     \/ /\ \A e \in Ends : pollers[e] = {}
        /\ sema' = Nobody
        /\ Return(t)
        /\ UNCHANGED <<waitVars, threadVars, pipeVars, pollers, calls>>

(***************************************************************************)
(* UserObj_Poll.                                                           *)
(***************************************************************************)

\* UserPipe_Poll has something to tell; so has a descriptor that was closed.
PollReady(e) ==
  \/ e \notin pipe.open
  \/ Other(e) \notin pipe.open /\ (e = "read" => pipe.readLength = 0)
  \/ IF e = "read" THEN pipe.readLength > 0 ELSE pipe.readLength < PipeSize

PollRegister(t) ==
  /\ pc[t] = "register" /\ sema = Nobody
  /\ IF PollReady(call[t].end)
     THEN Go(t, "cancel") /\ UNCHANGED pollers
     ELSE /\ pollers' = [pollers EXCEPT ![call[t].end] = @ \cup {t}]
          /\ Go(t, "wait")
  /\ UNCHANGED <<call, waitVars, threadVars, sema, pipeVars, calls>>

\* UserObjPollCleanupWaiters finds the end by its descriptor, when it is open.
PollCleanup(t) ==
  /\ pc[t] = "polled" /\ sema = Nobody
  /\ pollers' = IF call[t].end \in pipe.open
                THEN [pollers EXCEPT ![call[t].end] = @ \ {t}] ELSE pollers
  /\ Return(t)
  /\ UNCHANGED <<waitVars, threadVars, sema, pipeVars, calls>>

\* Nothing was registered when an end is ready.
UserThread_CancelPreparedWait(t) ==
  /\ pc[t] = "cancel" /\ Free(CartelOf[t])
  /\ state' = [state EXCEPT ![t] = "AWAKE"]
  /\ Return(t)
  /\ UNCHANGED <<asleep, armed, firing, waitLock, threadVars, sema, pipeVars, pollers, calls>>

(***************************************************************************)
(* UserThread_WaitInt.                                                     *)
(***************************************************************************)
Prepared(t) == call[t].kind = "poll"

Interrupted(t) == dead[t] \/ pendingBit[t]

\* How the caller goes on with the state its wait ended in.  BLOCKED is a
\* wakeup by UserThread_WakeupGroup and counts as a completion.
AfterWait(t, s) ==
  CASE call[t].kind = "transfer" /\ s \in {"BLOCKED", "WAIT_COMPLETE"} ->
         Go(t, "again") /\ UNCHANGED <<call, sema>>
    [] call[t].kind = "transfer" /\ s \in {"BACKOUT", "TIMEOUT"} ->
         Return(t) /\ sema' = Nobody
    [] call[t].kind = "poll" -> Go(t, "polled") /\ UNCHANGED <<call, sema>>
    [] OTHER -> Return(t) /\ UNCHANGED sema

\* A wakeup that came before the wait, or a bit set by a kicker, ends it at once.
WaitEarlyReturn(t) ==
  /\ pc[t] = "wait" /\ Free(CartelOf[t])
  /\ (Prepared(t) /\ state[t] # "PRE_BLOCK") \/ Interrupted(t)
  /\ state' = [state EXCEPT ![t] = "AWAKE"]
  /\ AfterWait(t, IF Interrupted(t) THEN "BACKOUT" ELSE state[t])
  /\ UNCHANGED <<asleep, armed, firing, waitLock, threadVars, pipeVars, pollers, calls>>

\* A slip: the waitLock is released with the caller's semaphore.
WaitBlockUnlocked(t) ==
  /\ pc[t] = "wait" /\ Free(CartelOf[t])
  /\ Prepared(t) => state[t] = "PRE_BLOCK"
  /\ ~Interrupted(t)
  /\ armed' = IF call[t].timed THEN armed \cup {t} ELSE armed
  /\ state' = [state EXCEPT ![t] = "BLOCKED"]
  /\ sema' = IF sema = t THEN Nobody ELSE sema
  /\ Go(t, "commit")
  /\ UNCHANGED <<call, asleep, firing, waitLock, threadVars, pipeVars, pollers, calls>>

\* Going to block: the caller's semaphore is released, the waitLock is kept.
WaitBlock(t) ==
  /\ pc[t] = "wait" /\ Free(CartelOf[t])
  /\ Prepared(t) => state[t] = "PRE_BLOCK"
  /\ ~Interrupted(t)
  /\ armed' = IF call[t].timed THEN armed \cup {t} ELSE armed
  /\ state' = [state EXCEPT ![t] = "BLOCKED"]
  /\ waitLock' = [waitLock EXCEPT ![CartelOf[t]] = t]
  /\ sema' = IF sema = t THEN Nobody ELSE sema
  /\ Go(t, "commit")
  /\ UNCHANGED <<call, asleep, firing, threadVars, pipeVars, pollers, calls>>

\* CpuSched_Wait puts the world to sleep and releases the waitLock.
WaitSleep(t) ==
  /\ pc[t] = "commit"
  /\ asleep' = [asleep EXCEPT ![t] =
                  IF call[t].kind = "transfer" THEN call[t].end ELSE "own"]
  /\ waitLock' = [waitLock EXCEPT ![CartelOf[t]] = Nobody]
  /\ Go(t, "sleep")
  /\ UNCHANGED <<call, state, armed, firing, threadVars, sema, pipeVars, pollers, calls>>

\* Woken: the caller's semaphore is taken again.
WaitRetake(t) ==
  /\ pc[t] = "sleep" /\ asleep[t] = "none"
  /\ IF call[t].kind = "transfer" THEN sema = Nobody /\ sema' = t ELSE UNCHANGED sema
  /\ Go(t, "woken")
  /\ UNCHANGED <<call, waitVars, threadVars, pipeVars, pollers, calls>>

\* Timer_Remove takes a timeout off the wheel; one called back is left alone.
WaitReturn(t) ==
  /\ pc[t] = "woken" /\ Free(CartelOf[t])
  /\ armed' = armed \ {t}
  /\ state' = [state EXCEPT ![t] = "AWAKE"]
  /\ AfterWait(t, state[t])
  /\ UNCHANGED <<asleep, firing, waitLock, threadVars, pipeVars, pollers, calls>>

(***************************************************************************)
(* Timeouts, kills and signals.                                            *)
(***************************************************************************)
TimerFires(t) ==
  /\ t \in armed /\ firing = {}
  /\ armed' = armed \ {t}
  /\ firing' = {t}
  /\ UNCHANGED <<pc, call, state, asleep, waitLock, threadVars, sema, pipeVars, pollers, calls>>

UserThreadWaitTimeout(t) ==
  /\ t \in firing
  /\ UserThread_WakeupWorld(t, "TIMEOUT")
  /\ firing' = {}
  /\ UNCHANGED <<pc, call, armed, waitLock, threadVars, sema, pipeVars, pollers, calls>>

\* A slip: only a peer that sleeps is kicked.
KillPeersAsleep(t) ==
  /\ pc[t] # "gone" /\ ~dead[t] /\ \A u \in Threads : <<u, "dead">> \notin kicks
  /\ dead' = [dead EXCEPT ![t] = TRUE]
  /\ kicks' = IF asleep[t] # "none" THEN kicks \cup {<<t, "dead">>} ELSE kicks
  /\ UNCHANGED <<pc, call, waitVars, pendingBit, signals, sema, pipeVars, pollers, calls>>

\* UserThread_KillPeers marks one peer after the other, under the peers lock.
UserThread_KillPeers(t) ==
  /\ pc[t] # "gone" /\ ~dead[t] /\ \A u \in Threads : <<u, "dead">> \notin kicks
  /\ dead' = [dead EXCEPT ![t] = TRUE]
  /\ kicks' = kicks \cup {<<t, "dead">>}
  /\ UNCHANGED <<pc, call, waitVars, pendingBit, signals, sema, pipeVars, pollers, calls>>

UserSig_Send(t) ==
  /\ pc[t] # "gone" /\ signals < MaxSignals /\ <<t, "signal">> \notin kicks
  /\ signals' = signals + 1
  /\ pendingBit' = [pendingBit EXCEPT ![t] = TRUE]
  /\ kicks' = kicks \cup {<<t, "signal">>}
  /\ UNCHANGED <<pc, call, waitVars, dead, sema, pipeVars, pollers, calls>>

\* The one who set a bit of t wakes it.
Kick(t, bit) ==
  /\ <<t, bit>> \in kicks
  /\ UserThread_WakeupWorld(t, "BACKOUT")
  /\ kicks' = kicks \ {<<t, bit>>}
  /\ UNCHANGED <<pc, call, armed, firing, waitLock, dead, pendingBit, signals, sema, pipeVars,
                 pollers, calls>>

\* On the way out of the kernel, not while a sender holds the signal lock.
UserSig_HandlePending(t) ==
  /\ pc[t] = "user" /\ pendingBit[t] /\ ~dead[t] /\ <<t, "signal">> \notin kicks
  /\ pendingBit' = [pendingBit EXCEPT ![t] = FALSE]
  /\ UNCHANGED <<pc, call, waitVars, dead, kicks, signals, sema, pipeVars, pollers, calls>>

UserKernelExit(t) ==
  /\ pc[t] = "user" /\ dead[t]
  /\ Go(t, "gone")
  /\ UNCHANGED <<call, waitVars, threadVars, sema, pipeVars, pollers, calls>>

(***************************************************************************)
(* The specification.                                                      *)
(***************************************************************************)
Call(t) ==
  \/ UserThread_Sleep(t)
  \/ \E c \in Menu[t] :
       \/ c.kind = "close" /\ UserPipe_Close(t, c.end)
       \/ c.kind = "poll" /\ UserObj_Poll(t, c.end, c.timed)
       \/ c.kind = "transfer" /\ CallTransfer(t, c.end, c.len, c.block)

Continue(t) ==
  \/ UserPipe_Read(t) \/ UserPipe_Write(t) \/ BrokenPipe(t)
  \/ UserPipeBroadcastTo(t) \/ WakePollers(t) \/ TransferDecides(t)
  \/ CloseBroadcast(t) \/ UserPipeCleanup(t)
  \/ PollRegister(t) \/ PollCleanup(t) \/ UserThread_CancelPreparedWait(t)
  \/ WaitEarlyReturn(t) \/ WaitBlock(t) \/ WaitSleep(t) \/ WaitRetake(t) \/ WaitReturn(t)
  \/ UserSig_HandlePending(t) \/ UserKernelExit(t)

Next == \E t \in Threads :
  \/ Call(t) \/ Continue(t)
  \/ TimerFires(t) \/ UserThreadWaitTimeout(t)
  \/ UserThread_KillPeers(t) \/ UserSig_Send(t)
  \/ \E bit \in {"dead", "signal"} : Kick(t, bit)

Fairness == \A t \in Threads :
  /\ WF_vars(Continue(t))
  /\ WF_vars(TimerFires(t)) /\ WF_vars(UserThreadWaitTimeout(t))
  /\ \A bit \in {"dead", "signal"} : WF_vars(Kick(t, bit))

Spec == Init /\ [][Next]_vars /\ Fairness

(***************************************************************************)
(* Properties.                                                             *)
(***************************************************************************)
TypeOK ==
  /\ pc \in [Threads -> {"user", "gone", "enter", "again", "broadcast", "pollers", "closed",
                         "cleanup", "register", "polled", "cancel", "wait", "commit", "sleep",
                         "woken"}]
  /\ state \in [Threads -> {"AWAKE", "PRE_BLOCK", "BLOCKED", "TIMEOUT", "BACKOUT",
                            "WAIT_COMPLETE"}]
  /\ asleep \in [Threads -> {"none", "own"} \cup Ends]
  /\ dead \in [Threads -> BOOLEAN] /\ pendingBit \in [Threads -> BOOLEAN]
  /\ kicks \subseteq Threads \X {"dead", "signal"}
  /\ armed \subseteq Threads /\ firing \subseteq Threads
  /\ waitLock \in [Cartels -> Threads \cup {Nobody}]
  /\ sema \in Threads \cup {Nobody}
  /\ buf \in [0 .. PipeSize - 1 -> Bytes]
  /\ pollers \in [Ends -> SUBSET Threads]
  /\ pipe.readStart \in 0 .. PipeSize - 1 /\ pipe.readLength \in Bytes
  /\ pipe.open \subseteq Ends

\* The bytes in the ring, from readStart on, are those that were written and
\* not yet taken, in their order, wherever copies faulted; and an empty pipe
\* starts at the front of the ring.
StreamInOrder ==
  /\ TypeOK
  /\ \A i \in 0 .. pipe.readLength - 1 :
       buf[(pipe.readStart + i) % PipeSize] = (taken + i) % (PipeSize + 1)
  /\ written = (taken + pipe.readLength) % (PipeSize + 1)
  /\ pipe.readLength = 0 => pipe.readStart = 0

\* Past the point of no return of a wait.
Blocking(t) == pc[t] = "commit" \/ (pc[t] = "sleep" /\ asleep[t] # "none")

\* Someone on end e copied, and is about to wake whoever sleeps on the other.
Telling(e, where) == \E u \in Threads : Transfers(u, e) /\ pc[u] \in where

Closing(e) == \E u \in Threads : pc[u] = "closed" /\ call[u].end = e

\* What a sleeping read, write or poll waits for is not there, or the one who
\* brought it is on the way to wake the sleeper.  (A poll is not told that
\* the other end was closed.)
SleepersTold == \A t \in Threads : Blocking(t) =>
  LET e == call[t].end IN
  CASE call[t].kind = "transfer" /\ e = "read" ->
         \/ pipe.readLength = 0 /\ ("write" \in pipe.open \/ Closing("write"))
         \/ Telling("write", {"broadcast"})
    [] call[t].kind = "transfer" /\ e = "write" ->
         \/ /\ \/ pipe.readLength = PipeSize
               \/ call[t].left \in PipeSize - pipe.readLength + 1 .. PipeSize
            /\ "read" \in pipe.open \/ Closing("read")
         \/ Telling("read", {"broadcast"})
    [] call[t].kind = "poll" ->
         \/ pipe.open # Ends \/ ~PollReady(e)
         \/ t \in pollers[e] /\ Telling(Other(e), {"broadcast", "pollers"})
    [] OTHER -> TRUE

\* Whoever sets the bit of a thread that waits is on the way to wake it, or
\* has done so, and then nothing overrides the interruption; a timeout asked
\* for is on the wheel, or being called back, or has woken the sleeper.
KicksHeard == \A t \in Threads :
  /\ pc[t] \in {"commit", "sleep", "woken"} /\ Interrupted(t) =>
       \/ state[t] = "BACKOUT" /\ asleep[t] = "none"
       \/ \E bit \in {"dead", "signal"} : <<t, bit>> \in kicks
  /\ Blocking(t) /\ call[t].timed => t \in armed \cup firing

\* No thread sleeps through what it waits for, nor through a kill, a signal
\* or its timeout.
NobodySleepsThrough == SleepersTold /\ KicksHeard

\* A killed thread comes out of whatever wait it is in and exits; a signal,
\* and a timeout, end the wait they find.
WaitsInterruptible == \A t \in Threads :
  /\ dead[t] ~> pc[t] = "gone"
  /\ pc[t] = "sleep" /\ (pendingBit[t] \/ call[t].timed) ~> pc[t] # "sleep"

\* UserThread_Wait returns VMK_TIMEOUT to those who gave a timeout only, as
\* the callers that give none assert.
TimeoutAsked == \A t \in Threads :
  pc[t] = "woken" /\ state[t] = "TIMEOUT" => call[t].timed
===============================================================================
