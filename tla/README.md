# A TLA+ development of the vmkernel's core: sleeping, waking, worlds and messages

The repository is the source of the ESX virtual machine kernel: about 250
thousand lines of C in which worlds (threads, virtual processors of guests,
user processes) sleep on events, hold semaphores, pass messages, share memory
and drive storage and network. This directory models the parts of it that are
hard to test, model-checks them with TLC and proves the central results with
TLAPS. It is written to grow: the inventory says what there is, the plan what
comes next.

- [Inventory](#inventory)
- [Plan](#plan)
- [Modules and how they correspond to the code](#modules-and-how-they-correspond-to-the-code)
- [Runs and bounds](#runs-and-bounds)
- [Fairness](#fairness)
- [Proofs](#proofs)
- [Where the code and its comments disagree](#where-the-code-and-its-comments-disagree)
- [What is not modelled](#what-is-not-modelled)

## Inventory

### How the parts fit together

Every blocking call of the kernel ends in `CpuSched_Wait(event, reason, lock)`:
the caller holds a spin lock, its virtual processor (vcpu) enters the bucket of
the event in a hashed table (`main/event.c`), the lock is released, and the
processor goes to somebody else (`sched/cpusched.c`). Whoever makes the awaited
condition true calls `CpuSched_Wakeup(event)`; signals, kills and actions call
`CpuSched_ForceWakeup(world)`, which is why every caller has to test its
condition again. On this rest semaphores, RPC, helper worlds, TLB shootdown,
user threads, SCSI commands and swapping.

### Core components

| component | state | operations | what is hard | what makes it correct |
|---|---|---|---|---|
| reader-writer semaphore (`main/semaphore.c`) | four counters, `upgradeWaiter`, three events | begin/end read and write, upgrade, downgrade | stray wakeups, an upgrade that sleeps while it holds a share, which group to wake | exclusion, exact counters, no lost wakeup, no deadlock, atomic upgrade, no starvation of writers |
| counting semaphore (`main/semaphore.c`) | count, waiters, held list, rank | lock, unlock | ranks are checked only in debug builds | count = free units, ordered acquisition does not deadlock |
| RPC connections (`main/rpc.c`) | table of entries, ids with generations, use counts, list per world, `maxIndex` | register, connect, find and lock, release, unregister, world cleanup | the destroyer drops the lock to wait; entries and ids are reused; cleanup reads without a lock | no use after free, one destroyer, stale ids are refused, the lists the cleanup reads are exact, cleanup leaves nothing behind |
| RPC messages (`main/rpc.c`) | message, reply and free lists, pending bit, tokens, poll waiters | send, get message, post reply, get reply, poll, timeouts | copies run without the lock and may fault; messages and replies share an event | no buffer lost or shared, no sleeper or poller forgotten, replies reach their callers |
| event table (`main/event.c`) | buckets of waiting worlds, a lock each | insert, remove, wake all of an event | two events in a bucket, a bucket chosen from an unlocked read | a vcpu is in the table exactly while it waits, in the right bucket |
| wait and wakeup (`sched/cpusched.c`) | run state, wait event, action mask, notification hint | wait, wake, force wake, busy-wait and hand-back | sleeper, waker, poster and monitor each see a part of the state | no lost wakeup, no lost action, no lock cycle |
| actions (`main/action.h`) | status word and vector per vcpu | post, set, clear by the monitor | two words without a lock | nothing posted is overlooked |
| helper worlds (`main/helper.c`) | request slots and queue per type, completion ring | request, status, cancel, make asynchronous, complete | cancel against dequeue and completion, slots reused, ring read without a lock | a request runs or is cancelled, once; a handle means one request; the waiter is notified |
| TLB shootdown (`main/tlb.c`) | one invalidation at a time, generations, count of processors left | invalidate, flush, handler | IPIs sent again, the handler counts before it flushes | no stale mapping after return, waiters get their turn |
| timers (`main/timer.c`) | a wheel per processor, generations in handles | add, remove, remove and wait, fire | removal while firing on another processor, reused slots | no callback after a synchronous removal |
| bottom halves (`main/bh.c`) | pending bits per processor, world and global | set, check | bits set while handlers run, nesting | every bit set is followed by its handler |
| worlds (`main/world.c`) | table, reference and reader counts, kill level | create, find, release, kill, reap | look-up against reaping | no reaped world in use, every killed world is reaped |
| CPU scheduling proper (`sched/cpusched.c`) | vtimes, run queues, co-scheduling states, cells | choose, dispatch, migrate, co-deschedule | races of two processors over one virtual machine | co-started and co-stopped consistently |
| memory scheduling (`sched/memsched.c`) | reservations, targets, memory state | admit, reallocate, balloon, swap | hysteresis, blocked worlds | admitted reservations can be met, blocked worlds go on |
| guest memory (`main/alloc.c`, `swap.c`, `pshare.c`) | state of each guest page, reference counts of shared frames | fault in, swap, share, remap, balloon | I/O in flight against changes of the page | a page has one frame or one swap slot |
| buddy allocator (`main/buddy.c`) | free lists by size | allocate, free, hot add | joining across ranges | buffers are disjoint |
| storage (`storage/`, `virtscsi/`) | commands, paths, reservations | issue, complete, fail over, reset | resets against completions, failover | a command completes once |
| network (`net/`) | portsets, ports, packets, chains of I/O | connect, enable, disable, send | disable against packets in flight | no packet through a port that is gone |
| file systems (`filesystems/`) | caches of volumes and objects | look up, open, release, evict | eviction against look-up | an object in use is not evicted |
| user worlds (`user/`) | cartel, threads, wait states, descriptors, pipes, signals | wait, wake up, exit, dump, read, write | timeouts and kills against the start of a wait | no lost wakeup, nobody sleeps after a kill |
| heartbeat (`reliability/heartbeat.c`) | beats per processor | beat, detect | a processor that is busy and not stuck | a stuck processor is reported |

The rest is listed in `PROJECT.json` with the reason it stays out: console OS
switching, interrupts, mappings, heaps, debugging, drivers, zlib, dlmalloc,
headers and build files.

### Hazards

`PROJECT.json` lists, line by line, what can go wrong where a test would hardly
reach, and which property would catch it. A hazard without a property says why.

## Plan

Done:

1. `EventQueue`, `RWSemaphore`, with proofs;
2. `ConnectionLife`, `RPCConnections`, `RPCMessages`, with proofs;
3. `CpuSchedWait`, with proofs;
4. `TLBShootdown`, with proofs;
5. `HelperWorlds`, with proofs;
6. `Timers`, with proofs;
7. `WorldLife`: making, finding, killing and reaping worlds, with proofs;
8. `UserPipe`: the waits of user threads, under a pipe and a poll, with proofs.

Next, in this order:

9. counting semaphores with ranks; bottom halves (one bit set per step, read
   and cleared by two loops, so that the interleavings of even two processors
   fill a run; `Timers` and `TLBShootdown` take from them only that a handler
   follows its bit);
10. the object cache of the file systems; ports and packets in flight;
11. co-scheduling states and memory states of the schedulers; path failover.

Abstract specifications worth stating: `EventQueue` as a specification that
`CpuSchedWait` implements (a world is in at most one queue, and is taken out by
a wakeup of its event or by force); a one-shot request (`pending`, `active`,
`done`) for `HelperWorlds`; an atomic invalidation for the TLB; a sequence of
bytes for `UserPipe`.

Theorems worth proving next: that `CpuSchedWait` implements `EventQueue`, and
`UserPipe` a sequence of bytes, once these are stated as specifications.

## Modules and how they correspond to the code

A stretch of code under one lock is one action; an action ends where the code
releases the lock or sleeps. Where several locks are held and the order
matters (`CpuSchedWait`), locks are variables and taking one is an action of
its own. Definitions keep the names of the functions they translate, and
`PROJECT.json` maps each to its lines. Definitions marked "A slip" are mutants:
plausible mistakes in the definition that follows, each of which some property
must catch.

**`EventQueue`** is what a sleeper sees of event queues: a function from worlds
to the event each one sleeps on. To insert oneself and release the lock is one
step for everyone else (which `CpuSchedWait` examines in detail).

**`RWSemaphore`** is `Semaphore_Begin/EndRead`, `Begin/EndWrite`,
`UpgradeFromShared` and `DowngradeToShared`. `pc[w]` says which access a world
has or which wait loop it is in, the counters and `upgradeWaiter` are those of
the structure, `waitEvent` is the queue. `...Retry` actions are the loops after
a wakeup. `SpuriousWakeup` may take any sleeper out of its queue.

**`ConnectionLife`** is what an entry of the RPC table promises: calls enter
only while it is live, it is freed only when they have left.

**`RPCConnections`** is the table. `cnx[s]` holds the fields of an entry that
decide its life; `RPCResetCnx` really overwrites them, `useCount` included.
`RPC_Register` is cut where the code changes locks (`RPCNewConnection` under
`rpcLock`, `RegisterInit`/`RegisterFail` under `cnxLock`, `RegisterRaise` for
the store to `maxIndex`); `RPCUnregister` is cut where it sleeps, and
`ResetAfterUnlock` is the memset after both locks are gone. `RPC_WorldCleanup`
reads the head of the list, the id in it, and unregisters, in three steps.
Ids are `generation * NumSlots + s` modulo `NumSlots * GenSpace`, so they wrap
in the model as at 2^32 in the code. Callers bring ids that have been given
out, current or stale, or the one their `RPC_Connect` has just returned
(`IdsOf`). That may be `RPC_CNX_INVALID`, the id of an entry that is still being
opened, and as an id it leads to the last entry of the table. If that one is
being opened too, the call enters it (`CallAstray`), with the lists of the entry
at all ones: `RPC_Send`, `RPC_GetMsg`, `RPC_GetReply` and `RPC_PostReply` then
follow a link to `0xffffffff` under the `cnxLock` and fault in the kernel, so
such a caller is not seen again and holds the lock for good; the thread that
opens the entry never comes to set its use count. `RPC_Poll` follows no link,
and goes in and out under one hold of the lock. The run that checks the properties keeps registrations
out of an entry while its destroyer is between the unlock and the memset
(`OpenWindows = {}`); the run that opens that window shows what happens.

**`RPCMessages`** is one connection from registration to the end of
`RPCUnregister`. Lists are sequences of buffers, a payload is the number of the
message it stems from. A caller that copies holds a buffer that is on no list
and has no lock; the copy may fault and the connection may be closing when it
is back (`RPCRelockAndVerify`). `moved` are the pollers a sender has taken off
the connection and not yet woken. A message sent with a token chosen by the
sender is treated like one that expects no reply. Lengths, names and the
notification of the console OS decide nothing here.

**`CpuSchedWait`** is how a vcpu goes to sleep and is woken. `vcpu[v]` has the
run state, the event and the action mask; `hint[v]` is the notification flag in
the monitors' shared area; `status` and `vector` are the two levels of
`Action_Info`; `queue` and `qlock` are the buckets, `cell` the scheduler's lock,
`mutex` the lock a caller passes to the wait, and `ready` what it waits for.
Every lock the wait path takes is an action; wakers take the bucket lock in one
action, and wake, with the cell lock, in the next. `EventLockSnapshot` reads
the run state and the event one after the other, without a lock. A vcpu is
switched out or busy-waits, and a busy-wait ends for an action, a wakeup or
because the processor is needed. The monitor is external: it posts to a
sibling, reads the hint, and serves status before vector, as the comment in
`action.h` and the use of these fields have it. `OpenWindows` keeps monitors
from posting between the last look of a busy-waiter and the moment its hint is
on again; with `"handback"` in it they may, which is the subject of one run.
There is one cell, vcpus are managed, and the retries of the snapshot have no
limit (the code panics after a number of them).

**`TLBShootdown`** is `main/tlb.c`. What a TLB holds is reduced to `due[w]`: the
processors that may still use a translation older than the change the call of
`w` is about. `Change` sets it to all but the caller's own processor, and a
flush of a processor (by its handler, a local call or the load of the page root
in a world switch) takes that processor out. `Start`, `WaitTurn`, `SendIPI`,
`SpinDone` and `Finish` are `TLBDoInvalidate`, cut at its unlocks and at its spin
loop; `SendIPI` may be repeated as long as the count is not 0. `CountDown` and
`Flush` are the two halves of the handler, under and after the lock; `hvpn` is
its local copy of the page. `Interrupt` is the local APIC, with at most one
interrupt of the vector pending per processor. Generations are compared only
with the current one, so `acked` holds the processors that have seen it. A world
may move while it waits for its turn, and is not preempted while it spins. With
`OpenWindows = {}` no interrupt outlives the invalidation it was sent for; with
`"stray"` one may, which is the subject of one run.

**`HelperWorlds`** is `main/helper.c`: `Helper_Request`, `Helper_RequestSync`,
`Helper_RequestStatus`, `Helper_RequestCancel` (`CancelPending`, `CallCancelFn`,
`CancelForced`) and the loop of a helper world. `req[h]`
is a slot, named by its handle (queue and index), `requestList` the list of a
queue and `requestListTail` the pointer to its last element, which is kept
apart because the code keeps it apart; linking behind a wrong tail loses what
it loses in the code. A job stands for the arguments of a request: they are
freed by the function that runs it or by `cancelFn`. A context of the console
OS makes a synchronous request, asks for its status, sleeps on `PENDING`, and is
woken by an entry of the completion ring. The wrappers of `main/host.c` say
what contexts do with a handle (they do not use it after a final answer). The
bound of the ring is not modelled.

**`Timers`** is the wheel of one processor. `timer[i]` is a structure with its
flags, deadline and generation, `freeList` and the spokes of `wheel` are lists of
indices, `curTC` and `curSpoke` are what the bottom half has reached. A pass of
`Timer_BHHandler` runs from callback to callback (`Advance`, `CallbackReturns`),
because only there it lets go of the lock; during a callback everybody, the callback
included, may add, modify and remove timers. `Timer_Interrupt` moves `curTC` on
under a pass, as the code lets it. `Timer_RemoveSync` tries, spins, and tries
again. `fate` remembers, for each handle, whether it was given out, fired,
removed and waited for, which is what the comments of the interface are about.
`Tick` keeps the time from coming round to the spoke at which the last pass ended.
The handler stops at the spoke of the time it has read, so a pass that begins a
rotation late finds it has arrived already and looks at one spoke only. Every exit
from the kernel runs a pass, that from the hard interrupt of each millisecond
included, and a rotation is 2^24 cycles, so a pass is that late only if bottom
halves are kept off for longer. With a bound of one rotation counted in cycles instead of spokes, and spokes
two cycles wide, TLC shows a timer left behind by such a pass.

**`WorldLife`** is the table of worlds in `main/world.c`, with the states of the
scheduler a world passes (`NEW`, running, waiting, woken, leaving, exited, zombie).
`WorldNewInt` takes a slot and is visible from then on; `WorldGroupInit` joins a
group in two looks at the leader; `World_Kill`, `WorldKillDemand`,
`WorldKillUnconditional`, `World_Exit` and `WorldReapCallback` are the ways to
death, timers are counts per id, and `WorldReap`, `WorldReapLook` and
`WorldCleanup` are the three stretches of the helper world that reaps. An id is
a slot and the number of its use. The leader of a group may be reaped between
the two looks of a world that joins it. The second look then finds nothing, the
code does not notice, and goes on with a world in a group whose memory the reap
of the leader clears and perhaps frees, up to the `World_Release` of a leader
that is not there. The maker of such a world is `"lost"` in the model: its world
has no reference, stays half made, and its further life is not followed.
`OpenWindows` names two gaps the code does not close itself: `"halfmade"` (a world
is looked up before it is made; closed where callers learn an id only from
`World_New`), and `"sleep"` (a world goes to sleep just after it was woken to die;
closed where it checks at a safepoint first). The runs that pass have them
closed. With `"halfmade"`, `HeldWorldsIntact` fails after 7 steps, and `"sleep"` is
described below.

**`UserPipe`** is the wait of a user thread (`user/userThread.c`) under its users
with the most demanding order of locks: `UserPipe_Read`, `UserPipe_Write`,
`UserPipe_Close`, `UserObj_Poll` and `UserThread_Sleep`. `state[t]` is
`waitInfo.state`, `asleep[t]` the event in the event table, `waitLock` the lock of
the cartel, held by a thread between its last look (`WaitBlock`) and its sleep
(`WaitSleep`), and `sema` the semaphore of the pipe, released in between.
Wakers are the other side of the pipe (`UserThread_WakeupGroup`), pollers'
lists, timeouts (`armed` on the wheel, `firing` called back), kills and signals
(`kicks`: the bit is set, the waitLock not yet taken). The ring is copied in at
most two chunks; a chunk may fault (`CopyInFaults`, `CopyOutFaults`) and what
was copied before it stays. Bytes are numbered modulo `PipeSize + 1`, so that
order and loss show; `Menu` is what calls each thread makes. Reads and writes
hold a reference to their end, a sleeping poll does not. A poll is not told
that the other end was closed, because `UserPipe_Close` does not tell it;
`SleepersTold` claims what the code claims and no more. The passing run has
one cartel at both ends and the faults of the first chunk of a read only; what
happens otherwise is described below.

The `MC...` modules give TLC its constants: model values, the hash of events to
buckets, which queue a helper serves, the menus of threads, symmetry.

## Runs and bounds

| run | instance | distinct states | properties | shows |
|---|---|---|---|---|
| `rwsemaphore` | 5 worlds | 17852 | `CountersExact`, `WriterExcludesAll`, `SleepersBlocked`, `SomeoneCanMove`, `UpgradeIsAtomic`, `WaitsEnd` | counters are exact, access is exclusive, nobody is forgotten or stuck, an upgrade is atomic and completes, readers do not starve a writer |
| `rpc_connections` | 3 threads, 2 worlds, 1 name, 2 entries, 3 generations, 4 registrations | 405422 | `NoUseAfterFree`, `StaleIdsRejected`, `CleanupComplete`, `WorldListsExact`, `EntryHasALife`, `DestructionEnds` | the table is safe under reuse of entries, wrapping ids and the skipped one, the lists the cleanup reads are exact, the first entry, which is reused the most, implements `ConnectionLife`, destruction and cleanup end |
| `rpc_messages` | 3 worlds, 2 buffers, 2 messages, tokens mod 16 | 974961 | `BuffersAccounted`, `SleepersHaveNothing`, `RepliesMatch`, `PollersNotForgotten`, `ImplementsLife`, `UnregisterCompletes` | buffers are not lost while the connection lives, nobody sleeps beside what he waits for, replies go to their callers, the connection implements `ConnectionLife` and its destruction completes |
| `cpusched_wait` | 2 vcpus, 1 kernel thread, 1 event, 2 buckets | 2497300 | `NoLostAction`, `NoLostEvent`, `VectorSeen`, `NoLockCycle` | neither actions nor events are lost between going to sleep and waking, and locks are taken in an order |
| `tlb_shootdown` | 3 processors, 2 worlds, 1 page | 292851 | `FlushedOnReturn`, `OneInvalidation`, `NoLostTurn`, `InvalidationEnds` | a call returns only when nobody it is about runs on with the old translation; calls take turns and end |
| `helper_worlds` | 2 helper worlds, 1 queue of 2 slots, 2 contexts, 4 requests | 139895 | `HandlesExact`, `JobsAccounted`, `RequestsEnd` | a handle keeps its meaning, every request is run or cancelled once and in the end, and every context that sleeps is woken |
| `timers` | 2 timers, 3 spokes, 1 remote caller, 3 units of time, 3 timers added | 1006033 | `PlacesExact`, `RemovalKept`, `NoneLeftBehind`, `PendingNeverReturns` | no callback after a synchronous removal, truthful results, no timer lost between list, wheel and callback or left behind by a pass, no handle that comes back to life |
| `world_life` | 2 slots, 2 callers, 2 reaps, 2 worlds made, 2 kills, with symmetry | 1216413 | `HeldWorldsIntact`, `LeaderOutlivesMembers` | a world in use is not reaped, a leader outlives the members that got their reference to it |
| `world_reap` | 1 slot used twice, 2 callers, 1 binding, 2 retries for SCSI handles | 109179 | `ReapIsSound`, `KilledReaped` | a world is reaped once, at rest, with nobody left waiting for it, and every killed world is reaped |
| `user_pipe` | a reader and a writer of one cartel, a ring of 3 bytes, 3 calls, 1 signal | 150294 | `StreamInOrder`, `NobodySleepsThrough`, `WaitsInterruptible` | bytes come out in order whatever faults, nobody sleeps through data, room, a kill, a signal or a timeout, and waits can be ended |
| `rpc_reset_race` | 2 threads, window `"reset"` open | 65 | `LockProtectsEntry` | violated |
| `user_socket_wakeup` | as `user_pipe`, reader and writer of two cartels | 13439 | `NobodySleepsThrough` | violated |

Several properties are conjunctions of parts that are defined, and commented,
one by one above them: `HandlesExact`, `PlacesExact`, `HeldWorldsIntact` and
`StreamInOrder` include the types, `WaitsEnd`, `DestructionEnds`, `RequestsEnd`,
`RemovalKept`, `ReapIsSound` and `NobodySleepsThrough` join what the same hazard
is about.

For a run that ends in a violation the number is that of the states found
before it.

Why these bounds are enough. The semaphore tells a world only whether it is
alone, so a third world adds a reader beside an upgrader with a writer waiting;
five leave room for two of each, and the proofs cover every number. The table
has two entries, so that a scan has an order and an entry is reused while
another is live, and three generations. Four registrations bring the first entry
round (its ids are 0, 2, 4 and 0 again), and three of them bring the second to the
end of its ids, where the third skips 5, which is `RPC_CNX_INVALID`, and takes 1;
three threads are a user, a destroyer and somebody who interferes. Two
buffers and two messages let senders run out, let a reply and a message
compete, and let one message overtake another's reply. Two vcpus and a thread
of the vmkernel are a sleeper, a sibling whose monitor posts, and a waker; an
event hashes to one bucket and the absence of one (which the snapshot may
read) to another, so that a wrong bucket is a different lock. Three processors
give an invalidation two targets, one of which may be late, and leave a
processor that is not a target of `TLB_FlushPCPU`; two worlds compete for the
turn; a page and the flush of all pages are told apart.

Two slots and four requests fill a queue, make a slot be used again while a
stale notification of its first use is on the ring, and let a cancel take the
first, the last and the only element of the list; queues share nothing but the
ring, so one is enough. Two timers on three spokes share a spoke and have one
each; three units of time are one rotation of the wheel, so that a deadline
wraps onto the spoke of an earlier one; three additions reuse a structure
whose handle somebody still holds. One periodic kind outside the default group
and one-shot ones in it meet every branch of the removal of groups. A leader
and a member need two slots; a slot used twice needs only one, which leaves
room for liveness and for bindings. In a ring of three bytes reads of 1 and 3
and writes of 2 and 4 wrap, fill, empty, are refused as a whole and are larger
than the ring; three calls are a sleeper, the one that should wake it, and one
before them that moves the start of the ring or arms a late timeout.

Bounds are in the guards and named: `MaxRegistrations` of the table, `MaxSends`
per connection, `MaxJobs`, `MaxTime`, `MaxAdds`, `MaxMade`, `MaxKills`,
`MaxBinds`, `MaxCalls`, `MaxSignals`. Deadlock is checked for the semaphore, the
scheduler and the TLB, which never stop. It is not checked elsewhere: the
registrations, requests, calls or worlds of a bounded run come to an end, and a
destroyed connection or a cartel whose threads are gone has nothing left to do.

Liveness of `CpuSchedWait` is not checked: the graph is too large for TLC's
liveness check without symmetry. Its safety properties say that somebody is on
the way to wake the sleeper, and `NoLockCycle` with the deadlock check that
nobody gets stuck on the way.

## Fairness

- `RWSemaphore`: weak fairness of a world's wait loops, because a world that
  has been woken is scheduled; and of its release, because holders of a kernel
  semaphore give it back. Nothing is assumed about starting calls, upgrades or
  stray wakeups.
- `RPCConnections`: weak fairness of every step that goes on with a call a
  thread has begun. A caller inside a connection that is being destroyed is
  woken by the destroyer's loop and leaves, which `RPCMessages` shows.
- `RPCMessages`: weak fairness of the steps of a world that is inside a call and
  awake. A sleeper is not assumed to wake by itself.
- `HelperWorlds`: weak fairness of a helper world, which is scheduled and whose
  functions return; of the interrupt that empties the ring; and of a context in
  the middle of a status call or a cancel. Nothing makes a context ask or cancel.
- `Timers`: none; its properties are invariants and action properties.
- `WorldLife`: weak fairness of every step that goes on with a call, a timer or a
  reap, and of a world that is to die and awake, which comes to a safepoint. The
  event a world waits for need not come, nobody has to kill, find or bind, and
  references are given back.
- `UserPipe`: weak fairness of the next step of a thread inside a call (and of its
  exit when it is dead), of timers and of a kicker that has set its bit. Nothing
  makes a thread call, and no copy has to succeed.
- `TLBShootdown`: weak fairness of interrupts and their handlers, because
  processors do not keep interrupts off for ever, and of the steps of a world
  that is awake. Sending the IPIs again is not assumed. That a world waiting
  for its turn gets it is not claimed: all waiters are woken and the first to
  take the lock goes on.

## Proofs

`SemaphoreTimersProofs` holds the proofs of two components that stand alone.

For `RWSemaphore` it proves for every finite set of worlds what the run checks
for five: `Exclusion`, `Counting`, `NoLostWakeup`, `Progress` and the action
property `UpgradeAtomicity`. The assumptions are those of the module: the set
of worlds is finite and `NoEvent` is none of the three events.

No property is inductive alone. Exclusion is decided by counters, so it needs
them to be exact; a counter is the cardinality of a set of worlds, so each
action is first shown to move one world from one set to another and to change
each count by at most one (`CountMoves`, `CountStays`), and the tests of the
code are translated to statements about worlds (`CountsMean`). That sleepers
have a reason to sleep needs exactness and the uniqueness of the upgrader
(`EndRead` tests `sharedAccess = 1`, which means the upgrader is the last
reader only if there is one upgrader). The inductive invariant is

    IInv == TypeOK /\ CountersExact /\ WriterExcludesAll /\ OneUpgrader /\ SleepersBlocked

(`OneUpgrader`: no two worlds wait for an upgrade at once)
and the proof that `Next` preserves it has a step for each action. Progress
follows from `IInv` in one state: if everybody slept, the reason each one has
to sleep would need a world with access. An upgrade is atomic because a world
becomes the writer only if nobody else has a share, and the upgrader has one.

For `Timers` it proves all four properties of the run, `TimerPlaces`,
`TimerRemovals` and the action properties `TimerHandles` and `TimerPasses`, for any
number of timers and spokes, any width of a spoke, any period, callers and groups.
Under the lock the code takes a timer off a list, changes it and puts it down
elsewhere, and in between no list has it. So the invariant is stated for any state
`w` of the wheel and a set `X` of timers in the hand:

    WheelOK(w, X, p, n) == w \in Wheels /\ ListsOK(w, X) /\ FlagsOK(w, X, p)
                           /\ GenerationsOK(w, n) /\ FatesOK(w)

(the lists hold each timer once, except those of `X`; the flags fit the list and
the callback `p` that runs; generations are bounded by the `n` additions; a handle
that fired, was removed or was waited for is over). There is a lemma for each
move: take from a list, change in the hand, insert, free. The actions are
sequences of these. The invariant of the system, `TimersInv`, is `WheelOK` with
empty hands, the state of the handler (`PassOK`), of those who spin in
`Timer_RemoveSync` (`CallersOK`), and `SpokesOK`: a timer that is not overdue is
on the spoke of its deadline, and one that is due for the pass is on a spoke of
the arc the pass has yet to walk. `Advance` goes at once to the first spoke of
the arc whose first timer is due; that the spokes before it hold nothing due
follows from the order of deadlines within each (`NoneDueHere`), so the shorter
arc still has all that is due (`AdvanceOK`). What every step may do to handles (`Later`: no generation goes back,
what expired stays expired) gives `TimerHandles`; the end of the arc gives
`TimerPasses`.

`TLBShootdownProofs` proves `Turns` and `TurnsNotLost`, for every finite set of
processors, all worlds and pages and for either value of `OpenWindows`: two worlds
are never in an invalidation at once, and a world sleeps for its turn only while
there is one whose end will wake it. The inductive invariant joins the two
with the types of the flag, the program counters and the queue: that `Finish`
leaves nobody in his turn needs that the finisher was alone, and that it leaves
nobody asleep for ever needs that all sleepers sleep on this event.

`FlushesDone` is `FlushedOnReturn` for `OpenWindows = {}`. Its invariant adds to
the above that interrupts pending or taken are for targets of the invalidation
in progress (`StraysKnown`, which is where the closed window is used), that
`flushCount` is the number of targets that have not acknowledged (`CountKept`),
and where each processor stands that has yet to drop the old translation
(`DueKept`): not counted, or counted and inside the handler that will flush.

`WorldLifeProofs` proves `WorldsHeld`, `LeadersStay` and `ReapsSound` for all
finite sets of slots and callers, any number of helper requests and any bounds.
The hypothesis `OpenWindows \subseteq {"sleep"}` leaves out the window in which the
code really takes a half-made world;
the window in which a kill is not heard may be open, because it costs progress
and not safety. `LeadersStay` is about the members that got their reference, and
covers the reap of a leader while others are on their way into the group; for
those that it overtakes there is nothing to prove, as `MCWorldJoinLost` shows. Everything hangs on `readerCount`, so the invariant `WorldInv`
has it exact: holders plus members of the group (`ReadersExact`). Around it
stand that ids in use are not from the future (`IdsPast`), that one caller at
most makes a world in a slot (`MakersAlone`), where a holder may be (`Held`), and
that a reap that has begun found no reader (`ReapedUnread`).

`CpuSchedWaitProofs` proves `EventsNotLost`, `ActionsSeen` and `NoDeadlock` for all
vcpus, threads, events, buckets and hash functions, with the window open or
closed. `WaitInv` says which program counters own the cell lock, a caller's lock
and a bucket lock (`CellOwned`, `MutexOwned`, `QueuesOwned`), which run state and
event go with each (`StatesOK`), that a vcpu is in the bucket of its event exactly
while it waits (`QueuesExact`), and that what a vcpu is about to wait for cannot
have come as long as the caller's lock is held (`NotYet`). `NoDeadlock` then
follows in one state: the owner of the cell lock spins for nothing, and everybody
else spins for the cell or for a bucket whose owner spins at most for the cell.
`ActionsNotLost` needs `OpenWindows = {}` and two more conjuncts: the hint is on
wherever a monitor's post would otherwise be overlooked (`Hinted`), and for every
stage of going to sleep who will notice a pending action (`ActionsDue`).

`RPCConnectionsProofs` proves `CallsNotFreed`, `StaleIdsRefused`,
`CleanupsComplete`, `ListsKept` and `EntryImplementsLife`, for all finite sets of threads, any table and any number of
registrations, under `OpenWindows = {}`: with the window open the conclusions are
false, which is the first of the violations below. The invariant `CnxInv` gives
for each entry what its fields allow (`EntryOK`: a registered entry has a use count
of one plus its users, is on the list of its world and nowhere else, and has an id
that leads back to it) and for each thread what it has in hand (`ThreadOK`);
`Alone` says that one thread at most opens and one at most destroys an entry, and
`Emptied` that the list of a world that was cleaned up stays empty. Beside it
`Found` says what an id from `RPC_Connect` can be: `RPC_CNX_INVALID`, or one that
leads to an entry that has been registered; a call with the latter holds the lock of an entry that is being
opened, so the entry stays what it is. `ListsKept` adds that no list has an entry
twice (`Listed`), so that the one removal of the destroyer takes all of it. Stale ids
need also that the last id chosen for an entry is the one the next is counted from
(`GensOK`), and arithmetic of the wrap. For the refinement each step is shown to be
a step of `ConnectionLife` on `LifeOf(0)` and `Users(0)`, or to leave both alone.

`RPCMessagesProofs` proves `BuffersKept`, `PollersKept` and
`TrafficImplementsLife` for any number of worlds, buffers and messages, and
`WakeupsNotLost` and `RepliesNotMixed` as long as `RPCNextToken` has not come round
(`TokensLast`). The code draws tokens from 2^32 values and compares nothing else, so
after a full round an old reply could be taken for a new one; the hypothesis says
how far the claim goes. The invariant has a part for any traffic (use count, lists
that hold nothing twice, lists and hands that are disjoint and together complete,
what a poller may count on) and a part under `TokensLast`: a token in use stands
for one message, a message has one sender and one receiver, where each stands fits
what it holds, and sleepers have nothing to take.

`UserPipeProofs` proves `BytesInOrder` for every size of the ring, every sequence
of lengths and every fault, and `NobodyForgotten` for one cartel at both ends
(`readCartel = writeCartel`) and reads that do not fault in their second chunk
(`2 \notin CopyOutFaults`): in both other cases sleepers are forgotten, which
is described below. That the bytes are in order is inductive once the
ring's start, its length and the bytes under copy are related to the two
counts of bytes that went in and came out. The second needs where a thread
stands in its call (`Fits`), who owns a `waitLock` (`Locks`), what state goes with
sleep (`Sleeps`), that a thread which goes to sleep saw nothing to do after it
was last told (`Fruitless`), and that every kill, signal and timeout is still on
its way or has been seen (`Heard`); then for pollers and for readers and writers,
that what has happened at the other end has been told or is being told.

`HelperWorldsProofs` proves `HandlesKept` and `JobsNotLost` for all helper worlds,
queues, slots, contexts and requests. The invariant `HelperInv` relates four views
of a request: the list of its queue, whose elements are the pending slots, once
each, with `requestListTail` the last (`ListsOK`, which rests on what linking,
unlinking and taking the first do to a sequence); the helper worlds, each active
request being with one of its queue (`HandsOK`); the contexts, each kept or
synchronous request having one that knows its handle (`ClientsOK`); and the jobs,
which are in one slot and unhandled exactly while somebody has yet to run or
cancel them (`JobsOK`). That a handle is not reused under its owner needs all four:
a slot is freed by whoever ends the request, and only the owner of the handle, or
nobody, may lose by it.

The hypotheses on `OpenWindows`, on cartels and on faults are each the
condition under which the code keeps what its comments say; where it does not,
a configuration shows it. The assumptions on constants are those of the component
modules and are evaluated in every run. Those that only proofs need: finitely many
slots and callers in `WorldLife`; at least two generations in `RPCConnections`
(with one, the only id of the first entry would be the invalid id); no
transfers of zero bytes in the menus of `UserPipe` (they return at once).
Every inductive invariant was first checked by TLC on the instance of the run.

Only model-checked: all
liveness, because fairness and `ENABLED` are out of the prover's reach
(`WaitsEnd`, `DestructionEnds`, `UnregisterCompletes`, `InvalidationEnds`,
`RequestsEnd`, `KilledReaped`, `WaitsInterruptible`).

## Where the code and its comments disagree

Two runs are expected to end in a violation; each checks a sentence of a
comment.

- `rpc_reset_race`: "cnxLock; // protects everything else in this struct". The
  memset of `RPCRemoveAndUnlockCnx` runs without it, and can wipe a connection
  registered in the same entry meanwhile.
- `user_socket_wakeup`: taking the waitLock in `UserThread_WakeupGroup` "Prevents
  wakeups from getting lost since the Wait code" holds it. A sleeper holds the
  lock of its own cartel, and `UserPipe_Read` and `UserPipe_Write` take that of
  the waker's (`UserPipe_Close` takes the sleeper's). Over a Unix socket the two
  differ, and a reader may go to sleep beside bytes it has just been told of.

Nine more configurations show the same kind of thing and are kept beside the
runs (`tlc -config <cfg> MC...`):

- `MCRPCDestroyFreesBuffers` (`DestroyFreesBuffers`): "Destroy the given
  connection and free its buffers." A reply that is being copied out when the
  connection is destroyed is freed by nobody.
- `MCRPCConnectOpening` (`ConnectedIsAttached`): `RPC_Connect` returns "VMK_OK if
  connection is found and attached". While an entry is being opened the result
  is `VMK_OK` with `RPC_CNX_INVALID`. Within nine steps a call with it is inside the
  last entry: the first name opens and closes again, another registration opens
  the last entry, and `RPCFindAndLockCnx` has no test for the invalid id.
- `MCCpuSchedHalt` (`HaltAwakened`): "The vcpu will be awakened if an action is
  posted to it." An action posted by a sibling's monitor while a halted vcpu is
  handed back from its busy-wait is noticed by nobody until the next event.
- `MCTLBFlushRace` (`FlushPCPUFlushes`): "Invalidate all virtual to machine
  mappings in the TLB on processor "pcpuNum"". A processor that takes an IPI of
  an earlier invalidation late (it was sent twice) counts itself for the next
  one, of which it may be no target; `TLB_FlushPCPU` then returns at once.
- `MCHelperForcedCall` (`CalledAsMade`): a forced cancel turns an active request
  "into an asynchronous request" (`helper.c`, line 1074). The helper reads
  `isSync` without the lock to choose which member of a union to call, so a
  request that was made synchronous may be called as an asynchronous one.
- `MCTimerLeftBehind` (`OverdueFires`): "already overdue; fire as soon as
  possible". When an interrupt moves `curTC` on during a pass, an overdue timer
  added then is put on a spoke the pass has left, and fires a rotation later.
- `MCWorldJoinLost` (`VmmLeaderStays`): the reference taken in `WorldGroupInit`
  "ensures that the vmm leader doesn't go away until all the other members have
  been destroyed". A leader that is killed and reaped after the new world has
  let go of it and before it takes this reference is gone; being bound to it
  does not help, since `World_Destroy` may clear the `hostCount`.
- `MCWorldKillLost` (`DemandHeard`): after `WorldKillDemand` the world "will notice
  that the CpuSched_Wait* funtion returns a VMK_DEATH_PENDING". A world that is
  just about to wait is not asleep yet, is not woken, does not look before it
  sleeps, and no further timer is set.
- `MCUserPipeTimeout` (`TimeoutAsked`): callers without a timeout assert
  `status != VMK_TIMEOUT`. `Timer_Remove` does not wait for a callback that runs,
  so the timeout of one wait can end the next, which had none.

Seen while modelling, without a configuration of their own. In `UserPipe`: a
read whose second copy faults has emptied room and returns without waking the
writers (`CopyOutFaults = {1, 2}` with `MaxCalls = 4` violates
`NobodySleepsThrough`; the comment at line 655 of `userPipe.c`, "Probably read at
least a byte, wake any waiting writers", is about the call that succeeds); `UserPipe_Close`
does not wake those who poll the other end. In worlds: the window `"halfmade"`
above; the readers of `World_GetVmmMembers` (`net/port.c`) find
worlds without the test of `reapStarted`; a second `World_Kill` takes the level
back to `NICE` until its own timer has fired; the assertion in the failure path
of `WorldReapCallback` is the wrong way round. In helper worlds: the pointer
subtraction of `HelperFindRequestHandle` is reversed; the result of a request
forced to be asynchronous is leaked; nothing checks the bound of the completion
ring. In RPC and the TLB: `maxIndex` is compared and
stored under the lock of one entry, so two registrations may leave the smaller
value, and two registrations of one name may both succeed above it; a
failed registration calls `RPCRemoveAndUnlockCnx` with the use count at one,
which that function asserts to be zero; the first token of a connection is 0,
one of the values reserved for special tokens, because nothing initialises
`nextToken`; `RPCGetMsg` arms its timer with the whole timeout again after a
stray wakeup; `TLBDoInvalidate` increments `numIter` twice per round, so it
panics after half of the 50 rounds its condition names.

## What is not modelled

Everything marked `not_modelled` in `PROJECT.json`. Of the modelled components:
time outside `Timers` (a timeout is a wakeup that may come at any moment), statistics, logging,
self tests and debug commands, memory ordering weaker than that of locks and
atomic operations, and the failure of an assertion (release builds are
modelled, in which assertions are empty; properties state what the important
ones say). Two windows of `WorldLife`, one each of `RPCConnections`,
`CpuSchedWait` and `TLBShootdown`, and the faults of the second copy of a read
are modelled and closed in the runs that pass; what they break is said above.

Of the whole kernel this is a small part: drivers, storage, network, file
systems, guest memory, the choice and accounting of the scheduler, and the
console OS make up most of its lines. Each of the next items of the plan is a
state machine of a few hundred lines like those here; most of the rest is
hardware access, formatting, tables and imported code, of which a model would
say nothing the code does not.
