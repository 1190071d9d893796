---------------------------- MODULE RPCConnections ----------------------------
(***************************************************************************)
(* The connection table of main/rpc.c: registration, lookup by name and by *)
(* id, the use count that keeps an entry alive under its callers, and the  *)
(* two ways to destroy it, RPC_Unregister and the death of the world the   *)
(* connection is associated with.                                          *)
(*                                                                         *)
(* rpcLock guards the allocated flags and the worlds' lists, the cnxLock   *)
(* of an entry the rest of it.  A stretch under the lock is one action; a  *)
(* call stops between actions where the code holds no lock of the entry    *)
(* (or, in RegisterRaise, where it holds one that does not protect what it *)
(* writes).  What a call does between entering and leaving, copying and    *)
(* sleeping included, is RPCMessages.                                      *)
(***************************************************************************)
EXTENDS Naturals, Sequences, FiniteSets

CONSTANTS
  Threads,           \* the worlds that run the calls
  Worlds,            \* the worlds connections are associated with
  Names,             \* connection names
  NoName,            \* the name of an entry that has been reset
  NoWorld,           \* INVALID_WORLD_ID
  NumSlots,          \* RPC_CNX_TABLE_SIZE
  GenSpace,          \* ids are NumSlots * GenSpace, 2^32 in the code
  MaxRegistrations,  \* bound: registrations, in all entries together
  OpenWindows        \* the unprotected windows threads may step into

ASSUME SizesAssumption ==
  /\ NumSlots \in Nat \ {0} /\ GenSpace \in Nat \ {0, 1} /\ MaxRegistrations \in Nat
ASSUME NamesAssumption == NoName \notin Names /\ NoWorld \notin Worlds
ASSUME WindowsAssumption == OpenWindows \subseteq {"reset"}

VARIABLES
  cnx,       \* the table
  maxIndex,  \* pendingCnx.maxIndex
  cnxList,   \* for each world, the entries associated with it, in order
  alive,     \* World_Find finds the world
  pc,        \* where each thread stands
  slot,      \* the entry a thread works on
  arg,       \* the connection id a thread has read or was given
  dying,     \* the world whose RPC_WorldCleanup a thread runs, or NoWorld
  issued     \* history: the ids RPC_Register chose for each entry

table == <<cnx, maxIndex, cnxList, alive, issued>>
vars == <<cnx, maxIndex, cnxList, alive, pc, slot, arg, dying, issued>>

Slots == 0 .. NumSlots - 1
IdSpace == NumSlots * GenSpace
Ids == 0 .. IdSpace - 1
RPC_CNX_INVALID == IdSpace - 1  \* 0xffffffff
AllOnes == 255                  \* what memset 0xff leaves in useCount, cut to 8 bits

PCs == {"idle", "opening", "raise", "call", "closing", "reset",
        "connected", "astray", "cleanup", "first", "readId"}

Init ==
  /\ cnx = [s \in Slots |->
             [allocated |-> FALSE, generation |-> 0, id |-> 0, pendingDestroy |-> FALSE,
              useCount |-> 0, name |-> NoName, world |-> NoWorld]]
  /\ maxIndex = 0
  /\ cnxList = [w \in Worlds |-> <<>>]
  /\ alive = [w \in Worlds |-> TRUE]
  /\ pc = [t \in Threads |-> "idle"]
  /\ slot = [t \in Threads |-> 0]
  /\ arg = [t \in Threads |-> 0]
  /\ dying = [t \in Threads |-> NoWorld]
  /\ issued = [s \in Slots |-> <<>>]

-------------------------------------------------------------------------------
(* A thread goes on with entry s and id i.                                 *)
At(t, to, s, i) ==
  /\ pc' = [pc EXCEPT ![t] = to]
  /\ slot' = [slot EXCEPT ![t] = s]
  /\ arg' = [arg EXCEPT ![t] = i]

(* A call is over: back to the caller, or to the loop of RPC_WorldCleanup. *)
Return(t) == At(t, IF dying[t] = NoWorld THEN "idle" ELSE "cleanup", 0, 0)

(* The cnxLock of the entry is not held across actions by another thread.  *)
LockFree(s) == \A t \in Threads : ~(pc[t] \in {"raise", "astray"} /\ slot[t] = s)

(* List_Remove of the one link of entry s.                                 *)
Without(list, s) ==
  LET k == CHOOSE i \in DOMAIN list : list[i] = s
  IN IF \E i \in DOMAIN list : list[i] = s
     THEN SubSeq(list, 1, k - 1) \o SubSeq(list, k + 1, Len(list)) ELSE list

(* RPCResetCnx: everything but allocated, generation and the lock is       *)
(* overwritten; pendingDestroy becomes non-zero.                           *)
RPCResetCnx(c) ==
  [c EXCEPT !.id = RPC_CNX_INVALID, !.pendingDestroy = TRUE,
            !.useCount = AllOnes, !.name = NoName, !.world = NoWorld]

(* RPCFindCnxByName: the entries the scan up to maxIndex can return.       *)
RPCFindCnxByName(n) ==
  {s \in Slots : /\ s <= maxIndex /\ cnx[s].allocated
                 /\ ~cnx[s].pendingDestroy /\ cnx[s].name = n}

FirstOf(S) == CHOOSE s \in S : \A r \in S : s <= r

(* The registrations begun so far.                                         *)
Registrations ==
  Cardinality(UNION {{s} \X DOMAIN issued[s] : s \in Slots})
  + Cardinality({t \in Threads : pc[t] = "opening"})

(* RPCNewConnection: the first part of RPC_Register, under rpcLock.  The   *)
(* failures (VMK_EXISTS, VMK_NO_RESOURCES) change nothing.                 *)
RPCNewConnection(t, n) ==
  LET free == {s \in Slots : ~cnx[s].allocated}
      s    == FirstOf(free)
  IN /\ pc[t] = "idle"
     /\ RPCFindCnxByName(n) = {}
     /\ free # {}
     /\ Registrations < MaxRegistrations
     /\ "reset" \in OpenWindows \/ \A u \in Threads : ~(pc[u] = "reset" /\ slot[u] = s)
     /\ cnx' = [cnx EXCEPT ![s] = [RPCResetCnx(cnx[s]) EXCEPT
                  !.allocated = TRUE, !.pendingDestroy = FALSE, !.name = n]]
     /\ At(t, "opening", s, 0)
     /\ UNCHANGED <<maxIndex, cnxList, alive, dying, issued>>

(* A slip: the test for RPC_CNX_INVALID is lost.                           *)
NewIdUnchecked(s) ==
  [id |-> (cnx[s].generation * NumSlots + s) % IdSpace,
   generation |-> (cnx[s].generation + 1) % GenSpace]

(* The id of a registration and the generation it leaves behind: one id is *)
(* skipped when it would be RPC_CNX_INVALID.                               *)
NewId(s) ==
  LET first == (cnx[s].generation * NumSlots + s) % IdSpace
      next  == (cnx[s].generation + 1) % GenSpace
  IN IF first = RPC_CNX_INVALID
     THEN [id |-> (next * NumSlots + s) % IdSpace, generation |-> (next + 1) % GenSpace]
     ELSE [id |-> first, generation |-> next]

(* The second part of RPC_Register, under cnxLock: the entry gets its id   *)
(* and buffers and is associated with world w, which World_Find must find. *)
RegisterInit(t, w) ==
  LET s == slot[t] IN
  /\ pc[t] = "opening"
  /\ alive[w]
  /\ LockFree(s)
  /\ cnx' = [cnx EXCEPT ![s] =
              [@ EXCEPT !.id = NewId(s).id, !.generation = NewId(s).generation,
                        !.useCount = 1, !.world = w]]
  /\ cnxList' = [cnxList EXCEPT ![w] = Append(@, s)]
  /\ issued' = [issued EXCEPT ![s] = Append(@, NewId(s).id)]
  /\ IF s > maxIndex THEN At(t, "raise", s, 0) ELSE Return(t)
  /\ UNCHANGED <<maxIndex, alive, dying>>

(* RPC_Register fails in RPCInitBuffers (no memory) or in                  *)
(* RPCAssociateWorld (no such world) and undoes the registration.          *)
RegisterFail(t) ==
  LET s == slot[t] IN
  /\ pc[t] = "opening"
  /\ LockFree(s)
  /\ cnx' = [cnx EXCEPT ![s] =
              [@ EXCEPT !.id = NewId(s).id, !.generation = NewId(s).generation,
                        !.useCount = 1, !.pendingDestroy = TRUE, !.allocated = FALSE]]
  /\ issued' = [issued EXCEPT ![s] = Append(@, NewId(s).id)]
  /\ At(t, "reset", s, 0)
  /\ UNCHANGED <<maxIndex, cnxList, alive, dying>>

(* The store to pendingCnx.maxIndex, decided by an earlier comparison; the *)
(* cnxLock held here is that of the one entry.                             *)
RegisterRaise(t) ==
  /\ pc[t] = "raise"
  /\ maxIndex' = slot[t]
  /\ Return(t)
  /\ UNCHANGED <<cnx, cnxList, alive, dying, issued>>

-------------------------------------------------------------------------------
(* RPC_Connect, which may find an entry that is being opened and then      *)
(* gives its caller RPC_CNX_INVALID with VMK_OK; and RPC_Disconnect, which *)
(* has nothing to undo.                                                    *)
RPC_Connect(t, n) ==
  /\ pc[t] = "idle"
  /\ RPCFindCnxByName(n) # {}
  /\ At(t, "connected", 0, cnx[FirstOf(RPCFindCnxByName(n))].id)
  /\ UNCHANGED <<table, dying>>

RPC_Disconnect(t) ==
  /\ pc[t] = "connected"
  /\ Return(t)
  /\ UNCHANGED <<table, dying>>

(* The ids that were given out: those of connections that are live or gone *)
(* (or whose registration failed: such an id must be refused as well).     *)
GivenIds == UNION {{issued[s][k] : k \in DOMAIN issued[s]} : s \in Slots}

(* The ids a caller comes with: what its RPC_Connect returned, or one it   *)
(* has from whoever registered the connection.                             *)
IdsOf(t) ==
  {i \in Ids : \/ pc[t] = "idle" /\ i \in GivenIds
               \/ pc[t] = "connected" /\ i = arg[t]}

(* A slip: the pendingDestroy test of RPCFindAndLockCnx is lost.           *)
CanEnterClosing(i) ==
  LET s == i % NumSlots IN LockFree(s) /\ cnx[s].id = i /\ cnx[s].allocated

(* RPCFindAndLockCnx finds connection i and it is not being destroyed.     *)
CanEnter(i) ==
  LET s == i % NumSlots IN LockFree(s) /\ cnx[s].id = i /\ ~cnx[s].pendingDestroy

(* A call (RPC_Send, RPC_GetMsg, ...) enters: RPCFindAndLockCnx.           *)
RPCFindAndLockCnx(t, i) ==
  LET s == i % NumSlots IN
  /\ i \in IdsOf(t) /\ i # RPC_CNX_INVALID
  /\ CanEnter(i)
  /\ cnx' = [cnx EXCEPT ![s].useCount = @ + 1]
  /\ At(t, "call", s, i)
  /\ UNCHANGED <<maxIndex, cnxList, alive, dying, issued>>

(* A call with the RPC_CNX_INVALID of RPC_Connect enters the last entry    *)
(* while that is being opened: nothing in RPCFindAndLockCnx tells the two  *)
(* apart, and the count goes from all ones to zero.  The lists of such an  *)
(* entry hold all ones as well, so that the caller follows a link to       *)
(* 0xffffffff (RPCAllocMessage, RPC_GetMsg, RPC_GetReply) and faults in    *)
(* the kernel with the cnxLock held: it does not come back, and the thread *)
(* that opens the entry does not get the lock.  RPC_Poll, which follows no *)
(* link, enters and leaves in one stretch and changes nothing.             *)
CallAstray(t) ==
  LET s == RPC_CNX_INVALID % NumSlots IN
  /\ RPC_CNX_INVALID \in IdsOf(t)
  /\ CanEnter(RPC_CNX_INVALID)
  /\ cnx' = [cnx EXCEPT ![s].useCount = 0]
  /\ At(t, "astray", s, RPC_CNX_INVALID)
  /\ UNCHANGED <<maxIndex, cnxList, alive, dying, issued>>

(* ... and leaves: RPCReleaseAndUnlockCnx, which destroys the entry when   *)
(* the count drops to zero.                                                *)
RPCReleaseAndUnlockCnx(t) ==
  LET s == slot[t] IN
  /\ pc[t] = "call"
  /\ LockFree(s)
  /\ cnx' = [cnx EXCEPT ![s].useCount = @ - 1,
                        ![s].allocated = cnx[s].useCount > 1]
  /\ IF cnx[s].useCount > 1 THEN Return(t) ELSE At(t, "reset", s, 0)
  /\ UNCHANGED <<maxIndex, cnxList, alive, dying, issued>>

-------------------------------------------------------------------------------
(* A slip: the destroyer does not count itself among the users it waits    *)
(* for.                                                                    *)
DrainedEarly(c) == c.useCount <= 2

(* The condition of RPCUnregister's loop: nobody but the destroyer is left.*)
Drained(c) == c.useCount <= 1

(* A slip: the entry is left on the list of its world.                     *)
DestroyKeepsLink(t, s) ==
  /\ cnx' = [cnx EXCEPT ![s].pendingDestroy = TRUE, ![s].useCount = 0,
                        ![s].allocated = FALSE]
  /\ At(t, "reset", s, 0)
  /\ UNCHANGED cnxList

(* The end of RPCUnregister: leave the world's list, drop the last use,    *)
(* and so free the entry, all under cnxLock.                               *)
Destroy(t, s) ==
  /\ cnx' = [cnx EXCEPT ![s].pendingDestroy = TRUE, ![s].useCount = 0,
                        ![s].allocated = FALSE]
  /\ cnxList' = [w \in Worlds |-> Without(cnxList[w], s)]
  /\ At(t, "reset", s, 0)

(* RPCUnregister(i) by RPC_Unregister or, when t cleans up after a world,  *)
(* by RPC_WorldCleanup; FindAndLock's increment is undone at once.         *)
RPCUnregister(t, i) ==
  LET s == i % NumSlots IN
  /\ CanEnter(i)
  /\ dying[t] # NoWorld => cnx[s].world = dying[t]
  /\ \/ /\ Drained(cnx[s])
        /\ Destroy(t, s)
     \/ /\ ~Drained(cnx[s])
        /\ cnx' = [cnx EXCEPT ![s].pendingDestroy = TRUE]
        /\ At(t, "closing", s, 0)
        /\ UNCHANGED cnxList
  /\ UNCHANGED <<maxIndex, alive, dying, issued>>

RPC_Unregister(t, i) == pc[t] = "idle" /\ RPCUnregister(t, i)

(* The destroyer wakes every 10ms and looks again.                         *)
UnregisterRetry(t) ==
  /\ pc[t] = "closing"
  /\ Drained(cnx[slot[t]])
  /\ Destroy(t, slot[t])
  /\ UNCHANGED <<maxIndex, alive, dying, issued>>

(* The tail of RPCRemoveAndUnlockCnx: the memset after both locks are gone.*)
ResetAfterUnlock(t) ==
  /\ pc[t] = "reset"
  /\ cnx' = [cnx EXCEPT ![slot[t]] = RPCResetCnx(@)]
  /\ Return(t)
  /\ UNCHANGED <<maxIndex, cnxList, alive, dying, issued>>

-------------------------------------------------------------------------------
(* RPC_WorldCleanup of a world nobody holds a reference to any more ...    *)
RPC_WorldCleanup(t, w) ==
  /\ pc[t] = "idle"
  /\ alive[w]
  /\ alive' = [alive EXCEPT ![w] = FALSE]
  /\ dying' = [dying EXCEPT ![t] = w]
  /\ At(t, "cleanup", 0, 0)
  /\ UNCHANGED <<cnx, maxIndex, cnxList, issued>>

(* ... takes the first entry of the world's list, without a lock, ...      *)
CleanupFirst(t) ==
  /\ pc[t] = "cleanup"
  /\ cnxList[dying[t]] # <<>>
  /\ At(t, "first", Head(cnxList[dying[t]]), 0)
  /\ UNCHANGED <<table, dying>>

(* ... reads the id of whatever connection the entry is by now, ...        *)
CleanupReadId(t) ==
  /\ pc[t] = "first"
  /\ At(t, "readId", 0, cnx[slot[t]].id)
  /\ UNCHANGED <<table, dying>>

(* A slip: the cleanup stops when a connection cannot be unregistered.     *)
CleanupUnregisterGivesUp(t) ==
  /\ pc[t] = "readId"
  /\ LockFree(arg[t] % NumSlots)
  /\ \/ RPCUnregister(t, arg[t])
     \/ /\ ~CanEnter(arg[t]) \/ cnx[arg[t] % NumSlots].world # dying[t]
        /\ dying' = [dying EXCEPT ![t] = NoWorld]
        /\ At(t, "idle", 0, 0)
        /\ UNCHANGED table

(* ... and unregisters it: nothing happens when it is gone, is already     *)
(* being destroyed or belongs to another world.                            *)
CleanupUnregister(t) ==
  /\ pc[t] = "readId"
  /\ LockFree(arg[t] % NumSlots)
  /\ \/ RPCUnregister(t, arg[t])
     \/ /\ ~CanEnter(arg[t]) \/ cnx[arg[t] % NumSlots].world # dying[t]
        /\ Return(t)
        /\ UNCHANGED <<table, dying>>

CleanupDone(t) ==
  /\ pc[t] = "cleanup"
  /\ cnxList[dying[t]] = <<>>
  /\ dying' = [dying EXCEPT ![t] = NoWorld]
  /\ At(t, "idle", 0, 0)
  /\ UNCHANGED table

-------------------------------------------------------------------------------
(* The steps that go on with a call, and those that start one.             *)
Step(t) ==
  \/ \E w \in Worlds : RegisterInit(t, w)
  \/ RegisterFail(t) \/ RegisterRaise(t) \/ RPC_Disconnect(t)
  \/ RPCReleaseAndUnlockCnx(t) \/ UnregisterRetry(t) \/ ResetAfterUnlock(t)
  \/ CleanupFirst(t) \/ CleanupReadId(t) \/ CleanupUnregister(t) \/ CleanupDone(t)

Start(t) ==
  \/ \E n \in Names : RPCNewConnection(t, n) \/ RPC_Connect(t, n)
  \/ \E i \in IdsOf(t) : RPCFindAndLockCnx(t, i)
  \/ \E i \in GivenIds : RPC_Unregister(t, i)
  \/ CallAstray(t)
  \/ \E w \in Worlds : RPC_WorldCleanup(t, w)

Next == \E t \in Threads : Step(t) \/ Start(t)

Spec == Init /\ [][Next]_vars

(* A thread inside a call is scheduled; a caller that sleeps on a          *)
(* connection being destroyed is woken by the destroyer (RPCMessages).     *)
FairSpec == Spec /\ \A t \in Threads : WF_vars(Step(t))

-------------------------------------------------------------------------------
Users(s) == {t \in Threads : pc[t] = "call" /\ slot[t] = s}
Opening(s) == \E t \in Threads : pc[t] = "opening" /\ slot[t] = s
Registered(s) == cnx[s].allocated /\ ~Opening(s)

(* Types and ranges.                                                       *)
TypeOK ==
  /\ cnx \in [Slots -> [allocated : BOOLEAN, generation : 0 .. GenSpace - 1, id : Ids,
                        pendingDestroy : BOOLEAN, useCount : Nat,
                        name : Names \cup {NoName}, world : Worlds \cup {NoWorld}]]
  /\ maxIndex \in Slots
  /\ cnxList \in [Worlds -> Seq(Slots)]
  /\ alive \in [Worlds -> BOOLEAN]
  /\ pc \in [Threads -> PCs]
  /\ slot \in [Threads -> Slots]
  /\ arg \in [Threads -> Ids]
  /\ dying \in [Threads -> Worlds \cup {NoWorld}]
  /\ issued \in [Slots -> Seq(Ids)]

(* The use count of a registered connection is one for the registration    *)
(* and one for every call inside it: FindAndLock and Release balance on    *)
(* every path of RPCUnregister and of the callers.                         *)
UseCountExact ==
  \A s \in Slots : Registered(s) => cnx[s].useCount = 1 + Cardinality(Users(s))

(* No use after free: the entry a call works on stays allocated and stays  *)
(* the connection it entered until it leaves, though the entry may be      *)
(* unregistered meanwhile and entries are reused; the use count that sees  *)
(* to it is exact.  A call that RPC_Connect's RPC_CNX_INVALID has led      *)
(* astray is in no connection and never leaves; the entry it sits on does  *)
(* not become a connection under it.                                       *)
NoUseAfterFree ==
  /\ TypeOK
  /\ UseCountExact
  /\ \A t \in Threads :
       /\ pc[t] \in {"call", "astray"} => cnx[slot[t]].allocated /\ cnx[slot[t]].id = arg[t]
       /\ pc[t] = "astray" => ~Registered(slot[t])

(* A registered connection has a real id that leads back to its entry,     *)
(* also where the 32-bit id wraps.                                         *)
LiveIdsValid ==
  \A s \in Slots : Registered(s) =>
    cnx[s].id # RPC_CNX_INVALID /\ cnx[s].id % NumSlots = s

(* A stale id does not reach the next connection in the same entry: an id  *)
(* comes back only after all others of the entry have been used, and every *)
(* id in use is a real one, also where the 32-bit id wraps.                *)
StaleIdsRejected ==
  /\ LiveIdsValid
  /\ \A s \in Slots : \A j, k \in DOMAIN issued[s] :
       j < k /\ k - j < GenSpace - 1 => issued[s][j] # issued[s][k]

(* When RPC_WorldCleanup returns, no connection of the world is left that  *)
(* is not already being destroyed.                                         *)
CleanupComplete ==
  \A w \in Worlds :
    ~alive[w] /\ (\A t \in Threads : dying[t] # w)
    => \A s \in Slots : cnx[s].allocated /\ cnx[s].world = w => cnx[s].pendingDestroy

(* The list of a world, which RPC_WorldCleanup reads without a lock, holds *)
(* the entries of the world's connections, those being destroyed included, *)
(* each once, and no entry that has been freed since or that is in use for *)
(* another world; whoever destroys them, and in whatever order.            *)
WorldListsExact ==
  \A w \in Worlds :
    /\ {cnxList[w][k] : k \in DOMAIN cnxList[w]}
         = {s \in Slots : Registered(s) /\ cnx[s].world = w}
    /\ \A j, k \in DOMAIN cnxList[w] : cnxList[w][j] = cnxList[w][k] => j = k

LifeOf(s) ==
  CASE ~cnx[s].allocated -> "free"
    [] cnx[s].allocated /\ Opening(s) -> "opening"
    [] Registered(s) /\ ~cnx[s].pendingDestroy -> "live"
    [] OTHER -> "closing"

Life == INSTANCE ConnectionLife WITH life <- LifeOf(0), users <- Users(0)

(* The table keeps the promise of ConnectionLife: whatever connections     *)
(* come and go in an entry (here the first, which is reused the most),     *)
(* calls enter only while it is live and it is freed only after they left. *)
EntryHasALife == Life!Spec

(* A call went astray into an entry that is being opened: the machine      *)
(* stops.                                                                  *)
SomeoneAstray == \E t \in Threads : pc[t] = "astray"

(* Inside RPC_Unregister, waiting for the users to leave (nobody can enter *)
(* any more), or anywhere in RPC_WorldCleanup.                             *)
Destroying(t) == pc[t] = "closing" \/ dying[t] # NoWorld

(* Whoever destroys connections, one with RPC_Unregister or all those of a *)
(* world that dies, comes to an end of it while the other destroyers and   *)
(* the callers are about (unless a call brings the machine down).          *)
DestructionEnds ==
  \A t \in Threads : Destroying(t) ~> ~Destroying(t) \/ SomeoneAstray

-------------------------------------------------------------------------------
(* What comments of rpc.c say and the code does not keep.                  *)

(* "cnxLock; // protects everything else in this struct" (rpc.c:62): the   *)
(* memset of RPCRemoveAndUnlockCnx, which runs after the unlock, does not  *)
(* hit a connection that has been registered in the entry since.           *)
LockProtectsEntry ==
  \A t \in Threads : pc[t] = "reset" => ~Registered(slot[t])

(* "VMK_OK if connection is found and attached" (rpc.c:1207, RPC_Connect): *)
(* a caller that was told VMK_OK does not end up in an entry that is no    *)
(* connection yet.                                                         *)
ConnectedIsAttached == ~SomeoneAstray

===============================================================================
