------------------------------ MODULE HelperWorlds ------------------------------
(***************************************************************************)
(* The helper worlds of main/helper.c.  A request is put in a slot of its  *)
(* queue and on the queue's list; a helper world takes it off, runs its    *)
(* function and completes it.  A synchronous request is kept for its       *)
(* client, a context of the console OS, which sleeps until an entry of the *)
(* completion ring wakes it, asks for the status, or cancels the request,  *)
(* if need be by force: the helper then finishes it as an asynchronous one.*)
(*                                                                         *)
(* A stretch under requestLock is one action.  The arguments of a request  *)
(* are a job: its function frees them, and cancelFn if it never runs.  The *)
(* console OS takes the interrupt of HelperNotifyVMnix before it goes on,  *)
(* so its contexts step only while the ring is empty; what they do with    *)
(* the calls is taken from the wrappers of main/host.c.                    *)
(***************************************************************************)
EXTENDS Integers, SequencesExt, EventQueue

CONSTANTS
  Helpers,      \* helper worlds
  QueueOf,      \* the queue each of them serves, helperQueues[qType]
  NumQueues,    \* HELPER_NUM_QUEUES
  NumRequests,  \* MAX_HELPER_REQUESTS
  Clients,      \* contexts of the console OS
  MaxJobs,      \* how many requests are made; a bound
  None          \* NULL

Queues == 0 .. NumQueues - 1
Slots == 0 .. NumRequests - 1
Handles == [qType : Queues, reqIndex : Slots]
Jobs == 1 .. MaxJobs

ASSUME HelpersAssumption == QueueOf \in [Helpers -> Queues]
ASSUME HelperBounds == NumQueues \in Nat \ {0} /\ NumRequests \in Nat \ {0} /\ MaxJobs \in Nat
ASSUME HelperNull == None \notin Clients \cup Slots \cup Handles /\ NoEvent \notin Queues

VARIABLES
  req,          \* the request slots
  requestList, requestListTail,  \* of each queue: slots on the list, the tail
  waitEvent,    \* helpers asleep, on the requestLock of a queue
  helper,       \* where helpFunc stands, its request and its cosWaiter
  client,       \* where a context stands, its handle and the job it is for
  ring,         \* completedCommands between completedTail and completedHead
  lastJob,      \* history: the jobs handed out
  handled       \* history: the jobs that have run, or were cancelled

queue == <<requestList, requestListTail>>
vars == <<req, requestList, requestListTail, waitEvent, helper, client, ring, lastJob, handled>>

FreeSlot == [callStatus |-> "FREE", isSync |-> FALSE, cosWaiter |-> None, job |-> 0, made |-> "async"]
IdleHelper == [pc |-> "idle", request |-> None, called |-> "async", cosWaiter |-> None]
IdleClient == [pc |-> "idle", handle |-> None, job |-> 0]

Init ==
  /\ req = [h \in Handles |-> FreeSlot]
  /\ requestList = [q \in Queues |-> <<>>]
  /\ requestListTail = [q \in Queues |-> None]
  /\ waitEvent = [w \in Helpers |-> NoEvent]
  /\ helper = [w \in Helpers |-> IdleHelper]
  /\ client = [c \in Clients |-> IdleClient]
  /\ ring = <<>>
  /\ lastJob = 0
  /\ handled = {}

-------------------------------------------------------------------------------
(* HelperAllocRequest: the first free slot of the queue.                   *)
HelperAllocRequest(q, h) ==
  /\ h.qType = q
  /\ req[h].callStatus = "FREE"
  /\ \A i \in 0 .. h.reqIndex - 1 : req[[qType |-> q, reqIndex |-> i]].callStatus # "FREE"

(* The list after rl is linked behind the tail: whatever came after the    *)
(* tail is cut off, and rl is off the list if the tail is.                 *)
Linked(list, tail, rl) ==
  IF list = <<>> THEN <<rl>>
  ELSE LET at == {k \in DOMAIN list : list[k] = tail}
       IN  IF at = {} THEN list ELSE SubSeq(list, 1, CHOOSE k \in at : TRUE) \o <<rl>>

(* A slip: the first request of an idle queue wakes nobody.                *)
EnqueueWakeLater(h) ==
  /\ requestList' = [requestList EXCEPT ![h.qType] =
                       Linked(@, requestListTail[h.qType], h.reqIndex)]
  /\ requestListTail' = [requestListTail EXCEPT ![h.qType] = h.reqIndex]
  /\ waitEvent' = IF requestList[h.qType] = <<>> THEN waitEvent ELSE Wakeup(waitEvent, h.qType)

(* The request goes on the list and every helper of the queue wakes up.    *)
Enqueue(h) ==
  /\ requestList' = [requestList EXCEPT ![h.qType] =
                       Linked(@, requestListTail[h.qType], h.reqIndex)]
  /\ requestListTail' = [requestListTail EXCEPT ![h.qType] = h.reqIndex]
  /\ waitEvent' = Wakeup(waitEvent, h.qType)

NewJob == lastJob < MaxJobs /\ lastJob' = lastJob + 1

(* Helper_Request, from any world; with no free slot it changes nothing.   *)
Helper_Request(h) ==
  /\ NewJob
  /\ HelperAllocRequest(h.qType, h)
  /\ req' = [req EXCEPT ![h] = [callStatus |-> "PENDING", isSync |-> FALSE, cosWaiter |-> None,
                                job |-> lastJob', made |-> "async"]]
  /\ Enqueue(h)
  /\ UNCHANGED <<helper, client, ring, handled>>

(* The console OS runs: the interrupt has been taken.                      *)
COSRuns(c, at) == ring = <<>> /\ client[c].pc = at

Helper_RequestSync(c, h) ==
  /\ COSRuns(c, "idle")
  /\ NewJob
  /\ HelperAllocRequest(h.qType, h)
  /\ req' = [req EXCEPT ![h] = [callStatus |-> "PENDING", isSync |-> TRUE, cosWaiter |-> None,
                                job |-> lastJob', made |-> "sync"]]
  /\ Enqueue(h)
  /\ client' = [client EXCEPT ![c] = [pc |-> "has", handle |-> h, job |-> lastJob']]
  /\ UNCHANGED <<helper, ring, handled>>

(* A slip: the waiter is set only while the request waits.                 *)
SetCOSContextPending(c) ==
  LET h == client[c].handle IN
  /\ COSRuns(c, "has")
  /\ req[h].callStatus \in {"PENDING", "ACTIVE"}
  /\ req' = IF req[h].callStatus = "PENDING" THEN [req EXCEPT ![h].cosWaiter = c] ELSE req
  /\ client' = [client EXCEPT ![c].pc = "asleep"]
  /\ UNCHANGED <<queue, waitEvent, helper, ring, lastJob, handled>>

(* Helper_SetCOSContext; on VMK_STATUS_PENDING the context goes to sleep,  *)
(* otherwise it asks for the status.                                       *)
Helper_SetCOSContext(c) ==
  LET h == client[c].handle IN
  /\ COSRuns(c, "has")
  /\ req' = [req EXCEPT ![h].cosWaiter = c]
  /\ client' = IF req[h].callStatus \in {"PENDING", "ACTIVE"}
               THEN [client EXCEPT ![c].pc = "asleep"] ELSE client
  /\ UNCHANGED <<queue, waitEvent, helper, ring, lastJob, handled>>

(* Helper_RequestStatus: the look without the lock; most calls end here.   *)
Helper_RequestStatus(c) ==
  /\ COSRuns(c, "has")
  /\ req[client[c].handle].callStatus \notin {"PENDING", "ACTIVE"}
  /\ client' = [client EXCEPT ![c].pc = "status"]
  /\ UNCHANGED <<req, queue, waitEvent, helper, ring, lastJob, handled>>

(* ... and what it does under the lock: the client of a request that is    *)
(* done has its answer, and the slot is free.                              *)
RequestStatusLocked(c) ==
  LET h == client[c].handle
      done == req[h].callStatus = "DONE"
      pending == req[h].callStatus \in {"PENDING", "ACTIVE"}
  IN /\ COSRuns(c, "status")
     /\ req' = IF done THEN [req EXCEPT ![h] = FreeSlot] ELSE req
     /\ client' = [client EXCEPT ![c] = IF pending THEN [@ EXCEPT !.pc = "has"] ELSE IdleClient]
     /\ UNCHANGED <<queue, waitEvent, helper, ring, lastJob, handled>>

(* A slip: the tail is left alone.                                         *)
UnlinkKeepTail(h) ==
  LET list == requestList[h.qType]
      k == CHOOSE i \in DOMAIN list : list[i] = h.reqIndex
  IN /\ requestList' = [requestList EXCEPT ![h.qType] = RemoveAt(list, k)]
     /\ UNCHANGED requestListTail

(* Helper_RequestCancel takes a request off the list; the one before it    *)
(* becomes the tail if it was the last.                                    *)
Unlink(h) ==
  LET list == requestList[h.qType]
      k == CHOOSE i \in DOMAIN list : list[i] = h.reqIndex
      prev == IF k = 1 THEN None ELSE list[k - 1]
  IN /\ requestList' = [requestList EXCEPT ![h.qType] = RemoveAt(list, k)]
     /\ requestListTail' = [requestListTail EXCEPT ![h.qType] = IF @ = h.reqIndex THEN prev ELSE @]

(* Helper_RequestCancel of a request no helper has taken; cancelFn is      *)
(* called after the lock is released.                                      *)
CancelPending(c) ==
  LET h == client[c].handle IN
  /\ COSRuns(c, "has")
  /\ req[h].callStatus = "PENDING"
  /\ Unlink(h)
  /\ req' = [req EXCEPT ![h] = FreeSlot]
  /\ client' = [client EXCEPT ![c].pc = "cancel", ![c].handle = None]
  /\ UNCHANGED <<waitEvent, helper, ring, lastJob, handled>>

CallCancelFn(c) ==
  /\ COSRuns(c, "cancel")
  /\ handled' = handled \cup {client[c].job}
  /\ client' = [client EXCEPT ![c] = IdleClient]
  /\ UNCHANGED <<req, queue, waitEvent, helper, ring, lastJob>>

(* With force, an active request becomes asynchronous and is forgotten;    *)
(* one that is done, and an active one without force, stays the client's.  *)
CancelForced(c) ==
  LET h == client[c].handle IN
  /\ COSRuns(c, "has")
  /\ req[h].callStatus = "ACTIVE"
  /\ req' = [req EXCEPT ![h].isSync = FALSE, ![h].cosWaiter = None]
  /\ client' = [client EXCEPT ![c] = IdleClient]
  /\ UNCHANGED <<queue, waitEvent, helper, ring, lastJob, handled>>

-------------------------------------------------------------------------------
HelperRuns(w, at) == ~IsWaiting(waitEvent, w) /\ helper[w].pc = at

HelperSleep(w) ==
  /\ HelperRuns(w, "idle")
  /\ requestList[QueueOf[w]] = <<>>
  /\ waitEvent' = WaitOn(waitEvent, w, QueueOf[w])
  /\ UNCHANGED <<req, queue, helper, client, ring, lastJob, handled>>

(* helpFunc takes the first request off the list ...                       *)
Dequeue(w) ==
  LET q == QueueOf[w]
      h == [qType |-> q, reqIndex |-> Head(requestList[q])]
  IN /\ HelperRuns(w, "idle")
     /\ requestList[q] # <<>>
     /\ requestList' = [requestList EXCEPT ![q] = Tail(@)]
     /\ requestListTail' = [requestListTail EXCEPT ![q] = IF @ = h.reqIndex THEN None ELSE @]
     /\ req' = [req EXCEPT ![h].callStatus = "ACTIVE"]
     /\ helper' = [helper EXCEPT ![w].pc = "call", ![w].request = h]
     /\ UNCHANGED <<waitEvent, client, ring, lastJob, handled>>

(* ... and calls its function, as isSync, read without the lock, says.     *)
Call(w) ==
  LET h == helper[w].request IN
  /\ HelperRuns(w, "call")
  /\ helper' = [helper EXCEPT ![w].pc = "running",
                              ![w].called = IF req[h].isSync THEN "sync" ELSE "async"]
  /\ handled' = handled \cup {req[h].job}
  /\ UNCHANGED <<req, queue, waitEvent, client, ring, lastJob>>

(* A slip: what the function was called as decides, although the request   *)
(* may have been forced since.                                             *)
CompleteAsCalled(w) ==
  LET h == helper[w].request
      keep == helper[w].called = "sync"
  IN /\ HelperRuns(w, "running")
     /\ req' = [req EXCEPT ![h] = IF keep THEN [@ EXCEPT !.callStatus = "DONE"] ELSE FreeSlot]
     /\ helper' = [helper EXCEPT ![w] = [IdleHelper EXCEPT
          !.pc = IF req[h].cosWaiter = None THEN "idle" ELSE "notify", !.cosWaiter = req[h].cosWaiter]]
     /\ UNCHANGED <<queue, waitEvent, client, ring, lastJob, handled>>

(* The function has returned.  Under the lock the helper reads the waiter; *)
(* a synchronous request is kept for its client, another one is freed.     *)
Complete(w) ==
  LET h == helper[w].request
      waiter == req[h].cosWaiter
  IN /\ HelperRuns(w, "running")
     /\ req' = [req EXCEPT ![h] = IF req[h].isSync THEN [@ EXCEPT !.callStatus = "DONE"]
                                                    ELSE FreeSlot]
     /\ helper' = [helper EXCEPT ![w] = [IdleHelper EXCEPT
          !.pc = IF waiter = None THEN "idle" ELSE "notify", !.cosWaiter = waiter]]
     /\ UNCHANGED <<queue, waitEvent, client, ring, lastJob, handled>>

HelperNotifyVMnix(w) ==
  /\ HelperRuns(w, "notify")
  /\ ring' = Append(ring, helper[w].cosWaiter)
  /\ helper' = [helper EXCEPT ![w] = IdleHelper]
  /\ UNCHANGED <<req, queue, waitEvent, client, lastJob, handled>>

(* The interrupt handler of the console OS takes an entry and wakes the    *)
(* context it names, if that still sleeps.                                 *)
COSInterrupt ==
  LET c == Head(ring) IN
  /\ ring # <<>>
  /\ ring' = Tail(ring)
  /\ client' = IF client[c].pc = "asleep" THEN [client EXCEPT ![c].pc = "has"] ELSE client
  /\ UNCHANGED <<req, queue, waitEvent, helper, lastJob, handled>>

(* A signal, or a timeout, ends the sleep of a context.                    *)
COSSignal(c) ==
  /\ COSRuns(c, "asleep")
  /\ client' = [client EXCEPT ![c].pc = "has"]
  /\ UNCHANGED <<req, queue, waitEvent, helper, ring, lastJob, handled>>

ClientStep(c) ==
  \/ \E h \in Handles : Helper_RequestSync(c, h)
  \/ Helper_SetCOSContext(c)
  \/ Helper_RequestStatus(c)
  \/ RequestStatusLocked(c)
  \/ CancelPending(c)
  \/ CallCancelFn(c)
  \/ CancelForced(c)
  \/ COSSignal(c)

HelpFunc(w) ==
  HelperSleep(w) \/ Dequeue(w) \/ Call(w) \/ Complete(w) \/ HelperNotifyVMnix(w)

Next ==
  \/ \E h \in Handles : Helper_Request(h)
  \/ \E c \in Clients : ClientStep(c)
  \/ \E w \in Helpers : HelpFunc(w)
  \/ COSInterrupt

Spec == Init /\ [][Next]_vars

(* Helper worlds are scheduled and the functions they call return; the     *)
(* console OS takes its interrupts and finishes a status call or a cancel  *)
(* it has begun.                                                           *)
FairSpec ==
  /\ Spec
  /\ \A w \in Helpers : WF_vars(HelpFunc(w))
  /\ WF_vars(COSInterrupt)
  /\ \A c \in Clients : WF_vars(RequestStatusLocked(c) \/ CallCancelFn(c))

-------------------------------------------------------------------------------
(* Types and ranges.                                                       *)
TypeOK ==
  /\ req \in [Handles -> [callStatus : {"FREE", "PENDING", "ACTIVE", "DONE"}, isSync : BOOLEAN,
                          cosWaiter : Clients \cup {None}, job : 0 .. MaxJobs, made : {"sync", "async"}]]
  /\ requestList \in [Queues -> Seq(Slots)]
  /\ requestListTail \in [Queues -> Slots \cup {None}]
  /\ waitEvent \in [Helpers -> Queues \cup {NoEvent}]
  /\ helper \in [Helpers -> [pc : {"idle", "call", "running", "notify"}, request : Handles \cup {None},
                             called : {"sync", "async"}, cosWaiter : Clients \cup {None}]]
  /\ client \in [Clients -> [pc : {"idle", "has", "asleep", "status", "cancel"},
                             handle : Handles \cup {None}, job : 0 .. MaxJobs]]
  /\ ring \in Seq(Clients)
  /\ lastJob \in 0 .. MaxJobs
  /\ handled \subseteq Jobs

(* The list of each queue holds its pending requests, each once, and       *)
(* requestListTail is its last; an active request is in the hands of       *)
(* exactly one helper world, of its queue.  A list that loses a request or *)
(* a helper that keeps one breaks this only some steps later.              *)
QueueExact ==
  /\ \A q \in Queues :
       /\ Range(requestList[q]) = {i \in Slots : req[[qType |-> q, reqIndex |-> i]].callStatus = "PENDING"}
       /\ Len(requestList[q]) = Cardinality(Range(requestList[q]))
       /\ requestListTail[q] = IF requestList[q] = <<>> THEN None ELSE Last(requestList[q])
  /\ \A h \in Handles : LET holders == {w \in Helpers : helper[w].request = h} IN
       IF req[h].callStatus = "ACTIVE"
       THEN \E w \in Helpers : holders = {w} /\ QueueOf[w] = h.qType
       ELSE holders = {}

(* A handle names the request its client made until the client has the     *)
(* answer or has let go of it: no completion, cancel or new request in     *)
(* between frees the slot or gives it to another.  And no slot is left     *)
(* behind: every synchronous request, and every one that is kept after it  *)
(* is done, has a client that will ask for it.                             *)
HandlesExact ==
  /\ TypeOK
  /\ \A c \in Clients : client[c].handle # None =>
       LET r == req[client[c].handle] IN
       r.callStatus # "FREE" /\ r.isSync /\ r.job = client[c].job
  /\ \A h \in Handles : req[h].callStatus = "DONE" \/ (req[h].callStatus # "FREE" /\ req[h].isSync) =>
       \E c \in Clients : client[c].handle = h

(* The arguments of every request are freed once: they wait in a request   *)
(* on the list, with a helper about to run it or a client about to call    *)
(* cancelFn, or they are gone, never two of these and never none; and the  *)
(* list they wait in is sound.                                             *)
JobsAccounted ==
  /\ QueueExact
  /\ \A j \in 1 .. lastJob :
     LET onList == {h \in Handles : req[h].job = j /\ h.reqIndex \in Range(requestList[h.qType])}
         inHelper == {w \in Helpers : helper[w].pc = "call" /\ req[helper[w].request].job = j}
         inCancel == {c \in Clients : client[c].pc = "cancel" /\ client[c].job = j}
         gone == IF j \in handled THEN 1 ELSE 0
     IN Cardinality(onList) + Cardinality(inHelper) + Cardinality(inCancel) + gone = 1

(* Every request is run or cancelled in the end: no wakeup of a helper     *)
(* world is lost, and no request falls off the list.                       *)
RequestsServed == \A j \in Jobs : lastJob >= j ~> j \in handled

(* A context that went to sleep on VMK_STATUS_PENDING is woken: the waiter *)
(* is set and read under the lock, and every helper that read one reports  *)
(* it in the ring.                                                         *)
WaiterWoken == \A c \in Clients : client[c].pc = "asleep" ~> client[c].pc # "asleep"

(* No request is left in the queue and no context in its wait: both the    *)
(* helper world and the context are woken whatever they were about to do   *)
(* when the request was put in and when it was completed.                  *)
RequestsEnd == RequestsServed /\ WaiterWoken

(* "If force is set and the given request is active, turn it into an       *)
(* asynchronous request": its function is still called as the one it is.   *)
CalledAsMade ==
  \A w \in Helpers : helper[w].pc = "running" => helper[w].called = req[helper[w].request].made

===============================================================================
