------------------------------ MODULE RPCMessages ------------------------------
(***************************************************************************)
(* The traffic on one connection of main/rpc.c, from its registration to   *)
(* the end of RPCUnregister: messages and replies in a fixed set of        *)
(* buffers, callers that sleep for either, pollers, and the destroyer that *)
(* waits for all of them to leave.                                         *)
(*                                                                         *)
(* cnxLock is held from RPCFindAndLockCnx to RPCReleaseAndUnlockCnx except *)
(* while a caller sleeps in RPCWaitCnx and while it copies data from or to *)
(* its own memory (Util_CopyIn, Util_CopyOut).  A call is one action per   *)
(* stretch under the lock; after each gap RPCRelockAndVerify finds out     *)
(* whether the connection is being destroyed.  A copy may fault.  Lengths  *)
(* only decide whether a call fails with no effect, and payloads are       *)
(* abstracted to the number of the message they stem from.                 *)
(***************************************************************************)
EXTENDS Naturals, Sequences, FiniteSets, EventQueue

CONSTANTS
  Worlds,      \* the worlds that call
  NumBuffers,  \* numBuffers of RPC_Register
  TokenSpace,  \* tokens are 32 bits wide in the code
  MaxSends     \* bound: messages queued over the life of the connection

ASSUME RPCMessagesAssumption ==
  /\ NumBuffers \in Nat \ {0} /\ MaxSends \in Nat
  /\ TokenSpace \in Nat /\ TokenSpace > 11
  /\ NoEvent # "cnx"

VARIABLES
  cnx,        \* the connection
  msg,        \* the token and the message number a buffer carries
  freed,      \* buffers given back to the heap
  destroyed,  \* RPCRemoveAndUnlockCnx has run
  waitEvent,  \* who sleeps on the connection
  pc,         \* where each world stands
  buf,        \* the buffer a world copies from or to
  tok,        \* the token of the message a world serves or wants a reply to
  num,        \* history: the number of that message
  moved,      \* the pollers a sender has taken off the connection
  selected,   \* pollers that have been woken (World_SelectWakeup)
  sends       \* messages queued so far

local == <<buf, tok, num, moved>>
vars == <<cnx, msg, freed, destroyed, waitEvent, pc, buf, tok, num, moved, selected, sends>>

Buffers == 1 .. NumBuffers
Tokens == 0 .. TokenSpace - 1
RPC_TOKEN_INVALID == TokenSpace - 1

(* Where a world is inside the connection and has a use of it; where it    *)
(* holds a buffer that is on no list.                                      *)
CopyPCs == {"sendCopy", "msgCopy", "infoCopy", "replyCopy", "repCopy"}
InsidePCs == CopyPCs \cup {"msgWait", "repWait"}
PCs == InsidePCs \cup {"idle", "notify", "sent", "serving", "polling", "closing"}

(* The connection as RPC_Register leaves it: nextToken is not initialised, *)
(* RPCResetCnx has set it to 0xffffffff.                                   *)
Init ==
  /\ cnx = [messageList |-> <<>>, replyList |-> <<>>,
            freeList |-> [b \in Buffers |-> b], nQueuedMessages |-> 0,
            nextToken |-> TokenSpace - 1, mask |-> FALSE,
            pendingDestroy |-> FALSE, useCount |-> 1, pollWaiters |-> {}]
  /\ msg = [b \in Buffers |-> [token |-> RPC_TOKEN_INVALID, num |-> 0]]
  /\ freed = {}
  /\ destroyed = FALSE
  /\ waitEvent = [w \in Worlds |-> NoEvent]
  /\ pc = [w \in Worlds |-> "idle"]
  /\ buf = [w \in Worlds |-> 0]
  /\ tok = [w \in Worlds |-> RPC_TOKEN_INVALID]
  /\ num = [w \in Worlds |-> 0]
  /\ moved = [w \in Worlds |-> {}]
  /\ selected = {}
  /\ sends = 0

-------------------------------------------------------------------------------
(* RPCFindAndLockCnx with the id of this connection succeeds.              *)
CanEnter == ~destroyed /\ ~cnx.pendingDestroy

(* World w goes on to `to' with buffer b, token k and message n in hand.   *)
At(w, to, b, k, n) ==
  /\ pc' = [pc EXCEPT ![w] = to]
  /\ buf' = [buf EXCEPT ![w] = b]
  /\ tok' = [tok EXCEPT ![w] = k]
  /\ num' = [num EXCEPT ![w] = n]

Done(w) == At(w, "idle", 0, RPC_TOKEN_INVALID, 0)

(* RPCAllocMessage takes the first buffer of the free list, RPCFreeMessage *)
(* puts one back in front of it; a caller enters with the one and leaves   *)
(* with the other.                                                         *)
EnterWithBuffer == [cnx EXCEPT !.freeList = Tail(@), !.useCount = @ + 1]
FreeAndLeave(b) == [cnx EXCEPT !.freeList = <<b>> \o @, !.useCount = @ - 1]
Enter == [cnx EXCEPT !.useCount = @ + 1]
Leave == [cnx EXCEPT !.useCount = @ - 1]

Awake(w) == ~IsWaiting(waitEvent, w)
Sleep(w) == waitEvent' = WaitOn(waitEvent, w, "cnx")
WakeAll == waitEvent' = Wakeup(waitEvent, "cnx")

(* RPCNextToken *)
RPCNextToken ==
  ((IF cnx.nextToken = TokenSpace - 10 THEN 0 ELSE cnx.nextToken) + 1) % TokenSpace

-------------------------------------------------------------------------------
(* RPC_Send up to the copy.  With no buffer it fails, VMK_LIMIT_EXCEEDED.  *)
RPC_Send(w) ==
  /\ pc[w] = "idle" /\ CanEnter
  /\ cnx.freeList # <<>>
  /\ sends < MaxSends
  /\ cnx' = EnterWithBuffer
  /\ At(w, "sendCopy", Head(cnx.freeList), tok[w], 0)
  /\ UNCHANGED <<msg, freed, destroyed, waitEvent, moved, selected, sends>>

(* A slip: the error path forgets the message it has allocated.            *)
CopyInFailedLeaks(w) ==
  /\ pc[w] \in {"sendCopy", "replyCopy"}
  /\ cnx' = Leave
  /\ Done(w)
  /\ UNCHANGED <<msg, freed, destroyed, waitEvent, moved, selected, sends>>

(* The copy of RPC_Send or RPC_PostReply has faulted or the connection is  *)
(* being destroyed: the buffer goes back.                                  *)
CopyInFailed(w) ==
  /\ pc[w] \in {"sendCopy", "replyCopy"}
  /\ cnx' = FreeAndLeave(buf[w])
  /\ Done(w)
  /\ UNCHANGED <<msg, freed, destroyed, waitEvent, moved, selected, sends>>

(* A slip: sleepers are woken when the first message is queued only.       *)
WakeForFirst == waitEvent' = IF cnx.nQueuedMessages = 0 THEN Wakeup(waitEvent, "cnx") ELSE waitEvent

(* A slip: the pollers are left on the list of the connection.             *)
TakeNoPollers == {}

(* RPC_Send wakes whoever sleeps on the connection ...                     *)
SendWakeup == WakeAll

(* ... and takes the pollers with it (VMKPoll_MoveWaiters).                *)
TakePollers == cnx.pollWaiters

(* RPC_Send queues the message, with a token of its own if the caller      *)
(* expects a reply.                                                        *)
SendQueue(w, expect) ==
  LET k == IF expect THEN RPCNextToken ELSE RPC_TOKEN_INVALID IN
  /\ pc[w] = "sendCopy" /\ ~cnx.pendingDestroy
  /\ sends < MaxSends
  /\ sends' = sends + 1
  /\ msg' = [msg EXCEPT ![buf[w]] = [token |-> k, num |-> sends + 1]]
  /\ cnx' = [Leave EXCEPT !.messageList = Append(@, buf[w]), !.nQueuedMessages = @ + 1,
                          !.nextToken = IF expect THEN RPCNextToken ELSE @,
                          !.mask = TRUE, !.pollWaiters = @ \ TakePollers]
  /\ moved' = [moved EXCEPT ![w] = TakePollers]
  /\ SendWakeup
  /\ At(w, "notify", 0, k, IF expect THEN sends + 1 ELSE 0)
  /\ UNCHANGED <<freed, destroyed, selected>>

(* The tail of RPC_Send, outside the lock: VMKPoll_WakeupAndRemoveWaiters  *)
(* on the pollers it took.                                                 *)
SendNotify(w) ==
  /\ pc[w] = "notify"
  /\ selected' = selected \cup moved[w]
  /\ moved' = [moved EXCEPT ![w] = {}]
  /\ At(w, IF num[w] = 0 THEN "idle" ELSE "sent", 0, tok[w], num[w])
  /\ UNCHANGED <<cnx, msg, freed, destroyed, waitEvent, sends>>

-------------------------------------------------------------------------------
(* RPCGetMsg unlinks the first message; the last one clears the pending    *)
(* bit.                                                                    *)
TakeMessage(c) ==
  [c EXCEPT !.messageList = Tail(@), !.nQueuedMessages = @ - 1,
            !.mask = Tail(c.messageList) # <<>>]

FirstMessage == Head(cnx.messageList)

(* RPCGetMsg: with nothing queued the caller sleeps (VMK_WOULD_BLOCK, the  *)
(* buffer too small and an unmapped argument change nothing).              *)
RPCGetMsg(w) ==
  /\ pc[w] = "idle" /\ CanEnter
  /\ \/ /\ cnx.messageList = <<>>
        /\ cnx' = Enter
        /\ Sleep(w)
        /\ At(w, "msgWait", 0, tok[w], 0)
     \/ /\ cnx.messageList # <<>>
        /\ cnx' = TakeMessage(Enter)
        /\ At(w, "msgCopy", FirstMessage, msg[FirstMessage].token, msg[FirstMessage].num)
        /\ UNCHANGED waitEvent
  /\ UNCHANGED <<msg, freed, destroyed, moved, selected, sends>>

(* The loop of RPCGetMsg after a wakeup.                                   *)
GetMsgRetry(w) ==
  /\ pc[w] = "msgWait" /\ Awake(w) /\ ~cnx.pendingDestroy
  /\ \/ /\ cnx.messageList = <<>>
        /\ Sleep(w)
        /\ UNCHANGED <<cnx, pc, buf, tok, num>>
     \/ /\ cnx.messageList # <<>>
        /\ cnx' = TakeMessage(cnx)
        /\ At(w, "msgCopy", FirstMessage, msg[FirstMessage].token, msg[FirstMessage].num)
        /\ UNCHANGED waitEvent
  /\ UNCHANGED <<msg, freed, destroyed, moved, selected, sends>>

(* A woken caller of RPCGetMsg or RPC_GetReply gives up: the connection is *)
(* being destroyed, its time is up, it may be interrupted or it has been   *)
(* killed, or the buffer it brought is too small.                          *)
WaitGivenUp(w) ==
  /\ pc[w] \in {"msgWait", "repWait"} /\ Awake(w)
  /\ cnx' = Leave
  /\ Done(w)
  /\ UNCHANGED <<msg, freed, destroyed, waitEvent, moved, selected, sends>>

(* The copy of the message's data, then that of its RPC_MsgInfo.  A fault  *)
(* or a destroyed connection ends the call; the message is gone.           *)
MsgCopied(w) ==
  /\ pc[w] = "msgCopy" /\ ~cnx.pendingDestroy
  /\ At(w, "infoCopy", buf[w], tok[w], num[w])
  /\ UNCHANGED <<cnx, msg, freed, destroyed, waitEvent, moved, selected, sends>>

MsgCopyFailed(w) ==
  /\ pc[w] \in {"msgCopy", "infoCopy"}
  /\ cnx' = FreeAndLeave(buf[w])
  /\ Done(w)
  /\ UNCHANGED <<msg, freed, destroyed, waitEvent, moved, selected, sends>>

MsgReceived(w) ==
  /\ pc[w] = "infoCopy" /\ ~cnx.pendingDestroy
  /\ cnx' = FreeAndLeave(buf[w])
  /\ IF tok[w] = RPC_TOKEN_INVALID THEN Done(w) ELSE At(w, "serving", 0, tok[w], num[w])
  /\ UNCHANGED <<msg, freed, destroyed, waitEvent, moved, selected, sends>>

-------------------------------------------------------------------------------
(* RPC_PostReply by the world that received the message.                   *)
RPC_PostReply(w) ==
  /\ pc[w] = "serving" /\ CanEnter
  /\ cnx.freeList # <<>>
  /\ cnx' = EnterWithBuffer
  /\ At(w, "replyCopy", Head(cnx.freeList), tok[w], num[w])
  /\ UNCHANGED <<msg, freed, destroyed, waitEvent, moved, selected, sends>>

ReplyQueue(w) ==
  /\ pc[w] = "replyCopy" /\ ~cnx.pendingDestroy
  /\ msg' = [msg EXCEPT ![buf[w]] = [token |-> tok[w], num |-> num[w]]]
  /\ cnx' = [Leave EXCEPT !.replyList = Append(@, buf[w]), !.nQueuedMessages = @ + 1]
  /\ WakeAll
  /\ Done(w)
  /\ UNCHANGED <<freed, destroyed, moved, selected, sends>>

(* The server does not answer, or the sender does not ask for the answer.  *)
NoReply(w) ==
  /\ pc[w] \in {"serving", "sent"}
  /\ Done(w)
  /\ UNCHANGED <<cnx, msg, freed, destroyed, waitEvent, moved, selected, sends>>

(* A slip: any reply will do.                                              *)
RepliesToAnyone(w) == 1 .. Len(cnx.replyList)

(* The places in replyList of replies to world w.                          *)
RepliesTo(w) == {i \in 1 .. Len(cnx.replyList) : msg[cnx.replyList[i]].token = tok[w]}

FirstReply(w) == CHOOSE i \in RepliesTo(w) : \A j \in RepliesTo(w) : i <= j

RemoveAt(s, i) == SubSeq(s, 1, i - 1) \o SubSeq(s, i + 1, Len(s))

TakeReply(w, c) ==
  /\ cnx' = [c EXCEPT !.replyList = RemoveAt(@, FirstReply(w)), !.nQueuedMessages = @ - 1]
  /\ At(w, "repCopy", cnx.replyList[FirstReply(w)], tok[w], num[w])
  /\ UNCHANGED waitEvent

(* RPC_GetReply by the sender of the message, alone (RPC_Call) or later.   *)
RPC_GetReply(w) ==
  /\ pc[w] = "sent" /\ CanEnter
  /\ \/ RepliesTo(w) # {} /\ TakeReply(w, Enter)
     \/ /\ RepliesTo(w) = {}
        /\ cnx' = Enter
        /\ Sleep(w)
        /\ At(w, "repWait", 0, tok[w], num[w])
  /\ UNCHANGED <<msg, freed, destroyed, moved, selected, sends>>

GetReplyRetry(w) ==
  /\ pc[w] = "repWait" /\ Awake(w) /\ ~cnx.pendingDestroy
  /\ \/ RepliesTo(w) # {} /\ TakeReply(w, cnx)
     \/ RepliesTo(w) = {} /\ Sleep(w) /\ UNCHANGED <<cnx, pc, buf, tok, num>>
  /\ UNCHANGED <<msg, freed, destroyed, moved, selected, sends>>

ReplyCopied(w) ==
  /\ pc[w] = "repCopy" /\ ~cnx.pendingDestroy
  /\ cnx' = FreeAndLeave(buf[w])
  /\ Done(w)
  /\ UNCHANGED <<msg, freed, destroyed, waitEvent, moved, selected, sends>>

(* The copy faults: the reply goes back to the front of the list, and the  *)
(* caller may ask again.                                                   *)
ReplyFault(w) ==
  /\ pc[w] = "repCopy" /\ ~cnx.pendingDestroy
  /\ cnx' = [Leave EXCEPT !.replyList = <<buf[w]>> \o @, !.nQueuedMessages = @ + 1]
  /\ At(w, "sent", 0, tok[w], num[w])
  /\ UNCHANGED <<msg, freed, destroyed, waitEvent, moved, selected, sends>>

(* The connection is being destroyed when the reply has been copied: the   *)
(* call returns and puts the buffer on no list.                            *)
ReplyDisconnected(w) ==
  /\ pc[w] = "repCopy" /\ cnx.pendingDestroy
  /\ cnx' = Leave
  /\ Done(w)
  /\ UNCHANGED <<msg, freed, destroyed, waitEvent, moved, selected, sends>>

-------------------------------------------------------------------------------
(* RPC_Poll with notification: a message is there, and nothing changes, or *)
(* the world becomes a poll waiter and goes to sleep elsewhere ...         *)
RPC_Poll(w) ==
  /\ pc[w] = "idle" /\ CanEnter
  /\ cnx.messageList = <<>>
  /\ cnx' = [cnx EXCEPT !.pollWaiters = @ \cup {w}]
  /\ At(w, "polling", 0, tok[w], 0)
  /\ selected' = selected \ {w}
  /\ UNCHANGED <<msg, freed, destroyed, waitEvent, moved, sends>>

(* ... from where it comes back, woken or not, to RPC_PollCleanup.         *)
RPC_PollCleanup(w) ==
  /\ pc[w] = "polling"
  /\ cnx' = IF CanEnter THEN [cnx EXCEPT !.pollWaiters = @ \ {w}] ELSE cnx
  /\ Done(w)
  /\ UNCHANGED <<msg, freed, destroyed, waitEvent, moved, selected, sends>>

-------------------------------------------------------------------------------
(* RPCRemoveAndUnlockCnx: every buffer on a list goes back to the heap,    *)
(* pollers are woken.                                                      *)
RPCRemoveAndUnlockCnx ==
  LET lists == cnx.messageList \o cnx.replyList \o cnx.freeList IN
  /\ freed' = freed \cup {lists[i] : i \in DOMAIN lists}
  /\ selected' = selected \cup cnx.pollWaiters
  /\ cnx' = [cnx EXCEPT !.messageList = <<>>, !.replyList = <<>>, !.freeList = <<>>,
                        !.nQueuedMessages = 0, !.mask = FALSE, !.pollWaiters = {},
                        !.pendingDestroy = TRUE, !.useCount = 0]
  /\ destroyed' = TRUE

(* A slip: the destroyer waits, but wakes nobody.                          *)
UnregisterLoopSilent(w) ==
  \/ /\ cnx.useCount > 1
     /\ cnx' = [cnx EXCEPT !.pendingDestroy = TRUE]
     /\ At(w, "closing", 0, tok[w], 0)
     /\ UNCHANGED <<freed, destroyed, waitEvent, selected>>
  \/ /\ cnx.useCount = 1
     /\ RPCRemoveAndUnlockCnx
     /\ Done(w)
     /\ UNCHANGED waitEvent

(* A slip: the connection is removed while others are inside.              *)
UnregisterLoopOnce(w) == RPCRemoveAndUnlockCnx /\ Done(w) /\ UNCHANGED waitEvent

(* One turn of RPCUnregister's loop: wake every sleeper and wait, or, when *)
(* nobody else is inside, remove the connection.                           *)
UnregisterLoop(w) ==
  \/ /\ cnx.useCount > 1
     /\ cnx' = [cnx EXCEPT !.pendingDestroy = TRUE]
     /\ WakeAll
     /\ At(w, "closing", 0, tok[w], 0)
     /\ UNCHANGED <<freed, destroyed, selected>>
  \/ /\ cnx.useCount = 1
     /\ RPCRemoveAndUnlockCnx
     /\ Done(w)
     /\ UNCHANGED waitEvent

RPCUnregister(w) ==
  /\ pc[w] = "idle" /\ CanEnter
  /\ UnregisterLoop(w)
  /\ UNCHANGED <<msg, moved, sends>>

UnregisterRetry(w) ==
  /\ pc[w] = "closing"
  /\ UnregisterLoop(w)
  /\ UNCHANGED <<msg, moved, sends>>

(* RPCTimeoutCallback of any caller, or RPCStressWakeup, wakes everyone.   *)
TimeoutCallback ==
  /\ \E w \in Worlds : IsWaiting(waitEvent, w)
  /\ WakeAll
  /\ UNCHANGED <<cnx, msg, freed, destroyed, pc, local, selected, sends>>

-------------------------------------------------------------------------------
(* The steps that go on with a call on the connection.                     *)
Step(w) ==
  \/ CopyInFailed(w) \/ SendNotify(w)
  \/ (\E expect \in BOOLEAN : SendQueue(w, expect))
  \/ GetMsgRetry(w) \/ WaitGivenUp(w) \/ MsgCopied(w) \/ MsgCopyFailed(w) \/ MsgReceived(w)
  \/ ReplyQueue(w) \/ GetReplyRetry(w) \/ ReplyCopied(w) \/ ReplyFault(w) \/ ReplyDisconnected(w)
  \/ UnregisterRetry(w)

Start(w) ==
  \/ RPC_Send(w) \/ RPCGetMsg(w) \/ RPC_PostReply(w) \/ RPC_GetReply(w) \/ NoReply(w)
  \/ RPC_Poll(w) \/ RPC_PollCleanup(w) \/ RPCUnregister(w)

Next == TimeoutCallback \/ \E w \in Worlds : Step(w) \/ Start(w)

Spec == Init /\ [][Next]_vars

(* A world that is inside a call and awake is scheduled.                   *)
FairSpec == Spec /\ \A w \in Worlds : WF_vars(Step(w))

-------------------------------------------------------------------------------
Inside == {w \in Worlds : pc[w] \in InsidePCs}
Lists == cnx.messageList \o cnx.replyList \o cnx.freeList
Listed == {Lists[i] : i \in DOMAIN Lists}
Held == {buf[w] : w \in {v \in Worlds : pc[v] \in CopyPCs}}

(* Types and ranges.                                                       *)
TypeOK ==
  /\ cnx \in [messageList : Seq(Buffers), replyList : Seq(Buffers), freeList : Seq(Buffers),
              nQueuedMessages : Nat, nextToken : Tokens, mask : BOOLEAN,
              pendingDestroy : BOOLEAN, useCount : Nat, pollWaiters : SUBSET Worlds]
  /\ msg \in [Buffers -> [token : Tokens, num : 0 .. MaxSends]]
  /\ freed \subseteq Buffers
  /\ destroyed \in BOOLEAN
  /\ waitEvent \in [Worlds -> {"cnx", NoEvent}]
  /\ pc \in [Worlds -> PCs]
  /\ buf \in [Worlds -> Buffers \cup {0}]
  /\ tok \in [Worlds -> Tokens]
  /\ num \in [Worlds -> 0 .. MaxSends]
  /\ moved \in [Worlds -> SUBSET Worlds]
  /\ selected \subseteq Worlds
  /\ sends \in 0 .. MaxSends

(* No buffer is ever in two places, on two lists or with two callers, and  *)
(* none is lost while the connection is up: every error path between the   *)
(* unlocked copies puts its buffer back exactly once.                      *)
BuffersAccounted ==
  /\ TypeOK
  /\ Cardinality(Listed) = Len(Lists)
  /\ Listed \cap Held = {}
  /\ \A v, w \in Worlds : pc[v] \in CopyPCs /\ pc[w] \in CopyPCs /\ buf[v] = buf[w] => v = w
  /\ ~cnx.pendingDestroy => Listed \cup Held = Buffers

(* What others read of the lists agrees with them on every path, those     *)
(* after a fault included: nQueuedMessages counts what is queued, as its   *)
(* assertions say, and the bit the host polls in pendingCnx is set exactly *)
(* while a message is queued.                                              *)
SummariesExact ==
  /\ cnx.nQueuedMessages = Len(cnx.messageList) + Len(cnx.replyList)
  /\ cnx.mask <=> cnx.messageList # <<>>

(* No lost wakeup: a world asleep in RPCGetMsg has no message to take, one *)
(* asleep in RPC_GetReply no reply, although replies and messages share    *)
(* one event and one count; and those who look at the count or at the bit  *)
(* instead of the lists are not misled.                                    *)
SleepersHaveNothing ==
  /\ SummariesExact
  /\ \A w \in Worlds : IsWaiting(waitEvent, w) =>
       \/ pc[w] = "msgWait" /\ cnx.messageList = <<>>
       \/ pc[w] = "repWait" /\ RepliesTo(w) = {}

(* A message is received once: it is on the list or with one receiver.     *)
OneReceiver ==
  LET receivers == {w \in Worlds : num[w] # 0 /\
                       pc[w] \in {"msgCopy", "infoCopy", "serving", "replyCopy"}}
  IN /\ \A v, w \in receivers : num[v] = num[w] => v = w
     /\ \A v \in receivers, i \in 1 .. Len(cnx.messageList) :
          msg[cnx.messageList[i]].num # num[v]

(* A caller takes the reply to its own message, not that of another world  *)
(* that waits on the same connection, and nobody else receives and answers *)
(* that message as well.                                                   *)
RepliesMatch ==
  /\ OneReceiver
  /\ \A w \in Worlds : pc[w] = "repCopy" => msg[buf[w]].num = num[w]

(* A poller that has not been woken is still a poll waiter of a connection *)
(* without messages, or a sender is about to wake it.                      *)
PollersNotForgotten ==
  \A w \in Worlds : pc[w] = "polling" /\ w \notin selected =>
    \/ w \in cnx.pollWaiters /\ cnx.messageList = <<>>
    \/ \E v \in Worlds : w \in moved[v]

(* Seen as a ConnectionLife, the connection is freed only when nobody is   *)
(* inside, asleep or copying, and nobody enters once it is being destroyed.*)
Life ==
  INSTANCE ConnectionLife WITH
    Threads <- Worlds,
    life <- IF destroyed THEN "free" ELSE IF cnx.pendingDestroy THEN "closing" ELSE "live",
    users <- Inside

ImplementsLife == Life!LiveSpec

(* The destroyer gets everyone out: RPCUnregister's loop ends although     *)
(* callers sleep for messages that will never come.                        *)
UnregisterCompletes == cnx.pendingDestroy ~> destroyed

-------------------------------------------------------------------------------
(* What a comment of rpc.c says and the code does not keep.                *)

(* RPCRemoveAndUnlockCnx: "Destroy the given connection and free its       *)
(* buffers."                                                               *)
DestroyFreesBuffers == destroyed => freed = Buffers

===============================================================================
