---------------------------- MODULE ConnectionLife ----------------------------
(***************************************************************************)
(* What one entry of the RPC connection table promises its users, whatever *)
(* the protocol behind it: a call can be entered only on a live            *)
(* connection, and the entry is not freed under a call that has entered.   *)
(***************************************************************************)
CONSTANT Threads

VARIABLES
  life,   \* "free", "opening", "live" or "closing"
  users   \* the threads that are inside a call on the connection

vars == <<life, users>>

Init == life = "free" /\ users = {}

(* A registration takes the entry, then completes or fails.                *)
Open   == life = "free" /\ life' = "opening" /\ UNCHANGED users
Opened == life = "opening" /\ life' \in {"live", "free"} /\ UNCHANGED users

Enter(t) == life = "live" /\ users' = users \cup {t} /\ UNCHANGED life
Leave(t) == t \in users /\ users' = users \ {t} /\ UNCHANGED life

(* The one destroyer turns newcomers away, and frees the entry after the   *)
(* last user has left.                                                     *)
Close == life = "live" /\ life' = "closing" /\ UNCHANGED users
Free  == life \in {"live", "closing"} /\ users = {} /\ life' = "free" /\ UNCHANGED users

Next == Open \/ Opened \/ Close \/ Free \/ \E t \in Threads : Enter(t) \/ Leave(t)

Spec == Init /\ [][Next]_vars

(* The same, of a connection that has just been registered.                *)
LiveSpec == life = "live" /\ users = {} /\ [][Next]_vars

===============================================================================
