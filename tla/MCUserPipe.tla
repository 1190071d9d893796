------------------------------ MODULE MCUserPipe ------------------------------
(* A reader and a writer of a pipe of one cartel; in ForSockets they are   *)
(* of two cartels, as the sockets of user/userSocketUnix.c have it.        *)
EXTENDS UserPipe

CONSTANTS c1, c2, r, w

OneCartel == [t \in Threads |-> c1]
ForSockets == [t \in Threads |-> IF t = r THEN c1 ELSE c2]

ReaderAndWriter == [t \in Threads |->
  IF t = r
  THEN {Transfer("read", 1, TRUE), Transfer("read", 3, TRUE), PollCall("read", FALSE),
        SleepCall}
  ELSE {Transfer("write", 2, TRUE), Transfer("write", 4, TRUE), Transfer("write", 2, FALSE),
        PollCall("write", TRUE), CloseCall("read"), CloseCall("write")}]
===============================================================================
