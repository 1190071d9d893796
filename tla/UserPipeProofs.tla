---------------------------- MODULE UserPipeProofs ----------------------------
(***************************************************************************)
(* That the bytes of a pipe come out as they went in, and that no thread   *)
(* sleeps in a read, a write, a poll or a sleep through what should wake   *)
(* it, for any number of threads, any size of the ring and any sequence of *)
(* calls.                                                                  *)
(***************************************************************************)
EXTENDS UserPipe, TLAPS

PCs == {"user", "gone", "enter", "again", "broadcast", "pollers", "closed", "cleanup",
        "register", "polled", "cancel", "wait", "commit", "sleep", "woken"}

States == {"AWAKE", "PRE_BLOCK", "BLOCKED", "TIMEOUT", "BACKOUT", "WAIT_COMPLETE"}

CallType == [kind : {"none", "transfer", "poll", "close", "sleep"}, end : Ends,
             len : Nat, left : Nat, block : BOOLEAN, timed : BOOLEAN]

PipeType == [readStart : 0 .. PipeSize - 1, readLength : Bytes, open : SUBSET Ends]

(* The types, of what TypeOK leaves out as well, by who changes them.      *)
CallTypes == pc \in [Threads -> PCs] /\ call \in [Threads -> CallType]

SleepTypes ==
  /\ state \in [Threads -> States]
  /\ asleep \in [Threads -> {"none", "own"} \cup Ends]
  /\ armed \subseteq Threads /\ firing \subseteq Threads /\ \A t, u \in firing : t = u

LockTypes == waitLock \in [Cartels -> Threads \cup {Nobody}] /\ sema \in Threads \cup {Nobody}

BitTypes ==
  /\ dead \in [Threads -> BOOLEAN] /\ pendingBit \in [Threads -> BOOLEAN]
  /\ kicks \subseteq Threads \X {"dead", "signal"}

RingTypes ==
  /\ buf \in [0 .. PipeSize - 1 -> Bytes] /\ pipe \in PipeType
  /\ written \in Bytes /\ taken \in Bytes

PollTypes == pollers \in [Ends -> SUBSET Threads]

Types == CallTypes /\ SleepTypes /\ LockTypes /\ BitTypes /\ RingTypes /\ PollTypes

-------------------------------------------------------------------------------
(* Positions and numbers wrap at most once.                                *)
LEMMA WrapsOnce ==
  ASSUME NEW m \in Nat \ {0}, NEW x \in Nat, x < m + m
  PROVE  x % m = IF x < m THEN x ELSE x - m
  BY Z3

(* The two chunks of a read that asks for n bytes.                         *)
LEMMA ReadChunks ==
  ASSUME Types, NEW n \in Nat, NEW c, c = UserPipeReadNoBlock(n)
  PROVE  /\ c[1] \in Nat /\ c[2] \in Nat /\ c[1] + c[2] \in Nat
         /\ c[1] + c[2] <= n /\ c[1] + c[2] <= pipe.readLength
         /\ n > 0 /\ pipe.readLength > 0 => c[1] + c[2] > 0
<1>1. PICK a, l \in Nat : a = pipe.readStart /\ l = pipe.readLength /\ a < PipeSize /\ l <= PipeSize
  BY PipeAssumption DEF Types, RingTypes, PipeType, Bytes
<1>2. PICK f : f = Min(Min(n, l), PipeSize - a)
  OBVIOUS
<1>3. PICK g : g = Min(n - f, l - f)
  OBVIOUS
<1>4. c[1] = f /\ c[2] = g
  BY <1>1, <1>2, <1>3 DEF UserPipeReadNoBlock
<1>5. f \in Nat /\ f <= n /\ f <= l /\ (n > 0 /\ l > 0 => f > 0)
  BY <1>1, <1>2, PipeAssumption DEF Min
<1>6. g \in Nat /\ g <= n - f /\ g <= l - f
  BY <1>1, <1>3, <1>5 DEF Min
<1> QED
  BY <1>1, <1>4, <1>5, <1>6

(* The two chunks of a write of n bytes: all of it, or what fits, or       *)
(* nothing of a small write that does not fit as a whole; the second is    *)
(* empty when the ring does not wrap.                                      *)
LEMMA WriteChunks ==
  ASSUME Types, NEW n \in Nat, NEW c, c = UserPipeWriteNoBlock(n)
  PROVE  /\ c[1] \in Nat /\ c[2] \in Nat /\ c[1] + c[2] \in Nat
         /\ c[1] + c[2] <= n /\ c[1] + c[2] <= PipeSize - pipe.readLength
         /\ \/ c[1] + c[2] = n \/ c[1] + c[2] = PipeSize - pipe.readLength
            \/ c[1] + c[2] = 0 /\ n \in PipeSize - pipe.readLength + 1 .. PipeSize
         /\ pipe.readStart = 0 => c[2] = 0
<1>1. PICK a, l \in Nat : a = pipe.readStart /\ l = pipe.readLength /\ a < PipeSize /\ l <= PipeSize
  BY PipeAssumption DEF Types, RingTypes, PipeType, Bytes
<1>2. PICK f : f = IF a + l < PipeSize THEN Min(n, PipeSize - (a + l)) ELSE Min(n, a - (a + l - PipeSize))
  OBVIOUS
<1>3. PICK g : g = IF a + l < PipeSize THEN Min(n - f, a) ELSE 0
  OBVIOUS
<1>4. CASE n <= PipeSize /\ n > PipeSize - l
  <2>1. c[1] = 0 /\ c[2] = 0
    BY <1>1, <1>4 DEF UserPipeWriteNoBlock
  <2> QED
    BY <1>1, <1>4, <2>1, PipeAssumption
<1>5. CASE ~(n <= PipeSize /\ n > PipeSize - l)
  <2>1. UserPipeWriteNoBlock(n) = <<f, g>>
    BY <1>1, <1>2, <1>3, <1>5, PipeAssumption DEF UserPipeWriteNoBlock
  <2>2. f \in Nat /\ g \in Nat /\ f + g <= n /\ f + g <= PipeSize - l /\ (f + g = n \/ f + g = PipeSize - l)
    BY <1>1, <1>2, <1>3, PipeAssumption DEF Min
  <2>3. a = 0 => g = 0
    BY <1>1, <1>2, <1>3, PipeAssumption DEF Min
  <2>4. c[1] = f /\ c[2] = g
    BY <2>1
  <2> QED
    BY <1>1, <2>2, <2>3, <2>4
<1> QED
  BY <1>1, <1>4, <1>5

(* How many bytes a copy moves, and what a fault can mean.                 *)
LEMMA CopiedFacts ==
  ASSUME NEW c, c[1] \in Nat, c[2] \in Nat, NEW faults \in SUBSET {1, 2}, NEW fault \in FaultsIn(c, faults)
  PROVE  /\ Copied(c, fault) \in Nat /\ Copied(c, fault) <= c[1] + c[2]
         /\ fault = 0 => Copied(c, fault) = c[1] + c[2]
         /\ fault = 1 => Copied(c, fault) = 0
         /\ fault = 2 => 2 \in faults /\ c[2] > 0 /\ Copied(c, fault) = c[1]
         /\ fault \in {0, 1, 2}
<1>1. fault \in {0, 1, 2} /\ (fault = 2 => 2 \in faults /\ c[2] > 0)
  BY DEF FaultsIn
<1>2. CASE fault = 0
  BY <1>2 DEF Copied
<1>3. CASE fault = 1
  BY <1>3 DEF Copied
<1>4. CASE fault = 2
  BY <1>1, <1>4 DEF Copied
<1> QED
  BY <1>1, <1>2, <1>3, <1>4

-------------------------------------------------------------------------------
(* The order of the bytes in the ring.                                     *)
InOrder ==
  /\ \A i \in 0 .. pipe.readLength - 1 :
       buf[(pipe.readStart + i) % PipeSize] = (taken + i) % (PipeSize + 1)
  /\ written = (taken + pipe.readLength) % (PipeSize + 1)
  /\ pipe.readLength = 0 => pipe.readStart = 0

(* n bytes out at the front leave the others in order.                     *)
LEMMA TakenInOrder ==
  ASSUME Types, InOrder, NEW n \in Nat, n <= pipe.readLength, NEW fault,
         fault = 0 \/ n < pipe.readLength \/ n = 0,
         pipe' = [pipe EXCEPT !.readStart = StartAfter(n, fault), !.readLength = pipe.readLength - n],
         taken' = (taken + n) % (PipeSize + 1), UNCHANGED <<buf, written>>
  PROVE  InOrder' /\ pipe' \in PipeType /\ taken' \in Bytes
<1>1. PICK p, q \in Nat \ {0} : p = PipeSize /\ q = PipeSize + 1
  BY PipeAssumption
<1>2. PICK a, l, k \in Nat : a = pipe.readStart /\ l = pipe.readLength /\ k = taken
                             /\ a < p /\ l <= p /\ k <= p
  BY <1>1 DEF Types, RingTypes, PipeType, Bytes
<1>3. n <= l /\ q = p + 1
  BY <1>1, <1>2
<1>4. PICK b : b = StartAfter(n, fault)
  OBVIOUS
<1>5. PICK x \in Nat : x = a + n /\ x < p + p
  BY <1>2, <1>3
<1>6. x % p = IF x < p THEN x ELSE x - p
  BY <1>5, WrapsOnce
<1>7. b = IF fault = 0 /\ n = l THEN 0 ELSE x % p
  BY <1>1, <1>2, <1>4, <1>5 DEF StartAfter
<1>8. b \in 0 .. p - 1 /\ (n < l => b = x % p)
  BY <1>2, <1>3, <1>5, <1>6, <1>7
<1>9. PICK j \in Nat : j = taken' /\ j = IF k + n < q THEN k + n ELSE k + n - q
  <2>1. PICK y \in Nat : y = k + n /\ y < q + q
    BY <1>2, <1>3
  <2>2. y % q = IF y < q THEN y ELSE y - q
    BY <2>1, WrapsOnce
  <2>3. taken' = y % q
    BY <1>1, <1>2, <2>1
  <2> QED
    BY <2>1, <2>2, <2>3
<1>10. PICK m \in Nat : m = l - n /\ m <= p
  BY <1>2, <1>3
<1>11. pipe' = [pipe EXCEPT !.readStart = b, !.readLength = m]
  BY <1>2, <1>4, <1>10
<1>12. pipe'.readStart = b /\ pipe'.readLength = m /\ pipe' \in PipeType
  <2>1. m \in Bytes /\ b \in 0 .. PipeSize - 1
    BY <1>1, <1>8, <1>10 DEF Bytes
  <2> QED
    BY <1>11, <2>1 DEF Types, RingTypes, PipeType
<1>13. taken' \in Bytes
  BY <1>1, <1>2, <1>3, <1>9 DEF Bytes
<1>14. ASSUME NEW i \in 0 .. m - 1
       PROVE  buf[(b + i) % p] = (j + i) % q
  <2>1. PICK h \in 0 .. l - 1 : h = n + i
    BY <1>2, <1>10
  <2>2. PICK y, z, u, v \in Nat : y = a + h /\ z = b + i /\ u = k + h /\ v = j + i
    BY <1>2, <1>8, <1>9
  <2>3. y < p + p /\ z < p + p /\ u < q + q /\ v < q + q /\ n < l
    BY <1>2, <1>3, <1>8, <1>9, <1>10, <2>1, <2>2
  <2>4. y % p = IF y < p THEN y ELSE y - p
    BY <2>3, WrapsOnce
  <2>5. z % p = IF z < p THEN z ELSE z - p
    BY <2>3, WrapsOnce
  <2>6. u % q = IF u < q THEN u ELSE u - q
    BY <2>3, WrapsOnce
  <2>7. v % q = IF v < q THEN v ELSE v - q
    BY <2>3, WrapsOnce
  <2>8. PICK b1 \in Nat : b1 = b /\ b1 = IF x < p THEN x ELSE x - p
    BY <1>5, <1>6, <1>8, <2>3
  <2>9. y % p = z % p
    BY <1>2, <1>5, <2>1, <2>2, <2>3, <2>4, <2>5, <2>8
  <2>10. u % q = v % q
    BY <1>2, <1>9, <2>1, <2>2, <2>3, <2>6, <2>7
  <2>11. buf[y % p] = u % q
    BY <1>1, <1>2, <2>1, <2>2 DEF InOrder
  <2> QED
    BY <2>2, <2>9, <2>10, <2>11
<1>15. written' = (j + m) % q
  <2>1. PICK u, v \in Nat : u = k + l /\ v = j + m /\ u < q + q /\ v < q + q
    BY <1>2, <1>3, <1>9, <1>10
  <2>2. u % q = IF u < q THEN u ELSE u - q
    BY <2>1, WrapsOnce
  <2>3. v % q = IF v < q THEN v ELSE v - q
    BY <2>1, WrapsOnce
  <2>4. u % q = v % q
    BY <1>2, <1>3, <1>9, <1>10, <2>1, <2>2, <2>3
  <2>5. written' = u % q
    BY <1>1, <1>2, <2>1 DEF InOrder
  <2> QED
    BY <2>1, <2>4, <2>5
<1>16. m = 0 => b = 0
  <2>1. CASE fault = 0
    BY <1>2, <1>3, <1>7, <1>10, <2>1
  <2>2. CASE fault # 0 /\ m = 0
    <3>1. n = 0 /\ l = 0
      BY <1>2, <1>10, <2>2
    <3>2. a = 0
      BY <1>2, <3>1 DEF InOrder
    <3> QED
      BY <1>1, <1>5, <1>6, <1>7, <3>1, <3>2
  <2> QED
    BY <2>1, <2>2
<1> QED
  BY <1>1, <1>9, <1>12, <1>13, <1>14, <1>15, <1>16 DEF InOrder

(* n bytes that fit go in behind the others, in order.                     *)
LEMMA FilledInOrder ==
  ASSUME Types, InOrder, NEW n \in Nat, n <= PipeSize - pipe.readLength,
         pipe' = [pipe EXCEPT !.readLength = pipe.readLength + n],
         buf' = Filled(n), written' = (written + n) % (PipeSize + 1), taken' = taken
  PROVE  /\ InOrder' /\ pipe' \in PipeType /\ written' \in Bytes
         /\ buf' \in [0 .. PipeSize - 1 -> Bytes]
<1>1. PICK p, q \in Nat \ {0} : p = PipeSize /\ q = PipeSize + 1
  BY PipeAssumption
<1>2. PICK a, l, k, w \in Nat : a = pipe.readStart /\ l = pipe.readLength /\ k = taken
                                /\ w = written /\ a < p /\ l <= p /\ k <= p /\ w <= p
  BY <1>1 DEF Types, RingTypes, PipeType, Bytes
<1>3. n <= p - l /\ q = p + 1
  BY <1>1, <1>2
<1>4. PICK m \in Nat : m = l + n /\ m <= p
  BY <1>2, <1>3
<1>5. pipe'.readStart = a /\ pipe'.readLength = m /\ pipe' \in PipeType
  <2>1. pipe' = [pipe EXCEPT !.readLength = m] /\ m \in Bytes
    BY <1>1, <1>2, <1>4 DEF Bytes
  <2> QED
    BY <1>2, <2>1 DEF Types, RingTypes, PipeType
<1>6. PICK e \in Nat : e = (a + l) % p /\ e = IF a + l < p THEN a + l ELSE a + l - p
  <2>1. PICK x \in Nat : x = a + l /\ x < p + p
    BY <1>2
  <2>2. x % p = IF x < p THEN x ELSE x - p
    BY <2>1, WrapsOnce
  <2> QED
    BY <2>1, <2>2
<1>7. w = IF k + l < q THEN k + l ELSE k + l - q
  <2>1. PICK x \in Nat : x = k + l /\ x < q + q
    BY <1>2, <1>3
  <2>2. x % q = IF x < q THEN x ELSE x - q
    BY <2>1, WrapsOnce
  <2>3. w = x % q
    BY <1>1, <1>2, <2>1 DEF InOrder
  <2> QED
    BY <2>1, <2>2, <2>3
<1>8. PICK w1 \in Nat : w1 = written' /\ w1 = IF w + n < q THEN w + n ELSE w + n - q
  <2>1. PICK x \in Nat : x = w + n /\ x < q + q
    BY <1>2, <1>3
  <2>2. x % q = IF x < q THEN x ELSE x - q
    BY <2>1, WrapsOnce
  <2>3. written' = x % q
    BY <1>1, <1>2, <2>1
  <2> QED
    BY <2>1, <2>2, <2>3
<1>9. written' \in Bytes
  BY <1>1, <1>2, <1>3, <1>8 DEF Bytes
<1>10. DOMAIN buf = 0 .. p - 1
  BY <1>1 DEF Types, RingTypes
<1>11. ASSUME NEW j \in 0 .. p - 1
       PROVE  \E d \in 0 .. p - 1 : /\ d = IF j >= e THEN j - e ELSE j + p - e
                                    /\ buf'[j] = IF d < n THEN (w + d) % q ELSE buf[j]
  <2>1. PICK x \in Nat : x = j + p - e /\ x < p + p
    BY <1>2, <1>6
  <2>2. x % p = IF x < p THEN x ELSE x - p
    BY <2>1, WrapsOnce
  <2>3. PICK d \in 0 .. p - 1 : d = x % p /\ d = IF j >= e THEN j - e ELSE j + p - e
    BY <1>2, <1>6, <2>1, <2>2
  <2>4. buf'[j] = IF d < n THEN (w + d) % q ELSE buf[j]
    BY <1>1, <1>2, <1>6, <1>10, <2>1, <2>3 DEF Filled
  <2> QED
    BY <2>3, <2>4
<1>12. buf' \in [0 .. PipeSize - 1 -> Bytes]
  <2>1. DOMAIN buf' = 0 .. p - 1 /\ buf' = [j \in 0 .. p - 1 |-> buf'[j]]
    BY <1>10 DEF Filled
  <2>2. ASSUME NEW j \in 0 .. p - 1
        PROVE  buf'[j] \in Bytes
    <3>1. PICK d \in 0 .. p - 1 : buf'[j] = IF d < n THEN (w + d) % q ELSE buf[j]
      BY <1>11
    <3>2. PICK x \in Nat : x = w + d /\ x < q + q
      BY <1>2, <1>3
    <3>3. x % q = IF x < q THEN x ELSE x - q
      BY <3>2, WrapsOnce
    <3>4. x % q \in Bytes
      BY <1>1, <1>3, <3>2, <3>3 DEF Bytes
    <3>5. buf[j] \in Bytes
      BY <1>1 DEF Types, RingTypes
    <3> QED
      BY <3>1, <3>2, <3>4, <3>5
  <2> QED
    BY <1>1, <2>1, <2>2
<1>13. ASSUME NEW i \in 0 .. m - 1
       PROVE  buf'[(a + i) % p] = (k + i) % q
  <2>1. PICK y, u \in Nat : y = a + i /\ u = k + i /\ y < p + p /\ u < q + q
    BY <1>2, <1>3, <1>4
  <2>2. y % p = IF y < p THEN y ELSE y - p
    BY <2>1, WrapsOnce
  <2>3. u % q = IF u < q THEN u ELSE u - q
    BY <2>1, WrapsOnce
  <2>4. PICK j \in 0 .. p - 1 : j = y % p /\ j = IF y < p THEN y ELSE y - p
    BY <2>1, <2>2
  <2>5. PICK d \in 0 .. p - 1 : /\ d = IF j >= e THEN j - e ELSE j + p - e
                                /\ buf'[j] = IF d < n THEN (w + d) % q ELSE buf[j]
    BY <1>11
  <2>6. /\ e = IF a + l < p THEN a + l ELSE a + l - p
        /\ j = IF a + i < p THEN a + i ELSE a + i - p
        /\ d = IF j >= e THEN j - e ELSE j + p - e
        /\ a < p /\ l <= p /\ n <= p - l /\ i < l + n
    BY <1>2, <1>3, <1>4, <1>6, <2>1, <2>4, <2>5
  <2>7. CASE i < l
    <3>1. d = p - l + i /\ ~(d < n)
      BY <2>6, <2>7
    <3>2. buf[y % p] = u % q
      BY <1>1, <1>2, <2>1, <2>7 DEF InOrder
    <3> QED
      BY <2>1, <2>4, <2>5, <3>1, <3>2
  <2>8. CASE ~(i < l)
    <3>1. d = i - l /\ d < n
      BY <2>6, <2>8
    <3>2. PICK z \in Nat : z = w + d /\ z < q + q
      BY <1>2, <1>3
    <3>3. z % q = IF z < q THEN z ELSE z - q
      BY <3>2, WrapsOnce
    <3>4. z % q = u % q
      BY <1>2, <1>3, <1>4, <1>7, <2>1, <2>3, <3>1, <3>2, <3>3
    <3> QED
      BY <2>1, <2>4, <2>5, <3>1, <3>2, <3>4
  <2> QED
    BY <2>7, <2>8
<1>14. written' = (k + m) % q
  <2>1. PICK x \in Nat : x = k + m /\ x < q + q
    BY <1>2, <1>3, <1>4
  <2>2. x % q = IF x < q THEN x ELSE x - q
    BY <2>1, WrapsOnce
  <2>3. w1 = IF x < q THEN x ELSE x - q
    <3>1. /\ w1 = IF w + n < q THEN w + n ELSE w + n - q
          /\ w = IF k + l < q THEN k + l ELSE k + l - q
      BY <1>7, <1>8
    <3>2. x = k + l + n /\ l + n < q /\ k < q
      BY <1>2, <1>3, <1>4, <2>1
    <3> QED
      BY <3>1, <3>2
  <2> QED
    BY <1>8, <2>1, <2>2, <2>3
<1>15. m = 0 => a = 0
  BY <1>2, <1>4 DEF InOrder
<1> QED
  BY <1>1, <1>2, <1>5, <1>9, <1>12, <1>13, <1>14, <1>15 DEF InOrder

-------------------------------------------------------------------------------
(* These types are those of TypeOK.                                        *)
LEMMA TypesOK ==
  Types => TypeOK
<1>1. RingTypes => /\ pipe.readStart \in 0 .. PipeSize - 1 /\ pipe.readLength \in Bytes
                   /\ pipe.open \subseteq Ends
  BY DEF RingTypes, PipeType
<1> QED
  BY <1>1 DEF Types, TypeOK, CallTypes, SleepTypes, LockTypes, BitTypes, RingTypes, PollTypes, PCs, States

(* The calls of the menu are calls.                                        *)
LEMMA CallsTyped ==
  /\ NoCall \in CallType /\ SleepCall \in CallType
  /\ \A e \in Ends : CloseCall(e) \in CallType
  /\ \A e \in Ends, b \in BOOLEAN : PollCall(e, b) \in CallType
  /\ \A e \in Ends, n \in Nat, b \in BOOLEAN : Transfer(e, n, b) \in CallType
<1>1. NoCall \in CallType
  BY DEF NoCall, CallType, Ends
<1>2. SleepCall \in CallType
  BY <1>1 DEF SleepCall, CallType
<1>3. \A e \in Ends : CloseCall(e) \in CallType
  BY <1>1 DEF CloseCall, CallType
<1>4. \A e \in Ends, b \in BOOLEAN : PollCall(e, b) \in CallType
  BY <1>1 DEF PollCall, CallType
<1>5. \A e \in Ends, n \in Nat, b \in BOOLEAN : Transfer(e, n, b) \in CallType
  BY DEF Transfer, CallType
<1> QED
  BY <1>1, <1>2, <1>3, <1>4, <1>5

(* Where a thread goes, what a return leaves and what a wakeup does are of *)
(* the right types.                                                        *)
LEMMA GoTyped ==
  ASSUME Types, NEW t \in Threads
  PROVE  /\ \A w \in PCs : Go(t, w) => pc' \in [Threads -> PCs]
         /\ Return(t) => CallTypes'
         /\ \A c \in CallType, w \in PCs : Called(t, c, w) => CallTypes'
<1>1. \A w \in PCs : Go(t, w) => pc' \in [Threads -> PCs]
  BY DEF Types, CallTypes, Go
<1>2. "user" \in PCs
  BY DEF PCs
<1>3. Return(t) => CallTypes'
  BY <1>1, <1>2, CallsTyped DEF Types, CallTypes, Return
<1>4. \A c \in CallType, w \in PCs : Called(t, c, w) => CallTypes'
  BY <1>1 DEF Types, CallTypes, Called
<1> QED
  BY <1>1, <1>3, <1>4

(* A wakeup leaves states and events of the right types, ...               *)
LEMMA WakeTyped ==
  ASSUME Types, NEW t \in Threads, NEW new \in States, UserThread_WakeupWorld(t, new)
  PROVE  /\ state' \in [Threads -> States]
         /\ asleep' \in [Threads -> {"none", "own"} \cup Ends]
<1>1. \A old \in States : Overridden(old, new) \in States
  BY DEF Overridden, States
<1> QED
  BY <1>1 DEF Types, SleepTypes, UserThread_WakeupWorld

(* ... and so do the end of a wait and the end of a copy.                  *)
LEMMA AfterTyped ==
  ASSUME Types, NEW t \in Threads
  PROVE  /\ \A s : AfterWait(t, s) => CallTypes' /\ sema' \in Threads \cup {Nobody}
         /\ \A fault : \A n \in Nat : n <= call[t].left /\ AfterCopy(t, n, fault) =>
              CallTypes' /\ sema' \in Threads \cup {Nobody}
<1>1. {"again", "polled", "broadcast"} \subseteq PCs
  BY DEF PCs
<1>2. ASSUME NEW s, AfterWait(t, s)
      PROVE  CallTypes' /\ sema' \in Threads \cup {Nobody}
  <2>1. \/ Go(t, "again") /\ UNCHANGED <<call, sema>>
        \/ Return(t) /\ sema' = Nobody
        \/ Go(t, "polled") /\ UNCHANGED <<call, sema>>
        \/ Return(t) /\ UNCHANGED sema
    BY <1>2 DEF AfterWait
  <2> QED
    BY <1>1, <2>1, GoTyped DEF Types, CallTypes, LockTypes
<1>3. ASSUME NEW fault, NEW n \in Nat, n <= call[t].left, AfterCopy(t, n, fault)
      PROVE  CallTypes' /\ sema' \in Threads \cup {Nobody}
  <2>1. CASE fault # 0
    BY <1>3, <2>1, GoTyped DEF AfterCopy
  <2>2. CASE fault = 0
    <3>1. PICK m \in Nat : m = call[t].left - n
      BY <1>3 DEF Types, CallTypes, CallType
    <3>2. Go(t, "broadcast") /\ sema' = t /\ call' = [call EXCEPT ![t].left = m]
      BY <1>3, <2>2, <3>1 DEF AfterCopy
    <3>3. call' \in [Threads -> CallType]
      BY <3>2 DEF Types, CallTypes, CallType
    <3> QED
      BY <1>1, <3>2, <3>3, GoTyped DEF CallTypes
  <2> QED
    BY <2>1, <2>2
<1> QED
  BY <1>2, <1>3

-------------------------------------------------------------------------------
(* A read takes n bytes out: none at a fault of the first copy; without a  *)
(* fault, none of an empty pipe only.                                      *)
Reads(t, n, fault) ==
  /\ n <= call[t].left /\ n <= pipe.readLength
  /\ fault = 0 \/ n < pipe.readLength \/ n = 0
  /\ pipe' = [pipe EXCEPT !.readStart = StartAfter(n, fault), !.readLength = pipe.readLength - n]
  /\ taken' = (taken + n) % (PipeSize + 1)
  /\ fault = 1 => n = 0
  /\ fault = 2 => 2 \in CopyOutFaults
  /\ fault = 0 /\ n = 0 => pipe.readLength = 0 \/ call[t].left = 0
  /\ AfterCopy(t, n, fault)

(* Every read is one of these.                                             *)
LEMMA ReadFacts ==
  ASSUME Types, NEW t \in Threads, UserPipe_Read(t)
  PROVE  \E n \in Nat, fault \in {0, 1, 2} : Reads(t, n, fault)
<1>1. PICK k \in Nat : k = call[t].left
  BY DEF Types, CallTypes, CallType
<1>2. PICK c : c = UserPipeReadNoBlock(k)
  OBVIOUS
<1>3. PICK fault \in FaultsIn(c, CopyOutFaults) :
        LET n == Copied(c, fault) IN
        /\ pipe' = [pipe EXCEPT !.readStart = StartAfter(n, fault), !.readLength = @ - n]
        /\ taken' = (taken + n) % (PipeSize + 1)
        /\ AfterCopy(t, n, fault)
  BY <1>1, <1>2 DEF UserPipe_Read
<1>4. PICK n : n = Copied(c, fault)
  OBVIOUS
<1>5. /\ c[1] \in Nat /\ c[2] \in Nat /\ c[1] + c[2] \in Nat
      /\ c[1] + c[2] <= k /\ c[1] + c[2] <= pipe.readLength
      /\ k > 0 /\ pipe.readLength > 0 => c[1] + c[2] > 0
  BY <1>2, ReadChunks
<1>6. CopyOutFaults \in SUBSET {1, 2}
  BY PipeAssumption
<1>7. /\ n \in Nat /\ n <= c[1] + c[2] /\ (fault = 0 => n = c[1] + c[2]) /\ (fault = 1 => n = 0)
      /\ fault = 2 => 2 \in CopyOutFaults /\ c[2] > 0 /\ n = c[1]
      /\ fault \in {0, 1, 2}
  BY <1>4, <1>5, <1>6, CopiedFacts
<1>8. PICK l \in Nat : l = pipe.readLength
  BY PipeAssumption DEF Types, RingTypes, PipeType, Bytes
<1>9. n <= k /\ n <= l /\ (fault = 0 \/ n < l \/ n = 0) /\ (fault = 0 /\ n = 0 => l = 0 \/ k = 0)
  BY <1>5, <1>7, <1>8
<1>10. Reads(t, n, fault)
  BY <1>1, <1>3, <1>4, <1>7, <1>8, <1>9 DEF Reads
<1> QED
  BY <1>7, <1>10

(* A write puts n bytes in: none at a fault of the first copy, and a       *)
(* second copy there is only where the ring wraps; without a fault, all of *)
(* it, or what fits, or nothing of a small write that does not fit.        *)
Writes(t, n, fault) ==
  /\ n <= call[t].left /\ n <= PipeSize - pipe.readLength
  /\ pipe' = [pipe EXCEPT !.readLength = pipe.readLength + n]
  /\ buf' = Filled(n)
  /\ written' = (written + n) % (PipeSize + 1)
  /\ fault = 1 => n = 0
  /\ fault = 2 => pipe.readStart # 0
  /\ fault = 0 => \/ n = call[t].left \/ n = PipeSize - pipe.readLength
                  \/ n = 0 /\ call[t].left \in PipeSize - pipe.readLength + 1 .. PipeSize
  /\ AfterCopy(t, n, fault)

(* Every write is one of these.                                            *)
LEMMA WriteFacts ==
  ASSUME Types, NEW t \in Threads, UserPipe_Write(t)
  PROVE  \E n \in Nat, fault \in {0, 1, 2} : Writes(t, n, fault)
<1>1. PICK k \in Nat : k = call[t].left
  BY DEF Types, CallTypes, CallType
<1>2. PICK c : c = UserPipeWriteNoBlock(k)
  OBVIOUS
<1>3. PICK fault \in FaultsIn(c, CopyInFaults) :
        LET n == Copied(c, fault) IN
        /\ pipe' = [pipe EXCEPT !.readLength = @ + n]
        /\ buf' = Filled(n)
        /\ written' = (written + n) % (PipeSize + 1)
        /\ AfterCopy(t, n, fault)
  BY <1>1, <1>2 DEF UserPipe_Write
<1>4. PICK n : n = Copied(c, fault)
  OBVIOUS
<1>5. PICK l \in Nat : l = pipe.readLength
  BY PipeAssumption DEF Types, RingTypes, PipeType, Bytes
<1>6. /\ c[1] \in Nat /\ c[2] \in Nat /\ c[1] + c[2] \in Nat
      /\ c[1] + c[2] <= k /\ c[1] + c[2] <= PipeSize - l
      /\ \/ c[1] + c[2] = k \/ c[1] + c[2] = PipeSize - l
         \/ c[1] + c[2] = 0 /\ k \in PipeSize - l + 1 .. PipeSize
      /\ pipe.readStart = 0 => c[2] = 0
  BY <1>2, <1>5, WriteChunks
<1>7. CopyInFaults \in SUBSET {1, 2}
  BY PipeAssumption
<1>8. /\ n \in Nat /\ n <= c[1] + c[2] /\ (fault = 0 => n = c[1] + c[2]) /\ (fault = 1 => n = 0)
      /\ fault = 2 => c[2] > 0
      /\ fault \in {0, 1, 2}
  BY <1>4, <1>6, <1>7, CopiedFacts
<1>9. /\ n <= k /\ n <= PipeSize - l
      /\ fault = 0 => n = k \/ n = PipeSize - l \/ (n = 0 /\ k \in PipeSize - l + 1 .. PipeSize)
  BY <1>5, <1>6, <1>8, PipeAssumption
<1>10. fault = 2 => pipe.readStart # 0
  BY <1>6, <1>8
<1>11. Writes(t, n, fault)
  BY <1>1, <1>3, <1>4, <1>5, <1>8, <1>9, <1>10 DEF Writes
<1> QED
  BY <1>8, <1>11

-------------------------------------------------------------------------------
(* The types, and the order of the bytes, are kept by every step.          *)
StreamInv == Types /\ InOrder

(* A step that leaves the ring alone leaves it in order.                   *)
LEMMA RingSame ==
  ASSUME StreamInv, UNCHANGED pipeVars
  PROVE  RingTypes' /\ InOrder'
  BY DEF StreamInv, Types, RingTypes, InOrder, pipeVars

(* The system calls, as they begin; a close changes which ends are open,   *)
(* not the ring.                                                           *)
LEMMA CallsStream ==
  ASSUME StreamInv, NEW t \in Threads, Call(t)
  PROVE  StreamInv'
<1> USE DEF StreamInv
<1>1. {"wait", "enter", "register", "closed", "cleanup"} \subseteq PCs
  BY DEF PCs
<1>2. CASE UserThread_Sleep(t)
  <2>1. CallTypes'
    BY <1>1, <1>2, GoTyped, CallsTyped DEF UserThread_Sleep
  <2> QED
    BY <1>2, <2>1, RingSame
       DEF UserThread_Sleep, Types, SleepTypes, LockTypes, BitTypes, PollTypes, waitVars, threadVars
<1>3. ASSUME NEW c \in Menu[t], c.kind = "close" /\ UserPipe_Close(t, c.end)
      PROVE  StreamInv'
  <2>1. PICK e \in Ends : e = c.end
    BY MenuAssumption
  <2>2. CallTypes'
    BY <1>1, <1>3, <2>1, GoTyped, CallsTyped DEF UserPipe_Close
  <2>3. RingTypes' /\ InOrder'
    <3>1. /\ pipe' \in PipeType /\ pipe'.readStart = pipe.readStart
          /\ pipe'.readLength = pipe.readLength
      BY <1>3 DEF UserPipe_Close, Types, RingTypes, PipeType
    <3> QED
      BY <1>3, <3>1 DEF UserPipe_Close, Types, RingTypes, InOrder
  <2> QED
    BY <1>3, <2>2, <2>3
       DEF UserPipe_Close, Types, SleepTypes, LockTypes, BitTypes, PollTypes, waitVars, threadVars
<1>4. ASSUME NEW c \in Menu[t], c.kind = "poll" /\ UserObj_Poll(t, c.end, c.timed)
      PROVE  StreamInv'
  <2>1. PICK e \in Ends, b \in BOOLEAN : e = c.end /\ b = c.timed
    BY MenuAssumption
  <2>2. CallTypes'
    BY <1>1, <1>4, <2>1, GoTyped, CallsTyped DEF UserObj_Poll
  <2>3. state' \in [Threads -> States]
    BY <1>4 DEF UserObj_Poll, Types, SleepTypes, States
  <2> QED
    BY <1>4, <2>2, <2>3, RingSame
       DEF UserObj_Poll, Types, SleepTypes, LockTypes, BitTypes, PollTypes, threadVars
<1>5. ASSUME NEW c \in Menu[t], c.kind = "transfer" /\ CallTransfer(t, c.end, c.len, c.block)
      PROVE  StreamInv'
  <2>1. PICK e \in Ends, n \in Nat, b \in BOOLEAN : e = c.end /\ n = c.len /\ b = c.block
    BY <1>5, MenuAssumption
  <2>2. CallTypes'
    BY <1>1, <1>5, <2>1, GoTyped, CallsTyped DEF CallTransfer
  <2> QED
    BY <1>5, <2>2, RingSame
       DEF CallTransfer, Types, SleepTypes, LockTypes, BitTypes, PollTypes, waitVars, threadVars
<1> QED
  BY <1>2, <1>3, <1>4, <1>5 DEF Call

(* The two copies, by what the lemmas above say of reads and of writes.    *)
LEMMA CopiesStream ==
  ASSUME StreamInv, NEW t \in Threads, UserPipe_Read(t) \/ UserPipe_Write(t)
  PROVE  StreamInv'
<1> USE DEF StreamInv
<1>1. CASE UserPipe_Read(t)
  <2>1. PICK n \in Nat, fault \in {0, 1, 2} : Reads(t, n, fault)
    BY <1>1, ReadFacts
  <2>2. CallTypes' /\ sema' \in Threads \cup {Nobody}
    BY <2>1, AfterTyped DEF Reads
  <2>3. buf' = buf /\ written' = written
    BY <1>1 DEF UserPipe_Read
  <2>4. InOrder' /\ pipe' \in PipeType /\ taken' \in Bytes
    BY <2>1, <2>3, TakenInOrder DEF Reads
  <2> QED
    BY <1>1, <2>2, <2>3, <2>4
       DEF UserPipe_Read, Types, SleepTypes, LockTypes, BitTypes, PollTypes, RingTypes, waitVars, threadVars
<1>2. CASE UserPipe_Write(t)
  <2>1. PICK n \in Nat, fault \in {0, 1, 2} : Writes(t, n, fault)
    BY <1>2, WriteFacts
  <2>2. CallTypes' /\ sema' \in Threads \cup {Nobody}
    BY <2>1, AfterTyped DEF Writes
  <2>3. taken' = taken
    BY <1>2 DEF UserPipe_Write
  <2>4. /\ InOrder' /\ pipe' \in PipeType /\ written' \in Bytes
        /\ buf' \in [0 .. PipeSize - 1 -> Bytes]
    BY <2>1, <2>3, FilledInOrder DEF Writes
  <2> QED
    BY <1>2, <2>2, <2>3, <2>4
       DEF UserPipe_Write, Types, SleepTypes, LockTypes, BitTypes, PollTypes, RingTypes, waitVars, threadVars
<1> QED
  BY <1>1, <1>2

(* The other steps of a call.                                              *)
LEMMA OthersStream ==
  ASSUME StreamInv, NEW t \in Threads, Continue(t), ~UserPipe_Read(t), ~UserPipe_Write(t)
  PROVE  StreamInv'
<1> USE DEF StreamInv
<1>1. PCs = {"user", "gone", "enter", "again", "broadcast", "pollers", "closed", "cleanup",
             "register", "polled", "cancel", "wait", "commit", "sleep", "woken"}
  BY DEF PCs
<1>2. ASSUME NEW e, NEW p \in Threads, WakePoller(t, e, p)
      PROVE  StreamInv'
  <2>1. "WAIT_COMPLETE" \in States
    BY DEF States
  <2>2. /\ state' \in [Threads -> States]
        /\ asleep' \in [Threads -> {"none", "own"} \cup Ends]
    BY <1>2, <2>1, WakeTyped DEF WakePoller
  <2> QED
    BY <1>2, <2>2, RingSame
       DEF WakePoller, Types, CallTypes, SleepTypes, LockTypes, BitTypes, PollTypes, threadVars
<1>3. CASE BrokenPipe(t)
  BY <1>3, GoTyped, RingSame
     DEF BrokenPipe, Types, SleepTypes, LockTypes, BitTypes, PollTypes, waitVars
<1>4. CASE UserPipeBroadcastTo(t)
  BY <1>1, <1>4, GoTyped, RingSame
     DEF UserPipeBroadcastTo, UserThread_WakeupGroup, Types, CallTypes, SleepTypes, LockTypes, BitTypes,
         PollTypes, threadVars
<1>5. CASE WakePollers(t)
  BY <1>2, <1>5 DEF WakePollers
<1>6. CASE TransferDecides(t)
  BY <1>1, <1>6, GoTyped, RingSame
     DEF TransferDecides, Types, CallTypes, SleepTypes, LockTypes, BitTypes, PollTypes, waitVars, threadVars
<1>7. CASE CloseBroadcast(t)
  BY <1>7, GoTyped, RingSame
     DEF CloseBroadcast, UserThread_WakeupGroup, Types, SleepTypes, LockTypes, BitTypes, PollTypes, threadVars
<1>8. CASE UserPipeCleanup(t)
  <2>1. CASE \E e \in Ends, p \in Threads : WakePoller(t, e, p)
    BY <1>2, <2>1
  <2>2. CASE sema' = Nobody /\ Return(t) /\ UNCHANGED <<waitVars, threadVars, pipeVars, pollers, calls>>
    BY <2>2, GoTyped, RingSame
       DEF Types, SleepTypes, LockTypes, BitTypes, PollTypes, waitVars, threadVars
  <2> QED
    BY <1>8, <2>1, <2>2 DEF UserPipeCleanup
<1>9. CASE PollRegister(t)
  BY <1>1, <1>9, GoTyped, RingSame
     DEF PollRegister, Types, CallTypes, SleepTypes, LockTypes, BitTypes, PollTypes, waitVars, threadVars
<1>10. CASE PollCleanup(t)
  BY <1>10, GoTyped, RingSame
     DEF PollCleanup, Types, CallTypes, SleepTypes, LockTypes, BitTypes, PollTypes, waitVars, threadVars
<1>11. CASE UserThread_CancelPreparedWait(t)
  BY <1>11, GoTyped, RingSame
     DEF UserThread_CancelPreparedWait, Types, CallTypes, SleepTypes, LockTypes, BitTypes, PollTypes, States,
         threadVars
<1>12. CASE WaitEarlyReturn(t)
  <2>1. CallTypes' /\ sema' \in Threads \cup {Nobody}
    BY <1>12, AfterTyped DEF WaitEarlyReturn
  <2> QED
    BY <1>12, <2>1, RingSame
       DEF WaitEarlyReturn, Types, SleepTypes, LockTypes, BitTypes, PollTypes, States, threadVars
<1>13. CASE WaitBlock(t)
  BY <1>1, <1>13, GoTyped, RingSame
     DEF WaitBlock, Types, CallTypes, SleepTypes, LockTypes, BitTypes, PollTypes, States, threadVars
<1>14. CASE WaitSleep(t)
  <2>1. asleep' \in [Threads -> {"none", "own"} \cup Ends]
    BY <1>14 DEF WaitSleep, Types, SleepTypes, CallTypes, CallType
  <2> QED
    BY <1>1, <1>14, <2>1, GoTyped, RingSame
       DEF WaitSleep, Types, CallTypes, SleepTypes, LockTypes, BitTypes, PollTypes, threadVars
<1>15. CASE WaitRetake(t)
  BY <1>1, <1>15, GoTyped, RingSame
     DEF WaitRetake, Types, CallTypes, SleepTypes, LockTypes, BitTypes, PollTypes, waitVars, threadVars
<1>16. CASE WaitReturn(t)
  <2>1. CallTypes' /\ sema' \in Threads \cup {Nobody}
    BY <1>16, AfterTyped DEF WaitReturn
  <2> QED
    BY <1>16, <2>1, RingSame
       DEF WaitReturn, Types, SleepTypes, LockTypes, BitTypes, PollTypes, States, threadVars
<1>17. CASE UserSig_HandlePending(t)
  BY <1>17, RingSame
     DEF UserSig_HandlePending, Types, CallTypes, SleepTypes, LockTypes, BitTypes, PollTypes, waitVars
<1>18. CASE UserKernelExit(t)
  BY <1>1, <1>18, GoTyped, RingSame
     DEF UserKernelExit, Types, CallTypes, SleepTypes, LockTypes, BitTypes, PollTypes, waitVars, threadVars
<1> QED
  BY <1>3, <1>4, <1>5, <1>6, <1>7, <1>8, <1>9, <1>10, <1>11, <1>12, <1>13, <1>14, <1>15, <1>16,
     <1>17, <1>18 DEF Continue

(* Timeouts, kills and signals.                                            *)
Disturb(t) ==
  \/ TimerFires(t) \/ UserThreadWaitTimeout(t)
  \/ UserThread_KillPeers(t) \/ UserSig_Send(t)
  \/ \E bit \in {"dead", "signal"} : Kick(t, bit)

(* They keep the types, and never touch the ring.                          *)
LEMMA DisturbsStream ==
  ASSUME StreamInv, NEW t \in Threads, Disturb(t)
  PROVE  StreamInv'
<1> USE DEF StreamInv
<1>1. "TIMEOUT" \in States /\ "BACKOUT" \in States
  BY DEF States
<1>2. CASE TimerFires(t)
  BY <1>2, RingSame
     DEF TimerFires, Types, CallTypes, SleepTypes, LockTypes, BitTypes, PollTypes, threadVars
<1>3. CASE UserThreadWaitTimeout(t)
  <2>1. /\ state' \in [Threads -> States]
        /\ asleep' \in [Threads -> {"none", "own"} \cup Ends]
    BY <1>1, <1>3, WakeTyped DEF UserThreadWaitTimeout
  <2> QED
    BY <1>3, <2>1, RingSame
       DEF UserThreadWaitTimeout, Types, CallTypes, SleepTypes, LockTypes, BitTypes, PollTypes, threadVars
<1>4. CASE UserThread_KillPeers(t)
  BY <1>4, RingSame
     DEF UserThread_KillPeers, Types, CallTypes, SleepTypes, LockTypes, BitTypes, PollTypes, waitVars
<1>5. CASE UserSig_Send(t)
  BY <1>5, RingSame
     DEF UserSig_Send, Types, CallTypes, SleepTypes, LockTypes, BitTypes, PollTypes, waitVars
<1>6. ASSUME NEW bit, Kick(t, bit)
      PROVE  StreamInv'
  <2>1. /\ state' \in [Threads -> States]
        /\ asleep' \in [Threads -> {"none", "own"} \cup Ends]
    BY <1>1, <1>6, WakeTyped DEF Kick
  <2> QED
    BY <1>6, <2>1, RingSame
       DEF Kick, Types, CallTypes, SleepTypes, LockTypes, BitTypes, PollTypes
<1> QED
  BY <1>2, <1>3, <1>4, <1>5, <1>6 DEF Disturb

(* An empty ring is in order.                                              *)
LEMMA StreamStarts ==
  Init => StreamInv
<1> SUFFICES ASSUME Init PROVE StreamInv
  OBVIOUS
<1>1. CallTypes /\ SleepTypes /\ LockTypes /\ BitTypes /\ PollTypes
  BY CallsTyped
     DEF Init, CallTypes, SleepTypes, LockTypes, BitTypes, PollTypes, PCs, States
<1>2. RingTypes
  BY PipeAssumption DEF Init, RingTypes, PipeType, Bytes
<1>3. InOrder
  <2>1. pipe.readLength = 0 /\ pipe.readStart = 0 /\ written = 0 /\ taken = 0
    BY DEF Init
  <2>2. 0 % (PipeSize + 1) = 0
    BY PipeAssumption
  <2>3. \A i \in 0 .. 0 - 1 : FALSE
    OBVIOUS
  <2> QED
    BY <2>1, <2>2, <2>3 DEF InOrder
<1> QED
  BY <1>1, <1>2, <1>3 DEF StreamInv, Types

(* The invariant is inductive.                                             *)
LEMMA StreamKept ==
  StreamInv /\ [Next]_vars => StreamInv'
<1> SUFFICES ASSUME StreamInv, [Next]_vars PROVE StreamInv'
  OBVIOUS
<1>1. CASE UNCHANGED vars
  BY <1>1
     DEF vars, StreamInv, InOrder, Types, CallTypes, SleepTypes, LockTypes, BitTypes, RingTypes, PollTypes
<1>2. ASSUME NEW t \in Threads, Call(t) \/ Continue(t) \/ Disturb(t)
      PROVE  StreamInv'
  BY <1>2, CallsStream, CopiesStream, OthersStream, DisturbsStream
<1> QED
  BY <1>1, <1>2 DEF Next, Disturb

(* The bytes of a pipe come out in the order they went in, whatever the    *)
(* size of the ring, however many threads read and write, wherever their   *)
(* copies fault (UserPipeReadNoBlock and UserPipeWriteNoBlock,             *)
(* user/userPipe.c).                                                       *)
THEOREM BytesInOrder == Spec => []StreamInOrder
<1>1. StreamInv => StreamInOrder
  BY TypesOK DEF StreamInv, InOrder, StreamInOrder
<1> QED
  BY <1>1, StreamStarts, StreamKept, PTL DEF Spec

-------------------------------------------------------------------------------
(* The call a thread is in fits where it stands; who reads or writes has   *)
(* a reference to the end, which is therefore open.                        *)
Fits(t) ==
  /\ pc[t] \in {"user", "gone"} => call[t].kind = "none"
  /\ pc[t] \in {"enter", "again", "broadcast", "pollers"} => call[t].kind = "transfer"
  /\ pc[t] \in {"closed", "cleanup"} => call[t].kind = "close"
  /\ pc[t] \in {"register", "polled", "cancel"} => call[t].kind = "poll"
  /\ pc[t] \in {"wait", "commit", "sleep", "woken"} => call[t].kind \in {"transfer", "poll", "sleep"}
  /\ call[t].kind = "transfer" =>
       /\ call[t].len > 0 /\ call[t].left <= call[t].len
       /\ call[t].end \in pipe.open /\ CartelOf[t] = CartelAt(call[t].end)

(* The semaphore of the pipe and the waitLock are held where the code      *)
(* holds them.                                                             *)
HoldsSema(t) ==
  \/ pc[t] \in {"again", "broadcast", "pollers", "closed", "cleanup"}
  \/ pc[t] \in {"wait", "woken"} /\ call[t].kind = "transfer"

Locks(t) ==
  /\ HoldsSema(t) => sema = t
  /\ pc[t] = "commit" => waitLock[CartelOf[t]] = t

(* waitInfo.state and the event queue, as far as they depend on where the  *)
(* thread stands.                                                          *)
Sleeps(t) ==
  /\ pc[t] \in {"register", "cancel", "commit", "sleep", "woken"} => state[t] # "AWAKE"
  /\ pc[t] = "wait" /\ call[t].kind = "poll" => state[t] # "AWAKE"
  /\ pc[t] = "commit" => state[t] = "BLOCKED" /\ asleep[t] = "none"
  /\ asleep[t] # "none" => /\ pc[t] = "sleep" /\ state[t] = "BLOCKED"
                           /\ asleep[t] = IF call[t].kind = "transfer" THEN call[t].end ELSE "own"

(* What a read or a write needs is not there, ...                          *)
Nothing(t) ==
  IF call[t].end = "read" THEN pipe.readLength = 0 /\ "write" \in pipe.open
  ELSE /\ "read" \in pipe.open
       /\ \/ pipe.readLength = PipeSize
          \/ call[t].left \in PipeSize - pipe.readLength + 1 .. PipeSize

(* ... from the copy that moved nothing until it has released the          *)
(* semaphore.                                                              *)
Fruitless(t) ==
  /\ pc[t] \in {"broadcast", "pollers"} /\ MustWait(t) => Nothing(t)
  /\ pc[t] = "wait" /\ call[t].kind = "transfer" => Nothing(t)

(* A poll that has registered, and has not been woken, is registered, and  *)
(* there is nothing to tell it or the one who tells is about to.           *)
Polling(t) ==
  /\ call[t].kind = "poll"
  /\ Blocking(t) \/ (pc[t] = "wait" /\ state[t] = "PRE_BLOCK")

PollsTold(t) ==
  Polling(t) =>
    /\ t \in pollers[call[t].end]
    /\ \/ pipe.open # Ends \/ ~PollReady(call[t].end)
       \/ Telling(Other(call[t].end), {"broadcast", "pollers"})

(* A read or a write that sleeps has nothing to do, or is about to be      *)
(* woken.                                                                  *)
TransfersTold(t) ==
  Blocking(t) /\ call[t].kind = "transfer" =>
    LET o == Other(call[t].end) IN
    \/ /\ IF call[t].end = "read" THEN pipe.readLength = 0
          ELSE pipe.readLength = PipeSize \/ call[t].left \in PipeSize - pipe.readLength + 1 .. PipeSize
       /\ o \in pipe.open \/ Closing(o)
    \/ Telling(o, {"broadcast"})

(* KicksHeard, for one thread.                                             *)
Heard(t) ==
  /\ pc[t] \in {"commit", "sleep", "woken"} /\ Interrupted(t) =>
       \/ state[t] = "BACKOUT" /\ asleep[t] = "none"
       \/ \E bit \in {"dead", "signal"} : <<t, bit>> \in kicks
  /\ Blocking(t) /\ call[t].timed => t \in armed \cup firing

Stands(t) == Fits(t) /\ Locks(t) /\ Sleeps(t) /\ Fruitless(t) /\ Heard(t)

WaitInv ==
  /\ StreamInv
  /\ \A t \in Threads : Stands(t)
  /\ \A t \in Threads : PollsTold(t)
  /\ \A t \in Threads : TransfersTold(t)

(* What the step of one thread does to another, u, and a wakeup to         *)
(* whomever it wakes.                                                      *)
Stirred(u) ==
  \/ state'[u] = state[u] /\ asleep'[u] \in {asleep[u], "none"}
  \/ /\ Free(CartelOf[u]) /\ state[u] # "AWAKE"
     /\ state'[u] \notin {"AWAKE", "PRE_BLOCK"} /\ asleep'[u] = "none"
     /\ state[u] = "BACKOUT" => state'[u] = "BACKOUT"

Woken(u) ==
  /\ Free(CartelOf[u])
  /\ state[u] = "AWAKE" \/ (asleep'[u] = "none" /\ state'[u] # "PRE_BLOCK")

Frame(u) ==
  /\ pc'[u] = pc[u] /\ call'[u] = call[u]
  /\ sema = u => sema' = u /\ pipe' = pipe
  /\ waitLock[CartelOf[u]] = u => waitLock'[CartelOf[u]] = u
  /\ call[u].kind = "transfer" /\ call[u].end \in pipe.open => call[u].end \in pipe'.open
  /\ Stirred(u)
  /\ Interrupted(u)' => Interrupted(u) \/ \E bit \in {"dead", "signal"} : <<u, bit>> \in kicks'
  /\ \A bit \in {"dead", "signal"} : <<u, bit>> \in kicks =>
       \/ <<u, bit>> \in kicks' \/ state[u] = "AWAKE"
       \/ state'[u] = "BACKOUT" /\ asleep'[u] = "none"
  /\ u \in armed \cup firing => u \in armed' \cup firing' \/ Woken(u)
  /\ \A e \in Ends : u \in pollers[e] => u \in pollers'[e] \/ Woken(u)

(* Under a free waitLock nobody of the cartel is on the way to sleep.      *)
LEMMA FreeNoCommit ==
  ASSUME StreamInv, NEW u \in Threads, Stands(u), Free(CartelOf[u])
  PROVE  pc[u] # "commit"
  BY NobodyAssumption DEF Stands, Locks, Free

(* A thread that is left alone, or woken, stands as well as before, and    *)
(* does not begin to wait.                                                 *)
LEMMA FrameKeeps ==
  ASSUME StreamInv, StreamInv', NEW u \in Threads, Stands(u), Frame(u)
  PROVE  /\ Stands(u)'
         /\ Blocking(u)' => Blocking(u)
         /\ Polling(u)' => Polling(u) /\ \A e \in Ends : u \in pollers[e] => u \in pollers'[e]
<1> USE DEF Frame
<1>1. Free(CartelOf[u]) => pc[u] # "commit"
  BY FreeNoCommit
<1>2. Fits(u)'
  BY DEF Stands, Fits
<1>3. Locks(u)'
  BY DEF Stands, Locks, HoldsSema
<1>4. Sleeps(u)'
  BY <1>1 DEF Stands, Sleeps, Stirred
<1>5. Blocking(u)' => Blocking(u)
  BY DEF Blocking, Stirred
<1>6. Fruitless(u)'
  BY DEF Stands, Locks, HoldsSema, Fruitless, MustWait, Nothing, Fits
<1>7. Woken(u) => ~Blocking(u)'
  BY <1>1 DEF Woken, Blocking, Stands, Sleeps, Stirred
<1>8. Heard(u)'
  <2>1. Blocking(u)' /\ call'[u].timed => u \in armed' \cup firing'
    BY <1>5, <1>7 DEF Stands, Heard
  <2>2. ASSUME pc[u] \in {"commit", "sleep", "woken"}, Interrupted(u)'
        PROVE  \/ state'[u] = "BACKOUT" /\ asleep'[u] = "none"
               \/ \E bit \in {"dead", "signal"} : <<u, bit>> \in kicks'
    <3>1. CASE state[u] = "BACKOUT" /\ asleep[u] = "none"
      BY <3>1 DEF Stirred
    <3>2. CASE \E bit \in {"dead", "signal"} : <<u, bit>> \in kicks
      BY <2>2, <3>2 DEF Stands, Sleeps
    <3> QED
      BY <2>2, <3>1, <3>2 DEF Stands, Heard
  <2> QED
    BY <2>1, <2>2 DEF Heard
<1>9. Polling(u)' => Polling(u) /\ \A e \in Ends : u \in pollers[e] => u \in pollers'[e]
  <2> SUFFICES ASSUME Polling(u)'
               PROVE  Polling(u) /\ ~Woken(u)
    OBVIOUS
  <2>1. ~Woken(u)
    BY <1>1, <1>7 DEF Polling, Woken, Stands, Sleeps, Stirred
  <2>2. Polling(u)
    BY <1>5 DEF Polling, Stirred
  <2> QED
    BY <2>1, <2>2
<1> QED
  BY <1>2, <1>3, <1>4, <1>5, <1>6, <1>8, <1>9 DEF Stands

(* A step leaves every other thread alone, or wakes it.                    *)
LEMMA WakeFrame ==
  ASSUME StreamInv, NEW p \in Threads, NEW new \in {"TIMEOUT", "BACKOUT", "WAIT_COMPLETE"},
         UserThread_WakeupWorld(p, new)
  PROVE  /\ \A u \in Threads : Stirred(u)
         /\ Woken(p)
         /\ new = "BACKOUT" => state[p] = "AWAKE" \/ (state'[p] = "BACKOUT" /\ asleep'[p] = "none")
<1>1. PICK s : s = Overridden(state[p], new)
  OBVIOUS
<1>2. state[p] # "AWAKE" =>
        /\ s \notin {"AWAKE", "PRE_BLOCK"} /\ (state[p] = "BACKOUT" => s = "BACKOUT")
        /\ new = "BACKOUT" => s = "BACKOUT"
  BY <1>1 DEF StreamInv, Types, SleepTypes, Overridden, States
<1>3. state[p] # "AWAKE" => /\ state' = [state EXCEPT ![p] = s]
                            /\ asleep' = [asleep EXCEPT ![p] = "none"]
  BY <1>1 DEF UserThread_WakeupWorld
<1> QED
  BY <1>2, <1>3 DEF UserThread_WakeupWorld, Stirred, Woken, StreamInv, Types, SleepTypes

(* A timeout, a kill or a signal does no more to anyone, its target        *)
(* included, than wake it.                                                 *)
LEMMA DisturbFrame ==
  ASSUME StreamInv, NEW t \in Threads, NEW u \in Threads, Disturb(t)
  PROVE  Frame(u)
<1> USE DEF Frame
<1>1. CASE TimerFires(t)
  BY <1>1 DEF TimerFires, Stirred, Interrupted, threadVars, pipeVars
<1>2. CASE UserThreadWaitTimeout(t)
  <2>1. Stirred(u) /\ Woken(t)
    BY <1>2, WakeFrame DEF UserThreadWaitTimeout
  <2>2. u # t => u \notin firing
    BY <1>2 DEF UserThreadWaitTimeout, StreamInv, Types, SleepTypes
  <2> QED
    BY <1>2, <2>1, <2>2 DEF UserThreadWaitTimeout, Interrupted, threadVars, pipeVars
<1>3. CASE UserThread_KillPeers(t)
  <2>1. Interrupted(u)' => Interrupted(u) \/ \E bit \in {"dead", "signal"} : <<u, bit>> \in kicks'
    BY <1>3 DEF UserThread_KillPeers, Interrupted, StreamInv, Types, BitTypes
  <2> QED
    BY <1>3, <2>1 DEF UserThread_KillPeers, Stirred, waitVars, pipeVars
<1>4. CASE UserSig_Send(t)
  <2>1. Interrupted(u)' => Interrupted(u) \/ \E bit \in {"dead", "signal"} : <<u, bit>> \in kicks'
    BY <1>4 DEF UserSig_Send, Interrupted, StreamInv, Types, BitTypes
  <2> QED
    BY <1>4, <2>1 DEF UserSig_Send, Stirred, waitVars, pipeVars
<1>5. ASSUME NEW bit \in {"dead", "signal"}, Kick(t, bit)
      PROVE  Frame(u)
  <2>1. /\ Stirred(u)
        /\ state[t] = "AWAKE" \/ (state'[t] = "BACKOUT" /\ asleep'[t] = "none")
    BY <1>5, WakeFrame DEF Kick
  <2>2. u # t => \A b \in {"dead", "signal"} : <<u, b>> \in kicks => <<u, b>> \in kicks'
    BY <1>5 DEF Kick
  <2> QED
    BY <1>5, <2>1, <2>2 DEF Kick, Interrupted, pipeVars
<1> QED
  BY <1>1, <1>2, <1>3, <1>4, <1>5 DEF Disturb

(* A poller that is taken off the list has been woken.                     *)
LEMMA PollerFrame ==
  ASSUME StreamInv, NEW t \in Threads, NEW u \in Threads, NEW e \in Ends, NEW p \in Threads,
         WakePoller(t, e, p)
  PROVE  Frame(u)
<1>1. Stirred(u) /\ Woken(p)
  BY WakeFrame DEF WakePoller
<1>2. \A f \in Ends : u \in pollers[f] => u \in pollers'[f] \/ Woken(u)
  BY <1>1 DEF WakePoller, StreamInv, Types, PollTypes
<1> QED
  BY <1>1, <1>2 DEF WakePoller, Frame, Interrupted, threadVars, pipeVars

(* A call that begins changes nothing for others; an end that is closed is *)
(* not one they read or write.                                             *)
LEMMA CallFrame ==
  ASSUME StreamInv, NEW t \in Threads, NEW u \in Threads \ {t}, Call(t)
  PROVE  Frame(u)
<1> USE DEF Frame, Stirred, Interrupted, Called, Go, StreamInv, Types, CallTypes, SleepTypes, waitVars, threadVars,
            pipeVars
<1>1. CASE UserThread_Sleep(t)
  BY <1>1 DEF UserThread_Sleep
<1>2. ASSUME NEW c \in Menu[t], UserPipe_Close(t, c.end)
      PROVE  Frame(u)
  <2>1. PICK e \in Ends : e = c.end
    BY MenuAssumption
  <2>2. pipe'.open = pipe.open \ {e}
    BY <1>2, <2>1 DEF UserPipe_Close, RingTypes, PipeType
  <2> QED
    BY <1>2, <2>1, <2>2, NobodyAssumption DEF UserPipe_Close, Transfers
<1>3. ASSUME NEW c \in Menu[t], UserObj_Poll(t, c.end, c.timed)
      PROVE  Frame(u)
  BY <1>3 DEF UserObj_Poll
<1>4. ASSUME NEW c \in Menu[t], CallTransfer(t, c.end, c.len, c.block)
      PROVE  Frame(u)
  BY <1>4 DEF CallTransfer
<1> QED
  BY <1>1, <1>2, <1>3, <1>4 DEF Call

(* A call that goes on changes what it holds the locks of: the semaphore   *)
(* and the waitLock keep it away from the others.                          *)
LEMMA ContinueFrame ==
  ASSUME StreamInv, NEW t \in Threads, Stands(t), NEW u \in Threads \ {t}, Continue(t)
  PROVE  Frame(u)
<1>1. ASSUME NEW e, AtBuffer(t, e)
      PROVE  sema # u
  BY <1>1, NobodyAssumption DEF AtBuffer, Stands, Locks, HoldsSema
<1>2. HoldsSema(t) => sema # u
  BY DEF Stands, Locks
<1>3. ASSUME NEW n, NEW fault, AfterCopy(t, n, fault)
      PROVE  pc'[u] = pc[u] /\ call'[u] = call[u]
  BY <1>3 DEF AfterCopy, Return, Go, StreamInv, Types, CallTypes
<1>4. ASSUME NEW s, AfterWait(t, s), pc[t] \in {"wait", "woken"}
      PROVE  pc'[u] = pc[u] /\ call'[u] = call[u] /\ (sema = u => sema' = u)
  <2>1. \/ Go(t, "again") /\ UNCHANGED <<call, sema>>
        \/ Return(t) /\ sema' = Nobody /\ call[t].kind = "transfer"
        \/ Go(t, "polled") /\ UNCHANGED <<call, sema>>
        \/ Return(t) /\ UNCHANGED sema
    BY <1>4 DEF AfterWait
  <2> QED
    BY <1>2, <1>4, <2>1 DEF HoldsSema, Return, Go, StreamInv, Types, CallTypes
<1> USE DEF Frame, Stirred, Interrupted, threadVars
<1>5. CASE UserPipe_Read(t)
  <2>1. PICK n \in Nat, fault \in {0, 1, 2} : Reads(t, n, fault)
    BY <1>5, ReadFacts DEF StreamInv
  <2>2. pipe'.open = pipe.open
    BY <2>1 DEF Reads, StreamInv, Types, RingTypes, PipeType
  <2>3. pc'[u] = pc[u] /\ call'[u] = call[u]
    BY <1>3, <2>1 DEF Reads
  <2> QED
    BY <1>1, <1>5, <2>2, <2>3 DEF UserPipe_Read, waitVars
<1>6. CASE UserPipe_Write(t)
  <2>1. PICK n \in Nat, fault \in {0, 1, 2} : Writes(t, n, fault)
    BY <1>6, WriteFacts DEF StreamInv
  <2>2. pipe'.open = pipe.open
    BY <2>1 DEF Writes, StreamInv, Types, RingTypes, PipeType
  <2>3. pc'[u] = pc[u] /\ call'[u] = call[u]
    BY <1>3, <2>1 DEF Writes
  <2> QED
    BY <1>1, <1>6, <2>2, <2>3 DEF UserPipe_Write, waitVars
<1>7. CASE WakePollers(t) \/ \E e \in Ends, p \in Threads : WakePoller(t, e, p)
  <2>1. Other(call[t].end) \in Ends
    BY DEF Other, Ends, StreamInv, Types, CallTypes, CallType
  <2> QED
    BY <1>7, <2>1, PollerFrame DEF WakePollers
<1>8. CASE WaitEarlyReturn(t)
  BY <1>4, <1>8 DEF WaitEarlyReturn, StreamInv, Types, SleepTypes, pipeVars
<1>9. CASE WaitReturn(t)
  BY <1>4, <1>9 DEF WaitReturn, StreamInv, Types, SleepTypes, pipeVars
<1>10. CASE WaitBlock(t)
  BY <1>10, NobodyAssumption
     DEF WaitBlock, Free, Go, StreamInv, Types, CallTypes, SleepTypes, LockTypes, pipeVars
<1>11. CASE WaitSleep(t)
  BY <1>11
     DEF WaitSleep, Stands, Locks, Go, StreamInv, Types, CallTypes, SleepTypes, LockTypes, pipeVars
<1>12. CASE WaitRetake(t)
  BY <1>12, NobodyAssumption DEF WaitRetake, Go, StreamInv, Types, CallTypes, waitVars, pipeVars
<1>13. CASE BrokenPipe(t)
  BY <1>1, <1>13
     DEF BrokenPipe, Return, Go, StreamInv, Types, CallTypes, BitTypes, waitVars, pipeVars
<1>14. CASE UserPipeBroadcastTo(t)
  BY <1>14
     DEF UserPipeBroadcastTo, UserThread_WakeupGroup, Go, StreamInv, Types, CallTypes, SleepTypes, pipeVars
<1>15. CASE TransferDecides(t)
  BY <1>2, <1>15
     DEF TransferDecides, HoldsSema, Return, Go, StreamInv, Types, CallTypes, waitVars, pipeVars
<1>16. CASE CloseBroadcast(t)
  BY <1>2, <1>16
     DEF CloseBroadcast, UserThread_WakeupGroup, HoldsSema, Return, Go, StreamInv, Types, CallTypes, SleepTypes,
         pipeVars
<1>17. CASE /\ pc[t] = "cleanup" /\ sema' = Nobody /\ Return(t)
            /\ UNCHANGED <<waitVars, threadVars, pipeVars, pollers, calls>>
  BY <1>2, <1>17 DEF HoldsSema, Return, Go, StreamInv, Types, CallTypes, waitVars, pipeVars
<1>18. CASE PollRegister(t)
  BY <1>18 DEF PollRegister, Go, StreamInv, Types, CallTypes, PollTypes, waitVars, pipeVars
<1>19. CASE PollCleanup(t)
  BY <1>19 DEF PollCleanup, Return, Go, StreamInv, Types, CallTypes, PollTypes, waitVars, pipeVars
<1>20. CASE UserThread_CancelPreparedWait(t)
  BY <1>20 DEF UserThread_CancelPreparedWait, Return, Go, StreamInv, Types, CallTypes, SleepTypes, pipeVars
<1>21. CASE UserSig_HandlePending(t)
  BY <1>21 DEF UserSig_HandlePending, StreamInv, Types, BitTypes, waitVars, pipeVars
<1>22. CASE UserKernelExit(t)
  BY <1>22 DEF UserKernelExit, Go, StreamInv, Types, CallTypes, waitVars, pipeVars
<1> QED
  BY <1>5, <1>6, <1>7, <1>8, <1>9, <1>10, <1>11, <1>12, <1>13, <1>14, <1>15, <1>16, <1>17, <1>18,
     <1>19, <1>20, <1>21, <1>22 DEF Continue, UserPipeCleanup

-------------------------------------------------------------------------------
(* What a step makes of its own thread.                                    *)
Quiet(t) == ~Blocking(t) /\ ~Polling(t)

(* A thread that returns holds nothing and waits for nothing.              *)
LEMMA ReturnOwn ==
  ASSUME StreamInv, NEW t \in Threads, Stands(t), Return(t), pc[t] # "sleep",
         asleep'[t] \in {asleep[t], "none"}
  PROVE  Stands(t)' /\ Quiet(t)'
<1>1. pc'[t] = "user" /\ call'[t].kind = "none" /\ call'[t].timed = FALSE
  BY DEF Return, Go, NoCall, StreamInv, Types, CallTypes
<1>2. asleep'[t] = "none"
  BY DEF Stands, Sleeps
<1> QED
  BY <1>1, <1>2
     DEF Stands, Fits, Locks, HoldsSema, Sleeps, Fruitless, Heard, Quiet, Blocking, Polling

(* A call begins where it should.                                          *)
LEMMA CallOwn ==
  ASSUME StreamInv, NEW t \in Threads, Stands(t), Call(t)
  PROVE  Stands(t)' /\ Quiet(t)'
<1> USE DEF StreamInv, Types, CallTypes, SleepTypes, Called, Go, waitVars, pipeVars
<1>1. pc[t] = "user" => asleep[t] = "none"
  BY DEF Stands, Sleeps
<1>2. CASE UserThread_Sleep(t)
  <2>1. pc[t] = "user" /\ pc'[t] = "wait" /\ call'[t].kind = "sleep" /\ asleep'[t] = asleep[t]
    BY <1>2 DEF UserThread_Sleep, SleepCall, NoCall
  <2> QED
    BY <1>1, <2>1
       DEF Stands, Fits, Locks, HoldsSema, Sleeps, Fruitless, Heard, Quiet, Blocking, Polling
<1>3. ASSUME NEW c \in Menu[t], UserPipe_Close(t, c.end)
      PROVE  Stands(t)' /\ Quiet(t)'
  <2>1. /\ pc[t] = "user" /\ pc'[t] \in {"closed", "cleanup"} /\ call'[t].kind = "close"
        /\ asleep'[t] = asleep[t] /\ sema' = t
    BY <1>3 DEF UserPipe_Close, CloseCall, NoCall
  <2> QED
    BY <1>1, <2>1
       DEF Stands, Fits, Locks, HoldsSema, Sleeps, Fruitless, Heard, Quiet, Blocking, Polling
<1>4. ASSUME NEW c \in Menu[t], UserObj_Poll(t, c.end, c.timed)
      PROVE  Stands(t)' /\ Quiet(t)'
  <2>1. /\ pc[t] = "user" /\ pc'[t] = "register" /\ call'[t].kind = "poll"
        /\ asleep'[t] = asleep[t] /\ state'[t] = "PRE_BLOCK"
    BY <1>4 DEF UserObj_Poll, PollCall, NoCall
  <2> QED
    BY <1>1, <2>1
       DEF Stands, Fits, Locks, HoldsSema, Sleeps, Fruitless, Heard, Quiet, Blocking, Polling
<1>5. ASSUME NEW c \in Menu[t], c.kind = "transfer" /\ CallTransfer(t, c.end, c.len, c.block)
      PROVE  Stands(t)' /\ Quiet(t)'
  <2>1. PICK e \in Ends, n \in Nat \ {0}, b \in BOOLEAN : e = c.end /\ n = c.len /\ b = c.block
    BY <1>5, MenuAssumption
  <2>2. /\ pc[t] = "user" /\ pc'[t] = "enter" /\ asleep'[t] = asleep[t]
        /\ call'[t] = Transfer(e, n, b) /\ CartelOf[t] = CartelAt(e) /\ e \in pipe'.open
    BY <1>5, <2>1 DEF CallTransfer, HasEnd
  <2>3. call'[t].kind = "transfer" /\ call'[t].end = e /\ call'[t].len = n /\ call'[t].left = n
    BY <2>2 DEF Transfer
  <2>4. Fits(t)'
    BY <2>2, <2>3 DEF Fits
  <2> QED
    BY <1>1, <2>2, <2>4
       DEF Stands, Locks, HoldsSema, Sleeps, Fruitless, Heard, Quiet, Blocking, Polling
<1> QED
  BY <1>2, <1>3, <1>4, <1>5 DEF Call

(* A copy that moved nothing had nothing to move, and one that moved       *)
(* something has used up the room or the bytes there were.                 *)
LEMMA CopyOwn ==
  ASSUME StreamInv, StreamInv', NEW t \in Threads, Stands(t), UserPipe_Read(t) \/ UserPipe_Write(t)
  PROVE  Stands(t)' /\ Quiet(t)'
<1> USE DEF StreamInv, Types, CallTypes, SleepTypes
<1>1. call[t].kind = "transfer" /\ pc[t] \in {"enter", "again"} /\ asleep[t] = "none" /\ asleep'[t] = "none"
  BY DEF UserPipe_Read, UserPipe_Write, AtBuffer, Transfers, Stands, Sleeps, waitVars
<1>2. PICK k, m \in Nat : k = call[t].left /\ m = call[t].len /\ k <= m /\ m > 0
  BY <1>1 DEF Stands, Fits, CallType
<1>3. ASSUME NEW n \in Nat, n <= k, call' = [call EXCEPT ![t].left = call[t].left - n],
             Go(t, "broadcast"), sema' = t, pipe'.open = pipe.open,
             MustWait(t)' => Nothing(t)'
      PROVE  Stands(t)' /\ Quiet(t)'
  <2>1. PICK j \in Nat : j = k - n /\ j <= m
    BY <1>2, <1>3
  <2>2. call' = [call EXCEPT ![t].left = j]
    BY <1>2, <1>3, <2>1
  <2>3. /\ pc'[t] = "broadcast" /\ call'[t].left = j /\ call'[t].len = m
        /\ call'[t].kind = "transfer" /\ call'[t].end = call[t].end
    BY <1>1, <1>2, <1>3, <2>2 DEF Go, CallType
  <2>4. Fits(t)'
    BY <1>1, <1>2, <1>3, <2>1, <2>3 DEF Stands, Fits
  <2> QED
    BY <1>1, <1>3, <2>3, <2>4
       DEF Stands, Locks, HoldsSema, Sleeps, Fruitless, Heard, Quiet, Blocking, Polling
<1>4. CASE UserPipe_Read(t)
  <2>1. PICK n \in Nat, fault \in {0, 1, 2} : Reads(t, n, fault)
    BY <1>4, ReadFacts
  <2>2. PICK l \in Nat : l = pipe.readLength
    BY PipeAssumption DEF RingTypes, PipeType, Bytes
  <2>3. pipe'.open = pipe.open /\ pipe'.readLength = l - n
    BY <2>1, <2>2 DEF Reads, RingTypes, PipeType
  <2>4. CASE fault # 0
    BY <1>1, <2>1, <2>4, ReturnOwn DEF Reads, AfterCopy
  <2>5. CASE fault = 0
    <3>1. /\ call' = [call EXCEPT ![t].left = call[t].left - n] /\ Go(t, "broadcast") /\ sema' = t /\ n <= k
          /\ n = 0 => l = 0 \/ k = 0
      BY <1>2, <2>1, <2>2, <2>5 DEF Reads, AfterCopy
    <3>2. call'[t].end = "read" /\ call'[t].left = k - n /\ call'[t].len = m
      <4>1. call[t].end = "read"
        BY <1>4 DEF UserPipe_Read, AtBuffer, Transfers
      <4> QED
        BY <1>2, <3>1, <4>1 DEF CallType
    <3>3. MustWait(t)' => Nothing(t)'
      <4>1. k - n = m => l - n = 0
        BY SMTT(30), <1>2, <3>1
      <4> QED
        BY <2>3, <3>2, <4>1 DEF MustWait, Nothing
    <3> QED
      BY <1>3, <2>3, <3>1, <3>3
  <2> QED
    BY <2>4, <2>5
<1>5. CASE UserPipe_Write(t)
  <2>1. PICK n \in Nat, fault \in {0, 1, 2} : Writes(t, n, fault)
    BY <1>5, WriteFacts
  <2>2. PICK l \in Nat : l = pipe.readLength
    BY PipeAssumption DEF RingTypes, PipeType, Bytes
  <2>3. pipe'.open = pipe.open /\ pipe'.readLength = l + n
    BY <2>1, <2>2 DEF Writes, RingTypes, PipeType
  <2>4. CASE fault # 0
    BY <1>1, <2>1, <2>4, ReturnOwn DEF Writes, AfterCopy
  <2>5. CASE fault = 0
    <3>1. /\ call' = [call EXCEPT ![t].left = call[t].left - n] /\ Go(t, "broadcast") /\ sema' = t /\ n <= k
          /\ \/ n = k \/ n = PipeSize - l
             \/ n = 0 /\ k \in PipeSize - l + 1 .. PipeSize
      BY <1>2, <2>1, <2>2, <2>5 DEF Writes, AfterCopy
    <3>2. call'[t].end = "write" /\ call'[t].left = k - n
      BY <1>2, <1>5, <3>1 DEF UserPipe_Write, AtBuffer, Transfers, CallType
    <3>3. MustWait(t)' => Nothing(t)'
      <4>1. k - n > 0 => \/ l + n = PipeSize
                         \/ k - n \in PipeSize - (l + n) + 1 .. PipeSize
        BY <1>2, <2>2, <3>1, PipeAssumption
      <4>2. "read" \in pipe'.open
        BY <1>5, <2>3 DEF UserPipe_Write
      <4> QED
        BY <2>3, <3>2, <4>1, <4>2 DEF MustWait, Nothing
    <3> QED
      BY <1>3, <2>3, <3>1, <3>3
  <2> QED
    BY <2>4, <2>5
<1> QED
  BY <1>4, <1>5

(* After the copy the thread holds the semaphore until it waits or         *)
(* returns.                                                                *)
LEMMA TransferOwn ==
  ASSUME StreamInv, NEW t \in Threads, Stands(t),
         BrokenPipe(t) \/ UserPipeBroadcastTo(t) \/ TransferDecides(t) \/ CloseBroadcast(t)
  PROVE  Stands(t)' /\ Quiet(t)'
<1> USE DEF StreamInv, Types, CallTypes, SleepTypes
<1>1. CASE BrokenPipe(t)
  BY <1>1, ReturnOwn DEF BrokenPipe, AtBuffer, waitVars
<1>2. CASE UserPipeBroadcastTo(t)
  <2>1. /\ pc[t] = "broadcast" /\ pc'[t] = "pollers" /\ call' = call /\ pipe' = pipe /\ sema' = sema
        /\ asleep[t] = "none" /\ asleep'[t] = "none"
    BY <1>2 DEF UserPipeBroadcastTo, UserThread_WakeupGroup, Go, Stands, Sleeps, pipeVars
  <2> QED
    BY <2>1
       DEF Stands, Fits, Locks, HoldsSema, Sleeps, Fruitless, MustWait, Nothing, Heard, Quiet, Blocking,
           Polling
<1>3. CASE TransferDecides(t)
  <2>1. /\ pc[t] = "pollers" /\ pipe' = pipe /\ asleep[t] = "none" /\ asleep'[t] = "none"
        /\ call[t].kind = "transfer"
    BY <1>3 DEF TransferDecides, Stands, Sleeps, Fits, waitVars, pipeVars
  <2>2. CASE Go(t, "wait") /\ UNCHANGED <<call, sema>> /\ MustWait(t)
    <3>1. pc'[t] = "wait" /\ call'[t] = call[t] /\ sema' = sema /\ (Nothing(t) <=> Nothing(t)')
      BY <2>1, <2>2 DEF Go, Nothing
    <3> QED
      BY <2>1, <2>2, <3>1
         DEF Stands, Fits, Locks, HoldsSema, Sleeps, Fruitless, Heard, Quiet, Blocking, Polling
  <2> QED
    BY <1>3, <2>1, <2>2, ReturnOwn DEF TransferDecides
<1>4. CASE CloseBroadcast(t)
  BY <1>4, ReturnOwn DEF CloseBroadcast, UserThread_WakeupGroup
<1> QED
  BY <1>1, <1>2, <1>3, <1>4

(* A wait that has ended leaves its thread with the semaphore again, or    *)
(* done.                                                                   *)
LEMMA WaitsOwn ==
  ASSUME StreamInv, NEW t \in Threads, Stands(t), WaitEarlyReturn(t) \/ WaitReturn(t)
  PROVE  Stands(t)' /\ Quiet(t)'
<1> USE DEF StreamInv, Types, CallTypes, SleepTypes
<1>1. /\ pc[t] \in {"wait", "woken"} /\ pipe' = pipe /\ asleep[t] = "none" /\ asleep' = asleep
      /\ \E s : AfterWait(t, s)
  BY DEF WaitEarlyReturn, WaitReturn, Stands, Sleeps, pipeVars
<1>2. \/ Go(t, "again") /\ UNCHANGED <<call, sema>> /\ call[t].kind = "transfer"
      \/ Return(t)
      \/ Go(t, "polled") /\ UNCHANGED <<call, sema>> /\ call[t].kind = "poll"
  BY <1>1 DEF AfterWait
<1>3. CASE Go(t, "again") /\ UNCHANGED <<call, sema>> /\ call[t].kind = "transfer"
  <2>1. pc'[t] = "again" /\ call'[t] = call[t] /\ sema' = sema
    BY <1>3 DEF Go
  <2> QED
    BY <1>1, <1>3, <2>1
       DEF Stands, Fits, Locks, HoldsSema, Sleeps, Fruitless, Heard, Quiet, Blocking, Polling
<1>4. CASE Go(t, "polled") /\ UNCHANGED <<call, sema>> /\ call[t].kind = "poll"
  <2>1. pc'[t] = "polled" /\ call'[t] = call[t]
    BY <1>4 DEF Go
  <2> QED
    BY <1>1, <1>4, <2>1
       DEF Stands, Fits, Locks, HoldsSema, Sleeps, Fruitless, Heard, Quiet, Blocking, Polling
<1> QED
  BY <1>1, <1>2, <1>3, <1>4, ReturnOwn

(* Going to sleep: what the thread slept for stays away.                   *)
LEMMA BlockOwn ==
  ASSUME StreamInv, NEW t \in Threads, Stands(t), PollsTold(t), TransfersTold(t), WaitBlock(t)
  PROVE  Stands(t)' /\ PollsTold(t)' /\ TransfersTold(t)'
<1> USE DEF StreamInv, Types, CallTypes, SleepTypes, LockTypes
<1>1. /\ pc[t] = "wait" /\ pc'[t] = "commit" /\ call' = call /\ pipe' = pipe /\ pollers' = pollers
      /\ state'[t] = "BLOCKED" /\ asleep[t] = "none" /\ asleep'[t] = "none"
      /\ ~Interrupted(t)' /\ waitLock'[CartelOf[t]] = t
      /\ call[t].timed => t \in armed'
      /\ \A v \in Threads \ {t} : pc'[v] = pc[v]
  BY CartelAssumption DEF WaitBlock, Go, Interrupted, Stands, Sleeps, threadVars, pipeVars
<1>2. Stands(t)'
  BY <1>1 DEF Stands, Fits, Locks, HoldsSema, Sleeps, Fruitless, Heard, Blocking
<1>3. TransfersTold(t)'
  <2> SUFFICES ASSUME call[t].kind = "transfer" PROVE TransfersTold(t)'
    BY <1>1 DEF TransfersTold
  <2>1. Nothing(t) /\ call[t].end \in Ends
    BY <1>1 DEF Stands, Fruitless, CallType
  <2>2. Other("read") = "write" /\ Other("write") = "read"
    BY DEF Other, Ends
  <2>3. CASE call[t].end = "read"
    BY <1>1, <2>1, <2>2, <2>3 DEF TransfersTold, Nothing
  <2>4. CASE call[t].end = "write"
    BY <1>1, <2>1, <2>2, <2>4 DEF TransfersTold, Nothing
  <2> QED
    BY <2>1, <2>3, <2>4 DEF Ends
<1>4. PollsTold(t)'
  <2> SUFFICES ASSUME call[t].kind = "poll" PROVE PollsTold(t)'
    BY <1>1 DEF PollsTold, Polling
  <2>1. Polling(t)
    BY <1>1 DEF WaitBlock, Prepared, Polling
  <2>2. PollReady(call[t].end)' <=> PollReady(call[t].end)
    BY <1>1 DEF PollReady
  <2>3. \A e : Telling(e, {"broadcast", "pollers"}) => Telling(e, {"broadcast", "pollers"})'
    BY <1>1 DEF Telling, Transfers
  <2> QED
    BY <1>1, <2>1, <2>2, <2>3 DEF PollsTold
<1> QED
  BY <1>2, <1>3, <1>4

(* A thread falls asleep as it went to: nobody could wake it in between.   *)
LEMMA SleepOwn ==
  ASSUME StreamInv, NEW t \in Threads, Stands(t), PollsTold(t), TransfersTold(t), WaitSleep(t)
  PROVE  Stands(t)' /\ PollsTold(t)' /\ TransfersTold(t)'
<1> USE DEF StreamInv, Types, CallTypes, SleepTypes
<1>1. /\ pc[t] = "commit" /\ pc'[t] = "sleep" /\ call' = call /\ pipe' = pipe /\ pollers' = pollers
      /\ state'[t] = "BLOCKED" /\ state[t] = "BLOCKED" /\ armed' = armed /\ firing' = firing /\ kicks' = kicks
      /\ asleep'[t] = IF call[t].kind = "transfer" THEN call[t].end ELSE "own"
      /\ Interrupted(t)' <=> Interrupted(t)
      /\ \A v \in Threads \ {t} : pc'[v] = pc[v]
  BY DEF WaitSleep, Go, Interrupted, Stands, Sleeps, threadVars, pipeVars
<1>2. Blocking(t)
  BY <1>1 DEF Blocking
<1>3. Stands(t)'
  BY <1>1, <1>2 DEF Stands, Fits, Locks, HoldsSema, Sleeps, Fruitless, Heard
<1>4. TransfersTold(t)'
  <2>1. \A e : Telling(e, {"broadcast"}) => Telling(e, {"broadcast"})'
    BY <1>1 DEF Telling, Transfers
  <2>2. \A e : Closing(e) => Closing(e)'
    BY <1>1 DEF Closing
  <2> QED
    BY <1>1, <1>2, <2>1, <2>2 DEF TransfersTold
<1>5. PollsTold(t)'
  <2>1. PollReady(call[t].end)' <=> PollReady(call[t].end)
    BY <1>1 DEF PollReady
  <2>2. \A e : Telling(e, {"broadcast", "pollers"}) => Telling(e, {"broadcast", "pollers"})'
    BY <1>1 DEF Telling, Transfers
  <2> QED
    BY <1>1, <1>2, <2>1, <2>2 DEF PollsTold, Polling
<1> QED
  BY <1>3, <1>4, <1>5

(* A poll that is registered found nothing.                                *)
LEMMA RegisterOwn ==
  ASSUME StreamInv, NEW t \in Threads, Stands(t), PollRegister(t)
  PROVE  Stands(t)' /\ PollsTold(t)' /\ TransfersTold(t)'
<1> USE DEF StreamInv, Types, CallTypes, SleepTypes, PollTypes
<1>1. /\ pc[t] = "register" /\ pc'[t] \in {"cancel", "wait"} /\ call' = call /\ pipe' = pipe
      /\ state'[t] # "AWAKE" /\ asleep[t] = "none" /\ asleep'[t] = "none" /\ call[t].kind = "poll"
      /\ call[t].end \in Ends
  BY DEF PollRegister, Go, Stands, Sleeps, Fits, CallType, waitVars, pipeVars
<1>2. Stands(t)'
  BY <1>1 DEF Stands, Fits, Locks, HoldsSema, Sleeps, Fruitless, Heard, Blocking
<1>3. PollsTold(t)'
  <2>1. CASE pc'[t] = "wait"
    <3>1. t \in pollers'[call[t].end] /\ ~PollReady(call[t].end)
      BY <1>1, <2>1 DEF PollRegister, Go
    <3>2. ~PollReady(call[t].end)'
      BY <1>1, <3>1 DEF PollReady
    <3> QED
      BY <1>1, <3>1, <3>2 DEF PollsTold
  <2>2. CASE pc'[t] = "cancel"
    BY <2>2 DEF PollsTold, Polling, Blocking
  <2> QED
    BY <1>1, <2>1, <2>2
<1> QED
  BY <1>1, <1>2, <1>3 DEF TransfersTold, Blocking

(* The steps that concern nobody else.                                     *)
LEMMA PlainOwn ==
  ASSUME StreamInv, NEW t \in Threads, Stands(t),
         \/ WaitRetake(t) \/ PollCleanup(t) \/ UserThread_CancelPreparedWait(t)
         \/ UserSig_HandlePending(t) \/ UserKernelExit(t)
         \/ pc[t] = "cleanup" /\ Return(t) /\ UNCHANGED waitVars
  PROVE  Stands(t)' /\ Quiet(t)'
<1> USE DEF StreamInv, Types, CallTypes, SleepTypes, waitVars
<1>1. CASE WaitRetake(t)
  <2>1. /\ pc[t] = "sleep" /\ pc'[t] = "woken" /\ call' = call /\ pipe' = pipe /\ state' = state
        /\ asleep[t] = "none" /\ asleep' = asleep /\ kicks' = kicks
        /\ call[t].kind = "transfer" => sema' = t
        /\ Interrupted(t)' <=> Interrupted(t)
    BY <1>1 DEF WaitRetake, Go, Interrupted, threadVars, pipeVars
  <2> QED
    BY <2>1
       DEF Stands, Fits, Locks, HoldsSema, Sleeps, Fruitless, Heard, Quiet, Blocking, Polling
<1>2. CASE UserSig_HandlePending(t) \/ UserKernelExit(t)
  <2>1. /\ pc[t] = "user" /\ pc'[t] \in {"user", "gone"} /\ call' = call /\ asleep' = asleep /\ pipe' = pipe
    BY <1>2 DEF UserSig_HandlePending, UserKernelExit, Go, pipeVars
  <2> QED
    BY <2>1
       DEF Stands, Fits, Locks, HoldsSema, Sleeps, Fruitless, Heard, Quiet, Blocking, Polling
<1>3. CASE \/ PollCleanup(t) \/ UserThread_CancelPreparedWait(t)
           \/ pc[t] = "cleanup" /\ Return(t) /\ UNCHANGED waitVars
  BY <1>3, ReturnOwn DEF PollCleanup, UserThread_CancelPreparedWait
<1> QED
  BY <1>1, <1>2, <1>3

-------------------------------------------------------------------------------
(* Who waits is told, whatever another thread does.                        *)
LEMMA OtherEnds ==
  /\ Other("read") = "write" /\ Other("write") = "read"
  /\ \A e \in Ends : e \in {"read", "write"} /\ Other(e) \in Ends /\ Other(e) # e /\ Other(Other(e)) = e
  BY DEF Other, Ends

(* Those who are about to tell others.                                     *)
Tellers == {v \in Threads : pc[v] \in {"broadcast", "pollers", "closed"}}

(* A thread is told still when the pipe has not changed and whoever told   *)
(* it is where it was, ...                                                 *)
LEMMA ToldSame ==
  ASSUME StreamInv, StreamInv', NEW u \in Threads, Stands(u), Frame(u), PollsTold(u), TransfersTold(u),
         pipe' = pipe, \A v \in Tellers : pc'[v] = pc[v] /\ call'[v] = call[v]
  PROVE  PollsTold(u)' /\ TransfersTold(u)'
<1>1. /\ \A e : Telling(e, {"broadcast"}) => Telling(e, {"broadcast"})'
      /\ \A e : Telling(e, {"broadcast", "pollers"}) => Telling(e, {"broadcast", "pollers"})'
      /\ \A e : Closing(e) => Closing(e)'
  BY DEF Telling, Closing, Transfers, Tellers
<1>2. call'[u] = call[u] /\ call[u].end \in Ends
  BY DEF Frame, StreamInv, Types, CallTypes, CallType
<1>3. PollReady(call[u].end)' <=> PollReady(call[u].end)
  BY <1>2 DEF PollReady
<1>4. PollsTold(u)'
  BY <1>1, <1>2, <1>3, FrameKeeps DEF PollsTold
<1>5. TransfersTold(u)'
  BY <1>1, <1>2, FrameKeeps DEF TransfersTold
<1> QED
  BY <1>4, <1>5

(* ... when the one who told it is done with it, ...                       *)
LEMMA ToldBroadcast ==
  ASSUME StreamInv, StreamInv', readCartel = writeCartel, NEW t \in Threads, NEW u \in Threads \ {t},
         Stands(t), Stands(u), Frame(u), PollsTold(u), TransfersTold(u), UserPipeBroadcastTo(t)
  PROVE  PollsTold(u)' /\ TransfersTold(u)'
<1>1. /\ pc[t] = "broadcast" /\ pc'[t] = "pollers" /\ call' = call /\ pipe' = pipe
      /\ \A v \in Threads \ {t} : pc'[v] = pc[v]
      /\ call[u].end \in Ends /\ call[t].end \in Ends
  BY DEF UserPipeBroadcastTo, Go, StreamInv, Types, CallTypes, CallType, pipeVars
<1>2. PollsTold(u)'
  <2>1. \A e : Telling(e, {"broadcast", "pollers"}) => Telling(e, {"broadcast", "pollers"})'
    BY <1>1 DEF Telling, Transfers
  <2>2. PollReady(call[u].end)' <=> PollReady(call[u].end)
    BY <1>1 DEF PollReady
  <2> QED
    BY <1>1, <2>1, <2>2, FrameKeeps DEF PollsTold
<1>3. TransfersTold(u)'
  <2> SUFFICES ASSUME Blocking(u)', call[u].kind = "transfer" PROVE TransfersTold(u)'
    BY <1>1 DEF TransfersTold
  <2>1. PICK o \in Ends : o = Other(call[u].end) /\ call[u].end = Other(o)
    BY <1>1, OtherEnds
  <2>2. call[t].end # o
    <3> SUFFICES ASSUME call[t].end = o PROVE FALSE
      OBVIOUS
    <3>1. CartelOf[u] = CartelOf[t]
      BY <1>1 DEF Stands, Fits, CartelAt
    <3>2. pc[u] # "commit"
      BY <3>1, FreeNoCommit DEF UserPipeBroadcastTo, UserThread_WakeupGroup
    <3>3. pc[u] = "sleep" /\ asleep[u] # "none" /\ asleep'[u] # "none"
      BY <1>1, <3>2, FrameKeeps DEF Blocking
    <3>4. asleep[u] = call[u].end
      BY <3>3 DEF Stands, Sleeps
    <3> QED
      BY <2>1, <3>3, <3>4 DEF UserPipeBroadcastTo, UserThread_WakeupGroup
  <2>3. Telling(o, {"broadcast"}) => Telling(o, {"broadcast"})'
    BY <1>1, <2>2 DEF Telling, Transfers
  <2>4. Closing(o) => Closing(o)'
    BY <1>1 DEF Closing
  <2>5. Blocking(u)
    BY FrameKeeps
  <2> QED
    BY <1>1, <2>1, <2>3, <2>4, <2>5 DEF TransfersTold
<1> QED
  BY <1>2, <1>3

(* ... the pollers as well, ...                                            *)
LEMMA ToldDecides ==
  ASSUME StreamInv, StreamInv', NEW t \in Threads, NEW u \in Threads \ {t},
         Stands(t), Stands(u), Frame(u), PollsTold(u), TransfersTold(u), TransferDecides(t)
  PROVE  PollsTold(u)' /\ TransfersTold(u)'
<1>1. /\ pc[t] = "pollers" /\ pipe' = pipe /\ call'[u] = call[u]
      /\ \A v \in Threads \ {t} : pc'[v] = pc[v] /\ call'[v] = call[v]
      /\ call[u].end \in Ends /\ call[t].end \in Ends
  BY DEF TransferDecides, Return, Go, StreamInv, Types, CallTypes, CallType, pipeVars
<1>2. PollsTold(u)'
  <2> SUFFICES ASSUME Polling(u)' PROVE PollsTold(u)'
    BY DEF PollsTold
  <2>1. Polling(u) /\ u \in pollers[call[u].end] /\ u \in pollers'[call[u].end]
    BY <1>1, FrameKeeps DEF PollsTold
  <2>2. PICK o \in Ends : o = Other(call[u].end) /\ call[u].end = Other(o)
    BY <1>1, OtherEnds
  <2>3. call[t].end # o
    BY <2>1, <2>2 DEF TransferDecides
  <2>4. Telling(o, {"broadcast", "pollers"}) => Telling(o, {"broadcast", "pollers"})'
    BY <1>1, <2>3 DEF Telling, Transfers
  <2>5. PollReady(call[u].end)' <=> PollReady(call[u].end)
    BY <1>1 DEF PollReady
  <2> QED
    BY <1>1, <2>1, <2>2, <2>4, <2>5 DEF PollsTold
<1>3. TransfersTold(u)'
  <2>1. \A o : Telling(o, {"broadcast"}) => Telling(o, {"broadcast"})'
    BY <1>1 DEF Telling, Transfers
  <2>2. \A o : Closing(o) => Closing(o)'
    BY <1>1 DEF Closing
  <2> QED
    BY <1>1, <2>1, <2>2, FrameKeeps DEF TransfersTold
<1> QED
  BY <1>2, <1>3

(* ... or the one who closed the other end, ...                            *)
LEMMA ToldClosed ==
  ASSUME StreamInv, StreamInv', NEW t \in Threads, NEW u \in Threads \ {t},
         Stands(t), Stands(u), Frame(u), PollsTold(u), TransfersTold(u), CloseBroadcast(t)
  PROVE  PollsTold(u)' /\ TransfersTold(u)'
<1>1. /\ pc[t] = "closed" /\ pipe' = pipe /\ call'[u] = call[u]
      /\ \A v \in Threads \ {t} : pc'[v] = pc[v] /\ call'[v] = call[v]
      /\ call[u].end \in Ends /\ call[t].end \in Ends
  BY DEF CloseBroadcast, Return, Go, StreamInv, Types, CallTypes, CallType, pipeVars
<1>2. /\ \A e : Telling(e, {"broadcast"}) => Telling(e, {"broadcast"})'
      /\ \A e : Telling(e, {"broadcast", "pollers"}) => Telling(e, {"broadcast", "pollers"})'
  BY <1>1 DEF Telling, Transfers
<1>3. PollsTold(u)'
  <2>1. PollReady(call[u].end)' <=> PollReady(call[u].end)
    BY <1>1 DEF PollReady
  <2> QED
    BY <1>1, <1>2, <2>1, FrameKeeps DEF PollsTold
<1>4. TransfersTold(u)'
  <2> SUFFICES ASSUME Blocking(u)', call[u].kind = "transfer" PROVE TransfersTold(u)'
    BY <1>1 DEF TransfersTold
  <2>1. PICK o \in Ends : o = Other(call[u].end) /\ call[u].end = Other(o)
    BY <1>1, OtherEnds
  <2>2. call[t].end # o
    <3> SUFFICES ASSUME call[t].end = o PROVE FALSE
      OBVIOUS
    <3>1. CartelOf[u] = CartelAt(Other(call[t].end))
      BY <2>1 DEF Stands, Fits
    <3>2. pc[u] # "commit"
      BY <3>1, FreeNoCommit DEF CloseBroadcast, UserThread_WakeupGroup
    <3>3. pc[u] = "sleep" /\ asleep[u] # "none" /\ asleep'[u] # "none"
      BY <1>1, <3>2, FrameKeeps DEF Blocking
    <3>4. asleep[u] = call[u].end
      BY <3>3 DEF Stands, Sleeps
    <3> QED
      BY <2>1, <3>3, <3>4 DEF CloseBroadcast, UserThread_WakeupGroup
  <2>3. Closing(o) => Closing(o)'
    BY <1>1, <2>2 DEF Closing
  <2>4. Blocking(u)
    BY FrameKeeps
  <2> QED
    BY <1>1, <1>2, <2>1, <2>3, <2>4 DEF TransfersTold
<1> QED
  BY <1>3, <1>4

(* ... when an end is closed, ...                                          *)
LEMMA ToldClose ==
  ASSUME StreamInv, StreamInv', NEW t \in Threads, NEW u \in Threads \ {t}, NEW e \in Ends,
         Stands(t), Stands(u), Frame(u), PollsTold(u), TransfersTold(u), UserPipe_Close(t, e)
  PROVE  PollsTold(u)' /\ TransfersTold(u)'
<1>1. /\ pc[t] = "user" /\ pipe'.open = pipe.open \ {e} /\ pipe'.readLength = pipe.readLength
      /\ call'[u] = call[u] /\ call[u].end \in Ends
      /\ \A v \in Threads \ {t} : pc'[v] = pc[v] /\ call'[v] = call[v]
      /\ pc'[t] = (IF Other(e) \in pipe.open THEN "closed" ELSE "cleanup") /\ call'[t].end = e
  BY DEF UserPipe_Close, Called, CloseCall, NoCall, Go, StreamInv, Types, CallTypes, CallType, RingTypes, PipeType
<1>2. PollsTold(u)'
  BY <1>1, FrameKeeps DEF PollsTold
<1>3. TransfersTold(u)'
  <2> SUFFICES ASSUME Blocking(u)', call[u].kind = "transfer" PROVE TransfersTold(u)'
    BY <1>1 DEF TransfersTold
  <2>1. PICK o \in Ends : o = Other(call[u].end) /\ call[u].end = Other(o)
    BY <1>1, OtherEnds
  <2>2. call[u].end \in pipe.open
    BY DEF Stands, Fits
  <2>3. o \in pipe.open => o \in pipe'.open \/ Closing(o)'
    BY <1>1, <2>1, <2>2 DEF Closing
  <2>4. Closing(o) => Closing(o)'
    BY <1>1 DEF Closing
  <2>5. Telling(o, {"broadcast"}) => Telling(o, {"broadcast"})'
    BY <1>1 DEF Telling, Transfers
  <2>6. Blocking(u)
    BY FrameKeeps
  <2> QED
    BY <1>1, <2>1, <2>3, <2>4, <2>5, <2>6 DEF TransfersTold
<1> QED
  BY <1>2, <1>3

(* ... and when something was copied: nobody is telling anyone when a copy *)
(* begins, and whoever copied tells next.                                  *)
LEMMA ToldCopies ==
  ASSUME StreamInv, StreamInv', 2 \notin CopyOutFaults, NEW t \in Threads, NEW u \in Threads \ {t},
         \A v \in Threads : Stands(v), Frame(u), PollsTold(u), TransfersTold(u),
         UserPipe_Read(t) \/ UserPipe_Write(t)
  PROVE  PollsTold(u)' /\ TransfersTold(u)'
<1>1. /\ pc[t] \in {"enter", "again"} /\ sema \in {Nobody, t} /\ call[t].kind = "transfer"
      /\ call'[u] = call[u] /\ call[u].end \in Ends
  BY DEF UserPipe_Read, UserPipe_Write, AtBuffer, Transfers, Stands, Locks, HoldsSema, Frame, StreamInv,
         Types, CallTypes, CallType
<1>2. \A o : ~Telling(o, {"broadcast", "pollers"}) /\ ~Telling(o, {"broadcast"})
  BY <1>1, NobodyAssumption DEF Telling, Stands, Locks, HoldsSema
<1>3. \A o : ~Closing(o)
  BY <1>1, NobodyAssumption DEF Closing, Stands, Locks, HoldsSema
<1>4. PICK l \in Nat : l = pipe.readLength /\ l <= PipeSize
  BY PipeAssumption DEF StreamInv, Types, RingTypes, PipeType, Bytes
<1>5. PICK l1 \in Nat : l1 = pipe'.readLength /\ l1 <= PipeSize
  BY PipeAssumption DEF StreamInv, Types, RingTypes, PipeType, Bytes
<1>6. PICK d \in Ends : d = call[t].end
  BY DEF StreamInv, Types, CallTypes, CallType
<1>7. /\ pipe'.open = pipe.open
      /\ d = "read" => l1 <= l
      /\ d = "write" => l1 >= l
      /\ \/ l1 = l
         \/ Telling(d, {"broadcast"})' /\ Telling(d, {"broadcast", "pollers"})'
         \/ d = "write" /\ l # 0
  <2>1. ASSUME NEW n, AfterCopy(t, n, 0)
        PROVE  Telling(d, {"broadcast"})' /\ Telling(d, {"broadcast", "pollers"})'
    <3>1. pc'[t] = "broadcast" /\ call'[t].kind = "transfer" /\ call'[t].end = d
      BY <1>1, <1>6, <2>1 DEF AfterCopy, Go, StreamInv, Types, CallTypes, CallType
    <3> QED
      BY <3>1 DEF Telling, Transfers
  <2>2. CASE UserPipe_Read(t)
    <3>1. PICK n \in Nat, fault \in {0, 1, 2} : Reads(t, n, fault)
      BY <2>2, ReadFacts DEF StreamInv
    <3>2. pipe'.open = pipe.open /\ l1 = l - n
      BY <1>4, <1>5, <3>1 DEF Reads, StreamInv, Types, RingTypes, PipeType
    <3>3. fault # 0 => n = 0
      BY <3>1 DEF Reads
    <3>4. fault = 0 => AfterCopy(t, n, 0)
      BY <3>1 DEF Reads
    <3>5. d = "read"
      BY <1>6, <2>2 DEF UserPipe_Read, AtBuffer, Transfers
    <3>6. l1 <= l /\ (n = 0 => l1 = l)
      BY <1>4, <1>5, <3>2
    <3> QED
      BY <2>1, <3>2, <3>3, <3>4, <3>5, <3>6
  <2>3. CASE UserPipe_Write(t)
    <3>1. PICK n \in Nat, fault \in {0, 1, 2} : Writes(t, n, fault)
      BY <2>3, WriteFacts DEF StreamInv
    <3>2. pipe'.open = pipe.open /\ l1 = l + n
      BY <1>4, <1>5, <3>1 DEF Writes, StreamInv, Types, RingTypes, PipeType
    <3>3. (fault = 1 => n = 0) /\ (fault = 2 => l # 0)
      BY <1>4, <3>1 DEF Writes, StreamInv, InOrder
    <3>4. fault = 0 => AfterCopy(t, n, 0)
      BY <3>1 DEF Writes
    <3>5. d = "write"
      BY <1>6, <2>3 DEF UserPipe_Write, AtBuffer, Transfers
    <3>6. l1 >= l /\ (n = 0 => l1 = l)
      BY <1>4, <1>5, <3>2
    <3> QED
      BY <2>1, <3>2, <3>3, <3>4, <3>5, <3>6
  <2> QED
    BY <2>2, <2>3
<1>8. PollsTold(u)'
  <2> SUFFICES ASSUME Polling(u)', pipe.open = Ends
               PROVE  /\ u \in pollers'[call[u].end]
                      /\ \/ ~PollReady(call[u].end)'
                         \/ Telling(Other(call[u].end), {"broadcast", "pollers"})'
    BY <1>1, <1>7, FrameKeeps DEF PollsTold
  <2>1. u \in pollers'[call[u].end] /\ ~PollReady(call[u].end)
    BY <1>1, <1>2, FrameKeeps DEF PollsTold
  <2>2. CASE call[u].end = "read"
    <3>1. l = 0
      BY <1>4, <2>1, <2>2 DEF PollReady
    <3>2. l1 = 0 \/ Telling("write", {"broadcast", "pollers"})'
      BY <1>4, <1>5, <1>7, <3>1 DEF Ends
    <3> QED
      BY <1>1, <1>5, <1>7, <2>1, <2>2, <3>2, OtherEnds DEF PollReady, Ends
  <2>3. CASE call[u].end = "write"
    <3>1. l = PipeSize
      BY <1>4, <2>1, <2>3, PipeAssumption DEF PollReady
    <3>2. l1 = PipeSize \/ Telling("read", {"broadcast", "pollers"})'
      BY <1>4, <1>5, <1>7, <3>1, PipeAssumption DEF Ends
    <3> QED
      BY <1>1, <1>5, <1>7, <2>1, <2>3, <3>2, OtherEnds, PipeAssumption DEF PollReady, Ends
  <2> QED
    BY <1>1, <2>2, <2>3 DEF Ends
<1>9. TransfersTold(u)'
  <2> SUFFICES ASSUME Blocking(u)', call[u].kind = "transfer" PROVE TransfersTold(u)'
    BY <1>1 DEF TransfersTold
  <2>1. PICK o \in Ends : o = Other(call[u].end)
    BY <1>1, OtherEnds
  <2>2. /\ IF call[u].end = "read" THEN l = 0
           ELSE l = PipeSize \/ call[u].left \in PipeSize - l + 1 .. PipeSize
        /\ o \in pipe'.open
    BY <1>2, <1>3, <1>4, <1>7, <2>1, FrameKeeps DEF TransfersTold
  <2>3. PICK k \in Nat : k = call[u].left
    BY DEF StreamInv, Types, CallTypes, CallType
  <2>4. CASE call[u].end = "read"
    <3>1. l1 = 0 \/ Telling("write", {"broadcast"})'
      BY <1>4, <1>5, <1>7, <2>2, <2>4 DEF Ends
    <3> QED
      BY <1>1, <1>5, <2>1, <2>2, <2>4, <3>1, OtherEnds DEF TransfersTold
  <2>5. CASE call[u].end = "write"
    <3>1. \/ l1 = PipeSize \/ k \in PipeSize - l1 + 1 .. PipeSize
          \/ Telling("read", {"broadcast"})'
      BY <1>4, <1>5, <1>7, <2>2, <2>3, <2>5, PipeAssumption DEF Ends
    <3> QED
      BY <1>1, <1>5, <2>1, <2>2, <2>3, <2>5, <3>1, OtherEnds DEF TransfersTold
  <2> QED
    BY <1>1, <2>4, <2>5 DEF Ends
<1> QED
  BY <1>8, <1>9

-------------------------------------------------------------------------------
(* The invariant.                                                          *)
LEMMA WaitStarts ==
  Init => WaitInv
<1> SUFFICES ASSUME Init, NEW t \in Threads PROVE Stands(t) /\ PollsTold(t) /\ TransfersTold(t)
  BY StreamStarts DEF WaitInv
<1>1. pc[t] = "user" /\ call[t].kind = "none" /\ asleep[t] = "none"
  BY DEF Init, NoCall
<1> QED
  BY <1>1
     DEF Stands, Fits, Locks, HoldsSema, Sleeps, Fruitless, Heard, PollsTold, TransfersTold, Blocking, Polling

(* The invariant is inductive.                                             *)
LEMMA WaitKept ==
  ASSUME readCartel = writeCartel, 2 \notin CopyOutFaults, WaitInv, [Next]_vars
  PROVE  WaitInv'
<1>1. StreamInv /\ StreamInv'
  BY StreamKept DEF WaitInv
<1>2. \A v \in Threads : Stands(v) /\ PollsTold(v) /\ TransfersTold(v)
  BY DEF WaitInv
<1>3. \A v : Quiet(v)' => PollsTold(v)' /\ TransfersTold(v)'
  BY DEF Quiet, PollsTold, TransfersTold
<1> SUFFICES ASSUME NEW u \in Threads
             PROVE  Stands(u)' /\ PollsTold(u)' /\ TransfersTold(u)'
  BY <1>1 DEF WaitInv
<1>4. CASE UNCHANGED vars
  <2>1. Frame(u)
    BY <1>4 DEF vars, Frame, Stirred, Interrupted
  <2> QED
    BY <1>1, <1>2, <1>4, <2>1, FrameKeeps, ToldSame DEF vars
<1>5. ASSUME NEW t \in Threads, Disturb(t)
      PROVE  Stands(u)' /\ PollsTold(u)' /\ TransfersTold(u)'
  <2>1. pc' = pc /\ call' = call /\ pipe' = pipe
    BY <1>5 DEF Disturb, TimerFires, UserThreadWaitTimeout, UserThread_KillPeers, UserSig_Send, Kick, pipeVars
  <2>2. Frame(u)
    BY <1>1, <1>5, DisturbFrame
  <2> QED
    BY <1>1, <1>2, <2>1, <2>2, FrameKeeps, ToldSame
<1>6. ASSUME NEW t \in Threads, NEW e \in Ends, NEW p \in Threads, WakePoller(t, e, p)
      PROVE  Stands(u)' /\ PollsTold(u)' /\ TransfersTold(u)'
  <2>1. pc' = pc /\ call' = call /\ pipe' = pipe
    BY <1>6 DEF WakePoller, pipeVars
  <2>2. Frame(u)
    BY <1>1, <1>6, PollerFrame
  <2> QED
    BY <1>1, <1>2, <2>1, <2>2, FrameKeeps, ToldSame
<1>7. ASSUME NEW t \in Threads, u # t, Frame(u), pipe' = pipe, t \notin Tellers,
             \A v \in Threads \ {t} : pc'[v] = pc[v] /\ call'[v] = call[v]
      PROVE  Stands(u)' /\ PollsTold(u)' /\ TransfersTold(u)'
  BY <1>1, <1>2, <1>7, FrameKeeps, ToldSame DEF Tellers
<1>8. ASSUME NEW t \in Threads, Call(t)
      PROVE  Stands(u)' /\ PollsTold(u)' /\ TransfersTold(u)'
  <2>1. u = t => Stands(u)' /\ PollsTold(u)' /\ TransfersTold(u)'
    BY <1>1, <1>2, <1>3, <1>8, CallOwn
  <2> SUFFICES ASSUME u # t PROVE Stands(u)' /\ PollsTold(u)' /\ TransfersTold(u)'
    BY <2>1
  <2>2. Frame(u)
    BY <1>1, <1>8, CallFrame
  <2>3. pc[t] = "user" /\ \A v \in Threads \ {t} : pc'[v] = pc[v] /\ call'[v] = call[v]
    BY <1>1, <1>8
       DEF Call, UserThread_Sleep, UserPipe_Close, UserObj_Poll, CallTransfer, Called, Go, StreamInv, Types,
           CallTypes
  <2>4. ASSUME NEW c \in Menu[t], UserPipe_Close(t, c.end)
        PROVE  Stands(u)' /\ PollsTold(u)' /\ TransfersTold(u)'
    <3>1. c.end \in Ends
      BY MenuAssumption
    <3> QED
      BY <1>1, <1>2, <2>2, <2>4, <3>1, FrameKeeps, ToldClose
  <2>5. CASE pipe' = pipe
    BY <1>7, <2>2, <2>3, <2>5 DEF Tellers
  <2> QED
    BY <1>8, <2>4, <2>5 DEF Call, UserThread_Sleep, UserObj_Poll, CallTransfer, pipeVars
<1>9. ASSUME NEW t \in Threads, Continue(t)
      PROVE  Stands(u)' /\ PollsTold(u)' /\ TransfersTold(u)'
  <2>1. CASE WakePollers(t) \/ \E e \in Ends, p \in Threads : WakePoller(t, e, p)
    <3>1. Other(call[t].end) \in Ends
      BY <1>1, OtherEnds DEF StreamInv, Types, CallTypes, CallType
    <3> QED
      BY <1>6, <2>1, <3>1 DEF WakePollers
  <2>2. CASE UserPipe_Read(t) \/ UserPipe_Write(t)
    BY <1>1, <1>2, <1>3, <1>9, <2>2, CopyOwn, ContinueFrame, FrameKeeps, ToldCopies
  <2>3. CASE UserPipeBroadcastTo(t)
    BY <1>1, <1>2, <1>3, <1>9, <2>3, TransferOwn, ContinueFrame, FrameKeeps, ToldBroadcast
  <2>4. CASE TransferDecides(t)
    BY <1>1, <1>2, <1>3, <1>9, <2>4, TransferOwn, ContinueFrame, FrameKeeps, ToldDecides
  <2>5. CASE CloseBroadcast(t)
    BY <1>1, <1>2, <1>3, <1>9, <2>5, TransferOwn, ContinueFrame, FrameKeeps, ToldClosed
  <2>6. CASE \/ BrokenPipe(t) \/ WaitEarlyReturn(t) \/ WaitReturn(t) \/ WaitBlock(t) \/ WaitSleep(t)
             \/ PollRegister(t) \/ WaitRetake(t) \/ PollCleanup(t) \/ UserThread_CancelPreparedWait(t)
             \/ UserSig_HandlePending(t) \/ UserKernelExit(t)
             \/ pc[t] = "cleanup" /\ Return(t) /\ UNCHANGED <<waitVars, threadVars, pipeVars, pollers, calls>>
    <3>1. u = t => Stands(u)' /\ PollsTold(u)' /\ TransfersTold(u)'
      BY <1>1, <1>2, <1>3, <2>6, TransferOwn, WaitsOwn, BlockOwn, SleepOwn, RegisterOwn, PlainOwn
    <3>2. pipe' = pipe
      BY <2>6
         DEF BrokenPipe, WaitEarlyReturn, WaitReturn, WaitBlock, WaitSleep, PollRegister, WaitRetake, PollCleanup,
             UserThread_CancelPreparedWait, UserSig_HandlePending, UserKernelExit, pipeVars
    <3>3. t \notin Tellers
      BY <2>6
         DEF BrokenPipe, AtBuffer, WaitEarlyReturn, WaitReturn, WaitBlock, WaitSleep, PollRegister, WaitRetake,
             PollCleanup, UserThread_CancelPreparedWait, UserSig_HandlePending, UserKernelExit, Tellers
    <3>4. \A v \in Threads \ {t} : pc'[v] = pc[v] /\ call'[v] = call[v]
      BY <1>1, <1>2, <1>9, ContinueFrame DEF Frame
    <3>5. u # t => Frame(u)
      BY <1>1, <1>2, <1>9, ContinueFrame
    <3> QED
      BY <1>7, <3>1, <3>2, <3>3, <3>4, <3>5
  <2> QED
    BY <1>9, <2>1, <2>2, <2>3, <2>4, <2>5, <2>6 DEF Continue, UserPipeCleanup
<1> QED
  BY <1>4, <1>5, <1>8, <1>9 DEF Next, Disturb

(* No thread sleeps in a read, a write, a poll or a sleep through what it  *)
(* waits for, a kill, a signal or its timeout (UserThread_WaitInt,         *)
(* user/userThread.c; UserPipe_Read, UserPipe_Write and UserPipe_Poll,     *)
(* user/userPipe.c), when both ends of the pipe belong to one cartel and   *)
(* the second copy of a read does not fault: UserPipeBroadcastTo takes the *)
(* waitLock of the caller's cartel, and a read whose second copy faults    *)
(* has made room and tells nobody.                                         *)
THEOREM NobodyForgotten ==
  ASSUME readCartel = writeCartel, 2 \notin CopyOutFaults
  PROVE  Spec => []NobodySleepsThrough
<1>1. WaitInv => NobodySleepsThrough
  <2> SUFFICES ASSUME WaitInv, NEW t \in Threads PROVE Heard(t) /\ (Blocking(t) =>
        LET e == call[t].end IN
        CASE call[t].kind = "transfer" /\ e = "read" ->
               \/ pipe.readLength = 0 /\ ("write" \in pipe.open \/ Closing("write"))
               \/ Telling("write", {"broadcast"})
          [] call[t].kind = "transfer" /\ e = "write" ->
               \/ /\ \/ pipe.readLength = PipeSize
                     \/ call[t].left \in PipeSize - pipe.readLength + 1 .. PipeSize
                  /\ "read" \in pipe.open \/ Closing("read")
               \/ Telling("read", {"broadcast"})
          [] call[t].kind = "poll" ->
               \/ pipe.open # Ends \/ ~PollReady(e)
               \/ t \in pollers[e] /\ Telling(Other(e), {"broadcast", "pollers"})
          [] OTHER -> TRUE)
    BY DEF NobodySleepsThrough, SleepersTold, KicksHeard, Heard
  <2>1. Heard(t) /\ PollsTold(t) /\ TransfersTold(t)
    BY DEF WaitInv, Stands
  <2> QED
    BY <2>1, OtherEnds DEF PollsTold, TransfersTold, Polling
<1>2. WaitInv /\ [Next]_vars => WaitInv'
  BY WaitKept
<1> QED
  BY <1>1, <1>2, WaitStarts, PTL DEF Spec

===============================================================================
