--------------------------- MODULE RPCMessagesProofs ---------------------------
(***************************************************************************)
(* The traffic on a connection, for any number of worlds, of buffers and   *)
(* of messages: no buffer is lost or in two places, no reply goes astray,  *)
(* nobody sleeps or polls through what is queued, and the connection is    *)
(* freed under nobody.                                                     *)
(***************************************************************************)
EXTENDS RPCMessages, FiniteSetTheorems, SequenceTheorems, TLAPS

Elems(s) == {s[i] : i \in DOMAIN s}

Once(s) == \A i, j \in DOMAIN s : s[i] = s[j] => i = j

(* The buffers on the three lists, and the worlds that hold one.           *)
Msgs == Elems(cnx.messageList)
Reps == Elems(cnx.replyList)
Frees == Elems(cnx.freeList)

Copying(w) == pc[w] \in CopyPCs

(* The use count is that of the destroyer-to-be and of the worlds inside,  *)
(* so that nobody is when the connection is removed.                       *)
Counted ==
  /\ IsFiniteSet(Inside)
  /\ destroyed => Inside = {} /\ cnx.pendingDestroy /\ cnx.useCount = 0
  /\ ~destroyed => cnx.useCount = 1 + Cardinality(Inside)

(* No buffer is twice on a list, and the summaries agree with the lists.   *)
Listing ==
  /\ Once(cnx.messageList) /\ Once(cnx.replyList) /\ Once(cnx.freeList)
  /\ SummariesExact

(* No buffer is in two places, or in none.                                 *)
Apart ==
  /\ Msgs \cap Reps = {} /\ Msgs \cap Frees = {} /\ Reps \cap Frees = {}
  /\ \A w \in Worlds : Copying(w) => buf[w] \in Buffers \ (Msgs \cup Reps \cup Frees)
  /\ \A v, w \in Worlds : Copying(v) /\ Copying(w) /\ buf[v] = buf[w] => v = w
  /\ ~cnx.pendingDestroy =>
       \A b \in Buffers : b \in Msgs \cup Reps \cup Frees \/ \E w \in Worlds : Copying(w) /\ buf[w] = b

(* A token that is in use, with a world or in a buffer, and the message it *)
(* was given for.                                                          *)
Tag(k, n) ==
  \/ \E w \in Worlds : tok[w] = k /\ num[w] = n
  \/ \E b \in Buffers : msg[b].token = k /\ msg[b].num = n

(* One token is given to one message, as long as the tokens last.          *)
Tags ==
  /\ cnx.nextToken # RPC_TOKEN_INVALID => cnx.nextToken < sends
  /\ \A k \in Tokens, n \in 0 .. MaxSends : Tag(k, n) =>
       /\ n <= sends
       /\ k # RPC_TOKEN_INVALID =>
            n > 0 /\ cnx.nextToken # RPC_TOKEN_INVALID /\ k <= cnx.nextToken
  /\ \A k \in Tokens : \A m, n \in 0 .. MaxSends :
       Tag(k, m) /\ Tag(k, n) /\ k # RPC_TOKEN_INVALID => m = n

(* One world has sent a message, and at most one has received it.          *)
Sender(w) == num[w] # 0 /\ pc[w] \in {"notify", "sent", "repWait", "repCopy"}

Receiver(w) == num[w] # 0 /\ pc[w] \in {"msgCopy", "infoCopy", "serving", "replyCopy"}

Roles ==
  /\ \A v, w \in Worlds : Sender(v) /\ Sender(w) /\ num[v] = num[w] => v = w
  /\ \A v, w \in Worlds : Receiver(v) /\ Receiver(w) /\ num[v] = num[w] => v = w
  /\ \A w \in Worlds : \A b \in Msgs : Receiver(w) => msg[b].num # num[w]
  /\ \A b, c \in Msgs : msg[b].num = msg[c].num => b = c

(* What a world has in hand fits where it stands.                          *)
Fits(w) ==
  /\ Sender(w) => tok[w] # RPC_TOKEN_INVALID
  /\ pc[w] \in {"sent", "repWait", "repCopy"} => num[w] # 0
  /\ pc[w] = "repCopy" => msg[buf[w]].token = tok[w]
  /\ pc[w] \in {"idle", "closing"} => tok[w] = RPC_TOKEN_INVALID

(* Who sleeps has nothing to take.                                         *)
Slept(w) ==
  IsWaiting(waitEvent, w) =>
    \/ pc[w] = "msgWait" /\ Msgs = {}
    \/ pc[w] = "repWait" /\ \A b \in Reps : msg[b].token # tok[w]

(* Who polls is on the list or on the way to be woken.                     *)
Polled(w) ==
  /\ moved[w] # {} => pc[w] = "notify"
  /\ pc[w] = "polling" /\ w \notin selected =>
       (w \in cnx.pollWaiters /\ Msgs = {}) \/ \E v \in Worlds : w \in moved[v]

Base == TypeOK /\ Counted /\ Listing /\ Apart /\ \A w \in Worlds : Polled(w)

Traffic ==
  /\ Tags /\ Roles
  /\ \A w \in Worlds : Fits(w)
  /\ \A w \in Worlds : Slept(w)

(* RPCNextToken has not come round: the code has 2^32 tokens.              *)
TokensLast == MaxSends <= TokenSpace - 9

MsgInv == Base /\ (TokensLast => Traffic)

-------------------------------------------------------------------------------
(* Lists on which nothing is twice.                                        *)
LEMMA SeqEmpty ==
  /\ Elems(<<>>) = {} /\ Once(<<>>)
  /\ \A S : \A s \in Seq(S) : s = <<>> <=> Elems(s) = {}
<1>1. Elems(<<>>) = {} /\ Once(<<>>)
  BY DEF Elems, Once
<1>2. ASSUME NEW S, NEW s \in Seq(S), s # <<>>
      PROVE  Elems(s) # {}
  <2>1. Len(s) \in Nat \ {0} /\ DOMAIN s = 1 .. Len(s)
    BY <1>2, EmptySeq, LenProperties
  <2>2. 1 \in DOMAIN s
    BY <2>1
  <2> QED
    BY <2>2 DEF Elems
<1> QED
  BY <1>1, <1>2

(* Taking the first one off.                                               *)
LEMMA SeqTake ==
  ASSUME NEW S, NEW s \in Seq(S), s # <<>>, Once(s)
  PROVE  /\ Tail(s) \in Seq(S) /\ Len(s) \in Nat \ {0} /\ Len(Tail(s)) = Len(s) - 1 /\ Once(Tail(s))
         /\ Head(s) \in Elems(s) /\ Head(s) \in S
         /\ Elems(Tail(s)) = Elems(s) \ {Head(s)}
<1>1. /\ Len(s) \in Nat \ {0} /\ DOMAIN s = 1 .. Len(s)
      /\ Tail(s) \in Seq(S) /\ Len(Tail(s)) = Len(s) - 1
      /\ \A i \in 1 .. Len(Tail(s)) : Tail(s)[i] = s[i + 1]
  BY EmptySeq, LenProperties, HeadTailProperties
<1>2. PICK t : t = Tail(s)
  OBVIOUS
<1>3. PICK n \in Nat \ {0} : n = Len(s)
  BY <1>1
<1>4. DOMAIN t = 1 .. n - 1 /\ DOMAIN s = 1 .. n /\ \A i \in 1 .. n - 1 : t[i] = s[i + 1]
  <2>1. t \in Seq(S) /\ Len(t) = n - 1
    BY <1>1, <1>2, <1>3
  <2> QED
    BY <1>1, <1>2, <1>3, <2>1, LenProperties
<1>5. Head(s) = s[1] /\ Head(s) \in S
  BY <1>1, ElementOfSeq
<1>6. Once(t)
  BY SMTT(30), <1>4 DEF Once
<1>7. Elems(t) = Elems(s) \ {s[1]}
  <2>1. ASSUME NEW x \in Elems(t) PROVE x \in Elems(s) \ {s[1]}
    <3>1. PICK i \in 1 .. n - 1 : x = t[i]
      BY <1>4 DEF Elems
    <3>2. i + 1 \in DOMAIN s /\ x = s[i + 1] /\ 1 \in DOMAIN s /\ i + 1 # 1
      BY <1>4, <3>1
    <3> QED
      BY <3>2 DEF Elems, Once
  <2>2. ASSUME NEW x \in Elems(s), x # s[1] PROVE x \in Elems(t)
    <3>1. PICK i \in 1 .. n : x = s[i]
      BY <1>4 DEF Elems
    <3>2. i - 1 \in DOMAIN t /\ t[i - 1] = s[i - 1 + 1]
      BY <1>4, <2>2, <3>1
    <3>3. x = t[i - 1]
      BY <3>1, <3>2
    <3> QED
      BY <3>2, <3>3 DEF Elems
  <2> QED
    BY <2>1, <2>2
<1>8. Head(s) \in Elems(s)
  BY <1>1, <1>5 DEF Elems
<1> QED
  BY <1>1, <1>2, <1>5, <1>6, <1>7, <1>8

(* One list behind another.                                                *)
LEMMA SeqJoin ==
  ASSUME NEW S, NEW s \in Seq(S), NEW t \in Seq(S), Once(s), Once(t),
         \A x \in Elems(s) : x \notin Elems(t)
  PROVE  /\ s \o t \in Seq(S) /\ Len(s \o t) = Len(s) + Len(t) /\ Len(s) \in Nat /\ Len(t) \in Nat
         /\ Once(s \o t) /\ Elems(s \o t) = Elems(s) \cup Elems(t)
<1>1. PICK m, n \in Nat : m = Len(s) /\ n = Len(t) /\ DOMAIN s = 1 .. m /\ DOMAIN t = 1 .. n
  BY LenProperties
<1>2. PICK u : u = s \o t
  OBVIOUS
<1>3. u \in Seq(S) /\ Len(u) = m + n
  BY <1>1, <1>2, ConcatProperties
<1>4. DOMAIN u = 1 .. m + n
  BY <1>3, LenProperties
<1>5. \A i \in 1 .. m + n : u[i] = IF i <= m THEN s[i] ELSE t[i - m]
  BY <1>1, <1>2, ConcatProperties
<1>6. /\ \A i \in 1 .. m : i \in DOMAIN u /\ u[i] = s[i]
      /\ \A i \in 1 .. n : m + i \in DOMAIN u /\ u[m + i] = t[i]
  <2>1. ASSUME NEW i \in 1 .. n PROVE m + i \in DOMAIN u /\ u[m + i] = t[i]
    <3>1. m + i \in 1 .. m + n /\ ~(m + i <= m) /\ (m + i) - m = i
      OBVIOUS
    <3> QED
      BY <1>4, <1>5, <3>1
  <2> QED
    BY <1>4, <1>5, <2>1
<1>7. \A k \in DOMAIN u : (k \in 1 .. m /\ u[k] = s[k]) \/ (k - m \in 1 .. n /\ u[k] = t[k - m])
  BY <1>4, <1>5
<1>8. Elems(u) = Elems(s) \cup Elems(t)
  <2>1. Elems(u) \subseteq Elems(s) \cup Elems(t)
    BY <1>1, <1>7 DEF Elems
  <2>2. Elems(s) \subseteq Elems(u)
    BY <1>1, <1>6 DEF Elems
  <2>3. ASSUME NEW x \in Elems(t) PROVE x \in Elems(u)
    <3>1. PICK i \in 1 .. n : x = t[i]
      BY <1>1 DEF Elems
    <3>2. PICK k \in DOMAIN u : k = m + i /\ u[k] = t[i]
      BY <1>6
    <3> QED
      BY <3>1, <3>2 DEF Elems
  <2> QED
    BY <2>1, <2>2, <2>3
<1>9. Once(u)
  <2> SUFFICES ASSUME NEW i \in DOMAIN u, NEW j \in DOMAIN u, u[i] = u[j] PROVE i = j
    BY DEF Once
  <2>1. CASE i \in 1 .. m /\ u[i] = s[i] /\ j \in 1 .. m /\ u[j] = s[j]
    BY <1>1, <2>1 DEF Once
  <2>2. CASE i \in 1 .. m /\ u[i] = s[i] /\ j - m \in 1 .. n /\ u[j] = t[j - m]
    BY <1>1, <2>2 DEF Elems
  <2>3. CASE j \in 1 .. m /\ u[j] = s[j] /\ i - m \in 1 .. n /\ u[i] = t[i - m]
    BY <1>1, <2>3 DEF Elems
  <2>4. CASE i - m \in 1 .. n /\ u[i] = t[i - m] /\ j - m \in 1 .. n /\ u[j] = t[j - m]
    <3>1. i - m = j - m
      BY <1>1, <2>4 DEF Once
    <3> QED
      BY <1>4, <3>1
  <2> QED
    BY <1>7, <2>1, <2>2, <2>3, <2>4
<1> QED
  BY <1>1, <1>2, <1>3, <1>8, <1>9

(* Putting one in front or at the end.                                     *)
LEMMA SeqPut ==
  ASSUME NEW S, NEW s \in Seq(S), Once(s), NEW b \in S \ Elems(s)
  PROVE  /\ Append(s, b) \in Seq(S) /\ Len(Append(s, b)) = Len(s) + 1 /\ Once(Append(s, b))
         /\ Elems(Append(s, b)) = Elems(s) \cup {b} /\ Len(s) \in Nat
         /\ <<b>> \o s \in Seq(S) /\ Len(<<b>> \o s) = Len(s) + 1 /\ Once(<<b>> \o s)
         /\ Elems(<<b>> \o s) = Elems(s) \cup {b}
<1>1. PICK o : o = <<b>>
  OBVIOUS
<1>2. o \in Seq(S) /\ Len(o) = 1 /\ DOMAIN o = {1} /\ o[1] = b
  BY <1>1
<1>3. Once(o) /\ Elems(o) = {b}
  BY <1>2 DEF Once, Elems
<1>4. Append(s, b) = s \o o
  BY <1>1, AppendIsConcat
<1>5. Len(s) \in Nat
  BY LenProperties
<1>6. /\ o \in Seq(S)
      /\ \A x \in Elems(s) : x \notin Elems(o)
      /\ \A x \in Elems(o) : x \notin Elems(s)
  BY <1>2, <1>3
<1>7. /\ s \o o \in Seq(S) /\ Len(s \o o) = Len(s) + Len(o) /\ Once(s \o o)
      /\ Elems(s \o o) = Elems(s) \cup Elems(o)
  BY <1>3, <1>6, SeqJoin
<1>8. /\ o \o s \in Seq(S) /\ Len(o \o s) = Len(o) + Len(s) /\ Once(o \o s)
      /\ Elems(o \o s) = Elems(o) \cup Elems(s)
  BY <1>3, <1>6, SeqJoin
<1> QED
  BY <1>1, <1>2, <1>3, <1>4, <1>5, <1>7, <1>8

(* Taking one out of the middle.                                           *)
LEMMA SeqRemove ==
  ASSUME NEW S, NEW s \in Seq(S), Once(s), NEW i \in 1 .. Len(s)
  PROVE  /\ RemoveAt(s, i) \in Seq(S) /\ Len(s) \in Nat \ {0} /\ Len(RemoveAt(s, i)) = Len(s) - 1
         /\ Once(RemoveAt(s, i)) /\ s[i] \in Elems(s) /\ s[i] \in S
         /\ Elems(RemoveAt(s, i)) = Elems(s) \ {s[i]}
<1>1. PICK n \in Nat \ {0} : n = Len(s) /\ DOMAIN s = 1 .. n /\ \A j \in 1 .. n : s[j] \in S
  BY LenProperties, ElementOfSeq
<1>2. PICK a, c : a = SubSeq(s, 1, i - 1) /\ c = SubSeq(s, i + 1, n)
  OBVIOUS
<1>3. a \in Seq(S) /\ Len(a) = i - 1 /\ \A j \in 1 .. i - 1 : a[j] = s[j]
  <2>1. \A j \in 1 .. i - 1 : s[j] \in S
    BY <1>1
  <2>2. 1 \in Int /\ i - 1 \in Int
    OBVIOUS
  <2>3. /\ SubSeq(s, 1, i - 1) \in Seq(S)
        /\ Len(SubSeq(s, 1, i - 1)) = IF 1 <= i - 1 THEN i - 1 - 1 + 1 ELSE 0
        /\ \A j \in 1 .. i - 1 - 1 + 1 : SubSeq(s, 1, i - 1)[j] = s[1 + j - 1]
    BY <2>1, <2>2, SubSeqProperties
  <2> QED
    BY <1>1, <1>2, <2>3
<1>4. c \in Seq(S) /\ Len(c) = n - i /\ \A j \in 1 .. n - i : c[j] = s[i + j]
  <2>1. \A j \in i + 1 .. n : s[j] \in S
    BY <1>1
  <2>2. i + 1 \in Int /\ n \in Int
    BY <1>1
  <2>3. /\ SubSeq(s, i + 1, n) \in Seq(S)
        /\ Len(SubSeq(s, i + 1, n)) = IF i + 1 <= n THEN n - (i + 1) + 1 ELSE 0
        /\ \A j \in 1 .. n - (i + 1) + 1 : SubSeq(s, i + 1, n)[j] = s[i + 1 + j - 1]
    BY <2>1, <2>2, SubSeqProperties
  <2> QED
    BY SMTT(30), <1>1, <1>2, <2>3
<1>5. DOMAIN a = 1 .. i - 1 /\ DOMAIN c = 1 .. n - i
  BY <1>3, <1>4, LenProperties
<1>6. Elems(a) = {s[j] : j \in 1 .. i - 1}
  BY <1>3, <1>5 DEF Elems
<1>7. Elems(c) = {s[j] : j \in i + 1 .. n}
  <2>1. ASSUME NEW j \in i + 1 .. n PROVE s[j] \in Elems(c)
    <3>1. PICK k \in 1 .. n - i : k = j - i
      BY <1>1
    <3>2. c[k] = s[j]
      BY <1>1, <1>4, <3>1
    <3> QED
      BY <1>5, <3>1, <3>2 DEF Elems
  <2>2. ASSUME NEW k \in 1 .. n - i PROVE c[k] \in {s[j] : j \in i + 1 .. n}
    <3>1. PICK j \in i + 1 .. n : j = i + k
      BY <1>1
    <3> QED
      BY <1>4, <3>1
  <2> QED
    BY <1>5, <2>1, <2>2 DEF Elems
<1>8. Once(a)
  BY <1>1, <1>3, <1>5 DEF Once
<1>9. Once(c)
  <2> SUFFICES ASSUME NEW j \in 1 .. n - i, NEW k \in 1 .. n - i, c[j] = c[k] PROVE j = k
    BY <1>5 DEF Once
  <2>1. i + j \in DOMAIN s /\ i + k \in DOMAIN s /\ s[i + j] = s[i + k]
    BY <1>1, <1>4
  <2>2. i + j = i + k
    BY <2>1 DEF Once
  <2> QED
    BY <2>2
<1>10. \A x \in Elems(a) : x \notin Elems(c)
  BY <1>1, <1>6, <1>7 DEF Once
<1>11. /\ a \o c \in Seq(S) /\ Len(a \o c) = Len(a) + Len(c) /\ Once(a \o c)
       /\ Elems(a \o c) = Elems(a) \cup Elems(c)
  <2>1. a \in Seq(S) /\ c \in Seq(S)
    BY <1>3, <1>4
  <2> QED
    BY <1>8, <1>9, <1>10, <2>1, SeqJoin
<1>12. RemoveAt(s, i) = a \o c
  BY <1>1, <1>2 DEF RemoveAt
<1>13. s[i] \in Elems(s) /\ s[i] \in S
  BY <1>1 DEF Elems
<1>14. Elems(a) \cup Elems(c) = Elems(s) \ {s[i]}
  <2>1. ASSUME NEW x \in Elems(s), x # s[i] PROVE x \in Elems(a) \cup Elems(c)
    <3>1. PICK j \in 1 .. n : x = s[j]
      BY <1>1 DEF Elems
    <3>2. j \in 1 .. i - 1 \/ j \in i + 1 .. n
      BY <1>1, <2>1, <3>1
    <3> QED
      BY <1>6, <1>7, <3>1, <3>2
  <2>2. ASSUME NEW j \in 1 .. n, j # i PROVE s[j] \in Elems(s) \ {s[i]}
    BY <1>1, <2>2 DEF Elems, Once
  <2>3. 1 .. i - 1 \subseteq (1 .. n) \ {i} /\ i + 1 .. n \subseteq (1 .. n) \ {i}
    BY <1>1
  <2> QED
    BY <1>6, <1>7, <2>1, <2>2, <2>3
<1> QED
  <2>1. Len(a \o c) = n - 1
    BY <1>1, <1>3, <1>4, <1>11
  <2> QED
    BY <1>1, <1>11, <1>12, <1>13, <1>14, <2>1, Zenon

(* As many elements as places.                                             *)
LEMMA SeqCard ==
  ASSUME NEW S, NEW s \in Seq(S), Once(s)
  PROVE  IsFiniteSet(Elems(s)) /\ Cardinality(Elems(s)) = Len(s)
<1>1. Len(s) \in Nat /\ DOMAIN s = 1 .. Len(s) /\ s \in [1 .. Len(s) -> S]
  BY LenProperties
<1>2. IsFiniteSet(1 .. Len(s)) /\ Cardinality(1 .. Len(s)) = Len(s)
  BY <1>1, FS_Interval
<1>3. s \in [1 .. Len(s) -> Elems(s)]
  BY <1>1 DEF Elems
<1>4. s \in Injection(1 .. Len(s), Elems(s))
  BY <1>1, <1>3 DEF Once, Injection, IsInjective
<1>5. s \in Surjection(1 .. Len(s), Elems(s))
  BY <1>1, <1>3 DEF Elems, Surjection
<1>6. s \in Bijection(1 .. Len(s), Elems(s))
  BY <1>4, <1>5 DEF Bijection
<1>7. ExistsBijection(1 .. Len(s), Elems(s))
  BY <1>6 DEF ExistsBijection
<1> QED
  BY <1>2, <1>7, FS_Bijection

-------------------------------------------------------------------------------
(* The worlds that a step of w leaves alone.                               *)
Only(w) ==
  \A v \in Worlds \ {w} :
    pc'[v] = pc[v] /\ buf'[v] = buf[v] /\ tok'[v] = tok[v] /\ num'[v] = num[v]

HandTypes ==
  /\ pc \in [Worlds -> PCs] /\ buf \in [Worlds -> Buffers \cup {0}]
  /\ tok \in [Worlds -> Tokens] /\ num \in [Worlds -> 0 .. MaxSends]

(* Where At puts a world, and that it leaves the others alone.             *)
LEMMA AtFacts ==
  ASSUME TypeOK, NEW w \in Worlds, NEW to \in PCs, NEW b \in Buffers \cup {0}, NEW k \in Tokens,
         NEW n \in 0 .. MaxSends, At(w, to, b, k, n)
  PROVE  /\ Only(w) /\ HandTypes'
         /\ pc'[w] = to /\ buf'[w] = b /\ tok'[w] = k /\ num'[w] = n
  BY DEF TypeOK, At, Only, HandTypes

(* The constants.                                                          *)
LEMMA ConstantFacts ==
  /\ RPC_TOKEN_INVALID \in Tokens /\ 0 \in Tokens /\ 0 \in 0 .. MaxSends /\ 0 \in Buffers \cup {0}
  /\ \A p \in PCs : p \in InsidePCs \/ p \in {"idle", "notify", "sent", "serving", "polling", "closing"}
  /\ CopyPCs \subseteq InsidePCs /\ InsidePCs \subseteq PCs
  BY RPCMessagesAssumption DEF RPC_TOKEN_INVALID, Tokens, PCs, InsidePCs

(* The same of a world that has returned.                                  *)
LEMMA DoneFacts ==
  ASSUME TypeOK, NEW w \in Worlds, Done(w)
  PROVE  /\ Only(w) /\ HandTypes'
         /\ pc'[w] = "idle" /\ buf'[w] = 0 /\ tok'[w] = RPC_TOKEN_INVALID /\ num'[w] = 0
<1>1. "idle" \in PCs
  BY DEF PCs
<1> QED
  BY <1>1, ConstantFacts, AtFacts DEF Done

CnxType ==
  [messageList : Seq(Buffers), replyList : Seq(Buffers), freeList : Seq(Buffers),
   nQueuedMessages : Nat, nextToken : Tokens, mask : BOOLEAN,
   pendingDestroy : BOOLEAN, useCount : Nat, pollWaiters : SUBSET Worlds]

(* What a step makes of the count of uses ...                              *)
LEMMA CountIn ==
  ASSUME Counted, NEW w \in Worlds, Only(w), pc[w] \notin InsidePCs, pc'[w] \in InsidePCs,
         ~destroyed, destroyed' = destroyed, cnx'.useCount = cnx.useCount + 1
  PROVE  Counted'
<1>1. Inside' = Inside \cup {w} /\ w \notin Inside
  BY DEF Inside, Only
<1>2. /\ IsFiniteSet(Inside \cup {w}) /\ Cardinality(Inside \cup {w}) = Cardinality(Inside) + 1
      /\ Cardinality(Inside) \in Nat
  BY <1>1, FS_AddElement, FS_CardinalityType DEF Counted
<1> QED
  BY <1>1, <1>2 DEF Counted

(* A caller that leaves was counted, so the connection is still there ...  *)
LEMMA CountOut ==
  ASSUME Counted, NEW w \in Worlds, Only(w), pc[w] \in InsidePCs, pc'[w] \notin InsidePCs,
         destroyed' = destroyed, cnx'.useCount = cnx.useCount - 1
  PROVE  Counted' /\ cnx'.useCount \in Nat /\ ~destroyed
<1>1. Inside' = Inside \ {w} /\ w \in Inside
  BY DEF Inside, Only
<1>2. ~destroyed
  BY <1>1 DEF Counted
<1>3. /\ IsFiniteSet(Inside \ {w}) /\ Cardinality(Inside \ {w}) = Cardinality(Inside) - 1
      /\ Cardinality(Inside) \in Nat /\ Cardinality(Inside \ {w}) \in Nat
  BY <1>1, FS_RemoveElement, FS_CardinalityType DEF Counted
<1> QED
  BY <1>1, <1>2, <1>3 DEF Counted

(* ... and one that neither enters nor leaves changes nothing.             *)
LEMMA CountSame ==
  ASSUME Counted, NEW w \in Worlds, Only(w), pc[w] \in InsidePCs <=> pc'[w] \in InsidePCs,
         destroyed' = destroyed, cnx'.useCount = cnx.useCount, cnx.pendingDestroy => cnx'.pendingDestroy
  PROVE  Counted'
<1>1. Inside' = Inside
  BY DEF Inside, Only
<1> QED
  BY <1>1 DEF Counted

(* ... and of where the buffers are: one is taken from a list, put on one, *)
(* or stays.                                                               *)
LEMMA ApartTake ==
  ASSUME Apart, NEW w \in Worlds, Only(w), ~Copying(w), NEW b \in Buffers, buf'[w] = b,
         \/ b \in Msgs /\ Msgs' = Msgs \ {b} /\ Reps' = Reps /\ Frees' = Frees
         \/ b \in Reps /\ Reps' = Reps \ {b} /\ Msgs' = Msgs /\ Frees' = Frees
         \/ b \in Frees /\ Frees' = Frees \ {b} /\ Msgs' = Msgs /\ Reps' = Reps,
         pc'[w] \in CopyPCs, cnx'.pendingDestroy = cnx.pendingDestroy
  PROVE  Apart'
<1>1. \A v \in Worlds \ {w} : (Copying(v)' <=> Copying(v)) /\ buf'[v] = buf[v]
  BY DEF Copying, Only
<1>2. Copying(w)'
  BY DEF Copying
<1> QED
  BY <1>1, <1>2 DEF Apart

(* Where one is put, it was on no list and with nobody else.               *)
LEMMA ApartGive ==
  ASSUME Apart, NEW w \in Worlds, Only(w), Copying(w), pc'[w] \notin CopyPCs,
         \/ Msgs' = Msgs \cup {buf[w]} /\ Reps' = Reps /\ Frees' = Frees
         \/ Reps' = Reps \cup {buf[w]} /\ Msgs' = Msgs /\ Frees' = Frees
         \/ Frees' = Frees \cup {buf[w]} /\ Msgs' = Msgs /\ Reps' = Reps,
         cnx'.pendingDestroy = cnx.pendingDestroy
  PROVE  Apart'
<1>1. \A v \in Worlds \ {w} : (Copying(v)' <=> Copying(v)) /\ buf'[v] = buf[v]
  BY DEF Copying, Only
<1>2. ~Copying(w)'
  BY DEF Copying
<1> QED
  BY <1>1, <1>2 DEF Apart

(* Nothing is taken and nothing put.                                       *)
LEMMA ApartSame ==
  ASSUME Apart, NEW w \in Worlds, Only(w), Copying(w)' <=> Copying(w), Copying(w) => buf'[w] = buf[w],
         Msgs' = Msgs, Reps' = Reps, Frees' = Frees, cnx.pendingDestroy => cnx'.pendingDestroy,
         cnx.pendingDestroy \in BOOLEAN, cnx'.pendingDestroy \in BOOLEAN
  PROVE  Apart'
<1>1. \A v \in Worlds \ {w} : (Copying(v)' <=> Copying(v)) /\ buf'[v] = buf[v]
  BY DEF Copying, Only
<1> QED
  BY <1>1 DEF Apart

-------------------------------------------------------------------------------
(* The connection: its count, its lists and its buffers, through the       *)
(* changes that calls make of it.                                          *)
Core == cnx \in CnxType /\ Counted /\ Listing /\ Apart

SameRest ==
  /\ cnx'.nextToken = cnx.nextToken /\ cnx'.pendingDestroy = cnx.pendingDestroy
  /\ cnx'.pollWaiters = cnx.pollWaiters

(* A buffer off the free list, for a caller that enters.                   *)
LEMMA CoreTakeFree ==
  ASSUME Core, NEW w \in Worlds, Only(w), pc[w] \notin InsidePCs, pc'[w] \in CopyPCs, ~destroyed,
         destroyed' = destroyed, cnx.freeList # <<>>, buf'[w] = Head(cnx.freeList), cnx' = EnterWithBuffer
  PROVE  Core' /\ SameRest /\ Msgs' = Msgs /\ Reps' = Reps
<1> USE DEF Core
<1>1. PICK f : f = Tail(cnx.freeList)
  OBVIOUS
<1>2. PICK b : b = Head(cnx.freeList)
  OBVIOUS
<1>3. f \in Seq(Buffers) /\ Once(f) /\ b \in Frees /\ b \in Buffers /\ Elems(f) = Frees \ {b}
  BY <1>1, <1>2, SeqTake DEF CnxType, Listing, Frees
<1>4. PICK n \in Nat : n = cnx.useCount + 1
  BY DEF CnxType
<1>5. cnx' = [cnx EXCEPT !.freeList = f, !.useCount = n]
  BY <1>1, <1>4 DEF EnterWithBuffer
<1>6. /\ cnx' \in CnxType /\ cnx'.freeList = f /\ cnx'.useCount = n
      /\ cnx'.messageList = cnx.messageList /\ cnx'.replyList = cnx.replyList
      /\ cnx'.nQueuedMessages = cnx.nQueuedMessages /\ cnx'.mask = cnx.mask /\ SameRest
  BY <1>3, <1>5 DEF CnxType, SameRest
<1>7. Counted'
  BY <1>4, <1>6, CountIn, ConstantFacts
<1>8. Listing'
  BY <1>3, <1>6 DEF Listing, SummariesExact
<1>9. Msgs' = Msgs /\ Reps' = Reps /\ Frees' = Frees \ {b}
  BY <1>3, <1>6 DEF Msgs, Reps, Frees
<1>10. Apart'
  BY <1>2, <1>3, <1>6, <1>9, ApartTake, ConstantFacts DEF SameRest, Copying
<1> QED
  BY <1>6, <1>7, <1>8, <1>9, <1>10

(* A buffer back on the free list, from a caller that leaves.              *)
LEMMA CoreGiveFree ==
  ASSUME Core, NEW w \in Worlds, Only(w), pc[w] \in CopyPCs, pc'[w] \notin InsidePCs,
         destroyed' = destroyed, cnx' = FreeAndLeave(buf[w])
  PROVE  Core' /\ SameRest /\ Msgs' = Msgs /\ Reps' = Reps
<1> USE DEF Core
<1>1. PICK b \in Buffers : b = buf[w] /\ b \notin Frees
  BY DEF Apart, Copying
<1>2. PICK f : f = <<b>> \o cnx.freeList
  OBVIOUS
<1>3. f \in Seq(Buffers) /\ Once(f) /\ Elems(f) = Frees \cup {b}
  BY <1>1, <1>2, SeqPut DEF CnxType, Listing, Frees
<1>4. /\ cnx' = [cnx EXCEPT !.freeList = f, !.useCount = cnx.useCount - 1]
  BY <1>1, <1>2 DEF FreeAndLeave
<1>5. cnx'.useCount = cnx.useCount - 1
  BY <1>4 DEF CnxType
<1>6. Counted' /\ cnx'.useCount \in Nat
  BY <1>5, CountOut, ConstantFacts
<1>7. /\ cnx' \in CnxType /\ cnx'.freeList = f
      /\ cnx'.messageList = cnx.messageList /\ cnx'.replyList = cnx.replyList
      /\ cnx'.nQueuedMessages = cnx.nQueuedMessages /\ cnx'.mask = cnx.mask /\ SameRest
  BY <1>3, <1>4, <1>5, <1>6 DEF CnxType, SameRest
<1>8. Listing'
  BY <1>3, <1>7 DEF Listing, SummariesExact
<1>9. Msgs' = Msgs /\ Reps' = Reps /\ Frees' = Frees \cup {b}
  BY <1>3, <1>7 DEF Msgs, Reps, Frees
<1>10. Apart'
  BY <1>1, <1>7, <1>9, ApartGive, ConstantFacts DEF SameRest, Copying
<1> QED
  BY <1>6, <1>7, <1>8, <1>9, <1>10

(* A caller enters, or was inside before the step.                         *)
Entering(w, c) ==
  \/ c = Enter /\ pc[w] \notin InsidePCs /\ ~destroyed
  \/ c = cnx /\ pc[w] \in InsidePCs \ CopyPCs

(* Entering changes the count of the connection and nothing else of it.    *)
LEMMA EnterFacts ==
  ASSUME Core, NEW w \in Worlds, NEW c, Entering(w, c)
  PROVE  /\ c \in CnxType /\ c.messageList = cnx.messageList /\ c.replyList = cnx.replyList
         /\ c.freeList = cnx.freeList /\ c.nQueuedMessages = cnx.nQueuedMessages /\ c.mask = cnx.mask
         /\ c.nextToken = cnx.nextToken /\ c.pendingDestroy = cnx.pendingDestroy
         /\ c.pollWaiters = cnx.pollWaiters /\ ~Copying(w)
<1>1. CASE c = Enter /\ pc[w] \notin InsidePCs
  <2>1. PICK n \in Nat : n = cnx.useCount + 1
    BY DEF Core, CnxType
  <2>2. c = [cnx EXCEPT !.useCount = n]
    BY <1>1, <2>1 DEF Enter
  <2>3. cnx \in CnxType /\ pc[w] \notin CopyPCs
    BY <1>1, ConstantFacts DEF Core
  <2> QED
    BY <2>1, <2>2, <2>3 DEF CnxType, Copying
<1>2. CASE c = cnx /\ pc[w] \in InsidePCs \ CopyPCs
  BY <1>2 DEF Core, Copying
<1> QED
  BY <1>1, <1>2 DEF Entering

(* The count is right for a world that has entered, or was inside.         *)
LEMMA EnterCount ==
  ASSUME Core, NEW w \in Worlds, NEW c, Entering(w, c), Only(w), pc'[w] \in InsidePCs, destroyed' = destroyed,
         cnx'.useCount = c.useCount, cnx'.pendingDestroy = c.pendingDestroy
  PROVE  Counted'
<1>1. CASE c = Enter /\ pc[w] \notin InsidePCs /\ ~destroyed
  <2>1. cnx'.useCount = cnx.useCount + 1
    BY <1>1 DEF Enter, Core, CnxType
  <2> QED
    BY <1>1, <2>1, CountIn DEF Core
<1>2. CASE c = cnx /\ pc[w] \in InsidePCs \ CopyPCs
  BY <1>2, CountSame DEF Core
<1> QED
  BY <1>1, <1>2 DEF Entering

(* The first message, for a receiver.                                      *)
LEMMA CoreTakeMsg ==
  ASSUME Core, NEW w \in Worlds, Only(w), NEW c, Entering(w, c), pc'[w] \in CopyPCs,
         destroyed' = destroyed, cnx.messageList # <<>>, buf'[w] = FirstMessage, cnx' = TakeMessage(c)
  PROVE  /\ Core' /\ SameRest /\ Reps' = Reps
         /\ FirstMessage \in Msgs /\ FirstMessage \in Buffers /\ Msgs' = Msgs \ {FirstMessage}
<1>1. PICK m : m = Tail(cnx.messageList)
  OBVIOUS
<1>2. PICK b : b = FirstMessage
  OBVIOUS
<1>3. /\ m \in Seq(Buffers) /\ Once(m) /\ b \in Msgs /\ b \in Buffers /\ Elems(m) = Msgs \ {b}
      /\ Len(cnx.messageList) \in Nat \ {0} /\ Len(m) = Len(cnx.messageList) - 1
  BY <1>1, <1>2, SeqTake DEF Core, CnxType, Listing, Msgs, FirstMessage
<1>4. PICK n \in Nat : n = cnx.nQueuedMessages - 1 /\ n = Len(m) + Len(cnx.replyList)
  <2>1. PICK r, l \in Nat : r = Len(cnx.replyList) /\ l = Len(m)
    BY <1>3, LenProperties DEF Core, CnxType
  <2>2. PICK k \in Nat : k = Len(cnx.messageList) /\ l = k - 1
    BY <1>3, <2>1
  <2>3. cnx.nQueuedMessages = k + r
    BY <2>1, <2>2 DEF Core, Listing, SummariesExact
  <2>4. l + r \in Nat /\ k + r - 1 = l + r
    BY <2>2
  <2>5. PICK q \in Nat : q = l + r
    BY <2>4
  <2>6. q = cnx.nQueuedMessages - 1
    BY <2>3, <2>4, <2>5
  <2>7. q = Len(m) + Len(cnx.replyList)
    BY <2>1, <2>5
  <2> QED
    BY <2>6, <2>7
<1>5. /\ c \in CnxType /\ c.messageList = cnx.messageList /\ c.replyList = cnx.replyList
      /\ c.freeList = cnx.freeList /\ c.nQueuedMessages = cnx.nQueuedMessages
      /\ c.nextToken = cnx.nextToken /\ c.pendingDestroy = cnx.pendingDestroy
      /\ c.pollWaiters = cnx.pollWaiters /\ ~Copying(w)
  BY EnterFacts
<1>6. PICK k \in BOOLEAN : k = (m # <<>>)
  OBVIOUS
<1>7. cnx' = [c EXCEPT !.messageList = m, !.nQueuedMessages = n, !.mask = k]
  BY <1>1, <1>4, <1>5, <1>6 DEF TakeMessage
<1>8. /\ cnx' \in CnxType /\ cnx'.messageList = m /\ cnx'.nQueuedMessages = n /\ cnx'.mask = k
      /\ cnx'.replyList = cnx.replyList /\ cnx'.freeList = cnx.freeList /\ SameRest
      /\ cnx'.useCount = c.useCount /\ cnx'.pendingDestroy = c.pendingDestroy
  BY <1>3, <1>5, <1>7 DEF CnxType, SameRest
<1>9. Counted'
  BY <1>8, EnterCount, ConstantFacts
<1>10. Listing'
  BY <1>3, <1>4, <1>6, <1>8 DEF Core, Listing, SummariesExact
<1>11. Msgs' = Msgs \ {b} /\ Reps' = Reps /\ Frees' = Frees
  BY <1>3, <1>8 DEF Msgs, Reps, Frees
<1>12. Apart'
  BY <1>2, <1>3, <1>5, <1>8, <1>11, ApartTake DEF Core, SameRest
<1> QED
  BY <1>2, <1>3, <1>8, <1>9, <1>10, <1>11, <1>12 DEF Core

(* The first of some numbers.                                              *)
LEMMA FirstExists ==
  ASSUME NEW S \in SUBSET Nat, S # {}
  PROVE  \E i \in S : \A j \in S : i <= j
<1> DEFINE R == OpToRel(<, Nat)
<1>1. IsWellFoundedOn(R, Nat)
  BY NatLessThanWellFounded
<1> HIDE DEF R
<1>2. PICK m \in S : \A r \in S : ~(<<r, m>> \in R)
  BY <1>1, WFMin
<1>3. \A r \in S : r < m => <<r, m>> \in R
  BY DEF R, OpToRel
<1>4. m \in S /\ \A r \in S : ~(r < m)
  BY <1>2, <1>3, Zenon
<1> QED
  BY <1>4

(* The reply a sender takes is one to it.                                  *)
LEMMA FirstReplyFacts ==
  ASSUME Core, NEW w \in Worlds, RepliesTo(w) # {}
  PROVE  FirstReply(w) \in 1 .. Len(cnx.replyList) /\ msg[cnx.replyList[FirstReply(w)]].token = tok[w]
<1>1. PICK n \in Nat : n = Len(cnx.replyList)
  BY LenProperties DEF Core, CnxType
<1>2. RepliesTo(w) \in SUBSET Nat
  BY <1>1 DEF RepliesTo
<1>3. \E i \in RepliesTo(w) : \A j \in RepliesTo(w) : i <= j
  BY <1>2, FirstExists
<1>4. FirstReply(w) \in RepliesTo(w)
  BY <1>3 DEF FirstReply
<1> QED
  BY <1>4 DEF RepliesTo

(* A reply, for the sender of the message.                                 *)
LEMMA CoreTakeReply ==
  ASSUME Core, NEW w \in Worlds, Only(w), NEW c, Entering(w, c), pc'[w] \in CopyPCs,
         destroyed' = destroyed, RepliesTo(w) # {}, buf'[w] = cnx.replyList[FirstReply(w)],
         cnx' = [c EXCEPT !.replyList = RemoveAt(@, FirstReply(w)), !.nQueuedMessages = @ - 1]
  PROVE  /\ Core' /\ SameRest /\ Msgs' = Msgs /\ Reps' = Reps \ {buf'[w]}
         /\ buf'[w] \in Reps /\ buf'[w] \in Buffers /\ msg[buf'[w]].token = tok[w]
<1>1. PICK i : i = FirstReply(w)
  OBVIOUS
<1>2. PICK b : b = cnx.replyList[i]
  OBVIOUS
<1>3. i \in 1 .. Len(cnx.replyList) /\ msg[b].token = tok[w]
  BY <1>1, <1>2, FirstReplyFacts
<1>4. PICK m : m = RemoveAt(cnx.replyList, i)
  OBVIOUS
<1>5. /\ m \in Seq(Buffers) /\ Once(m) /\ b \in Reps /\ b \in Buffers /\ Elems(m) = Reps \ {b}
      /\ Len(cnx.replyList) \in Nat \ {0} /\ Len(m) = Len(cnx.replyList) - 1
  BY <1>2, <1>3, <1>4, SeqRemove DEF Core, CnxType, Listing, Reps
<1>6. PICK n \in Nat : n = cnx.nQueuedMessages - 1 /\ n = Len(cnx.messageList) + Len(m)
  <2>1. PICK r, l \in Nat : r = Len(cnx.messageList) /\ l = Len(m)
    BY <1>5, LenProperties DEF Core, CnxType
  <2>2. PICK k \in Nat : k = Len(cnx.replyList) /\ l = k - 1
    BY <1>5, <2>1
  <2>3. cnx.nQueuedMessages = r + k
    BY <2>1, <2>2 DEF Core, Listing, SummariesExact
  <2>4. r + l \in Nat /\ r + k - 1 = r + l
    BY <2>2
  <2>5. PICK q \in Nat : q = r + l
    BY <2>4
  <2>6. q = cnx.nQueuedMessages - 1
    BY <2>3, <2>4, <2>5
  <2>7. q = Len(cnx.messageList) + Len(m)
    BY <2>1, <2>5
  <2> QED
    BY <2>6, <2>7
<1>7. /\ c \in CnxType /\ c.messageList = cnx.messageList /\ c.replyList = cnx.replyList
      /\ c.freeList = cnx.freeList /\ c.nQueuedMessages = cnx.nQueuedMessages /\ c.mask = cnx.mask
      /\ c.nextToken = cnx.nextToken /\ c.pendingDestroy = cnx.pendingDestroy
      /\ c.pollWaiters = cnx.pollWaiters /\ ~Copying(w)
  BY EnterFacts
<1>8. cnx' = [c EXCEPT !.replyList = m, !.nQueuedMessages = n]
  BY <1>1, <1>4, <1>6, <1>7
<1>9. /\ cnx' \in CnxType /\ cnx'.messageList = cnx.messageList /\ cnx'.nQueuedMessages = n
      /\ cnx'.mask = cnx.mask /\ cnx'.replyList = m /\ cnx'.freeList = cnx.freeList /\ SameRest
      /\ cnx'.useCount = c.useCount /\ cnx'.pendingDestroy = c.pendingDestroy
  BY <1>5, <1>7, <1>8 DEF CnxType, SameRest
<1>10. Counted'
  BY <1>9, EnterCount, ConstantFacts
<1>11. Listing'
  BY <1>5, <1>6, <1>9 DEF Core, Listing, SummariesExact
<1>12. Msgs' = Msgs /\ Reps' = Reps \ {b} /\ Frees' = Frees
  BY <1>5, <1>9 DEF Msgs, Reps, Frees
<1>13. Apart'
  BY <1>1, <1>2, <1>5, <1>7, <1>9, <1>12, ApartTake DEF Core, SameRest
<1> QED
  BY <1>1, <1>2, <1>3, <1>5, <1>9, <1>10, <1>11, <1>12, <1>13 DEF Core

(* A caller that enters and goes to sleep, or sleeps again.                *)
LEMMA CoreEnter ==
  ASSUME Core, NEW w \in Worlds, Only(w), NEW c, Entering(w, c), pc'[w] \in InsidePCs \ CopyPCs,
         destroyed' = destroyed, cnx' = c
  PROVE  Core' /\ SameRest /\ Msgs' = Msgs /\ Reps' = Reps
<1>1. /\ cnx' \in CnxType /\ cnx'.messageList = cnx.messageList /\ cnx'.replyList = cnx.replyList
      /\ cnx'.freeList = cnx.freeList /\ cnx'.nQueuedMessages = cnx.nQueuedMessages
      /\ cnx'.mask = cnx.mask /\ SameRest /\ ~Copying(w)
  BY EnterFacts DEF SameRest
<1>2. Counted'
  BY EnterCount
<1>3. Listing'
  BY <1>1 DEF Core, Listing, SummariesExact
<1>4. Msgs' = Msgs /\ Reps' = Reps /\ Frees' = Frees
  BY <1>1 DEF Msgs, Reps, Frees
<1>5. Apart'
  <2>1. ~Copying(w)' /\ ~Copying(w)
    BY <1>1 DEF Copying
  <2>2. /\ cnx.pendingDestroy => cnx'.pendingDestroy
        /\ cnx.pendingDestroy \in BOOLEAN /\ cnx'.pendingDestroy \in BOOLEAN
    BY <1>1 DEF SameRest, Core, CnxType
  <2> QED
    BY <1>4, <2>1, <2>2, ApartSame DEF Core
<1> QED
  BY <1>1, <1>2, <1>3, <1>4, <1>5 DEF Core

(* Neither in nor out, and no list changes.                                *)
LEMMA CoreStay ==
  ASSUME Core, NEW w \in Worlds, Only(w), pc[w] \in InsidePCs <=> pc'[w] \in InsidePCs,
         pc[w] \in CopyPCs <=> pc'[w] \in CopyPCs, pc[w] \in CopyPCs => buf'[w] = buf[w],
         destroyed' = destroyed, cnx' \in CnxType, cnx.pendingDestroy => cnx'.pendingDestroy,
         cnx'.messageList = cnx.messageList, cnx'.replyList = cnx.replyList, cnx'.freeList = cnx.freeList,
         cnx'.nQueuedMessages = cnx.nQueuedMessages, cnx'.mask = cnx.mask, cnx'.useCount = cnx.useCount
  PROVE  Core' /\ Msgs' = Msgs /\ Reps' = Reps
<1>1. Counted'
  BY CountSame DEF Core
<1>2. Listing'
  BY DEF Core, Listing, SummariesExact
<1>3. Msgs' = Msgs /\ Reps' = Reps /\ Frees' = Frees
  BY DEF Msgs, Reps, Frees
<1>4. Apart'
  <2>1. (Copying(w)' <=> Copying(w)) /\ (Copying(w) => buf'[w] = buf[w])
    BY DEF Copying
  <2>2. cnx.pendingDestroy \in BOOLEAN /\ cnx'.pendingDestroy \in BOOLEAN
    BY DEF Core, CnxType
  <2> QED
    BY <1>3, <2>1, <2>2, ApartSame DEF Core
<1> QED
  BY <1>1, <1>2, <1>3, <1>4 DEF Core

(* Out without a buffer; with one in hand only when the connection is      *)
(* being destroyed, as ReplyDisconnected leaves it.                        *)
LEMMA CoreLeave ==
  ASSUME Core, NEW w \in Worlds, Only(w), pc[w] \in InsidePCs, pc'[w] \notin InsidePCs,
         pc[w] \in CopyPCs => cnx.pendingDestroy, destroyed' = destroyed, cnx' = Leave
  PROVE  Core' /\ SameRest /\ Msgs' = Msgs /\ Reps' = Reps
<1>1. cnx'.useCount = cnx.useCount - 1
  BY DEF Core, CnxType, Leave
<1>2. Counted' /\ cnx'.useCount \in Nat
  BY <1>1, CountOut DEF Core
<1>3. /\ cnx' \in CnxType /\ cnx'.messageList = cnx.messageList /\ cnx'.replyList = cnx.replyList
      /\ cnx'.freeList = cnx.freeList /\ cnx'.nQueuedMessages = cnx.nQueuedMessages
      /\ cnx'.mask = cnx.mask /\ SameRest
  <2>1. PICK n \in Nat : n = cnx'.useCount
    BY <1>2
  <2>2. cnx' = [cnx EXCEPT !.useCount = n]
    BY <1>1, <2>1 DEF Leave
  <2> QED
    BY <2>1, <2>2 DEF Core, CnxType, SameRest
<1>4. Listing'
  BY <1>3 DEF Core, Listing, SummariesExact
<1>5. Msgs' = Msgs /\ Reps' = Reps /\ Frees' = Frees
  BY <1>3 DEF Msgs, Reps, Frees
<1>6. Apart'
  <2>1. \A v \in Worlds \ {w} : (Copying(v)' <=> Copying(v)) /\ buf'[v] = buf[v]
    BY DEF Copying, Only
  <2>2. ~Copying(w)' /\ (Copying(w) => cnx.pendingDestroy)
    BY ConstantFacts DEF Copying
  <2>3. cnx'.pendingDestroy = cnx.pendingDestroy
    BY <1>3 DEF SameRest
  <2> QED
    BY <1>5, <2>1, <2>2, <2>3 DEF Core, Apart
<1> QED
  BY <1>2, <1>3, <1>4, <1>5, <1>6 DEF Core

(* One more queued.                                                        *)
LEMMA OneMore ==
  ASSUME NEW a \in Nat, NEW b \in Nat, NEW n, n = a + b
  PROVE  n + 1 \in Nat /\ n + 1 = (a + 1) + b /\ n + 1 = a + (b + 1)
  OBVIOUS

(* A message is queued by the sender that leaves.                          *)
LEMMA CoreSend ==
  ASSUME Core, NEW w \in Worlds, Only(w), pc[w] \in CopyPCs, pc'[w] \notin InsidePCs,
         destroyed' = destroyed, NEW k \in Tokens, NEW P \in SUBSET Worlds,
         cnx' = [Leave EXCEPT !.messageList = Append(@, buf[w]), !.nQueuedMessages = @ + 1,
                              !.nextToken = k, !.mask = TRUE, !.pollWaiters = P]
  PROVE  /\ Core' /\ Reps' = Reps /\ Msgs' = Msgs \cup {buf[w]}
         /\ cnx'.nextToken = k /\ cnx'.pollWaiters = P /\ cnx'.pendingDestroy = cnx.pendingDestroy
<1>1. PICK b \in Buffers : b = buf[w] /\ b \notin Msgs
  BY DEF Core, Apart, Copying
<1>2. PICK m : m = Append(cnx.messageList, b)
  OBVIOUS
<1>3. /\ m \in Seq(Buffers) /\ Once(m) /\ Elems(m) = Msgs \cup {b}
      /\ Len(m) = Len(cnx.messageList) + 1 /\ Len(cnx.messageList) \in Nat
  <2>1. PICK l \in Seq(Buffers) : l = cnx.messageList /\ Once(l) /\ Elems(l) = Msgs
    BY DEF Core, CnxType, Listing, Msgs
  <2>2. b \in Buffers \ Elems(l)
    BY <1>1, <2>1
  <2>3. /\ Append(l, b) \in Seq(Buffers) /\ Len(Append(l, b)) = Len(l) + 1 /\ Once(Append(l, b))
        /\ Elems(Append(l, b)) = Elems(l) \cup {b} /\ Len(l) \in Nat
        /\ <<b>> \o l \in Seq(Buffers) /\ Len(<<b>> \o l) = Len(l) + 1 /\ Once(<<b>> \o l)
        /\ Elems(<<b>> \o l) = Elems(l) \cup {b}
    BY <2>1, <2>2, SeqPut
  <2> QED
    BY <1>2, <2>1, <2>3
<1>4. PICK n \in Nat : n = cnx.nQueuedMessages + 1 /\ n = Len(m) + Len(cnx.replyList)
  <2>1. Len(cnx.replyList) \in Nat
    BY LenProperties DEF Core, CnxType
  <2>2. cnx.nQueuedMessages = Len(cnx.messageList) + Len(cnx.replyList)
    BY DEF Core, Listing, SummariesExact
  <2>3. /\ cnx.nQueuedMessages + 1 \in Nat
        /\ cnx.nQueuedMessages + 1 = (Len(cnx.messageList) + 1) + Len(cnx.replyList)
    BY <1>3, <2>1, <2>2, OneMore
  <2> QED
    BY <1>3, <2>3
<1>5. m # <<>>
  <2>1. Elems(m) # {} /\ Elems(<<>>) = {}
    BY <1>3, SeqEmpty
  <2> QED
    BY <2>1
<1>6. cnx' = [cnx EXCEPT !.useCount = cnx.useCount - 1, !.messageList = m, !.nQueuedMessages = n,
                         !.nextToken = k, !.mask = TRUE, !.pollWaiters = P]
  BY <1>1, <1>2, <1>4 DEF Core, CnxType, Leave
<1>7. cnx'.useCount = cnx.useCount - 1
  BY <1>6 DEF Core, CnxType
<1>8. Counted' /\ cnx'.useCount \in Nat
  BY <1>7, CountOut, ConstantFacts DEF Core
<1>9. /\ cnx' \in CnxType /\ cnx'.messageList = m /\ cnx'.replyList = cnx.replyList
      /\ cnx'.freeList = cnx.freeList /\ cnx'.nQueuedMessages = n /\ cnx'.mask = TRUE
      /\ cnx'.nextToken = k /\ cnx'.pollWaiters = P /\ cnx'.pendingDestroy = cnx.pendingDestroy
  BY <1>3, <1>6, <1>7, <1>8 DEF Core, CnxType
<1>10. Listing'
  BY <1>3, <1>4, <1>5, <1>9 DEF Core, Listing, SummariesExact
<1>11. Msgs' = Msgs \cup {b} /\ Reps' = Reps /\ Frees' = Frees
  BY <1>3, <1>9 DEF Msgs, Reps, Frees
<1>12. Apart'
  BY <1>1, <1>9, <1>11, ApartGive, ConstantFacts DEF Core, Copying
<1> QED
  BY <1>1, <1>8, <1>9, <1>10, <1>11, <1>12 DEF Core

(* A reply is queued at the end, or put back in front.                     *)
LEMMA CoreReply ==
  ASSUME Core, NEW w \in Worlds, Only(w), pc[w] \in CopyPCs, pc'[w] \notin InsidePCs,
         destroyed' = destroyed, NEW r, r = Append(cnx.replyList, buf[w]) \/ r = <<buf[w]>> \o cnx.replyList,
         cnx' = [Leave EXCEPT !.replyList = r, !.nQueuedMessages = @ + 1]
  PROVE  Core' /\ SameRest /\ Msgs' = Msgs /\ Reps' = Reps \cup {buf[w]}
<1>1. PICK b \in Buffers : b = buf[w] /\ b \notin Reps
  BY DEF Core, Apart, Copying
<1>2. r = Append(cnx.replyList, b) \/ r = <<b>> \o cnx.replyList
  BY <1>1
<1>3. /\ r \in Seq(Buffers) /\ Once(r) /\ Elems(r) = Reps \cup {b}
      /\ Len(r) = Len(cnx.replyList) + 1 /\ Len(cnx.replyList) \in Nat
  <2>1. PICK l \in Seq(Buffers) : l = cnx.replyList /\ Once(l) /\ Elems(l) = Reps
    BY DEF Core, CnxType, Listing, Reps
  <2>2. b \in Buffers \ Elems(l)
    BY <1>1, <2>1
  <2>3. /\ Append(l, b) \in Seq(Buffers) /\ Len(Append(l, b)) = Len(l) + 1 /\ Once(Append(l, b))
        /\ Elems(Append(l, b)) = Elems(l) \cup {b} /\ Len(l) \in Nat
        /\ <<b>> \o l \in Seq(Buffers) /\ Len(<<b>> \o l) = Len(l) + 1 /\ Once(<<b>> \o l)
        /\ Elems(<<b>> \o l) = Elems(l) \cup {b}
    BY <2>1, <2>2, SeqPut
  <2> QED
    BY <1>2, <2>1, <2>3
<1>4. PICK n \in Nat : n = cnx.nQueuedMessages + 1 /\ n = Len(cnx.messageList) + Len(r)
  <2>1. Len(cnx.messageList) \in Nat
    BY LenProperties DEF Core, CnxType
  <2>2. cnx.nQueuedMessages = Len(cnx.messageList) + Len(cnx.replyList)
    BY DEF Core, Listing, SummariesExact
  <2>3. /\ cnx.nQueuedMessages + 1 \in Nat
        /\ cnx.nQueuedMessages + 1 = Len(cnx.messageList) + (Len(cnx.replyList) + 1)
    BY <1>3, <2>1, <2>2, OneMore
  <2> QED
    BY <1>3, <2>3
<1>5. cnx' = [cnx EXCEPT !.useCount = cnx.useCount - 1, !.replyList = r, !.nQueuedMessages = n]
  BY <1>4 DEF Core, CnxType, Leave
<1>6. cnx'.useCount = cnx.useCount - 1
  BY <1>5 DEF Core, CnxType
<1>7. Counted' /\ cnx'.useCount \in Nat
  BY <1>6, CountOut, ConstantFacts DEF Core
<1>8. /\ cnx' \in CnxType /\ cnx'.messageList = cnx.messageList /\ cnx'.replyList = r
      /\ cnx'.freeList = cnx.freeList /\ cnx'.nQueuedMessages = n /\ cnx'.mask = cnx.mask /\ SameRest
  BY <1>3, <1>5, <1>6, <1>7 DEF Core, CnxType, SameRest
<1>9. Listing'
  BY <1>3, <1>4, <1>8 DEF Core, Listing, SummariesExact
<1>10. Msgs' = Msgs /\ Reps' = Reps \cup {b} /\ Frees' = Frees
  BY <1>3, <1>8 DEF Msgs, Reps, Frees
<1>11. Apart'
  BY <1>1, <1>8, <1>10, ApartGive, ConstantFacts DEF Core, Copying, SameRest
<1> QED
  BY <1>1, <1>7, <1>8, <1>9, <1>10, <1>11 DEF Core

(* The connection is removed when its count is one: nobody is inside, and  *)
(* its lists are emptied.                                                  *)
LEMMA CoreRemove ==
  ASSUME Core, NEW w \in Worlds, Only(w), pc[w] \notin InsidePCs, pc'[w] \notin InsidePCs,
         cnx.useCount = 1, RPCRemoveAndUnlockCnx
  PROVE  /\ Core' /\ Msgs' = {} /\ Reps' = {} /\ Inside = {} /\ ~destroyed /\ destroyed'
         /\ cnx'.nextToken = cnx.nextToken /\ cnx'.pendingDestroy
<1>1. ~destroyed
  BY DEF Core, Counted
<1>2. Inside = {}
  <2>1. Cardinality(Inside) \in Nat /\ 1 = 1 + Cardinality(Inside)
    BY <1>1, FS_CardinalityType DEF Core, Counted
  <2>2. Cardinality(Inside) = 0
    BY <2>1
  <2> QED
    BY <2>2, FS_EmptySet DEF Core, Counted
<1>3. Inside' = {}
  BY <1>2 DEF Inside, Only
<1>4. /\ cnx' \in CnxType /\ cnx'.messageList = <<>> /\ cnx'.replyList = <<>> /\ cnx'.freeList = <<>>
      /\ cnx'.nQueuedMessages = 0 /\ cnx'.mask = FALSE /\ cnx'.useCount = 0
      /\ cnx'.nextToken = cnx.nextToken /\ cnx'.pendingDestroy = TRUE /\ destroyed' = TRUE
  <2>1. PICK e \in Seq(Buffers) : e = <<>>
    BY EmptySeq
  <2>2. /\ destroyed' = TRUE
        /\ cnx' = [cnx EXCEPT !.messageList = e, !.replyList = e, !.freeList = e, !.nQueuedMessages = 0,
                              !.mask = FALSE, !.pollWaiters = {}, !.pendingDestroy = TRUE, !.useCount = 0]
    BY <2>1 DEF RPCRemoveAndUnlockCnx
  <2>3. /\ cnx' \in CnxType /\ cnx'.messageList = e /\ cnx'.replyList = e /\ cnx'.freeList = e
        /\ cnx'.nQueuedMessages = 0 /\ cnx'.mask = FALSE /\ cnx'.useCount = 0
        /\ cnx'.nextToken = cnx.nextToken /\ cnx'.pendingDestroy = TRUE
    BY <2>2 DEF Core, CnxType
  <2> QED
    BY <2>1, <2>2, <2>3
<1>5. Counted'
  BY <1>3, <1>4, FS_EmptySet DEF Counted
<1>6. Listing'
  BY <1>4, SeqEmpty DEF Listing, SummariesExact
<1>7. Msgs' = {} /\ Reps' = {} /\ Frees' = {}
  BY <1>4, SeqEmpty DEF Msgs, Reps, Frees
<1>8. Apart'
  <2>1. \A v \in Worlds : ~Copying(v)'
    BY <1>3, ConstantFacts DEF Copying, Inside
  <2> QED
    BY <1>4, <1>7, <2>1 DEF Apart
<1> QED
  BY <1>1, <1>2, <1>4, <1>5, <1>6, <1>7, <1>8 DEF Core

-------------------------------------------------------------------------------
(* A step of world w that queues nothing: it may take from the lists, put  *)
(* itself to sleep and wake others.                                        *)
Usual(w) ==
  /\ Only(w) /\ HandTypes' /\ Core' /\ Msgs' \subseteq Msgs /\ Reps' \subseteq Reps
  /\ cnx'.nextToken = cnx.nextToken /\ msg' = msg /\ moved' = moved /\ sends' = sends
  /\ waitEvent' \in [Worlds -> {"cnx", NoEvent}]
  /\ \A v \in Worlds \ {w} : waitEvent'[v] = NoEvent \/ waitEvent'[v] = waitEvent[v]
  /\ \A v \in Worlds \ {w} : v \in cnx.pollWaiters => v \in cnx'.pollWaiters \/ v \in selected'
  /\ \A v \in Worlds \ {w} : v \in selected => v \in selected'
  /\ freed' \subseteq Buffers /\ selected' \subseteq Worlds /\ destroyed' \in BOOLEAN

(* What is left to show of w itself.                                       *)
OwnTag(w) == (tok'[w] = RPC_TOKEN_INVALID /\ num'[w] = 0) \/ Tag(tok'[w], num'[w])

OwnRole(w) ==
  /\ Sender(w)' => Sender(w) /\ num'[w] = num[w]
  /\ Receiver(w)' => \/ Receiver(w) /\ num'[w] = num[w]
                     \/ \E b \in Msgs \ Msgs' : num'[w] = msg[b].num

Own(w) == OwnTag(w) /\ OwnRole(w) /\ Fits(w)' /\ Slept(w)'

(* What Base says of the connection.                                       *)
LEMMA BaseCore ==
  ASSUME Base
  PROVE  Core /\ TypeOK
  BY DEF Base, Core, TypeOK, CnxType

(* The connection stays right, and no other poller is forgotten.           *)
LEMMA UsualBase ==
  ASSUME Base, NEW w \in Worlds, Usual(w), Polled(w)'
  PROVE  Base'
<1>1. TypeOK'
  BY DEF Base, Usual, TypeOK, HandTypes, Core, CnxType
<1>2. \A v \in Worlds \ {w} : Polled(v)'
  <2> SUFFICES ASSUME NEW v \in Worlds \ {w} PROVE Polled(v)'
    OBVIOUS
  <2>1. Polled(v) /\ pc'[v] = pc[v] /\ moved' = moved /\ Msgs' \subseteq Msgs
    BY DEF Base, Usual, Only
  <2>2. /\ v \in cnx.pollWaiters => v \in cnx'.pollWaiters \/ v \in selected'
        /\ v \in selected => v \in selected'
    BY DEF Usual
  <2> QED
    BY <2>1, <2>2 DEF Polled
<1> QED
  BY <1>1, <1>2 DEF Base, Usual, Core

(* Tokens change hands, and none is new.                                   *)
LEMMA UsualTags ==
  ASSUME TypeOK, Tags, NEW w \in Worlds, Usual(w), OwnTag(w)
  PROVE  Tags'
<1>1. \A k, n : Tag(k, n)' => Tag(k, n) \/ (k = RPC_TOKEN_INVALID /\ n = 0)
  <2> SUFFICES ASSUME NEW k, NEW n, Tag(k, n)' PROVE Tag(k, n) \/ (k = RPC_TOKEN_INVALID /\ n = 0)
    OBVIOUS
  <2>1. CASE \E b \in Buffers : msg'[b].token = k /\ msg'[b].num = n
    BY <2>1 DEF Tag, Usual
  <2>2. CASE \E v \in Worlds : tok'[v] = k /\ num'[v] = n
    BY <2>2 DEF Tag, Usual, Only, OwnTag
  <2> QED
    BY <2>1, <2>2 DEF Tag
<1>2. cnx'.nextToken = cnx.nextToken /\ sends' = sends /\ sends \in Nat
  BY DEF Usual, TypeOK
<1>3. ASSUME NEW k \in Tokens, NEW n \in 0 .. MaxSends, Tag(k, n)'
      PROVE  /\ n <= sends'
             /\ k # RPC_TOKEN_INVALID =>
                  n > 0 /\ cnx'.nextToken # RPC_TOKEN_INVALID /\ k <= cnx'.nextToken
  BY <1>1, <1>2, <1>3 DEF Tags
<1>4. ASSUME NEW k \in Tokens, NEW m \in 0 .. MaxSends, NEW n \in 0 .. MaxSends,
             Tag(k, m)', Tag(k, n)', k # RPC_TOKEN_INVALID
      PROVE  m = n
  BY <1>1, <1>4 DEF Tags
<1> QED
  BY <1>2, <1>3, <1>4 DEF Tags

(* A message that leaves the list has its receiver; no other role is       *)
(* given.                                                                  *)
LEMMA UsualRoles ==
  ASSUME Roles, NEW w \in Worlds, Usual(w), OwnRole(w)
  PROVE  Roles'
<1>1. \A v \in Worlds \ {w} : (Sender(v)' <=> Sender(v)) /\ (Receiver(v)' <=> Receiver(v)) /\ num'[v] = num[v]
  BY DEF Usual, Only, Sender, Receiver
<1>2. Msgs' \subseteq Msgs /\ msg' = msg
  BY DEF Usual
<1>3. /\ \A v, u \in Worlds : Sender(v) /\ Sender(u) /\ num[v] = num[u] => v = u
      /\ Sender(w)' => Sender(w) /\ num'[w] = num[w]
  BY DEF Roles, OwnRole
<1>4. \A v, u \in Worlds : Sender(v)' /\ Sender(u)' /\ num'[v] = num'[u] => v = u
  BY <1>1, <1>3
<1>5. /\ \A v, u \in Worlds : Receiver(v) /\ Receiver(u) /\ num[v] = num[u] => v = u
      /\ \A v \in Worlds : \A b \in Msgs : Receiver(v) => msg[b].num # num[v]
      /\ \A b, c \in Msgs : msg[b].num = msg[c].num => b = c
      /\ Receiver(w)' => \/ Receiver(w) /\ num'[w] = num[w]
                         \/ \E b \in Msgs \ Msgs' : num'[w] = msg[b].num
  BY DEF Roles, OwnRole
<1>6. \A v, u \in Worlds : Receiver(v)' /\ Receiver(u)' /\ num'[v] = num'[u] => v = u
  BY <1>1, <1>5
<1>7. \A v \in Worlds : \A b \in Msgs' : Receiver(v)' => msg'[b].num # num'[v]
  BY <1>1, <1>2, <1>5
<1> QED
  BY <1>2, <1>4, <1>5, <1>6, <1>7 DEF Roles

(* Nothing is queued, so that others sleep on with nothing to take.        *)
LEMMA UsualTraffic ==
  ASSUME Base, Traffic, NEW w \in Worlds, Usual(w), Own(w)
  PROVE  Traffic'
<1>1. Tags' /\ Roles'
  BY UsualTags, UsualRoles DEF Base, Traffic, Own
<1>2. ASSUME NEW v \in Worlds \ {w} PROVE Fits(v)' /\ Slept(v)'
  <2>1. /\ pc'[v] = pc[v] /\ buf'[v] = buf[v] /\ tok'[v] = tok[v] /\ num'[v] = num[v] /\ msg' = msg
        /\ Msgs' \subseteq Msgs /\ Reps' \subseteq Reps
        /\ waitEvent'[v] = NoEvent \/ waitEvent'[v] = waitEvent[v]
    BY DEF Usual, Only
  <2>2. Fits(v) /\ Slept(v)
    BY DEF Traffic
  <2>3. Fits(v)'
    BY <2>1, <2>2 DEF Fits, Sender
  <2>4. Slept(v)'
    BY <2>1, <2>2 DEF Slept, IsWaiting
  <2> QED
    BY <2>3, <2>4
<1> QED
  BY <1>1, <1>2 DEF Traffic, Own

(* A step that does no more to the connection than SameRest allows.        *)
Quiet(w) ==
  /\ Only(w) /\ HandTypes' /\ Core' /\ SameRest /\ Msgs' \subseteq Msgs /\ Reps' \subseteq Reps
  /\ UNCHANGED <<msg, freed, destroyed, moved, selected, sends>>
  /\ waitEvent' = waitEvent \/ Sleep(w)

Kept == Base' /\ (Traffic => Traffic')

(* A quiet step is a usual one.                                            *)
LEMMA QuietUsual ==
  ASSUME TypeOK, NEW w \in Worlds, Quiet(w)
  PROVE  Usual(w)
<1>1. /\ waitEvent' \in [Worlds -> {"cnx", NoEvent}]
      /\ \A v \in Worlds \ {w} : waitEvent'[v] = waitEvent[v]
  BY DEF TypeOK, Quiet, Sleep, WaitOn
<1>2. cnx'.nextToken = cnx.nextToken /\ cnx'.pollWaiters = cnx.pollWaiters
  BY DEF Quiet, SameRest
<1>3. freed' \subseteq Buffers /\ selected' \subseteq Worlds /\ destroyed' \in BOOLEAN
  BY DEF TypeOK, Quiet
<1> QED
  BY <1>1, <1>2, <1>3 DEF Quiet, Usual

(* A world that is neither sender nor poller is owed nothing by the        *)
(* pollers.                                                                *)
LEMMA PolledOwn ==
  ASSUME Base, NEW w \in Worlds, pc[w] # "notify", moved' = moved, pc'[w] # "polling"
  PROVE  Polled(w)'
<1>1. moved[w] = {}
  BY DEF Base, Polled
<1> QED
  BY <1>1 DEF Polled

(* Only who waits for a message or a reply is asleep.                      *)
LEMMA Resting ==
  ASSUME Traffic, NEW w \in Worlds, pc[w] \notin {"msgWait", "repWait"} \/ Awake(w)
  PROVE  waitEvent[w] = NoEvent
  BY DEF Traffic, Slept, IsWaiting, Awake

(* A world that has returned holds no token and plays no role.             *)
LEMMA DoneOwn ==
  ASSUME TypeOK, NEW w \in Worlds, Done(w), waitEvent'[w] = NoEvent
  PROVE  Own(w)
<1>1. pc'[w] = "idle" /\ tok'[w] = RPC_TOKEN_INVALID /\ num'[w] = 0
  BY DoneFacts
<1> QED
  BY <1>1 DEF Own, OwnTag, OwnRole, Sender, Receiver, Fits, Slept, IsWaiting

(* A call returns, or a world gives up what it had in mind.                *)
LEMMA DoneStep ==
  ASSUME Base, NEW w \in Worlds, Quiet(w), Done(w), pc[w] # "notify", waitEvent' = waitEvent,
         pc[w] \notin {"msgWait", "repWait"} \/ Awake(w)
  PROVE  Kept
<1>1. Usual(w) /\ pc'[w] = "idle" /\ moved' = moved
  BY QuietUsual, DoneFacts, BaseCore DEF Quiet
<1>2. Base'
  BY <1>1, PolledOwn, UsualBase
<1>3. ASSUME Traffic PROVE Traffic'
  BY <1>1, <1>3, Resting, DoneOwn, UsualTraffic, BaseCore
<1> QED
  BY <1>2, <1>3 DEF Kept

(* The ends of the calls, those after a fault included.                    *)
LEMMA ReturnSteps ==
  ASSUME Base, NEW w \in Worlds,
         CopyInFailed(w) \/ MsgCopyFailed(w) \/ ReplyCopied(w) \/ ReplyDisconnected(w)
         \/ WaitGivenUp(w) \/ NoReply(w)
  PROVE  Kept
<1>1. Core /\ TypeOK
  BY BaseCore
<1>2. /\ Done(w) /\ waitEvent' = waitEvent /\ UNCHANGED <<msg, freed, destroyed, moved, selected, sends>>
      /\ pc[w] # "notify" /\ (pc[w] \notin {"msgWait", "repWait"} \/ Awake(w))
  BY DEF CopyInFailed, MsgCopyFailed, ReplyCopied, ReplyDisconnected, WaitGivenUp, NoReply
<1>3. Only(w) /\ HandTypes' /\ pc'[w] = "idle" /\ pc'[w] \notin InsidePCs /\ pc'[w] \notin CopyPCs
  BY <1>1, <1>2, DoneFacts DEF InsidePCs, CopyPCs
<1>4. Core' /\ SameRest /\ Msgs' = Msgs /\ Reps' = Reps
  <2>1. CASE CopyInFailed(w) \/ MsgCopyFailed(w) \/ ReplyCopied(w)
    <3>1. pc[w] \in CopyPCs /\ cnx' = FreeAndLeave(buf[w])
      BY <2>1 DEF CopyInFailed, MsgCopyFailed, ReplyCopied, CopyPCs
    <3> QED
      BY <1>1, <1>2, <1>3, <3>1, CoreGiveFree
  <2>2. CASE ReplyDisconnected(w)
    <3>1. pc[w] \in InsidePCs /\ cnx.pendingDestroy /\ cnx' = Leave
      BY <2>2 DEF ReplyDisconnected, CopyPCs, InsidePCs
    <3> QED
      BY <1>1, <1>2, <1>3, <3>1, CoreLeave
  <2>3. CASE WaitGivenUp(w)
    <3>1. pc[w] \in InsidePCs /\ pc[w] \notin CopyPCs /\ cnx' = Leave
      BY <2>3 DEF WaitGivenUp, CopyPCs, InsidePCs
    <3> QED
      BY <1>1, <1>2, <1>3, <3>1, CoreLeave
  <2>4. CASE NoReply(w)
    <3>1. pc[w] \notin InsidePCs /\ pc[w] \notin CopyPCs /\ cnx' = cnx
      BY <2>4 DEF NoReply, CopyPCs, InsidePCs
    <3>2. cnx \in CnxType
      BY <1>1 DEF Core
    <3> QED
      BY <1>1, <1>2, <1>3, <3>1, <3>2, CoreStay DEF SameRest
  <2> QED
    BY <2>1, <2>2, <2>3, <2>4
<1>5. Quiet(w)
  BY <1>2, <1>3, <1>4 DEF Quiet
<1> QED
  BY <1>2, <1>5, DoneStep

(* A call that goes on.                                                    *)
LEMMA GoOn ==
  ASSUME Base, NEW w \in Worlds, Quiet(w), pc[w] # "notify", pc'[w] # "polling", Traffic => Own(w)
  PROVE  Kept
<1>1. Usual(w) /\ moved' = moved
  BY QuietUsual, BaseCore DEF Quiet
<1>2. Base'
  BY <1>1, PolledOwn, UsualBase
<1>3. ASSUME Traffic PROVE Traffic'
  BY <1>1, <1>3, UsualTraffic
<1> QED
  BY <1>2, <1>3 DEF Kept

(* The buffers of a sender and of a server that answers.                   *)
LEMMA AllocSteps ==
  ASSUME Base, NEW w \in Worlds, RPC_Send(w) \/ RPC_PostReply(w)
  PROVE  Kept
<1>1. Core /\ TypeOK
  BY BaseCore
<1>2. PICK to \in {"sendCopy", "replyCopy"}, n \in 0 .. MaxSends :
        /\ At(w, to, Head(cnx.freeList), tok[w], n) /\ cnx' = EnterWithBuffer /\ cnx.freeList # <<>>
        /\ ~destroyed /\ waitEvent' = waitEvent /\ UNCHANGED <<msg, freed, destroyed, moved, selected, sends>>
        /\ \/ to = "sendCopy" /\ pc[w] = "idle" /\ n = 0
           \/ to = "replyCopy" /\ pc[w] = "serving" /\ n = num[w]
  <2>1. CASE RPC_Send(w)
    BY <2>1, ConstantFacts DEF RPC_Send, CanEnter
  <2>2. CASE RPC_PostReply(w)
    <3>1. num[w] \in 0 .. MaxSends
      BY <1>1 DEF TypeOK
    <3> QED
      BY <2>2, <3>1 DEF RPC_PostReply, CanEnter
  <2> QED
    BY <2>1, <2>2
<1>3. Head(cnx.freeList) \in Buffers
  BY <1>1, <1>2, SeqTake DEF Core, CnxType, Listing
<1>4. to \in PCs /\ to \in CopyPCs /\ tok[w] \in Tokens /\ pc[w] \notin InsidePCs
  BY <1>1, <1>2 DEF PCs, InsidePCs, CopyPCs, TypeOK
<1>5. /\ Only(w) /\ HandTypes' /\ pc'[w] = to /\ buf'[w] = Head(cnx.freeList)
      /\ tok'[w] = tok[w] /\ num'[w] = n
  BY <1>1, <1>2, <1>3, <1>4, AtFacts
<1>6. Core' /\ SameRest /\ Msgs' = Msgs /\ Reps' = Reps
  BY <1>1, <1>2, <1>4, <1>5, CoreTakeFree
<1>7. Quiet(w)
  BY <1>2, <1>5, <1>6 DEF Quiet
<1>8. ASSUME Traffic PROVE Own(w)
  <2>1. waitEvent'[w] = NoEvent
    BY <1>2, <1>8, Resting
  <2>2. Fits(w)
    BY <1>8 DEF Traffic
  <2>3. OwnTag(w)
    BY <1>2, <1>5, <2>2 DEF OwnTag, Tag, Fits
  <2>4. OwnRole(w) /\ Fits(w)'
    BY <1>2, <1>5 DEF OwnRole, Sender, Receiver, Fits
  <2> QED
    BY <2>1, <2>3, <2>4 DEF Own, Slept, IsWaiting
<1> QED
  BY <1>2, <1>5, <1>7, <1>8, GoOn

(* The receiver of a message, between its two copies and after them.       *)
LEMMA CopySteps ==
  ASSUME Base, NEW w \in Worlds, MsgCopied(w) \/ MsgReceived(w)
  PROVE  Kept
<1>1. Core /\ TypeOK /\ buf[w] \in Buffers \cup {0} /\ tok[w] \in Tokens /\ num[w] \in 0 .. MaxSends
  BY BaseCore DEF TypeOK
<1>2. CASE MsgCopied(w)
  <2>1. /\ At(w, "infoCopy", buf[w], tok[w], num[w]) /\ cnx' = cnx /\ pc[w] = "msgCopy"
        /\ waitEvent' = waitEvent /\ UNCHANGED <<msg, freed, destroyed, moved, selected, sends>>
    BY <1>2 DEF MsgCopied
  <2>2. "infoCopy" \in PCs /\ "infoCopy" \in CopyPCs /\ "infoCopy" \in InsidePCs
        /\ "msgCopy" \in CopyPCs /\ "msgCopy" \in InsidePCs
    BY DEF PCs, InsidePCs, CopyPCs
  <2>3. /\ Only(w) /\ HandTypes' /\ pc'[w] = "infoCopy" /\ buf'[w] = buf[w]
        /\ tok'[w] = tok[w] /\ num'[w] = num[w]
    BY <1>1, <2>1, <2>2, AtFacts
  <2>4. cnx \in CnxType
    BY <1>1 DEF Core
  <2>5. Core' /\ SameRest /\ Msgs' = Msgs /\ Reps' = Reps
    BY <1>1, <2>1, <2>2, <2>3, <2>4, CoreStay DEF SameRest
  <2>6. Quiet(w)
    BY <2>1, <2>3, <2>5 DEF Quiet
  <2>7. ASSUME Traffic PROVE Own(w)
    <3>1. waitEvent'[w] = NoEvent
      BY <2>1, <2>7, Resting
    <3>2. OwnTag(w) /\ OwnRole(w) /\ Fits(w)'
      BY <2>1, <2>3 DEF OwnTag, Tag, OwnRole, Sender, Receiver, Fits
    <3> QED
      BY <3>1, <3>2 DEF Own, Slept, IsWaiting
  <2> QED
    BY <2>1, <2>3, <2>6, <2>7, GoOn
<1>3. CASE MsgReceived(w)
  <2>1. /\ Done(w) \/ At(w, "serving", 0, tok[w], num[w])
        /\ cnx' = FreeAndLeave(buf[w]) /\ pc[w] = "infoCopy" /\ pc[w] \in CopyPCs
        /\ waitEvent' = waitEvent /\ UNCHANGED <<msg, freed, destroyed, moved, selected, sends>>
    BY <1>3 DEF MsgReceived, CopyPCs
  <2>2. "serving" \in PCs /\ "serving" \notin InsidePCs /\ "idle" \notin InsidePCs
    BY DEF PCs, InsidePCs, CopyPCs
  <2>3. /\ Only(w) /\ HandTypes' /\ pc'[w] \notin InsidePCs /\ pc'[w] # "polling"
        /\ At(w, "serving", 0, tok[w], num[w]) =>
             pc'[w] = "serving" /\ tok'[w] = tok[w] /\ num'[w] = num[w]
    <3>1. CASE Done(w)
      <4>1. Only(w) /\ HandTypes' /\ pc'[w] = "idle"
        BY <1>1, <3>1, DoneFacts
      <4>2. ~At(w, "serving", 0, tok[w], num[w])
        <5>1. pc \in [Worlds -> PCs]
          BY <1>1 DEF TypeOK
        <5> QED
          BY <4>1, <5>1 DEF At
      <4> QED
        BY <2>2, <4>1, <4>2
    <3>2. CASE At(w, "serving", 0, tok[w], num[w])
      BY <1>1, <2>2, <3>2, AtFacts, ConstantFacts
    <3> QED
      BY <2>1, <3>1, <3>2
  <2>4. Core' /\ SameRest /\ Msgs' = Msgs /\ Reps' = Reps
    BY <1>1, <2>1, <2>3, CoreGiveFree
  <2>5. Quiet(w)
    BY <2>1, <2>3, <2>4 DEF Quiet
  <2>6. ASSUME Traffic PROVE Own(w)
    <3>1. waitEvent'[w] = NoEvent
      BY <2>1, <2>6, Resting
    <3>2. CASE Done(w)
      BY <1>1, <3>1, <3>2, DoneOwn
    <3>3. CASE At(w, "serving", 0, tok[w], num[w])
      <4>1. OwnTag(w) /\ OwnRole(w) /\ Fits(w)'
        BY <2>1, <2>3, <3>3 DEF OwnTag, Tag, OwnRole, Sender, Receiver, Fits
      <4> QED
        BY <3>1, <4>1 DEF Own, Slept, IsWaiting
    <3> QED
      BY <2>1, <3>2, <3>3
  <2> QED
    BY <2>1, <2>3, <2>5, <2>6, GoOn
<1> QED
  BY <1>2, <1>3

(* RPCGetMsg finds no message and sleeps ...                               *)
LEMMA GetMsgSleeps ==
  ASSUME Base, NEW w \in Worlds, cnx.messageList = <<>>, Sleep(w),
         UNCHANGED <<msg, freed, destroyed, moved, selected, sends>>,
         \/ pc[w] = "idle" /\ CanEnter /\ cnx' = Enter /\ At(w, "msgWait", 0, tok[w], 0)
         \/ pc[w] = "msgWait" /\ UNCHANGED <<cnx, pc, buf, tok, num>>
  PROVE  Kept
<1>1. Core /\ TypeOK /\ HandTypes /\ tok[w] \in Tokens
  BY BaseCore DEF TypeOK, HandTypes
<1>2. /\ "msgWait" \in PCs /\ "msgWait" \in InsidePCs \ CopyPCs /\ "idle" \notin InsidePCs
  BY DEF PCs, InsidePCs, CopyPCs
<1>3. PICK c : Entering(w, c) /\ cnx' = c
  BY <1>2 DEF Entering, CanEnter
<1>4. /\ Only(w) /\ HandTypes' /\ pc'[w] = "msgWait" /\ tok'[w] = tok[w]
      /\ (pc[w] = "idle" /\ num'[w] = 0) \/ (pc[w] = "msgWait" /\ num'[w] = num[w])
  <2>1. CASE pc[w] = "idle" /\ At(w, "msgWait", 0, tok[w], 0)
    BY <1>1, <1>2, <2>1, AtFacts, ConstantFacts
  <2>2. CASE pc[w] = "msgWait" /\ UNCHANGED <<cnx, pc, buf, tok, num>>
    BY <1>1, <2>2 DEF Only, HandTypes
  <2> QED
    BY <2>1, <2>2
<1>5. Core' /\ SameRest /\ Msgs' = Msgs /\ Reps' = Reps
  BY <1>1, <1>2, <1>3, <1>4, CoreEnter
<1>6. Msgs' = {}
  BY <1>5, SeqEmpty DEF Msgs
<1>7. Quiet(w)
  BY <1>4, <1>5 DEF Quiet
<1>8. ASSUME Traffic PROVE Own(w)
  <2>1. Fits(w)
    BY <1>8 DEF Traffic
  <2>2. OwnTag(w)
    BY <1>4, <2>1 DEF OwnTag, Tag, Fits
  <2>3. OwnRole(w) /\ Fits(w)' /\ Slept(w)'
    BY <1>4, <1>6 DEF OwnRole, Sender, Receiver, Fits, Slept
  <2> QED
    BY <2>2, <2>3 DEF Own
<1> QED
  BY <1>4, <1>7, <1>8, GoOn

(* ... or takes the first.                                                 *)
LEMMA GetMsgTakes ==
  ASSUME Base, NEW w \in Worlds, cnx.messageList # <<>>, waitEvent' = waitEvent,
         UNCHANGED <<msg, freed, destroyed, moved, selected, sends>>,
         NEW c, \/ pc[w] = "idle" /\ CanEnter /\ c = Enter
                \/ pc[w] = "msgWait" /\ Awake(w) /\ c = cnx,
         cnx' = TakeMessage(c),
         At(w, "msgCopy", FirstMessage, msg[FirstMessage].token, msg[FirstMessage].num)
  PROVE  Kept
<1>1. Core /\ TypeOK
  BY BaseCore
<1>2. /\ "msgCopy" \in PCs /\ "msgCopy" \in CopyPCs /\ "idle" \notin InsidePCs
      /\ "msgWait" \in InsidePCs \ CopyPCs
  BY DEF PCs, InsidePCs, CopyPCs
<1>3. PICK b \in Buffers : b = FirstMessage
  BY <1>1, SeqTake DEF Core, CnxType, Listing, FirstMessage
<1>4. PICK k \in Tokens, n \in 0 .. MaxSends : k = msg[b].token /\ n = msg[b].num
  BY <1>1 DEF TypeOK
<1>5. Only(w) /\ HandTypes' /\ pc'[w] = "msgCopy" /\ buf'[w] = b /\ tok'[w] = k /\ num'[w] = n
  BY <1>1, <1>2, <1>3, <1>4, AtFacts
<1>6. Entering(w, c)
  BY <1>2 DEF Entering, CanEnter
<1>7. Core' /\ SameRest /\ Reps' = Reps /\ b \in Msgs /\ Msgs' = Msgs \ {b}
  BY <1>1, <1>2, <1>3, <1>5, <1>6, CoreTakeMsg
<1>8. Quiet(w)
  BY <1>5, <1>7 DEF Quiet
<1>9. ASSUME Traffic PROVE Own(w)
  <2>1. waitEvent'[w] = NoEvent
    BY <1>9, Resting
  <2>2. OwnTag(w)
    BY <1>4, <1>5 DEF OwnTag, Tag
  <2>3. OwnRole(w)
    BY <1>4, <1>5, <1>7 DEF OwnRole, Sender, Receiver
  <2>4. Fits(w)'
    BY <1>5 DEF Fits, Sender
  <2> QED
    BY <2>1, <2>2, <2>3, <2>4 DEF Own, Slept, IsWaiting
<1> QED
  BY <1>5, <1>8, <1>9, GoOn

(* RPCGetMsg, at its beginning and after a wakeup.                         *)
LEMMA GetMsgSteps ==
  ASSUME Base, NEW w \in Worlds, RPCGetMsg(w) \/ GetMsgRetry(w)
  PROVE  Kept
<1>1. CASE cnx.messageList = <<>>
  BY <1>1, GetMsgSleeps DEF RPCGetMsg, GetMsgRetry
<1>2. CASE cnx.messageList # <<>>
  BY <1>2, GetMsgTakes DEF RPCGetMsg, GetMsgRetry
<1> QED
  BY <1>1, <1>2

(* RPC_GetReply finds no reply to its message and sleeps ...               *)
LEMMA GetReplySleeps ==
  ASSUME Base, NEW w \in Worlds, RepliesTo(w) = {}, Sleep(w),
         UNCHANGED <<msg, freed, destroyed, moved, selected, sends>>,
         \/ pc[w] = "sent" /\ CanEnter /\ cnx' = Enter /\ At(w, "repWait", 0, tok[w], num[w])
         \/ pc[w] = "repWait" /\ UNCHANGED <<cnx, pc, buf, tok, num>>
  PROVE  Kept
<1>1. Core /\ TypeOK /\ HandTypes /\ tok[w] \in Tokens /\ num[w] \in 0 .. MaxSends
  BY BaseCore DEF TypeOK, HandTypes
<1>2. /\ "repWait" \in PCs /\ "repWait" \in InsidePCs \ CopyPCs /\ "sent" \notin InsidePCs
  BY DEF PCs, InsidePCs, CopyPCs
<1>3. PICK c : Entering(w, c) /\ cnx' = c
  BY <1>2 DEF Entering, CanEnter
<1>4. /\ Only(w) /\ HandTypes' /\ pc'[w] = "repWait" /\ tok'[w] = tok[w] /\ num'[w] = num[w]
      /\ pc[w] \in {"sent", "repWait"}
  <2>1. CASE pc[w] = "sent" /\ At(w, "repWait", 0, tok[w], num[w])
    BY <1>1, <1>2, <2>1, AtFacts, ConstantFacts
  <2>2. CASE pc[w] = "repWait" /\ UNCHANGED <<cnx, pc, buf, tok, num>>
    BY <1>1, <2>2 DEF Only, HandTypes
  <2> QED
    BY <2>1, <2>2
<1>5. Core' /\ SameRest /\ Msgs' = Msgs /\ Reps' = Reps
  BY <1>1, <1>2, <1>3, <1>4, CoreEnter
<1>6. \A b \in Reps' : msg'[b].token # tok'[w]
  <2>1. \A i \in 1 .. Len(cnx.replyList) : msg[cnx.replyList[i]].token # tok[w]
    BY DEF RepliesTo
  <2>2. DOMAIN cnx.replyList = 1 .. Len(cnx.replyList)
    BY <1>1, LenProperties DEF Core, CnxType
  <2>3. \A b \in Reps : msg[b].token # tok[w]
    BY <2>1, <2>2 DEF Reps, Elems
  <2> QED
    BY <1>4, <1>5, <2>3
<1>7. Quiet(w)
  BY <1>4, <1>5 DEF Quiet
<1>8. ASSUME Traffic PROVE Own(w)
  <2>1. Fits(w)
    BY <1>8 DEF Traffic
  <2>2. OwnTag(w) /\ OwnRole(w)
    BY <1>4 DEF OwnTag, Tag, OwnRole, Sender, Receiver
  <2>3. Fits(w)'
    BY <1>4, <2>1 DEF Fits, Sender
  <2>4. Slept(w)'
    BY <1>4, <1>6 DEF Slept
  <2> QED
    BY <2>2, <2>3, <2>4 DEF Own
<1> QED
  BY <1>4, <1>7, <1>8, GoOn

(* ... or takes the first to it.                                           *)
LEMMA GetReplyTakes ==
  ASSUME Base, NEW w \in Worlds, RepliesTo(w) # {}, NEW c, TakeReply(w, c),
         UNCHANGED <<msg, freed, destroyed, moved, selected, sends>>,
         \/ pc[w] = "sent" /\ CanEnter /\ c = Enter
         \/ pc[w] = "repWait" /\ Awake(w) /\ c = cnx
  PROVE  Kept
<1>1. Core /\ TypeOK /\ tok[w] \in Tokens /\ num[w] \in 0 .. MaxSends
  BY BaseCore DEF TypeOK
<1>2. /\ "repCopy" \in PCs /\ "repCopy" \in CopyPCs /\ "sent" \notin InsidePCs
      /\ "repWait" \in InsidePCs \ CopyPCs
  BY DEF PCs, InsidePCs, CopyPCs
<1>3. PICK b \in Buffers : b = cnx.replyList[FirstReply(w)]
  <2>1. FirstReply(w) \in 1 .. Len(cnx.replyList)
    BY <1>1, FirstReplyFacts
  <2> QED
    BY <1>1, <2>1, ElementOfSeq DEF Core, CnxType
<1>4. /\ cnx' = [c EXCEPT !.replyList = RemoveAt(@, FirstReply(w)), !.nQueuedMessages = @ - 1]
      /\ At(w, "repCopy", b, tok[w], num[w]) /\ waitEvent' = waitEvent
  BY <1>3 DEF TakeReply
<1>5. Only(w) /\ HandTypes' /\ pc'[w] = "repCopy" /\ buf'[w] = b /\ tok'[w] = tok[w] /\ num'[w] = num[w]
  BY <1>1, <1>2, <1>4, AtFacts
<1>6. Entering(w, c)
  BY <1>2 DEF Entering, CanEnter
<1>7. Core' /\ SameRest /\ Msgs' = Msgs /\ Reps' = Reps \ {b} /\ msg[b].token = tok[w]
  BY <1>1, <1>2, <1>3, <1>4, <1>5, <1>6, CoreTakeReply
<1>8. Quiet(w)
  BY <1>4, <1>5, <1>7 DEF Quiet
<1>9. ASSUME Traffic PROVE Own(w)
  <2>1. waitEvent'[w] = NoEvent
    BY <1>4, <1>9, Resting
  <2>2. Fits(w) /\ pc[w] \in {"sent", "repWait"}
    BY <1>9 DEF Traffic
  <2>3. OwnTag(w) /\ OwnRole(w)
    BY <1>5, <2>2 DEF OwnTag, Tag, OwnRole, Sender, Receiver
  <2>4. Fits(w)'
    BY <1>5, <1>7, <2>2 DEF Fits, Sender
  <2> QED
    BY <2>1, <2>3, <2>4 DEF Own, Slept, IsWaiting
<1> QED
  BY <1>5, <1>8, <1>9, GoOn

(* RPC_GetReply, at its beginning and after a wakeup.                      *)
LEMMA GetReplySteps ==
  ASSUME Base, NEW w \in Worlds, RPC_GetReply(w) \/ GetReplyRetry(w)
  PROVE  Kept
<1>1. CASE RepliesTo(w) = {}
  BY <1>1, GetReplySleeps DEF RPC_GetReply, GetReplyRetry
<1>2. CASE RepliesTo(w) # {}
  BY <1>2, GetReplyTakes DEF RPC_GetReply, GetReplyRetry
<1> QED
  BY <1>1, <1>2

-------------------------------------------------------------------------------
(* A poller comes and goes.                                                *)
LEMMA PollSteps ==
  ASSUME Base, NEW w \in Worlds, RPC_Poll(w) \/ RPC_PollCleanup(w)
  PROVE  Kept
<1>1. Core /\ TypeOK /\ tok[w] \in Tokens /\ cnx \in CnxType
  BY BaseCore DEF TypeOK, CnxType
<1>2. "polling" \in PCs /\ "polling" \notin InsidePCs /\ "idle" \notin InsidePCs /\ CopyPCs \subseteq InsidePCs
  BY DEF PCs, InsidePCs, CopyPCs
<1>3. PICK P \in SUBSET Worlds :
        /\ cnx' = [cnx EXCEPT !.pollWaiters = P]
        /\ \A v \in Worlds \ {w} : v \in cnx.pollWaiters => v \in P
        /\ RPC_Poll(w) => w \in P
  <2>1. CASE RPC_Poll(w)
    <3>1. cnx' = [cnx EXCEPT !.pollWaiters = cnx.pollWaiters \cup {w}]
      BY <2>1 DEF RPC_Poll
    <3> QED
      BY <1>1, <3>1 DEF CnxType
  <2>2. CASE RPC_PollCleanup(w) /\ CanEnter
    <3>1. cnx' = [cnx EXCEPT !.pollWaiters = cnx.pollWaiters \ {w}] /\ ~RPC_Poll(w)
      BY <2>2 DEF RPC_PollCleanup, RPC_Poll
    <3> QED
      BY <1>1, <3>1 DEF CnxType
  <2>3. CASE RPC_PollCleanup(w) /\ ~CanEnter
    <3>1. cnx' = cnx /\ ~RPC_Poll(w)
      BY <2>3 DEF RPC_PollCleanup, RPC_Poll
    <3>2. cnx = [cnx EXCEPT !.pollWaiters = cnx.pollWaiters]
      BY <1>1 DEF CnxType
    <3> QED
      BY <1>1, <3>1, <3>2 DEF CnxType
  <2> QED
    BY <2>1, <2>2, <2>3
<1>4. /\ cnx' \in CnxType /\ cnx'.messageList = cnx.messageList /\ cnx'.replyList = cnx.replyList
      /\ cnx'.freeList = cnx.freeList /\ cnx'.nQueuedMessages = cnx.nQueuedMessages
      /\ cnx'.mask = cnx.mask /\ cnx'.useCount = cnx.useCount /\ cnx'.nextToken = cnx.nextToken
      /\ cnx'.pendingDestroy = cnx.pendingDestroy /\ cnx'.pollWaiters = P
  BY <1>1, <1>3 DEF CnxType
<1>5. /\ UNCHANGED <<msg, freed, destroyed, waitEvent, moved, sends>> /\ pc[w] \notin InsidePCs
      /\ pc[w] \in {"idle", "polling"}
      /\ \A v \in Worlds \ {w} : v \in selected => v \in selected'
      /\ selected' \subseteq Worlds
  BY <1>1, <1>2 DEF RPC_Poll, RPC_PollCleanup, TypeOK
<1>6. /\ Only(w) /\ HandTypes' /\ pc'[w] \notin InsidePCs
      /\ \/ pc'[w] = "polling" /\ tok'[w] = tok[w] /\ num'[w] = 0 /\ RPC_Poll(w)
         \/ Done(w) /\ pc'[w] = "idle"
  <2>1. CASE RPC_Poll(w)
    <3>1. At(w, "polling", 0, tok[w], 0)
      BY <2>1 DEF RPC_Poll
    <3>2. Only(w) /\ HandTypes' /\ pc'[w] = "polling" /\ tok'[w] = tok[w] /\ num'[w] = 0
      BY <1>1, <1>2, <3>1, AtFacts, ConstantFacts
    <3> QED
      BY <1>2, <2>1, <3>2
  <2>2. CASE RPC_PollCleanup(w)
    <3>1. Done(w)
      BY <2>2 DEF RPC_PollCleanup
    <3> QED
      BY <1>1, <1>2, <3>1, DoneFacts
  <2> QED
    BY <2>1, <2>2
<1>7. Core' /\ Msgs' = Msgs /\ Reps' = Reps
  BY <1>1, <1>2, <1>4, <1>5, <1>6, CoreStay
<1>8. Usual(w)
  BY <1>1, <1>3, <1>4, <1>5, <1>6, <1>7 DEF Usual, TypeOK
<1>9. Polled(w)'
  <2>1. CASE pc'[w] = "idle"
    BY <1>5, <2>1, PolledOwn
  <2>2. CASE pc'[w] = "polling" /\ RPC_Poll(w)
    <3>1. w \in cnx'.pollWaiters /\ Msgs' = {}
      BY <1>3, <1>4, <1>7, <2>2, SeqEmpty DEF RPC_Poll, Msgs
    <3>2. moved'[w] = {}
      BY <1>5 DEF Base, Polled
    <3> QED
      BY <3>1, <3>2 DEF Polled
  <2> QED
    BY <1>6, <2>1, <2>2
<1>10. ASSUME Traffic PROVE Own(w)
  <2>1. waitEvent'[w] = NoEvent
    BY <1>5, <1>10, Resting
  <2>2. CASE Done(w)
    BY <1>1, <2>1, <2>2, DoneOwn
  <2>3. CASE pc'[w] = "polling" /\ tok'[w] = tok[w] /\ num'[w] = 0 /\ RPC_Poll(w)
    <3>1. tok[w] = RPC_TOKEN_INVALID
      BY <1>10, <2>3 DEF Traffic, Fits, RPC_Poll
    <3> QED
      BY <2>1, <2>3, <3>1 DEF Own, OwnTag, OwnRole, Sender, Receiver, Fits, Slept, IsWaiting
  <2> QED
    BY <1>6, <2>2, <2>3
<1>11. Base'
  BY <1>8, <1>9, UsualBase
<1>12. ASSUME Traffic PROVE Traffic'
  BY <1>8, <1>10, <1>12, UsualTraffic
<1> QED
  BY <1>11, <1>12 DEF Kept

(* The destroyer turns callers away and waits, or removes the connection.  *)
LEMMA DestroySteps ==
  ASSUME Base, NEW w \in Worlds, RPCUnregister(w) \/ UnregisterRetry(w)
  PROVE  Kept
<1>1. Core /\ TypeOK /\ tok[w] \in Tokens /\ cnx \in CnxType
  BY BaseCore DEF TypeOK, CnxType
<1>2. "closing" \in PCs /\ "closing" \notin InsidePCs /\ "idle" \notin InsidePCs /\ CopyPCs \subseteq InsidePCs
  BY DEF PCs, InsidePCs, CopyPCs
<1>3. UnregisterLoop(w) /\ UNCHANGED <<msg, moved, sends>> /\ pc[w] \in {"idle", "closing"}
  BY DEF RPCUnregister, UnregisterRetry
<1>4. pc[w] \notin InsidePCs /\ pc[w] \notin CopyPCs
  BY <1>2, <1>3
<1>5. /\ Usual(w) /\ pc'[w] \in {"idle", "closing"}
      /\ Traffic => Own(w)
  <2>1. CASE cnx.useCount > 1 /\ cnx' = [cnx EXCEPT !.pendingDestroy = TRUE] /\ WakeAll
             /\ At(w, "closing", 0, tok[w], 0) /\ UNCHANGED <<freed, destroyed, selected>>
    <3>1. /\ cnx' \in CnxType /\ cnx'.messageList = cnx.messageList /\ cnx'.replyList = cnx.replyList
          /\ cnx'.freeList = cnx.freeList /\ cnx'.nQueuedMessages = cnx.nQueuedMessages
          /\ cnx'.mask = cnx.mask /\ cnx'.useCount = cnx.useCount /\ cnx'.nextToken = cnx.nextToken
          /\ cnx'.pendingDestroy /\ cnx'.pollWaiters = cnx.pollWaiters
      BY <1>1, <2>1 DEF CnxType
    <3>2. Only(w) /\ HandTypes' /\ pc'[w] = "closing" /\ tok'[w] = tok[w] /\ num'[w] = 0
      BY <1>1, <1>2, <2>1, AtFacts, ConstantFacts
    <3>3. Core' /\ Msgs' = Msgs /\ Reps' = Reps
      BY <1>1, <1>2, <1>4, <2>1, <3>1, <3>2, CoreStay
    <3>4. waitEvent' \in [Worlds -> {"cnx", NoEvent}] /\ \A v \in Worlds : waitEvent'[v] = NoEvent
      BY <1>1, <2>1 DEF WakeAll, Wakeup, TypeOK
    <3>5. Usual(w)
      BY <1>1, <1>3, <2>1, <3>1, <3>2, <3>3, <3>4 DEF Usual, TypeOK
    <3>6. ASSUME Traffic PROVE Own(w)
      <4>1. tok[w] = RPC_TOKEN_INVALID
        BY <1>3, <3>6 DEF Traffic, Fits
      <4> QED
        BY <3>2, <3>4, <4>1 DEF Own, OwnTag, OwnRole, Sender, Receiver, Fits, Slept, IsWaiting
    <3> QED
      BY <3>2, <3>5, <3>6
  <2>2. CASE cnx.useCount = 1 /\ RPCRemoveAndUnlockCnx /\ Done(w) /\ UNCHANGED waitEvent
    <3>1. Only(w) /\ HandTypes' /\ pc'[w] = "idle"
      BY <1>1, <2>2, DoneFacts
    <3>2. Core' /\ Msgs' = {} /\ Reps' = {} /\ destroyed' = TRUE /\ cnx'.nextToken = cnx.nextToken
      BY <1>1, <1>2, <1>4, <2>2, <3>1, CoreRemove DEF RPCRemoveAndUnlockCnx
    <3>3. selected' = selected \cup cnx.pollWaiters /\ selected' \subseteq Worlds
      BY <1>1, <2>2 DEF RPCRemoveAndUnlockCnx, TypeOK, CnxType
    <3>4. freed' \subseteq Buffers
      <4>1. PICK l : l = cnx.messageList \o cnx.replyList \o cnx.freeList
        OBVIOUS
      <4>2. l \in Seq(Buffers)
        BY <1>1, <4>1 DEF CnxType
      <4>3. \A i \in DOMAIN l : l[i] \in Buffers
        BY <4>2, LenProperties, ElementOfSeq
      <4>4. freed' = freed \cup {l[i] : i \in DOMAIN l}
        BY <2>2, <4>1 DEF RPCRemoveAndUnlockCnx
      <4> QED
        BY <1>1, <4>3, <4>4 DEF TypeOK
    <3>5. Usual(w)
      BY <1>1, <1>3, <2>2, <3>1, <3>2, <3>3, <3>4 DEF Usual, TypeOK
    <3>6. ASSUME Traffic PROVE Own(w)
      BY <1>1, <1>3, <2>2, <3>6, Resting, DoneOwn
    <3> QED
      BY <3>1, <3>5, <3>6
  <2> QED
    BY <1>3, <2>1, <2>2 DEF UnregisterLoop
<1>6. Base'
  <2>1. moved' = moved /\ pc[w] # "notify" /\ pc'[w] # "polling"
    BY <1>3, <1>5
  <2> QED
    BY <1>5, <2>1, PolledOwn, UsualBase
<1>7. ASSUME Traffic PROVE Traffic'
  BY <1>5, <1>7, UsualTraffic
<1> QED
  BY <1>6, <1>7 DEF Kept

(* A timeout wakes everyone.                                               *)
LEMMA TimeoutStep ==
  ASSUME Base, TimeoutCallback
  PROVE  Kept
<1>1. /\ UNCHANGED <<cnx, msg, freed, destroyed, pc, buf, tok, num, moved, selected, sends>>
      /\ waitEvent' \in [Worlds -> {"cnx", NoEvent}] /\ \A v \in Worlds : waitEvent'[v] = NoEvent
  BY DEF TimeoutCallback, WakeAll, Wakeup, Base, TypeOK, local
<1>2. Msgs' = Msgs /\ Reps' = Reps /\ Frees' = Frees /\ Inside' = Inside
  BY <1>1 DEF Msgs, Reps, Frees, Inside
<1>3. Base'
  <2>1. TypeOK'
    BY <1>1 DEF Base, TypeOK
  <2>2. Counted' /\ Listing' /\ Apart'
    BY <1>1, <1>2 DEF Base, Counted, Listing, SummariesExact, Apart, Copying
  <2>3. \A w \in Worlds : Polled(w)'
    BY <1>1, <1>2 DEF Base, Polled
  <2> QED
    BY <2>1, <2>2, <2>3 DEF Base
<1>4. ASSUME Traffic PROVE Traffic'
  <2>1. Tags'
    BY <1>1, <1>4 DEF Traffic, Tags, Tag
  <2>2. Roles'
    BY <1>1, <1>2, <1>4 DEF Traffic, Roles, Sender, Receiver
  <2>3. \A w \in Worlds : Fits(w)' /\ Slept(w)'
    BY <1>1, <1>4 DEF Traffic, Fits, Sender, Slept, IsWaiting
  <2> QED
    BY <2>1, <2>2, <2>3 DEF Traffic
<1> QED
  BY <1>3, <1>4 DEF Kept

(* The sender wakes the pollers it took.                                   *)
LEMMA NotifyStep ==
  ASSUME Base, NEW w \in Worlds, SendNotify(w)
  PROVE  Kept
<1>1. Core /\ TypeOK /\ tok[w] \in Tokens /\ num[w] \in 0 .. MaxSends /\ cnx \in CnxType
  BY BaseCore DEF TypeOK, CnxType
<1>2. PICK to \in {"idle", "sent"} :
        /\ At(w, to, 0, tok[w], num[w]) /\ to = IF num[w] = 0 THEN "idle" ELSE "sent"
        /\ UNCHANGED <<cnx, msg, freed, destroyed, waitEvent, sends>> /\ pc[w] = "notify"
        /\ selected' = selected \cup moved[w] /\ moved' = [moved EXCEPT ![w] = {}]
  BY DEF SendNotify
<1>3. to \in PCs /\ to \notin InsidePCs /\ "notify" \notin InsidePCs /\ CopyPCs \subseteq InsidePCs
  BY DEF PCs, InsidePCs, CopyPCs
<1>4. Only(w) /\ HandTypes' /\ pc'[w] = to /\ tok'[w] = tok[w] /\ num'[w] = num[w]
  BY <1>1, <1>2, <1>3, AtFacts, ConstantFacts
<1>5. Core' /\ Msgs' = Msgs /\ Reps' = Reps
  BY <1>1, <1>2, <1>3, <1>4, CoreStay
<1>6. moved' \in [Worlds -> SUBSET Worlds] /\ selected' \subseteq Worlds
      /\ moved'[w] = {} /\ \A v \in Worlds \ {w} : moved'[v] = moved[v]
  BY <1>1, <1>2 DEF TypeOK
<1>7. Base'
  <2>1. TypeOK'
    BY <1>1, <1>2, <1>4, <1>6 DEF TypeOK, HandTypes
  <2>2. ASSUME NEW v \in Worlds PROVE Polled(v)'
    <3>1. Polled(v)
      BY DEF Base
    <3>2. CASE v = w
      BY <1>2, <1>4, <1>6, <3>2 DEF Polled
    <3>3. CASE v # w
      <4>1. pc'[v] = pc[v] /\ moved'[v] = moved[v]
        BY <1>4, <1>6, <3>3 DEF Only
      <4>2. ASSUME pc[v] = "polling", v \notin selected'
            PROVE  (v \in cnx'.pollWaiters /\ Msgs' = {}) \/ \E u \in Worlds : v \in moved'[u]
        BY <1>2, <1>5, <1>6, <3>1, <4>2 DEF Polled
      <4> QED
        BY <3>1, <4>1, <4>2 DEF Polled
    <3> QED
      BY <3>2, <3>3
  <2> QED
    BY <1>5, <2>1, <2>2 DEF Base, Core
<1>8. ASSUME Traffic PROVE Traffic'
  <2>1. waitEvent[w] = NoEvent
    BY <1>2, <1>8, Resting
  <2>2. \A k, n : Tag(k, n)' => Tag(k, n)
    BY <1>2, <1>4 DEF Tag, Only
  <2>3. Tags'
    BY <1>2, <1>8, <2>2 DEF Traffic, Tags
  <2>4. \A v \in Worlds : /\ Sender(v)' => Sender(v)
                          /\ Receiver(v)' => Receiver(v)
                          /\ num'[v] = num[v] /\ tok'[v] = tok[v]
    BY <1>2, <1>4 DEF Only, Sender, Receiver
  <2>5. Roles'
    BY <1>2, <1>5, <1>8, <2>4 DEF Traffic, Roles
  <2>6. Fits(w) /\ (tok[w] # RPC_TOKEN_INVALID => num[w] > 0)
    BY <1>1, <1>8 DEF Traffic, Tags, Tag
  <2>7. Fits(w)'
    BY <1>1, <1>2, <1>4, <2>6 DEF Fits, Sender
  <2>8. Slept(w)'
    BY <1>2, <2>1 DEF Slept, IsWaiting
  <2>9. ASSUME NEW v \in Worlds \ {w} PROVE Fits(v)' /\ Slept(v)'
    <3>1. pc'[v] = pc[v] /\ buf'[v] = buf[v] /\ tok'[v] = tok[v] /\ num'[v] = num[v] /\ Fits(v) /\ Slept(v)
      BY <1>4, <1>8 DEF Only, Traffic
    <3> QED
      BY <1>2, <1>5, <3>1 DEF Fits, Sender, Slept, IsWaiting
  <2> QED
    BY <2>3, <2>5, <2>7, <2>8, <2>9 DEF Traffic
<1> QED
  BY <1>7, <1>8 DEF Kept

(* A reply whose copy has faulted goes back: nobody else sleeps for it.    *)
LEMMA FaultStep ==
  ASSUME Base, NEW w \in Worlds, ReplyFault(w)
  PROVE  Kept
<1>1. Core /\ TypeOK /\ tok[w] \in Tokens /\ num[w] \in 0 .. MaxSends /\ cnx \in CnxType
  BY BaseCore DEF TypeOK, CnxType
<1>2. /\ At(w, "sent", 0, tok[w], num[w]) /\ pc[w] = "repCopy"
      /\ UNCHANGED <<msg, freed, destroyed, waitEvent, moved, selected, sends>>
      /\ cnx' = [Leave EXCEPT !.replyList = <<buf[w]>> \o @, !.nQueuedMessages = @ + 1]
  BY DEF ReplyFault
<1>3. "sent" \in PCs /\ "sent" \notin InsidePCs /\ "repCopy" \in CopyPCs
  BY DEF PCs, InsidePCs, CopyPCs
<1>4. Only(w) /\ HandTypes' /\ pc'[w] = "sent" /\ tok'[w] = tok[w] /\ num'[w] = num[w]
  BY <1>1, <1>2, <1>3, AtFacts, ConstantFacts
<1>5. PICK r : r = <<buf[w]>> \o cnx.replyList
  OBVIOUS
<1>6. cnx' = [Leave EXCEPT !.replyList = r, !.nQueuedMessages = @ + 1]
  BY <1>1, <1>2, <1>5 DEF Leave, CnxType
<1>7. Core' /\ SameRest /\ Msgs' = Msgs /\ Reps' = Reps \cup {buf[w]}
  BY <1>1, <1>2, <1>3, <1>4, <1>5, <1>6, CoreReply
<1>8. Base'
  <2>1. TypeOK'
    BY <1>1, <1>2, <1>4, <1>7 DEF TypeOK, HandTypes, Core, CnxType
  <2>2. ASSUME NEW v \in Worlds PROVE Polled(v)'
    <3>1. Polled(v) /\ moved' = moved /\ selected' = selected /\ cnx'.pollWaiters = cnx.pollWaiters
      BY <1>2, <1>7 DEF Base, SameRest
    <3>2. (pc[v] = "notify" <=> pc'[v] = "notify") /\ (pc'[v] = "polling" <=> pc[v] = "polling")
      BY <1>2, <1>4 DEF Only
    <3> QED
      BY <1>7, <3>1, <3>2 DEF Polled
  <2> QED
    BY <1>7, <2>1, <2>2 DEF Base, Core
<1>9. ASSUME Traffic PROVE Traffic'
  <2>1. waitEvent[w] = NoEvent
    BY <1>2, <1>9, Resting
  <2>2. \A k, n : Tag(k, n)' => Tag(k, n)
    BY <1>2, <1>4 DEF Tag, Only
  <2>3. cnx'.nextToken = cnx.nextToken /\ sends' = sends
    BY <1>2, <1>7 DEF SameRest
  <2>4. Tags'
    BY <1>9, <2>2, <2>3 DEF Traffic, Tags
  <2>5. \A v \in Worlds : /\ Sender(v)' => Sender(v)
                          /\ Receiver(v)' => Receiver(v)
                          /\ num'[v] = num[v] /\ tok'[v] = tok[v]
    BY <1>2, <1>4 DEF Only, Sender, Receiver
  <2>6. Roles'
    BY <1>2, <1>7, <1>9, <2>5 DEF Traffic, Roles
  <2>7. /\ Fits(w) /\ Sender(w) /\ tok[w] # RPC_TOKEN_INVALID /\ msg[buf[w]].token = tok[w]
    BY <1>2, <1>9 DEF Traffic, Fits, Sender
  <2>8. Fits(w)'
    BY <1>4, <2>7 DEF Fits, Sender
  <2>9. Slept(w)'
    BY <1>2, <2>1 DEF Slept, IsWaiting
  <2>10. ASSUME NEW v \in Worlds \ {w} PROVE Fits(v)' /\ Slept(v)'
    <3>1. pc'[v] = pc[v] /\ buf'[v] = buf[v] /\ tok'[v] = tok[v] /\ num'[v] = num[v] /\ Fits(v) /\ Slept(v)
      BY <1>4, <1>9 DEF Only, Traffic
    <3>2. Fits(v)'
      BY <1>2, <3>1 DEF Fits, Sender
    <3>3. ASSUME pc[v] = "repWait" PROVE tok[v] # tok[w]
      <4>1. Sender(v)
        BY <3>1, <3>3 DEF Fits, Sender
      <4>2. num[v] # num[w]
        BY <1>9, <2>7, <4>1 DEF Traffic, Roles
      <4>3. tok[v] \in Tokens /\ num[v] \in 0 .. MaxSends
        BY <1>1 DEF TypeOK
      <4>4. Tag(tok[v], num[v]) /\ Tag(tok[w], num[w])
        BY DEF Tag
      <4> QED
        BY <1>1, <1>9, <2>7, <4>2, <4>3, <4>4 DEF Traffic, Tags
    <3>4. Slept(v)'
      BY <1>2, <1>7, <2>7, <3>1, <3>3 DEF Slept, IsWaiting
    <3> QED
      BY <3>2, <3>4
  <2> QED
    BY <2>4, <2>6, <2>8, <2>9, <2>10 DEF Traffic
<1> QED
  BY <1>8, <1>9 DEF Kept

(* What is on a list is a buffer.                                          *)
LEMMA ListTypes ==
  ASSUME Core
  PROVE  Msgs \subseteq Buffers /\ Reps \subseteq Buffers /\ Frees \subseteq Buffers
<1>1. ASSUME NEW s \in Seq(Buffers) PROVE Elems(s) \subseteq Buffers
  BY LenProperties, ElementOfSeq DEF Elems
<1> QED
  BY <1>1 DEF Core, CnxType, Msgs, Reps, Frees

(* Filling the buffer in hand disturbs no other.                           *)
LEMMA Filled ==
  ASSUME TypeOK, Core, NEW w \in Worlds, pc[w] \in CopyPCs, NEW k \in Tokens, NEW n \in 0 .. MaxSends,
         msg' = [msg EXCEPT ![buf[w]] = [token |-> k, num |-> n]]
  PROVE  /\ buf[w] \in Buffers /\ buf[w] \notin Msgs /\ buf[w] \notin Reps
         /\ msg' \in [Buffers -> [token : Tokens, num : 0 .. MaxSends]]
         /\ msg'[buf[w]].token = k /\ msg'[buf[w]].num = n
         /\ \A b \in Buffers \ {buf[w]} : msg'[b] = msg[b]
         /\ \A v \in Worlds \ {w} : Copying(v) => buf[v] \in Buffers \ {buf[w]}
<1>1. Copying(w)
  BY DEF Copying
<1>2. /\ buf[w] \in Buffers /\ buf[w] \notin Msgs /\ buf[w] \notin Reps
      /\ \A v \in Worlds \ {w} : Copying(v) => buf[v] \in Buffers \ {buf[w]}
  BY <1>1 DEF Core, Apart
<1> QED
  BY <1>2 DEF TypeOK

(* A reply is queued, and everyone is woken.                               *)
LEMMA ReplyStep ==
  ASSUME Base, NEW w \in Worlds, ReplyQueue(w)
  PROVE  Kept
<1>1. Core /\ TypeOK /\ tok[w] \in Tokens /\ num[w] \in 0 .. MaxSends /\ cnx \in CnxType
  BY BaseCore DEF TypeOK, CnxType
<1>2. /\ Done(w) /\ pc[w] = "replyCopy" /\ WakeAll
      /\ UNCHANGED <<freed, destroyed, moved, selected, sends>>
      /\ msg' = [msg EXCEPT ![buf[w]] = [token |-> tok[w], num |-> num[w]]]
      /\ cnx' = [Leave EXCEPT !.replyList = Append(@, buf[w]), !.nQueuedMessages = @ + 1]
  BY DEF ReplyQueue
<1>3. "idle" \notin InsidePCs /\ "replyCopy" \in CopyPCs
  BY DEF InsidePCs, CopyPCs
<1>4. Only(w) /\ HandTypes' /\ pc'[w] = "idle" /\ tok'[w] = RPC_TOKEN_INVALID /\ num'[w] = 0
  BY <1>1, <1>2, DoneFacts
<1>5. PICK r : r = Append(cnx.replyList, buf[w])
  OBVIOUS
<1>6. cnx' = [Leave EXCEPT !.replyList = r, !.nQueuedMessages = @ + 1]
  BY <1>1, <1>2, <1>5 DEF Leave, CnxType
<1>7. Core' /\ SameRest /\ Msgs' = Msgs /\ Reps' = Reps \cup {buf[w]}
  BY <1>1, <1>2, <1>3, <1>4, <1>5, <1>6, CoreReply
<1>8. /\ buf[w] \in Buffers /\ buf[w] \notin Msgs
      /\ msg' \in [Buffers -> [token : Tokens, num : 0 .. MaxSends]]
      /\ msg'[buf[w]].token = tok[w] /\ msg'[buf[w]].num = num[w]
      /\ \A b \in Buffers \ {buf[w]} : msg'[b] = msg[b]
      /\ \A v \in Worlds \ {w} : Copying(v) => buf[v] \in Buffers \ {buf[w]}
  <2>1. PICK k \in Tokens, n \in 0 .. MaxSends : k = tok[w] /\ n = num[w]
    BY <1>1
  <2>2. msg' = [msg EXCEPT ![buf[w]] = [token |-> k, num |-> n]] /\ pc[w] \in CopyPCs
    BY <1>2, <1>3, <2>1
  <2>3. /\ buf[w] \in Buffers /\ buf[w] \notin Msgs /\ buf[w] \notin Reps
        /\ msg' \in [Buffers -> [token : Tokens, num : 0 .. MaxSends]]
        /\ msg'[buf[w]].token = k /\ msg'[buf[w]].num = n
        /\ \A b \in Buffers \ {buf[w]} : msg'[b] = msg[b]
        /\ \A v \in Worlds \ {w} : Copying(v) => buf[v] \in Buffers \ {buf[w]}
    BY <1>1, <2>2, Filled
  <2> QED
    BY <2>1, <2>3
<1>9. waitEvent' \in [Worlds -> {"cnx", NoEvent}] /\ \A v \in Worlds : waitEvent'[v] = NoEvent
  BY <1>1, <1>2 DEF WakeAll, Wakeup, TypeOK
<1>10. Base'
  <2>1. TypeOK'
    BY <1>1, <1>2, <1>4, <1>7, <1>8, <1>9 DEF TypeOK, HandTypes, Core, CnxType
  <2>2. ASSUME NEW v \in Worlds PROVE Polled(v)'
    <3>1. Polled(v) /\ moved' = moved /\ selected' = selected /\ cnx'.pollWaiters = cnx.pollWaiters
      BY <1>2, <1>7 DEF Base, SameRest
    <3>2. (pc[v] = "notify" <=> pc'[v] = "notify") /\ (pc'[v] = "polling" <=> pc[v] = "polling")
      BY <1>2, <1>4 DEF Only
    <3> QED
      BY <1>7, <3>1, <3>2 DEF Polled
  <2> QED
    BY <1>7, <2>1, <2>2 DEF Base, Core
<1>11. ASSUME Traffic PROVE Traffic'
  <2>1. \A k, n : Tag(k, n)' => Tag(k, n) \/ (k = RPC_TOKEN_INVALID /\ n = 0)
    <3> SUFFICES ASSUME NEW k, NEW n, Tag(k, n)' PROVE Tag(k, n) \/ (k = RPC_TOKEN_INVALID /\ n = 0)
      OBVIOUS
    <3>1. CASE \E b \in Buffers : msg'[b].token = k /\ msg'[b].num = n
      BY <1>8, <3>1 DEF Tag
    <3>2. CASE \E v \in Worlds : tok'[v] = k /\ num'[v] = n
      BY <1>4, <3>2 DEF Tag, Only
    <3> QED
      BY <3>1, <3>2 DEF Tag
  <2>2. cnx'.nextToken = cnx.nextToken /\ sends' = sends /\ sends \in Nat
    BY <1>1, <1>2, <1>7 DEF SameRest, TypeOK
  <2>3. Tags'
    <3>1. ASSUME NEW k \in Tokens, NEW n \in 0 .. MaxSends, Tag(k, n)'
          PROVE  /\ n <= sends'
                 /\ k # RPC_TOKEN_INVALID =>
                      n > 0 /\ cnx'.nextToken # RPC_TOKEN_INVALID /\ k <= cnx'.nextToken
      BY <1>11, <2>1, <2>2, <3>1 DEF Traffic, Tags
    <3>2. ASSUME NEW k \in Tokens, NEW m \in 0 .. MaxSends, NEW n \in 0 .. MaxSends,
                 Tag(k, m)', Tag(k, n)', k # RPC_TOKEN_INVALID
          PROVE  m = n
      BY <1>11, <2>1, <3>2 DEF Traffic, Tags
    <3>3. cnx'.nextToken # RPC_TOKEN_INVALID => cnx'.nextToken < sends'
      BY <1>11, <2>2 DEF Traffic, Tags
    <3> QED
      BY <3>1, <3>2, <3>3 DEF Tags
  <2>4. \A v \in Worlds : /\ Sender(v)' => Sender(v) /\ num'[v] = num[v]
                          /\ Receiver(v)' => Receiver(v) /\ num'[v] = num[v]
    BY <1>4 DEF Only, Sender, Receiver
  <2>5. \A b \in Msgs' : msg'[b] = msg[b] /\ b \in Msgs
    BY <1>1, <1>7, <1>8, ListTypes
  <2>6. Roles'
    BY <1>11, <2>4, <2>5 DEF Traffic, Roles
  <2>7. ASSUME NEW v \in Worlds PROVE Fits(v)' /\ Slept(v)'
    <3>1. Slept(v)'
      BY <1>9 DEF Slept, IsWaiting
    <3>2. CASE v = w
      BY <1>4, <3>1, <3>2 DEF Fits, Sender
    <3>3. CASE v # w
      <4>1. pc'[v] = pc[v] /\ buf'[v] = buf[v] /\ tok'[v] = tok[v] /\ num'[v] = num[v] /\ Fits(v)
        BY <1>4, <1>11, <3>3 DEF Only, Traffic
      <4>2. pc[v] = "repCopy" => msg'[buf[v]] = msg[buf[v]]
        BY <1>8, <3>3 DEF Copying, CopyPCs
      <4> QED
        BY <3>1, <4>1, <4>2 DEF Fits, Sender
    <3> QED
      BY <3>2, <3>3
  <2> QED
    BY <2>3, <2>6, <2>7 DEF Traffic
<1> QED
  BY <1>10, <1>11 DEF Kept

(* A sum that passes the modulus once.                                     *)
LEMMA WrapsOnce ==
  ASSUME NEW m \in Nat \ {0}, NEW x \in Nat, x < m + m
  PROVE  x % m = IF x < m THEN x ELSE x - m
  BY Z3

(* The next token is one, and while they last a new one.                   *)
LEMMA NextToken ==
  ASSUME TypeOK
  PROVE  /\ RPCNextToken \in Tokens
         /\ TokensLast /\ Tags /\ sends < MaxSends =>
              /\ RPCNextToken # RPC_TOKEN_INVALID /\ RPCNextToken < sends + 1
              /\ cnx.nextToken # RPC_TOKEN_INVALID => cnx.nextToken < RPCNextToken
<1>1. PICK m \in Nat : m = TokenSpace /\ m > 11
  BY RPCMessagesAssumption
<1>2. PICK t \in Nat : t = cnx.nextToken /\ t < m
  BY <1>1 DEF TypeOK, Tokens
<1>3. PICK x \in Nat : x = (IF t = m - 10 THEN 0 ELSE t) + 1 /\ x <= m
  BY <1>1, <1>2
<1>4. x % m = IF x < m THEN x ELSE x - m
  <2>1. m \in Nat \ {0} /\ x < m + m
    BY <1>1, <1>3
  <2> QED
    BY <2>1, WrapsOnce
<1>5. PICK k : k = RPCNextToken /\ k = IF x < m THEN x ELSE x - m
  BY <1>1, <1>2, <1>3, <1>4 DEF RPCNextToken
<1>6. k \in Nat /\ k < m
  BY <1>1, <1>3, <1>5
<1>7. RPCNextToken \in Tokens
  BY <1>1, <1>5, <1>6 DEF Tokens
<1>8. ASSUME TokensLast, Tags, sends < MaxSends
      PROVE  /\ RPCNextToken # RPC_TOKEN_INVALID /\ RPCNextToken < sends + 1
             /\ cnx.nextToken # RPC_TOKEN_INVALID => cnx.nextToken < RPCNextToken
  <2>1. PICK s, l \in Nat : s = sends /\ l = MaxSends /\ l <= m - 9
    BY <1>1, <1>8, RPCMessagesAssumption DEF TypeOK, TokensLast
  <2>2. s < l /\ (t # m - 1 => t < s)
    BY <1>1, <1>2, <1>8, <2>1 DEF Tags, RPC_TOKEN_INVALID
  <2>3. k # m - 1 /\ k < s + 1 /\ (t # m - 1 => t < k)
    BY <1>1, <1>2, <1>3, <1>5, <2>1, <2>2
  <2> QED
    BY <1>1, <1>2, <1>5, <2>1, <2>3 DEF RPC_TOKEN_INVALID
<1> QED
  BY <1>7, <1>8

(* What SendQueue does, with the token k and the number n in hand.         *)
Queued(w, k, n) ==
  /\ Only(w) /\ HandTypes' /\ Core' /\ pc[w] = "sendCopy" /\ pc'[w] = "notify"
  /\ tok'[w] = k /\ num'[w] = n /\ Msgs' = Msgs \cup {buf[w]} /\ Reps' = Reps
  /\ sends < MaxSends /\ sends' = sends + 1
  /\ buf[w] \in Buffers /\ buf[w] \notin Msgs
  /\ msg' \in [Buffers -> [token : Tokens, num : 0 .. MaxSends]]
  /\ msg'[buf[w]].token = k /\ msg'[buf[w]].num = sends + 1
  /\ \A b \in Buffers \ {buf[w]} : msg'[b] = msg[b]
  /\ \A v \in Worlds \ {w} : Copying(v) => buf[v] \in Buffers \ {buf[w]}
  /\ waitEvent' \in [Worlds -> {"cnx", NoEvent}] /\ \A v \in Worlds : waitEvent'[v] = NoEvent
  /\ \/ k = RPCNextToken /\ n = sends + 1 /\ cnx'.nextToken = k
     \/ k = RPC_TOKEN_INVALID /\ n = 0 /\ cnx'.nextToken = cnx.nextToken
  /\ UNCHANGED <<freed, destroyed, selected>>
  /\ moved' = [moved EXCEPT ![w] = cnx.pollWaiters] /\ cnx'.pollWaiters = {}

(* SendQueue does this.                                                    *)
LEMMA QueueFacts ==
  ASSUME Base, NEW w \in Worlds, NEW expect \in BOOLEAN, SendQueue(w, expect)
  PROVE  \E k \in Tokens, n \in 0 .. MaxSends : Queued(w, k, n)
<1>1. Core /\ TypeOK /\ cnx \in CnxType /\ sends \in 0 .. MaxSends
  BY BaseCore DEF TypeOK, CnxType
<1>2. PICK k \in Tokens : k = IF expect THEN RPCNextToken ELSE RPC_TOKEN_INVALID
  BY <1>1, NextToken, ConstantFacts
<1>3. PICK j \in Tokens : j = IF expect THEN RPCNextToken ELSE cnx.nextToken
  BY <1>1, NextToken DEF CnxType
<1>4. /\ pc[w] = "sendCopy" /\ sends < MaxSends /\ sends' = sends + 1
      /\ msg' = [msg EXCEPT ![buf[w]] = [token |-> k, num |-> sends + 1]]
      /\ cnx' = [Leave EXCEPT !.messageList = Append(@, buf[w]), !.nQueuedMessages = @ + 1,
                              !.nextToken = IF expect THEN RPCNextToken ELSE @,
                              !.mask = TRUE, !.pollWaiters = @ \ cnx.pollWaiters]
      /\ moved' = [moved EXCEPT ![w] = cnx.pollWaiters] /\ WakeAll
      /\ At(w, "notify", 0, k, IF expect THEN sends + 1 ELSE 0)
      /\ UNCHANGED <<freed, destroyed, selected>>
  BY <1>2 DEF SendQueue, TakePollers, SendWakeup
<1>5. PICK q \in 0 .. MaxSends : q = sends + 1
  <2>1. MaxSends \in Nat
    BY RPCMessagesAssumption
  <2> QED
    BY <1>1, <1>4, <2>1
<1>6. PICK n \in 0 .. MaxSends : n = IF expect THEN q ELSE 0
  BY <1>5, ConstantFacts
<1>7. "notify" \in PCs /\ "notify" \notin InsidePCs /\ "sendCopy" \in CopyPCs
  BY DEF PCs, InsidePCs, CopyPCs
<1>8. Only(w) /\ HandTypes' /\ pc'[w] = "notify" /\ tok'[w] = k /\ num'[w] = n
  <2>1. At(w, "notify", 0, k, n)
    BY <1>4, <1>5, <1>6
  <2> QED
    BY <1>1, <1>7, <2>1, AtFacts, ConstantFacts
<1>9. PICK P \in SUBSET Worlds : P = {}
  OBVIOUS
<1>10. cnx' = [Leave EXCEPT !.messageList = Append(@, buf[w]), !.nQueuedMessages = @ + 1,
                            !.nextToken = j, !.mask = TRUE, !.pollWaiters = P]
  <2>1. Leave.pollWaiters = cnx.pollWaiters /\ Leave.nextToken = cnx.nextToken
    BY <1>1 DEF Leave, CnxType
  <2>2. Leave.pollWaiters \ cnx.pollWaiters = P
    BY <1>9, <2>1
  <2>3. (IF expect THEN RPCNextToken ELSE Leave.nextToken) = j
    BY <1>3, <2>1
  <2> QED
    BY <1>4, <2>2, <2>3
<1>11. /\ Core' /\ Reps' = Reps /\ Msgs' = Msgs \cup {buf[w]}
       /\ cnx'.nextToken = j /\ cnx'.pollWaiters = P
  <2>1. pc[w] \in CopyPCs /\ pc'[w] \notin InsidePCs /\ destroyed' = destroyed /\ Only(w)
    BY <1>4, <1>7, <1>8
  <2> QED
    BY <1>1, <1>10, <2>1, CoreSend
<1>12. /\ buf[w] \in Buffers /\ buf[w] \notin Msgs /\ buf[w] \notin Reps
       /\ msg' \in [Buffers -> [token : Tokens, num : 0 .. MaxSends]]
       /\ msg'[buf[w]].token = k /\ msg'[buf[w]].num = q
       /\ \A b \in Buffers \ {buf[w]} : msg'[b] = msg[b]
       /\ \A v \in Worlds \ {w} : Copying(v) => buf[v] \in Buffers \ {buf[w]}
  <2>1. msg' = [msg EXCEPT ![buf[w]] = [token |-> k, num |-> q]] /\ pc[w] \in CopyPCs
    BY <1>4, <1>5, <1>7
  <2> QED
    BY <1>1, <2>1, Filled
<1>13. waitEvent' \in [Worlds -> {"cnx", NoEvent}] /\ \A v \in Worlds : waitEvent'[v] = NoEvent
  BY <1>1, <1>4 DEF WakeAll, Wakeup, TypeOK
<1>14. \/ k = RPCNextToken /\ n = sends + 1 /\ cnx'.nextToken = k
       \/ k = RPC_TOKEN_INVALID /\ n = 0 /\ cnx'.nextToken = cnx.nextToken
  BY <1>2, <1>3, <1>5, <1>6, <1>11
<1>15. Queued(w, k, n)
  BY <1>4, <1>5, <1>8, <1>9, <1>11, <1>12, <1>13, <1>14 DEF Queued
<1> QED
  BY <1>15

(* A token that is new belongs to no other message.                        *)
LEMMA QueuedTags ==
  ASSUME TokensLast, TypeOK, Tags, NEW w \in Worlds, NEW k \in Tokens, NEW n \in 0 .. MaxSends,
         Queued(w, k, n)
  PROVE  Tags'
<1>1. PICK s \in Nat : s = sends /\ s < MaxSends /\ sends' = s + 1 /\ MaxSends \in Nat
  BY RPCMessagesAssumption DEF TypeOK, Queued
<1>2. \A j, i : Tag(j, i)' => Tag(j, i) \/ (j = k /\ (i = s + 1 \/ (i = n /\ k = RPC_TOKEN_INVALID)))
  <2> SUFFICES ASSUME NEW j, NEW i, Tag(j, i)'
               PROVE  Tag(j, i) \/ (j = k /\ (i = s + 1 \/ (i = n /\ k = RPC_TOKEN_INVALID)))
    OBVIOUS
  <2>1. CASE \E b \in Buffers : msg'[b].token = j /\ msg'[b].num = i
    BY <1>1, <2>1 DEF Tag, Queued
  <2>2. CASE \E v \in Worlds : tok'[v] = j /\ num'[v] = i
    BY <1>1, <2>2 DEF Tag, Queued, Only
  <2> QED
    BY <2>1, <2>2 DEF Tag
<1>3. \A j \in Tokens, i \in 0 .. MaxSends : Tag(j, i) =>
        /\ i <= s
        /\ j # RPC_TOKEN_INVALID => i > 0 /\ cnx.nextToken # RPC_TOKEN_INVALID /\ j <= cnx.nextToken
  BY <1>1 DEF Tags
<1>4. PICK t \in Nat : t = cnx.nextToken
  BY DEF TypeOK, Tokens
<1>5. /\ t # RPC_TOKEN_INVALID => t < s
      /\ \A j \in Tokens : \A a, b \in 0 .. MaxSends :
           Tag(j, a) /\ Tag(j, b) /\ j # RPC_TOKEN_INVALID => a = b
  BY <1>1, <1>4 DEF Tags
<1>6. PICK x \in Nat : x = cnx'.nextToken
  BY DEF Queued, Core, CnxType, Tokens
<1>7. CASE k = RPCNextToken /\ n = s + 1 /\ x = k
  <2>1. /\ k # RPC_TOKEN_INVALID /\ k \in Nat /\ k < s + 1
        /\ t # RPC_TOKEN_INVALID => t < k
    BY <1>1, <1>4, <1>7, NextToken DEF Tokens
  <2>2. \A i \in 0 .. MaxSends : ~Tag(k, i)
    BY <1>3, <1>4, <2>1
  <2>3. ASSUME NEW j \in Tokens, NEW i \in 0 .. MaxSends, Tag(j, i)'
        PROVE  i <= s + 1 /\ (j # RPC_TOKEN_INVALID => i > 0 /\ x # RPC_TOKEN_INVALID /\ j <= x)
    <3>1. CASE Tag(j, i)
      <4>1. PICK j1 \in Nat : j1 = j
        BY DEF Tokens
      <4>2. i <= s /\ (j # RPC_TOKEN_INVALID => i > 0 /\ t # RPC_TOKEN_INVALID /\ j1 <= t)
        BY <1>3, <1>4, <3>1, <4>1
      <4> QED
        BY <1>1, <1>7, <2>1, <4>1, <4>2
    <3>2. CASE j = k /\ i = s + 1
      BY <1>1, <1>7, <2>1, <3>2
    <3> QED
      BY <1>2, <1>7, <2>1, <2>3, <3>1, <3>2
  <2>4. ASSUME NEW j \in Tokens, NEW a \in 0 .. MaxSends, NEW b \in 0 .. MaxSends,
               Tag(j, a)', Tag(j, b)', j # RPC_TOKEN_INVALID
        PROVE  a = b
    BY <1>2, <1>5, <2>1, <2>2, <2>4
  <2> QED
    BY <1>1, <1>6, <1>7, <2>1, <2>3, <2>4 DEF Tags
<1>8. CASE k = RPC_TOKEN_INVALID /\ n = 0 /\ x = t
  <2>1. ASSUME NEW j \in Tokens, NEW i \in 0 .. MaxSends, Tag(j, i)'
        PROVE  i <= s + 1 /\ (j # RPC_TOKEN_INVALID => i > 0 /\ x # RPC_TOKEN_INVALID /\ j <= x)
    <3>1. CASE Tag(j, i)
      <4>1. i <= s /\ (j # RPC_TOKEN_INVALID => i > 0 /\ t # RPC_TOKEN_INVALID /\ j <= t)
        BY <1>3, <1>4, <3>1
      <4> QED
        BY <1>1, <1>8, <4>1
    <3>2. CASE j = RPC_TOKEN_INVALID /\ (i = s + 1 \/ i = 0)
      BY <1>1, <3>2
    <3> QED
      BY <1>2, <1>8, <2>1, <3>1, <3>2
  <2>2. ASSUME NEW j \in Tokens, NEW a \in 0 .. MaxSends, NEW b \in 0 .. MaxSends,
               Tag(j, a)', Tag(j, b)', j # RPC_TOKEN_INVALID
        PROVE  a = b
    BY <1>2, <1>5, <1>8, <2>2
  <2>3. x # RPC_TOKEN_INVALID => x < s + 1
    BY <1>5, <1>8
  <2> QED
    BY <1>1, <1>6, <2>1, <2>2, <2>3 DEF Tags
<1> QED
  <2>1. \/ k = RPCNextToken /\ n = s + 1 /\ x = k
        \/ k = RPC_TOKEN_INVALID /\ n = 0 /\ x = t
    BY <1>1, <1>4, <1>6 DEF Queued
  <2> QED
    BY <1>7, <1>8, <2>1

(* A message is queued, everyone is woken and the pollers are taken along. *)
LEMMA SendStep ==
  ASSUME Base, NEW w \in Worlds, NEW expect \in BOOLEAN, SendQueue(w, expect)
  PROVE  Base' /\ (TokensLast /\ Traffic => Traffic')
<1>1. Core /\ TypeOK
  BY BaseCore
<1>2. PICK k \in Tokens, n \in 0 .. MaxSends : Queued(w, k, n)
  BY QueueFacts
<1>3. moved' \in [Worlds -> SUBSET Worlds] /\ moved'[w] = cnx.pollWaiters
      /\ \A v \in Worlds \ {w} : moved'[v] = moved[v]
  BY <1>1, <1>2 DEF Queued, TypeOK
<1>4. Base'
  <2>1. TypeOK'
    <3>1. sends' \in 0 .. MaxSends
      <4>1. MaxSends \in Nat
        BY RPCMessagesAssumption
      <4> QED
        BY <1>1, <1>2, <4>1 DEF Queued, TypeOK
    <3>2. cnx' \in CnxType /\ HandTypes'
      BY <1>2 DEF Queued, Core
    <3> QED
      BY <1>1, <1>2, <1>3, <3>1, <3>2 DEF Queued, TypeOK, HandTypes, CnxType
  <2>2. Counted' /\ Listing' /\ Apart'
    BY <1>2 DEF Queued, Core
  <2>3. moved[w] = {}
    BY <1>2 DEF Base, Polled, Queued
  <2>4. ASSUME NEW v \in Worlds PROVE Polled(v)'
    <3>1. Polled(v) /\ selected' = selected /\ pc'[w] = "notify"
      BY <1>2 DEF Base, Queued
    <3>2. CASE v = w
      BY <3>1, <3>2 DEF Polled
    <3>3. CASE v # w
      <4>1. pc'[v] = pc[v] /\ moved'[v] = moved[v]
        BY <1>2, <1>3, <3>3 DEF Queued, Only
      <4>2. ASSUME pc[v] = "polling", v \notin selected
            PROVE  \E u \in Worlds : v \in moved'[u]
        <5>1. CASE v \in cnx.pollWaiters
          BY <1>3, <5>1
        <5>2. CASE \E u \in Worlds : v \in moved[u]
          BY <1>3, <2>3, <5>2
        <5> QED
          BY <3>1, <4>2, <5>1, <5>2 DEF Polled
      <4> QED
        BY <3>1, <4>1, <4>2 DEF Polled
    <3> QED
      BY <3>2, <3>3
  <2> QED
    BY <2>1, <2>2, <2>4 DEF Base
<1>5. ASSUME TokensLast, Traffic PROVE Traffic'
  <2>1. Tags'
    BY <1>1, <1>2, <1>5, QueuedTags DEF Traffic
  <2>2. PICK s \in Nat : s = sends /\ s < MaxSends /\ MaxSends \in Nat
    BY <1>1, <1>2, RPCMessagesAssumption DEF TypeOK, Queued
  <2>3. /\ \A v \in Worlds : num[v] \in Nat /\ num[v] <= s
        /\ \A b \in Buffers : msg[b].num \in Nat /\ msg[b].num <= s
    <3>1. ASSUME NEW v \in Worlds PROVE num[v] \in Nat /\ num[v] <= s
      <4>1. tok[v] \in Tokens /\ num[v] \in 0 .. MaxSends /\ Tag(tok[v], num[v])
        BY <1>1 DEF TypeOK, Tag
      <4> QED
        BY <1>5, <2>2, <4>1 DEF Traffic, Tags
    <3>2. ASSUME NEW b \in Buffers PROVE msg[b].num \in Nat /\ msg[b].num <= s
      <4>1. msg[b].token \in Tokens /\ msg[b].num \in 0 .. MaxSends /\ Tag(msg[b].token, msg[b].num)
        BY <1>1 DEF TypeOK, Tag
      <4> QED
        BY <1>5, <2>2, <4>1 DEF Traffic, Tags
    <3> QED
      BY <3>1, <3>2
  <2>4. PICK q \in Nat : q = s + 1
    OBVIOUS
  <2>5. /\ \A v \in Worlds : num[v] # q
        /\ \A b \in Buffers : msg[b].num # q
    BY <2>3, <2>4
  <2>6. \A v \in Worlds \ {w} : (Sender(v)' <=> Sender(v)) /\ (Receiver(v)' <=> Receiver(v)) /\ num'[v] = num[v]
    BY <1>2 DEF Queued, Only, Sender, Receiver
  <2>7. ~Receiver(w)' /\ (Sender(w)' => num'[w] = q)
    BY <1>2, <2>2, <2>4 DEF Queued, Sender, Receiver
  <2>8. /\ buf[w] \in Buffers /\ Msgs \subseteq Buffers /\ Msgs' = Msgs \cup {buf[w]}
        /\ msg'[buf[w]].num = q /\ \A b \in Msgs : msg'[b] = msg[b]
    <3>1. Msgs \subseteq Buffers
      BY <1>1, ListTypes
    <3> QED
      BY <1>2, <2>2, <2>4, <3>1 DEF Queued
  <2>9. Roles'
    <3>1. /\ \A v, u \in Worlds : Sender(v) /\ Sender(u) /\ num[v] = num[u] => v = u
          /\ \A v, u \in Worlds : Receiver(v) /\ Receiver(u) /\ num[v] = num[u] => v = u
          /\ \A v \in Worlds : \A b \in Msgs : Receiver(v) => msg[b].num # num[v]
          /\ \A b, c \in Msgs : msg[b].num = msg[c].num => b = c
      BY <1>5 DEF Traffic, Roles
    <3>2. \A v, u \in Worlds : Sender(v)' /\ Sender(u)' /\ num'[v] = num'[u] => v = u
      BY <2>5, <2>6, <2>7, <3>1
    <3>3. \A v, u \in Worlds : Receiver(v)' /\ Receiver(u)' /\ num'[v] = num'[u] => v = u
      BY <2>6, <2>7, <3>1
    <3>4. \A v \in Worlds : \A b \in Msgs' : Receiver(v)' => msg'[b].num # num'[v]
      BY <2>5, <2>6, <2>7, <2>8, <3>1
    <3>5. \A b, c \in Msgs' : msg'[b].num = msg'[c].num => b = c
      BY <2>5, <2>8, <3>1
    <3> QED
      BY <3>2, <3>3, <3>4, <3>5 DEF Roles
  <2>10. ASSUME NEW v \in Worlds PROVE Fits(v)' /\ Slept(v)'
    <3>1. Slept(v)'
      BY <1>2 DEF Queued, Slept, IsWaiting
    <3>2. CASE v = w
      <4>1. Sender(w)' => tok'[w] # RPC_TOKEN_INVALID
        <5>1. sends < MaxSends => RPCNextToken # RPC_TOKEN_INVALID
          BY <1>1, <1>5, NextToken DEF Traffic
        <5> QED
          BY <1>2, <5>1 DEF Queued, Sender
      <4> QED
        BY <1>2, <3>1, <3>2, <4>1 DEF Fits, Queued
    <3>3. CASE v # w
      <4>1. pc'[v] = pc[v] /\ buf'[v] = buf[v] /\ tok'[v] = tok[v] /\ num'[v] = num[v] /\ Fits(v)
        BY <1>2, <1>5, <3>3 DEF Queued, Only, Traffic
      <4>2. pc[v] = "repCopy" => msg'[buf[v]] = msg[buf[v]]
        BY <1>2, <3>3 DEF Queued, Copying, CopyPCs
      <4> QED
        BY <3>1, <4>1, <4>2 DEF Fits, Sender
    <3> QED
      BY <3>2, <3>3
  <2> QED
    BY <2>1, <2>9, <2>10 DEF Traffic
<1> QED
  BY <1>4, <1>5

-------------------------------------------------------------------------------
(* A connection that has just been registered: every buffer is free.       *)
LEMMA InitBase ==
  ASSUME Init
  PROVE  Base /\ (TokensLast => Traffic)
<1>1. PICK n \in Nat \ {0} : n = NumBuffers
  BY RPCMessagesAssumption
<1>2. PICK f : f = [b \in Buffers |-> b]
  OBVIOUS
<1>3. f \in Seq(Buffers) /\ DOMAIN f = Buffers /\ \A b \in Buffers : f[b] = b
  <2>1. f \in [1 .. n -> Buffers]
    BY <1>1, <1>2 DEF Buffers
  <2> QED
    BY <1>1, <1>2, <2>1 DEF Buffers
<1>4. Once(f) /\ Elems(f) = Buffers
  BY <1>3 DEF Once, Elems
<1>5. PICK e \in Seq(Buffers) : e = <<>> /\ Once(e) /\ Elems(e) = {} /\ Len(e) = 0
  BY SeqEmpty, EmptySeq
<1>6. RPC_TOKEN_INVALID \in Tokens /\ RPC_TOKEN_INVALID = TokenSpace - 1 /\ 0 \in 0 .. MaxSends
  BY ConstantFacts DEF RPC_TOKEN_INVALID
<1>7. cnx = [messageList |-> e, replyList |-> e, freeList |-> f, nQueuedMessages |-> 0,
             nextToken |-> RPC_TOKEN_INVALID, mask |-> FALSE, pendingDestroy |-> FALSE, useCount |-> 1,
             pollWaiters |-> {}]
  BY <1>2, <1>5, <1>6 DEF Init
<1>8. /\ cnx.messageList = e /\ cnx.replyList = e /\ cnx.freeList = f /\ cnx.nQueuedMessages = 0
      /\ cnx.nextToken = RPC_TOKEN_INVALID /\ cnx.mask = FALSE /\ cnx.pendingDestroy = FALSE
      /\ cnx.useCount = 1 /\ cnx.pollWaiters = {} /\ cnx \in CnxType
  BY <1>3, <1>6, <1>7 DEF CnxType
<1>9. /\ msg = [b \in Buffers |-> [token |-> RPC_TOKEN_INVALID, num |-> 0]]
      /\ freed = {} /\ destroyed = FALSE /\ waitEvent = [w \in Worlds |-> NoEvent]
      /\ pc = [w \in Worlds |-> "idle"] /\ buf = [w \in Worlds |-> 0]
      /\ tok = [w \in Worlds |-> RPC_TOKEN_INVALID] /\ num = [w \in Worlds |-> 0]
      /\ moved = [w \in Worlds |-> {}] /\ selected = {} /\ sends = 0
  BY DEF Init
<1>10. "idle" \in PCs /\ "idle" \notin InsidePCs /\ "idle" \notin CopyPCs
  BY DEF PCs, InsidePCs, CopyPCs
<1>11. TypeOK
  BY <1>6, <1>8, <1>9, <1>10 DEF TypeOK, CnxType
<1>12. Inside = {} /\ \A w \in Worlds : ~Copying(w)
  BY <1>9, <1>10 DEF Inside, Copying
<1>13. Counted
  BY <1>8, <1>9, <1>12, FS_EmptySet DEF Counted
<1>14. Msgs = {} /\ Reps = {} /\ Frees = Buffers
  BY <1>4, <1>5, <1>8 DEF Msgs, Reps, Frees
<1>15. Listing
  BY <1>4, <1>5, <1>8 DEF Listing, SummariesExact
<1>16. Apart
  BY <1>12, <1>14 DEF Apart
<1>17. \A w \in Worlds : Polled(w)
  BY <1>9 DEF Polled
<1>18. Traffic
  <2>1. \A k, n_1 : Tag(k, n_1) => k = RPC_TOKEN_INVALID /\ n_1 = 0
    BY <1>9 DEF Tag
  <2>2. Tags
    BY <1>8, <1>9, <2>1 DEF Tags
  <2>3. Roles
    BY <1>9, <1>14 DEF Roles, Sender, Receiver
  <2>4. \A w \in Worlds : Fits(w) /\ Slept(w)
    BY <1>9 DEF Fits, Sender, Slept, IsWaiting
  <2> QED
    BY <2>2, <2>3, <2>4 DEF Traffic
<1> QED
  BY <1>11, <1>13, <1>15, <1>16, <1>17, <1>18 DEF Base

(* The invariant is inductive.                                             *)
LEMMA NextKept ==
  ASSUME MsgInv, [Next]_vars
  PROVE  MsgInv'
<1>1. CASE UNCHANGED vars
  <2>1. /\ UNCHANGED <<cnx, msg, freed, destroyed, pc, buf, tok, num, moved, selected, sends>>
        /\ waitEvent' = waitEvent
    BY <1>1 DEF vars
  <2>2. Msgs' = Msgs /\ Reps' = Reps /\ Frees' = Frees /\ Inside' = Inside
    BY <2>1 DEF Msgs, Reps, Frees, Inside
  <2>3. Base'
    BY <2>1, <2>2 DEF MsgInv, Base, TypeOK, Counted, Listing, SummariesExact, Apart, Copying, Polled
  <2>4. TokensLast => Traffic'
    BY <2>1, <2>2 DEF MsgInv, Traffic, Tags, Tag, Roles, Sender, Receiver, Fits, Slept
  <2> QED
    BY <2>3, <2>4 DEF MsgInv
<1>2. CASE Next
  <2>1. Base /\ (TokensLast => Traffic)
    BY DEF MsgInv
  <2>2. CASE TimeoutCallback
    BY <2>1, <2>2, TimeoutStep DEF Kept, MsgInv
  <2>3. ASSUME NEW w \in Worlds, Step(w) \/ Start(w)
        PROVE  MsgInv'
    <3>1. CASE \E expect \in BOOLEAN : SendQueue(w, expect)
      BY <2>1, <3>1, SendStep DEF MsgInv
    <3>2. CASE \/ CopyInFailed(w) \/ MsgCopyFailed(w) \/ ReplyCopied(w) \/ ReplyDisconnected(w)
               \/ WaitGivenUp(w) \/ NoReply(w)
      BY <2>1, <3>2, ReturnSteps DEF Kept, MsgInv
    <3>3. CASE RPC_Send(w) \/ RPC_PostReply(w)
      BY <2>1, <3>3, AllocSteps DEF Kept, MsgInv
    <3>4. CASE MsgCopied(w) \/ MsgReceived(w)
      BY <2>1, <3>4, CopySteps DEF Kept, MsgInv
    <3>5. CASE RPCGetMsg(w) \/ GetMsgRetry(w)
      BY <2>1, <3>5, GetMsgSteps DEF Kept, MsgInv
    <3>6. CASE RPC_GetReply(w) \/ GetReplyRetry(w)
      BY <2>1, <3>6, GetReplySteps DEF Kept, MsgInv
    <3>7. CASE RPC_Poll(w) \/ RPC_PollCleanup(w)
      BY <2>1, <3>7, PollSteps DEF Kept, MsgInv
    <3>8. CASE RPCUnregister(w) \/ UnregisterRetry(w)
      BY <2>1, <3>8, DestroySteps DEF Kept, MsgInv
    <3>9. CASE SendNotify(w)
      BY <2>1, <3>9, NotifyStep DEF Kept, MsgInv
    <3>10. CASE ReplyQueue(w)
      BY <2>1, <3>10, ReplyStep DEF Kept, MsgInv
    <3>11. CASE ReplyFault(w)
      BY <2>1, <3>11, FaultStep DEF Kept, MsgInv
    <3> QED
      BY <2>3, <3>1, <3>2, <3>3, <3>4, <3>5, <3>6, <3>7, <3>8, <3>9, <3>10, <3>11 DEF Step, Start
  <2> QED
    BY <1>2, <2>2, <2>3 DEF Next
<1> QED
  BY <1>1, <1>2

(* The invariant holds of every behaviour of a connection.                 *)
LEMMA Invariance == Spec => []MsgInv
<1>1. Init => MsgInv
  BY InitBase DEF MsgInv
<1>2. MsgInv /\ [Next]_vars => MsgInv'
  BY NextKept
<1> QED
  BY <1>1, <1>2, PTL DEF Spec

-------------------------------------------------------------------------------
(* No buffer is in two places, and none is lost while the connection is    *)
(* up, whatever the number of worlds and of buffers: every error path      *)
(* between the unlocked copies puts its buffer back exactly once.          *)
THEOREM BuffersKept == Spec => []BuffersAccounted
<1>1. ASSUME MsgInv PROVE BuffersAccounted
  <2>1. Base /\ Core /\ TypeOK
    BY <1>1, BaseCore DEF MsgInv
  <2>2. PICK a, b, c \in Seq(Buffers) :
          /\ a = cnx.messageList /\ b = cnx.replyList /\ c = cnx.freeList
          /\ Once(a) /\ Once(b) /\ Once(c) /\ Elems(a) = Msgs /\ Elems(b) = Reps /\ Elems(c) = Frees
    BY <2>1 DEF Core, CnxType, Listing, Msgs, Reps, Frees
  <2>3. /\ \A x \in Elems(a) : x \notin Elems(b) /\ x \notin Elems(c)
        /\ \A x \in Elems(b) : x \notin Elems(c)
    BY <2>1, <2>2 DEF Core, Apart
  <2>4. PICK d \in Seq(Buffers) : d = a \o b /\ Once(d) /\ Elems(d) = Elems(a) \cup Elems(b)
    <3>1. /\ a \o b \in Seq(Buffers) /\ Len(a \o b) = Len(a) + Len(b) /\ Len(a) \in Nat /\ Len(b) \in Nat
          /\ Once(a \o b) /\ Elems(a \o b) = Elems(a) \cup Elems(b)
      BY <2>2, <2>3, SeqJoin
    <3> QED
      BY <3>1
  <2>5. \A x \in Elems(d) : x \notin Elems(c)
    BY <2>3, <2>4
  <2>6. PICK l \in Seq(Buffers) : l = d \o c /\ Once(l) /\ Elems(l) = Elems(d) \cup Elems(c)
    <3>1. /\ d \o c \in Seq(Buffers) /\ Len(d \o c) = Len(d) + Len(c) /\ Len(d) \in Nat /\ Len(c) \in Nat
          /\ Once(d \o c) /\ Elems(d \o c) = Elems(d) \cup Elems(c)
      <4>1. Once(d) /\ Once(c)
        BY <2>2, <2>4
      <4> QED
        BY <2>5, <4>1, SeqJoin
    <3> QED
      BY <3>1
  <2>7. l = Lists
    BY <2>2, <2>4, <2>6 DEF Lists
  <2>8. Listed = Msgs \cup Reps \cup Frees /\ Listed = Elems(l)
    BY ZenonT(30), <2>2, <2>4, <2>6, <2>7 DEF Listed, Elems
  <2>9. Cardinality(Listed) = Len(Lists)
    BY <2>6, <2>7, <2>8, SeqCard
  <2>10. Held = {buf[w] : w \in {v \in Worlds : Copying(v)}}
    BY DEF Held, Copying
  <2>11. Listed \cap Held = {}
    BY <2>1, <2>8, <2>10 DEF Core, Apart
  <2>12. \A v, w \in Worlds : pc[v] \in CopyPCs /\ pc[w] \in CopyPCs /\ buf[v] = buf[w] => v = w
    BY <2>1 DEF Core, Apart, Copying
  <2>13. ASSUME ~cnx.pendingDestroy PROVE Listed \cup Held = Buffers
    <3>1. Msgs \subseteq Buffers /\ Reps \subseteq Buffers /\ Frees \subseteq Buffers
      BY <2>1, ListTypes
    <3> QED
      BY <2>1, <2>8, <2>10, <2>13, <3>1 DEF Core, Apart
  <2> QED
    BY <2>1, <2>9, <2>11, <2>12, <2>13 DEF BuffersAccounted
<1> QED
  BY <1>1, Invariance, PTL

(* A poller that has not been woken is on the list of a connection without *)
(* messages, or on its way to be woken by the sender that took it off.     *)
THEOREM PollersKept == Spec => []PollersNotForgotten
<1>1. ASSUME MsgInv PROVE PollersNotForgotten
  <2>1. Core /\ \A w \in Worlds : Polled(w)
    BY <1>1, BaseCore DEF MsgInv, Base
  <2>2. Msgs = {} => cnx.messageList = <<>>
    BY <2>1, SeqEmpty DEF Core, CnxType, Msgs
  <2> QED
    BY <2>1, <2>2 DEF Polled, PollersNotForgotten
<1> QED
  BY <1>1, Invariance, PTL

(* No wakeup is lost: who sleeps in RPCGetMsg or RPC_GetReply has nothing  *)
(* to take, and the count and the bit others look at agree with the lists. *)
(* A reply that is put back after a fault wakes nobody, and need not, as   *)
(* long as tokens are not given twice.                                     *)
THEOREM WakeupsNotLost ==
  ASSUME TokensLast
  PROVE  Spec => []SleepersHaveNothing
<1>1. ASSUME MsgInv PROVE SleepersHaveNothing
  <2>1. Core /\ SummariesExact /\ \A w \in Worlds : Slept(w)
    BY <1>1, BaseCore DEF MsgInv, Base, Listing, Traffic
  <2>2. Msgs = {} => cnx.messageList = <<>>
    BY <2>1, SeqEmpty DEF Core, CnxType, Msgs
  <2>3. ASSUME NEW w \in Worlds, \A b \in Reps : msg[b].token # tok[w] PROVE RepliesTo(w) = {}
    <3>1. DOMAIN cnx.replyList = 1 .. Len(cnx.replyList)
      BY <2>1, LenProperties DEF Core, CnxType
    <3> QED
      BY <2>3, <3>1 DEF Reps, Elems, RepliesTo
  <2>4. \A w \in Worlds : IsWaiting(waitEvent, w) =>
          \/ pc[w] = "msgWait" /\ cnx.messageList = <<>>
          \/ pc[w] = "repWait" /\ RepliesTo(w) = {}
    BY <2>1, <2>2, <2>3 DEF Slept
  <2> QED
    BY <2>1, <2>4 DEF SleepersHaveNothing
<1> QED
  BY <1>1, Invariance, PTL

(* A caller takes the reply to its own message, and one world receives and *)
(* answers a message, as long as tokens are not given twice.               *)
THEOREM RepliesNotMixed ==
  ASSUME TokensLast
  PROVE  Spec => []RepliesMatch
<1>1. ASSUME MsgInv PROVE RepliesMatch
  <2>1. Core /\ TypeOK /\ Tags /\ Roles /\ \A w \in Worlds : Fits(w)
    BY <1>1, BaseCore DEF MsgInv, Traffic
  <2>2. OneReceiver
    <3>1. \A i \in 1 .. Len(cnx.messageList) : cnx.messageList[i] \in Msgs
      <4>1. DOMAIN cnx.messageList = 1 .. Len(cnx.messageList)
        BY <2>1, LenProperties DEF Core, CnxType
      <4> QED
        BY <4>1 DEF Msgs, Elems
    <3>2. /\ \A v, w \in Worlds : Receiver(v) /\ Receiver(w) /\ num[v] = num[w] => v = w
          /\ \A w \in Worlds : \A b \in Msgs : Receiver(w) => msg[b].num # num[w]
      BY <2>1 DEF Roles
    <3> QED
      BY <3>1, <3>2 DEF OneReceiver, Receiver
  <2>3. ASSUME NEW w \in Worlds, pc[w] = "repCopy" PROVE msg[buf[w]].num = num[w]
    <3>1. PICK b \in Buffers : b = buf[w]
      BY <2>1, <2>3 DEF Core, Apart, Copying, CopyPCs
    <3>2. /\ msg[b].token = tok[w] /\ tok[w] # RPC_TOKEN_INVALID
          /\ tok[w] \in Tokens /\ num[w] \in 0 .. MaxSends /\ msg[b].num \in 0 .. MaxSends
      BY <2>1, <2>3, <3>1 DEF Fits, Sender, TypeOK
    <3>3. Tag(tok[w], num[w]) /\ Tag(tok[w], msg[b].num)
      BY <3>1, <3>2 DEF Tag
    <3> QED
      BY <2>1, <3>1, <3>2, <3>3 DEF Tags
  <2> QED
    BY <2>2, <2>3 DEF RepliesMatch
<1> QED
  BY <1>1, Invariance, PTL

-------------------------------------------------------------------------------
(* The connection as a ConnectionLife: what it is and who is inside.       *)
LifeNow == IF destroyed THEN "free" ELSE IF cnx.pendingDestroy THEN "closing" ELSE "live"

(* A step is one of the life if it lets a world in or out and leaves the   *)
(* life as it is, or ends the life with nobody inside.                     *)
LEMMA LifeCases ==
  /\ LifeNow' = LifeNow /\ Inside' = Inside => UNCHANGED Life!vars
  /\ \A w \in Worlds : CanEnter /\ LifeNow' = LifeNow /\ Inside' = Inside \cup {w} => Life!Next
  /\ \A w \in Worlds : w \in Inside /\ LifeNow' = LifeNow /\ Inside' = Inside \ {w} => Life!Next
  /\ LifeNow = "live" /\ LifeNow' = "closing" /\ Inside' = Inside => Life!Next
  /\ LifeNow \in {"live", "closing"} /\ Inside = {} /\ LifeNow' = "free" /\ Inside' = Inside => Life!Next
<1>1. CanEnter => LifeNow = "live"
  BY DEF CanEnter, LifeNow
<1>2. LifeNow' = LifeNow /\ Inside' = Inside => UNCHANGED Life!vars
  BY DEF Life!vars, LifeNow
<1>3. ASSUME NEW w \in Worlds, CanEnter, LifeNow' = LifeNow, Inside' = Inside \cup {w} PROVE Life!Next
  BY <1>1, <1>3 DEF Life!Next, Life!Enter, LifeNow
<1>4. ASSUME NEW w \in Worlds, w \in Inside, LifeNow' = LifeNow, Inside' = Inside \ {w} PROVE Life!Next
  BY <1>4 DEF Life!Next, Life!Leave, LifeNow
<1>5. LifeNow = "live" /\ LifeNow' = "closing" /\ Inside' = Inside => Life!Next
  BY DEF Life!Next, Life!Close, LifeNow
<1>6. LifeNow \in {"live", "closing"} /\ Inside = {} /\ LifeNow' = "free" /\ Inside' = Inside => Life!Next
  BY DEF Life!Next, Life!Free, LifeNow
<1> QED
  BY <1>2, <1>3, <1>4, <1>5, <1>6

(* A call that has found the connection and locked it.                     *)
LEMMA LifeEnters ==
  ASSUME TypeOK, NEW w \in Worlds, RPC_Send(w) \/ RPCGetMsg(w) \/ RPC_PostReply(w) \/ RPC_GetReply(w)
  PROVE  Life!Next
<1>1. CanEnter /\ destroyed' = destroyed
  BY DEF RPC_Send, RPCGetMsg, RPC_PostReply, RPC_GetReply
<1>2. PICK to \in InsidePCs : pc' = [pc EXCEPT ![w] = to]
  BY DEF RPC_Send, RPCGetMsg, RPC_PostReply, RPC_GetReply, TakeReply, At, InsidePCs, CopyPCs
<1>3. Inside' = Inside \cup {w}
  BY <1>2 DEF Inside, TypeOK
<1>4. cnx'.pendingDestroy = cnx.pendingDestroy
  BY DEF RPC_Send, RPCGetMsg, RPC_PostReply, RPC_GetReply, TakeReply, TakeMessage, Enter, EnterWithBuffer, TypeOK
<1>5. LifeNow' = LifeNow
  BY <1>1, <1>4 DEF LifeNow
<1> QED
  BY <1>1, <1>3, <1>5, LifeCases

(* A copy that has ended, well or not, and a wait given up.                *)
LEMMA LifeLeaves ==
  ASSUME TypeOK, NEW w \in Worlds,
         \/ CopyInFailed(w) \/ (\E expect \in BOOLEAN : SendQueue(w, expect)) \/ WaitGivenUp(w)
         \/ MsgCopyFailed(w) \/ MsgReceived(w) \/ ReplyQueue(w) \/ ReplyCopied(w) \/ ReplyFault(w)
         \/ ReplyDisconnected(w)
  PROVE  Life!Next
<1>1. destroyed' = destroyed /\ pc[w] \in InsidePCs
  BY DEF CopyInFailed, SendQueue, WaitGivenUp, MsgCopyFailed, MsgReceived, ReplyQueue, ReplyCopied,
         ReplyFault, ReplyDisconnected, InsidePCs, CopyPCs
<1>2. PICK to \in {"idle", "notify", "serving", "sent"} : pc' = [pc EXCEPT ![w] = to]
  BY DEF CopyInFailed, SendQueue, WaitGivenUp, MsgCopyFailed, MsgReceived, ReplyQueue, ReplyCopied,
         ReplyFault, ReplyDisconnected, Done, At
<1>3. Inside' = Inside \ {w} /\ w \in Inside
  BY <1>1, <1>2 DEF Inside, TypeOK, InsidePCs, CopyPCs
<1>4. cnx'.pendingDestroy = cnx.pendingDestroy
  BY DEF CopyInFailed, SendQueue, WaitGivenUp, MsgCopyFailed, MsgReceived, ReplyQueue, ReplyCopied,
         ReplyFault, ReplyDisconnected, FreeAndLeave, Leave, TypeOK
<1>5. LifeNow' = LifeNow
  BY <1>1, <1>4 DEF LifeNow
<1> QED
  BY <1>3, <1>5, LifeCases

(* What goes on inside, and what goes on outside.                          *)
LEMMA LifeStays ==
  ASSUME TypeOK, NEW w \in Worlds,
         \/ SendNotify(w) \/ GetMsgRetry(w) \/ MsgCopied(w) \/ GetReplyRetry(w) \/ NoReply(w)
         \/ RPC_Poll(w) \/ RPC_PollCleanup(w)
  PROVE  UNCHANGED Life!vars
<1>1. destroyed' = destroyed
  BY DEF SendNotify, GetMsgRetry, MsgCopied, GetReplyRetry, NoReply, RPC_Poll, RPC_PollCleanup
<1>2. Inside' = Inside
  <2>1. CASE SendNotify(w) \/ NoReply(w) \/ RPC_Poll(w) \/ RPC_PollCleanup(w)
    <3>1. /\ pc[w] \in {"notify", "serving", "sent", "idle", "polling"}
          /\ \E to \in {"idle", "sent", "polling"} : pc' = [pc EXCEPT ![w] = to]
      BY <2>1 DEF SendNotify, NoReply, RPC_Poll, RPC_PollCleanup, Done, At
    <3> QED
      BY <3>1 DEF Inside, TypeOK, InsidePCs, CopyPCs
  <2>2. CASE GetMsgRetry(w) \/ MsgCopied(w) \/ GetReplyRetry(w)
    <3>1. /\ pc[w] \in {"msgWait", "msgCopy", "repWait"}
          /\ pc' = pc \/ \E to \in {"msgCopy", "infoCopy", "repCopy"} : pc' = [pc EXCEPT ![w] = to]
      BY <2>2 DEF GetMsgRetry, MsgCopied, GetReplyRetry, TakeReply, At
    <3> QED
      BY <3>1 DEF Inside, TypeOK, InsidePCs, CopyPCs
  <2> QED
    BY <2>1, <2>2
<1>3. cnx'.pendingDestroy = cnx.pendingDestroy
  BY DEF SendNotify, GetMsgRetry, MsgCopied, GetReplyRetry, NoReply, RPC_Poll, RPC_PollCleanup, TakeReply,
         TakeMessage, TypeOK
<1>4. LifeNow' = LifeNow
  BY <1>1, <1>3 DEF LifeNow
<1> QED
  BY <1>2, <1>4, LifeCases

(* Turning newcomers away, once or again, and freeing.                     *)
LEMMA LifeEnds ==
  ASSUME Base, NEW w \in Worlds, RPCUnregister(w) \/ UnregisterRetry(w)
  PROVE  [Life!Next]_(Life!vars)
<1>1. Core /\ TypeOK /\ UnregisterLoop(w) /\ pc[w] \in {"idle", "closing"}
  BY BaseCore DEF RPCUnregister, UnregisterRetry
<1>2. CASE cnx.useCount > 1 /\ cnx' = [cnx EXCEPT !.pendingDestroy = TRUE]
           /\ At(w, "closing", 0, tok[w], 0) /\ destroyed' = destroyed
  <2>1. ~destroyed
    BY <1>1, <1>2 DEF Core, Counted
  <2>2. Inside' = Inside
    BY <1>1, <1>2 DEF Inside, At, TypeOK, InsidePCs, CopyPCs
  <2>3. LifeNow' = "closing" /\ LifeNow \in {"live", "closing"}
    BY <1>1, <1>2, <2>1 DEF LifeNow, TypeOK
  <2> QED
    BY <2>2, <2>3, LifeCases
<1>3. CASE cnx.useCount = 1 /\ RPCRemoveAndUnlockCnx /\ Done(w)
  <2>1. Only(w) /\ pc'[w] = "idle"
    BY <1>1, <1>3, DoneFacts
  <2>2. pc[w] \notin InsidePCs /\ pc'[w] \notin InsidePCs
    BY <1>1, <2>1 DEF InsidePCs, CopyPCs
  <2>3. Inside = {} /\ ~destroyed /\ destroyed'
    BY <1>1, <1>3, <2>1, <2>2, CoreRemove
  <2>4. Inside' = {}
    BY <2>1, <2>2, <2>3 DEF Inside, Only
  <2>5. LifeNow' = "free" /\ LifeNow \in {"live", "closing"}
    BY <2>3 DEF LifeNow
  <2> QED
    BY <2>3, <2>4, <2>5, LifeCases
<1> QED
  BY <1>1, <1>2, <1>3 DEF UnregisterLoop

(* The connection is freed only when nobody is inside, asleep or copying,  *)
(* and nobody enters once it is being destroyed: the traffic implements    *)
(* the life of a connection.                                               *)
THEOREM TrafficImplementsLife == Spec => ImplementsLife
<1>1. Init => LifeNow = "live" /\ Inside = {}
  BY DEF Init, LifeNow, Inside, InsidePCs, CopyPCs
<1>2. ASSUME MsgInv, [Next]_vars PROVE [Life!Next]_(Life!vars)
  <2>1. Base /\ TypeOK
    BY <1>2 DEF MsgInv, Base
  <2>2. CASE UNCHANGED vars \/ TimeoutCallback
    <3>1. UNCHANGED <<cnx, destroyed, pc>>
      BY <2>2 DEF vars, TimeoutCallback
    <3>2. LifeNow' = LifeNow /\ Inside' = Inside
      BY <3>1 DEF LifeNow, Inside
    <3> QED
      BY <3>2, LifeCases
  <2>3. ASSUME NEW w \in Worlds, Step(w) \/ Start(w) PROVE [Life!Next]_(Life!vars)
    BY <2>1, <2>3, LifeEnters, LifeLeaves, LifeStays, LifeEnds DEF Step, Start
  <2> QED
    BY <1>2, <2>2, <2>3 DEF Next
<1>3. LifeNow = "live" /\ Inside = {} /\ [][Life!Next]_(Life!vars) => ImplementsLife
  BY DEF ImplementsLife, Life!LiveSpec, LifeNow
<1> QED
  BY <1>1, <1>2, <1>3, Invariance, PTL DEF Spec

===============================================================================
