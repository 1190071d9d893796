-------------------------- MODULE HelperWorldsProofs --------------------------
(***************************************************************************)
(* That the handle of a request keeps its meaning, and that every request  *)
(* is run or cancelled once, for any number of helper worlds, queues,      *)
(* slots, contexts of the console OS and requests.                         *)
(***************************************************************************)
EXTENDS HelperWorlds, FiniteSetTheorems, SequenceTheorems, TLAPS

(* Nothing is on the list twice.                                           *)
Once(s) == \A i, j \in DOMAIN s : s[i] = s[j] => i = j

(* What HelpRequest.next and requestListTail stand for: the list of a      *)
(* queue holds its pending requests, and the tail is its last element.     *)
ListsOK ==
  /\ \A q \in Queues :
       /\ Once(requestList[q])
       /\ requestListTail[q] = IF requestList[q] = <<>> THEN None ELSE Last(requestList[q])
  /\ \A h \in Handles :
       h.reqIndex \in Range(requestList[h.qType]) <=> req[h].callStatus = "PENDING"

(* A request is active while one helper world of its queue has it.         *)
HandsOK ==
  /\ \A w \in Helpers :
       /\ helper[w].pc \in {"call", "running"} <=> helper[w].request # None
       /\ helper[w].pc = "notify" => helper[w].cosWaiter # None
       /\ helper[w].request # None =>
            /\ helper[w].request.qType = QueueOf[w]
            /\ req[helper[w].request].callStatus = "ACTIVE"
            /\ \A v \in Helpers : helper[v].request = helper[w].request => v = w
  /\ \A h \in Handles : req[h].callStatus = "ACTIVE" => \E w \in Helpers : helper[w].request = h

(* A synchronous request is kept as long as one context has its handle.    *)
ClientsOK ==
  /\ \A c \in Clients :
       /\ client[c].pc \in {"has", "asleep", "status"} <=> client[c].handle # None
       /\ client[c].handle # None =>
            /\ req[client[c].handle].callStatus # "FREE" /\ req[client[c].handle].isSync
            /\ req[client[c].handle].job = client[c].job
            /\ \A d \in Clients : client[d].handle = client[c].handle => d = c
  /\ \A h \in Handles : req[h].callStatus = "DONE" \/ (req[h].callStatus # "FREE" /\ req[h].isSync) =>
       \E c \in Clients : client[c].handle = h

(* Who has yet to run or to cancel job j.                                  *)
OnList(j) == \E h \in Handles : req[h].callStatus = "PENDING" /\ req[h].job = j
InHelper(j) == \E w \in Helpers : helper[w].pc = "call" /\ req[helper[w].request].job = j
InCancel(j) == \E c \in Clients : client[c].pc = "cancel" /\ client[c].job = j

(* A job is in one slot; what is handled is neither on a list, nor with a  *)
(* helper that is about to call it, nor with a context that cancels it.    *)
JobsOK ==
  /\ handled \subseteq 1 .. lastJob
  /\ \A h \in Handles : req[h].callStatus # "FREE" => req[h].job \in 1 .. lastJob
  /\ \A g, h \in Handles :
       req[g].callStatus # "FREE" /\ req[h].callStatus # "FREE" /\ req[g].job = req[h].job => g = h
  /\ \A c \in Clients : client[c].pc = "cancel" =>
       /\ client[c].job \in 1 .. lastJob
       /\ \A h \in Handles : req[h].callStatus # "FREE" => req[h].job # client[c].job
       /\ \A d \in Clients : client[d].pc = "cancel" /\ client[d].job = client[c].job => d = c
  /\ \A j \in 1 .. lastJob : OnList(j) \/ InHelper(j) \/ InCancel(j) <=> j \notin handled

HelperInv == TypeOK /\ ListsOK /\ HandsOK /\ ClientsOK /\ JobsOK

-------------------------------------------------------------------------------
(* What a sequence is, as a function.                                      *)
LEMMA SeqFacts ==
  ASSUME NEW S, NEW s \in Seq(S)
  PROVE  /\ Len(s) \in Nat /\ DOMAIN s = 1 .. Len(s) /\ Range(s) \subseteq S
         /\ s = <<>> <=> Len(s) = 0
         /\ \A i \in 1 .. Len(s) : s[i] \in S /\ s[i] \in Range(s)
         /\ s # <<>> => Last(s) \in S /\ Last(s) \in Range(s)
<1>1. /\ Len(s) \in Nat /\ DOMAIN s = 1 .. Len(s) /\ s = <<>> <=> Len(s) = 0
      /\ \A i \in 1 .. Len(s) : s[i] \in S
  BY LenProperties, ElementOfSeq, EmptySeq
<1>2. PICK n \in Nat : n = Len(s)
  BY <1>1
<1>3. s # <<>> => n \in 1 .. n
  BY <1>1, <1>2
<1> QED
  BY <1>1, <1>2, <1>3 DEF Range, Last

(* As many elements as places.                                             *)
LEMMA SeqCard ==
  ASSUME NEW S, NEW s \in Seq(S), Once(s)
  PROVE  Len(s) = Cardinality(Range(s))
<1>1. Len(s) \in Nat /\ DOMAIN s = 1 .. Len(s) /\ s \in [1 .. Len(s) -> S]
  BY LenProperties
<1>2. IsFiniteSet(1 .. Len(s)) /\ Cardinality(1 .. Len(s)) = Len(s)
  BY <1>1, FS_Interval
<1>3. s \in [1 .. Len(s) -> Range(s)]
  BY <1>1 DEF Range
<1>4. s \in Bijection(1 .. Len(s), Range(s))
  BY <1>1, <1>3 DEF Once, Range, Bijection, Injection, IsInjective, Surjection
<1>5. ExistsBijection(1 .. Len(s), Range(s))
  BY <1>4 DEF ExistsBijection
<1> QED
  BY <1>2, <1>5, FS_Bijection

(* Putting one behind the last.                                            *)
LEMMA SeqPut ==
  ASSUME NEW S, NEW s \in Seq(S), Once(s), NEW x \in S, x \notin Range(s)
  PROVE  /\ Append(s, x) \in Seq(S) /\ Append(s, x) # <<>> /\ Once(Append(s, x))
         /\ Last(Append(s, x)) = x /\ Range(Append(s, x)) = Range(s) \cup {x}
<1> DEFINE t == Append(s, x)
<1>1. PICK n \in Nat : n = Len(s) /\ DOMAIN s = 1 .. n
  BY SeqFacts
<1> HIDE DEF t
<1>2. /\ t \in Seq(S) /\ Len(t) = n + 1 /\ t[n + 1] = x
      /\ \A i \in 1 .. n : t[i] = s[i]
  BY <1>1, AppendProperties DEF t
<1>3. DOMAIN t = 1 .. n + 1
  BY <1>2, SeqFacts
<1>4. Once(t)
  <2>1. \A i \in 1 .. n : s[i] # x
    BY <1>1 DEF Range
  <2> QED
    BY <1>1, <1>2, <1>3, <2>1 DEF Once
<1>5. Range(t) = Range(s) \cup {x}
  <2>1. Range(s) = {t[i] : i \in 1 .. n}
    BY <1>1, <1>2 DEF Range
  <2>2. 1 .. n + 1 = (1 .. n) \cup {n + 1}
    OBVIOUS
  <2>3. Range(t) = {t[i] : i \in (1 .. n) \cup {n + 1}}
    BY <1>3, <2>2 DEF Range
  <2> QED
    BY <1>2, <2>1, <2>3
<1>6. t # <<>>
  BY <1>2, SeqFacts
<1>7. t \in Seq(S) /\ t # <<>> /\ Once(t) /\ Last(t) = x /\ Range(t) = Range(s) \cup {x}
  BY <1>2, <1>4, <1>5, <1>6 DEF Last
<1> QED
  BY <1>7 DEF t

(* Taking the first one off.                                               *)
LEMMA SeqTake ==
  ASSUME NEW S, NEW s \in Seq(S), Once(s), s # <<>>, NEW t, t = Tail(s)
  PROVE  /\ t \in Seq(S) /\ Once(t) /\ Head(s) \in S /\ Head(s) \in Range(s)
         /\ Range(t) = Range(s) \ {Head(s)}
         /\ t = <<>> => Last(s) = Head(s)
         /\ t # <<>> => Last(t) = Last(s) /\ Last(s) # Head(s)
<1>1. PICK n \in Nat \ {0} : n = Len(s) /\ DOMAIN s = 1 .. n
  BY SeqFacts
<1>2. /\ t \in Seq(S) /\ Len(t) = n - 1 /\ Head(s) = s[1]
      /\ \A i \in 1 .. n - 1 : t[i] = s[i + 1]
  BY <1>1, HeadTailProperties
<1>3. DOMAIN t = 1 .. n - 1 /\ (t = <<>> <=> n = 1)
  BY <1>2, SeqFacts
<1>4. Once(t)
  BY <1>1, <1>2, <1>3 DEF Once
<1>5. ASSUME NEW x \in Range(t) PROVE x \in Range(s) /\ x # s[1]
  <2>1. PICK i \in 1 .. n - 1 : x = s[i + 1]
    BY <1>2, <1>3 DEF Range
  <2>2. i + 1 \in DOMAIN s /\ 1 \in DOMAIN s /\ i + 1 # 1
    BY <1>1
  <2> QED
    BY <2>1, <2>2 DEF Range, Once
<1>6. ASSUME NEW x \in Range(s), x # s[1] PROVE x \in Range(t)
  <2>1. PICK i \in 1 .. n : x = s[i]
    BY <1>1 DEF Range
  <2>2. i - 1 \in DOMAIN t /\ t[i - 1] = s[i - 1 + 1]
    BY <1>2, <1>3, <1>6, <2>1
  <2>3. x = t[i - 1]
    BY <2>1, <2>2
  <2> QED
    BY <2>2, <2>3 DEF Range
<1>7. Last(s) = s[n] /\ Last(t) = t[n - 1]
  BY <1>1, <1>2 DEF Last
<1>8. t # <<>> => t[n - 1] = s[n] /\ s[n] # s[1]
  <2>1. ASSUME t # <<>> PROVE n - 1 \in 1 .. n - 1 /\ n - 1 + 1 = n /\ n # 1 /\ n \in DOMAIN s /\ 1 \in DOMAIN s
    BY <1>1, <1>3, <2>1
  <2> QED
    BY <1>2, <2>1 DEF Once
<1>9. Head(s) \in S /\ Head(s) \in Range(s)
  BY <1>1, <1>2, SeqFacts
<1> QED
  BY <1>2, <1>3, <1>4, <1>5, <1>6, <1>7, <1>8, <1>9

(* Taking one out, wherever it is.                                         *)
LEMMA SeqRemove ==
  ASSUME NEW S, NEW s \in Seq(S), Once(s), NEW k \in DOMAIN s, NEW t, t = RemoveAt(s, k)
  PROVE  /\ t \in Seq(S) /\ Once(t) /\ Range(t) = Range(s) \ {s[k]}
         /\ s[k] = Last(s) => (k = 1 <=> t = <<>>) /\ (k # 1 => s[k - 1] \in S /\ Last(t) = s[k - 1])
         /\ s[k] # Last(s) => t # <<>> /\ Last(t) = Last(s)
<1>1. PICK n \in Nat \ {0} : n = Len(s) /\ DOMAIN s = 1 .. n /\ \A j \in 1 .. n : s[j] \in S
  <2>1. PICK n \in Nat : n = Len(s) /\ DOMAIN s = 1 .. n /\ \A j \in 1 .. n : s[j] \in S
    BY SeqFacts
  <2>2. n # 0
    BY <2>1
  <2> QED
    BY <2>1, <2>2
<1>2. PICK a, c : a = SubSeq(s, 1, k - 1) /\ c = SubSeq(s, k + 1, n)
  OBVIOUS
<1>3. a \in Seq(S) /\ Len(a) = k - 1 /\ \A j \in 1 .. k - 1 : a[j] = s[j]
  <2>1. \A j \in 1 .. k - 1 : s[j] \in S
    BY <1>1
  <2>2. 1 \in Int /\ k - 1 \in Int
    BY <1>1
  <2>3. /\ SubSeq(s, 1, k - 1) \in Seq(S)
        /\ Len(SubSeq(s, 1, k - 1)) = IF 1 <= k - 1 THEN k - 1 - 1 + 1 ELSE 0
        /\ \A j \in 1 .. k - 1 - 1 + 1 : SubSeq(s, 1, k - 1)[j] = s[1 + j - 1]
    BY <2>1, <2>2, SubSeqProperties
  <2> QED
    BY <1>1, <1>2, <2>3
<1>4. c \in Seq(S) /\ Len(c) = n - k /\ \A j \in 1 .. n - k : c[j] = s[k + j]
  <2>1. \A j \in k + 1 .. n : s[j] \in S
    BY <1>1
  <2>2. k + 1 \in Int /\ n \in Int
    BY <1>1
  <2>3. /\ SubSeq(s, k + 1, n) \in Seq(S)
        /\ Len(SubSeq(s, k + 1, n)) = IF k + 1 <= n THEN n - (k + 1) + 1 ELSE 0
        /\ \A j \in 1 .. n - (k + 1) + 1 : SubSeq(s, k + 1, n)[j] = s[k + 1 + j - 1]
    BY <2>1, <2>2, SubSeqProperties
  <2> QED
    BY SMTT(30), <1>1, <1>2, <2>3
<1>5. t = a \o c
  BY <1>1, <1>2 DEF RemoveAt
<1>6. t \in Seq(S) /\ Len(t) = n - 1 /\ \A j \in 1 .. n - 1 : t[j] = IF j <= k - 1 THEN a[j] ELSE c[j - (k - 1)]
  <2>1. Len(a) + Len(c) = n - 1
    BY <1>1, <1>3, <1>4
  <2> QED
    BY SMTT(30), <1>3, <1>4, <1>5, <2>1, ConcatProperties
<1>7. \A j \in 1 .. n - 1 : t[j] = IF j < k THEN s[j] ELSE s[j + 1]
  <2> SUFFICES ASSUME NEW j \in 1 .. n - 1 PROVE t[j] = IF j < k THEN s[j] ELSE s[j + 1]
    OBVIOUS
  <2>1. CASE j < k
    <3>1. j \in 1 .. k - 1 /\ j <= k - 1
      BY <1>1, <2>1
    <3> QED
      BY <1>3, <1>6, <2>1, <3>1
  <2>2. CASE ~(j < k)
    <3>1. j - (k - 1) \in 1 .. n - k /\ k + (j - (k - 1)) = j + 1 /\ ~(j <= k - 1)
      BY <1>1, <2>2
    <3>2. t[j] = c[j - (k - 1)]
      BY <1>6, <3>1
    <3>3. c[j - (k - 1)] = s[k + (j - (k - 1))]
      BY <1>4, <3>1
    <3> QED
      BY <2>2, <3>1, <3>2, <3>3
  <2> QED
    BY <2>1, <2>2
<1>8. DOMAIN t = 1 .. n - 1 /\ (t = <<>> <=> n = 1)
  BY <1>6, SeqFacts
<1>9. \A j \in 1 .. n - 1 : \E i \in 1 .. n : i = (IF j < k THEN j ELSE j + 1) /\ t[j] = s[i] /\ i # k
  BY <1>1, <1>7
<1>10. \A i \in 1 .. n : i # k => \E j \in 1 .. n - 1 : t[j] = s[i]
  <2> SUFFICES ASSUME NEW i \in 1 .. n, i # k PROVE \E j \in 1 .. n - 1 : t[j] = s[i]
    OBVIOUS
  <2>1. CASE i < k
    BY <1>1, <1>7, <2>1
  <2>2. CASE i > k
    <3>1. i - 1 \in 1 .. n - 1 /\ ~(i - 1 < k) /\ i - 1 + 1 = i
      BY <1>1, <2>2
    <3>2. t[i - 1] = s[i - 1 + 1]
      BY <1>7, <3>1
    <3> QED
      BY <3>1, <3>2
  <2> QED
    BY <1>1, <2>1, <2>2
<1>11. Range(t) = Range(s) \ {s[k]}
  <2>1. ASSUME NEW x \in Range(t) PROVE x \in Range(s) /\ x # s[k]
    BY <1>1, <1>8, <1>9 DEF Range, Once
  <2>2. ASSUME NEW x \in Range(s), x # s[k] PROVE x \in Range(t)
    BY ZenonT(30), <1>1, <1>8, <1>10, <2>2 DEF Range
  <2> QED
    BY <2>1, <2>2
<1>12. Once(t)
  <2> SUFFICES ASSUME NEW i \in 1 .. n - 1, NEW j \in 1 .. n - 1, t[i] = t[j] PROVE i = j
    BY <1>8 DEF Once
  <2>1. PICK x \in 1 .. n : x = (IF i < k THEN i ELSE i + 1) /\ t[i] = s[x]
    BY <1>9
  <2>2. PICK y \in 1 .. n : y = (IF j < k THEN j ELSE j + 1) /\ t[j] = s[y]
    BY <1>9
  <2>3. x = y
    BY <1>1, <2>1, <2>2 DEF Once
  <2> QED
    BY <1>1, <2>1, <2>2, <2>3
<1>13. Last(s) = s[n] /\ Last(t) = t[n - 1]
  BY <1>1, <1>6 DEF Last
<1>14. s[k] = Last(s) <=> k = n
  BY <1>1, <1>13 DEF Once
<1>15. ASSUME k = n PROVE (k = 1 <=> t = <<>>) /\ (k # 1 => s[k - 1] \in S /\ Last(t) = s[k - 1])
  <2>1. ASSUME k # 1 PROVE k - 1 \in 1 .. n - 1 /\ k - 1 \in 1 .. n /\ k - 1 < k
    BY <1>1, <1>15, <2>1
  <2> QED
    BY <1>1, <1>7, <1>8, <1>13, <1>15, <2>1
<1>16. ASSUME k # n PROVE t # <<>> /\ Last(t) = Last(s)
  <2>1. n - 1 \in 1 .. n - 1 /\ ~(n - 1 < k) /\ n - 1 + 1 = n /\ n # 1
    BY <1>1, <1>16
  <2>2. t[n - 1] = s[n - 1 + 1]
    BY <1>7, <2>1
  <2> QED
    BY <1>8, <1>13, <2>1, <2>2
<1> QED
  BY <1>6, <1>11, <1>12, <1>14, <1>15, <1>16

-------------------------------------------------------------------------------
(* Handles, spelled out; NULL is no handle, slot or context.               *)
LEMMA HandleFacts ==
  /\ \A h \in Handles : h.qType \in Queues /\ h.reqIndex \in Slots
  /\ \A g, h \in Handles : g.qType = h.qType /\ g.reqIndex = h.reqIndex => g = h
  /\ None \notin Handles /\ None \notin Slots /\ None \notin Clients /\ NoEvent \notin Queues
  /\ \A w \in Helpers : QueueOf[w] \in Queues
  BY HelpersAssumption, HelperNull DEF Handles

(* A queue and a slot make a handle.                                       *)
LEMMA HandleOf ==
  ASSUME NEW q \in Queues, NEW i \in Slots, NEW h, h = [qType |-> q, reqIndex |-> i]
  PROVE  h \in Handles /\ h.qType = q /\ h.reqIndex = i
  BY DEF Handles

(* Linking behind the tail appends, as long as the tail is the last.       *)
LEMMA LinkedPuts ==
  ASSUME NEW list \in Seq(Slots), Once(list), NEW tail, NEW rl \in Slots,
         list # <<>> => tail = Last(list)
  PROVE  Linked(list, tail, rl) = Append(list, rl)
<1>1. CASE list = <<>>
  BY <1>1 DEF Linked
<1>2. CASE list # <<>>
  <2>1. PICK n \in Nat \ {0} : n = Len(list) /\ DOMAIN list = 1 .. n
    BY <1>2, SeqFacts
  <2>2. {k \in DOMAIN list : list[k] = tail} = {n}
    BY <1>2, <2>1 DEF Once, Last
  <2>3. SubSeq(list, 1, n) = list
    <3>1. /\ list \in [1 .. n -> Slots]
          /\ \A j \in 1 .. n : list[j] \in Slots
      BY <2>1, SeqFacts
    <3>2. /\ SubSeq(list, 1, n) \in Seq(Slots)
          /\ Len(SubSeq(list, 1, n)) = IF 1 <= n THEN n - 1 + 1 ELSE 0
          /\ \A j \in 1 .. n - 1 + 1 : SubSeq(list, 1, n)[j] = list[1 + j - 1]
      BY <2>1, <3>1, SubSeqProperties
    <3>3. Len(SubSeq(list, 1, n)) = Len(list) /\ \A j \in 1 .. Len(list) : SubSeq(list, 1, n)[j] = list[j]
      BY <2>1, <3>2
    <3> QED
      BY <3>2, <3>3, SeqEqual
  <2>4. (CHOOSE k \in {k \in DOMAIN list : list[k] = tail} : TRUE) = n
    BY <2>2
  <2>5. Append(list, rl) = list \o <<rl>>
    BY AppendIsConcat
  <2> QED
    BY <1>2, <2>2, <2>3, <2>4, <2>5 DEF Linked
<1> QED
  BY <1>1, <1>2

(* The types of the lists.                                                 *)
ListTypes ==
  /\ requestList \in [Queues -> Seq(Slots)]
  /\ requestListTail \in [Queues -> Slots \cup {None}]

(* One list changes, with its tail, and so does the one slot it gains or   *)
(* loses.                                                                  *)
LEMMA OneListChanges ==
  ASSUME ListsOK, ListTypes, NEW h \in Handles,
         NEW t \in Seq(Slots), NEW z \in Slots \cup {None}, Once(t),
         z = IF t = <<>> THEN None ELSE Last(t),
         requestList' = [requestList EXCEPT ![h.qType] = t],
         requestListTail' = [requestListTail EXCEPT ![h.qType] = z],
         \A i \in Slots : i # h.reqIndex => (i \in Range(t) <=> i \in Range(requestList[h.qType])),
         h.reqIndex \in Range(t) <=> req'[h].callStatus = "PENDING",
         \A g \in Handles \ {h} : req'[g].callStatus = req[g].callStatus
  PROVE  ListsOK' /\ ListTypes'
<1>1. /\ h.qType \in Queues
      /\ \A q \in Queues : q # h.qType =>
            requestList'[q] = requestList[q] /\ requestListTail'[q] = requestListTail[q]
      /\ requestList'[h.qType] = t /\ requestListTail'[h.qType] = z
  BY HandleFacts DEF ListTypes
<1>2. ListTypes'
  BY <1>1 DEF ListTypes
<1>3. ASSUME NEW q \in Queues
      PROVE  /\ Once(requestList'[q])
             /\ requestListTail'[q] = IF requestList'[q] = <<>> THEN None ELSE Last(requestList'[q])
  BY <1>1 DEF ListsOK
<1>4. ASSUME NEW g \in Handles
      PROVE  g.reqIndex \in Range(requestList'[g.qType]) <=> req'[g].callStatus = "PENDING"
  <2>1. CASE g = h
    BY <1>1, <2>1
  <2>2. CASE g # h /\ g.qType = h.qType
    <3>1. g.reqIndex # h.reqIndex /\ g.reqIndex \in Slots
      BY <2>2, HandleFacts
    <3>2. g.reqIndex \in Range(requestList[g.qType]) <=> req[g].callStatus = "PENDING"
      BY DEF ListsOK
    <3> QED
      BY <1>1, <2>2, <3>1, <3>2
  <2>3. CASE g.qType # h.qType
    <3>1. g # h /\ g.qType \in Queues
      BY <2>3, HandleFacts
    <3>2. g.reqIndex \in Range(requestList[g.qType]) <=> req[g].callStatus = "PENDING"
      BY DEF ListsOK
    <3> QED
      BY <1>1, <2>3, <3>1, <3>2
  <2> QED
    BY <2>1, <2>2, <2>3
<1> QED
  BY <1>2, <1>3, <1>4 DEF ListsOK

(* Lists that stay, of slots whose requests stay pending or not pending.   *)
LEMMA ListsStay ==
  ASSUME ListsOK, ListTypes, UNCHANGED queue,
         \A g \in Handles : req'[g].callStatus = "PENDING" <=> req[g].callStatus = "PENDING"
  PROVE  ListsOK' /\ ListTypes'
  BY DEF ListsOK, ListTypes, queue

(* A request is put on its list ...                                        *)
LEMMA EnqueuePuts ==
  ASSUME ListsOK, ListTypes, NEW h \in Handles, req[h].callStatus # "PENDING", Enqueue(h),
         req'[h].callStatus = "PENDING",
         \A g \in Handles \ {h} : req'[g].callStatus = req[g].callStatus
  PROVE  ListsOK' /\ ListTypes'
<1>1. PICK s \in Seq(Slots) : s = requestList[h.qType]
  BY HandleFacts DEF ListTypes
<1>2. /\ Once(s) /\ h.reqIndex \notin Range(s) /\ h.reqIndex \in Slots
      /\ s # <<>> => requestListTail[h.qType] = Last(s)
  BY <1>1, HandleFacts DEF ListsOK
<1>3. PICK t : t = Append(s, h.reqIndex)
  OBVIOUS
<1>4. /\ requestList' = [requestList EXCEPT ![h.qType] = t]
      /\ requestListTail' = [requestListTail EXCEPT ![h.qType] = h.reqIndex]
  BY <1>1, <1>2, <1>3, LinkedPuts DEF Enqueue
<1>5. t \in Seq(Slots) /\ t # <<>> /\ Once(t) /\ Last(t) = h.reqIndex /\ Range(t) = Range(s) \cup {h.reqIndex}
  <2>1. PICK x \in Slots : x = h.reqIndex
    BY <1>2
  <2>2. Once(s) /\ x \notin Range(s)
    BY <1>2, <2>1
  <2>3. /\ Append(s, x) \in Seq(Slots) /\ Append(s, x) # <<>> /\ Once(Append(s, x))
        /\ Last(Append(s, x)) = x /\ Range(Append(s, x)) = Range(s) \cup {x}
    BY <2>2, SeqPut
  <2> QED
    BY <1>3, <2>1, <2>3
<1> QED
  BY <1>1, <1>2, <1>4, <1>5, OneListChanges

(* ... a helper world takes the first one off ...                          *)
LEMMA DequeueTakes ==
  ASSUME ListsOK, ListTypes, NEW h \in Handles, requestList[h.qType] # <<>>,
         h.reqIndex = Head(requestList[h.qType]),
         requestList' = [requestList EXCEPT ![h.qType] = Tail(@)],
         requestListTail' = [requestListTail EXCEPT ![h.qType] = IF @ = h.reqIndex THEN None ELSE @],
         req'[h].callStatus # "PENDING",
         \A g \in Handles \ {h} : req'[g].callStatus = req[g].callStatus
  PROVE  ListsOK' /\ ListTypes'
<1>1. PICK s \in Seq(Slots) : s = requestList[h.qType] /\ s # <<>>
  BY HandleFacts DEF ListTypes
<1>2. Once(s) /\ h.qType \in Queues /\ requestListTail[h.qType] = Last(s)
  BY <1>1, HandleFacts DEF ListsOK
<1>3. PICK t : t = Tail(s)
  OBVIOUS
<1>4. /\ t \in Seq(Slots) /\ Once(t) /\ h.reqIndex \in Slots
      /\ Range(t) = Range(s) \ {h.reqIndex}
      /\ t = <<>> => Last(s) = h.reqIndex
      /\ t # <<>> => Last(t) = Last(s) /\ Last(s) # h.reqIndex
  <2>1. /\ t \in Seq(Slots) /\ Once(t) /\ Head(s) \in Slots /\ Head(s) \in Range(s)
        /\ Range(t) = Range(s) \ {Head(s)}
        /\ t = <<>> => Last(s) = Head(s)
        /\ t # <<>> => Last(t) = Last(s) /\ Last(s) # Head(s)
    BY <1>1, <1>2, <1>3, SeqTake
  <2> QED
    BY <1>1, <2>1
<1>5. PICK z : z = IF t = <<>> THEN None ELSE Last(t)
  OBVIOUS
<1>6. z = (IF Last(s) = h.reqIndex THEN None ELSE Last(s)) /\ z \in Slots \cup {None}
  BY <1>1, <1>4, <1>5, SeqFacts
<1>7. /\ requestList' = [requestList EXCEPT ![h.qType] = t]
      /\ requestListTail' = [requestListTail EXCEPT ![h.qType] = z]
  BY <1>1, <1>2, <1>3, <1>6
<1> QED
  BY <1>1, <1>4, <1>5, <1>6, <1>7, OneListChanges

(* ... and a cancel takes one out.                                         *)
LEMMA UnlinkTakes ==
  ASSUME ListsOK, ListTypes, NEW h \in Handles, req[h].callStatus = "PENDING", Unlink(h),
         req'[h].callStatus # "PENDING",
         \A g \in Handles \ {h} : req'[g].callStatus = req[g].callStatus
  PROVE  ListsOK' /\ ListTypes'
<1>1. PICK s \in Seq(Slots) : s = requestList[h.qType]
  BY HandleFacts DEF ListTypes
<1>2. PICK k : k = CHOOSE i \in DOMAIN s : s[i] = h.reqIndex
  OBVIOUS
<1>3. k \in DOMAIN s /\ s[k] = h.reqIndex
  <2>1. h.reqIndex \in Range(s)
    BY <1>1 DEF ListsOK
  <2> QED
    BY <1>2, <2>1 DEF Range
<1>4. s # <<>>
  BY <1>3
<1>5. Once(s) /\ h.qType \in Queues /\ requestListTail[h.qType] = Last(s)
  BY <1>1, <1>4, HandleFacts DEF ListsOK
<1>6. PICK t : t = RemoveAt(s, k)
  OBVIOUS
<1>7. /\ t \in Seq(Slots) /\ Once(t) /\ Range(t) = Range(s) \ {h.reqIndex}
      /\ h.reqIndex = Last(s) => (k = 1 <=> t = <<>>) /\ (k # 1 => s[k - 1] \in Slots /\ Last(t) = s[k - 1])
      /\ h.reqIndex # Last(s) => t # <<>> /\ Last(t) = Last(s)
  <2>1. /\ t \in Seq(Slots) /\ Once(t) /\ Range(t) = Range(s) \ {s[k]}
        /\ s[k] = Last(s) => (k = 1 <=> t = <<>>) /\ (k # 1 => s[k - 1] \in Slots /\ Last(t) = s[k - 1])
        /\ s[k] # Last(s) => t # <<>> /\ Last(t) = Last(s)
    BY <1>3, <1>5, <1>6, SeqRemove
  <2> QED
    BY <1>3, <2>1
<1>8. PICK z : z = IF t = <<>> THEN None ELSE Last(t)
  OBVIOUS
<1>9. z = IF Last(s) = h.reqIndex THEN (IF k = 1 THEN None ELSE s[k - 1]) ELSE Last(s)
  BY <1>7, <1>8
<1>10. z \in Slots \cup {None}
  BY <1>7, <1>8, SeqFacts
<1>11. /\ requestList' = [requestList EXCEPT ![h.qType] = t]
       /\ requestListTail' = [requestListTail EXCEPT ![h.qType] = z]
  BY <1>1, <1>2, <1>5, <1>6, <1>9 DEF Unlink
<1> QED
  BY <1>1, <1>7, <1>8, <1>10, <1>11, OneListChanges

-------------------------------------------------------------------------------
(* The slots, helper worlds and contexts a step does not touch.            *)
SlotOnly(h) == \A g \in Handles \ {h} : req'[g] = req[g]
HelperOnly(w) == \A v \in Helpers \ {w} : helper'[v] = helper[v]
ClientOnly(c) == \A d \in Clients \ {c} : client'[d] = client[d]

SlotRecords ==
  [callStatus : {"FREE", "PENDING", "ACTIVE", "DONE"}, isSync : BOOLEAN,
   cosWaiter : Clients \cup {None}, job : 0 .. MaxJobs, made : {"sync", "async"}]
HelperRecords ==
  [pc : {"idle", "call", "running", "notify"}, request : Handles \cup {None},
   called : {"sync", "async"}, cosWaiter : Clients \cup {None}]
ClientRecords ==
  [pc : {"idle", "has", "asleep", "status", "cancel"}, handle : Handles \cup {None}, job : 0 .. MaxJobs]

(* TypeOK in parts.                                                        *)
RestTypes ==
  /\ waitEvent \in [Helpers -> Queues \cup {NoEvent}]
  /\ ring \in Seq(Clients) /\ lastJob \in 0 .. MaxJobs /\ handled \subseteq Jobs

(* The parts are all of it.                                                *)
LEMMA TypeParts ==
  TypeOK <=> /\ req \in [Handles -> SlotRecords] /\ helper \in [Helpers -> HelperRecords]
             /\ client \in [Clients -> ClientRecords] /\ ListTypes /\ RestTypes
  BY DEF TypeOK, SlotRecords, HelperRecords, ClientRecords, ListTypes, RestTypes

(* ... and of the next state.                                              *)
LEMMA TypePartsNext ==
  TypeOK' <=> /\ req' \in [Handles -> SlotRecords] /\ helper' \in [Helpers -> HelperRecords]
              /\ client' \in [Clients -> ClientRecords] /\ ListTypes' /\ RestTypes'
  BY DEF TypeOK, SlotRecords, HelperRecords, ClientRecords, ListTypes, RestTypes

(* A slot is given a record ...                                            *)
LEMMA SlotSet ==
  ASSUME req \in [Handles -> SlotRecords], NEW h \in Handles, NEW r \in SlotRecords,
         req' = [req EXCEPT ![h] = r]
  PROVE  req' \in [Handles -> SlotRecords] /\ SlotOnly(h) /\ req'[h] = r
  BY DEF SlotOnly

(* ... a helper world ...                                                  *)
LEMMA HelperSet ==
  ASSUME helper \in [Helpers -> HelperRecords], NEW w \in Helpers, NEW r \in HelperRecords,
         helper' = [helper EXCEPT ![w] = r]
  PROVE  helper' \in [Helpers -> HelperRecords] /\ HelperOnly(w) /\ helper'[w] = r
  BY DEF HelperOnly

(* ... or a context.                                                       *)
LEMMA ClientSet ==
  ASSUME client \in [Clients -> ClientRecords], NEW c \in Clients, NEW r \in ClientRecords,
         client' = [client EXCEPT ![c] = r]
  PROVE  client' \in [Clients -> ClientRecords] /\ ClientOnly(c) /\ client'[c] = r
  BY DEF ClientOnly

(* Records of those that do nothing.                                       *)
LEMMA FreeFacts ==
  /\ FreeSlot \in SlotRecords /\ FreeSlot.callStatus = "FREE"
  /\ IdleHelper \in HelperRecords /\ IdleHelper.pc = "idle" /\ IdleHelper.request = None
  /\ IdleClient \in ClientRecords /\ IdleClient.pc = "idle" /\ IdleClient.handle = None
  BY HelperBounds DEF FreeSlot, IdleHelper, IdleClient, SlotRecords, HelperRecords, ClientRecords

(* A new request in a free slot, on its list.                              *)
LEMMA Placed ==
  ASSUME HelperInv, NEW h \in Handles, NEW b \in BOOLEAN, NEW m \in {"sync", "async"},
         NewJob, HelperAllocRequest(h.qType, h), Enqueue(h),
         req' = [req EXCEPT ![h] = [callStatus |-> "PENDING", isSync |-> b, cosWaiter |-> None,
                                    job |-> lastJob', made |-> m]],
         UNCHANGED <<helper, ring, handled>>,
         \A c \in Clients : /\ client'[c].pc = "cancel" <=> client[c].pc = "cancel"
                            /\ client[c].pc = "cancel" => client'[c] = client[c]
  PROVE  /\ req' \in [Handles -> SlotRecords] /\ SlotOnly(h) /\ lastJob' \in 0 .. MaxJobs
         /\ req[h].callStatus = "FREE" /\ req'[h].callStatus = "PENDING"
         /\ req'[h].isSync = b /\ req'[h].job = lastJob'
         /\ ListsOK' /\ ListTypes' /\ RestTypes' /\ HandsOK' /\ JobsOK'
<1>1. /\ req \in [Handles -> SlotRecords] /\ helper \in [Helpers -> HelperRecords]
      /\ client \in [Clients -> ClientRecords] /\ ListTypes /\ RestTypes
  BY TypeParts DEF HelperInv
<1>2. PICK l \in 0 .. MaxJobs : l = lastJob /\ lastJob' = l + 1 /\ l + 1 \in 0 .. MaxJobs
  BY <1>1, HelperBounds DEF NewJob, RestTypes
<1>3. PICK r : r = [callStatus |-> "PENDING", isSync |-> b, cosWaiter |-> None, job |-> lastJob', made |-> m]
  OBVIOUS
<1>4. /\ r \in SlotRecords /\ r.callStatus = "PENDING" /\ r.isSync = b /\ r.job = l + 1
  BY <1>2, <1>3 DEF SlotRecords
<1>5. /\ req' \in [Handles -> SlotRecords] /\ SlotOnly(h) /\ req'[h] = r
  BY <1>1, <1>3, <1>4, SlotSet
<1>6. req[h].callStatus = "FREE"
  BY DEF HelperAllocRequest
<1>7. ListsOK' /\ ListTypes'
  BY <1>1, <1>4, <1>5, <1>6, EnqueuePuts DEF HelperInv, SlotOnly
<1>8. RestTypes'
  BY <1>1, <1>2 DEF RestTypes, Enqueue, Wakeup
<1>9. HandsOK'
  BY <1>1, <1>4, <1>5, <1>6 DEF HelperInv, HandsOK, SlotOnly, HelperRecords
<1>10. JobsOK'
  <2>1. JobsOK /\ HandsOK
    BY DEF HelperInv
  <2>2. handled' \subseteq 1 .. lastJob'
    BY <1>2, <2>1 DEF JobsOK
  <2>3. ASSUME NEW g \in Handles, req'[g].callStatus # "FREE"
        PROVE  req'[g].job \in 1 .. lastJob' /\ (g # h => req'[g].job # l + 1)
    BY <1>2, <1>4, <1>5, <2>1, <2>3 DEF JobsOK, SlotOnly
  <2>4. ASSUME NEW f \in Handles, NEW g \in Handles,
               req'[f].callStatus # "FREE", req'[g].callStatus # "FREE", req'[f].job = req'[g].job
        PROVE  f = g
    BY <1>4, <1>5, <2>1, <2>3, <2>4 DEF JobsOK, SlotOnly
  <2>5. ASSUME NEW c \in Clients, client'[c].pc = "cancel"
        PROVE  /\ client'[c].job \in 1 .. lastJob'
               /\ \A g \in Handles : req'[g].callStatus # "FREE" => req'[g].job # client'[c].job
               /\ \A d \in Clients : client'[d].pc = "cancel" /\ client'[d].job = client'[c].job => d = c
    BY <1>2, <1>4, <1>5, <2>1, <2>5 DEF JobsOK, SlotOnly
  <2>6. /\ \A j \in 1 .. l : OnList(j)' <=> OnList(j)
        /\ \A j \in 1 .. l : InHelper(j)' <=> InHelper(j)
        /\ \A j \in 1 .. l : InCancel(j)' <=> InCancel(j)
    <3>1. ASSUME NEW j \in 1 .. l PROVE OnList(j)' <=> OnList(j)
      BY <1>2, <1>4, <1>5, <1>6 DEF OnList, SlotOnly
    <3>2. ASSUME NEW w \in Helpers, helper[w].pc = "call" PROVE helper[w].request \in Handles \ {h}
      BY <1>1, <1>6, <2>1, <3>2 DEF HandsOK, HelperRecords
    <3>3. ASSUME NEW j \in 1 .. l PROVE InHelper(j)' <=> InHelper(j)
      BY <1>5, <3>2 DEF InHelper, SlotOnly
    <3>4. ASSUME NEW j \in 1 .. l PROVE InCancel(j)' <=> InCancel(j)
      BY DEF InCancel
    <3> QED
      BY <3>1, <3>3, <3>4
  <2>7. OnList(l + 1)' /\ l + 1 \notin handled
    BY <1>2, <1>4, <1>5, <2>1 DEF OnList, JobsOK
  <2>8. ASSUME NEW j \in 1 .. lastJob' PROVE OnList(j)' \/ InHelper(j)' \/ InCancel(j)' <=> j \notin handled'
    <3>1. CASE j = l + 1
      BY <2>7, <3>1
    <3>2. CASE j # l + 1
      <4>1. j \in 1 .. l
        BY <1>2, <3>2
      <4> QED
        BY <1>2, <2>1, <2>6, <4>1 DEF JobsOK
    <3> QED
      BY <3>1, <3>2
  <2> QED
    BY <2>2, <2>3, <2>4, <2>5, <2>8 DEF JobsOK
<1> QED
  BY <1>2, <1>4, <1>5, <1>6, <1>7, <1>8, <1>9, <1>10

(* Helper_Request.                                                         *)
LEMMA StepRequest ==
  ASSUME HelperInv, NEW h \in Handles, Helper_Request(h)
  PROVE  HelperInv'
<1>1. /\ req' \in [Handles -> SlotRecords] /\ SlotOnly(h) /\ lastJob' \in 0 .. MaxJobs
      /\ req[h].callStatus = "FREE" /\ req'[h].callStatus = "PENDING"
      /\ req'[h].isSync = FALSE /\ req'[h].job = lastJob'
      /\ ListsOK' /\ ListTypes' /\ RestTypes' /\ HandsOK' /\ JobsOK'
  <2>1. \A c \in Clients : /\ client'[c].pc = "cancel" <=> client[c].pc = "cancel"
                           /\ client[c].pc = "cancel" => client'[c] = client[c]
    BY DEF Helper_Request
  <2> QED
    BY <2>1, Placed DEF Helper_Request
<1>2. /\ client \in [Clients -> ClientRecords] /\ helper \in [Helpers -> HelperRecords]
  BY TypeParts DEF HelperInv
<1>3. helper' = helper /\ client' = client
  BY DEF Helper_Request
<1>4. ClientsOK'
  BY <1>1, <1>2, <1>3 DEF HelperInv, ClientsOK, SlotOnly, ClientRecords
<1>5. TypeOK'
  BY <1>1, <1>2, <1>3, TypePartsNext
<1> QED
  BY <1>1, <1>4, <1>5 DEF HelperInv

(* Helper_RequestSync.                                                     *)
LEMMA StepRequestSync ==
  ASSUME HelperInv, NEW c \in Clients, NEW h \in Handles, Helper_RequestSync(c, h)
  PROVE  HelperInv'
<1>1. /\ client \in [Clients -> ClientRecords] /\ helper \in [Helpers -> HelperRecords]
      /\ client[c].pc = "idle" /\ helper' = helper
  BY TypeParts DEF HelperInv, Helper_RequestSync, COSRuns
<1>2. PICK r : r = [pc |-> "has", handle |-> h, job |-> lastJob']
  OBVIOUS
<1>3. lastJob' \in 0 .. MaxJobs
  BY HelperBounds DEF HelperInv, TypeOK, Helper_RequestSync, NewJob
<1>4. r \in ClientRecords /\ r.pc = "has" /\ r.handle = h /\ r.job = lastJob'
  BY <1>2, <1>3 DEF ClientRecords
<1>5. client' \in [Clients -> ClientRecords] /\ ClientOnly(c) /\ client'[c] = r
  BY <1>1, <1>2, <1>4, ClientSet DEF Helper_RequestSync
<1>6. /\ req' \in [Handles -> SlotRecords] /\ SlotOnly(h) /\ lastJob' \in 0 .. MaxJobs
      /\ req[h].callStatus = "FREE" /\ req'[h].callStatus = "PENDING"
      /\ req'[h].isSync = TRUE /\ req'[h].job = lastJob'
      /\ ListsOK' /\ ListTypes' /\ RestTypes' /\ HandsOK' /\ JobsOK'
  <2>1. \A d \in Clients : /\ client'[d].pc = "cancel" <=> client[d].pc = "cancel"
                           /\ client[d].pc = "cancel" => client'[d] = client[d]
    BY <1>1, <1>4, <1>5 DEF ClientOnly
  <2> QED
    BY <2>1, Placed DEF Helper_RequestSync
<1>7. ClientsOK'
  <2>1. ASSUME NEW d \in Clients, d # c PROVE client'[d] = client[d] /\ client[d].handle # h
    BY <1>1, <1>5, <1>6, <2>1, HandleFacts DEF HelperInv, ClientsOK, ClientOnly
  <2>2. client[c].handle = None /\ None \notin Handles
    BY <1>1, HandleFacts DEF HelperInv, ClientsOK
  <2>3. ClientsOK /\ \A d \in Clients : client[d].handle \in Handles \cup {None}
    BY <1>1 DEF HelperInv, ClientRecords
  <2>4. ASSUME NEW d \in Clients
        PROVE  /\ client'[d].pc \in {"has", "asleep", "status"} <=> client'[d].handle # None
               /\ client'[d].handle # None =>
                    /\ req'[client'[d].handle].callStatus # "FREE" /\ req'[client'[d].handle].isSync
                    /\ req'[client'[d].handle].job = client'[d].job
                    /\ \A e \in Clients : client'[e].handle = client'[d].handle => e = d
    <3>1. CASE d = c
      BY <1>4, <1>5, <1>6, <2>1, <2>2, <3>1
    <3>2. CASE d # c
      <4>1. client'[d] = client[d] /\ client[d].handle # h
        BY <2>1, <3>2
      <4>2. client[d].handle # None => req'[client[d].handle] = req[client[d].handle]
        BY <1>6, <2>3, <4>1 DEF SlotOnly
      <4>3. \A e \in Clients : client'[e].handle = client'[d].handle => e = c \/ client'[e] = client[e]
        BY <2>1
      <4> QED
        BY <1>4, <1>5, <2>3, <4>1, <4>2, <4>3 DEF ClientsOK
    <3> QED
      BY <3>1, <3>2
  <2>5. ASSUME NEW g \in Handles,
               req'[g].callStatus = "DONE" \/ (req'[g].callStatus # "FREE" /\ req'[g].isSync)
        PROVE  \E d \in Clients : client'[d].handle = g
    <3>1. CASE g = h
      BY <1>4, <1>5, <3>1
    <3>2. CASE g # h
      <4>1. PICK d \in Clients : client[d].handle = g
        BY <1>6, <2>3, <2>5, <3>2 DEF ClientsOK, SlotOnly
      <4> QED
        BY <2>1, <2>2, <4>1
    <3> QED
      BY <3>1, <3>2
  <2> QED
    BY <2>4, <2>5 DEF ClientsOK
<1>8. TypeOK'
  BY <1>1, <1>5, <1>6, TypePartsNext
<1> QED
  BY <1>6, <1>7, <1>8 DEF HelperInv

-------------------------------------------------------------------------------
(* Steps that hand nothing over.                                           *)
LEMMA Quiet ==
  ASSUME HelperInv, UNCHANGED <<queue, lastJob, handled>>,
         \A g \in Handles : /\ req'[g].callStatus = req[g].callStatus
                            /\ req'[g].isSync = req[g].isSync /\ req'[g].job = req[g].job,
         \A w \in Helpers : /\ helper'[w].request = helper[w].request
                            /\ helper'[w].pc = "call" <=> helper[w].pc = "call"
                            /\ helper'[w].pc \in {"call", "running"} <=> helper[w].pc \in {"call", "running"}
                            /\ helper'[w].pc = "notify" => helper'[w].cosWaiter # None,
         \A c \in Clients : /\ client'[c].handle = client[c].handle /\ client'[c].job = client[c].job
                            /\ client'[c].pc = "cancel" <=> client[c].pc = "cancel"
                            /\ client'[c].pc \in {"has", "asleep", "status"}
                               <=> client[c].pc \in {"has", "asleep", "status"}
  PROVE  ListsOK' /\ ListTypes' /\ HandsOK' /\ ClientsOK' /\ JobsOK'
<1>1. /\ helper \in [Helpers -> HelperRecords] /\ client \in [Clients -> ClientRecords] /\ ListTypes
      /\ ListsOK /\ HandsOK /\ ClientsOK /\ JobsOK
  BY TypeParts DEF HelperInv
<1>2. ListsOK' /\ ListTypes'
  BY <1>1, ListsStay
<1>3. /\ \A w \in Helpers : helper[w].request \in Handles \cup {None}
      /\ \A c \in Clients : client[c].handle \in Handles \cup {None}
  BY <1>1 DEF HelperRecords, ClientRecords
<1>4. HandsOK'
  BY <1>1, <1>3 DEF HandsOK
<1>5. ClientsOK'
  BY <1>1, <1>3 DEF ClientsOK
<1>6. \A w \in Helpers : helper[w].pc = "call" => helper[w].request \in Handles
  BY <1>1, <1>3 DEF HandsOK
<1>7. JobsOK'
  <2>1. ASSUME NEW j \in 1 .. lastJob
        PROVE  (OnList(j)' <=> OnList(j)) /\ (InHelper(j)' <=> InHelper(j)) /\ (InCancel(j)' <=> InCancel(j))
    BY <1>6 DEF OnList, InHelper, InCancel
  <2> QED
    BY <1>1, <2>1 DEF JobsOK
<1> QED
  BY <1>2, <1>4, <1>5, <1>7

(* Helper_SetCOSContext sets the waiter and sends the context to sleep.    *)
LEMMA StepSetCOSContext ==
  ASSUME HelperInv, NEW c \in Clients, Helper_SetCOSContext(c)
  PROVE  HelperInv'
<1>1. /\ req \in [Handles -> SlotRecords] /\ helper \in [Helpers -> HelperRecords]
      /\ client \in [Clients -> ClientRecords] /\ RestTypes /\ HandsOK /\ ClientsOK
  BY TypeParts DEF HelperInv
<1>2. PICK h \in Handles : h = client[c].handle
  BY <1>1 DEF Helper_SetCOSContext, COSRuns, ClientsOK, ClientRecords
<1>3. req' = [req EXCEPT ![h].cosWaiter = c] /\ client[c].pc = "has"
  BY <1>2 DEF Helper_SetCOSContext, COSRuns
<1>4. /\ req' \in [Handles -> SlotRecords]
      /\ \A g \in Handles : /\ req'[g].callStatus = req[g].callStatus
                            /\ req'[g].isSync = req[g].isSync /\ req'[g].job = req[g].job
  BY <1>1, <1>3 DEF SlotRecords
<1>5. client' = [client EXCEPT ![c].pc = "asleep"] \/ client' = client
  BY DEF Helper_SetCOSContext
<1>6. /\ client' \in [Clients -> ClientRecords]
      /\ \A d \in Clients : /\ client'[d].handle = client[d].handle /\ client'[d].job = client[d].job
                            /\ client'[d].pc = "cancel" <=> client[d].pc = "cancel"
                            /\ client'[d].pc \in {"has", "asleep", "status"}
                               <=> client[d].pc \in {"has", "asleep", "status"}
  BY <1>1, <1>3, <1>5 DEF ClientRecords
<1>7. UNCHANGED <<queue, waitEvent, helper, ring, lastJob, handled>>
  BY DEF Helper_SetCOSContext
<1>8. ListsOK' /\ ListTypes' /\ HandsOK' /\ ClientsOK' /\ JobsOK'
  BY <1>1, <1>4, <1>6, <1>7, Quiet DEF HandsOK
<1>9. TypeOK'
  BY <1>1, <1>4, <1>6, <1>7, <1>8, TypePartsNext DEF RestTypes
<1> QED
  BY <1>8, <1>9 DEF HelperInv

(* The steps of a context between its calls: the look without the lock,    *)
(* the interrupt and a signal.                                             *)
LEMMA StepContext ==
  ASSUME HelperInv, NEW c \in Clients, Helper_RequestStatus(c) \/ COSSignal(c) \/ (COSInterrupt /\ c = Head(ring))
  PROVE  HelperInv'
<1>1. /\ req \in [Handles -> SlotRecords] /\ helper \in [Helpers -> HelperRecords]
      /\ client \in [Clients -> ClientRecords] /\ RestTypes /\ HandsOK
  BY TypeParts DEF HelperInv
<1>2. UNCHANGED <<req, queue, waitEvent, helper, lastJob, handled>>
  BY DEF Helper_RequestStatus, COSSignal, COSInterrupt
<1>3. \/ client' = client
      \/ /\ client[c].pc \in {"has", "asleep"}
         /\ \E to \in {"has", "status"} : client' = [client EXCEPT ![c].pc = to]
  BY DEF Helper_RequestStatus, COSSignal, COSInterrupt, COSRuns
<1>4. /\ client' \in [Clients -> ClientRecords]
      /\ \A d \in Clients : /\ client'[d].handle = client[d].handle /\ client'[d].job = client[d].job
                            /\ client'[d].pc = "cancel" <=> client[d].pc = "cancel"
                            /\ client'[d].pc \in {"has", "asleep", "status"}
                               <=> client[d].pc \in {"has", "asleep", "status"}
  BY <1>1, <1>3 DEF ClientRecords
<1>5. ListsOK' /\ ListTypes' /\ HandsOK' /\ ClientsOK' /\ JobsOK'
  BY <1>1, <1>2, <1>4, Quiet DEF HandsOK
<1>6. ring' \in Seq(Clients)
  <2>1. ring \in Seq(Clients) /\ (ring' = ring \/ (ring # <<>> /\ ring' = Tail(ring)))
    BY <1>1 DEF RestTypes, Helper_RequestStatus, COSSignal, COSInterrupt
  <2> QED
    BY <2>1, HeadTailProperties
<1>7. TypeOK'
  BY <1>1, <1>2, <1>4, <1>5, <1>6, TypePartsNext DEF RestTypes
<1> QED
  BY <1>5, <1>7 DEF HelperInv

(* A helper world goes to sleep, or reports a completion in the ring.      *)
LEMMA StepHelperAlone ==
  ASSUME HelperInv, NEW w \in Helpers, HelperSleep(w) \/ HelperNotifyVMnix(w)
  PROVE  HelperInv'
<1>1. /\ req \in [Handles -> SlotRecords] /\ helper \in [Helpers -> HelperRecords]
      /\ client \in [Clients -> ClientRecords] /\ RestTypes /\ HandsOK
  BY TypeParts DEF HelperInv
<1>2. UNCHANGED <<req, queue, client, lastJob, handled>>
  BY DEF HelperSleep, HelperNotifyVMnix
<1>3. CASE HelperSleep(w)
  <2>1. helper' = helper /\ ring' = ring /\ waitEvent' \in [Helpers -> Queues \cup {NoEvent}]
    BY <1>1, <1>3, HandleFacts DEF HelperSleep, WaitOn, RestTypes
  <2>2. ListsOK' /\ ListTypes' /\ HandsOK' /\ ClientsOK' /\ JobsOK'
    BY <1>1, <1>2, <2>1, Quiet DEF HandsOK
  <2>3. TypeOK'
    BY <1>1, <1>2, <2>1, <2>2, TypePartsNext DEF RestTypes
  <2> QED
    BY <2>2, <2>3 DEF HelperInv
<1>4. CASE HelperNotifyVMnix(w)
  <2>1. /\ helper' = [helper EXCEPT ![w] = IdleHelper] /\ waitEvent' = waitEvent
        /\ ring' = Append(ring, helper[w].cosWaiter) /\ helper[w].pc = "notify"
    BY <1>4 DEF HelperNotifyVMnix, HelperRuns
  <2>2. helper[w].cosWaiter \in Clients /\ helper[w].request = None
    BY <1>1, <2>1 DEF HandsOK, HelperRecords
  <2>3. helper' \in [Helpers -> HelperRecords] /\ HelperOnly(w) /\ helper'[w] = IdleHelper
    BY <1>1, <2>1, HelperSet, FreeFacts
  <2>4. \A v \in Helpers : /\ helper'[v].request = helper[v].request
                           /\ helper'[v].pc = "call" <=> helper[v].pc = "call"
                           /\ helper'[v].pc \in {"call", "running"} <=> helper[v].pc \in {"call", "running"}
                           /\ helper'[v].pc = "notify" => helper'[v].cosWaiter # None
    BY <1>1, <2>1, <2>2, <2>3, FreeFacts DEF HelperOnly, HandsOK
  <2>5. ListsOK' /\ ListTypes' /\ HandsOK' /\ ClientsOK' /\ JobsOK'
    BY <1>2, <2>4, Quiet
  <2>6. ring' \in Seq(Clients)
    BY <1>1, <2>1, <2>2, AppendProperties DEF RestTypes
  <2>7. TypeOK'
    BY <1>1, <1>2, <2>1, <2>3, <2>5, <2>6, TypePartsNext DEF RestTypes
  <2> QED
    BY <2>5, <2>7 DEF HelperInv
<1> QED
  BY <1>3, <1>4

-------------------------------------------------------------------------------
(* Helper worlds keep what they have as long as active requests stay so.   *)
LEMMA HandsStay ==
  ASSUME HandsOK, helper \in [Helpers -> HelperRecords], helper' = helper,
         \A g \in Handles : req'[g].callStatus = "ACTIVE" <=> req[g].callStatus = "ACTIVE"
  PROVE  HandsOK'
  BY DEF HandsOK, HelperRecords

(* A context that lets go of its request leaves the others theirs.         *)
LEMMA LetsGo ==
  ASSUME ClientsOK, client \in [Clients -> ClientRecords], NEW c \in Clients, NEW h \in Handles,
         client[c].handle = h, SlotOnly(h), ClientOnly(c), client'[c].handle = None,
         client'[c].pc \notin {"has", "asleep", "status"},
         req'[h].callStatus = "FREE" \/ (req'[h].callStatus # "DONE" /\ req'[h].isSync = FALSE)
  PROVE  ClientsOK'
<1>1. \A d \in Clients : client[d].handle \in Handles \cup {None}
  BY DEF ClientRecords
<1>2. \A d \in Clients \ {c} : client'[d] = client[d] /\ client[d].handle # h
  BY HandleFacts DEF ClientsOK, ClientOnly
<1>3. \A d \in Clients \ {c} : client[d].handle # None => req'[client[d].handle] = req[client[d].handle]
  BY <1>1, <1>2 DEF SlotOnly
<1>4. ASSUME NEW d \in Clients
      PROVE  /\ client'[d].pc \in {"has", "asleep", "status"} <=> client'[d].handle # None
             /\ client'[d].handle # None =>
                  /\ req'[client'[d].handle].callStatus # "FREE" /\ req'[client'[d].handle].isSync
                  /\ req'[client'[d].handle].job = client'[d].job
                  /\ \A e \in Clients : client'[e].handle = client'[d].handle => e = d
  BY <1>2, <1>3 DEF ClientsOK
<1>5. ASSUME NEW g \in Handles,
             req'[g].callStatus = "DONE" \/ (req'[g].callStatus # "FREE" /\ req'[g].isSync)
      PROVE  \E d \in Clients : client'[d].handle = g
  <2>1. g # h /\ req'[g] = req[g]
    BY <1>5 DEF SlotOnly
  <2>2. PICK d \in Clients : client[d].handle = g
    BY <1>5, <2>1 DEF ClientsOK
  <2> QED
    BY <1>2, <2>1, <2>2
<1> QED
  BY <1>4, <1>5 DEF ClientsOK

(* Jobs when no slot is filled and nobody begins to cancel.                *)
LEMMA JobsStay ==
  ASSUME JobsOK, UNCHANGED <<lastJob, handled>>,
         \A g \in Handles : req'[g].callStatus # "FREE" => req[g].callStatus # "FREE" /\ req'[g].job = req[g].job,
         \A d \in Clients : client'[d].pc = "cancel" => client'[d] = client[d],
         \A j \in 1 .. lastJob : OnList(j)' \/ InHelper(j)' \/ InCancel(j)' <=> OnList(j) \/ InHelper(j) \/ InCancel(j)
  PROVE  JobsOK'
<1>1. /\ \A h \in Handles : req'[h].callStatus # "FREE" => req'[h].job \in 1 .. lastJob
      /\ \A g, h \in Handles :
           req'[g].callStatus # "FREE" /\ req'[h].callStatus # "FREE" /\ req'[g].job = req'[h].job => g = h
  BY DEF JobsOK
<1>2. \A c \in Clients : client'[c].pc = "cancel" =>
        /\ client'[c].job \in 1 .. lastJob
        /\ \A h \in Handles : req'[h].callStatus # "FREE" => req'[h].job # client'[c].job
        /\ \A d \in Clients : client'[d].pc = "cancel" /\ client'[d].job = client'[c].job => d = c
  BY DEF JobsOK
<1> QED
  BY <1>1, <1>2 DEF JobsOK

(* Helper_RequestStatus under the lock: the request is done and its slot   *)
(* is freed, or the context goes on waiting for it.                        *)
LEMMA StepStatusLocked ==
  ASSUME HelperInv, NEW c \in Clients, RequestStatusLocked(c)
  PROVE  HelperInv'
<1>1. /\ req \in [Handles -> SlotRecords] /\ helper \in [Helpers -> HelperRecords]
      /\ client \in [Clients -> ClientRecords] /\ ListTypes /\ RestTypes
      /\ ListsOK /\ HandsOK /\ ClientsOK /\ JobsOK
  BY TypeParts DEF HelperInv
<1>2. UNCHANGED <<queue, waitEvent, helper, ring, lastJob, handled>> /\ client[c].pc = "status"
  BY DEF RequestStatusLocked, COSRuns
<1>3. PICK h \in Handles : h = client[c].handle /\ req[h].callStatus # "FREE"
  BY <1>1, <1>2 DEF ClientsOK, ClientRecords
<1>4. CASE req[h].callStatus = "DONE"
  <2>1. req' = [req EXCEPT ![h] = FreeSlot] /\ client' = [client EXCEPT ![c] = IdleClient]
    BY <1>3, <1>4 DEF RequestStatusLocked
  <2>2. req' \in [Handles -> SlotRecords] /\ SlotOnly(h) /\ req'[h].callStatus = "FREE"
    BY <1>1, <2>1, SlotSet, FreeFacts
  <2>3. /\ client' \in [Clients -> ClientRecords] /\ ClientOnly(c)
        /\ client'[c].handle = None /\ client'[c].pc = "idle"
    BY <1>1, <2>1, ClientSet, FreeFacts
  <2>4. ListsOK' /\ ListTypes'
    BY <1>1, <1>2, <1>4, <2>2, ListsStay DEF SlotOnly
  <2>5. HandsOK'
    BY <1>1, <1>2, <1>4, <2>2, HandsStay DEF SlotOnly
  <2>6. ClientsOK'
    BY <1>1, <1>3, <2>2, <2>3, LetsGo
  <2>7. JobsOK'
    <3>1. ASSUME NEW j \in 1 .. lastJob PROVE OnList(j)' <=> OnList(j)
      BY <1>4, <2>2 DEF OnList, SlotOnly
    <3>2. ASSUME NEW v \in Helpers, helper[v].pc = "call" PROVE helper[v].request \in Handles \ {h}
      BY <1>1, <1>4, <3>2 DEF HandsOK, HelperRecords
    <3>3. ASSUME NEW j \in 1 .. lastJob PROVE InHelper(j)' <=> InHelper(j)
      BY <1>2, <2>2, <3>2 DEF InHelper, SlotOnly
    <3>4. ASSUME NEW j \in 1 .. lastJob PROVE InCancel(j)' <=> InCancel(j)
      BY <1>2, <2>3 DEF InCancel, ClientOnly
    <3>5. \A d \in Clients : client'[d].pc = "cancel" => client'[d] = client[d]
      BY <2>3 DEF ClientOnly
    <3>6. \A g \in Handles : req'[g].callStatus # "FREE" => req[g].callStatus # "FREE" /\ req'[g].job = req[g].job
      BY <2>2 DEF SlotOnly
    <3> QED
      BY <1>1, <1>2, <3>1, <3>3, <3>4, <3>5, <3>6, JobsStay
  <2>8. TypeOK'
    BY <1>1, <1>2, <2>2, <2>3, <2>4, TypePartsNext DEF RestTypes
  <2> QED
    BY <2>4, <2>5, <2>6, <2>7, <2>8 DEF HelperInv
<1>5. CASE req[h].callStatus # "DONE"
  <2>1. req[h].callStatus \in {"PENDING", "ACTIVE"}
    BY <1>1, <1>3, <1>5 DEF SlotRecords
  <2>2. req' = req /\ client' = [client EXCEPT ![c] = [@ EXCEPT !.pc = "has"]]
    BY <1>3, <1>5, <2>1 DEF RequestStatusLocked
  <2>3. /\ client' \in [Clients -> ClientRecords]
        /\ \A d \in Clients : /\ client'[d].handle = client[d].handle /\ client'[d].job = client[d].job
                              /\ client'[d].pc = "cancel" <=> client[d].pc = "cancel"
                              /\ client'[d].pc \in {"has", "asleep", "status"}
                                 <=> client[d].pc \in {"has", "asleep", "status"}
    BY <1>1, <1>2, <2>2 DEF ClientRecords
  <2>4. ListsOK' /\ ListTypes' /\ HandsOK' /\ ClientsOK' /\ JobsOK'
    BY <1>1, <1>2, <2>2, <2>3, Quiet DEF HandsOK
  <2>5. TypeOK'
    BY <1>1, <1>2, <2>2, <2>3, <2>4, TypePartsNext DEF RestTypes
  <2> QED
    BY <2>4, <2>5 DEF HelperInv
<1> QED
  BY <1>4, <1>5

(* A forced cancel of an active request: the helper world keeps it.        *)
LEMMA StepCancelForced ==
  ASSUME HelperInv, NEW c \in Clients, CancelForced(c)
  PROVE  HelperInv'
<1>1. /\ req \in [Handles -> SlotRecords] /\ helper \in [Helpers -> HelperRecords]
      /\ client \in [Clients -> ClientRecords] /\ ListTypes /\ RestTypes
      /\ ListsOK /\ HandsOK /\ ClientsOK /\ JobsOK
  BY TypeParts DEF HelperInv
<1>2. UNCHANGED <<queue, waitEvent, helper, ring, lastJob, handled>> /\ client[c].pc = "has"
  BY DEF CancelForced, COSRuns
<1>3. PICK h \in Handles : h = client[c].handle /\ req[h].callStatus = "ACTIVE"
  BY <1>1, <1>2 DEF ClientsOK, ClientRecords, CancelForced
<1>4. req' = [req EXCEPT ![h].isSync = FALSE, ![h].cosWaiter = None] /\ client' = [client EXCEPT ![c] = IdleClient]
  BY <1>3 DEF CancelForced
<1>5. /\ req' \in [Handles -> SlotRecords] /\ SlotOnly(h)
      /\ req'[h].isSync = FALSE /\ req'[h].callStatus = "ACTIVE" /\ req'[h].job = req[h].job
  <2>1. PICK r : r = [req[h] EXCEPT !.isSync = FALSE, !.cosWaiter = None]
    OBVIOUS
  <2>2. r \in SlotRecords /\ r.isSync = FALSE /\ r.callStatus = "ACTIVE" /\ r.job = req[h].job
    <3>1. PICK a \in SlotRecords : a = req[h]
      BY <1>1
    <3>2. r = [callStatus |-> a.callStatus, isSync |-> FALSE, cosWaiter |-> None, job |-> a.job, made |-> a.made]
      BY <2>1, <3>1 DEF SlotRecords
    <3> QED
      BY <1>3, <3>1, <3>2 DEF SlotRecords
  <2>3. req' = [req EXCEPT ![h] = r]
    BY <1>1, <1>4, <2>1
  <2> QED
    BY <1>1, <2>2, <2>3, SlotSet
<1>6. /\ client' \in [Clients -> ClientRecords] /\ ClientOnly(c)
      /\ client'[c].handle = None /\ client'[c].pc = "idle"
  BY <1>1, <1>4, ClientSet, FreeFacts
<1>7. \A g \in Handles : req'[g].callStatus = req[g].callStatus /\ req'[g].job = req[g].job
  BY <1>3, <1>5 DEF SlotOnly
<1>8. ListsOK' /\ ListTypes'
  BY <1>1, <1>2, <1>7, ListsStay
<1>9. HandsOK'
  BY <1>1, <1>2, <1>7, HandsStay
<1>10. ClientsOK'
  BY <1>1, <1>3, <1>5, <1>6, LetsGo
<1>11. JobsOK'
  <2>1. ASSUME NEW j \in 1 .. lastJob PROVE OnList(j)' <=> OnList(j)
    BY <1>7 DEF OnList
  <2>2. ASSUME NEW v \in Helpers, helper[v].pc = "call" PROVE helper[v].request \in Handles
    BY <1>1, <2>2 DEF HandsOK, HelperRecords
  <2>3. ASSUME NEW j \in 1 .. lastJob PROVE InHelper(j)' <=> InHelper(j)
    BY <1>2, <1>7, <2>2 DEF InHelper
  <2>4. ASSUME NEW j \in 1 .. lastJob PROVE InCancel(j)' <=> InCancel(j)
    BY <1>2, <1>6 DEF InCancel, ClientOnly
  <2>5. \A d \in Clients : client'[d].pc = "cancel" => client'[d] = client[d]
    BY <1>6 DEF ClientOnly
  <2> QED
    BY <1>1, <1>2, <1>7, <2>1, <2>3, <2>4, <2>5, JobsStay
<1>12. TypeOK'
  BY <1>1, <1>2, <1>5, <1>6, <1>8, TypePartsNext DEF RestTypes
<1> QED
  BY <1>8, <1>9, <1>10, <1>11, <1>12 DEF HelperInv

(* A cancel of a pending request: its context has yet to call cancelFn.    *)
LEMMA StepCancelPending ==
  ASSUME HelperInv, NEW c \in Clients, CancelPending(c)
  PROVE  HelperInv'
<1>1. /\ req \in [Handles -> SlotRecords] /\ helper \in [Helpers -> HelperRecords]
      /\ client \in [Clients -> ClientRecords] /\ ListTypes /\ RestTypes
      /\ ListsOK /\ HandsOK /\ ClientsOK /\ JobsOK
  BY TypeParts DEF HelperInv
<1>2. UNCHANGED <<waitEvent, helper, ring, lastJob, handled>> /\ client[c].pc = "has"
  BY DEF CancelPending, COSRuns
<1>3. PICK h \in Handles : h = client[c].handle /\ req[h].callStatus = "PENDING" /\ req[h].job = client[c].job
  BY <1>1, <1>2 DEF ClientsOK, ClientRecords, CancelPending
<1>4. /\ req' = [req EXCEPT ![h] = FreeSlot] /\ Unlink(h)
      /\ client' = [client EXCEPT ![c].pc = "cancel", ![c].handle = None]
  BY <1>3 DEF CancelPending
<1>5. req' \in [Handles -> SlotRecords] /\ SlotOnly(h) /\ req'[h].callStatus = "FREE"
  BY <1>1, <1>4, SlotSet, FreeFacts
<1>6. /\ client' \in [Clients -> ClientRecords] /\ ClientOnly(c)
      /\ client'[c].handle = None /\ client'[c].pc = "cancel" /\ client'[c].job = client[c].job
  <2>1. PICK a \in ClientRecords : a = client[c]
    BY <1>1
  <2>2. PICK r : r = [a EXCEPT !.pc = "cancel", !.handle = None]
    OBVIOUS
  <2>3. r = [pc |-> "cancel", handle |-> None, job |-> a.job]
    BY <2>1, <2>2 DEF ClientRecords
  <2>4. r \in ClientRecords /\ r.pc = "cancel" /\ r.handle = None /\ r.job = a.job
    BY <2>1, <2>3 DEF ClientRecords
  <2>5. client' = [client EXCEPT ![c] = r]
    BY <1>1, <1>4, <2>1, <2>2
  <2> QED
    BY <1>1, <2>1, <2>4, <2>5, ClientSet
<1>7. ListsOK' /\ ListTypes'
  BY <1>1, <1>3, <1>4, <1>5, UnlinkTakes DEF SlotOnly
<1>8. HandsOK'
  BY <1>1, <1>2, <1>3, <1>5, HandsStay DEF SlotOnly
<1>9. ClientsOK'
  BY <1>1, <1>3, <1>5, <1>6, LetsGo
<1>10. JobsOK'
  <2>1. PICK k \in 1 .. lastJob : k = client[c].job /\ k \notin handled
    BY <1>1, <1>3 DEF JobsOK, OnList
  <2>2. ASSUME NEW g \in Handles, req'[g].callStatus # "FREE"
        PROVE  req[g].callStatus # "FREE" /\ req'[g].job = req[g].job /\ req'[g].job # k
    BY <1>1, <1>3, <1>5, <2>1, <2>2 DEF JobsOK, SlotOnly
  <2>3. ASSUME NEW d \in Clients, client'[d].pc = "cancel", d # c
        PROVE  client'[d] = client[d] /\ client'[d].job # k
    BY <1>1, <1>3, <1>6, <2>1, <2>3 DEF JobsOK, ClientOnly
  <2>4. /\ \A g \in Handles : req'[g].callStatus # "FREE" => req'[g].job \in 1 .. lastJob
        /\ \A f, g \in Handles :
             req'[f].callStatus # "FREE" /\ req'[g].callStatus # "FREE" /\ req'[f].job = req'[g].job => f = g
    BY <1>1, <2>2 DEF JobsOK
  <2>5. ASSUME NEW d \in Clients, client'[d].pc = "cancel"
        PROVE  /\ client'[d].job \in 1 .. lastJob
               /\ \A g \in Handles : req'[g].callStatus # "FREE" => req'[g].job # client'[d].job
               /\ \A e \in Clients : client'[e].pc = "cancel" /\ client'[e].job = client'[d].job => e = d
    <3>1. CASE d = c
      BY <1>6, <2>1, <2>2, <2>3, <3>1
    <3>2. CASE d # c
      <4>1. client'[d] = client[d] /\ client[d].job # k
        BY <2>3, <2>5, <3>2
      <4>2. \A e \in Clients : client'[e].pc = "cancel" /\ client'[e].job = client[d].job => client'[e] = client[e]
        BY <1>6, <2>1, <2>3, <4>1
      <4> QED
        BY <1>1, <2>2, <2>5, <4>1, <4>2 DEF JobsOK
    <3> QED
      BY <3>1, <3>2
  <2>6. InCancel(k)'
    BY <1>6, <2>1 DEF InCancel
  <2>7. ASSUME NEW j \in 1 .. lastJob, j # k PROVE OnList(j)' <=> OnList(j)
    BY <1>3, <1>5, <2>1, <2>7 DEF OnList, SlotOnly
  <2>8. ASSUME NEW v \in Helpers, helper[v].pc = "call" PROVE helper[v].request \in Handles \ {h}
    BY <1>1, <1>3, <2>8 DEF HandsOK, HelperRecords
  <2>9. ASSUME NEW j \in 1 .. lastJob PROVE InHelper(j)' <=> InHelper(j)
    BY <1>2, <1>5, <2>8 DEF InHelper, SlotOnly
  <2>10. ASSUME NEW j \in 1 .. lastJob, j # k PROVE InCancel(j)' <=> InCancel(j)
    BY <1>2, <1>6, <2>1, <2>10 DEF InCancel, ClientOnly
  <2>11. \A j \in 1 .. lastJob : OnList(j)' \/ InHelper(j)' \/ InCancel(j)' <=> j \notin handled
    BY <1>1, <2>1, <2>6, <2>7, <2>9, <2>10 DEF JobsOK
  <2>12. handled \subseteq 1 .. lastJob
    BY <1>1 DEF JobsOK
  <2> QED
    BY <1>2, <2>4, <2>5, <2>11, <2>12 DEF JobsOK
<1>11. TypeOK'
  BY <1>1, <1>2, <1>5, <1>6, <1>7, TypePartsNext DEF RestTypes
<1> QED
  BY <1>7, <1>8, <1>9, <1>10, <1>11 DEF HelperInv

(* ... and calls it.                                                       *)
LEMMA StepCallCancelFn ==
  ASSUME HelperInv, NEW c \in Clients, CallCancelFn(c)
  PROVE  HelperInv'
<1>1. /\ req \in [Handles -> SlotRecords] /\ helper \in [Helpers -> HelperRecords]
      /\ client \in [Clients -> ClientRecords] /\ ListTypes /\ RestTypes
      /\ ListsOK /\ HandsOK /\ ClientsOK /\ JobsOK
  BY TypeParts DEF HelperInv
<1>2. UNCHANGED <<req, queue, waitEvent, helper, ring, lastJob>> /\ client[c].pc = "cancel"
  BY DEF CallCancelFn, COSRuns
<1>3. PICK k \in 1 .. lastJob : k = client[c].job
  BY <1>1, <1>2 DEF JobsOK
<1>4. handled' = handled \cup {k} /\ client' = [client EXCEPT ![c] = IdleClient]
  BY <1>3 DEF CallCancelFn
<1>5. /\ client' \in [Clients -> ClientRecords] /\ ClientOnly(c)
      /\ client'[c].handle = None /\ client'[c].pc = "idle"
  BY <1>1, <1>4, ClientSet, FreeFacts
<1>6. ListsOK' /\ ListTypes'
  BY <1>1, <1>2, ListsStay
<1>7. HandsOK'
  BY <1>1, <1>2, HandsStay
<1>8. ClientsOK'
  <2>1. client[c].handle = None
    BY <1>1, <1>2 DEF ClientsOK
  <2>2. \A d \in Clients : /\ client'[d].handle = client[d].handle
                           /\ d # c => client'[d] = client[d]
    BY <1>5, <2>1 DEF ClientOnly
  <2> QED
    BY <1>1, <1>2, <1>5, <2>1, <2>2 DEF ClientsOK
<1>9. JobsOK'
  <2>1. \A d \in Clients : client'[d].pc = "cancel" => client'[d] = client[d] /\ client[d].job # k /\ d # c
    BY <1>1, <1>2, <1>3, <1>5 DEF JobsOK, ClientOnly
  <2>2. ~OnList(k) /\ ~InHelper(k)
    <3>1. \A g \in Handles : req[g].callStatus # "FREE" => req[g].job # k
      BY <1>1, <1>2, <1>3 DEF JobsOK
    <3>2. \A v \in Helpers : helper[v].pc = "call" =>
            helper[v].request \in Handles /\ req[helper[v].request].callStatus # "FREE"
      BY <1>1 DEF HandsOK, HelperRecords
    <3> QED
      BY <3>1, <3>2 DEF OnList, InHelper
  <2>3. ~InCancel(k)'
    BY <2>1 DEF InCancel
  <2>4. \A j \in 1 .. lastJob : (OnList(j)' <=> OnList(j)) /\ (InHelper(j)' <=> InHelper(j))
    BY <1>2 DEF OnList, InHelper
  <2>5. ASSUME NEW j \in 1 .. lastJob, j # k PROVE InCancel(j)' <=> InCancel(j)
    BY <1>2, <1>3, <1>5, <2>5 DEF InCancel, ClientOnly
  <2>6. \A j \in 1 .. lastJob : OnList(j)' \/ InHelper(j)' \/ InCancel(j)' <=> j \notin handled'
    BY <1>1, <1>4, <2>2, <2>3, <2>4, <2>5 DEF JobsOK
  <2>7. \A d \in Clients : client'[d].pc = "cancel" =>
          /\ client'[d].job \in 1 .. lastJob
          /\ \A g \in Handles : req[g].callStatus # "FREE" => req[g].job # client'[d].job
          /\ \A e \in Clients : client'[e].pc = "cancel" /\ client'[e].job = client'[d].job => e = d
    BY <1>1, <2>1 DEF JobsOK
  <2>8. handled' \subseteq 1 .. lastJob
    BY <1>1, <1>4 DEF JobsOK
  <2> QED
    BY <1>1, <1>2, <2>6, <2>7, <2>8 DEF JobsOK
<1>10. handled' \subseteq Jobs
  <2>1. PICK l \in 0 .. MaxJobs : l = lastJob /\ handled \subseteq 1 .. MaxJobs
    BY <1>1 DEF RestTypes, Jobs
  <2>2. k \in 1 .. MaxJobs
    BY <1>3, <2>1, HelperBounds
  <2> QED
    BY <1>4, <2>1, <2>2 DEF Jobs
<1>11. TypeOK'
  BY <1>1, <1>2, <1>5, <1>6, <1>10, TypePartsNext DEF RestTypes
<1> QED
  BY <1>6, <1>7, <1>8, <1>9, <1>11 DEF HelperInv

(* A helper world takes the first request off the list of its queue.       *)
LEMMA StepDequeue ==
  ASSUME HelperInv, NEW w \in Helpers, Dequeue(w)
  PROVE  HelperInv'
<1>1. /\ req \in [Handles -> SlotRecords] /\ helper \in [Helpers -> HelperRecords]
      /\ client \in [Clients -> ClientRecords] /\ ListTypes /\ RestTypes
      /\ ListsOK /\ HandsOK /\ ClientsOK /\ JobsOK
  BY TypeParts DEF HelperInv
<1>2. /\ UNCHANGED <<waitEvent, client, ring, lastJob, handled>> /\ helper[w].pc = "idle"
      /\ requestList[QueueOf[w]] # <<>>
  BY DEF Dequeue, HelperRuns
<1>3. PICK q \in Queues : q = QueueOf[w]
  BY HandleFacts
<1>4. PICK s \in Seq(Slots) : s = requestList[q] /\ s # <<>> /\ Once(s)
  BY <1>1, <1>2, <1>3 DEF ListTypes, ListsOK
<1>5. PICK i \in Slots : i = Head(s) /\ i \in Range(s)
  <2>1. PICK t : t = Tail(s)
    OBVIOUS
  <2>2. Head(s) \in Slots /\ Head(s) \in Range(s)
    BY <1>4, <2>1, SeqTake
  <2> QED
    BY <2>2
<1>6. PICK h : h = [qType |-> q, reqIndex |-> i]
  OBVIOUS
<1>7. h \in Handles /\ h.qType = q /\ h.reqIndex = i
  BY <1>6, HandleOf
<1>8. req[h].callStatus = "PENDING"
  BY <1>1, <1>4, <1>5, <1>7 DEF ListsOK
<1>9. /\ requestList' = [requestList EXCEPT ![h.qType] = Tail(@)]
      /\ requestListTail' = [requestListTail EXCEPT ![h.qType] = IF @ = h.reqIndex THEN None ELSE @]
      /\ req' = [req EXCEPT ![h].callStatus = "ACTIVE"]
      /\ helper' = [helper EXCEPT ![w].pc = "call", ![w].request = h]
  BY <1>3, <1>4, <1>5, <1>6, <1>7 DEF Dequeue
<1>10. /\ req' \in [Handles -> SlotRecords] /\ SlotOnly(h) /\ req'[h].callStatus = "ACTIVE"
       /\ req'[h].isSync = req[h].isSync /\ req'[h].job = req[h].job
  BY <1>1, <1>7, <1>9 DEF SlotRecords, SlotOnly
<1>11. /\ helper' \in [Helpers -> HelperRecords] /\ HelperOnly(w)
       /\ helper'[w].pc = "call" /\ helper'[w].request = h
  <2>1. PICK a \in HelperRecords : a = helper[w]
    BY <1>1
  <2>2. PICK r : r = [a EXCEPT !.pc = "call", !.request = h]
    OBVIOUS
  <2>3. r = [pc |-> "call", request |-> h, called |-> a.called, cosWaiter |-> a.cosWaiter]
    BY <2>1, <2>2 DEF HelperRecords
  <2>4. r \in HelperRecords /\ r.pc = "call" /\ r.request = h
    BY <1>7, <2>1, <2>3 DEF HelperRecords
  <2>5. helper' = [helper EXCEPT ![w] = r]
    BY <1>1, <1>9, <2>1, <2>2
  <2> QED
    BY <1>1, <2>4, <2>5, HelperSet
<1>12. ListsOK' /\ ListTypes'
  <2>1. requestList[h.qType] # <<>> /\ h.reqIndex = Head(requestList[h.qType]) /\ req'[h].callStatus # "PENDING"
    BY <1>4, <1>5, <1>7, <1>10
  <2>2. \A g \in Handles \ {h} : req'[g].callStatus = req[g].callStatus
    BY <1>10 DEF SlotOnly
  <2> QED
    BY <1>1, <1>7, <1>9, <2>1, <2>2, DequeueTakes
<1>13. ASSUME NEW v \in Helpers, v # w
       PROVE  helper'[v] = helper[v] /\ helper[v].request # h /\ helper[v].request \in Handles \cup {None}
  BY <1>1, <1>7, <1>8, <1>11, <1>13, HandleFacts DEF HandsOK, HelperOnly, HelperRecords
<1>14. HandsOK'
  <2>1. ASSUME NEW v \in Helpers
        PROVE  /\ helper'[v].pc \in {"call", "running"} <=> helper'[v].request # None
               /\ helper'[v].pc = "notify" => helper'[v].cosWaiter # None
               /\ helper'[v].request # None =>
                    /\ helper'[v].request.qType = QueueOf[v]
                    /\ req'[helper'[v].request].callStatus = "ACTIVE"
                    /\ \A u \in Helpers : helper'[u].request = helper'[v].request => u = v
    <3>1. CASE v = w
      BY <1>3, <1>7, <1>10, <1>11, <1>13, <3>1, HandleFacts
    <3>2. CASE v # w
      <4>1. helper'[v] = helper[v] /\ helper[v].request # h /\ helper[v].request \in Handles \cup {None}
        BY <1>13, <3>2
      <4>2. helper[v].request # None => req'[helper[v].request] = req[helper[v].request]
        BY <1>10, <4>1 DEF SlotOnly
      <4>3. \A u \in Helpers : helper'[u].request = helper[v].request => u # w /\ helper'[u] = helper[u]
        BY <1>11, <1>13, <4>1
      <4> QED
        BY <1>1, <4>1, <4>2, <4>3 DEF HandsOK
    <3> QED
      BY <3>1, <3>2
  <2>2. ASSUME NEW g \in Handles, req'[g].callStatus = "ACTIVE" PROVE \E v \in Helpers : helper'[v].request = g
    <3>1. CASE g = h
      BY <1>11, <3>1
    <3>2. CASE g # h
      <4>1. PICK v \in Helpers : helper[v].request = g
        BY <1>1, <1>10, <2>2, <3>2 DEF HandsOK, SlotOnly
      <4>2. v # w
        BY <1>1, <1>2, <4>1, HandleFacts DEF HandsOK
      <4> QED
        BY <1>13, <4>1, <4>2
    <3> QED
      BY <3>1, <3>2
  <2> QED
    BY <2>1, <2>2 DEF HandsOK
<1>15. ClientsOK'
  <2>1. \A d \in Clients : client[d].handle \in Handles \cup {None}
    BY <1>1 DEF ClientRecords
  <2>2. \A g \in Handles : /\ req'[g].callStatus = "FREE" <=> req[g].callStatus = "FREE"
                           /\ req'[g].callStatus = "DONE" <=> req[g].callStatus = "DONE"
                           /\ req'[g].isSync = req[g].isSync /\ req'[g].job = req[g].job
    BY <1>8, <1>10 DEF SlotOnly
  <2> QED
    BY <1>1, <1>2, <2>1, <2>2 DEF ClientsOK
<1>16. JobsOK'
  <2>1. \A g \in Handles : /\ req'[g].callStatus # "FREE" => req[g].callStatus # "FREE"
                           /\ req'[g].job = req[g].job
    BY <1>8, <1>10 DEF SlotOnly
  <2>2. ASSUME NEW j \in 1 .. lastJob
        PROVE  OnList(j)' \/ InHelper(j)' <=> OnList(j) \/ InHelper(j)
    <3>1. CASE j = req[h].job
      BY <1>7, <1>8, <1>10, <1>11, <3>1 DEF OnList, InHelper
    <3>2. CASE j # req[h].job
      <4>1. OnList(j)' <=> OnList(j)
        BY <1>8, <1>10, <3>2 DEF OnList, SlotOnly
      <4>2. \A v \in Helpers : helper[v].pc = "call" => v # w /\ helper[v].request \in Handles
        BY <1>1, <1>2 DEF HandsOK, HelperRecords
      <4>3. InHelper(j) => InHelper(j)'
        BY <1>13, <2>1, <4>2 DEF InHelper
      <4>4. InHelper(j)' => InHelper(j)
        BY <1>10, <1>11, <1>13, <2>1, <3>2, <4>2 DEF InHelper
      <4> QED
        BY <4>1, <4>3, <4>4
    <3> QED
      BY <3>1, <3>2
  <2>3. \A j \in 1 .. lastJob : InCancel(j)' <=> InCancel(j)
    BY <1>2 DEF InCancel
  <2>4. \A d \in Clients : client'[d].pc = "cancel" => client'[d] = client[d]
    BY <1>2
  <2> QED
    BY <1>1, <1>2, <2>1, <2>2, <2>3, <2>4, JobsStay
<1>17. TypeOK'
  BY <1>1, <1>2, <1>10, <1>11, <1>12, TypePartsNext DEF RestTypes
<1> QED
  BY <1>12, <1>14, <1>15, <1>16, <1>17 DEF HelperInv

(* It calls the function of the request ...                                *)
LEMMA StepCall ==
  ASSUME HelperInv, NEW w \in Helpers, Call(w)
  PROVE  HelperInv'
<1>1. /\ req \in [Handles -> SlotRecords] /\ helper \in [Helpers -> HelperRecords]
      /\ client \in [Clients -> ClientRecords] /\ ListTypes /\ RestTypes
      /\ ListsOK /\ HandsOK /\ ClientsOK /\ JobsOK
  BY TypeParts DEF HelperInv
<1>2. UNCHANGED <<req, queue, waitEvent, client, ring, lastJob>> /\ helper[w].pc = "call"
  BY DEF Call, HelperRuns
<1>3. PICK h \in Handles : h = helper[w].request /\ req[h].callStatus = "ACTIVE"
  BY <1>1, <1>2 DEF HandsOK, HelperRecords
<1>4. PICK k \in 1 .. lastJob : k = req[h].job
  BY <1>1, <1>3 DEF JobsOK
<1>5. handled' = handled \cup {k}
  BY <1>3, <1>4 DEF Call
<1>6. /\ helper' \in [Helpers -> HelperRecords] /\ HelperOnly(w)
      /\ helper'[w].pc = "running" /\ helper'[w].request = h
  <2>1. PICK a \in HelperRecords : a = helper[w]
    BY <1>1
  <2>2. PICK y \in {"sync", "async"} : y = IF req[h].isSync THEN "sync" ELSE "async"
    OBVIOUS
  <2>3. PICK r : r = [a EXCEPT !.pc = "running", !.called = y]
    OBVIOUS
  <2>4. r = [pc |-> "running", request |-> a.request, called |-> y, cosWaiter |-> a.cosWaiter]
    BY <2>1, <2>3 DEF HelperRecords
  <2>5. r \in HelperRecords /\ r.pc = "running" /\ r.request = h
    BY <1>3, <2>1, <2>4 DEF HelperRecords
  <2>6. helper' = [helper EXCEPT ![w] = r]
    BY <1>1, <1>3, <2>1, <2>2, <2>3 DEF Call
  <2> QED
    BY <1>1, <2>5, <2>6, HelperSet
<1>7. ListsOK' /\ ListTypes'
  BY <1>1, <1>2, ListsStay
<1>8. HandsOK'
  <2>1. \A v \in Helpers : /\ helper'[v].request = helper[v].request
                           /\ v # w => helper'[v] = helper[v]
    BY <1>3, <1>6 DEF HelperOnly
  <2>2. \A v \in Helpers : helper[v].request \in Handles \cup {None}
    BY <1>1 DEF HelperRecords
  <2>3. h # None
    BY HandleFacts
  <2>4. \A v \in Helpers :
          /\ helper'[v].pc \in {"call", "running"} <=> helper'[v].request # None
          /\ helper'[v].pc = "notify" => helper'[v].cosWaiter # None
    BY <1>1, <1>6, <2>1, <2>3 DEF HandsOK
  <2> QED
    BY <1>1, <1>2, <2>1, <2>2, <2>4 DEF HandsOK
<1>9. ClientsOK'
  BY <1>1, <1>2 DEF ClientsOK
<1>10. JobsOK'
  <2>1. ~OnList(k) /\ ~InCancel(k)
    BY <1>1, <1>3, <1>4 DEF JobsOK, OnList, InCancel
  <2>2. ASSUME NEW v \in Helpers, helper[v].pc = "call", v # w
        PROVE  helper[v].request \in Handles /\ req[helper[v].request].job # k
    <3>1. /\ helper[v].request \in Handles /\ helper[v].request # h
          /\ req[helper[v].request].callStatus = "ACTIVE"
      BY <1>1, <1>3, <2>2 DEF HandsOK, HelperRecords
    <3> QED
      BY <1>1, <1>3, <1>4, <3>1 DEF JobsOK
  <2>3. ~InHelper(k)'
    BY <1>2, <1>6, <2>2 DEF InHelper, HelperOnly
  <2>4. ASSUME NEW j \in 1 .. lastJob, j # k PROVE InHelper(j)' <=> InHelper(j)
    BY <1>2, <1>3, <1>4, <1>6, <2>4 DEF InHelper, HelperOnly
  <2>5. \A j \in 1 .. lastJob : (OnList(j)' <=> OnList(j)) /\ (InCancel(j)' <=> InCancel(j))
    BY <1>2 DEF OnList, InCancel
  <2>6. \A j \in 1 .. lastJob : OnList(j)' \/ InHelper(j)' \/ InCancel(j)' <=> j \notin handled'
    BY <1>1, <1>5, <2>1, <2>3, <2>4, <2>5 DEF JobsOK
  <2>7. handled' \subseteq 1 .. lastJob
    BY <1>1, <1>5 DEF JobsOK
  <2> QED
    BY <1>1, <1>2, <2>6, <2>7 DEF JobsOK
<1>11. handled' \subseteq Jobs
  <2>1. PICK l \in 0 .. MaxJobs : l = lastJob /\ handled \subseteq 1 .. MaxJobs
    BY <1>1 DEF RestTypes, Jobs
  <2>2. k \in 1 .. MaxJobs
    BY <1>4, <2>1, HelperBounds
  <2> QED
    BY <1>5, <2>1, <2>2 DEF Jobs
<1>12. TypeOK'
  BY <1>1, <1>2, <1>6, <1>7, <1>11, TypePartsNext DEF RestTypes
<1> QED
  BY <1>7, <1>8, <1>9, <1>10, <1>12 DEF HelperInv

(* ... and completes it: it is kept if it is synchronous, which is when a  *)
(* context has its handle, and is free otherwise.                          *)
LEMMA StepComplete ==
  ASSUME HelperInv, NEW w \in Helpers, Complete(w)
  PROVE  HelperInv'
<1>1. /\ req \in [Handles -> SlotRecords] /\ helper \in [Helpers -> HelperRecords]
      /\ client \in [Clients -> ClientRecords] /\ ListTypes /\ RestTypes
      /\ ListsOK /\ HandsOK /\ ClientsOK /\ JobsOK
  BY TypeParts DEF HelperInv
<1>2. UNCHANGED <<queue, waitEvent, client, ring, lastJob, handled>> /\ helper[w].pc = "running"
  BY DEF Complete, HelperRuns
<1>3. PICK h \in Handles : h = helper[w].request /\ req[h].callStatus = "ACTIVE"
  BY <1>1, <1>2 DEF HandsOK, HelperRecords
<1>4. /\ req' \in [Handles -> SlotRecords] /\ SlotOnly(h) /\ req'[h].callStatus \in {"DONE", "FREE"}
      /\ req[h].isSync => req'[h].callStatus = "DONE" /\ req'[h].isSync = req[h].isSync /\ req'[h].job = req[h].job
      /\ ~req[h].isSync => req'[h].callStatus = "FREE"
  <2>1. PICK a \in SlotRecords : a = req[h]
    BY <1>1
  <2>2. PICK d : d = [a EXCEPT !.callStatus = "DONE"]
    OBVIOUS
  <2>3. d = [callStatus |-> "DONE", isSync |-> a.isSync, cosWaiter |-> a.cosWaiter, job |-> a.job, made |-> a.made]
    BY <2>1, <2>2 DEF SlotRecords
  <2>4. d \in SlotRecords /\ d.callStatus = "DONE" /\ d.isSync = a.isSync /\ d.job = a.job
    BY <2>1, <2>3 DEF SlotRecords
  <2>5. PICK r : r = IF a.isSync THEN d ELSE FreeSlot
    OBVIOUS
  <2>6. /\ r \in SlotRecords /\ r.callStatus \in {"DONE", "FREE"}
        /\ a.isSync => r.callStatus = "DONE" /\ r.isSync = a.isSync /\ r.job = a.job
        /\ ~a.isSync => r.callStatus = "FREE"
    BY <2>4, <2>5, FreeFacts
  <2>7. req' = [req EXCEPT ![h] = r]
    BY <1>1, <1>3, <2>1, <2>2, <2>5 DEF Complete
  <2>8. req' \in [Handles -> SlotRecords] /\ SlotOnly(h) /\ req'[h] = r
    BY <1>1, <2>6, <2>7, SlotSet
  <2> QED
    BY <2>1, <2>6, <2>8
<1>5. /\ helper' \in [Helpers -> HelperRecords] /\ HelperOnly(w)
      /\ helper'[w].pc \in {"idle", "notify"} /\ helper'[w].request = None
      /\ helper'[w].pc = "notify" => helper'[w].cosWaiter # None
  <2>1. PICK x \in Clients \cup {None} : x = req[h].cosWaiter
    BY <1>1 DEF SlotRecords
  <2>2. PICK to \in {"idle", "notify"} : to = IF x = None THEN "idle" ELSE "notify"
    OBVIOUS
  <2>3. PICK r : r = [IdleHelper EXCEPT !.pc = to, !.cosWaiter = x]
    OBVIOUS
  <2>4. r = [pc |-> to, request |-> None, called |-> "async", cosWaiter |-> x]
    BY <2>3 DEF IdleHelper
  <2>5. r \in HelperRecords /\ r.pc = to /\ r.request = None /\ r.cosWaiter = x
    BY <2>1, <2>2, <2>4 DEF HelperRecords
  <2>6. helper' = [helper EXCEPT ![w] = r]
    BY <1>3, <2>1, <2>2, <2>3 DEF Complete
  <2>7. helper' \in [Helpers -> HelperRecords] /\ HelperOnly(w) /\ helper'[w] = r
    BY <1>1, <2>5, <2>6, HelperSet
  <2> QED
    BY <2>2, <2>5, <2>7
<1>6. ListsOK' /\ ListTypes'
  BY <1>1, <1>2, <1>3, <1>4, ListsStay DEF SlotOnly
<1>7. ASSUME NEW v \in Helpers, v # w
      PROVE  helper'[v] = helper[v] /\ helper[v].request # h /\ helper[v].request \in Handles \cup {None}
  BY <1>1, <1>3, <1>5, <1>7, HandleFacts DEF HandsOK, HelperOnly, HelperRecords
<1>8. HandsOK'
  <2>1. ASSUME NEW v \in Helpers, v # w, helper[v].request # None
        PROVE  req'[helper[v].request] = req[helper[v].request]
    BY <1>4, <1>7, <2>1 DEF SlotOnly
  <2>2. ASSUME NEW v \in Helpers
        PROVE  /\ helper'[v].pc \in {"call", "running"} <=> helper'[v].request # None
               /\ helper'[v].pc = "notify" => helper'[v].cosWaiter # None
               /\ helper'[v].request # None =>
                    /\ helper'[v].request.qType = QueueOf[v]
                    /\ req'[helper'[v].request].callStatus = "ACTIVE"
                    /\ \A u \in Helpers : helper'[u].request = helper'[v].request => u = v
    BY <1>1, <1>5, <1>7, <2>1 DEF HandsOK
  <2>3. ASSUME NEW g \in Handles, req'[g].callStatus = "ACTIVE" PROVE \E v \in Helpers : helper'[v].request = g
    <3>1. g # h /\ req'[g] = req[g]
      BY <1>4, <2>3 DEF SlotOnly
    <3>2. PICK v \in Helpers : helper[v].request = g
      BY <1>1, <2>3, <3>1 DEF HandsOK
    <3> QED
      BY <1>3, <1>7, <3>1, <3>2
  <2> QED
    BY <2>2, <2>3 DEF HandsOK
<1>9. ClientsOK'
  <2>1. ASSUME NEW d \in Clients, client[d].handle # None
        PROVE  LET r == req'[client[d].handle] IN
               r.callStatus # "FREE" /\ r.isSync /\ r.job = req[client[d].handle].job
    <3>1. client[d].handle \in Handles /\ req[client[d].handle].isSync /\ req[client[d].handle].callStatus # "FREE"
      BY <1>1, <2>1 DEF ClientsOK, ClientRecords
    <3>2. CASE client[d].handle = h
      BY <1>4, <3>1, <3>2
    <3>3. CASE client[d].handle # h
      BY <1>4, <3>1, <3>3 DEF SlotOnly
    <3> QED
      BY <3>2, <3>3
  <2>2. ASSUME NEW g \in Handles,
               req'[g].callStatus = "DONE" \/ (req'[g].callStatus # "FREE" /\ req'[g].isSync)
        PROVE  \E d \in Clients : client[d].handle = g
    <3>1. req[g].callStatus = "DONE" \/ (req[g].callStatus # "FREE" /\ req[g].isSync)
      <4>1. CASE g = h
        BY <1>3, <1>4, <2>2, <4>1
      <4>2. CASE g # h
        BY <1>4, <2>2, <4>2 DEF SlotOnly
      <4> QED
        BY <4>1, <4>2
    <3> QED
      BY <1>1, <3>1 DEF ClientsOK
  <2> QED
    BY <1>1, <1>2, <2>1, <2>2 DEF ClientsOK
<1>10. JobsOK'
  <2>1. \A g \in Handles : req'[g].callStatus # "FREE" => req[g].callStatus # "FREE" /\ req'[g].job = req[g].job
    <3>1. req'[h].callStatus # "FREE" => req'[h].job = req[h].job
      BY <1>4
    <3> QED
      BY <1>3, <1>4, <3>1 DEF SlotOnly
  <2>2. \A j \in 1 .. lastJob : OnList(j)' <=> OnList(j)
    BY <1>3, <1>4 DEF OnList, SlotOnly
  <2>3. \A v \in Helpers : helper[v].pc = "call" => v # w /\ helper[v].request \in Handles \ {h}
    BY <1>1, <1>2, <1>7 DEF HandsOK
  <2>4. \A j \in 1 .. lastJob : InHelper(j) => InHelper(j)'
    BY <1>4, <1>7, <2>3 DEF InHelper, SlotOnly
  <2>5. \A j \in 1 .. lastJob : InHelper(j)' => InHelper(j)
    BY <1>4, <1>5, <1>7, <2>3 DEF InHelper, SlotOnly
  <2>6. \A j \in 1 .. lastJob : InCancel(j)' <=> InCancel(j)
    BY <1>2 DEF InCancel
  <2>7. \A d \in Clients : client'[d].pc = "cancel" => client'[d] = client[d]
    BY <1>2
  <2> QED
    BY <1>1, <1>2, <2>1, <2>2, <2>4, <2>5, <2>6, <2>7, JobsStay
<1>11. TypeOK'
  BY <1>1, <1>2, <1>4, <1>5, <1>6, TypePartsNext DEF RestTypes
<1> QED
  BY <1>6, <1>8, <1>9, <1>10, <1>11 DEF HelperInv

-------------------------------------------------------------------------------
(* Nothing is requested at first.                                          *)
LEMMA InitHelpers == Init => HelperInv
<1> SUFFICES ASSUME Init PROVE HelperInv
  OBVIOUS
<1>1. <<>> \in Seq(Slots) /\ <<>> \in Seq(Clients) /\ Range(<<>>) = {} /\ Once(<<>>)
  BY DEF Range, Once
<1>2. TypeOK
  <2>1. req \in [Handles -> SlotRecords] /\ helper \in [Helpers -> HelperRecords] /\ client \in [Clients -> ClientRecords]
    BY FreeFacts DEF Init
  <2>2. ListTypes
    BY <1>1 DEF Init, ListTypes
  <2>3. RestTypes
    BY <1>1, HelperBounds DEF Init, RestTypes
  <2> QED
    BY <2>1, <2>2, <2>3, TypeParts
<1>3. ListsOK
  <2>1. \A q \in Queues : requestList[q] = <<>> /\ requestListTail[q] = None
    BY DEF Init
  <2>2. \A h \in Handles : req[h].callStatus = "FREE" /\ requestList[h.qType] = <<>>
    BY <2>1, FreeFacts, HandleFacts DEF Init
  <2> QED
    BY <1>1, <2>1, <2>2 DEF ListsOK
<1>4. HandsOK
  BY FreeFacts DEF Init, HandsOK
<1>5. ClientsOK
  BY FreeFacts DEF Init, ClientsOK
<1>6. JobsOK
  <2>1. lastJob = 0 /\ handled = {} /\ 1 .. 0 = {}
    BY DEF Init
  <2>2. /\ \A h \in Handles : req[h].callStatus = "FREE"
        /\ \A c \in Clients : client[c].pc = "idle"
    BY FreeFacts DEF Init
  <2> QED
    BY <2>1, <2>2 DEF JobsOK
<1> QED
  BY <1>2, <1>3, <1>4, <1>5, <1>6 DEF HelperInv

(* Every step keeps the invariant.                                         *)
LEMMA StepHelpers == HelperInv /\ [Next]_vars => HelperInv'
<1> SUFFICES ASSUME HelperInv, [Next]_vars PROVE HelperInv'
  OBVIOUS
<1>1. CASE UNCHANGED vars
  <2>1. UNCHANGED <<req, queue, waitEvent, helper, client, ring, lastJob, handled>>
    BY <1>1 DEF vars, queue
  <2>2. ListsOK' /\ ListTypes' /\ HandsOK' /\ ClientsOK' /\ JobsOK'
    BY <2>1, Quiet DEF HelperInv, HandsOK
  <2>3. TypeOK'
    BY <2>1 DEF HelperInv, TypeOK, queue
  <2> QED
    BY <2>2, <2>3 DEF HelperInv
<1>2. CASE \E h \in Handles : Helper_Request(h)
  BY <1>2, StepRequest
<1>3. CASE \E c \in Clients : ClientStep(c)
  <2>1. PICK c \in Clients : ClientStep(c)
    BY <1>3
  <2> QED
    BY <2>1, StepRequestSync, StepSetCOSContext, StepContext, StepStatusLocked, StepCancelPending,
       StepCallCancelFn, StepCancelForced DEF ClientStep
<1>4. CASE \E w \in Helpers : HelpFunc(w)
  <2>1. PICK w \in Helpers : HelpFunc(w)
    BY <1>4
  <2> QED
    BY <2>1, StepHelperAlone, StepDequeue, StepCall, StepComplete DEF HelpFunc
<1>5. CASE COSInterrupt
  <2>1. ring \in Seq(Clients) /\ ring # <<>>
    BY <1>5 DEF HelperInv, TypeOK, COSInterrupt
  <2>2. PICK c \in Clients : c = Head(ring)
    BY <2>1, HeadTailProperties
  <2> QED
    BY <1>5, <2>2, StepContext
<1> QED
  BY <1>1, <1>2, <1>3, <1>4, <1>5 DEF Next

(* The invariant of helper.c, always.                                      *)
LEMMA HelperInvariant == Spec => []HelperInv
  BY InitHelpers, StepHelpers, PTL DEF Spec

(* A handle names the request its context made until the context has the   *)
(* answer, has cancelled it or has let go of it, and every slot that is    *)
(* kept has a context that will ask for it: Helper_RequestStatus,          *)
(* Helper_RequestCancel and the helper worlds free a slot once and in time.*)
THEOREM HandlesKept == Spec => []HandlesExact
<1>1. HelperInv => HandlesExact
  BY DEF HelperInv, ClientsOK, HandlesExact
<1> QED
  BY <1>1, HelperInvariant, PTL

(* The arguments of a request are freed once, by its function or by        *)
(* cancelFn: until then they are in one request on the list of its queue,  *)
(* with one helper world, or with one context that cancels.                *)
THEOREM JobsNotLost == Spec => []JobsAccounted
<1>1. ASSUME HelperInv PROVE QueueExact
  <2>1. /\ helper \in [Helpers -> HelperRecords] /\ ListTypes /\ ListsOK /\ HandsOK
    BY <1>1, TypeParts DEF HelperInv
  <2>2. ASSUME NEW q \in Queues
        PROVE  /\ Range(requestList[q]) = {i \in Slots : req[[qType |-> q, reqIndex |-> i]].callStatus = "PENDING"}
               /\ Len(requestList[q]) = Cardinality(Range(requestList[q]))
               /\ requestListTail[q] = IF requestList[q] = <<>> THEN None ELSE Last(requestList[q])
    <3>1. PICK s \in Seq(Slots) : s = requestList[q] /\ Once(s)
      BY <2>1 DEF ListTypes, ListsOK
    <3>2. Range(s) \subseteq Slots /\ Len(s) = Cardinality(Range(s))
      BY <3>1, SeqFacts, SeqCard
    <3>3. ASSUME NEW i \in Slots
          PROVE  i \in Range(s) <=> req[[qType |-> q, reqIndex |-> i]].callStatus = "PENDING"
      <4>1. PICK h : h = [qType |-> q, reqIndex |-> i]
        OBVIOUS
      <4>2. h \in Handles /\ h.qType = q /\ h.reqIndex = i
        BY <4>1, HandleOf
      <4>3. i \in Range(s) <=> req[h].callStatus = "PENDING"
        BY <2>1, <3>1, <4>2 DEF ListsOK
      <4> QED
        BY <4>1, <4>3
    <3>4. requestListTail[q] = IF requestList[q] = <<>> THEN None ELSE Last(requestList[q])
      BY <2>1 DEF ListsOK
    <3> QED
      BY <3>1, <3>2, <3>3, <3>4
  <2>3. ASSUME NEW h \in Handles
        PROVE  LET holders == {w \in Helpers : helper[w].request = h} IN
               IF req[h].callStatus = "ACTIVE"
               THEN \E w \in Helpers : holders = {w} /\ QueueOf[w] = h.qType
               ELSE holders = {}
    <3>1. CASE req[h].callStatus = "ACTIVE"
      <4>1. PICK w \in Helpers : helper[w].request = h
        BY <2>1, <3>1 DEF HandsOK
      <4>2. QueueOf[w] = h.qType /\ \A v \in Helpers : helper[v].request = h => v = w
        BY <2>1, <4>1, HandleFacts DEF HandsOK
      <4>3. {v \in Helpers : helper[v].request = h} = {w}
        BY <4>1, <4>2
      <4> QED
        BY <3>1, <4>2, <4>3
    <3>2. CASE req[h].callStatus # "ACTIVE"
      BY <2>1, <3>2, HandleFacts DEF HandsOK
    <3> QED
      BY <3>1, <3>2
  <2> QED
    BY <2>2, <2>3 DEF QueueExact
<1>2. ASSUME HelperInv, NEW j \in 1 .. lastJob
      PROVE  LET onList == {h \in Handles : req[h].job = j /\ h.reqIndex \in Range(requestList[h.qType])}
                 inHelper == {w \in Helpers : helper[w].pc = "call" /\ req[helper[w].request].job = j}
                 inCancel == {c \in Clients : client[c].pc = "cancel" /\ client[c].job = j}
                 gone == IF j \in handled THEN 1 ELSE 0
             IN Cardinality(onList) + Cardinality(inHelper) + Cardinality(inCancel) + gone = 1
  <2> DEFINE onList == {h \in Handles : req[h].job = j /\ h.reqIndex \in Range(requestList[h.qType])}
             inHelper == {w \in Helpers : helper[w].pc = "call" /\ req[helper[w].request].job = j}
             inCancel == {c \in Clients : client[c].pc = "cancel" /\ client[c].job = j}
             gone == IF j \in handled THEN 1 ELSE 0
  <2>1. helper \in [Helpers -> HelperRecords] /\ ListsOK /\ HandsOK /\ JobsOK
    BY <1>2, TypeParts DEF HelperInv
  <2>2. onList = {h \in Handles : req[h].callStatus = "PENDING" /\ req[h].job = j}
    BY <2>1 DEF ListsOK
  <2>3. /\ onList # {} <=> OnList(j)
        /\ inHelper # {} <=> InHelper(j)
        /\ inCancel # {} <=> InCancel(j)
    BY <2>2 DEF OnList, InHelper, InCancel
  <2>4. \A w \in Helpers : helper[w].pc = "call" =>
          helper[w].request \in Handles /\ req[helper[w].request].callStatus = "ACTIVE"
    BY <2>1 DEF HandsOK, HelperRecords
  <2>5. onList = {} \/ \E h : onList = {h} /\ inHelper = {} /\ inCancel = {}
    <3>1. ASSUME NEW h \in onList PROVE onList = {h} /\ inHelper = {} /\ inCancel = {}
      <4>1. h \in Handles /\ req[h].callStatus = "PENDING" /\ req[h].job = j
        BY <2>2, <3>1
      <4>2. ASSUME NEW g \in onList PROVE g = h
        BY <2>1, <2>2, <4>1, <4>2 DEF JobsOK
      <4>3. ASSUME NEW w \in inHelper PROVE FALSE
        <5>1. w \in Helpers /\ helper[w].pc = "call" /\ req[helper[w].request].job = j
          BY <4>3
        <5>2. helper[w].request \in Handles /\ req[helper[w].request].callStatus = "ACTIVE"
          BY <2>4, <5>1
        <5>3. helper[w].request = h
          BY <2>1, <4>1, <5>1, <5>2 DEF JobsOK
        <5> QED
          BY <4>1, <5>2, <5>3
      <4>4. ASSUME NEW c \in inCancel PROVE FALSE
        BY <2>1, <4>1, <4>4 DEF JobsOK
      <4> QED
        BY <3>1, <4>2, <4>3, <4>4
    <3> QED
      BY <3>1
  <2>6. inHelper = {} \/ \E w : inHelper = {w} /\ inCancel = {}
    <3>1. ASSUME NEW w \in inHelper PROVE inHelper = {w} /\ inCancel = {}
      <4>1. /\ w \in Helpers /\ helper[w].request \in Handles /\ req[helper[w].request].job = j
            /\ req[helper[w].request].callStatus = "ACTIVE"
        BY <2>4, <3>1
      <4>2. ASSUME NEW v \in inHelper PROVE v = w
        <5>1. /\ v \in Helpers /\ helper[v].request \in Handles /\ req[helper[v].request].job = j
              /\ req[helper[v].request].callStatus = "ACTIVE"
          BY <2>4, <4>2
        <5>2. helper[v].request = helper[w].request
          BY <2>1, <4>1, <5>1 DEF JobsOK
        <5> QED
          BY <2>1, <4>1, <5>1, <5>2, HandleFacts DEF HandsOK
      <4>3. ASSUME NEW c \in inCancel PROVE FALSE
        BY <2>1, <4>1, <4>3 DEF JobsOK
      <4> QED
        BY <3>1, <4>2, <4>3
    <3> QED
      BY <3>1
  <2>7. inCancel = {} \/ \E c : inCancel = {c}
    <3>1. ASSUME NEW c \in inCancel PROVE inCancel = {c}
      BY <2>1, <3>1 DEF JobsOK
    <3> QED
      BY <3>1
  <2>8. onList # {} \/ inHelper # {} \/ inCancel # {} <=> j \notin handled
    BY <2>1, <2>3 DEF JobsOK
  <2>9. Cardinality({}) = 0 /\ \A x : Cardinality({x}) = 1
    BY FS_EmptySet, FS_Singleton
  <2> HIDE DEF onList, inHelper, inCancel
  <2>10. Cardinality(onList) + Cardinality(inHelper) + Cardinality(inCancel) + gone = 1
    <3>1. CASE onList # {}
      <4>1. PICK h : onList = {h} /\ inHelper = {} /\ inCancel = {}
        BY <2>5, <3>1
      <4>2. Cardinality(onList) = 1 /\ Cardinality(inHelper) = 0 /\ Cardinality(inCancel) = 0
        BY <2>9, <4>1
      <4> QED
        BY <2>8, <3>1, <4>2
    <3>2. CASE onList = {} /\ inHelper # {}
      <4>1. PICK w : inHelper = {w} /\ inCancel = {}
        BY <2>6, <3>2
      <4>2. Cardinality(onList) = 0 /\ Cardinality(inHelper) = 1 /\ Cardinality(inCancel) = 0
        BY <2>9, <3>2, <4>1
      <4> QED
        BY <2>8, <3>2, <4>2
    <3>3. CASE onList = {} /\ inHelper = {} /\ inCancel # {}
      <4>1. PICK c : inCancel = {c}
        BY <2>7, <3>3
      <4>2. Cardinality(onList) = 0 /\ Cardinality(inHelper) = 0 /\ Cardinality(inCancel) = 1
        BY <2>9, <3>3, <4>1
      <4> QED
        BY <2>8, <3>3, <4>2
    <3>4. CASE onList = {} /\ inHelper = {} /\ inCancel = {}
      BY <2>8, <2>9, <3>4
    <3> QED
      BY <3>1, <3>2, <3>3, <3>4
  <2> QED
    BY <2>10 DEF onList, inHelper, inCancel
<1>3. HelperInv => JobsAccounted
  BY <1>1, <1>2 DEF JobsAccounted
<1> QED
  BY <1>3, HelperInvariant, PTL

===============================================================================
