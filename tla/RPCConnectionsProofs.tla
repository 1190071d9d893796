------------------------- MODULE RPCConnectionsProofs -------------------------
(***************************************************************************)
(* That no call of main/rpc.c uses a connection that has been freed, that  *)
(* stale ids are refused, that the list of a world is exact and its        *)
(* cleanup leaves none of its connections, and that an entry of the table  *)
(* lives as ConnectionLife says, for any number of threads, worlds,        *)
(* entries and ids.                                                        *)
(***************************************************************************)
EXTENDS RPCConnections, FiniteSetTheorems, SequenceTheorems, TLAPS

(* The entry is on the list.                                               *)
On(list, s) == \E i \in DOMAIN list : list[i] = s

(* Where a thread has to do with one entry.                                *)
AtEntry == {"opening", "call", "astray", "closing", "reset"}

(* What holds of an entry, whoever works on it: it is fresh or bears the   *)
(* marks of its last destruction when it is free, and counts its users     *)
(* when it is registered.                                                  *)
EntryOK(s) ==
  /\ ~cnx[s].allocated /\ ~cnx[s].pendingDestroy =>
       issued[s] = <<>> /\ cnx[s].world = NoWorld /\ cnx[s].id # RPC_CNX_INVALID
  /\ Registered(s) => cnx[s].useCount = 1 + Cardinality(Users(s))
  /\ Registered(s) => cnx[s].id # RPC_CNX_INVALID /\ cnx[s].id % NumSlots = s
  /\ IsFiniteSet(Users(s))
  /\ \A k \in DOMAIN issued[s] : issued[s][k] # RPC_CNX_INVALID /\ issued[s][k] % NumSlots = s
  /\ \A w \in Worlds : cnx[s].allocated /\ cnx[s].world = w => On(cnxList[w], s)
  /\ cnx[s].allocated /\ cnx[s].id # RPC_CNX_INVALID => issued[s] # <<>>

(* What the entry a thread works on is like.                               *)
ThreadOK(t) ==
  LET c == cnx[slot[t]] IN
  /\ pc[t] = "opening" => /\ c.allocated /\ ~c.pendingDestroy
                          /\ c.world = NoWorld /\ c.id = RPC_CNX_INVALID
  /\ pc[t] = "call" => c.allocated /\ c.id = arg[t] /\ ~Opening(slot[t])
  /\ pc[t] = "astray" => c.allocated /\ c.id = arg[t] /\ Opening(slot[t])
  /\ pc[t] = "closing" => c.allocated /\ c.pendingDestroy
  /\ pc[t] = "reset" => ~c.allocated /\ c.pendingDestroy
  /\ pc[t] = "idle" => dying[t] = NoWorld
  /\ pc[t] \in {"cleanup", "first", "readId"} => dying[t] \in Worlds

(* One thread opens an entry, and one destroys it.                         *)
Alone ==
  \A t, u \in Threads :
    pc[t] \in {"opening", "closing"} /\ pc[u] = pc[t] /\ slot[u] = slot[t] => u = t

(* The list of a world that has been cleaned up stays empty.               *)
Emptied ==
  \A w \in Worlds : ~alive[w] /\ (\A t \in Threads : dying[t] # w) => cnxList[w] = <<>>

CnxInv ==
  /\ TypeOK
  /\ \A s \in Slots : EntryOK(s)
  /\ \A t \in Threads : ThreadOK(t)
  /\ Alone /\ Emptied

(* A caller that is connected has RPC_CNX_INVALID or the id of an entry    *)
(* that has been registered.                                               *)
Found ==
  \A t \in Threads :
    pc[t] = "connected" => arg[t] = RPC_CNX_INVALID \/ issued[arg[t] % NumSlots] # <<>>

-------------------------------------------------------------------------------
(* Arithmetic of ids: an entry and a generation below the bound make an id *)
(* below the bound, and the remainders give them back.                     *)
LEMMA SmallModulus ==
  ASSUME NEW m \in Nat \ {0}, NEW x \in 0 .. m - 1
  PROVE  x % m = x
  BY Z3

(* A remainder is below the modulus.                                       *)
LEMMA ModulusRange ==
  ASSUME NEW m \in Nat \ {0}, NEW x \in Nat
  PROVE  x % m \in 0 .. m - 1
  BY Z3

(* The remainder of an id is its entry.                                    *)
LEMMA EntryOfId ==
  ASSUME NEW n \in Nat \ {0}, NEW g \in Nat, NEW s \in 0 .. n - 1
  PROVE  (g * n + s) % n = s
  BY Z3

(* Generations are a table apart.                                          *)
LEMMA ProductGrows ==
  ASSUME NEW n \in Nat \ {0}, NEW g \in Nat, NEW h \in Nat, g < h
  PROVE  g * n + n <= h * n
  BY Z3

(* The parameters, spelled out.                                            *)
LEMMA SizeFacts ==
  /\ NumSlots \in Nat \ {0} /\ GenSpace \in Nat \ {0, 1}
  /\ IdSpace \in Nat \ {0} /\ IdSpace >= NumSlots /\ RPC_CNX_INVALID \in Ids \ {0}
  /\ IdSpace = GenSpace * NumSlots
<1>1. NumSlots \in Nat \ {0} /\ GenSpace \in Nat \ {0, 1}
  BY SizesAssumption
<1>2. 1 * NumSlots + NumSlots <= GenSpace * NumSlots
  <2>1. CASE GenSpace = 1
    BY <1>1, <2>1
  <2>2. CASE 1 < GenSpace
    BY <1>1, <2>2, ProductGrows
  <2> QED
    BY <1>1, <2>1, <2>2
<1>3. IdSpace = GenSpace * NumSlots
  BY <1>1, Z3 DEF IdSpace
<1>4. GenSpace * NumSlots \in Nat
  BY <1>1
<1> QED
  BY <1>1, <1>2, <1>3, <1>4 DEF RPC_CNX_INVALID, Ids

(* An id leads to an entry.                                                *)
LEMMA SlotOfId ==
  ASSUME NEW i \in Ids
  PROVE  i % NumSlots \in Slots
<1>1. NumSlots \in Nat \ {0} /\ i \in Nat
  BY SizeFacts DEF Ids
<1>2. i % NumSlots \in 0 .. NumSlots - 1
  BY <1>1, ModulusRange
<1> QED
  BY <1>2 DEF Slots

(* The id of generation g of entry s.                                      *)
IdOf(g, s) == g * NumSlots + s

(* Ids of different generations differ; only the last generation of the    *)
(* last entry has the id RPC_CNX_INVALID.                                  *)
LEMMA IdFacts ==
  ASSUME NEW s \in Slots, NEW g \in 0 .. GenSpace - 1
  PROVE  /\ IdOf(g, s) \in Ids
         /\ IdOf(g, s) % NumSlots = s
         /\ IdOf(g, s) % IdSpace = IdOf(g, s)
         /\ IdOf(g, s) = RPC_CNX_INVALID <=> g = GenSpace - 1 /\ s = NumSlots - 1
         /\ \A h \in 0 .. GenSpace - 1 : IdOf(g, s) = IdOf(h, s) => g = h
<1> USE SizeFacts
<1>1. s \in 0 .. NumSlots - 1
  BY DEF Slots
<1>2. IdOf(g, s) \in Nat /\ (g * NumSlots) \in Nat
  BY <1>1 DEF IdOf
<1>3. g * NumSlots + NumSlots <= GenSpace * NumSlots
  BY ProductGrows
<1>4. IdOf(g, s) \in Ids
  BY <1>1, <1>2, <1>3 DEF IdOf, Ids
<1>5. IdOf(g, s) % NumSlots = s
  BY <1>1, EntryOfId DEF IdOf
<1>6. IdOf(g, s) % IdSpace = IdOf(g, s)
  BY <1>4, SmallModulus DEF Ids
<1>7. ASSUME g = GenSpace - 1, s = NumSlots - 1 PROVE IdOf(g, s) = RPC_CNX_INVALID
  <2>1. (GenSpace - 1) * NumSlots = GenSpace * NumSlots - NumSlots
    BY Z3
  <2> QED
    BY <1>7, <2>1 DEF IdOf, RPC_CNX_INVALID
<1>8. ASSUME IdOf(g, s) = RPC_CNX_INVALID PROVE g = GenSpace - 1 /\ s = NumSlots - 1
  <2>1. g * NumSlots + s = GenSpace * NumSlots - 1
    BY <1>8 DEF IdOf, RPC_CNX_INVALID
  <2>2. CASE g < GenSpace - 1
    <3>1. g + 1 \in Nat /\ g + 1 < GenSpace
      BY <2>2
    <3>2. (g + 1) * NumSlots + NumSlots <= GenSpace * NumSlots
      BY <3>1, ProductGrows
    <3>3. (g + 1) * NumSlots = g * NumSlots + NumSlots
      BY Z3
    <3> QED
      BY <1>1, <1>2, <2>1, <3>2, <3>3
  <2>3. CASE g = GenSpace - 1
    <3>1. (GenSpace - 1) * NumSlots = GenSpace * NumSlots - NumSlots
      BY Z3
    <3> QED
      BY <1>1, <1>2, <2>1, <2>3, <3>1
  <2> QED
    BY <2>2, <2>3
<1>9. ASSUME NEW h \in 0 .. GenSpace - 1, IdOf(g, s) = IdOf(h, s) PROVE g = h
  <2>1. g * NumSlots \in Nat /\ h * NumSlots \in Nat
    OBVIOUS
  <2>2. g * NumSlots = h * NumSlots
    BY <1>1, <1>9, <2>1 DEF IdOf
  <2>3. (g < h => g * NumSlots + NumSlots <= h * NumSlots)
        /\ (h < g => h * NumSlots + NumSlots <= g * NumSlots)
    BY ProductGrows
  <2> QED
    BY <2>1, <2>2, <2>3
<1> QED
  BY <1>4, <1>5, <1>6, <1>7, <1>8, <1>9

(* The generation a registration of entry s takes for its id, and the one  *)
(* it leaves: the last generation of the last entry is skipped.            *)
Taken(s) ==
  IF cnx[s].generation = GenSpace - 1 /\ s = NumSlots - 1 THEN 0 ELSE cnx[s].generation

Left(s) == IF Taken(s) = GenSpace - 1 THEN 0 ELSE Taken(s) + 1

(* What RPC_Register chooses is an id of the entry, and never the invalid  *)
(* one.                                                                    *)
LEMMA NewIdFacts ==
  ASSUME NEW s \in Slots, cnx[s].generation \in 0 .. GenSpace - 1
  PROVE  /\ NewId(s).id = IdOf(Taken(s), s) /\ NewId(s).generation = Left(s)
         /\ Taken(s) \in 0 .. GenSpace - 1 /\ Left(s) \in 0 .. GenSpace - 1
         /\ NewId(s).id \in Ids /\ NewId(s).id # RPC_CNX_INVALID /\ NewId(s).id % NumSlots = s
<1> USE SizeFacts
<1>1. PICK g \in 0 .. GenSpace - 1 : g = cnx[s].generation
  OBVIOUS
<1>2. \A h \in 0 .. GenSpace - 1 : (h + 1) % GenSpace = IF h = GenSpace - 1 THEN 0 ELSE h + 1
  <2> SUFFICES ASSUME NEW h \in 0 .. GenSpace - 1
               PROVE  (h + 1) % GenSpace = IF h = GenSpace - 1 THEN 0 ELSE h + 1
    OBVIOUS
  <2>1. CASE h = GenSpace - 1
    BY <2>1, Z3
  <2>2. CASE h # GenSpace - 1
    BY <2>2, SmallModulus
  <2> QED
    BY <2>1, <2>2
<1>3. Taken(s) \in 0 .. GenSpace - 1 /\ Left(s) \in 0 .. GenSpace - 1
  BY <1>1 DEF Taken, Left
<1>4. CASE IdOf(g, s) = RPC_CNX_INVALID
  <2>1. g = GenSpace - 1 /\ s = NumSlots - 1 /\ Taken(s) = 0 /\ Left(s) = 1
    BY <1>1, <1>4, IdFacts DEF Taken, Left
  <2>2. (g + 1) % GenSpace = 0 /\ (0 + 1) % GenSpace = 1
    BY <1>2, <2>1
  <2>3. NewId(s) = [id |-> (0 * NumSlots + s) % IdSpace, generation |-> 1]
    BY <1>1, <1>4, <2>2, IdFacts DEF NewId, IdOf
  <2> QED
    BY <1>3, <2>1, <2>3, IdFacts DEF IdOf
<1>5. CASE IdOf(g, s) # RPC_CNX_INVALID
  <2>1. Taken(s) = g
    BY <1>1, <1>5, IdFacts DEF Taken
  <2>2. NewId(s) = [id |-> IdOf(g, s), generation |-> Left(s)]
    BY ZenonT(30), <1>1, <1>2, <1>5, <2>1, IdFacts DEF NewId, IdOf, Left
  <2> QED
    BY <1>3, <1>5, <2>1, <2>2, IdFacts
<1> QED
  BY <1>4, <1>5

(* The lists of the worlds hold their entries once.                        *)
NoRepeat(list) == \A j, k \in DOMAIN list : list[j] = list[k] => j = k

(* List_Remove takes one link out, and the rest moves up.                  *)
LEMMA RemovedAt ==
  ASSUME NEW S, NEW list \in Seq(S), NEW s, On(list, s)
  PROVE  \E k \in 1 .. Len(list) :
           /\ list[k] = s /\ Len(list) \in Nat /\ DOMAIN list = 1 .. Len(list)
           /\ Without(list, s) \in Seq(S) /\ DOMAIN Without(list, s) = 1 .. Len(list) - 1
           /\ \A i \in 1 .. Len(list) - 1 : i < k => Without(list, s)[i] = list[i]
           /\ \A i \in 1 .. Len(list) - 1 : i >= k => Without(list, s)[i] = list[i + 1]
<1>1. PICK k \in DOMAIN list : /\ list[k] = s
                               /\ Without(list, s) = SubSeq(list, 1, k - 1) \o SubSeq(list, k + 1, Len(list))
  BY DEF On, Without
<1>2. k \in 1 .. Len(list) /\ Len(list) \in Nat /\ DOMAIN list = 1 .. Len(list)
  BY LenProperties
<1>3. \A i \in 1 .. Len(list) : list[i] \in S
  BY ElementOfSeq
<1>4. PICK a : a = SubSeq(list, 1, k - 1)
  OBVIOUS
<1>5. PICK b : b = SubSeq(list, k + 1, Len(list))
  OBVIOUS
<1>6. a \in Seq(S) /\ Len(a) = k - 1 /\ \A j \in 1 .. k - 1 : a[j] = list[j]
  <2>1. k - 1 \in Int /\ 1 \in Int /\ \A i \in 1 .. k - 1 : list[i] \in S
    BY <1>2, <1>3
  <2>2. /\ a \in Seq(S) /\ Len(a) = IF 1 <= k - 1 THEN k - 1 - 1 + 1 ELSE 0
        /\ \A i \in 1 .. k - 1 - 1 + 1 : a[i] = list[1 + i - 1]
    BY <1>4, <2>1, SubSeqProperties
  <2>3. k - 1 - 1 + 1 = k - 1 /\ \A j \in 1 .. k - 1 : 1 + j - 1 = j
    BY <1>2
  <2>4. \A j \in 1 .. k - 1 : a[j] = list[j]
    BY <2>2, <2>3
  <2> QED
    BY <1>2, <2>2, <2>4
<1>7. b \in Seq(S) /\ Len(b) = Len(list) - k /\ \A j \in 1 .. Len(list) - k : b[j] = list[k + j]
  <2>1. k + 1 \in Int /\ Len(list) \in Int /\ \A i \in k + 1 .. Len(list) : list[i] \in S
    BY <1>2, <1>3
  <2>2. /\ b \in Seq(S) /\ Len(b) = IF k + 1 <= Len(list) THEN Len(list) - (k + 1) + 1 ELSE 0
        /\ \A i \in 1 .. Len(list) - (k + 1) + 1 : b[i] = list[k + 1 + i - 1]
    BY <1>5, <2>1, SubSeqProperties
  <2>3. Len(list) - (k + 1) + 1 = Len(list) - k /\ \A j \in 1 .. Len(list) - k : k + 1 + j - 1 = k + j
    BY <1>2
  <2>4. \A j \in 1 .. Len(list) - k : b[j] = list[k + j]
    BY <2>2, <2>3
  <2> QED
    BY <1>2, <2>2, <2>4
<1>8. PICK c : c = a \o b
  OBVIOUS
<1>9. /\ c \in Seq(S) /\ Len(c) = Len(list) - 1 /\ DOMAIN c = 1 .. Len(list) - 1
      /\ \A i \in 1 .. Len(list) - 1 : c[i] = IF i <= k - 1 THEN a[i] ELSE b[i - (k - 1)]
  <2>1. c \in Seq(S) /\ Len(c) = Len(a) + Len(b)
    BY <1>6, <1>7, <1>8, ConcatProperties
  <2>2. \A i \in 1 .. Len(a) + Len(b) : c[i] = IF i <= Len(a) THEN a[i] ELSE b[i - Len(a)]
    BY <1>6, <1>7, <1>8, ConcatProperties
  <2>3. DOMAIN c = 1 .. Len(c)
    BY <2>1, LenProperties
  <2> QED
    BY <1>2, <1>6, <1>7, <2>1, <2>2, <2>3
<1>10. Without(list, s) = c
  BY <1>1, <1>4, <1>5, <1>8
<1>11. ASSUME NEW i \in 1 .. Len(list) - 1, i < k PROVE c[i] = list[i]
  BY <1>2, <1>6, <1>9, <1>11
<1>12. ASSUME NEW i \in 1 .. Len(list) - 1, i >= k PROVE c[i] = list[i + 1]
  <2>1. i - (k - 1) \in 1 .. Len(list) - k /\ ~(i <= k - 1) /\ k + (i - (k - 1)) = i + 1
    BY <1>2, <1>12
  <2>2. c[i] = b[i - (k - 1)]
    BY <1>9, <2>1
  <2> QED
    BY <1>7, <2>1, <2>2
<1> QED
  BY <1>1, <1>2, <1>9, <1>10, <1>11, <1>12

(* List_Remove takes one entry off the list and no other.                  *)
LEMMA WithoutFacts ==
  ASSUME NEW S, NEW list \in Seq(S), NEW s
  PROVE  /\ Without(list, s) \in Seq(S)
         /\ list = <<>> => Without(list, s) = <<>>
         /\ \A x : x # s /\ On(list, x) => On(Without(list, s), x)
         /\ \A x : On(Without(list, s), x) => On(list, x)
         /\ NoRepeat(list) => NoRepeat(Without(list, s)) /\ ~On(Without(list, s), s)
<1>1. CASE ~On(list, s)
  BY <1>1 DEF On, Without
<1>2. CASE On(list, s)
  <2>1. PICK k \in 1 .. Len(list) :
          /\ list[k] = s /\ Len(list) \in Nat /\ DOMAIN list = 1 .. Len(list)
          /\ Without(list, s) \in Seq(S) /\ DOMAIN Without(list, s) = 1 .. Len(list) - 1
          /\ \A i \in 1 .. Len(list) - 1 : i < k => Without(list, s)[i] = list[i]
          /\ \A i \in 1 .. Len(list) - 1 : i >= k => Without(list, s)[i] = list[i + 1]
    BY <1>2, RemovedAt
  <2>2. PICK c : c = Without(list, s)
    OBVIOUS
  <2>3. ASSUME NEW x, x # s, On(list, x) PROVE On(c, x)
    <3>1. PICK i \in 1 .. Len(list) : list[i] = x
      BY <2>1, <2>3 DEF On
    <3>2. CASE i < k
      <4>1. i \in 1 .. Len(list) - 1 /\ c[i] = x
        BY <2>1, <2>2, <3>1, <3>2
      <4> QED
        BY <2>1, <2>2, <4>1 DEF On
    <3>3. CASE i > k
      <4>1. PICK j \in 1 .. Len(list) - 1 : j = i - 1 /\ j >= k /\ j + 1 = i
        BY <2>1, <3>1, <3>3
      <4>2. c[j] = x
        BY <2>1, <2>2, <3>1, <4>1
      <4> QED
        BY <2>1, <2>2, <4>1, <4>2 DEF On
    <3> QED
      BY <2>1, <2>3, <3>1, <3>2, <3>3
  <2>4. \A i \in 1 .. Len(list) - 1 : \E j \in 1 .. Len(list) :
          /\ c[i] = list[j] /\ j # k
          /\ i < k => j = i
          /\ i >= k => j = i + 1
    <3> SUFFICES ASSUME NEW i \in 1 .. Len(list) - 1
                 PROVE  \E j \in 1 .. Len(list) :
                          /\ c[i] = list[j] /\ j # k
                          /\ i < k => j = i
                          /\ i >= k => j = i + 1
      OBVIOUS
    <3>1. i \in 1 .. Len(list) /\ i + 1 \in 1 .. Len(list) /\ i + 1 # i
      BY <2>1
    <3>2. CASE i < k
      BY <2>1, <2>2, <3>1, <3>2
    <3>3. CASE i >= k
      BY <2>1, <2>2, <3>1, <3>3
    <3> QED
      BY <2>1, <3>2, <3>3
  <2>5. ASSUME NEW x, On(c, x) PROVE On(list, x)
    BY <2>1, <2>2, <2>4, <2>5 DEF On
  <2>6. ASSUME NoRepeat(list) PROVE NoRepeat(c) /\ ~On(c, s)
    <3>1. ~On(c, s)
      BY <2>1, <2>2, <2>4, <2>6 DEF On, NoRepeat
    <3>2. ASSUME NEW i \in 1 .. Len(list) - 1, NEW j \in 1 .. Len(list) - 1, c[i] = c[j] PROVE i = j
      <4>1. PICK m \in 1 .. Len(list) :
              /\ c[i] = list[m]
              /\ i < k => m = i
              /\ i >= k => m = i + 1
        BY <2>4
      <4>2. PICK n \in 1 .. Len(list) :
              /\ c[j] = list[n]
              /\ j < k => n = j
              /\ j >= k => n = j + 1
        BY <2>4
      <4>3. m = n
        BY <2>1, <2>6, <3>2, <4>1, <4>2 DEF NoRepeat
      <4> QED
        BY <2>1, <4>1, <4>2, <4>3
    <3> QED
      BY <2>1, <2>2, <3>1, <3>2 DEF NoRepeat
  <2>7. list # <<>>
    BY <2>1
  <2> QED
    BY <2>1, <2>2, <2>3, <2>5, <2>6, <2>7
<1> QED
  BY <1>1, <1>2

-------------------------------------------------------------------------------
Entry == [allocated : BOOLEAN, generation : 0 .. GenSpace - 1, id : Ids,
          pendingDestroy : BOOLEAN, useCount : Nat,
          name : Names \cup {NoName}, world : Worlds \cup {NoWorld}]

(* A step of thread t leaves the other threads where they are.             *)
OthersStay(t) ==
  \A u \in Threads \ {t} : pc'[u] = pc[u] /\ slot'[u] = slot[u] /\ arg'[u] = arg[u] /\ dying'[u] = dying[u]

(* A thread goes on, and the others stay where they are.                   *)
LEMMA AtFacts ==
  ASSUME TypeOK, NEW t \in Threads, NEW to \in PCs, NEW s \in Slots, NEW i \in Ids, At(t, to, s, i)
  PROVE  /\ pc' \in [Threads -> PCs] /\ slot' \in [Threads -> Slots] /\ arg' \in [Threads -> Ids]
         /\ pc'[t] = to /\ slot'[t] = s /\ arg'[t] = i
         /\ dying' = dying => OthersStay(t)
  BY DEF At, TypeOK, OthersStay

(* A call is over, and its thread is idle or goes on with its cleanup.     *)
LEMMA ReturnFacts ==
  ASSUME TypeOK, NEW t \in Threads, Return(t), dying' = dying
  PROVE  /\ pc' \in [Threads -> PCs] /\ slot' \in [Threads -> Slots] /\ arg' \in [Threads -> Ids]
         /\ pc'[t] \in {"idle", "cleanup"} /\ OthersStay(t) /\ ThreadOK(t)'
<1>1. PICK to \in {"idle", "cleanup"} : /\ At(t, to, 0, 0)
                                        /\ to = "idle" => dying[t] = NoWorld
                                        /\ to = "cleanup" => dying[t] # NoWorld
  BY DEF Return
<1>2. to \in PCs /\ 0 \in Slots /\ 0 \in Ids
  BY SizeFacts DEF PCs, Slots, Ids
<1>3. /\ pc' \in [Threads -> PCs] /\ slot' \in [Threads -> Slots] /\ arg' \in [Threads -> Ids]
      /\ pc'[t] = to /\ OthersStay(t)
  BY <1>1, <1>2, AtFacts
<1>4. ThreadOK(t)'
  BY <1>1, <1>3 DEF ThreadOK, TypeOK
<1> QED
  BY <1>1, <1>3, <1>4

(* A step of thread t is about entry r and no other.                       *)
Elsewhere(t, r) ==
  /\ OthersStay(t)
  /\ \A s \in Slots \ {r} : cnx'[s] = cnx[s]
  /\ \A s \in Slots \ {r} : issued'[s] = issued[s]
  /\ \A s \in Slots \ {r}, w \in Worlds : On(cnxList[w], s) => On(cnxList'[w], s)
  /\ pc[t] \in AtEntry => slot[t] = r
  /\ pc'[t] \in AtEntry => slot'[t] = r

(* The users and the opener of the other entries are the same.             *)
LEMMA AroundKept ==
  ASSUME NEW t \in Threads, NEW r \in Slots, Elsewhere(t, r), NEW s \in Slots, s # r
  PROVE  (Opening(s)' <=> Opening(s)) /\ Users(s)' = Users(s)
<1>1. \A u \in Threads : pc'[u] = "opening" /\ slot'[u] = s <=> pc[u] = "opening" /\ slot[u] = s
  BY DEF Elsewhere, OthersStay, AtEntry
<1>2. \A u \in Threads : pc'[u] = "call" /\ slot'[u] = s <=> pc[u] = "call" /\ slot[u] = s
  BY DEF Elsewhere, OthersStay, AtEntry
<1> QED
  BY <1>1, <1>2 DEF Opening, Users

(* An entry a step is not about stays as it was, ...                       *)
LEMMA EntryKept ==
  ASSUME NEW t \in Threads, NEW r \in Slots, Elsewhere(t, r), NEW s \in Slots, s # r, EntryOK(s)
  PROVE  EntryOK(s)'
<1>1. (Opening(s)' <=> Opening(s)) /\ Users(s)' = Users(s)
  BY AroundKept
<1>2. cnx'[s] = cnx[s] /\ issued'[s] = issued[s]
  BY DEF Elsewhere
<1>3. \A w \in Worlds : On(cnxList[w], s) => On(cnxList'[w], s)
  BY DEF Elsewhere
<1>4. Registered(s)' <=> Registered(s)
  BY <1>1, <1>2 DEF Registered
<1> QED
  BY <1>1, <1>2, <1>3, <1>4 DEF EntryOK

(* ... and so does what the threads on it rely on.                         *)
LEMMA ThreadKept ==
  ASSUME TypeOK, NEW t \in Threads, NEW r \in Slots, Elsewhere(t, r), NEW u \in Threads, u # t,
         slot[u] # r \/ pc[u] \notin AtEntry, ThreadOK(u)
  PROVE  ThreadOK(u)'
<1>1. pc'[u] = pc[u] /\ slot'[u] = slot[u] /\ arg'[u] = arg[u] /\ dying'[u] = dying[u]
  BY DEF Elsewhere, OthersStay
<1>2. CASE pc[u] \notin AtEntry
  BY <1>1, <1>2 DEF ThreadOK, AtEntry
<1>3. CASE slot[u] # r
  <2>1. slot[u] \in Slots
    BY DEF TypeOK
  <2>2. (Opening(slot[u])' <=> Opening(slot[u])) /\ cnx'[slot[u]] = cnx[slot[u]]
    <3>1. PICK s \in Slots : s = slot[u]
      BY <2>1
    <3>2. (Opening(s)' <=> Opening(s)) /\ cnx'[s] = cnx[s]
      BY <1>3, <3>1, AroundKept DEF Elsewhere
    <3> QED
      BY <1>1, <3>1, <3>2 DEF Opening
  <2> QED
    BY <1>1, <2>2 DEF ThreadOK
<1> QED
  BY <1>2, <1>3

(* No other thread works on entry r.                                       *)
Deserted(t, r) == \A u \in Threads \ {t} : slot[u] = r => pc[u] \notin AtEntry

(* A step that is about an entry on which nobody else works.               *)
LEMMA DesertedStep ==
  ASSUME CnxInv, NEW t \in Threads, NEW r \in Slots, Elsewhere(t, r), Deserted(t, r)
  PROVE  /\ \A u \in Threads \ {t} : ThreadOK(u)'
         /\ Alone'
         /\ pc'[t] # "call" => Users(r)' = {}
         /\ Opening(r)' <=> pc'[t] = "opening"
<1>1. TypeOK /\ Alone /\ \A u \in Threads : ThreadOK(u)
  BY DEF CnxInv
<1>2. \A u \in Threads \ {t} : ThreadOK(u)'
  BY <1>1, ThreadKept DEF Deserted
<1>3. \A u \in Threads \ {t} : slot'[u] = r => pc'[u] \notin AtEntry
  BY DEF Elsewhere, OthersStay, Deserted
<1>4. \A u \in Threads \ {t} : pc'[u] = pc[u] /\ slot'[u] = slot[u]
  BY DEF Elsewhere, OthersStay
<1>5. Alone'
  BY <1>1, <1>3, <1>4 DEF Alone, Elsewhere, AtEntry
<1>6. pc'[t] # "call" => Users(r)' = {}
  BY <1>3 DEF Users, AtEntry
<1>7. Opening(r)' <=> pc'[t] = "opening"
  BY <1>3 DEF Opening, AtEntry, Elsewhere
<1> QED
  BY <1>2, <1>5, <1>6, <1>7

(* A step that leaves the entry as allocated as it was: the others on it   *)
(* are callers, or none of what they rely on changes.                      *)
LEMMA SharedStep ==
  ASSUME CnxInv, NEW t \in Threads, NEW r \in Slots, Elsewhere(t, r),
         pc[t] # "opening", pc'[t] # "opening",
         cnx'[r].allocated = cnx[r].allocated,
         \/ /\ cnx'[r].pendingDestroy = cnx[r].pendingDestroy
            /\ cnx'[r].id = cnx[r].id /\ cnx'[r].world = cnx[r].world
         \/ /\ cnx'[r].pendingDestroy /\ cnx'[r].id = cnx[r].id
            /\ cnx[r].allocated /\ ~Opening(r)
         \/ cnx'[r].pendingDestroy /\ ~cnx[r].allocated
  PROVE  /\ \A u \in Threads \ {t} : ThreadOK(u)'
         /\ Opening(r)' => Opening(r)
<1>1. TypeOK /\ \A u \in Threads : ThreadOK(u)
  BY DEF CnxInv
<1>2. Opening(r)' <=> Opening(r)
  BY DEF Opening, Elsewhere, OthersStay
<1>3. ASSUME NEW u \in Threads, u # t, slot[u] = r PROVE ThreadOK(u)'
  <2>1. pc'[u] = pc[u] /\ slot'[u] = r /\ arg'[u] = arg[u] /\ dying'[u] = dying[u] /\ ThreadOK(u)
    BY <1>1, <1>3 DEF Elsewhere, OthersStay
  <2>2. /\ pc[u] \in {"opening", "astray"} => Opening(r) /\ cnx[r].allocated
        /\ pc[u] = "call" => ~Opening(r)
    BY <1>3, <2>1 DEF Opening, ThreadOK
  <2>3. Opening(slot[u])' <=> Opening(r)'
    BY <2>1 DEF Opening
  <2> QED
    BY <1>2, <1>3, <2>1, <2>2, <2>3 DEF ThreadOK
<1> QED
  BY <1>1, <1>2, <1>3, ThreadKept

(* Nobody but thread t opens or closes the entry t goes to open or close.  *)
LEMMA AloneKept ==
  ASSUME Alone, NEW t \in Threads, OthersStay(t),
         \A u \in Threads \ {t} : pc'[t] \in {"opening", "closing"} /\ pc[u] = pc'[t] => slot[u] # slot'[t]
  PROVE  Alone'
<1>1. \A u \in Threads \ {t} : pc'[u] = pc[u] /\ slot'[u] = slot[u]
  BY DEF OthersStay
<1> QED
  BY <1>1 DEF Alone

-------------------------------------------------------------------------------
(* What the flags and the opener of an entry make of it.                   *)
LifeCases(s) ==
  /\ ~cnx[s].allocated => LifeOf(s) = "free"
  /\ cnx[s].allocated /\ Opening(s) => LifeOf(s) = "opening"
  /\ cnx[s].allocated /\ ~Opening(s) /\ ~cnx[s].pendingDestroy => LifeOf(s) = "live"
  /\ cnx[s].allocated /\ ~Opening(s) /\ cnx[s].pendingDestroy => LifeOf(s) = "closing"

(* The steps in the life of an entry that ConnectionLife allows.           *)
EntryStep(s) ==
  \/ LifeOf(s) = "free" /\ LifeOf(s)' = "opening" /\ Users(s)' = Users(s)
  \/ LifeOf(s) = "opening" /\ LifeOf(s)' \in {"live", "free"} /\ Users(s)' = Users(s)
  \/ LifeOf(s) = "live" /\ LifeOf(s)' = "closing" /\ Users(s)' = Users(s)
  \/ LifeOf(s) \in {"live", "closing"} /\ Users(s) = {} /\ LifeOf(s)' = "free" /\ Users(s)' = Users(s)
  \/ \E t \in Threads : LifeOf(s) = "live" /\ LifeOf(s)' = LifeOf(s) /\ Users(s)' = Users(s) \cup {t}
  \/ \E t \in Threads : t \in Users(s) /\ LifeOf(s)' = LifeOf(s) /\ Users(s)' = Users(s) \ {t}
  \/ LifeOf(s)' = LifeOf(s) /\ Users(s)' = Users(s)

(* A step of thread t is a step in the life of one entry.                  *)
OneLife(t) == \E r \in Slots : Elsewhere(t, r) /\ EntryStep(r)

(* The four states of an entry, before a step and after it.                *)
LEMMA LifeFacts ==
  ASSUME NEW s \in Slots
  PROVE  LifeCases(s) /\ LifeCases(s)'
<1>1. LifeCases(s)
  BY DEF LifeCases, LifeOf, Registered
<1>2. LifeCases(s)'
  BY DEF LifeCases, LifeOf, Registered
<1> QED
  BY <1>1, <1>2

-------------------------------------------------------------------------------
(* The parts of the invariant a step about entry r has to show.            *)
LEMMA InvFromParts ==
  ASSUME CnxInv, NEW t \in Threads, NEW r \in Slots, Elsewhere(t, r),
         TypeOK', EntryOK(r)', ThreadOK(t)', \A u \in Threads \ {t} : ThreadOK(u)', Alone', Emptied'
  PROVE  CnxInv'
<1>1. \A s \in Slots \ {r} : EntryOK(s)'
  BY EntryKept DEF CnxInv
<1> QED
  BY <1>1 DEF CnxInv

(* While lists do not grow and nobody dies or is done dying, cleaned up    *)
(* worlds stay so.                                                         *)
LEMMA EmptiedKept ==
  ASSUME Emptied, alive' = alive, dying' = dying,
         \A w \in Worlds : ~alive[w] /\ cnxList[w] = <<>> => cnxList'[w] = <<>>
  PROVE  Emptied'
  BY DEF Emptied

(* An entry that lets somebody in, because of an id RPC_Register once      *)
(* chose or RPC_Connect found, or of the world it belongs to, is           *)
(* registered.                                                             *)
LEMMA EntersRegistered ==
  ASSUME CnxInv, NEW i \in Ids, CanEnter(i),
         \/ i \in GivenIds
         \/ i # RPC_CNX_INVALID /\ issued[i % NumSlots] # <<>>
         \/ cnx[i % NumSlots].world \in Worlds
  PROVE  /\ i % NumSlots \in Slots /\ Registered(i % NumSlots)
         /\ cnx[i % NumSlots].id = i /\ ~cnx[i % NumSlots].pendingDestroy
<1>1. PICK s : s = i % NumSlots
  OBVIOUS
<1>2. s \in Slots
  BY <1>1, SlotOfId
<1>3. cnx[s].id = i /\ ~cnx[s].pendingDestroy /\ EntryOK(s)
  BY <1>1, <1>2 DEF CanEnter, CnxInv
<1>4. ASSUME i \in GivenIds PROVE i # RPC_CNX_INVALID /\ issued[s] # <<>>
  <2>1. PICK r \in Slots : \E k \in DOMAIN issued[r] : i = issued[r][k]
    BY <1>4 DEF GivenIds
  <2>2. PICK k \in DOMAIN issued[r] : i = issued[r][k]
    BY <2>1
  <2>3. i # RPC_CNX_INVALID /\ i % NumSlots = r
    BY <2>2 DEF CnxInv, EntryOK
  <2>4. r = s
    BY <1>1, <2>3
  <2> QED
    BY <2>2, <2>3, <2>4
<1>5. NoWorld \notin Worlds
  BY NamesAssumption
<1>6. cnx[s].allocated
  BY <1>1, <1>3, <1>4, <1>5 DEF EntryOK
<1>7. ~Opening(s)
  <2> SUFFICES ASSUME NEW u \in Threads, pc[u] = "opening", slot[u] = s PROVE FALSE
    BY DEF Opening
  <2>1. cnx[s].world = NoWorld /\ cnx[s].id = RPC_CNX_INVALID
    BY DEF CnxInv, ThreadOK
  <2> QED
    BY <1>1, <1>3, <1>4, <1>5, <2>1
<1> QED
  BY <1>1, <1>2, <1>3, <1>6, <1>7 DEF Registered

(* RPCUnregister's loop ends when no caller is inside.                     *)
LEMMA DrainedUnused ==
  ASSUME CnxInv, NEW s \in Slots, Registered(s), Drained(cnx[s])
  PROVE  Users(s) = {}
<1>1. cnx[s].useCount = 1 + Cardinality(Users(s)) /\ IsFiniteSet(Users(s)) /\ cnx[s].useCount <= 1
  BY DEF CnxInv, EntryOK, Drained
<1>2. Cardinality(Users(s)) \in Nat
  BY <1>1, FS_CardinalityType
<1>3. Cardinality(Users(s)) = 0
  BY <1>1, <1>2
<1> QED
  BY <1>1, <1>3, FS_EmptySet

(* The destroyer of an unused connection is alone on the entry.            *)
LEMMA DestroyerAlone ==
  ASSUME CnxInv, NEW t \in Threads, NEW s \in Slots, Registered(s), Users(s) = {},
         ~cnx[s].pendingDestroy \/ (pc[t] = "closing" /\ slot[t] = s)
  PROVE  Deserted(t, s)
<1> SUFFICES ASSUME NEW u \in Threads, u # t, slot[u] = s, pc[u] \in AtEntry PROVE FALSE
  BY DEF Deserted
<1>1. ThreadOK(u) /\ cnx[s].allocated /\ ~Opening(s) /\ Alone
  BY DEF CnxInv, Registered
<1>2. CASE pc[u] = "opening"
  BY <1>1, <1>2 DEF Opening
<1>3. CASE pc[u] \in {"call", "astray"}
  BY <1>1, <1>3 DEF Users, ThreadOK
<1>4. CASE pc[u] = "closing"
  BY <1>1, <1>4 DEF ThreadOK, Alone
<1>5. CASE pc[u] = "reset"
  BY <1>1, <1>5 DEF ThreadOK
<1> QED
  BY <1>2, <1>3, <1>4, <1>5 DEF AtEntry

(* The thread that opens an entry is alone on it when it gets the lock.    *)
LEMMA OpenerAlone ==
  ASSUME CnxInv, NEW t \in Threads, pc[t] = "opening", LockFree(slot[t])
  PROVE  slot[t] \in Slots /\ Deserted(t, slot[t])
<1>1. slot[t] \in Slots /\ Alone /\ ThreadOK(t)
  BY DEF CnxInv, TypeOK
<1> SUFFICES ASSUME NEW u \in Threads, u # t, slot[u] = slot[t], pc[u] \in AtEntry PROVE FALSE
  BY <1>1 DEF Deserted
<1>2. ThreadOK(u)
  BY DEF CnxInv
<1>3. Opening(slot[u])
  BY DEF Opening
<1>4. CASE pc[u] = "opening"
  BY <1>1, <1>4 DEF Alone
<1>5. CASE pc[u] = "call"
  BY <1>2, <1>3, <1>5 DEF ThreadOK
<1>6. CASE pc[u] \in {"closing", "reset"}
  BY <1>1, <1>2, <1>6 DEF ThreadOK
<1>7. CASE pc[u] = "astray"
  BY <1>7 DEF LockFree
<1> QED
  BY <1>4, <1>5, <1>6, <1>7 DEF AtEntry

-------------------------------------------------------------------------------
(* The scan for a free entry finds the first there is.                     *)
LEMMA FirstExists ==
  ASSUME NEW S \in SUBSET Nat, S # {}
  PROVE  FirstOf(S) \in S
<1> DEFINE R == OpToRel(<, Nat)
<1>1. IsWellFoundedOn(R, Nat)
  BY NatLessThanWellFounded
<1> HIDE DEF R
<1>2. PICK m \in S : \A r \in S : ~(<<r, m>> \in R)
  BY <1>1, WFMin
<1>3. \A r \in S : r < m => <<r, m>> \in R
  BY DEF R, OpToRel
<1>4. m \in S /\ \A r \in S : ~(r < m)
  BY <1>2, <1>3, Zenon
<1>5. \A r \in S : m <= r
  BY <1>4
<1> QED
  BY <1>4, <1>5 DEF FirstOf

(* RPCNewConnection takes an entry nobody works on.                        *)
LEMMA NewConnectionStep ==
  ASSUME OpenWindows = {}, CnxInv, NEW t \in Threads, NEW n \in Names, RPCNewConnection(t, n)
  PROVE  CnxInv' /\ OneLife(t)
<1>1. PICK r \in Slots :
        /\ ~cnx[r].allocated /\ pc[t] = "idle"
        /\ \A u \in Threads : ~(pc[u] = "reset" /\ slot[u] = r)
        /\ cnx' = [cnx EXCEPT ![r] = [RPCResetCnx(cnx[r]) EXCEPT
                     !.allocated = TRUE, !.pendingDestroy = FALSE, !.name = n]]
        /\ At(t, "opening", r, 0)
        /\ UNCHANGED <<maxIndex, cnxList, alive, dying, issued>>
  <2>1. PICK r \in {s \in Slots : ~cnx[s].allocated} : r = FirstOf({s \in Slots : ~cnx[s].allocated})
    <3>1. {s \in Slots : ~cnx[s].allocated} # {} /\ {s \in Slots : ~cnx[s].allocated} \subseteq Nat
      BY SizeFacts DEF RPCNewConnection, Slots
    <3> QED
      BY <3>1, FirstExists
  <2> QED
    BY <2>1 DEF RPCNewConnection
<1>2. TypeOK /\ cnx[r] \in Entry /\ EntryOK(r)
  BY DEF CnxInv, TypeOK, Entry
<1>3. PICK c \in Entry :
        /\ cnx' = [cnx EXCEPT ![r] = c]
        /\ c.allocated /\ ~c.pendingDestroy /\ c.world = NoWorld /\ c.id = RPC_CNX_INVALID
  <2>1. PICK d : d = RPCResetCnx(cnx[r])
    OBVIOUS
  <2>2. d \in Entry /\ d.world = NoWorld /\ d.id = RPC_CNX_INVALID
    <3>1. RPC_CNX_INVALID \in Ids /\ AllOnes \in Nat
      BY SizeFacts DEF AllOnes
    <3>2. d.world = NoWorld /\ d.id = RPC_CNX_INVALID
      BY <1>2, <2>1 DEF RPCResetCnx, Entry
    <3> QED
      BY <1>2, <2>1, <3>1, <3>2 DEF RPCResetCnx, Entry
  <2>3. [d EXCEPT !.allocated = TRUE, !.pendingDestroy = FALSE, !.name = n] \in Entry
    BY <2>2 DEF Entry
  <2> QED
    BY <1>1, <2>1, <2>2, <2>3 DEF Entry
<1>4. "opening" \in PCs /\ 0 \in Ids
  BY SizeFacts DEF PCs, Ids
<1>5. /\ pc' \in [Threads -> PCs] /\ slot' \in [Threads -> Slots] /\ arg' \in [Threads -> Ids]
      /\ pc'[t] = "opening" /\ slot'[t] = r /\ OthersStay(t)
  BY <1>1, <1>2, <1>4, AtFacts
<1>6. cnx' \in [Slots -> Entry] /\ cnx'[r] = c /\ \A s \in Slots \ {r} : cnx'[s] = cnx[s]
  BY <1>2, <1>3 DEF TypeOK, Entry
<1>7. TypeOK'
  BY <1>1, <1>2, <1>5, <1>6 DEF TypeOK, Entry
<1>8. Elsewhere(t, r)
  BY <1>1, <1>5, <1>6 DEF Elsewhere, AtEntry
<1>9. Deserted(t, r)
  BY <1>1 DEF Deserted, CnxInv, ThreadOK, AtEntry
<1>10. (\A u \in Threads \ {t} : ThreadOK(u)') /\ Alone' /\ Users(r)' = {} /\ Opening(r)'
  BY <1>5, <1>8, <1>9, DesertedStep
<1>11. ThreadOK(t)'
  BY <1>3, <1>5, <1>6 DEF ThreadOK
<1>12. EntryOK(r)'
  BY <1>1, <1>2, <1>3, <1>6, <1>10, NamesAssumption, FS_EmptySet DEF EntryOK, Registered
<1>13. Emptied'
  BY <1>1, EmptiedKept DEF CnxInv
<1>14. EntryStep(r)
  <2>1. Users(r) = {}
    BY <1>1, <1>9 DEF Users, Deserted, AtEntry
  <2>2. LifeOf(r) = "free" /\ LifeOf(r)' = "opening"
    BY <1>1, <1>3, <1>6, <1>10, LifeFacts DEF LifeCases
  <2> QED
    BY <1>10, <2>1, <2>2 DEF EntryStep
<1> QED
  BY <1>7, <1>8, <1>10, <1>11, <1>12, <1>13, <1>14, InvFromParts DEF OneLife

(* List_Insert at the rear.                                                *)
LEMMA AppendFacts ==
  ASSUME NEW S, NEW list \in Seq(S), NEW s \in S
  PROVE  /\ Append(list, s) \in Seq(S) /\ On(Append(list, s), s)
         /\ \A x : On(list, x) => On(Append(list, s), x)
         /\ \A x : On(Append(list, s), x) => x = s \/ On(list, x)
         /\ NoRepeat(list) /\ ~On(list, s) => NoRepeat(Append(list, s))
<1>1. PICK a : a = Append(list, s)
  OBVIOUS
<1>2. /\ a \in Seq(S) /\ Len(a) = Len(list) + 1 /\ a[Len(list) + 1] = s
      /\ \A i \in 1 .. Len(list) : a[i] = list[i]
  BY <1>1, AppendProperties
<1>3. Len(list) \in Nat /\ DOMAIN list = 1 .. Len(list) /\ DOMAIN a = 1 .. Len(list) + 1
  BY <1>2, LenProperties
<1>4. On(a, s)
  BY <1>2, <1>3 DEF On
<1>5. ASSUME NEW x, On(list, x) PROVE On(a, x)
  BY <1>2, <1>3, <1>5 DEF On
<1>6. \A k \in 1 .. Len(list) + 1 : k = Len(list) + 1 \/ k \in 1 .. Len(list)
  BY <1>3
<1>7. ASSUME NEW x, On(a, x) PROVE x = s \/ On(list, x)
  BY <1>2, <1>3, <1>6, <1>7 DEF On
<1>8. ASSUME NoRepeat(list), ~On(list, s) PROVE NoRepeat(a)
  BY <1>2, <1>3, <1>6, <1>8 DEF On, NoRepeat
<1> QED
  BY <1>1, <1>2, <1>4, <1>5, <1>7, <1>8

(* The ids chosen for an entry are its own, the new one as well.           *)
LEMMA IssuedFacts ==
  ASSUME NEW r \in Slots, issued \in [Slots -> Seq(Ids)], NEW i \in Ids,
         i # RPC_CNX_INVALID, i % NumSlots = r, EntryOK(r),
         issued' = [issued EXCEPT ![r] = Append(@, i)]
  PROVE  /\ issued' \in [Slots -> Seq(Ids)]
         /\ \A s \in Slots \ {r} : issued'[s] = issued[s]
         /\ \A k \in DOMAIN issued'[r] : issued'[r][k] # RPC_CNX_INVALID /\ issued'[r][k] % NumSlots = r
         /\ issued'[r] # <<>>
<1>1. PICK old \in Seq(Ids) : old = issued[r]
  OBVIOUS
<1>2. PICK new : new = Append(old, i)
  OBVIOUS
<1>3. /\ new \in Seq(Ids) /\ Len(new) = Len(old) + 1 /\ new[Len(old) + 1] = i
      /\ \A k \in 1 .. Len(old) : new[k] = old[k]
  BY <1>1, <1>2, AppendProperties
<1>4. Len(old) \in Nat /\ DOMAIN old = 1 .. Len(old) /\ DOMAIN new = 1 .. Len(old) + 1
  BY <1>3, LenProperties
<1>5. \A k \in 1 .. Len(old) : old[k] # RPC_CNX_INVALID /\ old[k] % NumSlots = r
  BY <1>1, <1>4 DEF EntryOK
<1>6. \A k \in 1 .. Len(old) + 1 : k = Len(old) + 1 \/ k \in 1 .. Len(old)
  BY <1>4
<1>7. \A k \in DOMAIN new : new[k] # RPC_CNX_INVALID /\ new[k] % NumSlots = r
  BY <1>3, <1>4, <1>5, <1>6
<1>8. issued'[r] = new /\ issued' \in [Slots -> Seq(Ids)] /\ \A s \in Slots \ {r} : issued'[s] = issued[s]
  BY <1>1, <1>2, <1>3
<1>9. new # <<>>
  BY <1>4
<1> QED
  BY <1>7, <1>8, <1>9

(* The second part of RPC_Register: the connection counts its              *)
(* registration, and is on the list of its world.                          *)
LEMMA RegisterInitStep ==
  ASSUME CnxInv, NEW t \in Threads, NEW w \in Worlds, RegisterInit(t, w)
  PROVE  CnxInv' /\ OneLife(t)
<1>1. PICK r : r = slot[t]
  OBVIOUS
<1>2. r \in Slots /\ Deserted(t, r) /\ pc[t] = "opening"
  BY <1>1, OpenerAlone DEF RegisterInit
<1>3. TypeOK /\ cnx[r] \in Entry /\ EntryOK(r) /\ ThreadOK(t) /\ cnx[r].generation \in 0 .. GenSpace - 1
  BY <1>2 DEF CnxInv, TypeOK, Entry
<1>4. PICK i, g : /\ i = NewId(r).id /\ g = NewId(r).generation
                  /\ i \in Ids /\ i # RPC_CNX_INVALID /\ i % NumSlots = r /\ g \in 0 .. GenSpace - 1
  BY <1>2, <1>3, NewIdFacts
<1>5. PICK c : /\ c = [cnx[r] EXCEPT !.id = i, !.generation = g, !.useCount = 1, !.world = w]
               /\ cnx' = [cnx EXCEPT ![r] = c]
  BY <1>1, <1>4 DEF RegisterInit
<1>6. c \in Entry
  BY <1>3, <1>4, <1>5 DEF Entry
<1>7. /\ c.allocated /\ ~c.pendingDestroy /\ c.useCount = 1 /\ c.id = i /\ c.world = w
  BY <1>1, <1>2, <1>3, <1>5 DEF Entry, ThreadOK
<1>8. cnx' \in [Slots -> Entry] /\ cnx'[r] = c /\ \A s \in Slots \ {r} : cnx'[s] = cnx[s]
  BY <1>2, <1>3, <1>5, <1>6 DEF TypeOK, Entry
<1>9. /\ pc' \in [Threads -> PCs] /\ slot' \in [Threads -> Slots] /\ arg' \in [Threads -> Ids]
      /\ pc'[t] \in {"raise", "idle", "cleanup"} /\ OthersStay(t) /\ ThreadOK(t)'
  <2>1. dying' = dying
    BY DEF RegisterInit
  <2>2. CASE Return(t)
    BY <1>3, <2>1, <2>2, ReturnFacts
  <2>3. CASE At(t, "raise", r, 0)
    <3>1. "raise" \in PCs /\ 0 \in Ids
      BY SizeFacts DEF PCs, Ids
    <3>2. /\ pc' \in [Threads -> PCs] /\ slot' \in [Threads -> Slots] /\ arg' \in [Threads -> Ids]
          /\ pc'[t] = "raise" /\ OthersStay(t)
      BY <1>2, <1>3, <2>1, <2>3, <3>1, AtFacts
    <3> QED
      BY <3>2 DEF ThreadOK
  <2> QED
    BY <1>1, <2>2, <2>3 DEF RegisterInit
<1>10. /\ issued' \in [Slots -> Seq(Ids)]
       /\ \A s \in Slots \ {r} : issued'[s] = issued[s]
       /\ \A k \in DOMAIN issued'[r] : issued'[r][k] # RPC_CNX_INVALID /\ issued'[r][k] % NumSlots = r
       /\ issued'[r] # <<>>
  <2>1. issued' = [issued EXCEPT ![r] = Append(@, i)] /\ issued \in [Slots -> Seq(Ids)]
    BY <1>1, <1>3, <1>4 DEF RegisterInit, TypeOK
  <2> QED
    BY <1>2, <1>3, <1>4, <2>1, IssuedFacts
<1>11. /\ cnxList' \in [Worlds -> Seq(Slots)] /\ On(cnxList'[w], r)
       /\ \A v \in Worlds : \A s : On(cnxList[v], s) => On(cnxList'[v], s)
       /\ \A v \in Worlds \ {w} : cnxList'[v] = cnxList[v]
  <2>1. cnxList' = [cnxList EXCEPT ![w] = Append(@, r)] /\ cnxList \in [Worlds -> Seq(Slots)]
    BY <1>1, <1>3 DEF RegisterInit, TypeOK
  <2>2. PICK l \in Seq(Slots) : l = cnxList[w]
    BY <2>1
  <2>3. /\ Append(l, r) \in Seq(Slots) /\ On(Append(l, r), r)
        /\ \A s : On(l, s) => On(Append(l, r), s)
    BY <1>2, <2>2, AppendFacts
  <2> QED
    BY <2>1, <2>2, <2>3
<1>12. TypeOK'
  BY <1>3, <1>8, <1>9, <1>10, <1>11 DEF TypeOK, Entry, RegisterInit
<1>13. Elsewhere(t, r)
  BY <1>1, <1>8, <1>9, <1>10, <1>11 DEF Elsewhere, AtEntry
<1>14. (\A u \in Threads \ {t} : ThreadOK(u)') /\ Alone' /\ Users(r)' = {} /\ ~Opening(r)'
  BY <1>2, <1>9, <1>13, DesertedStep
<1>15. EntryOK(r)'
  <2>1. IsFiniteSet({}) /\ Cardinality({}) = 0
    BY FS_EmptySet
  <2>2. \A v \in Worlds : v = w => On(cnxList'[v], r)
    BY <1>11
  <2> QED
    BY <1>2, <1>4, <1>7, <1>8, <1>10, <1>14, <2>1, <2>2 DEF EntryOK
<1>16. Emptied'
  <2>1. alive[w] /\ alive' = alive /\ dying' = dying
    BY DEF RegisterInit
  <2> QED
    BY <1>11, <2>1, EmptiedKept DEF CnxInv
<1>17. EntryStep(r)
  <2>1. Users(r) = {}
    BY <1>2 DEF Users, Deserted, AtEntry
  <2>2. cnx[r].allocated /\ Opening(r)
    BY <1>1, <1>2, <1>3 DEF ThreadOK, Opening
  <2>3. LifeOf(r) = "opening" /\ LifeOf(r)' = "live"
    BY <1>2, <1>7, <1>8, <1>14, <2>2, LifeFacts DEF LifeCases
  <2> QED
    BY <1>14, <2>1, <2>3 DEF EntryStep
<1> QED
  BY <1>2, <1>9, <1>12, <1>13, <1>14, <1>15, <1>16, <1>17, InvFromParts DEF OneLife

(* A registration that fails leaves the entry free.                        *)
LEMMA RegisterFailStep ==
  ASSUME CnxInv, NEW t \in Threads, RegisterFail(t)
  PROVE  CnxInv' /\ OneLife(t)
<1>1. PICK r : r = slot[t]
  OBVIOUS
<1>2. r \in Slots /\ Deserted(t, r) /\ pc[t] = "opening"
  BY <1>1, OpenerAlone DEF RegisterFail
<1>3. TypeOK /\ cnx[r] \in Entry /\ EntryOK(r) /\ ThreadOK(t) /\ cnx[r].generation \in 0 .. GenSpace - 1
  BY <1>2 DEF CnxInv, TypeOK, Entry
<1>4. PICK i, g : /\ i = NewId(r).id /\ g = NewId(r).generation
                  /\ i \in Ids /\ i # RPC_CNX_INVALID /\ i % NumSlots = r /\ g \in 0 .. GenSpace - 1
  BY <1>2, <1>3, NewIdFacts
<1>5. PICK c : /\ c = [cnx[r] EXCEPT !.id = i, !.generation = g, !.useCount = 1, !.pendingDestroy = TRUE,
                                     !.allocated = FALSE]
               /\ cnx' = [cnx EXCEPT ![r] = c]
  BY <1>1, <1>4 DEF RegisterFail
<1>6. c \in Entry
  BY <1>3, <1>4, <1>5 DEF Entry
<1>7. ~c.allocated /\ c.pendingDestroy
  BY <1>3, <1>5 DEF Entry
<1>8. cnx' \in [Slots -> Entry] /\ cnx'[r] = c /\ \A s \in Slots \ {r} : cnx'[s] = cnx[s]
  BY <1>2, <1>3, <1>5, <1>6 DEF TypeOK, Entry
<1>9. /\ pc' \in [Threads -> PCs] /\ slot' \in [Threads -> Slots] /\ arg' \in [Threads -> Ids]
      /\ pc'[t] = "reset" /\ slot'[t] = r /\ OthersStay(t)
  <2>1. dying' = dying /\ At(t, "reset", r, 0) /\ "reset" \in PCs /\ 0 \in Ids
    BY <1>1, SizeFacts DEF RegisterFail, PCs, Ids
  <2> QED
    BY <1>2, <1>3, <2>1, AtFacts
<1>10. /\ issued' \in [Slots -> Seq(Ids)]
       /\ \A s \in Slots \ {r} : issued'[s] = issued[s]
       /\ \A k \in DOMAIN issued'[r] : issued'[r][k] # RPC_CNX_INVALID /\ issued'[r][k] % NumSlots = r
  <2>1. issued' = [issued EXCEPT ![r] = Append(@, i)] /\ issued \in [Slots -> Seq(Ids)]
    BY <1>1, <1>3, <1>4 DEF RegisterFail, TypeOK
  <2> QED
    BY <1>2, <1>3, <1>4, <2>1, IssuedFacts
<1>11. UNCHANGED <<maxIndex, cnxList, alive, dying>>
  BY DEF RegisterFail
<1>12. TypeOK'
  BY <1>3, <1>8, <1>9, <1>10, <1>11 DEF TypeOK, Entry
<1>13. Elsewhere(t, r)
  BY <1>1, <1>8, <1>9, <1>10, <1>11 DEF Elsewhere, AtEntry
<1>14. (\A u \in Threads \ {t} : ThreadOK(u)') /\ Alone' /\ Users(r)' = {} /\ ~Opening(r)'
  BY <1>2, <1>9, <1>13, DesertedStep
<1>15. ThreadOK(t)'
  BY <1>7, <1>8, <1>9 DEF ThreadOK
<1>16. EntryOK(r)'
  BY <1>7, <1>8, <1>10, <1>14, FS_EmptySet DEF EntryOK, Registered
<1>17. Emptied'
  BY <1>11, EmptiedKept DEF CnxInv
<1>18. EntryStep(r)
  <2>1. Users(r) = {}
    BY <1>2 DEF Users, Deserted, AtEntry
  <2>2. cnx[r].allocated /\ Opening(r)
    BY <1>1, <1>2, <1>3 DEF ThreadOK, Opening
  <2>3. LifeOf(r) = "opening" /\ LifeOf(r)' = "free"
    BY <1>2, <1>7, <1>8, <1>14, <2>2, LifeFacts DEF LifeCases
  <2> QED
    BY <1>14, <2>1, <2>3 DEF EntryStep
<1> QED
  BY <1>2, <1>12, <1>13, <1>14, <1>15, <1>16, <1>17, <1>18, InvFromParts DEF OneLife

(* Callers come with ids.                                                  *)
LEMMA GivenAreIds ==
  ASSUME TypeOK, NEW i \in GivenIds
  PROVE  i \in Ids
<1>1. PICK s \in Slots : \E k \in DOMAIN issued[s] : i = issued[s][k]
  BY DEF GivenIds
<1>2. PICK k \in DOMAIN issued[s] : i = issued[s][k]
  BY <1>1
<1>3. issued[s] \in Seq(Ids)
  BY DEF TypeOK
<1> QED
  BY <1>2, <1>3, LenProperties, ElementOfSeq

(* A call that enters is counted, and finds a registered connection, also  *)
(* with what RPC_Connect returned.                                         *)
LEMMA FindAndLockStep ==
  ASSUME CnxInv, Found, NEW t \in Threads, NEW i \in Ids, RPCFindAndLockCnx(t, i)
  PROVE  CnxInv' /\ OneLife(t)
<1>1. PICK r : r = i % NumSlots
  OBVIOUS
<1>2. /\ pc[t] \in {"idle", "connected"} /\ CanEnter(i)
      /\ i \in GivenIds \/ (i # RPC_CNX_INVALID /\ issued[i % NumSlots] # <<>>)
  <2>1. /\ i # RPC_CNX_INVALID /\ CanEnter(i)
        /\ (pc[t] = "idle" /\ i \in GivenIds) \/ (pc[t] = "connected" /\ i = arg[t])
    BY DEF RPCFindAndLockCnx, IdsOf
  <2>2. CASE pc[t] = "idle" /\ i \in GivenIds
    BY <2>1, <2>2
  <2>3. CASE pc[t] = "connected" /\ i = arg[t]
    BY <2>1, <2>3 DEF Found
  <2> QED
    BY <2>1, <2>2, <2>3
<1>3. r \in Slots /\ Registered(r) /\ cnx[r].id = i /\ ~cnx[r].pendingDestroy
  BY <1>1, <1>2, EntersRegistered
<1>4. TypeOK /\ cnx[r] \in Entry /\ EntryOK(r) /\ pc[t] \in {"idle", "connected"}
  BY <1>2, <1>3 DEF CnxInv, TypeOK, Entry
<1>5. PICK c : c = [cnx[r] EXCEPT !.useCount = cnx[r].useCount + 1] /\ cnx' = [cnx EXCEPT ![r] = c]
  BY <1>1, <1>3, <1>4 DEF RPCFindAndLockCnx, TypeOK
<1>6. c \in Entry /\ c.useCount = cnx[r].useCount + 1
  BY <1>4, <1>5 DEF Entry
<1>7. /\ c.allocated = cnx[r].allocated /\ c.pendingDestroy = cnx[r].pendingDestroy
      /\ c.id = cnx[r].id /\ c.world = cnx[r].world
  BY <1>4, <1>5 DEF Entry
<1>8. cnx' \in [Slots -> Entry] /\ cnx'[r] = c /\ \A s \in Slots \ {r} : cnx'[s] = cnx[s]
  BY <1>3, <1>4, <1>5, <1>6 DEF TypeOK, Entry
<1>9. /\ pc' \in [Threads -> PCs] /\ slot' \in [Threads -> Slots] /\ arg' \in [Threads -> Ids]
      /\ pc'[t] = "call" /\ slot'[t] = r /\ arg'[t] = i /\ OthersStay(t)
  <2>1. dying' = dying /\ At(t, "call", r, i) /\ "call" \in PCs
    BY <1>1 DEF RPCFindAndLockCnx, PCs
  <2> QED
    BY <1>2, <1>3, <1>4, <2>1, AtFacts
<1>10. UNCHANGED <<maxIndex, cnxList, alive, dying, issued>>
  BY DEF RPCFindAndLockCnx
<1>11. TypeOK'
  BY <1>4, <1>8, <1>9, <1>10 DEF TypeOK, Entry
<1>12. Elsewhere(t, r)
  BY <1>4, <1>8, <1>9, <1>10 DEF Elsewhere, AtEntry
<1>13. (\A u \in Threads \ {t} : ThreadOK(u)') /\ (Opening(r)' => Opening(r))
  BY <1>3, <1>4, <1>7, <1>8, <1>9, <1>12, SharedStep
<1>14. cnx[r].allocated /\ ~Opening(r)
  BY <1>3 DEF Registered
<1>15. ThreadOK(t)'
  <2>1. Opening(slot[t])' <=> Opening(r)'
    BY <1>9 DEF Opening
  <2> QED
    BY <1>3, <1>7, <1>8, <1>9, <1>13, <1>14, <2>1 DEF ThreadOK
<1>16. EntryOK(r)'
  <2>1. Users(r)' = Users(r) \cup {t} /\ t \notin Users(r)
    BY <1>4, <1>9 DEF Users, OthersStay
  <2>2. IsFiniteSet(Users(r)) /\ cnx[r].useCount = 1 + Cardinality(Users(r))
    BY <1>3, <1>4 DEF EntryOK
  <2>3. /\ IsFiniteSet(Users(r) \cup {t}) /\ Cardinality(Users(r) \cup {t}) = Cardinality(Users(r)) + 1
        /\ Cardinality(Users(r)) \in Nat
    BY <2>1, <2>2, FS_AddElement, FS_CardinalityType
  <2>4. c.useCount = 1 + Cardinality(Users(r)')
    BY <1>6, <2>1, <2>2, <2>3
  <2> QED
    BY <1>3, <1>4, <1>7, <1>8, <1>10, <1>14, <2>1, <2>3, <2>4 DEF EntryOK
<1>17. Alone'
  BY <1>9, AloneKept DEF CnxInv
<1>18. Emptied'
  BY <1>10, EmptiedKept DEF CnxInv
<1>19. EntryStep(r)
  <2>1. Users(r)' = Users(r) \cup {t}
    BY <1>9 DEF Users, OthersStay
  <2>2. LifeOf(r) = "live" /\ LifeOf(r)' = "live"
    BY <1>3, <1>7, <1>8, <1>13, <1>14, LifeFacts DEF LifeCases
  <2> QED
    BY <2>1, <2>2 DEF EntryStep
<1> QED
  BY <1>3, <1>11, <1>12, <1>13, <1>15, <1>16, <1>17, <1>18, <1>19, InvFromParts DEF OneLife

(* A call with RPC_CNX_INVALID that enters disturbs nobody but the thread  *)
(* that opens the entry.                                                   *)
LEMMA CallAstrayStep ==
  ASSUME CnxInv, NEW t \in Threads, CallAstray(t)
  PROVE  CnxInv' /\ OneLife(t)
<1>1. PICK r, i : i = RPC_CNX_INVALID /\ r = i % NumSlots
  OBVIOUS
<1>2. r \in Slots /\ i \in Ids
  BY <1>1, SizeFacts, SlotOfId
<1>3. TypeOK /\ cnx[r] \in Entry /\ EntryOK(r) /\ cnx[r].id = i /\ ~cnx[r].pendingDestroy
  BY <1>1, <1>2 DEF CnxInv, TypeOK, Entry, CallAstray, CanEnter
<1>4. pc[t] \in {"idle", "connected"} /\ UNCHANGED <<maxIndex, cnxList, alive, dying, issued>>
  BY DEF CallAstray, IdsOf
<1>5. cnx[r].allocated /\ Opening(r)
  BY <1>1, <1>3 DEF EntryOK, Registered
<1>6. PICK c : c = [cnx[r] EXCEPT !.useCount = 0] /\ cnx' = [cnx EXCEPT ![r] = c]
  BY <1>1, <1>2, <1>3 DEF CallAstray, TypeOK
<1>7. /\ c \in Entry /\ c.allocated = cnx[r].allocated /\ c.pendingDestroy = cnx[r].pendingDestroy
      /\ c.id = cnx[r].id /\ c.world = cnx[r].world
  BY <1>3, <1>6 DEF Entry
<1>8. cnx' \in [Slots -> Entry] /\ cnx'[r] = c /\ \A s \in Slots \ {r} : cnx'[s] = cnx[s]
  BY <1>2, <1>3, <1>6, <1>7 DEF TypeOK, Entry
<1>9. /\ pc' \in [Threads -> PCs] /\ slot' \in [Threads -> Slots] /\ arg' \in [Threads -> Ids]
      /\ pc'[t] = "astray" /\ slot'[t] = r /\ arg'[t] = i /\ OthersStay(t)
  <2>1. At(t, "astray", r, i) /\ "astray" \in PCs
    BY <1>1 DEF CallAstray, PCs
  <2> QED
    BY <1>2, <1>3, <1>4, <2>1, AtFacts
<1>10. TypeOK'
  BY <1>3, <1>4, <1>8, <1>9 DEF TypeOK, Entry
<1>11. Elsewhere(t, r)
  BY <1>4, <1>8, <1>9 DEF Elsewhere, AtEntry
<1>12. \A u \in Threads \ {t} : ThreadOK(u)'
  BY <1>2, <1>4, <1>7, <1>8, <1>9, <1>11, SharedStep
<1>13. Opening(r)'
  BY <1>4, <1>5, <1>9 DEF Opening, OthersStay
<1>14. ThreadOK(t)'
  <2>1. Opening(slot[t])' <=> Opening(r)'
    BY <1>9 DEF Opening
  <2> QED
    BY <1>3, <1>5, <1>7, <1>8, <1>9, <1>13, <2>1 DEF ThreadOK
<1>15. Users(r)' = Users(r)
  BY <1>4, <1>9 DEF Users, OthersStay
<1>16. EntryOK(r)'
  BY <1>3, <1>4, <1>5, <1>7, <1>8, <1>13, <1>15 DEF EntryOK, Registered
<1>17. Alone' /\ Emptied'
  BY <1>4, <1>9, AloneKept, EmptiedKept DEF CnxInv
<1>18. EntryStep(r)
  <2>1. LifeOf(r) = "opening" /\ LifeOf(r)' = "opening"
    BY <1>2, <1>5, <1>7, <1>8, <1>13, LifeFacts DEF LifeCases
  <2> QED
    BY <1>15, <2>1 DEF EntryStep
<1> QED
  BY <1>2, <1>10, <1>11, <1>12, <1>14, <1>16, <1>17, <1>18, InvFromParts DEF OneLife

(* A call that leaves is not the last user: the registration still counts. *)
LEMMA NotLastUser ==
  ASSUME CnxInv, NEW t \in Threads, pc[t] = "call"
  PROVE  /\ slot[t] \in Slots /\ Registered(slot[t]) /\ cnx[slot[t]].useCount > 1
         /\ t \in Users(slot[t]) /\ IsFiniteSet(Users(slot[t]))
         /\ cnx[slot[t]].useCount = 1 + Cardinality(Users(slot[t])) /\ Cardinality(Users(slot[t])) \in Nat
<1>1. PICK r \in Slots : r = slot[t]
  BY DEF CnxInv, TypeOK
<1>2. Registered(r)
  BY <1>1 DEF CnxInv, ThreadOK, Registered
<1>3. IsFiniteSet(Users(r)) /\ cnx[r].useCount = 1 + Cardinality(Users(r))
  BY <1>2 DEF CnxInv, EntryOK
<1>4. t \in Users(r)
  BY <1>1 DEF Users
<1>5. Cardinality(Users(r)) \in Nat /\ Cardinality(Users(r)) # 0
  BY <1>3, <1>4, FS_CardinalityType, FS_EmptySet
<1> QED
  BY <1>1, <1>2, <1>3, <1>4, <1>5

(* RPCReleaseAndUnlockCnx takes the caller out and off the count, and does *)
(* not free the entry.                                                     *)
LEMMA ReleaseStep ==
  ASSUME CnxInv, NEW t \in Threads, RPCReleaseAndUnlockCnx(t)
  PROVE  CnxInv' /\ OneLife(t)
<1>1. PICK r : r = slot[t]
  OBVIOUS
<1>2. /\ r \in Slots /\ Registered(r) /\ cnx[r].useCount > 1
      /\ t \in Users(r) /\ IsFiniteSet(Users(r)) /\ cnx[r].useCount = 1 + Cardinality(Users(r))
      /\ Cardinality(Users(r)) \in Nat
  BY <1>1, NotLastUser DEF RPCReleaseAndUnlockCnx
<1>3. TypeOK /\ cnx[r] \in Entry /\ EntryOK(r) /\ pc[t] = "call" /\ cnx[r].allocated /\ ~Opening(r)
  BY <1>2 DEF CnxInv, TypeOK, Entry, RPCReleaseAndUnlockCnx, Registered
<1>4. PICK c : /\ c = [cnx[r] EXCEPT !.useCount = cnx[r].useCount - 1, !.allocated = TRUE]
               /\ cnx' = [cnx EXCEPT ![r] = c]
  BY <1>1, <1>2, <1>3 DEF RPCReleaseAndUnlockCnx, TypeOK
<1>5. c \in Entry /\ c.useCount = cnx[r].useCount - 1
  <2>1. PICK n \in Nat : n = cnx[r].useCount - 1
    BY <1>2
  <2> QED
    BY <1>3, <1>4, <2>1 DEF Entry
<1>6. /\ c.allocated /\ c.pendingDestroy = cnx[r].pendingDestroy
      /\ c.id = cnx[r].id /\ c.world = cnx[r].world
  BY <1>3, <1>4 DEF Entry
<1>7. cnx' \in [Slots -> Entry] /\ cnx'[r] = c /\ \A s \in Slots \ {r} : cnx'[s] = cnx[s]
  BY <1>2, <1>3, <1>4, <1>5 DEF TypeOK, Entry
<1>8. UNCHANGED <<maxIndex, cnxList, alive, dying, issued>> /\ Return(t)
  BY <1>1, <1>2 DEF RPCReleaseAndUnlockCnx
<1>9. /\ pc' \in [Threads -> PCs] /\ slot' \in [Threads -> Slots] /\ arg' \in [Threads -> Ids]
      /\ pc'[t] \in {"idle", "cleanup"} /\ OthersStay(t) /\ ThreadOK(t)'
  BY <1>3, <1>8, ReturnFacts
<1>10. TypeOK'
  BY <1>3, <1>7, <1>8, <1>9 DEF TypeOK, Entry
<1>11. Elsewhere(t, r)
  BY <1>1, <1>7, <1>8, <1>9 DEF Elsewhere, AtEntry
<1>12. (\A u \in Threads \ {t} : ThreadOK(u)') /\ (Opening(r)' => Opening(r))
  BY <1>2, <1>3, <1>6, <1>7, <1>9, <1>11, SharedStep
<1>13. EntryOK(r)'
  <2>1. Users(r)' = Users(r) \ {t}
    BY <1>9 DEF Users, OthersStay
  <2>2. IsFiniteSet(Users(r) \ {t}) /\ Cardinality(Users(r) \ {t}) = Cardinality(Users(r)) - 1
    BY <1>2, FS_RemoveElement
  <2>3. c.useCount = 1 + Cardinality(Users(r)')
    BY <1>2, <1>5, <2>1, <2>2
  <2> QED
    BY <1>2, <1>3, <1>6, <1>7, <1>8, <2>1, <2>2, <2>3 DEF EntryOK
<1>14. Alone'
  BY <1>9, AloneKept DEF CnxInv
<1>15. Emptied'
  BY <1>8, EmptiedKept DEF CnxInv
<1>16. EntryStep(r)
  <2>1. Users(r)' = Users(r) \ {t}
    BY <1>9 DEF Users, OthersStay
  <2>2. LifeOf(r)' = LifeOf(r)
    BY <1>2, <1>3, <1>6, <1>7, <1>12, LifeFacts DEF LifeCases
  <2> QED
    BY <1>2, <2>1, <2>2 DEF EntryStep
<1> QED
  BY <1>2, <1>9, <1>10, <1>11, <1>12, <1>13, <1>14, <1>15, <1>16, InvFromParts DEF OneLife

(* The entry of a connection nobody uses is freed.                         *)
LEMMA DestroyStep ==
  ASSUME CnxInv, NEW t \in Threads, NEW r \in Slots, Registered(r), Drained(cnx[r]),
         (~cnx[r].pendingDestroy /\ pc[t] \notin AtEntry) \/ (pc[t] = "closing" /\ slot[t] = r),
         Destroy(t, r), UNCHANGED <<maxIndex, alive, dying, issued>>
  PROVE  CnxInv' /\ OneLife(t)
<1>1. Users(r) = {} /\ Deserted(t, r)
  BY DrainedUnused, DestroyerAlone
<1>2. TypeOK /\ cnx[r] \in Entry /\ EntryOK(r)
  BY DEF CnxInv, TypeOK, Entry
<1>3. PICK c : /\ c = [cnx[r] EXCEPT !.pendingDestroy = TRUE, !.useCount = 0, !.allocated = FALSE]
               /\ cnx' = [cnx EXCEPT ![r] = c]
  BY <1>2 DEF Destroy, TypeOK
<1>4. c \in Entry /\ ~c.allocated /\ c.pendingDestroy
  BY <1>2, <1>3 DEF Entry
<1>5. cnx' \in [Slots -> Entry] /\ cnx'[r] = c /\ \A s \in Slots \ {r} : cnx'[s] = cnx[s]
  BY <1>2, <1>3, <1>4 DEF TypeOK, Entry
<1>6. /\ pc' \in [Threads -> PCs] /\ slot' \in [Threads -> Slots] /\ arg' \in [Threads -> Ids]
      /\ pc'[t] = "reset" /\ slot'[t] = r /\ OthersStay(t)
  <2>1. At(t, "reset", r, 0) /\ "reset" \in PCs /\ 0 \in Ids
    BY SizeFacts DEF Destroy, PCs, Ids
  <2> QED
    BY <1>2, <2>1, AtFacts
<1>7. /\ cnxList' \in [Worlds -> Seq(Slots)]
      /\ \A w \in Worlds : cnxList[w] = <<>> => cnxList'[w] = <<>>
      /\ \A s \in Slots \ {r}, w \in Worlds : On(cnxList[w], s) => On(cnxList'[w], s)
  <2>1. cnxList' = [w \in Worlds |-> Without(cnxList[w], r)] /\ \A w \in Worlds : cnxList[w] \in Seq(Slots)
    BY <1>2 DEF Destroy, TypeOK
  <2>2. \A w \in Worlds : /\ Without(cnxList[w], r) \in Seq(Slots)
                          /\ cnxList[w] = <<>> => Without(cnxList[w], r) = <<>>
                          /\ \A x : x # r /\ On(cnxList[w], x) => On(Without(cnxList[w], r), x)
    BY <2>1, WithoutFacts
  <2> QED
    BY <2>1, <2>2
<1>8. TypeOK'
  BY <1>2, <1>5, <1>6, <1>7 DEF TypeOK, Entry
<1>9. Elsewhere(t, r)
  BY <1>5, <1>6, <1>7 DEF Elsewhere, AtEntry
<1>10. (\A u \in Threads \ {t} : ThreadOK(u)') /\ Alone' /\ Users(r)' = {}
  BY <1>1, <1>6, <1>9, DesertedStep
<1>11. ThreadOK(t)'
  BY <1>4, <1>5, <1>6 DEF ThreadOK
<1>12. EntryOK(r)'
  BY <1>2, <1>4, <1>5, <1>10, FS_EmptySet DEF EntryOK, Registered
<1>13. Emptied'
  BY <1>7, EmptiedKept DEF CnxInv
<1>14. EntryStep(r)
  <2>1. LifeOf(r) \in {"live", "closing"} /\ LifeOf(r)' = "free"
    BY <1>4, <1>5, LifeFacts DEF LifeCases, Registered
  <2> QED
    BY <1>1, <1>10, <2>1 DEF EntryStep
<1> QED
  BY <1>8, <1>9, <1>10, <1>11, <1>12, <1>13, <1>14, InvFromParts DEF OneLife

(* RPCUnregister turns newcomers away, and frees the entry when nobody is  *)
(* inside.                                                                 *)
LEMMA UnregisterStep ==
  ASSUME CnxInv, NEW t \in Threads, NEW i \in Ids, i \in GivenIds \/ dying[t] \in Worlds,
         pc[t] \notin AtEntry, RPCUnregister(t, i)
  PROVE  CnxInv' /\ OneLife(t)
<1>1. PICK r : r = i % NumSlots
  OBVIOUS
<1>2. r \in Slots /\ Registered(r) /\ cnx[r].id = i /\ ~cnx[r].pendingDestroy
  BY <1>1, EntersRegistered, NamesAssumption DEF RPCUnregister
<1>3. TypeOK /\ cnx[r] \in Entry /\ EntryOK(r) /\ cnx[r].allocated /\ ~Opening(r)
  BY <1>2 DEF CnxInv, TypeOK, Entry, Registered
<1>4. UNCHANGED <<maxIndex, alive, dying, issued>>
  BY DEF RPCUnregister
<1>5. CASE Drained(cnx[r]) /\ Destroy(t, r)
  BY <1>2, <1>4, <1>5, DestroyStep
<1>6. CASE /\ cnx' = [cnx EXCEPT ![r].pendingDestroy = TRUE]
           /\ At(t, "closing", r, 0)
           /\ UNCHANGED cnxList
  <2>1. PICK c : c = [cnx[r] EXCEPT !.pendingDestroy = TRUE] /\ cnx' = [cnx EXCEPT ![r] = c]
    BY <1>3, <1>6 DEF TypeOK
  <2>2. c \in Entry
    BY <1>3, <2>1 DEF Entry
  <2>3. /\ c.allocated /\ c.pendingDestroy /\ c.id = cnx[r].id /\ c.world = cnx[r].world
        /\ c.useCount = cnx[r].useCount
    BY <1>3, <2>1 DEF Entry
  <2>4. cnx' \in [Slots -> Entry] /\ cnx'[r] = c /\ \A s \in Slots \ {r} : cnx'[s] = cnx[s]
    BY <1>2, <1>3, <2>1, <2>2 DEF TypeOK, Entry
  <2>5. "closing" \in PCs /\ 0 \in Ids
    BY SizeFacts DEF PCs, Ids
  <2>6. /\ pc' \in [Threads -> PCs] /\ slot' \in [Threads -> Slots] /\ arg' \in [Threads -> Ids]
        /\ pc'[t] = "closing" /\ slot'[t] = r /\ OthersStay(t)
    BY <1>2, <1>3, <1>4, <1>6, <2>5, AtFacts
  <2>7. TypeOK'
    BY <1>3, <1>4, <1>6, <2>4, <2>6 DEF TypeOK, Entry
  <2>8. Elsewhere(t, r)
    BY <1>4, <1>6, <2>4, <2>6 DEF Elsewhere, AtEntry
  <2>9. (\A u \in Threads \ {t} : ThreadOK(u)') /\ (Opening(r)' => Opening(r))
    BY <1>2, <1>3, <2>3, <2>4, <2>6, <2>8, SharedStep DEF AtEntry
  <2>10. ThreadOK(t)'
    BY <2>3, <2>4, <2>6 DEF ThreadOK
  <2>11. EntryOK(r)'
    <3>1. Users(r)' = Users(r)
      BY <2>6 DEF Users, OthersStay, AtEntry
    <3> QED
      BY <1>2, <1>3, <1>4, <1>6, <2>3, <2>4, <3>1 DEF EntryOK
  <2>12. Alone'
    <3>1. \A u \in Threads : pc[u] = "closing" => slot[u] # r
      BY <1>2 DEF CnxInv, ThreadOK
    <3> QED
      BY <2>6, <3>1, AloneKept DEF CnxInv
  <2>13. Emptied'
    BY <1>4, <1>6, EmptiedKept DEF CnxInv
  <2>14. EntryStep(r)
    <3>1. Users(r)' = Users(r)
      BY <2>6 DEF Users, OthersStay, AtEntry
    <3>2. LifeOf(r) = "live" /\ LifeOf(r)' = "closing"
      BY <1>2, <1>3, <2>3, <2>4, <2>9, LifeFacts DEF LifeCases
    <3> QED
      BY <3>1, <3>2 DEF EntryStep
  <2> QED
    BY <1>2, <2>7, <2>8, <2>9, <2>10, <2>11, <2>12, <2>13, <2>14, InvFromParts DEF OneLife
<1> QED
  BY <1>1, <1>5, <1>6 DEF RPCUnregister

(* The destroyer that comes back is still the only one.                    *)
LEMMA UnregisterRetryStep ==
  ASSUME CnxInv, NEW t \in Threads, UnregisterRetry(t)
  PROVE  CnxInv' /\ OneLife(t)
<1>1. PICK r \in Slots : r = slot[t]
  BY DEF CnxInv, TypeOK
<1>2. pc[t] = "closing" /\ Drained(cnx[r]) /\ Destroy(t, r) /\ UNCHANGED <<maxIndex, alive, dying, issued>>
  BY <1>1 DEF UnregisterRetry
<1>3. cnx[r].allocated /\ cnx[r].pendingDestroy
  BY <1>1, <1>2 DEF CnxInv, ThreadOK
<1>4. Registered(r)
  BY <1>3 DEF CnxInv, ThreadOK, Opening, Registered
<1> QED
  BY <1>1, <1>2, <1>4, DestroyStep

(* The memset after the unlock hits an entry that is still free.           *)
LEMMA ResetStep ==
  ASSUME CnxInv, NEW t \in Threads, ResetAfterUnlock(t)
  PROVE  CnxInv' /\ OneLife(t)
<1>1. PICK r \in Slots : r = slot[t]
  BY DEF CnxInv, TypeOK
<1>2. TypeOK /\ cnx[r] \in Entry /\ EntryOK(r) /\ pc[t] = "reset" /\ ~cnx[r].allocated
  BY <1>1 DEF CnxInv, TypeOK, Entry, ResetAfterUnlock, ThreadOK
<1>3. PICK c : c = RPCResetCnx(cnx[r]) /\ cnx' = [cnx EXCEPT ![r] = c]
  BY <1>1 DEF ResetAfterUnlock
<1>4. c \in Entry /\ ~c.allocated /\ c.pendingDestroy
  <2>1. RPC_CNX_INVALID \in Ids /\ AllOnes \in Nat
    BY SizeFacts DEF AllOnes
  <2>2. ~c.allocated /\ c.pendingDestroy
    BY <1>2, <1>3 DEF RPCResetCnx, Entry
  <2> QED
    BY <1>2, <1>3, <2>1, <2>2 DEF RPCResetCnx, Entry
<1>5. cnx' \in [Slots -> Entry] /\ cnx'[r] = c /\ \A s \in Slots \ {r} : cnx'[s] = cnx[s]
  BY <1>2, <1>3, <1>4 DEF TypeOK, Entry
<1>6. UNCHANGED <<maxIndex, cnxList, alive, dying, issued>> /\ Return(t)
  BY DEF ResetAfterUnlock
<1>7. /\ pc' \in [Threads -> PCs] /\ slot' \in [Threads -> Slots] /\ arg' \in [Threads -> Ids]
      /\ pc'[t] \in {"idle", "cleanup"} /\ OthersStay(t) /\ ThreadOK(t)'
  BY <1>2, <1>6, ReturnFacts
<1>8. TypeOK'
  BY <1>2, <1>5, <1>6, <1>7 DEF TypeOK, Entry
<1>9. Elsewhere(t, r)
  BY <1>1, <1>5, <1>6, <1>7 DEF Elsewhere, AtEntry
<1>10. (\A u \in Threads \ {t} : ThreadOK(u)') /\ (Opening(r)' => Opening(r))
  <2>1. cnx'[r].allocated = cnx[r].allocated
    BY <1>2, <1>4, <1>5 DEF Entry
  <2> QED
    BY <1>2, <1>4, <1>5, <1>7, <1>9, <2>1, SharedStep
<1>11. EntryOK(r)'
  <2>1. Users(r)' = Users(r)
    BY <1>2, <1>7 DEF Users, OthersStay
  <2> QED
    BY <1>2, <1>4, <1>5, <1>6, <2>1 DEF EntryOK, Registered
<1>12. Alone'
  BY <1>7, AloneKept DEF CnxInv
<1>13. Emptied'
  BY <1>6, EmptiedKept DEF CnxInv
<1>14. EntryStep(r)
  <2>1. Users(r)' = Users(r)
    BY <1>2, <1>7 DEF Users, OthersStay
  <2>2. LifeOf(r) = "free" /\ LifeOf(r)' = "free"
    BY <1>2, <1>4, <1>5, LifeFacts DEF LifeCases
  <2> QED
    BY <2>1, <2>2 DEF EntryStep
<1> QED
  BY <1>7, <1>8, <1>9, <1>10, <1>11, <1>12, <1>13, <1>14, InvFromParts DEF OneLife

-------------------------------------------------------------------------------
(* A step that is about no entry.                                          *)
LEMMA QuietStep ==
  ASSUME CnxInv, NEW t \in Threads, OthersStay(t), UNCHANGED <<cnx, cnxList, issued>>,
         pc[t] \notin AtEntry, pc'[t] \notin AtEntry
  PROVE  (\A s \in Slots : EntryOK(s)') /\ (\A u \in Threads \ {t} : ThreadOK(u)') /\ Alone' /\ OneLife(t)
<1>1. \A r \in Slots : Elsewhere(t, r)
  BY DEF Elsewhere
<1>2. ASSUME NEW s \in Slots PROVE EntryOK(s)'
  <2>1. Users(s)' = Users(s)
    BY DEF Users, OthersStay, AtEntry
  <2>2. Opening(s)' <=> Opening(s)
    BY DEF Opening, OthersStay, AtEntry
  <2>3. EntryOK(s)
    BY DEF CnxInv
  <2> QED
    BY <2>1, <2>2, <2>3 DEF EntryOK, Registered
<1>3. ASSUME NEW u \in Threads, u # t PROVE ThreadOK(u)'
  <2>1. pc'[u] = pc[u] /\ slot'[u] = slot[u] /\ arg'[u] = arg[u] /\ dying'[u] = dying[u] /\ ThreadOK(u)
    BY <1>3 DEF OthersStay, CnxInv
  <2>2. Opening(slot[u])' <=> Opening(slot[u])
    BY <2>1 DEF Opening, OthersStay, AtEntry
  <2> QED
    BY <2>1, <2>2 DEF ThreadOK
<1>4. Alone'
  BY AloneKept DEF CnxInv, AtEntry
<1>5. OneLife(t)
  <2>1. 0 \in Slots
    BY SizeFacts DEF Slots
  <2>2. Users(0)' = Users(0)
    BY DEF Users, OthersStay, AtEntry
  <2>3. Opening(0)' <=> Opening(0)
    BY DEF Opening, OthersStay, AtEntry
  <2>4. LifeOf(0)' = LifeOf(0)
    BY <2>3 DEF LifeOf, Registered
  <2> QED
    BY <1>1, <2>1, <2>2, <2>4 DEF OneLife, EntryStep
<1> QED
  BY <1>2, <1>3, <1>4, <1>5

(* The steps that read the table only, or raise pendingCnx.maxIndex.       *)
LEMMA ReadersStep ==
  ASSUME CnxInv, NEW t \in Threads,
         \/ RegisterRaise(t) \/ RPC_Disconnect(t) \/ CleanupFirst(t) \/ CleanupReadId(t)
         \/ \E n \in Names : RPC_Connect(t, n)
         \/ pc[t] = "readId" /\ Return(t) /\ UNCHANGED <<table, dying>>
  PROVE  CnxInv' /\ OneLife(t)
<1>1. TypeOK /\ ThreadOK(t) /\ dying' = dying /\ UNCHANGED <<cnx, cnxList, issued, alive>>
  BY DEF CnxInv, RegisterRaise, RPC_Disconnect, CleanupFirst, CleanupReadId, RPC_Connect, table
<1>2. pc[t] \notin AtEntry /\ maxIndex' \in Slots
  BY SMTT(30), <1>1 DEF RegisterRaise, RPC_Disconnect, CleanupFirst, CleanupReadId, RPC_Connect, table, AtEntry, TypeOK
<1>3. /\ pc' \in [Threads -> PCs] /\ slot' \in [Threads -> Slots] /\ arg' \in [Threads -> Ids]
      /\ pc'[t] \notin AtEntry /\ OthersStay(t) /\ ThreadOK(t)'
  <2>1. CASE Return(t)
    BY <1>1, <2>1, ReturnFacts DEF AtEntry
  <2>2. CASE CleanupFirst(t)
    <3>1. pc[t] = "cleanup" /\ dying[t] \in Worlds
      BY <1>1, <2>2 DEF CleanupFirst, ThreadOK
    <3>2. PICK s : s = Head(cnxList[dying[t]]) /\ At(t, "first", s, 0)
      BY <2>2 DEF CleanupFirst
    <3>3. s \in Slots
      <4>1. cnxList[dying[t]] \in Seq(Slots) /\ cnxList[dying[t]] # <<>>
        BY <1>1, <2>2, <3>1 DEF TypeOK, CleanupFirst
      <4> QED
        BY <3>2, <4>1, HeadTailProperties
    <3>4. "first" \in PCs /\ 0 \in Ids
      BY SizeFacts DEF PCs, Ids
    <3>5. /\ pc' \in [Threads -> PCs] /\ slot' \in [Threads -> Slots] /\ arg' \in [Threads -> Ids]
          /\ pc'[t] = "first" /\ OthersStay(t)
      BY <1>1, <3>2, <3>3, <3>4, AtFacts
    <3> QED
      BY <1>1, <3>1, <3>5 DEF ThreadOK, AtEntry
  <2>3. CASE CleanupReadId(t)
    <3>1. pc[t] = "first" /\ dying[t] \in Worlds /\ slot[t] \in Slots
      BY <1>1, <2>3 DEF CleanupReadId, ThreadOK, TypeOK
    <3>2. PICK i \in Ids : At(t, "readId", 0, i)
      BY <1>1, <2>3, <3>1 DEF CleanupReadId, TypeOK
    <3>3. "readId" \in PCs /\ 0 \in Slots
      BY SizeFacts DEF PCs, Slots
    <3>4. /\ pc' \in [Threads -> PCs] /\ slot' \in [Threads -> Slots] /\ arg' \in [Threads -> Ids]
          /\ pc'[t] = "readId" /\ OthersStay(t)
      BY <1>1, <3>2, <3>3, AtFacts
    <3> QED
      BY <1>1, <3>1, <3>4 DEF ThreadOK, AtEntry
  <2>4. ASSUME NEW n \in Names, RPC_Connect(t, n)
        PROVE  /\ pc' \in [Threads -> PCs] /\ slot' \in [Threads -> Slots] /\ arg' \in [Threads -> Ids]
               /\ pc'[t] \notin AtEntry /\ OthersStay(t) /\ ThreadOK(t)'
    <3>1. RPCFindCnxByName(n) # {} /\ RPCFindCnxByName(n) \subseteq Slots /\ Slots \subseteq Nat
      BY <2>4, SizeFacts DEF RPC_Connect, RPCFindCnxByName, Slots
    <3>2. FirstOf(RPCFindCnxByName(n)) \in Slots
      BY <3>1, FirstExists
    <3>3. PICK i \in Ids : At(t, "connected", 0, i)
      BY <1>1, <2>4, <3>2 DEF RPC_Connect, TypeOK
    <3>4. "connected" \in PCs /\ 0 \in Slots
      BY SizeFacts DEF PCs, Slots
    <3>5. /\ pc' \in [Threads -> PCs] /\ slot' \in [Threads -> Slots] /\ arg' \in [Threads -> Ids]
          /\ pc'[t] = "connected" /\ OthersStay(t)
      BY <1>1, <3>3, <3>4, AtFacts
    <3> QED
      BY <3>5 DEF ThreadOK, AtEntry
  <2> QED
    BY <2>1, <2>2, <2>3, <2>4 DEF RegisterRaise, RPC_Disconnect
<1>4. TypeOK'
  BY <1>1, <1>2, <1>3 DEF TypeOK
<1>5. (\A s \in Slots : EntryOK(s)') /\ (\A u \in Threads \ {t} : ThreadOK(u)') /\ Alone' /\ OneLife(t)
  BY <1>1, <1>2, <1>3, QuietStep
<1>6. Emptied'
  BY <1>1, EmptiedKept DEF CnxInv
<1> QED
  BY <1>3, <1>4, <1>5, <1>6 DEF CnxInv

(* RPC_WorldCleanup begins while its world has just died, and ends when    *)
(* the list is empty.                                                      *)
LEMMA WorldCleanupStep ==
  ASSUME CnxInv, NEW t \in Threads, CleanupDone(t) \/ \E w \in Worlds : RPC_WorldCleanup(t, w)
  PROVE  CnxInv' /\ OneLife(t)
<1>1. TypeOK /\ ThreadOK(t) /\ Emptied /\ UNCHANGED <<cnx, maxIndex, cnxList, issued>>
  BY DEF CnxInv, CleanupDone, RPC_WorldCleanup, table
<1>2. PICK to \in {"idle", "cleanup"}, d \in Worlds \cup {NoWorld} :
        /\ At(t, to, 0, 0) /\ dying' = [dying EXCEPT ![t] = d]
        /\ to = "idle" => d = NoWorld
        /\ to = "cleanup" => d \in Worlds
  BY DEF CleanupDone, RPC_WorldCleanup
<1>3. to \in PCs /\ 0 \in Slots /\ 0 \in Ids /\ pc[t] \notin AtEntry /\ to \notin AtEntry
  BY SizeFacts DEF PCs, Slots, Ids, AtEntry, CleanupDone, RPC_WorldCleanup
<1>4. /\ pc' \in [Threads -> PCs] /\ slot' \in [Threads -> Slots] /\ arg' \in [Threads -> Ids]
      /\ pc'[t] = to /\ dying' \in [Threads -> Worlds \cup {NoWorld}] /\ dying'[t] = d
  BY <1>1, <1>2, <1>3, AtFacts DEF TypeOK
<1>5. OthersStay(t)
  BY <1>1, <1>2 DEF At, TypeOK, OthersStay
<1>6. TypeOK'
  <2>1. alive' \in [Worlds -> BOOLEAN]
    BY <1>1 DEF TypeOK, CleanupDone, RPC_WorldCleanup, table
  <2> QED
    BY <1>1, <1>4, <2>1 DEF TypeOK
<1>7. (\A s \in Slots : EntryOK(s)') /\ (\A u \in Threads \ {t} : ThreadOK(u)') /\ Alone' /\ OneLife(t)
  BY <1>1, <1>3, <1>4, <1>5, QuietStep
<1>8. ThreadOK(t)'
  BY <1>2, <1>3, <1>4 DEF ThreadOK, AtEntry
<1>9. Emptied'
  <2>1. CASE CleanupDone(t)
    <3>1. alive' = alive /\ cnxList[dying[t]] = <<>>
      BY <2>1 DEF CleanupDone, table
    <3>2. \A w \in Worlds : (\A u \in Threads : dying'[u] # w) =>
             w = dying[t] \/ \A u \in Threads : dying[u] # w
      BY <1>5 DEF OthersStay
    <3> QED
      BY <1>1, <3>1, <3>2 DEF Emptied
  <2>2. ASSUME NEW w \in Worlds, RPC_WorldCleanup(t, w) PROVE Emptied'
    <3>1. dying'[t] = w /\ dying[t] = NoWorld /\ \A v \in Worlds \ {w} : alive'[v] = alive[v]
      BY <1>1, <2>2 DEF RPC_WorldCleanup, ThreadOK, TypeOK
    <3>2. \A v \in Worlds : (\A u \in Threads : dying'[u] # v) => v # w /\ \A u \in Threads : dying[u] # v
      BY <1>5, <3>1, NamesAssumption DEF OthersStay
    <3> QED
      BY <1>1, <3>1, <3>2 DEF Emptied
  <2> QED
    BY <2>1, <2>2
<1> QED
  BY <1>6, <1>7, <1>8, <1>9 DEF CnxInv

(* At first the table is empty and nobody is inside.                       *)
LEMMA InitCnx == Init => CnxInv
<1> SUFFICES ASSUME Init PROVE CnxInv
  OBVIOUS
<1>1. 0 \in Slots /\ 0 \in Ids /\ 0 \in 0 .. GenSpace - 1 /\ <<>> \in Seq(Slots) /\ <<>> \in Seq(Ids)
  BY SizeFacts DEF Slots, Ids
<1>2. TypeOK
  BY <1>1 DEF Init, TypeOK, PCs
<1>3. \A s \in Slots : Users(s) = {}
  BY DEF Init, Users
<1>4. \A s \in Slots : EntryOK(s)
  <2> SUFFICES ASSUME NEW s \in Slots PROVE EntryOK(s)
    OBVIOUS
  <2>1. /\ ~cnx[s].allocated /\ cnx[s].world = NoWorld /\ issued[s] = <<>> /\ DOMAIN issued[s] = {}
        /\ cnx[s].id # RPC_CNX_INVALID
    BY SizeFacts DEF Init
  <2>2. IsFiniteSet(Users(s))
    BY <1>3, FS_EmptySet
  <2> QED
    BY <2>1, <2>2 DEF EntryOK, Registered
<1>5. (\A t \in Threads : ThreadOK(t)) /\ Alone /\ Emptied
  BY DEF Init, ThreadOK, Alone, Emptied
<1> QED
  BY <1>2, <1>4, <1>5 DEF CnxInv

(* Every step keeps the invariant, when no registration takes an entry     *)
(* whose last destroyer has yet to reset it, and is a step in the life of  *)
(* one entry.                                                              *)
LEMMA NextStep ==
  ASSUME OpenWindows = {}, CnxInv, Found, NEW t \in Threads, Step(t) \/ Start(t)
  PROVE  CnxInv' /\ OneLife(t)
<1>1. CASE Step(t)
  <2>1. ASSUME CleanupUnregister(t) PROVE CnxInv' /\ OneLife(t)
    <3>1. arg[t] \in Ids /\ dying[t] \in Worlds /\ pc[t] = "readId"
      BY <2>1 DEF CnxInv, TypeOK, ThreadOK, CleanupUnregister
    <3>2. CASE RPCUnregister(t, arg[t])
      BY <3>1, <3>2, UnregisterStep DEF AtEntry
    <3>3. CASE Return(t) /\ UNCHANGED <<table, dying>>
      BY <3>1, <3>3, ReadersStep
    <3> QED
      BY <2>1, <3>2, <3>3 DEF CleanupUnregister
  <2> QED
    BY <1>1, <2>1, RegisterInitStep, RegisterFailStep, ReadersStep, ReleaseStep, UnregisterRetryStep, ResetStep,
       WorldCleanupStep DEF Step
<1>2. CASE Start(t)
  <2>1. ASSUME NEW i \in GivenIds, RPC_Unregister(t, i) PROVE CnxInv' /\ OneLife(t)
    <3>1. i \in Ids
      BY GivenAreIds DEF CnxInv
    <3> QED
      BY <2>1, <3>1, UnregisterStep DEF RPC_Unregister, AtEntry
  <2>2. \A i \in IdsOf(t) : i \in Ids
    BY DEF IdsOf
  <2> QED
    BY <1>2, <2>1, <2>2, NewConnectionStep, ReadersStep, FindAndLockStep, CallAstrayStep, WorldCleanupStep DEF Start
<1> QED
  BY <1>1, <1>2

(* What happened to the generation of entry s and to its ids.              *)
GenSame(s) == cnx'[s].generation = cnx[s].generation /\ issued'[s] = issued[s]
GenNext(s) ==
  /\ issued'[s] = Append(issued[s], NewId(s).id)
  /\ cnx'[s].generation = NewId(s).generation

(* Only RPC_Register changes them: RPCResetCnx leaves the generation be.   *)
LEMMA GensChange ==
  ASSUME TypeOK, Next, NEW s \in Slots
  PROVE  GenSame(s) \/ GenNext(s)
<1>1. PICK t \in Threads : Step(t) \/ Start(t)
  BY DEF Next
<1>2. cnx \in [Slots -> Entry] /\ cnx[s] \in Entry /\ slot[t] \in Slots /\ issued \in [Slots -> Seq(Ids)]
  BY DEF TypeOK, Entry
<1>3. ASSUME \/ \E w \in Worlds : RegisterInit(t, w)
             \/ RegisterFail(t)
      PROVE  GenSame(s) \/ GenNext(s)
  <2>1. PICK r, i, g : r = slot[t] /\ i = NewId(r).id /\ g = NewId(r).generation
    OBVIOUS
  <2>2. PICK c : cnx' = [cnx EXCEPT ![r] = c] /\ c.generation = g
    <3>1. cnx[r] \in Entry
      BY <1>2, <2>1
    <3>2. ASSUME NEW w \in Worlds, RegisterInit(t, w)
          PROVE  \E c : cnx' = [cnx EXCEPT ![r] = c] /\ c.generation = g
      <4>1. PICK c : c = [cnx[r] EXCEPT !.id = i, !.generation = g, !.useCount = 1, !.world = w]
        OBVIOUS
      <4>2. c.generation = g
        BY <3>1, <4>1 DEF Entry
      <4> QED
        BY <1>2, <2>1, <3>2, <4>1, <4>2 DEF RegisterInit
    <3>3. ASSUME RegisterFail(t) PROVE \E c : cnx' = [cnx EXCEPT ![r] = c] /\ c.generation = g
      <4>1. PICK c : c = [cnx[r] EXCEPT !.id = i, !.generation = g, !.useCount = 1, !.pendingDestroy = TRUE,
                                        !.allocated = FALSE]
        OBVIOUS
      <4>2. c.generation = g
        BY <3>1, <4>1 DEF Entry
      <4> QED
        BY <1>2, <2>1, <3>3, <4>1, <4>2 DEF RegisterFail
    <3> QED
      BY <1>3, <3>2, <3>3
  <2>3. issued' = [issued EXCEPT ![r] = Append(@, i)]
    BY <1>3, <2>1 DEF RegisterInit, RegisterFail
  <2> QED
    BY <1>2, <2>1, <2>2, <2>3 DEF GenSame, GenNext
<1>4. ASSUME NEW i, RPCUnregister(t, i) PROVE GenSame(s)
  <2>1. PICK r : r = i % NumSlots
    OBVIOUS
  <2>2. issued' = issued
    BY <1>4 DEF RPCUnregister
  <2>3. CASE Destroy(t, r)
    BY <1>2, <2>2, <2>3 DEF Destroy, GenSame, Entry
  <2>4. CASE cnx' = [cnx EXCEPT ![r].pendingDestroy = TRUE]
    BY <1>2, <2>2, <2>4 DEF GenSame, Entry
  <2> QED
    BY <1>4, <2>1, <2>3, <2>4 DEF RPCUnregister
<1>5. CASE RPCReleaseAndUnlockCnx(t)
  BY <1>2, <1>5 DEF RPCReleaseAndUnlockCnx, GenSame, Entry
<1>6. CASE UnregisterRetry(t)
  BY <1>2, <1>6 DEF UnregisterRetry, Destroy, GenSame, Entry
<1>7. CASE ResetAfterUnlock(t)
  BY <1>2, <1>7 DEF ResetAfterUnlock, RPCResetCnx, GenSame, Entry
<1>8. ASSUME NEW i, RPCFindAndLockCnx(t, i) \/ CallAstray(t) PROVE GenSame(s)
  <2>1. CASE RPCFindAndLockCnx(t, i)
    BY <1>2, <2>1 DEF RPCFindAndLockCnx, GenSame, Entry
  <2>2. CASE CallAstray(t)
    BY <1>2, <2>2 DEF CallAstray, GenSame, Entry
  <2> QED
    BY <1>8, <2>1, <2>2
<1>9. ASSUME NEW n \in Names, RPCNewConnection(t, n) PROVE GenSame(s)
  BY <1>2, <1>9 DEF RPCNewConnection, RPCResetCnx, GenSame, Entry
<1>10. ASSUME \/ UNCHANGED table
              \/ UNCHANGED <<cnx, issued>>
       PROVE  GenSame(s)
  BY <1>10 DEF table, GenSame
<1>11. CASE Step(t)
  <2>1. CleanupUnregister(t) => GenSame(s)
    BY <1>4, <1>10 DEF CleanupUnregister, table
  <2>2. \/ RegisterRaise(t) \/ RPC_Disconnect(t) \/ CleanupFirst(t) \/ CleanupReadId(t) \/ CleanupDone(t)
        => GenSame(s)
    BY <1>10 DEF RegisterRaise, RPC_Disconnect, CleanupFirst, CleanupReadId, CleanupDone, table
  <2> QED
    BY <1>3, <1>5, <1>6, <1>7, <1>11, <2>1, <2>2 DEF Step
<1>12. CASE Start(t)
  <2>1. \A i : RPC_Unregister(t, i) => GenSame(s)
    BY <1>4 DEF RPC_Unregister
  <2>2. \A n : RPC_Connect(t, n) => GenSame(s)
    BY <1>10 DEF RPC_Connect, table
  <2>3. \A w : RPC_WorldCleanup(t, w) => GenSame(s)
    BY <1>10 DEF RPC_WorldCleanup
  <2> QED
    BY <1>8, <1>9, <1>12, <2>1, <2>2, <2>3 DEF Start
<1> QED
  BY <1>1, <1>11, <1>12

(* RPC_Connect finds an entry that is being opened or registered.          *)
LEMMA ConnectFinds ==
  ASSUME CnxInv, NEW t \in Threads, NEW n \in Names, RPC_Connect(t, n)
  PROVE  arg'[t] = RPC_CNX_INVALID \/ issued[arg'[t] % NumSlots] # <<>>
<1>1. RPCFindCnxByName(n) # {} /\ RPCFindCnxByName(n) \subseteq Slots /\ Slots \subseteq Nat
  BY SizeFacts DEF RPC_Connect, RPCFindCnxByName, Slots
<1>2. PICK s \in RPCFindCnxByName(n) : s = FirstOf(RPCFindCnxByName(n))
  BY <1>1, FirstExists
<1>3. s \in Slots /\ cnx[s].allocated /\ EntryOK(s)
  BY <1>1, <1>2 DEF RPCFindCnxByName, CnxInv
<1>4. arg'[t] = cnx[s].id
  BY <1>2 DEF RPC_Connect, At, CnxInv, TypeOK
<1>5. CASE Opening(s)
  BY <1>4, <1>5 DEF Opening, CnxInv, ThreadOK
<1>6. CASE ~Opening(s)
  BY <1>3, <1>4, <1>6 DEF Registered, EntryOK
<1> QED
  BY <1>5, <1>6

(* What RPC_Connect found stays the id of an entry that was registered.    *)
LEMMA FoundStep ==
  ASSUME OpenWindows = {}, CnxInv, Found, NEW t \in Threads, Step(t) \/ Start(t)
  PROVE  Found'
<1>1. TypeOK /\ OthersStay(t)
  BY NextStep DEF CnxInv, OneLife, Elsewhere
<1>2. \A s \in Slots : issued[s] # <<>> => issued'[s] # <<>>
  <2> SUFFICES ASSUME NEW s \in Slots, issued[s] # <<>> PROVE issued'[s] # <<>>
    OBVIOUS
  <2>1. GenSame(s) \/ GenNext(s)
    BY <1>1, GensChange DEF Next
  <2>2. PICK old \in Seq(Ids) : old = issued[s]
    BY <1>1 DEF TypeOK
  <2>3. \A i : Append(old, i) # <<>>
    BY <2>2
  <2> QED
    BY <2>1, <2>2, <2>3 DEF GenSame, GenNext
<1>3. ASSUME NEW u \in Threads, pc'[u] = "connected"
      PROVE  arg'[u] = RPC_CNX_INVALID \/ issued'[arg'[u] % NumSlots] # <<>>
  <2>1. CASE u # t
    <3>1. pc[u] = "connected" /\ arg'[u] = arg[u] /\ arg[u] \in Ids
      BY <1>1, <1>3, <2>1 DEF OthersStay, TypeOK
    <3>2. arg[u] % NumSlots \in Slots
      BY <3>1, SlotOfId
    <3> QED
      BY <1>2, <3>1, <3>2 DEF Found
  <2>2. CASE u = t
    <3>1. PICK n \in Names : RPC_Connect(t, n)
      BY <1>1, <1>3, <2>2 DEF Step, Start, RegisterInit, RegisterFail, RegisterRaise, RPC_Disconnect,
         RPCReleaseAndUnlockCnx, UnregisterRetry, ResetAfterUnlock, CleanupFirst, CleanupReadId, CleanupUnregister,
         CleanupDone, RPCNewConnection, RPCFindAndLockCnx, CallAstray, RPC_Unregister, RPC_WorldCleanup,
         RPCUnregister, Destroy, Return, At, TypeOK
    <3>2. issued' = issued
      BY <3>1 DEF RPC_Connect, table
    <3> QED
      BY <2>2, <3>1, <3>2, ConnectFinds
  <2> QED
    BY <2>1, <2>2
<1> QED
  BY <1>3 DEF Found

(* So the invariant holds throughout.                                      *)
LEMMA CnxInvariant ==
  ASSUME OpenWindows = {}
  PROVE  Spec => [](CnxInv /\ Found)
<1>1. CnxInv /\ Found /\ [Next]_vars => (CnxInv /\ Found)'
  <2> SUFFICES ASSUME CnxInv, Found, [Next]_vars PROVE CnxInv' /\ Found'
    OBVIOUS
  <2>1. CASE UNCHANGED vars
    <3>1. TypeOK' /\ Alone' /\ Emptied' /\ Found'
      BY <2>1 DEF vars, CnxInv, TypeOK, Alone, Emptied, Found
    <3>2. \A s \in Slots : EntryOK(s)'
      BY <2>1 DEF vars, CnxInv, EntryOK, Registered, Opening, Users
    <3>3. \A t \in Threads : ThreadOK(t)'
      BY <2>1 DEF vars, CnxInv, ThreadOK, Opening
    <3> QED
      BY <3>1, <3>2, <3>3 DEF CnxInv
  <2> QED
    BY <2>1, NextStep, FoundStep DEF Next
<1>2. Init => Found
  BY DEF Init, Found
<1> QED
  BY <1>1, <1>2, InitCnx, PTL DEF Spec

-------------------------------------------------------------------------------
(* The entry a call works on stays allocated, and stays the connection the *)
(* call entered, until it leaves, because the use count that               *)
(* RPCFindAndLockCnx and RPCReleaseAndUnlockCnx keep is exact and          *)
(* RPCUnregister waits for it.                                             *)
THEOREM CallsNotFreed ==
  ASSUME OpenWindows = {}
  PROVE  Spec => []NoUseAfterFree
<1>1. CnxInv => NoUseAfterFree
  BY DEF CnxInv, EntryOK, ThreadOK, NoUseAfterFree, UseCountExact, Registered
<1> QED
  BY <1>1, CnxInvariant, PTL

(* When RPC_WorldCleanup has returned, no connection of the world is left  *)
(* that is not being destroyed already: RPCAssociateWorld does not find a  *)
(* world that dies, and the loop ends when the list is empty.              *)
THEOREM CleanupsComplete ==
  ASSUME OpenWindows = {}
  PROVE  Spec => []CleanupComplete
<1>1. CnxInv => CleanupComplete
  <2> SUFFICES ASSUME CnxInv, NEW w \in Worlds, ~alive[w], \A t \in Threads : dying[t] # w,
                      NEW s \in Slots, cnx[s].allocated, cnx[s].world = w
               PROVE  FALSE
    BY DEF CleanupComplete
  <2>1. cnxList[w] = <<>> /\ On(cnxList[w], s)
    BY DEF CnxInv, Emptied, EntryOK
  <2> QED
    BY <2>1 DEF On
<1> QED
  BY <1>1, CnxInvariant, PTL

-------------------------------------------------------------------------------
(* What is on the list of a world is a connection of that world.           *)
Listed ==
  \A w \in Worlds :
    /\ \A s \in Slots : On(cnxList[w], s) => Registered(s) /\ cnx[s].world = w
    /\ NoRepeat(cnxList[w])

(* A step that neither lists an entry nor frees one that is registered.    *)
ListsAlone ==
  /\ cnxList' = cnxList
  /\ \A s \in Slots : Registered(s) => cnx'[s].allocated /\ cnx'[s].world = cnx[s].world

(* Entries that are registered and not freed stay registered.              *)
LEMMA StaysRegistered ==
  ASSUME NEW t \in Threads, OneLife(t), NEW s \in Slots, Registered(s), cnx'[s].allocated
  PROVE  Registered(s)'
<1>1. PICK r \in Slots : Elsewhere(t, r) /\ EntryStep(r)
  BY DEF OneLife
<1>2. CASE s # r
  BY <1>1, <1>2, AroundKept DEF Registered
<1>3. CASE s = r
  <2>1. LifeOf(s) \in {"live", "closing"} /\ LifeOf(s)' # "free"
    <3>1. LifeCases(s) /\ LifeCases(s)'
      BY LifeFacts
    <3> QED
      BY <3>1 DEF LifeCases, Registered
  <2>2. LifeOf(s)' # "opening"
    BY <1>1, <1>3, <2>1 DEF EntryStep
  <2> QED
    BY <2>2, LifeFacts DEF LifeCases, Registered
<1> QED
  BY <1>2, <1>3

(* Most steps leave the lists and what is on them alone.                   *)
LEMMA ListsAloneStep ==
  ASSUME CnxInv, Listed, NEW t \in Threads, OneLife(t), ListsAlone
  PROVE  Listed'
<1>1. \A s \in Slots : Registered(s) => Registered(s)' /\ cnx'[s].world = cnx[s].world
  BY StaysRegistered DEF ListsAlone
<1> QED
  BY <1>1 DEF Listed, ListsAlone

(* RPC_Register lists an entry that is on no list yet.                     *)
LEMMA ListedRegister ==
  ASSUME CnxInv, Listed, NEW t \in Threads, NEW w \in Worlds, RegisterInit(t, w), OneLife(t)
  PROVE  Listed'
<1>1. PICK r \in Slots : r = slot[t] /\ pc[t] = "opening"
  BY DEF RegisterInit, CnxInv, TypeOK
<1>2. ThreadOK(t) /\ Opening(r) /\ Deserted(t, r) /\ cnx \in [Slots -> Entry]
  BY <1>1, OpenerAlone DEF CnxInv, RegisterInit, Opening, TypeOK, Entry
<1>3. \A v \in Worlds : ~On(cnxList[v], r)
  BY <1>2 DEF Listed, Registered
<1>4. /\ \A s \in Slots \ {r} : cnx'[s] = cnx[s]
      /\ cnx'[r].allocated /\ cnx'[r].world = w
  BY <1>1, <1>2 DEF RegisterInit, ThreadOK, Entry
<1>5. Registered(r)'
  <2>1. \A u \in Threads : pc'[u] = "opening" => slot'[u] # r
    <3>1. pc'[t] # "opening" /\ OthersStay(t)
      BY DEF RegisterInit, Return, At, CnxInv, TypeOK, OneLife, Elsewhere
    <3> QED
      BY <1>2, <3>1 DEF Deserted, OthersStay, AtEntry
  <2> QED
    BY <1>4, <2>1 DEF Registered, Opening
<1>6. \A s \in Slots : Registered(s) => Registered(s)' /\ cnx'[s].world = cnx[s].world
  <2>1. \A s \in Slots : Registered(s) => s # r /\ cnx'[s].allocated
    BY <1>2, <1>4 DEF Registered
  <2> QED
    BY <1>4, <2>1, StaysRegistered
<1>7. cnxList' = [cnxList EXCEPT ![w] = Append(@, r)] /\ cnxList \in [Worlds -> Seq(Slots)]
  BY <1>1 DEF RegisterInit, CnxInv, TypeOK
<1>8. PICK l \in Seq(Slots) : l = cnxList[w]
  BY <1>7
<1>9. /\ \A x : On(Append(l, r), x) => x = r \/ On(l, x)
      /\ NoRepeat(Append(l, r))
  BY <1>3, <1>8, AppendFacts DEF Listed
<1>10. cnxList'[w] = Append(l, r) /\ \A v \in Worlds \ {w} : cnxList'[v] = cnxList[v]
  BY <1>7, <1>8
<1>11. ASSUME NEW v \in Worlds
       PROVE  (\A s \in Slots : On(cnxList'[v], s) => Registered(s)' /\ cnx'[s].world = v) /\ NoRepeat(cnxList'[v])
  <2>1. CASE v = w
    BY <1>4, <1>5, <1>6, <1>8, <1>9, <1>10, <2>1 DEF Listed
  <2>2. CASE v # w
    BY <1>6, <1>10, <2>2 DEF Listed
  <2> QED
    BY <2>1, <2>2
<1> QED
  BY <1>11 DEF Listed, NoRepeat, On

(* The destroyer takes the entry it frees off its list.                    *)
LEMMA ListedDestroy ==
  ASSUME CnxInv, Listed, NEW t \in Threads, NEW r \in Slots, Destroy(t, r), OneLife(t)
  PROVE  Listed'
<1>1. /\ cnxList' = [w \in Worlds |-> Without(cnxList[w], r)] /\ \A w \in Worlds : cnxList[w] \in Seq(Slots)
      /\ cnx \in [Slots -> Entry]
  BY DEF Destroy, CnxInv, TypeOK, Entry
<1>2. \A s \in Slots \ {r} : cnx'[s] = cnx[s]
  BY <1>1 DEF Destroy
<1>3. \A s \in Slots \ {r} : Registered(s) => Registered(s)' /\ cnx'[s].world = cnx[s].world
  BY <1>2, StaysRegistered DEF Registered
<1>4. \A w \in Worlds :
        /\ \A x : On(Without(cnxList[w], r), x) => On(cnxList[w], x)
        /\ NoRepeat(Without(cnxList[w], r)) /\ ~On(Without(cnxList[w], r), r)
  BY <1>1, WithoutFacts DEF Listed
<1>5. \A w \in Worlds :
        /\ \A s \in Slots : On(cnxList'[w], s) => Registered(s)' /\ cnx'[s].world = w
        /\ NoRepeat(cnxList'[w])
  BY <1>1, <1>3, <1>4 DEF Listed
<1> QED
  BY <1>5 DEF Listed, NoRepeat, On

(* RPCUnregister frees the entry and takes it off its list, or leaves both *)
(* alone.                                                                  *)
LEMMA ListedUnregister ==
  ASSUME CnxInv, Listed, NEW t \in Threads, NEW i \in Ids, RPCUnregister(t, i), OneLife(t)
  PROVE  Listed'
<1>1. PICK r \in Slots : r = i % NumSlots
  BY SlotOfId
<1>2. CASE Destroy(t, r)
  BY <1>2, ListedDestroy
<1>3. CASE cnx' = [cnx EXCEPT ![r].pendingDestroy = TRUE] /\ UNCHANGED cnxList
  <2>1. cnx \in [Slots -> Entry]
    BY DEF CnxInv, TypeOK, Entry
  <2>2. ListsAlone
    BY <1>3, <2>1 DEF ListsAlone, Entry, Registered
  <2> QED
    BY <2>2, ListsAloneStep
<1> QED
  BY <1>1, <1>2, <1>3 DEF RPCUnregister

(* Every step keeps the lists.                                             *)
LEMMA ListedStep ==
  ASSUME OpenWindows = {}, CnxInv, Found, Listed, NEW t \in Threads, Step(t) \/ Start(t)
  PROVE  Listed'
<1>1. OneLife(t) /\ TypeOK /\ cnx \in [Slots -> Entry] /\ slot[t] \in Slots /\ arg[t] \in Ids
  BY NextStep DEF CnxInv, TypeOK, Entry
<1>2. ASSUME UNCHANGED <<cnx, cnxList>> PROVE Listed'
  <2>1. ListsAlone
    BY <1>2 DEF ListsAlone, Registered
  <2> QED
    BY <1>1, <2>1, ListsAloneStep
<1>3. ASSUME NEW n \in Names, RPCNewConnection(t, n) PROVE Listed'
  <2>1. {s \in Slots : ~cnx[s].allocated} # {} /\ {s \in Slots : ~cnx[s].allocated} \subseteq Nat
    BY <1>3, SizeFacts DEF RPCNewConnection, Slots
  <2>2. PICK r \in {s \in Slots : ~cnx[s].allocated} : r = FirstOf({s \in Slots : ~cnx[s].allocated})
    BY <2>1, FirstExists
  <2>3. \A s \in Slots \ {r} : cnx'[s] = cnx[s]
    BY <1>1, <1>3, <2>2 DEF RPCNewConnection
  <2>4. ListsAlone
    BY <1>3, <2>2, <2>3 DEF ListsAlone, Registered, RPCNewConnection
  <2> QED
    BY <1>1, <2>4, ListsAloneStep
<1>4. CASE RegisterFail(t)
  <2>1. ~Registered(slot[t]) /\ \A s \in Slots \ {slot[t]} : cnx'[s] = cnx[s]
    BY <1>1, <1>4 DEF RegisterFail, Registered, Opening
  <2>2. ListsAlone
    BY <1>4, <2>1 DEF ListsAlone, Registered, RegisterFail
  <2> QED
    BY <1>1, <2>2, ListsAloneStep
<1>5. CASE ResetAfterUnlock(t)
  <2>1. ~Registered(slot[t]) /\ \A s \in Slots \ {slot[t]} : cnx'[s] = cnx[s]
    BY <1>1, <1>5 DEF ResetAfterUnlock, Registered, CnxInv, ThreadOK
  <2>2. ListsAlone
    BY <1>5, <2>1 DEF ListsAlone, Registered, ResetAfterUnlock
  <2> QED
    BY <1>1, <2>2, ListsAloneStep
<1>6. CASE RPCReleaseAndUnlockCnx(t)
  <2>1. PICK r \in Slots : r = slot[t] /\ cnx[r].useCount > 1
    BY <1>1, <1>6, NotLastUser DEF RPCReleaseAndUnlockCnx
  <2>2. cnx' = [cnx EXCEPT ![r].useCount = cnx[r].useCount - 1, ![r].allocated = TRUE] /\ cnxList' = cnxList
    BY <1>6, <2>1 DEF RPCReleaseAndUnlockCnx
  <2>3. ListsAlone
    BY <1>1, <2>2 DEF ListsAlone, Registered, Entry
  <2> QED
    BY <1>1, <2>3, ListsAloneStep
<1>7. ASSUME NEW i \in Ids, RPCFindAndLockCnx(t, i) PROVE Listed'
  <2>1. ListsAlone
    BY <1>1, <1>7 DEF ListsAlone, Registered, Entry, RPCFindAndLockCnx
  <2> QED
    BY <1>1, <2>1, ListsAloneStep
<1>8. CASE CallAstray(t)
  <2>1. ListsAlone
    BY <1>1, <1>8 DEF ListsAlone, Registered, Entry, CallAstray
  <2> QED
    BY <1>1, <2>1, ListsAloneStep
<1>9. CASE UnregisterRetry(t)
  BY <1>1, <1>9, ListedDestroy DEF UnregisterRetry
<1>10. CASE Step(t)
  <2>1. CASE CleanupUnregister(t)
    BY <1>1, <1>2, <2>1, ListedUnregister DEF CleanupUnregister, table
  <2>2. CASE RegisterRaise(t) \/ RPC_Disconnect(t) \/ CleanupFirst(t) \/ CleanupReadId(t) \/ CleanupDone(t)
    BY <1>2, <2>2 DEF RegisterRaise, RPC_Disconnect, CleanupFirst, CleanupReadId, CleanupDone, table
  <2> QED
    BY <1>1, <1>4, <1>5, <1>6, <1>9, <1>10, <2>1, <2>2, ListedRegister DEF Step
<1>11. CASE Start(t)
  <2>1. ASSUME NEW i \in GivenIds, RPC_Unregister(t, i) PROVE Listed'
    BY <1>1, <2>1, GivenAreIds, ListedUnregister DEF RPC_Unregister
  <2>2. ASSUME NEW n \in Names, RPC_Connect(t, n) PROVE Listed'
    BY <1>2, <2>2 DEF RPC_Connect, table
  <2>3. ASSUME NEW w \in Worlds, RPC_WorldCleanup(t, w) PROVE Listed'
    BY <1>2, <2>3 DEF RPC_WorldCleanup
  <2>4. \A i \in IdsOf(t) : i \in Ids
    BY DEF IdsOf
  <2> QED
    BY <1>3, <1>7, <1>8, <1>11, <2>1, <2>2, <2>3, <2>4 DEF Start
<1> QED
  BY <1>10, <1>11

(* The list RPC_WorldCleanup reads without a lock holds the connections of *)
(* its world, each once, and nothing else, whoever else registers and      *)
(* destroys connections: RPCUnregister takes an entry off it before the    *)
(* entry is free to be used for another world.                             *)
THEOREM ListsKept ==
  ASSUME OpenWindows = {}
  PROVE  Spec => []WorldListsExact
<1>1. Init => Listed
  BY DEF Init, Listed, On, NoRepeat
<1>2. CnxInv /\ Found /\ Listed /\ [Next]_vars => Listed'
  <2> SUFFICES ASSUME CnxInv, Found, Listed, [Next]_vars PROVE Listed'
    OBVIOUS
  <2>1. CASE UNCHANGED vars
    BY <2>1 DEF vars, Listed, Registered, Opening, On, NoRepeat
  <2> QED
    BY <2>1, ListedStep DEF Next
<1>3. CnxInv /\ Listed => WorldListsExact
  <2> SUFFICES ASSUME CnxInv, Listed, NEW w \in Worlds
               PROVE  /\ {cnxList[w][k] : k \in DOMAIN cnxList[w]}
                           = {s \in Slots : Registered(s) /\ cnx[s].world = w}
                      /\ NoRepeat(cnxList[w])
    BY DEF WorldListsExact, NoRepeat
  <2>1. \A k \in DOMAIN cnxList[w] : cnxList[w][k] \in Slots
    <3>1. cnxList[w] \in Seq(Slots)
      BY DEF CnxInv, TypeOK
    <3> QED
      BY <3>1, LenProperties, ElementOfSeq
  <2>2. \A s \in Slots : On(cnxList[w], s) <=> Registered(s) /\ cnx[s].world = w
    BY DEF Listed, CnxInv, EntryOK, Registered
  <2> QED
    BY <2>1, <2>2 DEF On, Listed
<1> QED
  BY <1>1, <1>2, <1>3, CnxInvariant, PTL DEF Spec

-------------------------------------------------------------------------------
(* The ids an entry has before one comes back: the last entry of the table *)
(* has one less.                                                           *)
Period(s) == IF s = NumSlots - 1 THEN GenSpace - 1 ELSE GenSpace

(* The id chosen d registrations ago lies d generations back, as long as   *)
(* the generations have not gone round, and ids that are less than a round *)
(* apart differ.                                                           *)
GensOK(s) ==
  /\ \A k \in DOMAIN issued[s] : \E g \in 0 .. Period(s) - 1 :
       /\ issued[s][k] = IdOf(g, s)
       /\ Len(issued[s]) + 1 - k <= Period(s) =>
            \/ Taken(s) - g = Len(issued[s]) + 1 - k
            \/ Taken(s) - g = Len(issued[s]) + 1 - k - Period(s)
  /\ \A j, k \in DOMAIN issued[s] : j < k /\ k - j < GenSpace - 1 => issued[s][j] # issued[s][k]

(* A registration takes the next generation, in a round of Period(s).      *)
LEMMA GenerationStep ==
  ASSUME NEW s \in Slots, cnx[s].generation \in 0 .. GenSpace - 1, cnx'[s].generation = NewId(s).generation
  PROVE  /\ Period(s) \in Nat \ {0} /\ GenSpace - 1 <= Period(s) /\ Period(s) <= GenSpace
         /\ Taken(s) \in 0 .. Period(s) - 1
         /\ Taken(s)' = IF Taken(s) = Period(s) - 1 THEN 0 ELSE Taken(s) + 1
<1>1. PICK g \in 0 .. GenSpace - 1 : g = cnx[s].generation
  OBVIOUS
<1>2. cnx'[s].generation = Left(s)
  BY NewIdFacts
<1>3. GenSpace \in Nat \ {0, 1} /\ NumSlots \in Nat
  BY SizeFacts
<1>4. CASE s = NumSlots - 1
  BY <1>1, <1>2, <1>3, <1>4 DEF Taken, Left, Period
<1>5. CASE s # NumSlots - 1
  BY <1>1, <1>2, <1>3, <1>5 DEF Taken, Left, Period
<1> QED
  BY <1>4, <1>5

(* The new id differs from those of the last round.                        *)
LEMMA GensStep ==
  ASSUME NEW s \in Slots, issued[s] \in Seq(Ids), cnx[s].generation \in 0 .. GenSpace - 1, GensOK(s),
         issued'[s] = Append(issued[s], NewId(s).id), cnx'[s].generation = NewId(s).generation
  PROVE  GensOK(s)'
<1>1. PICK p, c, d : p = Period(s) /\ c = Taken(s) /\ d = Taken(s)'
  OBVIOUS
<1>2. /\ p \in Nat \ {0} /\ GenSpace - 1 <= p /\ p <= GenSpace /\ c \in 0 .. p - 1
      /\ d = IF c = p - 1 THEN 0 ELSE c + 1
  BY <1>1, GenerationStep
<1>3. PICK old \in Seq(Ids) : old = issued[s]
  OBVIOUS
<1>4. PICK i : i = NewId(s).id /\ i = IdOf(c, s)
  BY <1>1, NewIdFacts
<1>5. PICK new : new = Append(old, i)
  OBVIOUS
<1>6. PICK n \in Nat : n = Len(old)
  BY LenProperties
<1>7. i \in Ids
  BY <1>4, NewIdFacts
<1>8. Len(new) = n + 1 /\ new[n + 1] = i /\ \A k \in 1 .. n : new[k] = old[k]
  <2>1. /\ Len(new) = Len(old) + 1 /\ new[Len(old) + 1] = i
        /\ \A k \in 1 .. Len(old) : new[k] = old[k]
    BY <1>3, <1>5, <1>7, AppendProperties
  <2> QED
    BY <1>6, <2>1
<1>9. DOMAIN old = 1 .. n /\ DOMAIN new = 1 .. n + 1
  <2>1. new \in Seq(Ids)
    BY <1>5, <1>7, AppendProperties
  <2> QED
    BY <1>6, <1>8, <2>1, LenProperties
<1>10. GenSpace \in Nat
  BY SizeFacts
<1>11. \A k \in 1 .. n : \E g \in 0 .. p - 1 :
         /\ old[k] = IdOf(g, s)
         /\ n + 1 - k <= p => c - g = n + 1 - k \/ c - g = n + 1 - k - p
  BY <1>1, <1>3, <1>6, <1>9 DEF GensOK
<1>12. ASSUME NEW k \in 1 .. n + 1
       PROVE  \E g \in 0 .. p - 1 :
                /\ new[k] = IdOf(g, s)
                /\ n + 2 - k <= p => d - g = n + 2 - k \/ d - g = n + 2 - k - p
  <2>1. CASE k \in 1 .. n
    <3>1. PICK g \in 0 .. p - 1 : /\ old[k] = IdOf(g, s)
                                  /\ n + 1 - k <= p => c - g = n + 1 - k \/ c - g = n + 1 - k - p
      BY <1>11, <2>1
    <3>2. n + 2 - k <= p => d - g = n + 2 - k \/ d - g = n + 2 - k - p
      BY <1>2, <2>1, <3>1
    <3> QED
      BY <1>8, <2>1, <3>1, <3>2
  <2>2. CASE k = n + 1
    <3>1. d - c = n + 2 - k \/ d - c = n + 2 - k - p
      BY <1>2, <2>2
    <3> QED
      BY <1>2, <1>4, <1>8, <2>2, <3>1
  <2> QED
    BY <2>1, <2>2
<1>13. ASSUME NEW j \in 1 .. n + 1, NEW k \in 1 .. n + 1, j < k, k - j < GenSpace - 1
       PROVE  new[j] # new[k]
  <2>1. CASE k \in 1 .. n
    <3>1. j \in 1 .. n
      BY <1>13, <2>1
    <3>2. old[j] # old[k]
      BY <1>3, <1>9, <1>13, <2>1, <3>1 DEF GensOK
    <3> QED
      BY <1>8, <2>1, <3>1, <3>2
  <2>2. CASE k = n + 1
    <3>1. j \in 1 .. n /\ n + 1 - j < p /\ n + 1 - j > 0
      BY <1>2, <1>10, <1>13, <2>2
    <3>2. PICK g \in 0 .. p - 1 : /\ old[j] = IdOf(g, s)
                                  /\ n + 1 - j <= p => c - g = n + 1 - j \/ c - g = n + 1 - j - p
      BY <1>11, <3>1
    <3>3. c # g
      BY <1>2, <3>1, <3>2
    <3>4. c \in 0 .. GenSpace - 1 /\ g \in 0 .. GenSpace - 1
      BY <1>2, <1>10
    <3>5. IdOf(g, s) # IdOf(c, s)
      BY <3>3, <3>4, IdFacts
    <3> QED
      BY <1>4, <1>8, <2>2, <3>1, <3>2, <3>5
  <2> QED
    BY <2>1, <2>2
<1>14. Period(s)' = p /\ Taken(s)' = d /\ issued'[s] = new
  BY <1>1, <1>3, <1>4, <1>5 DEF Period
<1>15. \A k \in DOMAIN new : \E g \in 0 .. p - 1 :
         /\ new[k] = IdOf(g, s)
         /\ Len(new) + 1 - k <= p => d - g = Len(new) + 1 - k \/ d - g = Len(new) + 1 - k - p
  <2> SUFFICES ASSUME NEW k \in 1 .. n + 1
               PROVE  \E g \in 0 .. p - 1 :
                        /\ new[k] = IdOf(g, s)
                        /\ Len(new) + 1 - k <= p => d - g = Len(new) + 1 - k \/ d - g = Len(new) + 1 - k - p
    BY <1>9
  <2>1. PICK g \in 0 .. p - 1 : /\ new[k] = IdOf(g, s)
                                /\ n + 2 - k <= p => d - g = n + 2 - k \/ d - g = n + 2 - k - p
    BY <1>12
  <2>2. Len(new) + 1 - k <= p => d - g = Len(new) + 1 - k \/ d - g = Len(new) + 1 - k - p
    BY <1>2, <1>8, <2>1
  <2> QED
    BY <2>1, <2>2
<1>16. \A j, k \in DOMAIN new : j < k /\ k - j < GenSpace - 1 => new[j] # new[k]
  BY <1>9, <1>13
<1> QED
  BY <1>14, <1>15, <1>16 DEF GensOK

(* A stale id does not reach the next connection in the same entry: an id  *)
(* RPC_Register has chosen comes back only after all others of the entry,  *)
(* and a registered connection never has RPC_CNX_INVALID, also where the   *)
(* 32-bit id wraps.                                                        *)
THEOREM StaleIdsRefused ==
  ASSUME OpenWindows = {}
  PROVE  Spec => []StaleIdsRejected
<1>1. Init => \A s \in Slots : GensOK(s)
  <2> SUFFICES ASSUME Init, NEW s \in Slots PROVE GensOK(s)
    OBVIOUS
  <2>1. issued[s] = <<>> /\ DOMAIN issued[s] = {}
    BY DEF Init
  <2> QED
    BY <2>1 DEF GensOK
<1>2. CnxInv /\ (\A s \in Slots : GensOK(s)) /\ [Next]_vars => (\A s \in Slots : GensOK(s))'
  <2> SUFFICES ASSUME CnxInv, [Next]_vars, NEW s \in Slots, GensOK(s) PROVE GensOK(s)'
    OBVIOUS
  <2>1. TypeOK /\ issued[s] \in Seq(Ids) /\ cnx[s].generation \in 0 .. GenSpace - 1
    BY DEF CnxInv, TypeOK
  <2>2. CASE GenSame(s)
    BY <2>2 DEF GenSame, GensOK, Taken, Period
  <2>3. CASE GenNext(s)
    BY <2>1, <2>3, GensStep DEF GenNext
  <2>4. CASE UNCHANGED vars
    BY <2>2, <2>4 DEF vars, GenSame
  <2> QED
    BY <2>1, <2>2, <2>3, <2>4, GensChange
<1>3. CnxInv /\ (\A s \in Slots : GensOK(s)) => StaleIdsRejected
  BY DEF CnxInv, EntryOK, GensOK, StaleIdsRejected, LiveIdsValid
<1> QED
  BY <1>1, <1>2, <1>3, CnxInvariant, PTL DEF Spec

-------------------------------------------------------------------------------
(* The first entry of the table implements ConnectionLife: calls enter     *)
(* only while its connection is live, RPCUnregister closes it once and     *)
(* frees it only after they have left, and only then is it opened again.   *)
THEOREM EntryImplementsLife ==
  ASSUME OpenWindows = {}
  PROVE  Spec => EntryHasALife
<1>1. 0 \in Slots
  BY SizeFacts DEF Slots
<1>2. Init => Life!Init
  <2> SUFFICES ASSUME Init PROVE LifeOf(0) = "free" /\ Users(0) = {}
    BY DEF Life!Init
  <2>1. ~cnx[0].allocated
    BY <1>1 DEF Init
  <2> QED
    BY <1>1, <2>1, LifeFacts DEF LifeCases, Init, Users
<1>3. CnxInv /\ Found /\ [Next]_vars => [Life!Next]_(Life!vars)
  <2> SUFFICES ASSUME CnxInv, Found, [Next]_vars
               PROVE  Life!Next \/ (LifeOf(0)' = LifeOf(0) /\ Users(0)' = Users(0))
    BY DEF Life!vars
  <2>1. CASE UNCHANGED vars
    <3>1. Opening(0)' <=> Opening(0)
      BY <2>1 DEF vars, Opening
    <3>2. Users(0)' = Users(0)
      BY <2>1 DEF vars, Users
    <3>3. LifeOf(0)' = LifeOf(0)
      BY <2>1, <3>1 DEF vars, LifeOf, Registered
    <3> QED
      BY <3>2, <3>3
  <2>2. ASSUME NEW t \in Threads, Step(t) \/ Start(t)
        PROVE  Life!Next \/ (LifeOf(0)' = LifeOf(0) /\ Users(0)' = Users(0))
    <3>1. PICK r \in Slots : Elsewhere(t, r) /\ EntryStep(r)
      BY <2>2, NextStep DEF OneLife
    <3>2. CASE r = 0
      <4>1. EntryStep(0)
        BY <3>1, <3>2
      <4> QED
        BY <4>1 DEF EntryStep, Life!Next, Life!Open, Life!Opened, Life!Enter, Life!Leave, Life!Close, Life!Free
    <3>3. CASE r # 0
      <4>1. (Opening(0)' <=> Opening(0)) /\ Users(0)' = Users(0)
        BY <1>1, <3>1, <3>3, AroundKept
      <4>2. cnx'[0] = cnx[0]
        BY <1>1, <3>1, <3>3 DEF Elsewhere
      <4>3. LifeOf(0)' = LifeOf(0)
        BY <4>1, <4>2 DEF LifeOf, Registered
      <4> QED
        BY <4>1, <4>3
    <3> QED
      BY <3>2, <3>3
  <2> QED
    BY <2>1, <2>2 DEF Next
<1> QED
  BY <1>2, <1>3, CnxInvariant, PTL DEF Spec, EntryHasALife, Life!Spec
===============================================================================
