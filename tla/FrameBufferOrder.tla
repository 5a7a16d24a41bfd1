-------------------------- MODULE FrameBufferOrder --------------------------
(***************************************************************************)
(* Order and recycling of the shared frames for every number of nodes,     *)
(* modules and frames, on top of the invariant of FrameBufferProofs.       *)
(***************************************************************************)
EXTENDS FrameBufferProofs

InOrder(s, mask) ==
    \A m \in Module : \A i, j \in DOMAIN s :
      i < j /\ m \in mask[s[j]] => m \in mask[s[i]]
-----------------------------------------------------------------------------
(* The order survives the loss of an entry and a fresh entry at the end.   *)
LEMMA OrderSame ==
  ASSUME NEW s \in Seq(Node), NEW f, NEW g, InOrder(s, f),
         \A n \in ToSet(s) : g[n] = f[n]
  PROVE  InOrder(s, g)
BY DEF InOrder, ToSet

LEMMA OrderRemove ==
  ASSUME NEW s \in Seq(Node), IsInjective(s), NEW i \in DOMAIN s,
         NEW f, NEW g, InOrder(s, f),
         \A n \in ToSet(s) \ {s[i]} : g[n] = f[n]
  PROVE  InOrder(RemoveAt(s, i), g)
<1> DEFINE r == RemoveAt(s, i)
           at(x) == IF x < i THEN x ELSE x + 1
<1>1. /\ Len(s) \in Nat /\ i \in 1..Len(s) /\ DOMAIN s = 1..Len(s)
      /\ DOMAIN r = 1..(Len(s) - 1)
      /\ \A k \in 1..(Len(s) - 1) : r[k] = s[at(k)]
  BY RemoveAtFacts
<1> HIDE DEF r
<1>2. \A k \in DOMAIN r : at(k) \in DOMAIN s /\ at(k) # i
  BY <1>1
<1>3. \A k \in DOMAIN r : g[r[k]] = f[s[at(k)]]
  <2> SUFFICES ASSUME NEW k \in DOMAIN r PROVE g[r[k]] = f[s[at(k)]]
    OBVIOUS
  <2>1. at(k) \in DOMAIN s /\ at(k) # i /\ r[k] = s[at(k)]
    BY <1>1, <1>2
  <2>2. s[at(k)] \in ToSet(s) \ {s[i]}
    BY <2>1 DEF ToSet, IsInjective
  <2>3. QED
    BY <2>1, <2>2
<1>4. ASSUME NEW m \in Module, NEW k \in DOMAIN r, NEW l \in DOMAIN r,
             k < l, m \in g[r[l]]
      PROVE  m \in g[r[k]]
  <2>1. at(k) < at(l)
    BY <1>1, <1>4
  <2>2. m \in f[s[at(l)]]
    BY <1>3, <1>4
  <2>3. m \in f[s[at(k)]]
    BY <1>2, <2>1, <2>2 DEF InOrder
  <2>4. QED
    BY <1>3, <2>3
<1>5. QED
  BY <1>4 DEF InOrder, r

LEMMA OrderAppend ==
  ASSUME NEW s \in Seq(Node), NEW n \in Node, n \notin ToSet(s),
         NEW f, NEW g, InOrder(s, f), g[n] = {},
         \A x \in ToSet(s) : g[x] = f[x]
  PROVE  InOrder(Append(s, n), g)
<1> DEFINE r == Append(s, n)
<1>1. /\ Len(s) \in Nat /\ DOMAIN s = 1..Len(s) /\ DOMAIN r = 1..(Len(s) + 1)
      /\ \A k \in 1..Len(s) : r[k] = s[k]
      /\ r[Len(s) + 1] = n
  OBVIOUS
<1> HIDE DEF r
<1>2. \A k \in DOMAIN s : g[r[k]] = f[s[k]]
  BY <1>1 DEF ToSet
<1>3. ASSUME NEW m \in Module, NEW k \in DOMAIN r, NEW l \in DOMAIN r,
             k < l, m \in g[r[l]]
      PROVE  m \in g[r[k]]
  <2>1. l \in DOMAIN s
    BY <1>1, <1>3
  <2>2. k \in DOMAIN s
    BY <1>1, <1>3, <2>1
  <2>3. QED
    BY <1>2, <1>3, <2>1, <2>2 DEF InOrder
<1>4. QED
  BY <1>3 DEF InOrder, r

(* Popping marks the first entry that the module has not read.             *)
LEMMA OrderPop ==
  ASSUME NEW s \in Seq(Node), IsInjective(s), NEW m \in Module, NEW i \in DOMAIN s,
         NEW f \in [Node -> SUBSET Module], InOrder(s, f),
         \A j \in 1..(i - 1) : m \in f[s[j]]
  PROVE  InOrder(s, [f EXCEPT ![s[i]] = @ \cup {m}])
<1> DEFINE g == [f EXCEPT ![s[i]] = @ \cup {m}]
<1>1. /\ Len(s) \in Nat /\ DOMAIN s = 1..Len(s) /\ i \in 1..Len(s)
      /\ \A j \in DOMAIN s : s[j] \in Node
  OBVIOUS
<1>2. \A j \in DOMAIN s : g[s[j]] = IF j = i THEN f[s[j]] \cup {m} ELSE f[s[j]]
  BY <1>1 DEF IsInjective
<1> HIDE DEF g
<1>3. ASSUME NEW k \in Module, NEW a \in DOMAIN s, NEW b \in DOMAIN s,
             a < b, k \in g[s[b]]
      PROVE  k \in g[s[a]]
  <2>1. CASE k \in f[s[b]]
    BY <1>2, <1>3, <2>1 DEF InOrder
  <2>2. CASE k \notin f[s[b]]
    <3>1. b = i /\ k = m
      BY <1>2, <1>3, <2>2
    <3>2. a \in 1..(i - 1)
      BY <1>1, <1>3, <3>1
    <3>3. QED
      BY <1>2, <3>1, <3>2
  <2>3. QED
    BY <2>1, <2>2
<1>4. QED
  BY <1>3 DEF InOrder, g
-----------------------------------------------------------------------------

LEMMA OrderIsOrder == ReadInOrder <=> InOrder(ready, read_mask)
BY DEF ReadInOrder, InOrder

LEMMA QuietOrder ==
  ASSUME TypeOK, OnePlace, ReadInOrder, Quiet PROVE ReadInOrder'
<1>0. /\ ready \in Seq(Node) /\ R \in SUBSET Node /\ F \in SUBSET Node
      /\ read_mask \in [Node -> SUBSET Module]
      /\ IsInjective(ready) /\ F \cap R = {} /\ R \cap held = {}
  BY SetsOfNodes DEF TypeOK, NodesOK, OnePlace, OnList, F, R
<1>1. InOrder(ready, read_mask)
  BY OrderIsOrder
<1>2. ASSUME InOrder(ready', read_mask') PROVE ReadInOrder'
  BY <1>2 DEF ReadInOrder, InOrder
<1>3. ASSUME UNCHANGED ready, \A n \in R : read_mask'[n] = read_mask[n]
      PROVE  ReadInOrder'
  <2>1. InOrder(ready, read_mask')
    BY <1>0, <1>1, <1>3, OrderSame DEF R
  <2>2. QED
    BY <1>2, <1>3, <2>1
<1>4. CASE FbInit
  <2>1. \A n \in R : read_mask'[n] = read_mask[n]
    BY <1>0, <1>4, FbInitEffect DEF Zeroed
  <2>2. QED
    BY <1>3, <1>4, <2>1 DEF FbInit
<1>5. CASE FbDeinit
  BY <1>5 DEF FbDeinit, ReadInOrder
<1>6. CASE FbClear \/ MallocNull \/ MallocFailed
  BY <1>3, <1>6 DEF FbClear, MallocNull, MallocFailed, lists, nodes
<1>7. CASE MallocFree
  <2>1. PICK n \in F : Take(n)
    BY <1>7, MallocFreeEffect
  <2>2. \A x \in R : read_mask'[x] = read_mask[x]
    BY <1>0, <2>1 DEF Take
  <2>3. QED
    BY <1>3, <1>7, <2>2 DEF MallocFree
<1>8. CASE MallocEvict
  <2>1. PICK i \in DOMAIN ready : ready' = RemoveAt(ready, i) /\ Take(ready[i])
    BY <1>8 DEF MallocEvict
  <2>2. \A x \in ToSet(ready) \ {ready[i]} : read_mask'[x] = read_mask[x]
    BY <1>0, <2>1 DEF Take, R
  <2>3. InOrder(RemoveAt(ready, i), read_mask')
    BY <1>0, <1>1, <2>2, OrderRemove
  <2>4. QED
    BY <1>2, <2>1, <2>3
<1>9. ASSUME NEW n \in Node, FbPush(n) PROVE ReadInOrder'
  <2>1. /\ ready' = Append(ready, n) /\ n \notin ToSet(ready)
        /\ read_mask' = [read_mask EXCEPT ![n] = {}]
    BY <1>0, <1>9 DEF FbPush, R
  <2>2. read_mask'[n] = {} /\ \A x \in ToSet(ready) : read_mask'[x] = read_mask[x]
    BY <1>0, <2>1
  <2>3. InOrder(Append(ready, n), read_mask')
    BY <1>0, <1>1, <2>1, <2>2, OrderAppend
  <2>4. QED
    BY <1>2, <2>1, <2>3
<1>10. ASSUME NEW n \in Node, DirectFree(n) PROVE ReadInOrder'
  <2>1. n \notin R /\ read_mask' = [read_mask EXCEPT ![n] = {}]
    BY <1>0, <1>10 DEF DirectFree
  <2>2. \A x \in R : read_mask'[x] = read_mask[x]
    BY <1>0, <2>1
  <2>3. QED
    BY <1>3, <1>10, <2>2 DEF DirectFree
<1>11. QED
  BY <1>4, <1>5, <1>6, <1>7, <1>8, <1>9, <1>10 DEF Quiet, Lists, Malloc

LEMMA FreeOrder ==
  ASSUME TypeOK, OnePlace, HeldMarked, ReadInOrder, NEW m \in Module,
         FbBad(m) \/ FbFree(m)
  PROVE  ReadInOrder'
<1> DEFINE n == frame[m]
<1>0. /\ ready \in Seq(Node) /\ R \in SUBSET Node
      /\ read_mask \in [Node -> SUBSET Module] /\ IsInjective(ready)
  BY SetsOfNodes DEF TypeOK, NodesOK, OnePlace
<1>1. FreeFrame(n, m) /\ n \in R
  BY DEF FbBad, FbFree, Step, Holding, HeldMarked, R
<1> HIDE DEF n
<1>2. InOrder(ready, read_mask)
  BY OrderIsOrder
<1>3. CASE UNCHANGED <<ready, read_mask>>
  BY <1>3 DEF ReadInOrder
<1>4. CASE Recycle(n)
  <2>1. PICK i \in DOMAIN ready :
           FirstIn(ready, {n}, i) /\ ready' = RemoveAt(ready, i)
    BY <1>1, <1>4 DEF Recycle, Unlink, R
  <2>2. ready[i] = n
    BY <2>1 DEF FirstIn
  <2>3. \A x \in ToSet(ready) \ {ready[i]} : read_mask'[x] = read_mask[x]
    BY <1>0, <1>1, <1>4, <2>2 DEF Recycle, R
  <2>4. InOrder(RemoveAt(ready, i), read_mask')
    BY <1>0, <1>2, <2>3, OrderRemove
  <2>5. QED
    BY <2>1, <2>4 DEF ReadInOrder, InOrder
<1>5. QED
  BY <1>1, <1>3, <1>4 DEF FreeFrame

LEMMA OrderStep ==
  ASSUME TypeOK, OnePlace, HeldMarked, ReadInOrder, [Next]_vars
  PROVE  ReadInOrder'
<1>1. ASSUME UNCHANGED <<ready, read_mask>> PROVE ReadInOrder'
  BY <1>1 DEF ReadInOrder
<1>2. ASSUME NEW m \in Module, FbPop(m) PROVE ReadInOrder'
  <2>0. /\ ready \in Seq(Node) /\ IsInjective(ready)
        /\ read_mask \in [Node -> SUBSET Module] /\ InOrder(ready, read_mask)
    BY SetsOfNodes, OrderIsOrder DEF TypeOK, NodesOK, OnePlace
  <2>1. PICK i \in DOMAIN ready :
           /\ FirstIn(ready, Unread(m), i)
           /\ read_mask' = [read_mask EXCEPT ![ready[i]] = @ \cup {m}]
    BY <1>2 DEF FbPop
  <2>2. \A j \in 1..(i - 1) : m \in read_mask[ready[j]]
    <3>1. \A j \in 1..(i - 1) : ready[j] \notin Unread(m) /\ j \in DOMAIN ready
      BY <2>0, <2>1 DEF FirstIn
    <3>2. \A j \in DOMAIN ready : ready[j] \in Node
      BY <2>0
    <3>3. QED
      BY <3>1, <3>2 DEF Unread
  <2>3. InOrder(ready, read_mask')
    BY <2>0, <2>1, <2>2, OrderPop
  <2>4. UNCHANGED ready
    BY <1>2 DEF FbPop, lists
  <2>5. QED
    BY <2>3, <2>4 DEF ReadInOrder, InOrder
<1>3. ASSUME NEW m \in Module,
             FbPopNull(m) \/ Unlocked(m) \/ FbRegister(m) \/ FbDeregister(m)
      PROVE  UNCHANGED <<ready, read_mask>>
  BY <1>3, UnlockedStep DEF FbPopNull, readOnly, FbRegister, FbDeregister,
     lists, nodes
<1>4. CASE Push \/ UNCHANGED vars
  BY <1>1, <1>4 DEF Push, PushNotify, PushLoad, PushStore, vars, lists, nodes
<1>5. QED
  BY <1>1, <1>2, <1>3, <1>4, QuietOrder, FreeOrder DEF Next, Quiet, Locked

(* Every registered module takes the frames in the order in which the      *)
(* producer pushed them, whatever is evicted, recycled or refused          *)
(* meanwhile: what it has not read yet comes after everything it has.      *)
THEOREM FramesInOrder == ASSUME OneOfThem PROVE Spec => []ReadInOrder
<1>1. Init => ReadInOrder
  BY DEF Init, ReadInOrder
<1>2. IInv /\ ReadInOrder /\ [Next]_vars => ReadInOrder'
  BY OrderStep DEF IInv
<1>3. QED
  BY <1>1, <1>2, Invariance, PTL DEF Spec
-----------------------------------------------------------------------------
(* A list that is used only while it is open leaves no bit behind.  What   *)
(* is closed is empty; a read bit without its free bit belongs to a module *)
(* at work on the frame; a free frame carries no bit.                      *)
Closed == ~list_enable => F = {} /\ R = {} /\ held = {}
Readers ==
    \A n \in R : \A m \in read_mask[n] \ free_mask[n] : Holding(m) /\ frame[m] = n
FreeClean == \A n \in F : read_mask[n] = {} /\ free_mask[n] = {}
Settled == Closed /\ Readers /\ FreeClean

LEMMA QuietSettled ==
  ASSUME ~UseDisabled, TypeOK, OnePlace, HeldMarked, Settled, Quiet
  PROVE  Settled'
<1> DEFINE Same(n) == read_mask'[n] = read_mask[n] /\ free_mask'[n] = free_mask[n]
           Bare(n) == read_mask'[n] = {} /\ free_mask'[n] = {}
           Kept == /\ \A n \in R' : (n \in R /\ Same(n)) \/ Bare(n)
                   /\ \A n \in F' : (n \in F /\ Same(n)) \/ Bare(n)
<1>0. /\ UNCHANGED <<rpc, frame>> /\ R \in SUBSET Node /\ F \in SUBSET Node
      /\ read_mask \in [Node -> SUBSET Module]
      /\ free_mask \in [Node -> SUBSET Module]
      /\ F \cap R = {} /\ F \cap held = {} /\ R \cap held = {}
  BY QuietStep, SetsOfNodes DEF TypeOK, NodesOK, reads, OnePlace, OnList, F, R
<1>1. ASSUME Closed', Kept PROVE Settled'
  <2>1. Readers'
    BY <1>0, <1>1 DEF Settled, Readers, Holding
  <2>2. FreeClean'
    BY <1>1 DEF Settled, FreeClean
  <2>3. QED
    BY <1>1, <2>1, <2>2 DEF Settled
<1>2. CASE FbInit
  <2>1. list_enable' = TRUE
    BY <1>2 DEF FbInit
  <2>2. PICK s \in Seq(Node) : /\ ToSet(s) \cap (F \cup R \cup held) = {}
                               /\ F' = F \cup ToSet(s) /\ Zeroed(s)
    BY <1>2, FbInitEffect
  <2>3. R' = R /\ ToSet(s) \subseteq Node
    BY <1>2, FbInitEffect DEF ToSet
  <2>4. (\A n \in R \cup F : Same(n)) /\ \A n \in ToSet(s) : Bare(n)
    BY <1>0, <2>2, <2>3 DEF Zeroed
  <2>5. QED
    BY <1>1, <2>1, <2>2, <2>3, <2>4 DEF Closed
<1>3. CASE FbDeinit
  <2>1. F' = {} /\ R' = {} /\ held' = {}
    BY <1>3 DEF FbDeinit, F, R, ToSet, prod
  <2>2. QED
    BY <1>1, <2>1 DEF Closed
<1>4. CASE FbClear \/ MallocFailed
  <2>1. UNCHANGED <<F, R, held, list_enable>> /\ \A n \in Node : Same(n)
    BY <1>4 DEF FbClear, MallocFailed, lists, nodes, prod, F, R
  <2>2. QED
    BY <1>0, <1>1, <2>1 DEF Closed, Settled
<1>5. CASE MallocFree
  <2>1. PICK n \in F : F' = F \ {n} /\ Take(n)
    BY <1>5, MallocFreeEffect
  <2>2. R' = R /\ UNCHANGED list_enable
    BY <1>5, MallocFreeEffect DEF MallocFree
  <2>3. \A x \in R' \cup F' : Same(x)
    BY <1>0, <2>1, <2>2 DEF Take
  <2>4. Closed'
    BY <2>1, <2>2 DEF Closed, Settled
  <2>5. QED
    BY <1>1, <2>1, <2>2, <2>3, <2>4
<1>6. CASE MallocEvict
  <2>1. PICK n \in R : R' = R \ {n} /\ Take(n)
    BY <1>6, MallocEvictEffect
  <2>2. F' = F /\ UNCHANGED list_enable
    BY <1>6, MallocEvictEffect DEF MallocEvict
  <2>3. \A x \in R' \cup F' : Same(x)
    BY <1>0, <2>1, <2>2 DEF Take
  <2>4. Closed'
    BY <2>1, <2>2 DEF Closed, Settled
  <2>5. QED
    BY <1>1, <2>1, <2>2, <2>3, <2>4
<1>7. CASE MallocNull
  <2>1. /\ F' = F /\ R' = R /\ UNCHANGED <<list_enable, held>>
        /\ \A n \in Node : Same(n)
    BY <1>7, MallocNullEffect DEF MallocNull
  <2>2. QED
    BY <1>0, <1>1, <2>1 DEF Closed, Settled
<1>8. ASSUME NEW n \in Node, FbPush(n) PROVE Settled'
  <2>1. /\ n \in held /\ UNCHANGED list_enable
        /\ F' = F /\ R' = R \cup {n}
    BY <1>8, FbPushEffect DEF FbPush
  <2>2. (\A x \in R \cup F : Same(x)) /\ Bare(n)
    BY <1>0, <1>8, <2>1 DEF FbPush
  <2>3. Closed'
    BY <2>1 DEF Closed, Settled
  <2>4. QED
    BY <1>1, <2>1, <2>2, <2>3
<1>9. ASSUME NEW n \in Node, DirectFree(n) PROVE Settled'
  <2>1. /\ n \in held /\ UNCHANGED list_enable
        /\ F' = F \cup {n} /\ R' = R
    BY <1>9, DirectFreeEffect DEF DirectFree
  <2>2. (\A x \in R \cup F : Same(x)) /\ Bare(n)
    BY <1>0, <1>9, <2>1 DEF DirectFree
  <2>3. Closed'
    BY <2>1 DEF Closed, Settled
  <2>4. QED
    BY <1>1, <2>1, <2>2, <2>3
<1>10. QED
  BY <1>2, <1>3, <1>4, <1>5, <1>6, <1>7, <1>8, <1>9 DEF Quiet, Lists, Malloc

LEMMA FreeSettled ==
  ASSUME TypeOK, OnePlace, BitsNested, HeldMarked, Settled, NEW m \in Module,
         FbBad(m) \/ FbFree(m)
  PROVE  Settled'
<1> DEFINE n == frame[m]
<1>0. /\ R \in SUBSET Node /\ F \in SUBSET Node /\ F \cap R = {}
      /\ rpc \in [Module -> {"idle", "wait", "woken", "pop", "popped",
                             "have", "empty", "again"}]
      /\ frame \in [Module -> Node \cup {NoFrame}]
      /\ read_mask \in [Node -> SUBSET Module]
      /\ free_mask \in [Node -> SUBSET Module]
  BY SetsOfNodes DEF TypeOK, NodesOK, ReadsOK, OnePlace, OnList, F, R
<1>1. /\ FreeFrame(n, m) /\ n \in R /\ UNCHANGED <<list_enable, held>>
      /\ Holding(m) /\ m \in read_mask[n] \ free_mask[n]
  BY DEF FbBad, FbFree, Step, Holding, HeldMarked, R, prod
<1>2. \A k \in Module \ {m} : Holding(k)' = Holding(k) /\ frame'[k] = frame[k]
  BY <1>0 DEF FbBad, FbFree, Step, Holding
<1>3. list_enable
  BY <1>1 DEF Settled, Closed
<1>4. Closed'
  BY <1>1, <1>3 DEF Closed
<1>5. /\ \A x \in R : \A k \in read_mask[x] \ free_mask[x] : Holding(k) /\ frame[k] = x
      /\ \A x \in F : read_mask[x] = {} /\ free_mask[x] = {}
  BY DEF Settled, Readers, FreeClean
<1>6. Shared(n, m) \/ Returned(n, m)
  BY FreeMarks
<1>7. CASE Returned(n, m)
  <2>1. /\ F' = F \cup {n} /\ R' = R \ {n}
        /\ read_mask'[n] = {} /\ free_mask'[n] = {}
        /\ \A x \in R' \cup F : read_mask'[x] = read_mask[x] /\ free_mask'[x] = free_mask[x]
    BY <1>0, <1>1, <1>7 DEF Returned
  <2>2. FreeClean'
    BY <1>5, <2>1 DEF FreeClean
  <2>3. ASSUME NEW x \in R', NEW k \in read_mask'[x] \ free_mask'[x]
        PROVE  Holding(k)' /\ frame'[k] = x
    <3>1. x \in R /\ x # n /\ k \in Module /\ k \in read_mask[x] \ free_mask[x]
      BY <1>0, <2>1, <2>3
    <3>2. Holding(k) /\ frame[k] = x /\ k # m
      BY <1>5, <3>1
    <3>3. QED
      BY <1>2, <3>1, <3>2
  <2>4. QED
    BY <1>4, <2>2, <2>3 DEF Settled, Readers, Holding
<1>8. CASE ~Returned(n, m)
  <2>1. /\ F' = F /\ R' = R /\ read_mask' = read_mask
        /\ \/ free_mask' = [free_mask EXCEPT ![n] = @ \cup {m}]
           \/ read_mask[n] = {} \/ m \in free_mask[n]
    <3>1. UNCHANGED <<free, ready, read_mask>>
      BY <1>6, <1>8 DEF Shared
    <3>2. \/ free_mask' = [free_mask EXCEPT ![n] = @ \cup {m}]
          \/ Recycle(n)
      BY <1>1, <1>3 DEF FreeFrame, FreeRefused
    <3>3. Recycle(n) => read_mask'[n] = {}
      BY <1>0, <1>1 DEF Recycle
    <3>4. QED
      BY <3>1, <3>2, <3>3 DEF F, R
  <2>2. free_mask' = [free_mask EXCEPT ![n] = @ \cup {m}]
    BY <1>1, <2>1
  <2>3. FreeClean'
    BY <1>0, <1>1, <1>5, <2>1, <2>2 DEF FreeClean
  <2>4. ASSUME NEW x \in R, NEW k \in read_mask[x] \ free_mask'[x]
        PROVE  Holding(k)' /\ frame'[k] = x
    <3>1. k \in Module /\ k \in read_mask[x] \ free_mask[x] /\ ~(k = m /\ x = n)
      BY <1>0, <1>1, <2>2, <2>4
    <3>2. Holding(k) /\ frame[k] = x /\ k # m
      BY <1>5, <3>1
    <3>3. QED
      BY <1>2, <3>1, <3>2
  <2>5. QED
    BY <1>4, <2>1, <2>3, <2>4 DEF Settled, Readers, Holding
<1>9. QED
  BY <1>7, <1>8

LEMMA PopSettled ==
  ASSUME TypeOK, OnePlace, BitsNested, HeldMarked, Settled, NEW m \in Module, FbPop(m)
  PROVE  Settled'
<1>0. /\ R \in SUBSET Node /\ F \in SUBSET Node /\ F \cap R = {}
      /\ rpc \in [Module -> {"idle", "wait", "woken", "pop", "popped",
                             "have", "empty", "again"}]
      /\ frame \in [Module -> Node \cup {NoFrame}]
      /\ read_mask \in [Node -> SUBSET Module]
  BY SetsOfNodes DEF TypeOK, NodesOK, ReadsOK, OnePlace, OnList, F, R
<1>1. PICK n \in R : /\ frame' = [frame EXCEPT ![m] = n]
                     /\ read_mask' = [read_mask EXCEPT ![n] = @ \cup {m}]
  BY PopMarks
<1>2. /\ UNCHANGED <<F, R, free_mask, list_enable, held>>
      /\ ~Holding(m) /\ Holding(m)' /\ frame'[m] = n
      /\ \A k \in Module \ {m} : Holding(k)' = Holding(k) /\ frame'[k] = frame[k]
  BY <1>0, <1>1 DEF FbPop, lists, prod, Step, Holding, F, R
<1>3. Closed' /\ FreeClean'
  BY <1>0, <1>1, <1>2 DEF Settled, Closed, FreeClean
<1>4. ASSUME NEW x \in R, NEW k \in read_mask'[x] \ free_mask[x]
      PROVE  Holding(k)' /\ frame'[k] = x
  <2>1. CASE k \in read_mask[x]
    <3>1. Holding(k) /\ frame[k] = x /\ k \in Module /\ k # m
      BY <1>0, <1>2, <1>4, <2>1 DEF Settled, Readers
    <3>2. QED
      BY <1>2, <3>1
  <2>2. CASE k \notin read_mask[x]
    <3>1. k = m /\ x = n
      BY <1>0, <1>1, <1>4, <2>2
    <3>2. QED
      BY <1>2, <3>1
  <2>3. QED
    BY <2>1, <2>2
<1>5. QED
  BY <1>2, <1>3, <1>4 DEF Settled, Readers, Holding

LEMMA SettledStep ==
  ASSUME OneOfThem, ~UseDisabled, IInv, Settled, [Next]_vars
  PROVE  Settled'
<1>0. /\ TypeOK /\ OnePlace /\ LocalFrame /\ FlagsStay /\ BitsNested /\ HeldMarked
      /\ rpc \in [Module -> {"idle", "wait", "woken", "pop", "popped",
                             "have", "empty", "again"}]
  BY DEF IInv, TypeOK, ReadsOK
<1>1. ASSUME UNCHANGED <<free, ready, list_enable, held, read_mask, free_mask>>,
             \A m \in Module : Holding(m) => Holding(m)' /\ frame'[m] = frame[m]
      PROVE  Settled'
  <2>1. F' = F /\ R' = R /\ R \in SUBSET Node /\ read_mask \in [Node -> SUBSET Module]
    BY <1>0, <1>1, SetsOfNodes DEF F, R, TypeOK, NodesOK
  <2>2. Closed' /\ FreeClean'
    BY <1>1, <2>1 DEF Settled, Closed, FreeClean
  <2>3. ASSUME NEW n \in R, NEW m \in read_mask[n] \ free_mask[n]
        PROVE  Holding(m)' /\ frame'[m] = n
    <3>1. m \in Module /\ Holding(m) /\ frame[m] = n
      BY <2>1, <2>3 DEF Settled, Readers
    <3>2. QED
      BY <1>1, <3>1
  <2>4. Readers'
    BY <1>1, <2>1, <2>3 DEF Readers, Holding
  <2>5. QED
    BY <2>2, <2>4 DEF Settled
<1>2. CASE Quiet
  BY <1>0, <1>2, QuietSettled
<1>3. ASSUME NEW m \in Module, FbBad(m) \/ FbFree(m) PROVE Settled'
  BY <1>0, <1>3, FreeSettled
<1>4. ASSUME NEW m \in Module, FbPop(m) PROVE Settled'
  BY <1>0, <1>4, PopSettled
<1>5. CASE Push \/ UNCHANGED vars
  BY <1>1, <1>5 DEF Push, PushNotify, PushLoad, PushStore, vars, lists, nodes,
     reads, prod, Holding
<1>6. ASSUME NEW m \in Module, FbRegister(m) \/ FbDeregister(m) PROVE Settled'
  BY <1>1, <1>6 DEF FbRegister, FbDeregister, lists, nodes, reads, prod, Holding
<1>7. ASSUME NEW m \in Module, FbPopNull(m) PROVE Settled'
  BY <1>0, <1>1, <1>7 DEF FbPopNull, readOnly, lists, nodes, prod, Step, Holding,
     TypeOK, ReadsOK
<1>8. ASSUME NEW m \in Module, Unlocked(m) PROVE Settled'
  <2>1. UNCHANGED <<free, ready, list_enable, held, read_mask, free_mask, frame>>
    BY <1>8, UnlockedStep DEF lists, nodes, prod
  <2>2. rpc[m] # "have"
    BY <1>8 DEF Unlocked, FbRead, FbWait, FbTimeout, FbWoken, FbUnplug, FbGood,
       FbAgain, Step
  <2>3. \A k \in Module \ {m} : rpc'[k] = rpc[k]
    BY <1>0, <1>8, NoStale
  <2>4. Holding(m) => Holding(m)'
    BY <1>0, <1>8, <2>2, NoStale DEF Holding
  <2>5. QED
    BY <1>1, <2>1, <2>3, <2>4 DEF Holding
<1>9. QED
  BY <1>2, <1>3, <1>4, <1>5, <1>6, <1>7, <1>8 DEF Next, Quiet, Locked

LEMMA AlwaysSettled ==
  ASSUME OneOfThem, ~UseDisabled PROVE Spec => [](IInv /\ Settled)
<1>1. Init => Settled
  BY DEF Init, Settled, Closed, Readers, FreeClean, F, R, ToSet
<1>2. IInv /\ Settled /\ [Next]_vars => Settled'
  BY SettledStep
<1>3. QED
  BY <1>1, <1>2, Invariance, PTL DEF Spec

(* On a list that nobody uses while it is closed, no read or free bit is   *)
(* ever left behind: only a module at work keeps a frame from being        *)
(* recycled.                                                               *)
THEOREM BitsSettle ==
  ASSUME OneOfThem, ~UseDisabled PROVE Spec => []NothingStranded
<1>1. IInv /\ Settled => NothingStranded
  BY DEF IInv, BitsNested, Settled, Readers, FreeClean, NothingStranded, F, R
<1>2. QED
  BY <1>1, AlwaysSettled, PTL

(* There frame_buffer_fb_malloc, when it evicts, gives up only when each   *)
(* ready frame is in a module's hands.                                     *)
THEOREM NullOnlyWhenBusy ==
  ASSUME OneOfThem, ~UseDisabled, Evicts PROVE Spec => NullMeansBusy
<1>1. IInv /\ Settled /\ MallocNull => AllBusy
  <2> SUFFICES ASSUME IInv, Settled, MallocNull, NEW n \in R
               PROVE  \E m \in Module : Holding(m) /\ frame[m] = n
    BY DEF AllBusy, R
  <2>1. /\ TypeOK /\ n \in Node /\ free_mask[n] \subseteq read_mask[n]
        /\ read_mask[n] \subseteq Module
    BY SetsOfNodes DEF IInv, BitsNested, R, TypeOK, NodesOK
  <2>2. read_mask[n] # free_mask[n]
    BY <2>1 DEF MallocNull, Reusable, R
  <2>3. PICK m \in Module : m \in read_mask[n] \ free_mask[n]
    BY <2>1, <2>2
  <2>4. QED
    BY <2>3 DEF Settled, Readers
<1>2. IInv /\ Settled /\ [Next]_vars => [MallocNull => AllBusy]_vars
  BY <1>1
<1>3. QED
  BY <1>2, AlwaysSettled, PTL DEF Spec, NullMeansBusy
=============================================================================
