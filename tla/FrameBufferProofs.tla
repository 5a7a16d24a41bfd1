------------------------- MODULE FrameBufferProofs -------------------------
(***************************************************************************)
(* The safety of the shared frame lists for every number of nodes, modules *)
(* and frames, provided fb_clear and fb_deregister are not both used, and  *)
(* that the lists implement the ownership of FrameOwner.                    *)
(***************************************************************************)
EXTENDS FrameBuffer, ListFacts, TLAPS

OneOfThem == ~(Clears /\ Deregisters)

(* What fb_read's local pointer means at each of its points.               *)
Good(m) ==
    /\ rpc[m] \in {"idle", "empty"} => frame[m] = NoFrame
    /\ Holding(m) => frame[m] \in Node
    /\ rpc[m] \in {"again", "wait", "woken", "pop"} /\ frame[m] # NoFrame => Clears
    /\ rpc[m] \in {"again", "wait"} /\ frame[m] # NoFrame => handle[m]
LocalFrame == \A m \in Module : Good(m)

(* No frame is bad unless fb_clear is used; nobody is disabled unless      *)
(* fb_deregister is used, not even by push's stale byte.                   *)
FlagsStay ==
    /\ ~Clears => \A n \in Node : ~err_state[n]
    /\ ~Deregisters => /\ \A m \in Module : rpc[m] # "idle" => enable[m]
                       /\ ppc \in {"load", "store"} => enable[pi]
                       /\ ppc = "store" => pload

(* Only a module that read a ready frame has freed it.                     *)
BitsNested == \A n \in ToSet(ready) : free_mask[n] \subseteq read_mask[n]

(* A registered module with plugin set has its bit, or is about to look at *)
(* the list; so has one to which push is about to give plugin.             *)
Looking == {"woken", "pop", "popped", "have", "empty"}
Armed ==
    /\ \A m \in register_mask :
         enable[m] /\ plugin[m] => handle[m] \/ rpc[m] \in Looking
    /\ ppc \in {"load", "store"} /\ pi \in register_mask =>
         enable[pi] /\ (handle[pi] \/ rpc[pi] \in {"woken", "pop"})

IInv == TypeOK /\ OnePlace /\ LocalFrame /\ FlagsStay
          /\ BitsNested /\ HeldMarked /\ Armed
-----------------------------------------------------------------------------
(* Taking an entry out of a list and adding one at its end.                *)
LEMMA RemoveAtSet ==
  ASSUME NEW S, NEW s \in Seq(S), IsInjective(s), NEW i \in DOMAIN s
  PROVE  /\ IsInjective(RemoveAt(s, i))
         /\ ToSet(RemoveAt(s, i)) = ToSet(s) \ {s[i]}
<1> DEFINE r == RemoveAt(s, i)
<1>0. /\ Len(s) \in Nat /\ i \in 1..Len(s) /\ DOMAIN s = 1..Len(s)
      /\ DOMAIN r = 1..(Len(s) - 1)
      /\ \A k \in 1..(Len(s) - 1) : r[k] = IF k < i THEN s[k] ELSE s[k + 1]
  BY RemoveAtFacts
<1> HIDE DEF r
<1>1. IsInjective(r)
  <2>1. \A k, l \in 1..Len(s) : s[k] = s[l] => k = l
    BY <1>0 DEF IsInjective
  <2>2. ASSUME NEW k \in 1..(Len(s) - 1), NEW l \in 1..(Len(s) - 1), r[k] = r[l]
        PROVE  k = l
    <3> DEFINE at(x) == IF x < i THEN x ELSE x + 1
    <3>1. /\ at(k) \in 1..Len(s) /\ at(l) \in 1..Len(s)
          /\ r[k] = s[at(k)] /\ r[l] = s[at(l)]
      BY <1>0
    <3>2. at(k) = at(l)
      BY <3>1, <2>1, <2>2
    <3>3. QED
      BY <3>2, <1>0
  <2>3. QED
    BY <2>2, <1>0 DEF IsInjective
<1>2. ToSet(r) \subseteq ToSet(s) \ {s[i]}
  BY <1>0 DEF ToSet, IsInjective
<1>3. ASSUME NEW x \in ToSet(s), x # s[i] PROVE x \in ToSet(r)
  <2>1. PICK k \in 1..Len(s) : x = s[k]
    BY <1>0 DEF ToSet
  <2>2. CASE k < i
    BY <2>1, <2>2, <1>0 DEF ToSet
  <2>3. CASE ~(k < i)
    <3>1. k - 1 \in 1..(Len(s) - 1) /\ ~(k - 1 < i) /\ (k - 1) + 1 = k
      BY <2>1, <2>3, <1>3, <1>0
    <3>2. r[k - 1] = x
      BY <3>1, <2>1, <1>0
    <3>3. QED
      BY <3>1, <3>2, <1>0 DEF ToSet
  <2>4. QED
    BY <2>2, <2>3
<1>4. QED
  BY <1>1, <1>2, <1>3 DEF r

LEMMA AppendSet ==
  ASSUME NEW S, NEW s \in Seq(S), NEW x \in S
  PROVE  /\ Append(s, x) \in Seq(S)
         /\ ToSet(Append(s, x)) = ToSet(s) \cup {x}
         /\ IsInjective(s) /\ x \notin ToSet(s) => IsInjective(Append(s, x))
<1>1. /\ Append(s, x) \in Seq(S) /\ Len(s) \in Nat
      /\ DOMAIN s = 1..Len(s) /\ DOMAIN Append(s, x) = 1..(Len(s) + 1)
      /\ \A k \in 1..Len(s) : Append(s, x)[k] = s[k]
      /\ Append(s, x)[Len(s) + 1] = x
  OBVIOUS
<1>2. ToSet(Append(s, x)) = ToSet(s) \cup {x}
  BY <1>1 DEF ToSet
<1>3. IsInjective(s) /\ x \notin ToSet(s) => IsInjective(Append(s, x))
  BY <1>1 DEF IsInjective, ToSet
<1>4. QED
  BY <1>1, <1>2, <1>3

LEMMA ConcatSet ==
  ASSUME NEW S, NEW s \in Seq(S), NEW t \in Seq(S)
  PROVE  /\ s \o t \in Seq(S)
         /\ ToSet(s \o t) = ToSet(s) \cup ToSet(t)
         /\ IsInjective(s) /\ IsInjective(t) /\ ToSet(s) \cap ToSet(t) = {}
              => IsInjective(s \o t)
<1> DEFINE j == s \o t
<1>1. /\ j \in Seq(S) /\ Len(s) \in Nat /\ Len(t) \in Nat
      /\ DOMAIN s = 1..Len(s) /\ DOMAIN t = 1..Len(t)
      /\ DOMAIN j = 1..(Len(s) + Len(t))
      /\ \A k \in 1..Len(s) : j[k] = s[k]
      /\ \A k \in 1..(Len(s) + Len(t)) : k > Len(s) => j[k] = t[k - Len(s)]
  OBVIOUS
<1> HIDE DEF j
<1>2. ToSet(j) \subseteq ToSet(s) \cup ToSet(t)
  <2>1. ASSUME NEW k \in DOMAIN j PROVE j[k] \in ToSet(s) \cup ToSet(t)
    <3>1. CASE k <= Len(s)
      BY <3>1, <1>1 DEF ToSet
    <3>2. CASE k > Len(s)
      <4>1. k - Len(s) \in DOMAIN t /\ j[k] = t[k - Len(s)]
        BY <3>2, <1>1
      <4>2. QED
        BY <4>1 DEF ToSet
    <3>3. QED
      BY <3>1, <3>2, <1>1
  <2>2. QED
    BY <2>1 DEF ToSet
<1>3. ToSet(s) \subseteq ToSet(j)
  BY <1>1 DEF ToSet
<1>4. ASSUME NEW k \in DOMAIN t PROVE t[k] \in ToSet(j)
  <2>1. k + Len(s) \in DOMAIN j /\ k + Len(s) > Len(s) /\ (k + Len(s)) - Len(s) = k
    BY <1>1
  <2>2. j[k + Len(s)] = t[k]
    BY <2>1, <1>1
  <2>3. QED
    BY <2>1, <2>2 DEF ToSet
<1>5. ToSet(t) \subseteq ToSet(j)
  BY <1>4 DEF ToSet
<1>6. ASSUME IsInjective(s), IsInjective(t), ToSet(s) \cap ToSet(t) = {},
             NEW a \in DOMAIN j, NEW b \in DOMAIN j, j[a] = j[b]
      PROVE  a = b
  <2>1. CASE a <= Len(s) /\ b <= Len(s)
    BY <2>1, <1>6, <1>1 DEF IsInjective
  <2>2. CASE a > Len(s) /\ b > Len(s)
    <3>1. /\ a - Len(s) \in DOMAIN t /\ b - Len(s) \in DOMAIN t
          /\ t[a - Len(s)] = t[b - Len(s)]
      BY <2>2, <1>6, <1>1
    <3>2. a - Len(s) = b - Len(s)
      BY <3>1, <1>6 DEF IsInjective
    <3>3. QED
      BY <3>2, <1>1
  <2>3. CASE a <= Len(s) /\ b > Len(s)
    <3>1. /\ a \in DOMAIN s /\ b - Len(s) \in DOMAIN t
          /\ s[a] = t[b - Len(s)]
      BY <2>3, <1>6, <1>1
    <3>2. QED
      BY <3>1, <1>6 DEF ToSet
  <2>4. CASE a > Len(s) /\ b <= Len(s)
    <3>1. /\ b \in DOMAIN s /\ a - Len(s) \in DOMAIN t
          /\ s[b] = t[a - Len(s)]
      BY <2>4, <1>6, <1>1
    <3>2. QED
      BY <3>1, <1>6 DEF ToSet
  <2>5. QED
    BY <2>1, <2>2, <2>3, <2>4, <1>1
<1>7. QED
  BY <1>1, <1>2, <1>3, <1>5, <1>6 DEF j, IsInjective

-----------------------------------------------------------------------------
(* frame_buffer_fb_init brings in nodes that were nowhere.                 *)
LEMMA InitEffect ==
  ASSUME FbInit
  PROVE  \E s \in Seq(Node) : /\ IsInjective(s) /\ Zeroed(s)
                              /\ ToSet(s) \cap (OnList \cup held) = {}
                              /\ free' = free \o s /\ list_enable' \in BOOLEAN
<1>1. PICK k \in IF UseDisabled THEN 0..Count ELSE {Count} : \E s \in Fresh(k) :
         free' = free \o s /\ Zeroed(s) /\ list_enable' = (k = Count)
  BY DEF FbInit
<1>2. PICK s \in Fresh(k) : free' = free \o s /\ Zeroed(s) /\ list_enable' = (k = Count)
  BY <1>1
<1>3. /\ s \in [1..k -> Node \ (OnList \cup held)] /\ IsInjective(s) /\ k \in Nat
  BY <1>1, ConstAssumption DEF Fresh
<1>4. s \in Seq(Node)
  BY <1>3
<1>5. ToSet(s) \cap (OnList \cup held) = {}
  BY <1>3 DEF ToSet
<1>6. QED
  BY <1>2, <1>3, <1>4, <1>5

-----------------------------------------------------------------------------
(* Type correctness.                                                       *)
LEMMA TypeLists ==
  ASSUME TypeOK, Lists PROVE TypeOK'
<1> USE ConstAssumption DEF TypeOK
<1>1. CASE FbInit
  <2>1. PICK s \in Seq(Node) :
          free' = free \o s /\ Zeroed(s) /\ list_enable' \in BOOLEAN
    BY <1>1, InitEffect
  <2>2. free' \in Seq(Node)
    BY <2>1, ConcatSet DEF ListsOK
  <2>3. ListsOK'
    BY <1>1, <2>1, <2>2 DEF FbInit, ListsOK
  <2>5. NodesOK'
    <3>1. error' \in [Node -> BOOLEAN]
      BY <2>1 DEF Zeroed
    <3>2. base_addr' \in [Node -> BOOLEAN]
      BY <2>1 DEF Zeroed
    <3>3. err_state' \in [Node -> BOOLEAN]
      BY <2>1 DEF Zeroed
    <3>4. read_mask' \in [Node -> SUBSET Module]
      BY <2>1 DEF NodesOK, Zeroed
    <3>5. free_mask' \in [Node -> SUBSET Module]
      BY <2>1 DEF NodesOK, Zeroed
    <3>6. QED
      BY <3>1, <3>2, <3>3, <3>4, <3>5 DEF NodesOK
  <2>4. ModsOK' /\ ReadsOK' /\ ProdOK'
    BY <1>1 DEF FbInit, ModsOK, ReadsOK, ProdOK, mods, reads, prod
  <2>6. QED
    BY <2>3, <2>4, <2>5
<1>2. CASE FbDeinit
  <2>0. free' = <<>> /\ ready' = <<>> /\ list_enable' = FALSE
    BY <1>2 DEF FbDeinit
  <2>1. <<>> \in Seq(Node) /\ FALSE \in BOOLEAN
    OBVIOUS
  <2>2. ListsOK'
    BY <2>0, <2>1 DEF ListsOK
  <2>3. NodesOK' /\ ModsOK' /\ ReadsOK' /\ ProdOK'
    BY <1>2 DEF FbDeinit, NodesOK, ModsOK, ReadsOK, ProdOK, nodes, mods, reads, prod
  <2>4. QED
    BY <2>2, <2>3
<1>3. CASE FbClear
  BY <1>3 DEF FbClear, ListsOK, NodesOK, ModsOK, ReadsOK, ProdOK, lists, mods, reads, prod
<1>4. QED
  BY <1>1, <1>2, <1>3 DEF Lists

LEMMA TypeTake ==
  ASSUME TypeOK, NEW n \in Node, Take(n)
  PROVE  /\ held' \in SUBSET Node /\ read_mask' \in [Node -> SUBSET Module]
         /\ free_mask' \in [Node -> SUBSET Module]
         /\ err_state' \in [Node -> BOOLEAN]
BY DEF Take, TypeOK, NodesOK, ProdOK

LEMMA TypeNoFree ==
  ASSUME TypeOK, NoFreeNode
  PROVE  free' \in Seq(Node) /\ error' \in [Node -> BOOLEAN]
<1>1. free \in Seq(Node) /\ error \in [Node -> BOOLEAN]
  BY DEF TypeOK, ListsOK, NodesOK
<1>2. ASSUME NEW i \in DOMAIN free
      PROVE  /\ free[i] \in Node
             /\ Append(RemoveAt(free, i), free[i]) \in Seq(Node)
  BY <1>1, RemoveAtFacts, AppendSet
<1>3. QED
  BY <1>1, <1>2 DEF NoFreeNode

LEMMA TypeMalloc ==
  ASSUME TypeOK, Malloc PROVE TypeOK'
<1>0. /\ free \in Seq(Node) /\ ready \in Seq(Node) /\ list_enable \in BOOLEAN
      /\ base_addr \in [Node -> BOOLEAN] /\ error \in [Node -> BOOLEAN]
  BY DEF TypeOK, ListsOK, NodesOK
<1>1. CASE MallocFree
  <2>1. PICK i \in DOMAIN free :
          /\ free' = RemoveAt(free, i)
          /\ base_addr' = [base_addr EXCEPT ![free[i]] = TRUE]
          /\ Take(free[i])
    BY <1>1 DEF MallocFree
  <2>2. free[i] \in Node /\ free' \in Seq(Node)
    BY <1>0, <2>1, RemoveAtFacts
  <2>3. QED
    BY <1>0, <1>1, <2>1, <2>2, TypeTake
       DEF MallocFree, TypeOK, ListsOK, NodesOK, ModsOK, ReadsOK, ProdOK, mods, reads
<1>2. CASE MallocEvict
  <2>1. PICK i \in DOMAIN ready :
          ready' = RemoveAt(ready, i) /\ Take(ready[i])
    BY <1>2 DEF MallocEvict
  <2>2. ready[i] \in Node /\ ready' \in Seq(Node)
    BY <1>0, <2>1, RemoveAtFacts
  <2>3. free' \in Seq(Node) /\ error' \in [Node -> BOOLEAN]
    BY <1>2, TypeNoFree DEF MallocEvict
  <2>4. QED
    BY <1>0, <1>2, <2>1, <2>2, <2>3, TypeTake
       DEF MallocEvict, TypeOK, ListsOK, NodesOK, ModsOK, ReadsOK, ProdOK, mods, reads
<1>3. CASE MallocNull
  <2>1. free' \in Seq(Node) /\ error' \in [Node -> BOOLEAN]
    BY <1>3, TypeNoFree DEF MallocNull
  <2>2. QED
    BY <1>3, <2>1
       DEF MallocNull, TypeOK, ListsOK, NodesOK, ModsOK, ReadsOK, ProdOK, mods, reads
<1>4. CASE MallocFailed
  BY <1>4 DEF MallocFailed, TypeOK, ListsOK, NodesOK, ModsOK, ReadsOK, ProdOK,
     lists, nodes, mods, reads
<1>5. QED
  BY <1>1, <1>2, <1>3, <1>4 DEF Malloc

LEMMA TypePush ==
  ASSUME TypeOK, Push \/ \E n \in Node : FbPush(n) \/ DirectFree(n)
  PROVE  TypeOK'
<1>0. /\ free \in Seq(Node) /\ ready \in Seq(Node) /\ 1 \in Module
  BY ConstAssumption DEF TypeOK, ListsOK, Module
<1>1. ASSUME NEW n \in Node, FbPush(n) PROVE TypeOK'
  <2>1. ready' \in Seq(Node)
    BY <1>0, <1>1, AppendSet DEF FbPush
  <2>2. QED
    BY <1>0, <1>1, <2>1
       DEF FbPush, TypeOK, ListsOK, NodesOK, ModsOK, ReadsOK, ProdOK, mods, reads
<1>2. ASSUME NEW n \in Node, DirectFree(n) PROVE TypeOK'
  <2>1. free' \in Seq(Node)
    BY <1>0, <1>2, AppendSet DEF DirectFree
  <2>2. QED
    BY <1>2, <2>1
       DEF DirectFree, TypeOK, ListsOK, NodesOK, ModsOK, ReadsOK, ProdOK, mods, reads
<1>3. NextModule => ppc' \in {"notify", "idle"} /\ pi' \in Module
  BY ConstAssumption DEF NextModule, TypeOK, ProdOK, Module
<1>4. CASE Push
  BY <1>3, <1>4 DEF Push, PushNotify, PushLoad, PushStore, TypeOK, ListsOK,
     NodesOK, ModsOK, ReadsOK, ProdOK, lists, nodes, mods, reads
<1>5. QED
  BY <1>1, <1>2, <1>4

LEMMA TypeFree ==
  ASSUME TypeOK, NEW n \in Node, NEW m \in Module, FreeFrame(n, m)
  PROVE  /\ free' \in Seq(Node) /\ ready' \in Seq(Node)
         /\ read_mask' \in [Node -> SUBSET Module]
         /\ free_mask' \in [Node -> SUBSET Module]
         /\ handle' \in [Module -> BOOLEAN]
<1>0. /\ free \in Seq(Node) /\ ready \in Seq(Node)
      /\ read_mask \in [Node -> SUBSET Module]
      /\ free_mask \in [Node -> SUBSET Module]
      /\ handle \in [Module -> BOOLEAN] /\ enable \in [Module -> BOOLEAN]
  BY DEF TypeOK, ListsOK, NodesOK, ModsOK
<1>1. Complete(m) => handle' \in [Module -> BOOLEAN]
  BY <1>0 DEF Complete
<1>2. Unlink(n) => ready' \in Seq(Node)
  BY <1>0, RemoveAtFacts DEF Unlink
<1>3. Append(free, n) \in Seq(Node)
  BY <1>0, AppendSet
<1>4. Recycle(n) => /\ free' \in Seq(Node) /\ ready' \in Seq(Node)
                    /\ read_mask' \in [Node -> SUBSET Module]
                    /\ free_mask' \in [Node -> SUBSET Module]
  BY <1>0, <1>2, <1>3 DEF Recycle
<1>5. QED
  BY <1>0, <1>1, <1>4 DEF FreeFrame, FreeRefused

LEMMA TypeRead ==
  ASSUME TypeOK, LocalFrame, NEW m \in Module,
         Locked(m) \/ Unlocked(m) \/ FbRegister(m) \/ FbDeregister(m)
  PROVE  TypeOK'
<1> DEFINE PC == {"idle", "wait", "woken", "pop", "popped", "have", "empty", "again"}
<1>0. /\ ready \in Seq(Node) /\ frame \in [Module -> Node \cup {NoFrame}]
      /\ read_mask \in [Node -> SUBSET Module]
      /\ rpc \in [Module -> PC]
  BY DEF TypeOK, ListsOK, NodesOK, ReadsOK
<1>1. \A a, b : Step(m, a, b) /\ b \in PC => rpc' \in [Module -> PC]
  BY <1>0 DEF Step
<1>2. Return(m) \in PC
  BY DEF Return
<1> HIDE DEF PC
<1>3. ASSUME frame[m] \in Node, FreeFrame(frame[m], m), rpc' \in [Module -> PC],
             frame' \in [Module -> Node \cup {NoFrame}],
             UNCHANGED <<list_enable, error, base_addr, err_state,
                         enable, plugin, register_mask, prod>>
      PROVE  TypeOK'
  BY <1>3, TypeFree DEF TypeOK, ListsOK, NodesOK, ModsOK, ReadsOK, ProdOK, prod, PC
<1>4. CASE FbPop(m)
  <2>1. PICK i \in DOMAIN ready :
          /\ read_mask' = [read_mask EXCEPT ![ready[i]] = @ \cup {m}]
          /\ frame' = [frame EXCEPT ![m] = ready[i]]
    BY <1>4 DEF FbPop
  <2>2. ready[i] \in Node
    BY <1>0
  <2>3. rpc' \in [Module -> PC]
    BY <1>1, <1>4 DEF FbPop, PC
  <2>4. /\ read_mask' \in [Node -> SUBSET Module]
        /\ frame' \in [Module -> Node \cup {NoFrame}]
    BY <1>0, <2>1, <2>2
  <2>5. QED
    BY <1>4, <2>3, <2>4 DEF FbPop, TypeOK, ListsOK, NodesOK, ModsOK, ReadsOK, ProdOK,
       lists, mods, prod, PC
<1>5. CASE FbPopNull(m)
  <2>1. rpc' \in [Module -> PC]
    BY <1>1, <1>5 DEF FbPopNull, PC
  <2>2. frame' \in [Module -> Node \cup {NoFrame}]
    BY <1>0, <1>5 DEF FbPopNull
  <2>3. QED
    BY <1>5, <2>1, <2>2 DEF FbPopNull, TypeOK, ListsOK, NodesOK, ModsOK, ReadsOK,
       ProdOK, readOnly, lists, nodes, mods, prod, PC
<1>6. CASE FbBad(m)
  <2>1. rpc' \in [Module -> PC]
    BY <1>1, <1>6 DEF FbBad, PC
  <2>2. frame[m] \in Node
    BY <1>6 DEF FbBad, Step, LocalFrame, Good, Holding
  <2>3. QED
    BY <1>0, <1>3, <1>6, <2>1, <2>2 DEF FbBad
<1>7. CASE FbFree(m)
  <2>1. rpc' \in [Module -> PC]
    BY <1>1, <1>7 DEF FbFree, PC
  <2>2. frame[m] \in Node
    BY <1>7 DEF FbFree, Step, LocalFrame, Good, Holding
  <2>3. frame' \in [Module -> Node \cup {NoFrame}]
    BY <1>0, <1>7 DEF FbFree
  <2>4. QED
    BY <1>3, <1>7, <2>1, <2>2, <2>3 DEF FbFree
<1>8. CASE Unlocked(m)
  <2>1. rpc' \in [Module -> PC]
    BY <1>1, <1>2, <1>8 DEF Unlocked, FbRead, FbWait, FbTimeout, FbWoken,
       FbUnplug, FbGood, FbAgain, PC
  <2>2. QED
    BY <1>8, <2>1 DEF Unlocked, FbRead, FbWait, FbTimeout, FbWoken,
       FbUnplug, FbGood, FbAgain, TypeOK, ListsOK, NodesOK, ModsOK, ReadsOK,
       ProdOK, readOnly, lists, nodes, mods, prod, PC
<1>9. CASE FbRegister(m) \/ FbDeregister(m)
  BY <1>9 DEF FbRegister, FbDeregister, TypeOK, ListsOK, NodesOK, ModsOK, ReadsOK,
     ProdOK, lists, nodes, reads, prod
<1>10. QED
  BY <1>4, <1>5, <1>6, <1>7, <1>8, <1>9 DEF Locked

LEMMA TypeStep ==
  ASSUME TypeOK, LocalFrame, [Next]_vars PROVE TypeOK'
<1>1. CASE UNCHANGED vars
  BY <1>1 DEF vars, TypeOK, ListsOK, NodesOK, ModsOK, ReadsOK, ProdOK,
     lists, nodes, mods, reads, prod
<1>2. QED
  BY <1>1, TypeLists, TypeMalloc, TypePush, TypeRead DEF Next

-----------------------------------------------------------------------------
(* What each operation does to the lists, as sets; no node is linked twice. *)
F == ToSet(free)
R == ToSet(ready)

LEMMA SetsOfNodes ==
  ASSUME TypeOK
  PROVE  /\ F \in SUBSET Node /\ R \in SUBSET Node /\ held \in SUBSET Node
         /\ free \in Seq(Node) /\ ready \in Seq(Node)
BY DEF TypeOK, ListsOK, ProdOK, ToSet, F, R

LEMMA FbInitEffect ==
  ASSUME TypeOK, OnePlace, FbInit
  PROVE  /\ OnePlace'
         /\ \E s \in Seq(Node) : /\ ToSet(s) \cap (F \cup R \cup held) = {}
                                 /\ F' = F \cup ToSet(s) /\ Zeroed(s)
         /\ R' = R /\ ready' = ready /\ held' = held
<1>1. PICK s \in Seq(Node) : /\ IsInjective(s) /\ Zeroed(s)
                             /\ ToSet(s) \cap (OnList \cup held) = {}
                             /\ free' = free \o s
  BY InitEffect
<1>2. free \in Seq(Node)
  BY SetsOfNodes
<1>3. IsInjective(free) /\ ToSet(free) \cap ToSet(s) = {}
  BY <1>1 DEF OnePlace, OnList
<1>4. ToSet(free') = ToSet(free) \cup ToSet(s) /\ IsInjective(free')
  BY <1>1, <1>2, <1>3, ConcatSet
<1>5. UNCHANGED <<ready, held>>
  BY DEF FbInit, prod
<1>6. OnePlace'
  BY <1>1, <1>4, <1>5 DEF OnePlace, OnList
<1>7. QED
  BY <1>1, <1>4, <1>5, <1>6 DEF F, R, OnList

LEMMA NoFreeEffect ==
  ASSUME TypeOK, OnePlace, NoFreeNode
  PROVE  F' = F /\ IsInjective(free')
<1>1. CASE UNCHANGED free
  BY <1>1 DEF F, OnePlace
<1>2. CASE ~UNCHANGED free
  <2>1. PICK i \in DOMAIN free : free' = Append(RemoveAt(free, i), free[i])
    BY <1>2 DEF NoFreeNode
  <2>2. /\ free \in Seq(Node) /\ IsInjective(free) /\ free[i] \in Node
    BY SetsOfNodes DEF OnePlace
  <2>3. /\ RemoveAt(free, i) \in Seq(Node) /\ IsInjective(RemoveAt(free, i))
        /\ ToSet(RemoveAt(free, i)) = F \ {free[i]}
    BY <2>2, RemoveAtFacts, RemoveAtSet DEF F
  <2>4. /\ ToSet(free') = (F \ {free[i]}) \cup {free[i]}
        /\ IsInjective(free')
    BY <2>1, <2>2, <2>3, AppendSet
  <2>5. free[i] \in F
    BY DEF F, ToSet
  <2>6. QED
    BY <2>4, <2>5 DEF F
<1>3. QED
  BY <1>1, <1>2

LEMMA MallocFreeEffect ==
  ASSUME TypeOK, OnePlace, MallocFree
  PROVE  /\ OnePlace'
         /\ \E n \in F : F' = F \ {n} /\ Take(n)
         /\ R' = R
<1>1. PICK i \in DOMAIN free : free' = RemoveAt(free, i) /\ Take(free[i])
  BY DEF MallocFree
<1>2. free[i] \in F
  BY DEF F, ToSet
<1>3. IsInjective(free') /\ F' = F \ {free[i]}
  BY <1>1, SetsOfNodes, RemoveAtSet DEF OnePlace, F
<1>4. held' = held \cup {free[i]}
  BY <1>1 DEF Take
<1>5. UNCHANGED ready
  BY DEF MallocFree
<1>6. OnePlace'
  BY <1>2, <1>3, <1>4, <1>5 DEF OnePlace, OnList, F
<1>7. QED
  BY <1>1, <1>2, <1>3, <1>5, <1>6 DEF R

LEMMA MallocEvictEffect ==
  ASSUME TypeOK, OnePlace, MallocEvict
  PROVE  /\ OnePlace'
         /\ F' = F
         /\ \E n \in R : R' = R \ {n} /\ n \in Reusable /\ Take(n)
<1>1. PICK i \in DOMAIN ready :
         /\ FirstIn(ready, Reusable, i)
         /\ ready' = RemoveAt(ready, i) /\ Take(ready[i])
  BY DEF MallocEvict
<1>2. ready[i] \in R /\ ready[i] \in Reusable
  BY <1>1 DEF R, ToSet, FirstIn
<1>3. IsInjective(ready') /\ R' = R \ {ready[i]}
  BY <1>1, SetsOfNodes, RemoveAtSet DEF OnePlace, R
<1>4. held' = held \cup {ready[i]}
  BY <1>1 DEF Take
<1>5. F' = F /\ IsInjective(free')
  BY NoFreeEffect DEF MallocEvict
<1>6. OnePlace'
  BY <1>2, <1>3, <1>4, <1>5 DEF OnePlace, OnList, F, R
<1>7. QED
  BY <1>1, <1>2, <1>3, <1>5, <1>6

LEMMA MallocNullEffect ==
  ASSUME TypeOK, OnePlace, MallocNull
  PROVE  OnePlace' /\ F' = F /\ R' = R
<1>1. F' = F /\ IsInjective(free')
  BY NoFreeEffect DEF MallocNull
<1>2. UNCHANGED <<ready, held>>
  BY DEF MallocNull
<1>3. QED
  BY <1>1, <1>2 DEF OnePlace, OnList, F, R

LEMMA FbPushEffect ==
  ASSUME TypeOK, OnePlace, NEW n \in Node, FbPush(n)
  PROVE  OnePlace' /\ F' = F /\ R' = R \cup {n}
<1>1. /\ ready' = Append(ready, n) /\ UNCHANGED free
      /\ n \in held /\ held' = held \ {n}
  BY DEF FbPush
<1>2. n \notin F /\ n \notin R
  BY <1>1 DEF OnePlace, OnList, F, R
<1>3. IsInjective(ready') /\ R' = R \cup {n}
  BY <1>1, <1>2, SetsOfNodes, AppendSet DEF OnePlace, R
<1>4. QED
  BY <1>1, <1>2, <1>3 DEF OnePlace, OnList, F, R

LEMMA DirectFreeEffect ==
  ASSUME TypeOK, OnePlace, NEW n \in Node, DirectFree(n)
  PROVE  OnePlace' /\ F' = F \cup {n} /\ R' = R
<1>1. /\ free' = Append(free, n) /\ UNCHANGED ready
      /\ n \in held /\ held' = held \ {n}
  BY DEF DirectFree
<1>2. n \notin F /\ n \notin R
  BY <1>1 DEF OnePlace, OnList, F, R
<1>3. IsInjective(free') /\ F' = F \cup {n}
  BY <1>1, <1>2, SetsOfNodes, AppendSet DEF OnePlace, F
<1>4. QED
  BY <1>1, <1>2, <1>3 DEF OnePlace, OnList, F, R

(* frame_buffer_fb_free of a frame that the module holds: it sets the       *)
(* module's bit, and either leaves the frame with its other readers or      *)
(* recycles it.                                                             *)
Shared(n, m) ==
    /\ UNCHANGED <<free, ready, read_mask>>
    /\ \/ UNCHANGED free_mask
       \/ free_mask' = [free_mask EXCEPT ![n] = @ \cup {m}]
Returned(n, m) ==
    /\ AllDone(n, m) /\ F' = F \cup {n} /\ R' = R \ {n}
    /\ read_mask' = [read_mask EXCEPT ![n] = {}]
    /\ free_mask' = [free_mask EXCEPT ![n] = {}]

LEMMA FreeEffect ==
  ASSUME TypeOK, OnePlace, NEW n \in R, NEW m \in Module,
         m \in read_mask[n] \ free_mask[n], FreeFrame(n, m), UNCHANGED held
  PROVE  OnePlace' /\ Complete(m) /\ (Shared(n, m) \/ Returned(n, m))
<1>0. n \in Node /\ n \notin F /\ n \notin held
  BY SetsOfNodes DEF OnePlace, OnList, F, R
<1>1. ~FreeRefused(n, m) /\ read_mask[n] # {}
  BY DEF FreeRefused
<1>2. CASE Recycle(n) /\ AllDone(n, m) /\ Complete(m)
  <2>1. IsInjective(ready') /\ R' = R \ {n}
    <3>1. PICK i \in DOMAIN ready :
             FirstIn(ready, {n}, i) /\ ready' = RemoveAt(ready, i)
      BY <1>2 DEF Recycle, Unlink, R
    <3>2. ready[i] = n
      BY <3>1 DEF FirstIn
    <3>3. QED
      BY <3>1, <3>2, SetsOfNodes, RemoveAtSet DEF OnePlace, R
  <2>2. IsInjective(free') /\ F' = F \cup {n}
    BY <1>0, <1>2, SetsOfNodes, AppendSet DEF Recycle, OnePlace, F
  <2>3. OnePlace'
    BY <1>0, <2>1, <2>2 DEF OnePlace, OnList, F, R
  <2>4. QED
    BY <1>2, <2>1, <2>2, <2>3 DEF Returned, Recycle
<1>3. CASE Complete(m) /\ Shared(n, m)
  <2>1. OnePlace'
    BY <1>3 DEF Shared, OnePlace, OnList
  <2>2. QED
    BY <1>3, <2>1
<1>4. QED
  BY <1>1, <1>2, <1>3 DEF FreeFrame, Shared

-----------------------------------------------------------------------------
(* The operations that touch neither the modules' flags nor their reads.   *)
Quiet == Lists \/ Malloc \/ \E n \in Node : FbPush(n) \/ DirectFree(n)

LEMMA QuietStep ==
  ASSUME Quiet
  PROVE  /\ UNCHANGED <<mods, reads>>
         /\ UNCHANGED <<ppc, pi, pload>> \/ ppc' \in {"idle", "null", "notify"}
BY DEF Quiet, Lists, FbInit, FbDeinit, FbClear, Malloc, MallocFree, MallocEvict,
   MallocNull, MallocFailed, FbPush, DirectFree, prod

(* The steps of fb_read that leave the lists and the nodes alone.          *)
LEMMA UnlockedStep ==
  ASSUME NEW m \in Module, Unlocked(m)
  PROVE  UNCHANGED <<lists, nodes, prod, enable, register_mask, frame>>
BY DEF Unlocked, FbRead, FbWait, FbTimeout, FbWoken, FbUnplug, FbGood, FbAgain,
   readOnly, mods

LEMMA OnePlaceStep ==
  ASSUME TypeOK, OnePlace, LocalFrame, HeldMarked, [Next]_vars PROVE OnePlace'
<1>1. CASE FbInit
  BY <1>1, FbInitEffect
<1>2. CASE FbDeinit
  <2>1. free' = <<>> /\ ready' = <<>>
    BY <1>2 DEF FbDeinit
  <2>2. ToSet(<<>>) = {} /\ IsInjective(<<>>)
    BY DEF ToSet, IsInjective
  <2>3. QED
    BY <2>1, <2>2 DEF OnePlace, OnList
<1>3. CASE Malloc
  BY <1>3, MallocFreeEffect, MallocEvictEffect, MallocNullEffect
     DEF Malloc, MallocFailed, lists, OnePlace, OnList
<1>4. CASE \E n \in Node : FbPush(n) \/ DirectFree(n)
  BY <1>4, FbPushEffect, DirectFreeEffect
<1>5. ASSUME NEW m \in Module, FbBad(m) \/ FbFree(m) PROVE OnePlace'
  <2>1. Holding(m) /\ FreeFrame(frame[m], m) /\ UNCHANGED held
    BY <1>5 DEF FbBad, FbFree, Step, Holding, prod
  <2>2. frame[m] \in R /\ m \in read_mask[frame[m]] \ free_mask[frame[m]]
    BY <2>1 DEF HeldMarked, R
  <2>3. QED
    BY <2>1, <2>2, FreeEffect
<1>6. ASSUME UNCHANGED <<free, ready, held>> PROVE OnePlace'
  BY <1>6 DEF OnePlace, OnList
<1>7. ASSUME NEW m \in Module,
             FbPop(m) \/ FbPopNull(m) \/ Unlocked(m) \/ FbRegister(m) \/ FbDeregister(m)
      PROVE  UNCHANGED <<free, ready, held>>
  BY <1>7, UnlockedStep DEF FbPop, FbPopNull, readOnly, FbRegister, FbDeregister,
     lists, prod
<1>8. CASE FbClear \/ Push \/ UNCHANGED vars
  BY <1>6, <1>8 DEF FbClear, Push, PushNotify, PushLoad, PushStore, vars, lists, prod
<1>9. QED
  BY <1>1, <1>2, <1>3, <1>4, <1>5, <1>6, <1>7, <1>8 DEF Next, Lists, Locked

(* A lists operation of the owner or the producer disturbs no frame that a  *)
(* module holds, nor the nesting of the bits.                               *)
LEMMA QuietMarks ==
  ASSUME TypeOK, OnePlace, BitsNested, HeldMarked, Quiet
  PROVE  BitsNested' /\ HeldMarked'
<1> DEFINE Same(n) == read_mask'[n] = read_mask[n] /\ free_mask'[n] = free_mask[n]
           Kept == \A m \in Module : Holding(m) => frame[m] \in R' /\ Same(frame[m])
           Clean == \A n \in R' : (n \in R /\ Same(n)) \/ free_mask'[n] = {}
<1>0. /\ UNCHANGED <<rpc, frame>> /\ R \in SUBSET Node /\ F \in SUBSET Node
      /\ read_mask \in [Node -> SUBSET Module]
      /\ free_mask \in [Node -> SUBSET Module]
  BY QuietStep, SetsOfNodes DEF TypeOK, NodesOK, reads
<1>1. \A m \in Module : Holding(m) =>
         frame[m] \in R /\ m \in read_mask[frame[m]] \ free_mask[frame[m]]
  BY DEF HeldMarked, R
<1>2. F \cap R = {} /\ R \cap held = {}
  BY DEF OnePlace, OnList, F, R
<1>3. ASSUME Kept, Clean PROVE BitsNested' /\ HeldMarked'
  BY <1>0, <1>1, <1>3 DEF BitsNested, HeldMarked, Holding, R
<1>4. ASSUME R' = R, \A n \in R : Same(n) PROVE Kept /\ Clean
  BY <1>1, <1>4
<1>5. CASE FbInit
  <2>1. \A n \in R : Same(n)
    BY <1>0, <1>5, FbInitEffect DEF Zeroed
  <2>2. R' = R
    BY <1>5, FbInitEffect
  <2>3. QED
    BY <1>3, <1>4, <2>1, <2>2
<1>6. CASE FbDeinit
  <2>1. R' = {} /\ \A m \in Module : ~Holding(m)
    BY <1>6 DEF FbDeinit, R, ToSet
  <2>2. QED
    BY <1>3, <2>1
<1>7. CASE FbClear \/ MallocFailed
  BY <1>3, <1>4, <1>7 DEF FbClear, MallocFailed, lists, nodes, R
<1>8. CASE MallocFree
  <2>1. PICK n \in F : Take(n)
    BY <1>8, MallocFreeEffect
  <2>2. \A x \in R : Same(x)
    BY <1>0, <1>2, <2>1 DEF Take
  <2>3. R' = R
    BY <1>8, MallocFreeEffect
  <2>4. QED
    BY <1>3, <1>4, <2>2, <2>3
<1>9. CASE MallocEvict
  <2>1. PICK n \in R : R' = R \ {n} /\ n \in Reusable /\ Take(n)
    BY <1>9, MallocEvictEffect
  <2>2. \A x \in R' : x \in R /\ Same(x)
    BY <1>0, <2>1 DEF Take
  <2>3. \A m \in Module : Holding(m) => frame[m] # n
    BY <1>1, <2>1 DEF Reusable
  <2>4. QED
    BY <1>1, <1>3, <2>1, <2>2, <2>3
<1>10. CASE MallocNull
  <2>1. R' = R
    BY <1>10, MallocNullEffect
  <2>2. QED
    BY <1>3, <1>4, <1>10, <2>1 DEF MallocNull
<1>11. ASSUME NEW n \in Node, FbPush(n) PROVE BitsNested' /\ HeldMarked'
  <2>1. n \notin R /\ R' = R \cup {n}
    BY <1>2, <1>11, FbPushEffect DEF FbPush
  <2>2. (\A x \in R : Same(x)) /\ free_mask'[n] = {}
    BY <1>0, <1>11, <2>1 DEF FbPush
  <2>3. QED
    BY <1>1, <1>3, <2>1, <2>2
<1>12. ASSUME NEW n \in Node, DirectFree(n) PROVE BitsNested' /\ HeldMarked'
  <2>1. n \notin R /\ R' = R
    BY <1>2, <1>12, DirectFreeEffect DEF DirectFree
  <2>2. \A x \in R : Same(x)
    BY <1>0, <1>12, <2>1 DEF DirectFree
  <2>3. QED
    BY <1>3, <1>4, <2>1, <2>2
<1>13. QED
  BY <1>5, <1>6, <1>7, <1>8, <1>9, <1>10, <1>11, <1>12 DEF Quiet, Lists, Malloc

(* Freeing a frame leaves the frames that other modules hold alone.        *)
LEMMA FreeMarks ==
  ASSUME TypeOK, OnePlace, BitsNested, HeldMarked, NEW m \in Module,
         FbBad(m) \/ FbFree(m)
  PROVE  /\ BitsNested' /\ HeldMarked' /\ OnePlace' /\ Complete(m)
         /\ Holding(m) /\ frame[m] \in R
         /\ Shared(frame[m], m) \/ Returned(frame[m], m)
<1> DEFINE n == frame[m]
<1>0. /\ R \in SUBSET Node /\ frame \in [Module -> Node \cup {NoFrame}]
      /\ rpc \in [Module -> {"idle", "wait", "woken", "pop", "popped",
                             "have", "empty", "again"}]
      /\ read_mask \in [Node -> SUBSET Module]
      /\ free_mask \in [Node -> SUBSET Module]
  BY SetsOfNodes DEF TypeOK, NodesOK, ReadsOK
<1>1. Holding(m) /\ FreeFrame(n, m) /\ UNCHANGED held
  BY DEF FbBad, FbFree, Step, Holding, prod
<1>2. /\ \A k \in Module : Holding(k) =>
           frame[k] \in R /\ k \in read_mask[frame[k]] \ free_mask[frame[k]]
      /\ \A x \in R : free_mask[x] \subseteq read_mask[x]
  BY DEF HeldMarked, BitsNested, R
<1>3. n \in R /\ m \in read_mask[n] \ free_mask[n]
  BY <1>1, <1>2
<1>4. OnePlace' /\ Complete(m) /\ (Shared(n, m) \/ Returned(n, m))
  BY <1>1, <1>3, FreeEffect
<1>5. /\ ~Holding(m)'
      /\ \A k \in Module \ {m} : Holding(k)' = Holding(k) /\ frame'[k] = frame[k]
  BY <1>0 DEF FbBad, FbFree, Step, Holding
<1>6. CASE Shared(n, m)
  <2>1. R' = R /\ read_mask' = read_mask
    BY <1>6 DEF Shared, R
  <2>2. \A x \in R : \A k \in Module :
           k \in free_mask'[x] => k \in free_mask[x] \/ (k = m /\ x = n)
    BY <1>0, <1>3, <1>6 DEF Shared
  <2>3. \A x \in R : free_mask'[x] \in SUBSET Module
    BY <1>0, <1>3, <1>6 DEF Shared
  <2>4. BitsNested'
    BY <1>2, <1>3, <2>1, <2>2, <2>3 DEF BitsNested, R
  <2>5. HeldMarked'
    BY <1>2, <1>5, <2>1, <2>2 DEF HeldMarked, R
  <2>6. QED
    BY <1>1, <1>3, <1>4, <2>4, <2>5
<1>7. CASE Returned(n, m)
  <2>1. /\ R' = R \ {n}
        /\ \A x \in R' : read_mask'[x] = read_mask[x] /\ free_mask'[x] = free_mask[x]
    BY <1>0, <1>7 DEF Returned
  <2>2. \A k \in Module \ {m} : Holding(k) => frame[k] # n
    BY <1>2, <1>7 DEF Returned, AllDone
  <2>3. BitsNested'
    BY <1>2, <2>1 DEF BitsNested, R
  <2>4. HeldMarked'
    BY <1>2, <1>5, <2>1, <2>2 DEF HeldMarked, R
  <2>5. QED
    BY <1>1, <1>3, <1>4, <2>3, <2>4
<1>8. QED
  BY <1>4, <1>6, <1>7

(* Popping marks the frame for the module that takes it.                   *)
LEMMA PopMarks ==
  ASSUME TypeOK, BitsNested, HeldMarked, NEW m \in Module, FbPop(m)
  PROVE  /\ BitsNested' /\ HeldMarked'
         /\ \E n \in R : /\ m \notin read_mask[n]
                         /\ frame' = [frame EXCEPT ![m] = n]
                         /\ read_mask' = [read_mask EXCEPT ![n] = @ \cup {m}]
<1>0. /\ R \in SUBSET Node /\ frame \in [Module -> Node \cup {NoFrame}]
      /\ rpc \in [Module -> {"idle", "wait", "woken", "pop", "popped",
                             "have", "empty", "again"}]
      /\ read_mask \in [Node -> SUBSET Module]
      /\ free_mask \in [Node -> SUBSET Module]
  BY SetsOfNodes DEF TypeOK, NodesOK, ReadsOK
<1>1. PICK i \in DOMAIN ready :
         /\ FirstIn(ready, Unread(m), i)
         /\ read_mask' = [read_mask EXCEPT ![ready[i]] = @ \cup {m}]
         /\ frame' = [frame EXCEPT ![m] = ready[i]]
  BY DEF FbPop
<1> DEFINE n == ready[i]
<1>2. n \in R /\ m \notin read_mask[n]
  BY <1>1 DEF FirstIn, Unread, R, ToSet
<1> HIDE DEF n
<1>3. /\ read_mask' = [read_mask EXCEPT ![n] = @ \cup {m}]
      /\ frame' = [frame EXCEPT ![m] = n] /\ free_mask' = free_mask /\ R' = R
  BY <1>1 DEF FbPop, lists, R, n
<1>4. /\ \A k \in Module : Holding(k) =>
           frame[k] \in R /\ k \in read_mask[frame[k]] \ free_mask[frame[k]]
      /\ \A x \in R : free_mask[x] \subseteq read_mask[x]
  BY DEF HeldMarked, BitsNested, R
<1>5. \A k \in Module \ {m} : Holding(k)' = Holding(k) /\ frame'[k] = frame[k]
  BY <1>0, <1>3 DEF FbPop, Step, Holding
<1>6. \A x \in R : read_mask[x] \subseteq read_mask'[x]
  BY <1>0, <1>2, <1>3
<1>7. BitsNested'
  BY <1>3, <1>4, <1>6 DEF BitsNested, R
<1>8. frame'[m] = n /\ m \in read_mask'[n] \ free_mask'[n]
  BY <1>0, <1>2, <1>3, <1>4
<1>9. HeldMarked'
  <2>1. ASSUME NEW k \in Module, Holding(k)'
        PROVE  frame'[k] \in R' /\ k \in read_mask'[frame'[k]] \ free_mask'[frame'[k]]
    <3>1. CASE k = m
      BY <1>2, <1>3, <1>8, <3>1
    <3>2. CASE k # m
      BY <1>3, <1>4, <1>5, <1>6, <2>1, <3>2
    <3>3. QED
      BY <3>1, <3>2
  <2>2. QED
    BY <2>1 DEF HeldMarked, R, Holding
<1>10. QED
  BY <1>2, <1>3, <1>7, <1>9

(* A read never returns a frame that it gave back.                         *)
LEMMA NoStale ==
  ASSUME OneOfThem, TypeOK, LocalFrame, FlagsStay, NEW m \in Module, Unlocked(m)
  PROVE  /\ \A k \in Module \ {m} : rpc'[k] = rpc[k]
         /\ Holding(m)' => rpc[m] = "popped"
         /\ ~Holding(m)' => rpc[m] # "popped"
<1>0. rpc \in [Module -> {"idle", "wait", "woken", "pop", "popped",
                          "have", "empty", "again"}]
  BY DEF TypeOK, ReadsOK
<1>1. CASE FbRead(m) \/ FbWait(m) \/ FbUnplug(m) \/ FbGood(m)
  BY <1>0, <1>1 DEF FbRead, FbWait, FbUnplug, FbGood, Step, Holding
<1>2. CASE FbTimeout(m)
  <2>1. frame[m] = NoFrame
    BY <1>2 DEF FbTimeout, Step, LocalFrame, Good
  <2>2. QED
    BY <1>0, <1>2, <2>1 DEF FbTimeout, Step, Return, Holding
<1>3. CASE FbWoken(m) \/ FbAgain(m)
  <2>1. rpc[m] \in {"woken", "again"}
    BY <1>3 DEF FbWoken, FbAgain, Step
  <2>2. ~enable[m] => frame[m] = NoFrame
    BY <2>1 DEF LocalFrame, Good, FlagsStay, OneOfThem
  <2>3. QED
    BY <1>0, <1>3, <2>1, <2>2 DEF FbWoken, FbAgain, Step, Return, Holding
<1>4. QED
  BY <1>1, <1>2, <1>3 DEF Unlocked

LEMMA MarksStep ==
  ASSUME OneOfThem, TypeOK, OnePlace, LocalFrame, FlagsStay, BitsNested, HeldMarked,
         [Next]_vars
  PROVE  BitsNested' /\ HeldMarked'
<1>1. CASE Quiet
  BY <1>1, QuietMarks
<1>2. ASSUME NEW m \in Module, FbBad(m) \/ FbFree(m) PROVE BitsNested' /\ HeldMarked'
  BY <1>2, FreeMarks
<1>3. ASSUME NEW m \in Module, FbPop(m) PROVE BitsNested' /\ HeldMarked'
  BY <1>3, PopMarks
<1>4. ASSUME UNCHANGED <<ready, read_mask, free_mask>>,
             \A m \in Module : Holding(m)' => Holding(m) /\ frame'[m] = frame[m]
      PROVE  BitsNested' /\ HeldMarked'
  BY <1>4 DEF BitsNested, HeldMarked
<1>5. CASE Push \/ UNCHANGED vars
  BY <1>4, <1>5 DEF Push, PushNotify, PushLoad, PushStore, vars, lists, nodes,
     reads, Holding
<1>6. ASSUME NEW m \in Module,
             FbPopNull(m) \/ Unlocked(m) \/ FbRegister(m) \/ FbDeregister(m)
      PROVE  BitsNested' /\ HeldMarked'
  <2>1. UNCHANGED <<ready, read_mask, free_mask>>
    BY <1>6, UnlockedStep DEF FbPopNull, readOnly, FbRegister, FbDeregister,
       lists, nodes
  <2>2. CASE FbRegister(m) \/ FbDeregister(m)
    BY <1>4, <2>1, <2>2 DEF FbRegister, FbDeregister, reads, Holding
  <2>3. CASE FbPopNull(m) \/ Unlocked(m)
    <3>1. CASE FbPopNull(m)
      BY <1>4, <2>1, <3>1 DEF FbPopNull, Step, Holding, TypeOK, ReadsOK
    <3>2. CASE Unlocked(m)
      <4>1. \A k \in Module : Holding(k)' => Holding(k)
        BY <3>2, NoStale DEF Holding
      <4>2. QED
        BY <1>4, <2>1, <3>2, <4>1, UnlockedStep
    <3>3. QED
      BY <2>3, <3>1, <3>2
  <2>4. QED
    BY <1>6, <2>2, <2>3
<1>7. QED
  BY <1>1, <1>2, <1>3, <1>5, <1>6 DEF Next, Quiet, Locked

LEMMA LocalStep ==
  ASSUME OneOfThem, TypeOK, OnePlace, LocalFrame, FlagsStay, BitsNested, HeldMarked,
         [Next]_vars
  PROVE  LocalFrame'
<1>0. /\ rpc \in [Module -> {"idle", "wait", "woken", "pop", "popped",
                             "have", "empty", "again"}]
      /\ frame \in [Module -> Node \cup {NoFrame}]
      /\ handle \in [Module -> BOOLEAN] /\ enable \in [Module -> BOOLEAN]
  BY DEF TypeOK, ReadsOK, ModsOK
<1>1. \A m \in Module : Good(m)
  BY DEF LocalFrame
<1>2. ASSUME UNCHANGED <<rpc, frame>>, \A m \in Module : handle[m] => handle'[m]
      PROVE  LocalFrame'
  BY <1>1, <1>2 DEF LocalFrame, Good, Holding
<1>3. CASE Quiet
  BY <1>2, <1>3, QuietStep DEF mods, reads
<1>4. CASE Push \/ UNCHANGED vars
  BY <1>0, <1>2, <1>4 DEF Push, PushNotify, PushLoad, PushStore, vars, mods, reads
<1>5. ASSUME NEW m \in Module, FbRegister(m) \/ FbDeregister(m) PROVE LocalFrame'
  BY <1>0, <1>2, <1>5 DEF FbRegister, FbDeregister, reads
<1>6. ASSUME NEW m \in Module, Good(m)',
             \A k \in Module \ {m} : /\ rpc'[k] = rpc[k] /\ frame'[k] = frame[k]
                                     /\ handle'[k] = handle[k]
      PROVE  LocalFrame'
  <2>1. ASSUME NEW k \in Module \ {m} PROVE Good(k)'
    BY <1>1, <1>6, <2>1 DEF Good, Holding
  <2>2. QED
    BY <1>6, <2>1 DEF LocalFrame
<1>7. ASSUME NEW m \in Module, FbBad(m) PROVE LocalFrame'
  <2>1. Complete(m) /\ frame[m] \in Node /\ Holding(m)
    BY <1>1, <1>7, FreeMarks DEF Good
  <2>2. Clears /\ enable[m]
    BY <1>7, <2>1 DEF FbBad, FlagsStay, Step, OneOfThem
  <2>3. handle'[m] /\ \A k \in Module \ {m} : handle'[k] = handle[k]
    BY <1>0, <2>1, <2>2 DEF Complete
  <2>4. QED
    BY <1>0, <1>6, <1>7, <2>2, <2>3 DEF FbBad, Step, Good, Holding
<1>8. ASSUME NEW m \in Module, FbFree(m) PROVE LocalFrame'
  <2>1. Complete(m)
    BY <1>8, FreeMarks
  <2>2. \A k \in Module \ {m} : handle'[k] = handle[k]
    BY <1>0, <2>1 DEF Complete
  <2>3. QED
    BY <1>0, <1>6, <1>8, <2>2 DEF FbFree, Step, Good, Holding
<1>9. ASSUME NEW m \in Module, FbPop(m) PROVE LocalFrame'
  <2>1. PICK n \in R : frame' = [frame EXCEPT ![m] = n]
    BY <1>9, PopMarks
  <2>2. n \in Node
    BY SetsOfNodes
  <2>3. QED
    BY <1>0, <1>6, <1>9, <2>1, <2>2 DEF FbPop, Step, mods, Good, Holding
<1>10. ASSUME NEW m \in Module, FbPopNull(m) PROVE LocalFrame'
  BY <1>0, <1>6, <1>10 DEF FbPopNull, Step, readOnly, mods, Good, Holding
<1>11. ASSUME NEW m \in Module, Unlocked(m) PROVE LocalFrame'
  <2>1. frame' = frame /\ \A k \in Module \ {m} : rpc'[k] = rpc[k]
    BY <1>11, UnlockedStep, NoStale
  <2>2. \A k \in Module \ {m} : handle'[k] = handle[k]
    BY <1>0, <1>11 DEF Unlocked, FbRead, FbWait, FbTimeout, FbWoken,
       FbUnplug, FbGood, FbAgain, readOnly, mods
  <2>3. Good(m)
    BY <1>1
  <2>4. CASE FbRead(m) \/ FbWait(m) \/ FbUnplug(m) \/ FbGood(m)
    <3>1. Good(m)'
      BY <1>0, <2>1, <2>3, <2>4 DEF FbRead, FbWait, FbUnplug, FbGood, Step, Good,
         Holding
    <3>2. QED
      BY <1>6, <2>1, <2>2, <3>1
  <2>5. CASE FbTimeout(m)
    <3>1. frame[m] = NoFrame
      BY <2>3, <2>5 DEF FbTimeout, Step, Good
    <3>2. Good(m)'
      BY <1>0, <2>1, <2>5, <3>1 DEF FbTimeout, Step, Return, Good, Holding
    <3>3. QED
      BY <1>6, <2>1, <2>2, <3>2
  <2>6. CASE FbWoken(m) \/ FbAgain(m)
    <3>1. rpc[m] \in {"woken", "again"} /\ (~enable[m] => frame[m] = NoFrame)
      BY <2>3, <2>6 DEF FbWoken, FbAgain, Step, Good, FlagsStay, OneOfThem
    <3>2. UNCHANGED handle
      BY <2>6 DEF FbWoken, FbAgain, readOnly, mods
    <3>3. Good(m)'
      BY <1>0, <2>1, <2>3, <2>6, <3>1, <3>2 DEF FbWoken, FbAgain, Step, Return, Good,
         Holding
    <3>4. QED
      BY <1>6, <2>1, <2>2, <3>3
  <2>7. QED
    BY <1>11, <2>4, <2>5, <2>6 DEF Unlocked
<1>12. QED
  BY <1>3, <1>4, <1>5, <1>7, <1>8, <1>9, <1>10, <1>11 DEF Next, Quiet, Locked

(* Only fb_clear marks frames bad; only fb_deregister disables a module.   *)
LEMMA FlagsStep ==
  ASSUME TypeOK, OnePlace, FlagsStay, [Next]_vars PROVE FlagsStay'
<1>0. /\ rpc \in [Module -> {"idle", "wait", "woken", "pop", "popped",
                             "have", "empty", "again"}]
      /\ enable \in [Module -> BOOLEAN] /\ err_state \in [Node -> BOOLEAN]
  BY DEF TypeOK, ReadsOK, ModsOK, NodesOK
<1>1. ASSUME ~Clears, NEW n \in Node PROVE ~err_state'[n]
  <2>1. ~err_state[n]
    BY <1>1 DEF FlagsStay
  <2>2. CASE UNCHANGED err_state
    BY <2>1, <2>2
  <2>3. CASE FbInit
    BY <2>1, <2>3, FbInitEffect DEF Zeroed
  <2>4. CASE MallocFree \/ MallocEvict
    <3>1. PICK k \in F \cup R : Take(k)
      BY <2>4, MallocFreeEffect, MallocEvictEffect
    <3>2. QED
      BY <1>0, <2>1, <3>1 DEF Take
  <2>5. CASE UNCHANGED nodes
    BY <2>2, <2>5 DEF nodes
  <2>6. CASE FbDeinit \/ MallocNull \/ MallocFailed \/ Push \/ UNCHANGED vars
    BY <2>2, <2>6 DEF FbDeinit, MallocNull, MallocFailed, Push, PushNotify, PushLoad,
       PushStore, vars, nodes
  <2>7. CASE \E k \in Node : FbPush(k) \/ DirectFree(k)
    BY <2>2, <2>7 DEF FbPush, DirectFree
  <2>8. ASSUME NEW m \in Module,
               Locked(m) \/ Unlocked(m) \/ FbRegister(m) \/ FbDeregister(m)
        PROVE  UNCHANGED err_state
    BY <2>8, UnlockedStep DEF Locked, FbPop, FbPopNull, FbBad, FbFree, FbRegister,
       FbDeregister, readOnly, nodes
  <2>9. QED
    BY <1>1, <2>2, <2>3, <2>4, <2>6, <2>7, <2>8 DEF Next, Lists, Malloc, FbClear
<1>2. ASSUME ~Deregisters
      PROVE  /\ \A m \in Module : rpc'[m] # "idle" => enable'[m]
             /\ ppc' \in {"load", "store"} => enable'[pi']
             /\ ppc' = "store" => pload'
  <2>0. /\ \A m \in Module : rpc[m] # "idle" => enable[m]
        /\ ppc \in {"load", "store"} => enable[pi]
        /\ ppc = "store" => pload
    BY <1>2 DEF FlagsStay
  <2>1. CASE Quiet
    BY <2>0, <2>1, QuietStep DEF mods, reads
  <2>2. CASE PushNotify
    BY <2>0, <2>2 DEF PushNotify, NextModule, reads
  <2>3. CASE PushLoad
    BY <2>0, <2>3 DEF PushLoad, mods, reads
  <2>4. CASE PushStore
    BY <1>0, <2>0, <2>4 DEF PushStore, NextModule, reads
  <2>5. ASSUME NEW m \in Module, FbRegister(m) \/ FbDeregister(m)
        PROVE  /\ UNCHANGED <<reads, prod>>
               /\ \A k \in Module : enable[k] => enable'[k]
    BY <1>0, <1>2, <2>5 DEF FbRegister, FbDeregister
  <2>6. ASSUME NEW m \in Module, Locked(m) \/ Unlocked(m)
        PROVE  /\ UNCHANGED <<prod, enable>>
               /\ \A k \in Module \ {m} : rpc'[k] = rpc[k]
               /\ rpc[m] # "idle" \/ enable[m]
    <3>1. CASE Locked(m)
      BY <1>0, <3>1 DEF Locked, FbPop, FbPopNull, FbBad, FbFree, Step, readOnly, mods
    <3>2. CASE Unlocked(m)
      BY <1>0, <3>2, UnlockedStep DEF Unlocked, FbRead, FbWait, FbTimeout, FbWoken,
         FbUnplug, FbGood, FbAgain, Step
    <3>3. QED
      BY <2>6, <3>1, <3>2
  <2>7. ASSUME NEW m \in Module, FbRegister(m) \/ FbDeregister(m)
        PROVE  /\ \A k \in Module : rpc'[k] # "idle" => enable'[k]
               /\ ppc' \in {"load", "store"} => enable'[pi']
               /\ ppc' = "store" => pload'
    BY <2>0, <2>5, <2>7 DEF reads, prod, TypeOK, ProdOK
  <2>8. ASSUME NEW m \in Module, Locked(m) \/ Unlocked(m)
        PROVE  /\ \A k \in Module : rpc'[k] # "idle" => enable'[k]
               /\ ppc' \in {"load", "store"} => enable'[pi']
               /\ ppc' = "store" => pload'
    BY <2>0, <2>6, <2>8 DEF prod
  <2>9. CASE UNCHANGED vars
    BY <2>0, <2>9 DEF vars, mods, reads, prod
  <2>10. QED
    BY <2>1, <2>2, <2>3, <2>4, <2>7, <2>8, <2>9 DEF Next, Quiet, Push
<1>3. QED
  BY <1>1, <1>2 DEF FlagsStay

(* Nobody falls asleep unarmed.                                            *)
Alert(m) == enable[m] /\ plugin[m] => handle[m] \/ rpc[m] \in Looking
Noted(m) == enable[m] /\ (handle[m] \/ rpc[m] \in {"woken", "pop"})

LEMMA ArmedStep ==
  ASSUME TypeOK, OnePlace, BitsNested, HeldMarked, Armed, [Next]_vars
  PROVE  Armed'
<1>0. /\ rpc \in [Module -> {"idle", "wait", "woken", "pop", "popped",
                             "have", "empty", "again"}]
      /\ enable \in [Module -> BOOLEAN] /\ plugin \in [Module -> BOOLEAN]
      /\ handle \in [Module -> BOOLEAN] /\ register_mask \in SUBSET Module
      /\ pi \in Module
  BY DEF TypeOK, ReadsOK, ModsOK, ProdOK
<1>1. /\ \A k \in register_mask : Alert(k)
      /\ ppc \in {"load", "store"} /\ pi \in register_mask => Noted(pi)
  BY DEF Armed, Alert, Noted
<1>2. ASSUME \A k \in register_mask' : Alert(k)',
             ppc' \in {"load", "store"} /\ pi' \in register_mask' => Noted(pi)'
      PROVE  Armed'
  BY <1>2 DEF Armed, Alert, Noted
<1>3. CASE Quiet
  BY <1>1, <1>2, <1>3, QuietStep DEF mods, reads, Alert, Noted
<1>4. CASE PushNotify
  <2>1. \A k \in Module : Alert(k) => Alert(k)'
    BY <1>0, <1>4 DEF PushNotify, Alert, reads
  <2>2. ppc' \in {"load", "store"} => Noted(pi)'
    BY <1>0, <1>4 DEF PushNotify, NextModule, Noted
  <2>3. UNCHANGED register_mask
    BY <1>4 DEF PushNotify
  <2>4. QED
    BY <1>0, <1>1, <1>2, <2>1, <2>2, <2>3
<1>5. CASE PushLoad
  BY <1>1, <1>2, <1>5 DEF PushLoad, mods, reads, Alert, Noted
<1>6. CASE PushStore
  <2>1. ppc' \notin {"load", "store"}
    BY <1>6 DEF PushStore, NextModule
  <2>2. \A k \in Module \ {pi} : Alert(k) => Alert(k)'
    BY <1>0, <1>6 DEF PushStore, Alert, reads
  <2>3. ASSUME NEW k \in Module, k = pi, Noted(k) PROVE Alert(k)'
    BY <2>3, <1>0, <1>6 DEF PushStore, Alert, Noted, Looking, reads
  <2>4. UNCHANGED register_mask /\ ppc = "store"
    BY <1>6 DEF PushStore
  <2>5. QED
    BY <1>0, <1>1, <1>2, <2>1, <2>2, <2>3, <2>4
<1>7. ASSUME NEW m \in Module, FbRegister(m) \/ FbDeregister(m) PROVE Armed'
  <2>1. /\ UNCHANGED <<rpc, ppc, pi>> /\ handle'[m]
        /\ \A k \in Module \ {m} : /\ handle'[k] = handle[k] /\ enable'[k] = enable[k]
                                    /\ plugin'[k] = plugin[k]
    BY <1>0, <1>7 DEF FbRegister, FbDeregister, reads, prod
  <2>2. \A k \in Module \ {m} : Alert(k)' = Alert(k) /\ (Noted(k) => Noted(k)')
    BY <2>1 DEF Alert, Noted
  <2>3. Alert(m)'
    BY <2>1 DEF Alert
  <2>4. CASE FbRegister(m)
    <3>1. Noted(m)' /\ register_mask' = register_mask \cup {m}
      BY <1>0, <2>1, <2>4 DEF FbRegister, Noted
    <3>2. pi = m => (ppc' \in {"load", "store"} /\ pi' \in register_mask' => Noted(pi)')
      BY <2>1, <3>1 DEF Noted
    <3>3. pi # m => (ppc' \in {"load", "store"} /\ pi' \in register_mask' => Noted(pi)')
      BY <1>0, <1>1, <2>1, <3>1 DEF Noted
    <3>4. QED
      BY <1>0, <1>1, <1>2, <2>2, <2>3, <3>1, <3>2, <3>3
  <2>5. CASE FbDeregister(m)
    <3>1. register_mask' = register_mask \ {m}
      BY <2>5 DEF FbDeregister
    <3>2. ppc' \in {"load", "store"} /\ pi' \in register_mask' => Noted(pi)'
      BY <1>0, <1>1, <2>1, <3>1 DEF Noted
    <3>3. QED
      BY <1>0, <1>1, <1>2, <2>2, <3>1, <3>2
  <2>6. QED
    BY <1>7, <2>4, <2>5
<1>8. ASSUME NEW m \in Module, UNCHANGED <<enable, register_mask, ppc, pi>>,
             \A k \in Module \ {m} : /\ rpc'[k] = rpc[k] /\ handle'[k] = handle[k]
                                     /\ plugin'[k] = plugin[k],
             Alert(m) => Alert(m)',
             pi = m /\ ppc \in {"load", "store"} /\ Noted(m) => Noted(m)'
      PROVE  Armed'
  <2>1. \A k \in Module \ {m} : (Alert(k) => Alert(k)') /\ (Noted(k) => Noted(k)')
    BY <1>8 DEF Alert, Noted
  <2>2. pi = m => Noted(pi)' = Noted(m)'
    BY <1>8 DEF Noted
  <2>3. pi # m /\ Noted(pi) => Noted(pi)'
    BY <1>0, <1>8 DEF Noted
  <2>4. QED
    BY <1>0, <1>1, <1>2, <1>8, <2>1, <2>2, <2>3
<1>9. ASSUME NEW m \in Module, Locked(m) PROVE Armed'
  <2>1. ~Pushing /\ UNCHANGED <<plugin, enable, register_mask, ppc, pi>>
    BY <1>9 DEF Locked, FbPop, FbPopNull, FbBad, FbFree, readOnly, mods, prod
  <2>2. \A k \in Module \ {m} : rpc'[k] = rpc[k] /\ handle'[k] = handle[k]
    <3>1. CASE FbPop(m) \/ FbPopNull(m)
      BY <1>0, <3>1 DEF FbPop, FbPopNull, Step, readOnly, mods
    <3>2. CASE FbBad(m) \/ FbFree(m)
      BY <1>0, <3>2, FreeMarks DEF FbBad, FbFree, Step, Complete
    <3>3. QED
      BY <1>9, <3>1, <3>2 DEF Locked
  <2>3. Alert(m) => Alert(m)'
    <3>1. CASE FbPop(m) \/ FbPopNull(m)
      BY <1>0, <3>1 DEF FbPop, FbPopNull, Step, readOnly, mods, Alert, Looking
    <3>2. CASE FbBad(m) \/ FbFree(m)
      <4>1. Complete(m)
        BY <3>2, FreeMarks
      <4>2. enable[m] => handle'[m]
        BY <1>0, <4>1 DEF Complete
      <4>3. QED
        BY <2>1, <4>2 DEF Alert
    <3>3. QED
      BY <1>9, <3>1, <3>2 DEF Locked
  <2>4. QED
    BY <1>8, <2>1, <2>2, <2>3 DEF Pushing
<1>10. ASSUME NEW m \in Module, Unlocked(m) PROVE Armed'
  <2>1. UNCHANGED <<enable, register_mask, ppc, pi>>
    BY <1>10, UnlockedStep DEF prod
  <2>2. \A k \in Module \ {m} : /\ rpc'[k] = rpc[k] /\ handle'[k] = handle[k]
                                /\ plugin'[k] = plugin[k]
    BY <1>0, <1>10 DEF Unlocked, FbRead, FbWait, FbTimeout, FbWoken, FbUnplug, FbGood,
       FbAgain, Step, readOnly, mods
  <2>3. Alert(m) => Alert(m)'
    BY <1>0, <1>10 DEF Unlocked, FbRead, FbWait, FbTimeout, FbWoken, FbUnplug, FbGood,
       FbAgain, Step, Return, readOnly, mods, Alert, Looking
  <2>4. Noted(m) => Noted(m)'
    BY <1>0, <1>10 DEF Unlocked, FbRead, FbWait, FbTimeout, FbWoken, FbUnplug, FbGood,
       FbAgain, Step, Return, readOnly, mods, Noted
  <2>5. QED
    BY <1>8, <2>1, <2>2, <2>3, <2>4
<1>11. CASE UNCHANGED vars
  BY <1>1, <1>2, <1>11 DEF vars, mods, reads, prod, Alert, Noted
<1>12. QED
  BY <1>3, <1>4, <1>5, <1>6, <1>7, <1>9, <1>10, <1>11 DEF Next, Quiet, Push

-----------------------------------------------------------------------------
LEMMA InitInv == Init => IInv
<1> SUFFICES ASSUME Init PROVE IInv
  OBVIOUS
<1>1. <<>> \in Seq(Node) /\ ToSet(<<>>) = {} /\ IsInjective(<<>>) /\ 1 \in Module
  BY ConstAssumption DEF ToSet, IsInjective, Module
<1>2. TypeOK
  BY <1>1 DEF Init, TypeOK, ListsOK, NodesOK, ModsOK, ReadsOK, ProdOK
<1>3. OnePlace
  BY <1>1 DEF Init, OnePlace, OnList
<1>4. LocalFrame /\ HeldMarked
  BY DEF Init, LocalFrame, Good, HeldMarked, Holding
<1>5. FlagsStay /\ BitsNested /\ Armed
  BY <1>1 DEF Init, FlagsStay, BitsNested, Armed
<1>6. QED
  BY <1>2, <1>3, <1>4, <1>5 DEF IInv

LEMMA StepInv == OneOfThem /\ IInv /\ [Next]_vars => IInv'
<1> SUFFICES ASSUME OneOfThem, IInv, [Next]_vars PROVE IInv'
  OBVIOUS
<1>1. /\ TypeOK /\ OnePlace /\ LocalFrame /\ FlagsStay /\ BitsNested
      /\ HeldMarked /\ Armed
  BY DEF IInv
<1>2. TypeOK' /\ OnePlace' /\ LocalFrame'
  BY <1>1, TypeStep, OnePlaceStep, LocalStep
<1>3. FlagsStay' /\ BitsNested' /\ HeldMarked' /\ Armed'
  BY <1>1, FlagsStep, MarksStep, ArmedStep
<1>4. QED
  BY <1>2, <1>3 DEF IInv

(* The inductive invariant holds in every reachable state.                 *)
THEOREM Invariance == ASSUME OneOfThem PROVE Spec => []IInv
<1>1. OneOfThem
  OBVIOUS
<1>2. IInv /\ [Next]_vars => IInv'
  BY <1>1, StepInv
<1>3. QED
  BY <1>2, InitInv, PTL DEF Spec

(* Every variable of the shared lists keeps its type.                      *)
THEOREM TypeCorrect == ASSUME OneOfThem PROVE Spec => []TypeOK
BY Invariance, PTL DEF IInv

(* list_add_tail never links a node that is already linked, and nobody     *)
(* finds in a list the frame that the producer is filling.                 *)
THEOREM NoDoubleLink == ASSUME OneOfThem PROVE Spec => []OnePlace
BY Invariance, PTL DEF IInv

(* A frame that some module has from frame_buffer_fb_read stays on the     *)
(* ready list, marked, whatever the producer and the other modules do.     *)
THEOREM HeldFramesKept == ASSUME OneOfThem PROVE Spec => []HeldMarked
BY Invariance, PTL DEF IInv

(* A registered module never sleeps on a clear bit with plugin set: the    *)
(* next push notifies it.                                                  *)
THEOREM NoSilentSleep == ASSUME OneOfThem PROVE Spec => []SleeperIsArmed
<1>1. IInv => SleeperIsArmed
  BY DEF IInv, Armed, Looking, SleeperIsArmed
<1>2. QED
  BY <1>1, Invariance, PTL
-----------------------------------------------------------------------------
(***************************************************************************)
(* The lists implement the ownership of FrameOwner.                         *)
(***************************************************************************)
P  == [n \in Node |-> Place(n)]
Rd == [n \in Node |-> {m \in Module : Holding(m) /\ frame[m] = n}]

(* What the abstract variables need of a step: which frames moved, and      *)
(* that nobody picked a frame up or put one down.                           *)
LEMMA MoveTo ==
  ASSUME NEW S \in SUBSET Node, NEW to, \A n \in S : Place(n)' = to,
         \A n \in Node \ S : Place(n)' = Place(n)
  PROVE  Owner!Move(S, to)
BY DEF Owner!Move

LEMMA SamePlaces ==
  ASSUME F' = F, R' = R, held' = held PROVE P' = P
BY DEF P, Place, F, R

LEMMA SameReaders ==
  ASSUME \A m \in Module : Holding(m)' = Holding(m),
         \A m \in Module : Holding(m) => frame'[m] = frame[m]
  PROVE  Rd' = Rd
BY DEF Rd

LEMMA Holders ==
  ASSUME OnePlace, HeldMarked, NEW m \in Module, Holding(m)
  PROVE  /\ frame[m] \in R /\ frame[m] \notin F /\ frame[m] \notin held
         /\ frame[m] \notin Reusable
BY DEF HeldMarked, OnePlace, OnList, F, R, Reusable

(* The steps of the list's owner and of the producer.                       *)
LEMMA QuietRefines ==
  ASSUME IInv, Quiet PROVE [Owner!ONext]_<<P, Rd>>
<1>0. /\ TypeOK /\ OnePlace /\ HeldMarked
      /\ F \in SUBSET Node /\ R \in SUBSET Node /\ held \in SUBSET Node
      /\ F \cap R = {} /\ F \cap held = {} /\ R \cap held = {}
  BY SetsOfNodes DEF IInv, OnePlace, OnList, F, R
<1>1. Rd' = Rd
  BY QuietStep, SameReaders DEF reads, Holding
<1>2. \A n \in Node \ R : Rd[n] = {}
  BY <1>0, Holders DEF Rd
<1>3. CASE FbInit
  <2>1. PICK s \in Seq(Node) : /\ ToSet(s) \cap (F \cup R \cup held) = {}
                               /\ F' = F \cup ToSet(s)
    BY <1>0, <1>3, FbInitEffect
  <2>2. R' = R /\ held' = held /\ ToSet(s) \in SUBSET Node
    BY <1>0, <1>3, FbInitEffect DEF ToSet
  <2>3. \A n \in ToSet(s) : P[n] = "gone"
    BY <2>1, <2>2 DEF P, Place, F, R
  <2>4. Owner!Move(ToSet(s), "free")
    <3>1. /\ \A n \in ToSet(s) : Place(n)' = "free"
          /\ \A n \in Node \ ToSet(s) : Place(n)' = Place(n)
      BY <2>1, <2>2 DEF Place, F, R
    <3>2. QED
      BY <2>2, <3>1, MoveTo
  <2>5. Owner!Create(ToSet(s))
    BY <1>1, <2>2, <2>3, <2>4 DEF Owner!Create, P, Rd
  <2>6. QED
    BY <2>2, <2>5 DEF Owner!ONext
<1>4. CASE FbDeinit
  <2>1. F' = {} /\ R' = {} /\ held' = held /\ \A m \in Module : ~Holding(m)
    BY <1>4 DEF FbDeinit, F, R, ToSet, prod
  <2>2. Owner!Move(F \cup R, "gone")
    <3>1. /\ \A n \in F \cup R : Place(n)' = "gone"
          /\ \A n \in Node \ (F \cup R) : Place(n)' = Place(n)
      BY <1>0, <2>1 DEF Place, F, R
    <3>2. QED
      BY <1>0, <3>1, MoveTo
  <2>3. \A n \in F \cup R : P[n] \in {"free", "ready"} /\ Rd[n] = {}
    BY <1>0, <2>1 DEF P, Rd, Place, F, R
  <2>4. Owner!Destroy(F \cup R)
    BY <1>0, <1>1, <2>2, <2>3 DEF Owner!Destroy, P, Rd
  <2>5. QED
    BY <1>0, <2>4 DEF Owner!ONext
<1>5. CASE FbClear \/ MallocFailed
  <2>1. F' = F /\ R' = R /\ held' = held
    BY <1>5 DEF FbClear, MallocFailed, lists, prod, F, R
  <2>2. QED
    BY <1>1, <2>1, SamePlaces
<1>6. CASE MallocNull
  <2>1. F' = F /\ R' = R /\ held' = held
    BY <1>0, <1>6, MallocNullEffect DEF MallocNull
  <2>2. QED
    BY <1>1, <2>1, SamePlaces
<1>7. ASSUME NEW n \in F \cup R, Rd[n] = {}, held' = held \cup {n},
             F' = F \ {n}, R' = R \ {n}
      PROVE  [Owner!ONext]_<<P, Rd>>
  <2>1. n \in Node /\ P[n] \in {"free", "ready"}
    BY <1>0, <1>7 DEF P, Place, F, R
  <2>2. Owner!Move({n}, "held")
    <3>1. Place(n)' = "held" /\ \A k \in Node \ {n} : Place(k)' = Place(k)
      BY <1>7 DEF Place, F, R
    <3>2. QED
      BY <2>1, <3>1, MoveTo
  <2>3. Owner!Acquire(n)
    BY <1>1, <1>7, <2>1, <2>2 DEF Owner!Acquire, P, Rd
  <2>4. QED
    BY <2>1, <2>3 DEF Owner!ONext
<1>8. CASE MallocFree
  <2>1. PICK n \in F : F' = F \ {n} /\ Take(n)
    BY <1>0, <1>8, MallocFreeEffect
  <2>2. R' = R /\ held' = held \cup {n} /\ n \notin R
    BY <1>0, <1>8, <2>1, MallocFreeEffect DEF Take
  <2>3. QED
    BY <1>0, <1>2, <1>7, <2>1, <2>2
<1>9. CASE MallocEvict
  <2>1. PICK n \in R : R' = R \ {n} /\ n \in Reusable /\ Take(n)
    BY <1>0, <1>9, MallocEvictEffect
  <2>2. F' = F /\ held' = held \cup {n} /\ n \notin F
    BY <1>0, <1>9, <2>1, MallocEvictEffect DEF Take
  <2>3. Rd[n] = {}
    BY <1>0, <2>1, Holders DEF Rd
  <2>4. QED
    BY <1>7, <2>1, <2>2, <2>3
<1>10. ASSUME NEW n \in Node, FbPush(n) PROVE [Owner!ONext]_<<P, Rd>>
  <2>1. /\ F' = F /\ R' = R \cup {n} /\ n \in held /\ held' = held \ {n}
    BY <1>0, <1>10, FbPushEffect DEF FbPush
  <2>2. Owner!Move({n}, "ready")
    <3>1. Place(n)' = "ready" /\ \A k \in Node \ {n} : Place(k)' = Place(k)
      BY <1>0, <2>1 DEF Place, F, R
    <3>2. QED
      BY <3>1, MoveTo
  <2>3. P[n] = "held"
    BY <2>1 DEF P, Place
  <2>4. Owner!Publish(n)
    BY <1>1, <2>2, <2>3 DEF Owner!Publish, P, Rd
  <2>5. QED
    BY <2>4 DEF Owner!ONext
<1>11. ASSUME NEW n \in Node, DirectFree(n) PROVE [Owner!ONext]_<<P, Rd>>
  <2>1. /\ F' = F \cup {n} /\ R' = R /\ n \in held /\ held' = held \ {n}
    BY <1>0, <1>11, DirectFreeEffect DEF DirectFree
  <2>2. Owner!Move({n}, "free")
    <3>1. Place(n)' = "free" /\ \A k \in Node \ {n} : Place(k)' = Place(k)
      BY <1>0, <2>1 DEF Place, F, R
    <3>2. QED
      BY <3>1, MoveTo
  <2>3. P[n] = "held"
    BY <2>1 DEF P, Place
  <2>4. Owner!Discard(n)
    BY <1>1, <2>2, <2>3 DEF Owner!Discard, P, Rd
  <2>5. QED
    BY <2>4 DEF Owner!ONext
<1>12. QED
  BY <1>3, <1>4, <1>5, <1>6, <1>8, <1>9, <1>10, <1>11 DEF Quiet, Lists, Malloc

(* The steps of a module that has popped, or gives a frame back.            *)
LEMMA PopRefines ==
  ASSUME IInv, NEW m \in Module, FbPop(m) PROVE [Owner!ONext]_<<P, Rd>>
<1>0. /\ TypeOK /\ OnePlace /\ BitsNested /\ HeldMarked
      /\ rpc \in [Module -> {"idle", "wait", "woken", "pop", "popped",
                             "have", "empty", "again"}]
      /\ frame \in [Module -> Node \cup {NoFrame}]
  BY DEF IInv, TypeOK, ReadsOK
<1>1. PICK n \in R : frame' = [frame EXCEPT ![m] = n]
  BY <1>0, PopMarks
<1>2. n \in Node /\ P[n] = "ready"
  BY <1>0, SetsOfNodes DEF P, Place, OnePlace, OnList, F, R
<1>3. ~Holding(m) /\ Holding(m)'
  BY <1>0 DEF FbPop, Step, Holding
<1>4. \A k \in Module \ {m} : Holding(k)' = Holding(k) /\ frame'[k] = frame[k]
  BY <1>0, <1>1 DEF FbPop, Step, Holding
<1>5. Rd' = [Rd EXCEPT ![n] = @ \cup {m}] /\ m \notin Rd[n]
  <2>1. frame'[m] = n
    BY <1>0, <1>1
  <2>2. ASSUME NEW x \in Node PROVE Rd'[x] = IF x = n THEN Rd[x] \cup {m} ELSE Rd[x]
    BY <1>3, <1>4, <2>1 DEF Rd
  <2>3. QED
    BY <1>2, <1>3, <2>2 DEF Rd
<1>6. P' = P
  BY SamePlaces DEF FbPop, lists, prod, F, R
<1>7. Owner!Borrow(n, m)
  BY <1>2, <1>5, <1>6 DEF Owner!Borrow, P, Rd
<1>8. QED
  BY <1>2, <1>7 DEF Owner!ONext

LEMMA FreeRefines ==
  ASSUME IInv, NEW m \in Module, FbBad(m) \/ FbFree(m)
  PROVE  [Owner!ONext]_<<P, Rd>>
<1>0. /\ TypeOK /\ OnePlace /\ BitsNested /\ HeldMarked
      /\ rpc \in [Module -> {"idle", "wait", "woken", "pop", "popped",
                             "have", "empty", "again"}]
      /\ frame \in [Module -> Node \cup {NoFrame}]
  BY DEF IInv, TypeOK, ReadsOK
<1>1. PICK n \in R : n = frame[m]
  BY <1>0, FreeMarks
<1>2. Holding(m) /\ n = frame[m] /\ (Shared(n, m) \/ Returned(n, m)) /\ held' = held
  BY <1>0, <1>1, FreeMarks DEF FbBad, FbFree, prod
<1>3. n \in Node /\ P[n] = "ready"
  BY <1>0, <1>1, SetsOfNodes DEF P, Place, OnePlace, OnList, F, R
<1>4. ~Holding(m)' /\ \A k \in Module \ {m} : Holding(k)' = Holding(k)
                                              /\ frame'[k] = frame[k]
  BY <1>0 DEF FbBad, FbFree, Step, Holding
<1>5. Rd' = [Rd EXCEPT ![n] = @ \ {m}] /\ m \in Rd[n]
  <2>1. ASSUME NEW x \in Node PROVE Rd'[x] = IF x = n THEN Rd[x] \ {m} ELSE Rd[x]
    <3>1. \A k \in Module \ {m} :
             (Holding(k)' /\ frame'[k] = x) = (Holding(k) /\ frame[k] = x)
      BY <1>4
    <3>2. (Holding(m) /\ frame[m] = x) = (x = n)
      BY <1>2
    <3>3. CASE x = n
      BY <1>4, <3>1, <3>2, <3>3 DEF Rd
    <3>4. CASE x # n
      BY <1>4, <3>1, <3>2, <3>4 DEF Rd
    <3>5. QED
      BY <3>3, <3>4
  <2>2. m \in Rd[n]
    BY <1>2, <1>3 DEF Rd
  <2>3. Rd = [x \in Node |-> Rd[x]] /\ Rd' = [x \in Node |-> Rd'[x]]
    BY DEF Rd
  <2>4. QED
    BY <1>3, <2>1, <2>2, <2>3
<1>6. CASE Shared(n, m)
  <2>1. P' = P
    BY <1>2, <1>6, SamePlaces DEF Shared, F, R
  <2>2. Owner!Release(n, m)
    BY <1>3, <1>5, <2>1 DEF Owner!Release, P, Rd
  <2>3. QED
    BY <1>3, <2>2 DEF Owner!ONext
<1>7. CASE Returned(n, m)
  <2>1. F' = F \cup {n} /\ R' = R \ {n} /\ n \notin held
    BY <1>0, <1>2, <1>1, <1>7, Holders DEF Returned
  <2>2. Owner!Move({n}, "free")
    <3>1. Place(n)' = "free" /\ \A k \in Node \ {n} : Place(k)' = Place(k)
      BY <1>2, <2>1 DEF Place, F, R
    <3>2. QED
      BY <1>3, <3>1, MoveTo
  <2>3. Rd[n] = {m}
    <3>1. \A k \in Module : Holding(k) /\ frame[k] = n => k = m
      BY <1>0, <1>2, <1>7 DEF HeldMarked, Returned, AllDone
    <3>2. QED
      BY <1>3, <1>5, <3>1 DEF Rd
  <2>4. Owner!Release(n, m)
    BY <1>3, <1>5, <2>2, <2>3 DEF Owner!Release, P, Rd
  <2>5. QED
    BY <1>3, <2>4 DEF Owner!ONext
<1>8. QED
  BY <1>2, <1>6, <1>7

LEMMA StepRefines ==
  ASSUME OneOfThem, IInv, [Next]_vars PROVE [Owner!ONext]_<<P, Rd>>
<1>0. /\ TypeOK /\ LocalFrame /\ FlagsStay
      /\ rpc \in [Module -> {"idle", "wait", "woken", "pop", "popped",
                             "have", "empty", "again"}]
      /\ frame \in [Module -> Node \cup {NoFrame}]
  BY DEF IInv, TypeOK, ReadsOK
<1>1. ASSUME UNCHANGED <<lists, held>>, Rd' = Rd PROVE [Owner!ONext]_<<P, Rd>>
  BY <1>1, SamePlaces DEF lists, F, R
<1>2. CASE Push \/ UNCHANGED vars
  <2>1. UNCHANGED <<lists, held, reads>>
    BY <1>2 DEF Push, PushNotify, PushLoad, PushStore, vars, prod
  <2>2. QED
    BY <1>1, <2>1, SameReaders DEF reads, Holding
<1>3. ASSUME NEW m \in Module, FbRegister(m) \/ FbDeregister(m)
      PROVE  [Owner!ONext]_<<P, Rd>>
  <2>1. UNCHANGED <<lists, held, reads>>
    BY <1>3 DEF FbRegister, FbDeregister, prod
  <2>2. QED
    BY <1>1, <2>1, SameReaders DEF reads, Holding
<1>4. ASSUME NEW m \in Module, FbPopNull(m) PROVE [Owner!ONext]_<<P, Rd>>
  <2>1. UNCHANGED <<lists, held>>
    BY <1>4 DEF FbPopNull, readOnly, prod
  <2>2. /\ \A k \in Module : Holding(k)' = Holding(k)
        /\ \A k \in Module : Holding(k) => frame'[k] = frame[k]
    BY <1>0, <1>4 DEF FbPopNull, Step, Holding
  <2>3. QED
    BY <1>1, <2>1, <2>2, SameReaders
<1>5. ASSUME NEW m \in Module, Unlocked(m) PROVE [Owner!ONext]_<<P, Rd>>
  <2>1. UNCHANGED <<lists, held, frame>>
    BY <1>5, UnlockedStep DEF prod
  <2>2. Holding(m)' => Holding(m)
    BY <1>0, <1>5, NoStale DEF Holding
  <2>3. Holding(m) => Holding(m)'
    BY <1>0, <1>5, NoStale DEF Unlocked, FbRead, FbWait, FbTimeout, FbWoken,
       FbUnplug, FbGood, FbAgain, Step, Holding
  <2>4. \A k \in Module : Holding(k)' = Holding(k)
    BY <1>0, <1>5, <2>2, <2>3, NoStale DEF Holding
  <2>5. QED
    BY <1>1, <2>1, <2>4, SameReaders
<1>6. QED
  BY <1>2, <1>3, <1>4, <1>5, QuietRefines, PopRefines, FreeRefines
     DEF Next, Quiet, Locked

(* The frame lists implement the ownership that their users rely on: only   *)
(* a published frame is read, and none that is being read is recycled or    *)
(* refilled.                                                                *)
THEOREM Ownership == ASSUME OneOfThem PROVE Spec => OwnerSpec
<1>0. OneOfThem
  OBVIOUS
<1>1. Init => Owner!OInit
  BY DEF Init, Owner!OInit, Place, Holding, ToSet
<1>2. IInv /\ [Next]_vars => [Owner!ONext]_<<P, Rd>>
  BY <1>0, StepRefines
<1>3. QED
  BY <1>0, <1>1, <1>2, Invariance, PTL
     DEF Spec, OwnerSpec, Owner!OSpec, Owner!ovars, P, Rd
=============================================================================
