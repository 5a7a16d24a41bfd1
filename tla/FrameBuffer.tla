---------------------------- MODULE FrameBuffer ----------------------------
(***************************************************************************)
(* The shared frame lists of comm/frame_buffer.c (mode FB_MEM_SHARED: the   *)
(* JPEG, H264 and H265 lists).  One producer fills frames; every registered *)
(* module reads every pushed frame in place; a frame returns to the free    *)
(* list when each module that read it has freed it.                         *)
(*                                                                          *)
(* One list, its nodes, and the modules registered for its type.  A         *)
(* critical section under mem_list->lock that no other task can observe     *)
(* half way is one action; frame_buffer_fb_push keeps the lock while it     *)
(* walks the modules with interrupts enabled, so its walk is one step per   *)
(* access to a module's flags.                                              *)
(***************************************************************************)
EXTENDS Integers, FiniteSets, SequencesExt

CONSTANTS
    Node,         \* the heap blocks a frame_buffer_node_t can occupy
    NoFrame,      \* NULL
    Modules,      \* number of frame_module_t values in use
    Count,        \* fb_count[type]
    HoldMax,      \* frames the producer keeps at a time (bound)
    Evicts,       \* dual_malloc, or fb_malloc of a type other than H264
    PsramFails,   \* the psram heap may run out
    UseDisabled,  \* the list is also used after a failed fb_init, or a frame
                  \* is pushed after fb_deinit
    Clears,       \* fb_clear is called
    Deregisters   \* fb_deregister is called

ASSUME ConstAssumption ==
    /\ NoFrame \notin Node
    /\ Modules \in Nat \ {0}
    /\ Count \in Nat \ {0}
    /\ HoldMax \in Nat \ {0}
    /\ {Evicts, PsramFails, UseDisabled, Clears, Deregisters} \subseteq BOOLEAN

Module == 1..Modules

VARIABLES
    free, ready,            \* the two lists of fb_mem_list_t
    list_enable,            \* mem_list->enable
    read_mask, free_mask,   \* per node: the modules whose bit is set
    error, base_addr,       \* per node: psram was refused / is allocated
    err_state,              \* per node: the frame is marked bad
    enable, plugin,         \* the two bit-fields of fb_mod_t
    register_mask,          \* fb_info->register_mask[type]
    handle,                 \* FRAME_BUFFER_READ_COMPLETE of each module
    rpc, frame,             \* each module's fb_read: where it is, its local
    ppc, pi, pload,         \* the producer's fb_push: where, i, a loaded byte
    held                    \* nodes off the lists, in the producer's hands

lists == <<free, ready, list_enable>>
nodes == <<read_mask, free_mask, error, base_addr, err_state>>
mods  == <<enable, plugin, register_mask, handle>>
reads == <<rpc, frame>>
prod  == <<ppc, pi, pload, held>>
vars  == <<lists, nodes, mods, reads, prod>>

Pushing == ppc \in {"notify", "load", "store"}   \* mem_list->lock is taken
OnList  == ToSet(free) \cup ToSet(ready)
Holding(m) == rpc[m] \in {"popped", "have"}      \* frame[m] is in use by m

\* The walk of a list stops at the first entry that is in S.
FirstIn(s, S, i) == s[i] \in S /\ \A j \in 1..(i - 1) : s[j] \notin S

Usable    == {n \in Node : ~error[n]}
ReusableAny == Node                                  \* mutant
ReusableUnread == {n \in Node : read_mask[n] = {}}    \* mutant
Reusable  == {n \in Node : read_mask[n] = free_mask[n]}
Unread(m) == {n \in Node : m \notin read_mask[n]}
-----------------------------------------------------------------------------
Init ==
    /\ free = <<>> /\ ready = <<>> /\ list_enable = FALSE
    /\ read_mask = [n \in Node |-> {}] /\ free_mask = [n \in Node |-> {}]
    /\ error = [n \in Node |-> FALSE] /\ base_addr = [n \in Node |-> FALSE]
    /\ err_state = [n \in Node |-> FALSE]
    /\ enable = [m \in Module |-> FALSE] /\ plugin = [m \in Module |-> FALSE]
    /\ register_mask = {} /\ handle = [m \in Module |-> FALSE]
    /\ rpc = [m \in Module |-> "idle"] /\ frame = [m \in Module |-> NoFrame]
    /\ ppc = "idle" /\ pi = 1 /\ pload = FALSE /\ held = {}

(***************************************************************************)
(* frame_buffer_fb_init: k fresh zeroed nodes join the free list.  When     *)
(* os_malloc fails before Count of them the list stays disabled and keeps   *)
(* what it got.                                                             *)
(***************************************************************************)
Fresh(k) == {s \in [1..k -> Node \ (OnList \cup held)] : IsInjective(s)}

Zeroed(s) ==
    /\ error' = [n \in Node |-> error[n] /\ n \notin ToSet(s)]
    /\ base_addr' = [n \in Node |-> base_addr[n] /\ n \notin ToSet(s)]
    /\ err_state' = [n \in Node |-> err_state[n] /\ n \notin ToSet(s)]
    /\ read_mask' = [n \in Node |-> IF n \in ToSet(s) THEN {} ELSE read_mask[n]]
    /\ free_mask' = [n \in Node |-> IF n \in ToSet(s) THEN {} ELSE free_mask[n]]

FbInit ==
    /\ ~list_enable
    /\ \E k \in IF UseDisabled THEN 0..Count ELSE {Count} : \E s \in Fresh(k) :
         free' = free \o s /\ Zeroed(s) /\ list_enable' = (k = Count)
    /\ UNCHANGED <<ready, mods, reads, prod>>

(***************************************************************************)
(* frame_buffer_fb_deinit frees the nodes of both lists.  Its callers are   *)
(* the camera drivers, outside src/: they are taken to close the list only  *)
(* when no module is between fb_pop and fb_free and, unless UseDisabled,    *)
(* after they gave their own frames back.                                   *)
(***************************************************************************)
FbDeinit ==
    /\ list_enable /\ ~Pushing
    /\ \A m \in Module : ~Holding(m)
    /\ UseDisabled \/ held = {}
    /\ free' = <<>> /\ ready' = <<>> /\ list_enable' = FALSE
    /\ UNCHANGED <<nodes, mods, reads, prod>>

FbClear ==
    /\ Clears /\ list_enable /\ ~Pushing
    /\ err_state' = [n \in Node |-> err_state[n] \/ n \in ToSet(ready)]
    /\ UNCHANGED <<lists, read_mask, free_mask, error, base_addr, mods, reads, prod>>
-----------------------------------------------------------------------------
(***************************************************************************)
(* The producer: frame_buffer_fb_malloc / frame_buffer_fb_dual_malloc.      *)
(* The node's fields are reset after the unlock, while it is off the lists. *)
(***************************************************************************)
MallocGuard == ppc = "idle" /\ Cardinality(held) < HoldMax

Take(n) ==
    /\ held' = held \cup {n}
    /\ read_mask' = [read_mask EXCEPT ![n] = {}]
    /\ free_mask' = [free_mask EXCEPT ![n] = {}]
    /\ err_state' = [err_state EXCEPT ![n] = FALSE]

\* No node to be had from the free list: none is usable, or the first usable
\* one has no memory and psram refuses it, which spoils it and moves it back.
NoFreeNode ==
    \/ ToSet(free) \cap Usable = {} /\ UNCHANGED <<free, error>>
    \/ \E i \in DOMAIN free :
         /\ PsramFails /\ FirstIn(free, Usable, i) /\ ~base_addr[free[i]]
         /\ error' = [error EXCEPT ![free[i]] = TRUE]
         /\ free' = Append(RemoveAt(free, i), free[i])

MallocFree ==
    /\ MallocGuard
    /\ \E i \in DOMAIN free :
         /\ FirstIn(free, Usable, i)
         /\ free' = RemoveAt(free, i)
         /\ base_addr' = [base_addr EXCEPT ![free[i]] = TRUE]
         /\ Take(free[i])
    /\ UNCHANGED <<ready, list_enable, error, mods, reads, ppc, pi, pload>>

\* Take back the oldest ready frame that no module is reading.
MallocEvict ==
    /\ MallocGuard /\ Evicts
    /\ NoFreeNode
    /\ \E i \in DOMAIN ready :
         /\ FirstIn(ready, Reusable, i)
         /\ ready' = RemoveAt(ready, i)
         /\ Take(ready[i])
    /\ UNCHANGED <<list_enable, base_addr, mods, reads, ppc, pi, pload>>

MallocNull ==
    /\ MallocGuard
    /\ NoFreeNode
    /\ Evicts => ToSet(ready) \cap Reusable = {}
    /\ ppc' = "null"
    /\ UNCHANGED <<ready, list_enable, read_mask, free_mask, base_addr,
                   err_state, mods, reads, pi, pload, held>>

MallocFailed ==      \* the caller has looked at the NULL
    /\ ppc = "null" /\ ppc' = "idle"
    /\ UNCHANGED <<lists, nodes, mods, reads, pi, pload, held>>

(***************************************************************************)
(* frame_buffer_fb_push.  plugin is a bit-field in the byte that also holds *)
(* enable: setting it loads the byte and stores it back.                    *)
(***************************************************************************)
PushHead(n) ==       \* mutant: the frame joins the head of the list
    /\ ppc = "idle" /\ n \in held
    /\ read_mask' = [read_mask EXCEPT ![n] = {}]
    /\ free_mask' = [free_mask EXCEPT ![n] = {}]
    /\ ready' = <<n>> \o ready
    /\ held' = held \ {n}
    /\ ppc' = "notify" /\ pi' = 1
    /\ UNCHANGED <<free, list_enable, error, base_addr, err_state, mods, reads, pload>>

FbPush(n) ==
    /\ ppc = "idle" /\ n \in held
    /\ read_mask' = [read_mask EXCEPT ![n] = {}]
    /\ free_mask' = [free_mask EXCEPT ![n] = {}]
    /\ ready' = Append(ready, n)
    /\ held' = held \ {n}
    /\ ppc' = "notify" /\ pi' = 1
    /\ UNCHANGED <<free, list_enable, error, base_addr, err_state, mods, reads, pload>>

NextModuleOff ==     \* mutant: i <= MODULE_MAX
    IF pi <= Modules THEN ppc' = "notify" /\ pi' = pi + 1
                     ELSE ppc' = "idle" /\ pi' = 1

NextModule ==
    IF pi < Modules THEN ppc' = "notify" /\ pi' = pi + 1
                    ELSE ppc' = "idle" /\ pi' = 1

PushNotify ==
    /\ ppc = "notify"
    /\ IF enable[pi] /\ ~plugin[pi]
       THEN handle' = [handle EXCEPT ![pi] = TRUE] /\ ppc' = "load" /\ pi' = pi
       ELSE handle' = handle /\ NextModule
    /\ UNCHANGED <<lists, nodes, enable, plugin, register_mask, reads, pload, held>>

PushLoad ==
    /\ ppc = "load" /\ ppc' = "store" /\ pload' = enable[pi]
    /\ UNCHANGED <<lists, nodes, mods, reads, pi, held>>

PushStore ==
    /\ ppc = "store" /\ NextModule /\ pload' = FALSE
    /\ enable' = [enable EXCEPT ![pi] = pload]
    /\ plugin' = [plugin EXCEPT ![pi] = TRUE]
    /\ UNCHANGED <<lists, nodes, register_mask, handle, reads, held>>

\* frame_buffer_fb_direct_free: the producer gives an unpushed frame back.
DirectFree(n) ==
    /\ ppc = "idle" /\ n \in held
    /\ read_mask' = [read_mask EXCEPT ![n] = {}]
    /\ free_mask' = [free_mask EXCEPT ![n] = {}]
    /\ free' = Append(free, n)
    /\ held' = held \ {n}
    /\ UNCHANGED <<ready, list_enable, error, base_addr, err_state, mods, reads,
                   ppc, pi, pload>>
-----------------------------------------------------------------------------
(***************************************************************************)
(* frame_buffer_fb_free(n, m), the part that every caller shares.           *)
(***************************************************************************)
Unlink(n) ==         \* frame_buffer_list_remove(n, ready)
    \/ n \notin ToSet(ready) /\ UNCHANGED ready
    \/ \E i \in DOMAIN ready :
         FirstIn(ready, {n}, i) /\ ready' = RemoveAt(ready, i)

RecycleLinked(n) ==  \* mutant: not unlinked from the ready list
    /\ free' = Append(free, n)
    /\ read_mask' = [read_mask EXCEPT ![n] = {}]
    /\ free_mask' = [free_mask EXCEPT ![n] = {}]
    /\ UNCHANGED ready

Recycle(n) ==
    /\ Unlink(n)
    /\ free' = Append(free, n)
    /\ read_mask' = [read_mask EXCEPT ![n] = {}]
    /\ free_mask' = [free_mask EXCEPT ![n] = {}]

CompleteSilent(m) == UNCHANGED handle        \* mutant: the bit is not set
Complete(m) == handle' = [handle EXCEPT ![m] = handle[m] \/ enable[m]]

RegisteredDone(n, m) ==    \* mutant: forgets readers that deregistered
    register_mask \subseteq free_mask[n] \cup {m}

AllDone(n, m) ==     \* every module that read n, and every registered one
    /\ read_mask[n] = free_mask[n] \cup {m}
    /\ register_mask \subseteq free_mask[n] \cup {m}

FreeRefused(n, m) == list_enable /\ m \in free_mask[n]    \* "refree"

FreeFrame(n, m) ==
    \/ /\ ~list_enable
       /\ Complete(m) /\ UNCHANGED <<free, ready, read_mask, free_mask>>
    \/ /\ FreeRefused(n, m)
       /\ UNCHANGED <<handle, free, ready, read_mask, free_mask>>
    \/ /\ list_enable /\ m \notin free_mask[n] /\ read_mask[n] = {}
       /\ Recycle(n) /\ UNCHANGED handle
    \/ /\ list_enable /\ m \notin free_mask[n] /\ read_mask[n] # {}
       /\ Complete(m)
       /\ IF AllDone(n, m)
          THEN Recycle(n)
          ELSE /\ free_mask' = [free_mask EXCEPT ![n] = @ \cup {m}]
               /\ UNCHANGED <<free, ready, read_mask>>

(***************************************************************************)
(* frame_buffer_fb_read(m), one action per point where another task can     *)
(* get in between.                                                          *)
(***************************************************************************)
Step(m, from, to) == rpc[m] = from /\ rpc' = [rpc EXCEPT ![m] = to]
Return(m) == IF frame[m] = NoFrame THEN "idle" ELSE "have"
readOnly == <<lists, nodes, mods, prod>>

FbRead(m) ==
    /\ enable[m] /\ Step(m, "idle", "wait")
    /\ UNCHANGED <<frame, readOnly>>

FbWait(m) ==         \* xEventGroupWaitBits returns and clears the bit
    /\ handle[m] /\ Step(m, "wait", "woken")
    /\ handle' = [handle EXCEPT ![m] = FALSE]
    /\ UNCHANGED <<frame, lists, nodes, enable, plugin, register_mask, prod>>

FbTimeout(m) ==
    /\ ~handle[m] /\ Step(m, "wait", Return(m))
    /\ UNCHANGED <<frame, readOnly>>

FbWoken(m) ==
    /\ Step(m, "woken", IF enable[m] THEN "pop" ELSE Return(m))
    /\ UNCHANGED <<frame, readOnly>>

FbPop(m) ==
    /\ ~Pushing
    /\ \E i \in DOMAIN ready :
         /\ FirstIn(ready, Unread(m), i)
         /\ read_mask' = [read_mask EXCEPT ![ready[i]] = @ \cup {m}]
         /\ frame' = [frame EXCEPT ![m] = ready[i]]
    /\ Step(m, "pop", "popped")
    /\ UNCHANGED <<lists, free_mask, error, base_addr, err_state, mods, prod>>

FbPopNull(m) ==
    /\ ~Pushing /\ ToSet(ready) \cap Unread(m) = {}
    /\ Step(m, "pop", "empty")
    /\ frame' = [frame EXCEPT ![m] = NoFrame]
    /\ UNCHANGED readOnly

StayPlugged(m) ==    \* mutant: plugin is left set
    /\ Step(m, "empty", "again")
    /\ UNCHANGED <<frame, readOnly>>

FbUnplug(m) ==
    /\ Step(m, "empty", "again")
    /\ plugin' = [plugin EXCEPT ![m] = FALSE]
    /\ UNCHANGED <<frame, lists, nodes, enable, register_mask, handle, prod>>

FbGood(m) ==
    /\ Step(m, "popped", "have") /\ ~err_state[frame[m]]
    /\ UNCHANGED <<frame, readOnly>>

BadDropped(m) ==     \* mutant: the bad frame is skipped, not freed
    /\ Step(m, "popped", "again") /\ ~Pushing /\ err_state[frame[m]]
    /\ UNCHANGED <<frame, readOnly>>

FbBad(m) ==          \* frame keeps the pointer across the continue
    /\ Step(m, "popped", "again") /\ ~Pushing /\ err_state[frame[m]]
    /\ FreeFrame(frame[m], m)
    /\ UNCHANGED <<frame, list_enable, error, base_addr, err_state,
                   enable, plugin, register_mask, prod>>

FbAgain(m) ==        \* while (fb_info && enable)
    /\ Step(m, "again", IF enable[m] THEN "wait" ELSE Return(m))
    /\ UNCHANGED <<frame, readOnly>>

FbFree(m) ==         \* the module has used its frame
    /\ ~Pushing /\ Step(m, "have", "idle")
    /\ FreeFrame(frame[m], m)
    /\ frame' = [frame EXCEPT ![m] = NoFrame]
    /\ UNCHANGED <<list_enable, error, base_addr, err_state,
                   enable, plugin, register_mask, prod>>

FbRegister(m) ==
    /\ ~enable[m]
    /\ plugin' = [plugin EXCEPT ![m] = FALSE]
    /\ register_mask' = register_mask \cup {m}
    /\ handle' = [handle EXCEPT ![m] = TRUE]
    /\ enable' = [enable EXCEPT ![m] = TRUE]
    /\ UNCHANGED <<lists, nodes, reads, prod>>

FbDeregister(m) ==
    /\ Deregisters /\ enable[m]
    /\ handle' = [handle EXCEPT ![m] = TRUE]
    /\ enable' = [enable EXCEPT ![m] = FALSE]
    /\ register_mask' = register_mask \ {m}
    /\ UNCHANGED <<plugin, lists, nodes, reads, prod>>
-----------------------------------------------------------------------------
Malloc == MallocFree \/ MallocEvict \/ MallocNull \/ MallocFailed
Push   == PushNotify \/ PushLoad \/ PushStore
Lists  == FbInit \/ FbDeinit \/ FbClear
Locked(m) == FbPop(m) \/ FbPopNull(m) \/ FbBad(m) \/ FbFree(m)
Unlocked(m) == FbRead(m) \/ FbWait(m) \/ FbTimeout(m) \/ FbWoken(m)
                 \/ FbUnplug(m) \/ FbGood(m) \/ FbAgain(m)

Next ==
    \/ Lists \/ Malloc \/ Push
    \/ \E n \in Node : FbPush(n) \/ DirectFree(n)
    \/ \E m \in Module : Locked(m) \/ Unlocked(m) \/ FbRegister(m) \/ FbDeregister(m)

Spec == Init /\ [][Next]_vars
-----------------------------------------------------------------------------
(***************************************************************************)
(* Safety                                                                   *)
(***************************************************************************)
\* Every variable has its type.
ListsOK == /\ free \in Seq(Node) /\ ready \in Seq(Node)
           /\ list_enable \in BOOLEAN
NodesOK == /\ read_mask \in [Node -> SUBSET Module]
           /\ free_mask \in [Node -> SUBSET Module]
           /\ error \in [Node -> BOOLEAN] /\ base_addr \in [Node -> BOOLEAN]
           /\ err_state \in [Node -> BOOLEAN]
ModsOK  == /\ enable \in [Module -> BOOLEAN] /\ plugin \in [Module -> BOOLEAN]
           /\ register_mask \in SUBSET Module
           /\ handle \in [Module -> BOOLEAN]
ReadsOK == /\ rpc \in [Module -> {"idle", "wait", "woken", "pop", "popped",
                                  "have", "empty", "again"}]
           /\ frame \in [Module -> Node \cup {NoFrame}]
ProdOK  == /\ ppc \in {"idle", "null", "notify", "load", "store"}
           /\ pi \in Module /\ pload \in BOOLEAN /\ held \in SUBSET Node
TypeOK  == ListsOK /\ NodesOK /\ ModsOK /\ ReadsOK /\ ProdOK

\* A node is linked into one list at most, once, and not while the producer
\* holds it: list_add_tail of a linked node would corrupt the list.
OnePlace ==
    /\ IsInjective(free) /\ IsInjective(ready)
    /\ ToSet(free) \cap ToSet(ready) = {} /\ OnList \cap held = {}

\* A frame in a module's hands is on the ready list and carries its read bit
\* without its free bit, so that neither fb_free nor fb_malloc lets it go.
HeldMarked ==
    \A m \in Module : Holding(m) =>
      frame[m] \in ToSet(ready) /\ m \in read_mask[frame[m]] \ free_mask[frame[m]]

\* Nothing but a module at work keeps a frame from being reused: a read bit
\* without its free bit belongs to a module that will free the frame, and a
\* free frame carries no bit into its next life.  (A frame freed while the
\* list is disabled keeps its read bit for good: hence not UseDisabled.)
NothingStranded ==
    /\ \A n \in ToSet(ready) : \A m \in read_mask[n] \ free_mask[n] :
         Holding(m) /\ frame[m] = n
    /\ \A n \in ToSet(ready) : free_mask[n] \subseteq read_mask[n]
    /\ \A n \in ToSet(free) : read_mask[n] = {} /\ free_mask[n] = {}

\* A module takes the frames in the order in which they were pushed: what it
\* has not read yet comes after everything it has.
ReadInOrder ==
    \A m \in Module : \A i, j \in DOMAIN ready :
      i < j /\ m \in read_mask[ready[j]] => m \in read_mask[ready[i]]

\* A registered module that sleeps with its bit clear is one that the next
\* push will wake: plugin never says "already notified" to it.
SleeperIsArmed ==
    \A m \in register_mask :
      enable[m] /\ rpc[m] = "wait" /\ ~handle[m] => ~plugin[m]

\* frame_buffer_fb_malloc gives up only when each ready frame is being read:
\* then as many frames as there are modules, plus one, never run out.
AllBusy ==
    \A n \in ToSet(ready) : \E m \in Module : Holding(m) /\ frame[m] = n
NullMeansBusy == [][MallocNull => AllBusy]_vars

\* The lists implement the ownership they promise: what a module reads is
\* neither recycled nor refilled, whatever the masks say.
Place(n) == IF n \in held THEN "held" ELSE IF n \in ToSet(free) THEN "free"
            ELSE IF n \in ToSet(ready) THEN "ready" ELSE "gone"
Owner == INSTANCE FrameOwner WITH
    place <- [n \in Node |-> Place(n)],
    readers <- [n \in Node |-> {m \in Module : Holding(m) /\ frame[m] = n}]
OwnerSpec == Owner!OSpec

\* The log of frame_buffer_fb_free calls a second free of a frame by the same
\* module an error ("refree").
NoRefree ==
    [][\A m \in Module :
         rpc[m] = "have" /\ FbFree(m) => ~FreeRefused(frame[m], m)]_vars
-----------------------------------------------------------------------------
(***************************************************************************)
(* Liveness.  Every task that is ready runs; the lists' mutex is handed to  *)
(* each task that keeps asking for it (strong fairness of the sections it   *)
(* guards); the producer goes on producing.  No fairness of timeouts, of    *)
(* registration or of the list's owner.                                     *)
(***************************************************************************)
TaskFairness ==
    /\ \A m \in Module :
         /\ SF_vars(Locked(m)) /\ WF_vars(Unlocked(m))
    /\ WF_vars(FbInit) /\ WF_vars(Push)
    /\ SF_vars(\E n \in Node : FbPush(n))
Fairness == TaskFairness /\ WF_vars(Malloc)
FairSpec == Spec /\ Fairness

Served(m) == list_enable /\ enable[m] /\ m \in register_mask

\* A module that stays registered on a list that stays open is given frames
\* again and again, in spite of the race between its plugin := false and push.
KeepsReading ==
    \A m \in Module :
      <>[]Served(m) => []<>(rpc[m] = "have")

\* Without eviction (H264) that race can end it: the pushes that plugin kept
\* silent may have used up the frames, and no further push comes to wake the
\* module.  It is the only way: a starved module is armed for the next push,
\* and what is missing is a free frame to push.
StarvedByExhaustion ==
    \A m \in Module :
      <>[]Served(m) => []<>(rpc[m] = "have") \/ <>[](free = <<>> /\ ~plugin[m])
=============================================================================
