------------------------- MODULE FrameBufferCleared -------------------------
(***************************************************************************)
(* The second list of MCFrameBufferSafe, for every number of nodes, modules *)
(* and frames.  It is the list of FrameBufferOrder with fb_clear and without *)
(* fb_deregister, which nobody uses while it is closed.                     *)
(***************************************************************************)
EXTENDS MCFrameBufferSafe, TLAPS

C == INSTANCE FrameBufferOrder WITH
    Clears <- TRUE, PsramFails <- TRUE,
    Deregisters <- FALSE, UseDisabled <- FALSE

(* The list of the run and the list of the proofs are one.                 *)
LEMMA SameSteps ==
  (Cleared!Next <=> C!Next) /\ (Cleared!MallocNull <=> C!MallocNull)
<1> USE DEF Cleared!lists, C!lists, Cleared!nodes, C!nodes, Cleared!mods, C!mods,
         Cleared!reads, C!reads, Cleared!prod, C!prod, Cleared!Module, C!Module,
         Cleared!Pushing, C!Pushing, Cleared!OnList, C!OnList, Cleared!Holding,
         C!Holding, Cleared!FirstIn, C!FirstIn, Cleared!Usable, C!Usable,
         Cleared!Reusable, C!Reusable, Cleared!Unread, C!Unread, Cleared!ToSet,
         C!ToSet
<1>1. Cleared!Lists <=> C!Lists
  BY DEF Cleared!Lists, C!Lists, Cleared!FbInit, C!FbInit, Cleared!FbDeinit,
         C!FbDeinit, Cleared!FbClear, C!FbClear, Cleared!Fresh, C!Fresh,
         Cleared!Zeroed, C!Zeroed, Cleared!IsInjective, C!IsInjective
<1>2. Cleared!MallocNull <=> C!MallocNull
  BY DEF Cleared!MallocNull, C!MallocNull, Cleared!MallocGuard, C!MallocGuard,
         Cleared!NoFreeNode, C!NoFreeNode, Cleared!RemoveAt, C!RemoveAt,
         Cleared!Cardinality, C!Cardinality
<1>3. Cleared!Malloc <=> C!Malloc
  BY DEF Cleared!Malloc, C!Malloc, Cleared!MallocNull, C!MallocNull,
         Cleared!MallocFree, C!MallocFree, Cleared!MallocEvict, C!MallocEvict,
         Cleared!MallocFailed, C!MallocFailed, Cleared!MallocGuard,
         C!MallocGuard, Cleared!NoFreeNode, C!NoFreeNode, Cleared!RemoveAt,
         C!RemoveAt, Cleared!Take, C!Take, Cleared!Cardinality, C!Cardinality
<1>4. Cleared!Push <=> C!Push
  BY DEF Cleared!Push, C!Push, Cleared!PushNotify, C!PushNotify,
         Cleared!PushLoad, C!PushLoad, Cleared!PushStore, C!PushStore,
         Cleared!NextModule, C!NextModule
<1>5. \A n \in Node :
       /\ Cleared!FbPush(n) <=> C!FbPush(n)
       /\ Cleared!DirectFree(n) <=> C!DirectFree(n)
  BY DEF Cleared!FbPush, C!FbPush, Cleared!DirectFree, C!DirectFree
<1>6. \A m : Cleared!Locked(m) <=> C!Locked(m)
  BY DEF Cleared!Locked, C!Locked, Cleared!FbPop, C!FbPop, Cleared!FbPopNull,
         C!FbPopNull, Cleared!FbBad, C!FbBad, Cleared!FbFree, C!FbFree,
         Cleared!Step, C!Step, Cleared!readOnly, C!readOnly, Cleared!FreeFrame,
         C!FreeFrame, Cleared!FreeRefused, C!FreeRefused, Cleared!AllDone,
         C!AllDone, Cleared!Complete, C!Complete, Cleared!Recycle, C!Recycle,
         Cleared!Unlink, C!Unlink, Cleared!RemoveAt, C!RemoveAt
<1>7. \A m : Cleared!Unlocked(m) <=> C!Unlocked(m)
  BY DEF Cleared!Unlocked, C!Unlocked, Cleared!FbRead, C!FbRead, Cleared!FbWait,
         C!FbWait, Cleared!FbTimeout, C!FbTimeout, Cleared!FbWoken, C!FbWoken,
         Cleared!FbUnplug, C!FbUnplug, Cleared!FbGood, C!FbGood, Cleared!FbAgain,
         C!FbAgain, Cleared!Return, C!Return, Cleared!Step, C!Step,
         Cleared!readOnly, C!readOnly
<1>8. \A m :
       /\ Cleared!FbRegister(m) <=> C!FbRegister(m)
       /\ Cleared!FbDeregister(m) <=> C!FbDeregister(m)
  BY DEF Cleared!FbRegister, C!FbRegister, Cleared!FbDeregister, C!FbDeregister
<1>9. QED
  BY <1>1, <1>2, <1>3, <1>4, <1>5, <1>6, <1>7, <1>8
     DEF Cleared!Next, C!Next, Cleared!Module, C!Module

LEMMA SameState ==
  /\ C!NothingStranded <=> NothingStranded
  /\ C!AllBusy <=> AllBusy
  /\ vars' = vars <=> C!vars' = C!vars
<1>1. C!NothingStranded <=> NothingStranded
  BY DEF C!NothingStranded, NothingStranded, C!Module, Module, C!Holding, Holding,
         C!ToSet, ToSet
<1>2. C!AllBusy <=> AllBusy
  BY DEF C!AllBusy, AllBusy, C!Module, Module, C!Holding, Holding, C!ToSet, ToSet
<1>3. vars' = vars <=> C!vars' = C!vars
  BY DEF vars, C!vars, lists, nodes, mods, reads, prod,
         C!lists, C!nodes, C!mods, C!reads, C!prod
<1>4. QED
  BY <1>1, <1>2, <1>3

(* A behaviour of the run that is of the cleared list is one of C.         *)
LEMMA ClearedSteps ==
  /\ EitherInit /\ cleared => C!Init
  /\ cleared /\ [EitherNext]_<<vars, cleared>> => [C!Next]_(C!vars) /\ cleared'
  /\ ~cleared /\ [EitherNext]_<<vars, cleared>> => ~cleared'
<1>1. EitherInit /\ cleared => C!Init
  BY DEF EitherInit, Init, C!Init, Module, C!Module
<1>2. cleared /\ [EitherNext]_<<vars, cleared>> => [C!Next]_(C!vars) /\ cleared'
  BY SameState, SameSteps DEF EitherNext
<1>3. ~cleared /\ [EitherNext]_<<vars, cleared>> => ~cleared'
  BY DEF EitherNext
<1>4. QED
  BY <1>1, <1>2, <1>3

(* FrameBuffer's assumption holds of the constants that C replaces.        *)
LEMMA ClearedConstants ==
  /\ C!OneOfThem /\ NoFrame \notin Node
  /\ Modules \in Nat \ {0} /\ Count \in Nat \ {0} /\ HoldMax \in Nat \ {0}
  /\ {Evicts, TRUE, FALSE, TRUE, FALSE} \subseteq BOOLEAN
BY ConstAssumption DEF C!OneOfThem

(* No read or free bit of fb_read and fb_free is left on a frame by a       *)
(* module that is done with it, also when fb_clear marked the frame bad     *)
(* meanwhile or psram refused others.                                      *)
THEOREM NothingLeftBehind == EitherSpec => []ClearedNothingStranded
<1>1. C!Spec => []C!NothingStranded
  BY ClearedConstants, C!BitsSettle
<1>2. C!NothingStranded => ClearedNothingStranded
  BY SameState DEF ClearedNothingStranded
<1>3. ~cleared => ClearedNothingStranded
  BY DEF ClearedNothingStranded
<1>4. QED
  BY <1>1, <1>2, <1>3, ClearedSteps, PTL DEF EitherSpec, C!Spec

(* frame_buffer_fb_malloc of that list, when it may evict, returns NULL     *)
(* only while each ready frame is in a module's hands.                     *)
THEOREM NullOnlyWhenAllBusy ==
  ASSUME Evicts PROVE EitherSpec => ClearedNullMeansBusy
<1>1. C!Spec => C!NullMeansBusy
  BY Evicts, ClearedConstants, C!NullOnlyWhenBusy
<1>2. [C!MallocNull => C!AllBusy]_(C!vars)
        => [cleared /\ Cleared!MallocNull => AllBusy]_vars
  BY SameState, SameSteps
<1>3. ~cleared => [cleared /\ Cleared!MallocNull => AllBusy]_vars
  OBVIOUS
<1>4. QED
  BY <1>1, <1>2, <1>3, ClearedSteps, PTL
     DEF EitherSpec, C!Spec, C!NullMeansBusy, ClearedNullMeansBusy
=============================================================================
