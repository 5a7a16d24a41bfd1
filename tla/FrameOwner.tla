---------------------------- MODULE FrameOwner -----------------------------
(***************************************************************************)
(* What the shared frame lists promise to the tasks that use them: at any   *)
(* time a frame is nowhere, free, being filled by the producer, or          *)
(* published; only a published frame is read, and a frame is neither        *)
(* recycled nor handed to the producer while some module reads it.          *)
(***************************************************************************)
CONSTANTS Node, Module
VARIABLES place,    \* where each frame is
          readers   \* the modules that are reading it

ovars == <<place, readers>>
Move(S, to) == place' = [n \in Node |-> IF n \in S THEN to ELSE place[n]]

OInit == place = [n \in Node |-> "gone"] /\ readers = [n \in Node |-> {}]

Create(S)  == (\A n \in S : place[n] = "gone") /\ Move(S, "free") /\ UNCHANGED readers
Destroy(S) == /\ \A n \in S : place[n] \in {"free", "ready"} /\ readers[n] = {}
              /\ Move(S, "gone") /\ UNCHANGED readers
Acquire(n) == /\ place[n] \in {"free", "ready"} /\ readers[n] = {}
              /\ Move({n}, "held") /\ UNCHANGED readers
Publish(n) == place[n] = "held" /\ Move({n}, "ready") /\ UNCHANGED readers
Discard(n) == place[n] = "held" /\ Move({n}, "free") /\ UNCHANGED readers
Borrow(n, m) == /\ place[n] = "ready" /\ m \notin readers[n]
                /\ readers' = [readers EXCEPT ![n] = @ \cup {m}]
                /\ UNCHANGED place
Release(n, m) == /\ place[n] = "ready" /\ m \in readers[n]
                 /\ readers' = [readers EXCEPT ![n] = @ \ {m}]
                 /\ \/ UNCHANGED place
                    \/ readers[n] = {m} /\ Move({n}, "free")

ONext == \/ \E S \in SUBSET Node : Create(S) \/ Destroy(S)
         \/ \E n \in Node : Acquire(n) \/ Publish(n) \/ Discard(n)
         \/ \E n \in Node, m \in Module : Borrow(n, m) \/ Release(n, m)

OSpec == OInit /\ [][ONext]_ovars
=============================================================================
