--------------------------- MODULE MailboxProofs ---------------------------
(***************************************************************************)
(* The safety of the mailbox calls for every set of messages, every length  *)
(* of the queues and every number of faults, provided the channel completes *)
(* a command in time or never and loses no answer of APP or MINOR, which    *)
(* msg_send_back_to_... would turn into an answer to itself.  Then the      *)
(* notices, which may be under way in several copies, and the room that the *)
(* queues need for all of them.                                            *)
(***************************************************************************)
EXTENDS Mailbox, ListFacts, FiniteSetTheorems, TLAPS

AnswersKept ==
  \A m \in Request : To[m] # "MAJOR" => <<To[m], From[m]>> \notin Lossy
Punctual == ~Late /\ AnswersKept

Listed(x, m) == m \in ToSet(req[x])
Queued(x, m, ori) == <<m, ori>> \in ToSet(queue[x])
Wired(x, y, m) == <<x, y, m>> \in wire

(* A side has one command under way at most, and its thread waits for it.  *)
ChannelInv ==
  /\ \A a, b \in Side, m \in Msg : Wired(a, b, m) =>
       /\ <<a, b>> \in Link /\ pc[a] = "sent" /\ ~rsp_sem[a] /\ cur[a] = m
       /\ \A l \in cmpl : l[1] # a
       /\ \A c \in Side, n \in Msg : Wired(a, c, n) => c = b
  /\ \A l \in cmpl : /\ pc[l[1]] = "sent" /\ ~rsp_sem[l[1]]
                     /\ \A k \in cmpl : k[1] = l[1] => k = l
  /\ \A x \in Side : rsp_sem[x] => pc[x] = "sent"

(* Only requests wait for an acknowledgement, and what the thread queues   *)
(* itself it takes out again before it looks at its list.                  *)
ThreadInv == \A x \in Side :
  /\ pc[x] \in {"sent", "acked"} <=> cur[x] # NoMsg
  /\ pc[x] = "acked" => cur[x] \in Request /\ send_ack_flag[x]
  /\ \A e \in ToSet(queue[x]) : e[2] = 1 => e[1] \in Request /\ pc[x] = "drain"

NoticeInv == \A m \in Notice : type[m] # "REQ"

(* The way of a request: in the lists of its caller's side, sent or refused *)
(* by the channel; with the peer; on its way back; the caller woken.  "lost" *)
(* is an answer, or an acknowledged request, that nobody has any more.      *)
Early   == {"called", "sent", "refused"}
Asked   == {"asked", "taken", "serving"}
Replied == {"answered", "returned", "queued", "back"}
Stages  == {"idle", "done", "lost"} \cup Early \cup Asked \cup Replied

(* Where its address is at each stage: in one place at most.               *)
Place(m, z) ==
  /\ m \in waiting <=> z # "idle"
  /\ sem[m] <=> z = "done"
  /\ Listed(From[m], m) <=> z \in {"called", "back"}
  /\ Listed(To[m], m) <=> z \in {"taken", "answered"}
  /\ Queued(From[m], m, 0) <=> z = "queued"
  /\ Queued(To[m], m, 0) <=> z = "asked"
  /\ Wired(From[m], To[m], m) <=> z = "sent"
  /\ Wired(To[m], From[m], m) <=> z = "returned"
  /\ serving[m] = IF z = "serving" THEN 1 ELSE 0

Fields(m, z) ==
  /\ z \in Early \cup Asked => type[m] = "REQ" /\ dest[m] = To[m]
  /\ z \in Replied => type[m] = "RSP" /\ dest[m] = From[m]
  /\ z = "done" => type[m] = "RSP"
  /\ z \in {"sent", "refused"} \cup Asked \cup Replied => count[m] <= 2
  /\ z \in {"sent", "refused", "returned"} => ack_flag[m] = "SEND"
  /\ z \in Asked \/ (z = "lost" /\ type[m] = "REQ") => ack_flag[m] = "ACK"
  /\ type[m] # "NOTIFY"

(* What the threads of the two sides know of it besides.                   *)
Noted(m, z) ==
  /\ cur[From[m]] = m =>
       /\ send_ack_flag[From[m]] /\ z \notin {"idle", "done", "called", "back"}
       /\ ~Queued(From[m], m, 1) /\ m \notin ToSet(rsp[From[m]])
       /\ pc[From[m]] = "sent" /\ z \notin {"sent", "refused"} =>
            <<From[m], To[m]>> \in cmpl \/ rsp_sem[From[m]]
  /\ z \in {"sent", "refused"} => cur[From[m]] = m /\ pc[From[m]] = "sent"
  /\ Queued(From[m], m, 1) => m \notin ToSet(rsp[From[m]])
  /\ Queued(From[m], m, 1) \/ m \in ToSet(rsp[From[m]]) =>
       z \notin {"idle", "done"} \cup Early
  /\ cur[To[m]] = m =>
       /\ ~send_ack_flag[To[m]]
       /\ \/ z = "returned" \/ <<To[m], From[m]>> \in cmpl \/ rsp_sem[To[m]]
          \/ z = "lost" /\ type[m] = "RSP"

(* Nobody but these two sides ever has it, and no list has it twice.       *)
Bounded(m) ==
  /\ \A x \in Side :
       /\ Listed(x, m) \/ Queued(x, m, 0) \/ cur[x] = m => x \in {From[m], To[m]}
       /\ Queued(x, m, 1) \/ m \in ToSet(rsp[x]) => x = From[m]
       /\ Once(req[x], m) /\ Once(rsp[x], m)
       /\ Once(queue[x], <<m, 0>>) /\ Once(queue[x], <<m, 1>>)
  /\ \A a, b \in Side : Wired(a, b, m) =>
       <<a, b>> \in {<<From[m], To[m]>>, <<To[m], From[m]>>}

Stage(m, z) == Place(m, z) /\ Fields(m, z) /\ Noted(m, z)
RequestInv == \A m \in Request : Bounded(m) /\ \E z \in Stages : Stage(m, z)

IInv == TypeOK /\ ChannelInv /\ ThreadInv /\ NoticeInv /\ RequestInv
-----------------------------------------------------------------------------
(* The operations on the lists of one side x: they put an entry in, take   *)
(* the first one out, move it to the end, or delete one, and leave the     *)
(* others as they are.                                                     *)
Put(f, g, x, e)     == g = [f EXCEPT ![x] = Append(@, e)]
Take(f, g, x)       == f[x] # <<>> /\ g = [f EXCEPT ![x] = Tail(@)]
Requeue(f, g, x, e) == /\ f[x] # <<>> /\ e = Head(f[x])
                       /\ g = [f EXCEPT ![x] = Append(Tail(@), e)]
Delete(f, g, x, e)  == g = [f EXCEPT ![x] = DelNode(@, e)]

SameIn(f, g, d) ==
  \A y \in Side : /\ d \in ToSet(g[y]) <=> d \in ToSet(f[y])
                  /\ Once(f[y], d) => Once(g[y], d)
SameBut(f, g, x, e) ==
  /\ \A y \in Side \ {x} : g[y] = f[y]
  /\ \A d : d # e => SameIn(f, g, d)
Added(f, g, x, e) ==
  /\ SameBut(f, g, x, e) /\ ToSet(g[x]) = ToSet(f[x]) \cup {e}
  /\ e \notin ToSet(f[x]) => Once(g[x], e)
Taken(f, g, x, e) ==
  /\ SameBut(f, g, x, e) /\ ToSet(g[x]) \subseteq ToSet(f[x])
  /\ Once(f[x], e) => e \notin ToSet(g[x]) /\ Once(g[x], e)
Moved(f, g) == \A d : SameIn(f, g, d)

LEMMA SameButFacts ==
  ASSUME NEW f, NEW g, NEW x \in Side, NEW e, \A y \in Side \ {x} : g[y] = f[y],
         \A d : d # e => /\ d \in ToSet(g[x]) <=> d \in ToSet(f[x])
                         /\ Once(f[x], d) => Once(g[x], d)
  PROVE  SameBut(f, g, x, e)
BY DEF SameBut, SameIn

LEMMA PutFacts ==
  ASSUME NEW S, NEW f \in [Side -> Seq(S)], NEW g, NEW x \in Side, NEW e \in S,
         Put(f, g, x, e)
  PROVE  g \in [Side -> Seq(S)] /\ Added(f, g, x, e)
<1>1. g[x] = Append(f[x], e) /\ f[x] \in Seq(S) /\ \A y \in Side \ {x} : g[y] = f[y]
  BY DEF Put
<1>2. /\ g[x] \in Seq(S) /\ ToSet(g[x]) = ToSet(f[x]) \cup {e}
      /\ \A d : d # e /\ Once(f[x], d) => Once(g[x], d)
      /\ e \notin ToSet(f[x]) => Once(g[x], e)
  BY <1>1, AppendFacts
<1>3. g \in [Side -> Seq(S)]
  BY <1>1, <1>2 DEF Put
<1>4. SameBut(f, g, x, e)
  BY <1>1, <1>2, SameButFacts
<1>5. QED
  BY <1>2, <1>3, <1>4 DEF Added

LEMMA TakeFacts ==
  ASSUME NEW S, NEW f \in [Side -> Seq(S)], NEW g, NEW x \in Side, Take(f, g, x)
  PROVE  /\ g \in [Side -> Seq(S)] /\ Taken(f, g, x, Head(f[x]))
         /\ Head(f[x]) \in S /\ Head(f[x]) \in ToSet(f[x])
<1> DEFINE h == Head(f[x])
<1>1. /\ g[x] = Tail(f[x]) /\ f[x] \in Seq(S) /\ f[x] # <<>>
      /\ \A y \in Side \ {x} : g[y] = f[y]
  BY DEF Take
<1>2. /\ Tail(f[x]) \in Seq(S) /\ h \in S
      /\ ToSet(f[x]) = ToSet(Tail(f[x])) \cup {h}
      /\ \A d : Once(f[x], d) => Once(Tail(f[x]), d)
      /\ Once(f[x], h) => h \notin ToSet(Tail(f[x]))
  BY <1>1, TailFacts
<1> HIDE DEF h
<1>3. g \in [Side -> Seq(S)]
  BY <1>1, <1>2 DEF Take
<1>4. SameBut(f, g, x, h)
  BY <1>1, <1>2, SameButFacts
<1>5. Taken(f, g, x, h)
  BY <1>1, <1>2, <1>4 DEF Taken
<1>6. h \in S /\ h \in ToSet(f[x])
  BY <1>2
<1>7. QED
  BY <1>3, <1>5, <1>6 DEF h

LEMMA RequeueFacts ==
  ASSUME NEW S, NEW f \in [Side -> Seq(S)], NEW g, NEW x \in Side, NEW e,
         Requeue(f, g, x, e)
  PROVE  g \in [Side -> Seq(S)] /\ e \in S /\ e \in ToSet(f[x]) /\ Moved(f, g)
<1> DEFINE r == Tail(f[x])
<1>1. /\ g[x] = Append(r, e) /\ f[x] \in Seq(S) /\ f[x] # <<>>
      /\ e = Head(f[x]) /\ \A y \in Side \ {x} : g[y] = f[y]
  BY DEF Requeue
<1>2. /\ r \in Seq(S) /\ e \in S
      /\ ToSet(f[x]) = ToSet(r) \cup {e}
      /\ \A d : Once(f[x], d) => Once(r, d)
      /\ Once(f[x], e) => e \notin ToSet(r)
  BY <1>1, TailFacts
<1> HIDE DEF r
<1>3. /\ g[x] \in Seq(S) /\ ToSet(g[x]) = ToSet(r) \cup {e}
      /\ \A d : d # e /\ Once(r, d) => Once(g[x], d)
      /\ e \notin ToSet(r) => Once(g[x], e)
  BY <1>1, <1>2, AppendFacts
<1>4. g \in [Side -> Seq(S)]
  BY <1>1, <1>3 DEF Requeue
<1>5. ToSet(g[x]) = ToSet(f[x])
  BY <1>2, <1>3
<1>6. ASSUME NEW d, Once(f[x], d) PROVE Once(g[x], d)
  BY <1>2, <1>3, <1>6
<1>7. Moved(f, g)
  BY <1>1, <1>5, <1>6 DEF Moved, SameIn
<1>8. QED
  BY <1>2, <1>4, <1>7

LEMMA DeleteFacts ==
  ASSUME NEW S, NEW f \in [Side -> Seq(S)], NEW g, NEW x \in Side, NEW e,
         Once(f[x], e), Delete(f, g, x, e)
  PROVE  g \in [Side -> Seq(S)] /\ Taken(f, g, x, e)
<1>1. /\ g[x] = RemoveFirst(f[x], e) /\ f[x] \in Seq(S)
      /\ \A y \in Side \ {x} : g[y] = f[y]
  BY DEF Delete, DelNode
<1>2. /\ g[x] \in Seq(S) /\ ToSet(g[x]) = ToSet(f[x]) \ {e}
      /\ \A d : Once(f[x], d) => Once(g[x], d)
  BY <1>1, RemoveFirstFacts
<1>3. g \in [Side -> Seq(S)]
  BY <1>1, <1>2 DEF Delete
<1>4. SameBut(f, g, x, e)
  BY <1>1, <1>2, SameButFacts
<1>5. QED
  BY <1>2, <1>4, <1>3 DEF Taken
-----------------------------------------------------------------------------
(* A request that a step leaves alone stays where it is.                   *)
SameFields(r) ==
  /\ type'[r] = type[r] /\ dest'[r] = dest[r] /\ count'[r] = count[r]
  /\ ack_flag'[r] = ack_flag[r] /\ sem'[r] = sem[r]
  /\ serving'[r] = serving[r] /\ (r \in waiting' <=> r \in waiting)
SameLists(r) ==
  /\ SameIn(req, req', r) /\ SameIn(rsp, rsp', r)
  /\ SameIn(queue, queue', <<r, 0>>) /\ SameIn(queue, queue', <<r, 1>>)
SameWire(r) == \A a, b \in Side : <<a, b, r>> \in wire' <=> <<a, b, r>> \in wire
SameThread(r) == \A x \in Side :
  /\ cur'[x] = r <=> cur[x] = r
  /\ cur[x] = r => /\ pc'[x] = pc[x] /\ send_ack_flag'[x] = send_ack_flag[x]
                   /\ rsp_sem[x] => rsp_sem'[x]
                   /\ \A y \in Side : <<x, y>> \in cmpl => <<x, y>> \in cmpl' \/ rsp_sem'[x]
Same(r) == SameFields(r) /\ SameLists(r) /\ SameWire(r) /\ SameThread(r)

LEMMA SameStage ==
  ASSUME NEW r \in Request, Same(r), Bounded(r), NEW z \in Stages, Stage(r, z)
  PROVE  Bounded(r)' /\ Stage(r, z)'
<1> USE DEF Listed, Queued, Wired
<1>0. From[r] \in Side /\ To[r] \in Side
  BY MailboxAssumption DEF Msg
<1>1. Bounded(r)'
  BY DEF Bounded, Same, SameLists, SameIn, SameWire, SameThread
<1>2. Place(r, z)'
  BY <1>0 DEF Stage, Place, Same, SameFields, SameLists, SameIn, SameWire
<1>3. Fields(r, z)'
  BY DEF Stage, Fields, Same, SameFields
<1>4. Noted(r, z)'
  BY <1>0 DEF Stage, Noted, Same, SameFields, SameLists, SameIn, SameThread
<1>5. QED
  BY <1>1, <1>2, <1>3, <1>4 DEF Stage

LEMMA NothingSame ==
  ASSUME NEW f, NEW d PROVE SameIn(f, f, d)
BY DEF SameIn

LEMMA Others ==
  ASSUME RequestInv, NEW m, \A r \in Request \ {m} : Same(r),
         m \in Request => Bounded(m)' /\ \E z \in Stages : Stage(m, z)'
  PROVE  RequestInv'
<1>1. ASSUME NEW r \in Request PROVE Bounded(r)' /\ \E z \in Stages : Stage(r, z)'
  <2>1. CASE r = m
    BY <2>1
  <2>2. CASE r # m
    <3>1. PICK z \in Stages : Stage(r, z)
      BY DEF RequestInv
    <3>2. QED
      BY <2>2, <3>1, SameStage DEF RequestInv
  <2>3. QED
    BY <2>1, <2>2
<1>2. QED
  BY <1>1 DEF RequestInv

LEMMA AllSame ==
  ASSUME RequestInv, \A r \in Request : Same(r) PROVE RequestInv'
<1>1. ASSUME NEW r \in Request PROVE Bounded(r)' /\ \E z \in Stages : Stage(r, z)'
  <2>1. PICK z \in Stages : Stage(r, z)
    BY DEF RequestInv
  <2>2. QED
    BY <2>1, SameStage DEF RequestInv
<1>2. QED
  BY <1>1 DEF RequestInv

LEMMA Sides ==
  ASSUME NEW m \in Msg
  PROVE  /\ From[m] \in Side /\ To[m] \in Side /\ From[m] # To[m]
         /\ <<From[m], To[m]>> \in Link /\ m # NoMsg
         /\ m \in Request => m \notin Notice /\ From[m] # "MINOR"
BY MailboxAssumption DEF Link, Msg
-----------------------------------------------------------------------------
(* The callers and the services.                                           *)
LEMMA CallStep ==
  ASSUME IInv, NEW m \in Msg, Call(m) PROVE RequestInv'
<1> USE DEF Listed, Queued, Wired
<1>0. /\ TypeOK /\ RequestInv /\ m \in Request /\ m \notin waiting
      /\ From[m] \in Side /\ To[m] \in Side /\ From[m] # To[m]
  BY Sides DEF IInv, Call
<1>1. /\ req \in [Side -> Seq(Msg)] /\ type \in [Msg -> {"REQ", "RSP", "NOTIFY"}]
      /\ dest \in [Msg -> Side] /\ count \in [Msg -> 0..3]
      /\ ack_flag \in [Msg -> {"SEND", "ACK"}] /\ sem \in [Request -> BOOLEAN]
  BY <1>0 DEF TypeOK
<1>2. Put(req, req', From[m], m)
  BY DEF Call, ToList, Put
<1>3. Added(req, req', From[m], m)
  BY <1>0, <1>1, <1>2, PutFacts
<1>4. UNCHANGED <<rsp, queue, pc, cur, send_ack_flag, rsp_sem, wire, cmpl, serving>>
  BY DEF Call, thread, channel
<1>5. ASSUME NEW r \in Request \ {m} PROVE Same(r)
  <2>1. SameFields(r)
    BY <1>0, <1>1, <1>4 DEF Call, SameFields, Msg
  <2>2. SameLists(r)
    BY <1>3, <1>4, NothingSame DEF SameLists, Added, SameBut
  <2>3. SameWire(r) /\ SameThread(r)
    BY <1>4 DEF SameWire, SameThread
  <2>4. QED
    BY <2>1, <2>2, <2>3 DEF Same
<1>6. PICK z \in Stages : Stage(m, z)
  BY <1>0 DEF RequestInv
<1>7. z = "idle"
  BY <1>0, <1>6 DEF Stage, Place
<1>8. Bounded(m)'
  BY <1>0, <1>3, <1>4, <1>6, <1>7 DEF RequestInv, Bounded, Stage, Place, Added, SameBut
<1>9. Place(m, "called")'
  BY <1>0, <1>1, <1>3, <1>4, <1>6, <1>7 DEF Call, Stage, Place, Added, SameBut,
     Early, Asked, Replied
<1>10. Fields(m, "called")'
  BY <1>0, <1>1 DEF Call, Fields, Early, Asked, Replied
<1>11. Noted(m, "called")'
  BY <1>0, <1>1, <1>4, <1>6, <1>7 DEF Call, Stage, Noted, Early, Asked, Replied
<1>12. "called" \in Stages
  BY DEF Stages, Early
<1>13. QED
  BY <1>0, <1>5, <1>8, <1>9, <1>10, <1>11, <1>12, Others DEF Stage

LEMMA ReturnStep ==
  ASSUME IInv, NEW m \in Msg, Return(m) PROVE RequestInv'
<1> USE DEF Listed, Queued, Wired
<1>0. /\ TypeOK /\ RequestInv /\ m \in Request /\ m \in waiting /\ sem[m]
      /\ From[m] \in Side /\ To[m] \in Side /\ From[m] # To[m]
      /\ sem \in [Request -> BOOLEAN]
  BY Sides DEF IInv, Return, TypeOK
<1>1. UNCHANGED <<req, rsp, queue, pc, cur, send_ack_flag, rsp_sem, wire, cmpl, serving>>
  BY DEF Return, thread, channel, lists
<1>2. ASSUME NEW r \in Request \ {m} PROVE Same(r)
  <2>1. SameFields(r)
    BY <1>0, <1>1 DEF Return, SameFields
  <2>2. SameLists(r)
    BY <1>1, NothingSame DEF SameLists, Added, SameBut
  <2>3. SameWire(r) /\ SameThread(r)
    BY <1>1 DEF SameWire, SameThread
  <2>4. QED
    BY <2>1, <2>2, <2>3 DEF Same
<1>3. PICK z \in Stages : Stage(m, z)
  BY <1>0 DEF RequestInv
<1>4. z = "done"
  BY <1>0, <1>3 DEF Stage, Place
<1>5. Bounded(m)'
  BY <1>0, <1>1 DEF RequestInv, Bounded
<1>6. Place(m, "idle")'
  BY <1>0, <1>1, <1>3, <1>4 DEF Return, Stage, Place
<1>7. Fields(m, "idle")' /\ Noted(m, "idle")'
  BY <1>0, <1>1, <1>3, <1>4 DEF Return, Stage, Fields, Noted, Early, Asked, Replied
<1>8. QED
  BY <1>0, <1>2, <1>5, <1>6, <1>7, Others DEF Stage, Stages

LEMMA RespondStep ==
  ASSUME IInv, NEW m \in Msg, Respond(m) PROVE RequestInv'
<1> USE DEF Listed, Queued, Wired
<1>0. /\ TypeOK /\ RequestInv /\ m \in Request /\ serving[m] > 0
      /\ From[m] \in Side /\ To[m] \in Side /\ From[m] # To[m]
  BY Sides DEF IInv, Respond
<1>1. /\ req \in [Side -> Seq(Msg)] /\ type \in [Msg -> {"REQ", "RSP", "NOTIFY"}]
      /\ dest \in [Msg -> Side] /\ count \in [Msg -> 0..3]
      /\ serving \in [Request -> Nat]
  BY <1>0 DEF TypeOK
<1>2. Put(req, req', To[m], m)
  BY DEF Respond, ToList, Put
<1>3. Added(req, req', To[m], m)
  BY <1>0, <1>1, <1>2, PutFacts
<1>4. UNCHANGED <<rsp, queue, pc, cur, send_ack_flag, rsp_sem, wire, cmpl, ack_flag,
                  sem, waiting>>
  BY DEF Respond, thread, channel, callers
<1>5. ASSUME NEW r \in Request \ {m} PROVE Same(r)
  <2>1. SameFields(r)
    BY <1>0, <1>1, <1>4 DEF Respond, SameFields, Msg
  <2>2. SameLists(r)
    BY <1>3, <1>4, NothingSame DEF SameLists, Added, SameBut
  <2>3. SameWire(r) /\ SameThread(r)
    BY <1>4 DEF SameWire, SameThread
  <2>4. QED
    BY <2>1, <2>2, <2>3 DEF Same
<1>6. PICK z \in Stages : Stage(m, z)
  BY <1>0 DEF RequestInv
<1>7. z = "serving"
  BY <1>0, <1>6 DEF Stage, Place
<1>8. Bounded(m)'
  BY <1>0, <1>3, <1>4, <1>6, <1>7 DEF RequestInv, Bounded, Stage, Place, Added, SameBut
<1>9. Place(m, "answered")'
  BY <1>0, <1>1, <1>3, <1>4, <1>6, <1>7 DEF Respond, Stage, Place, Added, SameBut
<1>10. Fields(m, "answered")'
  BY <1>0, <1>1 DEF Respond, Fields, Early, Asked, Replied, Msg
<1>11. Noted(m, "answered")'
  BY <1>0, <1>1, <1>4, <1>6, <1>7 DEF Respond, Stage, Noted, Early, Asked, Replied
<1>12. "answered" \in Stages
  BY DEF Stages, Replied
<1>13. QED
  BY <1>0, <1>5, <1>8, <1>9, <1>10, <1>11, <1>12, Others DEF Stage

LEMMA NotifyStep ==
  ASSUME IInv, NEW m \in Msg, Notify(m) PROVE RequestInv'
<1>0. /\ TypeOK /\ RequestInv /\ m \in Notice /\ From[m] \in Side
      /\ \A r \in Request : r # m
  BY Sides DEF IInv, Notify
<1>1. /\ req \in [Side -> Seq(Msg)] /\ type \in [Msg -> {"REQ", "RSP", "NOTIFY"}]
      /\ dest \in [Msg -> Side] /\ count \in [Msg -> 0..3]
  BY <1>0 DEF TypeOK
<1>2. Put(req, req', From[m], m)
  BY DEF Notify, ToList, Put
<1>3. Added(req, req', From[m], m)
  BY <1>0, <1>1, <1>2, PutFacts
<1>4. UNCHANGED <<rsp, queue, pc, cur, send_ack_flag, rsp_sem, wire, cmpl, ack_flag,
                  sem, waiting, serving>>
  BY DEF Notify, thread, channel
<1>5. ASSUME NEW r \in Request PROVE Same(r)
  <2>1. SameFields(r)
    BY <1>0, <1>1, <1>4 DEF Notify, SameFields, Msg
  <2>2. SameLists(r)
    BY <1>0, <1>3, <1>4, NothingSame DEF SameLists, Added, SameBut
  <2>3. SameWire(r) /\ SameThread(r)
    BY <1>4 DEF SameWire, SameThread
  <2>4. QED
    BY <2>1, <2>2, <2>3 DEF Same
<1>6. QED
  BY <1>0, <1>5, AllSame

(* The mailbox thread.                                                     *)
LEMMA PopFacts ==
  ASSUME IInv, NEW s \in Side, NEW m \in Msg, Pop(s, m)
  PROVE  /\ pc[s] = "pop" /\ req[s] # <<>> /\ m = Head(req[s])
         /\ m \in ToSet(req[s]) /\ cur[s] = NoMsg /\ ~rsp_sem[s]
         /\ \A e \in ToSet(queue[s]) : e[2] # 1
         /\ \A y \in Side : <<s, y>> \notin cmpl /\ \A n \in Msg : <<s, y, n>> \notin wire
<1>1. pc[s] = "pop" /\ req[s] # <<>> /\ m = Head(req[s])
  BY DEF Pop
<1>2. req[s] \in Seq(Msg)
  BY DEF IInv, TypeOK
<1>3. m \in ToSet(req[s])
  BY <1>1, <1>2, TailFacts
<1>4. cur[s] = NoMsg /\ \A e \in ToSet(queue[s]) : e[2] # 1
  BY <1>1 DEF IInv, ThreadInv
<1>5. /\ ~rsp_sem[s]
      /\ \A y \in Side : <<s, y>> \notin cmpl /\ \A n \in Msg : <<s, y, n>> \notin wire
  BY <1>1 DEF IInv, ChannelInv, Wired
<1>6. QED
  BY <1>1, <1>3, <1>4, <1>5

(* Where a request is that somebody finds in his list.                     *)
LEMMA ListedStage ==
  ASSUME RequestInv, NEW s \in Side, NEW m \in Request, m \in ToSet(req[s])
  PROVE  \E z \in {"called", "back", "taken", "answered"} :
           /\ Stage(m, z) /\ Bounded(m)
           /\ \/ s = From[m] /\ z \in {"called", "back"}
              \/ s = To[m] /\ z \in {"taken", "answered"}
<1>1. PICK z \in Stages : Stage(m, z)
  BY DEF RequestInv
<1>2. Bounded(m) /\ s \in {From[m], To[m]}
  BY DEF RequestInv, Bounded, Listed
<1>3. QED
  BY <1>1, <1>2 DEF Stage, Place, Listed

LEMMA ReqOthers ==
  ASSUME NEW s, NEW m, NEW r, r # m, UNCHANGED <<rsp, queue>>,
         Taken(req, req', s, m) \/ Added(req, req', s, m) \/ Moved(req, req')
  PROVE  SameLists(r)
BY NothingSame DEF SameLists, Taken, Added, SameBut, Moved

LEMMA GiveUpStep ==
  ASSUME IInv, NEW s \in Side, GiveUp(s) PROVE RequestInv'
<1>1. PICK m \in Msg :
         /\ Pop(s, m) /\ count[m] > 2
         /\ IF type[m] = "REQ"
            THEN /\ SendBack(s, m)
                 /\ req' = [req EXCEPT ![s] = Append(Tail(@), m)]
            ELSE /\ req' = [req EXCEPT ![s] = Tail(@)]
                 /\ UNCHANGED <<type, dest, count, result>>
  BY DEF GiveUp
<1>2. /\ UNCHANGED <<ack_flag, sem, waiting, rsp, queue, serving, wire, cmpl>>
      /\ UNCHANGED <<pc, cur, send_ack_flag, rsp_sem>>
  BY DEF GiveUp, callers, thread, channel
<1>3. /\ RequestInv /\ req \in [Side -> Seq(Msg)]
      /\ type \in [Msg -> {"REQ", "RSP", "NOTIFY"}] /\ dest \in [Msg -> Side]
      /\ count \in [Msg -> 0..3]
  BY DEF IInv, TypeOK
<1>4. m \in ToSet(req[s]) /\ req[s] # <<>> /\ m = Head(req[s]) /\ cur[s] = NoMsg
  BY <1>1, PopFacts
<1>5. Taken(req, req', s, m) \/ Moved(req, req')
  <2>1. CASE type[m] = "REQ"
    <3>1. Requeue(req, req', s, m)
      BY <1>1, <1>4, <2>1 DEF Requeue
    <3>2. QED
      BY <1>3, <3>1, RequeueFacts
  <2>2. CASE type[m] # "REQ"
    <3>1. Take(req, req', s)
      BY <1>1, <1>4, <2>2 DEF Take
    <3>2. QED
      BY <1>3, <1>4, <3>1, TakeFacts
  <2>3. QED
    BY <2>1, <2>2
<1>6. ASSUME NEW r \in Request \ {m} PROVE Same(r)
  <2>1. SameFields(r)
    BY <1>1, <1>2, <1>3 DEF SameFields, SendBack, Msg
  <2>2. SameLists(r)
    BY <1>2, <1>5, ReqOthers
  <2>3. SameWire(r) /\ SameThread(r)
    BY <1>2 DEF SameWire, SameThread
  <2>4. QED
    BY <2>1, <2>2, <2>3 DEF Same
<1>7. ASSUME m \in Request PROVE Bounded(m)' /\ \E z \in Stages : Stage(m, z)'
  <2> USE DEF Listed, Queued, Wired
  <2>0. From[m] \in Side /\ To[m] \in Side /\ From[m] # To[m]
    BY Sides
  <2>1. s = From[m] /\ Stage(m, "called") /\ Bounded(m)
    <3>1. PICK z \in {"called", "back", "taken", "answered"} :
           /\ Stage(m, z) /\ Bounded(m)
           /\ \/ s = From[m] /\ z \in {"called", "back"}
              \/ s = To[m] /\ z \in {"taken", "answered"}
      BY <1>3, <1>4, <1>7, ListedStage
    <3>2. z \in Asked \cup Replied => count[m] <= 2
      BY <3>1 DEF Stage, Fields
    <3>3. ~(count[m] <= 2)
      <4>1. count[m] > 2
        BY <1>1
      <4>2. count[m] \in 0..3
        BY <1>3
      <4>3. QED
        BY <4>1, <4>2
    <3>4. z = "called"
      BY <3>1, <3>2, <3>3 DEF Asked, Replied
    <3>5. QED
      BY <2>0, <3>1, <3>4
  <2>2. type[m] = "REQ"
    BY <2>1 DEF Stage, Fields, Early
  <2>3. Requeue(req, req', s, m)
    BY <1>1, <1>4, <2>2 DEF Requeue
  <2>4. SameIn(req, req', m)
    BY <1>3, <2>3, RequeueFacts DEF Moved
  <2>5. Bounded(m)'
    BY <1>2, <2>1, <2>4 DEF Bounded, SameIn
  <2>6. CASE s = "MAJOR"
    <3>1. UNCHANGED <<type, dest, count>>
      BY <1>1, <2>2, <2>6 DEF SendBack
    <3>2. Stage(m, "called")'
      BY <1>2, <2>0, <2>1, <2>4, <3>1 DEF Stage, Place, Fields, Noted, SameIn
    <3>3. QED
      BY <2>5, <3>2 DEF Stages, Early
  <2>7. CASE s # "MAJOR"
    <3>1. /\ type'[m] = "RSP" /\ dest'[m] = s /\ count'[m] = 0
      BY <1>1, <1>3, <2>2, <2>7 DEF SendBack
    <3>2. Place(m, "back")'
      BY <1>2, <2>0, <2>1, <2>4 DEF Stage, Place, SameIn
    <3>3. Fields(m, "back")'
      BY <2>1, <3>1 DEF Fields, Early, Asked, Replied
    <3>4. Noted(m, "back")'
      BY <1>2, <2>0, <2>1 DEF Stage, Noted, Early
    <3>5. QED
      BY <2>5, <3>2, <3>3, <3>4 DEF Stage, Stages, Replied
  <2>8. QED
    BY <2>6, <2>7
<1>8. QED
  BY <1>3, <1>6, <1>7, Others
LEMMA HandleStep ==
  ASSUME IInv, NEW s \in Side, Handle(s) PROVE RequestInv'
<1>1. PICK m \in Msg :
         /\ Pop(s, m) /\ dest[m] = s /\ req' = [req EXCEPT ![s] = Tail(@)]
         /\ pc' = [pc EXCEPT ![s] = "drain"]
         /\ \/ /\ type[m] = "REQ"
               /\ serving' = [serving EXCEPT ![m] = @ + 1]
               /\ UNCHANGED <<rsp, sem>>
            \/ /\ type[m] = "RSP"
               /\ \/ s = "MINOR" /\ UNCHANGED <<rsp, sem>>
                  \/ /\ Delete(rsp, rsp', s, m)
                     /\ sem' = [sem EXCEPT ![m] = TRUE]
               /\ UNCHANGED serving
            \/ type[m] = "NOTIFY" /\ UNCHANGED <<rsp, sem, serving>>
  BY DEF Handle, Goto, Delete
<1>2. UNCHANGED <<type, dest, count, ack_flag, waiting, queue, cur, send_ack_flag,
                  rsp_sem, wire, cmpl>>
  BY DEF Handle, channel
<1>3. /\ RequestInv /\ req \in [Side -> Seq(Msg)] /\ rsp \in [Side -> Seq(Request)]
      /\ pc \in [Side -> {"pop", "sent", "acked", "drain", "sleep"}]
      /\ sem \in [Request -> BOOLEAN] /\ serving \in [Request -> Nat]
  BY DEF IInv, TypeOK
<1>4. /\ m \in ToSet(req[s]) /\ req[s] # <<>> /\ m = Head(req[s]) /\ cur[s] = NoMsg
      /\ ~rsp_sem[s] /\ \A e \in ToSet(queue[s]) : e[2] # 1
  BY <1>1, PopFacts
<1>5. Taken(req, req', s, m)
  <2>1. Take(req, req', s)
    BY <1>1, <1>4 DEF Take
  <2>2. QED
    BY <1>3, <1>4, <2>1, TakeFacts
<1>6. Once(rsp[s], m)
  <2>1. CASE m \in Request
    BY <1>3, <2>1 DEF RequestInv, Bounded
  <2>2. CASE m \notin Request
    BY <1>3, <2>2 DEF Once
  <2>3. QED
    BY <2>1, <2>2
<1>7. UNCHANGED rsp \/ Taken(rsp, rsp', s, m)
  BY <1>1, <1>3, <1>6, DeleteFacts
<1>8. ASSUME NEW r \in Request \ {m} PROVE Same(r)
  <2>1. SameFields(r)
    BY <1>1, <1>2, <1>3 DEF SameFields
  <2>2. SameIn(req, req', r) /\ SameIn(rsp, rsp', r)
    BY <1>5, <1>7, NothingSame DEF Taken, SameBut
  <2>3. SameLists(r)
    BY <1>2, <2>2, NothingSame DEF SameLists
  <2>4. SameWire(r)
    BY <1>2 DEF SameWire
  <2>5. cur[s] # r
    BY <1>4, Sides DEF Msg
  <2>6. SameThread(r)
    BY <1>1, <1>2, <1>3, <2>5 DEF SameThread
  <2>7. QED
    BY <2>1, <2>3, <2>4, <2>6 DEF Same
<1>9. ASSUME m \in Request PROVE Bounded(m)' /\ \E z \in Stages : Stage(m, z)'
  <2> USE DEF Listed, Queued, Wired
  <2>0. /\ From[m] \in Side /\ To[m] \in Side /\ From[m] # To[m]
        /\ From[m] # "MINOR" /\ m # NoMsg
    BY <1>9, Sides
  <2>1. PICK z \in {"called", "back", "taken", "answered"} :
          /\ Stage(m, z) /\ Bounded(m)
          /\ \/ s = From[m] /\ z \in {"called", "back"}
             \/ s = To[m] /\ z \in {"taken", "answered"}
    BY <1>3, <1>4, <1>9, ListedStage
  <2>2. z \in {"back", "taken"}
    BY <1>1, <2>0, <2>1 DEF Stage, Fields, Early, Replied
  <2>3. /\ \A y \in Side \ {s} : req'[y] = req[y]
        /\ m \notin ToSet(req'[s]) /\ \A y \in Side : Once(req'[y], m)
    BY <1>5, <2>1 DEF Taken, SameBut, Bounded
  <2>4. CASE z = "taken"
    <3>1. s = To[m] /\ type[m] = "REQ" /\ serving[m] = 0
      BY <2>0, <2>1, <2>4 DEF Stage, Place, Fields, Asked
    <3>2. serving'[m] = 1 /\ UNCHANGED <<rsp, sem>>
      BY <1>1, <1>3, <1>9, <3>1
    <3>3. Bounded(m)'
      BY <1>2, <2>1, <2>3, <3>2 DEF Bounded
    <3>4. Place(m, "serving")'
      BY <1>2, <2>0, <2>1, <2>3, <2>4, <3>1, <3>2 DEF Stage, Place
    <3>5. Fields(m, "serving")'
      BY <1>2, <2>1, <2>4 DEF Stage, Fields, Early, Asked, Replied
    <3>6. Noted(m, "serving")'
      BY <1>1, <1>2, <1>3, <1>4, <2>0, <2>1, <2>4, <3>1, <3>2 DEF Stage, Noted, Early
    <3>7. QED
      BY <3>3, <3>4, <3>5, <3>6 DEF Stage, Stages, Asked
  <2>5. CASE z = "back"
    <3>1. s = From[m] /\ type[m] = "RSP"
      BY <2>0, <2>1, <2>5 DEF Stage, Fields, Replied
    <3>2. Taken(rsp, rsp', s, m) /\ sem'[m] /\ UNCHANGED serving
      BY <1>1, <1>3, <1>6, <1>9, <2>0, <3>1, DeleteFacts
    <3>3. /\ \A y \in Side \ {s} : rsp'[y] = rsp[y]
          /\ m \notin ToSet(rsp'[s]) /\ \A y \in Side : Once(rsp'[y], m)
      BY <1>6, <2>1, <3>2 DEF Taken, SameBut, Bounded
    <3>4. <<m, 1>> \notin ToSet(queue'[s])
      BY <1>2, <1>4
    <3>5. Bounded(m)'
      BY <1>2, <2>1, <2>3, <3>3 DEF Bounded
    <3>6. Place(m, "done")'
      BY <1>2, <2>0, <2>1, <2>3, <2>5, <3>1, <3>2 DEF Stage, Place
    <3>7. Fields(m, "done")'
      BY <1>2, <2>1, <2>5 DEF Stage, Fields, Early, Asked, Replied
    <3>8. Noted(m, "done")'
      BY <1>1, <1>2, <1>3, <1>4, <2>0, <2>1, <2>5, <3>1, <3>3, <3>4 DEF Stage, Noted, Early
    <3>9. QED
      BY <3>5, <3>6, <3>7, <3>8 DEF Stage, Stages
  <2>6. QED
    BY <2>2, <2>4, <2>5
<1>10. QED
  BY <1>3, <1>8, <1>9, Others

LEMMA SendStep ==
  ASSUME Punctual, IInv, NEW s \in Side, Send(s) PROVE RequestInv'
<1>1. PICK m \in Msg :
         /\ Pop(s, m) /\ count[m] <= 2 /\ <<s, dest[m]>> \in Link
         /\ ack_flag' = [ack_flag EXCEPT ![m] = "SEND"]
         /\ \/ /\ wire' = wire \cup {<<s, dest[m], m>>}
               /\ cur' = [cur EXCEPT ![s] = m] /\ pc' = [pc EXCEPT ![s] = "sent"]
               /\ send_ack_flag' = [send_ack_flag EXCEPT ![s] = type[m] # "RSP"]
               /\ req' = [req EXCEPT ![s] = Tail(@)]
               /\ UNCHANGED <<type, dest, count>>
            \/ /\ Busy(<<s, dest[m]>>) /\ SendBack(s, m)
               /\ pc' = [pc EXCEPT ![s] = "drain"]
               /\ req' = [req EXCEPT ![s] = Append(Tail(@), m)]
               /\ UNCHANGED <<wire, cur, send_ack_flag>>
  BY DEF Send, Goto
<1>2. UNCHANGED <<sem, waiting, rsp, queue, rsp_sem, cmpl, stuck, serving>>
  BY DEF Send, callers
<1>3. /\ RequestInv /\ req \in [Side -> Seq(Msg)]
      /\ pc \in [Side -> {"pop", "sent", "acked", "drain", "sleep"}]
      /\ type \in [Msg -> {"REQ", "RSP", "NOTIFY"}] /\ dest \in [Msg -> Side]
      /\ count \in [Msg -> 0..3] /\ ack_flag \in [Msg -> {"SEND", "ACK"}]
      /\ cur \in [Side -> Msg \cup {NoMsg}] /\ send_ack_flag \in [Side -> BOOLEAN]
      /\ stuck \subseteq Lossy
  BY DEF IInv, TypeOK
<1>4. /\ m \in ToSet(req[s]) /\ req[s] # <<>> /\ m = Head(req[s]) /\ cur[s] = NoMsg
      /\ ~rsp_sem[s] /\ \A e \in ToSet(queue[s]) : e[2] # 1
      /\ \A y \in Side : <<s, y>> \notin cmpl /\ \A n \in Msg : <<s, y, n>> \notin wire
  BY <1>1, PopFacts
<1>5. /\ req' = [req EXCEPT ![s] = Tail(@)] => Taken(req, req', s, m)
      /\ req' = [req EXCEPT ![s] = Append(Tail(@), m)] => Moved(req, req')
  <2>1. ASSUME req' = [req EXCEPT ![s] = Tail(@)] PROVE Taken(req, req', s, m)
    <3>1. Take(req, req', s)
      BY <1>4, <2>1 DEF Take
    <3>2. QED
      BY <1>3, <1>4, <3>1, TakeFacts
  <2>2. ASSUME req' = [req EXCEPT ![s] = Append(Tail(@), m)] PROVE Moved(req, req')
    <3>1. Requeue(req, req', s, m)
      BY <1>4, <2>2 DEF Requeue
    <3>2. QED
      BY <1>3, <3>1, RequeueFacts
  <2>3. QED
    BY <2>1, <2>2
<1>6. ASSUME NEW r \in Request \ {m} PROVE Same(r)
  <2>1. SameFields(r)
    BY <1>1, <1>2, <1>3 DEF SameFields, SendBack, Msg
  <2>2. Taken(req, req', s, m) \/ Moved(req, req')
    BY <1>1, <1>5
  <2>3. SameLists(r)
    BY <1>2, <2>2, ReqOthers
  <2>4. SameWire(r)
    BY <1>1 DEF SameWire
  <2>5. cur[s] # r
    BY <1>4, Sides DEF Msg
  <2>6. SameThread(r)
    BY <1>1, <1>2, <1>3, <2>5 DEF SameThread
  <2>7. QED
    BY <2>1, <2>3, <2>4, <2>6 DEF Same
<1>7. ASSUME m \in Request PROVE Bounded(m)' /\ \E z \in Stages : Stage(m, z)'
  <2> USE DEF Listed, Queued, Wired
  <2>0. /\ From[m] \in Side /\ To[m] \in Side /\ From[m] # To[m] /\ m # NoMsg
    BY <1>7, Sides
  <2>1. PICK z \in {"called", "back", "taken", "answered"} :
          /\ Stage(m, z) /\ Bounded(m)
          /\ \/ s = From[m] /\ z \in {"called", "back"}
             \/ s = To[m] /\ z \in {"taken", "answered"}
    BY <1>3, <1>4, <1>7, ListedStage
  <2>2. dest[m] # s
    BY <1>1 DEF Link
  <2>3. \/ s = From[m] /\ z = "called" /\ dest[m] = To[m] /\ type[m] = "REQ"
        \/ s = To[m] /\ z = "answered" /\ dest[m] = From[m] /\ type[m] = "RSP"
    BY <2>1, <2>2 DEF Stage, Fields, Early, Asked, Replied
  <2>4. ack_flag'[m] = "SEND"
    BY <1>1, <1>3
  <2>5. <<m, 1>> \notin ToSet(queue'[s])
    BY <1>2, <1>4
  <2>6. CASE req' = [req EXCEPT ![s] = Tail(@)] /\ pc'[s] = "sent"
    <3>1. /\ wire' = wire \cup {<<s, dest[m], m>>}
          /\ cur' = [cur EXCEPT ![s] = m] /\ pc' = [pc EXCEPT ![s] = "sent"]
          /\ send_ack_flag' = [send_ack_flag EXCEPT ![s] = type[m] # "RSP"]
          /\ UNCHANGED <<type, dest, count>>
      BY <1>1, <1>3, <2>6
    <3>2. /\ \A y \in Side \ {s} : req'[y] = req[y]
          /\ m \notin ToSet(req'[s]) /\ \A y \in Side : Once(req'[y], m)
      BY <1>5, <2>1, <2>6 DEF Taken, SameBut, Bounded
    <3>3. Bounded(m)'
      BY <1>2, <1>3, <2>0, <2>1, <2>3, <3>1, <3>2 DEF Bounded
    <3>4. CASE z = "called"
      <4>1. s = From[m] /\ dest[m] = To[m] /\ type[m] = "REQ"
        BY <2>3, <3>4
      <4>2. Place(m, "sent")'
        BY <1>2, <2>0, <2>1, <3>1, <3>2, <3>4, <4>1 DEF Stage, Place
      <4>3. Fields(m, "sent")'
        BY <1>1, <2>4, <3>1, <4>1 DEF Fields, Early, Asked, Replied
      <4>4. m \notin ToSet(rsp[s])
        BY <2>1, <3>4, <4>1 DEF Stage, Noted, Early
      <4>5. Noted(m, "sent")'
        BY <1>2, <1>3, <2>0, <2>1, <2>5, <3>1, <3>4, <4>1, <4>4 DEF Stage, Noted, Early
      <4>6. QED
        BY <3>3, <4>2, <4>3, <4>5 DEF Stage, Stages, Early
    <3>5. CASE z = "answered"
      <4>1. s = To[m] /\ dest[m] = From[m] /\ type[m] = "RSP"
        BY <2>3, <3>5
      <4>2. Place(m, "returned")'
        BY <1>2, <2>0, <2>1, <3>1, <3>2, <3>5, <4>1 DEF Stage, Place
      <4>3. Fields(m, "returned")'
        BY <1>1, <2>4, <3>1, <4>1 DEF Fields, Early, Asked, Replied
      <4>4. Noted(m, "returned")'
        BY <1>2, <1>3, <2>0, <2>1, <3>1, <3>5, <4>1 DEF Stage, Noted, Early
      <4>5. QED
        BY <3>3, <4>2, <4>3, <4>4 DEF Stage, Stages, Replied
    <3>6. QED
      BY <2>3, <3>4, <3>5
  <2>7. CASE /\ Busy(<<s, dest[m]>>) /\ SendBack(s, m)
             /\ pc' = [pc EXCEPT ![s] = "drain"]
             /\ req' = [req EXCEPT ![s] = Append(Tail(@), m)]
             /\ UNCHANGED <<wire, cur, send_ack_flag>>
    <3>1. SameIn(req, req', m)
      BY <1>5, <2>7 DEF Moved
    <3>2. Bounded(m)'
      BY <1>2, <2>1, <2>7, <3>1 DEF Bounded, SameIn
    <3>3. <<s, dest[m]>> \in Lossy
      BY <1>1, <1>3, <1>4, <2>7 DEF Busy, UnderWay
    <3>4. CASE s = "MAJOR"
      <4>1. UNCHANGED <<type, dest, count>>
        BY <2>7, <3>4 DEF SendBack
      <4>2. Place(m, z)' /\ Fields(m, z)'
        BY <1>2, <2>0, <2>1, <2>3, <2>7, <3>1, <4>1 DEF Stage, Place, Fields, SameIn,
           Early, Asked, Replied
      <4>3. Noted(m, z)'
        BY <1>2, <1>3, <1>4, <2>0, <2>1, <2>3, <2>7, <4>1 DEF Stage, Noted
      <4>4. QED
        BY <2>3, <3>2, <4>2, <4>3 DEF Stage, Stages, Early, Replied
    <3>5. CASE s # "MAJOR"
      <4>1. s = From[m] /\ z = "called"
        BY <1>7, <2>3, <3>3, <3>5 DEF Punctual, AnswersKept
      <4>2. /\ type'[m] = "RSP" /\ dest'[m] = s /\ count'[m] = 0
        BY <1>3, <2>7, <3>5 DEF SendBack
      <4>3. Place(m, "back")'
        BY <1>2, <2>0, <2>1, <2>7, <3>1, <4>1 DEF Stage, Place, SameIn
      <4>4. Fields(m, "back")'
        BY <4>1, <4>2 DEF Fields, Early, Asked, Replied
      <4>5. Noted(m, "back")'
        BY <1>2, <1>3, <1>4, <2>0, <2>1, <2>7, <4>1 DEF Stage, Noted, Early
      <4>6. QED
        BY <3>2, <4>3, <4>4, <4>5 DEF Stage, Stages, Replied
    <3>6. QED
      BY <3>4, <3>5
  <2>8. QED
    BY <1>1, <1>3, <2>6, <2>7
<1>8. QED
  BY <1>3, <1>6, <1>7, Others

(* What a step of the thread of s leaves of the message it was about.      *)
LEMMA CurrentStage ==
  ASSUME RequestInv, NEW s \in Side, NEW m \in Request, cur[s] = m
  PROVE  /\ Bounded(m) /\ s \in {From[m], To[m]}
         /\ \E z \in Stages : Stage(m, z)
BY DEF RequestInv, Bounded

LEMMA CompletedStep ==
  ASSUME IInv, NEW s \in Side, Completed(s) PROVE RequestInv'
<1> DEFINE Asking(m) == send_ack_flag[s] /\ type[m] = "REQ"
<1>0. cur[s] \in Msg
  BY DEF IInv, TypeOK, ThreadInv, Completed
<1>1. PICK m \in Msg :
      /\ m = cur[s]
      /\ pc[s] = "sent" /\ rsp_sem[s] /\ rsp_sem' = [rsp_sem EXCEPT ![s] = FALSE]
      /\ \/ /\ Asking(m) /\ ack_flag[m] = "ACK" /\ pc' = [pc EXCEPT ![s] = "acked"]
            /\ UNCHANGED <<cur, req, count>>
         \/ /\ ~(Asking(m) /\ ack_flag[m] = "ACK")
            /\ pc' = [pc EXCEPT ![s] = "drain"] /\ cur' = [cur EXCEPT ![s] = NoMsg]
            /\ \/ /\ Asking(m) /\ count' = [count EXCEPT ![m] = @ + 1]
                  /\ Put(req, req', s, m)
               \/ ~Asking(m) /\ UNCHANGED <<req, count>>
  BY <1>0 DEF Completed, Goto, Again, ToList, Put
<1>2. UNCHANGED <<type, dest, ack_flag, sem, waiting, rsp, queue, send_ack_flag,
                  wire, cmpl, serving>>
  BY DEF Completed, callers, channel
<1>3. /\ RequestInv /\ req \in [Side -> Seq(Msg)]
      /\ pc \in [Side -> {"pop", "sent", "acked", "drain", "sleep"}]
      /\ type \in [Msg -> {"REQ", "RSP", "NOTIFY"}] /\ count \in [Msg -> 0..3]
      /\ rsp_sem \in [Side -> BOOLEAN] /\ cur \in [Side -> Msg \cup {NoMsg}]
  BY DEF IInv, TypeOK
<1>4. /\ m \in Msg /\ m # NoMsg
      /\ \A y \in Side : \A n \in Msg : <<s, y, n>> \notin wire
  BY <1>1, Sides DEF IInv, ChannelInv, Wired
<1>5. UNCHANGED req \/ Added(req, req', s, m)
  BY <1>1, <1>3, <1>4, PutFacts
<1>cur. \/ cur'[s] = m /\ pc'[s] = "acked" /\ send_ack_flag[s]
        \/ cur'[s] = NoMsg
  <2>1. CASE Asking(m) /\ pc' = [pc EXCEPT ![s] = "acked"] /\ UNCHANGED cur
    BY <1>1, <1>3, <2>1
  <2>2. CASE cur' = [cur EXCEPT ![s] = NoMsg]
    BY <1>3, <2>2
  <2>3. QED
    BY <1>1, <2>1, <2>2
<1>6. ASSUME NEW r \in Request \ {m} PROVE Same(r)
  <2>1. SameFields(r)
    BY <1>1, <1>2, <1>3, <1>4 DEF SameFields, Msg
  <2>2. SameLists(r)
    BY <1>2, <1>5, NothingSame DEF SameLists, Added, SameBut
  <2>3. SameWire(r)
    BY <1>2 DEF SameWire
  <2>4. cur[s] # r /\ cur'[s] # r
    BY <1>1, <1>cur, Sides DEF Msg
  <2>5. \A x \in Side \ {s} : UNCHANGED <<pc[x], cur[x], rsp_sem[x]>>
    BY <1>1, <1>3
  <2>6. SameThread(r)
    BY <1>2, <2>4, <2>5 DEF SameThread
  <2>7. QED
    BY <2>1, <2>2, <2>3, <2>6 DEF Same
<1>7. ASSUME m \in Request PROVE Bounded(m)' /\ \E z \in Stages : Stage(m, z)'
  <2> USE DEF Listed, Queued, Wired
  <2>0. From[m] \in Side /\ To[m] \in Side /\ From[m] # To[m] /\ m # NoMsg
    BY <1>7, Sides
  <2>1. Bounded(m) /\ s \in {From[m], To[m]} /\ cur[s] = m
    BY <1>3, <1>7, <1>1, CurrentStage
  <2>2. PICK z \in Stages : Stage(m, z)
    BY <1>3, <1>7 DEF RequestInv
  <2>3. z # "sent" \/ s = To[m]
    BY <1>4, <2>0, <2>1, <2>2 DEF Stage, Place
  <2>4. \A x \in Side : x # s => UNCHANGED <<pc[x], cur[x], rsp_sem[x]>>
    BY <1>1, <1>3
  <2>6. CASE UNCHANGED <<req, count>>
    <3>1. z # "refused" \/ s # From[m]
      <4>1. ASSUME z = "refused", s = From[m] PROVE FALSE
        <5>1. Asking(m) /\ ack_flag[m] = "SEND"
          BY <2>0, <2>1, <2>2, <4>1 DEF Stage, Fields, Noted, Early
        <5>2. count'[m] = count[m] + 1
          BY <1>1, <1>3, <1>4, <5>1
        <5>3. count[m] \in 0..3
          BY <1>3, <1>4
        <5>4. QED
          BY <2>6, <5>2, <5>3
      <4>2. QED
        BY <4>1
    <3>2. Bounded(m)'
      BY <1>2, <2>1, <2>4, <2>6 DEF Bounded
    <3>3. Place(m, z)' /\ Fields(m, z)'
      BY <1>2, <2>2, <2>6 DEF Stage, Place, Fields
    <3>4. Noted(m, z)'
      BY <1>2, <2>0, <2>1, <2>2, <2>3, <2>4, <1>cur, <3>1 DEF Stage, Noted
    <3>5. QED
      BY <3>2, <3>3, <3>4 DEF Stage
  <2>7. CASE /\ Asking(m) /\ ack_flag[m] # "ACK" /\ Put(req, req', s, m)
             /\ cur' = [cur EXCEPT ![s] = NoMsg]
    <3>1. s = From[m] /\ z = "refused"
      BY <2>0, <2>1, <2>2, <2>3, <2>7 DEF Stage, Fields, Noted, Stages, Early, Asked, Replied
    <3>2. Added(req, req', s, m) /\ m \notin ToSet(req[s])
      BY <1>3, <1>4, <2>0, <2>2, <2>7, <3>1, PutFacts DEF Stage, Place
    <3>3. /\ \A y \in Side \ {s} : req'[y] = req[y]
          /\ m \in ToSet(req'[s]) /\ \A y \in Side : Once(req'[y], m)
      BY <2>1, <3>2 DEF Added, SameBut, Bounded
    <3>4. cur'[s] = NoMsg
      BY <1>3, <2>7
    <3>5. Bounded(m)'
      BY <1>2, <2>0, <2>1, <2>4, <3>1, <3>3, <3>4 DEF Bounded
    <3>6. Place(m, "called")'
      BY <1>2, <2>0, <2>2, <3>1, <3>3 DEF Stage, Place
    <3>7. Fields(m, "called")'
      BY <1>2, <2>2, <3>1 DEF Stage, Fields, Early, Asked, Replied
    <3>8. Noted(m, "called")'
      BY <1>2, <2>0, <2>2, <2>4, <3>1, <3>4 DEF Stage, Noted, Early
    <3>9. QED
      BY <3>5, <3>6, <3>7, <3>8 DEF Stage, Stages, Early
  <2>8. QED
    <3>1. CASE UNCHANGED <<req, count>>
      BY <2>6, <3>1
    <3>2. CASE ~UNCHANGED <<req, count>>
      BY <1>1, <2>7, <3>2
    <3>3. QED
      BY <3>1, <3>2
<1>8. QED
  BY <1>3, <1>6, <1>7, Others

LEMMA TimeoutStep ==
  ASSUME Punctual, IInv, NEW s \in Side, Timeout(s) PROVE RequestInv'
<1>0. cur[s] \in Msg
  BY DEF IInv, TypeOK, ThreadInv, Timeout
<1>1. PICK m \in Msg :
      /\ m = cur[s] /\ pc[s] = "sent" /\ ~rsp_sem[s] /\ \A l \in Link : l[1] = s => ~UnderWay(l)
      /\ pc' = [pc EXCEPT ![s] = "drain"] /\ cur' = [cur EXCEPT ![s] = NoMsg]
      /\ \/ /\ type[m] = "REQ" /\ count' = [count EXCEPT ![m] = @ + 1]
            /\ Put(req, req', s, m)
         \/ type[m] # "REQ" /\ UNCHANGED <<req, count>>
  BY <1>0 DEF Timeout, Goto, Again, ToList, Put, Punctual
<1>2. UNCHANGED <<type, dest, ack_flag, sem, waiting, rsp, queue, send_ack_flag,
                  rsp_sem, wire, cmpl, serving>>
  BY DEF Timeout, callers, channel
<1>3. /\ RequestInv /\ req \in [Side -> Seq(Msg)]
      /\ pc \in [Side -> {"pop", "sent", "acked", "drain", "sleep"}]
      /\ type \in [Msg -> {"REQ", "RSP", "NOTIFY"}] /\ count \in [Msg -> 0..3]
      /\ cur \in [Side -> Msg \cup {NoMsg}]
  BY DEF IInv, TypeOK
<1>4. m \in Msg
  BY <1>1
<1>5. UNCHANGED req \/ Added(req, req', s, m)
  BY <1>1, <1>3, <1>4, PutFacts
<1>6. \A x \in Side : x # s => UNCHANGED <<pc[x], cur[x]>>
  BY <1>1, <1>3
<1>7. cur'[s] = NoMsg
  BY <1>1, <1>3
<1>8. ASSUME NEW r \in Request \ {m} PROVE Same(r)
  <2>1. SameFields(r)
    BY <1>1, <1>2, <1>3, <1>4 DEF SameFields, Msg
  <2>2. SameLists(r)
    BY <1>2, <1>5, NothingSame DEF SameLists, Added, SameBut
  <2>3. cur[s] # r /\ cur'[s] # r
    BY <1>7, <1>1, Sides DEF Msg
  <2>4. SameWire(r) /\ SameThread(r)
    BY <1>2, <1>6, <2>3 DEF SameWire, SameThread
  <2>5. QED
    BY <2>1, <2>2, <2>4 DEF Same
<1>9. ASSUME m \in Request PROVE Bounded(m)' /\ \E z \in Stages : Stage(m, z)'
  <2> USE DEF Listed, Queued, Wired
  <2>0. /\ From[m] \in Side /\ To[m] \in Side /\ From[m] # To[m] /\ m # NoMsg
        /\ <<From[m], To[m]>> \in Link /\ <<To[m], From[m]>> \in Link
    BY <1>4, <1>9, Sides DEF Link
  <2>1. Bounded(m) /\ s \in {From[m], To[m]} /\ cur[s] = m
    BY <1>3, <1>9, <1>1, CurrentStage
  <2>2. PICK z \in Stages : Stage(m, z)
    BY <1>3, <1>9 DEF RequestInv
  <2>3. CASE s = From[m]
    <3>1. <<From[m], To[m]>> \notin cmpl /\ <<From[m], To[m], m>> \notin wire
      BY <1>1, <1>4, <2>0, <2>3 DEF UnderWay
    <3>2. z = "refused"
      BY <1>1, <2>1, <2>2, <2>3, <3>1 DEF Stage, Place, Noted
    <3>3. type[m] = "REQ" /\ m \notin ToSet(req[s])
      BY <2>0, <2>2, <2>3, <3>2 DEF Stage, Place, Fields, Early
    <3>4. Added(req, req', s, m)
      BY <1>1, <1>3, <1>4, <3>3, PutFacts
    <3>5. /\ \A y \in Side \ {s} : req'[y] = req[y]
          /\ m \in ToSet(req'[s]) /\ \A y \in Side : Once(req'[y], m)
      BY <2>1, <3>3, <3>4 DEF Added, SameBut, Bounded
    <3>6. Bounded(m)'
      BY <1>2, <1>6, <1>7, <2>0, <2>1, <2>3, <3>5 DEF Bounded
    <3>7. Place(m, "called")'
      BY <1>2, <2>0, <2>2, <2>3, <3>2, <3>5 DEF Stage, Place
    <3>8. Fields(m, "called")'
      BY <1>2, <2>2, <3>2 DEF Stage, Fields, Early, Asked, Replied
    <3>9. Noted(m, "called")'
      BY <1>2, <1>6, <1>7, <2>0, <2>2, <2>3, <3>2 DEF Stage, Noted, Early
    <3>10. QED
      BY <3>6, <3>7, <3>8, <3>9 DEF Stage, Stages, Early
  <2>4. CASE s = To[m]
    <3>1. <<To[m], From[m]>> \notin cmpl /\ <<To[m], From[m], m>> \notin wire
      BY <1>1, <1>4, <2>0, <2>4 DEF UnderWay
    <3>2. z = "lost" /\ type[m] = "RSP"
      BY <1>1, <2>1, <2>2, <2>4, <3>1 DEF Stage, Place, Noted
    <3>3. UNCHANGED <<req, count>>
      BY <1>1, <3>2
    <3>4. Bounded(m)'
      BY <1>2, <1>6, <1>7, <2>0, <2>1, <3>3 DEF Bounded
    <3>5. Place(m, z)' /\ Fields(m, z)'
      BY <1>2, <2>2, <3>3 DEF Stage, Place, Fields
    <3>6. Noted(m, z)'
      BY <1>2, <1>6, <1>7, <2>0, <2>2, <2>4 DEF Stage, Noted
    <3>7. QED
      BY <3>4, <3>5, <3>6 DEF Stage
  <2>5. QED
    BY <2>1, <2>3, <2>4
<1>10. QED
  BY <1>3, <1>8, <1>9, Others

LEMMA AckedStep ==
  ASSUME IInv, NEW s \in Side, Acked(s) PROVE RequestInv'
<1>1. PICK m \in Request :
         /\ m = cur[s] /\ send_ack_flag[s] /\ pc[s] = "acked"
         /\ queue' = queue \/ Put(queue, queue', s, <<m, 1>>)
         /\ pc' = [pc EXCEPT ![s] = "drain"] /\ cur' = [cur EXCEPT ![s] = NoMsg]
  BY DEF Acked, ToQueue, Goto, Put, IInv, ThreadInv
<1>2. UNCHANGED <<type, dest, count, ack_flag, sem, waiting, req, rsp, send_ack_flag,
                  rsp_sem, wire, cmpl, serving>>
  BY DEF Acked, message, callers, channel
<1>3. /\ RequestInv /\ queue \in [Side -> Seq(Msg \X {0, 1})]
      /\ pc \in [Side -> {"pop", "sent", "acked", "drain", "sleep"}]
      /\ cur \in [Side -> Msg \cup {NoMsg}] /\ m \in Msg
  BY DEF IInv, TypeOK, Msg
<1>4. UNCHANGED queue \/ Added(queue, queue', s, <<m, 1>>)
  <2>1. CASE UNCHANGED queue
    BY <2>1
  <2>2. CASE Put(queue, queue', s, <<m, 1>>)
    <3>1. <<m, 1>> \in Msg \X {0, 1}
      BY <1>3
    <3>2. QED
      BY <1>3, <2>2, <3>1, PutFacts
  <2>3. QED
    BY <1>1, <2>1, <2>2
<1>5. /\ \A x \in Side : x # s => UNCHANGED <<pc[x], cur[x]>>
      /\ cur'[s] = NoMsg
  BY <1>1, <1>3
<1>6. ASSUME NEW r \in Request \ {m} PROVE Same(r)
  <2>1. SameFields(r)
    BY <1>2 DEF SameFields
  <2>2. <<r, 0>> # <<m, 1>> /\ <<r, 1>> # <<m, 1>>
    OBVIOUS
  <2>3. SameLists(r)
    BY <1>2, <1>4, <2>2, NothingSame DEF SameLists, Added, SameBut
  <2>4. cur[s] # r /\ cur'[s] # r
    BY <1>1, <1>5, Sides DEF Msg
  <2>5. SameWire(r) /\ SameThread(r)
    BY <1>2, <1>5, <2>4 DEF SameWire, SameThread
  <2>6. QED
    BY <2>1, <2>3, <2>5 DEF Same
<1>7. Bounded(m)' /\ \E z \in Stages : Stage(m, z)'
  <2> USE DEF Listed, Queued, Wired
  <2>0. From[m] \in Side /\ To[m] \in Side /\ From[m] # To[m] /\ m # NoMsg
    BY <1>3, Sides
  <2>1. Bounded(m) /\ s \in {From[m], To[m]} /\ cur[s] = m
    BY <1>1, <1>3, CurrentStage
  <2>2. PICK z \in Stages : Stage(m, z)
    BY <1>3 DEF RequestInv
  <2>3. s = From[m]
    BY <1>1, <2>1, <2>2 DEF Stage, Noted
  <2>4. /\ z \notin {"idle", "done"} \cup Early
        /\ <<m, 1>> \notin ToSet(queue[s]) /\ m \notin ToSet(rsp[s])
    BY <1>1, <2>1, <2>2, <2>3 DEF Stage, Noted, Early
  <2>5. /\ \A x \in Side : SameIn(queue, queue', <<m, 0>>)
        /\ \A x \in Side : x # s => queue'[x] = queue[x]
        /\ Once(queue'[s], <<m, 1>>)
    <3>1. CASE UNCHANGED queue
      BY <2>0, <2>1, <2>3, <3>1, NothingSame DEF Bounded
    <3>2. CASE Added(queue, queue', s, <<m, 1>>)
      <4>1. <<m, 0>> # <<m, 1>>
        OBVIOUS
      <4>2. QED
        BY <2>4, <3>2, <4>1 DEF Added, SameBut
    <3>3. QED
      BY <1>4, <3>1, <3>2
  <2>6. Bounded(m)'
    BY <1>2, <1>5, <2>0, <2>1, <2>3, <2>5 DEF Bounded, SameIn
  <2>7. Place(m, z)'
    BY <1>2, <2>0, <2>2, <2>5 DEF Stage, Place, SameIn
  <2>8. Fields(m, z)'
    BY <1>2, <2>2 DEF Stage, Fields
  <2>9. Noted(m, z)'
    BY <1>2, <1>5, <2>0, <2>2, <2>3, <2>4 DEF Stage, Noted, Early
  <2>10. QED
    BY <2>6, <2>7, <2>8, <2>9 DEF Stage
<1>8. QED
  BY <1>3, <1>6, <1>7, Others

(* The thread sleeps, wakes or has drained its queue: no request moves.     *)
LEMMA IdleStep ==
  ASSUME IInv, NEW s \in Side,
         Sleep(s) \/ Wake(s) \/ (Drain(s) /\ queue[s] = <<>>)
  PROVE  RequestInv'
<1>1. /\ pc[s] \in {"pop", "sleep", "drain"}
      /\ \A x \in Side : x # s => pc'[x] = pc[x]
      /\ UNCHANGED <<type, dest, count, ack_flag, sem, waiting, req, rsp, queue, cur,
                     send_ack_flag, rsp_sem, wire, cmpl, serving>>
  <2>1. pc \in [Side -> {"pop", "sent", "acked", "drain", "sleep"}]
    BY DEF IInv, TypeOK
  <2>2. CASE Sleep(s)
    BY <2>1, <2>2 DEF Sleep, Goto, message, callers, lists, channel
  <2>3. CASE Wake(s)
    BY <2>1, <2>3 DEF Wake, Goto, message, callers, channel
  <2>4. CASE Drain(s) /\ queue[s] = <<>>
    BY <2>1, <2>4 DEF Drain, Goto, message, callers, channel
  <2>5. QED
    BY <2>2, <2>3, <2>4
<1>2. cur[s] = NoMsg
  BY <1>1 DEF IInv, ThreadInv
<1>3. ASSUME NEW r \in Request PROVE Same(r)
  <2>1. cur[s] # r
    BY <1>2, Sides DEF Msg
  <2>2. SameFields(r) /\ SameLists(r)
    BY <1>1, NothingSame DEF SameFields, SameLists
  <2>3. SameWire(r) /\ SameThread(r)
    BY <1>1, <2>1 DEF SameWire, SameThread
  <2>4. QED
    BY <2>2, <2>3 DEF Same
<1>4. QED
  BY <1>3, AllSame DEF IInv

LEMMA DrainStep ==
  ASSUME IInv, NEW s \in Side, Drain(s) PROVE RequestInv'
<1>0. /\ queue \in [Side -> Seq(Msg \X {0, 1})] /\ RequestInv
      /\ req \in [Side -> Seq(Msg)] /\ rsp \in [Side -> Seq(Request)]
  BY DEF IInv, TypeOK
<1>1. CASE queue[s] = <<>>
  BY <1>1, IdleStep DEF Drain
<1>2. CASE queue[s] # <<>>
  <2>1. /\ Take(queue, queue', s)
        /\ Head(queue[s]) \in Msg \X {0, 1} /\ Head(queue[s]) \in ToSet(queue[s])
    BY <1>0, <1>2, TailFacts DEF Drain, Take
  <2>2. PICK m \in Msg, ori \in {0, 1} : Head(queue[s]) = <<m, ori>>
    BY <2>1
  <2>3. Taken(queue, queue', s, <<m, ori>>) /\ <<m, ori>> \in ToSet(queue[s])
    <3>1. Taken(queue, queue', s, Head(queue[s]))
      BY <1>0, <2>1, TakeFacts
    <3>2. QED
      BY <2>1, <2>2, <3>1
  <2>4. ori = 1 => m \in Request
    <3>1. <<m, ori>>[1] = m /\ <<m, ori>>[2] = ori
      OBVIOUS
    <3>2. QED
      BY <2>3, <3>1 DEF IInv, ThreadInv
  <2>5. /\ pc[s] = "drain"
        /\ \/ ori = 0 /\ Put(req, req', s, m) /\ UNCHANGED rsp
           \/ ori = 1 /\ Put(rsp, rsp', s, m) /\ UNCHANGED req
        /\ UNCHANGED <<pc, type, dest, count, ack_flag, sem, waiting, cur, send_ack_flag,
                       rsp_sem, wire, cmpl, serving>>
    BY <1>2, <2>2 DEF Drain, Put, message, callers, channel
  <2>6. cur[s] = NoMsg
    BY <2>5 DEF IInv, ThreadInv
  <2>7. /\ ori = 0 => Added(req, req', s, m) /\ UNCHANGED rsp
        /\ ori = 1 => Added(rsp, rsp', s, m) /\ UNCHANGED req
    <3>1. ASSUME ori = 0 PROVE Added(req, req', s, m) /\ UNCHANGED rsp
      <4>1. Put(req, req', s, m) /\ UNCHANGED rsp
        BY <2>5, <3>1
      <4>2. QED
        BY <1>0, <4>1, PutFacts
    <3>2. ASSUME ori = 1 PROVE Added(rsp, rsp', s, m) /\ UNCHANGED req
      <4>1. Put(rsp, rsp', s, m) /\ UNCHANGED req
        BY <2>5, <3>2
      <4>2. m \in Request
        BY <2>4, <3>2
      <4>3. QED
        BY <1>0, <4>1, <4>2, PutFacts
    <3>3. QED
      BY <3>1, <3>2
  <2>8. ASSUME NEW r \in Request \ {m} PROVE Same(r)
    <3>1. SameIn(req, req', r) /\ SameIn(rsp, rsp', r)
      BY <2>7, NothingSame DEF Added, SameBut
    <3>2. <<r, 0>> # <<m, ori>> /\ <<r, 1>> # <<m, ori>>
      OBVIOUS
    <3>3. SameLists(r)
      BY <2>3, <3>1, <3>2 DEF SameLists, Taken, SameBut
    <3>4. SameFields(r) /\ SameWire(r) /\ SameThread(r)
      BY <2>5 DEF SameFields, SameWire, SameThread
    <3>5. QED
      BY <3>3, <3>4 DEF Same
  <2>9. ASSUME m \in Request PROVE Bounded(m)' /\ \E z \in Stages : Stage(m, z)'
    <3> USE DEF Listed, Queued, Wired
    <3>0. From[m] \in Side /\ To[m] \in Side /\ From[m] # To[m] /\ m # NoMsg
      BY Sides
    <3>1. PICK z \in Stages : Stage(m, z)
      BY <1>0, <2>9 DEF RequestInv
    <3>2. Bounded(m)
      BY <1>0, <2>9 DEF RequestInv
    <3>3. /\ \A y \in Side : y # s => queue'[y] = queue[y]
          /\ <<m, ori>> \notin ToSet(queue'[s])
          /\ \A y \in Side : Once(queue'[y], <<m, 0>>) /\ Once(queue'[y], <<m, 1>>)
      <4>1. \A d : Once(queue[s], d) => Once(queue'[s], d)
        BY <2>3 DEF Taken, SameBut, SameIn
      <4>2. Once(queue[s], <<m, ori>>)
        BY <3>2 DEF Bounded
      <4>3. QED
        BY <2>3, <3>2, <4>1, <4>2 DEF Taken, SameBut, Bounded
    <3>4. CASE ori = 0
      <4>1. SameIn(queue, queue', <<m, 1>>)
        <5>1. <<m, 1>> # <<m, ori>>
          BY <3>4
        <5>2. QED
          BY <2>3, <5>1 DEF Taken, SameBut
      <4>2. \/ s = From[m] /\ z = "queued"
            \/ s = To[m] /\ z = "asked"
        BY <2>3, <3>1, <3>2, <3>4 DEF Bounded, Stage, Place
      <4>3. m \notin ToSet(req[s])
        BY <3>1, <4>2 DEF Stage, Place
      <4>4. /\ \A y \in Side : y # s => req'[y] = req[y]
            /\ m \in ToSet(req'[s]) /\ \A y \in Side : Once(req'[y], m)
        BY <2>7, <3>2, <3>4, <4>3 DEF Added, SameBut, Bounded
      <4>5. Bounded(m)'
        BY <2>5, <2>7, <3>0, <3>2, <3>3, <3>4, <4>1, <4>2, <4>4 DEF Bounded, SameIn
      <4>6. CASE z = "queued"
        <5>1. s = From[m]
          BY <4>2, <4>6
        <5>2. Place(m, "back")'
          BY <2>5, <3>0, <3>1, <3>3, <3>4, <4>4, <4>6, <5>1 DEF Stage, Place
        <5>3. Fields(m, "back")'
          BY <2>5, <3>1, <4>6 DEF Stage, Fields, Early, Asked, Replied
        <5>4. Noted(m, "back")'
          BY <2>5, <2>6, <2>7, <3>0, <3>1, <3>4, <4>1, <4>6, <5>1 DEF Stage, Noted, Early, SameIn
        <5>5. QED
          BY <4>5, <5>2, <5>3, <5>4 DEF Stage, Stages, Replied
      <4>7. CASE z = "asked"
        <5>1. s = To[m]
          BY <4>2, <4>7
        <5>2. Place(m, "taken")'
          BY <2>5, <3>0, <3>1, <3>3, <3>4, <4>4, <4>7, <5>1 DEF Stage, Place
        <5>3. Fields(m, "taken")'
          BY <2>5, <3>1, <4>7 DEF Stage, Fields, Early, Asked, Replied
        <5>4. Noted(m, "taken")'
          BY <2>5, <2>6, <2>7, <3>0, <3>1, <3>4, <4>1, <4>7, <5>1 DEF Stage, Noted, Early, SameIn
        <5>5. QED
          BY <4>5, <5>2, <5>3, <5>4 DEF Stage, Stages, Asked
      <4>8. QED
        BY <4>2, <4>6, <4>7
    <3>5. CASE ori = 1
      <4>1. SameIn(queue, queue', <<m, 0>>)
        <5>1. <<m, 0>> # <<m, ori>>
          BY <3>5
        <5>2. QED
          BY <2>3, <5>1 DEF Taken, SameBut
      <4>2. s = From[m]
        BY <2>3, <3>2, <3>5 DEF Bounded
      <4>3. m \notin ToSet(rsp[s]) /\ z \notin {"idle", "done"} \cup Early
        BY <2>3, <3>1, <3>5, <4>2 DEF Stage, Noted
      <4>4. /\ \A y \in Side : y # s => rsp'[y] = rsp[y]
            /\ \A y \in Side : Once(rsp'[y], m)
        BY <2>7, <3>2, <3>5, <4>3 DEF Added, SameBut, Bounded
      <4>5. Bounded(m)'
        BY <2>5, <2>7, <3>0, <3>2, <3>3, <3>5, <4>1, <4>2, <4>4 DEF Bounded, SameIn
      <4>6. Place(m, z)' /\ Fields(m, z)'
        BY <2>5, <2>7, <3>0, <3>1, <3>5, <4>1 DEF Stage, Place, Fields, SameIn
      <4>7. Noted(m, z)'
        BY <2>5, <2>6, <3>0, <3>1, <3>3, <3>5, <4>2, <4>3 DEF Stage, Noted
      <4>8. QED
        BY <4>5, <4>6, <4>7 DEF Stage
    <3>6. QED
      BY <3>4, <3>5
  <2>10. QED
    BY <1>0, <2>8, <2>9, Others
<1>3. QED
  BY <1>1, <1>2

(* The interrupts.                                                         *)
LEMMA WiredStage ==
  ASSUME RequestInv, NEW m \in Request, NEW x \in Side, NEW y \in Side,
         <<x, y, m>> \in wire
  PROVE  \E z \in {"sent", "returned"} :
           /\ Stage(m, z) /\ Bounded(m)
           /\ \/ z = "sent" /\ x = From[m] /\ y = To[m]
              \/ z = "returned" /\ x = To[m] /\ y = From[m]
<1>1. PICK z \in Stages : Stage(m, z)
  BY DEF RequestInv
<1>2. Bounded(m) /\ <<x, y>> \in {<<From[m], To[m]>>, <<To[m], From[m]>>}
  BY DEF RequestInv, Bounded, Wired
<1>3. QED
  BY <1>1, <1>2 DEF Stage, Place, Wired

LEMMA ReceiveStep ==
  ASSUME IInv, NEW l \in Link, Receive(l) PROVE RequestInv'
<1>0. PICK x \in Side, y \in Side : l = <<x, y>>
  BY DEF Link, Side
<1>1. PICK m \in Msg :
         /\ <<x, y, m>> \in wire /\ wire' = wire \ {<<x, y, m>>}
         /\ cmpl' = cmpl \cup {l}
         /\ \/ /\ ack_flag[m] = "SEND" /\ ack_flag' = [ack_flag EXCEPT ![m] = "ACK"]
               /\ queue' = queue \/ Put(queue, queue', y, <<m, 0>>)
            \/ ack_flag[m] # "SEND" /\ UNCHANGED <<ack_flag, queue>>
  BY <1>0 DEF Receive, ToQueue, Put
<1>2. UNCHANGED <<type, dest, count, sem, waiting, req, rsp, pc, cur, send_ack_flag,
                  rsp_sem, serving>>
  BY DEF Receive, callers, thread
<1>3. /\ RequestInv /\ queue \in [Side -> Seq(Msg \X {0, 1})]
      /\ ack_flag \in [Msg -> {"SEND", "ACK"}]
  BY DEF IInv, TypeOK
<1>4. UNCHANGED queue \/ Added(queue, queue', y, <<m, 0>>)
  <2>1. CASE UNCHANGED queue
    BY <2>1
  <2>2. CASE Put(queue, queue', y, <<m, 0>>)
    <3>1. <<m, 0>> \in Msg \X {0, 1}
      OBVIOUS
    <3>2. QED
      BY <1>3, <2>2, <3>1, PutFacts
  <2>3. QED
    BY <1>1, <2>1, <2>2
<1>5. ASSUME NEW r \in Request \ {m} PROVE Same(r)
  <2>1. SameFields(r)
    BY <1>1, <1>2, <1>3 DEF SameFields, Msg
  <2>2. <<r, 0>> # <<m, 0>> /\ <<r, 1>> # <<m, 0>>
    OBVIOUS
  <2>3. SameLists(r)
    BY <1>2, <1>4, <2>2, NothingSame DEF SameLists, Added, SameBut
  <2>4. SameWire(r) /\ SameThread(r)
    BY <1>1, <1>2 DEF SameWire, SameThread
  <2>5. QED
    BY <2>1, <2>3, <2>4 DEF Same
<1>6. ASSUME m \in Request PROVE Bounded(m)' /\ \E z \in Stages : Stage(m, z)'
  <2> USE DEF Listed, Queued, Wired
  <2>0. From[m] \in Side /\ To[m] \in Side /\ From[m] # To[m] /\ m # NoMsg
    BY Sides
  <2>1. PICK z \in {"sent", "returned"} :
          /\ Stage(m, z) /\ Bounded(m)
          /\ \/ z = "sent" /\ x = From[m] /\ y = To[m]
             \/ z = "returned" /\ x = To[m] /\ y = From[m]
    BY <1>1, <1>3, <1>6, WiredStage
  <2>2. ack_flag[m] = "SEND"
    BY <2>1 DEF Stage, Fields
  <2>3. ack_flag'[m] = "ACK"
    BY <1>1, <1>3, <2>2
  <2>4. <<m, 0>> \notin ToSet(queue[y])
    BY <2>1 DEF Stage, Place
  <2>5. /\ SameIn(queue, queue', <<m, 1>>)
        /\ \A v \in Side : v # y => queue'[v] = queue[v]
        /\ \A v \in Side : Once(queue'[v], <<m, 0>>)
    <3>1. CASE UNCHANGED queue
      BY <2>1, <3>1, NothingSame DEF Bounded
    <3>2. CASE Added(queue, queue', y, <<m, 0>>)
      <4>1. <<m, 1>> # <<m, 0>>
        OBVIOUS
      <4>2. QED
        BY <2>1, <2>4, <3>2, <4>1 DEF Added, SameBut, Bounded
    <3>3. QED
      BY <1>4, <3>1, <3>2
  <2>6. Bounded(m)'
    BY <1>1, <1>2, <2>0, <2>1, <2>5 DEF Bounded, SameIn
  <2>7. CASE z = "sent"
    <3>1. x = From[m] /\ y = To[m]
      BY <2>1, <2>7
    <3>2. ASSUME <<m, 0>> \in ToSet(queue'[y]) PROVE \E u \in Stages : Stage(m, u)'
      <4>1. Place(m, "asked")'
        BY <1>1, <1>2, <2>0, <2>1, <2>5, <2>7, <3>1, <3>2 DEF Stage, Place
      <4>2. Fields(m, "asked")'
        BY <1>2, <2>1, <2>3, <2>7 DEF Stage, Fields, Early, Asked, Replied
      <4>3. Noted(m, "asked")'
        BY <1>0, <1>1, <1>2, <2>0, <2>1, <2>5, <2>7, <3>1 DEF Stage, Noted, Early, SameIn
      <4>4. QED
        BY <4>1, <4>2, <4>3 DEF Stage, Stages, Asked
    <3>3. ASSUME <<m, 0>> \notin ToSet(queue'[y]) PROVE \E u \in Stages : Stage(m, u)'
      <4>1. Place(m, "lost")'
        BY <1>1, <1>2, <2>0, <2>1, <2>5, <2>7, <3>1, <3>3 DEF Stage, Place
      <4>2. Fields(m, "lost")'
        BY <1>2, <2>1, <2>3, <2>7 DEF Stage, Fields, Early, Asked, Replied
      <4>3. Noted(m, "lost")'
        BY <1>0, <1>1, <1>2, <2>0, <2>1, <2>5, <2>7, <3>1 DEF Stage, Noted, Early, SameIn
      <4>4. QED
        BY <4>1, <4>2, <4>3 DEF Stage, Stages
    <3>4. QED
      BY <2>6, <3>2, <3>3
  <2>8. CASE z = "returned"
    <3>1. x = To[m] /\ y = From[m]
      BY <2>1, <2>8
    <3>2. ASSUME <<m, 0>> \in ToSet(queue'[y]) PROVE \E u \in Stages : Stage(m, u)'
      <4>1. Place(m, "queued")'
        BY <1>1, <1>2, <2>0, <2>1, <2>5, <2>8, <3>1, <3>2 DEF Stage, Place
      <4>2. Fields(m, "queued")'
        BY <1>2, <2>1, <2>8 DEF Stage, Fields, Early, Asked, Replied
      <4>3. Noted(m, "queued")'
        BY <1>0, <1>1, <1>2, <2>0, <2>1, <2>5, <2>8, <3>1 DEF Stage, Noted, Early, SameIn
      <4>4. QED
        BY <4>1, <4>2, <4>3 DEF Stage, Stages, Replied
    <3>3. ASSUME <<m, 0>> \notin ToSet(queue'[y]) PROVE \E u \in Stages : Stage(m, u)'
      <4>1. Place(m, "lost")'
        BY <1>1, <1>2, <2>0, <2>1, <2>5, <2>8, <3>1, <3>3 DEF Stage, Place
      <4>2. Fields(m, "lost")'
        BY <1>2, <2>1, <2>3, <2>8 DEF Stage, Fields, Early, Asked, Replied
      <4>3. Noted(m, "lost")'
        BY <1>0, <1>1, <1>2, <2>0, <2>1, <2>5, <2>8, <3>1 DEF Stage, Noted, Early, SameIn
      <4>4. QED
        BY <4>1, <4>2, <4>3 DEF Stage, Stages
    <3>4. QED
      BY <2>6, <3>2, <3>3
  <2>9. QED
    BY <2>7, <2>8
<1>7. QED
  BY <1>3, <1>5, <1>6, Others

LEMMA FaultStep ==
  ASSUME IInv, NEW l \in Link, Fault(l) PROVE RequestInv'
<1>0. PICK x \in Side, y \in Side : l = <<x, y>>
  BY DEF Link, Side
<1>1. PICK m \in Msg : /\ <<x, y, m>> \in wire /\ wire' = wire \ {<<x, y, m>>}
                       /\ cmpl \subseteq cmpl'
  BY <1>0 DEF Fault
<1>2. UNCHANGED <<type, dest, count, ack_flag, sem, waiting, req, rsp, queue, pc, cur,
                  send_ack_flag, rsp_sem, serving>>
  BY DEF Fault, message, callers, lists, thread
<1>3. RequestInv
  BY DEF IInv
<1>4. ASSUME NEW r \in Request \ {m} PROVE Same(r)
  <2>1. SameFields(r) /\ SameLists(r)
    BY <1>2, NothingSame DEF SameFields, SameLists
  <2>2. SameWire(r) /\ SameThread(r)
    BY <1>1, <1>2 DEF SameWire, SameThread
  <2>3. QED
    BY <2>1, <2>2 DEF Same
<1>5. ASSUME m \in Request PROVE Bounded(m)' /\ \E z \in Stages : Stage(m, z)'
  <2> USE DEF Listed, Queued, Wired
  <2>0. From[m] \in Side /\ To[m] \in Side /\ From[m] # To[m] /\ m # NoMsg
    BY Sides
  <2>1. PICK z \in {"sent", "returned"} :
          /\ Stage(m, z) /\ Bounded(m)
          /\ \/ z = "sent" /\ x = From[m] /\ y = To[m]
             \/ z = "returned" /\ x = To[m] /\ y = From[m]
    BY <1>1, <1>3, <1>5, WiredStage
  <2>2. Bounded(m)'
    BY <1>1, <1>2, <2>1 DEF Bounded
  <2>3. CASE z = "sent"
    <3>1. Place(m, "refused")'
      BY <1>1, <1>2, <2>0, <2>1, <2>3 DEF Stage, Place
    <3>2. Fields(m, "refused")'
      BY <1>2, <2>1, <2>3 DEF Stage, Fields, Early, Asked, Replied
    <3>3. Noted(m, "refused")'
      BY <1>1, <1>2, <2>0, <2>1, <2>3 DEF Stage, Noted, Early
    <3>4. QED
      BY <2>2, <3>1, <3>2, <3>3 DEF Stage, Stages, Early
  <2>4. CASE z = "returned"
    <3>1. Place(m, "lost")'
      BY <1>1, <1>2, <2>0, <2>1, <2>4 DEF Stage, Place
    <3>2. Fields(m, "lost")'
      BY <1>2, <2>1, <2>4 DEF Stage, Fields, Early, Asked, Replied
    <3>3. Noted(m, "lost")'
      BY <1>1, <1>2, <2>0, <2>1, <2>4 DEF Stage, Fields, Noted, Early, Replied
    <3>4. QED
      BY <2>2, <3>1, <3>2, <3>3 DEF Stage, Stages
  <2>5. QED
    BY <2>3, <2>4
<1>6. QED
  BY <1>3, <1>4, <1>5, Others

LEMMA CompleteStep ==
  ASSUME IInv, NEW l \in Link, Complete(l) PROVE RequestInv'
<1>1. /\ cmpl' = cmpl \ {l} /\ rsp_sem' = [rsp_sem EXCEPT ![l[1]] = TRUE]
      /\ rsp_sem \in [Side -> BOOLEAN] /\ l[1] \in Side
      /\ UNCHANGED <<type, dest, count, ack_flag, sem, waiting, req, rsp, queue, pc,
                     cur, send_ack_flag, wire, serving>>
  BY DEF Complete, message, callers, lists, IInv, TypeOK, Link, Side
<1>2. ASSUME NEW r \in Request PROVE Same(r)
  <2>1. SameFields(r) /\ SameLists(r) /\ SameWire(r)
    BY <1>1, NothingSame DEF SameFields, SameLists, SameWire
  <2>2. ASSUME NEW x \in Side, NEW y \in Side, <<x, y>> \in cmpl
        PROVE  <<x, y>> \in cmpl' \/ rsp_sem'[x]
    <3>1. CASE <<x, y>> = l
      BY <1>1, <3>1
    <3>2. CASE <<x, y>> # l
      BY <1>1, <2>2, <3>2
    <3>3. QED
      BY <3>1, <3>2
  <2>3. \A x \in Side : rsp_sem[x] => rsp_sem'[x]
    BY <1>1
  <2>4. SameThread(r)
    BY <1>1, <2>2, <2>3 DEF SameThread
  <2>5. QED
    BY <2>1, <2>4 DEF Same
<1>3. QED
  BY <1>2, AllSame DEF IInv
-----------------------------------------------------------------------------
(* The channel and the threads.                                            *)
LEMMA ChannelSame ==
  ASSUME ChannelInv, cmpl \subseteq Link, UNCHANGED <<wire, cmpl, rsp_sem>>,
         \A x \in Side : pc[x] = "sent" => pc'[x] = "sent" /\ cur'[x] = cur[x]
  PROVE  ChannelInv'
<1>1. \A l \in cmpl : l[1] \in Side
  BY DEF Link, Side
<1>2. QED
  BY <1>1 DEF ChannelInv, Wired

LEMMA ChannelStep ==
  ASSUME Punctual, IInv, Next PROVE ChannelInv'
<1> USE DEF Wired
<1>0. /\ ChannelInv
      /\ pc \in [Side -> {"pop", "sent", "acked", "drain", "sleep"}]
      /\ cur \in [Side -> Msg \cup {NoMsg}] /\ rsp_sem \in [Side -> BOOLEAN]
      /\ dest \in [Msg -> Side] /\ cmpl \subseteq Link
  BY DEF IInv, TypeOK
<1>1. ASSUME NEW m \in Msg, Call(m) \/ Return(m) \/ Notify(m) \/ Respond(m)
      PROVE  ChannelInv'
  <2>1. UNCHANGED <<wire, cmpl, rsp_sem, pc, cur>>
    BY <1>1 DEF Call, Return, Notify, Respond, thread, channel
  <2>2. QED
    BY <1>0, <2>1, ChannelSame
<1>2. ASSUME NEW s \in Side,
             \/ GiveUp(s) \/ Handle(s) \/ Acked(s) \/ Drain(s) \/ Sleep(s) \/ Wake(s)
      PROVE  ChannelInv'
  <2>1. /\ UNCHANGED <<wire, cmpl, rsp_sem>>
        /\ \/ UNCHANGED <<pc, cur>>
           \/ /\ pc[s] # "sent" /\ \A x \in Side : x # s => UNCHANGED <<pc[x], cur[x]>>
    <3>1. CASE GiveUp(s)
      BY <3>1 DEF GiveUp, thread, channel
    <3>2. CASE Handle(s)
      BY <1>0, <3>2 DEF Handle, Pop, Goto, channel
    <3>3. CASE Acked(s)
      BY <1>0, <3>3 DEF Acked, Goto, channel
    <3>4. CASE Drain(s)
      BY <1>0, <3>4 DEF Drain, Goto, channel
    <3>5. CASE Sleep(s) \/ Wake(s)
      BY <1>0, <3>5 DEF Sleep, Wake, Goto, channel
    <3>6. QED
      BY <1>2, <3>1, <3>2, <3>3, <3>4, <3>5
  <2>2. QED
    BY <1>0, <2>1, ChannelSame
<1>3. ASSUME NEW s \in Side, Send(s) PROVE ChannelInv'
  <2>1. PICK m \in Msg :
          /\ Pop(s, m) /\ <<s, dest[m]>> \in Link /\ UNCHANGED <<rsp_sem, cmpl>>
          /\ \/ /\ wire' = wire \cup {<<s, dest[m], m>>}
                /\ cur' = [cur EXCEPT ![s] = m] /\ pc' = [pc EXCEPT ![s] = "sent"]
             \/ UNCHANGED <<wire, cur>> /\ pc' = [pc EXCEPT ![s] = "drain"]
    BY <1>3 DEF Send, Goto
  <2>2. /\ pc[s] = "pop" /\ ~rsp_sem[s] /\ dest[m] \in Side
        /\ \A y \in Side : <<s, y>> \notin cmpl /\ \A n \in Msg : <<s, y, n>> \notin wire
    BY <1>0, <2>1, PopFacts
  <2>3. CASE UNCHANGED <<wire, cur>> /\ pc' = [pc EXCEPT ![s] = "drain"]
    BY <1>0, <2>1, <2>2, <2>3, ChannelSame
  <2>4. CASE /\ wire' = wire \cup {<<s, dest[m], m>>}
             /\ cur' = [cur EXCEPT ![s] = m] /\ pc' = [pc EXCEPT ![s] = "sent"]
    <3>1. \A l \in cmpl : l[1] # s
      BY <1>0, <2>2 DEF Link, Side
    <3>2. /\ pc'[s] = "sent" /\ cur'[s] = m
          /\ \A x \in Side : x # s => pc'[x] = pc[x] /\ cur'[x] = cur[x]
      BY <1>0, <2>4
    <3>3. ASSUME NEW a \in Side, NEW b \in Side, NEW n \in Msg, <<a, b, n>> \in wire'
          PROVE  \/ a = s /\ b = dest[m] /\ n = m
                 \/ a # s /\ <<a, b, n>> \in wire
      BY <2>2, <2>4, <3>3
    <3>4. ASSUME NEW a \in Side, NEW b \in Side, NEW n \in Msg, <<a, b, n>> \in wire'
          PROVE  /\ <<a, b>> \in Link /\ pc'[a] = "sent" /\ ~rsp_sem[a] /\ cur'[a] = n
                 /\ \A l \in cmpl : l[1] # a
                 /\ \A c \in Side, k \in Msg : <<a, c, k>> \in wire' => c = b
      BY <1>0, <2>1, <2>2, <3>1, <3>2, <3>3, <3>4 DEF ChannelInv
    <3>5. /\ \A l \in cmpl : /\ pc'[l[1]] = "sent" /\ ~rsp_sem[l[1]]
                             /\ \A k \in cmpl : k[1] = l[1] => k = l
          /\ \A x \in Side : rsp_sem[x] => pc'[x] = "sent"
      <4>1. \A l \in cmpl : l[1] \in Side
        BY <1>0 DEF Link, Side
      <4>2. QED
        BY <1>0, <3>1, <3>2, <4>1 DEF ChannelInv
    <3>6. QED
      BY <2>1, <3>4, <3>5 DEF ChannelInv
  <2>5. QED
    BY <2>1, <2>3, <2>4
<1>4. ASSUME NEW s \in Side, Completed(s) \/ Timeout(s) PROVE ChannelInv'
  <2>1. /\ UNCHANGED <<wire, cmpl>> /\ pc[s] = "sent" /\ ~rsp_sem'[s]
        /\ \A x \in Side : x # s => UNCHANGED <<pc[x], cur[x], rsp_sem[x]>>
    <3>1. CASE Completed(s)
      BY <1>0, <3>1 DEF Completed, Goto, channel
    <3>2. CASE Timeout(s)
      BY <1>0, <3>2 DEF Timeout, Goto, channel
    <3>3. QED
      BY <1>4, <3>1, <3>2
  <2>2. /\ \A y \in Side, n \in Msg : <<s, y, n>> \notin wire
        /\ \A l \in cmpl : l[1] # s
    <3>1. CASE rsp_sem[s]
      BY <1>0, <3>1, ZenonT(40) DEF ChannelInv
    <3>2. CASE ~rsp_sem[s]
      <4>1. \A l \in Link : l[1] = s => ~UnderWay(l)
        BY <1>4, <3>2 DEF Completed, Timeout, Punctual
      <4>2. \A y \in Side, n \in Msg : <<s, y, n>> \in wire => <<s, y>> \in Link
        BY <1>0 DEF ChannelInv
      <4>3. ASSUME NEW y \in Side, NEW n \in Msg, <<s, y, n>> \in wire PROVE FALSE
        BY <4>1, <4>2, <4>3 DEF UnderWay
      <4>4. QED
        BY <1>0, <4>1, <4>3 DEF UnderWay
    <3>3. QED
      BY <3>1, <3>2
  <2>3. ASSUME NEW a \in Side, NEW b \in Side, NEW n \in Msg, <<a, b, n>> \in wire
        PROVE  /\ <<a, b>> \in Link /\ pc'[a] = "sent" /\ ~rsp_sem'[a] /\ cur'[a] = n
               /\ \A l \in cmpl : l[1] # a
               /\ \A c \in Side, k \in Msg : <<a, c, k>> \in wire => c = b
    BY <1>0, <2>1, <2>2, <2>3 DEF ChannelInv
  <2>4. /\ \A l \in cmpl : /\ pc'[l[1]] = "sent" /\ ~rsp_sem'[l[1]]
                           /\ \A k \in cmpl : k[1] = l[1] => k = l
        /\ \A x \in Side : rsp_sem'[x] => pc'[x] = "sent"
    <3>1. \A l \in cmpl : l[1] \in Side
      BY <1>0 DEF Link, Side
    <3>2. QED
      BY <1>0, <2>1, <2>2, <3>1 DEF ChannelInv
  <2>5. QED
    BY <2>1, <2>3, <2>4 DEF ChannelInv
<1>5. ASSUME NEW l \in Link, Receive(l) \/ Fault(l) PROVE ChannelInv'
  <2>0. PICK x \in Side, y \in Side : l = <<x, y>> /\ l[1] = x
    BY DEF Link, Side
  <2>1. PICK m \in Msg :
          /\ <<x, y, m>> \in wire /\ wire' = wire \ {<<x, y, m>>}
          /\ cmpl' = cmpl \cup {l} \/ cmpl' = cmpl
          /\ UNCHANGED <<pc, cur, rsp_sem>>
    BY <1>5, <2>0 DEF Receive, Fault, thread
  <2>2. /\ pc[x] = "sent" /\ ~rsp_sem[x] /\ cur[x] = m /\ \A k \in cmpl : k[1] # x
        /\ \A c \in Side, n \in Msg : <<x, c, n>> \in wire => c = y
    BY <1>0, <2>1 DEF ChannelInv
  <2>3. ASSUME NEW a \in Side, NEW b \in Side, NEW n \in Msg, <<a, b, n>> \in wire'
        PROVE  a # x /\ <<a, b, n>> \in wire
    <3>1. <<a, b, n>> \in wire /\ cur[a] = n
      BY <1>0, <2>1, <2>3 DEF ChannelInv
    <3>2. a = x => b = y /\ n = m
      BY <2>2, <3>1
    <3>3. QED
      BY <2>1, <2>3, <3>1, <3>2
  <2>4. ASSUME NEW a \in Side, NEW b \in Side, NEW n \in Msg, <<a, b, n>> \in wire'
        PROVE  /\ <<a, b>> \in Link /\ pc[a] = "sent" /\ ~rsp_sem[a] /\ cur[a] = n
               /\ \A k \in cmpl' : k[1] # a
               /\ \A c \in Side, k \in Msg : <<a, c, k>> \in wire' => c = b
    BY <1>0, <2>0, <2>1, <2>3, <2>4 DEF ChannelInv
  <2>5. \A k \in cmpl' : /\ pc[k[1]] = "sent" /\ ~rsp_sem[k[1]]
                         /\ \A j \in cmpl' : j[1] = k[1] => j = k
    BY <1>0, <2>0, <2>1, <2>2 DEF ChannelInv
  <2>6. \A v \in Side : rsp_sem[v] => pc[v] = "sent"
    BY <1>0 DEF ChannelInv
  <2>7. QED
    BY <2>1, <2>4, <2>5, <2>6 DEF ChannelInv
<1>6. ASSUME NEW l \in Link, Complete(l) PROVE ChannelInv'
  <2>1. /\ l \in cmpl /\ cmpl' = cmpl \ {l} /\ l[1] \in Side
        /\ rsp_sem'[l[1]] /\ \A x \in Side : x # l[1] => rsp_sem'[x] = rsp_sem[x]
        /\ UNCHANGED <<wire, pc, cur>>
    <3>1. l[1] \in Side
      BY DEF Link, Side
    <3>2. /\ l \in cmpl /\ cmpl' = cmpl \ {l} /\ UNCHANGED <<wire, pc, cur>>
          /\ rsp_sem' = [rsp_sem EXCEPT ![l[1]] = TRUE]
      BY <1>6 DEF Complete
    <3>3. QED
      BY <1>0, <3>1, <3>2
  <2>2. /\ pc[l[1]] = "sent" /\ \A k \in cmpl' : k[1] # l[1]
        /\ \A b \in Side, n \in Msg : <<l[1], b, n>> \notin wire
    BY <1>0, <2>1 DEF ChannelInv
  <2>3. \A k \in cmpl : k[1] \in Side
    BY <1>0 DEF Link, Side
  <2>4. QED
    BY <1>0, <2>1, <2>2, <2>3 DEF ChannelInv
<1>7. QED
  BY <1>1, <1>2, <1>3, <1>4, <1>5, <1>6 DEF Next, Thread

LEMMA NoticeStep ==
  ASSUME IInv, Next PROVE NoticeInv'
<1>0. /\ type \in [Msg -> {"REQ", "RSP", "NOTIFY"}] /\ NoticeInv
      /\ Notice \subseteq Msg /\ \A n \in Notice : n \notin Request
  BY MailboxAssumption DEF IInv, TypeOK, Msg
<1>1. CASE UNCHANGED type
  BY <1>0, <1>1 DEF NoticeInv
<1>2. CASE \E m \in Msg, v \in {"REQ", "RSP", "NOTIFY"} :
             type' = [type EXCEPT ![m] = v] /\ (v = "REQ" => m \in Request)
  BY <1>0, <1>2 DEF NoticeInv
<1>3. ASSUME NEW m \in Msg, Call(m) \/ Return(m) \/ Notify(m) \/ Respond(m)
      PROVE  NoticeInv'
  BY <1>1, <1>2, <1>3 DEF Call, Return, Notify, Respond
<1>4. ASSUME NEW s \in Side, NEW m \in Msg, SendBack(s, m) PROVE NoticeInv'
  BY <1>1, <1>2, <1>4 DEF SendBack
<1>5. ASSUME NEW s \in Side, Thread(s) \/ Timeout(s) PROVE NoticeInv'
  <2>1. CASE GiveUp(s)
    BY <1>1, <1>4, <2>1 DEF GiveUp
  <2>2. CASE Send(s)
    BY <1>1, <1>4, <2>2 DEF Send
  <2>3. CASE Handle(s) \/ Completed(s) \/ Timeout(s)
    BY <1>1, <2>3 DEF Handle, Completed, Timeout
  <2>4. CASE Acked(s) \/ Drain(s) \/ Sleep(s) \/ Wake(s)
    BY <1>1, <2>4 DEF Acked, Drain, Sleep, Wake, message
  <2>5. QED
    BY <1>5, <2>1, <2>2, <2>3, <2>4 DEF Thread
<1>6. ASSUME NEW l \in Link, Receive(l) \/ Complete(l) \/ Fault(l) PROVE NoticeInv'
  BY <1>1, <1>6 DEF Receive, Complete, Fault, message
<1>7. QED
  BY <1>3, <1>5, <1>6 DEF Next

LEMMA ThreadStep ==
  ASSUME Punctual, IInv, Next PROVE ThreadInv'
<1>0. /\ ThreadInv /\ NoticeInv
      /\ pc \in [Side -> {"pop", "sent", "acked", "drain", "sleep"}]
      /\ cur \in [Side -> Msg \cup {NoMsg}] /\ send_ack_flag \in [Side -> BOOLEAN]
      /\ queue \in [Side -> Seq(Msg \X {0, 1})] /\ NoMsg \notin Msg
  BY MailboxAssumption DEF IInv, TypeOK
<1> DEFINE Own(x) == /\ pc[x] \in {"sent", "acked"} <=> cur[x] # NoMsg
                     /\ pc[x] = "acked" => cur[x] \in Request /\ send_ack_flag[x]
           Ori(x) == \A e \in ToSet(queue[x]) : e[2] = 1 => e[1] \in Request /\ pc[x] = "drain"
<1>1. \A x \in Side : Own(x) /\ Ori(x)
  BY <1>0 DEF ThreadInv
<1>2. (\A x \in Side : (Own(x) /\ Ori(x))') => ThreadInv'
  BY DEF ThreadInv
<1>3. ASSUME UNCHANGED <<pc, cur, send_ack_flag, queue>> PROVE ThreadInv'
  BY <1>1, <1>2, <1>3
<1>4. ASSUME NEW m \in Msg, Call(m) \/ Return(m) \/ Notify(m) \/ Respond(m)
      PROVE  ThreadInv'
  BY <1>3, <1>4 DEF Call, Return, Notify, Respond, thread, lists
<1>5. ASSUME NEW s \in Side, UNCHANGED queue,
             \A x \in Side : x # s => UNCHANGED <<pc[x], cur[x], send_ack_flag[x]>>,
             Own(s)', pc'[s] = "drain" \/ pc[s] # "drain" \/ queue[s] = <<>>
      PROVE  ThreadInv'
  <2>1. queue[s] = <<>> => ToSet(queue[s]) = {}
    BY DEF ToSet
  <2>2. \A x \in Side : (Own(x) /\ Ori(x))'
    BY <1>1, <1>5, <2>1
  <2>3. QED
    BY <1>2, <2>2
<1>6. ASSUME NEW s \in Side, Thread(s) \/ Timeout(s) PROVE ThreadInv'
  <2>1. CASE GiveUp(s)
    BY <1>3, <2>1 DEF GiveUp, thread
  <2>2. CASE Handle(s)
    <3>1. /\ UNCHANGED <<queue, cur, send_ack_flag>> /\ pc[s] = "pop"
          /\ pc' = [pc EXCEPT ![s] = "drain"]
      BY <2>2 DEF Handle, Pop, Goto
    <3>2. QED
      BY <1>0, <1>1, <1>5, <3>1
  <2>3. CASE Send(s)
    <3>1. PICK m \in Msg :
            /\ pc[s] = "pop" /\ UNCHANGED queue
            /\ \/ /\ cur' = [cur EXCEPT ![s] = m] /\ pc' = [pc EXCEPT ![s] = "sent"]
                  /\ send_ack_flag' = [send_ack_flag EXCEPT ![s] = type[m] # "RSP"]
               \/ UNCHANGED <<cur, send_ack_flag>> /\ pc' = [pc EXCEPT ![s] = "drain"]
      BY <2>3 DEF Send, Pop, Goto
    <3>2. /\ \A x \in Side : x # s => UNCHANGED <<pc[x], cur[x], send_ack_flag[x]>>
          /\ \/ pc'[s] = "sent" /\ cur'[s] = m
             \/ pc'[s] = "drain" /\ cur'[s] = NoMsg
      BY <1>0, <1>1, <3>1
    <3>3. Own(s)'
      BY <1>0, <3>2
    <3>4. QED
      BY <1>5, <3>1, <3>2, <3>3
  <2>4. CASE Completed(s) \/ Timeout(s)
    <3>0. cur[s] \in Msg /\ pc[s] = "sent"
      BY <1>0, <2>4 DEF ThreadInv, Completed, Timeout
    <3>1. /\ UNCHANGED <<queue, send_ack_flag>>
          /\ \/ /\ pc' = [pc EXCEPT ![s] = "acked"] /\ UNCHANGED cur
                /\ type[cur[s]] = "REQ" /\ send_ack_flag[s]
             \/ pc' = [pc EXCEPT ![s] = "drain"] /\ cur' = [cur EXCEPT ![s] = NoMsg]
      BY <2>4 DEF Completed, Timeout, Goto
    <3>2. type[cur[s]] = "REQ" => cur[s] \in Request
      BY <1>0, <3>0 DEF NoticeInv, Msg
    <3>3. /\ \A x \in Side : x # s => UNCHANGED <<pc[x], cur[x], send_ack_flag[x]>>
          /\ \/ pc'[s] = "acked" /\ cur'[s] \in Request /\ cur'[s] # NoMsg /\ send_ack_flag'[s]
             \/ pc'[s] = "drain" /\ cur'[s] = NoMsg
      BY <1>0, <3>0, <3>1, <3>2
    <3>4. Own(s)'
      BY <3>3
    <3>5. QED
      BY <1>5, <3>0, <3>1, <3>3, <3>4
  <2>5. CASE Acked(s)
    <3>1. /\ queue' = queue \/ Put(queue, queue', s, <<cur[s], 1>>)
          /\ pc' = [pc EXCEPT ![s] = "drain"] /\ cur' = [cur EXCEPT ![s] = NoMsg]
          /\ UNCHANGED send_ack_flag /\ pc[s] = "acked"
      BY <2>5 DEF Acked, ToQueue, Put, Goto
    <3>2. cur[s] \in Request /\ cur[s] \in Msg
      BY <1>1, <3>1 DEF Msg
    <3>3. /\ \A x \in Side : x # s => queue'[x] = queue[x]
          /\ ToSet(queue'[s]) \subseteq ToSet(queue[s]) \cup {<<cur[s], 1>>}
      <4>1. CASE Put(queue, queue', s, <<cur[s], 1>>)
        <5>1. <<cur[s], 1>> \in Msg \X {0, 1}
          BY <3>2
        <5>2. Added(queue, queue', s, <<cur[s], 1>>)
          BY <1>0, <4>1, <5>1, PutFacts
        <5>3. QED
          BY <5>2 DEF Added, SameBut
      <4>2. QED
        BY <3>1, <4>1
    <3>4. /\ \A x \in Side : x # s => UNCHANGED <<pc[x], cur[x]>>
          /\ pc'[s] = "drain" /\ cur'[s] = NoMsg
      BY <1>0, <3>1
    <3>5. \A x \in Side : (Own(x) /\ Ori(x))'
      BY <1>1, <3>1, <3>2, <3>3, <3>4
    <3>6. QED
      BY <1>2, <3>5
  <2>6. CASE Drain(s) /\ queue[s] # <<>>
    <3>1. UNCHANGED <<pc, cur, send_ack_flag>> /\ Take(queue, queue', s)
      BY <2>6 DEF Drain, Take
    <3>2. Taken(queue, queue', s, Head(queue[s]))
      BY <1>0, <3>1, TakeFacts
    <3>3. \A x \in Side : ToSet(queue'[x]) \subseteq ToSet(queue[x])
      BY <3>2 DEF Taken, SameBut
    <3>4. \A x \in Side : (Own(x) /\ Ori(x))'
      BY <1>1, <3>1, <3>3
    <3>5. QED
      BY <1>2, <3>4
  <2>7. CASE (Drain(s) /\ queue[s] = <<>>) \/ Sleep(s) \/ Wake(s)
    <3>1. /\ UNCHANGED <<queue, cur, send_ack_flag>>
          /\ \/ pc[s] = "drain" /\ queue[s] = <<>> /\ pc' = [pc EXCEPT ![s] = "pop"]
             \/ pc[s] = "pop" /\ pc' = [pc EXCEPT ![s] = "sleep"]
             \/ pc[s] = "sleep" /\ pc' = [pc EXCEPT ![s] = "drain"]
      BY <2>7 DEF Drain, Sleep, Wake, Goto, lists
    <3>2. /\ \A x \in Side : x # s => UNCHANGED <<pc[x], cur[x], send_ack_flag[x]>>
          /\ pc'[s] \in {"pop", "sleep", "drain"} /\ cur[s] = NoMsg
      BY <1>0, <1>1, <3>1
    <3>3. Own(s)'
      BY <3>1, <3>2
    <3>4. QED
      BY <1>5, <3>1, <3>2, <3>3
  <2>8. QED
    BY <1>6, <2>1, <2>2, <2>3, <2>4, <2>5, <2>6, <2>7 DEF Thread
<1>7. ASSUME NEW l \in Link, Receive(l) PROVE ThreadInv'
  <2>0. l[2] \in Side
    BY DEF Link, Side
  <2>1. PICK m \in Msg : queue' = queue \/ Put(queue, queue', l[2], <<m, 0>>)
    BY <1>7 DEF Receive, ToQueue, Put
  <2>2. UNCHANGED <<pc, cur, send_ack_flag>>
    BY <1>7 DEF Receive, thread
  <2>3. \A x \in Side : ToSet(queue'[x]) \subseteq ToSet(queue[x]) \cup {<<m, 0>>}
    <3>1. CASE Put(queue, queue', l[2], <<m, 0>>)
      <4>1. <<m, 0>> \in Msg \X {0, 1}
        OBVIOUS
      <4>2. Added(queue, queue', l[2], <<m, 0>>)
        BY <1>0, <2>0, <3>1, <4>1, PutFacts
      <4>3. QED
        BY <4>2 DEF Added, SameBut
    <3>2. QED
      BY <2>1, <3>1
  <2>4. \A x \in Side : (Own(x) /\ Ori(x))'
    BY <1>1, <2>2, <2>3
  <2>5. QED
    BY <1>2, <2>4
<1>8. ASSUME NEW l \in Link, Complete(l) \/ Fault(l) PROVE ThreadInv'
  BY <1>3, <1>8 DEF Complete, Fault, lists, thread
<1>9. QED
  BY <1>4, <1>6, <1>7, <1>8 DEF Next
-----------------------------------------------------------------------------
(* The types.  A count grows only while the request may still be sent.      *)
LEMMA CountBound ==
  ASSUME Punctual, IInv, NEW s \in Side, NEW m \in Msg, m = cur[s], type[m] = "REQ",
         \/ Timeout(s)
         \/ Completed(s) /\ send_ack_flag[s] /\ ack_flag[m] # "ACK"
  PROVE  count[m] + 1 \in 0..3
<1> USE DEF Wired
<1>0. m \in Request /\ RequestInv /\ ChannelInv /\ count[m] \in 0..3
  BY DEF IInv, NoticeInv, Msg, TypeOK
<1>1. /\ From[m] \in Side /\ To[m] \in Side
      /\ <<From[m], To[m]>> \in Link /\ <<To[m], From[m]>> \in Link
  BY <1>0, Sides DEF Link
<1>2. PICK z \in Stages : Stage(m, z)
  BY <1>0 DEF RequestInv
<1>3. s \in {From[m], To[m]} /\ pc[s] = "sent"
  BY <1>0, CurrentStage DEF Timeout, Completed
<1>4. z \notin Replied
  BY <1>2 DEF Stage, Fields
<1>5. CASE Timeout(s)
  <2>1. ~rsp_sem[s] /\ \A l \in Link : l[1] = s => ~UnderWay(l)
    BY <1>5 DEF Timeout, Punctual
  <2>2. s = To[m] => <<To[m], From[m]>> \notin cmpl
    BY <1>1, <2>1 DEF UnderWay
  <2>3. s = From[m] => <<From[m], To[m]>> \notin cmpl
    BY <1>1, <2>1 DEF UnderWay
  <2>4. s = From[m] /\ z \in {"sent", "refused"}
    BY <1>2, <1>3, <1>4, <2>1, <2>2, <2>3 DEF Stage, Noted, Replied
  <2>5. count[m] <= 2
    BY <1>2, <2>4 DEF Stage, Fields
  <2>6. QED
    BY <1>0, <2>5
<1>6. CASE Completed(s) /\ send_ack_flag[s] /\ ack_flag[m] # "ACK"
  <2>1. s = From[m]
    BY <1>2, <1>3, <1>6 DEF Stage, Noted
  <2>2. z \in {"sent", "refused"}
    BY <1>2, <1>4, <1>6, <2>1 DEF Stage, Fields, Noted, Stages, Early
  <2>3. count[m] <= 2
    BY <1>2, <2>2 DEF Stage, Fields
  <2>4. QED
    BY <1>0, <2>3
<1>7. QED
  BY <1>5, <1>6

LEMMA PopType ==
  ASSUME TypeOK, NEW s \in Side, NEW m \in Msg, Pop(s, m)
  PROVE  /\ [req EXCEPT ![s] = Tail(@)] \in [Side -> Seq(Msg)]
         /\ [req EXCEPT ![s] = Append(Tail(@), m)] \in [Side -> Seq(Msg)]
<1>1. req \in [Side -> Seq(Msg)] /\ req[s] # <<>>
  BY DEF TypeOK, Pop
<1>2. Tail(req[s]) \in Seq(Msg)
  BY <1>1, TailFacts
<1>3. Append(Tail(req[s]), m) \in Seq(Msg)
  BY <1>2, AppendFacts
<1>4. QED
  BY <1>1, <1>2, <1>3

LEMMA SendBackType ==
  ASSUME TypeOK, NEW s \in Side, NEW m \in Msg, SendBack(s, m)
  PROVE  /\ type' \in [Msg -> {"REQ", "RSP", "NOTIFY"}] /\ dest' \in [Msg -> Side]
         /\ count' \in [Msg -> 0..3] /\ result' \in [Msg -> {"ok", "fail"}]
<1>1. /\ type \in [Msg -> {"REQ", "RSP", "NOTIFY"}] /\ dest \in [Msg -> Side]
      /\ count \in [Msg -> 0..3] /\ result \in [Msg -> {"ok", "fail"}] /\ 0 \in 0..3
  BY DEF TypeOK
<1>2. CASE UNCHANGED <<type, dest, count, result>>
  BY <1>1, <1>2
<1>3. CASE /\ type' = [type EXCEPT ![m] = "RSP"] /\ dest' = [dest EXCEPT ![m] = s]
           /\ count' = [count EXCEPT ![m] = 0] /\ result' = [result EXCEPT ![m] = "fail"]
  BY <1>1, <1>3
<1>4. QED
  BY <1>2, <1>3 DEF SendBack

LEMMA QueueType ==
  ASSUME TypeOK, NEW s \in Side, NEW m \in Msg, NEW ori \in {0, 1}, ToQueue(s, m, ori)
  PROVE  queue' \in [Side -> Seq(Msg \X {0, 1})]
<1>1. queue \in [Side -> Seq(Msg \X {0, 1})] /\ <<m, ori>> \in Msg \X {0, 1}
  BY DEF TypeOK
<1>2. Append(queue[s], <<m, ori>>) \in Seq(Msg \X {0, 1})
  BY <1>1, AppendFacts
<1>3. QED
  BY <1>1, <1>2 DEF ToQueue

LEMMA ListType ==
  ASSUME TypeOK, NEW s \in Side, NEW m \in Msg, ToList(s, m)
  PROVE  req' \in [Side -> Seq(Msg)] /\ mailbox_sem' \in [Side -> BOOLEAN]
<1>1. req \in [Side -> Seq(Msg)] /\ mailbox_sem \in [Side -> BOOLEAN]
  BY DEF TypeOK
<1>2. Append(req[s], m) \in Seq(Msg)
  BY <1>1, AppendFacts
<1>3. QED
  BY <1>1, <1>2 DEF ToList

LEMMA ThreadType ==
  ASSUME Punctual, IInv, NEW s \in Side, Thread(s) \/ Timeout(s) PROVE TypeOK'
<1> USE DEF message, callers, lists, thread, channel
<1>0. TypeOK
  BY DEF IInv
<1>1. CASE GiveUp(s)
  <2>1. PICK m \in Msg :
          /\ Pop(s, m)
          /\ \/ SendBack(s, m) /\ req' = [req EXCEPT ![s] = Append(Tail(@), m)]
             \/ UNCHANGED <<type, dest, count, result>> /\ req' = [req EXCEPT ![s] = Tail(@)]
          /\ UNCHANGED mailbox_sem \/ mailbox_sem' = [mailbox_sem EXCEPT ![s] = TRUE]
    BY <1>1 DEF GiveUp
  <2>2. req' \in [Side -> Seq(Msg)]
    <3>1. /\ [req EXCEPT ![s] = Tail(@)] \in [Side -> Seq(Msg)]
          /\ [req EXCEPT ![s] = Append(Tail(@), m)] \in [Side -> Seq(Msg)]
      BY <1>0, <2>1, PopType
    <3>2. QED
      BY <2>1, <3>1
  <2>3. /\ type' \in [Msg -> {"REQ", "RSP", "NOTIFY"}] /\ dest' \in [Msg -> Side]
        /\ count' \in [Msg -> 0..3] /\ result' \in [Msg -> {"ok", "fail"}]
    BY <1>0, <2>1, SendBackType DEF TypeOK
  <2>4. mailbox_sem' \in [Side -> BOOLEAN]
    BY <1>0, <2>1 DEF TypeOK
  <2>5. UNCHANGED <<ack_flag, sem, callers, rsp, queue, thread, channel, serving>>
    BY <1>1 DEF GiveUp
  <2>6. QED
    BY <1>0, <2>2, <2>3, <2>4, <2>5 DEF TypeOK
<1>2. CASE Handle(s)
  <2>1. PICK m \in Msg :
          /\ Pop(s, m) /\ req' = [req EXCEPT ![s] = Tail(@)]
          /\ serving' = [serving EXCEPT ![m] = @ + 1] \/ UNCHANGED serving
          /\ UNCHANGED <<rsp, sem>> \/ /\ Delete(rsp, rsp', s, m)
                                       /\ sem' = [sem EXCEPT ![m] = TRUE]
          /\ fresh' = fresh \ {m} \/ UNCHANGED fresh
    BY <1>2 DEF Handle, Delete
  <2>2. req' \in [Side -> Seq(Msg)]
    <3>1. /\ [req EXCEPT ![s] = Tail(@)] \in [Side -> Seq(Msg)]
          /\ [req EXCEPT ![s] = Append(Tail(@), m)] \in [Side -> Seq(Msg)]
      BY <1>0, <2>1, PopType
    <3>2. QED
      BY <2>1, <3>1
  <2>3. rsp' \in [Side -> Seq(Request)]
    <3>1. rsp \in [Side -> Seq(Request)]
      BY <1>0 DEF TypeOK
    <3>2. Once(rsp[s], m)
      <4>1. CASE m \in Request
        BY <4>1 DEF IInv, RequestInv, Bounded
      <4>2. CASE m \notin Request
        BY <3>1, <4>2 DEF Once
      <4>3. QED
        BY <4>1, <4>2
    <3>3. QED
      BY <2>1, <3>1, <3>2, DeleteFacts
  <2>4. serving' \in [Request -> Nat] /\ sem' \in [Request -> BOOLEAN] /\ fresh' \subseteq Notice
    <3>1. serving \in [Request -> Nat] /\ sem \in [Request -> BOOLEAN] /\ fresh \subseteq Notice
      BY <1>0 DEF TypeOK
    <3>2. serving' \in [Request -> Nat]
      <4>1. CASE serving' = [serving EXCEPT ![m] = @ + 1]
        <5>1. m \in Request => serving[m] + 1 \in Nat
          BY <3>1
        <5>2. \A r \in Request : serving'[r] = IF r = m THEN serving[m] + 1 ELSE serving[r]
          BY <3>1, <4>1
        <5>3. serving' = [r \in Request |-> serving'[r]]
          BY <3>1, <4>1
        <5>4. QED
          BY <3>1, <5>1, <5>2, <5>3
      <4>2. QED
        BY <2>1, <3>1, <4>1
    <3>3. sem' \in [Request -> BOOLEAN]
      <4>1. CASE sem' = [sem EXCEPT ![m] = TRUE]
        BY <3>1, <4>1
      <4>2. QED
        BY <2>1, <3>1, <4>1
    <3>4. fresh' \subseteq Notice
      BY <2>1, <3>1
    <3>5. QED
      BY <3>2, <3>3, <3>4
  <2>5. pc' = [pc EXCEPT ![s] = "drain"]
    BY <1>2 DEF Handle, Goto
  <2>6. UNCHANGED <<type, dest, count, ack_flag, result, waiting, queue,
                    mailbox_sem, cur, send_ack_flag, rsp_sem, channel>>
    BY <1>2 DEF Handle
  <2>7. QED
    BY <1>0, <2>2, <2>3, <2>4, <2>5, <2>6 DEF TypeOK
<1>3. CASE Send(s)
  <2>1. PICK m \in Msg :
          /\ Pop(s, m) /\ ack_flag' = [ack_flag EXCEPT ![m] = "SEND"]
          /\ SendBack(s, m) \/ UNCHANGED <<type, dest, count, result>>
          /\ \/ req' = [req EXCEPT ![s] = Append(Tail(@), m)]
             \/ req' = [req EXCEPT ![s] = Tail(@)]
          /\ UNCHANGED mailbox_sem \/ mailbox_sem' = [mailbox_sem EXCEPT ![s] = TRUE]
          /\ UNCHANGED wire \/ wire' = wire \cup {<<s, dest[m], m>>}
          /\ UNCHANGED cur \/ cur' = [cur EXCEPT ![s] = m]
          /\ \/ UNCHANGED send_ack_flag
             \/ send_ack_flag' = [send_ack_flag EXCEPT ![s] = type[m] # "RSP"]
          /\ pc' = [pc EXCEPT ![s] = "drain"] \/ pc' = [pc EXCEPT ![s] = "sent"]
    BY <1>3 DEF Send, Goto
  <2>2. req' \in [Side -> Seq(Msg)]
    <3>1. /\ [req EXCEPT ![s] = Tail(@)] \in [Side -> Seq(Msg)]
          /\ [req EXCEPT ![s] = Append(Tail(@), m)] \in [Side -> Seq(Msg)]
      BY <1>0, <2>1, PopType
    <3>2. QED
      BY <2>1, <3>1
  <2>3. /\ type' \in [Msg -> {"REQ", "RSP", "NOTIFY"}] /\ dest' \in [Msg -> Side]
        /\ count' \in [Msg -> 0..3] /\ result' \in [Msg -> {"ok", "fail"}]
    BY <1>0, <2>1, SendBackType DEF TypeOK
  <2>4. /\ mailbox_sem' \in [Side -> BOOLEAN] /\ ack_flag' \in [Msg -> {"SEND", "ACK"}]
        /\ wire' \subseteq Side \X Side \X Msg
    <3>1. /\ mailbox_sem \in [Side -> BOOLEAN] /\ ack_flag \in [Msg -> {"SEND", "ACK"}]
          /\ wire \subseteq Side \X Side \X Msg /\ dest[m] \in Side
      BY <1>0 DEF TypeOK
    <3>2. mailbox_sem' \in [Side -> BOOLEAN]
      <4>1. CASE mailbox_sem' = [mailbox_sem EXCEPT ![s] = TRUE]
        BY <3>1, <4>1
      <4>2. QED
        BY <2>1, <3>1, <4>1
    <3>3. ack_flag' \in [Msg -> {"SEND", "ACK"}]
      BY <2>1, <3>1
    <3>4. wire' \subseteq Side \X Side \X Msg
      BY <2>1, <3>1
    <3>5. QED
      BY <3>2, <3>3, <3>4
  <2>5. /\ cur' \in [Side -> Msg \cup {NoMsg}] /\ send_ack_flag' \in [Side -> BOOLEAN]
        /\ pc' \in [Side -> {"pop", "sent", "acked", "drain", "sleep"}]
    <3>1. /\ cur \in [Side -> Msg \cup {NoMsg}] /\ send_ack_flag \in [Side -> BOOLEAN]
          /\ pc \in [Side -> {"pop", "sent", "acked", "drain", "sleep"}]
          /\ (type[m] # "RSP") \in BOOLEAN
      BY <1>0 DEF TypeOK
    <3>2. cur' \in [Side -> Msg \cup {NoMsg}]
      <4>1. CASE cur' = [cur EXCEPT ![s] = m]
        BY <3>1, <4>1
      <4>2. QED
        BY <2>1, <3>1, <4>1
    <3>3. send_ack_flag' \in [Side -> BOOLEAN]
      <4>1. CASE send_ack_flag' = [send_ack_flag EXCEPT ![s] = type[m] # "RSP"]
        BY <3>1, <4>1
      <4>2. QED
        BY <2>1, <3>1, <4>1
    <3>4. pc' \in [Side -> {"pop", "sent", "acked", "drain", "sleep"}]
      <4>1. CASE pc' = [pc EXCEPT ![s] = "drain"]
        BY <3>1, <4>1
      <4>2. CASE pc' = [pc EXCEPT ![s] = "sent"]
        BY <3>1, <4>2
      <4>3. QED
        BY <2>1, <4>1, <4>2
    <3>5. QED
      BY <3>2, <3>3, <3>4
  <2>6. UNCHANGED <<sem, callers, rsp, queue, rsp_sem, cmpl, stuck, faults, serving>>
    BY <1>3 DEF Send
  <2>7. QED
    BY <1>0, <2>2, <2>3, <2>4, <2>5, <2>6 DEF TypeOK
<1>4. CASE Completed(s) \/ Timeout(s)
  <2>1. cur[s] \in Msg
    BY <1>0, <1>4 DEF IInv, ThreadInv, TypeOK, Completed, Timeout
  <2>2. PICK m \in Msg : m = cur[s]
    BY <2>1
  <2>3. /\ UNCHANGED rsp_sem \/ rsp_sem' = [rsp_sem EXCEPT ![s] = FALSE]
        /\ \/ pc' = [pc EXCEPT ![s] = "acked"] /\ UNCHANGED cur
           \/ pc' = [pc EXCEPT ![s] = "drain"] /\ cur' = [cur EXCEPT ![s] = NoMsg]
        /\ UNCHANGED <<req, mailbox_sem, count>> \/ Again(s, m)
        /\ Again(s, m) => /\ type[m] = "REQ"
                          /\ \/ Timeout(s)
                             \/ Completed(s) /\ send_ack_flag[s] /\ ack_flag[m] # "ACK"
                          \/ UNCHANGED count
    BY <1>4, <2>2 DEF Completed, Timeout, Goto
  <2>4. req' \in [Side -> Seq(Msg)] /\ mailbox_sem' \in [Side -> BOOLEAN]
    <3>1. CASE Again(s, m)
      BY <1>0, <3>1, ListType DEF Again
    <3>2. CASE UNCHANGED <<req, mailbox_sem, count>>
      BY <1>0, <3>2 DEF TypeOK
    <3>3. QED
      BY <2>3, <3>1, <3>2
  <2>5. count' \in [Msg -> 0..3]
    <3>0. count \in [Msg -> 0..3]
      BY <1>0 DEF TypeOK
    <3>1. CASE Again(s, m) /\ count' # count
      <4>1. count[m] + 1 \in 0..3
        BY <2>2, <2>3, <3>1, CountBound
      <4>2. count' = [count EXCEPT ![m] = count[m] + 1]
        BY <3>1 DEF Again
      <4>3. QED
        BY <3>0, <4>1, <4>2
    <3>2. CASE UNCHANGED count
      BY <3>0, <3>2
    <3>3. QED
      BY <2>3, <3>1, <3>2
  <2>6. /\ cur' \in [Side -> Msg \cup {NoMsg}] /\ rsp_sem' \in [Side -> BOOLEAN]
        /\ pc' \in [Side -> {"pop", "sent", "acked", "drain", "sleep"}]
    BY <1>0, <2>3, ZenonT(40) DEF TypeOK
  <2>7. UNCHANGED <<type, dest, ack_flag, result, sem, callers, rsp, queue,
                    send_ack_flag, channel, serving>>
    BY <1>4 DEF Completed, Timeout
  <2>8. QED
    BY <1>0, <2>4, <2>5, <2>6, <2>7 DEF TypeOK
<1>5. CASE Acked(s)
  <2>1. cur[s] \in Msg
    BY <1>5 DEF Acked, IInv, ThreadInv, Msg
  <2>2. queue' \in [Side -> Seq(Msg \X {0, 1})]
    BY <1>0, <1>5, <2>1, QueueType DEF Acked
  <2>3. QED
    BY <1>0, <1>5, <2>2 DEF Acked, Goto, TypeOK
<1>6. CASE Drain(s)
  <2>0. /\ queue \in [Side -> Seq(Msg \X {0, 1})]
        /\ req \in [Side -> Seq(Msg)] /\ rsp \in [Side -> Seq(Request)]
    BY <1>0 DEF TypeOK
  <2>1. CASE queue[s] = <<>>
    <3>1. /\ pc' = [pc EXCEPT ![s] = "pop"]
          /\ UNCHANGED <<message, callers, lists, cur, send_ack_flag, rsp_sem,
                          channel, serving>>
      BY <1>6, <2>1 DEF Drain, Goto
    <3>2. QED
      BY <1>0, <3>1 DEF TypeOK
  <2>2. CASE queue[s] # <<>>
    <3>1. /\ Take(queue, queue', s) /\ Head(queue[s]) \in Msg \X {0, 1}
          /\ Head(queue[s]) \in ToSet(queue[s])
      BY <1>6, <2>0, <2>2, TailFacts DEF Drain, Take
    <3>2. PICK m \in Msg, ori \in {0, 1} : Head(queue[s]) = <<m, ori>>
      BY <3>1
    <3>3. \/ Put(req, req', s, m) /\ UNCHANGED rsp
          \/ ori = 1 /\ Put(rsp, rsp', s, m) /\ UNCHANGED req
      BY <1>6, <2>2, <3>2 DEF Drain, Put
    <3>4. ori = 1 => m \in Request
      <4>1. <<m, ori>>[1] = m /\ <<m, ori>>[2] = ori
        OBVIOUS
      <4>2. QED
        BY <3>1, <3>2, <4>1 DEF IInv, ThreadInv
    <3>5. queue' \in [Side -> Seq(Msg \X {0, 1})]
      BY <2>0, <3>1, TakeFacts
    <3>6. req' \in [Side -> Seq(Msg)] /\ rsp' \in [Side -> Seq(Request)]
      <4>1. CASE Put(req, req', s, m) /\ UNCHANGED rsp
        BY <2>0, <4>1, PutFacts
      <4>2. CASE ori = 1 /\ Put(rsp, rsp', s, m) /\ UNCHANGED req
        BY <2>0, <3>4, <4>2, PutFacts
      <4>3. QED
        BY <3>3, <4>1, <4>2
    <3>7. UNCHANGED <<pc, message, callers, mailbox_sem, cur, send_ack_flag, rsp_sem,
                      channel, serving>>
      BY <1>6, <2>2 DEF Drain
    <3>8. QED
      BY <1>0, <3>5, <3>6, <3>7 DEF TypeOK
  <2>3. QED
    BY <2>1, <2>2
<1>7. CASE Sleep(s)
  BY <1>0, <1>7 DEF Sleep, Goto, TypeOK
<1>8. CASE Wake(s)
  BY <1>0, <1>8 DEF Wake, Goto, TypeOK
<1>9. QED
  BY <1>1, <1>2, <1>3, <1>4, <1>5, <1>6, <1>7, <1>8 DEF Thread

LEMMA TypeStep ==
  ASSUME Punctual, IInv, Next PROVE TypeOK'
<1> USE DEF message, callers, lists, thread, channel
<1>0. TypeOK
  BY DEF IInv
<1>1. ASSUME NEW m \in Msg, Call(m) PROVE TypeOK'
  <2>1. /\ From[m] \in Side /\ To[m] \in Side /\ m \in Request
        /\ req' \in [Side -> Seq(Msg)] /\ mailbox_sem' \in [Side -> BOOLEAN]
    BY <1>0, <1>1, Sides, ListType DEF Call
  <2>2. /\ type' \in [Msg -> {"REQ", "RSP", "NOTIFY"}] /\ dest' \in [Msg -> Side]
        /\ count' \in [Msg -> 0..3] /\ result' \in [Msg -> {"ok", "fail"}]
        /\ ack_flag' \in [Msg -> {"SEND", "ACK"}] /\ sem' \in [Request -> BOOLEAN]
    BY <1>0, <1>1, <2>1, SMTT(30) DEF Call, TypeOK
  <2>3. waiting' \subseteq Request
    BY <1>0, <1>1 DEF Call, TypeOK
  <2>4. UNCHANGED <<fresh, rsp, queue, thread, channel, serving>>
    BY <1>1 DEF Call
  <2>5. QED
    BY <1>0, <2>1, <2>2, <2>3, <2>4 DEF TypeOK
<1>2. ASSUME NEW m \in Msg, Return(m) PROVE TypeOK'
  BY <1>0, <1>2 DEF Return, TypeOK
<1>3. ASSUME NEW m \in Msg, Notify(m) PROVE TypeOK'
  <2>1. /\ From[m] \in Side /\ To[m] \in Side /\ m \in Notice
        /\ req' \in [Side -> Seq(Msg)] /\ mailbox_sem' \in [Side -> BOOLEAN]
    BY <1>0, <1>3, Sides, ListType DEF Notify
  <2>2. /\ type' \in [Msg -> {"REQ", "RSP", "NOTIFY"}] /\ dest' \in [Msg -> Side]
        /\ count' \in [Msg -> 0..3] /\ fresh' \subseteq Notice
    BY <1>0, <1>3, <2>1, SMTT(30) DEF Notify, TypeOK
  <2>3. UNCHANGED <<ack_flag, result, sem, waiting, rsp, queue, thread, channel, serving>>
    BY <1>3 DEF Notify
  <2>4. QED
    BY <1>0, <2>1, <2>2, <2>3 DEF TypeOK
<1>4. ASSUME NEW m \in Msg, Respond(m) PROVE TypeOK'
  <2>1. /\ From[m] \in Side /\ To[m] \in Side /\ m \in Request
        /\ req' \in [Side -> Seq(Msg)] /\ mailbox_sem' \in [Side -> BOOLEAN]
    BY <1>0, <1>4, Sides, ListType DEF Respond
  <2>2. /\ type' \in [Msg -> {"REQ", "RSP", "NOTIFY"}] /\ dest' \in [Msg -> Side]
        /\ count' \in [Msg -> 0..3] /\ result' \in [Msg -> {"ok", "fail"}]
    BY <1>0, <1>4, <2>1, SMTT(30) DEF Respond, TypeOK
  <2>3. serving' \in [Request -> Nat]
    <3>1. serving \in [Request -> Nat]
      BY <1>0 DEF TypeOK
    <3>2. serving[m] > 0 /\ serving' = [serving EXCEPT ![m] = @ - 1]
      BY <1>4 DEF Respond
    <3>3. serving[m] - 1 \in Nat
      BY <2>1, <3>1, <3>2
    <3>4. QED
      BY <2>1, <3>1, <3>2, <3>3
  <2>4. UNCHANGED <<ack_flag, sem, callers, rsp, queue, thread, channel>>
    BY <1>4 DEF Respond
  <2>5. QED
    BY <1>0, <2>1, <2>2, <2>3, <2>4 DEF TypeOK
<1>5. ASSUME NEW l \in Link, Receive(l) PROVE TypeOK'
  <2>0. l[2] \in Side
    BY DEF Link, Side
  <2>1. PICK m \in Msg :
          /\ wire' \subseteq wire /\ cmpl' = cmpl \cup {l}
          /\ UNCHANGED ack_flag \/ ack_flag' = [ack_flag EXCEPT ![m] = "ACK"]
          /\ UNCHANGED queue \/ ToQueue(l[2], m, 0)
          /\ UNCHANGED mailbox_sem \/ mailbox_sem' = [mailbox_sem EXCEPT ![l[2]] = TRUE]
    BY <1>5 DEF Receive
  <2>2. queue' \in [Side -> Seq(Msg \X {0, 1})]
    <3>1. CASE UNCHANGED queue
      BY <1>0, <3>1 DEF TypeOK
    <3>2. CASE ToQueue(l[2], m, 0)
      BY <1>0, <2>0, <3>2, QueueType
    <3>3. QED
      BY <2>1, <3>1, <3>2
  <2>3. /\ wire' \subseteq Side \X Side \X Msg /\ cmpl' \subseteq Link
        /\ ack_flag' \in [Msg -> {"SEND", "ACK"}] /\ mailbox_sem' \in [Side -> BOOLEAN]
    BY <1>0, <2>0, <2>1 DEF TypeOK
  <2>4. UNCHANGED <<type, dest, count, result, sem, callers, req, rsp, thread,
                    stuck, faults, serving>>
    BY <1>5 DEF Receive
  <2>5. QED
    BY <1>0, <2>2, <2>3, <2>4 DEF TypeOK
<1>6. ASSUME NEW l \in Link, Fault(l) PROVE TypeOK'
  <2>1. /\ wire' \subseteq wire /\ l \in Lossy /\ faults < FaultMax /\ faults' = faults + 1
        /\ cmpl' \subseteq cmpl \cup {l} /\ stuck' \subseteq stuck \cup {l}
    BY <1>6 DEF Fault
  <2>2. faults' \in 0..FaultMax
    BY <1>0, <2>1, MailboxAssumption DEF TypeOK
  <2>3. wire' \subseteq Side \X Side \X Msg /\ cmpl' \subseteq Link /\ stuck' \subseteq Lossy
    BY <1>0, <2>1 DEF TypeOK
  <2>4. UNCHANGED <<message, callers, lists, thread, serving>>
    BY <1>6 DEF Fault
  <2>5. QED
    BY <1>0, <2>2, <2>3, <2>4 DEF TypeOK
<1>7. ASSUME NEW l \in Link, Complete(l) PROVE TypeOK'
  <2>1. l[1] \in Side
    BY DEF Link, Side
  <2>2. QED
    BY <1>0, <1>7, <2>1 DEF Complete, TypeOK
<1>8. QED
  BY <1>1, <1>2, <1>3, <1>4, <1>5, <1>6, <1>7, ThreadType DEF Next
-----------------------------------------------------------------------------
(* The invariant.                                                          *)
LEMMA RequestStep ==
  ASSUME Punctual, IInv, Next PROVE RequestInv'
BY CallStep, ReturnStep, NotifyStep, RespondStep, GiveUpStep, HandleStep, SendStep,
   CompletedStep, AckedStep, DrainStep, IdleStep, TimeoutStep, ReceiveStep, FaultStep,
   CompleteStep
   DEF Next, Thread

LEMMA NoStep ==
  ASSUME IInv, UNCHANGED vars PROVE IInv'
<1> USE DEF vars, message, callers, lists, thread, channel
<1>1. TypeOK'
  BY DEF IInv, TypeOK
<1>2. ChannelInv' /\ ThreadInv' /\ NoticeInv'
  BY DEF IInv, ChannelInv, ThreadInv, NoticeInv, Wired
<1>3. \A r \in Request : Same(r)
  BY NothingSame DEF Same, SameFields, SameLists, SameWire, SameThread
<1>4. RequestInv'
  BY <1>3, AllSame DEF IInv
<1>5. QED
  BY <1>1, <1>2, <1>4 DEF IInv

LEMMA InitInv == Init => IInv
<1> SUFFICES ASSUME Init PROVE IInv
  OBVIOUS
<1> USE DEF Init
<1>1. TypeOK
  <2>1. \A m \in Msg : To[m] \in Side
    BY Sides
  <2>2. To \in [Msg -> Side] /\ FaultMax \in Nat /\ 0 \in 0..3
    BY MailboxAssumption
  <2>3. <<>> \in Seq(Msg) /\ <<>> \in Seq(Request) /\ <<>> \in Seq(Msg \X {0, 1})
    OBVIOUS
  <2>4. /\ type \in [Msg -> {"REQ", "RSP", "NOTIFY"}] /\ dest \in [Msg -> Side]
        /\ count \in [Msg -> 0..3] /\ ack_flag \in [Msg -> {"SEND", "ACK"}]
        /\ result \in [Msg -> {"ok", "fail"}] /\ sem \in [Request -> BOOLEAN]
    BY <2>2
  <2>5. /\ req \in [Side -> Seq(Msg)] /\ rsp \in [Side -> Seq(Request)]
        /\ queue \in [Side -> Seq(Msg \X {0, 1})]
    BY <2>3
  <2>6. /\ mailbox_sem \in [Side -> BOOLEAN] /\ rsp_sem \in [Side -> BOOLEAN]
        /\ pc \in [Side -> {"pop", "sent", "acked", "drain", "sleep"}]
        /\ cur \in [Side -> Msg \cup {NoMsg}] /\ send_ack_flag \in [Side -> BOOLEAN]
    OBVIOUS
  <2>7. /\ waiting \subseteq Request /\ fresh \subseteq Notice /\ wire \subseteq Side \X Side \X Msg
        /\ cmpl \subseteq Link /\ stuck \subseteq Lossy /\ faults \in 0..FaultMax
        /\ serving \in [Request -> Nat]
    BY <2>2
  <2>8. QED
    BY <2>4, <2>5, <2>6, <2>7 DEF TypeOK
<1>2. ToSet(<<>>) = {} /\ \A d : Once(<<>>, d)
  BY DEF ToSet, Once
<1>3. ChannelInv
  BY DEF ChannelInv, Wired
<1>4. ThreadInv
  BY <1>2 DEF ThreadInv
<1>5. NoticeInv
  BY MailboxAssumption DEF NoticeInv, Msg
<1>6. ASSUME NEW m \in Request PROVE Bounded(m) /\ Stage(m, "idle")
  <2>1. From[m] \in Side /\ To[m] \in Side /\ m # NoMsg
    BY Sides DEF Msg
  <2>2. Bounded(m)
    BY <1>2, <2>1 DEF Bounded, Listed, Queued, Wired
  <2>3. Place(m, "idle")
    BY <1>2, <2>1 DEF Place, Listed, Queued, Wired
  <2>4. Fields(m, "idle")
    BY DEF Fields, Early, Asked, Replied, Msg
  <2>5. Noted(m, "idle")
    BY <1>2, <2>1 DEF Noted, Queued
  <2>6. QED
    BY <2>2, <2>3, <2>4, <2>5 DEF Stage
<1>7. RequestInv
  BY <1>6 DEF RequestInv, Stages
<1>8. QED
  BY <1>1, <1>3, <1>4, <1>5, <1>7 DEF IInv

(* A request is always at one stage of its way, and nowhere else.          *)
THEOREM Invariance == ASSUME Punctual PROVE Spec => []IInv
<1>1. IInv /\ [Next]_vars => IInv'
  <2> SUFFICES ASSUME IInv, [Next]_vars PROVE IInv'
    OBVIOUS
  <2>1. CASE Next
    BY <2>1, TypeStep, ChannelStep, ThreadStep, NoticeStep, RequestStep DEF IInv
  <2>2. CASE UNCHANGED vars
    BY <2>2, NoStep
  <2>3. QED
    BY <2>1, <2>2
<1>2. QED
  BY InitInv, <1>1, PTL DEF Spec

(* Every variable keeps its type; in particular no request is sent a fourth *)
(* time.                                                                   *)
THEOREM TypeCorrect == ASSUME Punctual PROVE Spec => []TypeOK
<1>1. IInv => TypeOK
  BY DEF IInv
<1>2. QED
  BY <1>1, Invariance, PTL

(* Once a call has returned no list, queue, command or thread of the three *)
(* processors still has the address of its message.                        *)
THEOREM NothingDangles == ASSUME Punctual PROVE Spec => []NoDanglingMessage
<1>1. IInv => NoDanglingMessage
  <2> SUFFICES ASSUME IInv, NEW m \in Request \ waiting, Addressed(m) PROVE FALSE
    BY DEF NoDanglingMessage
  <2> USE DEF Listed, Queued, Wired
  <2>0. /\ From[m] \in Side /\ To[m] \in Side
        /\ queue \in [Side -> Seq(Msg \X {0, 1})] /\ wire \subseteq Side \X Side \X Msg
    BY Sides DEF IInv, TypeOK, Msg
  <2>1. Bounded(m) /\ Stage(m, "idle")
    BY DEF IInv, RequestInv, Stage, Place
  <2>2. ASSUME NEW s \in Side PROVE m \notin ToSet(req[s]) \cup ToSet(rsp[s])
    BY <2>1 DEF Bounded, Stage, Place, Noted
  <2>3. ASSUME NEW s \in Side, NEW e \in ToSet(queue[s]) PROVE e[1] # m
    <3>1. e \in Msg \X {0, 1}
      BY <2>0, <2>3 DEF ToSet
    <3>2. PICK n \in Msg, ori \in {0, 1} : e = <<n, ori>> /\ e[1] = n
      BY <3>1
    <3>3. <<m, 0>> \notin ToSet(queue[s]) /\ <<m, 1>> \notin ToSet(queue[s])
      BY <2>1 DEF Bounded, Stage, Place, Noted
    <3>4. QED
      BY <2>3, <3>2, <3>3
  <2>4. ASSUME NEW s \in Side PROVE ~(cur[s] = m /\ send_ack_flag[s])
    BY <2>1 DEF Bounded, Stage, Noted
  <2>5. ASSUME NEW w \in wire PROVE w[3] # m
    <3>1. PICK a \in Side, b \in Side, n \in Msg : w = <<a, b, n>> /\ w[3] = n
      BY <2>0, <2>5
    <3>2. <<a, b, m>> \notin wire
      BY <2>1 DEF Bounded, Stage, Place
    <3>3. QED
      BY <2>5, <3>1, <3>2
  <2>6. serving[m] = 0
    BY <2>1 DEF Stage, Place
  <2>7. QED
    BY <2>2, <2>3, <2>4, <2>5, <2>6 DEF Addressed
<1>2. QED
  BY <1>1, Invariance, PTL
-----------------------------------------------------------------------------
(* The calls as MailboxCall sees them.                                     *)
Phases == [m \in Request |-> Phase(m)]

LEMMA PhaseSame ==
  ASSUME NEW m \in Request, type'[m] = type[m], result'[m] = result[m],
         serving'[m] = serving[m], m \in waiting' <=> m \in waiting
  PROVE  Phase(m)' = Phase(m)
BY DEF Phase

LEMMA AllPhases ==
  ASSUME UNCHANGED <<type, result, waiting, serving>> PROVE UNCHANGED Phases
BY DEF Phases, Phase

LEMMA PhaseMoves ==
  ASSUME NEW m \in Request, \A r \in Request \ {m} : Phase(r)' = Phase(r),
         NEW a, NEW b, Phase(m) = a, Phase(m)' = b
  PROVE  Calls!Moves(m, a, b)
<1>1. Phases[m] = a
  BY DEF Phases
<1>2. Phases' = [Phases EXCEPT ![m] = b]
  BY DEF Phases
<1>3. QED
  BY <1>1, <1>2 DEF Calls!Moves, Phases

LEMMA CallerPhase ==
  ASSUME IInv, NEW m \in Msg, Call(m) \/ Return(m) \/ Notify(m) \/ Respond(m)
  PROVE  [Calls!CNext]_Phases
<1>0. /\ type \in [Msg -> {"REQ", "RSP", "NOTIFY"}] /\ result \in [Msg -> {"ok", "fail"}]
      /\ serving \in [Request -> Nat] /\ waiting \subseteq Request
  BY DEF IInv, TypeOK
<1>1. m \in Request => \E z \in Stages : Stage(m, z)
  BY DEF IInv, RequestInv
<1>2. \A r \in Request : r # m => Phase(r)' = Phase(r)
  <2> SUFFICES ASSUME NEW r \in Request, r # m PROVE Phase(r)' = Phase(r)
    OBVIOUS
  <2>1. r \in Msg
    BY DEF Msg
  <2>2. /\ type'[r] = type[r] /\ result'[r] = result[r] /\ serving'[r] = serving[r]
        /\ r \in waiting' <=> r \in waiting
    BY <1>0, <2>1 DEF Call, Return, Notify, Respond, callers
  <2>3. QED
    BY <2>2, PhaseSame
<1>3. CASE Call(m)
  <2>1. m \in Request /\ m \notin waiting /\ m \in waiting'
    BY <1>3 DEF Call
  <2>2. serving'[m] = 0 /\ type'[m] = "REQ"
    BY <1>0, <1>1, <1>3, <2>1 DEF Call, Stage, Place
  <2>3. Phase(m) = "idle" /\ Phase(m)' = "called"
    BY <2>1, <2>2 DEF Phase
  <2>4. Calls!CallIt(m)
    BY <1>2, <2>1, <2>3, PhaseMoves DEF Calls!CallIt
  <2>5. QED
    BY <2>1, <2>4 DEF Calls!CNext
<1>4. CASE Return(m)
  <2>1. m \in Request /\ m \in waiting /\ m \notin waiting' /\ sem[m]
    BY <1>0, <1>4 DEF Return
  <2>2. serving[m] = 0 /\ type[m] = "RSP"
    BY <1>1, <2>1 DEF Stage, Place, Fields
  <2>3. Phase(m) \in {"answered", "failed"} /\ Phase(m)' = "idle"
    BY <2>1, <2>2 DEF Phase
  <2>4. Calls!GoOn(m) \/ Calls!Hear(m)
    BY <1>2, <2>1, <2>3, PhaseMoves DEF Calls!GoOn, Calls!Hear
  <2>5. QED
    BY <2>1, <2>4 DEF Calls!CNext
<1>5. CASE Notify(m)
  <2>1. \A r \in Request : Phase(r)' = Phase(r)
    BY <1>2, <1>5, MailboxAssumption DEF Notify
  <2>2. QED
    BY <2>1 DEF Phases
<1>6. CASE Respond(m)
  <2>1. m \in Request /\ serving[m] > 0 /\ UNCHANGED waiting
    BY <1>6 DEF Respond, callers
  <2>2. m \in waiting /\ serving[m] = 1
    BY <1>1, <2>1 DEF Stage, Place
  <2>3. serving'[m] = 0 /\ type'[m] = "RSP" /\ result'[m] = "ok"
    BY <1>0, <1>6, <2>2 DEF Respond
  <2>4. Phase(m) = "serving" /\ Phase(m)' = "answered"
    BY <2>1, <2>2, <2>3 DEF Phase
  <2>5. Calls!Answer(m)
    BY <1>2, <2>1, <2>4, PhaseMoves DEF Calls!Answer
  <2>6. QED
    BY <2>1, <2>5 DEF Calls!CNext
<1>7. QED
  BY <1>3, <1>4, <1>5, <1>6

LEMMA HandlePhase ==
  ASSUME IInv, NEW s \in Side, Handle(s) PROVE [Calls!CNext]_Phases
<1>1. PICK m \in Msg :
         /\ Pop(s, m) /\ dest[m] = s /\ UNCHANGED <<type, result, waiting>>
         /\ \/ type[m] = "REQ" /\ serving' = [serving EXCEPT ![m] = @ + 1]
            \/ UNCHANGED serving
  BY DEF Handle
<1>2. CASE UNCHANGED serving
  BY <1>1, <1>2, AllPhases
<1>3. CASE type[m] = "REQ" /\ serving' = [serving EXCEPT ![m] = @ + 1]
  <2>0. m \in Request /\ serving \in [Request -> Nat]
    BY <1>3 DEF IInv, NoticeInv, Msg, TypeOK
  <2>1. From[m] # To[m]
    BY Sides
  <2>2. m \in ToSet(req[s])
    BY <1>1, PopFacts
  <2>3. PICK z \in {"called", "back", "taken", "answered"} :
          /\ Stage(m, z)
          /\ \/ s = From[m] /\ z \in {"called", "back"}
             \/ s = To[m] /\ z \in {"taken", "answered"}
    BY <2>0, <2>2, ListedStage DEF IInv
  <2>4. z = "taken"
    BY <1>1, <1>3, <2>1, <2>3 DEF Stage, Fields, Early, Replied
  <2>5. m \in waiting /\ serving[m] = 0 /\ serving'[m] = 1
    BY <1>3, <2>0, <2>3, <2>4 DEF Stage, Place
  <2>6. Phase(m) = "called" /\ Phase(m)' = "serving"
    BY <1>1, <1>3, <2>5 DEF Phase
  <2>7. \A r \in Request \ {m} : Phase(r)' = Phase(r)
    BY <1>1, <1>3, <2>0, PhaseSame
  <2>8. Calls!Serve(m)
    BY <2>0, <2>6, <2>7, PhaseMoves DEF Calls!Serve
  <2>9. QED
    BY <2>0, <2>8 DEF Calls!CNext
<1>4. QED
  BY <1>1, <1>2, <1>3

LEMMA SendBackPhase ==
  ASSUME Punctual, IInv, NEW s \in Side, NEW m \in Msg, Pop(s, m), SendBack(s, m),
         UNCHANGED <<waiting, serving>>,
         m \in Request => \/ type[m] = "REQ" /\ (count[m] > 2 \/ dest[m] # s)
                          \/ dest[m] # s /\ <<s, dest[m]>> \in Lossy
  PROVE  [Calls!CNext]_Phases
<1>1. CASE s = "MAJOR"
  BY <1>1, AllPhases DEF SendBack
<1>2. CASE s # "MAJOR"
  <2>0. /\ type \in [Msg -> {"REQ", "RSP", "NOTIFY"}] /\ result \in [Msg -> {"ok", "fail"}]
        /\ type' = [type EXCEPT ![m] = "RSP"] /\ result' = [result EXCEPT ![m] = "fail"]
        /\ count \in [Msg -> 0..3]
    BY <1>2 DEF SendBack, IInv, TypeOK
  <2>1. \A r \in Request : r # m => Phase(r)' = Phase(r)
    BY <2>0, PhaseSame DEF Msg
  <2>2. CASE m \notin Request
    <3>1. \A r \in Request : Phase(r)' = Phase(r)
      BY <2>1, <2>2
    <3>2. QED
      BY <3>1 DEF Phases
  <2>3. CASE m \in Request
    <3>1. From[m] # To[m]
      BY Sides
    <3>2. m \in ToSet(req[s])
      BY PopFacts
    <3>3. PICK z \in {"called", "back", "taken", "answered"} :
            /\ Stage(m, z)
            /\ \/ s = From[m] /\ z \in {"called", "back"}
               \/ s = To[m] /\ z \in {"taken", "answered"}
      BY <2>3, <3>2, ListedStage DEF IInv
    <3>4. z # "answered"
      <4>1. ASSUME z = "answered" PROVE FALSE
        <5>1. type[m] = "RSP" /\ dest[m] = From[m] /\ s = To[m]
          BY <3>1, <3>3, <4>1 DEF Stage, Fields, Replied
        <5>2. <<To[m], From[m]>> \in Lossy
          BY <2>3, <5>1
        <5>3. QED
          BY <1>2, <2>3, <5>1, <5>2 DEF Punctual, AnswersKept
      <4>2. QED
        BY <4>1
    <3>5. z # "back"
      BY <2>3, <3>1, <3>3 DEF Stage, Fields, Replied
    <3>6. z # "taken"
      <4>1. ASSUME z = "taken" PROVE FALSE
        <5>1. dest[m] = s /\ count[m] <= 2 /\ count[m] \in 0..3
          BY <2>0, <3>1, <3>3, <4>1 DEF Stage, Fields, Asked
        <5>2. ~(count[m] > 2)
          BY <5>1
        <5>3. QED
          BY <2>3, <5>1, <5>2
      <4>2. QED
        BY <4>1
    <3>7. z = "called"
      BY <3>3, <3>4, <3>5, <3>6
    <3>8. m \in waiting /\ serving[m] = 0 /\ type[m] = "REQ"
      BY <3>3, <3>7 DEF Stage, Place, Fields, Early
    <3>9. type'[m] = "RSP" /\ result'[m] = "fail"
      BY <2>0
    <3>10. Phase(m) = "called" /\ Phase(m)' = "failed"
      BY <3>8, <3>9 DEF Phase
    <3>11. Calls!Fail(m)
      BY <2>1, <2>3, <3>10, PhaseMoves DEF Calls!Fail
    <3>12. QED
      BY <2>3, <3>11 DEF Calls!CNext
  <2>4. QED
    BY <2>2, <2>3
<1>3. QED
  BY <1>1, <1>2

LEMMA GiveUpPhase ==
  ASSUME Punctual, IInv, NEW s \in Side, GiveUp(s) PROVE [Calls!CNext]_Phases
<1>1. PICK m \in Msg :
         /\ Pop(s, m) /\ count[m] > 2
         /\ \/ type[m] = "REQ" /\ SendBack(s, m)
            \/ UNCHANGED <<type, result>>
  BY DEF GiveUp
<1>2. UNCHANGED <<waiting, serving>>
  BY DEF GiveUp, callers
<1>3. CASE type[m] = "REQ" /\ SendBack(s, m)
  BY <1>1, <1>2, <1>3, SendBackPhase
<1>4. QED
  BY <1>1, <1>2, <1>3, AllPhases

LEMMA SendPhase ==
  ASSUME Punctual, IInv, NEW s \in Side, Send(s) PROVE [Calls!CNext]_Phases
<1>1. PICK m \in Msg :
         /\ Pop(s, m) /\ <<s, dest[m]>> \in Link
         /\ \/ UNCHANGED <<type, result>>
            \/ Busy(<<s, dest[m]>>) /\ SendBack(s, m)
  BY DEF Send
<1>2. UNCHANGED <<waiting, serving>>
  BY DEF Send, callers
<1>3. CASE Busy(<<s, dest[m]>>) /\ SendBack(s, m)
  <2>1. dest[m] # s /\ dest[m] \in Side /\ stuck \subseteq Lossy
    BY <1>1 DEF Link, IInv, TypeOK
  <2>2. \A y \in Side : <<s, y>> \notin cmpl /\ \A n \in Msg : <<s, y, n>> \notin wire
    BY <1>1, PopFacts
  <2>3. <<s, dest[m]>> \in Lossy
    BY <1>3, <2>1, <2>2 DEF Busy, UnderWay
  <2>4. QED
    BY <1>1, <1>2, <1>3, <2>1, <2>3, SendBackPhase
<1>4. QED
  BY <1>1, <1>2, <1>3, AllPhases

LEMMA QuietPhase ==
  ASSUME NEW s \in Side, NEW l \in Link,
         \/ Completed(s) \/ Timeout(s) \/ Acked(s) \/ Drain(s) \/ Sleep(s) \/ Wake(s)
         \/ Receive(l) \/ Complete(l) \/ Fault(l)
  PROVE  UNCHANGED Phases
<1>1. UNCHANGED <<type, result, waiting, serving>>
  BY DEF Completed, Timeout, Acked, Drain, Sleep, Wake, Receive, Complete, Fault,
     message, callers
<1>2. QED
  BY <1>1, AllPhases

(* The mailbox calls are remote procedure calls: a request is served at     *)
(* most once, its caller goes on only after the answer or after a failure   *)
(* of a request that was never served.                                     *)
THEOREM CallsImplemented == ASSUME Punctual PROVE Spec => CallSpec
<1>1. Init => Calls!CInit
  BY DEF Init, Calls!CInit, Phase
<1>2. IInv /\ [Next]_vars => [Calls!CNext]_Phases
  <2> SUFFICES ASSUME IInv, [Next]_vars PROVE [Calls!CNext]_Phases
    OBVIOUS
  <2>1. CASE UNCHANGED vars
    BY <2>1, AllPhases DEF vars, message, callers
  <2>2. ASSUME NEW m \in Msg, Call(m) \/ Return(m) \/ Notify(m) \/ Respond(m)
        PROVE  [Calls!CNext]_Phases
    BY <2>2, CallerPhase
  <2>3. ASSUME NEW s \in Side, Thread(s) \/ Timeout(s) PROVE [Calls!CNext]_Phases
    <3>1. Link # {}
      BY DEF Link
    <3>2. QED
      BY <2>3, <3>1, GiveUpPhase, HandlePhase, SendPhase, QuietPhase DEF Thread
  <2>4. ASSUME NEW l \in Link, Receive(l) \/ Complete(l) \/ Fault(l)
        PROVE  [Calls!CNext]_Phases
    BY <2>4, QuietPhase DEF Side
  <2>5. QED
    BY <2>1, <2>2, <2>3, <2>4 DEF Next
<1>3. QED
  BY <1>1, <1>2, Invariance, PTL DEF Spec, CallSpec, Calls!CSpec, Phases
-----------------------------------------------------------------------------
(* Notices.  One may be under way in several copies: what is kept is that  *)
(* as long as its last content is to be seen there is one of them left.     *)
NoticeLinksKept == \A m \in Notice : <<From[m], To[m]>> \notin Lossy
NoticeRoom == \A m \in Notice :
  Wired(From[m], To[m], m) => Len(queue[To[m]]) < QueueLen

Waits(m) ==
  \/ Listed(From[m], m) \/ Wired(From[m], To[m], m)
  \/ Queued(To[m], m, 0) \/ Listed(To[m], m)

NoticeFields(m) == type[m] = "NOTIFY" /\ dest[m] = To[m] /\ count[m] = 0
NoticePlaces(m) ==
  /\ \A x \in Side : /\ Listed(x, m) => x \in {From[m], To[m]}
                     /\ Queued(x, m, 0) => x = To[m]
  /\ \A a, b \in Side : Wired(a, b, m) =>
       a = From[m] /\ b = To[m] /\ ack_flag[m] = "SEND"
NoticeWay(m) ==
  NoticeFields(m) /\ NoticePlaces(m) /\ (m \in fresh => Waits(m))
NInv == \A m \in Notice : NoticeWay(m)

(* A step that leaves the copies of a notice where they are.               *)
SameNotice(m) ==
  /\ UNCHANGED <<type[m], dest[m], count[m]>>
  /\ ack_flag'[m] \in {ack_flag[m], "SEND"}
  /\ SameIn(req, req', m) /\ SameIn(queue, queue', <<m, 0>>) /\ SameWire(m)
  /\ m \in fresh' => m \in fresh

LEMMA NoticeStays ==
  ASSUME NInv, NEW m \in Notice, SameNotice(m) PROVE NoticeWay(m)'
<1> USE DEF Listed, Queued, Wired
<1>1. From[m] \in Side /\ To[m] \in Side
  BY Sides DEF Msg
<1>2. NoticeFields(m)'
  BY DEF NInv, NoticeWay, NoticeFields, SameNotice
<1>3. NoticePlaces(m)'
  BY DEF NInv, NoticeWay, NoticePlaces, SameNotice, SameIn, SameWire
<1>4. m \in fresh' => Waits(m)'
  BY <1>1 DEF NInv, NoticeWay, Waits, SameNotice, SameIn, SameWire
<1>5. QED
  BY <1>2, <1>3, <1>4 DEF NoticeWay

LEMMA OneNotice ==
  ASSUME NInv, NEW m, \A n \in Notice \ {m} : SameNotice(n),
         m \in Notice => NoticeWay(m)'
  PROVE  NInv'
BY NoticeStays DEF NInv

LEMMA NoNotice ==
  ASSUME NInv, \A n \in Notice : SameNotice(n) PROVE NInv'
BY NoticeStays DEF NInv

LEMMA NoticeIs ==
  ASSUME NEW m \in Notice
  PROVE  /\ m \in Msg /\ m \notin Request /\ From[m] \in Side /\ To[m] \in Side
         /\ From[m] # To[m] /\ m # NoMsg /\ <<From[m], To[m]>> \in Link
BY Sides DEF Msg

LEMMA CallerNotices ==
  ASSUME IInv, NInv, NEW m \in Msg, Call(m) \/ Return(m) \/ Respond(m) PROVE NInv'
<1>0. /\ req \in [Side -> Seq(Msg)] /\ type \in [Msg -> {"REQ", "RSP", "NOTIFY"}]
      /\ dest \in [Msg -> Side] /\ count \in [Msg -> 0..3]
      /\ ack_flag \in [Msg -> {"SEND", "ACK"}]
  BY DEF IInv, TypeOK
<1>1. m \in Request /\ From[m] \in Side /\ To[m] \in Side
  BY Sides DEF Call, Return, Respond, IInv, TypeOK
<1>2. UNCHANGED req \/ \E x \in Side : Put(req, req', x, m)
  BY <1>1 DEF Call, Return, Respond, ToList, Put, lists
<1>3. UNCHANGED req \/ \E x \in Side : Added(req, req', x, m)
  BY <1>0, <1>2, PutFacts
<1>4. UNCHANGED <<queue, wire, fresh>>
  BY DEF Call, Return, Respond, lists, channel, callers
<1>5. ASSUME NEW n \in Notice PROVE SameNotice(n)
  <2>1. n # m /\ n \in Msg
    BY <1>1, NoticeIs
  <2>2. UNCHANGED <<type[n], dest[n], count[n], ack_flag[n]>>
    BY <1>0, <2>1 DEF Call, Return, Respond
  <2>3. SameIn(req, req', n) /\ SameIn(queue, queue', <<n, 0>>)
    BY <1>3, <1>4, <2>1, NothingSame DEF Added, SameBut
  <2>4. QED
    BY <1>4, <2>2, <2>3 DEF SameNotice, SameWire
<1>6. QED
  BY <1>5, NoNotice

LEMMA NotifyNotices ==
  ASSUME IInv, NInv, NEW m \in Msg, Notify(m) PROVE NInv'
<1> USE DEF Listed, Queued, Wired
<1>0. /\ req \in [Side -> Seq(Msg)] /\ type \in [Msg -> {"REQ", "RSP", "NOTIFY"}]
      /\ dest \in [Msg -> Side] /\ count \in [Msg -> 0..3] /\ m \in Notice
  BY DEF IInv, TypeOK, Notify
<1>1. Put(req, req', From[m], m)
  BY DEF Notify, ToList, Put
<1>2. Added(req, req', From[m], m)
  BY <1>0, <1>1, NoticeIs, PutFacts
<1>3. UNCHANGED <<queue, wire, ack_flag>>
  BY DEF Notify, channel
<1>4. ASSUME NEW n \in Notice \ {m} PROVE SameNotice(n)
  <2>1. UNCHANGED <<type[n], dest[n], count[n], ack_flag[n]>>
    BY <1>0, <1>3, NoticeIs DEF Notify
  <2>2. SameIn(req, req', n) /\ SameIn(queue, queue', <<n, 0>>)
    BY <1>2, <1>3, NothingSame DEF Added, SameBut
  <2>3. n \in fresh' => n \in fresh
    BY DEF Notify
  <2>4. QED
    BY <1>3, <2>1, <2>2, <2>3 DEF SameNotice, SameWire
<1>5. NoticeWay(m)'
  <2>1. NoticeFields(m)'
    BY <1>0, NoticeIs DEF Notify, NoticeFields
  <2>2. NoticePlaces(m)'
    BY <1>0, <1>2, <1>3 DEF NInv, NoticeWay, NoticePlaces, Added, SameBut
  <2>3. Waits(m)'
    BY <1>2 DEF Waits, Added
  <2>4. QED
    BY <2>1, <2>2, <2>3 DEF NoticeWay
<1>6. QED
  BY <1>4, <1>5, OneNotice

LEMMA GiveUpNotices ==
  ASSUME IInv, NInv, NEW s \in Side, GiveUp(s) PROVE NInv'
<1>0. /\ req \in [Side -> Seq(Msg)] /\ type \in [Msg -> {"REQ", "RSP", "NOTIFY"}]
      /\ dest \in [Msg -> Side] /\ count \in [Msg -> 0..3]
  BY DEF IInv, TypeOK
<1>1. PICK m \in Msg :
         /\ Pop(s, m) /\ count[m] > 2
         /\ \/ SendBack(s, m) /\ req' = [req EXCEPT ![s] = Append(Tail(@), m)]
            \/ /\ req' = [req EXCEPT ![s] = Tail(@)]
               /\ UNCHANGED <<type, dest, count, result>>
  BY DEF GiveUp
<1>2. UNCHANGED <<ack_flag, queue, wire, fresh>>
  BY DEF GiveUp, callers, channel
<1>3. req[s] # <<>> /\ m = Head(req[s])
  BY <1>1, PopFacts
<1>4. Taken(req, req', s, m) \/ Moved(req, req')
  <2>1. CASE req' = [req EXCEPT ![s] = Append(Tail(@), m)]
    <3>1. Requeue(req, req', s, m)
      BY <1>3, <2>1 DEF Requeue
    <3>2. QED
      BY <1>0, <3>1, RequeueFacts
  <2>2. CASE req' = [req EXCEPT ![s] = Tail(@)]
    <3>1. Take(req, req', s)
      BY <1>3, <2>2 DEF Take
    <3>2. QED
      BY <1>0, <1>3, <3>1, TakeFacts
  <2>3. QED
    BY <1>1, <2>1, <2>2
<1>5. ASSUME NEW n \in Notice PROVE SameNotice(n)
  <2>1. count[n] = 0
    BY DEF NInv, NoticeWay, NoticeFields
  <2>2. n # m /\ n \in Msg
    <3>1. count[n] # count[m]
      BY <1>1, <2>1
    <3>2. QED
      BY <3>1, NoticeIs
  <2>3. UNCHANGED <<type[n], dest[n], count[n], ack_flag[n]>>
    BY <1>0, <1>1, <1>2, <2>2 DEF SendBack
  <2>4. SameIn(req, req', n) /\ SameIn(queue, queue', <<n, 0>>)
    BY <1>2, <1>4, <2>2, NothingSame DEF Taken, SameBut, Moved
  <2>5. QED
    BY <1>2, <2>3, <2>4 DEF SameNotice, SameWire
<1>6. QED
  BY <1>5, NoNotice

LEMMA HandleNotices ==
  ASSUME IInv, NInv, NEW s \in Side, Handle(s) PROVE NInv'
<1> USE DEF Listed, Queued, Wired
<1>0. req \in [Side -> Seq(Msg)]
  BY DEF IInv, TypeOK
<1>1. PICK m \in Msg :
         /\ Pop(s, m) /\ dest[m] = s /\ req' = [req EXCEPT ![s] = Tail(@)]
         /\ \/ type[m] # "NOTIFY" /\ UNCHANGED fresh
            \/ fresh' = fresh \ {m}
  BY DEF Handle
<1>2. UNCHANGED <<type, dest, count, ack_flag, queue, wire>>
  BY DEF Handle, channel
<1>3. Taken(req, req', s, m)
  <2>1. Take(req, req', s) /\ m = Head(req[s])
    BY <1>1, PopFacts DEF Take
  <2>2. QED
    BY <1>0, <2>1, TakeFacts
<1>4. ASSUME NEW n \in Notice \ {m} PROVE SameNotice(n)
  <2>1. SameIn(req, req', n) /\ SameIn(queue, queue', <<n, 0>>)
    BY <1>2, <1>3, NothingSame DEF Taken, SameBut
  <2>2. QED
    BY <1>1, <1>2, <2>1 DEF SameNotice, SameWire
<1>5. ASSUME m \in Notice PROVE NoticeWay(m)'
  <2>1. NoticeFields(m)'
    BY <1>2, <1>5 DEF NInv, NoticeWay, NoticeFields
  <2>2. m \notin fresh'
    BY <1>1, <1>5 DEF NInv, NoticeWay, NoticeFields
  <2>3. NoticePlaces(m)'
    BY <1>2, <1>3, <1>5 DEF NInv, NoticeWay, NoticePlaces, Taken, SameBut
  <2>4. QED
    BY <2>1, <2>2, <2>3 DEF NoticeWay
<1>6. QED
  BY <1>4, <1>5, OneNotice

(* On a link that loses nothing mb_chnl_write does not fail: the thread     *)
(* that sends has nothing under way there.                                  *)
LEMMA SendNotices ==
  ASSUME NoticeLinksKept, IInv, NInv, NEW s \in Side, Send(s) PROVE NInv'
<1> USE DEF Listed, Queued, Wired
<1>0. /\ req \in [Side -> Seq(Msg)] /\ type \in [Msg -> {"REQ", "RSP", "NOTIFY"}]
      /\ dest \in [Msg -> Side] /\ count \in [Msg -> 0..3]
      /\ ack_flag \in [Msg -> {"SEND", "ACK"}] /\ stuck \subseteq Lossy
  BY DEF IInv, TypeOK
<1>1. PICK m \in Msg :
         /\ Pop(s, m) /\ <<s, dest[m]>> \in Link
         /\ ack_flag' = [ack_flag EXCEPT ![m] = "SEND"]
         /\ \/ /\ wire' = wire \cup {<<s, dest[m], m>>}
               /\ req' = [req EXCEPT ![s] = Tail(@)]
               /\ UNCHANGED <<type, dest, count>>
            \/ /\ Busy(<<s, dest[m]>>) /\ SendBack(s, m)
               /\ req' = [req EXCEPT ![s] = Append(Tail(@), m)]
               /\ UNCHANGED wire
  BY DEF Send
<1>2. UNCHANGED <<queue, fresh>>
  BY DEF Send, callers
<1>3. /\ req[s] # <<>> /\ m = Head(req[s]) /\ m \in ToSet(req[s])
      /\ \A y \in Side : <<s, y>> \notin cmpl /\ \A n \in Msg : <<s, y, n>> \notin wire
  BY <1>1, PopFacts
<1>4. /\ req' = [req EXCEPT ![s] = Tail(@)] => Taken(req, req', s, m)
      /\ req' = [req EXCEPT ![s] = Append(Tail(@), m)] => Moved(req, req')
  <2>1. ASSUME req' = [req EXCEPT ![s] = Tail(@)] PROVE Taken(req, req', s, m)
    <3>1. Take(req, req', s)
      BY <1>3, <2>1 DEF Take
    <3>2. QED
      BY <1>0, <1>3, <3>1, TakeFacts
  <2>2. ASSUME req' = [req EXCEPT ![s] = Append(Tail(@), m)] PROVE Moved(req, req')
    <3>1. Requeue(req, req', s, m)
      BY <1>3, <2>2 DEF Requeue
    <3>2. QED
      BY <1>0, <3>1, RequeueFacts
  <2>3. QED
    BY <2>1, <2>2
<1>5. ASSUME NEW n \in Notice \ {m} PROVE SameNotice(n)
  <2>1. n \in Msg
    BY NoticeIs
  <2>2. UNCHANGED <<type[n], dest[n], count[n], ack_flag[n]>>
    BY <1>0, <1>1, <2>1 DEF SendBack
  <2>3. SameIn(req, req', n) /\ SameIn(queue, queue', <<n, 0>>)
    BY <1>1, <1>2, <1>4, NothingSame DEF Taken, SameBut, Moved
  <2>4. SameWire(n)
    BY <1>1 DEF SameWire
  <2>5. QED
    BY <1>2, <2>2, <2>3, <2>4 DEF SameNotice
<1>6. ASSUME m \in Notice PROVE NoticeWay(m)'
  <2>1. From[m] \in Side /\ To[m] \in Side /\ <<From[m], To[m]>> \in Link
    BY <1>6, NoticeIs
  <2>2. s = From[m] /\ dest[m] = To[m]
    <3>1. dest[m] = To[m] /\ s \in {From[m], To[m]}
      BY <1>3, <1>6 DEF NInv, NoticeWay, NoticeFields, NoticePlaces
    <3>2. <<To[m], To[m]>> \notin Link
      BY DEF Link
    <3>3. QED
      BY <1>1, <3>1, <3>2
  <2>3. ~Busy(<<s, dest[m]>>)
    BY <1>0, <1>3, <1>6, <2>1, <2>2 DEF Busy, UnderWay, NoticeLinksKept
  <2>4. /\ wire' = wire \cup {<<From[m], To[m], m>>} /\ Taken(req, req', s, m)
        /\ UNCHANGED <<type, dest, count>> /\ ack_flag'[m] = "SEND"
    BY <1>0, <1>1, <1>4, <2>2, <2>3
  <2>5. NoticeFields(m)'
    BY <1>6, <2>4 DEF NInv, NoticeWay, NoticeFields
  <2>6. NoticePlaces(m)'
    BY <1>2, <1>6, <2>4 DEF NInv, NoticeWay, NoticePlaces, Taken, SameBut
  <2>7. Waits(m)'
    BY <2>4 DEF Waits
  <2>8. QED
    BY <2>5, <2>6, <2>7 DEF NoticeWay
<1>7. QED
  BY <1>5, <1>6, OneNotice

(* The end of the wait for a completion puts back requests only.            *)
LEMMA SentNotices ==
  ASSUME IInv, NInv, NEW s \in Side, Completed(s) \/ Timeout(s) PROVE NInv'
<1>0. /\ req \in [Side -> Seq(Msg)] /\ count \in [Msg -> 0..3]
      /\ type \in [Msg -> {"REQ", "RSP", "NOTIFY"}] /\ cur[s] \in Msg
  BY DEF IInv, TypeOK, ThreadInv, Completed, Timeout
<1>1. \/ UNCHANGED <<req, count>>
      \/ /\ type[cur[s]] = "REQ" /\ count' = [count EXCEPT ![cur[s]] = @ + 1]
         /\ Put(req, req', s, cur[s])
  BY DEF Completed, Timeout, Again, ToList, Put
<1>2. UNCHANGED <<type, dest, ack_flag, queue, wire, fresh>>
  BY DEF Completed, Timeout, callers, channel
<1>3. \/ UNCHANGED <<req, count>>
      \/ /\ type[cur[s]] = "REQ" /\ count' = [count EXCEPT ![cur[s]] = @ + 1]
         /\ Added(req, req', s, cur[s])
  BY <1>0, <1>1, PutFacts
<1>4. ASSUME NEW n \in Notice PROVE SameNotice(n)
  <2>1. n \in Msg /\ type[n] # "REQ"
    BY NoticeIs DEF NInv, NoticeWay, NoticeFields
  <2>2. count'[n] = count[n]
    BY <1>0, <1>3, <2>1
  <2>3. SameIn(req, req', n) /\ SameIn(queue, queue', <<n, 0>>)
    BY <1>2, <1>3, <2>1, NothingSame DEF Added, SameBut
  <2>4. QED
    BY <1>2, <2>2, <2>3 DEF SameNotice, SameWire
<1>5. QED
  BY <1>4, NoNotice

LEMMA IdleNotices ==
  ASSUME IInv, NInv, NEW s \in Side,
         Acked(s) \/ Sleep(s) \/ Wake(s) \/ (Drain(s) /\ queue[s] = <<>>)
  PROVE  NInv'
<1>0. queue \in [Side -> Seq(Msg \X {0, 1})]
  BY DEF IInv, TypeOK
<1>1. UNCHANGED <<type, dest, count, ack_flag, req, wire, fresh>>
  BY DEF Acked, Sleep, Wake, Drain, message, callers, lists, channel
<1>2. UNCHANGED queue \/ \E m \in Request : Put(queue, queue', s, <<m, 1>>)
  BY DEF Acked, Sleep, Wake, Drain, lists, ToQueue, Put, IInv, ThreadInv
<1>3. UNCHANGED queue \/ \E m \in Request : Added(queue, queue', s, <<m, 1>>)
  <2>1. ASSUME NEW m \in Request PROVE <<m, 1>> \in Msg \X {0, 1}
    BY DEF Msg
  <2>2. QED
    BY <1>0, <1>2, <2>1, PutFacts
<1>4. ASSUME NEW n \in Notice PROVE SameNotice(n)
  <2>1. SameIn(req, req', n)
    BY <1>1, NothingSame
  <2>2. SameIn(queue, queue', <<n, 0>>)
    <3>1. \A m : <<n, 0>> # <<m, 1>>
      OBVIOUS
    <3>2. QED
      BY <1>3, <3>1, NothingSame DEF Added, SameBut
  <2>3. QED
    BY <1>1, <2>1, <2>2 DEF SameNotice, SameWire
<1>5. QED
  BY <1>4, NoNotice

LEMMA DrainNotices ==
  ASSUME IInv, NInv, NEW s \in Side, Drain(s), queue[s] # <<>> PROVE NInv'
<1> USE DEF Listed, Queued, Wired
<1>0. /\ queue \in [Side -> Seq(Msg \X {0, 1})] /\ req \in [Side -> Seq(Msg)]
  BY DEF IInv, TypeOK
<1>1. /\ Take(queue, queue', s)
      /\ Head(queue[s]) \in Msg \X {0, 1} /\ Head(queue[s]) \in ToSet(queue[s])
  BY <1>0, TailFacts DEF Drain, Take
<1>2. PICK m \in Msg, ori \in {0, 1} : Head(queue[s]) = <<m, ori>>
  BY <1>1
<1>3. Taken(queue, queue', s, <<m, ori>>) /\ <<m, ori>> \in ToSet(queue[s])
  <2>1. Taken(queue, queue', s, Head(queue[s]))
    BY <1>0, <1>1, TakeFacts
  <2>2. QED
    BY <1>1, <1>2, <2>1
<1>4. ori = 1 => m \in Request
  <2>1. <<m, ori>>[1] = m /\ <<m, ori>>[2] = ori
    OBVIOUS
  <2>2. QED
    BY <1>3, <2>1 DEF IInv, ThreadInv
<1>5. /\ \/ ori = 0 /\ Put(req, req', s, m)
         \/ ori = 1 /\ UNCHANGED req
      /\ UNCHANGED <<type, dest, count, ack_flag, wire, fresh>>
  BY <1>2 DEF Drain, Put, message, callers, channel
<1>6. \/ ori = 0 /\ Added(req, req', s, m)
      \/ ori = 1 /\ UNCHANGED req
  BY <1>0, <1>5, PutFacts
<1>7. ASSUME NEW n \in Notice \ {m} PROVE SameNotice(n)
  <2>1. <<n, 0>> # <<m, ori>>
    OBVIOUS
  <2>2. SameIn(req, req', n) /\ SameIn(queue, queue', <<n, 0>>)
    BY <1>3, <1>6, <2>1, NothingSame DEF Taken, Added, SameBut
  <2>3. QED
    BY <1>5, <2>2 DEF SameNotice, SameWire
<1>8. ASSUME m \in Notice PROVE NoticeWay(m)'
  <2>1. ori = 0 /\ Added(req, req', s, m)
    BY <1>4, <1>6, <1>8, NoticeIs
  <2>2. s = To[m]
    BY <1>3, <1>8, <2>1 DEF NInv, NoticeWay, NoticePlaces
  <2>3. NoticeFields(m)'
    BY <1>5, <1>8 DEF NInv, NoticeWay, NoticeFields
  <2>4. NoticePlaces(m)'
    BY <1>3, <1>5, <1>8, <2>1, <2>2
       DEF NInv, NoticeWay, NoticePlaces, Added, Taken, SameBut
  <2>5. Waits(m)'
    BY <2>1, <2>2 DEF Waits, Added
  <2>6. QED
    BY <2>3, <2>4, <2>5 DEF NoticeWay
<1>9. QED
  BY <1>7, <1>8, OneNotice

(* rx_isr refuses the message that it has already acknowledged: a notice is *)
(* marked as sent again with every command that carries it.                  *)
LEMMA ReceiveNotices ==
  ASSUME NoticeRoom, IInv, NInv, NEW l \in Link, Receive(l) PROVE NInv'
<1> USE DEF Listed, Queued, Wired
<1>0. /\ queue \in [Side -> Seq(Msg \X {0, 1})] /\ ack_flag \in [Msg -> {"SEND", "ACK"}]
  BY DEF IInv, TypeOK
<1>1. PICK x \in Side, y \in Side : l = <<x, y>>
  BY DEF Link, Side
<1>2. PICK m \in Msg :
         /\ <<x, y, m>> \in wire /\ wire' = wire \ {<<x, y, m>>}
         /\ \/ /\ ack_flag[m] = "SEND" /\ ack_flag' = [ack_flag EXCEPT ![m] = "ACK"]
               /\ IF Len(queue[y]) < QueueLen THEN Put(queue, queue', y, <<m, 0>>)
                                              ELSE queue' = queue
            \/ ack_flag[m] # "SEND" /\ UNCHANGED <<ack_flag, queue>>
  BY <1>1 DEF Receive, ToQueue, Put
<1>3. UNCHANGED <<type, dest, count, fresh, req>>
  BY DEF Receive, callers
<1>4. Put(queue, queue', y, <<m, 0>>) => Added(queue, queue', y, <<m, 0>>)
  <2>1. <<m, 0>> \in Msg \X {0, 1}
    OBVIOUS
  <2>2. QED
    BY <1>0, <2>1, PutFacts
<1>5. ASSUME NEW n \in Notice \ {m} PROVE SameNotice(n)
  <2>1. <<n, 0>> # <<m, 0>> /\ n \in Msg
    BY NoticeIs
  <2>2. SameIn(req, req', n) /\ SameIn(queue, queue', <<n, 0>>)
    BY <1>2, <1>3, <1>4, <2>1, NothingSame DEF Added, SameBut
  <2>3. ack_flag'[n] = ack_flag[n] /\ SameWire(n)
    BY <1>0, <1>2, <2>1 DEF SameWire
  <2>4. QED
    BY <1>3, <2>2, <2>3 DEF SameNotice
<1>6. ASSUME m \in Notice PROVE NoticeWay(m)'
  <2>1. x = From[m] /\ y = To[m] /\ ack_flag[m] = "SEND"
    BY <1>2, <1>6 DEF NInv, NoticeWay, NoticePlaces
  <2>2. Len(queue[y]) < QueueLen
    BY <1>2, <1>6, <2>1 DEF NoticeRoom
  <2>3. Added(queue, queue', y, <<m, 0>>)
    BY <1>2, <1>4, <2>1, <2>2
  <2>4. NoticeFields(m)'
    BY <1>3, <1>6 DEF NInv, NoticeWay, NoticeFields
  <2>5. NoticePlaces(m)'
    BY <1>2, <1>3, <1>6, <2>1, <2>3 DEF NInv, NoticeWay, NoticePlaces, Added, SameBut
  <2>6. Waits(m)'
    BY <2>1, <2>3 DEF Waits, Added
  <2>7. QED
    BY <2>4, <2>5, <2>6 DEF NoticeWay
<1>7. QED
  BY <1>5, <1>6, OneNotice

LEMMA LostNoNotice ==
  ASSUME NoticeLinksKept, NInv, NEW l \in Link, Fault(l) \/ Complete(l),
         NEW n \in Notice
  PROVE  SameWire(n)
<1> USE DEF Wired
<1>1. CASE Complete(l)
  BY <1>1 DEF Complete, SameWire
<1>2. CASE Fault(l)
  <2>1. PICK x \in Side, y \in Side : l = <<x, y>>
    BY DEF Link, Side
  <2>2. PICK m \in Msg : /\ <<x, y>> \in Lossy /\ <<x, y, m>> \in wire
                         /\ wire' = wire \ {<<x, y, m>>}
    BY <1>2, <2>1 DEF Fault
  <2>3. n # m
    BY <2>2 DEF NoticeLinksKept, NInv, NoticeWay, NoticePlaces
  <2>4. QED
    BY <2>2, <2>3 DEF SameWire
<1>3. QED
  BY <1>1, <1>2

LEMMA ChannelNotices ==
  ASSUME NoticeLinksKept, NInv, NEW l \in Link, Fault(l) \/ Complete(l) PROVE NInv'
<1>1. UNCHANGED <<type, dest, count, ack_flag, fresh, req, queue>>
  BY DEF Fault, Complete, message, callers, lists
<1>2. ASSUME NEW n \in Notice PROVE SameWire(n)
  BY LostNoNotice
<1>3. ASSUME NEW n \in Notice PROVE SameNotice(n)
  BY <1>1, <1>2, NothingSame DEF SameNotice
<1>4. QED
  BY <1>3, NoNotice

LEMMA NoticeInit == Init => NInv
<1> SUFFICES ASSUME Init, NEW m \in Notice PROVE NoticeWay(m)
  BY DEF NInv
<1>1. ToSet(<<>>) = {}
  BY DEF ToSet
<1>2. NoticeFields(m)
  BY NoticeIs DEF Init, NoticeFields
<1>3. NoticePlaces(m)
  BY <1>1 DEF Init, NoticePlaces, Listed, Queued, Wired
<1>4. QED
  BY <1>2, <1>3 DEF Init, NoticeWay

LEMMA NoticeNext ==
  ASSUME NoticeLinksKept, NoticeRoom, IInv, NInv, [Next]_vars PROVE NInv'
<1>1. CASE Next
  BY <1>1, CallerNotices, NotifyNotices, GiveUpNotices, HandleNotices, SendNotices,
     SentNotices, IdleNotices, DrainNotices, ReceiveNotices, ChannelNotices
     DEF Next, Thread
<1>2. CASE UNCHANGED vars
  <2>1. UNCHANGED <<type, dest, count, ack_flag, fresh, req, queue, wire>>
    BY <1>2 DEF vars, message, callers, lists, channel
  <2>2. ASSUME NEW n \in Notice PROVE SameNotice(n)
    BY <2>1, NothingSame DEF SameNotice, SameWire
  <2>3. QED
    BY <2>2, NoNotice
<1>3. QED
  BY <1>1, <1>2

LEMMA TimesFacts ==
  ASSUME NEW S, NEW q \in Seq(S), NEW e
  PROVE  Times(q, e) \in Nat /\ (e \in ToSet(q) => Times(q, e) > 0)
<1> DEFINE at == {i \in DOMAIN q : q[i] = e}
<1>1. DOMAIN q = 1..Len(q) /\ Len(q) \in Nat
  OBVIOUS
<1>2. IsFiniteSet(1..Len(q)) /\ at \in SUBSET (1..Len(q))
  BY <1>1, FS_Interval
<1>3. IsFiniteSet(at)
  BY <1>2, FS_Subset
<1>4. Cardinality(at) \in Nat /\ (Cardinality(at) = 0 <=> at = {})
  BY <1>3, FS_CardinalityType, FS_EmptySet
<1>5. e \in ToSet(q) => at # {}
  BY DEF ToSet
<1>6. QED
  BY <1>4, <1>5 DEF Times

(* While no notice arrives at a full queue and the links of the notices     *)
(* lose nothing, the last content of every notice reaches its peer: of the  *)
(* copies under way one is left until it is handled.                        *)
THEOREM NoticesKept ==
  ASSUME Punctual, NoticeLinksKept PROVE Spec /\ []NoticeRoom => []NoticeKept
<1>1. IInv /\ NInv => NoticeKept
  <2> SUFFICES ASSUME IInv, NInv, NEW m \in fresh PROVE Copies(m) > 0
    BY DEF NoticeKept
  <2>1. /\ m \in Notice /\ req \in [Side -> Seq(Msg)]
        /\ queue \in [Side -> Seq(Msg \X {0, 1})]
    BY DEF IInv, TypeOK
  <2>2. /\ req[From[m]] \in Seq(Msg) /\ req[To[m]] \in Seq(Msg)
        /\ queue[To[m]] \in Seq(Msg \X {0, 1})
    BY <2>1, NoticeIs
  <2> DEFINE a == Times(req[From[m]], m)
             b == Times(req[To[m]], m)
             c == Times(queue[To[m]], <<m, 0>>)
             d == IF <<From[m], To[m], m>> \in wire THEN 1 ELSE 0
  <2>3. /\ a \in Nat /\ (m \in ToSet(req[From[m]]) => a > 0)
        /\ b \in Nat /\ (m \in ToSet(req[To[m]]) => b > 0)
        /\ c \in Nat /\ (<<m, 0>> \in ToSet(queue[To[m]]) => c > 0)
    BY <2>2, TimesFacts
  <2>4. d \in Nat /\ (<<From[m], To[m], m>> \in wire => d > 0)
    OBVIOUS
  <2>5. Waits(m)
    BY <2>1 DEF NInv, NoticeWay
  <2>6. a > 0 \/ b > 0 \/ c > 0 \/ d > 0
    BY <2>3, <2>4, <2>5 DEF Waits, Listed, Queued, Wired
  <2> HIDE DEF a, b, c, d
  <2>7. a + b + c + d > 0
    BY <2>3, <2>4, <2>6
  <2>8. QED
    BY <2>7 DEF Copies, a, b, c, d
<1>2. NoticeRoom /\ IInv /\ NInv /\ [Next]_vars => NInv'
  BY NoticeNext
<1>3. QED
  BY <1>1, <1>2, NoticeInit, Invariance, PTL DEF Spec

-----------------------------------------------------------------------------
(* How often an entry is in a list.                                        *)
LEMMA TimesAppend ==
  ASSUME NEW S, NEW q \in Seq(S), NEW e \in S, NEW d
  PROVE  Times(Append(q, e), d) = Times(q, d) + (IF d = e THEN 1 ELSE 0)
<1> DEFINE at == {i \in DOMAIN q : q[i] = d}
           r == Append(q, e)
           next == {i \in DOMAIN r : r[i] = d}
<1>1. /\ DOMAIN q = 1..Len(q) /\ Len(q) \in Nat /\ DOMAIN r = 1..(Len(q) + 1)
      /\ \A i \in 1..Len(q) : r[i] = q[i]
      /\ r[Len(q) + 1] = e
  OBVIOUS
<1>2. IsFiniteSet(at) /\ Cardinality(at) \in Nat
  <2>1. IsFiniteSet(1..Len(q)) /\ at \in SUBSET (1..Len(q))
    BY <1>1, FS_Interval
  <2>2. QED
    BY <2>1, FS_Subset, FS_CardinalityType
<1>3. next = IF d = e THEN at \cup {Len(q) + 1} ELSE at
  <2> HIDE DEF r
  <2>1. CASE d = e
    BY <1>1, <2>1
  <2>2. CASE d # e
    BY <1>1, <2>2
  <2>3. QED
    BY <2>1, <2>2
<1>4. Len(q) + 1 \notin at
  BY <1>1
<1>5. Cardinality(at \cup {Len(q) + 1}) = Cardinality(at) + 1
  BY <1>2, <1>4, FS_AddElement
<1>6. Cardinality(next) = Cardinality(at) + (IF d = e THEN 1 ELSE 0)
  <2> HIDE DEF next, at
  <2>1. QED
    BY <1>2, <1>3, <1>5
<1>7. QED
  BY <1>6 DEF Times

LEMMA TimesTail ==
  ASSUME NEW S, NEW q \in Seq(S), q # <<>>, NEW d
  PROVE  Times(q, d) = Times(Tail(q), d) + (IF d = Head(q) THEN 1 ELSE 0)
<1> DEFINE at == {i \in DOMAIN q : q[i] = d}
           r == Tail(q)
           next == {i \in DOMAIN r : r[i] = d}
           up == {i \in at : i # 1}
<1>1. /\ DOMAIN q = 1..Len(q) /\ Len(q) \in Nat \ {0} /\ DOMAIN r = 1..(Len(q) - 1)
      /\ \A i \in 1..(Len(q) - 1) : r[i] = q[i + 1]
      /\ Head(q) = q[1]
  OBVIOUS
<1>2. IsFiniteSet(next) /\ Cardinality(next) \in Nat
  <2>1. IsFiniteSet(1..(Len(q) - 1)) /\ next \in SUBSET (1..(Len(q) - 1))
    BY <1>1, FS_Interval
  <2>2. QED
    BY <2>1, FS_Subset, FS_CardinalityType
<1>3. Cardinality(up) = Cardinality(next) /\ IsFiniteSet(up)
  <2> DEFINE f == [i \in next |-> i + 1]
  <2> HIDE DEF r
  <2>1. f \in [next -> up]
    BY <1>1
  <2>2. \A i, j \in next : f[i] = f[j] => i = j
    BY <1>1
  <2>3. ASSUME NEW k \in up PROVE \E i \in next : f[i] = k
    <3>1. k - 1 \in 1..(Len(q) - 1) /\ (k - 1) + 1 = k
      BY <1>1
    <3>2. k - 1 \in next
      BY <1>1, <3>1
    <3>3. QED
      BY <3>1, <3>2
  <2> HIDE DEF f, next, up
  <2>4. f \in Bijection(next, up)
    BY <2>1, <2>2, <2>3 DEF Bijection, Injection, Surjection, IsInjective
  <2>5. QED
    BY <1>2, <2>4, FS_Bijection DEF ExistsBijection
<1>4. at = IF d = Head(q) THEN up \cup {1} ELSE up
  BY <1>1
<1>5. Cardinality(up \cup {1}) = Cardinality(up) + 1
  BY <1>3, FS_AddElement
<1>6. Cardinality(at) = Cardinality(next) + (IF d = Head(q) THEN 1 ELSE 0)
  <2> HIDE DEF at, next, up
  <2>1. QED
    BY <1>2, <1>3, <1>4, <1>5
<1>7. QED
  BY <1>6 DEF Times

SameTimes(f, g, d) == \A y \in Side : Times(g[y], d) = Times(f[y], d)

LEMMA PutTimes ==
  ASSUME NEW S, NEW f \in [Side -> Seq(S)], NEW g, NEW x \in Side, NEW e \in S,
         Put(f, g, x, e)
  PROVE  /\ \A y \in Side \ {x} : Times(g[y], e) = Times(f[y], e)
         /\ Times(g[x], e) = Times(f[x], e) + 1
<1>1. g[x] = Append(f[x], e) /\ f[x] \in Seq(S) /\ \A y \in Side \ {x} : g[y] = f[y]
  BY DEF Put
<1>2. \A d : Times(g[x], d) = Times(f[x], d) + (IF d = e THEN 1 ELSE 0)
  BY <1>1, TimesAppend
<1>3. Times(g[x], e) = Times(f[x], e) + 1
  BY <1>2
<1>4. QED
  BY <1>1, <1>3

LEMMA PutOther ==
  ASSUME NEW S, NEW f \in [Side -> Seq(S)], NEW g, NEW x \in Side, NEW e \in S,
         Put(f, g, x, e), NEW d, d # e
  PROVE  SameTimes(f, g, d)
<1>1. g[x] = Append(f[x], e) /\ f[x] \in Seq(S) /\ \A y \in Side \ {x} : g[y] = f[y]
  BY DEF Put
<1>2. Times(g[x], d) = Times(f[x], d) + 0 /\ Times(f[x], d) \in Nat
  BY <1>1, TimesAppend, TimesFacts
<1>3. Times(g[x], d) = Times(f[x], d)
  BY <1>2
<1>4. \A y \in Side \ {x} : Times(g[y], d) = Times(f[y], d)
  BY <1>1
<1>5. QED
  BY <1>3, <1>4 DEF SameTimes

LEMMA TakeTimes ==
  ASSUME NEW S, NEW f \in [Side -> Seq(S)], NEW g, NEW x \in Side, Take(f, g, x)
  PROVE  /\ \A y \in Side \ {x} : Times(g[y], Head(f[x])) = Times(f[y], Head(f[x]))
         /\ Times(f[x], Head(f[x])) = Times(g[x], Head(f[x])) + 1
<1>1. /\ g[x] = Tail(f[x]) /\ f[x] \in Seq(S) /\ f[x] # <<>>
      /\ \A y \in Side \ {x} : g[y] = f[y]
  BY DEF Take
<1>2. \A d : Times(f[x], d) = Times(g[x], d) + (IF d = Head(f[x]) THEN 1 ELSE 0)
  BY <1>1, TimesTail
<1>3. Times(f[x], Head(f[x])) = Times(g[x], Head(f[x])) + 1
  BY <1>2
<1>4. QED
  BY <1>1, <1>3

LEMMA TakeOther ==
  ASSUME NEW S, NEW f \in [Side -> Seq(S)], NEW g, NEW x \in Side, Take(f, g, x),
         NEW d, d # Head(f[x])
  PROVE  SameTimes(f, g, d)
<1>1. /\ g[x] = Tail(f[x]) /\ f[x] \in Seq(S) /\ f[x] # <<>>
      /\ \A y \in Side \ {x} : g[y] = f[y]
  BY DEF Take
<1>2. Times(f[x], d) = Times(g[x], d) + 0
  BY <1>1, TimesTail
<1>3. g[x] \in Seq(S)
  BY <1>1, TailFacts
<1>4. Times(g[x], d) \in Nat
  BY <1>3, TimesFacts
<1>5. Times(g[x], d) = Times(f[x], d)
  BY <1>2, <1>4
<1>6. \A y \in Side \ {x} : Times(g[y], d) = Times(f[y], d)
  BY <1>1
<1>7. QED
  BY <1>5, <1>6 DEF SameTimes

LEMMA RequeueTimes ==
  ASSUME NEW S, NEW f \in [Side -> Seq(S)], NEW g, NEW x \in Side, NEW e,
         Requeue(f, g, x, e)
  PROVE  \A d : SameTimes(f, g, d)
<1> DEFINE r == Tail(f[x])
<1>1. /\ g[x] = Append(r, e) /\ f[x] \in Seq(S) /\ f[x] # <<>>
      /\ e = Head(f[x]) /\ \A y \in Side \ {x} : g[y] = f[y]
  BY DEF Requeue
<1>2. r \in Seq(S) /\ e \in S
  BY <1>1, TailFacts
<1>3. \A d : Times(f[x], d) = Times(r, d) + (IF d = e THEN 1 ELSE 0)
  BY <1>1, TimesTail
<1>4. \A d : Times(Append(r, e), d) = Times(r, d) + (IF d = e THEN 1 ELSE 0)
  BY <1>2, TimesAppend
<1>5. \A d : Times(g[x], d) = Times(f[x], d)
  BY <1>1, <1>3, <1>4
<1>6. QED
  BY <1>1, <1>5 DEF SameTimes
-----------------------------------------------------------------------------
(* The copies of a notice: no step makes one but the caller's.             *)
OnWire(m) == IF Wired(From[m], To[m], m) THEN 1 ELSE 0
CopiesInv == \A m \in Notice : Copies(m) <= NoticeMax

SameCopies(m) ==
  SameTimes(req, req', m) /\ SameTimes(queue, queue', <<m, 0>>) /\ SameWire(m)

LEMMA CopiesFacts ==
  ASSUME NEW m \in Notice, NEW r \in [Side -> Seq(Msg)],
         NEW q \in [Side -> Seq(Msg \X {0, 1})]
  PROVE  /\ Times(r[From[m]], m) \in Nat /\ Times(r[To[m]], m) \in Nat
         /\ Times(q[To[m]], <<m, 0>>) \in Nat
<1>1. /\ r[From[m]] \in Seq(Msg) /\ r[To[m]] \in Seq(Msg)
      /\ q[To[m]] \in Seq(Msg \X {0, 1})
  BY NoticeIs
<1>2. QED
  BY <1>1, TimesFacts

LEMMA CopiesSum ==
  ASSUME NEW m \in Notice, TypeOK, TypeOK'
  PROVE  /\ Copies(m) = Times(req[From[m]], m) + Times(req[To[m]], m)
                          + Times(queue[To[m]], <<m, 0>>) + OnWire(m)
         /\ Copies(m)' = Times(req'[From[m]], m) + Times(req'[To[m]], m)
                           + Times(queue'[To[m]], <<m, 0>>) + OnWire(m)'
         /\ Times(req[From[m]], m) \in Nat /\ Times(req'[From[m]], m) \in Nat
         /\ Times(req[To[m]], m) \in Nat /\ Times(req'[To[m]], m) \in Nat
         /\ Times(queue[To[m]], <<m, 0>>) \in Nat
         /\ Times(queue'[To[m]], <<m, 0>>) \in Nat
         /\ OnWire(m) \in {0, 1} /\ OnWire(m)' \in {0, 1}
<1>1. /\ req \in [Side -> Seq(Msg)] /\ req' \in [Side -> Seq(Msg)]
      /\ queue \in [Side -> Seq(Msg \X {0, 1})]
      /\ queue' \in [Side -> Seq(Msg \X {0, 1})]
  BY DEF TypeOK
<1>2. /\ Times(req[From[m]], m) \in Nat /\ Times(req[To[m]], m) \in Nat
      /\ Times(queue[To[m]], <<m, 0>>) \in Nat
  BY <1>1, CopiesFacts
<1>3. /\ Times(req'[From[m]], m) \in Nat /\ Times(req'[To[m]], m) \in Nat
      /\ Times(queue'[To[m]], <<m, 0>>) \in Nat
  BY <1>1, CopiesFacts
<1>4. OnWire(m) \in {0, 1} /\ OnWire(m)' \in {0, 1}
  BY DEF OnWire
<1>5. /\ Copies(m) = Times(req[From[m]], m) + Times(req[To[m]], m)
                       + Times(queue[To[m]], <<m, 0>>) + OnWire(m)
      /\ Copies(m)' = Times(req'[From[m]], m) + Times(req'[To[m]], m)
                        + Times(queue'[To[m]], <<m, 0>>) + OnWire(m)'
  BY DEF Copies, OnWire, Wired
<1>6. QED
  BY <1>2, <1>3, <1>4, <1>5

LEMMA CopiesKept ==
  ASSUME CopiesInv, NEW m \in Notice, SameCopies(m) PROVE Copies(m)' <= NoticeMax
<1>1. From[m] \in Side /\ To[m] \in Side
  BY NoticeIs
<1>2. /\ Times(req'[From[m]], m) = Times(req[From[m]], m)
      /\ Times(req'[To[m]], m) = Times(req[To[m]], m)
      /\ Times(queue'[To[m]], <<m, 0>>) = Times(queue[To[m]], <<m, 0>>)
  BY <1>1 DEF SameCopies, SameTimes
<1>3. <<From[m], To[m], m>> \in wire' <=> <<From[m], To[m], m>> \in wire
  BY <1>1 DEF SameCopies, SameWire
<1>4. Copies(m)' = Copies(m)
  BY <1>2, <1>3 DEF Copies
<1>5. QED
  BY <1>4 DEF CopiesInv

LEMMA OneCopied ==
  ASSUME CopiesInv, NEW m, \A n \in Notice \ {m} : SameCopies(n),
         m \in Notice => Copies(m)' <= NoticeMax
  PROVE  CopiesInv'
<1>1. ASSUME NEW n \in Notice PROVE Copies(n)' <= NoticeMax
  BY CopiesKept
<1>2. QED
  BY <1>1 DEF CopiesInv

LEMMA NoneCopied ==
  ASSUME CopiesInv, \A n \in Notice : SameCopies(n) PROVE CopiesInv'
BY CopiesKept DEF CopiesInv

LEMMA Untouched == ASSUME NEW f, NEW d PROVE SameTimes(f, f, d)
BY DEF SameTimes

LEMMA CallerCopies ==
  ASSUME IInv, CopiesInv, NEW m \in Msg, Call(m) \/ Return(m) \/ Respond(m)
  PROVE  CopiesInv'
<1>1. req \in [Side -> Seq(Msg)] /\ m \in Request /\ From[m] \in Side /\ To[m] \in Side
  BY Sides DEF Call, Return, Respond, IInv, TypeOK
<1>2. UNCHANGED req \/ \E x \in Side : Put(req, req', x, m)
  BY <1>1 DEF Call, Return, Respond, ToList, Put, lists
<1>3. UNCHANGED <<queue, wire>>
  BY DEF Call, Return, Respond, lists, channel
<1>4. ASSUME NEW n \in Notice PROVE SameCopies(n)
  <2>1. n # m
    BY <1>1, NoticeIs
  <2>2. SameTimes(req, req', n)
    BY <1>1, <1>2, <2>1, PutOther, Untouched
  <2>3. QED
    BY <1>3, <2>2, Untouched DEF SameCopies, SameWire
<1>5. QED
  BY <1>4, NoneCopied

LEMMA NotifyCopies ==
  ASSUME IInv, TypeOK', CopiesInv, NEW m \in Msg, Notify(m) PROVE CopiesInv'
<1>1. /\ req \in [Side -> Seq(Msg)] /\ m \in Notice /\ From[m] \in Side /\ To[m] \in Side
      /\ From[m] # To[m] /\ Put(req, req', From[m], m) /\ UNCHANGED <<queue, wire>>
  BY Sides DEF IInv, TypeOK, Notify, ToList, Put, channel
<1>2. ASSUME NEW n \in Notice \ {m} PROVE SameCopies(n)
  <2>1. SameTimes(req, req', n)
    BY <1>1, PutOther
  <2>2. QED
    BY <1>1, <2>1, Untouched DEF SameCopies, SameWire
<1>3. /\ Times(req'[From[m]], m) = Times(req[From[m]], m) + 1
      /\ \A y \in Side \ {From[m]} : Times(req'[y], m) = Times(req[y], m)
  BY <1>1, PutTimes
<1>4. /\ Times(req'[To[m]], m) = Times(req[To[m]], m)
      /\ Times(queue'[To[m]], <<m, 0>>) = Times(queue[To[m]], <<m, 0>>)
      /\ OnWire(m)' = OnWire(m)
  BY <1>1, <1>3 DEF OnWire, Wired
<1>5. Copies(m)' = Copies(m) + 1 /\ Copies(m) \in Nat
  <2>0. TypeOK
    BY DEF IInv
  <2>1. Copies(m) = Times(req[From[m]], m) + Times(req[To[m]], m)
                    + Times(queue[To[m]], <<m, 0>>) + OnWire(m)
    BY <1>1, <2>0, CopiesSum
  <2>2. Copies(m)' = Times(req'[From[m]], m) + Times(req'[To[m]], m)
                     + Times(queue'[To[m]], <<m, 0>>) + OnWire(m)'
    BY <1>1, <2>0, CopiesSum
  <2>3. /\ Times(req[From[m]], m) \in Nat /\ Times(req'[From[m]], m) \in Nat
        /\ Times(req[To[m]], m) \in Nat /\ Times(req'[To[m]], m) \in Nat
        /\ Times(queue[To[m]], <<m, 0>>) \in Nat
        /\ Times(queue'[To[m]], <<m, 0>>) \in Nat
        /\ OnWire(m) \in {0, 1} /\ OnWire(m)' \in {0, 1}
    BY <1>1, <2>0, CopiesSum
  <2>4. QED
    BY <1>3, <1>4, <2>1, <2>2, <2>3
<1>6. Copies(m) < NoticeMax /\ NoticeMax \in Nat
  BY MailboxAssumption DEF Notify
<1>7. Copies(m)' <= NoticeMax
  BY <1>5, <1>6
<1>8. QED
  BY <1>2, <1>7, OneCopied

LEMMA GiveUpCopies ==
  ASSUME IInv, NInv, CopiesInv, NEW s \in Side, GiveUp(s) PROVE CopiesInv'
<1>0. req \in [Side -> Seq(Msg)]
  BY DEF IInv, TypeOK
<1>1. PICK m \in Msg :
         /\ Pop(s, m) /\ count[m] > 2
         /\ \/ req' = [req EXCEPT ![s] = Append(Tail(@), m)]
            \/ req' = [req EXCEPT ![s] = Tail(@)]
  BY DEF GiveUp
<1>2. UNCHANGED <<queue, wire>> /\ req[s] # <<>> /\ m = Head(req[s])
  BY <1>1, PopFacts DEF GiveUp, channel
<1>3. Requeue(req, req', s, m) \/ Take(req, req', s)
  BY <1>1, <1>2 DEF Requeue, Take
<1>4. ASSUME NEW n \in Notice PROVE SameCopies(n)
  <2>1. count[n] = 0
    BY DEF NInv, NoticeWay, NoticeFields
  <2>2. n # m
    BY <1>1, <2>1
  <2>3. SameTimes(req, req', n)
    BY <1>0, <1>2, <1>3, <2>2, RequeueTimes, TakeOther
  <2>4. QED
    BY <1>2, <2>3, Untouched DEF SameCopies, SameWire
<1>5. QED
  BY <1>4, NoneCopied

LEMMA HandleCopies ==
  ASSUME IInv, TypeOK', NInv, CopiesInv, NEW s \in Side, Handle(s) PROVE CopiesInv'
<1>0. TypeOK /\ req \in [Side -> Seq(Msg)]
  BY DEF IInv, TypeOK
<1>1. PICK m \in Msg :
         Pop(s, m) /\ dest[m] = s /\ req' = [req EXCEPT ![s] = Tail(@)]
  BY DEF Handle
<1>2. /\ UNCHANGED <<queue, wire>> /\ m = Head(req[s])
      /\ Take(req, req', s)
  BY <1>1, PopFacts DEF Handle, Take, channel
<1>3. ASSUME NEW n \in Notice \ {m} PROVE SameCopies(n)
  <2>1. SameTimes(req, req', n)
    BY <1>0, <1>2, TakeOther
  <2>2. QED
    BY <1>2, <2>1, Untouched DEF SameCopies, SameWire
<1>4. ASSUME m \in Notice PROVE Copies(m)' <= NoticeMax
  <2>1. From[m] \in Side /\ From[m] # To[m] /\ s = To[m]
    BY <1>1, <1>4, NoticeIs DEF NInv, NoticeWay, NoticeFields
  <2>2. /\ Times(req[s], m) = Times(req'[s], m) + 1
        /\ \A y \in Side \ {s} : Times(req'[y], m) = Times(req[y], m)
    BY <1>0, <1>2, TakeTimes
  <2>3. OnWire(m)' = OnWire(m) /\ queue' = queue
    BY <1>2 DEF OnWire, Wired
  <2>4. /\ Times(req'[From[m]], m) = Times(req[From[m]], m)
        /\ Times(req[To[m]], m) = Times(req'[To[m]], m) + 1
        /\ Times(queue'[To[m]], <<m, 0>>) = Times(queue[To[m]], <<m, 0>>)
    BY <2>1, <2>2, <2>3
  <2>5. Copies(m) = Copies(m)' + 1 /\ Copies(m)' \in Nat
    <3>1. Copies(m) = Times(req[From[m]], m) + Times(req[To[m]], m)
                      + Times(queue[To[m]], <<m, 0>>) + OnWire(m)
      BY <1>0, <1>4, CopiesSum
    <3>2. Copies(m)' = Times(req'[From[m]], m) + Times(req'[To[m]], m)
                       + Times(queue'[To[m]], <<m, 0>>) + OnWire(m)'
      BY <1>0, <1>4, CopiesSum
    <3>3. /\ Times(req[From[m]], m) \in Nat /\ Times(req'[From[m]], m) \in Nat
          /\ Times(req[To[m]], m) \in Nat /\ Times(req'[To[m]], m) \in Nat
          /\ Times(queue[To[m]], <<m, 0>>) \in Nat
          /\ Times(queue'[To[m]], <<m, 0>>) \in Nat
          /\ OnWire(m) \in {0, 1} /\ OnWire(m)' \in {0, 1}
      BY <1>0, <1>4, CopiesSum
    <3>4. QED
      BY <2>3, <2>4, <3>1, <3>2, <3>3
  <2>6. Copies(m) <= NoticeMax /\ NoticeMax \in Nat
    BY <1>4, MailboxAssumption DEF CopiesInv
  <2>7. QED
    BY <2>5, <2>6
<1>5. QED
  BY <1>3, <1>4, OneCopied

LEMMA SendCopies ==
  ASSUME IInv, TypeOK', NInv, CopiesInv, NEW s \in Side, Send(s) PROVE CopiesInv'
<1>0. TypeOK /\ req \in [Side -> Seq(Msg)]
  BY DEF IInv, TypeOK
<1>1. PICK m \in Msg :
         /\ Pop(s, m) /\ <<s, dest[m]>> \in Link
         /\ \/ /\ wire' = wire \cup {<<s, dest[m], m>>}
               /\ req' = [req EXCEPT ![s] = Tail(@)]
            \/ /\ req' = [req EXCEPT ![s] = Append(Tail(@), m)]
               /\ UNCHANGED wire
  BY DEF Send
<1>2. /\ UNCHANGED queue /\ req[s] # <<>> /\ m = Head(req[s]) /\ m \in ToSet(req[s])
      /\ \A y \in Side : \A n \in Msg : <<s, y, n>> \notin wire
  BY <1>1, PopFacts DEF Send
<1>3. \/ wire' = wire \cup {<<s, dest[m], m>>} /\ Take(req, req', s)
      \/ UNCHANGED wire /\ Requeue(req, req', s, m)
  BY <1>1, <1>2 DEF Requeue, Take
<1>4. ASSUME NEW n \in Notice \ {m} PROVE SameCopies(n)
  <2>1. SameTimes(req, req', n)
    BY <1>0, <1>2, <1>3, RequeueTimes, TakeOther
  <2>2. SameWire(n)
    BY <1>3 DEF SameWire
  <2>3. QED
    BY <1>2, <2>1, <2>2, Untouched DEF SameCopies
<1>5. ASSUME m \in Notice PROVE Copies(m)' <= NoticeMax
  <2>1. CASE UNCHANGED wire /\ Requeue(req, req', s, m)
    <3>1. SameCopies(m)
      BY <1>0, <1>2, <2>1, RequeueTimes, Untouched DEF SameCopies, SameWire
    <3>2. QED
      BY <1>5, <3>1, CopiesKept
  <2>2. CASE wire' = wire \cup {<<s, dest[m], m>>} /\ Take(req, req', s)
    <3>1. /\ From[m] \in Side /\ To[m] \in Side /\ From[m] # To[m] /\ dest[m] = To[m]
          /\ s \in {From[m], To[m]}
      BY <1>2, <1>5, NoticeIs DEF NInv, NoticeWay, NoticeFields, NoticePlaces, Listed
    <3>2. s = From[m]
      <4>1. <<To[m], To[m]>> \notin Link
        BY DEF Link
      <4>2. QED
        BY <1>1, <3>1, <4>1
    <3>3. /\ Times(req[s], m) = Times(req'[s], m) + 1
          /\ \A y \in Side \ {s} : Times(req'[y], m) = Times(req[y], m)
      BY <1>0, <1>2, <2>2, TakeTimes
    <3>4. OnWire(m) = 0 /\ OnWire(m)' = 1
      BY <1>2, <2>2, <3>1, <3>2 DEF OnWire, Wired
    <3>5. /\ Times(req[From[m]], m) = Times(req'[From[m]], m) + 1
          /\ Times(req'[To[m]], m) = Times(req[To[m]], m)
          /\ Times(queue'[To[m]], <<m, 0>>) = Times(queue[To[m]], <<m, 0>>)
      BY <1>2, <3>1, <3>2, <3>3
    <3>6. Copies(m) = Copies(m)'
      <4>1. Copies(m) = Times(req[From[m]], m) + Times(req[To[m]], m)
                        + Times(queue[To[m]], <<m, 0>>) + OnWire(m)
        BY <1>0, <1>5, CopiesSum
      <4>2. Copies(m)' = Times(req'[From[m]], m) + Times(req'[To[m]], m)
                         + Times(queue'[To[m]], <<m, 0>>) + OnWire(m)'
        BY <1>0, <1>5, CopiesSum
      <4>3. /\ Times(req[From[m]], m) \in Nat /\ Times(req'[From[m]], m) \in Nat
            /\ Times(req[To[m]], m) \in Nat /\ Times(req'[To[m]], m) \in Nat
            /\ Times(queue[To[m]], <<m, 0>>) \in Nat
            /\ Times(queue'[To[m]], <<m, 0>>) \in Nat
            /\ OnWire(m) \in {0, 1} /\ OnWire(m)' \in {0, 1}
        BY <1>0, <1>5, CopiesSum
      <4>4. QED
        BY <3>4, <3>5, <4>1, <4>2, <4>3
    <3>7. QED
      BY <1>5, <3>6 DEF CopiesInv
  <2>3. QED
    BY <1>3, <2>1, <2>2
<1>6. QED
  BY <1>4, <1>5, OneCopied

LEMMA SentCopies ==
  ASSUME IInv, NInv, CopiesInv, NEW s \in Side, Completed(s) \/ Timeout(s)
  PROVE  CopiesInv'
<1>0. req \in [Side -> Seq(Msg)] /\ cur[s] \in Msg
  BY DEF IInv, TypeOK, ThreadInv, Completed, Timeout
<1>1. UNCHANGED req \/ (type[cur[s]] = "REQ" /\ Put(req, req', s, cur[s]))
  BY DEF Completed, Timeout, Again, ToList, Put
<1>2. UNCHANGED <<queue, wire>>
  BY DEF Completed, Timeout, channel
<1>3. ASSUME NEW n \in Notice PROVE SameCopies(n)
  <2>1. type[n] # "REQ"
    BY DEF NInv, NoticeWay, NoticeFields
  <2>2. SameTimes(req, req', n)
    <3>1. CASE UNCHANGED req
      BY <3>1, Untouched
    <3>2. CASE n # cur[s] /\ Put(req, req', s, cur[s])
      BY <1>0, <3>2, PutOther
    <3>3. QED
      BY <1>1, <2>1, <3>1, <3>2
  <2>3. QED
    BY <1>2, <2>2, Untouched DEF SameCopies, SameWire
<1>4. QED
  BY <1>3, NoneCopied

LEMMA IdleCopies ==
  ASSUME IInv, CopiesInv, NEW s \in Side,
         Acked(s) \/ Sleep(s) \/ Wake(s) \/ (Drain(s) /\ queue[s] = <<>>)
  PROVE  CopiesInv'
<1>0. queue \in [Side -> Seq(Msg \X {0, 1})]
  BY DEF IInv, TypeOK
<1>1. UNCHANGED <<req, wire>>
  BY DEF Acked, Sleep, Wake, Drain, lists, channel
<1>2. UNCHANGED queue \/ \E m \in Request : Put(queue, queue', s, <<m, 1>>)
  BY DEF Acked, Sleep, Wake, Drain, lists, ToQueue, Put, IInv, ThreadInv
<1>3. ASSUME NEW n \in Notice PROVE SameCopies(n)
  <2>1. SameTimes(queue, queue', <<n, 0>>)
    <3>1. ASSUME NEW m \in Request, Put(queue, queue', s, <<m, 1>>)
          PROVE  SameTimes(queue, queue', <<n, 0>>)
      <4>1. <<m, 1>> \in Msg \X {0, 1} /\ <<n, 0>> # <<m, 1>>
        BY DEF Msg
      <4>2. QED
        BY <1>0, <3>1, <4>1, PutOther
    <3>2. QED
      BY <1>2, <3>1, Untouched
  <2>2. QED
    BY <1>1, <2>1, Untouched DEF SameCopies, SameWire
<1>4. QED
  BY <1>3, NoneCopied

LEMMA DrainCopies ==
  ASSUME IInv, TypeOK', NInv, CopiesInv, NEW s \in Side, Drain(s), queue[s] # <<>>
  PROVE  CopiesInv'
<1>0. /\ queue \in [Side -> Seq(Msg \X {0, 1})] /\ req \in [Side -> Seq(Msg)]
      /\ TypeOK
  BY DEF IInv, TypeOK
<1>1. /\ Take(queue, queue', s)
      /\ Head(queue[s]) \in Msg \X {0, 1} /\ Head(queue[s]) \in ToSet(queue[s])
  BY <1>0, TailFacts DEF Drain, Take
<1>2. PICK m \in Msg, ori \in {0, 1} : Head(queue[s]) = <<m, ori>>
  BY <1>1
<1>3. ori = 1 => m \in Request
  <2>1. <<m, ori>>[1] = m /\ <<m, ori>>[2] = ori
    OBVIOUS
  <2>2. QED
    BY <1>1, <1>2, <2>1 DEF IInv, ThreadInv
<1>4. /\ \/ ori = 0 /\ Put(req, req', s, m)
         \/ ori = 1 /\ UNCHANGED req
      /\ UNCHANGED wire
  BY <1>2 DEF Drain, Put, channel
<1>5. ASSUME NEW n \in Notice \ {m} PROVE SameCopies(n)
  <2>1. <<n, 0>> # <<m, ori>>
    OBVIOUS
  <2>2. SameTimes(queue, queue', <<n, 0>>)
    BY <1>0, <1>1, <1>2, <2>1, TakeOther
  <2>3. SameTimes(req, req', n)
    BY <1>0, <1>4, PutOther, Untouched
  <2>4. QED
    BY <1>4, <2>2, <2>3 DEF SameCopies, SameWire
<1>6. ASSUME m \in Notice PROVE Copies(m)' <= NoticeMax
  <2>1. /\ From[m] \in Side /\ From[m] # To[m]
        /\ ori = 0 /\ Put(req, req', s, m) /\ Head(queue[s]) = <<m, 0>>
    BY <1>2, <1>3, <1>4, <1>6, NoticeIs
  <2>2. s = To[m]
    BY <1>1, <1>6, <2>1 DEF NInv, NoticeWay, NoticePlaces, Queued
  <2>3. Times(queue[s], <<m, 0>>) = Times(queue'[s], <<m, 0>>) + 1
    <3>1. Times(queue[s], Head(queue[s])) = Times(queue'[s], Head(queue[s])) + 1
      BY <1>0, <1>1, TakeTimes
    <3>2. QED
      BY <2>1, <3>1
  <2>4. /\ Times(req'[s], m) = Times(req[s], m) + 1
        /\ \A y \in Side \ {s} : Times(req'[y], m) = Times(req[y], m)
    BY <1>0, <2>1, PutTimes
  <2>5. OnWire(m)' = OnWire(m)
    BY <1>4 DEF OnWire, Wired
  <2>6. /\ Times(req'[From[m]], m) = Times(req[From[m]], m)
        /\ Times(req'[To[m]], m) = Times(req[To[m]], m) + 1
        /\ Times(queue[To[m]], <<m, 0>>) = Times(queue'[To[m]], <<m, 0>>) + 1
    BY <2>1, <2>2, <2>3, <2>4
  <2>7. Copies(m) = Copies(m)'
    <3>1. Copies(m) = Times(req[From[m]], m) + Times(req[To[m]], m)
                      + Times(queue[To[m]], <<m, 0>>) + OnWire(m)
      BY <1>0, <1>6, CopiesSum
    <3>2. Copies(m)' = Times(req'[From[m]], m) + Times(req'[To[m]], m)
                       + Times(queue'[To[m]], <<m, 0>>) + OnWire(m)'
      BY <1>0, <1>6, CopiesSum
    <3>3. /\ Times(req[From[m]], m) \in Nat /\ Times(req'[From[m]], m) \in Nat
          /\ Times(req[To[m]], m) \in Nat /\ Times(req'[To[m]], m) \in Nat
          /\ Times(queue[To[m]], <<m, 0>>) \in Nat
          /\ Times(queue'[To[m]], <<m, 0>>) \in Nat
          /\ OnWire(m) \in {0, 1} /\ OnWire(m)' \in {0, 1}
      BY <1>0, <1>6, CopiesSum
    <3>4. QED
      BY <2>5, <2>6, <3>1, <3>2, <3>3
  <2>8. QED
    BY <1>6, <2>7 DEF CopiesInv
<1>7. QED
  BY <1>5, <1>6, OneCopied

LEMMA ReceiveCopies ==
  ASSUME IInv, TypeOK', NInv, CopiesInv, NEW l \in Link, Receive(l) PROVE CopiesInv'
<1>0. queue \in [Side -> Seq(Msg \X {0, 1})] /\ TypeOK
  BY DEF IInv, TypeOK
<1>1. PICK x \in Side, y \in Side : l = <<x, y>>
  BY DEF Link, Side
<1>2. PICK m \in Msg :
         /\ <<x, y, m>> \in wire /\ wire' = wire \ {<<x, y, m>>}
         /\ UNCHANGED queue \/ Put(queue, queue', y, <<m, 0>>)
  BY <1>1 DEF Receive, ToQueue, Put
<1>3. UNCHANGED req /\ <<m, 0>> \in Msg \X {0, 1}
  BY DEF Receive
<1>4. ASSUME NEW n \in Notice \ {m} PROVE SameCopies(n)
  <2>1. <<n, 0>> # <<m, 0>>
    OBVIOUS
  <2>2. SameTimes(queue, queue', <<n, 0>>)
    BY <1>0, <1>2, <1>3, <2>1, PutOther, Untouched
  <2>3. SameWire(n)
    BY <1>2 DEF SameWire
  <2>4. QED
    BY <1>3, <2>2, <2>3, Untouched DEF SameCopies
<1>5. ASSUME m \in Notice PROVE Copies(m)' <= NoticeMax
  <2>1. x = From[m] /\ y = To[m]
    BY <1>2, <1>5 DEF NInv, NoticeWay, NoticePlaces, Wired
  <2>2. OnWire(m) = 1 /\ OnWire(m)' = 0
    BY <1>2, <2>1 DEF OnWire, Wired
  <2>3. \/ Times(queue'[To[m]], <<m, 0>>) = Times(queue[To[m]], <<m, 0>>)
        \/ Times(queue'[To[m]], <<m, 0>>) = Times(queue[To[m]], <<m, 0>>) + 1
    <3>1. CASE UNCHANGED queue
      BY <3>1
    <3>2. CASE Put(queue, queue', y, <<m, 0>>)
      <4> DEFINE e == <<m, 0>>
                 Entry == Msg \X {0, 1}
      <4>1. e \in Entry /\ queue \in [Side -> Seq(Entry)] /\ Put(queue, queue', y, e)
        BY <1>0, <1>3, <3>2
      <4> HIDE DEF e, Entry
      <4>2. Times(queue'[y], e) = Times(queue[y], e) + 1
        BY <4>1, PutTimes
      <4>3. Times(queue'[y], <<m, 0>>) = Times(queue[y], <<m, 0>>) + 1
        BY <4>2 DEF e
      <4>4. QED
        BY <2>1, <4>3
    <3>3. QED
      BY <1>2, <3>1, <3>2
  <2>4. /\ Times(req'[From[m]], m) = Times(req[From[m]], m)
        /\ Times(req'[To[m]], m) = Times(req[To[m]], m)
    BY <1>3
  <2>5. Copies(m)' <= Copies(m) /\ Copies(m)' \in Nat /\ Copies(m) \in Nat
    <3>1. Copies(m) = Times(req[From[m]], m) + Times(req[To[m]], m)
                      + Times(queue[To[m]], <<m, 0>>) + OnWire(m)
      BY <1>0, <1>5, CopiesSum
    <3>2. Copies(m)' = Times(req'[From[m]], m) + Times(req'[To[m]], m)
                       + Times(queue'[To[m]], <<m, 0>>) + OnWire(m)'
      BY <1>0, <1>5, CopiesSum
    <3>3. /\ Times(req[From[m]], m) \in Nat /\ Times(req'[From[m]], m) \in Nat
          /\ Times(req[To[m]], m) \in Nat /\ Times(req'[To[m]], m) \in Nat
          /\ Times(queue[To[m]], <<m, 0>>) \in Nat
          /\ Times(queue'[To[m]], <<m, 0>>) \in Nat
          /\ OnWire(m) \in {0, 1} /\ OnWire(m)' \in {0, 1}
      BY <1>0, <1>5, CopiesSum
    <3>4. QED
      BY <2>2, <2>3, <2>4, <3>1, <3>2, <3>3
  <2>6. Copies(m) <= NoticeMax /\ NoticeMax \in Nat
    BY <1>5, MailboxAssumption DEF CopiesInv
  <2>7. QED
    BY <2>5, <2>6
<1>6. QED
  BY <1>4, <1>5, OneCopied

LEMMA ChannelCopies ==
  ASSUME NoticeLinksKept, NInv, CopiesInv, NEW l \in Link, Fault(l) \/ Complete(l)
  PROVE  CopiesInv'
<1>1. UNCHANGED <<req, queue>>
  BY DEF Fault, Complete, lists
<1>2. ASSUME NEW n \in Notice PROVE SameWire(n)
  BY LostNoNotice
<1>3. ASSUME NEW n \in Notice PROVE SameCopies(n)
  BY <1>1, <1>2, Untouched DEF SameCopies
<1>4. QED
  BY <1>3, NoneCopied

LEMMA CopiesNext ==
  ASSUME NoticeLinksKept, IInv, TypeOK', NInv, CopiesInv, [Next]_vars PROVE CopiesInv'
<1>1. CASE Next
  BY <1>1, CallerCopies, NotifyCopies, GiveUpCopies, HandleCopies, SendCopies,
     SentCopies, IdleCopies, DrainCopies, ReceiveCopies, ChannelCopies
     DEF Next, Thread
<1>2. CASE UNCHANGED vars
  <2>1. UNCHANGED <<req, queue, wire>>
    BY <1>2 DEF vars, lists, channel
  <2>2. ASSUME NEW n \in Notice PROVE SameCopies(n)
    BY <2>1, Untouched DEF SameCopies, SameWire
  <2>3. QED
    BY <2>2, NoneCopied
<1>3. QED
  BY <1>1, <1>2

-----------------------------------------------------------------------------
(* The room in the queues: each entry has a slot of Entries to itself.      *)
LEMMA TimesOnce ==
  ASSUME NEW S, NEW q \in Seq(S), NEW e, Once(q, e) PROVE Times(q, e) \in {0, 1}
<1> DEFINE at == {i \in DOMAIN q : q[i] = e}
<1>1. CASE at = {}
  BY <1>1, FS_EmptySet DEF Times
<1>2. CASE at # {}
  <2>1. PICK i \in DOMAIN q : q[i] = e
    BY <1>2
  <2>2. at = {i}
    BY <2>1 DEF Once
  <2>3. QED
    BY <2>2, FS_Singleton DEF Times
<1>3. QED
  BY <1>1, <1>2

LEMMA Counted ==
  ASSUME NEW S, NEW q \in Seq(S), NEW T, IsFiniteSet(T), NEW free \in T,
         \A i \in DOMAIN q : \A k \in 1..Times(q, q[i]) :
           <<q[i], k>> \in T /\ <<q[i], k>> # free
  PROVE  Len(q) < Cardinality(T)
<1> DEFINE at(i) == {j \in 1..i : q[j] = q[i]}
           rank(i) == Cardinality(at(i))
           f == [i \in DOMAIN q |-> <<q[i], rank(i)>>]
<1>1. DOMAIN q = 1..Len(q) /\ Len(q) \in Nat
  OBVIOUS
<1>2. ASSUME NEW i \in DOMAIN q PROVE IsFiniteSet(at(i)) /\ rank(i) \in Nat
  <2>1. IsFiniteSet(1..i) /\ at(i) \in SUBSET (1..i)
    BY <1>1, FS_Interval
  <2>2. QED
    BY <2>1, FS_Subset, FS_CardinalityType
<1>3. ASSUME NEW i \in DOMAIN q PROVE rank(i) \in 1..Times(q, q[i])
  <2> DEFINE all == {j \in DOMAIN q : q[j] = q[i]}
  <2>1. IsFiniteSet(1..Len(q)) /\ all \in SUBSET (1..Len(q)) /\ at(i) \in SUBSET all
    <3>1. IsFiniteSet(1..Len(q)) /\ all \in SUBSET (1..Len(q))
      BY <1>1, FS_Interval
    <3>2. \A j \in 1..i : j \in DOMAIN q
      BY <1>1
    <3>3. at(i) \in SUBSET all
      BY <3>2
    <3>4. QED
      BY <3>1, <3>3
  <2>2. IsFiniteSet(all)
    BY <2>1, FS_Subset
  <2>3. Cardinality(at(i)) <= Cardinality(all) /\ Cardinality(all) \in Nat
    <3> HIDE DEF all, at
    <3>1. QED
      BY <2>1, <2>2, FS_Subset, FS_CardinalityType
  <2>4. i \in at(i)
    BY <1>1
  <2>5. rank(i) # 0
    BY <1>2, <2>4, FS_EmptySet
  <2>6. Times(q, q[i]) = Cardinality(all)
    BY DEF Times
  <2> HIDE DEF all, rank
  <2>7. rank(i) \in Nat /\ rank(i) <= Cardinality(all)
    BY <1>2, <2>3 DEF rank
  <2>8. QED
    BY <2>3, <2>5, <2>6, <2>7
<1>4. f \in [DOMAIN q -> T \ {free}]
  <2> HIDE DEF rank
  <2>1. QED
    BY <1>3
<1>5. ASSUME NEW i \in DOMAIN q, NEW j \in DOMAIN q, i < j, f[i] = f[j] PROVE FALSE
  <2>1. q[i] = q[j] /\ rank(i) = rank(j)
    <3> HIDE DEF rank
    <3>1. f[i] = <<q[i], rank(i)>> /\ f[j] = <<q[j], rank(j)>>
      OBVIOUS
    <3>2. <<q[i], rank(i)>> = <<q[j], rank(j)>>
      <4> HIDE DEF f
      <4>1. QED
        BY <1>5, <3>1
    <3>3. QED
      BY <3>2
  <2>2. at(i) \in SUBSET at(j) /\ j \in at(j) /\ j \notin at(i)
    BY <1>1, <1>5, <2>1
  <2>3. IsFiniteSet(at(j)) /\ Cardinality(at(i)) = Cardinality(at(j))
    BY <1>2, <2>1
  <2> HIDE DEF at
  <2>4. at(i) = at(j)
    BY <2>2, <2>3, FS_Subset
  <2>5. QED
    BY <2>2, <2>4
<1>6. \A i, j \in DOMAIN q : f[i] = f[j] => i = j
  <2> HIDE DEF f
  <2>1. \A i, j \in DOMAIN q : i # j => i < j \/ j < i
    BY <1>1
  <2>2. QED
    BY <1>5, <2>1
<1>7. f \in Injection(DOMAIN q, T \ {free})
  <2> HIDE DEF f
  <2>1. QED
    BY <1>4, <1>6 DEF Injection, IsInjective
<1>8. /\ IsFiniteSet(T \ {free}) /\ Cardinality(T \ {free}) = Cardinality(T) - 1
      /\ Cardinality(T) \in Nat
  BY FS_RemoveElement, FS_CardinalityType
<1>9. Cardinality(DOMAIN q) <= Cardinality(T \ {free})
  <2> HIDE DEF f
  <2>1. QED
    BY <1>7, <1>8, FS_Injection
<1>10. Cardinality(DOMAIN q) = Len(q)
  BY <1>1, FS_Interval
<1>11. QED
  BY <1>1, <1>8, <1>9, <1>10

LEMMA CopiesAtMost ==
  ASSUME TypeOK, CopiesInv, NEW m \in Notice
  PROVE  /\ Times(queue[To[m]], <<m, 0>>) <= NoticeMax
         /\ Wired(From[m], To[m], m) => Times(queue[To[m]], <<m, 0>>) < NoticeMax
<1>1. /\ Times(req[From[m]], m) \in Nat /\ Times(req[To[m]], m) \in Nat
      /\ Times(queue[To[m]], <<m, 0>>) \in Nat
  BY CopiesFacts DEF TypeOK
<1>2. Times(req[From[m]], m) + Times(req[To[m]], m)
        + Times(queue[To[m]], <<m, 0>>) + OnWire(m) <= NoticeMax
  BY DEF CopiesInv, Copies, OnWire, Wired
<1>3. NoticeMax \in Nat /\ OnWire(m) \in {0, 1}
  BY MailboxAssumption DEF OnWire
<1>4. Wired(From[m], To[m], m) => OnWire(m) = 1
  BY DEF OnWire
<1>5. QED
  BY <1>1, <1>2, <1>3, <1>4

LEMMA SlotsIn ==
  ASSUME IInv, NInv, CopiesInv, NEW s \in Side, NEW i \in DOMAIN queue[s],
         NEW k \in 1..Times(queue[s], queue[s][i])
  PROVE  <<queue[s][i], k>> \in Entries(s)
<1> USE DEF Queued
<1>1. queue[s] \in Seq(Msg \X {0, 1}) /\ TypeOK
  BY DEF IInv, TypeOK
<1>2. queue[s][i] \in Msg \X {0, 1} /\ queue[s][i] \in ToSet(queue[s])
  BY <1>1 DEF ToSet
<1>3. PICK m \in Msg, ori \in {0, 1} : queue[s][i] = <<m, ori>>
  BY <1>2
<1>4. <<m, ori>> \in ToSet(queue[s]) /\ k \in 1..Times(queue[s], <<m, ori>>)
  BY <1>2, <1>3
<1>5. CASE m \in Request
  <2>1. Bounded(m)
    BY <1>5 DEF IInv, RequestInv
  <2>2. /\ ori = 0 => s \in {From[m], To[m]}
        /\ ori = 1 => s = From[m]
        /\ Once(queue[s], <<m, ori>>)
    BY <1>4, <2>1 DEF Bounded
  <2>3. Times(queue[s], <<m, ori>>) \in {0, 1}
    BY <1>1, <2>2, TimesOnce
  <2>4. k = 1
    BY <1>4, <2>3
  <2>5. QED
    BY <1>3, <1>5, <2>2, <2>4 DEF Entries
<1>6. CASE m \in Notice
  <2>1. ori = 0
    <3>1. <<m, ori>>[1] = m /\ <<m, ori>>[2] = ori
      OBVIOUS
    <3>2. ori = 1 => m \in Request
      BY <1>4, <3>1 DEF IInv, ThreadInv
    <3>3. QED
      BY <1>6, <3>2, NoticeIs
  <2>2. s = To[m]
    BY <1>4, <1>6, <2>1 DEF NInv, NoticeWay, NoticePlaces
  <2>3. Times(queue[s], <<m, 0>>) <= NoticeMax
    BY <1>1, <1>6, <2>2, CopiesAtMost
  <2>4. k \in 1..NoticeMax
    <3>1. Times(queue[s], <<m, 0>>) \in Nat /\ NoticeMax \in Nat
      BY <1>1, TimesFacts, MailboxAssumption
    <3>2. QED
      BY <1>4, <2>1, <2>3, <3>1
  <2>5. QED
    BY <1>3, <1>6, <2>1, <2>2, <2>4 DEF Entries
<1>7. QED
  BY <1>5, <1>6 DEF Msg

LEMMA FreeSlot ==
  ASSUME IInv, NInv, CopiesInv, NEW s \in Side,
         pc[s] = "acked" \/ \E w \in wire : w[2] = s
  PROVE  \E free \in Entries(s) :
           \A i \in DOMAIN queue[s] : \A k \in 1..Times(queue[s], queue[s][i]) :
             <<queue[s][i], k>> # free
<1> USE DEF Queued, Wired
<1>0. /\ queue[s] \in Seq(Msg \X {0, 1}) /\ TypeOK /\ RequestInv
      /\ \A i \in DOMAIN queue[s] : queue[s][i] \in ToSet(queue[s])
      /\ NoticeMax \in 1..NoticeMax
  <2>1. queue[s] \in Seq(Msg \X {0, 1}) /\ TypeOK /\ RequestInv
    BY DEF IInv, TypeOK
  <2>2. \A i \in DOMAIN queue[s] : queue[s][i] \in ToSet(queue[s])
    BY DEF ToSet
  <2>3. NoticeMax \in 1..NoticeMax
    BY MailboxAssumption
  <2>4. QED
    BY <2>1, <2>2, <2>3
<1>1. ASSUME NEW m \in Request, NEW ori \in {0, 1}, ~Queued(s, m, ori),
             \/ ori = 0 /\ s \in {From[m], To[m]}
             \/ ori = 1 /\ s = From[m]
      PROVE  \E free \in Entries(s) :
               \A i \in DOMAIN queue[s] : \A k \in 1..Times(queue[s], queue[s][i]) :
                 <<queue[s][i], k>> # free
  <2>1. <<<<m, ori>>, 1>> \in Entries(s)
    BY <1>1 DEF Entries
  <2>2. \A i \in DOMAIN queue[s] : queue[s][i] # <<m, ori>>
    BY <1>0, <1>1
  <2>3. \A e, k : e # <<m, ori>> => <<e, k>> # <<<<m, ori>>, 1>>
    OBVIOUS
  <2>4. QED
    BY <2>1, <2>2, <2>3
<1>2. CASE pc[s] = "acked"
  <2>1. PICK m \in Request : cur[s] = m /\ send_ack_flag[s]
    BY <1>2 DEF IInv, ThreadInv
  <2>2. PICK z \in Stages : Stage(m, z)
    BY <1>0, <2>1 DEF RequestInv
  <2>3. s \in {From[m], To[m]}
    BY <1>0, <2>1 DEF RequestInv, Bounded
  <2>4. s = From[m] /\ ~Queued(s, m, 1)
    BY <2>1, <2>2, <2>3 DEF Stage, Noted
  <2>5. QED
    BY <1>1, <2>4
<1>3. CASE \E w \in wire : w[2] = s
  <2>1. PICK x \in Side, m \in Msg : <<x, s, m>> \in wire
    <3>1. PICK w \in wire : w[2] = s
      BY <1>3
    <3>2. PICK x \in Side, y \in Side, m \in Msg : w = <<x, y, m>>
      BY <1>0 DEF TypeOK
    <3>3. QED
      BY <3>1, <3>2
  <2>2. CASE m \in Request
    <3>1. PICK z \in {"sent", "returned"} :
            /\ Stage(m, z) /\ Bounded(m)
            /\ \/ z = "sent" /\ x = From[m] /\ s = To[m]
               \/ z = "returned" /\ x = To[m] /\ s = From[m]
      BY <1>0, <2>1, <2>2, WiredStage
    <3>2. s \in {From[m], To[m]} /\ ~Queued(s, m, 0)
      BY <3>1 DEF Stage, Place
    <3>3. QED
      BY <1>1, <2>2, <3>2
  <2>3. CASE m \in Notice
    <3>1. x = From[m] /\ s = To[m]
      BY <2>1, <2>3 DEF NInv, NoticeWay, NoticePlaces
    <3>2. Times(queue[s], <<m, 0>>) < NoticeMax
      BY <1>0, <2>1, <2>3, <3>1, CopiesAtMost
    <3>3. <<<<m, 0>>, NoticeMax>> \in Entries(s)
      BY <1>0, <2>3, <3>1 DEF Entries
    <3>4. ASSUME NEW i \in DOMAIN queue[s], NEW k \in 1..Times(queue[s], queue[s][i]),
                 <<queue[s][i], k>> = <<<<m, 0>>, NoticeMax>>
          PROVE  FALSE
      <4>1. queue[s][i] = <<m, 0>> /\ k = NoticeMax
        BY <3>4
      <4>2. Times(queue[s], <<m, 0>>) \in Nat
        BY <1>0, TimesFacts
      <4>3. k \in 1..Times(queue[s], <<m, 0>>)
        BY <4>1
      <4>4. QED
        BY <3>2, <4>1, <4>2, <4>3
    <3>5. QED
      BY <3>3, <3>4
  <2>4. QED
    BY <2>2, <2>3 DEF Msg
<1>4. QED
  BY <1>2, <1>3

LEMMA Roomy == ASSUME QueueSized, IInv, NInv, CopiesInv PROVE QueueRoom /\ NoticeRoom
<1>1. ASSUME NEW s \in Side, pc[s] = "acked" \/ \E w \in wire : w[2] = s
      PROVE  Len(queue[s]) < QueueLen
  <2>1. /\ IsFiniteSet(Entries(s)) /\ Cardinality(Entries(s)) <= QueueLen
        /\ queue[s] \in Seq(Msg \X {0, 1}) /\ QueueLen \in Nat
    BY MailboxAssumption DEF QueueSized, IInv, TypeOK
  <2>2. PICK free \in Entries(s) :
          \A i \in DOMAIN queue[s] : \A k \in 1..Times(queue[s], queue[s][i]) :
            <<queue[s][i], k>> # free
    BY <1>1, FreeSlot
  <2>3. \A i \in DOMAIN queue[s] : \A k \in 1..Times(queue[s], queue[s][i]) :
          <<queue[s][i], k>> \in Entries(s)
    BY SlotsIn
  <2>4. Len(queue[s]) < Cardinality(Entries(s))
    BY <2>1, <2>2, <2>3, Counted
  <2>5. Len(queue[s]) \in Nat /\ Cardinality(Entries(s)) \in Nat
    BY <2>1, FS_CardinalityType
  <2>6. QED
    BY <2>1, <2>4, <2>5
<1>2. QueueRoom
  BY <1>1 DEF QueueRoom
<1>3. NoticeRoom
  <2> SUFFICES ASSUME NEW m \in Notice, Wired(From[m], To[m], m)
               PROVE  Len(queue[To[m]]) < QueueLen
    BY DEF NoticeRoom
  <2>1. To[m] \in Side /\ <<From[m], To[m], m>>[2] = To[m]
    BY NoticeIs
  <2>2. QED
    BY <1>1, <2>1 DEF Wired
<1>4. QED
  BY <1>2, <1>3

LEMMA CopiesInit == Init => CopiesInv
<1> SUFFICES ASSUME Init, NEW m \in Notice PROVE Copies(m) <= NoticeMax
  BY DEF CopiesInv
<1>1. \A e : Times(<<>>, e) = 0
  <2>1. \A e : {i \in DOMAIN <<>> : <<>>[i] = e} = {}
    OBVIOUS
  <2>2. QED
    BY <2>1, FS_EmptySet DEF Times
<1>2. /\ req[From[m]] = <<>> /\ req[To[m]] = <<>> /\ queue[To[m]] = <<>>
      /\ <<From[m], To[m], m>> \notin wire
  BY NoticeIs DEF Init
<1>3. Copies(m) = 0
  BY <1>1, <1>2 DEF Copies
<1>4. QED
  BY <1>3, MailboxAssumption

(* Queues with an entry for each request that the side sends or answers, a  *)
(* second one for those it sends and one for each copy of a notice drop     *)
(* nothing: what rx_isr has acknowledged, and what the thread notes for the *)
(* answer, always finds its place.                                         *)
THEOREM QueuesFit ==
  ASSUME Punctual, NoticeLinksKept, QueueSized PROVE Spec => []QueueRoom
<1>1. IInv /\ NInv /\ CopiesInv => QueueRoom /\ NoticeRoom
  BY Roomy
<1>2. NoticeRoom /\ IInv /\ NInv /\ [Next]_vars => NInv'
  BY NoticeNext
<1>3. IInv /\ TypeOK' /\ NInv /\ CopiesInv /\ [Next]_vars => CopiesInv'
  BY CopiesNext
<1>4. IInv => TypeOK
  BY DEF IInv
<1>5. QED
  BY <1>1, <1>2, <1>3, <1>4, NoticeInit, CopiesInit, Invariance, PTL DEF Spec

(* With such queues the last content of every notice is never lost.         *)
THEOREM SizedKeepNotices ==
  ASSUME Punctual, NoticeLinksKept, QueueSized PROVE Spec => []NoticeKept
<1>1. QueueRoom => NoticeRoom
  <2>1. ASSUME QueueRoom, NEW m \in Notice, Wired(From[m], To[m], m)
        PROVE  Len(queue[To[m]]) < QueueLen
    <3>1. To[m] \in Side /\ <<From[m], To[m], m>>[2] = To[m]
      BY NoticeIs
    <3>2. QED
      BY <2>1, <3>1 DEF QueueRoom, Wired
  <2>2. QED
    BY <2>1 DEF NoticeRoom
<1>2. QED
  BY <1>1, QueuesFit, NoticesKept, PTL
=============================================================================
