------------------------------ MODULE Mailbox ------------------------------
(***************************************************************************)
(* The media mailbox, components/multimedia/mailbox: the calls between the *)
(* three processors, APP (cpu0), MAJOR (cpu1) and MINOR (cpu2).            *)
(*                                                                         *)
(* A synchronous call builds a message in the caller's stack frame and     *)
(* sleeps on its semaphore.  Only the address travels: the mailbox threads *)
(* of both processors, their interrupt handlers and the service task that  *)
(* answers all work on the one message, which is turned from REQ into RSP  *)
(* on its way.  A notice is the same without the semaphore, in static      *)
(* memory that the caller may fill again at any time.                      *)
(*                                                                         *)
(* The channel (mb_chnl, outside the repository) holds one command per     *)
(* direction, refuses another until the peer has acknowledged it, and      *)
(* calls the sender's tx_cmpl_isr then.  What the sender's code provides   *)
(* for may happen to a command on a link of Lossy: the peer's channel      *)
(* completes it without its rx_isr (it is not open), or it is lost and     *)
(* never completes, and mb_chnl_write fails from then on.  Late says       *)
(* whether a completion may also come after the 2000 ms the sender waits   *)
(* for it.                                                                 *)
(***************************************************************************)
EXTENDS Naturals, Sequences, FiniteSets, SequencesExt

CONSTANTS
  Request, Notice,   \* the messages: sync calls and notifications
  From, To,          \* who sends a message and who answers it
  NoMsg,
  QueueLen,          \* entries of media_*_mailbox_msg_queue: 20, MINOR 15
  NoticeMax,         \* bound: copies of one notice under way
  Lossy,             \* the links whose commands may be refused or lost
  FaultMax,          \* bound: commands refused or lost
  Late               \* may a completion miss the sender's timeout?

Side == {"APP", "MAJOR", "MINOR"}
Msg  == Request \cup Notice
Link == {<<"APP", "MAJOR">>, <<"MAJOR", "APP">>,
         <<"MAJOR", "MINOR">>, <<"MINOR", "MAJOR">>}

\* The repository's calls: APP and MAJOR ask each other, MAJOR asks MINOR;
\* MAJOR and MINOR notify.
ASSUME MailboxAssumption ==
  /\ Request \cap Notice = {} /\ NoMsg \notin Msg
  /\ From \in [Msg -> Side] /\ To \in [Msg -> Side]
  /\ \A m \in Msg : <<From[m], To[m]>> \in Link
  /\ \A m \in Request : From[m] # "MINOR"
  /\ \A m \in Notice : From[m] # "APP"
  /\ QueueLen \in Nat \ {0} /\ NoticeMax \in Nat \ {0}
  /\ Lossy \subseteq Link /\ FaultMax \in Nat /\ Late \in BOOLEAN

VARIABLES
  type, dest, count, ack_flag, result, sem,   \* the fields of a message
  waiting,     \* requests whose caller sleeps in msg_send_req_..._sync
  fresh,       \* notices whose present content the peer has not handled
  req, rsp,    \* media_*_mailbox_msg_queue_req and _rsp
  queue,       \* media_*_mailbox_msg_queue: <<message, ori>>
  mailbox_sem, rsp_sem,
  pc, cur,     \* the mailbox thread: where it is, and with which message
  send_ack_flag,   \* its local: the message needs an acknowledgement
  wire,        \* commands on their way: <<from, to, message>>
  cmpl,        \* links whose command was taken, tx_cmpl_isr to come
  stuck,       \* links that lost their command
  faults,      \* commands refused or lost so far
  serving      \* how often a request is with the services of To[m]

message == <<type, dest, count, ack_flag, result, sem>>
callers == <<waiting, fresh>>
lists   == <<req, rsp, queue, mailbox_sem>>
thread  == <<pc, cur, send_ack_flag, rsp_sem>>
channel == <<wire, cmpl, stuck, faults>>
vars    == <<message, callers, lists, thread, channel, serving>>

UnderWay(l) == l \in cmpl \/ \E m \in Msg : <<l[1], l[2], m>> \in wire
Busy(l) == l \in stuck \/ UnderWay(l)

-----------------------------------------------------------------------------
Init ==
  /\ type = [m \in Msg |-> IF m \in Request THEN "REQ" ELSE "NOTIFY"]
  /\ dest = To
  /\ count = [m \in Msg |-> 0] /\ ack_flag = [m \in Msg |-> "SEND"]
  /\ result = [m \in Msg |-> "ok"] /\ sem = [m \in Request |-> FALSE]
  /\ waiting = {} /\ fresh = {}
  /\ req = [s \in Side |-> <<>>] /\ rsp = [s \in Side |-> <<>>]
  /\ queue = [s \in Side |-> <<>>]
  /\ mailbox_sem = [s \in Side |-> FALSE] /\ rsp_sem = [s \in Side |-> FALSE]
  /\ pc = [s \in Side |-> "pop"] /\ cur = [s \in Side |-> NoMsg]
  /\ send_ack_flag = [s \in Side |-> FALSE]
  /\ wire = {} /\ cmpl = {} /\ stuck = {} /\ faults = 0
  /\ serving = [m \in Request |-> 0]

-----------------------------------------------------------------------------
(* The operations on the lists of one side.                                *)
ToListSilent(s, m) ==   \* mutant: forgets to wake the thread
  req' = [req EXCEPT ![s] = Append(@, m)] /\ UNCHANGED mailbox_sem

ToList(s, m) ==                    \* msg_send_to_media_*_mailbox_list
  /\ req' = [req EXCEPT ![s] = Append(@, m)]
  /\ mailbox_sem' = [mailbox_sem EXCEPT ![s] = TRUE]

ToQueue(s, m, ori) ==              \* media_send_msg_to_queue, BEKEN_NO_WAIT
  queue' = IF Len(queue[s]) < QueueLen
           THEN [queue EXCEPT ![s] = Append(@, <<m, ori>>)] ELSE queue

KeepNode(q, m) == q     \* mutant: the response leaves its request in rsp

DelNode(q, m) ==                   \* media_mailbox_list_del_node
  RemoveFirst(q, m)

Pop(s, m) == pc[s] = "pop" /\ req[s] # <<>> /\ m = Head(req[s])
Goto(s, l) == pc' = [pc EXCEPT ![s] = l]

-----------------------------------------------------------------------------
(* The callers.                                                            *)
Call(m) ==                         \* msg_send_req_to_media_*_mailbox_sync
  /\ m \in Request \ waiting
  /\ waiting' = waiting \cup {m}
  /\ type' = [type EXCEPT ![m] = "REQ"] /\ dest' = [dest EXCEPT ![m] = To[m]]
  /\ count' = [count EXCEPT ![m] = 0] /\ result' = [result EXCEPT ![m] = "ok"]
  /\ ack_flag' = [ack_flag EXCEPT ![m] = "SEND"]
  /\ sem' = [sem EXCEPT ![m] = FALSE]
  /\ ToList(From[m], m)
  /\ UNCHANGED <<fresh, rsp, queue, thread, channel, serving>>

Return(m) ==                       \* its semaphore came; the frame is gone
  /\ m \in waiting /\ sem[m]
  /\ waiting' = waiting \ {m} /\ sem' = [sem EXCEPT ![m] = FALSE]
  /\ UNCHANGED <<type, dest, count, ack_flag, result, fresh, lists, thread,
                 channel, serving>>

Times(q, e) == Cardinality({i \in DOMAIN q : q[i] = e})

Copies(m) ==                       \* of a notice, before its peer's thread
  Times(req[From[m]], m) + Times(req[To[m]], m) + Times(queue[To[m]], <<m, 0>>)
    + (IF <<From[m], To[m], m>> \in wire THEN 1 ELSE 0)

Notify(m) ==                       \* msg_send_notify_to_media_*_mailbox
  /\ m \in Notice /\ Copies(m) < NoticeMax
  /\ fresh' = fresh \cup {m}
  /\ type' = [type EXCEPT ![m] = "NOTIFY"] /\ dest' = [dest EXCEPT ![m] = To[m]]
  /\ count' = [count EXCEPT ![m] = 0]
  /\ ToList(From[m], m)
  /\ UNCHANGED <<ack_flag, result, sem, waiting, rsp, queue, thread, channel,
                 serving>>

Respond(m) ==                      \* msg_send_rsp_to_media_*_mailbox
  /\ m \in Request /\ serving[m] > 0
  /\ serving' = [serving EXCEPT ![m] = @ - 1]
  /\ type' = [type EXCEPT ![m] = "RSP"] /\ dest' = [dest EXCEPT ![m] = From[m]]
  /\ count' = [count EXCEPT ![m] = 0] /\ result' = [result EXCEPT ![m] = "ok"]
  /\ ToList(To[m], m)
  /\ UNCHANGED <<ack_flag, sem, callers, rsp, queue, thread, channel>>

-----------------------------------------------------------------------------
(* The mailbox thread: one message of the req list at a time, then whatever *)
(* the interrupts have queued.                                             *)
SendBackNothing(s, m) ==   \* mutant: #if 0 on every side
  UNCHANGED <<type, dest, count, result>>

SendBackNoResult(s, m) ==  \* mutant: the result is not set
  /\ type' = [type EXCEPT ![m] = "RSP"] /\ dest' = [dest EXCEPT ![m] = s]
  /\ count' = [count EXCEPT ![m] = 0] /\ UNCHANGED result

SendBack(s, m) ==                  \* msg_send_back_to_media_*_mailbox
  /\ IF s = "MAJOR" THEN UNCHANGED <<type, dest, count, result>>   \* #if 0
     ELSE /\ type' = [type EXCEPT ![m] = "RSP"]
          /\ dest' = [dest EXCEPT ![m] = s]
          /\ count' = [count EXCEPT ![m] = 0]
          /\ result' = [result EXCEPT ![m] = "fail"]

\* count > 2: a request goes back, anything else is dropped; `continue'
\* skips the queue.
GiveUp(s) == \E m \in Msg :
  /\ Pop(s, m) /\ count[m] > 2
  /\ IF type[m] = "REQ"
     THEN /\ SendBack(s, m)
          /\ req' = [req EXCEPT ![s] = Append(Tail(@), m)]
          /\ mailbox_sem' = [mailbox_sem EXCEPT ![s] = TRUE]
     ELSE /\ req' = [req EXCEPT ![s] = Tail(@)]
          /\ UNCHANGED <<mailbox_sem, type, dest, count, result>>
  /\ UNCHANGED <<ack_flag, sem, callers, rsp, queue, thread, channel, serving>>

\* dest is this side: hand a request to its service, wake the caller of a
\* response, act on a notice.
Handle(s) == \E m \in Msg :
  /\ Pop(s, m) /\ count[m] <= 2 /\ dest[m] = s
  /\ req' = [req EXCEPT ![s] = Tail(@)]
  /\ Goto(s, "drain")
  /\ \/ /\ type[m] = "REQ"
        /\ serving' = [serving EXCEPT ![m] = @ + 1]
        /\ UNCHANGED <<rsp, sem, fresh>>
     \/ /\ type[m] = "RSP"
        /\ IF s = "MINOR" THEN UNCHANGED <<rsp, sem>>   \* its handler is empty
           ELSE /\ rsp' = [rsp EXCEPT ![s] = DelNode(@, m)]
                /\ sem' = [sem EXCEPT ![m] = TRUE]
        /\ UNCHANGED <<serving, fresh>>
     \/ /\ type[m] = "NOTIFY"
        /\ fresh' = fresh \ {m}
        /\ UNCHANGED <<serving, rsp, sem>>
  /\ UNCHANGED <<type, dest, count, ack_flag, result, waiting, queue,
                 mailbox_sem, cur, send_ack_flag, rsp_sem, channel>>

\* media_*_mailbox_send_msg_to_media_*_mailbox, up to the wait.
Send(s) == \E m \in Msg :
  /\ Pop(s, m) /\ count[m] <= 2 /\ <<s, dest[m]>> \in Link
  /\ ack_flag' = [ack_flag EXCEPT ![m] = "SEND"]
  /\ \/ /\ ~Busy(<<s, dest[m]>>)
        /\ wire' = wire \cup {<<s, dest[m], m>>}
        /\ cur' = [cur EXCEPT ![s] = m] /\ Goto(s, "sent")
        /\ send_ack_flag' = [send_ack_flag EXCEPT ![s] = type[m] # "RSP"]
        /\ req' = [req EXCEPT ![s] = Tail(@)]
        /\ UNCHANGED <<type, dest, count, result, mailbox_sem>>
     \/ /\ Busy(<<s, dest[m]>>)                    \* mb_chnl_write failed
        /\ SendBack(s, m) /\ Goto(s, "drain")
        /\ req' = [req EXCEPT ![s] = Append(Tail(@), m)]
        /\ mailbox_sem' = [mailbox_sem EXCEPT ![s] = TRUE]
        /\ UNCHANGED <<wire, cur, send_ack_flag>>
  /\ UNCHANGED <<sem, callers, rsp, queue, rsp_sem, cmpl, stuck, faults,
                 serving>>

Again(s, m) ==                     \* count++ and back to the list
  /\ count' = [count EXCEPT ![m] = @ + 1]
  /\ ToList(s, m)

CompletedAnyType(s) ==     \* mutant: notices, too, wait for a response
  /\ pc[s] = "sent" /\ rsp_sem[s]
  /\ rsp_sem' = [rsp_sem EXCEPT ![s] = FALSE]
  /\ IF send_ack_flag[s] /\ ack_flag[cur[s]] = "ACK"
     THEN Goto(s, "acked") /\ UNCHANGED <<cur, req, mailbox_sem, count>>
     ELSE /\ Goto(s, "drain") /\ cur' = [cur EXCEPT ![s] = NoMsg]
          /\ IF send_ack_flag[s] THEN Again(s, cur[s])
             ELSE UNCHANGED <<req, mailbox_sem, count>>
  /\ UNCHANGED <<type, dest, ack_flag, result, sem, callers, rsp, queue,
                 send_ack_flag, channel, serving>>

\* rsp_sem came: was the message acknowledged?
Completed(s) == LET m == cur[s] IN
  /\ pc[s] = "sent" /\ rsp_sem[s]
  /\ rsp_sem' = [rsp_sem EXCEPT ![s] = FALSE]
  /\ IF send_ack_flag[s] /\ type[m] = "REQ" /\ ack_flag[m] = "ACK"
     THEN Goto(s, "acked") /\ UNCHANGED <<cur, req, mailbox_sem, count>>
     ELSE /\ Goto(s, "drain") /\ cur' = [cur EXCEPT ![s] = NoMsg]
          /\ IF send_ack_flag[s] /\ type[m] = "REQ" THEN Again(s, m)
             ELSE UNCHANGED <<req, mailbox_sem, count>>
  /\ UNCHANGED <<type, dest, ack_flag, result, sem, callers, rsp, queue,
                 send_ack_flag, channel, serving>>

\* By now the answer may be under way: the queue gets the message all the same.
Acked(s) ==
  /\ pc[s] = "acked"
  /\ ToQueue(s, cur[s], 1)
  /\ Goto(s, "drain") /\ cur' = [cur EXCEPT ![s] = NoMsg]
  /\ UNCHANGED <<message, callers, req, rsp, mailbox_sem, send_ack_flag,
                 rsp_sem, channel, serving>>

Timeout(s) == LET m == cur[s] IN   \* 2000 ms without rsp_sem
  /\ pc[s] = "sent" /\ ~rsp_sem[s]
  /\ ~Late => \A l \in Link : l[1] = s => ~UnderWay(l)
  /\ Goto(s, "drain") /\ cur' = [cur EXCEPT ![s] = NoMsg]
  /\ IF type[m] = "REQ" THEN Again(s, m)
     ELSE UNCHANGED <<req, mailbox_sem, count>>
  /\ UNCHANGED <<type, dest, ack_flag, result, sem, callers, rsp, queue,
                 send_ack_flag, rsp_sem, channel, serving>>

DrainSwapped(s) ==         \* mutant: tests ori the wrong way round
  /\ pc[s] = "drain"
  /\ \/ queue[s] = <<>> /\ Goto(s, "pop") /\ UNCHANGED <<queue, req, rsp>>
     \/ /\ queue[s] # <<>>
        /\ queue' = [queue EXCEPT ![s] = Tail(@)]
        /\ LET m == Head(queue[s])[1] IN
           IF Head(queue[s])[2] = 1
           THEN req' = [req EXCEPT ![s] = Append(@, m)] /\ UNCHANGED rsp
           ELSE rsp' = [rsp EXCEPT ![s] = Append(@, m)] /\ UNCHANGED req
        /\ UNCHANGED pc
  /\ UNCHANGED <<message, callers, mailbox_sem, cur, send_ack_flag, rsp_sem, channel,
                 serving>>

Drain(s) ==
  /\ pc[s] = "drain"
  /\ \/ /\ queue[s] = <<>> /\ Goto(s, "pop") /\ UNCHANGED <<queue, req, rsp>>
     \/ /\ queue[s] # <<>>
        /\ queue' = [queue EXCEPT ![s] = Tail(@)]
        /\ LET m == Head(queue[s])[1] IN
           IF Head(queue[s])[2] = 0
           THEN req' = [req EXCEPT ![s] = Append(@, m)] /\ UNCHANGED rsp
           ELSE rsp' = [rsp EXCEPT ![s] = Append(@, m)] /\ UNCHANGED req
        /\ UNCHANGED pc
  /\ UNCHANGED <<message, callers, mailbox_sem, cur, send_ack_flag, rsp_sem, channel,
                 serving>>

Sleep(s) ==
  /\ pc[s] = "pop" /\ req[s] = <<>>
  /\ Goto(s, "sleep")
  /\ UNCHANGED <<message, callers, lists, cur, send_ack_flag, rsp_sem, channel, serving>>

Wake(s) ==
  /\ pc[s] = "sleep" /\ mailbox_sem[s]
  /\ mailbox_sem' = [mailbox_sem EXCEPT ![s] = FALSE]
  /\ Goto(s, "drain")
  /\ UNCHANGED <<message, callers, req, rsp, queue, cur, send_ack_flag, rsp_sem,
                 channel, serving>>

-----------------------------------------------------------------------------
(* The interrupts.                                                         *)
ReceiveNoAck(l) == \E m \in Msg :  \* mutant: the sender hears of no acknowledgement
  /\ <<l[1], l[2], m>> \in wire
  /\ wire' = wire \ {<<l[1], l[2], m>>} /\ cmpl' = cmpl \cup {l}
  /\ ToQueue(l[2], m, 0)
  /\ mailbox_sem' = [mailbox_sem EXCEPT ![l[2]] = TRUE]
  /\ UNCHANGED <<message, callers, req, rsp, thread, stuck, faults, serving>>

Receive(l) == \E m \in Msg :       \* media_*_mailbox_rx_isr at l[2]
  /\ <<l[1], l[2], m>> \in wire
  /\ wire' = wire \ {<<l[1], l[2], m>>} /\ cmpl' = cmpl \cup {l}
  /\ IF ack_flag[m] = "SEND"
     THEN /\ ack_flag' = [ack_flag EXCEPT ![m] = "ACK"]
          /\ ToQueue(l[2], m, 0)
          /\ mailbox_sem' = [mailbox_sem EXCEPT ![l[2]] = TRUE]
     ELSE UNCHANGED <<ack_flag, queue, mailbox_sem>>
  /\ UNCHANGED <<type, dest, count, result, sem, callers, req, rsp, thread,
                 stuck, faults, serving>>

Fault(l) == \E m \in Msg :         \* completed without rx_isr, or lost
  /\ l \in Lossy /\ faults < FaultMax /\ faults' = faults + 1
  /\ <<l[1], l[2], m>> \in wire
  /\ wire' = wire \ {<<l[1], l[2], m>>}
  /\ \/ cmpl' = cmpl \cup {l} /\ UNCHANGED stuck
     \/ stuck' = stuck \cup {l} /\ UNCHANGED cmpl
  /\ UNCHANGED <<message, callers, lists, thread, serving>>

Complete(l) ==                     \* media_*_mailbox_tx_cmpl_isr at l[1]
  /\ l \in cmpl
  /\ cmpl' = cmpl \ {l}
  /\ rsp_sem' = [rsp_sem EXCEPT ![l[1]] = TRUE]
  /\ UNCHANGED <<message, callers, lists, pc, cur, send_ack_flag, wire,
                 stuck, faults, serving>>

-----------------------------------------------------------------------------
Thread(s) == \/ GiveUp(s) \/ Handle(s) \/ Send(s) \/ Completed(s) \/ Acked(s)
             \/ Drain(s) \/ Sleep(s) \/ Wake(s)
Next ==
  \/ \E m \in Msg : Call(m) \/ Return(m) \/ Notify(m) \/ Respond(m)
  \/ \E s \in Side : Thread(s) \/ Timeout(s)
  \/ \E l \in Link : Receive(l) \/ Complete(l) \/ Fault(l)

Spec == Init /\ [][Next]_vars

(* Every task that is ready runs, every interrupt comes.  Nothing makes a   *)
(* caller call.                                                            *)
FairSpec ==
  /\ Spec
  /\ \A s \in Side : WF_vars(Thread(s) \/ Timeout(s))
  /\ \A l \in Link : WF_vars(Receive(l) \/ Complete(l))
  /\ \A m \in Request : WF_vars(Return(m)) /\ WF_vars(Respond(m))

-----------------------------------------------------------------------------
\* Every variable has its type.
TypeOK ==
  /\ type \in [Msg -> {"REQ", "RSP", "NOTIFY"}] /\ dest \in [Msg -> Side]
  /\ count \in [Msg -> 0..3] /\ ack_flag \in [Msg -> {"SEND", "ACK"}]
  /\ result \in [Msg -> {"ok", "fail"}] /\ sem \in [Request -> BOOLEAN]
  /\ waiting \subseteq Request /\ fresh \subseteq Notice
  /\ req \in [Side -> Seq(Msg)] /\ rsp \in [Side -> Seq(Request)]
  /\ queue \in [Side -> Seq(Msg \X {0, 1})]
  /\ mailbox_sem \in [Side -> BOOLEAN] /\ rsp_sem \in [Side -> BOOLEAN]
  /\ pc \in [Side -> {"pop", "sent", "acked", "drain", "sleep"}]
  /\ cur \in [Side -> Msg \cup {NoMsg}] /\ send_ack_flag \in [Side -> BOOLEAN]
  /\ wire \subseteq Side \X Side \X Msg /\ cmpl \subseteq Link
  /\ stuck \subseteq Lossy
  /\ faults \in 0..FaultMax
  /\ serving \in [Request -> Nat]

\* The messages somebody holds the address of.
Addressed(m) ==
  \/ \E s \in Side : \/ m \in ToSet(req[s]) \cup ToSet(rsp[s])
                     \/ \E e \in ToSet(queue[s]) : e[1] = m
                     \/ cur[s] = m /\ send_ack_flag[s]
  \/ \E w \in wire : w[3] = m
  \/ serving[m] > 0

\* A message lives in its caller's stack frame: once the call has returned
\* nobody, on any processor, still has its address.
NoDanglingMessage == \A m \in Request \ waiting : ~Addressed(m)

\* What a notice says last reaches the peer, however often it is overwritten
\* on its way.
NoticeKept == \A m \in fresh : Copies(m) > 0

\* The entries media_*_mailbox_msg_queue of side s may ever hold at a time: a
\* request once from each of its two writers, a notice once for each copy.
Entries(s) ==
  ({m \in Request : s \in {From[m], To[m]}} \X {0}) \X {1}
    \cup ({m \in Request : s = From[m]} \X {1}) \X {1}
    \cup ({m \in Notice : s = To[m]} \X {0}) \X (1..NoticeMax)
QueueSized == \A s \in Side :
  IsFiniteSet(Entries(s)) /\ Cardinality(Entries(s)) <= QueueLen

\* A queue that is as long as that drops nothing: neither a message that
\* rx_isr acknowledges nor a request that the thread notes.
QueueRoom == \A s \in Side :
  (pc[s] = "acked" \/ \E w \in wire : w[2] = s) => Len(queue[s]) < QueueLen

\* The calls behave as remote procedure calls: see MailboxCall.
Phase(m) == IF m \notin waiting THEN "idle"
            ELSE IF serving[m] > 0 THEN "serving"
            ELSE IF type[m] = "REQ" THEN "called"
            ELSE IF result[m] = "fail" THEN "failed" ELSE "answered"
Calls == INSTANCE MailboxCall WITH
           phase <- [m \in Request |-> Phase(m)]
CallSpec == Calls!CSpec

\* Every call returns.
CallsReturn == \A m \in Request : (m \in waiting) ~> (m \notin waiting)
\* Calls that cross, APP waiting for MAJOR and MAJOR for APP, return while no
\* command is lost.
CrossedCallsReturn ==
  \A m \in Request : (m \in waiting) ~> (m \notin waiting \/ faults > 0)
\* Every notice is handled.
NoticesSeen == \A m \in Notice : (m \in fresh) ~> (m \notin fresh)

\* msg_send_back_to_media_major_mailbox says of a request that was sent three
\* times in vain "maybe need send again": it is, or its caller returns.
GivenUpReturns ==
  \A m \in Request : (m \in waiting /\ count[m] > 2)
                       ~> (m \notin waiting \/ count[m] <= 2)
=============================================================================
