--------------------------- MODULE AudioPipeline ---------------------------
(***************************************************************************)
(* audio_pipeline.c and the calls of audio_element.h it makes: one thread   *)
(* of the application, which calls one function of the pipeline after the   *)
(* other.  A function of the pipeline makes the same call for each linked   *)
(* element in turn: call says which function, cur which element, apc where  *)
(* in that call.  A switch to the task of an element can happen wherever    *)
(* apc changes.                                                             *)
(*                                                                          *)
(* A wait of 2000 ms ends in a time-out only if the element's task is       *)
(* blocked in a ring buffer: a task that can run gets to the command first. *)
(* The application stops a pipeline before it terminates it, and waits      *)
(* after each stop; it restarts a stopped one with run, which resumes the   *)
(* elements whose tasks are there.                                          *)
(***************************************************************************)
EXTENDS AudioElement

CONSTANTS
    Patient,        \* stop is not called before every element has opened
    Calls           \* the functions of the pipeline that are called

ASSUME PipelineAssumption ==
    /\ Patient \in BOOLEAN
    /\ Calls \subseteq {"run", "resume", "pause", "stop", "terminate", "deinit",
                       "reset"}

VARIABLES
    call,       \* the function of the pipeline being called, or called last
    apc, cur,
    ok,         \* no audio_element_resume has failed in this call
    pstate,     \* pipeline->state
    linked,     \* the ring buffers exist
    freed,      \* the elements that are freed
    gave_up     \* the elements whose last audio_element_terminate returned
                \* BK_FAIL, which no function of the pipeline looks at
appvars == <<call, apc, cur, ok, pstate, linked, freed, gave_up>>
vars == <<elvars, appvars>>

\* The functions, and the call each makes for an element.  run calls
\* audio_pipeline_resume ("start") and, if that fails, terminate ("undo");
\* deinit calls terminate, unlink and audio_element_deinit ("destroy").
First == [run |-> "create", start |-> "resume", undo |-> "term",
          resume |-> "resume", pause |-> "pause", stop |-> "stop",
          wait |-> "wait", terminate |-> "term", deinit |-> "term",
          destroy |-> "stop", none |-> "idle"]

Init ==
    /\ ElInit
    /\ call = "none" /\ apc = "idle" /\ cur = 1 /\ ok = TRUE
    /\ pstate = "INIT" /\ linked = TRUE /\ freed = {}
    /\ gave_up = {}

Enter(c) == call' = c /\ apc' = First[c] /\ cur' = 1

\* The call for the last element has returned.
Finish(c, good) ==
    \/ c = "run" /\ Enter("start") /\ UNCHANGED <<pstate, linked>>
    \/ c = "stop" /\ Enter("wait") /\ UNCHANGED <<pstate, linked>>
    \/ c = "start" /\ ~good /\ Enter("undo") /\ pstate' = "ERROR" /\ UNCHANGED linked
    \/ c = "deinit" /\ Enter("destroy") /\ linked' = FALSE /\ UNCHANGED pstate
    \/ /\ c \in {"start", "resume", "pause", "wait", "terminate", "undo"}
       /\ c = "start" => good
       /\ apc' = "idle"
       /\ pstate' = IF c = "wait" THEN "INIT"
                    ELSE IF c \in {"start", "resume"} THEN "RUNNING" ELSE pstate
       /\ UNCHANGED <<call, cur, linked>>

\* The call for this element has returned: on to the next one.
Return(good) ==
    /\ ok' = (ok /\ good)
    /\ IF cur < N THEN /\ cur' = cur + 1 /\ apc' = First[call]
                       /\ UNCHANGED <<call, pstate, linked>>
                  ELSE Finish(call, ok /\ good)
    /\ UNCHANGED freed

To(pc) == apc' = pc /\ UNCHANGED <<call, cur, ok, pstate, linked, freed>>

Upd(x) == el' = [el EXCEPT ![cur] = x] /\ UNCHANGED <<tpc, rb>>

\* audio_element_cmd_send: xQueueSend without waiting.
Full == Len(cmds[cur]) = CmdMax
Send(c) == ~Full /\ cmds' = [cmds EXCEPT ![cur] = Append(@, c)]

Set(bit) == bit \in el[cur].bits
TimedOut == Blocked(cur)

\* A resume of e was sent, and its task has still to open it.
Queued(e, c) == c \in {cmds[e][i] : i \in DOMAIN cmds[e]}
Starting(e) == \/ tpc[e] \in {"opening", "open"}
               \/ Queued(e, "RESUME") /\ el[e].task_run
-----------------------------------------------------------------------------
\* What the application calls when: pause and resume while the pipeline plays,
\* one after the other or one of them many times; stop while it plays; terminate
\* and deinit when it was stopped or its run failed.
May(c) ==
    \/ c = "run" /\ pstate = "INIT"
    \/ c \in {"pause", "resume"} /\ pstate = "RUNNING"
    \/ c = "stop" /\ pstate = "RUNNING" /\ (Patient => \A e \in El : ~Starting(e))
    \/ c \in {"terminate", "deinit"} /\ pstate \in {"INIT", "ERROR"}

Call(c) ==
    /\ c \in Calls /\ apc = "idle" /\ May(c)
    /\ Enter(c) /\ ok' = TRUE
    /\ UNCHANGED <<elvars, pstate, linked, freed, gave_up>>

ResetRingbuffer ==
    /\ "reset" \in Calls /\ apc = "idle" /\ pstate = "INIT"
    /\ ResetRings(Rb) /\ UNCHANGED <<el, cmds, tpc, appvars>>
-----------------------------------------------------------------------------
(***************************************************************************)
(* audio_element_run.  audio_event_iface_discard empties the queue.         *)
(***************************************************************************)
MustCreate(e) == /\ ~el[e].task_run
                 /\ el[e].state \in {"INIT", "STOPPED", "FINISHED", "ERROR"}
Uncreated(e) == [el[e] EXCEPT !.bits = @ \ {"CREATED"}]

CreateNot ==
    /\ apc = "create" /\ ~MustCreate(cur)
    /\ Return(TRUE) /\ UNCHANGED elvars
Create ==
    /\ apc = "create" /\ MustCreate(cur)
    /\ cmds' = [cmds EXCEPT ![cur] = <<>>]
    /\ Step(cur, "start", Uncreated(cur)) /\ To("created") /\ UNCHANGED rb
CreateFail ==
    /\ apc = "create" /\ MustCreate(cur) /\ NoMemory
    /\ cmds' = [cmds EXCEPT ![cur] = <<>>]
    /\ Upd([Uncreated(cur) EXCEPT !.state = "ERROR"]) /\ Return(TRUE)
Created ==
    /\ apc = "created" /\ Set("CREATED")
    /\ Return(TRUE) /\ UNCHANGED elvars

(***************************************************************************)
(* audio_element_resume                                                     *)
(***************************************************************************)
ResumeNot ==
    /\ apc = "resume"
    /\ ~el[cur].task_run \/ el[cur].state \in {"RUNNING", "FINISHED", "ERROR"}
    /\ Return(el[cur].task_run /\ el[cur].state # "ERROR")
    /\ UNCHANGED elvars
Resume ==
    /\ apc = "resume"
    /\ el[cur].task_run /\ el[cur].state \notin {"RUNNING", "FINISHED", "ERROR"}
    /\ Upd([el[cur] EXCEPT !.bits = @ \ {"RESUMED"}])
    /\ IF Full THEN Return(FALSE) /\ UNCHANGED cmds
               ELSE Send("RESUME") /\ To("resumed")
Resumed ==
    /\ apc = "resumed"
    /\ Set("RESUMED") \/ TimedOut
    /\ Return(Set("RESUMED")) /\ UNCHANGED elvars

(***************************************************************************)
(* audio_element_pause.  An element that is not running any more is called  *)
(* paused, whatever it is.                                                  *)
(***************************************************************************)
Pausable == {"INIT", "INITIALIZING", "RUNNING"}
PauseNot ==
    /\ apc = "pause"
    /\ LET x == el[cur] IN
       /\ ~x.task_run \/ x.state \notin Pausable
       /\ Upd([x EXCEPT !.state = IF x.task_run THEN "PAUSED" ELSE @])
       /\ Return(x.task_run)
    /\ UNCHANGED cmds
Pause ==
    /\ apc = "pause" /\ el[cur].task_run /\ el[cur].state \in Pausable
    /\ Upd([el[cur] EXCEPT !.bits = @ \ {"PAUSED"}])
    /\ IF Full THEN Return(FALSE) /\ UNCHANGED cmds
               ELSE Send("PAUSE") /\ To("paused")
PauseReturn ==
    /\ apc = "paused"
    /\ Set("PAUSED") \/ TimedOut
    /\ Return(Set("PAUSED")) /\ UNCHANGED elvars

(***************************************************************************)
(* audio_element_stop, also called by audio_element_deinit.                 *)
(***************************************************************************)
StopReturn == IF call = "destroy" THEN To("ewait") ELSE Return(TRUE)

StopNot ==
    /\ apc = "stop" /\ ~el[cur].task_run
    /\ StopReturn /\ UNCHANGED elvars
StopAtRest ==
    /\ apc = "stop" /\ el[cur].task_run /\ ~el[cur].is_running
    /\ Upd([el[cur] EXCEPT !.bits = @ \cup {"STOPPED"}])
    /\ StopReturn /\ UNCHANGED cmds
Stop ==
    /\ apc = "stop" /\ el[cur].task_run /\ el[cur].is_running
    /\ AbortRings(IF linked THEN Rings(cur) ELSE {})
    /\ To(IF el[cur].state = "RUNNING" THEN "clear" ELSE "send")
    /\ UNCHANGED <<el, cmds, tpc>>
ClearStopped ==
    /\ apc = "clear"
    /\ Upd([el[cur] EXCEPT !.bits = @ \ {"STOPPED"}])
    /\ To("send") /\ UNCHANGED cmds
SendStop ==
    /\ apc = "send"
    /\ LET x == el[cur]
           sends == ~x.stopping /\ ~Full
       IN /\ Upd([x EXCEPT !.poll = @ \/ x.state = "PAUSED",
                           !.stopping = @ \/ sends])
          /\ IF sends THEN Send("STOP") ELSE UNCHANGED cmds
    /\ StopReturn

(***************************************************************************)
(* audio_element_wait_for_stop_ms with portMAX_DELAY, then reset_state.     *)
(***************************************************************************)
WaitStopNow ==       \* mutant: a time-out counts as a stop
    /\ apc = "wait" /\ To("reset") /\ UNCHANGED elvars
WaitStop ==
    /\ apc = "wait" /\ Set("STOPPED")
    /\ To("reset") /\ UNCHANGED elvars
ResetState ==
    /\ apc = "reset"
    /\ Upd([el[cur] EXCEPT !.state = "INIT"])
    /\ Return(TRUE) /\ UNCHANGED cmds

(***************************************************************************)
(* audio_element_terminate, also called by audio_element_deinit.  It gives  *)
(* up if DESTROY finds no place in the queue, or the wait times out.        *)
(***************************************************************************)
TermReturn(good) ==
    /\ gave_up' = IF good THEN gave_up \ {cur} ELSE gave_up \cup {cur}
    /\ IF call = "destroy" THEN To("free") ELSE Return(TRUE)

TerminateNot ==
    /\ apc = "term" /\ ~el[cur].task_run
    /\ TermReturn(TRUE) /\ UNCHANGED elvars
TerminateStale ==    \* mutant: DESTROYED of the last task is not cleared
    /\ apc = "term" /\ el[cur].task_run
    /\ UNCHANGED <<el, tpc, rb>>
    /\ IF Full THEN TermReturn(FALSE) /\ UNCHANGED cmds
               ELSE Send("DESTROY") /\ To("gone") /\ UNCHANGED gave_up
Terminate ==
    /\ apc = "term" /\ el[cur].task_run
    /\ Upd([el[cur] EXCEPT !.bits = @ \ {"DESTROYED"}])
    /\ IF Full THEN TermReturn(FALSE) /\ UNCHANGED cmds
               ELSE Send("DESTROY") /\ To("gone") /\ UNCHANGED gave_up
Terminated ==
    /\ apc = "gone"
    /\ Set("DESTROYED") \/ TimedOut
    /\ TermReturn(Set("DESTROYED")) /\ UNCHANGED elvars

(***************************************************************************)
(* The rest of audio_element_deinit: wait_for_stop, terminate, free.        *)
(***************************************************************************)
WaitForStop ==
    /\ apc = "ewait"
    /\ ~el[cur].is_running \/ Set("STOPPED") \/ TimedOut
    /\ To("term") /\ UNCHANGED elvars
Free ==
    /\ apc = "free"
    /\ freed' = freed \cup {cur}
    /\ IF cur < N THEN cur' = cur + 1 /\ apc' = First[call]
                  ELSE cur' = cur /\ apc' = "end"
    /\ UNCHANGED <<elvars, call, ok, pstate, linked>>
-----------------------------------------------------------------------------
Terminating == TerminateNot \/ Terminate \/ Terminated
App ==
    \/ Terminating
    \/ /\ \/ CreateNot \/ Create \/ CreateFail \/ Created
          \/ ResumeNot \/ Resume \/ Resumed
          \/ PauseNot \/ Pause \/ PauseReturn
          \/ StopNot \/ StopAtRest \/ Stop \/ ClearStopped \/ SendStop
          \/ WaitStop \/ ResetState \/ WaitForStop \/ Free
       /\ UNCHANGED gave_up
Tasks(e) == Task(e) /\ UNCHANGED appvars

Next ==
    \/ \E c \in DOMAIN First : Call(c)
    \/ ResetRingbuffer
    \/ App
    \/ \E e \in El : Tasks(e)
Spec == Init /\ [][Next]_vars
-----------------------------------------------------------------------------
(***************************************************************************)
(* Safety                                                                   *)
(***************************************************************************)
\* Every variable has its type, and neither a queue nor a ring buffer
\* overflows.
Tpc == {"none", "start", "init", "loop", "run", "opening", "open", "refused",
        "read", "write", "stopped", "ended", "paused", "exit", "left", "tail"}
Apc == {"idle", "create", "created", "resume", "resumed", "pause", "paused",
        "stop", "clear", "send", "wait", "reset", "ewait", "term", "gone",
        "free", "end"}
TypeOK ==
    /\ el \in [El -> Element] /\ tpc \in [El -> Tpc] /\ rb \in [Rb -> Ring]
    /\ cmds \in [El -> Seq(Cmd)] /\ \A e \in El : Len(cmds[e]) <= CmdMax
    /\ call \in DOMAIN First /\ apc \in Apc /\ cur \in El /\ ok \in BOOLEAN
    /\ pstate \in {"INIT", "RUNNING", "ERROR"} /\ linked \in BOOLEAN
    /\ freed \in SUBSET El /\ gave_up \in SUBSET El

\* The tasks keep the promise made to the implementation of an element: open,
\* process and close alternate as they should, whatever the commands, the
\* ends of data, the failures and the restarts of the pipeline.
Phase(e) == IF tpc[e] \in {"none", "tail"} THEN "absent"
            ELSE IF tpc[e] = "opening" THEN "opening"
            ELSE IF el[e].is_open THEN "open" ELSE "closed"
Processing(e) == tpc[e] \in {"read", "write"}
Life == INSTANCE ElementLife WITH
    Elem <- El,
    phase <- [e \in El |-> Phase(e)],
    busy <- {e \in El : Processing(e)}
LifeSpec == Life!LSpec

\* The bit that a stop is waited for on is clear while an element processes
\* data: no trace of an earlier stop is left that a wait could return on.
NoStaleStop == \A e \in El : Processing(e) => "STOPPED" \notin el[e].bits

\* "This function will wait portMAX_DELAY until all the Elements in the
\* pipeline actually stop" (audio_pipeline.h:179): when the wait for an
\* element returns, the element is closed.
WaitMeansStopped == [][WaitStop => ~el[cur].is_open]_vars

\* After a stop that was waited for nothing opens an element again until the
\* next run: no command that is still in a queue, no data in a ring buffer.
StoppedForGood == pstate = "INIT" /\ apc = "idle" => \A e \in El : ~el[e].is_open

\* No task is inside rb_read or rb_write when reset_ringbuffer may be called,
\* nor once the ring buffers are destroyed: rb_reset and rb_destroy do not take
\* the lock.  Left out: the elements on which audio_element_terminate gave up,
\* of which deinit destroys the ring buffers all the same.
RingsQuiet ==
    \A e \in El : Processing(e) =>
        /\ ~(pstate = "INIT" /\ apc = "idle")
        /\ linked \/ e \in gave_up

\* audio_element_deinit frees an element whose task has left its loop and
\* closed it.  No more than that: the task may still have to run its last
\* statements, which use the element, and where terminate gave up it may be
\* anywhere.
PastLoop(e) == \/ tpc[e] \in {"none", "left", "tail"}
               \/ tpc[e] = "exit" /\ ~el[e].is_open
FreedPastLoop == \A e \in freed \ gave_up : PastLoop(e)
-----------------------------------------------------------------------------
(***************************************************************************)
(* Liveness.  The tasks run when they can, the application goes on in a call *)
(* that it has begun.  No fairness of the calls themselves.                 *)
(***************************************************************************)
Fairness == WF_vars(App) /\ \A e \in El : WF_vars(Tasks(e))
FairSpec == Spec /\ Fairness

\* A stop reaches every element, also one that is blocked in a ring buffer:
\* no element that is waited for stays open.
StopReaches == []<>~(apc = "wait" /\ el[cur].is_open)

\* Every function of the pipeline returns, but for one case: the element
\* stops because its ring buffers were aborted between the test of RUNNING
\* and the clearing of STOPPED in audio_element_stop; then the STOP command
\* finds it stopped and sets no bit, and the wait, which has no time-out,
\* lasts for ever.
Forgotten == /\ apc = "wait" /\ ~Set("STOPPED")
             /\ el[cur].state = "STOPPED" /\ ~el[cur].is_running
CallsReturn == []<>(apc \in {"idle", "end"}) \/ <>[]Forgotten

\* The end of the data travels: if the application leaves the pipeline alone,
\* an element whose input has finished ends too, unless one after it has gone
\* and left it a full ring buffer.
DataEnds ==
    \A e \in 2..N :
      <>[](/\ apc = "idle" /\ el[e - 1].state = "FINISHED"
           /\ \A f \in (e + 1)..N : el[f].is_running)
        => <>[]~el[e].is_running
=============================================================================
