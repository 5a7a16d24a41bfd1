--------------------------- MODULE AudioElement ---------------------------
(***************************************************************************)
(* The elements of an audio pipeline (audio_element.c) and the ring buffers *)
(* between them: element e reads ring buffer e - 1 and writes ring buffer   *)
(* e.  Each element has a task, which serves a queue of commands and calls  *)
(* process() between two commands.  No lock guards what the tasks share     *)
(* with the application: a task switch can happen wherever tpc changes.     *)
(*                                                                          *)
(* process() is the usual one: it reads a unit (audio_element_input) and    *)
(* writes a unit (audio_element_output).  The first element reads, and the  *)
(* last one writes, through a callback.  The ring buffers are what RingBuf  *)
(* says of rb_read and rb_write: data first, then is_done_write, then       *)
(* abort.                                                                   *)
(***************************************************************************)
EXTENDS Integers, Sequences

CONSTANTS
    N,          \* the number of linked elements
    RbSize,     \* the units a ring buffer takes (bound)
    CmdMax,     \* internal_queue_size (5 in the code)
    OpenRet,    \* what open() may return
    NoMemory,   \* there may be no memory for a task or for its buffer
    EndRet      \* what the callbacks at both ends may return instead of data

ASSUME ElementAssumption ==
    /\ N \in Nat \ {0} /\ RbSize \in Nat \ {0} /\ CmdMax \in Nat \ {0}
    /\ OpenRet \subseteq {"ok", "abort", "fail"}
    /\ EndRet \subseteq {"done", "fail"}
    /\ NoMemory \in BOOLEAN

El    == 1..N
Rb    == 1..(N - 1)
Bit   == {"CREATED", "STOPPED", "RESUMED", "PAUSED", "DESTROYED"}
Cmd   == {"RESUME", "PAUSE", "STOP", "DESTROY"}
State == {"INIT", "INITIALIZING", "RUNNING", "PAUSED", "STOPPED", "FINISHED",
          "ERROR"}
Rings(e) == {e - 1, e} \cap Rb       \* the ring buffers of an element

VARIABLES
    el,         \* struct audio_element
    cmds,       \* the internal queue of its iface_event
    tpc,        \* where its task is
    rb          \* the ring buffers
elvars == <<el, cmds, tpc, rb>>

Element == [state : State, is_open : BOOLEAN, is_running : BOOLEAN,
            task_run : BOOLEAN, stopping : BOOLEAN,
            poll : BOOLEAN,          \* wait_time is 0, not portMAX_DELAY
            by_cmd : BOOLEAN,        \* on_cmd_resume was called by on_cmd
            bits : SUBSET Bit]       \* state_event
NewElement == [state |-> "INIT", is_open |-> FALSE, is_running |-> FALSE,
               task_run |-> FALSE, stopping |-> FALSE, poll |-> FALSE,
               by_cmd |-> FALSE, bits |-> {}]
Ring == [fill : 0..RbSize, done : BOOLEAN, abort : BOOLEAN]
EmptyRing == [fill |-> 0, done |-> FALSE, abort |-> FALSE]

ElInit ==
    /\ el = [e \in El |-> NewElement]
    /\ cmds = [e \in El |-> <<>>]
    /\ tpc = [e \in El |-> "none"]
    /\ rb = [r \in Rb |-> EmptyRing]

\* The task of e gets to pc and leaves the element as x.
Step(e, pc, x) == /\ tpc' = [tpc EXCEPT ![e] = pc]
                  /\ el' = [el EXCEPT ![e] = x]
ResetRings(R) == rb' = [r \in Rb |-> IF r \in R THEN EmptyRing ELSE rb[r]]
AbortNone(R)  == UNCHANGED rb     \* mutant: the callers are not woken
AbortRings(R) == rb' = [r \in Rb |-> [rb[r] EXCEPT !.abort = @ \/ r \in R]]
DoneNone(R)   == UNCHANGED rb     \* mutant: the reader is not told
DoneRings(R)  == rb' = [r \in Rb |-> [rb[r] EXCEPT !.done = @ \/ r \in R]]
-----------------------------------------------------------------------------
(***************************************************************************)
(* The handlers, up to where they clear is_running (tpc "stopped", "ended",  *)
(* "paused") or call open() (tpc "opening").                                *)
(***************************************************************************)
\* process_deinit; from now on the task waits for commands.
Closed(e, st) == [el[e] EXCEPT !.is_open = FALSE, !.state = st, !.poll = FALSE]

StopLeavesOpen(e) ==     \* mutant: a stop does not close the element
    Step(e, "stopped", [el[e] EXCEPT !.state = "STOPPED", !.poll = FALSE])

StopIgnoresFinished(e) ==    \* mutant: a finished element needs no answer
    \/ /\ el[e].state \notin {"FINISHED", "STOPPED"}
       /\ Step(e, "stopped", Closed(e, "STOPPED"))
    \/ /\ el[e].state \in {"FINISHED", "STOPPED"}
       /\ Step(e, "loop", [el[e] EXCEPT !.stopping = FALSE])

OnCmdStop(e) ==
    LET x == el[e] IN
    \/ /\ x.state \notin {"FINISHED", "STOPPED"}
       /\ Step(e, "stopped", Closed(e, "STOPPED"))
    \/ /\ x.state = "FINISHED" \/ (x.state = "STOPPED" /\ x.is_running)
       /\ Step(e, "stopped", [x EXCEPT !.state = "STOPPED"])
    \/ /\ x.state = "STOPPED" /\ ~x.is_running
       /\ Step(e, "loop", [x EXCEPT !.stopping = FALSE])

OnCmdError(e) ==
    LET ends == el[e].state # "STOPPED" IN
    Step(e, IF ends THEN "ended" ELSE "loop",
            IF ends THEN Closed(e, "ERROR") ELSE el[e])

OnCmdFinish(e) ==
    LET ends == el[e].state \notin {"ERROR", "STOPPED"} IN
    Step(e, IF ends THEN "ended" ELSE "loop",
            IF ends THEN Closed(e, "FINISHED") ELSE el[e])

PauseLeavesOpen(e) ==    \* mutant: a pause does not close the element
    Step(e, "paused", [el[e] EXCEPT !.state = "PAUSED", !.poll = FALSE])

OnCmdPause(e) == Step(e, "paused", Closed(e, "PAUSED"))

\* RESUMED is set before open() is called.
OnCmdResume(e, by_cmd) ==
    Step(e, IF el[e].state = "RUNNING" THEN "run" ELSE "opening",
         [el[e] EXCEPT !.is_running = TRUE, !.by_cmd = by_cmd,
                       !.bits = @ \cup {"RESUMED"}])
ResumeResets(e) ==       \* the output, unless it goes on or starts afresh
    IF el[e].state \in {"INIT", "RUNNING", "PAUSED"} THEN {} ELSE {e}

OnCmdDestroy(e) ==       \* the loop of the task ends
    Step(e, "exit", [el[e] EXCEPT !.is_running = FALSE, !.bits = @ \cup {"STOPPED"}])

\* audio_event_iface_waiting_cmd_msg finds a command.
Receive(e) ==
    /\ tpc[e] = "loop" /\ cmds[e] # <<>>
    /\ cmds' = [cmds EXCEPT ![e] = Tail(@)]
    /\ LET cmd == Head(cmds[e]) IN
       \/ cmd = "STOP"    /\ OnCmdStop(e)         /\ UNCHANGED rb
       \/ cmd = "PAUSE"   /\ OnCmdPause(e)        /\ UNCHANGED rb
       \/ cmd = "RESUME"  /\ OnCmdResume(e, TRUE) /\ ResetRings(ResumeResets(e))
       \/ cmd = "DESTROY" /\ OnCmdDestroy(e)      /\ UNCHANGED rb

\* process_running, after a command that leaves the element running, or when
\* the queue is empty and is not waited for.
Runs(e) == el[e].is_running /\ el[e].state \notin {"INIT", "INITIALIZING"}
Run(e) ==
    /\ \/ tpc[e] = "run"
       \/ tpc[e] = "loop" /\ cmds[e] = <<>> /\ el[e].poll /\ Runs(e)
    /\ Step(e, IF Runs(e) THEN "read" ELSE "loop", el[e])
    /\ UNCHANGED <<cmds, rb>>

\* The ends of the handlers: of on_cmd_stop, of on_cmd_error and
\* on_cmd_finish, of PAUSE, and of on_cmd_resume after an open() that failed.
Halt(e) == [el[e] EXCEPT !.is_running = FALSE, !.bits = @ \cup {"STOPPED"}]
Stopped(e) ==
    /\ tpc[e] = "stopped"
    /\ Step(e, "loop", [Halt(e) EXCEPT !.stopping = FALSE])
    /\ UNCHANGED <<cmds, rb>>
Ended(e) ==
    /\ tpc[e] = "ended" /\ Step(e, "loop", Halt(e))
    /\ UNCHANGED <<cmds, rb>>
Paused(e) ==
    /\ tpc[e] = "paused"
    /\ Step(e, "loop", [el[e] EXCEPT !.is_running = FALSE,
                                     !.bits = @ \cup {"PAUSED"}])
    /\ UNCHANGED <<cmds, rb>>
Refused(e) ==
    /\ tpc[e] = "refused"
    /\ Step(e, "loop", [el[e] EXCEPT !.is_running = FALSE, !.by_cmd = FALSE,
           !.bits = IF el[e].by_cmd THEN @ \cup {"STOPPED"} ELSE @])
    /\ AbortRings(Rings(e)) /\ UNCHANGED cmds

(***************************************************************************)
(* process_init, called by on_cmd_resume.                                   *)
(***************************************************************************)
Open(e) ==
    /\ tpc[e] = "opening"
    /\ Step(e, "open", [el[e] EXCEPT !.is_open = TRUE, !.state = "INITIALIZING"])
    /\ UNCHANGED <<cmds, rb>>

OpenedStale(e) ==        \* mutant: STOPPED is not cleared
    /\ tpc[e] = "open" /\ "ok" \in OpenRet
    /\ Step(e, IF el[e].by_cmd THEN "run" ELSE "loop",
            [el[e] EXCEPT !.state = "RUNNING", !.poll = TRUE, !.by_cmd = FALSE])
    /\ UNCHANGED <<cmds, rb>>

Opened(e) ==
    /\ tpc[e] = "open" /\ "ok" \in OpenRet
    /\ Step(e, IF el[e].by_cmd THEN "run" ELSE "loop",
            [el[e] EXCEPT !.state = "RUNNING", !.poll = TRUE, !.by_cmd = FALSE,
                          !.bits = @ \ {"STOPPED"}])
    /\ UNCHANGED <<cmds, rb>>

OpenAborted(e) ==        \* on_cmd_stop
    /\ tpc[e] = "open" /\ "abort" \in OpenRet
    /\ Step(e, "refused", [Closed(e, "STOPPED") EXCEPT
           !.is_running = FALSE, !.stopping = FALSE, !.bits = @ \cup {"STOPPED"}])
    /\ UNCHANGED <<cmds, rb>>

OpenFailed(e) ==         \* on_cmd_error
    /\ tpc[e] = "open" /\ "fail" \in OpenRet
    /\ Step(e, "refused", [Closed(e, "ERROR") EXCEPT
           !.is_running = FALSE, !.bits = @ \cup {"STOPPED"}])
    /\ UNCHANGED <<cmds, rb>>

(***************************************************************************)
(* process() and what process_running makes of its result.                  *)
(***************************************************************************)
Data(r)  == rb[r].fill > 0
Space(r) == rb[r].fill < RbSize

Read(e) ==
    /\ tpc[e] = "read" /\ Step(e, "write", el[e])
    /\ \/ e = 1 /\ UNCHANGED rb
       \/ e > 1 /\ Data(e - 1) /\ rb' = [rb EXCEPT ![e - 1].fill = @ - 1]
    /\ UNCHANGED cmds

WriteOver(e) ==          \* mutant: no test for space
    /\ tpc[e] = "write" /\ Step(e, "loop", el[e])
    /\ rb' = [r \in Rb |-> [rb[r] EXCEPT !.fill = IF r = e THEN @ + 1 ELSE @]]
    /\ UNCHANGED cmds

Write(e) ==
    /\ tpc[e] = "write" /\ Step(e, "loop", el[e])
    /\ \/ e = N /\ UNCHANGED rb
       \/ e < N /\ Space(e) /\ rb' = [rb EXCEPT ![e].fill = @ + 1]
    /\ UNCHANGED cmds

\* The call on ring buffer r cannot go on; the call is one of a callback.
Stuck(e, r) == \/ tpc[e] = "read" /\ r = e - 1 /\ ~Data(r)
               \/ tpc[e] = "write" /\ r = e /\ ~Space(r)
AtEnd(e)    == \/ tpc[e] = "read" /\ e = 1
               \/ tpc[e] = "write" /\ e = N

Done(e) ==               \* AEL_IO_DONE; reopened if reset_state was called
    /\ \/ \E r \in Rb : Stuck(e, r) /\ rb[r].done
       \/ AtEnd(e) /\ "done" \in EndRet
    /\ IF el[e].state = "INIT"
       THEN OnCmdResume(e, FALSE) /\ UNCHANGED rb
       ELSE OnCmdFinish(e) /\ DoneRings({e})
    /\ UNCHANGED cmds

Abort(e) ==              \* AEL_IO_ABORT
    /\ \E r \in Rb : Stuck(e, r) /\ ~rb[r].done /\ rb[r].abort
    /\ OnCmdStop(e) /\ UNCHANGED <<cmds, rb>>

Fail(e) ==               \* AEL_IO_FAIL, AEL_PROCESS_FAIL
    /\ AtEnd(e) /\ "fail" \in EndRet
    /\ OnCmdError(e) /\ UNCHANGED <<cmds, rb>>

Blocked(e) == \E r \in Rb : Stuck(e, r) /\ ~rb[r].done /\ ~rb[r].abort

(***************************************************************************)
(* audio_element_task before and after its loop.  The last statement clears *)
(* el->audio_thread, after the bit that terminate waits for was set.        *)
(***************************************************************************)
Start(e) ==
    /\ tpc[e] = "start"
    /\ Step(e, "init", [el[e] EXCEPT !.task_run = TRUE, !.bits = @ \cup {"CREATED"}])
    /\ UNCHANGED <<cmds, rb>>
Begin(e) ==
    /\ tpc[e] = "init"
    /\ Step(e, "loop", [el[e] EXCEPT !.state = "INIT", !.poll = FALSE,
                                     !.bits = @ \ {"STOPPED"}])
    /\ UNCHANGED <<cmds, rb>>
NoBuffer(e) ==
    /\ tpc[e] = "init" /\ NoMemory
    /\ Step(e, "exit", [el[e] EXCEPT !.state = "INIT", !.poll = FALSE,
           !.task_run = FALSE, !.bits = @ \ {"STOPPED"}])
    /\ UNCHANGED <<cmds, rb>>
Exit(e) ==
    /\ tpc[e] = "exit"
    /\ Step(e, "left", [el[e] EXCEPT
           !.state = IF el[e].is_open THEN "STOPPED" ELSE @,
           !.is_open = FALSE, !.stopping = FALSE, !.task_run = FALSE])
    /\ UNCHANGED <<cmds, rb>>
Left(e) ==
    /\ tpc[e] = "left"
    /\ Step(e, "tail", [el[e] EXCEPT
           !.bits = @ \cup {"STOPPED", "RESUMED", "DESTROYED"}])
    /\ UNCHANGED <<cmds, rb>>
Gone(e) ==
    /\ tpc[e] = "tail" /\ Step(e, "none", el[e]) /\ UNCHANGED <<cmds, rb>>

Task(e) ==
    \/ Start(e) \/ Begin(e) \/ NoBuffer(e) \/ Receive(e) \/ Run(e)
    \/ Stopped(e) \/ Ended(e) \/ Paused(e) \/ Refused(e)
    \/ Open(e) \/ Opened(e) \/ OpenAborted(e) \/ OpenFailed(e)
    \/ Read(e) \/ Write(e) \/ Done(e) \/ Abort(e) \/ Fail(e)
    \/ Exit(e) \/ Left(e) \/ Gone(e)
=============================================================================
