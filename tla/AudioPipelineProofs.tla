------------------------- MODULE AudioPipelineProofs -------------------------
(***************************************************************************)
(* The safety of a pipeline of any length, with queues and ring buffers of  *)
(* any size and any calls of the application.                               *)
(***************************************************************************)
EXTENDS AudioPipeline, TLAPS

(* An element and the point its task is at, whatever the application does: *)
(* it is open and the stop bit is clear as long as it runs, and it is       *)
(* closed at the end of each handler.                                       *)
AtRest   == {"none", "start", "left", "tail"}     \* no loop, no buffer
Loop     == {"loop", "run", "read", "write"}
Handlers == {"stopped", "ended", "paused", "refused"}
Sound(x, pc) ==
    /\ pc \in AtRest \cup {"init"} \cup Handlers => ~x.is_open
    /\ pc \in AtRest \cup {"init", "exit"} => ~x.is_running
    /\ pc \in AtRest => ~x.task_run
    /\ pc \notin AtRest \cup {"exit"} => x.task_run
    /\ pc = "exit" /\ ~x.task_run => ~x.is_open
    /\ pc \in Loop /\ x.is_running =>
         x.is_open /\ x.state \in {"RUNNING", "INIT"} /\ "STOPPED" \notin x.bits
    /\ pc \in Loop /\ ~x.is_running =>
         pc = "loop" /\ ~x.is_open /\ x.state \notin {"RUNNING", "INITIALIZING"}
    /\ pc \in Handlers => x.state \notin {"RUNNING", "INITIALIZING"}
    /\ pc \in {"opening", "open"} => x.is_running
    /\ pc = "open" => x.is_open
LocalInv == \A e \in El : Sound(el[e], tpc[e])

(* Where the application can be in each function, and in which state the   *)
(* pipeline is then.                                                        *)
Points == [none |-> {"idle"}, run |-> {"create", "created"},
           start |-> {"resume", "resumed", "idle"},
           resume |-> {"resume", "resumed", "idle"},
           pause |-> {"pause", "paused", "idle"},
           stop |-> {"stop", "clear", "send"}, wait |-> {"wait", "reset", "idle"},
           undo |-> {"term", "gone", "idle"}, terminate |-> {"term", "gone", "idle"},
           deinit |-> {"term", "gone"},
           destroy |-> {"stop", "clear", "send", "ewait", "term", "gone", "free",
                        "end"}]
CallInv ==
    /\ apc \in Points[call]
    /\ call \in {"none", "run"} => pstate = "INIT"
    /\ call = "start" => pstate = IF apc = "idle" THEN "RUNNING" ELSE "INIT"
    /\ call \in {"resume", "pause", "stop"} => pstate = "RUNNING"
    /\ call = "wait" => pstate = IF apc = "idle" THEN "INIT" ELSE "RUNNING"
    /\ call = "undo" => pstate = "ERROR"
    /\ call \in {"terminate", "deinit", "destroy"} => pstate \in {"INIT", "ERROR"}
    /\ ~linked => call = "destroy"

(* A new task finds an empty queue, and the application waiting for it.    *)
StartInv == \A e \in El :
    tpc[e] = "start" => /\ apc = "created" /\ cur = e /\ cmds[e] = <<>>
                        /\ "CREATED" \notin el[e].bits

(* DESTROYED is not an answer to an earlier terminate.                      *)
GoneInv == apc = "gone" /\ Set("DESTROYED") => tpc[cur] \in {"none", "tail"}

(* deinit unlinks and frees the elements when each was terminated: its task *)
(* is past its loop, unless terminate gave up.                              *)
Dropped(e) == call = "destroy" \/ (call = "deinit" /\ e < cur)
EndedInv ==
    /\ freed # {} => call = "destroy"
    /\ \A e \in El : Dropped(e) => e \in gave_up \/ PastLoop(e)

(* What holds whatever the application calls.                              *)
ControlInv == CallInv /\ StartInv /\ GoneInv /\ EndedInv

(* From a stop to the next run no element is about to open; once it was    *)
(* waited for it is closed.                                                 *)
Calm == call \in {"stop", "wait"} \/ (pstate = "INIT" /\ call # "start")
CalmInv == Calm => \A e \in El : ~Starting(e)
Closing == pstate = "INIT" /\ call # "start"
ClosedInv ==
    /\ Closing => \A e \in El : ~el[e].is_open
    /\ call = "wait" => \A e \in El :
         e < cur \/ (e = cur /\ apc = "reset") => ~el[e].is_open

(* An element that runs is RUNNING: it was not reset under its task.       *)
StateInv == \A e \in El :
    tpc[e] \in Loop /\ el[e].is_running => el[e].state = "RUNNING"

(* A task is told to end only while terminate waits for it, unless a       *)
(* terminate timed out after a run that failed.                             *)
DestroyInv ==
    /\ \A e \in El : Queued(e, "DESTROY") /\ el[e].task_run =>
         pstate = "ERROR" \/ (apc = "gone" /\ cur = e)
    /\ \A e \in El : tpc[e] = "exit" /\ el[e].is_open => pstate = "ERROR"

PatientInv == CalmInv /\ ClosedInv /\ StateInv /\ DestroyInv

(* What a step of a task does to its element, x at pc before, y at qc      *)
(* after.                                                                   *)
Effect(x, pc, y, qc) ==
    /\ y \in Element /\ qc \in Tpc \ {"start"} /\ Sound(y, qc)
    /\ y.is_open => x.is_open \/ pc = "opening"
    /\ y.task_run => x.task_run \/ pc = "start"
    /\ qc = "open" => pc = "opening"
    /\ qc = "opening" => x.state # "RUNNING" /\ pc \in {"loop", "read", "write"}
    /\ qc = "exit" /\ y.is_open => pc = "loop"
    /\ qc \in Loop /\ y.is_running =>
         y.state = "RUNNING" \/ (y.state = x.state /\ pc \in Loop /\ x.is_running)
    /\ "DESTROYED" \in y.bits => "DESTROYED" \in x.bits \/ qc = "tail"
    /\ pc \in {"none", "tail"} => qc = "none"
    /\ qc = "none" => pc = "tail"
    /\ qc = "tail" <=> pc = "left"
    /\ pc = "exit" => qc = "left"
    /\ pc = "opening" => qc = "open"
    /\ qc \in {"init", "left"} => pc \in {"start", "exit"}
    /\ qc = "exit" => pc \in {"loop", "init"}
    /\ "RESUMED" \in y.bits =>
         "RESUMED" \in x.bits \/ qc \in {"run", "opening", "tail"}
    /\ \/ y.state \in {x.state, "INIT", "STOPPED", "PAUSED"}
       \/ x.is_open \/ pc = "opening"
-----------------------------------------------------------------------------
(***************************************************************************)
(* The steps of a task                                                      *)
(***************************************************************************)
LEMMA StepFacts ==
  ASSUME TypeOK, NEW e \in El, NEW pc, NEW x, Step(e, pc, x)
  PROVE  /\ el'[e] = x /\ tpc'[e] = pc
         /\ \A f \in El \ {e} : el'[f] = el[f] /\ tpc'[f] = tpc[f]
         /\ x \in Element => el' \in [El -> Element]
         /\ pc \in Tpc => tpc' \in [El -> Tpc]
  BY DEF TypeOK, Step

LEMMA StopEffect ==
  ASSUME TypeOK, NEW e \in El, Sound(el[e], tpc[e]), tpc[e] \in Loop,
         OnCmdStop(e)
  PROVE  /\ Step(e, tpc'[e], el'[e])
         /\ Effect(el[e], tpc[e], el'[e], tpc'[e])
         /\ tpc'[e] \in {"stopped", "loop"}
<1> DEFINE x == el[e]
<1>0. x \in Element
  BY DEF TypeOK
<1>1. CASE x.state \notin {"FINISHED", "STOPPED"} /\ Step(e, "stopped", Closed(e, "STOPPED"))
  <2>1. el'[e] = Closed(e, "STOPPED") /\ tpc'[e] = "stopped"
    BY <1>1, StepFacts
  <2>2. QED
    BY <1>0, <1>1, <2>1 DEF Effect, Sound, Closed, Element, State, Tpc, Loop, AtRest, Handlers
<1>2. CASE /\ x.state = "FINISHED" \/ (x.state = "STOPPED" /\ x.is_running)
           /\ Step(e, "stopped", [x EXCEPT !.state = "STOPPED"])
  <2>1. el'[e] = [x EXCEPT !.state = "STOPPED"] /\ tpc'[e] = "stopped"
    BY <1>2, StepFacts
  <2>2. QED
    BY <1>0, <1>2, <2>1 DEF Effect, Sound, Element, State, Tpc, Loop, AtRest, Handlers
<1>3. CASE /\ x.state = "STOPPED" /\ ~x.is_running
           /\ Step(e, "loop", [x EXCEPT !.stopping = FALSE])
  <2>1. el'[e] = [x EXCEPT !.stopping = FALSE] /\ tpc'[e] = "loop"
    BY <1>3, StepFacts
  <2>2. QED
    BY <1>0, <1>3, <2>1 DEF Effect, Sound, Element, State, Tpc, Loop, AtRest, Handlers
<1>4. QED
  BY <1>1, <1>2, <1>3 DEF OnCmdStop

LEMMA ErrorEffect ==
  ASSUME TypeOK, NEW e \in El, Sound(el[e], tpc[e]), tpc[e] \in {"read", "write"},
         OnCmdError(e)
  PROVE  Step(e, tpc'[e], el'[e]) /\ Effect(el[e], tpc[e], el'[e], tpc'[e])
         /\ tpc'[e] # "opening" /\ tpc'[e] # "exit"
<1>1. el[e] \in Element /\ el[e].state # "STOPPED"
  BY DEF TypeOK, Sound, Loop
<1>2. Step(e, "ended", Closed(e, "ERROR"))
  BY <1>1 DEF OnCmdError
<1>3. el'[e] = Closed(e, "ERROR") /\ tpc'[e] = "ended"
  BY <1>2, StepFacts
<1>4. QED
  BY <1>1, <1>2, <1>3 DEF Closed, Effect, Sound, Element, State, Tpc, Loop, AtRest, Handlers

LEMMA FinishEffect ==
  ASSUME TypeOK, NEW e \in El, Sound(el[e], tpc[e]), tpc[e] \in {"read", "write"},
         OnCmdFinish(e)
  PROVE  Step(e, tpc'[e], el'[e]) /\ Effect(el[e], tpc[e], el'[e], tpc'[e])
         /\ tpc'[e] # "opening" /\ tpc'[e] # "exit"
<1>1. el[e] \in Element /\ el[e].state \notin {"ERROR", "STOPPED"}
  BY DEF TypeOK, Sound, Loop
<1>2. Step(e, "ended", Closed(e, "FINISHED"))
  BY <1>1 DEF OnCmdFinish
<1>3. el'[e] = Closed(e, "FINISHED") /\ tpc'[e] = "ended"
  BY <1>2, StepFacts
<1>4. QED
  BY <1>1, <1>2, <1>3 DEF Closed, Effect, Sound, Element, State, Tpc, Loop, AtRest, Handlers

LEMMA ResumeEffect ==
  ASSUME TypeOK, NEW e \in El, Sound(el[e], tpc[e]), NEW b \in BOOLEAN,
         tpc[e] = "loop" \/ (tpc[e] \in {"read", "write"} /\ el[e].state = "INIT"),
         OnCmdResume(e, b)
  PROVE  Step(e, tpc'[e], el'[e]) /\ Effect(el[e], tpc[e], el'[e], tpc'[e])
         /\ tpc'[e] # "exit"
<1> DEFINE x == el[e]
           y == [x EXCEPT !.is_running = TRUE, !.by_cmd = b,
                          !.bits = @ \cup {"RESUMED"}]
<1>1. x \in Element
  BY DEF TypeOK
<1>2. y \in Element
  BY <1>1 DEF Element, Bit
<1>3. CASE x.state = "RUNNING" /\ Step(e, "run", y)
  <2>1. el'[e] = y /\ tpc'[e] = "run"
    BY <1>3, StepFacts
  <2>2. QED
    BY <1>1, <1>2, <1>3, <2>1 DEF Effect, Sound, Element, State, Tpc, Loop, AtRest, Handlers
<1>4. CASE x.state # "RUNNING" /\ Step(e, "opening", y)
  <2>1. el'[e] = y /\ tpc'[e] = "opening"
    BY <1>4, StepFacts
  <2>2. QED
    BY <1>1, <1>2, <1>4, <2>1 DEF Effect, Sound, Element, State, Tpc, Loop, AtRest, Handlers
<1>5. QED
  BY <1>3, <1>4 DEF OnCmdResume

(* What is queued after a command was taken out or added.                  *)
LEMMA QueuedFacts ==
  ASSUME NEW s \in Seq(Cmd), NEW c \in Cmd, NEW d
  PROVE  /\ s # <<>> => Head(s) \in {s[i] : i \in DOMAIN s}
         /\ s # <<>> /\ d \in {Tail(s)[i] : i \in DOMAIN Tail(s)}
              => d \in {s[i] : i \in DOMAIN s}
         /\ d \in {Append(s, c)[i] : i \in DOMAIN Append(s, c)}
              => d = c \/ d \in {s[i] : i \in DOMAIN s}
<1>1. s # <<>> => /\ Head(s) = s[1] /\ 1 \in DOMAIN s
                  /\ \A i \in DOMAIN Tail(s) : i + 1 \in DOMAIN s /\ Tail(s)[i] = s[i + 1]
  OBVIOUS
<1>2. \A i \in DOMAIN Append(s, c) :
        Append(s, c)[i] = c \/ (i \in DOMAIN s /\ Append(s, c)[i] = s[i])
  OBVIOUS
<1>3. QED
  BY <1>1, <1>2

(* What a step of a task does to its element and its queue: nothing is     *)
(* added to the queue, an element opens on a RESUME and exits on a DESTROY. *)
Moved(e) == Step(e, tpc'[e], el'[e]) /\ Effect(el[e], tpc[e], el'[e], tpc'[e])
Served(e) ==
    /\ cmds' \in [El -> Seq(Cmd)] /\ \A f \in El \ {e} : cmds'[f] = cmds[f]
    /\ Len(cmds'[e]) <= CmdMax
    /\ \/ cmds'[e] = cmds[e]
       \/ cmds[e] # <<>> /\ cmds'[e] = Tail(cmds[e])
    /\ \A c \in Cmd : Queued(e, c)' => Queued(e, c)
    /\ tpc[e] = "loop" /\ tpc'[e] = "opening" => Queued(e, "RESUME")
    /\ tpc[e] = "loop" /\ tpc'[e] = "exit" => Queued(e, "DESTROY")

LEMMA UnqueuedServed ==
  ASSUME TypeOK, NEW e \in El, UNCHANGED cmds,
         tpc[e] # "loop" \/ tpc'[e] \notin {"opening", "exit"}
  PROVE  Served(e)
  BY DEF TypeOK, Served, Queued

LEMMA ReceiveMoves ==
  ASSUME TypeOK, NEW e \in El, Sound(el[e], tpc[e]), Receive(e)
  PROVE  Moved(e) /\ Served(e)
<1> DEFINE x == el[e]
           cmd == Head(cmds[e])
<1>1. /\ x \in Element /\ tpc[e] = "loop" /\ cmds[e] # <<>>
      /\ cmds' = [cmds EXCEPT ![e] = Tail(@)]
  BY DEF TypeOK, Receive
<1>2. /\ cmds' \in [El -> Seq(Cmd)] /\ cmds'[e] = Tail(cmds[e])
      /\ Len(cmds'[e]) <= CmdMax /\ \A f \in El \ {e} : cmds'[f] = cmds[f]
  BY <1>1, ElementAssumption DEF TypeOK
<1>3. Queued(e, cmd) /\ \A c \in Cmd : Queued(e, c)' => Queued(e, c)
  <2>1. cmds[e] \in Seq(Cmd) /\ cmd \in Cmd
    BY <1>1 DEF TypeOK
  <2>2. QED
    BY <1>1, <1>2, <2>1, QueuedFacts DEF Queued
<1>4. /\ Moved(e)
      /\ tpc'[e] = "opening" => cmd = "RESUME"
      /\ tpc'[e] = "exit" => cmd = "DESTROY"
  <2>1. CASE cmd = "STOP" /\ OnCmdStop(e)
    BY <1>1, <2>1, StopEffect DEF Moved, Loop
  <2>2. CASE cmd = "PAUSE" /\ OnCmdPause(e)
    <3>1. el'[e] = Closed(e, "PAUSED") /\ tpc'[e] = "paused"
      BY <2>2, StepFacts DEF OnCmdPause
    <3>2. QED
      BY <1>1, <2>2, <3>1 DEF Moved, OnCmdPause, Closed, Effect, Sound, Element, State, Bit, Tpc, Loop, AtRest, Handlers
  <2>3. CASE cmd = "RESUME" /\ OnCmdResume(e, TRUE)
    BY <1>1, <2>3, ResumeEffect DEF Moved
  <2>4. CASE cmd = "DESTROY" /\ OnCmdDestroy(e)
    <3> DEFINE y == [x EXCEPT !.is_running = FALSE, !.bits = @ \cup {"STOPPED"}]
    <3>1. el'[e] = y /\ tpc'[e] = "exit"
      BY <2>4, StepFacts DEF OnCmdDestroy
    <3>2. y \in Element
      BY <1>1 DEF Element, Bit
    <3>3. QED
      BY <1>1, <2>4, <3>1, <3>2 DEF Moved, OnCmdDestroy, Effect, Sound, Element,
         Tpc, Loop, AtRest, Handlers
  <2>5. QED
    BY <2>1, <2>2, <2>3, <2>4 DEF Receive
<1>5. QED
  BY <1>1, <1>2, <1>3, <1>4 DEF Served

LEMMA TaskMoves ==
  ASSUME TypeOK, NEW e \in El, Sound(el[e], tpc[e]), Task(e)
  PROVE  Moved(e) /\ Served(e)
<1> DEFINE x == el[e]
<1>0. x \in Element
  BY DEF TypeOK
<1>1. CASE Start(e)
  <2> DEFINE y == [x EXCEPT !.task_run = TRUE, !.bits = @ \cup {"CREATED"}]
  <2>1. Step(e, "init", y) /\ UNCHANGED cmds
    BY <1>1 DEF Start
  <2>2. el'[e] = y /\ tpc'[e] = "init"
    BY <2>1, StepFacts
  <2>3. y \in Element
    BY <1>0 DEF Element, State, Bit
  <2>4. Moved(e)
    BY <1>0, <1>1, <2>1, <2>2, <2>3 DEF Moved, Start, Effect, Sound, Element, Tpc,
       Loop, AtRest, Handlers
  <2>5. QED
    BY <1>1, <2>1, <2>2, <2>4, UnqueuedServed DEF Start
<1>2. CASE Begin(e)
  <2> DEFINE y == [x EXCEPT !.state = "INIT", !.poll = FALSE,
                                   !.bits = @ \ {"STOPPED"}]
  <2>1. Step(e, "loop", y) /\ UNCHANGED cmds
    BY <1>2 DEF Begin
  <2>2. el'[e] = y /\ tpc'[e] = "loop"
    BY <2>1, StepFacts
  <2>3. y \in Element
    BY <1>0 DEF Element, State, Bit
  <2>4. Moved(e)
    BY <1>0, <1>2, <2>1, <2>2, <2>3 DEF Moved, Begin, Effect, Sound, Element, Tpc,
       Loop, AtRest, Handlers
  <2>5. QED
    BY <1>2, <2>1, <2>2, <2>4, UnqueuedServed DEF Begin
<1>3. CASE NoBuffer(e)
  <2> DEFINE y == [x EXCEPT !.state = "INIT", !.poll = FALSE,
                           !.task_run = FALSE, !.bits = @ \ {"STOPPED"}]
  <2>1. Step(e, "exit", y) /\ UNCHANGED cmds
    BY <1>3 DEF NoBuffer
  <2>2. el'[e] = y /\ tpc'[e] = "exit"
    BY <2>1, StepFacts
  <2>3. y \in Element
    BY <1>0 DEF Element, State, Bit
  <2>4. Moved(e)
    BY <1>0, <1>3, <2>1, <2>2, <2>3 DEF Moved, NoBuffer, Effect, Sound, Element, Tpc,
       Loop, AtRest, Handlers
  <2>5. QED
    BY <1>3, <2>1, <2>2, <2>4, UnqueuedServed DEF NoBuffer
<1>4. CASE Run(e)
  <2> DEFINE y == x
  <2>1. Step(e, IF Runs(e) THEN "read" ELSE "loop", y) /\ UNCHANGED cmds
    BY <1>4 DEF Run
  <2>2. el'[e] = y /\ tpc'[e] = IF Runs(e) THEN "read" ELSE "loop"
    BY <2>1, StepFacts
  <2>3. y \in Element
    BY <1>0 DEF Element, State, Bit
  <2>4. Moved(e)
    BY <1>0, <1>4, <2>1, <2>2, <2>3 DEF Moved, Run, Runs, Effect, Sound, Element, Tpc,
       Loop, AtRest, Handlers
  <2>5. QED
    BY <1>4, <2>1, <2>2, <2>4, UnqueuedServed DEF Run
<1>5. CASE Stopped(e)
  <2> DEFINE y == [Halt(e) EXCEPT !.stopping = FALSE]
  <2>1. Step(e, "loop", y) /\ UNCHANGED cmds
    BY <1>5 DEF Stopped
  <2>2. el'[e] = y /\ tpc'[e] = "loop"
    BY <2>1, StepFacts
  <2>3. y \in Element
    BY <1>0 DEF Halt, Element, State, Bit
  <2>4. Moved(e)
    BY <1>0, <1>5, <2>1, <2>2, <2>3 DEF Moved, Stopped, Halt, Effect, Sound, Element, Tpc,
       Loop, AtRest, Handlers
  <2>5. QED
    BY <1>5, <2>1, <2>2, <2>4, UnqueuedServed DEF Stopped
<1>6. CASE Ended(e)
  <2> DEFINE y == Halt(e)
  <2>1. Step(e, "loop", y) /\ UNCHANGED cmds
    BY <1>6 DEF Ended
  <2>2. el'[e] = y /\ tpc'[e] = "loop"
    BY <2>1, StepFacts
  <2>3. y \in Element
    BY <1>0 DEF Halt, Element, State, Bit
  <2>4. Moved(e)
    BY <1>0, <1>6, <2>1, <2>2, <2>3 DEF Moved, Ended, Halt, Effect, Sound, Element, Tpc,
       Loop, AtRest, Handlers
  <2>5. QED
    BY <1>6, <2>1, <2>2, <2>4, UnqueuedServed DEF Ended
<1>7. CASE Paused(e)
  <2> DEFINE y == [x EXCEPT !.is_running = FALSE, !.bits = @ \cup {"PAUSED"}]
  <2>1. Step(e, "loop", y) /\ UNCHANGED cmds
    BY <1>7 DEF Paused
  <2>2. el'[e] = y /\ tpc'[e] = "loop"
    BY <2>1, StepFacts
  <2>3. y \in Element
    BY <1>0 DEF Element, State, Bit
  <2>4. Moved(e)
    BY <1>0, <1>7, <2>1, <2>2, <2>3 DEF Moved, Paused, Effect, Sound, Element, Tpc,
       Loop, AtRest, Handlers
  <2>5. QED
    BY <1>7, <2>1, <2>2, <2>4, UnqueuedServed DEF Paused
<1>8. CASE Refused(e)
  <2> DEFINE y == [x EXCEPT !.is_running = FALSE, !.by_cmd = FALSE,
                           !.bits = IF x.by_cmd THEN @ \cup {"STOPPED"} ELSE @]
  <2>1. Step(e, "loop", y) /\ UNCHANGED cmds
    BY <1>8 DEF Refused
  <2>2. el'[e] = y /\ tpc'[e] = "loop"
    BY <2>1, StepFacts
  <2>3. y \in Element
    BY <1>0 DEF Element, State, Bit
  <2>4. Moved(e)
    BY <1>0, <1>8, <2>1, <2>2, <2>3 DEF Moved, Refused, Effect, Sound, Element, Tpc,
       Loop, AtRest, Handlers
  <2>5. QED
    BY <1>8, <2>1, <2>2, <2>4, UnqueuedServed DEF Refused
<1>9. CASE Open(e)
  <2> DEFINE y == [x EXCEPT !.is_open = TRUE, !.state = "INITIALIZING"]
  <2>1. Step(e, "open", y) /\ UNCHANGED cmds
    BY <1>9 DEF Open
  <2>2. el'[e] = y /\ tpc'[e] = "open"
    BY <2>1, StepFacts
  <2>3. y \in Element
    BY <1>0 DEF Element, State, Bit
  <2>4. Moved(e)
    BY <1>0, <1>9, <2>1, <2>2, <2>3 DEF Moved, Open, Effect, Sound, Element, Tpc,
       Loop, AtRest, Handlers
  <2>5. QED
    BY <1>9, <2>1, <2>2, <2>4, UnqueuedServed DEF Open
<1>10. CASE Opened(e)
  <2> DEFINE y == [x EXCEPT !.state = "RUNNING", !.poll = TRUE, !.by_cmd = FALSE,
                           !.bits = @ \ {"STOPPED"}]
  <2>1. Step(e, IF x.by_cmd THEN "run" ELSE "loop", y) /\ UNCHANGED cmds
    BY <1>10 DEF Opened
  <2>2. el'[e] = y /\ tpc'[e] = IF x.by_cmd THEN "run" ELSE "loop"
    BY <2>1, StepFacts
  <2>3. y \in Element
    BY <1>0 DEF Element, State, Bit
  <2>4. Moved(e)
    BY <1>0, <1>10, <2>1, <2>2, <2>3 DEF Moved, Opened, Effect, Sound, Element, Tpc,
       Loop, AtRest, Handlers
  <2>5. QED
    BY <1>10, <2>1, <2>2, <2>4, UnqueuedServed DEF Opened
<1>11. CASE OpenAborted(e)
  <2> DEFINE y == [Closed(e, "STOPPED") EXCEPT !.is_running = FALSE,
                    !.stopping = FALSE, !.bits = @ \cup {"STOPPED"}]
  <2>1. Step(e, "refused", y) /\ UNCHANGED cmds
    BY <1>11 DEF OpenAborted
  <2>2. el'[e] = y /\ tpc'[e] = "refused"
    BY <2>1, StepFacts
  <2>3. y \in Element
    BY <1>0 DEF Closed, Element, State, Bit
  <2>4. Moved(e)
    BY <1>0, <1>11, <2>1, <2>2, <2>3 DEF Moved, OpenAborted, Closed, Effect, Sound, Element, Tpc,
       Loop, AtRest, Handlers
  <2>5. QED
    BY <1>11, <2>1, <2>2, <2>4, UnqueuedServed DEF OpenAborted
<1>12. CASE OpenFailed(e)
  <2> DEFINE y == [Closed(e, "ERROR") EXCEPT !.is_running = FALSE,
                                          !.bits = @ \cup {"STOPPED"}]
  <2>1. Step(e, "refused", y) /\ UNCHANGED cmds
    BY <1>12 DEF OpenFailed
  <2>2. el'[e] = y /\ tpc'[e] = "refused"
    BY <2>1, StepFacts
  <2>3. y \in Element
    BY <1>0 DEF Closed, Element, State, Bit
  <2>4. Moved(e)
    BY <1>0, <1>12, <2>1, <2>2, <2>3 DEF Moved, OpenFailed, Closed, Effect, Sound, Element, Tpc,
       Loop, AtRest, Handlers
  <2>5. QED
    BY <1>12, <2>1, <2>2, <2>4, UnqueuedServed DEF OpenFailed
<1>13. CASE Read(e)
  <2> DEFINE y == x
  <2>1. Step(e, "write", y) /\ UNCHANGED cmds
    BY <1>13 DEF Read
  <2>2. el'[e] = y /\ tpc'[e] = "write"
    BY <2>1, StepFacts
  <2>3. y \in Element
    BY <1>0 DEF Element, State, Bit
  <2>4. Moved(e)
    BY <1>0, <1>13, <2>1, <2>2, <2>3 DEF Moved, Read, Effect, Sound, Element, Tpc,
       Loop, AtRest, Handlers
  <2>5. QED
    BY <1>13, <2>1, <2>2, <2>4, UnqueuedServed DEF Read
<1>14. CASE Write(e)
  <2> DEFINE y == x
  <2>1. Step(e, "loop", y) /\ UNCHANGED cmds
    BY <1>14 DEF Write
  <2>2. el'[e] = y /\ tpc'[e] = "loop"
    BY <2>1, StepFacts
  <2>3. y \in Element
    BY <1>0 DEF Element, State, Bit
  <2>4. Moved(e)
    BY <1>0, <1>14, <2>1, <2>2, <2>3 DEF Moved, Write, Effect, Sound, Element, Tpc,
       Loop, AtRest, Handlers
  <2>5. QED
    BY <1>14, <2>1, <2>2, <2>4, UnqueuedServed DEF Write
<1>15. CASE Exit(e)
  <2> DEFINE y == [x EXCEPT !.state = IF x.is_open THEN "STOPPED" ELSE @,
                    !.is_open = FALSE, !.stopping = FALSE, !.task_run = FALSE]
  <2>1. Step(e, "left", y) /\ UNCHANGED cmds
    BY <1>15 DEF Exit
  <2>2. el'[e] = y /\ tpc'[e] = "left"
    BY <2>1, StepFacts
  <2>3. y \in Element
    BY <1>0 DEF Element, State, Bit
  <2>4. Moved(e)
    BY <1>0, <1>15, <2>1, <2>2, <2>3 DEF Moved, Exit, Effect, Sound, Element, Tpc,
       Loop, AtRest, Handlers
  <2>5. QED
    BY <1>15, <2>1, <2>2, <2>4, UnqueuedServed DEF Exit
<1>16. CASE Left(e)
  <2> DEFINE y == [x EXCEPT !.bits = @ \cup {"STOPPED", "RESUMED", "DESTROYED"}]
  <2>1. Step(e, "tail", y) /\ UNCHANGED cmds
    BY <1>16 DEF Left
  <2>2. el'[e] = y /\ tpc'[e] = "tail"
    BY <2>1, StepFacts
  <2>3. y \in Element
    BY <1>0 DEF Element, State, Bit
  <2>4. Moved(e)
    BY <1>0, <1>16, <2>1, <2>2, <2>3 DEF Moved, Left, Effect, Sound, Element, Tpc,
       Loop, AtRest, Handlers
  <2>5. QED
    BY <1>16, <2>1, <2>2, <2>4, UnqueuedServed DEF Left
<1>17. CASE Gone(e)
  <2> DEFINE y == x
  <2>1. Step(e, "none", y) /\ UNCHANGED cmds
    BY <1>17 DEF Gone
  <2>2. el'[e] = y /\ tpc'[e] = "none"
    BY <2>1, StepFacts
  <2>3. y \in Element
    BY <1>0 DEF Element, State, Bit
  <2>4. Moved(e)
    BY <1>0, <1>17, <2>1, <2>2, <2>3 DEF Moved, Gone, Effect, Sound, Element, Tpc,
       Loop, AtRest, Handlers
  <2>5. QED
    BY <1>17, <2>1, <2>2, <2>4, UnqueuedServed DEF Gone
<1>18. CASE Receive(e)
  BY <1>18, ReceiveMoves
<1>19. CASE Done(e)
  <2>1. tpc[e] \in {"read", "write"} /\ UNCHANGED cmds
    BY <1>19 DEF Done, Stuck, AtEnd
  <2>2. CASE x.state = "INIT" /\ OnCmdResume(e, FALSE)
    BY <2>1, <2>2, ResumeEffect, UnqueuedServed DEF Moved
  <2>3. CASE OnCmdFinish(e)
    BY <2>1, <2>3, FinishEffect, UnqueuedServed DEF Moved
  <2>4. QED
    BY <1>19, <2>2, <2>3 DEF Done
<1>20. CASE Abort(e)
  <2>1. tpc[e] \in {"read", "write"} /\ UNCHANGED cmds /\ OnCmdStop(e)
    BY <1>20 DEF Abort, Stuck
  <2>2. QED
    BY <2>1, StopEffect, UnqueuedServed DEF Moved, Loop
<1>21. CASE Fail(e)
  <2>1. tpc[e] \in {"read", "write"} /\ UNCHANGED cmds /\ OnCmdError(e)
    BY <1>21 DEF Fail, AtEnd
  <2>2. QED
    BY <2>1, ErrorEffect, UnqueuedServed DEF Moved
<1>22. QED
  BY <1>1, <1>2, <1>3, <1>4, <1>5, <1>6, <1>7, <1>8, <1>9, <1>10, <1>11, <1>12, <1>13, <1>14, <1>15, <1>16, <1>17, <1>18, <1>19, <1>20, <1>21 DEF Task

LEMMA RingFacts ==
  ASSUME TypeOK, NEW R
  PROVE  /\ ResetRings(R) => rb' \in [Rb -> Ring]
         /\ AbortRings(R) => rb' \in [Rb -> Ring]
         /\ DoneRings(R) => rb' \in [Rb -> Ring]
<1>1. EmptyRing \in Ring
  BY ElementAssumption DEF EmptyRing, Ring
<1>2. ASSUME NEW r \in Rb, NEW b \in BOOLEAN
      PROVE  [rb[r] EXCEPT !.abort = b] \in Ring /\ [rb[r] EXCEPT !.done = b] \in Ring
  BY DEF TypeOK, Ring
<1>3. ASSUME ResetRings(R) PROVE rb' \in [Rb -> Ring]
  BY <1>1, <1>3 DEF ResetRings, TypeOK
<1>4. ASSUME AbortRings(R) PROVE rb' \in [Rb -> Ring]
  <2>1. \A r \in Rb : (rb[r].abort \/ r \in R) \in BOOLEAN
    OBVIOUS
  <2>2. QED
    BY <1>2, <1>4, <2>1 DEF AbortRings
<1>5. ASSUME DoneRings(R) PROVE rb' \in [Rb -> Ring]
  <2>1. \A r \in Rb : (rb[r].done \/ r \in R) \in BOOLEAN
    OBVIOUS
  <2>2. QED
    BY <1>2, <1>5, <2>1 DEF DoneRings
<1>6. QED
  BY <1>3, <1>4, <1>5

LEMMA TaskRings ==
  ASSUME TypeOK, NEW e \in El, Task(e)
  PROVE  rb' \in [Rb -> Ring]
<1>0. rb \in [Rb -> Ring]
  BY DEF TypeOK
<1>1. CASE UNCHANGED rb
  BY <1>0, <1>1
<1>2. CASE \E R : ResetRings(R) \/ AbortRings(R) \/ DoneRings(R)
  BY <1>2, RingFacts
<1>3. CASE e > 1 /\ Data(e - 1) /\ rb' = [rb EXCEPT ![e - 1].fill = @ - 1]
  <2>1. e - 1 \in Rb /\ rb[e - 1] \in Ring /\ rb[e - 1].fill \in 1..RbSize
    BY <1>0, <1>3, ElementAssumption DEF El, Rb, Data, Ring
  <2>2. [rb[e - 1] EXCEPT !.fill = @ - 1] \in Ring
    BY <2>1, ElementAssumption DEF Ring
  <2>3. QED
    BY <1>0, <1>3, <2>1, <2>2
<1>4. CASE e < N /\ Space(e) /\ rb' = [rb EXCEPT ![e].fill = @ + 1]
  <2>1. e \in Rb /\ rb[e] \in Ring /\ rb[e].fill \in 0..(RbSize - 1)
    BY <1>0, <1>4, ElementAssumption DEF El, Rb, Space, Ring
  <2>2. [rb[e] EXCEPT !.fill = @ + 1] \in Ring
    BY <2>1, ElementAssumption DEF Ring
  <2>3. QED
    BY <1>0, <1>4, <2>1, <2>2
<1>5. CASE Receive(e)
  BY <1>1, <1>2, <1>5 DEF Receive
<1>6. CASE Read(e) \/ Write(e)
  BY <1>1, <1>3, <1>4, <1>6 DEF Read, Write
<1>7. CASE Refused(e) \/ Done(e)
  BY <1>1, <1>2, <1>7 DEF Refused, Done
<1>8. CASE Abort(e) \/ Fail(e) \/ Run(e) \/ Stopped(e) \/ Ended(e) \/ Paused(e)
  BY <1>1, <1>8 DEF Abort, Fail, Run, Stopped, Ended, Paused
<1>9. CASE Open(e) \/ Opened(e) \/ OpenAborted(e) \/ OpenFailed(e)
  BY <1>1, <1>9 DEF Open, Opened, OpenAborted, OpenFailed
<1>10. CASE Start(e) \/ Begin(e) \/ NoBuffer(e) \/ Exit(e) \/ Left(e) \/ Gone(e)
  BY <1>1, <1>10 DEF Start, Begin, NoBuffer, Exit, Left, Gone
<1>11. QED
  BY <1>5, <1>6, <1>7, <1>8, <1>9, <1>10 DEF Task
-----------------------------------------------------------------------------
(***************************************************************************)
(* The steps of the application                                             *)
(***************************************************************************)
(* The part of the state that only the application writes.                 *)
AppTypes == /\ call \in DOMAIN First /\ apc \in Apc /\ cur \in El /\ ok \in BOOLEAN
            /\ pstate \in {"INIT", "RUNNING", "ERROR"} /\ linked \in BOOLEAN
            /\ freed \in SUBSET El

LEMMA FirstFacts ==
  /\ DOMAIN First = {"run", "start", "undo", "resume", "pause", "stop", "wait",
                     "terminate", "deinit", "destroy", "none"}
  /\ DOMAIN Points = DOMAIN First
  /\ \A c \in DOMAIN First : First[c] \in Apc /\ First[c] \in Points[c]
  /\ 1 \in El
  BY ElementAssumption DEF First, Points, Apc, El

LEMMA EnterTypes ==
  ASSUME NEW c \in DOMAIN First, Enter(c)
  PROVE  call' \in DOMAIN First /\ apc' \in Apc /\ cur' \in El
  BY FirstFacts DEF Enter

LEMMA ReturnTypes ==
  ASSUME TypeOK, NEW good \in BOOLEAN, Return(good)
  PROVE  AppTypes'
<1>0. AppTypes
  BY DEF TypeOK, AppTypes
<1>1. ok' \in BOOLEAN /\ freed' \in SUBSET El
  BY <1>0 DEF Return, AppTypes
<1>2. CASE cur < N
  <2>1. cur + 1 \in El
    BY <1>0, <1>2, ElementAssumption DEF AppTypes, El
  <2>2. QED
    BY <1>0, <1>1, <1>2, <2>1, FirstFacts DEF Return, AppTypes
<1>3. CASE ~(cur < N)
  <2> DEFINE g == ok /\ good
  <2>1. Finish(call, g)
    BY <1>3 DEF Return
  <2>2. CASE \E c \in {"start", "wait", "undo", "destroy"} : Enter(c)
    <3>1. call' \in DOMAIN First /\ apc' \in Apc /\ cur' \in El
      BY <2>2, EnterTypes, FirstFacts
    <3>2. pstate' \in {"INIT", "RUNNING", "ERROR"} /\ linked' \in BOOLEAN
      BY <1>0, <2>1 DEF Finish, AppTypes
    <3>3. QED
      BY <1>1, <3>1, <3>2 DEF AppTypes
  <2>3. CASE apc' = "idle" /\ UNCHANGED <<call, cur, linked>>
    <3>1. pstate' \in {"INIT", "RUNNING", "ERROR"}
      BY <1>0, <2>1 DEF Finish, AppTypes
    <3>2. QED
      BY <1>0, <1>1, <2>3, <3>1 DEF AppTypes, Apc
  <2>4. QED
    BY <2>1, <2>2, <2>3 DEF Finish
<1>4. QED
  BY <1>2, <1>3

(* What a step of the application leaves of an element whose task it does  *)
(* not create: x before, y after.                                          *)
Kept(x, y) ==
    /\ y \in Element
    /\ y.is_open = x.is_open /\ y.is_running = x.is_running
    /\ y.task_run = x.task_run
    /\ \/ y.state = x.state
       \/ y.state = "INIT" /\ apc = "reset"
       \/ y.state = "PAUSED" /\ x.state \notin Pausable
       \/ y.state = "ERROR" /\ ~x.task_run
    /\ "STOPPED" \in y.bits => "STOPPED" \in x.bits \/ ~x.is_running
    /\ "DESTROYED" \in y.bits => "DESTROYED" \in x.bits
Spared == \A e \in El : /\ tpc'[e] = tpc[e] /\ Kept(el[e], el'[e])
                        /\ e # cur => el'[e] = el[e]
ElTypes == el \in [El -> Element] /\ tpc \in [El -> Tpc] /\ rb \in [Rb -> Ring]

(* What it adds to the queues.                                             *)
Sent ==
    /\ cmds' \in [El -> Seq(Cmd)] /\ \A e \in El : Len(cmds'[e]) <= CmdMax
    /\ \A e \in El, c \in Cmd : Queued(e, c)' =>
         \/ Queued(e, c) \/ c \in {"STOP", "PAUSE"}
         \/ e = cur /\ apc = "resume" /\ c = "RESUME"
         \/ e = cur /\ apc = "term" /\ c = "DESTROY" /\ apc' = "gone"

LEMMA KeptSame == TypeOK => \A e \in El : Kept(el[e], el[e])
  BY DEF TypeOK, Kept

LEMMA SameSpared ==
  ASSUME TypeOK, UNCHANGED <<el, tpc>>
  PROVE  Spared /\ (rb' \in [Rb -> Ring] => ElTypes')
  BY KeptSame DEF TypeOK, Spared, ElTypes

LEMMA UpdSpared ==
  ASSUME TypeOK, NEW x, Upd(x), Kept(el[cur], x)
  PROVE  Spared /\ ElTypes'
<1>1. el \in [El -> Element] /\ tpc \in [El -> Tpc] /\ rb \in [Rb -> Ring] /\ cur \in El
  BY DEF TypeOK
<1>2. el' = [el EXCEPT ![cur] = x] /\ x \in Element /\ UNCHANGED <<tpc, rb>>
  BY DEF Upd, Kept
<1>3. ElTypes'
  BY <1>1, <1>2 DEF ElTypes
<1>4. ASSUME NEW e \in El
      PROVE  tpc'[e] = tpc[e] /\ Kept(el[e], el'[e]) /\ (e # cur => el'[e] = el[e])
  <2>1. CASE e = cur
    <3>1. el'[e] = x
      BY <1>1, <1>2, <2>1
    <3>2. QED
      BY <1>2, <2>1, <3>1
  <2>2. CASE e # cur
    <3>1. el'[e] = el[e]
      BY <1>1, <1>2, <2>2
    <3>2. QED
      BY <1>2, <2>2, <3>1, KeptSame
  <2>3. QED
    BY <2>1, <2>2
<1>5. QED
  BY <1>3, <1>4 DEF Spared

LEMMA SameSent ==
  ASSUME TypeOK, UNCHANGED cmds
  PROVE  Sent
  BY DEF TypeOK, Sent, Queued

LEMMA SendSent ==
  ASSUME TypeOK, NEW c \in Cmd, Send(c),
         \/ c \in {"STOP", "PAUSE"}
         \/ c = "RESUME" /\ apc = "resume"
         \/ c = "DESTROY" /\ apc = "term" /\ apc' = "gone"
  PROVE  Sent
<1>1. /\ cmds \in [El -> Seq(Cmd)] /\ cur \in El
      /\ \A e \in El : Len(cmds[e]) \in Nat /\ Len(cmds[e]) <= CmdMax
      /\ Len(cmds[cur]) # CmdMax
      /\ cmds' = [cmds EXCEPT ![cur] = Append(cmds[cur], c)]
  BY DEF TypeOK, Send, Full
<1>2. /\ cmds' \in [El -> Seq(Cmd)]
      /\ \A e \in El : cmds'[e] = IF e = cur THEN Append(cmds[e], c) ELSE cmds[e]
  BY <1>1
<1>3. \A e \in El : Len(cmds'[e]) <= CmdMax
  <2>1. Len(Append(cmds[cur], c)) = Len(cmds[cur]) + 1
    BY <1>1
  <2>2. QED
    BY <1>1, <1>2, <2>1, ElementAssumption
<1>4. ASSUME NEW e \in El, NEW d \in Cmd, Queued(e, d)'
      PROVE  Queued(e, d) \/ (e = cur /\ d = c)
  <2>1. CASE e = cur
    BY <1>1, <1>2, <1>4, <2>1, QueuedFacts DEF Queued
  <2>2. CASE e # cur
    BY <1>2, <1>4, <2>2 DEF Queued
  <2>3. QED
    BY <2>1, <2>2
<1>5. QED
  BY <1>2, <1>3, <1>4 DEF Sent

LEMMA ToTypes ==
  ASSUME TypeOK, NEW pc \in Apc, To(pc)
  PROVE  AppTypes'
  BY DEF TypeOK, To, AppTypes

LEMMA DiscardSent ==
  ASSUME TypeOK, cmds' = [cmds EXCEPT ![cur] = <<>>]
  PROVE  Sent /\ cmds'[cur] = <<>>
<1>1. /\ cmds' \in [El -> Seq(Cmd)] /\ cur \in El /\ cmds'[cur] = <<>>
      /\ \A e \in El : e # cur => cmds'[e] = cmds[e]
      /\ \A e \in El : Len(cmds[e]) <= CmdMax
  BY DEF TypeOK
<1>2. Len(<<>>) = 0 /\ DOMAIN <<>> = {}
  OBVIOUS
<1>3. QED
  BY <1>1, <1>2, ElementAssumption DEF Sent, Queued

(* The steps that leave the elements alone.                                *)
Silent ==
    \/ CreateNot \/ Created \/ ResumeNot \/ Resumed \/ PauseReturn \/ StopNot
    \/ Stop \/ WaitStop \/ TerminateNot \/ Terminated \/ WaitForStop \/ Free
    \/ ResetRingbuffer \/ \E c \in DOMAIN First : Call(c)

LEMMA SilentTypes ==
  ASSUME TypeOK, Silent
  PROVE  AppTypes' /\ rb' \in [Rb -> Ring] /\ UNCHANGED <<el, tpc, cmds>>
<1>0. AppTypes /\ rb \in [Rb -> Ring]
  BY DEF TypeOK, AppTypes
<1>1. CASE CreateNot \/ Created
  BY <1>0, <1>1, ReturnTypes DEF CreateNot, Created, elvars
<1>2. CASE ResumeNot
  <2>1. (el[cur].task_run /\ el[cur].state # "ERROR") \in BOOLEAN
    OBVIOUS
  <2>2. QED
    BY <1>0, <1>2, <2>1, ReturnTypes DEF ResumeNot, elvars
<1>3. CASE Resumed \/ PauseReturn
  <2>1. Set("RESUMED") \in BOOLEAN /\ Set("PAUSED") \in BOOLEAN
    BY DEF Set
  <2>2. QED
    BY <1>0, <1>3, <2>1, ReturnTypes DEF Resumed, PauseReturn, elvars
<1>4. CASE StopNot
  BY <1>0, <1>4, ReturnTypes, ToTypes DEF StopNot, StopReturn, elvars, Apc
<1>5. CASE Stop
  BY <1>0, <1>5, RingFacts, ToTypes DEF Stop, Apc
<1>6. CASE WaitStop \/ WaitForStop
  BY <1>0, <1>6, ToTypes DEF WaitStop, WaitForStop, elvars, Apc
<1>7. CASE TerminateNot \/ Terminated
  <2>1. Set("DESTROYED") \in BOOLEAN
    BY DEF Set
  <2>2. QED
    BY <1>0, <1>7, <2>1, ReturnTypes, ToTypes
       DEF TerminateNot, Terminated, TermReturn, elvars, Apc
<1>8. CASE Free
  <2>1. cur < N => cur + 1 \in El
    BY <1>0, ElementAssumption DEF AppTypes, El
  <2>2. QED
    BY <1>0, <1>8, <2>1, FirstFacts DEF Free, AppTypes, elvars, Apc
<1>9. CASE ResetRingbuffer
  BY <1>0, <1>9, RingFacts DEF ResetRingbuffer, AppTypes, appvars
<1>10. CASE \E c \in DOMAIN First : Call(c)
  BY <1>0, <1>10, EnterTypes DEF Call, AppTypes, elvars
<1>11. QED
  BY <1>1, <1>2, <1>3, <1>4, <1>5, <1>6, <1>7, <1>8, <1>9, <1>10 DEF Silent

(* The others change one element.                                          *)
LEMMA AppMoves ==
  ASSUME TypeOK, App \/ Silent
  PROVE  /\ AppTypes' /\ ElTypes' /\ Sent
         /\ Spared \/ Create
<1> DEFINE x == el[cur]
<1>0. x \in Element /\ cur \in El
  BY DEF TypeOK
<1>1. CASE Silent
  BY <1>1, SilentTypes, SameSpared, SameSent
<1>2. CASE Create
  <2>1. Uncreated(cur) \in Element
    BY <1>0 DEF Uncreated, Element, Bit
  <2>2. Step(cur, "start", Uncreated(cur)) /\ UNCHANGED rb
    BY <1>2 DEF Create
  <2>3. ElTypes'
    BY <1>0, <2>1, <2>2, StepFacts DEF ElTypes, TypeOK, Tpc
  <2>4. QED
    BY <1>2, <2>3, DiscardSent, ToTypes DEF Create, Apc
<1>3. CASE CreateFail
  <2> DEFINE y == [Uncreated(cur) EXCEPT !.state = "ERROR"]
  <2>1. y \in Element
    BY <1>0 DEF Uncreated, Element, State, Bit
  <2>2. Kept(x, y)
    BY <1>0, <1>3, <2>1 DEF CreateFail, MustCreate, Uncreated, Kept, Element
  <2>3. QED
    BY <1>3, <2>2, UpdSpared, DiscardSent, ReturnTypes DEF CreateFail
<1>4. CASE Resume
  <2> DEFINE y == [x EXCEPT !.bits = @ \ {"RESUMED"}]
  <2>1. y \in Element
    BY <1>0 DEF Element, Bit
  <2>2. Kept(x, y)
    BY <1>0, <2>1 DEF Kept, Element
  <2>3. Spared /\ ElTypes'
    BY <1>4, <2>2, UpdSpared DEF Resume
  <2>4. CASE Return(FALSE) /\ UNCHANGED cmds
    BY <2>3, <2>4, ReturnTypes, SameSent
  <2>5. CASE Send("RESUME") /\ To("resumed")
    BY <1>4, <2>3, <2>5, ToTypes, SendSent DEF Resume, Cmd, Apc
  <2>6. QED
    BY <1>4, <2>4, <2>5 DEF Resume
<1>5. CASE PauseNot
  <2> DEFINE y == [x EXCEPT !.state = IF x.task_run THEN "PAUSED" ELSE @]
  <2>1. y \in Element
    BY <1>0 DEF Element, State
  <2>2. Kept(x, y)
    BY <1>0, <1>5, <2>1 DEF PauseNot, Kept, Element
  <2>3. x.task_run \in BOOLEAN
    BY <1>0 DEF Element
  <2>4. QED
    BY <1>5, <2>2, <2>3, UpdSpared, SameSent, ReturnTypes DEF PauseNot
<1>6. CASE Pause
  <2> DEFINE y == [x EXCEPT !.bits = @ \ {"PAUSED"}]
  <2>1. y \in Element
    BY <1>0 DEF Element, Bit
  <2>2. Kept(x, y)
    BY <1>0, <2>1 DEF Kept, Element
  <2>3. Spared /\ ElTypes'
    BY <1>6, <2>2, UpdSpared DEF Pause
  <2>4. CASE Return(FALSE) /\ UNCHANGED cmds
    BY <2>3, <2>4, ReturnTypes, SameSent
  <2>5. CASE Send("PAUSE") /\ To("paused")
    BY <1>6, <2>3, <2>5, ToTypes, SendSent DEF Cmd, Apc
  <2>6. QED
    BY <1>6, <2>4, <2>5 DEF Pause
<1>7. CASE StopAtRest
  <2> DEFINE y == [x EXCEPT !.bits = @ \cup {"STOPPED"}]
  <2>1. y \in Element
    BY <1>0 DEF Element, Bit
  <2>2. Kept(x, y)
    BY <1>0, <1>7, <2>1 DEF StopAtRest, Kept, Element
  <2>3. QED
    BY <1>7, <2>2, UpdSpared, SameSent, ReturnTypes, ToTypes
       DEF StopAtRest, StopReturn, Apc
<1>8. CASE ClearStopped
  <2> DEFINE y == [x EXCEPT !.bits = @ \ {"STOPPED"}]
  <2>1. y \in Element
    BY <1>0 DEF Element, Bit
  <2>2. Kept(x, y)
    BY <1>0, <2>1 DEF Kept, Element
  <2>3. QED
    BY <1>8, <2>2, UpdSpared, SameSent, ToTypes DEF ClearStopped, Apc
<1>9. CASE SendStop
  <2> DEFINE sends == ~x.stopping /\ ~Full
             y == [x EXCEPT !.poll = @ \/ x.state = "PAUSED",
                            !.stopping = @ \/ sends]
  <2>1. y \in Element
    BY <1>0 DEF Element
  <2>2. Kept(x, y)
    BY <1>0, <2>1 DEF Kept, Element
  <2>3. Spared /\ ElTypes' /\ AppTypes'
    BY <1>9, <2>2, UpdSpared, ReturnTypes, ToTypes DEF SendStop, StopReturn, Apc
  <2>4. Sent
    BY <1>9, SameSent, SendSent DEF SendStop, Cmd
  <2>5. QED
    BY <2>3, <2>4
<1>10. CASE ResetState
  <2> DEFINE y == [x EXCEPT !.state = "INIT"]
  <2>1. y \in Element
    BY <1>0 DEF Element, State
  <2>2. Kept(x, y)
    BY <1>0, <1>10, <2>1 DEF ResetState, Kept, Element
  <2>3. QED
    BY <1>10, <2>2, UpdSpared, SameSent, ReturnTypes DEF ResetState
<1>11. CASE Terminate
  <2> DEFINE y == [x EXCEPT !.bits = @ \ {"DESTROYED"}]
  <2>1. y \in Element
    BY <1>0 DEF Element, Bit
  <2>2. Kept(x, y)
    BY <1>0, <2>1 DEF Kept, Element
  <2>3. Spared /\ ElTypes'
    BY <1>11, <2>2, UpdSpared DEF Terminate
  <2>4. CASE TermReturn(FALSE) /\ UNCHANGED cmds
    BY <2>3, <2>4, ReturnTypes, ToTypes, SameSent DEF TermReturn, Apc
  <2>5. CASE Send("DESTROY") /\ To("gone")
    BY <1>11, <2>3, <2>5, ToTypes, SendSent DEF Terminate, To, Cmd, Apc
  <2>6. QED
    BY <1>11, <2>4, <2>5 DEF Terminate
<1>12. QED
  BY <1>1, <1>2, <1>3, <1>4, <1>5, <1>6, <1>7, <1>8, <1>9, <1>10, <1>11
     DEF App, Silent, Terminating

(* Only a terminate writes gave_up, and only for its element.              *)
GaveUp == UNCHANGED gave_up \/ Terminating

LEMMA GaveUpTypes ==
  ASSUME TypeOK, GaveUp
  PROVE  /\ gave_up' \in SUBSET El
         /\ \A e \in El \ {cur} : e \in gave_up => e \in gave_up'
<1>1. gave_up \in SUBSET El /\ cur \in El
  BY DEF TypeOK
<1>2. ASSUME NEW good, TermReturn(good)
      PROVE  /\ gave_up' \in SUBSET El
             /\ \A e \in El \ {cur} : e \in gave_up => e \in gave_up'
  BY <1>1, <1>2 DEF TermReturn
<1>3. QED
  BY <1>1, <1>2 DEF GaveUp, Terminating, TerminateNot, Terminate, Terminated
-----------------------------------------------------------------------------
(***************************************************************************)
(* The invariants of an element, whatever the application calls             *)
(***************************************************************************)
LEMMA NextSplit ==
  ASSUME [Next]_vars
  PROVE  \/ (App \/ Silent) /\ GaveUp
         \/ \E e \in El : Task(e) /\ UNCHANGED appvars
         \/ UNCHANGED vars
  BY DEF Next, App, Silent, Tasks, GaveUp, Call, ResetRingbuffer, appvars

(* A task's step on its own element, and that the others are left alone.   *)
LEMMA TaskAlone ==
  ASSUME TypeOK, LocalInv, NEW e \in El, Task(e)
  PROVE  /\ Effect(el[e], tpc[e], el'[e], tpc'[e]) /\ Served(e) /\ ElTypes'
         /\ \A f \in El \ {e} : el'[f] = el[f] /\ tpc'[f] = tpc[f]
<1>1. Moved(e) /\ Served(e)
  BY TaskMoves DEF LocalInv
<1>2. Step(e, tpc'[e], el'[e]) /\ Effect(el[e], tpc[e], el'[e], tpc'[e])
  BY <1>1 DEF Moved
<1>3. el'[e] \in Element /\ tpc'[e] \in Tpc
  BY <1>2 DEF Effect
<1>4. QED
  BY <1>1, <1>2, <1>3, StepFacts, TaskRings DEF ElTypes

LEMMA KeptSound ==
  ASSUME NEW x \in Element, NEW y, NEW pc, Sound(x, pc), Kept(x, y)
  PROVE  Sound(y, pc)
  BY DEF Sound, Kept, Pausable, AtRest, Loop, Handlers

LEMMA CreatedSound ==
  ASSUME TypeOK, LocalInv, Create
  PROVE  /\ el'[cur] = Uncreated(cur) /\ tpc'[cur] = "start"
         /\ Sound(el'[cur], tpc'[cur])
         /\ \A f \in El \ {cur} : el'[f] = el[f] /\ tpc'[f] = tpc[f]
<1>1. cur \in El /\ el[cur] \in Element /\ ~el[cur].task_run
  BY DEF TypeOK, Create, MustCreate
<1>2. /\ el'[cur] = Uncreated(cur) /\ tpc'[cur] = "start"
      /\ \A f \in El \ {cur} : el'[f] = el[f] /\ tpc'[f] = tpc[f]
  BY <1>1, StepFacts DEF Create
<1>3. ~el[cur].is_open /\ ~el[cur].is_running
  BY <1>1 DEF LocalInv, Sound, AtRest
<1>4. QED
  BY <1>1, <1>2, <1>3 DEF Uncreated, Element, Sound, AtRest, Loop, Handlers

LEMMA LocalStart == Init => TypeOK /\ LocalInv
<1> SUFFICES ASSUME Init PROVE TypeOK /\ LocalInv
  OBVIOUS
<1>1. NewElement \in Element /\ EmptyRing \in Ring
  BY ElementAssumption
     DEF NewElement, Element, State, Bit, EmptyRing, Ring
<1>2. Len(<<>>) = 0 /\ <<>> \in Seq(Cmd)
  OBVIOUS
<1>3. TypeOK
  BY <1>1, <1>2, FirstFacts, ElementAssumption DEF Init, ElInit, TypeOK, Tpc, Apc
<1>4. \A e \in El : el[e] = NewElement /\ tpc[e] = "none"
  BY DEF Init, ElInit
<1>5. QED
  BY <1>3, <1>4 DEF LocalInv, Sound, NewElement, AtRest, Loop, Handlers

LEMMA LocalStep == TypeOK /\ LocalInv /\ [Next]_vars => TypeOK' /\ LocalInv'
<1> SUFFICES ASSUME TypeOK, LocalInv, [Next]_vars
             PROVE  TypeOK' /\ LocalInv'
  OBVIOUS
<1>1. CASE (App \/ Silent) /\ GaveUp
  <2>1. /\ AppTypes' /\ ElTypes' /\ Sent
        /\ Spared \/ Create
    BY <1>1, AppMoves
  <2>2. TypeOK'
    BY <1>1, <2>1, GaveUpTypes DEF TypeOK, AppTypes, ElTypes, Sent
  <2>3. CASE Spared
    <3>1. ASSUME NEW e \in El PROVE Sound(el'[e], tpc'[e])
      <4>1. el[e] \in Element /\ Sound(el[e], tpc[e])
        BY DEF LocalInv, TypeOK
      <4>2. tpc'[e] = tpc[e] /\ Kept(el[e], el'[e])
        BY <2>3 DEF Spared
      <4>3. Sound(el'[e], tpc[e])
        BY <4>1, <4>2, KeptSound
      <4>4. QED
        BY <4>2, <4>3
    <3>2. QED
      BY <2>2, <3>1 DEF LocalInv
  <2>4. CASE Create
    <3>1. ASSUME NEW e \in El PROVE Sound(el'[e], tpc'[e])
      <4>1. CASE e = cur
        BY <2>4, <4>1, CreatedSound
      <4>2. CASE e # cur
        <5>1. el'[e] = el[e] /\ tpc'[e] = tpc[e]
          BY <2>4, <4>2, CreatedSound
        <5>2. QED
          BY <5>1 DEF LocalInv
      <4>3. QED
        BY <4>1, <4>2
    <3>2. QED
      BY <2>2, <3>1 DEF LocalInv
  <2>5. QED
    BY <2>1, <2>2, <2>3, <2>4
<1>2. CASE \E e \in El : Task(e) /\ UNCHANGED appvars
  <2>1. PICK e \in El : Task(e) /\ UNCHANGED appvars
    BY <1>2
  <2>2. /\ Effect(el[e], tpc[e], el'[e], tpc'[e]) /\ Served(e) /\ ElTypes'
        /\ \A f \in El \ {e} : el'[f] = el[f] /\ tpc'[f] = tpc[f]
    BY <2>1, TaskAlone
  <2>3. \A f \in El : Len(cmds'[f]) <= CmdMax
    BY <2>2 DEF Served, TypeOK
  <2>4. TypeOK'
    BY <2>1, <2>2, <2>3 DEF TypeOK, ElTypes, Served, appvars
  <2>5. LocalInv'
    BY <2>2 DEF LocalInv, Effect
  <2>6. QED
    BY <2>4, <2>5
<1>3. CASE UNCHANGED vars
  BY <1>3 DEF vars, elvars, appvars, TypeOK, LocalInv
<1>4. QED
  BY <1>1, <1>2, <1>3, NextSplit

(* The elements keep their invariant through every call, time-out, failed  *)
(* open() and restart.                                                      *)
THEOREM ElementInvariance == Spec => [](TypeOK /\ LocalInv)
<1>1. QED
  BY LocalStart, LocalStep, PTL DEF Spec

(* Every variable of the pipeline keeps its type; no queue and no ring     *)
(* buffer overflows.                                                        *)
THEOREM TypeCorrect == Spec => []TypeOK
<1>1. QED
  BY ElementInvariance, PTL

(* An element never processes data with the bit set that a stop is waited  *)
(* for on.                                                                  *)
THEOREM StaleStopCleared == Spec => []NoStaleStop
<1>1. LocalInv => NoStaleStop
  BY DEF LocalInv, Sound, NoStaleStop, Processing, Loop
<1>2. QED
  BY <1>1, ElementInvariance, PTL
-----------------------------------------------------------------------------
(***************************************************************************)
(* The calls of the application, whatever it calls                          *)
(***************************************************************************)
LEMMA CallFacts ==
  ASSUME TypeOK, CallInv
  PROVE  /\ apc \in {"create", "created"} => call = "run"
         /\ apc \in {"resume", "resumed"} => call \in {"start", "resume"}
         /\ apc \in {"pause", "paused"} => call = "pause"
         /\ apc \in {"clear", "send", "stop"} => call \in {"stop", "destroy"}
         /\ apc \in {"wait", "reset"} => call = "wait"
         /\ apc \in {"term", "gone"} => call \in {"undo", "terminate", "deinit", "destroy"}
         /\ apc \in {"ewait", "free", "end"} => call = "destroy"
         /\ pstate = "ERROR" => call \in {"undo", "terminate", "deinit", "destroy"}
         /\ call = "none" => apc = "idle"
<1>1. call \in DOMAIN First /\ apc \in Points[call]
  BY DEF TypeOK, CallInv
<1>2. QED
  BY <1>1, FirstFacts DEF Points, CallInv

(* The ways in which a step of the application moves it.                   *)
Stay == /\ UNCHANGED <<call, cur, ok, pstate, linked, freed>>
        /\ apc \notin {"idle", "gone"} /\ apc' \in Points[call]
        /\ apc' \notin {"idle", "resume", "pause"}
        /\ apc' = "reset" => apc = "wait" /\ Set("STOPPED")
        /\ apc' = "gone" => "DESTROYED" \notin el'[cur].bits
        /\ apc' = "resumed" => "RESUMED" \notin el'[cur].bits
Back == /\ \E good \in BOOLEAN : Return(good)
        /\ apc \notin {"idle", "end", "wait"}
Leaves == /\ \/ UNCHANGED <<call, cur>>
             \/ UNCHANGED call /\ cur' = cur + 1
          /\ call = "destroy" /\ UNCHANGED <<pstate, linked>>
          /\ apc' \in {"free", "stop", "end"}

LEMMA AppControl ==
  ASSUME TypeOK, CallInv, App \/ Silent
  PROVE  \/ Stay \/ Back \/ Leaves
         \/ \E c \in DOMAIN First : Call(c)
         \/ ResetRingbuffer /\ UNCHANGED appvars
<1>0. call \in DOMAIN First /\ cur \in El /\ el[cur] \in Element
  BY DEF TypeOK
<1> USE CallFacts
<1>1. CASE Create \/ CreateNot \/ CreateFail \/ Created
  <2>1. CASE apc = "create" /\ To("created")
    BY <1>0, <2>1 DEF Stay, To, Points
  <2>2. QED
    BY <1>1, <2>1 DEF Create, CreateNot, CreateFail, Created, Back
<1>2. CASE Resume \/ ResumeNot \/ Resumed
  <2>1. /\ (el[cur].task_run /\ el[cur].state # "ERROR") \in BOOLEAN
        /\ Set("RESUMED") \in BOOLEAN
    BY DEF Set
  <2>2. CASE Resume /\ To("resumed")
    <3>1. el'[cur] = [el[cur] EXCEPT !.bits = @ \ {"RESUMED"}]
      BY <1>0, <2>2 DEF Resume, Upd, TypeOK
    <3>2. "RESUMED" \notin el'[cur].bits
      BY <1>0, <3>1 DEF Element
    <3>3. QED
      BY <1>0, <2>2, <3>2 DEF Resume, Stay, To, Points
  <2>3. QED
    BY <1>2, <2>1, <2>2 DEF Resume, ResumeNot, Resumed, Back
<1>3. CASE Pause \/ PauseNot \/ PauseReturn
  <2>1. Set("PAUSED") \in BOOLEAN /\ el[cur].task_run \in BOOLEAN
    BY <1>0 DEF Set, Element
  <2>2. CASE apc = "pause" /\ To("paused")
    BY <1>0, <2>2 DEF Stay, To, Points
  <2>3. QED
    BY <1>3, <2>1, <2>2 DEF Pause, PauseNot, PauseReturn, Back
<1>4. CASE StopNot \/ StopAtRest \/ SendStop
  <2>1. apc \in {"stop", "send"} /\ StopReturn
    BY <1>4 DEF StopNot, StopAtRest, SendStop
  <2>2. CASE call = "destroy" /\ To("ewait")
    BY <1>0, <2>1, <2>2 DEF Stay, To, Points
  <2>3. QED
    BY <2>1, <2>2 DEF StopReturn, Back
<1>5. CASE Stop \/ ClearStopped
  BY <1>0, <1>5 DEF Stop, ClearStopped, Stay, To, Points
<1>6. CASE WaitStop \/ WaitForStop
  BY <1>0, <1>6 DEF WaitStop, WaitForStop, Stay, To, Points
<1>7. CASE ResetState
  BY <1>7 DEF ResetState, Back
<1>8. CASE TerminateNot \/ Terminated \/ (Terminate /\ TermReturn(FALSE))
  <2>0. Set("DESTROYED") \in BOOLEAN
    BY DEF Set
  <2>1. apc \in {"term", "gone"} /\ \E good \in BOOLEAN : TermReturn(good)
    BY <1>8, <2>0 DEF TerminateNot, Terminated, Terminate
  <2>2. CASE call = "destroy" /\ To("free")
    BY <2>1, <2>2 DEF Leaves, To
  <2>3. QED
    BY <2>1, <2>2 DEF TermReturn, Back
<1>9. CASE Terminate /\ To("gone")
  <2>1. el'[cur] = [el[cur] EXCEPT !.bits = @ \ {"DESTROYED"}]
    BY <1>0, <1>9 DEF Terminate, Upd, TypeOK
  <2>2. "DESTROYED" \notin el'[cur].bits
    BY <1>0, <2>1 DEF Element
  <2>3. QED
    BY <1>0, <1>9, <2>2 DEF Terminate, Stay, To, Points
<1>10. CASE Free
  BY <1>0, <1>10 DEF Free, Leaves, First
<1>11. CASE ResetRingbuffer
  BY <1>11 DEF ResetRingbuffer
<1>12. QED
  BY <1>1, <1>2, <1>3, <1>4, <1>5, <1>6, <1>7, <1>8, <1>9, <1>10, <1>11
     DEF App, Silent, Terminating, Terminate

(* A function that returns ends, or goes on to the next element or to the  *)
(* next function.                                                           *)
LEMMA BackFacts ==
  ASSUME TypeOK, CallInv, Back
  PROVE  \/ cur < N /\ cur' = cur + 1 /\ apc' = First[call]
            /\ UNCHANGED <<call, pstate, linked>>
         \/ cur = N /\ call = "run" /\ Enter("start") /\ UNCHANGED <<pstate, linked>>
         \/ cur = N /\ call = "stop" /\ Enter("wait") /\ UNCHANGED <<pstate, linked>>
         \/ cur = N /\ call = "start" /\ Enter("undo") /\ pstate' = "ERROR"
            /\ UNCHANGED linked
         \/ cur = N /\ call = "deinit" /\ Enter("destroy") /\ linked' = FALSE
            /\ UNCHANGED pstate
         \/ cur = N /\ call \in {"start", "resume", "pause", "wait", "terminate", "undo"}
            /\ apc' = "idle" /\ UNCHANGED <<call, cur, linked>>
            /\ pstate' = IF call = "wait" THEN "INIT"
                         ELSE IF call \in {"start", "resume"} THEN "RUNNING" ELSE pstate
<1>1. PICK good \in BOOLEAN : Return(good)
  BY DEF Back
<1>2. cur <= N /\ cur \in Nat /\ N \in Nat
  BY ElementAssumption DEF TypeOK, El
<1>3. QED
  BY <1>1, <1>2 DEF Return, Finish

LEMMA CallStart == Init => CallInv
  BY DEF Init, CallInv, Points

LEMMA CallStep ==
  ASSUME TypeOK, CallInv, App \/ Silent
  PROVE  CallInv'
<1>0. call \in DOMAIN First
  BY DEF TypeOK
<1>1. CASE Stay
  BY <1>0, <1>1 DEF Stay, CallInv
<1>2. CASE Back
  <2>1. apc # "idle"
    BY <1>2 DEF Back
  <2>2. CASE apc' = First[call] /\ UNCHANGED <<call, pstate, linked>>
    <3>1. First[call] \in Points[call] /\ (First[call] = "idle" => call = "none")
      BY <1>0, FirstFacts DEF First
    <3>2. QED
      BY <2>1, <2>2, <3>1, CallFacts DEF CallInv
  <2>3. CASE call = "run" /\ Enter("start") /\ UNCHANGED <<pstate, linked>>
    BY <2>3, FirstFacts DEF CallInv, Enter, First
  <2>4. CASE call = "stop" /\ Enter("wait") /\ UNCHANGED <<pstate, linked>>
    BY <2>4, FirstFacts DEF CallInv, Enter, First
  <2>5. CASE call = "start" /\ Enter("undo") /\ pstate' = "ERROR" /\ UNCHANGED linked
    BY <2>5, FirstFacts DEF CallInv, Enter, First
  <2>6. CASE call = "deinit" /\ Enter("destroy") /\ UNCHANGED pstate
    BY <2>6, FirstFacts DEF CallInv, Enter, First
  <2>7. CASE /\ call \in {"start", "resume", "pause", "wait", "terminate", "undo"}
             /\ apc' = "idle" /\ UNCHANGED <<call, cur, linked>>
             /\ pstate' = IF call = "wait" THEN "INIT"
                          ELSE IF call \in {"start", "resume"} THEN "RUNNING" ELSE pstate
    BY <2>7 DEF CallInv, Points
  <2>8. QED
    BY <1>2, <2>2, <2>3, <2>4, <2>5, <2>6, <2>7, BackFacts
<1>3. CASE Leaves
  BY <1>3 DEF Leaves, CallInv, Points
<1>4. CASE \E c \in DOMAIN First : Call(c)
  <2>1. PICK c \in DOMAIN First : Call(c)
    BY <1>4
  <2>2. /\ call' = c /\ apc' = First[c] /\ UNCHANGED <<pstate, linked>>
        /\ apc = "idle" /\ May(c)
    BY <2>1 DEF Call, Enter
  <2>3. linked
    BY <1>0, <2>2 DEF CallInv, Points
  <2>4. QED
    BY <2>1, <2>2, <2>3, FirstFacts DEF May, CallInv, First
<1>5. CASE UNCHANGED appvars
  BY <1>5 DEF appvars, CallInv
<1>6. QED
  BY <1>1, <1>2, <1>3, <1>4, <1>5, AppControl

LEMMA ActionAt ==
  ASSUME App \/ Silent
  PROVE  /\ apc = "created" => Created
         /\ apc = "resume" => Resume \/ ResumeNot
         /\ apc = "resumed" => Resumed
         /\ apc = "reset" => ResetState
         /\ apc = "term" => Terminate \/ TerminateNot
         /\ apc = "gone" => Terminated
  BY DEF App, Silent, CreateNot, Create, CreateFail, Created, ResumeNot, Resume,
         Resumed, PauseNot, Pause, PauseReturn, StopNot, StopAtRest, Stop,
         ClearStopped, SendStop, WaitStop, ResetState, Terminating, TerminateNot,
         Terminate, Terminated, WaitForStop, Free, ResetRingbuffer, Call

LEMMA CreatedNew ==
  ASSUME TypeOK, LocalInv, Create
  PROVE  /\ ~el'[cur].is_open /\ ~el'[cur].task_run
         /\ "CREATED" \notin el'[cur].bits
         /\ cmds'[cur] = <<>> /\ apc' = "created" /\ cur' = cur
<1>1. cur \in El /\ el[cur] \in Element /\ ~el[cur].task_run /\ ~el[cur].is_open
  BY DEF TypeOK, LocalInv, Create, MustCreate, Sound, AtRest
<1>2. QED
  BY <1>1, CreatedSound, DiscardSent DEF Create, Uncreated, Element, To

(* What terminate knows of the element's task when it is done with it.     *)
LEMMA TerminateEnds ==
  ASSUME TypeOK, LocalInv, ControlInv, App \/ Silent,
         apc \in {"term", "gone"}, apc' # "gone"
  PROVE  cur \in gave_up' \/ PastLoop(cur)
<1>1. /\ cur \in El /\ Sound(el[cur], tpc[cur]) /\ tpc[cur] # "start"
      /\ gave_up \in SUBSET El
  BY DEF TypeOK, LocalInv, ControlInv, StartInv
<1>2. CASE TerminateNot
  BY <1>1, <1>2 DEF TerminateNot, Sound, AtRest, PastLoop
<1>3. CASE Terminate
  BY <1>3 DEF Terminate, TermReturn, To
<1>4. CASE Terminated
  BY <1>4 DEF Terminated, TermReturn, ControlInv, GoneInv, PastLoop
<1>5. QED
  BY <1>2, <1>3, <1>4, ActionAt

(* Where a step of the application leaves deinit past an element: it was    *)
(* past it, or it has just terminated it.                                   *)
LEMMA DroppedBefore ==
  ASSUME TypeOK, CallInv, App \/ Silent, NEW e \in El, Dropped(e)'
  PROVE  Dropped(e) \/ (e = cur /\ apc \in {"term", "gone"} /\ apc' # "gone")
<1>0. /\ call \in DOMAIN First /\ cur \in Nat /\ N \in Nat
      /\ e \in Nat /\ 1 <= e /\ e <= N
  BY ElementAssumption DEF TypeOK, El
<1>1. CASE Stay
  BY <1>1 DEF Stay, Dropped
<1>2. CASE Back
  <2>1. call \in {"deinit", "destroy"}
    BY <1>0, <1>2, BackFacts DEF Dropped, Enter
  <2>2. ASSUME call = "deinit" PROVE apc \in {"term", "gone"} /\ apc' # "gone"
    <3>1. apc \in {"term", "gone"}
      BY <2>2 DEF CallInv, Points
    <3>2. apc' = First[call] \/ Enter("destroy")
      BY <1>2, <2>2, BackFacts
    <3>3. First["deinit"] = "term" /\ First["destroy"] = "stop"
      BY DEF First
    <3>4. QED
      BY <2>2, <3>1, <3>2, <3>3 DEF Enter
  <2>3. call = "deinit" => e < cur \/ e = cur
    <3>1. ASSUME call = "deinit"
          PROVE  (call' = "deinit" /\ cur' = cur + 1) \/ cur = N
      BY <1>2, <3>1, BackFacts
    <3>2. QED
      BY <1>0, <3>1 DEF Dropped
  <2>4. QED
    BY <2>1, <2>2, <2>3 DEF Dropped
<1>3. CASE Leaves
  BY <1>3 DEF Leaves, Dropped
<1>4. CASE \E c \in DOMAIN First : Call(c)
  <2>1. PICK c \in DOMAIN First : Call(c)
    BY <1>4
  <2>2. c # "destroy" /\ call' = c /\ cur' = 1
    BY <2>1 DEF Call, Enter, May
  <2>3. QED
    BY <1>0, <2>2 DEF Dropped
<1>5. CASE ResetRingbuffer /\ UNCHANGED appvars
  BY <1>5 DEF appvars, Dropped
<1>6. QED
  BY <1>1, <1>2, <1>3, <1>4, <1>5, AppControl

LEMMA ControlApp ==
  ASSUME TypeOK, LocalInv, ControlInv, App \/ Silent, GaveUp
  PROVE  ControlInv'
<1> USE DEF ControlInv
<1>0. /\ cur \in El /\ call \in DOMAIN First
      /\ \A e \in El : el[e] \in Element /\ Sound(el[e], tpc[e])
  BY DEF TypeOK, LocalInv
<1>1. Spared \/ Create
  BY AppMoves
<1>2. CallInv'
  BY CallStep
(* An element keeps what the invariant speaks of, but for a new task.      *)
<1>3. ASSUME NEW e \in El
      PROVE  \/ tpc'[e] = tpc[e] /\ Kept(el[e], el'[e])
             \/ e = cur /\ Create /\ tpc'[e] = "start"
  BY <1>1, KeptSame, CreatedSound DEF Spared
<1>4. StartInv'
  <2>1. ASSUME NEW e \in El, tpc'[e] = "start"
        PROVE  apc' = "created" /\ cur' = e /\ cmds'[e] = <<>>
               /\ "CREATED" \notin el'[e].bits
    <3>1. CASE e = cur /\ Create
      BY <3>1, CreatedNew
    <3>2. CASE tpc[e] = "start"
      BY <3>2, ActionAt DEF StartInv, Created, Set
    <3>3. QED
      BY <1>3, <2>1, <3>1, <3>2
  <2>2. QED
    BY <2>1 DEF StartInv
<1>5. apc' = "gone" => "DESTROYED" \notin el'[cur'].bits
  <2>1. \A c \in DOMAIN First : First[c] # "gone"
    BY FirstFacts DEF First
  <2>2. CASE Stay
    BY <2>2 DEF Stay
  <2>3. CASE Back
    BY <1>0, <2>1, <2>3, BackFacts, FirstFacts DEF Enter
  <2>4. CASE Leaves
    BY <2>4 DEF Leaves
  <2>5. CASE \E c \in DOMAIN First : Call(c)
    BY <2>1, <2>5 DEF Call, Enter
  <2>6. CASE ResetRingbuffer /\ UNCHANGED appvars
    BY <2>6 DEF ResetRingbuffer, appvars
  <2>7. QED
    BY <2>2, <2>3, <2>4, <2>5, <2>6, AppControl
<1>6. GoneInv'
  BY <1>5 DEF GoneInv, Set
<1>7. freed' # {} => call' = "destroy"
  <2>1. call = "destroy" => call' = "destroy"
    <3>1. ASSUME call = "destroy", NEW c \in DOMAIN First, Call(c) PROVE FALSE
      BY <1>0, <3>1 DEF Call, CallInv, Points
    <3>2. ASSUME call = "destroy", Back PROVE call' = "destroy"
      BY <1>0, <3>2, BackFacts
    <3>3. QED
      BY <1>0, <3>1, <3>2, AppControl DEF Stay, Leaves, appvars
  <2>2. freed' # {} => freed # {} \/ call = "destroy"
    BY <1>0, AppControl DEF Stay, Back, Return, Leaves, Call, appvars
  <2>3. QED
    BY <2>1, <2>2 DEF EndedInv
<1>8. ASSUME NEW e \in El, Dropped(e)' PROVE e \in gave_up' \/ PastLoop(e)'
  <2>1. ~Create
    BY <1>0, <1>8, CallFacts DEF Create, To, Dropped
  <2>2. PastLoop(e) => PastLoop(e)'
    BY <1>3, <2>1 DEF PastLoop, Kept
  <2>3. e \in gave_up' \/ PastLoop(e)
    <3>1. CASE apc \in {"term", "gone"} /\ apc' # "gone" /\ e = cur
      BY <3>1, TerminateEnds
    <3>2. CASE e \in gave_up /\ e # cur
      BY <3>2, GaveUpTypes
    <3>3. CASE e \in gave_up /\ ~(apc \in {"term", "gone"} /\ apc' # "gone")
      <4>1. CASE UNCHANGED gave_up
        BY <3>3, <4>1
      <4>2. CASE TerminateNot \/ Terminated
        BY <1>2, <3>3, <4>2, CallFacts DEF TerminateNot, Terminated, TermReturn,
           To, Return, Finish, Enter, First
      <4>3. CASE Terminate
        BY <3>3, <4>3 DEF Terminate, TermReturn
      <4>4. QED
        BY <4>1, <4>2, <4>3 DEF GaveUp, Terminating
    <3>4. QED
      BY <1>8, <3>1, <3>2, <3>3, DroppedBefore DEF EndedInv
  <2>4. QED
    BY <2>2, <2>3
<1>9. EndedInv'
  BY <1>7, <1>8 DEF EndedInv
<1>10. QED
  BY <1>2, <1>4, <1>6, <1>9

LEMMA ControlTask ==
  ASSUME TypeOK, LocalInv, ControlInv, NEW t \in El, Task(t), UNCHANGED appvars
  PROVE  ControlInv'
<1> USE DEF ControlInv
<1>1. /\ Effect(el[t], tpc[t], el'[t], tpc'[t]) /\ Served(t)
      /\ \A e \in El \ {t} : /\ el'[e] = el[e] /\ tpc'[e] = tpc[e]
                             /\ cmds'[e] = cmds[e]
  BY TaskAlone DEF Served
<1>2. UNCHANGED <<call, apc, cur, pstate, linked, freed, gave_up>>
  BY DEF appvars
<1>3. CallInv'
  BY <1>2 DEF CallInv
<1>4. StartInv'
  <2>1. ASSUME NEW e \in El, tpc'[e] = "start"
        PROVE  /\ tpc[e] = "start" /\ el'[e] = el[e] /\ cmds'[e] = cmds[e]
    BY <1>1, <2>1 DEF Effect
  <2>2. QED
    BY <1>2, <2>1 DEF StartInv
<1>5. GoneInv'
  <2>1. ASSUME apc = "gone", "DESTROYED" \in el'[cur].bits
        PROVE  tpc'[cur] \in {"none", "tail"}
    <3>1. CASE cur # t
      BY <1>1, <2>1, <3>1 DEF GoneInv, Set, TypeOK
    <3>2. CASE cur = t
      BY <1>1, <2>1, <3>2 DEF GoneInv, Set, Effect
    <3>3. QED
      BY <3>1, <3>2
  <2>2. QED
    BY <1>2, <2>1 DEF GoneInv, Set
<1>6. EndedInv'
  <2>1. ASSUME NEW e \in El, PastLoop(e) PROVE PastLoop(e)'
    BY <1>1, <2>1 DEF PastLoop, Effect
  <2>2. QED
    BY <1>2, <2>1 DEF EndedInv, Dropped
<1>7. QED
  BY <1>3, <1>4, <1>5, <1>6

LEMMA ControlStart == Init => ControlInv
<1> SUFFICES ASSUME Init PROVE ControlInv
  OBVIOUS
<1>1. \A e \in El : tpc[e] = "none"
  BY DEF Init, ElInit
<1>2. CallInv /\ apc = "idle" /\ call = "none" /\ freed = {}
  BY CallStart DEF Init
<1>3. QED
  BY <1>1, <1>2 DEF ControlInv, StartInv, GoneInv, EndedInv, Dropped

AInv == TypeOK /\ LocalInv /\ ControlInv

LEMMA ControlStep == AInv /\ [Next]_vars => AInv'
<1> SUFFICES ASSUME AInv, [Next]_vars PROVE AInv'
  OBVIOUS
<1>1. TypeOK' /\ LocalInv'
  BY LocalStep DEF AInv
<1>2. CASE (App \/ Silent) /\ GaveUp
  BY <1>1, <1>2, ControlApp DEF AInv
<1>3. CASE \E e \in El : Task(e) /\ UNCHANGED appvars
  BY <1>1, <1>3, ControlTask DEF AInv
<1>4. CASE UNCHANGED vars
  <2>1. ControlInv'
    BY <1>4 DEF vars, elvars, appvars, AInv, ControlInv, CallInv, StartInv, GoneInv,
       Set, EndedInv, Dropped, PastLoop
  <2>2. QED
    BY <1>1, <2>1 DEF AInv
<1>5. QED
  BY <1>2, <1>3, <1>4, NextSplit

(* The inductive invariant of a pipeline, whatever the application calls   *)
(* and when.                                                                *)
THEOREM ControlInvariance == Spec => []AInv
<1>1. Init => AInv
  BY LocalStart, ControlStart DEF AInv
<1>2. AInv /\ [Next]_vars => AInv'
  BY ControlStep
<1>3. QED
  BY <1>1, <1>2, PTL DEF Spec

(* audio_element_deinit frees an element only when its task is past its    *)
(* loop and has closed it, or when audio_element_terminate has returned     *)
(* BK_FAIL.                                                                 *)
THEOREM FreedAfterLoop == Spec => []FreedPastLoop
<1>1. AInv => FreedPastLoop
  BY DEF AInv, TypeOK, ControlInv, EndedInv, Dropped, FreedPastLoop
<1>2. QED
  BY <1>1, ControlInvariance, PTL
-----------------------------------------------------------------------------
(***************************************************************************)
(* The pipeline, if stop is not called before every element has opened      *)
(***************************************************************************)
(* Where a step of the application leaves the pipeline calm, it was calm    *)
(* before or is a stop that has waited for the elements to open; where it  *)
(* leaves it closed, it was closed or the wait has seen the last element.  *)
LEMMA CalmBefore ==
  ASSUME TypeOK, CallInv, App \/ Silent
  PROVE  /\ Calm' => Calm \/ Call("stop")
         /\ Closing' => Closing \/ (call = "wait" /\ apc = "reset" /\ cur = N)
         /\ pstate = "ERROR" => pstate' = "ERROR"
<1>0. call \in DOMAIN First
  BY DEF TypeOK
<1>1. CASE Stay \/ Leaves
  BY <1>1 DEF Stay, Leaves, Calm, Closing
<1>2. CASE Back
  <2>1. apc \notin {"idle", "wait"}
    BY <1>2 DEF Back
  <2>2. call = "wait" => apc = "reset"
    BY <2>1 DEF CallInv, Points
  <2>3. call = "start" => pstate # "ERROR"
    BY DEF CallInv
  <2>4. QED
    BY <1>2, <2>2, <2>3, BackFacts, CallFacts DEF Enter, Calm, Closing
<1>3. CASE \E c \in DOMAIN First : Call(c)
  <2>1. PICK c \in DOMAIN First : Call(c)
    BY <1>3
  <2>2. call' = c /\ UNCHANGED pstate /\ apc = "idle" /\ May(c)
    BY <2>1 DEF Call, Enter
  <2>3. c # "wait" /\ (call = "start" => pstate # "INIT")
    BY <2>2 DEF May, CallInv
  <2>4. QED
    BY <2>1, <2>2, <2>3 DEF Calm, Closing
<1>4. CASE UNCHANGED appvars
  BY <1>4 DEF appvars, Calm, Closing
<1>5. QED
  BY <1>1, <1>2, <1>3, <1>4, AppControl

(* When the wait for an element returns, the element is closed.            *)
LEMMA WaitedClosed ==
  ASSUME TypeOK, LocalInv, ControlInv, PatientInv, apc = "wait", Set("STOPPED")
  PROVE  ~el[cur].is_open
<1>1. cur \in El /\ tpc[cur] \in Tpc /\ Sound(el[cur], tpc[cur])
  BY DEF TypeOK, LocalInv
<1>2. call = "wait" /\ pstate = "RUNNING"
  BY CallFacts DEF ControlInv, CallInv
<1>3. tpc[cur] \notin {"opening", "open"}
  BY <1>1, <1>2 DEF PatientInv, CalmInv, Calm, Starting
<1>4. el[cur].is_open => tpc[cur] # "exit"
  BY <1>1, <1>2 DEF PatientInv, DestroyInv
<1>5. QED
  BY <1>1, <1>3, <1>4 DEF Sound, Set, Tpc, AtRest, Handlers, Loop

LEMMA PatientApp ==
  ASSUME Patient, TypeOK, LocalInv, ControlInv, PatientInv, App \/ Silent
  PROVE  PatientInv'
<1> USE DEF ControlInv, PatientInv
<1>0. /\ cur \in El /\ call \in DOMAIN First
      /\ \A e \in El : el[e] \in Element /\ Sound(el[e], tpc[e])
  BY DEF TypeOK, LocalInv
<1>1. /\ AppTypes' /\ ElTypes' /\ Sent
      /\ Spared \/ Create
  BY AppMoves
(* An element keeps what the invariant speaks of, but for a new task.      *)
<1>3. ASSUME NEW e \in El
      PROVE  \/ tpc'[e] = tpc[e] /\ Kept(el[e], el'[e])
             \/ e = cur /\ Create /\ tpc'[e] = "start"
      BY <1>1, KeptSame, CreatedSound DEF Spared
<1>4. Create => ~el'[cur].is_open /\ ~el'[cur].task_run
  BY CreatedNew
<1>8. CalmInv'
  <2>1. ASSUME Calm', NEW e \in El PROVE ~Starting(e)'
    <3>1. CASE Call("stop")
      BY <3>1 DEF Call, May, elvars, Starting, Queued
    <3>2. CASE Calm
      <4>1. ~Starting(e)
        BY <3>2 DEF CalmInv
      <4>2. apc # "resume"
        BY <3>2, CallFacts DEF Calm, CallInv
      <4>3. tpc'[e] \notin {"opening", "open"}
        BY <1>3, <4>1 DEF Starting
      <4>4. Queued(e, "RESUME")' => Queued(e, "RESUME")
        BY <1>1, <4>2 DEF Sent, Cmd
      <4>5. el'[e].task_run => el[e].task_run
        BY <1>3, <1>4 DEF Kept
      <4>6. QED
        BY <4>1, <4>3, <4>4, <4>5 DEF Starting
    <3>3. QED
      BY <2>1, <3>1, <3>2, CalmBefore
  <2>2. QED
    BY <2>1 DEF CalmInv
<1>9. ASSUME NEW e \in El, el'[e].is_open PROVE el[e].is_open
  BY <1>3, <1>4, <1>9 DEF Kept
<1>10. ClosedInv'
  <2>1. ASSUME Closing', NEW e \in El PROVE ~el'[e].is_open
    <3>1. CASE Closing
      BY <1>9, <3>1 DEF ClosedInv
    <3>2. CASE call = "wait" /\ apc = "reset" /\ cur = N
      <4>1. e < cur \/ e = cur
        BY <3>2, ElementAssumption DEF El
      <4>2. QED
        BY <1>9, <3>2, <4>1 DEF ClosedInv
    <3>3. QED
      BY <2>1, <3>1, <3>2, CalmBefore
  <2>2. ASSUME call' = "wait", NEW e \in El, e < cur' \/ (e = cur' /\ apc' = "reset")
        PROVE  ~el[e].is_open
    <3>1. CASE Stay
      <4>1. call = "wait" /\ cur' = cur
        BY <2>2, <3>1 DEF Stay
      <4>2. CASE e < cur
        BY <4>1, <4>2 DEF ClosedInv
      <4>3. CASE e = cur /\ apc' = "reset"
        BY <3>1, <4>3, WaitedClosed DEF Stay
      <4>4. QED
        BY <2>2, <4>1, <4>2, <4>3
    <3>2. CASE Back
      <4>1. CASE call = "wait"
        <5>1. apc = "reset"
          BY <3>2, <4>1 DEF Back, CallInv, Points
        <5>2. e < cur \/ e = cur
          <6>1. (cur' = cur + 1 /\ apc' = "wait") \/ (cur' = cur /\ apc' = "idle")
            BY <3>2, <4>1, BackFacts DEF First
          <6>2. QED
            BY <1>0, <2>2, <6>1, ElementAssumption DEF El
        <5>3. QED
          BY <4>1, <5>1, <5>2 DEF ClosedInv
      <4>2. CASE call # "wait"
        <5>1. cur' = 1 /\ apc' = "wait"
          BY <2>2, <3>2, <4>2, BackFacts DEF Enter, First
        <5>2. QED
          BY <2>2, <5>1 DEF El
      <4>3. QED
        BY <4>1, <4>2
    <3>3. CASE Leaves
      BY <2>2, <3>3 DEF Leaves
    <3>4. CASE \E c \in DOMAIN First : Call(c)
      BY <2>2, <3>4 DEF Call, Enter, May
    <3>5. CASE UNCHANGED appvars
      BY <2>2, <3>5 DEF appvars, ClosedInv
    <3>6. QED
      BY <3>1, <3>2, <3>3, <3>4, <3>5, AppControl
  <2>3. QED
    BY <1>9, <2>1, <2>2 DEF ClosedInv
<1>11. StateInv'
  <2>1. ASSUME NEW e \in El, tpc'[e] \in Loop, el'[e].is_running
        PROVE  el'[e].state = "RUNNING"
    <3>1. tpc'[e] = tpc[e] /\ Kept(el[e], el'[e])
      BY <1>3, <2>1 DEF Loop
    <3>2. el[e].is_running
      BY <2>1, <3>1 DEF Kept
    <3>3. /\ el[e].state = "RUNNING" /\ el[e].task_run /\ el[e].is_open
      BY <1>0, <2>1, <3>1, <3>2 DEF StateInv, Sound, Loop, AtRest
    <3>4. CASE apc = "reset" /\ e = cur
      BY <3>3, <3>4, CallFacts DEF ClosedInv
    <3>5. CASE apc # "reset"
      BY <3>1, <3>3, <3>5 DEF Kept, Pausable
    <3>6. CASE e # cur
      BY <1>1, <2>1, <3>3, <3>6, CreatedSound DEF Spared
    <3>7. QED
      BY <3>4, <3>5, <3>6
  <2>2. QED
    BY <2>1 DEF StateInv
<1>12. pstate = "ERROR" => pstate' = "ERROR"
  BY CalmBefore
<1>13. ASSUME NEW e \in El, Queued(e, "DESTROY")', el'[e].task_run
       PROVE  pstate' = "ERROR" \/ (apc' = "gone" /\ cur' = e)
  <2>1. el[e].task_run
    BY <1>3, <1>4, <1>13 DEF Kept
  <2>2. CASE Queued(e, "DESTROY")
    <3>1. pstate = "ERROR" \/ (apc = "gone" /\ cur = e)
      BY <2>1, <2>2 DEF DestroyInv
    <3>2. CASE apc = "gone" /\ cur = e
      <4>1. Set("DESTROYED") \/ TimedOut
        BY <3>2, ActionAt DEF Terminated
      <4>2. ~Set("DESTROYED")
        BY <1>0, <2>1, <3>2 DEF GoneInv, Sound, AtRest
      <4>3. Processing(e)
        BY <3>2, <4>1, <4>2 DEF TimedOut, Blocked, Stuck, Processing
      <4>4. el[e].is_open
        BY <1>0, <4>3 DEF Processing, Sound, Loop
      <4>5. pstate = "ERROR"
        BY <3>2, <4>4, CallFacts DEF ClosedInv, Closing, CallInv
      <4>6. QED
        BY <1>12, <4>5
    <3>3. QED
      BY <1>12, <3>1, <3>2
  <2>3. CASE e = cur /\ apc = "term" /\ apc' = "gone"
    <3>1. cur' = cur
      BY <2>3, AppControl, BackFacts, FirstFacts, CallFacts
         DEF Stay, Leaves, Call, Enter, First, appvars
    <3>2. QED
      BY <2>3, <3>1
  <2>4. QED
    BY <1>1, <1>13, <2>2, <2>3 DEF Sent, Cmd
<1>15. ASSUME NEW e \in El, tpc'[e] = "exit", el'[e].is_open PROVE pstate' = "ERROR"
  BY <1>3, <1>9, <1>12, <1>15 DEF DestroyInv
<1>16. DestroyInv'
  BY <1>13, <1>15 DEF DestroyInv
<1>17. QED
  BY <1>8, <1>10, <1>11, <1>16

LEMMA PatientTask ==
  ASSUME TypeOK, LocalInv, ControlInv, PatientInv, NEW t \in El, Task(t), UNCHANGED appvars
  PROVE  PatientInv'
<1> USE DEF ControlInv, PatientInv
<1>0. \A e \in El : Sound(el[e], tpc[e])
  BY DEF LocalInv
<1>1. /\ Effect(el[t], tpc[t], el'[t], tpc'[t]) /\ Served(t)
      /\ \A e \in El \ {t} : /\ el'[e] = el[e] /\ tpc'[e] = tpc[e]
                             /\ cmds'[e] = cmds[e]
  BY TaskAlone DEF Served
<1>2. UNCHANGED <<call, apc, cur, pstate, linked>>
  BY DEF appvars
<1>4. ASSUME NEW e \in El, NEW c \in Cmd, Queued(e, c)', el'[e].task_run
      PROVE  Queued(e, c) /\ el[e].task_run
  <2>1. Queued(e, c)
    BY <1>1, <1>4 DEF Served, Queued
  <2>2. tpc[e] # "start"
    BY <2>1 DEF StartInv, Queued
  <2>3. QED
    BY <1>1, <1>4, <2>1, <2>2 DEF Effect
<1>6. ASSUME Calm, NEW e \in El PROVE ~Starting(e)' /\ tpc[e] # "opening"
  <2>1. ~Starting(e)
    BY <1>6 DEF CalmInv
  <2>2. ~(Queued(e, "RESUME")' /\ el'[e].task_run)
    BY <1>4, <2>1 DEF Starting, Cmd
  <2>3. tpc'[e] \notin {"opening", "open"}
    <3>1. CASE e # t
      BY <1>1, <2>1, <3>1 DEF Starting
    <3>2. CASE e = t
      <4>1. tpc'[t] # "open"
        BY <1>1, <2>1, <3>2 DEF Effect, Starting
      <4>2. tpc[t] \in {"read", "write"} => el[t].state = "RUNNING"
        BY <1>0 DEF StateInv, Sound, Loop
      <4>3. ~(tpc[t] = "loop" /\ tpc'[t] = "opening")
        <5>1. tpc[t] = "loop" => el[t].task_run
          BY <1>0 DEF Sound, AtRest
        <5>2. QED
          BY <1>1, <2>1, <3>2, <5>1 DEF Served, Starting
      <4>4. QED
        BY <1>1, <3>2, <4>1, <4>2, <4>3 DEF Effect
    <3>3. QED
      BY <3>1, <3>2
  <2>4. QED
    BY <2>1, <2>2, <2>3 DEF Starting
<1>7. CalmInv'
  BY <1>2, <1>6 DEF CalmInv, Calm
<1>8. ASSUME NEW e \in El, Calm, el'[e].is_open PROVE el[e].is_open
  BY <1>1, <1>6, <1>8 DEF Effect
<1>9. ClosedInv'
  BY <1>2, <1>8 DEF ClosedInv, Closing, Calm
<1>10. StateInv'
  <2>1. ASSUME NEW e \in El, tpc'[e] \in Loop, el'[e].is_running
        PROVE  el'[e].state = "RUNNING"
    BY <1>1, <2>1 DEF Effect, StateInv
  <2>2. QED
    BY <2>1 DEF StateInv
<1>11. \A e \in El : Queued(e, "DESTROY")' /\ el'[e].task_run =>
         pstate' = "ERROR" \/ (apc' = "gone" /\ cur' = e)
  BY <1>2, <1>4 DEF DestroyInv, Cmd
<1>13. ASSUME NEW e \in El, tpc'[e] = "exit", el'[e].is_open
       PROVE  pstate = "ERROR"
  <2>1. CASE e # t
    BY <1>1, <1>13, <2>1 DEF DestroyInv
  <2>2. CASE e = t
    <3>1. tpc[t] = "loop" /\ el[t].is_open /\ Queued(t, "DESTROY")
      BY <1>1, <1>13, <2>2 DEF Effect, Served
    <3>2. pstate = "ERROR" \/ (apc = "gone" /\ cur = t)
      BY <1>0, <3>1 DEF DestroyInv, Sound, AtRest
    <3>3. QED
      BY <3>1, <3>2, CallFacts DEF ClosedInv, Closing, CallInv
  <2>3. QED
    BY <2>1, <2>2
<1>14. DestroyInv'
  BY <1>2, <1>11, <1>13 DEF DestroyInv
<1>15. QED
  BY <1>7, <1>9, <1>10, <1>14

LEMMA PatientStart == Init => PatientInv
<1> SUFFICES ASSUME Init PROVE PatientInv
  OBVIOUS
<1>1. \A e \in El : el[e] = NewElement /\ tpc[e] = "none" /\ cmds[e] = <<>>
  BY DEF Init, ElInit
<1>2. \A e \in El, c \in Cmd : ~Queued(e, c)
  BY <1>1 DEF Queued
<1>3. apc = "idle" /\ call = "none"
  BY DEF Init
<1>4. CalmInv /\ DestroyInv
  BY <1>1, <1>2, <1>3 DEF CalmInv, Starting, DestroyInv, NewElement, Cmd
<1>5. ClosedInv /\ StateInv
  BY <1>1, <1>3 DEF ClosedInv, StateInv, Processing, NewElement
<1>6. QED
  BY <1>4, <1>5 DEF PatientInv

IInv == AInv /\ PatientInv

LEMMA PatientStep == Patient /\ IInv /\ [Next]_vars => IInv'
<1> SUFFICES ASSUME Patient, IInv, [Next]_vars PROVE IInv'
  OBVIOUS
<1>1. AInv'
  BY ControlStep DEF IInv
<1>2. CASE App \/ Silent
  BY <1>1, <1>2, PatientApp DEF IInv, AInv
<1>3. CASE \E e \in El : Task(e) /\ UNCHANGED appvars
  BY <1>1, <1>3, PatientTask DEF IInv, AInv
<1>4. CASE UNCHANGED vars
  <2>1. PatientInv'
    BY <1>4 DEF vars, elvars, appvars, IInv, PatientInv, CalmInv, Calm, Starting,
       Queued, ClosedInv, Closing, StateInv, Processing, DestroyInv
  <2>2. QED
    BY <1>1, <2>1 DEF IInv
<1>5. QED
  BY <1>2, <1>3, <1>4, NextSplit

(* The inductive invariant of a pipeline, whatever its length, the size of *)
(* its queues and ring buffers, what open() and the callbacks return and   *)
(* which functions the application calls in which order.                    *)
THEOREM Invariance == ASSUME Patient PROVE Spec => []IInv
<1>1. Init => IInv
  BY LocalStart, ControlStart, PatientStart DEF IInv, AInv
<1>2. IInv /\ [Next]_vars => IInv'
  BY PatientStep
<1>3. QED
  BY <1>1, <1>2, PTL DEF Spec

(* When wait_for_stop goes on to the next element, this one is closed.     *)
THEOREM WaitedForStop == ASSUME Patient PROVE Spec => WaitMeansStopped
<1>1. IInv /\ [Next]_vars => [WaitStop => ~el[cur].is_open]_vars
  BY WaitedClosed DEF IInv, AInv, WaitStop
<1>2. QED
  BY <1>1, Invariance, PTL DEF Spec, WaitMeansStopped

(* No command that is left in a queue opens an element of a pipeline that  *)
(* was stopped.                                                             *)
THEOREM StopIsFinal == ASSUME Patient PROVE Spec => []StoppedForGood
<1>1. IInv => StoppedForGood
  BY DEF IInv, AInv, ControlInv, PatientInv, CallInv, ClosedInv, Closing,
         StoppedForGood
<1>2. QED
  BY <1>1, Invariance, PTL

(* No task is inside a ring buffer when it is reset, and when it is         *)
(* destroyed only one that terminate gave up on.                            *)
THEOREM RingsUnused == ASSUME Patient PROVE Spec => []RingsQuiet
<1>1. IInv => RingsQuiet
  <2> SUFFICES ASSUME IInv, NEW e \in El, Processing(e)
               PROVE  /\ ~(pstate = "INIT" /\ apc = "idle")
                      /\ linked \/ e \in gave_up
    BY DEF RingsQuiet
  <2>1. el[e].is_open
    BY DEF IInv, AInv, LocalInv, Processing, Sound, Loop
  <2>2. ~(pstate = "INIT" /\ apc = "idle")
    BY <2>1 DEF IInv, AInv, ControlInv, PatientInv, CallInv, ClosedInv, Closing
  <2>3. ~linked => e \in gave_up
    BY DEF IInv, AInv, ControlInv, CallInv, EndedInv, Dropped, PastLoop, Processing
  <2>4. QED
    BY <2>2, <2>3
<1>2. QED
  BY <1>1, Invariance, PTL
-----------------------------------------------------------------------------
(***************************************************************************)
(* The promise made to the implementation of an element                     *)
(***************************************************************************)
Phases == [e \in El |-> Phase(e)]
Busy   == {e \in El : Processing(e)}

(* If one element moves, phase and busy change at that element only.       *)
LEMMA OneMoves ==
  ASSUME NEW t \in El,
         \A e \in El \ {t} : el'[e] = el[e] /\ tpc'[e] = tpc[e]
  PROVE  /\ Phases' = [Phases EXCEPT ![t] = Phase(t)']
         /\ Processing(t)' => Busy' = Busy \cup {t}
         /\ ~Processing(t)' => Busy' = Busy \ {t}
         /\ Phases[t] = Phase(t) /\ (t \in Busy <=> Processing(t))
<1>1. \A e \in El \ {t} : Phase(e)' = Phase(e) /\ Processing(e)' = Processing(e)
  BY DEF Phase, Processing
<1>2. QED
  BY <1>1 DEF Phases, Busy

LEMMA TaskLife ==
  ASSUME IInv, NEW t \in El, Task(t)
  PROVE  [Life!LNext]_<<Phases, Busy>>
<1> DEFINE x == el[t]
           pc == tpc[t]
           y == el'[t]
           qc == tpc'[t]
<1>1. /\ Effect(x, pc, y, qc) /\ Sound(x, pc)
      /\ \A e \in El \ {t} : el'[e] = el[e] /\ tpc'[e] = tpc[e]
  BY TaskAlone DEF IInv, AInv, LocalInv
<1>2. /\ Phases' = [Phases EXCEPT ![t] = Phase(t)']
      /\ Processing(t)' => Busy' = Busy \cup {t}
      /\ ~Processing(t)' => Busy' = Busy \ {t}
      /\ Phases[t] = Phase(t) /\ (t \in Busy <=> Processing(t))
      /\ Phases = [Phases EXCEPT ![t] = Phases[t]]
  BY <1>1, OneMoves DEF Phases
<1>3. /\ Processing(t) => x.is_open /\ pc \in {"read", "write"}
      /\ Processing(t)' => y.is_open /\ qc \in {"read", "write"}
      /\ pc = "open" => x.is_open /\ (qc = "open" => y.is_open)
      /\ qc = "open" => y.is_open
      /\ pc = "left" => ~x.is_open
  BY <1>1 DEF Effect, Sound, Processing, Loop, AtRest
<1>4. CASE pc \in {"none", "tail"}
  <2>1. qc = "none"
    BY <1>1, <1>4 DEF Effect
  <2>2. Phase(t) = "absent" /\ Phase(t)' = "absent" /\ ~Processing(t) /\ ~Processing(t)'
    BY <1>4, <2>1 DEF Phase, Processing
  <2>3. UNCHANGED <<Phases, Busy>>
    BY <1>2, <2>2
  <2>4. QED
    BY <2>3
<1>5. CASE pc \notin {"none", "tail"} /\ qc \in {"none", "tail"}
  <2>1. pc = "left"
    BY <1>1, <1>5 DEF Effect
  <2>2. Phase(t) = "closed" /\ Phase(t)' = "absent" /\ ~Processing(t) /\ ~Processing(t)'
    BY <1>3, <1>5, <2>1 DEF Phase, Processing
  <2>3. Life!Leave(t)
    BY <1>2, <2>2 DEF Life!Leave, Life!Move, Phases, Busy
  <2>4. QED
    BY <2>3 DEF Life!LNext
<1>6. CASE pc = "opening"
  <2>1. qc = "open"
    BY <1>1, <1>6 DEF Effect
  <2>2. Phase(t) = "opening" /\ Phase(t)' = "open" /\ ~Processing(t) /\ ~Processing(t)'
    BY <1>3, <1>6, <2>1 DEF Phase, Processing
  <2>3. Life!Opened(t)
    BY <1>2, <2>2 DEF Life!Opened, Life!Move, Phases, Busy
  <2>4. QED
    BY <2>3 DEF Life!LNext
<1>7. CASE qc = "opening"
  <2>1. x.state # "RUNNING" /\ pc \in {"loop", "read", "write"}
    BY <1>1, <1>7 DEF Effect
  <2>2. ~x.is_running
    BY <2>1 DEF IInv, AInv, PatientInv, StateInv, Loop
  <2>3. pc = "loop" /\ ~x.is_open
    BY <1>1, <2>1, <2>2 DEF Sound, Loop
  <2>4. Phase(t) = "closed" /\ Phase(t)' = "opening" /\ ~Processing(t) /\ ~Processing(t)'
    BY <1>7, <2>3 DEF Phase, Processing
  <2>5. Life!Opening(t)
    BY <1>2, <2>4 DEF Life!Opening, Life!Move, Phases, Busy
  <2>6. QED
    BY <2>5 DEF Life!LNext
<1>8. CASE pc \notin {"none", "tail", "opening"} /\ qc \notin {"none", "tail", "opening"}
  <2>1. y.is_open => x.is_open
    BY <1>1, <1>8 DEF Effect
  <2>2. /\ Phase(t) = IF x.is_open THEN "open" ELSE "closed"
        /\ Phase(t)' = IF y.is_open THEN "open" ELSE "closed"
    BY <1>8 DEF Phase
  <2>3. CASE y.is_open
    <3>1. Phase(t) = "open" /\ UNCHANGED Phases
      BY <1>2, <2>1, <2>2, <2>3
    <3>2. Life!Process(t) \/ Life!Return(t)
      BY <1>2, <3>1 DEF Life!Process, Life!Return, Phases, Busy
    <3>3. QED
      BY <3>2 DEF Life!LNext
  <2>4. CASE ~y.is_open /\ x.is_open
    <3>1. Phase(t) = "open" /\ Phase(t)' = "closed" /\ ~Processing(t)'
      BY <1>3, <2>2, <2>4
    <3>2. Life!Close(t)
      BY <1>2, <3>1 DEF Life!Close, Life!Move, Phases, Busy
    <3>3. QED
      BY <3>2 DEF Life!LNext
  <2>5. CASE ~y.is_open /\ ~x.is_open
    <3>1. UNCHANGED <<Phases, Busy>>
      BY <1>2, <1>3, <2>2, <2>5
    <3>2. QED
      BY <3>1
  <2>6. QED
    BY <2>3, <2>4, <2>5
<1>9. QED
  BY <1>4, <1>5, <1>6, <1>7, <1>8

LEMMA AppLife ==
  ASSUME IInv, App \/ Silent
  PROVE  [Life!LNext]_<<Phases, Busy>>
<1>1. Spared \/ Create
  BY AppMoves DEF IInv, AInv
<1>2. CASE Spared
  <2>1. \A e \in El : Phase(e)' = Phase(e) /\ Processing(e)' = Processing(e)
    BY <1>2 DEF Spared, Kept, Phase, Processing
  <2>2. UNCHANGED <<Phases, Busy>>
    BY <2>1 DEF Phases, Busy
  <2>3. QED
    BY <2>2
<1>3. CASE Create
  <2>0. PICK t \in El : t = cur
    BY DEF IInv, AInv, TypeOK
  <2>1. /\ Sound(el[t], tpc[t]) /\ ~el[t].task_run
        /\ el[t] \in Element /\ tpc[t] \in Tpc
    BY <1>3, <2>0 DEF IInv, AInv, TypeOK, LocalInv, Create, MustCreate
  <2>2. /\ el'[t] = Uncreated(t) /\ tpc'[t] = "start"
        /\ \A e \in El \ {t} : el'[e] = el[e] /\ tpc'[e] = tpc[e]
    BY <1>3, <2>0, CreatedSound DEF IInv, AInv
  <2>3. tpc[t] \notin {"read", "write", "opening"} /\ ~el[t].is_open
    BY <2>1 DEF Sound, AtRest
  <2>4. ~el'[t].is_open
    BY <2>1, <2>2, <2>3 DEF Uncreated, Element
  <2>5. ~Processing(t) /\ Phase(t) \in {"absent", "closed"}
    BY <2>3 DEF Processing, Phase
  <2>6. ~Processing(t)' /\ Phase(t)' = "closed"
    BY <2>2, <2>4 DEF Processing, Phase
  <2>7. /\ Phases' = [Phases EXCEPT ![t] = Phase(t)']
        /\ Busy' = Busy \ {t} /\ t \notin Busy /\ Phases[t] = Phase(t)
        /\ Phases = [Phases EXCEPT ![t] = Phases[t]]
    BY <2>2, <2>5, <2>6, OneMoves DEF Phases, Busy
  <2>8. CASE Phase(t) = "absent"
    <3>1. Life!Create(t)
      BY <2>5, <2>6, <2>7, <2>8 DEF Life!Create, Life!Move, Phases, Busy
    <3>2. QED
      BY <3>1 DEF Life!LNext
  <2>9. CASE Phase(t) = "closed"
    BY <2>5, <2>6, <2>7, <2>9
  <2>10. QED
    BY <2>5, <2>8, <2>9
<1>4. QED
  BY <1>1, <1>2, <1>3

(* A pipeline opens, uses and closes its elements in turn: never twice open, *)
(* never processed while closed, no task left without the close.            *)
THEOREM LifeKept == ASSUME Patient PROVE Spec => LifeSpec
<1>1. Init => Life!LInit
  BY DEF Init, ElInit, Life!LInit, Phase, Processing
<1>2. IInv /\ [Next]_vars => [Life!LNext]_<<Phases, Busy>>
  <2> SUFFICES ASSUME IInv, [Next]_vars PROVE [Life!LNext]_<<Phases, Busy>>
    OBVIOUS
  <2>1. CASE UNCHANGED vars
    BY <2>1 DEF vars, elvars, Phases, Busy, Phase, Processing
  <2>2. QED
    BY <2>1, NextSplit, AppLife, TaskLife
<1>3. QED
  BY <1>1, <1>2, Invariance, PTL
     DEF Spec, LifeSpec, Life!LSpec, Life!lvars, Phases, Busy
=============================================================================
