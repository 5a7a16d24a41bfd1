------------------------- MODULE AudioPipelineFreed -------------------------
(***************************************************************************)
(* A pipeline that is never paused.                                         *)
(*                                                                          *)
(* audio_element_terminate sends DESTROY without waiting for a place in the *)
(* queue, gives up if there is none, and the element is freed under its     *)
(* task.  Pauses that time out can fill a queue of any length.  Without     *)
(* them, which is how every caller in the repository uses a pipeline, a     *)
(* queue of two commands has a place for each one that is sent: a RESUME is *)
(* followed by nothing until the element has opened, and one STOP is sent   *)
(* for each start.  So the proof counts commands.                           *)
(***************************************************************************)
EXTENDS AudioPipelineProofs

(* The application calls neither audio_pipeline_pause nor                   *)
(* audio_pipeline_resume.                                                   *)
NoPause == Calls \cap {"pause", "resume"} = {}
PlainInv == call \notin {"pause", "resume"}

(* A run that failed: its elements are terminated, not stopped.            *)
Lost == pstate = "ERROR" \/ (call = "start" /\ apc # "idle" /\ ~ok)

(* From a stop to the resume of the next run.                              *)
Ahead(e)     == e > cur \/ (e = cur /\ apc = "resume")
Unresumed(e) == Closing \/ (call = "start" /\ apc # "idle" /\ Ahead(e))
Resting(e)   == Unresumed(e) \/ (call = "wait" /\ e < cur)

(* An element that rests is not in a state that a resume takes for one that *)
(* was resumed already.                                                     *)
Rest == {"INIT", "STOPPED", "PAUSED", "ERROR"}
RestInv == \A e \in El : Resting(e) =>
    ~el[e].is_open /\ ~Starting(e) /\ el[e].state \in Rest

(* The commands that a queue may hold.  To an element that rests at most    *)
(* the STOP was left that it stopped without; the RESUME of the next run is *)
(* behind it, and a stop finds both served.                                 *)
Has(s, c) == c \in {s[i] : i \in DOMAIN s}
Tidy(s) == /\ \A i \in DOMAIN s : s[i] = "RESUME" => i = Len(s)
           /\ Len(s) <= 2
           /\ Len(s) = 0 \/ Has(s, "RESUME")
Stopping(e) == Unresumed(e) \/ call = "wait" \/ (call = "stop" /\ e < cur)
Playing(e)  == call = "stop" /\ e >= cur
Queue(e) ==
    /\ Stopping(e) => Len(cmds[e]) <= IF apc = "gone" /\ e = cur THEN 2 ELSE 1
    /\ ~Stopping(e) => Tidy(cmds[e])
    /\ Playing(e) => cmds[e] = <<>>
QueueInv == ~Lost => \A e \in El : el[e].task_run => Queue(e)

(* A task begins and ends while the application waits for it.              *)
Passing == {"start", "init", "exit", "left"}
SettledInv ==
    /\ \A e \in El : tpc[e] \in Passing =>
         \/ Lost \/ call = "run" \/ (call = "start" /\ apc # "idle" /\ e >= cur)
         \/ apc = "gone" /\ e = cur
    /\ apc = "resumed" /\ Set("RESUMED") => tpc[cur] \notin Passing

(* terminate does not give up, and the tasks it waited for have ended.     *)
NoGiveUpInv ==
    pstate # "ERROR" =>
      /\ gave_up = {}
      /\ \A e \in El : Dropped(e) => tpc[e] \in {"none", "tail"}

FInv == PlainInv /\ RestInv /\ QueueInv /\ SettledInv /\ NoGiveUpInv
-----------------------------------------------------------------------------
(***************************************************************************)
(* Queues                                                                   *)
(***************************************************************************)
LEMMA TailTidy ==
  ASSUME NEW s \in Seq(Cmd), s # <<>>
  PROVE  /\ Len(Tail(s)) = Len(s) - 1 /\ Len(s) \in Nat
         /\ Has(Tail(s), "RESUME") => Has(s, "RESUME")
         /\ Tidy(s) => Tidy(Tail(s))
<1>1. /\ Len(Tail(s)) = Len(s) - 1 /\ Len(s) \in Nat \ {0}
      /\ DOMAIN s = 1..Len(s) /\ DOMAIN Tail(s) = 1..(Len(s) - 1)
      /\ \A i \in 1..(Len(s) - 1) : Tail(s)[i] = s[i + 1]
  OBVIOUS
<1>2. Has(Tail(s), "RESUME") => Has(s, "RESUME")
  <2>1. ASSUME NEW i \in DOMAIN Tail(s), Tail(s)[i] = "RESUME"
        PROVE  i + 1 \in DOMAIN s /\ s[i + 1] = "RESUME"
    BY <1>1, <2>1
  <2>2. QED
    BY <2>1 DEF Has
<1>3. ASSUME Tidy(s) PROVE Tidy(Tail(s))
  <2>1. ASSUME NEW i \in DOMAIN Tail(s), Tail(s)[i] = "RESUME"
        PROVE  i = Len(Tail(s))
    <3>1. i + 1 \in DOMAIN s /\ s[i + 1] = "RESUME" /\ i \in Nat
      BY <1>1, <2>1
    <3>2. i + 1 = Len(s)
      BY <1>3, <3>1 DEF Tidy
    <3>3. \A m, n \in Nat : m + 1 = n => m = n - 1
      OBVIOUS
    <3>4. i = Len(s) - 1
      BY <1>1, <3>1, <3>2, <3>3
    <3>5. QED
      BY <1>1, <3>4
  <2>2. Len(Tail(s)) <= 2
    BY <1>1, <1>3 DEF Tidy
  <2>3. ASSUME Len(Tail(s)) # 0 PROVE Has(Tail(s), "RESUME")
    <3>1. Has(s, "RESUME") /\ Len(s) > 1
      BY <1>1, <1>3, <2>3 DEF Tidy
    <3>2. PICK i \in DOMAIN s : s[i] = "RESUME"
      BY <3>1 DEF Has
    <3>3. i = Len(s)
      BY <1>3, <3>2 DEF Tidy
    <3>4. Len(s) - 1 \in DOMAIN Tail(s) /\ Tail(s)[Len(s) - 1] = "RESUME"
      BY <1>1, <3>1, <3>2, <3>3
    <3>5. QED
      BY <3>4 DEF Has
  <2>4. QED
    <3>1. \A i \in DOMAIN Tail(s) : Tail(s)[i] = "RESUME" => i = Len(Tail(s))
      BY <2>1
    <3>2. QED
      BY <2>2, <2>3, <3>1 DEF Tidy
<1>4. QED
  BY <1>1, <1>2, <1>3

LEMMA EmptyTidy == Len(<<>>) = 0 /\ Tidy(<<>>) /\ ~Has(<<>>, "RESUME")
  BY DEF Tidy, Has

LEMMA AppendTidy ==
  ASSUME NEW s \in Seq(Cmd), NEW c \in Cmd
  PROVE  /\ Len(Append(s, c)) = Len(s) + 1 /\ Len(s) \in Nat
         /\ Has(Append(s, c), "RESUME") => c = "RESUME" \/ Has(s, "RESUME")
         /\ c = "RESUME" /\ ~Has(s, "RESUME") /\ Len(s) <= 1 => Tidy(Append(s, c))
         /\ Append(s, c) # s
<1> DEFINE t == Append(s, c)
<1>1. /\ Len(t) = Len(s) + 1 /\ Len(s) \in Nat /\ t[Len(t)] = c
      /\ DOMAIN s = 1..Len(s) /\ DOMAIN t = 1..(Len(s) + 1)
      /\ \A i \in 1..Len(s) : t[i] = s[i]
  OBVIOUS
<1>2. \A i \in DOMAIN t : i = Len(t) \/ (i \in DOMAIN s /\ t[i] = s[i])
  BY <1>1
<1>3. Has(t, "RESUME") => c = "RESUME" \/ Has(s, "RESUME")
  BY <1>1, <1>2 DEF Has
<1>4. ASSUME c = "RESUME", ~Has(s, "RESUME"), Len(s) <= 1 PROVE Tidy(t)
  <2>1. Has(t, "RESUME")
    BY <1>1, <1>4 DEF Has
  <2>2. \A i \in DOMAIN t : t[i] = "RESUME" => i = Len(t)
    BY <1>2, <1>4 DEF Has
  <2>3. Len(t) <= 2
    BY <1>1, <1>4
  <2>4. QED
    BY <2>1, <2>2, <2>3 DEF Tidy
<1>5. t # s
  <2> HIDE DEF t
  <2>1. \A n \in Nat : n + 1 # n
    OBVIOUS
  <2>2. Len(t) # Len(s)
    BY <1>1, <2>1
  <2>3. QED
    BY <2>2
<1>6. QED
  BY <1>1, <1>3, <1>4, <1>5
-----------------------------------------------------------------------------
(***************************************************************************)
(* A step of a task                                                         *)
(***************************************************************************)
LEMMA FreedTask ==
  ASSUME IInv, FInv, NEW t \in El, Task(t), UNCHANGED appvars
  PROVE  FInv'
<1> USE DEF IInv, AInv, ControlInv, PatientInv, FInv
<1>0. \A e \in El : /\ Sound(el[e], tpc[e]) /\ el[e] \in Element
                    /\ cmds[e] \in Seq(Cmd) /\ cur \in El
  BY DEF LocalInv, TypeOK
<1>1. /\ Effect(el[t], tpc[t], el'[t], tpc'[t]) /\ Served(t)
      /\ \A e \in El \ {t} : /\ el'[e] = el[e] /\ tpc'[e] = tpc[e]
                             /\ cmds'[e] = cmds[e]
  BY TaskAlone DEF Served
<1>2. UNCHANGED <<call, apc, cur, ok, pstate, linked, freed, gave_up>>
  BY DEF appvars
<1>3. PatientInv'
  BY PatientTask
<1>4. Lost' = Lost /\ \A e \in El : /\ Resting(e)' = Resting(e)
                                    /\ Stopping(e)' = Stopping(e)
                                    /\ Playing(e)' = Playing(e)
  BY <1>2 DEF Lost, Resting, Unresumed, Closing, Ahead, Stopping, Playing
<1>5. RestInv'
  <2>1. ASSUME NEW e \in El, Resting(e)
        PROVE  ~el'[e].is_open /\ ~Starting(e)' /\ el'[e].state \in Rest
    <3>1. ~el[e].is_open /\ ~Starting(e) /\ el[e].state \in Rest
      BY <2>1 DEF RestInv
    <3>2. CASE e # t
      BY <1>1, <3>1, <3>2 DEF Starting, Queued
    <3>3. CASE e = t
      <4>1. tpc[t] \notin {"opening", "open"}
        BY <3>1, <3>3 DEF Starting
      <4>2. ~el'[t].is_open /\ el'[t].state \in Rest
        BY <1>1, <3>1, <3>3, <4>1 DEF Effect, Rest
      <4>3. tpc[t] \notin {"read", "write"}
        BY <1>0, <3>1, <3>3 DEF Sound, Loop
      <4>4. ~(tpc[t] = "loop" /\ tpc'[t] = "opening")
        BY <1>0, <1>1, <3>1, <3>3 DEF Sound, AtRest, Served, Starting
      <4>5. tpc'[t] \notin {"opening", "open"}
        BY <1>1, <4>1, <4>3, <4>4 DEF Effect
      <4>6. Queued(t, "RESUME")' /\ el'[t].task_run =>
              Queued(t, "RESUME") /\ el[t].task_run
        <5>1. Queued(t, "RESUME")' => Queued(t, "RESUME")
          BY <1>1 DEF Served, Cmd
        <5>2. Queued(t, "RESUME") => tpc[t] # "start"
          BY DEF StartInv, Queued
        <5>3. QED
          BY <1>1, <5>1, <5>2 DEF Effect
      <4>7. QED
        BY <3>1, <3>3, <4>2, <4>5, <4>6 DEF Starting
    <3>4. QED
      BY <3>2, <3>3
  <2>2. QED
    BY <1>4, <2>1 DEF RestInv
<1>6. ASSUME ~Lost, NEW e \in El, el'[e].task_run PROVE Queue(e)'
  <2>1. CASE cmds'[e] = cmds[e] /\ el[e].task_run
    BY <1>2, <1>4, <1>6, <2>1 DEF Queue, QueueInv
  <2>2. CASE cmds'[e] = cmds[e] /\ ~el[e].task_run
    <3>1. tpc[e] = "start"
      BY <1>1, <1>6, <2>2 DEF Effect
    <3>2. cmds'[e] = <<>>
      BY <2>2, <3>1 DEF StartInv
    <3>3. QED
      BY <3>2, EmptyTidy DEF Queue
  <2>3. CASE cmds[e] # <<>> /\ cmds'[e] = Tail(cmds[e])
    <3>1. tpc[e] # "start"
      BY <2>3 DEF StartInv
    <3>2. Queue(e)
      BY <1>1, <1>6, <3>1 DEF Effect, QueueInv
    <3>3. /\ Len(cmds'[e]) = Len(cmds[e]) - 1 /\ Len(cmds[e]) \in Nat
          /\ Has(cmds'[e], "RESUME") => Has(cmds[e], "RESUME")
          /\ Tidy(cmds[e]) => Tidy(cmds'[e])
      BY <1>0, <2>3, TailTidy
    <3>4. Stopping(e) => Len(cmds'[e]) <= IF apc = "gone" /\ e = cur THEN 2 ELSE 1
      BY <3>2, <3>3 DEF Queue
    <3>5. /\ ~Stopping(e) => Tidy(cmds'[e])
          /\ ~Playing(e)
      BY <2>3, <3>2, <3>3 DEF Queue
    <3>6. QED
      BY <1>2, <1>4, <3>4, <3>5 DEF Queue
  <2>4. QED
    BY <1>1, <1>6, <2>1, <2>2, <2>3 DEF Served, Effect
<1>7. QueueInv'
  BY <1>4, <1>6 DEF QueueInv
(* A task enters one of these points from another one, or on a DESTROY.    *)
<1>8. tpc'[t] \in Passing /\ tpc[t] \notin Passing =>
        pstate = "ERROR" \/ (apc = "gone" /\ cur = t)
  <2>1. ASSUME tpc'[t] \in Passing, tpc[t] \notin Passing
        PROVE  tpc[t] = "loop" /\ tpc'[t] = "exit"
    BY <1>1, <2>1 DEF Effect, Passing
  <2>2. tpc[t] = "loop" => el[t].task_run
    BY <1>0 DEF Sound, AtRest
  <2>3. QED
    BY <1>1, <2>1, <2>2 DEF Served, DestroyInv
<1>9. \A e \in El : tpc'[e] \in Passing /\ tpc[e] \notin Passing =>
        pstate = "ERROR" \/ (apc = "gone" /\ cur = e)
  BY <1>1, <1>8
<1>10. SettledInv'
  <2>1. ASSUME apc = "resumed", "RESUMED" \in el'[cur].bits, tpc'[cur] \in Passing
        PROVE  FALSE
    <3>1. pstate # "ERROR"
      BY <2>1, CallFacts DEF CallInv
    <3>2. tpc[cur] \in Passing
      BY <1>0, <1>9, <2>1, <3>1
    <3>3. "RESUMED" \notin el[cur].bits
      BY <2>1, <3>2 DEF SettledInv, Set
    <3>4. cur = t
      BY <1>0, <1>1, <2>1, <3>3
    <3>5. tpc'[t] \in {"run", "opening", "tail"}
      BY <1>1, <2>1, <3>3, <3>4 DEF Effect
    <3>6. QED
      BY <2>1, <3>4, <3>5 DEF Passing
  <2>2. QED
    BY <1>2, <1>4, <1>9, <2>1 DEF SettledInv, Lost, Set
<1>11. NoGiveUpInv'
  BY <1>1, <1>2 DEF NoGiveUpInv, Dropped, Effect
<1>12. PlainInv'
  BY <1>2 DEF PlainInv
<1>13. QED
  BY <1>5, <1>7, <1>10, <1>11, <1>12
-----------------------------------------------------------------------------
(***************************************************************************)
(* A step of the application                                                *)
(***************************************************************************)
(* What is added to the queue of the element that is called.               *)
Adds(pc, c) == apc = pc /\ c \in Cmd /\ cmds'[cur] = Append(cmds[cur], c)

LEMMA QueueSteps ==
  ASSUME TypeOK, LocalInv, App \/ Silent
  PROVE  /\ \A e \in El \ {cur} : cmds'[e] = cmds[e]
         /\ \/ cmds'[cur] = cmds[cur]
            \/ ~el'[cur].task_run
            \/ Adds("resume", "RESUME") /\ To("resumed")
            \/ Adds("pause", "PAUSE") /\ To("paused")
            \/ Adds("send", "STOP") /\ StopReturn
            \/ Adds("term", "DESTROY") /\ To("gone")
<1>0. /\ cur \in El /\ el[cur] \in Element /\ cmds \in [El -> Seq(Cmd)]
      /\ el \in [El -> Element]
  BY DEF TypeOK
<1>1. CASE UNCHANGED cmds
  BY <1>1
<1>2. CASE Create \/ CreateFail
  <2>1. \A e \in El \ {cur} : cmds'[e] = cmds[e]
    BY <1>0, <1>2 DEF Create, CreateFail
  <2>2. ~el'[cur].task_run
    <3>1. ~el[cur].task_run
      BY <1>2 DEF Create, CreateFail, MustCreate
    <3>2. CASE Create
      BY <1>0, <3>1, <3>2, CreatedSound DEF Uncreated, Element
    <3>3. CASE CreateFail
      BY <1>0, <3>1, <3>3 DEF CreateFail, Upd, Uncreated, Element
    <3>4. QED
      BY <1>2, <3>2, <3>3
  <2>3. QED
    BY <2>1, <2>2
<1>3. ASSUME NEW c \in Cmd, Send(c)
      PROVE  /\ \A e \in El \ {cur} : cmds'[e] = cmds[e]
             /\ cmds'[cur] = Append(cmds[cur], c)
  BY <1>0, <1>3 DEF Send
<1>4. CASE Resume
  BY <1>0, <1>3, <1>4 DEF Resume, Adds, Cmd
<1>5. CASE Pause
  BY <1>0, <1>3, <1>5 DEF Pause, Adds, Cmd
<1>6. CASE SendStop
  BY <1>0, <1>3, <1>6 DEF SendStop, Adds, Cmd
<1>7. CASE Terminate
  BY <1>0, <1>3, <1>7 DEF Terminate, Adds, Cmd
<1>8. CASE PauseNot \/ StopAtRest \/ ClearStopped \/ ResetState
  BY <1>1, <1>8 DEF PauseNot, StopAtRest, ClearStopped, ResetState
<1>9. QED
  BY <1>1, <1>2, <1>4, <1>5, <1>6, <1>7, <1>8, SilentTypes
     DEF App, Silent, Terminating

(* A run that has failed is not taken for a good one.                      *)
LEMMA LostKept ==
  ASSUME TypeOK, CallInv, App \/ Silent, Lost
  PROVE  Lost'
<1>1. CASE pstate = "ERROR"
  BY <1>1, CalmBefore DEF Lost
<1>2. CASE call = "start" /\ apc # "idle" /\ ~ok
  <2>1. CASE Stay
    BY <1>2, <2>1 DEF Stay, Lost
  <2>2. CASE Back
    <3>1. PICK good \in BOOLEAN : Return(good)
      BY <2>2 DEF Back
    <3>2. QED
      BY <1>2, <3>1 DEF Return, Finish, Lost, First
  <2>3. CASE Leaves \/ \E c \in DOMAIN First : Call(c)
    BY <1>2, <2>3 DEF Leaves, Call
  <2>4. CASE ResetRingbuffer
    BY <1>2, <2>4 DEF ResetRingbuffer
  <2>5. QED
    BY <2>1, <2>2, <2>3, <2>4, AppControl
<1>3. QED
  BY <1>1, <1>2 DEF Lost

(* A run goes on to the next element only when this one was sent a RESUME  *)
(* and has answered it.                                                     *)
LEMMA StartSteps ==
  ASSUME IInv, FInv, App \/ Silent, call = "start", apc # "idle", ~Lost'
  PROVE  \/ apc = "resume" /\ Send("RESUME") /\ To("resumed")
         \/ apc = "resumed" /\ Set("RESUMED") /\ Return(TRUE)
<1>0. /\ TypeOK /\ CallInv /\ RestInv /\ cur \in El
  BY DEF IInv, AInv, ControlInv, FInv, TypeOK
<1>1. ASSUME NEW good, Return(good), ~(ok /\ good)
      PROVE  FALSE
  BY <1>0, <1>1 DEF Return, Finish, Lost, First
<1>2. CASE apc = "resume"
  <2>1. el[cur].state \in Rest
    BY <1>0, <1>2 DEF RestInv, Resting, Unresumed, Ahead
  <2>2. CASE ResumeNot
    <3>1. ~(el[cur].task_run /\ el[cur].state # "ERROR")
      BY <2>1, <2>2 DEF ResumeNot, Rest
    <3>2. QED
      BY <1>1, <2>2, <3>1 DEF ResumeNot
  <2>3. CASE Resume
    BY <1>1, <1>2, <2>3 DEF Resume
  <2>4. QED
    BY <1>2, <2>2, <2>3, ActionAt
<1>3. CASE apc = "resumed"
  <2>1. Return(Set("RESUMED"))
    BY <1>3, ActionAt DEF Resumed
  <2>2. Set("RESUMED")
    BY <1>1, <2>1
  <2>3. Set("RESUMED") = TRUE
    BY <2>2 DEF Set
  <2>4. QED
    BY <1>3, <2>1, <2>2, <2>3
<1>4. QED
  BY <1>0, <1>2, <1>3 DEF CallInv, Points

(* An element that rests after a step of the application did so before, but *)
(* for the one whose wait returns.                                          *)
LEMMA RestedBefore ==
  ASSUME IInv, App \/ Silent, NEW e \in El, Resting(e)'
  PROVE  /\ Resting(e) \/ (call = "wait" /\ apc = "reset" /\ e = cur)
         /\ apc = "resume" => e # cur
<1>0. /\ TypeOK /\ CallInv /\ cur \in El /\ N \in Nat
      /\ e \in Nat /\ cur \in Nat /\ 1 <= e /\ e <= N
  BY ElementAssumption DEF IInv, AInv, ControlInv, TypeOK, El
<1>1. call \in DOMAIN First
  BY <1>0 DEF TypeOK
<1>2. CASE Stay
  BY <1>0, <1>2, CallFacts DEF Stay, Resting, Unresumed, Closing, Ahead, CallInv
<1>3. CASE Back
  <2>1. call = "wait" => apc = "reset"
    BY <1>0, <1>3 DEF Back, CallInv, Points
  <2>2. CASE cur < N /\ cur' = cur + 1 /\ apc' = First[call]
             /\ UNCHANGED <<call, pstate, linked>>
    BY <1>0, <1>3, <2>1, <2>2, CallFacts
       DEF Back, Resting, Unresumed, Closing, Ahead, CallInv
  <2>3. CASE /\ cur = N /\ UNCHANGED pstate
             /\ \/ call = "run" /\ Enter("start")
                \/ call = "deinit" /\ Enter("destroy")
    BY <1>0, <2>3, CallFacts DEF Resting, Unresumed, Closing, CallInv, Enter
  <2>4. CASE cur = N /\ call = "stop" /\ Enter("wait") /\ UNCHANGED pstate
    BY <1>0, <2>4, CallFacts DEF Resting, Unresumed, Closing, CallInv, Enter
  <2>5. CASE call = "start" /\ Enter("undo") /\ pstate' = "ERROR"
    BY <2>5 DEF Resting, Unresumed, Closing, Enter
  <2>6. CASE /\ cur = N /\ apc' = "idle" /\ UNCHANGED <<call, cur>>
             /\ call \in {"start", "resume", "pause", "wait", "terminate", "undo"}
             /\ pstate' = IF call = "wait" THEN "INIT"
                          ELSE IF call \in {"start", "resume"} THEN "RUNNING" ELSE pstate
    BY <1>0, <2>1, <2>6, CallFacts DEF Resting, Unresumed, Closing, CallInv
  <2>7. QED
    BY <1>0, <1>3, <2>2, <2>3, <2>4, <2>5, <2>6, BackFacts
<1>4. CASE Leaves
  BY <1>0, <1>4, CallFacts DEF Leaves, Resting, Unresumed, Closing, CallInv
<1>5. CASE \E c \in DOMAIN First : Call(c)
  BY <1>0, <1>5 DEF Call, May, Enter, Resting, Unresumed, Closing, CallInv
<1>6. CASE ResetRingbuffer /\ UNCHANGED appvars
  BY <1>6 DEF ResetRingbuffer, appvars, Resting, Unresumed, Closing, Ahead
<1>7. QED
  BY <1>0, <1>2, <1>3, <1>4, <1>5, <1>6, AppControl

LEMMA RestApp ==
  ASSUME IInv, FInv, App \/ Silent
  PROVE  RestInv'
<1> USE DEF IInv, AInv, ControlInv, PatientInv, FInv
<1>0. /\ TypeOK /\ LocalInv /\ cur \in El
      /\ \A e \in El : el[e] \in Element
  BY DEF TypeOK
<1>1. Sent /\ (Spared \/ Create)
  BY AppMoves
<1>2. ASSUME NEW e \in El, Resting(e)'
      PROVE  ~el'[e].is_open /\ ~Starting(e)' /\ el'[e].state \in Rest
  <2>1. Resting(e) \/ (call = "wait" /\ apc = "reset" /\ e = cur)
    BY <1>2, RestedBefore
  <2>2. ~el[e].is_open /\ ~Starting(e)
    BY <1>0, <2>1 DEF RestInv, ClosedInv, CalmInv, Calm
  <2>3. Queued(e, "RESUME")' => Queued(e, "RESUME")
    BY <1>1, <1>2, RestedBefore DEF Sent, Cmd
  <2>4. CASE Spared
    <3>1. tpc'[e] = tpc[e] /\ Kept(el[e], el'[e])
      BY <2>4 DEF Spared
    <3>2. CASE Resting(e)
      BY <2>2, <2>3, <3>1, <3>2 DEF Kept, Starting, RestInv, Rest
    <3>3. CASE apc = "reset" /\ e = cur
      <4>1. el' = [el EXCEPT ![cur] = [el[cur] EXCEPT !.state = "INIT"]]
        BY <3>3, ActionAt DEF ResetState, Upd
      <4>2. el'[e].state = "INIT"
        BY <1>0, <3>3, <4>1 DEF TypeOK, Element
      <4>3. QED
        BY <2>2, <2>3, <3>1, <4>2 DEF Kept, Starting, Rest
    <3>4. QED
      BY <2>1, <3>2, <3>3
  <2>5. CASE Create
    <3>1. Resting(e)
      BY <2>1, <2>5 DEF Create
    <3>2. CASE e = cur
      <4>1. el'[e] = Uncreated(e) /\ tpc'[e] = "start" /\ ~el[e].task_run
        BY <2>5, <3>2, CreatedSound DEF Create, MustCreate
      <4>2. QED
        BY <1>0, <2>2, <3>1, <4>1 DEF Uncreated, Element, Starting, RestInv
    <3>3. CASE e # cur
      BY <2>2, <2>3, <2>5, <3>1, <3>3, CreatedSound DEF Starting, RestInv
    <3>4. QED
      BY <3>2, <3>3
  <2>6. QED
    BY <1>1, <2>4, <2>5
<1>3. QED
  BY <1>2 DEF RestInv

(* Only a stop makes an element one that plays to the end, and it waits     *)
(* for the element to open.                                                 *)
LEMMA PlainCall ==
  ASSUME TypeOK, CallInv, NoPause, PlainInv, App \/ Silent
  PROVE  PlainInv'
<1>1. \A c \in DOMAIN First : Call(c) => c \notin {"pause", "resume"}
  BY DEF Call, NoPause
<1>2. CASE Back
  BY <1>2, BackFacts DEF PlainInv, Enter
<1>3. CASE Stay \/ Leaves \/ UNCHANGED appvars
  BY <1>3 DEF Stay, Leaves, appvars, PlainInv
<1>4. CASE \E c \in DOMAIN First : Call(c)
  BY <1>1, <1>4 DEF Call, Enter, PlainInv
<1>5. QED
  BY <1>2, <1>3, <1>4, AppControl

(* The bounds hold on while the application goes on and nothing is sent.   *)
LEMMA QueueMoves ==
  ASSUME Patient, NoPause, PlainInv, IInv, App \/ Silent, ~Lost', pstate # "ERROR",
         NEW e \in El, Queue(e), el[e].task_run, cmds'[e] = cmds[e],
         e = cur => apc # "gone" /\ ~(call = "start" /\ apc = "resume")
  PROVE  Queue(e)'
<1> DEFINE s == cmds[e]
<1>0. /\ TypeOK /\ CallInv /\ s \in Seq(Cmd) /\ Len(s) \in Nat
      /\ e \in Nat /\ cur \in Nat /\ N \in Nat /\ 1 <= e /\ e <= N
  BY ElementAssumption DEF IInv, AInv, ControlInv, TypeOK, El
<1>1. /\ Stopping(e) => Len(s) <= 1
      /\ ~Stopping(e) => Tidy(s)
      /\ Playing(e) => s = <<>>
  BY DEF Queue
<1>2. ASSUME /\ Stopping(e)' => Len(s) <= 1
             /\ ~Stopping(e)' => Tidy(s)
             /\ Playing(e)' => s = <<>>
      PROVE  Queue(e)'
  <2>1. Len(s) <= 1 => Len(s) <= IF apc' = "gone" /\ e = cur' THEN 2 ELSE 1
    BY <1>0
  <2>2. QED
    BY <1>2, <2>1 DEF Queue
<1> HIDE DEF s
<1>3. CASE Stay
  <2>1. (Stopping(e)' <=> Stopping(e)) /\ (Playing(e)' => Playing(e))
    BY <1>0, <1>3, CallFacts DEF Stay, Stopping, Playing, Unresumed, Closing, Ahead
  <2>2. QED
    BY <1>1, <1>2, <2>1
<1>4. CASE Back
  <2>1. CASE cur < N /\ cur' = cur + 1 /\ apc' = First[call]
             /\ UNCHANGED <<call, pstate, linked>>
    <3>1. Stopping(e)' /\ ~Stopping(e) => Playing(e)
      BY <1>0, <1>4, <2>1 DEF Back, First, Stopping, Playing, Unresumed, Closing, Ahead
    <3>2. ~Stopping(e)' => ~Stopping(e)
      BY <1>0, <1>4, <2>1, CallFacts
         DEF Back, First, CallInv, Stopping, Playing, Unresumed, Closing, Ahead
    <3>3. Playing(e)' => Playing(e)
      BY <1>0, <2>1 DEF Playing
    <3>4. QED
      BY <1>1, <1>2, <3>1, <3>2, <3>3, EmptyTidy
  <2>2. CASE call = "run" /\ Enter("start") /\ UNCHANGED pstate
    <3>1. Stopping(e) /\ Stopping(e)' /\ ~Playing(e)'
      BY <1>0, <2>2
         DEF Enter, First, CallInv, Stopping, Playing, Unresumed, Closing, Ahead
    <3>2. QED
      BY <1>1, <1>2, <3>1
  <2>3. CASE cur = N /\ call = "stop" /\ Enter("wait") /\ UNCHANGED pstate
    <3>1. Stopping(e) \/ Playing(e)
      BY <1>0, <2>3 DEF Stopping, Playing
    <3>2. Stopping(e)' /\ ~Playing(e)'
      BY <2>3 DEF Enter, Stopping, Playing
    <3>3. QED
      BY <1>1, <1>2, <3>1, <3>2, EmptyTidy
  <2>4. CASE call = "start" /\ pstate' = "ERROR"
    BY <2>4 DEF Lost
  <2>5. CASE call = "deinit" /\ Enter("destroy") /\ UNCHANGED pstate
    <3>1. Stopping(e) /\ Stopping(e)' /\ ~Playing(e)'
      BY <1>0, <2>5 DEF Enter, CallInv, Stopping, Playing, Unresumed, Closing
    <3>2. QED
      BY <1>1, <1>2, <3>1
  <2>6. CASE /\ cur = N /\ apc' = "idle" /\ UNCHANGED <<call, cur, linked>>
             /\ call \in {"start", "resume", "pause", "wait", "terminate", "undo"}
             /\ pstate' = IF call = "wait" THEN "INIT"
                          ELSE IF call \in {"start", "resume"} THEN "RUNNING" ELSE pstate
    <3>1. ~Stopping(e)' => ~Stopping(e)
      BY <1>0, <2>6 DEF CallInv, Stopping, Unresumed, Closing, Ahead
    <3>2. Stopping(e)' => Stopping(e)
      BY <1>0, <2>6 DEF CallInv, Stopping, Unresumed, Closing, Ahead
    <3>3. ~Playing(e)'
      BY <2>6 DEF Playing
    <3>4. QED
      BY <1>1, <1>2, <3>1, <3>2, <3>3
  <2>7. QED
    BY <1>0, <1>4, <2>1, <2>2, <2>3, <2>4, <2>5, <2>6, BackFacts
<1>5. CASE Leaves
  <2>1. Stopping(e) /\ Stopping(e)' /\ ~Playing(e)'
    BY <1>0, <1>5 DEF Leaves, CallInv, Stopping, Playing, Unresumed, Closing
  <2>2. QED
    BY <1>1, <1>2, <2>1
<1>6. CASE \E c \in DOMAIN First : Call(c)
  <2>1. PICK c \in DOMAIN First : Call(c)
    BY <1>6
  <2>2. /\ call' = c /\ cur' = 1 /\ apc' = First[c] /\ UNCHANGED pstate
        /\ apc = "idle" /\ May(c) /\ c \notin {"pause", "resume"}
    BY <2>1 DEF Call, Enter, NoPause
  <2>3. CASE c \in {"run", "terminate", "deinit"}
    <3>1. Stopping(e) /\ Stopping(e)' /\ ~Playing(e)'
      BY <1>0, <2>2, <2>3 DEF May, CallInv, Stopping, Playing, Unresumed, Closing
    <3>2. QED
      BY <1>1, <1>2, <3>1
  <2>4. CASE c = "stop"
    <3>1. ~Has(s, "RESUME")
      BY <2>2, <2>4 DEF May, Starting, Queued, Has, s
    <3>2. ~Stopping(e) /\ ~Stopping(e)'
      BY <1>0, <2>2, <2>4
         DEF May, CallInv, Points, Stopping, Unresumed, Closing
    <3>3. Tidy(s) /\ s = <<>>
      BY <1>0, <1>1, <3>1, <3>2 DEF Tidy
    <3>4. QED
      BY <1>2, <3>2, <3>3
  <2>5. QED
    BY <2>2, <2>3, <2>4 DEF May
<1>7. CASE ResetRingbuffer /\ UNCHANGED appvars
  <2>1. Stopping(e)' = Stopping(e) /\ Playing(e)' = Playing(e)
    BY <1>7 DEF appvars, Stopping, Playing, Unresumed, Closing, Ahead
  <2>2. QED
    BY <1>1, <1>2, <2>1
<1>8. QED
  BY <1>0, <1>3, <1>4, <1>5, <1>6, <1>7, AppControl

LEMMA QueueApp ==
  ASSUME Patient, NoPause, IInv, FInv, App \/ Silent
  PROVE  QueueInv'
<1> USE DEF IInv, AInv, ControlInv, PatientInv, FInv
<1>0. /\ TypeOK /\ LocalInv /\ CallInv /\ cur \in El /\ CmdMax \in Nat
      /\ \A e \in El : Sound(el[e], tpc[e]) /\ cmds[e] \in Seq(Cmd)
  BY ElementAssumption DEF TypeOK, LocalInv
<1>1. ASSUME ~Lost', NEW e \in El, el'[e].task_run
      PROVE  Queue(e)'
  <2>1. ~Lost /\ ~(pstate = "ERROR")
    BY <1>0, <1>1, LostKept DEF Lost
  <2>2. el[e].task_run
    <3>1. CASE Spared
      BY <1>1, <3>1 DEF Spared, Kept
    <3>2. CASE Create
      BY <1>0, <1>1, <3>2, CreatedSound DEF Sound, AtRest
    <3>3. QED
      BY <1>0, <3>1, <3>2, AppMoves
  <2>3. Queue(e)
    BY <1>1, <2>1, <2>2 DEF QueueInv
  <2> DEFINE s == cmds[e]
  <2>4. /\ s \in Seq(Cmd) /\ Len(s) \in Nat
        /\ \A c \in Cmd : /\ Len(Append(s, c)) = Len(s) + 1 /\ Append(s, c) # s
                          /\ Has(Append(s, c), "RESUME") => c = "RESUME" \/ Has(s, "RESUME")
                          /\ c = "RESUME" /\ ~Has(s, "RESUME") /\ Len(s) <= 1
                               => Tidy(Append(s, c))
                          /\ Append(s, c) \in Seq(Cmd)
    BY <1>0, AppendTidy
  <2>5. /\ Stopping(e) /\ apc # "gone" => Len(s) <= 1
        /\ ~Stopping(e) => Tidy(s)
        /\ Playing(e) => s = <<>>
    BY <2>3 DEF Queue
  <2> HIDE DEF s
(* The task that terminate has waited for has no queue any more.           *)
  <2>6. ~(apc = "gone" /\ e = cur)
    <3>1. ASSUME apc = "gone", e = cur PROVE FALSE
      <4>1. Set("DESTROYED") \/ TimedOut
        BY <3>1, ActionAt DEF Terminated
      <4>2. ~Set("DESTROYED")
        BY <1>0, <2>2, <3>1 DEF GoneInv, Sound, AtRest
      <4>3. el[e].is_open
        BY <1>0, <3>1, <4>1, <4>2 DEF TimedOut, Blocked, Stuck, Sound, Loop
      <4>4. QED
        BY <1>0, <2>1, <3>1, <4>3, CallFacts DEF ClosedInv, Closing, CallInv
    <3>2. QED
      BY <3>1
  <2>7. CASE cmds'[e] = s
    <3>1. CASE e = cur /\ call = "start" /\ apc = "resume"
      <4>1. cmds'[e] = Append(s, "RESUME")
        BY <1>0, <1>1, <3>1, StartSteps DEF Send, s, TypeOK
      <4>2. QED
        BY <2>4, <2>7, <4>1 DEF Cmd
    <3>2. CASE ~(e = cur /\ call = "start" /\ apc = "resume")
      BY <1>0, <1>1, <2>1, <2>2, <2>3, <2>6, <2>7, <3>2, QueueMoves DEF s
    <3>3. QED
      BY <3>1, <3>2
  <2>8. CASE e = cur /\ Adds("resume", "RESUME") /\ To("resumed")
    <3>1. call = "start"
      BY <1>0, <2>8, CallFacts DEF Adds, PlainInv
    <3>2. Unresumed(e)
      BY <2>8, <3>1 DEF Unresumed, Ahead, Adds
    <3>3. ~Has(s, "RESUME")
      BY <2>2, <3>2 DEF RestInv, Resting, Starting, Queued, Has, s
    <3>4. Tidy(cmds'[e])
      BY <2>4, <2>5, <2>8, <3>2, <3>3 DEF Adds, Stopping, s
    <3>5. /\ ~Stopping(e)' /\ ~Playing(e)'
      BY <1>0, <2>8, <3>1
         DEF To, Stopping, Playing, Unresumed, Closing, Ahead, CallInv, El, Adds
    <3>6. QED
      BY <3>4, <3>5 DEF Queue
  <2>9. ~(Adds("pause", "PAUSE") /\ To("paused"))
    BY <1>0, CallFacts DEF Adds, PlainInv
  <2>10. CASE e = cur /\ Adds("send", "STOP") /\ StopReturn
    <3>1. CASE call = "destroy"
      <4>1. tpc[e] \in {"none", "tail"}
        BY <1>0, <2>1, <3>1 DEF NoGiveUpInv, Dropped, CallInv
      <4>2. QED
        BY <1>0, <2>2, <4>1 DEF Sound, AtRest
    <3>2. CASE call = "stop"
      <4>1. s = <<>>
        BY <1>0, <2>5, <2>10, <3>2 DEF Playing, El
      <4>2. Len(cmds'[e]) <= 1
        BY <2>4, <2>10, <4>1, EmptyTidy DEF Adds, s
      <4>3. Back
        BY <2>10, <3>2 DEF Back, StopReturn, Adds
      <4>4. Stopping(e)' /\ ~Playing(e)'
        BY <1>0, <2>10, <3>2, <4>3, BackFacts
           DEF Stopping, Playing, Enter, CallInv, El
      <4>5. QED
        BY <4>2, <4>4 DEF Queue
    <3>3. QED
      BY <1>0, <2>10, <3>1, <3>2, CallFacts DEF Adds
  <2>11. CASE e = cur /\ Adds("term", "DESTROY") /\ To("gone")
    <3>1. Closing
      BY <1>0, <2>1, <2>11, CallFacts DEF Adds, CallInv, Closing
    <3>2. Len(cmds'[e]) <= 2
      BY <2>4, <2>5, <2>11, <3>1 DEF Adds, s, Stopping, Unresumed
    <3>3. Closing' /\ apc' = "gone" /\ cur' = e /\ call' = call
      BY <1>0, <2>11, <3>1 DEF To, Closing, CallInv
    <3>4. Stopping(e)' /\ ~Playing(e)'
      BY <1>0, <3>1, <3>3 DEF Stopping, Playing, Unresumed, Closing, CallInv
    <3>5. QED
      BY <3>2, <3>3, <3>4 DEF Queue
  <2>12. QED
    BY <1>0, <1>1, <2>7, <2>8, <2>9, <2>10, <2>11, QueueSteps DEF s
<1>2. QED
  BY <1>1 DEF QueueInv

(* When terminate is done with an element, its task has ended.             *)
LEMMA TerminateWins ==
  ASSUME IInv, FInv, CmdMax >= 2, App \/ Silent, pstate # "ERROR",
         apc \in {"term", "gone"}
  PROVE  /\ apc' # "gone" => tpc[cur] \in {"none", "tail"}
         /\ gave_up' \subseteq gave_up
<1> USE DEF IInv, AInv, ControlInv, PatientInv, FInv
<1>0. /\ TypeOK /\ CallInv /\ cur \in El /\ Sound(el[cur], tpc[cur])
      /\ tpc[cur] \in Tpc /\ CmdMax \in Nat /\ Len(cmds[cur]) \in Nat
  BY ElementAssumption DEF TypeOK, LocalInv
<1>1. /\ call \in {"terminate", "deinit", "destroy"} /\ pstate = "INIT"
      /\ Closing /\ ~Lost
  BY <1>0, CallFacts DEF CallInv, Closing, Lost
<1>2. CASE TerminateNot
  <2>1. tpc[cur] \in AtRest \cup {"exit"}
    BY <1>0, <1>2 DEF TerminateNot, Sound
  <2>2. tpc[cur] \notin Passing
    BY <1>0, <1>1, <1>2 DEF TerminateNot, SettledInv
  <2>3. QED
    BY <1>2, <2>1, <2>2 DEF TerminateNot, TermReturn, AtRest, Passing
<1>3. CASE Terminate
  <2>1. Len(cmds[cur]) <= 1
    BY <1>0, <1>1, <1>3 DEF Terminate, QueueInv, Queue, Stopping, Unresumed
  <2>2. ~Full
    BY <1>0, <2>1 DEF Full
  <2>3. QED
    BY <1>3, <2>2 DEF Terminate, To
<1>4. CASE Terminated
  <2>1. ~TimedOut
    <3>1. TimedOut => el[cur].is_open
      BY <1>0 DEF TimedOut, Blocked, Stuck, Sound, Loop
    <3>2. QED
      BY <1>0, <1>1, <3>1 DEF ClosedInv
  <2>2. Set("DESTROYED")
    BY <1>4, <2>1 DEF Terminated
  <2>3. tpc[cur] \in {"none", "tail"}
    BY <1>4, <2>2 DEF Terminated, GoneInv
  <2>4. gave_up' \subseteq gave_up
    BY <1>4, <2>2 DEF Terminated, TermReturn
  <2>5. QED
    BY <2>3, <2>4
<1>5. QED
  BY <1>2, <1>3, <1>4, ActionAt

LEMMA SettledApp ==
  ASSUME IInv, FInv, App \/ Silent
  PROVE  SettledInv'
<1> USE DEF IInv, AInv, ControlInv, PatientInv, FInv
<1>0. /\ TypeOK /\ LocalInv /\ CallInv /\ cur \in El /\ cur \in Nat /\ N \in Nat
      /\ \A e \in El : /\ Sound(el[e], tpc[e])
                       /\ e \in Nat /\ 1 <= e /\ e <= N
  BY ElementAssumption DEF TypeOK, LocalInv, El
<1>1. ASSUME ~Lost', NEW e \in El, tpc[e] \in Passing
      PROVE  call' = "run" \/ (call' = "start" /\ apc' # "idle" /\ e >= cur')
  <2>1. ~Lost /\ ~(pstate = "ERROR")
    BY <1>0, <1>1, LostKept DEF Lost
  <2>2. CASE call = "run"
    BY <1>0, <2>2, AppControl, BackFacts, CallFacts
       DEF Stay, Leaves, Enter, First, Call, CallInv, Points, appvars
  <2>3. CASE call = "start" /\ apc # "idle" /\ e >= cur
    <3>1. CASE apc = "resume" /\ To("resumed")
      BY <2>3, <3>1 DEF To
    <3>2. CASE apc = "resumed" /\ Set("RESUMED") /\ Return(TRUE)
      <4>1. e # cur
        BY <1>1, <3>2 DEF SettledInv
      <4>2. cur < N /\ e >= cur + 1
        BY <1>0, <2>3, <4>1
      <4>3. QED
        BY <2>3, <3>2, <4>2 DEF Return, First
    <3>3. QED
      BY <1>1, <2>3, <3>1, <3>2, StartSteps
  <2>4. ~(apc = "gone" /\ e = cur)
    <3>1. ASSUME apc = "gone", e = cur PROVE FALSE
      <4>1. Set("DESTROYED") \/ TimedOut
        BY <3>1, ActionAt DEF Terminated
      <4>2. ~Set("DESTROYED") \/ tpc[e] \in {"none", "tail"}
        BY <3>1 DEF GoneInv
      <4>3. QED
        BY <1>1, <3>1, <4>1, <4>2 DEF TimedOut, Blocked, Stuck, Passing
    <3>2. QED
      BY <3>1
  <2>5. QED
    BY <1>1, <2>1, <2>2, <2>3, <2>4 DEF SettledInv
<1>2. ASSUME NEW e \in El
      PROVE  tpc'[e] = tpc[e] \/ call' = "run"
  <2>1. CASE Spared
    BY <2>1 DEF Spared
  <2>2. CASE Create
    BY <1>0, <2>2, CallFacts DEF Create, To
  <2>3. QED
    BY <1>0, <2>1, <2>2, AppMoves
<1>3. apc' = "resumed" => "RESUMED" \notin el'[cur'].bits
  <2>1. \A c \in DOMAIN First : First[c] # "resumed"
    BY FirstFacts DEF First
  <2>2. CASE Stay
    BY <2>2 DEF Stay
  <2>3. CASE Back
    BY <1>0, <2>1, <2>3, BackFacts, FirstFacts DEF Enter, TypeOK
  <2>4. CASE Leaves
    BY <2>4 DEF Leaves
  <2>5. CASE \E c \in DOMAIN First : Call(c)
    BY <2>1, <2>5 DEF Call, Enter
  <2>6. CASE ResetRingbuffer /\ UNCHANGED appvars
    BY <2>6 DEF ResetRingbuffer, appvars
  <2>7. QED
    BY <1>0, <2>2, <2>3, <2>4, <2>5, <2>6, AppControl
<1>4. QED
  BY <1>1, <1>2, <1>3 DEF SettledInv, Set

LEMMA NoGiveUpApp ==
  ASSUME IInv, FInv, CmdMax >= 2, App \/ Silent, GaveUp
  PROVE  NoGiveUpInv'
<1> USE DEF IInv, AInv, ControlInv, FInv
<1>0. TypeOK /\ LocalInv /\ CallInv
  OBVIOUS
<1>1. ASSUME pstate' # "ERROR" PROVE gave_up' = {}
  <2>1. pstate # "ERROR" /\ (apc \in {"term", "gone"} => pstate = "INIT")
    BY <1>0, <1>1, CallFacts, CalmBefore DEF CallInv
  <2>2. CASE Terminating
    <3>1. apc \in {"term", "gone"}
      BY <2>2 DEF Terminating, TerminateNot, Terminate, Terminated
    <3>2. gave_up' \subseteq gave_up
      BY <2>1, <3>1, TerminateWins
    <3>3. QED
      BY <2>1, <3>1, <3>2 DEF NoGiveUpInv
  <2>3. CASE UNCHANGED gave_up
    BY <2>1, <2>3 DEF NoGiveUpInv
  <2>4. QED
    BY <2>2, <2>3 DEF GaveUp
<1>2. ASSUME pstate' # "ERROR", NEW e \in El, Dropped(e)'
      PROVE  tpc'[e] \in {"none", "tail"}
  <2>0. Dropped(e) \/ (e = cur /\ apc \in {"term", "gone"} /\ apc' # "gone")
    BY <1>0, <1>2, DroppedBefore
  <2>1. pstate = "INIT" /\ call # "run"
    <3>1. call \in {"undo", "terminate", "deinit", "destroy"}
      BY <1>0, <2>0, CallFacts DEF Dropped
    <3>2. pstate \in {"INIT", "ERROR"}
      BY <1>0, <3>1 DEF CallInv
    <3>3. pstate # "ERROR"
      BY <1>0, <1>2, CalmBefore
    <3>4. QED
      BY <3>1, <3>2, <3>3
  <2>2. tpc[e] \in {"none", "tail"}
    BY <2>0, <2>1, TerminateWins DEF NoGiveUpInv
  <2>3. ~Create
    BY <1>0, <2>1, CallFacts DEF Create
  <2>4. QED
    BY <1>0, <2>2, <2>3, AppMoves DEF Spared
<1>3. QED
  BY <1>1, <1>2 DEF NoGiveUpInv
-----------------------------------------------------------------------------
LEMMA FreedStart == Init => FInv
<1> SUFFICES ASSUME Init PROVE FInv
  OBVIOUS
<1>1. \A e \in El : el[e] = NewElement /\ tpc[e] = "none" /\ cmds[e] = <<>>
  BY DEF Init, ElInit
<1>2. \A e \in El : ~el[e].task_run /\ ~el[e].is_open /\ el[e].state = "INIT"
  BY <1>1 DEF NewElement
<1>3. QED
  BY <1>1, <1>2 DEF Init, FInv, PlainInv, RestInv, Starting, Rest, QueueInv, SettledInv,
     Passing, NoGiveUpInv

LEMMA FreedStep ==
  ASSUME Patient, NoPause, CmdMax >= 2
  PROVE  IInv /\ FInv /\ [Next]_vars => FInv'
<1> SUFFICES ASSUME IInv, FInv, [Next]_vars PROVE FInv'
  OBVIOUS
<1>1. CASE (App \/ Silent) /\ GaveUp
  <2>1. PlainInv'
    BY <1>1, PlainCall DEF IInv, AInv, ControlInv, FInv
  <2>2. QED
    BY <1>1, <2>1, RestApp, QueueApp, SettledApp, NoGiveUpApp DEF FInv
<1>2. CASE \E e \in El : Task(e) /\ UNCHANGED appvars
  BY <1>2, FreedTask
<1>3. CASE UNCHANGED vars
  BY <1>3 DEF vars, elvars, appvars, FInv, PlainInv, RestInv, Resting, Unresumed,
     Closing, Ahead, Starting, Queued, QueueInv, Lost, Queue, Stopping, Playing,
     SettledInv, Set, NoGiveUpInv, Dropped
<1>4. QED
  BY <1>1, <1>2, <1>3, NextSplit

(* The commands that queue up while a pipeline is run, stopped and run     *)
(* again but never paused.                                                  *)
THEOREM QueueInvariance ==
  ASSUME Patient, NoPause, CmdMax >= 2
  PROVE  Spec => []FInv
<1>1. Init => FInv
  BY FreedStart
<1>2. IInv /\ FInv /\ [Next]_vars => FInv'
  BY FreedStep
<1>3. QED
  BY <1>1, <1>2, Invariance, PTL DEF Spec

(* In a pipeline that is never paused or resumed from outside, and whose    *)
(* elements are open before they are stopped, audio_element_cmd_send always *)
(* finds a place in a queue of two or more commands, but for the elements   *)
(* of a run that failed.  A pause that times out leaves its PAUSE queued:   *)
(* enough of them fill any queue (audio_pipeline.c:328).                    *)
CommandsFit == apc \in {"resume", "send", "term"} /\ el[cur].task_run /\ ~Lost
                 => ~Full

THEOREM NoCommandLost ==
  ASSUME Patient, NoPause, CmdMax >= 2
  PROVE  Spec => []CommandsFit
<1>1. ASSUME IInv, FInv, apc \in {"resume", "send", "term"}, el[cur].task_run, ~Lost
      PROVE  Len(cmds[cur]) <= 1
  <2>1. /\ TypeOK /\ CallInv /\ cur \in El /\ pstate # "ERROR"
        /\ Len(cmds[cur]) \in Nat /\ Queue(cur) /\ cur >= cur
    BY <1>1 DEF IInv, AInv, ControlInv, FInv, TypeOK, QueueInv, Lost, El
  <2>2. \/ Stopping(cur) \/ Playing(cur)
    BY <1>1, <2>1, CallFacts
       DEF FInv, PlainInv, Stopping, Playing, Unresumed, Closing, Ahead, CallInv
  <2>3. QED
    BY <1>1, <2>1, <2>2, EmptyTidy DEF Queue
<1>2. ASSUME CmdMax >= 2, IInv PROVE Len(cmds[cur]) \in Nat /\ CmdMax \in Nat
  BY <1>2, ElementAssumption DEF IInv, AInv, TypeOK
<1>3. CmdMax >= 2 /\ IInv /\ FInv => CommandsFit
  BY <1>1, <1>2 DEF CommandsFit, Full
<1>4. QED
  BY <1>3, Invariance, QueueInvariance, PTL

(* Under the same assumptions, and until a run fails,                       *)
(* audio_element_terminate never gives up, and audio_element_deinit frees   *)
(* an element when its task has run all but its last statement, the one     *)
(* that writes el->audio_thread.                                            *)
NeverGivesUp ==
    pstate # "ERROR" =>
      /\ gave_up = {}
      /\ \A e \in freed : tpc[e] \in {"none", "tail"}

THEOREM TerminateSucceeds ==
  ASSUME Patient, NoPause, CmdMax >= 2
  PROVE  Spec => []NeverGivesUp
<1>1. IInv /\ FInv => NeverGivesUp
  BY DEF IInv, AInv, TypeOK, ControlInv, EndedInv, Dropped, FInv, NoGiveUpInv,
         NeverGivesUp
<1>2. QED
  BY <1>1, Invariance, QueueInvariance, PTL
=============================================================================
