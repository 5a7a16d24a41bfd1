---------------------------- MODULE ElementLife ----------------------------
(***************************************************************************)
(* What a pipeline promises to the implementation of an element: its task   *)
(* opens it only when it is closed, calls process() only while it is open,  *)
(* closes it once for each open(), also when open() failed, and does not    *)
(* end before that.                                                         *)
(***************************************************************************)
CONSTANT Elem
VARIABLES phase,    \* of each element
          busy      \* the elements that are inside process()

lvars == <<phase, busy>>
Move(e, from, to) == phase[e] = from /\ phase' = [phase EXCEPT ![e] = to]

LInit == phase = [e \in Elem |-> "absent"] /\ busy = {}

Create(e)  == Move(e, "absent", "closed") /\ UNCHANGED busy
Opening(e) == Move(e, "closed", "opening") /\ UNCHANGED busy
Opened(e)  == Move(e, "opening", "open") /\ UNCHANGED busy
Process(e) == phase[e] = "open" /\ busy' = busy \cup {e} /\ UNCHANGED phase
Return(e)  == busy' = busy \ {e} /\ UNCHANGED phase
Close(e)   == Move(e, "open", "closed") /\ busy' = busy \ {e}
Leave(e)   == Move(e, "closed", "absent") /\ e \notin busy /\ UNCHANGED busy

LNext == \E e \in Elem :
    \/ Create(e) \/ Opening(e) \/ Opened(e) \/ Process(e)
    \/ Return(e) \/ Close(e) \/ Leave(e)

LSpec == LInit /\ [][LNext]_lvars
=============================================================================
