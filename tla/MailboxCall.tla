---------------------------- MODULE MailboxCall ----------------------------
(***************************************************************************)
(* What a synchronous call over the media mailbox promises: the peer serves *)
(* it once, and the caller goes on when it has been served.                *)
(***************************************************************************)
CONSTANT Request
VARIABLE phase

CInit == phase = [m \in Request |-> "idle"]

Moves(m, a, b) == phase[m] = a /\ phase' = [phase EXCEPT ![m] = b]
CallIt(m) == Moves(m, "idle", "called")
Serve(m)  == Moves(m, "called", "serving")
Answer(m) == Moves(m, "serving", "answered")
GoOn(m)   == Moves(m, "answered", "idle")

Fail(m)   == Moves(m, "called", "failed")
Hear(m)   == Moves(m, "failed", "idle")

CNext == \E m \in Request : CallIt(m) \/ Serve(m) \/ Answer(m) \/ GoOn(m)
                              \/ Fail(m) \/ Hear(m)
CSpec == CInit /\ [][CNext]_phase
=============================================================================
