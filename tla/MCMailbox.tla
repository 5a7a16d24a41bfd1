----------------------------- MODULE MCMailbox -----------------------------
(* Small instances of Mailbox: ask is a call of APP to MAJOR, back one of   *)
(* MAJOR to APP, decode one of MAJOR to MINOR; note is a notice of MAJOR to *)
(* APP.                                                                     *)
EXTENDS Mailbox, TLC

CONSTANTS ask, back, decode, note
Crossed == {ask, back}
Ask == {ask}
Decode == {decode}
Note == {note}
None == {}

Caller == [m \in Msg |-> IF m = ask THEN "APP" ELSE "MAJOR"]
Callee == [m \in Msg |-> IF m = ask THEN "MAJOR"
                         ELSE IF m = decode THEN "MINOR" ELSE "APP"]

AppMajor == {<<"APP", "MAJOR">>}
MajorApp == {<<"MAJOR", "APP">>}
MajorMinor == {<<"MAJOR", "MINOR">>}

\* The queues are as long as the messages of the run require, or longer.
ASSUME QueuesLongEnough == QueueSized
=============================================================================
