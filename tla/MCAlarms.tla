------------------------------ MODULE MCAlarms ------------------------------
(* Alarms with small sets for TLC. *)
EXTENDS Alarms

MCWaitQueue == AlarmAddr

\* Repeated and waited for; repeated, each time with a new thread.
MCKinds == {<<6, TRUE, "none">>, <<7, FALSE, "thread">>}
=============================================================================
