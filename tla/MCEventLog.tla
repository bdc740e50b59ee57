---- MODULE MCEventLog ----
(* The instance of EventLog that TLC checks.                               *)
EXTENDS EventLog
====
