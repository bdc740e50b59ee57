---- MODULE MCHealthReporter ----
(* The instance of HealthReporter that TLC checks.                         *)
EXTENDS HealthReporter
====
