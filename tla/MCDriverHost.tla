---- MODULE MCDriverHost ----
(* The instances of DriverProgram, and the DriverHost in it, TLC checks.   *)
EXTENDS DriverProgram
====
