---- MODULE MCPoller ----
(* The instances of Poller that TLC checks.                                *)
EXTENDS Poller
====
