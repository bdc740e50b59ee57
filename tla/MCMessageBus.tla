---- MODULE MCMessageBus ----
(* The instance of MessageBus that TLC checks: its constants are model     *)
(* values and small sets of them, given in the .cfg.                       *)
EXTENDS MessageBus
====
