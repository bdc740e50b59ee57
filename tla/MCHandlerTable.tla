---- MODULE MCHandlerTable ----
(* The instance of HandlerTable that TLC checks: one wildcard handler.     *)
EXTENDS HandlerTable
CONSTANTS any
OneWildcard == <<any>>
====
