-------------------------- MODULE EndpointRegistry --------------------------
(***************************************************************************)
(* The endpoint registry (endpoint_support.go): the current value of every *)
(* endpoint and the handlers told of a change.  A value is stored and the  *)
(* handlers are copied under the lock; they are called after it, one after *)
(* the other, until one fails.                                             *)
(***************************************************************************)
EXTENDS Sequences

CONSTANTS
    Setters,    \* goroutines of the driver that set values
    Keys,       \* endpoints
    Values,
    Handlers    \* handlers the driver may add

VARIABLES
    values,     \* endpoint -> value, or "none"
    handlers,   \* the handlers, in the order they were added
    setting,    \* per goroutine: the change it reports, or NoChange
    todo        \* per goroutine: handlers not called yet

Change   == [endpoint : Keys, value : Values]
NoChange == [endpoint |-> "none", value |-> "none"]

RegistryInit ==
    /\ values = [e \in Keys |-> "none"]
    /\ handlers = <<>>
    /\ setting = [s \in Setters |-> NoChange]
    /\ todo = [s \in Setters |-> <<>>]

AddHandler(h) ==
    /\ handlers' = Append(handlers, h)
    /\ UNCHANGED <<values, setting, todo>>

SetEndpointValue(s, e, v) ==
    /\ setting[s] = NoChange
    /\ values' = [values EXCEPT ![e] = v]
    /\ setting' = [setting EXCEPT ![s] = [endpoint |-> e, value |-> v]]
    /\ todo' = [todo EXCEPT ![s] = handlers]
    /\ UNCHANGED handlers

(* The handler called returns nil: it is the next one's turn.              *)
HandlerSucceeds(s) ==
    /\ todo[s] # <<>>
    /\ todo' = [todo EXCEPT ![s] = Tail(@)]
    /\ UNCHANGED <<values, handlers, setting>>

(* A handler's error is returned at once, the rest is not called.          *)
HandlerFails(s) ==
    /\ todo[s] # <<>>
    /\ todo' = [todo EXCEPT ![s] = <<>>]
    /\ UNCHANGED <<values, handlers, setting>>

SetReturns(s) ==
    /\ setting[s] # NoChange /\ todo[s] = <<>>
    /\ setting' = [setting EXCEPT ![s] = NoChange]
    /\ UNCHANGED <<values, handlers, todo>>
=============================================================================
