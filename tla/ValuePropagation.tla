-------------------------- MODULE ValuePropagation --------------------------
(***************************************************************************)
(* A driver whose endpoint registry has a handler that passes a changed    *)
(* value on to the devices bound to the endpoint: SetEndpointValue calls   *)
(* PropagateValue, which asks the binding manager for the targets and      *)
(* hands the value to each.  The handlers' code and PropagateToTarget are  *)
(* the driver's.                                                           *)
(***************************************************************************)
EXTENDS BindingManager

CONSTANTS
    Values,
    HasHandler, \* the binding manager was given a handler
    Setters     \* goroutines that set values; the others ask

ASSUME HasHandlerAssumption == HasHandler \in BOOLEAN
ASSUME SettersAssumption == Setters \subseteq Callers
ASSUME EndpointsAssumption == "none" \notin Endpoints

Handlers == {"propagate", "observe"}

VARIABLES
    values, handlers, setting, todo,  \* the registry's
    left,        \* per caller: targets PropagateValue has not tried
    failed,      \* per caller: the error SetEndpointValue will return
    (* What the runs observe; the code does not keep these.                *)
    readAt,      \* per caller: when its targets were read, or Never
    told,        \* per caller: targets that took the value
    refused      \* per caller: targets that returned an error

Registry == INSTANCE EndpointRegistry WITH Setters <- Callers, Keys <- Endpoints

registryVars == <<values, handlers, setting, todo>>
sendVars    == <<left, failed>>
observeVars == <<readAt, told, refused>>
vars == <<bindingVars, registryVars, sendVars, observeVars>>

Never == -1

TypeOK ==
    /\ history \in Seq([at : Nat, rows : SUBSET Rows]) /\ Len(history) >= 1
    /\ now \in Nat
    /\ bindings \subseteq Ours(Rows) /\ bindingsAt \in Int
    /\ bindingsAt <= now
    /\ pc \in [Callers -> Places \cup {"send"}]
    /\ query \in [Callers -> Query \cup {NoQuery}]
    /\ sentAt \in [Callers -> Nat]
    /\ reply \in [Callers -> SUBSET Ours(Rows)]
    /\ answer \in [Callers -> SUBSET (Rows \cup Devices)]
    /\ missed \in [Callers -> BOOLEAN]
    /\ values \in [Endpoints -> Values \cup {"none"}]
    /\ handlers \in Seq(Handlers) /\ todo \in [Callers -> Seq(Handlers)]
    /\ setting \in [Callers -> Registry!Change \cup {Registry!NoChange}]
    /\ left \in [Callers -> SUBSET Rows] /\ told \in [Callers -> SUBSET Rows]
    /\ failed \in [Callers -> BOOLEAN] /\ refused \in [Callers -> SUBSET Rows]
    /\ readAt \in [Callers -> Nat \cup {Never}]

Init ==
    /\ BindingsInit /\ Registry!RegistryInit
    /\ left = [c \in Callers |-> {}] /\ told = [c \in Callers |-> {}]
    /\ failed = [c \in Callers |-> FALSE] /\ refused = [c \in Callers |-> {}]
    /\ readAt = [c \in Callers |-> Never]

notBindings == <<registryVars, sendVars, observeVars>>
-----------------------------------------------------------------------------
Idle(c)    == pc[c] = "idle" /\ setting[c] = Registry!NoChange
Calling(c, h) == pc[c] = "idle" /\ todo[c] # <<>> /\ Head(todo[c]) = h

Environment == (EditBindings \/ Tick) /\ UNCHANGED notBindings

(* The driver asks the binding manager by itself.                          *)
AskDirectly(c) ==
    /\ Idle(c) /\ c \notin Setters
    /\ RefreshBindings(c) \/ \E q \in Query : q.op # "refresh" /\ Ask(c, q)
    /\ UNCHANGED notBindings

CacheStep(c) ==
    /\ CoreAnswers(c) \/ Store(c) \/ RefreshFails(c)
    /\ UNCHANGED notBindings

ReadCache(c) ==
    /\ Read(c)
    /\ readAt' = [readAt EXCEPT ![c] = now]
    /\ UNCHANGED <<registryVars, sendVars, told, refused>>

AskReturns(c) ==
    /\ pc[c] = "done" /\ setting[c] = Registry!NoChange
    /\ Goto(c, "idle")
    /\ answer' = [answer EXCEPT ![c] = {}]
    /\ query' = [query EXCEPT ![c] = NoQuery]
    /\ readAt' = [readAt EXCEPT ![c] = Never] /\ missed' = [missed EXCEPT ![c] = FALSE]
    /\ UNCHANGED <<history, now, cacheVars, sentAt, reply, registryVars, sendVars, told,
                   refused>>
-----------------------------------------------------------------------------
AddHandler(h) ==
    /\ \A i \in 1..Len(handlers) : handlers[i] # h
    /\ Registry!AddHandler(h)
    /\ UNCHANGED <<bindingVars, sendVars, observeVars>>

SetEndpointValue(c, e, v) ==
    /\ Idle(c) /\ c \in Setters
    /\ Registry!SetEndpointValue(c, e, v)
    /\ failed' = [failed EXCEPT ![c] = FALSE]
    /\ readAt' = [readAt EXCEPT ![c] = Never]
    /\ told' = [told EXCEPT ![c] = {}] /\ refused' = [refused EXCEPT ![c] = {}]
    /\ UNCHANGED <<bindingVars, left>>

ObserverReturns(c) ==
    /\ Calling(c, "observe")
    /\ \/ Registry!HandlerSucceeds(c) /\ UNCHANGED failed
       \/ Registry!HandlerFails(c) /\ failed' = [failed EXCEPT ![c] = TRUE]
    /\ UNCHANGED <<bindingVars, left, observeVars>>

PropagateValue(c) ==
    /\ Calling(c, "propagate")
    /\ Ask(c, [op |-> "targets", of |-> setting[c].endpoint])
    /\ UNCHANGED notBindings

(* Without a binding handler the value goes nowhere, and that is no error. *)
TargetsKnown(c) ==
    /\ pc[c] = "done" /\ setting[c] # Registry!NoChange
    /\ left' = [left EXCEPT ![c] = IF HasHandler THEN answer[c] ELSE {}]
    /\ Goto(c, "send")
    /\ answer' = [answer EXCEPT ![c] = {}]
    /\ query' = [query EXCEPT ![c] = NoQuery]
    /\ UNCHANGED <<history, now, cacheVars, sentAt, reply, missed, registryVars,
                   failed, observeVars>>

Try(c, b) ==
    /\ pc[c] = "send" /\ b \in left[c]
    /\ left' = [left EXCEPT ![c] = @ \ {b}]
    /\ UNCHANGED <<bindingVars, registryVars, readAt>>

TargetTakes(c, b) ==
    /\ Try(c, b)
    /\ told' = [told EXCEPT ![c] = @ \cup {b}]
    /\ UNCHANGED <<failed, refused>>

(* Mutant: the error of a target is forgotten by the next ones.            *)
TargetFailsUnnoticed(c, b) ==
    /\ Try(c, b)
    /\ failed' = [failed EXCEPT ![c] = left[c] = {b}]
    /\ refused' = [refused EXCEPT ![c] = @ \cup {b}]
    /\ UNCHANGED told

(* The target may have taken the value all the same.                       *)
TargetFails(c, b) ==
    /\ Try(c, b)
    /\ failed' = [failed EXCEPT ![c] = TRUE]
    /\ refused' = [refused EXCEPT ![c] = @ \cup {b}]
    /\ UNCHANGED told

(* Every target was tried; an error ends the round of handlers.            *)
PropagateReturns(c) ==
    /\ pc[c] = "send" /\ left[c] = {}
    /\ Goto(c, "idle")
    /\ IF failed[c] THEN Registry!HandlerFails(c) ELSE Registry!HandlerSucceeds(c)
    /\ UNCHANGED <<history, now, cacheVars, query, sentAt, reply, answer, missed,
                   sendVars, observeVars>>

SetReturns(c) ==
    /\ pc[c] = "idle"
    /\ Registry!SetReturns(c)
    /\ failed' = [failed EXCEPT ![c] = FALSE]
    /\ readAt' = [readAt EXCEPT ![c] = Never]
    /\ told' = [told EXCEPT ![c] = {}] /\ refused' = [refused EXCEPT ![c] = {}]
    /\ missed' = [missed EXCEPT ![c] = FALSE]
    /\ UNCHANGED <<history, now, cacheVars, pc, query, sentAt, reply, answer, left>>
-----------------------------------------------------------------------------
Begin(c) ==
    \/ AskDirectly(c)
    \/ \E e \in Endpoints, v \in Values : SetEndpointValue(c, e, v)

Continue(c) ==
    \/ CacheStep(c) \/ ReadCache(c) \/ AskReturns(c)
    \/ ObserverReturns(c) \/ PropagateValue(c) \/ TargetsKnown(c)
    \/ \E b \in Rows : TargetTakes(c, b) \/ TargetFails(c, b)
    \/ PropagateReturns(c) \/ SetReturns(c)

Next ==
    \/ Environment
    \/ \E h \in Handlers : AddHandler(h)
    \/ \E c \in Callers : Begin(c) \/ Continue(c)

Spec == Init /\ [][Next]_vars
-----------------------------------------------------------------------------
Returning(c) == pc[c] = "idle" /\ setting[c] # Registry!NoChange /\ todo[c] = <<>>

(* The bindings a change may be passed on by: what core held at some       *)
(* moment of the interval and timeout before they were read or, when the   *)
(* refresh for them failed, at any earlier time; or none.                  *)
GoneBy(c) ==
    IF missed[c] THEN HeldDuring(0, readAt[c]) \cup {{}}
                 ELSE HeldDuring(readAt[c] - Bound, readAt[c])

(* When a SetEndpointValue that passed its change on is about to return,   *)
(* every target of the endpoint in one such table was tried, each once and *)
(* no other, also behind one that failed, and an error of any of them is   *)
(* returned, whatever other handlers there are.  It may return nil all the *)
(* same with devices bound since not told: PropagateValue does not see     *)
(* that its refresh failed (SetEndpointValue, PropagateValue,              *)
(* GetTargetsForEndpoint).                                                 *)
BoundDevicesTold ==
    \A c \in Callers :
        Returning(c) /\ readAt[c] # Never /\ HasHandler =>
            /\ \E rows \in GoneBy(c) :
                   told[c] \cup refused[c] = TargetsIn(Ours(rows), setting[c].endpoint)
            /\ refused[c] # {} => failed[c]
=============================================================================
