-------------------------- MODULE DeviceSupervisor --------------------------
(***************************************************************************)
(* What the driver host promises controller-core: every device's commands  *)
(* are carried out one after another in the order they were accepted, each *)
(* start and each stop is answered by exactly one event, a start that      *)
(* finds the device running changes nothing, and once no more commands are *)
(* accepted and all are answered the devices still running are stopped.    *)
(* DriverHost is shown to implement this.                                  *)
(***************************************************************************)
EXTENDS Sequences

CONSTANTS Devices

VARIABLES
    accepting,  \* the host still takes commands
    todo,       \* per device: commands accepted and not carried out
    running,    \* per device: it is running
    events      \* per device: what core was told

Init ==
    /\ accepting = TRUE
    /\ todo = [d \in Devices |-> <<>>]
    /\ running = [d \in Devices |-> FALSE]
    /\ events = [d \in Devices |-> <<>>]

Accept(d) ==
    /\ accepting
    /\ \E op \in {"start", "stop", "other"} : todo' = [todo EXCEPT ![d] = Append(@, op)]
    /\ UNCHANGED <<accepting, running, events>>

Close ==
    /\ accepting /\ accepting' = FALSE
    /\ UNCHANGED <<todo, running, events>>

Tell(d, event) == events' = [events EXCEPT ![d] = Append(@, event)]
Is(d, r)       == running' = [running EXCEPT ![d] = r]

(* The oldest command of d is carried out and answered.                    *)
CarryOut(d) ==
    /\ todo[d] # <<>>
    /\ todo' = [todo EXCEPT ![d] = Tail(@)]
    /\ \/ /\ Head(todo[d]) = "start"
          /\ \/ Is(d, TRUE) /\ Tell(d, "started")
             \/ ~running[d] /\ Tell(d, "failed") /\ UNCHANGED running
       \/ /\ Head(todo[d]) = "stop"
          /\ Is(d, FALSE) /\ Tell(d, "stopped")
       \/ /\ Head(todo[d]) = "other"
          /\ UNCHANGED <<running, events>>
    /\ UNCHANGED accepting

(* The host is going away: d, still running, is stopped.                   *)
ShutDown(d) ==
    /\ ~accepting /\ running[d]
    /\ \A other \in Devices : todo[other] = <<>>
    /\ Is(d, FALSE) /\ Tell(d, "stopped")
    /\ UNCHANGED <<accepting, todo>>

Next == Close \/ \E d \in Devices : Accept(d) \/ CarryOut(d) \/ ShutDown(d)

Spec == Init /\ [][Next]_<<accepting, todo, running, events>>
-----------------------------------------------------------------------------
(* Core always knows which devices run: a device runs exactly while the    *)
(* last that core was told of it is that it started (host.event, in start, *)
(* stop and stopAll).                                                      *)
CoreKnowsWhatRuns ==
    \A d \in Devices :
        running[d] <=> events[d] # <<>> /\ events[d][Len(events[d])] = "started"
=============================================================================
