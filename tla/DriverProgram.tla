---------------------------- MODULE DriverProgram ----------------------------
(***************************************************************************)
(* A driver binary (run/run.go, Main): run with -host it is the DriverHost *)
(* of all devices of its package, without it it starts one device, waits   *)
(* for SIGINT or SIGTERM, stops the device and exits.  Until the device is *)
(* started nobody catches the signals: they kill the process.              *)
(***************************************************************************)
EXTENDS DriverHost

VARIABLES
    mode,       \* "hosted", or the device the program is run for
    alone,      \* where standalone is
    connection  \* standalone's publisher connection is open

aloneVars   == <<mode, alone, connection>>
programVars == <<vars, aloneVars>>

Ends == {"stopped", "failed", "killed"}

ProgramInit ==
    /\ Init
    /\ mode \in {"hosted"} \cup Devices
    /\ alone = "config" /\ connection = FALSE

Step(place) == alone' = place /\ UNCHANGED <<vars, mode>>
-----------------------------------------------------------------------------
(* No device id, or no readable config.                                    *)
ConfigFails == alone = "config" /\ Step("failed") /\ UNCHANGED connection

ConfigRead == alone = "config" /\ Step("connect") /\ UNCHANGED connection

(* The driver's ExternalKey or Publisher fails or panics, or there is no   *)
(* address of core's.                                                      *)
AloneConnectFails == alone = "connect" /\ Step("failed") /\ UNCHANGED connection

AloneConnects == alone = "connect" /\ Step("new") /\ connection' = TRUE

AloneBuildSucceeds ==
    /\ alone \in Building
    /\ Step(CASE alone = "new" -> "init" [] alone = "init" -> "start" [] OTHER -> "notify")
    /\ UNCHANGED connection

AloneBuildFails == alone \in Building /\ Step("failed") /\ connection' = FALSE

(* The recovered panic is an error too, and nothing closes the connection. *)
AloneBuildPanics == alone \in Building /\ Step("failed") /\ UNCHANGED connection

Notify == alone = "notify" /\ Step("wait") /\ UNCHANGED connection

(* Mutant: the program ends without stopping its device.                   *)
SeeSignalAndExit == alone = "wait" /\ signalled /\ Step("stopped") /\ UNCHANGED connection

SeeSignal == alone = "wait" /\ signalled /\ Step("stop") /\ UNCHANGED connection

AloneStops == alone = "stop" /\ Step("print") /\ connection' = FALSE

PrintStopped == alone = "print" /\ Step("stopped") /\ UNCHANGED connection

Caught == alone \in {"wait", "stop", "print"}

(* A caught signal waits in a channel of one; those that follow are lost.  *)
SignalAlone ==
    /\ alone \notin Ends
    /\ signalled' = TRUE
    /\ alone' = IF Caught THEN alone ELSE "killed"
    /\ UNCHANGED <<input, stdin, sent, mainVars, workerVars, mode, connection>>
-----------------------------------------------------------------------------
AloneDriverCode ==
    \/ AloneConnects \/ AloneConnectFails
    \/ AloneBuildSucceeds \/ AloneBuildFails \/ AloneBuildPanics \/ AloneStops

AloneMain == ConfigFails \/ ConfigRead \/ Notify \/ SeeSignal \/ PrintStopped

AloneNext == AloneDriverCode \/ AloneMain \/ SignalAlone \/ (alone \in Ends /\ UNCHANGED programVars)

ProgramNext ==
    \/ mode = "hosted" /\ Next /\ UNCHANGED aloneVars
    \/ mode # "hosted" /\ AloneNext

Hosted(A) == mode = "hosted" /\ A /\ UNCHANGED aloneVars

ProgramFairness ==
    /\ WF_programVars(Hosted(Main))
    /\ \A d \in Devices : WF_programVars(Hosted(Worker(d)))
    /\ \A d \in Devices \ Hanging : WF_programVars(Hosted(DriverCode(d)))
    /\ WF_programVars(mode # "hosted" /\ AloneMain)
    /\ WF_programVars(mode \in Devices \ Hanging /\ AloneDriverCode)

ProgramSpec == ProgramInit /\ [][ProgramNext]_programVars /\ ProgramFairness
-----------------------------------------------------------------------------
AloneReturns == []<>(alone \notin {"connect", "stop"} \cup Building)

(* Told to stop, the program ends, hosted or not, unless a driver's own    *)
(* code never returns; and a standalone program told so while it waits has *)
(* stopped its device by then (serve, standalone).                         *)
ProgramExits ==
    /\ mode = "hosted" => Exits
    /\ mode # "hosted" /\ AloneReturns =>
           /\ signalled ~> alone \in Ends
           /\ alone = "wait" /\ signalled ~> alone = "stopped" /\ ~connection
=============================================================================
