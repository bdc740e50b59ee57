----------------------------- MODULE DriverHost -----------------------------
(***************************************************************************)
(* A hosted driver process (run/run.go): the main goroutine reads commands *)
(* from stdin and hands each to its device's queue; one worker per device  *)
(* carries them out; when stdin closes or the process is told to stop, the *)
(* queues are closed, the workers finish what is queued, and every device  *)
(* still running is stopped.                                               *)
(*                                                                         *)
(* The driver's own ExternalKey, Publisher, New, Init and Start run in the *)
(* worker.  They may fail, panic, or, for the devices in Hanging, never    *)
(* return.                                                                 *)
(***************************************************************************)
EXTENDS Naturals, Sequences

CONSTANTS
    Devices,
    QueueSize,    \* 64: the room in a device's command queue
    Hanging,      \* devices whose driver code may never return
    MaxCommands   \* bound: commands core writes

ASSUME QueueSizeAssumption == QueueSize \in Nat
ASSUME HangingAssumption == Hanging \subseteq Devices
ASSUME MaxCommandsAssumption == MaxCommands \in Nat

VARIABLES
    input,      \* commands on stdin not read yet
    stdin,      \* "open" or "closed"
    signalled,  \* SIGINT or SIGTERM arrived
    main,       \* where serve is
    handing,    \* the command serve is putting into a queue
    queue,      \* per device: its command queue
    worker,     \* per device: where its worker is
    current,    \* per device: the command its worker carries out
    devices,    \* per device: it is in h.devices, started and not stopped
    (* What the runs observe; the code does not keep these.                *)
    sent,       \* commands written so far
    open,       \* per device: publisher connections not closed
    panicked,   \* per device: a start of it panicked
    events      \* per device: the event lines written

vars == <<input, stdin, signalled, main, handing, queue, worker, current, devices, sent, open,
          panicked, events>>

Ops      == {"start", "stop", "other"}
Command  == [op : Ops, device : Devices]
Building == {"new", "init", "start"}
NoCommand == [op |-> "none", device |-> "none"]

TypeOK ==
    /\ input \in Seq(Command)
    /\ stdin \in {"open", "closed"} /\ signalled \in BOOLEAN
    /\ main \in {"select", "hand", "wait", "stopAll", "exited"}
    /\ main = "hand" => handing \in Command
    /\ queue \in [Devices -> Seq(Ops)]
    /\ \A d \in Devices : Len(queue[d]) <= QueueSize
    /\ worker \in [Devices -> {"idle", "take", "connect", "closing"} \cup Building]
    /\ current \in [Devices -> Ops \cup {"none", "shutdown"}]
    /\ devices \in [Devices -> BOOLEAN]
    /\ sent \in Nat
    /\ open \in [Devices -> Nat] /\ panicked \in [Devices -> BOOLEAN]
    /\ events \in [Devices -> Seq({"started", "failed", "stopped"})]

Init ==
    /\ input = <<>> /\ stdin = "open" /\ signalled = FALSE
    /\ main = "select" /\ handing = NoCommand
    /\ queue = [d \in Devices |-> <<>>]
    /\ worker = [d \in Devices |-> "idle"] /\ current = [d \in Devices |-> "none"]
    /\ devices = [d \in Devices |-> FALSE]
    /\ sent = 0
    /\ open = [d \in Devices |-> 0] /\ panicked = [d \in Devices |-> FALSE]
    /\ events = [d \in Devices |-> <<>>]

coreVars   == <<input, stdin, signalled, sent>>
mainVars   == <<main, handing>>
workerVars == <<queue, worker, current, devices, open, panicked, events>>
-----------------------------------------------------------------------------
(* controller-core and the operating system.                               *)
WriteCommand ==
    /\ stdin = "open" /\ sent < MaxCommands
    /\ \E c \in Command : input' = Append(input, c)
    /\ sent' = sent + 1
    /\ UNCHANGED <<stdin, signalled, mainVars, workerVars>>

CloseStdin ==
    /\ stdin = "open" /\ stdin' = "closed"
    /\ UNCHANGED <<input, signalled, sent, mainVars, workerVars>>

Signal ==
    /\ ~signalled /\ signalled' = TRUE
    /\ UNCHANGED <<input, stdin, sent, mainVars, workerVars>>
-----------------------------------------------------------------------------
(* serve.                                                                  *)
ReadCommand ==
    /\ main = "select" /\ input # <<>>
    /\ handing' = Head(input) /\ input' = Tail(input)
    /\ main' = "hand"
    /\ UNCHANGED <<stdin, signalled, sent, workerVars>>

(* Mutant: the send does not wait for room.                                *)
HandOverAtOnce ==
    /\ main = "hand"
    /\ queue' = [queue EXCEPT ![handing.device] = Append(@, handing.op)]
    /\ main' = "select" /\ handing' = NoCommand
    /\ UNCHANGED <<coreVars, worker, current, devices, open, panicked, events>>

(* Mutant: a command waits until its device's worker is free.              *)
HandOverWhenIdle ==
    /\ main = "hand" /\ Len(queue[handing.device]) < QueueSize
    /\ worker[handing.device] = "idle"
    /\ queue' = [queue EXCEPT ![handing.device] = Append(@, handing.op)]
    /\ main' = "select" /\ handing' = NoCommand
    /\ UNCHANGED <<coreVars, worker, current, devices, open, panicked, events>>

(* The send on the queue waits while the queue is full; serve sees neither *)
(* signals nor other commands meanwhile.                                   *)
HandOver ==
    /\ main = "hand" /\ Len(queue[handing.device]) < QueueSize
    /\ queue' = [queue EXCEPT ![handing.device] = Append(@, handing.op)]
    /\ main' = "select" /\ handing' = NoCommand
    /\ UNCHANGED <<coreVars, worker, current, devices, open, panicked, events>>

(* The loop ends: the queues are closed, none of what is in them is lost.  *)
CloseQueues ==
    /\ main = "select"
    /\ signalled \/ (stdin = "closed" /\ input = <<>>)
    /\ main' = "wait"
    /\ UNCHANGED <<coreVars, handing, workerVars>>

(* Mutant: the workers are not waited for.                                 *)
WorkersDoneAtOnce ==
    /\ main = "wait"
    /\ main' = "stopAll"
    /\ UNCHANGED <<coreVars, handing, workerVars>>

(* wg.Wait returns when every worker has emptied its closed queue.         *)
WorkersDone ==
    /\ main = "wait"
    /\ \A d \in Devices : queue[d] = <<>> /\ worker[d] = "idle"
    /\ main' = "stopAll"
    /\ UNCHANGED <<coreVars, handing, workerVars>>

(* stopAll stops every device, each in a goroutine of its own.             *)
StopRemaining(d) ==
    /\ main = "stopAll" /\ devices[d]
    /\ devices' = [devices EXCEPT ![d] = FALSE]
    /\ worker' = [worker EXCEPT ![d] = "closing"]
    /\ current' = [current EXCEPT ![d] = "shutdown"]
    /\ UNCHANGED <<coreVars, mainVars, queue, open, panicked, events>>

Exit ==
    /\ main = "stopAll"
    /\ \A d \in Devices : ~devices[d] /\ worker[d] = "idle"
    /\ main' = "exited"
    /\ UNCHANGED <<coreVars, handing, workerVars>>
-----------------------------------------------------------------------------
(* A device's worker.                                                      *)
Goto(d, place)  == worker' = [worker EXCEPT ![d] = place]
Event(d, kind)  == events' = [events EXCEPT ![d] = Append(@, kind)]
Opened(d, n)    == open' = [open EXCEPT ![d] = @ + n]
Finish(d)       == Goto(d, "idle") /\ current' = [current EXCEPT ![d] = "none"]

(* Mutant: a worker stops at the end of the loop, its queue not empty.     *)
TakeCommandUntilClosed(d) ==
    /\ worker[d] = "idle" /\ main \in {"select", "hand"} /\ queue[d] # <<>>
    /\ current' = [current EXCEPT ![d] = Head(queue[d])]
    /\ queue' = [queue EXCEPT ![d] = Tail(@)]
    /\ Goto(d, "take")
    /\ UNCHANGED <<coreVars, mainVars, devices, open, panicked, events>>

(* range over the queue: the next command, until it is closed and empty.   *)
TakeCommand(d) ==
    /\ worker[d] = "idle" /\ queue[d] # <<>>
    /\ current' = [current EXCEPT ![d] = Head(queue[d])]
    /\ queue' = [queue EXCEPT ![d] = Tail(@)]
    /\ Goto(d, "take")
    /\ UNCHANGED <<coreVars, mainVars, devices, open, panicked, events>>

UnknownOp(d) ==
    /\ worker[d] = "take" /\ current[d] = "other"
    /\ Finish(d)
    /\ UNCHANGED <<coreVars, mainVars, queue, devices, open, panicked, events>>

(* A start that finds the device running only reports it again.            *)
AlreadyStarted(d) ==
    /\ worker[d] = "take" /\ current[d] = "start" /\ devices[d]
    /\ Event(d, "started") /\ Finish(d)
    /\ UNCHANGED <<coreVars, mainVars, queue, devices, open, panicked>>

(* The config cannot be read.                                              *)
StartFails(d) ==
    /\ worker[d] = "take" /\ current[d] = "start" /\ ~devices[d]
    /\ Event(d, "failed") /\ Finish(d)
    /\ UNCHANGED <<coreVars, mainVars, queue, devices, open, panicked>>

(* Mutant: a running device is started again.                              *)
ReadConfigAgain(d) ==
    /\ worker[d] = "take" /\ current[d] = "start"
    /\ Goto(d, "connect")
    /\ UNCHANGED <<coreVars, mainVars, queue, current, devices, open, panicked, events>>

(* What follows is startDevice, in the driver's own code.                  *)
ReadConfig(d) ==
    /\ worker[d] = "take" /\ current[d] = "start" /\ ~devices[d]
    /\ Goto(d, "connect")
    /\ UNCHANGED <<coreVars, mainVars, queue, current, devices, open, panicked, events>>

(* The driver's ExternalKey or Publisher fails or panics, or there is no   *)
(* address of core's: nothing is open yet.                                 *)
ConnectFails(d) ==
    /\ worker[d] = "connect"
    /\ Event(d, "failed") /\ Finish(d)
    /\ UNCHANGED <<coreVars, mainVars, queue, devices, open, panicked>>

Connect(d) ==
    /\ worker[d] = "connect"
    /\ Opened(d, 1)
    /\ Goto(d, "new")
    /\ UNCHANGED <<coreVars, mainVars, queue, current, devices, panicked, events>>

BuildSucceeds(d) ==
    /\ worker[d] \in {"new", "init"}
    /\ Goto(d, IF worker[d] = "new" THEN "init" ELSE "start")
    /\ UNCHANGED <<coreVars, mainVars, queue, current, devices, open, panicked, events>>

Started(d) ==
    /\ worker[d] = "start"
    /\ devices' = [devices EXCEPT ![d] = TRUE]
    /\ Event(d, "started") /\ Finish(d)
    /\ UNCHANGED <<coreVars, mainVars, queue, open, panicked>>

(* Mutant: a failed Init or Start leaves the connection open.              *)
BuildFailsOpen(d) ==
    /\ worker[d] \in Building
    /\ Event(d, "failed") /\ Finish(d)
    /\ UNCHANGED <<coreVars, mainVars, queue, devices, open, panicked>>

(* New, Init or Start returns an error: the connection is closed.          *)
BuildFails(d) ==
    /\ worker[d] \in Building
    /\ open' = [open EXCEPT ![d] = @ - 1]
    /\ Event(d, "failed") /\ Finish(d)
    /\ UNCHANGED <<coreVars, mainVars, queue, devices, panicked>>

(* ... or panics: the recovered panic becomes an error, and nothing closes *)
(* the connection.                                                         *)
BuildPanics(d) ==
    /\ worker[d] \in Building
    /\ panicked' = [panicked EXCEPT ![d] = TRUE]
    /\ Event(d, "failed") /\ Finish(d)
    /\ UNCHANGED <<coreVars, mainVars, queue, devices, open>>

(* stop of a device that is not running is answered at once.               *)
NothingToStop(d) ==
    /\ worker[d] = "take" /\ current[d] = "stop" /\ ~devices[d]
    /\ Event(d, "stopped") /\ Finish(d)
    /\ UNCHANGED <<coreVars, mainVars, queue, devices, open, panicked>>

BeginStop(d) ==
    /\ worker[d] = "take" /\ current[d] = "stop" /\ devices[d]
    /\ devices' = [devices EXCEPT ![d] = FALSE]
    /\ Goto(d, "closing")
    /\ UNCHANGED <<coreVars, mainVars, queue, current, open, panicked, events>>

(* The instance's Stop has returned or panicked; the connection is closed. *)
EndStop(d) ==
    /\ worker[d] = "closing"
    /\ open' = [open EXCEPT ![d] = @ - 1]
    /\ Event(d, "stopped") /\ Finish(d)
    /\ UNCHANGED <<coreVars, mainVars, queue, devices, panicked>>
-----------------------------------------------------------------------------
Core == WriteCommand \/ CloseStdin \/ Signal
Main == ReadCommand \/ HandOver \/ CloseQueues \/ WorkersDone \/ Exit
          \/ \E d \in Devices : StopRemaining(d)

(* The driver's own code: this may take for ever for a hanging device.     *)
DriverCode(d) == Connect(d) \/ ConnectFails(d) \/ BuildSucceeds(d) \/ Started(d) \/ BuildFails(d)
                   \/ BuildPanics(d) \/ EndStop(d)
Worker(d) == TakeCommand(d) \/ UnknownOp(d) \/ AlreadyStarted(d) \/ StartFails(d) \/ ReadConfig(d)
               \/ NothingToStop(d) \/ BeginStop(d)

Done == main = "exited" /\ UNCHANGED vars
Next == Core \/ Main \/ (\E d \in Devices : Worker(d) \/ DriverCode(d)) \/ Done

Fairness ==
    /\ WF_vars(Main)
    /\ \A d \in Devices : WF_vars(Worker(d))
    /\ \A d \in Devices \ Hanging : WF_vars(DriverCode(d))

Spec == Init /\ [][Next]_vars /\ Fairness
-----------------------------------------------------------------------------
(* Between them serve, the workers and stopAll carry out each device's     *)
(* commands in order, answer each once, and never run two starts or a      *)
(* start and a stop of one device at once (host.queues' comment).          *)
Supervisor == INSTANCE DeviceSupervisor WITH
    accepting <- main \in {"select", "hand"},
    todo      <- [d \in Devices |-> IF current[d] \in Ops THEN <<current[d]>> \o queue[d]
                                                           ELSE queue[d]],
    running   <- [d \in Devices |-> devices[d] \/ worker[d] = "closing"]

Supervises == Supervisor!Spec

(* A device has a connection to core exactly while it is running, being    *)
(* built or being stopped, unless one of its New, Init or Start panicked.  *)
ConnectionOwned ==
    \A d \in Devices :
        ~panicked[d] =>
            open[d] = IF devices[d] \/ worker[d] \in Building \cup {"closing"} THEN 1 ELSE 0

(* When the process exits no command it accepted is left in a queue, and   *)
(* core knows of every device that it does not run: the last it was told   *)
(* of a device is never that it started (serve: "then stops every device").*)
NothingLeftBehind ==
    main = "exited" =>
        \A d \in Devices :
            /\ queue[d] = <<>>
            /\ events[d] # <<>> => events[d][Len(events[d])] # "started"

(* Driver code that may never return does return, every time it is called. *)
InDriverCode(d) == worker[d] \in {"connect", "closing"} \cup Building
HangingReturns == \A d \in Hanging : []<>~InDriverCode(d)

(* Closing stdin or a signal ends the process, whatever is queued, unless  *)
(* a driver's own code never returns (serve).                              *)
Exits == HangingReturns => ((stdin = "closed" \/ signalled) ~> main = "exited")

(* A command handed to the queue of a device whose driver code returns is  *)
(* carried out, however long other devices take (host.queues: "a device    *)
(* slow to start does not hold up the others").                            *)
HandedIsCarriedOut ==
    \A d \in Devices \ Hanging :
        (main = "hand" /\ handing.device = d) ~> (queue[d] = <<>> /\ worker[d] = "idle")

(* A command on stdin is read and handed over until the host is told to    *)
(* stop, however long another device takes, as long as that device's queue *)
(* has room: once it is full, serve waits for it and so does everyone.     *)
Blocked == main = "hand" /\ Len(queue[handing.device]) = QueueSize
NotHeldUpByOthers ==
    ([]<>~Blocked) => (input # <<>> ~> (signalled \/ (input = <<>> /\ main # "hand")))
=============================================================================
