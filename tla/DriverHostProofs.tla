--------------------------- MODULE DriverHostProofs ---------------------------
(***************************************************************************)
(* Proofs about the driver host and the program it is part of, for any     *)
(* devices, any queue size and any number of commands, whatever driver     *)
(* code fails, panics or hangs.                                            *)
(***************************************************************************)
EXTENDS DriverProgram, TLAPS, SequenceTheorems

Kinds == {"started", "failed", "stopped"}

(* What Append does to the events of a device and to a command queue.      *)
LEMMA Appended ==
    ASSUME NEW S, NEW s \in Seq(S), NEW e \in S
    PROVE  /\ Append(s, e) \in Seq(S) /\ Append(s, e) # <<>>
           /\ Len(s) \in Nat /\ Len(Append(s, e)) = Len(s) + 1
           /\ Append(s, e)[Len(Append(s, e))] = e
  BY AppendProperties, LenProperties

LEMMA TakenOff ==
    ASSUME NEW S, NEW s \in Seq(S), s # <<>>
    PROVE  /\ Head(s) \in S /\ Tail(s) \in Seq(S)
           /\ Len(s) \in Nat /\ Len(Tail(s)) = Len(s) - 1
  BY HeadTailProperties, LenProperties

(* What happens outside the workers of the devices.                        *)
MainAction == ReadCommand \/ HandOver \/ CloseQueues \/ WorkersDone \/ Exit
-----------------------------------------------------------------------------
(* Type correctness.                                                       *)

(* open stays a number because a connection is only closed by the worker   *)
(* that holds it.                                                          *)
Holds(d) == devices[d] \/ worker[d] \in Building \cup {"closing"}

WorkerInv ==
    \A d \in Devices :
        /\ worker[d] = "idle" => current[d] = "none"
        /\ worker[d] = "take" => current[d] \in Ops
        /\ worker[d] \in {"connect"} \cup Building => current[d] = "start" /\ ~devices[d]
        /\ worker[d] = "closing" => current[d] \in {"stop", "shutdown"} /\ ~devices[d]

OpenInv ==
    \A d \in Devices :
        /\ Holds(d) => open[d] >= 1
        /\ ~panicked[d] => open[d] = IF Holds(d) THEN 1 ELSE 0

(* What core was last told of a device, and where the workers are when     *)
(* the queues are closed.                                                  *)
ToldInv ==
    \A d \in Devices :
        events[d] # <<>> /\ events[d][Len(events[d])] = "started" => devices[d] \/ worker[d] = "closing"

EndInv ==
    /\ \A d \in Devices :
        main \in {"stopAll", "exited"} =>
            queue[d] = <<>> /\ current[d] \in {"none", "shutdown"} /\ worker[d] \in {"idle", "closing"}
    /\ \A d \in Devices : main = "exited" => ~devices[d] /\ worker[d] = "idle"
    /\ \A d \in Devices : current[d] = "shutdown" => main = "stopAll" /\ worker[d] = "closing"

HostInv == TypeOK /\ WorkerInv /\ OpenInv /\ ToldInv /\ EndInv

LEMMA HostInit == Init => HostInv
<1> SUFFICES ASSUME Init PROVE HostInv
  OBVIOUS
<1>1. <<>> \in Seq(Command) /\ <<>> \in Seq(Ops) /\ <<>> \in Seq(Kinds) /\ Len(<<>>) = 0
  BY EmptySeq
<1>2. \A d \in Devices : queue[d] = <<>> /\ worker[d] = "idle" /\ current[d] = "none"
                          /\ events[d] = <<>> /\ ~devices[d] /\ open[d] = 0
  BY DEF Init
<1>3. \A d \in Devices : Len(queue[d]) <= QueueSize
  <2> TAKE d \in Devices
  <2>1. queue[d] = <<>>
    BY <1>2
  <2> QED
    BY <2>1, QueueSizeAssumption
<1>4. TypeOK
  BY <1>1, <1>3 DEF Init, TypeOK, Kinds
<1> QED
  BY <1>2, <1>4 DEF Init, HostInv, WorkerInv, OpenInv, ToldInv, EndInv, Holds, Building

(* controller-core and signals only add input.                             *)
LEMMA TypeMain == TypeOK /\ (Core \/ MainAction) => TypeOK'
<1> SUFFICES ASSUME TypeOK, Core \/ MainAction PROVE TypeOK'
  OBVIOUS
<1> USE DEF TypeOK
<1>1. CASE WriteCommand
  <2>1. input' \in Seq(Command)
    BY <1>1, Appended DEF WriteCommand
  <2> QED
    BY <1>1, <2>1 DEF WriteCommand, mainVars, workerVars
<1>2. CASE ReadCommand
  <2>1. input' \in Seq(Command) /\ handing' \in Command
    BY <1>2, TakenOff DEF ReadCommand
  <2> QED
    BY <1>2, <2>1 DEF ReadCommand, workerVars
<1>3. CASE HandOver
  <2>1. handing.op \in Ops /\ handing.device \in Devices
    BY <1>3 DEF HandOver, Command
  <2> DEFINE q == queue[handing.device]
  <2>2. q \in Seq(Ops) /\ Len(q) < QueueSize
    BY <1>3, <2>1 DEF HandOver
  <2>3. Append(q, handing.op) \in Seq(Ops) /\ Len(Append(q, handing.op)) <= QueueSize
    BY <2>1, <2>2, Appended, QueueSizeAssumption
  <2>4. queue' \in [Devices -> Seq(Ops)] /\ \A d \in Devices : Len(queue'[d]) <= QueueSize
    BY <1>3, <2>3 DEF HandOver
  <2> QED
    BY <1>3, <2>4 DEF HandOver, coreVars
<1>4. CASE CloseStdin \/ Signal
  BY <1>4 DEF CloseStdin, Signal, mainVars, workerVars
<1>5. CASE CloseQueues \/ WorkersDone \/ Exit
  BY <1>5 DEF CloseQueues, WorkersDone, Exit, coreVars, workerVars
<1> QED
  BY <1>1, <1>2, <1>3, <1>4, <1>5 DEF Core, MainAction

(* The steps of a worker, of the driver's code and of stopAll.             *)
DeviceAction(d) == Worker(d) \/ DriverCode(d) \/ StopRemaining(d)

LEMMA TypeEvent ==
    ASSUME TypeOK, NEW d \in Devices, NEW kind \in Kinds, Event(d, kind)
    PROVE  events' \in [Devices -> Seq(Kinds)]
  BY Appended DEF TypeOK, Event, Kinds

LEMMA TypeDevice ==
    ASSUME TypeOK, WorkerInv, OpenInv, NEW d \in Devices, DeviceAction(d) PROVE TypeOK'
<1> USE DEF TypeOK
<1>1. CASE TakeCommand(d)
  <2>1. queue[d] \in Seq(Ops) /\ queue[d] # <<>>
    BY <1>1 DEF TakeCommand
  <2>2. Head(queue[d]) \in Ops /\ Tail(queue[d]) \in Seq(Ops) /\ Len(Tail(queue[d])) <= QueueSize
    BY <2>1, TakenOff, QueueSizeAssumption
  <2>3. queue' \in [Devices -> Seq(Ops)] /\ current' \in [Devices -> Ops \cup {"none", "shutdown"}]
    BY <1>1, <2>2 DEF TakeCommand
  <2>4. \A e \in Devices : Len(queue'[e]) <= QueueSize
    BY <1>1, <2>2 DEF TakeCommand
  <2> QED
    BY <1>1, <2>3, <2>4 DEF TakeCommand, Goto, coreVars, mainVars
<1>2. CASE AlreadyStarted(d) \/ StartFails(d) \/ ConnectFails(d) \/ NothingToStop(d) \/ Started(d)
           \/ BuildPanics(d)
  <2>1. events' \in [Devices -> Seq(Kinds)]
    BY <1>2, TypeEvent
       DEF AlreadyStarted, StartFails, ConnectFails, NothingToStop, Started, BuildPanics, Kinds
  <2> QED
    BY <1>2, <2>1 DEF AlreadyStarted, StartFails, ConnectFails, NothingToStop, Started, BuildPanics,
                      Finish, Goto, coreVars, mainVars, Kinds
<1>3. CASE BuildFails(d) \/ EndStop(d)
  <2>1. events' \in [Devices -> Seq(Kinds)]
    BY <1>3, TypeEvent DEF BuildFails, EndStop, Kinds
  <2>2. open[d] \in Nat /\ open[d] >= 1
    BY <1>3 DEF BuildFails, EndStop, OpenInv, Holds
  <2>3. open[d] - 1 \in Nat /\ open' = [open EXCEPT ![d] = open[d] - 1]
    BY <1>3, <2>2 DEF BuildFails, EndStop
  <2>4. open' \in [Devices -> Nat]
    BY <2>3
  <2> QED
    BY <1>3, <2>1, <2>4 DEF BuildFails, EndStop, Finish, Goto, coreVars, mainVars, Kinds
<1>4. CASE UnknownOp(d) \/ ReadConfig(d) \/ BeginStop(d) \/ StopRemaining(d)
  BY <1>4 DEF UnknownOp, ReadConfig, BeginStop, StopRemaining, Finish, Goto, coreVars, mainVars
<1>5. CASE Connect(d)
  <2>1. open' \in [Devices -> Nat] /\ worker' \in [Devices -> {"idle", "take", "connect", "closing"} \cup Building]
    BY <1>5 DEF Connect, Opened, Goto, Building
  <2> QED
    BY <1>5, <2>1 DEF Connect, coreVars, mainVars
<1>6. CASE BuildSucceeds(d)
  <2>1. worker' \in [Devices -> {"idle", "take", "connect", "closing"} \cup Building]
    BY <1>6 DEF BuildSucceeds, Goto, Building
  <2> QED
    BY <1>6, <2>1 DEF BuildSucceeds, coreVars, mainVars
<1> QED
  BY <1>1, <1>2, <1>3, <1>4, <1>5, <1>6 DEF DeviceAction, Worker, DriverCode
-----------------------------------------------------------------------------
(* The invariant.                                                          *)

(* A device's steps leave the other devices and the main goroutine alone.  *)
Untouched(e) ==
    /\ queue'[e] = queue[e] /\ worker'[e] = worker[e] /\ current'[e] = current[e]
    /\ devices'[e] = devices[e] /\ open'[e] = open[e] /\ panicked'[e] = panicked[e]
    /\ events'[e] = events[e]

LEMMA DeviceLocal ==
    ASSUME TypeOK, NEW d \in Devices, DeviceAction(d)
    PROVE  main' = main /\ \A e \in Devices \ {d} : Untouched(e)
<1> USE DEF TypeOK, Untouched, mainVars
<1>1. CASE TakeCommand(d) \/ UnknownOp(d) \/ ReadConfig(d) \/ Connect(d) \/ BuildSucceeds(d)
           \/ BeginStop(d) \/ StopRemaining(d)
  BY <1>1 DEF TakeCommand, UnknownOp, ReadConfig, Connect, BuildSucceeds, BeginStop, StopRemaining,
              Finish, Goto, Opened
<1>2. CASE AlreadyStarted(d) \/ StartFails(d) \/ ConnectFails(d) \/ NothingToStop(d) \/ Started(d)
           \/ BuildPanics(d) \/ BuildFails(d) \/ EndStop(d)
  BY <1>2 DEF AlreadyStarted, StartFails, ConnectFails, NothingToStop, Started, BuildPanics,
              BuildFails, EndStop, Finish, Goto, Event
<1> QED
  BY <1>1, <1>2 DEF DeviceAction, Worker, DriverCode

(* What each of them does to its own device.                               *)
LEMMA DeviceOwn ==
    ASSUME HostInv, NEW d \in Devices, DeviceAction(d)
    PROVE  /\ worker'[d] = "idle" => current'[d] = "none"
           /\ worker'[d] = "take" => current'[d] \in Ops
           /\ worker'[d] \in {"connect"} \cup Building => current'[d] = "start" /\ ~devices'[d]
           /\ worker'[d] = "closing" => current'[d] \in {"stop", "shutdown"} /\ ~devices'[d]
           /\ main \in {"stopAll", "exited"} =>
                  /\ queue'[d] = <<>> /\ current'[d] \in {"none", "shutdown"}
                  /\ worker'[d] \in {"idle", "closing"}
           /\ main # "exited"
           /\ current'[d] = "shutdown" => main = "stopAll" /\ worker'[d] = "closing"
<1> USE DEF HostInv, TypeOK, WorkerInv, EndInv, Building
<1>1. CASE TakeCommand(d)
  <2>1. Head(queue[d]) \in Ops
    BY <1>1, TakenOff DEF TakeCommand
  <2> QED
    BY <1>1, <2>1 DEF TakeCommand, Goto, Ops
<1>2. CASE UnknownOp(d) \/ ReadConfig(d) \/ Connect(d) \/ BuildSucceeds(d) \/ BeginStop(d)
           \/ StopRemaining(d)
  BY <1>2 DEF UnknownOp, ReadConfig, Connect, BuildSucceeds, BeginStop, StopRemaining, Finish, Goto,
              Opened, Ops
<1>3. CASE AlreadyStarted(d) \/ StartFails(d) \/ ConnectFails(d) \/ NothingToStop(d) \/ Started(d)
           \/ BuildPanics(d) \/ BuildFails(d) \/ EndStop(d)
  BY <1>3 DEF AlreadyStarted, StartFails, ConnectFails, NothingToStop, Started, BuildPanics,
              BuildFails, EndStop, Finish, Goto, Ops
<1> QED
  BY <1>1, <1>2, <1>3 DEF DeviceAction, Worker, DriverCode

LEMMA DeviceOpen ==
    ASSUME HostInv, NEW d \in Devices, DeviceAction(d)
    PROVE  /\ Holds(d)' => open'[d] >= 1
           /\ ~panicked'[d] => open'[d] = IF Holds(d)' THEN 1 ELSE 0
<1> USE DEF HostInv, TypeOK, WorkerInv, OpenInv, EndInv, Building, Holds
<1>1. open[d] \in Nat
  OBVIOUS
<1>2. CASE TakeCommand(d) \/ UnknownOp(d) \/ AlreadyStarted(d) \/ StartFails(d) \/ ReadConfig(d)
           \/ ConnectFails(d) \/ NothingToStop(d)
  BY <1>1, <1>2 DEF TakeCommand, UnknownOp, AlreadyStarted, StartFails, ReadConfig, ConnectFails,
                    NothingToStop, Finish, Goto
<1>3. CASE Connect(d)
  <2>1. open'[d] = open[d] + 1 /\ worker'[d] = "new" /\ panicked' = panicked
    BY <1>3 DEF Connect, Opened, Goto
  <2>2. ~Holds(d) /\ Holds(d)'
    BY <1>3, <2>1 DEF Connect
  <2>3. ~panicked[d] => open[d] = 0
    BY <2>2
  <2> QED
    BY <1>1, <2>1, <2>2, <2>3
<1>4. CASE BuildSucceeds(d) \/ BeginStop(d) \/ StopRemaining(d)
  BY <1>1, <1>4 DEF BuildSucceeds, BeginStop, StopRemaining, Goto
<1>5. CASE Started(d) \/ BuildPanics(d)
  BY <1>1, <1>5 DEF Started, BuildPanics, Finish, Goto
<1>6. CASE BuildFails(d) \/ EndStop(d)
  BY <1>1, <1>6 DEF BuildFails, EndStop, Finish, Goto
<1> QED
  BY <1>2, <1>3, <1>4, <1>5, <1>6 DEF DeviceAction, Worker, DriverCode

LEMMA DeviceTold ==
    ASSUME HostInv, NEW d \in Devices, DeviceAction(d)
    PROVE  events'[d] # <<>> /\ events'[d][Len(events'[d])] = "started"
               => devices'[d] \/ worker'[d] = "closing"
<1> USE DEF HostInv, TypeOK, WorkerInv, ToldInv, Building
<1> DEFINE Last(s) == s[Len(s)]
<1>1. ASSUME NEW kind \in Kinds, Event(d, kind) PROVE Last(events'[d]) = kind
  <2>1. events[d] \in Seq(Kinds) /\ events'[d] = Append(events[d], kind)
    BY <1>1 DEF Event, Kinds
  <2> QED
    BY <2>1, Appended
<1>2. CASE AlreadyStarted(d) \/ Started(d)
  BY <1>2 DEF AlreadyStarted, Started
<1>3. CASE StartFails(d) \/ ConnectFails(d) \/ BuildPanics(d) \/ BuildFails(d)
  <2>1. Event(d, "failed") /\ "failed" \in Kinds
    BY <1>3 DEF StartFails, ConnectFails, BuildPanics, BuildFails, Kinds
  <2>2. Last(events'[d]) = "failed"
    BY <2>1, <1>1
  <2> QED
    BY <2>2
<1>4. CASE NothingToStop(d) \/ EndStop(d)
  <2>1. Event(d, "stopped") /\ "stopped" \in Kinds
    BY <1>4 DEF NothingToStop, EndStop, Kinds
  <2>2. Last(events'[d]) = "stopped"
    BY <2>1, <1>1
  <2> QED
    BY <2>2
<1>5. CASE TakeCommand(d) \/ UnknownOp(d) \/ ReadConfig(d) \/ Connect(d) \/ BuildSucceeds(d)
  BY <1>5 DEF TakeCommand, UnknownOp, ReadConfig, Connect, BuildSucceeds, Finish, Goto
<1>6. CASE BeginStop(d) \/ StopRemaining(d)
  BY <1>6 DEF BeginStop, StopRemaining, Goto
<1> QED
  BY <1>2, <1>3, <1>4, <1>5, <1>6 DEF DeviceAction, Worker, DriverCode

LEMMA HostDevice == ASSUME HostInv, NEW d \in Devices, DeviceAction(d) PROVE HostInv'
<1>1. TypeOK /\ WorkerInv /\ OpenInv /\ ToldInv /\ EndInv
  BY DEF HostInv
<1>2. TypeOK'
  BY <1>1, TypeDevice
<1>3. main' = main /\ \A e \in Devices \ {d} : Untouched(e)
  BY <1>1, DeviceLocal
<1>4. WorkerInv' /\ EndInv'
  BY <1>1, <1>3, DeviceOwn DEF WorkerInv, EndInv, Untouched
<1>5. OpenInv'
  BY <1>1, <1>3, DeviceOpen DEF OpenInv, Holds, Untouched
<1>6. ToldInv'
  BY <1>1, <1>3, DeviceTold DEF ToldInv, Untouched
<1> QED
  BY <1>2, <1>4, <1>5, <1>6 DEF HostInv

LEMMA HostMain == HostInv /\ (Core \/ MainAction) => HostInv'
<1> SUFFICES ASSUME HostInv, Core \/ MainAction PROVE HostInv'
  OBVIOUS
<1>1. TypeOK'
  BY TypeMain DEF HostInv
<1>2. UNCHANGED <<worker, current, devices, open, panicked, events>>
  BY DEF Core, MainAction, WriteCommand, CloseStdin, Signal, ReadCommand, HandOver, CloseQueues,
         WorkersDone, Exit, workerVars
<1>3. WorkerInv' /\ OpenInv' /\ ToldInv'
  BY <1>2 DEF HostInv, WorkerInv, OpenInv, ToldInv, Holds
<1>4. CASE Core \/ ReadCommand \/ HandOver \/ CloseQueues
  <2>1. main' = main \/ (main \in {"select", "hand"} /\ main' \in {"select", "hand", "wait"})
    BY <1>4 DEF Core, WriteCommand, CloseStdin, Signal, ReadCommand, HandOver, CloseQueues, mainVars
  <2>2. main' = main => queue' = queue
    BY <1>4 DEF Core, WriteCommand, CloseStdin, Signal, ReadCommand, HandOver, CloseQueues, workerVars
  <2> QED
    BY <1>1, <1>2, <1>3, <2>1, <2>2 DEF HostInv, EndInv
<1>5. CASE WorkersDone
  BY <1>1, <1>2, <1>3, <1>5 DEF WorkersDone, workerVars, HostInv, WorkerInv, EndInv
<1>6. CASE Exit
  BY <1>1, <1>2, <1>3, <1>6 DEF Exit, workerVars, HostInv, WorkerInv, EndInv
<1> QED
  BY <1>4, <1>5, <1>6 DEF MainAction

LEMMA HostSteps == HostInv /\ [Next]_vars => HostInv'
<1> SUFFICES ASSUME HostInv, [Next]_vars PROVE HostInv'
  OBVIOUS
<1>1. CASE Core \/ MainAction
  BY <1>1, HostMain
<1>2. CASE \E d \in Devices : DeviceAction(d)
  BY <1>2, HostDevice
<1>3. CASE UNCHANGED vars
  BY <1>3 DEF vars, HostInv, TypeOK, WorkerInv, OpenInv, ToldInv, EndInv, Holds
<1> QED
  BY <1>1, <1>2, <1>3 DEF Next, Main, Done, MainAction, DeviceAction
-----------------------------------------------------------------------------
(* What is left to say of the program the host is part of: run standalone  *)
(* it leaves the host alone but for the signal both may get.               *)

LEMMA HostInvariant == ProgramSpec => []HostInv
<1>1. ProgramInit => HostInv
  BY HostInit DEF ProgramInit
<1>2. HostInv /\ [ProgramNext]_programVars => HostInv'
  <2> SUFFICES ASSUME HostInv, [ProgramNext]_programVars PROVE HostInv'
    OBVIOUS
  <2>1. CASE Next \/ UNCHANGED vars
    BY <2>1, HostSteps
  <2>2. CASE SignalAlone
    <3>1. UNCHANGED <<input, stdin, sent, main, handing, queue, worker, current, devices, open,
                      panicked, events>> /\ signalled' = TRUE
      BY <2>2 DEF SignalAlone, mainVars, workerVars
    <3> QED
      BY <3>1 DEF HostInv, TypeOK, WorkerInv, OpenInv, ToldInv, EndInv, Holds
  <2> QED
    BY <2>1, <2>2 DEF ProgramNext, programVars, AloneNext, AloneDriverCode, AloneMain,
       AloneBuildSucceeds, AloneBuildFails, AloneBuildPanics, AloneStops, ConfigFails,
       ConfigRead, AloneConnects, AloneConnectFails, Notify, SeeSignal, PrintStopped, Step
<1> QED
  BY <1>1, <1>2, PTL DEF ProgramSpec

(* The host's variables keep their types; a queue never holds more than    *)
(* QueueSize commands (host.queue).                                        *)
THEOREM TypeCorrect == ProgramSpec => []TypeOK
<1>1. HostInv => TypeOK
  BY DEF HostInv
<1> QED
  BY <1>1, HostInvariant, PTL

(* Whatever fails, hangs or is stopped, and in whatever order, a device    *)
(* has one connection exactly while it runs, is being built or is being    *)
(* stopped, unless its New, Init or Start panicked (startDevice, stop).    *)
THEOREM ConnectionOwnedAlways == ProgramSpec => []ConnectionOwned
<1>1. HostInv => ConnectionOwned
  BY DEF HostInv, OpenInv, Holds, ConnectionOwned
<1> QED
  BY <1>1, HostInvariant, PTL

(* When the host exits its queues are empty and core was last told of no   *)
(* device that it started (serve, stopAll).                                *)
THEOREM NothingLeftBehindAlways == ProgramSpec => []NothingLeftBehind
<1>1. HostInv => NothingLeftBehind
  BY DEF HostInv, EndInv, ToldInv, NothingLeftBehind
<1> QED
  BY <1>1, HostInvariant, PTL
-----------------------------------------------------------------------------
(* The host implements DeviceSupervisor.                                   *)

(* A command in front of a queue, as a worker holds it.                    *)
LEMMA InFront ==
    ASSUME NEW S, NEW q \in Seq(S), NEW c \in S
    PROVE  /\ <<c>> \o q \in Seq(S) /\ <<c>> \o q # <<>>
           /\ Head(<<c>> \o q) = c /\ Tail(<<c>> \o q) = q
<1>1. <<c>> \in Seq(S) /\ Len(<<c>>) = 1 /\ <<c>>[1] = c /\ Len(q) \in Nat
  BY LenProperties
<1> DEFINE s == <<c>> \o q
<1>2. s \in Seq(S) /\ Len(s) = 1 + Len(q)
      /\ \A i \in 1 .. (1 + Len(q)) : s[i] = IF i <= 1 THEN <<c>>[i] ELSE q[i - 1]
  BY <1>1, ConcatProperties
<1> HIDE DEF s
<1>3. s # <<>> /\ Head(s) = c
  BY <1>1, <1>2
<1>4. Tail(s) \in Seq(S) /\ Len(Tail(s)) = Len(q) /\ \A i \in 1 .. Len(q) : Tail(s)[i] = q[i]
  BY <1>1, <1>2, <1>3, HeadTailProperties
<1>5. Tail(s) = q
  BY <1>4, SeqEqual
<1> QED
  BY <1>2, <1>3, <1>5 DEF s

LEMMA PutBack ==
    ASSUME NEW S, NEW q \in Seq(S), q # <<>>
    PROVE  <<Head(q)>> \o Tail(q) = q
<1>1. Len(q) \in Nat /\ Len(q) # 0 /\ Head(q) = q[1]
  BY LenProperties, EmptySeq
<1>2. SubSeq(q, 1, Len(q)) = <<q[1]>> \o SubSeq(q, 1 + 1, Len(q))
  BY <1>1, SubSeqRecursiveFirst
<1> QED
  BY <1>1, <1>2, SubSeqFull, TailIsSubSeq

LEMMA AppendBehind ==
    ASSUME NEW S, NEW q \in Seq(S), NEW c \in S, NEW e \in S
    PROVE  <<c>> \o Append(q, e) = Append(<<c>> \o q, e)
<1>1. <<c>> \in Seq(S) /\ <<e>> \in Seq(S)
  OBVIOUS
<1> QED
  BY <1>1, ConcatProperties, AppendIsConcat, ConcatAssociative

(* The state DeviceSupervisor sees.                                        *)
Accepting == main \in {"select", "hand"}
TodoOf(d) == IF current[d] \in Ops THEN <<current[d]>> \o queue[d] ELSE queue[d]
Runs(d)   == devices[d] \/ worker[d] = "closing"

(* One step of it, told in these terms.                                    *)
SameState(d) == TodoOf(d)' = TodoOf(d) /\ Runs(d)' = Runs(d) /\ events'[d] = events[d]

Accepted(d) ==
    /\ Accepting
    /\ \E op \in Ops : TodoOf(d)' = Append(TodoOf(d), op)
    /\ Runs(d)' = Runs(d) /\ events' = events

CarriedOut(d) ==
    /\ TodoOf(d) # <<>> /\ TodoOf(d)' = Tail(TodoOf(d))
    /\ \/ /\ Head(TodoOf(d)) = "start"
          /\ \/ Runs(d)' = TRUE /\ Event(d, "started")
             \/ ~Runs(d) /\ Runs(d)' = Runs(d) /\ Event(d, "failed")
       \/ /\ Head(TodoOf(d)) = "stop"
          /\ Runs(d)' = FALSE /\ Event(d, "stopped")
       \/ /\ Head(TodoOf(d)) = "other"
          /\ Runs(d)' = Runs(d) /\ events' = events

ShutDown(d) ==
    /\ ~Accepting /\ Runs(d) /\ \A e \in Devices : TodoOf(e) = <<>>
    /\ Runs(d)' = FALSE /\ Event(d, "stopped") /\ TodoOf(d)' = TodoOf(d)

(* A worker's step that is not the end of a command changes nothing that   *)
(* DeviceSupervisor sees ...                                               *)
LEMMA UnseenSteps ==
    ASSUME HostInv, NEW d \in Devices,
           \/ TakeCommand(d) \/ ReadConfig(d) \/ Connect(d) \/ BuildSucceeds(d) \/ BeginStop(d)
           \/ StopRemaining(d)
    PROVE  SameState(d) /\ events' = events
<1> USE DEF HostInv, TypeOK, WorkerInv, SameState
<1>1. CASE TakeCommand(d)
  <2>1. queue[d] \in Seq(Ops) /\ queue[d] # <<>> /\ current[d] = "none" /\ "none" \notin Ops
    BY <1>1 DEF TakeCommand, Ops
  <2>2. Head(queue[d]) \in Ops /\ <<Head(queue[d])>> \o Tail(queue[d]) = queue[d]
    BY <2>1, PutBack, TakenOff
  <2>3. current'[d] = Head(queue[d]) /\ queue'[d] = Tail(queue[d]) /\ worker'[d] = "take"
        /\ worker[d] = "idle" /\ UNCHANGED <<devices, events>>
    BY <1>1 DEF TakeCommand, Goto
  <2> QED
    BY <2>1, <2>2, <2>3 DEF TodoOf, Runs
<1>2. CASE ReadConfig(d) \/ Connect(d) \/ BuildSucceeds(d) \/ BeginStop(d)
  BY <1>2 DEF ReadConfig, Connect, BuildSucceeds, BeginStop, Goto, TodoOf, Runs
<1>3. CASE StopRemaining(d)
  <2>1. current[d] \notin Ops /\ current'[d] \notin Ops
    BY <1>3 DEF StopRemaining, EndInv, Ops
  <2> QED
    BY <1>3, <2>1 DEF StopRemaining, TodoOf, Runs
<1> QED
  BY <1>1, <1>2, <1>3

(* ... the end of one carries it out ...                                   *)
LEMMA EndingSteps ==
    ASSUME HostInv, NEW d \in Devices,
           \/ UnknownOp(d) \/ AlreadyStarted(d) \/ StartFails(d) \/ ConnectFails(d) \/ Started(d)
           \/ BuildFails(d) \/ BuildPanics(d) \/ NothingToStop(d)
           \/ (EndStop(d) /\ current[d] = "stop")
    PROVE  CarriedOut(d)
<1> USE DEF HostInv, TypeOK, WorkerInv
<1>1. current[d] \in Ops /\ queue[d] \in Seq(Ops)
  BY DEF UnknownOp, AlreadyStarted, StartFails, ConnectFails, Started, BuildFails, BuildPanics,
         NothingToStop, Building, Ops
<1>2. queue' = queue /\ current'[d] = "none" /\ worker'[d] = "idle"
  BY DEF UnknownOp, AlreadyStarted, StartFails, ConnectFails, Started, BuildFails, BuildPanics,
         NothingToStop, EndStop, Finish, Goto
<1>3. TodoOf(d) # <<>> /\ Head(TodoOf(d)) = current[d] /\ TodoOf(d)' = Tail(TodoOf(d))
  BY <1>1, <1>2, InFront DEF TodoOf, Ops
<1>4. CASE UnknownOp(d)
  BY <1>2, <1>3, <1>4 DEF UnknownOp, CarriedOut, Runs
<1>5. CASE AlreadyStarted(d) \/ StartFails(d) \/ ConnectFails(d)
  BY <1>2, <1>3, <1>5 DEF AlreadyStarted, StartFails, ConnectFails, CarriedOut, Runs
<1>6. CASE Started(d) \/ BuildFails(d) \/ BuildPanics(d)
  BY <1>2, <1>3, <1>6 DEF Started, BuildFails, BuildPanics, Building, CarriedOut, Runs
<1>7. CASE NothingToStop(d) \/ (EndStop(d) /\ current[d] = "stop")
  BY <1>2, <1>3, <1>7 DEF NothingToStop, EndStop, CarriedOut, Runs
<1> QED
  BY <1>4, <1>5, <1>6, <1>7

(* ... and the last stop of a device comes when nothing is left to do.     *)
LEMMA LastSteps ==
    ASSUME HostInv, NEW d \in Devices, EndStop(d), current[d] # "stop"
    PROVE  ShutDown(d)
<1> USE DEF HostInv, TypeOK, WorkerInv, EndInv
<1>1. current[d] = "shutdown" /\ main = "stopAll"
  BY DEF EndStop
<1>2. \A e \in Devices : queue[e] = <<>> /\ current[e] \notin Ops
  BY <1>1 DEF Ops
<1>3. queue' = queue /\ current'[d] = "none" /\ worker'[d] = "idle" /\ devices' = devices
      /\ ~devices[d] /\ worker[d] = "closing" /\ Event(d, "stopped")
  BY DEF EndStop, Finish, Goto
<1> QED
  BY <1>1, <1>2, <1>3 DEF ShutDown, Accepting, TodoOf, Runs, Ops

(* A handed command joins what its device has to do.                       *)
LEMMA HandingSteps ==
    ASSUME HostInv, HandOver
    PROVE  \E d \in Devices : Accepted(d) /\ \A e \in Devices \ {d} : SameState(e)
<1> USE DEF HostInv, TypeOK
<1>1. handing.device \in Devices /\ handing.op \in Ops /\ main = "hand" /\ main' = "select"
  BY DEF HandOver, Command
<1> PICK d \in Devices : d = handing.device
  BY <1>1
<1> PICK op \in Ops : op = handing.op
  BY <1>1
<1>2. queue' = [queue EXCEPT ![d] = Append(queue[d], op)]
      /\ UNCHANGED <<worker, current, devices, events>>
  BY DEF HandOver
<1>3. queue[d] \in Seq(Ops) /\ queue'[d] = Append(queue[d], op)
  BY <1>2
<1>4. current[d] \in Ops => <<current[d]>> \o Append(queue[d], op) = Append(<<current[d]>> \o queue[d], op)
  BY <1>3, AppendBehind
<1>5. TodoOf(d)' = Append(TodoOf(d), op)
  BY <1>2, <1>3, <1>4 DEF TodoOf
<1>6. Accepted(d)
  BY <1>1, <1>2, <1>5 DEF Accepted, Accepting, Runs
<1>7. \A e \in Devices \ {d} : SameState(e)
  BY <1>2 DEF SameState, TodoOf, Runs
<1> QED
  BY <1>6, <1>7

(* The refinement, one step at a time.                                     *)
todoBar    == [d \in Devices |-> TodoOf(d)]
runningBar == [d \in Devices |-> Runs(d)]

LEMMA SameBars ==
    ASSUME \A d \in Devices : SameState(d)
    PROVE  todoBar' = todoBar /\ runningBar' = runningBar
  BY DEF SameState, todoBar, runningBar

LEMMA DeviceRefines ==
    ASSUME HostInv, NEW d \in Devices, DeviceAction(d)
    PROVE  /\ Accepting' = Accepting
           /\ \A e \in Devices \ {d} : SameState(e)
           /\ \/ SameState(d) /\ events' = events
              \/ CarriedOut(d)
              \/ ShutDown(d)
<1>1. main' = main /\ \A e \in Devices \ {d} : Untouched(e)
  BY DeviceLocal DEF HostInv
<1>2. Accepting' = Accepting /\ \A e \in Devices \ {d} : SameState(e)
  BY <1>1 DEF Accepting, Untouched, SameState, TodoOf, Runs
<1>3. CASE \/ TakeCommand(d) \/ ReadConfig(d) \/ Connect(d) \/ BuildSucceeds(d) \/ BeginStop(d)
           \/ StopRemaining(d)
  BY <1>2, <1>3, UnseenSteps
<1>4. CASE \/ UnknownOp(d) \/ AlreadyStarted(d) \/ StartFails(d) \/ ConnectFails(d) \/ Started(d)
           \/ BuildFails(d) \/ BuildPanics(d) \/ NothingToStop(d)
           \/ (EndStop(d) /\ current[d] = "stop")
  BY <1>2, <1>4, EndingSteps
<1>5. CASE EndStop(d) /\ current[d] # "stop"
  BY <1>2, <1>5, LastSteps
<1> QED
  BY <1>3, <1>4, <1>5 DEF DeviceAction, Worker, DriverCode

LEMMA SupervisorStep ==
    ASSUME HostInv, [Next]_vars
    PROVE  [Supervisor!Next]_<<Accepting, todoBar, runningBar, events>>
<1> USE DEF Supervisor!Next, Accepting
<1>1. CASE HandOver
  <2> PICK d \in Devices : Accepted(d) /\ \A e \in Devices \ {d} : SameState(e)
    BY <1>1, HandingSteps
  <2> PICK op \in Ops : TodoOf(d)' = Append(TodoOf(d), op)
    BY DEF Accepted
  <2>1. main = "hand" /\ main' = "select"
    BY <1>1 DEF HandOver
  <2>2. todoBar' = [todoBar EXCEPT ![d] = Append(@, op)]
    BY DEF todoBar, SameState
  <2>3. runningBar' = runningBar /\ events' = events
    BY DEF runningBar, SameState, Accepted
  <2>4. \E o \in {"start", "stop", "other"} : todoBar' = [todoBar EXCEPT ![d] = Append(@, o)]
    BY <2>2 DEF Ops
  <2>5. main \in {"select", "hand"} /\ UNCHANGED <<main \in {"select", "hand"}, runningBar, events>>
    BY <2>1, <2>3
  <2> HIDE DEF Accepting
  <2>6. Supervisor!Accept(d)
    BY <2>4, <2>5 DEF Supervisor!Accept, todoBar, runningBar, TodoOf, Runs
  <2> QED
    BY <2>6
<1>2. CASE CloseQueues
  <2>1. UNCHANGED <<queue, current, devices, worker, events>> /\ main = "select" /\ main' = "wait"
    BY <1>2 DEF CloseQueues, workerVars
  <2>2. Supervisor!Close
    BY <2>1 DEF Supervisor!Close
  <2> QED
    BY <2>2
<1>3. CASE Core \/ ReadCommand \/ WorkersDone \/ Exit \/ UNCHANGED vars
  <2>1. UNCHANGED <<queue, current, devices, worker, events>> /\ Accepting' = Accepting
    BY <1>3 DEF Core, WriteCommand, CloseStdin, Signal, ReadCommand, WorkersDone, Exit, vars, mainVars,
                workerVars
  <2> QED
    BY <2>1 DEF todoBar, runningBar, TodoOf, Runs
<1>4. ASSUME NEW d \in Devices, DeviceAction(d)
      PROVE  [Supervisor!Next]_<<Accepting, todoBar, runningBar, events>>
  <2>1. Accepting' = Accepting /\ \A e \in Devices \ {d} : SameState(e)
    BY <1>4, DeviceRefines
  <2>2. CASE SameState(d) /\ events' = events
    BY <2>1, <2>2, SameBars
  <2>3. CASE CarriedOut(d)
    <3>1. todoBar' = [todoBar EXCEPT ![d] = Tail(@)] /\ todoBar[d] = TodoOf(d)
          /\ runningBar[d] = Runs(d) /\ runningBar' = [runningBar EXCEPT ![d] = Runs(d)']
          /\ (Runs(d)' = Runs(d) => runningBar' = runningBar)
      BY <2>1, <2>3 DEF CarriedOut, todoBar, runningBar, SameState
    <3>2. Supervisor!CarryOut(d)
      BY <2>1, <2>3, <3>1
         DEF Supervisor!CarryOut, Supervisor!Is, Supervisor!Tell, CarriedOut, Event, todoBar, runningBar,
             TodoOf, Runs
    <3> QED
      BY <3>2
  <2>4. CASE ShutDown(d)
    <3>1. todoBar' = todoBar /\ \A e \in Devices : todoBar[e] = TodoOf(e)
      BY <2>1, <2>4 DEF ShutDown, todoBar, SameState
    <3>2. runningBar[d] = Runs(d) /\ runningBar' = [runningBar EXCEPT ![d] = FALSE]
      BY <2>1, <2>4 DEF ShutDown, runningBar, SameState
    <3>3. Supervisor!ShutDown(d)
      BY <2>1, <2>4, <3>1, <3>2
         DEF Supervisor!ShutDown, Supervisor!Is, Supervisor!Tell, ShutDown, Event, todoBar, runningBar,
             TodoOf, Runs
    <3> QED
      BY <3>3
  <2> QED
    BY <1>4, <2>2, <2>3, <2>4, DeviceRefines
<1> QED
  BY <1>1, <1>2, <1>3, <1>4 DEF Next, Main, Done, DeviceAction

LEMMA SupervisorInit == Init => Supervisor!Init
<1> SUFFICES ASSUME Init PROVE Supervisor!Init
  OBVIOUS
<1>1. \A d \in Devices : queue[d] = <<>> /\ current[d] \notin Ops /\ ~devices[d] /\ worker[d] = "idle"
  BY DEF Init, Ops
<1>2. todoBar = [d \in Devices |-> <<>>] /\ runningBar = [d \in Devices |-> FALSE]
  BY <1>1 DEF todoBar, runningBar, TodoOf, Runs
<1> QED
  BY <1>2 DEF Init, Supervisor!Init, todoBar, runningBar, TodoOf, Runs

(* The host implements DeviceSupervisor: every device's commands are       *)
(* carried out in order and answered once, none of its starts and stops    *)
(* overlap, and what runs at the end is stopped (host.handle, host.queue,  *)
(* host.stopAll).                                                          *)
THEOREM SupervisesAlways == ProgramSpec => Supervises
<1>1. ProgramInit => Supervisor!Init
  BY SupervisorInit DEF ProgramInit
<1>2. HostInv /\ [ProgramNext]_programVars =>
          [Supervisor!Next]_<<Accepting, todoBar, runningBar, events>>
  <2> SUFFICES ASSUME HostInv, [ProgramNext]_programVars
               PROVE  [Supervisor!Next]_<<Accepting, todoBar, runningBar, events>>
    OBVIOUS
  <2>1. CASE Next \/ UNCHANGED vars
    BY <2>1, SupervisorStep
  <2>2. CASE SignalAlone
    <3>1. UNCHANGED <<main, queue, worker, current, devices, events>>
      BY <2>2 DEF SignalAlone, mainVars, workerVars
    <3> QED
      BY <3>1 DEF Accepting, todoBar, runningBar, TodoOf, Runs
  <2> QED
    BY <2>1, <2>2 DEF ProgramNext, programVars, AloneNext, AloneDriverCode, AloneMain,
       AloneBuildSucceeds, AloneBuildFails, AloneBuildPanics, AloneStops, ConfigFails,
       ConfigRead, AloneConnects, AloneConnectFails, Notify, SeeSignal, PrintStopped, Step
<1> QED
  BY <1>1, <1>2, HostInvariant, PTL
     DEF ProgramSpec, Supervises, Supervisor!Spec, Accepting, todoBar, runningBar, TodoOf, Runs
-----------------------------------------------------------------------------
(* What DeviceSupervisor guarantees by itself, the program guarantees too. *)

(* What one step of the supervisor does to a device's last event and to    *)
(* whether it runs.                                                        *)
LEMMA KnownAfter ==
    ASSUME HostInv, NEW d \in Devices, NEW kind \in Kinds, NEW runs \in BOOLEAN,
           runs <=> kind = "started",
           Supervisor!CoreKnowsWhatRuns,
           events' = [events EXCEPT ![d] = Append(@, kind)],
           runningBar' = [runningBar EXCEPT ![d] = runs]
    PROVE  \A e \in Devices :
               runningBar'[e] <=> events'[e] # <<>> /\ events'[e][Len(events'[e])] = "started"
<1>1. events \in [Devices -> Seq(Kinds)]
  BY DEF HostInv, TypeOK, Kinds
<1>2. \A e \in Devices :
          runningBar[e] <=> events[e] # <<>> /\ events[e][Len(events[e])] = "started"
  BY DEF Supervisor!CoreKnowsWhatRuns, runningBar, Runs
<1>3. /\ events'[d] # <<>> /\ events'[d][Len(events'[d])] = kind
      /\ \A e \in Devices \ {d} : events'[e] = events[e]
  BY <1>1, Appended
<1>4. runningBar'[d] = runs /\ \A e \in Devices \ {d} : runningBar'[e] = runningBar[e]
  BY DEF runningBar
<1> QED
  BY <1>2, <1>3, <1>4

LEMMA KnownInit == Supervisor!Init => Supervisor!CoreKnowsWhatRuns
  BY DEF Supervisor!Init, Supervisor!CoreKnowsWhatRuns

LEMMA KnownSteps ==
    ASSUME HostInv, Supervisor!CoreKnowsWhatRuns,
           [Supervisor!Next]_<<Accepting, todoBar, runningBar, events>>
    PROVE  Supervisor!CoreKnowsWhatRuns'
<1> USE DEF Supervisor!Tell, Supervisor!Is
<1>1. ASSUME NEW d \in Devices, NEW kind \in Kinds, NEW runs \in BOOLEAN,
             runs <=> kind = "started",
             events' = [events EXCEPT ![d] = Append(@, kind)],
             runningBar' = [runningBar EXCEPT ![d] = runs]
      PROVE  Supervisor!CoreKnowsWhatRuns'
  BY <1>1, KnownAfter DEF Supervisor!CoreKnowsWhatRuns, runningBar, Runs
<1>2. ASSUME runningBar' = runningBar, events' = events
      PROVE  Supervisor!CoreKnowsWhatRuns'
  BY <1>2 DEF Supervisor!CoreKnowsWhatRuns, runningBar, Runs
<1>3. CASE Supervisor!Close \/ \E d \in Devices : Supervisor!Accept(d)
  BY <1>2, <1>3 DEF Supervisor!Close, Supervisor!Accept, runningBar, Runs
<1>4. ASSUME NEW d \in Devices, Supervisor!ShutDown(d) PROVE Supervisor!CoreKnowsWhatRuns'
  BY <1>1, <1>4 DEF Supervisor!ShutDown, runningBar, Runs, Kinds
<1>5. ASSUME NEW d \in Devices, Supervisor!CarryOut(d) PROVE Supervisor!CoreKnowsWhatRuns'
  <2>1. \/ /\ runningBar' = [runningBar EXCEPT ![d] = TRUE]
           /\ events' = [events EXCEPT ![d] = Append(@, "started")]
        \/ /\ ~runningBar[d] /\ runningBar' = runningBar
           /\ events' = [events EXCEPT ![d] = Append(@, "failed")]
        \/ /\ runningBar' = [runningBar EXCEPT ![d] = FALSE]
           /\ events' = [events EXCEPT ![d] = Append(@, "stopped")]
        \/ runningBar' = runningBar /\ events' = events
    BY <1>5 DEF Supervisor!CarryOut, runningBar, Runs
  <2>2. ~runningBar[d] /\ runningBar' = runningBar => runningBar' = [runningBar EXCEPT ![d] = FALSE]
    BY DEF runningBar, Runs
  <2> QED
    BY <1>1, <1>2, <2>1, <2>2 DEF Kinds
<1>6. CASE UNCHANGED <<Accepting, todoBar, runningBar, events>>
  BY <1>2, <1>6
<1> QED
  BY <1>3, <1>4, <1>5, <1>6 DEF Supervisor!Next

(* Core always knows which devices a host runs: a device is up, or being   *)
(* stopped, exactly while the last event of it says that it started        *)
(* (startDevice, stop, stopAll and the events they write).                 *)
THEOREM CoreKnowsWhatRunsAlways == ProgramSpec => []Supervisor!CoreKnowsWhatRuns
<1>1. Supervisor!Init => Supervisor!CoreKnowsWhatRuns
  BY KnownInit
<1>2. HostInv /\ Supervisor!CoreKnowsWhatRuns
        /\ [Supervisor!Next]_<<Accepting, todoBar, runningBar, events>>
            => Supervisor!CoreKnowsWhatRuns'
  BY KnownSteps
<1>3. ProgramSpec => Supervisor!Spec
  BY SupervisesAlways DEF Supervises
<1> QED
  BY <1>1, <1>2, <1>3, HostInvariant, PTL
     DEF Supervisor!Spec, Accepting, todoBar, runningBar, TodoOf, Runs
=============================================================================
