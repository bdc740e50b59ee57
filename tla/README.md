# nx-driver-sdk in TLA+

A verification development for the NX driver SDK (`src/`, Go). The SDK is the library a
device driver is built with. A driver process talks to *controller-core* over HTTP and gRPC;
core is not in the repository. The SDK has no database: what is hard in it is the
concurrency inside one driver process (poll goroutines, callers, timers, callbacks of driver
code that may fail, panic or hang) and the unreliable exchange with core (requests and
answers get lost, processes crash and start again, queues hold what was sent meanwhile).

Everything here is TLA+ checked by TLC. For eight of its components every safety property, and
for five of them the refinement of an abstract specification, is proved with TLAPS for every
value of the constants.
`PROJECT.json` lists the components, runs, mutants, the map from definitions to source lines,
the hazards, the findings and the theorems.

## 1. Inventory

| Component (source) | State it keeps | Operations | Hard behaviour | What makes it correct |
|---|---|---|---|---|
| Endpoint bus, receiving (`endpoint_bus.go`) | cursor `afterID`, handler lists, stop channel | Start, fastForward, pollLoop, poll, dispatch, dispatchRefusal, Stop | lost answers, failed polls, restart with a full queue, Stop in any place | each message handed over once and in order, none skipped |
| Control tab values (`controls_notice.go`) | `controlsSeeded`, `lastControlsTS` | OnControls, seedControls, dispatchControls, ReadControls | notice, start-up read and new writes cross; the read fails; the clock stalls | deliveries only get newer; the start-up delivery is first; the driver ends up with what the row holds |
| Endpoint bus, sending (`endpoint_bus.go`, `endpoint_options.go`, `endpoint_cause.go`) | `declaredClasses` | DeclareEndpoints, Send/NotifyOnEndpoint(s), Send/NotifyPerEndpoint, ReportState, Cause, CauseFor, ContextWithCause | late publishes, batches of several items, declarations that fail or overlap | core's loop protection survives relays; a publish carries the declared class |
| Message bus (`message_bus.go`) | cursor, `pendingAcks`, handlers | Send, Broadcast, Multicast, SendWithAck, publish, pollLoop, dispatchMessage, handleAckMessage, RegisterHandler | a reply before the wait, timeout against reply, reused correlation ids, duplicated requests after a restart | a result is true, the table holds no dead entry, every call returns |
| Driver host (`run/run.go`) | hosted: devices, a bounded command queue and a worker per device; alone: one device | serve, handle, queue, start, startDevice, stop, stopAll, standalone | driver code that fails, panics or hangs; shutdown with queued commands; a signal before, during and after the start | commands of a device in order and answered once; connections closed; exit; isolation |
| Poller (`poll_support.go`) | running, stopCh, interval, counters | Start, Stop, PollNow, SetInterval, loop, doPoll | restart of the loop, PollNow beside the loop, cancellation | one loop at a time, none after Stop |
| Health reporter (`health_reporter.go`) | last report and its time | Start, run, Probe, ProbeAndPublish, publish, Stop, Wait | late or missing answers, panics, forced reports beside the loop | a report speaks of its own probe; nothing blocks |
| Event log (`log_events.go`) | queue, dropped, wake, closed | Event/Warn/Error (emit), run, flush, Close | overflow, failing posts, Close against emit | order, accounting, the last flush |
| Binding manager (`binding_support.go`) | cached bindings and the time they were stored | RefreshBindings, GetTargetsForEndpoint, IsSourceAuthorized, PropagateValue | refreshes cross and fail; the cache is looked at, refreshed and read in three sections | an answer is as recent as the cache promises; a set passes its change on to every target of one such table, whichever of them fail, and returns their error |
| Endpoint registry (`endpoint_support.go`) | values and handlers under one mutex | SetEndpointValue, AddHandler, RegisterEndpoint(s) | handlers run after the unlock and may fail | an error is returned, and the handlers after it are not called |
| Control state (`control_types.go`) | a map under one mutex | setters and getters | none: each is one critical section | not modelled |
| AV commands, light types, roles, manifest | none | pure conversions | — | not modelled |
| Scenes, internal proxy, host RPC, types, config, helpers | none | decoding, pass-through, generated code | — | not modelled |

How they interact: all HTTP requests go to core and none of the components calls another,
with three exceptions. The context the endpoint bus gives a batch handler carries the cause
and the trace that its sending half and the event log read; the scene helpers register a
handler at the message bus; and a driver registers a handler at the endpoint registry that
calls the binding manager's PropagateValue. Within a component, goroutines share fields under a mutex and
signal over channels; those interleavings are what the modules model.

## 2. Modules

One module per component. `MC*.tla` modules hold the values that a cfg cannot write, `*Proofs.tla`
modules the theorems about the module they are named for. Five modules are abstract: they say
what a component promises, without its goroutines, locks, requests and faults, and the
component's module is shown to implement them (`Name == INSTANCE ...` beside its properties).

| Module | Models | State and actions |
|---|---|---|
| `ControllerCore` | core's side of the receiving bus (external) | a queue whose ids are positions, the device row, what core counted as received |
| `EndpointBus` | receiving and controls; EXTENDS `ControllerCore` | `afterID`, `inbox` (the batches of one answer), `controlsSeeded`, `lastControlsTS`, `pc` of the goroutine. One action per step between two points where something else can happen: a request reaching core (`PollAnswered`), its answer arriving (`PollReturns`) or not (`PollFails`), one message handed over (`Dispatch*`), `SeedControls`/`SeedFails`, `Crash`, `Start` |
| `OrderedFeed` | abstract: what the endpoint bus promises handlers | an instance begins, passes over what is queued or nothing, and is then handed its own messages one by one. `EndpointBus` implements it (`Feeds`) |
| `EndpointSender` | declaring and publishing, with core's record of endpoints and of crossed bindings (external) | `declaredClasses`; a `DeclareEndpoints` is `Declare`, `CoreDeclares`, `Remember` or `DeclareFails`; a publish is a call in `todo`, `Send` (applyOptions) and `CoreCrosses` or `SendFails`; `DispatchBatch` is dispatch and the driver's handler, which relays in the three ways the SDK's comments describe |
| `MessageBus` | several drivers and their queues at core | `pendingAcks`, one-place `resultCh`; a `SendWithAck` is `SendWithAck` (register), `PublishReachesCore`, `PublishReturns`, then `ReceiveResult` or `GiveUp`; the poll goroutine's `handleAckMessage` is `TakePending` (under the lock) and `Resolve` (after it) |
| `AnsweredCalls` | abstract: what acknowledgments promise callers | a call is made once and ends once; an answer is what handlers did with a message of the same driver and correlation id. `MessageBus` implements it (`AnswersTruly`) |
| `HandlerTable` | `RegisterHandler` against the append in `dispatchMessage`, with Go's array-and-length slices | |
| `DeviceSupervisor` | abstract: what a host promises | per device, commands carried out in order and answered once, then shut down; `CoreKnowsWhatRuns`: the events name exactly the devices that run |
| `DriverHost` | `-host`: serve, the workers, starts and stops; says of itself that it refines `DeviceSupervisor` | the main goroutine (`ReadCommand`, `HandOver`, `CloseQueues`, `WorkersDone`, `StopRemaining`, `Exit`); a start is `ReadConfig`, `Connect` (with the driver's ExternalKey and Publisher, so it too may fail, panic or hang), `BuildSucceeds` three times, `Started`, or `ConnectFails` / `BuildFails` / `BuildPanics` |
| `DriverProgram` | Main: EXTENDS `DriverHost`, runs it or standalone | `alone`, the place in standalone: `ConfigFails` or `ConfigRead`, `AloneConnects` (or `AloneConnectFails`), three times `AloneBuildSucceeds` (or `AloneBuildFails`, `AloneBuildPanics`), `Notify` (from here on signals are caught), `SeeSignal`, `AloneStops`, `PrintStopped`. `SignalAlone` kills the process while nobody catches it |
| `Poller` | the loop, the callers of Start and Stop, PollNow's goroutines | Start and Stop are split where the code gives up atomicity (`running.Swap`, the new channel, `close`, `wg.Wait`); doPoll is `BeginPoll`, `PollSucceeds` / `PollFails` (one critical section), `Report` (callbacks; the first one of a loop makes its ticker). `SetInterval` may set an interval that is not positive (0 stands for them all); the ticker of the next loop then panics and the program is `crashed` (`NewTickerPanics`) |
| `HealthReporter` | the loop, forced reports, one goroutine per probe | `Probe`, `HealthReturns`, `Send` (buffered channel), `AnswerArrives` / `GiveUp`, `Record` (under the lock), `Publish` / `PublishFails` |
| `EventLog` | emitters, the sender, Close | emit is `BeginEmit` (the unlocked look at `closed`), `Enqueue` / `DropWhenFull`, `Wake`; flush is `TakeBatch`, `PostAnswered` / `PostFails`, `QueueEmpty` |
| `BoundedLog` | abstract: what the event log promises | what enters leaves oldest first and each once, to core or counted as dropped; after an end that no failed post broke off nothing is left. `EventLog` implements it (`KeepsLog`) |
| `BindingManager` | the cache of bindings, core's table and its past (external), a clock | a reader is `Ask` (the age, under the lock), `CoreAnswers`, `Store` or `RefreshFails` (the answer comes back and is stored later), `Read` (a second critical section) |
| `RecentReads` | abstract: what a cache promises those who ask | a question is answered once, from the table of some moment within a bound, or, after a refresh of one's own that failed, from an earlier table or the empty one. `BindingManager` implements it (`ReadsRecent`) |
| `EndpointRegistry` | values and handlers | `SetEndpointValue` stores and copies the handlers in `todo`; `HandlerSucceeds`, `HandlerFails`, `SetReturns` |
| `ValuePropagation` | composes the two: a registry one of whose handlers is `PropagateValue` | `PropagateValue` asks the binding manager, `TargetsKnown`, `TargetTakes` / `TargetFails` for each target in any order, `PropagateReturns` |

Definitions whose comment begins with "Mutant:" are broken variants of the definition that
follows them. No specification uses them; `PROJECT.json` names, for each property, the one
that makes it fail.

Abstractions shared by all modules: JSON, URLs, headers, log lines and wording are left out;
a message is the few fields dispatch tells apart; an HTTP request is atomic at core, and its
failure is either "core never heard it" or "the answer was lost" where the two differ. Only
`BindingManager` has a clock, because an age is what it is about: computing takes no time, a
request ends within the client's timeout, and time passes while everybody is idle or waits for
the network. What OnSuccess, OnError and OnUnhealthy of the poller are told is left out; that
they are called outside the lock is not.

## 3. What each run checks

| Run | Instance | Shows |
|---|---|---|
| `EndpointBusAnyClock` | 3 messages, 3 writes, 2 instances of the driver, 1 failed request, peek and poll limits of 2, a clock that may stall or step back, all message kinds, with and without a controls handler | `Feeds`: refinement of `OrderedFeed`, so messages are handed over once and in order, and after the fast-forward the cursor moves for nothing else. `NoneSkipped`: none of ours is passed over. `DeliveriesNewer`: stamped controls deliveries get strictly newer. `StartUpComesFirst`: the start-up delivery is the first one or is not made. `HistoryWasPolled`: what is delivered as history was in the answer to some long poll, so the fast-forward's peek does not count |
| `EndpointBusCurrent` | 2 writes, stamps that grow, notices with values, 2 instances, 2 failures | `DrainedIsCurrent`: a driver that has read its queue holds what the row holds. `ReachesCurrent`, `StopReturns`: it gets there, and Stop returns |
| `EndpointSender` | two loads wired back to two inputs, a press on both, relays of every kind and confirmations, two declarers, two declarations, one failed request | `LoopsTrip`: nothing that follows from a press crosses a binding twice in one direction. `ClassIsCores`: after a declaration that succeeded alone, a publish is a step or a flip exactly when core's record says so of all its endpoints |
| `MessageBus` | a sender and a recipient, 2 calls, 2 correlation ids that may coincide, one fault (lost request, lost reply, restart) | `AnswersTruly`: refinement of `AnsweredCalls`; Acked or Nacked is what that message's handlers did, or those of another call of the same driver and id. `NoStaleEntry`: the table holds only calls that are under way. `ReplyNotLost`: a reply cannot slip between registration, publish and wait, nor block the loop that hands it over. `EveryCallReturns` |
| `DriverHost` | `DriverProgram`: hosted with 2 devices, one whose driver code may hang, queues of 1, 3 commands; or run alone for either device | `Supervises`: refinement of `DeviceSupervisor`. `ConnectionOwned`: an open connection belongs to a running or starting device. `NothingLeftBehind`: an orderly exit leaves nothing started. `ProgramExits`: told to stop, the program ends, and one that waits alone stops its device first. `HandedIsCarriedOut`, `NotHeldUpByOthers`: commands taken over are carried out, a slow device does not hold up the other. Deadlock is checked: only a process that has exited, or waits for a hanging driver, stands still |
| `Poller` | one calling goroutine, 2 starts, 1 PollNow, no tick after 4 polls, two intervals and one that is not positive | `OneLoop`: one loop at a time, none after Stop. `StopAlwaysReturns`, unless the panic of a ticker ended the program |
| `HealthReporter` | the loop and one forcing goroutine, 2 probes, answers OK, no known status, panic, or none | `ReportIsOfItsProbe`: a late answer is not taken for another probe's. `CoreKnowsLast`: at rest core can tell which report is the last. `NothingHangs`: no report, no probe's goroutine and no Stop waits for ever, whatever Health does |
| `EventLog` | 2 emitters, 6 events, a queue of 3, batches of 2 | `KeepsLog`: refinement of `BoundedLog`, so events are sent in order and none twice. `AllAccountedFor`: each is sent, counted as dropped or still queued. `FullBatchWakes`: a full batch does not wait for the tick. `CloseSendsQueued`, `CloseEndsRun`: Close sends what was queued, and the goroutine ends |
| `ValuePropagation` | one goroutine that sets values, one that asks and refreshes, a binding one way and one both ways, one edit at core, interval and timeout of 1, 3 ticks | `ReadsRecent`: refinement of `RecentReads`; who asks is told what core held within the last interval and timeout or, if its own refresh failed, something core held before, or nothing. `BoundDevicesTold`: a set that passed its change on tried exactly the targets of one table, also behind one that fails, and returns the error of any that failed; the table is one core held within that span, if the refresh for it did not fail, and an earlier one or an empty one otherwise |
| `EndpointBusReplay` | expected violation | see finding 1 |
| `EndpointBusLostNotice` | expected violation | see finding 2 |
| `HandlerTableLost` | expected violation | see finding 3 |

Each module's `TypeOK` is checked in its first run.

**Bounds and why they are enough.** The real limits (500 peeked, 200 polled, queues of 64 and
of thousands) are constants; the runs make them 1 to 3 so that a queue longer than the limit,
a full queue and a full batch all happen. Two instances of a driver are needed for a restart
and two writes or calls for one to overtake the other; the third write lets a delivery be
older than two others. One or two faults suffice because each property is violated, in the
mutants, with at most one. `PollLimit` in `EndpointBusCurrent` is as large as the queue: with
a smaller page, a page full of legacy messages is answered for ever, because only messages of
ours move the cursor, and the bus never gets past them. That is listed as a hazard and not
hidden: lowering `PollLimit` below the number of legacy messages makes `ReachesCurrent` fail.
In `ValuePropagation` three ticks are one more than interval and timeout together, so that an
answer can be too old, and the edit gives a refresh an old and a new table to bring back. Its
tables hold no disabled row and no row without a target, which would each multiply the states;
the theorems cover them, as they take any rows. What
the runs leave out of the safety properties by being small, the theorems of section 5 add: they
hold for any values of these bounds.

**`CHECK_DEADLOCK FALSE`** stands in the runs other than `DriverHost` because those systems
really may come to rest: the inputs are bounded, a stopped loop is gone, an idle driver waits
for core, the clock of `ValuePropagation` ends.

**Symmetry** is used in `EndpointSender` only, over the declarers: its properties are
invariants and no definition tells declarers apart.

## 4. Fairness

- Endpoint bus: weak fairness of the goroutine's own steps. Every request has a timeout, so a
  poll returns or fails; back-off and dispatch go on. Weak fairness is enough for Stop: the loop
  looks at `stopCh` before every poll, and the request under way ends with its context.
- Message bus: weak fairness of a call's own steps (publish has a client timeout, the wait has
  a timer). Nothing is assumed of core or the recipient; `EveryCallReturns` needs neither.
- Driver host: weak fairness of the main goroutine, the workers, and the driver code of devices
  that are not in `Hanging`, hosted or alone (`ProgramFairness`): New, Init, Start and Stop, and
  the ExternalKey and Publisher that a connection asks for. `ProgramExits` is stated under the condition that hanging code returns
  each time, because the code gives them no deadline: without it, exit is not promised.
- Poller, health reporter, event log: goroutines that can go on do, the HTTP client answers or
  times out, tickers tick where a property needs them. `select` chooses among ready cases at
  random, so a case that stays ready, or is ready over and over, is taken: strong fairness of
  `LeaveLoop` and `SeeStop`. Health, in contrast, need never return.

## 5. Proofs

42 theorems in eight modules. Each is proved for all values of the constants (any limits, any
number of drivers, devices, messages, calls, faults, restarts and edits), from the named ASSUMEs
of the modules, which TLC evaluates in every run. In each module the properties are not
inductive; the strengthening named here is, and there is a lemma
for the initial states and one per action or group of actions.

They are of three kinds. *Always*: a safety property of the specification. *Implements*: every
step of the component is, under the refinement mapping, a step of its abstract specification or
a stutter (`FeedsAlways`, `AnswersTrulyAlways`, `SupervisesAlways`, `KeepsLogAlways`,
`ReadsRecentAlways`); the invariants of the first kind are what makes the steps fit. *If*: where
a property is false or limited, a condition under which it holds
(`NothingReplayedIfSkipped`, `DrainedIsCurrentIfKept`, `RegisteredIsKeptIfApart` and
`CalledAsRegisteredIfStill` for the three findings, `HandledOnceIfSkipped`, `OneLoopInTurns`).
Such a condition is about the steps of a run (no fast-forward poll fails, no call begins within
another), and ordinary runs meet it.

| Module | Theorems | Inductive invariant, and why it is needed |
|---|---|---|
| `EndpointBusProofs` | `TypeCorrect`, `HandledInOrderAlways`, `NoneSkippedAlways`, `NothingReplayedIfSkipped`, `FeedsAlways`, `DeliveriesNewerAlways`, `StartUpComesFirstAlways`, `HistoryWasPolledAlways`, `DrainedIsCurrentIfKept`, `DrainedIsCurrentAlways` | `CursorInv`: nothing handed over lies beyond the cursor, everything in the inbox does, and the inbox has no gap. Each dispatch moves the least id of the inbox to the handled ones and the cursor to it, so the five share `CursorTake`, and the refinement of `OrderedFeed` needs no more. `SkippedInv`: after a fast-forward whose poll got its answer and found at most one page (`SkipsAll`), what was queued at the start lies behind the cursor. `DeliveryInv`: the cutoff is at least every stamp delivered (`StampInv`), and what was delivered as history was polled (`PolledInv`). `CurrentInv`: stamps grow along the queue (`NoticeInv`), and once the start-up delivery is made no notice behind the cursor is newer than the last delivery (`NewestInv`); it needs that writes are stamped newer and newer and that no row read for a notice without values fails (`NoticeKept`), and is false otherwise (finding 2). `DrainedIsCurrentAlways` is the case of `StrictNotices`, as in the run |
| `EndpointSenderProofs` | `TypeCorrect`, `ClassIsCoresAlways`, `LoopsTripAlways` | `ClassInv`: without overlapping calls at most one declaration is under way, the class map is core's when none is, and an answer under way carries core's. `TripInv`: the chain core keeps of a delivered item, and the one it finds for a publish by its cause, cover the item's whole history, so a second crossing is always in the chain |
| `MessageBusProofs` | `TypeCorrect`, `ResultTruthfulAlways`, `NoStaleEntryAlways`, `ReplyNotLostAlways`, `AnswersTrulyAlways`, `HandledOnceIfSkipped`, `RegisteredIsKeptIfApart`, `CalledAsRegisteredIfStill` | `MailInv`: every reply on its way was written for a call of that id and says what was done. `AckInv`: a call under way is in the table, or its reply is taken and on its way to the channel, or in the channel, never in two of these (`CallInv`, `TakeInv`). `ThreadInv`: a result taken or in a channel is what some call of the same driver and id was handled with, also when ids coincide. `OnceInv`: a call's request is in one queue once, was handled only behind that queue's cursor, and is published by a call that has not been published. Of `HandlerTable`, whose theorems stand here, `TableInv`: a dispatch that shares the array appends where the registered handlers end; `DispatchInv`: the array it calls holds registered handlers and after them, once appended, the wildcards |
| `DriverHostProofs` | `TypeCorrect`, `ConnectionOwnedAlways`, `NothingLeftBehindAlways`, `SupervisesAlways`, `CoreKnowsWhatRunsAlways` | `HostInv`: a worker's place fits its command (`WorkerInv`), a device holds at most one connection (`OpenInv`), the last word on a device is `started` only while it runs or is being stopped (`ToldInv`), and nothing is queued or at work beside stopAll (`EndInv`). `CoreKnowsWhatRunsAlways` is proved of `DeviceSupervisor`, where it is inductive, and carried over by the refinement |
| `PollerProofs` | `TypeCorrect`, `OneLoopInTurns`, `OneLoopAlways` | `CallInv`: a loop alive is the one of the last channel, and none is alive when a Start begins. It needs callers that take turns, however many they are; with calls that overlap the property is false (see 6). With one caller turns are taken always |
| `HealthReporterProofs` | `TypeCorrect`, `ReportIsOfItsProbeAlways`, `CoreKnowsLastAlways` | `ProbeInv`: a report is DOWN or the answer of its own probe. `RecordInv`: the newest stamp belongs to the last status recorded, and its report is published, lost, or about to be |
| `EventLogProofs` | `TypeCorrect`, `SentInOrderAlways`, `AllAccountedForAlways`, `FullBatchWakesAlways`, `CloseSendsQueuedAlways`, `KeepsLogAlways` | `LogInv`: the batch and the queue hold the last events that entered, with no gap, and those before are sent or lost (`OrderInv`); what is counted is what happened (`CountInv`). `WakeInv`, `CloseInv`: a full queue has its wake or a goroutine about to give it; what was there at Close is among those gone when the goroutine ends |
| `ValuePropagationProofs` | `TypeCorrect`, `AnswerIsRecentAlways`, `ReadsRecentAlways`, `BoundDevicesToldAlways` | `RecentInv`: the cache and every answer under way are tables core held no more than a timeout before they are stored; the age of the cache then gives the bound, and a cache never filled is empty, which is what one whose refresh failed is answered from. `QuietInv`: who is idle or sends asks nothing. `ToldInv`: targets left, told and refused make up what was read, a table of `GoneBy`, and a refusal has left its error |

Only model-checked: every liveness property (`ReachesCurrent`, `StopReturns`, `EveryCallReturns`,
`ProgramExits`, `HandedIsCarriedOut`, `NotHeldUpByOthers`, `StopAlwaysReturns`, `NothingHangs`,
`CloseEndsRun`), which needs ENABLED. The refinements show steps, in the runs and in the proofs
alike; the abstract specifications state no fairness. `HandledInOrder`, `SentInOrder`,
`ResultTruthful` and `AnswerIsRecent` are proved and no longer checked by a run of their own:
the refinements that the runs check imply them.

## 6. Findings

1. `EndpointBusReplay`: `fastForward` makes a single peek of at most 500 messages and gives up
   when it fails. A restarted driver then acts on commands issued while it was down, which the
   comment of Start rules out (`endpoint_bus.go:596`). Nothing else makes it do so
   (`NothingReplayedIfSkipped`).
2. `EndpointBusLostNotice`: a notice without values needs a read of the row. If that fails the
   notice counts as dispatched and the handler never sees that write, though it is said to be
   called "with every newer write" (`controls_notice.go:110`).
   With that read, and clocks that go forward, nothing else loses a write
   (`DrainedIsCurrentIfKept`).
3. `HandlerTableLost`: `dispatchMessage` appends the wildcard handlers to the shared slice
   outside the lock. When the array has room, a handler registered in between is overwritten,
   for good. At any other time what is registered is kept (`RegisteredIsKeptIfApart`).
   Until the handlers have been called, though, it may stand in a wildcard handler's cell, and
   that one misses the message; without that, a message goes to all that were registered and to
   all wildcard handlers (`CalledAsRegisteredIfStill`). Handlers registered before Start are safe.

Known limits of what is promised, stated in the properties rather than hidden: a start that
panics leaves its connection open (`ConnectionOwned` excepts it); a full queue of one slow
device makes serve wait and with it everyone (`NotHeldUpByOthers` says "while its queue has
room"); a failed post ends the last flush (`CloseSendsQueued` speaks of logs without one); two
goroutines that call a poller's Start and Stop at once can leave a loop behind (`OneLoop` is
checked for one, and proved for any number that take turns); an interval that is not positive,
which SetInterval accepts, makes the ticker of the next Start panic, and the program ends
(`crashed`; `StopAlwaysReturns` excepts it); calls that share a correlation id
can get each other's reply (`AnswersTruly` lets an answer be that of another call of the id); a
message bus whose fast-forward fails or falls short hands requests to its handlers again
(`HandledOnceIfSkipped`); overlapping or failed declarations leave
core and the driver with different classes until the next one (`ClassIsCores`); two refreshes
that cross may leave the older table in the cache for an interval (the bound of `ReadsRecent`
is therefore interval and timeout), and readers do not see that a refresh failed: they are
answered from an older table, or from none (`TellOld` of `RecentReads`). PropagateValue is such a
reader (`binding_support.go:158`): a set whose own refresh failed returns nil though devices
bound since, or all of them, were not told (`GoneBy` in `BoundDevicesTold`).

Seen while modelling, and not the subject of a run: `SetInterval` "takes effect on next tick"
(`poll_support.go:240`), but the ticker of a running loop is never reset, so it takes effect with
the next Start (`period` in `Poller`). `Dropped` is said to count events "dropped because its queue was full"
(`log_events.go:154`), but the same counter takes the events of failed posts (line 232; `Lose` of
`BoundedLog`). And since RefreshBindings asks core for the bindings *from*
this device only, the first test of `IsSourceAuthorized` (a binding *to* us from the source) never
succeeds for another device: only a bidirectional binding authorizes one (`AuthorizedIn`).

## 7. What is assumed of core

Ids grow and are handed out in queue order; core counts a message as received when it answers
a poll that is not a peek with it; a controls notice carries the stamp of its write; a
declaration replaces the whole set; a query for a device's bindings is answered with those it has
as their source; core keeps, per delivered item, the crossings that led to
it and refuses one that is in the chain; all items of one publish that go to a device arrive
as one message. A request whose failure the client sees is not applied by core later on. The
time a health report carries grows with every record.

## 8. Not modelled, and why

- `run.go`: flag parsing, the line writer, lines that are no command (ignored by `handle`) and
  the 1 MiB limit of a line (plain I/O).
- `endpoint_support.go`: RegisterEndpoint(s) and the lists, a second map nothing else looks at. The
  folding of ids to lower case in the binding manager.
- A callback of the poller that stops its own poller: it would wait for itself.
- Typed readers (`Params`, `Controls`), control state (one critical section per operation), AV commands, light types, roles, manifest
  validation: sequential conversions without state.
- Generated gRPC code and the internal proxy; types, config and helpers.
- Priorities and payloads of the message bus, which no control depends on; the URL error of
  `EventLog.flush`, which the constructor rules out; the 5 second limit of `Close`.

## 9. Plan

In order of importance; 1 to 8 are done.

1. `ControllerCore`, `EndpointBus` and its proofs: the way every command reaches a driver.
2. `MessageBus`, `HandlerTable`.
3. `DeviceSupervisor`, `DriverHost` and the refinement; `DriverProgram` around it.
4. `Poller`, `HealthReporter`.
5. `EventLog`.
6. `EndpointSender`.
7. `BindingManager`, `EndpointRegistry` and their composition `ValuePropagation`.
8. Proofs of the safety properties of all of them, the abstract specifications of the endpoint
   bus, the message bus, the host, the event log and the binding manager with proofs of the
   refinements, and the conditions that delimit the findings.
9. Left: abstract specifications of the sending half of the endpoint bus and of the health
   reporter; the pure algorithms that carry rules (capability commands, light types, roles) as
   operators checked against reference definitions over bounded inputs.
