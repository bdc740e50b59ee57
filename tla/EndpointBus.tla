----------------------------- MODULE EndpointBus -----------------------------
(***************************************************************************)
(* The receive side of the endpoint bus (endpoint_bus.go) and the delivery *)
(* of Control tab values (controls_notice.go): one goroutine per driver    *)
(* that fast-forwards past what is queued, seeds the controls from the     *)
(* device row, long-polls the queue and hands each message to the          *)
(* handlers.  The process may crash at any point and be started again; a   *)
(* new process is a new EndpointBus that knows nothing of the last one.    *)
(*                                                                         *)
(* One action is one step of that goroutine between two points where       *)
(* something else can happen: a request reaching core, its answer arriving *)
(* (or not), a message being handed over.                                  *)
(***************************************************************************)
EXTENDS ControllerCore

CONSTANTS
    PeekLimit,       \* 500 in fastForward
    PollLimit,       \* 200 in pollLoop
    HandlerChoices,  \* whether a driver registers a controls handler
    MaxStarts,       \* bound: instances of the driver over time
    MaxFailures      \* bound: requests to core that fail

ASSUME LimitsAssumption == PeekLimit \in Nat \ {0} /\ PollLimit \in Nat \ {0}
ASSUME ChoicesAssumption == HandlerChoices \subseteq BOOLEAN
ASSUME RunBoundsAssumption == MaxStarts \in Nat /\ MaxFailures \in Nat

VARIABLES
    pc,              \* where the bus's goroutine is
    stopCh,          \* the stop channel is closed
    hasControls,     \* OnControls was called before Start
    afterID,         \* cursor sent with the next poll
    inbox,           \* messages of the last answer not dispatched yet
    controlsSeeded,  \* the start-up delivery is made, or no longer wanted
    lastControlsTS,  \* newest stamp delivered
    starts,          \* instances so far
    failures,        \* failed requests so far
    (* What the runs observe; the code does not keep these.                *)
    startID,         \* length of the queue when this instance started
    skippedTo,       \* cursor the fast-forward left
    handled,         \* messages this instance dispatched: id and to whom
    delivered,       \* what this instance's controls handlers were called with
    longPolled       \* messages in an answer to a long poll, ever

busState == <<stopCh, hasControls, afterID, inbox, controlsSeeded, lastControlsTS>>
history  == <<startID, skippedTo, handled, delivered, longPolled>>
vars     == <<queue, row, received, pc, stopCh, hasControls, afterID, inbox,
              controlsSeeded, lastControlsTS, starts, failures, startID, skippedTo,
              handled, delivered, longPolled>>

Controls == [write : Nat, ts : Nat, initial : BOOLEAN, pending : BOOLEAN, variables : BOOLEAN]
Places   == {"down", "peek", "loop", "poll", "answer", "dispatch", "backoff"}

TypeOK ==
    /\ CoreTypeOK
    /\ pc \in Places
    /\ stopCh \in BOOLEAN /\ hasControls \in BOOLEAN
    /\ afterID \in Nat
    /\ inbox \subseteq DOMAIN queue
    /\ controlsSeeded \in BOOLEAN
    /\ lastControlsTS \in Nat
    /\ starts \in Nat /\ failures \in Nat /\ startID \in Nat /\ skippedTo \in Nat
    /\ handled \in Seq([id : Nat, to : {"batch", "refusal", "controls"}])
    /\ delivered \in Seq(Controls)
    /\ longPolled \subseteq Nat

(* Mutant: the cursor starts before the first id.                          *)
FreshBusMinusOne ==
    /\ stopCh' = FALSE /\ afterID' = -1 /\ inbox' = {}
    /\ controlsSeeded' = FALSE /\ lastControlsTS' = 0

(* The fields of a bus before Start: what NewEndpointBus returns.          *)
FreshBus ==
    /\ stopCh' = FALSE /\ afterID' = 0 /\ inbox' = {}
    /\ controlsSeeded' = FALSE /\ lastControlsTS' = 0

Init ==
    /\ CoreInit
    /\ pc = "down" /\ stopCh = FALSE /\ hasControls = FALSE /\ afterID = 0 /\ inbox = {}
    /\ controlsSeeded = FALSE /\ lastControlsTS = 0
    /\ starts = 0 /\ failures = 0 /\ startID = 0 /\ skippedTo = 0
    /\ handled = <<>> /\ delivered = <<>> /\ longPolled = {}

(* Messages the poll lets through: everything but the legacy traffic that  *)
(* shares the queue.                                                       *)
Ours(ids) == {id \in ids : queue[id].kind # "legacy"}

NewestOf(ids, cursor, next) ==
    \E newest \in ids \cup {cursor} :
        (\A id \in ids \cup {cursor} : id <= newest) /\ next = newest

(* A request to core that fails, within the bound on failures.             *)
Fails == failures < MaxFailures /\ failures' = failures + 1
-----------------------------------------------------------------------------
(* The driver's process starts: a new bus, the handlers registered, Start. *)
Start ==
    /\ pc = "down" /\ starts < MaxStarts
    /\ starts' = starts + 1
    /\ FreshBus
    /\ hasControls' \in HandlerChoices
    /\ pc' = "peek"
    /\ startID' = Len(queue) /\ skippedTo' = 0 /\ handled' = <<>> /\ delivered' = <<>>
    /\ UNCHANGED <<coreVars, failures, longPolled>>

(* Mutant: the fast-forward is an ordinary poll.                           *)
FastForwardCounts ==
    /\ pc = "peek"
    /\ NewestOf(Ours(Answer(afterID, PeekLimit)), afterID, afterID')
    /\ CountReceived(Answer(afterID, PeekLimit))
    /\ skippedTo' = afterID'
    /\ pc' = "loop"
    /\ UNCHANGED <<queue, row, stopCh, hasControls, inbox, controlsSeeded, lastControlsTS,
                   starts, failures, startID, handled, delivered, longPolled>>

(* fastForward's only poll.  It is a peek: core counts nothing received.   *)
FastForward ==
    /\ pc = "peek"
    /\ NewestOf(Ours(Answer(afterID, PeekLimit)), afterID, afterID')
    /\ skippedTo' = afterID'
    /\ pc' = "loop"
    /\ UNCHANGED <<coreVars, stopCh, hasControls, inbox, controlsSeeded, lastControlsTS,
                   starts, failures, startID, handled, delivered, longPolled>>

(* ... and when that poll fails, nothing is skipped.                       *)
FastForwardFails ==
    /\ pc = "peek" /\ Fails
    /\ pc' = "loop"
    /\ UNCHANGED <<coreVars, busState, starts, history>>

(* Stop closes the channel; it returns once the goroutine has left.        *)
Stop ==
    /\ pc \notin {"down", "peek"} /\ ~stopCh
    /\ stopCh' = TRUE
    /\ UNCHANGED <<coreVars, pc, hasControls, afterID, inbox, controlsSeeded, lastControlsTS,
                   starts, failures, history>>

(* Mutant: the stop channel is looked at only after a failed poll.         *)
LeaveLoopLate ==
    /\ pc = "backoff" /\ stopCh
    /\ pc' = "down"
    /\ UNCHANGED <<coreVars, busState, starts, failures, history>>

(* The stop channel is looked at between polls and during the back-off.    *)
LeaveLoop ==
    /\ pc \in {"loop", "backoff"} /\ stopCh
    /\ pc' = "down"
    /\ UNCHANGED <<coreVars, busState, starts, failures, history>>

Deliver(c) == delivered' = Append(delivered, c)

(* seedControls: the start-up delivery from the device row, made once.     *)
SeedDone ==
    /\ pc = "loop" /\ ~stopCh
    /\ controlsSeeded \/ ~hasControls
    /\ controlsSeeded' = TRUE
    /\ pc' = "poll"
    /\ UNCHANGED <<coreVars, stopCh, hasControls, afterID, inbox, lastControlsTS, starts,
                   failures, history>>

SeedControls ==
    /\ pc = "loop" /\ ~stopCh /\ ~controlsSeeded /\ hasControls
    /\ controlsSeeded' = TRUE
    /\ lastControlsTS' = row.ts
    /\ Deliver([write |-> row.write, ts |-> row.ts, initial |-> ~ControlsPending,
                pending |-> ControlsPending, variables |-> TRUE])
    /\ pc' = "poll"
    /\ UNCHANGED <<coreVars, stopCh, hasControls, afterID, inbox, starts, failures, startID,
                   skippedTo, handled, longPolled>>

(* Mutant: a failed start-up read is not tried again.                      *)
SeedFailsForGood ==
    /\ pc = "loop" /\ ~stopCh /\ ~controlsSeeded /\ hasControls
    /\ Fails
    /\ controlsSeeded' = TRUE
    /\ pc' = "poll"
    /\ UNCHANGED <<coreVars, stopCh, hasControls, afterID, inbox, lastControlsTS, starts,
                   history>>

(* The row cannot be read: the loop goes on unseeded and tries again.      *)
SeedFails ==
    /\ pc = "loop" /\ ~stopCh /\ ~controlsSeeded /\ hasControls
    /\ Fails
    /\ pc' = "poll"
    /\ UNCHANGED <<coreVars, busState, starts, history>>

(* The long poll reaches core, which answers when something is queued or   *)
(* the wait is over, and counts what it answers with.                      *)
PollAnswered ==
    /\ pc = "poll"
    /\ inbox' = Ours(Answer(afterID, PollLimit))
    /\ CountReceived(Answer(afterID, PollLimit))
    /\ longPolled' = longPolled \cup Answer(afterID, PollLimit)
    /\ pc' = "answer"
    /\ UNCHANGED <<queue, row, stopCh, hasControls, afterID, controlsSeeded, lastControlsTS,
                   starts, failures, startID, skippedTo, handled, delivered>>

(* The answer arrives at the driver.                                       *)
PollReturns ==
    /\ pc = "answer"
    /\ pc' = "dispatch"
    /\ UNCHANGED <<coreVars, busState, starts, failures, startID, skippedTo, handled,
                   delivered, longPolled>>

(* The request never reaches core, or its answer never reaches the driver. *)
PollFails ==
    /\ pc \in {"poll", "answer"} /\ Fails
    /\ inbox' = {}
    /\ pc' = "backoff"
    /\ UNCHANGED <<coreVars, stopCh, hasControls, afterID, controlsSeeded, lastControlsTS,
                   starts, history>>

BackoffEnds ==
    /\ pc = "backoff"
    /\ pc' = "loop"
    /\ UNCHANGED <<coreVars, busState, starts, failures, history>>
-----------------------------------------------------------------------------
(* Mutant: the cursor never moves.                                         *)
TakeKeepsCursor(id, to) ==
    /\ pc = "dispatch" /\ id \in inbox
    /\ \A other \in inbox : id <= other
    /\ inbox' = inbox \ {id}
    /\ handled' = Append(handled, [id |-> id, to |-> to])
    /\ UNCHANGED <<coreVars, pc, stopCh, hasControls, afterID, starts, startID, skippedTo,
                   longPolled>>

(* Mutant: the cursor is the next id wanted, not the last one had.         *)
TakeOneTooFar(id, to) ==
    /\ pc = "dispatch" /\ id \in inbox
    /\ \A other \in inbox : id <= other
    /\ inbox' = inbox \ {id}
    /\ afterID' = IF id > afterID THEN id + 1 ELSE afterID
    /\ handled' = Append(handled, [id |-> id, to |-> to])
    /\ UNCHANGED <<coreVars, pc, stopCh, hasControls, starts, startID, skippedTo,
                   longPolled>>

(* The oldest message of the answer is taken: the cursor moves to it       *)
(* before any handler runs, and nothing moves it back.                     *)
Take(id, to) ==
    /\ pc = "dispatch" /\ id \in inbox
    /\ \A other \in inbox : id <= other
    /\ inbox' = inbox \ {id}
    /\ afterID' = IF id > afterID THEN id ELSE afterID
    /\ handled' = Append(handled, [id |-> id, to |-> to])
    /\ UNCHANGED <<coreVars, pc, stopCh, hasControls, starts, startID, skippedTo,
                   longPolled>>

DispatchRefusal ==
    \E id \in inbox :
        /\ queue[id].kind = "nack"
        /\ Take(id, "refusal")
        /\ UNCHANGED <<controlsSeeded, lastControlsTS, failures, delivered>>

DispatchBatch ==
    \E id \in inbox :
        /\ \/ queue[id].kind \in {"endpoint", "child_controls"}
           \/ queue[id].kind = "controls" /\ ~hasControls
        /\ Take(id, "batch")
        /\ UNCHANGED <<controlsSeeded, lastControlsTS, failures, delivered>>

(* Mutant: a repeated stamp is not stale.                                  *)
PassOnEqual(c) ==
    IF c.ts > 0 /\ c.ts < lastControlsTS
    THEN UNCHANGED <<controlsSeeded, lastControlsTS, delivered>>
    ELSE /\ lastControlsTS' = IF c.ts > lastControlsTS THEN c.ts ELSE lastControlsTS
         /\ controlsSeeded' = TRUE
         /\ Deliver(c)

(* Mutant: the first notice does not take the start-up delivery's place.   *)
PassOnUnseeded(c) ==
    IF c.ts > 0 /\ c.ts <= lastControlsTS
    THEN UNCHANGED <<controlsSeeded, lastControlsTS, delivered>>
    ELSE /\ lastControlsTS' = IF c.ts > lastControlsTS THEN c.ts ELSE lastControlsTS
         /\ Deliver(c)
         /\ UNCHANGED controlsSeeded

(* The end of dispatchControls: only something newer than what was         *)
(* delivered is passed on.                                                 *)
PassOn(c) ==
    IF c.ts > 0 /\ c.ts <= lastControlsTS
    THEN UNCHANGED <<controlsSeeded, lastControlsTS, delivered>>
    ELSE /\ lastControlsTS' = IF c.ts > lastControlsTS THEN c.ts ELSE lastControlsTS
         /\ controlsSeeded' = TRUE
         /\ Deliver(c)

DispatchControls ==
    \E id \in inbox :
        /\ queue[id].kind = "controls" /\ hasControls /\ queue[id].body
        /\ Take(id, "controls")
        /\ PassOn([write |-> queue[id].write, ts |-> queue[id].ts, initial |-> FALSE,
                   pending |-> FALSE, variables |-> FALSE])
        /\ UNCHANGED failures

(* A notice without the values: the row is read for them.                  *)
DispatchEmptyNotice ==
    \E id \in inbox :
        /\ queue[id].kind = "controls" /\ hasControls /\ ~queue[id].body
        /\ Take(id, "controls")
        /\ PassOn([write |-> row.write, ts |-> row.ts, initial |-> FALSE,
                   pending |-> ControlsPending, variables |-> FALSE])
        /\ UNCHANGED failures

(* ... and when that read fails the notice is gone.                        *)
DispatchEmptyNoticeFails ==
    \E id \in inbox :
        /\ queue[id].kind = "controls" /\ hasControls /\ ~queue[id].body
        /\ Fails
        /\ Take(id, "controls")
        /\ UNCHANGED <<controlsSeeded, lastControlsTS, delivered>>

DispatchEnds ==
    /\ pc = "dispatch" /\ inbox = {}
    /\ pc' = "loop"
    /\ UNCHANGED <<coreVars, busState, starts, failures, history>>

(* The driver's process dies wherever it is.                               *)
Crash ==
    /\ pc # "down"
    /\ pc' = "down"
    /\ inbox' = {}
    /\ UNCHANGED <<coreVars, stopCh, hasControls, afterID, controlsSeeded, lastControlsTS,
                   starts, failures, history>>
-----------------------------------------------------------------------------
CoreStep ==
    /\ WriteControls \/ QueueMessage
    /\ UNCHANGED <<pc, busState, starts, failures, history>>

(* Steps the bus's goroutine takes by itself: none waits for ever, since   *)
(* every request carries a timeout.                                        *)
Loop ==
    \/ FastForward \/ FastForwardFails
    \/ LeaveLoop \/ SeedDone \/ SeedControls \/ SeedFails
    \/ PollAnswered \/ PollReturns \/ PollFails \/ BackoffEnds
    \/ DispatchRefusal \/ DispatchBatch \/ DispatchControls
    \/ DispatchEmptyNotice \/ DispatchEmptyNoticeFails \/ DispatchEnds

Next == CoreStep \/ Start \/ Stop \/ Crash \/ Loop

Spec     == Init /\ [][Next]_vars
FairSpec == Spec /\ WF_vars(Loop)
-----------------------------------------------------------------------------
(* To the driver's handlers the bus is an OrderedFeed, whatever it takes:  *)
(* polls that fail or lose their answer, pages shorter than the queue,     *)
(* legacy messages in between, crashes and restarts (Start, fastForward,   *)
(* pollLoop, poll).                                                        *)
Feed == INSTANCE OrderedFeed WITH
    ours     <- [id \in DOMAIN queue |-> queue[id].kind # "legacy"],
    reader   <- CASE pc = "down" -> "none" [] pc = "peek" -> "catching up" [] OTHER -> "reading",
    position <- afterID,
    handed   <- [i \in DOMAIN handled |-> handled[i].id]

Feeds == Feed!Spec

(* Within one instance every message is handed over at most once and in    *)
(* the order core queued it, whatever polls fail and are repeated          *)
(* (pollLoop, the cursor against the answer to a retried poll).            *)
HandledInOrder ==
    \A i, j \in DOMAIN handled : i < j => handled[i].id < handled[j].id

(* The cursor never runs ahead of what was handed over: every message of   *)
(* ours between the fast-forward and the cursor reached a handler.         *)
(* (poll's filter of legacy messages, pollLoop's cursor.)                  *)
NoneSkipped ==
    \A id \in DOMAIN queue :
        (pc # "peek" /\ skippedTo < id /\ id <= afterID /\ queue[id].kind # "legacy")
            => \E i \in DOMAIN handled : handled[i].id = id

(* Controls.TSUnixMs: "Each delivery is newer than the last", for writes   *)
(* that carry a stamp, however core's clock moves and however notices and  *)
(* row reads interleave (dispatchControls, seedControls).                  *)
DeliveriesNewer ==
    \A i, j \in DOMAIN delivered :
        i < j /\ delivered[j].ts > 0 => delivered[i].ts < delivered[j].ts

(* The start-up delivery is the first one or never comes: a notice that    *)
(* arrives while the row cannot be read takes its place, and the record of *)
(* the past is not delivered after it (controlsSeeded).                    *)
StartUpComesFirst ==
    \A i \in DOMAIN delivered : delivered[i].variables \/ delivered[i].initial => i = 1

(* A write that no long poll was ever answered with is never delivered as  *)
(* history: the fast-forward skips it, but the seed delivers it as a       *)
(* request (fastForward's peek and seedControls' Initial = !Pending).      *)
HistoryWasPolled ==
    \A i \in DOMAIN delivered :
        delivered[i].initial =>
            \A id \in DOMAIN queue :
                queue[id].kind = "controls" /\ queue[id].write = delivered[i].write
                    => id \in longPolled

(* When the bus has drained its queue the newest delivery is the write the *)
(* row holds: no interleaving of start-up read, notices, lost answers and  *)
(* restarts leaves a driver on old values.                                 *)
Drained ==
    /\ pc = "poll" /\ controlsSeeded /\ hasControls
    /\ \A id \in DOMAIN queue : queue[id].kind = "controls" => id <= afterID

Current == delivered # <<>> /\ delivered[Len(delivered)].write = row.write

DrainedIsCurrent == Drained => Current

(* A running bus gets to the values the row holds, unless it is stopped or *)
(* crashes: neither failed polls nor a failed seed leave it behind.        *)
ReachesCurrent == (pc # "down" /\ hasControls) ~> (Current \/ pc = "down")

(* Stop's wg.Wait returns: the loop sees the closed channel.               *)
StopReturns == stopCh ~> pc = "down"

(* Start: "Existing queue content is skipped: a driver that has just       *)
(* started should act on what happens next, not replay commands issued     *)
(* while it was down."                                                     *)
NothingReplayed == \A i \in DOMAIN handled : handled[i].id > startID
=============================================================================
