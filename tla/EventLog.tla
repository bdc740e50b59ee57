------------------------------ MODULE EventLog ------------------------------
(***************************************************************************)
(* The structured event log (log_events.go): emit queues an event and      *)
(* never waits; a goroutine sends the queue in batches at every tick, when *)
(* a batch is full, and for the last time when the log is closed.          *)
(* Events are numbered in the order in which they entered the queue.       *)
(***************************************************************************)
EXTENDS Integers, Sequences, FiniteSets

CONSTANTS
    Emitters,   \* goroutines of the driver
    QueueMax,   \* eventQueueMax
    BatchMax,   \* eventBatchMax
    MaxEvents   \* bound: calls of Event, Warn and Error

ASSUME LogLimitsAssumption == QueueMax \in Nat /\ BatchMax \in Nat \ {0} /\ BatchMax <= QueueMax
ASSUME MaxEventsAssumption == MaxEvents \in Nat

VARIABLES
    closed,     \* l.closed
    stop,       \* l.stop is closed
    queue,      \* l.queue
    wake,       \* a wake is in l.wake
    dropped,    \* l.dropped
    emitter,    \* per emitter: where it is in emit
    runner,     \* where run is
    batch,      \* the batch being posted
    final,      \* the flush under way is the one after stop
    sent,       \* the events core answered, in the order they were posted
    (* What the runs observe; the code does not keep these.                *)
    emitted,    \* calls of emit so far
    entered,    \* events that entered the queue
    overflowed, \* events that found the queue full
    lost,       \* events of a post that failed
    before      \* events that had entered when Close was called

vars == <<closed, stop, queue, wake, dropped, emitter, runner, batch, final, sent, emitted,
          entered, overflowed, lost, before>>
runVars  == <<runner, batch, final, sent, lost>>
emitVars == <<emitter, emitted, entered, overflowed>>
endVars  == <<closed, stop, before>>

Events == 1..MaxEvents

TypeOK ==
    /\ closed \in BOOLEAN /\ stop \in BOOLEAN /\ wake \in BOOLEAN /\ final \in BOOLEAN
    /\ queue \in Seq(Events) /\ Len(queue) <= QueueMax
    /\ batch \in Seq(Events) /\ Len(batch) <= BatchMax
    /\ sent \in Seq(Events) /\ lost \subseteq Events
    /\ dropped \in Nat /\ emitted \in Nat /\ entered \in Nat /\ overflowed \in Nat
    /\ before \in Nat
    /\ emitter \in [Emitters -> {"idle", "append", "wake"}]
    /\ runner \in {"select", "flush", "post", "loop", "done"}

Init ==
    /\ closed = FALSE /\ stop = FALSE /\ wake = FALSE /\ final = FALSE
    /\ queue = <<>> /\ batch = <<>> /\ sent = <<>> /\ lost = {}
    /\ dropped = 0 /\ emitted = 0 /\ entered = 0 /\ overflowed = 0 /\ before = 0
    /\ emitter = [e \in Emitters |-> "idle"]
    /\ runner = "select"
-----------------------------------------------------------------------------
(* emit.                                                                   *)
Goto(e, place) == emitter' = [emitter EXCEPT ![e] = place]

(* A closed log takes no event.                                            *)
BeginEmit(e) ==
    /\ emitter[e] = "idle" /\ ~closed /\ emitted < MaxEvents
    /\ emitted' = emitted + 1
    /\ Goto(e, "append")
    /\ UNCHANGED <<queue, wake, dropped, entered, overflowed, runVars, endVars>>

(* A full queue drops the event and counts it.                             *)
DropWhenFull(e) ==
    /\ emitter[e] = "append" /\ Len(queue) >= QueueMax
    /\ dropped' = dropped + 1 /\ overflowed' = overflowed + 1
    /\ Goto(e, "idle")
    /\ UNCHANGED <<queue, wake, emitted, entered, runVars, endVars>>

(* Mutant: one event too many.                                             *)
EnqueueOneMore(e) ==
    /\ emitter[e] = "append" /\ Len(queue) <= QueueMax
    /\ queue' = Append(queue, entered + 1) /\ entered' = entered + 1
    /\ Goto(e, IF Len(queue') >= BatchMax THEN "wake" ELSE "idle")
    /\ UNCHANGED <<wake, dropped, emitted, overflowed, runVars, endVars>>

Enqueue(e) ==
    /\ emitter[e] = "append" /\ Len(queue) < QueueMax
    /\ queue' = Append(queue, entered + 1) /\ entered' = entered + 1
    /\ Goto(e, IF Len(queue') >= BatchMax THEN "wake" ELSE "idle")
    /\ UNCHANGED <<wake, dropped, emitted, overflowed, runVars, endVars>>

(* Mutant: the wake reaches run only when it is waiting for it.            *)
WakeUnbuffered(e) ==
    /\ emitter[e] = "wake" /\ Goto(e, "idle")
    /\ wake' = (wake \/ runner = "select")
    /\ UNCHANGED <<queue, dropped, emitted, entered, overflowed, runVars, endVars>>

(* l.wake holds one wake; another is not needed.                           *)
Wake(e) ==
    /\ emitter[e] = "wake" /\ Goto(e, "idle")
    /\ wake' = TRUE
    /\ UNCHANGED <<queue, dropped, emitted, entered, overflowed, runVars, endVars>>
-----------------------------------------------------------------------------
(* run and flush.                                                          *)
BeginFlush(after) ==
    /\ runner = "select" /\ runner' = "flush"
    /\ final' = after
    /\ UNCHANGED <<queue, dropped, emitVars, batch, sent, lost, endVars>>

Tick     == BeginFlush(FALSE) /\ UNCHANGED wake
SeeWake  == wake /\ wake' = FALSE /\ BeginFlush(FALSE)

(* Mutant: run ends without a last flush.                                  *)
SeeStopAndEnd ==
    /\ stop /\ runner = "select" /\ runner' = "done"
    /\ UNCHANGED <<queue, wake, dropped, emitVars, batch, final, sent, lost, endVars>>

SeeStop  == stop /\ BeginFlush(TRUE) /\ UNCHANGED wake

(* Mutant: the batch stays in the queue.                                   *)
TakeBatchCopy ==
    /\ runner = "flush" /\ queue # <<>>
    /\ LET n == IF Len(queue) > BatchMax THEN BatchMax ELSE Len(queue) IN
        /\ batch' = SubSeq(queue, 1, n)
        /\ queue' = SubSeq(queue, n, Len(queue))
    /\ runner' = "post"
    /\ UNCHANGED <<wake, dropped, emitVars, final, sent, lost, endVars>>

(* Up to BatchMax events leave the queue.                                  *)
TakeBatch ==
    /\ runner = "flush" /\ queue # <<>>
    /\ LET n == IF Len(queue) > BatchMax THEN BatchMax ELSE Len(queue) IN
        /\ batch' = SubSeq(queue, 1, n)
        /\ queue' = SubSeq(queue, n + 1, Len(queue))
    /\ runner' = "post"
    /\ UNCHANGED <<wake, dropped, emitVars, final, sent, lost, endVars>>

(* Mutant: run goes on after the last flush.                               *)
EndFlushAndGoOn == runner' = "loop"

(* The last flush ends run.                                                *)
EndFlush == runner' = IF final THEN "done" ELSE "loop"

QueueEmpty ==
    /\ runner = "flush" /\ queue = <<>>
    /\ EndFlush
    /\ UNCHANGED <<queue, wake, dropped, emitVars, batch, final, sent, lost, endVars>>

(* Core answered, whatever its status: the next batch.                     *)
PostAnswered ==
    /\ runner = "post" /\ runner' = "flush"
    /\ sent' = sent \o batch /\ batch' = <<>>
    /\ UNCHANGED <<queue, wake, dropped, emitVars, final, lost, endVars>>

(* Mutant: a failed batch counts as one event dropped.                     *)
PostFailsOnce ==
    /\ runner = "post"
    /\ dropped' = dropped + 1
    /\ lost' = lost \cup {batch[i] : i \in DOMAIN batch} /\ batch' = <<>>
    /\ EndFlush
    /\ UNCHANGED <<queue, wake, emitVars, final, sent, endVars>>

(* The post failed: the batch is dropped and counted, the flush is over.   *)
PostFails ==
    /\ runner = "post"
    /\ dropped' = dropped + Len(batch)
    /\ lost' = lost \cup {batch[i] : i \in DOMAIN batch} /\ batch' = <<>>
    /\ EndFlush
    /\ UNCHANGED <<queue, wake, emitVars, final, sent, endVars>>

(* run goes back to its select.                                            *)
Again ==
    /\ runner = "loop" /\ runner' = "select"
    /\ UNCHANGED <<queue, wake, dropped, emitVars, batch, final, sent, lost, endVars>>
-----------------------------------------------------------------------------
(* Close closes the log for emit first and then tells run; a second call   *)
(* does nothing.  It waits for run, at most 5 seconds.                     *)
CloseLog ==
    /\ ~closed /\ closed' = TRUE
    /\ before' = entered
    /\ UNCHANGED <<stop, queue, wake, dropped, emitVars, runVars>>

CloseStop ==
    /\ closed /\ ~stop /\ stop' = TRUE
    /\ UNCHANGED <<closed, before, queue, wake, dropped, emitVars, runVars>>
-----------------------------------------------------------------------------
Emit(e) == DropWhenFull(e) \/ Enqueue(e) \/ Wake(e)
Flush   == TakeBatch \/ QueueEmpty \/ PostAnswered \/ PostFails \/ Again

Next ==
    \/ \E e \in Emitters : BeginEmit(e) \/ Emit(e)
    \/ Tick \/ SeeWake \/ SeeStop \/ Flush
    \/ CloseLog \/ CloseStop

(* Goroutines go on, the HTTP client answers or times out, the ticker      *)
(* ticks, and select takes the closed stop channel once it has been ready  *)
(* over and over.                                                          *)
Fairness ==
    /\ \A e \in Emitters : WF_vars(Emit(e))
    /\ WF_vars(Flush) /\ WF_vars(Tick) /\ SF_vars(SeeStop) /\ WF_vars(CloseStop)

Spec == Init /\ [][Next]_vars /\ Fairness
-----------------------------------------------------------------------------
ToSet(seq) == {seq[i] : i \in DOMAIN seq}

(* To the driver and to core the log is a BoundedLog, however emitters,    *)
(* flushes, failing posts and Close interleave (emit, run, flush, Close).  *)
Log == INSTANCE BoundedLog WITH
    Full     <- QueueMax,
    Room     <- QueueMax + BatchMax,
    open     <- ~closed,
    offering <- Cardinality({e \in Emitters : emitter[e] = "append"}),
    gone     <- entered - Len(queue) - Len(batch),
    ended    <- runner = "done"

KeepsLog == Log!Spec

(* Core gets the events in the order they were queued, none twice: posted, *)
(* being posted and queued events only ever increase (flush).              *)
SentInOrder ==
    LET all == sent \o batch \o queue IN
    \A i, j \in DOMAIN all : i < j => all[i] < all[j]

(* No event disappears: each that entered is answered by core, lost with a *)
(* failed post, or still here; and Dropped counts the overflowed and the   *)
(* lost, nothing else (emit, flush).                                       *)
AllAccountedFor ==
    /\ 1..entered = ToSet(sent) \cup lost \cup ToSet(batch) \cup ToSet(queue)
    /\ dropped = overflowed + Cardinality(lost)

(* A full batch does not wait for the tick, unless a post has failed: when *)
(* run waits, a wake is there or on its way.                               *)
FullBatchWakes ==
    Len(queue) >= BatchMax /\ runner = "select" /\ lost = {} =>
        wake \/ \E e \in Emitters : emitter[e] = "wake"

(* "Close sends what is queued and stops", as long as no post fails: when  *)
(* run has ended, what was queued when Close was called has been sent.     *)
CloseSendsQueued == runner = "done" /\ lost = {} => 1..before \subseteq ToSet(sent)

(* Close ends run, also when core does not answer.                         *)
CloseEndsRun == closed ~> runner = "done"
=============================================================================
