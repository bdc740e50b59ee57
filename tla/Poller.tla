------------------------------- MODULE Poller -------------------------------
(***************************************************************************)
(* A managed polling loop (poll_support.go): Start runs a loop that polls  *)
(* at once and then at every tick, Stop ends it and waits for it, PollNow  *)
(* polls on a goroutine of its own.  Every poll counts itself, runs the    *)
(* driver's function, records the outcome and then reports it.  A ticker   *)
(* for an interval that is not positive panics and ends the program.       *)
(***************************************************************************)
EXTENDS Naturals, FiniteSets

CONSTANTS
    Callers,                 \* goroutines of the driver that call Start and Stop
    InitialDelay,            \* opts.InitialDelay is not zero
    Intervals,               \* what the interval may be; 0: any that is not positive
    MaxStarts,               \* bound: loops started
    MaxPollNow,              \* bound: calls of PollNow
    MaxPolls                 \* bound: no tick after so many polls

ASSUME PollerNumbersAssumption ==
    MaxStarts \in Nat /\ MaxPollNow \in Nat /\ MaxPolls \in Nat
ASSUME InitialDelayAssumption == InitialDelay \in BOOLEAN
ASSUME IntervalsAssumption == Intervals \ {0} # {} /\ Intervals \subseteq Nat

Loops == 1..MaxStarts
Nows  == (MaxStarts + 1)..(MaxStarts + MaxPollNow)
Polls == Loops \cup Nows

VARIABLES
    running,              \* p.running
    interval,             \* p.interval
    stopCh,               \* p.stopCh: channel n is made by the nth Start
    closed,               \* the channels closed
    consecutiveFailures, totalPolls, totalFailures,
    caller,               \* per caller: where it is in Start or Stop
    at,                   \* per loop or PollNow: where it is
    watched,              \* per loop: the stopCh its select evaluated
    period,               \* per loop: what its ticker ticks at
    cancelled,            \* the loops whose context is cancelled
    crashed               \* a loop panicked: the program is gone

vars == <<running, interval, stopCh, closed, consecutiveFailures, totalPolls, totalFailures,
          caller, at, watched, period, cancelled, crashed>>
statusVars == <<consecutiveFailures, totalPolls, totalFailures>>
loopVars   == <<at, watched, period>>

Unborn(P) == {p \in P : at[p] = "unborn"}
Alive     == {l \in Loops : at[l] \notin {"unborn", "gone"}}
NextOf(P) == {p \in Unborn(P) : \A q \in Unborn(P) : p <= q}
Started   == {l \in Loops : at[l] # "unborn"}

TypeOK ==
    /\ running \in BOOLEAN /\ interval \in Intervals
    /\ stopCh \in 0..MaxStarts /\ closed \subseteq 0..MaxStarts
    /\ consecutiveFailures \in Nat /\ totalFailures \in Nat /\ totalPolls \in Nat
    /\ caller \in [Callers -> {"idle", "start", "close", "wait", "dead"}]
    /\ at \in [Polls -> {"unborn", "delay", "due", "poll", "report", "select", "gone"}]
    /\ watched \in [Loops -> 0..MaxStarts] /\ period \in [Loops -> Intervals \cup {0}]
    /\ cancelled \subseteq Loops /\ crashed \in BOOLEAN

Init ==
    /\ running = FALSE /\ interval \in Intervals \ {0}
    /\ stopCh = 0 /\ closed = {}
    /\ consecutiveFailures = 0 /\ totalPolls = 0 /\ totalFailures = 0
    /\ caller = [c \in Callers |-> "idle"]
    /\ at = [p \in Polls |-> "unborn"]
    /\ watched = [l \in Loops |-> 0] /\ period = [l \in Loops |-> 0]
    /\ cancelled = {} /\ crashed = FALSE
-----------------------------------------------------------------------------
(* Start and Stop, called by the driver.                                   *)
Step(c, place) == caller' = [caller EXCEPT ![c] = place]
Goto(p, place) == at' = [at EXCEPT ![p] = place]

(* running.Swap(true): a poller already running is left alone.             *)
BeginStart(c) ==
    /\ caller[c] = "idle" /\ ~running /\ Unborn(Loops) # {}
    /\ running' = TRUE
    /\ Step(c, "start")
    /\ UNCHANGED <<interval, stopCh, closed, statusVars, loopVars, cancelled, crashed>>

(* A fresh channel, then the loop.                                         *)
RunLoop(c) ==
    /\ caller[c] = "start" /\ Step(c, "idle")
    /\ \E l \in NextOf(Loops) :
        /\ stopCh' = l
        /\ watched' = [watched EXCEPT ![l] = l]
        /\ Goto(l, IF InitialDelay THEN "delay" ELSE "due")
    /\ UNCHANGED <<running, interval, closed, statusVars, period, cancelled, crashed>>

BeginStop(c) ==
    /\ caller[c] = "idle" /\ running
    /\ running' = FALSE
    /\ Step(c, "close")
    /\ UNCHANGED <<interval, stopCh, closed, statusVars, loopVars, cancelled, crashed>>

(* Mutant: Stop does not wait for the loop.                                *)
CloseStopChAndReturn(c) ==
    /\ caller[c] = "close" /\ Step(c, "idle")
    /\ closed' = closed \cup {stopCh}
    /\ UNCHANGED <<running, interval, stopCh, statusVars, loopVars, cancelled, crashed>>

(* Mutant: Stop waits first and closes the channel afterwards.             *)
CloseStopChLate(c) ==
    /\ caller[c] = "close" /\ Alive = {} /\ Step(c, "wait")
    /\ closed' = closed \cup {stopCh}
    /\ UNCHANGED <<running, interval, stopCh, statusVars, loopVars, cancelled, crashed>>

CloseStopCh(c) ==
    /\ caller[c] = "close" /\ Step(c, "wait")
    /\ closed' = closed \cup {stopCh}
    /\ UNCHANGED <<running, interval, stopCh, statusVars, loopVars, cancelled, crashed>>

(* wg.Wait returns when no loop is left.                                   *)
StopReturns(c) ==
    /\ caller[c] = "wait" /\ Alive = {}
    /\ Step(c, "idle")
    /\ UNCHANGED <<running, interval, stopCh, closed, statusVars, loopVars, cancelled, crashed>>

(* Any interval is taken: NewPoller replaces one that is not positive,     *)
(* SetInterval does not.                                                   *)
SetInterval ==
    /\ ~crashed /\ interval' \in Intervals \ {interval}
    /\ UNCHANGED <<running, stopCh, closed, statusVars, caller, loopVars, cancelled, crashed>>

PollNow ==
    /\ \E p \in NextOf(Nows) : Goto(p, "due")
    /\ UNCHANGED <<running, interval, stopCh, closed, statusVars, caller, watched, period,
                   cancelled, crashed>>

(* The context given to Start is cancelled.                                *)
Cancel(l) ==
    /\ ~crashed /\ l \in Started \ cancelled
    /\ cancelled' = cancelled \cup {l}
    /\ UNCHANGED <<running, interval, stopCh, closed, statusVars, caller, loopVars, crashed>>
-----------------------------------------------------------------------------
(* The loop.                                                               *)
outside == <<running, interval, stopCh, closed, caller, cancelled, crashed>>

DelayEnds(l) ==
    /\ l \in Loops /\ at[l] = "delay"
    /\ Goto(l, "due")
    /\ UNCHANGED <<outside, statusVars, watched, period>>

Tick(l) ==
    /\ l \in Loops /\ at[l] = "select" /\ totalPolls < MaxPolls
    /\ Goto(l, "due")
    /\ UNCHANGED <<outside, statusVars, watched, period>>

(* The select of the delay or of the loop sees the stop or the context.    *)
LeaveLoop(l) ==
    /\ l \in Loops /\ at[l] \in {"delay", "select"}
    /\ watched[l] \in closed \/ l \in cancelled
    /\ Goto(l, "gone")
    /\ UNCHANGED <<outside, statusVars, watched, period>>

(* doPoll counts the poll and calls the driver's function ...              *)
BeginPoll(p) ==
    /\ at[p] = "due"
    /\ totalPolls' = totalPolls + 1
    /\ Goto(p, "poll")
    /\ UNCHANGED <<outside, consecutiveFailures, totalFailures, watched, period>>

(* Mutant: a success takes one failure back.                               *)
PollSucceedsOnce(p) ==
    /\ at[p] = "poll" /\ Goto(p, "report")
    /\ consecutiveFailures' = consecutiveFailures - 1
    /\ UNCHANGED <<outside, totalPolls, totalFailures, watched, period>>

(* ... records that it succeeded ...                                       *)
PollSucceeds(p) ==
    /\ at[p] = "poll" /\ Goto(p, "report")
    /\ consecutiveFailures' = 0
    /\ UNCHANGED <<outside, totalPolls, totalFailures, watched, period>>

(* ... or that it failed ...                                               *)
PollFails(p) ==
    /\ at[p] = "poll" /\ Goto(p, "report")
    /\ consecutiveFailures' = consecutiveFailures + 1
    /\ totalFailures' = totalFailures + 1
    /\ UNCHANGED <<outside, totalPolls, watched, period>>

(* ... and calls OnSuccess or OnError and OnUnhealthy, outside the lock.   *)
(* A loop then waits: its ticker, made after the first poll, keeps its     *)
(* period, and its select evaluates stopCh.                                *)
MakesTicker(p) == p \in Loops /\ period[p] = 0

Report(p) ==
    /\ at[p] = "report" /\ (MakesTicker(p) => interval # 0)
    /\ Goto(p, IF p \in Loops THEN "select" ELSE "gone")
    /\ IF p \in Loops
       THEN /\ watched' = [watched EXCEPT ![p] = stopCh]
            /\ period' = [period EXCEPT ![p] = IF @ = 0 THEN interval ELSE @]
       ELSE UNCHANGED <<watched, period>>
    /\ UNCHANGED <<outside, statusVars>>

(* time.NewTicker takes no interval that is not positive: its panic, in a  *)
(* goroutine that does not recover, ends the program.                      *)
NewTickerPanics(l) ==
    /\ at[l] = "report" /\ MakesTicker(l) /\ interval = 0
    /\ crashed' = TRUE
    /\ at' = [p \in Polls |-> "gone"] /\ caller' = [c \in Callers |-> "dead"]
    /\ UNCHANGED <<running, interval, stopCh, closed, statusVars, watched, period, cancelled>>
-----------------------------------------------------------------------------
Call(c) == BeginStart(c) \/ RunLoop(c) \/ BeginStop(c) \/ CloseStopCh(c) \/ StopReturns(c)
Poll(p) == BeginPoll(p) \/ PollSucceeds(p) \/ PollFails(p) \/ Report(p) \/ NewTickerPanics(p)
Loop(l) == DelayEnds(l) \/ Tick(l) \/ LeaveLoop(l)

Next ==
    \/ SetInterval \/ PollNow
    \/ \E c \in Callers : Call(c)
    \/ \E l \in Loops : Cancel(l) \/ Loop(l)
    \/ \E p \in Polls : Poll(p)

(* A call under way goes on, the driver's function returns, and select     *)
(* takes a closed channel or a cancelled context at the latest when it has *)
(* been ready over and over: it chooses among the ready cases at random.   *)
Fairness ==
    /\ \A c \in Callers : WF_vars(RunLoop(c) \/ CloseStopCh(c) \/ StopReturns(c))
    /\ \A p \in Polls : WF_vars(Poll(p))
    /\ \A l \in Loops : WF_vars(DelayEnds(l)) /\ SF_vars(LeaveLoop(l))

Spec == Init /\ [][Next]_vars /\ Fairness
-----------------------------------------------------------------------------
InCall(c) == caller[c] \notin {"idle", "dead"}

(* Start and Stop, one after the other, never leave two loops polling, and *)
(* once Stop has returned no loop polls any more (Stop's wg.Wait).         *)
OneLoop ==
    /\ Cardinality(Alive) <= 1
    /\ (~running /\ \A c \in Callers : ~InCall(c)) => Alive = {}

(* Stop returns once the poll under way does, unless the program dies of   *)
(* an interval that is not positive (Stop's wg.Wait, time.NewTicker).      *)
StopAlwaysReturns ==
    \A c \in Callers : caller[c] \in {"close", "wait"} ~> (caller[c] = "idle" \/ crashed)
=============================================================================
