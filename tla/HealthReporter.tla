--------------------------- MODULE HealthReporter ---------------------------
(***************************************************************************)
(* The health reporter (health_reporter.go): a loop calls the driver's     *)
(* Health at every tick, and the driver may force a report of its own at   *)
(* any time.  Each call runs in a goroutine that is abandoned on timeout;  *)
(* what came of it is recorded as the last report and published to core.   *)
(* Health is driver code: it may answer anything, panic, or never return.  *)
(***************************************************************************)
EXTENDS Naturals

CONSTANTS
    Forcers,   \* goroutines of the driver that call ProbeAndPublish
    Answers,   \* what Health may answer; "panic": it panics
    MaxProbes  \* bound: calls of Health

ASSUME ForcersAssumption == "loop" \notin Forcers
ASSUME AnswersAssumption == Answers \subseteq {"OK", "DEGRADED", "DOWN", "odd", "panic"}
ASSUME MaxProbesAssumption == MaxProbes \in Nat

Actors  == {"loop"} \cup Forcers
Probes  == 1..MaxProbes
Status  == {"OK", "DEGRADED", "DOWN"}

VARIABLES
    at,         \* per actor: where it is
    probing,    \* per actor: the probe it waits for; 0: none
    health,     \* per probe: its goroutine
    answer,     \* per probe: what Health returned; "odd": no status there is
    report,     \* per actor: the status it is about to record or publish
    last,       \* h.last: the status recorded last
    clock,      \* h.lastAt, as a number; it grows with every record
    stamp,      \* per actor: the time its report was recorded
    stopped,    \* stopCh is closed
    cancelled,  \* the context given to Start is cancelled
    core,       \* the reports core received, with their times
    undelivered \* a publish failed

vars == <<at, probing, health, answer, report, last, clock, stamp, stopped, cancelled, core,
          undelivered>>
probeVars  == <<health, answer>>
recordVars == <<last, clock, stamp>>
coreVars   == <<core, undelivered>>
endVars    == <<stopped, cancelled>>

TypeOK ==
    /\ at \in [Actors -> {"idle", "probe", "record", "publish", "select", "done"}]
    /\ probing \in [Actors -> 0..MaxProbes]
    /\ health \in [Probes -> {"unborn", "running", "sending", "ended"}]
    /\ answer \in [Probes -> Answers \cup {"none"}]
    /\ report \in [Actors -> Status \cup {"none"}] /\ last \in Status \cup {"none"}
    /\ clock \in Nat /\ stamp \in [Actors -> Nat]
    /\ stopped \in BOOLEAN /\ cancelled \in BOOLEAN /\ undelivered \in BOOLEAN
    /\ core \subseteq [status : Status, stamp : Nat]

Init ==
    /\ at = [a \in Actors |-> "idle"] /\ probing = [a \in Actors |-> 0]
    /\ health = [n \in Probes |-> "unborn"]
    /\ answer = [n \in Probes |-> "none"]
    /\ report = [a \in Actors |-> "none"] /\ last = "none"
    /\ clock = 0 /\ stamp = [a \in Actors |-> 0]
    /\ stopped = FALSE /\ cancelled = FALSE
    /\ core = {} /\ undelivered = FALSE

Goto(a, place) == at' = [at EXCEPT ![a] = place]
-----------------------------------------------------------------------------
(* Health runs in a goroutine of its own: it returns, panics or does not,  *)
(* whether or not anyone waits for it.                                     *)
HealthReturns(n) ==
    /\ health[n] = "running"
    /\ health' = [health EXCEPT ![n] = "sending"]
    /\ \E r \in Answers : answer' = [answer EXCEPT ![n] = r]
    /\ UNCHANGED <<at, probing, report, recordVars, coreVars, endVars>>

(* Mutant: the channel has no buffer.                                      *)
SendUnbuffered(n) ==
    /\ health[n] = "sending"
    /\ \E a \in Actors : at[a] = "probe" /\ probing[a] = n
    /\ health' = [health EXCEPT ![n] = "ended"]
    /\ UNCHANGED <<at, probing, answer, report, recordVars, coreVars, endVars>>

(* resCh <- r: there is room for the one result.                           *)
Send(n) ==
    /\ health[n] = "sending"
    /\ health' = [health EXCEPT ![n] = "ended"]
    /\ UNCHANGED <<at, probing, answer, report, recordVars, coreVars, endVars>>
-----------------------------------------------------------------------------
(* Probe.                                                                  *)
Unborn == {n \in Probes : health[n] = "unborn"}

Probe(a) ==
    /\ \E n \in Unborn :
        /\ \A m \in Unborn : n <= m
        /\ probing' = [probing EXCEPT ![a] = n]
        /\ health' = [health EXCEPT ![n] = "running"]
    /\ Goto(a, "probe")
    /\ UNCHANGED <<answer, report, recordVars, coreVars>>

(* Mutant: a status that HealthStatus does not define is passed on.        *)
NormalizeNothing(r) == IF r = "panic" THEN "DOWN" ELSE r

(* normalizeHealthStatus, and what a panic is reported as.                 *)
Normalize(r) == IF r \in Status THEN r ELSE IF r = "panic" THEN "DOWN" ELSE "DEGRADED"

(* Mutant: the results of all probes arrive on one channel.                *)
AnswerFromAny(a) ==
    /\ at[a] = "probe"
    /\ \E n \in 1..probing[a] : /\ health[n] = "ended"
                                /\ report' = [report EXCEPT ![a] = Normalize(answer[n])]
    /\ Goto(a, "record")
    /\ UNCHANGED <<probing, probeVars, recordVars, coreVars, endVars>>

AnswerArrives(a) ==
    /\ at[a] = "probe" /\ health[probing[a]] = "ended"
    /\ report' = [report EXCEPT ![a] = Normalize(answer[probing[a]])]
    /\ Goto(a, "record")
    /\ UNCHANGED <<probing, probeVars, recordVars, coreVars, endVars>>

(* The timeout passes, or the context ends: DOWN either way.  The result,  *)
(* should it come, stays in the channel of this probe.                     *)
GiveUp(a) ==
    /\ at[a] = "probe"
    /\ report' = [report EXCEPT ![a] = "DOWN"]
    /\ Goto(a, "record")
    /\ UNCHANGED <<probing, probeVars, recordVars, coreVars, endVars>>
-----------------------------------------------------------------------------
(* ProbeAndPublish: under the lock the report and its time are recorded,   *)
(* OnReport is called and the report is published after it.                *)
Record(a) ==
    /\ at[a] = "record"
    /\ last' = report[a]
    /\ clock' = clock + 1 /\ stamp' = [stamp EXCEPT ![a] = clock + 1]
    /\ Goto(a, "publish")
    /\ UNCHANGED <<probing, probeVars, report, coreVars, endVars>>

Finish(a) ==
    /\ Goto(a, IF a = "loop" THEN "select" ELSE "idle")
    /\ probing' = [probing EXCEPT ![a] = 0] /\ report' = [report EXCEPT ![a] = "none"]
    /\ stamp' = [stamp EXCEPT ![a] = 0]
    /\ UNCHANGED <<probeVars, last, clock, endVars>>

Message(a, time) == [status |-> report[a], stamp |-> time]

(* Mutant: the report is published with the time of h.lastAt by then.      *)
PublishLastAt(a) ==
    /\ at[a] = "publish"
    /\ core' = core \cup {Message(a, clock)}
    /\ Finish(a) /\ UNCHANGED undelivered

Publish(a) ==
    /\ at[a] = "publish"
    /\ core' = core \cup {Message(a, stamp[a])}
    /\ Finish(a) /\ UNCHANGED undelivered

PublishFails(a) ==
    /\ at[a] = "publish"
    /\ undelivered' = TRUE
    /\ Finish(a) /\ UNCHANGED core

(* The driver forces a report (ProbeAndPublish with a context of its own). *)
ForceReport(a) ==
    /\ a \in Forcers /\ at[a] = "idle"
    /\ Probe(a) /\ UNCHANGED endVars
-----------------------------------------------------------------------------
(* The loop.                                                               *)
Start == at["loop"] = "idle" /\ Probe("loop") /\ UNCHANGED endVars
Tick  == at["loop"] = "select" /\ Probe("loop") /\ UNCHANGED endVars

(* select sees the stop or the context; doneCh is closed.                  *)
LeaveLoop ==
    /\ at["loop"] = "select" /\ (stopped \/ cancelled)
    /\ Goto("loop", "done")
    /\ UNCHANGED <<probing, probeVars, report, recordVars, coreVars, endVars>>

Stop ==
    /\ ~stopped /\ stopped' = TRUE
    /\ UNCHANGED <<at, probing, probeVars, report, recordVars, coreVars, cancelled>>

Cancel ==
    /\ ~cancelled /\ cancelled' = TRUE
    /\ UNCHANGED <<at, probing, probeVars, report, recordVars, coreVars, stopped>>
-----------------------------------------------------------------------------
Reporter(a) == AnswerArrives(a) \/ GiveUp(a) \/ Record(a) \/ Publish(a) \/ PublishFails(a)

Next ==
    \/ Start \/ Tick \/ LeaveLoop \/ Stop \/ Cancel
    \/ \E a \in Actors : ForceReport(a) \/ Reporter(a)
    \/ \E n \in Probes : HealthReturns(n) \/ Send(n)

(* A probe's timer fires, a publish returns, a goroutine whose Health has  *)
(* returned runs on.  Health itself need never return.  select takes a     *)
(* closed channel once it has been ready over and over.                    *)
Fairness ==
    /\ \A a \in Actors : WF_vars(Reporter(a))
    /\ \A n \in Probes : WF_vars(Send(n))
    /\ SF_vars(LeaveLoop)

Spec == Init /\ [][Next]_vars /\ Fairness
-----------------------------------------------------------------------------
(* A report speaks of its own probe: a late answer of an abandoned probe   *)
(* is never taken for a later one's, a driver is reported OK only when it  *)
(* said so itself, and one that panicked or did not answer is DOWN         *)
(* (health_reporter.go:25-31).                                             *)
ReportIsOfItsProbe ==
    \A a \in Actors : at[a] \in {"record", "publish"} =>
        LET said == answer[probing[a]] IN
        /\ report[a] = "OK" => said = "OK"
        /\ report[a] = "DEGRADED" => said \in {"DEGRADED", "odd"}
        /\ said \in {"none", "panic"} => report[a] = "DOWN"

(* At rest core, which sees the times, can tell which report is the last   *)
(* one, in whatever order two reports arrived, unless it missed one.       *)
CoreKnowsLast ==
    (\A a \in Actors : at[a] \in {"idle", "select", "done"}) /\ ~undelivered =>
        \A r \in core : (\A s \in core : s.stamp <= r.stamp) => r.status = last

(* Probe "never blocks longer than the configured timeout": it returns,    *)
(* although Health may never do; "an abandoned probe must not leak a       *)
(* blocked send": once Health returns the goroutine ends; and Stop, or the *)
(* end of the context, ends the loop even in the middle of a probe that    *)
(* hangs, so that Wait returns.                                            *)
NothingHangs ==
    /\ \A a \in Actors : at[a] = "probe" ~> at[a] = "record"
    /\ \A n \in Probes : health[n] = "sending" ~> health[n] = "ended"
    /\ (stopped \/ cancelled) /\ at["loop"] # "idle" ~> at["loop"] = "done"
=============================================================================
