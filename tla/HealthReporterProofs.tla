------------------------ MODULE HealthReporterProofs ------------------------
(***************************************************************************)
(* Proofs about the health reporter, for any number of driver goroutines   *)
(* that force a report and any number of calls of Health.                  *)
(***************************************************************************)
EXTENDS HealthReporter, TLAPS

Busy == {"probe", "record", "publish"}

(* An actor that has a report to make knows the probe it is of; a probe's  *)
(* answer is there once Health has returned, and is there for good.        *)
ProbeInv ==
    /\ \A a \in Actors : at[a] \in Busy => probing[a] \in Probes
    /\ \A n \in Probes : health[n] \in {"sending", "ended"} <=> answer[n] # "none"
    /\ \A a \in Actors : at[a] \in {"record", "publish"} =>
          /\ report[a] \in Status
          /\ \/ report[a] = "DOWN"
             \/ /\ health[probing[a]] = "ended"
                /\ report[a] = Normalize(answer[probing[a]])

(* The record made last is the one at time clock: core has it, with the    *)
(* status recorded, or its actor is about to publish it, or it is lost.    *)
RecordInv ==
    /\ \A r \in core : 1 <= r.stamp /\ r.stamp <= clock
    /\ \A a \in Actors : at[a] = "publish" => 1 <= stamp[a] /\ stamp[a] <= clock
    /\ \A r \in core : r.stamp = clock => r.status = last
    /\ \A a \in Actors : at[a] = "publish" /\ stamp[a] = clock => report[a] = last
    /\ clock = 0 \/ undelivered \/ (\E r \in core : r.stamp = clock)
         \/ \E a \in Actors : at[a] = "publish" /\ stamp[a] = clock

HealthInv == TypeOK /\ ProbeInv /\ RecordInv

LEMMA NormalizeFacts ==
    \A r \in Answers :
        /\ Normalize(r) \in Status
        /\ Normalize(r) = "OK" => r = "OK"
        /\ Normalize(r) = "DEGRADED" => r \in {"DEGRADED", "odd"}
        /\ r = "panic" => Normalize(r) = "DOWN"
        /\ r # "none"
  BY AnswersAssumption DEF Normalize, Status

LEMMA HealthInit == Init => HealthInv
<1> SUFFICES ASSUME Init PROVE HealthInv
  OBVIOUS
<1>1. TypeOK
  <2>1. 0 \in 0..MaxProbes
    BY MaxProbesAssumption
  <2>2. at \in [Actors -> {"idle", "probe", "record", "publish", "select", "done"}]
        /\ probing \in [Actors -> 0..MaxProbes] /\ stamp \in [Actors -> Nat]
        /\ report \in [Actors -> Status \cup {"none"}]
    BY <2>1 DEF Init
  <2>3. /\ health \in [Probes -> {"unborn", "running", "sending", "ended"}]
        /\ answer \in [Probes -> Answers \cup {"none"}]
    BY DEF Init
  <2> QED
    BY <2>2, <2>3 DEF Init, TypeOK
<1>2. ProbeInv
  BY DEF Init, ProbeInv, Busy
<1>3. RecordInv
  BY DEF Init, RecordInv
<1> QED
  BY <1>1, <1>2, <1>3 DEF HealthInv
-----------------------------------------------------------------------------
(* What a step of Health leaves alone.                                     *)
LEMMA HealthReturnsStep == ASSUME HealthInv, NEW n \in Probes, HealthReturns(n) PROVE HealthInv'
<1>1. /\ UNCHANGED <<at, probing, report, last, clock, stamp, core, undelivered, stopped, cancelled>>
      /\ health[n] = "running" /\ health' = [health EXCEPT ![n] = "sending"]
  BY DEF HealthReturns, recordVars, coreVars, endVars
<1>2. PICK r \in Answers : answer' = [answer EXCEPT ![n] = r]
  BY DEF HealthReturns
<1>3. r # "none"
  BY NormalizeFacts
<1>4. TypeOK'
  BY <1>1, <1>2 DEF HealthInv, TypeOK
<1>5. ProbeInv'
  BY <1>1, <1>2, <1>3 DEF HealthInv, TypeOK, ProbeInv, Normalize, Busy
<1>6. RecordInv'
  BY <1>1 DEF HealthInv, RecordInv
<1> QED
  BY <1>4, <1>5, <1>6 DEF HealthInv

LEMMA SendStep == ASSUME HealthInv, NEW n \in Probes, Send(n) PROVE HealthInv'
<1>1. /\ UNCHANGED <<at, probing, answer, report, last, clock, stamp, core, undelivered, stopped, cancelled>>
      /\ health[n] = "sending" /\ health' = [health EXCEPT ![n] = "ended"]
  BY DEF Send, recordVars, coreVars, endVars
<1>2. TypeOK'
  BY <1>1 DEF HealthInv, TypeOK
<1>3. ProbeInv'
  BY <1>1 DEF HealthInv, TypeOK, ProbeInv, Normalize, Busy
<1>4. RecordInv'
  BY <1>1 DEF HealthInv, RecordInv
<1> QED
  BY <1>2, <1>3, <1>4 DEF HealthInv

(* A new probe is one that nobody waits for.                               *)
LEMMA ProbeStep ==
    ASSUME HealthInv, NEW a \in Actors, at[a] \in {"idle", "select"}, Probe(a),
           UNCHANGED endVars
    PROVE  HealthInv'
<1>1. /\ UNCHANGED <<answer, report, last, clock, stamp, core, undelivered, stopped, cancelled>>
      /\ at' = [at EXCEPT ![a] = "probe"]
  BY DEF Probe, recordVars, coreVars, endVars, Goto
<1>2. PICK n \in Probes : /\ health[n] = "unborn" /\ probing' = [probing EXCEPT ![a] = n]
                          /\ health' = [health EXCEPT ![n] = "running"]
  BY DEF Probe, Unborn
<1>3. TypeOK'
  BY <1>1, <1>2 DEF HealthInv, TypeOK, Probes
<1>4. ProbeInv'
  BY <1>1, <1>2 DEF HealthInv, TypeOK, ProbeInv, Normalize, Busy
<1>5. RecordInv'
  BY <1>1 DEF HealthInv, TypeOK, RecordInv
<1> QED
  BY <1>3, <1>4, <1>5 DEF HealthInv

LEMMA AnswerStep == ASSUME HealthInv, NEW a \in Actors, AnswerArrives(a) PROVE HealthInv'
<1>1. /\ UNCHANGED <<probing, health, answer, last, clock, stamp, core, undelivered, stopped, cancelled>>
      /\ at[a] = "probe" /\ health[probing[a]] = "ended"
      /\ at' = [at EXCEPT ![a] = "record"]
      /\ report' = [report EXCEPT ![a] = Normalize(answer[probing[a]])]
  BY DEF AnswerArrives, probeVars, recordVars, coreVars, endVars, Goto
<1>2. probing[a] \in Probes /\ answer[probing[a]] \in Answers
  BY <1>1 DEF HealthInv, TypeOK, ProbeInv, Busy
<1>3. Normalize(answer[probing[a]]) \in Status
  BY <1>2, NormalizeFacts
<1>4. TypeOK'
  BY <1>1, <1>3 DEF HealthInv, TypeOK
<1>5. ProbeInv'
  BY <1>1, <1>3 DEF HealthInv, TypeOK, ProbeInv, Normalize, Busy
<1>6. RecordInv'
  BY <1>1 DEF HealthInv, TypeOK, RecordInv
<1> QED
  BY <1>4, <1>5, <1>6 DEF HealthInv

LEMMA GiveUpStep == ASSUME HealthInv, NEW a \in Actors, GiveUp(a) PROVE HealthInv'
<1>1. /\ UNCHANGED <<probing, health, answer, last, clock, stamp, core, undelivered, stopped, cancelled>>
      /\ at[a] = "probe" /\ at' = [at EXCEPT ![a] = "record"]
      /\ report' = [report EXCEPT ![a] = "DOWN"]
  BY DEF GiveUp, probeVars, recordVars, coreVars, endVars, Goto
<1>2. TypeOK'
  BY <1>1 DEF HealthInv, TypeOK, Status
<1>3. ProbeInv'
  BY <1>1 DEF HealthInv, TypeOK, ProbeInv, Normalize, Busy, Status
<1>4. RecordInv'
  BY <1>1 DEF HealthInv, TypeOK, RecordInv
<1> QED
  BY <1>2, <1>3, <1>4 DEF HealthInv

(* A record takes a time of its own, later than any before it.             *)
LEMMA RecordStep == ASSUME HealthInv, NEW a \in Actors, Record(a) PROVE HealthInv'
<1>1. /\ UNCHANGED <<probing, health, answer, report, core, undelivered, stopped, cancelled>>
      /\ at[a] = "record" /\ at' = [at EXCEPT ![a] = "publish"]
      /\ last' = report[a] /\ clock' = clock + 1 /\ stamp' = [stamp EXCEPT ![a] = clock + 1]
  BY DEF Record, probeVars, coreVars, endVars, Goto
<1>2. report[a] \in Status /\ clock \in Nat
  BY <1>1 DEF HealthInv, ProbeInv, TypeOK
<1>3. TypeOK'
  BY <1>1, <1>2 DEF HealthInv, TypeOK
<1>4. ProbeInv'
  BY <1>1 DEF HealthInv, TypeOK, ProbeInv, Normalize, Busy
<1>5. \A r \in core : r.stamp \in Nat /\ 1 <= r.stamp /\ r.stamp <= clock
  BY DEF HealthInv, TypeOK, RecordInv
<1>6. \A b \in Actors : b # a /\ at'[b] = "publish" =>
          stamp'[b] = stamp[b] /\ stamp[b] \in Nat /\ 1 <= stamp[b] /\ stamp[b] <= clock
  BY <1>1 DEF HealthInv, TypeOK, RecordInv
<1>7. at'[a] = "publish" /\ stamp'[a] = clock' /\ report'[a] = last'
  BY <1>1 DEF HealthInv, TypeOK
<1>8. RecordInv'
  BY <1>1, <1>2, <1>5, <1>6, <1>7 DEF RecordInv
<1> QED
  BY <1>3, <1>4, <1>8 DEF HealthInv

LEMMA PublishStep ==
    ASSUME HealthInv, NEW a \in Actors, Publish(a) \/ PublishFails(a)
    PROVE  HealthInv'
<1>1. /\ UNCHANGED <<health, answer, last, clock, stopped, cancelled>> /\ at[a] = "publish"
      /\ at' = [at EXCEPT ![a] = IF a = "loop" THEN "select" ELSE "idle"]
      /\ probing' = [probing EXCEPT ![a] = 0] /\ report' = [report EXCEPT ![a] = "none"]
      /\ stamp' = [stamp EXCEPT ![a] = 0]
  BY DEF Publish, PublishFails, Finish, probeVars, endVars, Goto
<1>2. \/ core' = core \cup {[status |-> report[a], stamp |-> stamp[a]]} /\ undelivered' = undelivered
      \/ core' = core /\ undelivered' = TRUE
  BY DEF Publish, PublishFails, Message
<1>3. report[a] \in Status /\ stamp[a] \in Nat /\ clock \in Nat
  BY <1>1 DEF HealthInv, ProbeInv, TypeOK
<1>4. TypeOK'
  <2>1. core' \subseteq [status : Status, stamp : Nat] /\ undelivered' \in BOOLEAN
    <3>1. [status |-> report[a], stamp |-> stamp[a]] \in [status : Status, stamp : Nat]
      BY <1>3
    <3> QED
      BY <1>2, <3>1 DEF HealthInv, TypeOK
  <2> QED
    BY <1>1, <2>1, MaxProbesAssumption DEF HealthInv, TypeOK
<1>5. ProbeInv'
  BY <1>1 DEF HealthInv, TypeOK, ProbeInv, Normalize, Busy
<1>6. \A b \in Actors : b # a => at'[b] = at[b] /\ stamp'[b] = stamp[b] /\ report'[b] = report[b]
  BY <1>1 DEF HealthInv, TypeOK
<1>7. at'[a] # "publish"
  BY <1>1 DEF HealthInv, TypeOK
<1>8. RecordInv'
  <2>1. CASE core' = core \cup {[status |-> report[a], stamp |-> stamp[a]]} /\ undelivered' = undelivered
    <3>1. 1 <= stamp[a] /\ stamp[a] <= clock /\ (stamp[a] = clock => report[a] = last)
      BY <1>1 DEF HealthInv, RecordInv
    <3> DEFINE m == [status |-> report[a], stamp |-> stamp[a]]
    <3>2. m \in core' /\ m.stamp = stamp[a] /\ m.status = report[a]
      BY <2>1
    <3>3. \A r \in core' : r \in core \/ r = m
      BY <2>1
    <3> HIDE DEF m
    <3>4. clock' = 0 \/ undelivered' \/ (\E r \in core' : r.stamp = clock')
            \/ \E b \in Actors : at'[b] = "publish" /\ stamp'[b] = clock'
      <4>1. CASE stamp[a] = clock
        BY <1>1, <3>2, <4>1
      <4>2. CASE clock = 0
        BY <1>1, <4>2
      <4>3. CASE undelivered \/ \E r \in core : r.stamp = clock
        BY <1>1, <2>1, <4>3
      <4>4. CASE \E b \in Actors : at[b] = "publish" /\ stamp[b] = clock /\ b # a
        BY <1>1, <1>6, <4>4
      <4> QED
        BY <4>1, <4>2, <4>3, <4>4 DEF HealthInv, RecordInv
    <3> QED
      BY <1>1, <1>3, <1>6, <1>7, <3>1, <3>2, <3>3, <3>4 DEF HealthInv, RecordInv
  <2>2. CASE core' = core /\ undelivered' = TRUE
    BY <1>1, <1>6, <1>7, <2>2 DEF HealthInv, RecordInv
  <2> QED
    BY <1>2, <2>1, <2>2
<1> QED
  BY <1>4, <1>5, <1>8 DEF HealthInv

LEMMA LoopStep == ASSUME HealthInv, LeaveLoop \/ Stop \/ Cancel PROVE HealthInv'
<1>1. /\ UNCHANGED <<probing, health, answer, report, last, clock, stamp, core, undelivered>>
      /\ stopped' \in BOOLEAN /\ cancelled' \in BOOLEAN
  BY DEF LeaveLoop, Stop, Cancel, probeVars, recordVars, coreVars, endVars, HealthInv, TypeOK
<1>2. \/ at' = at
      \/ at["loop"] = "select" /\ at' = [at EXCEPT !["loop"] = "done"]
  BY DEF LeaveLoop, Stop, Cancel, Goto
<1>3. TypeOK'
  BY <1>1, <1>2 DEF HealthInv, TypeOK
<1>4. \A a \in Actors : at'[a] = at[a] \/ (at'[a] = "done" /\ at[a] = "select")
  BY <1>2 DEF HealthInv, TypeOK
<1>5. ProbeInv'
  BY <1>1, <1>4 DEF HealthInv, ProbeInv, Normalize, Busy
<1>6. RecordInv'
  BY <1>1, <1>4 DEF HealthInv, RecordInv
<1> QED
  BY <1>3, <1>5, <1>6 DEF HealthInv

LEMMA HealthSteps == HealthInv /\ [Next]_vars => HealthInv'
<1> SUFFICES ASSUME HealthInv, [Next]_vars PROVE HealthInv'
  OBVIOUS
<1>1. ASSUME NEW a \in Actors, ForceReport(a) PROVE HealthInv'
  BY <1>1, ProbeStep DEF ForceReport
<1>2. ASSUME NEW a \in Actors, Reporter(a) PROVE HealthInv'
  BY <1>2, AnswerStep, GiveUpStep, RecordStep, PublishStep DEF Reporter
<1>3. CASE Start \/ Tick
  BY <1>3, ProbeStep DEF Start, Tick, Actors
<1>4. CASE LeaveLoop \/ Stop \/ Cancel
  BY <1>4, LoopStep
<1>5. ASSUME NEW n \in Probes, HealthReturns(n) \/ Send(n) PROVE HealthInv'
  BY <1>5, HealthReturnsStep, SendStep
<1>6. CASE UNCHANGED vars
  BY <1>6 DEF vars, HealthInv, TypeOK, ProbeInv, RecordInv, Normalize, Busy
<1> QED
  BY <1>1, <1>2, <1>3, <1>4, <1>5, <1>6 DEF Next

LEMMA HealthInvariant == Spec => []HealthInv
  BY HealthInit, HealthSteps, PTL DEF Spec
-----------------------------------------------------------------------------
(* The variables keep their types.                                         *)
THEOREM TypeCorrect == Spec => []TypeOK
<1>1. HealthInv => TypeOK
  BY DEF HealthInv
<1> QED
  BY <1>1, HealthInvariant, PTL

(* However late Health answers, a report speaks of its own probe, and only *)
(* a driver that said so itself is OK (Probe, normalizeHealthStatus).      *)
THEOREM ReportIsOfItsProbeAlways == Spec => []ReportIsOfItsProbe
<1>1. HealthInv => ReportIsOfItsProbe
  <2> SUFFICES ASSUME HealthInv, NEW a \in Actors, at[a] \in {"record", "publish"}
               PROVE  /\ report[a] = "OK" => answer[probing[a]] = "OK"
                      /\ report[a] = "DEGRADED" => answer[probing[a]] \in {"DEGRADED", "odd"}
                      /\ answer[probing[a]] \in {"none", "panic"} => report[a] = "DOWN"
    BY DEF ReportIsOfItsProbe
  <2>1. probing[a] \in Probes
    BY DEF HealthInv, ProbeInv, Busy
  <2>2. CASE report[a] = "DOWN"
    BY <2>2
  <2>3. CASE health[probing[a]] = "ended" /\ report[a] = Normalize(answer[probing[a]])
    <3>1. answer[probing[a]] \in Answers
      BY <2>1, <2>3 DEF HealthInv, TypeOK, ProbeInv
    <3> QED
      BY <2>3, <3>1, NormalizeFacts
  <2> QED
    BY <2>2, <2>3 DEF HealthInv, ProbeInv
<1> QED
  BY <1>1, HealthInvariant, PTL

(* Whatever order two reports arrive in, the times tell core which one the *)
(* driver recorded last, unless one was lost (ProbeAndPublish).            *)
THEOREM CoreKnowsLastAlways == Spec => []CoreKnowsLast
<1>1. HealthInv => CoreKnowsLast
  <2> SUFFICES ASSUME HealthInv, \A a \in Actors : at[a] \in {"idle", "select", "done"}, ~undelivered,
                      NEW r \in core, \A s \in core : s.stamp <= r.stamp
               PROVE  r.status = last
    BY DEF CoreKnowsLast
  <2>1. PICK s \in core : s.stamp = clock
    <3>1. clock # 0
      BY DEF HealthInv, RecordInv, TypeOK
    <3> QED
      BY <3>1 DEF HealthInv, RecordInv
  <2>2. r.stamp \in Nat /\ clock \in Nat /\ r.stamp <= clock /\ clock <= r.stamp
    BY <2>1 DEF HealthInv, TypeOK, RecordInv
  <2> QED
    BY <2>2 DEF HealthInv, RecordInv
<1> QED
  BY <1>1, HealthInvariant, PTL
=============================================================================
