---------------------------- MODULE PollerProofs ----------------------------
(***************************************************************************)
(* Proofs about the polling loop, for any number of loops, polls and       *)
(* intervals.                                                              *)
(***************************************************************************)
EXTENDS Poller, TLAPS, FiniteSetTheorems

Places == {"unborn", "delay", "due", "poll", "report", "select", "gone"}

(* The goroutines that call Start and Stop take turns: no call begins      *)
(* before the one under way has returned.                                  *)
TakeTurns == \A c, d \in Callers : InCall(c) /\ InCall(d) => c = d

(* What they see then: a loop lives on the channel that the last Start     *)
(* made, none is there when Start begins, and Stop keeps running FALSE     *)
(* until it has seen the loop gone.                                        *)
CallInv ==
    /\ \A l \in Alive : l = stopCh
    /\ (\A c \in Callers : ~InCall(c)) /\ ~running => Alive = {}
    /\ \A c \in Callers :
          /\ caller[c] = "start" => running /\ Alive = {}
          /\ caller[c] \in {"close", "wait"} => ~running

LEMMA NumberFacts == MaxStarts \in Nat /\ MaxPollNow \in Nat /\ Loops \subseteq Polls /\ Nows \subseteq Polls
                     /\ Loops \subseteq 0..MaxStarts /\ 0 \in 0..MaxStarts /\ Loops \cap Nows = {}
  BY PollerNumbersAssumption DEF Loops, Nows, Polls

LEMMA TypeInit == Init => TypeOK
<1> SUFFICES ASSUME Init PROVE TypeOK
  OBVIOUS
<1>1. /\ watched \in [Loops -> 0..MaxStarts] /\ period \in [Loops -> Intervals \cup {0}]
      /\ at \in [Polls -> Places] /\ stopCh \in 0..MaxStarts
  BY NumberFacts DEF Init, Places
<1> QED
  BY <1>1, IntervalsAssumption DEF Init, TypeOK, Places

LEMMA TypeCalls == ASSUME TypeOK, NEW c \in Callers, Call(c) PROVE TypeOK'
<1>1. CASE BeginStart(c) \/ BeginStop(c) \/ StopReturns(c)
  BY <1>1 DEF BeginStart, BeginStop, StopReturns, TypeOK, Step, statusVars, loopVars
<1>2. CASE RunLoop(c)
  <2>1. PICK l \in Loops : /\ stopCh' = l /\ watched' = [watched EXCEPT ![l] = l]
                           /\ Goto(l, IF InitialDelay THEN "delay" ELSE "due")
    BY <1>2 DEF RunLoop, NextOf, Unborn
  <2>2. l \in Polls /\ l \in 0..MaxStarts
    BY NumberFacts
  <2> QED
    BY <1>2, <2>1, <2>2 DEF RunLoop, TypeOK, Step, Goto, statusVars
<1>3. CASE CloseStopCh(c)
  BY <1>3 DEF CloseStopCh, TypeOK, Step, statusVars, loopVars
<1> QED
  BY <1>1, <1>2, <1>3 DEF Call

LEMMA TypeLoops == ASSUME TypeOK, NEW l \in Loops, Loop(l) \/ Cancel(l) PROVE TypeOK'
<1>1. l \in Polls
  BY NumberFacts
<1>2. CASE Loop(l)
  BY <1>1, <1>2 DEF Loop, DelayEnds, Tick, LeaveLoop, TypeOK, Goto, outside, statusVars
<1>3. CASE Cancel(l)
  BY <1>3 DEF Cancel, Started, TypeOK, statusVars, loopVars
<1> QED
  BY <1>2, <1>3

LEMMA TypePolls == ASSUME TypeOK, NEW p \in Polls, Poll(p) PROVE TypeOK'
<1>0. CASE NewTickerPanics(p)
  BY <1>0 DEF NewTickerPanics, TypeOK, statusVars
<1>1. CASE BeginPoll(p) \/ PollSucceeds(p) \/ PollFails(p)
  <2>1. totalPolls' \in Nat /\ consecutiveFailures' \in Nat /\ totalFailures' \in Nat
    BY <1>1 DEF BeginPoll, PollSucceeds, PollFails, TypeOK
  <2>2. at' \in [Polls -> Places] /\ UNCHANGED <<outside, watched, period>>
    BY <1>1 DEF BeginPoll, PollSucceeds, PollFails, TypeOK, Goto, Places
  <2> QED
    BY <2>1, <2>2 DEF TypeOK, Places, outside
<1>2. CASE Report(p)
  <2>1. /\ at' \in [Polls -> Places] /\ UNCHANGED <<outside, statusVars>>
        /\ watched' \in [Loops -> 0..MaxStarts] /\ period' \in [Loops -> Intervals \cup {0}]
    BY <1>2 DEF Report, TypeOK, Goto, Places, outside
  <2> QED
    BY <2>1 DEF TypeOK, Places, outside, statusVars
<1> QED
  BY <1>0, <1>1, <1>2 DEF Poll

LEMMA TypeSteps == TypeOK /\ [Next]_vars => TypeOK'
<1> SUFFICES ASSUME TypeOK, [Next]_vars PROVE TypeOK'
  OBVIOUS
<1>1. CASE SetInterval
  BY <1>1 DEF SetInterval, TypeOK, statusVars, loopVars
<1>2. CASE PollNow
  <2>1. PICK p \in Nows : Goto(p, "due")
    BY <1>2 DEF PollNow, NextOf, Unborn
  <2> QED
    BY <1>2, <2>1, NumberFacts DEF PollNow, TypeOK, Goto, statusVars
<1>3. CASE UNCHANGED vars
  BY <1>3 DEF vars, TypeOK
<1> QED
  BY <1>1, <1>2, <1>3, TypeCalls, TypeLoops, TypePolls DEF Next

(* The variables keep their types.                                         *)
THEOREM TypeCorrect == Spec => []TypeOK
  BY TypeInit, TypeSteps, PTL DEF Spec
-----------------------------------------------------------------------------
(* A loop at work stays the loop it is.                                    *)
LEMMA AliveAtWork ==
    ASSUME TypeOK, NEW p \in Polls, NEW place \in Places \ {"unborn"}, Goto(p, place),
           at[p] \notin {"unborn", "gone"}
    PROVE  Alive' \subseteq Alive
  BY DEF Alive, Goto, TypeOK

LEMMA OneInit == Init => CallInv
<1> SUFFICES ASSUME Init PROVE CallInv
  OBVIOUS
<1>1. Alive = {}
  BY NumberFacts DEF Init, Alive
<1> QED
  BY <1>1 DEF Init, CallInv

LEMMA OneCalls ==
    ASSUME TypeOK, TakeTurns, TakeTurns', CallInv, NEW c \in Callers, Call(c)
    PROVE  CallInv'
<1>0. \A d \in Callers : d # c => caller[d] \in {"idle", "dead"} /\ caller'[d] = caller[d]
  BY DEF TakeTurns, InCall, Call, BeginStart, RunLoop, BeginStop, CloseStopCh, StopReturns, Step,
         TypeOK
<1>1. CASE BeginStart(c)
  <2>1. Alive = {} /\ Alive' = Alive
    BY <1>0, <1>1 DEF BeginStart, CallInv, InCall, loopVars, Alive
  <2> QED
    BY <1>0, <1>1, <2>1 DEF BeginStart, CallInv, InCall, Step, TypeOK
<1>2. CASE RunLoop(c)
  <2>1. PICK l \in Loops : stopCh' = l /\ Goto(l, IF InitialDelay THEN "delay" ELSE "due")
    BY <1>2 DEF RunLoop, NextOf, Unborn
  <2>2. Alive = {} /\ running' /\ caller'[c] = "idle"
    BY <1>2 DEF RunLoop, CallInv, Step, TypeOK
  <2>3. \A m \in Alive' : m = l
    BY <2>1, <2>2, NumberFacts DEF Alive, Goto, TypeOK
  <2> QED
    BY <1>0, <2>1, <2>2, <2>3 DEF CallInv, InCall
<1>3. CASE BeginStop(c)
  BY <1>0, <1>3 DEF BeginStop, CallInv, InCall, Step, TypeOK, loopVars, Alive
<1>4. CASE CloseStopCh(c)
  BY <1>0, <1>4 DEF CloseStopCh, CallInv, InCall, Step, TypeOK, loopVars, Alive
<1>5. CASE StopReturns(c)
  BY <1>0, <1>5 DEF StopReturns, CallInv, InCall, Step, TypeOK, loopVars, Alive
<1> QED
  BY <1>1, <1>2, <1>3, <1>4, <1>5 DEF Call

LEMMA OneSteps == TypeOK /\ TakeTurns /\ TakeTurns' /\ CallInv /\ [Next]_vars => CallInv'
<1> SUFFICES ASSUME TypeOK, TakeTurns, TakeTurns', CallInv, [Next]_vars PROVE CallInv'
  OBVIOUS
<1>1. ASSUME UNCHANGED <<running, stopCh, caller>>, Alive' \subseteq Alive PROVE CallInv'
  BY <1>1 DEF CallInv, InCall
<1>2. CASE SetInterval
  BY <1>1, <1>2 DEF SetInterval, loopVars, Alive
<1>3. CASE PollNow
  <2>1. PICK p \in Nows : Goto(p, "due")
    BY <1>3 DEF PollNow, NextOf, Unborn
  <2>2. Alive' = Alive
    BY <2>1, NumberFacts DEF Alive, Goto, TypeOK
  <2> QED
    BY <1>1, <1>3, <2>2 DEF PollNow
<1>4. ASSUME NEW l \in Loops, Loop(l) PROVE CallInv'
  <2>1. PICK place \in Places \ {"unborn"} : Goto(l, place) /\ at[l] \notin {"unborn", "gone"}
    BY <1>4 DEF Loop, DelayEnds, Tick, LeaveLoop, Places
  <2>2. Alive' \subseteq Alive
    BY <2>1, AliveAtWork, NumberFacts
  <2> QED
    BY <1>1, <1>4, <2>2 DEF Loop, DelayEnds, Tick, LeaveLoop, outside
<1>5. ASSUME NEW l \in Loops, Cancel(l) PROVE CallInv'
  BY <1>1, <1>5 DEF Cancel, loopVars, Alive
<1>6. ASSUME NEW p \in Polls, NewTickerPanics(p) PROVE CallInv'
  <2>1. Alive' = {} /\ \A c \in Callers : caller'[c] = "dead"
    BY <1>6, NumberFacts DEF NewTickerPanics, Alive
  <2> QED
    BY <2>1 DEF CallInv
<1>7. ASSUME NEW p \in Polls, Poll(p), ~NewTickerPanics(p) PROVE CallInv'
  <2>1. PICK place \in Places \ {"unborn"} : Goto(p, place) /\ at[p] \notin {"unborn", "gone"}
    BY <1>7 DEF Poll, BeginPoll, PollSucceeds, PollFails, Report, Places
  <2>2. Alive' \subseteq Alive
    BY <2>1, AliveAtWork
  <2> QED
    BY <1>1, <1>7, <2>2 DEF Poll, BeginPoll, PollSucceeds, PollFails, Report, outside
<1>8. CASE UNCHANGED vars
  BY <1>1, <1>8 DEF vars, Alive
<1> QED
  BY <1>2, <1>3, <1>4, <1>5, <1>6, <1>7, <1>8, OneCalls DEF Next

LEMMA OneLoopThen == TypeOK /\ CallInv => OneLoop
<1> SUFFICES ASSUME TypeOK, CallInv PROVE OneLoop
  OBVIOUS
<1>1. Cardinality(Alive) <= 1
  <2>1. CASE Alive = {}
    BY <2>1, FS_EmptySet
  <2>2. CASE Alive = {stopCh}
    <3>1. Cardinality({stopCh}) = 1
      BY FS_Singleton
    <3> QED
      BY <2>2, <3>1
  <2> QED
    BY <2>1, <2>2 DEF CallInv
<1> QED
  BY <1>1 DEF CallInv, OneLoop

(* However many goroutines call Start and Stop, as long as they take       *)
(* turns there are never two loops polling, and none once Stop has         *)
(* returned (Start, Stop, loop).                                           *)
THEOREM OneLoopInTurns == Spec /\ []TakeTurns => []OneLoop
<1>1. TypeOK /\ CallInv => OneLoop
  BY OneLoopThen
<1>2. Init => CallInv
  BY OneInit
<1>3. TypeOK /\ TakeTurns /\ TakeTurns' /\ CallInv /\ [Next]_vars => CallInv'
  BY OneSteps
<1> QED
  BY <1>1, <1>2, <1>3, TypeCorrect, PTL DEF Spec

(* One goroutine always takes turns with itself: a driver whose Start and  *)
(* Stop are called by one goroutine has one loop, none after Stop.         *)
THEOREM OneLoopAlways == ASSUME NEW CONSTANT c, Callers = {c} PROVE Spec => []OneLoop
<1>1. TakeTurns
  BY DEF TakeTurns
<1> QED
  BY <1>1, OneLoopInTurns, PTL
=============================================================================
