--------------------------- MODULE EndpointBusProofs ---------------------------
(***************************************************************************)
(* Proofs about EndpointBus, for every value of its constants: any limits, *)
(* any number of messages, writes, failures, crashes and restarts, and a   *)
(* clock that moves in any way.                                            *)
(***************************************************************************)
EXTENDS EndpointBus, TLAPS, SequenceTheorems

(* What Append does to a sequence, in the form the steps below need.       *)
LEMMA Appended ==
    ASSUME NEW S, NEW s \in Seq(S), NEW e \in S
    PROVE  /\ Append(s, e) \in Seq(S)
           /\ Len(s) \in Nat
           /\ DOMAIN s = 1 .. Len(s)
           /\ DOMAIN Append(s, e) = 1 .. (Len(s) + 1)
           /\ \A i \in DOMAIN s : i \in DOMAIN Append(s, e) /\ Append(s, e)[i] = s[i] /\ s[i] \in S
           /\ \A i \in DOMAIN Append(s, e) : i \in DOMAIN s \/ i = Len(s) + 1
           /\ Append(s, e)[Len(s) + 1] = e
<1>1. Append(s, e) \in Seq(S) /\ Len(s) \in Nat /\ DOMAIN s = 1 .. Len(s)
  BY AppendProperties, LenProperties
<1>2. DOMAIN Append(s, e) = 1 .. (Len(s) + 1)
  BY AppendProperties, LenProperties
<1>3. \A i \in DOMAIN s : s[i] \in S
  BY ElementOfSeq, <1>1
<1> QED
  BY AppendProperties, <1>1, <1>2, <1>3

(* The actions that hand one message over leave the rest of the bus alone. *)
TakeActions == DispatchRefusal \/ DispatchBatch \/ DispatchControls \/ DispatchEmptyNotice
                 \/ DispatchEmptyNoticeFails
-----------------------------------------------------------------------------
(* Type correctness.                                                       *)

LEMMA TypeInit == Init => TypeOK
<1> SUFFICES ASSUME Init PROVE TypeOK
  OBVIOUS
<1>1. queue \in Seq(Message)
  BY EmptySeq DEF Init, CoreInit
<1>2. handled \in Seq([id : Nat, to : {"batch", "refusal", "controls"}]) /\ delivered \in Seq(Controls)
  BY EmptySeq DEF Init
<1>3. row \in Writes /\ received \subseteq Nat
  BY DEF Init, CoreInit, Writes
<1> QED
  BY <1>1, <1>2, <1>3 DEF Init, TypeOK, CoreTypeOK, Places

LEMMA TypeCore == TypeOK /\ CoreStep => TypeOK'
<1> SUFFICES ASSUME TypeOK, CoreStep PROVE TypeOK'
  OBVIOUS
<1> USE DEF TypeOK, CoreTypeOK
<1>1. CASE WriteControls
  <2> PICK step \in ClockSteps, body \in NoticeBodies :
          /\ row.ts + step >= 0
          /\ row' = [write |-> row.write + 1, ts |-> row.ts + step]
          /\ queue' = Append(queue, [kind |-> "controls", write |-> row.write + 1,
                                     ts |-> row.ts + step, body |-> body])
    BY <1>1 DEF WriteControls
  <2>1. row.write + 1 \in Nat /\ row.ts + step \in Nat /\ body \in BOOLEAN
    BY ClockAssumption, BodiesAssumption DEF Writes
  <2>2. row' \in Writes
    BY <2>1 DEF Writes
  <2>3. [kind |-> "controls", write |-> row.write + 1, ts |-> row.ts + step, body |-> body]
            \in Message
    BY <2>1 DEF Message
  <2>4. queue' \in Seq(Message) /\ DOMAIN queue \subseteq DOMAIN queue'
    BY <2>3, Appended
  <2> QED
    BY <1>1, <2>2, <2>4 DEF CoreStep, WriteControls, busState, history
<1>2. CASE QueueMessage
  <2> PICK kind \in OtherKinds :
          queue' = Append(queue, [kind |-> kind, write |-> 0, ts |-> 0, body |-> TRUE])
    BY <1>2 DEF QueueMessage
  <2>1. [kind |-> kind, write |-> 0, ts |-> 0, body |-> TRUE] \in Message
    BY DEF Message
  <2>2. queue' \in Seq(Message) /\ DOMAIN queue \subseteq DOMAIN queue'
    BY <2>1, Appended
  <2> QED
    BY <1>2, <2>2 DEF CoreStep, QueueMessage, busState, history
<1> QED
  BY <1>1, <1>2 DEF CoreStep

LEMMA QueueFacts ==
    ASSUME TypeOK
    PROVE  /\ Len(queue) \in Nat /\ DOMAIN queue = 1 .. Len(queue)
           /\ \A id \in DOMAIN queue : id \in Nat /\ queue[id] \in Message
  BY LenProperties, ElementOfSeq DEF TypeOK, CoreTypeOK

(* Every dispatch appends one well-typed entry to handled ...              *)
LEMMA TypeTake ==
    ASSUME TypeOK, NEW id, NEW to \in {"batch", "refusal", "controls"}, Take(id, to)
    PROVE  /\ inbox' \subseteq DOMAIN queue' /\ afterID' \in Nat
           /\ handled' \in Seq([id : Nat, to : {"batch", "refusal", "controls"}])
<1>1. id \in Nat
  BY QueueFacts DEF Take, TypeOK
<1>2. [id |-> id, to |-> to] \in [id : Nat, to : {"batch", "refusal", "controls"}]
  BY <1>1
<1> QED
  BY <1>1, <1>2, Appended DEF Take, TypeOK, coreVars

(* ... and every delivery one well-typed Controls.                         *)
LEMMA TypePassOn ==
    ASSUME TypeOK, NEW c \in Controls, PassOn(c)
    PROVE  controlsSeeded' \in BOOLEAN /\ lastControlsTS' \in Nat /\ delivered' \in Seq(Controls)
<1>1. c.ts \in Nat
  BY DEF Controls
<1>2. delivered \in Seq(Controls) /\ lastControlsTS \in Nat /\ controlsSeeded \in BOOLEAN
  BY DEF TypeOK
<1>3. CASE c.ts > 0 /\ c.ts <= lastControlsTS
  BY <1>2, <1>3 DEF PassOn
<1>4. CASE ~(c.ts > 0 /\ c.ts <= lastControlsTS)
  <2>1. lastControlsTS' = (IF c.ts > lastControlsTS THEN c.ts ELSE lastControlsTS)
        /\ controlsSeeded' = TRUE /\ delivered' = Append(delivered, c)
    BY <1>4 DEF PassOn, Deliver
  <2>2. delivered' \in Seq(Controls)
    BY <1>2, <2>1, Appended
  <2> QED
    BY <1>1, <1>2, <2>1, <2>2
<1> QED
  BY <1>3, <1>4

(* What PassOn is called with: a queued notice, or the row.                *)
LEMMA TypePassed ==
    ASSUME TypeOK, NEW id \in DOMAIN queue, NEW b \in BOOLEAN, NEW i \in BOOLEAN,
           NEW v \in BOOLEAN
    PROVE  /\ [write |-> queue[id].write, ts |-> queue[id].ts, initial |-> i, pending |-> b,
                variables |-> v] \in Controls
           /\ [write |-> row.write, ts |-> row.ts, initial |-> i, pending |-> b,
                variables |-> v] \in Controls
<1>1. queue[id] \in Message /\ row \in Writes
  BY QueueFacts DEF TypeOK, CoreTypeOK
<1> QED
  BY <1>1 DEF Message, Writes, Controls

LEMMA TypeDispatch == TypeOK /\ TakeActions => TypeOK'
<1> SUFFICES ASSUME TypeOK, TakeActions PROVE TypeOK'
  OBVIOUS
<1>1. ASSUME NEW id \in inbox, NEW to \in {"batch", "refusal", "controls"}, Take(id, to),
             UNCHANGED failures,
             \/ UNCHANGED <<controlsSeeded, lastControlsTS, delivered>>
             \/ \E c \in Controls : PassOn(c)
      PROVE  TypeOK'
  <2>1. controlsSeeded' \in BOOLEAN /\ lastControlsTS' \in Nat /\ delivered' \in Seq(Controls)
    BY <1>1, TypePassOn DEF TypeOK
  <2> QED
    BY <1>1, <2>1, TypeTake DEF Take, TypeOK, CoreTypeOK, coreVars
<1>2. CASE DispatchRefusal
  BY <1>1, <1>2 DEF DispatchRefusal
<1>3. CASE DispatchBatch
  BY <1>1, <1>3 DEF DispatchBatch
<1>4. CASE DispatchControls
  <2> PICK id \in inbox :
          /\ Take(id, "controls")
          /\ PassOn([write |-> queue[id].write, ts |-> queue[id].ts, initial |-> FALSE,
                     pending |-> FALSE, variables |-> FALSE])
          /\ UNCHANGED failures
    BY <1>4 DEF DispatchControls
  <2>1. [write |-> queue[id].write, ts |-> queue[id].ts, initial |-> FALSE, pending |-> FALSE,
         variables |-> FALSE] \in Controls
    BY TypePassed DEF TypeOK
  <2> QED
    BY <1>1, <2>1
<1>5. CASE DispatchEmptyNotice
  <2> PICK id \in inbox :
          /\ Take(id, "controls")
          /\ PassOn([write |-> row.write, ts |-> row.ts, initial |-> FALSE,
                     pending |-> ControlsPending, variables |-> FALSE])
          /\ UNCHANGED failures
    BY <1>5 DEF DispatchEmptyNotice
  <2>1. ControlsPending \in BOOLEAN
    BY DEF ControlsPending
  <2>2. [write |-> row.write, ts |-> row.ts, initial |-> FALSE, pending |-> ControlsPending,
         variables |-> FALSE] \in Controls
    BY <2>1, TypePassed DEF TypeOK
  <2> QED
    BY <1>1, <2>2
<1>6. CASE DispatchEmptyNoticeFails
  BY <1>6, TypeTake DEF DispatchEmptyNoticeFails, Fails, Take, TypeOK, CoreTypeOK, coreVars
<1> QED
  BY <1>2, <1>3, <1>4, <1>5, <1>6 DEF TakeActions

LEMMA TypeSteps == TypeOK /\ [Next]_vars => TypeOK'
<1> SUFFICES ASSUME TypeOK, [Next]_vars PROVE TypeOK'
  OBVIOUS
<1> USE DEF TypeOK, CoreTypeOK, Places
<1>1. CASE CoreStep
  BY <1>1, TypeCore
<1>2. CASE Start
  <2>1. handled' \in Seq([id : Nat, to : {"batch", "refusal", "controls"}])
        /\ delivered' \in Seq(Controls)
    BY <1>2, EmptySeq DEF Start
  <2>2. hasControls' \in BOOLEAN
    BY <1>2, ChoicesAssumption DEF Start
  <2>3. CoreTypeOK' /\ longPolled' \subseteq Nat /\ failures' \in Nat
    BY <1>2 DEF Start, coreVars
  <2>4. startID' \in Nat /\ starts' \in Nat
    BY <1>2, QueueFacts DEF Start
  <2> QED
    BY <1>2, <2>1, <2>2, <2>3, <2>4 DEF Start, FreshBus
<1>3. CASE Stop
  BY <1>3 DEF Stop, coreVars, history
<1>4. CASE Crash
  BY <1>4 DEF Crash, coreVars, history
<1>5. CASE FastForward
  BY <1>5, QueueFacts DEF FastForward, NewestOf, Ours, Answer, coreVars
<1>6. CASE FastForwardFails
  BY <1>6 DEF FastForwardFails, Fails, coreVars, busState, history
<1>7. CASE LeaveLoop
  BY <1>7 DEF LeaveLoop, coreVars, busState, history
<1>8. CASE SeedDone
  BY <1>8 DEF SeedDone, coreVars, history
<1>9. CASE SeedControls
  <2>1. row \in Writes /\ row.ts \in Nat
    BY DEF Writes
  <2>2. [write |-> row.write, ts |-> row.ts, initial |-> ~ControlsPending,
         pending |-> ControlsPending, variables |-> TRUE] \in Controls
    BY <2>1 DEF Controls, Writes, ControlsPending
  <2>3. delivered' \in Seq(Controls)
    BY <1>9, <2>2, Appended DEF SeedControls, Deliver
  <2> QED
    BY <1>9, <2>1, <2>3 DEF SeedControls, coreVars
<1>10. CASE SeedFails
  BY <1>10 DEF SeedFails, Fails, coreVars, busState, history
<1>11. CASE PollAnswered
  BY <1>11, QueueFacts DEF PollAnswered, Ours, Answer, CountReceived
<1>12. CASE PollReturns
  BY <1>12 DEF PollReturns, coreVars, busState
<1>13. CASE PollFails
  BY <1>13 DEF PollFails, Fails, coreVars, history
<1>14. CASE BackoffEnds
  BY <1>14 DEF BackoffEnds, coreVars, busState, history
<1>15. CASE TakeActions
  BY <1>15, TypeDispatch
<1>16. CASE DispatchEnds
  BY <1>16 DEF DispatchEnds, coreVars, busState, history
<1>17. CASE UNCHANGED vars
  BY <1>17 DEF vars
<1> QED
  BY <1>1, <1>2, <1>3, <1>4, <1>5, <1>6, <1>7, <1>8, <1>9, <1>10, <1>11, <1>12, <1>13, <1>14,
     <1>15, <1>16, <1>17 DEF Next, Loop, TakeActions

(* Every reachable state is well typed: in particular every message the    *)
(* bus holds is one core queued, and its cursor never leaves the naturals. *)
THEOREM TypeCorrect == Spec => []TypeOK
  BY TypeInit, TypeSteps, PTL DEF Spec
-----------------------------------------------------------------------------
(* The cursor.  What is between the fast-forward and the cursor has been   *)
(* handed over, in order; what waits in the inbox is beyond the cursor and *)
(* leaves nothing of ours out up to its newest message.                    *)

CursorInv ==
    /\ pc \notin {"answer", "dispatch"} => inbox = {}
    /\ pc = "peek" => afterID = 0 /\ skippedTo = 0 /\ handled = <<>>
    /\ afterID <= Len(queue)
    /\ \A id \in inbox : afterID < id /\ queue[id].kind # "legacy"
    /\ \A id \in DOMAIN queue, last \in inbox :
          afterID < id /\ id <= last /\ queue[id].kind # "legacy" => id \in inbox
    /\ \A i \in DOMAIN handled : handled[i].id <= afterID
    /\ HandledInOrder
    /\ NoneSkipped

LEMMA CursorInit == Init => CursorInv
  BY DEF Init, CoreInit, CursorInv, HandledInOrder, NoneSkipped

(* Queueing a message leaves every message already queued as it was.       *)
LEMMA QueueGrows ==
    ASSUME TypeOK, CoreStep
    PROVE  /\ Len(queue') = Len(queue) + 1
           /\ DOMAIN queue' = 1 .. (Len(queue) + 1)
           /\ \A id \in DOMAIN queue : queue'[id] = queue[id]
           /\ \A id \in DOMAIN queue' : id \in DOMAIN queue \/ id = Len(queue) + 1
<1>1. TypeOK' /\ \E m : queue' = Append(queue, m)
  BY TypeCore DEF CoreStep, WriteControls, QueueMessage
<1>2. queue \in Seq(Message) /\ Len(queue) \in Nat /\ DOMAIN queue = 1 .. Len(queue)
  BY LenProperties DEF TypeOK, CoreTypeOK
<1>3. PICK m : queue' = Append(queue, m)
  BY <1>1
<1>4. /\ Len(queue') = Len(queue) + 1
      /\ \A id \in 1 .. Len(queue) : queue'[id] = queue[id]
  <2>1. queue \in Seq(Message \cup {m}) /\ m \in Message \cup {m}
    BY <1>2, SeqMonotonic
  <2> QED
    BY <1>3, <2>1, AppendProperties
<1>5. DOMAIN queue' = 1 .. Len(queue')
  BY <1>1, LenProperties DEF TypeOK, CoreTypeOK
<1> QED
  BY <1>2, <1>4, <1>5

LEMMA CursorCore == TypeOK /\ CursorInv /\ CoreStep => CursorInv'
<1> SUFFICES ASSUME TypeOK, CursorInv, CoreStep PROVE CursorInv'
  OBVIOUS
<1>1. UNCHANGED <<pc, afterID, inbox, skippedTo, handled>>
  BY DEF CoreStep, busState, history
<1>2. afterID \in Nat /\ inbox \subseteq DOMAIN queue /\ Len(queue) \in Nat
      /\ DOMAIN queue = 1 .. Len(queue)
  BY QueueFacts DEF TypeOK
<1>3. NoneSkipped'
  BY <1>1, <1>2, QueueGrows DEF CursorInv, NoneSkipped
<1> QED
  BY <1>1, <1>2, <1>3, QueueGrows DEF CursorInv, HandledInOrder

(* The message taken is beyond the cursor and is the last one handed over. *)
LEMMA TakeFacts ==
    ASSUME TypeOK, CursorInv, NEW id \in inbox, NEW to \in {"batch", "refusal", "controls"},
           Take(id, to)
    PROVE  /\ id \in DOMAIN queue /\ id \in Nat /\ afterID \in Nat /\ afterID < id
           /\ id <= Len(queue) /\ Len(queue) \in Nat /\ queue[id].kind # "legacy"
           /\ afterID' = id /\ inbox' = inbox \ {id} /\ pc = "dispatch"
           /\ UNCHANGED <<queue, pc, skippedTo, startID>>
           /\ Len(handled) \in Nat /\ DOMAIN handled = 1 .. Len(handled)
           /\ \A i \in DOMAIN handled : handled'[i] = handled[i] /\ i \in DOMAIN handled'
                                        /\ handled[i].id \in Nat
           /\ \A i \in DOMAIN handled' : i \in DOMAIN handled \/ i = Len(handled) + 1
           /\ Len(handled) + 1 \in DOMAIN handled'
           /\ handled'[Len(handled) + 1].id = id
<1> DEFINE entry == [id |-> id, to |-> to]
           Entries == [id : Nat, to : {"batch", "refusal", "controls"}]
<1>1. /\ id \in DOMAIN queue /\ id \in Nat /\ afterID \in Nat /\ afterID < id
      /\ id <= Len(queue) /\ Len(queue) \in Nat /\ queue[id].kind # "legacy"
  BY QueueFacts DEF TypeOK, CursorInv
<1>2. /\ afterID' = id /\ inbox' = inbox \ {id} /\ pc = "dispatch"
      /\ UNCHANGED <<queue, pc, skippedTo, startID>>
  BY <1>1 DEF Take, coreVars
<1>3. handled \in Seq(Entries) /\ entry \in Entries
  BY <1>1 DEF TypeOK
<1>4. handled' = Append(handled, entry)
  BY DEF Take
<1> HIDE DEF entry, Entries
<1>5. \A i \in DOMAIN handled : handled[i] \in Entries
  BY <1>3, Appended
<1>6. /\ Len(handled) \in Nat /\ DOMAIN handled = 1 .. Len(handled)
      /\ DOMAIN handled' = 1 .. (Len(handled) + 1)
      /\ \A i \in DOMAIN handled : i \in DOMAIN handled' /\ handled'[i] = handled[i]
      /\ handled'[Len(handled) + 1] = entry
  BY <1>3, <1>4, Appended
<1>7. \A i \in DOMAIN handled : handled[i].id \in Nat
  BY <1>5 DEF Entries
<1>8. entry.id = id
  BY DEF entry
<1> QED
  BY <1>1, <1>2, <1>6, <1>7, <1>8

LEMMA CursorTake ==
    ASSUME TypeOK, CursorInv, NEW id \in inbox, NEW to \in {"batch", "refusal", "controls"},
           Take(id, to)
    PROVE  CursorInv'
<1>1. /\ id \in DOMAIN queue /\ id \in Nat /\ afterID \in Nat /\ afterID < id
      /\ id <= Len(queue) /\ Len(queue) \in Nat
  BY TakeFacts
<1>2. afterID' = id /\ inbox' = inbox \ {id} /\ UNCHANGED <<queue, pc, skippedTo>>
  BY TakeFacts
<1>3. /\ Len(handled) \in Nat /\ DOMAIN handled = 1 .. Len(handled)
      /\ \A i \in DOMAIN handled : handled'[i] = handled[i] /\ i \in DOMAIN handled'
                                   /\ handled[i].id \in Nat
      /\ \A i \in DOMAIN handled' : i \in DOMAIN handled \/ i = Len(handled) + 1
      /\ Len(handled) + 1 \in DOMAIN handled'
      /\ handled'[Len(handled) + 1].id = id
  BY TakeFacts
<1>4. \A i \in DOMAIN handled' : handled'[i].id <= afterID'
  BY <1>1, <1>2, <1>3 DEF CursorInv
<1>5. HandledInOrder'
  BY <1>1, <1>3 DEF CursorInv, HandledInOrder
<1>6. NoneSkipped'
  <2> SUFFICES ASSUME NEW m \in DOMAIN queue, pc # "peek", skippedTo < m, m <= id,
                      queue[m].kind # "legacy"
               PROVE  \E i \in DOMAIN handled' : handled'[i].id = m
    BY <1>2 DEF NoneSkipped
  <2>1. m \in Nat
    BY QueueFacts
  <2>2. CASE m <= afterID
    BY <1>3, <2>2 DEF CursorInv, NoneSkipped
  <2>3. CASE afterID < m
    <3>1. m \in inbox
      BY <2>3 DEF CursorInv
    <3>2. m = id
      BY <1>1, <2>1, <3>1 DEF Take
    <3> QED
      BY <1>3, <3>2
  <2> QED
    BY <1>1, <2>1, <2>2, <2>3
<1>7. \A m \in inbox' : id < m
  BY <1>1, <1>2, QueueFacts DEF Take, TypeOK
<1>8. pc = "dispatch"
  BY DEF Take
<1>9. \A m \in DOMAIN queue, last \in inbox' :
          id < m /\ m <= last /\ queue[m].kind # "legacy" => m \in inbox'
  BY <1>1, <1>2, QueueFacts DEF CursorInv, TypeOK
<1> QED
  BY <1>1, <1>2, <1>4, <1>5, <1>6, <1>7, <1>8, <1>9 DEF CursorInv

(* Every dispatch is a Take.                                               *)
LEMMA TakeActionsTake ==
    ASSUME TakeActions
    PROVE  \E id \in inbox, to \in {"batch", "refusal", "controls"} : Take(id, to)
  BY DEF TakeActions, DispatchRefusal, DispatchBatch, DispatchControls, DispatchEmptyNotice,
         DispatchEmptyNoticeFails

LEMMA CursorSteps == TypeOK /\ CursorInv /\ [Next]_vars => CursorInv'
<1> SUFFICES ASSUME TypeOK, CursorInv, [Next]_vars PROVE CursorInv'
  OBVIOUS
<1>0. /\ Len(queue) \in Nat /\ DOMAIN queue = 1 .. Len(queue) /\ DOMAIN queue \subseteq Nat
      /\ afterID \in Nat
  BY QueueFacts DEF TypeOK
<1>1. CASE CoreStep
  BY <1>1, CursorCore
<1>2. CASE Start
  BY <1>0, <1>2 DEF Start, FreshBus, coreVars, CursorInv, HandledInOrder, NoneSkipped
<1>3. CASE Crash
  BY <1>3 DEF Crash, coreVars, history, CursorInv, HandledInOrder, NoneSkipped
<1>4. CASE FastForward
  <2>1. afterID' \in Nat /\ afterID' <= Len(queue) /\ skippedTo' = afterID' /\ afterID <= afterID'
    BY <1>0, <1>4 DEF FastForward, NewestOf, Ours, Answer, CursorInv
  <2>2. handled = <<>> /\ inbox = {} /\ UNCHANGED <<queue, inbox, handled>> /\ pc' = "loop"
    BY <1>4 DEF FastForward, coreVars, CursorInv
  <2>3. NoneSkipped'
    BY <1>0, <2>1, <2>2 DEF NoneSkipped
  <2> QED
    BY <2>1, <2>2, <2>3 DEF CursorInv, HandledInOrder
<1>5. CASE FastForwardFails
  BY <1>0, <1>5 DEF FastForwardFails, coreVars, busState, history, CursorInv, HandledInOrder,
                    NoneSkipped
<1>6. CASE PollAnswered
  <2>1. UNCHANGED <<queue, afterID, skippedTo, handled>> /\ pc = "poll" /\ pc' = "answer"
    BY <1>6 DEF PollAnswered
  <2>2. inbox' = {id \in DOMAIN queue : afterID < id /\ id <= afterID + PollLimit
                                        /\ queue[id].kind # "legacy"}
    BY <1>6 DEF PollAnswered, Ours, Answer
  <2>3. \A id \in DOMAIN queue, last \in inbox' :
            afterID < id /\ id <= last /\ queue[id].kind # "legacy" => id \in inbox'
    BY <1>0, <2>2, LimitsAssumption
  <2> QED
    BY <1>0, <2>1, <2>2, <2>3 DEF CursorInv, HandledInOrder, NoneSkipped
<1>7. CASE PollFails
  BY <1>7 DEF PollFails, coreVars, history, CursorInv, HandledInOrder, NoneSkipped
<1>8. CASE TakeActions
  BY <1>8, TakeActionsTake, CursorTake
<1>9. CASE Stop \/ LeaveLoop \/ SeedDone \/ SeedControls \/ SeedFails \/ PollReturns
           \/ BackoffEnds \/ DispatchEnds \/ UNCHANGED vars
  <2>1. UNCHANGED <<queue, afterID, inbox, skippedTo, handled>>
    BY <1>9 DEF Stop, LeaveLoop, SeedDone, SeedControls, SeedFails, PollReturns, BackoffEnds,
                DispatchEnds, vars, coreVars, busState, history
  <2>2. \/ pc' = pc
        \/ pc # "peek" /\ pc' # "peek" /\ (inbox = {} \/ pc' = "dispatch")
    BY <1>9 DEF Stop, LeaveLoop, SeedDone, SeedControls, SeedFails, PollReturns, BackoffEnds,
                DispatchEnds, vars, CursorInv
  <2> QED
    BY <2>1, <2>2 DEF CursorInv, HandledInOrder, NoneSkipped
<1> QED
  BY <1>1, <1>2, <1>3, <1>4, <1>5, <1>6, <1>7, <1>8, <1>9 DEF Next, Loop, TakeActions

(* In every run each instance hands over each message at most once and in  *)
(* the order core queued them (pollLoop's cursor).                         *)
THEOREM HandledInOrderAlways == Spec => []HandledInOrder
<1>1. Spec => []CursorInv
  BY TypeCorrect, CursorInit, CursorSteps, PTL DEF Spec
<1>2. CursorInv => HandledInOrder
  BY DEF CursorInv
<1> QED
  BY <1>1, <1>2, PTL

(* ... and never leaves one of its own behind the cursor.                  *)
THEOREM NoneSkippedAlways == Spec => []NoneSkipped
<1>1. Spec => []CursorInv
  BY TypeCorrect, CursorInit, CursorSteps, PTL DEF Spec
<1>2. CursorInv => NoneSkipped
  BY DEF CursorInv
<1> QED
  BY <1>1, <1>2, PTL
-----------------------------------------------------------------------------
(* What is not replayed, in a run in which every fast-forward poll gets    *)
(* its answer and finds no more than one page in the queue.                *)

SkipsAll == ~FastForwardFails /\ (FastForward => Len(queue) <= PeekLimit)

SkippedInv ==
    /\ pc \notin {"down", "peek"} =>
          \A id \in DOMAIN queue : id <= startID /\ queue[id].kind # "legacy" => id <= afterID
    /\ startID <= Len(queue)
    /\ NothingReplayed

LEMMA SkippedInit == Init => SkippedInv
<1> SUFFICES ASSUME Init PROVE SkippedInv
  OBVIOUS
<1>1. TypeOK
  BY TypeInit
<1> QED
  BY <1>1, QueueFacts DEF Init, SkippedInv, NothingReplayed

LEMMA SkippedSteps ==
    ASSUME TypeOK, CursorInv, SkippedInv, [Next]_vars, [SkipsAll]_vars
    PROVE  SkippedInv'
<1>1. /\ startID \in Nat /\ afterID \in Nat /\ Len(queue) \in Nat /\ DOMAIN queue = 1 .. Len(queue)
  BY QueueFacts DEF TypeOK
<1>2. CASE CoreStep
  <2>1. UNCHANGED <<pc, afterID, startID, handled>>
    BY <1>2 DEF CoreStep, busState, history
  <2> QED
    BY <1>1, <1>2, <2>1, QueueGrows DEF SkippedInv, NothingReplayed
<1>3. CASE Start
  BY <1>1, <1>3 DEF Start, coreVars, SkippedInv, NothingReplayed
<1>4. CASE FastForward /\ SkipsAll
  <2>1. /\ pc = "peek" /\ UNCHANGED <<queue, startID, handled>> /\ afterID = 0
        /\ Len(queue) <= PeekLimit
    BY <1>4 DEF FastForward, SkipsAll, coreVars, CursorInv
  <2>2. \A id \in DOMAIN queue : id \in Answer(afterID, PeekLimit)
    BY <1>1, <2>1, LimitsAssumption DEF Answer
  <2>3. \A id \in DOMAIN queue : queue[id].kind # "legacy" => id <= afterID'
    BY <1>4, <2>2 DEF FastForward, NewestOf, Ours
  <2> QED
    BY <1>1, <2>1, <2>3 DEF SkippedInv, NothingReplayed
<1>5. CASE FastForwardFails /\ SkipsAll
  BY <1>5 DEF SkipsAll
<1>6. CASE TakeActions
  <2>1. PICK id \in inbox, to \in {"batch", "refusal", "controls"} : Take(id, to)
    BY <1>6, TakeActionsTake
  <2>2. startID < id
    BY <1>1, <2>1, TakeFacts DEF SkippedInv
  <2> QED
    BY <1>1, <2>1, <2>2, TakeFacts DEF SkippedInv, NothingReplayed
<1>7. CASE Stop \/ LeaveLoop \/ Crash \/ SeedDone \/ SeedControls \/ SeedFails \/ PollAnswered
           \/ PollReturns \/ PollFails \/ BackoffEnds \/ DispatchEnds \/ UNCHANGED vars
  <2>1. /\ UNCHANGED <<queue, startID, afterID, handled>>
        /\ pc' \notin {"down", "peek"} => pc \notin {"down", "peek"}
    BY <1>7 DEF Stop, LeaveLoop, Crash, SeedDone, SeedControls, SeedFails, PollAnswered, PollReturns,
                PollFails, BackoffEnds, DispatchEnds, vars, coreVars, busState, history
  <2> QED
    BY <2>1 DEF SkippedInv, NothingReplayed
<1> QED
  BY <1>2, <1>3, <1>4, <1>5, <1>6, <1>7 DEF Next, Loop, TakeActions

(* "Existing queue content is skipped", then: a driver acts on nothing     *)
(* that was queued before it started, as long as no fast-forward poll      *)
(* fails and none finds more than one page of messages (fastForward).      *)
THEOREM NothingReplayedIfSkipped == Spec /\ [][SkipsAll]_vars => []NothingReplayed
<1>1. Spec => []CursorInv
  BY TypeCorrect, CursorInit, CursorSteps, PTL DEF Spec
<1>2. TypeOK /\ CursorInv /\ SkippedInv /\ [Next]_vars /\ [SkipsAll]_vars => SkippedInv'
  BY SkippedSteps
<1>3. SkippedInv => NothingReplayed
  BY DEF SkippedInv
<1> QED
  BY <1>1, <1>2, <1>3, TypeCorrect, SkippedInit, PTL DEF Spec
-----------------------------------------------------------------------------
(* The refinement of OrderedFeed.                                          *)

OursBar   == [id \in DOMAIN queue |-> queue[id].kind # "legacy"]
ReaderBar == CASE pc = "down" -> "none" [] pc = "peek" -> "catching up" [] OTHER -> "reading"
HandedBar == [i \in DOMAIN handled |-> handled[i].id]

(* A sequence one longer than another that it begins with.                 *)
LEMMA OneLonger ==
    ASSUME NEW T, NEW n \in Nat, NEW s \in [1 .. n -> T], NEW t \in [1 .. (n + 1) -> T],
           \A i \in 1 .. n : t[i] = s[i]
    PROVE  t = Append(s, t[n + 1])
<1>1. s \in Seq(T) /\ t \in Seq(T)
  BY SeqDef
<1>2. Len(s) = n /\ Len(t) = n + 1
  BY <1>1, LenProperties
<1>3. t[n + 1] \in T
  OBVIOUS
<1>4. /\ Append(s, t[n + 1]) \in Seq(T) /\ Len(Append(s, t[n + 1])) = n + 1
      /\ \A i \in 1 .. (n + 1) : Append(s, t[n + 1])[i] = t[i]
  BY <1>1, <1>2, <1>3, AppendProperties
<1> QED
  BY <1>1, <1>2, <1>4, SeqEqual

LEMMA FeedInit == Init => Feed!Init
<1> SUFFICES ASSUME Init PROVE Feed!Init
  OBVIOUS
<1>1. OursBar = <<>> /\ HandedBar = <<>> /\ ReaderBar = "none"
  BY DEF Init, CoreInit, OursBar, HandedBar, ReaderBar
<1> QED
  BY <1>1 DEF Init, Feed!Init, OursBar, HandedBar, ReaderBar

(* Core queues a message: the feed gets one more.                          *)
LEMMA FeedCore == ASSUME TypeOK, CoreStep PROVE Feed!Queue
<1>1. Len(queue) \in Nat /\ DOMAIN queue = 1 .. Len(queue)
  BY QueueFacts
<1>2. /\ OursBar \in [1 .. Len(queue) -> BOOLEAN]
      /\ OursBar' \in [1 .. (Len(queue) + 1) -> BOOLEAN]
      /\ \A i \in 1 .. Len(queue) : OursBar'[i] = OursBar[i]
  BY <1>1, QueueGrows DEF OursBar
<1> DEFINE b == OursBar'[Len(queue) + 1]
<1>3. OursBar' = Append(OursBar, b) /\ b \in BOOLEAN
  BY <1>1, <1>2, OneLonger
<1>4. UNCHANGED <<ReaderBar, afterID, HandedBar>>
  BY DEF CoreStep, busState, history, ReaderBar, HandedBar
<1> QED
  BY <1>3, <1>4 DEF Feed!Queue, OursBar, ReaderBar, HandedBar

(* The message taken is the next one of ours after the cursor.             *)
LEMMA FeedTake ==
    ASSUME TypeOK, CursorInv, NEW id \in inbox, NEW to \in {"batch", "refusal", "controls"},
           Take(id, to)
    PROVE  Feed!HandOver
<1>1. /\ id \in DOMAIN queue /\ id \in Nat /\ afterID \in Nat /\ afterID < id
      /\ queue[id].kind # "legacy"
  BY QueueFacts DEF TypeOK, CursorInv
<1>2. /\ afterID' = id /\ UNCHANGED <<queue, pc>> /\ pc = "dispatch"
      /\ handled' = Append(handled, [id |-> id, to |-> to])
  BY <1>1 DEF Take, coreVars
<1>3. \A m \in DOMAIN queue : afterID < m /\ m < id => queue[m].kind = "legacy"
  <2> SUFFICES ASSUME NEW m \in DOMAIN queue, afterID < m, m < id, queue[m].kind # "legacy"
               PROVE  FALSE
    OBVIOUS
  <2>1. m \in Nat /\ m \in inbox
    BY <1>1, QueueFacts DEF CursorInv
  <2> QED
    BY <1>1, <2>1 DEF Take
<1>4. HandedBar' = Append(HandedBar, id)
  <2> DEFINE n == Len(handled)
             Entries == [id : Nat, to : {"batch", "refusal", "controls"}]
             entry == [id |-> id, to |-> to]
  <2>1. handled \in Seq(Entries) /\ entry \in Entries /\ entry.id = id
    BY <1>1 DEF TypeOK
  <2>2. handled' = Append(handled, entry)
    BY <1>2
  <2>3. \A e \in Entries : e.id \in Nat
    OBVIOUS
  <2> HIDE DEF entry, Entries
  <2>4. /\ n \in Nat /\ DOMAIN handled = 1 .. n /\ DOMAIN handled' = 1 .. (n + 1)
        /\ \A i \in 1 .. n : handled'[i] = handled[i] /\ handled[i] \in Entries
        /\ handled'[n + 1] = entry
    BY <2>1, <2>2, Appended
  <2> HIDE DEF n
  <2>5. /\ HandedBar \in [1 .. n -> Nat] /\ HandedBar' \in [1 .. (n + 1) -> Nat]
        /\ \A i \in 1 .. n : HandedBar'[i] = HandedBar[i]
        /\ HandedBar'[n + 1] = id
    BY <1>1, <2>1, <2>3, <2>4 DEF HandedBar
  <2> QED
    BY <2>4, <2>5, OneLonger
<1>5. Feed!NextOfOurs(id) /\ id \in DOMAIN OursBar
  BY <1>1, <1>3 DEF Feed!NextOfOurs, OursBar
<1>6. ReaderBar = "reading" /\ UNCHANGED <<OursBar, ReaderBar>>
  BY <1>2 DEF ReaderBar, OursBar
<1> QED
  BY <1>2, <1>4, <1>5, <1>6 DEF Feed!HandOver, OursBar, ReaderBar, HandedBar

LEMMA FeedSteps ==
    ASSUME TypeOK, CursorInv, [Next]_vars
    PROVE  [Feed!Next]_<<OursBar, ReaderBar, afterID, HandedBar>>
<1> USE DEF OursBar, ReaderBar, HandedBar
<1>1. CASE CoreStep
  BY <1>1, FeedCore DEF Feed!Next
<1>2. CASE Start
  <2>1. HandedBar' = <<>>
    BY <1>2 DEF Start
  <2> QED
    BY <1>2, <2>1 DEF Start, FreshBus, coreVars, Feed!Begin, Feed!Next
<1>3. CASE FastForward
  <2>1. afterID' \in {0} \cup {id \in DOMAIN queue : queue[id].kind # "legacy"}
    BY <1>3 DEF FastForward, NewestOf, Ours, Answer, CursorInv
  <2> QED
    BY <1>3, <2>1 DEF FastForward, coreVars, Feed!PassOver, Feed!Next
<1>4. CASE FastForwardFails
  BY <1>4 DEF FastForwardFails, coreVars, busState, history, CursorInv, Feed!PassOver, Feed!Next
<1>5. CASE TakeActions
  BY <1>5, TakeActionsTake, FeedTake DEF Feed!Next
<1>6. CASE LeaveLoop \/ Crash
  BY <1>6 DEF LeaveLoop, Crash, coreVars, busState, history, Feed!End, Feed!Next
<1>7. CASE Stop \/ SeedDone \/ SeedControls \/ SeedFails \/ PollAnswered \/ PollReturns
           \/ PollFails \/ BackoffEnds \/ DispatchEnds \/ UNCHANGED vars
  <2>1. UNCHANGED <<queue, ReaderBar, afterID, handled>>
    BY <1>7 DEF Stop, SeedDone, SeedControls, SeedFails, PollAnswered, PollReturns, PollFails,
                BackoffEnds, DispatchEnds, vars, coreVars, busState, history
  <2> QED
    BY <2>1
<1> QED
  BY <1>1, <1>2, <1>3, <1>4, <1>5, <1>6, <1>7 DEF Next, Loop, TakeActions

(* To the driver's handlers the bus is an OrderedFeed: each instance is    *)
(* handed its messages one after the other from where it began, whatever   *)
(* polls fail, answers get lost or instances crash (fastForward, pollLoop).*)
THEOREM FeedsAlways == Spec => Feeds
<1>1. Spec => []CursorInv
  BY TypeCorrect, CursorInit, CursorSteps, PTL DEF Spec
<1>2. Init => Feed!Init
  BY FeedInit
<1>3. TypeOK /\ CursorInv /\ [Next]_vars
          => [Feed!Next]_<<OursBar, ReaderBar, afterID, HandedBar>>
  BY FeedSteps
<1> QED
  BY <1>1, <1>2, <1>3, TypeCorrect, PTL
     DEF Spec, Feeds, Feed!Spec, OursBar, ReaderBar, HandedBar
-----------------------------------------------------------------------------
(* What the controls handlers are called with.                             *)

StampInv ==
    /\ ~controlsSeeded => delivered = <<>>
    /\ \A i \in DOMAIN delivered : delivered[i].ts <= lastControlsTS
    /\ DeliveriesNewer
    /\ StartUpComesFirst

PolledInv ==
    /\ received \subseteq longPolled
    /\ \A id \in DOMAIN queue : queue[id].write <= row.write
    /\ \A i \in DOMAIN delivered : delivered[i].write <= row.write
    /\ HistoryWasPolled

DeliveryInv == StampInv /\ PolledInv

LEMMA DeliveryInit == Init => DeliveryInv
  BY DEF Init, CoreInit, DeliveryInv, StampInv, PolledInv, DeliveriesNewer, StartUpComesFirst,
         HistoryWasPolled

LEMMA DeliveredTyped ==
    ASSUME TypeOK
    PROVE  /\ Len(delivered) \in Nat /\ DOMAIN delivered = 1 .. Len(delivered)
           /\ \A i \in DOMAIN delivered :
                 /\ delivered[i].ts \in Nat /\ delivered[i].write \in Nat
                 /\ delivered[i].initial \in BOOLEAN /\ delivered[i].variables \in BOOLEAN
<1>1. \A i \in DOMAIN delivered : delivered[i] \in Controls
  BY ElementOfSeq, LenProperties DEF TypeOK
<1> QED
  BY <1>1, LenProperties DEF TypeOK, Controls

LEMMA OneMoreDelivered ==
    ASSUME TypeOK, NEW c \in Controls, Deliver(c)
    PROVE  /\ DOMAIN delivered' = 1 .. (Len(delivered) + 1)
           /\ \A i \in DOMAIN delivered : delivered'[i] = delivered[i]
           /\ \A i \in DOMAIN delivered' : i \in DOMAIN delivered \/ i = Len(delivered) + 1
           /\ delivered'[Len(delivered) + 1] = c
  BY Appended DEF TypeOK, Deliver

(* A notice or a row read passed on keeps the stamps increasing and is     *)
(* never a start-up delivery.                                              *)
LEMMA PassOnStep ==
    ASSUME TypeOK, StampInv, NEW c \in Controls, c.initial = FALSE, c.variables = FALSE, PassOn(c)
    PROVE  StampInv'
<1>1. c.ts \in Nat /\ lastControlsTS \in Nat
  BY DEF Controls, TypeOK
<1>2. CASE c.ts > 0 /\ c.ts <= lastControlsTS
  BY <1>2 DEF PassOn, StampInv, DeliveriesNewer, StartUpComesFirst
<1>3. CASE ~(c.ts > 0 /\ c.ts <= lastControlsTS)
  <2>1. /\ lastControlsTS' = (IF c.ts > lastControlsTS THEN c.ts ELSE lastControlsTS)
        /\ controlsSeeded' = TRUE /\ Deliver(c)
    BY <1>3 DEF PassOn
  <2>2. lastControlsTS <= lastControlsTS' /\ c.ts <= lastControlsTS' /\ lastControlsTS' \in Nat
    BY <1>1, <2>1
  <2>3. \A i \in DOMAIN delivered' : delivered'[i].ts <= lastControlsTS'
    BY <1>1, <2>1, <2>2, OneMoreDelivered, DeliveredTyped DEF StampInv
  <2>4. c.ts > 0 => lastControlsTS < c.ts
    BY <1>1, <1>3
  <2>5. DeliveriesNewer'
    BY <1>1, <2>1, <2>4, OneMoreDelivered, DeliveredTyped DEF StampInv, DeliveriesNewer
  <2>6. StartUpComesFirst'
    BY <2>1, OneMoreDelivered, DeliveredTyped DEF StampInv, StartUpComesFirst
  <2> QED
    BY <2>1, <2>3, <2>5, <2>6 DEF StampInv
<1> QED
  BY <1>2, <1>3

LEMMA PassOnPolled ==
    ASSUME TypeOK, PolledInv, NEW c \in Controls, c.initial = FALSE, c.write <= row.write,
           PassOn(c), UNCHANGED <<coreVars, longPolled>>
    PROVE  PolledInv'
<1>1. CASE UNCHANGED delivered
  BY <1>1 DEF PolledInv, HistoryWasPolled, coreVars
<1>2. CASE Deliver(c)
  <2>1. UNCHANGED <<queue, row, received, longPolled>>
    BY DEF coreVars
  <2>2. \A i \in DOMAIN delivered' : delivered'[i].write <= row'.write
    BY <1>2, <2>1, OneMoreDelivered DEF PolledInv
  <2>3. HistoryWasPolled'
    BY <1>2, <2>1, OneMoreDelivered DEF PolledInv, HistoryWasPolled
  <2> QED
    BY <2>1, <2>2, <2>3 DEF PolledInv
<1> QED
  BY <1>1, <1>2 DEF PassOn

LEMMA DeliveryDispatch == TypeOK /\ DeliveryInv /\ TakeActions => DeliveryInv'
<1> SUFFICES ASSUME TypeOK, DeliveryInv, TakeActions PROVE DeliveryInv'
  OBVIOUS
<1>1. UNCHANGED <<coreVars, longPolled>> /\ UNCHANGED <<queue, row, received>>
  BY TakeActionsTake DEF Take, coreVars
<1>2. CASE UNCHANGED <<controlsSeeded, lastControlsTS, delivered>>
  BY <1>1, <1>2 DEF DeliveryInv, StampInv, PolledInv, DeliveriesNewer, StartUpComesFirst,
                    HistoryWasPolled
<1>3. CASE DispatchControls
  <2> PICK id \in inbox :
          PassOn([write |-> queue[id].write, ts |-> queue[id].ts, initial |-> FALSE,
                  pending |-> FALSE, variables |-> FALSE])
    BY <1>3 DEF DispatchControls
  <2> DEFINE c == [write |-> queue[id].write, ts |-> queue[id].ts, initial |-> FALSE,
                   pending |-> FALSE, variables |-> FALSE]
  <2>1. id \in DOMAIN queue /\ c \in Controls
    BY TypePassed DEF TypeOK
  <2>2. c.initial = FALSE /\ c.variables = FALSE /\ c.write <= row.write
    BY <2>1 DEF DeliveryInv, PolledInv
  <2>3. PassOn(c)
    OBVIOUS
  <2> HIDE DEF c
  <2> QED
    BY <1>1, <2>1, <2>2, <2>3, PassOnStep, PassOnPolled DEF DeliveryInv
<1>4. CASE DispatchEmptyNotice
  <2> PICK id \in inbox :
          PassOn([write |-> row.write, ts |-> row.ts, initial |-> FALSE,
                  pending |-> ControlsPending, variables |-> FALSE])
    BY <1>4 DEF DispatchEmptyNotice
  <2> DEFINE c == [write |-> row.write, ts |-> row.ts, initial |-> FALSE,
                   pending |-> ControlsPending, variables |-> FALSE]
  <2>1. id \in DOMAIN queue /\ ControlsPending \in BOOLEAN /\ row.write \in Nat
    BY DEF TypeOK, CoreTypeOK, Writes, ControlsPending
  <2>2. c \in Controls
    BY <2>1, TypePassed
  <2>3. c.initial = FALSE /\ c.variables = FALSE /\ c.write <= row.write
    BY <2>1
  <2>4. PassOn(c)
    OBVIOUS
  <2> HIDE DEF c
  <2> QED
    BY <1>1, <2>2, <2>3, <2>4, PassOnStep, PassOnPolled DEF DeliveryInv
<1> QED
  BY <1>2, <1>3, <1>4 DEF TakeActions, DispatchRefusal, DispatchBatch, DispatchEmptyNoticeFails

(* A new notice is of a write no delivery holds yet.                       *)
LEMMA DeliveryCore == TypeOK /\ DeliveryInv /\ CoreStep => DeliveryInv'
<1> SUFFICES ASSUME TypeOK, DeliveryInv, CoreStep PROVE DeliveryInv'
  OBVIOUS
<1>1. UNCHANGED <<controlsSeeded, lastControlsTS, delivered, longPolled, received>>
  BY DEF CoreStep, WriteControls, QueueMessage, busState, history
<1>2. StampInv'
  BY <1>1 DEF DeliveryInv, StampInv, DeliveriesNewer, StartUpComesFirst
<1>3. row.write \in Nat /\ Len(queue) \in Nat /\ DOMAIN queue = 1 .. Len(queue)
      /\ \A id \in DOMAIN queue : queue[id].write \in Nat
  BY QueueFacts DEF TypeOK, CoreTypeOK, Writes, Message
<1>4. row.write <= row'.write /\ row'.write \in Nat
  <2>1. CASE WriteControls
    <3> PICK t : row' = [write |-> row.write + 1, ts |-> t]
      BY <2>1 DEF WriteControls
    <3> QED
      BY <1>3
  <2>2. CASE QueueMessage
    BY <1>3, <2>2 DEF QueueMessage
  <2> QED
    BY <2>1, <2>2 DEF CoreStep
<1>5. LET new == queue'[Len(queue) + 1]
      IN  /\ new.write <= row'.write
          /\ new.kind = "controls" => new.write = row.write + 1
  <2> DEFINE m(w, t, b) == [kind |-> "controls", write |-> w, ts |-> t, body |-> b]
             o(k) == [kind |-> k, write |-> 0, ts |-> 0, body |-> TRUE]
  <2>1. \A e : queue' = Append(queue, e) => queue'[Len(queue) + 1] = e
    <3> SUFFICES ASSUME NEW e, queue' = Append(queue, e) PROVE queue'[Len(queue) + 1] = e
      OBVIOUS
    <3>1. queue \in Seq(Message \cup {e})
      BY SeqMonotonic DEF TypeOK, CoreTypeOK
    <3> QED
      BY <3>1, Appended
  <2>2. CASE WriteControls
    <3> PICK t, b : queue' = Append(queue, m(row.write + 1, t, b))
                    /\ row' = [write |-> row.write + 1, ts |-> t]
      BY <2>2 DEF WriteControls
    <3> QED
      BY <1>3, <2>1
  <2>3. CASE QueueMessage
    <3> PICK k \in OtherKinds : queue' = Append(queue, o(k))
      BY <2>3 DEF QueueMessage
    <3>1. queue'[Len(queue) + 1] = o(k)
      BY <2>1
    <3> QED
      BY <1>3, <1>4, <3>1, KindsAssumption
  <2> QED
    BY <2>2, <2>3 DEF CoreStep
<1>6. \A id \in DOMAIN queue' : queue'[id].write <= row'.write
  BY <1>3, <1>4, <1>5, QueueGrows DEF DeliveryInv, PolledInv
<1>7. \A i \in DOMAIN delivered : delivered[i].write <= row'.write
  BY <1>3, <1>4, DeliveredTyped DEF DeliveryInv, PolledInv
<1>8. HistoryWasPolled'
  BY <1>1, <1>3, <1>5, QueueGrows, DeliveredTyped DEF DeliveryInv, PolledInv, HistoryWasPolled
<1> QED
  BY <1>1, <1>2, <1>6, <1>7, <1>8 DEF DeliveryInv, PolledInv

(* The seed is the first delivery; it is history only when every notice of *)
(* the row's write was received.                                           *)
LEMMA DeliverySeed == TypeOK /\ DeliveryInv /\ SeedControls => DeliveryInv'
<1> SUFFICES ASSUME TypeOK, DeliveryInv, SeedControls PROVE DeliveryInv'
  OBVIOUS
<1> DEFINE c == [write |-> row.write, ts |-> row.ts, initial |-> ~ControlsPending,
                 pending |-> ControlsPending, variables |-> TRUE]
<1>1. c \in Controls /\ row.write \in Nat /\ row.ts \in Nat
  BY DEF TypeOK, CoreTypeOK, Writes, Controls, ControlsPending
<1>2. Deliver(c) /\ lastControlsTS' = row.ts /\ controlsSeeded' = TRUE
      /\ UNCHANGED <<queue, row, received, longPolled>>
  BY DEF SeedControls, coreVars
<1>3. delivered = <<>>
  BY DEF SeedControls, DeliveryInv, StampInv
<1>4. c.write = row.write /\ c.ts = row.ts /\ c.initial = ~ControlsPending
  OBVIOUS
<1> HIDE DEF c
<1>5. DOMAIN delivered' = {1} /\ delivered'[1] = c
  <2>1. Len(delivered) = 0
    BY <1>3
  <2> QED
    BY <1>1, <1>2, <2>1, OneMoreDelivered
<1>6. StampInv'
  BY <1>1, <1>2, <1>4, <1>5 DEF StampInv, DeliveriesNewer, StartUpComesFirst
<1>7. HistoryWasPolled'
  BY <1>2, <1>4, <1>5 DEF DeliveryInv, PolledInv, HistoryWasPolled, ControlsPending
<1> QED
  BY <1>1, <1>2, <1>4, <1>5, <1>6, <1>7 DEF DeliveryInv, PolledInv

LEMMA DeliverySteps == TypeOK /\ DeliveryInv /\ [Next]_vars => DeliveryInv'
<1> SUFFICES ASSUME TypeOK, DeliveryInv, [Next]_vars PROVE DeliveryInv'
  OBVIOUS
<1> USE DEF DeliveryInv, StampInv, PolledInv, DeliveriesNewer, StartUpComesFirst, HistoryWasPolled
<1>1. CASE CoreStep
  BY <1>1, DeliveryCore
<1>2. CASE Start
  BY <1>2 DEF Start, FreshBus, coreVars
<1>3. CASE SeedControls
  BY <1>3, DeliverySeed
<1>4. CASE SeedDone
  BY <1>4 DEF SeedDone, coreVars, history
<1>5. CASE PollAnswered
  BY <1>5 DEF PollAnswered, CountReceived
<1>6. CASE TakeActions
  BY <1>6, DeliveryDispatch
<1>7. CASE FastForward \/ FastForwardFails \/ Stop \/ LeaveLoop \/ SeedFails \/ PollReturns
           \/ PollFails \/ BackoffEnds \/ DispatchEnds \/ Crash \/ UNCHANGED vars
  <2>1. UNCHANGED <<queue, row, received, controlsSeeded, lastControlsTS, delivered, longPolled>>
    BY <1>7 DEF FastForward, FastForwardFails, Stop, LeaveLoop, SeedFails, PollReturns, PollFails,
                BackoffEnds, DispatchEnds, Crash, vars, coreVars, busState, history
  <2> QED
    BY <2>1
<1> QED
  BY <1>1, <1>2, <1>3, <1>4, <1>5, <1>6, <1>7 DEF Next, Loop, TakeActions

LEMMA DeliveryInvariant == Spec => []DeliveryInv
  BY TypeCorrect, DeliveryInit, DeliverySteps, PTL DEF Spec

(* Each delivery of stamped controls is newer than every one before it,    *)
(* whatever core's clock does (dispatchControls, seedControls).            *)
THEOREM DeliveriesNewerAlways == Spec => []DeliveriesNewer
<1>1. DeliveryInv => DeliveriesNewer
  BY DEF DeliveryInv, StampInv
<1> QED
  BY <1>1, DeliveryInvariant, PTL

(* The start-up delivery is never made after a notice was delivered.       *)
THEOREM StartUpComesFirstAlways == Spec => []StartUpComesFirst
<1>1. DeliveryInv => StartUpComesFirst
  BY DEF DeliveryInv, StampInv
<1> QED
  BY <1>1, DeliveryInvariant, PTL

(* A write no long poll was answered with is never delivered as history:   *)
(* the catch-up peek cannot turn a request into a record of the past.      *)
THEOREM HistoryWasPolledAlways == Spec => []HistoryWasPolled
<1>1. DeliveryInv => HistoryWasPolled
  BY DEF DeliveryInv, PolledInv
<1> QED
  BY <1>1, DeliveryInvariant, PTL
-----------------------------------------------------------------------------
(* Where a drained driver stands, in a run in which every write has a      *)
(* newer stamp than the last and the row is read for every notice that     *)
(* comes without values.                                                   *)

NoticeKept == (WriteControls => row.ts < row'.ts) /\ ~DispatchEmptyNoticeFails

(* Notices carry the stamps of the writes, which grow along the queue; the *)
(* newest write's notice is there.                                         *)
NoticeInv ==
    /\ row.write = 0 => row.ts = 0
    /\ row.write > 0 =>
          \E id \in DOMAIN queue : queue[id].kind = "controls" /\ queue[id].ts = row.ts
    /\ \A id \in DOMAIN queue : queue[id].kind = "controls" =>
          /\ queue[id].ts > 0 /\ queue[id].ts <= row.ts
          /\ queue[id].ts = row.ts => queue[id].write = row.write
    /\ \A i, j \in DOMAIN queue :
          i < j /\ queue[i].kind = "controls" /\ queue[j].kind = "controls" =>
              queue[i].ts < queue[j].ts

(* The newest delivery has the newest stamp, and once the start-up         *)
(* delivery is made no notice behind the cursor has a newer one.           *)
NewestInv ==
    /\ pc = "peek" => ~controlsSeeded
    /\ controlsSeeded /\ hasControls => delivered # <<>>
    /\ lastControlsTS <= row.ts
    /\ delivered # <<>> /\ lastControlsTS = row.ts =>
          delivered[Len(delivered)].write = row.write
    /\ controlsSeeded /\ hasControls =>
          \A id \in DOMAIN queue :
              queue[id].kind = "controls" /\ id <= afterID => queue[id].ts <= lastControlsTS

CurrentInv == NoticeInv /\ NewestInv

LEMMA CurrentInit == Init => CurrentInv
  BY DEF Init, CoreInit, CurrentInv, NoticeInv, NewestInv

LEMMA QueueTyped ==
    ASSUME TypeOK
    PROVE  /\ row.write \in Nat /\ row.ts \in Nat /\ lastControlsTS \in Nat /\ afterID \in Nat
           /\ Len(queue) \in Nat /\ DOMAIN queue = 1 .. Len(queue)
           /\ \A id \in DOMAIN queue : queue[id].write \in Nat /\ queue[id].ts \in Nat
  BY QueueFacts DEF TypeOK, CoreTypeOK, Writes, Message

(* The delivery just made is the last one.                                 *)
LEMMA LastDelivered ==
    ASSUME TypeOK, NEW c \in Controls, Deliver(c)
    PROVE  delivered' # <<>> /\ delivered'[Len(delivered')] = c
<1>1. delivered \in Seq(Controls) /\ delivered' = Append(delivered, c)
  BY DEF TypeOK, Deliver
<1>2. Len(delivered') = Len(delivered) + 1 /\ Len(delivered) \in Nat
  BY <1>1, AppendProperties, LenProperties
<1>3. delivered'[Len(delivered')] = c
  BY <1>1, <1>2, AppendProperties
<1> QED
  BY <1>1, <1>2, <1>3, AppendProperties

(* A write has a newer stamp than any before it.                           *)
LEMMA CurrentCore ==
    ASSUME TypeOK, CursorInv, CurrentInv, CoreStep, WriteControls => row.ts < row'.ts
    PROVE  CurrentInv'
<1> USE QueueTyped
<1>1. /\ UNCHANGED <<pc, controlsSeeded, hasControls, lastControlsTS, afterID, delivered>>
      /\ afterID <= Len(queue)
  BY DEF CoreStep, busState, history, CursorInv
<1>2. \A e : queue' = Append(queue, e) => queue'[Len(queue) + 1] = e
  <2> SUFFICES ASSUME NEW e, queue' = Append(queue, e) PROVE queue'[Len(queue) + 1] = e
    OBVIOUS
  <2>1. queue \in Seq(Message \cup {e})
    BY SeqMonotonic DEF TypeOK, CoreTypeOK
  <2> QED
    BY <2>1, Appended
<1>3. CASE WriteControls
  <2> PICK step \in ClockSteps, body \in NoticeBodies :
          /\ row' = [write |-> row.write + 1, ts |-> row.ts + step]
          /\ queue' = Append(queue, [kind |-> "controls", write |-> row.write + 1,
                                     ts |-> row.ts + step, body |-> body])
    BY <1>3 DEF WriteControls
  <2>1. step \in Int /\ step > 0
    BY <1>3, ClockAssumption
  <2> DEFINE t == row.ts + step
  <2>2. t \in Nat /\ row.ts < t /\ row'.ts = t /\ row'.write = row.write + 1
    BY <2>1
  <2>3. LET new == queue'[Len(queue) + 1]
        IN  new.kind = "controls" /\ new.ts = t /\ new.write = row'.write
    BY <1>2, <2>1, <2>2
  <2> HIDE DEF t
  <2>4. NoticeInv'
    BY <2>2, <2>3, QueueGrows DEF CurrentInv, NoticeInv
  <2>5. NewestInv'
    BY <1>1, <2>2, QueueGrows DEF CurrentInv, NewestInv
  <2> QED
    BY <2>4, <2>5 DEF CurrentInv
<1>4. CASE QueueMessage
  <2> PICK kind \in OtherKinds :
          queue' = Append(queue, [kind |-> kind, write |-> 0, ts |-> 0, body |-> TRUE])
    BY <1>4 DEF QueueMessage
  <2>1. queue'[Len(queue) + 1].kind # "controls" /\ row' = row
    BY <1>2, <1>4, KindsAssumption DEF QueueMessage
  <2>2. NoticeInv'
    BY <2>1, QueueGrows DEF CurrentInv, NoticeInv
  <2>3. NewestInv'
    BY <1>1, <2>1, QueueGrows DEF CurrentInv, NewestInv
  <2> QED
    BY <2>2, <2>3 DEF CurrentInv
<1> QED
  BY <1>3, <1>4 DEF CoreStep

(* The message taken is the next one of ours behind the cursor.            *)
LEMMA TakesNext ==
    ASSUME TypeOK, CursorInv, NEW id \in inbox, NEW to, Take(id, to)
    PROVE  /\ id \in DOMAIN queue /\ afterID' = id
           /\ UNCHANGED <<queue, row, received, pc, hasControls>> /\ pc = "dispatch"
           /\ \A m \in DOMAIN queue :
                 queue[m].kind = "controls" /\ m <= id => m = id \/ m <= afterID
<1>1. id \in DOMAIN queue /\ id \in Nat /\ afterID \in Nat /\ afterID < id
  BY QueueFacts DEF TypeOK, CursorInv
<1>2. \A m \in DOMAIN queue : queue[m].kind = "controls" /\ m <= id => m = id \/ m <= afterID
  <2> SUFFICES ASSUME NEW m \in DOMAIN queue, queue[m].kind = "controls", m <= id, ~(m <= afterID)
               PROVE  m = id
    OBVIOUS
  <2>1. m \in Nat /\ m \in inbox
    BY <1>1, QueueFacts DEF CursorInv
  <2> QED
    BY <1>1, <2>1 DEF Take
<1> QED
  BY <1>1, <1>2 DEF Take, coreVars

(* A notice is passed on with its own values or with those of the row.     *)
LEMMA CurrentPassOn ==
    ASSUME TypeOK, CursorInv, CurrentInv, NEW id \in inbox, queue[id].kind = "controls",
           Take(id, "controls"), NEW c \in Controls, PassOn(c),
           queue[id].ts <= c.ts, c.ts <= row.ts, c.ts = row.ts => c.write = row.write
    PROVE  CurrentInv'
<1> USE QueueTyped
<1>1. /\ id \in DOMAIN queue /\ afterID' = id /\ pc = "dispatch"
      /\ UNCHANGED <<queue, row, pc, hasControls>>
      /\ \A m \in DOMAIN queue :
            queue[m].kind = "controls" /\ m <= id => m = id \/ m <= afterID
  BY TakesNext
<1>2. c.ts \in Nat /\ 0 < c.ts
  BY <1>1 DEF Controls, CurrentInv, NoticeInv
<1>3. NoticeInv'
  BY <1>1 DEF CurrentInv, NoticeInv
<1>4. CASE c.ts <= lastControlsTS
  <2>1. UNCHANGED <<controlsSeeded, lastControlsTS, delivered>>
    BY <1>2, <1>4 DEF PassOn
  <2>2. queue[id].ts <= lastControlsTS
    BY <1>1, <1>2, <1>4
  <2> QED
    BY <1>1, <1>3, <2>1, <2>2 DEF CurrentInv, NewestInv
<1>5. CASE lastControlsTS < c.ts
  <2>1. lastControlsTS' = c.ts /\ controlsSeeded' = TRUE /\ Deliver(c)
    BY <1>2, <1>5 DEF PassOn
  <2>2. delivered' # <<>> /\ delivered'[Len(delivered')] = c
    BY <2>1, LastDelivered
  <2>3. \A m \in DOMAIN queue : queue[m].kind = "controls" /\ m <= id => queue[m].ts <= c.ts
    <3> SUFFICES ASSUME NEW m \in DOMAIN queue, queue[m].kind = "controls", m <= id
                 PROVE  queue[m].ts <= c.ts
      OBVIOUS
    <3>1. m = id \/ m < id
      BY <1>1
    <3>2. m < id => queue[m].ts < queue[id].ts
      BY <1>1 DEF CurrentInv, NoticeInv
    <3> QED
      BY <1>1, <1>2, <3>1, <3>2
  <2> QED
    BY <1>1, <1>2, <1>3, <2>1, <2>2, <2>3 DEF CurrentInv, NewestInv
<1> QED
  BY <1>2, <1>4, <1>5

LEMMA CurrentDispatch ==
    ASSUME TypeOK, CursorInv, StampInv, CurrentInv, TakeActions, ~DispatchEmptyNoticeFails
    PROVE  CurrentInv'
<1> USE QueueTyped
<1>1. ASSUME NEW id \in inbox, NEW to, Take(id, to), hasControls => queue[id].kind # "controls",
             UNCHANGED <<controlsSeeded, lastControlsTS, delivered>>
      PROVE  CurrentInv'
  BY <1>1, TakesNext DEF CurrentInv, NoticeInv, NewestInv
<1>2. CASE DispatchRefusal
  BY <1>1, <1>2 DEF DispatchRefusal
<1>3. CASE DispatchBatch
  BY <1>1, <1>3 DEF DispatchBatch
<1>4. CASE DispatchControls
  <2> PICK id \in inbox :
          /\ queue[id].kind = "controls" /\ hasControls
          /\ Take(id, "controls")
          /\ PassOn([write |-> queue[id].write, ts |-> queue[id].ts, initial |-> FALSE,
                     pending |-> FALSE, variables |-> FALSE])
    BY <1>4 DEF DispatchControls
  <2> DEFINE c == [write |-> queue[id].write, ts |-> queue[id].ts, initial |-> FALSE,
                   pending |-> FALSE, variables |-> FALSE]
  <2>1. c \in Controls /\ c.ts = queue[id].ts /\ c.write = queue[id].write /\ PassOn(c)
    BY TakesNext, TypePassed
  <2> HIDE DEF c
  <2>2. queue[id].ts <= c.ts /\ c.ts <= row.ts /\ (c.ts = row.ts => c.write = row.write)
    <3>1. id \in DOMAIN queue
      BY TakesNext
    <3>2. queue[id].ts \in Nat
      BY <3>1
    <3> QED
      BY <2>1, <3>1, <3>2 DEF CurrentInv, NoticeInv
  <2> QED
    BY <2>1, <2>2, CurrentPassOn
<1>5. CASE DispatchEmptyNotice
  <2> PICK id \in inbox :
          /\ queue[id].kind = "controls" /\ hasControls
          /\ Take(id, "controls")
          /\ PassOn([write |-> row.write, ts |-> row.ts, initial |-> FALSE,
                     pending |-> ControlsPending, variables |-> FALSE])
    BY <1>5 DEF DispatchEmptyNotice
  <2> DEFINE c == [write |-> row.write, ts |-> row.ts, initial |-> FALSE,
                   pending |-> ControlsPending, variables |-> FALSE]
  <2>1. c \in Controls /\ c.ts = row.ts /\ c.write = row.write /\ PassOn(c)
    BY DEF Controls, ControlsPending
  <2> HIDE DEF c
  <2>2. queue[id].ts <= c.ts
    BY <2>1, TakesNext DEF CurrentInv, NoticeInv
  <2> QED
    BY <2>1, <2>2, CurrentPassOn
<1> QED
  BY <1>2, <1>3, <1>4, <1>5 DEF TakeActions

LEMMA CurrentSeed == ASSUME TypeOK, CurrentInv, SeedControls PROVE CurrentInv'
<1> USE QueueTyped
<1> DEFINE c == [write |-> row.write, ts |-> row.ts, initial |-> ~ControlsPending,
                 pending |-> ControlsPending, variables |-> TRUE]
<1>1. c \in Controls /\ c.write = row.write /\ Deliver(c)
  BY DEF SeedControls, Controls, ControlsPending
<1> HIDE DEF c
<1>2. delivered' # <<>> /\ delivered'[Len(delivered')].write = row.write
  BY <1>1, LastDelivered
<1>3. /\ UNCHANGED <<queue, row, hasControls, afterID>>
      /\ lastControlsTS' = row.ts /\ pc' = "poll"
  BY DEF SeedControls, coreVars
<1> QED
  BY <1>2, <1>3 DEF CurrentInv, NoticeInv, NewestInv

LEMMA CurrentSteps ==
    ASSUME TypeOK, CursorInv, DeliveryInv, CurrentInv, [Next]_vars, [NoticeKept]_vars
    PROVE  CurrentInv'
<1>1. CASE NoticeKept /\ CoreStep
  BY <1>1, CurrentCore DEF NoticeKept
<1>2. CASE Start
  BY <1>2, QueueTyped DEF Start, FreshBus, coreVars, CurrentInv, NoticeInv, NewestInv
<1>3. CASE FastForward
  BY <1>3 DEF FastForward, coreVars, CurrentInv, NoticeInv, NewestInv
<1>4. CASE SeedControls
  BY <1>4, CurrentSeed
<1>5. CASE NoticeKept /\ TakeActions
  BY <1>5, CurrentDispatch DEF DeliveryInv, NoticeKept
<1>6. CASE SeedDone
  BY <1>6 DEF SeedDone, coreVars, history, CurrentInv, NoticeInv, NewestInv
<1>7. CASE FastForwardFails \/ Stop \/ LeaveLoop \/ SeedFails \/ PollAnswered \/ PollReturns
           \/ PollFails \/ BackoffEnds \/ DispatchEnds \/ Crash \/ UNCHANGED vars
  <2>1. /\ UNCHANGED <<queue, row, controlsSeeded, hasControls, lastControlsTS, afterID, delivered>>
        /\ pc' = "peek" => pc = "peek"
    BY <1>7 DEF FastForwardFails, Stop, LeaveLoop, SeedFails, PollAnswered, PollReturns, PollFails,
                BackoffEnds, DispatchEnds, Crash, vars, coreVars, busState, history
  <2> QED
    BY <2>1 DEF CurrentInv, NoticeInv, NewestInv
<1> QED
  BY <1>1, <1>2, <1>3, <1>4, <1>5, <1>6, <1>7 DEF Next, Loop, TakeActions

(* As long as every write is stamped newer than the last and no row read   *)
(* for a notice without values fails, a driver that has drained its queue  *)
(* holds the values of the device row, whatever polls and start-up reads   *)
(* fail and however often it crashes and restarts (dispatchControls,       *)
(* seedControls).                                                          *)
THEOREM DrainedIsCurrentIfKept == Spec /\ [][NoticeKept]_vars => []DrainedIsCurrent
<1>1. Spec => []CursorInv
  BY TypeCorrect, CursorInit, CursorSteps, PTL DEF Spec
<1>2. TypeOK /\ CursorInv /\ DeliveryInv /\ CurrentInv /\ [Next]_vars /\ [NoticeKept]_vars => CurrentInv'
  BY CurrentSteps
<1>3. Spec /\ [][NoticeKept]_vars => []CurrentInv
  BY <1>1, <1>2, TypeCorrect, DeliveryInvariant, CurrentInit, PTL DEF Spec
<1>4. TypeOK /\ CurrentInv => DrainedIsCurrent
  BY QueueTyped DEF CurrentInv, NoticeInv, NewestInv, DrainedIsCurrent, Drained, Current
<1> QED
  BY <1>3, <1>4, TypeCorrect, PTL

(* Such are all runs when core's clock moves forward with every write and  *)
(* its notices carry their values.                                         *)
StrictNotices == (\A step \in ClockSteps : step > 0) /\ NoticeBodies \subseteq {TRUE}

BodiesInv == \A id \in DOMAIN queue : queue[id].body

LEMMA BodiesSteps ==
    ASSUME StrictNotices, TypeOK, BodiesInv, [Next]_vars
    PROVE  BodiesInv' /\ [NoticeKept]_vars
<1> USE QueueTyped
<1>1. WriteControls => row.ts < row'.ts
  <2> SUFFICES ASSUME WriteControls PROVE row.ts < row'.ts
    OBVIOUS
  <2>1. PICK step \in ClockSteps : row' = [write |-> row.write + 1, ts |-> row.ts + step]
    BY DEF WriteControls
  <2>2. step \in Int /\ step > 0
    BY ClockAssumption DEF StrictNotices
  <2> QED
    BY <2>1, <2>2
<1>2. ~DispatchEmptyNoticeFails
  BY DEF DispatchEmptyNoticeFails, BodiesInv, TypeOK
<1>3. BodiesInv'
  <2>1. CASE WriteControls \/ QueueMessage
    <3>1. PICK e : queue' = Append(queue, e) /\ e.body
      <4>1. CASE WriteControls
        <5>1. PICK step \in ClockSteps, body \in NoticeBodies :
                 queue' = Append(queue, [kind |-> "controls", write |-> row.write + 1,
                                         ts |-> row.ts + step, body |-> body])
          BY <4>1 DEF WriteControls
        <5>2. body = TRUE
          BY DEF StrictNotices
        <5> DEFINE e == [kind |-> "controls", write |-> row.write + 1, ts |-> row.ts + step,
                         body |-> body]
        <5>3. queue' = Append(queue, e) /\ e.body
          BY <5>1, <5>2
        <5> HIDE DEF e
        <5> QED
          BY <5>3
      <4>2. CASE QueueMessage
        BY <4>2 DEF QueueMessage
      <4> QED
        BY <2>1, <4>1, <4>2
    <3>2. queue \in Seq(Message \cup {e})
      BY SeqMonotonic DEF TypeOK, CoreTypeOK
    <3>3. \A id \in DOMAIN queue' : (id \in DOMAIN queue /\ queue'[id] = queue[id]) \/ queue'[id] = e
      BY <3>1, <3>2, Appended
    <3> QED
      BY <3>1, <3>3 DEF BodiesInv
  <2>2. CASE ~(WriteControls \/ QueueMessage)
    <3>1. UNCHANGED queue
      BY <2>2 DEF Next, CoreStep, Loop, Start, Stop, Crash, FastForward, FastForwardFails, LeaveLoop, SeedDone,
                  SeedControls, SeedFails, PollAnswered, PollReturns, PollFails, BackoffEnds,
                  DispatchRefusal, DispatchBatch, DispatchControls, DispatchEmptyNotice,
                  DispatchEmptyNoticeFails, DispatchEnds, Take, vars, coreVars
    <3> QED
      BY <3>1 DEF BodiesInv
  <2> QED
    BY <2>1, <2>2
<1> QED
  BY <1>1, <1>2, <1>3 DEF NoticeKept

THEOREM DrainedIsCurrentAlways == ASSUME StrictNotices PROVE Spec => []DrainedIsCurrent
<1>1. Init => BodiesInv
  BY DEF Init, CoreInit, BodiesInv
<1>2. TypeOK /\ BodiesInv /\ [Next]_vars => BodiesInv' /\ [NoticeKept]_vars
  BY BodiesSteps
<1> QED
  BY <1>1, <1>2, TypeCorrect, DrainedIsCurrentIfKept, PTL DEF Spec
=============================================================================
