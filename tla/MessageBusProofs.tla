-------------------------- MODULE MessageBusProofs --------------------------
(***************************************************************************)
(* Proofs about messages with acknowledgment, for any drivers, calls and   *)
(* correlation ids, and however many requests fail and drivers restart.    *)
(***************************************************************************)
EXTENDS MessageBus, TLAPS, SequenceTheorems

(* Type correctness.                                                       *)

(* While a driver dispatches there is a message to dispatch.               *)
TypeInv ==
    /\ TypeOK
    /\ envelope \in [Calls -> Envelope \cup {NoCall}]
    /\ \A d \in Drivers :
          /\ polled[d] <= Len(queue[d])
          /\ loop[d] = "dispatch" => afterID[d] < polled[d]

(* A message m goes to the drivers of G.                                   *)
Mailed(m, G) == queue' = [d \in Drivers |-> IF d \in G THEN Append(queue[d], m) ELSE queue[d]]

LEMMA MailedTo ==
    ASSUME TypeOK, NEW m \in Message, NEW G \in SUBSET Drivers, Mailed(m, G)
    PROVE  /\ queue' \in [Drivers -> Seq(Message)]
           /\ \A d \in Drivers :
                 /\ Len(queue[d]) <= Len(queue'[d])
                 /\ \A i \in 1..Len(queue'[d]) :
                       \/ i \in 1..Len(queue[d]) /\ queue'[d][i] = queue[d][i]
                       \/ d \in G /\ queue'[d][i] = m
<1>1. ASSUME NEW d \in Drivers
      PROVE  /\ queue'[d] \in Seq(Message) /\ Len(queue[d]) <= Len(queue'[d])
             /\ \A i \in 1..Len(queue'[d]) :
                   \/ i \in 1..Len(queue[d]) /\ queue'[d][i] = queue[d][i]
                   \/ d \in G /\ queue'[d][i] = m
  <2>1. queue[d] \in Seq(Message) /\ Len(queue[d]) \in Nat
    BY LenProperties DEF TypeOK
  <2>2. CASE d \in G
    <3>1. queue'[d] = Append(queue[d], m)
      BY <2>2 DEF Mailed
    <3> QED
      BY <2>1, <2>2, <3>1, AppendProperties
  <2>3. CASE d \notin G
    BY <2>1, <2>3 DEF Mailed
  <2> QED
    BY <2>2, <2>3
<1> QED
  BY <1>1 DEF Mailed

LEMMA QueuedMails ==
    ASSUME TypeOK, NEW to \in Drivers, NEW m, Queued(to, m)
    PROVE  Mailed(m, {to})
  BY DEF TypeOK, Queued, Mailed

LEMMA NextIsIdle == ASSUME NEW c \in Calls, IsNext(c) PROVE state[c] = "idle"
  BY DEF IsNext

LEMMA RequestIsMessage ==
    ASSUME TypeInv, NEW c \in Calls, state[c] # "idle"
    PROVE  Request(c) \in Message /\ envelope[c] \in Envelope
  BY DEF TypeInv, TypeOK, Request, Message, Envelope

(* The message being dispatched.                                           *)
LEMMA NextIsQueued ==
    ASSUME TypeInv, NEW d \in Drivers, loop[d] = "dispatch"
    PROVE  /\ afterID[d] \in Nat /\ polled[d] \in Nat /\ afterID[d] + 1 <= polled[d]
           /\ afterID[d] + 1 \in 1..Len(queue[d]) /\ NextMessage(d) \in Message
<1>1. queue[d] \in Seq(Message) /\ Len(queue[d]) \in Nat /\ afterID[d] \in Nat /\ polled[d] \in Nat
  BY LenProperties DEF TypeInv, TypeOK
<1>2. afterID[d] + 1 \in 1..Len(queue[d])
  BY <1>1 DEF TypeInv
<1> QED
  BY <1>1, <1>2, ElementOfSeq DEF TypeInv, NextMessage

LEMMA TypeInit == Init => TypeInv
<1> SUFFICES ASSUME Init PROVE TypeInv
  OBVIOUS
<1>1. <<>> \in Seq(Message) /\ Len(<<>>) = 0
  BY EmptySeq
<1> QED
  BY <1>1 DEF Init, TypeInv, TypeOK, Underway, Returned, Replies

(* A step of a caller.                                                     *)
LEMMA TypeSend ==
    ASSUME TypeInv, NEW c \in Calls, NEW from \in Drivers, NEW group \in SUBSET Drivers,
           Send(c, from, group)
    PROVE  TypeInv'
<1>1. PICK corr \in CorrIDs :
          LET m == [type |-> "request", source |-> from, corr |-> corr, call |-> c] IN
          /\ envelope' = [envelope EXCEPT ![c] = [source |-> from, group |-> group, corr |-> corr,
                                                  requireAck |-> FALSE]]
          /\ \/ Mailed(m, group) /\ Goto(c, "sent") /\ UNCHANGED faults
             \/ Fault /\ Goto(c, "failed") /\ UNCHANGED queue
  BY DEF Send, Mailed
<1> DEFINE m == [type |-> "request", source |-> from, corr |-> corr, call |-> c]
           e == [source |-> from, group |-> group, corr |-> corr, requireAck |-> FALSE]
<1>2. m \in Message /\ e \in Envelope /\ envelope' = [envelope EXCEPT ![c] = e]
  BY <1>1 DEF Message, Envelope
<1>3. queue' \in [Drivers -> Seq(Message)] /\ \A d \in Drivers : Len(queue[d]) <= Len(queue'[d])
  <2>1. CASE Mailed(m, group)
    BY <1>2, <2>1, MailedTo DEF TypeInv
  <2>2. CASE UNCHANGED queue
    BY <2>2, LenProperties DEF TypeInv, TypeOK
  <2> QED
    BY <1>1, <2>1, <2>2
<1> HIDE DEF e, m
<1>4. \A d \in Drivers : polled[d] <= Len(queue'[d])
  BY <1>3, LenProperties DEF TypeInv, TypeOK
<1>5. state' \in [Calls -> {"idle", "dead"} \cup Underway \cup Returned] /\ faults' \in Nat
      /\ envelope' \in [Calls -> Envelope \cup {NoCall}] /\ envelope'[c] = e
      /\ \A x \in Calls \ {c} : state'[x] = state[x] /\ envelope'[x] = envelope[x]
  <2>1. (Goto(c, "sent") \/ Goto(c, "failed")) /\ (UNCHANGED faults \/ Fault)
    BY <1>1
  <2>2. state' \in [Calls -> {"idle", "dead"} \cup Underway \cup Returned]
        /\ \A x \in Calls \ {c} : state'[x] = state[x]
    BY <2>1 DEF TypeInv, TypeOK, Goto, Returned
  <2>3. faults' \in Nat
    BY <2>1 DEF TypeInv, TypeOK, Fault
  <2> QED
    BY <1>2, <2>2, <2>3 DEF TypeInv
<1>6. UNCHANGED <<afterID, polled, loop, taken, replies, pendingAcks, resultCh, outcomes, answered>>
  BY DEF Send, observed
<1> QED
  BY <1>2, <1>3, <1>4, <1>5, <1>6 DEF TypeInv, TypeOK

LEMMA TypeSendWithAck ==
    ASSUME TypeInv, NEW c \in Calls, NEW from \in Drivers, NEW to \in Drivers, SendWithAck(c, from, to)
    PROVE  TypeInv'
<1>1. PICK corr \in CorrIDs :
          /\ envelope' = [envelope EXCEPT ![c] = [source |-> from, group |-> {to}, corr |-> corr,
                                                  requireAck |-> TRUE]]
          /\ Register(from, corr, c)
  BY DEF SendWithAck
<1> DEFINE e == [source |-> from, group |-> {to}, corr |-> corr, requireAck |-> TRUE]
<1>2. e \in Envelope /\ envelope' = [envelope EXCEPT ![c] = e]
  BY <1>1 DEF Envelope
<1> HIDE DEF e
<1>3. state' \in [Calls -> {"idle", "dead"} \cup Underway \cup Returned]
      /\ envelope' \in [Calls -> Envelope \cup {NoCall}] /\ envelope'[c] = e
      /\ \A x \in Calls \ {c} : state'[x] = state[x] /\ envelope'[x] = envelope[x]
  BY <1>2 DEF SendWithAck, TypeInv, TypeOK, Goto, Underway
<1>4. pendingAcks' \in [Drivers -> [CorrIDs -> Calls \cup {NoCall}]]
  BY <1>1 DEF Register, TypeInv, TypeOK
<1>5. UNCHANGED <<queue, afterID, polled, loop, taken, replies, resultCh, faults, outcomes, answered>>
  BY DEF SendWithAck, observed
<1> QED
  BY <1>2, <1>3, <1>4, <1>5 DEF TypeInv, TypeOK

LEMMA ForgetTable ==
    ASSUME TypeInv, NEW c \in Calls, state[c] # "idle", Forget(c)
    PROVE  pendingAcks' \in [Drivers -> [CorrIDs -> Calls \cup {NoCall}]]
<1>1. envelope[c].source \in Drivers /\ envelope[c].corr \in CorrIDs
  BY RequestIsMessage DEF Envelope
<1> QED
  BY <1>1 DEF Forget, Register, TypeInv, TypeOK

LEMMA TypeReturn == ASSUME TypeInv, NEW c \in Calls, Return(c) PROVE TypeInv'
<1>1. CASE PublishReachesCore(c)
  <2>1. PICK to \in envelope[c].group : Queued(to, Request(c))
    BY <1>1 DEF PublishReachesCore
  <2>2. to \in Drivers /\ Request(c) \in Message
    BY <1>1, RequestIsMessage DEF PublishReachesCore, Envelope
  <2>3. queue' \in [Drivers -> Seq(Message)] /\ \A d \in Drivers : Len(queue[d]) <= Len(queue'[d])
    BY <2>1, <2>2, QueuedMails, MailedTo DEF TypeInv
  <2>4. \A d \in Drivers : polled[d] <= Len(queue'[d])
    BY <2>3, LenProperties DEF TypeInv, TypeOK
  <2> QED
    BY <1>1, <2>3, <2>4 DEF PublishReachesCore, Goto, observed, TypeInv, TypeOK, Underway
<1>2. CASE PublishReturns(c)
  BY <1>2 DEF PublishReturns, Goto, busVars, observed, TypeInv, TypeOK, Underway
<1>3. CASE PublishFails(c) \/ GiveUp(c)
  <2>1. pendingAcks' \in [Drivers -> [CorrIDs -> Calls \cup {NoCall}]]
    BY <1>3, ForgetTable DEF PublishFails, GiveUp
  <2>2. /\ state[c] # "idle" /\ (Goto(c, "failed") \/ Goto(c, "gaveUp"))
        /\ (UNCHANGED faults \/ Fault)
    BY <1>3 DEF PublishFails, GiveUp
  <2>4. /\ state' \in [Calls -> {"idle", "dead"} \cup Underway \cup Returned]
        /\ \A x \in Calls : state'[x] # "idle" => state[x] # "idle"
    BY <2>2 DEF Goto, TypeInv, TypeOK, Returned
  <2>5. faults' \in Nat
    BY <2>2 DEF Fault, TypeInv, TypeOK
  <2>3. UNCHANGED <<queue, afterID, polled, loop, taken, replies, envelope, resultCh, outcomes, answered>>
    BY <1>3 DEF PublishFails, GiveUp, observed
  <2> QED
    BY <2>1, <2>3, <2>4, <2>5 DEF TypeInv, TypeOK
<1>4. CASE ReceiveResult(c)
  BY <1>4 DEF ReceiveResult, Goto, busVars, observed, TypeInv, TypeOK, Replies, Returned
<1> QED
  BY <1>1, <1>2, <1>3, <1>4 DEF Return

(* A step of the poll loop.                                                *)
LEMMA LoopPlace ==
    ASSUME TypeInv, NEW d \in Drivers, LoopOn(d), afterID' \in [Drivers -> Nat], UNCHANGED polled,
           afterID'[d] <= polled[d]
    PROVE  /\ loop' \in [Drivers -> {"poll", "dispatch", "resolve"}] /\ loop'[d] # "resolve"
           /\ \A x \in Drivers \ {d} : loop'[x] = loop[x]
           /\ loop'[d] = "dispatch" => afterID'[d] < polled'[d]
  BY DEF LoopOn, TypeInv, TypeOK

LEMMA Advances ==
    ASSUME TypeInv, NEW d \in Drivers, Advance(d)
    PROVE  /\ afterID' \in [Drivers -> Nat] /\ afterID'[d] = afterID[d] + 1
           /\ afterID'[d] <= polled[d] /\ \A x \in Drivers \ {d} : afterID'[x] = afterID[x]
  BY NextIsQueued DEF Advance, TypeInv, TypeOK

LEMMA AnswersCalls ==
    ASSUME TypeInv, NEW m \in Message PROVE Answers(m) \subseteq Calls
  BY DEF Answers, Message, TypeInv, TypeOK

(* A message is looked at and nothing but the cursor, the replies to send  *)
(* and what the runs observe changes.                                      *)
LEMMA TypeLookedAt ==
    ASSUME TypeInv, NEW d \in Drivers, Advance(d), LoopOn(d),
           UNCHANGED <<queue, polled, taken, pendingAcks, callVars, faults>>,
           replies' \in [Drivers -> SUBSET Reply], outcomes' \in [Calls -> SUBSET Replies],
           answered' \subseteq Calls
    PROVE  TypeInv'
<1>1. /\ afterID' \in [Drivers -> Nat] /\ afterID'[d] <= polled[d]
      /\ \A x \in Drivers \ {d} : afterID'[x] = afterID[x]
  BY Advances
<1>2. /\ loop' \in [Drivers -> {"poll", "dispatch", "resolve"}] /\ loop'[d] # "resolve"
      /\ \A x \in Drivers \ {d} : loop'[x] = loop[x]
      /\ loop'[d] = "dispatch" => afterID'[d] < polled'[d]
  BY <1>1, LoopPlace
<1> QED
  BY <1>1, <1>2 DEF TypeInv, TypeOK, callVars

LEMMA TypeIgnore == ASSUME TypeInv, NEW d \in Drivers, Ignore(d), answered' \subseteq Calls PROVE TypeInv'
<1>1. replies' \in [Drivers -> SUBSET Reply] /\ outcomes' \in [Calls -> SUBSET Replies]
  BY DEF Ignore, TypeInv, TypeOK
<1> QED
  BY <1>1, TypeLookedAt DEF Ignore

LEMMA TypeDispatch == ASSUME TypeInv, NEW d \in Drivers, DispatchRequest(d) PROVE TypeInv'
<1> DEFINE m == NextMessage(d)
<1>1. m \in Message
  BY NextIsQueued DEF DispatchRequest
<1>2. PICK outcome \in Replies :
          /\ outcomes' = [outcomes EXCEPT ![m.call] = @ \cup {outcome}]
          /\ replies' = IF envelope[m.call].requireAck
                        THEN [replies EXCEPT ![d] = @ \cup
                                {[type |-> outcome, to |-> m.source, corr |-> m.corr, call |-> m.call]}]
                        ELSE replies
  BY DEF DispatchRequest
<1>3. [type |-> outcome, to |-> m.source, corr |-> m.corr, call |-> m.call] \in Reply /\ m.call \in Calls
  BY <1>1 DEF Message, Reply
<1> HIDE DEF m
<1>4. replies' \in [Drivers -> SUBSET Reply] /\ outcomes' \in [Calls -> SUBSET Replies]
  BY <1>2, <1>3 DEF TypeInv, TypeOK
<1> QED
  BY <1>4, TypeLookedAt DEF DispatchRequest, TypeInv, TypeOK

LEMMA TypeTake == ASSUME TypeInv, NEW d \in Drivers, TakePending(d) PROVE TypeInv'
<1> DEFINE m == NextMessage(d)
<1>1. m \in Message /\ m.corr \in CorrIDs /\ m.type \in Replies
  BY NextIsQueued DEF TakePending, Message
<1>2. pendingAcks[d][m.corr] \in Calls
  BY <1>1 DEF TakePending, TypeInv, TypeOK
<1>3. taken' \in [Drivers -> (Calls \cup {NoCall}) \X (Replies \cup {"none"})]
      /\ taken'[d] \in Calls \X Replies
      /\ \A x \in Drivers \ {d} : taken'[x] = taken[x]
  BY <1>1, <1>2 DEF TakePending, TypeInv, TypeOK
<1>4. pendingAcks' \in [Drivers -> [CorrIDs -> Calls \cup {NoCall}]]
  BY <1>1 DEF TakePending, Register, TypeInv, TypeOK
<1>5. answered' \subseteq Calls
  BY <1>1, AnswersCalls DEF TakePending
<1> HIDE DEF m
<1>6. /\ afterID' \in [Drivers -> Nat] /\ \A x \in Drivers \ {d} : afterID'[x] = afterID[x]
      /\ loop' = [loop EXCEPT ![d] = "resolve"]
  BY Advances DEF TakePending
<1> QED
  BY <1>3, <1>4, <1>5, <1>6 DEF TakePending, callVars, TypeInv, TypeOK

LEMMA TypeResolve == ASSUME TypeInv, NEW d \in Drivers, Resolve(d) PROVE TypeInv'
<1>1. taken[d] \in Calls \X Replies
  BY DEF Resolve, TypeInv, TypeOK
<1>2. resultCh' \in [Calls -> Replies \cup {"empty"}]
  BY <1>1 DEF Resolve, TypeInv, TypeOK
<1>3. taken' \in [Drivers -> (Calls \cup {NoCall}) \X (Replies \cup {"none"})]
      /\ \A x \in Drivers \ {d} : taken'[x] = taken[x]
  BY DEF Resolve, TypeInv, TypeOK
<1>4. /\ loop' \in [Drivers -> {"poll", "dispatch", "resolve"}] /\ loop'[d] # "resolve"
      /\ \A x \in Drivers \ {d} : loop'[x] = loop[x]
      /\ loop'[d] = "dispatch" => afterID'[d] < polled'[d]
      /\ UNCHANGED afterID
  BY DEF Resolve, LoopOn, TypeInv, TypeOK
<1> QED
  BY <1>2, <1>3, <1>4 DEF Resolve, observed, TypeInv, TypeOK

LEMMA TypeLoop == ASSUME TypeInv, NEW d \in Drivers, Loop(d) PROVE TypeInv'
<1>1. CASE Poll(d)
  <2>1. queue[d] \in Seq(Message) /\ Len(queue[d]) \in Nat
    BY LenProperties DEF TypeInv, TypeOK
  <2> QED
    BY <1>1, <2>1 DEF Poll, callVars, observed, TypeInv, TypeOK
<1>2. CASE DropExpired(d) \/ DropOwn(d)
  BY <1>2, TypeIgnore DEF DropExpired, DropOwn, TypeInv, TypeOK
<1>3. CASE DropReply(d)
  <2>1. answered' \subseteq Calls
    BY <1>3, NextIsQueued, AnswersCalls DEF DropReply
  <2> QED
    BY <1>3, <2>1, TypeIgnore DEF DropReply
<1> QED
  BY <1>1, <1>2, <1>3, TypeDispatch, TypeTake, TypeResolve DEF Loop

LEMMA TypeSendReply == ASSUME TypeInv, NEW d \in Drivers, SendReply(d) PROVE TypeInv'
<1>1. PICK r \in replies[d] :
          /\ replies' = [replies EXCEPT ![d] = @ \ {r}]
          /\ \/ /\ Queued(r.to, [type |-> r.type, source |-> d, corr |-> r.corr, call |-> r.call])
                /\ UNCHANGED faults
             \/ Fault /\ UNCHANGED queue
          /\ UNCHANGED <<afterID, polled, loop, taken, pendingAcks, callVars, observed>>
  BY DEF SendReply
<1> DEFINE m == [type |-> r.type, source |-> d, corr |-> r.corr, call |-> r.call]
<1>2. m \in Message /\ r.to \in Drivers
  BY DEF Message, Reply, TypeInv, TypeOK
<1>3. queue' \in [Drivers -> Seq(Message)] /\ \A x \in Drivers : Len(queue[x]) <= Len(queue'[x])
  <2>1. CASE Queued(r.to, m)
    <3> HIDE DEF m
    <3>1. Mailed(m, {r.to}) /\ {r.to} \in SUBSET Drivers
      BY <1>2, <2>1, QueuedMails DEF TypeInv
    <3> QED
      BY <1>2, <3>1, MailedTo DEF TypeInv
  <2>2. CASE UNCHANGED queue
    BY <2>2, LenProperties DEF TypeInv, TypeOK
  <2> QED
    BY <1>1, <2>1, <2>2
<1>4. \A x \in Drivers : polled[x] <= Len(queue'[x])
  BY <1>3, LenProperties DEF TypeInv, TypeOK
<1>5. faults' \in Nat
  BY <1>1 DEF Fault, TypeInv, TypeOK
<1>6. replies' \in [Drivers -> SUBSET Reply]
  BY <1>1 DEF TypeInv, TypeOK
<1> QED
  BY <1>1, <1>3, <1>4, <1>5, <1>6 DEF callVars, observed, TypeInv, TypeOK

LEMMA TypeRestart == ASSUME TypeInv, NEW d \in Drivers, Restart(d) PROVE TypeInv'
<1>1. PICK skipped \in {0, IF Len(queue[d]) < FastForwardMax THEN Len(queue[d]) ELSE FastForwardMax} :
          /\ afterID' = [afterID EXCEPT ![d] = skipped]
          /\ polled' = [polled EXCEPT ![d] = skipped]
  BY DEF Restart
<1>2. skipped \in Nat /\ skipped <= Len(queue[d])
  BY FastForwardAssumption, LenProperties DEF TypeInv, TypeOK
<1>3. afterID' \in [Drivers -> Nat] /\ polled' \in [Drivers -> Nat] /\ polled'[d] <= Len(queue[d])
      /\ \A x \in Drivers \ {d} : afterID'[x] = afterID[x] /\ polled'[x] = polled[x]
  BY <1>1, <1>2 DEF TypeInv, TypeOK
<1>4. state' \in [Calls -> {"idle", "dead"} \cup Underway \cup Returned] /\ faults' \in Nat
      /\ \A c \in Calls : state'[c] # "idle" => state[c] # "idle"
  <2>1. state' = [c \in Calls |->
                    IF state[c] \in Underway /\ envelope[c].source = d THEN "dead" ELSE state[c]]
    BY DEF Restart
  <2>2. faults' \in Nat
    BY DEF Restart, Fault, TypeInv, TypeOK
  <2>3. "idle" \notin Underway
    BY DEF Underway
  <2> QED
    BY <2>1, <2>2, <2>3 DEF TypeInv, TypeOK
<1>5. taken' \in [Drivers -> (Calls \cup {NoCall}) \X (Replies \cup {"none"})]
      /\ replies' \in [Drivers -> SUBSET Reply]
      /\ pendingAcks' \in [Drivers -> [CorrIDs -> Calls \cup {NoCall}]]
      /\ loop' = [loop EXCEPT ![d] = "poll"]
      /\ \A x \in Drivers \ {d} : taken'[x] = taken[x]
  BY DEF Restart, TypeInv, TypeOK
<1> QED
  BY <1>3, <1>4, <1>5 DEF Restart, observed, TypeInv, TypeOK

LEMMA TypeSteps == TypeInv /\ [Next]_vars => TypeInv'
<1> SUFFICES ASSUME TypeInv, [Next]_vars PROVE TypeInv'
  OBVIOUS
<1>1. CASE \E c \in Calls, from \in Senders, group \in Groups : Send(c, from, group)
  BY <1>1, SendersAssumption, TypeSend
<1>2. CASE \E c \in Calls, from \in Senders, to \in Targets : SendWithAck(c, from, to)
  BY <1>2, SendersAssumption, TypeSendWithAck
<1>3. CASE UNCHANGED vars
  BY <1>3 DEF vars, TypeInv, TypeOK
<1> QED
  BY <1>1, <1>2, <1>3, TypeReturn, TypeLoop, TypeSendReply, TypeRestart DEF Next

LEMMA TypeInvariant == Spec => []TypeInv
  BY TypeInit, TypeSteps, PTL DEF Spec

(* Every variable keeps its type; a result about to be delivered is one of *)
(* a call (handleAckMessage).                                              *)
THEOREM TypeCorrect == Spec => []TypeOK
<1>1. TypeInv => TypeOK
  BY DEF TypeInv
<1> QED
  BY <1>1, TypeInvariant, PTL
-----------------------------------------------------------------------------
(* What is underway.                                                       *)

(* A call that was made is never made again; what it was made with stays,  *)
(* and what its handlers did is not forgotten.                             *)
Grows ==
    \A c \in Calls : state[c] # "idle" =>
        state'[c] # "idle" /\ envelope'[c] = envelope[c] /\ outcomes[c] \subseteq outcomes'[c]

LEMMA GrowsByCaller ==
    ASSUME TypeInv, NEW c \in Calls, state'[c] # "idle", UNCHANGED outcomes,
           state[c] = "idle" \/ envelope'[c] = envelope[c],
           \A x \in Calls \ {c} : state'[x] = state[x] /\ envelope'[x] = envelope[x]
    PROVE  Grows
  BY DEF Grows

LEMMA GrowsOnSend ==
    ASSUME TypeInv, NEW c \in Calls, NEW from, NEW group, Send(c, from, group)
    PROVE  Grows /\ state[c] = "idle" /\ state'[c] \in {"sent", "failed"}
           /\ \A x \in Calls \ {c} : state'[x] = state[x] /\ envelope'[x] = envelope[x]
<1>1. (Goto(c, "sent") \/ Goto(c, "failed")) /\ UNCHANGED outcomes
      /\ \E e : envelope' = [envelope EXCEPT ![c] = e]
  BY DEF Send, observed
<1>2. state'[c] \in {"sent", "failed"}
      /\ \A x \in Calls \ {c} : state'[x] = state[x] /\ envelope'[x] = envelope[x]
  BY <1>1 DEF Goto, TypeInv, TypeOK
<1>3. state[c] = "idle"
  BY NextIsIdle DEF Send
<1> QED
  BY <1>1, <1>2, <1>3, GrowsByCaller

LEMMA GrowsOnSendWithAck ==
    ASSUME TypeInv, NEW c \in Calls, NEW from \in Drivers, NEW to, SendWithAck(c, from, to)
    PROVE  /\ Grows /\ state[c] = "idle" /\ state'[c] = "registered"
           /\ \A x \in Calls \ {c} : state'[x] = state[x] /\ envelope'[x] = envelope[x]
           /\ envelope'[c].source = from /\ envelope'[c].corr \in CorrIDs
           /\ Register(from, envelope'[c].corr, c)
<1>1. PICK corr \in CorrIDs :
          /\ envelope' = [envelope EXCEPT ![c] = [source |-> from, group |-> {to}, corr |-> corr,
                                                  requireAck |-> TRUE]]
          /\ Register(from, corr, c)
  BY DEF SendWithAck
<1>2. state'[c] = "registered" /\ envelope'[c].source = from /\ envelope'[c].corr = corr
      /\ \A x \in Calls \ {c} : state'[x] = state[x] /\ envelope'[x] = envelope[x]
  BY <1>1 DEF SendWithAck, Goto, TypeInv, TypeOK
<1>3. state[c] = "idle" /\ UNCHANGED outcomes
  BY NextIsIdle DEF SendWithAck, observed
<1>4. Register(from, envelope'[c].corr, c)
  BY <1>1, <1>2
<1> QED
  BY <1>1, <1>2, <1>3, <1>4, GrowsByCaller

LEMMA GrowsOnReturn ==
    ASSUME TypeInv, NEW c \in Calls, Return(c)
    PROVE  /\ Grows /\ UNCHANGED <<envelope, outcomes, answered, loop, taken, replies>>
           /\ \A x \in Calls \ {c} : state'[x] = state[x]
<1>1. \E place \in {"published", "waiting", "failed", "gaveUp"} \cup Replies : Goto(c, place)
  BY DEF Return, PublishReachesCore, PublishReturns, PublishFails, ReceiveResult, GiveUp, TypeInv, TypeOK
<1>2. state'[c] # "idle" /\ \A x \in Calls \ {c} : state'[x] = state[x]
  BY <1>1 DEF Goto, TypeInv, TypeOK, Replies
<1>3. UNCHANGED <<envelope, outcomes, answered, loop, taken, replies>>
  BY DEF Return, PublishReachesCore, PublishReturns, PublishFails, ReceiveResult, GiveUp, busVars, observed
<1> QED
  BY <1>2, <1>3, GrowsByCaller

LEMMA GrowsOnLoop ==
    ASSUME TypeInv, NEW d \in Drivers, Loop(d) PROVE Grows /\ UNCHANGED <<queue, state, envelope, faults>>
<1>1. UNCHANGED <<queue, state, envelope, faults>>
  BY DEF Loop, Poll, DropExpired, DropOwn, DropReply, Ignore, DispatchRequest, TakePending, Resolve, callVars
<1>2. \A c \in Calls : outcomes[c] \subseteq outcomes'[c]
  <2>1. CASE DispatchRequest(d)
    <3>1. PICK x, outcome : outcomes' = [outcomes EXCEPT ![x] = @ \cup {outcome}]
      BY <2>1 DEF DispatchRequest
    <3> QED
      BY <3>1 DEF TypeInv, TypeOK
  <2>2. CASE UNCHANGED outcomes
    BY <2>2
  <2> QED
    BY <2>1, <2>2 DEF Loop, Poll, DropExpired, DropOwn, DropReply, Ignore, TakePending, Resolve, observed
<1> QED
  BY <1>1, <1>2 DEF Grows

LEMMA GrowsOnRestart ==
    ASSUME TypeInv, NEW d \in Drivers, Restart(d) PROVE Grows
  BY DEF Restart, observed, Grows, TypeInv, TypeOK

-----------------------------------------------------------------------------
(* A message names a call that was made, with its correlation id; a reply  *)
(* is in the queue of the driver that made it and says what its handlers   *)
(* did.                                                                    *)
In(m, d) == \E i \in 1..Len(queue[d]) : queue[d][i] = m

MessageOf(m, d) ==
    /\ state[m.call] # "idle" /\ m.corr = envelope[m.call].corr
    /\ m.type = "request" => m.source = envelope[m.call].source
    /\ m.type \in Replies => d = envelope[m.call].source /\ m.type \in outcomes[m.call]

ReplyOf(r) ==
    /\ state[r.call] # "idle" /\ r.corr = envelope[r.call].corr
    /\ r.to = envelope[r.call].source /\ r.type \in outcomes[r.call]

MailInv ==
    \A d \in Drivers :
        /\ \A m \in Message : In(m, d) => MessageOf(m, d)
        /\ \A r \in Reply : r \in replies[d] => ReplyOf(r)

LEMMA MailGrows ==
    ASSUME Grows, MailInv
    PROVE  \A d \in Drivers :
               /\ \A m \in Message : In(m, d) => MessageOf(m, d)'
               /\ \A r \in Reply : r \in replies[d] => ReplyOf(r)'
<1>1. ASSUME NEW d \in Drivers, NEW m \in Message, In(m, d) PROVE MessageOf(m, d)'
  <2>1. MessageOf(m, d) /\ m.call \in Calls
    BY <1>1 DEF MailInv, Message
  <2> QED
    BY <2>1 DEF MessageOf, Grows
<1>2. ASSUME NEW d \in Drivers, NEW r \in Reply, r \in replies[d] PROVE ReplyOf(r)'
  <2>1. ReplyOf(r) /\ r.call \in Calls
    BY <1>2 DEF MailInv, Reply
  <2> QED
    BY <2>1 DEF ReplyOf, Grows
<1> QED
  BY <1>1, <1>2

(* A message is queued where it belongs, and no reply is new.              *)
LEMMA MailQueued ==
    ASSUME TypeInv, MailInv, Grows, NEW m \in Message, NEW G \in SUBSET Drivers, Mailed(m, G),
           \A d \in G : MessageOf(m, d)', \A d \in Drivers : replies'[d] \subseteq replies[d]
    PROVE  MailInv'
<1>1. ASSUME NEW d \in Drivers, NEW n \in Message, In(n, d)' PROVE MessageOf(n, d)'
  <2>1. In(n, d) \/ (d \in G /\ n = m)
    <3>1. PICK i \in 1..Len(queue'[d]) : queue'[d][i] = n
      BY <1>1 DEF In
    <3>2. \/ i \in 1..Len(queue[d]) /\ queue'[d][i] = queue[d][i]
          \/ d \in G /\ queue'[d][i] = m
      BY MailedTo DEF TypeInv
    <3> QED
      BY <3>1, <3>2 DEF In
  <2> QED
    BY <2>1, MailGrows
<1>2. ASSUME NEW d \in Drivers, NEW r \in Reply, r \in replies'[d] PROVE ReplyOf(r)'
  BY <1>2, MailGrows
<1> QED
  BY <1>1, <1>2 DEF MailInv

LEMMA MailKept ==
    ASSUME MailInv, Grows, UNCHANGED queue, \A d \in Drivers : replies'[d] \subseteq replies[d]
    PROVE  MailInv'
<1>1. \A d \in Drivers, m \in Message : In(m, d)' => In(m, d)
  BY DEF In
<1> QED
  BY <1>1, MailGrows DEF MailInv

LEMMA MailInit == Init => MailInv
<1> SUFFICES ASSUME Init PROVE MailInv
  OBVIOUS
<1>1. \A d \in Drivers : queue[d] = <<>> /\ replies[d] = {}
  BY DEF Init
<1>2. \A d \in Drivers : Len(queue[d]) = 0
  BY <1>1, EmptySeq
<1>3. \A d \in Drivers : \A m : ~In(m, d)
  BY <1>2 DEF In
<1> QED
  BY <1>1, <1>3 DEF MailInv

LEMMA MailSend ==
    ASSUME TypeInv, MailInv, NEW c \in Calls, NEW from \in Drivers, NEW group \in SUBSET Drivers,
           Send(c, from, group)
    PROVE  MailInv'
<1>1. PICK corr \in CorrIDs :
          /\ envelope' = [envelope EXCEPT ![c] = [source |-> from, group |-> group, corr |-> corr,
                                                  requireAck |-> FALSE]]
          /\ \/ Mailed([type |-> "request", source |-> from, corr |-> corr, call |-> c], group)
             \/ UNCHANGED queue
  BY DEF Send, Mailed
<1> DEFINE m == [type |-> "request", source |-> from, corr |-> corr, call |-> c]
<1>2. m \in Message /\ m.call = c /\ m.type = "request" /\ m.source = from /\ m.corr = corr
  BY DEF Message
<1> HIDE DEF m
<1>3. Grows /\ state'[c] # "idle"
  BY GrowsOnSend
<1>4. envelope'[c].source = from /\ envelope'[c].corr = corr
  BY <1>1 DEF TypeInv
<1>5. \A d \in group : MessageOf(m, d)'
  BY <1>2, <1>3, <1>4 DEF MessageOf, Replies
<1>6. UNCHANGED replies
  BY DEF Send
<1>7. CASE Mailed(m, group)
  BY <1>2, <1>3, <1>5, <1>6, <1>7, MailQueued
<1>8. CASE UNCHANGED queue
  BY <1>3, <1>6, <1>8, MailKept
<1> QED
  BY <1>1, <1>7, <1>8 DEF m

LEMMA MailReturn == ASSUME TypeInv, MailInv, NEW c \in Calls, Return(c) PROVE MailInv'
<1>1. Grows /\ UNCHANGED replies
  BY GrowsOnReturn
<1>2. CASE PublishReachesCore(c)
  <2>1. PICK to \in envelope[c].group : Queued(to, Request(c))
    BY <1>2 DEF PublishReachesCore
  <2>2. state[c] # "idle"
    BY <1>2 DEF PublishReachesCore
  <2>3. PICK m \in Message : m = Request(c)
    BY <2>2, RequestIsMessage
  <2>4. to \in Drivers
    BY <2>2, RequestIsMessage DEF Envelope
  <2>5. Mailed(m, {to}) /\ {to} \in SUBSET Drivers
    BY <2>1, <2>3, <2>4, QueuedMails DEF TypeInv
  <2>6. m.call = c /\ m.type = "request" /\ m.source = envelope[c].source /\ m.corr = envelope[c].corr
    BY <2>3 DEF Request
  <2>7. MessageOf(m, to)'
    BY <1>1, <2>2, <2>6 DEF MessageOf, Grows, Replies
  <2> QED
    BY <1>1, <2>5, <2>7, MailQueued
<1>3. CASE ~PublishReachesCore(c)
  <2>1. UNCHANGED queue
    BY <1>3 DEF Return, PublishReturns, PublishFails, ReceiveResult, GiveUp, busVars
  <2> QED
    BY <1>1, <2>1, MailKept
<1> QED
  BY <1>2, <1>3

LEMMA MailLoop == ASSUME TypeInv, MailInv, NEW d \in Drivers, Loop(d) PROVE MailInv'
<1>1. Grows /\ UNCHANGED <<queue, state, envelope>>
  BY GrowsOnLoop
<1>2. CASE DispatchRequest(d)
  <2>1. PICK m \in Message : m = NextMessage(d) /\ In(m, d)
    BY <1>2, NextIsQueued DEF DispatchRequest, NextMessage, In
  <2>2. PICK outcome \in Replies :
            /\ outcomes' = [outcomes EXCEPT ![m.call] = @ \cup {outcome}]
            /\ replies' = IF envelope[m.call].requireAck
                          THEN [replies EXCEPT ![d] = @ \cup
                                  {[type |-> outcome, to |-> m.source, corr |-> m.corr, call |-> m.call]}]
                          ELSE replies
    BY <1>2, <2>1 DEF DispatchRequest
  <2>3. PICK n \in Reply : n = [type |-> outcome, to |-> m.source, corr |-> m.corr, call |-> m.call]
    BY DEF Message, Reply
  <2>4. MessageOf(m, d) /\ m.call \in Calls /\ m.type = "request"
    BY <1>2, <2>1 DEF MailInv, DispatchRequest, Message
  <2>5. outcome \in outcomes'[m.call]
    BY <2>2, <2>4 DEF TypeInv, TypeOK
  <2>6. ReplyOf(n)'
    BY <1>1, <2>3, <2>4, <2>5 DEF ReplyOf, MessageOf
  <2>7. \A x \in Drivers, r \in Reply : r \in replies'[x] => r \in replies[x] \/ r = n
    BY <2>2, <2>3 DEF TypeInv, TypeOK
  <2>8. \A x \in Drivers, r \in Reply : r \in replies'[x] => ReplyOf(r)'
    BY <1>1, <2>6, <2>7, MailGrows
  <2>9. \A x \in Drivers, r \in Message : In(r, x)' => MessageOf(r, x)'
    BY <1>1, MailGrows DEF In
  <2> QED
    BY <2>8, <2>9 DEF MailInv
<1>3. CASE ~DispatchRequest(d)
  <2>1. UNCHANGED replies
    BY <1>3 DEF Loop, Poll, DropExpired, DropOwn, DropReply, Ignore, TakePending, Resolve
  <2> QED
    BY <1>1, <2>1, MailKept
<1> QED
  BY <1>2, <1>3

LEMMA MailSendReply ==
    ASSUME TypeInv, MailInv, NEW d \in Drivers, SendReply(d) PROVE MailInv' /\ Grows
<1>1. PICK r \in replies[d] :
          /\ replies' = [replies EXCEPT ![d] = @ \ {r}]
          /\ \/ Queued(r.to, [type |-> r.type, source |-> d, corr |-> r.corr, call |-> r.call])
             \/ UNCHANGED queue
          /\ UNCHANGED <<afterID, polled, loop, taken, pendingAcks, callVars, observed>>
  BY DEF SendReply
<1>2. r \in Reply /\ r.to \in Drivers
  BY DEF Reply, TypeInv, TypeOK
<1>3. PICK m \in Message : m = [type |-> r.type, source |-> d, corr |-> r.corr, call |-> r.call]
  BY <1>2 DEF Message, Reply
<1>4. Grows
  BY <1>1 DEF Grows, callVars, observed
<1>5. ReplyOf(r)
  BY <1>2 DEF MailInv
<1>6. m.type \in Replies /\ m.call = r.call /\ m.corr = r.corr /\ m.type = r.type
  BY <1>2, <1>3 DEF Reply
<1>7. MessageOf(m, r.to)'
  <2>1. UNCHANGED <<state, envelope, outcomes>>
    BY <1>1 DEF callVars, observed
  <2> QED
    BY <1>5, <1>6, <2>1 DEF ReplyOf, MessageOf, Replies
<1>8. \A x \in Drivers : replies'[x] \subseteq replies[x]
  BY <1>1 DEF TypeInv, TypeOK
<1>9. CASE Queued(r.to, m)
  <2>1. Mailed(m, {r.to}) /\ {r.to} \in SUBSET Drivers
    BY <1>2, <1>9, QueuedMails DEF TypeInv
  <2> QED
    BY <1>4, <1>7, <1>8, <2>1, MailQueued
<1>10. CASE UNCHANGED queue
  BY <1>4, <1>8, <1>10, MailKept
<1> QED
  BY <1>1, <1>3, <1>4, <1>9, <1>10

LEMMA MailRestart == ASSUME TypeInv, MailInv, NEW d \in Drivers, Restart(d) PROVE MailInv'
<1>1. UNCHANGED queue /\ \A x \in Drivers : replies'[x] \subseteq replies[x]
  BY DEF Restart, TypeInv, TypeOK
<1> QED
  BY <1>1, GrowsOnRestart, MailKept

LEMMA MailSteps == TypeInv /\ MailInv /\ [Next]_vars => MailInv'
<1> SUFFICES ASSUME TypeInv, MailInv, [Next]_vars PROVE MailInv'
  OBVIOUS
<1>1. CASE \E c \in Calls, from \in Senders, group \in Groups : Send(c, from, group)
  BY <1>1, SendersAssumption, MailSend
<1>2. ASSUME NEW c \in Calls, NEW from \in Senders, NEW to \in Targets, SendWithAck(c, from, to)
      PROVE  MailInv'
  <2>1. Grows
    BY <1>2, SendersAssumption, GrowsOnSendWithAck
  <2> QED
    BY <1>2, <2>1, MailKept DEF SendWithAck
<1>3. CASE UNCHANGED vars
  <2>1. Grows
    BY <1>3 DEF vars, Grows
  <2> QED
    BY <1>3, <2>1, MailKept DEF vars
<1> QED
  BY <1>1, <1>2, <1>3, MailReturn, MailLoop, MailSendReply, MailRestart DEF Next
-----------------------------------------------------------------------------
(* Who waits for what.                                                     *)

Taking(d, c) == loop[d] = "resolve" /\ taken[d][1] = c
Delivered(c) == resultCh[c] # "empty" \/ \E d \in Drivers : Taking(d, c)
NoEntry(c)   == \A d \in Drivers, k \in CorrIDs : pendingAcks[d][k] # c

(* The entry of a call leaves the table once: to be delivered, and then    *)
(* the call's channel is empty, or because the call is over.               *)
CallInv(c) ==
    /\ state[c] = "idle" => resultCh[c] = "empty" /\ c \notin answered
    /\ resultCh[c] # "empty" => NoEntry(c)
    /\ resultCh[c] # "empty" /\ Alone(c) => resultCh[c] \in outcomes[c]
    /\ state[c] \in Replies /\ Alone(c) => state[c] \in outcomes[c]
    /\ state[c] \in Underway /\ Alone(c) =>
           Delivered(c) \/ pendingAcks[envelope[c].source][envelope[c].corr] = c
    /\ state[c] \in Underway /\ Alone(c) /\ c \in answered => Delivered(c)

TakeInv(d, c) ==
    Taking(d, c) =>
        /\ state[c] # "idle" /\ envelope[c].source = d
        /\ resultCh[c] = "empty" /\ NoEntry(c)
        /\ Alone(c) => taken[d][2] \in outcomes[c]

AckInv ==
    /\ NoStaleEntry
    /\ \A c \in Calls : CallInv(c) /\ \A d \in Drivers : TakeInv(d, c)

LEMMA AloneBefore ==
    ASSUME Grows, NEW c \in Calls, state[c] # "idle", Alone(c)' PROVE Alone(c)
  BY DEF Grows, Alone

LEMMA AckInit == Init => AckInv
<1> SUFFICES ASSUME Init PROVE AckInv
  OBVIOUS
<1>1. NoStaleEntry
  BY DEF Init, NoStaleEntry
<1>2. \A c \in Calls : CallInv(c)
  BY DEF Init, CallInv, Underway, Replies
<1>3. \A c \in Calls, d \in Drivers : TakeInv(d, c)
  BY DEF Init, TakeInv, Taking
<1> QED
  BY <1>1, <1>2, <1>3 DEF AckInv

(* Neither the table nor a result changes hands; calls begin without       *)
(* asking for an acknowledgment, or go on.                                 *)
LEMMA AckQuiet ==
    ASSUME TypeInv, AckInv, Grows, UNCHANGED <<pendingAcks, resultCh, taken>>,
           \A d \in Drivers : loop'[d] = "resolve" <=> loop[d] = "resolve",
           \A c \in Calls : \/ state'[c] = state[c]
                            \/ state[c] \in Underway /\ state'[c] \in Underway
                            \/ state[c] = "idle" /\ state'[c] \in {"sent", "failed"},
           \A c \in answered' \ answered : state[c] \in Underway /\ (Alone(c) => Delivered(c))
    PROVE  AckInv'
<1>1. \A c \in Calls : Delivered(c)' <=> Delivered(c)
  BY DEF Delivered, Taking
<1>2. \A c \in Calls : NoEntry(c)' <=> NoEntry(c)
  BY DEF NoEntry
<1>3. \A c \in Calls : state[c] = "idle" \/ (Alone(c)' => Alone(c))
  BY AloneBefore
<1>4. NoStaleEntry'
  <2>1. ASSUME NEW d \in Drivers, NEW k \in CorrIDs, NEW c \in Calls, pendingAcks'[d][k] = c,
               pendingAcks'[d][k] # NoCall
        PROVE  state'[c] \in Underway /\ envelope'[c].source = d /\ envelope'[c].corr = k
    <3>1. state[c] \in Underway /\ envelope[c].source = d /\ envelope[c].corr = k
      BY <2>1 DEF AckInv, NoStaleEntry
    <3> QED
      BY <3>1 DEF Grows, Underway
  <2> QED
    BY <2>1 DEF NoStaleEntry, TypeInv, TypeOK
<1>5. ASSUME NEW c \in Calls PROVE CallInv(c)'
  <2>1. CallInv(c)
    BY DEF AckInv
  <2>2. CASE state[c] = "idle" /\ state'[c] # "idle"
    BY <2>1, <2>2 DEF CallInv, Underway, Replies
  <2>3. CASE state[c] = "idle" /\ state'[c] = "idle"
    BY <2>1, <2>3 DEF CallInv, Underway, Replies
  <2>4. CASE state[c] # "idle"
    <3>1. Alone(c)' => Alone(c)
      BY <1>3, <2>4
    <3>2. envelope'[c] = envelope[c] /\ outcomes[c] \subseteq outcomes'[c] /\ state'[c] # "idle"
      BY <2>4 DEF Grows
    <3>3. (state'[c] \in Underway => state[c] \in Underway)
          /\ (state'[c] \in Replies => state'[c] = state[c])
      BY <2>4 DEF Underway, Replies
    <3> QED
      BY <1>1, <1>2, <2>1, <3>1, <3>2, <3>3 DEF CallInv
  <2> QED
    BY <2>2, <2>3, <2>4
<1>6. ASSUME NEW c \in Calls, NEW d \in Drivers PROVE TakeInv(d, c)'
  <2>1. TakeInv(d, c)
    BY DEF AckInv
  <2>2. Taking(d, c)' <=> Taking(d, c)
    BY DEF Taking
  <2> QED
    BY <1>2, <1>3, <2>1, <2>2 DEF TakeInv, Grows
<1> QED
  BY <1>4, <1>5, <1>6 DEF AckInv

LEMMA AckSend ==
    ASSUME TypeInv, AckInv, NEW c \in Calls, NEW from, NEW group, Send(c, from, group) PROVE AckInv'
<1>1. /\ Grows /\ UNCHANGED <<pendingAcks, resultCh, taken, loop, answered>>
      /\ state[c] = "idle" /\ state'[c] \in {"sent", "failed"}
      /\ \A x \in Calls \ {c} : state'[x] = state[x]
  BY GrowsOnSend DEF Send, observed
<1> QED
  BY <1>1, AckQuiet

(* A call registers itself, in the place of another one perhaps.           *)
LEMMA AckSendWithAck ==
    ASSUME TypeInv, AckInv, NEW c \in Calls, NEW from \in Drivers, NEW to, SendWithAck(c, from, to)
    PROVE  AckInv'
<1>1. /\ Grows /\ state[c] = "idle" /\ state'[c] = "registered"
      /\ \A x \in Calls \ {c} : state'[x] = state[x] /\ envelope'[x] = envelope[x]
      /\ envelope'[c].source = from /\ envelope'[c].corr \in CorrIDs
      /\ Register(from, envelope'[c].corr, c)
  BY GrowsOnSendWithAck
<1>2. UNCHANGED <<resultCh, taken, loop, outcomes, answered>>
  BY DEF SendWithAck, observed
<1>3. PICK corr \in CorrIDs : corr = envelope'[c].corr
  BY <1>1
<1>4. pendingAcks'[from][corr] = c
      /\ \A d \in Drivers, k \in CorrIDs : (d = from /\ k = corr) \/ pendingAcks'[d][k] = pendingAcks[d][k]
  BY <1>1, <1>3 DEF Register, TypeInv, TypeOK
<1>5. NoEntry(c)
  <2>1. \A d \in Drivers, k \in CorrIDs : pendingAcks[d][k] = c => state[c] \in Underway
    BY NoCallAssumption DEF AckInv, NoStaleEntry
  <2> QED
    BY <1>1, <2>1 DEF NoEntry, Underway
<1>6. c \in Calls /\ c # NoCall /\ resultCh[c] = "empty" /\ c \notin answered
  BY <1>1, NoCallAssumption DEF AckInv, CallInv
<1>7. \A x \in Calls \ {c} : NoEntry(x) => NoEntry(x)'
  BY <1>4 DEF NoEntry
<1>8. NoStaleEntry'
  <2>1. ASSUME NEW d \in Drivers, NEW k \in CorrIDs, NEW x \in Calls, pendingAcks'[d][k] = x
        PROVE  state'[x] \in Underway /\ envelope'[x].source = d /\ envelope'[x].corr = k
    <3>1. CASE x = c
      BY <1>1, <1>3, <1>4, <1>5, <2>1, <3>1 DEF NoEntry, Underway
    <3>2. CASE x # c
      BY <1>1, <1>4, <2>1, <3>2, NoCallAssumption DEF AckInv, NoStaleEntry
    <3> QED
      BY <3>1, <3>2
  <2>2. \A d \in Drivers, k \in CorrIDs : pendingAcks'[d][k] # NoCall => pendingAcks'[d][k] \in Calls
    <3>1. \A d \in Drivers, k \in CorrIDs : pendingAcks[d][k] \in Calls \cup {NoCall}
      BY DEF TypeInv, TypeOK
    <3> QED
      BY <1>4, <1>6, <3>1
  <2> QED
    BY <2>1, <2>2 DEF NoStaleEntry
<1>9. CallInv(c)'
  BY <1>1, <1>2, <1>3, <1>4, <1>6 DEF CallInv, Underway, Replies
<1>10. ASSUME NEW x \in Calls \ {c} PROVE CallInv(x)'
  <2>1. CallInv(x) /\ (Delivered(x)' <=> Delivered(x))
    BY <1>2 DEF AckInv, Delivered, Taking
  <2>2. state[x] # "idle" /\ Alone(x)' =>
            /\ Alone(x) /\ (envelope[x].source # from \/ envelope[x].corr # corr)
    <3>1. state[x] # "idle" /\ Alone(x)' => Alone(x)
      BY <1>1, AloneBefore
    <3>2. Alone(x)' => envelope[x].source # from \/ envelope[x].corr # corr
      BY <1>1, <1>3 DEF Alone
    <3> QED
      BY <3>1, <3>2
  <2>3. state[x] \in Underway => envelope[x].source \in Drivers /\ envelope[x].corr \in CorrIDs
    BY RequestIsMessage DEF Underway, Envelope
  <2>4. state[x] \in Underway /\ Alone(x)' =>
            (pendingAcks[envelope[x].source][envelope[x].corr] = x
               => pendingAcks'[envelope[x].source][envelope[x].corr] = x)
    BY <1>4, <2>2, <2>3 DEF Underway
  <2> QED
    BY <1>1, <1>2, <1>7, <2>1, <2>2, <2>4 DEF CallInv, Underway, Replies
<1>11. ASSUME NEW x \in Calls, NEW d \in Drivers PROVE TakeInv(d, x)'
  <2>1. TakeInv(d, x) /\ (Taking(d, x)' <=> Taking(d, x))
    BY <1>2 DEF AckInv, Taking
  <2>2. Taking(d, x) => x # c
    BY <1>1, <2>1 DEF TakeInv
  <2> QED
    BY <1>1, <1>2, <1>7, <2>1, <2>2, AloneBefore DEF TakeInv
<1> QED
  BY <1>8, <1>9, <1>10, <1>11 DEF AckInv

(* A call ends and whatever is under its correlation id is deleted.        *)
LEMMA AckForget ==
    ASSUME TypeInv, AckInv, Grows, NEW c \in Calls, state[c] \in Underway, Forget(c),
           state'[c] \in {"failed", "gaveUp"}, \A x \in Calls \ {c} : state'[x] = state[x],
           UNCHANGED <<envelope, outcomes, answered, loop, taken, resultCh>>
    PROVE  AckInv'
<1> DEFINE from == envelope[c].source
           corr == envelope[c].corr
<1>1. from \in Drivers /\ corr \in CorrIDs
  BY RequestIsMessage DEF Underway, Envelope
<1>2. pendingAcks'[from][corr] = NoCall
      /\ \A d \in Drivers, k \in CorrIDs : (d = from /\ k = corr) \/ pendingAcks'[d][k] = pendingAcks[d][k]
  BY <1>1 DEF Forget, Register, TypeInv, TypeOK
<1>3. \A x \in Calls : NoEntry(x) => NoEntry(x)'
  BY <1>2, NoCallAssumption DEF NoEntry
<1>4. ASSUME NEW d \in Drivers, NEW k \in CorrIDs, NEW x \in Calls, pendingAcks'[d][k] = x
      PROVE  x # c /\ state[x] \in Underway /\ envelope[x].source = d /\ envelope[x].corr = k
  <2>1. pendingAcks[d][k] = x /\ ~(d = from /\ k = corr)
    BY <1>2, <1>4, NoCallAssumption
  <2> QED
    BY <2>1, NoCallAssumption DEF AckInv, NoStaleEntry
<1>5. NoStaleEntry'
  <2>1. \A d \in Drivers, k \in CorrIDs : pendingAcks'[d][k] # NoCall => pendingAcks'[d][k] \in Calls
    <3>1. \A d \in Drivers, k \in CorrIDs : pendingAcks[d][k] \in Calls \cup {NoCall}
      BY DEF TypeInv, TypeOK
    <3> HIDE DEF from, corr
    <3> QED
      BY <1>2, <3>1
  <2> QED
    BY <1>4, <2>1 DEF NoStaleEntry
<1>6. CallInv(c)'
  <2>1. CallInv(c) /\ (Alone(c)' => Alone(c))
    BY AloneBefore DEF AckInv, Underway
  <2> QED
    BY <1>3, <2>1 DEF CallInv, Underway, Replies
<1>7. ASSUME NEW x \in Calls \ {c} PROVE CallInv(x)'
  <2>1. CallInv(x) /\ (Delivered(x)' <=> Delivered(x))
    BY DEF AckInv, Delivered, Taking
  <2>2. state[x] # "idle" /\ Alone(x)' =>
            Alone(x) /\ (envelope[x].source # from \/ envelope[x].corr # corr)
    <3>1. state[x] # "idle" /\ Alone(x)' => Alone(x)
      BY AloneBefore
    <3>2. Alone(x) => envelope[x].source # from \/ envelope[x].corr # corr
      BY DEF Alone, Underway
    <3> QED
      BY <3>1, <3>2
  <2>3. state[x] \in Underway => envelope[x].source \in Drivers /\ envelope[x].corr \in CorrIDs
    BY RequestIsMessage DEF Underway, Envelope
  <2>4. state[x] \in Underway /\ Alone(x)' =>
            (pendingAcks[envelope[x].source][envelope[x].corr] = x
               => pendingAcks'[envelope[x].source][envelope[x].corr] = x)
    BY <1>2, <2>2, <2>3 DEF Underway
  <2> HIDE DEF from, corr
  <2> QED
    BY <1>3, <2>1, <2>2, <2>4 DEF CallInv, Underway, Replies
<1>8. ASSUME NEW x \in Calls, NEW d \in Drivers PROVE TakeInv(d, x)'
  <2>1. TakeInv(d, x) /\ (Taking(d, x)' <=> Taking(d, x))
    BY DEF AckInv, Taking
  <2>2. state[x] # "idle" => state'[x] # "idle" /\ (Alone(x)' => Alone(x))
    BY AloneBefore DEF Grows
  <2> QED
    BY <1>3, <2>1, <2>2 DEF TakeInv
<1> QED
  BY <1>5, <1>6, <1>7, <1>8 DEF AckInv

(* A call takes its result: by then no entry is its own.                   *)
LEMMA AckReceive == ASSUME TypeInv, AckInv, NEW c \in Calls, ReceiveResult(c) PROVE AckInv'
<1>1. /\ Grows /\ UNCHANGED <<envelope, outcomes, answered, loop, taken, replies>>
      /\ \A x \in Calls \ {c} : state'[x] = state[x]
  BY GrowsOnReturn DEF Return
<1>2. /\ UNCHANGED pendingAcks /\ state[c] = "waiting" /\ resultCh[c] # "empty"
      /\ state'[c] = resultCh[c] /\ resultCh'[c] = "empty"
      /\ \A x \in Calls \ {c} : resultCh'[x] = resultCh[x]
  BY DEF ReceiveResult, busVars, Goto, TypeInv, TypeOK
<1>3. resultCh[c] \in Replies /\ NoEntry(c) /\ (Alone(c) => resultCh[c] \in outcomes[c])
      /\ \A d \in Drivers : ~Taking(d, c)
  BY <1>2 DEF AckInv, CallInv, TakeInv, TypeInv, TypeOK
<1>4. \A x \in Calls : NoEntry(x)' <=> NoEntry(x)
  BY <1>2 DEF NoEntry
<1>5. NoStaleEntry'
  <2>1. ASSUME NEW d \in Drivers, NEW k \in CorrIDs, NEW x \in Calls, pendingAcks'[d][k] = x
        PROVE  state'[x] \in Underway /\ envelope'[x].source = d /\ envelope'[x].corr = k
    <3>1. pendingAcks[d][k] = x /\ x # c
      BY <1>2, <1>3, <2>1 DEF NoEntry
    <3> QED
      BY <1>1, <3>1, NoCallAssumption DEF AckInv, NoStaleEntry
  <2>2. \A d \in Drivers, k \in CorrIDs : pendingAcks'[d][k] \in Calls \cup {NoCall}
    BY <1>2 DEF TypeInv, TypeOK
  <2> QED
    BY <2>1, <2>2 DEF NoStaleEntry
<1>6. CallInv(c)'
  <2>1. CallInv(c) /\ (Alone(c)' => Alone(c))
    BY <1>1, <1>2, AloneBefore DEF AckInv
  <2> QED
    BY <1>1, <1>2, <1>3, <2>1 DEF CallInv, Underway, Replies
<1>7. ASSUME NEW x \in Calls \ {c} PROVE CallInv(x)'
  <2>1. CallInv(x) /\ (Delivered(x)' <=> Delivered(x))
    BY <1>1, <1>2 DEF AckInv, Delivered, Taking
  <2>2. state[x] # "idle" /\ Alone(x)' => Alone(x)
    BY <1>1, AloneBefore
  <2> QED
    BY <1>1, <1>2, <1>4, <2>1, <2>2 DEF CallInv, Underway, Replies
<1>8. ASSUME NEW x \in Calls, NEW d \in Drivers PROVE TakeInv(d, x)'
  <2>1. TakeInv(d, x) /\ (Taking(d, x)' <=> Taking(d, x)) /\ (Taking(d, x) => x # c)
    BY <1>1, <1>3 DEF AckInv, Taking
  <2>2. state[x] # "idle" => state'[x] # "idle" /\ (Alone(x)' => Alone(x))
    BY <1>1, AloneBefore DEF Grows
  <2> QED
    BY <1>1, <1>2, <1>4, <2>1, <2>2 DEF TakeInv
<1> QED
  BY <1>5, <1>6, <1>7, <1>8 DEF AckInv

LEMMA AckReturn == ASSUME TypeInv, AckInv, NEW c \in Calls, Return(c) PROVE AckInv'
<1>1. /\ Grows /\ UNCHANGED <<envelope, outcomes, answered, loop, taken, replies>>
      /\ \A x \in Calls \ {c} : state'[x] = state[x]
  BY GrowsOnReturn
<1>2. CASE PublishReachesCore(c) \/ PublishReturns(c)
  <2>1. state[c] \in Underway /\ state'[c] \in Underway /\ UNCHANGED <<pendingAcks, resultCh>>
    BY <1>2 DEF PublishReachesCore, PublishReturns, Goto, busVars, Underway, TypeInv, TypeOK
  <2> QED
    BY <1>1, <2>1, AckQuiet
<1>3. CASE PublishFails(c) \/ GiveUp(c)
  <2>1. /\ state[c] \in Underway /\ Forget(c) /\ state'[c] \in {"failed", "gaveUp"} /\ UNCHANGED resultCh
    BY <1>3 DEF PublishFails, GiveUp, Goto, Underway, TypeInv, TypeOK
  <2> QED
    BY <1>1, <2>1, AckForget
<1> QED
  BY <1>2, <1>3, AckReceive DEF Return

(* A reply is looked at that somebody may have waited for.                 *)
LEMMA AckDropReply == ASSUME TypeInv, MailInv, AckInv, NEW d \in Drivers, DropReply(d) PROVE AckInv'
<1>1. Grows /\ UNCHANGED <<queue, state, envelope>>
  BY GrowsOnLoop DEF Loop
<1>2. UNCHANGED <<pendingAcks, resultCh, taken>> /\ loop[d] = "dispatch"
      /\ \A x \in Drivers : loop'[x] = "resolve" <=> loop[x] = "resolve"
  BY DEF DropReply, Ignore, LoopOn, callVars, TypeInv, TypeOK
<1>3. PICK m \in Message : m = NextMessage(d) /\ In(m, d)
  BY <1>2, NextIsQueued DEF NextMessage, In
<1>4. m.type \in Replies /\ pendingAcks[d][m.corr] = NoCall /\ answered' = Answers(m)
  BY <1>3 DEF DropReply
<1>5. m.call \in Calls /\ d = envelope[m.call].source /\ m.corr = envelope[m.call].corr
  BY <1>3, <1>4 DEF MailInv, MessageOf, Message
<1>6. \A c \in answered' \ answered : c = m.call /\ state[c] \in Underway
  BY <1>4 DEF Answers
<1>7. state[m.call] \in Underway /\ Alone(m.call) => Delivered(m.call)
  BY <1>4, <1>5, NoCallAssumption DEF AckInv, CallInv
<1> QED
  BY <1>1, <1>2, <1>6, <1>7, AckQuiet

(* The entry of a reply leaves the table, to be delivered.                 *)
LEMMA AckTake == ASSUME TypeInv, MailInv, AckInv, NEW d \in Drivers, TakePending(d) PROVE AckInv'
<1>1. Grows /\ UNCHANGED <<queue, state, envelope, resultCh, outcomes>>
  BY GrowsOnLoop DEF Loop, TakePending, callVars
<1>2. PICK m \in Message : m = NextMessage(d) /\ In(m, d)
  BY NextIsQueued DEF TakePending, NextMessage, In
<1>3. m.type \in Replies /\ m.corr \in CorrIDs /\ m.call \in Calls /\ answered' = Answers(m)
      /\ d = envelope[m.call].source /\ m.corr = envelope[m.call].corr /\ m.type \in outcomes[m.call]
      /\ state[m.call] # "idle"
  BY <1>2 DEF TakePending, MailInv, MessageOf, Message
<1>4. PICK c \in Calls : c = pendingAcks[d][m.corr]
  <2>1. pendingAcks[d][m.corr] # NoCall
    BY <1>2 DEF TakePending
  <2>2. pendingAcks[d][m.corr] \in Calls \cup {NoCall}
    BY <1>3 DEF TypeInv, TypeOK
  <2> QED
    BY <2>1, <2>2
<1>5. state[c] \in Underway /\ envelope[c].source = d /\ envelope[c].corr = m.corr
  BY <1>3, <1>4, NoCallAssumption DEF AckInv, NoStaleEntry
<1>6. Taking(d, c)' /\ taken'[d][2] = m.type /\ loop[d] = "dispatch"
      /\ \A x \in Drivers \ {d} : taken'[x] = taken[x] /\ loop'[x] = loop[x]
  BY <1>2, <1>4 DEF TakePending, Taking, TypeInv, TypeOK
<1>7. pendingAcks'[d][m.corr] = NoCall
      /\ \A x \in Drivers, k \in CorrIDs : (x = d /\ k = m.corr) \/ pendingAcks'[x][k] = pendingAcks[x][k]
  BY <1>2, <1>3 DEF TakePending, Register, TypeInv, TypeOK
<1>8. \A x \in Calls : NoEntry(x) => NoEntry(x)'
  BY <1>7, NoCallAssumption DEF NoEntry
<1>9. ASSUME NEW x \in Drivers, NEW k \in CorrIDs, NEW y \in Calls, pendingAcks'[x][k] = y
      PROVE  y # c /\ state[y] \in Underway /\ envelope[y].source = x /\ envelope[y].corr = k
  <2>1. pendingAcks[x][k] = y /\ ~(x = d /\ k = m.corr)
    BY <1>7, <1>9, NoCallAssumption
  <2> QED
    BY <1>5, <2>1, NoCallAssumption DEF AckInv, NoStaleEntry
<1>10. NoEntry(c)'
  BY <1>9 DEF NoEntry
<1>11. resultCh[c] = "empty"
  BY <1>3, <1>4 DEF AckInv, CallInv, NoEntry
<1>12. Alone(c) => m.call = c
  BY <1>3, <1>5 DEF Alone
<1>13. \A x \in Calls : Alone(x)' => Alone(x)
  BY <1>1 DEF Alone
<1>14. \A x \in Calls : Delivered(x) => Delivered(x)'
  <2>1. ASSUME NEW x \in Calls, NEW e \in Drivers, Taking(e, x) PROVE Taking(e, x)'
    BY <1>6, <2>1 DEF Taking
  <2> QED
    BY <1>1, <2>1 DEF Delivered
<1>15. NoStaleEntry'
  <2>1. \A x \in Drivers, k \in CorrIDs : pendingAcks[x][k] \in Calls \cup {NoCall}
    BY DEF TypeInv, TypeOK
  <2>2. \A x \in Drivers, k \in CorrIDs : pendingAcks'[x][k] \in Calls \cup {NoCall}
    BY <1>7, <2>1
  <2> QED
    BY <1>1, <1>9, <2>2 DEF NoStaleEntry
<1>16. ASSUME NEW x \in Calls PROVE CallInv(x)'
  <2>1. CallInv(x)
    BY DEF AckInv
  <2>2. x = c => Delivered(x)'
    BY <1>6 DEF Delivered
  <2>3. x # c /\ pendingAcks[envelope[x].source][envelope[x].corr] = x /\ state[x] \in Underway =>
            pendingAcks'[envelope[x].source][envelope[x].corr] = x
    <3>1. state[x] \in Underway => envelope[x].source \in Drivers /\ envelope[x].corr \in CorrIDs
      BY RequestIsMessage DEF Underway, Envelope
    <3> QED
      BY <1>4, <1>7, <3>1
  <2>4. x \in answered' /\ x \notin answered => x = m.call
    BY <1>3 DEF Answers
  <2>5. state[x] \in Underway /\ Alone(x) /\ x \in answered' => Delivered(x)'
    <3>1. CASE x = m.call /\ state[x] \in Underway /\ Alone(x)
      <4>1. x = c
        BY <1>3, <1>5, <3>1 DEF Alone, Underway
      <4> QED
        BY <2>2, <4>1
    <3> QED
      BY <1>14, <2>1, <2>4, <3>1 DEF CallInv
  <2>6. x \in answered' => x \in answered \/ state[x] \in Underway
    BY <1>3 DEF Answers
  <2> QED
    BY <1>1, <1>8, <1>13, <1>14, <2>1, <2>2, <2>3, <2>5, <2>6 DEF CallInv, Underway
<1>17. ASSUME NEW x \in Calls, NEW e \in Drivers PROVE TakeInv(e, x)'
  <2>1. CASE e = d
    <3>1. Taking(e, x)' => x = c
      BY <1>6, <2>1 DEF Taking
    <3> QED
      BY <1>1, <1>3, <1>5, <1>6, <1>10, <1>11, <1>12, <1>13, <2>1, <3>1 DEF TakeInv, Underway
  <2>2. CASE e # d
    <3>1. TakeInv(e, x) /\ (Taking(e, x)' <=> Taking(e, x)) /\ taken'[e] = taken[e]
      BY <1>6, <2>2 DEF AckInv, Taking
    <3> QED
      BY <1>1, <1>8, <1>13, <3>1 DEF TakeInv
  <2> QED
    BY <2>1, <2>2
<1> QED
  BY <1>15, <1>16, <1>17 DEF AckInv

(* The result is put where the call, if it is there still, will find it.   *)
LEMMA AckResolve == ASSUME TypeInv, AckInv, NEW d \in Drivers, Resolve(d) PROVE AckInv'
<1>1. Grows /\ UNCHANGED <<state, envelope, outcomes, answered, pendingAcks>>
  BY GrowsOnLoop DEF Loop, Resolve, observed
<1>2. PICK c \in Calls : Taking(d, c)
  BY DEF Resolve, Taking, TypeInv, TypeOK
<1>3. taken[d][2] \in Replies /\ resultCh[c] = "empty" /\ NoEntry(c) /\ state[c] # "idle"
      /\ (Alone(c) => taken[d][2] \in outcomes[c]) /\ envelope[c].source = d
  BY <1>2 DEF Taking, AckInv, TakeInv, TypeInv, TypeOK
<1>4. resultCh'[c] = taken[d][2] /\ \A x \in Calls \ {c} : resultCh'[x] = resultCh[x]
  BY <1>2, <1>3 DEF Resolve, Taking, TypeInv, TypeOK
<1>5. loop'[d] # "resolve" /\ \A x \in Drivers \ {d} : loop'[x] = loop[x] /\ taken'[x] = taken[x]
  BY DEF Resolve, LoopOn, TypeInv, TypeOK
<1>6. \A x \in Calls : Delivered(x) => Delivered(x)'
  <2>1. ASSUME NEW x \in Calls \ {c}, NEW e \in Drivers, Taking(e, x) PROVE Taking(e, x)'
    BY <1>2, <1>5, <2>1 DEF Taking
  <2>2. Delivered(c)'
    BY <1>3, <1>4 DEF Delivered, Replies
  <2> QED
    BY <1>4, <2>1, <2>2 DEF Delivered
<1>7. \A x \in Calls : (NoEntry(x)' <=> NoEntry(x)) /\ (Alone(x)' <=> Alone(x))
  BY <1>1 DEF NoEntry, Alone
<1>8. NoStaleEntry'
  BY <1>1 DEF AckInv, NoStaleEntry
<1>9. ASSUME NEW x \in Calls PROVE CallInv(x)'
  <2>1. CallInv(x)
    BY DEF AckInv
  <2>2. CASE x = c
    BY <1>1, <1>3, <1>4, <1>6, <1>7, <2>1, <2>2 DEF CallInv
  <2>3. CASE x # c
    BY <1>1, <1>4, <1>6, <1>7, <2>1, <2>3 DEF CallInv
  <2> QED
    BY <2>2, <2>3
<1>10. ASSUME NEW x \in Calls, NEW e \in Drivers PROVE TakeInv(e, x)'
  <2>1. CASE e = d
    BY <1>5, <2>1 DEF TakeInv, Taking
  <2>2. CASE e # d
    <3>1. TakeInv(e, x) /\ (Taking(e, x)' <=> Taking(e, x)) /\ taken'[e] = taken[e]
      BY <1>5, <2>2 DEF AckInv, Taking
    <3>2. Taking(e, x) => x # c
      BY <1>3, <2>2, <3>1 DEF TakeInv
    <3> QED
      BY <1>1, <1>4, <1>7, <3>1, <3>2 DEF TakeInv
  <2> QED
    BY <2>1, <2>2
<1> QED
  BY <1>8, <1>9, <1>10 DEF AckInv

LEMMA AckLoop == ASSUME TypeInv, MailInv, AckInv, NEW d \in Drivers, Loop(d) PROVE AckInv'
<1>1. Grows /\ UNCHANGED <<queue, state, envelope>>
  BY GrowsOnLoop
<1>2. CASE Poll(d) \/ DropExpired(d) \/ DropOwn(d) \/ DispatchRequest(d)
  <2>1. UNCHANGED <<pendingAcks, resultCh, taken, answered>> /\ loop[d] # "resolve"
    BY <1>2 DEF Poll, DropExpired, DropOwn, Ignore, DispatchRequest, Advance, callVars, observed
  <2>2. \A x \in Drivers : loop'[x] = "resolve" <=> loop[x] = "resolve"
    BY <1>2, <2>1 DEF Poll, DropExpired, DropOwn, Ignore, DispatchRequest, LoopOn, TypeInv, TypeOK
  <2> QED
    BY <1>1, <2>1, <2>2, AckQuiet
<1> QED
  BY <1>2, AckTake, AckResolve, AckDropReply DEF Loop

LEMMA AckSendReply == ASSUME TypeInv, MailInv, AckInv, NEW d \in Drivers, SendReply(d) PROVE AckInv'
<1>1. UNCHANGED <<loop, taken, pendingAcks, state, resultCh, answered>>
  BY DEF SendReply, callVars, observed
<1> QED
  BY <1>1, MailSendReply, AckQuiet

(* A driver restarts: its table is gone and so are its calls.              *)
LEMMA AckRestart == ASSUME TypeInv, AckInv, NEW d \in Drivers, Restart(d) PROVE AckInv'
<1>1. Grows /\ UNCHANGED <<envelope, resultCh, outcomes, answered>>
  BY GrowsOnRestart DEF Restart, observed
<1>2. \A c \in Calls : state'[c] = IF state[c] \in Underway /\ envelope[c].source = d THEN "dead"
                                                                                   ELSE state[c]
  BY DEF Restart
<1>3. \A x \in Drivers, k \in CorrIDs :
          pendingAcks'[x][k] = IF x = d THEN NoCall ELSE pendingAcks[x][k]
  BY DEF Restart, TypeInv, TypeOK
<1>4. loop'[d] = "poll" /\ \A x \in Drivers \ {d} : loop'[x] = loop[x] /\ taken'[x] = taken[x]
  BY DEF Restart, TypeInv, TypeOK
<1>5. \A c \in Calls : NoEntry(c) => NoEntry(c)'
  BY <1>3, NoCallAssumption DEF NoEntry
<1>6. \A c \in Calls : state[c] # "idle" /\ Alone(c)' => Alone(c)
  BY <1>1, AloneBefore
<1>7. NoStaleEntry'
  <2>1. ASSUME NEW x \in Drivers, NEW k \in CorrIDs, NEW c \in Calls, pendingAcks'[x][k] = c
        PROVE  state'[c] \in Underway /\ envelope'[c].source = x /\ envelope'[c].corr = k
    <3>1. pendingAcks[x][k] = c /\ x # d
      BY <1>3, <2>1, NoCallAssumption
    <3>2. state[c] \in Underway /\ envelope[c].source = x /\ envelope[c].corr = k
      BY <3>1, NoCallAssumption DEF AckInv, NoStaleEntry
    <3> QED
      BY <1>1, <1>2, <3>1, <3>2
  <2>2. \A x \in Drivers, k \in CorrIDs : pendingAcks[x][k] \in Calls \cup {NoCall}
    BY DEF TypeInv, TypeOK
  <2>3. \A x \in Drivers, k \in CorrIDs : pendingAcks'[x][k] \in Calls \cup {NoCall}
    BY <1>3, <2>2
  <2> QED
    BY <2>1, <2>3 DEF NoStaleEntry
<1>8. ASSUME NEW c \in Calls PROVE CallInv(c)'
  <2>1. CallInv(c)
    BY DEF AckInv
  <2>2. state'[c] \in Underway => state[c] \in Underway /\ envelope[c].source # d
    BY <1>2 DEF Underway
  <2>3. state'[c] \in Underway /\ Delivered(c) => Delivered(c)'
    <3>1. ASSUME NEW e \in Drivers, Taking(e, c), state'[c] \in Underway PROVE Taking(e, c)'
      <4>1. e # d
        BY <2>2, <3>1 DEF AckInv, TakeInv
      <4> QED
        BY <1>4, <3>1, <4>1 DEF Taking
    <3> QED
      BY <1>1, <3>1 DEF Delivered
  <2>4. state'[c] \in Underway => envelope[c].source \in Drivers /\ envelope[c].corr \in CorrIDs
    BY <2>2, RequestIsMessage DEF Underway, Envelope
  <2>5. (state'[c] = "idle" => state[c] = "idle") /\ (state'[c] \in Replies => state'[c] = state[c])
    BY <1>2 DEF Replies
  <2>6. state[c] = "idle" => state'[c] = "idle"
    BY <1>2 DEF Underway
  <2>7. resultCh[c] # "empty" => state[c] # "idle"
    BY <2>1 DEF CallInv
  <2>8. state'[c] \in Underway /\ Alone(c)' =>
            /\ Delivered(c)' \/ pendingAcks'[envelope[c].source][envelope[c].corr] = c
            /\ c \in answered => Delivered(c)'
    BY <1>3, <1>6, <2>1, <2>2, <2>3, <2>4 DEF CallInv, Underway
  <2>9. state'[c] \in Replies => state[c] # "idle"
    BY <2>5 DEF Replies
  <2> QED
    BY <1>1, <1>5, <1>6, <2>1, <2>5, <2>7, <2>8, <2>9 DEF CallInv
<1>9. ASSUME NEW c \in Calls, NEW e \in Drivers PROVE TakeInv(e, c)'
  <2>1. CASE e = d
    BY <1>4, <2>1 DEF TakeInv, Taking
  <2>2. CASE e # d
    <3>1. TakeInv(e, c) /\ (Taking(e, c)' <=> Taking(e, c)) /\ taken'[e] = taken[e]
      BY <1>4, <2>2 DEF AckInv, Taking
    <3>2. state[c] # "idle" => state'[c] # "idle"
      BY <1>2
    <3> QED
      BY <1>1, <1>5, <1>6, <3>1, <3>2 DEF TakeInv
  <2> QED
    BY <2>1, <2>2
<1> QED
  BY <1>7, <1>8, <1>9 DEF AckInv

LEMMA AckSteps == TypeInv /\ MailInv /\ AckInv /\ [Next]_vars => AckInv'
<1> SUFFICES ASSUME TypeInv, MailInv, AckInv, [Next]_vars PROVE AckInv'
  OBVIOUS
<1>1. CASE \E c \in Calls, from \in Senders, group \in Groups : Send(c, from, group)
  BY <1>1, AckSend
<1>2. CASE \E c \in Calls, from \in Senders, to \in Targets : SendWithAck(c, from, to)
  BY <1>2, SendersAssumption, AckSendWithAck
<1>3. CASE UNCHANGED vars
  <2>1. Grows
    BY <1>3 DEF vars, Grows
  <2> QED
    BY <1>3, <2>1, AckQuiet DEF vars
<1> QED
  BY <1>1, <1>2, <1>3, AckReturn, AckLoop, AckSendReply, AckRestart DEF Next

LEMMA AckInvariant == Spec => []AckInv
  BY TypeInvariant, MailInit, MailSteps, AckInit, AckSteps, PTL DEF Spec

(* SendWithAck reports what the recipient's handlers did with this very    *)
(* message, for any number of drivers, calls, lost requests and restarts,  *)
(* if no other call shares its id (dispatchMessage, handleAckMessage).     *)
THEOREM ResultTruthfulAlways == Spec => []ResultTruthful
<1>1. AckInv => ResultTruthful
  BY DEF AckInv, CallInv, ResultTruthful
<1> QED
  BY <1>1, AckInvariant, PTL

(* The table holds no call that has returned, whatever ids calls share:    *)
(* what uses it deletes what it put there (SendWithAck, pendingAcks).      *)
THEOREM NoStaleEntryAlways == Spec => []NoStaleEntry
<1>1. AckInv => NoStaleEntry
  BY DEF AckInv
<1> QED
  BY <1>1, AckInvariant, PTL

(* A reply dispatched while its call is under way reaches the call's       *)
(* channel, which has room for it (SendWithAck, handleAckMessage).         *)
THEOREM ReplyNotLostAlways == Spec => []ReplyNotLost
<1>1. TypeInv /\ AckInv => ReplyNotLost
  <2> SUFFICES ASSUME TypeInv, AckInv PROVE ReplyNotLost
    OBVIOUS
  <2>1. \A c \in answered : c \in Calls
    BY DEF TypeInv, TypeOK
  <2>2. \A d \in Drivers : loop[d] = "resolve" => taken[d][1] \in Calls
    BY DEF TypeInv, TypeOK
  <2> QED
    BY <2>1, <2>2 DEF AckInv, CallInv, TakeInv, Taking, Delivered, ReplyNotLost
<1> QED
  BY <1>1, TypeInvariant, AckInvariant, PTL
-----------------------------------------------------------------------------
(* The refinement of AnsweredCalls.                                        *)

(* Some call of c's driver and correlation id was handled with result r.   *)
Told(c, r) ==
    \E x \in Calls :
        /\ state[x] # "idle" /\ envelope[x].source = envelope[c].source
        /\ envelope[x].corr = envelope[c].corr /\ r \in outcomes[x]

ThreadInv ==
    /\ \A c \in Calls : resultCh[c] # "empty" => Told(c, resultCh[c])
    /\ \A c \in Calls, d \in Drivers : Taking(d, c) => Told(c, taken[d][2])

LEMMA ThreadKept ==
    ASSUME AckInv, ThreadInv, Grows,
           \A c \in Calls : resultCh'[c] \in {resultCh[c], "empty"},
           \A d \in Drivers : loop'[d] = "resolve" => loop[d] = "resolve" /\ taken'[d] = taken[d]
    PROVE  ThreadInv'
<1>1. ASSUME NEW c \in Calls, state[c] # "idle", NEW r, Told(c, r) PROVE Told(c, r)'
  BY <1>1 DEF Told, Grows
<1>2. ASSUME NEW c \in Calls, resultCh'[c] # "empty" PROVE Told(c, resultCh[c])'
  <2>1. resultCh'[c] = resultCh[c] /\ state[c] # "idle" /\ Told(c, resultCh[c])
    BY <1>2 DEF AckInv, CallInv, ThreadInv
  <2> QED
    BY <1>1, <2>1 DEF Told
<1>3. ASSUME NEW c \in Calls, NEW d \in Drivers, Taking(d, c)' PROVE Told(c, taken[d][2])'
  <2>1. Taking(d, c) /\ taken'[d] = taken[d]
    BY <1>3 DEF Taking
  <2>2. state[c] # "idle" /\ Told(c, taken[d][2])
    BY <2>1 DEF AckInv, TakeInv, ThreadInv
  <2> QED
    BY <1>1, <2>1, <2>2 DEF Told
<1> QED
  BY <1>2, <1>3 DEF ThreadInv

(* A reply is for whatever call waits under its correlation id.            *)
LEMMA ThreadTake ==
    ASSUME TypeInv, MailInv, AckInv, ThreadInv, NEW d \in Drivers, TakePending(d)
    PROVE  ThreadInv'
<1>1. Grows /\ UNCHANGED <<state, envelope, resultCh, outcomes>>
  BY GrowsOnLoop DEF Loop, TakePending, callVars
<1>2. PICK m \in Message : m = NextMessage(d) /\ In(m, d)
  BY NextIsQueued DEF TakePending, NextMessage, In
<1>3. m.type \in Replies /\ m.corr \in CorrIDs /\ m.call \in Calls
      /\ d = envelope[m.call].source /\ m.corr = envelope[m.call].corr /\ m.type \in outcomes[m.call]
      /\ state[m.call] # "idle"
  BY <1>2 DEF TakePending, MailInv, MessageOf, Message
<1>4. LET c == pendingAcks[d][m.corr] IN c # NoCall /\ envelope[c].source = d /\ envelope[c].corr = m.corr
  BY <1>2, <1>3 DEF TakePending, AckInv, NoStaleEntry
<1>5. taken'[d] = <<pendingAcks[d][m.corr], m.type>>
      /\ \A x \in Drivers \ {d} : taken'[x] = taken[x] /\ loop'[x] = loop[x]
  BY <1>2 DEF TakePending, TypeInv, TypeOK
<1>6. Told(pendingAcks[d][m.corr], m.type)
  BY <1>3, <1>4 DEF Told
<1> QED
  BY <1>1, <1>5, <1>6 DEF ThreadInv, Taking, Told

LEMMA ThreadResolve ==
    ASSUME TypeInv, AckInv, ThreadInv, NEW d \in Drivers, Resolve(d) PROVE ThreadInv'
<1>1. UNCHANGED <<state, envelope, outcomes>>
  BY DEF Resolve, observed
<1>2. PICK c \in Calls : Taking(d, c)
  BY DEF Resolve, Taking, TypeInv, TypeOK
<1>3. resultCh'[c] \in {resultCh[c], taken[d][2]} /\ \A x \in Calls \ {c} : resultCh'[x] = resultCh[x]
  BY <1>2 DEF Resolve, Taking, TypeInv, TypeOK
<1>4. loop'[d] # "resolve" /\ \A x \in Drivers \ {d} : loop'[x] = loop[x] /\ taken'[x] = taken[x]
  BY DEF Resolve, LoopOn, TypeInv, TypeOK
<1>5. Told(c, taken[d][2])
  BY <1>2 DEF ThreadInv
<1> QED
  BY <1>1, <1>3, <1>4, <1>5 DEF ThreadInv, Taking, Told

LEMMA ThreadSteps == TypeInv /\ MailInv /\ AckInv /\ ThreadInv /\ [Next]_vars => ThreadInv'
<1> SUFFICES ASSUME TypeInv, MailInv, AckInv, ThreadInv, [Next]_vars PROVE ThreadInv'
  OBVIOUS
<1>1. ASSUME NEW c \in Calls, NEW from \in Senders, NEW group \in Groups, Send(c, from, group)
      PROVE  ThreadInv'
  <2>1. Grows /\ UNCHANGED <<resultCh, loop, taken>>
    BY <1>1, GrowsOnSend DEF Send
  <2> QED
    BY <2>1, ThreadKept
<1>2. ASSUME NEW c \in Calls, NEW from \in Senders, NEW to \in Targets, SendWithAck(c, from, to)
      PROVE  ThreadInv'
  <2>1. Grows /\ UNCHANGED <<resultCh, loop, taken>>
    BY <1>2, SendersAssumption, GrowsOnSendWithAck DEF SendWithAck
  <2> QED
    BY <2>1, ThreadKept
<1>3. ASSUME NEW c \in Calls, Return(c) PROVE ThreadInv'
  <2>1. Grows /\ UNCHANGED <<loop, taken>>
    BY <1>3, GrowsOnReturn
  <2>2. \A x \in Calls : resultCh'[x] \in {resultCh[x], "empty"}
    BY <1>3 DEF Return, PublishReachesCore, PublishReturns, PublishFails, ReceiveResult, GiveUp, TypeInv, TypeOK
  <2> QED
    BY <2>1, <2>2, ThreadKept
<1>4. ASSUME NEW d \in Drivers, Loop(d) PROVE ThreadInv'
  <2>1. CASE Poll(d) \/ DropExpired(d) \/ DropOwn(d) \/ DispatchRequest(d) \/ DropReply(d)
    <3>1. UNCHANGED <<resultCh, taken>> /\ loop[d] # "resolve"
      BY <2>1 DEF Poll, DropExpired, DropOwn, DropReply, Ignore, DispatchRequest, Advance, callVars
    <3>2. \A x \in Drivers : loop'[x] = "resolve" => loop[x] = "resolve"
      BY <2>1, <3>1 DEF Poll, DropExpired, DropOwn, DropReply, Ignore, DispatchRequest, LoopOn, TypeInv, TypeOK
    <3> QED
      BY <1>4, <3>1, <3>2, GrowsOnLoop, ThreadKept
  <2> QED
    BY <1>4, <2>1, ThreadTake, ThreadResolve DEF Loop
<1>5. ASSUME NEW d \in Drivers, SendReply(d) PROVE ThreadInv'
  <2>1. Grows
    BY <1>5, MailSendReply
  <2>2. UNCHANGED <<resultCh, taken, loop>>
    BY <1>5 DEF SendReply, callVars
  <2> QED
    BY <2>1, <2>2, ThreadKept
<1>6. ASSUME NEW d \in Drivers, Restart(d) PROVE ThreadInv'
  <2>1. Grows /\ UNCHANGED resultCh
    BY <1>6, GrowsOnRestart DEF Restart
  <2>2. loop'[d] = "poll" /\ \A x \in Drivers \ {d} : loop'[x] = loop[x] /\ taken'[x] = taken[x]
    BY <1>6 DEF Restart, TypeInv, TypeOK
  <2> QED
    BY <2>1, <2>2, ThreadKept
<1>7. CASE UNCHANGED vars
  <2>1. Grows /\ UNCHANGED <<resultCh, loop, taken>>
    BY <1>7 DEF vars, Grows
  <2> QED
    BY <2>1, ThreadKept
<1> QED
  BY <1>1, <1>2, <1>3, <1>4, <1>5, <1>6, <1>7 DEF Next

ThreadOf(c) == IF state[c] = "idle" THEN NoCall ELSE <<envelope[c].source, envelope[c].corr>>
StatusOf(c) == CASE state[c] \in Underway -> "open"
                 [] state[c] \in Replies \cup {"idle"} -> state[c]
                 [] OTHER -> "over"

ThreadBar == [c \in Calls |-> ThreadOf(c)]
StatusBar == [c \in Calls |-> StatusOf(c)]

LEMMA Statuses ==
    ASSUME NEW c \in Calls
    PROVE  /\ state[c] = "idle" => StatusOf(c) = "idle"
           /\ state[c] \in {"registered", "published", "waiting"} => StatusOf(c) = "open"
           /\ state[c] \in {"acked", "nacked"} => StatusOf(c) = state[c]
           /\ state[c] \in {"sent", "failed", "gaveUp", "dead"} => StatusOf(c) = "over"
  BY DEF StatusOf, Underway, Replies

(* Where each call stands does not change.                                 *)
LEMMA BarsKept ==
    ASSUME UNCHANGED envelope, \A c \in Calls : StatusOf(c)' = StatusOf(c),
           \A c \in Calls : state[c] = "idle" <=> state'[c] = "idle"
    PROVE  UNCHANGED <<ThreadBar, StatusBar>>
<1>1. \A c \in Calls : ThreadOf(c)' = ThreadOf(c)
  BY DEF ThreadOf
<1> QED
  BY <1>1 DEF ThreadBar, StatusBar

LEMMA CallIsMade ==
    ASSUME TypeInv, NEW c \in Calls, state[c] = "idle", UNCHANGED outcomes,
           state'[c] \in {"registered", "sent", "failed"}, envelope'[c].source \in Drivers,
           envelope'[c].corr \in CorrIDs,
           \A x \in Calls \ {c} : state'[x] = state[x] /\ envelope'[x] = envelope[x]
    PROVE  Acks!Make(c)
<1>1. \A x \in Calls \ {c} : ThreadOf(x)' = ThreadOf(x) /\ StatusOf(x)' = StatusOf(x)
  BY DEF ThreadOf, StatusOf
<1>2. ThreadOf(c)' = <<envelope'[c].source, envelope'[c].corr>> /\ ThreadOf(c)' \in Drivers \X CorrIDs
  BY DEF ThreadOf
<1>3. StatusOf(c) = "idle" /\ StatusOf(c)' \in {"open", "over"}
  BY DEF StatusOf, Underway, Replies
<1>4. ThreadBar' = [ThreadBar EXCEPT ![c] = ThreadOf(c)']
  BY <1>1 DEF ThreadBar
<1>5. StatusBar' = [StatusBar EXCEPT ![c] = StatusOf(c)'] /\ StatusBar[c] = "idle"
  BY <1>1, <1>3 DEF StatusBar
<1> QED
  BY <1>2, <1>3, <1>4, <1>5 DEF Acks!Make, ThreadBar, ThreadOf, StatusBar, StatusOf

LEMMA CallIsSent ==
    ASSUME TypeInv, NEW c \in Calls, NEW from \in Drivers, NEW group, Send(c, from, group)
    PROVE  Acks!Make(c)
<1>1. PICK corr \in CorrIDs :
         envelope' = [envelope EXCEPT ![c] = [source |-> from, group |-> group, corr |-> corr,
                                              requireAck |-> FALSE]]
  BY DEF Send
<1>2. envelope'[c].source = from /\ envelope'[c].corr = corr /\ UNCHANGED outcomes
  BY <1>1 DEF Send, observed, TypeInv
<1> QED
  BY <1>2, GrowsOnSend, CallIsMade

(* An answer is what ThreadInv says of the call's channel.                 *)
LEMMA CallIsAnswered ==
    ASSUME TypeInv, AckInv, ThreadInv, NEW c \in Calls, ReceiveResult(c)
    PROVE  Acks!Answer(c)
<1>1. /\ state[c] = "waiting" /\ resultCh[c] \in Replies /\ Told(c, resultCh[c])
      /\ state'[c] = resultCh[c] /\ UNCHANGED <<envelope, outcomes>>
      /\ \A x \in Calls \ {c} : state'[x] = state[x]
  BY DEF ReceiveResult, Goto, observed, ThreadInv, TypeInv, TypeOK
<1>2. PICK x \in Calls :
        /\ state[x] # "idle" /\ envelope[x].source = envelope[c].source
        /\ envelope[x].corr = envelope[c].corr /\ resultCh[c] \in outcomes[x]
  BY <1>1 DEF Told
<1>3. ThreadOf(x) = ThreadOf(c)
  BY <1>1, <1>2 DEF ThreadOf
<1>4. StatusOf(c) = "open" /\ StatusOf(c)' = resultCh[c]
  BY <1>1 DEF StatusOf, Underway, Replies
<1>5. /\ \A y \in Calls \ {c} : StatusOf(y)' = StatusOf(y)
      /\ \A y \in Calls : ThreadOf(y)' = ThreadOf(y)
  BY <1>1 DEF StatusOf, ThreadOf, Replies
<1>6. StatusBar' = [StatusBar EXCEPT ![c] = resultCh[c]] /\ UNCHANGED ThreadBar
  BY <1>4, <1>5 DEF StatusBar, ThreadBar
<1>7. StatusBar[c] = "open" /\ ThreadBar[x] = ThreadBar[c]
  BY <1>3, <1>4 DEF StatusBar, ThreadBar
<1> QED
  BY <1>1, <1>2, <1>6, <1>7 DEF Acks!Answer, StatusBar, StatusOf, ThreadBar, ThreadOf

(* Calls that end without an answer.                                       *)
LEMMA CallsAreAbandoned ==
    ASSUME NEW C \in SUBSET Calls, \A c \in C : state[c] \in Underway,
           \A c \in C : state'[c] \in {"failed", "gaveUp", "dead"},
           \A c \in Calls \ C : state'[c] = state[c],
           UNCHANGED <<envelope, outcomes>>
    PROVE  Acks!Abandon
<1>1. \A c \in C : StatusOf(c) = "open" /\ StatusOf(c)' = "over"
  BY DEF StatusOf, Underway, Replies
<1>2. \A c \in Calls \ C : StatusOf(c)' = StatusOf(c)
  BY DEF StatusOf
<1>3. \A c \in Calls : ThreadOf(c)' = ThreadOf(c)
  BY DEF ThreadOf, Underway
<1>4. UNCHANGED ThreadBar
  BY <1>3 DEF ThreadBar
<1>5. StatusBar' = [c \in Calls |-> IF c \in C THEN "over" ELSE StatusBar[c]]
  BY <1>1, <1>2 DEF StatusBar
<1>6. C \in SUBSET {c \in Calls : StatusBar[c] = "open"}
  BY <1>1 DEF StatusBar
<1> QED
  BY <1>4, <1>5, <1>6 DEF Acks!Abandon, StatusBar, StatusOf, ThreadBar, ThreadOf

LEMMA CallsReturn ==
    ASSUME TypeInv, AckInv, ThreadInv, NEW c \in Calls, Return(c)
    PROVE  [Acks!Next]_<<ThreadBar, StatusBar, outcomes>>
<1>1. UNCHANGED <<envelope, outcomes>> /\ \A x \in Calls \ {c} : state'[x] = state[x]
  BY GrowsOnReturn
<1>2. CASE PublishReachesCore(c) \/ PublishReturns(c)
  <2>1. state[c] \in Underway /\ state'[c] \in Underway
    BY <1>2 DEF PublishReachesCore, PublishReturns, Goto, Underway, TypeInv, TypeOK
  <2>2. \A x \in Calls : StatusOf(x)' = StatusOf(x) /\ (state[x] = "idle" <=> state'[x] = "idle")
    <3>1. ASSUME NEW x \in Calls \ {c} PROVE StatusOf(x)' = StatusOf(x)
      BY <1>1 DEF StatusOf
    <3>2. StatusOf(c) = "open" /\ StatusOf(c)' = "open"
      BY <2>1 DEF StatusOf, Underway, Replies
    <3>3. state[c] # "idle" /\ state'[c] # "idle"
      BY <2>1 DEF Underway
    <3> QED
      BY <1>1, <3>1, <3>2, <3>3
  <2> QED
    BY <1>1, <2>2, BarsKept
<1>3. CASE PublishFails(c) \/ GiveUp(c)
  <2>1. state[c] \in Underway /\ state'[c] \in {"failed", "gaveUp"}
    BY <1>3 DEF PublishFails, GiveUp, Goto, Underway, TypeInv, TypeOK
  <2>2. Acks!Abandon
    <3>1. {c} \in SUBSET Calls /\ \A x \in {c} : state[x] \in Underway
      BY <2>1
    <3>2. \A x \in {c} : state'[x] \in {"failed", "gaveUp", "dead"}
      BY <2>1
    <3> QED
      BY <1>1, <3>1, <3>2, CallsAreAbandoned
  <2> QED
    BY <2>2 DEF Acks!Next
<1>4. CASE ReceiveResult(c)
  BY <1>4, CallIsAnswered DEF Acks!Next
<1> QED
  BY <1>2, <1>3, <1>4 DEF Return

LEMMA CallsLoop ==
    ASSUME TypeInv, MailInv, NEW d \in Drivers, Loop(d)
    PROVE  [Acks!Next]_<<ThreadBar, StatusBar, outcomes>>
<1>1. UNCHANGED <<state, envelope>>
  BY GrowsOnLoop
<1>2. UNCHANGED <<ThreadBar, StatusBar>>
  BY <1>1 DEF ThreadBar, ThreadOf, StatusBar, StatusOf
<1>3. CASE DispatchRequest(d)
  <2>1. PICK m \in Message : m = NextMessage(d) /\ In(m, d)
    BY <1>3, NextIsQueued DEF DispatchRequest, NextMessage, In
  <2>2. m.call \in Calls /\ state[m.call] # "idle"
    BY <2>1 DEF MailInv, MessageOf, Message
  <2>3. \E outcome \in Replies : outcomes' = [outcomes EXCEPT ![m.call] = @ \cup {outcome}]
    BY <1>3, <2>1 DEF DispatchRequest
  <2>4. StatusBar[m.call] # "idle"
    BY <2>2 DEF StatusBar, StatusOf, Replies
  <2>5. Acks!Handle(m.call)
    BY <1>2, <2>3, <2>4 DEF Acks!Handle, Acks!Answered, Replies, ThreadBar, ThreadOf, StatusBar, StatusOf
  <2> QED
    BY <2>2, <2>5 DEF Acks!Next
<1>4. CASE UNCHANGED outcomes
  BY <1>2, <1>4
<1> QED
  BY <1>3, <1>4 DEF Loop, Poll, DropExpired, DropOwn, DropReply, Ignore, TakePending, Resolve, observed

LEMMA CallsSteps ==
    ASSUME TypeInv, MailInv, AckInv, ThreadInv, [Next]_vars
    PROVE  [Acks!Next]_<<ThreadBar, StatusBar, outcomes>>
<1>1. ASSUME NEW c \in Calls, NEW from \in Senders, NEW group \in Groups, Send(c, from, group)
      PROVE  [Acks!Next]_<<ThreadBar, StatusBar, outcomes>>
  BY <1>1, SendersAssumption, CallIsSent DEF Acks!Next
<1>2. ASSUME NEW c \in Calls, NEW from \in Senders, NEW to \in Targets, SendWithAck(c, from, to)
      PROVE  [Acks!Next]_<<ThreadBar, StatusBar, outcomes>>
  <2>1. Acks!Make(c)
    <3>1. from \in Drivers /\ UNCHANGED outcomes
      BY <1>2, SendersAssumption DEF SendWithAck, observed
    <3>2. /\ state[c] = "idle" /\ state'[c] = "registered"
          /\ \A x \in Calls \ {c} : state'[x] = state[x] /\ envelope'[x] = envelope[x]
          /\ envelope'[c].source \in Drivers /\ envelope'[c].corr \in CorrIDs
      BY <1>2, <3>1, GrowsOnSendWithAck
    <3> QED
      BY <3>1, <3>2, CallIsMade
  <2> QED
    BY <2>1 DEF Acks!Next
<1>3. ASSUME NEW d \in Drivers, SendReply(d) \/ UNCHANGED vars
      PROVE  [Acks!Next]_<<ThreadBar, StatusBar, outcomes>>
  <2>1. UNCHANGED <<state, envelope, outcomes>>
    BY <1>3 DEF SendReply, callVars, observed, vars
  <2> QED
    BY <2>1 DEF ThreadBar, ThreadOf, StatusBar, StatusOf
<1>4. ASSUME NEW d \in Drivers, Restart(d)
      PROVE  [Acks!Next]_<<ThreadBar, StatusBar, outcomes>>
  <2> DEFINE C == {c \in Calls : state[c] \in Underway /\ envelope[c].source = d}
  <2>1. \A c \in Calls : state'[c] = IF c \in C THEN "dead" ELSE state[c]
    BY <1>4 DEF Restart
  <2>2. UNCHANGED <<envelope, outcomes>>
    BY <1>4 DEF Restart, observed
  <2>3. C \in SUBSET Calls /\ \A c \in C : state[c] \in Underway
    OBVIOUS
  <2> HIDE DEF C
  <2>4. Acks!Abandon
    BY <2>1, <2>2, <2>3, CallsAreAbandoned
  <2> QED
    BY <2>4 DEF Acks!Next
<1>5. CASE UNCHANGED vars
  <2>1. UNCHANGED <<state, envelope, outcomes>>
    BY <1>5 DEF vars
  <2> QED
    BY <2>1 DEF ThreadBar, ThreadOf, StatusBar, StatusOf
<1> QED
  BY <1>1, <1>2, <1>3, <1>4, <1>5, CallsReturn, CallsLoop DEF Next

(* To its callers the bus is AnsweredCalls, for any number of drivers and  *)
(* calls: a call ends once, and an answer is what handlers did with a      *)
(* message of its driver and correlation id, whatever restarts, replays,   *)
(* late and duplicate replies there are (SendWithAck, handleAckMessage).   *)
THEOREM AnswersTrulyAlways == Spec => AnswersTruly
<1>1. Init => Acks!Init
  BY DEF Init, Acks!Init, Underway, Replies
<1>2. Init => ThreadInv
  BY DEF Init, ThreadInv, Taking
<1>3. TypeInv /\ MailInv /\ AckInv /\ ThreadInv /\ [Next]_vars
          => [Acks!Next]_<<ThreadBar, StatusBar, outcomes>>
  BY CallsSteps
<1>4. Spec => []MailInv
  BY TypeInvariant, MailInit, MailSteps, PTL DEF Spec
<1>5. Spec => []ThreadInv
  BY <1>2, <1>4, TypeInvariant, AckInvariant, ThreadSteps, PTL DEF Spec
<1> QED
  BY <1>1, <1>3, <1>4, <1>5, TypeInvariant, AckInvariant, PTL
     DEF Spec, AnswersTruly, Acks!Spec, Acks!callsVars, ThreadBar, ThreadOf, StatusBar, StatusOf
-----------------------------------------------------------------------------
(* What is handled once, in a run in which every new bus moves its cursor  *)
(* past all that is queued: its fast-forward neither fails nor finds more  *)
(* than its polls reach.                                                   *)
SkipsQueue == \A d \in Drivers : Restart(d) => afterID'[d] = Len(queue[d])

(* Place i of d's queue holds a request that asks for an acknowledgment.   *)
Asked(d, i) == queue[d][i].type = "request" /\ envelope[queue[d][i].call].requireAck

HandledOnce ==
    /\ \A d \in Drivers : \A i \in 1..Len(queue[d]) :
          Asked(d, i) /\ i > afterID[d] => outcomes[queue[d][i].call] = {}
    /\ \A c \in Calls : state[c] # "idle" /\ envelope[c].requireAck =>
          \A r, s \in outcomes[c] : r = s

Unpublished == {"idle", "registered"}

(* A call is in one queue once, after it was published, and nobody has     *)
(* handled it before.                                                      *)
OnceInv ==
    /\ HandledOnce
    /\ \A d \in Drivers : \A i \in 1..Len(queue[d]) : Asked(d, i) =>
          /\ state[queue[d][i].call] \notin Unpublished
          /\ \A e \in Drivers : \A j \in 1..Len(queue[e]) :
                Asked(e, j) /\ queue[e][j].call = queue[d][i].call => e = d /\ j = i
    /\ \A c \in Calls :
          /\ state[c] \in Unpublished => outcomes[c] = {}
          /\ state[c] = "registered" => envelope[c].requireAck

LEMMA CallOfPlace ==
    ASSUME TypeInv, MailInv, NEW d \in Drivers, NEW i \in 1..Len(queue[d])
    PROVE  queue[d][i] \in Message /\ queue[d][i].call \in Calls /\ state[queue[d][i].call] # "idle"
<1>1. queue[d][i] \in Message
  BY ElementOfSeq DEF TypeInv, TypeOK
<1>2. In(queue[d][i], d)
  BY DEF In
<1> QED
  BY <1>1, <1>2 DEF MailInv, MessageOf, Message

(* Nothing is handled, and no request for an acknowledgment is queued.     *)
LEMMA OnceKept ==
    ASSUME TypeInv, MailInv, OnceInv, Grows, UNCHANGED outcomes,
           \A d \in Drivers : \A i \in 1..Len(queue'[d]) :
               \/ i \in 1..Len(queue[d]) /\ queue'[d][i] = queue[d][i]
               \/ ~Asked(d, i)',
           \A d \in Drivers : \A i \in 1..Len(queue[d]) : i > afterID'[d] => i > afterID[d],
           \A c \in Calls :
               /\ state'[c] \in Unpublished => state[c] \in Unpublished
               /\ state'[c] = "registered" => envelope'[c].requireAck
    PROVE  OnceInv'
<1>1. ASSUME NEW d \in Drivers, NEW i \in 1..Len(queue'[d]), Asked(d, i)'
      PROVE  /\ i \in 1..Len(queue[d]) /\ queue'[d][i] = queue[d][i] /\ Asked(d, i)
             /\ queue[d][i].call \in Calls /\ state[queue[d][i].call] # "idle"
  <2>1. i \in 1..Len(queue[d]) /\ queue'[d][i] = queue[d][i]
    BY <1>1
  <2>2. queue[d][i].call \in Calls /\ state[queue[d][i].call] # "idle"
    BY <2>1, CallOfPlace
  <2>3. Asked(d, i)
    BY <1>1, <2>1, <2>2 DEF Asked, Grows
  <2> QED
    BY <2>1, <2>2, <2>3
<1>2. ASSUME NEW d \in Drivers, NEW i \in 1..Len(queue'[d]), Asked(d, i)'
      PROVE  /\ i > afterID'[d] => outcomes'[queue'[d][i].call] = {}
             /\ state'[queue'[d][i].call] \notin Unpublished
             /\ \A e \in Drivers : \A j \in 1..Len(queue'[e]) :
                   Asked(e, j)' /\ queue'[e][j].call = queue'[d][i].call => e = d /\ j = i
  <2>1. /\ i \in 1..Len(queue[d]) /\ queue'[d][i] = queue[d][i] /\ Asked(d, i)
        /\ queue[d][i].call \in Calls
    BY <1>1, <1>2
  <2>2. i > afterID'[d] => i > afterID[d]
    BY <2>1
  <2>3. i > afterID[d] => outcomes[queue[d][i].call] = {}
    BY <2>1 DEF OnceInv, HandledOnce
  <2>4. state[queue[d][i].call] \notin Unpublished
    BY <2>1 DEF OnceInv
  <2>5. ASSUME NEW e \in Drivers, NEW j \in 1..Len(queue'[e]), Asked(e, j)',
               queue'[e][j].call = queue'[d][i].call
        PROVE  e = d /\ j = i
    <3>1. j \in 1..Len(queue[e]) /\ queue'[e][j] = queue[e][j] /\ Asked(e, j)
      BY <1>1, <2>5
    <3> QED
      BY <2>1, <2>5, <3>1 DEF OnceInv
  <2> QED
    BY <2>1, <2>2, <2>3, <2>4, <2>5
<1>3. ASSUME NEW c \in Calls, state'[c] # "idle", envelope'[c].requireAck
      PROVE  \A r, s \in outcomes'[c] : r = s
  <2>1. CASE state[c] = "idle"
    BY <2>1 DEF OnceInv, Unpublished
  <2>2. CASE state[c] # "idle"
    BY <1>3, <2>2 DEF OnceInv, HandledOnce, Grows
  <2> QED
    BY <2>1, <2>2
<1>4. \A c \in Calls : state'[c] \in Unpublished => outcomes'[c] = {}
  BY DEF OnceInv
<1>5. HandledOnce'
  BY <1>2, <1>3 DEF HandledOnce
<1> QED
  BY <1>2, <1>4, <1>5 DEF OnceInv

(* A request for an acknowledgment is published, once.                     *)
LEMMA OncePublish ==
    ASSUME TypeInv, MailInv, OnceInv, NEW c \in Calls, PublishReachesCore(c)
    PROVE  OnceInv'
<1>1. /\ state[c] = "registered" /\ state'[c] = "published"
      /\ \A x \in Calls \ {c} : state'[x] = state[x]
      /\ UNCHANGED <<afterID, envelope, outcomes>>
  BY DEF PublishReachesCore, Goto, observed, TypeInv, TypeOK
<1>2. PICK to \in envelope[c].group : Queued(to, Request(c))
  BY DEF PublishReachesCore
<1>3. to \in Drivers /\ Request(c) \in Message /\ Request(c).call = c
  BY <1>1, RequestIsMessage DEF Envelope, Request
<1>4. \A d \in Drivers : \A i \in 1..Len(queue'[d]) :
          \/ i \in 1..Len(queue[d]) /\ queue'[d][i] = queue[d][i]
          \/ d = to /\ i = Len(queue[to]) + 1 /\ queue'[d][i] = Request(c)
  <2>1. queue[to] \in Seq(Message) /\ Len(queue[to]) \in Nat
    BY <1>3, LenProperties DEF TypeInv, TypeOK
  <2>2. queue'[to] = Append(queue[to], Request(c)) /\ \A d \in Drivers \ {to} : queue'[d] = queue[d]
    BY <1>2, <1>3 DEF Queued, TypeInv, TypeOK
  <2>3. /\ Len(queue'[to]) = Len(queue[to]) + 1 /\ queue'[to][Len(queue[to]) + 1] = Request(c)
        /\ \A i \in 1..Len(queue[to]) : queue'[to][i] = queue[to][i]
    BY <1>3, <2>1, <2>2, AppendProperties
  <2>4. \A i \in 1..Len(queue'[to]) : i \in 1..Len(queue[to]) \/ i = Len(queue[to]) + 1
    BY <2>1, <2>3
  <2> QED
    BY <2>2, <2>3, <2>4
<1>5. \A d \in Drivers : \A i \in 1..Len(queue[d]) : Asked(d, i) => queue[d][i].call # c
  BY <1>1 DEF OnceInv, Unpublished
<1>6. outcomes[c] = {} /\ envelope[c].requireAck
  BY <1>1 DEF OnceInv, Unpublished
<1>7. ASSUME NEW d \in Drivers, NEW i \in 1..Len(queue'[d]), Asked(d, i)'
      PROVE  \/ i \in 1..Len(queue[d]) /\ queue'[d][i] = queue[d][i] /\ Asked(d, i)
             \/ d = to /\ i = Len(queue[to]) + 1 /\ queue'[d][i].call = c
  BY <1>1, <1>3, <1>4, <1>7 DEF Asked
<1>8. ASSUME NEW d \in Drivers, NEW i \in 1..Len(queue'[d]), Asked(d, i)'
      PROVE  /\ i > afterID'[d] => outcomes'[queue'[d][i].call] = {}
             /\ state'[queue'[d][i].call] \notin Unpublished
             /\ \A e \in Drivers : \A j \in 1..Len(queue'[e]) :
                   Asked(e, j)' /\ queue'[e][j].call = queue'[d][i].call => e = d /\ j = i
  <2>1. CASE i \in 1..Len(queue[d]) /\ queue'[d][i] = queue[d][i] /\ Asked(d, i)
    <3>1. queue[d][i].call \in Calls \ {c}
      BY <1>5, <2>1, CallOfPlace
    <3>2. (i > afterID[d] => outcomes[queue[d][i].call] = {}) /\ state[queue[d][i].call] \notin Unpublished
      BY <2>1 DEF OnceInv, HandledOnce
    <3>3. ASSUME NEW e \in Drivers, NEW j \in 1..Len(queue'[e]), Asked(e, j)',
                 queue'[e][j].call = queue'[d][i].call
          PROVE  e = d /\ j = i
      <4>1. j \in 1..Len(queue[e]) /\ queue'[e][j] = queue[e][j] /\ Asked(e, j)
        BY <1>7, <2>1, <3>1, <3>3
      <4> QED
        BY <2>1, <3>3, <4>1 DEF OnceInv
    <3> QED
      BY <1>1, <2>1, <3>1, <3>2, <3>3
  <2>2. CASE d = to /\ i = Len(queue[to]) + 1 /\ queue'[d][i].call = c
    <3>1. ASSUME NEW e \in Drivers, NEW j \in 1..Len(queue'[e]), Asked(e, j)',
                 queue'[e][j].call = c
          PROVE  e = d /\ j = i
      BY <1>5, <1>7, <2>2, <3>1
    <3> QED
      BY <1>1, <1>6, <2>2, <3>1 DEF Unpublished
  <2> QED
    BY <1>7, <1>8, <2>1, <2>2
<1>9. /\ \A x \in Calls : state'[x] # "idle" /\ envelope'[x].requireAck => \A r, s \in outcomes'[x] : r = s
      /\ \A x \in Calls : /\ state'[x] \in Unpublished => outcomes'[x] = {}
                          /\ state'[x] = "registered" => envelope'[x].requireAck
  BY <1>1, <1>6 DEF OnceInv, HandledOnce, Unpublished
<1>10. HandledOnce'
  BY <1>8, <1>9 DEF HandledOnce
<1> QED
  BY <1>8, <1>9, <1>10 DEF OnceInv

(* A request is handled: it is behind the cursor from then on.             *)
LEMMA OnceDispatch ==
    ASSUME TypeInv, MailInv, OnceInv, NEW d \in Drivers, DispatchRequest(d)
    PROVE  OnceInv'
<1> DEFINE p == afterID[d] + 1
<1>1. p \in 1..Len(queue[d]) /\ p > afterID[d] /\ afterID[d] \in Nat
  BY NextIsQueued DEF DispatchRequest
<1>2. /\ UNCHANGED <<queue, state, envelope>> /\ afterID'[d] = p
      /\ \A e \in Drivers \ {d} : afterID'[e] = afterID[e]
  BY Advances DEF DispatchRequest, callVars
<1>3. PICK outcome \in Replies : outcomes' = [outcomes EXCEPT ![queue[d][p].call] = @ \cup {outcome}]
  BY DEF DispatchRequest, NextMessage
<1> DEFINE c == queue[d][p].call
<1>4. c \in Calls /\ state[c] # "idle" /\ queue[d][p].type = "request"
  BY <1>1, CallOfPlace DEF DispatchRequest, NextMessage
<1>5. outcomes'[c] = outcomes[c] \cup {outcome} /\ \A x \in Calls \ {c} : outcomes'[x] = outcomes[x]
  BY <1>3, <1>4 DEF TypeInv, TypeOK
<1>6. Asked(d, p) => outcomes[c] = {}
  BY <1>1 DEF OnceInv, HandledOnce
<1>7. Asked(d, p) <=> envelope[c].requireAck
  BY <1>4 DEF Asked
<1>8. state[c] \notin Unpublished
  <2>1. Asked(d, p) => state[c] \notin Unpublished
    BY <1>1 DEF OnceInv
  <2>2. state[c] = "registered" => envelope[c].requireAck
    BY <1>4 DEF OnceInv
  <2> QED
    BY <1>4, <1>7, <2>1, <2>2 DEF Unpublished
<1>9. ASSUME NEW e \in Drivers, NEW i \in 1..Len(queue[e]), Asked(e, i), i > afterID'[e]
      PROVE  outcomes'[queue[e][i].call] = {}
  <2>1. i > afterID[e] /\ ~(e = d /\ i = p)
    BY <1>1, <1>2, <1>9
  <2>2. outcomes[queue[e][i].call] = {} /\ queue[e][i].call \in Calls
    BY <1>9, <2>1, CallOfPlace DEF OnceInv, HandledOnce
  <2>3. queue[e][i].call # c
    <3>1. CASE queue[e][i].call = c
      <4>1. Asked(d, p)
        BY <1>7, <1>9, <3>1 DEF Asked
      <4>2. e = d /\ i = p
        BY <1>1, <1>9, <3>1, <4>1 DEF OnceInv
      <4> QED
        BY <2>1, <4>2
    <3> QED
      BY <3>1
  <2> QED
    BY <1>5, <2>2, <2>3
<1>10. \A x \in Calls : state[x] # "idle" /\ envelope[x].requireAck => \A r, s \in outcomes'[x] : r = s
  <2>1. envelope[c].requireAck => \A r, s \in outcomes'[c] : r = s
    BY <1>5, <1>6, <1>7
  <2> QED
    BY <1>5, <2>1 DEF OnceInv, HandledOnce
<1>11. \A x \in Calls : state[x] \in Unpublished => outcomes'[x] = {}
  BY <1>5, <1>8 DEF OnceInv
<1> HIDE DEF c, p
<1>12. HandledOnce'
  BY <1>2, <1>9, <1>10 DEF HandledOnce, Asked
<1> QED
  BY <1>2, <1>11, <1>12 DEF OnceInv, Asked

LEMMA OnceSteps ==
    ASSUME TypeInv, MailInv, OnceInv, [Next]_vars, [SkipsQueue]_vars
    PROVE  OnceInv'
<1>1. ASSUME UNCHANGED queue
      PROVE  \A d \in Drivers : \A i \in 1..Len(queue'[d]) :
                 i \in 1..Len(queue[d]) /\ queue'[d][i] = queue[d][i]
  BY <1>1
<1>2. ASSUME NEW c \in Calls, NEW from \in Senders, NEW group \in Groups, Send(c, from, group)
      PROVE  OnceInv'
  <2>1. PICK corr \in CorrIDs :
            /\ envelope' = [envelope EXCEPT ![c] = [source |-> from, group |-> group, corr |-> corr,
                                                    requireAck |-> FALSE]]
            /\ \/ Mailed([type |-> "request", source |-> from, corr |-> corr, call |-> c], group)
               \/ UNCHANGED queue
    BY <1>2 DEF Send, Mailed
  <2> DEFINE m == [type |-> "request", source |-> from, corr |-> corr, call |-> c]
  <2>2. m \in Message /\ m.call = c
    BY SendersAssumption DEF Message
  <2> HIDE DEF m
  <2>3. envelope'[c].requireAck = FALSE
    BY <2>1 DEF TypeInv
  <2>4. \A d \in Drivers : \A i \in 1..Len(queue'[d]) :
            \/ i \in 1..Len(queue[d]) /\ queue'[d][i] = queue[d][i]
            \/ queue'[d][i] = m
    <3>1. group \in SUBSET Drivers
      BY SendersAssumption
    <3>2. CASE Mailed(m, group)
      BY <2>2, <3>1, <3>2, MailedTo DEF TypeInv
    <3> QED
      BY <1>1, <2>1, <3>2 DEF m
  <2>5. /\ Grows /\ state[c] = "idle" /\ state'[c] \in {"sent", "failed"}
        /\ \A x \in Calls \ {c} : state'[x] = state[x] /\ envelope'[x] = envelope[x]
    BY <1>2, GrowsOnSend
  <2>6. UNCHANGED <<outcomes, afterID>>
    BY <1>2 DEF Send, observed
  <2>7. \A d \in Drivers : \A i \in 1..Len(queue'[d]) :
            \/ i \in 1..Len(queue[d]) /\ queue'[d][i] = queue[d][i]
            \/ ~Asked(d, i)'
    BY <2>2, <2>3, <2>4 DEF Asked
  <2>8. \A x \in Calls : /\ state'[x] \in Unpublished => state[x] \in Unpublished
                         /\ state'[x] = "registered" => envelope'[x].requireAck
    BY <2>5 DEF OnceInv, Unpublished
  <2> QED
    BY <2>5, <2>6, <2>7, <2>8, OnceKept
<1>3. ASSUME NEW c \in Calls, NEW from \in Senders, NEW to \in Targets, SendWithAck(c, from, to)
      PROVE  OnceInv'
  <2>1. /\ Grows /\ state[c] = "idle"
        /\ \A x \in Calls \ {c} : state'[x] = state[x] /\ envelope'[x] = envelope[x]
    BY <1>3, SendersAssumption, GrowsOnSendWithAck
  <2>2. envelope'[c].requireAck
    BY <1>3 DEF SendWithAck, TypeInv
  <2>3. UNCHANGED <<queue, outcomes, afterID>>
    BY <1>3 DEF SendWithAck, observed
  <2>4. \A x \in Calls : /\ state'[x] \in Unpublished => state[x] \in Unpublished
                         /\ state'[x] = "registered" => envelope'[x].requireAck
    BY <2>1, <2>2 DEF OnceInv, Unpublished
  <2> QED
    BY <1>1, <2>1, <2>3, <2>4, OnceKept
<1>4. ASSUME NEW c \in Calls, Return(c) PROVE OnceInv'
  <2>1. CASE ~PublishReachesCore(c)
    <3>1. Grows /\ UNCHANGED <<envelope, outcomes>> /\ \A x \in Calls \ {c} : state'[x] = state[x]
      BY <1>4, GrowsOnReturn
    <3>2. UNCHANGED <<queue, afterID>> /\ state'[c] \notin Unpublished
      BY <1>4, <2>1 DEF Return, PublishReturns, PublishFails, ReceiveResult, GiveUp, Goto, busVars, TypeInv,
                        TypeOK, Unpublished, Replies
    <3>3. \A x \in Calls : /\ state'[x] \in Unpublished => state[x] \in Unpublished
                           /\ state'[x] = "registered" => envelope'[x].requireAck
      BY <3>1, <3>2 DEF OnceInv, Unpublished
    <3> QED
      BY <1>1, <3>1, <3>2, <3>3, OnceKept
  <2> QED
    BY <1>4, <2>1, OncePublish
<1>5. ASSUME NEW d \in Drivers, Loop(d) PROVE OnceInv'
  <2>1. CASE ~DispatchRequest(d)
    <3>1. Grows /\ UNCHANGED <<queue, state, envelope>>
      BY <1>5, GrowsOnLoop
    <3>2. UNCHANGED outcomes
      BY <1>5, <2>1 DEF Loop, Poll, DropExpired, DropOwn, DropReply, Ignore, TakePending, Resolve, observed
    <3>3. UNCHANGED afterID \/ Advance(d)
      BY <1>5, <2>1 DEF Loop, Poll, DropExpired, DropOwn, DropReply, Ignore, TakePending, Resolve
    <3>4. \A e \in Drivers : afterID[e] \in Nat /\ afterID[e] <= afterID'[e] /\ afterID'[e] \in Nat
      <4>1. \A e \in Drivers : afterID'[e] = afterID[e] \/ (e = d /\ afterID'[e] = afterID[e] + 1)
        BY <3>3, Advances
      <4>2. afterID \in [Drivers -> Nat]
        BY DEF TypeInv, TypeOK
      <4>3. \A e \in Drivers : afterID[e] \in Nat
        BY <4>2
      <4>4. \A n \in Nat : n <= n /\ n + 1 \in Nat /\ n <= n + 1
        OBVIOUS
      <4> QED
        BY <4>1, <4>3, <4>4
    <3>5. \A e \in Drivers : \A i \in 1..Len(queue[e]) : i > afterID'[e] => i > afterID[e]
      BY <3>4
    <3>6. \A x \in Calls : /\ state'[x] \in Unpublished => state[x] \in Unpublished
                           /\ state'[x] = "registered" => envelope'[x].requireAck
      BY <3>1 DEF OnceInv
    <3> QED
      BY <1>1, <3>1, <3>2, <3>5, <3>6, OnceKept
  <2> QED
    BY <1>5, <2>1, OnceDispatch
<1>6. ASSUME NEW d \in Drivers, SendReply(d) PROVE OnceInv'
  <2>1. PICK r \in replies[d] :
            /\ \/ Queued(r.to, [type |-> r.type, source |-> d, corr |-> r.corr, call |-> r.call])
               \/ UNCHANGED queue
            /\ UNCHANGED <<afterID, callVars, observed>>
    BY <1>6 DEF SendReply
  <2>2. r \in Reply /\ r.to \in Drivers
    BY DEF Reply, TypeInv, TypeOK
  <2>3. PICK m \in Message : m = [type |-> r.type, source |-> d, corr |-> r.corr, call |-> r.call]
    BY <2>2 DEF Message, Reply
  <2>4. m.type # "request"
    BY <2>2, <2>3 DEF Reply, Replies
  <2>5. \A e \in Drivers : \A i \in 1..Len(queue'[e]) :
            \/ i \in 1..Len(queue[e]) /\ queue'[e][i] = queue[e][i]
            \/ ~Asked(e, i)'
    <3>1. CASE Queued(r.to, m)
      <4>1. Mailed(m, {r.to}) /\ {r.to} \in SUBSET Drivers
        BY <2>2, <3>1, QueuedMails DEF TypeInv
      <4>2. \A e \in Drivers : \A i \in 1..Len(queue'[e]) :
                \/ i \in 1..Len(queue[e]) /\ queue'[e][i] = queue[e][i]
                \/ queue'[e][i] = m
        BY <4>1, MailedTo DEF TypeInv
      <4> QED
        BY <2>4, <4>2 DEF Asked
    <3> QED
      BY <1>1, <2>1, <2>3, <3>1
  <2>6. Grows
    BY <1>6, MailSendReply
  <2>7. \A x \in Calls : /\ state'[x] \in Unpublished => state[x] \in Unpublished
                         /\ state'[x] = "registered" => envelope'[x].requireAck
    BY <2>1 DEF OnceInv, callVars
  <2> QED
    BY <2>1, <2>5, <2>6, <2>7, OnceKept DEF observed
<1>7. ASSUME NEW d \in Drivers, Restart(d), SkipsQueue PROVE OnceInv'
  <2>1. /\ UNCHANGED <<queue, envelope, outcomes>> /\ afterID'[d] = Len(queue[d])
        /\ \A e \in Drivers \ {d} : afterID'[e] = afterID[e]
        /\ \A x \in Calls : state'[x] = state[x] \/ state'[x] = "dead"
    BY <1>7 DEF Restart, SkipsQueue, observed, TypeInv, TypeOK
  <2>2. Len(queue[d]) \in Nat
    BY LenProperties DEF TypeInv, TypeOK
  <2>3. \A e \in Drivers : \A i \in 1..Len(queue[e]) : i > afterID'[e] => i > afterID[e]
    BY <2>1, <2>2
  <2>4. \A x \in Calls : /\ state'[x] \in Unpublished => state[x] \in Unpublished
                         /\ state'[x] = "registered" => envelope'[x].requireAck
    BY <2>1 DEF OnceInv, Unpublished
  <2> QED
    BY <1>1, <1>7, <2>1, <2>3, <2>4, GrowsOnRestart, OnceKept
<1>8. CASE UNCHANGED vars
  BY <1>8 DEF vars, OnceInv, HandledOnce, Asked
<1> QED
  BY <1>2, <1>3, <1>4, <1>5, <1>6, <1>7, <1>8 DEF Next

(* "Fast-forward past existing messages", then: as long as every bus that  *)
(* starts does so, a request is handled by nobody twice, and a call's      *)
(* handlers have one outcome, the one it is answered with (fastForward,    *)
(* dispatchMessage, SendWithAck).                                          *)
THEOREM HandledOnceIfSkipped == Spec /\ [][SkipsQueue]_vars => []HandledOnce
<1>1. Init => OnceInv
  <2> SUFFICES ASSUME Init PROVE OnceInv
    OBVIOUS
  <2>1. \A d \in Drivers : queue[d] = <<>> /\ Len(queue[d]) = 0
    BY EmptySeq DEF Init
  <2> QED
    BY <2>1 DEF Init, OnceInv, HandledOnce, Unpublished
<1>2. TypeInv /\ MailInv /\ OnceInv /\ [Next]_vars /\ [SkipsQueue]_vars => OnceInv'
  BY OnceSteps
<1>3. Spec => []MailInv
  BY TypeInvariant, MailInit, MailSteps, PTL DEF Spec
<1>4. OnceInv => HandledOnce
  BY DEF OnceInv
<1> QED
  BY <1>1, <1>2, <1>3, <1>4, TypeInvariant, PTL DEF Spec
-----------------------------------------------------------------------------
(* The handler table of a message type (HandlerTable, message_bus.go),     *)
(* whose handlers are lost when a registration meets a dispatch.           *)
CONSTANTS Handlers, Wildcards, Nothing, MaxMessages
VARIABLES cells, length, shared, poller, handlers, dispatched, registered

Table == INSTANCE HandlerTable

(* The step registers nothing into spare room of the array while the poll  *)
(* goroutine is between reading the handlers and appending the wildcards.  *)
Apart == poller = "append" /\ length < Len(cells) => UNCHANGED registered

(* The array holds what was registered, and while the dispatch under way   *)
(* shares it, that dispatch appends where the registered handlers end.     *)
TableInv(V) ==
    /\ cells \in Seq(V) /\ registered \in Seq(V)
    /\ length = Len(registered) /\ length <= Len(cells)
    /\ \A i \in 1..length : cells[i] = registered[i]
    /\ shared /\ poller = "append" => handlers.length = length

(* append in place keeps what lies before, and the array's length.         *)
LEMMA Overwritten ==
    ASSUME NEW V, NEW array \in Seq(V), NEW from \in Nat, NEW seq \in Seq(V)
    PROVE  /\ Table!Overwrite(array, from, seq) \in Seq(V)
           /\ Len(Table!Overwrite(array, from, seq)) = Len(array)
           /\ \A i \in 1..Len(array) : i <= from => Table!Overwrite(array, from, seq)[i] = array[i]
<1> DEFINE new == Table!Overwrite(array, from, seq)
<1>1. new = [i \in 1..Len(array) |-> IF i - from \in 1..Len(seq) THEN seq[i - from] ELSE array[i]]
  BY DEF Table!Overwrite
<1>2. \A i \in 1..Len(array) : array[i] \in V /\ (i - from \in 1..Len(seq) => seq[i - from] \in V)
  OBVIOUS
<1>3. new \in Seq(V) /\ Len(new) = Len(array)
  BY <1>1, <1>2
<1>4. \A i \in 1..Len(array) : i <= from => new[i] = array[i]
  BY <1>1
<1> QED
  BY <1>3, <1>4

LEMMA TableSteps ==
    ASSUME NEW V, Handlers \subseteq V, Wildcards \in Seq(V), Nothing \in V,
           TableInv(V), [Table!Next]_(Table!vars), [Apart]_(Table!vars)
    PROVE  TableInv(V)'
<1>1. ASSUME NEW h \in Handlers, Table!RegisterHandler(h) PROVE TableInv(V)'
  <2>1. /\ registered' = Append(registered, h) /\ registered' \in Seq(V)
        /\ length' = length + 1 /\ length' = Len(registered') /\ length \in Nat
        /\ registered'[length'] = h
        /\ \A i \in 1..length : registered'[i] = registered[i]
    BY <1>1 DEF Table!RegisterHandler, TableInv
  <2>2. CASE length < Len(cells)
    <3>1. cells' = Table!Overwrite(cells, length, <<h>>) /\ UNCHANGED <<shared, handlers, poller>>
      BY <1>1, <2>2 DEF Table!RegisterHandler, Table!Capacity
    <3>2. <<h>> \in Seq(V) /\ cells \in Seq(V)
      BY <1>1 DEF TableInv
    <3>3. /\ cells' \in Seq(V) /\ Len(cells') = Len(cells)
          /\ \A i \in 1..length : cells'[i] = cells[i]
      <4>1. Len(cells) \in Nat /\ length <= Len(cells)
        BY <3>2 DEF TableInv
      <4>2. /\ cells' \in Seq(V) /\ Len(cells') = Len(cells)
            /\ \A i \in 1..Len(cells) : i <= length => cells'[i] = cells[i]
        BY <2>1, <3>1, <3>2, Overwritten
      <4> QED
        BY <2>1, <4>1, <4>2
    <3>4. cells'[length'] = h
      BY <2>1, <2>2, <3>1, <3>2 DEF Table!Overwrite
    <3>5. registered' # registered
      BY <2>1 DEF TableInv
    <3>6. poller # "append"
      BY <2>2, <3>5 DEF Apart, Table!vars
    <3> QED
      BY <2>1, <2>2, <3>1, <3>3, <3>4, <3>6 DEF TableInv
  <2>3. CASE length = Len(cells)
    <3>1. /\ cells' = [i \in 1..Table!Size(Len(cells)) |->
                         IF i <= length THEN cells[i] ELSE IF i = length + 1 THEN h ELSE Nothing]
          /\ ~shared'
      BY <1>1, <2>3 DEF Table!RegisterHandler, Table!Capacity
    <3>2. Table!Size(Len(cells)) \in Nat /\ length + 1 <= Table!Size(Len(cells))
      BY <2>1, <2>3 DEF Table!Size
    <3>3. \A i \in 1..length : cells[i] \in V
      BY <2>3 DEF TableInv
    <3>4. /\ cells' \in Seq(V) /\ Len(cells') = Table!Size(Len(cells))
          /\ \A i \in 1..length : cells'[i] = cells[i]
          /\ cells'[length + 1] = h
      <4> DEFINE size == Table!Size(Len(cells))
                 new  == [i \in 1..size |-> IF i <= length THEN cells[i]
                                                          ELSE IF i = length + 1 THEN h ELSE Nothing]
      <4>1. size \in Nat /\ length + 1 \in 1..size /\ h \in V
        BY <1>1, <2>1, <3>2
      <4>2. \A i \in 1..size : new[i] \in V
        BY <2>1, <3>3, <4>1
      <4>3. new \in Seq(V) /\ Len(new) = size
        BY <4>1, <4>2
      <4>4. (\A i \in 1..length : new[i] = cells[i]) /\ new[length + 1] = h
        BY <2>1, <4>1
      <4> HIDE DEF new, size
      <4> QED
        BY <3>1, <4>3, <4>4 DEF new, size
    <3> QED
      BY <2>1, <2>3, <3>1, <3>2, <3>4 DEF TableInv
  <2> QED
    BY <2>2, <2>3 DEF TableInv
<1>2. CASE Table!ReadHandlers
  BY <1>2 DEF Table!ReadHandlers, TableInv
<1>3. CASE Table!AppendWildcards
  <2>1. UNCHANGED <<length, registered>> /\ poller' = "call" /\ poller = "append"
    BY <1>3 DEF Table!AppendWildcards
  <2>2. \/ UNCHANGED cells
        \/ shared /\ cells' = Table!Overwrite(cells, handlers.length, Wildcards)
    BY <1>3 DEF Table!AppendWildcards
  <2>3. shared => handlers.length = length /\ length \in Nat
    BY <2>1 DEF TableInv
  <2>4. /\ cells' \in Seq(V) /\ Len(cells') = Len(cells)
        /\ \A i \in 1..length : cells'[i] = cells[i]
    <3>1. CASE UNCHANGED cells
      BY <3>1 DEF TableInv
    <3>2. CASE shared /\ cells' = Table!Overwrite(cells, handlers.length, Wildcards)
      <4>1. cells' = Table!Overwrite(cells, length, Wildcards) /\ length \in Nat /\ cells \in Seq(V)
        BY <2>3, <3>2 DEF TableInv
      <4>2. length <= Len(cells) /\ Len(cells) \in Nat
        BY DEF TableInv
      <4> QED
        BY <4>1, <4>2, Overwritten
    <3> QED
      BY <2>2, <3>1, <3>2
  <2> QED
    BY <2>1, <2>4 DEF TableInv
<1>4. CASE Table!CallHandlers
  BY <1>4 DEF Table!CallHandlers, TableInv
<1>5. CASE UNCHANGED Table!vars
  BY <1>5 DEF Table!vars, TableInv
<1> QED
  BY <1>1, <1>2, <1>3, <1>4, <1>5 DEF Table!Next

(* RegisterHandler (message_bus.go:192): what was registered is what the   *)
(* bus holds, for any handlers and wildcards, in every run in which the    *)
(* steps are Apart, so whenever handlers are registered before Start.      *)
THEOREM RegisteredIsKeptIfApart ==
    ASSUME NEW S, Wildcards \in Seq(S)
    PROVE  Table!Spec /\ [][Apart]_(Table!vars) => []Table!RegisteredIsKept
<1> DEFINE V == Handlers \cup S \cup {Nothing}
<1>1. Handlers \subseteq V /\ Wildcards \in Seq(V) /\ Nothing \in V
  OBVIOUS
<1>2. Table!Init => TableInv(V)
  BY DEF Table!Init, TableInv
<1>3. TableInv(V) /\ [Table!Next]_(Table!vars) /\ [Apart]_(Table!vars) => TableInv(V)'
  BY <1>1, TableSteps
<1>4. TableInv(V) => Table!RegisteredIsKept
  BY DEF TableInv, Table!RegisteredIsKept
<1> QED
  BY <1>2, <1>3, <1>4, PTL DEF Table!Spec

(* The step registers nothing into spare room of the array while a message *)
(* is dispatched.                                                          *)
Still == poller # "poll" /\ length < Len(cells) => UNCHANGED registered

(* The array the dispatch under way calls the handlers of.                 *)
Array == IF shared THEN cells ELSE handlers.array

(* A message is handed to those who were registered at some moment, the    *)
(* eldest first, and then to all the wildcard handlers.                    *)
CalledAsRegistered ==
    poller = "call" => \E n \in 0..Len(registered) :
        SubSeq(Array, 1, handlers.length) = SubSeq(registered, 1, n) \o Wildcards

(* The first n cells of it hold the first n registered.                    *)
Holds(n) == n <= Len(registered) /\ n <= Len(Array) /\ \A i \in 1..n : Array[i] = registered[i]

(* The n registered are followed by the wildcards.                         *)
Follow(n) ==
    /\ handlers.length = n + Len(Wildcards) /\ handlers.length <= Len(Array)
    /\ \A j \in 1..Len(Wildcards) : Array[n + j] = Wildcards[j]

DispatchInv(V) ==
    /\ poller # "poll" => handlers \in [array : Seq(V), length : Nat]
    /\ poller = "append" => Holds(handlers.length)
    /\ poller = "call" => \E n \in Nat : Holds(n) /\ Follow(n)

LEMMA ArrayIsSeq ==
    ASSUME NEW V, TableInv(V), DispatchInv(V), poller # "poll" PROVE Array \in Seq(V)
  BY DEF TableInv, DispatchInv, Array

(* The wildcards after the first n handlers of an array.                   *)
LEMMA WildcardsFollow ==
    ASSUME NEW V, NEW array \in Seq(V), NEW n \in Nat, n <= Len(array), Wildcards \in Seq(V),
           NEW new,
           \/ new = Table!Overwrite(array, n, Wildcards) /\ n + Len(Wildcards) <= Len(array)
           \/ new = SubSeq(array, 1, n) \o Wildcards
    PROVE  /\ new \in Seq(V) /\ n + Len(Wildcards) <= Len(new)
           /\ \A i \in 1..n : new[i] = array[i]
           /\ \A j \in 1..Len(Wildcards) : new[n + j] = Wildcards[j]
<1>1. CASE new = Table!Overwrite(array, n, Wildcards) /\ n + Len(Wildcards) <= Len(array)
  <2>1. new \in Seq(V) /\ Len(new) = Len(array) /\ \A i \in 1..n : new[i] = array[i]
    BY <1>1, Overwritten
  <2>2. \A j \in 1..Len(Wildcards) : n + j \in 1..Len(array) /\ (n + j) - n = j
    BY <1>1
  <2>3. \A j \in 1..Len(Wildcards) : new[n + j] = Wildcards[j]
    BY <1>1, <2>2 DEF Table!Overwrite
  <2> QED
    BY <1>1, <2>1, <2>3
<1>2. CASE new = SubSeq(array, 1, n) \o Wildcards
  <2>1. /\ SubSeq(array, 1, n) \in Seq(V) /\ Len(SubSeq(array, 1, n)) = n
        /\ \A i \in 1..n : SubSeq(array, 1, n)[i] = array[i]
    OBVIOUS
  <2> QED
    BY <1>2, <2>1
<1> QED
  BY <1>1, <1>2

LEMMA DispatchSteps ==
    ASSUME NEW V, Handlers \subseteq V, Wildcards \in Seq(V), Nothing \in V,
           TableInv(V), TableInv(V)', DispatchInv(V), [Table!Next]_(Table!vars), [Still]_(Table!vars)
    PROVE  DispatchInv(V)'
<1>1. ASSUME NEW h \in Handlers, Table!RegisterHandler(h) PROVE DispatchInv(V)'
  <2>1. /\ registered' = Append(registered, h) /\ registered \in Seq(V) /\ UNCHANGED poller
        /\ Len(registered') = Len(registered) + 1
        /\ \A i \in 1..Len(registered) : registered'[i] = registered[i]
    BY <1>1 DEF Table!RegisterHandler, TableInv
  <2>2. SUFFICES ASSUME poller # "poll" PROVE DispatchInv(V)'
    BY <2>1 DEF DispatchInv
  <2>3. length >= Len(cells)
    <3>1. registered' # registered /\ Len(cells) \in Nat /\ length \in Nat
      BY <2>1 DEF TableInv
    <3> QED
      BY <2>2, <3>1 DEF Still, Table!vars
  <2>4. handlers \in [array : Seq(V), length : Nat]
    BY <2>2 DEF DispatchInv
  <2>5. ~shared' /\ handlers' = IF shared THEN [handlers EXCEPT !.array = cells] ELSE handlers
    BY <1>1, <2>3 DEF Table!RegisterHandler, Table!Capacity, TableInv
  <2>6. /\ Array' = Array /\ handlers'.length = handlers.length
        /\ handlers' \in [array : Seq(V), length : Nat]
    BY <2>4, <2>5 DEF Array, TableInv
  <2>7. \A n \in Nat : Holds(n) => Holds(n)'
    BY <2>1, <2>6 DEF Holds
  <2>8. \A n \in Nat : Follow(n) => Follow(n)'
    BY <2>6 DEF Follow
  <2> QED
    BY <2>1, <2>4, <2>6, <2>7, <2>8 DEF DispatchInv
<1>2. CASE Table!ReadHandlers
  <2>1. /\ poller' = "append" /\ shared' /\ handlers' = [array |-> cells, length |-> length]
        /\ UNCHANGED <<cells, length, registered>>
    BY <1>2 DEF Table!ReadHandlers
  <2>2. cells \in Seq(V) /\ length \in Nat
    BY DEF TableInv
  <2>3. Holds(length)'
    BY <2>1 DEF Holds, Array, TableInv
  <2> QED
    BY <2>1, <2>2, <2>3 DEF DispatchInv, Holds, Array
<1>3. CASE Table!AppendWildcards
  <2>1. poller = "append" /\ poller' = "call" /\ UNCHANGED registered
    BY <1>3 DEF Table!AppendWildcards
  <2>2. PICK n \in Nat : n = handlers.length /\ Holds(n)
    BY <2>1 DEF DispatchInv
  <2>3. handlers \in [array : Seq(V), length : Nat] /\ Array \in Seq(V) /\ n <= Len(Array)
    BY <2>1, <2>2, ArrayIsSeq DEF DispatchInv, Holds
  <2>4. /\ handlers' \in [array : Seq(V), length : Nat]
        /\ handlers'.length = n + Len(Wildcards)
        /\ \/ Array' = Table!Overwrite(Array, n, Wildcards) /\ n + Len(Wildcards) <= Len(Array)
           \/ Array' = SubSeq(Array, 1, n) \o Wildcards
    <3>1. CASE n + Len(Wildcards) <= Len(Array) /\ shared
      BY <1>3, <2>2, <2>3, <3>1 DEF Table!AppendWildcards, Array
    <3>2. CASE n + Len(Wildcards) <= Len(Array) /\ ~shared
      <4>1. Table!Overwrite(Array, n, Wildcards) \in Seq(V)
        BY <2>2, <2>3, Overwritten
      <4>2. /\ handlers' = [array |-> Table!Overwrite(Array, n, Wildcards), length |-> n + Len(Wildcards)]
            /\ ~shared'
        BY <1>3, <2>2, <3>2 DEF Table!AppendWildcards, Array
      <4> QED
        BY <2>2, <2>3, <3>2, <4>1, <4>2 DEF Array
    <3>3. CASE ~(n + Len(Wildcards) <= Len(Array))
      <4>1. SubSeq(Array, 1, n) \o Wildcards \in Seq(V)
        BY <2>2, <2>3, WildcardsFollow
      <4>2. /\ handlers' = [array |-> SubSeq(Array, 1, n) \o Wildcards, length |-> n + Len(Wildcards)]
            /\ ~shared'
        BY <1>3, <2>2, <3>3 DEF Table!AppendWildcards, Array
      <4> QED
        BY <2>2, <2>3, <4>1, <4>2 DEF Array
    <3> QED
      BY <3>1, <3>2, <3>3
  <2>5. /\ n + Len(Wildcards) <= Len(Array')
        /\ \A i \in 1..n : Array'[i] = Array[i]
        /\ \A j \in 1..Len(Wildcards) : Array'[n + j] = Wildcards[j]
    <3>1. PICK array \in Seq(V) : array = Array
      BY <2>3
    <3>2. PICK new : new = Array'
      OBVIOUS
    <3>3. \/ new = Table!Overwrite(array, n, Wildcards) /\ n + Len(Wildcards) <= Len(array)
          \/ new = SubSeq(array, 1, n) \o Wildcards
      BY <2>4, <3>1, <3>2
    <3>4. /\ n + Len(Wildcards) <= Len(new)
          /\ \A i \in 1..n : new[i] = array[i]
          /\ \A j \in 1..Len(Wildcards) : new[n + j] = Wildcards[j]
      <4>1. n <= Len(array)
        BY <2>3, <3>1
      <4> QED
        BY <3>3, <4>1, WildcardsFollow
    <3> QED
      BY <3>1, <3>2, <3>4
  <2>6. Follow(n)'
    BY <2>4, <2>5 DEF Follow
  <2>7. Holds(n)'
    BY <2>1, <2>2, <2>5 DEF Holds
  <2> QED
    BY <2>1, <2>2, <2>4, <2>5, <2>6, <2>7 DEF DispatchInv
<1>4. CASE Table!CallHandlers
  BY <1>4 DEF Table!CallHandlers, DispatchInv
<1>5. CASE UNCHANGED Table!vars
  BY <1>5 DEF Table!vars, DispatchInv, Holds, Follow, Array
<1> QED
  BY <1>1, <1>2, <1>3, <1>4, <1>5 DEF Table!Next

(* dispatchMessage hands a message to the handlers registered when it      *)
(* looked and to every wildcard handler, each once and in order, in every  *)
(* run in which no handler is registered into spare room while a message   *)
(* is dispatched.                                                          *)
THEOREM CalledAsRegisteredIfStill ==
    ASSUME NEW S, Wildcards \in Seq(S)
    PROVE  Table!Spec /\ [][Still]_(Table!vars) => []CalledAsRegistered
<1> DEFINE V == Handlers \cup S \cup {Nothing}
<1>1. Handlers \subseteq V /\ Wildcards \in Seq(V) /\ Nothing \in V
  OBVIOUS
<1>2. Table!Init => TableInv(V) /\ DispatchInv(V)
  BY DEF Table!Init, TableInv, DispatchInv
<1>3. [Still]_(Table!vars) => [Apart]_(Table!vars)
  BY DEF Still, Apart
<1>4. TableInv(V) /\ [Table!Next]_(Table!vars) /\ [Apart]_(Table!vars) => TableInv(V)'
  BY <1>1, TableSteps
<1>5. TableInv(V) /\ TableInv(V)' /\ DispatchInv(V) /\ [Table!Next]_(Table!vars) /\ [Still]_(Table!vars)
      => DispatchInv(V)'
  BY <1>1, DispatchSteps
<1>6. TableInv(V) /\ DispatchInv(V) => CalledAsRegistered
  <2> SUFFICES ASSUME TableInv(V), DispatchInv(V), poller = "call" PROVE CalledAsRegistered
    BY DEF CalledAsRegistered
  <2>1. PICK n \in Nat : Holds(n) /\ Follow(n)
    BY DEF DispatchInv
  <2>2. Array \in Seq(V) /\ registered \in Seq(V) /\ n \in 0..Len(registered)
    BY <2>1, ArrayIsSeq DEF TableInv, Holds
  <2> DEFINE called == SubSeq(Array, 1, handlers.length)
             listed == SubSeq(registered, 1, n) \o Wildcards
  <2>3. called \in Seq(V) /\ Len(called) = n + Len(Wildcards)
        /\ \A i \in 1..(n + Len(Wildcards)) : called[i] = Array[i]
    BY <1>1, <2>1, <2>2 DEF Follow
  <2>4. SubSeq(registered, 1, n) \in Seq(V) /\ Len(SubSeq(registered, 1, n)) = n
        /\ \A i \in 1..n : SubSeq(registered, 1, n)[i] = registered[i]
    BY <2>2
  <2>5. listed \in Seq(V) /\ Len(listed) = n + Len(Wildcards)
        /\ (\A i \in 1..n : listed[i] = registered[i])
        /\ \A j \in 1..Len(Wildcards) : listed[n + j] = Wildcards[j]
    BY <1>1, <2>4
  <2>6. \A i \in 1..(n + Len(Wildcards)) : called[i] = listed[i]
    <3> TAKE i \in 1..(n + Len(Wildcards))
    <3>1. CASE i \in 1..n
      BY <2>1, <2>3, <2>5, <3>1 DEF Holds
    <3>2. CASE i \notin 1..n
      <4>1. PICK j \in 1..Len(Wildcards) : i = n + j
        <5>1. i - n \in 1..Len(Wildcards) /\ i = n + (i - n)
          BY <1>1, <2>1, <3>2
        <5> QED
          BY <5>1
      <4> QED
        BY <2>1, <2>3, <2>5, <4>1 DEF Follow
    <3> QED
      BY <3>1, <3>2
  <2> HIDE DEF called, listed
  <2>7. called = listed
    BY <2>3, <2>5, <2>6
  <2> QED
    BY <2>2, <2>7 DEF CalledAsRegistered, called, listed
<1> QED
  BY <1>2, <1>3, <1>4, <1>5, <1>6, PTL DEF Table!Spec
=============================================================================
