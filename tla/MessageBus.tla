----------------------------- MODULE MessageBus -----------------------------
(***************************************************************************)
(* Driver-to-driver messages with acknowledgment (message_bus.go).  Every  *)
(* driver has one bus: a goroutine that polls the driver's queue at core   *)
(* and dispatches what it finds, the table pendingAcks shared between that *)
(* goroutine and the callers of SendWithAck, and a goroutine per reply.    *)
(*                                                                         *)
(* Core keeps a queue per driver; a message's id is its position there.    *)
(* Requests and replies may be lost on the way to core, may outlive their  *)
(* TTL in the queue, and are handled again when a driver restarts and its  *)
(* fast-forward fails.                                                     *)
(***************************************************************************)
EXTENDS Naturals, Sequences

CONSTANTS
    Drivers,
    Senders,         \* bound: the drivers that send
    Groups,          \* bound: the groups messages without acknowledgment go to
    Targets,         \* bound: the drivers asked for an acknowledgment
    Calls,           \* messages the drivers send
    CorrIDs,         \* correlation ids: generated, or given with WithCorrelationID
    NoCall,          \* no pending acknowledgment under a correlation id
    FastForwardMax,  \* 6 polls of 500 in fastForward
    MaxFaults        \* bound: requests to core that fail, and restarts of a driver

ASSUME SendersAssumption ==
    Senders \subseteq Drivers /\ Targets \subseteq Drivers /\ Groups \subseteq SUBSET Drivers
ASSUME NoCallAssumption == NoCall \notin Calls
ASSUME FastForwardAssumption == FastForwardMax \in Nat
ASSUME BoundsAssumption == MaxFaults \in Nat

VARIABLES
    queue,        \* per driver: what core queued for it
    afterID,      \* per driver: the cursor
    polled,       \* per driver: newest id of the answer being dispatched
    loop,         \* per driver: where its poll loop is
    taken,        \* per driver: the pending call and status about to be delivered
    replies,      \* per driver: ACKs and NACKs its reply goroutines are sending
    pendingAcks,  \* per driver: correlation id -> call waiting under it
    state,        \* per call: where its sender is
    envelope,     \* per call: source, targets, correlation id, RequireAck
    resultCh,     \* per call: its one-place result channel
    faults,
    (* What the runs observe; the code does not keep these.                *)
    outcomes,     \* per call: how its handlers ended, each time they ran
    answered      \* calls whose reply was dispatched while they waited for it

busVars  == <<queue, afterID, polled, loop, taken, replies, pendingAcks>>
callVars == <<state, envelope, resultCh>>
observed == <<outcomes, answered>>
vars     == <<queue, afterID, polled, loop, taken, replies, pendingAcks, state, envelope,
              resultCh, faults, outcomes, answered>>

Replies   == {"acked", "nacked"}
Underway  == {"registered", "published", "waiting"}
Returned  == Replies \cup {"gaveUp", "failed", "sent"}
Envelope  == [source : Drivers, group : SUBSET Drivers, corr : CorrIDs, requireAck : BOOLEAN]
Message   == [type : {"request"} \cup Replies, source : Drivers, corr : CorrIDs, call : Calls]
Reply     == [type : Replies, to : Drivers, corr : CorrIDs, call : Calls]

TypeOK ==
    /\ queue \in [Drivers -> Seq(Message)]
    /\ afterID \in [Drivers -> Nat] /\ polled \in [Drivers -> Nat]
    /\ loop \in [Drivers -> {"poll", "dispatch", "resolve"}]
    /\ taken \in [Drivers -> (Calls \cup {NoCall}) \X (Replies \cup {"none"})]
    /\ \A d \in Drivers : loop[d] = "resolve" => taken[d] \in Calls \X Replies
    /\ replies \in [Drivers -> SUBSET Reply]
    /\ pendingAcks \in [Drivers -> [CorrIDs -> Calls \cup {NoCall}]]
    /\ state \in [Calls -> {"idle", "dead"} \cup Underway \cup Returned]
    /\ \A c \in Calls : state[c] # "idle" => envelope[c] \in Envelope
    /\ resultCh \in [Calls -> Replies \cup {"empty"}]
    /\ faults \in Nat
    /\ outcomes \in [Calls -> SUBSET Replies]
    /\ answered \subseteq Calls

Init ==
    /\ queue = [d \in Drivers |-> <<>>]
    /\ afterID = [d \in Drivers |-> 0] /\ polled = [d \in Drivers |-> 0]
    /\ loop = [d \in Drivers |-> "poll"]
    /\ taken = [d \in Drivers |-> <<NoCall, "none">>]
    /\ replies = [d \in Drivers |-> {}]
    /\ pendingAcks = [d \in Drivers |-> [k \in CorrIDs |-> NoCall]]
    /\ state = [c \in Calls |-> "idle"]
    /\ envelope = [c \in Calls |-> NoCall]
    /\ resultCh = [c \in Calls |-> "empty"]
    /\ faults = 0
    /\ outcomes = [c \in Calls |-> {}] /\ answered = {}

Fault == faults < MaxFaults /\ faults' = faults + 1

Goto(c, place)       == state' = [state EXCEPT ![c] = place]
Register(d, corr, c) == pendingAcks' = [pendingAcks EXCEPT ![d][corr] = c]
Forget(c)            == Register(envelope[c].source, envelope[c].corr, NoCall)
Queued(to, m)        == queue' = [queue EXCEPT ![to] = Append(@, m)]
Request(c)           == [type |-> "request", source |-> envelope[c].source,
                         corr |-> envelope[c].corr, call |-> c]
-----------------------------------------------------------------------------
(* The sender.                                                             *)

(* A correlation id is generated, or given with WithCorrelationID, and     *)
(* then perhaps one that was used before.                                  *)
Used == {envelope[c].corr : c \in {x \in Calls : state[x] # "idle"}}
Chosen(corr) ==
    corr \in Used \/ (Used # CorrIDs /\ corr = CHOOSE k \in CorrIDs : k \notin Used)

(* Calls differ in nothing but their names: they are made in one order.    *)
IsNext(c) ==
    (\E x \in Calls : state[x] = "idle") /\ c = CHOOSE x \in Calls : state[x] = "idle"

(* Send, Broadcast and Multicast: one message that asks for no reply to a  *)
(* driver, to every driver or to a group of them; it may not reach core.   *)
Send(c, from, group) ==
    /\ IsNext(c)
    /\ \E corr \in {k \in CorrIDs : Chosen(k)} :
          LET m == [type |-> "request", source |-> from, corr |-> corr, call |-> c] IN
          /\ envelope' = [envelope EXCEPT ![c] = [source |-> from, group |-> group, corr |-> corr,
                                                  requireAck |-> FALSE]]
          /\ \/ /\ queue' = [d \in Drivers |-> IF d \in group THEN Append(queue[d], m) ELSE queue[d]]
                /\ Goto(c, "sent") /\ UNCHANGED faults
             \/ /\ Fault /\ Goto(c, "failed") /\ UNCHANGED queue
    /\ UNCHANGED <<afterID, polled, loop, taken, replies, pendingAcks, resultCh, observed>>

(* SendWithAck registers the pending acknowledgment before it publishes,   *)
(* so a reply cannot find the table without it.  A correlation id given    *)
(* twice replaces the entry of the first call.                             *)
SendWithAck(c, from, to) ==
    /\ IsNext(c)
    /\ \E corr \in {k \in CorrIDs : Chosen(k)} :
          /\ envelope' = [envelope EXCEPT ![c] = [source |-> from, group |-> {to}, corr |-> corr,
                                                  requireAck |-> TRUE]]
          /\ Register(from, corr, c)
    /\ Goto(c, "registered")
    /\ UNCHANGED <<queue, afterID, polled, loop, taken, replies, resultCh, faults,
                   observed>>

PublishReachesCore(c) ==
    /\ state[c] = "registered"
    /\ \E to \in envelope[c].group : Queued(to, Request(c))
    /\ Goto(c, "published")
    /\ UNCHANGED <<afterID, polled, loop, taken, replies, pendingAcks, envelope, resultCh,
                   faults, observed>>

PublishReturns(c) ==
    /\ state[c] = "published"
    /\ Goto(c, "waiting")
    /\ UNCHANGED <<busVars, envelope, resultCh, faults, observed>>

(* The request or core's answer to it is lost.                             *)
PublishFails(c) ==
    /\ state[c] \in {"registered", "published"} /\ Fault
    /\ Forget(c)
    /\ Goto(c, "failed")
    /\ UNCHANGED <<queue, afterID, polled, loop, taken, replies, envelope, resultCh,
                   observed>>

(* The select at the end of SendWithAck: a result, the timeout, or the     *)
(* caller's context, whichever the scheduler picks of those ready.         *)
ReceiveResult(c) ==
    /\ state[c] = "waiting" /\ resultCh[c] # "empty"
    /\ Goto(c, resultCh[c])
    /\ resultCh' = [resultCh EXCEPT ![c] = "empty"]
    /\ UNCHANGED <<busVars, envelope, faults, observed>>

(* Mutant: a timeout leaves the pending acknowledgment in the table.       *)
GiveUpKeepsEntry(c) ==
    /\ state[c] = "waiting"
    /\ Goto(c, "gaveUp")
    /\ UNCHANGED <<busVars, envelope, resultCh, faults, observed>>

(* Mutant: a call gives up only while the table still holds its entry.     *)
GiveUpIfPending(c) ==
    /\ state[c] = "waiting"
    /\ pendingAcks[envelope[c].source][envelope[c].corr] = c
    /\ Forget(c)
    /\ Goto(c, "gaveUp")
    /\ UNCHANGED <<queue, afterID, polled, loop, taken, replies, envelope, resultCh, faults, observed>>

(* On a timeout, and in the same way on a cancelled context, whatever is   *)
(* registered under the correlation id is deleted.                         *)
GiveUp(c) ==
    /\ state[c] = "waiting"
    /\ Forget(c)
    /\ Goto(c, "gaveUp")
    /\ UNCHANGED <<queue, afterID, polled, loop, taken, replies, envelope, resultCh, faults, observed>>
-----------------------------------------------------------------------------
(* The poll loop.                                                          *)

(* A poll that fails changes nothing and is tried again.  Stop keeps the   *)
(* loop from polling again, as any run that takes no further Poll does.    *)
Poll(d) ==
    /\ loop[d] = "poll" /\ Len(queue[d]) > afterID[d]
    /\ polled' = [polled EXCEPT ![d] = Len(queue[d])]
    /\ loop' = [loop EXCEPT ![d] = "dispatch"]
    /\ UNCHANGED <<queue, afterID, taken, replies, pendingAcks, callVars, faults,
                   observed>>

NextMessage(d) == queue[d][afterID[d] + 1]

(* The cursor moves before the message is looked at; the loop polls again  *)
(* after the last message of the answer.                                   *)
Advance(d) ==
    /\ loop[d] = "dispatch"
    /\ afterID' = [afterID EXCEPT ![d] = @ + 1]
LoopOn(d) ==
    loop' = [loop EXCEPT ![d] = IF afterID'[d] < polled[d] THEN "dispatch" ELSE "poll"]

(* Expired, or from this driver itself, or a reply nobody waits for.       *)
Ignore(d) ==
    /\ Advance(d) /\ LoopOn(d)
    /\ UNCHANGED <<queue, polled, taken, replies, pendingAcks, callVars, faults,
                   outcomes>>

DropExpired(d) == Ignore(d) /\ UNCHANGED answered

DropOwn(d) ==
    /\ loop[d] = "dispatch" /\ NextMessage(d).source = d
    /\ Ignore(d) /\ UNCHANGED answered

(* Mutant: a handler's error is forgotten and the request acknowledged.    *)
DispatchRequestAlwaysAcks(d) ==
    /\ loop[d] = "dispatch"
    /\ LET m == NextMessage(d) IN
       /\ m.type = "request" /\ m.source # d
       /\ \E outcome \in Replies :
             /\ outcomes' = [outcomes EXCEPT ![m.call] = @ \cup {outcome}]
             /\ replies' = IF envelope[m.call].requireAck
                           THEN [replies EXCEPT ![d] = @ \cup
                                   {[type |-> "acked", to |-> m.source, corr |-> m.corr,
                                     call |-> m.call]}]
                           ELSE replies
    /\ Advance(d) /\ LoopOn(d)
    /\ UNCHANGED <<queue, polled, taken, pendingAcks, callVars, faults, answered>>

(* The handlers run one after another (HandlerTable says which ones); an   *)
(* error of any of them, or no handler at all, makes the reply a NACK.  A  *)
(* goroutine sends it.                                                     *)
DispatchRequest(d) ==
    /\ loop[d] = "dispatch"
    /\ LET m == NextMessage(d) IN
       /\ m.type = "request" /\ m.source # d
       /\ \E outcome \in Replies :
             /\ outcomes' = [outcomes EXCEPT ![m.call] = @ \cup {outcome}]
             /\ replies' = IF envelope[m.call].requireAck
                           THEN [replies EXCEPT ![d] = @ \cup
                                   {[type |-> outcome, to |-> m.source, corr |-> m.corr,
                                     call |-> m.call]}]
                           ELSE replies
    /\ Advance(d) /\ LoopOn(d)
    /\ UNCHANGED <<queue, polled, taken, pendingAcks, callVars, faults, answered>>

SendReply(d) ==
    \E r \in replies[d] :
        /\ replies' = [replies EXCEPT ![d] = @ \ {r}]
        /\ \/ /\ Queued(r.to, [type |-> r.type, source |-> d, corr |-> r.corr, call |-> r.call])
              /\ UNCHANGED faults
           \/ Fault /\ UNCHANGED queue
        /\ UNCHANGED <<afterID, polled, loop, taken, pendingAcks, callVars, observed>>

Answers(m) == IF state[m.call] \in Underway THEN answered \cup {m.call} ELSE answered

(* Mutant: a reply is taken for one that somebody waits for.               *)
TakePendingUnchecked(d) ==
    /\ loop[d] = "dispatch"
    /\ LET m == NextMessage(d) IN
       /\ m.type \in Replies /\ m.source # d
       /\ taken' = [taken EXCEPT ![d] = <<pendingAcks[d][m.corr], m.type>>]
       /\ Register(d, m.corr, NoCall)
       /\ answered' = Answers(m)
    /\ Advance(d)
    /\ loop' = [loop EXCEPT ![d] = "resolve"]
    /\ UNCHANGED <<queue, polled, replies, callVars, faults, outcomes>>

(* handleAckMessage takes the entry out of the table under the lock ...    *)
TakePending(d) ==
    /\ loop[d] = "dispatch"
    /\ LET m == NextMessage(d) IN
       /\ m.type \in Replies /\ m.source # d /\ pendingAcks[d][m.corr] # NoCall
       /\ taken' = [taken EXCEPT ![d] = <<pendingAcks[d][m.corr], m.type>>]
       /\ Register(d, m.corr, NoCall)
       /\ answered' = Answers(m)
    /\ Advance(d)
    /\ loop' = [loop EXCEPT ![d] = "resolve"]
    /\ UNCHANGED <<queue, polled, replies, callVars, faults, outcomes>>

(* Mutant: a result is delivered only to a caller that already waits.      *)
ResolveUnbuffered(d) ==
    /\ loop[d] = "resolve"
    /\ LET c == taken[d][1] IN
       resultCh' = IF state[c] = "waiting" THEN [resultCh EXCEPT ![c] = taken[d][2]] ELSE resultCh
    /\ taken' = [taken EXCEPT ![d] = <<NoCall, "none">>]
    /\ UNCHANGED afterID /\ LoopOn(d)
    /\ UNCHANGED <<queue, polled, replies, pendingAcks, state, envelope, faults,
                   observed>>

(* ... and, after unlocking, puts the result in the call's channel unless  *)
(* that is full.                                                           *)
Resolve(d) ==
    /\ loop[d] = "resolve"
    /\ LET c == taken[d][1] IN
       resultCh' = IF resultCh[c] = "empty" THEN [resultCh EXCEPT ![c] = taken[d][2]] ELSE resultCh
    /\ taken' = [taken EXCEPT ![d] = <<NoCall, "none">>]
    /\ UNCHANGED afterID /\ LoopOn(d)
    /\ UNCHANGED <<queue, polled, replies, pendingAcks, state, envelope, faults,
                   observed>>

(* A reply nobody waits for: late, or a duplicate.                         *)
DropReply(d) ==
    /\ loop[d] = "dispatch"
    /\ LET m == NextMessage(d) IN
       /\ m.type \in Replies /\ m.source # d /\ pendingAcks[d][m.corr] = NoCall
       /\ answered' = Answers(m)
    /\ Ignore(d)
-----------------------------------------------------------------------------
(* The driver's process dies and a new bus starts.  The fast-forward moves *)
(* the new cursor past what is queued, as far as its polls reach, or not   *)
(* at all when one of them fails.                                          *)
Restart(d) ==
    /\ Fault
    /\ \E skipped \in {0, IF Len(queue[d]) < FastForwardMax THEN Len(queue[d])
                                                            ELSE FastForwardMax} :
          /\ afterID' = [afterID EXCEPT ![d] = skipped]
          /\ polled' = [polled EXCEPT ![d] = skipped]
    /\ loop' = [loop EXCEPT ![d] = "poll"]
    /\ taken' = [taken EXCEPT ![d] = <<NoCall, "none">>]
    /\ replies' = [replies EXCEPT ![d] = {}]
    /\ pendingAcks' = [pendingAcks EXCEPT ![d] = [k \in CorrIDs |-> NoCall]]
    /\ state' = [c \in Calls |->
                   IF state[c] \in Underway /\ envelope[c].source = d THEN "dead" ELSE state[c]]
    /\ UNCHANGED <<queue, envelope, resultCh, observed>>
-----------------------------------------------------------------------------
Return(c) == PublishReachesCore(c) \/ PublishReturns(c) \/ PublishFails(c)
                \/ ReceiveResult(c) \/ GiveUp(c)

Loop(d) == Poll(d) \/ DropExpired(d) \/ DropOwn(d) \/ DispatchRequest(d) \/ TakePending(d)
              \/ Resolve(d) \/ DropReply(d)

Next ==
    \/ \E c \in Calls, from \in Senders, group \in Groups : Send(c, from, group)
    \/ \E c \in Calls, from \in Senders, to \in Targets : SendWithAck(c, from, to)
    \/ \E c \in Calls : Return(c)
    \/ \E d \in Drivers : Loop(d) \/ SendReply(d) \/ Restart(d)

(* A caller's own steps are bounded by the HTTP client's timeout and by    *)
(* AckTimeoutMs; nothing is asked of the poll loops or of the replies.     *)
Spec == Init /\ [][Next]_vars /\ \A c \in Calls : WF_vars(Return(c))
-----------------------------------------------------------------------------
(* To its callers the bus is AnsweredCalls, whatever restarts, replays,    *)
(* late and duplicate replies and shared correlation ids there are         *)
(* (SendWithAck, dispatchMessage, handleAckMessage).                       *)
Acks == INSTANCE AnsweredCalls WITH
    Threads  <- Drivers \X CorrIDs,
    NoThread <- NoCall,
    thread   <- [c \in Calls |-> IF state[c] = "idle" THEN NoCall
                                                     ELSE <<envelope[c].source, envelope[c].corr>>],
    status   <- [c \in Calls |-> CASE state[c] \in Underway -> "open"
                                   [] state[c] \in Replies \cup {"idle"} -> state[c]
                                   [] OTHER -> "over"]

AnswersTruly == Acks!Spec

(* No other call of the same driver ever used c's correlation id: it was   *)
(* generated, or the caller gave it once.                                  *)
Alone(c) ==
    \A other \in Calls \ {c} :
        state[other] = "idle" \/ envelope[other].source # envelope[c].source
                              \/ envelope[other].corr # envelope[c].corr

(* SendWithAck reports what the recipient's handlers did with this very    *)
(* message, whatever restarts, replays, late and duplicate replies there   *)
(* were (dispatchMessage, handleAckMessage).                               *)
ResultTruthful ==
    \A c \in Calls : state[c] \in Replies /\ Alone(c) => state[c] \in outcomes[c]

(* The table holds no call that has returned, even when calls share a      *)
(* correlation id: it does not grow with use (pendingAcks).                *)
NoStaleEntry ==
    \A d \in Drivers, k \in CorrIDs :
        pendingAcks[d][k] # NoCall =>
            LET c == pendingAcks[d][k] IN
            state[c] \in Underway /\ envelope[c].source = d /\ envelope[c].corr = k

(* A reply that is dispatched while its call is under way is in the call's *)
(* channel or on the way there: it cannot slip between the registration,   *)
(* the publish and the wait, and the one-place channel has room for it, as *)
(* each entry of the table is used once (SendWithAck, handleAckMessage).   *)
ReplyNotLost ==
    /\ \A c \in answered :
          state[c] \in Underway /\ Alone(c) =>
              \/ resultCh[c] # "empty"
              \/ \E d \in Drivers : loop[d] = "resolve" /\ taken[d][1] = c
    /\ \A d \in Drivers : loop[d] = "resolve" => resultCh[taken[d][1]] = "empty"

(* Every SendWithAck returns, whatever happened to its entry in the table. *)
EveryCallReturns ==
    \A c \in Calls : state[c] = "registered" ~> state[c] \in Returned \cup {"dead"}
=============================================================================
