--------------------------- MODULE BindingManager ---------------------------
(***************************************************************************)
(* The binding manager (binding_support.go): a cache of the bindings       *)
(* controller-core holds for this device, with a time to live, refreshed   *)
(* by whoever reads it and finds it old.  No lock is held while core is    *)
(* asked, so several refreshes may be under way at once and be stored in   *)
(* another order than core answered them.                                  *)
(*                                                                         *)
(* Time is a counter.  Computing takes no time: it passes only while every *)
(* goroutine is idle or waits for the network.                             *)
(***************************************************************************)
EXTENDS Integers, Sequences

CONSTANTS
    Callers,    \* goroutines of the driver that use the manager
    Us,         \* this device's id
    Devices,    \* the other devices
    Endpoints,  \* this device's endpoints
    Rows,       \* the bindings core may hold
    Interval,   \* refreshInterval
    Timeout,    \* the HTTP client's timeout
    MaxTime,    \* bound: the clock
    MaxEdits    \* bound: tables core holds one after the other

Nothing == "nothing"  \* a field left empty

Binding == [source : Devices \cup {Us}, endpoint : Endpoints \cup {Nothing},
            target : Devices \cup {Us, Nothing}, enabled : BOOLEAN, bidirectional : BOOLEAN]

ASSUME RowsAssumption == Rows \subseteq Binding
ASSUME UsAssumption == Us \notin Devices
ASSUME TimesAssumption == Interval \in Nat /\ Timeout \in Nat /\ MaxTime \in Nat
ASSUME MaxEditsAssumption == MaxEdits \in Nat

VARIABLES
    history,     \* what core has held: a sequence of [at, rows]
    now,
    bindings,    \* the cached bindings
    bindingsAt,  \* when they were stored
    pc,          \* per caller: where it is
    query,       \* per caller: what it wants to know
    sentAt,      \* per caller: when its refresh was sent
    reply,       \* per caller: what core answered it
    answer,      \* per caller: what it was told
    missed       \* per caller: its refresh failed

cacheVars  == <<bindings, bindingsAt>>
callVars   == <<pc, query, sentAt, reply, answer, missed>>
bindingVars == <<history, now, cacheVars, callVars>>

Query == [op : {"targets"}, of : Endpoints] \cup [op : {"authorize"}, of : Devices]
           \cup [op : {"refresh"}, of : {Us}]
NoQuery == [op |-> "none", of |-> Us]

Places == {"idle", "waiting", "answered", "read", "done"}
Asking == {"waiting", "answered"}
-----------------------------------------------------------------------------
(* Core's table, and the tables it held at some moment from a to b.        *)
Table == history[Len(history)].rows

HeldDuring(a, b) ==
    {history[i].rows : i \in {j \in 1..Len(history) :
        /\ history[j].at <= b
        /\ j < Len(history) => history[j + 1].at >= a}}

(* GET /v1/bindings?source_device_id=Us                                    *)
Ours(rows) == {b \in rows : b.source = Us}

(* bindingsByEp: the targets of an endpoint.                               *)
TargetsIn(rows, endpoint) ==
    {b \in rows : b.enabled /\ b.endpoint = endpoint /\ b.target # Nothing}

AuthorizedIn(rows, device) ==
    \E b \in rows :
        /\ b.enabled
        /\ \/ b.source = device /\ b.target = Us
           \/ b.bidirectional /\ b.target = device /\ b.source = Us

(* What a reader of rows is told: targets, or the device if authorized.    *)
AnswerFrom(rows, q) ==
    IF q.op = "targets" THEN TargetsIn(rows, q.of) ELSE {d \in {q.of} : AuthorizedIn(rows, d)}

BindingsInit ==
    /\ history \in {<<[at |-> 0, rows |-> rows]>> : rows \in SUBSET Rows}
    /\ now = 0
    /\ bindings = {} /\ bindingsAt = -(Interval + 1)  \* the zero time: long ago
    /\ pc = [c \in Callers |-> "idle"]
    /\ query = [c \in Callers |-> NoQuery]
    /\ sentAt = [c \in Callers |-> 0]
    /\ reply = [c \in Callers |-> {}]
    /\ answer = [c \in Callers |-> {}]
    /\ missed = [c \in Callers |-> FALSE]
-----------------------------------------------------------------------------
(* Core and the clock.                                                     *)
EditBindings ==
    /\ Len(history) < MaxEdits
    /\ \E b \in Rows :
           history' = Append(history, [at |-> now, rows |-> (Table \ {b}) \cup ({b} \ Table)])
    /\ UNCHANGED <<now, cacheVars, callVars>>

(* A request ends within the client's timeout.                             *)
InTime == \A c \in Callers : pc[c] \in Asking => now - sentAt[c] < Timeout

Tick ==
    /\ now < MaxTime
    /\ InTime /\ \A c \in Callers : pc[c] \notin {"read", "done"}
    /\ now' = now + 1
    /\ UNCHANGED <<history, cacheVars, callVars>>
-----------------------------------------------------------------------------
Goto(c, place) == pc' = [pc EXCEPT ![c] = place]

Stale == now - bindingsAt > Interval

(* RefreshBindings sends its request.                                      *)
Request(c) ==
    /\ Goto(c, "waiting") /\ sentAt' = [sentAt EXCEPT ![c] = now]
    /\ UNCHANGED <<reply, answer>>

(* RefreshBindings, called by the driver.                                  *)
RefreshBindings(c) ==
    /\ pc[c] = "idle"
    /\ query' = [query EXCEPT ![c] = [op |-> "refresh", of |-> Us]]
    /\ missed' = [missed EXCEPT ![c] = FALSE]
    /\ Request(c)
    /\ UNCHANGED <<history, now, cacheVars>>

(* GetTargetsForEndpoint and IsSourceAuthorized look at the age of the     *)
(* bindings under the lock and, if they are stale, refresh them first.     *)
Ask(c, q) ==
    /\ query' = [query EXCEPT ![c] = q]
    /\ missed' = [missed EXCEPT ![c] = FALSE]
    /\ \/ Stale /\ Request(c)
       \/ ~Stale /\ Goto(c, "read") /\ UNCHANGED <<sentAt, reply, answer>>
    /\ UNCHANGED <<history, now, cacheVars>>

CoreAnswers(c) ==
    /\ pc[c] = "waiting"
    /\ reply' = [reply EXCEPT ![c] = Ours(Table)]
    /\ Goto(c, "answered")
    /\ UNCHANGED <<history, now, cacheVars, query, sentAt, answer, missed>>

(* The request is over, one way or the other.                              *)
Refreshed(c) ==
    /\ Goto(c, IF query[c].op = "refresh" THEN "done" ELSE "read")
    /\ sentAt' = [sentAt EXCEPT ![c] = 0] /\ reply' = [reply EXCEPT ![c] = {}]

(* Mutant: the bindings are stamped with the time they expire at.          *)
StoreExpiry(c) ==
    /\ pc[c] = "answered"
    /\ bindings' = reply[c] /\ bindingsAt' = now + Interval
    /\ Refreshed(c)
    /\ UNCHANGED <<history, now, query, answer, missed>>

(* The answer is stored, and the time it is stored at.                     *)
Store(c) ==
    /\ pc[c] = "answered"
    /\ bindings' = reply[c] /\ bindingsAt' = now
    /\ Refreshed(c)
    /\ UNCHANGED <<history, now, query, answer, missed>>

(* Mutant: a refresh that failed is not tried again before the interval.   *)
RefreshFailsStamps(c) ==
    /\ pc[c] \in Asking
    /\ bindingsAt' = now
    /\ missed' = [missed EXCEPT ![c] = TRUE]
    /\ Refreshed(c)
    /\ UNCHANGED <<history, now, bindings, query, answer>>

(* No answer in time, a status that is not 200, or a body that is not      *)
(* JSON: the cache is left as it is, and readers ignore the error.         *)
RefreshFails(c) ==
    /\ pc[c] \in Asking
    /\ missed' = [missed EXCEPT ![c] = TRUE]
    /\ Refreshed(c)
    /\ UNCHANGED <<history, now, cacheVars, query, answer>>

(* The cache is read, in a second critical section.                        *)
Read(c) ==
    /\ pc[c] = "read"
    /\ answer' = [answer EXCEPT ![c] = AnswerFrom(bindings, query[c])]
    /\ Goto(c, "done")
    /\ UNCHANGED <<history, now, cacheVars, query, sentAt, reply, missed>>
-----------------------------------------------------------------------------
(* How old what a reader is told may be.                                   *)
Bound == Interval + Timeout

(* To who asks it the manager is a RecentReads, in whatever order the      *)
(* refreshes of all callers are answered and stored, and whatever of them  *)
(* failed (RefreshBindings, GetTargetsForEndpoint, IsSourceAuthorized).    *)
Asks(c) == query[c].op \notin {"none", "refresh"}

AnswerFromTable(rows, q) == AnswerFrom(Ours(rows), q)

Reads == INSTANCE RecentReads WITH
    Tables     <- SUBSET Rows,
    Empty      <- {},
    Questions  <- {q \in Query : q.op # "refresh"},
    NoQuestion <- NoQuery,
    Answer     <- AnswerFromTable,
    NoAnswer   <- {},
    question   <- [c \in Callers |-> IF Asks(c) THEN query[c] ELSE NoQuery],
    answer     <- [c \in Callers |-> IF Asks(c) /\ pc[c] = "done" THEN answer[c] ELSE {}],
    at         <- [c \in Callers |-> IF ~Asks(c) THEN "idle"
                                    ELSE IF pc[c] = "done" THEN "told"
                                    ELSE IF missed[c] THEN "missed" ELSE "open"]

ReadsRecent == Reads!Spec

(* Whoever asks, and whose own refresh did not fail, is told what core     *)
(* held at some moment of the last interval and timeout, in whatever order *)
(* the refreshes of others were answered and stored, and whatever of them  *)
(* failed (RefreshBindings, GetTargetsForEndpoint, IsSourceAuthorized).    *)
AnswerIsRecent ==
    \A c \in Callers :
        pc[c] = "done" /\ ~missed[c] /\ query[c].op # "refresh" =>
            \E rows \in HeldDuring(now - Bound, now) :
                answer[c] = AnswerFrom(Ours(rows), query[c])
=============================================================================
