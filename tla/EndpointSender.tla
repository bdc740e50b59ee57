---------------------------- MODULE EndpointSender ----------------------------
(***************************************************************************)
(* The sending half of a driver's EndpointBus (endpoint_bus.go,            *)
(* endpoint_options.go, endpoint_cause.go): what DeclareEndpoints leaves   *)
(* in declaredClasses, and the cause and command class that applyOptions   *)
(* puts into a publish.                                                    *)
(*                                                                         *)
(* Core keeps the declared endpoints and, for each item it delivers, the   *)
(* bindings crossed on the way to it.  It is not in this repository and is *)
(* modelled from what the code asks of it.  Other devices are folded into  *)
(* the bindings: each leads from an endpoint of ours to an endpoint of     *)
(* ours.  The driver relays what arrives as the SDK's comments tell it to. *)
(***************************************************************************)
EXTENDS Naturals, Sequences

CONSTANTS
    Keys,          \* the device's endpoints
    NoKey,         \* a cause that names no endpoint
    Bindings,      \* the wiring: [from |-> key, to |-> key]
    Relay,         \* endpoint -> the endpoints a command that arrives there is relayed on
    Declarations,  \* the endpoint sets the driver declares: key -> class, or ""
    Declarers,     \* goroutines that call DeclareEndpoints
    PressedKeys,   \* bound: the endpoints a publish that answers no delivery names
    MaxPresses,    \* bound: such publishes
    MaxDeclares,   \* bound: calls of DeclareEndpoints
    MaxFaults      \* bound: requests to core that fail

CommandClass == {"ABSOLUTE", "RELATIVE", "TOGGLE"}
MapTo(C)     == UNION {[S -> C] : S \in SUBSET Keys}
ClassMap     == MapTo(CommandClass)
Specs        == MapTo(CommandClass \cup {""})

ASSUME WiringAssumption ==
    /\ NoKey \notin Keys
    /\ \A b \in Bindings : b.from \in Keys /\ b.to \in Keys
    /\ Relay \in [Keys -> SUBSET Keys] /\ PressedKeys \subseteq (SUBSET Keys) \ {{}}
ASSUME DeclarationsAssumption == Declarations \subseteq Specs
ASSUME BoundsAssumption == MaxPresses \in Nat /\ MaxDeclares \in Nat /\ MaxFaults \in Nat

VARIABLES
    declaredClasses,  \* what sends are classed by
    declaring,        \* per declarer: where its DeclareEndpoints is, and the set it sends
    todo,             \* calls of the send methods that have not read their options yet
    posted,           \* requests on their way to core
    endpoints,        \* core: the endpoints of the device and their classes
    delivered,        \* core: the messages queued for the device
    next,             \* the message the poll loop dispatches next
    presses, declares, faults,
    (* What the runs observe; the code does not keep it.                   *)
    contested         \* nothing since has settled which declaration core holds

declVars == <<declaredClasses, declaring, endpoints, declares, contested>>
sendVars == <<todo, posted, delivered, next, presses>>
vars     == <<declaredClasses, declaring, todo, posted, endpoints, delivered, next,
              presses, declares, faults, contested>>

Kinds     == {"command", "event"}
Crossing  == Bindings \X {"fwd", "rev"}
Cause     == [message : Nat, endpoint : Keys \cup {NoKey}]
NoCause   == [message |-> 0, endpoint |-> NoKey]
Valid(c)  == c.message > 0

(* buildSendOptions, and Caused and WithCommandClass as its input.         *)
Options   == [cause : Cause, causeSet : BOOLEAN, class : CommandClass, classSet : BOOLEAN,
              stateSync : BOOLEAN]
NoOptions == [cause |-> NoCause, causeSet |-> FALSE, class |-> "ABSOLUTE", classSet |-> FALSE,
              stateSync |-> FALSE]
Caused(c)           == [NoOptions EXCEPT !.cause = c, !.causeSet = TRUE]
WithCommandClass(c) == [NoOptions EXCEPT !.class = c, !.classSet = TRUE]
AsStateSync         == [NoOptions EXCEPT !.stateSync = TRUE]

Body == [kind : Kinds, keys : SUBSET Keys, caused_by : Nat, caused_by_endpoint : Keys \cup {NoKey},
         class : CommandClass, state_sync : BOOLEAN]

TypeOK ==
    /\ declaredClasses \in ClassMap /\ endpoints \in ClassMap
    /\ \A d \in Declarers : /\ declaring[d].at \in {"idle", "put", "answered"}
                            /\ declaring[d].specs \in Specs
    /\ \A t \in todo : t.kind \in Kinds /\ t.ctx \in Cause /\ t.opts \in Options
    /\ \A r \in posted : r.body \in Body /\ r.body.keys # {} /\ r.body.caused_by < next
    /\ \A id \in DOMAIN delivered : delivered[id].first \in delivered[id].items
    /\ next \in 1..(Len(delivered) + 1)
    /\ contested \in BOOLEAN

(* Mutant: a class is taken as the driver wrote it.                        *)
AsDeclared(class) == class

(* An endpoint declared without a class carries values.                    *)
normalizeCommandClass(class) == IF class \in {"RELATIVE", "TOGGLE"} THEN class ELSE "ABSOLUTE"

(* Core reads a declaration the same way.                                  *)
CoreClasses(specs) == [k \in DOMAIN specs |-> IF specs[k] = "" THEN "ABSOLUTE" ELSE specs[k]]

Classes(specs) == [k \in DOMAIN specs |-> normalizeCommandClass(specs[k])]

(* A driver starts with nothing declared; core may still hold what an      *)
(* earlier run of it declared.                                             *)
Init ==
    /\ declaredClasses = <<>>
    /\ declaring = [d \in Declarers |-> [at |-> "idle", specs |-> <<>>]]
    /\ todo = {} /\ posted = {}
    /\ endpoints \in {CoreClasses(specs) : specs \in Declarations} \cup {<<>>}
    /\ delivered = <<>> /\ next = 1
    /\ presses = 0 /\ declares = 0 /\ faults = 0
    /\ contested = TRUE
-----------------------------------------------------------------------------
(* DeclareEndpoints.                                                       *)
Idle(d) == declaring[d].at = "idle"
AllIdle == \A d \in Declarers : Idle(d)
Set(d, at, specs) == declaring' = [declaring EXCEPT ![d] = [at |-> at, specs |-> specs]]

Declare(d, specs) ==
    /\ Idle(d) /\ declares < MaxDeclares
    /\ Set(d, "put", specs)
    /\ declares' = declares + 1
    /\ contested' = ~AllIdle
    /\ posted' = {[r EXCEPT !.clean = FALSE] : r \in posted}
    /\ UNCHANGED <<declaredClasses, endpoints, todo, delivered, next, presses, faults>>

(* Core replaces the whole set: what is not in it is retired.              *)
CoreDeclares(d) ==
    /\ declaring[d].at = "put"
    /\ Set(d, "answered", declaring[d].specs)
    /\ endpoints' = CoreClasses(declaring[d].specs)
    /\ UNCHANGED <<declaredClasses, declares, contested, sendVars, faults>>

(* Core refuses or does not hear the request, or its answer is lost.       *)
DeclareFails(d) ==
    /\ declaring[d].at \in {"put", "answered"} /\ faults < MaxFaults
    /\ Set(d, "idle", <<>>)
    /\ faults' = faults + 1
    /\ contested' = TRUE
    /\ UNCHANGED <<declaredClasses, endpoints, declares, sendVars>>

(* Mutant: new classes are put on top of the old.                          *)
RememberMerged(d) ==
    /\ declaring[d].at = "answered"
    /\ declaredClasses' =
          LET new == Classes(declaring[d].specs) IN
          [k \in DOMAIN declaredClasses \cup DOMAIN new |->
              IF k \in DOMAIN new THEN new[k] ELSE declaredClasses[k]]
    /\ Set(d, "idle", <<>>)
    /\ UNCHANGED <<endpoints, declares, contested, sendVars, faults>>

(* The answer was a success: the classes replace the old ones.             *)
Remember(d) ==
    /\ declaring[d].at = "answered"
    /\ declaredClasses' = Classes(declaring[d].specs)
    /\ Set(d, "idle", <<>>)
    /\ UNCHANGED <<endpoints, declares, contested, sendVars, faults>>
-----------------------------------------------------------------------------
(* The driver calls a send method: with a context, options, and the        *)
(* history, per endpoint, of what it answers, which only the runs know.    *)
Call(origin, kind, ctx, opts, history) ==
    [origin |-> origin, kind |-> kind, keys |-> DOMAIN history, ctx |-> ctx, opts |-> opts,
     history |-> history]

(* Something on the device itself: a press, or the report made on start.   *)
Press(keys, opts) ==
    /\ presses < MaxPresses /\ presses' = presses + 1
    /\ todo' = todo \cup {Call(<<0, presses'>>, IF opts.stateSync THEN "event" ELSE "command",
                               NoCause, opts, [k \in keys |-> <<>>])}
    /\ UNCHANGED <<declVars, posted, delivered, next, faults>>

(* Batch.Cause, Batch.CauseFor and ContextWithCause.                       *)
BatchCause(id)    == [message |-> id, endpoint |-> delivered[id].first.key]
CauseFor(id, key) == [message |-> id, endpoint |-> key]
ContextWithCause(ctx, c) == IF Valid(c) THEN c ELSE ctx

(* What a handler publishes for an item of message id: a command goes on,  *)
(* an event goes back up.                                                  *)
RelayKeys(kind, key) ==
    IF kind = "command" THEN Relay[key] ELSE {k \in Keys : key \in Relay[k]}

(* It publishes with the context it was given, which suits a message of    *)
(* one item, with CauseFor the item, or later from a goroutine that kept   *)
(* the cause.                                                              *)
Ways(id) ==
    {"caused", "kept"}
        \cup {way \in {"context"} : \E i \in delivered[id].items : delivered[id].items = {i}}

Relayed(id, item, way) ==
    LET kind  == delivered[id].kind
        given == ContextWithCause(NoCause, BatchCause(id))
        cause == CauseFor(id, item.key) IN
    Call(<<id, item.key>>, kind,
         IF way = "kept" THEN ContextWithCause(NoCause, cause) ELSE given,
         IF way = "caused" THEN Caused(cause) ELSE NoOptions,
         [k \in RelayKeys(kind, item.key) |-> item.history])

(* It confirms the commands it handled on the endpoints they arrived on,   *)
(* all in one, with a cause that names the message only                    *)
(* (NotifyPerEndpoint).                                                    *)
Confirmed(id) ==
    LET items == delivered[id].items IN
    Call(<<id, NoKey>>, "event",
         ContextWithCause(NoCause, BatchCause(id)), Caused(CauseFor(id, NoKey)),
         [k \in {i.key : i \in items} |-> (CHOOSE i \in items : i.key = k).history])

(* dispatch hands the next batch to the handler.                           *)
DispatchBatch ==
    /\ next <= Len(delivered) /\ next' = next + 1
    /\ \E way \in Ways(next) :
          todo' = todo
              \cup {Relayed(next, i, way) :
                       i \in {j \in delivered[next].items :
                                 RelayKeys(delivered[next].kind, j.key) # {}}}
              \cup (IF delivered[next].kind = "command"
                    THEN {Confirmed(next)} ELSE {})
    /\ UNCHANGED <<declVars, posted, delivered, presses, faults>>
-----------------------------------------------------------------------------
(* Mutant: a cause in the context wins over the caller's own.              *)
CauseOfContextFirst(call) == IF Valid(call.ctx) THEN call.ctx ELSE call.opts.cause

(* An explicit Caused wins; otherwise the context carries the cause.       *)
CauseOf(call) == IF call.opts.causeSet THEN call.opts.cause ELSE call.ctx

ClassIn(classes, key) == IF key \in DOMAIN classes THEN classes[key] ELSE "ABSOLUTE"

(* The class all the endpoints agree on, otherwise ABSOLUTE.               *)
ClassOf(classes, keys) ==
    LET found == {ClassIn(classes, k) : k \in keys} IN
    IF \E c \in CommandClass : found = {c} THEN CHOOSE c \in found : TRUE ELSE "ABSOLUTE"

(* send, sendPerEndpoint and applyOptions.                                 *)
BodyOf(call) ==
    LET cause == CauseOf(call) IN
    [kind |-> call.kind, keys |-> call.keys,
     caused_by |-> IF Valid(cause) THEN cause.message ELSE 0,
     caused_by_endpoint |-> IF Valid(cause) THEN cause.endpoint ELSE NoKey,
     class |-> IF call.opts.classSet THEN call.opts.class
                                     ELSE ClassOf(declaredClasses, call.keys),
     state_sync |-> call.opts.stateSync]

Send(call) ==
    /\ call \in todo /\ todo' = todo \ {call}
    /\ posted' = posted \cup {[body |-> BodyOf(call), origin |-> call.origin,
                               history |-> call.history,
                               clean |-> AllIdle /\ ~contested /\ ~call.opts.classSet]}
    /\ UNCHANGED <<declVars, delivered, next, presses, faults>>

(* sendRaw returns an error and core has heard nothing.                    *)
SendFails(r) ==
    /\ r \in posted /\ posted' = posted \ {r}
    /\ faults < MaxFaults /\ faults' = faults + 1
    /\ UNCHANGED <<declVars, todo, delivered, next, presses>>
-----------------------------------------------------------------------------
(* Core looks up what had been crossed on the way to the item a publish    *)
(* answers; a cause without endpoint means the item that arrived on the    *)
(* endpoint that publishes.                                                *)
ChainOf(body, key) ==
    IF body.caused_by = 0 THEN {}
    ELSE LET at == IF body.caused_by_endpoint = NoKey THEN key ELSE body.caused_by_endpoint IN
         UNION {i.chain : i \in {j \in delivered[body.caused_by].items : j.key = at}}

(* A command crosses bindings forward, an event crosses them back.         *)
CrossingsFrom(kind, key) ==
    IF kind = "command" THEN {<<b, "fwd">> : b \in {c \in Bindings : c.from = key}}
                        ELSE {<<b, "rev">> : b \in {c \in Bindings : c.to = key}}

(* The items a publish leads to: crossings in the chain are refused        *)
(* (NACK_LOOP_VISITED), and a state sync crosses nothing.                  *)
ItemsOf(r) ==
    IF r.body.state_sync THEN {}
    ELSE UNION {{[key |-> IF x[2] = "fwd" THEN x[1].to ELSE x[1].from,
                  chain |-> ChainOf(r.body, k) \cup {x},
                  history |-> Append(r.history[k], x)] :
                    x \in CrossingsFrom(r.body.kind, k) \ ChainOf(r.body, k)} : k \in r.body.keys}

(* All that one publish leads to arrives as one message.                   *)
CoreCrosses(r) ==
    /\ r \in posted /\ posted' = posted \ {r}
    /\ IF ItemsOf(r) = {} THEN UNCHANGED delivered
       ELSE \E first \in ItemsOf(r) :
                delivered' = Append(delivered, [kind |-> r.body.kind, items |-> ItemsOf(r),
                                                first |-> first])
    /\ UNCHANGED <<declVars, todo, next, presses, faults>>
-----------------------------------------------------------------------------
Next ==
    \/ \E d \in Declarers :
          \/ \E specs \in Declarations : Declare(d, specs)
          \/ CoreDeclares(d) \/ DeclareFails(d) \/ Remember(d)
    \/ \E keys \in PressedKeys, opts \in {NoOptions, WithCommandClass("TOGGLE"), AsStateSync} :
          Press(keys, opts)
    \/ DispatchBatch
    \/ \E call \in todo : Send(call)
    \/ \E r \in posted : SendFails(r) \/ CoreCrosses(r)

Spec == Init /\ [][Next]_vars
-----------------------------------------------------------------------------
(* Core's loop protection works through relays: however deliveries, late   *)
(* publishes and confirmations interleave, nothing that follows from one   *)
(* press crosses a binding twice in one direction (endpoint_cause.go:8).   *)
LoopsTrip ==
    \A id \in DOMAIN delivered : \A i \in delivered[id].items :
        \A m, n \in DOMAIN i.history : i.history[m] = i.history[n] => m = n

(* Once a declaration has succeeded alone, a publish is a step or a flip   *)
(* exactly when core's own record says so of every endpoint it names,      *)
(* until the next declaration begins: an older set, a failed call or a     *)
(* retired endpoint leaves nothing behind (DeclareEndpoints,               *)
(* declaredCommandClass).                                                  *)
ClassIsCores ==
    \A r \in posted : r.clean =>
        \A class \in CommandClass \ {"ABSOLUTE"} :
            r.body.class = class <=>
                \A k \in r.body.keys : k \in DOMAIN endpoints /\ endpoints[k] = class
=============================================================================
