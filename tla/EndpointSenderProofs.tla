------------------------ MODULE EndpointSenderProofs ------------------------
(***************************************************************************)
(* Proofs about the sending half of the endpoint bus, for any endpoints,   *)
(* wiring and relays, any declarations and any number of declarers,        *)
(* presses and faults.                                                     *)
(***************************************************************************)
EXTENDS EndpointSender, TLAPS, SequenceTheorems

Histories == UNION {[S -> Seq(Crossing)] : S \in SUBSET Keys}
Origins   == Nat \X (Nat \cup Keys \cup {NoKey})
Item      == [key : Keys, chain : SUBSET Crossing, history : Seq(Crossing)]
Message   == [kind : Kinds, items : SUBSET Item, first : Item]
Calls     == [origin : Origins, kind : Kinds, keys : SUBSET Keys, ctx : Cause, opts : Options,
              history : Histories]
Posts     == [body : Body, origin : Origins, history : Histories, clean : BOOLEAN]

(* What was sent names a message that had been handed over by then.        *)
CallOK(t) == t.keys # {} /\ t.history \in [t.keys -> Seq(Crossing)] /\ CauseOf(t).message < next
PostOK(r) == /\ r.body.keys # {} /\ r.history \in [r.body.keys -> Seq(Crossing)]
             /\ r.body.caused_by < next

DeclTypes ==
    /\ declaredClasses \in ClassMap /\ endpoints \in ClassMap
    /\ declaring \in [Declarers -> [at : {"idle", "put", "answered"}, specs : Specs]]
    /\ contested \in BOOLEAN

TypeInv ==
    /\ DeclTypes
    /\ presses \in Nat
    /\ todo \subseteq Calls /\ \A t \in todo : CallOK(t)
    /\ posted \subseteq Posts /\ \A r \in posted : PostOK(r)
    /\ delivered \in Seq(Message)
    /\ \A id \in 1..Len(delivered) : delivered[id].first \in delivered[id].items
    /\ next \in Nat /\ 1 <= next /\ next <= Len(delivered) + 1

LEMMA WiringFacts ==
    /\ \A b \in Bindings : b.from \in Keys /\ b.to \in Keys
    /\ Relay \in [Keys -> SUBSET Keys] /\ PressedKeys \subseteq (SUBSET Keys) \ {{}}
    /\ NoKey \notin Keys /\ Declarations \subseteq Specs
  BY WiringAssumption, DeclarationsAssumption

LEMMA MapFacts ==
    ASSUME NEW C, NEW f \in MapTo(C)
    PROVE  DOMAIN f \subseteq Keys /\ f \in [DOMAIN f -> C]
  BY DEF MapTo

LEMMA EmptyMap == ASSUME NEW C PROVE <<>> \in MapTo(C)
<1>1. <<>> \in Seq(C) /\ Len(<<>>) = 0
  BY EmptySeq
<1>2. <<>> \in [1..0 -> C]
  BY <1>1, LenProperties
<1>3. 1..0 = {}
  OBVIOUS
<1> QED
  BY <1>2, <1>3 DEF MapTo

(* The SDK and core read a declaration alike.                              *)
LEMMA ClassesAgree ==
    ASSUME NEW specs \in Specs
    PROVE  Classes(specs) = CoreClasses(specs) /\ CoreClasses(specs) \in ClassMap
<1>1. DOMAIN specs \subseteq Keys /\ specs \in [DOMAIN specs -> CommandClass \cup {""}]
  BY MapFacts DEF Specs
<1>2. \A k \in DOMAIN specs :
          /\ normalizeCommandClass(specs[k]) = (IF specs[k] = "" THEN "ABSOLUTE" ELSE specs[k])
          /\ normalizeCommandClass(specs[k]) \in CommandClass
  BY <1>1 DEF normalizeCommandClass, CommandClass
<1>3. Classes(specs) = CoreClasses(specs)
  BY <1>2 DEF Classes, CoreClasses
<1>4. CoreClasses(specs) \in [DOMAIN specs -> CommandClass]
  BY <1>2 DEF CoreClasses
<1> QED
  BY <1>1, <1>3, <1>4 DEF ClassMap, MapTo

LEMMA DeliveredFacts ==
    ASSUME TypeInv
    PROVE  /\ Len(delivered) \in Nat /\ DOMAIN delivered = 1..Len(delivered)
           /\ \A id \in 1..Len(delivered) : delivered[id] \in Message
  BY LenProperties, ElementOfSeq DEF TypeInv

LEMMA CauseFacts ==
    ASSUME NEW t \in Calls
    PROVE  /\ CauseOf(t) \in Cause
           /\ BodyOf(t).caused_by = CauseOf(t).message
           /\ BodyOf(t).caused_by_endpoint = IF CauseOf(t).message = 0 THEN NoKey ELSE CauseOf(t).endpoint
           /\ BodyOf(t).keys = t.keys /\ BodyOf(t).kind = t.kind
<1>1. t.ctx \in Cause /\ t.opts.cause \in Cause
  BY DEF Calls, Options
<1>2. CauseOf(t) \in Cause /\ CauseOf(t).message \in Nat
  BY <1>1 DEF CauseOf, Cause
<1> QED
  BY <1>2 DEF BodyOf, Valid

LEMMA ClassOfType ==
    ASSUME NEW classes \in ClassMap, NEW keys
    PROVE  ClassOf(classes, keys) \in CommandClass
<1> DEFINE found == {ClassIn(classes, k) : k \in keys}
<1>1. CASE \E c \in CommandClass : found = {c}
  <2>1. PICK c \in CommandClass : found = {c}
    BY <1>1
  <2>2. (CHOOSE x \in found : TRUE) = c
    BY <2>1
  <2> QED
    BY <1>1, <2>1, <2>2 DEF ClassOf
<1>2. CASE ~\E c \in CommandClass : found = {c}
  BY <1>2 DEF ClassOf, CommandClass
<1> QED
  BY <1>1, <1>2

LEMMA BodyType == ASSUME DeclTypes, NEW t \in Calls PROVE BodyOf(t) \in Body
<1>1. /\ t.kind \in Kinds /\ t.keys \in SUBSET Keys
      /\ t.opts.class \in CommandClass /\ t.opts.stateSync \in BOOLEAN
  BY DEF Calls, Options
<1>2. ClassOf(declaredClasses, t.keys) \in CommandClass
  BY ClassOfType DEF DeclTypes
<1>3. BodyOf(t).caused_by \in Nat /\ BodyOf(t).caused_by_endpoint \in Keys \cup {NoKey}
  BY CauseFacts DEF Cause
<1> QED
  BY <1>1, <1>2, <1>3 DEF BodyOf, Body
-----------------------------------------------------------------------------
LEMMA TypeInit == Init => TypeInv
<1> SUFFICES ASSUME Init PROVE TypeInv
  OBVIOUS
<1>1. <<>> \in Seq(Message) /\ Len(<<>>) = 0
  BY EmptySeq
<1>2. <<>> \in ClassMap /\ <<>> \in Specs
  BY EmptyMap DEF ClassMap, Specs
<1>3. endpoints \in ClassMap
  <2>1. \A specs \in Declarations : CoreClasses(specs) \in ClassMap
    BY ClassesAgree, WiringFacts
  <2> QED
    BY <1>2, <2>1 DEF Init
<1>4. declaring \in [Declarers -> [at : {"idle", "put", "answered"}, specs : Specs]]
  BY <1>2 DEF Init
<1>5. DeclTypes
  BY <1>2, <1>3, <1>4 DEF Init, DeclTypes
<1>6. delivered = <<>>
  BY DEF Init
<1>7. delivered \in Seq(Message) /\ Len(delivered) = 0
  BY <1>1, <1>6
<1>8. todo = {} /\ posted = {} /\ next = 1 /\ presses = 0
  BY DEF Init
<1> QED
  BY <1>5, <1>7, <1>8 DEF TypeInv

(* DeclareEndpoints touches no message, and no publish but its mark.       *)
LEMMA DeclTyped ==
    ASSUME TypeInv, NEW d \in Declarers, NEW specs,
           (specs \in Declarations /\ Declare(d, specs)) \/ CoreDeclares(d) \/ DeclareFails(d) \/ Remember(d)
    PROVE  TypeInv'
<1>1. UNCHANGED <<todo, delivered, next, presses>>
  BY DEF Declare, CoreDeclares, DeclareFails, Remember, sendVars
<1>2. declaring[d] \in [at : {"idle", "put", "answered"}, specs : Specs]
      /\ (specs \in Declarations => specs \in Specs) /\ <<>> \in Specs
  BY WiringFacts, EmptyMap DEF TypeInv, DeclTypes, Specs
<1>3. declaring' \in [Declarers -> [at : {"idle", "put", "answered"}, specs : Specs]]
  BY <1>2 DEF Declare, CoreDeclares, DeclareFails, Remember, Set, TypeInv, DeclTypes
<1>4. declaredClasses' \in ClassMap /\ endpoints' \in ClassMap
  BY <1>2, ClassesAgree DEF Declare, CoreDeclares, DeclareFails, Remember, TypeInv, DeclTypes
<1>5. contested' \in BOOLEAN
  BY DEF Declare, CoreDeclares, DeclareFails, Remember, TypeInv, DeclTypes, AllIdle
<1>6. posted' \subseteq Posts /\ \A r \in posted' : PostOK(r)'
  <2>1. CASE Declare(d, specs)
    <3>1. posted' = {[r EXCEPT !.clean = FALSE] : r \in posted}
      BY <2>1 DEF Declare
    <3>2. \A r \in posted : /\ [r EXCEPT !.clean = FALSE] \in Posts
                            /\ [r EXCEPT !.clean = FALSE].body = r.body
                            /\ [r EXCEPT !.clean = FALSE].history = r.history
      BY DEF TypeInv, Posts
    <3> SUFFICES ASSUME NEW q \in posted' PROVE q \in Posts /\ PostOK(q)'
      OBVIOUS
    <3>3. PICK r \in posted : q = [r EXCEPT !.clean = FALSE]
      BY <3>1
    <3>4. q \in Posts /\ q.body = r.body /\ q.history = r.history
      BY <3>2, <3>3
    <3> QED
      BY <1>1, <3>4 DEF TypeInv, PostOK
  <2>2. CASE posted' = posted
    BY <1>1, <2>2 DEF TypeInv, PostOK
  <2> QED
    BY <2>1, <2>2 DEF CoreDeclares, DeclareFails, Remember, sendVars
<1>7. \A t \in todo' : CallOK(t)'
  BY <1>1 DEF TypeInv, CallOK, CauseOf, Valid
<1> QED
  BY <1>1, <1>3, <1>4, <1>5, <1>6, <1>7 DEF TypeInv, DeclTypes

(* A call of a send method that is well formed may be made.                *)
LEMMA CallsTyped ==
    ASSUME TypeInv, UNCHANGED <<declVars, posted, delivered>>, presses' \in Nat,
           next' \in Nat, next <= next', next' <= Len(delivered) + 1,
           \A t \in todo' \ todo : t \in Calls /\ CallOK(t)'
    PROVE  TypeInv'
<1>1. \A t \in todo : CallOK(t)'
  <2> SUFFICES ASSUME NEW t \in todo PROVE CallOK(t)'
    OBVIOUS
  <2>1. CauseOf(t)' = CauseOf(t) /\ CauseOf(t).message \in Nat
    BY CauseFacts DEF CauseOf, Cause, TypeInv, Valid
  <2>2. next \in Nat /\ CauseOf(t).message < next'
    BY <2>1 DEF TypeInv, CallOK
  <2> QED
    BY <2>1, <2>2 DEF TypeInv, CallOK
<1>2. \A r \in posted : PostOK(r)'
  <2> SUFFICES ASSUME NEW r \in posted PROVE PostOK(r)'
    OBVIOUS
  <2>1. r.body.caused_by \in Nat /\ r.body.caused_by < next /\ next \in Nat
    BY DEF TypeInv, PostOK, Posts, Body
  <2>2. r.body.caused_by < next'
    BY <2>1
  <2> QED
    BY <2>2 DEF TypeInv, PostOK
<1>3. DeclTypes'
  BY DEF TypeInv, DeclTypes, declVars
<1> QED
  BY <1>1, <1>2, <1>3 DEF TypeInv

LEMMA OptionFacts ==
    /\ NoCause \in Cause /\ NoOptions \in Options /\ WithCommandClass("TOGGLE") \in Options
    /\ AsStateSync \in Options
    /\ \A c \in Cause : Caused(c) \in Options
    /\ NoOptions.causeSet = FALSE /\ WithCommandClass("TOGGLE").causeSet = FALSE
    /\ AsStateSync.causeSet = FALSE /\ NoCause.message = 0
    /\ \A c \in Cause : Caused(c).causeSet = TRUE /\ Caused(c).cause = c
<1>1. NoCause \in Cause /\ NoCause.message = 0
  BY DEF NoCause, Cause
<1>2. NoOptions \in Options
  BY <1>1 DEF NoOptions, Options, CommandClass
<1> QED
  BY <1>1, <1>2 DEF NoOptions, Options, WithCommandClass, AsStateSync, Caused, CommandClass

LEMMA PressTyped ==
    ASSUME TypeInv, NEW keys \in PressedKeys,
           NEW opts \in {NoOptions, WithCommandClass("TOGGLE"), AsStateSync}, Press(keys, opts)
    PROVE  TypeInv' /\ UNCHANGED <<declVars, posted, delivered, next>>
<1>0. PICK n \in Nat : n = presses + 1
  BY DEF TypeInv
<1> DEFINE t == Call(<<0, n>>, IF opts.stateSync THEN "event" ELSE "command",
                     NoCause, opts, [k \in keys |-> <<>>])
<1>1. UNCHANGED <<declVars, posted, delivered, next>> /\ todo' = todo \cup {t} /\ presses' = n
  BY <1>0 DEF Press
<1>2. keys \in SUBSET Keys /\ keys # {}
  BY WiringFacts
<1>3. [k \in keys |-> <<>>] \in [keys -> Seq(Crossing)]
  BY EmptySeq
<1>4. [k \in keys |-> <<>>] \in Histories
  BY <1>2, <1>3 DEF Histories
<1>5. presses' \in Nat /\ <<0, n>> \in Origins
  BY <1>1 DEF Origins
<1>6. opts \in Options /\ opts.causeSet = FALSE
  BY OptionFacts
<1>7. t.keys = keys /\ t.ctx = NoCause /\ t.opts = opts /\ t.history = [k \in keys |-> <<>>]
  BY DEF Call
<1>8. t \in Calls
  BY <1>2, <1>4, <1>5, <1>6, OptionFacts DEF Call, Calls, Kinds
<1>9. CauseOf(t).message = 0
  BY <1>6, <1>7, OptionFacts DEF CauseOf
<1>10. CallOK(t)'
  <2>1. next' \in Nat /\ 0 < next'
    BY <1>1 DEF TypeInv
  <2> QED
    BY <1>2, <1>3, <1>7, <1>9, <2>1 DEF CallOK, CauseOf, Valid
<1> HIDE DEF t
<1>11. next' \in Nat /\ next <= next' /\ next' <= Len(delivered) + 1
  BY <1>1 DEF TypeInv
<1> QED
  BY <1>1, <1>5, <1>8, <1>10, <1>11, CallsTyped

(* What a handler relays keeps the history of the item it answers, and its *)
(* cause is that item, whichever way it is given.                          *)
LEMMA RelayedFacts ==
    ASSUME TypeInv, NEW id \in 1..Len(delivered), NEW i \in delivered[id].items, NEW way \in Ways(id),
           RelayKeys(delivered[id].kind, i.key) # {},
           NEW t, t = Relayed(id, i, way)
    PROVE  /\ t \in Calls /\ t.keys # {} /\ t.history = [k \in t.keys |-> i.history]
           /\ CauseOf(t) = [message |-> id, endpoint |-> i.key]
           /\ i \in Item
<1> DEFINE keys == RelayKeys(delivered[id].kind, i.key)
<1>1. /\ delivered[id] \in Message /\ delivered[id].first \in delivered[id].items /\ i \in Item
      /\ id \in Nat /\ id > 0
  BY DeliveredFacts DEF TypeInv, Message
<1>2. i.key \in Keys /\ i.history \in Seq(Crossing) /\ delivered[id].first.key \in Keys
      /\ delivered[id].kind \in Kinds
  BY <1>1 DEF Item, Message
<1>3. keys \in SUBSET Keys
  BY <1>2, WiringFacts DEF RelayKeys
<1>4. [k \in keys |-> i.history] \in Histories
  BY <1>2, <1>3 DEF Histories
<1>5. /\ CauseFor(id, i.key) = [message |-> id, endpoint |-> i.key] /\ CauseFor(id, i.key) \in Cause
      /\ BatchCause(id) \in Cause /\ Valid(CauseFor(id, i.key)) /\ Valid(BatchCause(id))
  BY <1>1, <1>2 DEF CauseFor, BatchCause, Cause, Valid
<1>6. way = "context" => BatchCause(id) = CauseFor(id, i.key)
  <2> SUFFICES ASSUME way = "context" PROVE BatchCause(id) = CauseFor(id, i.key)
    OBVIOUS
  <2>1. delivered[id].first = i
    BY <1>1 DEF Ways
  <2> QED
    BY <2>1 DEF BatchCause, CauseFor
<1>7. /\ t.kind = delivered[id].kind /\ t.keys = keys /\ t.history = [k \in keys |-> i.history]
      /\ t.origin = <<id, i.key>>
      /\ t.ctx = (IF way = "kept" THEN ContextWithCause(NoCause, CauseFor(id, i.key))
                                  ELSE ContextWithCause(NoCause, BatchCause(id)))
      /\ t.opts = (IF way = "caused" THEN Caused(CauseFor(id, i.key)) ELSE NoOptions)
  BY DEF Relayed, Call
<1>8. /\ t.ctx = (IF way = "kept" THEN CauseFor(id, i.key) ELSE BatchCause(id))
      /\ t.ctx \in Cause /\ t.opts \in Options
  BY <1>5, <1>7, OptionFacts DEF ContextWithCause
<1>9. CauseOf(t) = CauseFor(id, i.key)
  <2>1. CASE way = "caused"
    BY <1>5, <1>7, <2>1, OptionFacts DEF CauseOf
  <2>2. CASE way # "caused"
    <3>1. t.opts.causeSet = FALSE
      BY <1>7, <2>2, OptionFacts
    <3>2. way \in {"kept", "context"}
      BY <2>2 DEF Ways
    <3> QED
      BY <1>6, <1>8, <3>1, <3>2 DEF CauseOf
  <2> QED
    BY <2>1, <2>2
<1>10. t \in Calls
  <2>1. <<id, i.key>> \in Origins
    BY <1>1, <1>2 DEF Origins
  <2>2. t = [origin |-> t.origin, kind |-> t.kind, keys |-> t.keys, ctx |-> t.ctx, opts |-> t.opts,
             history |-> t.history]
    BY DEF Relayed, Call
  <2> QED
    BY <1>2, <1>3, <1>4, <1>7, <1>8, <2>1, <2>2 DEF Calls
<1> QED
  BY <1>1, <1>5, <1>7, <1>9, <1>10

LEMMA RelayedHistory ==
    ASSUME TypeInv, NEW id \in 1..Len(delivered), NEW i \in delivered[id].items, NEW way \in Ways(id),
           RelayKeys(delivered[id].kind, i.key) # {},
           NEW t, t = Relayed(id, i, way), NEW l \in t.keys
    PROVE  t.history[l] = i.history /\ CauseOf(t) = [message |-> id, endpoint |-> i.key]
<1>1. /\ t.history = [k \in t.keys |-> i.history]
      /\ CauseOf(t) = [message |-> id, endpoint |-> i.key]
  BY RelayedFacts
<1> QED
  BY <1>1

(* A confirmation shows, on each endpoint, an item that arrived there.     *)
LEMMA ConfirmedFacts ==
    ASSUME TypeInv, NEW id \in 1..Len(delivered), NEW t, t = Confirmed(id)
    PROVE  /\ t \in Calls /\ t.keys # {} /\ t.history \in [t.keys -> Seq(Crossing)]
           /\ CauseOf(t) = [message |-> id, endpoint |-> NoKey]
           /\ \A k \in t.keys : \E i \in delivered[id].items : i.key = k /\ t.history[k] = i.history
<1> DEFINE items == delivered[id].items
           keys  == {i.key : i \in items}
           hist  == [k \in keys |-> (CHOOSE i \in items : i.key = k).history]
<1>1. /\ delivered[id] \in Message /\ delivered[id].first \in items /\ items \subseteq Item
      /\ id \in Nat /\ id > 0
  BY DeliveredFacts DEF TypeInv, Message
<1>2. keys \in SUBSET Keys /\ keys # {}
  BY <1>1 DEF Item
<1>3. \A k \in keys : \E i \in items : i.key = k /\ hist[k] = i.history /\ i.history \in Seq(Crossing)
  <2> SUFFICES ASSUME NEW k \in keys
               PROVE  \E i \in items : i.key = k /\ hist[k] = i.history /\ i.history \in Seq(Crossing)
    OBVIOUS
  <2> DEFINE i == CHOOSE i \in items : i.key = k
  <2>1. i \in items /\ i.key = k
    OBVIOUS
  <2>2. i.history \in Seq(Crossing)
    BY <1>1, <2>1 DEF Item
  <2>3. hist[k] = i.history
    OBVIOUS
  <2> QED
    BY <2>1, <2>2, <2>3
<1>4. hist \in [keys -> Seq(Crossing)]
  <2>1. \A k \in keys : (CHOOSE i \in items : i.key = k).history \in Seq(Crossing)
    BY <1>3
  <2> QED
    BY <2>1
<1>5. /\ t.kind = "event" /\ t.keys = keys /\ t.history = hist /\ t.origin = <<id, NoKey>>
      /\ t.ctx = ContextWithCause(NoCause, BatchCause(id)) /\ t.opts = Caused(CauseFor(id, NoKey))
  BY DEF Confirmed, Call
<1>6. /\ CauseFor(id, NoKey) = [message |-> id, endpoint |-> NoKey] /\ CauseFor(id, NoKey) \in Cause
      /\ BatchCause(id) \in Cause
  BY <1>1 DEF CauseFor, BatchCause, Cause, Item
<1> HIDE DEF keys, hist, items
<1>7. t.ctx \in Cause /\ t.opts \in Options
  BY <1>5, <1>6, OptionFacts DEF ContextWithCause
<1>8. CauseOf(t) = CauseFor(id, NoKey)
  BY <1>5, <1>6, OptionFacts DEF CauseOf
<1>9. t \in Calls
  <2>1. <<id, NoKey>> \in Origins /\ hist \in Histories
    BY <1>1, <1>2, <1>4 DEF Origins, Histories
  <2>2. t = [origin |-> t.origin, kind |-> t.kind, keys |-> t.keys, ctx |-> t.ctx, opts |-> t.opts,
             history |-> t.history]
    BY DEF Confirmed, Call
  <2> QED
    BY <1>2, <1>5, <1>7, <2>1, <2>2 DEF Calls, Kinds
<1> QED
  BY <1>2, <1>3, <1>4, <1>5, <1>6, <1>8, <1>9 DEF items

(* The calls that a batch leads to.                                        *)
LEMMA DispatchFacts ==
    ASSUME TypeInv, DispatchBatch
    PROVE  /\ next \in 1..Len(delivered) /\ next' = next + 1
           /\ UNCHANGED <<declVars, posted, delivered, presses>>
           /\ todo \subseteq todo'
           /\ \A t \in todo' \ todo :
                 \/ t = Confirmed(next)
                 \/ \E i \in delivered[next].items, way \in Ways(next) :
                       RelayKeys(delivered[next].kind, i.key) # {} /\ t = Relayed(next, i, way)
<1>1. next \in 1..Len(delivered)
  BY DeliveredFacts DEF DispatchBatch, TypeInv
<1> QED
  BY <1>1 DEF DispatchBatch

LEMMA DispatchTyped == ASSUME TypeInv, DispatchBatch PROVE TypeInv'
<1>1. /\ next \in 1..Len(delivered) /\ next' = next + 1 /\ Len(delivered) \in Nat
      /\ UNCHANGED <<declVars, posted, delivered, presses>>
  BY DispatchFacts, DeliveredFacts
<1>2. \A t \in todo' \ todo : t \in Calls /\ CallOK(t)'
  <2> SUFFICES ASSUME NEW t \in todo' \ todo PROVE t \in Calls /\ CallOK(t)'
    OBVIOUS
  <2>1. t \in Calls /\ t.keys # {} /\ t.history \in [t.keys -> Seq(Crossing)] /\ CauseOf(t).message = next
    <3>1. CASE t = Confirmed(next)
      BY <1>1, <3>1, ConfirmedFacts
    <3>2. ASSUME NEW i \in delivered[next].items, NEW way \in Ways(next),
                 RelayKeys(delivered[next].kind, i.key) # {}, t = Relayed(next, i, way)
          PROVE  t \in Calls /\ t.keys # {} /\ t.history \in [t.keys -> Seq(Crossing)]
                 /\ CauseOf(t).message = next
      <4>1. /\ t \in Calls /\ t.keys # {} /\ t.history = [k \in t.keys |-> i.history]
            /\ CauseOf(t) = [message |-> next, endpoint |-> i.key] /\ i \in Item
        BY <1>1, <3>2, RelayedFacts
      <4>2. i.history \in Seq(Crossing) /\ CauseOf(t).message = next
        BY <4>1 DEF Item
      <4>3. t.history \in [t.keys -> Seq(Crossing)]
        BY <4>1, <4>2
      <4> QED
        BY <4>1, <4>2, <4>3
    <3> QED
      BY <3>1, <3>2, DispatchFacts
  <2>2. CauseOf(t).message < next'
    BY <1>1, <2>1
  <2> QED
    BY <2>1, <2>2 DEF CallOK, CauseOf, Valid
<1>3. presses' \in Nat /\ next' \in Nat /\ next <= next' /\ next' <= Len(delivered) + 1
  BY <1>1 DEF TypeInv
<1> QED
  BY <1>1, <1>2, <1>3, CallsTyped

LEMMA SendTyped == ASSUME TypeInv, NEW call \in todo, Send(call) PROVE TypeInv'
<1>1. UNCHANGED <<declVars, delivered, next, presses>> /\ todo' = todo \ {call}
  BY DEF Send
<1>2. call \in Calls /\ CallOK(call)
  BY DEF TypeInv
<1>3. PICK r : /\ r = [body |-> BodyOf(call), origin |-> call.origin, history |-> call.history,
                       clean |-> AllIdle /\ ~contested /\ ~call.opts.classSet]
               /\ posted' = posted \cup {r}
  BY DEF Send
<1>4. r \in Posts
  <2>1. BodyOf(call) \in Body
    BY <1>2, BodyType DEF TypeInv
  <2>2. /\ (AllIdle /\ ~contested /\ ~call.opts.classSet) \in BOOLEAN
        /\ call.origin \in Origins /\ call.history \in Histories
    BY <1>2 DEF Calls
  <2> DEFINE clean == AllIdle /\ ~contested /\ ~call.opts.classSet
  <2>3. [body |-> BodyOf(call), origin |-> call.origin, history |-> call.history, clean |-> clean] \in Posts
    <3> HIDE DEF clean
    <3>1. clean \in BOOLEAN
      BY <2>2 DEF clean
    <3> QED
      BY <2>1, <2>2, <3>1 DEF Posts
  <2> QED
    BY <1>3, <2>3
<1>5. r.body = BodyOf(call) /\ r.history = call.history
  BY <1>3
<1>6. PostOK(r)'
  BY <1>1, <1>2, <1>5, CauseFacts DEF PostOK, CallOK
<1>7. (\A t \in todo : CallOK(t)') /\ (\A q \in posted : PostOK(q)')
  BY <1>1 DEF TypeInv, CallOK, PostOK, CauseOf, Valid
<1>8. DeclTypes'
  BY <1>1 DEF TypeInv, DeclTypes, declVars
<1> QED
  BY <1>1, <1>3, <1>4, <1>6, <1>7, <1>8 DEF TypeInv

(* What core crosses.                                                      *)
LEMMA ItemFacts ==
    ASSUME TypeInv, NEW r \in posted, NEW m \in ItemsOf(r)
    PROVE  \E k \in r.body.keys, x \in Crossing :
              /\ x \notin ChainOf(r.body, k) /\ m.chain = ChainOf(r.body, k) \cup {x}
              /\ m.history = Append(r.history[k], x) /\ r.history[k] \in Seq(Crossing)
              /\ m \in Item
<1>1. r \in Posts /\ PostOK(r)
  BY DEF TypeInv
<1>2. PICK k \in r.body.keys : \E x \in CrossingsFrom(r.body.kind, k) \ ChainOf(r.body, k) :
          m = [key |-> IF x[2] = "fwd" THEN x[1].to ELSE x[1].from,
               chain |-> ChainOf(r.body, k) \cup {x}, history |-> Append(r.history[k], x)]
  BY DEF ItemsOf
<1>3. PICK x \in CrossingsFrom(r.body.kind, k) \ ChainOf(r.body, k) :
          m = [key |-> IF x[2] = "fwd" THEN x[1].to ELSE x[1].from,
               chain |-> ChainOf(r.body, k) \cup {x}, history |-> Append(r.history[k], x)]
  BY <1>2
<1>4. x \in Crossing /\ x[1] \in Bindings
  BY <1>3 DEF CrossingsFrom, Crossing
<1>5. ChainOf(r.body, k) \subseteq Crossing
  <2>1. CASE r.body.caused_by = 0
    BY <2>1 DEF ChainOf
  <2>2. CASE r.body.caused_by # 0
    <3>1. r.body.caused_by \in Nat /\ r.body.caused_by < next
      BY <1>1 DEF PostOK, Posts, Body
    <3>2. r.body.caused_by \in 1..Len(delivered)
      BY <2>2, <3>1, DeliveredFacts DEF TypeInv
    <3>3. delivered[r.body.caused_by].items \subseteq Item
      BY <3>2, DeliveredFacts DEF Message
    <3> QED
      BY <2>2, <3>3 DEF ChainOf, Item
  <2> QED
    BY <2>1, <2>2
<1>6. r.history[k] \in Seq(Crossing)
  BY <1>1, <1>2 DEF PostOK
<1>7. Append(r.history[k], x) \in Seq(Crossing)
  BY <1>4, <1>6, AppendProperties
<1>8. (IF x[2] = "fwd" THEN x[1].to ELSE x[1].from) \in Keys
  BY <1>4, WiringFacts
<1>9. m \in Item
  BY <1>3, <1>4, <1>5, <1>7, <1>8 DEF Item
<1> QED
  BY <1>3, <1>4, <1>6, <1>9

LEMMA CrossFacts ==
    ASSUME TypeInv, NEW r \in posted, CoreCrosses(r)
    PROVE  /\ posted' = posted \ {r} /\ UNCHANGED <<declVars, todo, next, presses>>
           /\ delivered' \in Seq(Message) /\ Len(delivered) <= Len(delivered')
           /\ Len(delivered') \in Nat
           /\ \A id \in 1..Len(delivered) : delivered'[id] = delivered[id]
           /\ \A id \in 1..Len(delivered') : id \notin 1..Len(delivered) =>
                 delivered'[id].items = ItemsOf(r) /\ delivered'[id].first \in ItemsOf(r)
<1>1. posted' = posted \ {r} /\ UNCHANGED <<declVars, todo, next, presses>>
  BY DEF CoreCrosses
<1>2. CASE UNCHANGED delivered
  BY <1>1, <1>2, DeliveredFacts DEF TypeInv
<1>3. ASSUME NEW first \in ItemsOf(r),
             delivered' = Append(delivered, [kind |-> r.body.kind, items |-> ItemsOf(r), first |-> first])
      PROVE  /\ delivered' \in Seq(Message) /\ Len(delivered) <= Len(delivered')
             /\ Len(delivered') \in Nat
             /\ \A id \in 1..Len(delivered) : delivered'[id] = delivered[id]
             /\ \A id \in 1..Len(delivered') : id \notin 1..Len(delivered) =>
                   delivered'[id].items = ItemsOf(r) /\ delivered'[id].first \in ItemsOf(r)
  <2> DEFINE m == [kind |-> r.body.kind, items |-> ItemsOf(r), first |-> first]
  <2>1. ItemsOf(r) \subseteq Item
    BY ItemFacts
  <2>2. r.body.kind \in Kinds
    BY DEF TypeInv, Posts, Body
  <2>3. m \in Message /\ m.items = ItemsOf(r) /\ m.first = first
    BY <2>1, <2>2 DEF Message
  <2> HIDE DEF m
  <2>4. /\ Append(delivered, m) \in Seq(Message) /\ Len(Append(delivered, m)) = Len(delivered) + 1
        /\ \A id \in 1..Len(delivered) : Append(delivered, m)[id] = delivered[id]
        /\ Append(delivered, m)[Len(delivered) + 1] = m
    BY <2>3, AppendProperties DEF TypeInv
  <2>5. delivered' = Append(delivered, m)
    BY <1>3 DEF m
  <2>6. Len(delivered) \in Nat
    BY DeliveredFacts
  <2>7. \A id \in 1..Len(delivered') : id \notin 1..Len(delivered) => id = Len(delivered) + 1
    BY <2>4, <2>5, <2>6
  <2> QED
    BY <2>3, <2>4, <2>5, <2>6, <2>7
<1> QED
  BY <1>1, <1>2, <1>3 DEF CoreCrosses

LEMMA PostedTyped ==
    ASSUME TypeInv, NEW r \in posted, SendFails(r) \/ CoreCrosses(r)
    PROVE  TypeInv'
<1>1. /\ posted' = posted \ {r} /\ UNCHANGED <<declVars, todo, next, presses>>
      /\ delivered' \in Seq(Message) /\ Len(delivered) <= Len(delivered')
      /\ Len(delivered') \in Nat /\ Len(delivered) \in Nat
      /\ \A id \in 1..Len(delivered') : delivered'[id].first \in delivered'[id].items
  <2>1. CASE SendFails(r)
    BY <2>1, DeliveredFacts DEF SendFails, TypeInv
  <2>2. CASE CoreCrosses(r)
    BY <2>2, CrossFacts, DeliveredFacts DEF TypeInv
  <2> QED
    BY <2>1, <2>2
<1>2. (\A t \in todo' : CallOK(t)') /\ (\A q \in posted' : PostOK(q)')
  BY <1>1 DEF TypeInv, CallOK, PostOK, CauseOf, Valid
<1>3. DeclTypes'
  BY <1>1 DEF TypeInv, DeclTypes, declVars
<1>4. next' \in Nat /\ 1 <= next' /\ next' <= Len(delivered') + 1
  BY <1>1 DEF TypeInv
<1> QED
  BY <1>1, <1>2, <1>3, <1>4 DEF TypeInv

LEMMA TypeSteps == TypeInv /\ [Next]_vars => TypeInv'
<1> SUFFICES ASSUME TypeInv, [Next]_vars PROVE TypeInv'
  OBVIOUS
<1>1. ASSUME NEW d \in Declarers, NEW specs \in Declarations, Declare(d, specs) PROVE TypeInv'
  BY <1>1, DeclTyped
<1>2. ASSUME NEW d \in Declarers, CoreDeclares(d) \/ DeclareFails(d) \/ Remember(d) PROVE TypeInv'
  BY <1>2, DeclTyped
<1>3. ASSUME NEW keys \in PressedKeys, NEW opts \in {NoOptions, WithCommandClass("TOGGLE"), AsStateSync},
             Press(keys, opts)
      PROVE  TypeInv'
  BY <1>3, PressTyped
<1>4. CASE UNCHANGED vars
  BY <1>4 DEF vars, TypeInv, DeclTypes, CallOK, PostOK, CauseOf, Valid
<1> QED
  BY <1>1, <1>2, <1>3, <1>4, DispatchTyped, SendTyped, PostedTyped DEF Next

LEMMA TypeInvariant == Spec => []TypeInv
  BY TypeInit, TypeSteps, PTL DEF Spec

(* The variables keep their types.                                         *)
THEOREM TypeCorrect == Spec => []TypeOK
<1>1. TypeInv => TypeOK
  <2> SUFFICES ASSUME TypeInv PROVE TypeOK
    OBVIOUS
  <2>1. \A t \in todo : t.kind \in Kinds /\ t.ctx \in Cause /\ t.opts \in Options
    BY DEF TypeInv, Calls
  <2>2. \A r \in posted : r.body \in Body /\ r.body.keys # {} /\ r.body.caused_by < next
    BY DEF TypeInv, Posts, PostOK
  <2>3. \A id \in DOMAIN delivered : delivered[id].first \in delivered[id].items
    BY DeliveredFacts DEF TypeInv
  <2>4. next \in 1..(Len(delivered) + 1)
    BY DeliveredFacts DEF TypeInv
  <2>5. \A d \in Declarers : declaring[d].at \in {"idle", "put", "answered"} /\ declaring[d].specs \in Specs
    BY DEF TypeInv, DeclTypes
  <2> QED
    BY <2>1, <2>2, <2>3, <2>4, <2>5 DEF TypeInv, DeclTypes, TypeOK
<1> QED
  BY <1>1, TypeInvariant, PTL
-----------------------------------------------------------------------------
(* While nothing contests a declaration, it is the only one under way; and *)
(* when it has ended the SDK holds the classes that core holds.  A publish *)
(* counts as clean only while they still do.                               *)
ClassInv ==
    /\ ~contested =>
          /\ \A d, e \in Declarers : d # e => Idle(d) \/ Idle(e)
          /\ AllIdle => declaredClasses = endpoints
          /\ \A d \in Declarers : declaring[d].at = "answered" => endpoints = CoreClasses(declaring[d].specs)
    /\ \A r \in posted : r.clean =>
          /\ AllIdle /\ ~contested
          /\ r.body.class = ClassOf(declaredClasses, r.body.keys)

LEMMA ClassInit == Init => ClassInv
  BY DEF Init, ClassInv

(* What leaves the declarations alone and adds no publish.                 *)
LEMMA ClassKept ==
    ASSUME ClassInv, UNCHANGED declVars, posted' \subseteq posted
    PROVE  ClassInv'
<1>1. UNCHANGED <<declaredClasses, declaring, endpoints, contested>>
  BY DEF declVars
<1> QED
  BY <1>1 DEF ClassInv, Idle, AllIdle

LEMMA ClassDeclares ==
    ASSUME TypeInv, ClassInv, NEW d \in Declarers, NEW specs \in Declarations, Declare(d, specs)
    PROVE  ClassInv'
<1>1. /\ UNCHANGED <<declaredClasses, endpoints>> /\ Idle(d) /\ contested' = ~AllIdle
      /\ declaring' = [declaring EXCEPT ![d] = [at |-> "put", specs |-> specs]]
      /\ posted' = {[r EXCEPT !.clean = FALSE] : r \in posted}
  BY DEF Declare, Set
<1>2. \A e \in Declarers : e # d => declaring'[e] = declaring[e]
  BY <1>1 DEF TypeInv, DeclTypes
<1>3. declaring'[d].at = "put"
  BY <1>1 DEF TypeInv, DeclTypes
<1>4. \A q \in posted' : ~q.clean
  <2>1. \A r \in posted : [r EXCEPT !.clean = FALSE].clean = FALSE
    BY DEF TypeInv, Posts
  <2> QED
    BY <1>1, <2>1
<1>5. ~contested' => \A e \in Declarers : e # d => Idle(e)'
  BY <1>1, <1>2 DEF AllIdle, Idle
<1>6. ~AllIdle'
  BY <1>3 DEF AllIdle, Idle
<1>7. ~contested' => \A e \in Declarers : declaring'[e].at # "answered"
  BY <1>3, <1>5 DEF Idle
<1> QED
  BY <1>4, <1>5, <1>6, <1>7 DEF ClassInv

(* The steps of a call under way, while which no publish is clean.         *)
LEMMA ClassUnderWay ==
    ASSUME TypeInv, ClassInv, NEW d \in Declarers, CoreDeclares(d) \/ DeclareFails(d) \/ Remember(d)
    PROVE  ClassInv'
<1>1. ~Idle(d) /\ posted' = posted
  BY DEF CoreDeclares, DeclareFails, Remember, Idle, sendVars
<1>2. \A r \in posted' : ~r.clean
  BY <1>1 DEF ClassInv, AllIdle
<1>3. CASE DeclareFails(d)
  BY <1>2, <1>3 DEF DeclareFails, ClassInv
<1>4. PICK at, s : declaring' = [declaring EXCEPT ![d] = [at |-> at, specs |-> s]]
  BY DEF CoreDeclares, DeclareFails, Remember, Set
<1>5. \A e \in Declarers : e # d => declaring'[e] = declaring[e]
  BY <1>4 DEF TypeInv, DeclTypes
<1>6. ~contested => \A e \in Declarers : e # d => Idle(e) /\ Idle(e)'
  BY <1>1, <1>5 DEF ClassInv, Idle
<1>7. CASE CoreDeclares(d)
  <2>1. /\ contested' = contested /\ endpoints' = CoreClasses(declaring[d].specs)
        /\ declaring'[d] = [at |-> "answered", specs |-> declaring[d].specs]
    BY <1>7 DEF CoreDeclares, Set, TypeInv, DeclTypes
  <2>2. declaring'[d].at = "answered" /\ declaring'[d].specs = declaring[d].specs
    BY <2>1
  <2>3. ~AllIdle'
    BY <2>2 DEF AllIdle, Idle
  <2>4. ~contested' => \A e \in Declarers : declaring'[e].at = "answered" => e = d
    BY <1>6, <2>1 DEF Idle
  <2> QED
    BY <1>2, <1>6, <2>1, <2>2, <2>3, <2>4 DEF ClassInv
<1>8. CASE Remember(d)
  <2>1. /\ UNCHANGED <<contested, endpoints>> /\ declaring[d].at = "answered"
        /\ declaredClasses' = Classes(declaring[d].specs) /\ declaring'[d] = [at |-> "idle", specs |-> <<>>]
    BY <1>8 DEF Remember, Set, TypeInv, DeclTypes
  <2>2. declaring[d].specs \in Specs
    BY DEF TypeInv, DeclTypes
  <2>3. ~contested => declaredClasses' = endpoints
    BY <2>1, <2>2, ClassesAgree DEF ClassInv
  <2>4. declaring'[d].at = "idle"
    BY <2>1
  <2>5. ~contested' => \A e \in Declarers : declaring'[e].at = "idle"
    BY <1>6, <2>1, <2>4 DEF Idle
  <2> QED
    BY <1>2, <2>1, <2>3, <2>5 DEF ClassInv, Idle
<1> QED
  BY <1>3, <1>7, <1>8

LEMMA ClassSends == ASSUME TypeInv, ClassInv, NEW call \in todo, Send(call) PROVE ClassInv'
<1>1. UNCHANGED <<declaredClasses, declaring, endpoints, contested>>
  BY DEF Send, declVars
<1>2. PICK r : /\ r = [body |-> BodyOf(call), origin |-> call.origin, history |-> call.history,
                       clean |-> AllIdle /\ ~contested /\ ~call.opts.classSet]
               /\ posted' = posted \cup {r}
  BY DEF Send
<1>3. r.clean => AllIdle /\ ~contested /\ r.body.class = ClassOf(declaredClasses, r.body.keys)
  BY <1>2 DEF BodyOf
<1>4. AllIdle' = AllIdle /\ \A e \in Declarers : Idle(e)' = Idle(e)
  BY <1>1 DEF AllIdle, Idle
<1>5. \A q \in posted' : q.clean => /\ AllIdle /\ ~contested
                                   /\ q.body.class = ClassOf(declaredClasses, q.body.keys)
  BY <1>2, <1>3 DEF ClassInv
<1> QED
  BY <1>1, <1>4, <1>5 DEF ClassInv

LEMMA ClassSteps == TypeInv /\ ClassInv /\ [Next]_vars => ClassInv'
<1> SUFFICES ASSUME TypeInv, ClassInv, [Next]_vars PROVE ClassInv'
  OBVIOUS
<1>1. ASSUME NEW keys \in PressedKeys, NEW opts \in {NoOptions, WithCommandClass("TOGGLE"), AsStateSync},
             Press(keys, opts)
      PROVE  ClassInv'
  BY <1>1, ClassKept DEF Press
<1>2. CASE DispatchBatch
  BY <1>2, ClassKept DEF DispatchBatch
<1>3. ASSUME NEW r \in posted, SendFails(r) \/ CoreCrosses(r) PROVE ClassInv'
  BY <1>3, ClassKept DEF SendFails, CoreCrosses
<1>4. CASE UNCHANGED vars
  BY <1>4, ClassKept DEF vars, declVars
<1> QED
  BY <1>1, <1>2, <1>3, <1>4, ClassDeclares, ClassUnderWay, ClassSends DEF Next

(* However declarations of any sets fail and follow each other, a publish  *)
(* is a step or a flip exactly when core's record says so of every         *)
(* endpoint it names (DeclareEndpoints, declaredCommandClass).             *)
THEOREM ClassIsCoresAlways == Spec => []ClassIsCores
<1>1. TypeInv /\ ClassInv => ClassIsCores
  <2> SUFFICES ASSUME TypeInv, ClassInv, NEW r \in posted, r.clean,
                      NEW class \in CommandClass \ {"ABSOLUTE"}
               PROVE  r.body.class = class <=>
                         \A k \in r.body.keys : k \in DOMAIN endpoints /\ endpoints[k] = class
    BY DEF ClassIsCores
  <2> DEFINE found == {ClassIn(endpoints, k) : k \in r.body.keys}
  <2>1. r.body.class = ClassOf(endpoints, r.body.keys) /\ r.body.keys # {}
    BY DEF ClassInv, TypeInv, PostOK
  <2>2. (\A k \in r.body.keys : k \in DOMAIN endpoints /\ endpoints[k] = class) <=> found = {class}
    BY <2>1 DEF ClassIn
  <2>3. ClassOf(endpoints, r.body.keys) = class <=> found = {class}
    <3>1. CASE \E c \in CommandClass : found = {c}
      <4>1. PICK c \in CommandClass : found = {c}
        BY <3>1
      <4>2. (CHOOSE x \in found : TRUE) = c
        BY <4>1
      <4>3. ClassOf(endpoints, r.body.keys) = c
        BY <3>1, <4>2 DEF ClassOf
      <4> QED
        BY <4>1, <4>3
    <3>2. CASE ~\E c \in CommandClass : found = {c}
      <4>1. ClassOf(endpoints, r.body.keys) = "ABSOLUTE"
        BY <3>2 DEF ClassOf
      <4> QED
        BY <3>2, <4>1
    <3> QED
      BY <3>1, <3>2
  <2> QED
    BY <2>1, <2>2, <2>3
<1> QED
  BY <1>1, TypeInvariant, ClassInit, ClassSteps, PTL DEF Spec
-----------------------------------------------------------------------------
(* What core finds under a cause covers what has been crossed.             *)
Trip(history, chain) ==
    /\ \A n \in 1..Len(history) : history[n] \in chain
    /\ \A m, n \in 1..Len(history) : history[m] = history[n] => m = n

Lookup(c, k) ==
    IF c.message = 0 THEN {}
    ELSE UNION {i.chain : i \in {j \in delivered[c.message].items :
                                   j.key = (IF c.endpoint = NoKey THEN k ELSE c.endpoint)}}

ItemsTrip == \A id \in 1..Len(delivered) : \A i \in delivered[id].items : Trip(i.history, i.chain)
CallsTrip == \A t \in todo : \A k \in t.keys : Trip(t.history[k], Lookup(CauseOf(t), k))
PostsTrip == \A r \in posted : \A k \in r.body.keys : Trip(r.history[k], ChainOf(r.body, k))
TripInv   == ItemsTrip /\ CallsTrip /\ PostsTrip

(* What a wider chain covers, and what one more crossing leaves covered.   *)
LEMMA TripWider ==
    ASSUME NEW h, NEW c1, NEW c2, Trip(h, c1), c1 \subseteq c2
    PROVE  Trip(h, c2)
  BY DEF Trip

LEMMA TripAppend ==
    ASSUME NEW h \in Seq(Crossing), NEW chain, NEW x \in Crossing, x \notin chain, Trip(h, chain)
    PROVE  Trip(Append(h, x), chain \cup {x})
<1> DEFINE g == Append(h, x)
<1>1. /\ Len(h) \in Nat /\ Len(g) = Len(h) + 1 /\ g[Len(h) + 1] = x
      /\ \A n \in 1..Len(h) : g[n] = h[n]
  BY AppendProperties, LenProperties
<1> HIDE DEF g
<1>2. \A n \in 1..Len(g) : n \in 1..Len(h) \/ n = Len(h) + 1
  BY <1>1
<1>3. \A n \in 1..Len(h) : g[n] \in chain
  BY <1>1 DEF Trip
<1>4. \A m, n \in 1..Len(h) : g[m] = g[n] => m = n
  BY <1>1 DEF Trip
<1>5. \A n \in 1..Len(h) : g[n] # x
  BY <1>3
<1>6. \A n \in 1..Len(g) : g[n] \in chain \cup {x}
  BY <1>1, <1>2, <1>3
<1>7. \A m, n \in 1..Len(g) : g[m] = g[n] => m = n
  BY <1>1, <1>2, <1>4, <1>5
<1>8. Trip(g, chain \cup {x})
  BY <1>6, <1>7 DEF Trip
<1> QED
  BY <1>8 DEF g

LEMMA TripEmpty == ASSUME NEW chain PROVE Trip(<<>>, chain)
<1>1. \A s : s = <<>> => Len(s) = 0
  BY EmptySeq
<1>2. 1..Len(<<>>) = {}
  BY <1>1
<1> QED
  BY <1>2 DEF Trip

LEMMA LookupIsChain ==
    ASSUME NEW t \in Calls, NEW k
    PROVE  ChainOf(BodyOf(t), k) = Lookup(CauseOf(t), k)
  BY CauseFacts DEF ChainOf, Lookup

LEMMA TripInit == Init => TripInv
<1> SUFFICES ASSUME Init PROVE TripInv
  OBVIOUS
<1>1. \A s : s = <<>> => Len(s) = 0
  BY EmptySeq
<1>2. delivered = <<>> /\ todo = {} /\ posted = {}
  BY DEF Init
<1>3. 1..Len(delivered) = {}
  BY <1>1, <1>2
<1> QED
  BY <1>2, <1>3 DEF TripInv, ItemsTrip, CallsTrip, PostsTrip

(* Messages stay as they are, so what is found under a cause does too.     *)
LEMMA LookupsKept ==
    ASSUME TypeInv, TripInv, Len(delivered') \in Nat, Len(delivered) <= Len(delivered'),
           \A id \in 1..Len(delivered) : delivered'[id] = delivered[id]
    PROVE  /\ \A t \in todo : \A k \in t.keys : Trip(t.history[k], Lookup(CauseOf(t), k)')
           /\ \A r \in posted : \A k \in r.body.keys : Trip(r.history[k], ChainOf(r.body, k)')
<1>1. \A n \in Nat : n # 0 /\ n < next => delivered'[n] = delivered[n]
  BY DeliveredFacts DEF TypeInv
<1>2. ASSUME NEW t \in todo, NEW k \in t.keys PROVE Trip(t.history[k], Lookup(CauseOf(t), k)')
  <2>1. CauseOf(t).message \in Nat /\ CauseOf(t).message < next
    BY CauseFacts DEF TypeInv, CallOK, Cause
  <2>2. CauseOf(t)' = CauseOf(t)
    BY DEF CauseOf, Valid
  <2>3. Lookup(CauseOf(t), k)' = Lookup(CauseOf(t), k)
    BY <1>1, <2>1, <2>2 DEF Lookup
  <2> QED
    BY <2>3 DEF TripInv, CallsTrip
<1>3. ASSUME NEW r \in posted, NEW k \in r.body.keys PROVE Trip(r.history[k], ChainOf(r.body, k)')
  <2>1. r.body.caused_by \in Nat /\ r.body.caused_by < next
    BY DEF TypeInv, PostOK, Posts, Body
  <2>2. ChainOf(r.body, k)' = ChainOf(r.body, k)
    BY <1>1, <2>1 DEF ChainOf
  <2> QED
    BY <2>2 DEF TripInv, PostsTrip
<1> QED
  BY <1>2, <1>3

LEMMA TripDeclares ==
    ASSUME TypeInv, TripInv, UNCHANGED <<todo, delivered>>,
           posted' = posted \/ posted' = {[r EXCEPT !.clean = FALSE] : r \in posted}
    PROVE  TripInv'
<1>1. ItemsTrip' /\ CallsTrip'
  <2>1. ItemsTrip'
    BY DEF TripInv, ItemsTrip
  <2>2. \A t \in todo : \A k \in t.keys : Trip(t.history[k], Lookup(CauseOf(t), k)')
    BY LookupsKept, DeliveredFacts
  <2> QED
    BY <2>1, <2>2 DEF CallsTrip
<1>2. \A q \in posted' : \E r \in posted : q.body = r.body /\ q.history = r.history
  BY DEF TypeInv, Posts
<1>3. \A r \in posted : \A k \in r.body.keys : Trip(r.history[k], ChainOf(r.body, k)')
  BY LookupsKept, DeliveredFacts
<1>4. PostsTrip'
  BY <1>2, <1>3 DEF PostsTrip
<1> QED
  BY <1>1, <1>4 DEF TripInv

(* New calls are covered by what core finds under their causes.            *)
LEMMA TripCalls ==
    ASSUME TypeInv, TripInv, UNCHANGED <<posted, delivered>>,
           \A t \in todo' \ todo : \A k \in t.keys : Trip(t.history[k], Lookup(CauseOf(t), k))
    PROVE  TripInv'
<1>1. \A t \in todo' : \A k \in t.keys : Trip(t.history[k], Lookup(CauseOf(t), k))
  BY DEF TripInv, CallsTrip
<1>2. CallsTrip'
  <2> SUFFICES ASSUME NEW t \in todo', NEW k \in t.keys PROVE Trip(t.history[k], Lookup(CauseOf(t), k)')
    BY DEF CallsTrip
  <2>1. CauseOf(t)' = CauseOf(t)
    BY DEF CauseOf, Valid
  <2>2. Lookup(CauseOf(t), k)' = Lookup(CauseOf(t), k)
    BY <2>1 DEF Lookup
  <2> QED
    BY <1>1, <2>2
<1>3. ItemsTrip'
  BY DEF TripInv, ItemsTrip
<1>4. \A r \in posted : \A k \in r.body.keys : Trip(r.history[k], ChainOf(r.body, k)')
  BY LookupsKept, DeliveredFacts
<1> QED
  BY <1>2, <1>3, <1>4 DEF TripInv, PostsTrip

LEMMA TripPresses ==
    ASSUME TypeInv, TripInv, NEW keys \in PressedKeys,
           NEW opts \in {NoOptions, WithCommandClass("TOGGLE"), AsStateSync}, Press(keys, opts)
    PROVE  TripInv'
<1>1. UNCHANGED <<posted, delivered>>
  BY DEF Press
<1>2. \A t \in todo' \ todo : t.keys = keys /\ t.history = [k \in keys |-> <<>>]
  BY DEF Press, Call
<1>3. \A t \in todo' \ todo : \A k \in t.keys : t.history[k] = <<>>
  BY <1>2
<1> QED
  BY <1>1, <1>3, TripEmpty, TripCalls

LEMMA TripDispatch == ASSUME TypeInv, TripInv, DispatchBatch PROVE TripInv'
<1>1. next \in 1..Len(delivered) /\ UNCHANGED <<posted, delivered>> /\ next # 0
  BY DispatchFacts DEF TypeInv
<1>2. \A i \in delivered[next].items : Trip(i.history, i.chain)
  BY <1>1 DEF TripInv, ItemsTrip
<1>3. \A i \in delivered[next].items : i.key # NoKey
  BY <1>1, DeliveredFacts, WiringFacts DEF Message, Item
<1>4. ASSUME NEW t \in todo' \ todo, NEW k \in t.keys PROVE Trip(t.history[k], Lookup(CauseOf(t), k))
  <2>1. \E i \in delivered[next].items :
           t.history[k] = i.history /\ i.chain \subseteq Lookup(CauseOf(t), k)
    <3>1. CASE t = Confirmed(next)
      <4>1. PICK i \in delivered[next].items : i.key = k /\ t.history[k] = i.history
        BY <1>1, <1>4, <3>1, ConfirmedFacts
      <4>2. CauseOf(t) = [message |-> next, endpoint |-> NoKey]
        BY <1>1, <3>1, ConfirmedFacts
      <4>3. i.chain \subseteq Lookup(CauseOf(t), k)
        BY <1>1, <4>1, <4>2 DEF Lookup
      <4> QED
        BY <4>1, <4>3
    <3>2. ASSUME NEW i \in delivered[next].items, NEW way \in Ways(next),
                 RelayKeys(delivered[next].kind, i.key) # {}, t = Relayed(next, i, way)
          PROVE  \E j \in delivered[next].items :
                    t.history[k] = j.history /\ j.chain \subseteq Lookup(CauseOf(t), k)
      <4>1. /\ t.history[k] = i.history
            /\ CauseOf(t) = [message |-> next, endpoint |-> i.key]
        BY <1>1, <1>4, <3>2, RelayedHistory, SMTT(60)
      <4>2. i.chain \subseteq Lookup(CauseOf(t), k)
        BY <1>1, <1>3, <4>1 DEF Lookup
      <4> QED
        BY <4>1, <4>2
    <3> QED
      BY <3>1, <3>2, DispatchFacts
  <2> QED
    BY <1>2, <2>1, TripWider
<1> QED
  BY <1>1, <1>4, TripCalls

LEMMA TripSends == ASSUME TypeInv, TripInv, NEW call \in todo, Send(call) PROVE TripInv'
<1>1. UNCHANGED delivered /\ todo' \subseteq todo
  BY DEF Send
<1>2. PICK r : r.body = BodyOf(call) /\ r.history = call.history /\ posted' = posted \cup {r}
  <2> DEFINE q == [body |-> BodyOf(call), origin |-> call.origin, history |-> call.history,
                   clean |-> AllIdle /\ ~contested /\ ~call.opts.classSet]
  <2>1. q.body = BodyOf(call) /\ q.history = call.history
    OBVIOUS
  <2>2. posted' = posted \cup {q}
    BY DEF Send
  <2> QED
    BY <2>1, <2>2
<1>3. call \in Calls
  BY DEF TypeInv
<1>4. \A k \in r.body.keys : Trip(r.history[k], ChainOf(r.body, k))
  <2>1. \A k \in call.keys : Trip(call.history[k], ChainOf(BodyOf(call), k))
    BY <1>3, LookupIsChain DEF TripInv, CallsTrip
  <2> QED
    BY <1>2, <1>3, <2>1, CauseFacts
<1>5. \A k : ChainOf(r.body, k)' = ChainOf(r.body, k)
  BY <1>1 DEF ChainOf
<1>6. PostsTrip'
  BY <1>2, <1>4, <1>5, <1>1, LookupsKept, DeliveredFacts DEF PostsTrip
<1>7. ItemsTrip'
  BY <1>1 DEF TripInv, ItemsTrip
<1>8. CallsTrip'
  BY <1>1, LookupsKept, DeliveredFacts DEF CallsTrip
<1> QED
  BY <1>6, <1>7, <1>8 DEF TripInv

LEMMA TripCrosses == ASSUME TypeInv, TripInv, NEW r \in posted, CoreCrosses(r) PROVE TripInv'
<1>1. /\ posted' = posted \ {r} /\ UNCHANGED <<declVars, todo, next, presses>>
      /\ delivered' \in Seq(Message) /\ Len(delivered) <= Len(delivered')
      /\ Len(delivered') \in Nat
      /\ \A id \in 1..Len(delivered) : delivered'[id] = delivered[id]
      /\ \A id \in 1..Len(delivered') : id \notin 1..Len(delivered) =>
            delivered'[id].items = ItemsOf(r) /\ delivered'[id].first \in ItemsOf(r)
  BY CrossFacts
<1>2. \A i \in ItemsOf(r) : Trip(i.history, i.chain)
  <2> SUFFICES ASSUME NEW i \in ItemsOf(r) PROVE Trip(i.history, i.chain)
    OBVIOUS
  <2>1. PICK k \in r.body.keys, x \in Crossing :
           /\ x \notin ChainOf(r.body, k) /\ i.chain = ChainOf(r.body, k) \cup {x}
           /\ i.history = Append(r.history[k], x) /\ r.history[k] \in Seq(Crossing)
    BY ItemFacts
  <2>2. Trip(r.history[k], ChainOf(r.body, k))
    BY DEF TripInv, PostsTrip
  <2> QED
    BY <2>1, <2>2, TripAppend
<1>3. ItemsTrip'
  <2> SUFFICES ASSUME NEW id \in 1..Len(delivered'), NEW i \in delivered'[id].items
               PROVE  Trip(i.history, i.chain)
    BY DEF ItemsTrip
  <2>1. CASE id \in 1..Len(delivered)
    BY <1>1, <2>1 DEF TripInv, ItemsTrip
  <2>2. CASE id \notin 1..Len(delivered)
    BY <1>1, <1>2, <2>2
  <2> QED
    BY <2>1, <2>2
<1>4. CallsTrip'
  BY <1>1, LookupsKept DEF CallsTrip
<1>5. PostsTrip'
  BY <1>1, LookupsKept DEF PostsTrip
<1> QED
  BY <1>3, <1>4, <1>5 DEF TripInv

LEMMA TripSteps == TypeInv /\ TripInv /\ [Next]_vars => TripInv'
<1> SUFFICES ASSUME TypeInv, TripInv, [Next]_vars PROVE TripInv'
  OBVIOUS
<1>1. ASSUME NEW d \in Declarers,
             (\E specs \in Declarations : Declare(d, specs)) \/ CoreDeclares(d) \/ DeclareFails(d)
                \/ Remember(d)
      PROVE  TripInv'
  <2>1. /\ UNCHANGED <<todo, delivered>>
        /\ posted' = posted \/ posted' = {[r EXCEPT !.clean = FALSE] : r \in posted}
    BY <1>1 DEF Declare, CoreDeclares, DeclareFails, Remember, sendVars
  <2> QED
    BY <2>1, TripDeclares
<1>2. ASSUME NEW r \in posted, SendFails(r) PROVE TripInv'
  <2>1. UNCHANGED <<todo, delivered>> /\ posted' \subseteq posted
    BY <1>2 DEF SendFails
  <2>2. \A q \in posted : \A k \in q.body.keys : Trip(q.history[k], ChainOf(q.body, k)')
    BY <2>1, LookupsKept, DeliveredFacts
  <2>3. \A t \in todo : \A k \in t.keys : Trip(t.history[k], Lookup(CauseOf(t), k)')
    BY <2>1, LookupsKept, DeliveredFacts
  <2>4. ItemsTrip'
    BY <2>1 DEF TripInv, ItemsTrip
  <2> QED
    BY <2>1, <2>2, <2>3, <2>4 DEF TripInv, CallsTrip, PostsTrip
<1>3. ASSUME NEW keys \in PressedKeys, NEW opts \in {NoOptions, WithCommandClass("TOGGLE"), AsStateSync},
             Press(keys, opts)
      PROVE  TripInv'
  BY <1>3, TripPresses
<1>4. CASE UNCHANGED vars
  <2>1. UNCHANGED <<todo, posted, delivered>>
    BY <1>4 DEF vars
  <2> QED
    BY <2>1, TripDeclares
<1> QED
  BY <1>1, <1>2, <1>3, <1>4, TripDispatch, TripSends, TripCrosses DEF Next

(* Whatever the wiring and the relays, and however deliveries, late        *)
(* publishes and confirmations interleave, nothing that follows from one   *)
(* press crosses a binding twice in one direction (endpoint_cause.go:8).   *)
THEOREM LoopsTripAlways == Spec => []LoopsTrip
<1>1. TypeInv /\ TripInv => LoopsTrip
  <2> SUFFICES ASSUME TypeInv, TripInv, NEW id \in DOMAIN delivered, NEW i \in delivered[id].items,
                      NEW m \in DOMAIN i.history, NEW n \in DOMAIN i.history, i.history[m] = i.history[n]
               PROVE  m = n
    BY DEF LoopsTrip
  <2>1. id \in 1..Len(delivered) /\ i \in Item
    BY DeliveredFacts DEF Message
  <2>2. DOMAIN i.history = 1..Len(i.history)
    BY <2>1, LenProperties DEF Item
  <2> QED
    BY <2>1, <2>2 DEF TripInv, ItemsTrip, Trip
<1> QED
  BY <1>1, TypeInvariant, TripInit, TripSteps, PTL DEF Spec
=============================================================================
