------------------------ MODULE ValuePropagationProofs ------------------------
(***************************************************************************)
(* Proofs about the binding manager and the propagation of values, for any *)
(* callers, bindings, interval and timeout, and however long it runs.      *)
(***************************************************************************)
EXTENDS ValuePropagation, TLAPS, SequenceTheorems

Entry == [at : Nat, rows : SUBSET Rows]

(* HeldDuring, of any history h.                                           *)
HeldIn(h, a, b) ==
    {h[i].rows : i \in {j \in 1..Len(h) : h[j].at <= b /\ (j < Len(h) => h[j + 1].at >= a)}}

(* A longer span holds all of a shorter one ...                            *)
LEMMA HeldWider ==
    ASSUME NEW h \in Seq(Entry), NEW a \in Int, NEW b \in Int, NEW c \in Int, NEW d \in Int,
           c <= a, b <= d
    PROVE  HeldIn(h, a, b) \subseteq HeldIn(h, c, d)
<1> SUFFICES ASSUME NEW rows \in HeldIn(h, a, b) PROVE rows \in HeldIn(h, c, d)
  OBVIOUS
<1>1. PICK i \in 1..Len(h) :
          rows = h[i].rows /\ h[i].at <= b /\ (i < Len(h) => h[i + 1].at >= a)
  BY DEF HeldIn
<1>2. h[i].at \in Nat /\ (i < Len(h) => h[i + 1].at \in Nat)
  <2>1. \A j \in 1..Len(h) : h[j] \in Entry
    BY ElementOfSeq
  <2>2. i < Len(h) => i + 1 \in 1..Len(h)
    BY LenProperties
  <2> QED
    BY <2>1, <2>2 DEF Entry
<1>3. h[i].at <= d /\ (i < Len(h) => h[i + 1].at >= c)
  BY <1>1, <1>2
<1> QED
  BY <1>1, <1>3 DEF HeldIn

(* ... and an edit takes nothing from a span that began before it.         *)
LEMMA HeldLonger ==
    ASSUME NEW h \in Seq(Entry), NEW e \in Entry, NEW a \in Int, NEW b \in Int, a <= e.at
    PROVE  HeldIn(h, a, b) \subseteq HeldIn(Append(h, e), a, b)
<1> SUFFICES ASSUME NEW rows \in HeldIn(h, a, b) PROVE rows \in HeldIn(Append(h, e), a, b)
  OBVIOUS
<1> DEFINE g == Append(h, e)
<1>1. PICK i \in 1..Len(h) :
          rows = h[i].rows /\ h[i].at <= b /\ (i < Len(h) => h[i + 1].at >= a)
  BY DEF HeldIn
<1>2. Len(h) \in Nat /\ Len(g) = Len(h) + 1 /\ g[Len(h) + 1] = e
      /\ \A j \in 1..Len(h) : g[j] = h[j]
  BY AppendProperties, LenProperties
<1> HIDE DEF g
<1>3. i \in 1..Len(g) /\ rows = g[i].rows /\ g[i].at <= b
  BY <1>1, <1>2
<1>4. g[i + 1].at >= a
  <2>1. CASE i < Len(h)
    BY <1>1, <1>2, <2>1
  <2>2. CASE i = Len(h)
    <3>1. e.at \in Nat
      BY DEF Entry
    <3> QED
      BY <1>2, <2>2, <3>1
  <2> QED
    BY <1>2, <2>1, <2>2
<1> QED
  BY <1>3, <1>4 DEF HeldIn, g

(* What core holds now was held during any span that ends now.             *)
LEMMA HeldNow ==
    ASSUME NEW h \in Seq(Entry), Len(h) >= 1, NEW a \in Int, NEW b \in Int, h[Len(h)].at <= b
    PROVE  h[Len(h)].rows \in HeldIn(h, a, b)
<1>1. Len(h) \in 1..Len(h) /\ ~(Len(h) < Len(h))
  BY LenProperties
<1> QED
  BY <1>1 DEF HeldIn

LEMMA HeldIs == \A a, b : HeldDuring(a, b) = HeldIn(history, a, b)
  BY DEF HeldDuring, HeldIn
-----------------------------------------------------------------------------
(* Type correctness.                                                       *)

(* Whoever is about to read the cache asked for targets or authorization,  *)
(* and for targets if a change of a value made it ask.                     *)
QueryInv ==
    \A c \in Callers :
        /\ pc[c] \in Asking => query[c] \in Query
        /\ pc[c] = "read" => query[c] \in Query /\ query[c].op # "refresh"
        /\ setting[c] # Registry!NoChange =>
               /\ pc[c] \in Asking \cup {"read", "done"} => query[c].op = "targets"
               /\ pc[c] = "done" => answer[c] \subseteq Rows
        /\ setting[c] = Registry!NoChange => todo[c] = <<>>

TypeInv == TypeOK /\ QueryInv /\ \A i \in 1..Len(history) : history[i].at <= now

LEMMA HistoryFacts ==
    ASSUME TypeOK
    PROVE  /\ history \in Seq(Entry) /\ Len(history) \in Nat
           /\ \A i \in 1..Len(history) : history[i].at \in Nat /\ history[i].rows \subseteq Rows
           /\ Table \subseteq Rows /\ Ours(Table) \subseteq Ours(Rows)
<1>1. history \in Seq(Entry) /\ Len(history) \in Nat /\ Len(history) >= 1
  BY LenProperties DEF TypeOK, Entry
<1>2. \A i \in 1..Len(history) : history[i] \in Entry
  BY <1>1, ElementOfSeq
<1> QED
  BY <1>1, <1>2 DEF Entry, Table, Ours

LEMMA TypeInit == Init => TypeInv
<1> SUFFICES ASSUME Init PROVE TypeInv
  OBVIOUS
<1> USE DEF Init, BindingsInit, Registry!RegistryInit, Places, Asking
<1>1. PICK rows \in SUBSET Rows : history = <<[at |-> 0, rows |-> rows]>>
  OBVIOUS
<1>2. [at |-> 0, rows |-> rows] \in Entry
  BY DEF Entry
<1>3. history \in Seq(Entry) /\ Len(history) = 1 /\ history[1].at = 0
  BY <1>1, <1>2
<1>4. bindingsAt \in Int /\ bindingsAt <= now /\ now = 0
  BY TimesAssumption
<1>5. <<>> \in Seq(Handlers)
  BY EmptySeq
<1>6. TypeOK
  BY <1>3, <1>4, <1>5 DEF TypeOK, Entry, Never
<1> QED
  BY <1>3, <1>4, <1>6 DEF TypeInv, QueryInv

LEMMA TypeEnvironment == TypeInv /\ Environment => TypeInv'
<1> SUFFICES ASSUME TypeInv, Environment PROVE TypeInv'
  OBVIOUS
<1> USE DEF TypeInv, TypeOK, QueryInv, notBindings, registryVars, sendVars, observeVars, callVars,
        cacheVars
<1>1. CASE EditBindings
  <2>1. PICK b \in Rows :
            history' = Append(history, [at |-> now, rows |-> (Table \ {b}) \cup ({b} \ Table)])
    BY <1>1 DEF EditBindings
  <2> DEFINE e == [at |-> now, rows |-> (Table \ {b}) \cup ({b} \ Table)]
  <2>2. e \in Entry
    BY HistoryFacts DEF Entry
  <2>3. e.at = now
    OBVIOUS
  <2> HIDE DEF e
  <2>4. history' \in Seq(Entry) /\ Len(history') = Len(history) + 1 /\ Len(history) \in Nat
        /\ \A i \in 1..Len(history) : history'[i] = history[i]
        /\ history'[Len(history) + 1] = e
    BY <2>1, <2>2, AppendProperties, HistoryFacts DEF e
  <2>5. now' = now /\ \A i \in 1..Len(history') : history'[i].at <= now
    BY <1>1, <2>3, <2>4 DEF EditBindings
  <2> QED
    BY <1>1, <2>4, <2>5 DEF EditBindings, Environment, Entry
<1>2. CASE Tick
  <2>1. now' = now + 1 /\ history' = history
    BY <1>2 DEF Tick
  <2>2. \A i \in 1..Len(history') : history'[i].at <= now'
    BY <2>1, HistoryFacts
  <2> QED
    BY <1>2, <2>1, <2>2 DEF Tick, Environment
<1> QED
  BY <1>1, <1>2 DEF Environment

(* A step of the cache, by whoever makes it.                               *)
LEMMA TypeAsk ==
    ASSUME TypeInv, NEW c \in Callers, NEW q \in Query, Ask(c, q), q.op # "refresh",
           setting[c] # Registry!NoChange => q.op = "targets", UNCHANGED notBindings
    PROVE  TypeInv'
<1> USE DEF TypeInv, TypeOK, QueryInv, Asking, Places
<1>1. query' \in [Callers -> Query \cup {NoQuery}] /\ missed' \in [Callers -> BOOLEAN]
      /\ query'[c] = q /\ UNCHANGED <<history, now, cacheVars>>
      /\ \A e \in Callers \ {c} : query'[e] = query[e]
  BY DEF Ask
<1>2. CASE Stale /\ Request(c)
  BY <1>1, <1>2 DEF Ask, Request, Goto, cacheVars, notBindings, registryVars, sendVars, observeVars
<1>3. CASE Goto(c, "read") /\ UNCHANGED <<sentAt, reply, answer>>
  BY <1>1, <1>3 DEF Ask, Goto, cacheVars, notBindings, registryVars, sendVars, observeVars
<1> QED
  BY <1>2, <1>3 DEF Ask

LEMMA TypeRefresh ==
    ASSUME TypeInv, NEW c \in Callers, RefreshBindings(c), setting[c] = Registry!NoChange,
           UNCHANGED notBindings
    PROVE  TypeInv'
<1>1. [op |-> "refresh", of |-> Us] \in Query
  BY DEF Query
<1> QED
  BY <1>1 DEF TypeInv, TypeOK, QueryInv, Asking, Places, RefreshBindings, Request, Goto, cacheVars,
              notBindings, registryVars, sendVars, observeVars

LEMMA TypeCache ==
    ASSUME TypeInv, NEW c \in Callers, CacheStep(c)
    PROVE  TypeInv'
<1> USE DEF TypeInv, TypeOK, QueryInv, Asking, Places, cacheVars, notBindings, registryVars, sendVars,
        observeVars
<1>1. CASE CoreAnswers(c)
  <2>1. reply' \in [Callers -> SUBSET Ours(Rows)]
    BY <1>1, HistoryFacts DEF CoreAnswers
  <2> QED
    BY <1>1, <2>1 DEF CacheStep, CoreAnswers, Goto
<1>2. CASE Store(c)
  BY <1>2 DEF CacheStep, Store, Refreshed, Goto
<1>3. CASE RefreshFails(c)
  BY <1>3 DEF CacheStep, RefreshFails, Refreshed, Goto
<1> QED
  BY <1>1, <1>2, <1>3 DEF CacheStep

LEMMA TypeRead ==
    ASSUME TypeInv, NEW c \in Callers, ReadCache(c)
    PROVE  TypeInv'
<1> USE DEF TypeInv, TypeOK, QueryInv, Asking, Places
<1>1. bindings \subseteq Rows
  BY DEF Ours
<1>2. query[c] \in Query /\ query[c].op # "refresh"
  BY DEF ReadCache, Read
<1>3. AnswerFrom(bindings, query[c]) \subseteq Rows \cup Devices
  <2>1. CASE query[c].op = "targets"
    BY <1>1, <2>1 DEF AnswerFrom, TargetsIn
  <2>2. CASE query[c].op # "targets"
    <3>1. query[c].of \in Devices
      BY <1>2, <2>2 DEF Query
    <3> QED
      BY <2>2, <3>1 DEF AnswerFrom
  <2> QED
    BY <2>1, <2>2
<1>4. answer' \in [Callers -> SUBSET (Rows \cup Devices)]
  BY <1>3 DEF ReadCache, Read
<1>5. query[c].op = "targets" => answer'[c] \subseteq Rows
  BY <1>1 DEF ReadCache, Read, AnswerFrom, TargetsIn
<1> QED
  BY <1>4, <1>5 DEF ReadCache, Read, Goto, cacheVars, registryVars, sendVars

LEMMA TypeReturns ==
    ASSUME TypeInv, NEW c \in Callers, AskReturns(c)
    PROVE  TypeInv'
  BY DEF TypeInv, TypeOK, QueryInv, Asking, Places, AskReturns, Goto, cacheVars, registryVars, sendVars,
         Never

LEMMA TypeAddHandler == ASSUME TypeInv, NEW h \in Handlers, AddHandler(h) PROVE TypeInv'
<1>1. handlers' \in Seq(Handlers)
  BY AppendProperties DEF TypeInv, TypeOK, AddHandler, Registry!AddHandler
<1> QED
  BY <1>1 DEF TypeInv, TypeOK, QueryInv, AddHandler, Registry!AddHandler, bindingVars, cacheVars,
              callVars, sendVars, observeVars

LEMMA TypeSet ==
    ASSUME TypeInv, NEW c \in Callers, NEW e \in Endpoints, NEW v \in Values,
           SetEndpointValue(c, e, v)
    PROVE  TypeInv'
<1>1. [endpoint |-> e, value |-> v] \in Registry!Change
  BY DEF Registry!Change
<1>2. pc[c] = "idle"
  BY DEF SetEndpointValue, Idle
<1>3. [endpoint |-> e, value |-> v] # Registry!NoChange
  BY EndpointsAssumption DEF Registry!NoChange
<1> QED
  BY <1>1, <1>2, <1>3 DEF TypeInv, TypeOK, QueryInv, Asking, Idle, SetEndpointValue, Registry!SetEndpointValue, bindingVars,
              cacheVars, callVars, Never

(* The next handler's turn, or none.                                       *)
LEMMA TypeTodo ==
    ASSUME TypeInv, NEW c \in Callers, Registry!HandlerSucceeds(c) \/ Registry!HandlerFails(c)
    PROVE  /\ todo' \in [Callers -> Seq(Handlers)] /\ UNCHANGED <<values, handlers, setting>>
           /\ \A d \in Callers : setting[d] = Registry!NoChange => todo'[d] = <<>>
<1> USE DEF TypeInv, QueryInv
<1>1. todo[c] \in Seq(Handlers) /\ todo[c] # <<>> /\ <<>> \in Seq(Handlers)
  BY EmptySeq DEF TypeOK, Registry!HandlerSucceeds, Registry!HandlerFails
<1>2. Tail(todo[c]) \in Seq(Handlers)
  BY <1>1, HeadTailProperties
<1>3. todo \in [Callers -> Seq(Handlers)]
  BY DEF TypeOK
<1>4. CASE Registry!HandlerSucceeds(c)
  BY <1>2, <1>3, <1>4 DEF Registry!HandlerSucceeds
<1>5. CASE Registry!HandlerFails(c)
  BY <1>1, <1>3, <1>5 DEF Registry!HandlerFails
<1> QED
  BY <1>4, <1>5

LEMMA TypeHandlers ==
    ASSUME TypeInv, NEW c \in Callers,
           ObserverReturns(c) \/ TargetsKnown(c) \/ PropagateReturns(c) \/ SetReturns(c)
    PROVE  TypeInv'
<1> USE DEF TypeInv, TypeOK, QueryInv, Asking, Places, cacheVars, registryVars, sendVars, observeVars
<1>1. CASE ObserverReturns(c)
  <2>1. /\ todo' \in [Callers -> Seq(Handlers)] /\ UNCHANGED <<values, handlers, setting>>
        /\ \A d \in Callers : setting[d] = Registry!NoChange => todo'[d] = <<>>
    BY <1>1, TypeTodo DEF ObserverReturns
  <2>2. failed' \in [Callers -> BOOLEAN]
    BY <1>1 DEF ObserverReturns
  <2> QED
    BY <1>1, <2>1, <2>2 DEF ObserverReturns, bindingVars, callVars
<1>2. CASE PropagateReturns(c)
  <2>1. /\ todo' \in [Callers -> Seq(Handlers)] /\ UNCHANGED <<values, handlers, setting>>
        /\ \A d \in Callers : setting[d] = Registry!NoChange => todo'[d] = <<>>
    BY <1>2, TypeTodo DEF PropagateReturns
  <2> QED
    BY <1>2, <2>1 DEF PropagateReturns, Goto
<1>3. CASE SetReturns(c)
  BY <1>3 DEF SetReturns, Registry!SetReturns, Never
<1>4. CASE TargetsKnown(c)
  <2>1. answer[c] \subseteq Rows
    BY <1>4 DEF TargetsKnown
  <2> QED
    BY <1>4, <2>1 DEF TargetsKnown, Goto
<1> QED
  BY <1>1, <1>2, <1>3, <1>4

(* A target is tried.                                                      *)
LEMMA TypeTry ==
    ASSUME TypeInv, NEW c \in Callers, NEW b \in Rows, TargetTakes(c, b) \/ TargetFails(c, b)
    PROVE  TypeInv'
<1>1. UNCHANGED <<history, now, bindings, bindingsAt, pc, query, sentAt, reply, answer, missed, values,
                  handlers, setting, todo, readAt>>
  BY DEF TargetTakes, TargetFails, Try, bindingVars, cacheVars, callVars, registryVars
<1>2. left \in [Callers -> SUBSET Rows] /\ told \in [Callers -> SUBSET Rows]
      /\ failed \in [Callers -> BOOLEAN] /\ refused \in [Callers -> SUBSET Rows]
  BY DEF TypeInv, TypeOK
<1>3. /\ left' \in [Callers -> SUBSET Rows]
      /\ told' \in [Callers -> SUBSET Rows] /\ failed' \in [Callers -> BOOLEAN]
      /\ refused' \in [Callers -> SUBSET Rows]
  <2>1. CASE TargetTakes(c, b)
    BY <1>2, <2>1 DEF TargetTakes, Try
  <2>2. CASE TargetFails(c, b)
    BY <1>2, <2>2 DEF TargetFails, Try
  <2> QED
    BY <2>1, <2>2
<1>4. TypeOK'
  BY <1>1, <1>3 DEF TypeInv, TypeOK
<1>5. QueryInv' /\ \A i \in 1..Len(history') : history'[i].at <= now'
  BY <1>1 DEF TypeInv, QueryInv
<1> QED
  BY <1>4, <1>5 DEF TypeInv

(* Every step, one way or the other.                                       *)
RegistryStep(c) ==
    \/ \E e \in Endpoints, v \in Values : SetEndpointValue(c, e, v)
    \/ ObserverReturns(c) \/ PropagateReturns(c) \/ SetReturns(c)
    \/ \E b \in Rows : TargetTakes(c, b) \/ TargetFails(c, b)

AskStep(c) ==
    \/ RefreshBindings(c) /\ Idle(c) /\ UNCHANGED notBindings
    \/ \E q \in Query : /\ q.op # "refresh" /\ Ask(c, q) /\ pc[c] = "idle"
                        /\ setting[c] # Registry!NoChange =>
                               /\ q = [op |-> "targets", of |-> setting[c].endpoint]
                               /\ Calling(c, "propagate")
                        /\ UNCHANGED notBindings

LEMMA PropagateAsks == ASSUME TypeInv, NEW c \in Callers, PropagateValue(c) PROVE AskStep(c)
<1> DEFINE q == [op |-> "targets", of |-> setting[c].endpoint]
<1>1. setting[c].endpoint \in Endpoints
  BY DEF TypeInv, QueryInv, TypeOK, PropagateValue, Calling, Registry!Change
<1>2. q \in Query /\ q.op # "refresh"
  BY <1>1 DEF Query
<1>3. Ask(c, q) /\ pc[c] = "idle" /\ Calling(c, "propagate") /\ UNCHANGED notBindings
  BY DEF PropagateValue, Calling
<1> HIDE DEF q
<1>4. q = [op |-> "targets", of |-> setting[c].endpoint]
  BY DEF q
<1> QED
  BY <1>2, <1>3, <1>4 DEF AskStep

LEMMA TypeSteps == TypeInv /\ [Next]_vars => TypeInv'
<1> SUFFICES ASSUME TypeInv, [Next]_vars PROVE TypeInv'
  OBVIOUS
<1>1. CASE Environment
  BY <1>1, TypeEnvironment
<1>2. CASE \E h \in Handlers : AddHandler(h)
  BY <1>2, TypeAddHandler
<1>3. ASSUME NEW c \in Callers, AskStep(c) PROVE TypeInv'
  <2>1. CASE RefreshBindings(c) /\ Idle(c) /\ UNCHANGED notBindings
    BY <2>1, TypeRefresh DEF Idle
  <2>2. ASSUME NEW q \in Query, q.op # "refresh", Ask(c, q), UNCHANGED notBindings,
               setting[c] # Registry!NoChange =>
                   q = [op |-> "targets", of |-> setting[c].endpoint]
        PROVE  TypeInv'
    BY <2>2, TypeAsk
  <2> QED
    BY <1>3, <2>1, <2>2 DEF AskStep
<1>4. ASSUME NEW c \in Callers, AskDirectly(c) PROVE AskStep(c)
  BY <1>4 DEF AskDirectly, AskStep, Idle
<1>5. ASSUME NEW c \in Callers, \E b \in Rows : TargetTakes(c, b) \/ TargetFails(c, b) PROVE TypeInv'
  BY <1>5, TypeTry
<1>6. ASSUME NEW c \in Callers, Continue(c) PROVE TypeInv'
  BY <1>3, <1>5, <1>6, TypeCache, TypeRead, TypeReturns, TypeHandlers, PropagateAsks DEF Continue
<1>7. ASSUME NEW c \in Callers, Begin(c) PROVE TypeInv'
  BY <1>3, <1>4, <1>7, TypeSet DEF Begin
<1>8. CASE UNCHANGED vars
  <2>1. TypeOK' /\ \A i \in 1..Len(history') : history'[i].at <= now'
    BY <1>8 DEF vars, bindingVars, cacheVars, callVars, registryVars, sendVars, observeVars, TypeInv,
                TypeOK
  <2>2. QueryInv'
    BY <1>8 DEF vars, bindingVars, callVars, registryVars, TypeInv, QueryInv
  <2> QED
    BY <2>1, <2>2 DEF TypeInv
<1> QED
  BY <1>1, <1>2, <1>6, <1>7, <1>8 DEF Next

LEMMA TypeInvariant == Spec => []TypeInv
  BY TypeInit, TypeSteps, PTL DEF Spec

(* Every variable keeps its type; in particular what is cached are rows of *)
(* this device, stored no later than now (RefreshBindings).                *)
THEOREM TypeCorrect == Spec => []TypeOK
<1>1. TypeInv => TypeOK
  BY DEF TypeInv
<1> QED
  BY <1>1, TypeInvariant, PTL
-----------------------------------------------------------------------------
(* How recent an answer is.                                                *)

(* Unless it is empty, as nothing was stored yet, the cache is what core   *)
(* held at some moment of the timeout before it was stored.                *)
CacheRecent ==
    \/ bindingsAt = -(Interval + 1) /\ bindings = {}
    \/ \E rows \in HeldIn(history, bindingsAt - Timeout, bindingsAt) : bindings = Ours(rows)

(* A request is younger than the timeout, and its answer is what core held *)
(* since it was sent; a reader whose refresh did not fail finds a cache no *)
(* older than the interval.                                                *)
CallRecent(c) ==
    /\ pc[c] \in Asking => sentAt[c] <= now /\ now - sentAt[c] <= Timeout
    /\ pc[c] = "answered" => \E rows \in HeldIn(history, sentAt[c], now) : reply[c] = Ours(rows)
    /\ pc[c] = "read" /\ ~missed[c] => now - bindingsAt <= Interval
    /\ pc[c] = "done" /\ ~missed[c] /\ query[c].op # "refresh" =>
           \E rows \in HeldIn(history, now - Bound, now) :
               answer[c] = AnswerFrom(Ours(rows), query[c])

RecentInv == CacheRecent /\ \A c \in Callers : CallRecent(c)

Same(c) ==
    /\ pc'[c] = pc[c] /\ query'[c] = query[c] /\ sentAt'[c] = sentAt[c]
    /\ reply'[c] = reply[c] /\ answer'[c] = answer[c] /\ missed'[c] = missed[c]

(* What only another caller does leaves a caller's part alone.             *)
LEMMA CallKept ==
    ASSUME NEW c \in Callers, CallRecent(c), Same(c), UNCHANGED <<history, now, bindingsAt>>
    PROVE  CallRecent(c)'
  BY DEF CallRecent, Same

LEMMA CacheKept ==
    ASSUME CacheRecent, UNCHANGED <<history, bindings, bindingsAt>>
    PROVE  CacheRecent'
  BY DEF CacheRecent

(* A caller that neither asks nor has an answer has nothing to show.       *)
LEMMA RecentAway ==
    ASSUME RecentInv, NEW c \in Callers, pc'[c] \in {"idle", "send"},
           \A d \in Callers \ {c} : Same(d), UNCHANGED <<history, now, bindings, bindingsAt>>
    PROVE  RecentInv'
<1>1. CallRecent(c)'
  BY DEF CallRecent, Asking
<1>2. \A d \in Callers \ {c} : CallRecent(d)'
  BY CallKept DEF RecentInv
<1> QED
  BY <1>1, <1>2, CacheKept DEF RecentInv

LEMMA RecentInit == Init => RecentInv
  BY DEF Init, BindingsInit, RecentInv, CacheRecent, CallRecent, Asking

LEMMA RecentEdit == ASSUME TypeInv, RecentInv, EditBindings PROVE RecentInv'
<1>1. PICK b \in Rows :
          history' = Append(history, [at |-> now, rows |-> (Table \ {b}) \cup ({b} \ Table)])
  BY DEF EditBindings
<1> DEFINE e == [at |-> now, rows |-> (Table \ {b}) \cup ({b} \ Table)]
<1>2. e \in Entry /\ e.at = now
  BY HistoryFacts DEF Entry, TypeInv, TypeOK
<1>3. history' = Append(history, e)
  BY <1>1
<1> HIDE DEF e
<1>4. history \in Seq(Entry)
  BY HistoryFacts DEF TypeInv
<1>5. \A a, b2 \in Int : a <= now => HeldIn(history, a, b2) \subseteq HeldIn(history', a, b2)
  BY <1>2, <1>3, <1>4, HeldLonger
<1>6. UNCHANGED <<now, bindings, bindingsAt, pc, query, sentAt, reply, answer, missed>>
  BY DEF EditBindings, cacheVars, callVars
<1>7. now \in Nat /\ bindingsAt \in Int /\ bindingsAt <= now /\ Timeout \in Nat /\ Interval \in Nat
      /\ \A c \in Callers : sentAt[c] \in Nat
  BY TimesAssumption DEF TypeInv, TypeOK
<1>8. CacheRecent'
  <2>1. HeldIn(history, bindingsAt - Timeout, bindingsAt)
            \subseteq HeldIn(history', bindingsAt - Timeout, bindingsAt)
    BY <1>5, <1>7
  <2> QED
    BY <1>6, <2>1 DEF RecentInv, CacheRecent
<1>9. ASSUME NEW c \in Callers PROVE CallRecent(c)'
  <2>1. pc[c] \in Asking => HeldIn(history, sentAt[c], now) \subseteq HeldIn(history', sentAt[c], now)
    BY <1>5, <1>7 DEF RecentInv, CallRecent
  <2>2. HeldIn(history, now - Bound, now) \subseteq HeldIn(history', now - Bound, now)
    BY <1>5, <1>7 DEF Bound
  <2> QED
    BY <1>6, <2>1, <2>2 DEF RecentInv, CallRecent, Asking
<1> QED
  BY <1>8, <1>9 DEF RecentInv

LEMMA RecentTick == ASSUME TypeInv, RecentInv, Tick PROVE RecentInv'
<1>1. /\ now' = now + 1 /\ UNCHANGED <<history, bindings, bindingsAt, pc, query, sentAt, reply, answer, missed>>
      /\ \A c \in Callers : pc[c] \notin {"read", "done"}
      /\ \A c \in Callers : pc[c] \in Asking => now - sentAt[c] < Timeout
  BY DEF Tick, InTime, cacheVars, callVars
<1>2. now \in Nat /\ Timeout \in Nat /\ history \in Seq(Entry) /\ \A c \in Callers : sentAt[c] \in Nat
  BY TimesAssumption, HistoryFacts DEF TypeInv, TypeOK
<1>3. CacheRecent'
  BY <1>1, CacheKept DEF RecentInv
<1>4. ASSUME NEW c \in Callers PROVE CallRecent(c)'
  <2>1. HeldIn(history, sentAt[c], now) \subseteq HeldIn(history, sentAt[c], now + 1)
    BY <1>2, HeldWider
  <2>2. pc[c] \in Asking => sentAt[c] <= now' /\ now' - sentAt[c] <= Timeout
    BY <1>1, <1>2 DEF RecentInv, CallRecent
  <2>3. pc[c] = "answered" => \E rows \in HeldIn(history, sentAt[c], now + 1) : reply[c] = Ours(rows)
    BY <2>1 DEF RecentInv, CallRecent
  <2> QED
    BY <1>1, <2>2, <2>3 DEF CallRecent
<1> QED
  BY <1>3, <1>4 DEF RecentInv

LEMMA RecentAsk ==
    ASSUME TypeInv, RecentInv, NEW c \in Callers, NEW q, Ask(c, q) \/ RefreshBindings(c)
    PROVE  RecentInv'
<1>1. /\ UNCHANGED <<history, now, bindings, bindingsAt>>
      /\ \A d \in Callers \ {c} : Same(d)
  BY DEF Ask, RefreshBindings, Request, Goto, Same, cacheVars, TypeInv, TypeOK
<1>2. \/ pc'[c] = "waiting" /\ sentAt'[c] = now
      \/ pc'[c] = "read" /\ ~Stale
  BY DEF Ask, RefreshBindings, Request, Goto, TypeInv, TypeOK
<1>3. now \in Nat /\ bindingsAt \in Int /\ Timeout \in Nat /\ Interval \in Nat
  BY TimesAssumption DEF TypeInv, TypeOK
<1>4. CallRecent(c)'
  BY <1>1, <1>2, <1>3 DEF CallRecent, Stale, Asking
<1> QED
  BY <1>1, <1>4, CallKept, CacheKept DEF RecentInv

LEMMA RecentCache == ASSUME TypeInv, RecentInv, NEW c \in Callers, CacheStep(c) PROVE RecentInv'
<1>1. history \in Seq(Entry) /\ Len(history) >= 1 /\ history[Len(history)].at <= now
  BY HistoryFacts DEF TypeInv, TypeOK
<1>2. now \in Nat /\ bindingsAt \in Int /\ Timeout \in Nat /\ Interval \in Nat
      /\ \A d \in Callers : sentAt[d] \in Nat
  BY TimesAssumption DEF TypeInv, TypeOK
<1>3. CASE CoreAnswers(c)
  <2>1. /\ UNCHANGED <<history, now, bindings, bindingsAt>>
        /\ \A d \in Callers \ {c} : Same(d)
        /\ pc[c] = "waiting" /\ pc'[c] = "answered" /\ sentAt'[c] = sentAt[c]
        /\ reply'[c] = Ours(Table)
    BY <1>3 DEF CoreAnswers, Goto, Same, cacheVars, TypeInv, TypeOK
  <2>2. Table \in HeldIn(history, sentAt[c], now)
    BY <1>1, <1>2, HeldNow DEF Table
  <2>3. CallRecent(c)'
    BY <2>1, <2>2 DEF RecentInv, CallRecent, Asking
  <2> QED
    BY <2>1, <2>3, CallKept, CacheKept DEF RecentInv
<1>4. CASE Store(c)
  <2>1. /\ UNCHANGED <<history, now>> /\ bindings' = reply[c] /\ bindingsAt' = now
        /\ \A d \in Callers \ {c} : Same(d)
        /\ pc[c] = "answered" /\ pc'[c] \in {"done", "read"}
        /\ query'[c] = query[c] /\ (pc'[c] = "done" => query[c].op = "refresh")
    BY <1>4 DEF Store, Refreshed, Goto, Same, TypeInv, TypeOK
  <2>2. PICK rows \in HeldIn(history, sentAt[c], now) : reply[c] = Ours(rows)
    BY <2>1 DEF RecentInv, CallRecent
  <2>3. HeldIn(history, sentAt[c], now) \subseteq HeldIn(history, now - Timeout, now)
    <3>1. now - Timeout <= sentAt[c]
      BY <1>2, <2>1 DEF RecentInv, CallRecent, Asking
    <3> QED
      BY <1>1, <1>2, <3>1, HeldWider
  <2>4. CacheRecent'
    BY <2>1, <2>2, <2>3 DEF CacheRecent
  <2>5. CallRecent(c)'
    BY <1>2, <2>1 DEF CallRecent, Asking
  <2>6. ASSUME NEW d \in Callers \ {c} PROVE CallRecent(d)'
    BY <1>2, <2>1 DEF RecentInv, CallRecent, Same
  <2> QED
    BY <2>4, <2>5, <2>6 DEF RecentInv
<1>5. CASE RefreshFails(c)
  <2>1. /\ UNCHANGED <<history, now, bindings, bindingsAt>>
        /\ \A d \in Callers \ {c} : Same(d)
        /\ pc'[c] \in {"done", "read"} /\ missed'[c]
    BY <1>5 DEF RefreshFails, Refreshed, Goto, Same, cacheVars, TypeInv, TypeOK
  <2>2. CallRecent(c)'
    BY <2>1 DEF CallRecent, Asking
  <2> QED
    BY <2>1, <2>2, CallKept, CacheKept DEF RecentInv
<1> QED
  BY <1>3, <1>4, <1>5 DEF CacheStep

LEMMA RecentRead == ASSUME TypeInv, RecentInv, NEW c \in Callers, Read(c) PROVE RecentInv'
<1>1. /\ UNCHANGED <<history, now, bindings, bindingsAt>>
      /\ \A d \in Callers \ {c} : Same(d)
      /\ pc[c] = "read" /\ pc'[c] = "done" /\ query'[c] = query[c] /\ missed'[c] = missed[c]
      /\ answer'[c] = AnswerFrom(bindings, query[c])
  BY DEF Read, Goto, Same, cacheVars, TypeInv, TypeOK
<1>2. now \in Nat /\ bindingsAt \in Int /\ Timeout \in Nat /\ Interval \in Nat /\ history \in Seq(Entry)
      /\ bindingsAt <= now
  BY TimesAssumption, HistoryFacts DEF TypeInv, TypeOK
<1>3. ASSUME ~missed[c]
      PROVE  \E rows \in HeldIn(history, now - Bound, now) :
                 AnswerFrom(bindings, query[c]) = AnswerFrom(Ours(rows), query[c])
  <2>1. now - bindingsAt <= Interval
    BY <1>1, <1>3 DEF RecentInv, CallRecent
  <2>2. PICK rows \in HeldIn(history, bindingsAt - Timeout, bindingsAt) : bindings = Ours(rows)
    BY <1>2, <2>1 DEF RecentInv, CacheRecent
  <2>3. HeldIn(history, bindingsAt - Timeout, bindingsAt) \subseteq HeldIn(history, now - Bound, now)
    <3>1. now - Bound \in Int /\ now - Bound <= bindingsAt - Timeout
      BY <1>2, <2>1 DEF Bound
    <3> QED
      BY <1>2, <3>1, HeldWider
  <2> QED
    BY <2>2, <2>3
<1>4. CallRecent(c)'
  BY <1>1, <1>3 DEF CallRecent, Asking
<1> QED
  BY <1>1, <1>4, CallKept, CacheKept DEF RecentInv

LEMMA RecentSteps == TypeInv /\ RecentInv /\ [Next]_vars => RecentInv'
<1> SUFFICES ASSUME TypeInv, RecentInv, [Next]_vars PROVE RecentInv'
  OBVIOUS
<1>1. CASE Environment
  BY <1>1, RecentEdit, RecentTick DEF Environment
<1>2. ASSUME UNCHANGED bindingVars PROVE RecentInv'
  <2>1. \A c \in Callers : Same(c)
    BY <1>2 DEF bindingVars, callVars, Same
  <2> QED
    BY <1>2, <2>1, CallKept, CacheKept DEF RecentInv, bindingVars, cacheVars
<1>3. ASSUME NEW c \in Callers, AskReturns(c) \/ TargetsKnown(c) \/ PropagateReturns(c) \/ SetReturns(c)
      PROVE  RecentInv'
  <2>1. pc'[c] \in {"idle", "send"} /\ (\A d \in Callers \ {c} : Same(d))
        /\ UNCHANGED <<history, now, bindings, bindingsAt>>
    BY <1>3 DEF AskReturns, TargetsKnown, PropagateReturns, SetReturns, Goto, Same, cacheVars, TypeInv,
                TypeOK
  <2> QED
    BY <2>1, RecentAway
<1>4. ASSUME NEW c \in Callers, Begin(c) PROVE RecentInv'
  <2>1. CASE AskDirectly(c)
    BY <2>1, RecentAsk DEF AskDirectly
  <2>2. CASE \E e \in Endpoints, v \in Values : SetEndpointValue(c, e, v)
    BY <1>2, <2>2 DEF SetEndpointValue
  <2> QED
    BY <1>4, <2>1, <2>2 DEF Begin
<1>5. ASSUME NEW c \in Callers, Continue(c) PROVE RecentInv'
  <2>1. CASE CacheStep(c)
    BY <2>1, RecentCache
  <2>2. CASE ReadCache(c)
    BY <2>2, RecentRead DEF ReadCache
  <2>3. CASE ObserverReturns(c)
    BY <1>2, <2>3 DEF ObserverReturns
  <2>4. CASE PropagateValue(c)
    BY <2>4, RecentAsk DEF PropagateValue
  <2>5. CASE \E b \in Rows : TargetTakes(c, b) \/ TargetFails(c, b)
    BY <1>2, <2>5 DEF TargetTakes, TargetFails, Try
  <2> QED
    BY <1>3, <1>5, <2>1, <2>2, <2>3, <2>4, <2>5 DEF Continue
<1>6. CASE \E h \in Handlers : AddHandler(h)
  BY <1>2, <1>6 DEF AddHandler
<1>7. CASE UNCHANGED vars
  BY <1>2, <1>7 DEF vars
<1> QED
  BY <1>1, <1>4, <1>5, <1>6, <1>7 DEF Next

(* Whoever asks, and whose own refresh did not fail, is told what core     *)
(* held within the last interval and timeout, for any number of refreshes  *)
(* under way (RefreshBindings, GetTargetsForEndpoint, IsSourceAuthorized). *)
THEOREM AnswerIsRecentAlways == Spec => []AnswerIsRecent
<1>1. RecentInv => AnswerIsRecent
  BY HeldIs DEF RecentInv, CallRecent, AnswerIsRecent
<1> QED
  BY <1>1, TypeInvariant, RecentInit, RecentSteps, PTL DEF Spec
-----------------------------------------------------------------------------
(* Every step of the manager is one of RecentReads, or none.               *)

(* Who is idle, or sends to its targets, asks nothing.                     *)
QuietInv == \A c \in Callers : pc[c] \in {"idle", "send"} => query[c] = NoQuery

PlaceOf(c) ==
    IF ~Asks(c) THEN "idle"
    ELSE IF pc[c] = "done" THEN "told"
    ELSE IF missed[c] THEN "missed" ELSE "open"
QuestionOf(c) == IF Asks(c) THEN query[c] ELSE NoQuery
AnswerOf(c)   == IF Asks(c) /\ pc[c] = "done" THEN answer[c] ELSE {}

PlaceBar    == [c \in Callers |-> PlaceOf(c)]
QuestionBar == [c \in Callers |-> QuestionOf(c)]
AnswerBar   == [c \in Callers |-> AnswerOf(c)]
readBar     == <<history, now, PlaceBar, QuestionBar, AnswerBar>>

SameRead(c) == PlaceOf(c)' = PlaceOf(c) /\ QuestionOf(c)' = QuestionOf(c) /\ AnswerOf(c)' = AnswerOf(c)

LEMMA QuietSteps == TypeInv /\ QuietInv /\ [Next]_vars => QuietInv'
<1> SUFFICES ASSUME TypeInv, QuietInv, [Next]_vars PROVE QuietInv'
  OBVIOUS
<1>1. ASSUME UNCHANGED <<pc, query>> PROVE QuietInv'
  BY <1>1 DEF QuietInv
<1>2. ASSUME NEW c \in Callers, \A d \in Callers \ {c} : Same(d),
             pc'[c] \notin {"idle", "send"} \/ query'[c] = NoQuery
      PROVE  QuietInv'
  BY <1>2 DEF QuietInv, Same
<1>3. ASSUME NEW c \in Callers, Begin(c) PROVE QuietInv'
  <2>1. CASE AskDirectly(c)
    <3>1. (\A d \in Callers \ {c} : Same(d)) /\ pc'[c] \in {"waiting", "read"}
      BY <2>1 DEF AskDirectly, RefreshBindings, Ask, Request, Goto, Same, TypeInv, TypeOK
    <3> QED
      BY <1>2, <3>1
  <2>2. CASE \E e \in Endpoints, v \in Values : SetEndpointValue(c, e, v)
    BY <1>1, <2>2 DEF SetEndpointValue, bindingVars, callVars
  <2> QED
    BY <1>3, <2>1, <2>2 DEF Begin
<1>4. ASSUME NEW c \in Callers, Continue(c) PROVE QuietInv'
  <2>1. CASE CacheStep(c) \/ ReadCache(c) \/ PropagateValue(c)
    <3>1. (\A d \in Callers \ {c} : Same(d)) /\ pc'[c] \in {"waiting", "answered", "read", "done"}
      BY <2>1 DEF CacheStep, CoreAnswers, Store, RefreshFails, Refreshed, ReadCache, Read, PropagateValue,
                  Ask, Request, Goto, Same, TypeInv, TypeOK
    <3> QED
      BY <1>2, <3>1
  <2>2. CASE AskReturns(c) \/ TargetsKnown(c)
    <3>1. (\A d \in Callers \ {c} : Same(d)) /\ query'[c] = NoQuery
      BY <2>2 DEF AskReturns, TargetsKnown, Goto, Same, TypeInv, TypeOK
    <3> QED
      BY <1>2, <3>1
  <2>3. CASE PropagateReturns(c)
    <3>1. (\A d \in Callers \ {c} : Same(d)) /\ query'[c] = NoQuery
      BY <2>3 DEF PropagateReturns, Goto, Same, TypeInv, TypeOK, QuietInv
    <3> QED
      BY <1>2, <3>1
  <2>4. CASE ObserverReturns(c) \/ SetReturns(c) \/ \E b \in Rows : TargetTakes(c, b) \/ TargetFails(c, b)
    BY <1>1, <2>4 DEF ObserverReturns, SetReturns, TargetTakes, TargetFails, Try, bindingVars, callVars
  <2> QED
    BY <1>4, <2>1, <2>2, <2>3, <2>4 DEF Continue
<1>5. CASE Environment \/ (\E h \in Handlers : AddHandler(h)) \/ UNCHANGED vars
  BY <1>1, <1>5 DEF Environment, EditBindings, Tick, AddHandler, vars, bindingVars, callVars
<1> QED
  BY <1>3, <1>4, <1>5 DEF Next

LEMMA ReadKept ==
    ASSUME NEW c \in Callers, Same(c)
    PROVE  SameRead(c)
  BY DEF Same, SameRead, PlaceOf, QuestionOf, AnswerOf, Asks

LEMMA ReadsKept ==
    ASSUME UNCHANGED <<history, now>>, \A c \in Callers : SameRead(c)
    PROVE  UNCHANGED readBar
  BY DEF readBar, PlaceBar, QuestionBar, AnswerBar, SameRead

(* What becomes of the others' questions when one caller makes a step.     *)
LEMMA ReadByOne ==
    ASSUME NEW c \in Callers, \A d \in Callers \ {c} : Same(d)
    PROVE  /\ PlaceBar' = [PlaceBar EXCEPT ![c] = PlaceOf(c)']
           /\ QuestionBar' = [QuestionBar EXCEPT ![c] = QuestionOf(c)']
           /\ AnswerBar' = [AnswerBar EXCEPT ![c] = AnswerOf(c)']
           /\ PlaceOf(c)' = PlaceOf(c) => PlaceBar' = PlaceBar
           /\ QuestionOf(c)' = QuestionOf(c) => QuestionBar' = QuestionBar
           /\ AnswerOf(c)' = AnswerOf(c) => AnswerBar' = AnswerBar
           /\ PlaceBar[c] = PlaceOf(c) /\ QuestionBar[c] = QuestionOf(c)
<1>1. \A d \in Callers \ {c} : SameRead(d)
  BY ReadKept
<1> QED
  BY <1>1 DEF PlaceBar, QuestionBar, AnswerBar, SameRead

LEMMA ReadsInit == Init => Reads!Init
<1> SUFFICES ASSUME Init PROVE Reads!Init
  OBVIOUS
<1>1. \A c \in Callers : ~Asks(c)
  BY DEF Init, BindingsInit, Asks, NoQuery
<1> QED
  BY <1>1 DEF Init, BindingsInit, Reads!Init

LEMMA ReadsEnvironment ==
    ASSUME TypeInv, Environment
    PROVE  [Reads!Next]_readBar
<1>1. \A c \in Callers : SameRead(c)
  BY ReadKept DEF Environment, EditBindings, Tick, callVars, Same
<1>2. UNCHANGED <<PlaceBar, QuestionBar, AnswerBar>>
  BY <1>1 DEF PlaceBar, QuestionBar, AnswerBar, SameRead
<1>3. CASE EditBindings
  <2>1. PICK b \in Rows :
            history' = Append(history, [at |-> now, rows |-> (Table \ {b}) \cup ({b} \ Table)])
    BY <1>3 DEF EditBindings
  <2>2. (Table \ {b}) \cup ({b} \ Table) \in SUBSET Rows
    BY HistoryFacts DEF TypeInv
  <2>3. \E t \in SUBSET Rows : history' = Append(history, [at |-> now, rows |-> t])
    BY <2>1, <2>2
  <2>4. Reads!Edit
    BY <1>2, <1>3, <2>3 DEF EditBindings, Reads!Edit, PlaceBar, PlaceOf, QuestionBar, QuestionOf, AnswerBar,
                            AnswerOf
  <2> QED
    BY <2>4 DEF Reads!Next
<1>4. CASE Tick
  <2>1. Reads!Tick
    BY <1>2, <1>4 DEF Tick, Reads!Tick, PlaceBar, PlaceOf, QuestionBar, QuestionOf, AnswerBar, AnswerOf
  <2> QED
    BY <2>1 DEF Reads!Next
<1> QED
  BY <1>3, <1>4 DEF Environment

LEMMA ReadsAsk ==
    ASSUME TypeInv, QuietInv, NEW c \in Callers, AskStep(c)
    PROVE  [Reads!Next]_readBar
<1>1. pc[c] = "idle" /\ query[c] = NoQuery /\ ~Asks(c)
  BY DEF AskStep, Idle, RefreshBindings, QuietInv, Asks, NoQuery
<1>2. CASE RefreshBindings(c)
  <2>1. /\ UNCHANGED <<history, now>> /\ \A d \in Callers \ {c} : Same(d)
        /\ query'[c].op = "refresh"
    BY <1>2 DEF RefreshBindings, Request, Goto, Same, TypeInv, TypeOK
  <2>2. SameRead(c)
    BY <1>1, <2>1 DEF SameRead, PlaceOf, QuestionOf, AnswerOf, Asks
  <2> QED
    BY <2>1, <2>2, ReadKept, ReadsKept
<1>3. ASSUME NEW q \in Query, q.op # "refresh", Ask(c, q) PROVE Reads!Ask(c)
  <2>1. /\ UNCHANGED <<history, now>> /\ \A d \in Callers \ {c} : Same(d)
        /\ query'[c] = q /\ pc'[c] \in {"waiting", "read"} /\ missed'[c] = FALSE
    BY <1>3 DEF Ask, Request, Goto, Same, TypeInv, TypeOK
  <2>2. q.op \notin {"none", "refresh"}
    BY <1>3 DEF Query
  <2>3. PlaceOf(c) = "idle" /\ AnswerOf(c) = {}
    BY <1>1 DEF PlaceOf, AnswerOf
  <2>4. PlaceOf(c)' = "open" /\ QuestionOf(c)' = q /\ AnswerOf(c)' = {}
    BY <2>1, <2>2 DEF PlaceOf, QuestionOf, AnswerOf, Asks
  <2>5. /\ PlaceBar[c] = "idle" /\ PlaceBar' = [PlaceBar EXCEPT ![c] = "open"]
        /\ QuestionBar' = [QuestionBar EXCEPT ![c] = q] /\ AnswerBar' = AnswerBar
    BY <2>1, <2>3, <2>4, ReadByOne
  <2> QED
    BY <1>3, <2>1, <2>5 DEF Reads!Ask, Reads!Goto, PlaceBar, PlaceOf, QuestionBar, QuestionOf, AnswerBar,
                            AnswerOf
<1> QED
  BY <1>2, <1>3 DEF AskStep, Reads!Next

(* A refresh, whoever's: it matters to its own caller only if it fails.    *)
LEMMA ReadsCache ==
    ASSUME TypeInv, NEW c \in Callers, CacheStep(c)
    PROVE  [Reads!Next]_readBar
<1>1. /\ UNCHANGED <<history, now>> /\ \A d \in Callers \ {c} : Same(d)
      /\ query'[c] = query[c] /\ pc[c] \in Asking
      /\ (pc'[c] = "done" => query[c].op = "refresh")
  BY DEF CacheStep, CoreAnswers, Store, RefreshFails, Refreshed, Goto, Same, Asking, TypeInv, TypeOK
<1>2. QuestionOf(c)' = QuestionOf(c) /\ AnswerOf(c)' = AnswerOf(c)
  BY <1>1 DEF QuestionOf, AnswerOf, Asks, Asking
<1>3. CASE PlaceOf(c)' = PlaceOf(c)
  BY <1>1, <1>2, <1>3, ReadKept, ReadsKept DEF SameRead
<1>4. CASE PlaceOf(c)' # PlaceOf(c)
  <2>1. Asks(c) /\ missed[c] = FALSE /\ missed'[c] = TRUE /\ pc'[c] # "done" /\ pc[c] # "done"
    BY <1>1, <1>4 DEF CacheStep, CoreAnswers, Store, RefreshFails, PlaceOf, Asks, Asking, TypeInv, TypeOK
  <2>2. PlaceOf(c) = "open" /\ PlaceOf(c)' = "missed"
    BY <1>1, <2>1 DEF PlaceOf, Asks
  <2>3. /\ PlaceBar[c] = "open" /\ PlaceBar' = [PlaceBar EXCEPT ![c] = "missed"]
        /\ QuestionBar' = QuestionBar /\ AnswerBar' = AnswerBar
    BY <1>1, <1>2, <2>2, ReadByOne
  <2>4. Reads!Miss(c)
    BY <1>1, <2>3 DEF Reads!Miss, Reads!Goto, PlaceBar, PlaceOf, QuestionBar, QuestionOf, AnswerBar, AnswerOf
  <2> QED
    BY <2>4 DEF Reads!Next
<1> QED
  BY <1>3, <1>4

(* What is in the cache core has held, if something is.                    *)
LEMMA CacheWasHeld ==
    ASSUME TypeInv, RecentInv
    PROVE  \E t \in Reads!Ever \cup {{}} : bindings = Ours(t)
<1>1. CASE bindings = {}
  BY <1>1 DEF Ours
<1>2. ASSUME NEW rows \in HeldIn(history, bindingsAt - Timeout, bindingsAt), bindings = Ours(rows)
      PROVE  \E t \in Reads!Ever : bindings = Ours(t)
  BY <1>2 DEF HeldIn, Reads!Ever
<1> QED
  BY <1>1, <1>2 DEF RecentInv, CacheRecent

LEMMA ReadsRead ==
    ASSUME TypeInv, RecentInv, NEW c \in Callers, Read(c)
    PROVE  [Reads!Next]_readBar
<1>1. /\ UNCHANGED <<history, now>> /\ \A d \in Callers \ {c} : Same(d)
      /\ pc[c] = "read" /\ pc'[c] = "done" /\ query'[c] = query[c] /\ missed'[c] = missed[c]
      /\ answer'[c] = AnswerFrom(bindings, query[c])
  BY DEF Read, Goto, Same, TypeInv, TypeOK
<1>2. query[c] \in Query /\ query[c].op # "refresh" /\ Asks(c)
  BY <1>1 DEF TypeInv, QueryInv, Asks, Query
<1>3. /\ PlaceOf(c) = IF missed[c] THEN "missed" ELSE "open"
      /\ PlaceOf(c)' = "told" /\ QuestionOf(c) = query[c] /\ QuestionOf(c)' = query[c]
      /\ AnswerOf(c)' = AnswerFrom(bindings, query[c])
  BY <1>1, <1>2 DEF PlaceOf, QuestionOf, AnswerOf, Asks
<1>4. /\ PlaceBar[c] = IF missed[c] THEN "missed" ELSE "open"
      /\ PlaceBar' = [PlaceBar EXCEPT ![c] = "told"]
      /\ QuestionBar[c] = query[c] /\ QuestionBar' = QuestionBar
      /\ AnswerBar' = [AnswerBar EXCEPT ![c] = AnswerFrom(bindings, query[c])]
  BY <1>1, <1>3, ReadByOne
<1>5. ASSUME NEW t, AnswerFrom(bindings, query[c]) = AnswerFrom(Ours(t), query[c]) PROVE Reads!Tell(c, t)
  BY <1>1, <1>4, <1>5 DEF Reads!Tell, Reads!Goto, AnswerFromTable, PlaceBar, PlaceOf, QuestionBar,
                          QuestionOf, AnswerBar, AnswerOf
<1>6. CASE missed[c]
  <2>1. PICK t \in Reads!Ever \cup {{}} : bindings = Ours(t)
    BY CacheWasHeld
  <2>2. Reads!Tell(c, t) /\ PlaceBar[c] = "missed"
    BY <1>4, <1>5, <1>6, <2>1
  <2>3. Reads!TellOld(c)
    BY <2>2 DEF Reads!TellOld, PlaceBar, PlaceOf
  <2> QED
    BY <2>3 DEF Reads!Next
<1>7. CASE ~missed[c]
  <2>1. CallRecent(c)'
    BY RecentRead DEF RecentInv
  <2>2. PICK t \in HeldIn(history, now - Bound, now) :
            AnswerFrom(bindings, query[c]) = AnswerFrom(Ours(t), query[c])
    BY <1>1, <1>2, <1>7, <2>1 DEF CallRecent
  <2>3. t \in Reads!During(now - Bound, now)
    BY <2>2 DEF Reads!During, HeldIn
  <2>4. Reads!Tell(c, t) /\ PlaceBar[c] = "open"
    BY <1>4, <1>5, <1>7, <2>2
  <2>5. Reads!TellRecent(c)
    BY <2>3, <2>4 DEF Reads!TellRecent, PlaceBar, PlaceOf
  <2> QED
    BY <2>5 DEF Reads!Next
<1> QED
  BY <1>6, <1>7

LEMMA ReadsReturn ==
    ASSUME TypeInv, NEW c \in Callers, AskReturns(c) \/ TargetsKnown(c)
    PROVE  [Reads!Next]_readBar
<1>1. /\ UNCHANGED <<history, now>> /\ \A d \in Callers \ {c} : Same(d)
      /\ pc[c] = "done" /\ pc'[c] # "done" /\ query'[c] = NoQuery
  BY DEF AskReturns, TargetsKnown, Goto, Same, TypeInv, TypeOK
<1>2. PlaceOf(c)' = "idle" /\ QuestionOf(c)' = NoQuery /\ AnswerOf(c)' = {}
  BY <1>1 DEF PlaceOf, QuestionOf, AnswerOf, Asks, NoQuery
<1>3. CASE ~Asks(c)
  <2>1. SameRead(c)
    BY <1>2, <1>3 DEF SameRead, PlaceOf, QuestionOf, AnswerOf
  <2> QED
    BY <1>1, <2>1, ReadKept, ReadsKept
<1>4. CASE Asks(c)
  <2>1. PlaceOf(c) = "told"
    BY <1>1, <1>4 DEF PlaceOf
  <2>2. /\ PlaceBar[c] = "told" /\ PlaceBar' = [PlaceBar EXCEPT ![c] = "idle"]
        /\ QuestionBar' = [QuestionBar EXCEPT ![c] = NoQuery] /\ AnswerBar' = [AnswerBar EXCEPT ![c] = {}]
    BY <1>1, <1>2, <2>1, ReadByOne
  <2>3. Reads!Return(c)
    BY <1>1, <2>2 DEF Reads!Return, Reads!Goto, PlaceBar, PlaceOf, QuestionBar, QuestionOf, AnswerBar, AnswerOf
  <2> QED
    BY <2>3 DEF Reads!Next
<1> QED
  BY <1>3, <1>4

LEMMA ReadsSteps ==
    ASSUME TypeInv, RecentInv, QuietInv, [Next]_vars
    PROVE  [Reads!Next]_readBar
<1>1. ASSUME UNCHANGED bindingVars PROVE [Reads!Next]_readBar
  <2>1. UNCHANGED <<history, now>> /\ \A c \in Callers : SameRead(c)
    BY <1>1, ReadKept DEF bindingVars, callVars, Same
  <2> QED
    BY <2>1, ReadsKept
<1>2. ASSUME NEW c \in Callers, PropagateReturns(c) \/ SetReturns(c) PROVE [Reads!Next]_readBar
  <2>1. /\ UNCHANGED <<history, now, query>> /\ \A d \in Callers \ {c} : Same(d)
        /\ pc[c] \in {"idle", "send"}
    BY <1>2 DEF PropagateReturns, SetReturns, Goto, Same, TypeInv, TypeOK
  <2>2. SameRead(c)
    BY <2>1 DEF QuietInv, SameRead, PlaceOf, QuestionOf, AnswerOf, Asks, NoQuery
  <2> QED
    BY <2>1, <2>2, ReadKept, ReadsKept
<1>3. ASSUME NEW c \in Callers, Begin(c) PROVE [Reads!Next]_readBar
  <2>1. CASE AskDirectly(c)
    <3>1. AskStep(c)
      BY <2>1 DEF AskDirectly, AskStep, Idle
    <3> QED
      BY <3>1, ReadsAsk
  <2>2. CASE \E e \in Endpoints, v \in Values : SetEndpointValue(c, e, v)
    BY <1>1, <2>2 DEF SetEndpointValue
  <2> QED
    BY <1>3, <2>1, <2>2 DEF Begin
<1>4. ASSUME NEW c \in Callers, Continue(c) PROVE [Reads!Next]_readBar
  <2>1. CASE ObserverReturns(c) \/ \E b \in Rows : TargetTakes(c, b) \/ TargetFails(c, b)
    BY <1>1, <2>1 DEF ObserverReturns, TargetTakes, TargetFails, Try
  <2>2. CASE ReadCache(c)
    BY <2>2, ReadsRead DEF ReadCache
  <2>3. CASE PropagateValue(c)
    BY <2>3, PropagateAsks, ReadsAsk
  <2> QED
    BY <1>2, <1>4, <2>1, <2>2, <2>3, ReadsCache, ReadsReturn DEF Continue
<1>5. CASE (\E h \in Handlers : AddHandler(h)) \/ UNCHANGED vars
  BY <1>1, <1>5 DEF AddHandler, vars
<1> QED
  BY <1>3, <1>4, <1>5, ReadsEnvironment DEF Next

(* To any number of callers the manager is a RecentReads: an answer is     *)
(* from what core held within the last interval and timeout or, when the   *)
(* caller's own refresh failed, at some earlier time or never was there    *)
(* (RefreshBindings, GetTargetsForEndpoint, IsSourceAuthorized).           *)
THEOREM ReadsRecentAlways == Spec => ReadsRecent
<1>1. Init => QuietInv
  BY DEF Init, BindingsInit, QuietInv
<1>2. Spec => []QuietInv
  BY <1>1, TypeInvariant, QuietSteps, PTL DEF Spec
<1>3. Spec => []RecentInv
  BY TypeInvariant, RecentInit, RecentSteps, PTL DEF Spec
<1>4. TypeInv /\ RecentInv /\ QuietInv /\ [Next]_vars => [Reads!Next]_readBar
  BY ReadsSteps
<1> QED
  BY <1>2, <1>3, <1>4, ReadsInit, TypeInvariant, PTL
     DEF Spec, ReadsRecent, Reads!Spec, Reads!readVars, readBar, PlaceBar, PlaceOf, QuestionBar, QuestionOf,
         AnswerBar, AnswerOf
-----------------------------------------------------------------------------
(* Who is told of a change.                                                *)

Once(s)    == \A i, j \in 1..Len(s) : s[i] = s[j] => i = j
Without(s) == \A i \in 1..Len(s) : s[i] # "propagate"

(* The tables GoneBy(c) stands for.                                        *)
ReadFrom(c) ==
    IF missed[c] THEN HeldIn(history, 0, readAt[c]) \cup {{}}
                 ELSE HeldIn(history, readAt[c] - Bound, readAt[c])

TargetsOf(c, targets) == \E rows \in ReadFrom(c) : targets = TargetsIn(Ours(rows), setting[c].endpoint)

(* While a change is reported: the handler that passes it on is called     *)
(* once and knows the targets of its endpoint before it sends; those tried *)
(* and those left are then the targets of one table.                       *)
ChangeInv(c) ==
    setting[c] # Registry!NoChange =>
        /\ Once(todo[c])
        /\ pc[c] # "idle" => todo[c] # <<>> /\ Head(todo[c]) = "propagate"
        /\ pc[c] \in Asking \cup {"read", "done"} =>
               query[c] = [op |-> "targets", of |-> setting[c].endpoint]
               /\ told[c] = {} /\ refused[c] = {}
        /\ pc[c] = "done" => readAt[c] = now /\ TargetsOf(c, answer[c])
        /\ pc[c] = "send" => readAt[c] # Never
        /\ pc[c] = "idle" /\ readAt[c] = Never => told[c] = {} /\ refused[c] = {}
        /\ pc[c] = "idle" /\ readAt[c] # Never => Without(todo[c])
        /\ pc[c] = "send" /\ HasHandler => TargetsOf(c, left[c] \cup told[c] \cup refused[c])
        /\ pc[c] = "idle" /\ readAt[c] # Never /\ HasHandler => TargetsOf(c, told[c] \cup refused[c])
        /\ refused[c] # {} => failed[c]

ToldInv ==
    /\ Once(handlers)
    /\ \A c \in Callers : readAt[c] <= now /\ ChangeInv(c)

SameChange(c) ==
    /\ Same(c) /\ setting'[c] = setting[c] /\ todo'[c] = todo[c] /\ left'[c] = left[c]
    /\ failed'[c] = failed[c] /\ readAt'[c] = readAt[c] /\ told'[c] = told[c] /\ refused'[c] = refused[c]

LEMMA ChangeKept ==
    ASSUME NEW c \in Callers, ChangeInv(c), SameChange(c), UNCHANGED <<history, now>>
    PROVE  ChangeInv(c)'
  BY DEF ChangeInv, SameChange, Same, TargetsOf, ReadFrom

(* A step of one caller, of which the others notice nothing.               *)
LEMMA ToldByOne ==
    ASSUME ToldInv, NEW c \in Callers, UNCHANGED <<history, now, handlers>>,
           \A d \in Callers \ {c} : SameChange(d), readAt'[c] <= now, ChangeInv(c)'
    PROVE  ToldInv'
<1>1. \A d \in Callers \ {c} : ChangeInv(d)' /\ readAt'[d] <= now'
  BY ChangeKept DEF ToldInv, SameChange
<1> QED
  BY <1>1 DEF ToldInv

LEMMA TailOnce ==
    ASSUME NEW s \in Seq(Handlers), s # <<>>, Once(s)
    PROVE  Once(Tail(s)) /\ (Head(s) = "propagate" => Without(Tail(s))) /\ (Without(s) => Without(Tail(s)))
<1>1. Len(s) \in Nat /\ Len(s) # 0 /\ Len(Tail(s)) = Len(s) - 1 /\ Head(s) = s[1]
      /\ \A i \in 1..Len(Tail(s)) : Tail(s)[i] = s[i + 1]
  BY HeadTailProperties, EmptySeq, LenProperties
<1> QED
  BY <1>1 DEF Once, Without

LEMMA ToldInit == Init => ToldInv
<1> SUFFICES ASSUME Init PROVE ToldInv
  OBVIOUS
<1>1. handlers = <<>> /\ \A c \in Callers : setting[c] = Registry!NoChange /\ readAt[c] = Never
  BY DEF Init, Registry!RegistryInit
<1>2. Never <= now
  BY DEF Init, BindingsInit, Never
<1> QED
  BY <1>1, <1>2 DEF ToldInv, ChangeInv, Once

LEMMA ToldEnvironment == ASSUME TypeInv, ToldInv, Environment PROVE ToldInv'
<1>1. UNCHANGED <<pc, query, answer, missed, handlers, setting, todo, left, failed, readAt, told, refused>>
  BY DEF Environment, EditBindings, Tick, callVars, notBindings, registryVars, sendVars, observeVars
<1>2. now \in Nat /\ history \in Seq(Entry) /\ Interval \in Nat /\ Timeout \in Nat /\ Bound \in Nat
      /\ \A c \in Callers : readAt[c] \in Nat \cup {Never}
  BY TimesAssumption, HistoryFacts DEF TypeInv, TypeOK, Bound
<1>3. CASE EditBindings
  <2>1. PICK b \in Rows :
            history' = Append(history, [at |-> now, rows |-> (Table \ {b}) \cup ({b} \ Table)])
    BY <1>3 DEF EditBindings
  <2> DEFINE e == [at |-> now, rows |-> (Table \ {b}) \cup ({b} \ Table)]
  <2>2. e \in Entry /\ e.at = now
    BY HistoryFacts DEF Entry, TypeInv, TypeOK
  <2>3. history' = Append(history, e) /\ now' = now
    BY <1>3, <2>1 DEF EditBindings
  <2> HIDE DEF e
  <2>4. ASSUME NEW c \in Callers PROVE ChangeInv(c)'
    <3>1. readAt[c] \in Int /\ readAt[c] - Bound \in Int /\ readAt[c] - Bound <= e.at
      BY <1>2, <2>2 DEF ToldInv, Never
    <3>2. HeldIn(history, readAt[c] - Bound, readAt[c]) \subseteq HeldIn(history', readAt[c] - Bound, readAt[c])
      BY <1>2, <2>2, <2>3, <3>1, HeldLonger
    <3>3. HeldIn(history, 0, readAt[c]) \subseteq HeldIn(history', 0, readAt[c])
      BY <1>2, <2>2, <2>3, <3>1, HeldLonger
    <3>4. \A targets : TargetsOf(c, targets) => TargetsOf(c, targets)'
      BY <1>1, <3>2, <3>3 DEF TargetsOf, ReadFrom
    <3> QED
      BY <1>1, <2>3, <3>4 DEF ToldInv, ChangeInv
  <2> QED
    BY <1>1, <2>3, <2>4 DEF ToldInv
<1>4. CASE Tick
  <2>1. now' = now + 1 /\ history' = history /\ \A c \in Callers : pc[c] # "done"
    BY <1>4 DEF Tick
  <2>2. \A c \in Callers : readAt'[c] <= now'
    BY <1>1, <1>2, <2>1 DEF ToldInv, Never
  <2>3. \A c \in Callers : ChangeInv(c)'
    BY <1>1, <2>1 DEF ToldInv, ChangeInv, TargetsOf, ReadFrom
  <2> QED
    BY <1>1, <2>2, <2>3 DEF ToldInv
<1> QED
  BY <1>3, <1>4 DEF Environment

LEMMA ToldAddHandler == ASSUME TypeInv, ToldInv, NEW h \in Handlers, AddHandler(h) PROVE ToldInv'
<1>1. /\ UNCHANGED <<history, now, pc, query, sentAt, reply, answer, missed, setting, todo, left, failed,
                     readAt, told, refused>>
      /\ handlers' = Append(handlers, h) /\ \A i \in 1..Len(handlers) : handlers[i] # h
  BY DEF AddHandler, Registry!AddHandler, bindingVars, callVars, sendVars, observeVars
<1>2. Len(handlers) \in Nat /\ Len(handlers') = Len(handlers) + 1 /\ handlers'[Len(handlers) + 1] = h
      /\ \A i \in 1..Len(handlers) : handlers'[i] = handlers[i]
  BY <1>1, AppendProperties, LenProperties DEF TypeInv, TypeOK
<1>3. Once(handlers')
  BY <1>1, <1>2 DEF Once, ToldInv
<1> QED
  BY <1>1, <1>3, ChangeKept DEF ToldInv, SameChange, Same

(* The driver asks by itself: there is no change to report.                *)
LEMMA ToldAsks == ASSUME TypeInv, ToldInv, NEW c \in Callers, AskDirectly(c) PROVE ToldInv'
<1>1. /\ UNCHANGED <<history, now, handlers>> /\ \A d \in Callers \ {c} : SameChange(d)
      /\ setting'[c] = Registry!NoChange /\ readAt'[c] = readAt[c]
  BY DEF AskDirectly, Idle, RefreshBindings, Ask, Request, Goto, notBindings, registryVars, sendVars,
         observeVars, SameChange, Same, TypeInv, TypeOK
<1>2. readAt'[c] <= now /\ ChangeInv(c)'
  BY <1>1 DEF ToldInv, ChangeInv
<1> QED
  BY <1>1, <1>2, ToldByOne

LEMMA ToldCache == ASSUME TypeInv, ToldInv, NEW c \in Callers, CacheStep(c) PROVE ToldInv'
<1>1. UNCHANGED <<history, now, values, handlers, setting, todo, left, failed, readAt, told, refused, query>>
  BY DEF CacheStep, CoreAnswers, Store, RefreshFails, notBindings, registryVars, sendVars, observeVars
<1>2. \A d \in Callers \ {c} : SameChange(d)
  BY <1>1 DEF CacheStep, CoreAnswers, Store, RefreshFails, Refreshed, Goto, SameChange, Same, TypeInv,
              TypeOK
<1>3. pc[c] \in Asking /\ pc'[c] \in Asking \cup {"read", "done"}
      /\ (pc'[c] = "done" => query[c].op = "refresh")
  BY DEF CacheStep, CoreAnswers, Store, RefreshFails, Refreshed, Goto, Asking, TypeInv, TypeOK
<1>4. setting[c] # Registry!NoChange => pc'[c] # "done"
  BY <1>3 DEF TypeInv, QueryInv
<1>5. ChangeInv(c)'
  BY <1>1, <1>3, <1>4 DEF ToldInv, ChangeInv, Asking
<1>6. readAt'[c] <= now
  BY <1>1 DEF ToldInv
<1> QED
  BY <1>1, <1>2, <1>5, <1>6, ToldByOne

(* What is in the cache core has held by now, if something is.             *)
LEMMA CacheHeldByNow ==
    ASSUME TypeInv, RecentInv
    PROVE  \E t \in HeldIn(history, 0, now) \cup {{}} : bindings = Ours(t)
<1>1. CASE bindings = {}
  BY <1>1 DEF Ours
<1>2. ASSUME NEW t \in HeldIn(history, bindingsAt - Timeout, bindingsAt), bindings = Ours(t)
      PROVE  t \in HeldIn(history, 0, now)
  <2>1. PICK i \in 1..Len(history) : history[i].rows = t /\ history[i].at <= bindingsAt
    BY <1>2 DEF HeldIn
  <2>2. history[i].at \in Nat /\ history[i].at <= now
    BY HistoryFacts DEF TypeInv
  <2>3. i < Len(history) => history[i + 1].at >= 0
    BY HistoryFacts DEF TypeInv
  <2> QED
    BY <2>1, <2>2, <2>3 DEF HeldIn
<1> QED
  BY <1>1, <1>2 DEF RecentInv, CacheRecent

LEMMA ToldRead == ASSUME TypeInv, RecentInv, ToldInv, NEW c \in Callers, ReadCache(c) PROVE ToldInv'
<1>1. /\ UNCHANGED <<history, now, values, handlers, setting, todo, left, failed, told, refused, query,
                     missed>>
      /\ \A d \in Callers \ {c} : SameChange(d)
      /\ pc[c] = "read" /\ pc'[c] = "done" /\ readAt'[c] = now
      /\ answer'[c] = AnswerFrom(bindings, query[c])
  BY DEF ReadCache, Read, Goto, registryVars, sendVars, SameChange, Same, TypeInv, TypeOK
<1>2. ASSUME setting[c] # Registry!NoChange PROVE TargetsOf(c, answer[c])'
  <2>1. query[c] = [op |-> "targets", of |-> setting[c].endpoint]
    BY <1>1, <1>2 DEF ToldInv, ChangeInv
  <2>2. query[c].op = "targets" /\ query[c].of = setting[c].endpoint
    BY <2>1
  <2>3. \A rows : AnswerFrom(rows, query[c]) = TargetsIn(rows, setting[c].endpoint)
    BY <2>2 DEF AnswerFrom
  <2>4. CASE missed[c]
    <3>1. PICK t \in HeldIn(history, 0, now) \cup {{}} : bindings = Ours(t)
      BY CacheHeldByNow
    <3> QED
      BY <1>1, <2>3, <2>4, <3>1 DEF TargetsOf, ReadFrom
  <2>5. CASE ~missed[c]
    <3>1. CallRecent(c)'
      BY RecentRead DEF RecentInv, ReadCache
    <3>2. \E t \in HeldIn(history, now - Bound, now) : answer'[c] = AnswerFrom(Ours(t), query[c])
      BY <1>1, <2>2, <2>5, <3>1 DEF CallRecent
    <3> QED
      BY <1>1, <2>3, <2>5, <3>2 DEF TargetsOf, ReadFrom
  <2> QED
    BY <2>4, <2>5
<1>3. ChangeInv(c)'
  BY <1>1, <1>2 DEF ToldInv, ChangeInv, Asking
<1>4. now <= now
  BY DEF TypeInv, TypeOK
<1> QED
  BY <1>1, <1>3, <1>4, ToldByOne

LEMMA ToldAskReturns == ASSUME TypeInv, ToldInv, NEW c \in Callers, AskReturns(c) PROVE ToldInv'
<1>1. /\ UNCHANGED <<history, now, handlers>> /\ \A d \in Callers \ {c} : SameChange(d)
      /\ setting'[c] = Registry!NoChange /\ readAt'[c] = Never
  BY DEF AskReturns, Goto, registryVars, sendVars, SameChange, Same, TypeInv, TypeOK
<1>2. readAt'[c] <= now /\ ChangeInv(c)'
  BY <1>1 DEF ChangeInv, TypeInv, TypeOK, Never
<1> QED
  BY <1>1, <1>2, ToldByOne

LEMMA ToldSet ==
    ASSUME TypeInv, ToldInv, NEW c \in Callers, NEW e \in Endpoints, NEW v \in Values,
           SetEndpointValue(c, e, v)
    PROVE  ToldInv'
<1>1. /\ UNCHANGED <<history, now, handlers>> /\ \A d \in Callers \ {c} : SameChange(d)
      /\ readAt'[c] = Never /\ told'[c] = {} /\ refused'[c] = {} /\ todo'[c] = handlers /\ pc'[c] = "idle"
  BY DEF SetEndpointValue, Idle, Registry!SetEndpointValue, bindingVars, callVars, SameChange, Same, TypeInv,
         TypeOK
<1>2. Never <= now
  BY DEF TypeInv, TypeOK, Never
<1>3. ChangeInv(c)'
  BY <1>1 DEF ToldInv, ChangeInv, Asking
<1> QED
  BY <1>1, <1>2, <1>3, ToldByOne

LEMMA ToldObserver == ASSUME TypeInv, ToldInv, NEW c \in Callers, ObserverReturns(c) PROVE ToldInv'
<1>1. /\ UNCHANGED <<history, now, handlers, pc, query, answer, missed, setting, left, readAt, told, refused>>
      /\ \A d \in Callers \ {c} : SameChange(d)
      /\ pc[c] = "idle" /\ todo[c] # <<>>
  BY DEF ObserverReturns, Calling, Registry!HandlerSucceeds, Registry!HandlerFails, bindingVars, callVars,
         observeVars, SameChange, Same, TypeInv, TypeOK
<1>2. \/ todo'[c] = Tail(todo[c]) /\ failed'[c] = failed[c]
      \/ todo'[c] = <<>> /\ failed'[c] = TRUE
  BY DEF ObserverReturns, Registry!HandlerSucceeds, Registry!HandlerFails, TypeInv, TypeOK
<1>3. setting[c] # Registry!NoChange =>
          Once(todo'[c]) /\ (Without(todo[c]) => Without(todo'[c]))
  <2>1. todo[c] \in Seq(Handlers)
    BY DEF TypeInv, TypeOK
  <2>2. Once(<<>>) /\ Without(<<>>)
    BY DEF Once, Without
  <2> QED
    BY <1>1, <1>2, <2>1, <2>2, TailOnce DEF ToldInv, ChangeInv
<1>4. ChangeInv(c)'
  BY <1>1, <1>2, <1>3 DEF ToldInv, ChangeInv, Asking, TargetsOf, ReadFrom
<1>5. readAt'[c] <= now
  BY <1>1 DEF ToldInv
<1> QED
  BY <1>1, <1>4, <1>5, ToldByOne

LEMMA ToldPropagate == ASSUME TypeInv, ToldInv, NEW c \in Callers, PropagateValue(c) PROVE ToldInv'
<1>1. /\ UNCHANGED <<history, now, handlers, setting, todo, left, failed, readAt, told, refused>>
      /\ \A d \in Callers \ {c} : SameChange(d)
      /\ pc[c] = "idle" /\ pc'[c] \in {"waiting", "read"}
      /\ query'[c] = [op |-> "targets", of |-> setting[c].endpoint]
      /\ todo[c] # <<>> /\ Head(todo[c]) = "propagate"
  BY DEF PropagateValue, Calling, Ask, Request, Goto, notBindings, registryVars, sendVars, observeVars,
         SameChange, Same, TypeInv, TypeOK
<1>2. ~Without(todo[c])
  <2>1. todo[c] \in Seq(Handlers)
    BY DEF TypeInv, TypeOK
  <2>2. todo[c][1] = "propagate" /\ 1 \in 1..Len(todo[c])
    BY <1>1, <2>1, HeadTailProperties, EmptySeq, LenProperties
  <2> QED
    BY <2>2 DEF Without
<1>3. ChangeInv(c)'
  BY <1>1, <1>2 DEF ToldInv, ChangeInv, Asking
<1>4. readAt'[c] <= now
  BY <1>1 DEF ToldInv
<1> QED
  BY <1>1, <1>3, <1>4, ToldByOne

LEMMA ToldTargets ==
    ASSUME TypeInv, ToldInv, NEW c \in Callers, TargetsKnown(c)
    PROVE  ToldInv'
<1>1. /\ UNCHANGED <<history, now, handlers, missed, setting, todo, failed, readAt, told, refused>>
      /\ \A d \in Callers \ {c} : SameChange(d)
      /\ pc[c] = "done" /\ pc'[c] = "send" /\ setting[c] # Registry!NoChange
      /\ (HasHandler => left'[c] = answer[c])
  BY DEF TargetsKnown, Goto, registryVars, observeVars, SameChange, Same, TypeInv, TypeOK
<1>2. readAt[c] = now /\ told[c] = {} /\ refused[c] = {} /\ TargetsOf(c, answer[c])
  BY <1>1 DEF ToldInv, ChangeInv, Asking
<1>3. now # Never
  BY DEF TypeInv, TypeOK, Never
<1>4. ChangeInv(c)'
  <2>1. HasHandler => TargetsOf(c, left[c] \cup told[c] \cup refused[c])'
    <3>1. HasHandler => left'[c] \cup told'[c] \cup refused'[c] = answer[c]
      BY <1>1, <1>2
    <3> QED
      BY <1>1, <1>2, <3>1 DEF TargetsOf, ReadFrom
  <2>2. Once(todo[c]) /\ todo[c] # <<>> /\ Head(todo[c]) = "propagate"
    BY <1>1 DEF ToldInv, ChangeInv
  <2> QED
    BY <1>1, <1>2, <1>3, <2>1, <2>2 DEF ChangeInv, Asking
<1>5. readAt'[c] <= now
  BY <1>1 DEF ToldInv
<1> QED
  BY <1>1, <1>4, <1>5, ToldByOne

LEMMA ToldTry ==
    ASSUME TypeInv, ToldInv, NEW c \in Callers, NEW b \in Rows, TargetTakes(c, b) \/ TargetFails(c, b)
    PROVE  ToldInv'
<1>1. /\ UNCHANGED <<history, now, handlers, pc, query, answer, missed, setting, todo, readAt>>
      /\ pc[c] = "send" /\ b \in left[c] /\ left'[c] = left[c] \ {b}
  BY DEF TargetTakes, TargetFails, Try, bindingVars, callVars, registryVars, TypeInv, TypeOK
<1>2. \A d \in Callers \ {c} : SameChange(d)
  <2>1. \A d \in Callers \ {c} : told'[d] = told[d] /\ failed'[d] = failed[d] /\ refused'[d] = refused[d]
    <3>1. CASE TargetTakes(c, b)
      BY <3>1 DEF TargetTakes, TypeInv, TypeOK
    <3>2. CASE TargetFails(c, b)
      BY <3>2 DEF TargetFails, TypeInv, TypeOK
    <3> QED
      BY <3>1, <3>2
  <2>2. \A d \in Callers \ {c} : left'[d] = left[d] /\ Same(d)
    BY DEF TargetTakes, TargetFails, Try, bindingVars, callVars, Same, TypeInv, TypeOK
  <2> QED
    BY <1>1, <2>1, <2>2 DEF SameChange
<1>3. /\ left'[c] \cup told'[c] \cup refused'[c] = left[c] \cup told[c] \cup refused[c]
      /\ failed'[c] \/ (failed'[c] = failed[c] /\ refused'[c] = refused[c])
  <2>1. CASE TargetTakes(c, b)
    <3>1. told'[c] = told[c] \cup {b} /\ failed'[c] = failed[c] /\ refused'[c] = refused[c]
      BY <2>1 DEF TargetTakes, TypeInv, TypeOK
    <3> QED
      BY <1>1, <3>1
  <2>2. CASE TargetFails(c, b)
    <3>1. refused'[c] = refused[c] \cup {b} /\ failed'[c] = TRUE /\ told'[c] = told[c]
      BY <2>2 DEF TargetFails, TypeInv, TypeOK
    <3> QED
      BY <1>1, <3>1
  <2> QED
    BY <2>1, <2>2
<1>4. ChangeInv(c)'
  <2>1. TargetsOf(c, left[c] \cup told[c] \cup refused[c])'
            <=> TargetsOf(c, left[c] \cup told[c] \cup refused[c])
    BY <1>1, <1>3 DEF TargetsOf, ReadFrom
  <2> QED
    BY <1>1, <1>3, <2>1 DEF ToldInv, ChangeInv, Asking
<1>5. readAt'[c] <= now
  BY <1>1 DEF ToldInv
<1> QED
  BY <1>1, <1>2, <1>4, <1>5, ToldByOne

LEMMA ToldReturns ==
    ASSUME TypeInv, ToldInv, NEW c \in Callers, PropagateReturns(c)
    PROVE  ToldInv'
<1>1. /\ UNCHANGED <<history, now, handlers, missed, setting, left, failed, readAt, told, refused>>
      /\ \A d \in Callers \ {c} : SameChange(d)
      /\ pc[c] = "send" /\ pc'[c] = "idle" /\ left[c] = {} /\ todo[c] # <<>>
  BY DEF PropagateReturns, Goto, Registry!HandlerSucceeds, Registry!HandlerFails, sendVars, observeVars,
         SameChange, Same, TypeInv, TypeOK
<1>2. todo'[c] \in {<<>>, Tail(todo[c])}
  BY DEF PropagateReturns, Registry!HandlerSucceeds, Registry!HandlerFails, TypeInv, TypeOK
<1>3. setting[c] # Registry!NoChange => Once(todo'[c]) /\ Without(todo'[c])
  <2>1. todo[c] \in Seq(Handlers)
    BY DEF TypeInv, TypeOK
  <2>2. Once(<<>>) /\ Without(<<>>)
    BY DEF Once, Without
  <2> QED
    BY <1>1, <1>2, <2>1, <2>2, TailOnce DEF ToldInv, ChangeInv
<1>4. left[c] \cup told[c] \cup refused[c] = told[c] \cup refused[c]
  BY <1>1
<1>5. ChangeInv(c)'
  BY <1>1, <1>3, <1>4 DEF ToldInv, ChangeInv, Asking, TargetsOf, ReadFrom
<1>6. readAt'[c] <= now
  BY <1>1 DEF ToldInv
<1> QED
  BY <1>1, <1>5, <1>6, ToldByOne

LEMMA ToldSetReturns == ASSUME TypeInv, ToldInv, NEW c \in Callers, SetReturns(c) PROVE ToldInv'
<1>1. /\ UNCHANGED <<history, now, handlers>> /\ \A d \in Callers \ {c} : SameChange(d)
      /\ setting'[c] = Registry!NoChange /\ readAt'[c] = Never
  BY DEF SetReturns, Registry!SetReturns, SameChange, Same, TypeInv, TypeOK
<1>2. readAt'[c] <= now /\ ChangeInv(c)'
  BY <1>1 DEF ChangeInv, TypeInv, TypeOK, Never
<1> QED
  BY <1>1, <1>2, ToldByOne

LEMMA ToldSteps == TypeInv /\ RecentInv /\ ToldInv /\ [Next]_vars => ToldInv'
<1> SUFFICES ASSUME TypeInv, RecentInv, ToldInv, [Next]_vars PROVE ToldInv'
  OBVIOUS
<1>1. ASSUME NEW c \in Callers, Begin(c) PROVE ToldInv'
  BY <1>1, ToldAsks, ToldSet DEF Begin
<1>2. ASSUME NEW c \in Callers, Continue(c) PROVE ToldInv'
  BY <1>2, ToldCache, ToldRead, ToldAskReturns, ToldObserver, ToldPropagate, ToldTargets, ToldTry,
     ToldReturns, ToldSetReturns DEF Continue
<1>3. CASE UNCHANGED vars
  <2>1. \A c \in Callers : SameChange(c)
    BY <1>3 DEF vars, bindingVars, callVars, registryVars, sendVars, observeVars, SameChange, Same
  <2> QED
    BY <1>3, <2>1, ChangeKept DEF vars, bindingVars, registryVars, observeVars, ToldInv
<1> QED
  BY <1>1, <1>2, <1>3, ToldEnvironment, ToldAddHandler DEF Next

(* With a binding handler given, who returns from SetEndpointValue and     *)
(* passed the change on has tried exactly the targets of one table, and    *)
(* returns the error of any that failed.  The table is one core held       *)
(* within the last interval and timeout, if the refresh for it did not     *)
(* fail; else one of any earlier time or an empty one, and devices bound   *)
(* since may not be told although nil is returned.  For any number of      *)
(* callers, endpoints, bindings and refreshes under way (SetEndpointValue, *)
(* PropagateValue, GetTargetsForEndpoint).                                 *)
THEOREM BoundDevicesToldAlways == Spec => []BoundDevicesTold
<1>1. ToldInv => BoundDevicesTold
  BY HeldIs DEF ToldInv, ChangeInv, BoundDevicesTold, Returning, GoneBy, TargetsOf, ReadFrom
<1> QED
  BY <1>1, TypeInvariant, RecentInit, RecentSteps, ToldInit, ToldSteps, PTL DEF Spec
=============================================================================
