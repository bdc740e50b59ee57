--------------------------- MODULE EventLogProofs ---------------------------
(***************************************************************************)
(* Proofs about the structured event log, for any emitters, any limits of  *)
(* the queue and the batch, and any number of events.                      *)
(***************************************************************************)
EXTENDS EventLog, TLAPS, SequenceTheorems, FiniteSetTheorems

(* Events enter in the order of their numbers and leave in that order, so  *)
(* the batch and the queue hold the last ones that entered; those up to    *)
(* Gone have been answered or lost.                                        *)
Gone == entered - Len(queue) - Len(batch)

Appending == {e \in Emitters : emitter[e] = "append"}

OrderInv ==
    /\ Gone \in Nat
    /\ \A i \in 1..Len(batch) : batch[i] = Gone + i
    /\ \A i \in 1..Len(queue) : queue[i] = Gone + Len(batch) + i
    /\ \A i, j \in 1..Len(sent) : i < j => sent[i] < sent[j]
    /\ 1..Gone = ToSet(sent) \cup lost

CountInv ==
    /\ IsFiniteSet(Appending) /\ emitted <= MaxEvents
    /\ Cardinality(Appending) + entered + overflowed = emitted
    /\ IsFiniteSet(lost) /\ dropped = overflowed + Cardinality(lost)

RunInv ==
    /\ runner # "post" => batch = <<>>
    /\ runner = "post" => batch # <<>>

LogInv == TypeOK /\ OrderInv /\ CountInv /\ RunInv

LEMMA LimitFacts ==
    /\ QueueMax \in Nat /\ BatchMax \in Nat /\ 1 <= BatchMax /\ BatchMax <= QueueMax
    /\ MaxEvents \in Nat
  BY LogLimitsAssumption, MaxEventsAssumption

LEMMA SeqFacts ==
    ASSUME TypeOK
    PROVE  /\ Len(queue) \in Nat /\ Len(batch) \in Nat /\ Len(sent) \in Nat
           /\ DOMAIN sent = 1..Len(sent) /\ DOMAIN batch = 1..Len(batch) /\ DOMAIN queue = 1..Len(queue)
           /\ \A i \in 1..Len(queue) : queue[i] \in Events
           /\ \A i \in 1..Len(sent) : sent[i] \in Events
           /\ \A i \in 1..Len(batch) : batch[i] \in Events
  BY LenProperties, ElementOfSeq DEF TypeOK

LEMMA LogInit == Init => LogInv
<1> SUFFICES ASSUME Init PROVE LogInv
  OBVIOUS
<1>1. \A s : s = <<>> => Len(s) = 0 /\ s \in Seq(Events)
  BY EmptySeq
<1>9. queue = <<>> /\ batch = <<>> /\ sent = <<>>
  BY DEF Init
<1>10. /\ queue \in Seq(Events) /\ batch \in Seq(Events) /\ sent \in Seq(Events)
       /\ Len(queue) = 0 /\ Len(batch) = 0 /\ Len(sent) = 0
  BY <1>1, <1>9
<1>11. /\ closed = FALSE /\ stop = FALSE /\ wake = FALSE /\ final = FALSE /\ lost = {}
       /\ dropped = 0 /\ emitted = 0 /\ entered = 0 /\ overflowed = 0 /\ before = 0
       /\ emitter = [e \in Emitters |-> "idle"] /\ runner = "select"
  BY DEF Init
<1>2. TypeOK
  <2>1. Len(queue) <= QueueMax /\ Len(batch) <= BatchMax
    BY <1>10, LimitFacts
  <2>2. emitter \in [Emitters -> {"idle", "append", "wake"}]
    BY <1>11
  <2> QED
    BY <1>10, <1>11, <2>1, <2>2 DEF TypeOK
<1>3. Appending = {}
  BY DEF Init, Appending
<1>4. IsFiniteSet({}) /\ Cardinality({}) = 0
  BY FS_EmptySet
<1>8. CountInv
  BY <1>3, <1>4, LimitFacts DEF Init, CountInv
<1>5. Gone = 0 /\ Len(batch) = 0 /\ Len(queue) = 0 /\ Len(sent) = 0
  BY <1>10, <1>11 DEF Gone
<1>6. ToSet(sent) = {}
  BY <1>2, <1>5, SeqFacts DEF ToSet
<1>7. OrderInv
  <2>1. lost = {} /\ 1..0 = {}
    BY DEF Init
  <2> QED
    BY <1>5, <1>6, <2>1 DEF OrderInv
<1> QED
  BY <1>2, <1>7, <1>8 DEF LogInv, RunInv, Init
-----------------------------------------------------------------------------
(* emit: how many are about to append.                                     *)
LEMMA BeginsAppending ==
    ASSUME LogInv, NEW e \in Emitters, emitter[e] # "append", Goto(e, "append")
    PROVE  IsFiniteSet(Appending') /\ Cardinality(Appending') = Cardinality(Appending) + 1
<1>1. Appending' = Appending \cup {e} /\ e \notin Appending
  BY DEF Appending, Goto, LogInv, TypeOK
<1> QED
  BY <1>1, FS_AddElement DEF LogInv, CountInv

LEMMA EndsAppending ==
    ASSUME LogInv, NEW e \in Emitters, emitter[e] = "append", NEW place \in {"idle", "wake"}, Goto(e, place)
    PROVE  /\ IsFiniteSet(Appending') /\ Cardinality(Appending') = Cardinality(Appending) - 1
           /\ Cardinality(Appending) \in Nat /\ Cardinality(Appending) # 0
<1>1. Appending' = Appending \ {e} /\ e \in Appending
  BY DEF Appending, Goto, LogInv, TypeOK
<1> QED
  BY <1>1, FS_RemoveElement, FS_EmptySet, FS_CardinalityType DEF LogInv, CountInv

LEMMA LogBegin == ASSUME LogInv, NEW e \in Emitters, BeginEmit(e) PROVE LogInv'
<1>1. IsFiniteSet(Appending') /\ Cardinality(Appending') = Cardinality(Appending) + 1
      /\ Cardinality(Appending) \in Nat
  BY BeginsAppending, FS_CardinalityType DEF BeginEmit, LogInv, CountInv
<1>2. UNCHANGED <<queue, wake, dropped, entered, overflowed, runner, batch, final, sent, lost, closed, stop,
                  before>>
      /\ emitted' = emitted + 1 /\ emitted < MaxEvents /\ emitted \in Nat /\ entered \in Nat
      /\ overflowed \in Nat
  BY DEF BeginEmit, runVars, endVars, LogInv, TypeOK
<1>3. TypeOK'
  BY <1>2 DEF BeginEmit, Goto, LogInv, TypeOK
<1>4. CountInv'
  BY <1>1, <1>2, LimitFacts DEF LogInv, CountInv
<1>5. OrderInv' /\ RunInv'
  BY <1>2 DEF LogInv, OrderInv, Gone, ToSet, RunInv
<1> QED
  BY <1>3, <1>4, <1>5 DEF LogInv

LEMMA LogDrop == ASSUME LogInv, NEW e \in Emitters, DropWhenFull(e) PROVE LogInv'
<1>1. /\ IsFiniteSet(Appending') /\ Cardinality(Appending') = Cardinality(Appending) - 1
      /\ Cardinality(Appending) \in Nat
  BY EndsAppending DEF DropWhenFull
<1>2. UNCHANGED <<queue, wake, emitted, entered, runner, batch, final, sent, lost, closed, stop, before>>
      /\ dropped' = dropped + 1 /\ overflowed' = overflowed + 1
      /\ emitted \in Nat /\ entered \in Nat /\ overflowed \in Nat /\ dropped \in Nat
  BY DEF DropWhenFull, runVars, endVars, LogInv, TypeOK
<1>3. TypeOK'
  BY <1>2 DEF DropWhenFull, Goto, LogInv, TypeOK
<1>4. CountInv'
  BY <1>1, <1>2, FS_CardinalityType DEF LogInv, CountInv
<1>5. OrderInv' /\ RunInv'
  BY <1>2 DEF LogInv, OrderInv, Gone, ToSet, RunInv
<1> QED
  BY <1>3, <1>4, <1>5 DEF LogInv

LEMMA LogEnqueue == ASSUME LogInv, NEW e \in Emitters, Enqueue(e) PROVE LogInv'
<1>1. PICK place \in {"idle", "wake"} : Goto(e, place)
  BY DEF Enqueue
<1>2. /\ IsFiniteSet(Appending') /\ Cardinality(Appending') = Cardinality(Appending) - 1
      /\ Cardinality(Appending) \in Nat /\ Cardinality(Appending) # 0
  BY <1>1, EndsAppending DEF Enqueue
<1>3. UNCHANGED <<wake, dropped, emitted, overflowed, runner, batch, final, sent, lost, closed, stop, before>>
      /\ entered' = entered + 1 /\ queue' = Append(queue, entered + 1) /\ Len(queue) < QueueMax
      /\ emitted \in Nat /\ entered \in Nat /\ overflowed \in Nat
  BY DEF Enqueue, runVars, endVars, LogInv, TypeOK
<1>4. entered + 1 \in Events
  BY <1>2, <1>3, LimitFacts DEF LogInv, CountInv, Events
<1>5. /\ queue' \in Seq(Events) /\ Len(queue') = Len(queue) + 1
      /\ \A i \in 1..Len(queue) : queue'[i] = queue[i]
      /\ queue'[Len(queue) + 1] = entered + 1
  BY <1>3, <1>4, AppendProperties DEF LogInv, TypeOK
<1>6. TypeOK'
  BY <1>1, <1>3, <1>5, LimitFacts, SeqFacts DEF Goto, LogInv, TypeOK
<1>7. CountInv'
  BY <1>2, <1>3 DEF LogInv, CountInv
<1>8. Gone' = Gone
  BY <1>3, <1>5, SeqFacts DEF Gone, LogInv, TypeOK
<1>9. \A i \in 1..Len(queue') : queue'[i] = Gone + Len(batch) + i
  BY <1>3, <1>5, SeqFacts DEF LogInv, OrderInv, Gone
<1>10. OrderInv' /\ RunInv'
  BY <1>3, <1>8, <1>9 DEF LogInv, OrderInv, ToSet, RunInv
<1> QED
  BY <1>6, <1>7, <1>10 DEF LogInv
-----------------------------------------------------------------------------
(* run and flush.                                                          *)

(* Nothing in the log itself changes.                                      *)
LEMMA LogKept ==
    ASSUME LogInv, TypeOK', RunInv',
           UNCHANGED <<queue, dropped, emitter, emitted, entered, overflowed, batch, sent, lost>>
    PROVE  LogInv'
  BY DEF LogInv, OrderInv, Gone, ToSet, CountInv, Appending

LEMMA LogQuiet ==
    ASSUME LogInv, Tick \/ SeeWake \/ SeeStop \/ QueueEmpty \/ Again \/ CloseLog \/ CloseStop
                   \/ \E e \in Emitters : Wake(e)
    PROVE  LogInv'
<1>1. CASE \E e \in Emitters : Wake(e)
  <2>1. PICK e \in Emitters : Wake(e)
    BY <1>1
  <2>2. UNCHANGED <<queue, dropped, emitted, entered, overflowed, runner, batch, final, sent, lost, closed,
                    stop, before>>
    BY <2>1 DEF Wake, runVars, endVars
  <2>3. TypeOK'
    BY <2>1, <2>2 DEF Wake, Goto, LogInv, TypeOK
  <2>4. Appending' = Appending
    BY <2>1 DEF Wake, Goto, Appending, LogInv, TypeOK
  <2> QED
    BY <2>2, <2>3, <2>4 DEF LogInv, OrderInv, Gone, ToSet, CountInv, RunInv
<1>2. CASE Tick \/ SeeWake \/ SeeStop \/ QueueEmpty \/ Again
  <2>1. UNCHANGED <<queue, dropped, emitter, emitted, entered, overflowed, batch, sent, lost, closed, stop,
                    before>>
    BY <1>2 DEF Tick, SeeWake, SeeStop, BeginFlush, QueueEmpty, Again, emitVars, endVars
  <2>2. runner # "post" /\ runner' \in {"flush", "done", "loop", "select"} /\ wake' \in BOOLEAN
        /\ final' \in BOOLEAN
    BY <1>2 DEF Tick, SeeWake, SeeStop, BeginFlush, QueueEmpty, EndFlush, Again, LogInv, TypeOK
  <2>3. TypeOK' /\ RunInv'
    BY <2>1, <2>2 DEF LogInv, TypeOK, RunInv
  <2> QED
    BY <2>1, <2>3, LogKept
<1>3. CASE CloseLog \/ CloseStop
  <2>1. UNCHANGED <<queue, dropped, emitter, emitted, entered, overflowed, runner, batch, final, sent, lost,
                    wake>>
    BY <1>3 DEF CloseLog, CloseStop, emitVars, runVars
  <2>2. closed' \in BOOLEAN /\ stop' \in BOOLEAN /\ before' \in Nat
    BY <1>3 DEF CloseLog, CloseStop, LogInv, TypeOK
  <2>3. TypeOK' /\ RunInv'
    BY <2>1, <2>2 DEF LogInv, TypeOK, RunInv
  <2> QED
    BY <2>1, <2>3, LogKept
<1> QED
  BY <1>1, <1>2, <1>3

(* A batch leaves the queue at its front.                                  *)
LEMMA LogTake == ASSUME LogInv, TakeBatch PROVE LogInv' /\ Gone' = Gone
<1> DEFINE n == IF Len(queue) > BatchMax THEN BatchMax ELSE Len(queue)
<1>1. UNCHANGED <<wake, dropped, emitter, emitted, entered, overflowed, final, sent, lost, closed, stop, before>>
      /\ runner = "flush" /\ runner' = "post" /\ queue # <<>> /\ batch = <<>>
  BY DEF TakeBatch, emitVars, endVars, LogInv, RunInv
<1>2. batch' = SubSeq(queue, 1, n) /\ queue' = SubSeq(queue, n + 1, Len(queue))
  BY DEF TakeBatch
<1>3. Len(queue) \in Nat /\ Len(queue) # 0 /\ Len(batch) = 0
  BY <1>1, EmptySeq, SeqFacts DEF LogInv, TypeOK
<1>4. n \in Nat /\ 1 <= n /\ n <= BatchMax /\ n <= Len(queue)
  BY <1>3, LimitFacts
<1> HIDE DEF n
<1>5. \A i \in 1..Len(queue) : queue[i] \in Events
  BY SeqFacts DEF LogInv
<1>6. /\ batch' \in Seq(Events) /\ Len(batch') = n
      /\ \A i \in 1..n : batch'[i] = queue[i]
  <2>1. \A i \in 1..n : queue[i] \in Events
    BY <1>3, <1>4, <1>5
  <2>2. /\ SubSeq(queue, 1, n) \in Seq(Events) /\ Len(SubSeq(queue, 1, n)) = n
        /\ \A i \in 1..n : SubSeq(queue, 1, n)[i] = queue[i]
    BY <1>4, <2>1, SubSeqProperties
  <2> QED
    BY <1>2, <2>2
<1>7. /\ queue' \in Seq(Events) /\ Len(queue') = Len(queue) - n
      /\ \A i \in 1..(Len(queue) - n) : queue'[i] = queue[n + i]
  <2>1. \A i \in (n + 1)..Len(queue) : queue[i] \in Events
    BY <1>3, <1>4, <1>5
  <2>2. /\ SubSeq(queue, n + 1, Len(queue)) \in Seq(Events)
        /\ Len(SubSeq(queue, n + 1, Len(queue)))
             = IF n + 1 <= Len(queue) THEN Len(queue) - (n + 1) + 1 ELSE 0
        /\ \A i \in 1..(Len(queue) - (n + 1) + 1) : SubSeq(queue, n + 1, Len(queue))[i] = queue[n + 1 + i - 1]
    BY <1>3, <1>4, <2>1, SubSeqProperties
  <2>3. Len(SubSeq(queue, n + 1, Len(queue))) = Len(queue) - n
    BY <1>3, <1>4, <2>2
  <2>4. \A i \in 1..(Len(queue) - n) : SubSeq(queue, n + 1, Len(queue))[i] = queue[n + i]
    <3>1. \A i \in 1..(Len(queue) - n) : n + 1 + i - 1 = n + i
      BY <1>3, <1>4
    <3>2. Len(queue) - (n + 1) + 1 = Len(queue) - n
      BY <1>3, <1>4
    <3> QED
      BY <2>2, <3>1, <3>2
  <2> QED
    BY <1>2, <2>2, <2>3, <2>4
<1>8. TypeOK'
  BY <1>1, <1>3, <1>4, <1>6, <1>7, LimitFacts DEF LogInv, TypeOK
<1>9. Gone' = Gone /\ Gone \in Nat /\ entered \in Nat
  BY <1>1, <1>3, <1>4, <1>6, <1>7 DEF Gone, LogInv, OrderInv, TypeOK
<1>10. \A i \in 1..Len(batch') : batch'[i] = Gone + i
  BY <1>3, <1>4, <1>6, <1>9 DEF LogInv, OrderInv
<1>11. \A i \in 1..Len(queue') : queue'[i] = Gone + Len(batch') + i
  BY <1>3, <1>4, <1>6, <1>7, <1>9 DEF LogInv, OrderInv
<1>12. OrderInv'
  BY <1>1, <1>9, <1>10, <1>11 DEF LogInv, OrderInv, ToSet
<1>13. CountInv'
  BY <1>1 DEF LogInv, CountInv, Appending
<1>14. batch' # <<>>
  BY <1>4, <1>6, EmptySeq
<1> QED
  BY <1>1, <1>8, <1>9, <1>12, <1>13, <1>14 DEF LogInv, RunInv

LEMMA PostFacts ==
    ASSUME LogInv, runner = "post"
    PROVE  /\ Len(batch) \in Nat /\ Len(batch) # 0 /\ Gone \in Nat
           /\ ToSet(batch) = (Gone + 1)..(Gone + Len(batch))
<1>1. Len(batch) \in Nat /\ Len(batch) # 0 /\ Gone \in Nat /\ DOMAIN batch = 1..Len(batch)
  BY SeqFacts, EmptySeq DEF LogInv, RunInv, OrderInv, TypeOK
<1>2. \A i \in 1..Len(batch) : batch[i] = Gone + i
  BY DEF LogInv, OrderInv
<1>3. \A x \in (Gone + 1)..(Gone + Len(batch)) : x - Gone \in 1..Len(batch) /\ batch[x - Gone] = x
  BY <1>1, <1>2
<1> QED
  BY <1>1, <1>2, <1>3 DEF ToSet

LEMMA LogAnswered == ASSUME LogInv, PostAnswered PROVE LogInv'
<1>1. UNCHANGED <<queue, wake, dropped, emitter, emitted, entered, overflowed, final, lost, closed, stop, before>>
      /\ runner = "post" /\ runner' = "flush"
  BY DEF PostAnswered, emitVars, endVars
<1>2. sent' = sent \o batch /\ batch' = <<>>
  BY DEF PostAnswered
<1>3. Len(batch) \in Nat /\ Len(batch) # 0 /\ Gone \in Nat
      /\ ToSet(batch) = (Gone + 1)..(Gone + Len(batch))
  BY <1>1, PostFacts
<1>4. batch' \in Seq(Events) /\ Len(batch') = 0
  BY <1>2, EmptySeq
<1>5. /\ sent' \in Seq(Events) /\ Len(sent') = Len(sent) + Len(batch) /\ Len(sent) \in Nat
      /\ \A i \in 1..Len(sent') : sent'[i] = IF i <= Len(sent) THEN sent[i] ELSE batch[i - Len(sent)]
  BY <1>2, ConcatProperties, LenProperties DEF LogInv, TypeOK
<1>6. TypeOK'
  BY <1>1, <1>4, <1>5, LimitFacts DEF LogInv, TypeOK
<1>7. Gone' = Gone + Len(batch)
  <2>1. Len(queue) \in Nat /\ entered \in Nat
    BY SeqFacts DEF LogInv, TypeOK
  <2>2. Gone = entered - Len(queue) - Len(batch) /\ Gone' = entered - Len(queue) - 0
    BY <1>1, <1>4 DEF Gone
  <2> QED
    BY <1>3, <2>1, <2>2
<1>8. DOMAIN sent = 1..Len(sent) /\ DOMAIN sent' = 1..Len(sent') /\ DOMAIN batch = 1..Len(batch)
  BY <1>5, LenProperties DEF LogInv, TypeOK
<1>9. ToSet(sent') = ToSet(sent) \cup ToSet(batch)
  <2>1. ASSUME NEW i \in 1..Len(sent') PROVE sent'[i] \in ToSet(sent) \cup ToSet(batch)
    <3>1. CASE i <= Len(sent)
      BY <1>5, <1>8, <3>1 DEF ToSet
    <3>2. CASE ~(i <= Len(sent))
      <4>1. i - Len(sent) \in 1..Len(batch)
        BY <1>3, <1>5, <3>2
      <4> QED
        BY <1>5, <1>8, <3>2, <4>1 DEF ToSet
    <3> QED
      BY <3>1, <3>2
  <2>2. ASSUME NEW i \in 1..Len(sent) PROVE sent[i] \in ToSet(sent')
    BY <1>3, <1>5, <1>8 DEF ToSet
  <2>3. ASSUME NEW i \in 1..Len(batch) PROVE batch[i] \in ToSet(sent')
    <3>1. Len(sent) + i \in 1..Len(sent') /\ ~(Len(sent) + i <= Len(sent)) /\ Len(sent) + i - Len(sent) = i
      BY <1>3, <1>5
    <3>2. sent'[Len(sent) + i] = batch[i]
      BY <1>5, <3>1
    <3> QED
      BY <1>8, <3>1, <3>2 DEF ToSet
  <2> QED
    BY <1>8, <2>1, <2>2, <2>3 DEF ToSet
<1>10. \A i \in 1..Len(sent) : sent[i] \in 1..Gone
  BY <1>8 DEF LogInv, OrderInv, ToSet
<1>11. \A i, j \in 1..Len(sent') : i < j => sent'[i] < sent'[j]
  <2>1. ASSUME NEW i \in 1..Len(sent'), NEW j \in 1..Len(sent'), i < j PROVE sent'[i] < sent'[j]
    <3>1. CASE j <= Len(sent)
      BY <1>5, <2>1, <3>1 DEF LogInv, OrderInv
    <3>2. CASE ~(j <= Len(sent))
      <4>1. j - Len(sent) \in 1..Len(batch) /\ sent'[j] = batch[j - Len(sent)]
        BY <1>3, <1>5, <3>2
      <4>2. sent'[j] = Gone + (j - Len(sent))
        BY <4>1 DEF LogInv, OrderInv
      <4>3. CASE i <= Len(sent)
        BY <1>3, <1>5, <1>10, <4>1, <4>2, <4>3
      <4>4. CASE ~(i <= Len(sent))
        <5>1. i - Len(sent) \in 1..Len(batch) /\ sent'[i] = batch[i - Len(sent)]
          BY <1>3, <1>5, <4>4
        <5>2. sent'[i] = Gone + (i - Len(sent))
          BY <5>1 DEF LogInv, OrderInv
        <5> QED
          BY <1>3, <1>5, <2>1, <4>2, <5>2
      <4> QED
        BY <4>3, <4>4
    <3> QED
      BY <3>1, <3>2
  <2> QED
    BY <2>1
<1>12. 1..Gone' = ToSet(sent') \cup lost'
  BY <1>1, <1>3, <1>7, <1>9 DEF LogInv, OrderInv
<1>13. OrderInv'
  <2>1. \A i \in 1..Len(queue') : queue'[i] = Gone' + Len(batch') + i
    BY <1>1, <1>3, <1>4, <1>7 DEF LogInv, OrderInv
  <2>2. Gone' \in Nat /\ 1..Len(batch') = {}
    BY <1>3, <1>4, <1>7
  <2> QED
    BY <1>11, <1>12, <2>1, <2>2 DEF OrderInv
<1>14. CountInv'
  BY <1>1 DEF LogInv, CountInv, Appending
<1> QED
  BY <1>1, <1>2, <1>6, <1>13, <1>14 DEF LogInv, RunInv

LEMMA LogFails == ASSUME LogInv, PostFails PROVE LogInv'
<1>1. UNCHANGED <<queue, wake, emitter, emitted, entered, overflowed, final, sent, closed, stop, before>>
      /\ runner = "post" /\ runner' \in {"done", "loop"}
      /\ dropped' = dropped + Len(batch) /\ lost' = lost \cup ToSet(batch) /\ batch' = <<>>
  BY DEF PostFails, EndFlush, emitVars, endVars, ToSet
<1>2. Len(batch) \in Nat /\ Len(batch) # 0 /\ Gone \in Nat
      /\ ToSet(batch) = (Gone + 1)..(Gone + Len(batch))
  BY <1>1, PostFacts
<1>3. batch' \in Seq(Events) /\ Len(batch') = 0
  BY <1>1, EmptySeq
<1>4. ToSet(batch) \subseteq Events
  BY SeqFacts DEF LogInv, ToSet
<1>5. TypeOK'
  <2>1. dropped' \in Nat
    BY <1>1, <1>2 DEF LogInv, TypeOK
  <2> QED
    BY <1>1, <1>3, <1>4, <2>1, LimitFacts DEF LogInv, TypeOK
<1>6. Gone' = Gone + Len(batch)
  <2>1. Len(queue) \in Nat /\ entered \in Nat
    BY SeqFacts DEF LogInv, TypeOK
  <2>2. Gone = entered - Len(queue) - Len(batch) /\ Gone' = entered - Len(queue) - 0
    BY <1>1, <1>3 DEF Gone
  <2> QED
    BY <1>2, <2>1, <2>2
<1>7. OrderInv'
  <2>1. \A i \in 1..Len(queue') : queue'[i] = Gone' + Len(batch') + i
    BY <1>1, <1>2, <1>3, <1>6 DEF LogInv, OrderInv
  <2>2. Gone' \in Nat /\ 1..Len(batch') = {}
    BY <1>2, <1>3, <1>6
  <2>3. 1..Gone' = ToSet(sent') \cup lost'
    BY <1>1, <1>2, <1>6 DEF LogInv, OrderInv
  <2> QED
    BY <1>1, <2>1, <2>2, <2>3 DEF LogInv, OrderInv
<1>8. IsFiniteSet(lost') /\ Cardinality(lost') = Cardinality(lost) + Len(batch)
  <2>1. lost \subseteq 1..Gone
    BY DEF LogInv, OrderInv
  <2>2. lost \cap ToSet(batch) = {}
    BY <1>2, <2>1
  <2>3. IsFiniteSet(ToSet(batch)) /\ Cardinality(ToSet(batch)) = Len(batch)
    <3>1. Gone + 1 \in Int /\ Gone + Len(batch) \in Int /\ ~(Gone + 1 > Gone + Len(batch))
          /\ (Gone + Len(batch)) - (Gone + 1) + 1 = Len(batch)
      BY <1>2
    <3> QED
      BY <1>2, <3>1, FS_Interval
  <2>4. IsFiniteSet(lost) /\ Cardinality(lost) \in Nat
    BY FS_CardinalityType DEF LogInv, CountInv
  <2>5. Cardinality(lost \cap ToSet(batch)) = 0
    BY <2>2, FS_EmptySet
  <2>6. /\ IsFiniteSet(lost \cup ToSet(batch))
        /\ Cardinality(lost \cup ToSet(batch))
             = Cardinality(lost) + Cardinality(ToSet(batch)) - Cardinality(lost \cap ToSet(batch))
    BY <2>3, <2>4, FS_Union
  <2>7. lost' = lost \cup ToSet(batch)
    BY <1>1
  <2>8. Cardinality(ToSet(batch)) \in Nat /\ Cardinality(ToSet(batch)) = Len(batch)
    BY <2>3, FS_CardinalityType
  <2>9. Cardinality(lost \cup ToSet(batch)) = Cardinality(lost) + Len(batch)
    BY <2>4, <2>5, <2>6, <2>8
  <2> QED
    BY <2>6, <2>7, <2>9
<1>9. CountInv'
  <2>1. dropped' = overflowed + Cardinality(lost')
    <3>1. dropped = overflowed + Cardinality(lost) /\ Cardinality(lost) \in Nat /\ overflowed \in Nat
      BY FS_CardinalityType DEF LogInv, CountInv, TypeOK
    <3> QED
      BY <1>1, <1>2, <1>8, <3>1
  <2> QED
    <3>1. Appending' = Appending
      BY <1>1 DEF Appending
    <3> QED
      BY <1>1, <1>8, <2>1, <3>1 DEF LogInv, CountInv
<1> QED
  BY <1>1, <1>5, <1>7, <1>9 DEF LogInv, RunInv

LEMMA LogSteps == LogInv /\ [Next]_vars => LogInv'
<1> SUFFICES ASSUME LogInv, [Next]_vars PROVE LogInv'
  OBVIOUS
<1>1. CASE UNCHANGED vars
  BY <1>1, LogKept DEF vars, LogInv, TypeOK, RunInv
<1> QED
  BY <1>1, LogBegin, LogDrop, LogEnqueue, LogQuiet, LogTake, LogAnswered, LogFails DEF Next, Emit, Flush

LEMMA LogInvariant == Spec => []LogInv
  BY LogInit, LogSteps, PTL DEF Spec
-----------------------------------------------------------------------------
(* Waking and closing.                                                     *)

WakeInv ==
    Len(queue) >= BatchMax /\ runner \in {"select", "loop"} /\ lost = {} =>
        wake \/ \E e \in Emitters : emitter[e] = "wake"

(* Before the last flush the log is closed, and the last flush leaves      *)
(* nothing that entered before it, unless a post fails.                    *)
CloseInv ==
    /\ stop => closed
    /\ final => stop
    /\ runner = "done" => final
    /\ closed => before <= entered
    /\ runner = "done" /\ lost = {} => before <= Gone

LEMMA WakeInit == Init => WakeInv
<1> SUFFICES ASSUME Init PROVE WakeInv
  OBVIOUS
<1>1. \A s : s = <<>> => Len(s) = 0
  BY EmptySeq
<1>2. queue = <<>>
  BY DEF Init
<1>3. Len(queue) = 0
  BY <1>1, <1>2
<1> QED
  BY <1>3, LimitFacts DEF WakeInv

LEMMA WakeSteps == LogInv /\ WakeInv /\ [Next]_vars => WakeInv'
<1> SUFFICES ASSUME LogInv, WakeInv, [Next]_vars PROVE WakeInv'
  OBVIOUS
<1>1. ASSUME NEW e \in Emitters, BeginEmit(e) \/ DropWhenFull(e) PROVE WakeInv'
  <2>1. /\ UNCHANGED <<queue, runner, lost, wake>>
        /\ \A x \in Emitters : emitter[x] = "wake" => emitter'[x] = "wake"
    BY <1>1 DEF BeginEmit, DropWhenFull, Goto, runVars, LogInv, TypeOK
  <2> QED
    BY <2>1 DEF WakeInv
<1>2. ASSUME NEW e \in Emitters, Enqueue(e) PROVE WakeInv'
  <2>1. Len(queue') >= BatchMax => emitter'[e] = "wake"
    BY <1>2 DEF Enqueue, Goto, LogInv, TypeOK
  <2> QED
    BY <2>1 DEF WakeInv
<1>3. ASSUME NEW e \in Emitters, Wake(e) PROVE WakeInv'
  BY <1>3 DEF Wake, WakeInv
<1>4. CASE Tick \/ SeeWake \/ SeeStop \/ TakeBatch \/ PostAnswered
  <2>1. runner' \in {"flush", "post"}
    BY <1>4 DEF Tick, SeeWake, SeeStop, BeginFlush, TakeBatch, PostAnswered
  <2> QED
    BY <2>1 DEF WakeInv
<1>5. CASE QueueEmpty
  <2>1. \A s : s = <<>> => Len(s) = 0
    BY EmptySeq
  <2>2. Len(queue') = 0
    BY <1>5, <2>1 DEF QueueEmpty
  <2> QED
    BY <2>2, LimitFacts DEF WakeInv
<1>6. CASE PostFails
  <2>1. lost' = lost \cup ToSet(batch) /\ runner = "post"
    BY <1>6 DEF PostFails, ToSet
  <2>2. Gone + 1 \in ToSet(batch)
    BY <2>1, PostFacts
  <2> QED
    BY <2>1, <2>2 DEF WakeInv
<1>7. CASE Again \/ CloseLog \/ CloseStop \/ UNCHANGED vars
  <2>1. /\ UNCHANGED <<queue, lost, wake, emitter>>
        /\ runner' = runner \/ (runner = "loop" /\ runner' = "select")
    BY <1>7 DEF Again, CloseLog, CloseStop, vars, emitVars, runVars
  <2> QED
    BY <2>1 DEF WakeInv
<1> QED
  BY <1>1, <1>2, <1>3, <1>4, <1>5, <1>6, <1>7 DEF Next, Emit, Flush

LEMMA CloseInit == Init => CloseInv
  BY DEF Init, CloseInv

(* What leaves the queue is gone once it is answered or lost.              *)
LEMMA CloseSteps == LogInv /\ LogInv' /\ CloseInv /\ [Next]_vars => CloseInv'
<1> SUFFICES ASSUME LogInv, LogInv', CloseInv, [Next]_vars PROVE CloseInv'
  OBVIOUS
<1>1. entered \in Nat /\ before \in Nat /\ Len(queue) \in Nat /\ Len(batch) \in Nat
  BY SeqFacts DEF LogInv, TypeOK
<1>2. ASSUME NEW e \in Emitters, BeginEmit(e) \/ DropWhenFull(e) \/ Wake(e) PROVE CloseInv'
  BY <1>2 DEF BeginEmit, DropWhenFull, Wake, runVars, endVars, CloseInv, Gone
<1>3. ASSUME NEW e \in Emitters, Enqueue(e) PROVE CloseInv'
  <2>1. /\ UNCHANGED <<runner, batch, final, lost, closed, stop, before>> /\ entered' = entered + 1
        /\ queue' = Append(queue, entered + 1)
    BY <1>3 DEF Enqueue, runVars, endVars
  <2>2. Len(queue') = Len(queue) + 1
    BY <2>1, <1>1, AppendProperties DEF LogInv, TypeOK
  <2>3. Gone' = Gone
    BY <1>1, <2>1, <2>2 DEF Gone
  <2> QED
    BY <1>1, <2>1, <2>3 DEF CloseInv
<1>4. CASE Tick \/ SeeWake \/ SeeStop \/ Again
  BY <1>4 DEF Tick, SeeWake, SeeStop, BeginFlush, Again, emitVars, endVars, CloseInv
<1>5. CASE TakeBatch \/ PostAnswered
  BY <1>5 DEF TakeBatch, PostAnswered, emitVars, endVars, CloseInv
<1>6. CASE QueueEmpty
  <2>1. UNCHANGED <<queue, batch, final, lost, closed, stop, before, entered>> /\ queue = <<>>
        /\ runner = "flush" /\ (runner' = "done" => final)
    BY <1>6 DEF QueueEmpty, EndFlush, emitVars, endVars
  <2>2. \A s : s = <<>> => Len(s) = 0
    BY EmptySeq
  <2>3. Len(queue) = 0 /\ Len(batch) = 0
    BY <2>1, <2>2 DEF LogInv, RunInv
  <2>4. Gone' = entered
    BY <1>1, <2>1, <2>3 DEF Gone
  <2> QED
    BY <1>1, <2>1, <2>4 DEF CloseInv
<1>7. CASE PostFails
  <2>1. lost' = lost \cup ToSet(batch) /\ runner = "post" /\ UNCHANGED <<final, closed, stop, before, entered>>
        /\ (runner' = "done" => final)
    BY <1>7 DEF PostFails, EndFlush, ToSet, emitVars, endVars
  <2>2. Gone + 1 \in ToSet(batch)
    BY <2>1, PostFacts
  <2> QED
    BY <2>1, <2>2 DEF CloseInv
<1>8. CASE CloseLog
  BY <1>1, <1>8 DEF CloseLog, emitVars, runVars, CloseInv
<1>9. CASE CloseStop
  BY <1>9 DEF CloseStop, emitVars, runVars, CloseInv, Gone
<1>10. CASE UNCHANGED vars
  BY <1>10 DEF vars, CloseInv, Gone
<1> QED
  BY <1>2, <1>3, <1>4, <1>5, <1>6, <1>7, <1>8, <1>9, <1>10 DEF Next, Emit, Flush
-----------------------------------------------------------------------------
(* Every variable keeps its type: in particular neither the queue nor a    *)
(* batch outgrows its limit (emit, flush).                                 *)
THEOREM TypeCorrect == Spec => []TypeOK
<1>1. LogInv => TypeOK
  BY DEF LogInv
<1> QED
  BY <1>1, LogInvariant, PTL

(* Core gets the events in the order they were queued, none twice: what    *)
(* was posted, is being posted and is queued only ever increases (flush).  *)
THEOREM SentInOrderAlways == Spec => []SentInOrder
<1>1. LogInv => SentInOrder
  <2> SUFFICES ASSUME LogInv PROVE SentInOrder
    OBVIOUS
  <2> DEFINE all == (sent \o batch) \o queue
             b   == Gone + Len(batch)
             s   == Len(sent)
  <2>1. /\ Gone \in Nat /\ Len(batch) \in Nat /\ Len(queue) \in Nat /\ Len(sent) \in Nat
        /\ sent \in Seq(Events) /\ batch \in Seq(Events) /\ queue \in Seq(Events)
        /\ DOMAIN sent = 1..Len(sent)
    BY SeqFacts DEF LogInv, TypeOK, OrderInv
  <2>2. /\ sent \o batch \in Seq(Events) /\ Len(sent \o batch) = s + Len(batch)
        /\ \A i \in 1..(s + Len(batch)) :
              (sent \o batch)[i] = IF i <= s THEN sent[i] ELSE batch[i - s]
    BY <2>1, ConcatProperties
  <2>3. /\ all \in Seq(Events) /\ Len(all) = s + Len(batch) + Len(queue)
        /\ \A i \in 1..(s + Len(batch) + Len(queue)) :
              all[i] = IF i <= s + Len(batch) THEN (sent \o batch)[i]
                                             ELSE queue[i - (s + Len(batch))]
    BY <2>1, <2>2, ConcatProperties
  <2>4. DOMAIN all = 1..(s + Len(batch) + Len(queue))
    BY <2>3, LenProperties
  <2>5. \A i \in 1..Len(batch) : batch[i] = Gone + i
    BY DEF LogInv, OrderInv
  <2>6. \A i \in 1..Len(queue) : queue[i] = b + i
    BY DEF LogInv, OrderInv
  <2>7. /\ \A i \in 1..s : sent[i] \in 1..Gone
        /\ \A i, j \in 1..s : i < j => sent[i] < sent[j]
    BY <2>1 DEF LogInv, OrderInv, ToSet
  <2>8. b \in Nat /\ s \in Nat /\ b = Gone + Len(batch)
    BY <2>1
  <2> HIDE DEF all, b, s
  <2>9. \A i \in DOMAIN all :
           \/ i \in 1..s /\ all[i] = sent[i]
           \/ i > s /\ i \in Nat /\ all[i] = Gone + (i - s)
    <3> SUFFICES ASSUME NEW i \in DOMAIN all
                 PROVE  \/ i \in 1..s /\ all[i] = sent[i]
                        \/ i > s /\ i \in Nat /\ all[i] = Gone + (i - s)
      OBVIOUS
    <3>1. CASE i <= s
      BY <2>1, <2>2, <2>3, <2>4, <2>8, <3>1
    <3>2. CASE i > s /\ i <= s + Len(batch)
      <4>1. i - s \in 1..Len(batch) /\ all[i] = batch[i - s]
        BY <2>1, <2>2, <2>3, <2>4, <2>8, <3>2
      <4> QED
        BY <2>4, <2>5, <2>8, <3>2, <4>1
    <3>3. CASE i > s + Len(batch)
      <4>1. i - (s + Len(batch)) \in 1..Len(queue) /\ all[i] = queue[i - (s + Len(batch))]
        BY <2>1, <2>3, <2>4, <2>8, <3>3
      <4> QED
        BY <2>1, <2>4, <2>6, <2>8, <3>3, <4>1
    <3> QED
      BY <2>1, <2>4, <2>8, <3>1, <3>2, <3>3
  <2>10. \A i, j \in DOMAIN all : i < j => all[i] < all[j]
    <3> SUFFICES ASSUME NEW i \in DOMAIN all, NEW j \in DOMAIN all, i < j
                 PROVE  all[i] < all[j]
      OBVIOUS
    <3>1. CASE j \in 1..s
      BY <2>4, <2>7, <2>8, <2>9, <3>1
    <3>2. CASE i \in 1..s /\ j > s
      <4>1. all[i] \in 1..Gone /\ all[j] = Gone + (j - s) /\ j \in Nat
        BY <2>7, <2>8, <2>9, <3>2
      <4> QED
        BY <2>1, <2>8, <3>2, <4>1
    <3>3. CASE i > s
      <4>1. i \in Nat /\ j \in Nat /\ all[i] = Gone + (i - s) /\ all[j] = Gone + (j - s)
        BY <2>4, <2>8, <2>9, <3>3
      <4> QED
        BY <2>1, <2>8, <4>1
    <3> QED
      BY <2>1, <2>4, <2>8, <3>1, <3>2, <3>3
  <2> QED
    BY <2>10 DEF SentInOrder, all
<1> QED
  BY <1>1, LogInvariant, PTL

(* No event disappears, and Dropped counts exactly what did not reach      *)
(* core, whatever the limits and the number of emitters (emit, flush).     *)
THEOREM AllAccountedForAlways == Spec => []AllAccountedFor
<1>1. LogInv => AllAccountedFor
  <2> SUFFICES ASSUME LogInv PROVE AllAccountedFor
    OBVIOUS
  <2>1. entered \in Nat /\ Len(queue) \in Nat /\ Len(batch) \in Nat /\ Gone \in Nat
        /\ DOMAIN queue = 1..Len(queue) /\ DOMAIN batch = 1..Len(batch)
    BY SeqFacts DEF LogInv, TypeOK, OrderInv
  <2>2. entered = Gone + Len(batch) + Len(queue)
    BY <2>1 DEF Gone
  <2>3. ToSet(batch) = (Gone + 1)..(Gone + Len(batch))
    <3>1. \A i \in 1..Len(batch) : batch[i] = Gone + i
      BY DEF LogInv, OrderInv
    <3>2. \A x \in (Gone + 1)..(Gone + Len(batch)) : x - Gone \in 1..Len(batch) /\ batch[x - Gone] = x
      BY <2>1, <3>1
    <3> QED
      BY <2>1, <3>1, <3>2 DEF ToSet
  <2>4. ToSet(queue) = (Gone + Len(batch) + 1)..entered
    <3> DEFINE b == Gone + Len(batch)
    <3>1. b \in Nat /\ entered = b + Len(queue)
      BY <2>1, <2>2
    <3>2. \A i \in 1..Len(queue) : queue[i] = b + i
      BY DEF LogInv, OrderInv
    <3> HIDE DEF b
    <3>3. \A x \in (b + 1)..entered : x - b \in 1..Len(queue) /\ queue[x - b] = x
      BY <2>1, <3>1, <3>2
    <3>4. ToSet(queue) = (b + 1)..entered
      BY <2>1, <3>1, <3>2, <3>3 DEF ToSet
    <3> QED
      BY <3>4 DEF b
  <2>5. 1..entered = (1..Gone) \cup ((Gone + 1)..(Gone + Len(batch))) \cup ((Gone + Len(batch) + 1)..entered)
    BY <2>1, <2>2
  <2>6. 1..Gone = ToSet(sent) \cup lost /\ dropped = overflowed + Cardinality(lost)
    BY DEF LogInv, OrderInv, CountInv
  <2> QED
    BY <2>3, <2>4, <2>5, <2>6 DEF AllAccountedFor
<1> QED
  BY <1>1, LogInvariant, PTL

(* A full batch does not wait for the tick unless a post has failed (emit, *)
(* run).                                                                   *)
THEOREM FullBatchWakesAlways == Spec => []FullBatchWakes
<1>1. WakeInv => FullBatchWakes
  BY DEF WakeInv, FullBatchWakes
<1> QED
  BY <1>1, LogInvariant, WakeInit, WakeSteps, PTL DEF Spec

(* When run has ended and no post has failed, what was queued when Close   *)
(* was called has been sent (Close, run, flush).                           *)
THEOREM CloseSendsQueuedAlways == Spec => []CloseSendsQueued
<1>1. LogInv /\ CloseInv => CloseSendsQueued
  BY DEF LogInv, TypeOK, OrderInv, CloseInv, CloseSendsQueued
<1> QED
  BY <1>1, LogInvariant, CloseInit, CloseSteps, PTL DEF Spec
-----------------------------------------------------------------------------
(* The refinement of BoundedLog.                                           *)

offeringBar == Cardinality(Appending)
logBar == <<~closed, offeringBar, entered, Gone, sent, dropped, runner = "done">>

LEMMA SameLog ==
    ASSUME UNCHANGED <<closed, emitter, entered, queue, batch, sent, dropped>>,
           (runner = "done") = (runner' = "done")
    PROVE  UNCHANGED logBar
<1>1. UNCHANGED <<offeringBar, Gone>>
  BY DEF offeringBar, Appending, Gone
<1> QED
  BY <1>1 DEF logBar

LEMMA BoundedInit == Init => Log!Init
<1> SUFFICES ASSUME Init PROVE Log!Init
  OBVIOUS
<1>1. LogInv
  BY LogInit
<1>2. Appending = {} /\ \A s : s = <<>> => Len(s) = 0
  BY EmptySeq DEF Init, Appending
<1>3. Len(queue) = 0 /\ Len(batch) = 0
  BY <1>2 DEF Init
<1>4. Cardinality(Appending) = 0 /\ Gone = 0
  <2>1. Cardinality(Appending) = 0
    BY <1>2, FS_EmptySet
  <2>2. entered = 0
    BY DEF Init
  <2> QED
    BY <1>3, <2>1, <2>2 DEF Gone
<1>5. /\ Cardinality({e \in Emitters : emitter[e] = "append"}) = 0
      /\ entered - Len(queue) - Len(batch) = 0
  BY <1>4 DEF Appending, Gone
<1> QED
  BY <1>5 DEF Init, Log!Init

(* emit, seen from outside.                                                *)
LEMMA BoundedEmit ==
    ASSUME LogInv, NEW e \in Emitters, BeginEmit(e) \/ Emit(e)
    PROVE  Log!Offer \/ Log!Enter \/ Log!Overflow \/ UNCHANGED logBar
<1>1. /\ UNCHANGED <<closed, batch, sent, runner>>
      /\ entered \in Nat /\ Len(queue) \in Nat /\ Len(batch) \in Nat /\ Gone \in Nat
  BY SeqFacts DEF BeginEmit, Emit, DropWhenFull, Enqueue, Wake, runVars, endVars, LogInv, TypeOK,
                  OrderInv
<1>2. CASE BeginEmit(e)
  <2>1. offeringBar' = offeringBar + 1
    BY <1>2, BeginsAppending DEF BeginEmit, offeringBar
  <2>2. UNCHANGED <<queue, entered, dropped>> /\ ~closed
    BY <1>2 DEF BeginEmit
  <2> QED
    BY <1>1, <2>1, <2>2 DEF Log!Offer, offeringBar, Appending
<1>3. CASE DropWhenFull(e)
  <2>1. offeringBar' = offeringBar - 1 /\ offeringBar > 0
    BY <1>3, EndsAppending DEF DropWhenFull, offeringBar
  <2>2. UNCHANGED <<queue, entered>> /\ dropped' = dropped + 1 /\ entered >= Gone + QueueMax
    BY <1>1, <1>3, LimitFacts DEF DropWhenFull, Gone
  <2> QED
    BY <1>1, <2>1, <2>2 DEF Log!Overflow, offeringBar, Appending, Gone
<1>4. CASE Enqueue(e)
  <2>1. PICK place \in {"idle", "wake"} : Goto(e, place)
    BY <1>4 DEF Enqueue
  <2>2. offeringBar' = offeringBar - 1 /\ offeringBar > 0
    BY <1>4, <2>1, EndsAppending DEF Enqueue, offeringBar
  <2>3. UNCHANGED dropped /\ entered' = entered + 1 /\ queue' = Append(queue, entered + 1)
        /\ Len(queue) < QueueMax
    BY <1>4 DEF Enqueue
  <2>4. Len(queue') = Len(queue) + 1
    BY <2>3, AppendProperties DEF LogInv, TypeOK
  <2>5. Gone' = Gone
    BY <1>1, <2>3, <2>4 DEF Gone
  <2>6. entered < Gone + (QueueMax + BatchMax)
    BY <1>1, <2>3, LimitFacts DEF Gone, LogInv, TypeOK
  <2> QED
    BY <1>1, <2>2, <2>3, <2>5, <2>6 DEF Log!Enter, offeringBar, Appending, Gone
<1>5. CASE Wake(e)
  <2>1. Appending' = Appending /\ UNCHANGED <<queue, entered, dropped>>
    BY <1>5 DEF Wake, Goto, Appending, LogInv, TypeOK
  <2> QED
    BY <1>1, <2>1 DEF logBar, offeringBar, Gone
<1> QED
  BY <1>2, <1>3, <1>4, <1>5 DEF Emit

(* The batch posted is the oldest events inside, as they entered.          *)
LEMMA BatchIsOldest ==
    ASSUME LogInv, runner = "post"
    PROVE  /\ Len(batch) \in 1..BatchMax
           /\ batch = [i \in 1..Len(batch) |-> Gone + i]
<1> DEFINE n == Len(batch)
           oldest == [i \in 1..n |-> Gone + i]
<1>1. n \in Nat /\ n # 0 /\ Gone \in Nat /\ n <= BatchMax
  BY PostFacts DEF LogInv, TypeOK
<1>2. oldest \in [1..n -> Nat]
  BY <1>1
<1>3. oldest \in Seq(Nat) /\ Len(oldest) = n
  <2> HIDE DEF oldest
  <2>1. oldest \in Seq(Nat)
    BY <1>1, <1>2, SeqDef
  <2> QED
    BY <1>1, <1>2, <2>1, LenProperties
<1>4. batch \in Seq(Nat)
  <2>1. Events \subseteq Nat
    BY DEF Events
  <2> QED
    BY <2>1, SeqMonotonic DEF LogInv, TypeOK
<1>5. \A i \in 1..n : batch[i] = oldest[i]
  BY DEF LogInv, OrderInv
<1>6. batch = oldest
  <2> HIDE DEF oldest
  <2> QED
    BY <1>3, <1>4, <1>5, SeqEqual
<1> QED
  BY <1>1, <1>6, LimitFacts

(* A post, answered or not, takes the batch out of the log.                *)
LEMMA BoundedPost ==
    ASSUME LogInv, CloseInv, PostAnswered \/ PostFails
    PROVE  \E n \in 1..BatchMax : Log!Deliver(n) \/ Log!Lose(n)
<1> DEFINE n == Len(batch)
<1>1. /\ n \in 1..BatchMax /\ batch = [i \in 1..n |-> Gone + i]
      /\ runner = "post" /\ batch' = <<>>
      /\ UNCHANGED <<closed, emitter, entered, queue>>
  BY BatchIsOldest DEF PostAnswered, PostFails, emitVars, endVars
<1>2. Len(batch') = 0 /\ Len(queue) \in Nat /\ entered \in Nat /\ n \in Nat
  BY <1>1, EmptySeq, SeqFacts DEF LogInv, TypeOK
<1>3. Gone' = Gone + n /\ Gone + n <= entered
  BY <1>1, <1>2 DEF Gone
<1>4. UNCHANGED <<~closed, offeringBar, entered>>
  BY <1>1 DEF offeringBar, Appending
<1>5. CASE PostAnswered
  <2>1. sent' = sent \o batch /\ runner' = "flush" /\ UNCHANGED dropped
    BY <1>5 DEF PostAnswered
  <2>2. Log!Deliver(n)
    BY <1>1, <1>3, <1>4, <2>1 DEF Log!Deliver, Log!Leave, offeringBar, Appending, Gone
  <2> QED
    BY <1>1, <2>2
<1>6. CASE PostFails
  <2>1. dropped' = dropped + n /\ UNCHANGED sent
        /\ (runner' = "done" \/ runner' = "loop") /\ (runner' = "done" => closed)
    BY <1>6 DEF PostFails, EndFlush, CloseInv
  <2>2. Log!Lose(n)
    BY <1>1, <1>3, <1>4, <2>1 DEF Log!Lose, Log!Leave, offeringBar, Appending, Gone, LogInv, TypeOK
  <2> QED
    BY <1>1, <2>2
<1> QED
  BY <1>5, <1>6

LEMMA BoundedSteps == LogInv /\ LogInv' /\ CloseInv /\ [Next]_vars => [Log!Next]_logBar
<1> SUFFICES ASSUME LogInv, LogInv', CloseInv, [Next]_vars PROVE [Log!Next]_logBar
  OBVIOUS
<1>1. ASSUME NEW e \in Emitters, BeginEmit(e) \/ Emit(e) PROVE [Log!Next]_logBar
  BY <1>1, BoundedEmit DEF Log!Next
<1>2. CASE PostAnswered \/ PostFails
  BY <1>2, BoundedPost DEF Log!Next
<1>3. CASE Tick \/ SeeWake \/ SeeStop \/ Again
  <2>1. UNCHANGED <<closed, emitter, entered, queue, batch, sent, dropped>>
        /\ runner # "done" /\ runner' # "done"
    BY <1>3 DEF Tick, SeeWake, SeeStop, BeginFlush, Again, emitVars, endVars
  <2> QED
    BY <2>1, SameLog
<1>4. CASE TakeBatch
  <2>1. UNCHANGED <<closed, emitter, entered, sent, dropped>> /\ runner # "done" /\ runner' # "done"
    BY <1>4 DEF TakeBatch, emitVars, endVars
  <2>2. Gone' = Gone
    BY <1>4, LogTake
  <2> QED
    BY <2>1, <2>2 DEF logBar, offeringBar, Appending
<1>5. CASE QueueEmpty
  <2>1. /\ UNCHANGED <<closed, emitter, entered, queue, batch, sent, dropped>>
        /\ queue = <<>> /\ batch = <<>> /\ runner = "flush"
        /\ (runner' = "done" \/ runner' = "loop") /\ (runner' = "done" => closed)
    BY <1>5 DEF QueueEmpty, EndFlush, emitVars, endVars, LogInv, RunInv, CloseInv
  <2>2. Gone = entered /\ Gone' = Gone
    <3>1. \A s : s = <<>> => Len(s) = 0
      BY EmptySeq
    <3>2. entered \in Nat /\ Len(queue) = 0 /\ Len(batch) = 0
      BY <2>1, <3>1 DEF LogInv, TypeOK
    <3> QED
      BY <2>1, <3>2 DEF Gone
  <2>3. CASE runner' = "loop"
    BY <2>1, <2>2, <2>3 DEF logBar, offeringBar, Appending
  <2>4. CASE runner' = "done"
    <3>1. Log!End
      BY <2>1, <2>2, <2>4 DEF Log!End, Gone
    <3> QED
      BY <3>1 DEF Log!Next
  <2> QED
    BY <2>1, <2>3, <2>4
<1>6. CASE CloseLog
  <2>1. Log!Close
    BY <1>6 DEF CloseLog, emitVars, runVars, Log!Close
  <2> QED
    BY <2>1 DEF Log!Next
<1>7. CASE CloseStop \/ UNCHANGED vars
  <2>1. UNCHANGED <<closed, emitter, entered, queue, batch, sent, dropped, runner>>
    BY <1>7 DEF CloseStop, vars, emitVars, runVars
  <2> QED
    BY <2>1, SameLog
<1> QED
  BY <1>1, <1>2, <1>3, <1>4, <1>5, <1>6, <1>7 DEF Next, Flush

(* To the driver and to core the event log is a BoundedLog: what it has    *)
(* room for is sent in order or counted as dropped, and an orderly end     *)
(* leaves nothing inside (emit, run, flush, Close).                        *)
THEOREM KeepsLogAlways == Spec => KeepsLog
<1>1. Init => Log!Init
  BY BoundedInit
<1>2. LogInv /\ LogInv' /\ CloseInv /\ [Next]_vars => [Log!Next]_logBar
  BY BoundedSteps
<1>3. Spec => []CloseInv
  BY LogInvariant, CloseInit, CloseSteps, PTL DEF Spec
<1> QED
  BY <1>1, <1>2, <1>3, LogInvariant, PTL
     DEF Spec, KeepsLog, Log!Spec, Log!logVars, logBar, offeringBar, Appending, Gone
=============================================================================
