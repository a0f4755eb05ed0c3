--------------------------- MODULE BackgroundProofs ---------------------------
(***************************************************************************)
(* What runs beside or below the requests, for every value of the          *)
(* constants:                                                              *)
(*   - the drop counter and the delivery log of the event sink account for *)
(*     every event, and the sink implements Delivery;                      *)
(*   - a call of the NER pool is answered with the verdict on its own      *)
(*     text, and that is what the cache keeps;                             *)
(*   - the spans found in the windows of a text are whole, and do not      *)
(*     compete;                                                            *)
(*   - a trace entry can be read until it is older than the retention, and *)
(*     is in one file.                                                     *)
(* The four share no state; each has an invariant of its own.              *)
(***************************************************************************)
EXTENDS EventSink, NerPool, NerWindows, TraceWriter, FiniteSetTheorems, SequenceTheorems,
        WellFoundedInduction, TLAPS

-----------------------------------------------------------------------------
(* The event sink *)

Held == IF result = {} THEN posting ELSE {}
Settled == SinceBoot({"delivered", "failed"})

\* The counter, which emit and the worker raise at different moments.
DropPart == dropped + Cardinality(Counting) = Cardinality(SinceBoot({"failed", "lost"}))

\* What is pending waits in the channel, in order, behind what the worker holds.
QueuePart ==
    /\ {e \in Emitted : fate[e] = "pending"} = Held \cup Range(queue)
    /\ \A i, j \in DOMAIN queue : i < j => queue[i] < queue[j]
    /\ \A e \in posting, i \in DOMAIN queue : e < queue[i]
    /\ \A e \in Emitted : fate[e] = "pending" => e > boot
    /\ \A e \in posting : e > boot

\* The outcome the worker is about to record is the event's.
KnownPart == \A e \in posting : result # {} =>
    fate[e] = IF The(result) THEN "delivered" ELSE "failed"

\* What is settled and recorded is older than what the worker holds or will hold.
OrderPart == \A d \in Settled \ posting, e \in posting \cup Range(queue) : d < e

\* A POST is on the wire or has arrived; only the worker's event, or one it has
\* given up, may be on the wire.
WirePart ==
    /\ \A e \in wire :
          e \notin Range(arrived) /\ (fate[e] = "failed" \/ (e \in posting /\ fate[e] = "pending"))
    /\ \A e \in Range(arrived) : fate[e] \in {"failed", "delivered"} \/ e \in posting

SinkIInv == SinkTypeOK /\ DropPart /\ QueuePart /\ KnownPart /\ OrderPart /\ WirePart /\ LogComplete

LEMMA TheOfOne == ASSUME NEW x PROVE The({x}) = x
  BY DEF The

\* The events are numbers, and so is what the variables hold of them.
LEMMA SinkNumbers ==
    ASSUME SinkTypeOK
    PROVE  /\ Emitted = 1 .. Len(fate) /\ Len(fate) \in Nat /\ IsFiniteSet(Emitted)
           /\ \A e \in Emitted : e \in Nat /\ fate[e] \in Fates
           /\ DOMAIN queue = 1 .. Len(queue) /\ Len(queue) \in Nat
           /\ \A i \in DOMAIN queue : queue[i] \in Emitted
           /\ Range(queue) \subseteq Emitted
           /\ DOMAIN log = 1 .. Len(log) /\ Len(log) \in Nat
           /\ \A i \in DOMAIN log : log[i].event \in Nat /\ log[i].ok \in BOOLEAN
           /\ boot \in Nat /\ boot <= Len(fate) /\ Range(arrived) \subseteq Emitted
<1>1. Emitted = 1 .. Len(fate) /\ Len(fate) \in Nat
  BY DEF SinkTypeOK, Emitted
<1>2. IsFiniteSet(Emitted)
  BY <1>1, FS_Interval
<1>3. \A e \in Emitted : e \in Nat /\ fate[e] \in Fates
  BY <1>1 DEF SinkTypeOK
<1>4. /\ DOMAIN queue = 1 .. Len(queue) /\ Len(queue) \in Nat
      /\ \A i \in DOMAIN queue : queue[i] \in Emitted
      /\ Range(queue) \subseteq Emitted
  BY DEF SinkTypeOK, Range
<1>5. /\ DOMAIN log = 1 .. Len(log) /\ Len(log) \in Nat
      /\ \A i \in DOMAIN log : log[i].event \in Nat /\ log[i].ok \in BOOLEAN
  <2>1. log \in Seq(DeliveryRecord)
    BY DEF SinkTypeOK
  <2>2. DOMAIN log = 1 .. Len(log) /\ Len(log) \in Nat /\ \A i \in DOMAIN log : log[i] \in DeliveryRecord
    BY <2>1
  <2>3. ASSUME NEW x \in DeliveryRecord PROVE x.event \in Nat /\ x.ok \in BOOLEAN
    BY DEF DeliveryRecord
  <2>4. QED
    BY <2>2, <2>3
<1>6. boot \in Nat /\ boot <= Len(fate) /\ Range(arrived) \subseteq Emitted
  BY <1>1 DEF SinkTypeOK, Range
<1>7. QED
  BY <1>1, <1>2, <1>3, <1>4, <1>5, <1>6

LEMMA SinkInitHolds == SinkInit => SinkIInv
<1> SUFFICES ASSUME SinkInit PROVE SinkIInv
  OBVIOUS
<1>1. Emitted = {} /\ DOMAIN queue = {} /\ DOMAIN log = {} /\ Range(arrived) = {} /\ Range(queue) = {}
  BY DEF SinkInit, Emitted, Range
<1>2. SinkTypeOK
  <2>1. /\ queue \in Seq(Emitted) /\ log \in Seq(DeliveryRecord)
        /\ arrived \in Seq(Emitted) /\ fate \in Seq(Fates)
    BY EmptySeq DEF SinkInit
  <2>2. \A S : {} \in Option(S)
    BY DEF Option
  <2>3. Len(queue) <= BufferSize /\ boot \in 0 .. Len(fate) /\ dropped \in Nat /\ stops \in Nat
    BY EventSinkAssumption DEF SinkInit
  <2>4. task \in [Tasks -> {"ready", "counting"}] /\ wire \subseteq Emitted
    BY DEF SinkInit
  <2>5. posting = {} /\ result = {} /\ unlogged = {}
    BY DEF SinkInit
  <2>6. QED
    BY <2>1, <2>2, <2>3, <2>4, <2>5 DEF SinkTypeOK
<1>3. Counting = {} /\ SinceBoot({"failed", "lost"}) = {} /\ SinceBoot({"delivered", "failed"}) = {}
  <2>1. Counting = {}
    BY DEF SinkInit, Counting
  <2>2. SinceBoot({"failed", "lost"}) = {} /\ SinceBoot({"delivered", "failed"}) = {}
    BY <1>1 DEF SinceBoot
  <2>3. QED
    BY <2>1, <2>2
<1>4. DropPart
  BY <1>3, FS_EmptySet DEF SinkInit, DropPart
<1>5. QueuePart /\ KnownPart /\ OrderPart /\ WirePart
  BY <1>1, <1>3 DEF SinkInit, QueuePart, KnownPart, OrderPart, WirePart, Held, Settled
<1>6. LogComplete
  BY <1>1, <1>3 DEF SinkInit, LogComplete
<1>7. QED
  BY <1>2, <1>4, <1>5, <1>6 DEF SinkIInv

\* Tasks that are about to count a drop.
LEMMA CountingFinite ==
    ASSUME SinkTypeOK
    PROVE  IsFiniteSet(Counting) /\ Cardinality(Counting) \in Nat
  BY EventSinkAssumption, FS_Subset, FS_CardinalityType DEF Counting

LEMMA SinceBootFinite ==
    ASSUME SinkTypeOK, NEW fs
    PROVE  IsFiniteSet(SinceBoot(fs)) /\ Cardinality(SinceBoot(fs)) \in Nat
<1>1. SinceBoot(fs) \in SUBSET Emitted
  BY DEF SinceBoot
<1>2. IsFiniteSet(SinceBoot(fs))
  BY <1>1, SinkNumbers, FS_Subset
<1>3. QED
  BY <1>2, FS_CardinalityType

\* A new event: the last number, in the channel or lost.
LEMMA EmitStep ==
    ASSUME SinkIInv, NEW t \in Tasks, Emit(t)
    PROVE  SinkIInv'
<1> DEFINE e == Len(fate) + 1
           fits == Len(queue) < BufferSize
           f == IF fits THEN "pending" ELSE "lost"
<1>1. SinkTypeOK
  BY DEF SinkIInv
<1>2. /\ queue' = IF fits THEN Append(queue, e) ELSE queue
      /\ task[t] = "ready" /\ task' = [task EXCEPT ![t] = IF fits THEN "ready" ELSE "counting"]
      /\ fate' = Append(fate, f)
      /\ UNCHANGED <<posting, result, dropped, log, unlogged, wire, arrived, boot, stops>>
  BY DEF Emit, worker
<1>3. f \in Fates /\ e \in Nat /\ (f = "pending" <=> fits)
  BY <1>1, SinkNumbers DEF Fates
<1>4. /\ fate' \in Seq(Fates) /\ Len(fate') = e
      /\ Emitted' = Emitted \cup {e} /\ e \notin Emitted
      /\ \A d \in Emitted : fate'[d] = fate[d] /\ d < e
      /\ fate'[e] = f
  BY <1>1, <1>2, <1>3, SinkNumbers DEF SinkTypeOK, Emitted
<1>5. CASE fits
  <2>1. /\ queue' \in Seq(Emitted') /\ Len(queue') = Len(queue) + 1
        /\ \A i \in DOMAIN queue : queue'[i] = queue[i]
        /\ queue'[Len(queue) + 1] = e
        /\ DOMAIN queue' = DOMAIN queue \cup {Len(queue) + 1}
    BY <1>1, <1>2, <1>4, <1>5, SinkNumbers, SMTT(40) DEF SinkTypeOK
  <2>2. Range(queue') = Range(queue) \cup {e}
    BY <2>1, <1>1, SinkNumbers DEF Range
  <2>3. task' = task
    BY <1>1, <1>2, <1>5 DEF SinkTypeOK
  <2>4. \A fs : "pending" \notin fs => SinceBoot(fs)' = SinceBoot(fs)
    BY <1>2, <1>3, <1>4, <1>5 DEF SinceBoot
  <2>5. SinkTypeOK'
    BY <1>1, <1>2, <1>4, <1>5, <2>1, <2>3, SinkNumbers, EventSinkAssumption DEF SinkTypeOK, Option
  <2>6. DropPart'
    BY <1>2, <2>3, <2>4 DEF SinkIInv, DropPart, Counting
  <2>7. QueuePart'
    BY <1>1, <1>2, <1>3, <1>4, <1>5, <2>1, <2>2, SinkNumbers, SMTT(40) DEF SinkIInv, QueuePart, Held, SinkTypeOK, Option
  <2>8. KnownPart' /\ WirePart'
    BY <1>1, <1>2, <1>4, SinkNumbers DEF SinkIInv, KnownPart, WirePart, SinkTypeOK, Option
  <2>a. OrderPart'
    <3>1. Settled' = Settled /\ Settled \subseteq Emitted
      BY <2>4 DEF Settled, SinceBoot
    <3>2. QED
      BY <1>2, <1>4, <2>2, <3>1 DEF SinkIInv, OrderPart
  <2>9. LogComplete'
    BY <1>1, <1>2, <1>4, <2>4, SinkNumbers DEF SinkIInv, LogComplete, SinceBoot
  <2>10. QED
    BY <2>5, <2>6, <2>7, <2>8, <2>a, <2>9 DEF SinkIInv
<1>6. CASE ~fits
  <2>1. queue' = queue /\ f = "lost" /\ task' = [task EXCEPT ![t] = "counting"]
    BY <1>2, <1>6
  <2>2. Counting' = Counting \cup {t} /\ t \notin Counting
    BY <1>1, <1>2, <2>1 DEF Counting, SinkTypeOK
  <2>3. SinceBoot({"failed", "lost"})' = SinceBoot({"failed", "lost"}) \cup {e} /\ e \notin SinceBoot({"failed", "lost"})
    <3>1. e > boot
      BY <1>1, SinkNumbers
    <3>2. SinceBoot({"failed", "lost"})' = {d \in Emitted' : d > boot /\ fate'[d] \in {"failed", "lost"}}
      BY <1>2 DEF SinceBoot
    <3>3. QED
      BY <1>4, <2>1, <3>1, <3>2 DEF SinceBoot
  <2>4. Settled' = Settled
    BY <1>2, <1>4, <2>1 DEF Settled, SinceBoot
  <2>5. SinkTypeOK'
    BY <1>1, <1>2, <1>4, <2>1, SinkNumbers, SeqMonotonic DEF SinkTypeOK, Option
  <2>6. DropPart'
    <3>1. Cardinality(Counting') = Cardinality(Counting) + 1
      BY <1>1, <2>2, CountingFinite, FS_AddElement
    <3>2. Cardinality(SinceBoot({"failed", "lost"})') = Cardinality(SinceBoot({"failed", "lost"})) + 1
      BY <1>1, <2>3, SinceBootFinite, FS_AddElement
    <3>3. QED
      BY <1>1, <1>2, <3>1, <3>2, CountingFinite, SinceBootFinite DEF SinkIInv, DropPart, SinkTypeOK
  <2>7. QueuePart'
    BY <1>1, <1>2, <1>4, <2>1, SinkNumbers DEF SinkIInv, QueuePart, Held, SinkTypeOK, Option
  <2>8. KnownPart' /\ OrderPart' /\ WirePart'
    BY <1>1, <1>2, <1>4, <2>1, <2>4, SinkNumbers DEF SinkIInv, KnownPart, OrderPart, WirePart, SinkTypeOK, Option
  <2>9. LogComplete'
    BY <1>1, <1>2, <1>4, <2>4, SinkNumbers DEF SinkIInv, LogComplete, Settled, SinceBoot
  <2>10. QED
    BY <2>5, <2>6, <2>7, <2>8, <2>9 DEF SinkIInv
<1>7. QED
  BY <1>5, <1>6

LEMMA CountDropStep ==
    ASSUME SinkIInv, NEW t \in Tasks, CountDrop(t)
    PROVE  SinkIInv'
<1>1. SinkTypeOK
  BY DEF SinkIInv
<1>2. /\ task[t] = "counting" /\ dropped' = dropped + 1
      /\ task' = [task EXCEPT ![t] = "ready"]
      /\ UNCHANGED <<queue, posting, result, log, unlogged, wire, arrived, fate, boot, stops>>
  BY DEF CountDrop, worker
<1>3. SinkTypeOK'
  BY <1>1, <1>2 DEF SinkTypeOK, Emitted
<1>4. Counting' = Counting \ {t} /\ t \in Counting
  BY <1>1, <1>2 DEF Counting, SinkTypeOK
<1>5. \A fs : SinceBoot(fs)' = SinceBoot(fs)
  BY <1>2 DEF SinceBoot, Emitted
<1>6. DropPart'
  <2>1. Cardinality(Counting') = Cardinality(Counting) - 1
    BY <1>1, <1>4, CountingFinite, FS_RemoveElement
  <2>2. QED
    BY <1>1, <1>2, <1>5, <2>1, CountingFinite, SinceBootFinite DEF SinkIInv, DropPart, SinkTypeOK
<1>7. QueuePart' /\ KnownPart' /\ OrderPart' /\ WirePart' /\ LogComplete'
  BY <1>2, <1>5 DEF SinkIInv, QueuePart, KnownPart, OrderPart, WirePart, LogComplete, Held, Settled, Emitted
<1>8. QED
  BY <1>3, <1>6, <1>7 DEF SinkIInv

\* The head of the channel leaves it.
LEMMA HeadLeaves ==
    ASSUME SinkTypeOK, queue # <<>>
    PROVE  /\ Head(queue) \in Emitted /\ Head(queue) = queue[1] /\ 1 \in DOMAIN queue
           /\ Tail(queue) \in Seq(Emitted) /\ Len(Tail(queue)) = Len(queue) - 1
           /\ DOMAIN Tail(queue) = 1 .. Len(queue) - 1
           /\ \A i \in DOMAIN Tail(queue) : i + 1 \in DOMAIN queue /\ Tail(queue)[i] = queue[i + 1]
           /\ Range(queue) = {Head(queue)} \cup Range(Tail(queue))
<1>1. queue \in Seq(Emitted) /\ Len(queue) \in Nat /\ DOMAIN queue = 1 .. Len(queue) /\ Len(queue) # 0
  BY EmptySeq DEF SinkTypeOK
<1>2. /\ Head(queue) = queue[1] /\ 1 \in DOMAIN queue /\ queue[1] \in Emitted
      /\ Tail(queue) \in Seq(Emitted) /\ Len(Tail(queue)) = Len(queue) - 1
      /\ DOMAIN Tail(queue) = 1 .. Len(queue) - 1
      /\ \A i \in DOMAIN Tail(queue) : i + 1 \in DOMAIN queue /\ Tail(queue)[i] = queue[i + 1]
  BY <1>1, HeadTailProperties
<1>3. \A i \in DOMAIN queue : i = 1 \/ (i - 1 \in DOMAIN Tail(queue) /\ queue[i] = Tail(queue)[i - 1])
  BY <1>1, <1>2
<1>4. Range(queue) = {Head(queue)} \cup Range(Tail(queue))
  <2>1. ASSUME NEW i \in DOMAIN queue PROVE queue[i] \in {Head(queue)} \cup Range(Tail(queue))
    BY <1>2, <1>3 DEF Range
  <2>2. ASSUME NEW i \in DOMAIN Tail(queue) PROVE Tail(queue)[i] \in Range(queue)
    BY <1>2 DEF Range
  <2>3. Head(queue) \in Range(queue)
    BY <1>2 DEF Range
  <2>4. QED
    BY <2>1, <2>2, <2>3 DEF Range
<1>5. QED
  BY <1>2, <1>4

LEMMA ReceiveStep == ASSUME SinkIInv, Receive PROVE SinkIInv'
<1> DEFINE h == Head(queue)
<1>1. SinkTypeOK /\ queue # <<>> /\ posting = {}
  BY DEF SinkIInv, Receive
<1>2. /\ posting' = {h} /\ queue' = Tail(queue) /\ wire' = wire \cup {h}
      /\ UNCHANGED <<result, dropped, task, log, unlogged, arrived, fate, boot, stops>>
  BY DEF Receive
<1>3. result = {} /\ result' = {}
  BY <1>1, <1>2 DEF SinkTypeOK
<1>4. h \in Emitted /\ fate[h] = "pending" /\ h > boot /\ h \in Nat
  <2>1. h \in Range(queue)
    BY <1>1, HeadLeaves
  <2>2. QED
    BY <1>1, <2>1, SinkNumbers DEF SinkIInv, QueuePart
<1>5. \A i \in DOMAIN queue' : i + 1 \in DOMAIN queue /\ queue'[i] = queue[i + 1] /\ i \in Nat /\ 1 < i + 1
  BY <1>1, <1>2, HeadLeaves, SinkNumbers
<1>6. h = queue[1] /\ 1 \in DOMAIN queue
  BY <1>1, HeadLeaves
<1>7. Range(queue) = {h} \cup Range(queue')
  BY <1>1, <1>2, HeadLeaves
<1>8. \A fs : SinceBoot(fs)' = SinceBoot(fs)
  BY <1>2 DEF SinceBoot, Emitted
<1>9. Counting' = Counting
  BY <1>2 DEF Counting
<1>10. SinkTypeOK'
  <2>1. queue' \in Seq(Emitted) /\ Len(queue') <= BufferSize
    BY <1>1, <1>2, HeadLeaves, EventSinkAssumption, SinkNumbers DEF SinkTypeOK
  <2>2. QED
    BY <1>1, <1>2, <1>4, <2>1 DEF SinkTypeOK, Emitted, Option
<1>11. DropPart'
  BY <1>2, <1>8, <1>9 DEF SinkIInv, DropPart
<1>12. QueuePart'
  <2>1. Held = {} /\ Held' = {h}
    BY <1>1, <1>2, <1>3 DEF Held
  <2>2. {e \in Emitted : fate[e] = "pending"}' = Held' \cup Range(queue')
    BY <1>2, <1>7, <2>1 DEF SinkIInv, QueuePart, Emitted
  <2>3. \A i, j \in DOMAIN queue' : i < j => queue'[i] < queue'[j]
    BY <1>5 DEF SinkIInv, QueuePart
  <2>4. \A i \in DOMAIN queue' : h < queue'[i]
    <3>1. \A i, j \in DOMAIN queue : i < j => queue[i] < queue[j]
      BY DEF SinkIInv, QueuePart
    <3>2. QED
      BY <1>5, <1>6, <3>1
  <2>5. QED
    BY <1>2, <1>4, <2>2, <2>3, <2>4 DEF SinkIInv, QueuePart, Emitted
<1>13. KnownPart'
  BY <1>3 DEF KnownPart
<1>14. OrderPart'
  <2>1. Settled' = Settled /\ h \notin Settled
    BY <1>4, <1>8 DEF Settled, SinceBoot
  <2>2. QED
    BY <1>1, <1>2, <1>7, <2>1 DEF SinkIInv, OrderPart
<1>15. WirePart'
  BY <1>1, <1>2, <1>4 DEF SinkIInv, WirePart
<1>16. LogComplete'
  <2>1. SinceBoot({"delivered", "failed"}) \ {h} = SinceBoot({"delivered", "failed"})
    BY <1>4 DEF SinceBoot
  <2>2. QED
    BY <1>1, <1>2, <1>8, <2>1 DEF SinkIInv, LogComplete
<1>17. QED
  BY <1>10, <1>11, <1>12, <1>13, <1>14, <1>15, <1>16 DEF SinkIInv

\* The outcome of a POST is known.
Outcome(ok) == IF ok THEN "delivered" ELSE "failed"

LEMMA SettleStep ==
    ASSUME SinkIInv, NEW e \in Emitted, NEW ok \in BOOLEAN, Waiting(e),
           ok => e \in Range(arrived),
           result' = {ok}, fate' = [fate EXCEPT ![e] = Outcome(ok)],
           dropped' = IF ok THEN dropped ELSE dropped + 1,
           wire' \in {wire, wire \ {e}},
           UNCHANGED <<queue, posting, task, log, unlogged, arrived, boot, stops>>
    PROVE  SinkIInv'
<1>1. SinkTypeOK /\ e \in posting /\ result = {}
  BY DEF SinkIInv, Waiting
<1>2. posting = {e} /\ posting' = {e}
  BY <1>1 DEF SinkTypeOK, Option
<1>3. Outcome(ok) \in Fates /\ Outcome(ok) # "pending" /\ Outcome(ok) # "lost"
  BY DEF Outcome, Fates
<1>4. fate[e] = "pending" /\ e > boot
  BY <1>1, <1>2 DEF SinkIInv, QueuePart, Held
<1>5. /\ fate' \in Seq(Fates) /\ Len(fate') = Len(fate) /\ Emitted' = Emitted
      /\ fate'[e] = Outcome(ok) /\ \A d \in Emitted : d # e => fate'[d] = fate[d]
  BY <1>1, <1>3, SinkNumbers DEF SinkTypeOK, Emitted
<1>6. SinkTypeOK'
  <2>1. result' \in Option(BOOLEAN)
    BY DEF Option
  <2>2. dropped' \in Nat
    BY <1>1 DEF SinkTypeOK
  <2>3. QED
    BY <1>1, <1>2, <1>5, <2>1, <2>2 DEF SinkTypeOK
<1>7. Settled' = Settled \cup {e}
  <2>1. Settled' = {d \in Emitted' : d > boot /\ fate'[d] \in {"delivered", "failed"}}
    BY DEF Settled, SinceBoot
  <2>2. fate'[e] \in {"delivered", "failed"}
    BY <1>5 DEF Outcome
  <2>3. QED
    BY <1>4, <1>5, <2>1, <2>2 DEF Settled, SinceBoot
<1>8. DropPart'
  <2> DEFINE D == SinceBoot({"failed", "lost"})
  <2>1. D' = {d \in Emitted' : d > boot /\ fate'[d] \in {"failed", "lost"}}
    BY DEF SinceBoot
  <2>2. e \notin D
    BY <1>4 DEF SinceBoot
  <2>3. D' = IF ok THEN D ELSE D \cup {e}
    BY <1>4, <1>5, <2>1, <2>2 DEF SinceBoot, Outcome
  <2>4. Cardinality(D') = IF ok THEN Cardinality(D) ELSE Cardinality(D) + 1
    BY <1>1, <2>2, <2>3, SinceBootFinite, FS_AddElement
  <2>5. Counting' = Counting
    BY DEF Counting
  <2>6. dropped + Cardinality(Counting) = Cardinality(D)
    BY DEF SinkIInv, DropPart
  <2>7. dropped \in Nat
    BY <1>1 DEF SinkTypeOK
  <2>8. dropped' + Cardinality(Counting) = Cardinality(D')
    BY <1>1, <2>4, <2>6, <2>7, CountingFinite, SinceBootFinite
  <2>9. QED
    BY <2>5, <2>8 DEF DropPart
<1>9. QueuePart'
  <2>1. Held = {e} /\ Held' = {}
    BY <1>1, <1>2 DEF Held
  <2>2. e \notin Range(queue)
    BY <1>1, <1>2, SinkNumbers DEF SinkIInv, QueuePart, Range
  <2>3. {d \in Emitted : fate[d] = "pending"} = {e} \cup Range(queue)
    BY <2>1 DEF SinkIInv, QueuePart
  <2>4. {d \in Emitted' : fate'[d] = "pending"} = Range(queue)
    BY <1>3, <1>5, <2>2, <2>3
  <2>5. QED
    BY <1>3, <1>5, <2>1, <2>4 DEF SinkIInv, QueuePart
<1>10. KnownPart'
  BY <1>2, <1>5, TheOfOne DEF KnownPart, Outcome
<1>11. OrderPart'
  BY <1>2, <1>7 DEF SinkIInv, OrderPart
<1>12. WirePart'
  <2>1. \A d \in wire' : d \in wire /\ d \notin Range(arrived)
    BY DEF SinkIInv, WirePart
  <2>2. ok => e \notin wire'
    BY <2>1
  <2>3. \A d \in wire' : d # e => fate'[d] = "failed"
    BY <1>1, <1>2, <1>5, <2>1 DEF SinkIInv, WirePart, SinkTypeOK
  <2>4. \A d \in wire' : fate'[d] = "failed"
    BY <1>5, <2>2, <2>3 DEF Outcome
  <2>5. \A d \in Range(arrived) : fate'[d] \in {"failed", "delivered"}  \/ d \in posting'
    BY <1>1, <1>2, <1>5, SinkNumbers DEF SinkIInv, WirePart
  <2>6. QED
    BY <2>1, <2>4, <2>5 DEF WirePart
<1>13. LogComplete'
  <2>1. Settled' \ posting' = Settled \ posting
    BY <1>2, <1>7
  <2>2. \A i \in DOMAIN log : log[i].event > boot => log[i].event \in Settled \ posting
    BY DEF SinkIInv, LogComplete, Settled
  <2>3. \A i \in DOMAIN log : log[i].event > boot => fate'[log[i].event] = fate[log[i].event]
    BY <1>2, <1>5, <2>2 DEF Settled, SinceBoot
  <2>4. QED
    BY <2>1, <2>3 DEF SinkIInv, LogComplete, Settled
<1>14. QED
  BY <1>6, <1>8, <1>9, <1>10, <1>11, <1>12, <1>13 DEF SinkIInv

\* The outcome is recorded behind those of older events.
LEMMA RecordStep ==
    ASSUME SinkIInv, NEW e \in Emitted, RecordDelivery(e)
    PROVE  SinkIInv'
<1> DEFINE rec == [event |-> e, ok |-> The(result)]
<1>1. SinkTypeOK /\ e \in posting /\ result # {}
  BY DEF SinkIInv, RecordDelivery
<1>2. /\ \/ log' = Append(log, rec) /\ unlogged' = unlogged
         \/ log' = log /\ unlogged' = unlogged \cup {e}
      /\ posting' = {} /\ result' = {}
      /\ UNCHANGED <<queue, dropped, task, wire, arrived, fate, boot, stops>>
  BY DEF RecordDelivery
<1>3. posting = {e} /\ The(result) \in BOOLEAN
  <2>1. PICK ok \in result : TRUE
    BY <1>1
  <2>2. result = {ok} /\ ok \in BOOLEAN
    BY <1>1, <2>1 DEF SinkTypeOK, Option
  <2>3. The(result) = ok
    BY <2>2, TheOfOne
  <2>4. posting = {e}
    BY <1>1 DEF SinkTypeOK, Option
  <2>5. QED
    BY <2>2, <2>3, <2>4
<1>4. e \in Nat /\ e > boot /\ Held = {} /\ Held' = {}
  BY <1>1, <1>2, SinkNumbers DEF SinkIInv, QueuePart, Held
<1>5. \A fs : SinceBoot(fs)' = SinceBoot(fs)
  BY <1>2 DEF SinceBoot, Emitted
<1>6. fate[e] = IF The(result) THEN "delivered" ELSE "failed"
  BY <1>1 DEF SinkIInv, KnownPart
<1>7. e \in Settled
  BY <1>4, <1>6 DEF Settled, SinceBoot
<1>8. rec \in DeliveryRecord /\ rec.event = e /\ rec.ok = The(result)
  BY <1>3, <1>4 DEF DeliveryRecord
<1> HIDE DEF rec
<1>9. ASSUME log' = Append(log, rec)
      PROVE  /\ log' \in Seq(DeliveryRecord)
             /\ DOMAIN log' = DOMAIN log \cup {Len(log) + 1}
             /\ \A i \in DOMAIN log : log'[i] = log[i] /\ i < Len(log) + 1
             /\ log'[Len(log) + 1] = rec
  BY <1>1, <1>8, <1>9, SinkNumbers DEF SinkTypeOK
<1>10. SinkTypeOK'
  <2>1. log' \in Seq(DeliveryRecord) /\ unlogged' \subseteq Emitted
    BY <1>1, <1>2, <1>9 DEF SinkTypeOK
  <2>2. QED
    BY <1>1, <1>2, <2>1 DEF SinkTypeOK, Emitted, Option
<1>11. DropPart' /\ QueuePart' /\ KnownPart' 
  BY <1>2, <1>4, <1>5 DEF SinkIInv, DropPart, QueuePart, KnownPart, Counting, Emitted
<1>12. OrderPart'
  <2>1. Settled' = Settled
    BY <1>5 DEF Settled
  <2>2. \A d \in Range(queue) : e < d
    BY <1>1, SinkNumbers DEF SinkIInv, QueuePart, Range
  <2>3. QED
    BY <1>2, <1>3, <2>1, <2>2 DEF SinkIInv, OrderPart
<1>13. WirePart'
  <2>1. fate[e] \in {"failed", "delivered"}
    BY <1>6
  <2>2. QED
    BY <1>2, <1>3, <2>1 DEF SinkIInv, WirePart
<1>14. LogComplete'
  <2> DEFINE n == Len(log) + 1
             mine == {i \in DOMAIN log : log[i].event > boot}
             recorded == {log[i].event : i \in mine}
  <2>1. /\ recorded \cap unlogged = {} /\ recorded \cup unlogged = Settled \ {e}
        /\ \A i, j \in mine : i < j => log[i].event < log[j].event
        /\ \A i \in mine : log[i].ok <=> fate[log[i].event] = "delivered"
    BY <1>3 DEF SinkIInv, LogComplete, Settled
  <2>2. (SinceBoot({"delivered", "failed"}) \ posting)' = Settled
    BY <1>2, <1>5 DEF Settled
  <2>3. CASE log' = Append(log, rec) /\ unlogged' = unlogged
    <3>1. {i \in DOMAIN log' : log'[i].event > boot'} = mine \cup {n}
      BY <1>2, <1>4, <1>8, <1>9, <2>3
    <3>2. \A i \in mine : log[i].event < e
      BY <1>1, <1>3, <2>1 DEF SinkIInv, OrderPart
    <3>3. {log'[i].event : i \in mine \cup {n}} = recorded \cup {e}
      <4>1. \A i \in mine : log'[i].event = log[i].event
        BY <1>9, <2>3
      <4>2. log'[n].event = e
        BY <1>8, <1>9, <2>3
      <4>3. QED
        BY <4>1, <4>2
    <3>4. \A i, j \in mine \cup {n} : i < j => log'[i].event < log'[j].event
      BY <1>1, <1>8, <1>9, <2>1, <2>3, <3>2, SinkNumbers
    <3>5. \A i \in mine \cup {n} : log'[i].ok <=> fate'[log'[i].event] = "delivered"
      <4>1. The(result) <=> fate[e] = "delivered"
        BY <1>6
      <4>2. log'[n].ok <=> fate'[log'[n].event] = "delivered"
        BY <1>2, <1>8, <1>9, <2>3, <4>1
      <4>3. ASSUME NEW i \in mine PROVE log'[i].ok <=> fate'[log'[i].event] = "delivered"
        BY <1>2, <1>9, <2>1, <2>3
      <4>4. QED
        BY <4>2, <4>3
    <3> HIDE DEF mine, n, recorded
    <3>6. (recorded \cup {e}) \cap unlogged' = {} /\ recorded \cup {e} \cup unlogged' = Settled
      BY <1>7, <2>1, <2>3
    <3>7. QED
      BY <2>2, <3>1, <3>3, <3>4, <3>5, <3>6 DEF LogComplete
  <2>4. CASE log' = log /\ unlogged' = unlogged \cup {e}
    <3>1. {i \in DOMAIN log' : log'[i].event > boot'} = mine
      BY <1>2, <2>4
    <3>2. {log'[i].event : i \in mine} = recorded
      BY <2>4
    <3> HIDE DEF mine, recorded
    <3>3. recorded \cap unlogged' = {} /\ recorded \cup unlogged' = Settled
      BY <1>7, <2>1, <2>4
    <3>4. (\A i, j \in mine : i < j => log'[i].event < log'[j].event)
          /\ \A i \in mine : log'[i].ok <=> fate'[log'[i].event] = "delivered"
      BY <1>2, <2>1, <2>4
    <3>5. QED
      BY <2>2, <3>1, <3>2, <3>3, <3>4 DEF LogComplete
  <2>5. QED
    BY <1>2, <2>3, <2>4
<1>15. QED
  BY <1>10, <1>11, <1>12, <1>13, <1>14 DEF SinkIInv

LEMMA ArriveStep ==
    ASSUME SinkIInv, NEW e \in Emitted, PostArrives(e)
    PROVE  SinkIInv'
<1>1. SinkTypeOK /\ e \in wire
  BY DEF SinkIInv, PostArrives
<1>2. /\ wire' = wire \ {e} /\ arrived' = Append(arrived, e)
      /\ UNCHANGED <<queue, posting, result, dropped, task, log, unlogged, fate, boot, stops>>
  BY DEF PostArrives, worker
<1>3. arrived' \in Seq(Emitted) /\ Range(arrived') = Range(arrived) \cup {e}
  <2>1. /\ arrived \in Seq(Emitted) /\ Len(arrived) \in Nat
        /\ arrived' \in Seq(Emitted) /\ Len(arrived') = Len(arrived) + 1
        /\ DOMAIN arrived = 1 .. Len(arrived) /\ DOMAIN arrived' = 1 .. Len(arrived) + 1
        /\ \A i \in DOMAIN arrived : arrived'[i] = arrived[i]
        /\ arrived'[Len(arrived) + 1] = e
    BY <1>1, <1>2 DEF SinkTypeOK
  <2>2. DOMAIN arrived' = DOMAIN arrived \cup {Len(arrived) + 1}
    BY <2>1
  <2>3. QED
    BY <2>1, <2>2 DEF Range
<1>4. SinkTypeOK'
  BY <1>1, <1>2, <1>3 DEF SinkTypeOK, Emitted
<1>5. \A fs : SinceBoot(fs)' = SinceBoot(fs)
  BY <1>2 DEF SinceBoot, Emitted
<1>6. DropPart' /\ QueuePart' /\ KnownPart' /\ OrderPart' /\ LogComplete'
  BY <1>2, <1>5 DEF SinkIInv, DropPart, QueuePart, KnownPart, OrderPart, LogComplete, Counting, Held, Settled, Emitted
<1>7. WirePart'
  BY <1>1, <1>2, <1>3 DEF SinkIInv, WirePart
<1>8. QED
  BY <1>4, <1>6, <1>7 DEF SinkIInv

\* A restart settles what was pending and forgets what it counted.
LEMMA RestartStep == ASSUME SinkIInv, Restart PROVE SinkIInv'
<1>1. SinkTypeOK
  BY DEF SinkIInv
<1>2. /\ queue' = <<>> /\ posting' = {} /\ result' = {} /\ dropped' = 0 /\ stops' = stops + 1
      /\ task' = [t \in Tasks |-> "ready"] /\ boot' = Len(fate)
      /\ unlogged' = {} /\ UNCHANGED <<log, wire, arrived>>
  BY DEF Restart
<1>3. /\ Emitted' = Emitted /\ fate' \in Seq(Fates) /\ Len(fate') = Len(fate)
      /\ \A d \in Emitted : fate[d] # "pending" => fate'[d] = fate[d]
      /\ \A d \in Emitted : fate[d] = "pending" =>
            fate'[d] = IF d \in posting THEN "failed" ELSE "lost"
  <2>1. fate' = [d \in Emitted |->
                  CASE fate[d] = "pending" /\ d \in posting -> "failed"
                    [] fate[d] = "pending" /\ d \notin posting -> "lost"
                    [] fate[d] # "pending" -> fate[d]]
    BY DEF Restart
  <2>2. \A d \in Emitted : fate'[d] = IF fate[d] = "pending"
                                       THEN IF d \in posting THEN "failed" ELSE "lost"
                                       ELSE fate[d]
    BY <2>1
  <2>3. fate' \in [1 .. Len(fate) -> Fates] /\ Len(fate) \in Nat
    BY <1>1, <2>1, <2>2, SinkNumbers DEF Fates
  <2>4. fate' \in Seq(Fates) /\ Len(fate') = Len(fate) /\ DOMAIN fate' = 1 .. Len(fate)
    BY <2>3
  <2>5. QED
    BY <1>1, <2>2, <2>4, SinkNumbers DEF Emitted
<1>4. \A fs : SinceBoot(fs)' = {}
  BY <1>1, <1>2, <1>3, SinkNumbers DEF SinceBoot
<1>5. Counting' = {} /\ DOMAIN queue' = {} /\ Range(queue') = {}
  BY <1>2 DEF Counting, Range
<1>6. SinkTypeOK'
  <2>1. queue' \in Seq(Emitted') /\ Len(queue') <= BufferSize
    BY <1>2, EmptySeq, EventSinkAssumption
  <2>2. {} \in Option(Emitted') /\ {} \in Option(BOOLEAN)
    BY DEF Option
  <2>3. boot' \in 0 .. Len(fate')
    BY <1>1, <1>2, <1>3, SinkNumbers
  <2>4. arrived' \in Seq(Emitted') /\ wire' \subseteq Emitted' /\ stops' \in Nat /\ dropped' \in Nat
    BY <1>1, <1>2, <1>3 DEF SinkTypeOK
  <2>5. task' \in [Tasks -> {"ready", "counting"}] /\ log' \in Seq(DeliveryRecord)
    BY <1>1, <1>2 DEF SinkTypeOK
  <2>6. QED
    BY <1>2, <1>3, <2>1, <2>2, <2>3, <2>4, <2>5 DEF SinkTypeOK
<1>7. DropPart'
  <2>1. SinceBoot({"failed", "lost"})' = {}
    BY <1>4
  <2>2. Cardinality({}) = 0
    BY FS_EmptySet
  <2>3. Cardinality(Counting') = 0 /\ Cardinality(SinceBoot({"failed", "lost"})') = 0
    BY <1>5, <2>1, <2>2, Zenon
  <2>4. dropped' + Cardinality(Counting') = Cardinality(SinceBoot({"failed", "lost"})')
    BY <1>2, <2>3
  <2>5. QED
    BY <2>4, Zenon DEF DropPart
<1>8. \A d \in Emitted' : fate'[d] # "pending"
  BY <1>1, <1>3, SinkNumbers DEF Fates
<1>9. QueuePart' /\ KnownPart' /\ OrderPart'
  BY <1>2, <1>5, <1>8 DEF QueuePart, KnownPart, OrderPart, Held
<1>10. WirePart'
  <2>1. \A d \in Range(arrived) \cup wire : d \in Emitted
    BY <1>1, SinkNumbers DEF SinkTypeOK
  <2>2. \A d \in wire : fate'[d] = "failed" /\ d \notin Range(arrived)
    BY <1>3, <2>1 DEF SinkIInv, WirePart
  <2>3. \A d \in Range(arrived) : fate'[d] \in {"failed", "delivered"}
    <3>1. \A d \in posting : d \in Emitted /\ fate[d] \in {"pending", "failed", "delivered"}
      BY <1>1 DEF SinkIInv, QueuePart, KnownPart, Held, SinkTypeOK, Option
    <3>2. \A d \in Range(arrived) : fate[d] \in {"failed", "delivered"} \/ d \in posting
      BY DEF SinkIInv, WirePart
    <3>3. QED
      BY <1>3, <2>1, <3>1, <3>2
  <2>4. QED
    BY <1>2, <2>2, <2>3 DEF WirePart
<1>11. LogComplete'
  <2>1. \A i \in DOMAIN log : ~(log[i].event > boot')
    <3>1. \A i \in DOMAIN log : log[i].event <= Len(fate)
      <4>1. \A i \in DOMAIN log : log[i].event > boot => log[i].event \in Emitted
        BY DEF SinkIInv, LogComplete, SinceBoot
      <4>2. QED
        BY <1>1, <4>1, SinkNumbers
    <3>2. QED
      BY <1>1, <1>2, <3>1, SinkNumbers
  <2>2. QED
    BY <1>2, <1>4, <2>1 DEF LogComplete
<1>12. QED
  BY <1>6, <1>7, <1>9, <1>10, <1>11 DEF SinkIInv

LEMMA SinkStepHolds == SinkIInv /\ [SinkNext]_sinkVars => SinkIInv'
<1> SUFFICES ASSUME SinkIInv, [SinkNext]_sinkVars PROVE SinkIInv'
  OBVIOUS
<1>1. CASE Receive
  BY <1>1, ReceiveStep
<1>2. CASE Restart
  BY <1>2, RestartStep
<1>3. ASSUME NEW t \in Tasks, Emit(t) \/ CountDrop(t) PROVE SinkIInv'
  BY <1>3, EmitStep, CountDropStep
<1>4. ASSUME NEW e \in Emitted, Answered(e) PROVE SinkIInv'
  <2>1. PICK ok \in BOOLEAN :
           /\ result' = {ok} /\ fate' = [fate EXCEPT ![e] = Outcome(ok)]
           /\ dropped' = IF ok THEN dropped ELSE dropped + 1
    <3>1. CASE result' = {TRUE} /\ fate' = [fate EXCEPT ![e] = "delivered"] /\ UNCHANGED dropped
      BY <3>1 DEF Outcome
    <3>2. CASE result' = {FALSE} /\ fate' = [fate EXCEPT ![e] = "failed"] /\ dropped' = dropped + 1
      BY <3>2 DEF Outcome
    <3>3. QED
      BY <1>4, <3>1, <3>2 DEF Answered
  <2>2. /\ Waiting(e) /\ e \in Range(arrived) /\ wire' = wire
        /\ UNCHANGED <<queue, posting, task, log, unlogged, arrived, boot, stops>>
    BY <1>4 DEF Answered
  <2>3. QED
    BY <2>1, <2>2, SettleStep
<1>5. ASSUME NEW e \in Emitted, Failed(e) PROVE SinkIInv'
  <2>1. /\ Waiting(e) /\ result' = {FALSE} /\ dropped' = IF FALSE THEN dropped ELSE dropped + 1
        /\ fate' = [fate EXCEPT ![e] = Outcome(FALSE)] /\ wire' \in {wire, wire \ {e}}
        /\ UNCHANGED <<queue, posting, task, log, unlogged, arrived, boot, stops>>
    BY <1>5 DEF Failed, Outcome
  <2>2. QED
    BY <2>1, SettleStep
<1>6. ASSUME NEW e \in Emitted, RecordDelivery(e) \/ PostArrives(e) PROVE SinkIInv'
  BY <1>6, RecordStep, ArriveStep
<1>7. CASE UNCHANGED sinkVars
  BY <1>7 DEF sinkVars, worker, SinkIInv, SinkTypeOK, DropPart, QueuePart, KnownPart, OrderPart, WirePart, LogComplete,
     Counting, SinceBoot, Held, Settled, Emitted
<1>8. QED
  BY <1>1, <1>2, <1>3, <1>4, <1>5, <1>6, <1>7 DEF SinkNext

\* What the sink's variables hold, count and have on the way agree at every step.
THEOREM SinkInductive == SinkSpec => []SinkIInv
  BY SinkInitHolds, SinkStepHolds, PTL DEF SinkSpec

\* The drop counter of EventSink::dropped is exact and the delivery log, but for what
\* it failed to record, complete and in order, whatever the receiver and the network do.
THEOREM AccountedHolds == SinkSpec => []EventsAccounted
<1>1. SinkIInv => EventsAccounted
  BY DEF SinkIInv, DropPart, QueuePart, Held, DropsCounted, EventsAccounted
<1>2. QED
  BY <1>1, SinkInductive, PTL
-----------------------------------------------------------------------------
(* The sink implements Delivery. *)

LEMMA SameRange == Promise!Range(arrived) = Range(arrived)
  BY DEF Promise!Range, Range

\* The event the worker is posting is the first that is pending.
LEMMA HeldIsFirst ==
    ASSUME SinkIInv, NEW e \in Emitted, Waiting(e)
    PROVE  Promise!First(e)
<1>1. SinkTypeOK /\ e \in posting /\ result = {}
  BY DEF SinkIInv, Waiting
<1>2. posting = {e} /\ Held = {e}
  BY <1>1 DEF SinkTypeOK, Option, Held
<1>3. Promise!Pending = {e} \cup Range(queue)
  BY <1>2 DEF SinkIInv, QueuePart, Promise!Pending, Emitted
<1>4. \A d \in Range(queue) : e < d
  BY <1>1 DEF SinkIInv, QueuePart, Range
<1>5. \A d \in Promise!Pending : e <= d
  BY <1>1, <1>3, <1>4, SinkNumbers
<1>6. QED
  BY <1>3, <1>5 DEF Promise!First

\* A restart settles the event that is being posted as failed: if there is none, the
\* first one as lost.
LEMMA RestartStops == ASSUME SinkIInv, Restart PROVE Promise!Stop
<1>1. SinkTypeOK
  BY DEF SinkIInv
<1>2. Promise!Pending = Held \cup Range(queue) /\ Promise!Pending \subseteq Emitted
  BY DEF SinkIInv, QueuePart, Promise!Pending, Emitted
<1>3. fate' = [d \in Emitted |->
                  CASE fate[d] = "pending" /\ d \in posting -> "failed"
                    [] fate[d] = "pending" /\ d \notin posting -> "lost"
                    [] fate[d] # "pending" -> fate[d]]
  BY DEF Restart
<1>4. \A d \in Emitted : fate[d] = "pending" <=> d \in Promise!Pending
  BY DEF Promise!Pending, Emitted
<1> DEFINE f == IF Held = {} THEN "lost" ELSE "failed"
<1>5. \A d \in Promise!Pending : d \in posting <=> Held # {} /\ Promise!First(d)
  <2>1. CASE Held = {}
    <3>1. \A d \in posting : fate[d] # "pending"
      BY <1>1, <2>1 DEF SinkIInv, KnownPart, Held, SinkTypeOK
    <3>2. QED
      BY <1>4, <1>2, <2>1, <3>1
  <2>2. CASE Held # {}
    <3>1. PICK e \in posting : e \in Emitted /\ result = {} /\ posting = {e} /\ Held = {e}
      BY <1>1, <2>2 DEF Held, SinkTypeOK, Option
    <3>2. Promise!First(e)
      BY <3>1, HeldIsFirst DEF Waiting
    <3>3. \A d \in Promise!Pending : Promise!First(d) => d = e
      <4>1. e \in Promise!Pending
        BY <3>2 DEF Promise!First
      <4>2. \A d \in Promise!Pending : d \in Nat
        BY <1>1, <1>2, SinkNumbers
      <4>3. ASSUME NEW d \in Promise!Pending, Promise!First(d) PROVE d <= e /\ e <= d
        BY <4>1, <4>3, <3>2 DEF Promise!First
      <4>4. QED
        BY <4>1, <4>2, <4>3
    <3>4. QED
      BY <2>2, <3>1, <3>2, <3>3
  <2>3. QED
    BY <2>1, <2>2
<1>6. fate' = [d \in DOMAIN fate |->
                  CASE Promise!First(d) -> f
                    [] d \in Promise!Pending /\ ~Promise!First(d) -> "lost"
                    [] d \notin Promise!Pending -> fate[d]]
  <2>1. \A d \in Emitted :
           (CASE fate[d] = "pending" /\ d \in posting -> "failed"
              [] fate[d] = "pending" /\ d \notin posting -> "lost"
              [] fate[d] # "pending" -> fate[d])
           = (CASE Promise!First(d) -> f
                [] d \in Promise!Pending /\ ~Promise!First(d) -> "lost"
                [] d \notin Promise!Pending -> fate[d])
    <3>1. \A d : Promise!First(d) => d \in Promise!Pending
      BY DEF Promise!First
    <3>2. QED
      BY <1>4, <1>5, <3>1
  <2>2. QED
    BY <1>3, <2>1 DEF Emitted
<1>7. arrived' = arrived
  BY DEF Restart
<1>8. f \in {"failed", "lost"}
  OBVIOUS
<1> HIDE DEF f
<1>9. QED
  BY <1>6, <1>7, <1>8 DEF Promise!Stop

\* A step of the sink is a step of Delivery or changes nothing it speaks of.
LEMMA StepRefines == ASSUME SinkIInv, [SinkNext]_sinkVars PROVE [Promise!Next]_<<fate, arrived>>
<1>1. CASE Restart
  BY <1>1, RestartStops DEF Promise!Next
<1>2. ASSUME NEW t \in Tasks, Emit(t) PROVE Promise!Next
  <2>1. Promise!Emit
    BY <1>2 DEF Emit, Promise!Emit
  <2>2. QED
    BY <2>1 DEF Promise!Next
<1>3. ASSUME NEW e \in Emitted, Answered(e) \/ Failed(e) PROVE Promise!Next
  <2>1. Promise!First(e)
    BY <1>3, HeldIsFirst DEF Answered, Failed
  <2>2. Promise!Settle(e)
    BY <1>3, <2>1, SameRange DEF Answered, Failed, Promise!Settle
  <2>3. QED
    BY <2>2 DEF Promise!Next, Emitted
<1>4. ASSUME NEW e \in Emitted, PostArrives(e) PROVE Promise!Next
  <2>1. e \in wire /\ arrived' = Append(arrived, e) /\ fate' = fate
    BY <1>4 DEF PostArrives
  <2>2. e \notin Range(arrived) /\ (fate[e] = "failed" \/ (e \in posting /\ fate[e] = "pending"))
    BY <2>1 DEF SinkIInv, WirePart
  <2>3. fate[e] = "failed" \/ Promise!First(e)
    <3>1. CASE e \in posting /\ fate[e] = "pending"
      <4>1. result = {}
        BY <3>1 DEF SinkIInv, KnownPart
      <4>2. QED
        BY <3>1, <4>1, HeldIsFirst DEF Waiting
    <3>2. QED
      BY <2>2, <3>1
  <2>4. Promise!Arrive(e)
    BY <2>1, <2>2, <2>3, SameRange DEF Promise!Arrive
  <2>5. QED
    BY <2>4 DEF Promise!Next, Emitted
<1>5. ASSUME \/ Receive
             \/ \E t \in Tasks : CountDrop(t)
             \/ \E e \in Emitted : RecordDelivery(e)
             \/ UNCHANGED sinkVars
      PROVE  UNCHANGED <<fate, arrived>>
  BY <1>5 DEF Receive, CountDrop, RecordDelivery, sinkVars
<1>6. QED
  BY <1>1, <1>2, <1>3, <1>4, <1>5 DEF SinkNext

\* The sink implements Delivery: at most once, acknowledged in the order of emission,
\* without waiting, with every loss accounted.
THEOREM RefinesHolds == SinkSpec => Refines
<1>1. SinkInit => Promise!Init
  BY DEF SinkInit, Promise!Init
<1>2. QED
  BY <1>1, StepRefines, SinkInductive, PTL DEF SinkSpec, Refines, Promise!Spec, Promise!vars

-----------------------------------------------------------------------------
(* The NER pool *)

NerTypePart ==
    /\ NerTypeOK
    /\ given \in Seq(Results) /\ Len(given) = Len(text)

\* A caller that is inside detect_spans has a call of its own.
OwnPart ==
    /\ \A c \in Callers : asking[c] # "none" => call[c] \in Calls
    /\ \A c, d \in Callers :
          asking[c] # "none" /\ asking[d] # "none" /\ call[c] = call[d] => c = d

\* A worker that has panicked runs no job.
WorkerPart == \A w \in Workers : work[w] # NoCall => w \in alive

\* A reply is about the job it was made for, whenever it comes.
ReplyPart == \A k \in DOMAIN reply : reply[k] \in {text[k], "failed"}

\* What is about to be cached is the verdict on the call's text.
StoringPart == \A c \in Callers : asking[c] = "storing" => given[call[c]] = text[call[c]]

NerIInv == NerTypePart /\ OwnPart /\ WorkerPart /\ ReplyPart /\ StoringPart /\ AnswerOfItsText

LEMMA NerInitHolds == NerInit => NerIInv
<1> SUFFICES ASSUME NerInit PROVE NerIInv
  OBVIOUS
<1>1. text = <<>> /\ given = <<>> /\ cache = <<>> /\ jobs = <<>> /\ Calls = {} /\ DOMAIN reply = {}
  BY DEF NerInit, Calls
<1>2. NerTypePart
  <2>1. text \in Seq(Phrases) /\ given \in Seq(Results) /\ cache \in Seq(Phrases \X Phrases) /\ jobs \in Seq(Calls)
    BY <1>1, EmptySeq
  <2>2. call \in [Callers -> 0 .. Len(text)] /\ work \in [Workers -> Calls \cup {NoCall}]
    BY <1>1 DEF NerInit, NoCall
  <2>3. asking \in [Callers -> {"none", "miss", "waiting", "storing"}]
    BY DEF NerInit
  <2>4. given \in [Calls -> Results] /\ Range(reply) = {}
    BY <1>1 DEF Range
  <2>5. Len(given) = Len(text) /\ Len(jobs) <= QueueCapacity /\ Len(cache) <= CacheCapacity
    BY <1>1, NerPoolAssumption
  <2>6. alive \subseteq Workers /\ hung \subseteq alive /\ panics \in 0 .. MaxPanics
    BY NerPoolAssumption DEF NerInit
  <2>7. QED
    BY <1>1, <2>1, <2>2, <2>3, <2>4, <2>5, <2>6 DEF NerTypePart, NerTypeOK
<1>3. OwnPart /\ WorkerPart /\ ReplyPart /\ StoringPart
  BY <1>1 DEF NerInit, OwnPart, WorkerPart, ReplyPart, StoringPart
<1>4. AnswerOfItsText
  BY <1>1 DEF AnswerOfItsText, Range
<1>5. QED
  BY <1>2, <1>3, <1>4 DEF NerIInv

\* The entry that was used last is an entry as before: same text, same verdict.
LEMMA TouchedCache ==
    ASSUME NEW t \in Phrases, NEW v \in Phrases,
           cache \in Seq(Phrases \X Phrases)
    PROVE  /\ Touched(t, v) \in Seq(Phrases \X Phrases)
           /\ Len(Touched(t, v)) = IF t \in Keys THEN Len(cache) ELSE Len(cache) + 1
           /\ \A e \in Range(Touched(t, v)) : e = <<t, v>> \/ e \in Range(cache)
<1> DEFINE E == Phrases \X Phrases
           rest == IF t \in Keys THEN RemoveAt(cache, CHOOSE i \in DOMAIN cache : cache[i][1] = t) ELSE cache
<1>1. /\ rest \in Seq(E) /\ Range(rest) \subseteq Range(cache)
      /\ Len(rest) = IF t \in Keys THEN Len(cache) - 1 ELSE Len(cache)
  <2>1. CASE t \in Keys
    <3> DEFINE i == CHOOSE j \in DOMAIN cache : cache[j][1] = t
    <3>1. \E j \in DOMAIN cache : cache[j][1] = t
      BY <2>1 DEF Keys, Range
    <3>2. i \in DOMAIN cache
      BY <3>1
    <3> HIDE DEF i
    <3>3. i \in 1 .. Len(cache) /\ Len(cache) \in Nat /\ \A j \in 1 .. Len(cache) : cache[j] \in E
      BY <3>2
    <3> DEFINE a == SubSeq(cache, 1, i - 1)
               b == SubSeq(cache, i + 1, Len(cache))
    <3>4. a \in Seq(E) /\ Len(a) = i - 1 /\ \A j \in 1 .. i - 1 : a[j] = cache[j]
      BY <3>3
    <3>5. b \in Seq(E) /\ Len(b) = Len(cache) - i /\ \A j \in 1 .. Len(cache) - i : b[j] = cache[i + j]
      BY <3>3
    <3> HIDE DEF a, b
    <3>6. a \o b \in Seq(E) /\ Len(a \o b) = Len(a) + Len(b) /\ Range(a \o b) = Range(a) \cup Range(b)
      BY <3>4, <3>5, ConcatProperties, RangeConcatenation, ZenonT(60)
    <3>7. Range(a) \subseteq Range(cache) /\ Range(b) \subseteq Range(cache)
      <4>1. ASSUME NEW j \in DOMAIN a PROVE a[j] \in Range(cache)
        BY <3>3, <3>4 DEF Range
      <4>2. ASSUME NEW j \in DOMAIN b PROVE b[j] \in Range(cache)
        <5>1. j \in 1 .. Len(cache) - i /\ i + j \in DOMAIN cache
          BY <3>3, <3>5
        <5>2. QED
          BY <3>5, <5>1 DEF Range
      <4>3. QED
        BY <4>1, <4>2 DEF Range
    <3>8. rest = a \o b
      BY <2>1 DEF RemoveAt, a, b, i
    <3>9. QED
      <4>1. Len(rest) = Len(cache) - 1
        BY <3>3, <3>4, <3>5, <3>6, <3>8
      <4>2. QED
        BY <2>1, <3>6, <3>7, <3>8, <4>1
  <2>2. CASE t \notin Keys
    BY <2>2
  <2>3. QED
    BY <2>1, <2>2
<1>2. Touched(t, v) = Append(rest, <<t, v>>)
  BY DEF Touched
<1> HIDE DEF rest
<1>3. <<t, v>> \in E /\ Len(cache) \in Nat
  OBVIOUS
<1>4. /\ Append(rest, <<t, v>>) \in Seq(E) /\ Len(Append(rest, <<t, v>>)) = Len(rest) + 1
      /\ \A i \in DOMAIN Append(rest, <<t, v>>) :
            Append(rest, <<t, v>>)[i] = <<t, v>> \/ Append(rest, <<t, v>>)[i] \in Range(rest)
  BY <1>1, <1>3, AppendProperties DEF Range
<1>5. \A e \in Range(Touched(t, v)) : e = <<t, v>> \/ e \in Range(cache)
  BY <1>1, <1>2, <1>4 DEF Range
<1>6. QED
  <2>1. Len(Touched(t, v)) = IF t \in Keys THEN Len(cache) ELSE Len(cache) + 1
    BY <1>1, <1>2, <1>3, <1>4
  <2>2. QED
    BY <1>2, <1>4, <1>5, <2>1

\* What the verdict cache holds after it was read or written.
CacheOK ==
    /\ cache \in Seq(Phrases \X Phrases) /\ Len(cache) <= CacheCapacity
    /\ \A e \in Range(cache) : e[2] = e[1]

LEMMA CachedVerdict ==
    ASSUME CacheOK, NEW t \in Keys
    PROVE  t \in Phrases /\ Cached(t) = t /\ cache # <<>>
<1>1. PICK e \in Range(cache) : e[1] = t
  BY DEF Keys
<1>2. \A x \in Range(cache) : x[1] \in Phrases
  BY DEF CacheOK, Range
<1>3. Cached(t) = t
  BY <1>1 DEF Cached, CacheOK
<1>4. cache # <<>>
  BY <1>1 DEF Range
<1>5. QED
  BY <1>1, <1>2, <1>3, <1>4

\* An entry for what was found in the cache, and one for a new verdict.
LEMMA CacheStays ==
    ASSUME CacheOK, NEW t \in Phrases,
           \/ t \in Keys /\ cache' = Touched(t, Cached(t))
           \/ cache' = cache
           \/ CacheCapacity # 0 /\ cache' = Evicted(t, t)
    PROVE  CacheOK'
<1>1. Len(cache) \in Nat /\ Len(cache) <= CacheCapacity /\ CacheCapacity \in Nat /\ cache \in Seq(Phrases \X Phrases)
  BY NerPoolAssumption DEF CacheOK
<1>a. /\ Touched(t, t) \in Seq(Phrases \X Phrases)
      /\ Len(Touched(t, t)) = IF t \in Keys THEN Len(cache) ELSE Len(cache) + 1
      /\ \A e \in Range(Touched(t, t)) : e = <<t, t>> \/ e \in Range(cache)
  BY <1>1, TouchedCache
<1>2. CASE cache' = Touched(t, t) /\ (t \in Keys \/ Len(cache) < CacheCapacity)
  <2>1. \A e \in Range(cache') : e[2] = e[1]
    BY <1>2, <1>a DEF CacheOK
  <2>2. cache' \in Seq(Phrases \X Phrases) /\ Len(cache') <= CacheCapacity
    BY <1>1, <1>2, <1>a
  <2>3. QED
    BY <2>1, <2>2 DEF CacheOK
<1>3. CASE cache' = cache
  BY <1>3 DEF CacheOK
<1>4. CASE cache' = Tail(Touched(t, t)) /\ t \notin Keys /\ Len(cache) >= CacheCapacity
  <2> DEFINE full == Touched(t, t)
  <2>1. /\ full \in Seq(Phrases \X Phrases) /\ Len(full) = Len(cache) + 1
        /\ \A e \in Range(full) : e[2] = e[1]
    BY <1>1, <1>4, <1>a DEF CacheOK
  <2> HIDE DEF full
  <2>2. full # <<>>
    BY <1>1, <2>1
  <2>3. /\ Tail(full) \in Seq(Phrases \X Phrases) /\ Len(Tail(full)) = Len(full) - 1
        /\ \A i \in DOMAIN Tail(full) : i + 1 \in DOMAIN full /\ Tail(full)[i] = full[i + 1]
    BY <2>1, <2>2, HeadTailProperties
  <2>4. \A e \in Range(Tail(full)) : e \in Range(full)
    BY <2>3 DEF Range
  <2>5. QED
    BY <1>1, <1>4, <2>1, <2>3, <2>4 DEF CacheOK, full
<1>5. CASE t \in Keys /\ cache' = Touched(t, Cached(t))
  BY <1>2, <1>5, CachedVerdict
<1>6. CASE CacheCapacity # 0 /\ cache' = Evicted(t, t)
  <2>1. CASE t \notin Keys /\ cache # <<>> /\ Len(cache) >= CacheCapacity
    BY <1>4, <1>6, <2>1 DEF Evicted
  <2>2. CASE ~(t \notin Keys /\ cache # <<>> /\ Len(cache) >= CacheCapacity)
    <3>1. cache' = Touched(t, t)
      BY <1>6, <2>2 DEF Evicted
    <3>2. cache = <<>> => Len(cache) = 0
      OBVIOUS
    <3>3. t \in Keys \/ Len(cache) < CacheCapacity
      BY <1>1, <1>6, <2>2, <3>2
    <3>4. QED
      BY <1>2, <3>1, <3>3
  <2>3. QED
    BY <2>1, <2>2
<1>7. QED
  BY <1>3, <1>5, <1>6

LEMMA NerNumbers ==
    ASSUME NerIInv
    PROVE  /\ Calls = 1 .. Len(text) /\ Len(text) \in Nat /\ CacheOK
           /\ DOMAIN given = Calls /\ \A k \in Calls : text[k] \in Phrases /\ k \in Nat /\ k # NoCall
           /\ \A k \in Calls : given[k] \in Results
           /\ \A k \in DOMAIN reply : k \in Calls
           /\ \A w \in Workers : work[w] # NoCall => work[w] \in Calls
           /\ DOMAIN jobs = 1 .. Len(jobs) /\ Len(jobs) \in Nat /\ \A i \in DOMAIN jobs : jobs[i] \in Calls
<1>1. NerTypeOK
  BY DEF NerIInv, NerTypePart
<1>2. Calls = 1 .. Len(text) /\ Len(text) \in Nat
  BY <1>1 DEF NerTypeOK, Calls
<1>3. CacheOK
  BY <1>1 DEF NerIInv, CacheOK, NerTypeOK, AnswerOfItsText
<1>4. DOMAIN given = Calls /\ \A k \in Calls : given[k] \in Results
  BY <1>1 DEF NerTypeOK
<1>5. \A k \in Calls : text[k] \in Phrases /\ k \in Nat /\ k # NoCall
  BY <1>1, <1>2 DEF NerTypeOK, NoCall
<1>6. \A k \in DOMAIN reply : k \in Calls
  BY <1>1 DEF NerTypeOK
<1>7. \A w \in Workers : work[w] # NoCall => work[w] \in Calls
  BY <1>1 DEF NerTypeOK
<1>8. DOMAIN jobs = 1 .. Len(jobs) /\ Len(jobs) \in Nat /\ \A i \in DOMAIN jobs : jobs[i] \in Calls
  BY <1>1 DEF NerTypeOK
<1>9. QED
  BY <1>2, <1>3, <1>4, <1>5, <1>6, <1>7, <1>8

\* A call begins: its text and its result get the next place.
LEMMA AskStep ==
    ASSUME NerIInv, NEW c \in Callers, NEW t \in Phrases, Ask(c, t)
    PROVE  NerIInv'
<1> DEFINE k == Len(text) + 1
           hit == t \in Keys
           g == IF hit THEN Cached(t) ELSE "pending"
<1>1. /\ asking[c] = "none" /\ text' = Append(text, t) /\ given' = Append(given, g)
      /\ cache' = IF hit THEN Touched(t, Cached(t)) ELSE cache
      /\ asking' = [asking EXCEPT ![c] = IF hit THEN "none" ELSE "miss"]
      /\ call' = [call EXCEPT ![c] = IF hit THEN NoCall ELSE k]
      /\ UNCHANGED <<jobs, work, alive, hung, reply, panics>>
  BY DEF Ask
<1>2. NerTypeOK /\ given \in Seq(Results) /\ Len(given) = Len(text)
  BY DEF NerIInv, NerTypePart
<1>3. g \in {t, "pending"} /\ g \in Results
  BY NerNumbers, CachedVerdict DEF Results
<1> HIDE DEF g
<1>4. /\ text' \in Seq(Phrases) /\ Len(text') = k /\ Calls' = Calls \cup {k} /\ k \notin Calls /\ k \in Nat
      /\ text'[k] = t /\ \A j \in Calls : text'[j] = text[j]
  BY <1>1, <1>2, NerNumbers DEF NerTypeOK, Calls
<1>5. /\ given' \in Seq(Results) /\ Len(given') = k /\ DOMAIN given' = Calls'
      /\ given'[k] = g /\ \A j \in Calls : given'[j] = given[j]
  BY <1>1, <1>2, <1>3, <1>4, NerNumbers
<1>6. CacheOK'
  BY <1>1, NerNumbers, CacheStays
<1>7. NerTypePart'
  <2>1. call' \in [Callers -> 0 .. Len(text')]
    BY <1>1, <1>2, <1>4, NerNumbers DEF NerTypeOK, NoCall
  <2>2. asking' \in [Callers -> {"none", "miss", "waiting", "storing"}]
    BY <1>1, <1>2 DEF NerTypeOK
  <2>3. jobs' \in Seq(Calls') /\ Len(jobs') <= QueueCapacity
    BY <1>1, <1>2, <1>4, SeqMonotonic DEF NerTypeOK
  <2>4. given' \in [Calls' -> Results]
    <3>1. given' \in [DOMAIN given' -> Results]
      BY <1>5
    <3>2. QED
      BY <1>5, <3>1, Zenon
  <2>5. work' \in [Workers -> Calls' \cup {NoCall}]
    BY <1>1, <1>2, <1>4 DEF NerTypeOK
  <2>6. DOMAIN reply' \subseteq Calls' /\ Range(reply') \subseteq Phrases \cup {"failed"}
    BY <1>1, <1>2, <1>4 DEF NerTypeOK
  <2>7. alive' \subseteq Workers /\ hung' \subseteq alive' /\ panics' \in 0 .. MaxPanics
    BY <1>1, <1>2 DEF NerTypeOK
  <2>8. QED
    BY <1>4, <1>5, <1>6, <2>1, <2>2, <2>3, <2>4, <2>5, <2>6, <2>7 DEF NerTypePart, NerTypeOK, CacheOK
<1>8. OwnPart'
  <2>1. \A d \in Callers : d # c => asking'[d] = asking[d] /\ call'[d] = call[d]
    BY <1>1, <1>2 DEF NerTypeOK
  <2>2. asking'[c] # "none" => call'[c] = k
    BY <1>1, <1>2 DEF NerTypeOK
  <2>3. QED
    BY <1>4, <2>1, <2>2 DEF NerIInv, OwnPart
<1>9. WorkerPart'
  BY <1>1 DEF NerIInv, WorkerPart
<1>10. ReplyPart'
  BY <1>1, <1>4, NerNumbers DEF NerIInv, ReplyPart
<1>11. StoringPart'
  BY <1>1, <1>2, <1>4, <1>5 DEF NerIInv, OwnPart, StoringPart, NerTypeOK
<1>12. AnswerOfItsText'
  <2>1. \A j \in Calls' : given'[j] \in {text'[j], "pending"} \cup Errors
    BY <1>3, <1>4, <1>5 DEF NerIInv, AnswerOfItsText
  <2>2. QED
    BY <1>6, <2>1 DEF AnswerOfItsText, CacheOK
<1>13. QED
  BY <1>7, <1>8, <1>9, <1>10, <1>11, <1>12 DEF NerIInv

\* A call ends with the verdict on its text or an error, or gets the verdict and is
\* about to cache it.
LEMMA ResultStep ==
    ASSUME NerIInv, NEW c \in Callers, NEW r, asking[c] # "none",
           r \in {text[call[c]]} \cup Errors,
           given' = [given EXCEPT ![call[c]] = r],
           \/ /\ asking' = [asking EXCEPT ![c] = "none"]
              /\ call' = [call EXCEPT ![c] = NoCall]
           \/ /\ asking' = [asking EXCEPT ![c] = "storing"]
              /\ call' = call /\ r = text[call[c]],
           CacheOK', UNCHANGED <<jobs, work, alive, hung, reply, text, panics>>
    PROVE  NerIInv'
<1> DEFINE k == call[c]
<1>1. NerTypeOK /\ given \in Seq(Results) /\ Len(given) = Len(text)
  BY DEF NerIInv, NerTypePart
<1>2. k \in Calls /\ \A d \in Callers : d # c /\ asking[d] # "none" => call[d] # k
  BY DEF NerIInv, OwnPart
<1>3. r \in Results
  BY <1>2, NerNumbers DEF Results
<1>4. /\ given' \in Seq(Results) /\ Len(given') = Len(text) /\ given' \in [Calls -> Results]
      /\ given'[k] = r /\ \A j \in Calls : j # k => given'[j] = given[j]
  BY <1>1, <1>2, <1>3, NerNumbers, ExceptSeq
<1>5. Calls' = Calls
  BY DEF Calls
<1>6. \A d \in Callers : d # c => asking'[d] = asking[d] /\ call'[d] = call[d]
  BY <1>1 DEF NerTypeOK
<1>7. \/ asking'[c] = "none"
      \/ asking'[c] = "storing" /\ call'[c] = k /\ r = text[k]
  BY <1>1 DEF NerTypeOK
<1>8. NerTypePart'
  <2>1. asking' \in [Callers -> {"none", "miss", "waiting", "storing"}]
    BY <1>1 DEF NerTypeOK
  <2>2. call' \in [Callers -> 0 .. Len(text)]
    <3>1. call \in [Callers -> 0 .. Len(text)]
      BY <1>1 DEF NerTypeOK
    <3>2. NoCall \in 0 .. Len(text)
      BY NerNumbers DEF NoCall
    <3>3. call' = call \/ call' = [call EXCEPT ![c] = NoCall]
      OBVIOUS
    <3> QED
      BY <3>1, <3>2, <3>3, Zenon
  <2>3. QED
    BY <1>1, <1>4, <1>5, <2>1, <2>2 DEF NerTypePart, NerTypeOK, CacheOK
<1>9. OwnPart'
  BY <1>2, <1>5, <1>6, <1>7 DEF NerIInv, OwnPart
<1>10. WorkerPart' /\ ReplyPart'
  BY DEF NerIInv, WorkerPart, ReplyPart
<1>11. StoringPart'
  <2>1. ASSUME NEW d \in Callers, asking'[d] = "storing" PROVE given'[call'[d]] = text'[call'[d]]
    <3>1. CASE d = c
      BY <1>4, <1>7, <2>1, <3>1
    <3>2. CASE d # c
      BY <1>2, <1>4, <1>6, <2>1, <3>2 DEF NerIInv, OwnPart, StoringPart
    <3>3. QED
      BY <3>1, <3>2
  <2>2. QED
    BY <2>1 DEF StoringPart
<1>12. AnswerOfItsText'
  BY <1>4, <1>5 DEF NerIInv, AnswerOfItsText, CacheOK
<1>13. QED
  BY <1>8, <1>9, <1>10, <1>11, <1>12 DEF NerIInv

LEMMA CacheUnchanged == ASSUME NerIInv, cache' = cache PROVE CacheOK'
  BY NerNumbers DEF CacheOK

LEMMA FinishStep ==
    ASSUME NerIInv, NEW c \in Callers, NEW r, asking[c] # "none",
           r \in {text[call[c]]} \cup Errors, Finish(c, r), CacheOK',
           UNCHANGED <<jobs, work, alive, hung, reply, text, panics>>
    PROVE  NerIInv'
  BY ResultStep DEF Finish

LEMMA SubmitStep == ASSUME NerIInv, NEW c \in Callers, Submit(c) PROVE NerIInv'
<1>1. /\ asking[c] = "miss" /\ UNCHANGED <<work, alive, hung, reply, cache, text, panics>>
  BY DEF Submit
<1>2. CASE alive # {} /\ Room
  <2>1. /\ jobs' = Append(jobs, call[c]) /\ asking' = [asking EXCEPT ![c] = "waiting"]
        /\ UNCHANGED <<call, given>>
    BY <1>2 DEF Submit
  <2>2. NerTypeOK /\ call[c] \in Calls
    BY <1>1 DEF NerIInv, NerTypePart, OwnPart
  <2>3. jobs' \in Seq(Calls) /\ Len(jobs') <= QueueCapacity
    BY <1>2, <2>1, <2>2, NerNumbers, NerPoolAssumption DEF NerTypeOK, Room
  <2>4. \A d \in Callers : d # c => asking'[d] = asking[d]
    BY <2>1, <2>2 DEF NerTypeOK
  <2>5. asking'[c] = "waiting" /\ Calls' = Calls
    BY <1>1, <2>1, <2>2 DEF NerTypeOK, Calls
  <2>6. NerTypePart'
    BY <1>1, <2>1, <2>2, <2>3, <2>5 DEF NerIInv, NerTypePart, NerTypeOK
  <2>7. OwnPart' /\ StoringPart'
    BY <1>1, <2>1, <2>4, <2>5 DEF NerIInv, OwnPart, StoringPart
  <2>8. WorkerPart' /\ ReplyPart' /\ AnswerOfItsText'
    BY <1>1, <2>1, <2>5 DEF NerIInv, WorkerPart, ReplyPart, AnswerOfItsText
  <2>9. QED
    BY <2>6, <2>7, <2>8 DEF NerIInv
<1>3. CASE ~(alive # {} /\ Room)
  <2>1. Finish(c, "unavailable") /\ jobs' = jobs
    BY <1>3 DEF Submit
  <2>2. QED
    BY <1>1, <2>1, CacheUnchanged, FinishStep DEF Errors
<1>4. QED
  BY <1>2, <1>3

LEMMA ReceiveReplyStep == ASSUME NerIInv, NEW c \in Callers, ReceiveReply(c) PROVE NerIInv'
<1>1. /\ asking[c] = "waiting" /\ UNCHANGED <<jobs, work, alive, hung, reply, cache, text, panics>>
  BY DEF ReceiveReply
<1>2. PICK k \in ReplyTo(c) :
        IF reply[k] \in Errors THEN Finish(c, reply[k])
        ELSE /\ given' = [given EXCEPT ![call[c]] = reply[k]]
             /\ asking' = [asking EXCEPT ![c] = "storing"]
             /\ UNCHANGED call
  BY DEF ReceiveReply
<1>3. k = call[c] /\ reply[k] \in {text[call[c]], "failed"}
  BY <1>2 DEF ReplyTo, NerIInv, ReplyPart
<1>4. CacheOK'
  BY <1>1, CacheUnchanged
<1>5. CASE reply[k] \in Errors
  BY <1>1, <1>2, <1>4, <1>5, FinishStep
<1>6. CASE reply[k] \notin Errors
  <2>1. reply[k] = text[call[c]]
    BY <1>3, <1>6 DEF Errors
  <2>2. QED
    BY <1>1, <1>2, <1>4, <1>6, <2>1, ResultStep
<1>7. QED
  BY <1>5, <1>6

LEMMA StoreVerdictStep == ASSUME NerIInv, NEW c \in Callers, StoreVerdict(c) PROVE NerIInv'
<1> DEFINE t == text[call[c]]
<1>1. /\ asking[c] = "storing" /\ Finish(c, given[call[c]])
      /\ cache' = IF CacheCapacity = 0 THEN cache ELSE Evicted(t, given[call[c]])
      /\ UNCHANGED <<jobs, work, alive, hung, reply, text, panics>>
  BY DEF StoreVerdict
<1>2. given[call[c]] = t /\ t \in Phrases
  BY <1>1, NerNumbers DEF NerIInv, StoringPart, OwnPart
<1>3. CacheOK'
  BY <1>1, <1>2, NerNumbers, CacheStays
<1>4. QED
  BY <1>1, <1>2, <1>3, FinishStep

\* Workers do not touch the calls.
LEMMA WorkerStep ==
    ASSUME NerIInv, UNCHANGED <<call, asking, cache, text, given>>,
           jobs' \in Seq(Calls), Len(jobs') <= QueueCapacity,
           work' \in [Workers -> Calls \cup {NoCall}], WorkerPart',
           alive' \subseteq Workers, hung' \subseteq alive', panics' \in 0 .. MaxPanics,
           DOMAIN reply' \subseteq Calls, \A k \in DOMAIN reply' : reply'[k] \in {text[k], "failed"}
    PROVE  NerIInv'
<1>1. Calls' = Calls
  BY DEF Calls
<1>2. Range(reply') \subseteq Phrases \cup {"failed"}
  BY NerNumbers DEF Range
<1>3. NerTypePart'
  BY <1>1, <1>2 DEF NerIInv, NerTypePart, NerTypeOK
<1>4. OwnPart' /\ StoringPart' /\ AnswerOfItsText'
  BY <1>1 DEF NerIInv, OwnPart, StoringPart, AnswerOfItsText
<1>5. ReplyPart'
  BY DEF ReplyPart
<1>6. QED
  BY <1>3, <1>4, <1>5 DEF NerIInv

LEMMA RunStep ==
    ASSUME NerIInv, NEW w \in Workers, TakeJob(w) \/ AnswerJob(w) \/ Panic(w) \/ Hang(w)
    PROVE  NerIInv'
<1>1. NerTypeOK
  BY DEF NerIInv, NerTypePart
<1>2. /\ jobs \in Seq(Calls) /\ Len(jobs) <= QueueCapacity
      /\ work \in [Workers -> Calls \cup {NoCall}] /\ WorkerPart
      /\ alive \subseteq Workers /\ hung \subseteq alive /\ panics \in 0 .. MaxPanics
      /\ DOMAIN reply \subseteq Calls /\ \A k \in DOMAIN reply : reply[k] \in {text[k], "failed"}
  BY <1>1 DEF NerIInv, NerTypeOK, ReplyPart
<1>3. CASE TakeJob(w)
  <2>1. /\ w \in alive /\ jobs # <<>> /\ work' = [work EXCEPT ![w] = Head(jobs)] /\ jobs' = Tail(jobs)
        /\ UNCHANGED <<call, asking, alive, hung, reply, cache, text, given, panics>>
    BY <1>3 DEF TakeJob
  <2>2. Head(jobs) \in Calls /\ Tail(jobs) \in Seq(Calls) /\ Len(Tail(jobs)) = Len(jobs) - 1
    BY <1>2, <2>1, HeadTailProperties
  <2>3. Len(jobs') <= QueueCapacity
    BY <1>2, <2>1, <2>2, NerNumbers, NerPoolAssumption
  <2>4. work' \in [Workers -> Calls \cup {NoCall}] /\ WorkerPart'
    BY <1>2, <2>1, <2>2 DEF WorkerPart
  <2>5. QED
    BY <1>2, <2>1, <2>2, <2>3, <2>4, WorkerStep
<1>4. CASE AnswerJob(w)
  <2>1. PICK v \in {text[work[w]], "failed"} : reply' = Replied(work[w], v)
    BY <1>4 DEF AnswerJob
  <2>2. /\ work[w] # NoCall /\ work' = [work EXCEPT ![w] = NoCall]
        /\ UNCHANGED <<call, asking, jobs, alive, hung, cache, text, given, panics>>
    BY <1>4 DEF AnswerJob
  <2>3. work[w] \in Calls
    BY <2>2, NerNumbers
  <2>4. /\ DOMAIN reply' = DOMAIN reply \cup {work[w]}
        /\ \A k \in DOMAIN reply' : reply'[k] = IF k \in DOMAIN reply THEN reply[k] ELSE v
    BY <2>1 DEF Replied
  <2>5. DOMAIN reply' \subseteq Calls /\ \A k \in DOMAIN reply' : reply'[k] \in {text[k], "failed"}
    BY <1>2, <2>1, <2>3, <2>4
  <2>6. work' \in [Workers -> Calls \cup {NoCall}] /\ WorkerPart'
    BY <1>2, <2>2 DEF WorkerPart
  <2>7. QED
    BY <1>2, <2>2, <2>5, <2>6, WorkerStep
<1>5. CASE Panic(w)
  <2>1. /\ work[w] # NoCall /\ w \notin hung /\ panics < MaxPanics /\ panics' = panics + 1
        /\ work' = [work EXCEPT ![w] = NoCall] /\ alive' = alive \ {w}
        /\ jobs' = IF alive' = {} THEN <<>> ELSE jobs
        /\ UNCHANGED <<call, asking, hung, reply, cache, text, given>>
    BY <1>5 DEF Panic
  <2>2. jobs' \in Seq(Calls) /\ Len(jobs') <= QueueCapacity
    BY <1>2, <2>1, EmptySeq, NerPoolAssumption
  <2>3. work' \in [Workers -> Calls \cup {NoCall}] /\ WorkerPart'
    BY <1>2, <2>1 DEF WorkerPart
  <2>4. alive' \subseteq Workers /\ hung' \subseteq alive' /\ panics' \in 0 .. MaxPanics
    BY <1>2, <2>1, NerPoolAssumption
  <2>5. QED
    BY <1>2, <2>1, <2>2, <2>3, <2>4, WorkerStep
<1>6. CASE Hang(w)
  <2>1. /\ work[w] # NoCall /\ panics < MaxPanics /\ panics' = panics + 1 /\ hung' = hung \cup {w}
        /\ UNCHANGED <<call, asking, jobs, work, alive, reply, cache, text, given>>
    BY <1>6 DEF Hang
  <2>2. hung' \subseteq alive' /\ panics' \in 0 .. MaxPanics /\ WorkerPart'
    BY <1>2, <2>1, NerPoolAssumption DEF WorkerPart
  <2>3. QED
    BY <1>2, <2>1, <2>2, WorkerStep
<1>7. QED
  BY <1>3, <1>4, <1>5, <1>6

LEMMA NerStepHolds == NerIInv /\ [NerNext]_nerVars => NerIInv'
<1> SUFFICES ASSUME NerIInv, [NerNext]_nerVars PROVE NerIInv'
  OBVIOUS
<1>1. ASSUME NEW c \in Callers, Submit(c) \/ ReceiveReply(c) \/ StoreVerdict(c) PROVE NerIInv'
  BY <1>1, SubmitStep, ReceiveReplyStep, StoreVerdictStep
<1>2. ASSUME NEW c \in Callers, TimeOut(c) PROVE NerIInv'
  BY <1>2, CacheUnchanged, FinishStep DEF TimeOut, Errors
<1>3. ASSUME NEW c \in Callers, Disconnected(c) PROVE NerIInv'
  BY <1>3, CacheUnchanged, FinishStep DEF Disconnected, Errors
<1>4. ASSUME NEW c \in Callers, NEW t \in Phrases, Ask(c, t) PROVE NerIInv'
  BY <1>4, AskStep
<1>5. ASSUME NEW w \in Workers, TakeJob(w) \/ AnswerJob(w) \/ Panic(w) \/ Hang(w) PROVE NerIInv'
  BY <1>5, RunStep
<1>6. CASE UNCHANGED nerVars
  BY <1>6 DEF nerVars, NerIInv, NerTypePart, NerTypeOK, OwnPart, WorkerPart, ReplyPart, StoringPart, AnswerOfItsText, Calls
<1>7. QED
  BY <1>1, <1>2, <1>3, <1>4, <1>5, <1>6 DEF NerNext, Proceed

\* Each caller has a call of its own, and replies are about the job they were made for.
THEOREM NerInductive == NerSpec => []NerIInv
  BY NerInitHolds, NerStepHolds, PTL DEF NerSpec

\* The variables of the pool keep their types; the queue and the verdict cache keep
\* within their capacities.
THEOREM NerTypeCorrect == NerSpec => []NerTypeOK
<1>1. NerIInv => NerTypeOK
  BY DEF NerIInv, NerTypePart
<1>2. QED
  BY <1>1, NerInductive, PTL

\* A call gets the verdict on its own text or an error, and so does the cache,
\* whenever replies come and however often the model panics.
THEOREM AnswerHolds == NerSpec => []AnswerOfItsText
<1>1. NerIInv => AnswerOfItsText
  BY DEF NerIInv
<1>2. QED
  BY <1>1, NerInductive, PTL
-----------------------------------------------------------------------------
(* The inductive invariant of the trace writer *)

TraceTypePart == TraceTypeOK /\ IsFiniteSet(rotated) /\ IsFiniteSet(archives)

\* What the worker has in hand at each place.
PlacePart ==
    /\ at = "rotate" => active # {}
    /\ at \notin {"fill", "remove", "prune"} => job = {}
    /\ at \in {"fill", "remove"} => job = rotated
    /\ at = "fill" => \E a \in archives :
          /\ a.name = target /\ a.entries = {} /\ ~a.whole
          /\ \A b \in archives : b.name = target => b = a
    /\ stage = "stopped" => traceQueue = <<>>

\* A file holds what was written, no later than the file was.
Dated(f) == \A e \in f.entries : e \in DOMAIN written /\ written[e] <= f.mtime
DatedPart ==
    /\ active \subseteq DOMAIN written
    /\ \A f \in rotated : Dated(f)
    /\ \A f \in archives : Dated(f)

\* What waits is not written yet and comes once.
WaitingPart ==
    /\ DOMAIN written \subseteq 1 .. emitted
    /\ \A i \in DOMAIN traceQueue :
          traceQueue[i] \notin DOMAIN written /\ traceQueue[i] \in 1 .. emitted
    /\ \A i, j \in DOMAIN traceQueue : i < j => traceQueue[i] < traceQueue[j]

\* Without failures and kills every entry is written, waiting or dropped.
CountPart ==
    faults = 0 => Cardinality(DOMAIN written) + Len(traceQueue) + traceDropped = emitted

\* Originals are removed once an archive has what they hold.
Archived == Contents({a \in archives : a.whole})
KeptPart ==
    /\ \A e \in DOMAIN written : today - written[e] <= Retention => e \in Readable
    /\ at = "remove" => Contents(job) \subseteq Archived

\* An entry is in one file, but while originals are being removed.
Apart(fs) == \A f, g \in fs : f.entries \cap g.entries # {} => f = g
OncePart ==
    ~doubled =>
        /\ active \cap (Contents(rotated) \cup Contents(archives)) = {}
        /\ Apart(rotated) /\ Apart(archives)
        /\ at # "remove" => Contents(rotated) \cap Contents(archives) = {}

TraceIInv == /\ TraceTypePart /\ PlacePart /\ DatedPart /\ WaitingPart /\ CountPart
             /\ KeptPart /\ OncePart
LEMMA LeastExists ==
    ASSUME NEW S \in SUBSET Nat, S # {}
    PROVE  \E m \in S : \A n \in S : m <= n
<1> DEFINE R == OpToRel(<, Nat)
<1>1. IsWellFoundedOn(R, Nat)
  BY NatLessThanWellFounded
<1>2. \A m, n \in Nat : m < n => <<m, n>> \in R
  BY DEF OpToRel
<1> HIDE DEF R
<1>3. PICK m \in S : \A n \in S : ~(<<n, m>> \in R)
  BY <1>1, WFMin
<1>4. ASSUME NEW n \in S PROVE m <= n
  <2>1. m \in Nat /\ n \in Nat
    OBVIOUS
  <2>2. ~(n < m)
    BY <1>2, <1>3, <2>1, Zenon
  <2>3. QED
    BY <2>1, <2>2
<1>5. QED
  BY <1>4

LEMMA MinIsIn ==
    ASSUME NEW S \in SUBSET Nat, S # {}
    PROVE  Min(S) \in S /\ \A n \in S : Min(S) <= n
<1>1. \E m \in S : \A n \in S : m <= n
  BY LeastExists
<1>2. QED
  BY <1>1 DEF Min

LEMMA MaxIsIn ==
    ASSUME NEW k \in Nat, NEW S \in SUBSET (0 .. k), S # {}
    PROVE  Max(S) \in S /\ \A n \in S : n <= Max(S)
<1> DEFINE T == {n \in 0 .. k : k - n \in S}
<1>1. T \in SUBSET Nat /\ T # {}
  <2>1. PICK x \in S : x \in 0 .. k
    OBVIOUS
  <2>2. k - x \in 0 .. k /\ k - (k - x) = x
    BY <2>1
  <2>3. k - x \in T
    BY <2>1, <2>2
  <2>4. T \in SUBSET Nat
    OBVIOUS
  <2> HIDE DEF T
  <2>5. QED
    BY <2>3, <2>4
<1>2. PICK m \in T : \A n \in T : m <= n
  BY <1>1, LeastExists
<1>3. k - m \in S /\ m \in 0 .. k
  BY <1>2
<1>4. \A n \in S : k - m >= n
  <2>1. SUFFICES ASSUME NEW n \in S PROVE k - m >= n
    OBVIOUS
  <2>2. n \in 0 .. k /\ k - n \in 0 .. k /\ k - (k - n) = n
    OBVIOUS
  <2>3. k - n \in T
    BY <2>2
  <2>4. m <= k - n
    BY <1>2, <2>3
  <2>5. QED
    BY <1>3, <2>2, <2>4
<1>5. \E x \in S : \A y \in S : x >= y
  BY <1>3, <1>4
<1>6. Max(S) \in S /\ \A y \in S : Max(S) >= y
  BY <1>5 DEF Max
<1>7. QED
  BY <1>6

\* Of as many names and one, one is free.
LEMMA FreeNameIsFree ==
    ASSUME NEW fs, IsFiniteSet(fs)
    PROVE  \E n \in Nat : FreeName(fs) = <<today, n>> /\ \A f \in fs : f.name # <<today, n>>
<1> DEFINE k == Cardinality(fs)
           S == {n \in 0 .. k : \A f \in fs : f.name # <<today, n>>}
<1>1. k \in Nat
  BY FS_CardinalityType
<1>2. S # {}
  <2>1. SUFFICES ASSUME S = {} PROVE FALSE
    OBVIOUS
  <2>2. \A n \in 0 .. k : \E f \in fs : f.name = <<today, n>>
    BY <2>1
  <2> DEFINE holder == [n \in 0 .. k |-> CHOOSE f \in fs : f.name = <<today, n>>]
  <2>3. \A n \in 0 .. k : holder[n] \in fs /\ holder[n].name = <<today, n>>
    BY <2>2
  <2>4. holder \in [0 .. k -> fs]
    BY <2>3
  <2>5. \A m, n \in 0 .. k : <<today, m>> = <<today, n>> => m = n
    OBVIOUS
  <2> HIDE DEF holder
  <2>6. \A m, n \in 0 .. k : holder[m] = holder[n] => m = n
    BY <2>3, <2>5
  <2>7. holder \in Injection(0 .. k, fs)
    BY <2>4, <2>6 DEF Injection, IsInjective
  <2>8. IsFiniteSet(0 .. k) /\ Cardinality(0 .. k) = k + 1
    BY <1>1, FS_Interval
  <2>9. Cardinality(0 .. k) <= k
    BY <2>7, FS_Injection
  <2>10. QED
    BY <1>1, <2>8, <2>9
<1>3. S \in SUBSET Nat
  BY <1>1
<1>4. Min(S) \in S
  BY <1>2, <1>3, MinIsIn
<1>5. FreeName(fs) = <<today, Min(S)>>
  BY DEF FreeName
<1>6. QED
  BY <1>3, <1>4, <1>5
-----------------------------------------------------------------------------
(* What the invariant says of the types *)

LEMMA TraceTypes ==
    ASSUME TraceTypePart
    PROVE  /\ today \in Nat /\ today <= LastDay /\ LastDay \in Nat /\ Retention \in Nat
           /\ faults \in Nat /\ faults <= MaxFaults /\ MaxFaults \in Nat
           /\ emitted \in Nat /\ emitted <= MaxEntries /\ MaxEntries \in Nat
           /\ traceDropped \in Nat /\ TraceBuffer \in Nat \ {0} /\ RotateMax \in Nat \ {0}
           /\ traceQueue \in Seq(Entry) /\ Len(traceQueue) \in Nat
           /\ DOMAIN traceQueue = 1 .. Len(traceQueue)
           /\ \A i \in DOMAIN traceQueue : traceQueue[i] \in Entry /\ traceQueue[i] \in Nat
           /\ \A e \in DOMAIN written :
                 e \in Entry /\ e \in Nat /\ written[e] \in Nat /\ written[e] <= today
           /\ IsFiniteSet(DOMAIN written) /\ Cardinality(DOMAIN written) \in Nat
           /\ \A f \in rotated \cup archives :
                 /\ f.name \in Name /\ f.entries \subseteq Entry
                 /\ f.mtime \in Nat /\ f.mtime <= LastDay
<1>1. /\ {TraceBuffer, RotateMax} \subseteq Nat \ {0}
      /\ {ArchiveAfter, Retention, MaxEntries, LastDay, MaxFaults} \subseteq Nat
  BY TraceAssumption
<1>2. /\ today \in Nat /\ today <= LastDay /\ LastDay \in Nat /\ Retention \in Nat
      /\ faults \in Nat /\ faults <= MaxFaults /\ MaxFaults \in Nat
      /\ emitted \in Nat /\ emitted <= MaxEntries /\ MaxEntries \in Nat
      /\ traceDropped \in Nat /\ TraceBuffer \in Nat \ {0} /\ RotateMax \in Nat \ {0}
  BY <1>1 DEF TraceTypePart, TraceTypeOK
<1>3. traceQueue \in Seq(Entry)
  BY DEF TraceTypePart, TraceTypeOK
<1>4. /\ Len(traceQueue) \in Nat /\ DOMAIN traceQueue = 1 .. Len(traceQueue)
      /\ \A i \in DOMAIN traceQueue : traceQueue[i] \in Entry
  BY <1>3
<1>5. \A e \in Entry : e \in Nat
  BY DEF Entry
<1>6. \A e \in DOMAIN written :
         e \in Entry /\ e \in Nat /\ written[e] \in Nat /\ written[e] <= today
  BY <1>2, <1>5 DEF TraceTypePart, TraceTypeOK
<1>7. IsFiniteSet(Entry)
  BY <1>2, FS_Interval DEF Entry
<1>8. DOMAIN written \in SUBSET Entry
  BY <1>6
<1>9. IsFiniteSet(DOMAIN written)
  BY <1>7, <1>8, FS_Subset
<1>10. Cardinality(DOMAIN written) \in Nat
  BY <1>9, FS_CardinalityType
<1>11. \A f \in rotated : f.name \in Name /\ f.entries \subseteq Entry /\ f.mtime \in 0 .. LastDay
  BY DEF TraceTypePart, TraceTypeOK, RotatedFile
<1>12. \A f \in archives : f.name \in Name /\ f.entries \subseteq Entry /\ f.mtime \in 0 .. LastDay
  BY DEF TraceTypePart, TraceTypeOK, ArchiveFile
<1>13. \A f \in rotated \cup archives :
          /\ f.name \in Name /\ f.entries \subseteq Entry
          /\ f.mtime \in Nat /\ f.mtime <= LastDay
  BY <1>2, <1>11, <1>12
<1>14. QED
  BY <1>2, <1>3, <1>4, <1>5, <1>6, <1>9, <1>10, <1>13

LEMMA TraceInitHolds == TraceInit => TraceIInv
<1> SUFFICES ASSUME TraceInit PROVE TraceIInv
  OBVIOUS
<1>1. /\ traceQueue = <<>> /\ DOMAIN traceQueue = {} /\ Len(traceQueue) = 0
      /\ written = [e \in {} |-> 0] /\ DOMAIN written = {}
      /\ active = {} /\ rotated = {} /\ archives = {} /\ job = {}
      /\ today = 0 /\ at = "start" /\ stage = "stopped" /\ emitted = 0 /\ traceDropped = 0
      /\ faults = 0 /\ doubled = FALSE /\ target = <<0, 0>>
  BY DEF TraceInit
<1>2. TraceTypeOK
  <2>1. /\ {TraceBuffer, RotateMax} \subseteq Nat \ {0}
        /\ {ArchiveAfter, Retention, MaxEntries, LastDay, MaxFaults} \subseteq Nat
    BY TraceAssumption
  <2>2. traceQueue \in Seq(Entry)
    BY <1>1, EmptySeq
  <2>3. target \in Name
    BY <1>1, <2>1 DEF Name
  <2>4. today \in 0 .. LastDay /\ emitted \in 0 .. MaxEntries /\ faults \in 0 .. MaxFaults
    BY <1>1, <2>1
  <2>5. Len(traceQueue) <= TraceBuffer /\ traceDropped \in Nat
    BY <1>1, <2>1
  <2>6. QED
    BY <1>1, <2>2, <2>3, <2>4, <2>5 DEF TraceTypeOK
<1>3. TraceTypePart
  BY <1>1, <1>2, FS_EmptySet DEF TraceTypePart
<1>4. PlacePart /\ DatedPart /\ WaitingPart
  BY <1>1 DEF PlacePart, DatedPart, WaitingPart
<1>5. CountPart
  BY <1>1, FS_EmptySet DEF CountPart
<1>6. KeptPart
  BY <1>1 DEF KeptPart
<1>7. OncePart
  BY <1>1 DEF OncePart, Apart, Contents
<1>8. QED
  BY <1>3, <1>4, <1>5, <1>6, <1>7 DEF TraceIInv

-----------------------------------------------------------------------------
(* Steps that leave the files alone *)

LEMMA NextDayHolds == ASSUME TraceIInv, NextDay PROVE TraceIInv'
<1>1. /\ today' = today + 1 /\ today < LastDay
      /\ UNCHANGED <<stage, at, traceQueue, traceDropped, emitted, active, rotated, archives,
                     job, target, written, doubled, faults>>
  BY DEF NextDay, channel, files, seen
<1>2. /\ today \in Nat /\ LastDay \in Nat /\ Retention \in Nat
      /\ \A e \in DOMAIN written : written[e] \in Nat /\ written[e] <= today /\ e \in Entry
  BY TraceTypes DEF TraceIInv
<1>3. TraceTypePart'
  BY <1>1, <1>2 DEF TraceIInv, TraceTypePart, TraceTypeOK
<1>4. PlacePart' /\ WaitingPart' /\ CountPart'
  BY <1>1 DEF TraceIInv, PlacePart, WaitingPart, CountPart
<1>5. DatedPart' /\ OncePart'
  BY <1>1 DEF TraceIInv, DatedPart, Dated, OncePart, Apart, Contents
<1>6. KeptPart'
  <2>1. \A e \in DOMAIN written : today' - written[e] <= Retention => today - written[e] <= Retention
    BY <1>1, <1>2
  <2>2. Readable' = Readable /\ Contents(job)' = Contents(job) /\ Archived' = Archived
    BY <1>1 DEF Readable, Contents, Archived
  <2>3. QED
    BY <1>1, <2>1, <2>2 DEF TraceIInv, KeptPart
<1>7. QED
  BY <1>3, <1>4, <1>5, <1>6 DEF TraceIInv

LEMMA TraceEmitHolds == ASSUME TraceIInv, TraceEmit PROVE TraceIInv'
<1>1. /\ stage = "serving" /\ emitted < MaxEntries /\ emitted' = emitted + 1
      /\ \/ Len(traceQueue) < TraceBuffer /\ traceQueue' = Append(traceQueue, emitted') /\ traceDropped' = traceDropped
         \/ traceDropped' = traceDropped + 1 /\ traceQueue' = traceQueue
      /\ UNCHANGED <<today, stage, at, active, rotated, archives, job, target, written, doubled, faults>>
  BY DEF TraceEmit, TraceFits, files, seen
<1>2. /\ emitted \in Nat /\ MaxEntries \in Nat /\ traceDropped \in Nat /\ TraceBuffer \in Nat
      /\ traceQueue \in Seq(Entry) /\ Len(traceQueue) \in Nat /\ DOMAIN traceQueue = 1 .. Len(traceQueue)
      /\ \A i \in DOMAIN traceQueue : traceQueue[i] \in Nat
      /\ Cardinality(DOMAIN written) \in Nat
  BY TraceTypes DEF TraceIInv
<1>3. emitted' \in Entry /\ emitted' \in Nat
  BY <1>1, <1>2 DEF Entry
<1>4. traceQueue' \in Seq(Entry) /\ Len(traceQueue') <= TraceBuffer
  BY <1>1, <1>2, <1>3 DEF TraceIInv, TraceTypePart, TraceTypeOK
<1>5. TraceTypePart'
  BY <1>1, <1>2, <1>3, <1>4 DEF TraceIInv, TraceTypePart, TraceTypeOK
<1>6. PlacePart'
  BY <1>1 DEF TraceIInv, PlacePart
<1>7. WaitingPart'
  <2>1. DOMAIN written' \subseteq 1 .. emitted'
    BY <1>1, <1>2 DEF TraceIInv, WaitingPart
  <2>2. CASE traceQueue' = traceQueue
    <3>1. \A i \in DOMAIN traceQueue : traceQueue[i] \notin DOMAIN written /\ traceQueue[i] \in 1 .. emitted'
      BY <1>1, <1>2 DEF TraceIInv, WaitingPart
    <3>2. QED
      BY <1>1, <2>1, <2>2, <3>1 DEF TraceIInv, WaitingPart
  <2>3. CASE traceQueue' = Append(traceQueue, emitted')
    <3> DEFINE n == Len(traceQueue) + 1
    <3>1. /\ DOMAIN traceQueue' = 1 .. n /\ traceQueue'[n] = emitted'
          /\ \A i \in 1 .. Len(traceQueue) : traceQueue'[i] = traceQueue[i]
      BY <1>2, <1>3, <2>3
    <3>2. \A i \in 1 .. Len(traceQueue) : traceQueue[i] \notin DOMAIN written /\ traceQueue[i] \in 1 .. emitted
      BY <1>2 DEF TraceIInv, WaitingPart
    <3>3. emitted' \notin DOMAIN written
      BY <1>1, <1>2 DEF TraceIInv, WaitingPart
    <3>4. \A i \in 1 .. n : traceQueue'[i] \notin DOMAIN written /\ traceQueue'[i] \in 1 .. emitted'
      <4>1. SUFFICES ASSUME NEW i \in 1 .. n
                     PROVE  traceQueue'[i] \notin DOMAIN written /\ traceQueue'[i] \in 1 .. emitted'
        OBVIOUS
      <4>2. CASE i = n
        BY <1>3, <3>1, <3>3, <4>2, <1>1, <1>2
      <4>3. CASE i # n
        <5>1. i \in 1 .. Len(traceQueue)
          BY <1>2, <4>3
        <5>2. QED
          BY <1>1, <1>2, <3>1, <3>2, <5>1
      <4>4. QED
        BY <4>2, <4>3
    <3>5. \A i, j \in 1 .. n : i < j => traceQueue'[i] < traceQueue'[j]
      <4>1. SUFFICES ASSUME NEW i \in 1 .. n, NEW j \in 1 .. n, i < j
                     PROVE  traceQueue'[i] < traceQueue'[j]
        OBVIOUS
      <4>2. i \in 1 .. Len(traceQueue)
        BY <1>2, <4>1
      <4>3. CASE j = n
        BY <1>1, <1>2, <3>1, <3>2, <4>2, <4>3
      <4>4. CASE j # n
        <5>1. j \in 1 .. Len(traceQueue)
          BY <1>2, <4>4
        <5>2. QED
          BY <1>2, <3>1, <4>1, <4>2, <5>1 DEF TraceIInv, WaitingPart
      <4>5. QED
        BY <4>3, <4>4
    <3> HIDE DEF n
    <3>6. QED
      BY <1>1, <2>1, <3>1, <3>4, <3>5 DEF WaitingPart
  <2>4. QED
    BY <1>1, <2>2, <2>3
<1>8. CountPart'
  <2>1. Len(traceQueue') + traceDropped' = Len(traceQueue) + traceDropped + 1
    BY <1>1, <1>2, <1>3
  <2>2. Len(traceQueue') \in Nat /\ traceDropped' \in Nat
    BY <1>1, <1>2, <1>4
  <2>3. QED
    BY <1>1, <1>2, <2>1, <2>2, SMTT(40) DEF TraceIInv, CountPart
<1>9. DatedPart' /\ OncePart'
  BY <1>1 DEF TraceIInv, DatedPart, Dated, OncePart, Apart, Contents
<1>10. KeptPart'
  BY <1>1 DEF TraceIInv, KeptPart, Readable, Contents, Archived
<1>11. QED
  BY <1>5, <1>6, <1>7, <1>8, <1>9, <1>10 DEF TraceIInv

LEMMA KillHolds == ASSUME TraceIInv, Kill PROVE TraceIInv'
<1>1. /\ stage' = "serving" /\ at' = "start" /\ traceQueue' = <<>> /\ job' = {}
      /\ faults < MaxFaults /\ faults' = faults + 1 /\ doubled' = (doubled \/ at = "remove")
      /\ UNCHANGED <<today, traceDropped, emitted, active, rotated, archives, target, written>>
  BY DEF Kill, Fault
<1>2. faults \in Nat /\ MaxFaults \in Nat /\ TraceBuffer \in Nat
  BY TraceTypes DEF TraceIInv
<1>3. DOMAIN traceQueue' = {} /\ traceQueue' \in Seq(Entry) /\ Len(traceQueue') = 0
  BY <1>1, EmptySeq
<1>4. TraceTypePart'
  <2>1. doubled' \in BOOLEAN
    BY <1>1 DEF TraceIInv, TraceTypePart, TraceTypeOK
  <2>2. faults' \in 0 .. MaxFaults /\ Len(traceQueue') <= TraceBuffer
    BY <1>1, <1>2, <1>3
  <2>3. QED
    BY <1>1, <1>3, <2>1, <2>2 DEF TraceIInv, TraceTypePart, TraceTypeOK
<1>5. PlacePart' /\ WaitingPart' /\ CountPart'
  BY <1>1, <1>2, <1>3 DEF TraceIInv, PlacePart, WaitingPart, CountPart
<1>6. DatedPart'
  BY <1>1 DEF TraceIInv, DatedPart, Dated
<1>7. KeptPart'
  BY <1>1 DEF TraceIInv, KeptPart, Readable, Contents, Archived
<1>8. OncePart'
  BY <1>1 DEF TraceIInv, OncePart, Apart, Contents, TraceTypePart, TraceTypeOK
<1>9. QED
  BY <1>4, <1>5, <1>6, <1>7, <1>8 DEF TraceIInv

LEMMA ShutdownHolds == ASSUME TraceIInv, Shutdown PROVE TraceIInv'
<1>1. /\ stage = "serving" /\ stage' = "draining"
      /\ UNCHANGED <<today, at, traceQueue, traceDropped, emitted, active, rotated, archives,
                     job, target, written, doubled, faults>>
  BY DEF Shutdown, channel, files, seen
<1>2. TraceTypePart' /\ PlacePart' /\ WaitingPart' /\ CountPart'
  BY <1>1 DEF TraceIInv, TraceTypePart, TraceTypeOK, PlacePart, WaitingPart, CountPart
<1>3. DatedPart' /\ OncePart'
  BY <1>1 DEF TraceIInv, DatedPart, Dated, OncePart, Apart, Contents
<1>4. KeptPart'
  BY <1>1 DEF TraceIInv, KeptPart, Readable, Contents, Archived
<1>5. QED
  BY <1>2, <1>3, <1>4 DEF TraceIInv

LEMMA StartHolds == ASSUME TraceIInv, Start PROVE TraceIInv'
<1>1. /\ stage = "stopped" /\ stage' = "serving"
      /\ UNCHANGED <<today, at, traceQueue, traceDropped, emitted, active, rotated, archives,
                     job, target, written, doubled, faults>>
  BY DEF Start, channel, files, seen
<1>2. TraceTypePart' /\ PlacePart' /\ WaitingPart' /\ CountPart'
  BY <1>1 DEF TraceIInv, TraceTypePart, TraceTypeOK, PlacePart, WaitingPart, CountPart
<1>3. DatedPart' /\ OncePart'
  BY <1>1 DEF TraceIInv, DatedPart, Dated, OncePart, Apart, Contents
<1>4. KeptPart'
  BY <1>1 DEF TraceIInv, KeptPart, Readable, Contents, Archived
<1>5. QED
  BY <1>2, <1>3, <1>4 DEF TraceIInv

\* The worker ends when it finds the channel empty and closed.
LEMMA ExitHolds == ASSUME TraceIInv, Exit PROVE TraceIInv'
<1>1. /\ stage' = "stopped" /\ at = "receive" /\ at' = "start" /\ traceQueue = <<>> /\ traceQueue' = <<>>
      /\ UNCHANGED <<today, traceDropped, emitted, active, rotated, archives,
                     job, target, written, doubled, faults>>
  BY DEF Exit, MayExit, files, seen
<1>2. TraceTypePart' /\ PlacePart' /\ WaitingPart' /\ CountPart'
  BY <1>1 DEF TraceIInv, TraceTypePart, TraceTypeOK, PlacePart, WaitingPart, CountPart
<1>3. DatedPart' /\ OncePart'
  BY <1>1 DEF TraceIInv, DatedPart, Dated, OncePart, Apart, Contents
<1>4. KeptPart'
  BY <1>1 DEF TraceIInv, KeptPart, Readable, Contents, Archived
<1>5. QED
  BY <1>2, <1>3, <1>4 DEF TraceIInv

-----------------------------------------------------------------------------
(* The worker's steps *)

LEMMA WriteEntryHolds == ASSUME TraceIInv, WriteEntry PROVE TraceIInv'
<1> DEFINE h == Head(traceQueue)
<1>1. /\ at = "receive" /\ traceQueue # <<>> /\ traceQueue' = Tail(traceQueue)
      /\ at' = AfterWrite(active')
      /\ UNCHANGED <<today, stage, traceDropped, emitted, rotated, archives, job, target, doubled>>
  BY DEF WriteEntry
<1>2. \/ /\ active' = active \cup {h} /\ faults' = faults
         /\ written' = [e \in DOMAIN written \cup {h} |-> IF e = h THEN today ELSE written[e]]
      \/ /\ faults < MaxFaults /\ faults' = faults + 1
         /\ active' = active /\ written' = written
  BY DEF WriteEntry, Fault
<1> HIDE DEF h
<1>3. /\ today \in Nat /\ Retention \in Nat /\ faults \in Nat /\ MaxFaults \in Nat /\ emitted \in Nat
      /\ traceDropped \in Nat /\ RotateMax \in Nat \ {0} /\ TraceBuffer \in Nat
      /\ traceQueue \in Seq(Entry) /\ Len(traceQueue) \in Nat /\ DOMAIN traceQueue = 1 .. Len(traceQueue)
      /\ \A i \in DOMAIN traceQueue : traceQueue[i] \in Nat
      /\ \A e \in DOMAIN written : e \in Entry /\ written[e] \in Nat /\ written[e] <= today
      /\ IsFiniteSet(DOMAIN written) /\ Cardinality(DOMAIN written) \in Nat
  BY TraceTypes DEF TraceIInv
<1>4. /\ Len(traceQueue) \in Nat \ {0} /\ traceQueue' \in Seq(Entry)
      /\ Len(traceQueue') = Len(traceQueue) - 1 /\ DOMAIN traceQueue' = 1 .. Len(traceQueue) - 1
      /\ \A i \in DOMAIN traceQueue' : traceQueue'[i] = traceQueue[i + 1] /\ i + 1 \in DOMAIN traceQueue
      /\ h = traceQueue[1] /\ 1 \in DOMAIN traceQueue
  BY <1>1, <1>3 DEF h
<1>5. /\ h \in Entry /\ h \in Nat /\ h \notin DOMAIN written /\ h \in 1 .. emitted
      /\ \A i \in DOMAIN traceQueue' : h < traceQueue'[i]
  <2>1. h \in Entry /\ h \in Nat
    BY <1>3, <1>4
  <2>2. h \notin DOMAIN written /\ h \in 1 .. emitted
    BY <1>4 DEF TraceIInv, WaitingPart
  <2>3. \A i \in DOMAIN traceQueue' : 1 < i + 1
    BY <1>3, <1>4
  <2>4. \A i \in DOMAIN traceQueue' : h < traceQueue'[i]
    BY <1>4, <2>3 DEF TraceIInv, WaitingPart
  <2>5. QED
    BY <2>1, <2>2, <2>4
<1>6. /\ DOMAIN written \subseteq DOMAIN written' /\ DOMAIN written' \subseteq DOMAIN written \cup {h}
      /\ \A e \in DOMAIN written : written'[e] = written[e]
      /\ \A e \in DOMAIN written' : e \notin DOMAIN written => e = h /\ written'[e] = today /\ e \in active'
      /\ active' \subseteq active \cup {h} /\ active \subseteq active'
      /\ h \in active' => h \in DOMAIN written' \/ h \in active
  BY <1>2, <1>5
<1>7. active' \subseteq DOMAIN written'
  BY <1>2, <1>6 DEF TraceIInv, DatedPart
<1>8. TraceTypePart'
  <2>1. active' \in SUBSET Entry
    BY <1>2, <1>5 DEF TraceIInv, TraceTypePart, TraceTypeOK
  <2>2. faults' \in 0 .. MaxFaults
    BY <1>2, <1>3 DEF TraceIInv, TraceTypePart, TraceTypeOK
  <2>3. \A e \in DOMAIN written' : e \in Entry /\ written'[e] \in 0 .. today'
    BY <1>1, <1>3, <1>5, <1>6
  <2>4. at' \in {"start", "receive", "rotate", "create", "fill", "remove", "prune"}
    BY <1>1 DEF AfterWrite
  <2>5. Len(traceQueue') <= TraceBuffer
    BY <1>3, <1>4 DEF TraceIInv, TraceTypePart, TraceTypeOK
  <2>6. QED
    BY <1>1, <1>4, <2>1, <2>2, <2>3, <2>4, <2>5 DEF TraceIInv, TraceTypePart, TraceTypeOK
<1>9. PlacePart'
  <2>1. at' = "rotate" => active' # {}
    <3>1. SUFFICES ASSUME active' = {} PROVE at' # "rotate"
      OBVIOUS
    <3>2. Cardinality(active') = 0
      BY <3>1, FS_EmptySet
    <3>3. ~(Cardinality(active') >= RotateMax)
      BY <1>3, <3>2
    <3>4. QED
      BY <1>1, <3>3 DEF AfterWrite
  <2>2. at' \in {"rotate", "receive"}
    BY <1>1 DEF AfterWrite
  <2>3. stage # "stopped"
    BY <1>1 DEF TraceIInv, PlacePart
  <2>4. QED
    BY <1>1, <2>1, <2>2, <2>3 DEF TraceIInv, PlacePart
<1>10. DatedPart'
  <2>1. \A f \in rotated \cup archives : Dated(f)'
    BY <1>6 DEF TraceIInv, DatedPart, Dated
  <2>2. QED
    BY <1>1, <1>7, <2>1 DEF DatedPart
<1>11. WaitingPart'
  <2>1. DOMAIN written' \subseteq 1 .. emitted
    BY <1>5, <1>6 DEF TraceIInv, WaitingPart
  <2>2. \A i \in DOMAIN traceQueue' : traceQueue'[i] \notin DOMAIN written' /\ traceQueue'[i] \in 1 .. emitted
    <3>1. SUFFICES ASSUME NEW i \in DOMAIN traceQueue'
                   PROVE  traceQueue'[i] \notin DOMAIN written' /\ traceQueue'[i] \in 1 .. emitted
      OBVIOUS
    <3>2. traceQueue'[i] \notin DOMAIN written /\ traceQueue'[i] \in 1 .. emitted
      BY <1>4 DEF TraceIInv, WaitingPart
    <3>3. traceQueue'[i] # h
      BY <1>5, <3>2
    <3>4. QED
      BY <1>6, <3>2, <3>3
  <2>3. \A i, j \in DOMAIN traceQueue' : i < j => i + 1 < j + 1
    BY <1>3, <1>4
  <2>4. \A i, j \in DOMAIN traceQueue' : i < j => traceQueue'[i] < traceQueue'[j]
    BY <1>4, <2>3 DEF TraceIInv, WaitingPart
  <2>5. QED
    BY <1>1, <2>1, <2>2, <2>4 DEF WaitingPart
<1>12. CountPart'
  <2>1. SUFFICES ASSUME faults' = 0
                 PROVE  Cardinality(DOMAIN written') + Len(traceQueue') + traceDropped = emitted
    BY <1>1 DEF CountPart
  <2>2. faults = 0 /\ DOMAIN written' = DOMAIN written \cup {h}
    BY <1>2, <1>3, <2>1
  <2>3. Cardinality(DOMAIN written \cup {h}) = Cardinality(DOMAIN written) + 1
    BY <1>3, <1>5, FS_AddElement
  <2>4. Cardinality(DOMAIN written) + Len(traceQueue) + traceDropped = emitted
    BY <2>2 DEF TraceIInv, CountPart
  <2>5. QED
    BY <1>3, <1>4, <2>2, <2>3, <2>4
<1>13. KeptPart'
  <2>1. Readable \subseteq Readable' /\ active' \subseteq Readable'
    BY <1>1, <1>6 DEF Readable, Contents
  <2>2. \A e \in DOMAIN written' : today' - written'[e] <= Retention => e \in Readable'
    <3>1. SUFFICES ASSUME NEW e \in DOMAIN written', today' - written'[e] <= Retention
                   PROVE  e \in Readable'
      OBVIOUS
    <3>2. CASE e \in DOMAIN written
      BY <1>1, <1>6, <2>1, <3>1, <3>2 DEF TraceIInv, KeptPart
    <3>3. CASE e \notin DOMAIN written
      BY <1>6, <2>1, <3>3
    <3>4. QED
      BY <3>2, <3>3
  <2>3. at' # "remove"
    BY <1>1 DEF AfterWrite
  <2>4. QED
    BY <2>2, <2>3 DEF KeptPart
<1>14. OncePart'
  <2>1. h \notin Contents(rotated) \cup Contents(archives)
    BY <1>5 DEF TraceIInv, DatedPart, Dated, Contents
  <2>2. Contents(rotated') = Contents(rotated) /\ Contents(archives') = Contents(archives)
    BY <1>1
  <2>3. ~doubled => active' \cap (Contents(rotated') \cup Contents(archives')) = {}
    BY <1>6, <2>1, <2>2 DEF TraceIInv, OncePart
  <2>4. QED
    BY <1>1, <2>2, <2>3 DEF TraceIInv, OncePart, Apart
<1>15. QED
  BY <1>8, <1>9, <1>10, <1>11, <1>12, <1>13, <1>14 DEF TraceIInv

\* The new file has a name of its own and is dated by the last entry in it.
LEMMA RotateHolds == ASSUME TraceIInv, Rotate PROVE TraceIInv'
<1> DEFINE name == FreeName(rotated)
           day == Max({written[e] : e \in active})
           file == [name |-> name, entries |-> active, mtime |-> day]
<1>1. /\ at = "rotate" /\ at' \in {"create", "receive"}
      /\ UNCHANGED <<today, stage, traceQueue, traceDropped, emitted, archives, job, target, written, doubled>>
      /\ \/ rotated' = {f \in rotated : f.name # name} \cup {file} /\ active' = {} /\ faults' = faults
         \/ faults < MaxFaults /\ faults' = faults + 1 /\ rotated' = rotated /\ active' = active
  BY DEF Rotate, Fault, channel
<1>2. /\ today \in Nat /\ LastDay \in Nat /\ today <= LastDay /\ faults \in Nat /\ MaxFaults \in Nat
      /\ \A e \in DOMAIN written : written[e] \in Nat /\ written[e] <= today
  BY TraceTypes DEF TraceIInv
<1>3. active # {} /\ active \subseteq DOMAIN written /\ IsFiniteSet(rotated) /\ active \in SUBSET Entry
  BY <1>1 DEF TraceIInv, PlacePart, DatedPart, TraceTypePart, TraceTypeOK
<1>4. \A f \in rotated : f.name # name
  BY <1>3, FreeNameIsFree
<1>5. name \in Name
  <2>1. PICK n \in Nat : name = <<today, n>>
    BY <1>3, FreeNameIsFree
  <2>2. today \in 0 .. LastDay
    BY <1>2
  <2>3. QED
    BY <2>1, <2>2 DEF Name
<1>6. day \in 0 .. today /\ \A e \in active : written[e] <= day
  <2> DEFINE S == {written[e] : e \in active}
  <2>1. S \in SUBSET (0 .. today) /\ S # {}
    BY <1>2, <1>3
  <2>2. Max(S) \in S /\ \A d \in S : d <= Max(S)
    BY <1>2, <2>1, MaxIsIn
  <2>3. QED
    BY <2>1, <2>2
<1> HIDE DEF name, day
<1>7. file.name = name /\ file.entries = active /\ file.mtime = day
  OBVIOUS
<1>8. file \in RotatedFile
  <2>1. day \in 0 .. LastDay
    BY <1>2, <1>6
  <2>2. QED
    BY <1>3, <1>5, <2>1 DEF RotatedFile
<1> HIDE DEF file
<1>9. CASE rotated' = rotated /\ active' = active /\ faults' = faults + 1 /\ faults < MaxFaults
  <2>1. TraceTypePart'
    <3>1. faults' \in 0 .. MaxFaults
      BY <1>2, <1>9
    <3>2. QED
      BY <1>1, <1>9, <3>1 DEF TraceIInv, TraceTypePart, TraceTypeOK
  <2>2. PlacePart' /\ WaitingPart' /\ CountPart'
    BY <1>1, <1>2, <1>9 DEF TraceIInv, PlacePart, WaitingPart, CountPart
  <2>3. DatedPart' /\ OncePart'
    BY <1>1, <1>9 DEF TraceIInv, DatedPart, Dated, OncePart, Apart, Contents
  <2>4. KeptPart'
    BY <1>1, <1>9 DEF TraceIInv, KeptPart, Readable, Contents
  <2>5. QED
    BY <2>1, <2>2, <2>3, <2>4 DEF TraceIInv
<1>10. CASE rotated' = {f \in rotated : f.name # name} \cup {file} /\ active' = {} /\ faults' = faults
  <2>1. rotated' = rotated \cup {file}
    BY <1>4, <1>10
  <2>2. TraceTypePart'
    <3>1. IsFiniteSet(rotated')
      BY <1>3, <2>1, FS_AddElement
    <3>2. \A f \in rotated' : f \in RotatedFile
      BY <1>8, <2>1 DEF TraceIInv, TraceTypePart, TraceTypeOK
    <3>3. job' \subseteq rotated'
      BY <1>1, <2>1 DEF TraceIInv, TraceTypePart, TraceTypeOK
    <3>4. QED
      BY <1>1, <1>10, <3>1, <3>2, <3>3 DEF TraceIInv, TraceTypePart, TraceTypeOK
  <2>3. PlacePart' /\ WaitingPart' /\ CountPart'
    BY <1>1, <1>10 DEF TraceIInv, PlacePart, WaitingPart, CountPart
  <2>4. DatedPart'
    <3>1. \A e \in file.entries : e \in DOMAIN written /\ written[e] <= file.mtime
      BY <1>3, <1>6, <1>7
    <3>2. QED
      BY <1>1, <1>10, <2>1, <3>1 DEF TraceIInv, DatedPart, Dated
  <2>5. Contents(rotated') = Contents(rotated) \cup active
    BY <1>7, <2>1 DEF Contents
  <2>6. KeptPart'
    <3>1. Readable' = Readable
      BY <1>1, <1>10, <2>5 DEF Readable
    <3>2. QED
      BY <1>1, <3>1 DEF TraceIInv, KeptPart
  <2>7. OncePart'
    <3>1. SUFFICES ASSUME ~doubled PROVE OncePart'
      BY <1>1 DEF OncePart
    <3>2. /\ active \cap (Contents(rotated) \cup Contents(archives)) = {}
          /\ Apart(rotated) /\ Apart(archives)
          /\ Contents(rotated) \cap Contents(archives) = {}
      BY <1>1, <3>1 DEF TraceIInv, OncePart
    <3>3. Apart(rotated')
      <4>1. \A f \in rotated : f.entries \cap file.entries = {}
        BY <1>7, <3>2 DEF Contents
      <4>2. QED
        BY <2>1, <3>2, <4>1 DEF Apart
    <3>4. Contents(rotated') \cap Contents(archives) = {}
      BY <2>5, <3>2
    <3>5. QED
      BY <1>1, <1>10, <3>2, <3>3, <3>4 DEF OncePart
  <2>8. QED
    BY <2>2, <2>3, <2>4, <2>6, <2>7 DEF TraceIInv
<1>11. QED
  BY <1>1, <1>9, <1>10

LEMMA CreateArchiveHolds == ASSUME TraceIInv, CreateArchive PROVE TraceIInv'
<1> DEFINE name == FreeName(archives)
           file == [name |-> name, entries |-> {}, mtime |-> today, whole |-> FALSE]
<1>1. /\ at = "create"
      /\ UNCHANGED <<today, stage, traceQueue, traceDropped, emitted, active, rotated, written, doubled>>
      /\ \/ /\ archives' = archives \cup {file} /\ job' = rotated /\ target' = name
            /\ at' = "fill" /\ faults' = faults
         \/ /\ faults < MaxFaults /\ faults' = faults + 1 /\ at' = "prune"
            /\ archives' = archives /\ job' = job /\ target' = target
  BY DEF CreateArchive, Fault, channel
<1>2. /\ today \in Nat /\ LastDay \in Nat /\ today <= LastDay /\ faults \in Nat /\ MaxFaults \in Nat
  BY TraceTypes DEF TraceIInv
<1>3. IsFiniteSet(archives)
  BY DEF TraceIInv, TraceTypePart
<1>4. \A f \in archives : f.name # name
  BY <1>3, FreeNameIsFree
<1>5. name \in Name
  <2>1. PICK n \in Nat : name = <<today, n>>
    BY <1>3, FreeNameIsFree
  <2>2. today \in 0 .. LastDay
    BY <1>2
  <2>3. QED
    BY <2>1, <2>2 DEF Name
<1> HIDE DEF name
<1>6. file.name = name /\ file.entries = {} /\ file.mtime = today /\ ~file.whole
  OBVIOUS
<1>7. file \in ArchiveFile
  <2>1. today \in 0 .. LastDay
    BY <1>2
  <2>2. QED
    BY <1>5, <2>1 DEF ArchiveFile
<1> HIDE DEF file
<1>8. CASE faults < MaxFaults /\ faults' = faults + 1 /\ at' = "prune" /\ archives' = archives /\ job' = job /\ target' = target
  <2>1. TraceTypePart'
    <3>1. faults' \in 0 .. MaxFaults
      BY <1>2, <1>8
    <3>2. QED
      BY <1>1, <1>8, <3>1 DEF TraceIInv, TraceTypePart, TraceTypeOK
  <2>2. PlacePart' /\ WaitingPart' /\ CountPart'
    BY <1>1, <1>2, <1>8 DEF TraceIInv, PlacePart, WaitingPart, CountPart
  <2>3. DatedPart' /\ OncePart'
    BY <1>1, <1>8 DEF TraceIInv, DatedPart, Dated, OncePart, Apart, Contents
  <2>4. KeptPart'
    BY <1>1, <1>8 DEF TraceIInv, KeptPart, Readable, Contents
  <2>5. QED
    BY <2>1, <2>2, <2>3, <2>4 DEF TraceIInv
<1>9. CASE archives' = archives \cup {file} /\ job' = rotated /\ target' = name /\ at' = "fill" /\ faults' = faults
  <2>1. TraceTypePart'
    <3>1. IsFiniteSet(archives')
      BY <1>3, <1>9, FS_AddElement
    <3>2. \A f \in archives' : f \in ArchiveFile
      BY <1>7, <1>9 DEF TraceIInv, TraceTypePart, TraceTypeOK
    <3>3. QED
      BY <1>1, <1>5, <1>9, <3>1, <3>2 DEF TraceIInv, TraceTypePart, TraceTypeOK
  <2>2. PlacePart'
    <3>1. file \in archives' /\ file.name = target' /\ \A b \in archives' : b.name = target' => b = file
      BY <1>4, <1>6, <1>9
    <3>2. stage = "stopped" => traceQueue = <<>>
      BY DEF TraceIInv, PlacePart
    <3>3. QED
      BY <1>1, <1>6, <1>9, <3>1, <3>2 DEF PlacePart
  <2>3. WaitingPart' /\ CountPart'
    BY <1>1, <1>9 DEF TraceIInv, WaitingPart, CountPart
  <2>4. DatedPart'
    <3>1. \A e \in file.entries : e \in DOMAIN written /\ written[e] <= file.mtime
      BY <1>6
    <3>2. QED
      BY <1>1, <1>9, <3>1 DEF TraceIInv, DatedPart, Dated
  <2>5. Contents(archives') = Contents(archives)
    BY <1>6, <1>9 DEF Contents
  <2>6. KeptPart'
    <3>1. Readable \subseteq Readable'
      BY <1>1, <1>9 DEF Readable, Contents
    <3>2. QED
      BY <1>1, <1>9, <3>1 DEF TraceIInv, KeptPart
  <2>7. OncePart'
    <3>1. Apart(archives) => Apart(archives')
      BY <1>6, <1>9 DEF Apart
    <3>2. QED
      BY <1>1, <2>5, <3>1 DEF TraceIInv, OncePart
  <2>8. QED
    BY <2>1, <2>2, <2>3, <2>4, <2>6, <2>7 DEF TraceIInv
<1>10. QED
  BY <1>1, <1>8, <1>9

\* Finishing changes the one archive under construction.
LEMMA FinishedFacts ==
    ASSUME TraceTypePart, NEW fs, Contents(fs) \subseteq Entry,
           NEW a \in archives, a.name = target, \A b \in archives : b.name = target => b = a
    PROVE  \E z \in ArchiveFile :
              /\ Finished(fs) = (archives \ {a}) \cup {z}
              /\ z.entries = Contents(fs) /\ z.mtime = today /\ z.whole
<1> DEFINE z == [a EXCEPT !.entries = Contents(fs), !.mtime = today, !.whole = TRUE]
<1>1. a \in ArchiveFile /\ today \in 0 .. LastDay
  BY DEF TraceTypePart, TraceTypeOK
<1>2. Contents(fs) \in SUBSET Entry
  OBVIOUS
<1>3. z.entries = Contents(fs) /\ z.mtime = today /\ z.whole
  BY <1>1 DEF ArchiveFile
<1>4. z \in ArchiveFile
  BY <1>1, <1>2 DEF ArchiveFile
<1>5. Finished(fs) = {IF b.name = target THEN [b EXCEPT !.entries = Contents(fs), !.mtime = today, !.whole = TRUE]
                      ELSE b : b \in archives}
  BY DEF Finished
<1>6. \A b \in archives : (IF b.name = target THEN [b EXCEPT !.entries = Contents(fs), !.mtime = today, !.whole = TRUE]
                           ELSE b) = IF b = a THEN z ELSE b
  OBVIOUS
<1>7. Finished(fs) = {IF b = a THEN z ELSE b : b \in archives}
  BY <1>5, <1>6
<1> HIDE DEF z
<1>8. {IF b = a THEN z ELSE b : b \in archives} = (archives \ {a}) \cup {z}
  OBVIOUS
<1>9. QED
  BY <1>3, <1>4, <1>7, <1>8

LEMMA FillArchiveHolds == ASSUME TraceIInv, FillArchive PROVE TraceIInv'
<1>1. /\ at = "fill"
      /\ UNCHANGED <<today, stage, traceQueue, traceDropped, emitted, active, rotated, job, target, written>>
      /\ \/ archives' = Finished(job) /\ at' = "remove" /\ faults' = faults /\ doubled' = doubled
         \/ /\ faults < MaxFaults /\ faults' = faults + 1 /\ at' = "prune"
            /\ \/ archives' = archives /\ doubled' = doubled
               \/ (\E part \in SUBSET job : archives' = Finished(part)) /\ doubled' = TRUE
  BY DEF FillArchive, Fault, channel
<1>2. /\ today \in Nat /\ faults \in Nat /\ MaxFaults \in Nat
      /\ \A e \in DOMAIN written : written[e] <= today
  BY TraceTypes DEF TraceIInv
<1>3. PICK a \in archives : /\ a.name = target /\ a.entries = {} /\ ~a.whole
                            /\ \A b \in archives : b.name = target => b = a
  BY <1>1 DEF TraceIInv, PlacePart
<1>4. job = rotated /\ Contents(rotated) \subseteq DOMAIN written /\ Contents(rotated) \subseteq Entry
  <2>1. job = rotated /\ Contents(rotated) \subseteq DOMAIN written
    BY <1>1 DEF TraceIInv, PlacePart, DatedPart, Dated, Contents
  <2>2. DOMAIN written \subseteq Entry
    BY TraceTypes DEF TraceIInv
  <2>3. QED
    BY <2>1, <2>2
<1>5. faults' \in 0 .. MaxFaults /\ doubled' \in BOOLEAN /\ at' \in {"remove", "prune"}
  <2>1. faults' \in 0 .. MaxFaults
    BY <1>1, <1>2 DEF TraceIInv, TraceTypePart, TraceTypeOK
  <2>2. doubled' \in BOOLEAN
    BY <1>1 DEF TraceIInv, TraceTypePart, TraceTypeOK
  <2>3. QED
    BY <1>1, <2>1, <2>2
<1>6. WaitingPart' /\ CountPart'
  BY <1>1, <1>2 DEF TraceIInv, WaitingPart, CountPart
<1>7. CASE archives' = archives /\ doubled' = doubled /\ at' = "prune"
  <2>1. TraceTypePart' /\ PlacePart'
    BY <1>1, <1>5, <1>7 DEF TraceIInv, TraceTypePart, TraceTypeOK, PlacePart
  <2>2. DatedPart' /\ OncePart'
    BY <1>1, <1>7 DEF TraceIInv, DatedPart, Dated, OncePart, Apart, Contents
  <2>3. KeptPart'
    BY <1>1, <1>7 DEF TraceIInv, KeptPart, Readable, Contents
  <2>4. QED
    BY <1>6, <2>1, <2>2, <2>3 DEF TraceIInv
<1>8. ASSUME NEW part \in SUBSET job, archives' = Finished(part),
             \/ part = job /\ at' = "remove" /\ doubled' = doubled
             \/ at' = "prune" /\ doubled' = TRUE
      PROVE  TraceIInv'
  <2>1. Contents(part) \subseteq Contents(rotated)
    BY <1>4 DEF Contents
  <2>2. PICK z \in ArchiveFile : /\ archives' = (archives \ {a}) \cup {z}
                                 /\ z.entries = Contents(part) /\ z.mtime = today /\ z.whole
    <3>1. TraceTypePart /\ Contents(part) \subseteq Entry
      BY <1>4, <2>1 DEF TraceIInv
    <3>2. QED
      BY <1>3, <1>8, <3>1, FinishedFacts
  <2>3. TraceTypePart'
    <3>1. IsFiniteSet(archives')
      <4>1. IsFiniteSet(archives \ {a})
        BY FS_Subset DEF TraceIInv, TraceTypePart
      <4>2. QED
        BY <2>2, <4>1, FS_AddElement
    <3>2. \A f \in archives' : f \in ArchiveFile
      BY <2>2 DEF TraceIInv, TraceTypePart, TraceTypeOK
    <3>3. QED
      BY <1>1, <1>5, <3>1, <3>2 DEF TraceIInv, TraceTypePart, TraceTypeOK
  <2>4. PlacePart'
    BY <1>1, <1>4, <1>5 DEF TraceIInv, PlacePart
  <2>5. DatedPart'
    <3>1. \A e \in z.entries : e \in DOMAIN written /\ written[e] <= z.mtime
      BY <1>2, <1>4, <2>1, <2>2
    <3>2. QED
      BY <1>1, <2>2, <3>1 DEF TraceIInv, DatedPart, Dated
  <2>6. Archived \subseteq Archived' /\ Contents(part) \subseteq Archived'
    BY <1>3, <2>2 DEF Archived, Contents
  <2>7. KeptPart'
    <3>1. Readable \subseteq Readable'
      BY <1>1, <2>6 DEF Readable, Archived
    <3>2. at' = "remove" => Contents(job') \subseteq Archived'
      BY <1>1, <1>8, <2>6
    <3>3. QED
      BY <1>1, <3>1, <3>2 DEF TraceIInv, KeptPart
  <2>8. OncePart'
    <3>1. SUFFICES ASSUME ~doubled' PROVE OncePart'
      BY DEF OncePart
    <3>2. part = job /\ at' = "remove" /\ ~doubled
      BY <1>8, <3>1
    <3>3. /\ active \cap (Contents(rotated) \cup Contents(archives)) = {}
          /\ Apart(rotated) /\ Apart(archives)
          /\ Contents(rotated) \cap Contents(archives) = {}
      BY <1>1, <3>2 DEF TraceIInv, OncePart
    <3>4. Contents(archives') \subseteq Contents(archives) \cup Contents(rotated)
      BY <2>1, <2>2 DEF Contents
    <3>5. Apart(archives')
      <4>1. \A b \in archives : b.entries \cap z.entries = {}
        BY <2>1, <2>2, <3>3 DEF Contents
      <4>2. QED
        BY <2>2, <3>3, <4>1 DEF Apart
    <3>6. active' \cap (Contents(rotated') \cup Contents(archives')) = {}
      BY <1>1, <3>3, <3>4
    <3>7. Apart(rotated')
      BY <1>1, <3>3
    <3>8. QED
      BY <3>2, <3>5, <3>6, <3>7 DEF OncePart
  <2>9. QED
    BY <1>6, <2>3, <2>4, <2>5, <2>7, <2>8 DEF TraceIInv
<1>9. QED
  <2>1. CASE archives' = Finished(job) /\ at' = "remove" /\ doubled' = doubled
    BY <1>8, <2>1
  <2>2. CASE at' = "prune" /\ doubled' = TRUE /\ \E part \in SUBSET job : archives' = Finished(part)
    BY <1>8, <2>2
  <2>3. QED
    BY <1>1, <1>7, <2>1, <2>2

\* What the originals hold is in the archive.
LEMMA RemoveOriginalsHolds == ASSUME TraceIInv, RemoveOriginals PROVE TraceIInv'
<1>1. /\ at = "remove" /\ at' = "prune" /\ job' = {}
      /\ UNCHANGED <<today, stage, traceQueue, traceDropped, emitted, active, archives, target, written>>
      /\ \/ rotated' = rotated \ job /\ faults' = faults /\ doubled' = doubled
         \/ /\ faults < MaxFaults /\ faults' = faults + 1 /\ doubled' = TRUE
            /\ \E kept \in SUBSET job : rotated' = rotated \ (job \ kept)
  BY DEF RemoveOriginals, Fault, Without, channel
<1>2. faults \in Nat /\ MaxFaults \in Nat
  BY TraceTypes DEF TraceIInv
<1>3. job = rotated /\ rotated' \subseteq rotated
  BY <1>1 DEF TraceIInv, PlacePart
<1>4. TraceTypePart'
  <2>1. faults' \in 0 .. MaxFaults
    BY <1>1, <1>2 DEF TraceIInv, TraceTypePart, TraceTypeOK
  <2>2. doubled' \in BOOLEAN
    BY <1>1 DEF TraceIInv, TraceTypePart, TraceTypeOK
  <2>3. IsFiniteSet(rotated')
    BY <1>3, FS_Subset DEF TraceIInv, TraceTypePart
  <2>4. \A f \in rotated' : f \in RotatedFile
    BY <1>3 DEF TraceIInv, TraceTypePart, TraceTypeOK
  <2>5. QED
    BY <1>1, <2>1, <2>2, <2>3, <2>4 DEF TraceIInv, TraceTypePart, TraceTypeOK
<1>5. PlacePart' /\ WaitingPart' /\ CountPart'
  BY <1>1, <1>2 DEF TraceIInv, PlacePart, WaitingPart, CountPart
<1>6. DatedPart'
  BY <1>1, <1>3 DEF TraceIInv, DatedPart, Dated
<1>7. KeptPart'
  <2>1. Contents(rotated) \subseteq Archived
    BY <1>1, <1>3 DEF TraceIInv, KeptPart
  <2>2. Readable = active \cup Archived
    BY <2>1 DEF Readable, Archived
  <2>3. active \cup Archived \subseteq Readable'
    BY <1>1 DEF Readable, Archived
  <2>4. QED
    BY <1>1, <2>2, <2>3 DEF TraceIInv, KeptPart
<1>8. OncePart'
  <2>1. SUFFICES ASSUME ~doubled' PROVE OncePart'
    BY DEF OncePart
  <2>2. rotated' = {} /\ ~doubled
    BY <1>1, <1>3, <2>1
  <2>3. Contents(rotated') = {} /\ Apart(rotated')
    BY <2>2 DEF Contents, Apart
  <2>4. active \cap Contents(archives) = {} /\ Apart(archives)
    BY <2>2 DEF TraceIInv, OncePart
  <2>5. QED
    BY <1>1, <2>3, <2>4 DEF OncePart
<1>9. QED
  BY <1>4, <1>5, <1>6, <1>7, <1>8 DEF TraceIInv

\* A file that goes is older than the retention, and so is all it holds.
LEMMA PruneHolds == ASSUME TraceIInv, Prune PROVE TraceIInv'
<1>1. /\ at \in {"start", "prune", "receive"} /\ at' = "receive" /\ job' = {}
      /\ UNCHANGED <<today, stage, traceQueue, traceDropped, emitted, active, target, written, doubled>>
      /\ rotated' \subseteq rotated /\ rotated \ rotated' \subseteq Expired(rotated)
      /\ archives' \subseteq archives /\ archives \ archives' \subseteq Expired(archives)
      /\ \/ faults' = faults
         \/ faults < MaxFaults /\ faults' = faults + 1
  BY DEF Prune, PrunedAt, Fault, channel
<1>2. /\ today \in Nat /\ Retention \in Nat /\ faults \in Nat /\ MaxFaults \in Nat
      /\ \A e \in DOMAIN written : written[e] \in Nat
      /\ \A f \in rotated \cup archives : f.mtime \in Nat
  BY TraceTypes DEF TraceIInv
<1>3. TraceTypePart'
  <2>1. faults' \in 0 .. MaxFaults
    BY <1>1, <1>2 DEF TraceIInv, TraceTypePart, TraceTypeOK
  <2>2. IsFiniteSet(rotated') /\ IsFiniteSet(archives')
    BY <1>1, FS_Subset DEF TraceIInv, TraceTypePart
  <2>3. \A f \in rotated' : f \in RotatedFile
    BY <1>1 DEF TraceIInv, TraceTypePart, TraceTypeOK
  <2>4. \A f \in archives' : f \in ArchiveFile
    BY <1>1 DEF TraceIInv, TraceTypePart, TraceTypeOK
  <2>5. QED
    BY <1>1, <2>1, <2>2, <2>3, <2>4 DEF TraceIInv, TraceTypePart, TraceTypeOK
<1>4. PlacePart' /\ WaitingPart' /\ CountPart'
  BY <1>1, <1>2 DEF TraceIInv, PlacePart, WaitingPart, CountPart
<1>5. DatedPart'
  BY <1>1 DEF TraceIInv, DatedPart, Dated
<1>6. KeptPart'
  <2>1. SUFFICES ASSUME NEW e \in DOMAIN written, today - written[e] <= Retention, e \in Readable
                 PROVE  e \in Readable'
    BY <1>1 DEF TraceIInv, KeptPart
  <2>2. ASSUME NEW f \in rotated \cup archives, e \in f.entries
        PROVE  f \notin Expired(rotated) /\ f \notin Expired(archives)
    <3>1. written[e] <= f.mtime
      BY <2>2 DEF TraceIInv, DatedPart, Dated
    <3>2. ~(today - f.mtime > Retention)
      BY <1>2, <2>1, <3>1
    <3>3. QED
      BY <3>2 DEF Expired
  <2>3. CASE e \in active
    BY <1>1, <2>3 DEF Readable
  <2>4. CASE e \in Contents(rotated)
    <3>1. PICK f \in rotated : e \in f.entries
      BY <2>4 DEF Contents
    <3>2. f \in rotated'
      BY <1>1, <2>2, <3>1
    <3>3. QED
      BY <3>1, <3>2 DEF Readable, Contents
  <2>5. CASE e \in Archived
    <3>1. PICK f \in archives : e \in f.entries /\ f.whole
      BY <2>5 DEF Archived, Contents
    <3>2. f \in archives'
      BY <1>1, <2>2, <3>1
    <3>3. QED
      BY <3>1, <3>2 DEF Readable, Contents
  <2>6. QED
    BY <2>1, <2>3, <2>4, <2>5 DEF Readable, Archived
<1>7. OncePart'
  <2>1. SUFFICES ASSUME ~doubled PROVE OncePart'
    BY <1>1 DEF OncePart
  <2>2. /\ active \cap (Contents(rotated) \cup Contents(archives)) = {}
        /\ Apart(rotated) /\ Apart(archives)
        /\ Contents(rotated) \cap Contents(archives) = {}
    BY <1>1, <2>1 DEF TraceIInv, OncePart
  <2>3. Contents(rotated') \subseteq Contents(rotated) /\ Contents(archives') \subseteq Contents(archives)
    BY <1>1 DEF Contents
  <2>4. Apart(rotated') /\ Apart(archives')
    BY <1>1, <2>2 DEF Apart
  <2>5. QED
    BY <1>1, <2>2, <2>3, <2>4 DEF OncePart
<1>8. QED
  BY <1>3, <1>4, <1>5, <1>6, <1>7 DEF TraceIInv
-----------------------------------------------------------------------------
LEMMA TraceNextHolds == TraceIInv /\ [TraceNext]_traceVars => TraceIInv'
<1> SUFFICES ASSUME TraceIInv, [TraceNext]_traceVars PROVE TraceIInv'
  OBVIOUS
<1>1. CASE NextDay
  BY <1>1, NextDayHolds
<1>2. CASE TraceEmit
  BY <1>2, TraceEmitHolds
<1>3. CASE Work
  <2>1. CASE WriteEntry
    BY <2>1, WriteEntryHolds
  <2>2. CASE Rotate
    BY <2>2, RotateHolds
  <2>3. CASE CreateArchive
    BY <2>3, CreateArchiveHolds
  <2>4. CASE FillArchive
    BY <2>4, FillArchiveHolds
  <2>5. CASE RemoveOriginals
    BY <2>5, RemoveOriginalsHolds
  <2>6. CASE Prune
    BY <2>6, PruneHolds
  <2>7. QED
    BY <1>3, <2>1, <2>2, <2>3, <2>4, <2>5, <2>6 DEF Work
<1>4. CASE Kill
  BY <1>4, KillHolds
<1>5. CASE Shutdown
  BY <1>5, ShutdownHolds
<1>6. CASE Exit
  BY <1>6, ExitHolds
<1>7. CASE Start
  BY <1>7, StartHolds
<1>8. CASE UNCHANGED traceVars
  <2>1. UNCHANGED <<today, stage, at, traceQueue, traceDropped, emitted, active, rotated, archives,
                    job, target, written, doubled, faults>>
    BY <1>8 DEF traceVars, channel, files, seen
  <2>2. TraceTypePart' /\ PlacePart' /\ WaitingPart' /\ CountPart'
    BY <2>1 DEF TraceIInv, TraceTypePart, TraceTypeOK, PlacePart, WaitingPart, CountPart
  <2>3. DatedPart' /\ OncePart'
    BY <2>1 DEF TraceIInv, DatedPart, Dated, OncePart, Apart, Contents
  <2>4. KeptPart'
    BY <2>1 DEF TraceIInv, KeptPart, Readable, Contents, Archived
  <2>5. QED
    BY <2>2, <2>3, <2>4 DEF TraceIInv
<1>9. QED
  BY <1>1, <1>2, <1>3, <1>4, <1>5, <1>6, <1>7, <1>8 DEF TraceNext

\* Wherever the worker is killed and whatever fails, every file holds what was written
\* before its date, and originals go only when an archive has what they hold.
THEOREM TraceInductive == TraceSpec => []TraceIInv
  BY TraceInitHolds, TraceNextHolds, PTL DEF TraceSpec

\* The variables of the trace writer keep their types.
THEOREM TraceTypeCorrect == TraceSpec => []TraceTypeOK
<1>1. TraceIInv => TraceTypeOK
  BY DEF TraceIInv, TraceTypePart
<1>2. QED
  BY <1>1, TraceInductive, PTL

\* What was written can be read until it is older than the retention, and once; what
\* was accepted is written before a graceful stop.
THEOREM KeptHolds == TraceSpec => []EntryKept
<1>1. TraceIInv => EntryKept
  <2> SUFFICES ASSUME TraceIInv PROVE EntryKept
    OBVIOUS
  <2>1. \A e \in DOMAIN written : today - written[e] <= Retention => e \in Readable
    BY DEF TraceIInv, KeptPart
  <2>2. ASSUME ~doubled, at # "remove"
        PROVE  /\ active \cap (Contents(rotated) \cup Contents(archives)) = {}
               /\ \A f, g \in rotated \cup archives : f.entries \cap g.entries # {} => f = g
    <3>1. /\ active \cap (Contents(rotated) \cup Contents(archives)) = {}
          /\ Apart(rotated) /\ Apart(archives)
          /\ Contents(rotated) \cap Contents(archives) = {}
      BY <2>2 DEF TraceIInv, OncePart
    <3>2. \A f \in rotated, g \in archives : f.entries \cap g.entries = {}
      BY <3>1 DEF Contents
    <3>3. QED
      BY <3>1, <3>2 DEF Apart
  <2>3. stage = "stopped" /\ faults = 0 => Cardinality(DOMAIN written) + traceDropped = emitted
    <3>1. SUFFICES ASSUME stage = "stopped", faults = 0
                   PROVE  Cardinality(DOMAIN written) + traceDropped = emitted
      OBVIOUS
    <3>2. Len(traceQueue) = 0
      BY <3>1 DEF TraceIInv, PlacePart
    <3>3. Cardinality(DOMAIN written) \in Nat /\ traceDropped \in Nat
      BY TraceTypes DEF TraceIInv
    <3>4. QED
      BY <3>1, <3>2, <3>3 DEF TraceIInv, CountPart
  <2>4. QED
    BY <2>1, <2>2, <2>3 DEF EntryKept
<1>2. QED
  BY <1>1, TraceInductive, PTL
-----------------------------------------------------------------------------
(* The windows of a text *)

\* A set of numbers that has 0, and each of 1 to n whose predecessor it has, has all
\* of them.
LEMMA UpTo ==
    ASSUME NEW n \in Nat, NEW T, 0 \in T, \A i \in 1 .. n : i - 1 \in T => i \in T
    PROVE  \A i \in 0 .. n : i \in T
<1> DEFINE Unmet == {i \in 0 .. n : i \notin T}
<1>1. SUFFICES ASSUME Unmet # {} PROVE FALSE
  OBVIOUS
<1>2. Unmet \in SUBSET Nat
  OBVIOUS
<1> HIDE DEF Unmet
<1>3. PICK i \in Unmet : \A j \in Unmet : i <= j
  BY <1>1, <1>2, LeastExists
<1> QED
  BY <1>3 DEF Unmet

LEMMA MinOf ==
    ASSUME NEW S \in SUBSET Nat, S # {}
    PROVE  Min(S) \in S /\ \A k \in S : Min(S) <= k
  BY LeastExists DEF Min

LEMMA MaxOf ==
    ASSUME NEW n \in Nat, NEW S \in SUBSET (0 .. n), S # {}
    PROVE  Max(S) \in S /\ \A k \in S : k <= Max(S)
<1> DEFINE D == {n - k : k \in S}
<1>1. D \in SUBSET Nat /\ D # {}
  OBVIOUS
<1>2. \A k \in S : n - k \in D
  OBVIOUS
<1>3. \A m \in D : \E k \in S : m = n - k
  OBVIOUS
<1> HIDE DEF D
<1>4. PICK m \in D : \A d \in D : m <= d
  BY <1>1, LeastExists
<1>5. PICK g \in S : m = n - g
  BY <1>3, <1>4
<1>6. \A k \in S : g >= k
  BY <1>2, <1>4, <1>5
<1>7. Max(S) \in S /\ \A k \in S : Max(S) >= k
  BY <1>6 DEF Max
<1> QED
  BY <1>7

-----------------------------------------------------------------------------
(* Spans *)

Span == [start : Nat, end : Nat, kind : STRING, sum : Nat, count : Nat, word : Nat]
\* The spans that cover something.
Spans == {s \in Span : s.start < s.end}

ByStart(s) == \A i, j \in DOMAIN s : i < j => s[i].start <= s[j].start
NoRivals(s) == \A i, j \in DOMAIN s : i # j => ~Rivals(s[i], s[j])
Best(span, all) == \A r \in all \ {span} : Rivals(span, r) => Higher(span, r)
FirstOf(s, n) == {s[i] : i \in 1 .. n}

LEMMA HigherOnce ==
    ASSUME NEW a \in Span, NEW b \in Span, Higher(a, b)
    PROVE  ~Higher(b, a)
<1> DEFINE x == a.sum * b.count
           y == b.sum * a.count
<1>1. a.sum \in Nat /\ a.count \in Nat /\ b.sum \in Nat /\ b.count \in Nat
  BY DEF Span
<1>2. x \in Nat /\ y \in Nat
  BY <1>1
<1>3. (Higher(a, b) <=> x > y) /\ (Higher(b, a) <=> y > x)
  BY DEF Higher
<1> HIDE DEF x, y
<1> QED
  BY <1>2, <1>3

LEMMA RivalsBoth == ASSUME NEW a, NEW b PROVE Rivals(a, b) <=> Rivals(b, a)
  BY DEF Rivals, ranges_overlap

\* Two spans of a kind that reach over a point are rivals.
LEMMA RivalsMeet ==
    ASSUME NEW a \in Spans, NEW b \in Spans, NEW x \in Spans, Rivals(a, x), Rivals(b, x),
           a.start <= x.start, b.start <= x.start
    PROVE  Rivals(a, b)
  BY DEF Rivals, ranges_overlap, Spans, Span

LEMMA ToSetOf ==
    ASSUME NEW X, NEW s \in Seq(X)
    PROVE  /\ ToSet(s) = {s[i] : i \in 1 .. Len(s)}
           /\ \A i \in 1 .. Len(s) : s[i] \in ToSet(s)
           /\ \A x \in ToSet(s) : x \in X /\ \E i \in 1 .. Len(s) : s[i] = x
<1>1. DOMAIN s = 1 .. Len(s) /\ \A i \in 1 .. Len(s) : s[i] \in X
  OBVIOUS
<1> QED
  BY <1>1 DEF ToSet

LEMMA InsertedAt ==
    ASSUME NEW X, NEW s \in Seq(X), NEW x \in X, NEW k \in 1 .. Len(s) + 1
    PROVE  /\ InsertAt(s, k, x) \in Seq(X) /\ Len(InsertAt(s, k, x)) = Len(s) + 1
           /\ \A i \in 1 .. Len(s) + 1 :
                 InsertAt(s, k, x)[i] = IF i < k THEN s[i] ELSE IF i = k THEN x ELSE s[i - 1]
<1> DEFINE a == SubSeq(s, 1, k - 1)
           c == SubSeq(s, k, Len(s))
           b == <<x>>
<1>0. Len(s) \in Nat /\ k \in Nat /\ 1 <= k /\ k <= Len(s) + 1 /\ \A i \in 1 .. Len(s) : s[i] \in X
  OBVIOUS
<1>1. a \in Seq(X) /\ Len(a) = k - 1 /\ \A i \in 1 .. k - 1 : a[i] = s[i]
  <2>1. \A i \in 1 .. k - 1 : s[i] \in X
    BY <1>0
  <2>2. /\ a \in Seq(X) /\ Len(a) = IF 1 <= k - 1 THEN k - 1 - 1 + 1 ELSE 0
        /\ \A i \in 1 .. k - 1 - 1 + 1 : a[i] = s[1 + i - 1]
    BY <1>0, <2>1, SubSeqProperties
  <2> HIDE DEF a
  <2>3. \A i \in 1 .. k - 1 : i \in 1 .. k - 1 - 1 + 1 /\ 1 + i - 1 = i
    BY <1>0
  <2> QED
    BY <1>0, <2>2, <2>3
<1>2. c \in Seq(X) /\ Len(c) = Len(s) - k + 1 /\ \A i \in 1 .. Len(s) - k + 1 : c[i] = s[k + i - 1]
  <2>1. \A i \in k .. Len(s) : s[i] \in X
    BY <1>0
  <2>2. /\ c \in Seq(X) /\ Len(c) = IF k <= Len(s) THEN Len(s) - k + 1 ELSE 0
        /\ \A i \in 1 .. Len(s) - k + 1 : c[i] = s[k + i - 1]
    BY <1>0, <2>1, SubSeqProperties
  <2> HIDE DEF c
  <2> QED
    BY <1>0, <2>2
<1>3. b \in Seq(X) /\ Len(b) = 1 /\ b[1] = x
  OBVIOUS
<1>4. InsertAt(s, k, x) = (a \o b) \o c
  BY DEF InsertAt
<1> HIDE DEF a, b, c
<1> DEFINE ab == a \o b
<1>5. ab \in Seq(X) /\ Len(ab) = k /\ \A i \in 1 .. k : ab[i] = IF i < k THEN s[i] ELSE x
  <2>1. /\ ab \in Seq(X) /\ Len(ab) = Len(a) + Len(b)
        /\ \A i \in 1 .. Len(a) + Len(b) : ab[i] = IF i <= Len(a) THEN a[i] ELSE b[i - Len(a)]
    BY <1>1, <1>3, ConcatProperties
  <2> HIDE DEF ab
  <2>2. Len(ab) = k
    BY <1>0, <1>1, <1>3, <2>1
  <2>3. ASSUME NEW i \in 1 .. k PROVE ab[i] = IF i < k THEN s[i] ELSE x
    <3>1. CASE i < k
      <4>1. i \in 1 .. k - 1 /\ i \in 1 .. Len(a) + Len(b) /\ i <= Len(a)
        BY <1>0, <1>1, <1>3, <3>1
      <4> QED
        BY <1>1, <2>1, <3>1, <4>1
    <3>2. CASE ~(i < k)
      <4>1. i = k /\ i \in 1 .. Len(a) + Len(b) /\ ~(i <= Len(a)) /\ i - Len(a) = 1
        BY <1>0, <1>1, <1>3, <3>2
      <4> QED
        BY <1>3, <2>1, <3>2, <4>1
    <3> QED
      BY <3>1, <3>2
  <2> QED
    BY <2>1, <2>2, <2>3
<1> HIDE DEF ab
<1>6. /\ ab \o c \in Seq(X) /\ Len(ab \o c) = Len(ab) + Len(c)
      /\ \A i \in 1 .. Len(ab) + Len(c) : (ab \o c)[i] = IF i <= Len(ab) THEN ab[i] ELSE c[i - Len(ab)]
  BY <1>2, <1>5, ConcatProperties
<1>7. InsertAt(s, k, x) = ab \o c
  BY <1>4 DEF ab
<1> DEFINE all == ab \o c
<1> HIDE DEF all
<1>8. Len(all) = Len(s) + 1
  BY <1>0, <1>2, <1>5, <1>6 DEF all
<1>9. ASSUME NEW i \in 1 .. Len(s) + 1
      PROVE  all[i] = IF i < k THEN s[i] ELSE IF i = k THEN x ELSE s[i - 1]
  <2>0. i \in 1 .. Len(ab) + Len(c) /\ i \in Nat
    BY <1>0, <1>2, <1>5
  <2>1. CASE i <= k
    <3>1. i \in 1 .. k /\ i <= Len(ab)
      BY <1>0, <1>5, <2>0, <2>1
    <3>2. all[i] = ab[i]
      BY <1>6, <2>0, <3>1 DEF all
    <3> QED
      BY <1>0, <1>5, <2>0, <3>1, <3>2
  <2>2. CASE ~(i <= k)
    <3>1. ~(i <= Len(ab)) /\ i - Len(ab) = i - k /\ i - k \in 1 .. Len(s) - k + 1 /\ k + (i - k) - 1 = i - 1
      BY <1>0, <1>5, <2>0, <2>2
    <3>2. all[i] = c[i - k]
      BY <1>6, <2>0, <3>1 DEF all
    <3>3. c[i - k] = s[i - 1]
      BY <1>2, <3>1
    <3> QED
      BY <1>0, <2>0, <2>2, <3>2, <3>3
  <2> QED
    BY <2>1, <2>2
<1> QED
  BY <1>6, <1>7, <1>8, <1>9 DEF all

-----------------------------------------------------------------------------
(* The sort *)

\* What is inserted comes in by its start, and beside what is there.
LEMMA InsertSorts ==
    ASSUME NEW X \in SUBSET Spans, NEW s \in Seq(X), NEW x \in X, NEW byScore, ByStart(s)
    PROVE  /\ Insert(s, x, byScore) \in Seq(X)
           /\ ToSet(Insert(s, x, byScore)) = ToSet(s) \cup {x}
           /\ ByStart(Insert(s, x, byScore))
           /\ NoRivals(s) /\ (\A y \in ToSet(s) : ~Rivals(y, x)) => NoRivals(Insert(s, x, byScore))
<1> DEFINE behind == {0} \cup {i \in DOMAIN s : ~Precedes(x, s[i], byScore)}
           ahead == Max(behind)
           k == ahead + 1
           t == Insert(s, x, byScore)
<1>0. Len(s) \in Nat /\ DOMAIN s = 1 .. Len(s) /\ \A i \in 1 .. Len(s) : s[i] \in X /\ s[i].start \in Nat
  BY DEF Spans, Span
<1>1. x.start \in Nat
  BY DEF Spans, Span
<1>2. behind \in SUBSET (0 .. Len(s)) /\ behind # {}
  BY <1>0
<1>3. \A i \in 1 .. Len(s) : i \notin behind => x.start <= s[i].start
  BY <1>0, <1>1 DEF Precedes
<1>4. \A i \in behind : i # 0 => i \in 1 .. Len(s) /\ s[i].start <= x.start
  BY <1>0, <1>1 DEF Precedes
<1>5. t = InsertAt(s, k, x)
  BY DEF Insert
<1> HIDE DEF behind
<1>6. ahead \in behind /\ \A i \in behind : i <= ahead
  BY <1>0, <1>2, MaxOf
<1> HIDE DEF ahead, t
<1>7. ahead \in 0 .. Len(s) /\ k \in 1 .. Len(s) + 1
  BY <1>0, <1>2, <1>6
<1>8. /\ t \in Seq(X) /\ Len(t) = Len(s) + 1
      /\ \A i \in 1 .. Len(s) + 1 : t[i] = IF i < k THEN s[i] ELSE IF i = k THEN x ELSE s[i - 1]
  BY <1>5, <1>7, InsertedAt, SMTT(40)
<1>9. DOMAIN t = 1 .. Len(s) + 1
  BY <1>8
<1>10. \A i \in 1 .. Len(s) : i < k => s[i].start <= x.start
  <2> TAKE i \in 1 .. Len(s)
  <2> HAVE i < k
  <2>1. ahead # 0 /\ i <= ahead /\ ahead \in 1 .. Len(s) /\ s[ahead].start <= x.start
    BY <1>0, <1>4, <1>6, <1>7
  <2>2. CASE i = ahead
    BY <2>1, <2>2
  <2>3. CASE i < ahead
    <3>1. s[i].start <= s[ahead].start
      BY <1>0, <2>1, <2>3 DEF ByStart
    <3> QED
      BY <1>0, <1>1, <2>1, <3>1
  <2> QED
    BY <1>0, <1>7, <2>1, <2>2, <2>3
<1>11. \A i \in 1 .. Len(s) : i >= k => x.start <= s[i].start
  BY <1>0, <1>3, <1>6, <1>7
<1>12. ToSet(t) = ToSet(s) \cup {x}
  <2>1. ASSUME NEW y \in ToSet(t) PROVE y \in ToSet(s) \cup {x}
    <3>1. PICK i \in 1 .. Len(s) + 1 : t[i] = y
      BY <1>8, ToSetOf
    <3>2. CASE i < k
      <4>1. i \in 1 .. Len(s) /\ y = s[i]
        BY <1>0, <1>7, <1>8, <3>1, <3>2
      <4> QED
        BY <4>1, ToSetOf
    <3>3. CASE i = k
      BY <1>8, <3>1, <3>3
    <3>4. CASE i > k
      <4>1. i - 1 \in 1 .. Len(s) /\ y = s[i - 1]
        BY <1>0, <1>7, <1>8, <3>1, <3>4
      <4> QED
        BY <4>1, ToSetOf
    <3> QED
      BY <1>7, <3>2, <3>3, <3>4
  <2>2. ASSUME NEW y \in ToSet(s) PROVE y \in ToSet(t)
    <3>1. PICK i \in 1 .. Len(s) : s[i] = y
      BY ToSetOf
    <3>2. CASE i < k
      <4>1. i \in 1 .. Len(s) + 1 /\ y = t[i]
        BY <1>0, <1>7, <1>8, <3>1, <3>2
      <4> QED
        BY <1>8, <4>1, ToSetOf
    <3>3. CASE ~(i < k)
      <4>1. i + 1 \in 1 .. Len(s) + 1 /\ ~(i + 1 < k) /\ i + 1 # k /\ i + 1 - 1 = i
        BY <1>0, <1>7, <3>3
      <4>2. t[i + 1] = s[i + 1 - 1]
        BY <1>8, <4>1
      <4>3. t[i + 1] = y
        BY <3>1, <4>1, <4>2
      <4> QED
        BY <1>8, <4>1, <4>3, ToSetOf
    <3> QED
      BY <3>2, <3>3
  <2>3. x \in ToSet(t)
    <3>1. t[k] = x
      BY <1>0, <1>7, <1>8
    <3> QED
      BY <1>7, <1>8, <3>1, ToSetOf
  <2> QED
    BY <2>1, <2>2, <2>3
<1>13. ASSUME NEW i \in 1 .. Len(s) + 1, NEW j \in 1 .. Len(s) + 1, i < j
       PROVE  \/ \E p, q \in 1 .. Len(s) : p < q /\ t[i] = s[p] /\ t[j] = s[q]
              \/ \E p \in 1 .. Len(s) : p < k /\ t[i] = s[p] /\ t[j] = x
              \/ \E q \in 1 .. Len(s) : q >= k /\ t[i] = x /\ t[j] = s[q]
  <2>0. i \in Nat /\ j \in Nat /\ k \in Nat
    BY <1>0, <1>7
  <2>1. CASE j < k
    <3>1. i \in 1 .. Len(s) /\ j \in 1 .. Len(s) /\ t[i] = s[i] /\ t[j] = s[j]
      BY <1>0, <1>7, <1>8, <1>13, <2>1
    <3> QED
      BY <1>13, <3>1
  <2>2. CASE j = k
    <3>1. i \in 1 .. Len(s) /\ i < k /\ t[i] = s[i] /\ t[j] = x
      BY <1>0, <1>7, <1>8, <1>13, <2>2
    <3> QED
      BY <3>1
  <2>3. CASE j > k
    <3>1. j - 1 \in 1 .. Len(s) /\ j - 1 >= k /\ t[j] = s[j - 1]
      BY <1>0, <1>7, <1>8, <2>0, <2>3
    <3>2. CASE i < k
      <4>1. i \in 1 .. Len(s) /\ i < j - 1 /\ t[i] = s[i]
        BY <1>0, <1>7, <1>8, <1>13, <3>1, <3>2
      <4> QED
        BY <3>1, <4>1
    <3>3. CASE i = k
      <4>1. t[i] = x
        BY <1>8, <2>0, <3>3
      <4> QED
        BY <3>1, <4>1
    <3>4. CASE i > k
      <4>1. i - 1 \in 1 .. Len(s) /\ i - 1 < j - 1 /\ t[i] = s[i - 1]
        BY <1>0, <1>7, <1>8, <1>13, <2>0, <3>4
      <4> QED
        BY <3>1, <4>1
    <3> QED
      BY <2>0, <3>2, <3>3, <3>4
  <2> QED
    BY <2>0, <2>1, <2>2, <2>3
<1>14. ByStart(t)
  <2>1. \A p, q \in 1 .. Len(s) : p < q => s[p].start <= s[q].start
    BY <1>0 DEF ByStart
  <2>2. \A i, j \in 1 .. Len(s) + 1 : i < j => t[i].start <= t[j].start
    <3> SUFFICES ASSUME NEW i \in 1 .. Len(s) + 1, NEW j \in 1 .. Len(s) + 1, i < j
                 PROVE  t[i].start <= t[j].start
      OBVIOUS
    <3>1. CASE \E p, q \in 1 .. Len(s) : p < q /\ t[i] = s[p] /\ t[j] = s[q]
      BY <2>1, <3>1, Zenon
    <3>2. CASE \E p \in 1 .. Len(s) : p < k /\ t[i] = s[p] /\ t[j] = x
      BY <1>10, <3>2, Zenon
    <3>3. CASE \E q \in 1 .. Len(s) : q >= k /\ t[i] = x /\ t[j] = s[q]
      BY <1>11, <3>3, Zenon
    <3> QED
      BY <1>13, <3>1, <3>2, <3>3
  <2> QED
    BY <1>9, <2>2 DEF ByStart
<1>15. ASSUME NoRivals(s), \A y \in ToSet(s) : ~Rivals(y, x) PROVE NoRivals(t)
  <2>1. \A p \in 1 .. Len(s) : ~Rivals(s[p], x) /\ ~Rivals(x, s[p])
    BY <1>15, ToSetOf, RivalsBoth
  <2>2. \A p, q \in 1 .. Len(s) : p < q => ~Rivals(s[p], s[q])
    BY <1>0, <1>15 DEF NoRivals
  <2>3. \A i, j \in 1 .. Len(s) + 1 : i < j => ~Rivals(t[i], t[j])
    BY <1>13, <2>1, <2>2, Zenon
  <2>4. ASSUME NEW i \in DOMAIN t, NEW j \in DOMAIN t, i # j PROVE ~Rivals(t[i], t[j])
    <3>1. i \in 1 .. Len(s) + 1 /\ j \in 1 .. Len(s) + 1 /\ (i < j \/ j < i)
      BY <1>0, <1>9, <2>4
    <3> QED
      BY <2>3, <3>1, RivalsBoth
  <2> QED
    BY <2>4 DEF NoRivals
<1> QED
  BY <1>8, <1>12, <1>14, <1>15 DEF t

\* f is the recursion of SortByStart.
Sorts(f, s, byScore) ==
    f = [n \in 0 .. Len(s) |-> IF n = 0 THEN <<>> ELSE Insert(f[n - 1], s[n], byScore)]
SortStep(f, s, byScore, n) == f[n] = Insert(f[n - 1], s[n], byScore)

LEMMA SortBy ==
    ASSUME NEW X, NEW s \in Seq(X), NEW byScore
    PROVE  \E f : /\ SortByStart(s, byScore) = f[Len(s)] /\ f[0] = <<>>
                  /\ \A n \in 1 .. Len(s) : SortStep(f, s, byScore, n)
<1> DEFINE N == Len(s)
           Up(f, m) == /\ f = [n \in 0 .. m |-> f[n]] /\ f[0] = <<>>
                       /\ \A n \in 1 .. m : SortStep(f, s, byScore, n)
           T == {m \in 0 .. N : \E f : Up(f, m)}
           h == CHOOSE f : Sorts(f, s, byScore)
<1>0. N \in Nat
  OBVIOUS
<1>1. SortByStart(s, byScore) = h[N]
  BY DEF SortByStart, Sorts
<1> HIDE DEF N, h
<1>2. 0 \in T
  <2> DEFINE f == [n \in 0 .. 0 |-> <<>>]
  <2>1. Up(f, 0)
    OBVIOUS
  <2> HIDE DEF f, Up
  <2> QED
    BY <1>0, <2>1
<1>3. ASSUME NEW m \in 1 .. N, m - 1 \in T PROVE m \in T
  <2>1. PICK f : Up(f, m - 1)
    BY <1>3
  <2> DEFINE grown == Insert(f[m - 1], s[m], byScore)
             g == [n \in 0 .. m |-> IF n = m THEN grown ELSE f[n]]
  <2> HIDE DEF grown
  <2>2. /\ g = [n \in 0 .. m |-> g[n]] /\ g[m] = grown /\ m \in Nat /\ m # 0
        /\ \A n \in 0 .. m - 1 : g[n] = f[n]
    OBVIOUS
  <2> HIDE DEF g
  <2>3. g[0] = <<>>
    <3>1. 0 \in 0 .. m - 1
      BY <1>0
    <3>2. g[0] = f[0] /\ f[0] = <<>>
      BY <2>1, <2>2, <3>1
    <3> QED
      BY <3>2
  <2>4. ASSUME NEW n \in 1 .. m PROVE SortStep(g, s, byScore, n)
    <3>1. CASE n = m
      <4>1. m - 1 \in 0 .. m - 1
        BY <1>0
      <4>2. g[m - 1] = f[m - 1]
        BY <2>2, <4>1
      <4> QED
        BY <2>2, <3>1, <4>2 DEF SortStep, grown
    <3>2. CASE n # m
      <4>1. n \in 1 .. m - 1 /\ n \in 0 .. m - 1 /\ n - 1 \in 0 .. m - 1
        BY <1>0, <3>2
      <4>2. g[n] = f[n] /\ g[n - 1] = f[n - 1] /\ SortStep(f, s, byScore, n)
        BY <2>1, <2>2, <4>1
      <4> QED
        BY <4>2 DEF SortStep
    <3> QED
      BY <3>1, <3>2
  <2>5. Up(g, m)
    BY <2>2, <2>3, <2>4
  <2> HIDE DEF Up
  <2> QED
    BY <1>0, <2>5
<1>4. \E f : Up(f, N)
  <2> HIDE DEF T
  <2>1. \A i \in 0 .. N : i \in T
    BY <1>0, <1>2, <1>3, UpTo
  <2>2. N \in T
    BY <1>0, <2>1
  <2> QED
    BY <2>2 DEF T
<1>5. PICK f : Up(f, N)
  BY <1>4
<1>6. Sorts(f, s, byScore)
  <2>1. ASSUME NEW n \in 0 .. N, n # 0 PROVE f[n] = Insert(f[n - 1], s[n], byScore)
    <3>1. n \in 1 .. N
      BY <1>0, <2>1
    <3> QED
      BY <1>5, <3>1 DEF SortStep
  <2>2. f = [n \in 0 .. N |-> f[n]] /\ f[0] = <<>>
    BY <1>5
  <2>3. f = [n \in 0 .. N |-> IF n = 0 THEN <<>> ELSE Insert(f[n - 1], s[n], byScore)]
    BY <2>1, <2>2
  <2> QED
    BY <2>3 DEF Sorts, N
<1>7. Sorts(h, s, byScore)
  BY <1>6, Zenon DEF h
<1>8. h = [n \in 0 .. N |-> IF n = 0 THEN <<>> ELSE Insert(h[n - 1], s[n], byScore)]
  BY <1>7 DEF Sorts, N
<1>9. h[0] = <<>>
  BY <1>0, <1>8
<1>10. ASSUME NEW n \in 1 .. N PROVE SortStep(h, s, byScore, n)
  <2>1. n \in 0 .. N /\ n # 0
    BY <1>0
  <2> QED
    BY <1>8, <2>1 DEF SortStep
<1> QED
  BY <1>1, <1>9, <1>10 DEF N

\* A sort by start keeps the spans, and orders them.
LEMMA SortIs ==
    ASSUME NEW X \in SUBSET Spans, NEW s \in Seq(X), NEW byScore
    PROVE  /\ SortByStart(s, byScore) \in Seq(X)
           /\ ToSet(SortByStart(s, byScore)) = ToSet(s)
           /\ ByStart(SortByStart(s, byScore))
           /\ NoRivals(s) => NoRivals(SortByStart(s, byScore))
<1>0. Len(s) \in Nat /\ DOMAIN s = 1 .. Len(s) /\ \A i \in 1 .. Len(s) : s[i] \in X
  OBVIOUS
<1>1. PICK f : /\ SortByStart(s, byScore) = f[Len(s)] /\ f[0] = <<>>
               /\ \A n \in 1 .. Len(s) : SortStep(f, s, byScore, n)
  BY SortBy
<1> DEFINE Good(n) == /\ f[n] \in Seq(X) /\ ToSet(f[n]) = FirstOf(s, n) /\ ByStart(f[n])
                      /\ NoRivals(s) => NoRivals(f[n])
           T == {n \in 0 .. Len(s) : Good(n)}
<1>2. 0 \in T
  <2>1. DOMAIN f[0] = {} /\ f[0] \in Seq(X)
    BY <1>1
  <2>2. ToSet(f[0]) = {} /\ FirstOf(s, 0) = {}
    BY <2>1 DEF ToSet, FirstOf
  <2>3. Good(0)
    BY <2>1, <2>2 DEF ByStart, NoRivals
  <2> HIDE DEF Good
  <2> QED
    BY <1>0, <2>3
<1>3. ASSUME NEW n \in 1 .. Len(s), n - 1 \in T PROVE n \in T
  <2>0. Good(n - 1) /\ n \in 0 .. Len(s)
    BY <1>0, <1>3
  <2>1. PICK old : old = f[n - 1]
    OBVIOUS
  <2>2. PICK x \in X : x = s[n]
    BY <1>0
  <2>3. f[n] = Insert(old, x, byScore)
    BY <1>1, <2>1, <2>2 DEF SortStep
  <2>4. old \in Seq(X) /\ ToSet(old) = FirstOf(s, n - 1) /\ ByStart(old) /\ (NoRivals(s) => NoRivals(old))
    BY <2>0, <2>1
  <2>5. /\ f[n] \in Seq(X) /\ ToSet(f[n]) = ToSet(old) \cup {x} /\ ByStart(f[n])
        /\ NoRivals(old) /\ (\A y \in ToSet(old) : ~Rivals(y, x)) => NoRivals(f[n])
    <3>1. PICK new : new = Insert(old, x, byScore)
      OBVIOUS
    <3>2. /\ new \in Seq(X) /\ ToSet(new) = ToSet(old) \cup {x} /\ ByStart(new)
          /\ NoRivals(old) /\ (\A y \in ToSet(old) : ~Rivals(y, x)) => NoRivals(new)
      BY <2>4, <3>1, InsertSorts
    <3> QED
      BY <2>3, <3>1, <3>2
  <2>6. FirstOf(s, n) = FirstOf(s, n - 1) \cup {x}
    <3>1. 1 .. n = (1 .. n - 1) \cup {n}
      BY <1>0
    <3> QED
      BY <2>2, <3>1 DEF FirstOf
  <2>7. NoRivals(s) => \A y \in FirstOf(s, n - 1) : ~Rivals(y, x)
    <3> SUFFICES ASSUME NoRivals(s), NEW i \in 1 .. n - 1 PROVE ~Rivals(s[i], s[n])
      BY <2>2 DEF FirstOf
    <3>1. i \in DOMAIN s /\ n \in DOMAIN s /\ i # n
      BY <1>0
    <3> QED
      BY <3>1 DEF NoRivals
  <2>8. Good(n)
    BY <2>4, <2>5, <2>6, <2>7
  <2> HIDE DEF Good
  <2> QED
    BY <2>0, <2>8
<1> HIDE DEF T
<1>4. \A n \in 0 .. Len(s) : n \in T
  BY <1>0, <1>2, <1>3, UpTo
<1>5. Good(Len(s))
  BY <1>0, <1>4 DEF T
<1>6. FirstOf(s, Len(s)) = ToSet(s)
  BY ToSetOf DEF FirstOf
<1> QED
  BY <1>1, <1>5, <1>6

-----------------------------------------------------------------------------
(* What competes *)

\* f is the recursion of Deduped.
Dedupes(f, s) ==
    f = [n \in 0 .. Len(s) |-> IF n = 0 THEN <<>> ELSE Keep(f[n - 1], s[n])]
DedupeStep(f, s, n) == f[n] = Keep(f[n - 1], s[n])

LEMMA DedupedBy ==
    ASSUME NEW X, NEW s \in Seq(X)
    PROVE  \E f : /\ Deduped(s) = f[Len(s)] /\ f[0] = <<>>
                  /\ \A n \in 1 .. Len(s) : DedupeStep(f, s, n)
<1> DEFINE N == Len(s)
           Up(f, m) == /\ f = [n \in 0 .. m |-> f[n]] /\ f[0] = <<>>
                       /\ \A n \in 1 .. m : DedupeStep(f, s, n)
           T == {m \in 0 .. N : \E f : Up(f, m)}
           h == CHOOSE f : Dedupes(f, s)
<1>0. N \in Nat
  OBVIOUS
<1>1. Deduped(s) = h[N]
  BY DEF Deduped, Dedupes
<1> HIDE DEF N, h
<1>2. 0 \in T
  <2> DEFINE f == [n \in 0 .. 0 |-> <<>>]
  <2>1. Up(f, 0)
    OBVIOUS
  <2> HIDE DEF f, Up
  <2> QED
    BY <1>0, <2>1
<1>3. ASSUME NEW m \in 1 .. N, m - 1 \in T PROVE m \in T
  <2>1. PICK f : Up(f, m - 1)
    BY <1>3
  <2> DEFINE grown == Keep(f[m - 1], s[m])
             g == [n \in 0 .. m |-> IF n = m THEN grown ELSE f[n]]
  <2> HIDE DEF grown
  <2>2. /\ g = [n \in 0 .. m |-> g[n]] /\ g[m] = grown /\ m \in Nat /\ m # 0
        /\ \A n \in 0 .. m - 1 : g[n] = f[n]
    OBVIOUS
  <2> HIDE DEF g
  <2>3. g[0] = <<>>
    <3>1. 0 \in 0 .. m - 1
      BY <1>0
    <3>2. g[0] = f[0] /\ f[0] = <<>>
      BY <2>1, <2>2, <3>1
    <3> QED
      BY <3>2
  <2>4. ASSUME NEW n \in 1 .. m PROVE DedupeStep(g, s, n)
    <3>1. CASE n = m
      <4>1. m - 1 \in 0 .. m - 1
        BY <1>0
      <4>2. g[m - 1] = f[m - 1]
        BY <2>2, <4>1
      <4> QED
        BY <2>2, <3>1, <4>2 DEF DedupeStep, grown
    <3>2. CASE n # m
      <4>1. n \in 1 .. m - 1 /\ n \in 0 .. m - 1 /\ n - 1 \in 0 .. m - 1
        BY <1>0, <3>2
      <4>2. g[n] = f[n] /\ g[n - 1] = f[n - 1] /\ DedupeStep(f, s, n)
        BY <2>1, <2>2, <4>1
      <4> QED
        BY <4>2 DEF DedupeStep
    <3> QED
      BY <3>1, <3>2
  <2>5. Up(g, m)
    BY <2>2, <2>3, <2>4
  <2> HIDE DEF Up
  <2> QED
    BY <1>0, <2>5
<1>4. \E f : Up(f, N)
  <2> HIDE DEF T
  <2>1. \A i \in 0 .. N : i \in T
    BY <1>0, <1>2, <1>3, UpTo
  <2>2. N \in T
    BY <1>0, <2>1
  <2> QED
    BY <2>2 DEF T
<1>5. PICK f : Up(f, N)
  BY <1>4
<1>6. Dedupes(f, s)
  <2>1. ASSUME NEW n \in 0 .. N, n # 0 PROVE f[n] = Keep(f[n - 1], s[n])
    <3>1. n \in 1 .. N
      BY <1>0, <2>1
    <3> QED
      BY <1>5, <3>1 DEF DedupeStep
  <2>2. f = [n \in 0 .. N |-> f[n]] /\ f[0] = <<>>
    BY <1>5
  <2>3. f = [n \in 0 .. N |-> IF n = 0 THEN <<>> ELSE Keep(f[n - 1], s[n])]
    BY <2>1, <2>2
  <2> QED
    BY <2>3 DEF Dedupes, N
<1>7. Dedupes(h, s)
  BY <1>6, Zenon DEF h
<1>8. h = [n \in 0 .. N |-> IF n = 0 THEN <<>> ELSE Keep(h[n - 1], s[n])]
  BY <1>7 DEF Dedupes, N
<1>9. h[0] = <<>>
  BY <1>0, <1>8
<1>10. ASSUME NEW n \in 1 .. N PROVE DedupeStep(h, s, n)
  <2>1. n \in 0 .. N /\ n # 0
    BY <1>0
  <2> QED
    BY <1>8, <2>1 DEF DedupeStep
<1> QED
  BY <1>1, <1>9, <1>10 DEF N

\* A span that comes after those that are kept meets at most one rival.
LEMMA KeepIs ==
    ASSUME NEW X \in SUBSET Spans, NEW s \in Seq(X), NEW x \in X, NoRivals(s),
           \A y \in ToSet(s) : y.start <= x.start
    PROVE  /\ Keep(s, x) \in Seq(X) /\ ToSet(Keep(s, x)) \subseteq ToSet(s) \cup {x}
           /\ NoRivals(Keep(s, x))
           /\ \A y \in ToSet(s) : y \in ToSet(Keep(s, x)) \/ (Rivals(y, x) /\ Higher(x, y))
           /\ x \in ToSet(Keep(s, x)) \/ \E y \in ToSet(s) : Rivals(y, x) /\ ~Higher(x, y)
<1> DEFINE rivals == {i \in DOMAIN s : Rivals(s[i], x)}
           t == Keep(s, x)
<1>0. Len(s) \in Nat /\ DOMAIN s = 1 .. Len(s) /\ \A i \in 1 .. Len(s) : s[i] \in X
  OBVIOUS
<1>1. t = IF rivals = {} THEN Append(s, x)
          ELSE IF Higher(x, s[Min(rivals)]) THEN [s EXCEPT ![Min(rivals)] = x] ELSE s
  BY DEF Keep
<1> HIDE DEF t
<1>2. CASE rivals = {}
  <2>1. t = Append(s, x)
    BY <1>1, <1>2
  <2>2. /\ t \in Seq(X) /\ Len(t) = Len(s) + 1 /\ DOMAIN t = 1 .. Len(s) + 1
        /\ t[Len(s) + 1] = x /\ \A i \in 1 .. Len(s) : t[i] = s[i]
    BY <1>0, <2>1, AppendProperties
  <2>3. \A i \in 1 .. Len(s) : ~Rivals(s[i], x) /\ ~Rivals(x, s[i])
    BY <1>0, <1>2, RivalsBoth
  <2>4. ToSet(t) \subseteq ToSet(s) \cup {x}
    BY <1>0, <2>2 DEF ToSet
  <2>5. ToSet(s) \subseteq ToSet(t) /\ x \in ToSet(t)
    BY <1>0, <2>2 DEF ToSet
  <2>6. ASSUME NEW i \in DOMAIN t, NEW j \in DOMAIN t, i # j PROVE ~Rivals(t[i], t[j])
    <3>1. CASE i = Len(s) + 1
      <4>1. j \in 1 .. Len(s) /\ t[i] = x /\ t[j] = s[j]
        BY <1>0, <2>2, <2>6, <3>1
      <4> QED
        BY <2>3, <4>1
    <3>2. CASE j = Len(s) + 1
      <4>1. i \in 1 .. Len(s) /\ t[j] = x /\ t[i] = s[i]
        BY <1>0, <2>2, <2>6, <3>2
      <4> QED
        BY <2>3, <4>1
    <3>3. CASE i # Len(s) + 1 /\ j # Len(s) + 1
      <4>1. i \in DOMAIN s /\ j \in DOMAIN s /\ t[i] = s[i] /\ t[j] = s[j]
        BY <1>0, <2>2, <3>3
      <4> QED
        BY <2>6, <4>1 DEF NoRivals
    <3> QED
      BY <3>1, <3>2, <3>3
  <2>7. NoRivals(t)
    BY <2>6 DEF NoRivals
  <2> QED
    BY <2>2, <2>4, <2>5, <2>7 DEF t
<1>3. CASE rivals # {}
  <2>1. rivals \in SUBSET Nat
    BY <1>0
  <2> DEFINE m == Min(rivals)
  <2>2. m \in rivals
    BY <1>3, <2>1, MinOf
  <2> HIDE DEF m
  <2>3. m \in 1 .. Len(s) /\ Rivals(s[m], x) /\ s[m] \in ToSet(s) /\ s[m] \in Spans
    BY <1>0, <2>2 DEF ToSet
  <2>4. ASSUME NEW i \in 1 .. Len(s), i # m PROVE ~Rivals(s[i], x) /\ ~Rivals(x, s[i])
    <3>1. s[i] \in ToSet(s) /\ s[i] \in Spans /\ x \in Spans
      BY <1>0 DEF ToSet
    <3>2. ~Rivals(s[i], s[m])
      BY <1>0, <2>3, <2>4 DEF NoRivals
    <3>3. s[i].start <= x.start /\ s[m].start <= x.start
      BY <2>3, <3>1
    <3>4. Rivals(s[i], x) => Rivals(s[i], s[m])
      BY <2>3, <3>1, <3>3, RivalsMeet
    <3> QED
      BY <3>2, <3>4, RivalsBoth
  <2>5. CASE Higher(x, s[m])
    <3>1. t = [s EXCEPT ![m] = x]
      BY <1>1, <1>3, <2>5 DEF m
    <3>2. /\ t \in Seq(X) /\ DOMAIN t = 1 .. Len(s) /\ t[m] = x
          /\ \A i \in 1 .. Len(s) : i # m => t[i] = s[i]
      BY <1>0, <2>3, <3>1
    <3>3. ToSet(t) \subseteq ToSet(s) \cup {x} /\ x \in ToSet(t)
      BY <1>0, <2>3, <3>2 DEF ToSet
    <3>4. ASSUME NEW y \in ToSet(s) PROVE y \in ToSet(t) \/ (Rivals(y, x) /\ Higher(x, y))
      <4>1. PICK i \in 1 .. Len(s) : y = s[i]
        BY ToSetOf
      <4>2. CASE i = m
        BY <2>3, <2>5, <4>1, <4>2
      <4>3. CASE i # m
        BY <3>2, <4>1, <4>3 DEF ToSet
      <4> QED
        BY <4>2, <4>3
    <3>5. ASSUME NEW i \in DOMAIN t, NEW j \in DOMAIN t, i # j PROVE ~Rivals(t[i], t[j])
      <4>0. i \in 1 .. Len(s) /\ j \in 1 .. Len(s)
        BY <3>2
      <4>1. CASE i = m
        <5>1. j # m /\ t[i] = x /\ t[j] = s[j]
          BY <3>2, <3>5, <4>0, <4>1
        <5> QED
          BY <2>4, <4>0, <5>1
      <4>2. CASE j = m
        <5>1. i # m /\ t[j] = x /\ t[i] = s[i]
          BY <3>2, <3>5, <4>0, <4>2
        <5> QED
          BY <2>4, <4>0, <5>1
      <4>3. CASE i # m /\ j # m
        <5>1. i \in DOMAIN s /\ j \in DOMAIN s /\ t[i] = s[i] /\ t[j] = s[j]
          BY <1>0, <3>2, <4>0, <4>3
        <5> QED
          BY <3>5, <5>1 DEF NoRivals
      <4> QED
        BY <4>1, <4>2, <4>3
    <3>6. NoRivals(t)
      BY <3>5 DEF NoRivals
    <3> QED
      BY <3>2, <3>3, <3>4, <3>6 DEF t
  <2>6. CASE ~Higher(x, s[m])
    <3>1. t = s
      BY <1>1, <1>3, <2>6 DEF m
    <3> QED
      BY <2>3, <2>6, <3>1 DEF t
  <2> QED
    BY <2>5, <2>6
<1> QED
  BY <1>2, <1>3

\* Of spans in order, those kept do not compete, and one without a better rival is kept.
LEMMA DedupedIs ==
    ASSUME NEW X \in SUBSET Spans, NEW s \in Seq(X), ByStart(s)
    PROVE  /\ Deduped(s) \in Seq(X) /\ ToSet(Deduped(s)) \subseteq ToSet(s) /\ NoRivals(Deduped(s))
           /\ \A y \in ToSet(s) : Best(y, ToSet(s)) => y \in ToSet(Deduped(s))
<1>0. Len(s) \in Nat /\ DOMAIN s = 1 .. Len(s) /\ \A i \in 1 .. Len(s) : s[i] \in X
  OBVIOUS
<1>1. PICK f : /\ Deduped(s) = f[Len(s)] /\ f[0] = <<>>
               /\ \A n \in 1 .. Len(s) : DedupeStep(f, s, n)
  BY DedupedBy
<1> DEFINE Good(n) == /\ f[n] \in Seq(X) /\ ToSet(f[n]) \subseteq FirstOf(s, n) /\ NoRivals(f[n])
                      /\ \A y \in FirstOf(s, n) : Best(y, ToSet(s)) => y \in ToSet(f[n])
           T == {n \in 0 .. Len(s) : Good(n)}
<1>2. 0 \in T
  <2>1. DOMAIN f[0] = {} /\ f[0] \in Seq(X)
    BY <1>1
  <2>2. ToSet(f[0]) = {} /\ FirstOf(s, 0) = {}
    BY <2>1 DEF ToSet, FirstOf
  <2> QED
    BY <1>0, <2>1, <2>2 DEF NoRivals
<1>3. ASSUME NEW n \in 1 .. Len(s), n - 1 \in T PROVE n \in T
  <2>0. Good(n - 1) /\ n \in 0 .. Len(s)
    BY <1>0, <1>3
  <2>1. PICK old : old = f[n - 1]
    OBVIOUS
  <2>2. PICK x \in X : x = s[n]
    BY <1>0
  <2>3. f[n] = Keep(old, x)
    BY <1>1, <2>1, <2>2 DEF DedupeStep
  <2>4. /\ old \in Seq(X) /\ ToSet(old) \subseteq FirstOf(s, n - 1) /\ NoRivals(old)
        /\ \A y \in FirstOf(s, n - 1) : Best(y, ToSet(s)) => y \in ToSet(old)
    BY <2>0, <2>1
  <2>5. FirstOf(s, n) = FirstOf(s, n - 1) \cup {x}
    <3>1. 1 .. n = (1 .. n - 1) \cup {n}
      BY <1>0
    <3> QED
      BY <2>2, <3>1 DEF FirstOf
  <2>6. FirstOf(s, n) \subseteq ToSet(s)
    BY <1>0, ToSetOf DEF FirstOf
  <2>7. \A y \in ToSet(old) : y.start <= x.start
    <3> SUFFICES ASSUME NEW i \in 1 .. n - 1 PROVE s[i].start <= s[n].start
      BY <2>2, <2>4 DEF FirstOf
    <3>1. i \in DOMAIN s /\ n \in DOMAIN s /\ i < n
      BY <1>0
    <3> QED
      BY <3>1 DEF ByStart
  <2>8. /\ f[n] \in Seq(X) /\ ToSet(f[n]) \subseteq ToSet(old) \cup {x} /\ NoRivals(f[n])
        /\ \A y \in ToSet(old) : y \in ToSet(f[n]) \/ (Rivals(y, x) /\ Higher(x, y))
        /\ x \in ToSet(f[n]) \/ \E y \in ToSet(old) : Rivals(y, x) /\ ~Higher(x, y)
    BY <2>3, <2>4, <2>7, KeepIs
  <2>9. ASSUME NEW y \in FirstOf(s, n), Best(y, ToSet(s)) PROVE y \in ToSet(f[n])
    <3>0. x \in ToSet(s) /\ x \in Span /\ y \in ToSet(s)
      BY <2>5, <2>6 DEF Spans
    <3>1. ASSUME y \in ToSet(old) PROVE y \in ToSet(f[n])
      <4>1. y \in Span
        BY <2>4, <3>1, ToSetOf DEF Spans
      <4>2. SUFFICES ASSUME Rivals(y, x), Higher(x, y) PROVE FALSE
        BY <2>8, <3>1
      <4>3. x # y
        BY <4>1, <4>2, HigherOnce
      <4>4. Higher(y, x)
        BY <2>9, <3>0, <4>2, <4>3 DEF Best
      <4> QED
        BY <3>0, <4>1, <4>2, <4>4, HigherOnce
    <3>2. CASE y \in FirstOf(s, n - 1)
      BY <2>4, <2>9, <3>1, <3>2
    <3>3. CASE y = x /\ x \notin ToSet(f[n])
      <4>1. PICK r \in ToSet(old) : Rivals(r, x) /\ ~Higher(x, r)
        BY <2>8, <3>3
      <4>2. CASE r = x
        BY <3>1, <3>3, <4>1, <4>2
      <4>3. CASE r # x
        <5>1. r \in ToSet(s) \ {y} /\ Rivals(y, r)
          BY <2>4, <2>5, <2>6, <3>3, <4>1, <4>3, RivalsBoth
        <5>2. Higher(y, r)
          BY <2>9, <5>1 DEF Best
        <5> QED
          BY <3>3, <4>1, <5>2
      <4> QED
        BY <4>2, <4>3
    <3> QED
      BY <2>5, <3>2, <3>3
  <2>10. Good(n)
    BY <2>4, <2>5, <2>8, <2>9
  <2> HIDE DEF Good
  <2> QED
    BY <2>0, <2>10
<1> HIDE DEF T
<1>4. \A n \in 0 .. Len(s) : n \in T
  BY <1>0, <1>2, <1>3, UpTo
<1>5. Good(Len(s))
  BY <1>0, <1>4 DEF T
<1>6. FirstOf(s, Len(s)) = ToSet(s)
  BY ToSetOf DEF FirstOf
<1> QED
  BY <1>1, <1>5, <1>6

\* What is returned of all windows.
KeptWhole(kept, all) ==
    /\ ToSet(kept) \subseteq ToSet(all)
    /\ \A i, j \in DOMAIN kept : i < j => kept[i].start <= kept[j].start /\ ~Rivals(kept[i], kept[j])
    /\ \A s \in ToSet(all) : Best(s, ToSet(all)) => s \in ToSet(kept)

LEMMA DedupeIs ==
    ASSUME NEW s \in Seq(Spans)
    PROVE  KeptWhole(dedupe_spans(s), s)
<1> DEFINE a == SortByStart(s, TRUE)
           b == Deduped(a)
           c == SortByStart(b, FALSE)
<1>1. a \in Seq(Spans) /\ ToSet(a) = ToSet(s) /\ ByStart(a)
  BY SortIs
<1> HIDE DEF a
<1>2. /\ b \in Seq(Spans) /\ ToSet(b) \subseteq ToSet(a) /\ NoRivals(b)
      /\ \A y \in ToSet(a) : Best(y, ToSet(a)) => y \in ToSet(b)
  BY <1>1, DedupedIs
<1> HIDE DEF b
<1>3. c \in Seq(Spans) /\ ToSet(c) = ToSet(b) /\ ByStart(c) /\ NoRivals(c)
  BY <1>2, SortIs
<1>4. dedupe_spans(s) = c
  BY DEF dedupe_spans, a, b
<1> HIDE DEF c
<1>5. \A i, j \in DOMAIN c : i < j => c[i].start <= c[j].start /\ ~Rivals(c[i], c[j])
  <2> SUFFICES ASSUME NEW i \in DOMAIN c, NEW j \in DOMAIN c, i < j
               PROVE  c[i].start <= c[j].start /\ ~Rivals(c[i], c[j])
    OBVIOUS
  <2>1. i # j
    BY <1>3
  <2> QED
    BY <1>3, <2>1 DEF ByStart, NoRivals
<1> QED
  BY <1>1, <1>2, <1>3, <1>4, <1>5 DEF KeptWhole

-----------------------------------------------------------------------------
(* The spans of a window *)

LEMMA SeqOfOpen ==
    ASSUME NEW X, NEW S \in SUBSET X, \A a, b \in S : a = b
    PROVE  SetToSeq(S) \in Seq(X) /\ ToSet(SetToSeq(S)) = S
<1> DEFINE f == SetToSeq(S)
           fits(g) == g \in [1 .. Cardinality(S) -> S] /\ IsInjective(g)
<1>1. f = CHOOSE g : fits(g)
  BY Zenon DEF SetToSeq
<1>2. CASE S = {}
  <2>1. Cardinality(S) = 0
    BY <1>2, FS_EmptySet
  <2>2. fits(<<>>)
    BY <1>2, <2>1 DEF IsInjective
  <2> HIDE DEF f, fits
  <2>3. fits(f)
    BY <1>1, <2>2, Zenon
  <2>4. f \in [1 .. 0 -> S]
    BY <2>1, <2>3 DEF fits
  <2>5. f \in Seq(X) /\ DOMAIN f = {}
    BY <1>2, <2>4
  <2> QED
    BY <1>2, <2>5 DEF ToSet, f
<1>3. CASE S # {}
  <2>1. PICK x \in X : S = {x}
    BY <1>3
  <2>2. Cardinality(S) = 1
    BY <2>1, FS_Singleton
  <2>3. fits(<<x>>)
    <3>1. <<x>> \in [1 .. 1 -> S]
      BY <2>1
    <3> QED
      BY <2>2, <3>1 DEF IsInjective
  <2> HIDE DEF f, fits
  <2>4. fits(f)
    BY <1>1, <2>3, Zenon
  <2>5. f \in [1 .. 1 -> {x}]
    BY <2>1, <2>2, <2>4 DEF fits
  <2>6. f \in Seq(X) /\ DOMAIN f = {1} /\ f[1] = x
    <3>1. f \in [1 .. 1 -> X]
      BY <2>5
    <3>2. f \in Seq(X)
      BY <3>1, SeqDef
    <3> QED
      BY <2>5, <3>2
  <2> QED
    BY <2>1, <2>6 DEF ToSet, f
<1> QED
  BY <1>2, <1>3

Covers(s, i) == i \in s.start .. s.end - 1
Joined(i) == is_continuation(words[i], words[i + 1])

\* What the first j tokens of a window are decoded into: every tagged one is in a
\* span, the open span ends with the last, and no span that is closed cuts a word.
DecodePart(state, preds, j) ==
    /\ state \in [open : SUBSET Spans, out : Seq(Spans)]
    /\ \A a, b \in state.open : a = b
    /\ j = 0 => state.open = {}
    /\ \A o \in state.open : o.end = windowAt + j + 1 /\ o.word = words[windowAt + j]
    /\ \A s \in ToSet(state.out) : s.end <= windowAt + j
    /\ \A k \in 1 .. j : preds[k].tag # "O" =>
          \E s \in ToSet(state.out) \cup state.open : Covers(s, windowAt + k)
    /\ \A k \in 1 .. j - 1 : Joined(windowAt + k) =>
          \A s \in ToSet(state.out) : s.end # windowAt + k + 1

\* What the spans are when the open one is closed.
LEMMA ClosedIs ==
    ASSUME NEW state, NEW preds, NEW j \in Nat, DecodePart(state, preds, j)
    PROVE  /\ state.out \o SetToSeq(state.open) \in Seq(Spans)
           /\ ToSet(state.out \o SetToSeq(state.open)) = ToSet(state.out) \cup state.open
<1> DEFINE a == state.out
           b == SetToSeq(state.open)
<1>1. a \in Seq(Spans) /\ state.open \in SUBSET Spans /\ \A x, y \in state.open : x = y
  BY DEF DecodePart
<1>2. b \in Seq(Spans) /\ ToSet(b) = state.open
  BY <1>1, SeqOfOpen
<1> HIDE DEF a, b
<1>3. a \o b \in Seq(Spans) /\ Range(a \o b) = Range(a) \cup Range(b)
  BY <1>1, <1>2, ConcatProperties, RangeConcatenation
<1>4. ToSet(a \o b) = Range(a \o b) /\ ToSet(a) = Range(a) /\ ToSet(b) = Range(b)
  BY DEF ToSet, Range
<1> QED
  BY <1>2, <1>3, <1>4 DEF a, b

LEMMA DecodeTokenIs ==
    ASSUME words \in Seq(Nat), windowAt \in Nat, NEW preds \in Seq(Predictions), NEW j \in 1 .. Len(preds),
           windowAt + j <= Len(words), NEW state, DecodePart(state, preds, j - 1)
    PROVE  DecodePart(DecodeToken(state, windowAt + j, preds[j]), preds, j)
<1> DEFINE i == windowAt + j
           closed == state.out \o SetToSeq(state.open)
           next == DecodeToken(state, i, preds[j])
<1>0. /\ j \in Nat /\ j # 0 /\ j - 1 \in Nat /\ Len(preds) \in Nat /\ i \in Nat /\ i \in 1 .. Len(words)
      /\ words[i] \in Nat /\ windowAt + (j - 1) = i - 1 /\ windowAt + (j - 1) + 1 = i
  OBVIOUS
<1>p. PICK p \in Predictions : p = preds[j]
  OBVIOUS
<1>t. p.tag \in {"B", "I", "O"} /\ p.kind \in STRING /\ p.score \in Nat
  BY NerWindowsAssumption
<1>1. /\ state.open \in SUBSET Spans /\ state.out \in Seq(Spans)
      /\ state = [open |-> state.open, out |-> state.out]
      /\ \A a, b \in state.open : a = b
      /\ j - 1 = 0 => state.open = {}
      /\ \A o \in state.open : o.end = i /\ o.word = words[i - 1]
      /\ \A s \in ToSet(state.out) : s.end <= i - 1
  BY <1>0 DEF DecodePart
<1>2. /\ \A k \in 1 .. j - 1 : preds[k].tag # "O" =>
            \E s \in ToSet(state.out) \cup state.open : Covers(s, windowAt + k)
      /\ \A k \in 1 .. j - 1 - 1 : Joined(windowAt + k) => \A s \in ToSet(state.out) : s.end # windowAt + k + 1
  BY DEF DecodePart
<1>3. closed \in Seq(Spans) /\ ToSet(closed) = ToSet(state.out) \cup state.open
  BY <1>0, ClosedIs
<1> HIDE DEF i
<1> DEFINE continued == {o \in state.open : is_continuation(o.word, words[i]) \/ (p.tag = "I" /\ o.kind = p.kind)}
           grown(o) == [o EXCEPT !.end = i + 1, !.word = words[i],
                                 !.sum = @ + (IF p.tag = "O" THEN 0 ELSE p.score),
                                 !.count = @ + (IF p.tag = "O" THEN 0 ELSE 1)]
           opened == [start |-> i, end |-> i + 1, kind |-> p.kind, sum |-> p.score, count |-> 1, word |-> words[i]]
<1>4. /\ continued # {} => next = [open |-> {grown(o) : o \in continued}, out |-> state.out]
      /\ continued = {} /\ p.tag = "O" => next = [open |-> {}, out |-> closed]
      /\ continued = {} /\ p.tag # "O" => next = [open |-> {opened}, out |-> closed]
  BY <1>1, <1>p DEF DecodeToken
<1> HIDE DEF closed, next, continued, grown, opened
<1>5. \A s \in ToSet(state.out) : s.end \in Nat /\ s \in Spans
  BY <1>1, ToSetOf DEF Spans, Span
<1>6. ASSUME continued = {} PROVE \A k \in 1 .. j - 1 : Joined(windowAt + k) =>
          \A s \in ToSet(closed) : s.end # windowAt + k + 1
  <2> SUFFICES ASSUME NEW k \in 1 .. j - 1, Joined(windowAt + k), NEW s \in ToSet(closed)
               PROVE  s.end # windowAt + k + 1
    OBVIOUS
  <2>0. k \in Nat /\ windowAt + k + 1 <= i /\ (k < j - 1 => windowAt + k + 1 < i) /\ (k = j - 1 => windowAt + k + 1 = i)
    BY <1>0 DEF i
  <2>1. CASE s \in ToSet(state.out)
    <3>1. CASE k < j - 1
      <4>1. k \in 1 .. j - 1 - 1
        BY <1>0, <3>1
      <4> QED
        BY <1>2, <2>1, <4>1
    <3>2. CASE k = j - 1
      BY <1>0, <1>1, <1>5, <2>0, <2>1, <3>2
    <3> QED
      BY <1>0, <3>1, <3>2
  <2>2. CASE s \in state.open
    <3>1. s.end = i /\ s.word = words[i - 1] /\ ~is_continuation(s.word, words[i])
      BY <1>1, <1>6, <2>2 DEF continued
    <3>2. CASE k < j - 1
      BY <1>0, <2>0, <3>1, <3>2
    <3>3. CASE k = j - 1
      <4>1. windowAt + k = i - 1 /\ windowAt + k + 1 = i
        BY <1>0, <3>3
      <4>2. is_continuation(words[i - 1], words[i])
        BY <4>1 DEF Joined
      <4> QED
        BY <3>1, <4>2
    <3> QED
      BY <1>0, <3>2, <3>3
  <2> QED
    BY <1>3, <2>1, <2>2
<1>7. \A s \in ToSet(closed) : s.end <= i
  <2> SUFFICES ASSUME NEW s \in ToSet(closed) PROVE s.end <= i
    OBVIOUS
  <2>1. CASE s \in ToSet(state.out)
    BY <1>0, <1>1, <1>5, <2>1, SMTT(40)
  <2>2. CASE s \in state.open
    BY <1>0, <1>1, <2>2, SMTT(40)
  <2> QED
    BY <1>3, <2>1, <2>2
<1>8. CASE continued # {}
  <2>0. PICK o \in continued : TRUE
    BY <1>8
  <2>1. o \in state.open /\ continued = {o} /\ state.open = {o}
    BY <1>1, <2>0 DEF continued
  <2>2. /\ o \in Spans /\ o.start \in Nat /\ o.end = i /\ o.start < i /\ o.kind \in STRING
        /\ o.sum \in Nat /\ o.count \in Nat /\ o.word \in Nat
    BY <1>1, <2>1 DEF Spans, Span
  <2>3. PICK q : q = grown(o)
    OBVIOUS
  <2>4. q \in Spans /\ q.start = o.start /\ q.end = i + 1 /\ q.word = words[i]
    <3>1. o = [start |-> o.start, end |-> o.end, kind |-> o.kind, sum |-> o.sum, count |-> o.count, word |-> o.word]
      BY <2>2 DEF Spans, Span
    <3>2. PICK more \in Nat : more = IF p.tag = "O" THEN 0 ELSE p.score
      BY <1>t
    <3>3. PICK one \in Nat : one = IF p.tag = "O" THEN 0 ELSE 1
      OBVIOUS
    <3>4. q = [start |-> o.start, end |-> i + 1, kind |-> o.kind, sum |-> o.sum + more, count |-> o.count + one,
               word |-> words[i]]
      <4>1. q = [o EXCEPT !.end = i + 1, !.word = words[i], !.sum = @ + more, !.count = @ + one]
        BY <2>3, <3>2, <3>3 DEF grown
      <4>2. PICK start \in Nat, end \in Nat, of \in STRING, sum \in Nat, count \in Nat, word \in Nat :
               o = [start |-> start, end |-> end, kind |-> of, sum |-> sum, count |-> count, word |-> word]
        <5>1. o \in Span
          BY <2>2 DEF Spans
        <5> QED
          BY <5>1, Zenon DEF Span
      <4>3. q = [start |-> start, end |-> i + 1, kind |-> of, sum |-> sum + more, count |-> count + one,
                 word |-> words[i]]
        BY <4>1, <4>2
      <4>4. start = o.start /\ of = o.kind /\ sum = o.sum /\ count = o.count
        BY <4>2
      <4> QED
        BY <4>3, <4>4, Zenon
    <3>5. o.sum + more \in Nat /\ o.count + one \in Nat /\ i + 1 \in Nat /\ o.start < i + 1
      <4>1. PICK start \in Nat, sum \in Nat, count \in Nat : start = o.start /\ sum = o.sum /\ count = o.count
        BY <2>2
      <4>2. start < i /\ i \in Nat
        BY <1>0, <2>2, <4>1
      <4>3. sum + more \in Nat /\ count + one \in Nat /\ i + 1 \in Nat /\ start < i + 1
        BY <4>2
      <4> QED
        BY <4>1, <4>3
    <3>6. q \in Span
      BY <1>0, <2>2, <3>4, <3>5 DEF Span
    <3>7. q.start = o.start /\ q.end = i + 1 /\ q.word = words[i]
      BY <3>4
    <3> QED
      BY <3>5, <3>6, <3>7 DEF Spans
  <2>5. next = [open |-> {q}, out |-> state.out]
    BY <1>4, <1>8, <2>1, <2>3
  <2>6. next.open = {q} /\ next.out = state.out /\ next \in [open : SUBSET Spans, out : Seq(Spans)]
    BY <1>1, <2>4, <2>5
  <2>7. \A k \in 1 .. j : preds[k].tag # "O" => \E s \in ToSet(state.out) \cup {q} : Covers(s, windowAt + k)
    <3> SUFFICES ASSUME NEW k \in 1 .. j, preds[k].tag # "O"
                 PROVE  \E s \in ToSet(state.out) \cup {q} : Covers(s, windowAt + k)
      OBVIOUS
    <3>1. CASE k = j
      <4>1. Covers(q, i)
        <5>1. q.start \in Nat /\ q.start <= i /\ q.end - 1 = i
          BY <1>0, <2>2, <2>4
        <5> QED
          BY <1>0, <5>1 DEF Covers
      <4> QED
        BY <3>1, <4>1 DEF i
    <3>2. CASE k # j
      <4>1. k \in 1 .. j - 1
        BY <1>0, <3>2
      <4>2. PICK s \in ToSet(state.out) \cup state.open : Covers(s, windowAt + k)
        BY <1>2, <4>1
      <4>3. CASE s = o
        <5>1. Covers(q, windowAt + k)
          BY <1>0, <2>2, <2>4, <4>2, <4>3 DEF Covers
        <5> QED
          BY <5>1
      <4>4. CASE s # o
        BY <2>1, <4>2, <4>4
      <4> QED
        BY <4>3, <4>4
    <3> QED
      BY <3>1, <3>2
  <2>8. \A k \in 1 .. j - 1 : Joined(windowAt + k) => \A s \in ToSet(state.out) : s.end # windowAt + k + 1
    <3> SUFFICES ASSUME NEW k \in 1 .. j - 1, Joined(windowAt + k), NEW s \in ToSet(state.out)
                 PROVE  s.end # windowAt + k + 1
      OBVIOUS
    <3>1. CASE k < j - 1
      <4>1. k \in 1 .. j - 1 - 1
        BY <1>0, <3>1
      <4> QED
        BY <1>2, <4>1
    <3>2. CASE k = j - 1
      <4>1. windowAt + k + 1 = i
        BY <1>0, <3>2
      <4> QED
        BY <1>0, <1>1, <1>5, <4>1
    <3> QED
      BY <1>0, <3>1, <3>2
  <2>9. \A s \in ToSet(state.out) : s.end <= i
    BY <1>0, <1>1, <1>5, SMTT(40)
  <2>10. DecodePart(next, preds, j)
    BY <1>0, <2>4, <2>6, <2>7, <2>8, <2>9 DEF DecodePart, i
  <2> QED
    BY <1>p, <2>10 DEF next, i
<1>9. CASE continued = {} /\ p.tag = "O"
  <2>1. next = [open |-> {}, out |-> closed]
    BY <1>4, <1>9
  <2>2. next.open = {} /\ next.out = closed /\ next \in [open : SUBSET Spans, out : Seq(Spans)]
    BY <1>3, <2>1
  <2>3. \A k \in 1 .. j : preds[k].tag # "O" => \E s \in ToSet(closed) : Covers(s, windowAt + k)
    <3> SUFFICES ASSUME NEW k \in 1 .. j, preds[k].tag # "O" PROVE \E s \in ToSet(closed) : Covers(s, windowAt + k)
      OBVIOUS
    <3>1. k \in 1 .. j - 1
      BY <1>0, <1>9, <1>p
    <3> QED
      BY <1>2, <1>3, <3>1
  <2>4. DecodePart(next, preds, j)
    BY <1>0, <1>6, <1>7, <1>9, <2>2, <2>3 DEF DecodePart, i
  <2> QED
    BY <1>p, <2>4 DEF next, i
<1>10. CASE continued = {} /\ p.tag # "O"
  <2>1. PICK q : q = opened
    OBVIOUS
  <2>2. q \in Spans /\ q.start = i /\ q.end = i + 1 /\ q.word = words[i]
    BY <1>0, <1>t, <2>1 DEF Spans, Span, opened
  <2>3. next = [open |-> {q}, out |-> closed]
    BY <1>4, <1>10, <2>1
  <2>4. next.open = {q} /\ next.out = closed /\ next \in [open : SUBSET Spans, out : Seq(Spans)]
    BY <1>3, <2>2, <2>3
  <2>5. \A k \in 1 .. j : preds[k].tag # "O" => \E s \in ToSet(closed) \cup {q} : Covers(s, windowAt + k)
    <3> SUFFICES ASSUME NEW k \in 1 .. j, preds[k].tag # "O"
                 PROVE  \E s \in ToSet(closed) \cup {q} : Covers(s, windowAt + k)
      OBVIOUS
    <3>1. CASE k = j
      <4>1. Covers(q, i)
        BY <1>0, <2>2 DEF Covers
      <4> QED
        BY <3>1, <4>1 DEF i
    <3>2. CASE k # j
      <4>1. k \in 1 .. j - 1
        BY <1>0, <3>2
      <4> QED
        BY <1>2, <1>3, <4>1
    <3> QED
      BY <3>1, <3>2
  <2>6. DecodePart(next, preds, j)
    BY <1>0, <1>6, <1>7, <1>10, <2>2, <2>4, <2>5 DEF DecodePart, i
  <2> QED
    BY <1>p, <2>6 DEF next, i
<1> QED
  BY <1>8, <1>9, <1>10

\* f is the recursion of Decoded.
Decodes(f, preds) ==
    f = [n \in 0 .. Len(preds) |->
            IF n = 0 THEN [open |-> {}, out |-> <<>>] ELSE DecodeToken(f[n - 1], windowAt + n, preds[n])]
DecodeStep(f, preds, n) == f[n] = DecodeToken(f[n - 1], windowAt + n, preds[n])

LEMMA DecodedBy ==
    ASSUME NEW X, NEW preds \in Seq(X)
    PROVE  \E f : /\ Decoded(preds) = f[Len(preds)] /\ f[0] = [open |-> {}, out |-> <<>>]
                  /\ \A n \in 1 .. Len(preds) : DecodeStep(f, preds, n)
<1> DEFINE N == Len(preds)
           Up(f, m) == /\ f = [n \in 0 .. m |-> f[n]] /\ f[0] = [open |-> {}, out |-> <<>>]
                       /\ \A n \in 1 .. m : DecodeStep(f, preds, n)
           T == {m \in 0 .. N : \E f : Up(f, m)}
           h == CHOOSE f : Decodes(f, preds)
<1>0. N \in Nat
  OBVIOUS
<1>1. Decoded(preds) = h[N]
  BY DEF Decoded, Decodes
<1> HIDE DEF N, h
<1>2. 0 \in T
  <2> DEFINE f == [n \in 0 .. 0 |-> [open |-> {}, out |-> <<>>]]
  <2>1. Up(f, 0)
    OBVIOUS
  <2> HIDE DEF f, Up
  <2> QED
    BY <1>0, <2>1
<1>3. ASSUME NEW m \in 1 .. N, m - 1 \in T PROVE m \in T
  <2>1. PICK f : Up(f, m - 1)
    BY <1>3
  <2> DEFINE grown == DecodeToken(f[m - 1], windowAt + m, preds[m])
             g == [n \in 0 .. m |-> IF n = m THEN grown ELSE f[n]]
  <2> HIDE DEF grown
  <2>2. /\ g = [n \in 0 .. m |-> g[n]] /\ g[m] = grown /\ m \in Nat /\ m # 0
        /\ \A n \in 0 .. m - 1 : g[n] = f[n]
    OBVIOUS
  <2> HIDE DEF g
  <2>3. g[0] = [open |-> {}, out |-> <<>>]
    <3>1. 0 \in 0 .. m - 1
      BY <1>0
    <3>2. g[0] = f[0] /\ f[0] = [open |-> {}, out |-> <<>>]
      BY <2>1, <2>2, <3>1
    <3> QED
      BY <3>2
  <2>4. ASSUME NEW n \in 1 .. m PROVE DecodeStep(g, preds, n)
    <3>1. CASE n = m
      <4>1. m - 1 \in 0 .. m - 1
        BY <1>0
      <4>2. g[m - 1] = f[m - 1]
        BY <2>2, <4>1
      <4> QED
        BY <2>2, <3>1, <4>2 DEF DecodeStep, grown
    <3>2. CASE n # m
      <4>1. n \in 1 .. m - 1 /\ n \in 0 .. m - 1 /\ n - 1 \in 0 .. m - 1
        BY <1>0, <3>2
      <4>2. g[n] = f[n] /\ g[n - 1] = f[n - 1] /\ DecodeStep(f, preds, n)
        BY <2>1, <2>2, <4>1
      <4> QED
        BY <4>2 DEF DecodeStep
    <3> QED
      BY <3>1, <3>2
  <2>5. Up(g, m)
    BY <2>2, <2>3, <2>4
  <2> HIDE DEF Up
  <2> QED
    BY <1>0, <2>5
<1>4. \E f : Up(f, N)
  <2> HIDE DEF T
  <2>1. \A i \in 0 .. N : i \in T
    BY <1>0, <1>2, <1>3, UpTo
  <2>2. N \in T
    BY <1>0, <2>1
  <2> QED
    BY <2>2 DEF T
<1>5. PICK f : Up(f, N)
  BY <1>4
<1>6. Decodes(f, preds)
  <2>1. ASSUME NEW n \in 0 .. N, n # 0 PROVE f[n] = DecodeToken(f[n - 1], windowAt + n, preds[n])
    <3>1. n \in 1 .. N
      BY <1>0, <2>1
    <3> QED
      BY <1>5, <3>1 DEF DecodeStep
  <2>2. f = [n \in 0 .. N |-> f[n]] /\ f[0] = [open |-> {}, out |-> <<>>]
    BY <1>5
  <2>3. f = [n \in 0 .. N |-> IF n = 0 THEN [open |-> {}, out |-> <<>>] ELSE DecodeToken(f[n - 1], windowAt + n, preds[n])]
    BY <2>1, <2>2
  <2> QED
    BY <2>3 DEF Decodes, N
<1>7. Decodes(h, preds)
  BY <1>6, Zenon DEF h
<1>8. h = [n \in 0 .. N |-> IF n = 0 THEN [open |-> {}, out |-> <<>>] ELSE DecodeToken(h[n - 1], windowAt + n, preds[n])]
  BY <1>7 DEF Decodes, N
<1>9. h[0] = [open |-> {}, out |-> <<>>]
  BY <1>0, <1>8
<1>10. ASSUME NEW n \in 1 .. N PROVE DecodeStep(h, preds, n)
  <2>1. n \in 0 .. N /\ n # 0
    BY <1>0
  <2> QED
    BY <1>8, <2>1 DEF DecodeStep
<1> QED
  BY <1>1, <1>9, <1>10 DEF N

\* The spans of a window: every tagged token is in one, and none ends within a word.
LEMMA DecodeIs ==
    ASSUME words \in Seq(Nat), windowAt \in Nat, NEW preds \in Seq(Predictions),
           windowAt + Len(preds) <= Len(words)
    PROVE  /\ decode_bio(preds) \in Seq(Spans)
           /\ \A k \in 1 .. Len(preds) : preds[k].tag # "O" =>
                 \E s \in ToSet(decode_bio(preds)) : Covers(s, windowAt + k)
           /\ \A k \in 1 .. Len(preds) - 1 : Joined(windowAt + k) =>
                 \A s \in ToSet(decode_bio(preds)) : s.end # windowAt + k + 1
<1> DEFINE N == Len(preds)
<1>0. N \in Nat
  OBVIOUS
<1>1. PICK f : /\ Decoded(preds) = f[N] /\ f[0] = [open |-> {}, out |-> <<>>]
               /\ \A n \in 1 .. N : DecodeStep(f, preds, n)
  BY DecodedBy
<1> DEFINE T == {n \in 0 .. N : DecodePart(f[n], preds, n)}
<1>2. 0 \in T
  <2>1. f[0] \in [open : SUBSET Spans, out : Seq(Spans)] /\ f[0].open = {} /\ f[0].out = <<>>
    BY <1>1
  <2>2. ToSet(f[0].out) = {}
    BY <2>1 DEF ToSet
  <2> QED
    BY <1>0, <2>1, <2>2 DEF DecodePart
<1>3. ASSUME NEW n \in 1 .. N, n - 1 \in T PROVE n \in T
  <2>1. DecodePart(f[n - 1], preds, n - 1) /\ n \in 0 .. N /\ windowAt + n <= Len(words)
    BY <1>0, <1>3
  <2>2. PICK state : state = f[n - 1]
    OBVIOUS
  <2>3. f[n] = DecodeToken(state, windowAt + n, preds[n])
    BY <1>1, <2>2 DEF DecodeStep
  <2>4. DecodePart(f[n], preds, n)
    BY <2>1, <2>2, <2>3, DecodeTokenIs
  <2> QED
    BY <2>1, <2>4
<1> HIDE DEF T
<1>4. \A n \in 0 .. N : n \in T
  BY <1>0, <1>2, <1>3, UpTo
<1>5. PICK state : state = Decoded(preds)
  OBVIOUS
<1>6. DecodePart(state, preds, N)
  BY <1>0, <1>1, <1>4, <1>5 DEF T
<1> DEFINE spans == decode_bio(preds)
<1>7. spans = state.out \o SetToSeq(state.open)
  BY <1>5 DEF decode_bio
<1>8. spans \in Seq(Spans) /\ ToSet(spans) = ToSet(state.out) \cup state.open
  BY <1>0, <1>6, <1>7, ClosedIs
<1> HIDE DEF spans
<1>9. ASSUME NEW k \in 1 .. N - 1, Joined(windowAt + k), NEW s \in ToSet(spans) PROVE s.end # windowAt + k + 1
  <2>1. CASE s \in ToSet(state.out)
    BY <1>6, <1>9, <2>1 DEF DecodePart
  <2>2. CASE s \in state.open
    <3>1. s.end = windowAt + N + 1
      BY <1>6, <2>2 DEF DecodePart
    <3> QED
      BY <1>0, <3>1
  <2> QED
    BY <1>8, <2>1, <2>2
<1>10. \A k \in 1 .. N : preds[k].tag # "O" => \E s \in ToSet(spans) : Covers(s, windowAt + k)
  BY <1>6, <1>8 DEF DecodePart
<1> QED
  BY <1>8, <1>9, <1>10 DEF spans

-----------------------------------------------------------------------------
(* A text, window by window *)

WindowsInv ==
    /\ words \in Seq(Nat) /\ windowAt \in Nat /\ all_spans \in Seq(Spans)
    /\ predicted # <<>> => /\ windowAt < Len(words)
                           /\ predicted \in [1 .. Cardinality(WindowTokens) -> Predictions]
    /\ \A kept \in detected : KeptWhole(kept, all_spans)

\* The tokens of a window follow where it starts, and are some of the text's.
LEMMA WindowIs ==
    ASSUME words \in Seq(Nat), windowAt \in Nat, windowAt < Len(words)
    PROVE  \E n \in Nat \ {0} : /\ WindowTokens = windowAt + 1 .. windowAt + n /\ Cardinality(WindowTokens) = n
                                /\ windowAt + n <= Len(words)
<1> DEFINE S == {windowAt + WINDOW_TOKENS, Len(words)}
           last == Min(S)
<1>1. S \in SUBSET Nat /\ S # {}
  BY NerWindowsAssumption
<1>2. last \in S /\ \A k \in S : last <= k
  BY <1>1, MinOf
<1>3. WindowTokens = windowAt + 1 .. last
  BY DEF WindowTokens
<1> HIDE DEF last
<1>4. last \in Nat /\ windowAt < last /\ last <= Len(words)
  BY <1>2, NerWindowsAssumption
<1>5. PICK n \in Nat : n = last - windowAt
  BY <1>4
<1>6. n # 0 /\ last = windowAt + n
  BY <1>4, <1>5
<1>7. Cardinality(windowAt + 1 .. windowAt + n) = n
  <2>1. Cardinality(windowAt + 1 .. windowAt + n)
            = IF windowAt + 1 > windowAt + n THEN 0 ELSE (windowAt + n) - (windowAt + 1) + 1
    BY FS_Interval
  <2> QED
    BY <1>6, <2>1
<1> QED
  BY <1>3, <1>4, <1>6, <1>7

LEMMA PredictedWhole ==
    ASSUME words \in Seq(Nat), windowAt \in Nat, windowAt < Len(words),
           NEW preds \in [1 .. Cardinality(WindowTokens) -> Predictions]
    PROVE  /\ decode_bio(preds) \in Seq(Spans)
           /\ \A j \in DOMAIN preds :
                 /\ preds[j].tag # "O" => \E s \in ToSet(decode_bio(preds)) : Covers(s, windowAt + j)
                 /\ is_continuation(words[windowAt + j],
                                    IF windowAt + j + 1 \in WindowTokens THEN words[windowAt + j + 1] ELSE 0)
                       => \A s \in ToSet(decode_bio(preds)) : s.end # windowAt + j + 1
<1>1. PICK n \in Nat \ {0} : /\ WindowTokens = windowAt + 1 .. windowAt + n /\ Cardinality(WindowTokens) = n
                             /\ windowAt + n <= Len(words)
  BY WindowIs
<1>2. preds \in Seq(Predictions) /\ Len(preds) = n /\ DOMAIN preds = 1 .. n
  BY <1>1
<1>3. /\ decode_bio(preds) \in Seq(Spans)
      /\ \A k \in 1 .. n : preds[k].tag # "O" =>
            \E s \in ToSet(decode_bio(preds)) : Covers(s, windowAt + k)
      /\ \A k \in 1 .. n - 1 : Joined(windowAt + k) =>
            \A s \in ToSet(decode_bio(preds)) : s.end # windowAt + k + 1
  BY <1>1, <1>2, DecodeIs
<1>4. ASSUME NEW j \in DOMAIN preds,
             is_continuation(words[windowAt + j],
                             IF windowAt + j + 1 \in WindowTokens THEN words[windowAt + j + 1] ELSE 0)
      PROVE  \A s \in ToSet(decode_bio(preds)) : s.end # windowAt + j + 1
  <2>1. CASE j = n
    <3>1. windowAt + j + 1 \notin WindowTokens
      BY <1>1, <2>1
    <3>2. is_continuation(words[windowAt + j], 0)
      BY <1>4, <3>1
    <3> QED
      BY <3>2 DEF is_continuation
  <2>2. CASE j # n
    <3>1. j \in 1 .. n - 1 /\ windowAt + j + 1 \in WindowTokens
      BY <1>1, <1>2, <2>2
    <3>2. Joined(windowAt + j)
      BY <1>4, <3>1 DEF Joined
    <3> QED
      BY <1>3, <3>1, <3>2
  <2> QED
    BY <2>1, <2>2
<1> QED
  BY <1>2, <1>3, <1>4

LEMMA WindowsInductive ==
    /\ WindowsInit => WindowsInv
    /\ WindowsInv /\ [WindowsNext]_windowVars => WindowsInv'
<1>1. WindowsInit => WindowsInv
  BY NerWindowsAssumption DEF WindowsInit, WindowsInv
<1> SUFFICES ASSUME WindowsInv, [WindowsNext]_windowVars PROVE WindowsInv'
  BY <1>1
<1>2. CASE run_window
  <2>1. PICK preds \in [1 .. Cardinality(WindowTokens) -> Predictions] :
           predicted' = preds /\ all_spans' = all_spans \o decode_bio(preds)
    BY <1>2 DEF run_window
  <2>2. windowAt < Len(words) /\ detected = {} /\ UNCHANGED <<words, windowAt, detected>>
    BY <1>2 DEF run_window
  <2>3. decode_bio(preds) \in Seq(Spans)
    BY <2>2, PredictedWhole DEF WindowsInv
  <2>4. PICK some \in Seq(Spans) : some = decode_bio(preds)
    BY <2>3
  <2>5. all_spans' \in Seq(Spans)
    BY <2>1, <2>4, ConcatProperties DEF WindowsInv
  <2>6. WindowTokens' = WindowTokens
    BY <2>2 DEF WindowTokens
  <2> QED
    BY <2>1, <2>2, <2>5, <2>6 DEF WindowsInv
<1>3. CASE NextWindow
  <2>1. predicted' = <<>> /\ UNCHANGED <<words, all_spans>>
    BY <1>3 DEF NextWindow
  <2>2. CASE Len(words) \in WindowTokens
    <3>1. detected' = {dedupe_spans(all_spans)} /\ windowAt' = windowAt
      BY <1>3, <2>2 DEF NextWindow
    <3>2. KeptWhole(dedupe_spans(all_spans), all_spans)
      BY DedupeIs DEF WindowsInv
    <3> QED
      BY <2>1, <3>1, <3>2 DEF WindowsInv
  <2>3. CASE Len(words) \notin WindowTokens
    <3>1. windowAt' = windowAt + (WINDOW_TOKENS - STRIDE_OVERLAP) /\ detected' = detected
      BY <1>3, <2>3 DEF NextWindow
    <3>2. windowAt' \in Nat
      BY <3>1, NerWindowsAssumption DEF WindowsInv
    <3> QED
      BY <2>1, <3>1, <3>2 DEF WindowsInv
  <2> QED
    BY <2>2, <2>3
<1>4. CASE UNCHANGED windowVars
  BY <1>4 DEF WindowsInv, windowVars, WindowTokens
<1> QED
  BY <1>2, <1>3, <1>4 DEF WindowsNext

LEMMA WindowsShow == WindowsInv => SpansWhole
<1> SUFFICES ASSUME WindowsInv PROVE SpansWhole
  OBVIOUS
<1>1. ASSUME NEW j \in DOMAIN predicted
      PROVE  LET i == windowAt + j
                 ofWindow == ToSet(decode_bio(predicted))
             IN /\ predicted[j].tag # "O" => \E s \in ofWindow : i \in s.start .. s.end - 1
                /\ is_continuation(words[i], IF i + 1 \in WindowTokens THEN words[i + 1] ELSE 0)
                     => \A s \in ofWindow : s.end # i + 1
  <2>1. predicted # <<>>
    OBVIOUS
  <2>2. PICK preds \in [1 .. Cardinality(WindowTokens) -> Predictions] : preds = predicted
    BY <2>1 DEF WindowsInv
  <2>3. /\ preds[j].tag # "O" => \E s \in ToSet(decode_bio(preds)) : Covers(s, windowAt + j)
        /\ is_continuation(words[windowAt + j],
                           IF windowAt + j + 1 \in WindowTokens THEN words[windowAt + j + 1] ELSE 0)
              => \A s \in ToSet(decode_bio(preds)) : s.end # windowAt + j + 1
    BY <2>1, <2>2, PredictedWhole DEF WindowsInv
  <2> QED
    BY <2>2, <2>3 DEF Covers
<1>2. ASSUME NEW kept \in detected
      PROVE  /\ ToSet(kept) \subseteq ToSet(all_spans)
             /\ \A i, j \in DOMAIN kept : i < j => kept[i].start <= kept[j].start /\ ~Rivals(kept[i], kept[j])
             /\ \A s \in ToSet(all_spans) :
                   (\A r \in ToSet(all_spans) \ {s} : Rivals(s, r) => Higher(s, r)) => s \in ToSet(kept)
  BY DEF WindowsInv, KeptWhole, Best
<1> QED
  BY <1>1, <1>2 DEF SpansWhole

\* No tagged token is left out of the spans of its window and no word is cut; of all
\* windows, those returned do not compete, and one that scores higher than all its
\* rivals is returned (decode_bio, dedupe_spans, model.rs:291-395).
THEOREM SpansHold == WindowsSpec => []SpansWhole
<1>1. WindowsInit => WindowsInv
  BY WindowsInductive
<1>2. WindowsInv /\ [WindowsNext]_windowVars => WindowsInv'
  BY WindowsInductive
<1>3. WindowsInv => SpansWhole
  BY WindowsShow
<1> QED
  BY <1>1, <1>2, <1>3, PTL DEF WindowsSpec
=============================================================================
