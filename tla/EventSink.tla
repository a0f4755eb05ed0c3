------------------------------ MODULE EventSink ------------------------------
(***************************************************************************)
(* The usage-event sink of crates/drgtw-events/src/sink.rs.  Request tasks *)
(* put events into a bounded channel without waiting (EventSink::emit);    *)
(* one worker takes them out, POSTs each once to the configured webhook    *)
(* and records the attempt in the delivery log.  What is not kept or not   *)
(* acknowledged is counted in `dropped'.                                   *)
(*                                                                         *)
(* The webhook and the network are the environment: a POST that the worker *)
(* has given up may still be on the wire and arrive later.                 *)
(*                                                                         *)
(* UsageEvent serialises whatever its fields hold, so the worker's branch  *)
(* for an event that does not is left out.                                 *)
(*                                                                         *)
(* The variables fate, boot and unlogged observe the run and are read by   *)
(* no action: what became of each event, how many had been emitted at      *)
(* boot, and which attempts since then the log failed to take.             *)
(***************************************************************************)
EXTENDS Naturals, FiniteSetsExt, SequencesExt, Options

CONSTANTS Tasks,      \* request tasks that emit
          BufferSize, \* events.buffer_size
          MaxEvents,  \* bound: events emitted in all
          MaxStops    \* bound: restarts of the process

ASSUME EventSinkAssumption ==
    /\ IsFiniteSet(Tasks)
    /\ BufferSize \in Nat \ {0}
    /\ MaxEvents \in Nat /\ MaxStops \in Nat


VARIABLES queue,    \* the channel
          posting,  \* the event the worker holds: none or one
          result,   \* whether its POST succeeded, once that is known
          dropped,  \* the counter behind EventSink::dropped
          task,     \* where a request task is inside emit
          log,      \* the delivery log
          unlogged, \* attempts since boot whose record failed
          wire,     \* POSTs on their way to the receiver
          arrived,  \* POSTs the receiver got
          fate, boot, stops

worker == <<posting, result>>
sinkVars == <<queue, posting, result, dropped, task, log, unlogged, wire, arrived, fate, boot, stops>>

Fates == {"pending", "delivered", "failed", "lost"}
Emitted == DOMAIN fate
DeliveryRecord == [event : Nat, ok : BOOLEAN]

SinkTypeOK ==
    /\ queue \in Seq(Emitted) /\ Len(queue) <= BufferSize
    /\ posting \in Option(Emitted)
    /\ result \in Option(BOOLEAN)
    /\ posting = {} => result = {}
    /\ dropped \in Nat
    /\ task \in [Tasks -> {"ready", "counting"}]
    /\ log \in Seq(DeliveryRecord)
    /\ unlogged \subseteq Emitted
    /\ wire \subseteq Emitted
    /\ arrived \in Seq(Emitted)
    /\ fate \in Seq(Fates)
    /\ boot \in 0 .. Len(fate)
    /\ stops \in Nat

SinkInit ==
    /\ queue = <<>> /\ posting = {} /\ result = {}
    /\ dropped = 0
    /\ task = [t \in Tasks |-> "ready"]
    /\ log = <<>> /\ unlogged = {}
    /\ wire = {} /\ arrived = <<>>
    /\ fate = <<>> /\ boot = 0 /\ stops = 0
-----------------------------------------------------------------------------
(* Request tasks *)

\* EventSink::emit: try_send succeeds, or the channel is full ...
Emit(t) ==
    LET e == Len(fate) + 1
        fits == Len(queue) < BufferSize
    IN /\ task[t] = "ready"
       /\ e <= MaxEvents
       /\ queue' = IF fits THEN Append(queue, e) ELSE queue
       /\ task' = [task EXCEPT ![t] = IF fits THEN "ready" ELSE "counting"]
       /\ fate' = Append(fate, IF fits THEN "pending" ELSE "lost")
       /\ UNCHANGED <<worker, dropped, log, unlogged, wire, arrived, boot, stops>>

\* ... and the drop is counted.
CountDrop(t) ==
    /\ task[t] = "counting"
    /\ dropped' = dropped + 1
    /\ task' = [task EXCEPT ![t] = "ready"]
    /\ UNCHANGED <<queue, worker, log, unlogged, wire, arrived, fate, boot, stops>>
-----------------------------------------------------------------------------
(* The worker *)

\* Mutant: the worker waits for a full batch.
ReceiveFull ==
    /\ posting = {}
    /\ Len(queue) = BufferSize
    /\ posting' = {Head(queue)}
    /\ queue' = Tail(queue)
    /\ wire' = wire \cup {Head(queue)}
    /\ UNCHANGED <<result, dropped, task, log, unlogged, arrived, fate, boot, stops>>

\* rx.recv(), and the POST is sent.
Receive ==
    /\ posting = {}
    /\ queue # <<>>
    /\ posting' = {Head(queue)}
    /\ queue' = Tail(queue)
    /\ wire' = wire \cup {Head(queue)}
    /\ UNCHANGED <<result, dropped, task, log, unlogged, arrived, fate, boot, stops>>

Waiting(e) == e \in posting /\ result = {}

\* The receiver answers with a status of success, or with another one.
Answered(e) ==
    /\ Waiting(e)
    /\ e \in Range(arrived)
    /\ \/ result' = {TRUE} /\ fate' = [fate EXCEPT ![e] = "delivered"] /\ UNCHANGED dropped
       \/ result' = {FALSE} /\ fate' = [fate EXCEPT ![e] = "failed"] /\ dropped' = dropped + 1
    /\ UNCHANGED <<queue, posting, task, log, unlogged, wire, arrived, boot, stops>>

\* Mutant: a POST without an answer is not counted.
FailedUncounted(e) ==
    /\ Waiting(e)
    /\ result' = {FALSE}
    /\ fate' = [fate EXCEPT ![e] = "failed"]
    /\ UNCHANGED <<queue, posting, dropped, task, log, unlogged, wire, arrived, boot, stops>>

\* Mutant: an event without an answer goes back to the queue.
FailedRetried(e) ==
    /\ Waiting(e)
    /\ queue' = <<e>> \o queue
    /\ posting' = {}
    /\ UNCHANGED <<result, dropped, task, log, unlogged, wire, arrived, fate, boot, stops>>

\* The connection fails, or timeout_ms pass: `send' returns an error.  The POST
\* may have arrived, may still arrive, or never does.
Failed(e) ==
    /\ Waiting(e)
    /\ result' = {FALSE}
    /\ dropped' = dropped + 1
    /\ fate' = [fate EXCEPT ![e] = "failed"]
    /\ wire' \in {wire, wire \ {e}}
    /\ UNCHANGED <<queue, posting, task, log, unlogged, arrived, boot, stops>>

\* Mutant: only successful attempts are recorded.
RecordSuccess(e) ==
    /\ e \in posting
    /\ result # {}
    /\ log' = IF The(result) THEN Append(log, [event |-> e, ok |-> TRUE]) ELSE log
    /\ posting' = {} /\ result' = {}
    /\ UNCHANGED <<queue, dropped, task, unlogged, wire, arrived, fate, boot, stops>>

\* log.record(rec).await: an error of the insert is swallowed.
RecordDelivery(e) ==
    /\ e \in posting
    /\ result # {}
    /\ \/ log' = Append(log, [event |-> e, ok |-> The(result)]) /\ UNCHANGED unlogged
       \/ unlogged' = unlogged \cup {e} /\ UNCHANGED log
    /\ posting' = {} /\ result' = {}
    /\ UNCHANGED <<queue, dropped, task, wire, arrived, fate, boot, stops>>
-----------------------------------------------------------------------------
(* The environment *)

PostArrives(e) ==
    /\ e \in wire
    /\ wire' = wire \ {e}
    /\ arrived' = Append(arrived, e)
    /\ UNCHANGED <<queue, worker, dropped, task, log, unlogged, fate, boot, stops>>

\* The process stops and starts: the channel and the counter are in memory.
Restart ==
    /\ stops < MaxStops
    /\ stops' = stops + 1
    /\ queue' = <<>> /\ posting' = {} /\ result' = {}
    /\ dropped' = 0
    /\ task' = [t \in Tasks |-> "ready"]
    /\ fate' = [e \in Emitted |->
                  CASE fate[e] = "pending" /\ e \in posting -> "failed"
                    [] fate[e] = "pending" /\ e \notin posting -> "lost"
                    [] fate[e] # "pending" -> fate[e]]
    /\ boot' = Len(fate) /\ unlogged' = {}
    /\ UNCHANGED <<log, wire, arrived>>

SinkNext ==
    \/ Receive \/ Restart
    \/ \E t \in Tasks : Emit(t) \/ CountDrop(t)
    \/ \E e \in Emitted : Answered(e) \/ Failed(e) \/ RecordDelivery(e) \/ PostArrives(e)

\* The worker is a task of its own and each of its waits ends: recv when there
\* is an event, send after timeout_ms at the latest, record when the log
\* returns.  Nothing is assumed of the receiver and of the network.
SinkFairness ==
    /\ WF_sinkVars(Receive)
    /\ WF_sinkVars(\E e \in Emitted : Answered(e) \/ Failed(e))
    /\ WF_sinkVars(\E e \in Emitted : RecordDelivery(e))

SinkSpec == SinkInit /\ [][SinkNext]_sinkVars /\ SinkFairness
-----------------------------------------------------------------------------
Counting == {t \in Tasks : task[t] = "counting"}
SinceBoot(fates) == {e \in Emitted : e > boot /\ fate[e] \in fates}

\* EventSink::dropped is exact although emit and the worker count without a
\* lock, and emit a while after the fact: it is the number of events since boot
\* that were not acknowledged, less those about to be counted.  Nothing is forgotten
\* uncounted: the others are in the channel, in order, or held by the worker.
DropsCounted ==
    LET held == IF result = {} THEN posting ELSE {}
    IN /\ dropped + Cardinality(Counting) = Cardinality(SinceBoot({"failed", "lost"}))
       /\ {e \in Emitted : fate[e] = "pending"} = held \cup Range(queue)
       /\ \A i, j \in DOMAIN queue : i < j => queue[i] < queue[j]
       /\ \A e \in posting, i \in DOMAIN queue : e < queue[i]

\* The delivery log has every POST since boot whose outcome is known, once and
\* in order, with its outcome, but for the one about to be recorded and for those
\* whose record failed.
LogComplete ==
    LET mine == {i \in DOMAIN log : log[i].event > boot}
        recorded == {log[i].event : i \in mine}
        known == SinceBoot({"delivered", "failed"}) \ posting
    IN /\ recorded \cap unlogged = {} /\ recorded \cup unlogged = known
       /\ \A i, j \in mine : i < j => log[i].event < log[j].event
       /\ \A i \in mine : log[i].ok <=> fate[log[i].event] = "delivered"

\* The operator's page and counter account for every event.
EventsAccounted == DropsCounted /\ LogComplete

IsPending(e) == e \in Emitted /\ fate[e] = "pending"

\* What is emitted does not wait for ever, whatever the receiver does: the worker
\* posts each event once, within timeout_ms, and goes on to the next.
EventuallySettled == \A e \in 1 .. MaxEvents : IsPending(e) ~> ~IsPending(e)

\* The sink delivers as Delivery says: at most once, acknowledged in the order
\* of emission, without waiting.
Promise == INSTANCE Delivery WITH fate <- fate, arrived <- arrived
Refines == Promise!Spec
=============================================================================
