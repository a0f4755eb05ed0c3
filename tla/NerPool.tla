------------------------------- MODULE NerPool -------------------------------
(***************************************************************************)
(* The pool of threads that run the NER model (crates/drgtw-ner/src/       *)
(* pool.rs) behind the recognizer with its verdict cache (crates/drgtw-pii *)
(* /src/ner_bridge.rs).  A request thread puts a job into a bounded queue  *)
(* without waiting and waits for its reply for at most the timeout; a      *)
(* worker that panics in the model is gone.                                *)
(*                                                                         *)
(* A call is a detect_spans of a caller, known by its number; the model's  *)
(* verdict on a text is named like the text.  given and text observe: the  *)
(* result of each call, and what it asked for.                             *)
(***************************************************************************)
EXTENDS Integers, FiniteSetsExt, SequencesExt

CONSTANTS Callers,        \* threads that scan request texts
          Workers,
          Phrases,        \* the texts they scan
          QueueCapacity,  \* queue_capacity
          CacheCapacity,  \* cache_capacity
          MaxCalls,       \* bound: calls in all
          MaxPanics       \* bound: runs of the model that panic or do not end

ASSUME NerPoolAssumption ==
    /\ IsFiniteSet(Callers) /\ IsFiniteSet(Workers) /\ IsFiniteSet(Phrases)
    /\ QueueCapacity \in Nat \ {0} /\ CacheCapacity \in Nat
    /\ MaxCalls \in Nat /\ MaxPanics \in Nat

NoCall == 0

VARIABLES call,    \* of each caller: the call it is in
          asking,  \* and where it is: none, miss (the cache missed), waiting, storing
          jobs,    \* the job channel
          work,    \* the job each worker runs
          alive,   \* the workers that have not panicked
          reply,   \* the reply channels, of the calls that were replied to
          cache,   \* <<text, verdict>> entries, the least recently used first
          hung,    \* the workers whose model run does not end
          text, given, panics
nerVars == <<call, asking, jobs, work, alive, hung, reply, cache, text, given, panics>>

Calls == DOMAIN text
Errors == {"unavailable", "timeout", "failed"}
Results == Phrases \cup Errors \cup {"pending"}
Keys == {e[1] : e \in Range(cache)}
Cached(t) == (CHOOSE e \in Range(cache) : e[1] = t)[2]

NerTypeOK ==
    /\ call \in [Callers -> 0 .. Len(text)]
    /\ asking \in [Callers -> {"none", "miss", "waiting", "storing"}]
    /\ jobs \in Seq(Calls) /\ Len(jobs) <= QueueCapacity
    /\ work \in [Workers -> Calls \cup {NoCall}]
    /\ alive \subseteq Workers /\ hung \subseteq alive
    /\ DOMAIN reply \subseteq Calls /\ Range(reply) \subseteq Phrases \cup {"failed"}
    /\ cache \in Seq(Phrases \X Phrases) /\ Len(cache) <= CacheCapacity
    /\ text \in Seq(Phrases)
    /\ given \in [Calls -> Results]
    /\ panics \in 0 .. MaxPanics

NerInit ==
    /\ call = [c \in Callers |-> NoCall] /\ asking = [c \in Callers |-> "none"]
    /\ jobs = <<>> /\ work = [w \in Workers |-> NoCall] /\ alive = Workers /\ hung = {}
    /\ reply = [k \in {} |-> NoCall] /\ cache = <<>>
    /\ text = <<>> /\ given = <<>> /\ panics = 0
-----------------------------------------------------------------------------
(* Request threads *)

\* The cache with the entry used last.
Touched(t, v) ==
    Append(IF t \in Keys THEN RemoveAt(cache, CHOOSE i \in DOMAIN cache : cache[i][1] = t)
           ELSE cache, <<t, v>>)

\* detect_spans: the cache answers, or does not have the text.
Ask(c, t) ==
    LET k == Len(text) + 1
        hit == t \in Keys
    IN /\ asking[c] = "none" /\ k <= MaxCalls
       /\ text' = Append(text, t)
       /\ given' = Append(given, IF hit THEN Cached(t) ELSE "pending")
       /\ cache' = IF hit THEN Touched(t, Cached(t)) ELSE cache
       /\ asking' = [asking EXCEPT ![c] = IF hit THEN "none" ELSE "miss"]
       /\ call' = [call EXCEPT ![c] = IF hit THEN NoCall ELSE k]
       /\ UNCHANGED <<jobs, work, alive, hung, reply, panics>>

Finish(c, result) ==
    /\ asking' = [asking EXCEPT ![c] = "none"]
    /\ call' = [call EXCEPT ![c] = NoCall]
    /\ given' = [given EXCEPT ![call[c]] = result]

Room == Len(jobs) < QueueCapacity

\* NerPool::detect: try_send; the channel closes with the last worker.
Submit(c) ==
    /\ asking[c] = "miss"
    /\ IF alive # {} /\ Room
         THEN /\ jobs' = Append(jobs, call[c])
              /\ asking' = [asking EXCEPT ![c] = "waiting"]
              /\ UNCHANGED <<call, given>>
         ELSE Finish(c, "unavailable") /\ UNCHANGED jobs
    /\ UNCHANGED <<work, alive, hung, reply, cache, text, panics>>

\* Mutant: a caller takes the first reply there is.
ReplyToAny(c) == DOMAIN reply

\* A reply channel is made for one call.
ReplyTo(c) == DOMAIN reply \cap {call[c]}

\* recv_timeout returns a reply: a verdict, or the model's error.
ReceiveReply(c) ==
    /\ asking[c] = "waiting"
    /\ \E k \in ReplyTo(c) :
          IF reply[k] \in Errors THEN Finish(c, reply[k])
          ELSE /\ given' = [given EXCEPT ![call[c]] = reply[k]]
               /\ asking' = [asking EXCEPT ![c] = "storing"]
               /\ UNCHANGED call
    /\ UNCHANGED <<jobs, work, alive, hung, reply, cache, text, panics>>

\* The least recently used entry makes room, for a text that is not there.
Evicted(t, v) ==
    IF t \notin Keys /\ cache # <<>> /\ Len(cache) >= CacheCapacity
    THEN Tail(Touched(t, v)) ELSE Touched(t, v)

\* The verdict is put into the cache.
StoreVerdict(c) ==
    /\ asking[c] = "storing"
    /\ cache' = IF CacheCapacity = 0 THEN cache ELSE Evicted(text[call[c]], given[call[c]])
    /\ Finish(c, given[call[c]])
    /\ UNCHANGED <<jobs, work, alive, hung, reply, text, panics>>

\* Mutant: recv instead of recv_timeout.
WaitForEver(c) == FALSE

\* recv_timeout gives up; the job stays where it is.
TimeOut(c) ==
    /\ asking[c] = "waiting" /\ ReplyTo(c) = {}
    /\ Finish(c, "timeout")
    /\ UNCHANGED <<jobs, work, alive, hung, reply, cache, text, panics>>

Runs(k) == \E w \in Workers : work[w] = k

\* The job was dropped with its worker, or with the channel.
Disconnected(c) ==
    /\ asking[c] = "waiting"
    /\ call[c] \notin Range(jobs) \cup DOMAIN reply /\ ~Runs(call[c])
    /\ Finish(c, "unavailable")
    /\ UNCHANGED <<jobs, work, alive, hung, reply, cache, text, panics>>
-----------------------------------------------------------------------------
(* worker_loop *)

TakeJob(w) ==
    /\ w \in alive /\ work[w] = NoCall /\ jobs # <<>>
    /\ work' = [work EXCEPT ![w] = Head(jobs)]
    /\ jobs' = Tail(jobs)
    /\ UNCHANGED <<call, asking, alive, hung, reply, cache, text, given, panics>>

Replied(k, v) ==
    [j \in DOMAIN reply \cup {k} |-> IF j \in DOMAIN reply THEN reply[j] ELSE v]

\* The model's result goes to the job's reply channel, whoever is there.
AnswerJob(w) ==
    /\ work[w] # NoCall /\ w \notin hung
    /\ \E v \in {text[work[w]], "failed"} : reply' = Replied(work[w], v)
    /\ work' = [work EXCEPT ![w] = NoCall]
    /\ UNCHANGED <<call, asking, jobs, alive, hung, cache, text, given, panics>>

\* The model panics, outside the lock; the receiver goes with the last worker.
Panic(w) ==
    /\ work[w] # NoCall /\ w \notin hung
    /\ panics < MaxPanics /\ panics' = panics + 1
    /\ work' = [work EXCEPT ![w] = NoCall]
    /\ alive' = alive \ {w}
    /\ jobs' = IF alive' = {} THEN <<>> ELSE jobs
    /\ UNCHANGED <<call, asking, hung, reply, cache, text, given>>

\* The model does not come back.
Hang(w) ==
    /\ work[w] # NoCall /\ w \notin hung
    /\ panics < MaxPanics /\ panics' = panics + 1
    /\ hung' = hung \cup {w}
    /\ UNCHANGED <<call, asking, jobs, work, alive, reply, cache, text, given>>

Proceed(c) == \/ Submit(c) \/ ReceiveReply(c) \/ StoreVerdict(c)
              \/ TimeOut(c) \/ Disconnected(c)

NerNext ==
    \/ \E c \in Callers : Proceed(c) \/ \E t \in Phrases : Ask(c, t)
    \/ \E w \in Workers : TakeJob(w) \/ AnswerJob(w) \/ Panic(w) \/ Hang(w)

\* Threads run, but for a model that hangs; recv_timeout returns by the timeout.
NerFairness ==
    /\ \A w \in Workers : WF_nerVars(TakeJob(w) \/ AnswerJob(w))
    /\ \A c \in Callers : WF_nerVars(Proceed(c))
NerSpec == NerInit /\ [][NerNext]_nerVars /\ NerFairness
-----------------------------------------------------------------------------
\* A call gets the verdict on its own text or an error, and so does the cache:
\* never the late reply to a call that was given up.
AnswerOfItsText ==
    /\ \A k \in Calls : given[k] \in {text[k], "pending"} \cup Errors
    /\ \A e \in Range(cache) : e[2] = e[1]

\* A request thread does not wait for ever, even when the model hangs or
\* every worker has gone.
EveryCallEnds ==
    \A c \in Callers : asking[c] # "none" ~> asking[c] = "none"
=============================================================================
