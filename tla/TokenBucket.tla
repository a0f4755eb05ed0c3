----------------------------- MODULE TokenBucket -----------------------------
(***************************************************************************)
(* One key's rate limiter under concurrent requests: RateLimiter::check of *)
(* crates/drgtw-keys/src/lib.rs.  A worker thread reads the clock          *)
(* (ReadClock) and only then locks the bucket (Check), so another thread   *)
(* with a later reading may get the lock first and the bucket sees time go *)
(* backwards.                                                              *)
(*                                                                         *)
(* The variables win and shadow observe the run and are read by no action: *)
(*   win     counts the admissions from the first check whose reading is   *)
(*           at or after win.start, an instant fixed at the start of the   *)
(*           run; win.regress is by how much readings went back since.     *)
(*   shadow  is the bucket as it would be had no refused check touched it. *)
(***************************************************************************)
EXTENDS Limits

CONSTANTS Threads,   \* worker threads that serve the key's requests
          RL,        \* the key's rate_limit
          MaxTime    \* bound: the last clock reading

ASSUME TokenBucketAssumption ==
    /\ RL \in RateLimit
    /\ MaxTime \in Nat

NoStamp == -1   \* the thread is not inside RateLimiter::check

VARIABLES now, bucket, stamp, win, shadow
bucketVars == <<now, bucket, stamp, win, shadow>>

BucketTypeOK ==
    /\ now \in Nat
    /\ bucket \in Bucket
    /\ stamp \in [Threads -> Nat \cup {NoStamp}]
    /\ win \in [start : Nat, open : BOOLEAN, admitted : Nat, regress : Nat]
    /\ shadow \in [capacity : Nat \ {0}, refill : Nat \ {0}, tokens : Int, last_refill : Nat]

BucketInit ==
    /\ now = 0
    /\ bucket = BucketNew(RL, 0)
    /\ stamp = [t \in Threads |-> NoStamp]
    /\ \E s \in 0 .. MaxTime :
          win = [start |-> s, open |-> FALSE, admitted |-> 0, regress |-> 0]
    /\ shadow = bucket

BucketTick ==
    /\ now < MaxTime
    /\ now' = now + 1
    /\ UNCHANGED <<bucket, stamp, win, shadow>>

\* `let now = (self.now_fn)()'
ReadClock(t) ==
    /\ stamp[t] = NoStamp
    /\ stamp' = [stamp EXCEPT ![t] = now]
    /\ UNCHANGED <<now, bucket, win, shadow>>

\* What the observer notes of a check with reading s.
Observe(s, allowed) ==
    /\ win' = [win EXCEPT
                !.open = @ \/ s >= win.start,
                !.admitted = IF allowed /\ (win.open \/ s >= win.start) THEN @ + 1 ELSE @,
                !.regress = IF win.open THEN @ + Elapsed(s, bucket.last_refill) ELSE @]
    /\ shadow' = IF allowed
                 THEN [Refilled(shadow, s) EXCEPT !.tokens = @ - GRAIN]
                 ELSE shadow

\* The bucket's mutex is held for the whole of Bucket::check.
Check(t) ==
    /\ stamp[t] # NoStamp
    /\ bucket' = BucketCheck(bucket, stamp[t])
    /\ Observe(stamp[t], BucketAllows(bucket, stamp[t]))
    /\ stamp' = [stamp EXCEPT ![t] = NoStamp]
    /\ UNCHANGED now

BucketNext ==
    \/ BucketTick
    \/ \E t \in Threads : ReadClock(t) \/ Check(t)

BucketSpec == BucketInit /\ [][BucketNext]_bucketVars
-----------------------------------------------------------------------------
\* In any window of time a key is admitted at most its burst plus what the
\* limit refills in the window, plus what the clock readings that arrived out
\* of order had refilled twice (Bucket::check, the refill at its start).
AdmissionEnvelope ==
    win.open =>
        win.admitted * GRAIN <=
            RL.requests * GRAIN + RL.refill * ((now - win.start) + win.regress)

\* The inductive form: the tokens in hand count too, and time is the bucket's.
EnvelopeInv ==
    win.open =>
        win.admitted * GRAIN + bucket.tokens <=
            RL.requests * GRAIN
                + RL.refill * ((bucket.last_refill - win.start) + win.regress)

\* The bucket is the key's limit, holds no more than its capacity, and has not
\* seen a reading the clock has not reached.
BucketInv ==
    /\ bucket.capacity = RL.requests
    /\ bucket.refill = RL.refill
    /\ bucket.tokens <= RL.requests * GRAIN
    /\ bucket.last_refill <= now
    /\ \A t \in Threads : stamp[t] <= now
    /\ win.admitted > 0 => win.open

BucketIInv == BucketTypeOK /\ BucketInv /\ EnvelopeInv

\* A client that waits the announced `retry-after' and is alone is admitted,
\* and would not have been a whole second earlier.
BucketRetryAfterSuffices ==
    LET wait == BucketRetryAfter(bucket, now)
    IN ~BucketAllows(bucket, now) =>
          /\ BucketAllows(bucket, now + wait * TICKS)
          /\ ~BucketAllows(bucket, now + (wait - 1) * TICKS)

\* A refused request costs the key nothing: however often a client polls an
\* empty bucket, it holds at least what it would hold had those calls not been
\* made (Bucket::check stores the partial refill and moves last_refill).
RefusalsAreFree ==
    Refilled(bucket, now).tokens >= Refilled(shadow, now).tokens
=============================================================================
