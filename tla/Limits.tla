------------------------------- MODULE Limits -------------------------------
(***************************************************************************)
(* The two per-key counters of crates/drgtw-keys/src/lib.rs as operators:  *)
(* the token bucket behind `rate_limit' (Bucket) and the spend window      *)
(* behind `budget' (BudgetWindow), with what `rebuild_from' carries over   *)
(* to the counters of a reloaded configuration.  TokenBucket, KeyBudget    *)
(* and HotReload are built from these operators.                           *)
(*                                                                         *)
(* Units.  The code holds tokens as f64 and refills 1/refill_interval of   *)
(* them per second.  Here one token is GRAIN grains and a limit refills    *)
(* `refill' whole grains per tick of the clock (the code's                 *)
(* capacity / per_seconds), so counts are exact.  A second is TICKS ticks: *)
(* an Instant falls between whole seconds.  Money is whole units.          *)
(*                                                                         *)
(* Option<T> is a set of at most one T: mapping over it is {f(x) : x \in o}.*)
(***************************************************************************)
EXTENDS Integers, Options

CONSTANTS GRAIN,  \* grains in one token
          TICKS   \* clock ticks in one second

ASSUME UnitsAssumption == GRAIN \in Nat \ {0} /\ TICKS \in Nat \ {0}

Least(a, b) == IF a <= b THEN a ELSE b
CeilDiv(a, b) == (a + b - 1) \div b

\* Instant::saturating_duration_since: an instant in the future is 0 ago.
Elapsed(since, now) == IF now > since THEN now - since ELSE 0
-----------------------------------------------------------------------------
(* Token bucket *)

RateLimit == [requests : Nat \ {0}, refill : Nat \ {0}]
Bucket == [capacity : Nat \ {0}, refill : Nat \ {0}, tokens : Nat, last_refill : Nat]

BucketNew(rl, now) ==
    [capacity |-> rl.requests, refill |-> rl.refill,
     tokens |-> rl.requests * GRAIN, last_refill |-> now]

\* Mutant: whole tokens only, the fraction earned since the last call is lost.
RefilledWholeTokens(b, now) ==
    LET gain == ((Elapsed(b.last_refill, now) * b.refill) \div GRAIN) * GRAIN
    IN [b EXCEPT !.tokens = Least(@ + gain, b.capacity * GRAIN), !.last_refill = now]

\* Mutant: the refill is not capped by the capacity.
RefilledUncapped(b, now) ==
    [b EXCEPT !.tokens = @ + Elapsed(b.last_refill, now) * b.refill,
              !.last_refill = now]

\* `last_refill' is set to `now' even when `now' is the earlier of the two.
Refilled(b, now) ==
    [b EXCEPT !.tokens = Least(@ + Elapsed(b.last_refill, now) * b.refill,
                               b.capacity * GRAIN),
              !.last_refill = now]

BucketAllows(b, now) == Refilled(b, now).tokens >= GRAIN

\* Bucket::check: refill, then take one token if there is one.
BucketCheck(b, now) ==
    LET r == Refilled(b, now)
    IN IF r.tokens >= GRAIN THEN [r EXCEPT !.tokens = @ - GRAIN] ELSE r

\* Mutant: the fraction of a second is dropped instead of rounded up.
BucketRetryAfterFloor(b, now) ==
    (GRAIN - Refilled(b, now).tokens) \div (b.refill * TICKS)

\* Seconds announced in `retry-after' by a refusal, rounded up.
BucketRetryAfter(b, now) ==
    CeilDiv(GRAIN - Refilled(b, now).tokens, b.refill * TICKS)

\* RateLimiter::rebuild_from for one key: `old' is the bucket the same secret
\* had.  The guard `new_bucket.capacity == rl.requests' compares the new bucket
\* with the limit it was just built from, so it always lets the state through.
BucketRebuild(old, rl, now) ==
    IF old = {} THEN BucketNew(rl, now)
    ELSE [BucketNew(rl, now) EXCEPT
            !.tokens = Least(The(old).tokens, rl.requests * GRAIN),
            !.last_refill = The(old).last_refill]
-----------------------------------------------------------------------------
(* Budget window *)

NotStarted == -1   \* window_start = None

Budget == [max : Nat \ {0}, per : Nat \ {0}]
Window == [max : Nat \ {0}, per : Nat \ {0}, spent : Nat, start : Nat \cup {NotStarted}]

WindowNew(b) == [max |-> b.max, per |-> b.per, spent |-> 0, start |-> NotStarted]

\* Mutant: the window is held one tick too long.
MaybeResetLate(w, now) ==
    IF w.start # NotStarted /\ Elapsed(w.start, now) > w.per
    THEN [w EXCEPT !.start = NotStarted, !.spent = 0]
    ELSE w

\* BudgetWindow::maybe_reset.
MaybeReset(w, now) ==
    IF w.start # NotStarted /\ Elapsed(w.start, now) >= w.per
    THEN [w EXCEPT !.start = NotStarted, !.spent = 0]
    ELSE w

\* Mutant: a key that has spent exactly its maximum is let through.
WindowAllowsInclusive(w, now) == MaybeReset(w, now).spent <= w.max

\* BudgetWindow::check resets an elapsed window and consumes nothing.
WindowAllows(w, now) == MaybeReset(w, now).spent < w.max

\* Seconds until the window resets, announced by a refusal, rounded up.
WindowRetryAfter(w, now) ==
    IF w.start = NotStarted THEN 0
    ELSE CeilDiv(IF Elapsed(w.start, now) >= w.per THEN 0
                 ELSE w.per - Elapsed(w.start, now), TICKS)

\* BudgetWindow::record: the first charge starts the window.
WindowRecord(w, cost, now) ==
    [MaybeReset(w, now) EXCEPT
        !.start = IF @ = NotStarted /\ cost > 0 THEN now ELSE @,
        !.spent = @ + cost]

\* Mutant: a reload starts every window afresh.
WindowRebuildFresh(old, b, now) == WindowNew(b)

\* BudgetTracker::rebuild_from for one key.  The guard that compares
\* `new_window.max_usd' with `budget.max_usd' compares a value with itself.
WindowRebuild(old, b, now) ==
    IF old = {} THEN WindowNew(b)
    ELSE MaybeReset([WindowNew(b) EXCEPT !.spent = The(old).spent,
                                         !.start = The(old).start], now)
=============================================================================
