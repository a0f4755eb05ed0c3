------------------------------ MODULE Counters ------------------------------
(***************************************************************************)
(* The counters of all the virtual keys of a configuration (RateLimiter    *)
(* and BudgetTracker of drgtw-keys): one per key that has a limit, at the  *)
(* position of the key, and what a reload makes of them.  A key list is a  *)
(* sequence of records [key, rate, budget].                                *)
(***************************************************************************)
EXTENDS Limits, Sequences

Position(ks, s) == {i \in DOMAIN ks : ks[i].key = s}

LimiterNew(ks, t) == [i \in DOMAIN ks |-> {BucketNew(rl, t) : rl \in ks[i].rate}]
BudgetsNew(ks) == [i \in DOMAIN ks |-> {WindowNew(b) : b \in ks[i].budget}]

\* Mutant: counters are taken over by position.
InheritedByIndex(old, counters, ks, i) ==
    IF i \in DOMAIN counters THEN counters[i] ELSE {}

\* The counter of `counters', those of the keys `old', that key i of `ks' takes
\* over: that of the same secret, if it had one.
Inherited(old, counters, ks, i) ==
    UNION {counters[j] : j \in Position(old, ks[i].key)}

LimiterRebuild(old, buckets, ks, t) ==
    [i \in DOMAIN ks |->
        {BucketRebuild(Inherited(old, buckets, ks, i), rl, t) : rl \in ks[i].rate}]

BudgetsRebuild(old, windows, ks, t) ==
    [i \in DOMAIN ks |->
        {WindowRebuild(Inherited(old, windows, ks, i), b, t) : b \in ks[i].budget}]
=============================================================================
