------------------------------ MODULE KeyLimits ------------------------------
(***************************************************************************)
(* A virtual key that has both limits of crates/drgtw-keys/src/lib.rs, a   *)
(* token bucket (TokenBucket) and a spend window (KeyBudget).  The two     *)
(* share no state and no lock: each keeps its own clock readings, so a     *)
(* key's behaviour is the conjunction of the two.                          *)
(***************************************************************************)
EXTENDS TokenBucket, KeyBudget

KeySpec == BucketSpec /\ BudgetSpec

\* What a refusal announces is enough: a client that waits for it passes the bucket
\* if no other takes its token, and the budget.  And the refusals themselves cost
\* nothing.
RetryAfterSuffices == BucketRetryAfterSuffices /\ BudgetRetryAfterSuffices /\ RefusalsAreFree
=============================================================================
