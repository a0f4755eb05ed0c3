--------------------------- MODULE KeyLimitsProofs ---------------------------
(***************************************************************************)
(* For every rate limit, budget, maximum cost, number of threads and of    *)
(* concurrent requests, and clock bound: the counters of a key keep their  *)
(* types; a key is admitted at most its burst plus what the window refills *)
(* (plus what readings out of order refill twice) and its budget overrun   *)
(* by at most one maximum cost per concurrent request; spend always has a  *)
(* window that will expire; refused requests cost nothing and what they    *)
(* announce is enough; and what the console's pages tell of the counters,  *)
(* across reloads, is what the next request would meet.                    *)
(***************************************************************************)
EXTENDS KeyLimits, LimitsPage, FiniteSetTheorems, TLAPS
-----------------------------------------------------------------------------
(* The token bucket *)

\* What Bucket::check does to the bucket's record.
LEMMA BucketCheckFields ==
    ASSUME NEW b \in Bucket, NEW s \in Nat, b.tokens <= b.capacity * GRAIN
    PROVE  LET gain == Elapsed(b.last_refill, s) * b.refill
               full == b.capacity * GRAIN
               c    == BucketCheck(b, s)
               taken == IF BucketAllows(b, s) THEN GRAIN ELSE 0
           IN /\ c \in Bucket
              /\ c.capacity = b.capacity
              /\ c.refill = b.refill
              /\ c.last_refill = s
              /\ c.tokens + taken = Least(b.tokens + gain, full)
              /\ c.tokens + taken <= full
              /\ c.tokens + taken <= b.tokens + gain
<1> DEFINE gain == Elapsed(b.last_refill, s) * b.refill
           full == b.capacity * GRAIN
           r    == Refilled(b, s)
<1>0. /\ GRAIN \in Nat /\ GRAIN > 0
      /\ b.capacity \in Nat \ {0} /\ b.refill \in Nat \ {0}
      /\ b.tokens \in Nat /\ b.last_refill \in Nat
  BY UnitsAssumption DEF Bucket
<1>1. Elapsed(b.last_refill, s) \in Nat
  BY <1>0 DEF Elapsed
<1>2. gain \in Nat /\ full \in Nat
  BY <1>0, <1>1
<1>3. /\ r.capacity = b.capacity /\ r.refill = b.refill
      /\ r.tokens = Least(b.tokens + gain, full) /\ r.last_refill = s
  BY DEF Refilled, Bucket
<1>4. /\ Least(b.tokens + gain, full) \in Nat
      /\ Least(b.tokens + gain, full) <= full
      /\ Least(b.tokens + gain, full) <= b.tokens + gain
  <2> HIDE DEF gain, full
  <2> QED BY <1>0, <1>2 DEF Least
<1>r. r \in Bucket
  <2> HIDE DEF gain, full
  <2>1. Least(b.tokens + gain, full) \in Nat
    BY <1>4
  <2>2. \A x \in Nat : [b EXCEPT !.tokens = x, !.last_refill = s] \in Bucket
    BY DEF Bucket
  <2>3. QED
    BY <2>1, <2>2 DEF Refilled, gain, full
<1> HIDE DEF gain, full, r
<1>5. CASE r.tokens >= GRAIN
  <2>1. BucketAllows(b, s)
    BY <1>5 DEF BucketAllows, r
  <2>2. BucketCheck(b, s) = [r EXCEPT !.tokens = @ - GRAIN]
    BY <1>5 DEF BucketCheck, r
  <2>3. r.tokens - GRAIN \in Nat
    BY <1>0, <1>3, <1>4, <1>5
  <2>4. /\ BucketCheck(b, s) \in Bucket
        /\ BucketCheck(b, s).capacity = r.capacity
        /\ BucketCheck(b, s).refill = r.refill
        /\ BucketCheck(b, s).last_refill = r.last_refill
        /\ BucketCheck(b, s).tokens = r.tokens - GRAIN
    BY <1>r, <2>2, <2>3 DEF Bucket
  <2>5. QED
    BY <2>1, <2>4, <1>0, <1>3, <1>4 DEF gain, full
<1>6. CASE ~(r.tokens >= GRAIN)
  <2>1. ~BucketAllows(b, s)
    BY <1>6 DEF BucketAllows, r
  <2>2. BucketCheck(b, s) = r
    BY <1>6 DEF BucketCheck, r
  <2>3. QED
    BY <2>1, <2>2, <1>0, <1>3, <1>4, <1>r DEF gain, full
<1>7. QED
  BY <1>5, <1>6

\* The limit's fields and the grain are the numbers they are declared to be.
LEMMA LimitFields ==
    /\ GRAIN \in Nat /\ GRAIN > 0
    /\ RL.requests \in Nat \ {0} /\ RL.refill \in Nat \ {0}
    /\ RL.requests * GRAIN \in Nat
BY UnitsAssumption, TokenBucketAssumption DEF RateLimit

LEMMA BucketInitIInv == BucketInit => BucketIInv
<1> SUFFICES ASSUME BucketInit PROVE BucketIInv
  OBVIOUS
<1> USE LimitFields
<1>1. bucket \in Bucket
  BY DEF BucketInit, BucketNew, Bucket
<1>2. BucketTypeOK
  <2>1. win \in [start : Nat, open : BOOLEAN, admitted : Nat, regress : Nat]
    BY TokenBucketAssumption DEF BucketInit
  <2>2. shadow \in [capacity : Nat \ {0}, refill : Nat \ {0}, tokens : Int, last_refill : Nat]
    BY <1>1 DEF BucketInit, Bucket
  <2>3. QED
    BY <1>1, <2>1, <2>2 DEF BucketInit, BucketTypeOK, NoStamp
<1>3. BucketInv
  BY DEF BucketInit, BucketInv, BucketNew, NoStamp
<1>4. EnvelopeInv
  BY DEF BucketInit, EnvelopeInv
<1>5. QED
  BY <1>2, <1>3, <1>4 DEF BucketIInv

\* One check preserves the inductive invariant: the heart of the argument.
LEMMA CheckIInv ==
    ASSUME BucketIInv, NEW t \in Threads, Check(t)
    PROVE  BucketIInv'
<1> DEFINE s == stamp[t]
           allowed == BucketAllows(bucket, s)
           taken == IF allowed THEN GRAIN ELSE 0
           el == Elapsed(bucket.last_refill, s)
           back == Elapsed(s, bucket.last_refill)
<1>0. /\ s \in Nat /\ now \in Nat /\ bucket \in Bucket
      /\ bucket.tokens \in Nat /\ bucket.last_refill \in Nat
      /\ bucket.refill = RL.refill /\ bucket.capacity = RL.requests
      /\ win.start \in Nat /\ win.open \in BOOLEAN /\ win.admitted \in Nat /\ win.regress \in Nat
      /\ win \in [start : Nat, open : BOOLEAN, admitted : Nat, regress : Nat]
      /\ s <= now
  BY DEF BucketIInv, BucketTypeOK, BucketInv, Check, Bucket, NoStamp
<1>1. bucket.tokens <= bucket.capacity * GRAIN
  BY DEF BucketIInv, BucketInv
<1>2. /\ bucket' \in Bucket
      /\ bucket'.capacity = RL.requests /\ bucket'.refill = RL.refill
      /\ bucket'.last_refill = s
      /\ bucket'.tokens + taken <= RL.requests * GRAIN
      /\ bucket'.tokens + taken <= bucket.tokens + el * RL.refill
  BY <1>0, <1>1, BucketCheckFields DEF Check
<1>3. /\ win' = [start |-> win.start,
                 open |-> win.open \/ s >= win.start,
                 admitted |-> IF allowed /\ (win.open \/ s >= win.start)
                              THEN win.admitted + 1 ELSE win.admitted,
                 regress |-> IF win.open THEN win.regress + back ELSE win.regress]
  BY <1>0 DEF Check, Observe
<1>4. el \in Nat /\ back \in Nat /\ el - back = s - bucket.last_refill
  BY <1>0 DEF Elapsed
<1>5. taken \in Nat /\ bucket'.tokens \in Nat /\ bucket'.tokens <= RL.requests * GRAIN
  BY <1>2, LimitFields DEF Bucket
<1> HIDE DEF s, allowed, taken, el, back
<1>6. BucketTypeOK'
  <2>1. win' \in [start : Nat, open : BOOLEAN, admitted : Nat, regress : Nat]
    BY <1>0, <1>3, <1>4
  <2>2. shadow' \in [capacity : Nat \ {0}, refill : Nat \ {0}, tokens : Int, last_refill : Nat]
    <3>1. shadow \in [capacity : Nat \ {0}, refill : Nat \ {0}, tokens : Int, last_refill : Nat]
      BY DEF BucketIInv, BucketTypeOK
    <3>2. Elapsed(shadow.last_refill, s) * shadow.refill \in Nat
      <4>1. Elapsed(shadow.last_refill, s) \in Nat
        BY <3>1, <1>0 DEF Elapsed
      <4>2. QED BY <4>1, <3>1
    <3>3. shadow.capacity * GRAIN \in Nat
      BY <3>1, LimitFields
    <3>4. Least(shadow.tokens + Elapsed(shadow.last_refill, s) * shadow.refill,
                shadow.capacity * GRAIN) \in Int
      <4> DEFINE g == Elapsed(shadow.last_refill, s) * shadow.refill
                 f == shadow.capacity * GRAIN
      <4>1. shadow.tokens \in Int
        BY <3>1
      <4>2. g \in Nat /\ f \in Nat
        BY <3>2, <3>3
      <4> HIDE DEF g, f
      <4>3. Least(shadow.tokens + g, f) \in Int
        BY <4>1, <4>2 DEF Least
      <4>4. QED BY <4>3 DEF g, f
    <3>5. \/ shadow' = shadow
          \/ shadow' = [Refilled(shadow, s) EXCEPT !.tokens = @ - GRAIN]
      BY DEF Check, Observe, s
    <3>6. \A x \in Int : [shadow EXCEPT !.tokens = x, !.last_refill = s]
             \in [capacity : Nat \ {0}, refill : Nat \ {0}, tokens : Int, last_refill : Nat]
      BY <3>1, <1>0
    <3>7. Refilled(shadow, s)
             \in [capacity : Nat \ {0}, refill : Nat \ {0}, tokens : Int, last_refill : Nat]
      BY <3>4, <3>6 DEF Refilled
    <3>8. QED BY <3>1, <3>5, <3>7, LimitFields
  <2>3. stamp' \in [Threads -> Nat \cup {NoStamp}]
    BY DEF Check, BucketIInv, BucketTypeOK
  <2>4. now' \in Nat
    BY <1>0 DEF Check
  <2>5. QED BY <2>1, <2>2, <2>3, <2>4, <1>2 DEF BucketTypeOK
<1>7. BucketInv'
  <2>1. \A u \in Threads : stamp'[u] <= now'
    BY <1>0 DEF Check, BucketIInv, BucketInv, BucketTypeOK, NoStamp
  <2>2. win'.admitted > 0 => win'.open
    BY <1>0, <1>3 DEF BucketIInv, BucketInv
  <2>3. bucket'.last_refill <= now'
    BY <1>0, <1>2 DEF Check
  <2>4. QED BY <2>1, <2>2, <2>3, <1>2, <1>5 DEF BucketInv
<1>8. EnvelopeInv'
  <2> SUFFICES ASSUME win'.open
               PROVE  win'.admitted * GRAIN + bucket'.tokens <=
                        RL.requests * GRAIN
                          + RL.refill * ((s - win.start) + win'.regress)
    BY <1>2, <1>3 DEF EnvelopeInv
  <2>1. CASE ~win.open
    <3>1. s >= win.start /\ win.admitted = 0 /\ win'.regress = win.regress
      BY <2>1, <1>0, <1>3 DEF BucketIInv, BucketInv
    <3>2. win'.admitted * GRAIN = taken
      BY <3>1, <2>1, <1>3, LimitFields DEF taken
    <3>3. RL.refill * ((s - win.start) + win.regress) \in Nat
      <4>1. (s - win.start) + win.regress \in Nat
        BY <3>1, <1>0
      <4>2. QED BY <4>1, LimitFields
    <3>4. QED BY <3>1, <3>2, <3>3, <1>2, <1>5, LimitFields
  <2>2. CASE win.open
    <3> DEFINE before == (bucket.last_refill - win.start) + win.regress
               after == (s - win.start) + win'.regress
    <3>1. win.admitted * GRAIN + bucket.tokens <= RL.requests * GRAIN + RL.refill * before
      BY <2>2 DEF BucketIInv, EnvelopeInv
    <3>2. win'.admitted * GRAIN = win.admitted * GRAIN + taken
      <4>1. CASE allowed
        <5>1. win'.admitted = win.admitted + 1 BY <4>1, <2>2, <1>3
        <5>2. taken = GRAIN BY <4>1 DEF taken
        <5>3. QED BY <5>1, <5>2, <1>0, LimitFields
      <4>2. CASE ~allowed
        <5>1. win'.admitted = win.admitted BY <4>2, <1>3
        <5>2. taken = 0 BY <4>2 DEF taken
        <5>3. QED BY <5>1, <5>2, <1>0, LimitFields
      <4>3. QED BY <4>1, <4>2
    <3>3. before \in Int /\ after = before + el
      BY <2>2, <1>0, <1>3, <1>4
    <3>4. RL.refill * after = RL.refill * before + el * RL.refill
      <4> HIDE DEF before, after
      <4> QED BY <3>3, <1>4, LimitFields
    <3>5. win.admitted * GRAIN \in Nat /\ RL.refill * before \in Int /\ el * RL.refill \in Nat
      <4> HIDE DEF before, after
      <4> QED BY <3>3, <1>0, <1>4, LimitFields
    <3>6. win'.admitted * GRAIN + bucket'.tokens <= RL.requests * GRAIN + RL.refill * after
      <4> HIDE DEF before, after
      <4> QED BY <3>1, <3>2, <3>4, <3>5, <1>0, <1>2, <1>5, LimitFields
    <3>7. QED BY <3>6
  <2>3. QED BY <2>1, <2>2
<1>9. QED
  BY <1>6, <1>7, <1>8 DEF BucketIInv

LEMMA BucketNextIInv == BucketIInv /\ [BucketNext]_bucketVars => BucketIInv'
<1> SUFFICES ASSUME BucketIInv, [BucketNext]_bucketVars PROVE BucketIInv'
  OBVIOUS
<1>1. CASE BucketTick
  BY <1>1 DEF BucketTick, BucketIInv, BucketTypeOK, BucketInv, EnvelopeInv, Bucket, NoStamp
<1>2. ASSUME NEW t \in Threads, ReadClock(t) PROVE BucketIInv'
  BY <1>2 DEF ReadClock, BucketIInv, BucketTypeOK, BucketInv, EnvelopeInv, NoStamp
<1>3. ASSUME NEW t \in Threads, Check(t) PROVE BucketIInv'
  BY <1>3, CheckIInv
<1>4. CASE UNCHANGED bucketVars
  BY <1>4 DEF bucketVars, BucketIInv, BucketTypeOK, BucketInv, EnvelopeInv
<1>5. QED
  BY <1>1, <1>2, <1>3, <1>4 DEF BucketNext

\* The inductive invariant implies the bound: the bucket's tokens are not
\* negative and it has not seen a reading beyond the clock.
LEMMA IInvEnvelope == BucketIInv => AdmissionEnvelope
<1> SUFFICES ASSUME BucketIInv, win.open
             PROVE  win.admitted * GRAIN <=
                      RL.requests * GRAIN + RL.refill * ((now - win.start) + win.regress)
  BY DEF AdmissionEnvelope
<1> DEFINE old == (bucket.last_refill - win.start) + win.regress
           new == (now - win.start) + win.regress
<1>1. /\ bucket.tokens \in Nat /\ bucket.last_refill \in Nat /\ now \in Nat
      /\ win.start \in Nat /\ win.admitted \in Nat /\ win.regress \in Nat
      /\ bucket.last_refill <= now
  BY DEF BucketIInv, BucketTypeOK, BucketInv, Bucket
<1>2. win.admitted * GRAIN + bucket.tokens <= RL.requests * GRAIN + RL.refill * old
  BY DEF BucketIInv, EnvelopeInv
<1>3. old \in Int /\ new - old \in Nat /\ new = old + (now - bucket.last_refill)
  BY <1>1
<1> HIDE DEF old, new
<1>4. RL.refill * new = RL.refill * old + RL.refill * (new - old)
  BY <1>1, <1>3, LimitFields
<1>5. RL.refill * (new - old) \in Nat /\ RL.refill * old \in Int /\ win.admitted * GRAIN \in Nat
  BY <1>1, <1>3, LimitFields
<1>6. win.admitted * GRAIN <= RL.requests * GRAIN + RL.refill * new
  BY <1>1, <1>2, <1>4, <1>5, LimitFields
<1>7. QED
  BY <1>6 DEF new

\* Every reachable state satisfies the inductive invariant.
THEOREM BucketInductive == BucketSpec => []BucketIInv
BY BucketInitIInv, BucketNextIInv, PTL DEF BucketSpec

\* The rate limiter keeps its type whatever the limit and the interleaving of
\* clock readings and checks.
THEOREM BucketTypeCorrect == BucketSpec => []BucketTypeOK
<1>1. BucketIInv => BucketTypeOK
  BY DEF BucketIInv
<1>2. QED
  BY <1>1, BucketInductive, PTL

\* RateLimiter::check admits at most `requests' plus what a window refills,
\* plus what clock readings out of order refill twice.
THEOREM EnvelopeHolds == BucketSpec => []AdmissionEnvelope
BY BucketInductive, IInvEnvelope, PTL
-----------------------------------------------------------------------------
(* The budget window *)

LEMMA ConstantFields ==
    /\ MaxCost \in Nat
    /\ BudgetCfg.max \in Nat \ {0} /\ BudgetCfg.per \in Nat \ {0}
    /\ IsFiniteSet(Requests) /\ Cardinality(Requests) \in Nat
BY KeyBudgetAssumption, FS_CardinalityType DEF Budget

\* What every window operation does: the two fields it writes.
Put(w, sp, st) == [w EXCEPT !.start = st, !.spent = sp]

\* An elapsed window is forgotten and any other is left alone.
LEMMA MaybeResetFields ==
    ASSUME NEW w \in Window, NEW t \in Nat
    PROVE  /\ MaybeReset(w, t) \in Window
           /\ MaybeReset(w, t).max = w.max
           /\ MaybeReset(w, t).per = w.per
           /\ MaybeReset(w, t).spent <= w.spent
           /\ (w.spent > 0 => w.start # NotStarted)
                 => (MaybeReset(w, t).spent > 0 => MaybeReset(w, t).start # NotStarted)
<1>0. w.spent \in Nat /\ NotStarted \in Nat \cup {NotStarted} /\ 0 \in Nat
  BY DEF Window
<1>1. CASE w.start # NotStarted /\ Elapsed(w.start, t) >= w.per
  <2> DEFINE m == Put(w, 0, NotStarted)
  <2>1. MaybeReset(w, t) = m
    BY <1>1 DEF MaybeReset, Put
  <2>2. /\ m \in Window /\ m.max = w.max /\ m.per = w.per /\ m.spent = 0
    BY DEF Put, Window, NotStarted
  <2> HIDE DEF m
  <2>3. QED
    BY <2>1, <2>2, <1>0
<1>2. CASE ~(w.start # NotStarted /\ Elapsed(w.start, t) >= w.per)
  <2>1. MaybeReset(w, t) = w
    BY <1>2 DEF MaybeReset
  <2>2. QED
    BY <2>1, <1>0
<1>3. QED
  BY <1>1, <1>2

\* A charge adds to what an elapsed window leaves, and starts a window.
LEMMA WindowRecordFields ==
    ASSUME NEW w \in Window, NEW c \in Nat, NEW t \in Nat
    PROVE  /\ WindowRecord(w, c, t) \in Window
           /\ WindowRecord(w, c, t).max = w.max
           /\ WindowRecord(w, c, t).per = w.per
           /\ WindowRecord(w, c, t).spent <= w.spent + c
           /\ (w.spent > 0 => w.start # NotStarted)
                 => (WindowRecord(w, c, t).spent > 0 => WindowRecord(w, c, t).start # NotStarted)
<1> DEFINE m == MaybeReset(w, t)
           st == IF m.start = NotStarted /\ c > 0 THEN t ELSE m.start
<1>1. /\ m \in Window /\ m.max = w.max /\ m.per = w.per /\ m.spent <= w.spent
      /\ (w.spent > 0 => w.start # NotStarted) => (m.spent > 0 => m.start # NotStarted)
  BY MaybeResetFields
<1>2. WindowRecord(w, c, t) = [m EXCEPT !.start = st, !.spent = m.spent + c]
  BY DEF WindowRecord
<1> HIDE DEF m
<1>3. /\ m.spent \in Nat /\ w.spent \in Nat
      /\ m.start \in Nat \cup {NotStarted}
      /\ st \in Nat \cup {NotStarted}
  BY <1>1 DEF Window
<1>4. st # NotStarted \/ (st = m.start /\ c = 0)
  BY DEF NotStarted
<1> HIDE DEF st
<1> DEFINE n == Put(m, m.spent + c, st)
<1>5. m.spent + c \in Nat
  BY <1>3
<1>6. n \in Window /\ n.max = m.max /\ n.per = m.per /\ n.spent = m.spent + c /\ n.start = st
  BY <1>1, <1>3, <1>5 DEF Put, Window
<1> HIDE DEF n
<1>7. WindowRecord(w, c, t) = n
  BY <1>2 DEF n, Put
<1>8. QED
  BY <1>1, <1>3, <1>4, <1>6, <1>7

LEMMA InFlightFinite ==
    /\ IsFiniteSet(InFlight)
    /\ Cardinality(InFlight) \in Nat
    /\ Cardinality(InFlight) <= Cardinality(Requests)
BY ConstantFields, FS_Subset, FS_CardinalityType DEF InFlight

LEMMA BudgetInitIInv == BudgetInit => BudgetIInv
<1> SUFFICES ASSUME BudgetInit PROVE BudgetIInv
  OBVIOUS
<1> USE ConstantFields
<1>1. window \in Window /\ window.max = BudgetCfg.max /\ window.spent = 0
  BY DEF BudgetInit, WindowNew, Window, NotStarted
<1>2. BudgetTypeOK
  BY <1>1, KeyBudgetAssumption DEF BudgetInit, BudgetTypeOK, Slot, Idle, SlotPhases
<1>3. InFlight = {}
  BY DEF BudgetInit, InFlight, Idle
<1>4. MaxCost * Cardinality(InFlight) = 0
  BY <1>3, FS_EmptySet
<1>5. MaxCost * Cardinality(Requests) \in Nat
  OBVIOUS
<1>6. OvershootInv
  BY <1>1, <1>4, <1>5 DEF OvershootInv
<1>7. QED
  BY <1>1, <1>2, <1>6 DEF BudgetIInv, SpendHasWindow

\* The request is admitted on spend below the maximum: with every other slot
\* in flight, one maximum cost each is all that can still be added.
LEMMA CheckBudgetIInv ==
    ASSUME BudgetIInv, NEW r \in Requests, CheckBudget(r)
    PROVE  BudgetIInv'
<1> USE ConstantFields
<1> DEFINE s == req[r].stamp
<1>1. /\ s \in Nat /\ req[r] \in Slot /\ window \in Window
      /\ req \in [Requests -> Slot] /\ window.max = BudgetCfg.max
  BY DEF BudgetIInv, BudgetTypeOK, Slot
<1>2. /\ window' \in Window /\ window'.max = BudgetCfg.max
      /\ window'.spent <= window.spent
      /\ window'.spent > 0 => window'.start # NotStarted
  BY <1>1, MaybeResetFields DEF CheckBudget, BudgetIInv, SpendHasWindow
<1>3. window'.spent \in Nat /\ window.spent \in Nat
  BY <1>1, <1>2 DEF Window
<1>4. [req[r] EXCEPT !.phase = "admitted"] \in Slot /\ Idle \in Slot
  BY <1>1 DEF Slot, SlotPhases, Idle
<1>5. BudgetTypeOK'
  BY <1>1, <1>2, <1>4 DEF CheckBudget, BudgetIInv, BudgetTypeOK
<1>6. OvershootInv'
  <2>0. /\ Cardinality(InFlight) \in Nat /\ MaxCost * Cardinality(InFlight) \in Nat
        /\ MaxCost * Cardinality(Requests) \in Nat
    BY InFlightFinite
  <2>1. CASE WindowAllows(window, s)
    <3>1. window'.spent <= window'.max - 1
      BY <2>1, <1>2, <1>3, <1>1 DEF WindowAllows, CheckBudget
    <3>2. InFlight' \subseteq Requests
      BY DEF InFlight
    <3>3. /\ Cardinality(InFlight') \in Nat
          /\ Cardinality(InFlight') <= Cardinality(Requests)
      BY <3>2, FS_Subset, FS_CardinalityType
    <3>4. MaxCost * Cardinality(InFlight') <= MaxCost * Cardinality(Requests)
      <4>1. ASSUME NEW i \in Nat, NEW j \in Nat, i <= j
            PROVE  MaxCost * i <= MaxCost * j
        <5>1. j - i \in Nat /\ j = i + (j - i)
          BY <4>1
        <5>2. MaxCost * j = MaxCost * i + MaxCost * (j - i)
          BY <5>1
        <5>3. MaxCost * (j - i) \in Nat
          BY <5>1
        <5>4. QED BY <5>2, <5>3
      <4>2. QED BY <4>1, <3>3
    <3>5. MaxCost * Cardinality(InFlight') \in Nat
      BY <3>3
    <3>6. QED
      BY <3>1, <3>4, <3>5, <2>0, <1>2, <1>3 DEF OvershootInv
  <2>2. CASE ~WindowAllows(window, s)
    <3>1. InFlight' = InFlight
      BY <2>2, <1>1 DEF CheckBudget, InFlight, Idle
    <3>2. QED
      BY <3>1, <2>0, <1>1, <1>2, <1>3 DEF BudgetIInv, OvershootInv
  <2>3. QED BY <2>1, <2>2
<1>7. QED
  BY <1>2, <1>5, <1>6 DEF BudgetIInv, SpendHasWindow

\* A slot leaves the requests in flight.
LEMMA LeaveInFlight ==
    ASSUME NEW r \in InFlight
    PROVE  /\ Cardinality(InFlight \ {r}) \in Nat
           /\ MaxCost * Cardinality(InFlight) = MaxCost * Cardinality(InFlight \ {r}) + MaxCost
<1>1. /\ Cardinality(InFlight \ {r}) = Cardinality(InFlight) - 1
      /\ Cardinality(InFlight \ {r}) \in Nat
  BY InFlightFinite, FS_RemoveElement, FS_CardinalityType
<1>2. QED
  BY <1>1, InFlightFinite, ConstantFields

\* A charge moves one maximum cost at most from `in flight' to `spent'.
LEMMA RecordIInv ==
    ASSUME BudgetIInv, NEW r \in Requests, Record(r)
    PROVE  BudgetIInv'
<1> USE ConstantFields
<1> DEFINE s == req[r].stamp
           c == req[r].cost
<1>1. /\ s \in Nat /\ c \in Nat /\ c <= MaxCost /\ window \in Window
      /\ req \in [Requests -> Slot] /\ window.max = BudgetCfg.max
      /\ time \in Nat
  BY DEF BudgetIInv, BudgetTypeOK, Slot
<1>2. /\ window' \in Window /\ window'.max = BudgetCfg.max
      /\ window'.spent <= window.spent + c
      /\ window'.spent > 0 => window'.start # NotStarted
  <2> HIDE DEF s, c
  <2> DEFINE n == WindowRecord(window, c, s)
  <2>1. /\ n \in Window /\ n.max = window.max
        /\ n.spent <= window.spent + c
        /\ (window.spent > 0 => window.start # NotStarted) => (n.spent > 0 => n.start # NotStarted)
    BY <1>1, WindowRecordFields, ZenonT(60)
  <2>2. window' = n
    BY DEF Record, s, c
  <2> HIDE DEF n
  <2>3. QED
    BY <1>1, <2>1, <2>2 DEF BudgetIInv, SpendHasWindow
<1>3. window'.spent \in Nat /\ window.spent \in Nat
  BY <1>1, <1>2 DEF Window
<1>4. BudgetTypeOK'
  <2>1. req' \in [Requests -> Slot]
    BY <1>1 DEF Record, Slot, Idle, SlotPhases
  <2>2. QED BY <1>1, <1>2, <2>1 DEF Record, BudgetTypeOK
<1>5. OvershootInv'
  <2>1. r \in InFlight
    BY DEF Record, InFlight
  <2>2. InFlight' = InFlight \ {r}
    BY <1>1 DEF Record, InFlight, Idle
  <2>3. /\ Cardinality(InFlight \ {r}) \in Nat
        /\ MaxCost * Cardinality(InFlight) = MaxCost * Cardinality(InFlight \ {r}) + MaxCost
    BY <2>1, LeaveInFlight
  <2>4. /\ MaxCost * Cardinality(InFlight \ {r}) \in Nat
        /\ MaxCost * Cardinality(Requests) \in Nat
    BY <2>3
  <2>5. window.spent + MaxCost * Cardinality(InFlight) <=
          (window.max - 1) + MaxCost * Cardinality(Requests)
    BY DEF BudgetIInv, OvershootInv
  <2>6. QED
    BY <2>2, <2>3, <2>4, <2>5, <1>1, <1>2, <1>3 DEF OvershootInv
<1>6. QED
  BY <1>2, <1>4, <1>5 DEF BudgetIInv, SpendHasWindow

\* The other steps leave the window alone and admit no request.
LEMMA QuietIInv ==
    ASSUME BudgetIInv, UNCHANGED window, BudgetTypeOK', InFlight' \subseteq InFlight
    PROVE  BudgetIInv'
<1>1. /\ Cardinality(InFlight) \in Nat /\ Cardinality(InFlight') \in Nat
      /\ Cardinality(InFlight') <= Cardinality(InFlight)
  BY InFlightFinite, FS_Subset, FS_CardinalityType
<1>2. MaxCost * Cardinality(InFlight') <= MaxCost * Cardinality(InFlight)
  <2>1. ASSUME NEW i \in Nat, NEW j \in Nat, i <= j
        PROVE  MaxCost * i <= MaxCost * j
    <3>1. j - i \in Nat /\ j = i + (j - i)
      BY <2>1
    <3>2. MaxCost * j = MaxCost * i + MaxCost * (j - i)
      BY <3>1, ConstantFields
    <3>3. MaxCost * (j - i) \in Nat /\ MaxCost * i \in Nat
      BY <3>1, ConstantFields
    <3>4. QED BY <3>2, <3>3
  <2>2. QED BY <2>1, <1>1
<1>3. /\ MaxCost * Cardinality(InFlight') \in Nat /\ MaxCost * Cardinality(InFlight) \in Nat
      /\ MaxCost * Cardinality(Requests) \in Nat
      /\ window.spent \in Nat /\ window.max \in Nat
  BY <1>1, ConstantFields DEF BudgetIInv, BudgetTypeOK, Window
<1>4. OvershootInv'
  BY <1>2, <1>3 DEF BudgetIInv, OvershootInv
<1>5. QED
  BY <1>4 DEF BudgetIInv, SpendHasWindow

LEMMA BudgetNextIInv == BudgetIInv /\ [BudgetNext]_budgetVars => BudgetIInv'
<1> SUFFICES ASSUME BudgetIInv, [BudgetNext]_budgetVars PROVE BudgetIInv'
  OBVIOUS
<1> USE ConstantFields
<1>1. CASE BudgetTick
  <2>1. BudgetTypeOK' BY <1>1 DEF BudgetTick, BudgetIInv, BudgetTypeOK
  <2>2. InFlight' \subseteq InFlight BY <1>1 DEF BudgetTick, InFlight
  <2>3. QED BY <1>1, <2>1, <2>2, QuietIInv DEF BudgetTick
<1>2. ASSUME NEW r \in Requests, Arrive(r) PROVE BudgetIInv'
  <2>1. BudgetTypeOK' BY <1>2 DEF Arrive, BudgetIInv, BudgetTypeOK, Slot, SlotPhases
  <2>2. InFlight' \subseteq InFlight BY <1>2 DEF Arrive, InFlight, BudgetIInv, BudgetTypeOK
  <2>3. QED BY <1>2, <2>1, <2>2, QuietIInv DEF Arrive
<1>3. ASSUME NEW r \in Requests, CheckBudget(r) PROVE BudgetIInv'
  BY <1>3, CheckBudgetIInv
<1>4. ASSUME NEW r \in Requests, EndUncharged(r) PROVE BudgetIInv'
  <2>1. BudgetTypeOK' BY <1>4 DEF EndUncharged, BudgetIInv, BudgetTypeOK, Slot, SlotPhases, Idle
  <2>2. InFlight' \subseteq InFlight BY <1>4 DEF EndUncharged, InFlight, BudgetIInv, BudgetTypeOK, Idle
  <2>3. QED BY <1>4, <2>1, <2>2, QuietIInv DEF EndUncharged
<1>5. ASSUME NEW r \in Requests, KnowCost(r) PROVE BudgetIInv'
  <2>1. BudgetTypeOK' BY <1>5 DEF KnowCost, BudgetIInv, BudgetTypeOK, Slot, SlotPhases
  <2>2. InFlight' \subseteq InFlight BY <1>5 DEF KnowCost, InFlight, BudgetIInv, BudgetTypeOK
  <2>3. QED BY <1>5, <2>1, <2>2, QuietIInv DEF KnowCost
<1>6. ASSUME NEW r \in Requests, Record(r) PROVE BudgetIInv'
  BY <1>6, RecordIInv
<1>7. CASE UNCHANGED budgetVars
  <2>1. BudgetTypeOK' BY <1>7 DEF budgetVars, BudgetIInv, BudgetTypeOK
  <2>2. InFlight' \subseteq InFlight BY <1>7 DEF budgetVars, InFlight
  <2>3. QED BY <1>7, <2>1, <2>2, QuietIInv DEF budgetVars
<1>8. QED
  BY <1>1, <1>2, <1>3, <1>4, <1>5, <1>6, <1>7 DEF BudgetNext

\* Every reachable state satisfies the inductive invariant; with it, spend
\* never outlives a window (SpendHasWindow).
THEOREM BudgetInductive == BudgetSpec => []BudgetIInv
BY BudgetInitIInv, BudgetNextIInv, PTL DEF BudgetSpec

\* The budget keeps its type under every interleaving of checks and charges.
THEOREM BudgetTypeCorrect == BudgetSpec => []BudgetTypeOK
<1>1. BudgetIInv => BudgetTypeOK
  BY DEF BudgetIInv
<1>2. QED
  BY <1>1, BudgetInductive, PTL

\* BudgetTracker's check-then-record overruns a budget by at most one maximum
\* cost per concurrent request.
THEOREM OvershootHolds == BudgetSpec => []OvershootBound
<1>1. BudgetIInv => OvershootBound
  <2> SUFFICES ASSUME BudgetIInv PROVE OvershootBound
    OBVIOUS
  <2>2. /\ MaxCost * Cardinality(InFlight) \in Nat /\ MaxCost * Cardinality(Requests) \in Nat
        /\ window.spent \in Nat /\ window.max \in Nat
    BY InFlightFinite, ConstantFields DEF BudgetIInv, BudgetTypeOK, Window
  <2>3. QED
    BY <2>2 DEF BudgetIInv, OvershootInv, OvershootBound
<1>2. QED
  BY <1>1, BudgetInductive, PTL
-----------------------------------------------------------------------------
(* Refusals *)

\* The quotient rounded up: enough of b to cover a, and one less is not.
LEMMA CeilDivBounds ==
    ASSUME NEW a \in Nat \ {0}, NEW b \in Nat \ {0}
    PROVE  /\ CeilDiv(a, b) \in Nat \ {0}
           /\ CeilDiv(a, b) * b >= a
           /\ (CeilDiv(a, b) - 1) * b < a
<1> DEFINE n == a + b - 1
           q == n \div b
           m == n % b
<1>1. n \in Nat
  OBVIOUS
<1>2. q \in Int /\ m \in 0 .. b - 1 /\ n = b * q + m
  BY <1>1
<1> HIDE DEF q, m
<1>3. b * q >= a /\ b * q - b < a
  <2>1. b * q \in Int
    BY <1>2
  <2>2. QED
    BY <1>2, <2>1
<1>4. q >= 1
  <2>1. CASE q <= 0
    <3>1. -q \in Nat
      BY <1>2, <2>1
    <3>2. b * (-q) \in Nat /\ b * (-q) = -(b * q)
      BY <1>2, <3>1
    <3>3. QED
      BY <1>2, <1>3, <3>2
  <2>2. QED
    BY <1>2, <2>1
<1>5. q * b = b * q /\ (q - 1) * b = b * q - b
  BY <1>2
<1>6. CeilDiv(a, b) = q
  BY DEF CeilDiv, q
<1>7. QED
  BY <1>2, <1>3, <1>4, <1>5, <1>6

\* The tokens a bucket would hold at time t.
Held(b, t) == Least(b.tokens + Elapsed(b.last_refill, t) * b.refill, b.capacity * GRAIN)

LEMMA RefilledIsHeld ==
    ASSUME NEW b \in [capacity : Nat \ {0}, refill : Nat \ {0}, tokens : Int, last_refill : Nat],
           NEW t \in Nat
    PROVE  /\ Refilled(b, t).tokens = Held(b, t)
           /\ Refilled(b, t).last_refill = t
           /\ Refilled(b, t).refill = b.refill /\ Refilled(b, t).capacity = b.capacity
           /\ Elapsed(b.last_refill, t) \in Nat
           /\ Elapsed(b.last_refill, t) * b.refill \in Nat
           /\ b.capacity * GRAIN \in Nat
           /\ Held(b, t) \in Int
<1>1. Elapsed(b.last_refill, t) \in Nat
  BY DEF Elapsed
<1>2. Elapsed(b.last_refill, t) * b.refill \in Nat /\ b.capacity * GRAIN \in Nat
  BY <1>1, LimitFields
<1>3. Refilled(b, t).tokens = Held(b, t)
  BY DEF Refilled, Held
<1>4. \A x, y \in Int : Least(x, y) \in Int
  BY DEF Least
<1>5. Held(b, t) \in Int
  BY <1>2, <1>4 DEF Held
<1>6. QED
  BY <1>1, <1>2, <1>3, <1>5 DEF Refilled

\* A bucket that is refilled on the way to t holds at t no less.
LEMMA RefillOnTheWay ==
    ASSUME NEW b \in Bucket, NEW s \in Nat, NEW t \in Nat
    PROVE  Held(Refilled(b, s), t) >= Held(b, t)
<1>0. b \in [capacity : Nat \ {0}, refill : Nat \ {0}, tokens : Int, last_refill : Nat]
  BY DEF Bucket
<1> DEFINE e1 == Elapsed(b.last_refill, s)
           e2 == Elapsed(s, t)
           e  == Elapsed(b.last_refill, t)
           C  == b.capacity * GRAIN
<1>1. b.last_refill \in Nat /\ b.refill \in Nat /\ b.tokens \in Int
  BY <1>0
<1>2. e1 \in Nat /\ e2 \in Nat /\ e \in Nat /\ e <= e1 + e2
  BY <1>1 DEF Elapsed
<1> HIDE DEF e1, e2, e
<1>3. /\ e1 * b.refill \in Nat /\ e2 * b.refill \in Nat /\ e * b.refill \in Nat
      /\ e * b.refill <= e1 * b.refill + e2 * b.refill
  <2>1. (e1 + e2) - e \in Nat
    BY <1>2
  <2>2. ((e1 + e2) - e) * b.refill \in Nat
    BY <2>1, <1>1
  <2>3. ((e1 + e2) - e) * b.refill = (e1 * b.refill + e2 * b.refill) - e * b.refill
    BY <1>1, <1>2
  <2>4. e1 * b.refill \in Nat /\ e2 * b.refill \in Nat /\ e * b.refill \in Nat
    BY <1>1, <1>2
  <2>5. QED
    BY <2>2, <2>3, <2>4
<1>4. C \in Nat
  BY <1>0, LimitFields
<1> HIDE DEF C
<1>5. Least(Least(b.tokens + e1 * b.refill, C) + e2 * b.refill, C) >= Least(b.tokens + e * b.refill, C)
  <2> DEFINE p == e1 * b.refill
             q == e2 * b.refill
             r == e * b.refill
  <2>1. p \in Nat /\ q \in Nat /\ r \in Nat /\ r <= p + q
    BY <1>3
  <2> HIDE DEF p, q, r
  <2>2. Least(Least(b.tokens + p, C) + q, C) >= Least(b.tokens + r, C)
    BY <1>1, <1>4, <2>1 DEF Least
  <2>3. QED
    BY <2>2 DEF p, q, r
<1>6. Held(b, t) = Least(b.tokens + e * b.refill, C)
  BY DEF Held, e, C
<1>7. Held(Refilled(b, s), t) = Least(Held(b, s) + e2 * b.refill, C)
  BY <1>0, RefilledIsHeld DEF Held, e2, C
<1>8. Held(b, s) = Least(b.tokens + e1 * b.refill, C)
  BY DEF Held, e1, C
<1>9. QED
  BY <1>5, <1>6, <1>7, <1>8

\* The bucket as it is holds at every time at least what the bucket without the
\* refused calls would hold.
ShadowInv ==
    /\ shadow.capacity = RL.requests /\ shadow.refill = RL.refill
    /\ \A t \in Nat : Held(bucket, t) >= Held(shadow, t)

LEMMA ShadowInit == BucketInit => ShadowInv
<1> SUFFICES ASSUME BucketInit PROVE ShadowInv
  OBVIOUS
<1>1. BucketTypeOK
  BY BucketInitIInv DEF BucketIInv
<1>2. shadow = bucket /\ shadow.capacity = RL.requests /\ shadow.refill = RL.refill
  BY DEF BucketInit, BucketNew
<1>3. ASSUME NEW t \in Nat PROVE Held(bucket, t) >= Held(shadow, t)
  <2>1. Held(shadow, t) \in Int
    BY <1>1, RefilledIsHeld DEF BucketTypeOK
  <2>2. QED
    BY <1>2, <2>1
<1>4. QED
  BY <1>2, <1>3 DEF ShadowInv

LEMMA ShadowCheck ==
    ASSUME BucketIInv, ShadowInv, NEW c \in Threads, Check(c)
    PROVE  ShadowInv'
<1> DEFINE s == stamp[c]
           Shape == [capacity : Nat \ {0}, refill : Nat \ {0}, tokens : Int, last_refill : Nat]
<1>1. /\ s \in Nat /\ bucket \in Bucket /\ bucket \in Shape /\ shadow \in Shape
      /\ bucket.capacity = RL.requests /\ bucket.refill = RL.refill
      /\ shadow.capacity = RL.requests /\ shadow.refill = RL.refill
  BY DEF BucketIInv, BucketTypeOK, BucketInv, Check, Bucket, NoStamp, ShadowInv
<1>2. /\ bucket' = BucketCheck(bucket, s)
      /\ shadow' = IF BucketAllows(bucket, s)
                   THEN [Refilled(shadow, s) EXCEPT !.tokens = @ - GRAIN] ELSE shadow
  BY DEF Check, Observe
<1> HIDE DEF s
<1>3. /\ Refilled(bucket, s).tokens = Held(bucket, s) /\ Refilled(bucket, s).last_refill = s
      /\ Refilled(bucket, s).refill = RL.refill /\ Refilled(bucket, s).capacity = RL.requests
      /\ Refilled(shadow, s).tokens = Held(shadow, s) /\ Refilled(shadow, s).last_refill = s
      /\ Refilled(shadow, s).refill = RL.refill /\ Refilled(shadow, s).capacity = RL.requests
      /\ Held(bucket, s) \in Int /\ Held(shadow, s) \in Int
      /\ Held(bucket, s) >= Held(shadow, s)
  BY <1>1, RefilledIsHeld DEF ShadowInv
<1>4. CASE BucketAllows(bucket, s)
  <2>1. /\ bucket' = [Refilled(bucket, s) EXCEPT !.tokens = @ - GRAIN]
        /\ shadow' = [Refilled(shadow, s) EXCEPT !.tokens = @ - GRAIN]
    BY <1>2, <1>4 DEF BucketCheck, BucketAllows
  <2>2. /\ bucket'.tokens = Held(bucket, s) - GRAIN /\ bucket'.last_refill = s
        /\ bucket'.refill = RL.refill /\ bucket'.capacity = RL.requests
        /\ shadow'.tokens = Held(shadow, s) - GRAIN /\ shadow'.last_refill = s
        /\ shadow'.refill = RL.refill /\ shadow'.capacity = RL.requests
    BY <2>1, <1>3 DEF Refilled, Bucket
  <2>3. ASSUME NEW t \in Nat PROVE Held(bucket', t) >= Held(shadow', t)
    <3> DEFINE g == Elapsed(s, t) * RL.refill
               C == RL.requests * GRAIN
    <3>1. g \in Nat
      <4>1. Elapsed(s, t) \in Nat
        BY <1>1 DEF Elapsed
      <4>2. QED
        BY <4>1, LimitFields
    <3>2. C \in Nat
      BY LimitFields
    <3>3. Held(bucket', t) = Least((Held(bucket, s) - GRAIN) + g, C)
      BY <2>2 DEF Held
    <3>4. Held(shadow', t) = Least((Held(shadow, s) - GRAIN) + g, C)
      BY <2>2 DEF Held
    <3> HIDE DEF g, C
    <3>5. \A x, y, k \in Int : x >= y => Least(x, k) >= Least(y, k)
      BY DEF Least
    <3>6. QED
      BY <1>3, <3>1, <3>2, <3>3, <3>4, <3>5, LimitFields
  <2>4. QED
    BY <2>2, <2>3 DEF ShadowInv
<1>5. CASE ~BucketAllows(bucket, s)
  <2>1. bucket' = Refilled(bucket, s) /\ shadow' = shadow
    BY <1>2, <1>5 DEF BucketCheck, BucketAllows
  <2>2. ASSUME NEW t \in Nat PROVE Held(bucket', t) >= Held(shadow, t)
    <3>1. Held(bucket', t) >= Held(bucket, t)
      BY <1>1, <2>1, RefillOnTheWay
    <3>2. Held(bucket, t) >= Held(shadow, t)
      BY DEF ShadowInv
    <3>3. Held(bucket, t) \in Int /\ Held(shadow, t) \in Int
      BY <1>1, RefilledIsHeld
    <3>4. Held(bucket', t) \in Int
      <4>1. bucket' \in Bucket
        BY <1>1, <1>2, BucketCheckFields DEF BucketIInv, BucketInv
      <4>2. QED
        BY <4>1, RefilledIsHeld DEF Bucket
    <3>5. QED
      BY <3>1, <3>2, <3>3, <3>4
  <2>3. QED
    BY <1>1, <2>1, <2>2 DEF ShadowInv
<1>6. QED
  BY <1>4, <1>5

LEMMA ShadowNext == BucketIInv /\ ShadowInv /\ [BucketNext]_bucketVars => ShadowInv'
<1> SUFFICES ASSUME BucketIInv, ShadowInv, [BucketNext]_bucketVars PROVE ShadowInv'
  OBVIOUS
<1>1. CASE UNCHANGED <<bucket, shadow>>
  BY <1>1 DEF ShadowInv
<1>2. ASSUME NEW c \in Threads, Check(c) PROVE ShadowInv'
  BY <1>2, ShadowCheck
<1>3. QED
  BY <1>1, <1>2 DEF BucketNext, BucketTick, ReadClock, bucketVars

\* At a reading of the clock, not only at every time.
LEMMA ShadowIsFree == BucketIInv /\ ShadowInv => RefusalsAreFree
<1> SUFFICES ASSUME BucketIInv, ShadowInv PROVE RefusalsAreFree
  OBVIOUS
<1>1. now \in Nat /\ Held(bucket, now) >= Held(shadow, now)
  BY DEF BucketIInv, BucketTypeOK, ShadowInv
<1>2. Refilled(bucket, now).tokens = Held(bucket, now)
  BY <1>1, RefilledIsHeld DEF BucketIInv, BucketTypeOK, Bucket
<1>3. Refilled(shadow, now).tokens = Held(shadow, now)
  BY <1>1, RefilledIsHeld DEF BucketIInv, BucketTypeOK
<1>4. QED
  BY <1>1, <1>2, <1>3 DEF RefusalsAreFree

\* Whoever is refused by a bucket and waits what it is told, and not a second less,
\* finds a token.
LEMMA WaitSuffices ==
    ASSUME NEW b \in Bucket, NEW at \in Nat, b.last_refill <= at, ~BucketAllows(b, at)
    PROVE  LET wait == BucketRetryAfter(b, at)
           IN /\ wait \in Nat \ {0}
              /\ BucketAllows(b, at + wait * TICKS)
              /\ ~BucketAllows(b, at + (wait - 1) * TICKS)
<1> DEFINE T(t) == b.tokens + (t - b.last_refill) * b.refill
           C    == b.capacity * GRAIN
           miss == GRAIN - Held(b, at)
           step == b.refill * TICKS
           wait == CeilDiv(miss, step)
<1>1. /\ b \in [capacity : Nat \ {0}, refill : Nat \ {0}, tokens : Int, last_refill : Nat]
      /\ b.tokens \in Nat /\ b.last_refill \in Nat /\ b.refill \in Nat \ {0}
      /\ b.capacity \in Nat \ {0} /\ at \in Nat /\ b.last_refill <= at
      /\ TICKS \in Nat \ {0} /\ GRAIN \in Nat \ {0}
  BY UnitsAssumption DEF Bucket
<1>2. C \in Nat /\ C >= GRAIN
  <2>1. b.capacity - 1 \in Nat
    BY <1>1
  <2>2. (b.capacity - 1) * GRAIN \in Nat
    BY <1>1, <2>1
  <2>3. b.capacity * GRAIN = (b.capacity - 1) * GRAIN + GRAIN
    BY <1>1
  <2>4. QED
    BY <1>1, <2>2, <2>3
<1>3. ASSUME NEW t \in Nat, t >= at
      PROVE  Held(b, t) = Least(T(t), C) /\ T(t) \in Nat
  <2>1. Elapsed(b.last_refill, t) = t - b.last_refill
    BY <1>1, <1>3 DEF Elapsed
  <2>2. t - b.last_refill \in Nat
    BY <1>1, <1>3
  <2>3. (t - b.last_refill) * b.refill \in Nat
    BY <1>1, <2>2
  <2>4. QED
    BY <1>1, <2>1, <2>3 DEF Held
<1> HIDE DEF C
<1>4. ASSUME NEW t \in Nat, t >= at
      PROVE  BucketAllows(b, t) <=> T(t) >= GRAIN
  <2>1. BucketAllows(b, t) <=> Least(T(t), C) >= GRAIN
    BY <1>1, <1>3, <1>4, RefilledIsHeld DEF BucketAllows
  <2>2. T(t) \in Nat
    BY <1>3, <1>4
  <2> HIDE DEF T
  <2>3. QED
    BY <1>1, <1>2, <2>1, <2>2 DEF Least
<1>5. T(at) \in Nat /\ T(at) < GRAIN /\ miss = GRAIN - T(at)
  <2>1. T(at) \in Nat /\ Held(b, at) = Least(T(at), C)
    BY <1>1, <1>3
  <2>2. ~(T(at) >= GRAIN)
    BY <1>1, <1>4
  <2> HIDE DEF T
  <2>3. QED
    BY <1>1, <1>2, <2>1, <2>2 DEF Least
<1> HIDE DEF miss
<1>6. miss \in Nat \ {0} /\ step \in Nat \ {0}
  <2>1. miss \in Nat \ {0}
    <3> HIDE DEF T
    <3> QED BY <1>1, <1>5
  <2>2. step \in Nat \ {0}
    <3>1. b.refill * TICKS = 0 => b.refill = 0 \/ TICKS = 0
      BY <1>1
    <3>2. QED
      BY <1>1, <3>1
  <2>3. QED
    BY <2>1, <2>2
<1> HIDE DEF step
<1>7. wait \in Nat \ {0} /\ wait * step >= miss /\ (wait - 1) * step < miss
  BY <1>6, CeilDivBounds
<1> HIDE DEF wait
<1>8. ASSUME NEW n \in Nat
      PROVE  /\ n * TICKS \in Nat /\ n * step \in Nat
             /\ T(at + n * TICKS) = T(at) + n * step
  <2>1. n * TICKS \in Nat /\ n * step \in Nat
    BY <1>1, <1>6
  <2>2. n * step = (n * TICKS) * b.refill
    BY <1>1 DEF step
  <2> DEFINE k == n * TICKS
  <2> HIDE DEF k
  <2>3. k \in Nat
    BY <2>1 DEF k
  <2>4. ((at + k) - b.last_refill) * b.refill
           = (at - b.last_refill) * b.refill + k * b.refill
    BY <1>1, <2>3
  <2>5. (at - b.last_refill) * b.refill \in Int /\ k * b.refill \in Int
    BY <1>1, <2>3
  <2>6. T(at + k) = T(at) + k * b.refill
    BY <1>1, <2>4, <2>5
  <2>7. QED
    BY <2>1, <2>2, <2>6 DEF k
<1> HIDE DEF T
<1>9. BucketRetryAfter(b, at) = wait
  BY <1>1, RefilledIsHeld DEF BucketRetryAfter, wait, miss, step
<1>10. BucketAllows(b, at + wait * TICKS)
  <2>1. /\ wait * TICKS \in Nat /\ wait * step \in Nat
        /\ T(at + wait * TICKS) = T(at) + wait * step
    BY <1>7, <1>8
  <2>2. at + wait * TICKS \in Nat /\ at + wait * TICKS >= at
    BY <1>1, <2>1
  <2>3. T(at + wait * TICKS) >= GRAIN
    BY <1>1, <1>5, <1>6, <1>7, <2>1
  <2>4. QED
    BY <1>4, <2>2, <2>3
<1>11. ~BucketAllows(b, at + (wait - 1) * TICKS)
  <2>0. wait - 1 \in Nat
    BY <1>7
  <2>1. /\ (wait - 1) * TICKS \in Nat /\ (wait - 1) * step \in Nat
        /\ T(at + (wait - 1) * TICKS) = T(at) + (wait - 1) * step
    BY <2>0, <1>8
  <2>2. at + (wait - 1) * TICKS \in Nat /\ at + (wait - 1) * TICKS >= at
    BY <1>1, <2>1
  <2>3. ~(T(at + (wait - 1) * TICKS) >= GRAIN)
    BY <1>1, <1>5, <1>6, <1>7, <2>1
  <2>4. QED
    BY <1>4, <2>2, <2>3
<1>12. QED
  BY <1>7, <1>9, <1>10, <1>11

\* So it is for the client of a key.
LEMMA BucketWait == BucketIInv => BucketRetryAfterSuffices
<1> SUFFICES ASSUME BucketIInv, ~BucketAllows(bucket, now)
             PROVE  LET wait == BucketRetryAfter(bucket, now)
                    IN /\ BucketAllows(bucket, now + wait * TICKS)
                       /\ ~BucketAllows(bucket, now + (wait - 1) * TICKS)
  BY DEF BucketRetryAfterSuffices
<1>1. bucket \in Bucket /\ now \in Nat /\ bucket.last_refill <= now
  BY DEF BucketIInv, BucketTypeOK, BucketInv
<1> QED
  BY <1>1, WaitSuffices

\* No window and no reading a request holds is ahead of the clock.
ClockInv ==
    /\ window.start <= time
    /\ \A r \in Requests : req[r].stamp <= time

LEMMA ClockInit == BudgetInit => ClockInv
BY DEF BudgetInit, WindowNew, NotStarted, Idle, ClockInv

LEMMA ClockNext == BudgetIInv /\ ClockInv /\ [BudgetNext]_budgetVars => ClockInv'
<1> SUFFICES ASSUME BudgetIInv, ClockInv, [BudgetNext]_budgetVars PROVE ClockInv'
  OBVIOUS
<1>1. /\ time \in Nat /\ window \in Window /\ window.start \in Int /\ window.start <= time
      /\ req \in [Requests -> Slot] /\ \A r \in Requests : req[r].stamp \in Nat /\ req[r].stamp <= time
  BY DEF BudgetIInv, BudgetTypeOK, Window, Slot, NotStarted, ClockInv
<1>2. CASE BudgetTick
  BY <1>1, <1>2 DEF BudgetTick, ClockInv
<1>3. ASSUME NEW r \in Requests, Arrive(r) PROVE ClockInv'
  BY <1>1, <1>3 DEF Arrive, ClockInv
<1>4. ASSUME NEW r \in Requests, CheckBudget(r) PROVE ClockInv'
  <2>1. window'.start <= time
    BY <1>1, <1>4 DEF CheckBudget, MaybeReset, NotStarted, Window
  <2>2. QED
    BY <1>1, <1>4, <2>1 DEF CheckBudget, ClockInv, Idle
<1>5. ASSUME NEW r \in Requests, EndUncharged(r) PROVE ClockInv'
  BY <1>1, <1>5 DEF EndUncharged, ClockInv, Idle
<1>6. ASSUME NEW r \in Requests, KnowCost(r) PROVE ClockInv'
  BY <1>1, <1>6 DEF KnowCost, ClockInv
<1>7. ASSUME NEW r \in Requests, Record(r) PROVE ClockInv'
  <2> DEFINE m == MaybeReset(window, req[r].stamp)
  <2>0. m \in Window
    BY <1>1, MaybeResetFields
  <2>1. m \in Window /\ m.start <= time
    BY <1>1, <2>0 DEF MaybeReset, NotStarted, Window
  <2>2. window'.start = IF m.start = NotStarted /\ req[r].cost > 0 THEN req[r].stamp ELSE m.start
    BY <1>7, <2>1 DEF Record, WindowRecord, Window
  <2> HIDE DEF m
  <2>3. window'.start <= time
    BY <1>1, <2>1, <2>2
  <2>4. QED
    BY <1>1, <1>7, <2>3 DEF Record, ClockInv, Idle
<1>8. CASE UNCHANGED budgetVars
  BY <1>8 DEF budgetVars, ClockInv
<1>9. QED
  BY <1>2, <1>3, <1>4, <1>5, <1>6, <1>7, <1>8 DEF BudgetNext

\* A key over its budget is let in when the announced time has passed.
LEMMA BudgetWait == BudgetIInv /\ ClockInv => BudgetRetryAfterSuffices
<1> SUFFICES ASSUME BudgetIInv, ClockInv, ~WindowAllows(window, time)
             PROVE  /\ WindowRetryAfter(window, time) > 0
                    /\ WindowAllows(window, time + WindowRetryAfter(window, time) * TICKS)
  BY DEF BudgetRetryAfterSuffices
<1> DEFINE gone == Elapsed(window.start, time)
           left == window.per - gone
           wait == CeilDiv(left, TICKS)
<1>1. /\ time \in Nat /\ TICKS \in Nat \ {0}
      /\ window.per \in Nat \ {0} /\ window.max \in Nat \ {0} /\ window.spent \in Nat
      /\ window.start \in Nat \cup {NotStarted}
  BY UnitsAssumption DEF BudgetIInv, BudgetTypeOK, Window
<1>2. ~(window.start # NotStarted /\ gone >= window.per)
  <2>1. SUFFICES ASSUME window.start # NotStarted /\ gone >= window.per PROVE FALSE
    OBVIOUS
  <2>2. MaybeReset(window, time).spent = 0
    BY <2>1 DEF MaybeReset, BudgetIInv, BudgetTypeOK, Window
  <2>3. QED
    BY <1>1, <2>2 DEF WindowAllows
<1>3. MaybeReset(window, time) = window
  BY <1>2 DEF MaybeReset
<1>4. window.spent > 0
  BY <1>1, <1>3 DEF WindowAllows
<1>5. window.start # NotStarted /\ window.start \in Nat
  BY <1>1, <1>4 DEF BudgetIInv, SpendHasWindow
<1>6. gone \in Nat /\ gone < window.per /\ time - window.start = gone
  BY <1>1, <1>2, <1>5 DEF Elapsed, ClockInv
<1>7. left \in Nat \ {0}
  BY <1>1, <1>6
<1>8. WindowRetryAfter(window, time) = wait
  BY <1>1, <1>5, <1>6 DEF WindowRetryAfter
<1>9. wait \in Nat \ {0} /\ wait * TICKS >= left
  BY <1>1, <1>7, CeilDivBounds
<1> HIDE DEF wait
<1> DEFINE later == time + wait * TICKS
<1>10. wait * TICKS \in Nat /\ later \in Nat
  BY <1>1, <1>9
<1>11. Elapsed(window.start, later) >= window.per
  BY <1>1, <1>5, <1>6, <1>9, <1>10 DEF Elapsed
<1> HIDE DEF later
<1>12. MaybeReset(window, later).spent = 0
  BY <1>5, <1>11 DEF MaybeReset, BudgetIInv, BudgetTypeOK, Window
<1>13. WindowAllows(window, later)
  BY <1>1, <1>12 DEF WindowAllows
<1>14. QED
  BY <1>8, <1>9, <1>13 DEF later

\* Whatever the limits and the interleaving, a client that waits for the announced
\* time is served if no other takes its place, and its refused calls cost it nothing.
THEOREM RetryAfterHolds == KeySpec => []RetryAfterSuffices
<1>1. BucketSpec => []ShadowInv
  BY BucketInductive, ShadowInit, ShadowNext, PTL DEF BucketSpec
<1>2. BudgetSpec => []ClockInv
  BY BudgetInductive, ClockInit, ClockNext, PTL DEF BudgetSpec
<1>3. BucketIInv /\ ShadowInv /\ BudgetIInv /\ ClockInv => RetryAfterSuffices
  BY ShadowIsFree, BucketWait, BudgetWait DEF RetryAfterSuffices
<1>4. QED
  BY <1>1, <1>2, <1>3, BucketInductive, BudgetInductive, PTL DEF KeySpec
-----------------------------------------------------------------------------
(* The pages *)

\* The counter of a key: one exactly if the key has a limit, and not ahead of the clock.
BucketHere(b, t) == b \in Bucket /\ b.tokens <= b.capacity * GRAIN /\ b.last_refill <= t
WindowHere(w, t) == w \in Window /\ w.start <= t /\ (w.spent > 0 => w.start # NotStarted)
Alone(o) == \A x, y \in o : x = y
BucketsHere(ks, counters, t) ==
    /\ DOMAIN counters = DOMAIN ks
    /\ \A i \in DOMAIN ks : /\ Alone(counters[i]) /\ (counters[i] # {} <=> ks[i].rate # {})
                            /\ \A b \in counters[i] : BucketHere(b, t)
WindowsHere(ks, counters, t) ==
    /\ DOMAIN counters = DOMAIN ks
    /\ \A i \in DOMAIN ks : /\ Alone(counters[i]) /\ (counters[i] # {} <=> ks[i].budget # {})
                            /\ \A w \in counters[i] : WindowHere(w, t)

LivePart ==
    /\ clock \in Nat /\ {"keys", "gen", "buckets", "windows"} \subseteq DOMAIN lim
    /\ lim.keys \in KeyLists /\ lim.gen \in Nat
    /\ BucketsHere(lim.keys, lim.buckets, clock) /\ WindowsHere(lim.keys, lim.windows, clock)

\* A page asks for keys of its own list, which is the live one until a reload.
TablePart ==
    \A t \in table :
        /\ {"keys", "gen", "todo", "cell"} \subseteq DOMAIN t
        /\ t.gen \in Nat /\ t.gen <= lim.gen /\ (t.gen = lim.gen => t.keys = lim.keys)
        /\ \A q \in t.todo : q[1] \in DOMAIN t.keys

PageIInv == LivePart /\ TablePart /\ PagesTellTheTruth

\* A key has at most one limit and one budget, of numbers above zero.
LEMMA KeyLimitsOf ==
    ASSUME NEW ks \in KeyLists
    PROVE  \A i \in DOMAIN ks : /\ Alone(ks[i].rate) /\ \A rl \in ks[i].rate : rl \in RateLimit
                                /\ Alone(ks[i].budget) /\ \A b \in ks[i].budget : b \in Budget
BY LimitsPageAssumption DEF Option, Alone

\* The units are numbers above zero.
LEMMA Units == GRAIN \in Nat /\ GRAIN > 0 /\ TICKS \in Nat /\ TICKS > 0
BY UnitsAssumption

\* A new bucket is full.
LEMMA BucketNewIs ==
    ASSUME NEW rl \in RateLimit, NEW t \in Nat
    PROVE  LET b == BucketNew(rl, t)
           IN /\ b \in Bucket /\ b.tokens = rl.requests * GRAIN /\ b.capacity = rl.requests
              /\ b.last_refill = t /\ rl.requests * GRAIN \in Nat
<1>1. rl.requests \in Nat \ {0} /\ rl.refill \in Nat \ {0}
  BY DEF RateLimit
<1>2. rl.requests * GRAIN \in Nat
  BY <1>1, Units
<1> DEFINE n == rl.requests * GRAIN
<1> HIDE DEF n
<1>3. n \in Nat /\ BucketNew(rl, t) = [capacity |-> rl.requests, refill |-> rl.refill, tokens |-> n, last_refill |-> t]
  BY <1>2 DEF BucketNew, n
<1>4. /\ BucketNew(rl, t) \in Bucket /\ BucketNew(rl, t).tokens = n
      /\ BucketNew(rl, t).capacity = rl.requests /\ BucketNew(rl, t).last_refill = t
  BY <1>1, <1>3 DEF Bucket
<1> QED
  BY <1>3, <1>4 DEF n

\* A new window has no spend and has not started.
LEMMA WindowNewIs ==
    ASSUME NEW b \in Budget, NEW t \in Nat
    PROVE  WindowHere(WindowNew(b), t)
BY DEF WindowHere, WindowNew, Window, Budget, NotStarted

\* A reload takes tokens over up to the new capacity, and the time of the last refill.
LEMMA BucketRebuildHere ==
    ASSUME NEW old, NEW rl \in RateLimit, NEW t \in Nat, \A b \in old : BucketHere(b, t)
    PROVE  BucketHere(BucketRebuild(old, rl, t), t)
<1> DEFINE new == BucketNew(rl, t)
           b == The(old)
           kept == Least(b.tokens, rl.requests * GRAIN)
<1>1. /\ new \in Bucket /\ new.tokens = rl.requests * GRAIN /\ new.capacity = rl.requests
      /\ new.last_refill = t /\ rl.requests * GRAIN \in Nat
  BY BucketNewIs
<1> HIDE DEF new
<1>2. CASE old = {}
  <2>1. BucketRebuild(old, rl, t) = new
    BY <1>2 DEF BucketRebuild, new
  <2>2. new.tokens <= new.capacity * GRAIN /\ new.last_refill <= t
    BY <1>1
  <2> QED
    BY <1>1, <2>1, <2>2 DEF BucketHere
<1>3. CASE old # {}
  <2>1. b \in old
    BY <1>3 DEF The
  <2>2. b.tokens \in Nat /\ b.last_refill \in Nat /\ b.last_refill <= t
    BY <2>1 DEF BucketHere, Bucket
  <2> HIDE DEF b
  <2>3. kept \in Nat /\ kept <= rl.requests * GRAIN
    <3> DEFINE full == rl.requests * GRAIN
    <3> HIDE DEF full
    <3>1. full \in Nat
      BY <1>1 DEF full
    <3>2. Least(b.tokens, full) \in Nat /\ Least(b.tokens, full) <= full
      BY <2>2, <3>1 DEF Least
    <3> QED
      BY <3>2 DEF full
  <2>4. BucketRebuild(old, rl, t) = [new EXCEPT !.tokens = kept, !.last_refill = b.last_refill]
    BY <1>3 DEF BucketRebuild, new, b
  <2> HIDE DEF kept
  <2> DEFINE made == [new EXCEPT !.tokens = kept, !.last_refill = b.last_refill]
  <2>5. made \in Bucket /\ made.tokens = kept /\ made.capacity = rl.requests /\ made.last_refill = b.last_refill
    BY <1>1, <2>2, <2>3 DEF Bucket
  <2> HIDE DEF made
  <2>6. made.tokens <= made.capacity * GRAIN /\ made.last_refill <= t
    BY <2>2, <2>3, <2>5
  <2> QED
    BY <2>4, <2>5, <2>6 DEF BucketHere, made
<1> QED
  BY <1>2, <1>3

\* A window that has been looked at is still one, and not ahead.
LEMMA ResetHere ==
    ASSUME NEW w, NEW t \in Nat, WindowHere(w, t)
    PROVE  WindowHere(MaybeReset(w, t), t)
<1>1. w \in Window /\ MaybeReset(w, t) \in Window /\ (MaybeReset(w, t).spent > 0 => MaybeReset(w, t).start # NotStarted)
  BY MaybeResetFields DEF WindowHere
<1>2. MaybeReset(w, t).start \in {w.start, NotStarted}
  BY <1>1 DEF MaybeReset, Window
<1>3. MaybeReset(w, t).start <= t
  BY <1>2 DEF WindowHere, NotStarted
<1> QED
  BY <1>1, <1>3 DEF WindowHere

\* A reload takes spend over with the window it was made in.
LEMMA WindowRebuildHere ==
    ASSUME NEW old, NEW b \in Budget, NEW t \in Nat, \A w \in old : WindowHere(w, t)
    PROVE  WindowHere(WindowRebuild(old, b, t), t)
<1> DEFINE w == The(old)
           moved == [WindowNew(b) EXCEPT !.spent = w.spent, !.start = w.start]
<1>1. CASE old = {}
  BY <1>1, WindowNewIs DEF WindowRebuild
<1>2. CASE old # {}
  <2>1. w \in old
    BY <1>2 DEF The
  <2>2. /\ w.spent \in Nat /\ w.start \in Nat \cup {NotStarted} /\ w.start <= t
        /\ w.spent > 0 => w.start # NotStarted
    BY <2>1 DEF WindowHere, Window
  <2> HIDE DEF w
  <2>3. WindowHere(moved, t)
    <3>1. WindowNew(b) \in Window
      BY WindowNewIs DEF WindowHere
    <3>2. moved \in Window /\ moved.spent = w.spent /\ moved.start = w.start
      BY <2>2, <3>1 DEF Window
    <3> HIDE DEF moved
    <3> QED
      BY <2>2, <3>2 DEF WindowHere
  <2>4. WindowRebuild(old, b, t) = MaybeReset(moved, t)
    BY <1>2 DEF WindowRebuild, w
  <2> HIDE DEF moved
  <2> QED
    BY <2>3, <2>4, ResetHere
<1> QED
  BY <1>1, <1>2

\* A configuration's first counters.
LEMMA FreshHere ==
    ASSUME NEW ks \in KeyLists, NEW t \in Nat
    PROVE  BucketsHere(ks, LimiterNew(ks, t), t) /\ WindowsHere(ks, BudgetsNew(ks), t)
<1>1. ASSUME NEW i \in DOMAIN ks
      PROVE  LET o == LimiterNew(ks, t)[i]
             IN Alone(o) /\ (o # {} <=> ks[i].rate # {}) /\ \A b \in o : BucketHere(b, t)
  <2>1. LimiterNew(ks, t)[i] = {BucketNew(rl, t) : rl \in ks[i].rate}
    BY DEF LimiterNew
  <2>2. \A x, y \in ks[i].rate : x = y
    BY KeyLimitsOf DEF Alone
  <2>3. ASSUME NEW rl \in ks[i].rate PROVE BucketHere(BucketNew(rl, t), t)
    <3>1. rl \in RateLimit
      BY KeyLimitsOf
    <3> DEFINE b == BucketNew(rl, t)
    <3>2. /\ b \in Bucket /\ b.tokens = rl.requests * GRAIN /\ b.capacity = rl.requests
          /\ b.last_refill = t /\ rl.requests * GRAIN \in Nat
      BY <3>1, BucketNewIs
    <3> HIDE DEF b
    <3>3. b.tokens <= b.capacity * GRAIN /\ b.last_refill <= t
      BY <3>2
    <3>4. BucketHere(b, t)
      BY <3>2, <3>3 DEF BucketHere
    <3> QED
      BY <3>4 DEF b
  <2> QED
    BY <2>1, <2>2, <2>3 DEF Alone
<1>2. ASSUME NEW i \in DOMAIN ks
      PROVE  LET o == BudgetsNew(ks)[i]
             IN Alone(o) /\ (o # {} <=> ks[i].budget # {}) /\ \A w \in o : WindowHere(w, t)
  <2>1. BudgetsNew(ks)[i] = {WindowNew(b) : b \in ks[i].budget}
    BY DEF BudgetsNew
  <2>2. \A x, y \in ks[i].budget : x = y
    BY KeyLimitsOf DEF Alone
  <2>3. ASSUME NEW b \in ks[i].budget PROVE WindowHere(WindowNew(b), t)
    <3>1. b \in Budget
      BY KeyLimitsOf
    <3> QED
      BY <3>1, WindowNewIs
  <2> QED
    BY <2>1, <2>2, <2>3 DEF Alone
<1>3. DOMAIN LimiterNew(ks, t) = DOMAIN ks /\ DOMAIN BudgetsNew(ks) = DOMAIN ks
  BY DEF LimiterNew, BudgetsNew
<1> QED
  BY <1>1, <1>2, <1>3 DEF BucketsHere, WindowsHere

\* Those of a reloaded one, whichever keys it keeps and wherever it moves them.
LEMMA RebuiltHere ==
    ASSUME NEW ks \in KeyLists, LivePart
    PROVE  /\ BucketsHere(ks, LimiterRebuild(lim.keys, lim.buckets, ks, clock), clock)
           /\ WindowsHere(ks, BudgetsRebuild(lim.keys, lim.windows, ks, clock), clock)
<1>0. clock \in Nat
  BY DEF LivePart
<1>1. ASSUME NEW i \in DOMAIN ks
      PROVE  LET o == LimiterRebuild(lim.keys, lim.buckets, ks, clock)[i]
             IN Alone(o) /\ (o # {} <=> ks[i].rate # {}) /\ \A b \in o : BucketHere(b, clock)
  <2> DEFINE old == Inherited(lim.keys, lim.buckets, ks, i)
  <2>1. \A b \in old : BucketHere(b, clock)
    BY DEF Inherited, Position, LivePart, BucketsHere
  <2>2. LimiterRebuild(lim.keys, lim.buckets, ks, clock)[i] = {BucketRebuild(old, rl, clock) : rl \in ks[i].rate}
    BY DEF LimiterRebuild
  <2> HIDE DEF old
  <2>3. \A x, y \in ks[i].rate : x = y
    BY KeyLimitsOf DEF Alone
  <2>4. ASSUME NEW rl \in ks[i].rate PROVE BucketHere(BucketRebuild(old, rl, clock), clock)
    <3>1. rl \in RateLimit
      BY KeyLimitsOf
    <3> QED
      BY <1>0, <2>1, <3>1, BucketRebuildHere
  <2> QED
    BY <2>2, <2>3, <2>4 DEF Alone
<1>2. ASSUME NEW i \in DOMAIN ks
      PROVE  LET o == BudgetsRebuild(lim.keys, lim.windows, ks, clock)[i]
             IN Alone(o) /\ (o # {} <=> ks[i].budget # {}) /\ \A w \in o : WindowHere(w, clock)
  <2> DEFINE old == Inherited(lim.keys, lim.windows, ks, i)
  <2>1. \A w \in old : WindowHere(w, clock)
    BY DEF Inherited, Position, LivePart, WindowsHere
  <2>2. BudgetsRebuild(lim.keys, lim.windows, ks, clock)[i] = {WindowRebuild(old, b, clock) : b \in ks[i].budget}
    BY DEF BudgetsRebuild
  <2> HIDE DEF old
  <2>3. \A x, y \in ks[i].budget : x = y
    BY KeyLimitsOf DEF Alone
  <2>4. ASSUME NEW b \in ks[i].budget PROVE WindowHere(WindowRebuild(old, b, clock), clock)
    <3>1. b \in Budget
      BY KeyLimitsOf
    <3> QED
      BY <1>0, <2>1, <3>1, WindowRebuildHere
  <2> QED
    BY <2>2, <2>3, <2>4 DEF Alone
<1>3. /\ DOMAIN LimiterRebuild(lim.keys, lim.buckets, ks, clock) = DOMAIN ks
      /\ DOMAIN BudgetsRebuild(lim.keys, lim.windows, ks, clock) = DOMAIN ks
  BY DEF LimiterRebuild, BudgetsRebuild
<1> QED
  BY <1>1, <1>2, <1>3 DEF BucketsHere, WindowsHere

\* A request of the key leaves its bucket one, and not ahead.
LEMMA CheckHere ==
    ASSUME NEW b, NEW t \in Nat, BucketHere(b, t)
    PROVE  BucketHere(BucketCheck(b, t), t)
<1> DEFINE c == BucketCheck(b, t)
           taken == IF BucketAllows(b, t) THEN GRAIN ELSE 0
           full == b.capacity * GRAIN
<1>1. c \in Bucket /\ c.capacity = b.capacity /\ c.last_refill = t /\ c.tokens + taken <= full
  BY BucketCheckFields DEF BucketHere
<1>2. c.tokens \in Nat /\ taken \in Nat /\ full \in Nat
  <2>1. b.capacity \in Nat
    BY DEF BucketHere, Bucket
  <2> QED
    BY <1>1, <2>1, Units DEF Bucket
<1> HIDE DEF c, taken
<1>3. c.tokens <= c.capacity * GRAIN /\ c.last_refill <= t
  <2> HIDE DEF full
  <2>1. c.tokens <= full
    BY <1>1, <1>2
  <2> QED
    BY <1>1, <2>1 DEF full
<1>4. BucketHere(c, t)
  BY <1>1, <1>3 DEF BucketHere
<1> QED
  BY <1>4 DEF c

\* A charge leaves its window one, and not ahead.
LEMMA RecordHere ==
    ASSUME NEW w, NEW cost \in Nat, NEW t \in Nat, WindowHere(w, t)
    PROVE  WindowHere(WindowRecord(w, cost, t), t)
<1> DEFINE m == MaybeReset(w, t)
           r == WindowRecord(w, cost, t)
<1>1. WindowHere(m, t)
  BY ResetHere
<1>2. r \in Window /\ (r.spent > 0 => r.start # NotStarted)
  BY WindowRecordFields DEF WindowHere
<1>3. r.start \in {m.start, t}
  <2>1. m \in Window
    BY <1>1 DEF WindowHere
  <2> HIDE DEF m
  <2>2. [m EXCEPT !.start = IF @ = NotStarted /\ cost > 0 THEN t ELSE @, !.spent = @ + cost].start \in {m.start, t}
    BY <2>1 DEF Window
  <2> QED
    BY <2>2 DEF WindowRecord, m
<1>4. r.start <= t
  <2>1. m.start <= t
    BY <1>1 DEF WindowHere
  <2> HIDE DEF m, r
  <2> QED
    BY <1>3, <2>1
<1> QED
  BY <1>2, <1>4 DEF WindowHere

\* Whole tokens are left exactly if there is one.
LEMMA WholeTokens ==
    ASSUME NEW x \in Nat
    PROVE  x \div GRAIN > 0 <=> x >= GRAIN
<1> DEFINE q == x \div GRAIN
           m == x % GRAIN
<1>1. q \in Int /\ m \in 0 .. GRAIN - 1 /\ x = GRAIN * q + m
  BY Units
<1> HIDE DEF q, m
<1>2. CASE q > 0
  <2>1. q - 1 \in Nat /\ GRAIN * q = GRAIN * (q - 1) + GRAIN
    BY <1>1, <1>2, Units
  <2>2. GRAIN * (q - 1) \in Nat
    BY <2>1, Units
  <2>3. x >= GRAIN
    BY <1>1, <2>1, <2>2, Units
  <2> QED
    BY <1>2, <2>3 DEF q
<1>3. CASE ~(q > 0)
  <2>1. -q \in Nat /\ GRAIN * q = -(GRAIN * (-q))
    BY <1>1, <1>3, Units
  <2>2. GRAIN * (-q) \in Nat
    BY <2>1, Units
  <2>3. x < GRAIN
    BY <1>1, <2>1, <2>2, Units
  <2> QED
    BY <1>3, <2>3, Units DEF q
<1> QED
  BY <1>2, <1>3

\* The row of a rate limit is right about the bucket it was read from.
LEMMA RateCell ==
    ASSUME NEW b, NEW at \in Nat, BucketHere(b, at)
    PROVE  RateTold(b, RateSnapshot(b, at), at)
<1> DEFINE snap == RateSnapshot(b, at)
           held == Held(b, at)
<1>1. /\ b \in Bucket /\ b.last_refill <= at
      /\ b \in [capacity : Nat \ {0}, refill : Nat \ {0}, tokens : Int, last_refill : Nat]
  BY DEF BucketHere, Bucket
<1>2. /\ Refilled(b, at).tokens = held /\ held \in Int
      /\ Elapsed(b.last_refill, at) * b.refill \in Nat /\ b.capacity * GRAIN \in Nat
  BY <1>1, RefilledIsHeld
<1>3. held \in Nat
  <2> DEFINE gain == Elapsed(b.last_refill, at) * b.refill
             full == b.capacity * GRAIN
  <2>1. gain \in Nat /\ full \in Nat /\ b.tokens \in Nat
    BY <1>1, <1>2 DEF Bucket
  <2> HIDE DEF gain, full
  <2>2. Least(b.tokens + gain, full) \in Nat
    BY <2>1 DEF Least
  <2> QED
    BY <2>2 DEF Held, gain, full
<1>4. /\ snap.remaining = held \div GRAIN
      /\ snap.secs = IF held >= GRAIN THEN 0 ELSE CeilDiv(GRAIN - held, b.refill * TICKS)
  BY DEF RateSnapshot, Held
<1>5. BucketAllows(b, at) <=> held >= GRAIN
  BY <1>2 DEF BucketAllows
<1>6. BucketRetryAfter(b, at) = CeilDiv(GRAIN - held, b.refill * TICKS)
  BY <1>2 DEF BucketRetryAfter
<1>7. held \div GRAIN > 0 <=> held >= GRAIN
  BY <1>3, WholeTokens
<1> HIDE DEF snap, held
<1>8. CASE BucketAllows(b, at)
  <2>1. snap.secs = 0 /\ at + 0 * TICKS = at
    BY <1>4, <1>5, <1>8, Units
  <2> QED
    BY <1>4, <1>5, <1>7, <1>8, <2>1 DEF RateTold, snap
<1>9. CASE ~BucketAllows(b, at)
  <2> DEFINE wait == BucketRetryAfter(b, at)
  <2>1. /\ wait \in Nat \ {0} /\ BucketAllows(b, at + wait * TICKS)
        /\ ~BucketAllows(b, at + (wait - 1) * TICKS)
    BY <1>1, <1>9, WaitSuffices
  <2>2. snap.secs = wait
    BY <1>4, <1>5, <1>6, <1>9
  <2> HIDE DEF wait
  <2>3. snap.secs # 0 /\ ~(snap.remaining > 0)
    BY <1>4, <1>5, <1>7, <1>9, <2>1, <2>2
  <2> QED
    BY <1>9, <2>1, <2>2, <2>3 DEF RateTold, snap
<1> QED
  BY <1>8, <1>9

\* The seconds of a countdown, rounded down: it ends within the second after them.
LEMMA WholeSeconds ==
    ASSUME NEW left \in Nat
    PROVE  LET n == left \div TICKS
           IN /\ n \in Nat /\ n * TICKS \in Nat /\ (n + 1) * TICKS \in Nat
              /\ n * TICKS <= left /\ left < (n + 1) * TICKS
<1> DEFINE q == left \div TICKS
           m == left % TICKS
<1>1. q \in Int /\ m \in 0 .. TICKS - 1 /\ left = TICKS * q + m
  BY Units
<1> HIDE DEF q, m
<1>2. q \in Nat
  <2>1. CASE q < 0
    <3>1. -q - 1 \in Nat /\ TICKS * q = -(TICKS * (-q - 1)) - TICKS
      BY <1>1, <2>1, Units
    <3>2. TICKS * (-q - 1) \in Nat
      BY <3>1, Units
    <3> QED
      BY <1>1, <3>1, <3>2, Units
  <2> QED
    BY <1>1, <2>1
<1>3. q * TICKS = TICKS * q /\ (q + 1) * TICKS = TICKS * q + TICKS /\ TICKS * q \in Nat
  BY <1>2, Units
<1>4. /\ q \in Nat /\ q * TICKS \in Nat /\ (q + 1) * TICKS \in Nat
      /\ q * TICKS <= left /\ left < (q + 1) * TICKS
  BY <1>1, <1>2, <1>3, Units
<1> QED
  BY <1>4 DEF q

\* The row of a budget is right about the window it was read from.
LEMMA BudgetCell ==
    ASSUME NEW w, NEW at \in Nat, WindowHere(w, at)
    PROVE  BudgetTold(w, BudgetSnapshot(w, at), at)
<1> DEFINE snap == BudgetSnapshot(w, at)
           kept == MaybeReset(w, at)
           gone == Elapsed(w.start, at)
<1>1. /\ w \in Window /\ w.start <= at /\ (w.spent > 0 => w.start # NotStarted)
      /\ w.max \in Nat \ {0} /\ w.per \in Nat \ {0} /\ w.spent \in Nat
      /\ w.start \in Nat \cup {NotStarted}
  BY DEF WindowHere, Window
<1>2. /\ snap.spent = kept.spent /\ snap.max = kept.max
      /\ snap.secs = IF kept.start = NotStarted THEN 0
                     ELSE (kept.per - Elapsed(kept.start, at)) \div TICKS
  BY DEF BudgetSnapshot
<1>3. kept.max = w.max
  BY <1>1, MaybeResetFields
<1>4. snap.spent < snap.max <=> WindowAllows(w, at)
  BY <1>2, <1>3 DEF WindowAllows
<1>5. ASSUME NEW t \in Nat, t >= at, MaybeReset(w, t).spent = 0
      PROVE  WindowAllows(w, t)
  BY <1>1, <1>5 DEF WindowAllows
<1>6. ASSUME NEW t \in Nat, w.start # NotStarted, Elapsed(w.start, t) >= w.per
      PROVE  MaybeReset(w, t).spent = 0
  BY <1>1, <1>6 DEF MaybeReset, Window
<1>7. CASE w.start = NotStarted
  <2>1. kept = w
    BY <1>7 DEF MaybeReset
  <2>2. snap.secs = 0
    BY <1>2, <1>7, <2>1
  <2>3. at + (snap.secs + 1) * TICKS \in Nat /\ at + (snap.secs + 1) * TICKS >= at
    BY <2>2, Units
  <2>4. \A t \in Nat : MaybeReset(w, t).spent = 0
    BY <1>1, <1>7 DEF MaybeReset
  <2> QED
    BY <1>4, <1>5, <2>2, <2>3, <2>4 DEF BudgetTold
<1>8. CASE w.start # NotStarted /\ gone >= w.per
  <2>1. kept.start = NotStarted
    BY <1>1, <1>8 DEF MaybeReset, Window
  <2>2. snap.secs = 0
    BY <1>2, <2>1
  <2>3. at + (snap.secs + 1) * TICKS \in Nat /\ at + (snap.secs + 1) * TICKS >= at
    BY <2>2, Units
  <2>4. \A t \in Nat : t >= at => Elapsed(w.start, t) >= w.per
    BY <1>1, <1>8 DEF Elapsed
  <2>5. WindowAllows(w, at + (snap.secs + 1) * TICKS)
    BY <1>5, <1>6, <1>8, <2>3, <2>4
  <2> QED
    BY <1>4, <2>2, <2>5 DEF BudgetTold
<1>9. CASE w.start # NotStarted /\ ~(gone >= w.per)
  <2> DEFINE left == w.per - gone
             n == left \div TICKS
  <2>1. kept = w
    BY <1>9 DEF MaybeReset
  <2>2. gone \in Nat /\ left \in Nat /\ w.start \in Nat /\ w.start + gone = at
    BY <1>1, <1>9 DEF Elapsed
  <2>3. snap.secs = n
    BY <1>2, <1>9, <2>1
  <2>4. /\ n \in Nat /\ n * TICKS \in Nat /\ (n + 1) * TICKS \in Nat
        /\ n * TICKS <= left /\ left < (n + 1) * TICKS
    BY <2>2, WholeSeconds
  <2>5. n > 0 => n * TICKS > 0
    <3>1. n > 0 => n - 1 \in Nat /\ n * TICKS = (n - 1) * TICKS + TICKS
      BY <2>4, Units
    <3>2. n > 0 => (n - 1) * TICKS \in Nat
      BY <3>1, Units
    <3> QED
      BY <3>1, <3>2, Units
  <2> DEFINE over == at + (n + 1) * TICKS
             last == at + n * TICKS - 1
  <2> HIDE DEF n
  <2>6. over \in Nat /\ over >= at /\ Elapsed(w.start, over) >= w.per
    BY <1>1, <2>2, <2>4 DEF Elapsed
  <2>7. n > 0 => last \in Nat /\ Elapsed(w.start, last) < w.per
    BY <1>1, <2>2, <2>4, <2>5 DEF Elapsed
  <2>8. WindowAllows(w, over)
    BY <1>5, <1>6, <1>9, <2>6
  <2>9. n > 0 => MaybeReset(w, last) = w
    BY <1>1, <2>7 DEF MaybeReset, Elapsed
  <2> QED
    BY <1>2, <1>4, <2>1, <2>3, <2>8, <2>9 DEF BudgetTold
<1> QED
  BY <1>7, <1>8, <1>9

\* No page is open at the start.
LEMMA PageInit == LimitsInit => PageIInv
<1> SUFFICES ASSUME LimitsInit PROVE PageIInv
  OBVIOUS
<1>1. PICK ks \in KeyLists : lim = FreshLim(ks, 0)
  BY DEF LimitsInit
<1>2. /\ {"keys", "gen", "buckets", "windows"} \subseteq DOMAIN lim
      /\ lim.keys = ks /\ lim.gen = 0 /\ lim.buckets = LimiterNew(ks, 0) /\ lim.windows = BudgetsNew(ks)
  BY <1>1 DEF FreshLim
<1>3. BucketsHere(ks, LimiterNew(ks, 0), 0) /\ WindowsHere(ks, BudgetsNew(ks), 0)
  BY FreshHere
<1>4. clock = 0 /\ table = {}
  BY DEF LimitsInit
<1> QED
  BY <1>2, <1>3, <1>4 DEF PageIInv, LivePart, TablePart, PagesTellTheTruth

\* Steps that open no page and read none leave what is shown as it is.
LEMMA TableKept ==
    ASSUME TablePart, PagesTellTheTruth, table' = table, lim.gen \in Nat,
           \/ lim'.gen = lim.gen /\ lim'.keys = lim.keys
           \/ lim'.gen = lim.gen + 1
    PROVE  TablePart' /\ PagesTellTheTruth'
<1>1. PagesTellTheTruth'
  BY DEF PagesTellTheTruth
<1>2. ASSUME NEW t \in table
      PROVE  t.gen <= lim'.gen /\ (t.gen = lim'.gen => t.keys = lim'.keys)
  <2>1. t.gen \in Nat /\ t.gen <= lim.gen /\ (t.gen = lim.gen => t.keys = lim.keys)
    BY DEF TablePart
  <2> QED
    BY <2>1
<1> QED
  BY <1>1, <1>2 DEF TablePart

\* A request is checked against one key's bucket.
LEMMA AdmitStep ==
    ASSUME PageIInv, NEW i \in DOMAIN lim.keys, AdmitOne(i)
    PROVE  PageIInv'
<1> DEFINE o == {BucketCheck(b, clock) : b \in lim.buckets[i]}
<1>1. /\ clock \in Nat /\ {"keys", "gen", "buckets", "windows"} \subseteq DOMAIN lim /\ lim.gen \in Nat
      /\ DOMAIN lim.buckets = DOMAIN lim.keys
  BY DEF PageIInv, LivePart, BucketsHere
<1>2. /\ lim' = [lim EXCEPT !.buckets = [@ EXCEPT ![i] = o]] /\ clock' = clock /\ table' = table
  BY DEF AdmitOne
<1>3. /\ lim'.keys = lim.keys /\ lim'.gen = lim.gen /\ lim'.windows = lim.windows /\ DOMAIN lim' = DOMAIN lim
      /\ lim'.buckets = [lim.buckets EXCEPT ![i] = o]
  <2> HIDE DEF o
  <2> QED
    BY <1>1, <1>2
<1>4. Alone(lim.buckets[i]) /\ (lim.buckets[i] # {} <=> lim.keys[i].rate # {}) /\ \A b \in lim.buckets[i] : BucketHere(b, clock)
  BY DEF PageIInv, LivePart, BucketsHere
<1>5. Alone(o) /\ (o # {} <=> lim.keys[i].rate # {}) /\ \A b \in o : BucketHere(b, clock)
  BY <1>1, <1>4, CheckHere DEF Alone
<1> HIDE DEF o
<1>6. BucketsHere(lim.keys, lim'.buckets, clock)
  BY <1>1, <1>3, <1>5 DEF PageIInv, LivePart, BucketsHere
<1>7. LivePart'
  BY <1>1, <1>2, <1>3, <1>6 DEF PageIInv, LivePart
<1>8. TablePart' /\ PagesTellTheTruth'
  BY <1>1, <1>2, <1>3, TableKept DEF PageIInv
<1> QED
  BY <1>7, <1>8 DEF PageIInv

\* A response is charged to one key's window.
LEMMA ChargeStep ==
    ASSUME PageIInv, NEW i \in DOMAIN lim.keys, NEW cost \in Charges, ChargeOne(i, cost)
    PROVE  PageIInv'
<1> DEFINE o == {WindowRecord(w, cost, clock) : w \in lim.windows[i]}
<1>0. cost \in Nat
  BY LimitsPageAssumption
<1>1. /\ clock \in Nat /\ {"keys", "gen", "buckets", "windows"} \subseteq DOMAIN lim /\ lim.gen \in Nat
      /\ DOMAIN lim.windows = DOMAIN lim.keys
  BY DEF PageIInv, LivePart, WindowsHere
<1>2. /\ lim' = [lim EXCEPT !.windows = [@ EXCEPT ![i] = o]] /\ clock' = clock /\ table' = table
  BY DEF ChargeOne
<1>3. /\ lim'.keys = lim.keys /\ lim'.gen = lim.gen /\ lim'.buckets = lim.buckets /\ DOMAIN lim' = DOMAIN lim
      /\ lim'.windows = [lim.windows EXCEPT ![i] = o]
  <2> HIDE DEF o
  <2> QED
    BY <1>1, <1>2
<1>4. Alone(lim.windows[i]) /\ (lim.windows[i] # {} <=> lim.keys[i].budget # {}) /\ \A w \in lim.windows[i] : WindowHere(w, clock)
  BY DEF PageIInv, LivePart, WindowsHere
<1>5. Alone(o) /\ (o # {} <=> lim.keys[i].budget # {}) /\ \A w \in o : WindowHere(w, clock)
  BY <1>0, <1>1, <1>4, RecordHere DEF Alone
<1> HIDE DEF o
<1>6. WindowsHere(lim.keys, lim'.windows, clock)
  BY <1>1, <1>3, <1>5 DEF PageIInv, LivePart, WindowsHere
<1>7. LivePart'
  BY <1>1, <1>2, <1>3, <1>6 DEF PageIInv, LivePart
<1>8. TablePart' /\ PagesTellTheTruth'
  BY <1>1, <1>2, <1>3, TableKept DEF PageIInv
<1> QED
  BY <1>7, <1>8 DEF PageIInv

\* An open page outlives its configuration.
LEMMA ReloadStep ==
    ASSUME PageIInv, NEW ks \in KeyLists, ReloadKeys(ks)
    PROVE  PageIInv'
<1> DEFINE bs == LimiterRebuild(lim.keys, lim.buckets, ks, clock)
           ws == BudgetsRebuild(lim.keys, lim.windows, ks, clock)
<1>1. clock \in Nat /\ lim.gen \in Nat
  BY DEF PageIInv, LivePart
<1>2. BucketsHere(ks, bs, clock) /\ WindowsHere(ks, ws, clock)
  BY RebuiltHere DEF PageIInv
<1>3. lim' = [keys |-> ks, gen |-> lim.gen + 1, buckets |-> bs, windows |-> ws] /\ clock' = clock /\ table' = table
  BY DEF ReloadKeys
<1> HIDE DEF bs, ws
<1>4. /\ lim'.keys = ks /\ lim'.gen = lim.gen + 1 /\ lim'.buckets = bs /\ lim'.windows = ws
      /\ {"keys", "gen", "buckets", "windows"} \subseteq DOMAIN lim'
  BY <1>3
<1>5. LivePart'
  BY <1>1, <1>2, <1>3, <1>4 DEF LivePart
<1>6. TablePart' /\ PagesTellTheTruth'
  BY <1>1, <1>3, <1>4, TableKept DEF PageIInv
<1> QED
  BY <1>5, <1>6 DEF PageIInv

\* Time leaves no counter ahead of the clock.
LEMMA TimeStep == ASSUME PageIInv, TimePasses PROVE PageIInv'
<1>1. clock \in Nat /\ clock' = clock + 1 /\ lim' = lim /\ table' = table /\ lim.gen \in Nat
  BY DEF PageIInv, LivePart, TimePasses
<1>2. ASSUME NEW b, BucketHere(b, clock) PROVE BucketHere(b, clock + 1)
  BY <1>1, <1>2 DEF BucketHere, Bucket
<1>3. ASSUME NEW w, WindowHere(w, clock) PROVE WindowHere(w, clock + 1)
  BY <1>1, <1>3 DEF WindowHere, Window, NotStarted
<1>4. BucketsHere(lim.keys, lim.buckets, clock + 1) /\ WindowsHere(lim.keys, lim.windows, clock + 1)
  BY <1>2, <1>3 DEF PageIInv, LivePart, BucketsHere, WindowsHere
<1>5. LivePart'
  BY <1>1, <1>4 DEF PageIInv, LivePart
<1>6. TablePart' /\ PagesTellTheTruth'
  BY <1>1, TableKept DEF PageIInv
<1> QED
  BY <1>5, <1>6 DEF PageIInv

\* A page that opens has the live keys and shows nothing yet.
LEMMA OpenStep ==
    ASSUME PageIInv, NEW questions, OpenTable(questions), \A q \in questions : q[1] \in DOMAIN lim.keys
    PROVE  PageIInv'
<1> DEFINE t == [keys |-> lim.keys, gen |-> lim.gen, todo |-> questions, cell |-> {}]
<1>1. clock' = clock /\ lim' = lim /\ table' = {t} /\ lim.gen \in Nat
  BY DEF PageIInv, LivePart, OpenTable
<1>2. /\ {"keys", "gen", "todo", "cell"} \subseteq DOMAIN t
      /\ t.keys = lim.keys /\ t.gen = lim.gen /\ t.todo = questions /\ t.cell = {}
  OBVIOUS
<1> HIDE DEF t
<1>3. LivePart'
  BY <1>1 DEF PageIInv, LivePart
<1>4. TablePart'
  BY <1>1, <1>2 DEF TablePart
<1>5. PagesTellTheTruth'
  BY <1>1, <1>2 DEF PagesTellTheTruth
<1> QED
  BY <1>3, <1>4, <1>5 DEF PageIInv

\* Every page asks for keys of the list it shows.
LEMMA QuestionsOfKeys ==
    /\ \A q \in RatesOf(lim.keys) : q[1] \in DOMAIN lim.keys
    /\ \A q \in BudgetsOf(lim.keys) : q[1] \in DOMAIN lim.keys
    /\ \A i \in DOMAIN lim.keys : \A q \in DetailOf(i) : q[1] \in DOMAIN lim.keys
BY DEF RatesOf, BudgetsOf, DetailOf

\* A page with a new cell is still one that asks for keys of its list.
LEMMA CellPut ==
    ASSUME NEW t, NEW q, NEW c,
           {"keys", "gen", "todo", "cell"} \subseteq DOMAIN t
    PROVE  LET u == [t EXCEPT !.todo = @ \ {q}, !.cell = {c}]
           IN /\ {"keys", "gen", "todo", "cell"} \subseteq DOMAIN u
              /\ u.keys = t.keys /\ u.gen = t.gen /\ u.todo = t.todo \ {q} /\ u.cell = {c}
OBVIOUS

\* The row a page shows of a counter of the live bundle is right about it.
LEMMA CellRight ==
    ASSUME PageIInv, NEW t \in table, NEW i \in DOMAIN t.keys, NEW rate \in BOOLEAN
    PROVE  CellTells(CellOf(t, i, rate, CounterAt(IF rate THEN lim.buckets ELSE lim.windows, i)))
<1> DEFINE counter == CounterAt(IF rate THEN lim.buckets ELSE lim.windows, i)
           c == CellOf(t, i, rate, counter)
           rates == {RateSnapshot(b, clock) : b \in counter}
           budgets == {BudgetSnapshot(w, clock) : w \in counter}
<1>1. /\ c.key = t.keys[i].key /\ c.rate = rate /\ c.at = clock /\ c.same = (lim.gen = t.gen)
      /\ c.limited = ((IF rate THEN t.keys[i].rate ELSE t.keys[i].budget) # {})
      /\ c.owner = (IF i \in DOMAIN lim.keys THEN {lim.keys[i].key} ELSE {})
      /\ c.counter = counter
      /\ c.snap = IF rate THEN rates ELSE budgets
  BY DEF CellOf
<1>2. clock \in Nat
  BY DEF PageIInv, LivePart
<1>3. rate => Alone(counter) /\ \A b \in counter : BucketHere(b, clock)
  BY DEF PageIInv, LivePart, BucketsHere, CounterAt, Alone
<1>4. ~rate => Alone(counter) /\ \A w \in counter : WindowHere(w, clock)
  BY DEF PageIInv, LivePart, WindowsHere, CounterAt, Alone
<1>5. lim.gen = t.gen => t.keys = lim.keys
  BY DEF PageIInv, TablePart
<1>6. lim.gen = t.gen => (counter # {} <=> (IF rate THEN t.keys[i].rate ELSE t.keys[i].budget) # {})
  BY <1>5 DEF PageIInv, LivePart, BucketsHere, WindowsHere, CounterAt
<1> HIDE DEF counter
<1>7. rate => \A b \in counter : \A snap \in rates : RateTold(b, snap, clock)
  BY <1>2, <1>3, RateCell DEF Alone
<1>8. ~rate => \A w \in counter : \A snap \in budgets : BudgetTold(w, snap, clock)
  BY <1>2, <1>4, BudgetCell DEF Alone
<1>9. (counter # {} <=> rates # {}) /\ (counter # {} <=> budgets # {})
  OBVIOUS
<1> HIDE DEF c, rates, budgets
<1>10. c.same => c.owner = {c.key} /\ (c.limited <=> c.snap # {})
  BY <1>1, <1>5, <1>6, <1>9
<1>11. /\ c.rate => \A b \in c.counter : \A snap \in c.snap : RateTold(b, snap, c.at)
       /\ ~c.rate => \A w \in c.counter : \A snap \in c.snap : BudgetTold(w, snap, c.at)
  BY <1>1, <1>7, <1>8
<1>12. CellTells(c)
  BY <1>10, <1>11 DEF CellTells
<1> QED
  BY <1>12 DEF c, counter

\* A page that is right about its cells and asks for nothing new stays one.
LEMMA TablePut ==
    ASSUME TablePart, NEW t \in table, NEW u,
           {"keys", "gen", "todo", "cell"} \subseteq DOMAIN u,
           u.keys = t.keys, u.gen = t.gen, u.todo \subseteq t.todo,
           \A c \in u.cell : CellTells(c),
           table' = {u}, lim'.gen = lim.gen, lim'.keys = lim.keys
    PROVE  TablePart' /\ PagesTellTheTruth'
<1>1. /\ u.gen \in Nat /\ u.gen <= lim.gen /\ (u.gen = lim.gen => u.keys = lim.keys)
      /\ \A q \in u.todo : q[1] \in DOMAIN u.keys
  BY DEF TablePart
<1>2. TablePart'
  BY <1>1 DEF TablePart
<1>3. PagesTellTheTruth'
  BY DEF PagesTellTheTruth
<1> QED
  BY <1>2, <1>3

\* A counter is read into the page.
LEMMA CellRead ==
    ASSUME PageIInv, NEW t \in table, NEW q \in t.todo, NEW rate \in BOOLEAN, NEW c,
           c = CellOf(t, q[1], rate, CounterAt(IF rate THEN lim.buckets ELSE lim.windows, q[1])),
           table' = {[t EXCEPT !.todo = @ \ {q}, !.cell = {c}]},
           lim'.gen = lim.gen, lim'.keys = lim.keys
    PROVE  TablePart' /\ PagesTellTheTruth'
<1> DEFINE u == [t EXCEPT !.todo = @ \ {q}, !.cell = {c}]
<1>1. {"keys", "gen", "todo", "cell"} \subseteq DOMAIN t /\ q[1] \in DOMAIN t.keys
  BY DEF PageIInv, TablePart
<1>2. CellTells(c)
  BY <1>1, CellRight
<1>3. /\ {"keys", "gen", "todo", "cell"} \subseteq DOMAIN u
      /\ u.keys = t.keys /\ u.gen = t.gen /\ u.todo = t.todo \ {q} /\ u.cell = {c}
  BY <1>1, CellPut
<1>4. table' = {u}
  OBVIOUS
<1> HIDE DEF u
<1> QED
  BY <1>2, <1>3, <1>4, TablePut DEF PageIInv

\* A limit's row.
LEMMA ReadRateStep == ASSUME PageIInv, ReadRate PROVE PageIInv'
<1>1. PICK t \in table : \E q \in Turn(t.todo) :
         /\ table' = {[t EXCEPT !.todo = @ \ {q},
                               !.cell = {CellOf(t, q[1], TRUE, CounterAt(lim.buckets, q[1]))}]}
         /\ UNCHANGED <<clock, lim>>
  BY Zenon DEF ReadRate
<1>2. PICK q \in Turn(t.todo) :
         /\ table' = {[t EXCEPT !.todo = @ \ {q},
                               !.cell = {CellOf(t, q[1], TRUE, CounterAt(lim.buckets, q[1]))}]}
         /\ UNCHANGED <<clock, lim>>
  BY <1>1, Zenon
<1>3. q \in t.todo
  BY DEF Turn
<1>4. TablePart' /\ PagesTellTheTruth'
  BY <1>2, <1>3, CellRead
<1>5. LivePart'
  BY <1>2 DEF PageIInv, LivePart
<1> QED
  BY <1>4, <1>5 DEF PageIInv

\* A budget's row, whose window is reset if it has elapsed.
LEMMA ReadBudgetStep == ASSUME PageIInv, ReadBudget PROVE PageIInv'
<1>1. PICK t \in table : \E q \in Turn(t.todo) :
         /\ table' = {[t EXCEPT !.todo = @ \ {q},
                               !.cell = {CellOf(t, q[1], FALSE, CounterAt(lim.windows, q[1]))}]}
         /\ lim' = [lim EXCEPT !.windows = [i \in DOMAIN @ |->
                       IF i = q[1] THEN {MaybeReset(w, clock) : w \in @[i]} ELSE @[i]]]
         /\ UNCHANGED clock
  BY Zenon DEF ReadBudget
<1>2. PICK q \in Turn(t.todo) :
         /\ table' = {[t EXCEPT !.todo = @ \ {q},
                               !.cell = {CellOf(t, q[1], FALSE, CounterAt(lim.windows, q[1]))}]}
         /\ lim' = [lim EXCEPT !.windows = [i \in DOMAIN @ |->
                       IF i = q[1] THEN {MaybeReset(w, clock) : w \in @[i]} ELSE @[i]]]
         /\ UNCHANGED clock
  BY <1>1, Zenon
<1>3. q \in t.todo
  BY DEF Turn
<1> DEFINE reset(i) == {MaybeReset(w, clock) : w \in lim.windows[i]}
           ws == [i \in DOMAIN lim.windows |-> IF i = q[1] THEN reset(i) ELSE lim.windows[i]]
<1>4. /\ clock \in Nat /\ {"keys", "gen", "buckets", "windows"} \subseteq DOMAIN lim
      /\ DOMAIN lim.windows = DOMAIN lim.keys
  BY DEF PageIInv, LivePart, WindowsHere
<1>5. lim' = [lim EXCEPT !.windows = ws]
  BY <1>2
<1>6. ASSUME NEW i \in DOMAIN lim.keys
      PROVE  Alone(ws[i]) /\ (ws[i] # {} <=> lim.keys[i].budget # {}) /\ \A w \in ws[i] : WindowHere(w, clock)
  <2>1. /\ Alone(lim.windows[i]) /\ (lim.windows[i] # {} <=> lim.keys[i].budget # {})
        /\ \A w \in lim.windows[i] : WindowHere(w, clock)
    BY DEF PageIInv, LivePart, WindowsHere
  <2>2. Alone(reset(i)) /\ (reset(i) # {} <=> lim.keys[i].budget # {}) /\ \A w \in reset(i) : WindowHere(w, clock)
    BY <1>4, <2>1, ResetHere DEF Alone
  <2>3. ws[i] = reset(i) \/ ws[i] = lim.windows[i]
    BY <1>4
  <2> HIDE DEF ws, reset
  <2> QED
    BY <2>1, <2>2, <2>3
<1>7. DOMAIN ws = DOMAIN lim.keys
  BY <1>4
<1> HIDE DEF ws
<1>8. /\ lim'.keys = lim.keys /\ lim'.gen = lim.gen /\ lim'.buckets = lim.buckets /\ lim'.windows = ws
      /\ DOMAIN lim' = DOMAIN lim
  BY <1>4, <1>5
<1>9. WindowsHere(lim.keys, ws, clock)
  BY <1>6, <1>7 DEF WindowsHere
<1>10. LivePart'
  BY <1>2, <1>4, <1>8, <1>9 DEF PageIInv, LivePart
<1>11. TablePart' /\ PagesTellTheTruth'
  BY <1>2, <1>3, <1>8, CellRead
<1> QED
  BY <1>10, <1>11 DEF PageIInv

\* Every step.
LEMMA PageNext == PageIInv /\ [LimitsNext]_limitsVars => PageIInv'
<1> SUFFICES ASSUME PageIInv, [LimitsNext]_limitsVars PROVE PageIInv'
  OBVIOUS
<1>1. CASE \E i \in DOMAIN lim.keys : AdmitOne(i)
  BY <1>1, AdmitStep
<1>2. CASE \E i \in DOMAIN lim.keys, cost \in Charges : ChargeOne(i, cost)
  BY <1>2, ChargeStep
<1>3. CASE \E ks \in KeyLists : ReloadKeys(ks)
  BY <1>3, ReloadStep
<1>4. CASE OpenTable(RatesOf(lim.keys)) \/ OpenTable(BudgetsOf(lim.keys))
  BY <1>4, OpenStep, QuestionsOfKeys
<1>5. CASE \E i \in DOMAIN lim.keys : OpenTable(DetailOf(i))
  BY <1>5, OpenStep, QuestionsOfKeys
<1>6. CASE ReadRate
  BY <1>6, ReadRateStep
<1>7. CASE ReadBudget
  BY <1>7, ReadBudgetStep
<1>8. CASE ShowTable
  BY <1>8 DEF ShowTable, PageIInv, LivePart, TablePart, PagesTellTheTruth
<1>9. CASE TimePasses
  BY <1>9, TimeStep
<1>10. CASE UNCHANGED limitsVars
  BY <1>10 DEF limitsVars, PageIInv, LivePart, TablePart, PagesTellTheTruth
<1> QED
  BY <1>1, <1>2, <1>3, <1>4, <1>5, <1>6, <1>7, <1>8, <1>9, <1>10 DEF LimitsNext

\* Every counter of the live configuration is that of its key, never ahead of the
\* clock, and every page that is open asks for keys of its own list.
THEOREM PageInductive == LimitsSpec => []PageIInv
BY PageInit, PageNext, PTL DEF LimitsSpec

\* Whatever the configurations, charges and reloads between two rows, a page tells
\* what the next request of a key would meet: the tokens and the spend left, and the
\* seconds until there are more (RateLimiter::snapshot, BudgetTracker::snapshot).
THEOREM PagesHold == LimitsSpec => []PagesTellTheTruth
<1>1. PageIInv => PagesTellTheTruth
  BY DEF PageIInv
<1> QED
  BY <1>1, PageInductive, PTL
=============================================================================
