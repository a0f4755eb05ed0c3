--------------------------- MODULE HotReloadProofs ---------------------------
(***************************************************************************)
(* For every set of operators, requests, secrets, key lists, costs and     *)
(* bounds: through edits, reloads that overlap or fail, restarts and       *)
(* requests that outlive their configuration,                              *)
(*   - a key pays for nobody but the requests of its own secret;           *)
(*   - charges are carried over exactly, with the exceptions named;        *)
(*   - file and live configuration differ for the named reasons only;      *)
(*   - an undisturbed edit hits the key whose page the operator was on.    *)
(***************************************************************************)
EXTENDS HotReload, SequenceTheorems, TLAPS
-----------------------------------------------------------------------------
(* The inductive invariant *)

BundleShape == [keys : Seq(Entry), buckets : Seq(SUBSET Bucket), windows : Seq(SUBSET Window)]
DocumentShape == [keys : Seq(Entry), health : {"sound", "env", "engine"}]
AdminShape == [phase : AdminPhases, form : SUBSET Form, shown : SUBSET Secrets,
               hit : SUBSET Secrets, doc : SUBSET DocumentShape, old : Nat,
               next : BundleShape, page : Nat, alone : BOOLEAN, calm : BOOLEAN]
RequestShape == [phase : RequestPhases, secret : SUBSET Secrets, idx : Nat, gen : Nat,
                 target : Nat]

\* A key has one limit of a kind, and one counter, or none.
Single(S) == \A x, y \in S : x = y

\* A counter for every key that has the limit, made for that limit.
Counted(B) ==
    /\ Len(B.buckets) = Len(B.keys)
    /\ \A i \in DOMAIN B.keys : Single(B.buckets[i])
    /\ \A i \in DOMAIN B.keys : \A b \in B.buckets[i] :
          \E rl \in B.keys[i].rate : b.capacity = rl.requests
Windowed(B) ==
    /\ Len(B.windows) = Len(B.keys)
    /\ \A i \in DOMAIN B.keys :
          /\ B.keys[i].budget # {} => B.windows[i] # {}
          /\ \A w \in B.windows[i] : \E b \in B.keys[i].budget : w.per = b.per

\* What an operator holds in each phase, with bundles bs.
AdminOK(m, bs) ==
    /\ m.phase \in {"form", "write"} => \E f \in m.form : m.form = {f}
    /\ m.phase = "write" => \E d \in m.doc : m.doc = {d}
    /\ m.phase \in {"budget", "store"} => m.old \in DOMAIN bs /\ Counted(m.next)
    /\ m.phase = "store" => Windowed(m.next)

AdminPart == \A a \in Admins : AdminOK(admin[a], bundles)

\* A request knows its key by its position in the bundle it authenticated with.
RequestOK(q, bs) ==
    q.phase # "idle" =>
        /\ q.gen \in DOMAIN bs
        /\ q.idx \in DOMAIN bs[q.gen].keys
        /\ q.secret = {bs[q.gen].keys[q.idx].key}
        /\ q.phase = "recording" => q.target \in DOMAIN bs

RequestPart == \A r \in Requests : RequestOK(req[r], bundles)

BundlePart ==
    /\ bundles # <<>>
    /\ \A g \in DOMAIN bundles : Counted(bundles[g]) /\ Windowed(bundles[g])

TypePart ==
    /\ now \in Nat
    /\ disk \in DocumentShape
    /\ bundles \in Seq(BundleShape)
    /\ admin \in [Admins -> AdminShape]
    /\ req \in [Requests -> RequestShape]
    /\ seen \in Seen

ShapeInv == TypePart /\ BundlePart /\ AdminPart /\ RequestPart

\* The limits a secret had in the bundles bs.
Had(bs, s) ==
    UNION {UNION {bs[h].keys[i].rate : i \in Position(bs[h].keys, s)} : h \in DOMAIN bs}

\* What is missing in a bucket of bundle B its own requests took.
TokensOwned(B, bs, taken) ==
    \A i \in DOMAIN B.keys : \A b \in B.buckets[i] :
        \E rl \in Had(bs, B.keys[i].key) \cup B.keys[i].rate :
            b.tokens + taken[B.keys[i].key] * GRAIN >= rl.requests * GRAIN

\* What a window of bundle B holds its own requests cost.
SpendOwned(B, billed) ==
    \A i \in DOMAIN B.keys : \A w \in B.windows[i] : w.spent <= billed[B.keys[i].key]

OwnerInv ==
    /\ \A g \in DOMAIN bundles : TokensOwned(bundles[g], bundles, seen.taken)
    /\ \A a \in Admins : admin[a].phase \in {"budget", "store"} =>
          TokensOwned(admin[a].next, bundles, seen.taken)
    /\ ~seen.moved =>
          /\ \A g \in DOMAIN bundles : SpendOwned(bundles[g], seen.billed)
          /\ \A a \in Admins : admin[a].phase = "store" => SpendOwned(admin[a].next, seen.billed)

\* Between the write of the file and the swap.
Mid(a) == admin[a].phase \in {"load", "limiter", "budget", "store"}

\* The page of a form showed the key at the form's position, or none.
FormKnows(m, bs) ==
    \A f \in m.form : m.phase = "form" =>
        /\ m.page \in DOMAIN bs
        /\ m.shown = {bs[m.page].keys[i].key : i \in BlockAt(f, bs[m.page].keys)}
        /\ f.op = "save" => m.shown = {}

EditInv ==
    /\ (\A a \in Admins : ~Mid(a)) /\ seen.drift = {} => disk.keys = Live.keys
    /\ \A a \in Admins : Busy(a) /\ admin[a].alone =>
          /\ \A b \in Admins \ {a} : ~Busy(b)
          /\ admin[a].phase \in {"limiter", "budget", "store"} => admin[a].next.keys = disk.keys
    /\ \A a \in Admins : FormKnows(admin[a], bundles)
    /\ EditHitsShownKey

\* No two virtual keys share a secret, in the file or in a bundle.
KeysInv ==
    /\ Distinct(disk.keys)
    /\ \A g \in DOMAIN bundles : Distinct(bundles[g].keys)
    /\ \A a \in Admins :
          /\ admin[a].phase = "write" => \A d \in admin[a].doc : Distinct(d.keys)
          /\ admin[a].phase \in {"limiter", "budget", "store"} => Distinct(admin[a].next.keys)

\* Everything the requests of s cost is in bundle B's window of s.
Holds(B, s, billed) ==
    /\ Position(B.keys, s) = {} => billed[s] = 0
    /\ \A i \in Position(B.keys, s) : \A w \in B.windows[i] : w.spent = billed[s]

\* Everything is in the live bundle, in one that a reload copies from, and, as
\* long as the new window has not elapsed, in one that a reload has built.
SpendOf(s) ==
    /\ Holds(Live, s, seen.billed)
    /\ \A a \in Admins : admin[a].phase = "budget" => Holds(bundles[admin[a].old], s, seen.billed)
    /\ \A a \in Admins : admin[a].phase = "store" =>
          \A i \in Position(admin[a].next.keys, s) : \A w \in admin[a].next.windows[i] :
              now < w.per => w.spent = seen.billed[s]

SpendInv ==
    ~seen.moved /\ ~seen.late => \A s \in Secrets : SteadyBudget(s) => SpendOf(s)

IInv == ShapeInv /\ KeysInv /\ OwnerInv /\ EditInv /\ SpendInv
-----------------------------------------------------------------------------
(* What the operators of Limits and Counters return *)

LEMMA Units == GRAIN \in Nat \ {0} /\ TICKS \in Nat \ {0}
BY UnitsAssumption

LEMMA EntryFields ==
    ASSUME NEW e \in Entry
    PROVE  /\ e.key \in Secrets /\ e.rate \in SUBSET RateLimit /\ e.budget \in SUBSET Budget
           /\ Single(e.rate)
BY DEF Entry, Option, Single

LEMMA FunctionIsSeq ==
    ASSUME NEW n \in Nat, NEW S, NEW f \in [1 .. n -> S]
    PROVE  f \in Seq(S) /\ Len(f) = n /\ DOMAIN f = 1 .. n
OBVIOUS

LEMMA BucketNewFields ==
    ASSUME NEW rl \in RateLimit, NEW t \in Nat
    PROVE  /\ BucketNew(rl, t) \in Bucket
           /\ BucketNew(rl, t).capacity = rl.requests
           /\ BucketNew(rl, t).tokens = rl.requests * GRAIN
           /\ rl.requests \in Nat \ {0} /\ rl.requests * GRAIN \in Nat
<1>1. rl.requests \in Nat \ {0} /\ rl.refill \in Nat \ {0} /\ rl.requests * GRAIN \in Nat
  BY Units DEF RateLimit
<1>2. QED
  BY <1>1 DEF BucketNew, Bucket

\* A reloaded bucket holds what the old one held, or all that its limit allows.
LEMMA BucketRebuildFields ==
    ASSUME NEW old \in SUBSET Bucket, NEW rl \in RateLimit, NEW t \in Nat
    PROVE  LET n == BucketRebuild(old, rl, t)
           IN /\ n \in Bucket /\ n.capacity = rl.requests
              /\ \/ n.tokens = rl.requests * GRAIN
                 \/ \E o \in old : n.tokens = o.tokens
<1>1. /\ BucketNew(rl, t) \in Bucket /\ BucketNew(rl, t).capacity = rl.requests
      /\ BucketNew(rl, t).tokens = rl.requests * GRAIN /\ rl.requests * GRAIN \in Nat
  BY BucketNewFields
<1>2. CASE old = {}
  BY <1>1, <1>2 DEF BucketRebuild
<1>3. CASE old # {}
  <2> DEFINE o == The(old)
             k == Least(o.tokens, rl.requests * GRAIN)
  <2>1. o \in old /\ o \in Bucket
    BY <1>3 DEF The
  <2>2. o.tokens \in Nat /\ o.last_refill \in Nat
    BY <2>1 DEF Bucket
  <2>3. k \in Nat /\ (k = o.tokens \/ k = rl.requests * GRAIN)
    BY <1>1, <2>2 DEF Least
  <2>4. BucketRebuild(old, rl, t) = [BucketNew(rl, t) EXCEPT !.tokens = k, !.last_refill = o.last_refill]
    BY <1>3 DEF BucketRebuild
  <2> HIDE DEF o, k
  <2>5. /\ BucketRebuild(old, rl, t) \in Bucket /\ BucketRebuild(old, rl, t).capacity = rl.requests
        /\ BucketRebuild(old, rl, t).tokens = k
    BY <1>1, <2>2, <2>3, <2>4 DEF Bucket
  <2>6. QED
    BY <2>1, <2>3, <2>5
<1>4. QED
  BY <1>2, <1>3

\* A check takes one token if it admits, and otherwise none.
LEMMA BucketCheckFields ==
    ASSUME NEW b \in Bucket, NEW t \in Nat
    PROVE  LET c == BucketCheck(b, t)
               paid == c.tokens + (IF BucketAllows(b, t) THEN GRAIN ELSE 0)
           IN /\ c \in Bucket /\ c.capacity = b.capacity
              /\ paid >= b.tokens \/ paid >= b.capacity * GRAIN
<1> DEFINE gain == Elapsed(b.last_refill, t) * b.refill
           full == b.capacity * GRAIN
           r    == Refilled(b, t)
<1>1. /\ b.tokens \in Nat /\ b.last_refill \in Nat /\ b.refill \in Nat /\ b.capacity \in Nat \ {0}
      /\ GRAIN \in Nat
  BY Units DEF Bucket
<1>2. gain \in Nat /\ full \in Nat
  <2>1. Elapsed(b.last_refill, t) \in Nat
    BY <1>1 DEF Elapsed
  <2>2. QED
    BY <1>1, <2>1
<1>3. r = [b EXCEPT !.tokens = Least(b.tokens + gain, full), !.last_refill = t]
  BY DEF Refilled
<1> HIDE DEF gain, full, r
<1>4. Least(b.tokens + gain, full) \in Nat
  BY <1>1, <1>2 DEF Least
<1>5. /\ r \in Bucket /\ r.capacity = b.capacity /\ r.tokens \in Nat
      /\ r.tokens >= b.tokens \/ r.tokens >= full
  <2>1. r \in Bucket /\ r.capacity = b.capacity /\ r.tokens = Least(b.tokens + gain, full)
    BY <1>3, <1>4 DEF Bucket
  <2>2. QED
    BY <2>1, <1>1, <1>2, <1>4 DEF Least
<1>6. CASE BucketAllows(b, t)
  <2>1. r.tokens >= GRAIN /\ BucketCheck(b, t) = [r EXCEPT !.tokens = r.tokens - GRAIN]
    BY <1>6 DEF BucketAllows, BucketCheck, r
  <2>2. r.tokens - GRAIN \in Nat
    BY <1>1, <1>5, <2>1
  <2>3. /\ BucketCheck(b, t) \in Bucket /\ BucketCheck(b, t).capacity = r.capacity
        /\ BucketCheck(b, t).tokens = r.tokens - GRAIN
    BY <1>5, <2>1, <2>2 DEF Bucket
  <2>4. BucketCheck(b, t).tokens + GRAIN = r.tokens
    BY <1>1, <1>5, <2>3
  <2>5. QED
    BY <1>5, <1>6, <2>3, <2>4 DEF full
<1>7. CASE ~BucketAllows(b, t)
  <2>1. BucketCheck(b, t) = r
    BY <1>7 DEF BucketAllows, BucketCheck, r
  <2>2. BucketCheck(b, t).tokens + 0 = r.tokens
    BY <1>5, <2>1
  <2>3. QED
    BY <1>5, <1>7, <2>1, <2>2 DEF full
<1>8. QED
  BY <1>6, <1>7

\* What every window operation does: the two fields it writes.
Put(w, sp, st) == [w EXCEPT !.start = st, !.spent = sp]

\* A window that has not elapsed is left alone.
LEMMA MaybeResetFields ==
    ASSUME NEW w \in Window, NEW t \in Nat
    PROVE  /\ MaybeReset(w, t) \in Window /\ MaybeReset(w, t).per = w.per
           /\ MaybeReset(w, t).spent <= w.spent
           /\ t < w.per => MaybeReset(w, t) = w
<1>1. w.spent \in Nat /\ w.per \in Nat \ {0} /\ w.start \in Nat \cup {NotStarted}
  BY DEF Window
<1>2. CASE w.start # NotStarted /\ Elapsed(w.start, t) >= w.per
  <2>1. MaybeReset(w, t) = [w EXCEPT !.start = NotStarted, !.spent = 0]
    BY <1>2 DEF MaybeReset
  <2> DEFINE m == Put(w, 0, NotStarted)
  <2>2. MaybeReset(w, t) = m
    BY <2>1 DEF Put
  <2>3. m \in Window /\ m.per = w.per /\ m.spent = 0
    BY DEF Put, Window, NotStarted
  <2> HIDE DEF m
  <2>4. MaybeReset(w, t) \in Window /\ MaybeReset(w, t).per = w.per /\ MaybeReset(w, t).spent = 0
    BY <2>2, <2>3
  <2>5. ~(t < w.per)
    BY <1>1, <1>2 DEF Elapsed
  <2>6. QED
    BY <1>1, <2>4, <2>5
<1>3. CASE ~(w.start # NotStarted /\ Elapsed(w.start, t) >= w.per)
  <2>1. MaybeReset(w, t) = w
    BY <1>3 DEF MaybeReset
  <2>2. QED
    BY <1>1, <2>1
<1>4. QED
  BY <1>2, <1>3

LEMMA WindowRecordFields ==
    ASSUME NEW w \in Window, NEW c \in Nat, NEW t \in Nat
    PROVE  /\ WindowRecord(w, c, t) \in Window /\ WindowRecord(w, c, t).per = w.per
           /\ WindowRecord(w, c, t).spent <= w.spent + c
           /\ t < w.per => WindowRecord(w, c, t).spent = w.spent + c
<1> DEFINE m == MaybeReset(w, t)
           st == IF m.start = NotStarted /\ c > 0 THEN t ELSE m.start
<1>1. m \in Window /\ m.per = w.per /\ m.spent <= w.spent /\ (t < w.per => m = w)
  BY MaybeResetFields
<1>2. WindowRecord(w, c, t) = [m EXCEPT !.start = st, !.spent = m.spent + c]
  BY DEF WindowRecord
<1> HIDE DEF m
<1>3. m.spent \in Nat /\ w.spent \in Nat /\ m.start \in Nat \cup {NotStarted}
  BY <1>1 DEF Window
<1>4. m.spent + c \in Nat /\ st \in Nat \cup {NotStarted}
  BY <1>3
<1> HIDE DEF st
<1>5. /\ WindowRecord(w, c, t) \in Window /\ WindowRecord(w, c, t).per = m.per
      /\ WindowRecord(w, c, t).spent = m.spent + c
  BY <1>1, <1>2, <1>4 DEF Window
<1>6. QED
  BY <1>1, <1>3, <1>5

\* A reloaded window holds what the old one held, unless that elapsed.
LEMMA WindowRebuildFields ==
    ASSUME NEW old \in SUBSET Window, NEW b \in Budget, NEW t \in Nat
    PROVE  LET n == WindowRebuild(old, b, t)
           IN /\ n \in Window /\ n.per = b.per
              /\ old = {} => n.spent = 0
              /\ old # {} => \E o \in old : n.spent <= o.spent /\ (t < b.per => n.spent = o.spent)
<1>1. WindowNew(b) \in Window /\ WindowNew(b).per = b.per /\ WindowNew(b).spent = 0
  BY DEF WindowNew, Window, Budget, NotStarted
<1>2. CASE old = {}
  BY <1>1, <1>2 DEF WindowRebuild
<1>3. CASE old # {}
  <2> DEFINE o == The(old)
             m == [WindowNew(b) EXCEPT !.spent = o.spent, !.start = o.start]
  <2>1. o \in old /\ o \in Window
    BY <1>3 DEF The
  <2>2. o.spent \in Nat /\ o.start \in Nat \cup {NotStarted}
    BY <2>1 DEF Window
  <2>3. m \in Window /\ m.per = b.per /\ m.spent = o.spent
    BY <1>1, <2>2 DEF Window
  <2>4. WindowRebuild(old, b, t) = MaybeReset(m, t)
    BY <1>3 DEF WindowRebuild
  <2> HIDE DEF o, m
  <2>5. /\ MaybeReset(m, t) \in Window /\ MaybeReset(m, t).per = m.per
        /\ MaybeReset(m, t).spent <= m.spent /\ (t < m.per => MaybeReset(m, t) = m)
    BY <2>3, MaybeResetFields
  <2>6. QED
    BY <1>3, <2>1, <2>3, <2>4, <2>5
<1>4. QED
  BY <1>2, <1>3

LEMMA InheritedCounters ==
    ASSUME NEW S, NEW ks, NEW old, NEW counters, NEW i \in DOMAIN ks,
           \A j \in DOMAIN old : counters[j] \in SUBSET S
    PROVE  /\ Inherited(old, counters, ks, i) \in SUBSET S
           /\ \A x \in Inherited(old, counters, ks, i) :
                 \E j \in Position(old, ks[i].key) : x \in counters[j]
           /\ \A j \in Position(old, ks[i].key) : counters[j] \subseteq Inherited(old, counters, ks, i)
BY DEF Inherited, Position
-----------------------------------------------------------------------------
(* Types *)

LEMMA Shapes ==
    ASSUME ShapeInv
    PROVE  /\ now \in Nat /\ disk \in DocumentShape /\ disk.keys \in Seq(Entry)
           /\ bundles \in Seq(BundleShape) /\ live \in DOMAIN bundles /\ live \in Nat /\ live > 0
           /\ admin \in [Admins -> AdminShape] /\ req \in [Requests -> RequestShape]
           /\ seen \in Seen
           /\ \A g \in DOMAIN bundles :
                 /\ bundles[g] \in BundleShape
                 /\ bundles[g].keys \in Seq(Entry)
                 /\ bundles[g].buckets \in Seq(SUBSET Bucket) /\ bundles[g].windows \in Seq(SUBSET Window)
                 /\ DOMAIN bundles[g].buckets = DOMAIN bundles[g].keys
                 /\ DOMAIN bundles[g].windows = DOMAIN bundles[g].keys
<1>1. TypePart /\ bundles # <<>>
  BY DEF ShapeInv, BundlePart
<1>2. bundles \in Seq(BundleShape) /\ live \in DOMAIN bundles /\ live \in Nat /\ live > 0
  BY <1>1, EmptySeq DEF TypePart, live
<1>3. ASSUME NEW g \in DOMAIN bundles
      PROVE  /\ bundles[g] \in BundleShape
             /\ bundles[g].keys \in Seq(Entry)
             /\ bundles[g].buckets \in Seq(SUBSET Bucket) /\ bundles[g].windows \in Seq(SUBSET Window)
             /\ DOMAIN bundles[g].buckets = DOMAIN bundles[g].keys
             /\ DOMAIN bundles[g].windows = DOMAIN bundles[g].keys
  <2>1. bundles[g] \in BundleShape
    BY <1>2
  <2>2. Len(bundles[g].buckets) = Len(bundles[g].keys) /\ Len(bundles[g].windows) = Len(bundles[g].keys)
    BY DEF ShapeInv, BundlePart, Counted, Windowed
  <2>3. QED
    BY <2>1, <2>2 DEF BundleShape
<1>4. QED
  BY <1>1, <1>2, <1>3 DEF TypePart, DocumentShape

\* n is bs with the buckets at position i of bundle g replaced.
BucketsPut(bs, g, i, new, n) ==
    /\ n \in Seq(BundleShape) /\ DOMAIN n = DOMAIN bs /\ Len(n) = Len(bs)
    /\ \A h \in DOMAIN bs :
          /\ n[h].keys = bs[h].keys /\ n[h].windows = bs[h].windows
          /\ Len(n[h].buckets) = Len(bs[h].buckets)
          /\ \A j \in DOMAIN bs[h].buckets :
                n[h].buckets[j] = IF h = g /\ j = i THEN new ELSE bs[h].buckets[j]

LEMMA PutBuckets ==
    ASSUME NEW bs \in Seq(BundleShape), NEW g \in DOMAIN bs, NEW i \in DOMAIN bs[g].buckets,
           NEW new \in SUBSET Bucket
    PROVE  BucketsPut(bs, g, i, new, [bs EXCEPT ![g].buckets[i] = new])
<1> DEFINE c == [bs[g].buckets EXCEPT ![i] = new]
           B == [bs[g] EXCEPT !.buckets = c]
           n == [bs EXCEPT ![g] = B]
<1>1. bs[g] \in BundleShape /\ bs[g].buckets \in Seq(SUBSET Bucket)
  <2>1. bs[g] \in BundleShape
    OBVIOUS
  <2>2. QED
    BY <2>1 DEF BundleShape
<1>2. /\ c \in Seq(SUBSET Bucket) /\ Len(c) = Len(bs[g].buckets)
      /\ \A j \in DOMAIN bs[g].buckets : c[j] = IF j = i THEN new ELSE bs[g].buckets[j]
  BY <1>1, ExceptSeq
<1> HIDE DEF c
<1>3. /\ B \in BundleShape /\ B.keys = bs[g].keys /\ B.windows = bs[g].windows /\ B.buckets = c
  BY <1>1, <1>2 DEF BundleShape
<1> HIDE DEF B
<1>4. /\ n \in Seq(BundleShape) /\ DOMAIN n = DOMAIN bs /\ Len(n) = Len(bs)
      /\ \A h \in DOMAIN bs : n[h] = IF h = g THEN B ELSE bs[h]
  BY <1>3, ExceptSeq
<1>5. [bs EXCEPT ![g].buckets[i] = new] = n
  BY DEF n, B, c
<1> HIDE DEF n
<1>6. ASSUME NEW h \in DOMAIN bs
      PROVE  /\ n[h].keys = bs[h].keys /\ n[h].windows = bs[h].windows
             /\ Len(n[h].buckets) = Len(bs[h].buckets)
             /\ \A j \in DOMAIN bs[h].buckets :
                   n[h].buckets[j] = IF h = g /\ j = i THEN new ELSE bs[h].buckets[j]
  BY <1>2, <1>3, <1>4
<1>7. QED
  BY <1>4, <1>5, <1>6 DEF BucketsPut

\* n is bs with the windows at position i of bundle g replaced.
WindowsPut(bs, g, i, new, n) ==
    /\ n \in Seq(BundleShape) /\ DOMAIN n = DOMAIN bs /\ Len(n) = Len(bs)
    /\ \A h \in DOMAIN bs :
          /\ n[h].keys = bs[h].keys /\ n[h].buckets = bs[h].buckets
          /\ Len(n[h].windows) = Len(bs[h].windows)
          /\ \A j \in DOMAIN bs[h].windows :
                n[h].windows[j] = IF h = g /\ j = i THEN new ELSE bs[h].windows[j]

LEMMA PutWindows ==
    ASSUME NEW bs \in Seq(BundleShape), NEW g \in DOMAIN bs, NEW i \in DOMAIN bs[g].windows,
           NEW new \in SUBSET Window
    PROVE  WindowsPut(bs, g, i, new, [bs EXCEPT ![g].windows[i] = new])
<1> DEFINE c == [bs[g].windows EXCEPT ![i] = new]
           B == [bs[g] EXCEPT !.windows = c]
           n == [bs EXCEPT ![g] = B]
<1>1. bs[g] \in BundleShape /\ bs[g].windows \in Seq(SUBSET Window)
  <2>1. bs[g] \in BundleShape
    OBVIOUS
  <2>2. QED
    BY <2>1 DEF BundleShape
<1>2. /\ c \in Seq(SUBSET Window) /\ Len(c) = Len(bs[g].windows)
      /\ \A j \in DOMAIN bs[g].windows : c[j] = IF j = i THEN new ELSE bs[g].windows[j]
  BY <1>1, ExceptSeq
<1> HIDE DEF c
<1>3. /\ B \in BundleShape /\ B.keys = bs[g].keys /\ B.buckets = bs[g].buckets /\ B.windows = c
  BY <1>1, <1>2 DEF BundleShape
<1> HIDE DEF B
<1>4. /\ n \in Seq(BundleShape) /\ DOMAIN n = DOMAIN bs /\ Len(n) = Len(bs)
      /\ \A h \in DOMAIN bs : n[h] = IF h = g THEN B ELSE bs[h]
  BY <1>3, ExceptSeq
<1>5. [bs EXCEPT ![g].windows[i] = new] = n
  BY DEF n, B, c
<1> HIDE DEF n
<1>6. ASSUME NEW h \in DOMAIN bs
      PROVE  /\ n[h].keys = bs[h].keys /\ n[h].buckets = bs[h].buckets
             /\ Len(n[h].windows) = Len(bs[h].windows)
             /\ \A j \in DOMAIN bs[h].windows :
                   n[h].windows[j] = IF h = g /\ j = i THEN new ELSE bs[h].windows[j]
  BY <1>2, <1>3, <1>4
<1>7. QED
  BY <1>4, <1>5, <1>6 DEF WindowsPut

\* A bundle built from nothing, at boot.
LEMMA FreshShape ==
    ASSUME NEW ks \in Seq(Entry), NEW t \in Nat
    PROVE  LET B == FreshBundle(ks, t)
           IN /\ B \in BundleShape /\ B.keys = ks /\ Counted(B) /\ Windowed(B)
              /\ \A i \in DOMAIN ks : \A b \in B.buckets[i] :
                    \E rl \in ks[i].rate : b.tokens = rl.requests * GRAIN /\ rl.requests * GRAIN \in Nat
              /\ \A i \in DOMAIN ks : \A w \in B.windows[i] : w.spent = 0
<1> DEFINE B == FreshBundle(ks, t)
           bk == LimiterNew(ks, t)
           wd == BudgetsNew(ks)
<1>1. Len(ks) \in Nat /\ DOMAIN ks = 1 .. Len(ks) /\ \A i \in DOMAIN ks : ks[i] \in Entry
  OBVIOUS
<1>2. ASSUME NEW i \in DOMAIN ks
      PROVE  /\ bk[i] = {BucketNew(rl, t) : rl \in ks[i].rate} /\ bk[i] \in SUBSET Bucket
             /\ Single(bk[i])
             /\ \A b \in bk[i] : \E rl \in ks[i].rate :
                   b.capacity = rl.requests /\ b.tokens = rl.requests * GRAIN /\ rl.requests * GRAIN \in Nat
             /\ wd[i] = {WindowNew(b) : b \in ks[i].budget} /\ wd[i] \in SUBSET Window
             /\ ks[i].budget # {} => wd[i] # {}
             /\ \A w \in wd[i] : w.spent = 0 /\ \E b \in ks[i].budget : w.per = b.per
  <2>1. ks[i].rate \in SUBSET RateLimit /\ ks[i].budget \in SUBSET Budget /\ Single(ks[i].rate)
    BY <1>1, EntryFields
  <2>2. bk[i] = {BucketNew(rl, t) : rl \in ks[i].rate}
    BY DEF LimiterNew
  <2>3. wd[i] = {WindowNew(b) : b \in ks[i].budget}
    BY DEF BudgetsNew
  <2>4. \A b \in Budget : WindowNew(b) \in Window /\ WindowNew(b).per = b.per /\ WindowNew(b).spent = 0
    BY DEF WindowNew, Window, Budget, NotStarted
  <2> HIDE DEF bk, wd
  <2>5. /\ bk[i] \in SUBSET Bucket
        /\ \A b \in bk[i] : \E rl \in ks[i].rate :
              b.capacity = rl.requests /\ b.tokens = rl.requests * GRAIN /\ rl.requests * GRAIN \in Nat
    BY <2>1, <2>2, BucketNewFields
  <2>6. /\ wd[i] \in SUBSET Window
        /\ ks[i].budget # {} => wd[i] # {}
        /\ \A w \in wd[i] : w.spent = 0 /\ \E b \in ks[i].budget : w.per = b.per
    BY <2>1, <2>3, <2>4
  <2>7. Single(bk[i])
    BY <2>1, <2>2 DEF Single
  <2>8. QED
    BY <2>2, <2>3, <2>5, <2>6, <2>7
<1>3. bk \in [1 .. Len(ks) -> SUBSET Bucket] /\ wd \in [1 .. Len(ks) -> SUBSET Window]
  BY <1>1, <1>2 DEF LimiterNew, BudgetsNew
<1>4. /\ bk \in Seq(SUBSET Bucket) /\ Len(bk) = Len(ks)
      /\ wd \in Seq(SUBSET Window) /\ Len(wd) = Len(ks)
  BY <1>1, <1>3, FunctionIsSeq
<1>5. B = [keys |-> ks, buckets |-> bk, windows |-> wd]
  BY DEF FreshBundle
<1> HIDE DEF bk, wd, B
<1>6. B \in BundleShape /\ B.keys = ks /\ B.buckets = bk /\ B.windows = wd
  BY <1>4, <1>5 DEF BundleShape
<1>7. Counted(B)
  BY <1>2, <1>4, <1>6 DEF Counted
<1>8. Windowed(B)
  BY <1>2, <1>4, <1>6 DEF Windowed
<1>9. QED
  BY <1>2, <1>6, <1>7, <1>8 DEF B

LEMMA EmptyShapes ==
    /\ NoBundle \in BundleShape /\ IdleAdmin \in AdminShape /\ IdleRequest \in RequestShape
    /\ IdleAdmin.phase = "idle" /\ IdleRequest.phase = "idle" /\ IdleAdmin.form = {}
    /\ \A bs : AdminOK(IdleAdmin, bs) /\ RequestOK(IdleRequest, bs)
<1>1. NoBundle \in BundleShape
  BY EmptySeq DEF NoBundle, BundleShape
<1>2. IdleAdmin \in AdminShape
  BY <1>1 DEF IdleAdmin, AdminShape, AdminPhases
<1>3. IdleRequest \in RequestShape
  BY DEF IdleRequest, RequestShape, RequestPhases
<1>4. QED
  BY <1>1, <1>2, <1>3 DEF IdleAdmin, IdleRequest, AdminOK, RequestOK

\* What a key form makes of the virtual keys are virtual keys.
LEMMA TransformShape ==
    ASSUME NEW f \in Form, f.op # "save", NEW e \in Entries, NEW ks \in Seq(Entry)
    PROVE  Transform(f, e, ks) \in Seq(Entry)
<1>1. e \in Entry /\ f.op \in {"create", "update", "delete"} /\ f.idx \in Nat
  BY HotReloadAssumption DEF Form
<1>2. CASE f.op = "create"
  <2>1. Transform(f, e, ks) = Append(ks, e)
    BY <1>2 DEF Transform
  <2>2. QED
    BY <1>1, <2>1, AppendProperties
<1>3. CASE f.op # "create" /\ BlockAt(f, ks) = {}
  <2>1. Transform(f, e, ks) = ks
    BY <1>3 DEF Transform
  <2>2. QED
    BY <2>1
<1>4. ASSUME f.op # "create", BlockAt(f, ks) # {}
      PROVE  Transform(f, e, ks) \in Seq(Entry)
  <2>1. BlockAt(f, ks) = {f.idx} /\ f.idx \in 1 .. Len(ks)
    BY <1>4 DEF BlockAt
  <2>2. The(BlockAt(f, ks)) = f.idx
    BY <2>1 DEF The
  <2>3. CASE f.op = "update"
    <3>1. Transform(f, e, ks) = [ks EXCEPT ![f.idx] = e]
      BY <1>4, <2>2, <2>3 DEF Transform
    <3>2. QED
      BY <1>1, <2>1, <3>1, ExceptSeq
  <2>4. CASE f.op = "delete"
    <3>1. Transform(f, e, ks) = RemoveAt(ks, f.idx)
      BY <1>4, <2>2, <2>4 DEF Transform
    <3>2. SubSeq(ks, 1, f.idx - 1) \in Seq(Entry)
      BY <2>1, SubSeqProperties
    <3>3. SubSeq(ks, f.idx + 1, Len(ks)) \in Seq(Entry)
      BY <2>1, SubSeqProperties
    <3>4. QED
      BY <3>1, <3>2, <3>3, ConcatProperties DEF RemoveAt
  <2>5. QED
    BY <1>1, <1>4, <2>3, <2>4
<1>5. QED
  BY <1>2, <1>3, <1>4
-----------------------------------------------------------------------------
(* What the steps of an operator do *)

LEMMA OpenPageEffect ==
    ASSUME ShapeInv, NEW a \in Admins, OpenPage(a)
    PROVE  /\ admin' \in [Admins -> AdminShape]
           /\ \A b \in Admins \ {a} : admin'[b] = admin[b]
           /\ admin[a].phase = "idle" /\ admin'[a].phase = "form" /\ admin'[a].page = live
           /\ \E f \in Form :
                 /\ admin'[a].form = {f}
                 /\ admin'[a].shown = {Live.keys[j].key : j \in BlockAt(f, Live.keys)}
                 /\ f.op = "save" => admin'[a].shown = {}
<1>1. PICK op \in Ops :
        \E i \in IF op \in {"update", "delete"} THEN DOMAIN Live.keys ELSE {0} :
          admin' = [admin EXCEPT ![a] =
            [IdleAdmin EXCEPT
                !.phase = "form", !.form = {[op |-> op, idx |-> i]},
                !.shown = IF i = 0 THEN {} ELSE {Live.keys[i].key}, !.page = live]]
  BY DEF OpenPage
<1>2. PICK i \in IF op \in {"update", "delete"} THEN DOMAIN Live.keys ELSE {0} :
          admin' = [admin EXCEPT ![a] =
            [IdleAdmin EXCEPT
                !.phase = "form", !.form = {[op |-> op, idx |-> i]},
                !.shown = IF i = 0 THEN {} ELSE {Live.keys[i].key}, !.page = live]]
  BY <1>1
<1> DEFINE f == [op |-> op, idx |-> i]
           at == IF i = 0 THEN {} ELSE {Live.keys[i].key}
           m == [IdleAdmin EXCEPT !.phase = "form", !.form = {f}, !.shown = at, !.page = live]
<1>3. Live.keys \in Seq(Entry) /\ live \in Nat /\ DOMAIN Live.keys = 1 .. Len(Live.keys)
  BY Shapes DEF Live
<1>4. i \in Nat /\ (i = 0 \/ i \in DOMAIN Live.keys) /\ (op = "save" => i = 0)
  BY <1>3
<1>5. f \in Form /\ f.idx = i /\ (f.op = "save" => at = {})
  BY <1>4, HotReloadAssumption DEF Form
<1>6. at \subseteq Secrets /\ at = {Live.keys[j].key : j \in BlockAt(f, Live.keys)}
  <2>1. CASE i = 0
    <3>1. BlockAt(f, Live.keys) = {}
      BY <1>3, <1>5, <2>1 DEF BlockAt
    <3>2. QED
      BY <2>1, <3>1
  <2>2. CASE i # 0
    <3>1. i \in DOMAIN Live.keys
      BY <1>4, <2>2
    <3>2. BlockAt(f, Live.keys) = {i}
      BY <1>5, <3>1 DEF BlockAt
    <3>3. Live.keys[i] \in Entry
      BY <1>3, <3>1
    <3>4. QED
      BY <2>2, <3>2, <3>3, EntryFields
  <2>3. QED
    BY <2>1, <2>2
<1> HIDE DEF f, at
<1>7. /\ m \in AdminShape /\ m.phase = "form" /\ m.page = live /\ m.form = {f} /\ m.shown = at
  BY <1>3, <1>5, <1>6, EmptyShapes DEF AdminShape, AdminPhases
<1>8. admin' = [admin EXCEPT ![a] = m]
  BY <1>2 DEF f, at
<1> HIDE DEF m
<1>9. admin \in [Admins -> AdminShape]
  BY Shapes
<1>10. admin[a].phase = "idle"
  BY DEF OpenPage
<1>11. /\ admin' \in [Admins -> AdminShape] /\ admin'[a] = m
       /\ \A b \in Admins \ {a} : admin'[b] = admin[b]
  BY <1>7, <1>8, <1>9
<1>12. QED
  BY <1>5, <1>6, <1>7, <1>10, <1>11

LEMMA EndEditEffect ==
    ASSUME ShapeInv, NEW a \in Admins, admin' = [admin EXCEPT ![a] = IdleAdmin]
    PROVE  /\ admin' \in [Admins -> AdminShape]
           /\ \A b \in Admins \ {a} : admin'[b] = admin[b]
           /\ admin'[a] = IdleAdmin
BY Shapes, EmptyShapes

LEMMA StartOnEffect ==
    ASSUME ShapeInv, NEW a \in Admins, NEW doc \in DocumentShape, NEW hit \in SUBSET Secrets,
           StartOn(a, doc, hit)
    PROVE  /\ admin' \in [Admins -> AdminShape]
           /\ admin'[a].phase = "write" /\ admin'[a].doc = {doc} /\ admin'[a].hit = hit
           /\ admin'[a].form = admin[a].form /\ admin'[a].shown = admin[a].shown
           /\ admin'[a].alone => \A b \in Admins \ {a} : ~Busy(b)
           /\ admin'[a].calm => /\ \A b \in Admins \ {a} : ~Busy(b)
                                /\ seen.drift = {} /\ admin[a].page = live
           /\ \A b \in Admins \ {a} : admin'[b] = [admin[b] EXCEPT !.alone = FALSE]
<1> DEFINE others == {b \in Admins \ {a} : Busy(b)}
           quiet == others = {}
           calm == others = {} /\ seen.drift = {} /\ admin[a].page = live
           m == [admin[a] EXCEPT !.phase = "write", !.doc = {doc}, !.hit = hit, !.page = 0,
                                 !.alone = quiet, !.calm = calm]
<1>1. admin' = [b \in Admins |-> IF b = a THEN m ELSE [admin[b] EXCEPT !.alone = FALSE]]
  BY DEF StartOn
<1>2. quiet \in BOOLEAN /\ calm \in BOOLEAN
  OBVIOUS
<1>3. (quiet => \A b \in Admins \ {a} : ~Busy(b))
      /\ (calm => quiet /\ seen.drift = {} /\ admin[a].page = live)
  OBVIOUS
<1> HIDE DEF quiet, calm
<1>4. admin \in [Admins -> AdminShape]
  BY Shapes
<1>5. /\ m \in AdminShape /\ m.phase = "write" /\ m.doc = {doc} /\ m.hit = hit
      /\ m.form = admin[a].form /\ m.shown = admin[a].shown /\ m.alone = quiet /\ m.calm = calm
  <2>1. admin[a] \in AdminShape
    BY <1>4
  <2>2. QED
    BY <1>2, <2>1 DEF AdminShape, AdminPhases
<1> HIDE DEF m
<1>6. \A b \in Admins : [admin[b] EXCEPT !.alone = FALSE] \in AdminShape
  BY <1>4 DEF AdminShape
<1>7. admin' \in [Admins -> AdminShape] /\ admin'[a] = m
  BY <1>1, <1>5, <1>6
<1>8. \A b \in Admins \ {a} : admin'[b] = [admin[b] EXCEPT !.alone = FALSE]
  BY <1>1
<1>9. QED
  BY <1>3, <1>5, <1>7, <1>8

\* A form becomes an edit of a document, or the operator is told off.
LEMMA SubmitEffect ==
    ASSUME ShapeInv, NEW a \in Admins, SubmitKeyForm(a) \/ SubmitSave(a)
    PROVE  /\ UNCHANGED <<now, disk, bundles, req, seen>> /\ admin[a].phase = "form"
           /\ \/ admin' = [admin EXCEPT ![a] = IdleAdmin]
              \/ \E doc \in DocumentShape, f \in Form :
                    LET hit == IF f.op = "save" THEN {}
                               ELSE {disk.keys[i].key : i \in BlockAt(f, disk.keys)}
                    IN /\ admin[a].form = {f} /\ hit \in SUBSET Secrets
                       /\ Distinct(disk.keys) => Distinct(doc.keys)
                       /\ StartOn(a, doc, hit)
<1>1. /\ disk \in DocumentShape /\ disk.keys \in Seq(Entry) /\ admin[a] \in AdminShape
      /\ admin[a].phase = "form"
  BY Shapes DEF SubmitKeyForm, SubmitSave
<1>2. PICK f \in admin[a].form : admin[a].form = {f}
  BY <1>1 DEF ShapeInv, AdminPart, AdminOK
<1>3. f \in Form /\ The(admin[a].form) = f
  BY <1>1, <1>2 DEF The, AdminShape
<1>4. \A ks \in Seq(Entry) : /\ [disk EXCEPT !.keys = ks] \in DocumentShape
                             /\ [disk EXCEPT !.keys = ks].keys = ks
  BY <1>1 DEF DocumentShape
<1>5. \A h \in {"sound", "env", "engine"} : /\ [disk EXCEPT !.health = h] \in DocumentShape
                                            /\ [disk EXCEPT !.health = h].keys = disk.keys
  BY <1>1 DEF DocumentShape
<1>6. {disk.keys[i].key : i \in BlockAt(f, disk.keys)} \in SUBSET Secrets
  <2>1. \A i \in BlockAt(f, disk.keys) : disk.keys[i] \in Entry
    BY <1>1 DEF BlockAt
  <2>2. QED
    BY <2>1, EntryFields
<1>7. CASE SubmitKeyForm(a)
  <2>1. f.op # "save" /\ UNCHANGED <<now, disk, bundles, req, seen>>
    BY <1>3, <1>7 DEF SubmitKeyForm
  <2>2. PICK e \in Entries :
          LET ks == Transform(f, e, disk.keys)
          IN \/ /\ Distinct(ks)
                /\ StartOn(a, [disk EXCEPT !.keys = ks], {disk.keys[i].key : i \in BlockAt(f, disk.keys)})
             \/ admin' = [admin EXCEPT ![a] = IdleAdmin]
    BY <1>3, <1>7 DEF SubmitKeyForm
  <2>3. Transform(f, e, disk.keys) \in Seq(Entry)
    BY <1>1, <1>3, <2>1, TransformShape
  <2>4. QED
    BY <1>1, <1>2, <1>3, <1>4, <1>6, <2>1, <2>2, <2>3
<1>8. CASE SubmitSave(a)
  <2>1. f.op = "save" /\ UNCHANGED <<now, disk, bundles, req, seen>>
    BY <1>3, <1>8 DEF SubmitSave
  <2>2. \/ \E ks \in SeqOf(Entries, MaxKeys) :
              Distinct(ks) /\ StartOn(a, [disk EXCEPT !.keys = ks], {})
        \/ \E h \in {"sound", "env", "engine"} : StartOn(a, [disk EXCEPT !.health = h], {})
    BY <1>8 DEF SubmitSave
  <2>3. \A ks \in SeqOf(Entries, MaxKeys) : ks \in Seq(Entry)
    <3>1. ASSUME NEW ks \in SeqOf(Entries, MaxKeys) PROVE ks \in Seq(Entry)
      <4>1. PICK n \in 0 .. MaxKeys : ks \in [1 .. n -> Entries]
        BY DEF SeqOf
      <4>2. n \in Nat /\ ks \in [1 .. n -> Entry]
        BY <4>1, HotReloadAssumption
      <4>3. QED
        BY <4>2, FunctionIsSeq
    <3>2. QED
      BY <3>1
  <2>4. \E doc \in DocumentShape : /\ Distinct(disk.keys) => Distinct(doc.keys)
                                   /\ StartOn(a, doc, {})
    BY <1>4, <1>5, <2>2, <2>3
  <2>5. QED
    BY <1>1, <1>2, <1>3, <2>1, <2>4
<1>9. QED
  BY <1>7, <1>8

LEMMA WriteDiskEffect ==
    ASSUME ShapeInv, NEW a \in Admins, WriteDisk(a)
    PROVE  /\ disk' \in DocumentShape /\ admin' \in [Admins -> AdminShape]
           /\ \A b \in Admins \ {a} : admin'[b] = admin[b]
           /\ admin[a].phase = "write" /\ disk' \in admin[a].doc
           /\ \/ /\ admin'[a] = IdleAdmin
                 /\ seen' = [seen EXCEPT !.drift = @ \cup {"saved"}]
              \/ /\ admin'[a].phase = "load" /\ admin'[a].form = {}
                 /\ admin'[a].alone => admin[a].alone
                 /\ UNCHANGED seen
<1>1. /\ admin \in [Admins -> AdminShape] /\ admin[a] \in AdminShape /\ admin[a].phase = "write"
  BY Shapes DEF WriteDisk
<1>2. PICK d \in admin[a].doc : admin[a].doc = {d}
  BY <1>1 DEF ShapeInv, AdminPart, AdminOK
<1>3. disk' = d /\ d \in DocumentShape /\ d \in admin[a].doc
  BY <1>1, <1>2 DEF WriteDisk, The, AdminShape
<1> DEFINE m == [IdleAdmin EXCEPT !.phase = "load", !.alone = admin[a].alone]
<1>4. m \in AdminShape /\ m.phase = "load" /\ m.form = {} /\ m.alone = admin[a].alone
  <2>1. admin[a].alone \in BOOLEAN
    BY <1>1 DEF AdminShape
  <2>2. QED
    BY <2>1, EmptyShapes DEF AdminShape, AdminPhases
<1>5. CASE admin' = [admin EXCEPT ![a] = IdleAdmin] /\ seen' = [seen EXCEPT !.drift = @ \cup {"saved"}]
  BY <1>1, <1>3, <1>5, EndEditEffect
<1>6. CASE admin' = [admin EXCEPT ![a] = m] /\ UNCHANGED seen
  <2> HIDE DEF m
  <2>1. /\ admin' \in [Admins -> AdminShape] /\ admin'[a] = m
        /\ \A b \in Admins \ {a} : admin'[b] = admin[b]
    BY <1>1, <1>4, <1>6
  <2>2. QED
    BY <1>1, <1>3, <1>4, <1>6, <2>1
<1>7. QED
  BY <1>5, <1>6 DEF WriteDisk, EndEdit

LEMMA LoadDiskEffect ==
    ASSUME ShapeInv, NEW a \in Admins, LoadDisk(a)
    PROVE  /\ admin' \in [Admins -> AdminShape]
           /\ \A b \in Admins \ {a} : admin'[b] = admin[b]
           /\ admin[a].phase = "load"
           /\ \/ /\ admin'[a] = IdleAdmin
                 /\ seen' = [seen EXCEPT !.drift = @ \cup {"failed"}]
              \/ /\ admin'[a].phase = "limiter" /\ admin'[a].next.keys = disk.keys
                 /\ admin'[a].alone = admin[a].alone
                 /\ UNCHANGED seen
<1>1. /\ admin \in [Admins -> AdminShape] /\ admin[a] \in AdminShape /\ admin[a].phase = "load"
      /\ disk \in DocumentShape /\ disk.keys \in Seq(Entry)
  BY Shapes DEF LoadDisk
<1> DEFINE n == [admin[a].next EXCEPT !.keys = disk.keys]
           m == [admin[a] EXCEPT !.phase = "limiter", !.doc = {disk}, !.next.keys = disk.keys]
<1>2. CASE admin' = [admin EXCEPT ![a] = IdleAdmin] /\ seen' = [seen EXCEPT !.drift = @ \cup {"failed"}]
  BY <1>1, <1>2, EndEditEffect
<1>3. CASE admin' = [admin EXCEPT ![a] = m] /\ UNCHANGED seen
  <2>1. n \in BundleShape /\ n.keys = disk.keys
    BY <1>1 DEF AdminShape, BundleShape
  <2>2. m = [admin[a] EXCEPT !.phase = "limiter", !.doc = {disk}, !.next = n]
    OBVIOUS
  <2> HIDE DEF n, m
  <2>3. m \in AdminShape /\ m.phase = "limiter" /\ m.next = n /\ m.alone = admin[a].alone
    BY <1>1, <2>1, <2>2 DEF AdminShape, AdminPhases
  <2>4. /\ admin' \in [Admins -> AdminShape] /\ admin'[a] = m
        /\ \A b \in Admins \ {a} : admin'[b] = admin[b]
    BY <1>1, <1>3, <2>3
  <2>5. QED
    BY <1>1, <1>3, <2>1, <2>3, <2>4
<1>4. QED
  BY <1>2, <1>3 DEF LoadDisk, EndEdit
-----------------------------------------------------------------------------
(* What a reload carries over *)

LEMMA RebuiltBuckets ==
    ASSUME NEW old \in BundleShape, DOMAIN old.buckets = DOMAIN old.keys,
           NEW ks \in Seq(Entry), NEW t \in Nat
    PROVE  LET n == LimiterRebuild(old.keys, old.buckets, ks, t)
           IN /\ n \in Seq(SUBSET Bucket) /\ Len(n) = Len(ks)
              /\ \A i \in DOMAIN ks : Single(n[i])
              /\ \A i \in DOMAIN ks : \A b \in n[i] : \E rl \in ks[i].rate :
                    /\ b.capacity = rl.requests
                    /\ \/ b.tokens = rl.requests * GRAIN
                       \/ \E j \in Position(old.keys, ks[i].key) : \E o \in old.buckets[j] :
                             b.tokens = o.tokens
<1> DEFINE inh(i) == Inherited(old.keys, old.buckets, ks, i)
           n == LimiterRebuild(old.keys, old.buckets, ks, t)
<1>1. /\ Len(ks) \in Nat /\ DOMAIN ks = 1 .. Len(ks) /\ \A i \in DOMAIN ks : ks[i] \in Entry
      /\ \A j \in DOMAIN old.keys : old.buckets[j] \in SUBSET Bucket
  BY DEF BundleShape
<1>2. ASSUME NEW i \in DOMAIN ks
      PROVE  /\ n[i] \in SUBSET Bucket /\ Single(n[i])
             /\ \A b \in n[i] : \E rl \in ks[i].rate :
                   /\ b.capacity = rl.requests
                   /\ \/ b.tokens = rl.requests * GRAIN
                      \/ \E j \in Position(old.keys, ks[i].key) : \E o \in old.buckets[j] :
                            b.tokens = o.tokens
  <2>1. /\ inh(i) \in SUBSET Bucket
        /\ \A x \in inh(i) : \E j \in Position(old.keys, ks[i].key) : x \in old.buckets[j]
        /\ \A j \in Position(old.keys, ks[i].key) : old.buckets[j] \subseteq inh(i)
    BY <1>1, InheritedCounters
  <2>2. n[i] = {BucketRebuild(inh(i), rl, t) : rl \in ks[i].rate}
    BY DEF LimiterRebuild
  <2> HIDE DEF inh, n
  <2>3. ks[i].rate \in SUBSET RateLimit /\ Single(ks[i].rate)
    BY <1>1, EntryFields
  <2>4. \A rl \in ks[i].rate :
           LET b == BucketRebuild(inh(i), rl, t)
           IN /\ b \in Bucket /\ b.capacity = rl.requests
              /\ b.tokens = rl.requests * GRAIN \/ \E o \in inh(i) : b.tokens = o.tokens
    BY <2>1, <2>3, BucketRebuildFields
  <2>5. Single(n[i])
    BY <2>2, <2>3 DEF Single
  <2>6. QED
    BY <2>1, <2>2, <2>4, <2>5
<1>3. n \in [1 .. Len(ks) -> SUBSET Bucket]
  BY <1>1, <1>2 DEF LimiterRebuild
<1>4. n \in Seq(SUBSET Bucket) /\ Len(n) = Len(ks)
  <2> HIDE DEF n
  <2> QED BY <1>1, <1>3, FunctionIsSeq
<1> HIDE DEF n
<1>5. QED
  BY <1>2, <1>4 DEF n

\* n are the windows of the keys ks, made at time t from those of bundle old.
WindowsCarried(old, ks, t, n) ==
    /\ n \in Seq(SUBSET Window) /\ Len(n) = Len(ks)
    /\ \A i \in DOMAIN ks : ks[i].budget # {} => n[i] # {}
    /\ \A i \in DOMAIN ks : \A w \in n[i] :
          /\ \E b \in ks[i].budget : w.per = b.per
          /\ \/ w.spent = 0 /\ \A j \in Position(old.keys, ks[i].key) : old.windows[j] = {}
             \/ \E j \in Position(old.keys, ks[i].key) : \E o \in old.windows[j] :
                   w.spent <= o.spent /\ (t < w.per => w.spent = o.spent)

LEMMA RebuiltWindows ==
    ASSUME NEW old \in BundleShape, DOMAIN old.windows = DOMAIN old.keys,
           NEW ks \in Seq(Entry), NEW t \in Nat
    PROVE  WindowsCarried(old, ks, t, BudgetsRebuild(old.keys, old.windows, ks, t))
<1> DEFINE inh(i) == Inherited(old.keys, old.windows, ks, i)
           n == BudgetsRebuild(old.keys, old.windows, ks, t)
<1>1. /\ Len(ks) \in Nat /\ DOMAIN ks = 1 .. Len(ks) /\ \A i \in DOMAIN ks : ks[i] \in Entry
      /\ \A j \in DOMAIN old.keys : old.windows[j] \in SUBSET Window
  BY DEF BundleShape
<1>2. ASSUME NEW i \in DOMAIN ks
      PROVE  /\ n[i] \in SUBSET Window
             /\ ks[i].budget # {} => n[i] # {}
             /\ \A w \in n[i] :
                   /\ \E b \in ks[i].budget : w.per = b.per
                   /\ \/ w.spent = 0 /\ \A j \in Position(old.keys, ks[i].key) : old.windows[j] = {}
                      \/ \E j \in Position(old.keys, ks[i].key) : \E o \in old.windows[j] :
                            w.spent <= o.spent /\ (t < w.per => w.spent = o.spent)
  <2>1. /\ inh(i) \in SUBSET Window
        /\ \A x \in inh(i) : \E j \in Position(old.keys, ks[i].key) : x \in old.windows[j]
        /\ \A j \in Position(old.keys, ks[i].key) : old.windows[j] \subseteq inh(i)
    BY <1>1, InheritedCounters
  <2>2. n[i] = {WindowRebuild(inh(i), b, t) : b \in ks[i].budget}
    BY DEF BudgetsRebuild
  <2> HIDE DEF inh, n
  <2>3. ks[i].budget \in SUBSET Budget
    BY <1>1, EntryFields
  <2>4. ASSUME NEW b \in ks[i].budget
        PROVE  LET w == WindowRebuild(inh(i), b, t)
               IN /\ w \in Window /\ w.per = b.per
                  /\ \/ w.spent = 0 /\ \A j \in Position(old.keys, ks[i].key) : old.windows[j] = {}
                     \/ \E j \in Position(old.keys, ks[i].key) : \E o \in old.windows[j] :
                           w.spent <= o.spent /\ (t < w.per => w.spent = o.spent)
    <3> DEFINE w == WindowRebuild(inh(i), b, t)
    <3>1. /\ w \in Window /\ w.per = b.per
          /\ inh(i) = {} => w.spent = 0
          /\ inh(i) # {} => \E o \in inh(i) : w.spent <= o.spent /\ (t < b.per => w.spent = o.spent)
      BY <2>1, <2>3, WindowRebuildFields
    <3> HIDE DEF w
    <3>2. CASE inh(i) = {}
      BY <2>1, <3>1, <3>2 DEF w
    <3>3. CASE inh(i) # {}
      BY <2>1, <3>1, <3>3 DEF w
    <3>4. QED
      BY <3>2, <3>3
  <2>5. QED
    BY <2>2, <2>4
<1>3. n \in [1 .. Len(ks) -> SUBSET Window]
  BY <1>1, <1>2 DEF BudgetsRebuild
<1>4. n \in Seq(SUBSET Window) /\ Len(n) = Len(ks)
  <2> HIDE DEF n
  <2> QED BY <1>1, <1>3, FunctionIsSeq
<1> HIDE DEF n
<1>5. QED
  BY <1>2, <1>4 DEF n, WindowsCarried

LEMMA CopyLimiterEffect ==
    ASSUME ShapeInv, NEW a \in Admins, CopyLimiter(a)
    PROVE  /\ admin' \in [Admins -> AdminShape]
           /\ \A b \in Admins \ {a} : admin'[b] = admin[b]
           /\ admin[a].phase = "limiter" /\ admin'[a].phase = "budget" /\ admin'[a].old = live
           /\ admin'[a].alone = admin[a].alone
           /\ admin'[a].next.keys = admin[a].next.keys /\ Counted(admin'[a].next)
           /\ \A i \in DOMAIN admin'[a].next.keys : \A b \in admin'[a].next.buckets[i] :
                 \E rl \in admin'[a].next.keys[i].rate :
                    /\ b.capacity = rl.requests
                    /\ \/ b.tokens = rl.requests * GRAIN
                       \/ \E j \in Position(Live.keys, admin'[a].next.keys[i].key) :
                             \E o \in Live.buckets[j] : b.tokens = o.tokens
<1>1. /\ admin \in [Admins -> AdminShape] /\ admin[a] \in AdminShape /\ admin[a].phase = "limiter"
      /\ Live \in BundleShape /\ DOMAIN Live.buckets = DOMAIN Live.keys /\ now \in Nat
      /\ live \in Nat
  BY Shapes DEF CopyLimiter, Live
<1> DEFINE ks == admin[a].next.keys
           new == LimiterRebuild(Live.keys, Live.buckets, ks, now)
           n == [admin[a].next EXCEPT !.buckets = new]
           m == [admin[a] EXCEPT !.phase = "budget", !.old = live, !.next.buckets = new]
<1>2. ks \in Seq(Entry) /\ admin[a].next \in BundleShape
  BY <1>1 DEF AdminShape, BundleShape
<1>3. /\ new \in Seq(SUBSET Bucket) /\ Len(new) = Len(ks)
      /\ \A i \in DOMAIN ks : Single(new[i])
      /\ \A i \in DOMAIN ks : \A b \in new[i] : \E rl \in ks[i].rate :
            /\ b.capacity = rl.requests
            /\ \/ b.tokens = rl.requests * GRAIN
               \/ \E j \in Position(Live.keys, ks[i].key) : \E o \in Live.buckets[j] :
                     b.tokens = o.tokens
  BY <1>1, <1>2, RebuiltBuckets
<1>4. admin' = [admin EXCEPT ![a] = m]
  BY DEF CopyLimiter
<1>5. m = [admin[a] EXCEPT !.phase = "budget", !.old = live, !.next = n]
  OBVIOUS
<1> HIDE DEF new
<1>6. n \in BundleShape /\ n.keys = ks /\ n.buckets = new
  BY <1>2, <1>3 DEF BundleShape
<1> HIDE DEF ks, n, m
<1>7. m \in AdminShape /\ m.phase = "budget" /\ m.old = live /\ m.next = n /\ m.alone = admin[a].alone
  BY <1>1, <1>5, <1>6 DEF AdminShape, AdminPhases
<1>8. admin' \in [Admins -> AdminShape] /\ admin'[a] = m /\ \A b \in Admins \ {a} : admin'[b] = admin[b]
  BY <1>1, <1>4, <1>7
<1>9. Counted(n)
  BY <1>3, <1>6 DEF Counted
<1>10. QED
  BY <1>1, <1>3, <1>6, <1>7, <1>8, <1>9, SMTT(40) DEF ks

LEMMA CopyBudgetsEffect ==
    ASSUME ShapeInv, NEW a \in Admins, CopyBudgets(a)
    PROVE  LET old == bundles[admin[a].old]
           IN /\ admin' \in [Admins -> AdminShape]
              /\ \A b \in Admins \ {a} : admin'[b] = admin[b]
              /\ admin[a].phase = "budget" /\ admin'[a].phase = "store"
              /\ admin[a].old \in DOMAIN bundles /\ admin'[a].old = admin[a].old
              /\ admin'[a].alone = admin[a].alone
              /\ admin'[a].next.keys = admin[a].next.keys
              /\ admin'[a].next.buckets = admin[a].next.buckets
              /\ Windowed(admin'[a].next)
              /\ \A i \in DOMAIN admin'[a].next.keys : \A w \in admin'[a].next.windows[i] :
                    \/ /\ w.spent = 0
                       /\ \A j \in Position(old.keys, admin'[a].next.keys[i].key) : old.windows[j] = {}
                    \/ \E j \in Position(old.keys, admin'[a].next.keys[i].key) : \E o \in old.windows[j] :
                             w.spent <= o.spent /\ (now < w.per => w.spent = o.spent)
<1> DEFINE old == bundles[admin[a].old]
           ks == admin[a].next.keys
           new == BudgetsRebuild(old.keys, old.windows, ks, now)
           n == [admin[a].next EXCEPT !.windows = new]
           m == [admin[a] EXCEPT !.phase = "store", !.next.windows = new]
<1>1. /\ admin \in [Admins -> AdminShape] /\ admin[a] \in AdminShape /\ admin[a].phase = "budget"
      /\ now \in Nat
  BY Shapes DEF CopyBudgets
<1>2. admin[a].old \in DOMAIN bundles
  BY <1>1 DEF ShapeInv, AdminPart, AdminOK
<1>3. old \in BundleShape /\ DOMAIN old.windows = DOMAIN old.keys
  BY <1>2, Shapes
<1>4. ks \in Seq(Entry) /\ admin[a].next \in BundleShape
  BY <1>1 DEF AdminShape, BundleShape
<1>5. admin' = [admin EXCEPT ![a] = m]
  BY DEF CopyBudgets
<1>6. m = [admin[a] EXCEPT !.phase = "store", !.next = n]
  OBVIOUS
<1>7. WindowsCarried(old, ks, now, new)
  BY <1>1, <1>3, <1>4, RebuiltWindows
<1> HIDE DEF old, ks, new
<1>8. /\ new \in Seq(SUBSET Window) /\ Len(new) = Len(ks)
      /\ \A i \in DOMAIN ks : ks[i].budget # {} => new[i] # {}
      /\ \A i \in DOMAIN ks : \A w \in new[i] :
            /\ \E b \in ks[i].budget : w.per = b.per
            /\ \/ w.spent = 0 /\ \A j \in Position(old.keys, ks[i].key) : old.windows[j] = {}
               \/ \E j \in Position(old.keys, ks[i].key) : \E o \in old.windows[j] :
                     w.spent <= o.spent /\ (now < w.per => w.spent = o.spent)
  BY <1>7 DEF WindowsCarried
<1>9. n \in BundleShape /\ n.keys = ks /\ n.buckets = admin[a].next.buckets /\ n.windows = new
  BY <1>4, <1>8 DEF BundleShape, ks
<1> HIDE DEF n, m
<1>10. /\ m \in AdminShape /\ m.phase = "store" /\ m.old = admin[a].old /\ m.next = n
      /\ m.alone = admin[a].alone
  BY <1>1, <1>6, <1>9 DEF AdminShape, AdminPhases
<1>11. admin' \in [Admins -> AdminShape] /\ admin'[a] = m /\ \A b \in Admins \ {a} : admin'[b] = admin[b]
  BY <1>1, <1>5, <1>10
<1>12. Windowed(n)
  BY <1>8, <1>9 DEF Windowed
<1>13. QED
  BY <1>1, <1>2, <1>8, <1>9, <1>10, <1>11, <1>12 DEF ks, old

\* A new bundle becomes the live one, the others stay.
LEMMA StoreEffect ==
    ASSUME ShapeInv, NEW a \in Admins, Store(a)
    PROVE  /\ admin' \in [Admins -> AdminShape]
           /\ \A b \in Admins \ {a} : admin'[b] = admin[b]
           /\ admin[a].phase = "store" /\ admin'[a] = IdleAdmin
           /\ Counted(admin[a].next) /\ Windowed(admin[a].next)
           /\ bundles' \in Seq(BundleShape) /\ live' = live + 1 /\ live' \in DOMAIN bundles'
           /\ DOMAIN bundles' = DOMAIN bundles \cup {live'}
           /\ bundles'[live'] = admin[a].next /\ Live' = admin[a].next
           /\ \A g \in DOMAIN bundles : bundles'[g] = bundles[g]
<1>1. /\ admin[a] \in AdminShape /\ admin[a].phase = "store" /\ bundles \in Seq(BundleShape)
      /\ live \in Nat /\ admin' = [admin EXCEPT ![a] = IdleAdmin]
      /\ bundles' = Append(bundles, admin[a].next)
  BY Shapes DEF Store, EndEdit
<1>2. admin[a].next \in BundleShape
  BY <1>1 DEF AdminShape
<1>3. Counted(admin[a].next) /\ Windowed(admin[a].next)
  BY <1>1 DEF ShapeInv, AdminPart, AdminOK
<1>4. /\ bundles' \in Seq(BundleShape) /\ Len(bundles') = live + 1
      /\ \A g \in 1 .. Len(bundles) : bundles'[g] = bundles[g]
      /\ bundles'[live + 1] = admin[a].next
  BY <1>1, <1>2, AppendProperties DEF live
<1>5. DOMAIN bundles' = DOMAIN bundles \cup {live + 1} /\ live' = live + 1
  BY <1>1, <1>4 DEF live
<1>6. \A g \in DOMAIN bundles : bundles'[g] = bundles[g]
  BY <1>1, <1>4
<1>7. Live' = admin[a].next
  BY <1>4, <1>5 DEF Live
<1>8. QED
  BY <1>1, <1>3, <1>4, <1>5, <1>6, <1>7, EndEditEffect
-----------------------------------------------------------------------------
(* What the steps of a request do *)

LEMMA RequestAtWork ==
    ASSUME ShapeInv, NEW r \in Requests, req[r].phase # "idle"
    PROVE  LET g == req[r].gen
               i == req[r].idx
           IN /\ req[r] \in RequestShape
              /\ g \in DOMAIN bundles /\ i \in DOMAIN bundles[g].keys
              /\ i \in DOMAIN bundles[g].buckets /\ i \in DOMAIN bundles[g].windows
              /\ The(req[r].secret) = bundles[g].keys[i].key
              /\ req[r].secret = {bundles[g].keys[i].key}
              /\ bundles[g].keys[i].key \in Secrets
              /\ req[r].phase = "recording" => req[r].target \in DOMAIN bundles
<1>1. /\ req[r].gen \in DOMAIN bundles /\ req[r].idx \in DOMAIN bundles[req[r].gen].keys
      /\ req[r].secret = {bundles[req[r].gen].keys[req[r].idx].key}
      /\ req[r].phase = "recording" => req[r].target \in DOMAIN bundles
  BY DEF ShapeInv, RequestPart, RequestOK
<1>2. bundles[req[r].gen].keys[req[r].idx] \in Entry
  BY <1>1, Shapes
<1>3. The(req[r].secret) = bundles[req[r].gen].keys[req[r].idx].key
  BY <1>1 DEF The
<1>4. QED
  BY <1>1, <1>2, <1>3, Shapes, EntryFields

\* The keys of the bundles stay, one request changes.
LEMMA RequestMoves ==
    ASSUME ShapeInv, NEW r \in Requests, NEW q \in RequestShape, RequestOK(q, bundles),
           req' = [req EXCEPT ![r] = q],
           DOMAIN bundles \subseteq DOMAIN bundles',
           \A h \in DOMAIN bundles : bundles'[h].keys = bundles[h].keys
    PROVE  req' \in [Requests -> RequestShape] /\ RequestPart'
<1>1. req \in [Requests -> RequestShape]
  BY Shapes
<1>2. ASSUME NEW p \in RequestShape, RequestOK(p, bundles) PROVE RequestOK(p, bundles')
  BY <1>2 DEF RequestOK
<1>3. QED
  BY <1>1, <1>2 DEF ShapeInv, RequestPart

LEMMA RequestPhase ==
    ASSUME ShapeInv, NEW r \in Requests, req[r].phase # "idle",
           NEW p \in {"limited", "dispatched"}
    PROVE  LET q == [req[r] EXCEPT !.phase = p]
           IN q \in RequestShape /\ RequestOK(q, bundles)
<1> DEFINE q == [req[r] EXCEPT !.phase = p]
<1>1. req[r] \in RequestShape
  BY Shapes
<1>2. /\ q \in RequestShape /\ q.phase = p /\ q.gen = req[r].gen
      /\ q.idx = req[r].idx /\ q.secret = req[r].secret
  BY <1>1 DEF RequestShape, RequestPhases
<1> HIDE DEF q
<1>3. RequestOK(q, bundles)
  BY <1>2 DEF ShapeInv, RequestPart, RequestOK
<1>4. QED
  BY <1>2, <1>3 DEF q

LEMMA CheckRateEffect ==
    ASSUME ShapeInv, NEW r \in Requests, CheckRate(r)
    PROVE  LET g == req[r].gen
               i == req[r].idx
               s == bundles[g].keys[i].key
               allowed == \A b \in bundles[g].buckets[i] : BucketAllows(b, now)
               new == {BucketCheck(b, now) : b \in bundles[g].buckets[i]}
           IN /\ BucketsPut(bundles, g, i, new, bundles') /\ live' = live
              /\ seen' \in Seen
              /\ seen'.billed = seen.billed /\ seen'.moved = seen.moved
              /\ seen'.late = seen.late /\ seen'.drift = seen.drift
              /\ seen'.taken = IF allowed THEN [seen.taken EXCEPT ![s] = @ + 1] ELSE seen.taken
              /\ req' \in [Requests -> RequestShape] /\ RequestPart'
<1> DEFINE g == req[r].gen
           i == req[r].idx
           s == bundles[g].keys[i].key
           allowed == \A b \in bundles[g].buckets[i] : BucketAllows(b, now)
           new == {BucketCheck(b, now) : b \in bundles[g].buckets[i]}
<1>1. /\ req[r].phase = "authenticated" /\ now \in Nat /\ seen \in Seen
      /\ bundles \in Seq(BundleShape)
  BY Shapes DEF CheckRate
<1>2. /\ g \in DOMAIN bundles /\ i \in DOMAIN bundles[g].buckets
      /\ The(req[r].secret) = s /\ s \in Secrets /\ req[r] \in RequestShape
  BY <1>1, RequestAtWork
<1>3. bundles[g].buckets[i] \in SUBSET Bucket
  BY <1>2, Shapes
<1>4. new \in SUBSET Bucket
  BY <1>1, <1>3, BucketCheckFields
<1>5. bundles' = [bundles EXCEPT ![g].buckets[i] = new]
  BY DEF CheckRate
<1>6. \/ allowed /\ req' = [req EXCEPT ![r].phase = "limited"]
         /\ seen' = [seen EXCEPT !.taken[s] = @ + 1]
      \/ ~allowed /\ req' = [req EXCEPT ![r] = IdleRequest] /\ seen' = seen
  BY <1>2 DEF CheckRate
<1> HIDE DEF g, i, s, allowed, new
<1>7. BucketsPut(bundles, g, i, new, bundles')
  BY <1>1, <1>2, <1>4, <1>5, PutBuckets
<1>8. /\ seen' \in Seen
      /\ seen'.billed = seen.billed /\ seen'.moved = seen.moved
      /\ seen'.late = seen.late /\ seen'.drift = seen.drift
      /\ seen'.taken = IF allowed THEN [seen.taken EXCEPT ![s] = @ + 1] ELSE seen.taken
  <2>1. CASE ~allowed /\ seen' = seen
    BY <1>1, <2>1
  <2>2. CASE allowed /\ seen' = [seen EXCEPT !.taken[s] = @ + 1]
    <3> DEFINE tk == [seen.taken EXCEPT ![s] = @ + 1]
    <3>1. seen.taken \in [Secrets -> Nat]
      BY <1>1 DEF Seen
    <3>2. tk \in [Secrets -> Nat]
      BY <1>2, <3>1
    <3>3. seen' = [seen EXCEPT !.taken = tk]
      BY <2>2
    <3> HIDE DEF tk
    <3>4. seen' \in Seen /\ seen'.taken = tk
      BY <1>1, <3>2, <3>3 DEF Seen
    <3>5. /\ seen'.billed = seen.billed /\ seen'.moved = seen.moved
          /\ seen'.late = seen.late /\ seen'.drift = seen.drift
      BY <1>1, <3>3 DEF Seen
    <3>6. QED
      BY <2>2, <3>4, <3>5 DEF tk
  <2>3. QED
    BY <1>6, <2>1, <2>2
<1>9. req' \in [Requests -> RequestShape] /\ RequestPart'
  <2>1. CASE req' = [req EXCEPT ![r] = IdleRequest]
    BY <1>7, <2>1, RequestMoves, EmptyShapes DEF BucketsPut
  <2>2. CASE req' = [req EXCEPT ![r].phase = "limited"]
    <3> DEFINE q == [req[r] EXCEPT !.phase = "limited"]
    <3>1. q \in RequestShape /\ RequestOK(q, bundles)
      BY <1>1, RequestPhase
    <3>2. req' = [req EXCEPT ![r] = q]
      BY <2>2
    <3> HIDE DEF q
    <3>3. QED
      BY <1>7, <3>1, <3>2, RequestMoves DEF BucketsPut
  <2>3. QED
    BY <1>6, <2>1, <2>2
<1>10. live' = live
  BY <1>7 DEF live, BucketsPut
<1>11. QED
  BY <1>7, <1>8, <1>9, <1>10 DEF g, i, s, allowed, new
-----------------------------------------------------------------------------
LEMMA CheckBudgetEffect ==
    ASSUME ShapeInv, NEW r \in Requests, CheckBudget(r)
    PROVE  LET g == req[r].gen
               i == req[r].idx
               new == {MaybeReset(w, now) : w \in bundles[g].windows[i]}
           IN /\ WindowsPut(bundles, g, i, new, bundles') /\ live' = live
              /\ g \in DOMAIN bundles /\ i \in DOMAIN bundles[g].keys
              /\ req' \in [Requests -> RequestShape] /\ RequestPart'
<1> DEFINE g == req[r].gen
           i == req[r].idx
           new == {MaybeReset(w, now) : w \in bundles[g].windows[i]}
<1>1. /\ req[r].phase = "limited" /\ now \in Nat /\ bundles \in Seq(BundleShape)
  BY Shapes DEF CheckBudget
<1>2. /\ g \in DOMAIN bundles /\ i \in DOMAIN bundles[g].windows /\ i \in DOMAIN bundles[g].keys
  BY <1>1, RequestAtWork
<1>3. bundles[g].windows[i] \in SUBSET Window
  BY <1>2, Shapes
<1>4. new \in SUBSET Window
  BY <1>1, <1>3, MaybeResetFields
<1>5. bundles' = [bundles EXCEPT ![g].windows[i] = new]
  BY DEF CheckBudget
<1>6. \/ req' = [req EXCEPT ![r] = IdleRequest]
      \/ req' = [req EXCEPT ![r] = [req[r] EXCEPT !.phase = "dispatched"]]
  BY DEF CheckBudget
<1> HIDE DEF g, i, new
<1>7. WindowsPut(bundles, g, i, new, bundles')
  BY <1>1, <1>2, <1>4, <1>5, PutWindows
<1>8. req' \in [Requests -> RequestShape] /\ RequestPart'
  <2>1. CASE req' = [req EXCEPT ![r] = IdleRequest]
    BY <1>7, <2>1, RequestMoves, EmptyShapes DEF WindowsPut
  <2>2. CASE req' = [req EXCEPT ![r] = [req[r] EXCEPT !.phase = "dispatched"]]
    <3> DEFINE q == [req[r] EXCEPT !.phase = "dispatched"]
    <3>1. q \in RequestShape /\ RequestOK(q, bundles)
      BY <1>1, RequestPhase
    <3>2. req' = [req EXCEPT ![r] = q]
      BY <2>2
    <3> HIDE DEF q
    <3>3. QED
      BY <1>7, <3>1, <3>2, RequestMoves DEF WindowsPut
  <2>3. QED
    BY <1>6, <2>1, <2>2
<1>9. live' = live
  BY <1>7 DEF live, WindowsPut
<1>10. QED
  BY <1>2, <1>7, <1>8, <1>9 DEF g, i, new

LEMMA AuthenticateEffect ==
    ASSUME ShapeInv, NEW r \in Requests, Authenticate(r)
    PROVE  req' \in [Requests -> RequestShape] /\ RequestPart'
<1>1. bundles' = bundles
  BY DEF Authenticate
<1>2. PICK i \in DOMAIN Live.keys :
          req' = [req EXCEPT ![r] =
            [phase |-> "authenticated", secret |-> {Live.keys[i].key}, idx |-> i,
             gen |-> live, target |-> 0]]
  BY DEF Authenticate
<1> DEFINE q == [phase |-> "authenticated", secret |-> {Live.keys[i].key}, idx |-> i,
                 gen |-> live, target |-> 0]
<1>3. Live.keys \in Seq(Entry) /\ live \in Nat /\ live \in DOMAIN bundles
  BY Shapes DEF Live
<1>4. i \in Nat /\ Live.keys[i] \in Entry
  BY <1>3
<1>5. Live.keys[i].key \in Secrets
  BY <1>4, EntryFields
<1>6. q \in RequestShape
  BY <1>3, <1>4, <1>5 DEF RequestShape, RequestPhases
<1>7. RequestOK(q, bundles)
  BY <1>3 DEF RequestOK, Live
<1> HIDE DEF q
<1>8. req' = [req EXCEPT ![r] = q]
  BY <1>2 DEF q
<1>9. QED
  BY <1>1, <1>6, <1>7, <1>8, RequestMoves

LEMMA EndUnchargedEffect ==
    ASSUME ShapeInv, NEW r \in Requests, EndUncharged(r)
    PROVE  req' \in [Requests -> RequestShape] /\ RequestPart'
<1>1. bundles' = bundles /\ req' = [req EXCEPT ![r] = IdleRequest]
  BY DEF EndUncharged
<1>2. QED
  BY <1>1, RequestMoves, EmptyShapes

LEMMA LoadForRecordEffect ==
    ASSUME ShapeInv, NEW r \in Requests, LoadForRecord(r)
    PROVE  req' \in [Requests -> RequestShape] /\ RequestPart'
<1> DEFINE q == [req[r] EXCEPT !.phase = "recording", !.target = live]
<1>1. bundles' = bundles /\ req[r].phase = "dispatched" /\ req[r] \in RequestShape
  BY Shapes DEF LoadForRecord
<1>2. live \in Nat /\ live \in DOMAIN bundles /\ req \in [Requests -> RequestShape]
  BY Shapes
<1>3. req' = [req EXCEPT ![r] = q]
  BY DEF LoadForRecord
<1>4. /\ q \in RequestShape /\ q.phase = "recording" /\ q.gen = req[r].gen
      /\ q.idx = req[r].idx /\ q.secret = req[r].secret /\ q.target = live
  BY <1>1, <1>2 DEF RequestShape, RequestPhases
<1> HIDE DEF q
<1>5. RequestOK(q, bundles)
  BY <1>1, <1>2, <1>4 DEF ShapeInv, RequestPart, RequestOK
<1>6. QED
  BY <1>1, <1>3, <1>4, <1>5, RequestMoves

\* A charge lands in the window at the request's position in the bundle it loaded
\* last, if that bundle has the position; what the run knows of it is noted.
LEMMA RecordEffect ==
    ASSUME ShapeInv, NEW r \in Requests, Record(r)
    PROVE  LET g == req[r].target
               i == req[r].idx
               s == The(req[r].secret)
           IN /\ g \in DOMAIN bundles /\ s \in Secrets /\ live' = live
              /\ req' \in [Requests -> RequestShape] /\ RequestPart'
              /\ seen' \in Seen /\ seen'.taken = seen.taken /\ seen'.drift = seen.drift
              /\ ~seen'.moved => ~seen.moved /\ i \in Position(bundles[g].keys, s)
              /\ ~seen'.late => /\ ~seen.late /\ g = live
                                /\ \A a \in Admins : ~HasPassedBy(a, g)
              /\ \E c \in Nat :
                    /\ seen'.billed = [seen.billed EXCEPT ![s] = @ + c]
                    /\ IF i \in DOMAIN bundles[g].windows
                       THEN WindowsPut(bundles, g, i,
                               {WindowRecord(w, c, now) : w \in bundles[g].windows[i]}, bundles')
                       ELSE bundles' = bundles
<1> DEFINE g == req[r].target
           i == req[r].idx
           s == The(req[r].secret)
<1>1. /\ req[r].phase = "recording" /\ now \in Nat /\ seen \in Seen /\ bundles \in Seq(BundleShape)
      /\ req' = [req EXCEPT ![r] = IdleRequest]
  BY Shapes DEF Record
<1>2. g \in DOMAIN bundles /\ s \in Secrets
  <2>1. s = bundles[req[r].gen].keys[req[r].idx].key
    BY <1>1, RequestAtWork
  <2>2. QED
    BY <1>1, <2>1, RequestAtWork
<1>3. PICK c \in Costs :
         /\ bundles' = IF i \in DOMAIN bundles[g].windows
                       THEN [bundles EXCEPT ![g].windows[i] =
                                {WindowRecord(w, c, now) : w \in @}]
                       ELSE bundles
         /\ seen' = [seen EXCEPT
               !.billed[s] = @ + c,
               !.late = @ \/ g # live \/ \E a \in Admins : HasPassedBy(a, g),
               !.moved = @ \/ i \notin Position(bundles[g].keys, s)]
  BY DEF Record
<1>4. c \in Nat
  BY HotReloadAssumption
<1> DEFINE bl == [seen.billed EXCEPT ![s] = @ + c]
           lt == seen.late \/ g # live \/ \E a \in Admins : HasPassedBy(a, g)
           mv == seen.moved \/ i \notin Position(bundles[g].keys, s)
           new == {WindowRecord(w, c, now) : w \in bundles[g].windows[i]}
<1>5. seen' = [seen EXCEPT !.billed = bl, !.late = lt, !.moved = mv]
  BY <1>3
<1>6. bundles' = IF i \in DOMAIN bundles[g].windows
                 THEN [bundles EXCEPT ![g].windows[i] = new]
                 ELSE bundles
  BY <1>3
<1>7. bl \in [Secrets -> Nat]
  <2>1. seen.billed \in [Secrets -> Nat]
    BY <1>1 DEF Seen
  <2>2. QED
    BY <1>2, <1>4, <2>1
<1>8. seen.late \in BOOLEAN /\ seen.moved \in BOOLEAN
  BY <1>1 DEF Seen
<1>9. lt \in BOOLEAN /\ mv \in BOOLEAN
  BY <1>8
<1>10. ~lt => ~seen.late /\ g = live /\ \A a \in Admins : ~HasPassedBy(a, g)
  OBVIOUS
<1>11. ~mv => ~seen.moved /\ i \in Position(bundles[g].keys, s)
  OBVIOUS
<1> HIDE DEF bl, lt, mv, g, i, s, new
<1>12. seen' \in Seen /\ seen'.billed = bl /\ seen'.late = lt /\ seen'.moved = mv
  BY <1>1, <1>5, <1>7, <1>9 DEF Seen
<1>13. seen'.taken = seen.taken /\ seen'.drift = seen.drift
  BY <1>1, <1>5 DEF Seen
<1>14. CASE i \notin DOMAIN bundles[g].windows
  <2>1. bundles' = bundles
    BY <1>6, <1>14
  <2>2. req' \in [Requests -> RequestShape] /\ RequestPart'
    BY <1>1, <2>1, RequestMoves, EmptyShapes
  <2>3. live' = live
    BY <2>1 DEF live
  <2>4. QED
    BY <1>2, <1>4, <1>10, <1>11, <1>12, <1>13, <1>14, <2>1, <2>2, <2>3 DEF g, i, s, bl
<1>15. CASE i \in DOMAIN bundles[g].windows
  <2>1. bundles' = [bundles EXCEPT ![g].windows[i] = new]
    BY <1>6, <1>15
  <2>2. bundles[g].windows[i] \in SUBSET Window
    BY <1>2, <1>15, Shapes
  <2>3. new \in SUBSET Window
    BY <1>1, <1>4, <2>2, WindowRecordFields DEF new
  <2>4. WindowsPut(bundles, g, i, new, bundles')
    BY <1>1, <1>2, <1>15, <2>1, <2>3, PutWindows
  <2>5. req' \in [Requests -> RequestShape] /\ RequestPart'
    BY <1>1, <2>4, RequestMoves, EmptyShapes DEF WindowsPut
  <2>6. live' = live
    BY <2>4 DEF live, WindowsPut
  <2>7. QED
    BY <1>2, <1>4, <1>10, <1>11, <1>12, <1>13, <1>15, <2>4, <2>5, <2>6 DEF g, i, s, bl, new
<1>16. QED
  BY <1>14, <1>15
-----------------------------------------------------------------------------
(* The first layer: types, shapes, and what operators and requests refer to *)

LEMMA ShapeInit == Init => ShapeInv
<1> SUFFICES ASSUME Init PROVE ShapeInv
  OBVIOUS
<1> DEFINE B == FreshBundle(FirstKeys, 0)
<1>1. /\ now = 0 /\ disk = [keys |-> FirstKeys, health |-> "sound"] /\ bundles = <<B>>
      /\ admin = [a \in Admins |-> IdleAdmin] /\ req = [r \in Requests |-> IdleRequest]
      /\ seen = NothingSeen
  BY DEF Init
<1>2. FirstKeys \in Seq(Entry)
  BY HotReloadAssumption DEF Keys
<1>3. B \in BundleShape /\ Counted(B) /\ Windowed(B)
  BY <1>2, FreshShape
<1> HIDE DEF B
<1>4. seen \in Seen
  BY <1>1 DEF Seen, NothingSeen
<1>5. /\ now \in Nat /\ disk \in DocumentShape
      /\ admin \in [Admins -> AdminShape] /\ req \in [Requests -> RequestShape]
  BY <1>1, <1>2, EmptyShapes DEF DocumentShape
<1>6. bundles \in Seq(BundleShape) /\ bundles # <<>> /\ \A g \in DOMAIN bundles : bundles[g] = B
  BY <1>1, <1>3
<1>7. BundlePart
  BY <1>3, <1>6 DEF BundlePart
<1>8. AdminPart /\ RequestPart
  BY <1>1, EmptyShapes DEF AdminPart, RequestPart
<1>9. QED
  BY <1>4, <1>5, <1>6, <1>7, <1>8 DEF ShapeInv, TypePart

\* One operator changes, and no bundle is lost.
LEMMA AdminMoves ==
    ASSUME ShapeInv, NEW a \in Admins, \A b \in Admins \ {a} : admin'[b] = admin[b],
           AdminOK(admin'[a], bundles'), DOMAIN bundles \subseteq DOMAIN bundles'
    PROVE  AdminPart'
<1>1. ASSUME NEW b \in Admins, AdminOK(admin[b], bundles) PROVE AdminOK(admin[b], bundles')
  BY <1>1 DEF AdminOK
<1>2. QED
  BY <1>1 DEF ShapeInv, AdminPart

LEMMA AdminsRest ==
    ASSUME ShapeInv, admin' = admin, DOMAIN bundles \subseteq DOMAIN bundles'
    PROVE  AdminPart'
BY DEF ShapeInv, AdminPart, AdminOK

LEMMA BucketsPutShape ==
    ASSUME ShapeInv, NEW g \in DOMAIN bundles, NEW i, NEW new,
           BucketsPut(bundles, g, i, new, bundles'),
           Single(bundles[g].buckets[i]) => Single(new),
           \A n \in new : \E b \in bundles[g].buckets[i] : n.capacity = b.capacity
    PROVE  BundlePart'
<1>1. bundles' # <<>>
  BY EmptySeq, Shapes DEF BucketsPut, live
<1>2. ASSUME NEW h \in DOMAIN bundles' PROVE Counted(bundles'[h]) /\ Windowed(bundles'[h])
  <2>1. h \in DOMAIN bundles /\ Counted(bundles[h]) /\ Windowed(bundles[h])
    BY <1>2 DEF BucketsPut, ShapeInv, BundlePart
  <2>2. /\ bundles'[h].keys = bundles[h].keys /\ bundles'[h].windows = bundles[h].windows
        /\ Len(bundles'[h].buckets) = Len(bundles[h].buckets)
        /\ \A j \in DOMAIN bundles[h].buckets :
              bundles'[h].buckets[j] = IF h = g /\ j = i THEN new ELSE bundles[h].buckets[j]
    BY <2>1 DEF BucketsPut
  <2>3. DOMAIN bundles[h].buckets = DOMAIN bundles[h].keys
    BY <2>1, Shapes
  <2>4. ASSUME NEW j \in DOMAIN bundles[h].keys, NEW n \in bundles'[h].buckets[j]
        PROVE  \E rl \in bundles[h].keys[j].rate : n.capacity = rl.requests
    <3>1. \E b \in bundles[h].buckets[j] : n.capacity = b.capacity
      BY <2>2, <2>3, <2>4
    <3>2. QED
      BY <2>1, <3>1 DEF Counted
  <2>5. ASSUME NEW j \in DOMAIN bundles[h].keys PROVE Single(bundles'[h].buckets[j])
    <3>1. Single(bundles[h].buckets[j])
      BY <2>1 DEF Counted
    <3>2. QED
      BY <2>2, <2>3, <3>1
  <2>6. Counted(bundles'[h])
    BY <2>1, <2>2, <2>4, <2>5 DEF Counted
  <2>7. Windowed(bundles'[h])
    BY <2>1, <2>2 DEF Windowed
  <2>8. QED
    BY <2>6, <2>7
<1>3. QED
  BY <1>1, <1>2 DEF BundlePart

LEMMA WindowsPutShape ==
    ASSUME ShapeInv, NEW g \in DOMAIN bundles, NEW i, NEW new,
           WindowsPut(bundles, g, i, new, bundles'),
           \A n \in new : \E w \in bundles[g].windows[i] : n.per = w.per,
           bundles[g].windows[i] # {} => new # {}
    PROVE  BundlePart'
<1>1. bundles' # <<>>
  BY EmptySeq, Shapes DEF WindowsPut, live
<1>2. ASSUME NEW h \in DOMAIN bundles' PROVE Counted(bundles'[h]) /\ Windowed(bundles'[h])
  <2>1. h \in DOMAIN bundles /\ Counted(bundles[h]) /\ Windowed(bundles[h])
    BY <1>2 DEF WindowsPut, ShapeInv, BundlePart
  <2>2. /\ bundles'[h].keys = bundles[h].keys /\ bundles'[h].buckets = bundles[h].buckets
        /\ Len(bundles'[h].windows) = Len(bundles[h].windows)
        /\ \A j \in DOMAIN bundles[h].windows :
              bundles'[h].windows[j] = IF h = g /\ j = i THEN new ELSE bundles[h].windows[j]
    BY <2>1 DEF WindowsPut
  <2>3. DOMAIN bundles[h].windows = DOMAIN bundles[h].keys
    BY <2>1, Shapes
  <2>4. ASSUME NEW j \in DOMAIN bundles[h].keys
        PROVE  /\ bundles[h].keys[j].budget # {} => bundles'[h].windows[j] # {}
               /\ \A n \in bundles'[h].windows[j] :
                     \E b \in bundles[h].keys[j].budget : n.per = b.per
    <3>1. /\ \A n \in bundles'[h].windows[j] : \E w \in bundles[h].windows[j] : n.per = w.per
          /\ bundles[h].windows[j] # {} => bundles'[h].windows[j] # {}
      BY <2>2, <2>3, <2>4
    <3>2. QED
      BY <2>1, <3>1 DEF Windowed
  <2>5. Windowed(bundles'[h])
    BY <2>1, <2>2, <2>4 DEF Windowed
  <2>6. Counted(bundles'[h])
    BY <2>1, <2>2 DEF Counted
  <2>7. QED
    BY <2>5, <2>6
<1>3. QED
  BY <1>1, <1>2 DEF BundlePart

\* What every operator's step other than the copies and the swap leaves alone.
Aside(m, n, a) ==
    /\ UNCHANGED <<now, bundles, req>>
    /\ n \in [Admins -> AdminShape]
    /\ \A b \in Admins \ {a} :
          n[b].phase \in {"budget", "store"} => /\ n[b].phase = m[b].phase
                                                /\ n[b].old = m[b].old /\ n[b].next = m[b].next
    /\ n[a].phase \notin {"budget", "store"}
    /\ disk' \in DocumentShape /\ seen' \in Seen
    /\ seen'.taken = seen.taken /\ seen'.billed = seen.billed
    /\ seen'.late = seen.late /\ seen'.moved = seen.moved

LEMMA DriftAside ==
    ASSUME seen \in Seen, NEW k \in {"saved", "failed", "raced"},
           seen' = [seen EXCEPT !.drift = @ \cup {k}]
    PROVE  /\ seen' \in Seen /\ seen'.drift = seen.drift \cup {k}
           /\ seen'.taken = seen.taken /\ seen'.billed = seen.billed
           /\ seen'.late = seen.late /\ seen'.moved = seen.moved
BY DEF Seen

Quiet(a) ==
    \/ OpenPage(a) \/ LeavePage(a) \/ SubmitKeyForm(a) \/ SubmitSave(a)
    \/ WriteDisk(a) \/ WriteFails(a) \/ LoadDisk(a) \/ BuildFails(a)

LEMMA QuietShape ==
    ASSUME ShapeInv, NEW a \in Admins, Quiet(a)
    PROVE  Aside(admin, admin', a) /\ AdminPart'
<1>1. /\ now \in Nat /\ disk \in DocumentShape /\ seen \in Seen
      /\ admin \in [Admins -> AdminShape] /\ \A b \in Admins : admin[b] \in AdminShape
  BY Shapes
<1>2. CASE OpenPage(a)
  <2>1. UNCHANGED <<now, disk, bundles, req, seen>>
    BY <1>2 DEF OpenPage
  <2>2. /\ admin' \in [Admins -> AdminShape] /\ \A b \in Admins \ {a} : admin'[b] = admin[b]
        /\ admin'[a].phase = "form" /\ \E f \in Form : admin'[a].form = {f}
    BY <1>2, OpenPageEffect
  <2>3. AdminOK(admin'[a], bundles')
    BY <2>2 DEF AdminOK
  <2>4. AdminPart'
    BY <2>1, <2>2, <2>3, AdminMoves
  <2>5. QED
    BY <1>1, <2>1, <2>2, <2>4 DEF Aside
<1>3. ASSUME admin' = [admin EXCEPT ![a] = IdleAdmin], UNCHANGED <<now, bundles, req>>,
             disk' \in DocumentShape, seen' \in Seen,
             seen'.taken = seen.taken, seen'.billed = seen.billed,
             seen'.late = seen.late, seen'.moved = seen.moved
      PROVE  Aside(admin, admin', a) /\ AdminPart'
  <2>1. /\ admin' \in [Admins -> AdminShape] /\ \A b \in Admins \ {a} : admin'[b] = admin[b]
        /\ admin'[a] = IdleAdmin
    BY <1>3, EndEditEffect
  <2>2. AdminPart'
    BY <1>3, <2>1, AdminMoves, EmptyShapes
  <2>3. QED
    BY <1>3, <2>1, <2>2, EmptyShapes DEF Aside
<1>4. CASE LeavePage(a) \/ WriteFails(a)
  <2>1. admin' = [admin EXCEPT ![a] = IdleAdmin] /\ UNCHANGED <<now, disk, bundles, req, seen>>
    BY <1>4 DEF LeavePage, WriteFails, EndEdit
  <2>2. QED
    BY <1>1, <1>3, <2>1
<1>5. CASE SubmitKeyForm(a) \/ SubmitSave(a)
  <2>1. /\ UNCHANGED <<now, disk, bundles, req, seen>>
        /\ \/ admin' = [admin EXCEPT ![a] = IdleAdmin]
           \/ \E doc \in DocumentShape, f \in Form, hit \in SUBSET Secrets :
                 admin[a].form = {f} /\ StartOn(a, doc, hit)
    BY <1>5, SubmitEffect
  <2>2. CASE admin' = [admin EXCEPT ![a] = IdleAdmin]
    BY <1>1, <1>3, <2>1, <2>2
  <2>3. ASSUME NEW doc \in DocumentShape, NEW f \in Form, NEW hit \in SUBSET Secrets,
               admin[a].form = {f}, StartOn(a, doc, hit)
        PROVE  Aside(admin, admin', a) /\ AdminPart'
    <3>1. /\ admin' \in [Admins -> AdminShape]
          /\ admin'[a].phase = "write" /\ admin'[a].doc = {doc} /\ admin'[a].form = {f}
          /\ \A b \in Admins \ {a} : admin'[b] = [admin[b] EXCEPT !.alone = FALSE]
      BY <2>3, StartOnEffect
    <3>2. \A b \in Admins \ {a} :
            /\ admin'[b].phase = admin[b].phase /\ admin'[b].form = admin[b].form
            /\ admin'[b].doc = admin[b].doc /\ admin'[b].old = admin[b].old
            /\ admin'[b].next = admin[b].next
      BY <1>1, <3>1 DEF AdminShape
    <3>3. \A b \in Admins \ {a} : AdminOK(admin'[b], bundles')
      <4>1. \A b \in Admins \ {a} : AdminOK(admin[b], bundles)
        BY DEF ShapeInv, AdminPart
      <4>2. QED
        BY <2>1, <3>2, <4>1 DEF AdminOK
    <3>4. AdminOK(admin'[a], bundles')
      BY <3>1 DEF AdminOK
    <3>5. AdminPart'
      BY <3>3, <3>4 DEF AdminPart
    <3>6. QED
      BY <1>1, <2>1, <3>1, <3>2, <3>5 DEF Aside
  <2>4. QED
    BY <2>1, <2>2, <2>3
<1>6. CASE WriteDisk(a)
  <2>1. UNCHANGED <<now, bundles, req>>
    BY <1>6 DEF WriteDisk
  <2>2. /\ disk' \in DocumentShape /\ admin' \in [Admins -> AdminShape]
        /\ \A b \in Admins \ {a} : admin'[b] = admin[b]
        /\ \/ admin'[a] = IdleAdmin /\ seen' = [seen EXCEPT !.drift = @ \cup {"saved"}]
           \/ admin'[a].phase = "load" /\ UNCHANGED seen
    BY <1>6, WriteDiskEffect
  <2>3. AdminOK(admin'[a], bundles') /\ admin'[a].phase \notin {"budget", "store"}
    BY <2>2, EmptyShapes DEF AdminOK
  <2>4. AdminPart'
    BY <2>1, <2>2, <2>3, AdminMoves
  <2>5. /\ seen' \in Seen /\ seen'.taken = seen.taken /\ seen'.billed = seen.billed
        /\ seen'.late = seen.late /\ seen'.moved = seen.moved
    BY <1>1, <2>2, DriftAside
  <2>6. QED
    BY <2>1, <2>2, <2>3, <2>4, <2>5 DEF Aside
<1>7. CASE LoadDisk(a)
  <2>1. UNCHANGED <<now, disk, bundles, req>>
    BY <1>7 DEF LoadDisk
  <2>2. /\ admin' \in [Admins -> AdminShape]
        /\ \A b \in Admins \ {a} : admin'[b] = admin[b]
        /\ \/ admin'[a] = IdleAdmin /\ seen' = [seen EXCEPT !.drift = @ \cup {"failed"}]
           \/ admin'[a].phase = "limiter" /\ UNCHANGED seen
    BY <1>7, LoadDiskEffect
  <2>3. AdminOK(admin'[a], bundles') /\ admin'[a].phase \notin {"budget", "store"}
    BY <2>2, EmptyShapes DEF AdminOK
  <2>4. AdminPart'
    BY <2>1, <2>2, <2>3, AdminMoves
  <2>5. /\ seen' \in Seen /\ seen'.taken = seen.taken /\ seen'.billed = seen.billed
        /\ seen'.late = seen.late /\ seen'.moved = seen.moved
    BY <1>1, <2>2, DriftAside
  <2>6. QED
    BY <1>1, <2>1, <2>2, <2>3, <2>4, <2>5 DEF Aside
<1>8. CASE BuildFails(a)
  <2>1. /\ admin' = [admin EXCEPT ![a] = IdleAdmin] /\ UNCHANGED <<now, disk, bundles, req>>
        /\ seen' = [seen EXCEPT !.drift = @ \cup {"failed"}]
    BY <1>8 DEF BuildFails, EndEdit
  <2>2. /\ seen' \in Seen /\ seen'.taken = seen.taken /\ seen'.billed = seen.billed
        /\ seen'.late = seen.late /\ seen'.moved = seen.moved
    BY <1>1, <2>1, DriftAside
  <2>3. QED
    BY <1>1, <1>3, <2>1, <2>2
<1>9. QED
  BY <1>2, <1>4, <1>5, <1>6, <1>7, <1>8 DEF Quiet
-----------------------------------------------------------------------------
LEMMA NoteStoreEffect ==
    ASSUME seen \in Seen, NEW a \in Admins, NoteStore(a)
    PROVE  /\ seen' \in Seen
           /\ seen'.drift = IF admin[a].alone THEN {} ELSE seen.drift \cup {"raced"}
           /\ seen'.taken = seen.taken /\ seen'.billed = seen.billed
           /\ seen'.late = seen.late /\ seen'.moved = seen.moved
<1> DEFINE dr == IF admin[a].alone THEN {} ELSE seen.drift \cup {"raced"}
<1>1. seen' = [seen EXCEPT !.drift = dr]
  BY DEF NoteStore
<1>2. dr \in SUBSET {"saved", "failed", "raced"}
  BY DEF Seen
<1> HIDE DEF dr
<1>3. /\ seen' \in Seen /\ seen'.drift = dr
      /\ seen'.taken = seen.taken /\ seen'.billed = seen.billed
      /\ seen'.late = seen.late /\ seen'.moved = seen.moved
  BY <1>1, <1>2 DEF Seen
<1>4. QED
  BY <1>3 DEF dr

LEMMA RestartEffect ==
    ASSUME ShapeInv, Restart
    PROVE  /\ ShapeInv' /\ now' = now /\ disk' = disk
           /\ bundles' = <<FreshBundle(disk.keys, now)>> /\ live' = 1
           /\ Live' = FreshBundle(disk.keys, now) /\ Live'.keys = disk.keys
           /\ DOMAIN bundles' = {1}
           /\ seen' = NothingSeen
           /\ \A a \in Admins : admin'[a] = IdleAdmin
<1> DEFINE B == FreshBundle(disk.keys, now)
<1>1. /\ now' = now /\ disk' = disk /\ bundles' = <<B>>
      /\ admin' = [a \in Admins |-> IdleAdmin] /\ req' = [r \in Requests |-> IdleRequest]
      /\ seen' = NothingSeen
  BY DEF Restart
<1>2. disk.keys \in Seq(Entry) /\ now \in Nat /\ disk \in DocumentShape
  BY Shapes
<1>3. B \in BundleShape /\ Counted(B) /\ Windowed(B) /\ B.keys = disk.keys
  BY <1>2, FreshShape
<1> HIDE DEF B
<1>4. seen' \in Seen
  BY <1>1 DEF Seen, NothingSeen
<1>5. admin' \in [Admins -> AdminShape] /\ req' \in [Requests -> RequestShape]
  BY <1>1, EmptyShapes
<1>6. /\ bundles' \in Seq(BundleShape) /\ bundles' # <<>> /\ DOMAIN bundles' = {1}
      /\ Len(bundles') = 1 /\ bundles'[1] = B
  BY <1>1, <1>3
<1>7. BundlePart'
  BY <1>3, <1>6 DEF BundlePart
<1>8. AdminPart' /\ RequestPart'
  BY <1>1, EmptyShapes DEF AdminPart, RequestPart
<1>9. live' = 1 /\ Live' = B
  BY <1>6 DEF live, Live
<1>10. ShapeInv'
  BY <1>1, <1>2, <1>4, <1>5, <1>6, <1>7, <1>8 DEF ShapeInv, TypePart
<1>11. QED
  BY <1>1, <1>3, <1>6, <1>9, <1>10 DEF B

LEMMA ShapeNext == ShapeInv /\ [Next]_vars => ShapeInv'
<1> SUFFICES ASSUME ShapeInv, [Next]_vars PROVE ShapeInv'
  OBVIOUS
<1>1. /\ now \in Nat /\ disk \in DocumentShape /\ bundles \in Seq(BundleShape)
      /\ admin \in [Admins -> AdminShape] /\ req \in [Requests -> RequestShape] /\ seen \in Seen
  BY Shapes
<1>2. ASSUME bundles' = bundles PROVE BundlePart'
  BY <1>2 DEF ShapeInv, BundlePart
<1>3. ASSUME bundles' = bundles, req' = req PROVE RequestPart'
  BY <1>3 DEF ShapeInv, RequestPart
<1>4. CASE UNCHANGED vars
  BY <1>4 DEF ShapeInv, TypePart, BundlePart, AdminPart, RequestPart, vars
<1>5. CASE Tick
  <2>1. UNCHANGED <<disk, bundles, admin, req, seen>> /\ now' \in Nat
    BY <1>1, <1>5 DEF Tick
  <2>2. AdminPart'
    BY <2>1, AdminsRest
  <2>3. QED
    BY <1>1, <1>2, <1>3, <2>1, <2>2 DEF ShapeInv, TypePart
<1>6. CASE Restart
  BY <1>6, RestartEffect
<1>7. ASSUME NEW a \in Admins, Quiet(a) PROVE ShapeInv'
  <2>1. Aside(admin, admin', a) /\ AdminPart'
    BY <1>7, QuietShape
  <2>2. QED
    BY <1>1, <1>2, <1>3, <2>1 DEF ShapeInv, TypePart, Aside
<1>8. ASSUME NEW a \in Admins, CopyLimiter(a) PROVE ShapeInv'
  <2>1. UNCHANGED <<now, disk, bundles, req, seen>>
    BY <1>8 DEF CopyLimiter
  <2>2. /\ admin' \in [Admins -> AdminShape] /\ \A b \in Admins \ {a} : admin'[b] = admin[b]
        /\ admin'[a].phase = "budget" /\ admin'[a].old = live /\ Counted(admin'[a].next)
    BY <1>8, CopyLimiterEffect
  <2>3. AdminOK(admin'[a], bundles')
    BY <2>1, <2>2, Shapes DEF AdminOK
  <2>4. AdminPart'
    BY <2>1, <2>2, <2>3, AdminMoves
  <2>5. QED
    BY <1>1, <1>2, <1>3, <2>1, <2>2, <2>4 DEF ShapeInv, TypePart
<1>9. ASSUME NEW a \in Admins, CopyBudgets(a) PROVE ShapeInv'
  <2>1. UNCHANGED <<now, disk, bundles, req, seen>>
    BY <1>9 DEF CopyBudgets
  <2>2. /\ admin' \in [Admins -> AdminShape] /\ \A b \in Admins \ {a} : admin'[b] = admin[b]
        /\ admin'[a].phase = "store" /\ admin'[a].old = admin[a].old
        /\ admin[a].old \in DOMAIN bundles /\ Windowed(admin'[a].next)
        /\ admin'[a].next.keys = admin[a].next.keys
        /\ admin'[a].next.buckets = admin[a].next.buckets /\ admin[a].phase = "budget"
    BY <1>9, CopyBudgetsEffect
  <2>3. Counted(admin'[a].next)
    BY <2>2 DEF ShapeInv, AdminPart, AdminOK, Counted
  <2>4. AdminOK(admin'[a], bundles')
    BY <2>1, <2>2, <2>3 DEF AdminOK
  <2>5. AdminPart'
    BY <2>1, <2>2, <2>4, AdminMoves
  <2>6. QED
    BY <1>1, <1>2, <1>3, <2>1, <2>2, <2>5 DEF ShapeInv, TypePart
<1>10. ASSUME NEW a \in Admins, Store(a) PROVE ShapeInv'
  <2>1. UNCHANGED <<now, disk, req>> /\ NoteStore(a)
    BY <1>10 DEF Store
  <2>2. /\ admin' \in [Admins -> AdminShape] /\ \A b \in Admins \ {a} : admin'[b] = admin[b]
        /\ admin'[a] = IdleAdmin
        /\ Counted(admin[a].next) /\ Windowed(admin[a].next)
        /\ bundles' \in Seq(BundleShape) /\ live' \in DOMAIN bundles'
        /\ DOMAIN bundles' = DOMAIN bundles \cup {live'}
        /\ bundles'[live'] = admin[a].next
        /\ \A g \in DOMAIN bundles : bundles'[g] = bundles[g]
    BY <1>10, StoreEffect
  <2>3. seen' \in Seen
    BY <1>1, <2>1, NoteStoreEffect
  <2>4. AdminPart'
    BY <2>2, AdminMoves, EmptyShapes
  <2>5. BundlePart'
    <3>1. bundles' # <<>>
      BY <2>2
    <3>2. QED
      BY <2>2, <3>1 DEF ShapeInv, BundlePart
  <2>6. RequestPart'
    BY <2>1, <2>2 DEF ShapeInv, RequestPart, RequestOK
  <2>7. QED
    BY <1>1, <2>1, <2>2, <2>3, <2>4, <2>5, <2>6 DEF ShapeInv, TypePart
<1>11. ASSUME NEW r \in Requests, Authenticate(r) \/ EndUncharged(r) \/ LoadForRecord(r)
       PROVE  ShapeInv'
  <2>1. UNCHANGED <<now, disk, bundles, admin, seen>>
    BY <1>11 DEF Authenticate, EndUncharged, LoadForRecord
  <2>2. req' \in [Requests -> RequestShape] /\ RequestPart'
    BY <1>11, AuthenticateEffect, EndUnchargedEffect, LoadForRecordEffect
  <2>3. AdminPart'
    BY <2>1, AdminsRest
  <2>4. QED
    BY <1>1, <1>2, <2>1, <2>2, <2>3 DEF ShapeInv, TypePart
<1>12. ASSUME NEW r \in Requests, CheckRate(r) PROVE ShapeInv'
  <2> DEFINE g == req[r].gen
             i == req[r].idx
             new == {BucketCheck(b, now) : b \in bundles[g].buckets[i]}
  <2>1. UNCHANGED <<now, disk, admin>> /\ req[r].phase = "authenticated"
    BY <1>12 DEF CheckRate
  <2>2. /\ BucketsPut(bundles, g, i, new, bundles') /\ seen' \in Seen
        /\ req' \in [Requests -> RequestShape] /\ RequestPart'
    BY <1>12, CheckRateEffect
  <2>3. g \in DOMAIN bundles /\ bundles[g].buckets[i] \in SUBSET Bucket
    <3>1. g \in DOMAIN bundles /\ i \in DOMAIN bundles[g].buckets
      BY <2>1, RequestAtWork
    <3>2. QED
      BY <3>1, Shapes
  <2>4. /\ \A n \in new : \E b \in bundles[g].buckets[i] : n.capacity = b.capacity
        /\ Single(bundles[g].buckets[i]) => Single(new)
    <3>1. \A b \in bundles[g].buckets[i] : BucketCheck(b, now).capacity = b.capacity
      BY <1>1, <2>3, BucketCheckFields
    <3>2. QED
      BY <3>1 DEF Single
  <2> HIDE DEF new
  <2>5. BundlePart'
    BY <2>2, <2>3, <2>4, BucketsPutShape
  <2>6. bundles' \in Seq(BundleShape) /\ DOMAIN bundles' = DOMAIN bundles
    BY <2>2 DEF BucketsPut
  <2>7. AdminPart'
    BY <2>1, <2>6, AdminsRest
  <2>8. QED
    BY <1>1, <2>1, <2>2, <2>5, <2>6, <2>7 DEF ShapeInv, TypePart
<1>13. ASSUME NEW r \in Requests, CheckBudget(r) PROVE ShapeInv'
  <2> DEFINE g == req[r].gen
             i == req[r].idx
             new == {MaybeReset(w, now) : w \in bundles[g].windows[i]}
  <2>1. UNCHANGED <<now, disk, admin, seen>>
    BY <1>13 DEF CheckBudget
  <2>2. /\ WindowsPut(bundles, g, i, new, bundles')
        /\ g \in DOMAIN bundles /\ i \in DOMAIN bundles[g].keys
        /\ req' \in [Requests -> RequestShape] /\ RequestPart'
    BY <1>13, CheckBudgetEffect
  <2>3. bundles[g].windows[i] \in SUBSET Window
    BY <2>2, Shapes
  <2>4. \A n \in new : \E w \in bundles[g].windows[i] : n.per = w.per
    <3>1. \A w \in bundles[g].windows[i] : MaybeReset(w, now).per = w.per
      BY <1>1, <2>3, MaybeResetFields
    <3>2. QED
      BY <3>1
  <2>5. bundles[g].windows[i] # {} => new # {}
    OBVIOUS
  <2> HIDE DEF new
  <2>6. BundlePart'
    BY <2>2, <2>4, <2>5, WindowsPutShape
  <2>7. bundles' \in Seq(BundleShape) /\ DOMAIN bundles' = DOMAIN bundles
    BY <2>2 DEF WindowsPut
  <2>8. AdminPart'
    BY <2>1, <2>7, AdminsRest
  <2>9. QED
    BY <1>1, <2>1, <2>2, <2>6, <2>7, <2>8 DEF ShapeInv, TypePart
<1>14. ASSUME NEW r \in Requests, Record(r) PROVE ShapeInv'
  <2> DEFINE g == req[r].target
             i == req[r].idx
             new(c) == {WindowRecord(w, c, now) : w \in bundles[g].windows[i]}
  <2>1. UNCHANGED <<now, disk, admin>>
    BY <1>14 DEF Record
  <2>2. PICK c \in Nat :
          IF i \in DOMAIN bundles[g].windows
          THEN WindowsPut(bundles, g, i, new(c), bundles')
          ELSE bundles' = bundles
    BY <1>14, RecordEffect
  <2>3. g \in DOMAIN bundles /\ seen' \in Seen /\ req' \in [Requests -> RequestShape] /\ RequestPart'
    BY <1>14, RecordEffect
  <2>4. /\ BundlePart' /\ bundles' \in Seq(BundleShape) /\ DOMAIN bundles' = DOMAIN bundles
    <3>1. CASE i \notin DOMAIN bundles[g].windows
      BY <1>1, <1>2, <2>2, <3>1
    <3>2. CASE i \in DOMAIN bundles[g].windows
      <4>1. WindowsPut(bundles, g, i, new(c), bundles')
        BY <2>2, <3>2
      <4>2. bundles[g].windows[i] \in SUBSET Window
        BY <2>3, <3>2, Shapes
      <4>3. \A n \in new(c) : \E w \in bundles[g].windows[i] : n.per = w.per
        <5>1. \A w \in bundles[g].windows[i] : WindowRecord(w, c, now).per = w.per
          BY <1>1, <4>2, WindowRecordFields
        <5>2. QED
          BY <5>1
      <4>4. bundles[g].windows[i] # {} => new(c) # {}
        OBVIOUS
      <4> HIDE DEF new
      <4>5. BundlePart'
        BY <2>3, <4>1, <4>3, <4>4, WindowsPutShape
      <4>6. QED
        BY <4>1, <4>5 DEF WindowsPut
    <3>3. QED
      BY <3>1, <3>2
  <2>5. AdminPart'
    BY <2>1, <2>4, AdminsRest
  <2>6. QED
    BY <1>1, <2>1, <2>3, <2>4, <2>5 DEF ShapeInv, TypePart
<1>15. QED
  BY <1>4, <1>5, <1>6, <1>7, <1>8, <1>9, <1>10, <1>11, <1>12, <1>13, <1>14 DEF Next, Quiet
-----------------------------------------------------------------------------
(* The second layer: whose tokens and whose spend a counter holds *)

LEMMA Scaled ==
    ASSUME NEW m \in Nat, NEW n \in Nat, m <= n
    PROVE  /\ m * GRAIN \in Nat /\ n * GRAIN \in Nat /\ m * GRAIN <= n * GRAIN
           /\ (m + 1) * GRAIN = m * GRAIN + GRAIN
<1>1. GRAIN \in Nat
  BY Units
<1> DEFINE k == n - m
<1>2. k \in Nat /\ n = m + k
  OBVIOUS
<1> HIDE DEF k
<1>3. k * GRAIN \in Nat /\ m * GRAIN \in Nat
  BY <1>1, <1>2
<1>4. n * GRAIN = m * GRAIN + k * GRAIN
  BY <1>1, <1>2
<1>5. (m + 1) * GRAIN = m * GRAIN + GRAIN
  BY <1>1
<1>6. QED
  BY <1>3, <1>4, <1>5

LEMMA HadGrows ==
    ASSUME NEW bs, NEW bs2, DOMAIN bs \subseteq DOMAIN bs2,
           \A h \in DOMAIN bs : bs2[h].keys = bs[h].keys, NEW s
    PROVE  Had(bs, s) \subseteq Had(bs2, s)
BY DEF Had

\* The limit a bundle configures for a key is one the key had.
LEMMA HadHere ==
    ASSUME NEW bs, NEW g \in DOMAIN bs, NEW i \in DOMAIN bs[g].keys
    PROVE  bs[g].keys[i].rate \subseteq Had(bs, bs[g].keys[i].key)
<1>1. i \in Position(bs[g].keys, bs[g].keys[i].key)
  BY DEF Position
<1>2. QED
  BY <1>1 DEF Had

\* Limits are numbers, so the sums below are.
LEMMA HadLimits ==
    ASSUME NEW bs, \A g \in DOMAIN bs : bs[g] \in BundleShape, NEW s, NEW rl \in Had(bs, s)
    PROVE  rl.requests \in Nat /\ rl.requests * GRAIN \in Nat
<1>1. PICK h \in DOMAIN bs : \E i \in Position(bs[h].keys, s) : rl \in bs[h].keys[i].rate
  BY DEF Had
<1>2. PICK i \in Position(bs[h].keys, s) : rl \in bs[h].keys[i].rate
  BY <1>1
<1>3. rl \in RateLimit
  <2>1. bs[h].keys[i] \in Entry
    BY <1>1, <1>2 DEF BundleShape, Position
  <2>2. QED
    BY <1>2, <2>1, EntryFields
<1>4. rl.requests \in Nat
  BY <1>3 DEF RateLimit
<1>5. QED
  BY <1>4, Scaled

\* A claim stays true as the key's requests take more and it gets further limits.
LEMMA TokensOwnedGrows ==
    ASSUME NEW B \in BundleShape, DOMAIN B.buckets = DOMAIN B.keys,
           NEW bs, NEW bs2, \A g \in DOMAIN bs : bs[g] \in BundleShape,
           \A s : Had(bs, s) \subseteq Had(bs2, s),
           NEW t1 \in [Secrets -> Nat], NEW t2 \in [Secrets -> Nat],
           \A s \in Secrets : t1[s] <= t2[s],
           TokensOwned(B, bs, t1)
    PROVE  TokensOwned(B, bs2, t2)
<1> SUFFICES ASSUME NEW i \in DOMAIN B.keys, NEW b \in B.buckets[i]
             PROVE  \E rl \in Had(bs2, B.keys[i].key) \cup B.keys[i].rate :
                       b.tokens + t2[B.keys[i].key] * GRAIN >= rl.requests * GRAIN
  BY DEF TokensOwned
<1> DEFINE s == B.keys[i].key
<1>1. B.keys[i] \in Entry /\ b \in Bucket
  BY DEF BundleShape
<1>2. s \in Secrets /\ b.tokens \in Nat /\ B.keys[i].rate \in SUBSET RateLimit
  BY <1>1, EntryFields DEF Bucket
<1>3. PICK rl \in Had(bs, s) \cup B.keys[i].rate :
        b.tokens + t1[s] * GRAIN >= rl.requests * GRAIN
  BY DEF TokensOwned
<1>4. rl.requests * GRAIN \in Nat
  <2>1. CASE rl \in Had(bs, s)
    BY <2>1, HadLimits
  <2>2. CASE rl \in B.keys[i].rate
    <3>1. rl.requests \in Nat
      BY <1>2, <2>2 DEF RateLimit
    <3>2. QED
      BY <3>1, Scaled
  <2>3. QED
    BY <2>1, <2>2
<1>5. t1[s] * GRAIN \in Nat /\ t2[s] * GRAIN \in Nat /\ t1[s] * GRAIN <= t2[s] * GRAIN
  BY <1>2, Scaled
<1>6. b.tokens + t2[s] * GRAIN >= rl.requests * GRAIN
  BY <1>2, <1>3, <1>4, <1>5
<1>7. rl \in Had(bs2, s) \cup B.keys[i].rate
  BY <1>3
<1>8. QED
  BY <1>6, <1>7

LEMMA SpendOwnedGrows ==
    ASSUME NEW B \in BundleShape, DOMAIN B.windows = DOMAIN B.keys,
           NEW b1 \in [Secrets -> Nat], NEW b2 \in [Secrets -> Nat],
           \A s \in Secrets : b1[s] <= b2[s],
           SpendOwned(B, b1)
    PROVE  SpendOwned(B, b2)
<1> SUFFICES ASSUME NEW i \in DOMAIN B.keys, NEW w \in B.windows[i]
             PROVE  w.spent <= b2[B.keys[i].key]
  BY DEF SpendOwned
<1>1. B.keys[i] \in Entry /\ w \in Window
  BY DEF BundleShape
<1>2. B.keys[i].key \in Secrets /\ w.spent \in Nat
  BY <1>1, EntryFields DEF Window
<1>3. w.spent <= b1[B.keys[i].key]
  BY DEF SpendOwned
<1>4. QED
  BY <1>2, <1>3

\* The bundle under construction has its counters in place once they are copied.
LEMMA NextShape ==
    ASSUME ShapeInv, NEW a \in Admins
    PROVE  /\ admin[a].next \in BundleShape /\ admin[a].next.keys \in Seq(Entry)
           /\ admin[a].phase \in {"budget", "store"} =>
                 /\ admin[a].old \in DOMAIN bundles
                 /\ DOMAIN admin[a].next.buckets = DOMAIN admin[a].next.keys
           /\ admin[a].phase = "store" => DOMAIN admin[a].next.windows = DOMAIN admin[a].next.keys
<1>1. admin[a] \in AdminShape
  BY Shapes
<1>2. admin[a].next \in BundleShape
  BY <1>1 DEF AdminShape
<1>3. /\ admin[a].phase \in {"budget", "store"} =>
            admin[a].old \in DOMAIN bundles /\ Len(admin[a].next.buckets) = Len(admin[a].next.keys)
      /\ admin[a].phase = "store" => Len(admin[a].next.windows) = Len(admin[a].next.keys)
  BY DEF ShapeInv, AdminPart, AdminOK, Counted, Windowed
<1>4. QED
  BY <1>2, <1>3 DEF BundleShape

LEMMA OwnerInit == Init => OwnerInv
<1> SUFFICES ASSUME Init PROVE OwnerInv
  OBVIOUS
<1> DEFINE B == FreshBundle(FirstKeys, 0)
<1>1. /\ bundles = <<B>> /\ seen = NothingSeen /\ \A a \in Admins : admin[a].phase = "idle"
  BY EmptyShapes DEF Init
<1>2. FirstKeys \in Seq(Entry)
  BY HotReloadAssumption DEF Keys
<1>3. \A g \in DOMAIN bundles : bundles[g] = B
  BY <1>1
<1>4. TokensOwned(B, bundles, seen.taken) /\ SpendOwned(B, seen.billed)
  <2>1. ASSUME NEW i \in DOMAIN FirstKeys, NEW b \in B.buckets[i]
        PROVE  \E rl \in FirstKeys[i].rate :
                  b.tokens + seen.taken[FirstKeys[i].key] * GRAIN >= rl.requests * GRAIN
    <3>1. \E rl \in FirstKeys[i].rate : b.tokens = rl.requests * GRAIN /\ rl.requests * GRAIN \in Nat
      BY <1>2, FreshShape
    <3>2. FirstKeys[i].key \in Secrets
      BY <1>2, EntryFields
    <3>3. seen.taken[FirstKeys[i].key] = 0
      BY <1>1, <3>2 DEF NothingSeen
    <3>4. 0 * GRAIN = 0
      BY Units
    <3>5. QED
      BY <3>1, <3>3, <3>4
  <2>2. ASSUME NEW i \in DOMAIN FirstKeys, NEW w \in B.windows[i]
        PROVE  w.spent <= seen.billed[FirstKeys[i].key]
    <3>1. w.spent = 0
      BY <1>2, FreshShape
    <3>2. FirstKeys[i].key \in Secrets
      BY <1>2, EntryFields
    <3>3. QED
      BY <1>1, <3>1, <3>2 DEF NothingSeen
  <2>3. B.keys = FirstKeys
    BY <1>2, FreshShape
  <2> HIDE DEF B
  <2>4. QED
    BY <2>1, <2>2, <2>3 DEF TokensOwned, SpendOwned
<1>5. QED
  BY <1>1, <1>3, <1>4 DEF OwnerInv

\* Nothing but bookkeeping of operators happened.
LEMMA OwnerAside ==
    ASSUME OwnerInv, UNCHANGED bundles,
           \A a \in Admins : admin'[a].phase \in {"budget", "store"} =>
              admin'[a].phase = admin[a].phase /\ admin'[a].next = admin[a].next,
           seen'.taken = seen.taken, seen'.billed = seen.billed, seen'.moved = seen.moved
    PROVE  OwnerInv'
BY DEF OwnerInv

LEMMA OwnerCopyLimiter ==
    ASSUME ShapeInv, OwnerInv, NEW a \in Admins, CopyLimiter(a)
    PROVE  OwnerInv'
<1> DEFINE B == admin'[a].next
<1>1. UNCHANGED <<bundles, seen>>
  BY DEF CopyLimiter
<1>2. /\ \A b \in Admins \ {a} : admin'[b] = admin[b]
      /\ admin'[a].phase = "budget"
      /\ \A i \in DOMAIN B.keys : \A b \in B.buckets[i] : \E rl \in B.keys[i].rate :
            \/ b.tokens = rl.requests * GRAIN
            \/ \E j \in Position(Live.keys, B.keys[i].key) : \E o \in Live.buckets[j] :
                  b.tokens = o.tokens
      /\ B.keys = admin[a].next.keys
  BY CopyLimiterEffect
<1>3. B.keys \in Seq(Entry)
  BY <1>2, NextShape
<1>4. live \in DOMAIN bundles /\ seen.taken \in [Secrets -> Nat]
  BY Shapes DEF Seen
<1>5. TokensOwned(Live, bundles, seen.taken)
  BY <1>4 DEF OwnerInv, Live
<1> HIDE DEF B
<1>6. ASSUME NEW i \in DOMAIN B.keys, NEW b \in B.buckets[i]
      PROVE  \E rl \in Had(bundles, B.keys[i].key) \cup B.keys[i].rate :
                b.tokens + seen.taken[B.keys[i].key] * GRAIN >= rl.requests * GRAIN
  <2>1. B.keys[i] \in Entry
    BY <1>3
  <2>2. B.keys[i].key \in Secrets /\ B.keys[i].rate \in SUBSET RateLimit
    BY <2>1, EntryFields
  <2>3. PICK rl \in B.keys[i].rate :
            \/ b.tokens = rl.requests * GRAIN
            \/ \E j \in Position(Live.keys, B.keys[i].key) : \E o \in Live.buckets[j] :
                  b.tokens = o.tokens
    BY <1>2
  <2>4. CASE b.tokens = rl.requests * GRAIN
    <3>1. rl.requests \in Nat
      BY <2>2 DEF RateLimit
    <3>2. rl.requests * GRAIN \in Nat /\ seen.taken[B.keys[i].key] * GRAIN \in Nat
      BY <1>4, <2>2, <3>1, Scaled
    <3>3. b.tokens + seen.taken[B.keys[i].key] * GRAIN >= rl.requests * GRAIN
      BY <2>4, <3>2
    <3>4. QED
      BY <3>3
  <2>5. ASSUME NEW j \in Position(Live.keys, B.keys[i].key), NEW o \in Live.buckets[j],
               b.tokens = o.tokens
        PROVE  \E l \in Had(bundles, B.keys[i].key) :
                  b.tokens + seen.taken[B.keys[i].key] * GRAIN >= l.requests * GRAIN
    <3>1. j \in DOMAIN Live.keys /\ Live.keys[j].key = B.keys[i].key
      BY DEF Position
    <3>2. Live.keys[j].rate \subseteq Had(bundles, B.keys[i].key)
      BY <1>4, <3>1, HadHere DEF Live
    <3>3. \E l \in Had(bundles, B.keys[i].key) \cup Live.keys[j].rate :
             o.tokens + seen.taken[B.keys[i].key] * GRAIN >= l.requests * GRAIN
      BY <1>5, <3>1 DEF TokensOwned
    <3>4. QED
      BY <2>5, <3>2, <3>3
  <2>6. QED
    BY <2>3, <2>4, <2>5
<1>7. TokensOwned(B, bundles, seen.taken)
  BY <1>6 DEF TokensOwned
<1>8. QED
  BY <1>1, <1>2, <1>7 DEF OwnerInv, B

LEMMA OwnerCopyBudgets ==
    ASSUME ShapeInv, OwnerInv, NEW a \in Admins, CopyBudgets(a)
    PROVE  OwnerInv'
<1> DEFINE B == admin'[a].next
           old == bundles[admin[a].old]
<1>1. UNCHANGED <<bundles, seen>>
  BY DEF CopyBudgets
<1>2. /\ \A b \in Admins \ {a} : admin'[b] = admin[b]
      /\ admin[a].phase = "budget" /\ admin'[a].phase = "store"
      /\ admin[a].old \in DOMAIN bundles
      /\ B.keys = admin[a].next.keys /\ B.buckets = admin[a].next.buckets
      /\ \A i \in DOMAIN B.keys : \A w \in B.windows[i] :
            \/ w.spent = 0
            \/ \E j \in Position(old.keys, B.keys[i].key) : \E o \in old.windows[j] :
                  w.spent <= o.spent
  BY CopyBudgetsEffect
<1>3. B.keys \in Seq(Entry) /\ old \in BundleShape /\ DOMAIN old.windows = DOMAIN old.keys
  BY <1>2, NextShape, Shapes
<1>4. seen.billed \in [Secrets -> Nat]
  BY Shapes DEF Seen
<1>5. TokensOwned(B, bundles, seen.taken)
  BY <1>2 DEF OwnerInv, TokensOwned
<1>6. ~seen.moved => SpendOwned(old, seen.billed)
  BY <1>2 DEF OwnerInv
<1>7. admin'[a].phase = "store" /\ admin'[a].next = B
  BY <1>2
<1>8. B \in BundleShape /\ DOMAIN B.windows = DOMAIN B.keys
  <2>1. admin' \in [Admins -> AdminShape] /\ Windowed(B)
    BY CopyBudgetsEffect
  <2>2. B \in BundleShape
    BY <2>1 DEF AdminShape
  <2>3. QED
    BY <2>1, <2>2 DEF Windowed, BundleShape
<1> HIDE DEF B, old
<1>9. ASSUME ~seen.moved, NEW i \in DOMAIN B.keys, NEW w \in B.windows[i]
      PROVE  w.spent <= seen.billed[B.keys[i].key]
  <2>1. B.keys[i] \in Entry
    BY <1>3
  <2>2. seen.billed[B.keys[i].key] \in Nat
    BY <1>4, <2>1, EntryFields
  <2>3. CASE w.spent = 0
    BY <2>2, <2>3
  <2>4. ASSUME NEW j \in Position(old.keys, B.keys[i].key), NEW o \in old.windows[j],
               w.spent <= o.spent
        PROVE  w.spent <= seen.billed[B.keys[i].key]
    <3>1. j \in DOMAIN old.keys /\ old.keys[j].key = B.keys[i].key
      BY DEF Position
    <3>2. o.spent <= seen.billed[B.keys[i].key]
      BY <1>6, <1>9, <3>1 DEF SpendOwned
    <3>3. o \in Window /\ w \in Window
      BY <1>3, <1>8, <3>1 DEF BundleShape
    <3>4. o.spent \in Nat /\ w.spent \in Nat
      BY <3>3 DEF Window
    <3>5. QED
      BY <2>2, <2>4, <3>2, <3>4
  <2>5. QED
    BY <1>2, <2>3, <2>4
<1>10. ~seen.moved => SpendOwned(B, seen.billed)
  BY <1>9 DEF SpendOwned
<1>11. QED
  BY <1>1, <1>2, <1>5, <1>7, <1>10 DEF OwnerInv

LEMMA OwnerStore ==
    ASSUME ShapeInv, OwnerInv, NEW a \in Admins, Store(a)
    PROVE  OwnerInv'
<1> DEFINE B == admin[a].next
<1>1. /\ \A b \in Admins \ {a} : admin'[b] = admin[b]
      /\ admin[a].phase = "store" /\ admin'[a] = IdleAdmin
      /\ DOMAIN bundles' = DOMAIN bundles \cup {live'} /\ live' \in DOMAIN bundles'
      /\ bundles'[live'] = B
      /\ \A g \in DOMAIN bundles : bundles'[g] = bundles[g]
  BY StoreEffect
<1>2. /\ seen \in Seen /\ \A g \in DOMAIN bundles : bundles[g] \in BundleShape
      /\ \A g \in DOMAIN bundles : DOMAIN bundles[g].buckets = DOMAIN bundles[g].keys
  BY Shapes
<1>3. seen'.taken = seen.taken /\ seen'.billed = seen.billed /\ seen'.moved = seen.moved
  <2>1. NoteStore(a)
    BY DEF Store
  <2>2. QED
    BY <1>2, <2>1, NoteStoreEffect
<1>4. seen.taken \in [Secrets -> Nat]
  BY <1>2 DEF Seen
<1>5. \A s : Had(bundles, s) \subseteq Had(bundles', s)
  BY <1>1, HadGrows
<1>6. \A s \in Secrets : seen.taken[s] <= seen.taken[s]
  BY <1>4
<1>7. ASSUME NEW g \in DOMAIN bundles PROVE TokensOwned(bundles[g], bundles', seen.taken)
  <2>1. TokensOwned(bundles[g], bundles, seen.taken)
    BY DEF OwnerInv
  <2>2. QED
    BY <1>2, <1>4, <1>5, <1>6, <2>1, TokensOwnedGrows
<1>8. ASSUME NEW b \in Admins, admin[b].phase \in {"budget", "store"}
      PROVE  TokensOwned(admin[b].next, bundles', seen.taken)
  <2>1. TokensOwned(admin[b].next, bundles, seen.taken)
    BY <1>8 DEF OwnerInv
  <2>2. admin[b].next \in BundleShape /\ DOMAIN admin[b].next.buckets = DOMAIN admin[b].next.keys
    BY <1>8, NextShape
  <2>3. QED
    BY <1>2, <1>4, <1>5, <1>6, <2>1, <2>2, TokensOwnedGrows
<1>9. ~seen.moved => SpendOwned(B, seen.billed)
  BY <1>1 DEF OwnerInv
<1>10. \A g \in DOMAIN bundles' : TokensOwned(bundles'[g], bundles', seen'.taken)
  BY <1>1, <1>3, <1>7, <1>8
<1>11. \A b \in Admins : admin'[b].phase \in {"budget", "store"} =>
          TokensOwned(admin'[b].next, bundles', seen'.taken)
  BY <1>1, <1>3, <1>8, EmptyShapes
<1>12. ~seen'.moved =>
         /\ \A g \in DOMAIN bundles' : SpendOwned(bundles'[g], seen'.billed)
         /\ \A b \in Admins : admin'[b].phase = "store" => SpendOwned(admin'[b].next, seen'.billed)
  BY <1>1, <1>3, <1>9, EmptyShapes DEF OwnerInv
<1>13. QED
  BY <1>10, <1>11, <1>12 DEF OwnerInv

LEMMA OwnerRestart ==
    ASSUME ShapeInv, Restart
    PROVE  OwnerInv'
<1> DEFINE B == FreshBundle(disk.keys, now)
<1>1. /\ bundles' = <<B>> /\ seen' = NothingSeen /\ \A a \in Admins : admin'[a].phase = "idle"
      /\ B.keys = disk.keys
  BY RestartEffect, EmptyShapes
<1>2. disk.keys \in Seq(Entry) /\ now \in Nat
  BY Shapes
<1>3. \A g \in DOMAIN bundles' : bundles'[g] = B
  BY <1>1
<1>4. ASSUME NEW i \in DOMAIN disk.keys
      PROVE  /\ \A b \in B.buckets[i] : \E rl \in disk.keys[i].rate :
                   b.tokens + seen'.taken[disk.keys[i].key] * GRAIN >= rl.requests * GRAIN
             /\ \A w \in B.windows[i] : w.spent <= seen'.billed[disk.keys[i].key]
  <2>1. /\ \A b \in B.buckets[i] : \E rl \in disk.keys[i].rate :
              b.tokens = rl.requests * GRAIN /\ rl.requests * GRAIN \in Nat
        /\ \A w \in B.windows[i] : w.spent = 0
    BY <1>2, FreshShape
  <2>2. disk.keys[i].key \in Secrets
    BY <1>2, EntryFields
  <2>3. seen'.taken[disk.keys[i].key] = 0 /\ seen'.billed[disk.keys[i].key] = 0 /\ 0 * GRAIN = 0
    BY <1>1, <2>2, Units DEF NothingSeen
  <2> HIDE DEF B
  <2>4. QED
    BY <2>1, <2>3
<1> HIDE DEF B
<1>5. TokensOwned(B, bundles', seen'.taken) /\ SpendOwned(B, seen'.billed)
  BY <1>1, <1>4 DEF TokensOwned, SpendOwned
<1>6. QED
  BY <1>1, <1>3, <1>5 DEF OwnerInv
-----------------------------------------------------------------------------
LEMMA SeenFields ==
    ASSUME seen \in Seen
    PROVE  seen.taken \in [Secrets -> Nat] /\ seen.billed \in [Secrets -> Nat]
BY DEF Seen

\* A bucket gives up a token only to a request of its key, and that is noted.
LEMMA OwnerCheckRate ==
    ASSUME ShapeInv, ShapeInv', OwnerInv, NEW r \in Requests, CheckRate(r)
    PROVE  OwnerInv'
<1> DEFINE g == req[r].gen
           i == req[r].idx
           s == bundles[g].keys[i].key
           allowed == \A b \in bundles[g].buckets[i] : BucketAllows(b, now)
           new == {BucketCheck(b, now) : b \in bundles[g].buckets[i]}
           t1 == seen.taken
           t2 == seen'.taken
<1>1. req[r].phase = "authenticated" /\ admin' = admin
  BY DEF CheckRate
<1>2. /\ g \in DOMAIN bundles /\ i \in DOMAIN bundles[g].keys /\ i \in DOMAIN bundles[g].buckets
      /\ s \in Secrets
  BY <1>1, RequestAtWork
<1>3. /\ BucketsPut(bundles, g, i, new, bundles')
      /\ seen' \in Seen /\ seen'.billed = seen.billed /\ seen'.moved = seen.moved
      /\ t2 = IF allowed THEN [t1 EXCEPT ![s] = @ + 1] ELSE t1
  BY CheckRateEffect
<1>4. now \in Nat /\ seen \in Seen
  BY Shapes
<1>5. t1 \in [Secrets -> Nat] /\ t2 \in [Secrets -> Nat]
  BY <1>3, <1>4, SeenFields DEF Seen
<1>6. \A x \in Secrets : t1[x] <= t2[x]
  <2> HIDE DEF allowed, s, t1, t2
  <2> QED BY <1>2, <1>3, <1>5 DEF t1, t2
<1>7. allowed => t2[s] = t1[s] + 1
  <2> HIDE DEF allowed, s, t1, t2
  <2> QED BY <1>2, <1>3, <1>5 DEF t1, t2
<1>8. \A x : Had(bundles, x) \subseteq Had(bundles', x)
  BY <1>3, HadGrows DEF BucketsPut
<1>9. \A h \in DOMAIN bundles : /\ bundles[h] \in BundleShape
                                /\ DOMAIN bundles[h].buckets = DOMAIN bundles[h].keys
  BY Shapes
<1>10. \A h \in DOMAIN bundles : TokensOwned(bundles[h], bundles', t2)
  BY <1>5, <1>6, <1>8, <1>9, TokensOwnedGrows DEF OwnerInv
<1>11. \A a \in Admins : admin[a].phase \in {"budget", "store"} =>
          TokensOwned(admin[a].next, bundles', t2)
  BY <1>5, <1>6, <1>8, <1>9, NextShape, TokensOwnedGrows DEF OwnerInv
<1>12. ASSUME NEW n \in new
       PROVE  \E rl \in Had(bundles', s) : n.tokens + t2[s] * GRAIN >= rl.requests * GRAIN
  <2>1. PICK b \in bundles[g].buckets[i] : n = BucketCheck(b, now)
    OBVIOUS
  <2>2. b \in Bucket /\ Single(bundles[g].buckets[i])
    BY <1>2, <1>9, SMTT(40) DEF BundleShape, ShapeInv, BundlePart, Counted
  <2>3. allowed <=> BucketAllows(b, now)
    BY <2>2 DEF Single
  <2> DEFINE paid == n.tokens + (IF BucketAllows(b, now) THEN GRAIN ELSE 0)
  <2>4. n \in Bucket /\ (paid >= b.tokens \/ paid >= b.capacity * GRAIN)
    BY <1>4, <2>1, <2>2, BucketCheckFields
  <2>5. /\ n.tokens \in Nat /\ b.tokens \in Nat /\ b.capacity \in Nat /\ b.capacity * GRAIN \in Nat
        /\ t1[s] * GRAIN \in Nat /\ t2[s] * GRAIN \in Nat /\ GRAIN \in Nat
    <3>1. n.tokens \in Nat /\ b.tokens \in Nat /\ b.capacity \in Nat
      BY <2>2, <2>4 DEF Bucket
    <3>2. t1[s] \in Nat /\ t2[s] \in Nat
      BY <1>2, <1>5
    <3>3. b.capacity * GRAIN \in Nat
      BY <3>1, Scaled
    <3>4. t1[s] * GRAIN \in Nat /\ t2[s] * GRAIN \in Nat
      <4> HIDE DEF t1, t2, s
      <4> QED BY <3>2, Scaled
    <3>5. QED
      BY <3>1, <3>3, <3>4, Units
  <2>6. paid + t1[s] * GRAIN <= n.tokens + t2[s] * GRAIN
    <3>1. CASE allowed
      <4>1. t2[s] * GRAIN = t1[s] * GRAIN + GRAIN
        <5> HIDE DEF allowed, s, t1, t2
        <5>1. t1[s] \in Nat /\ t2[s] = t1[s] + 1
          BY <1>2, <1>5, <1>7, <3>1
        <5>2. \A k \in Nat : k <= k
          OBVIOUS
        <5>3. \A k \in Nat : (k + 1) * GRAIN = k * GRAIN + GRAIN
          BY <5>2, Scaled
        <5> QED
          BY <5>1, <5>3
      <4>2. paid = n.tokens + GRAIN
        BY <2>3, <3>1
      <4> HIDE DEF paid, t1, t2, s
      <4>3. QED
        BY <2>5, <4>1, <4>2
    <3>2. CASE ~allowed
      <4>1. t2[s] * GRAIN = t1[s] * GRAIN
        BY <1>3, <3>2
      <4>2. paid = n.tokens
        <5> HIDE DEF allowed, t1, t2, s, new
        <5>1. ~BucketAllows(b, now)
          BY <2>3, <3>2
        <5> QED
          BY <2>5, <5>1
      <4> HIDE DEF paid, t1, t2, s
      <4>3. QED
        BY <2>5, <4>1, <4>2
    <3>3. QED
      BY <3>1, <3>2
  <2>7. paid \in Nat
    <3>1. \A x, y \in Nat : x + y \in Nat /\ x + 0 \in Nat
      OBVIOUS
    <3> QED
      BY <2>5, <3>1
  <2>8. CASE paid >= b.tokens
    <3>1. PICK rl \in Had(bundles, s) \cup bundles[g].keys[i].rate :
            b.tokens + t1[s] * GRAIN >= rl.requests * GRAIN
      BY <1>2 DEF OwnerInv, TokensOwned
    <3>2. rl \in Had(bundles, s) /\ rl \in Had(bundles', s)
      BY <1>2, <1>8, <3>1, HadHere
    <3>3. rl.requests * GRAIN \in Nat
      BY <1>9, <3>2, HadLimits
    <3> HIDE DEF paid, t1, t2, s
    <3>4. n.tokens + t2[s] * GRAIN >= rl.requests * GRAIN
      BY <2>5, <2>6, <2>7, <2>8, <3>1, <3>3
    <3>5. QED
      BY <3>2, <3>4
  <2>9. CASE paid >= b.capacity * GRAIN
    <3>1. PICK rl \in bundles[g].keys[i].rate : b.capacity = rl.requests
      BY <1>2 DEF ShapeInv, BundlePart, Counted
    <3>2. rl \in Had(bundles', s)
      BY <1>2, <1>8, <3>1, HadHere
    <3> HIDE DEF paid, t1, t2, s
    <3>3. n.tokens + t2[s] * GRAIN >= rl.requests * GRAIN
      BY <2>5, <2>6, <2>7, <2>9, <3>1
    <3>4. QED
      BY <3>2, <3>3
  <2>10. QED
    BY <2>4, <2>8, <2>9
<1> HIDE DEF g, i, s, allowed, new, t1, t2
<1>13. ASSUME NEW h \in DOMAIN bundles' PROVE TokensOwned(bundles'[h], bundles', t2)
  <2>1. /\ h \in DOMAIN bundles /\ bundles'[h].keys = bundles[h].keys
        /\ \A j \in DOMAIN bundles[h].keys :
              bundles'[h].buckets[j] = IF h = g /\ j = i THEN new ELSE bundles[h].buckets[j]
    BY <1>3, <1>9 DEF BucketsPut
  <2>2. TokensOwned(bundles[h], bundles', t2)
    BY <1>10, <2>1
  <2>3. ASSUME NEW j \in DOMAIN bundles[h].keys, NEW b \in bundles'[h].buckets[j]
        PROVE  \E rl \in Had(bundles', bundles[h].keys[j].key) \cup bundles[h].keys[j].rate :
                  b.tokens + t2[bundles[h].keys[j].key] * GRAIN >= rl.requests * GRAIN
    <3>1. CASE h = g /\ j = i
      <4>1. b \in new /\ bundles[h].keys[j].key = s
        BY <2>1, <2>3, <3>1 DEF s
      <4>2. QED
        BY <1>12, <4>1
    <3>2. CASE ~(h = g /\ j = i)
      BY <2>1, <2>2, <2>3, <3>2 DEF TokensOwned
    <3>3. QED
      BY <3>1, <3>2
  <2>4. QED
    BY <2>1, <2>3 DEF TokensOwned
<1>14. ~seen.moved => \A h \in DOMAIN bundles' : SpendOwned(bundles'[h], seen.billed)
  BY <1>3 DEF OwnerInv, SpendOwned, BucketsPut
<1>15. QED
  BY <1>1, <1>3, <1>11, <1>13, <1>14 DEF OwnerInv, t2

\* What a change of windows that puts nobody else's spend in them leaves true.
LEMMA OwnerWindowsPut ==
    ASSUME ShapeInv, OwnerInv, admin' = admin, seen' \in Seen,
           seen'.taken = seen.taken, ~seen'.moved => ~seen.moved,
           \A s \in Secrets : seen.billed[s] <= seen'.billed[s],
           NEW g \in DOMAIN bundles, NEW i, NEW new,
           \/ bundles' = bundles
           \/ /\ WindowsPut(bundles, g, i, new, bundles')
              /\ ~seen'.moved => \A n \in new : n.spent <= seen'.billed[bundles[g].keys[i].key]
    PROVE  OwnerInv'
<1>1. /\ DOMAIN bundles' = DOMAIN bundles
      /\ \A h \in DOMAIN bundles : /\ bundles'[h].keys = bundles[h].keys
                                   /\ bundles'[h].buckets = bundles[h].buckets
  BY DEF WindowsPut
<1>2. \A s : Had(bundles', s) = Had(bundles, s)
  BY <1>1 DEF Had
<1>3. \A h \in DOMAIN bundles' : TokensOwned(bundles'[h], bundles', seen'.taken)
  BY <1>1, <1>2 DEF OwnerInv, TokensOwned
<1>4. \A a \in Admins : admin'[a].phase \in {"budget", "store"} =>
         TokensOwned(admin'[a].next, bundles', seen'.taken)
  BY <1>2 DEF OwnerInv, TokensOwned
<1>5. \A h \in DOMAIN bundles : /\ bundles[h] \in BundleShape
                                /\ DOMAIN bundles[h].windows = DOMAIN bundles[h].keys
  BY Shapes
<1>6. seen.billed \in [Secrets -> Nat] /\ seen'.billed \in [Secrets -> Nat]
  BY Shapes DEF Seen
<1>7. ~seen.moved => \A h \in DOMAIN bundles : SpendOwned(bundles[h], seen'.billed)
  BY <1>5, <1>6, SpendOwnedGrows DEF OwnerInv
<1>8. ~seen'.moved => \A a \in Admins : admin'[a].phase = "store" =>
         SpendOwned(admin'[a].next, seen'.billed)
  <2>1. ASSUME ~seen'.moved, NEW a \in Admins, admin[a].phase = "store"
        PROVE  SpendOwned(admin[a].next, seen'.billed)
    <3>1. /\ admin[a].next \in BundleShape
          /\ DOMAIN admin[a].next.windows = DOMAIN admin[a].next.keys
      BY <2>1, NextShape
    <3>2. SpendOwned(admin[a].next, seen.billed)
      BY <2>1 DEF OwnerInv
    <3>3. QED
      BY <1>6, <3>1, <3>2, SpendOwnedGrows
  <2>2. QED
    BY <2>1
<1>9. ASSUME ~seen'.moved, NEW h \in DOMAIN bundles' PROVE SpendOwned(bundles'[h], seen'.billed)
  <2>1. SpendOwned(bundles[h], seen'.billed) /\ h \in DOMAIN bundles
    BY <1>1, <1>7, <1>9
  <2>2. CASE bundles' = bundles
    BY <2>1, <2>2
  <2>3. CASE /\ WindowsPut(bundles, g, i, new, bundles')
             /\ \A n \in new : n.spent <= seen'.billed[bundles[g].keys[i].key]
    <3>1. /\ bundles'[h].keys = bundles[h].keys
          /\ \A j \in DOMAIN bundles[h].keys :
                bundles'[h].windows[j] = IF h = g /\ j = i THEN new ELSE bundles[h].windows[j]
      BY <1>5, <2>1, <2>3 DEF WindowsPut
    <3>2. QED
      BY <2>1, <2>3, <3>1 DEF SpendOwned
  <2>4. QED
    BY <1>9, <2>2, <2>3
<1>10. QED
  BY <1>3, <1>4, <1>8, <1>9 DEF OwnerInv

LEMMA OwnerCheckBudget ==
    ASSUME ShapeInv, OwnerInv, NEW r \in Requests, CheckBudget(r)
    PROVE  OwnerInv'
<1> DEFINE g == req[r].gen
           i == req[r].idx
           new == {MaybeReset(w, now) : w \in bundles[g].windows[i]}
<1>1. admin' = admin /\ seen' = seen
  BY DEF CheckBudget
<1>2. WindowsPut(bundles, g, i, new, bundles') /\ g \in DOMAIN bundles /\ i \in DOMAIN bundles[g].keys
  BY CheckBudgetEffect
<1>3. seen \in Seen /\ now \in Nat /\ bundles[g].windows[i] \in SUBSET Window
      /\ bundles[g].keys[i] \in Entry
  <2>1. seen \in Seen /\ now \in Nat
    BY Shapes
  <2>2. bundles[g].windows[i] \in SUBSET Window
    BY <1>2, Shapes
  <2>3. bundles[g].keys[i] \in Entry
    BY <1>2, Shapes
  <2>4. QED
    BY <2>1, <2>2, <2>3
<1>4. seen.billed \in [Secrets -> Nat] /\ bundles[g].keys[i].key \in Secrets
  BY <1>3, SeenFields, EntryFields
<1>5. ASSUME ~seen.moved, NEW n \in new PROVE n.spent <= seen.billed[bundles[g].keys[i].key]
  <2>1. PICK w \in bundles[g].windows[i] : n = MaybeReset(w, now)
    OBVIOUS
  <2>2. w \in Window /\ n \in Window /\ n.spent <= w.spent
    BY <1>3, <2>1, MaybeResetFields
  <2>3. w.spent <= seen.billed[bundles[g].keys[i].key]
    BY <1>2, <1>5 DEF OwnerInv, SpendOwned
  <2>4. w.spent \in Nat /\ n.spent \in Nat
    BY <2>2 DEF Window
  <2>5. seen.billed[bundles[g].keys[i].key] \in Nat
    BY <1>4
  <2> HIDE DEF g, i, new
  <2>6. QED
    BY <2>2, <2>3, <2>4, <2>5
<1> HIDE DEF new, g, i
<1>6. QED
  BY <1>1, <1>2, <1>3, <1>4, <1>5, OwnerWindowsPut

\* A charge counts in the window of the request's own key, unless the key moved.
LEMMA OwnerRecord ==
    ASSUME ShapeInv, OwnerInv, NEW r \in Requests, Record(r)
    PROVE  OwnerInv'
<1> DEFINE g == req[r].target
           i == req[r].idx
           s == The(req[r].secret)
           new(c) == {WindowRecord(w, c, now) : w \in bundles[g].windows[i]}
<1>1. admin' = admin
  BY DEF Record
<1>2. /\ g \in DOMAIN bundles /\ s \in Secrets /\ seen' \in Seen /\ seen'.taken = seen.taken
      /\ ~seen'.moved => ~seen.moved /\ i \in Position(bundles[g].keys, s)
  BY RecordEffect
<1>3. PICK c \in Nat :
        /\ seen'.billed = [seen.billed EXCEPT ![s] = @ + c]
        /\ IF i \in DOMAIN bundles[g].windows
           THEN WindowsPut(bundles, g, i, new(c), bundles')
           ELSE bundles' = bundles
  BY RecordEffect
<1>4. seen \in Seen /\ now \in Nat
  BY Shapes
<1>5. seen.billed \in [Secrets -> Nat]
  BY <1>4, SeenFields
<1>6. seen'.billed[s] = seen.billed[s] + c /\ \A x \in Secrets : seen.billed[x] <= seen'.billed[x]
  <2> HIDE DEF s
  <2> QED BY <1>2, <1>3, <1>5
<1>7. ASSUME ~seen'.moved, NEW n \in new(c), i \in DOMAIN bundles[g].windows
      PROVE  n.spent <= seen'.billed[bundles[g].keys[i].key]
  <2>1. PICK w \in bundles[g].windows[i] : n = WindowRecord(w, c, now)
    OBVIOUS
  <2>2. w \in Window
    BY <1>2, <1>7, Shapes
  <2>3. n \in Window /\ n.spent <= w.spent + c
    BY <1>4, <2>1, <2>2, WindowRecordFields
  <2>4. i \in DOMAIN bundles[g].keys /\ bundles[g].keys[i].key = s /\ ~seen.moved
    BY <1>2, <1>7 DEF Position
  <2>5. w.spent <= seen.billed[s]
    BY <1>2, <2>4 DEF OwnerInv, SpendOwned
  <2>6. w.spent \in Nat /\ n.spent \in Nat /\ seen.billed[s] \in Nat
    BY <1>2, <1>5, <2>2, <2>3 DEF Window
  <2> HIDE DEF s, g, i
  <2>7. QED
    BY <1>6, <2>3, <2>4, <2>5, <2>6
<1> HIDE DEF new, g, i, s
<1>8. \/ bundles' = bundles
      \/ /\ WindowsPut(bundles, g, i, new(c), bundles')
         /\ ~seen'.moved => \A n \in new(c) : n.spent <= seen'.billed[bundles[g].keys[i].key]
  BY <1>3, <1>7
<1>9. QED
  BY <1>1, <1>2, <1>6, <1>8, OwnerWindowsPut

LEMMA OwnerNext == ShapeInv /\ ShapeInv' /\ OwnerInv /\ [Next]_vars => OwnerInv'
<1> SUFFICES ASSUME ShapeInv, ShapeInv', OwnerInv, [Next]_vars PROVE OwnerInv'
  OBVIOUS
<1>1. CASE UNCHANGED vars
  BY <1>1, OwnerAside DEF vars
<1>2. CASE Tick
  BY <1>2, OwnerAside DEF Tick
<1>3. CASE Restart
  BY <1>3, OwnerRestart
<1>4. ASSUME NEW a \in Admins, Quiet(a) PROVE OwnerInv'
  <2>1. Aside(admin, admin', a)
    BY <1>4, QuietShape
  <2>2. QED
    BY <2>1, OwnerAside DEF Aside
<1>5. ASSUME NEW a \in Admins, CopyLimiter(a) \/ CopyBudgets(a) \/ Store(a) PROVE OwnerInv'
  BY <1>5, OwnerCopyLimiter, OwnerCopyBudgets, OwnerStore
<1>6. ASSUME NEW r \in Requests, Authenticate(r) \/ EndUncharged(r) \/ LoadForRecord(r)
      PROVE  OwnerInv'
  BY <1>6, OwnerAside DEF Authenticate, EndUncharged, LoadForRecord
<1>7. ASSUME NEW r \in Requests, CheckRate(r) \/ CheckBudget(r) \/ Record(r) PROVE OwnerInv'
  BY <1>7, OwnerCheckRate, OwnerCheckBudget, OwnerRecord
<1>8. QED
  BY <1>1, <1>2, <1>3, <1>4, <1>5, <1>6, <1>7 DEF Next, Quiet

LEMMA OwnerPays == ShapeInv /\ OwnerInv => ChargedToOwner
<1> SUFFICES ASSUME ShapeInv, OwnerInv, NEW g \in DOMAIN bundles, NEW i \in DOMAIN bundles[g].keys
             PROVE  LET s == bundles[g].keys[i].key
                    IN /\ \A b \in bundles[g].buckets[i] :
                             \E h \in DOMAIN bundles : \E e \in Configured(h, s) : \E rl \in e.rate :
                                b.tokens + seen.taken[s] * GRAIN >= rl.requests * GRAIN
                       /\ ~seen.moved => \A w \in bundles[g].windows[i] : w.spent <= seen.billed[s]
  BY DEF ChargedToOwner
<1> DEFINE s == bundles[g].keys[i].key
<1>1. ASSUME NEW b \in bundles[g].buckets[i]
      PROVE  \E h \in DOMAIN bundles : \E e \in Configured(h, s) : \E rl \in e.rate :
                b.tokens + seen.taken[s] * GRAIN >= rl.requests * GRAIN
  <2>1. PICK rl \in Had(bundles, s) \cup bundles[g].keys[i].rate :
          b.tokens + seen.taken[s] * GRAIN >= rl.requests * GRAIN
    BY DEF OwnerInv, TokensOwned
  <2>2. rl \in Had(bundles, s)
    BY <2>1, HadHere
  <2>3. \E h \in DOMAIN bundles : \E e \in Configured(h, s) : rl \in e.rate
    BY <2>2 DEF Had, Configured
  <2>4. QED
    BY <2>1, <2>3
<1>2. ~seen.moved => \A w \in bundles[g].windows[i] : w.spent <= seen.billed[s]
  BY DEF OwnerInv, SpendOwned
<1>3. QED
  BY <1>1, <1>2
-----------------------------------------------------------------------------
(* The third layer: what edits leave in the file and in the live configuration *)

LEMMA EditInit == Init => EditInv
<1> SUFFICES ASSUME Init PROVE EditInv
  OBVIOUS
<1>1. FirstKeys \in Seq(Entry)
  BY HotReloadAssumption DEF Keys
<1>2. FreshBundle(FirstKeys, 0).keys = FirstKeys
  BY <1>1, FreshShape
<1>3. disk.keys = FirstKeys /\ Live.keys = FirstKeys /\ \A a \in Admins : admin[a] = IdleAdmin
  BY <1>2 DEF Init, Live, live
<1>4. QED
  BY <1>3, EmptyShapes DEF EditInv, Busy, FormKnows, EditHitsShownKey

\* Counters move, requests move, the clock ticks.
LEMMA EditAside ==
    ASSUME ShapeInv, EditInv, UNCHANGED <<disk, admin>>, seen'.drift = seen.drift, live' = live,
           DOMAIN bundles' = DOMAIN bundles,
           \A g \in DOMAIN bundles : bundles'[g].keys = bundles[g].keys
    PROVE  EditInv'
<1>1. live \in DOMAIN bundles
  BY Shapes
<1>2. Live'.keys = Live.keys
  BY <1>1 DEF Live
<1>3. \A a \in Admins : FormKnows(admin'[a], bundles')
  BY DEF EditInv, FormKnows
<1>4. EditHitsShownKey'
  BY DEF EditInv, EditHitsShownKey
<1>5. (\A a \in Admins : ~Mid(a)') /\ seen'.drift = {} => disk'.keys = Live'.keys
  BY <1>2 DEF EditInv, Mid
<1>6. \A a \in Admins : Busy(a)' /\ admin'[a].alone =>
         /\ \A b \in Admins \ {a} : ~Busy(b)'
         /\ admin'[a].phase \in {"limiter", "budget", "store"} => admin'[a].next.keys = disk'.keys
  BY DEF EditInv, Busy
<1>7. QED
  BY <1>3, <1>4, <1>5, <1>6 DEF EditInv

\* One operator takes a step: nobody else was undisturbed if it was at work, and
\* what it does to file and live configuration is in the last assumptions.
LEMMA EditMoves ==
    ASSUME EditInv, NEW a \in Admins, \A b \in Admins \ {a} : admin'[b] = admin[b],
           DOMAIN bundles \subseteq DOMAIN bundles',
           \A g \in DOMAIN bundles : bundles'[g].keys = bundles[g].keys,
           Busy(a) \/ (~Busy(a)' /\ disk' = disk),
           admin'[a].phase # "write", FormKnows(admin'[a], bundles'),
           Busy(a)' /\ admin'[a].alone =>
              /\ Busy(a) /\ admin[a].alone
              /\ admin'[a].phase \in {"limiter", "budget", "store"} => admin'[a].next.keys = disk'.keys,
           (\A b \in Admins : ~Mid(b)') /\ seen'.drift = {} => disk'.keys = Live'.keys
    PROVE  EditInv'
<1>1. \A b \in Admins : FormKnows(admin'[b], bundles')
  <2>1. ASSUME NEW b \in Admins \ {a} PROVE FormKnows(admin'[b], bundles')
    <3>1. FormKnows(admin[b], bundles) /\ admin'[b] = admin[b]
      BY DEF EditInv
    <3>2. QED
      BY <3>1 DEF FormKnows
  <2>2. QED
    BY <2>1
<1>2. EditHitsShownKey'
  BY DEF EditInv, EditHitsShownKey
<1>3. ASSUME NEW b \in Admins, Busy(b)', admin'[b].alone
      PROVE  /\ \A c \in Admins \ {b} : ~Busy(c)'
             /\ admin'[b].phase \in {"limiter", "budget", "store"} => admin'[b].next.keys = disk'.keys
  <2>1. CASE b = a
    <3>1. \A c \in Admins \ {a} : ~Busy(c)
      BY <1>3, <2>1 DEF EditInv
    <3>2. QED
      BY <1>3, <2>1, <3>1 DEF Busy
  <2>2. CASE b # a
    <3>1. admin'[b] = admin[b] /\ Busy(b) /\ admin[b].alone
      BY <1>3, <2>2 DEF Busy
    <3>2. /\ \A c \in Admins \ {b} : ~Busy(c)
          /\ admin[b].phase \in {"limiter", "budget", "store"} => admin[b].next.keys = disk.keys
      BY <3>1 DEF EditInv
    <3>3. ~Busy(a)
      BY <2>2, <3>2
    <3>4. ~Busy(a)' /\ disk' = disk
      BY <3>3
    <3>5. QED
      BY <2>2, <3>1, <3>2, <3>4 DEF Busy
  <2>3. QED
    BY <2>1, <2>2
<1>4. QED
  BY <1>1, <1>2, <1>3 DEF EditInv

\* An operator who submits a form undisturbed found file and page in agreement.
LEMMA EditStart ==
    ASSUME ShapeInv, EditInv, NEW a \in Admins, admin[a].phase = "form",
           UNCHANGED <<disk, bundles, seen>>,
           NEW doc \in DocumentShape, NEW f \in Form, admin[a].form = {f},
           NEW hit \in SUBSET Secrets,
           hit = IF f.op = "save" THEN {} ELSE {disk.keys[i].key : i \in BlockAt(f, disk.keys)},
           StartOn(a, doc, hit)
    PROVE  EditInv'
<1>1. /\ admin'[a].phase = "write" /\ admin'[a].hit = hit /\ admin'[a].shown = admin[a].shown
      /\ admin'[a].alone => \A b \in Admins \ {a} : ~Busy(b)
      /\ admin'[a].calm => /\ \A b \in Admins \ {a} : ~Busy(b)
                           /\ seen.drift = {} /\ admin[a].page = live
      /\ \A b \in Admins \ {a} : admin'[b] = [admin[b] EXCEPT !.alone = FALSE]
  BY StartOnEffect
<1>2. \A b \in Admins : admin[b] \in AdminShape
  BY Shapes
<1>3. \A b \in Admins \ {a} :
         /\ admin'[b].phase = admin[b].phase /\ admin'[b].form = admin[b].form
         /\ admin'[b].shown = admin[b].shown /\ admin'[b].hit = admin[b].hit
         /\ admin'[b].page = admin[b].page /\ admin'[b].calm = admin[b].calm
         /\ ~admin'[b].alone
  BY <1>1, <1>2, ZenonT(60) DEF AdminShape
<1>4. (\A b \in Admins : ~Mid(b)') /\ seen'.drift = {} => disk'.keys = Live'.keys
  <2>1. ASSUME \A b \in Admins : ~Mid(b)', seen'.drift = {} PROVE disk'.keys = Live'.keys
    <3>1. \A b \in Admins : ~Mid(b)
      BY <1>3, <2>1 DEF Mid
    <3>2. disk.keys = Live.keys
      BY <2>1, <3>1 DEF EditInv
    <3>3. QED
      BY <3>2 DEF Live, live
  <2>2. QED
    BY <2>1
<1>5. \A b \in Admins : Busy(b)' /\ admin'[b].alone =>
         /\ \A c \in Admins \ {b} : ~Busy(c)'
         /\ admin'[b].phase \in {"limiter", "budget", "store"} => admin'[b].next.keys = disk'.keys
  BY <1>1, <1>3 DEF Busy
<1>6. \A b \in Admins : FormKnows(admin'[b], bundles')
  <2>1. FormKnows(admin'[a], bundles')
    BY <1>1 DEF FormKnows
  <2>2. ASSUME NEW b \in Admins \ {a} PROVE FormKnows(admin'[b], bundles')
    <3>1. FormKnows(admin[b], bundles)
      BY DEF EditInv
    <3>2. QED
      BY <1>3, <3>1 DEF FormKnows
  <2>3. QED
    BY <2>1, <2>2
<1>7. EditHitsShownKey'
  <2>1. ASSUME admin'[a].calm PROVE admin'[a].hit = admin'[a].shown
    <3>1. \A b \in Admins : ~Mid(b)
      BY <1>1, <2>1 DEF Mid, Busy
    <3>2. disk.keys = Live.keys
      BY <1>1, <2>1, <3>1 DEF EditInv
    <3>3. FormKnows(admin[a], bundles) /\ admin[a].page = live
      BY <1>1, <2>1 DEF EditInv
    <3>4. /\ admin[a].shown = {Live.keys[i].key : i \in BlockAt(f, Live.keys)}
          /\ f.op = "save" => admin[a].shown = {}
      BY <3>3 DEF FormKnows, Live
    <3>5. CASE f.op = "save"
      BY <1>1, <3>4, <3>5
    <3>6. CASE f.op # "save"
      <4>1. hit = {disk.keys[i].key : i \in BlockAt(f, disk.keys)}
        BY <3>6
      <4>2. hit = admin[a].shown
        BY <3>2, <3>4, <4>1, Zenon
      <4>3. QED
        BY <1>1, <4>2
    <3>7. QED
      BY <3>5, <3>6
  <2>2. ASSUME NEW b \in Admins \ {a}, admin'[b].phase = "write", admin'[b].calm
        PROVE  admin'[b].hit = admin'[b].shown
    BY <1>3, <2>2 DEF EditInv, EditHitsShownKey
  <2>3. QED
    BY <2>1, <2>2 DEF EditHitsShownKey
<1>8. QED
  BY <1>4, <1>5, <1>6, <1>7 DEF EditInv

\* An operator gives up, is told off or is done, without the file having changed.
LEMMA EditEnds ==
    ASSUME ShapeInv, EditInv, NEW a \in Admins, admin' = [admin EXCEPT ![a] = IdleAdmin],
           UNCHANGED <<disk, bundles>>,
           (~Mid(a) /\ seen' = seen) \/ \E k : seen'.drift = seen.drift \cup {k}
    PROVE  EditInv'
<1>1. admin'[a] = IdleAdmin /\ \A b \in Admins \ {a} : admin'[b] = admin[b]
  BY EndEditEffect
<1>2. ~Busy(a)' /\ FormKnows(admin'[a], bundles') /\ admin'[a].phase # "write"
  BY <1>1, EmptyShapes DEF Busy, FormKnows
<1>3. ASSUME \A b \in Admins : ~Mid(b)', seen'.drift = {} PROVE disk'.keys = Live'.keys
  <2>1. ~Mid(a) /\ seen' = seen
    BY <1>3
  <2>2. \A b \in Admins : ~Mid(b)
    BY <1>1, <1>3, <2>1 DEF Mid
  <2>3. disk.keys = Live.keys
    BY <1>3, <2>1, <2>2 DEF EditInv
  <2>4. QED
    BY <2>3 DEF Live, live
<1>4. QED
  BY <1>1, <1>2, <1>3, EditMoves
-----------------------------------------------------------------------------
LEMMA EditNext == ShapeInv /\ EditInv /\ [Next]_vars => EditInv'
<1> SUFFICES ASSUME ShapeInv, EditInv, [Next]_vars PROVE EditInv'
  OBVIOUS
<1>1. CASE UNCHANGED vars
  BY <1>1, EditAside DEF vars, live
<1>2. CASE Tick
  BY <1>2, EditAside DEF Tick, live
<1>3. CASE Restart
  <2>1. \A a \in Admins : admin'[a] = IdleAdmin
    BY <1>3, RestartEffect
  <2>2. disk'.keys = Live'.keys
    BY <1>3, RestartEffect
  <2>3. QED
    BY <2>1, <2>2, EmptyShapes DEF EditInv, Busy, FormKnows, EditHitsShownKey
<1>4. ASSUME NEW a \in Admins, OpenPage(a) PROVE EditInv'
  <2>1. UNCHANGED <<disk, bundles, seen>>
    BY <1>4 DEF OpenPage
  <2>2. /\ \A b \in Admins \ {a} : admin'[b] = admin[b]
        /\ admin[a].phase = "idle" /\ admin'[a].phase = "form" /\ admin'[a].page = live
        /\ \E f \in Form :
              /\ admin'[a].form = {f}
              /\ admin'[a].shown = {Live.keys[j].key : j \in BlockAt(f, Live.keys)}
              /\ f.op = "save" => admin'[a].shown = {}
    BY <1>4, OpenPageEffect
  <2>3. FormKnows(admin'[a], bundles')
    <3>1. live \in DOMAIN bundles
      BY Shapes
    <3>2. QED
      BY <2>1, <2>2, <3>1 DEF FormKnows, Live
  <2>4. ~Busy(a)' /\ admin'[a].phase # "write"
    BY <2>2 DEF Busy
  <2>5. ASSUME \A b \in Admins : ~Mid(b)', seen'.drift = {} PROVE disk'.keys = Live'.keys
    <3>1. \A b \in Admins : ~Mid(b)
      BY <2>2, <2>5 DEF Mid
    <3>2. disk.keys = Live.keys
      BY <2>1, <2>5, <3>1 DEF EditInv
    <3>3. QED
      BY <2>1, <3>2 DEF Live, live
  <2>6. QED
    BY <2>1, <2>2, <2>3, <2>4, <2>5, EditMoves
<1>5. ASSUME NEW a \in Admins, LeavePage(a) \/ WriteFails(a) PROVE EditInv'
  <2>1. /\ admin' = [admin EXCEPT ![a] = IdleAdmin] /\ UNCHANGED <<disk, bundles, seen>>
        /\ admin[a].phase \in {"form", "write"}
    BY <1>5 DEF LeavePage, WriteFails, EndEdit
  <2>2. ~Mid(a)
    BY <2>1 DEF Mid
  <2>3. QED
    BY <2>1, <2>2, EditEnds
<1>6. ASSUME NEW a \in Admins, SubmitKeyForm(a) \/ SubmitSave(a) PROVE EditInv'
  <2>1. UNCHANGED <<disk, bundles, seen>> /\ admin[a].phase = "form"
    BY <1>6, SubmitEffect
  <2>2. CASE admin' = [admin EXCEPT ![a] = IdleAdmin]
    <3>1. ~Mid(a)
      BY <2>1 DEF Mid
    <3>2. QED
      BY <2>1, <2>2, <3>1, EditEnds
  <2>3. ASSUME NEW doc \in DocumentShape, NEW f \in Form, NEW hit \in SUBSET Secrets,
               hit = IF f.op = "save" THEN {} ELSE {disk.keys[i].key : i \in BlockAt(f, disk.keys)},
               admin[a].form = {f}, StartOn(a, doc, hit)
        PROVE  EditInv'
    BY <2>1, <2>3, EditStart
  <2>4. QED
    BY <1>6, <2>2, <2>3, SubmitEffect
<1>7. ASSUME NEW a \in Admins, WriteDisk(a) PROVE EditInv'
  <2>1. UNCHANGED bundles
    BY <1>7 DEF WriteDisk
  <2>2. /\ \A b \in Admins \ {a} : admin'[b] = admin[b]
        /\ admin[a].phase = "write"
        /\ \/ admin'[a] = IdleAdmin /\ seen' = [seen EXCEPT !.drift = @ \cup {"saved"}]
           \/ /\ admin'[a].phase = "load" /\ admin'[a].form = {}
              /\ admin'[a].alone => admin[a].alone
    BY <1>7, WriteDiskEffect
  <2>3. seen \in Seen
    BY Shapes
  <2>4. Busy(a)
    BY <2>2 DEF Busy
  <2>5. CASE admin'[a] = IdleAdmin /\ seen' = [seen EXCEPT !.drift = @ \cup {"saved"}]
    <3>1. ~Busy(a)' /\ admin'[a].phase # "write" /\ FormKnows(admin'[a], bundles')
      BY <2>5, EmptyShapes DEF Busy, FormKnows
    <3>2. seen'.drift # {}
      BY <2>3, <2>5, DriftAside
    <3>3. QED
      BY <2>1, <2>2, <2>4, <3>1, <3>2, EditMoves
  <2>6. CASE admin'[a].phase = "load" /\ admin'[a].form = {} /\ (admin'[a].alone => admin[a].alone)
    <3>1. Mid(a)' /\ FormKnows(admin'[a], bundles')
      BY <2>6 DEF Mid, FormKnows
    <3>2. QED
      BY <2>1, <2>2, <2>4, <2>6, <3>1, EditMoves
  <2>7. QED
    BY <2>2, <2>5, <2>6
<1>8. ASSUME NEW a \in Admins, LoadDisk(a) PROVE EditInv'
  <2>1. UNCHANGED <<disk, bundles>>
    BY <1>8 DEF LoadDisk
  <2>2. /\ \A b \in Admins \ {a} : admin'[b] = admin[b]
        /\ admin[a].phase = "load"
        /\ \/ admin'[a] = IdleAdmin /\ seen' = [seen EXCEPT !.drift = @ \cup {"failed"}]
           \/ /\ admin'[a].phase = "limiter" /\ admin'[a].next.keys = disk.keys
              /\ admin'[a].alone = admin[a].alone
    BY <1>8, LoadDiskEffect
  <2>3. seen \in Seen
    BY Shapes
  <2>4. Busy(a)
    BY <2>2 DEF Busy
  <2>5. CASE admin'[a] = IdleAdmin /\ seen' = [seen EXCEPT !.drift = @ \cup {"failed"}]
    <3>1. ~Busy(a)' /\ admin'[a].phase # "write" /\ FormKnows(admin'[a], bundles')
      BY <2>5, EmptyShapes DEF Busy, FormKnows
    <3>2. seen'.drift # {}
      BY <2>3, <2>5, DriftAside
    <3>3. QED
      BY <2>1, <2>2, <2>4, <3>1, <3>2, EditMoves
  <2>6. CASE /\ admin'[a].phase = "limiter" /\ admin'[a].next.keys = disk.keys
             /\ admin'[a].alone = admin[a].alone
    <3>1. Mid(a)' /\ FormKnows(admin'[a], bundles')
      BY <2>6 DEF Mid, FormKnows
    <3>2. QED
      BY <2>1, <2>2, <2>4, <2>6, <3>1, EditMoves
  <2>7. QED
    BY <2>2, <2>5, <2>6
<1>9. ASSUME NEW a \in Admins, CopyLimiter(a) \/ CopyBudgets(a) PROVE EditInv'
  <2>1. UNCHANGED <<disk, bundles>>
    BY <1>9 DEF CopyLimiter, CopyBudgets
  <2>2. /\ \A b \in Admins \ {a} : admin'[b] = admin[b]
        /\ admin[a].phase \in {"limiter", "budget"} /\ admin'[a].phase \in {"budget", "store"}
        /\ admin'[a].alone = admin[a].alone /\ admin'[a].next.keys = admin[a].next.keys
    BY <1>9, CopyLimiterEffect, CopyBudgetsEffect
  <2>3. Busy(a) /\ Mid(a)' /\ FormKnows(admin'[a], bundles') /\ admin'[a].phase # "write"
    BY <2>2 DEF Busy, Mid, FormKnows
  <2>4. admin[a].alone => admin[a].next.keys = disk.keys
    BY <2>2, <2>3 DEF EditInv
  <2>5. QED
    BY <2>1, <2>2, <2>3, <2>4, EditMoves
<1>10. ASSUME NEW a \in Admins, BuildFails(a) PROVE EditInv'
  <2>1. /\ admin' = [admin EXCEPT ![a] = IdleAdmin] /\ UNCHANGED <<disk, bundles>>
        /\ seen' = [seen EXCEPT !.drift = @ \cup {"failed"}]
    BY <1>10 DEF BuildFails, EndEdit
  <2>2. seen'.drift = seen.drift \cup {"failed"}
    BY <2>1, Shapes, DriftAside
  <2>3. QED
    BY <2>1, <2>2, EditEnds
<1>11. ASSUME NEW a \in Admins, Store(a) PROVE EditInv'
  <2>1. UNCHANGED disk /\ NoteStore(a)
    BY <1>11 DEF Store
  <2>2. /\ \A b \in Admins \ {a} : admin'[b] = admin[b]
        /\ admin[a].phase = "store" /\ admin'[a] = IdleAdmin
        /\ DOMAIN bundles' = DOMAIN bundles \cup {live'}
        /\ Live' = admin[a].next
        /\ \A g \in DOMAIN bundles : bundles'[g] = bundles[g]
    BY <1>11, StoreEffect
  <2>3. seen'.drift = IF admin[a].alone THEN {} ELSE seen.drift \cup {"raced"}
    BY <2>1, Shapes, NoteStoreEffect
  <2>4. Busy(a) /\ ~Busy(a)' /\ FormKnows(admin'[a], bundles') /\ admin'[a].phase # "write"
    BY <2>2, EmptyShapes DEF Busy, FormKnows
  <2>5. admin[a].alone => admin[a].next.keys = disk.keys
    BY <2>2, <2>4 DEF EditInv
  <2>6. seen'.drift = {} => disk'.keys = Live'.keys
    BY <2>1, <2>2, <2>3, <2>5
  <2>7. QED
    BY <2>2, <2>4, <2>6, EditMoves
<1>12. ASSUME NEW r \in Requests, Authenticate(r) \/ EndUncharged(r) \/ LoadForRecord(r)
       PROVE  EditInv'
  BY <1>12, EditAside DEF Authenticate, EndUncharged, LoadForRecord, live
<1>13. ASSUME NEW r \in Requests, CheckRate(r) PROVE EditInv'
  BY <1>13, CheckRateEffect, EditAside DEF CheckRate, BucketsPut
<1>14. ASSUME NEW r \in Requests, CheckBudget(r) PROVE EditInv'
  BY <1>14, CheckBudgetEffect, EditAside DEF CheckBudget, WindowsPut
<1>15. ASSUME NEW r \in Requests, Record(r) PROVE EditInv'
  <2>1. UNCHANGED <<disk, admin>>
    BY <1>15 DEF Record
  <2>2. live' = live /\ seen'.drift = seen.drift
    BY <1>15, RecordEffect
  <2>3. \E g, i, new : bundles' = bundles \/ WindowsPut(bundles, g, i, new, bundles')
    BY <1>15, RecordEffect
  <2>4. /\ DOMAIN bundles' = DOMAIN bundles
        /\ \A g \in DOMAIN bundles : bundles'[g].keys = bundles[g].keys
    BY <2>3 DEF WindowsPut
  <2>5. QED
    BY <2>1, <2>2, <2>4, EditAside
<1>16. QED
  BY <1>1, <1>2, <1>3, <1>4, <1>5, <1>6, <1>7, <1>8, <1>9, <1>10, <1>11, <1>12, <1>13, <1>14,
     <1>15 DEF Next

LEMMA EditExplains == EditInv => DivergenceExplained /\ EditHitsShownKey
<1>1. ASSUME NEW a \in Admins, ~Busy(a) PROVE ~Mid(a)
  BY <1>1 DEF Busy, Mid
<1>2. QED
  BY <1>1 DEF EditInv, DivergenceExplained
-----------------------------------------------------------------------------
(* No secret twice *)

LEMMA KeysInit == Init => KeysInv
<1> SUFFICES ASSUME Init PROVE KeysInv
  OBVIOUS
<1>1. FirstKeys \in Seq(Entry) /\ Distinct(FirstKeys)
  BY HotReloadAssumption DEF Keys
<1>2. FreshBundle(FirstKeys, 0).keys = FirstKeys
  BY <1>1, FreshShape
<1>3. /\ disk.keys = FirstKeys /\ \A a \in Admins : admin[a].phase = "idle"
      /\ \A g \in DOMAIN bundles : bundles[g].keys = FirstKeys
  BY <1>2, EmptyShapes DEF Init
<1>4. QED
  BY <1>1, <1>3 DEF KeysInv

LEMMA KeysNext == ShapeInv /\ KeysInv /\ [Next]_vars => KeysInv'
<1> SUFFICES ASSUME ShapeInv, KeysInv, [Next]_vars PROVE KeysInv'
  OBVIOUS
<1>1. ASSUME UNCHANGED <<disk, admin>>, DOMAIN bundles' = DOMAIN bundles,
             \A g \in DOMAIN bundles : bundles'[g].keys = bundles[g].keys
      PROVE  KeysInv'
  BY <1>1 DEF KeysInv
<1>2. CASE UNCHANGED vars \/ Tick
  BY <1>1, <1>2 DEF vars, Tick
<1>3. CASE Restart
  <2>1. /\ disk' = disk /\ DOMAIN bundles' = {1} /\ live' = 1 /\ Live'.keys = disk.keys
        /\ \A a \in Admins : admin'[a] = IdleAdmin
    BY <1>3, RestartEffect
  <2>2. QED
    BY <2>1, EmptyShapes DEF KeysInv, Live
<1>4. ASSUME NEW a \in Admins, \A b \in Admins \ {a} : admin'[b] = admin[b],
             UNCHANGED bundles, Distinct(disk'.keys), admin'[a].phase # "write",
             admin'[a].phase \in {"limiter", "budget", "store"} => Distinct(admin'[a].next.keys)
      PROVE  KeysInv'
  BY <1>4 DEF KeysInv
<1>5. ASSUME NEW a \in Admins, admin' = [admin EXCEPT ![a] = IdleAdmin], UNCHANGED <<disk, bundles>>
      PROVE  KeysInv'
  BY <1>4, <1>5, EndEditEffect, EmptyShapes DEF KeysInv
<1>6. ASSUME NEW a \in Admins, OpenPage(a) PROVE KeysInv'
  <2>1. UNCHANGED <<disk, bundles>>
    BY <1>6 DEF OpenPage
  <2>2. QED
    BY <1>4, <1>6, <2>1, OpenPageEffect DEF KeysInv
<1>7. ASSUME NEW a \in Admins, LeavePage(a) \/ WriteFails(a) \/ BuildFails(a) PROVE KeysInv'
  BY <1>5, <1>7 DEF LeavePage, WriteFails, BuildFails, EndEdit
<1>8. ASSUME NEW a \in Admins, SubmitKeyForm(a) \/ SubmitSave(a) PROVE KeysInv'
  <2>1. UNCHANGED <<disk, bundles>>
    BY <1>8, SubmitEffect
  <2>2. CASE admin' = [admin EXCEPT ![a] = IdleAdmin]
    BY <1>5, <2>1, <2>2
  <2>3. ASSUME NEW doc \in DocumentShape, NEW hit \in SUBSET Secrets,
               Distinct(disk.keys) => Distinct(doc.keys), StartOn(a, doc, hit)
        PROVE  KeysInv'
    <3>1. /\ admin'[a].phase = "write" /\ admin'[a].doc = {doc}
          /\ \A b \in Admins \ {a} : admin'[b] = [admin[b] EXCEPT !.alone = FALSE]
      BY <2>3, StartOnEffect
    <3>2. \A b \in Admins \ {a} :
             /\ admin'[b].phase = admin[b].phase /\ admin'[b].doc = admin[b].doc
             /\ admin'[b].next = admin[b].next
      BY <3>1, Shapes, ZenonT(60) DEF AdminShape
    <3>3. Distinct(doc.keys)
      BY <2>3 DEF KeysInv
    <3>4. \A b \in Admins :
             /\ admin'[b].phase = "write" => \A d \in admin'[b].doc : Distinct(d.keys)
             /\ admin'[b].phase \in {"limiter", "budget", "store"} => Distinct(admin'[b].next.keys)
      <4>1. ASSUME NEW b \in Admins \ {a}
            PROVE  /\ admin'[b].phase = "write" => \A d \in admin'[b].doc : Distinct(d.keys)
                   /\ admin'[b].phase \in {"limiter", "budget", "store"} => Distinct(admin'[b].next.keys)
        BY <3>2 DEF KeysInv
      <4>2. QED
        BY <3>1, <3>3, <4>1
    <3>5. QED
      BY <2>1, <3>4 DEF KeysInv
  <2>4. QED
    BY <1>8, <2>2, <2>3, SubmitEffect
<1>9. ASSUME NEW a \in Admins, WriteDisk(a) PROVE KeysInv'
  <2>1. UNCHANGED bundles
    BY <1>9 DEF WriteDisk
  <2>2. /\ \A b \in Admins \ {a} : admin'[b] = admin[b]
        /\ admin[a].phase = "write" /\ disk' \in admin[a].doc
        /\ admin'[a] = IdleAdmin \/ admin'[a].phase = "load"
    BY <1>9, WriteDiskEffect
  <2>3. Distinct(disk'.keys)
    BY <2>2 DEF KeysInv
  <2>4. QED
    BY <1>4, <2>1, <2>2, <2>3, EmptyShapes
<1>10. ASSUME NEW a \in Admins, LoadDisk(a) PROVE KeysInv'
  <2>1. UNCHANGED <<disk, bundles>>
    BY <1>10 DEF LoadDisk
  <2>2. /\ \A b \in Admins \ {a} : admin'[b] = admin[b]
        /\ \/ admin'[a] = IdleAdmin
           \/ admin'[a].phase = "limiter" /\ admin'[a].next.keys = disk.keys
    BY <1>10, LoadDiskEffect
  <2>3. Distinct(disk.keys)
    BY DEF KeysInv
  <2>4. QED
    BY <1>4, <2>1, <2>2, <2>3, EmptyShapes
<1>11. ASSUME NEW a \in Admins, CopyLimiter(a) \/ CopyBudgets(a) PROVE KeysInv'
  <2>1. UNCHANGED <<disk, bundles>>
    BY <1>11 DEF CopyLimiter, CopyBudgets
  <2>2. /\ \A b \in Admins \ {a} : admin'[b] = admin[b]
        /\ admin[a].phase \in {"limiter", "budget"} /\ admin'[a].phase \in {"budget", "store"}
        /\ admin'[a].next.keys = admin[a].next.keys
    BY <1>11, CopyLimiterEffect, CopyBudgetsEffect
  <2>3. Distinct(disk.keys) /\ Distinct(admin[a].next.keys)
    BY <2>2 DEF KeysInv
  <2>4. QED
    BY <1>4, <2>1, <2>2, <2>3
<1>12. ASSUME NEW a \in Admins, Store(a) PROVE KeysInv'
  <2>1. UNCHANGED disk
    BY <1>12 DEF Store
  <2>2. /\ \A b \in Admins \ {a} : admin'[b] = admin[b]
        /\ admin[a].phase = "store" /\ admin'[a] = IdleAdmin
        /\ DOMAIN bundles' = DOMAIN bundles \cup {live'}
        /\ bundles'[live'] = admin[a].next
        /\ \A g \in DOMAIN bundles : bundles'[g] = bundles[g]
    BY <1>12, StoreEffect
  <2>3. Distinct(admin[a].next.keys)
    BY <2>2 DEF KeysInv
  <2>4. QED
    BY <2>1, <2>2, <2>3, EmptyShapes DEF KeysInv
<1>13. ASSUME NEW r \in Requests, Authenticate(r) \/ EndUncharged(r) \/ LoadForRecord(r)
       PROVE  KeysInv'
  BY <1>1, <1>13 DEF Authenticate, EndUncharged, LoadForRecord
<1>14. ASSUME NEW r \in Requests, CheckRate(r) PROVE KeysInv'
  BY <1>1, <1>14, CheckRateEffect DEF CheckRate, BucketsPut
<1>15. ASSUME NEW r \in Requests, CheckBudget(r) PROVE KeysInv'
  BY <1>1, <1>15, CheckBudgetEffect DEF CheckBudget, WindowsPut
<1>16. ASSUME NEW r \in Requests, Record(r) PROVE KeysInv'
  <2>1. UNCHANGED <<disk, admin>>
    BY <1>16 DEF Record
  <2>2. \E g, i, new : bundles' = bundles \/ WindowsPut(bundles, g, i, new, bundles')
    BY <1>16, RecordEffect
  <2>3. QED
    BY <1>1, <2>1, <2>2 DEF WindowsPut
<1>17. QED
  BY <1>2, <1>3, <1>6, <1>7, <1>8, <1>9, <1>10, <1>11, <1>12, <1>13, <1>14, <1>15, <1>16 DEF Next
-----------------------------------------------------------------------------
(* The fourth layer: where everything a key's requests cost is *)

\* As long as no window can have elapsed, every key has one that has not.
LEMMA SteadyLasts ==
    ASSUME ShapeInv, NEW s \in Secrets, SteadyBudget(s), NEW h \in DOMAIN bundles,
           NEW j \in Position(bundles[h].keys, s)
    PROVE  /\ j \in DOMAIN bundles[h].keys /\ bundles[h].windows[j] \in SUBSET Window
           /\ bundles[h].windows[j] # {} /\ \A w \in bundles[h].windows[j] : now < w.per
<1>1. j \in DOMAIN bundles[h].keys
  BY DEF Position
<1>2. bundles[h].windows[j] \in SUBSET Window
  BY <1>1, Shapes
<1>3. bundles[h].keys[j] \in Configured(h, s)
  BY DEF Configured
<1>4. bundles[h].keys[j].budget # {} /\ \A b \in bundles[h].keys[j].budget : now < b.per
  BY <1>3 DEF SteadyBudget
<1>5. /\ bundles[h].keys[j].budget # {} => bundles[h].windows[j] # {}
      /\ \A w \in bundles[h].windows[j] : \E b \in bundles[h].keys[j].budget : w.per = b.per
  BY <1>1 DEF ShapeInv, BundlePart, Windowed
<1>6. QED
  BY <1>1, <1>2, <1>4, <1>5

\* No bundle is lost and time goes on: what is steady now has been steady.
LEMMA SteadyBefore ==
    ASSUME ShapeInv, now' \in Nat, now <= now', bundles' \in Seq(BundleShape),
           DOMAIN bundles \subseteq DOMAIN bundles',
           \A g \in DOMAIN bundles : bundles'[g].keys = bundles[g].keys,
           NEW s \in Secrets, SteadyBudget(s)'
    PROVE  SteadyBudget(s)
<1>1. now \in Nat /\ bundles \in Seq(BundleShape)
  BY Shapes
<1>2. \A g \in DOMAIN bundles : Configured(g, s)' = Configured(g, s)
  BY DEF Configured
<1>3. ASSUME NEW g \in DOMAIN bundles, NEW e \in Configured(g, s)
      PROVE  e.budget # {} /\ \A b \in e.budget : now < b.per
  <2>1. e \in Configured(g, s)' /\ g \in DOMAIN bundles'
    BY <1>2, <1>3
  <2>2. e.budget # {} /\ \A b \in e.budget : now' < b.per
    BY <2>1 DEF SteadyBudget
  <2>3. e \in Entry
    BY <1>3, Shapes DEF Configured, Position
  <2>4. \A b \in e.budget : b.per \in Nat
    BY <2>3, EntryFields DEF Budget
  <2>5. QED
    BY <1>1, <2>2, <2>4
<1>4. ASSUME NEW g \in DOMAIN bundles, g > 1, Configured(g - 1, s) # {} PROVE Configured(g, s) # {}
  <2>1. g - 1 \in DOMAIN bundles /\ g \in DOMAIN bundles'
    BY <1>1, <1>4
  <2>2. Configured(g - 1, s)' # {}
    BY <1>2, <1>4, <2>1
  <2>3. Configured(g, s)' # {}
    BY <1>4, <2>1, <2>2 DEF SteadyBudget
  <2>4. QED
    BY <1>2, <2>3
<1>5. QED
  BY <1>3, <1>4 DEF SteadyBudget

LEMMA SpendInit == ShapeInv /\ Init => SpendInv
<1> SUFFICES ASSUME ShapeInv, Init PROVE SpendInv
  OBVIOUS
<1>1. FirstKeys \in Seq(Entry)
  BY HotReloadAssumption DEF Keys
<1>2. /\ Live.keys = FirstKeys
      /\ \A i \in DOMAIN FirstKeys : \A w \in Live.windows[i] : w.spent = 0
  <2>1. Live = FreshBundle(FirstKeys, 0)
    BY DEF Init, Live, live
  <2>2. QED
    BY <1>1, <2>1, FreshShape
<1>3. \A s \in Secrets : seen.billed[s] = 0
  BY DEF Init, NothingSeen
<1>4. \A a \in Admins : admin[a].phase = "idle"
  BY EmptyShapes DEF Init
<1>5. \A s \in Secrets : Holds(Live, s, seen.billed)
  BY <1>2, <1>3 DEF Holds, Position
<1>6. QED
  BY <1>4, <1>5 DEF SpendInv, SpendOf

LEMMA SpendRestart == ShapeInv /\ Restart => SpendInv'
<1> SUFFICES ASSUME ShapeInv, Restart PROVE SpendInv'
  OBVIOUS
<1>1. disk.keys \in Seq(Entry) /\ now \in Nat
  BY Shapes
<1>2. /\ Live'.keys = disk.keys
      /\ \A i \in DOMAIN disk.keys : \A w \in Live'.windows[i] : w.spent = 0
  BY <1>1, RestartEffect, FreshShape
<1>3. \A s \in Secrets : seen'.billed[s] = 0
  BY RestartEffect DEF NothingSeen
<1>4. \A a \in Admins : admin'[a].phase = "idle"
  BY RestartEffect, EmptyShapes
<1>5. \A s \in Secrets : Holds(Live', s, seen'.billed)
  BY <1>2, <1>3 DEF Holds, Position
<1>6. QED
  BY <1>4, <1>5 DEF SpendInv, SpendOf

\* It is enough to follow one secret through a step that loses no bundle.
LEMMA SpendStep ==
    ASSUME ShapeInv, SpendInv, now' \in Nat, now <= now', bundles' \in Seq(BundleShape),
           DOMAIN bundles \subseteq DOMAIN bundles',
           \A g \in DOMAIN bundles : bundles'[g].keys = bundles[g].keys,
           ~seen'.moved => ~seen.moved, ~seen'.late => ~seen.late,
           ~seen'.moved /\ ~seen'.late =>
              \A s \in Secrets : SteadyBudget(s) /\ SteadyBudget(s)' /\ SpendOf(s) => SpendOf(s)'
    PROVE  SpendInv'
<1>1. ASSUME ~seen'.moved, ~seen'.late, NEW s \in Secrets, SteadyBudget(s)'
      PROVE  SpendOf(s)'
  <2>1. SteadyBudget(s)
    BY <1>1, SteadyBefore
  <2>2. SpendOf(s)
    BY <1>1, <2>1 DEF SpendInv
  <2>3. QED
    BY <1>1, <2>1, <2>2
<1>2. QED
  BY <1>1 DEF SpendInv

LEMMA SpendAside ==
    ASSUME ShapeInv, SpendInv, now' \in Nat, now <= now', UNCHANGED bundles,
           \A a \in Admins : admin'[a].phase \in {"budget", "store"} =>
              /\ admin'[a].phase = admin[a].phase
              /\ admin'[a].old = admin[a].old /\ admin'[a].next = admin[a].next,
           seen'.billed = seen.billed, seen'.moved = seen.moved, seen'.late = seen.late
    PROVE  SpendInv'
<1>1. bundles' \in Seq(BundleShape) /\ now \in Nat
  BY Shapes
<1>2. ASSUME NEW s \in Secrets, SpendOf(s) PROVE SpendOf(s)'
  <2>1. Holds(Live', s, seen'.billed)
    BY <1>2 DEF SpendOf, Live, live
  <2>2. \A a \in Admins : admin'[a].phase = "budget" => Holds(bundles'[admin'[a].old], s, seen'.billed)
    BY <1>2 DEF SpendOf
  <2>3. ASSUME NEW a \in Admins, admin'[a].phase = "store",
               NEW i \in Position(admin'[a].next.keys, s), NEW w \in admin'[a].next.windows[i],
               now' < w.per
        PROVE  w.spent = seen'.billed[s]
    <3>1. admin[a].phase = "store" /\ admin'[a].next = admin[a].next
      BY <2>3
    <3>2. w \in Window
      <4>1. i \in DOMAIN admin[a].next.windows
        BY <2>3, <3>1, NextShape DEF Position
      <4>2. QED
        BY <2>3, <3>1, <4>1, NextShape DEF BundleShape
    <3>3. now < w.per
      BY <1>1, <2>3, <3>2 DEF Window
    <3>4. QED
      BY <1>2, <2>3, <3>1, <3>3 DEF SpendOf
  <2>4. QED
    BY <2>1, <2>2, <2>3 DEF SpendOf
<1>3. QED
  BY <1>1, <1>2, SpendStep

LEMMA SpendCopyLimiter ==
    ASSUME ShapeInv, SpendInv, NEW a \in Admins, CopyLimiter(a)
    PROVE  SpendInv'
<1>1. UNCHANGED <<now, bundles, seen>>
  BY DEF CopyLimiter
<1>2. /\ \A b \in Admins \ {a} : admin'[b] = admin[b]
      /\ admin'[a].phase = "budget" /\ admin'[a].old = live
  BY CopyLimiterEffect
<1>3. now \in Nat /\ bundles \in Seq(BundleShape)
  BY Shapes
<1>4. ASSUME NEW s \in Secrets, SpendOf(s) PROVE SpendOf(s)'
  <2>1. Holds(Live', s, seen'.billed) /\ Holds(bundles'[live], s, seen'.billed)
    BY <1>1, <1>4 DEF SpendOf, Live, live
  <2>2. \A b \in Admins : admin'[b].phase = "budget" => Holds(bundles'[admin'[b].old], s, seen'.billed)
    BY <1>1, <1>2, <1>4, <2>1 DEF SpendOf
  <2>3. \A b \in Admins : admin'[b].phase = "store" =>
          \A i \in Position(admin'[b].next.keys, s) : \A w \in admin'[b].next.windows[i] :
              now' < w.per => w.spent = seen'.billed[s]
    BY <1>1, <1>2, <1>4 DEF SpendOf
  <2>4. QED
    BY <2>1, <2>2, <2>3 DEF SpendOf
<1>5. QED
  BY <1>1, <1>3, <1>4, SpendStep

\* A window that is copied holds what the old one held.
LEMMA SpendCopyBudgets ==
    ASSUME ShapeInv, SpendInv, NEW a \in Admins, CopyBudgets(a)
    PROVE  SpendInv'
<1> DEFINE old == bundles[admin[a].old]
           n == admin'[a].next
<1>1. UNCHANGED <<now, bundles, seen>>
  BY DEF CopyBudgets
<1>2. /\ \A b \in Admins \ {a} : admin'[b] = admin[b]
      /\ admin[a].phase = "budget" /\ admin'[a].phase = "store" /\ admin[a].old \in DOMAIN bundles
      /\ \A i \in DOMAIN n.keys : \A w \in n.windows[i] :
            \/ /\ w.spent = 0
               /\ \A j \in Position(old.keys, n.keys[i].key) : old.windows[j] = {}
            \/ \E j \in Position(old.keys, n.keys[i].key) : \E o \in old.windows[j] :
                     w.spent <= o.spent /\ (now < w.per => w.spent = o.spent)
  BY CopyBudgetsEffect
<1>3. now \in Nat /\ bundles \in Seq(BundleShape)
  BY Shapes
<1>4. ASSUME NEW s \in Secrets, SteadyBudget(s), SpendOf(s) PROVE SpendOf(s)'
  <2>1. Holds(Live', s, seen'.billed)
    BY <1>1, <1>4 DEF SpendOf, Live, live
  <2>2. \A b \in Admins : admin'[b].phase = "budget" => Holds(bundles'[admin'[b].old], s, seen'.billed)
    BY <1>1, <1>2, <1>4 DEF SpendOf
  <2>3. Holds(old, s, seen.billed)
    BY <1>2, <1>4 DEF SpendOf
  <2> HIDE DEF old, n
  <2>4. ASSUME NEW i \in Position(n.keys, s), NEW w \in n.windows[i], now < w.per
        PROVE  w.spent = seen.billed[s]
    <3>1. i \in DOMAIN n.keys /\ n.keys[i].key = s
      BY DEF Position
    <3>2. CASE w.spent = 0 /\ \A j \in Position(old.keys, s) : old.windows[j] = {}
      <4>1. Position(old.keys, s) = {}
        BY <1>2, <1>4, <3>2, SteadyLasts DEF old
      <4>2. QED
        BY <2>3, <3>2, <4>1 DEF Holds
    <3>3. ASSUME NEW j \in Position(old.keys, s), NEW o \in old.windows[j], w.spent = o.spent
          PROVE  w.spent = seen.billed[s]
      BY <2>3, <3>3 DEF Holds
    <3>4. QED
      BY <1>2, <2>4, <3>1, <3>2, <3>3
  <2>5. \A b \in Admins : admin'[b].phase = "store" =>
          \A i \in Position(admin'[b].next.keys, s) : \A w \in admin'[b].next.windows[i] :
              now' < w.per => w.spent = seen'.billed[s]
    <3>1. ASSUME NEW b \in Admins \ {a}, admin'[b].phase = "store",
                 NEW i \in Position(admin'[b].next.keys, s), NEW w \in admin'[b].next.windows[i],
                 now' < w.per
          PROVE  w.spent = seen'.billed[s]
      BY <1>1, <1>2, <1>4, <3>1 DEF SpendOf
    <3>2. QED
      BY <1>1, <2>4, <3>1 DEF n
  <2>6. QED
    BY <2>1, <2>2, <2>5 DEF SpendOf
<1>5. QED
  BY <1>1, <1>3, <1>4, SpendStep

\* The bundle that is swapped in has windows that have not elapsed.
LEMMA SpendStore ==
    ASSUME ShapeInv, ShapeInv', SpendInv, NEW a \in Admins, Store(a)
    PROVE  SpendInv'
<1> DEFINE n == admin[a].next
<1>1. now' = now
  BY DEF Store
<1>2. /\ \A b \in Admins \ {a} : admin'[b] = admin[b]
      /\ admin[a].phase = "store" /\ admin'[a] = IdleAdmin
      /\ bundles' \in Seq(BundleShape) /\ live' = live + 1 /\ live' \in DOMAIN bundles'
      /\ DOMAIN bundles' = DOMAIN bundles \cup {live'}
      /\ bundles'[live'] = n /\ Live' = n
      /\ \A g \in DOMAIN bundles : bundles'[g] = bundles[g]
  BY StoreEffect
<1>3. now \in Nat /\ live \in DOMAIN bundles /\ live \in Nat /\ live > 0
  BY Shapes
<1>4. seen'.billed = seen.billed /\ seen'.moved = seen.moved /\ seen'.late = seen.late
  <2>1. NoteStore(a)
    BY DEF Store
  <2>2. QED
    BY <2>1, Shapes, NoteStoreEffect
<1> HIDE DEF n
<1>5. ASSUME NEW s \in Secrets, SteadyBudget(s), SteadyBudget(s)', SpendOf(s) PROVE SpendOf(s)'
  <2>1. ASSUME Position(n.keys, s) = {} PROVE seen.billed[s] = 0
    <3>1. live + 1 \in DOMAIN bundles' /\ live + 1 > 1 /\ (live + 1) - 1 = live
      BY <1>2, <1>3
    <3>2. \A g \in DOMAIN bundles' :
            g > 1 /\ Position(bundles'[g - 1].keys, s) # {} => Position(bundles'[g].keys, s) # {}
      BY <1>5, SMTT(40) DEF SteadyBudget, Configured
    <3>3. Position(bundles'[live + 1].keys, s) = {}
      BY <1>2, <2>1
    <3>4. Position(bundles'[live].keys, s) = {}
      BY <3>1, <3>2, <3>3
    <3>5. Position(Live.keys, s) = {}
      BY <1>2, <1>3, <3>4 DEF Live
    <3>6. QED
      BY <1>5, <3>5 DEF SpendOf, Holds
  <2>2. ASSUME NEW i \in Position(n.keys, s), NEW w \in n.windows[i]
        PROVE  w.spent = seen.billed[s]
    <3>1. i \in DOMAIN n.keys
      BY DEF Position
    <3>2. \A g \in DOMAIN bundles' : \A k \in Position(bundles'[g].keys, s) :
            \A b \in bundles'[g].keys[k].budget : now' < b.per
      BY <1>5 DEF SteadyBudget, Configured
    <3>3. \A b \in n.keys[i].budget : now < b.per
      BY <1>1, <1>2, <3>2
    <3>4. \E b \in n.keys[i].budget : w.per = b.per
      BY <1>2, <3>1 DEF ShapeInv, AdminPart, AdminOK, Windowed, n
    <3>5. now < w.per
      BY <3>3, <3>4
    <3>6. QED
      BY <1>2, <1>5, <3>5 DEF SpendOf, n
  <2>3. Holds(Live', s, seen'.billed)
    BY <1>2, <1>4, <2>1, <2>2 DEF Holds
  <2>4. \A b \in Admins : admin'[b].phase = "budget" => Holds(bundles'[admin'[b].old], s, seen'.billed)
    <3>1. ASSUME NEW b \in Admins, admin'[b].phase = "budget"
          PROVE  Holds(bundles'[admin'[b].old], s, seen'.billed)
      <4>1. b # a /\ admin'[b] = admin[b]
        BY <1>2, <3>1, EmptyShapes
      <4>2. admin[b].old \in DOMAIN bundles
        BY <3>1, <4>1, NextShape
      <4>3. QED
        BY <1>2, <1>4, <1>5, <3>1, <4>1, <4>2 DEF SpendOf
    <3>2. QED
      BY <3>1
  <2>5. \A b \in Admins : admin'[b].phase = "store" =>
          \A i \in Position(admin'[b].next.keys, s) : \A w \in admin'[b].next.windows[i] :
              now' < w.per => w.spent = seen'.billed[s]
    BY <1>1, <1>2, <1>4, <1>5, EmptyShapes DEF SpendOf
  <2>6. QED
    BY <2>3, <2>4, <2>5 DEF SpendOf
<1>6. QED
  BY <1>1, <1>2, <1>3, <1>4, <1>5, SpendStep
-----------------------------------------------------------------------------
LEMMA SpendCheckRate ==
    ASSUME ShapeInv, ShapeInv', SpendInv, NEW r \in Requests, CheckRate(r)
    PROVE  SpendInv'
<1>1. now' = now /\ admin' = admin
  BY DEF CheckRate
<1>2. /\ \E g, i, new : BucketsPut(bundles, g, i, new, bundles')
      /\ live' = live /\ seen'.billed = seen.billed
      /\ seen'.moved = seen.moved /\ seen'.late = seen.late
  BY CheckRateEffect
<1>3. now \in Nat /\ bundles' \in Seq(BundleShape) /\ live \in DOMAIN bundles
  BY Shapes DEF ShapeInv, TypePart
<1>4. /\ DOMAIN bundles' = DOMAIN bundles
      /\ \A h \in DOMAIN bundles : /\ bundles'[h].keys = bundles[h].keys
                                   /\ bundles'[h].windows = bundles[h].windows
  BY <1>2 DEF BucketsPut
<1>5. ASSUME NEW s \in Secrets, SpendOf(s) PROVE SpendOf(s)'
  <2>1. \A h \in DOMAIN bundles : Holds(bundles[h], s, seen.billed) => Holds(bundles'[h], s, seen.billed)
    BY <1>4 DEF Holds
  <2>2. Holds(Live', s, seen'.billed)
    BY <1>2, <1>3, <1>5, <2>1 DEF SpendOf, Live
  <2>3. \A b \in Admins : admin'[b].phase = "budget" => Holds(bundles'[admin'[b].old], s, seen'.billed)
    BY <1>1, <1>2, <1>5, <2>1, NextShape DEF SpendOf
  <2>4. \A b \in Admins : admin'[b].phase = "store" =>
          \A i \in Position(admin'[b].next.keys, s) : \A w \in admin'[b].next.windows[i] :
              now' < w.per => w.spent = seen'.billed[s]
    BY <1>1, <1>2, <1>5 DEF SpendOf
  <2>5. QED
    BY <2>2, <2>3, <2>4 DEF SpendOf
<1>6. QED
  BY <1>1, <1>2, <1>3, <1>4, <1>5, SpendStep

\* A check resets no window that has not elapsed.
LEMMA SpendCheckBudget ==
    ASSUME ShapeInv, ShapeInv', SpendInv, NEW r \in Requests, CheckBudget(r)
    PROVE  SpendInv'
<1> DEFINE g == req[r].gen
           i == req[r].idx
           new == {MaybeReset(w, now) : w \in bundles[g].windows[i]}
<1>1. now' = now /\ admin' = admin /\ seen' = seen
  BY DEF CheckBudget
<1>2. /\ WindowsPut(bundles, g, i, new, bundles') /\ live' = live
      /\ g \in DOMAIN bundles /\ i \in DOMAIN bundles[g].keys
  BY CheckBudgetEffect
<1>3. now \in Nat /\ bundles' \in Seq(BundleShape) /\ live \in DOMAIN bundles
  BY Shapes DEF ShapeInv, TypePart
<1>4. /\ DOMAIN bundles' = DOMAIN bundles
      /\ \A h \in DOMAIN bundles : bundles'[h].keys = bundles[h].keys
  BY <1>2 DEF WindowsPut
<1>5. ASSUME NEW s \in Secrets, SteadyBudget(s), SpendOf(s) PROVE SpendOf(s)'
  <2>1. ASSUME NEW h \in DOMAIN bundles, Holds(bundles[h], s, seen.billed)
        PROVE  Holds(bundles'[h], s, seen.billed)
    <3>1. ASSUME NEW j \in Position(bundles[h].keys, s), NEW w \in bundles'[h].windows[j]
          PROVE  w.spent = seen.billed[s]
      <4>1. /\ j \in DOMAIN bundles[h].windows
            /\ bundles[h].windows[j] \in SUBSET Window
            /\ \A v \in bundles[h].windows[j] : now < v.per
        BY <1>5, <3>1, SteadyLasts, Shapes
      <4>2. bundles'[h].windows[j] = IF h = g /\ j = i THEN new ELSE bundles[h].windows[j]
        BY <1>2, <4>1 DEF WindowsPut
      <4>3. CASE h = g /\ j = i
        <5>1. PICK v \in bundles[h].windows[j] : w = MaybeReset(v, now)
          BY <3>1, <4>2, <4>3
        <5>2. w = v
          BY <1>3, <4>1, <5>1, MaybeResetFields
        <5>3. QED
          BY <2>1, <3>1, <5>2 DEF Holds
      <4>4. CASE ~(h = g /\ j = i)
        BY <2>1, <3>1, <4>2, <4>4 DEF Holds
      <4>5. QED
        BY <4>3, <4>4
    <3>2. QED
      BY <1>4, <2>1, <3>1 DEF Holds
  <2>2. Holds(Live', s, seen'.billed)
    BY <1>1, <1>2, <1>3, <1>5, <2>1 DEF SpendOf, Live
  <2>3. \A b \in Admins : admin'[b].phase = "budget" => Holds(bundles'[admin'[b].old], s, seen'.billed)
    BY <1>1, <1>5, <2>1, NextShape DEF SpendOf
  <2>4. \A b \in Admins : admin'[b].phase = "store" =>
          \A k \in Position(admin'[b].next.keys, s) : \A w \in admin'[b].next.windows[k] :
              now' < w.per => w.spent = seen'.billed[s]
    BY <1>1, <1>5 DEF SpendOf
  <2>5. QED
    BY <2>2, <2>3, <2>4 DEF SpendOf
<1>6. QED
  BY <1>1, <1>3, <1>4, <1>5, SpendStep

\* A charge that is neither late nor moved lands in the one window that counts it,
\* and no reload is past the point of copying that window.
LEMMA SpendRecord ==
    ASSUME ShapeInv, ShapeInv', KeysInv, SpendInv, NEW r \in Requests, Record(r)
    PROVE  SpendInv'
<1> DEFINE i == req[r].idx
           s0 == The(req[r].secret)
           new(c) == {WindowRecord(w, c, now) : w \in Live.windows[i]}
<1>1. now' = now /\ admin' = admin
  BY DEF Record
<1>2. /\ live' = live /\ s0 \in Secrets
      /\ ~seen'.moved => ~seen.moved /\ i \in Position(bundles[req[r].target].keys, s0)
      /\ ~seen'.late => /\ ~seen.late /\ req[r].target = live
                        /\ \A a \in Admins : ~HasPassedBy(a, req[r].target)
  BY RecordEffect
<1>3. /\ now \in Nat /\ bundles' \in Seq(BundleShape) /\ live \in DOMAIN bundles
      /\ seen.billed \in [Secrets -> Nat]
  BY Shapes DEF ShapeInv, TypePart, Seen
<1>4. PICK c \in Nat :
        /\ seen'.billed = [seen.billed EXCEPT ![s0] = @ + c]
        /\ IF i \in DOMAIN bundles[req[r].target].windows
           THEN WindowsPut(bundles, req[r].target, i,
                   {WindowRecord(w, c, now) : w \in bundles[req[r].target].windows[i]}, bundles')
           ELSE bundles' = bundles
  BY RecordEffect
<1>5. /\ DOMAIN bundles' = DOMAIN bundles
      /\ \A h \in DOMAIN bundles : bundles'[h].keys = bundles[h].keys
  BY <1>4 DEF WindowsPut
<1>6. ASSUME ~seen'.moved, ~seen'.late, NEW s \in Secrets, SteadyBudget(s), SpendOf(s)
      PROVE  SpendOf(s)'
  <2>1. i \in Position(Live.keys, s0) /\ i \in DOMAIN Live.windows
    <3>1. i \in Position(Live.keys, s0)
      BY <1>2, <1>6 DEF Live
    <3>2. QED
      BY <1>3, <3>1, Shapes DEF Live, Position
  <2>2. WindowsPut(bundles, live, i, new(c), bundles')
    BY <1>2, <1>4, <1>6, <2>1 DEF Live
  <2>3. \A a \in Admins : /\ admin[a].phase # "store"
                          /\ admin[a].phase = "budget" => admin[a].old = live
    BY <1>2, <1>6 DEF HasPassedBy
  <2>4. Holds(Live, s, seen.billed)
    BY <1>6 DEF SpendOf
  <2> HIDE DEF i, s0, new
  <2>5. Holds(bundles'[live], s, seen'.billed)
    <3>1. bundles'[live].keys = Live.keys
      BY <1>3, <1>5 DEF Live
    <3>2. ASSUME Position(Live.keys, s) = {} PROVE seen'.billed[s] = 0
      <4>1. s # s0
        BY <2>1, <3>2
      <4>2. QED
        BY <1>3, <1>4, <2>4, <3>2, <4>1 DEF Holds
    <3>3. ASSUME NEW j \in Position(Live.keys, s), NEW w \in bundles'[live].windows[j]
          PROVE  w.spent = seen'.billed[s]
      <4>1. /\ j \in DOMAIN Live.windows /\ Live.windows[j] \in SUBSET Window
            /\ \A v \in Live.windows[j] : now < v.per
        BY <1>3, <1>6, <3>3, SteadyLasts, Shapes DEF Live
      <4>2. bundles'[live].windows[j] = IF j = i THEN new(c) ELSE Live.windows[j]
        BY <1>3, <2>2, <4>1 DEF WindowsPut, Live
      <4>3. CASE j = i
        <5>1. PICK v \in Live.windows[j] : w = WindowRecord(v, c, now)
          BY <3>3, <4>2, <4>3 DEF new
        <5>2. w.spent = v.spent + c
          BY <1>3, <4>1, <5>1, WindowRecordFields
        <5>3. v.spent = seen.billed[s]
          BY <2>4, <3>3 DEF Holds
        <5>4. s = s0
          BY <2>1, <3>3, <4>3 DEF Position
        <5>5. QED
          BY <1>2, <1>3, <1>4, <5>2, <5>3, <5>4
      <4>4. CASE j # i
        <5>1. Distinct(Live.keys)
          BY <1>3 DEF KeysInv, Live
        <5>2. s # s0
          BY <2>1, <3>3, <4>4, <5>1 DEF Position, Distinct
        <5>3. w.spent = seen.billed[s]
          BY <2>4, <3>3, <4>2, <4>4 DEF Holds
        <5>4. QED
          BY <1>3, <1>4, <5>2, <5>3
      <4>5. QED
        BY <4>3, <4>4
    <3>4. QED
      BY <3>1, <3>2, <3>3 DEF Holds
  <2>6. Holds(Live', s, seen'.billed)
    BY <1>2, <2>5 DEF Live
  <2>7. \A b \in Admins : admin'[b].phase = "budget" => Holds(bundles'[admin'[b].old], s, seen'.billed)
    BY <1>1, <2>3, <2>5
  <2>8. \A b \in Admins : admin'[b].phase # "store"
    BY <1>1, <2>3
  <2>9. QED
    BY <2>6, <2>7, <2>8 DEF SpendOf
<1>7. QED
  BY <1>1, <1>2, <1>3, <1>5, <1>6, SpendStep

LEMMA SpendNext == ShapeInv /\ ShapeInv' /\ KeysInv /\ SpendInv /\ [Next]_vars => SpendInv'
<1> SUFFICES ASSUME ShapeInv, ShapeInv', KeysInv, SpendInv, [Next]_vars PROVE SpendInv'
  OBVIOUS
<1>1. now \in Nat
  BY Shapes
<1>2. CASE UNCHANGED vars
  BY <1>1, <1>2, SpendAside DEF vars
<1>3. CASE Tick
  <2>1. now' \in Nat /\ now <= now'
    BY <1>1, <1>3 DEF Tick
  <2>2. QED
    BY <1>3, <2>1, SpendAside DEF Tick
<1>4. CASE Restart
  BY <1>4, SpendRestart
<1>5. ASSUME NEW a \in Admins, Quiet(a) PROVE SpendInv'
  <2>1. Aside(admin, admin', a)
    BY <1>5, QuietShape
  <2>2. QED
    BY <1>1, <2>1, SpendAside DEF Aside
<1>6. ASSUME NEW a \in Admins, CopyLimiter(a) \/ CopyBudgets(a) \/ Store(a) PROVE SpendInv'
  BY <1>6, SpendCopyLimiter, SpendCopyBudgets, SpendStore
<1>7. ASSUME NEW r \in Requests, Authenticate(r) \/ EndUncharged(r) \/ LoadForRecord(r)
      PROVE  SpendInv'
  BY <1>1, <1>7, SpendAside DEF Authenticate, EndUncharged, LoadForRecord
<1>8. ASSUME NEW r \in Requests, CheckRate(r) \/ CheckBudget(r) \/ Record(r) PROVE SpendInv'
  BY <1>8, SpendCheckRate, SpendCheckBudget, SpendRecord
<1>9. QED
  BY <1>2, <1>3, <1>4, <1>5, <1>6, <1>7, <1>8 DEF Next, Quiet

LEMMA SpendCarried == ShapeInv /\ SpendInv => SpendCarriedExactly
<1> SUFFICES ASSUME ShapeInv, SpendInv, ~seen.moved, ~seen.late, NEW i \in DOMAIN Live.keys,
                    SteadyBudget(Live.keys[i].key), NEW w \in Live.windows[i]
             PROVE  w.spent = seen.billed[Live.keys[i].key]
  BY DEF SpendCarriedExactly
<1>1. Live.keys[i] \in Entry
  BY Shapes DEF Live
<1>2. Live.keys[i].key \in Secrets /\ i \in Position(Live.keys, Live.keys[i].key)
  BY <1>1, EntryFields DEF Position
<1>3. QED
  BY <1>2 DEF SpendInv, SpendOf, Holds
-----------------------------------------------------------------------------
(* The theorems *)

LEMMA InvInit == Init => IInv
BY ShapeInit, KeysInit, OwnerInit, EditInit, SpendInit DEF IInv

LEMMA InvNext == IInv /\ [Next]_vars => IInv'
BY ShapeNext, KeysNext, OwnerNext, EditNext, SpendNext DEF IInv

\* In every state a reload, an edit or a request can be in, each part of the
\* argument holds: what operators and requests refer to exists, no bundle has a
\* secret twice, counters belong to their key, file and live configuration differ
\* for a reason, and the spend is where a reload will find it.
THEOREM Inductive == Spec => []IInv
<1>1. QED
  BY InvInit, InvNext, PTL DEF Spec

\* RateLimiter and BudgetTracker::rebuild_from under Reloader::apply: through any
\* number of reloads, failed, overlapping or in the middle of a request, a bucket
\* misses only tokens that its key's own requests took, and a window holds only
\* what they cost, unless a request ended after its key had changed position.
THEOREM OwnerHolds == Spec => []ChargedToOwner
<1>1. IInv => ChargedToOwner
  BY OwnerPays DEF IInv
<1>2. QED
  BY Inductive, <1>1, PTL

\* BudgetTracker::rebuild_from and ::record: what a key's requests cost is carried
\* over to the last cent, but for charges that fall into a reload's copy or on a
\* position that has moved.
THEOREM SpendHolds == Spec => []SpendCarriedExactly
<1>1. IInv => SpendCarriedExactly
  BY SpendCarried DEF IInv
<1>2. QED
  BY Inductive, <1>1, PTL

\* Reloader::apply writes the file before it loads it: between edits the file
\* holds the live virtual keys unless a save, a failed reload or overlapping edits
\* explain the difference.
THEOREM DivergenceHolds == Spec => []DivergenceExplained
<1>1. IInv => DivergenceExplained
  BY EditExplains DEF IInv
<1>2. QED
  BY Inductive, <1>1, PTL

\* keys_update and keys_delete find a block by its position in the file, which an
\* operator who is alone chose on a page showing the same keys.
THEOREM EditHolds == Spec => []EditHitsShownKey
<1>1. IInv => EditHitsShownKey
  BY EditExplains DEF IInv
<1>2. QED
  BY Inductive, <1>1, PTL
=============================================================================
