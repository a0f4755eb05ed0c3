----------------------------- MODULE LimitsPage -----------------------------
(***************************************************************************)
(* What the operator console shows of the counters: the Rate Limits page   *)
(* (pages/limits.rs), the Cost & Budgets page (pages/budgets.rs) and a     *)
(* key's page (pages/keys.rs).  A page takes the live configuration once   *)
(* and then, row by row, the counter at each key's position, from whatever *)
(* bundle is live by then, while requests are admitted and charged and the *)
(* configuration is reloaded.  How a reload itself races with requests is  *)
(* HotReload's; here it is one step.                                       *)
(***************************************************************************)
EXTENDS Counters

CONSTANTS KeyLists,   \* configurations: [key, rate, budget] in sequence
          Charges,    \* what a response may cost
          MaxReloads, \* bound
          LastRead    \* bound: the last clock reading

ASSUME LimitsPageAssumption ==
    /\ Charges \subseteq Nat /\ MaxReloads \in Nat /\ LastRead \in Nat
    /\ \A ks \in KeyLists : /\ DOMAIN ks \subseteq Nat
                           /\ \A i \in DOMAIN ks : /\ ks[i].rate \in Option(RateLimit)
                                                  /\ ks[i].budget \in Option(Budget)

VARIABLES clock,
          lim,     \* the live bundle: its keys, counters and generation
          table    \* the page being rendered: none or one
limitsVars == <<clock, lim, table>>

FreshLim(ks, t) == [keys |-> ks, buckets |-> LimiterNew(ks, t), windows |-> BudgetsNew(ks), gen |-> 0]

LimitsInit ==
    /\ clock = 0 /\ table = {}
    /\ \E ks \in KeyLists : lim = FreshLim(ks, 0)

AdmitOne(i) ==
    /\ lim' = [lim EXCEPT !.buckets[i] = {BucketCheck(b, clock) : b \in @}]
    /\ UNCHANGED <<clock, table>>

\* Bound: no charge on top of an exhausted budget, which is KeyBudget's.
ChargeOne(i, cost) ==
    /\ \A w \in lim.windows[i] : WindowAllows(w, clock)
    /\ lim' = [lim EXCEPT !.windows[i] = {WindowRecord(w, cost, clock) : w \in @}]
    /\ UNCHANGED <<clock, table>>

ReloadKeys(ks) ==
    /\ lim.gen < MaxReloads
    /\ lim' = [keys |-> ks, gen |-> lim.gen + 1,
               buckets |-> LimiterRebuild(lim.keys, lim.buckets, ks, clock),
               windows |-> BudgetsRebuild(lim.keys, lim.windows, ks, clock)]
    /\ UNCHANGED <<clock, table>>

TimePasses ==
    /\ clock < LastRead
    /\ clock' = clock + 1
    /\ UNCHANGED <<lim, table>>
-----------------------------------------------------------------------------
(* Snapshots *)

\* Mutant: what the bucket held at its last request.
RateSnapshotStored(b, now) ==
    [remaining |-> b.tokens \div GRAIN, capacity |-> b.capacity,
     secs |-> IF b.tokens >= GRAIN THEN 0 ELSE CeilDiv(GRAIN - b.tokens, b.refill * TICKS)]

\* RateLimiter::snapshot refills a copy.
RateSnapshot(b, now) ==
    LET tokens == Least(b.tokens + Elapsed(b.last_refill, now) * b.refill, b.capacity * GRAIN)
    IN [remaining |-> tokens \div GRAIN, capacity |-> b.capacity,
        secs |-> IF tokens >= GRAIN THEN 0 ELSE CeilDiv(GRAIN - tokens, b.refill * TICKS)]

\* BudgetTracker::snapshot resets a window that has elapsed, in place, and rounds
\* the seconds down.
BudgetSnapshot(w, now) ==
    LET kept == MaybeReset(w, now)
    IN [spent |-> kept.spent, max |-> kept.max,
        secs |-> IF kept.start = NotStarted THEN 0 ELSE (kept.per - Elapsed(kept.start, now)) \div TICKS]

\* `_snapshot(key_id)': nothing for a position without a counter.
CounterAt(counters, i) == IF i \in DOMAIN counters THEN counters[i] ELSE {}
-----------------------------------------------------------------------------
(* Pages *)

\* The counters a page asks for: the list pages those of the keys that have a limit
\* or a budget, a key's page both of its key, whatever it has.
RatesOf(ks) == {<<i, "rate">> : i \in {i \in DOMAIN ks : ks[i].rate # {}}}
BudgetsOf(ks) == {<<i, "budget">> : i \in {i \in DOMAIN ks : ks[i].budget # {}}}
DetailOf(i) == {<<i, "rate">>, <<i, "budget">>}

\* The one whose turn it is: row by row, the limit first.
Turn(todo) ==
    {q \in todo : \A r \in todo : q[1] < r[1] \/ (q[1] = r[1] /\ (q[2] = "rate" \/ r[2] = "budget"))}

OpenTable(questions) ==
    /\ table = {}
    /\ table' = {[keys |-> lim.keys, gen |-> lim.gen, todo |-> questions, cell |-> {}]}
    /\ UNCHANGED <<clock, lim>>

\* What a page shows of a counter, with the counter it was read from and the key
\* that counter belongs to.
CellOf(t, i, rate, counter) ==
    [key |-> t.keys[i].key, rate |-> rate, at |-> clock, same |-> lim.gen = t.gen,
     limited |-> (IF rate THEN t.keys[i].rate ELSE t.keys[i].budget) # {},
     owner |-> IF i \in DOMAIN lim.keys THEN {lim.keys[i].key} ELSE {},
     counter |-> counter,
     snap |-> IF rate THEN {RateSnapshot(b, clock) : b \in counter}
              ELSE {BudgetSnapshot(w, clock) : w \in counter}]

\* The next counter is read; a budget's is reset in place if it has elapsed.
ReadRate ==
    \E t \in table : \E q \in Turn(t.todo) :
        /\ q[2] = "rate"
        /\ table' = {[t EXCEPT !.todo = @ \ {q},
                              !.cell = {CellOf(t, q[1], TRUE, CounterAt(lim.buckets, q[1]))}]}
        /\ UNCHANGED <<clock, lim>>

ReadBudget ==
    \E t \in table : \E q \in Turn(t.todo) :
        /\ q[2] = "budget"
        /\ table' = {[t EXCEPT !.todo = @ \ {q},
                              !.cell = {CellOf(t, q[1], FALSE, CounterAt(lim.windows, q[1]))}]}
        /\ lim' = [lim EXCEPT !.windows = [i \in DOMAIN @ |->
                      IF i = q[1] THEN {MaybeReset(w, clock) : w \in @[i]} ELSE @[i]]]
        /\ UNCHANGED clock

ShowTable ==
    /\ \E t \in table : t.todo = {}
    /\ table' = {}
    /\ UNCHANGED <<clock, lim>>

LimitsNext ==
    \/ \E i \in DOMAIN lim.keys : AdmitOne(i)
    \/ \E i \in DOMAIN lim.keys, cost \in Charges : ChargeOne(i, cost)
    \/ \E ks \in KeyLists : ReloadKeys(ks)
    \/ OpenTable(RatesOf(lim.keys)) \/ OpenTable(BudgetsOf(lim.keys))
    \/ \E i \in DOMAIN lim.keys : OpenTable(DetailOf(i))
    \/ ReadRate \/ ReadBudget \/ ShowTable \/ TimePasses

LimitsSpec == LimitsInit /\ [][LimitsNext]_limitsVars
-----------------------------------------------------------------------------
\* The tokens shown, and the seconds to the next one, of a rate limit.
RateTold(b, snap, at) ==
    /\ snap.remaining > 0 <=> BucketAllows(b, at)
    /\ snap.secs = 0 <=> BucketAllows(b, at)
    /\ BucketAllows(b, at + snap.secs * TICKS)
    /\ snap.secs > 0 => ~BucketAllows(b, at + (snap.secs - 1) * TICKS)

\* The spend shown, and the seconds to the reset, of a budget.
BudgetTold(w, snap, at) ==
    /\ snap.spent < snap.max <=> WindowAllows(w, at)
    /\ WindowAllows(w, at + (snap.secs + 1) * TICKS)
    /\ snap.secs > 0 => MaybeReset(w, at + snap.secs * TICKS - 1).spent = snap.spent

CellTells(c) ==
    /\ c.same => c.owner = {c.key} /\ (c.limited <=> c.snap # {})
    /\ c.rate => \A b \in c.counter : \A snap \in c.snap : RateTold(b, snap, c.at)
    /\ ~c.rate => \A w \in c.counter : \A snap \in c.snap : BudgetTold(w, snap, c.at)

\* A page tells what the next request of a key would meet: tokens are left
\* exactly if it would be admitted, and after the seconds shown it would be;
\* spend is left exactly if the budget lets it through, and the window ends
\* within the second after those shown.  After a reload a position may be
\* another key's, whose counters the page then shows; without one none is
\* missing and each is its key's (RateLimiter::snapshot, BudgetTracker::snapshot).
PagesTellTheTruth == \A t \in table : \A c \in t.cell : CellTells(c)
=============================================================================
