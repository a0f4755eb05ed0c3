------------------------------ MODULE KeyBudget ------------------------------
(***************************************************************************)
(* One key's spend budget under concurrent requests: BudgetTracker::check  *)
(* gates a request before its dispatch and BudgetTracker::record charges   *)
(* it when its response has been accounted (crates/drgtw-keys/src/lib.rs,  *)
(* called from crates/drgtw-proxy/src/handlers.rs).  Check consumes        *)
(* nothing, so every request in flight was admitted on the spend of the    *)
(* others that had finished.  Both calls read the clock before they lock   *)
(* the window.                                                             *)
(***************************************************************************)
EXTENDS Limits, FiniteSets

CONSTANTS Requests,  \* slots: the requests of the key that may be in flight
          BudgetCfg, \* the key's budget
          MaxCost,   \* the most one request costs
          LastTime    \* bound: the last clock reading

ASSUME KeyBudgetAssumption ==
    /\ IsFiniteSet(Requests)
    /\ BudgetCfg \in Budget
    /\ MaxCost \in Nat
    /\ LastTime \in Nat

VARIABLES time, window, req
budgetVars == <<time, window, req>>

SlotPhases == {"idle", "checking", "admitted", "recording"}
Slot == [phase : SlotPhases, stamp : Nat, cost : 0 .. MaxCost]
Idle == [phase |-> "idle", stamp |-> 0, cost |-> 0]

BudgetTypeOK ==
    /\ time \in Nat
    /\ window \in Window
    /\ req \in [Requests -> Slot]

BudgetInit ==
    /\ time = 0
    /\ window = WindowNew(BudgetCfg)
    /\ req = [r \in Requests |-> Idle]

BudgetTick ==
    /\ time < LastTime
    /\ time' = time + 1
    /\ UNCHANGED <<window, req>>

\* A request arrives; BudgetTracker::check reads the clock.
Arrive(r) ==
    /\ req[r].phase = "idle"
    /\ req' = [req EXCEPT ![r] = [phase |-> "checking", stamp |-> time, cost |-> 0]]
    /\ UNCHANGED <<time, window>>

\* BudgetWindow::check under the lock: reset an elapsed window, then decide.
CheckBudget(r) ==
    /\ req[r].phase = "checking"
    /\ window' = MaybeReset(window, req[r].stamp)
    /\ req' = [req EXCEPT ![r] =
                IF WindowAllows(window, req[r].stamp)
                THEN [@ EXCEPT !.phase = "admitted"] ELSE Idle]
    /\ UNCHANGED time

\* The request ends with no known cost (transport failure, a response without
\* usage, a blocked response, a client that went away): nothing is recorded.
EndUncharged(r) ==
    /\ req[r].phase = "admitted"
    /\ req' = [req EXCEPT ![r] = Idle]
    /\ UNCHANGED <<time, window>>

\* The response is accounted; BudgetTracker::record reads the clock.
KnowCost(r) ==
    /\ req[r].phase = "admitted"
    /\ \E c \in 0 .. MaxCost :
          req' = [req EXCEPT ![r] = [phase |-> "recording", stamp |-> time, cost |-> c]]
    /\ UNCHANGED <<time, window>>

\* BudgetWindow::record under the lock.
Record(r) ==
    /\ req[r].phase = "recording"
    /\ window' = WindowRecord(window, req[r].cost, req[r].stamp)
    /\ req' = [req EXCEPT ![r] = Idle]
    /\ UNCHANGED time

BudgetNext ==
    \/ BudgetTick
    \/ \E r \in Requests :
          \/ Arrive(r) \/ CheckBudget(r)
          \/ EndUncharged(r) \/ KnowCost(r) \/ Record(r)

BudgetSpec == BudgetInit /\ [][BudgetNext]_budgetVars
-----------------------------------------------------------------------------
InFlight == {r \in Requests : req[r].phase \in {"admitted", "recording"}}

\* A budget can be overrun, but by no more than what the requests admitted
\* while it was not exhausted cost: one maximum each (check does not consume).
OvershootBound ==
    window.spent <= (window.max - 1) + MaxCost * Cardinality(Requests)

\* The inductive form: what the requests in flight may still add counts.
OvershootInv ==
    window.spent + MaxCost * Cardinality(InFlight) <=
        (window.max - 1) + MaxCost * Cardinality(Requests)

\* Spend always has a window that will expire: a key is never locked out for
\* good, and a refusal has a reset to announce.
SpendHasWindow == window.spent > 0 => window.start # NotStarted

BudgetIInv ==
    /\ BudgetTypeOK
    /\ window.max = BudgetCfg.max
    /\ OvershootInv
    /\ SpendHasWindow

\* The `retry-after' of a refusal is positive and long enough: a check made
\* that many seconds later is admitted if nothing is charged meanwhile.
BudgetRetryAfterSuffices ==
    ~WindowAllows(window, time) =>
        /\ WindowRetryAfter(window, time) > 0
        /\ WindowAllows(window, time + WindowRetryAfter(window, time) * TICKS)
=============================================================================
