------------------------------ MODULE Delivery ------------------------------
(***************************************************************************)
(* What the usage-event sink (crates/drgtw-events/src/sink.rs) promises,   *)
(* without its queue, its worker and its counters.  Events are known by    *)
(* their number in the order of emission.                                  *)
(*                                                                         *)
(*   pending    waits, or is being sent                                    *)
(*   delivered  the receiver acknowledged it: in the order of emission     *)
(*   failed     was sent and not acknowledged; it may have arrived, and it *)
(*              may still arrive                                           *)
(*   lost       was never sent                                             *)
(***************************************************************************)
EXTENDS Naturals, SequencesExt

VARIABLES fate,      \* what became of each event
          arrived    \* the events the receiver got, as they arrived
vars == <<fate, arrived>>

Init == fate = <<>> /\ arrived = <<>>

Pending == {e \in DOMAIN fate : fate[e] = "pending"}
First(e) == e \in Pending /\ \A d \in Pending : e <= d

\* Emission never waits: an event that cannot be kept is lost.
Emit ==
    /\ \E f \in {"pending", "lost"} : fate' = Append(fate, f)
    /\ UNCHANGED arrived

\* No event arrives twice.
Arrive(e) ==
    /\ First(e) \/ fate[e] = "failed"
    /\ e \notin Range(arrived)
    /\ arrived' = Append(arrived, e)
    /\ UNCHANGED fate

\* Events are settled in the order of their emission.
Settle(e) ==
    /\ First(e)
    /\ \/ fate' = [fate EXCEPT ![e] = "failed"]
       \/ e \in Range(arrived) /\ fate' = [fate EXCEPT ![e] = "delivered"]
    /\ UNCHANGED arrived

\* The process stops: nothing that was waiting is kept.
Stop ==
    /\ \E f \in {"failed", "lost"} :
          fate' = [e \in DOMAIN fate |->
                    CASE First(e) -> f
                      [] e \in Pending /\ ~First(e) -> "lost"
                      [] e \notin Pending -> fate[e]]
    /\ UNCHANGED arrived

Next == Emit \/ Stop \/ \E e \in DOMAIN fate : Arrive(e) \/ Settle(e)

Spec == Init /\ [][Next]_vars
=============================================================================
