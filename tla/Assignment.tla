----------------------------- MODULE Assignment -----------------------------
(***************************************************************************)
(* What the vault (crates/drgtw-vault/src/lib.rs) promises, without its    *)
(* database, its processes and its keys: an entity is given a placeholder  *)
(* once, no two entities share one, nothing assigned is ever changed or    *)
(* forgotten, and only what is assigned is told to a caller.               *)
(***************************************************************************)
CONSTANTS Entities, Placeholders

VARIABLES assigned,  \* the pairs <<entity, placeholder>> in force
          told       \* the pairs a caller was given

Init == assigned = {} /\ told = {}

Assign(e, p) ==
    /\ \A a \in assigned : a[1] # e /\ a[2] # p
    /\ assigned' = assigned \cup {<<e, p>>}
    /\ UNCHANGED told

Tell(e, p) ==
    /\ <<e, p>> \in assigned
    /\ told' = told \cup {<<e, p>>}
    /\ UNCHANGED assigned

Next == \E e \in Entities, p \in Placeholders : Assign(e, p) \/ Tell(e, p)

Spec == Init /\ [][Next]_<<assigned, told>>
=============================================================================
