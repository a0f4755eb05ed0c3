----------------------------- MODULE MCHotReload -----------------------------
(* Instances of HotReload for TLC. *)
EXTENDS HotReload

CONSTANTS s1, s2, a1, a2, r1, r2

mcSecrets == {s1, s2}

limit(n) == {[requests |-> n, refill |-> 1]}
budget(n) == {[max |-> n, per |-> 1]}

\* One key in two versions and another key.
mcEntries == {[key |-> s1, rate |-> limit(1), budget |-> budget(1)],
              [key |-> s1, rate |-> limit(2), budget |-> budget(2)],
              [key |-> s2, rate |-> limit(1), budget |-> budget(1)]}

\* The two keys, each in one version.
mcOneVersion == {[key |-> s, rate |-> limit(1), budget |-> budget(1)] : s \in mcSecrets}

mcOneKey == <<[key |-> s1, rate |-> limit(1), budget |-> budget(1)]>>
mcTwoKeys == <<[key |-> s1, rate |-> limit(2), budget |-> budget(2)],
               [key |-> s2, rate |-> limit(1), budget |-> budget(1)]>>

mcOneAdmin == {a1}
mcTwoAdmins == {a1, a2}
mcOneRequest == {r1}

\* Bounds: time passes over one reload only; a second request is admitted over the
\* first reload only, in no time; two operators work at the same time on updates of a
\* single key only, while one request is admitted.
AtWork == Cardinality({a \in Admins : admin[a].phase # "idle"})
Admissions == seen.taken[s1] + seen.taken[s2]
OneReload == Len(bundles') + AtWork' <= 2
TimeOrReloads == now' > 0 => OneReload
AdmissionsOrReloads == Admissions' > 1 => Admissions' = 2 /\ now' = 0 /\ OneReload
OverlapOnUpdates ==
    AtWork' > 1 => /\ \A a \in Admins : \A f \in admin'[a].form : f.op = "update"
                   /\ Len(disk'.keys) = 1 /\ Admissions' <= 1
ChainNext == Next /\ TimeOrReloads /\ AdmissionsOrReloads /\ OverlapOnUpdates

AdminSymmetry == Permutations(mcTwoAdmins)
=============================================================================
