------------------------------- MODULE Options -------------------------------
(* Option<T> is a set of at most one T: mapping over it is {f(x) : x \in o}.   *)

Option(S) == {o \in SUBSET S : \A x, y \in o : x = y}
The(o) == CHOOSE x \in o : TRUE
=============================================================================
