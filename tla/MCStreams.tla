------------------------------ MODULE MCStreams ------------------------------
(* Instances of StreamRestore for TLC. *)
EXTENDS StreamRestore, TLC

\* A placeholder that begins another one, `EMAIL' cut short to EE, and an
\* original that ends like a placeholder begins; one with something to escape.
mcAlphabet == {"E", "_", "1"}
mcOriginal == <<"E", "E", "_", "1">> :> <<"a", "E">> @@ <<"E", "E", "_", "1", "1">> :> <<"q", "b">>
=============================================================================
