--------------------------- MODULE MCProxyRequest ---------------------------
(* Instances of ProxyRequest for TLC. *)
EXTENDS ProxyRequest

conn(name, format, exact, prefix) ==
    [name |-> name, format |-> format, exact |-> exact, prefix |-> prefix]

\* A key with connections of every format: exact and wildcard matches, a
\* connection that matches both ways, one that does not match.
mcConns == <<conn("idle", "open_ai", FALSE, {}),
             conn("wide", "open_ai", FALSE, {1}),
             conn("azure", "open_ai", TRUE, {2}),
             conn("aws", "bedrock_converse", FALSE, {1}),
             conn("native", "bedrock", TRUE, {}),
             conn("claude", "anthropic", TRUE, {})>>

mcRules == {[phase |-> "both", action |-> "block"], [phase |-> "pre", action |-> "flag"]}

mcStrict == [conns |-> mcConns, fallback |-> TRUE, pii |-> TRUE,
             embeddings_off |-> FALSE, bypass |-> FALSE, rules |-> mcRules]
mcLoose == [conns |-> mcConns, fallback |-> FALSE, pii |-> TRUE,
            embeddings_off |-> TRUE, bypass |-> TRUE, rules |-> {}]
mcOff == [conns |-> Tail(mcConns), fallback |-> TRUE, pii |-> FALSE,
          embeddings_off |-> FALSE, bypass |-> FALSE,
          rules |-> {[phase |-> "post", action |-> "block"]}]

mcConfigs == {mcStrict, mcLoose, mcOff}
mcMessages == {a \in Ask : a.endpoint = "messages"}
mcOneConfig == {mcStrict}
=============================================================================
