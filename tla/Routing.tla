------------------------------- MODULE Routing -------------------------------
(***************************************************************************)
(* Which upstream connections a request is sent to, in which order:        *)
(* ResolvedKey::connections_for_model of crates/drgtw-keys/src/lib.rs and  *)
(* the filters of proxy_endpoint and embeddings_inner                      *)
(* (crates/drgtw-proxy/src/handlers.rs).                                   *)
(*                                                                         *)
(* A connection is seen from the one model that a request asks for: `exact'*)
(* says that its model list names it, `prefix' holds the length of the     *)
(* longest wildcard of the list that matches it, if one does.              *)
(***************************************************************************)
EXTENDS Naturals, SequencesExt, Options


\* The elements of a sequence that are in a set, in their order.
Select(s, S) ==
    LET upTo[n \in 0 .. Len(s)] ==
            IF n = 0 THEN <<>>
            ELSE IF s[n] \in S THEN Append(upTo[n - 1], s[n]) ELSE upTo[n - 1]
    IN upTo[Len(s)]

Formats == {"open_ai", "anthropic", "bedrock", "bedrock_converse"}
Endpoints == {"chat_completions", "messages", "embeddings"}

Connection == [name : STRING, format : Formats, exact : BOOLEAN, prefix : Option(Nat)]

\* Mutant: wildcards in the order of the configuration.
WildcardsInConfigOrder(conns) == Select(conns, {c \in Range(conns) : c.prefix # {}})

\* A connection goes behind those of a prefix as long, which come before it in the
\* configuration, or longer.
Ranked(before, c) ==
    LET ahead == {d \in Range(before) : The(d.prefix) >= The(c.prefix)}
    IN Select(before, ahead) \o <<c>> \o Select(before, Range(before) \ ahead)

\* Wildcard matches, the longest prefix first, config order among equals.
Wildcards(conns) ==
    LET matches == Select(conns, {c \in Range(conns) : c.prefix # {}})
        upTo[n \in 0 .. Len(matches)] == IF n = 0 THEN <<>> ELSE Ranked(upTo[n - 1], matches[n])
    IN upTo[Len(matches)]

\* Exact matches in config order, then wildcard matches: a connection that
\* matches both ways is listed twice.
ConnectionsForModel(conns) ==
    Select(conns, {c \in Range(conns) : c.exact}) \o Wildcards(conns)

\* spec_accepts_format; embeddings_inner takes open_ai only.
Accepts(endpoint, format) ==
    CASE endpoint = "chat_completions" -> format \in {"open_ai", "bedrock_converse"}
      [] endpoint = "messages" -> format \in {"anthropic", "bedrock"}
      [] endpoint = "embeddings" -> format = "open_ai"

\* The candidates of the dispatch loop: those of the endpoint's format, only
\* the first of them if fallback is disabled, and for a stream none that speaks
\* native Bedrock.  The request is refused if there is none.
Candidates(conns, fallback, endpoint, streaming) ==
    LET all == ConnectionsForModel(conns)
        matching == Select(all, {c \in Range(all) : Accepts(endpoint, c.format)})
        tried == IF fallback \/ matching = <<>> THEN matching ELSE <<Head(matching)>>
    IN IF streaming THEN Select(tried, {c \in Range(tried) : c.format # "bedrock"}) ELSE tried
=============================================================================
