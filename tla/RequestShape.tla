---------------------------- MODULE RequestShape ----------------------------
(***************************************************************************)
(* What the gateway makes of a request and of its response, besides its    *)
(* way (ProxyRequest) and the hiding of entities (PiiMasking): attribution, *)
(* model aliases, the body for Bedrock, what the client is told.  From     *)
(* proxy_endpoint, embeddings_inner and relay_with_usage of                *)
(* crates/drgtw-proxy/src/handlers.rs and from error.rs.                   *)
(*                                                                         *)
(* A JSON object is a function from its fields.  The keys of metadata are  *)
(* numbers in their order, 0 the empty one; those in LongKeys are longer   *)
(* than the gateway keeps.                                                 *)
(***************************************************************************)
EXTENDS Naturals, FiniteSets, FiniteSetsExt

CONSTANTS AttributedRequests, BufferedResponses,
          Aliases,        \* [model_aliases]
          LongKeys,
          MaxKeys         \* META_MAX_KEYS
ASSUME ShapeAssumption ==
    /\ MaxKeys \in Nat /\ LongKeys \subseteq Nat
    /\ \A r \in AttributedRequests :  \* past the authentication and the check for a model
          /\ r.body = [f \in DOMAIN r.body |-> r.body[f]] /\ "model" \in DOMAIN r.body
          /\ DOMAIN r.headers \subseteq Nat /\ IsFiniteSet(DOMAIN r.headers)
          /\ "metadata" \in DOMAIN r.body => DOMAIN r.metadata \subseteq Nat /\ IsFiniteSet(DOMAIN r.metadata)

Other(f, k, default) == IF k \in DOMAIN f THEN f[k] ELSE default
Without(f, keys) == [k \in DOMAIN f \ keys |-> f[k]]
Over(f, g) == [k \in DOMAIN f \cup DOMAIN g |-> Other(f, k, Other(g, k, "none"))]

VARIABLES asks,    \* a request: endpoint, body, headers; the connection it goes to
          answer   \* a response and what the gateway knows of it, or its own error
shapeVars == <<asks, answer>>
AsksInit == asks \in AttributedRequests
AnswerInit == answer \in BufferedResponses
ShapeSpec == AsksInit /\ AnswerInit /\ [][UNCHANGED shapeVars]_shapeVars  \* an exchange, as a whole
-----------------------------------------------------------------------------
(* Attribution *)

Keepable(key) == key # 0 /\ key \notin LongKeys

\* truncate_chars
Truncate(value) == IF value = "long" THEN "cut" ELSE value

\* Mutant: the body wins.
CollectBodyWins(headers, metadata) ==
    LET body == [k \in {k \in DOMAIN metadata : Keepable(k) /\ metadata[k] # "null"} |-> Truncate(metadata[k])]
        header == [k \in {k \in DOMAIN headers : Keepable(k) /\ headers[k] # "opaque"} |-> Truncate(headers[k])]
        all == Over(body, header)
    IN [k \in {k \in DOMAIN all : Cardinality({l \in DOMAIN all : l < k}) < MaxKeys} |-> all[k]]

\* collect_metadata: those of the body, overridden by `x-drgtw-meta-' headers,
\* then the first of them in order.
CollectMetadata(headers, metadata) ==
    LET body == [k \in {k \in DOMAIN metadata : Keepable(k) /\ metadata[k] # "null"} |-> Truncate(metadata[k])]
        header == [k \in {k \in DOMAIN headers : Keepable(k) /\ headers[k] # "opaque"} |-> Truncate(headers[k])]
        all == Over(header, body)
    IN [k \in {k \in DOMAIN all : Cardinality({l \in DOMAIN all : l < k}) < MaxKeys} |-> all[k]]

\* The metadata of the event: of the body as it came.
Metadata(r) == IF "metadata" \in DOMAIN r.body THEN r.metadata ELSE <<>>
EventMetadata(r) == CollectMetadata(r.headers, Metadata(r))
-----------------------------------------------------------------------------
(* The body for the upstream *)

\* The event has the metadata, the upstream has not.
StripMetadata(body) == Without(body, {"metadata"})

\* resolve_model_alias, one level.
ResolveModelAlias(model) == Other(Aliases, model, model)
ResolveModel(body) == [body EXCEPT !["model"] = ResolveModelAlias(@)]

\* InvokeModel has the model in its URL and wants its version.
ForBedrock(body) ==
    Over(Without(body, {"model"}), [anthropic_version |-> "bedrock-2023-05-31"])

\* What is sent to the upstream: written anew if anything changed or PII is on,
\* else the very bytes.
Forward(r) ==
    LET stripped == StripMetadata(r.body)
        resolved == ResolveModel(stripped)
        fitting == IF r.format = "bedrock" THEN ForBedrock(resolved) ELSE resolved
    IN [fields |-> fitting,
        verbatim |-> /\ ~r.pii /\ r.format # "bedrock"
                     /\ "metadata" \notin DOMAIN r.body
                     /\ resolved["model"] = r.body["model"]]

\* Attribution goes to the event and never to the provider: the event has every
\* key the client gave, unless there are too many, the headers' value where both
\* give one.  The upstream gets what the client sent, with the model that routing
\* chose by, and the very bytes if that changes nothing.
AttributionKept ==
    LET sent == Forward(asks)
        event == EventMetadata(asks)
        given(f, k, unreadable) == Keepable(k) /\ Other(f, k, unreadable) # unreadable
        fromHeader(k) == given(asks.headers, k, "opaque")
        fromBody(k) == given(Metadata(asks), k, "null")
        keys == DOMAIN asks.headers \cup DOMAIN Metadata(asks)
    IN /\ Cardinality(DOMAIN event) <= MaxKeys
       /\ \A k \in keys :
             \/ k \in DOMAIN event <=> fromHeader(k) \/ fromBody(k)
             \/ Cardinality(DOMAIN event) = MaxKeys /\ \A l \in DOMAIN event : l < k
       /\ \A k \in DOMAIN event :
             event[k] = Truncate(IF fromHeader(k) THEN asks.headers[k] ELSE asks.metadata[k])
       /\ "metadata" \notin DOMAIN sent.fields
       /\ \A f \in DOMAIN sent.fields \cup DOMAIN asks.body :
             \/ Other(sent.fields, f, "none") = Other(asks.body, f, "none")
             \/ f = "metadata"
             \/ f = "model" /\ (asks.format = "bedrock" \/ sent.fields[f] = ResolveModelAlias(asks.body[f]))
             \/ f = "anthropic_version" /\ asks.format = "bedrock" /\ f \notin DOMAIN asks.body
       /\ sent.verbatim => sent.fields = asks.body
       /\ ~sent.verbatim => asks.pii \/ sent.fields # asks.body
-----------------------------------------------------------------------------
(* The response, buffered *)

\* Mutant: only what the vault has is restored.
RestoresFromVault(a) == a.pii /\ a.vault

\* should_restore_body: entities of this request, or a vault with earlier ones.
RestoresBody(a) == a.pii /\ (a.entities > 0 \/ a.vault)

\* Only a JSON body can be restored, or shown; the debug block needs PII on.
WithDebug(a) == a.debug /\ a.pii /\ a.json

\* build_debug_block: what was sent, what came, how many entities; never which.
DebugBlock(a) == [pseudonymized_request |-> "hidden", raw_response_text |-> a.text, entities |-> a.entities]

Relayed(a) ==
    IF a.json /\ (RestoresBody(a) \/ WithDebug(a))
    THEN [text |-> IF RestoresBody(a) /\ a.text = "hidden" THEN "clear" ELSE a.text,
          debug |-> IF WithDebug(a) THEN {DebugBlock(a)} ELSE {}]
    ELSE [text |-> a.text, debug |-> {}]
-----------------------------------------------------------------------------
(* Errors of the gateway's own *)

Wire(status, type, code, anthropic) == [status |-> status, type |-> type, code |-> code, anthropic |-> anthropic]
Invalid == "invalid_request_error"

\* ProxyError: its status, and what the two wire formats say of it.
Errors == {"MissingKey", "UnknownKey", "ModelNotAllowed", "UnknownModel", "MissingModel", "BodyTooLarge",
           "FormatMismatch", "InvalidPiiHeader", "RateLimited", "BudgetExhausted", "PiiUnavailable",
           "GuardrailBlocked", "Upstream"}
ASSUME AnswerAssumption == \A a \in BufferedResponses : a.error \subseteq Errors
ProxyError(error) ==
    CASE error \in {"MissingKey", "UnknownKey"} -> Wire(401, Invalid, "invalid_api_key", "authentication_error")
      [] error = "ModelNotAllowed" -> Wire(403, Invalid, "model_not_allowed", "permission_error")
      [] error = "UnknownModel" -> Wire(404, Invalid, "model_not_found", "not_found_error")
      [] error = "MissingModel" -> Wire(400, Invalid, "missing_model", Invalid)
      [] error = "BodyTooLarge" -> Wire(413, Invalid, "request_too_large", Invalid)
      [] error = "FormatMismatch" -> Wire(400, Invalid, "format_mismatch", Invalid)
      [] error = "InvalidPiiHeader" -> Wire(400, Invalid, "invalid_pii_header", Invalid)
      [] error = "RateLimited" -> Wire(429, "rate_limit_error", "rate_limit_exceeded", "rate_limit_error")
      [] error = "BudgetExhausted" -> Wire(429, "rate_limit_error", "insufficient_budget", "rate_limit_error")
      [] error = "PiiUnavailable" -> Wire(503, "api_error", "pii_unavailable", "api_error")
      [] error = "GuardrailBlocked" -> Wire(403, Invalid, "content_filter", Invalid)
      [] error = "Upstream" -> Wire(502, "upstream_error", "upstream_error", "api_error")

\* rate_limit_headers_for
RateLimitHeaders(error) ==
    CASE error = "RateLimited" -> {"retry-after", "x-ratelimit-limit", "x-ratelimit-remaining"}
      [] error = "BudgetExhausted" -> {"retry-after"}
      [] OTHER -> {}

\* into_response_fmt: `messages' speaks Anthropic's format, which has no code.
IntoResponse(error, endpoint) ==
    LET e == ProxyError(error)
    IN [status |-> e.status, headers |-> RateLimitHeaders(error),
        body |-> IF endpoint = "messages" THEN {e.anthropic} ELSE {e.type, e.code}]

\* What the client is told lets it do the right thing: it gets the texts of its
\* entities back in every JSON response, while the debug block shows what was
\* hidden; an error that time heals says when, and only an error of the gateway's
\* or its upstreams' looks like one, in both formats.
ClientIsTold ==
    /\ LET seen == Relayed(answer)
       IN /\ answer.pii /\ answer.json /\ answer.entities > 0 => seen.text # "hidden"
          /\ \A block \in seen.debug : block.raw_response_text = answer.text
          /\ ~answer.pii => seen = [text |-> answer.text, debug |-> {}]
    /\ \A error \in answer.error, endpoint \in {"messages", "chat_completions"} :
          LET told == IntoResponse(error, endpoint)
          IN /\ told.status = 429 <=> "retry-after" \in told.headers
             /\ told.status = 429 <=> "rate_limit_error" \in told.body
             /\ told.status >= 500 <=> {"api_error", "upstream_error"} \cap told.body # {}

\* What the handlers change on the way to the upstream and back.
ShapeKept == AttributionKept /\ ClientIsTold
=============================================================================
