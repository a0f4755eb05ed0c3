----------------------------- MODULE MCRequests -----------------------------
(* Inputs for the parts of the gateway that compute an answer and keep no      *)
(* state: the models of a key, the shape of a request, the MCP endpoint.       *)
EXTENDS ModelAccess, RequestShape, McpEndpoint

\* Keys with two connections and wildcards that overlap.
word == <<"a">>
mcModels == {word, <<"a", "b">>, <<"b">>}
mcPatterns == {Exactly(word), Exactly(<<"a", "b">>), [prefix |-> word, star |-> TRUE], AnyModel}
lists(n, S) == UNION {[1 .. k -> S] : k \in 0 .. n}
plain(name, models) == [name |-> name, format |-> "open_ai", models |-> models]
mcNoKey == [connections |-> <<>>, allowlist |-> {}]
mcKeys == {[connections |-> cs, allowlist |-> a] :
             cs \in {<<>>} \cup {<<plain("c", ms)>> : ms \in lists(2, mcPatterns)}
                    \cup {<<plain("c", ms), plain("d", ns)>> : ms, ns \in lists(2, mcPatterns)},
             a \in {{}} \cup {{l} : l \in lists(2, mcPatterns)}}

\* Requests with attribution in header and body, and fields that the body for the
\* upstream loses, gains or changes.
mcAliases == "alias" :> "m" @@ "m" :> "n"
functions(S, T) == UNION {[D -> T] : D \in SUBSET S}
mcAsks(metadata, headers, json) ==
    [pii : BOOLEAN, format : {"bedrock", "anthropic"}, metadata : metadata, headers : headers, body : json]
mcBare == "model" :> "m"
mcNoAsk == [pii |-> FALSE, format |-> "anthropic", metadata |-> <<>>, headers |-> <<>>, body |-> mcBare]
mcAttributed ==
    {mcNoAsk}
    \cup mcAsks(functions({0, 1, 2}, {"text", "long", "null"}), functions({1, 3, 9}, {"other", "opaque"}),
                {mcBare @@ "metadata" :> "x"})
    \cup mcAsks({<<>>}, {<<>>}, {("model" :> m) @@ f : m \in {"alias", "m", "n"},
                                  f \in functions({"metadata", "anthropic_version"}, {"x"})})
mcNoAnswer == [pii |-> FALSE, json |-> FALSE, debug |-> FALSE, vault |-> FALSE, entities |-> 0, text |-> "other",
               error |-> {}]
mcAnswers == [pii : BOOLEAN, json : BOOLEAN, debug : BOOLEAN, vault : BOOLEAN, entities : 0 .. 1,
              text : {"hidden", "other"}, error : {{}}]
    \cup {[mcNoAnswer EXCEPT !.error = {e}] : e \in Errors}

\* Servers one of whose names begins the other's, with tools whose names do so too.
upstream(name, tools, reply, failing) ==
    [name |-> name, headers |-> {"authorization"}, forward_headers |-> {"x-tenant", "authorization", "accept"},
     failing |-> failing, tools |-> tools, answer |-> reply]
mcNames == {{<<"t">>}, {<<"h", "-", "t">>}, {<<>>}, {}}
mcFleets == {<<>>} \cup {<<upstream(<<"g">>, a, "result", FALSE), upstream(<<"g", "-", "h">>, b, c, f)>> :
                a \in lists(2, mcNames), b \in lists(1, mcNames), c \in {"result", "rpc", "failed"}, f \in BOOLEAN}
mcHeaders == {{[name |-> n, text |-> t] : n \in {"host", "x-tenant", "authorization", "accept", "other"}} : t \in BOOLEAN}
post(key, large, json, id, method, params, headers) ==
    [key |-> key, mcp_servers |-> {}, large |-> large, json |-> json, id |-> id, method |-> method,
     params |-> params, headers |-> headers]
mcNoPost == post(FALSE, FALSE, "request", TRUE, "ping", {}, {})
mcPosts ==
    {mcNoPost}
    \cup {post(TRUE, FALSE, "request", i, m, {}, {}) : i \in BOOLEAN, m \in {"initialize", "ping", "tools/list", "tools/call", "x"}}
    \cup {post(TRUE, FALSE, "request", i, "tools/call", p, h) :
            i \in BOOLEAN, h \in mcHeaders,
            p \in {{{}}, {{<<"g", "-", "t">>}}, {{<<"g", "-", "h", "-", "t">>}}, {{<<"g", "-">>}}, {{<<"x">>}}}}
    \cup {[post(TRUE, FALSE, "request", TRUE, "tools/call", {{t}}, {}) EXCEPT !.mcp_servers = {{<<"g">>}}] :
            t \in {<<"g", "-", "t">>, <<"g", "-", "h", "-", "t">>}}
    \cup {post(k, l, j, TRUE, "tools/call", {{<<"g", "-", "t">>}}, {}) : k, l \in BOOLEAN, j \in {"broken", "other", "request"}}

\* One kind of input at a time.
RequestsInit(kind) ==
    /\ IF kind = "models" THEN AccessInit ELSE theKey = mcNoKey
    /\ IF kind = "ask" THEN AsksInit ELSE asks = mcNoAsk
    /\ IF kind = "answer" THEN AnswerInit ELSE answer = mcNoAnswer
    /\ IF kind = "mcp" THEN EndpointInit ELSE posted = mcNoPost /\ fleet = <<>>
requestsVars == <<theKey, shapeVars, endpointVars>>
=============================================================================
