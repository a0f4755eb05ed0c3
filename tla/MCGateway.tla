------------------------------ MODULE MCGateway ------------------------------
(***************************************************************************)
(* The request pipeline, the limits of a key and their page, streamed      *)
(* responses, MCP clients, long texts in windows, the configuration and the*)
(* life of the process, or an answer that depends on its input alone: a    *)
(* behaviour is about one of them.                                         *)
(***************************************************************************)
EXTENDS MCProxyRequest, MCRequests, Configuration, UpstreamStream, McpGateway, NerWindows,
        Lifecycle, KeyLimits, LimitsPage

CONSTANTS t1, t2, r1, r2, r3, c1, c2

\* Limits: two requests per six ticks (three seconds), in thirds of a token; two
\* units of money per three ticks (a second and a half).
mcLimit == [requests |-> 2, refill |-> 1]
mcBudget == [max |-> 2, per |-> 3]
mcThreads == {t1, t2}
mcThreeRequests == {r1, r2, r3}

\* Pages: a key that moves up when the one before it goes.
mcLimited(secret, rate, budget) == [key |-> secret, rate |-> rate, budget |-> budget]
mcShort == [max |-> 2, per |-> 2]
mcLists == {<<mcLimited("a", {mcLimit}, {mcShort}), mcLimited("b", {[requests |-> 1, refill |-> 1]}, {})>>,
            <<mcLimited("b", {mcLimit}, {mcShort})>>}

mcClients == {c1, c2}

\* Windows: half of one is in the next; the last token is in no word.
mcTokenWords == {<<1, 1, 2, 3, 3>>, <<1, 0>>}
mcPrediction(tag, of, score) == [tag |-> tag, kind |-> of, score |-> score]
mcPredictions == {mcPrediction("O", "PER", 0), mcPrediction("B", "PER", 1), mcPrediction("B", "PER", 2),
                  mcPrediction("I", "PER", 1), mcPrediction("I", "ORG", 2)}

S(text) == <<"string", text>>
I(text) == <<"int", text>>
mcConnection == [name |-> "c", base_url |-> "url", api_key |-> "word", region |-> "", id |-> "", secret |-> "",
                 token |-> "", format |-> "open_ai", models |-> <<"m*">>, costs |-> {<<"m*", "0.5">>}]
mcKey == [key |-> "k", connections |-> {"c"}, models |-> {}, rate_limit |-> {}, budget |-> {}, mcp_servers |-> {}]
mcServer == [url |-> "url", auth_type |-> "bearer", auth_value |-> {"word"}, extra_headers |-> {}]
mcRule == [name |-> "r", kind |-> "banned_content", patterns |-> {"word"}, entities |-> {}]

\* A file with an integer that could be a fraction, and some defaults.
mcFile ==
    [fields |-> ( <<"events", "url">> :> S("url") ) @@ ( <<"events", "auth_bearer">> :> S("word") )
                @@ ( <<"server", "max_body_bytes">> :> I("7") ) @@ ( <<"otel", "sample_ratio">> :> I("1") ),
     connections |-> <<mcConnection>>, virtual_keys |-> <<mcKey>>, mcp_servers |-> ("m" :> mcServer),
     guardrails |-> <<>>, custom_recognizers |-> <<>>, entities |-> {}, scan_roles |-> {}, unknown |-> FALSE]
mcTyped == [bool |-> {"true"}, nat |-> {"0"}, float |-> {"0.5", "7"}, addr |-> {"addr"},
            string |-> {"", "${V}", "url${V}", "hex"}]
mcWritten ==
    [connections |->
        {<<>>, <<mcConnection, mcConnection>>, <<[mcConnection EXCEPT !.base_url = "${V}"]>>,
         <<[mcConnection EXCEPT !.id = "word", !.secret = "${V}", !.region = "word"]>>,
         <<[mcConnection EXCEPT !.models = <<"*m">>]>>, <<[mcConnection EXCEPT !.costs = {<<"m", "-1">>}]>>},
     virtual_keys |->
        {<<mcKey>>, <<mcKey, mcKey>>, <<[mcKey EXCEPT !.budget = {<<"7">>}]>>, <<[mcKey EXCEPT !.mcp_servers = {{"m"}}]>>,
         <<[mcKey EXCEPT !.models = {{}}]>>, <<[mcKey EXCEPT !.rate_limit = {<<"0", "7">>}]>>},
     custom_recognizers |-> {<<[name |-> "X", pattern |-> "("]>>, <<[name |-> "X", pattern |-> ""]>>},
     entities |-> {{{}}, {{"X"}}},
     scan_roles |-> {{{""}}},
     guardrails |-> {<<mcRule>>, <<mcRule, mcRule>>, <<[mcRule EXCEPT !.kind = "contact_info", !.entities = {"X"}]>>},
     mcp_servers |-> {"m" :> [mcServer EXCEPT !.auth_value = {"ctl"}], "m" :> [mcServer EXCEPT !.extra_headers = {<<"a b", "word">>}]},
     unknown |-> {TRUE}]
mcEnvironments == {"unset", "word"}

\* Conversations, and what Converse and others answer.
Text(t) == [kind |-> "string", types |-> <<"text">>, texts |-> <<t>>]
mcContents == {Text("a"), [kind |-> "absent", types |-> <<>>, texts |-> <<>>],
               [kind |-> "parts", types |-> <<"text", "text">>, texts |-> <<"a", "b">>],
               [kind |-> "parts", types |-> <<"text", "image_url">>, texts |-> <<"a", "b">>],
               [kind |-> "other", types |-> <<>>, texts |-> <<>>]}
mcMessage == [role : {{}, {"system"}, {"assistant"}}, content : mcContents]
mcConversation == [model |-> {"m"}, messages |-> {<<>>}, stream |-> {TRUE}, max_tokens |-> {},
                   max_completion_tokens |-> {}, stop |-> <<>>]
mcConversations ==
    {[mcConversation EXCEPT !.messages = {m}] :
        m \in [1 .. 2 -> mcMessage]}
    \cup {[mcConversation EXCEPT !.max_tokens = a, !.max_completion_tokens = b, !.stop = c] :
            a \in {{}, {1}}, b \in {{}, {2}}, c \in {<<>>, <<"number">>, <<"stop", "number">>}}
    \cup {[mcConversation EXCEPT !.model = {}], [mcConversation EXCEPT !.messages = {}]}

Event(type, text, usage) == [type |-> type, text |-> text, usage |-> usage, fault |-> "none"]
U(input, output) == {[input |-> input, output |-> output, total |-> {}]}
mcFrames ==
    {Event("messageStart", {"assistant"}, {}), Event("contentBlockDelta", {"a"}, {}), Event("contentBlockDelta", {}, {}),
     Event("contentBlockStop", {}, {}), Event("messageStop", {"max_tokens"}, {}), Event("messageStop", {}, {}),
     Event("metadata", {}, U({1}, {2})), Event("metadata", {}, U({}, {3})), Event("metadata", {}, {}),
     Event("exception", {"error"}, {}), Event("untyped", {"a"}, {}),
     [Event("contentBlockDelta", {"a"}, {}) EXCEPT !.fault = "prelude"], [Event("metadata", {}, U({1}, {2})) EXCEPT !.fault = "message"]}
mcWhole == <<Event("messageStart", {"assistant"}, {}), Event("contentBlockDelta", {"a"}, {}), Event("contentBlockDelta", {"b"}, {}),
             Event("messageStop", {"tool_use"}, {}), Event("metadata", {}, U({1}, {2}))>>
mcAnthropic == {Event("message_start", {}, U({1}, {})), Event("message_start", {}, {}), Event("message_delta", {}, U({}, {2})),
                Event("message_delta", {}, U({}, {3})), Event("text", {}, {})}
mcOpenAI == {Event("chunk", {}, {}), Event("chunk", {}, U({1}, {2})), Event("chunk", {}, U({1}, {}))}
mcResponses ==
    LET upTo(n, kinds) == UNION {[1 .. k -> kinds] : k \in 0 .. n}
    IN {<<"converse", r>> : r \in upTo(3, mcFrames) \cup {[mcWhole EXCEPT ![i] = f] : i \in 1 .. 5, f \in mcFrames}}
       \cup {<<"anthropic", r>> : r \in upTo(3, mcAnthropic)} \cup {<<"open_ai", r>> : r \in upTo(3, mcOpenAI)}

VARIABLE part
limitVars == <<bucketVars, budgetVars, limitsVars>>
processVars == <<configVars, lifeVars>>
answerVars == <<upstreamVars, mcpVars, windowVars>>
GatewayInit ==
    /\ part \in {"request", "config", "life", "bucket", "budget", "page", "stream", "clients", "windows",
                "models", "ask", "answer", "mcp"}
    /\ RequestsInit(part)
    /\ Init /\ (part # "request" => live = mcStrict)
    /\ ConfigInit /\ LifeInit /\ (part # "life" => command = "none")
    /\ BucketInit /\ BudgetInit /\ (part # "bucket" => win.start = 0)
    /\ LimitsInit /\ (part # "page" => lim.keys = CHOOSE ks \in KeyLists : TRUE)
    /\ UpstreamInit /\ McpInit
    /\ WindowsInit /\ (part # "windows" => words = CHOOSE w \in TokenWords : TRUE)
GatewayNext ==
    /\ UNCHANGED <<part, requestsVars>>
    /\ \/ part = "request" /\ Next /\ UNCHANGED <<processVars, limitVars, answerVars>>
       \/ /\ \/ part = "config" /\ ConfigNext /\ UNCHANGED lifeVars
             \/ part = "life" /\ LifeNext /\ UNCHANGED configVars
          /\ UNCHANGED <<vars, limitVars, answerVars>>
       \/ /\ \/ part = "bucket" /\ BucketNext /\ UNCHANGED <<budgetVars, limitsVars>>
             \/ part = "budget" /\ BudgetNext /\ UNCHANGED <<bucketVars, limitsVars>>
             \/ part = "page" /\ LimitsNext /\ UNCHANGED <<bucketVars, budgetVars>>
          /\ UNCHANGED <<vars, processVars, answerVars>>
       \/ /\ \/ part = "stream" /\ UpstreamNext /\ UNCHANGED <<mcpVars, windowVars>>
             \/ part = "clients" /\ McpNext /\ UNCHANGED <<upstreamVars, windowVars>>
             \/ part = "windows" /\ WindowsNext /\ UNCHANGED <<upstreamVars, mcpVars>>
          /\ UNCHANGED <<vars, processVars, limitVars>>
GatewaySpec == GatewayInit /\ [][GatewayNext]_<<part, requestsVars, vars, processVars, limitVars, answerVars>>
=============================================================================
