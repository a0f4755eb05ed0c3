----------------------------- MODULE McpEndpoint -----------------------------
(***************************************************************************)
(* POST /mcp: what a client is told of the tools of the upstream servers   *)
(* and what becomes of its calls.  From crates/drgtw-proxy/src/mcp.rs,     *)
(* crates/drgtw-mcp/src/gateway.rs and jsonrpc.rs, and the headers of      *)
(* upstream.rs; the sessions with the servers are McpGateway's.            *)
(*                                                                         *)
(* Names are sequences of letters.  A server is its name, the headers it   *)
(* is configured with, the tools it lists (a name, or none), whether that  *)
(* fails, and its answer to a call.  A request has the list of servers its *)
(* key is configured with, if any (ResolvedKey.mcp_servers): no step reads *)
(* it.                                                                     *)
(***************************************************************************)
EXTENDS Integers, SequencesExt

CONSTANTS Posts,       \* requests, as they authenticate and parse
          Fleets       \* lists of upstream servers

\* The servers are a table by name; a tool has one name at most.
IsName(text) == text \in Seq(Range(text))
ASSUME EndpointAssumption ==
    \A servers \in Fleets : \A i \in DOMAIN servers :
        /\ IsName(servers[i].name)
        /\ \A k \in DOMAIN servers[i].tools : \A name, other \in servers[i].tools[k] :
              IsName(name) /\ name = other
        /\ \A j \in DOMAIN servers : servers[i].name = servers[j].name => i = j

Separator == <<"-">>
Needle(server) == server.name \o Separator

VARIABLES posted, fleet
endpointVars == <<posted, fleet>>
EndpointInit == posted \in Posts /\ fleet \in Fleets
EndpointSpec == EndpointInit /\ [][UNCHANGED endpointVars]_endpointVars \* one request, answered as a whole
-----------------------------------------------------------------------------
(* McpGateway *)

\* What one server adds: nothing if it fails; a tool without a name stays so.
ToolsOf(server) ==
    IF server.failing THEN <<>>
    ELSE [k \in DOMAIN server.tools |-> {Needle(server) \o name : name \in server.tools[k]}]

\* All of them; their order is left out.
aggregate_tools(servers) == UNION {Range(ToolsOf(servers[i])) : i \in DOMAIN servers}

\* The servers whose name and the separator begin the tool's, with a rest.
Owners(servers, tool) ==
    {i \in DOMAIN servers :
        IsPrefix(Needle(servers[i]), tool) /\ Len(tool) > Len(Needle(servers[i]))}

\* Mutant: the first of them.
RouteFirst(servers, tool) ==
    {[server |-> i, bare |-> SubSeq(tool, Len(Needle(servers[i])) + 1, Len(tool))] :
        i \in {i \in Owners(servers, tool) : \A j \in Owners(servers, tool) : i <= j}}

\* The longest of them, and the tool's own name.
route(servers, tool) ==
    {[server |-> i, bare |-> SubSeq(tool, Len(Needle(servers[i])) + 1, Len(tool))] :
        i \in {i \in Owners(servers, tool) :
                  \A j \in Owners(servers, tool) : Len(servers[j].name) <= Len(servers[i].name)}}
-----------------------------------------------------------------------------
(* Headers *)

HopByHop == {"host", "content-length", "connection", "transfer-encoding", "te", "trailer",
             "upgrade", "keep-alive"}
Protocol == {"accept", "content-type", "mcp-protocol-version", "mcp-session-id"}

\* handle_post: a value that is no text is not forwarded.
Inbound(post) == {h.name : h \in {h \in post.headers : h.name \notin HopByHop /\ h.text}}

\* with_forwarded_headers; forward_headers is in lower case.
Forwarded(server, inbound) == (inbound \cap server.forward_headers) \ (Protocol \cup server.headers)

\* The headers of a request to a server, and whose they are.
HeadersSent(server, inbound) ==
    (Protocol \X {"gateway"}) \cup (Forwarded(server, inbound) \X {"client"})
        \cup (server.headers \X {"configuration"})
-----------------------------------------------------------------------------
(* handle_post *)

PARSE_ERROR == -32700
INVALID_REQUEST == -32600
METHOD_NOT_FOUND == -32601
INVALID_PARAMS == -32602
INTERNAL_ERROR == -32603

\* An answer: its HTTP status, the JSON-RPC error if it is one, whether it has
\* the request's id and a session id; what was sent to a server; the trace.
Answered(status, error, echoed, session) ==
    [status |-> status, error |-> error, echoed |-> echoed, session |-> session, calls |-> {}, trace |-> <<>>]
Plain(status) == Answered(status, {}, FALSE, FALSE)
Success == Answered(200, {}, TRUE, FALSE)
Failure(code) == Answered(200, {code}, TRUE, FALSE)
Unread(code) == Answered(200, {code}, FALSE, FALSE)

TraceMcp(method, tool, server, output, failed) ==
    <<[method |-> method, tool |-> tool, server |-> server, output |-> output, failed |-> failed]>>

\* tools_call: the answer of the server, or a code of the gateway's own; `rpc'
\* is an error of the server's that is passed on.
CallTool(post, tool, servers) ==
    LET routed == route(servers, tool)
        server(r) == servers[r.server]
        code == IF routed = {} THEN {INVALID_PARAMS}
                ELSE UNION {CASE server(r).answer = "result" -> {}
                              [] server(r).answer = "rpc" -> {1}
                              [] OTHER -> {INTERNAL_ERROR} : r \in routed}
    IN [(IF code = {} THEN Success ELSE Failure(CHOOSE c \in code : TRUE)) EXCEPT
          !.calls = {[server |-> r.server, tool |-> r.bare,
                      headers |-> HeadersSent(server(r), Inbound(post))] : r \in routed},
          !.trace = TraceMcp("tools/call", {tool}, {r.server : r \in routed}, code = {}, code # {})]

\* Parameters are an object, if any, and have a name, if it is a string.
ToolsCall(post, servers) ==
    LET names == UNION post.params
    IN IF names = {} THEN [Failure(INVALID_PARAMS) EXCEPT !.trace = TraceMcp("tools/call", {}, {}, FALSE, TRUE)]
       ELSE CallTool(post, CHOOSE name \in names : TRUE, servers)

ToolsList == [Success EXCEPT !.trace = TraceMcp("tools/list", {}, {}, FALSE, FALSE)]

Dispatch(post, servers) ==
    CASE post.method = "initialize" -> Answered(200, {}, TRUE, TRUE)
      [] post.method = "ping" -> Success
      [] post.method = "tools/list" -> ToolsList
      [] post.method = "tools/call" -> ToolsCall(post, servers)
      [] OTHER -> Failure(METHOD_NOT_FOUND)

\* A request without an id, or with a null one, is a notification.
HandlePost(post, servers) ==
    CASE ~post.key -> Plain(401)
      [] post.key /\ post.large -> Plain(413)
      [] post.key /\ ~post.large /\ post.json = "broken" -> Unread(PARSE_ERROR)
      [] post.key /\ ~post.large /\ post.json = "other" -> Unread(INVALID_REQUEST)
      [] OTHER -> IF post.id THEN Dispatch(post, servers) ELSE Plain(202)
-----------------------------------------------------------------------------
\* A tool that the gateway lists is called at the server that has it and by the
\* name it has there, unless the name is empty or a longer server name begins it
\* too (servers `git' and `git-hub'); nothing else is called, never twice, only
\* for a key, whatever its list of servers (AllowedServersOnly), and with no header
\* a client was not allowed to set.  Each call and
\* each refused one is in the trace once, with its server and how it ended, which
\* is how the client is told of it.
ToolsListedServed ==
    /\ \A i \in DOMAIN fleet : \A k \in DOMAIN ToolsOf(fleet[i]) : \A bare \in fleet[i].tools[k] :
          LET tool == Needle(fleet[i]) \o bare
              taken == \E j \in Owners(fleet, tool) : Len(fleet[j].name) > Len(fleet[i].name)
          IN /\ {tool} \in aggregate_tools(fleet)
             /\ {[server |-> c.server, tool |-> c.tool] : c \in CallTool(posted, tool, fleet).calls}
                   = {[server |-> i, tool |-> bare]}
                \/ bare = <<>> \/ taken
    /\ LET told == HandlePost(posted, fleet)
           traced == told.trace # <<>>
           entry == Head(told.trace)
       IN /\ \A call \in told.calls :
                /\ posted.key /\ posted.id
                /\ traced /\ entry.server = {call.server} /\ entry.tool # {}
                /\ \A h \in call.headers :
                      h[2] = "client" => h[1] \in fleet[call.server].forward_headers \ Protocol
                /\ \A h \in fleet[call.server].headers \cup Protocol : <<h, "client">> \notin call.headers
          /\ traced => /\ Len(told.trace) = 1 /\ entry.failed = (told.error # {})
                       /\ (entry.method = "tools/call" => entry.output # entry.failed)
          /\ told.status = 200 => told.echoed \/ posted.json # "request"
          /\ told.session => told.calls = {}

\* Violated by the code: the list of servers in a key is an allowlist (drgtw-config
\* lib.rs: "Optional MCP server allowlist for this key"); the endpoint asks for a
\* valid key and no more.
AllowedServersOnly ==
    \A call \in HandlePost(posted, fleet).calls, names \in posted.mcp_servers :
        fleet[call.server].name \in names
=============================================================================
