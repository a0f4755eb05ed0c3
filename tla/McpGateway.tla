----------------------------- MODULE McpGateway -----------------------------
(***************************************************************************)
(* The MCP endpoint: tools/list and tools/call of clients are requests to  *)
(* an upstream server over a session that all of them share and any of     *)
(* them may open or give up (crates/drgtw-mcp/src/upstream.rs, gateway.rs, *)
(* jsonrpc.rs, and crates/drgtw-proxy/src/mcp.rs).  The lock of the        *)
(* session is held for one read or write, never over an HTTP exchange.     *)
(*                                                                         *)
(* The upstream server is external.  It keeps sessions until it restarts,  *)
(* answers 404 to one it does not know and 400 to none, and may send       *)
(* notifications before a response.  An exchange may fail after it had its *)
(* effect.  Authentication and the framing of JSON-RPC are left out.       *)
(***************************************************************************)
EXTENDS Integers, SequencesExt, FiniteSetsExt

CONSTANTS Clients,      \* requests of clients, in flight together
          MaxSessions,  \* bound: sessions the server issues
          MaxRestarts,  \* bound: restarts of the server
          MaxLost       \* bound: exchanges that fail

ASSUME McpAssumption == MaxSessions \in Nat /\ MaxRestarts \in Nat /\ MaxLost \in Nat

NoSession == 0

VARIABLES sessionId, initialized,  \* SessionState
          callAt,    \* where each request is
          sid,       \* the session id it has in hand
          attempt,   \* request_once's it has begun
          reply,     \* what the client is told
          sessions,  \* those the server knows
          issued, restarts, lost,
          ran,       \* observer: how often the server executed each request
          quiet      \* observer: the requests nothing has disturbed
mcpVars == <<sessionId, initialized, callAt, sid, attempt, reply, sessions, issued,
             restarts, lost, ran, quiet>>
server == <<sessions, issued, restarts>>

Replies == {"none", "result", "http", "transport", "protocol"}
Active == {c \in Clients : callAt[c] \notin {"idle", "done"}}

McpTypeOK ==
    /\ sessionId \in 0 .. MaxSessions /\ initialized \in BOOLEAN
    /\ sessionId # NoSession => initialized
    /\ callAt \in [Clients -> {"idle", "check", "initialize", "store", "notify", "read",
                               "post", "clear", "done"}]
    /\ sid \in [Clients -> 0 .. MaxSessions]
    /\ attempt \in [Clients -> 0 .. 2]
    /\ reply \in [Clients -> Replies]
    /\ sessions \subseteq 1 .. issued /\ issued <= MaxSessions
    /\ restarts \in 0 .. MaxRestarts /\ lost \in 0 .. MaxLost
    /\ ran \in [Clients -> 0 .. 2] /\ quiet \subseteq Clients

McpInit ==
    /\ sessionId = NoSession /\ initialized = FALSE
    /\ callAt = [c \in Clients |-> "idle"] /\ sid = [c \in Clients |-> NoSession]
    /\ attempt = [c \in Clients |-> 0] /\ reply = [c \in Clients |-> "none"]
    /\ sessions = {} /\ issued = 0 /\ restarts = 0 /\ lost = 0
    /\ ran = [c \in Clients |-> 0] /\ quiet = Clients

Move(c, from, to) == callAt[c] = from /\ callAt' = [callAt EXCEPT ![c] = to]
Fail(c, why) == reply' = [reply EXCEPT ![c] = why]
-----------------------------------------------------------------------------
(* A request: handle_post, list_tools or call_tool, request *)

\* Requests that overlap disturb each other.
StartCall(c) ==
    /\ Move(c, "idle", "check")
    /\ quiet' = IF Active = {} THEN quiet ELSE quiet \ (Active \cup {c})
    /\ UNCHANGED <<sessionId, initialized, sid, attempt, reply, server, lost, ran>>

\* ensure_initialized: the first of its two looks at the session.
CheckInitialized(c) ==
    /\ Move(c, "check", IF initialized THEN "read" ELSE "initialize")
    /\ UNCHANGED <<sessionId, initialized, sid, attempt, reply, server, lost, ran, quiet>>

\* initialize: the server issues a session.
PostInitialize(c) ==
    /\ Move(c, "initialize", "store")
    /\ issued < MaxSessions
    /\ issued' = issued + 1
    /\ sessions' = sessions \cup {issued'}
    /\ sid' = [sid EXCEPT ![c] = issued']
    /\ UNCHANGED <<sessionId, initialized, attempt, reply, restarts, lost, ran, quiet>>

StoreSession(c) ==
    /\ Move(c, "store", "notify")
    /\ sessionId' = sid[c]
    /\ initialized' = TRUE
    /\ UNCHANGED <<sid, attempt, reply, server, lost, ran, quiet>>

\* send_initialized_notification, with the id it was given; a 404 ends the
\* request here.
PostInitialized(c) ==
    /\ IF sid[c] \in sessions
         THEN Move(c, "notify", "read") /\ UNCHANGED reply
         ELSE Move(c, "notify", "done") /\ Fail(c, "http")
    /\ UNCHANGED <<sessionId, initialized, sid, attempt, sessions, issued, restarts, lost, ran, quiet>>

\* request_once: the session id is read again.
ReadSession(c) ==
    /\ Move(c, "read", "post")
    /\ sid' = [sid EXCEPT ![c] = sessionId]
    /\ attempt' = [attempt EXCEPT ![c] = @ + 1]
    /\ UNCHANGED <<sessionId, initialized, reply, server, lost, ran, quiet>>

\* parse_sse_for_id: the response with the request's id, or the only message.
ResponseIn(messages) ==
    IF \E i \in DOMAIN messages : messages[i] = "response" THEN "response"
    ELSE IF Len(messages) = 1 THEN messages[1] ELSE "nothing"

\* The server executes a request of a session it knows.
PostAccepted(c) ==
    /\ Move(c, "post", "done")
    /\ sid[c] \in sessions
    /\ ran' = [ran EXCEPT ![c] = @ + 1]
    /\ \E messages \in {<<"response">>, <<"notification", "response">>} :
          Fail(c, IF ResponseIn(messages) = "response" THEN "result" ELSE "protocol")
    /\ UNCHANGED <<sessionId, initialized, sid, attempt, server, lost, quiet>>

\* Mutant: a 404 is an answer.
RetryNever(c) == FALSE

\* A session the server does not know is a 404, which is retried once.
Retryable(c) == sid[c] # NoSession /\ attempt[c] = 1

PostRefused(c) ==
    /\ sid[c] \notin sessions
    /\ IF Retryable(c) THEN Move(c, "post", "clear") /\ UNCHANGED reply
       ELSE Move(c, "post", "done") /\ Fail(c, "http")
    /\ UNCHANGED <<sessionId, initialized, sid, attempt, server, lost, ran, quiet>>

\* Whatever session there is by now is given up.
ClearSession(c) ==
    /\ Move(c, "clear", "check")
    /\ sessionId' = NoSession
    /\ initialized' = FALSE
    /\ UNCHANGED <<sid, attempt, reply, server, lost, ran, quiet>>

\* Mutant: any failure is tried again.
AfterLossRetried(c) == IF attempt[c] = 1 /\ callAt[c] = "post" THEN "clear" ELSE "done"

AfterLoss(c) == "done"

\* An exchange fails, before or after the server did its part.
LoseExchange(c) ==
    /\ lost < MaxLost /\ lost' = lost + 1
    /\ \/ callAt[c] \in {"initialize", "notify"} /\ UNCHANGED ran
       \/ /\ callAt[c] = "post"
          /\ \/ UNCHANGED ran
             \/ sid[c] \in sessions /\ ran' = [ran EXCEPT ![c] = @ + 1]
    /\ callAt' = [callAt EXCEPT ![c] = AfterLoss(c)]
    /\ Fail(c, "transport")
    /\ quiet' = quiet \ {c}
    /\ UNCHANGED <<sessionId, initialized, sid, attempt, sessions, issued, restarts>>

\* The server restarts, without its sessions.
Restart ==
    /\ restarts < MaxRestarts /\ restarts' = restarts + 1
    /\ sessions' = {}
    /\ quiet' = quiet \ Active
    /\ UNCHANGED <<sessionId, initialized, callAt, sid, attempt, reply, issued, lost, ran>>

McpNext ==
    \/ \E c \in Clients :
          \/ StartCall(c) \/ CheckInitialized(c) \/ PostInitialize(c) \/ StoreSession(c)
          \/ PostInitialized(c) \/ ReadSession(c) \/ PostAccepted(c) \/ PostRefused(c)
          \/ ClearSession(c) \/ LoseExchange(c)
    \/ Restart

McpSpec == McpInit /\ [][McpNext]_mcpVars
-----------------------------------------------------------------------------
\* A tool is executed at most once for a client, although its request may be
\* sent twice and answers may be lost.
ExecutedOnce == \A c \in Clients : ran[c] <= 1

\* A request that no other one and no failure disturbs gets its result, whatever
\* those before it and restarts of the server have left of the session.
UndisturbedSucceeds ==
    \A c \in quiet : callAt[c] = "done" => reply[c] = "result" /\ ran[c] = 1
=============================================================================
