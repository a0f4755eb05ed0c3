---------------------------- MODULE ProxyRequest ----------------------------
(***************************************************************************)
(* A request on its way through the gateway: proxy_endpoint,               *)
(* relay_with_usage and embeddings_inner of                                *)
(* crates/drgtw-proxy/src/handlers.rs.  The configuration may be reloaded  *)
(* at any time, the upstreams may fail in every way, and the client may go *)
(* away at any await, which drops the handler where it stands.             *)
(*                                                                         *)
(* One request is modelled: requests meet only in the counters of TokenBucket,*)
(* KeyBudget and HotReload and in the channel of EventSink.  What those    *)
(* modules decide is a choice here, and what they are given is counted.    *)
(*                                                                         *)
(* Texts are clean or bad: the guardrail rules are those that match a bad  *)
(* text.  An `entity' is what the PII engine detects.                      *)
(***************************************************************************)
EXTENDS Routing

CONSTANTS Configs,   \* configurations that reloads make live
          Asks       \* what clients ask

Rule == [phase : {"pre", "post", "both"}, action : {"block", "redact", "flag"}]

\* The parts of a bundle that a request of one key for one model depends on.
Config == [conns : Seq(Connection),
           fallback : BOOLEAN,       \* fallback.enabled
           pii : BOOLEAN,            \* pii.enabled_by_default
           embeddings_off : BOOLEAN, \* pii.embeddings_disable_pii
           bypass : BOOLEAN,         \* the key's allow_pii_bypass
           rules : SUBSET Rule]      \* guardrails

Ask == [endpoint : Endpoints, stream : BOOLEAN,
        header : {"none", "on", "off", "invalid"},  \* x-drgtw-pii
        entities : BOOLEAN, bad : BOOLEAN]

ASSUME ProxyRequestAssumption == Configs \subseteq Config /\ Asks \subseteq Ask

\* GuardrailEngine::evaluate: rules that redact or flag only log.
Blocks(rules, phase) ==
    \E rule \in rules : rule.action = "block" /\ rule.phase \in {phase, "both"}

Results == {"none", "transport", "retriable", "error", "ok"}
Phases == {"idle", "body", "pii", "send", "wait", "read", "stream", "done"}
Ends == {"none",       \* still on its way
         "refused",    \* an error of the gateway's own before any dispatch
         "failed",     \* no upstream answered, or not to the end
         "blocked",    \* the response was blocked
         "relayed",    \* the client got the upstream's whole answer
         "gone"}       \* the client went away

VARIABLES
    live,    \* the live configuration
    pc, end, \* where the request is, and how it ended
    ask,     \* what the client asked: none or one
    config,  \* the bundle loaded at its start: none or one
    mode,    \* PiiMode::On
    body,    \* upstream_body: hidden if pseudonymised, bedrock if transformed
    sent,    \* the attempts: the connection, the body it got, its result
    counted, \* fallback_attempts
    charged, \* calls of BudgetTracker::record
    events,  \* usage events emitted
    traced,  \* trace entries emitted
    rows,    \* PII detections recorded in the history
    spent,   \* an upstream answered, and said what it cost
    scanned, \* the configurations that were live since the request started
    shown    \* text of a response that reached the client: bad or not
vars == <<live, pc, end, ask, config, mode, body, sent, counted, charged, events, traced,
          rows, spent, scanned, shown>>

\* What the handler holds, and what it reports, records and charges.
asked == <<ask, config, mode>>
accounts == <<charged, events, traced, rows, spent>>

Body == [hidden : BOOLEAN, bedrock : BOOLEAN]
Attempt(conns) == [conn : conns, body : Body, result : Results]

TypeOK ==
    /\ live \in Configs
    /\ pc \in Phases /\ end \in Ends
    /\ ask \in Option(Asks) /\ config \in Option(Configs)
    /\ mode \in BOOLEAN /\ body \in Body
    /\ sent \in Seq(Attempt(Connection))
    /\ counted \in Nat /\ charged \in Nat
    /\ events \in Nat /\ traced \in Nat /\ rows \in Nat
    /\ spent \in BOOLEAN /\ scanned \subseteq Configs /\ shown \in BOOLEAN

Init ==
    /\ live \in Configs
    /\ pc = "idle" /\ end = "none" /\ ask = {} /\ config = {}
    /\ mode = FALSE /\ body = [hidden |-> FALSE, bedrock |-> FALSE]
    /\ sent = <<>> /\ counted = 0 /\ charged = 0
    /\ events = 0 /\ traced = 0 /\ rows = 0
    /\ spent = FALSE /\ scanned = {} /\ shown = FALSE

my == The(ask)
cfg == The(config)
Streaming == my.stream /\ my.endpoint # "embeddings"
cands == Candidates(cfg.conns, cfg.fallback, my.endpoint, Streaming)

End(how) == pc' = "done" /\ end' = how

\* ArcSwap::store by a reload (module HotReload).
Reload ==
    /\ pc # "done"
    /\ live' \in Configs \ {live}
    /\ scanned' = IF pc = "idle" THEN {} ELSE scanned \cup {live'}
    /\ UNCHANGED <<pc, end, asked, body, sent, counted, accounts, shown>>
-----------------------------------------------------------------------------
(* Before the dispatch *)

\* resolve_pii_mode, then the kill switch of the embeddings endpoint.
PiiOn(c, a) ==
    /\ \/ a.header = "on"
       \/ a.header = "off" /\ ~c.bypass /\ c.pii
       \/ a.header = "none" /\ c.pii
    /\ ~(a.endpoint = "embeddings" /\ c.embeddings_off)

\* emit_trace_reject: what the rate limit or the budget refuses is traced.
TraceReject(limited) == traced' = IF limited THEN traced + 1 ELSE traced

\* `state.live.load()', authentication, rate limit, budget, PII mode: there is
\* no await among them.  The embeddings endpoint does the same.
Start ==
    /\ pc = "idle"
    /\ \E a \in Asks, limited \in BOOLEAN :
          /\ ask' = {a}
          /\ mode' = PiiOn(live, a)
          /\ TraceReject(limited)
          /\ \/ End("refused")   \* by the key, a limit, a budget or the header
             \/ a.header # "invalid" /\ ~limited /\ pc' = "body" /\ UNCHANGED end
    /\ config' = {live}
    /\ scanned' = {live}
    /\ UNCHANGED <<live, body, sent, counted, charged, events, rows, spent, shown>>

\* The body is buffered; model, candidates, the transform for Bedrock and the
\* guardrails of the request follow.  The transform looks at the first candidate.
ReadBody ==
    /\ pc = "body" /\ my.endpoint # "embeddings"
    /\ \/ End("refused") /\ UNCHANGED body   \* too large, no JSON, no model
       \/ /\ cands = <<>>
          /\ End("refused") /\ UNCHANGED body
       \/ /\ cands # <<>>
          /\ body' = [body EXCEPT !.bedrock = Head(cands).format = "bedrock"]
          /\ IF my.bad /\ Blocks(cfg.rules, "pre")
             THEN End("refused")
             ELSE pc' = (IF mode THEN "pii" ELSE "send") /\ UNCHANGED end
    /\ UNCHANGED <<live, asked, sent, counted, accounts, scanned, shown>>

\* The embeddings endpoint transforms nothing and has no guardrails.
ReadEmbeddingsBody ==
    /\ pc = "body" /\ my.endpoint = "embeddings"
    /\ \/ End("refused")   \* too large, no JSON, no model, no candidate
       \/ cands # <<>> /\ pc' = (IF mode THEN "pii" ELSE "send") /\ UNCHANGED end
    /\ UNCHANGED <<live, asked, body, sent, counted, accounts, scanned, shown>>

\* Mutant: a request whose entities cannot be detected is sent as it is.
PseudonymizeFailOpen ==
    /\ pc = "pii" /\ my.endpoint # "embeddings"
    /\ body' \in {body, [body EXCEPT !.hidden = TRUE]}
    /\ pc' = "send"
    /\ UNCHANGED <<live, end, asked, sent, counted, accounts, scanned, shown>>

\* try_pseudonymize_body on a blocking thread: it rewrites the body, or the NER
\* workers, the vault or the thread fail and the request is refused.
Pseudonymize ==
    /\ pc = "pii" /\ my.endpoint # "embeddings"
    /\ \/ body' = [body EXCEPT !.hidden = TRUE] /\ pc' = "send" /\ UNCHANGED end
       \/ End("refused") /\ UNCHANGED body
    /\ UNCHANGED <<live, asked, sent, counted, accounts, scanned, shown>>

\* pseudonymize_embeddings_input: the input, or each text of it.  Token ids have
\* no text to scan.
PseudonymizeInput ==
    /\ pc = "pii" /\ my.endpoint = "embeddings"
    /\ \/ body' = [body EXCEPT !.hidden = TRUE] /\ pc' = "send" /\ UNCHANGED end
       \/ End("refused") /\ UNCHANGED body
    /\ UNCHANGED <<live, asked, sent, counted, accounts, scanned, shown>>
-----------------------------------------------------------------------------
(* The dispatch loop *)

next_candidate == Len(sent) + 1
last == Len(sent) = Len(cands)

\* The request goes to the next candidate ...
Send ==
    /\ pc = "send"
    /\ sent' = Append(sent, [conn |-> cands[next_candidate], body |-> body,
                             result |-> "none"])
    /\ pc' = "wait"
    /\ UNCHANGED <<live, end, asked, body, counted, accounts, scanned, shown>>

\* ... unless it has to be translated for Converse, or signed, and cannot be:
\* that ends the request, whatever candidates are left.
TranslationFails ==
    /\ pc = "send"
    /\ cands[next_candidate].format = "bedrock_converse"
    /\ End(IF sent = <<>> THEN "refused" ELSE "failed")
    /\ UNCHANGED <<live, asked, body, sent, counted, accounts, scanned, shown>>

\* Mutant: any answer that is no success is retried on the next candidate.
AnswerRetriesErrors ==
    /\ pc = "wait" /\ my.endpoint # "embeddings"
    /\ \E result \in Results \ {"none"} :
          /\ sent' = [sent EXCEPT ![Len(sent)].result = result]
          /\ IF result # "ok" /\ ~last
             THEN counted' = counted + 1 /\ pc' = "send" /\ UNCHANGED <<end, traced>>
             ELSE /\ UNCHANGED counted
                  /\ \/ result = "transport" /\ End("failed") /\ UNCHANGED traced
                     \/ /\ Streaming /\ result = "ok"
                        /\ pc' = "stream" /\ traced' = traced + 1 /\ UNCHANGED end
                     \/ /\ result # "transport" /\ ~(Streaming /\ result = "ok")
                        /\ pc' = "read" /\ UNCHANGED <<end, traced>>
    /\ UNCHANGED <<live, asked, body, charged, events, rows, spent, scanned, shown>>

\* send().await returns: a transport error or a retriable status moves on to
\* the next candidate, if there is one.  A stream is traced as it is handed on.
Answer ==
    /\ pc = "wait" /\ my.endpoint # "embeddings"
    /\ \E result \in Results \ {"none"} :
          /\ sent' = [sent EXCEPT ![Len(sent)].result = result]
          /\ IF result \in {"transport", "retriable"} /\ ~last
             THEN counted' = counted + 1 /\ pc' = "send" /\ UNCHANGED <<end, traced>>
             ELSE /\ UNCHANGED counted
                  /\ \/ result = "transport" /\ End("failed") /\ UNCHANGED traced
                     \/ /\ Streaming /\ result = "ok"
                        /\ pc' = "stream" /\ traced' = traced + 1 /\ UNCHANGED end
                     \/ /\ result # "transport" /\ ~(Streaming /\ result = "ok")
                        /\ pc' = "read" /\ UNCHANGED <<end, traced>>
    /\ UNCHANGED <<live, asked, body, charged, events, rows, spent, scanned, shown>>

\* The loop of the embeddings endpoint, which never streams.
AnswerEmbeddings ==
    /\ pc = "wait" /\ my.endpoint = "embeddings"
    /\ \E result \in Results \ {"none"} :
          /\ sent' = [sent EXCEPT ![Len(sent)].result = result]
          /\ IF result \in {"transport", "retriable"} /\ ~last
             THEN counted' = counted + 1 /\ pc' = "send" /\ UNCHANGED end
             ELSE /\ UNCHANGED counted
                  /\ IF result = "transport" THEN End("failed")
                     ELSE pc' = "read" /\ UNCHANGED end
    /\ UNCHANGED <<live, asked, body, accounts, scanned, shown>>
-----------------------------------------------------------------------------
(* The response *)

result == Last(sent).result

\* pii_flag: entities were found, and the map of the request is not empty.
pii_flag == mode /\ my.entities

\* emit_event: to the broadcast, the history and the sink; what was detected is
\* recorded by kind.
EmitEvent ==
    /\ events' = events + 1
    /\ rows' = IF pii_flag THEN rows + 1 ELSE rows

\* BudgetTracker::record if the cost is known, then emit_event.
Account(known) ==
    /\ charged' = IF known THEN charged + 1 ELSE charged
    /\ EmitEvent
    /\ spent' = known

\* emit_trace_from_ctx
Trace == traced' = traced + 1

\* bytes().await fails: an error without an event.
BodyBreaks ==
    /\ pc = "read"
    /\ End("failed")
    /\ UNCHANGED <<live, asked, body, sent, counted, accounts, scanned, shown>>

\* Mutant: only successes are accounted.
RelayErrorUnaccounted ==
    /\ pc = "read" /\ my.endpoint # "embeddings"
    /\ result # "ok"
    /\ Trace
    /\ End("relayed")
    /\ UNCHANGED <<live, asked, body, sent, counted, charged, events, rows, spent, scanned, shown>>

\* An answer that is no success is relayed as it is.
RelayError ==
    /\ pc = "read" /\ my.endpoint # "embeddings"
    /\ result # "ok"
    /\ Account(FALSE) /\ Trace
    /\ End("relayed")
    /\ UNCHANGED <<live, asked, body, sent, counted, scanned, shown>>

\* Mutant: responses are not scanned.
RelayUnscanned ==
    /\ pc = "read" /\ my.endpoint # "embeddings"
    /\ result = "ok"
    /\ \E bad, known \in BOOLEAN :
          /\ Account(known)
          /\ shown' = bad
          /\ End("relayed")
    /\ Trace
    /\ UNCHANGED <<live, asked, body, sent, counted, scanned>>

\* A buffered success: the guardrails of the configuration that is live now see
\* its text, then it is accounted.  A success that is no JSON has no text to scan
\* and no known cost.
Relay ==
    /\ pc = "read" /\ my.endpoint # "embeddings"
    /\ result = "ok"
    /\ \E bad, known \in BOOLEAN :
          IF bad /\ Blocks(live.rules, "post")
          THEN /\ End("blocked")
               /\ spent' = known
               /\ UNCHANGED <<charged, events, rows, shown>>
          ELSE /\ Account(known)
               /\ shown' = bad
               /\ End("relayed")
    /\ Trace
    /\ UNCHANGED <<live, asked, body, sent, counted, scanned>>

\* The answer to a request for embeddings is relayed as it is, and accounted.
RelayEmbeddings ==
    /\ pc = "read" /\ my.endpoint = "embeddings"
    /\ \E known \in BOOLEAN : (known => result = "ok") /\ Account(known)
    /\ Trace
    /\ shown' \in BOOLEAN
    /\ End("relayed")
    /\ UNCHANGED <<live, asked, body, sent, counted, scanned>>

\* Mutant: a stream that breaks is not accounted.
StreamEndsWhole ==
    /\ pc = "stream"
    /\ \E whole, known \in BOOLEAN :
          IF whole THEN Account(known) /\ End("relayed")
          ELSE /\ spent' = known /\ UNCHANGED <<charged, events, rows>>
               /\ End("failed")
    /\ shown' \in BOOLEAN
    /\ UNCHANGED <<live, asked, body, sent, counted, traced, scanned>>

\* usage_tap_stream: the upstream's stream ends, whole or broken, and the
\* completion callback accounts what usage was seen.  Streams are not scanned.
StreamEnds ==
    /\ pc = "stream"
    /\ \E whole, known \in BOOLEAN :
          /\ Account(known)
          /\ End(IF whole THEN "relayed" ELSE "failed")
    /\ shown' \in BOOLEAN
    /\ UNCHANGED <<live, asked, body, sent, counted, traced, scanned>>

\* The client goes away while the handler, or the body it returned, awaits.
ClientGone ==
    /\ pc \in {"body", "pii", "wait", "read", "stream"}
    /\ End("gone")
    /\ spent' \in {spent, pc = "stream"}
    /\ UNCHANGED <<live, asked, body, sent, counted, charged, events, traced, rows,
                   scanned, shown>>

Next ==
    \/ Reload
    \/ Start \/ ReadBody \/ ReadEmbeddingsBody \/ Pseudonymize \/ PseudonymizeInput
    \/ Send \/ TranslationFails \/ Answer \/ AnswerEmbeddings
    \/ BodyBreaks \/ RelayError \/ Relay \/ RelayEmbeddings \/ StreamEnds
    \/ ClientGone

Spec == Init /\ [][Next]_vars
-----------------------------------------------------------------------------
(* The client and the operator decide who may send entities in clear. *)
MayBeClear(c, a) ==
    \/ a.header = "off" /\ (c.bypass \/ ~c.pii)
    \/ a.header = "none" /\ ~c.pii
    \/ a.endpoint = "embeddings" /\ c.embeddings_off

\* No upstream ever gets an entity in clear that the configuration the request
\* started with protects: not when detection fails, not on any later attempt,
\* not after a reload (proxy_endpoint rewrites the body once, and refuses the
\* request if it cannot).
NoEntityInClear ==
    \A k \in DOMAIN sent :
        my.entities /\ ~sent[k].body.hidden => MayBeClear(cfg, my)

\* No candidate is skipped, and the next one is tried only after the one before
\* was unreachable or answered 429, 502, 503 or 504: a request that an upstream
\* has accepted, or refused for good, goes to no other.
FallbackInOrder ==
    \A k \in DOMAIN sent :
        /\ sent[k].conn = cands[k]
        /\ k < Len(sent) => sent[k].result \in {"transport", "retriable"}

\* The connections that name the model are tried first, in the order of the
\* configuration; then those that match it by wildcard, the longest prefix first,
\* where one that also names the model gets its second try.  A key that lists a
\* connection twice has it tried twice.
PreferenceKept ==
    LET at(k) == CHOOSE i \in DOMAIN cfg.conns : cfg.conns[i] = sent[k].conn
        again(k) == \E l \in 1 .. k - 1 : sent[l].conn = sent[k].conn
        named(k) == sent[k].conn.exact /\ ~again(k)
        prefix(k) == The(sent[k].conn.prefix)
    IN \A k, l \in DOMAIN sent :
          k < l /\ IsInjective(cfg.conns) =>
              \/ named(k) /\ ~named(l)
              \/ named(k) /\ named(l) /\ at(k) < at(l)
              \/ /\ ~named(k) /\ ~named(l)
                 /\ prefix(k) >= prefix(l)
                 /\ prefix(k) = prefix(l) => at(k) < at(l)

\* What `x-drgtw-fallback-attempts' and the usage event report is the number of
\* attempts before the one that was answered.
AttemptsReported == events > 0 => counted = Len(sent) - 1

\* A text that the guardrails block does not pass: a bad request reaches no
\* upstream, and a bad response reaches no client if every configuration that
\* was live during the request blocks it.  Streams and embeddings excepted.
BlockedTextStops ==
    pc # "idle" /\ my.endpoint # "embeddings" =>
        /\ my.bad /\ Blocks(cfg.rules, "pre") => sent = <<>>
        /\ ~Streaming /\ (\A c \in scanned : Blocks(c.rules, "post")) => ~shown

\* Spend that an upstream reported is charged, and charged once, unless the
\* response was blocked or the client went away before it was read: not lost by
\* a failed attempt before, by a broken stream, or by a reload.
ReportedSpendCharged ==
    /\ charged <= 1
    /\ pc = "done" /\ spent => charged = 1 \/ end \in {"blocked", "gone"}

\* A request is accounted at most once, never when it was refused, and always
\* when its client got the whole answer; only accounted requests are charged, and
\* the entities hidden in them are recorded.  The trace has one entry of every
\* request that was accounted or blocked, and never two of one.
AccountedOnce ==
    /\ charged <= events /\ events <= traced /\ traced <= 1
    /\ rows = IF pc # "idle" /\ pii_flag THEN events ELSE 0
    /\ end = "refused" => events = 0
    /\ end = "relayed" => events = 1
    /\ end = "blocked" => traced = 1
-----------------------------------------------------------------------------
(* The invariant of the proofs: one part per stretch of a request's way *)

Dispatching == pc \in {"wait", "read", "stream"}
Moves == {"transport", "retriable"}
Tried(attempts) == {attempts[k].conn : k \in DOMAIN attempts}

\* What is known of the request from its start on.
StartInv ==
    /\ pc = "idle" => ask = {} /\ config = {} /\ ~shown
    /\ pc # "idle" =>
          /\ ask \in Option(Asks) \ {{}} /\ config \in Option(Configs) \ {{}}
          /\ mode = PiiOn(cfg, my)
          /\ pc # "done" \/ sent # <<>> => my.header # "invalid"
          /\ live \in scanned

\* The attempts: an attempt follows only an attempt that may be repeated, with
\* the body that was pseudonymised if the mode asks for it.
SentInv ==
    /\ sent \in Seq(Attempt(Tried(sent)))
    /\ pc \in {"idle", "body", "pii"} => sent = <<>>
    /\ Dispatching => sent # <<>>
    /\ pc \in {"send", "wait"} /\ mode => body.hidden
    /\ \A k \in DOMAIN sent :
          /\ mode => sent[k].body.hidden
          /\ sent[k].conn = cands[k]
          /\ pc = "send" \/ k < Len(sent) => sent[k].result \in Moves

\* The counter of attempts runs behind the attempts while one is answered.
CountInv ==
    /\ pc \in {"idle", "body", "pii", "send"} => counted = Len(sent)
    /\ Dispatching \/ events > 0 => counted = Len(sent) - 1

AccountInv ==
    /\ pc # "done" => /\ events = 0 /\ ~spent /\ end = "none"
                      /\ traced = IF pc = "stream" THEN 1 ELSE 0
    /\ AccountedOnce
    /\ ReportedSpendCharged

\* What the guardrails let through so far.
BlockInv ==
    /\ pc \in {"pii", "send"} \/ sent # <<>> =>
          ~(my.endpoint # "embeddings" /\ my.bad /\ Blocks(cfg.rules, "pre"))
    /\ pc # "done" => ~shown
    /\ pc = "stream" => Streaming
    /\ shown => \/ Streaming \/ my.endpoint = "embeddings"
                \/ \E c \in scanned : ~Blocks(c.rules, "post")

\* Where a request is, what it sent, counted, charged and let through agree: no
\* step leaves these, whatever the configurations and the requests.
IInv ==
    /\ live \in Configs
    /\ pc \in Phases /\ end \in Ends /\ mode \in BOOLEAN /\ body \in Body
    /\ counted \in Nat /\ charged \in Nat
    /\ events \in Nat /\ traced \in Nat /\ rows \in Nat
    /\ spent \in BOOLEAN /\ shown \in BOOLEAN
    /\ StartInv /\ SentInv /\ CountInv /\ AccountInv /\ BlockInv
-----------------------------------------------------------------------------
(* What documentation and comments say *)

\* proxy_endpoint: "For a `bedrock` connection, InvokeModel takes the model id in
\* the URL path, not the body", and the other formats need it there.
BodyFitsConnection ==
    \A k \in DOMAIN sent :
        sent[k].body.bedrock <=> sent[k].conn.format = "bedrock"

\* README.md, Usage events: "one JSON event per completed proxied request -
\* successes and upstream errors alike".
EventPerCompletedRequest == end \in {"relayed", "blocked"} => events = 1
=============================================================================
