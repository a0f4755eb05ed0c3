# drgtw: TLA+ verification project

drgtw is a gateway between LLM clients and LLM providers. It authenticates
clients by virtual keys, limits their requests and their spend, replaces personal
data by placeholders before a request leaves and puts it back into the answer,
tries several upstream connections in turn, translates for Bedrock, serves the
tools of MCP servers, and accounts what was used. It can be reconfigured while it
runs, from a console that also shows its history.

This directory holds TLA+ models of the parts of the gateway whose correctness
depends on the order in which things happen or on the corners of their input, TLC
instances that check them, and theorems proved with TLAPS. Paths below are relative
to the repository root.

## 1. The system

### Components

| component | state it keeps | operations | what is hard | what makes it correct |
|---|---|---|---|---|
| **Key limits** `crates/drgtw-keys` | per bundle and key: a token bucket, a spend window | `check`, `record`, `rebuild_from`, `snapshot`, `authenticate` | check and record are apart; clocks are read before locks; counters survive reloads | admissions and spend are bounded; a refusal says how long to wait; counters belong to their key |
| **Hot reload** `drgtw-proxy/src/reload.rs`, `drgtw-config/src/edit.rs` | the file, the live bundle (an `ArcSwap`) | `Reloader::apply`: write, load, build, swap | several operators, failures between the steps, requests that hold an old bundle | file and live config agree; a request is limited and charged under its own key |
| **Configuration** `drgtw-config/src/lib.rs`, `edit.rs` | a TOML document, its backups | `load`, `validate`, `set_value`, `write_safe` | `${VAR}` references, checks that differ between page, reload and start | what was saved comes up again; a document is never lost |
| **Operator console** `drgtw-ui` | pages rendered from an earlier config, open forms | key, MCP, webhook and configuration forms; limit, usage and audit pages | positions and values shown on a page that is out of date | an edit hits the key it was made for and grants no more than its form says; a page's numbers agree |
| **Accounts** `drgtw-ui-auth`, `drgtw-ui/src/auth.rs`, `team.rs` | cookies, users, the audit log | sign in and out, create and delete a co-admin, replay a delivery | the database comes and goes; statements fail one by one | who is in has signed in, and the log says so |
| **Request pipeline** `drgtw-proxy/src/handlers.rs` | per request: snapshot, body, entity map, candidates | `proxy_endpoint`, `embeddings_inner`, `relay_with_usage`, `list_models` | upstream failures, reloads and client disconnects at every await | no entity leaves in clear; fallback only where allowed; accounted once |
| **Routing** `drgtw-keys`, `handlers.rs` | none | candidates for a model, models of a key | exact and wildcard matches, formats, streams, allowlists | the documented preference; what is listed is served |
| **Protocol translation** `converse.rs`, `eventstream.rs` | a partial frame, the end of a stream | request, response and stream between OpenAI and Converse | frames cut anywhere, faults inside a chunk, parts of no text | nothing said is dropped; one `[DONE]`, at the end |
| **Streaming** `usage_tap.rs`, `sse_restore.rs`, `drgtw-pii/src/stream.rs` | held-back text, partial events | `push`, `finish`, `feed` | placeholders and events split over chunks, streams that break | chunked output equals restoring the whole text; usage reported once |
| **Usage events** `drgtw-events` | a bounded channel, a drop counter, a delivery log | `emit`, the delivery worker | full channel, late receivers, restarts | at most once, in order, every loss counted, nobody waits |
| **Guardrails** `drgtw-guardrails` | compiled rules | `check_request`, `check_response` | order of rules, overlapping spans, two phases under two configurations | what a rule is written for is acted on; blocked text stops |
| **PII engine** `drgtw-pii` | the entity map of a request | `scan`, `try_pseudonymize`, `restore` | overlapping detections, a model or a vault that fails | nothing detected is sent; what comes back is restored |
| **Entity vault** `drgtw-vault` | an encrypted SQLite table | `open`, `get_or_assign`, `lookup_placeholder` | several processes on one file, several keys, stops | one placeholder per entity for ever, one entity per placeholder |
| **NER** `drgtw-ner` | a bounded queue, worker threads; windows over a text | `detect`, `run_window`, `decode_bio` | timeouts and late answers, panics; names cut by a window | every caller answered, by its own answer; spans whole |
| **MCP gateway** `drgtw-mcp`, `drgtw-proxy/src/mcp.rs` | one session per upstream | `ensure_initialized`, `call`, `tools/list`, `tools/call` | concurrent initialisation, session loss, names that begin one another | a tool runs once; an undisturbed call succeeds; what is listed can be called |
| **Trace writer** `drgtw-trace` | active, rotated and archived files | write, rotate, archive, prune | crashes between file operations | no record lost by rotation, retention respected |
| **History** `drgtw-history` | rows in PostgreSQL | one write per request, the questions of the pages | rows arrive between two questions of a page | the numbers of a page agree |
| **Process** `bins/drgtw`, `drgtw-otel` | what is still to be flushed | start, serve, drain, flush | signals, tasks of their own | nobody is cut off, traces and telemetry are flushed |
| status page, layout, benchmarks, demo, training | | | none | not modelled |

### How they interact

* A request calls `ArcSwap::load` once and keeps that bundle: keys, limiter,
  budget, PII engine, guardrails of the *request*, connections, cost tables.
  When the response is there it loads the live bundle *again* for the guardrails
  of the response and for `budget.record`.
* `Reloader::apply` runs on the task of an operator's HTTP request. Nothing
  serialises two of them. It copies the counters out of the live bundle with
  `rebuild_from` while requests go on counting in it.
* `emit_event` hands events to the channel of the event sink, whose worker posts
  them, and spawns a task that writes the history row. The sink, the entity vault,
  the HTTP client, the trace writer and the history are built once, at the start:
  a reload does not touch them.
* The console reads the live bundle row by row (`UiState`), edits the *file* by
  way of `Reloader::apply` or, for whole sections, of `config_save`, which only
  writes it.
* Guardrails read the raw request and the masked response; the rules about contact
  data share the PII engine.
* Clients, upstreams, MCP servers, webhook receivers and PostgreSQL are the
  environment: a client may go away at any await, and the HTTP server then drops
  the handler or the response body where it is.

### Hazards

`PROJECT.json` lists, line by line, what can go wrong here that a test would
hardly reach, each with the properties that would catch it.

## 2. The modules

| module | models | extends |
|---|---|---|
| `Options` | `Option<T>` as a set of at most one `T` | |
| `Limits` | `Bucket`, `BudgetWindow` as operators, with exact units in place of `f64` | `Options` |
| `TokenBucket` | one bucket under concurrent threads, clock reading and lock apart | `Limits` |
| `KeyBudget` | one spend window, requests in flight between check and record | `Limits` |
| `KeyLimits` | a key that has both: what a refusal of either announces | `TokenBucket`, `KeyBudget` |
| `Counters` | the counters of all keys of a bundle, and `rebuild_from` | `Limits` |
| `HotReload` | operators, file, bundles, requests: edits, reloads, restarts, charges | `Counters` |
| `LimitsPage` | the pages that show limits and budgets, row by row, with reloads between | `Counters` |
| `KeyForm` | the form of a key: shown, filled in, read, written, loaded | |
| `Configuration` | documents, references, defaults, checks, saves, backups, reload and start | |
| `Console` | sign-in, accounts, audit log, form tokens, replays | |
| `History` | rows of finished requests, and the pages that query them | |
| `Routing` | candidates of a request, in order of preference | `Options` |
| `ProxyRequest` | one request from authentication to accounting, with reloads, failures, disconnects | `Routing` |
| `ModelAccess` | which models a key may use and is shown, and who serves them | `ProxyRequest` |
| `RequestShape` | attribution, aliases, the body for Bedrock, headers, errors, the debug block | |
| `Guardrails` | collected texts, rules, evaluation, merged spans | `PiiMasking` |
| `PiiMasking` | engine, entity map and the walk over a body, with failures and a shared vault | |
| `Vault`, `Assignment` | the vault statement by statement; what it promises (abstract) | `Vault` instantiates `Assignment` |
| `StreamRestore` | placeholders in a streamed response, over blocks | |
| `Converse`, `UpstreamStream` | the translation; streamed responses: framing, decoding, usage | `UpstreamStream` extends `Converse` |
| `NerPool`, `NerWindows` | queue, workers, cache; windows, decoding, merging of spans | |
| `McpGateway`, `McpEndpoint` | sessions with a server; the endpoint over a fleet of servers | |
| `EventSink`, `Delivery` | channel, worker, network, receiver, log, restart; what the sink promises (abstract) | `EventSink` extends `Options`, instantiates `Delivery` |
| `TraceWriter` | channel, worker, files, kills, shutdown | |
| `Lifecycle` | one life of the process: start, calls, signals, draining, flushing | |
| `KeyLimitsProofs`, `HotReloadProofs`, `ProxyRequestProofs`, `PiiProofs`, `McpGatewayProofs`, `BackgroundProofs`, `ProcessProofs`, `ConsoleProofs` | theorems; `BackgroundProofs` about `EventSink`, `NerPool`, `NerWindows` and `TraceWriter`, `KeyLimitsProofs` about `LimitsPage`, too, `ProcessProofs` about `Lifecycle` and `Configuration`, `ConsoleProofs` about `Console`, `KeyForm` and `History`, `McpGatewayProofs` about `McpGateway`, `McpEndpoint` and `RequestShape`, `PiiProofs` about `Vault`, `PiiMasking`, `Guardrails` and `StreamRestore`, `ProxyRequestProofs` about `ProxyRequest`, `Routing`, `ModelAccess`, `Converse` and `UpstreamStream` | the modules they are about |
| `MCConsole`, `MCBackground`, `MCGateway` | the instances of the three passing runs, each over several modules, about one part at a time, chosen in its initial state | the modules they check |
| `MCHotReload`, `MCProxyRequest`, `MCRequests`, `MCStreams` | instances of one module (`MCRequests` of three), which those build on and the other runs use | the modules they check |

How state and actions correspond to the code is in the `map` of `PROJECT.json`
and in the comment of each definition. The abstractions that matter:

* **Units.** A token is `GRAIN` grains and a limit refills a whole number of
  grains per tick; money is whole units; a second is `TICKS` ticks. Rounding of
  `f64` is not modelled; rounding of `retry-after` up to seconds is, and that of a
  page's countdown down to them.
* **Bundles.** `HotReload` keeps every bundle since boot in a sequence; an index
  stands for the `Arc` a request or a reload holds. A key is known by its
  position, as `key_id = "vk-{index}"` is in the code.
* **Documents.** In `HotReload` a document is the list of virtual keys and the
  `health' of the rest: sound, an environment variable is missing (`load` fails
  after the write), or an engine does not build. In `Configuration` it has scalars
  and lists, whose texts are classes that the checks tell apart; fields that are
  read and checked alike are represented by one of them, and edits do not overlap.
  `KeyForm` knows one key; which key of a document an edit hits is `HotReload`'s.
  Field types that the browser enforces are kept, and at most `MaxTouched` fields
  change.
* **Texts.** In `ProxyRequest` a text is clean or bad (matched by the guardrail
  rules) and has entities or not. In `PiiMasking` and `Guardrails` it is a sequence
  of words, and recognizers and patterns are the sets of words they find. In
  `StreamRestore` it is a sequence of letters, so that placeholders can begin one
  another and be cut anywhere. Assumed there (`StreamAssumption`): a placeholder is
  `KIND_number`; no kind's name ends in another kind's, or begins one (true of
  `EMAIL`, `PHONE`, `IBAN`, `CARD`, `PERSON`, `ORG`, `LOCATION`, `IP`, `DATE`, `NID`,
  `NRP`, but not with a custom recognizer `ID` beside `NID`); and no original is part of a
  placeholder (`ON` of `PERSON_1`), unless in or right before its number. Out of the
  comparison (`Comparable`): a placeholder followed at once by `_`, which only
  `EntityMap::restore` leaves alone, and one whose original begins or ends so that it
  makes a placeholder with the text behind it, which `StreamRestorer`, scanning
  again what it holds, takes for one. Escaping for JSON puts a symbol before each
  `Quote`.
* **Requests** meet only in counters and in the event channel, so `ProxyRequest`
  has one; `TokenBucket`, `KeyBudget`, `HotReload`, `NerPool`, `McpGateway` and
  `EventSink` have several. A trace writer and a history are configured.
* **Streams.** In `UpstreamStream` an event is three units and a chunk ends after
  any of them; checksums, lengths and headers of a frame are a fault or none.
  Clients that go away are `ProxyRequest`'s.
* **NER.** What the model tags is a choice per window; a token is one position.
  Windows of 4 tokens that overlap in 2 over texts of at most 5 stand for 510 and
  64: only neighbouring windows overlap, as in the code.
* **MCP.** The server always issues a session and forgets all of them when it
  restarts. Values of headers, and the order of a list of tools, are not told apart.
* **Vault.** Keys, blind index and ciphertext are the master key a row was written
  under. What a power failure takes back is not modelled.
* **History and accounts.** A failed statement has no effect; their number is
  bounded by `MaxFailures` and `MaxOutages`. The clock counts hours and a page
  takes less than one. Signatures and password hashes are taken to work.
* **Process.** `Lifecycle` has one life; a kill promises nothing and is left out. A call
  ends in one of three ways: without a trace line or telemetry (it was refused before
  the loop over the candidates, or every attempt failed in transport), with a trace line
  only (a blocked response), or with a trace line, telemetry and a history row.
  Files are `TraceWriter`'s, rows `History`'s, events `EventSink`'s.
* Definitions marked *Mutant* are used by no action: each is a plausible bug in
  the definition that follows it, and violates the property `PROJECT.json` pairs
  it with.
* Variables that *observe* the run (named in each module's header) are read by
  no action.
* Type invariants that are not part of a run (`SinkTypeOK`, `MaskTypeOK`, ...) state
  the types of a module's variables; those of `TokenBucket`, `KeyBudget`,
  `NerPool`, `Vault` and `TraceWriter` are proved, and those of the other modules with theorems are
  part of the invariant proved there.

## 3. What is checked

Passing runs (all exhaustive for their bounds). The modules of a run share nothing:
a behaviour is about one of its parts, chosen in the initial state.

| run | part, actors and bounds | property: what it shows |
|---|---|---|
| `console` | requests and reloads: 2 operators, who overlap on updates of a single key with 1 admission, 1 request, 3 bundles, 2 secrets, time 0..1 (over the first reload only), create, update, delete, restarts; a second request is admitted over the first reload, in no time | `ChargedToOwner`, `SpendCarriedExactly`: tokens and spend are taken from the key whose request it was and carried exactly, through reloads that remove, re-add and re-order keys |
| | edits: 2 operators, 3 bundles, 2 secrets with one set of limits each, all forms, failing writes, loads and builds | `DivergenceExplained`: when file and live config may differ; `EditHitsShownKey` |
| | a key form: 2 connections, 2 servers, 2 fields touched, a reload under it | `FormGrantsNoMore`: a saved key has no more than the form says |
| | history: 2 requests, 1 failed statement, 2 hours | `PageAgrees`: the numbers of a page agree |
| | accounts: operator and a co-admin, 2 passwords, 1 outage, 1 replay, 1 hour | `SignInAudited` |
| | the vault: 2 gateways, 2 keys, 2 values, 2 random suffixes, 2 draws | `OneKey`: all rows are written under one key; `Implements`: the vault implements `Assignment` |
| | streams: a placeholder that begins another, an original with a quote, texts of 6, all cuts, both formats | `StreamRestored`: what was released equals the restored whole, but for what is still held and, in a text, for what JSON escapes |
| `background` | event sink: 2 tasks, channel of 2, 4 events, 1 restart | `EventsAccounted`: the drop counter is exact, and the log has every outcome but those whose insert failed; `EventuallySettled`; `Refines`: the sink implements `Delivery` |
| | trace writer: 3 entries, 2 days, 2 failures or kills | `EntryKept`: an entry is kept for its retention; `ExpiredGo`: what has expired goes |
| | NER pool: 2 callers, 2 workers, queue and cache of 1, 3 calls, 2 panics | `AnswerOfItsText`, `EveryCallEnds` |
| | masking: bodies of 2 fields, 2 requests, 3 recognizers that overlap, 4 policies | `EntitiesKept`: nothing to be masked is in what is sent; an echo comes back as it was typed |
| | guardrails: up to 3 rules of each kind, action and phase over bodies of up to 3 fields | `VerdictStands`: a rule acts on what it is written for wherever it stands; spans to redact are whole |
| `proxy_request` | every request (3 endpoints, stream, header, entities, bad text) over 6 connections and 3 configurations | `NoEntityInClear`, `FallbackInOrder`, `BlockedTextStops`, `ReportedSpendCharged`, `AccountedOnce` |
| | configuration: 2 edits, 1 second (counted from the first backup), every form and list of the instance | `StartsAgain`: what was applied comes up again; `SavesAsShown`: a save does what it shows and tells what waits for a restart; `DocumentsKept` |
| | a process: 3 calls, one trace line of room | `StopTellsAll`: a graceful stop leaves no call open and flushes traces and telemetry of the calls that have any |
| | a bucket: 2 threads, 2 requests per 6 ticks, thirds of a token, time 0..6 | `AdmissionEnvelope`: a window of time admits at most burst + refill + what clock regressions refilled twice |
| | a budget: 3 requests, 2 per 3 ticks, costs 0..2, time 0..4 | `OvershootBound`: overrun by at most one maximum cost per request in flight |
| | both | `RetryAfterSuffices`: what a refusal announces is enough, the least number of seconds that is, and refusals cost nothing |
| | pages: 2 keys, 1 reload that moves a key, a budget per 2 ticks, reads up to tick 2 | `PagesTellTheTruth`: a page tells what the next request would meet, unless a reload moved the key |
| | conversations of 2 messages; streams of 3 arbitrary events or 5 with one replaced, all cuts | `ConversationKept`; `StreamTold`: a stream tells the client what the buffered answer would, ends once, and is billed for what it reported |
| | MCP sessions: 2 requests, 3 sessions, 1 restart, 1 lost exchange | `ExecutedOnce`, `UndisturbedSucceeds` |
| | windows: 2 texts of up to 5 tokens, 5 predictions per token | `SpansWhole`: no tagged token is left out and no word cut within a window; kept spans do not compete, and a best one is kept |
| | models: 2 connections and an allowlist with up to 2 patterns each | `RoutingKept`: what is listed is served, in the order of preference |
| | requests with every mix of metadata, headers and aliases, answers with every mix of flags, and each error, one at a time | `ShapeKept`: attribution is kept and stripped, the client is told |
| | MCP endpoint: 2 servers whose names begin one another | `ToolsListedServed` |

Runs that show a disagreement of the code with what is said of it:

| run | what happens |
|---|---|
| `hot_reload_mischarge` | a request authenticated as key 2 ends after key 1 was deleted and is charged to the key that is now second (`handlers.rs:982` uses the position on the bundle that is live then) |
| `hot_reload_race` | two overlapping applies store in the opposite order of their writes: the older document stays live |
| `hot_reload_raise` | spend is carried over when `max_usd` changes, which the comment excludes: the guard compares the new window with the budget it was built from. The guard of the token bucket (`drgtw-keys/src/lib.rs:228-232`) has the same form |
| `proxy_request_body` | the Bedrock transform is decided by the first candidate and applied to all: a fallback from `bedrock` to `anthropic` sends a body without `model` |
| `proxy_request_event` | a response blocked by a guardrail leaves neither a usage event nor a charge |
| `stream_blocks` | all text blocks of a stream share one restorer: a tail is released in a block it does not belong to |
| `stream_buffered` | an original with a quote, a backslash or a newline is escaped twice in a streamed text: once by `StreamRestorer` and again when the event is serialised; a buffered answer has it as it was typed |
| `ner_windows` | a span is dropped for a rival that is itself replaced: a name stays uncovered |
| `mcp_allowlist` | a key with a list of MCP servers calls a tool of another server |

Why the bounds are enough: a race of the kind looked for needs two parties and
one step between two steps of the other, which every run allows at every point.
Two bundles let a request span a reload, three let it span two or let two reloads
overlap; two keys are enough for a charge to hit the wrong one and for positions
to shift. A bucket of two tokens in thirds over six ticks empties, refuses,
refills partly and fills up; a window of three ticks over four elapses once while
requests are in flight, three of which overrun a budget of two. The channel of
two overflows with four events. Two suffixes for two values make a vault run into
taken placeholders. Six connections give every endpoint an exact and a wildcard
match, a connection that matches both ways, and one of each format. Two faults of
files are a kill and the failure of the repair after it. Where a bound cuts a
variable (`MaxTime`, `MaxEvents`, ...), it is a guard of the one action that counts
it up, and the proofs do without it; the bounds of `ChainNext` in `MCHotReload` cut
combinations of what is checked apart, which the proof covers together.

Deadlock checking is on for `hot_reload_*` only: in every other run the parts may
stop, at the end of a request, a process, a page, or at a bound.

**Fairness.** `EventSink`: `Receive`, the outcome of a POST and `RecordDelivery` are weakly
fair, each by itself: the worker is a task of its own that loops over `recv`,
`send` and `record`; `recv` returns when there is an event, `send` has a client-side
timeout (`events.timeout_ms`), and the log is a database call that is assumed to
return. Nothing is assumed of the receiver, the network, or the tasks that emit.
`TraceWriter`: its worker goes on while there is work, and its tick comes.
`NerPool`: a worker takes and answers jobs unless the model hangs (a separate,
unfair outcome), and a caller goes on; its wait has a timeout. Upstream calls have
no overall timeout in the code (it says so on purpose), hence no liveness is claimed
for requests, nor for the stop of a process, which waits for them.

### Other disagreements

Met while modelling, most of them without a run; each is in the model as the code has it.

* **Webhook settings are not hot-reloaded.** The sink is built once
  (`state.rs:67`); `pages/webhooks.rs:100` says "The new value is written live via
  hot-reload — no restart required.", and `edit.rs:363` lists events among what is
  reloaded. In the same way `edit.rs:361-364` and what `build_live` rebuilds differ,
  and `/info` reports sink and tracing by the live configuration.
* **Key form.** Of several ticked connections or MCP servers the last one survives
  (`keys.rs:821` says so), no server ticked means all, `allow_pii_bypass` is lost,
  and a limit with a 0, or with both numbers beyond `u32`, is saved as no limit.
* **Configuration page.** It shows the resolved boot configuration, so saving a form
  writes secrets over `${VAR}`; a float is stored as a string by `coerce_value`, and
  the section can then not be saved any more; a page refuses `${VAR}` URLs that a
  start accepts; `restart_required_changes` omits `mcp_servers` of a key,
  `status_token` and `forward_headers`; `config_save` never reloads;
  `events.signing_secret` is not resolved from the environment; `--strict-config`
  applies at the start only, and a reload accepts what a start refuses.
* **What waits for a restart.** A save of connections with a reference that is not set
  writes a file that does not load. A key, MCP or webhook form sent then is written,
  too, and its reload fails, which the MCP and webhook pages do not show
  (`mcp.rs:300`, `mcp.rs:335`, `webhooks.rs:337`). Once a later save has repaired the
  connections, that change is in the file, is not live, and was never named; it takes
  three edits, and `SavedIsTold` excepts it by `unloaded`.
* **PII.** `engine.rs:123-124` says "longest span wins", the earliest start does.
  `model.rs:294-295` says "never split a word", a word whose first piece is tagged O
  is. A placeholder typed by a user is restored as if it had been assigned.
  `drgtw-pii/src/lib.rs:96-99` says `NATIONAL_ID` and `NRP` map to no kind, they do.
* **Guardrails.** The kinds a `contact_info` rule acts on must pass `pii.entities`,
  too, and a detection of another kind that overlaps hides them, even one that begins
  in the field before; a failing NER model finds nothing for a rule whatever its
  `fail_mode`. Tool calls and tool results are masked but not read by rules.
  `redact` spans are only logged, as documented.
* **Streams.** Originals reach a streaming client escaped once more than a buffered one
  (`stream_buffered`); `StreamRestored` claims a text's original for what has nothing to
  escape, and the arguments of a tool call, which are JSON, for everything. When a
  faulty frame follows good ones in a chunk, the good ones are lost, usage included
  (`handlers.rs:1043-1045` says otherwise). The text held back is lost when an upstream
  breaks. Only `choices[0]` is restored. `stream.rs` says at most the longest
  placeholder less one is held back; a complete one is, too.
* **MCP.** `drgtw-config/src/lib.rs:195` calls a key's `mcp_servers` an allowlist, the
  configuration is checked for it, the key form sets it and the MCP page shows who has
  access (`drgtw-ui/src/pages/mcp.rs:205-219`: "No virtual keys access this server"),
  but `drgtw-proxy/src/mcp.rs` never reads it (`mcp_allowlist`); `docs/mcp.md:153` and
  `:182` say that there is no gating yet. `FormGrantsNoMore` is about what is *written*
  for a key, this list included, not about what the endpoint does with it. Two servers
  `git` and `git-hub` can offer the same tool name; a tool with an empty name is listed
  but unknown when called; `initialized` is set before `notifications/initialized` has
  succeeded (`upstream.rs:213`); overlapping requests on an expired session can clear
  each other's new one.
* **Models.** `drgtw-keys/src/lib.rs:805-816` says "All models this key may use"; an
  allowlist's exact name that only a wildcard serves is not listed, and an
  allowlist's wildcard nobody serves is. A key may list a connection twice; it is then
  tried twice (`RoutingKept` claims an order of preference of keys that do not).
* **Usage events.** An insert into the delivery log that fails is swallowed
  (`sink.rs:107`), so an outcome may be missing on the page; `unlogged` tells those from
  what is lost otherwise.
* **Pages.** The KPI "PII redacted" counts requests, not entities; the PII page's
  "Detections" column shows input tokens and "Requests" shows detections; a page says
  "full" as soon as one token is there; the time to a budget's reset is rounded down;
  limit and budget pages read the configuration once and counters row by row.
* **Accounts.** `auth.rs:169` says "Persist the session record so it can be revoked
  later"; it is never read, so a deleted co-admin keeps access until the cookie
  expires, and its id is the second. `audit.rs:29` says "Every config and key
  change"; only `config_save`, sign-in and sign-out append entries, under the
  configured operator's name.
* **Process.** A second signal while draining is ignored and an endless stream blocks
  the stop; history rows and queued events of detached tasks are lost at the exit;
  `--validate-config` opens or creates the vault file and the trace directory.

## 4. What is proved

| theorem | for every | statement |
|---|---|---|
| `KeyLimitsProofs!BucketInductive`, `BucketTypeCorrect`, `EnvelopeHolds` | limit, unit, number of threads, length of the run | the admission envelope |
| `BudgetInductive`, `BudgetTypeCorrect`, `OvershootHolds` | budget, cost, finite number of requests | the overshoot bound, and that spend always has a window that expires |
| `RetryAfterHolds` | all of these | who waits as long as a refusal announces is served, a second less would not do at the bucket, and refused calls cost nothing |
| `PageInductive`, `PagesHold` | configurations, charges, reloads, length of the run | what a page tells of a counter is what the key's next request would meet |
| `HotReloadProofs!Inductive` | operators, requests, secrets, key lists, limits, costs, length of the run | the invariant below |
| `OwnerHolds`, `SpendHolds`, `DivergenceHolds`, `EditHolds` | the same | counters belong to their key and are carried exactly; file and live configuration agree; an edit hits the key that was shown; each with the exceptions it names |
| `ProxyRequestProofs!Inductive` | set of configurations (any connections, rules, flags) and of requests | what a request holds, sent, counted, charged and let through agree at every step |
| `NothingInClear`, `FallbackHolds`, `AttemptsHold`, `GuardrailsHold`, `AccountedHolds`, `ChargedHolds` | the same | no upstream gets an entity in clear that the configuration protects; attempts follow the candidates and only failures that may be repeated; attempts are counted, blocked texts stop; a request is accounted once, and its spend charged once |
| `ConversationHolds` | conversations | a translated request drops nothing that was said, and nobody is made to say what another said |
| `StreamHolds` | responses of any number of events, cut into chunks anywhere, broken anywhere | a stream tells what the buffered answer would, ends once, and is billed for what it reported |
| `RoutingHolds` | keys, connections, patterns, models, configurations | candidates are in the documented order, each connection that serves is tried, and what is listed is served |
| `BackgroundProofs!SinkInductive`, `AccountedHolds` | tasks, events, restarts, room of the channel | the drop counter is exact; the log is in order, and complete but for inserts that failed |
| `RefinesHolds` | the same | the sink implements `Delivery` |
| `NerInductive`, `NerTypeCorrect`, `AnswerHolds` | callers, workers, texts, panics, sizes of queue and cache | a call and the cache get the verdict on their own text |
| `SpansHold` | texts, predictions, size and overlap of windows | no tagged token is left out and no word is cut; spans that are returned do not compete, and a best one is |
| `TraceInductive`, `TraceTypeCorrect`, `KeptHolds` | entries, room of the channel, failures, kills, retention, length of the run | an entry that was written can be read until it has expired, twice only after a kill or failure between archiving and removing |
| `PiiProofs!Inductive`, `TypeCorrect` | gateways, keys, kinds, values, suffixes, draws | types, and that the write lock is held by one transaction |
| `MaskTypesCorrect`, `EntitiesStayKept` | recognizers, policies, bodies of any number of fields, requests, vaults | nothing that a policy masks is in what is sent, unless a failure it tolerates hid it; an echo comes back as it was typed |
| `VerdictsStand` | lists of rules, bodies | a rule acts on what it is written for wherever it stands; spans to redact are whole and apart |
| `StreamInductive`, `StreamTypesCorrect`, `StreamRestoredHolds` | alphabets, placeholders, originals, responses of any length, cut, interleaved and ended anywhere | what the client has, and what would be flushed now, is the whole replaced at once, with originals as JSON escapes them; a text whose originals have nothing to escape is what `EntityMap::restore` makes of it |
| `OneKeyHolds`, `InsertsFit`, `RestoreHolds`, `ImplementsHolds` | the same | all rows are under one key; an insert violates no constraint; what a caller was told is restored; the vault implements `Assignment` |
| `ProcessProofs!Inductive`, `StopHolds` | number of requests, room in the trace channel | a graceful stop leaves no request open and flushes the traces and telemetry of those that have any |
| `ConfigInductive`, `StartsAgainHolds`, `DocumentsHold` | documents, environments, edits, failures of a save | what runs can be started again; a document that was replaced is in its backup; each with the exceptions it names |
| `ToldInductive`, `ToldHolds` | documents, environments, edits, failures of a save | what differs between the file and what runs was named as waiting for a restart |
| `SavesHold` | the same | a form saved as it was shown changes nothing, and one that is changed is what is read back |
| `ConsoleProofs!ConsoleInductive`, `AuditedHolds` | accounts, cookies, outages, restarts, length of a session | whoever holds a session is in the audit log |
| `HistoryInductive`, `PagesAgree` | requests and what they report, lengths of the buckets, number of labels, failures of the database | the numbers of a page agree with one another and with the requests that finished |
| `FormInductive`, `GrantsHold` | names, boxes, numbers, fields changed, reloads under the form | a saved key allows no more than its form |
| `McpGatewayProofs!Inductive`, `OnceHolds`, `UndisturbedHolds` | number of requests, sessions, restarts, lost exchanges | a tool runs at most once for a request; a request nothing disturbs gets its result |
| `ListedHolds` | servers, names, tools, requests | a listed tool is called where it is, by its own name; how a call ended is told |
| `ShapeHolds` | requests, headers, limits on keys | attribution is kept within its limits and stripped, the client is told what was done |

**Token bucket.** The envelope speaks of admissions and the clock and is not
inductive. `EnvelopeInv` adds the tokens in hand and measures time by the
bucket's own `last_refill`: a refill then moves `refill * d` from the right to
the left side, an admission moves one token within the left side, and a reading
that goes back by `d` lowers `last_refill` by what `win.regress` grows. The bound
follows from `last_refill <= now`.

**Budget.** `OvershootBound` is not inductive, as `record` adds to the spend
without a check. `OvershootInv` counts one maximum cost for every request in
flight: a check admits only below the maximum, with the other requests in flight
being at most all but one; a record turns one of those reserves into spend.

**Retry-after.** That rounding up to whole seconds is enough, and for the bucket the
least that is, follows from two bounds of `CeilDiv`. That refused calls are free is
about the bucket beside a `shadow` of it that they do not touch: the two have refilled
at different times, so the invariant `ShadowInv` compares them not now but at *every*
time, and a refused call moves nothing in that comparison but down from the cap. For
the budget, `ClockInv` says that no window starts ahead of the clock.

**Pages.** A page reads a counter and the clock at one moment, so its rows need only
what holds of every counter of the live bundle (`BucketsHere`, `WindowsHere`): one
exactly if the key has the limit, not above its capacity, not ahead of the clock; a
reload keeps that whichever keys it moves, since it cuts the tokens it takes over to
the new capacity. `TablePart` says that a page shows the live keys until the
next reload. The seconds shown to the next token are those of a refusal
(`WaitSuffices`); those to the end of a window are rounded down, so that it ends
within the second after them (`WholeSeconds`).

**Hot reload.** `HotReload` is the largest proof, and its invariant has five layers.
`ShapeInv`: a bundle has a counter for every key that has the limit, made for that
limit, and an operator or a request between two steps holds what it read. `KeysInv`:
no secret twice, in the file, in a bundle or in one being built. `OwnerInv`: what is
missing in a bucket, or held by a window, of *any* bundle was taken by requests of
that key's secret; it speaks of the bundles being built, too, since requests go on
counting between copy and swap. `EditInv` carries what an operator who is alone may
conclude. `SpendInv` says where the whole spend of a key is: in the live bundle, in
every bundle that a reload has yet to copy from, and in every one it has built, as
long as its window has not elapsed. It needs `KeysInv`, since `rebuild_from` takes the
first key with the secret. The proof settled what `SpendCarriedExactly` has to
except: when two reloads overlap, the later one may copy from a bundle that the
earlier one has already replaced, and loses what was charged to the new one. This
takes two overlapping reloads and a request between them (`reload.rs:72` reads the
live bundle once, `reload.rs:81` stores without looking); `seen.late` tells it, and
the instance has two operators so that TLC meets it.

**Event sink.** Events are numbered in the order of emission, and the invariant gives
each its place: pending ones are in the channel in order, or held by the worker
(`QueuePart`), and everything that is settled is older than what is not (`OrderPart`).
The counter is raised by tasks after the failed send and by the worker after the
outcome, so it is exact only up to those between the two steps (`DropPart`). The
refinement into `Delivery` keeps `fate` and `arrived`; what has to be shown is that
the event the worker settles is the first pending one, and that a POST that arrives
late was one on the wire (`WirePart`).

**NER pool.** A reply is about the job it was made for, whenever it comes
(`ReplyPart`); a caller reads only the reply to a call that is its own and nobody
else's (`OwnPart`), and stores only a verdict on the text of that call
(`StoringPart`). Timeouts, panics and late answers leave all three alone.

**NER windows.** `DecodePart` says what the tokens so far were decoded into: the open span
ends with the last token and has its word, so a token that does not continue it
begins another word, and closing it cuts none. Merging goes over the spans in the
order of their starts. Those kept of a kind are apart; two of them that meet the next
one would both reach over its start, so it meets at most one, and putting it in that
one's place leaves them apart (`KeepIs`). One that scores higher than its rivals takes the place
of any, and loses it to none.

**Trace writer.** An entry moves through files that are renamed, archived and removed
by name, and the clock decides what goes. `DatedPart` says that a file holds nothing
written after its date, so that what retention removes has expired; `KeptPart` that an
archive has all of its originals before they are removed, wherever the worker is
killed; `OncePart` that two files share no entry unless that happened. That a rotation
replaces no earlier file needs a free name: there is one because the files are
finitely many, and a first one because the numbers tried are well-founded.

**Request.** Each property speaks of what was sent, counted or charged in the end;
the invariant `IInv` of `ProxyRequest` adds what has been decided by then.
`StartInv`: `mode` is what `resolve_pii_mode` says for the bundle and the request
it started with; `SentInv`: from the dispatch on a body in mode `on` is rewritten,
and the loop is re-entered only when every attempt so far may be repeated;
`CountInv`: the counter is one behind while an attempt is being answered;
`BlockInv`: what was shown was let through by some bundle that was live meanwhile,
since the live bundle is always among them. A reload touches none of it. The list
of candidates stays opaque here: these theorems hold for every one.

**Recursion and folds.** What the next theorems are about is computed by recursive
functions: a walk over words, a sweep over spans, a scan of events. Induction over
their definition is out of reach, but each of them can be *named* by a formula
(`RestoredThrough`, `Swept`, `Scanned`: a function on `0 .. n` that starts as the
definition says and goes on as it says), a lemma shows that there is one, from the least
number for which there were none, and what holds of all of it follows in the same way:
a first index at which it failed would be a step from one at which it did not.

**Routing.** A candidate list is the exact matches and then the wildcard matches, the
longest prefix first, both in the key's order. Being earlier and being better are
relations between connections (`Earlier`, `Better`), and a list is `Sorted` by one of
them; selecting from a sorted list and putting one list after another keep it so. The
sort is an insertion of one connection after another (`Ranked`), which keeps `Better`.
That an attempt is one of the candidates needs an invariant of the request, `InBounds`:
the loop never runs past the list. What a key is shown is a `FlattenSeq` without
duplicates; whoever offers a model there is a candidate for it.

**Conversation and stream.** A message is translated part by part, and what is said in
a list of parts is what is said in the pieces put one after the other. For a stream,
`StreamPart` says what has been told when the first n events were read, and that this
says all: the texts, one after the other, the reason of the end if it was told, one
`[DONE]`, and the usage before it. A stream that is not translated is only scanned, and
`Scanned` names, for each number, the last event that sets it. Chunks cut events
anywhere; the invariant counts whole events (`taken = fed \div 3`), so that the cuts
leave it alone. A fault breaks the stream at the event it is in, and a chunk that
held it loses the events before it: what was told is then the prefix before the chunk.

**Masking.** A body is masked field by field, and a field detection by detection, from the
left. `MaskedSoFar` keeps an alignment of what is
written with what was read (`Aligned`: each word of the one comes from a position of
the other, is a copy there or a placeholder for exactly one detection), so that a
detection that is done cannot be in what is sent. `EchoSoFar` says that restoring
what is written so far gives back what was read so far; it needs that no
placeholder stands for two values (`EntriesKept`), for the map of a request and for a
vault that others write to, and that nobody typed a placeholder.

**Guardrails.** The verdict is the state of a walk over the rules, and `EvaluateIs` names
it after n of them; a rule that blocks ends it, and the others leave their spans.
`MergeSpans` sweeps over the sorted spans, and `Swept` says that after n of them the
merged spans are apart, in order, and cover what was swept.

**Restoring a stream.** The property compares a text that was replaced piece by piece
with the whole restored at once; it is not inductive, as what is held back is scanned
again with the next piece. The invariant (`SettledPart`) therefore speaks of every text
that may still come: `Settled(sent, got, hold)` says that what is made of `sent` and
anything behind it is `got` and what is made of `hold` and the same behind it. Its step
is a property of `Process` alone (`ProcessGives`), by induction on the length of the
text (`TextInduction`, the least length at which a set of texts fails). A text that is
the beginning of a placeholder is all held (`GivenBeginning`). Any other begins with a
longest placeholder, which the symbol behind it replaces or leaves, or with a symbol
that starts none, whatever comes behind the text (`FirstStep`); the rest is shorter.
What is held then lies in what the rest becomes, where it is the longest end that begins
a placeholder (`HeldOnce`), or it is the end of an original with all of the rest. In the
second case the rest has nothing to replace, as a digit would have to follow an original
there (`ApplyToInside`), and scanning that end again with the rest makes no placeholder
(`Unmixed`, which every end of a text keeps). No placeholder starts inside another one
(`TailsStand`). At the end, `Settled` with nothing to come is the whole, and
`RestoreIsApply` shows that the two restorers agree on it where no `_` follows a
placeholder; both with the originals escaped, and with nothing to escape the escaped are
the originals (`RestoreUnescaped`). Rewriting is a recursive function over positions;
`RewriteCut` splits it where one of its steps ends, and `ApplyLongest` and
`ApplyLiteral` are all the rest uses of it. Texts are put together with an operator of
its own, `Cat`.

**Request shape.** Keys of the attribution are ranked, and the first `MaxKeys` are kept:
those of a finite set of numbers that fewer than `MaxKeys` are less than. That
these are no more than `MaxKeys`, and all of them or exactly as many, is shown by
taking the greatest away.

**Vault.** The statements of a transaction are separate steps, so what a gateway
read is true only as long as nobody else writes. The invariant says that a
transaction has the lock from its first statement, that what it read still holds
while it has it, and that rows, once written, are neither changed nor removed. The
refinement maps rows to pairs of entity and placeholder; every step but the insert
and the answer is a stutter.

**Process.** `StopTellsAll` speaks of the exit only. `CountPart` says that every
request that left a trace line or told its telemetry is in exactly one place: queued,
written or dropped for its trace line, held, exported or lost for its telemetry; `StopPart` that each phase of
the stop begins with what the phase before it has emptied. `RunningPart` gives both
their meaning: after the start, tracing and telemetry run exactly when they are
configured. Together they make `LeftPart`, what is true at the exit.

**Configuration.** `StartsAgain` compares what a reload accepted with what a start
checks. Its invariant, `AppliedPart`, is that the last document applied loads, to what
runs and to nothing else, and that this can be built; it rests on `Load` being
a function of document and environment. A save copies, replaces and only then is done, and may stop in
between: `CopyPart` says that whoever is about to replace the file has a backup of
what is in it now.

What waits for a restart compares two documents by section. `ToldPart` is about the
resolved ones, section by section: where they differ, the section was named or its
load failed (`unloaded`). It needs `DocumentPart`: what a reload accepts is a document,
and a file that is not accepted can only be the one of the start. That a form
saved as it was shown changes nothing is about one field at a time: what a page shows
of a valid value is valid and read back as the same (`ValidBack`, `ValidSame`), and what
it stores means what it shows (`StoredMeans`). What has started is accepted by a page,
but for URLs that are references and variables that are set to nothing.

**Console.** A cookie is checked long after the sign-in and by its expiry alone. The
invariant ties the two: whoever is about to be given a cookie is in the log
(`NotedPart`), and a cookie expires a session's length after an hour by which the log
has its sign-in (`IssuedPart`). Both last because the log only grows.

**Key form.** The entry is a list of lines that the document's reader reads back. The
lemmas say what it finds: what is under a name in lists put one after the other is
under that name in one of them, and no line is cut off by a table as long as there
is no header. That the last ticked box is in the configuration at all follows from
there being one (the greatest of a finite set of positions), that there is only one
from the order of the boxes.

**History.** A page compares answers that were given at different times. The invariant
compares each of them with the table as it is now (`CurrentPart`): it counts no more,
and as much as long as the number of rows is what it was. A row that is written
keeps this, as counts over more rows are no smaller (`CountOfMore`) and one more row is another
number of rows; a new answer is the count of now, so that it agrees with all before it
(`AgreePart`). That buckets and labels add up to the count of their window
(`SeriesAddsUp`, `LabelsAddUp`) is shown over the sums themselves: a sum goes over
the keys of a table (`SumOfUnion`), an `ORDER BY` returns each group once (`FallingIs`), and
groups that are disjoint and cover the window add up to it (`PartsAddUp`). For labels this needs
that the answer is shorter than its `LIMIT`, which `PageAgrees` says.

**MCP.** `ExecutedOnce` follows from the counter staying 0 until the exchange that
ends a request. For `UndisturbedSucceeds` the invariant says, step by step, what a
request that is alone knows: the session it has opened is one that the server
knows; the one it found may be stale, and then it is on its first attempt, so that
the one retry is left. That it is alone is part of the invariant, as is that no
restart or lost exchange has touched it.

**Endpoint.** Nothing moves here; the theorem is about every request and fleet. A tool
is looked for by its prefix, so the lemmas take names and the separator apart: two
servers that own a tool with names of one length have the same name, so that the
longest is one server (`RouteUnique`), and what follows the prefix is the name the
server listed (`RouteOfListed`).

The assumptions are those of the modules (`UnitsAssumption`, `TokenBucketAssumption`,
`KeyBudgetAssumption`, `HotReloadAssumption`, `ProxyRequestAssumption`,
`EventSinkAssumption`, `NerPoolAssumption`, `NerWindowsAssumption`, `TraceAssumption`, `VaultAssumption`,
`McpAssumption`, `EndpointAssumption`, `ShapeAssumption`, `AnswerAssumption`, `LifecycleAssumption`,
`LimitsPageAssumption`, `ConfigurationAssumption`, `DocumentAssumption`, `DefaultsValid`,
`ConsoleAssumption`, `KeyFormAssumption`, `HistoryAssumption`, `MaskingAssumption`, `RecognizerAssumption`,
`FieldAssumption`, `RuleAssumption`, `BodyAssumption`, `AccessAssumption`,
`ConversationsAssumption`, `ResponsesAssumption`, `StreamAssumption`): types of the
constants, that the sets of tasks and of requests are finite, that the servers of a
fleet have different names, that a key has each of its optional parts at most
once, that a recognizer finds no empty text and takes no placeholder for an entity, that
headers of a request are finitely many, that what is written in the files of the
instance is of the types the parser asks for, that the names of the kinds of
placeholders are as said in section 2, and that the value of an
environment variable is not itself a URL with a reference.

Every safety property of the passing runs is stated by a theorem. Only model-checked is
liveness (`EventuallySettled`, `ExpiredGo`, `EveryCallEnds`), which is beyond the prover.

## 5. What is not modelled

* Regular expressions and checksums of the recognizers (`recognizers.rs`), the
  network of the NER model, its tokenizer: data.
* Request signing (`sigv4.rs`) and the arithmetic of cost tables (`cost.rs`): pure
  functions. That a translation or a signature may *fail* inside the dispatch loop
  is in `ProxyRequest`.
* TOML and JSON parsing, HTML, CSS, charts, the wording of errors, names and
  attributes of metrics and spans.
* `info.rs`, `layout.rs`, `connections.rs`, `setup.rs`, `settings.rs`: they show
  values.
* Migrations of the history's schema, and statements that only tests call
  (`*_by_key`, `record_usage_batch`, `pii_timeseries`, `get_session`,
  `delete_session`).
* An event that does not serialise (`sink.rs`): no `UsageEvent` can fail to.
* `Drop` of the NER pool, which lives as long as the process.
* Rounding of `f64`; what a power failure takes back from SQLite.
* Benchmarks, demo and training.

## 6. Plan

Done: every module of section 2 and the theorems of section 4. Left is the composition
of `ProxyRequest` with `EventSink` and `KeyBudget`: several requests, one channel.
