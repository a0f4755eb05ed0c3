------------------------------- MODULE History -------------------------------
(***************************************************************************)
(* The usage history of crates/drgtw-history and the pages that read it.   *)
(* A finished request is written by tasks emit_event leaves behind         *)
(* (handlers.rs), each on its own and without a retry; a page asks its     *)
(* questions one after another, so that rows arrive between two of them.   *)
(*                                                                         *)
(* Postgres is the environment: it keeps a row or fails.  Latencies, the   *)
(* metadata and what a page only prints are left out.                      *)
(***************************************************************************)
EXTENDS Integers, SequencesExt

CONSTANTS Usages,      \* what requests report
          Hour, Day,   \* length of the buckets
          MaxLabels,   \* LIMIT of usage_by
          MaxFinished, \* bound: finished requests
          MaxFailures, \* bound: statements the database fails
          HistoryEnd   \* bound: the last instant

Columns == {"requests", "input_tokens", "output_tokens", "cost_usd"}

ASSUME HistoryAssumption ==
    /\ \A usage \in Usages : \A column \in Columns \ {"requests"} :
          column \in DOMAIN usage /\ usage[column] \in SUBSET Nat
    /\ Hour \in Nat \ {0} /\ Day \in Nat \ {0} /\ Day % Hour = 0
    /\ MaxLabels \in Nat \ {0} /\ MaxFinished \in Nat /\ MaxFailures \in Nat /\ HistoryEnd \in Nat

VARIABLES store,          \* "none", "disabled" or "pg"
          time,           \* wall clock
          finished,       \* the events of finished requests, in order
          spawned,        \* writes under way
          usage_events,   \* table
          pii_detections, \* table, in order of insertion
          page,           \* the page being built: none or one
          failures        \* statements the database failed

historyVars == <<store, time, finished, spawned, usage_events, pii_detections, page, failures>>

HistoryInit ==
    /\ store \in {"none", "disabled", "pg"}
    /\ time = 0
    /\ finished = <<>> /\ spawned = {}
    /\ usage_events = {} /\ pii_detections = <<>>
    /\ page = {} /\ failures = 0
-----------------------------------------------------------------------------
(* What is written *)

\* pii_kind_counts: placeholders are pairs of a kind and a number.
pii_kind_counts(map) ==
    [kind \in {p[1] : p \in map} |-> Cardinality({p \in map : p[1] = kind})]

\* The event of a finished request, and the tasks that keep it.
emit_event(usage) ==
    LET event == [field \in DOMAIN usage \cup {"request_id", "ts"} |->
                    CASE field = "request_id" -> Len(finished) + 1
                      [] field = "ts" -> time
                      [] OTHER -> usage[field]]
        detected == event.pii /\ event.pii_map # {}
    IN /\ Len(finished) < MaxFinished
       /\ finished' = Append(finished, event)
       /\ spawned' = IF store = "none" THEN spawned
                     ELSE spawned \cup {<<table, event>> : table \in
                            {"usage"} \cup IF detected THEN {"pii"} ELSE {}}
       /\ UNCHANGED <<store, time, usage_events, pii_detections, page, failures>>

\* Whether a statement succeeds: never on a disabled handle.
Outcome == IF store = "pg" THEN {TRUE} \cup {FALSE : i \in failures + 1 .. MaxFailures} ELSE {FALSE}
Counting(succeeds) == failures' = IF store = "pg" /\ ~succeeds THEN failures + 1 ELSE failures

\* INSERT .. ON CONFLICT (request_id) DO NOTHING.
record_usage(rows, event) ==
    IF \E row \in rows : row.request_id = event.request_id THEN rows ELSE rows \cup {event}

\* One row per kind, in one transaction.
record_pii_detections(rows, event) ==
    LET counts == pii_kind_counts(event.pii_map)
    IN rows \o SetToSeq({[request_id |-> event.request_id, key_id |-> event.key_id,
                          entity_kind |-> kind, count |-> counts[kind], ts |-> event.ts] :
                            kind \in DOMAIN counts})

\* A task ends: the row is kept, or the error is ignored.
Write(task) ==
    LET event == task[2]
    IN \E kept \in Outcome :
        /\ Counting(kept)
        /\ spawned' = spawned \ {task}
        /\ usage_events' = IF kept /\ task[1] = "usage" THEN record_usage(usage_events, event)
                           ELSE usage_events
        /\ pii_detections' = IF kept /\ task[1] = "pii" THEN record_pii_detections(pii_detections, event)
                             ELSE pii_detections
        /\ UNCHANGED <<store, time, finished, page>>
-----------------------------------------------------------------------------
(* What is read *)

Within(rows, since, until) == {row \in rows : since <= row.ts /\ row.ts < until}
First(n, seq) == SubSeq(seq, 1, IF n < Len(seq) THEN n ELSE Len(seq))

\* COALESCE(SUM(column), 0): request_id is the key of the table, and a NULL adds nothing.
Amount(rows, column, id) ==
    LET amounts == UNION {row[column] : row \in {r \in rows : r.request_id = id}}
    IN IF amounts = {} THEN 0 ELSE CHOOSE amount \in amounts : TRUE
Sum(rows, column) ==
    LET sum[id \in 0 .. MaxFinished] ==
            IF id = 0 THEN 0 ELSE sum[id - 1] + Amount(rows, column, id)
    IN sum[MaxFinished]

\* ORDER BY key DESC: Postgres may order equal ones otherwise.
Falling(S, key) ==
    LET taken[n \in 0 .. Cardinality(S)] ==
            IF n = 0 THEN <<>>
            ELSE LET left == S \ ToSet(taken[n - 1])
                 IN Append(taken[n - 1], CHOOSE x \in left : \A y \in left : key[y] <= key[x])
    IN taken[Cardinality(S)]

Count(rows, column) == IF column = "requests" THEN Cardinality(rows) ELSE Sum(rows, column)
Counted(label, rows) ==
    [field \in Columns \cup {"label"} |-> IF field = "label" THEN label ELSE Count(rows, field)]

usage_summary(rows, since, until) ==
    LET chosen == Within(rows, since, until)
    IN [field \in Columns \cup {"pii_count", "error_count"} |->
            CASE field = "pii_count" -> Cardinality({row \in chosen : row.pii})
              [] field = "error_count" -> Cardinality({row \in chosen : row.status >= 400})
              [] OTHER -> Count(chosen, field)]

date_trunc(bucket, t) == t - (t % (IF bucket = "hour" THEN Hour ELSE Day))

\* Buckets from the earliest on, each under its start.
usage_timeseries(rows, since, until, bucket) ==
    LET chosen == Within(rows, since, until)
        starts == {date_trunc(bucket, row.ts) : row \in chosen}
        inOrder == Falling(starts, [start \in starts |-> -start])
    IN [i \in DOMAIN inOrder |->
            Counted(inOrder[i], {row \in chosen : date_trunc(bucket, row.ts) = inOrder[i]})]

ByLabel(chosen, column) ==
    {Counted(label, {row \in chosen : row[column] = label}) : label \in {row[column] : row \in chosen}}
ByRequests(counted) == Falling(counted, [c \in counted |-> c["requests"]])

\* Mutant: the end of the window is forgotten.
UsageByOpenEnd(rows, since, until, column) ==
    First(MaxLabels, ByRequests(ByLabel({row \in rows : since <= row.ts}, column)))

usage_by(rows, since, until, column) ==
    First(MaxLabels, ByRequests(ByLabel(Within(rows, since, until), column)))

recent_usage(rows, limit) == First(limit, Falling(rows, [row \in rows |-> row.ts]))

pii_by_kind(rows, since, until) ==
    LET chosen == {i \in DOMAIN rows : since <= rows[i].ts /\ rows[i].ts < until}
        Found(kind) == MapThenSumSet(LAMBDA i : rows[i].count, {i \in chosen : rows[i].entity_kind = kind})
    IN ByRequests({[label |-> kind, requests |-> Found(kind)] : kind \in {rows[i].entity_kind : i \in chosen}})

range_window(range) ==
    LET days == CASE range = "24h" -> 1 [] range = "7d" -> 7 [] OTHER -> 30
    IN [since |-> time - days * Day, until |-> time, bucket |-> IF range = "24h" THEN "hour" ELSE "day"]
-----------------------------------------------------------------------------
(* The pages *)

\* What each page asks, in order, of which window.
Questions ==
    [dashboard |-> <<"summary", "timeseries", "recent">>,
     analytics |-> <<"summary", "timeseries", "model", "connection", "endpoint">>,
     pii_insights |-> <<"pii">>, traces |-> <<"recent">>, key_detail |-> <<"summary">>, cost_budgets |-> <<"summary">>]
PageRange(name) == IF name \in {"analytics", "pii_insights"} THEN "7d" ELSE "24h"
RecentRows(name) == IF name = "dashboard" THEN 8 ELSE 100

\* A page is served only while the console is unlocked.
Open(name) ==
    /\ page = {} /\ store # "none"
    /\ page' = {[name |-> name, window |-> range_window(PageRange(name)), answers |-> <<>>]}
    /\ UNCHANGED <<store, time, finished, spawned, usage_events, pii_detections, failures>>

OpenSeries ==
    \E range \in {"24h", "7d", "30d"} :
        /\ page = {} /\ store # "none"
        /\ page' = {[name |-> "api_timeseries", window |-> range_window(range), answers |-> <<>>]}
        /\ UNCHANGED <<store, time, finished, spawned, usage_events, pii_detections, failures>>

Asked(p) == IF p.name = "api_timeseries" THEN <<"timeseries">> ELSE Questions[p.name]

Reply(p, question, rows) ==
    LET w == p.window
    IN CASE question = "summary" -> usage_summary(rows, w.since, w.until)
         [] question = "timeseries" -> usage_timeseries(rows, w.since, w.until, w.bucket)
         [] question = "recent" -> recent_usage(rows, RecentRows(p.name))
         [] question = "pii" -> pii_by_kind(pii_detections, w.since, w.until)
         [] OTHER -> usage_by(rows, w.since, w.until, question)

\* The next query; a store that is disabled or fails answers as an empty one.
\* `rows' observes how many rows there were.
AskNext ==
    \E p \in page :
        LET question == Asked(p)[Len(p.answers) + 1]
        IN /\ Len(p.answers) < Len(Asked(p))
           /\ \E answered \in Outcome :
                /\ Counting(answered)
                /\ page' = {[p EXCEPT !.answers = Append(@,
                            [question |-> question, answered |-> answered, rows |-> Cardinality(usage_events),
                             value |-> Reply(p, question, IF answered THEN usage_events ELSE {})])]}
           /\ UNCHANGED <<store, time, finished, spawned, usage_events, pii_detections>>

Show ==
    /\ \E p \in page : Len(p.answers) = Len(Asked(p))
    /\ page' = {}
    /\ UNCHANGED <<store, time, finished, spawned, usage_events, pii_detections, failures>>

\* The clock counts hours, and a page takes less.
HistoryTick ==
    /\ time < HistoryEnd /\ page = {}
    /\ time' = time + 1
    /\ UNCHANGED <<store, finished, spawned, usage_events, pii_detections, page, failures>>

HistoryNext ==
    \/ \E usage \in Usages : emit_event(usage)
    \/ \E task \in spawned : Write(task)
    \/ \E name \in DOMAIN Questions : Open(name)
    \/ OpenSeries \/ AskNext \/ Show \/ HistoryTick

HistorySpec == HistoryInit /\ [][HistoryNext]_historyVars
-----------------------------------------------------------------------------
\* What the rows of an answer add up to.
Total(value, column) ==
    LET sum[i \in 0 .. Len(value)] == IF i = 0 THEN 0 ELSE sum[i - 1] + value[i][column]
    IN sum[Len(value)]

\* The total a page shows for a column, over all buckets or labels of an answer.
TotalOf(answer, column) ==
    IF answer.question = "summary" THEN answer.value[column] ELSE Total(answer.value, column)

\* Answers that count every request of the window.
Complete(answer) ==
    /\ answer.answered /\ answer.question \notin {"recent", "pii"}
    /\ answer.question \in {"summary", "timeseries"} \/ Len(answer.value) < MaxLabels

FinishedIn(window) ==
    {i \in DOMAIN finished : window.since <= finished[i].ts /\ finished[i].ts < window.until}

(* The numbers of one page agree: what its charts add up to is what its      *)
(* headline says, or more by the rows written since, and no more than the    *)
(* requests that finished (dashboard.rs, analytics.rs over pg/mod.rs).       *)
PageAgrees ==
    \A p \in page : \A i \in DOMAIN p.answers : Complete(p.answers[i]) =>
        /\ TotalOf(p.answers[i], "requests") <= Cardinality(FinishedIn(p.window))
        /\ \A j \in i + 1 .. Len(p.answers), column \in Columns :
            Complete(p.answers[j]) =>
                /\ TotalOf(p.answers[i], column) <= TotalOf(p.answers[j], column)
                /\ p.answers[i].rows = p.answers[j].rows => TotalOf(p.answers[i], column) = TotalOf(p.answers[j], column)
=============================================================================
