------------------------------- MODULE KeyForm -------------------------------
(***************************************************************************)
(* The form of a virtual key (drgtw-ui pages/keys.rs): what the page puts  *)
(* in its fields, what the browser submits, what the handler makes of it   *)
(* and the entry of the configuration that results.  Which key of the      *)
(* document an edit lands on is HotReload's; here one key is edited, or a  *)
(* new one made, while the configuration is reloaded under the open form.  *)
(*                                                                         *)
(* A name list is a sequence, an optional one a set of at most one         *)
(* sequence; the boxes ticked are a set of names, and a number field is    *)
(* the set of the numbers in it.                                           *)
(***************************************************************************)
EXTENDS Integers, SequencesExt

CONSTANTS ConnNames, ServerNames, \* connections and MCP servers at first, in order
          ModelNames,
          PrefixedKeys,           \* texts that begin with sk-drgtw-
          FirstShown,             \* the key first edited
          FormNumbers, LargestU32,
          MaxTouched              \* bound on the fields changed in one form

AtMostOne(S) == \A a, b \in S : a = b

ASSUME KeyFormAssumption ==
    /\ MaxTouched \in Nat /\ LargestU32 \in Nat
    /\ ConnNames \in Seq(ToSet(ConnNames)) /\ ServerNames \in Seq(ToSet(ServerNames))
    /\ \A part \in {"models", "mcp_servers", "rate_limit", "budget"} : AtMostOne(FirstShown[part])

VARIABLES conns, servers, \* names in the live configuration
          shownKey,       \* the key in the live configuration
          draft,          \* the open form: none, or its kind, boxes, fields, changes
          keySaved        \* the form just saved: none, or its fields and the key it made
formVars == <<conns, servers, shownKey, draft, keySaved>>

\* new_key_form: nothing ticked.
NewForm == [kind |-> "new", touched |-> 0, boxes |-> [connection |-> conns, mcp_server |-> servers],
            fields |-> [key |-> "", connection |-> {}, models |-> <<>>, mcp_server |-> {},
                        rl_requests |-> {}, rl_per_seconds |-> {},
                        budget_max_usd |-> {}, budget_per_seconds |-> {}]]

\* edit_key_form: a box per name of the configuration, ticked when the key has it.
EditForm ==
    LET All(lists) == UNION {ToSet(l) : l \in lists}
        Of(limits, part) == {l[part] : l \in limits}
    IN [kind |-> "edit", touched |-> 0, boxes |-> [connection |-> conns, mcp_server |-> servers],
        fields |-> [key |-> shownKey.key,
                    connection |-> ToSet(conns) \cap ToSet(shownKey.connections),
                    models |-> IF shownKey.models = {} THEN <<>> ELSE CHOOSE l \in shownKey.models : TRUE,
                    mcp_server |-> ToSet(servers) \cap All(shownKey.mcp_servers),
                    rl_requests |-> Of(shownKey.rate_limit, 1),
                    rl_per_seconds |-> Of(shownKey.rate_limit, 2),
                    budget_max_usd |-> Of(shownKey.budget, 1),
                    budget_per_seconds |-> Of(shownKey.budget, 2)]]

\* The lines of the entry: the lists first, then the limits as inline tables.
\* A line after the header of a sub-table would belong to that table.
Line(field, value) == [header |-> FALSE, field |-> field, value |-> value]

EntrySubTables(key, lists, limits) == \* mutant: the limits as sub-tables, before the lists
    <<Line("key", key), Head(lists)>>
        \o [i \in DOMAIN limits |-> [limits[i] EXCEPT !.header = TRUE]] \o Tail(lists)

EntryLines(key, lists, limits) == <<Line("key", key)>> \o lists \o limits

\* The virtual key the document's reader makes of the lines.
ReadEntry(lines) ==
    LET own == {i \in DOMAIN lines : lines[i].header \/ \A j \in 1 .. i : ~lines[j].header}
        At(field) == {lines[i].value : i \in {j \in own : lines[j].field = field}}
    IN [key |-> CHOOSE k \in At("key") : TRUE,
        connections |-> CHOOSE l \in At("connections") : TRUE,
        models |-> At("models"), mcp_servers |-> At("mcp_servers"),
        rate_limit |-> At("rate_limit"), budget |-> At("budget"),
        allow_pii_bypass |-> FALSE] \* the form has no field for it

\* The two numbers of a limit: none unless both are read and positive.  Only the
\* money of a budget is read as a float.
ReadU32(numbers) == {n \in numbers : n <= LargestU32}
RateNumbers(f) == <<ReadU32(f.rl_requests), ReadU32(f.rl_per_seconds)>>
BudgetNumbers(f) == <<f.budget_max_usd, ReadU32(f.budget_per_seconds)>>
Limit(numbers) == {p \in numbers[1] \X numbers[2] : p[1] > 0 /\ p[2] > 0}
HalfGiven(numbers) == (numbers[1] = {}) # (numbers[2] = {})

\* Form<HashMap> keeps the last value submitted under a name, and a browser submits
\* the boxes in their order: only the last one ticked arrives.
LastTicked(ticked, boxes) ==
    {boxes[i] : i \in {i \in DOMAIN boxes :
        boxes[i] \in ticked /\ \A j \in DOMAIN boxes : boxes[j] \in ticked => j <= i}}

Optional(field, values) == IF values = {} THEN <<>> ELSE <<Line(field, CHOOSE v \in values : TRUE)>>

\* build_key_from_form: none when refused.
build_key_from_form(f, boxes) ==
    LET connection == LastTicked(f.connection, boxes.connection)
        mcp == LastTicked(f.mcp_server, boxes.mcp_server)
    IN IF \/ f.key \notin PrefixedKeys
          \/ connection = {} \/ ~connection \subseteq ToSet(conns)
          \/ HalfGiven(RateNumbers(f))
          \/ HalfGiven(BudgetNumbers(f))
          \/ ~mcp \subseteq ToSet(servers)
       THEN {}
       ELSE {ReadEntry(EntryLines(f.key,
                Optional("connections", {<<c>> : c \in connection})
                    \o Optional("models", {f.models} \ {<<>>})
                    \o Optional("mcp_servers", {<<m>> : m \in mcp}),
                Optional("rate_limit", Limit(RateNumbers(f)))
                    \o Optional("budget", Limit(BudgetNumbers(f)))))}
-----------------------------------------------------------------------------
FormInit ==
    /\ conns = ConnNames /\ servers = ServerNames
    /\ shownKey = FirstShown
    /\ draft = {} /\ keySaved = {}

ShowForm ==
    /\ draft' \in {{NewForm}, {EditForm}}
    /\ keySaved' = {}
    /\ UNCHANGED <<conns, servers, shownKey>>

\* The operator ticks a box or fills a field in.
FillIn ==
    \E d \in draft :
        /\ d.touched < MaxTouched
        /\ \E field \in DOMAIN d.fields :
              \E value \in
                CASE field = "key" -> PrefixedKeys \cup {""}
                  [] field \in DOMAIN d.boxes -> SUBSET ToSet(d.boxes[field])
                  [] field = "models" -> {<<>>} \cup {<<n>> : n \in ModelNames}
                  [] OTHER -> {{}} \cup {{n} : n \in FormNumbers} :
                draft' = {[d EXCEPT !.fields[field] = value, !.touched = @ + 1]}
        /\ UNCHANGED <<conns, servers, shownKey, keySaved>>

\* keys_create, keys_update: a refused form is shown again as the key is, or blank.
SubmitForm ==
    \E d \in draft :
        /\ LET made == build_key_from_form(d.fields, d.boxes)
           IN /\ draft' = CASE made # {} -> {}
                            [] made = {} /\ d.kind = "new" -> {NewForm}
                            [] made = {} /\ d.kind = "edit" -> {EditForm}
              /\ keySaved' = IF made = {} THEN keySaved
                             ELSE {[fields |-> d.fields, key |-> CHOOSE k \in made : TRUE]}
              /\ shownKey' = IF made # {} /\ d.kind = "edit" THEN CHOOSE k \in made : TRUE ELSE shownKey
        /\ UNCHANGED <<conns, servers>>

\* A reload takes a connection or a server the key does not name away, or brings all back.
Without(names, kept) == {names} \cup {RemoveAt(names, i) : i \in {i \in DOMAIN names : names[i] \notin kept}}
ReloadNames ==
    /\ \/ conns' \in Without(ConnNames, ToSet(shownKey.connections)) /\ UNCHANGED servers
       \/ servers' \in Without(ServerNames, UNION {ToSet(l) : l \in shownKey.mcp_servers}) /\ UNCHANGED conns
    /\ UNCHANGED <<shownKey, draft, keySaved>>

FormNext == ShowForm \/ FillIn \/ SubmitForm \/ ReloadNames
FormSpec == FormInit /\ [][FormNext]_formVars
-----------------------------------------------------------------------------
GrantsNoMore(k, f) ==
    LET Named(lists) == UNION {ToSet(l) : l \in lists}
    IN /\ k.key = f.key
       /\ k.connections # <<>> /\ ToSet(k.connections) \subseteq f.connection
       /\ f.models # <<>> => k.models # {} /\ Named(k.models) \subseteq ToSet(f.models)
       /\ f.mcp_server # {} => k.mcp_servers # {} /\ Named(k.mcp_servers) \subseteq f.mcp_server
       /\ k.rate_limit = Limit(RateNumbers(f))
       /\ k.budget = Limit(BudgetNumbers(f))
       /\ ~k.allow_pii_bypass

\* A key saved from a form allows no more than the form did: only connections
\* ticked and models named, MCP servers beyond those ticked only when none was
\* (then all), a limit whose two numbers were given is there, the right to
\* bypass PII is not.  Hazard: a list written after a limit's table is read as
\* part of the table, and the key reaches every server (keys.rs:914).
FormGrantsNoMore == \A s \in keySaved : GrantsNoMore(s.key, s.fields)
=============================================================================
