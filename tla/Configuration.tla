---------------------------- MODULE Configuration ----------------------------
(***************************************************************************)
(* The configuration from file to running gateway: the types of            *)
(* crates/drgtw-config/src/lib.rs and their loading, the editing, checking *)
(* and writing of edit.rs, the pages of the operator UI that change it     *)
(* (crates/drgtw-ui/src/pages/config.rs, mcp.rs, webhooks.rs), and what a  *)
(* reload (crates/drgtw-proxy/src/reload.rs) and a start (state.rs) make   *)
(* of it.                                                                  *)
(*                                                                         *)
(* A document has scalars, each an item <<type, text>>, and lists.  A text *)
(* is a class: "" is empty, "0" and "7" are integers, "0.5" a number, "url"*)
(* an http(s) URL, "hex" 64 hex digits, "(" no regular expression, "ctl"   *)
(* has a control character; "${V}" is a reference, "url${V}" a URL with one*)
(* inside.  A configuration is a document whose references are resolved.   *)
(* Overlapping edits are HotReload.tla's: here one is at work at a time.   *)
(***************************************************************************)
EXTENDS Integers, SequencesExt, FiniteSetsExt

CONSTANTS FirstFile,    \* the file the operator starts with
          Typed,        \* texts an operator types, for each scalar
          Written,      \* [list |-> values] an operator writes
          Environments, \* what V stands for: "unset" or a text
          MaxEdits,     \* bound: edits of the file
          MaxSeconds    \* bound: clock

\* The value of a variable is not looked at for references again.
ASSUME ConfigurationAssumption == MaxEdits \in Nat /\ MaxSeconds \in Nat /\ "url${V}" \notin Environments
-----------------------------------------------------------------------------
(* The scalars *)

Field(type, rule, default) == [type |-> type, rule |-> rule, default |-> default]
Required == "required"
Absent == "absent"

ServerFields ==
    [bind_addr |-> Field("addr", "any", "addr"),
     max_body_bytes |-> Field("nat", "positive", "7"),
     status_token |-> Field("string", "any", Absent)]
PiiFields ==
    [enabled_by_default |-> Field("bool", "any", "true"),
     embeddings_require_vault |-> Field("bool", "any", "false"),
     embeddings_disable_pii |-> Field("bool", "any", "false"),
     require_ner |-> Field("bool", "any", "false")]
NerFields ==
    [model_dir |-> Field("string", "nonempty", Required),
     score_threshold |-> Field("float", "ratio", "0.5"),
     timeout_ms |-> Field("nat", "positive", "7"),
     workers |-> Field("nat", "positive", "7"),
     queue_capacity |-> Field("nat", "positive", "7")]
VaultFields ==
    [path |-> Field("string", "nonempty", Required),
     key |-> Field("string", "hex", Required)]
EventsFields ==
    [url |-> Field("string", "url", Required),
     auth_bearer |-> Field("string", "any", Absent),
     buffer_size |-> Field("nat", "positive", "7"),
     timeout_ms |-> Field("nat", "positive", "7"),
     signing_secret |-> Field("string", "any", Absent)]
TracingFields ==
    [enabled |-> Field("bool", "any", "true"),
     dir |-> Field("string", "any", "word"),
     retention_days |-> Field("nat", "any", "7"),
     rotate_max_bytes |-> Field("nat", "any", "7")]
OtelFields ==
    [enabled |-> Field("bool", "any", "false"),
     endpoint |-> Field("string", "url", "url"),
     sample_ratio |-> Field("float", "ratio", "1"),
     export_interval_ms |-> Field("nat", "positive", "7")]
HistoryFields == [postgres_url |-> Field("string", "nonempty", Required)]
AuthFields ==
    [username |-> Field("string", "nonempty", Required),
     password_hash |-> Field("string", "argon", Required),
     session_key |-> Field("string", "nonempty", Required)]
Tables ==
    [server |-> ServerFields, pii |-> PiiFields, ner |-> NerFields, vault |-> VaultFields, events |-> EventsFields,
     tracing |-> TracingFields, otel |-> OtelFields, history |-> HistoryFields, auth |-> AuthFields]

\* A scalar is named by its section and its field.
PathsOf(section) == {section} \X DOMAIN Tables[section]
Fields == [p \in UNION {PathsOf(section) : section \in DOMAIN Tables} |-> Tables[p[1]][p[2]]]
Optional == {"ner", "vault", "events", "history", "auth"}

Put(f, key, value) == [k \in DOMAIN f \cup {key} |-> IF k = key THEN value ELSE f[k]]
Drop(f, key) == [k \in DOMAIN f \ {key} |-> f[k]]

Present(doc, section) == \E p \in DOMAIN doc.fields : p[1] = section
Value(doc, path) == IF path \in DOMAIN doc.fields THEN doc.fields[path][2] ELSE Fields[path].default

\* serde: an integer does for a number.
Fits(type, item) ==
    CASE type = "nat" -> item[1] = "int" /\ item[2] # "-1"
      [] type = "float" -> item[1] \in {"int", "float"}
      [] type = "addr" -> item = <<"string", "addr">>
      [] OTHER -> item[1] = type
\* infer_value
Infer(text) ==
    <<CASE text \in {"true", "false"} -> "bool" [] text \in {"0", "1", "7", "-1"} -> "int"
        [] text = "0.5" -> "float" [] OTHER -> "string", text>>

\* What a TOML file holds, and what of it has a field here.
Lists == {"connections", "virtual_keys", "mcp_servers", "guardrails", "custom_recognizers", "entities",
          "scan_roles", "unknown"}
ConnectionTexts == {"api_key", "base_url", "region", "id", "secret", "token"}
ConnectionParts == ConnectionTexts \cup {"name", "format", "models", "costs"}
ServerParts == {"url", "auth_type", "auth_value", "extra_headers"}
IsDocument(doc) ==
    /\ DOMAIN doc = {"fields"} \cup Lists
    /\ \A p \in DOMAIN doc.fields :
          p \in DOMAIN Fields /\ doc.fields[p] \in {Infer(doc.fields[p][2]), <<"string", doc.fields[p][2]>>}
    /\ \A c \in Range(doc.connections) : ConnectionParts \subseteq DOMAIN c
    /\ \A name \in DOMAIN doc.mcp_servers : ServerParts \subseteq DOMAIN doc.mcp_servers[name]
ASSUME DocumentAssumption ==
    /\ IsDocument(FirstFile) /\ {"connections", "virtual_keys"} \subseteq DOMAIN Written
    /\ \A list \in DOMAIN Written : \A w \in Written[list] :
          list \in Lists /\ IsDocument([FirstFile EXCEPT ![list] = w])

Parses(doc) ==
    /\ \A p \in DOMAIN doc.fields : Fits(Fields[p].type, doc.fields[p])
    /\ \A p \in DOMAIN Fields :
          Fields[p].default = Required /\ Present(doc, p[1]) => p \in DOMAIN doc.fields
-----------------------------------------------------------------------------
(* validate_inner *)

IsReference(text) == text = "${V}"
IsUrl(text) == text \in {"url", "url${V}"}
Meets(rule, text) ==
    CASE rule = "positive" -> text # "0"
      [] rule = "nonempty" -> text # ""
      [] rule = "url" -> IsUrl(text)
      [] rule = "ratio" -> text \in {"0", "1", "0.5"}
      [] rule = "hex" -> text = "hex"
      [] rule = "argon" -> text = "argon"
      [] OTHER -> TRUE

\* A reference stands for a secret only where UI mode says so.
Skipped(path, text, uiMode) ==
    uiMode /\ IsReference(text) /\ path \in {<<"vault", "key">>, <<"auth", "session_key">>}
FieldsValid(doc, uiMode) ==
    \A p \in DOMAIN doc.fields :
        LET text == Value(doc, p)
            off == \/ p[1] \in Optional /\ ~Present(doc, p[1])
                   \/ p[1] = "otel" /\ Value(doc, <<"otel", "enabled">>) # "true"
        IN off \/ text = Absent \/ Skipped(p, text, uiMode) \/ Meets(Fields[p].rule, text)

ASSUME DefaultsValid ==
    \A p \in DOMAIN Fields : Fields[p].default \in {Absent, Required} \/ Meets(Fields[p].rule, Fields[p].default)

Unique(list, Name(_)) == \A i, j \in DOMAIN list : Name(list[i]) = Name(list[j]) => i = j
PatternValid(pattern) == pattern \notin {"", "*m", "m**"}
Names(list) == {list[i].name : i \in DOMAIN list}

ConnectionsValid(doc) ==
    /\ Unique(doc.connections, LAMBDA c : c.name)
    /\ \A c \in Range(doc.connections) :
          LET signed == c.id # "" /\ c.secret # ""
          IN /\ c.name # "" /\ IsUrl(c.base_url)
             /\ c.id # "" <=> c.secret # ""
             /\ c.token # "" => signed
             /\ signed => c.region # ""
             /\ c.api_key = "" => signed /\ c.format = "bedrock_converse"
             /\ Unique(c.models, LAMBDA m : m)
             /\ \A m \in Range(c.models) \cup {cost[1] : cost \in c.costs} : PatternValid(m)
             /\ \A cost \in c.costs : cost[2] # "-1"

KeysValid(doc) ==
    /\ Unique(doc.virtual_keys, LAMBDA k : k.key)
    /\ \A k \in Range(doc.virtual_keys) :
          /\ k.key # "masked"
          /\ k.connections # {} /\ k.connections \subseteq Names(doc.connections)
          /\ \A ms \in k.models : ms # {} /\ \A m \in ms : PatternValid(m)
          /\ "0" \notin UNION {Range(l) : l \in k.rate_limit \cup k.budget}
          /\ \A servers \in k.mcp_servers : servers # {} /\ servers \subseteq DOMAIN doc.mcp_servers

RecognizersValid(doc) ==
    /\ Unique(doc.custom_recognizers, LAMBDA r : r.name)
    /\ \A r \in Range(doc.custom_recognizers) : r.name \notin {"", "a b"} /\ r.pattern # ""

KnownEntities == {"PERSON", "EMAIL"}
EntitiesValid(doc) ==
    \A es \in doc.entities : es # {} /\ es \subseteq KnownEntities \cup Names(doc.custom_recognizers)

NerValid(doc) ==
    /\ Value(doc, <<"pii", "require_ner">>) = "true" => Present(doc, "ner")
    /\ \A roles \in doc.scan_roles : roles # {} /\ "" \notin roles

GuardrailsValid(doc) ==
    /\ Unique(doc.guardrails, LAMBDA r : r.name)
    /\ \A r \in Range(doc.guardrails) :
          /\ r.name # ""
          /\ IF r.kind = "contact_info" THEN r.entities \subseteq KnownEntities ELSE "" \notin r.patterns

McpServersValid(doc) ==
    \A name \in DOMAIN doc.mcp_servers :
        LET s == doc.mcp_servers[name]
        IN /\ name \notin {"", "a b"} /\ IsUrl(s.url)
           /\ IF s.auth_type = "none" THEN s.auth_value = {} ELSE s.auth_value \notin {{}, {""}}
           /\ s.auth_value # {"ctl"}
           /\ \A h \in s.extra_headers : h[1] \notin {"", "a b"} /\ h[2] # "ctl"

Valid(doc, uiMode) ==
    /\ FieldsValid(doc, uiMode) /\ ConnectionsValid(doc) /\ KeysValid(doc)
    /\ RecognizersValid(doc) /\ EntitiesValid(doc) /\ NerValid(doc)
    /\ GuardrailsValid(doc) /\ McpServersValid(doc)

\* validate_str
Accepted(doc) == Parses(doc) /\ Valid(doc, TRUE)
-----------------------------------------------------------------------------
(* load_strict *)

ResolvedFields == {<<"server", "status_token">>, <<"ner", "model_dir">>, <<"vault", "path">>,
                   <<"vault", "key">>, <<"events", "url">>, <<"events", "auth_bearer">>,
                   <<"history", "postgres_url">>, <<"auth", "session_key">>}

\* resolve_env_vars
Resolved(text, env) == CASE IsReference(text) -> env [] text = "url${V}" -> "url" [] OTHER -> text
Refers(text) == text \in {"${V}", "url${V}"}

ResolveFields(doc, env) ==
    [p \in DOMAIN doc.fields |->
        IF p \in ResolvedFields THEN <<doc.fields[p][1], Resolved(doc.fields[p][2], env)>>
        ELSE doc.fields[p]]
ResolveConnection(c, env) ==
    [f \in DOMAIN c |-> IF f \in ConnectionTexts THEN Resolved(c[f], env) ELSE c[f]]
ResolveServer(s, env) ==
    [s EXCEPT !.url = Resolved(@, env), !.auth_value = {Resolved(v, env) : v \in @},
              !.extra_headers = {<<h[1], Resolved(h[2], env)>> : h \in @}]
Resolve(doc, env) ==
    [doc EXCEPT !.fields = ResolveFields(doc, env),
                !.connections = [i \in DOMAIN @ |-> ResolveConnection(@[i], env)],
                !.mcp_servers = [n \in DOMAIN @ |-> ResolveServer(@[n], env)]]
References(doc) ==
    {doc.fields[p][2] : p \in DOMAIN doc.fields \cap ResolvedFields}
    \cup UNION {{c[f] : f \in ConnectionTexts} : c \in Range(doc.connections)}
    \cup UNION {{s.url} \cup s.auth_value \cup {h[2] : h \in s.extra_headers} : s \in Range(doc.mcp_servers)}

\* The configuration, or nothing.
Load(doc, env, strict) ==
    LET config == Resolve(doc, env)
    IN IF /\ Parses(doc) /\ (strict => ~doc.unknown)
          /\ env = "unset" => \A text \in References(doc) : ~Refers(text)
          /\ Value(config, <<"server", "status_token">>) # ""
          /\ Valid(config, FALSE)
       THEN {config} ELSE {}
-----------------------------------------------------------------------------
(* What the gateway builds *)

\* build_live: patterns compile and the model is there.
Builds(config) ==
    /\ \A r \in Range(config.custom_recognizers) : r.pattern # "("
    /\ \A r \in Range(config.guardrails) : "(" \notin r.patterns
    /\ Present(config, "ner") => Value(config, <<"ner", "model_dir">>) = "model"

\* check_embeddings_vault_posture
PostureHolds(config) ==
    \/ Value(config, <<"pii", "embeddings_disable_pii">>) = "true"
    \/ Present(config, "vault")
    \/ Value(config, <<"pii", "embeddings_require_vault">>) = "false"

\* The event sink: a start opens it, a reload leaves it.
SinkOf(config) ==
    IF Present(config, "events") THEN {[p \in PathsOf("events") |-> Value(config, p)]} ELSE {}

\* Why a start fails: nothing, or one of these.
StartFails(doc, env, strict, vaultOpens) ==
    LET config == Load(doc, env, strict)
    IN IF config = {} THEN (IF Load(doc, env, FALSE) = {} THEN "load" ELSE "unknown keys")
       ELSE IF ~Builds(CHOOSE c \in config : TRUE) THEN "build"
       ELSE IF \E c \in config : Present(c, "vault") /\ ~vaultOpens THEN "vault"
       ELSE IF \E c \in config : ~PostureHolds(c) THEN "posture" ELSE "no"
-----------------------------------------------------------------------------
(* restart_required_changes *)

SameFields(a, b, paths) == \A p \in paths : Value(a, p) = Value(b, p)
SameSection(a, b, section) ==
    /\ section \in Optional => (Present(a, section) <=> Present(b, section))
    /\ SameFields(a, b, PathsOf(section))
\* What configs_virtual_keys_eq compares of a key.
Compared(list) == [i \in DOMAIN list |-> [list[i] EXCEPT !.mcp_servers = {}]]

RestartRequired(old, new) ==
    {s \in {"server", "connections", "virtual_keys", "pii", "vault", "mcp_servers", "guardrails"} :
        ~CASE s = "server" -> SameFields(old, new, PathsOf("server") \ {<<"server", "status_token">>})
           [] s = "connections" -> old.connections = new.connections
           [] s = "virtual_keys" -> Compared(old.virtual_keys) = Compared(new.virtual_keys)
           [] s = "pii" -> /\ SameSection(old, new, "pii") /\ SameSection(old, new, "ner")
                           /\ old.custom_recognizers = new.custom_recognizers
                           /\ old.entities = new.entities /\ old.scan_roles = new.scan_roles
           [] s = "vault" -> SameSection(old, new, "vault")
           [] s = "mcp_servers" -> old.mcp_servers = new.mcp_servers
           [] OTHER -> old.guardrails = new.guardrails}

\* What a page can make differ; but not the MCP servers of a key or the status
\* token, which restart_required_changes does not compare.
Sections == {"server", "pii", "connections", "virtual_keys", "mcp_servers", "guardrails"}
Differs(a, b, section) ==
    CASE section = "virtual_keys" -> Compared(a.virtual_keys) # Compared(b.virtual_keys)
      [] section \in {"connections", "mcp_servers", "guardrails"} -> a[section] # b[section]
      [] section \in {"server", "pii"} -> ~SameFields(a, b, PathsOf(section) \ {<<"server", "status_token">>})
-----------------------------------------------------------------------------
VARIABLES file,      \* on disk
          backups,   \* by the second in their name
          second,    \* the clock
          env,       \* the environment of the gateway
          up,
          boot,      \* UiState::config
          liveConfig,      \* Live::config
          sink,      \* what the event sink posts with
          job,       \* the edit at work
          edits,
          applied, told, unloaded, replaced, copies  \* observe the run
configVars == <<file, backups, second, env, up, boot, liveConfig, sink, job, edits,
                applied, told, unloaded, replaced, copies>>
gatewayState == <<env, up, boot, liveConfig, sink>>
observed == <<applied, told, unloaded, replaced, copies>>

NoJob == [phase |-> "none"]
ConfigInit ==
    /\ file = FirstFile /\ backups = <<>> /\ second = 0
    /\ env = "unset"
    /\ up = FALSE /\ boot = FirstFile /\ liveConfig = FirstFile /\ sink = {}
    /\ job = NoJob /\ edits = 0
    /\ applied = {} /\ told = {} /\ unloaded = {} /\ replaced = {} /\ copies = {}

Second ==
    /\ second < MaxSeconds /\ copies # {}
    /\ second' = second + 1
    /\ UNCHANGED <<file, backups, gatewayState, job, edits, observed>>

\* An operator with an editor.
EditByHand ==
    /\ ~up /\ edits < MaxEdits
    /\ edits' = edits + 1
    /\ \/ \E p \in DOMAIN Fields : \E text \in Typed[Fields[p].type] :
          \E item \in {Infer(text), <<"string", text>>} :
             /\ Fits(Fields[p].type, item)
             /\ file' = [file EXCEPT !.fields = Put(@, p, item)]
       \/ \E p \in DOMAIN file.fields :
             file' = [file EXCEPT !.fields = Drop(@, p)]
       \/ \E list \in DOMAIN Written : \E w \in Written[list] : file' = [file EXCEPT ![list] = w]
    /\ UNCHANGED <<backups, second, gatewayState, job, observed>>

\* load_strict, then ProxyState::build.
StartGateway(e, s, opens) ==
    /\ ~up
    /\ env' = e
    /\ StartFails(file, e, s, opens) = "no"
    /\ up' = TRUE
    /\ \E config \in Load(file, e, s) :
          boot' = config /\ liveConfig' = config /\ sink' = SinkOf(config)
    /\ applied' = {file} /\ told' = {} /\ unloaded' = {}
    /\ UNCHANGED <<file, backups, second, job, edits, replaced, copies>>

\* At any time, in the middle of an edit, too: what was in memory is gone.
Stop ==
    /\ up
    /\ up' = FALSE /\ job' = NoJob
    /\ env' = "unset" /\ boot' = FirstFile /\ liveConfig' = FirstFile /\ sink' = {}
    /\ applied' = {} /\ told' = {} /\ unloaded' = {}
    /\ UNCHANGED <<file, backups, second, edits, replaced, copies>>
-----------------------------------------------------------------------------
(* The pages *)

\* Mutant: what was an integer is stored as a text.
CoerceToText(item, text) ==
    IF item[1] # "bool" THEN {<<"string", text>>} ELSE {Infer(text)} \cap {<<"bool", text>>}

\* coerce_value
Coerce(item, text) ==
    IF item[1] \in {"bool", "int"} THEN {Infer(text)} \cap {<<item[1], text>>} ELSE {<<"string", text>>}

\* set_value of a path of two segments: the item, or an error.
SetValue(doc, path, text) ==
    IF path \in DOMAIN doc.fields THEN Coerce(doc.fields[path], text) ELSE {Infer(text)}

\* The fields a section's form has, with what it shows of them: of the
\* configuration the gateway was started with, literal secrets masked.
FormFields == {<<"server", "bind_addr">>, <<"server", "max_body_bytes">>, <<"pii", "enabled_by_default">>,
               <<"events", "url">>, <<"events", "auth_bearer">>, <<"events", "buffer_size">>,
               <<"events", "timeout_ms">>} \cup PathsOf("tracing") \cup PathsOf("otel")
Sentinel == "sentinel"
Shown(path) ==
    IF path = <<"events", "auth_bearer">> /\ ~Refers(Value(boot, path)) THEN Sentinel ELSE Value(boot, path)
Form(section) == {p \in FormFields : p[1] = section}

\* apply_scalar_fields
ApplyScalarFields(doc, form) ==
    LET typed == {p \in DOMAIN form : form[p] # Sentinel}
    IN IF \E p \in typed : SetValue(doc, p, form[p]) = {} THEN {}
       ELSE {[doc EXCEPT !.fields =
                 [p \in typed \cup DOMAIN @ |->
                    IF p \in typed THEN CHOOSE item \in SetValue(doc, p, form[p]) : TRUE ELSE @[p]]]}

\* The document is checked, or the page has an error.
Edit(docs, how) ==
    /\ up /\ job = NoJob /\ edits < MaxEdits
    /\ edits' = edits + 1
    /\ \E doc \in {d \in docs : Accepted(d)} :
          job' = [phase |-> "copy", doc |-> doc, how |-> how, at |-> second]
    /\ UNCHANGED <<file, backups, second, gatewayState, observed>>

\* config_save of a form, one field changed by the operator.
SaveForm(section, path, text) ==
    /\ section = "events" => Present(boot, "events")
    /\ path[1] = section
    /\ Edit(ApplyScalarFields(file, [p \in Form(section) |-> IF p = path THEN text ELSE Shown(p)]), "save")

\* config_save of a textarea.
SaveText(list, value) == Edit({[file EXCEPT ![list] = value]}, "save")

\* webhooks_rotate: an empty secret clears it.
Rotate(secret) ==
    LET path == <<"events", "signing_secret">>
        doc == IF secret = "" THEN [file EXCEPT !.fields = Drop(@, path)]
               ELSE [file EXCEPT !.fields = Put(@, path, <<"string", secret>>)]
    IN Edit({doc}, "apply")

\* mcp_save: a blank value keeps the one there was.
SaveServer(name, url, type, value) ==
    LET old == IF name \in DOMAIN file.mcp_servers THEN file.mcp_servers[name]
               ELSE [url |-> url, auth_type |-> type, auth_value |-> {}, extra_headers |-> {}]
        kept == IF type = "none" THEN {} ELSE old.auth_value
        new == [old EXCEPT !.url = url, !.auth_type = type,
                           !.auth_value = IF value # "" THEN {value} ELSE kept]
    IN url # "" /\ name # "" /\ Edit({[file EXCEPT !.mcp_servers = Put(@, name, new)]}, "apply")

\* mcp_delete
DeleteServer(name) ==
    Edit({[file EXCEPT !.mcp_servers = Drop(@, name)]}, "apply")

\* The key pages: HotReload.tla has them in detail.
ApplyKeys(value) == Edit({[file EXCEPT !.virtual_keys = value]}, "apply")
-----------------------------------------------------------------------------
(* write_safe and Reloader::apply *)

\* Mutant: one backup.
OneBackup == 0

BackupName == job.at
BackedUp(copy) ==
    [at \in {BackupName} \cup DOMAIN backups |-> IF at = BackupName THEN copy ELSE backups[at]]

\* The backup may fail half way.
CopyBackup ==
    /\ job.phase = "copy"
    /\ \/ /\ backups' = BackedUp({file})
          /\ copies' = copies \cup {<<{file}, job.at>>}
          /\ job' = [job EXCEPT !.phase = "replace"]
       \/ /\ backups' = BackedUp({})
          /\ copies' = copies \cup {<<{}, job.at>>}
          /\ job' = NoJob
    /\ UNCHANGED <<file, second, gatewayState, edits, applied, told, unloaded, replaced>>

\* Mutant: compared with the configuration of the start.
BootConfig == boot

\* What the save compares the new document with.
OldConfig == IF Accepted(file) THEN file ELSE boot

\* The temporary file is renamed, or anything before that fails.
ReplaceFile ==
    /\ job.phase = "replace"
    /\ \/ /\ file' = job.doc
          /\ replaced' = replaced \cup {<<file, job.at>>}
          /\ IF job.how = "save"
             THEN /\ told' = told \cup RestartRequired(OldConfig, job.doc)
                  /\ job' = NoJob
                  /\ UNCHANGED unloaded
             ELSE /\ unloaded' = unloaded \cup {s \in Sections : Differs(file, job.doc, s)}
                  /\ job' = [job EXCEPT !.phase = "load"]
                  /\ UNCHANGED told
       \/ job' = NoJob /\ UNCHANGED <<file, replaced, told, unloaded>>
    /\ UNCHANGED <<backups, second, gatewayState, edits, applied, copies>>

\* Mutant: the document is applied as it was checked.
LoadNot(doc) == {doc}

LoadAgain(doc) == Load(doc, env, FALSE)

\* Load, build and swap, or an error.
ReloadConfig ==
    /\ job.phase = "load"
    /\ job' = NoJob
    /\ IF \E config \in LoadAgain(file) : Builds(config)
       THEN /\ liveConfig' = CHOOSE config \in LoadAgain(file) : TRUE
            /\ applied' = {file} /\ told' = {} /\ unloaded' = {}
       ELSE UNCHANGED <<liveConfig, applied, told, unloaded>>
    /\ UNCHANGED <<file, backups, second, env, up, boot, sink, edits, replaced, copies>>

\* One page, one field or list of it.
PageEdit ==
    /\ up /\ job = NoJob /\ edits < MaxEdits
    /\ \/ \E p \in FormFields : \E text \in Typed[Fields[p].type] : SaveForm(p[1], p, text)
       \/ \E list \in {"connections", "virtual_keys"} : \E w \in Written[list] : SaveText(list, w)
       \/ \E w \in Written["virtual_keys"] : ApplyKeys(w)
       \/ \E secret \in Typed["string"] : Rotate(secret)
       \/ \E name \in {"m", "a b"}, url \in {"url", "url${V}", "word"}, type \in {"none", "bearer"},
             value \in {"", "word", "${V}"} : SaveServer(name, url, type, value)
       \/ \E name \in DOMAIN file.mcp_servers : DeleteServer(name)

ConfigNext ==
    \/ Second \/ EditByHand \/ Stop \/ CopyBackup \/ ReplaceFile \/ ReloadConfig
    \/ \E e \in Environments, s \in BOOLEAN, opens \in BOOLEAN : StartGateway(e, s, opens)
    \/ PageEdit

ConfigSpec == ConfigInit /\ [][ConfigNext]_configVars
-----------------------------------------------------------------------------
\* What a running gateway was started with or applied last starts it again, with
\* the same environment, whatever the pages did to it: but for unknown keys when
\* the operator asks to be strict, and for the vault and what embeddings need of
\* it, which a reload does not look at.
StartsAgain ==
    up /\ file \in applied =>
        \A s, opens \in BOOLEAN :
            LET why == StartFails(file, env, s, opens)
            IN \/ why = "no"
               \/ why = "unknown keys" /\ s /\ file.unknown
               \/ why = "vault" /\ ~opens
               \/ why = "posture" /\ (liveConfig # boot)

BareUrl(doc) ==
    \/ Value(doc, <<"events", "url">>) = "${V}"
    \/ \E c \in Range(doc.connections) : c.base_url = "${V}"
    \/ \E s \in Range(doc.mcp_servers) : s.url = "${V}"

\* Right after a start, a form saved as it is shown is accepted and means the same
\* configuration, although it stores what the gateway resolved and defaulted;
\* unless it holds a fractional number, which set_value stores as a text, or the
\* file has a URL that is a reference, which only a start resolves, or the variable
\* is empty, so that what refers to it is checked as a text and started as none.
UnchangedSaveHarmless ==
    up /\ job = NoJob /\ env # "" /\ Load(file, env, FALSE) = {boot} /\ ~BareUrl(file) =>
        \A section \in {p[1] : p \in FormFields} :
            \/ section = "events" /\ ~Present(boot, "events")
            \/ \E p \in Form(section) \cap DOMAIN file.fields : file.fields[p][1] = "float"
            \/ \E doc \in ApplyScalarFields(file, [p \in Form(section) |-> Shown(p)]) :
                  /\ Accepted(doc)
                  /\ \E config \in Load(doc, env, FALSE) :
                        /\ \A p \in DOMAIN doc.fields \cup DOMAIN boot.fields : Value(config, p) = Value(boot, p)
                        /\ [config EXCEPT !.fields = boot.fields] = boot

\* When the file is not what the gateway runs with, the page that made it so has
\* named the section: whatever was saved and applied before it, in whatever order.
\* Or a page wrote it to be applied, and nothing was since: the reload failed, of
\* which a key page tells (keys.rs:804), but no other one (mcp.rs:300, webhooks.rs:337),
\* and a later save that mends the file does not name it.
SavedIsTold ==
    up /\ job = NoJob =>
        \A config \in Load(file, env, FALSE) : \A section \in Sections :
            Differs(liveConfig, config, section) => section \in told \cup unloaded

\* A save does what it shows, and tells what waits for a restart.
SavesAsShown == UnchangedSaveHarmless /\ SavedIsTold

\* The document that a page replaced is in its backup, unless another backup of
\* the same second took its place.
DocumentsKept ==
    \A r \in replaced :
        \/ r[2] \in DOMAIN backups /\ backups[r[2]] = {r[1]}
        \/ \E c \in copies : c[2] = r[2] /\ c[1] # {r[1]}
=============================================================================
