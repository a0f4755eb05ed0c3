----------------------------- MODULE ModelAccess -----------------------------
(***************************************************************************)
(* Which models a key may use and which it is shown: ResolvedKey of        *)
(* crates/drgtw-keys/src/lib.rs and list_models of                         *)
(* crates/drgtw-proxy/src/handlers.rs.                                     *)
(*                                                                         *)
(* Names are sequences of letters; a pattern that ends in `*' is its       *)
(* prefix and the mark.                                                    *)
(***************************************************************************)
EXTENDS ProxyRequest

CONSTANTS Keys,    \* keys as they authenticate
          Models   \* names that clients ask for

Pattern == [prefix : Seq(STRING), star : BOOLEAN]
Exactly(name) == [prefix |-> name, star |-> FALSE]
AnyModel == [prefix |-> <<>>, star |-> TRUE]

\* What a key gives access to; none or one allowlist.
Key == [connections : Seq([name : STRING, format : Formats, models : Seq(Pattern)]),
        allowlist : Option(Seq(Pattern))]

ASSUME AccessAssumption == Keys \subseteq Key /\ Models \subseteq Seq(STRING)

\* pattern_matches
Matches(p, name) == IF p.star THEN IsPrefix(p.prefix, name) ELSE p.prefix = name

\* A connection of the key from the one model asked for, as Routing has it.
Seen(c, model) ==
    LET prefixes == {Len(p.prefix) : p \in {q \in Range(c.models) : q.star /\ Matches(q, model)}}
    IN [name |-> c.name, format |-> c.format, exact |-> Exactly(model) \in Range(c.models),
        prefix |-> IF prefixes = {} THEN {} ELSE {CHOOSE n \in prefixes : \A k \in prefixes : k <= n}]

Allows(key, model) == \A list \in key.allowlist : \E p \in Range(list) : Matches(p, model)

\* connections_for_model with the allowlist: none is an error.
ServedBy(key, model) ==
    IF Allows(key, model)
    THEN ConnectionsForModel([i \in DOMAIN key.connections |-> Seen(key.connections[i], model)])
    ELSE <<>>

\* The first of equals.
Distinct(list) ==
    LET upTo[n \in 0 .. Len(list)] ==
            IF n = 0 THEN <<>>
            ELSE LET before == upTo[n - 1]
                 IN IF list[n] \in Range(before) THEN before ELSE Append(before, list[n])
    IN upTo[Len(list)]

\* Mutant: every name of a connection is listed.
PermittedAll(key, p) == p.star => \A list \in key.allowlist : {p, AnyModel} \cap Range(list) # {}

\* A pattern of a connection passes if the allowlist has it, or `*'; a name if the
\* allowlist allows it.
Permitted(key, p) ==
    \A list \in key.allowlist :
        IF p.star THEN {p, AnyModel} \cap Range(list) # {} ELSE \E q \in Range(list) : Matches(q, p.prefix)

\* allowed_models: names, patterns of the connections, patterns of the allowlist.
AllowedModels(key) ==
    LET patterns == FlattenSeq([i \in DOMAIN key.connections |-> key.connections[i].models])
        own == IF key.allowlist = {} THEN <<>> ELSE The(key.allowlist)
        permitted(star) == Select(patterns, {p \in Range(patterns) : p.star = star /\ Permitted(key, p)})
    IN Distinct(permitted(FALSE) \o permitted(TRUE) \o Select(own, {p \in Range(own) : p.star}))

VARIABLE theKey
AccessInit == theKey \in Keys

\* What GET /v1/models shows can be used, once each: every name, and every name
\* under a pattern of a connection; and no name of a connection that can be used
\* is missing.  What is only under an allowlist's own pattern need not be served.
ModelsListedServed ==
    LET listed == AllowedModels(theKey)
        ofConnection(p) == \E c \in Range(theKey.connections) : p \in Range(c.models)
        served(model) == ServedBy(theKey, model) # <<>>
    IN /\ \A i, j \in DOMAIN listed : listed[i] = listed[j] => i = j
       /\ \A p \in Range(listed) : ~p.star => served(p.prefix)
       /\ \A p \in Range(listed), model \in Models : ofConnection(p) /\ Matches(p, model) => served(model)
       /\ \A model \in Models :
             ofConnection(Exactly(model)) /\ served(model) => Exactly(model) \in Range(listed)

\* A key's clients see the models that they can use; and a request for one goes to
\* the connections that serve it in the order of the configuration.
RoutingKept == ModelsListedServed /\ PreferenceKept

\* A request while the gateway runs, and what the key of it may use.
AccessSpec == Spec /\ AccessInit /\ [][UNCHANGED theKey]_theKey
=============================================================================
