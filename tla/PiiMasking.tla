----------------------------- MODULE PiiMasking -----------------------------
(***************************************************************************)
(* How the texts of a request are masked and those of its answer restored: *)
(* the engine (crates/drgtw-pii/src/engine.rs, ner_bridge.rs), the entity  *)
(* map (entity_map.rs) and the walk over a body (body.rs), as handlers.rs  *)
(* drives them, for chats, messages and embeddings.                        *)
(*                                                                         *)
(* A text is a sequence of symbols: words <<"word", w>> and placeholders   *)
(* <<kind, n>>, which a user may type, too.  A recognizer is the set of    *)
(* <<words, kind>> it finds; the last one is the NER model, which may      *)
(* fail.  The vault, when there is one, is what Vault.tla shows it to be:  *)
(* a growing one to one assignment, shared with other requests.  Streamed  *)
(* answers are StreamRestore.tla's.                                        *)
(***************************************************************************)
EXTENDS Integers, SequencesExt, FiniteSetsExt

CONSTANTS Recognizers,   \* in the order of their registration
          KindNames,
          Fields,        \* the fields of bodies: [place, role, text]
          Policies,      \* configurations: [failMode, roles, allowed, store]
          MaxNumber,     \* bound: numbers of placeholders
          MaxFields,     \* bound: fields of a body
          MaxRequests    \* bound: requests, one after the other

ASSUME MaskingAssumption == MaxNumber \in Nat \ {0} /\ MaxFields \in Nat /\ MaxRequests \in Nat

Ner == Len(Recognizers)
NoRole == "none"
Tokens == KindNames \X (1 .. MaxNumber)

\* A recognizer reports no empty text and takes no placeholder for an entity.
ASSUME RecognizerAssumption ==
    /\ "word" \notin KindNames
    /\ Recognizers \in Seq(Range(Recognizers))
    /\ \A r \in DOMAIN Recognizers : \A f \in Recognizers[r] :
          /\ f[1] \in Seq(Range(f[1])) /\ f[1] # <<>> /\ f[2] \in KindNames
          /\ Range(f[1]) \cap Tokens = {}
ASSUME FieldAssumption == \A f \in Fields : f.text \in Seq(Range(f.text))

Known == [kind : KindNames, value : UNION {{f[1] : f \in Recognizers[r]} : r \in DOMAIN Recognizers},
          token : Tokens]

VARIABLES policy,
          vaulted,  \* what the vault holds
          fields,   \* the body so far, as it came,
          masked,   \* and as it is sent
          todo,     \* detections still to be replaced in the field at hand
          cursor,   \* symbols of the field that are done
          known,    \* the EntityMap of the request
          phase, requests,
          answer, restored  \* a text of the answer, as it came and as it is given
maskVars == <<policy, vaulted, fields, masked, todo, cursor, known, phase, requests, answer, restored>>
field == <<todo, cursor>>
-----------------------------------------------------------------------------
(* The engine *)

\* body.rs rewrites these; other parts (images, tool calls) pass as they are.
Visited(f) == f.place \in {"text", "system", "tool_result", "input"}

\* ner_enabled_for_role: an unknown role is in scope.
NerEnabled(f) == f.role \in policy.roles \cup {NoRole}

Candidates(text, recognizers) ==
    UNION {{[start |-> i, end |-> i + Len(f[1]), kind |-> f[2], rec |-> r] :
               f \in Recognizers[r], i \in DOMAIN text} : r \in recognizers}
Finds(text, recognizers) ==
    {c \in Candidates(text, recognizers) :
        /\ c.end <= Len(text) + 1
        /\ <<SubSeq(text, c.start, c.end - 1), c.kind>> \in Recognizers[c.rec]}

\* Start first, the longer one first, the recognizer registered first.
Before(a, b) ==
    \/ a.start < b.start
    \/ a.start = b.start /\ a.end > b.end
    \/ a.start = b.start /\ a.end = b.end /\ a.rec < b.rec

\* The first of them; of equals, the recognizer reports one first.
FirstOf(here) == CHOOSE d \in here : \A c \in here : ~Before(c, d)

\* merge_tagged, from the left: of those that start at a position, the first one is
\* kept, if none kept before reaches beyond it.
Merge(found) ==
    LET kept[i \in 0 .. Max({0} \cup {d.start : d \in found})] ==
            LET before == IF i = 0 THEN {} ELSE kept[i - 1]
                here == {d \in found : d.start = i}
            IN IF here = {} \/ \E k \in before : k.end > i THEN before ELSE before \cup {FirstOf(here)}
    IN kept[Max({0} \cup {d.start : d \in found})]

\* try_scan_impl with filter_allowed.
Scan(text, recognizers) == {d \in Merge(Finds(text, recognizers)) : d.kind \in policy.allowed}
-----------------------------------------------------------------------------
MaskTypeOK ==
    /\ policy \in Policies
    /\ vaulted \subseteq Known /\ known \subseteq Known
    /\ fields \in Seq(Fields) /\ Len(fields) <= MaxFields
    /\ Len(masked) \in {Len(fields), Len(fields) - 1} \cup {0}
    /\ cursor \in Nat
    /\ \A d \in todo : d.start > cursor /\ d.end <= Len(Last(fields).text) + 1
    /\ \A c, d \in todo : c = d \/ c.end <= d.start \/ d.end <= c.start
    /\ phase \in {"idle", "masking", "replacing", "sent", "rejected", "answered"}
    /\ requests \in 0 .. MaxRequests

MaskInit ==
    /\ policy \in Policies
    /\ vaulted = {} /\ known = {}
    /\ fields = <<>> /\ masked = <<>> /\ todo = {} /\ cursor = 0
    /\ phase = "idle" /\ requests = 0 /\ answer = <<>> /\ restored = <<>>

\* A request with its own EntityMap.
BeginRequest ==
    /\ phase \in {"idle", "rejected", "answered"} /\ requests < MaxRequests
    /\ requests' = requests + 1
    /\ phase' = "masking"
    /\ fields' = <<>> /\ masked' = <<>> /\ known' = {} /\ answer' = <<>> /\ restored' = <<>>
    /\ UNCHANGED <<policy, vaulted, field>>

\* Mutant: the model's failure always leaves the text to the others.
ClosedIgnored == FALSE

Closed == policy.failMode = "closed"

\* The next field of the body is scanned.  A failure of the model rejects the
\* request, or leaves the text to the other recognizers.
ScanField(f, nerFails) ==
    LET scanned == DOMAIN Recognizers \ (IF NerEnabled(f) /\ ~nerFails THEN {} ELSE {Ner})
        refused == Visited(f) /\ NerEnabled(f) /\ nerFails /\ Closed
    IN /\ phase = "masking" /\ Len(fields) < MaxFields
       /\ fields' = Append(fields, f)
       /\ phase' = IF refused THEN "rejected" ELSE "replacing"
       /\ todo' = IF Visited(f) /\ ~refused THEN Scan(f.text, scanned) ELSE {}
       /\ masked' = IF refused THEN masked ELSE Append(masked, <<>>)
       /\ cursor' = 0
       /\ UNCHANGED <<policy, vaulted, known, requests, answer, restored>>

OfValue(entries, kind, value) == {e \in entries : e.kind = kind /\ e.value = value}

\* Mutant: the counter of a kind starts anew in every field.
NumberInField(kind) == 1 + Cardinality({i \in DOMAIN Last(masked) : Last(masked)[i][1] = kind})

\* The counter of the kind's prefix.
NextNumber(kind) == 1 + Cardinality({e \in known : e.kind = kind})

\* What the vault may assign: Assignment of Vault.tla.
Assignments(kind, value) ==
    IF OfValue(vaulted, kind, value) # {} THEN OfValue(vaulted, kind, value)
    ELSE {[kind |-> kind, value |-> value, token |-> t] : t \in
             {t \in Tokens : t[1] = kind /\ \A e \in vaulted : e.token # t}}

\* try_get_or_insert: the request's map, the vault, the counters.
GetOrInsert(kind, value, e) ==
    IF OfValue(known, kind, value) # {}
    THEN e \in OfValue(known, kind, value) /\ UNCHANGED <<vaulted, known>>
    ELSE /\ e \in IF policy.store THEN Assignments(kind, value)
                  ELSE {[kind |-> kind, value |-> value, token |-> <<kind, NextNumber(kind)>>]}
         /\ known' = known \cup {e}
         /\ vaulted' = IF policy.store THEN vaulted \cup {e} ELSE vaulted

ValueAt(d) == SubSeq(Last(fields).text, d.start, d.end - 1)
Leftmost(d) == d \in todo /\ \A c \in todo : d.start <= c.start

\* try_pseudonymize: the next detection of the field is replaced.
ReplaceNext(d, e) ==
    /\ phase = "replacing" /\ Leftmost(d)
    /\ GetOrInsert(d.kind, ValueAt(d), e)
    /\ masked' = [masked EXCEPT ![Len(masked)] =
                     @ \o SubSeq(Last(fields).text, cursor + 1, d.start - 1) \o <<e.token>>]
    /\ cursor' = d.end - 1
    /\ todo' = todo \ {d}
    /\ UNCHANGED <<policy, fields, phase, requests, answer, restored>>

\* The vault fails: the request is rejected, half rewritten.
StoreFails(d) ==
    /\ phase = "replacing" /\ Leftmost(d) /\ policy.store
    /\ OfValue(known, d.kind, ValueAt(d)) = {}
    /\ phase' = "rejected"
    /\ todo' = {}
    /\ UNCHANGED <<policy, vaulted, fields, masked, cursor, known, requests, answer, restored>>

\* The rest of the field is copied.
FinishField ==
    /\ phase = "replacing" /\ todo = {}
    /\ masked' = [masked EXCEPT ![Len(masked)] =
                     @ \o SubSeq(Last(fields).text, cursor + 1, Len(Last(fields).text))]
    /\ phase' = "masking"
    /\ UNCHANGED <<policy, vaulted, fields, field, known, requests, answer, restored>>

SendBody ==
    /\ phase = "masking" /\ fields # <<>>
    /\ phase' = "sent"
    /\ UNCHANGED <<policy, vaulted, fields, masked, field, known, requests, answer, restored>>

\* Another gateway or request has the vault assign a placeholder, at any time
\* (bound: to an empty vault).
AssignElsewhere ==
    /\ policy.store /\ vaulted = {}
    /\ \E r \in DOMAIN Recognizers : \E f \in Recognizers[r] :
          \E e \in Assignments(f[2], f[1]) : vaulted' = vaulted \cup {e}
    /\ UNCHANGED <<policy, fields, masked, field, known, phase, requests, answer, restored>>

ValueOf(entries, s) ==
    IF \E e \in entries : e.token = s THEN (CHOOSE e \in entries : e.token = s).value ELSE <<s>>
Restored(text, entries) ==
    LET out[i \in 0 .. Len(text)] == IF i = 0 THEN <<>> ELSE out[i - 1] \o ValueOf(entries, text[i])
    IN out[Len(text)]
InMap(text) == Restored(text, known)
InVault(text) == Restored(text, vaulted)

\* restore_body_with_store: the map's pass, then the vault's, in which a failed
\* read leaves the placeholder.
Answer(text, readFails) ==
    /\ phase = "sent" /\ (readFails => policy.store)
    /\ \A i \in DOMAIN fields : fields[i].place # "input"  \* vectors are relayed
    /\ answer' = text
    /\ restored' = IF policy.store /\ ~readFails THEN InVault(InMap(text)) ELSE InMap(text)
    /\ phase' = "answered"
    /\ UNCHANGED <<policy, vaulted, fields, masked, field, known, requests>>

\* An upstream repeats a text it was sent, or a placeholder it has seen some day.
Answers == Range(masked) \cup {<<t>> : t \in Tokens}

MaskNext ==
    \/ BeginRequest \/ FinishField \/ SendBody \/ AssignElsewhere
    \/ \E d \in todo : StoreFails(d) \/ \E e \in Known : ReplaceNext(d, e)
    \/ \E f \in Fields, nerFails \in BOOLEAN : ScanField(f, nerFails)
    \/ \E text \in Answers, readFails \in BOOLEAN : Answer(text, readFails)

MaskSpec == MaskInit /\ [][MaskNext]_maskVars
-----------------------------------------------------------------------------
Overlap(a, b) == a.start < b.end /\ b.start < a.end

\* Nothing is left in a body that is sent, however detections overlap and
\* whatever fails: scanning it again finds only what is not to be masked, or what
\* such a detection overlaps.  The model counts where it is in scope and must not
\* fail.
NothingLeft ==
    phase = "sent" =>
        \A i \in DOMAIN fields : Visited(fields[i]) =>
            LET scanned == DOMAIN Recognizers \
                               (IF NerEnabled(fields[i]) /\ policy.failMode = "closed" THEN {} ELSE {Ner})
                stays == {c \in Finds(masked[i], DOMAIN Recognizers) : c.kind \notin policy.allowed}
            IN \A c \in Finds(masked[i], scanned) \ stays : \E d \in stays : Overlap(c, d)

Typed == \E i \in DOMAIN fields : \E j \in DOMAIN fields[i].text : fields[i].text[j][1] # "word"

\* A text that comes back as it was sent is given back as it was received,
\* whatever the vault does and however a value is repeated; a placeholder typed
\* by the user is out of the promise.
EchoRestored ==
    phase = "answered" /\ ~Typed =>
        \A i \in DOMAIN fields : masked[i] = answer => restored = fields[i].text

\* An entity stays inside, and comes back.
EntitiesKept == NothingLeft /\ EchoRestored
=============================================================================
