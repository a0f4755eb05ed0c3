----------------------------- MODULE Guardrails -----------------------------
(***************************************************************************)
(* The content filter: crates/drgtw-guardrails/src/engine.rs and           *)
(* builtins.rs, and the text it reads, as body.rs collects it.             *)
(*                                                                         *)
(* Texts and detections are those of PiiMasking, whose engine the rules    *)
(* about contact data share; a pattern is the set of the texts it matches, *)
(* of one length.  When a verdict is asked for and what it does to a       *)
(* request are ProxyRequest.tla's.                                         *)
(***************************************************************************)
EXTENDS PiiMasking

CONSTANTS BuiltinPatterns,   \* those of every prompt_injection rule
          DefaultContactKinds,
          Separator,         \* the newline, a symbol of texts
          RuleLists,         \* [name, kind, phase, action, patterns, entities]
          ScannedBodies      \* sequences of fields

ASSUME RuleAssumption ==
    \A rules \in RuleLists :
        /\ rules \in Seq(Range(rules))
        /\ \A r \in Range(rules) : /\ r.kind \in {"prompt_injection", "banned_content", "contact_info"}
                                  /\ r.action \in {"block", "redact", "flag"}
ASSUME BodyAssumption ==
    \A body \in ScannedBodies :
        body \in Seq(Range(body)) /\ \A f \in Range(body) : f.text \in Seq(Range(f.text))

Redacting(rule) == rule.action = "redact"
RunsIn(rule, when) == rule.phase \in {when, "both"}

\* collect_request_text, collect_response_text: texts and text parts, one a line;
\* what a tool call or result nests is not read, nor is the input of embeddings.
ReadIn(when) == IF when = "pre" THEN {"text", "system"} ELSE {"text"}
CollectedFields(body, when) == {f \in Range(body) : f.place \in ReadIn(when)}
Join(out, text) == IF out = <<>> THEN text ELSE out \o <<Separator>> \o text
CollectText(body, when) ==
    LET out[i \in 0 .. Len(body)] ==
            IF i = 0 THEN <<>>
            ELSE IF body[i].place \in ReadIn(when) THEN Join(out[i - 1], body[i].text) ELSE out[i - 1]
    IN out[Len(body)]

\* One regex: the leftmost matches, none inside the one before.
FindIter(pattern, text) ==
    LET found == {[start |-> i, end |-> j, rec |-> 0] : i, j \in 1 .. Len(text) + 1}
    IN Merge({c \in found : c.start < c.end /\ SubSeq(text, c.start, c.end - 1) \in pattern})

\* An empty list of kinds stands for the default.
ActsOn(rule) == IF rule.entities = {} THEN DefaultContactKinds ELSE rule.entities

\* What a rule finds.  On this path a model that fails finds nothing, whatever
\* its fail_mode, and every role is scanned.
Detected(text, nerFails) == Scan(text, DOMAIN Recognizers \ (IF nerFails THEN {Ner} ELSE {}))
Find(rule, text, nerFails) ==
    LET matched(patterns) == UNION {FindIter(p, text) : p \in patterns}
        spans == CASE rule.kind = "prompt_injection" -> matched(BuiltinPatterns \cup rule.patterns)
                   [] rule.kind = "banned_content" -> matched(rule.patterns)
                   [] rule.kind = "contact_info" ->
                          {d \in Detected(text, nerFails) : d.kind \in ActsOn(rule)}
    IN {[start |-> s.start, end |-> s.end] : s \in spans}

Ends(spans, start) == {s.end : s \in {t \in spans : t.start = start}}
Starts(spans) == {0} \cup {s.start : s \in spans}

\* Mutant: an overlap is dropped, and the span before it keeps its end.
MergeShort(spans) ==
    LET merged[i \in 0 .. Max(Starts(spans))] ==
            LET before == IF i = 0 THEN <<>> ELSE merged[i - 1]
            IN IF Ends(spans, i) = {} \/ (before # <<>> /\ i < Last(before).end) THEN before
               ELSE Append(before, [start |-> i, end |-> Max(Ends(spans, i))])
    IN merged[Max(Starts(spans))]

\* merge_spans, from the left: spans that overlap become one, those that touch stay
\* apart.
MergeSpans(spans) ==
    LET merged[i \in 0 .. Max(Starts(spans))] ==
            LET before == IF i = 0 THEN <<>> ELSE merged[i - 1]
            IN IF Ends(spans, i) = {} THEN before
               ELSE IF before = <<>> \/ i >= Last(before).end
               THEN Append(before, [start |-> i, end |-> Max(Ends(spans, i))])
               ELSE [before EXCEPT ![Len(before)].end = Max({@} \cup Ends(spans, i))]
    IN merged[Max(Starts(spans))]

NoFindings == [blockedBy |-> {}, redactions |-> {}, flags |-> {}]

\* Mutant: a rule that redacts ends the evaluation as one that blocks does.
ApplyFirst(out, rule, spans) ==
    IF out.blockedBy # {} \/ out.redactions # {} \/ spans = {} THEN out
    ELSE CASE rule.action = "block" -> [out EXCEPT !.blockedBy = {rule.name}]
           [] rule.action = "redact" -> [out EXCEPT !.redactions = @ \cup spans]
           [] rule.action = "flag" -> [out EXCEPT !.flags = @ \cup {rule.name}]

\* One rule of the loop; after a block there is no other.
ApplyRule(out, rule, spans) ==
    IF out.blockedBy # {} \/ spans = {} THEN out
    ELSE CASE rule.action = "block" -> [out EXCEPT !.blockedBy = {rule.name}]
           [] rule.action = "redact" -> [out EXCEPT !.redactions = @ \cup spans]
           [] rule.action = "flag" -> [out EXCEPT !.flags = @ \cup {rule.name}]

\* evaluate, of check_request and check_response.
Evaluate(rules, when, text, nerFails) ==
    LET out[i \in 0 .. Len(rules)] ==
            IF i = 0 THEN NoFindings
            ELSE IF RunsIn(rules[i], when) THEN ApplyRule(out[i - 1], rules[i], Find(rules[i], text, nerFails))
            ELSE out[i - 1]
        found == out[Len(rules)]
    IN IF found.blockedBy # {} THEN [verdict |-> "block", of |-> found.blockedBy, spans |-> <<>>]
       ELSE IF found.redactions # {}
       THEN [verdict |-> "redact", of |-> {}, spans |-> MergeSpans(found.redactions)]
       ELSE IF found.flags # {} THEN [verdict |-> "flag", of |-> found.flags, spans |-> <<>>]
       ELSE [verdict |-> "allow", of |-> {}, spans |-> <<>>]

VARIABLES guardRules, guarded, guardPhase, modelFails
guardVars == <<guardRules, guarded, guardPhase, modelFails>>

GuardInit ==
    /\ guardRules \in RuleLists
    /\ guarded \in ScannedBodies
    /\ guardPhase \in {"pre", "post"}
    /\ modelFails \in BOOLEAN

\* One evaluation, under the configuration at hand.
GuardSpec == GuardInit /\ [][UNCHANGED <<guardVars, policy>>]_<<guardVars, policy>>
-----------------------------------------------------------------------------
GuardText == CollectText(guarded, guardPhase)
Verdict == Evaluate(guardRules, guardPhase, GuardText, modelFails)
Running == {r \in Range(guardRules) : RunsIn(r, guardPhase)}
Positions(spans) == UNION {s.start .. s.end - 1 : s \in spans}

\* What a rule is written for is acted on in every text that is read, wherever the
\* rule stands among others: a banned text of one field is, and so is an entity,
\* unless the engine does not report its kind, a failing model was the one to see
\* it, or a detection of another kind overlaps it (which may begin in the field
\* before).
Meant(rule, f) ==
    IF rule.kind = "contact_info"
    THEN \E d \in Finds(f.text, DOMAIN Recognizers \ (IF modelFails THEN {Ner} ELSE {})),
            o \in {k \in 0 .. Len(GuardText) - Len(f.text) : SubSeq(GuardText, k + 1, k + Len(f.text)) = f.text} :
            /\ d.kind \in ActsOn(rule) \cap policy.allowed
            /\ \A c \in Finds(GuardText, DOMAIN Recognizers) :
                  \/ c.kind \in ActsOn(rule) \cap policy.allowed
                  \/ ~Overlap(c, [start |-> d.start + o, end |-> d.end + o])
    ELSE \E p \in rule.patterns \cup (IF rule.kind = "prompt_injection" THEN BuiltinPatterns ELSE {}) :
            \E i, j \in 1 .. Len(f.text) + 1 : i < j /\ SubSeq(f.text, i, j - 1) \in p
MeantText(rule) == \E f \in CollectedFields(guarded, guardPhase) : Meant(rule, f)
RulesActedOn ==
    /\ \A r \in Running : MeantText(r) =>
          CASE r.action = "block" -> Verdict.verdict = "block"
            [] r.action = "redact" -> Verdict.verdict \in {"block", "redact"}
            [] r.action = "flag" -> Verdict.verdict # "allow"
    /\ \A name \in Verdict.of : \E r \in Running : r.name = name /\ Find(r, GuardText, modelFails) # {}

\* The spans to redact are whole: together exactly what the redacting rules found,
\* in order, none overlapping the next, and none split from what it overlapped.
SpansMerged ==
    Verdict.verdict = "redact" =>
        LET found == UNION {Find(r, GuardText, modelFails) : r \in {q \in Running : Redacting(q)}}
            spans == Verdict.spans
        IN /\ Positions(Range(spans)) = Positions(found)
           /\ \A i \in 1 .. Len(spans) - 1 : spans[i].end <= spans[i + 1].start
           /\ \A s \in found : \E i \in DOMAIN spans : spans[i].start <= s.start /\ s.end <= spans[i].end

\* The verdict on a text is the one its rules call for.
VerdictStands == RulesActedOn /\ SpansMerged
=============================================================================
