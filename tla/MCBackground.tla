----------------------------- MODULE MCBackground -----------------------------
(***************************************************************************)
(* What runs beside or below the requests, for TLC, one part at a time: the*)
(* event sink, the trace writer, the pool of NER workers; and what is done *)
(* to texts with entities in them: masking and guardrails.                 *)
(***************************************************************************)
EXTENDS EventSink, TraceWriter, NerPool, Guardrails

CONSTANTS t1, t2, r1, r2, w1, w2

mcTasks == {t1, t2}
mcCallers == {r1, r2}
mcWorkers == {w1, w2}

\* Masking: an address, a first name and a surname; a code that overlaps both.
W(w) == <<"word", w>>
mcRecognizers ==
    << {<<<<W(1)>>, "EMAIL">>},
       {<<<<W(3)>>, "CODE">>, <<<<W(3), W(1)>>, "CODE">>, <<<<W(3), W(0), W(1)>>, "CODE">>},
       {<<<<W(2)>>, "PERSON">>, <<<<W(2), W(3)>>, "PERSON">>, <<<<W(3)>>, "PERSON">>} >>
mcTexts == {<<W(1)>>, <<W(2), W(3)>>, <<W(3), W(1)>>, <<W(2), W(3), W(1)>>,
            <<<<"EMAIL", 1>>, W(1)>>}
mcFields == [place : {"text"}, role : {"user"}, text : mcTexts \ {<<W(3), W(1)>>}]
    \cup [place : {"system"}, role : {"system"}, text : {<<W(2), W(3)>>}]
    \cup [place : {"tool_call"}, role : {"assistant"}, text : {<<W(2), W(3)>>}]
    \cup [place : {"input"}, role : {"none"}, text : {<<W(2), W(3), W(1)>>}]
mcPolicy(failMode, roles, allowed, stored) ==
    [failMode |-> failMode, roles |-> roles, allowed |-> allowed, store |-> stored]
mcRoles == {"user", "system", "assistant"}
mcSome == {"EMAIL", "CODE"}
mcAll == {"EMAIL", "CODE", "PERSON"}
mcPolicies == {mcPolicy("closed", mcRoles, mcAll, TRUE), mcPolicy("closed", mcRoles, mcSome, FALSE),
               mcPolicy("open", {"user"}, mcAll, FALSE), mcPolicy("open", {"user"}, mcSome, TRUE)}

\* Guardrails: the newline is the word 0; patterns and entities that overlap, within
\* a line and across lines.
mcNewline == W(0)
mcBuiltin == {{<<W(2), W(3)>>}}
mcRuleOf(of, when, action, patterns, entities) ==
    [name |-> <<of, action, when>>, kind |-> of, phase |-> when, action |-> action,
     patterns |-> patterns, entities |-> entities]
mcActing(action) ==
    {mcRuleOf("prompt_injection", "both", action, {}, {}),
     mcRuleOf("banned_content", "both", action, {{<<W(3), W(1)>>, <<W(1), W(0)>>}, {<<W(3)>>}}, {}),
     mcRuleOf("contact_info", "pre", action, {}, {}), mcRuleOf("contact_info", "post", action, {}, {"CODE", "PERSON"})}
mcGuardRules == UNION {mcActing(a) : a \in {"block", "redact", "flag"}}
mcRuleLists == {<<>>} \cup {<<r>> : r \in mcGuardRules}
    \cup {rs \in [1 .. 2 -> mcGuardRules] : rs[1].name # rs[2].name}
    \cup {<<mcRuleOf("prompt_injection", "pre", "flag", {}, {}), mcRuleOf("banned_content", "pre", "redact", {{<<W(3)>>}}, {}),
             mcRuleOf("contact_info", "pre", "block", {}, {"EMAIL"})>>}
mcLine(place, words) == [place |-> place, role |-> "user", text |-> words]
mcBodies == {<<>>, <<mcLine("tool_result", <<W(1)>>), mcLine("text", <<>>), mcLine("text", <<W(2), W(3), W(1)>>)>>}
    \cup {<<mcLine("text", t)>> : t \in mcTexts}
    \cup {<<mcLine("system", s), mcLine("text", t)>> : s, t \in {<<W(1)>>, <<W(2), W(3)>>, <<W(3), W(1)>>}}

\* One of them at a time.
TextsInit(kind) ==
    /\ IF kind = "guard" THEN GuardInit
       ELSE guardRules = <<>> /\ guarded = <<>> /\ guardPhase = "pre" /\ modelFails = FALSE
    /\ MaskInit /\ (kind = "guard" => ~policy.store)
    /\ kind \notin {"mask", "guard"} => policy = CHOOSE p \in Policies : TRUE

VARIABLE part
Init == /\ part \in {"events", "trace", "ner", "mask", "guard"}
        /\ SinkInit /\ TraceInit /\ NerInit /\ TextsInit(part)
Next ==
    /\ UNCHANGED part
    /\ \/ part = "events" /\ SinkNext /\ UNCHANGED <<traceVars, nerVars, maskVars, guardVars>>
       \/ part = "trace" /\ TraceNext /\ UNCHANGED <<sinkVars, nerVars, maskVars, guardVars>>
       \/ part = "ner" /\ NerNext /\ UNCHANGED <<sinkVars, traceVars, maskVars, guardVars>>
       \/ part = "mask" /\ MaskNext /\ UNCHANGED <<sinkVars, traceVars, nerVars, guardVars>>

Spec == /\ Init /\ [][Next]_<<part, sinkVars, traceVars, nerVars, maskVars, guardVars>>
        /\ SinkFairness /\ TraceFairness /\ NerFairness
=============================================================================
