------------------------------- MODULE Converse -------------------------------
(***************************************************************************)
(* A Bedrock Converse connection speaks OpenAI to the client: the request, *)
(* the buffered response and the events of a stream are translated         *)
(* (crates/drgtw-proxy/src/converse.rs, build_converse_body of             *)
(* handlers.rs).  Fields that the translation copies or makes up alike are *)
(* left out: temperature, top_p, id, created.                              *)
(*                                                                         *)
(* An optional field is a set of at most one value.  A field of another    *)
(* JSON type than the code asks for is an absent field.                    *)
(***************************************************************************)
EXTENDS Routing, FiniteSetsExt

OrElse(o, default) == IF o = {} THEN default ELSE The(o)
-----------------------------------------------------------------------------
(* The request: openai_to_converse *)

\* The text parts of a message's content: no result if one cannot be kept.
ExtractTextParts(content) ==
    CASE content.kind = "absent" -> {<<>>}
      [] content.kind = "string" -> {content.texts}
      [] content.kind = "parts" /\ Range(content.types) \subseteq {"text"} -> {content.texts}
      [] OTHER -> {}

StopSequences(stop) ==
    LET strings == SelectSeq(stop, LAMBDA s : s # "number")
    IN IF strings = <<>> THEN {} ELSE {strings}

Role(message) == OrElse(message.role, "user")
Texts(message) == The(ExtractTextParts(message.content))

\* Mutant: a text of another system message replaces the first.
OneSystem(messages) ==
    LET system == SelectSeq(messages, LAMBDA m : Role(m) = "system")
    IN IF system = <<>> THEN <<>> ELSE Texts(Last(system))

System(messages) ==
    LET system == Select(messages, {m \in Range(messages) : Role(m) = "system"})
    IN FlattenSeq([i \in DOMAIN system |-> Texts(system[i])])

Others(messages) ==
    LET others == Select(messages, {m \in Range(messages) : Role(m) # "system"})
    IN [i \in DOMAIN others |-> [role |-> Role(others[i]), texts |-> Texts(others[i])]]

\* The body, the model and whether it streams, or no result: a 400.
OpenAIToConverse(ask) ==
    IF \/ ask.model = {} \/ ask.messages = {}
       \/ \E m \in Range(The(ask.messages)) : ExtractTextParts(m.content) = {}
    THEN {}
    ELSE {[model |-> The(ask.model), stream |-> OrElse(ask.stream, FALSE),
           system |-> System(The(ask.messages)), messages |-> Others(The(ask.messages)),
           maxTokens |-> IF ask.max_completion_tokens # {} THEN ask.max_completion_tokens
                         ELSE ask.max_tokens,
           stopSequences |-> StopSequences(ask.stop)]}
-----------------------------------------------------------------------------
(* The buffered response: converse_to_openai *)

MapFinishReason(stop) ==
    CASE stop \in {{"max_tokens"}, {"model_context_window_exceeded"}} -> "length"
      [] stop \in {{"tool_use"}, {"malformed_tool_use"}} -> "tool_calls"
      [] stop \in {{"content_filtered"}, {"guardrail_intervened"}} -> "content_filter"
      [] OTHER -> "stop"

RenameUsage(usage) ==
    [prompt |-> OrElse(usage.input, 0), completion |-> OrElse(usage.output, 0),
     total |-> IF usage.total # {} THEN The(usage.total)
               ELSE IF usage.input # {} /\ usage.output # {}
                    THEN The(usage.input) + The(usage.output) ELSE 0]

\* A body is the texts of its blocks (a tool's block has none), stopReason, usage.
ConcatOutputText(blocks) == Select(blocks, Range(blocks) \ {"tool"})

ConverseToOpenAI(body) ==
    [content |-> ConcatOutputText(body.blocks), finish |-> MapFinishReason(body.stop),
     usage |-> {RenameUsage(u) : u \in body.usage}]
-----------------------------------------------------------------------------
(* The stream: converse_event_to_sse and StreamXlateState *)

Chunk(kind, text, usage) == <<[kind |-> kind, text |-> text, usage |-> usage]>>
DoneBlock == Chunk("done", "", {})

FreshXlate == [finish |-> {}, done |-> FALSE]

\* Mutant: [DONE], whether it was sent or not.
FinalizeAlways(x) == DoneBlock

\* The end of an incomplete stream.
Finalize(x) == IF x.done THEN <<>> ELSE DoneBlock

\* What the client gets for an event; contentBlockStart, contentBlockStop, a tool's
\* delta and unknown events are dropped.
EventToSse(event, x) ==
    IF x.done THEN [out |-> <<>>, x |-> x]
    ELSE CASE event.type = "messageStart" ->
                [out |-> Chunk("role", OrElse(event.text, "assistant"), {}), x |-> x]
           [] event.type = "contentBlockDelta" /\ event.text # {} ->
                [out |-> Chunk("text", The(event.text), {}), x |-> x]
           [] event.type = "messageStop" ->
                [out |-> <<>>, x |-> [x EXCEPT !.finish = {MapFinishReason(event.text)}]]
           [] event.type = "metadata" ->
                [out |-> Chunk("final", OrElse(x.finish, "stop"), {RenameUsage(u) : u \in event.usage})
                         \o DoneBlock, x |-> [x EXCEPT !.done = TRUE]]
           [] event.type = "exception" ->
                [out |-> Chunk("error", OrElse(event.text, "upstream stream error"), {}) \o DoneBlock,
                 x |-> [x EXCEPT !.done = TRUE]]
           [] OTHER -> [out |-> <<>>, x |-> x]
=============================================================================
