---------------------------- MODULE UpstreamStream ----------------------------
(***************************************************************************)
(* A streamed response on its way through the gateway, but for the         *)
(* restoring of placeholders (StreamRestore): the Bedrock event stream is  *)
(* decoded and translated (crates/drgtw-proxy/src/eventstream.rs,          *)
(* reframe_converse_stream of handlers.rs), and the token usage of any     *)
(* stream is read from its SSE events (usage_tap.rs, and extract.rs of     *)
(* drgtw-events).                                                          *)
(*                                                                         *)
(* The upstream is external.  A response is a sequence of events, each of  *)
(* three units, and arrives in pieces that are cut between any two units.  *)
(* A frame of an event stream: its prelude is complete with the second     *)
(* unit, and the frame with the third; a fault is one of the prelude (its  *)
(* CRC, a bad or absurd length) or one of the message (its CRC, a header). *)
(* An SSE event: its data is complete with the second unit, and the empty  *)
(* line that ends it with the third.                                       *)
(***************************************************************************)
EXTENDS Converse, Integers

CONSTANTS Conversations, \* bodies that clients send
          Responses      \* pairs of a wire format and the events of a response

WireFormats == {"converse", "anthropic", "open_ai"}

\* What a body may leave out is a set of at most one value.
IsOption(o) == \A x, y \in o : x = y
ASSUME ConversationsAssumption ==
    \A asked \in Conversations : \A messages \in asked.messages :
        /\ IsOption(asked.messages) /\ messages \in Seq(Range(messages))
        /\ \A m \in Range(messages) :
              /\ IsOption(m.role)
              /\ m.content.kind \in {"absent", "string", "parts", "other"}
              /\ m.content.kind = "absent" => m.content.texts = <<>>

\* Of Converse events, only the metadata has usage; "tool" is no text.
ASSUME ResponsesAssumption ==
    \A response \in Responses :
        /\ response[1] \in WireFormats /\ response[2] \in Seq(Range(response[2]))
        /\ \A e \in Range(response[2]) :
              /\ IsOption(e.usage) /\ "tool" \notin e.text
              /\ response[1] = "converse" /\ e.type # "metadata" => e.usage = {}

VARIABLES
    flow,         \* where the request is
    conversation, \* what the client asked: none or one
    request,      \* what the upstream was sent: none or one
    wire,         \* the wire format and the events of the response
    fed,          \* units that arrived
    taken,        \* frames the decoder returned, or events the tap scanned
    xlate,        \* StreamXlateState
    tapped,       \* StreamUsage
    client,       \* the chunks the client got
    reported      \* the usage on_complete was called with: none or one
upstreamVars == <<flow, conversation, request, wire, fed, taken, xlate, tapped, client, reported>>

NoUsage == [input |-> {}, output |-> {}]

UpstreamInit ==
    /\ flow = "ask" /\ conversation = {} /\ request = {}
    /\ wire = <<"converse", <<>> >> /\ fed = 0 /\ taken = 0 /\ xlate = FreshXlate
    /\ tapped = NoUsage /\ client = <<>> /\ reported = {}

arriving == wire[2]

\* build_converse_body
BuildConverseBody ==
    /\ flow = "ask"
    /\ \E asked \in Conversations :
          /\ conversation' = {asked}
          /\ request' = OpenAIToConverse(asked)
          /\ flow' = IF request' = {} THEN "refused" ELSE "sent"
    /\ UNCHANGED <<wire, fed, taken, xlate, tapped, client, reported>>

\* The upstream answers, whatever it was asked.
Respond ==
    /\ flow = "sent"
    /\ wire' \in Responses
    /\ flow' = "stream"
    /\ conversation' = {} /\ request' = {}
    /\ UNCHANGED <<fed, taken, xlate, tapped, client, reported>>
-----------------------------------------------------------------------------
(* EventStreamDecoder *)

\* try_next_frame: the lengths and the CRC of the prelude are checked before the
\* rest is waited for ...
PreludeFault(i, units) == arriving[i].fault = "prelude" /\ units >= 3 * i - 1

\* ... the CRC of the message and its headers once it is complete.
MessageFault(i, units) == arriving[i].fault = "message" /\ units >= 3 * i

\* drain: the frames that are complete by now, or no result at a fault: those
\* before it are lost with it.
Drain(units) ==
    IF \E i \in taken + 1 .. Len(arriving) : PreludeFault(i, units) \/ MessageFault(i, units)
    THEN {}
    ELSE {SubSeq(arriving, taken + 1, units \div 3)}

\* A frame without a type is skipped.  parse_frame reads it from the headers, and
\* a payload that is no JSON is an event without fields.
Translate(frames, x) ==
    LET upTo[n \in 0 .. Len(frames)] ==
            IF n = 0 THEN [out |-> <<>>, x |-> x]
            ELSE LET before == upTo[n - 1]
                     step == EventToSse(frames[n], before.x)
                 IN IF frames[n].type = "untyped" THEN before
                    ELSE [out |-> before.out \o step.out, x |-> step.x]
    IN upTo[Len(frames)]
-----------------------------------------------------------------------------
(* UsageAccumulator *)

\* scan_event: [DONE] and what is no JSON have no usage.
ScanEvent(usage, event) ==
    CASE wire[1] = "anthropic" /\ event.type = "message_start" /\ event.usage # {} ->
           IF The(event.usage).input = {} THEN usage
           ELSE [usage EXCEPT !.input = The(event.usage).input]
      [] wire[1] = "anthropic" /\ event.type # "message_start" /\ event.usage # {} ->
           IF The(event.usage).output = {} THEN usage
           ELSE [usage EXCEPT !.output = The(event.usage).output]
      [] wire[1] = "open_ai" /\ event.usage # {} ->
           IF The(event.usage).input = {} \/ The(event.usage).output = {} THEN usage
           ELSE [input |-> The(event.usage).input, output |-> The(event.usage).output]
      [] OTHER -> usage

\* The chunks made of Converse events: the final one has the usage.
ScanChunk(usage, chunk) ==
    IF chunk.usage = {} THEN usage
    ELSE [input |-> {The(chunk.usage).prompt}, output |-> {The(chunk.usage).completion}]

ScanChunks(usage, chunks) ==
    LET upTo[n \in 0 .. Len(chunks)] == IF n = 0 THEN usage ELSE ScanChunk(upTo[n - 1], chunks[n])
    IN upTo[Len(chunks)]

\* push: the events that are complete by now.
Push(units) ==
    LET more == units \div 3 - taken
        upTo[n \in 0 .. more] ==
            IF n = 0 THEN tapped ELSE ScanEvent(upTo[n - 1], arriving[taken + n])
    IN upTo[more]

\* Mutant: what is left in the buffer is not scanned.
FinishEmpty(usage, n, units) == usage

\* finish: what is left in the buffer, an event without its empty line, is scanned
\* too; one that was cut in its data is no JSON.
Finish(usage, n, units) ==
    IF n < Len(arriving) /\ units >= 3 * n + 2 THEN ScanEvent(usage, arriving[n + 1]) ELSE usage

OnComplete(usage) == tapped' = usage /\ reported' = {usage}
-----------------------------------------------------------------------------
(* reframe_converse_stream and usage_tap_stream, a chunk of the upstream at a time *)

\* A piece of a Converse stream: the events in it are translated, or a fault ends
\* the stream.
ReceiveFrames(units) ==
    /\ flow = "stream" /\ wire[1] = "converse"
    /\ fed' = units
    /\ IF Drain(units) = {}
         THEN /\ client' = client \o Finalize(xlate)
              /\ flow' = "ended"
              /\ OnComplete(tapped)
              /\ UNCHANGED <<taken, xlate>>
         ELSE LET translated == Translate(The(Drain(units)), xlate)
              IN /\ client' = client \o translated.out
                 /\ xlate' = translated.x
                 /\ tapped' = ScanChunks(tapped, translated.out)
                 /\ taken' = units \div 3
                 /\ UNCHANGED <<flow, reported>>
    /\ UNCHANGED <<conversation, request, wire>>

\* A piece of another stream goes to the client as it is.
ReceiveEvents(units) ==
    /\ flow = "stream" /\ wire[1] # "converse"
    /\ fed' = units
    /\ tapped' = Push(units)
    /\ taken' = units \div 3
    /\ UNCHANGED <<flow, conversation, request, wire, xlate, client, reported>>

\* The upstream ends, wherever it is: [DONE] is made up if it did not get there.
Close ==
    /\ flow = "stream"
    /\ flow' = "ended"
    /\ IF wire[1] = "converse"
         THEN client' = client \o Finalize(xlate) /\ OnComplete(tapped)
         ELSE UNCHANGED client /\ OnComplete(Finish(tapped, taken, fed))
    /\ UNCHANGED <<conversation, request, wire, fed, taken, xlate>>

\* The connection breaks: the usage so far is reported, and nothing flushed.
Break ==
    /\ flow = "stream"
    /\ flow' = "broken"
    /\ OnComplete(IF wire[1] = "converse" THEN tapped ELSE Finish(tapped, taken, fed))
    /\ UNCHANGED <<conversation, request, wire, fed, taken, xlate, client>>

UpstreamNext ==
    \/ BuildConverseBody \/ Respond \/ Close \/ Break
    \/ \E units \in fed + 1 .. 3 * Len(arriving) : ReceiveFrames(units) \/ ReceiveEvents(units)

UpstreamSpec == UpstreamInit /\ [][UpstreamNext]_upstreamVars
-----------------------------------------------------------------------------
\* Converse is asked what the client asked: every text of every message, in order,
\* the system's apart, and the limit that OpenAI gives precedence; or nothing is
\* sent, because a message has what Converse is not given.
ConversationKept ==
    conversation # {} =>
        LET asked == The(conversation)
            texts(messages) == FlattenSeq([i \in DOMAIN messages |-> messages[i].content.texts])
            system == {m \in Range(The(asked.messages)) : m.role = {"system"}}
        IN IF request = {}
           THEN \/ asked.model = {} \/ asked.messages = {}
                \/ \E m \in Range(The(asked.messages)) :
                      m.content.kind = "other" \/ Range(m.content.types) \ {"text"} # {}
           ELSE LET r == The(request)  messages == The(asked.messages)
                    others == Select(messages, Range(messages) \ system)
                IN /\ r.system = texts(Select(messages, system))
                   /\ Len(r.messages) = Len(others)
                   /\ \A i \in DOMAIN others : r.messages[i].texts = others[i].content.texts
                   /\ r.maxTokens = {} <=> asked.max_tokens \cup asked.max_completion_tokens = {}
                   /\ r.maxTokens \subseteq asked.max_tokens \cup asked.max_completion_tokens
                   /\ asked.max_completion_tokens \subseteq r.maxTokens

LastOf(S) == IF S = {} THEN {} ELSE {Max(S)}

\* The body that the upstream would have sent for the same events, with one metadata.
BodyOf(frames) ==
    LET deltas == Select(frames, {f \in Range(frames) : f.type = "contentBlockDelta" /\ f.text # {}})
        stops == {i \in DOMAIN frames : frames[i].type = "messageStop"}
        ends == {i \in DOMAIN frames : frames[i].type = "metadata"}
    IN [blocks |-> [i \in DOMAIN deltas |-> The(deltas[i].text)],
        stop |-> UNION {frames[i].text : i \in LastOf(stops)},
        usage |-> UNION {frames[i].usage : i \in ends}]

Collected(chunks) ==
    LET texts == Select(chunks, {c \in Range(chunks) : c.kind = "text"})
        finals == {i \in DOMAIN chunks : chunks[i].kind = "final"}
    IN [content |-> [i \in DOMAIN texts |-> texts[i].text],
        finish |-> The({chunks[i].text : i \in finals}),
        usage |-> UNION {chunks[i].usage : i \in finals}]

\* A translated stream that the gateway ends has one [DONE], which is its end, with
\* whatever frames, faults and cuts between chunks; and one that arrived whole, with
\* its metadata last and no exception, tells the client what the buffered response
\* tells it.
StreamCompletes ==
    wire[1] = "converse" /\ flow \in {"ended", "broken", "stream"} =>
        LET dones == {i \in DOMAIN client : client[i].kind = "done"}
        IN /\ dones \subseteq {Len(client)}
           /\ flow = "ended" => dones # {}
           /\ flow = "ended" /\ taken > 0 /\ taken = Len(arriving) =>
                 \/ arriving[taken].type # "metadata"
                 \/ \E i \in 1 .. taken - 1 : arriving[i].type \in {"metadata", "exception"}
                 \/ Collected(client) = ConverseToOpenAI(BodyOf(arriving))

\* What a stream reports as usage is in the last event that has one and whose data
\* has arrived, however the stream was cut and however it ended; a Converse stream
\* has it in the event that ends it, which is lost if it is decoded in one piece with
\* a faulty frame.
UsageTapped ==
    reported # {} =>
        LET usage == The(reported)
            arrived == {i \in DOMAIN arriving : fed >= 3 * i - 1 /\ arriving[i].usage # {}}
            u(i) == The(arriving[i].usage)
        IN CASE wire[1] = "anthropic" ->
                  LET starts == {i \in arrived : arriving[i].type = "message_start" /\ u(i).input # {}}
                      deltas == {i \in arrived : arriving[i].type # "message_start" /\ u(i).output # {}}
                  IN /\ usage.input = UNION {u(i).input : i \in LastOf(starts)}
                     /\ usage.output = UNION {u(i).output : i \in LastOf(deltas)}
             [] wire[1] = "open_ai" ->
                  LET both == LastOf({i \in arrived : u(i).input # {} /\ u(i).output # {}})
                  IN /\ usage.input = UNION {u(i).input : i \in both}
                     /\ usage.output = UNION {u(i).output : i \in both}
             [] OTHER ->
                  LET ends == {i \in 1 .. taken : arriving[i].type \in {"metadata", "exception"}}
                      first == {i \in ends : i = Min(ends) /\ arriving[i].usage # {}}
                  IN /\ usage = NoUsage <=> first = {}
                     /\ \A i \in first : /\ usage.input = {OrElse(u(i).input, 0)}
                                            /\ usage.output = {OrElse(u(i).output, 0)}

\* A client gets what the upstream said, and so do its bills: what a stream tells
\* both is complete however it is cut.
StreamTold == StreamCompletes /\ UsageTapped
=============================================================================
