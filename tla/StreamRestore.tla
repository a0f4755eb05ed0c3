---------------------------- MODULE StreamRestore ----------------------------
(***************************************************************************)
(* Placeholders in a streamed response are replaced by what they stand for *)
(* although they arrive in pieces: crates/drgtw-pii/src/stream.rs under    *)
(* crates/drgtw-proxy/src/sse_restore.rs, driven by usage_tap.rs.          *)
(*                                                                         *)
(* A text is a sequence of symbols.  An event carries a piece of one block *)
(* of the response: of a text, or of the arguments of a tool call.  All    *)
(* texts share one restorer, every tool call has its own.  The framing of  *)
(* events, and what is in them besides the piece, are left out; nothing    *)
(* follows the terminator.                                                 *)
(*                                                                         *)
(* fed observes the run: what the upstream has sent of each block.         *)
(***************************************************************************)
EXTENDS Integers, SequencesExt, FiniteSetsExt

CONSTANTS Alphabet,      \* the symbols an upstream sends
          Digit,         \* those of them that are digits
          Quote,         \* a symbol that JSON escapes
          Original,      \* what each placeholder stands for
          MaxText        \* bound: symbols of a response

Placeholders == DOMAIN Original
Digits == {Digit}
Escape(s) == FlattenSeq([i \in DOMAIN s |-> IF s[i] = Quote THEN <<"\\", Quote>> ELSE <<s[i]>>])
Escaped == [p \in Placeholders |-> Escape(Original[p])]

StartsAt(p, text, i) == i + Len(p) - 1 <= Len(text) /\ SubSeq(text, i, i + Len(p) - 1) = p
LongestOf(ps) == CHOOSE p \in ps : \A q \in ps : Len(q) <= Len(p)

\* A placeholder is KIND_number.  No name of a kind ends with the name of another
\* kind or with the beginning of one up to its number, or is the beginning of another
\* one; what a placeholder stands for is in none, unless in or right before its number.
ASSUME StreamAssumption ==
    /\ \A p \in Placeholders : p \in Seq(Alphabet) \ {<<>>} /\ Original[p] \in Seq(Range(Original[p]))
    /\ \A p, q \in Placeholders :
           /\ \A i \in 2 .. Len(q) : ~StartsAt(p, q, i) /\ ~StartsAt(SubSeq(q, i, Len(q)), p, 1)
           /\ \A i \in 1 .. Len(q), part \in {Escaped[p], p} :
                  StartsAt(part, q, i) /\ i + Len(part) <= Len(q) => q[i + Len(part)] \in Digits

\* A text of what is found at each of its places: what is shown for how many symbols.
Rewrite(found) ==
    LET from[i \in 1 .. Len(found) + 1] ==
            IF i > Len(found) THEN <<>> ELSE found[i].shown \o from[i + found[i].taken]
    IN from[1]

\* EntityMap::restore, with the originals as `values' gives them.
Restore(text, values) ==
    LET Fits(p, i) == /\ StartsAt(p, text, i)
                      /\ \/ i + Len(p) > Len(text)
                         \/ text[i + Len(p)] \notin Digits \cup {"_"}
    IN Rewrite([i \in DOMAIN text |->
           LET ps == {p \in Placeholders : Fits(p, i)}
           IN IF ps = {} THEN [shown |-> <<text[i]>>, taken |-> 1]
              ELSE [shown |-> values[LongestOf(ps)], taken |-> Len(LongestOf(ps))]])

\* Mutant: the end of a chunk is taken for the end of a placeholder.
ReplaceEager(text, i, finish) == i > Len(text) \/ text[i] \notin Digits

\* Whether a placeholder that ends before i is replaced now.
MayReplace(text, i, finish) == IF i > Len(text) THEN finish ELSE text[i] \notin Digits

\* StreamRestorer::apply_replacements
ApplyReplacements(text, finish) ==
    Rewrite([i \in DOMAIN text |->
        LET ps == {p \in Placeholders : StartsAt(p, text, i)}
            p == LongestOf(ps)
        IN IF ps = {} THEN [shown |-> <<text[i]>>, taken |-> 1]
           ELSE [shown |-> IF MayReplace(text, i + Len(p), finish) THEN Escaped[p] ELSE p,
                 taken |-> Len(p)]])

\* longest_prefix_suffix
Holdback(text) ==
    Max({0} \cup {k \in 1 .. Len(text) : \E p \in Placeholders :
            k <= Len(p) /\ SubSeq(text, Len(text) - k + 1, Len(text)) = SubSeq(p, 1, k)})

\* StreamRestorer::process: what is released, and what is held.
Process(text, finish) ==
    LET t == ApplyReplacements(text, finish)
        n == Len(t) - (IF finish THEN 0 ELSE Holdback(t))
    IN [release |-> SubSeq(t, 1, n), hold |-> SubSeq(t, n + 1, Len(t))]
Feed(hold, piece) == Process(hold \o piece, FALSE)
Rest(hold) == Process(hold, TRUE).release
-----------------------------------------------------------------------------
Blocks == {0, 1}
Content == -1    \* the restorer of the texts

VARIABLES format,     \* of the response: BodyFormat
          blockKind,  \* of each block
          held,       \* by the restorer of the texts, and of each tool call
          clientHas,  \* what the client has of each block, as text and as arguments
          last,       \* last_index
          ended, fed
streamVars == <<format, blockKind, held, clientHas, last, ended, fed>>

Restorers == {Content} \cup Blocks
RestorerOf(b) == IF blockKind[b] = "text" THEN Content ELSE b
Signs == Alphabet \cup {Quote, "\\"} \cup UNION {Range(Original[p]) : p \in Placeholders}
Texts == Seq(Signs)

StreamTypeOK ==
    /\ format \in {"openai", "anthropic"}
    /\ blockKind \in [Blocks -> {"text", "tool"}]
    /\ held \in [Restorers -> Texts]
    /\ \A r \in Restorers : held[r] = <<>> \/ \E p \in Placeholders : Len(held[r]) <= Len(p)
    /\ clientHas \in [Blocks -> [text : Texts, args : Texts]]
    /\ last \in Blocks
    /\ ended \in {"no", "terminator", "eof", "error"}
    /\ fed \in [Blocks -> Texts]

\* An OpenAI response has one text; its tool calls are numbered apart.
StreamInit ==
    /\ format \in {"openai", "anthropic"}
    /\ blockKind \in [Blocks -> {"text", "tool"}]
    /\ format = "openai" => blockKind = [b \in Blocks |-> IF b = 0 THEN "text" ELSE "tool"]
    /\ held = [r \in Restorers |-> <<>>]
    /\ clientHas = [b \in Blocks |-> [text |-> <<>>, args |-> <<>>]]
    /\ last = 0
    /\ ended = "no"
    /\ fed = [b \in Blocks |-> <<>>]

Release(o, b, field, text) == [o EXCEPT ![b][field] = @ \o text]
Field(b) == IF blockKind[b] = "text" THEN "text" ELSE "args"

\* transform_openai, transform_anthropic: a piece of block b.  The blocks of an
\* Anthropic response come one after the other.
Delta(b, piece) ==
    LET r == RestorerOf(b)
        done == Feed(held[r], piece)
    IN /\ ended = "no"
       /\ Len(fed[0]) + Len(fed[1]) + Len(piece) <= MaxText
       /\ format = "anthropic" => b >= last
       /\ fed' = [fed EXCEPT ![b] = @ \o piece]
       /\ held' = [held EXCEPT ![r] = done.hold]
       /\ clientHas' = Release(clientHas, b, Field(b), done.release)
       /\ last' = b
       /\ UNCHANGED <<format, blockKind, ended>>

Flushed == Restorers

\* flush_holdbacks: the text goes to the block seen last, arguments to theirs.
Flush ==
    LET textBlock == IF format = "openai" THEN 0 ELSE last
        rest == [r \in Restorers |-> IF r \in Flushed THEN Rest(held[r]) ELSE <<>>]
        shown == [b \in Blocks |-> [clientHas[b] EXCEPT !.args = @ \o rest[b]]]
    IN /\ clientHas' = Release(shown, textBlock, "text", rest[Content])
       /\ held' = [r \in Restorers |-> IF r \in Flushed THEN <<>> ELSE held[r]]

\* emit_flush_then before [DONE] or message_stop; finish without one.
EndOfStream(how) ==
    /\ ended = "no"
    /\ Flush
    /\ ended' = how
    /\ UNCHANGED <<format, blockKind, last, fed>>

\* usage_tap_stream: an upstream error ends the stream, without finish.
StreamError ==
    /\ ended = "no"
    /\ ended' = "error"
    /\ UNCHANGED <<format, blockKind, held, clientHas, last, fed>>

Pieces == {<<a>> : a \in Alphabet} \cup (Alphabet \X Alphabet)
StreamNext ==
    \/ \E b \in Blocks, piece \in Pieces : Delta(b, piece)
    \/ \E how \in {"terminator", "eof"} : EndOfStream(how)
    \/ StreamError

StreamSpec == StreamInit /\ [][StreamNext]_streamVars
-----------------------------------------------------------------------------
All(parts, k) == (IF blockKind[0] = k THEN parts[0] ELSE <<>>)
                 \o (IF blockKind[1] = k THEN parts[1] ELSE <<>>)

\* The two restorers of the code agree, but for a placeholder before `_', which
\* only EntityMap::restore leaves alone, and for an original that makes a placeholder
\* with the text behind it, which StreamRestorer, scanning again what it holds, takes
\* for one.
Comparable(text) ==
    \A p \in Placeholders, i \in DOMAIN text :
        LET rest == SubSeq(text, i + Len(p), Len(text))
        IN StartsAt(p, text, i) =>
               /\ rest # <<>> => rest[1] # "_"
               /\ \A q \in Placeholders, j \in DOMAIN Escaped[p] :
                      ~StartsAt(q, SubSeq(Escaped[p], j, Len(Escaped[p])) \o rest, 1)

\* What a text has placeholders for has nothing that JSON escapes.
NothingEscaped(text) ==
    \A p \in Placeholders, i \in DOMAIN text : StartsAt(p, text, i) => Escaped[p] = Original[p]

\* However a response is cut, interleaved and ended, what the client has of its
\* text and of the arguments of each tool call, and what would be flushed now, are
\* the whole with the same placeholders replaced as EntityMap::restore replaces: none
\* is missed, mistaken for another one, repeated or released before it is known
\* where it ends.  What is put in is the original as JSON escapes it.  That is
\* right in arguments, which are JSON themselves; a text is what EntityMap::restore
\* makes of it if the originals in it have nothing to escape (for the others see
\* RestoredAsBuffered).  An orderly end leaves nothing held.
StreamRestored ==
    /\ LET sent == All(fed, "text")
           whole == clientHas[0].text \o clientHas[1].text \o Rest(held[Content])
       IN Comparable(sent) =>
              /\ whole = Restore(sent, Escaped)
              /\ NothingEscaped(sent) => whole = Restore(sent, Original)
    /\ \A b \in Blocks : blockKind[b] = "tool" /\ Comparable(fed[b]) =>
           clientHas[b].args \o Rest(held[b]) = Restore(fed[b], Escaped)
    /\ ended \in {"terminator", "eof"} => \A r \in Restorers : held[r] = <<>>

\* Violated by the code: a streamed text is restored like a buffered one (README:
\* "full body or token-by-token SSE stream").  StreamRestorer escapes originals
\* for a place inside a JSON string, but sse_restore.rs feeds it decoded text and
\* serialises what it gets: a quote in an original arrives as two symbols.
RestoredAsBuffered ==
    LET sent == All(fed, "text")
    IN ended \in {"terminator", "eof"} /\ Comparable(sent) =>
           clientHas[0].text \o clientHas[1].text = Restore(sent, Original)

\* Violated by the code: every block ends up with its own text restored, and
\* nothing of another one (stream.rs: otherwise the tail of one stream would
\* leak into the head of the next).
BlocksApart ==
    ended \in {"terminator", "eof"} =>
        \A b \in Blocks : Comparable(fed[b]) =>
            clientHas[b] = [text |-> IF blockKind[b] = "text" THEN Restore(fed[b], Escaped) ELSE <<>>,
                            args |-> IF blockKind[b] = "tool" THEN Restore(fed[b], Escaped) ELSE <<>>]
=============================================================================
