----------------------------- MODULE NerWindows -----------------------------
(***************************************************************************)
(* From a text to the spans of the NER model (crates/drgtw-ner/src/        *)
(* model.rs): a long text is cut into windows that overlap, the model tags *)
(* the tokens of each, the tags are decoded into spans, and the spans of   *)
(* all windows are merged.  NerPool takes the result for granted.          *)
(*                                                                         *)
(* The model is a choice of predictions, another in each window.  A token  *)
(* is one position of the text; its word is a number, 0 for none.  A       *)
(* span's score is the mean of its tokens', kept as sum and count.         *)
(***************************************************************************)
EXTENDS Integers, FiniteSetsExt, SequencesExt

CONSTANTS TokenWords,   \* texts: of each token, its word
          Predictions,  \* [tag : "B", "I" or "O", kind, score]
          WINDOW_TOKENS, STRIDE_OVERLAP

ASSUME NerWindowsAssumption ==
    /\ TokenWords \subseteq Seq(Nat)
    /\ Predictions \subseteq [tag : {"B", "I", "O"}, kind : STRING, score : Nat]
    /\ WINDOW_TOKENS \in Nat \ {0} /\ STRIDE_OVERLAP \in 0 .. WINDOW_TOKENS - 1

VARIABLES words,     \* the text
          windowAt,  \* where the next window starts
          predicted, \* what the model said of the last window
          all_spans, \* the spans of the windows so far, in order
          detected   \* the spans returned: none yet, or one sequence
windowVars == <<words, windowAt, predicted, all_spans, detected>>

WindowTokens == 1 + windowAt .. Min({windowAt + WINDOW_TOKENS, Len(words)})

is_continuation(open_word, tok_word) == open_word # 0 /\ open_word = tok_word

\* One token of decode_bio: it continues the open span, or ends it, or opens another.
DecodeToken(state, i, p) ==
    LET Closed == state.out \o SetToSeq(state.open)
        continued == {o \in state.open : \/ is_continuation(o.word, words[i])
                                         \/ p.tag = "I" /\ o.kind = p.kind}
        Opened == [start |-> i, end |-> i + 1, kind |-> p.kind, sum |-> p.score, count |-> 1, word |-> words[i]]
    IN CASE continued # {} ->
              [state EXCEPT !.open = {[o EXCEPT !.end = i + 1, !.word = words[i],
                                                !.sum = @ + (IF p.tag = "O" THEN 0 ELSE p.score),
                                                !.count = @ + (IF p.tag = "O" THEN 0 ELSE 1)] : o \in continued}]
         [] continued = {} /\ p.tag = "O" -> [open |-> {}, out |-> Closed]
         [] OTHER -> [open |-> {Opened}, out |-> Closed]

Decoded(preds) ==
    LET upTo[j \in 0 .. Len(preds)] ==
            IF j = 0 THEN [open |-> {}, out |-> <<>>]
            ELSE DecodeToken(upTo[j - 1], windowAt + j, preds[j])
    IN upTo[Len(preds)]

decode_bio(preds) == Decoded(preds).out \o SetToSeq(Decoded(preds).open)

Higher(a, b) == a.sum * b.count > b.sum * a.count
ranges_overlap(a, b) == a.start < b.end /\ b.start < a.end
Rivals(a, b) == a.kind = b.kind /\ ranges_overlap(a, b)

\* A stable sort by where spans start, or then by which scores higher: each is put
\* behind those that it does not precede.
Precedes(a, b, byScore) == a.start < b.start \/ (byScore /\ a.start = b.start /\ Higher(a, b))
Insert(s, span, byScore) ==
    InsertAt(s, Max({0} \cup {i \in DOMAIN s : ~Precedes(span, s[i], byScore)}) + 1, span)
SortByStart(spans, byScore) ==
    LET upTo[n \in 0 .. Len(spans)] ==
            IF n = 0 THEN <<>> ELSE Insert(upTo[n - 1], spans[n], byScore)
    IN upTo[Len(spans)]

\* A span replaces the first rival kept if it scores higher, or is dropped for it.
KeepFirst(kept, span) == \* mutant: whatever is seen first stays
    IF \E i \in DOMAIN kept : Rivals(kept[i], span) THEN kept ELSE Append(kept, span)

Keep(kept, span) ==
    LET rivals == {i \in DOMAIN kept : Rivals(kept[i], span)}
    IN IF rivals = {} THEN Append(kept, span)
       ELSE IF Higher(span, kept[Min(rivals)]) THEN [kept EXCEPT ![Min(rivals)] = span] ELSE kept

Deduped(spans) ==
    LET upTo[n \in 0 .. Len(spans)] == IF n = 0 THEN <<>> ELSE Keep(upTo[n - 1], spans[n])
    IN upTo[Len(spans)]

dedupe_spans(spans) == SortByStart(Deduped(SortByStart(spans, TRUE)), FALSE)
-----------------------------------------------------------------------------
WindowsInit ==
    /\ words \in TokenWords
    /\ windowAt = 0 /\ predicted = <<>> /\ all_spans = <<>> /\ detected = {}

\* detect: one pass of the loop.  A run of the model that fails ends the call
\* without spans (NerPool).
run_window ==
    /\ windowAt < Len(words)
    /\ detected = {} /\ predicted = <<>>
    /\ \E preds \in [1 .. Cardinality(WindowTokens) -> Predictions] :
          /\ predicted' = preds
          /\ all_spans' = all_spans \o decode_bio(preds)
    /\ UNCHANGED <<words, windowAt, detected>>

NextWindow ==
    /\ predicted # <<>>
    /\ predicted' = <<>>
    /\ IF Len(words) \in WindowTokens
       THEN /\ detected' = {dedupe_spans(all_spans)}
            /\ UNCHANGED windowAt
       ELSE /\ windowAt' = windowAt + (WINDOW_TOKENS - STRIDE_OVERLAP)
            /\ UNCHANGED detected
    /\ UNCHANGED <<words, all_spans>>

WindowsNext == run_window \/ NextWindow

WindowsSpec == WindowsInit /\ [][WindowsNext]_windowVars
-----------------------------------------------------------------------------
\* Decoding loses nothing the model tagged: every tagged token of a window is
\* in one span of it, and no span ends inside a word.  Of the spans of all
\* windows, those returned do not compete, and one that scores higher than all
\* its rivals is returned.  Hazard: a name cut by the end of a window, or seen
\* differently by two windows, is left in the text (model.rs:137, 382).
SpansWhole ==
    /\ \A j \in DOMAIN predicted :
          LET i == windowAt + j
              ofWindow == ToSet(decode_bio(predicted))
          IN /\ predicted[j].tag # "O" => \E s \in ofWindow : i \in s.start .. s.end - 1
             /\ is_continuation(words[i], IF i + 1 \in WindowTokens THEN words[i + 1] ELSE 0)
                  => \A s \in ofWindow : s.end # i + 1
    /\ \A kept \in detected :
          /\ ToSet(kept) \subseteq ToSet(all_spans)
          /\ \A i, j \in DOMAIN kept : i < j => kept[i].start <= kept[j].start /\ ~Rivals(kept[i], kept[j])
          /\ \A s \in ToSet(all_spans) :
                (\A r \in ToSet(all_spans) \ {s} : Rivals(s, r) => Higher(s, r)) => s \in ToSet(kept)

\* "Drop duplicate/overlapping spans produced by windowing overlap; keep the
\* higher-scoring one when two spans cover overlapping byte ranges"
\* (model.rs:380): a span found is returned, or one that overlaps it is.
SpanKeptOrCovered ==
    \A kept \in detected : \A s \in ToSet(all_spans) : \E k \in ToSet(kept) : Rivals(k, s)
=============================================================================
