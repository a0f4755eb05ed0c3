------------------------- MODULE ProxyRequestProofs -------------------------
(***************************************************************************)
(* For every set of configurations and of requests, and every list of      *)
(* connections: what ProxyRequest promises of privacy, of fallback, of     *)
(* guardrails and of accounting; what is sent upstream for a conversation  *)
(* and what a client is told of the stream that answers it; which models a *)
(* key is shown, and in which order its connections are tried.             *)
(*                                                                         *)
(* Nothing is assumed of the list of candidates in the first part: which   *)
(* connections it holds, and in which order, matters only to the last.     *)
(***************************************************************************)
EXTENDS ModelAccess, UpstreamStream, SequenceTheorems, NaturalsInduction, WellFoundedInduction, TLAPS

\* What the handler derives from its request and its bundle stays as it is
\* while it holds both.
LEMMA SameRequest ==
    ASSUME UNCHANGED <<ask, config>>
    PROVE  my' = my /\ cfg' = cfg /\ cands' = cands /\ (Streaming' <=> Streaming)
BY DEF my, cfg, cands, Streaming

\* So does the flag of its events, with its mode.
LEMMA SameFlag ==
    ASSUME UNCHANGED <<ask, mode>>
    PROVE  pii_flag' <=> pii_flag
BY DEF my, pii_flag

\* The attempts have the type of their parts whatever set their connections
\* are taken from.
LEMMA AttemptsTyped ==
    ASSUME NEW C, NEW s \in Seq(Attempt(C))
    PROVE  s \in Seq(Attempt(Tried(s)))
<1>1. \A k \in DOMAIN s : s[k].conn \in Tried(s)
  BY DEF Tried
<1>2. \A e \in Attempt(C) : e.conn \in Tried(s) => e \in Attempt(Tried(s))
  BY DEF Attempt
<1>3. \A k \in 1 .. Len(s) : s[k] \in Attempt(Tried(s))
  BY <1>1, <1>2, ElementOfSeq, LenProperties
<1>4. Len(s) \in Nat /\ s \in [1 .. Len(s) -> Attempt(Tried(s))]
  BY <1>3, LenProperties
<1>5. QED
  BY <1>4, SeqDef

\* A new attempt.
LEMMA AppendAttempt ==
    ASSUME NEW s, s \in Seq(Attempt(Tried(s))), NEW c, NEW b \in Body
    PROVE  LET t == Append(s, [conn |-> c, body |-> b, result |-> "none"])
           IN /\ t \in Seq(Attempt(Tried(t)))
              /\ Len(t) = Len(s) + 1 /\ Len(s) \in Nat
              /\ DOMAIN s = 1 .. Len(s) /\ DOMAIN t = 1 .. Len(t)
              /\ \A k \in DOMAIN s : t[k] = s[k]
              /\ t[Len(t)].conn = c /\ t[Len(t)].body = b
<1> DEFINE C == Tried(s) \cup {c}
           e == [conn |-> c, body |-> b, result |-> "none"]
           t == Append(s, e)
<1>1. e \in Attempt(C) /\ e.conn = c /\ e.body = b
  BY DEF Attempt, Results
<1>2. Attempt(Tried(s)) \subseteq Attempt(C)
  BY DEF Attempt
<1> HIDE DEF C, e
<1>3. s \in Seq(Attempt(C))
  BY <1>2, SeqMonotonic
<1>4. /\ t \in Seq(Attempt(C)) /\ Len(t) = Len(s) + 1 /\ t[Len(t)] = e
      /\ DOMAIN s = 1 .. Len(s) /\ DOMAIN t = 1 .. Len(t) /\ Len(s) \in Nat
      /\ \A k \in DOMAIN s : t[k] = s[k]
  BY <1>1, <1>3
<1> HIDE DEF t
<1>5. t \in Seq(Attempt(Tried(t)))
  BY <1>4, AttemptsTyped
<1>6. QED
  BY <1>1, <1>4, <1>5 DEF t, e

\* The result of the last attempt becomes known.
LEMMA AnswerAttempt ==
    ASSUME NEW s, s \in Seq(Attempt(Tried(s))), s # <<>>, NEW r \in Results
    PROVE  LET t == [s EXCEPT ![Len(s)].result = r]
           IN /\ t \in Seq(Attempt(Tried(t)))
              /\ Len(t) = Len(s) /\ Len(s) \in Nat \ {0}
              /\ DOMAIN s = 1 .. Len(s) /\ DOMAIN t = 1 .. Len(t)
              /\ \A k \in DOMAIN s :
                    /\ t[k].conn = s[k].conn /\ t[k].body = s[k].body
                    /\ k < Len(s) => t[k] = s[k]
              /\ t[Len(s)].result = r
<1> DEFINE n == Len(s)
           e == [s[n] EXCEPT !.result = r]
           t == [s EXCEPT ![n] = e]
<1>1. /\ n \in Nat \ {0} /\ DOMAIN s = 1 .. n /\ s[n] \in Attempt(Tried(s))
      /\ n \in 1 .. n
  BY EmptySeq, LenProperties, ElementOfSeq
<1>2. e \in Attempt(Tried(s)) /\ e.result = r /\ e.conn = s[n].conn /\ e.body = s[n].body
  BY <1>1 DEF Attempt
<1>3. t = [s EXCEPT ![Len(s)].result = r]
  OBVIOUS
<1> HIDE DEF e
<1>4. /\ t \in Seq(Attempt(Tried(s))) /\ Len(t) = n
      /\ \A k \in 1 .. n : t[k] = IF k = n THEN e ELSE s[k]
  BY <1>1, <1>2, ExceptSeq
<1> HIDE DEF t, n
<1>5. DOMAIN t = 1 .. Len(t)
  BY <1>4, LenProperties
<1>6. t \in Seq(Attempt(Tried(t)))
  BY <1>4, AttemptsTyped
<1>7. \A k \in 1 .. n :
          /\ t[k].conn = s[k].conn /\ t[k].body = s[k].body
          /\ k < n => t[k] = s[k]
  BY <1>1, <1>2, <1>4
<1>8. QED
  BY <1>1, <1>2, <1>3, <1>4, <1>5, <1>6, <1>7 DEF n
-----------------------------------------------------------------------------
LEMMA InitIInv == Init => IInv
<1> SUFFICES ASSUME Init PROVE IInv
  OBVIOUS
<1>1. sent = <<>> /\ Len(sent) = 0 /\ DOMAIN sent = {}
  BY DEF Init
<1>2. sent \in Seq(Attempt(Tried(sent)))
  BY <1>1, EmptySeq
<1>3. StartInv /\ SentInv /\ CountInv
  BY <1>1, <1>2 DEF Init, StartInv, SentInv, CountInv, Dispatching
<1>4. AccountInv /\ BlockInv
  BY <1>1 DEF Init, AccountInv, BlockInv, AccountedOnce, ReportedSpendCharged
<1>5. QED
  BY <1>3, <1>4 DEF Init, IInv, Phases, Ends, Body

\* A reload reaches nothing a request holds; it only adds to what was live.
LEMMA ReloadIInv == ASSUME IInv, Reload PROVE IInv'
<1>1. /\ my' = my /\ cfg' = cfg /\ cands' = cands /\ (Streaming' <=> Streaming)
      /\ UNCHANGED <<pc, end, ask, config, mode, body, sent, counted, charged, events,
                     traced, rows, spent, shown>>
      /\ pc # "done" /\ ~shown /\ (pii_flag' <=> pii_flag)
  BY SameRequest, SameFlag DEF Reload, asked, accounts, IInv, BlockInv
<1>2. StartInv'
  BY <1>1 DEF Reload, IInv, StartInv
<1>3. SentInv' /\ CountInv' /\ AccountInv' /\ BlockInv'
  BY <1>1 DEF IInv, SentInv, CountInv, AccountInv, BlockInv, AccountedOnce,
     ReportedSpendCharged, Dispatching
<1>4. QED
  BY <1>1, <1>2, <1>3 DEF Reload, IInv

\* The request is known from here on, and has been sent nowhere.
LEMMA StartIInv == ASSUME IInv, Start PROVE IInv'
<1>1. PICK a \in Asks :
          /\ ask' = {a} /\ mode' = PiiOn(live, a)
          /\ \/ End("refused") /\ traced' \in {traced, traced + 1}
             \/ a.header # "invalid" /\ pc' = "body" /\ UNCHANGED <<end, traced>>
  BY DEF Start, TraceReject
<1>2. /\ pc = "idle" /\ config' = {live} /\ scanned' = {live}
      /\ UNCHANGED <<live, body, sent, counted, charged, events, rows, spent, shown>>
  BY DEF Start
<1>10. /\ events = 0 /\ rows = 0 /\ traced = 0 /\ charged = 0 /\ ~spent /\ end = "none"
       /\ ~shown
  BY <1>2 DEF IInv, AccountInv, AccountedOnce, StartInv
<1>3. my' = a /\ cfg' = live
  BY <1>1, <1>2 DEF my, cfg, The
<1>4. sent = <<>> /\ DOMAIN sent = {} /\ Len(sent) = 0
  BY <1>2 DEF IInv, SentInv
<1>5. ask' \in Option(Asks) \ {{}} /\ config' \in Option(Configs) \ {{}}
  BY <1>1, <1>2 DEF Option, IInv
<1>6. StartInv'
  BY <1>1, <1>2, <1>3, <1>4, <1>5 DEF StartInv, End
<1>7. SentInv' /\ CountInv'
  BY <1>1, <1>2, <1>4 DEF IInv, SentInv, CountInv, End, Dispatching
<1>8. AccountInv' /\ BlockInv'
  BY <1>1, <1>2, <1>4, <1>10 DEF AccountInv, BlockInv, AccountedOnce,
     ReportedSpendCharged, End
<1>9. QED
  BY <1>1, <1>2, <1>6, <1>7, <1>8, <1>10 DEF IInv, Phases, Ends, End, PiiOn

\* Nothing has been sent: the mode decides whether the body is rewritten first,
\* and a request that the guardrails block ends here.
LEMMA ReadBodyIInv == ASSUME IInv, ReadBody \/ ReadEmbeddingsBody PROVE IInv'
<1>1. /\ my' = my /\ cfg' = cfg /\ cands' = cands /\ (Streaming' <=> Streaming)
      /\ UNCHANGED <<live, ask, config, mode, sent, counted, charged, events, traced,
                     rows, spent, scanned, shown>>
      /\ pc = "body" /\ end = "none" /\ ~spent /\ events = 0 /\ ~shown /\ traced = 0
      /\ (pii_flag' <=> pii_flag)
      /\ sent = <<>> /\ DOMAIN sent = {} /\ Len(sent) = 0 /\ counted = 0
  BY SameRequest, SameFlag
     DEF ReadBody, ReadEmbeddingsBody, asked, accounts, IInv, AccountInv, BlockInv, SentInv, CountInv
<1>2. \/ End("refused") /\ UNCHANGED body
      \/ End("refused") /\ body' = [body EXCEPT !.bedrock = Head(cands).format = "bedrock"]
      \/ /\ body' = [body EXCEPT !.bedrock = Head(cands).format = "bedrock"] \/ UNCHANGED body
         /\ pc' = (IF mode THEN "pii" ELSE "send") /\ UNCHANGED end
         /\ ~(my.endpoint # "embeddings" /\ my.bad /\ Blocks(cfg.rules, "pre"))
  BY DEF ReadBody, ReadEmbeddingsBody
<1>3. body' \in Body
  BY <1>2 DEF Body, IInv
<1>4. StartInv'
  BY <1>1, <1>2 DEF IInv, StartInv, End
<1>5. SentInv' /\ CountInv'
  BY <1>1, <1>2 DEF IInv, SentInv, CountInv, End, Dispatching
<1>6. AccountInv' /\ BlockInv'
  BY <1>1, <1>2 DEF IInv, AccountInv, BlockInv, AccountedOnce, ReportedSpendCharged, End
<1>7. QED
  BY <1>1, <1>2, <1>3, <1>4, <1>5, <1>6 DEF IInv, Phases, Ends, End

\* The body is hidden, or the request is refused with nothing sent.
LEMMA PseudonymizeIInv == ASSUME IInv, Pseudonymize \/ PseudonymizeInput PROVE IInv'
<1>1. /\ my' = my /\ cfg' = cfg /\ cands' = cands /\ (Streaming' <=> Streaming)
      /\ UNCHANGED <<live, ask, config, mode, sent, counted, charged, events, traced,
                     rows, spent, scanned, shown>>
      /\ pc = "pii" /\ end = "none" /\ ~spent /\ events = 0 /\ ~shown /\ traced = 0
      /\ (pii_flag' <=> pii_flag)
      /\ sent = <<>> /\ DOMAIN sent = {} /\ Len(sent) = 0 /\ counted = 0
  BY SameRequest, SameFlag
     DEF Pseudonymize, PseudonymizeInput, asked, accounts, IInv, AccountInv, BlockInv, SentInv, CountInv
<1>2. \/ body' = [body EXCEPT !.hidden = TRUE] /\ pc' = "send" /\ UNCHANGED end
      \/ End("refused") /\ UNCHANGED body
  BY DEF Pseudonymize, PseudonymizeInput
<1>3. body' \in Body /\ (pc' = "send" => body'.hidden)
  BY <1>2 DEF Body, IInv, End
<1>4. StartInv'
  BY <1>1, <1>2 DEF IInv, StartInv, End
<1>5. SentInv' /\ CountInv'
  BY <1>1, <1>2, <1>3 DEF IInv, SentInv, CountInv, End, Dispatching
<1>6. AccountInv' /\ BlockInv'
  BY <1>1, <1>2 DEF IInv, AccountInv, BlockInv, AccountedOnce, ReportedSpendCharged, End
<1>7. QED
  BY <1>1, <1>2, <1>3, <1>4, <1>5, <1>6 DEF IInv, Phases, Ends, End

\* The next attempt gets the body every attempt gets, after attempts that may
\* all be repeated.
LEMMA SendIInv == ASSUME IInv, Send PROVE IInv'
<1>1. /\ my' = my /\ cfg' = cfg /\ cands' = cands /\ (Streaming' <=> Streaming)
      /\ UNCHANGED <<live, end, ask, config, mode, body, counted, charged, events, traced,
                     rows, spent, scanned, shown>>
      /\ pc = "send" /\ pc' = "wait" /\ events = 0 /\ ~shown /\ body \in Body
      /\ (mode => body.hidden) /\ counted = Len(sent) /\ (pii_flag' <=> pii_flag)
  BY SameRequest, SameFlag DEF Send, asked, accounts, IInv, AccountInv, BlockInv, SentInv, CountInv
<1>2. sent' = Append(sent, [conn |-> cands[next_candidate], body |-> body,
                            result |-> "none"])
  BY DEF Send
<1>3. /\ sent' \in Seq(Attempt(Tried(sent')))
      /\ Len(sent') = Len(sent) + 1 /\ Len(sent) \in Nat
      /\ DOMAIN sent = 1 .. Len(sent) /\ DOMAIN sent' = 1 .. Len(sent')
      /\ \A k \in DOMAIN sent : sent'[k] = sent[k]
      /\ sent'[Len(sent')].conn = cands[next_candidate]
      /\ sent'[Len(sent')].body = body
  BY <1>1, <1>2, AppendAttempt DEF IInv, SentInv
<1>4. sent' # <<>>
  BY <1>3
<1>5. StartInv'
  BY <1>1 DEF IInv, StartInv
<1>6. SentInv'
  <2>1. \A k \in DOMAIN sent' :
            /\ mode => sent'[k].body.hidden
            /\ sent'[k].conn = cands[k]
            /\ k < Len(sent') => sent'[k].result \in Moves
    <3> SUFFICES ASSUME NEW k \in DOMAIN sent'
                 PROVE  /\ mode => sent'[k].body.hidden
                        /\ sent'[k].conn = cands[k]
                        /\ k < Len(sent') => sent'[k].result \in Moves
      OBVIOUS
    <3>1. CASE k \in DOMAIN sent
      BY <3>1, <1>1, <1>3 DEF IInv, SentInv
    <3>2. CASE k = Len(sent')
      BY <3>2, <1>1, <1>3 DEF next_candidate
    <3>3. QED
      BY <3>1, <3>2, <1>3
  <2>2. QED
    BY <2>1, <1>1, <1>3, <1>4 DEF SentInv, Dispatching, Tried
<1>7. CountInv' /\ AccountInv'
  BY <1>1, <1>3 DEF IInv, CountInv, AccountInv, AccountedOnce, ReportedSpendCharged,
     Dispatching
<1>8. BlockInv'
  BY <1>1 DEF IInv, BlockInv
<1>9. QED
  BY <1>1, <1>5, <1>6, <1>7, <1>8 DEF IInv, Phases

\* The request ends where it is, with nothing accounted: the attempts, what was
\* counted and what was let through stay as they are.
LEMMA EndIInv ==
    ASSUME IInv, NEW how \in {"refused", "failed", "gone"}, End(how),
           pc \notin {"idle", "done"},
           UNCHANGED <<live, ask, config, mode, body, sent, counted, charged, events,
                       traced, rows, scanned, shown>>,
           spent' \in BOOLEAN, spent' => how = "gone"
    PROVE  IInv'
<1>1. /\ my' = my /\ cfg' = cfg /\ cands' = cands /\ (Streaming' <=> Streaming)
      /\ pc' = "done" /\ end' = how /\ events = 0 /\ ~shown /\ (pii_flag' <=> pii_flag)
  BY SameRequest, SameFlag DEF End, IInv, AccountInv, BlockInv
<1>2. StartInv'
  BY <1>1 DEF IInv, StartInv
<1>3. SentInv' /\ CountInv'
  BY <1>1 DEF IInv, SentInv, CountInv, Dispatching
<1>4. AccountInv' /\ BlockInv'
  BY <1>1 DEF IInv, AccountInv, BlockInv, AccountedOnce, ReportedSpendCharged
<1>5. QED
  BY <1>1, <1>2, <1>3, <1>4 DEF IInv, Phases, Ends

LEMMA EndingIInv ==
    ASSUME IInv, TranslationFails \/ BodyBreaks \/ ClientGone
    PROVE  IInv'
<1>1. ~spent \/ pc = "done"
  BY DEF IInv, AccountInv
<1>2. CASE TranslationFails
  BY <1>1, <1>2, EndIInv DEF TranslationFails, asked, accounts, IInv
<1>3. CASE BodyBreaks
  BY <1>1, <1>3, EndIInv DEF BodyBreaks, asked, accounts, IInv
<1>4. CASE ClientGone
  BY <1>1, <1>4, EndIInv DEF ClientGone, asked, accounts, IInv
<1>5. QED
  BY <1>2, <1>3, <1>4

\* Only an attempt that may be repeated goes back to the loop, and it is counted.
LEMMA AnswerIInv == ASSUME IInv, Answer \/ AnswerEmbeddings PROVE IInv'
<1>1. /\ my' = my /\ cfg' = cfg /\ cands' = cands /\ (Streaming' <=> Streaming)
      /\ UNCHANGED <<live, ask, config, mode, body, charged, events, rows, spent, scanned,
                     shown>>
      /\ pc = "wait" /\ end = "none" /\ ~spent /\ events = 0 /\ ~shown /\ traced = 0
      /\ sent # <<>> /\ counted = Len(sent) - 1 /\ counted \in Nat /\ (pii_flag' <=> pii_flag)
  BY SameRequest, SameFlag
     DEF Answer, AnswerEmbeddings, asked, accounts, IInv, AccountInv, BlockInv, SentInv, CountInv, Dispatching
<1>2. PICK r \in Results \ {"none"} :
          /\ sent' = [sent EXCEPT ![Len(sent)].result = r]
          /\ \/ /\ r \in Moves /\ counted' = counted + 1 /\ pc' = "send"
                /\ UNCHANGED <<end, traced>>
             \/ UNCHANGED <<counted, traced>> /\ End("failed")
             \/ UNCHANGED <<counted, end, traced>> /\ pc' = "read"
             \/ /\ UNCHANGED <<counted, end>> /\ pc' = "stream" /\ Streaming
                /\ traced' = traced + 1
  BY DEF Answer, AnswerEmbeddings, accounts, Moves
<1>3. /\ sent' \in Seq(Attempt(Tried(sent')))
      /\ Len(sent') = Len(sent) /\ Len(sent) \in Nat \ {0}
      /\ DOMAIN sent = 1 .. Len(sent) /\ DOMAIN sent' = 1 .. Len(sent')
      /\ \A k \in DOMAIN sent :
            /\ sent'[k].conn = sent[k].conn /\ sent'[k].body = sent[k].body
            /\ k < Len(sent) => sent'[k] = sent[k]
      /\ sent'[Len(sent)].result = r
  BY <1>1, <1>2, AnswerAttempt, ZenonT(60) DEF IInv, SentInv
<1>4. sent' # <<>>
  BY <1>3
<1>5. StartInv'
  BY <1>1, <1>2, <1>4 DEF IInv, StartInv, End
<1>6. SentInv'
  <2>1. mode => body.hidden
    BY <1>1 DEF IInv, SentInv
  <2>2. \A k \in DOMAIN sent' :
            /\ mode => sent'[k].body.hidden
            /\ sent'[k].conn = cands[k]
            /\ pc' = "send" \/ k < Len(sent') => sent'[k].result \in Moves
    <3> SUFFICES ASSUME NEW k \in DOMAIN sent'
                 PROVE  /\ mode => sent'[k].body.hidden
                        /\ sent'[k].conn = cands[k]
                        /\ pc' = "send" \/ k < Len(sent') => sent'[k].result \in Moves
      OBVIOUS
    <3>1. k \in DOMAIN sent /\ (k = Len(sent) \/ k < Len(sent))
      BY <1>3
    <3>2. (mode => sent'[k].body.hidden) /\ sent'[k].conn = cands[k]
      BY <3>1, <1>3 DEF IInv, SentInv
    <3>3. k < Len(sent) => sent'[k].result \in Moves
      BY <3>1, <1>3 DEF IInv, SentInv
    <3>4. pc' = "send" => r \in Moves
      BY <1>2 DEF End
    <3>5. QED
      BY <3>1, <3>2, <3>3, <3>4, <1>3
  <2>3. QED
    BY <2>1, <2>2, <1>1, <1>2, <1>3, <1>4 DEF SentInv, Dispatching, Tried, End
<1>7. CountInv'
  BY <1>1, <1>2, <1>3 DEF CountInv, Dispatching, End
<1>8. AccountInv' /\ BlockInv'
  BY <1>1, <1>2, <1>4 DEF IInv, AccountInv, BlockInv, AccountedOnce,
     ReportedSpendCharged, End
<1>9. QED
  BY <1>1, <1>2, <1>5, <1>6, <1>7, <1>8 DEF IInv, Phases, Ends, End

\* The answer is accounted, if it is, on the way to the client; what it shows
\* the guardrails of a configuration of the request's time let through.
LEMMA AccountIInv ==
    ASSUME IInv, RelayError \/ Relay \/ RelayEmbeddings \/ StreamEnds
    PROVE  IInv'
<1>1. /\ my' = my /\ cfg' = cfg /\ cands' = cands /\ (Streaming' <=> Streaming)
      /\ UNCHANGED <<live, ask, config, mode, body, sent, counted, scanned>>
      /\ pc' = "done" /\ pc \in {"read", "stream"} /\ (pii_flag' <=> pii_flag)
  BY SameRequest, SameFlag DEF RelayError, Relay, RelayEmbeddings, StreamEnds, asked, End
<1>2. /\ ~spent /\ events = 0 /\ charged = 0 /\ rows = 0 /\ ~shown /\ live \in scanned
      /\ traced = IF pc = "stream" THEN 1 ELSE 0
      /\ sent # <<>> /\ counted = Len(sent) - 1 /\ shown \in BOOLEAN
  BY <1>1 DEF IInv, AccountInv, AccountedOnce, BlockInv, StartInv, SentInv, CountInv,
     Dispatching
<1>3. /\ \/ /\ end' = "blocked" /\ spent' \in BOOLEAN
            /\ UNCHANGED <<charged, events, rows, shown>>
         \/ /\ \E known \in BOOLEAN : Account(known)
            /\ end' \in {"relayed", "failed"}
      /\ traced' = 1
  <2>1. CASE RelayError
    <3>1. pc = "read" /\ End("relayed") /\ traced' = traced + 1 /\ Account(FALSE)
      BY <2>1 DEF RelayError, Trace
    <3>2. \E known \in BOOLEAN : Account(known)
      BY <3>1, Zenon
    <3>3. QED
      BY <3>1, <3>2, <1>2 DEF End
  <2>2. CASE Relay
    BY <2>2, <1>2 DEF Relay, Trace, End
  <2>3. CASE RelayEmbeddings
    BY <2>3, <1>2 DEF RelayEmbeddings, Trace, End
  <2>4. CASE StreamEnds
    BY <2>4, <1>2 DEF StreamEnds, End
  <2>5. QED
    BY <2>1, <2>2, <2>3, <2>4
<1>4. /\ shown' \in BOOLEAN
      /\ shown' => \/ Streaming \/ my.endpoint = "embeddings"
                   \/ ~Blocks(live.rules, "post")
  <2>1. CASE RelayError
    BY <2>1, <1>2 DEF RelayError
  <2>2. CASE Relay
    BY <2>2, <1>2 DEF Relay
  <2>3. CASE StreamEnds
    BY <2>3 DEF StreamEnds, IInv, BlockInv
  <2>4. CASE RelayEmbeddings
    BY <2>4 DEF RelayEmbeddings
  <2>5. QED
    BY <2>1, <2>2, <2>3, <2>4
<1>5. StartInv' /\ SentInv' /\ CountInv'
  BY <1>1, <1>2 DEF IInv, StartInv, SentInv, CountInv, Dispatching
<1>6. AccountInv'
  BY <1>1, <1>2, <1>3
     DEF AccountInv, AccountedOnce, ReportedSpendCharged, Account, EmitEvent
<1>7. BlockInv'
  BY <1>1, <1>2, <1>4 DEF IInv, BlockInv
<1>8. /\ charged' \in Nat /\ events' \in Nat /\ traced' \in Nat /\ rows' \in Nat
      /\ spent' \in BOOLEAN /\ end' \in Ends
  BY <1>2, <1>3 DEF Account, EmitEvent, Ends
<1>9. QED
  BY <1>1, <1>4, <1>5, <1>6, <1>7, <1>8 DEF IInv, Phases
-----------------------------------------------------------------------------
\* No step of the request, no reload, no failure of an upstream and no client
\* that goes away leaves the invariant.
THEOREM Inductive == Spec => []IInv
<1>1. IInv /\ [Next]_vars => IInv'
  <2> SUFFICES ASSUME IInv, [Next]_vars PROVE IInv'
    OBVIOUS
  <2>1. CASE Reload
    BY <2>1, ReloadIInv
  <2>2. CASE Start
    BY <2>2, StartIInv
  <2>3. CASE ReadBody \/ ReadEmbeddingsBody
    BY <2>3, ReadBodyIInv
  <2>4. CASE Pseudonymize \/ PseudonymizeInput
    BY <2>4, PseudonymizeIInv
  <2>5. CASE Send
    BY <2>5, SendIInv
  <2>6. CASE Answer \/ AnswerEmbeddings
    BY <2>6, AnswerIInv
  <2>7. CASE TranslationFails \/ BodyBreaks \/ ClientGone
    BY <2>7, EndingIInv
  <2>8. CASE RelayError \/ Relay \/ RelayEmbeddings \/ StreamEnds
    BY <2>8, AccountIInv
  <2>9. CASE UNCHANGED vars
    <3>1. /\ my' = my /\ cfg' = cfg /\ cands' = cands /\ (Streaming' <=> Streaming)
          /\ UNCHANGED <<live, pc, end, ask, config, mode, body, sent, counted, charged,
                         events, traced, rows, spent, scanned, shown>>
          /\ (pii_flag' <=> pii_flag)
      BY <2>9, SameRequest, SameFlag DEF vars
    <3>2. QED
      BY <3>1 DEF IInv, StartInv, SentInv, CountInv, AccountInv, BlockInv,
         AccountedOnce, ReportedSpendCharged, Dispatching
  <2>10. QED
    BY <2>1, <2>2, <2>3, <2>4, <2>5, <2>6, <2>7, <2>8, <2>9 DEF Next
<1>2. QED
  BY <1>1, InitIInv, PTL DEF Spec

\* No entity leaves in clear unless the bundle and the request allow it.
THEOREM NothingInClear == Spec => []NoEntityInClear
<1>1. IInv => NoEntityInClear
  <2> SUFFICES ASSUME IInv, NEW k \in DOMAIN sent, ~sent[k].body.hidden
               PROVE  MayBeClear(cfg, my)
    BY DEF NoEntityInClear
  <2>1. sent # <<>> /\ pc # "idle" /\ ~mode
    BY EmptySeq DEF IInv, SentInv
  <2>2. ~PiiOn(cfg, my) /\ my.header # "invalid"
    BY <2>1 DEF IInv, StartInv
  <2>3. my.header \in {"none", "on", "off", "invalid"}
    BY <2>1, ProxyRequestAssumption DEF IInv, StartInv, Option, my, The, Ask
  <2>4. QED
    BY <2>2, <2>3 DEF PiiOn, MayBeClear
<1>2. QED
  BY <1>1, Inductive, PTL

\* Attempts follow the list of candidates and only failures that may be repeated.
THEOREM FallbackHolds == Spec => []FallbackInOrder
<1>1. IInv => FallbackInOrder
  BY DEF IInv, SentInv, FallbackInOrder, Moves
<1>2. QED
  BY <1>1, Inductive, PTL

\* The number of attempts an event reports is right.
THEOREM AttemptsHold == Spec => []AttemptsReported
<1>1. IInv => AttemptsReported
  BY DEF IInv, CountInv, AttemptsReported
<1>2. QED
  BY <1>1, Inductive, PTL

\* A blocked text does not pass, whatever the rules and however they change.
THEOREM GuardrailsHold == Spec => []BlockedTextStops
<1>1. IInv => BlockedTextStops
  BY DEF IInv, BlockInv, BlockedTextStops
<1>2. QED
  BY <1>1, Inductive, PTL

\* A request is accounted at most once, whenever its client got the whole answer,
\* and leaves one trace entry.
THEOREM AccountedHolds == Spec => []AccountedOnce
<1>1. IInv => AccountedOnce
  BY DEF IInv, AccountInv
<1>2. QED
  BY <1>1, Inductive, PTL

\* A spend that the provider reported is charged.
THEOREM ChargedHolds == Spec => []ReportedSpendCharged
<1>1. IInv => ReportedSpendCharged
  BY DEF IInv, AccountInv
<1>2. QED
  BY <1>1, Inductive, PTL

-----------------------------------------------------------------------------
(* Numbers *)

\* A set of numbers that is not empty has a least one.
LEMMA LeastExists ==
    ASSUME NEW S \in SUBSET Nat, S # {}
    PROVE  \E m \in S : \A n \in S : m <= n
<1> DEFINE R == OpToRel(<, Nat)
<1>1. IsWellFoundedOn(R, Nat)
  BY NatLessThanWellFounded
<1>2. \A m, n \in Nat : m < n => <<m, n>> \in R
  BY DEF OpToRel
<1> HIDE DEF R
<1>3. PICK m \in S : \A n \in S : ~(<<n, m>> \in R)
  BY <1>1, WFMin
<1>4. ASSUME NEW n \in S PROVE m <= n
  <2>1. m \in Nat /\ n \in Nat
    OBVIOUS
  <2>2. ~(n < m)
    BY <1>2, <1>3, <2>1, Zenon
  <2>3. QED
    BY <2>1, <2>2
<1>5. QED
  BY <1>4

\* A set of numbers that has 0, and each of 1 to n whose predecessor it has, has all
\* of them.
LEMMA UpTo ==
    ASSUME NEW n \in Nat, NEW T, 0 \in T, \A i \in 1 .. n : i - 1 \in T => i \in T
    PROVE  \A i \in 0 .. n : i \in T
<1> DEFINE Unmet == {i \in 0 .. n : i \notin T}
<1>1. SUFFICES ASSUME Unmet # {} PROVE FALSE
  OBVIOUS
<1>2. Unmet \in SUBSET Nat
  OBVIOUS
<1> HIDE DEF Unmet
<1>3. PICK i \in Unmet : \A j \in Unmet : i <= j
  BY <1>1, <1>2, LeastExists
<1> QED
  BY <1>3 DEF Unmet


-----------------------------------------------------------------------------
(* Select *)

\* f is the recursion by which Select goes through s.
Selects(f, s, S) ==
    f = [n \in 0 .. Len(s) |-> IF n = 0 THEN <<>>
                               ELSE IF s[n] \in S THEN Append(f[n - 1], s[n]) ELSE f[n - 1]]
SelectStep(f, s, S, n) == f[n] = IF s[n] \in S THEN Append(f[n - 1], s[n]) ELSE f[n - 1]

LEMMA SelectsExists ==
    ASSUME NEW X, NEW s \in Seq(X), NEW S
    PROVE  \E f : Selects(f, s, S)
<1> DEFINE Up(f, m) == /\ f = [n \in 0 .. m |-> f[n]] /\ f[0] = <<>>
                       /\ \A n \in 1 .. m : SelectStep(f, s, S, n)
           T == {m \in 0 .. Len(s) : \E f : Up(f, m)}
<1>0. Len(s) \in Nat
  OBVIOUS
<1>1. 0 \in T
  <2> DEFINE f == [n \in 0 .. 0 |-> <<>>]
  <2>1. Up(f, 0)
    OBVIOUS
  <2> HIDE DEF f, Up
  <2> QED
    BY <1>0, <2>1
<1>2. ASSUME NEW m \in 1 .. Len(s), m - 1 \in T PROVE m \in T
  <2>1. PICK f : Up(f, m - 1)
    BY <1>2
  <2> DEFINE grown == IF s[m] \in S THEN Append(f[m - 1], s[m]) ELSE f[m - 1]
             g == [n \in 0 .. m |-> IF n = m THEN grown ELSE f[n]]
  <2> HIDE DEF grown
  <2>2. /\ g = [n \in 0 .. m |-> g[n]] /\ g[m] = grown /\ m \in Nat /\ m # 0
        /\ \A n \in 0 .. m - 1 : g[n] = f[n]
    OBVIOUS
  <2> HIDE DEF g
  <2>3. g[0] = <<>>
    BY <2>1, <2>2
  <2>4. ASSUME NEW n \in 1 .. m PROVE SelectStep(g, s, S, n)
    <3>1. CASE n = m
      <4>1. g[m - 1] = f[m - 1]
        <5>1. m - 1 \in 0 .. m - 1
          BY <1>0
        <5> QED
          BY <2>2, <5>1
      <4> QED
        BY <2>2, <3>1, <4>1 DEF SelectStep, grown
    <3>2. CASE n # m
      <4>1. n \in 1 .. m - 1 /\ n \in 0 .. m - 1 /\ n - 1 \in 0 .. m - 1
        BY <1>0, <3>2
      <4> QED
        BY <2>1, <2>2, <4>1 DEF SelectStep
    <3> QED
      BY <3>1, <3>2
  <2>5. Up(g, m)
    BY <2>2, <2>3, <2>4
  <2> HIDE DEF Up
  <2> QED
    BY <1>0, <2>5
<1> HIDE DEF T
<1>3. Len(s) \in T
  <2>1. \A i \in 0 .. Len(s) : i \in T
    BY <1>0, <1>1, <1>2, UpTo
  <2> QED
    BY <1>0, <2>1
<1>4. PICK f : Up(f, Len(s))
  BY <1>3 DEF T
<1>5. \A n \in 0 .. Len(s) : f[n] = IF n = 0 THEN <<>>
                                   ELSE IF s[n] \in S THEN Append(f[n - 1], s[n]) ELSE f[n - 1]
  <2> TAKE n \in 0 .. Len(s)
  <2>1. CASE n = 0
    BY <1>4, <2>1
  <2>2. CASE n # 0
    <3>1. n \in 1 .. Len(s)
      BY <1>0, <2>2
    <3>2. SelectStep(f, s, S, n)
      BY <1>4, <3>1
    <3> QED
      BY <2>2, <3>2 DEF SelectStep
  <2> QED
    BY <2>1, <2>2
<1>6. f = [n \in 0 .. Len(s) |-> f[n]]
  BY <1>4
<1> QED
  BY <1>5, <1>6 DEF Selects

\* What Select is by it.
LEMMA SelectBy ==
    ASSUME NEW X, NEW s \in Seq(X), NEW S
    PROVE  \E f : /\ Select(s, S) = f[Len(s)] /\ f[0] = <<>>
                  /\ \A n \in 1 .. Len(s) : SelectStep(f, s, S, n)
<1> DEFINE h == CHOOSE f : Selects(f, s, S)
<1>1. Selects(h, s, S)
  BY SelectsExists
<1>2. Select(s, S) = h[Len(s)]
  BY DEF Select, Selects
<1> HIDE DEF h
<1>3. Len(s) \in Nat
  OBVIOUS
<1>4. h[0] = <<>>
  BY <1>1, <1>3 DEF Selects
<1>5. ASSUME NEW n \in 1 .. Len(s) PROVE SelectStep(h, s, S, n)
  <2>1. n \in 0 .. Len(s) /\ n # 0
    BY <1>3
  <2> QED
    BY <1>1, <2>1 DEF Selects, SelectStep
<1> QED
  BY <1>2, <1>4, <1>5

\* What is selected of two sequences that agree is the same.
Alike(f, s, S, g, t, U, n) ==
    /\ f[0] = g[0]
    /\ \A i \in 1 .. n : /\ SelectStep(f, s, S, i) /\ SelectStep(g, t, U, i)
                         /\ s[i] = t[i] /\ (s[i] \in S <=> t[i] \in U)
LEMMA SelectAlike ==
    ASSUME NEW n \in Nat, NEW s, NEW S, NEW t, NEW U, NEW f, NEW g, Alike(f, s, S, g, t, U, n)
    PROVE  f[n] = g[n]
<1> DEFINE T == {i \in 0 .. n : f[i] = g[i]}
<1>1. 0 \in T
  BY DEF Alike
<1>2. ASSUME NEW i \in 1 .. n, i - 1 \in T PROVE i \in T
  BY <1>2 DEF SelectStep, Alike
<1> HIDE DEF T
<1>3. \A i \in 0 .. n : i \in T
  BY <1>1, <1>2, UpTo
<1> QED
  BY <1>3 DEF T

LEMMA SelectNone == \A S : Select(<<>>, S) = <<>>
<1> TAKE S
<1>1. <<>> \in Seq({}) /\ Len(<<>>) = 0
  OBVIOUS
<1> QED
  BY <1>1, SelectBy

\* One more element is selected or not, also from a set that differs elsewhere.
LEMMA SelectGrows ==
    ASSUME NEW X, NEW s \in Seq(X), NEW x \in X, NEW S, NEW U,
           \A y \in Range(s) : y \in S <=> y \in U
    PROVE  Select(Append(s, x), U) = IF x \in U THEN Append(Select(s, S), x) ELSE Select(s, S)
<1> DEFINE t == Append(s, x)
<1>1. t \in Seq(X) /\ Len(t) = Len(s) + 1 /\ t[Len(s) + 1] = x /\ Len(s) \in Nat
      /\ \A i \in 1 .. Len(s) : t[i] = s[i] /\ s[i] \in Range(s)
  BY DEF Range
<1> HIDE DEF t
<1>2. PICK f : /\ Select(s, S) = f[Len(s)] /\ f[0] = <<>>
               /\ \A n \in 1 .. Len(s) : SelectStep(f, s, S, n)
  BY SelectBy
<1>3. PICK g : /\ Select(t, U) = g[Len(t)] /\ g[0] = <<>>
               /\ \A n \in 1 .. Len(t) : SelectStep(g, t, U, n)
  BY <1>1, SelectBy
<1>4. f[Len(s)] = g[Len(s)]
  <2>1. \A i \in 1 .. Len(s) : SelectStep(f, s, S, i) /\ SelectStep(g, t, U, i)
    BY <1>1, <1>2, <1>3
  <2>2. \A i \in 1 .. Len(s) : s[i] = t[i] /\ (s[i] \in S <=> t[i] \in U)
    BY <1>1
  <2>3. Alike(f, s, S, g, t, U, Len(s))
    BY <1>2, <1>3, <2>1, <2>2 DEF Alike
  <2> QED
    BY <1>1, <2>3, SelectAlike
<1>5. SelectStep(g, t, U, Len(s) + 1) /\ Len(s) + 1 - 1 = Len(s)
  BY <1>1, <1>3
<1> QED
  BY <1>1, <1>2, <1>3, <1>4, <1>5 DEF SelectStep, t

\* What is selected was there, and is selected by the set.
LEMMA SelectFrom ==
    ASSUME NEW X, NEW s \in Seq(X), NEW S
    PROVE  Select(s, S) \in Seq(Range(s) \cap S)
<1>1. PICK f : /\ Select(s, S) = f[Len(s)] /\ f[0] = <<>>
               /\ \A n \in 1 .. Len(s) : SelectStep(f, s, S, n)
  BY SelectBy
<1> DEFINE T == {i \in 0 .. Len(s) : f[i] \in Seq(Range(s) \cap S)}
<1>2. Len(s) \in Nat
  OBVIOUS
<1>3. 0 \in T
  <2>1. <<>> \in Seq(Range(s) \cap S)
    OBVIOUS
  <2>2. f[0] \in Seq(Range(s) \cap S)
    BY <1>1, <2>1, Zenon
  <2> QED
    BY <1>2, <2>2
<1>4. ASSUME NEW i \in 1 .. Len(s), i - 1 \in T PROVE i \in T
  <2>1. s[i] \in Range(s)
    BY DEF Range
  <2>2. SelectStep(f, s, S, i) /\ f[i - 1] \in Seq(Range(s) \cap S)
    BY <1>1, <1>4
  <2>3. f[i] \in Seq(Range(s) \cap S)
    BY <2>1, <2>2 DEF SelectStep
  <2> QED
    BY <1>2, <2>3
<1> HIDE DEF T
<1>5. \A i \in 0 .. Len(s) : i \in T
  BY <1>2, <1>3, <1>4, UpTo
<1>6. Len(s) \in T
  BY <1>2, <1>5
<1> QED
  BY <1>1, <1>6 DEF T

\* A set that has every element selects them all.
LEMMA SelectAll ==
    ASSUME NEW X, NEW s \in Seq(X), NEW S, Range(s) \subseteq S
    PROVE  Select(s, S) = s
<1>1. PICK f : /\ Select(s, S) = f[Len(s)] /\ f[0] = <<>>
               /\ \A n \in 1 .. Len(s) : SelectStep(f, s, S, n)
  BY SelectBy
<1>2. Len(s) \in Nat /\ DOMAIN s = 1 .. Len(s)
  OBVIOUS
<1> DEFINE T == {i \in 0 .. Len(s) : f[i] \in Seq(X) /\ Len(f[i]) = i /\ \A k \in 1 .. i : f[i][k] = s[k]}
<1>3. 0 \in T
  <2>1. <<>> \in Seq(X) /\ Len(<<>>) = 0
    OBVIOUS
  <2>2. f[0] \in Seq(X) /\ Len(f[0]) = 0
    BY <1>1, <2>1, Zenon
  <2> QED
    BY <1>2, <2>2
<1>4. ASSUME NEW i \in 1 .. Len(s), i - 1 \in T PROVE i \in T
  <2>1. s[i] \in S /\ s[i] \in X
    BY <1>2 DEF Range
  <2>2. f[i] = Append(f[i - 1], s[i])
    BY <1>1, <2>1 DEF SelectStep
  <2>3. f[i - 1] \in Seq(X) /\ Len(f[i - 1]) = i - 1 /\ \A k \in 1 .. i - 1 : f[i - 1][k] = s[k]
    BY <1>4
  <2> DEFINE a == f[i - 1]
  <2> HIDE DEF a
  <2>4. i \in Nat /\ f[i] = Append(a, s[i]) /\ a \in Seq(X) /\ Len(a) = i - 1 /\ \A k \in 1 .. i - 1 : a[k] = s[k]
    BY <1>2, <2>2, <2>3 DEF a
  <2>5. f[i] \in Seq(X) /\ Len(f[i]) = i /\ \A k \in 1 .. i : f[i][k] = s[k]
    BY <2>1, <2>4
  <2> QED
    BY <1>2, <2>5
<1> HIDE DEF T
<1>5. \A i \in 0 .. Len(s) : i \in T
  BY <1>2, <1>3, <1>4, UpTo
<1>6. Len(s) \in T
  BY <1>2, <1>5
<1>7. f[Len(s)] \in Seq(X) /\ Len(f[Len(s)]) = Len(s) /\ \A k \in 1 .. Len(s) : f[Len(s)][k] = s[k]
  BY <1>6 DEF T
<1>8. f[Len(s)] = s
  BY <1>7, SeqEqual
<1> QED
  BY <1>1, <1>8
-----------------------------------------------------------------------------
(* The conversation *)

LEMMA TheOne == \A x : The({x}) = x
BY DEF The

LEMMA TheIsIn ==
    ASSUME NEW o, o # {}
    PROVE  The(o) \in o
BY DEF The

\* What is known of a message that is asked.
IsMessage(m) ==
    /\ IsOption(m.role)
    /\ m.content.kind \in {"absent", "string", "parts", "other"}
    /\ m.content.kind = "absent" => m.content.texts = <<>>

LEMMA RoleOf ==
    ASSUME NEW m, IsMessage(m)
    PROVE  Role(m) = "system" <=> m.role = {"system"}
<1>1. CASE m.role = {}
  BY <1>1 DEF Role, OrElse
<1>2. CASE m.role # {}
  <2>1. PICK x \in m.role : x = The(m.role)
    BY <1>2, TheIsIn
  <2>2. m.role = {x}
    BY <2>1 DEF IsMessage, IsOption
  <2> QED
    BY <1>2, <2>1, <2>2 DEF Role, OrElse
<1> QED
  BY <1>1, <1>2

LEMMA TextsOf ==
    ASSUME NEW m, IsMessage(m)
    PROVE  IF ExtractTextParts(m.content) = {}
           THEN m.content.kind = "other" \/ Range(m.content.types) \ {"text"} # {}
           ELSE Texts(m) = m.content.texts
<1> DEFINE c == m.content
<1>1. c.kind \in {"absent", "string", "parts", "other"} /\ (c.kind = "absent" => c.texts = <<>>)
  BY DEF IsMessage
<1> HIDE DEF c
<1>2. Texts(m) = The(ExtractTextParts(c))
  BY DEF Texts, c
<1>3. CASE c.kind = "absent"
  <2>1. ExtractTextParts(c) = {<<>>}
    BY <1>3 DEF ExtractTextParts
  <2> QED
    BY <1>1, <1>2, <1>3, <2>1, TheOne DEF c
<1>4. CASE c.kind = "string" \/ (c.kind = "parts" /\ Range(c.types) \subseteq {"text"})
  <2>1. ExtractTextParts(c) = {c.texts}
    BY <1>4 DEF ExtractTextParts
  <2> QED
    BY <1>2, <2>1, TheOne DEF c
<1>5. CASE c.kind = "other" \/ (c.kind = "parts" /\ ~(Range(c.types) \subseteq {"text"}))
  <2>1. ExtractTextParts(c) = {}
    BY <1>5 DEF ExtractTextParts
  <2> QED
    BY <1>5, <2>1 DEF c
<1> QED
  BY <1>1, <1>3, <1>4, <1>5

\* What the client asked, and what is sent for it.
ConversationPart ==
    conversation # {} =>
        \E said \in Conversations : conversation = {said} /\ request = OpenAIToConverse(said)

LEMMA ConversationInductive ==
    /\ UpstreamInit => ConversationPart
    /\ ConversationPart /\ [UpstreamNext]_upstreamVars => ConversationPart'
<1>1. UpstreamInit => ConversationPart
  BY DEF UpstreamInit, ConversationPart
<1> SUFFICES ASSUME ConversationPart, [UpstreamNext]_upstreamVars PROVE ConversationPart'
  BY <1>1
<1>2. CASE BuildConverseBody
  BY <1>2 DEF BuildConverseBody, ConversationPart
<1>3. CASE Respond
  BY <1>3 DEF Respond, ConversationPart
<1>4. CASE UNCHANGED <<conversation, request>>
  BY <1>4 DEF ConversationPart
<1>5. ASSUME NEW units, ReceiveFrames(units) \/ ReceiveEvents(units) PROVE UNCHANGED <<conversation, request>>
  BY <1>5 DEF ReceiveFrames, ReceiveEvents
<1>6. Close \/ Break \/ UNCHANGED upstreamVars => UNCHANGED <<conversation, request>>
  BY DEF Close, Break, upstreamVars
<1> QED
  BY <1>2, <1>3, <1>4, <1>5, <1>6 DEF UpstreamNext

\* What is sent for a conversation that has messages, each of which can be kept.
LEMMA SentFor ==
    ASSUME NEW messages, messages \in Seq(Range(messages)),
           \A m \in Range(messages) : IsMessage(m) /\ ExtractTextParts(m.content) # {}
    PROVE  LET texts(ms) == FlattenSeq([i \in DOMAIN ms |-> ms[i].content.texts])
               system == {m \in Range(messages) : m.role = {"system"}}
               others == Select(messages, Range(messages) \ system)
           IN /\ System(messages) = texts(Select(messages, system))
              /\ Len(Others(messages)) = Len(others)
              /\ \A i \in DOMAIN others : Others(messages)[i].texts = others[i].content.texts
<1> DEFINE R == Range(messages)
           system == {m \in R : m.role = {"system"}}
           first == Select(messages, system)
           others == Select(messages, R \ system)
<1>1. {m \in R : Role(m) = "system"} = system /\ {m \in R : Role(m) # "system"} = R \ system
  BY RoleOf
<1>2. first \in Seq(R) /\ others \in Seq(R)
  <2>1. first \in Seq(R \cap system) /\ others \in Seq(R \cap (R \ system))
    BY SelectFrom
  <2> QED
    BY <2>1
<1>3. \A m \in R : Texts(m) = m.content.texts
  BY TextsOf
<1>4. System(messages) = FlattenSeq([i \in DOMAIN first |-> Texts(first[i])])
  BY <1>1 DEF System
<1>5. Others(messages) = [i \in DOMAIN others |-> [role |-> Role(others[i]), texts |-> Texts(others[i])]]
  BY <1>1 DEF Others
<1> HIDE DEF first, others, R, system
<1>6. [i \in DOMAIN first |-> Texts(first[i])] = [i \in DOMAIN first |-> first[i].content.texts]
  <2>1. \A i \in DOMAIN first : first[i] \in R
    BY <1>2
  <2> QED
    BY <1>3, <2>1
<1>7. \A i \in DOMAIN others : others[i] \in R
  BY <1>2
<1>8. Len(Others(messages)) = Len(others)
  BY <1>2, <1>5
<1>9. \A i \in DOMAIN others : Others(messages)[i].texts = others[i].content.texts
  BY <1>3, <1>5, <1>7
<1> QED
  BY <1>4, <1>6, <1>8, <1>9 DEF first, others, R, system

\* Of every conversation, of any number of messages, nothing gets lost on the way
\* to Converse.
THEOREM ConversationHolds == UpstreamSpec => []ConversationKept
<1>1. ConversationPart => ConversationKept
  <2> SUFFICES ASSUME ConversationPart, conversation # {} PROVE ConversationKept
    BY DEF ConversationKept
  <2>1. PICK said \in Conversations : conversation = {said} /\ request = OpenAIToConverse(said)
    BY DEF ConversationPart
  <2>2. The(conversation) = said
    BY <2>1, TheOne
  <2> DEFINE messages == The(said.messages)
             texts(ms) == FlattenSeq([i \in DOMAIN ms |-> ms[i].content.texts])
             system == {m \in Range(messages) : m.role = {"system"}}
             others == Select(messages, Range(messages) \ system)
  <2>3. said.messages # {} =>
          messages \in Seq(Range(messages)) /\ \A m \in Range(messages) : IsMessage(m)
    <3> SUFFICES ASSUME said.messages # {} 
                 PROVE  messages \in Seq(Range(messages)) /\ \A m \in Range(messages) : IsMessage(m)
      OBVIOUS
    <3>1. messages \in said.messages
      BY TheIsIn
    <3> HIDE DEF messages
    <3> QED
      BY <3>1, ConversationsAssumption DEF IsMessage
  <2>4. CASE request = {}
    <3>1. \/ said.model = {} \/ said.messages = {}
          \/ \E m \in Range(messages) : ExtractTextParts(m.content) = {}
      BY <2>1, <2>4 DEF OpenAIToConverse
    <3>2. \/ said.model = {} \/ said.messages = {}
          \/ \E m \in Range(messages) : m.content.kind = "other" \/ Range(m.content.types) \ {"text"} # {}
      <4> HIDE DEF messages
      <4> QED
        BY <2>3, <3>1, TextsOf
    <3> QED
      BY <2>2, <2>4, <3>2 DEF ConversationKept
  <2>5. CASE request # {}
    <3> DEFINE posted == [model |-> The(said.model), stream |-> OrElse(said.stream, FALSE),
                        system |-> System(messages), messages |-> Others(messages),
                        maxTokens |-> IF said.max_completion_tokens # {} THEN said.max_completion_tokens
                                      ELSE said.max_tokens,
                        stopSequences |-> StopSequences(said.stop)]
    <3>1. /\ said.messages # {} /\ \A m \in Range(messages) : ExtractTextParts(m.content) # {}
          /\ request = {posted}
      BY <2>1, <2>5, Zenon DEF OpenAIToConverse
    <3>2. The(request) = posted
      BY <3>1, TheOne
    <3>3. /\ posted.system = System(messages) /\ posted.messages = Others(messages)
          /\ posted.maxTokens = IF said.max_completion_tokens # {} THEN said.max_completion_tokens
                              ELSE said.max_tokens
      OBVIOUS
    <3> HIDE DEF posted
    <3>4. /\ System(messages) = texts(Select(messages, system))
          /\ Len(Others(messages)) = Len(others)
          /\ \A i \in DOMAIN others : Others(messages)[i].texts = others[i].content.texts
      <4> HIDE DEF messages
      <4> QED
        BY <2>3, <3>1, SentFor
    <3>5. /\ posted.maxTokens = {} <=> said.max_tokens \cup said.max_completion_tokens = {}
          /\ posted.maxTokens \subseteq said.max_tokens \cup said.max_completion_tokens
          /\ said.max_completion_tokens \subseteq posted.maxTokens
      BY <3>3
    <3>6. /\ posted.system = texts(Select(messages, system))
          /\ Len(posted.messages) = Len(others)
          /\ \A i \in DOMAIN others : posted.messages[i].texts = others[i].content.texts
      BY <3>3, <3>4
    <3> QED
      BY <2>2, <2>5, <3>2, <3>5, <3>6, Zenon DEF ConversationKept
  <2> QED
    BY <2>4, <2>5
<1> QED
  BY <1>1, ConversationInductive, PTL DEF UpstreamSpec

-----------------------------------------------------------------------------
(* The recursions of a stream *)

\* What a frame adds to what those before it are translated to.
Translated(frame, before) ==
    IF frame.type = "untyped" THEN before
    ELSE [out |-> before.out \o EventToSse(frame, before.x).out, x |-> EventToSse(frame, before.x).x]

\* f is the recursion of Translate.
Translates(f, frames, x) ==
    f = [n \in 0 .. Len(frames) |->
            IF n = 0 THEN [out |-> <<>>, x |-> x]
            ELSE LET before == f[n - 1]
                     step == EventToSse(frames[n], before.x)
                 IN IF frames[n].type = "untyped" THEN before
                    ELSE [out |-> before.out \o step.out, x |-> step.x]]
TranslateStep(f, frames, n) == f[n] = Translated(frames[n], f[n - 1])

LEMMA TranslateBy ==
    ASSUME NEW X, NEW frames \in Seq(X), NEW x
    PROVE  \E f : /\ Translate(frames, x) = f[Len(frames)] /\ f[0] = [out |-> <<>>, x |-> x]
                  /\ \A n \in 1 .. Len(frames) : TranslateStep(f, frames, n)
<1> DEFINE N == Len(frames)
           Up(f, m) == /\ f = [n \in 0 .. m |-> f[n]] /\ f[0] = [out |-> <<>>, x |-> x]
                       /\ \A n \in 1 .. m : TranslateStep(f, frames, n)
           T == {m \in 0 .. N : \E f : Up(f, m)}
           h == CHOOSE f : Translates(f, frames, x)
<1>0. N \in Nat
  OBVIOUS
<1>1. Translate(frames, x) = h[N]
  BY DEF Translate, Translates
<1> HIDE DEF N, h
<1>2. 0 \in T
  <2> DEFINE f == [n \in 0 .. 0 |-> [out |-> <<>>, x |-> x]]
  <2>1. Up(f, 0)
    OBVIOUS
  <2> HIDE DEF f, Up
  <2> QED
    BY <1>0, <2>1
<1>3. ASSUME NEW m \in 1 .. N, m - 1 \in T PROVE m \in T
  <2>1. PICK f : Up(f, m - 1)
    BY <1>3
  <2> DEFINE grown == Translated(frames[m], f[m - 1])
             g == [n \in 0 .. m |-> IF n = m THEN grown ELSE f[n]]
  <2> HIDE DEF grown
  <2>2. /\ g = [n \in 0 .. m |-> g[n]] /\ g[m] = grown /\ m \in Nat /\ m # 0
        /\ \A n \in 0 .. m - 1 : g[n] = f[n]
    OBVIOUS
  <2> HIDE DEF g
  <2>3. g[0] = [out |-> <<>>, x |-> x]
    <3>1. 0 \in 0 .. m - 1
      BY <1>0
    <3>2. g[0] = f[0] /\ f[0] = [out |-> <<>>, x |-> x]
      BY <2>1, <2>2, <3>1
    <3> QED
      BY <3>2
  <2>4. ASSUME NEW n \in 1 .. m PROVE TranslateStep(g, frames, n)
    <3>1. CASE n = m
      <4>1. m - 1 \in 0 .. m - 1
        BY <1>0
      <4>2. g[m - 1] = f[m - 1]
        BY <2>2, <4>1
      <4> QED
        BY <2>2, <3>1, <4>2 DEF TranslateStep, grown
    <3>2. CASE n # m
      <4>1. n \in 1 .. m - 1 /\ n \in 0 .. m - 1 /\ n - 1 \in 0 .. m - 1
        BY <1>0, <3>2
      <4>2. g[n] = f[n] /\ g[n - 1] = f[n - 1] /\ TranslateStep(f, frames, n)
        BY <2>1, <2>2, <4>1
      <4> QED
        BY <4>2 DEF TranslateStep
    <3> QED
      BY <3>1, <3>2
  <2>5. Up(g, m)
    BY <2>2, <2>3, <2>4
  <2> HIDE DEF Up
  <2> QED
    BY <1>0, <2>5
<1>4. \E f : Up(f, N)
  <2> HIDE DEF T
  <2>1. \A i \in 0 .. N : i \in T
    BY <1>0, <1>2, <1>3, UpTo
  <2>2. N \in T
    BY <1>0, <2>1
  <2> QED
    BY <2>2 DEF T
<1>5. PICK f : Up(f, N)
  BY <1>4
<1>6. Translates(f, frames, x)
  <2>1. ASSUME NEW n \in 0 .. N, n # 0 PROVE f[n] = Translated(frames[n], f[n - 1])
    <3>1. n \in 1 .. N
      BY <1>0, <2>1
    <3> QED
      BY <1>5, <3>1 DEF TranslateStep
  <2>2. f = [n \in 0 .. N |-> f[n]] /\ f[0] = [out |-> <<>>, x |-> x]
    BY <1>5
  <2>3. f = [n \in 0 .. N |-> IF n = 0 THEN [out |-> <<>>, x |-> x] ELSE Translated(frames[n], f[n - 1])]
    BY <2>1, <2>2
  <2> QED
    BY <2>3 DEF Translates, N, Translated
<1>7. Translates(h, frames, x)
  BY <1>6, Zenon DEF h
<1>8. h = [n \in 0 .. N |-> IF n = 0 THEN [out |-> <<>>, x |-> x] ELSE Translated(frames[n], h[n - 1])]
  BY <1>7 DEF Translates, N, Translated
<1>9. h[0] = [out |-> <<>>, x |-> x]
  BY <1>0, <1>8
<1>10. ASSUME NEW n \in 1 .. N PROVE TranslateStep(h, frames, n)
  <2>1. n \in 0 .. N /\ n # 0
    BY <1>0
  <2> QED
    BY <1>8, <2>1 DEF TranslateStep
<1> QED
  BY <1>1, <1>9, <1>10 DEF N

\* f is the recursion of ScanChunks.
ScansChunks(f, usage, chunks) ==
    f = [n \in 0 .. Len(chunks) |-> IF n = 0 THEN usage ELSE ScanChunk(f[n - 1], chunks[n])]
ChunkStep(f, chunks, n) == f[n] = ScanChunk(f[n - 1], chunks[n])

LEMMA ScanChunksBy ==
    ASSUME NEW X, NEW chunks \in Seq(X), NEW usage
    PROVE  \E f : /\ ScanChunks(usage, chunks) = f[Len(chunks)] /\ f[0] = usage
                  /\ \A n \in 1 .. Len(chunks) : ChunkStep(f, chunks, n)
<1> DEFINE N == Len(chunks)
           Up(f, m) == /\ f = [n \in 0 .. m |-> f[n]] /\ f[0] = usage
                       /\ \A n \in 1 .. m : ChunkStep(f, chunks, n)
           T == {m \in 0 .. N : \E f : Up(f, m)}
           h == CHOOSE f : ScansChunks(f, usage, chunks)
<1>0. N \in Nat
  OBVIOUS
<1>1. ScanChunks(usage, chunks) = h[N]
  BY DEF ScanChunks, ScansChunks
<1> HIDE DEF N, h
<1>2. 0 \in T
  <2> DEFINE f == [n \in 0 .. 0 |-> usage]
  <2>1. Up(f, 0)
    OBVIOUS
  <2> HIDE DEF f, Up
  <2> QED
    BY <1>0, <2>1
<1>3. ASSUME NEW m \in 1 .. N, m - 1 \in T PROVE m \in T
  <2>1. PICK f : Up(f, m - 1)
    BY <1>3
  <2> DEFINE grown == ScanChunk(f[m - 1], chunks[m])
             g == [n \in 0 .. m |-> IF n = m THEN grown ELSE f[n]]
  <2> HIDE DEF grown
  <2>2. /\ g = [n \in 0 .. m |-> g[n]] /\ g[m] = grown /\ m \in Nat /\ m # 0
        /\ \A n \in 0 .. m - 1 : g[n] = f[n]
    OBVIOUS
  <2> HIDE DEF g
  <2>3. g[0] = usage
    <3>1. 0 \in 0 .. m - 1
      BY <1>0
    <3>2. g[0] = f[0] /\ f[0] = usage
      BY <2>1, <2>2, <3>1
    <3> QED
      BY <3>2
  <2>4. ASSUME NEW n \in 1 .. m PROVE ChunkStep(g, chunks, n)
    <3>1. CASE n = m
      <4>1. m - 1 \in 0 .. m - 1
        BY <1>0
      <4>2. g[m - 1] = f[m - 1]
        BY <2>2, <4>1
      <4> QED
        BY <2>2, <3>1, <4>2 DEF ChunkStep, grown
    <3>2. CASE n # m
      <4>1. n \in 1 .. m - 1 /\ n \in 0 .. m - 1 /\ n - 1 \in 0 .. m - 1
        BY <1>0, <3>2
      <4>2. g[n] = f[n] /\ g[n - 1] = f[n - 1] /\ ChunkStep(f, chunks, n)
        BY <2>1, <2>2, <4>1
      <4> QED
        BY <4>2 DEF ChunkStep
    <3> QED
      BY <3>1, <3>2
  <2>5. Up(g, m)
    BY <2>2, <2>3, <2>4
  <2> HIDE DEF Up
  <2> QED
    BY <1>0, <2>5
<1>4. \E f : Up(f, N)
  <2> HIDE DEF T
  <2>1. \A i \in 0 .. N : i \in T
    BY <1>0, <1>2, <1>3, UpTo
  <2>2. N \in T
    BY <1>0, <2>1
  <2> QED
    BY <2>2 DEF T
<1>5. PICK f : Up(f, N)
  BY <1>4
<1>6. ScansChunks(f, usage, chunks)
  <2>1. ASSUME NEW n \in 0 .. N, n # 0 PROVE f[n] = ScanChunk(f[n - 1], chunks[n])
    <3>1. n \in 1 .. N
      BY <1>0, <2>1
    <3> QED
      BY <1>5, <3>1 DEF ChunkStep
  <2>2. f = [n \in 0 .. N |-> f[n]] /\ f[0] = usage
    BY <1>5
  <2>3. f = [n \in 0 .. N |-> IF n = 0 THEN usage ELSE ScanChunk(f[n - 1], chunks[n])]
    BY <2>1, <2>2
  <2> QED
    BY <2>3 DEF ScansChunks, N
<1>7. ScansChunks(h, usage, chunks)
  BY <1>6, Zenon DEF h
<1>8. h = [n \in 0 .. N |-> IF n = 0 THEN usage ELSE ScanChunk(h[n - 1], chunks[n])]
  BY <1>7 DEF ScansChunks, N
<1>9. h[0] = usage
  BY <1>0, <1>8
<1>10. ASSUME NEW n \in 1 .. N PROVE ChunkStep(h, chunks, n)
  <2>1. n \in 0 .. N /\ n # 0
    BY <1>0
  <2> QED
    BY <1>8, <2>1 DEF ChunkStep
<1> QED
  BY <1>1, <1>9, <1>10 DEF N

\* f is the recursion of Push.
Pushes(f, more) ==
    f = [n \in 0 .. more |-> IF n = 0 THEN tapped ELSE ScanEvent(f[n - 1], arriving[taken + n])]
PushStep(f, n) == f[n] = ScanEvent(f[n - 1], arriving[taken + n])

LEMMA PushBy ==
    ASSUME NEW units, units \div 3 - taken \in Nat
    PROVE  \E f : /\ Push(units) = f[units \div 3 - taken] /\ f[0] = tapped
                  /\ \A n \in 1 .. units \div 3 - taken : PushStep(f, n)
<1> DEFINE N == units \div 3 - taken
           Up(f, m) == /\ f = [n \in 0 .. m |-> f[n]] /\ f[0] = tapped
                       /\ \A n \in 1 .. m : PushStep(f, n)
           T == {m \in 0 .. N : \E f : Up(f, m)}
           h == CHOOSE f : Pushes(f, N)
<1>0. N \in Nat
  OBVIOUS
<1>1. Push(units) = h[N]
  BY DEF Push, Pushes
<1> HIDE DEF N, h
<1>2. 0 \in T
  <2> DEFINE f == [n \in 0 .. 0 |-> tapped]
  <2>1. Up(f, 0)
    OBVIOUS
  <2> HIDE DEF f, Up
  <2> QED
    BY <1>0, <2>1
<1>3. ASSUME NEW m \in 1 .. N, m - 1 \in T PROVE m \in T
  <2>1. PICK f : Up(f, m - 1)
    BY <1>3
  <2> DEFINE grown == ScanEvent(f[m - 1], arriving[taken + m])
             g == [n \in 0 .. m |-> IF n = m THEN grown ELSE f[n]]
  <2> HIDE DEF grown
  <2>2. /\ g = [n \in 0 .. m |-> g[n]] /\ g[m] = grown /\ m \in Nat /\ m # 0
        /\ \A n \in 0 .. m - 1 : g[n] = f[n]
    OBVIOUS
  <2> HIDE DEF g
  <2>3. g[0] = tapped
    <3>1. 0 \in 0 .. m - 1
      BY <1>0
    <3>2. g[0] = f[0] /\ f[0] = tapped
      BY <2>1, <2>2, <3>1
    <3> QED
      BY <3>2
  <2>4. ASSUME NEW n \in 1 .. m PROVE PushStep(g, n)
    <3>1. CASE n = m
      <4>1. m - 1 \in 0 .. m - 1
        BY <1>0
      <4>2. g[m - 1] = f[m - 1]
        BY <2>2, <4>1
      <4> QED
        BY <2>2, <3>1, <4>2 DEF PushStep, grown
    <3>2. CASE n # m
      <4>1. n \in 1 .. m - 1 /\ n \in 0 .. m - 1 /\ n - 1 \in 0 .. m - 1
        BY <1>0, <3>2
      <4>2. g[n] = f[n] /\ g[n - 1] = f[n - 1] /\ PushStep(f, n)
        BY <2>1, <2>2, <4>1
      <4> QED
        BY <4>2 DEF PushStep
    <3> QED
      BY <3>1, <3>2
  <2>5. Up(g, m)
    BY <2>2, <2>3, <2>4
  <2> HIDE DEF Up
  <2> QED
    BY <1>0, <2>5
<1>4. \E f : Up(f, N)
  <2> HIDE DEF T
  <2>1. \A i \in 0 .. N : i \in T
    BY <1>0, <1>2, <1>3, UpTo
  <2>2. N \in T
    BY <1>0, <2>1
  <2> QED
    BY <2>2 DEF T
<1>5. PICK f : Up(f, N)
  BY <1>4
<1>6. Pushes(f, N)
  <2>1. ASSUME NEW n \in 0 .. N, n # 0 PROVE f[n] = ScanEvent(f[n - 1], arriving[taken + n])
    <3>1. n \in 1 .. N
      BY <1>0, <2>1
    <3> QED
      BY <1>5, <3>1 DEF PushStep
  <2>2. f = [n \in 0 .. N |-> f[n]] /\ f[0] = tapped
    BY <1>5
  <2>3. f = [n \in 0 .. N |-> IF n = 0 THEN tapped ELSE ScanEvent(f[n - 1], arriving[taken + n])]
    BY <2>1, <2>2
  <2> QED
    BY <2>3 DEF Pushes, N
<1>7. Pushes(h, N)
  BY <1>6, Zenon DEF h
<1>8. h = [n \in 0 .. N |-> IF n = 0 THEN tapped ELSE ScanEvent(h[n - 1], arriving[taken + n])]
  BY <1>7 DEF Pushes, N
<1>9. h[0] = tapped
  BY <1>0, <1>8
<1>10. ASSUME NEW n \in 1 .. N PROVE PushStep(h, n)
  <2>1. n \in 0 .. N /\ n # 0
    BY <1>0
  <2> QED
    BY <1>8, <2>1 DEF PushStep
<1> QED
  BY <1>1, <1>9, <1>10 DEF N

-----------------------------------------------------------------------------
(* The usage of a stream that is not translated *)

\* o is the value of f at the last of S, or there is none.
Latest(o, S, f) ==
    IF S = {} THEN o = {} ELSE \E k \in S : (\A j \in S : j <= k) /\ o = f[k]

Inputs(w) == [i \in DOMAIN w[2] |-> The(w[2][i].usage).input]
Outputs(w) == [i \in DOMAIN w[2] |-> The(w[2][i].usage).output]

\* The events that set the input, the output, and both.
SetsInput(e) == e.usage # {} /\ e.type = "message_start" /\ The(e.usage).input # {}
SetsOutput(e) == e.usage # {} /\ e.type # "message_start" /\ The(e.usage).output # {}
SetsBoth(e) == e.usage # {} /\ The(e.usage).input # {} /\ The(e.usage).output # {}

\* The usage of the first n events.
Scanned(w, usage, n) ==
    /\ usage = [input |-> usage.input, output |-> usage.output]
    /\ w[1] = "anthropic" =>
          /\ Latest(usage.input, {i \in 1 .. n : SetsInput(w[2][i])}, Inputs(w))
          /\ Latest(usage.output, {i \in 1 .. n : SetsOutput(w[2][i])}, Outputs(w))
    /\ w[1] = "open_ai" =>
          /\ Latest(usage.input, {i \in 1 .. n : SetsBoth(w[2][i])}, Inputs(w))
          /\ Latest(usage.output, {i \in 1 .. n : SetsBoth(w[2][i])}, Outputs(w))

LEMMA LatestGrows ==
    ASSUME NEW n \in Nat, n # 0, NEW f, NEW o, NEW S \in SUBSET (1 .. n - 1)
    PROVE  Latest(f[n], S \cup {n}, f)
<1>1. n \in S \cup {n} /\ \A j \in S \cup {n} : j <= n
  OBVIOUS
<1> QED
  BY <1>1 DEF Latest

LEMMA LatestOf ==
    ASSUME NEW S \in SUBSET Nat, NEW f, NEW o, Latest(o, S, f)
    PROVE  o = UNION {f[i] : i \in LastOf(S)}
<1>1. CASE S = {}
  BY <1>1 DEF Latest, LastOf
<1>2. CASE S # {}
  <2>1. PICK k \in S : (\A j \in S : j <= k) /\ o = f[k]
    BY <1>2 DEF Latest
  <2>2. Max(S) = k
    <3>1. \A x \in S : (\A y \in S : x >= y) => x = k
      BY <2>1
    <3>2. \A y \in S : k >= y
      BY <2>1
    <3> QED
      BY <3>1, <3>2 DEF Max
  <2>3. LastOf(S) = {k}
    BY <1>2, <2>2 DEF LastOf
  <2> QED
    BY <2>1, <2>3
<1> QED
  BY <1>1, <1>2

\* One more event is scanned.
LEMMA ScannedGrows ==
    ASSUME arriving \in Seq(Range(arriving)), wire[1] \in {"anthropic", "open_ai"},
           NEW n \in 1 .. Len(arriving), NEW usage, Scanned(wire, usage, n - 1)
    PROVE  Scanned(wire, ScanEvent(usage, arriving[n]), n)
<1> DEFINE e == arriving[n]
           next == ScanEvent(usage, e)
           I(k) == {i \in 1 .. k : SetsInput(wire[2][i])}
           O(k) == {i \in 1 .. k : SetsOutput(wire[2][i])}
           B(k) == {i \in 1 .. k : SetsBoth(wire[2][i])}
<1>1. n \in Nat /\ n # 0 /\ wire[2][n] = e /\ n - 1 \in Nat
  BY DEF arriving
<1>2. /\ Inputs(wire)[n] = The(e.usage).input /\ Outputs(wire)[n] = The(e.usage).output
  BY DEF Inputs, Outputs, arriving
<1>3. /\ I(n - 1) \in SUBSET (1 .. n - 1) /\ O(n - 1) \in SUBSET (1 .. n - 1) /\ B(n - 1) \in SUBSET (1 .. n - 1)
  OBVIOUS
<1>4. /\ I(n) = IF SetsInput(e) THEN I(n - 1) \cup {n} ELSE I(n - 1)
      /\ O(n) = IF SetsOutput(e) THEN O(n - 1) \cup {n} ELSE O(n - 1)
      /\ B(n) = IF SetsBoth(e) THEN B(n - 1) \cup {n} ELSE B(n - 1)
  <2>1. 1 .. n = (1 .. n - 1) \cup {n} /\ n \notin 1 .. n - 1
    BY <1>1
  <2> QED
    BY <1>1, <2>1
<1>5. /\ Latest(The(e.usage).input, I(n - 1) \cup {n}, Inputs(wire))
      /\ Latest(The(e.usage).output, O(n - 1) \cup {n}, Outputs(wire))
      /\ Latest(The(e.usage).input, B(n - 1) \cup {n}, Inputs(wire))
      /\ Latest(The(e.usage).output, B(n - 1) \cup {n}, Outputs(wire))
  <2> HIDE DEF I, O, B, e
  <2> QED
    BY <1>1, <1>2, <1>3, LatestGrows
<1>6. usage = [input |-> usage.input, output |-> usage.output]
  BY DEF Scanned
<1>7. CASE wire[1] = "anthropic"
  <2>1. Latest(usage.input, I(n - 1), Inputs(wire)) /\ Latest(usage.output, O(n - 1), Outputs(wire))
    BY <1>7 DEF Scanned
  <2>2. /\ next = [input |-> next.input, output |-> next.output]
        /\ next.input = IF SetsInput(e) THEN The(e.usage).input ELSE usage.input
        /\ next.output = IF SetsOutput(e) THEN The(e.usage).output ELSE usage.output
    <3> HIDE DEF e
    <3>1. CASE e.usage = {}
      BY <1>6, <1>7, <3>1 DEF ScanEvent, SetsInput, SetsOutput
    <3>2. CASE e.usage # {} /\ e.type = "message_start"
      <4>1. next = IF The(e.usage).input = {} THEN usage ELSE [usage EXCEPT !.input = The(e.usage).input]
        BY <1>7, <3>2 DEF ScanEvent
      <4> QED
        BY <1>6, <3>2, <4>1 DEF SetsInput, SetsOutput
    <3>3. CASE e.usage # {} /\ e.type # "message_start"
      <4>1. next = IF The(e.usage).output = {} THEN usage ELSE [usage EXCEPT !.output = The(e.usage).output]
        BY <1>7, <3>3 DEF ScanEvent
      <4> QED
        BY <1>6, <3>3, <4>1 DEF SetsInput, SetsOutput
    <3> QED
      BY <3>1, <3>2, <3>3
  <2> HIDE DEF next, I, O, B, e
  <2>3. Latest(next.input, I(n), Inputs(wire)) /\ Latest(next.output, O(n), Outputs(wire))
    BY <1>4, <1>5, <2>1, <2>2
  <2>4. wire[1] # "open_ai"
    BY <1>7
  <2> QED
    BY <2>2, <2>3, <2>4 DEF Scanned, next, I, O, e
<1>8. CASE wire[1] = "open_ai"
  <2>1. Latest(usage.input, B(n - 1), Inputs(wire)) /\ Latest(usage.output, B(n - 1), Outputs(wire))
    BY <1>8 DEF Scanned
  <2>2. /\ next = [input |-> next.input, output |-> next.output]
        /\ next.input = IF SetsBoth(e) THEN The(e.usage).input ELSE usage.input
        /\ next.output = IF SetsBoth(e) THEN The(e.usage).output ELSE usage.output
    <3> HIDE DEF e
    <3>1. CASE e.usage = {}
      BY <1>6, <1>8, <3>1 DEF ScanEvent, SetsBoth
    <3>2. CASE e.usage # {}
      <4>1. next = IF The(e.usage).input = {} \/ The(e.usage).output = {} THEN usage
                   ELSE [input |-> The(e.usage).input, output |-> The(e.usage).output]
        BY <1>8, <3>2 DEF ScanEvent
      <4> QED
        BY <1>6, <3>2, <4>1 DEF SetsBoth
    <3> QED
      BY <3>1, <3>2
  <2> HIDE DEF next, I, O, B, e
  <2>3. Latest(next.input, B(n), Inputs(wire)) /\ Latest(next.output, B(n), Outputs(wire))
    BY <1>4, <1>5, <2>1, <2>2
  <2>4. wire[1] # "anthropic"
    BY <1>8
  <2> QED
    BY <2>2, <2>3, <2>4 DEF Scanned, next, B, e
<1> QED
  BY <1>7, <1>8

\* What a piece completes is scanned.
LEMMA PushScans ==
    ASSUME arriving \in Seq(Range(arriving)), wire[1] \in {"anthropic", "open_ai"},
           taken \in Nat, NEW units, units \div 3 \in taken .. Len(arriving),
           Scanned(wire, tapped, taken)
    PROVE  Scanned(wire, Push(units), units \div 3)
<1> DEFINE k == units \div 3
<1>0. k \in Nat /\ taken <= k /\ k <= Len(arriving) /\ k - taken \in Nat /\ Len(arriving) \in Nat
  OBVIOUS
<1>1. PICK f : /\ Push(units) = f[k - taken] /\ f[0] = tapped
               /\ \A n \in 1 .. k - taken : PushStep(f, n)
  BY <1>0, PushBy
<1> DEFINE T == {i \in 0 .. k - taken : Scanned(wire, f[i], taken + i)}
<1> HIDE DEF k
<1>2. 0 \in T
  BY <1>0, <1>1
<1>3. ASSUME NEW i \in 1 .. k - taken, i - 1 \in T PROVE i \in T
  <2>1. Scanned(wire, f[i - 1], taken + (i - 1)) /\ f[i] = ScanEvent(f[i - 1], arriving[taken + i])
    BY <1>1, <1>3 DEF PushStep
  <2>2. taken + i \in 1 .. Len(arriving) /\ taken + (i - 1) = (taken + i) - 1 /\ i \in 0 .. k - taken
    BY <1>0
  <2>3. Scanned(wire, f[i], taken + i)
    BY <2>1, <2>2, ScannedGrows
  <2> QED
    BY <2>2, <2>3
<1> HIDE DEF T
<1>4. \A i \in 0 .. k - taken : i \in T
  BY <1>0, <1>2, <1>3, UpTo
<1>5. k - taken \in T /\ taken + (k - taken) = k
  BY <1>0, <1>4
<1> QED
  BY <1>1, <1>5 DEF T, k


LEMMA ReportedTapped ==
    ASSUME arriving \in Seq(Range(arriving)), wire[1] \in {"anthropic", "open_ai"},
           NEW usage, fed \in 0 .. 3 * Len(arriving), taken = fed \div 3,
           Scanned(wire, usage, taken), reported = {Finish(usage, taken, fed)}
    PROVE  UsageTapped
<1> DEFINE L == Len(arriving)
           n == IF taken < L /\ fed >= 3 * taken + 2 THEN taken + 1 ELSE taken
           final == Finish(usage, taken, fed)
<1>1. L \in Nat /\ fed \in Nat /\ taken \in Nat /\ taken <= L /\ 3 * taken <= fed /\ fed < 3 * taken + 3
  OBVIOUS
<1>2. n \in 0 .. L /\ \A i \in 1 .. L : fed >= 3 * i - 1 <=> i <= n
  BY <1>1
<1>3. Scanned(wire, final, n)
  <2>1. CASE taken < L /\ fed >= 3 * taken + 2
    <3>1. final = ScanEvent(usage, arriving[taken + 1])
      BY <2>1 DEF Finish
    <3>2. taken + 1 \in 1 .. Len(arriving) /\ (taken + 1) - 1 = taken
      BY <1>1, <2>1
    <3>3. Scanned(wire, ScanEvent(usage, arriving[taken + 1]), taken + 1)
      BY <3>2, ScannedGrows
    <3> QED
      BY <2>1, <3>1, <3>3
  <2>2. CASE ~(taken < L /\ fed >= 3 * taken + 2)
    BY <2>2 DEF Finish
  <2> QED
    BY <2>1, <2>2
<1>4. The(reported) = final
  BY TheOne
<1> HIDE DEF n, final
<1> DEFINE arrived == {i \in DOMAIN arriving : fed >= 3 * i - 1 /\ arriving[i].usage # {}}
           u(i) == The(arriving[i].usage)
           starts == {i \in arrived : arriving[i].type = "message_start" /\ u(i).input # {}}
           deltas == {i \in arrived : arriving[i].type # "message_start" /\ u(i).output # {}}
           boths == {i \in arrived : u(i).input # {} /\ u(i).output # {}}
<1>5. DOMAIN arriving = 1 .. L /\ arriving = wire[2]
  BY DEF arriving
<1>6. arrived = {i \in 1 .. n : arriving[i].usage # {}}
  <2>1. \A i : i \in 1 .. n <=> i \in DOMAIN arriving /\ fed >= 3 * i - 1
    BY <1>1, <1>2, <1>5
  <2> QED
    BY <2>1
<1>7. /\ starts = {i \in 1 .. n : SetsInput(wire[2][i])}
      /\ deltas = {i \in 1 .. n : SetsOutput(wire[2][i])}
      /\ boths = {i \in 1 .. n : SetsBoth(wire[2][i])}
  <2> HIDE DEF arrived
  <2> QED
    BY <1>5, <1>6 DEF SetsInput, SetsOutput, SetsBoth
<1>8. starts \in SUBSET Nat /\ deltas \in SUBSET Nat /\ boths \in SUBSET Nat
  <2>1. arrived \in SUBSET Nat
    BY <1>1, <1>2, <1>6
  <2> QED
    BY <2>1
<1>9. /\ \A i \in DOMAIN arriving : Inputs(wire)[i] = u(i).input /\ Outputs(wire)[i] = u(i).output
  BY <1>5 DEF Inputs, Outputs
<1>10. ASSUME NEW S \in SUBSET (DOMAIN arriving), NEW o
       PROVE  /\ Latest(o, S, Inputs(wire)) => o = UNION {u(i).input : i \in LastOf(S)}
              /\ Latest(o, S, Outputs(wire)) => o = UNION {u(i).output : i \in LastOf(S)}
  <2>1. S \in SUBSET Nat
    BY <1>1, <1>5
  <2>2. /\ Latest(o, S, Inputs(wire)) => o = UNION {Inputs(wire)[i] : i \in LastOf(S)}
        /\ Latest(o, S, Outputs(wire)) => o = UNION {Outputs(wire)[i] : i \in LastOf(S)}
    BY <2>1, LatestOf
  <2>3. S # {} /\ (Latest(o, S, Inputs(wire)) \/ Latest(o, S, Outputs(wire))) => LastOf(S) \subseteq DOMAIN arriving
    <3> SUFFICES ASSUME S # {}, Latest(o, S, Inputs(wire)) \/ Latest(o, S, Outputs(wire))
                 PROVE  LastOf(S) \subseteq DOMAIN arriving
      OBVIOUS
    <3>1. PICK k \in S : \A j \in S : j <= k
      BY DEF Latest
    <3>2. Max(S) \in S
      <4>1. \A y \in S : k >= y
        BY <2>1, <3>1
      <4> QED
        BY <4>1 DEF Max
    <3> QED
      BY <3>2 DEF LastOf
  <2>4. S = {} => LastOf(S) = {}
    BY DEF LastOf
  <2> QED
    BY <1>9, <2>2, <2>3, <2>4
<1>11. starts \in SUBSET (DOMAIN arriving) /\ deltas \in SUBSET (DOMAIN arriving) /\ boths \in SUBSET (DOMAIN arriving)
  OBVIOUS
<1>12. CASE wire[1] = "anthropic"
  <2>1. Latest(final.input, starts, Inputs(wire)) /\ Latest(final.output, deltas, Outputs(wire))
    BY <1>3, <1>7, <1>12 DEF Scanned
  <2>2. /\ final.input = UNION {u(i).input : i \in LastOf(starts)}
        /\ final.output = UNION {u(i).output : i \in LastOf(deltas)}
    <3> HIDE DEF starts, deltas, u
    <3> QED
      BY <1>10, <1>11, <2>1
  <2> QED
    BY <1>4, <1>12, <2>2 DEF UsageTapped
<1>13. CASE wire[1] = "open_ai"
  <2>1. Latest(final.input, boths, Inputs(wire)) /\ Latest(final.output, boths, Outputs(wire))
    BY <1>3, <1>7, <1>13 DEF Scanned
  <2>2. /\ final.input = UNION {u(i).input : i \in LastOf(boths)}
        /\ final.output = UNION {u(i).output : i \in LastOf(boths)}
    <3> HIDE DEF boths, u
    <3> QED
      BY <1>10, <1>11, <2>1
  <2> QED
    BY <1>4, <1>13, <2>2 DEF UsageTapped
<1> QED
  BY <1>12, <1>13

-----------------------------------------------------------------------------
(* A translated stream *)

IsEnd(e) == e.type \in {"metadata", "exception"}
IsDelta(e) == e.type = "contentBlockDelta" /\ e.text # {}

\* The events of a response that is translated.
IsResponse(a) ==
    /\ a \in Seq(Range(a))
    /\ \A e \in Range(a) :
          IsOption(e.usage) /\ "tool" \notin e.text /\ (e.type # "metadata" => e.usage = {})

TextChunks(chunks) == Select(chunks, {c \in Range(chunks) : c.kind = "text"})
DeltasOf(a, n) == Select(SubSeq(a, 1, n), {e \in Range(a) : IsDelta(e)})

\* The texts of the first n events.
TextsTold(a, chunks, n) ==
    /\ Len(TextChunks(chunks)) = Len(DeltasOf(a, n))
    /\ \A i \in DOMAIN DeltasOf(a, n) : TextChunks(chunks)[i].text = The(DeltasOf(a, n)[i].text)

\* Why the last of them that says so stopped.
FinishTold(a, finish, n) ==
    LET stops == {i \in 1 .. n : a[i].type = "messageStop"}
    IN IF stops = {} THEN finish = {}
       ELSE \E k \in stops : (\A i \in stops : i <= k) /\ finish = {MapFinishReason(a[k].text)}

\* The end comes with the first event that ends the stream, and the usage just
\* before.
EndTold(a, chunks, x, n) ==
    /\ \A i \in 1 .. n - 1 : ~IsEnd(a[i])
    /\ x.done <=> n # 0 /\ IsEnd(a[n])
    /\ x.done => Len(chunks) >= 2
    /\ \A i \in DOMAIN chunks :
          /\ chunks[i].kind = "done" <=> x.done /\ i = Len(chunks)
          /\ chunks[i].kind = "final" <=> x.done /\ a[n].type = "metadata" /\ i = Len(chunks) - 1
          /\ chunks[i].kind # "final" => chunks[i].usage = {}
          /\ chunks[i].kind = "final" => /\ chunks[i].text = OrElse(x.finish, "stop")
                                         /\ chunks[i].usage = {RenameUsage(u) : u \in a[n].usage}

IsXlate(x) == x = [finish |-> x.finish, done |-> x.done] /\ x.done \in BOOLEAN

\* What the first n events of a response are translated to.
Told(a, chunks, x, n) ==
    /\ chunks \in Seq(Range(chunks)) /\ IsXlate(x) /\ n \in 0 .. Len(a)
    /\ TextsTold(a, chunks, n) /\ FinishTold(a, x.finish, n) /\ EndTold(a, chunks, x, n)

LEMMA AppendRanges ==
    ASSUME NEW s, s \in Seq(Range(s)), NEW c
    PROVE  /\ Append(s, c) \in Seq(Range(Append(s, c)))
           /\ Range(Append(s, c)) = Range(s) \cup {c}
<1> DEFINE X == Range(s) \cup {c}
           t == Append(s, c)
<1>1. s \in Seq(X)
  <2>1. Range(s) \subseteq X
    OBVIOUS
  <2> HIDE DEF X
  <2> QED
    BY <2>1, SeqMonotonic
<1>2. c \in X
  OBVIOUS
<1> HIDE DEF X
<1>3. t \in Seq(X) /\ Len(t) = Len(s) + 1 /\ Len(s) \in Nat /\ (\A i \in 1 .. Len(s) : t[i] = s[i]) /\ t[Len(s) + 1] = c
  BY <1>1, <1>2
<1> HIDE DEF t
<1>4. DOMAIN t = 1 .. Len(s) + 1 /\ DOMAIN s = 1 .. Len(s)
  BY <1>1, <1>3
<1>5. Range(t) = Range(s) \cup {c}
  <2>1. ASSUME NEW y \in Range(t) PROVE y \in Range(s) \cup {c}
    <3>1. PICK i \in DOMAIN t : y = t[i]
      BY DEF Range
    <3>2. CASE i = Len(s) + 1
      BY <1>3, <3>1, <3>2
    <3>3. CASE i # Len(s) + 1
      <4>1. i \in 1 .. Len(s)
        BY <1>3, <1>4, <3>3
      <4>2. y = s[i] /\ i \in DOMAIN s
        BY <1>3, <1>4, <3>1, <4>1
      <4> QED
        BY <4>2 DEF Range
    <3> QED
      BY <3>2, <3>3
  <2>2. ASSUME NEW y \in Range(s) PROVE y \in Range(t)
    <3>1. PICK i \in DOMAIN s : y = s[i]
      BY DEF Range
    <3>2. i \in DOMAIN t /\ t[i] = y
      BY <1>3, <1>4, <3>1
    <3> QED
      BY <3>2 DEF Range
  <2>3. c \in Range(t)
    <3>1. Len(s) + 1 \in DOMAIN t
      BY <1>3, <1>4
    <3> QED
      BY <1>3, <3>1 DEF Range
  <2> QED
    BY <2>1, <2>2, <2>3
<1> QED
  BY <1>3, <1>5 DEF X, t

LEMMA TextChunksGrow ==
    ASSUME NEW s, s \in Seq(Range(s)), NEW c
    PROVE  TextChunks(Append(s, c)) = IF c.kind = "text" THEN Append(TextChunks(s), c) ELSE TextChunks(s)
<1> DEFINE S == {d \in Range(s) : d.kind = "text"}
           U == {d \in Range(Append(s, c)) : d.kind = "text"}
<1>1. Range(Append(s, c)) = Range(s) \cup {c}
  BY AppendRanges
<1>2. (\A y \in Range(s) : y \in S <=> y \in U) /\ (c \in U <=> c.kind = "text")
  BY <1>1
<1>3. s \in Seq(Range(s) \cup {c}) /\ c \in Range(s) \cup {c}
  <2>1. Range(s) \subseteq Range(s) \cup {c}
    OBVIOUS
  <2> QED
    BY <2>1, SeqMonotonic
<1> HIDE DEF S, U
<1>4. Select(Append(s, c), U) = IF c \in U THEN Append(Select(s, S), c) ELSE Select(s, S)
  BY <1>2, <1>3, SelectGrows
<1> QED
  BY <1>2, <1>4 DEF TextChunks, S, U

LEMMA DeltasGrow ==
    ASSUME NEW a, a \in Seq(Range(a)), NEW n \in 1 .. Len(a)
    PROVE  DeltasOf(a, n) = IF IsDelta(a[n]) THEN Append(DeltasOf(a, n - 1), a[n]) ELSE DeltasOf(a, n - 1)
<1> DEFINE R == Range(a)
           D == {e \in R : IsDelta(e)}
           s == SubSeq(a, 1, n - 1)
<1>1. a[n] \in R
  BY DEF Range
<1>2. s \in Seq(R) /\ SubSeq(a, 1, n) = Append(s, a[n])
  <2>1. \A i \in 1 .. Len(a) : a[i] \in R
    BY DEF Range
  <2> HIDE DEF R
  <2>2. s \in Seq(R) /\ Len(s) = n - 1 /\ \A i \in 1 .. n - 1 : s[i] = a[i]
    <3>1. /\ SubSeq(a, 1, n - 1) \in Seq(R)
          /\ Len(SubSeq(a, 1, n - 1)) = IF 1 <= n - 1 THEN n - 1 - 1 + 1 ELSE 0
          /\ \A i \in 1 .. n - 1 - 1 + 1 : SubSeq(a, 1, n - 1)[i] = a[1 + i - 1]
      BY <2>1, SubSeqProperties
    <3> QED
      BY <3>1
  <2>3. /\ SubSeq(a, 1, n) \in Seq(R) /\ Len(SubSeq(a, 1, n)) = n
        /\ \A i \in 1 .. n : SubSeq(a, 1, n)[i] = a[i]
    <3>1. /\ SubSeq(a, 1, n) \in Seq(R)
          /\ Len(SubSeq(a, 1, n)) = IF 1 <= n THEN n - 1 + 1 ELSE 0
          /\ \A i \in 1 .. n - 1 + 1 : SubSeq(a, 1, n)[i] = a[1 + i - 1]
      BY <2>1, SubSeqProperties
    <3> QED
      BY <3>1
  <2> HIDE DEF s
  <2>4. Append(s, a[n]) \in Seq(R) /\ Len(Append(s, a[n])) = n /\ \A i \in 1 .. n : Append(s, a[n])[i] = a[i]
    BY <1>1, <2>2
  <2>5. SubSeq(a, 1, n) = Append(s, a[n])
    BY <2>3, <2>4, SeqEqual
  <2> QED
    BY <2>2, <2>5
<1> HIDE DEF s
<1>4. a[n] \in D <=> IsDelta(a[n])
  BY <1>1
<1>3. Select(Append(s, a[n]), D) = IF a[n] \in D THEN Append(Select(s, D), a[n]) ELSE Select(s, D)
  <2> DEFINE c == a[n]
  <2>1. c \in R /\ s \in Seq(R) /\ \A y \in Range(s) : y \in D <=> y \in D
    BY <1>1, <1>2
  <2> HIDE DEF R, D, c
  <2>2. Select(Append(s, c), D) = IF c \in D THEN Append(Select(s, D), c) ELSE Select(s, D)
    BY <2>1, SelectGrows
  <2> QED
    BY <2>2 DEF c
<1> QED
  BY <1>2, <1>3, <1>4 DEF DeltasOf, s

\* What an event is translated to while the stream has not ended.
ChunkOf(kind, text, usage) == [kind |-> kind, text |-> text, usage |-> usage]

LEMMA XlateExcept ==
    ASSUME NEW p, NEW d, NEW g
    PROVE  /\ [[finish |-> p, done |-> d] EXCEPT !.finish = g] = [finish |-> g, done |-> d]
           /\ [[finish |-> p, done |-> d] EXCEPT !.done = g] = [finish |-> p, done |-> g]
OBVIOUS

LEMMA TranslatedIs ==
    ASSUME NEW e, NEW before, IsXlate(before.x), ~before.x.done
    PROVE  LET t == Translated(e, before)
               done == ChunkOf("done", "", {})
           IN \/ /\ e.type = "messageStart"
                 /\ \E text : t.out = before.out \o <<ChunkOf("role", text, {})>>
                 /\ t.x = before.x
              \/ /\ IsDelta(e) /\ t.out = before.out \o <<ChunkOf("text", The(e.text), {})>>
                 /\ t.x = before.x
              \/ /\ e.type = "messageStop" /\ t.out = before.out \o <<>>
                 /\ t.x = [finish |-> {MapFinishReason(e.text)}, done |-> FALSE]
              \/ /\ e.type = "metadata"
                 /\ t.out = before.out \o (<<ChunkOf("final", OrElse(before.x.finish, "stop"),
                                              {RenameUsage(u) : u \in e.usage})>> \o <<done>>)
                 /\ t.x = [finish |-> before.x.finish, done |-> TRUE]
              \/ /\ e.type = "exception"
                 /\ \E text : t.out = before.out \o (<<ChunkOf("error", text, {})>> \o <<done>>)
                 /\ t.x = [finish |-> before.x.finish, done |-> TRUE]
              \/ /\ ~IsEnd(e) /\ ~IsDelta(e) /\ e.type \notin {"messageStart", "messageStop"}
                 /\ (t.out = before.out \/ t.out = before.out \o <<>>) /\ t.x = before.x
<1> DEFINE x == before.x
           s == EventToSse(e, x)
           t == Translated(e, before)
<1>0. IsXlate(x) /\ ~x.done
  OBVIOUS
<1>00. x = [finish |-> x.finish, done |-> FALSE]
  BY DEF IsXlate
<1> HIDE DEF x
<1> DEFINE f == x.finish
<1>01. x = [finish |-> f, done |-> FALSE]
  BY <1>00
<1> HIDE DEF f
<1>02. \A g : [x EXCEPT !.finish = g] = [finish |-> g, done |-> FALSE] /\ [x EXCEPT !.done = TRUE] = [finish |-> f, done |-> TRUE]
  <2>1. ASSUME NEW p, NEW g
        PROVE  /\ [[finish |-> p, done |-> FALSE] EXCEPT !.finish = g] = [finish |-> g, done |-> FALSE]
               /\ [[finish |-> p, done |-> FALSE] EXCEPT !.done = TRUE] = [finish |-> p, done |-> TRUE]
    <3>1. PICK no : no = FALSE
      OBVIOUS
    <3>2. PICK yes : yes = TRUE
      OBVIOUS
    <3>3. /\ [[finish |-> p, done |-> no] EXCEPT !.finish = g] = [finish |-> g, done |-> no]
          /\ [[finish |-> p, done |-> no] EXCEPT !.done = yes] = [finish |-> p, done |-> yes]
      BY XlateExcept
    <3> QED
      BY <3>1, <3>2, <3>3, Zenon
  <2> QED
    BY <1>01, <2>1, Zenon
<1>03. f = x.finish
  BY DEF f
<1>1. CASE e.type = "untyped"
  <2>1. t = before
    BY <1>1 DEF Translated
  <2>2. ~IsEnd(e) /\ ~IsDelta(e)
    BY <1>1 DEF IsEnd, IsDelta
  <2> QED
    BY <1>1, <2>1, <2>2
<1>2. CASE e.type # "untyped"
  <2>1. t.out = before.out \o s.out /\ t.x = s.x
    BY <1>2 DEF Translated, x
  <2> HIDE DEF t
  <2>2. CASE e.type = "messageStart"
    <3> HIDE DEF s
    <3>1. s = [out |-> Chunk("role", OrElse(e.text, "assistant"), {}), x |-> x]
      BY <1>0, <2>2, Zenon DEF EventToSse, s
    <3>2. s.out = <<ChunkOf("role", OrElse(e.text, "assistant"), {})>> /\ s.x = x
      BY <3>1 DEF Chunk, ChunkOf
    <3> QED
      BY <2>1, <2>2, <3>2 DEF t, x
  <2>3. CASE e.type = "contentBlockDelta" /\ e.text # {}
    <3> HIDE DEF s
    <3>1. s = [out |-> Chunk("text", The(e.text), {}), x |-> x]
      BY <1>0, <2>3 DEF EventToSse, s
    <3>2. s.out = <<ChunkOf("text", The(e.text), {})>> /\ s.x = x
      BY <3>1 DEF Chunk, ChunkOf
    <3> QED
      BY <2>1, <2>3, <3>2 DEF t, x, IsDelta
  <2>4. CASE e.type = "messageStop"
    <3>1. s = [out |-> <<>>, x |-> [x EXCEPT !.finish = {MapFinishReason(e.text)}]]
      BY <1>0, <2>4 DEF EventToSse, s
    <3>2. s.out = <<>> /\ s.x = [x EXCEPT !.finish = {MapFinishReason(e.text)}]
      BY <3>1
    <3>3. s.out = <<>> /\ s.x = [finish |-> {MapFinishReason(e.text)}, done |-> FALSE]
      BY <1>02, <3>2
    <3> QED
      BY <2>1, <2>4, <3>3 DEF t
  <2>5. CASE e.type = "metadata"
    <3> HIDE DEF s
    <3>1. s = [out |-> Chunk("final", OrElse(x.finish, "stop"), {RenameUsage(u) : u \in e.usage}) \o DoneBlock,
               x |-> [x EXCEPT !.done = TRUE]]
      BY <1>0, <2>5 DEF EventToSse, s
    <3>2. s.out = <<ChunkOf("final", OrElse(x.finish, "stop"), {RenameUsage(u) : u \in e.usage})>>
                        \o <<ChunkOf("done", "", {})>>
      <4>1. s.out = Chunk("final", OrElse(x.finish, "stop"), {RenameUsage(u) : u \in e.usage}) \o DoneBlock
        BY <3>1
      <4> QED
        BY <4>1, Zenon DEF DoneBlock, Chunk, ChunkOf
    <3>3. s.x = [finish |-> x.finish, done |-> TRUE]
      <4>1. s.x = [x EXCEPT !.done = TRUE]
        BY <3>1
      <4> QED
        BY <1>02, <1>03, <4>1
    <3> QED
      BY <2>1, <2>5, <3>2, <3>3 DEF t, x
  <2>6. CASE e.type = "exception"
    <3> HIDE DEF s
    <3>1. s = [out |-> Chunk("error", OrElse(e.text, "upstream stream error"), {}) \o DoneBlock,
               x |-> [x EXCEPT !.done = TRUE]]
      BY <1>0, <2>6 DEF EventToSse, s
    <3>2. s.out = <<ChunkOf("error", OrElse(e.text, "upstream stream error"), {})>>
                        \o <<ChunkOf("done", "", {})>>
      <4>1. s.out = Chunk("error", OrElse(e.text, "upstream stream error"), {}) \o DoneBlock
        BY <3>1
      <4> QED
        BY <4>1, Zenon DEF DoneBlock, Chunk, ChunkOf
    <3>3. s.x = [finish |-> x.finish, done |-> TRUE]
      <4>1. s.x = [x EXCEPT !.done = TRUE]
        BY <3>1
      <4> QED
        BY <1>02, <1>03, <4>1
    <3> QED
      BY <2>1, <2>6, <3>2, <3>3 DEF t, x
  <2>7. CASE ~IsEnd(e) /\ ~IsDelta(e) /\ e.type \notin {"messageStart", "messageStop"}
    <3>1. s = [out |-> <<>>, x |-> x]
      BY <1>0, <2>7 DEF EventToSse, s, IsEnd, IsDelta
    <3>2. t.out = before.out \o <<>> /\ t.x = before.x
      BY <2>1, <3>1 DEF x
    <3> QED
      BY <2>7, <3>2, Zenon DEF t
  <2> QED
    BY <2>2, <2>3, <2>4, <2>5, <2>6, <2>7 DEF IsEnd, IsDelta
<1> QED
  BY <1>1, <1>2

LEMMA FinishGrows ==
    ASSUME NEW a, NEW n \in Nat, n # 0, NEW finish, FinishTold(a, finish, n - 1)
    PROVE  FinishTold(a, IF a[n].type = "messageStop" THEN {MapFinishReason(a[n].text)} ELSE finish, n)
<1> DEFINE S(k) == {i \in 1 .. k : a[i].type = "messageStop"}
<1>1. 1 .. n = (1 .. n - 1) \cup {n} /\ n \notin 1 .. n - 1 /\ \A i \in 1 .. n : i <= n
  OBVIOUS
<1>2. IF S(n - 1) = {} THEN finish = {}
      ELSE \E k \in S(n - 1) : (\A i \in S(n - 1) : i <= k) /\ finish = {MapFinishReason(a[k].text)}
  BY DEF FinishTold
<1>3. CASE a[n].type = "messageStop"
  <2>1. n \in S(n) /\ \A i \in S(n) : i <= n
    BY <1>1, <1>3
  <2> HIDE DEF S
  <2>2. S(n) # {} /\ \E k \in S(n) : (\A i \in S(n) : i <= k) /\ {MapFinishReason(a[n].text)} = {MapFinishReason(a[k].text)}
    BY <2>1
  <2> QED
    BY <1>3, <2>2, Zenon DEF FinishTold, S
<1>4. CASE a[n].type # "messageStop"
  <2>1. S(n) = S(n - 1)
    BY <1>1, <1>4
  <2> HIDE DEF S
  <2>2. IF S(n) = {} THEN finish = {}
        ELSE \E k \in S(n) : (\A i \in S(n) : i <= k) /\ finish = {MapFinishReason(a[k].text)}
    BY <1>2, <2>1
  <2> QED
    BY <1>4, <2>2 DEF FinishTold, S
<1> QED
  BY <1>3, <1>4

\* Events before the nth did not end the stream.
LEMMA EndsNotBefore ==
    ASSUME NEW a, NEW n \in Nat, n # 0, NEW chunks, NEW x, EndTold(a, chunks, x, n - 1), ~x.done
    PROVE  /\ \A i \in 1 .. n - 1 : ~IsEnd(a[i])
           /\ \A i \in DOMAIN chunks :
                 chunks[i].kind # "done" /\ chunks[i].kind # "final" /\ chunks[i].usage = {}
<1>1. (\A i \in 1 .. (n - 1) - 1 : ~IsEnd(a[i])) /\ (n - 1 # 0 => ~IsEnd(a[n - 1]))
  BY DEF EndTold
<1>2. \A i \in 1 .. n - 1 : i \in 1 .. (n - 1) - 1 \/ (i = n - 1 /\ n - 1 # 0)
  OBVIOUS
<1>3. \A i \in DOMAIN chunks :
         chunks[i].kind # "done" /\ chunks[i].kind # "final" /\ chunks[i].usage = {}
  BY DEF EndTold
<1> QED
  BY <1>1, <1>2, <1>3

\* An event that is not a text, and does not end the stream.
LEMMA ToldQuiet ==
    ASSUME NEW a, IsResponse(a), NEW n \in 1 .. Len(a), NEW chunks, NEW x, Told(a, chunks, x, n - 1),
           ~x.done, ~IsEnd(a[n]), ~IsDelta(a[n]), NEW y, IsXlate(y), ~y.done, FinishTold(a, y.finish, n)
    PROVE  Told(a, chunks, y, n)
<1>1. n \in Nat /\ n \in 0 .. Len(a) /\ n # 0 /\ n - 1 \in Nat
  OBVIOUS
<1>2. TextsTold(a, chunks, n)
  <2>1. DeltasOf(a, n) = DeltasOf(a, n - 1)
    BY DeltasGrow DEF IsResponse
  <2> QED
    BY <2>1 DEF Told, TextsTold
<1>3. EndTold(a, chunks, y, n)
  <2>1. EndTold(a, chunks, x, n - 1)
    BY DEF Told
  <2>2. /\ \A i \in 1 .. n - 1 : ~IsEnd(a[i])
        /\ \A i \in DOMAIN chunks :
              chunks[i].kind # "done" /\ chunks[i].kind # "final" /\ chunks[i].usage = {}
    BY <1>1, <2>1, EndsNotBefore
  <2> QED
    BY <1>1, <2>2, Zenon DEF EndTold
<1> QED
  BY <1>1, <1>2, <1>3 DEF Told

LEMMA TextsGrow ==
    ASSUME NEW a, IsResponse(a), NEW n \in 1 .. Len(a), NEW chunks, chunks \in Seq(Range(chunks)),
           TextsTold(a, chunks, n - 1), NEW c,
           IF IsDelta(a[n]) THEN c.kind = "text" /\ c.text = The(a[n].text) ELSE c.kind # "text"
    PROVE  TextsTold(a, Append(chunks, c), n)
<1> DEFINE t == TextChunks(chunks)
           d == DeltasOf(a, n - 1)
<1>1. TextChunks(Append(chunks, c)) = IF IsDelta(a[n]) THEN Append(t, c) ELSE t
  BY TextChunksGrow
<1>2. DeltasOf(a, n) = IF IsDelta(a[n]) THEN Append(d, a[n]) ELSE d
  BY DeltasGrow DEF IsResponse
<1>3. Len(t) = Len(d) /\ \A i \in DOMAIN d : t[i].text = The(d[i].text)
  BY DEF TextsTold
<1>4. t \in Seq(Range(chunks)) /\ d \in Seq(Range(a))
  <2>1. Select(chunks, {e \in Range(chunks) : e.kind = "text"}) \in Seq(Range(chunks) \cap {e \in Range(chunks) : e.kind = "text"})
    BY SelectFrom
  <2>2. t \in Seq(Range(chunks))
    <3>1. Range(chunks) \cap {e \in Range(chunks) : e.kind = "text"} \subseteq Range(chunks)
      OBVIOUS
    <3> QED
      BY <2>1, <3>1, SeqMonotonic DEF TextChunks
  <2> DEFINE s == SubSeq(a, 1, n - 1)
             R == Range(a)
             D == {e \in R : IsDelta(e)}
  <2>3. s \in Seq(R)
    <3>1. a \in Seq(R) /\ \A i \in 1 .. n - 1 : a[i] \in R
      BY DEF IsResponse, Range
    <3> HIDE DEF R
    <3>2. SubSeq(a, 1, n - 1) \in Seq(R)
      BY <3>1, SubSeqProperties
    <3> QED
      BY <3>2
  <2> HIDE DEF s
  <2>4. Select(s, D) \in Seq(Range(s) \cap D)
    <3> HIDE DEF D, R
    <3> QED
      BY <2>3, SelectFrom
  <2>5. Range(s) \cap D \subseteq R
    OBVIOUS
  <2>6. Select(s, D) \in Seq(R)
    <3> HIDE DEF D, R
    <3> QED
      BY <2>4, <2>5, SeqMonotonic
  <2> QED
    BY <2>2, <2>6 DEF DeltasOf, s
<1> HIDE DEF t, d
<1>5. CASE ~IsDelta(a[n])
  BY <1>1, <1>2, <1>3, <1>5 DEF TextsTold
<1>6. CASE IsDelta(a[n])
  <2> DEFINE e == a[n]
  <2>1. /\ c.text = The(e.text) /\ TextChunks(Append(chunks, c)) = Append(t, c) /\ DeltasOf(a, n) = Append(d, e)
    BY <1>1, <1>2, <1>6
  <2> HIDE DEF e
  <2>2. Len(Append(t, c)) = Len(t) + 1 /\ (\A i \in 1 .. Len(t) : Append(t, c)[i] = t[i]) /\ Append(t, c)[Len(t) + 1] = c
    BY <1>4
  <2>3. Len(Append(d, e)) = Len(d) + 1 /\ (\A i \in 1 .. Len(d) : Append(d, e)[i] = d[i]) /\ Append(d, e)[Len(d) + 1] = e
        /\ DOMAIN Append(d, e) = 1 .. Len(d) + 1 /\ DOMAIN d = 1 .. Len(d) /\ Len(d) \in Nat
    BY <1>4
  <2>4. \A i \in 1 .. Len(d) + 1 : Append(t, c)[i].text = The(Append(d, e)[i].text)
    <3> TAKE i \in 1 .. Len(d) + 1
    <3>1. CASE i = Len(d) + 1
      BY <1>3, <2>1, <2>2, <2>3, <3>1
    <3>2. CASE i # Len(d) + 1
      <4>1. i \in 1 .. Len(d)
        BY <2>3, <3>2
      <4> QED
        BY <1>3, <2>2, <2>3, <4>1
    <3> QED
      BY <3>1, <3>2
  <2> QED
    BY <1>3, <2>1, <2>2, <2>3, <2>4 DEF TextsTold
<1> QED
  BY <1>5, <1>6

\* An event that has a chunk, and does not end the stream.
LEMMA ToldChunk ==
    ASSUME NEW a, IsResponse(a), NEW n \in 1 .. Len(a), NEW chunks, NEW x, Told(a, chunks, x, n - 1),
           ~x.done, ~IsEnd(a[n]), a[n].type # "messageStop", NEW c, c.kind \in {"role", "text"}, c.usage = {},
           IF IsDelta(a[n]) THEN c.kind = "text" /\ c.text = The(a[n].text) ELSE c.kind # "text"
    PROVE  Told(a, Append(chunks, c), x, n)
<1>1. n \in Nat /\ n \in 0 .. Len(a) /\ n # 0
  OBVIOUS
<1> DEFINE more == Append(chunks, c)
<1>2. chunks \in Seq(Range(chunks)) /\ TextsTold(a, chunks, n - 1) /\ FinishTold(a, x.finish, n - 1)
      /\ EndTold(a, chunks, x, n - 1) /\ IsXlate(x)
  BY DEF Told
<1>3. more \in Seq(Range(more))
  BY <1>2, AppendRanges
<1>4. TextsTold(a, more, n)
  BY <1>2, TextsGrow
<1>5. FinishTold(a, x.finish, n)
  BY <1>1, <1>2, FinishGrows
<1>6. /\ \A i \in 1 .. n - 1 : ~IsEnd(a[i])
      /\ \A i \in DOMAIN chunks : chunks[i].kind # "done" /\ chunks[i].kind # "final" /\ chunks[i].usage = {}
  BY <1>1, <1>2, EndsNotBefore
<1>7. \A i \in DOMAIN more : more[i].kind # "done" /\ more[i].kind # "final" /\ more[i].usage = {}
  <2>1. \A i \in DOMAIN more : more[i] \in Range(more)
    BY DEF Range
  <2>2. \A d \in Range(chunks) : d.kind # "done" /\ d.kind # "final" /\ d.usage = {}
    BY <1>6 DEF Range
  <2>3. Range(more) = Range(chunks) \cup {c}
    BY <1>2, AppendRanges
  <2> HIDE DEF more
  <2> QED
    BY <2>1, <2>2, <2>3
<1> HIDE DEF more
<1>8. EndTold(a, more, x, n)
  BY <1>1, <1>6, <1>7, Zenon DEF EndTold
<1>9. Told(a, more, x, n)
  BY <1>1, <1>2, <1>3, <1>4, <1>5, <1>8 DEF Told
<1> QED
  BY <1>9 DEF more

\* The event that ends the stream.
LEMMA ToldEnd ==
    ASSUME NEW a, IsResponse(a), NEW n \in 1 .. Len(a), NEW chunks, NEW x, Told(a, chunks, x, n - 1),
           ~x.done, IsEnd(a[n]), NEW y, IsXlate(y), y.done, y.finish = x.finish, NEW c, NEW d,
           c.kind = IF a[n].type = "metadata" THEN "final" ELSE "error", 
           IF a[n].type = "metadata"
             THEN c.text = OrElse(x.finish, "stop") /\ c.usage = {RenameUsage(u) : u \in a[n].usage}
             ELSE c.usage = {},
           d.kind = "done", d.usage = {}
    PROVE  Told(a, Append(Append(chunks, c), d), y, n)
<1>1. n \in Nat /\ n \in 0 .. Len(a) /\ n # 0
  OBVIOUS
<1> DEFINE one == Append(chunks, c)
           more == Append(one, d)
<1>2. chunks \in Seq(Range(chunks)) /\ TextsTold(a, chunks, n - 1) /\ FinishTold(a, x.finish, n - 1)
      /\ EndTold(a, chunks, x, n - 1)
  BY DEF Told
<1>3. ~IsDelta(a[n]) /\ a[n].type # "messageStop"
  BY DEF IsEnd, IsDelta
<1>4. one \in Seq(Range(one)) /\ TextsTold(a, one, n)
  <2>1. c.kind # "text"
    OBVIOUS
  <2> QED
    BY <1>2, <1>3, <2>1, AppendRanges, TextsGrow
<1> HIDE DEF one
<1>5. more \in Seq(Range(more)) /\ TextsTold(a, more, n)
  <2>1. TextChunks(more) = TextChunks(one)
    BY <1>4, TextChunksGrow
  <2>2. more \in Seq(Range(more))
    BY <1>4, AppendRanges
  <2> QED
    BY <1>4, <2>1, <2>2 DEF TextsTold
<1>6. FinishTold(a, y.finish, n)
  BY <1>1, <1>2, <1>3, FinishGrows
<1>7. /\ \A i \in 1 .. n - 1 : ~IsEnd(a[i])
      /\ \A i \in DOMAIN chunks : chunks[i].kind # "done" /\ chunks[i].kind # "final" /\ chunks[i].usage = {}
  BY <1>1, <1>2, EndsNotBefore
<1> DEFINE N == Len(chunks)
<1>8. /\ N \in Nat /\ DOMAIN chunks = 1 .. N /\ DOMAIN more = 1 .. N + 2 /\ Len(more) = N + 2
      /\ more[N + 1] = c /\ more[N + 2] = d /\ \A i \in 1 .. N : more[i] = chunks[i]
  <2> DEFINE X == Range(chunks) \cup {c, d}
  <2>1. chunks \in Seq(X) /\ c \in X /\ d \in X
    <3>1. Range(chunks) \subseteq X
      OBVIOUS
    <3>2. c \in X /\ d \in X
      OBVIOUS
    <3> HIDE DEF X
    <3> QED
      BY <1>2, <3>1, <3>2, SeqMonotonic
  <2> HIDE DEF X
  <2>2. /\ one \in Seq(X) /\ Len(one) = N + 1 /\ N \in Nat /\ one[N + 1] = c /\ \A i \in 1 .. N : one[i] = chunks[i]
    BY <2>1 DEF one
  <2>3. /\ more \in Seq(X) /\ Len(more) = N + 2 /\ more[N + 2] = d /\ \A i \in 1 .. N + 1 : more[i] = one[i]
    BY <2>1, <2>2
  <2> QED
    BY <2>1, <2>2, <2>3
<1> HIDE DEF more, N
<1>9. EndTold(a, more, y, n)
  <2>1. \A i \in DOMAIN more :
          /\ more[i].kind = "done" <=> y.done /\ i = Len(more)
          /\ more[i].kind = "final" <=> y.done /\ a[n].type = "metadata" /\ i = Len(more) - 1
          /\ more[i].kind # "final" => more[i].usage = {}
          /\ more[i].kind = "final" => /\ more[i].text = OrElse(y.finish, "stop")
                                       /\ more[i].usage = {RenameUsage(u) : u \in a[n].usage}
    <3> TAKE i \in DOMAIN more
    <3>1. i \in 1 .. N \/ i = N + 1 \/ i = N + 2
      BY <1>8
    <3>2. CASE i \in 1 .. N
      <4>1. more[i] = chunks[i] /\ i # Len(more) /\ i # Len(more) - 1 /\ i \in DOMAIN chunks
        BY <1>8, <3>2
      <4> QED
        BY <1>7, <4>1
    <3>3. CASE i = N + 1
      <4>1. more[i] = c /\ i # Len(more) /\ i = Len(more) - 1
        BY <1>8, <3>3
      <4> QED
        BY <4>1
    <3>4. CASE i = N + 2
      <4>1. more[i] = d /\ i = Len(more) /\ i # Len(more) - 1
        BY <1>8, <3>4
      <4> QED
        BY <4>1
    <3> QED
      BY <3>1, <3>2, <3>3, <3>4
  <2>2. Len(more) >= 2
    BY <1>8
  <2> QED
    BY <1>1, <1>7, <2>1, <2>2, Zenon DEF EndTold
<1>10. Told(a, more, y, n)
  BY <1>1, <1>5, <1>6, <1>9 DEF Told
<1> QED
  BY <1>10 DEF more, one

\* Of m events that were read, those that told something.
Read(a, chunks, x, m) == \E n \in 0 .. m : Told(a, chunks, x, n) /\ (n < m => x.done)

\* What s and t give with one or two more elements.
Joins(s, t, c, d) ==
    /\ s \o (t \o <<>>) = s \o t /\ t \o <<>> = t
    /\ s \o (t \o <<c>>) = Append(s \o t, c) /\ t \o <<c>> \in Seq(Range(t \o <<c>>))
    /\ s \o (t \o (<<c>> \o <<d>>)) = Append(Append(s \o t, c), d)
    /\ t \o (<<c>> \o <<d>>) \in Seq(Range(t \o (<<c>> \o <<d>>)))

LEMMA Joined ==
    ASSUME NEW s, s \in Seq(Range(s)), NEW t, t \in Seq(Range(t)), NEW c, NEW d
    PROVE  Joins(s, t, c, d)
<1> DEFINE X == Range(s) \cup Range(t) \cup {c, d}
<1>1. s \in Seq(X) /\ t \in Seq(X)
  <2>1. Range(s) \subseteq X /\ Range(t) \subseteq X
    OBVIOUS
  <2> HIDE DEF X
  <2> QED
    BY <2>1, SeqMonotonic
<1>2. c \in X /\ d \in X
  OBVIOUS
<1> HIDE DEF X
<1>3. /\ s \o <<>> = s /\ t \o <<>> = t
  BY <1>1
<1>4. t \o <<c>> = Append(t, c) /\ s \o (t \o <<c>>) = Append(s \o t, c)
  BY <1>1, <1>2
<1>5. t \o (<<c>> \o <<d>>) = Append(Append(t, c), d)
  BY <1>1, <1>2
<1>6. s \o Append(Append(t, c), d) = Append(Append(s \o t, c), d)
  BY <1>1, <1>2
<1>7. /\ Append(t, c) \in Seq(Range(Append(t, c)))
      /\ Append(Append(t, c), d) \in Seq(Range(Append(Append(t, c), d)))
  BY AppendRanges
<1> QED
  BY <1>3, <1>4, <1>5, <1>6, <1>7 DEF Joins

LEMMA ReadStep ==
    ASSUME NEW a, IsResponse(a), NEW m \in 1 .. Len(a), NEW s, s \in Seq(Range(s)),
           NEW before, before.out \in Seq(Range(before.out)), Read(a, s \o before.out, before.x, m - 1)
    PROVE  LET t == Translated(a[m], before)
           IN /\ t.out \in Seq(Range(t.out)) /\ Read(a, s \o t.out, t.x, m)
              /\ before.x.done => t.out = before.out /\ t.x = before.x
<1> DEFINE t == Translated(a[m], before)
           x == before.x
           o == before.out
           e == a[m]
<1>1. PICK n \in 0 .. m - 1 : Told(a, s \o o, x, n) /\ (n < m - 1 => x.done)
  BY DEF Read
<1>2. m \in Nat /\ m # 0 /\ n \in 0 .. m /\ (n = m - 1 \/ n < m - 1) /\ n < m
  OBVIOUS
<1>3. IsXlate(x)
  BY <1>1 DEF Told
<1>4. \A c, d : Joins(s, o, c, d)
  BY Joined
<1>5. o \in Seq(Range(o)) /\ o \o <<>> = o
  BY <1>4 DEF Joins
<1>6. CASE x.done
  <2>1. t.out = o /\ t.x = x
    <3>1. EventToSse(e, x) = [out |-> <<>>, x |-> x]
      BY <1>6 DEF EventToSse
    <3> QED
      BY <1>5, <3>1 DEF Translated
  <2>2. Read(a, s \o o, x, m)
    BY <1>1, <1>2, <1>6 DEF Read
  <2> HIDE DEF t
  <2> QED
    BY <1>5, <2>1, <2>2 DEF t
<1>7. CASE ~x.done
  <2>1. n = m - 1 /\ Told(a, s \o o, x, m - 1)
    BY <1>1, <1>2, <1>7
  <2>2. FinishTold(a, IF e.type = "messageStop" THEN {MapFinishReason(e.text)} ELSE x.finish, m)
    BY <1>2, <2>1, FinishGrows DEF Told
  <2> DEFINE done == ChunkOf("done", "", {})
             final == ChunkOf("final", OrElse(x.finish, "stop"), {RenameUsage(u) : u \in e.usage})
             Done(f) == [finish |-> f, done |-> TRUE]
  <2>3. done.kind = "done" /\ done.usage = {}
    BY DEF ChunkOf
  <2>4. \A f : IsXlate(Done(f)) /\ Done(f).done /\ Done(f).finish = f
    BY DEF IsXlate
  <2>5. \A k, v, u : ChunkOf(k, v, u).kind = k /\ ChunkOf(k, v, u).text = v /\ ChunkOf(k, v, u).usage = u
    BY DEF ChunkOf
  <2>6. SUFFICES Told(a, s \o t.out, t.x, m) /\ t.out \in Seq(Range(t.out))
    <3>1. m \in 0 .. m /\ ~(m < m)
      BY <1>2
    <3> HIDE DEF t, x, o
    <3>2. Read(a, s \o t.out, t.x, m)
      BY <2>6, <3>1 DEF Read
    <3> QED
      BY <1>7, <2>6, <3>2 DEF t, x
  <2>7. \/ /\ e.type = "messageStart"
           /\ \E text : t.out = o \o <<ChunkOf("role", text, {})>>
           /\ t.x = x
        \/ IsDelta(e) /\ t.out = o \o <<ChunkOf("text", The(e.text), {})>> /\ t.x = x
        \/ /\ e.type = "messageStop" /\ t.out = o \o <<>>
           /\ t.x = [finish |-> {MapFinishReason(e.text)}, done |-> FALSE]
        \/ e.type = "metadata" /\ t.out = o \o (<<final>> \o <<done>>) /\ t.x = Done(x.finish)
        \/ /\ e.type = "exception"
           /\ \E text : t.out = o \o (<<ChunkOf("error", text, {})>> \o <<done>>)
           /\ t.x = Done(x.finish)
        \/ /\ ~IsEnd(e) /\ ~IsDelta(e) /\ e.type \notin {"messageStart", "messageStop"}
           /\ (t.out = o \/ t.out = o \o <<>>) /\ t.x = x
    <3>1. IsXlate(before.x) /\ ~before.x.done
      BY <1>3, <1>7
    <3> QED
      BY <3>1, TranslatedIs, Zenon
  <2> HIDE DEF t, x, o, e, done, final, Done
  <2>8. CASE e.type = "messageStart" /\ (\E text : t.out = o \o <<ChunkOf("role", text, {})>>) /\ t.x = x
    <3>1. PICK text : t.out = o \o <<ChunkOf("role", text, {})>>
      BY <2>8
    <3> DEFINE c == ChunkOf("role", text, {})
    <3>2. c.kind = "role" /\ c.usage = {}
      BY <2>5
    <3> HIDE DEF c
    <3>3. ~IsEnd(e) /\ ~IsDelta(e)
      BY <2>8 DEF IsEnd, IsDelta
    <3>4. Told(a, Append(s \o o, c), x, m)
      <4>1. /\ IF IsDelta(a[m]) THEN c.kind = "text" /\ c.text = The(a[m].text) ELSE c.kind # "text"
            /\ ~IsEnd(a[m]) /\ a[m].type # "messageStop" /\ c.kind \in {"role", "text"} /\ c.usage = {}
        BY <2>8, <3>2, <3>3 DEF e
      <4> QED
        BY <1>7, <2>1, <4>1, ToldChunk
    <3> QED
      BY <1>4, <2>8, <3>1, <3>4 DEF c, Joins
  <2>9. CASE IsDelta(e) /\ t.out = o \o <<ChunkOf("text", The(e.text), {})>> /\ t.x = x
    <3> DEFINE c == ChunkOf("text", The(e.text), {})
    <3>1. c.kind = "text" /\ c.usage = {} /\ c.text = The(e.text)
      BY <2>5
    <3>2. t.out = o \o <<c>>
      BY <2>9
    <3> HIDE DEF c
    <3>3. ~IsEnd(e) /\ e.type # "messageStop"
      BY <2>9 DEF IsEnd, IsDelta
    <3>4. Told(a, Append(s \o o, c), x, m)
      <4>1. /\ IF IsDelta(a[m]) THEN c.kind = "text" /\ c.text = The(a[m].text) ELSE c.kind # "text"
            /\ ~IsEnd(a[m]) /\ a[m].type # "messageStop" /\ c.kind \in {"role", "text"} /\ c.usage = {}
        BY <2>9, <3>1, <3>3 DEF e
      <4> QED
        BY <1>7, <2>1, <4>1, ToldChunk
    <3> QED
      BY <1>4, <2>9, <3>2, <3>4 DEF Joins
  <2>10. CASE /\ e.type = "messageStop" /\ t.out = o \o <<>>
              /\ t.x = [finish |-> {MapFinishReason(e.text)}, done |-> FALSE]
    <3>1. IsXlate(t.x) /\ ~t.x.done /\ t.x.finish = {MapFinishReason(e.text)}
      BY <2>10 DEF IsXlate
    <3>2. ~IsEnd(e) /\ ~IsDelta(e)
      BY <2>10 DEF IsEnd, IsDelta
    <3>3. FinishTold(a, t.x.finish, m)
      BY <2>2, <2>10, <3>1
    <3>4. Told(a, s \o o, t.x, m)
      BY <1>7, <2>1, <3>1, <3>2, <3>3, ToldQuiet DEF e
    <3>5. t.out = o
      BY <1>5, <2>10
    <3> QED
      BY <1>5, <3>4, <3>5
  <2>11. CASE e.type = "metadata" /\ t.out = o \o (<<final>> \o <<done>>) /\ t.x = Done(x.finish)
    <3>1. /\ final.kind = "final" /\ final.text = OrElse(x.finish, "stop")
          /\ final.usage = {RenameUsage(u) : u \in e.usage}
      BY <2>5 DEF final
    <3>2. IsEnd(e)
      BY <2>11 DEF IsEnd
    <3>3. IsXlate(t.x) /\ t.x.done /\ t.x.finish = x.finish
      BY <2>4, <2>11
    <3>4. Told(a, Append(Append(s \o o, final), done), t.x, m)
      BY <1>7, <2>1, <2>3, <2>11, <3>1, <3>2, <3>3, ToldEnd DEF e
    <3> QED
      BY <1>4, <2>11, <3>4 DEF Joins
  <2>12. CASE /\ e.type = "exception"
              /\ \E text : t.out = o \o (<<ChunkOf("error", text, {})>> \o <<done>>)
              /\ t.x = Done(x.finish)
    <3>1. PICK text : t.out = o \o (<<ChunkOf("error", text, {})>> \o <<done>>)
      BY <2>12
    <3> DEFINE c == ChunkOf("error", text, {})
    <3>2. c.kind = "error" /\ c.usage = {}
      BY <2>5
    <3>3. t.out = o \o (<<c>> \o <<done>>)
      BY <3>1
    <3> HIDE DEF c
    <3>4. IsEnd(e) /\ e.type # "metadata"
      BY <2>12 DEF IsEnd
    <3>5. IsXlate(t.x) /\ t.x.done /\ t.x.finish = x.finish
      BY <2>4, <2>12
    <3>6. Told(a, Append(Append(s \o o, c), done), t.x, m)
      BY <1>7, <2>1, <2>3, <3>2, <3>4, <3>5, ToldEnd DEF e
    <3> QED
      BY <1>4, <3>3, <3>6 DEF Joins
  <2>13. CASE /\ ~IsEnd(e) /\ ~IsDelta(e) /\ e.type \notin {"messageStart", "messageStop"}
              /\ (t.out = o \/ t.out = o \o <<>>) /\ t.x = x
    <3>1. FinishTold(a, x.finish, m)
      BY <2>2, <2>13
    <3>2. Told(a, s \o o, x, m)
      BY <1>3, <1>7, <2>1, <2>13, <3>1, ToldQuiet DEF e
    <3> QED
      BY <1>4, <1>5, <2>13, <3>2 DEF Joins
  <2> QED
    BY <2>7, <2>8, <2>9, <2>10, <2>11, <2>12, <2>13
<1> QED
  BY <1>6, <1>7

\* A piece of events of a response is translated.
LEMMA PieceRead ==
    ASSUME NEW a, IsResponse(a), NEW m \in Nat, NEW k \in Nat, m <= k, k <= Len(a),
           NEW s, s \in Seq(Range(s)), NEW x, Read(a, s, x, m)
    PROVE  LET t == Translate(SubSeq(a, m + 1, k), x)
           IN /\ t.out \in Seq(Range(t.out)) /\ Read(a, s \o t.out, t.x, k)
              /\ x.done => t.out = <<>> /\ t.x = x
<1> DEFINE frames == SubSeq(a, m + 1, k)
           n == k - m
<1>0. n \in Nat /\ m + n = k /\ Len(a) \in Nat
  BY DEF IsResponse
<1>1. /\ frames \in Seq(Range(a)) /\ Len(frames) = n /\ \A i \in 1 .. n : frames[i] = a[m + i]
  <2> DEFINE R == Range(a)
  <2>1. \A i \in m + 1 .. k : a[i] \in R
    BY DEF Range, IsResponse
  <2> HIDE DEF R
  <2>2. /\ SubSeq(a, m + 1, k) \in Seq(R)
        /\ Len(SubSeq(a, m + 1, k)) = IF m + 1 <= k THEN k - (m + 1) + 1 ELSE 0
        /\ \A i \in 1 .. k - (m + 1) + 1 : SubSeq(a, m + 1, k)[i] = a[m + 1 + i - 1]
    BY <2>1, SubSeqProperties
  <2> QED
    BY <2>2 DEF R
<1> HIDE DEF frames
<1>2. PICK f : /\ Translate(frames, x) = f[Len(frames)] /\ f[0] = [out |-> <<>>, x |-> x]
               /\ \A i \in 1 .. Len(frames) : TranslateStep(f, frames, i)
  BY <1>1, TranslateBy
<1> DEFINE P(i) == /\ f[i].out \in Seq(Range(f[i].out)) /\ Read(a, s \o f[i].out, f[i].x, m + i)
                   /\ x.done => f[i].out = <<>> /\ f[i].x = x
           T == {i \in 0 .. n : P(i)}
<1> HIDE DEF n
<1>3. 0 \in T
  <2>1. f[0].out = <<>> /\ f[0].x = x
    BY <1>2
  <2>2. <<>> \in Seq(Range(<<>>))
    OBVIOUS
  <2>3. s \o <<>> = s /\ m + 0 = m
    OBVIOUS
  <2>4. P(0)
    BY <2>1, <2>2, <2>3, Zenon
  <2> HIDE DEF P
  <2> QED
    BY <1>0, <2>4
<1>4. ASSUME NEW i \in 1 .. n, i - 1 \in T PROVE i \in T
  <2>1. f[i] = Translated(a[m + i], f[i - 1])
    BY <1>1, <1>2 DEF TranslateStep
  <2>2. m + i \in 1 .. Len(a) /\ m + (i - 1) = (m + i) - 1 /\ i \in 0 .. n
    BY <1>0
  <2>3. /\ f[i - 1].out \in Seq(Range(f[i - 1].out)) /\ Read(a, s \o f[i - 1].out, f[i - 1].x, (m + i) - 1)
        /\ x.done => f[i - 1].out = <<>> /\ f[i - 1].x = x
    BY <1>4, <2>2
  <2> DEFINE before == f[i - 1]
             t == Translated(a[m + i], before)
  <2>4. /\ t.out \in Seq(Range(t.out)) /\ Read(a, s \o t.out, t.x, m + i)
        /\ before.x.done => t.out = before.out /\ t.x = before.x
    <3> HIDE DEF before
    <3>1. before.out \in Seq(Range(before.out)) /\ Read(a, s \o before.out, before.x, (m + i) - 1)
      BY <2>3 DEF before
    <3> DEFINE j == m + i
    <3>2. j \in 1 .. Len(a)
      BY <2>2
    <3> HIDE DEF j
    <3>3. Read(a, s \o before.out, before.x, j - 1)
      BY <3>1 DEF j
    <3>4. LET u == Translated(a[j], before)
          IN /\ u.out \in Seq(Range(u.out)) /\ Read(a, s \o u.out, u.x, j)
             /\ before.x.done => u.out = before.out /\ u.x = before.x
      BY <3>1, <3>2, <3>3, ReadStep
    <3> QED
      BY <3>4 DEF j
  <2>5. P(i)
    BY <2>1, <2>3, <2>4
  <2> HIDE DEF P
  <2> QED
    BY <2>2, <2>5
<1> HIDE DEF T
<1>5. \A i \in 0 .. n : i \in T
  BY <1>0, <1>3, <1>4, UpTo
<1>6. n \in T /\ Translate(frames, x) = f[n]
  BY <1>0, <1>1, <1>2, <1>5
<1>7. P(n)
  BY <1>6 DEF T
<1> QED
  BY <1>0, <1>6, <1>7 DEF frames

-----------------------------------------------------------------------------
\* Chunks without usage change nothing; and one that has it sets it.
LEMMA ScanNone ==
    ASSUME NEW chunks, chunks \in Seq(Range(chunks)), NEW usage, \A i \in DOMAIN chunks : chunks[i].usage = {}
    PROVE  ScanChunks(usage, chunks) = usage
<1>0. Len(chunks) \in Nat /\ DOMAIN chunks = 1 .. Len(chunks)
  OBVIOUS
<1>1. PICK f : /\ ScanChunks(usage, chunks) = f[Len(chunks)] /\ f[0] = usage
               /\ \A n \in 1 .. Len(chunks) : ChunkStep(f, chunks, n)
  BY ScanChunksBy
<1> DEFINE T == {i \in 0 .. Len(chunks) : f[i] = usage}
<1>2. 0 \in T
  BY <1>0, <1>1
<1>3. ASSUME NEW i \in 1 .. Len(chunks), i - 1 \in T PROVE i \in T
  <2>1. f[i] = f[i - 1]
    BY <1>0, <1>1 DEF ChunkStep, ScanChunk
  <2> QED
    BY <1>3, <2>1
<1> HIDE DEF T
<1>4. \A i \in 0 .. Len(chunks) : i \in T
  BY <1>0, <1>2, <1>3, UpTo
<1>5. Len(chunks) \in T
  BY <1>0, <1>4
<1> QED
  BY <1>1, <1>5 DEF T

UsageOf(u) == [input |-> {u.prompt}, output |-> {u.completion}]

LEMMA ScanOne ==
    ASSUME NEW chunks, chunks \in Seq(Range(chunks)), NEW usage, NEW j \in DOMAIN chunks,
           chunks[j].usage # {}, \A i \in DOMAIN chunks : i # j => chunks[i].usage = {}
    PROVE  ScanChunks(usage, chunks) = UsageOf(The(chunks[j].usage))
<1>0. Len(chunks) \in Nat /\ DOMAIN chunks = 1 .. Len(chunks)
  OBVIOUS
<1>1. PICK f : /\ ScanChunks(usage, chunks) = f[Len(chunks)] /\ f[0] = usage
               /\ \A n \in 1 .. Len(chunks) : ChunkStep(f, chunks, n)
  BY ScanChunksBy
<1> DEFINE set == UsageOf(The(chunks[j].usage))
           T == {i \in 0 .. Len(chunks) : i >= j => f[i] = set}
<1>2. 0 \in T
  BY <1>0
<1>3. ASSUME NEW i \in 1 .. Len(chunks), i - 1 \in T PROVE i \in T
  <2>1. f[i] = ScanChunk(f[i - 1], chunks[i])
    BY <1>1 DEF ChunkStep
  <2>2. CASE i = j
    <3>1. f[i] = set
      BY <2>1, <2>2 DEF ScanChunk, UsageOf
    <3> HIDE DEF set
    <3> QED
      BY <1>0, <3>1
  <2>3. CASE i # j
    <3>1. f[i] = f[i - 1]
      BY <1>0, <2>1, <2>3 DEF ScanChunk
    <3>2. i >= j => i - 1 >= j
      BY <1>0, <2>3
    <3> HIDE DEF set
    <3> QED
      BY <1>0, <1>3, <3>1, <3>2
  <2> QED
    BY <2>2, <2>3
<1> HIDE DEF T
<1>4. \A i \in 0 .. Len(chunks) : i \in T
  BY <1>0, <1>2, <1>3, UpTo
<1>5. Len(chunks) \in T /\ Len(chunks) >= j
  BY <1>0, <1>4
<1> QED
  BY <1>1, <1>5 DEF T

\* The usage that is known once the first n events were read.
Tap(a, usage, x, n) ==
    usage = IF x.done /\ a[n].usage # {} THEN UsageOf(RenameUsage(The(a[n].usage))) ELSE NoUsage

\* What was read of m events, and the usage of it.
SeenOf(a, chunks, x, m, usage) ==
    \E n \in 0 .. m : Told(a, chunks, x, n) /\ (n < m => x.done) /\ Tap(a, usage, x, n)

\* The chunks of a piece tell the usage.
LEMMA PieceSeen ==
    ASSUME NEW a, IsResponse(a), NEW m \in Nat, NEW k \in Nat, m <= k, k <= Len(a),
           NEW s, s \in Seq(Range(s)), NEW x, NEW usage, SeenOf(a, s, x, m, usage)
    PROVE  LET t == Translate(SubSeq(a, m + 1, k), x)
           IN SeenOf(a, s \o t.out, t.x, k, ScanChunks(usage, t.out))
<1> DEFINE t == Translate(SubSeq(a, m + 1, k), x)
           out == t.out
           y == t.x
           next == ScanChunks(usage, out)
<1>1. PICK n \in 0 .. m : Told(a, s, x, n) /\ (n < m => x.done) /\ Tap(a, usage, x, n)
  BY DEF SeenOf
<1>2. /\ out \in Seq(Range(out)) /\ Read(a, s \o out, y, k) /\ (x.done => out = <<>> /\ y = x)
  <2>1. Read(a, s, x, m)
    BY <1>1 DEF Read
  <2> QED
    BY <2>1, PieceRead
<1> HIDE DEF t, out, y
<1>3. PICK p \in 0 .. k : Told(a, s \o out, y, p) /\ (p < k => y.done)
  BY <1>2 DEF Read
<1>4. CASE x.done
  <2>1. s \o out = s /\ y = x
    BY <1>2, <1>4
  <2>2. next = usage
    <3>1. \A i \in DOMAIN out : out[i].usage = {}
      BY <1>2, <1>4
    <3> QED
      BY <1>2, <3>1, ScanNone
  <2> HIDE DEF next
  <2>3. n \in 0 .. k
    OBVIOUS
  <2>4. SeenOf(a, s \o out, y, k, next)
    BY <1>1, <1>4, <2>1, <2>2, <2>3 DEF SeenOf
  <2> QED
    BY <2>4 DEF t, out, y, next
<1>5. CASE ~x.done
  <2>1. usage = NoUsage
    BY <1>1, <1>5 DEF Tap
  <2> DEFINE S == Len(s)
             N == Len(out)
             all == s \o out
  <2>2. /\ S \in Nat /\ N \in Nat /\ DOMAIN s = 1 .. S /\ DOMAIN out = 1 .. N
        /\ DOMAIN all = 1 .. S + N /\ Len(all) = S + N
        /\ (\A i \in 1 .. S : all[i] = s[i]) /\ (\A i \in 1 .. N : all[S + i] = out[i])
    <3> DEFINE X == Range(s) \cup Range(out)
    <3>1. s \in Seq(X) /\ out \in Seq(X)
      <4>1. Range(s) \subseteq X /\ Range(out) \subseteq X
        OBVIOUS
      <4> HIDE DEF X
      <4> QED
        BY <1>2, <4>1, SeqMonotonic
    <3> HIDE DEF X
    <3> QED
      BY <3>1
  <2> HIDE DEF S, N, all, next
  <2>3. \A i \in 1 .. S : s[i].kind # "final" /\ s[i].usage = {}
    BY <1>1, <1>5, <2>2 DEF Told, EndTold
  <2>4. EndTold(a, all, y, p)
    BY <1>3 DEF Told, all
  <2>5. CASE y.done /\ a[p].usage # {}
    <3>1. p \in 1 .. Len(a) /\ p # 0
      BY <1>3, <2>4, <2>5 DEF EndTold, Told
    <3>2. a[p].type = "metadata" /\ IsOption(a[p].usage)
      <4>1. a[p] \in Range(a)
        BY <3>1 DEF Range, IsResponse
      <4> QED
        BY <2>5, <4>1 DEF IsResponse
    <3>3. Len(all) >= 2 /\ Len(all) - 1 \in DOMAIN all
      BY <2>2, <2>4, <2>5 DEF EndTold
    <3>4. /\ all[Len(all) - 1].kind = "final"
          /\ all[Len(all) - 1].usage = {RenameUsage(u) : u \in a[p].usage}
      BY <2>4, <2>5, <3>2, <3>3 DEF EndTold
    <3>5. \A i \in DOMAIN all : i # Len(all) - 1 => all[i].usage = {}
      BY <2>4 DEF EndTold
    <3> DEFINE j == N - 1
    <3>6. j \in 1 .. N /\ out[j] = all[Len(all) - 1] /\ S + j = Len(all) - 1
      <4>1. Len(all) - 1 \notin 1 .. S
        BY <2>2, <2>3, <3>4
      <4>2. j \in 1 .. N /\ S + j = Len(all) - 1
        BY <2>2, <3>3, <4>1
      <4> QED
        BY <2>2, <4>2
    <3>7. PICK u : a[p].usage = {u}
      <4>1. PICK u : u \in a[p].usage
        BY <2>5
      <4> QED
        BY <3>2, <4>1 DEF IsOption
    <3>8. out[j].usage = {RenameUsage(u)}
      BY <3>4, <3>6, <3>7
    <3>9. \A i \in DOMAIN out : i # j => out[i].usage = {}
      <4> TAKE i \in DOMAIN out
      <4>1. i \in 1 .. N /\ all[S + i] = out[i] /\ S + i \in 1 .. S + N
        BY <2>2
      <4>2. i # j => S + i # Len(all) - 1
        <5>1. i \in Int /\ j \in Int /\ S \in Int /\ S + j = Len(all) - 1
          BY <2>2, <3>6, <4>1
        <5> HIDE DEF j
        <5> QED
          BY <5>1
      <4> QED
        BY <2>2, <3>5, <4>1, <4>2
    <3>10. next = UsageOf(The(out[j].usage))
      <4> HIDE DEF j
      <4> QED
        BY <1>2, <2>2, <3>6, <3>8, <3>9, ScanOne, ZenonT(60) DEF next
    <3>11. The(out[j].usage) = RenameUsage(u) /\ The(a[p].usage) = u
      BY <3>7, <3>8, TheOne
    <3>12. Tap(a, next, y, p)
      BY <2>5, <3>10, <3>11 DEF Tap
    <3>13. SeenOf(a, s \o out, y, k, next)
      BY <1>3, <3>12 DEF SeenOf
    <3> QED
      BY <3>13 DEF t, out, y, next
  <2>6. CASE ~(y.done /\ a[p].usage # {})
    <3>1. \A i \in DOMAIN all : all[i].usage = {}
      <4> TAKE i \in DOMAIN all
      <4>1. CASE all[i].kind # "final"
        BY <2>4, <4>1 DEF EndTold
      <4>2. CASE all[i].kind = "final"
        <5>1. y.done /\ all[i].usage = {RenameUsage(u) : u \in a[p].usage}
          BY <2>4, <4>2 DEF EndTold
        <5> QED
          BY <2>6, <5>1
      <4> QED
        BY <4>1, <4>2
    <3>2. \A i \in DOMAIN out : out[i].usage = {}
      <4> TAKE i \in DOMAIN out
      <4>1. all[S + i] = out[i] /\ S + i \in DOMAIN all
        BY <2>2
      <4> QED
        BY <3>1, <4>1
    <3>3. next = usage
      BY <1>2, <3>2, ScanNone DEF next
    <3>4. Tap(a, next, y, p)
      BY <2>1, <2>6, <3>3 DEF Tap
    <3>5. SeenOf(a, s \o out, y, k, next)
      BY <1>3, <3>4 DEF SeenOf
    <3> QED
      BY <3>5 DEF t, out, y, next
  <2> QED
    BY <2>5, <2>6
<1> QED
  BY <1>4, <1>5

\* A response that ends with its usage, and not before, tells what its body would.
LEMMA CollectedIs ==
    ASSUME NEW a, IsResponse(a), NEW n \in Nat, n = Len(a), n # 0, NEW s, NEW x, Told(a, s, x, n),
           a[n].type = "metadata", \A i \in 1 .. n - 1 : a[i].type \notin {"metadata", "exception"}
    PROVE  Collected(s) = ConverseToOpenAI(BodyOf(a))
<1> DEFINE whole == BodyOf(a)
           D == {f \in Range(a) : f.type = "contentBlockDelta" /\ f.text # {}}
           d == Select(a, D)
           blocks == [i \in DOMAIN d |-> The(d[i].text)]
           t == TextChunks(s)
           stops == {i \in DOMAIN a : a[i].type = "messageStop"}
           ends == {i \in DOMAIN a : a[i].type = "metadata"}
           finals == {i \in DOMAIN s : s[i].kind = "final"}
           usage == {RenameUsage(u) : u \in a[n].usage}
<1>1. /\ a \in Seq(Range(a)) /\ DOMAIN a = 1 .. n /\ s \in Seq(Range(s)) /\ DOMAIN s = 1 .. Len(s) /\ Len(s) \in Nat
  BY DEF IsResponse, Told
<1>2. whole.blocks = blocks /\ whole.stop = UNION {a[i].text : i \in LastOf(stops)} /\ whole.usage = UNION {a[i].usage : i \in ends}
  BY DEF BodyOf
<1>3. d = DeltasOf(a, n)
  <2>1. SubSeq(a, 1, n) = a
    BY <1>1, SubSeqFull
  <2>2. D = {e \in Range(a) : IsDelta(e)}
    BY DEF IsDelta
  <2> HIDE DEF D
  <2> QED
    BY <2>1, <2>2 DEF DeltasOf
<1>4. Len(t) = Len(d) /\ \A i \in DOMAIN d : t[i].text = The(d[i].text)
  BY <1>3 DEF Told, TextsTold
<1>5. d \in Seq(Range(a) \cap D)
  <2> HIDE DEF D
  <2> QED
    BY <1>1, SelectFrom
<1>6. t \in Seq(Range(s))
  <2> DEFINE S == {c \in Range(s) : c.kind = "text"}
             R == Range(s)
  <2>1. Select(s, S) \in Seq(R \cap S) /\ R \cap S \subseteq R
    BY <1>1, SelectFrom
  <2>2. Select(s, S) \in Seq(R)
    <3> HIDE DEF S, R
    <3> QED
      BY <2>1, SeqMonotonic
  <2> QED
    BY <2>2 DEF TextChunks
<1>7. \A i \in DOMAIN d : blocks[i] # "tool"
  <2> TAKE i \in DOMAIN d
  <2>1. d[i] \in Range(a) /\ d[i].text # {}
    <3>1. d[i] \in Range(a) \cap D
      <4> HIDE DEF d, D
      <4> QED
        BY <1>5
    <3> QED
      BY <3>1
  <2>2. The(d[i].text) \in d[i].text
    BY <2>1, TheIsIn
  <2>3. "tool" \notin d[i].text
    BY <2>1 DEF IsResponse
  <2>4. blocks[i] = The(d[i].text)
    <3> HIDE DEF d
    <3> QED
      OBVIOUS
  <2> QED
    BY <2>2, <2>3, <2>4
<1> HIDE DEF d, t
<1>8. ConcatOutputText(blocks) = [i \in DOMAIN t |-> t[i].text]
  <2> DEFINE N == Len(d)
  <2>1. N \in Nat /\ DOMAIN d = 1 .. N /\ DOMAIN t = 1 .. N
    BY <1>4, <1>5, <1>6
  <2>2. blocks = [i \in DOMAIN t |-> t[i].text]
    BY <1>4, <2>1
  <2>3. blocks \in Seq(Range(blocks)) /\ Range(blocks) \subseteq Range(blocks) \ {"tool"}
    <3>1. DOMAIN blocks = 1 .. N
      BY <2>1
    <3>2. blocks = [i \in 1 .. N |-> blocks[i]]
      BY <2>1
    <3>3. \A i \in 1 .. N : blocks[i] # "tool"
      BY <1>7, <2>1
    <3> HIDE DEF blocks, N
    <3>4. \A i \in 1 .. N : blocks[i] \in Range(blocks)
      BY <3>1 DEF Range
    <3>5. blocks \in [1 .. N -> Range(blocks)]
      BY <3>2, <3>4
    <3>6. blocks \in Seq(Range(blocks))
      BY <2>1, <3>5
    <3>7. \A b \in Range(blocks) : b # "tool"
      BY <3>1, <3>3 DEF Range
    <3> QED
      BY <3>6, <3>7
  <2>4. ConcatOutputText(blocks) = blocks
    <3> HIDE DEF blocks
    <3> QED
      BY <2>3, SelectAll DEF ConcatOutputText
  <2> QED
    BY <2>2, <2>4
<1>9. EndTold(a, s, x, n) /\ FinishTold(a, x.finish, n)
  BY DEF Told
<1>10. x.done /\ Len(s) >= 2
  BY <1>9 DEF EndTold, IsEnd
<1> DEFINE j == Len(s) - 1
<1>11. /\ finals = {j} /\ s[j].text = OrElse(x.finish, "stop") /\ s[j].usage = usage
  <2>1. j \in DOMAIN s
    BY <1>1, <1>10
  <2>2. \A i \in DOMAIN s : s[i].kind = "final" <=> i = j
    BY <1>9, <1>10 DEF EndTold
  <2>3. s[j].kind = "final" => s[j].text = OrElse(x.finish, "stop") /\ s[j].usage = usage
    BY <1>9, <2>1 DEF EndTold
  <2> HIDE DEF usage, j
  <2>4. finals = {j}
    BY <2>1, <2>2
  <2> QED
    BY <2>1, <2>2, <2>3, <2>4
<1>12. whole.usage = a[n].usage
  <2>1. ends = {n}
    BY <1>1
  <2> HIDE DEF ends
  <2> QED
    BY <1>2, <2>1
<1>13. OrElse(x.finish, "stop") = MapFinishReason(whole.stop)
  <2>1. stops = {i \in 1 .. n : a[i].type = "messageStop"}
    BY <1>1
  <2> HIDE DEF stops
  <2>2. CASE stops = {}
    <3>0. x.finish = {} /\ LastOf(stops) = {}
      BY <1>9, <2>1, <2>2 DEF FinishTold, LastOf
    <3>1. x.finish = {} /\ whole.stop = {}
      <4> HIDE DEF whole
      <4> QED
        BY <1>2, <3>0
    <3>2. MapFinishReason({}) = "stop"
      BY DEF MapFinishReason
    <3> QED
      BY <3>1, <3>2 DEF OrElse
  <2>3. CASE stops # {}
    <3>1. PICK k \in stops : (\A i \in stops : i <= k) /\ x.finish = {MapFinishReason(a[k].text)}
      BY <1>9, <2>1, <2>3 DEF FinishTold
    <3>2. LastOf(stops) = {k}
      <4>1. stops \in SUBSET Nat
        BY <2>1
      <4>2. (\A y \in stops : k >= y) /\ \A z \in stops : (\A y \in stops : z >= y) => z = k
        BY <3>1, <4>1
      <4>3. Max(stops) = k
        BY <4>2 DEF Max
      <4> QED
        BY <2>3, <4>3 DEF LastOf
    <3>3. whole.stop = a[k].text
      BY <1>2, <3>2
    <3>4. OrElse(x.finish, "stop") = MapFinishReason(a[k].text)
      <4>1. x.finish # {} /\ The(x.finish) = MapFinishReason(a[k].text)
        BY <3>1, TheOne
      <4> QED
        BY <4>1 DEF OrElse
    <3> QED
      BY <3>3, <3>4
  <2> QED
    BY <2>2, <2>3
<1>14. /\ The({s[i].text : i \in finals}) = MapFinishReason(whole.stop)
       /\ UNION {s[i].usage : i \in finals} = {RenameUsage(u) : u \in whole.usage}
  <2>1. {s[i].text : i \in finals} = {OrElse(x.finish, "stop")} /\ UNION {s[i].usage : i \in finals} = usage
    <3> HIDE DEF usage, finals, j
    <3> QED
      BY <1>11
  <2>2. usage = {RenameUsage(u) : u \in whole.usage}
    BY <1>12
  <2> HIDE DEF usage, finals, whole
  <2> QED
    BY <1>13, <2>1, <2>2, TheOne
<1>15. Collected(s) = [content |-> [i \in DOMAIN t |-> t[i].text], finish |-> The({s[i].text : i \in finals}),
                       usage |-> UNION {s[i].usage : i \in finals}]
  BY DEF Collected, TextChunks, t
<1>16. ConverseToOpenAI(whole) = [content |-> ConcatOutputText(whole.blocks), finish |-> MapFinishReason(whole.stop),
                                 usage |-> {RenameUsage(u) : u \in whole.usage}]
  BY DEF ConverseToOpenAI
<1> HIDE DEF whole, blocks, finals
<1>17. ConcatOutputText(whole.blocks) = [i \in DOMAIN t |-> t[i].text]
  BY <1>2, <1>8
<1> QED
  BY <1>14, <1>15, <1>16, <1>17, Zenon DEF whole

\* Nothing was read yet.
LEMMA NothingSeen ==
    ASSUME NEW a, IsResponse(a)
    PROVE  SeenOf(a, <<>>, FreshXlate, 0, NoUsage)
<1>1. <<>> \in Seq(Range(<<>>)) /\ DOMAIN <<>> = {} /\ 0 \in 0 .. 0 /\ 0 \in 0 .. Len(a)
  BY DEF IsResponse
<1>2. FreshXlate.finish = {} /\ FreshXlate.done = FALSE /\ IsXlate(FreshXlate)
  BY DEF FreshXlate, IsXlate
<1>3. TextsTold(a, <<>>, 0)
  <2>1. SubSeq(a, 1, 0) = <<>>
    BY SubSeqEmpty
  <2>2. TextChunks(<<>>) = <<>> /\ DeltasOf(a, 0) = <<>>
    BY <2>1, SelectNone DEF TextChunks, DeltasOf
  <2> QED
    BY <1>1, <2>2 DEF TextsTold
<1>4. FinishTold(a, FreshXlate.finish, 0)
  BY <1>2 DEF FinishTold
<1>5. EndTold(a, <<>>, FreshXlate, 0)
  BY <1>1, <1>2 DEF EndTold
<1>6. Told(a, <<>>, FreshXlate, 0) /\ Tap(a, NoUsage, FreshXlate, 0)
  BY <1>1, <1>2, <1>3, <1>4, <1>5 DEF Told, Tap
<1> QED
  BY <1>1, <1>6 DEF SeenOf

-----------------------------------------------------------------------------
(* The stream *)

\* Of a translated stream, what the client got is what the events that were read
\* told; of another, what the tap has is what they say.
StreamPart ==
    /\ flow \in {"ask", "sent", "refused", "stream", "ended", "broken"}
    /\ flow \in {"ask", "sent", "refused"} =>
          /\ fed = 0 /\ taken = 0 /\ xlate = FreshXlate /\ tapped = NoUsage
          /\ client = <<>> /\ reported = {} /\ wire[1] = "converse"
    /\ flow \in {"stream", "ended", "broken"} =>
          /\ wire \in Responses
          /\ fed \in 0 .. 3 * Len(wire[2]) /\ taken \in 0 .. Len(wire[2])
          /\ flow = "stream" => taken = fed \div 3 /\ reported = {}
          /\ wire[1] = "converse" =>
                \E s : /\ SeenOf(wire[2], s, xlate, taken, tapped)
                       /\ client = IF flow = "ended" THEN s \o Finalize(xlate) ELSE s
                       /\ reported \subseteq {tapped}
          /\ wire[1] # "converse" =>
                /\ taken = fed \div 3
                /\ \E usage : /\ Scanned(wire, usage, taken)
                              /\ IF reported = {} THEN tapped = usage
                                 ELSE reported = {Finish(usage, taken, fed)}

LEMMA WireIs ==
    ASSUME NEW w \in Responses
    PROVE  /\ w[1] \in WireFormats /\ w[2] \in Seq(Range(w[2]))
           /\ w[1] = "converse" => IsResponse(w[2])
BY ResponsesAssumption DEF IsResponse

LEMMA StreamStart == UpstreamInit => StreamPart
BY DEF UpstreamInit, StreamPart

LEMMA RespondStream == ASSUME StreamPart, Respond PROVE StreamPart'
<1>1. /\ wire' \in Responses /\ flow' = "stream" /\ fed' = 0 /\ taken' = 0 /\ xlate' = FreshXlate
      /\ tapped' = NoUsage /\ client' = <<>> /\ reported' = {}
  BY DEF Respond, StreamPart
<1> DEFINE w == wire'
<1>2. w[1] \in WireFormats /\ w[2] \in Seq(Range(w[2])) /\ (w[1] = "converse" => IsResponse(w[2]))
  BY <1>1, WireIs
<1>3. 0 \in 0 .. 3 * Len(w[2]) /\ 0 \in 0 .. Len(w[2]) /\ 0 = 0 \div 3
  BY <1>2
<1>4. w[1] = "converse" => SeenOf(w[2], <<>>, FreshXlate, 0, NoUsage)
  BY <1>2, NothingSeen
<1>5. w[1] # "converse" => Scanned(w, NoUsage, 0)
  <2>1. \A P, f : Latest({}, {}, f)
    BY DEF Latest
  <2>2. /\ NoUsage = [input |-> NoUsage.input, output |-> NoUsage.output]
        /\ NoUsage.input = {} /\ NoUsage.output = {}
    BY DEF NoUsage
  <2>3. /\ {i \in 1 .. 0 : SetsInput(w[2][i])} = {} /\ {i \in 1 .. 0 : SetsOutput(w[2][i])} = {}
        /\ {i \in 1 .. 0 : SetsBoth(w[2][i])} = {}
    OBVIOUS
  <2> QED
    BY <2>1, <2>2, <2>3 DEF Scanned
<1> HIDE DEF w
<1>6. w[1] # "converse" => \E usage : Scanned(w, usage, 0) /\ NoUsage = usage
  BY <1>5
<1>7. w[1] = "converse" => \E s : SeenOf(w[2], s, FreshXlate, 0, NoUsage) /\ <<>> = s
  BY <1>4
<1> QED
  BY <1>1, <1>3, <1>6, <1>7 DEF StreamPart, w

\* What is known of a stream that flows.
LEMMA StreamFlows ==
    ASSUME StreamPart, flow = "stream"
    PROVE  /\ wire \in Responses /\ arriving = wire[2] /\ arriving \in Seq(Range(arriving))
           /\ wire[1] \in WireFormats /\ Len(arriving) \in Nat
           /\ fed \in 0 .. 3 * Len(arriving) /\ taken = fed \div 3 /\ taken \in 0 .. Len(arriving)
           /\ reported = {}
           /\ wire[1] = "converse" => IsResponse(arriving) /\ SeenOf(arriving, client, xlate, taken, tapped)
           /\ wire[1] # "converse" => Scanned(wire, tapped, taken)
<1>1. /\ wire \in Responses
      /\ fed \in 0 .. 3 * Len(wire[2]) /\ taken \in 0 .. Len(wire[2])
      /\ taken = fed \div 3 /\ reported = {}
      /\ wire[1] = "converse" => \E s : SeenOf(wire[2], s, xlate, taken, tapped) /\ client = s
      /\ wire[1] # "converse" => \E usage : Scanned(wire, usage, taken) /\ tapped = usage
  BY DEF StreamPart
<1>2. wire[1] \in WireFormats /\ wire[2] \in Seq(Range(wire[2])) /\ (wire[1] = "converse" => IsResponse(wire[2]))
  BY <1>1, WireIs
<1>3. Len(wire[2]) \in Nat
  BY <1>2
<1> QED
  BY <1>1, <1>2, <1>3 DEF arriving

LEMMA FramesStream ==
    ASSUME StreamPart, NEW units \in fed + 1 .. 3 * Len(arriving), ReceiveFrames(units)
    PROVE  StreamPart'
<1>1. flow = "stream" /\ wire[1] = "converse" /\ wire' = wire /\ fed' = units
  BY DEF ReceiveFrames
<1>2. /\ wire \in Responses /\ arriving = wire[2] /\ Len(arriving) \in Nat
      /\ fed \in 0 .. 3 * Len(arriving) /\ taken = fed \div 3 /\ taken \in 0 .. Len(arriving)
      /\ reported = {} /\ IsResponse(arriving) /\ SeenOf(arriving, client, xlate, taken, tapped)
  BY <1>1, StreamFlows
<1> DEFINE k == units \div 3
<1>3. units \in 0 .. 3 * Len(wire[2]) /\ k \in Nat /\ taken <= k /\ k <= Len(arriving) /\ k \in 0 .. Len(wire[2])
  BY <1>2
<1>4. CASE Drain(units) = {}
  <2>1. /\ client' = client \o Finalize(xlate) /\ flow' = "ended" /\ tapped' = tapped /\ reported' = {tapped}
        /\ taken' = taken /\ xlate' = xlate
    BY <1>4 DEF ReceiveFrames, OnComplete
  <2>2. \E s : /\ SeenOf(wire[2], s, xlate, taken, tapped)
               /\ client \o Finalize(xlate) = s \o Finalize(xlate)
    BY <1>2
  <2> QED
    BY <1>1, <1>2, <1>3, <2>1, <2>2 DEF StreamPart
<1>5. CASE Drain(units) # {}
  <2> DEFINE t == Translate(SubSeq(arriving, taken + 1, k), xlate)
  <2>1. The(Drain(units)) = SubSeq(arriving, taken + 1, k)
    BY <1>5, TheOne DEF Drain
  <2>2. /\ client' = client \o t.out /\ xlate' = t.x /\ tapped' = ScanChunks(tapped, t.out)
        /\ taken' = k /\ flow' = flow /\ reported' = reported
    BY <1>5, <2>1 DEF ReceiveFrames
  <2>3. client \in Seq(Range(client))
    BY <1>2 DEF SeenOf, Told
  <2> HIDE DEF k
  <2>4. SeenOf(arriving, client \o t.out, t.x, k, ScanChunks(tapped, t.out))
    BY <1>2, <1>3, <2>3, PieceSeen
  <2> HIDE DEF t
  <2>5. \E s : SeenOf(wire[2], s, xlate', taken', tapped') /\ client' = s
    BY <1>2, <2>2, <2>4
  <2>6. taken' = units \div 3
    BY <2>2 DEF k
  <2> QED
    BY <1>1, <1>2, <1>3, <2>2, <2>5, <2>6 DEF StreamPart
<1> QED
  BY <1>4, <1>5

LEMMA EventsStream ==
    ASSUME StreamPart, NEW units \in fed + 1 .. 3 * Len(arriving), ReceiveEvents(units)
    PROVE  StreamPart'
<1>1. /\ flow = "stream" /\ wire[1] # "converse" /\ wire' = wire /\ fed' = units /\ taken' = units \div 3
      /\ flow' = flow /\ reported' = reported /\ tapped' = Push(units)
  BY DEF ReceiveEvents
<1>2. /\ wire \in Responses /\ arriving = wire[2] /\ arriving \in Seq(Range(arriving)) /\ Len(arriving) \in Nat
      /\ wire[1] \in WireFormats
      /\ fed \in 0 .. 3 * Len(arriving) /\ taken = fed \div 3 /\ taken \in 0 .. Len(arriving)
      /\ reported = {} /\ Scanned(wire, tapped, taken)
  BY <1>1, StreamFlows
<1>3. /\ units \in 0 .. 3 * Len(wire[2]) /\ units \div 3 \in taken .. Len(arriving)
      /\ units \div 3 \in 0 .. Len(wire[2]) /\ taken \in Nat
  BY <1>2
<1>4. Scanned(wire, Push(units), units \div 3)
  <2>1. wire[1] \in {"anthropic", "open_ai"}
    BY <1>1, <1>2 DEF WireFormats
  <2> QED
    BY <1>2, <1>3, <2>1, PushScans
<1>5. \E usage : Scanned(wire, usage, taken') /\ tapped' = usage
  BY <1>1, <1>4
<1> QED
  BY <1>1, <1>2, <1>3, <1>5 DEF StreamPart

LEMMA CloseStream == ASSUME StreamPart, Close \/ Break PROVE StreamPart'
<1>1. flow = "stream" /\ UNCHANGED <<wire, fed, taken, xlate>> /\ flow' \in {"ended", "broken"}
  BY DEF Close, Break
<1>2. /\ wire \in Responses /\ arriving = wire[2] /\ arriving \in Seq(Range(arriving)) /\ Len(arriving) \in Nat
      /\ fed \in 0 .. 3 * Len(arriving) /\ taken = fed \div 3 /\ taken \in 0 .. Len(arriving)
      /\ wire[1] = "converse" => IsResponse(arriving) /\ SeenOf(arriving, client, xlate, taken, tapped)
      /\ wire[1] # "converse" => Scanned(wire, tapped, taken)
  BY <1>1, StreamFlows
<1>3. CASE wire[1] = "converse"
  <2>1. /\ client' = IF flow' = "ended" THEN client \o Finalize(xlate) ELSE client
        /\ tapped' = tapped /\ reported' = {tapped}
    BY <1>3 DEF Close, Break, OnComplete
  <2>2. \E s : /\ SeenOf(wire[2], s, xlate, taken, tapped)
               /\ client' = IF flow' = "ended" THEN s \o Finalize(xlate) ELSE s
    BY <1>2, <1>3, <2>1
  <2> QED
    BY <1>1, <1>2, <1>3, <2>1, <2>2 DEF StreamPart
<1>4. CASE wire[1] # "converse"
  <2>1. reported' = {Finish(tapped, taken, fed)}
    BY <1>4 DEF Close, Break, OnComplete
  <2>2. PICK u : u = tapped
    OBVIOUS
  <2>3. Scanned(wire, u, taken) /\ reported' = {Finish(u, taken, fed)}
    BY <1>2, <1>4, <2>1, <2>2
  <2>4. Finish(u, taken, fed)' = Finish(u, taken, fed)
    BY <1>1 DEF Finish, ScanEvent, arriving
  <2>5. Scanned(wire', u, taken') /\ reported' # {} /\ reported' = {Finish(u, taken, fed)'}
    BY <1>1, <2>3, <2>4
  <2>6. (\E usage : /\ Scanned(wire, usage, taken)
                    /\ IF reported = {} THEN tapped = usage
                       ELSE reported = {Finish(usage, taken, fed)})'
    BY <2>5
  <2> QED
    BY <1>1, <1>2, <1>4, <2>6 DEF StreamPart
<1> QED
  BY <1>3, <1>4

\* The end of a translated stream that the gateway ends.
LEMMA EndedOnce ==
    ASSUME NEW a, NEW s, NEW x, NEW n, Told(a, s, x, n), NEW all, all \in {s \o Finalize(x), s}
    PROVE  LET dones == {i \in DOMAIN all : all[i].kind = "done"}
           IN /\ dones \subseteq {Len(all)} /\ (all = s \o Finalize(x) => dones # {})
              /\ x.done => all = s
<1> DEFINE dones == {i \in DOMAIN all : all[i].kind = "done"}
           N == Len(s)
<1>1. /\ s \in Seq(Range(s)) /\ N \in Nat /\ DOMAIN s = 1 .. N /\ EndTold(a, s, x, n) /\ x.done \in BOOLEAN
  BY DEF Told, IsXlate
<1>2. \A i \in DOMAIN s : s[i].kind = "done" <=> x.done /\ i = N
  BY <1>1 DEF EndTold
<1>3. CASE x.done
  <2>1. all = s
    <3>1. s \o <<>> = s
      BY <1>1
    <3> QED
      BY <1>3, <3>1 DEF Finalize
  <2>2. N >= 2
    BY <1>1, <1>3 DEF EndTold
  <2>3. N \in DOMAIN s /\ \A i \in DOMAIN s : s[i].kind = "done" <=> i = N
    BY <1>1, <1>2, <1>3, <2>2
  <2>4. dones = {N}
    <3> HIDE DEF N
    <3> QED
      BY <2>1, <2>3
  <2> QED
    BY <2>1, <2>4
<1>4. CASE ~x.done /\ all = s \o Finalize(x)
  <2> DEFINE c == [kind |-> "done", text |-> "", usage |-> {}]
  <2>1. all = s \o <<c>>
    BY <1>4 DEF Finalize, DoneBlock, Chunk
  <2>2. c.kind = "done"
    OBVIOUS
  <2> HIDE DEF c
  <2>3. all = Append(s, c)
    <3>1. s \in Seq(Range(s) \cup {c}) /\ c \in Range(s) \cup {c}
      <4>1. Range(s) \subseteq Range(s) \cup {c}
        OBVIOUS
      <4> QED
        BY <1>1, <4>1, SeqMonotonic
    <3> QED
      BY <2>1, <3>1
  <2>4. DOMAIN all = 1 .. N + 1 /\ Len(all) = N + 1 /\ all[N + 1] = c /\ \A i \in 1 .. N : all[i] = s[i]
    <3>1. s \in Seq(Range(s) \cup {c}) /\ c \in Range(s) \cup {c}
      <4>1. Range(s) \subseteq Range(s) \cup {c}
        OBVIOUS
      <4> QED
        BY <1>1, <4>1, SeqMonotonic
    <3> QED
      BY <2>3, <3>1
  <2>5. dones = {N + 1}
    <3>1. ASSUME NEW i \in DOMAIN all PROVE all[i].kind = "done" <=> i = N + 1
      <4>1. i \in 1 .. N \/ i = N + 1
        BY <1>1, <2>4
      <4> QED
        BY <1>1, <1>2, <1>4, <2>2, <2>4, <4>1
    <3>2. N + 1 \in DOMAIN all
      BY <1>1, <2>4
    <3> QED
      BY <3>1, <3>2
  <2> QED
    BY <1>4, <2>4, <2>5
<1>5. CASE ~x.done /\ all # s \o Finalize(x)
  <2>1. dones = {}
    BY <1>2, <1>5
  <2> QED
    BY <1>5, <2>1
<1> QED
  BY <1>3, <1>4, <1>5

LEMMA ConverseTapped ==
    ASSUME wire[1] = "converse", IsResponse(arriving), NEW s, SeenOf(arriving, s, xlate, taken, tapped),
           taken \in 0 .. Len(arriving), reported = {tapped}
    PROVE  UsageTapped
<1> DEFINE a == arriving
           x == xlate
           ends == {i \in 1 .. taken : a[i].type \in {"metadata", "exception"}}
           u(i) == The(a[i].usage)
           first == {i \in ends : i = Min(ends) /\ a[i].usage # {}}
           Shown(usage) == /\ usage = NoUsage <=> first = {}
                           /\ \A i \in first : /\ usage.input = {OrElse(u(i).input, 0)}
                                               /\ usage.output = {OrElse(u(i).output, 0)}
<1>1. PICK n \in 0 .. taken : Told(a, s, x, n) /\ (n < taken => x.done) /\ Tap(a, tapped, x, n)
  BY DEF SeenOf
<1>2. EndTold(a, s, x, n) /\ n \in 0 .. Len(a) /\ Len(a) \in Nat
  BY <1>1 DEF Told, IsResponse
<1>3. (\A i \in 1 .. n - 1 : ~IsEnd(a[i])) /\ (x.done <=> n # 0 /\ IsEnd(a[n]))
  BY <1>2 DEF EndTold
<1> HIDE DEF a, x
<1>4. CASE x.done
  <2>1. n \in ends /\ \A i \in ends : n <= i
    BY <1>2, <1>3, <1>4 DEF IsEnd
  <2>2. Min(ends) = n
    <3>1. \A z \in ends : z \in Nat
      OBVIOUS
    <3> HIDE DEF ends
    <3>2. \A z \in ends : (\A y \in ends : z <= y) => z = n
      BY <2>1, <3>1
    <3> QED
      BY <2>1, <3>2 DEF Min
  <2> HIDE DEF ends
  <2>3. first = IF a[n].usage # {} THEN {n} ELSE {}
    BY <2>1, <2>2
  <2>4. CASE a[n].usage = {}
    <3>1. tapped = NoUsage /\ first = {}
      BY <1>1, <2>3, <2>4 DEF Tap
    <3> QED
      BY <1>1, <3>1, TheOne DEF UsageTapped, a, ends
  <2>5. CASE a[n].usage # {}
    <3>1. tapped = UsageOf(RenameUsage(u(n))) /\ first = {n}
      BY <1>1, <1>4, <2>3, <2>5 DEF Tap
    <3> HIDE DEF u
    <3>2. tapped.input = {OrElse(u(n).input, 0)} /\ tapped.output = {OrElse(u(n).output, 0)}
      BY <3>1 DEF UsageOf, RenameUsage
    <3>3. tapped # NoUsage
      BY <3>2 DEF NoUsage
    <3> HIDE DEF first
    <3>4. Shown(tapped)
      BY <3>1, <3>2, <3>3
    <3>5. Shown(The(reported))
      BY <3>4, TheOne
    <3> QED
      BY <3>5 DEF UsageTapped, a, ends, first, u
  <2> QED
    BY <2>4, <2>5
<1>5. CASE ~x.done
  <2>1. n = taken /\ tapped = NoUsage
    BY <1>1, <1>5 DEF Tap
  <2>2. ends = {}
    BY <1>2, <1>3, <1>5, <2>1 DEF IsEnd
  <2>3. first = {}
    BY <2>2
  <2> HIDE DEF first
  <2>4. Shown(tapped)
    BY <2>1, <2>3
  <2>5. Shown(The(reported))
    BY <2>4, TheOne
  <2> QED
    BY <2>5 DEF UsageTapped, a, first
<1> QED
  BY <1>4, <1>5

\* Of every response, of any length, cut anywhere: the client and its bills get
\* what the upstream said.
THEOREM StreamHolds == UpstreamSpec => []StreamTold
<1>1. StreamPart /\ [UpstreamNext]_upstreamVars => StreamPart'
  <2> SUFFICES ASSUME StreamPart, [UpstreamNext]_upstreamVars PROVE StreamPart'
    OBVIOUS
  <2>1. CASE BuildConverseBody
    <3>1. /\ flow = "ask" /\ flow' \in {"refused", "sent"}
          /\ UNCHANGED <<wire, fed, taken, xlate, tapped, client, reported>>
      BY <2>1 DEF BuildConverseBody
    <3> QED
      BY <3>1 DEF StreamPart
  <2>2. CASE UNCHANGED upstreamVars
    <3>1. UNCHANGED <<flow, wire, fed, taken, xlate, tapped, client, reported>>
      BY <2>2 DEF upstreamVars
    <3>2. \A usage : Finish(usage, taken, fed)' = Finish(usage, taken, fed)
      BY <3>1 DEF Finish, ScanEvent, arriving
    <3> QED
      BY <3>1, <3>2 DEF StreamPart
  <2>3. CASE Respond
    BY <2>3, RespondStream
  <2>4. CASE Close \/ Break
    BY <2>4, CloseStream
  <2>5. ASSUME NEW units \in fed + 1 .. 3 * Len(arriving), ReceiveFrames(units) \/ ReceiveEvents(units)
        PROVE  StreamPart'
    BY <2>5, FramesStream, EventsStream
  <2> QED
    BY <2>1, <2>2, <2>3, <2>4, <2>5 DEF UpstreamNext
<1>2. StreamPart => UsageTapped
  <2> SUFFICES ASSUME StreamPart, reported # {} PROVE UsageTapped
    BY DEF UsageTapped
  <2>1. /\ flow \in {"ended", "broken"} /\ wire \in Responses
        /\ fed \in 0 .. 3 * Len(wire[2]) /\ taken \in 0 .. Len(wire[2])
    BY DEF StreamPart
  <2>2. wire[1] \in WireFormats /\ wire[2] \in Seq(Range(wire[2])) /\ (wire[1] = "converse" => IsResponse(wire[2]))
    BY <2>1, WireIs
  <2>3. CASE wire[1] = "converse"
    <3>1. PICK s : SeenOf(wire[2], s, xlate, taken, tapped) /\ reported \subseteq {tapped}
      BY <2>1, <2>3 DEF StreamPart
    <3>2. reported = {tapped}
      BY <3>1
    <3> QED
      BY <2>1, <2>2, <2>3, <3>1, <3>2, ConverseTapped DEF arriving
  <2>4. CASE wire[1] # "converse"
    <3>1. taken = fed \div 3
          /\ \E usage : Scanned(wire, usage, taken) /\ reported = {Finish(usage, taken, fed)}
      BY <2>1, <2>4 DEF StreamPart
    <3>2. PICK usage : Scanned(wire, usage, taken) /\ reported = {Finish(usage, taken, fed)}
      BY <3>1
    <3>3. wire[1] \in {"anthropic", "open_ai"} /\ arriving \in Seq(Range(arriving)) /\ fed \in 0 .. 3 * Len(arriving)
      BY <2>1, <2>2, <2>4 DEF WireFormats, arriving
    <3> QED
      BY <3>1, <3>2, <3>3, ReportedTapped
  <2> QED
    BY <2>3, <2>4
<1>3. StreamPart => StreamCompletes
  <2> SUFFICES ASSUME StreamPart, wire[1] = "converse", flow \in {"ended", "broken", "stream"}
               PROVE  StreamCompletes
    BY DEF StreamCompletes
  <2>1. wire \in Responses /\ taken \in 0 .. Len(wire[2])
    BY DEF StreamPart
  <2>2. PICK s : /\ SeenOf(wire[2], s, xlate, taken, tapped)
                 /\ client = IF flow = "ended" THEN s \o Finalize(xlate) ELSE s
    BY DEF StreamPart
  <2>3. IsResponse(arriving) /\ arriving = wire[2]
    BY <2>1, WireIs DEF arriving
  <2>4. PICK n \in 0 .. taken : Told(arriving, s, xlate, n) /\ (n < taken => xlate.done)
    BY <2>2, <2>3 DEF SeenOf
  <2> DEFINE dones == {i \in DOMAIN client : client[i].kind = "done"}
             ended == flow = "ended"
  <2>5. dones \subseteq {Len(client)} /\ (ended => dones # {}) /\ (xlate.done => client = s)
    <3>1. client \in {s \o Finalize(xlate), s} /\ (ended => client = s \o Finalize(xlate))
      BY <2>2
    <3>2. /\ dones \subseteq {Len(client)} /\ (client = s \o Finalize(xlate) => dones # {})
          /\ xlate.done => client = s
      BY <2>4, <3>1, EndedOnce
    <3> QED
      BY <3>1, <3>2
  <2>6. ASSUME taken > 0, taken = Len(arriving), arriving[taken].type = "metadata",
               \A i \in 1 .. taken - 1 : arriving[i].type \notin {"metadata", "exception"}
        PROVE  Collected(client) = ConverseToOpenAI(BodyOf(arriving))
    <3>1. /\ \A i \in 1 .. n - 1 : ~IsEnd(arriving[i])
          /\ xlate.done <=> n # 0 /\ IsEnd(arriving[n])
      BY <2>4 DEF Told, EndTold
    <3>2. n = taken
      <4>1. CASE n < taken
        <5>1. n # 0 /\ IsEnd(arriving[n])
          BY <2>4, <3>1, <4>1
        <5>2. n \in 1 .. taken - 1
          BY <2>1, <4>1, <5>1
        <5> QED
          BY <2>6, <5>1, <5>2 DEF IsEnd
      <4> QED
        BY <2>1, <4>1
    <3>3. xlate.done
      BY <2>1, <2>6, <3>1, <3>2 DEF IsEnd
    <3>4. client = s
      BY <2>5, <3>3
    <3>5. taken \in Nat /\ taken # 0
      BY <2>1, <2>6
    <3> QED
      BY <2>3, <2>4, <2>6, <3>2, <3>4, <3>5, CollectedIs
  <2>7. ended /\ taken > 0 /\ taken = Len(arriving) =>
           \/ arriving[taken].type # "metadata"
           \/ \E i \in 1 .. taken - 1 : arriving[i].type \in {"metadata", "exception"}
           \/ Collected(client) = ConverseToOpenAI(BodyOf(arriving))
    BY <2>6
  <2> QED
    BY <2>5, <2>7 DEF StreamCompletes
<1>4. StreamPart => StreamTold
  BY <1>2, <1>3 DEF StreamTold
<1> QED
  BY <1>1, <1>4, StreamStart, PTL DEF UpstreamSpec

-----------------------------------------------------------------------------
(* Sequences in the order of a relation *)

Sorted(s, R) == \A k, l \in DOMAIN s : k < l => <<s[k], s[l]>> \in R

LEMMA SortedAppend ==
    ASSUME NEW X, NEW s \in Seq(X), NEW x \in X, NEW R, Sorted(s, R), \A y \in Range(s) : <<y, x>> \in R
    PROVE  Sorted(Append(s, x), R)
<1> DEFINE t == Append(s, x)
<1>1. /\ Len(s) \in Nat /\ DOMAIN t = 1 .. Len(s) + 1 /\ t[Len(s) + 1] = x
      /\ \A i \in 1 .. Len(s) : t[i] = s[i] /\ s[i] \in Range(s) /\ i \in DOMAIN s
  BY DEF Range
<1> HIDE DEF t
<1>2. ASSUME NEW k \in DOMAIN t, NEW l \in DOMAIN t, k < l PROVE <<t[k], t[l]>> \in R
  <2>1. k \in 1 .. Len(s) /\ l \in 1 .. Len(s) + 1
    BY <1>1, <1>2
  <2>2. CASE l = Len(s) + 1
    BY <1>1, <2>1, <2>2
  <2>3. CASE l # Len(s) + 1
    <3>1. l \in 1 .. Len(s)
      BY <1>1, <2>1, <2>3
    <3> QED
      BY <1>1, <1>2, <2>1, <3>1 DEF Sorted
  <2> QED
    BY <2>2, <2>3
<1> QED
  BY <1>2 DEF Sorted, t

LEMMA SortedConcat ==
    ASSUME NEW X, NEW s \in Seq(X), NEW t \in Seq(X), NEW R, Sorted(s, R), Sorted(t, R),
           \A x \in Range(s), y \in Range(t) : <<x, y>> \in R
    PROVE  Sorted(s \o t, R)
<1> DEFINE c == s \o t
<1>1. /\ Len(s) \in Nat /\ Len(t) \in Nat /\ DOMAIN c = 1 .. Len(s) + Len(t)
      /\ \A i \in 1 .. Len(s) : c[i] = s[i] /\ s[i] \in Range(s) /\ i \in DOMAIN s
      /\ \A i \in Len(s) + 1 .. Len(s) + Len(t) :
            c[i] = t[i - Len(s)] /\ t[i - Len(s)] \in Range(t) /\ i - Len(s) \in DOMAIN t
  BY DEF Range
<1> HIDE DEF c
<1>2. ASSUME NEW k \in DOMAIN c, NEW l \in DOMAIN c, k < l PROVE <<c[k], c[l]>> \in R
  <2>0. k \in 1 .. Len(s) + Len(t) /\ l \in 1 .. Len(s) + Len(t)
    BY <1>1
  <2>1. CASE k \in 1 .. Len(s) /\ l \in 1 .. Len(s)
    BY <1>1, <1>2, <2>1 DEF Sorted
  <2>2. CASE k \in 1 .. Len(s) /\ l \in Len(s) + 1 .. Len(s) + Len(t)
    BY <1>1, <2>2
  <2>3. CASE k \in Len(s) + 1 .. Len(s) + Len(t) /\ l \in Len(s) + 1 .. Len(s) + Len(t)
    <3>1. k - Len(s) < l - Len(s)
      BY <1>1, <1>2, <2>3
    <3> QED
      BY <1>1, <2>3, <3>1 DEF Sorted
  <2> QED
    BY <1>1, <1>2, <2>0, <2>1, <2>2, <2>3
<1> QED
  BY <1>2 DEF Sorted, c

LEMMA ConcatRange ==
    ASSUME NEW X, NEW s \in Seq(X), NEW t \in Seq(X)
    PROVE  Range(s \o t) = Range(s) \cup Range(t)
<1>1. /\ Len(s) \in Nat /\ Len(t) \in Nat /\ DOMAIN (s \o t) = 1 .. Len(s) + Len(t)
      /\ DOMAIN s = 1 .. Len(s) /\ DOMAIN t = 1 .. Len(t)
      /\ \A i \in 1 .. Len(s) : (s \o t)[i] = s[i]
      /\ \A i \in 1 .. Len(t) : (s \o t)[Len(s) + i] = t[i]
  OBVIOUS
<1>2. ASSUME NEW x \in Range(s) \cup Range(t) PROVE x \in Range(s \o t)
  <2>1. CASE x \in Range(s)
    <3>1. PICK i \in 1 .. Len(s) : x = s[i]
      BY <1>1, <2>1 DEF Range
    <3>2. i \in DOMAIN (s \o t)
      BY <1>1
    <3> QED
      BY <1>1, <3>1, <3>2 DEF Range
  <2>2. CASE x \in Range(t)
    <3>1. PICK i \in 1 .. Len(t) : x = t[i]
      BY <1>1, <2>2 DEF Range
    <3>2. Len(s) + i \in DOMAIN (s \o t)
      BY <1>1
    <3> QED
      BY <1>1, <3>1, <3>2 DEF Range
  <2> QED
    BY <2>1, <2>2
<1>3. ASSUME NEW x \in Range(s \o t) PROVE x \in Range(s) \cup Range(t)
  <2>1. PICK i \in 1 .. Len(s) + Len(t) : x = (s \o t)[i]
    BY <1>1, <1>3 DEF Range
  <2>2. CASE i \in 1 .. Len(s)
    BY <1>1, <2>1, <2>2 DEF Range
  <2>3. CASE i \notin 1 .. Len(s)
    <3>1. i - Len(s) \in 1 .. Len(t) /\ Len(s) + (i - Len(s)) = i
      BY <1>1, <2>3
    <3>2. x = t[i - Len(s)]
      BY <1>1, <2>1, <3>1
    <3> QED
      BY <1>1, <3>1, <3>2 DEF Range
  <2> QED
    BY <2>2, <2>3
<1> QED
  BY <1>2, <1>3

\* What is selected keeps its order, and is all that the set has.
LEMMA SelectSorted ==
    ASSUME NEW X, NEW s \in Seq(X), NEW S
    PROVE  /\ Range(Select(s, S)) = Range(s) \cap S
           /\ \A R : Sorted(s, R) => Sorted(Select(s, S), R)
<1>1. PICK f : /\ Select(s, S) = f[Len(s)] /\ f[0] = <<>>
               /\ \A n \in 1 .. Len(s) : SelectStep(f, s, S, n)
  BY SelectBy
<1>2. Len(s) \in Nat /\ DOMAIN s = 1 .. Len(s)
  OBVIOUS
<1> DEFINE first(i) == {s[j] : j \in 1 .. i}
           T == {i \in 0 .. Len(s) : /\ f[i] \in Seq(X) /\ Range(f[i]) = first(i) \cap S
                                     /\ \A R : Sorted(s, R) => Sorted(f[i], R)}
<1>3. 0 \in T
  <2>1. <<>> \in Seq(X) /\ Range(<<>>) = {} /\ \A R : Sorted(<<>>, R)
    BY DEF Range, Sorted
  <2>2. first(0) = {}
    BY <1>2
  <2>3. f[0] \in Seq(X) /\ Range(f[0]) = first(0) \cap S /\ \A R : Sorted(f[0], R)
    <3> HIDE DEF first
    <3> QED
      BY <1>1, <2>1, <2>2, Zenon
  <2> QED
    BY <1>2, <2>3
<1>4. ASSUME NEW i \in 1 .. Len(s), i - 1 \in T PROVE i \in T
  <2>1. f[i] = IF s[i] \in S THEN Append(f[i - 1], s[i]) ELSE f[i - 1]
    BY <1>1 DEF SelectStep
  <2> DEFINE a == f[i - 1]
  <2>2. a \in Seq(X) /\ Range(a) = first(i - 1) \cap S /\ \A R : Sorted(s, R) => Sorted(a, R)
    BY <1>4
  <2>3. first(i) = first(i - 1) \cup {s[i]}
    <3>1. i \in Nat /\ 1 .. i = 1 .. (i - 1) \cup {i}
      BY <1>2
    <3> QED
      BY <3>1
  <2>4. ASSUME NEW R, Sorted(s, R), NEW y \in first(i - 1) PROVE <<y, s[i]>> \in R
    <3>1. PICK j \in 1 .. i - 1 : y = s[j]
      BY <2>4
    <3>2. j \in DOMAIN s /\ i \in DOMAIN s /\ j < i
      BY <1>2
    <3> QED
      BY <2>4, <3>1, <3>2 DEF Sorted
  <2>5. s[i] \in X
    BY <1>2
  <2> HIDE DEF a, first
  <2>6. CASE s[i] \in S
    <3>1. f[i] = Append(a, s[i])
      BY <2>1, <2>6 DEF a
    <3>2. Range(f[i]) = Range(a) \cup {s[i]}
      BY <2>2, <2>5, <3>1, AppendProperties, SMTT(40) DEF Range
    <3>3. f[i] \in Seq(X) /\ Range(f[i]) = first(i) \cap S
      BY <2>2, <2>3, <2>5, <2>6, <3>1, <3>2
    <3>4. ASSUME NEW R, Sorted(s, R) PROVE Sorted(f[i], R)
      <4>1. Sorted(a, R) /\ \A y \in Range(a) : <<y, s[i]>> \in R
        BY <2>2, <2>4, <3>4
      <4> QED
        BY <2>2, <2>5, <3>1, <4>1, SortedAppend
    <3> QED
      BY <1>2, <3>3, <3>4
  <2>7. CASE s[i] \notin S
    <3>1. f[i] = a
      BY <2>1, <2>7 DEF a
    <3> QED
      BY <1>2, <2>2, <2>3, <2>7, <3>1
  <2> QED
    BY <2>6, <2>7
<1> HIDE DEF T
<1>5. \A i \in 0 .. Len(s) : i \in T
  BY <1>2, <1>3, <1>4, UpTo
<1>6. Len(s) \in T
  BY <1>2, <1>5
<1>7. first(Len(s)) = Range(s)
  BY <1>2 DEF Range
<1> QED
  BY <1>1, <1>6, <1>7 DEF T

AppendsLast(s, t, x) == Append(s \o t, x) = s \o Append(t, x)
LEMMA ConcatAppend ==
    ASSUME NEW X, NEW s \in Seq(X), NEW t \in Seq(X), NEW x \in X
    PROVE  AppendsLast(s, t, x)
<1>1. s \o t \in Seq(X) /\ <<x>> \in Seq(X)
  OBVIOUS
<1>2. Append(s \o t, x) = (s \o t) \o <<x>>
  BY <1>1, AppendIsConcat
<1>3. Append(t, x) = t \o <<x>>
  BY AppendIsConcat
<1>4. (s \o t) \o <<x>> = s \o (t \o <<x>>)
  BY <1>1, ConcatAssociative
<1> QED
  BY <1>2, <1>3, <1>4 DEF AppendsLast

\* What is selected of one sequence after another.
SelectsBoth(s, t, S) == Select(s \o t, S) = Select(s, S) \o Select(t, S)
LEMMA SelectConcat ==
    ASSUME NEW X, NEW s \in Seq(X), NEW t \in Seq(X), NEW S
    PROVE  SelectsBoth(s, t, S)
<1> DEFINE c == s \o t
           m == Len(s)
           a == Select(s, S)
<1>1. /\ c \in Seq(X) /\ m \in Nat /\ Len(t) \in Nat /\ Len(c) = m + Len(t)
      /\ \A i \in 1 .. m : c[i] = s[i]
      /\ \A i \in 1 .. Len(t) : c[m + i] = t[i] /\ t[i] \in X
  OBVIOUS
<1>2. PICK f : /\ a = f[m] /\ f[0] = <<>>
               /\ \A n \in 1 .. m : SelectStep(f, s, S, n)
  BY SelectBy
<1>3. PICK g : /\ Select(t, S) = g[Len(t)] /\ g[0] = <<>>
               /\ \A n \in 1 .. Len(t) : SelectStep(g, t, S, n)
  BY SelectBy
<1>4. PICK h : /\ Select(c, S) = h[Len(c)] /\ h[0] = <<>>
               /\ \A n \in 1 .. Len(c) : SelectStep(h, c, S, n)
  BY <1>1, SelectBy
<1>5. a \in Seq(X)
  <2>1. a \in Seq(Range(s) \cap S)
    BY SelectFrom
  <2>2. Range(s) \cap S \subseteq X
    BY DEF Range
  <2> HIDE DEF a
  <2> QED
    BY <2>1, <2>2, SeqMonotonic
<1> HIDE DEF c, m, a
<1>6. f[m] = h[m]
  <2>1. Alike(f, s, S, h, c, S, m)
    <3>1. \A i \in 1 .. m : i \in 1 .. Len(c)
      BY <1>1
    <3> QED
      BY <1>1, <1>2, <1>4, <3>1 DEF Alike
  <2> QED
    BY <1>1, <2>1, SelectAlike
<1> DEFINE T == {i \in 0 .. Len(t) : g[i] \in Seq(X) /\ h[m + i] = a \o g[i]}
<1>7. 0 \in T
  <2>1. <<>> \in Seq(X) /\ a \o <<>> = a /\ m + 0 = m
    BY <1>1, <1>5
  <2>2. g[0] \in Seq(X) /\ h[m + 0] = a \o g[0]
    BY <1>2, <1>3, <1>6, <2>1, Zenon
  <2> QED
    BY <1>1, <2>2
<1>8. ASSUME NEW i \in 1 .. Len(t), i - 1 \in T PROVE i \in T
  <2>1. m + i \in 1 .. Len(c) /\ m + i - 1 = m + (i - 1)
    BY <1>1
  <2>2. SelectStep(h, c, S, m + i) /\ SelectStep(g, t, S, i)
    BY <1>3, <1>4, <2>1
  <2>3. h[m + i] = IF t[i] \in S THEN Append(h[m + (i - 1)], t[i]) ELSE h[m + (i - 1)]
    BY <1>1, <2>1, <2>2 DEF SelectStep
  <2>4. g[i] = IF t[i] \in S THEN Append(g[i - 1], t[i]) ELSE g[i - 1]
    BY <2>2 DEF SelectStep
  <2>5. g[i - 1] \in Seq(X) /\ h[m + (i - 1)] = a \o g[i - 1]
    BY <1>8
  <2> DEFINE b == g[i - 1]
  <2> HIDE DEF b
  <2>6. Append(a \o b, t[i]) = a \o Append(b, t[i]) /\ Append(b, t[i]) \in Seq(X)
    <3>1. PICK p \in Seq(X) : p = a
      BY <1>5
    <3>2. PICK q \in Seq(X) : q = b
      BY <2>5 DEF b
    <3>3. PICK x \in X : x = t[i]
      BY <1>1
    <3>4. AppendsLast(p, q, x)
      BY ConcatAppend
    <3>5. Append(q, x) \in Seq(X)
      OBVIOUS
    <3> QED
      BY <3>1, <3>2, <3>3, <3>4, <3>5 DEF AppendsLast
  <2>7. g[i] \in Seq(X) /\ h[m + i] = a \o g[i]
    BY <2>3, <2>4, <2>5, <2>6 DEF b
  <2> QED
    BY <1>1, <2>7
<1> HIDE DEF T
<1>9. \A i \in 0 .. Len(t) : i \in T
  BY <1>1, <1>7, <1>8, UpTo
<1>10. Len(t) \in T
  BY <1>1, <1>9
<1> QED
  BY <1>1, <1>3, <1>4, <1>10 DEF T, c, a, SelectsBoth

-----------------------------------------------------------------------------
(* The connections that serve a model *)

\* The matches by wildcard, in the order of the configuration.
Matching(conns) == Select(conns, {c \in Range(conns) : c.prefix # {}})

\* What WithFirst keeps of a list is the first of equals.
WithFirst(before, x) == IF x \in Range(before) THEN before ELSE Append(before, x)
\* f is the recursion of Wildcards.
Ranks(f, matches) ==
    f = [n \in 0 .. Len(matches) |-> IF n = 0 THEN <<>> ELSE Ranked(f[n - 1], matches[n])]
RankStep(f, matches, n) == f[n] = Ranked(f[n - 1], matches[n])

LEMMA WildcardsBy ==
    ASSUME NEW X, NEW conns, NEW matches \in Seq(X), matches = Matching(conns)
    PROVE  \E f : /\ Wildcards(conns) = f[Len(matches)] /\ f[0] = <<>>
                  /\ \A n \in 1 .. Len(matches) : RankStep(f, matches, n)
<1> DEFINE N == Len(matches)
           Up(f, m) == /\ f = [n \in 0 .. m |-> f[n]] /\ f[0] = <<>>
                       /\ \A n \in 1 .. m : RankStep(f, matches, n)
           T == {m \in 0 .. N : \E f : Up(f, m)}
           h == CHOOSE f : Ranks(f, matches)
<1>0. N \in Nat
  OBVIOUS
<1>1. Wildcards(conns) = h[N]
  BY DEF Wildcards, Matching, Ranks
<1> HIDE DEF N, h
<1>2. 0 \in T
  <2> DEFINE f == [n \in 0 .. 0 |-> <<>>]
  <2>1. Up(f, 0)
    OBVIOUS
  <2> HIDE DEF f, Up
  <2> QED
    BY <1>0, <2>1
<1>3. ASSUME NEW m \in 1 .. N, m - 1 \in T PROVE m \in T
  <2>1. PICK f : Up(f, m - 1)
    BY <1>3
  <2> DEFINE grown == Ranked(f[m - 1], matches[m])
             g == [n \in 0 .. m |-> IF n = m THEN grown ELSE f[n]]
  <2> HIDE DEF grown
  <2>2. /\ g = [n \in 0 .. m |-> g[n]] /\ g[m] = grown /\ m \in Nat /\ m # 0
        /\ \A n \in 0 .. m - 1 : g[n] = f[n]
    OBVIOUS
  <2> HIDE DEF g
  <2>3. g[0] = <<>>
    <3>1. 0 \in 0 .. m - 1
      BY <1>0
    <3>2. g[0] = f[0] /\ f[0] = <<>>
      BY <2>1, <2>2, <3>1
    <3> QED
      BY <3>2
  <2>4. ASSUME NEW n \in 1 .. m PROVE RankStep(g, matches, n)
    <3>1. CASE n = m
      <4>1. m - 1 \in 0 .. m - 1
        BY <1>0
      <4>2. g[m - 1] = f[m - 1]
        BY <2>2, <4>1
      <4> QED
        BY <2>2, <3>1, <4>2 DEF RankStep, grown
    <3>2. CASE n # m
      <4>1. n \in 1 .. m - 1 /\ n \in 0 .. m - 1 /\ n - 1 \in 0 .. m - 1
        BY <1>0, <3>2
      <4>2. g[n] = f[n] /\ g[n - 1] = f[n - 1] /\ RankStep(f, matches, n)
        BY <2>1, <2>2, <4>1
      <4> QED
        BY <4>2 DEF RankStep
    <3> QED
      BY <3>1, <3>2
  <2>5. Up(g, m)
    BY <2>2, <2>3, <2>4
  <2> HIDE DEF Up
  <2> QED
    BY <1>0, <2>5
<1>4. \E f : Up(f, N)
  <2> HIDE DEF T
  <2>1. \A i \in 0 .. N : i \in T
    BY <1>0, <1>2, <1>3, UpTo
  <2>2. N \in T
    BY <1>0, <2>1
  <2> QED
    BY <2>2 DEF T
<1>5. PICK f : Up(f, N)
  BY <1>4
<1>6. Ranks(f, matches)
  <2>1. ASSUME NEW n \in 0 .. N, n # 0 PROVE f[n] = Ranked(f[n - 1], matches[n])
    <3>1. n \in 1 .. N
      BY <1>0, <2>1
    <3> QED
      BY <1>5, <3>1 DEF RankStep
  <2>2. f = [n \in 0 .. N |-> f[n]] /\ f[0] = <<>>
    BY <1>5
  <2>3. f = [n \in 0 .. N |-> IF n = 0 THEN <<>> ELSE Ranked(f[n - 1], matches[n])]
    BY <2>1, <2>2
  <2> QED
    BY <2>3 DEF Ranks, N
<1>7. Ranks(h, matches)
  BY <1>6, Zenon DEF h
<1>8. h = [n \in 0 .. N |-> IF n = 0 THEN <<>> ELSE Ranked(h[n - 1], matches[n])]
  BY <1>7 DEF Ranks, N
<1>9. h[0] = <<>>
  BY <1>0, <1>8
<1>10. ASSUME NEW n \in 1 .. N PROVE RankStep(h, matches, n)
  <2>1. n \in 0 .. N /\ n # 0
    BY <1>0
  <2> QED
    BY <1>8, <2>1 DEF RankStep
<1> QED
  BY <1>1, <1>9, <1>10 DEF N


\* Where a connection is in the configuration, and how connections that match by
\* wildcard are ranked.
At(conns, c) == CHOOSE i \in DOMAIN conns : conns[i] = c
Earlier(conns) == {p \in Range(conns) \X Range(conns) : At(conns, p[1]) < At(conns, p[2])}
Better(conns) ==
    {p \in Range(conns) \X Range(conns) :
        \/ The(p[1].prefix) > The(p[2].prefix)
        \/ The(p[1].prefix) = The(p[2].prefix) /\ At(conns, p[1]) < At(conns, p[2])}

LEMMA ConfigOrder ==
    ASSUME NEW X, NEW conns \in Seq(X), IsInjective(conns)
    PROVE  /\ Sorted(conns, Earlier(conns))
           /\ \A c \in Range(conns) : At(conns, c) \in Nat /\ conns[At(conns, c)] = c
<1>1. ASSUME NEW c \in Range(conns)
      PROVE  At(conns, c) \in DOMAIN conns /\ conns[At(conns, c)] = c
  BY DEF Range, At
<1>2. ASSUME NEW i \in DOMAIN conns PROVE At(conns, conns[i]) = i
  <2>1. conns[i] \in Range(conns)
    BY DEF Range
  <2>2. At(conns, conns[i]) \in DOMAIN conns /\ conns[At(conns, conns[i])] = conns[i]
    BY <1>1, <2>1
  <2> QED
    BY <2>2 DEF IsInjective
<1>3. Sorted(conns, Earlier(conns))
  <2>1. ASSUME NEW k \in DOMAIN conns, NEW l \in DOMAIN conns, k < l
        PROVE  <<conns[k], conns[l]>> \in Earlier(conns)
    BY <1>2, <2>1 DEF Earlier, Range
  <2> QED
    BY <2>1 DEF Sorted
<1> QED
  BY <1>1, <1>3

\* A connection that is ranked is put among those before it.
LEMMA RankedRange ==
    ASSUME NEW W, NEW before \in Seq(W), NEW c \in W
    PROVE  Ranked(before, c) \in Seq(W) /\ Range(Ranked(before, c)) = Range(before) \cup {c}
<1> DEFINE ahead == {d \in Range(before) : The(d.prefix) >= The(c.prefix)}
<1>0. Range(before) \subseteq W /\ ahead \subseteq Range(before)
  BY DEF Range
<1>1. PICK a : a = Select(before, ahead)
  OBVIOUS
<1>2. PICK b : b = Select(before, Range(before) \ ahead)
  OBVIOUS
<1> DEFINE one == <<c>>
<1>3. Ranked(before, c) = (a \o one) \o b
  BY <1>1, <1>2 DEF Ranked
<1> HIDE DEF ahead
<1>4. a \in Seq(W) /\ b \in Seq(W)
  <2>1. /\ Seq(Range(before) \cap ahead) \subseteq Seq(W)
        /\ Seq(Range(before) \cap (Range(before) \ ahead)) \subseteq Seq(W)
    BY <1>0, SeqMonotonic
  <2> QED
    BY <1>1, <1>2, <2>1, SelectFrom
<1>5. Range(a) = ahead /\ Range(b) = Range(before) \ ahead
  <2>1. Range(a) = Range(before) \cap ahead
    BY <1>1, SelectSorted
  <2>2. Range(b) = Range(before) \cap (Range(before) \ ahead)
    BY <1>2, SelectSorted
  <2> QED
    BY <1>0, <2>1, <2>2
<1>6. one \in Seq(W) /\ Range(one) = {c}
  BY DEF Range
<1> HIDE DEF one
<1>7. a \o one \in Seq(W) /\ Range(a \o one) = Range(a) \cup {c}
  <2>1. Range(a \o one) = Range(a) \cup Range(one)
    BY <1>4, <1>6, ConcatRange
  <2>2. a \o one \in Seq(W)
    BY <1>4, <1>6, ConcatProperties
  <2> QED
    BY <1>6, <2>1, <2>2
<1> DEFINE q == a \o one
<1>8. q \in Seq(W) /\ Range(q) = Range(a) \cup {c} /\ Ranked(before, c) = q \o b
  BY <1>3, <1>7
<1> HIDE DEF q
<1>9. Range(q \o b) = Range(q) \cup Range(b) /\ q \o b \in Seq(W)
  BY <1>4, <1>8, ConcatRange, ConcatProperties
<1> QED
  BY <1>0, <1>5, <1>8, <1>9

\* A connection that is ranked among those before it leaves them ranked.
LEMMA RankedSorted ==
    ASSUME NEW conns, \A c \in Range(conns) : At(conns, c) \in Nat,
           NEW W \in SUBSET Range(conns), \A c \in W : The(c.prefix) \in Nat,
           NEW before \in Seq(W), NEW c \in W, Sorted(before, Better(conns)),
           \A d \in Range(before) : At(conns, d) < At(conns, c)
    PROVE  Sorted(Ranked(before, c), Better(conns))
<1> DEFINE ahead == {d \in Range(before) : The(d.prefix) >= The(c.prefix)}
           rest == Range(before) \ ahead
<1>0. Range(before) \subseteq W /\ ahead \subseteq Range(before) /\ rest \subseteq Range(before)
  BY DEF Range
<1>1. PICK a : a = Select(before, ahead)
  OBVIOUS
<1>2. PICK b : b = Select(before, rest)
  OBVIOUS
<1>3. PICK B : B = Better(conns)
  OBVIOUS
<1> DEFINE one == <<c>>
<1>4. Ranked(before, c) = (a \o one) \o b
  BY <1>1, <1>2 DEF Ranked
<1>5. ASSUME NEW d \in ahead PROVE <<d, c>> \in B
  <2>1. d \in Range(before) /\ d \in W /\ The(d.prefix) >= The(c.prefix)
    BY <1>0
  <2>2. At(conns, d) < At(conns, c) /\ The(d.prefix) \in Nat /\ The(c.prefix) \in Nat
    BY <2>1
  <2> QED
    BY <1>3, <2>1, <2>2 DEF Better
<1>6. ASSUME NEW e \in rest PROVE <<c, e>> \in B
  <2>1. e \in Range(before) /\ e \in W /\ ~(The(e.prefix) >= The(c.prefix))
    BY <1>0
  <2>2. The(e.prefix) \in Nat /\ The(c.prefix) \in Nat
    BY <2>1
  <2> QED
    BY <1>3, <2>1, <2>2 DEF Better
<1>7. ASSUME NEW d \in ahead, NEW e \in rest PROVE <<d, e>> \in B
  <2>1. /\ d \in W /\ The(d.prefix) >= The(c.prefix)
        /\ e \in W /\ ~(The(e.prefix) >= The(c.prefix))
    BY <1>0
  <2>2. The(d.prefix) \in Nat /\ The(e.prefix) \in Nat /\ The(c.prefix) \in Nat
    BY <2>1
  <2> QED
    BY <1>3, <2>1, <2>2 DEF Better
<1> HIDE DEF ahead, rest
<1>8. /\ a \in Seq(W) /\ Range(a) = ahead /\ Sorted(a, B)
      /\ b \in Seq(W) /\ Range(b) = rest /\ Sorted(b, B)
  <2>1. Seq(Range(before) \cap ahead) \subseteq Seq(W) /\ Seq(Range(before) \cap rest) \subseteq Seq(W)
    BY <1>0, SeqMonotonic
  <2>2. a \in Seq(W) /\ b \in Seq(W)
    BY <1>1, <1>2, <2>1, SelectFrom
  <2>3. Range(a) = Range(before) \cap ahead /\ Sorted(a, B)
    BY <1>1, <1>3, SelectSorted
  <2>4. Range(b) = Range(before) \cap rest /\ Sorted(b, B)
    BY <1>2, <1>3, SelectSorted
  <2> QED
    BY <1>0, <2>2, <2>3, <2>4
<1>9. one \in Seq(W) /\ Range(one) = {c} /\ Sorted(one, B)
  BY DEF Range, Sorted
<1> HIDE DEF one
<1>10. /\ a \o one \in Seq(W) /\ Range(a \o one) = Range(a) \cup {c}
       /\ Sorted(a \o one, B)
  <2>1. \A x \in Range(a), y \in Range(one) : <<x, y>> \in B
    BY <1>5, <1>8, <1>9
  <2>2. Sorted(a \o one, B)
    BY <1>8, <1>9, <2>1, SortedConcat
  <2>3. Range(a \o one) = Range(a) \cup Range(one)
    BY <1>8, <1>9, ConcatRange
  <2>4. a \o one \in Seq(W)
    BY <1>8, <1>9, ConcatProperties
  <2> QED
    BY <1>9, <2>2, <2>3, <2>4
<1> DEFINE q == a \o one
<1>11. q \in Seq(W) /\ Range(q) = Range(a) \cup {c} /\ Sorted(q, B) /\ Ranked(before, c) = q \o b
  BY <1>4, <1>10
<1> HIDE DEF q
<1>12. Sorted(q \o b, B)
  <2>1. \A x \in Range(q), y \in Range(b) : <<x, y>> \in B
    BY <1>6, <1>7, <1>8, <1>11
  <2> QED
    BY <1>8, <1>11, <2>1, SortedConcat
<1> QED
  BY <1>3, <1>11, <1>12

\* Every match by wildcard is there, and the better comes before the worse.
LEMMA WildcardsRange ==
    ASSUME NEW X, NEW conns \in Seq(X), NEW W, W = {c \in Range(conns) : c.prefix # {}}
    PROVE  Wildcards(conns) \in Seq(W) /\ Range(Wildcards(conns)) = W
<1>0. PICK m : m = Matching(conns)
  OBVIOUS
<1>1. m \in Seq(W) /\ Range(m) = W
  <2>1. m = Select(conns, W) /\ Range(conns) \cap W = W
    BY <1>0 DEF Matching
  <2> QED
    BY <2>1, SelectFrom, SelectSorted
<1>2. PICK f : /\ Wildcards(conns) = f[Len(m)] /\ f[0] = <<>>
               /\ \A n \in 1 .. Len(m) : RankStep(f, m, n)
  BY <1>0, <1>1, WildcardsBy
<1>3. Len(m) \in Nat /\ DOMAIN m = 1 .. Len(m)
  BY <1>1
<1> DEFINE first(i) == {m[j] : j \in 1 .. i}
           T == {i \in 0 .. Len(m) : f[i] \in Seq(W) /\ Range(f[i]) = first(i)}
<1>4. 0 \in T
  <2>1. <<>> \in Seq(W) /\ Range(<<>>) = {} /\ first(0) = {}
    BY DEF Range
  <2>2. f[0] \in Seq(W) /\ Range(f[0]) = first(0)
    <3> HIDE DEF first
    <3> QED
      BY <1>2, <2>1, Zenon
  <2> QED
    BY <1>3, <2>2
<1>5. ASSUME NEW i \in 1 .. Len(m), i - 1 \in T PROVE i \in T
  <2>1. f[i] = Ranked(f[i - 1], m[i])
    BY <1>2 DEF RankStep
  <2>2. f[i - 1] \in Seq(W) /\ Range(f[i - 1]) = first(i - 1) /\ m[i] \in W
    BY <1>1, <1>5
  <2>3. first(i) = first(i - 1) \cup {m[i]}
    <3>1. i \in Nat /\ 1 .. i = 1 .. (i - 1) \cup {i}
      BY <1>3
    <3> QED
      BY <3>1
  <2> HIDE DEF first
  <2>4. f[i] \in Seq(W) /\ Range(f[i]) = first(i)
    <3>1. PICK before \in Seq(W) : before = f[i - 1]
      BY <2>2
    <3>2. PICK c \in W : c = m[i]
      BY <2>2
    <3>3. Ranked(before, c) \in Seq(W) /\ Range(Ranked(before, c)) = Range(before) \cup {c}
      BY RankedRange
    <3> QED
      BY <2>1, <2>2, <2>3, <3>1, <3>2, <3>3
  <2> QED
    BY <1>3, <2>4
<1> HIDE DEF T
<1>6. \A i \in 0 .. Len(m) : i \in T
  BY <1>3, <1>4, <1>5, UpTo
<1>7. Len(m) \in T
  BY <1>3, <1>6
<1>8. first(Len(m)) = Range(m)
  BY <1>3 DEF Range
<1> QED
  BY <1>1, <1>2, <1>7, <1>8 DEF T

LEMMA WildcardsSorted ==
    ASSUME NEW X, NEW conns \in Seq(X), IsInjective(conns), NEW W,
           W = {c \in Range(conns) : c.prefix # {}}, \A c \in W : The(c.prefix) \in Nat
    PROVE  Sorted(Wildcards(conns), Better(conns))
<1>0. PICK m : m = Matching(conns)
  OBVIOUS
<1>1. /\ m \in Seq(W) /\ Range(m) = W /\ W \in SUBSET Range(conns) /\ Sorted(m, Earlier(conns))
      /\ \A c \in Range(conns) : At(conns, c) \in Nat
  <2>1. m = Select(conns, W) /\ Range(conns) \cap W = W
    BY <1>0 DEF Matching
  <2>2. Sorted(conns, Earlier(conns)) /\ \A c \in Range(conns) : At(conns, c) \in Nat
    BY ConfigOrder
  <2> QED
    BY <2>1, <2>2, SelectFrom, SelectSorted
<1>2. PICK f : /\ Wildcards(conns) = f[Len(m)] /\ f[0] = <<>>
               /\ \A n \in 1 .. Len(m) : RankStep(f, m, n)
  BY <1>0, <1>1, WildcardsBy
<1>3. Len(m) \in Nat /\ DOMAIN m = 1 .. Len(m)
  BY <1>1
<1> DEFINE first(i) == {m[j] : j \in 1 .. i}
           B == Better(conns)
           T == {i \in 0 .. Len(m) : f[i] \in Seq(W) /\ Range(f[i]) = first(i) /\ Sorted(f[i], B)}
<1> HIDE DEF B
<1>4. 0 \in T
  <2>1. <<>> \in Seq(W) /\ Range(<<>>) = {} /\ first(0) = {} /\ Sorted(<<>>, B)
    BY DEF Range, Sorted
  <2>2. f[0] \in Seq(W) /\ Range(f[0]) = first(0) /\ Sorted(f[0], B)
    <3> HIDE DEF first
    <3> QED
      BY <1>2, <2>1, Zenon
  <2> QED
    BY <1>3, <2>2
<1>5. ASSUME NEW i \in 1 .. Len(m), i - 1 \in T PROVE i \in T
  <2>1. f[i] = Ranked(f[i - 1], m[i])
    BY <1>2 DEF RankStep
  <2>2. /\ f[i - 1] \in Seq(W) /\ Range(f[i - 1]) = first(i - 1) /\ Sorted(f[i - 1], B)
        /\ m[i] \in W
    BY <1>1, <1>5, SMTT(40)
  <2>3. first(i) = first(i - 1) \cup {m[i]}
    <3>1. i \in Nat /\ 1 .. i = 1 .. (i - 1) \cup {i}
      BY <1>3
    <3> QED
      BY <3>1
  <2>4. ASSUME NEW d \in first(i - 1) PROVE At(conns, d) < At(conns, m[i])
    <3>1. PICK j \in 1 .. i - 1 : d = m[j]
      BY <2>4
    <3>2. j \in DOMAIN m /\ i \in DOMAIN m /\ j < i
      BY <1>3
    <3>3. <<m[j], m[i]>> \in Earlier(conns)
      BY <1>1, <3>2 DEF Sorted
    <3> QED
      BY <3>1, <3>3 DEF Earlier
  <2> HIDE DEF first
  <2>5. PICK before \in Seq(W) : before = f[i - 1]
    BY <2>2
  <2>6. PICK c \in W : c = m[i]
    BY <2>2
  <2>7. f[i] \in Seq(W) /\ Range(f[i]) = first(i)
    <3>1. Ranked(before, c) \in Seq(W) /\ Range(Ranked(before, c)) = Range(before) \cup {c}
      BY RankedRange
    <3> QED
      BY <2>1, <2>2, <2>3, <2>5, <2>6, <3>1
  <2>8. Sorted(f[i], B)
    <3>3. before \in Seq(W) /\ Sorted(before, Better(conns)) /\ \A d \in Range(before) : At(conns, d) < At(conns, c)
      BY <2>2, <2>4, <2>5, <2>6 DEF B
    <3>4. Sorted(Ranked(before, c), Better(conns))
      BY <1>1, <3>3, RankedSorted
    <3> QED
      BY <2>1, <2>5, <2>6, <3>4 DEF B
  <2> QED
    BY <1>3, <2>7, <2>8
<1> HIDE DEF T
<1>6. \A i \in 0 .. Len(m) : i \in T
  BY <1>3, <1>4, <1>5, UpTo
<1>7. Len(m) \in T
  BY <1>3, <1>6
<1> QED
  BY <1>2, <1>7 DEF T, B

\* The candidates are connections that name the model, in the order of the
\* configuration, and then connections that match by wildcard, the better first; a
\* connection of these that also names the model was among the first.
Preferred(list, conns) ==
    LET E == {c \in Range(conns) : c.exact}
        W == {c \in Range(conns) : c.prefix # {}}
    IN \E a \in Seq(E), b \in Seq(W) :
          /\ list = a \o b /\ Range(b) \cap E \subseteq Range(a)
          /\ Sorted(a, Earlier(conns)) /\ Sorted(b, Better(conns))

LEMMA MatchesPreferred ==
    ASSUME NEW X, NEW conns \in Seq(X), IsInjective(conns),
           \A c \in Range(conns) : c.prefix # {} => The(c.prefix) \in Nat
    PROVE  Preferred(ConnectionsForModel(conns), conns)
<1> DEFINE E == {c \in Range(conns) : c.exact}
           W == {c \in Range(conns) : c.prefix # {}}
<1>1. PICK a : a = Select(conns, E)
  OBVIOUS
<1>2. PICK b : b = Wildcards(conns)
  OBVIOUS
<1>3. ConnectionsForModel(conns) = a \o b
  BY <1>1, <1>2 DEF ConnectionsForModel
<1>4. Range(conns) \cap E = E /\ W \subseteq Range(conns)
  OBVIOUS
<1>5. b \in Seq(W) /\ Range(b) = W
  BY <1>2, WildcardsRange
<1>6. Sorted(b, Better(conns))
  BY <1>2, WildcardsSorted
<1>7. Range(b) \cap E \subseteq E
  OBVIOUS
<1>8. a \in Seq(E) /\ Range(a) = E /\ Sorted(a, Earlier(conns))
  <2> HIDE DEF E
  <2> QED
    BY <1>1, <1>4, SelectFrom, SelectSorted, ConfigOrder
<1> HIDE DEF E, W
<1>9. Range(b) \cap E \subseteq Range(a)
  BY <1>7, <1>8
<1> QED
  BY <1>3, <1>5, <1>6, <1>8, <1>9 DEF Preferred, E, W

\* A filter leaves the preference as it is.
LEMMA SelectPreferred ==
    ASSUME NEW conns, NEW list, NEW S, Preferred(list, conns)
    PROVE  Preferred(Select(list, S), conns)
<1> DEFINE E == {c \in Range(conns) : c.exact}
           W == {c \in Range(conns) : c.prefix # {}}
<1>1. PICK a \in Seq(E), b \in Seq(W) :
          /\ list = a \o b /\ Range(b) \cap E \subseteq Range(a)
          /\ Sorted(a, Earlier(conns)) /\ Sorted(b, Better(conns))
  BY Zenon DEF Preferred
<1>2. PICK c : c = Select(a, S)
  OBVIOUS
<1>3. PICK d : d = Select(b, S)
  OBVIOUS
<1> HIDE DEF E, W
<1>4. a \in Seq(E \cup W) /\ b \in Seq(E \cup W)
  BY <1>1, SeqMonotonic
<1>5. Select(list, S) = c \o d
  <2>1. SelectsBoth(a, b, S)
    BY <1>4, SelectConcat
  <2> QED
    BY <1>1, <1>2, <1>3, <2>1 DEF SelectsBoth
<1>6. /\ Range(c) = Range(a) \cap S /\ Sorted(c, Earlier(conns))
      /\ Range(d) = Range(b) \cap S /\ Sorted(d, Better(conns))
  BY <1>1, <1>2, <1>3, SelectSorted
<1>7. c \in Seq(E) /\ d \in Seq(W)
  <2>1. Range(a) \subseteq E /\ Range(b) \subseteq W
    BY <1>1 DEF Range
  <2>2. Seq(Range(a) \cap S) \subseteq Seq(E) /\ Seq(Range(b) \cap S) \subseteq Seq(W)
    BY <2>1, SeqMonotonic
  <2>3. c \in Seq(Range(a) \cap S) /\ d \in Seq(Range(b) \cap S)
    BY <1>1, <1>2, <1>3, SelectFrom
  <2> QED
    BY <2>2, <2>3
<1>8. Range(d) \cap E \subseteq Range(c)
  BY <1>1, <1>6
<1> QED
  BY <1>5, <1>6, <1>7, <1>8 DEF Preferred, E, W

\* So does the restriction to the first.
LEMMA HeadPreferred ==
    ASSUME NEW conns, NEW list, list # <<>>, Preferred(list, conns)
    PROVE  Preferred(<<Head(list)>>, conns)
<1> DEFINE E == {c \in Range(conns) : c.exact}
           W == {c \in Range(conns) : c.prefix # {}}
<1>1. PICK a \in Seq(E), b \in Seq(W) :
          /\ list = a \o b /\ Range(b) \cap E \subseteq Range(a)
          /\ Sorted(a, Earlier(conns)) /\ Sorted(b, Better(conns))
  BY Zenon DEF Preferred
<1>2. PICK x : x = Head(list)
  OBVIOUS
<1> HIDE DEF E, W
<1>3. \A R : Sorted(<<x>>, R) /\ Sorted(<<>>, R)
  BY DEF Sorted
<1>4. Range(<<>>) = {} /\ Range(<<x>>) = {x} /\ <<>> \in Seq(E) /\ <<>> \in Seq(W)
  BY DEF Range
<1>5. CASE a # <<>>
  <2>1. x \in E
    BY <1>1, <1>2, <1>5
  <2>2. PICK c \in Seq(E) : c = <<x>>
    <3>1. <<x>> \in Seq(E)
      BY <2>1
    <3> QED
      BY <3>1, Zenon
  <2>3. PICK d \in Seq(W) : d = <<>>
    BY <1>4
  <2>4. <<x>> = c \o d
    BY <2>2, <2>3
  <2>5. /\ Range(d) \cap E \subseteq Range(c)
        /\ Sorted(c, Earlier(conns)) /\ Sorted(d, Better(conns))
    BY <1>3, <1>4, <2>2, <2>3
  <2> QED
    BY <1>2, <2>4, <2>5 DEF Preferred, E, W
<1>6. CASE a = <<>>
  <2>1. list = b /\ x \in W /\ x \in Range(b)
    BY <1>1, <1>2, <1>6 DEF Range
  <2>2. x \notin E
    BY <1>1, <1>4, <1>6, <2>1
  <2>3. PICK c \in Seq(E) : c = <<>>
    BY <1>4
  <2>4. PICK d \in Seq(W) : d = <<x>>
    <3>1. <<x>> \in Seq(W)
      BY <2>1
    <3> QED
      BY <3>1, Zenon
  <2>5. <<x>> = c \o d
    BY <2>3, <2>4
  <2>6. /\ Range(d) \cap E \subseteq Range(c)
        /\ Sorted(c, Earlier(conns)) /\ Sorted(d, Better(conns))
    BY <1>3, <1>4, <2>2, <2>3, <2>4
  <2> QED
    BY <1>2, <2>5, <2>6 DEF Preferred, E, W
<1> QED
  BY <1>5, <1>6

\* The candidates are a sequence of connections, whatever is configured.
LEMMA CandidatesSeq ==
    ASSUME NEW conns \in Seq(Connection), NEW fallback \in BOOLEAN, NEW endpoint, NEW streaming
    PROVE  Candidates(conns, fallback, endpoint, streaming) \in Seq(Range(conns))
<1> DEFINE C == Range(conns)
           E == {c \in C : c.exact}
           W == {c \in C : c.prefix # {}}
<1>1. PICK all : all = ConnectionsForModel(conns)
  OBVIOUS
<1>2. all \in Seq(C)
  <2>1. Wildcards(conns) \in Seq(W)
    BY WildcardsRange
  <2>2. Select(conns, E) \in Seq(C \cap E)
    <3> HIDE DEF E
    <3> QED
      BY SelectFrom
  <2>3. Seq(W) \subseteq Seq(C) /\ Seq(C \cap E) \subseteq Seq(C)
    <3>1. W \subseteq C /\ C \cap E \subseteq C
      OBVIOUS
    <3> HIDE DEF E, W, C
    <3> QED
      BY <3>1, SeqMonotonic
  <2>4. all = Select(conns, E) \o Wildcards(conns)
    BY <1>1 DEF ConnectionsForModel
  <2> HIDE DEF C, E, W
  <2> QED
    BY <2>1, <2>2, <2>3, <2>4, ConcatProperties
<1> HIDE DEF C, E, W
<1>3. \A s \in Seq(C) : \A S : Select(s, S) \in Seq(C)
  <2> TAKE s \in Seq(C)
  <2> TAKE S
  <2>1. Range(s) \cap S \subseteq C
    BY DEF Range
  <2> QED
    BY <2>1, SelectFrom, SeqMonotonic
<1>4. PICK matching \in Seq(C) : matching = Select(all, {c \in Range(all) : Accepts(endpoint, c.format)})
  BY <1>2, <1>3
<1>5. PICK tried \in Seq(C) : tried = IF fallback \/ matching = <<>> THEN matching ELSE <<Head(matching)>>
  <2>1. ASSUME matching # <<>> PROVE <<Head(matching)>> \in Seq(C)
    BY <2>1
  <2>2. (IF fallback \/ matching = <<>> THEN matching ELSE <<Head(matching)>>) \in Seq(C)
    BY <2>1
  <2> QED
    BY <2>2, Zenon
<1>6. PICK open \in Seq(C) : open = Select(tried, {c \in Range(tried) : c.format # "bedrock"})
  BY <1>3
<1>7. Candidates(conns, fallback, endpoint, streaming) = IF streaming THEN open ELSE tried
  BY <1>1, <1>4, <1>5, <1>6 DEF Candidates
<1> QED
  BY <1>7 DEF C

LEMMA CandidatesPreferred ==
    ASSUME NEW conns \in Seq(Connection), IsInjective(conns),
           NEW fallback \in BOOLEAN, NEW endpoint, NEW streaming
    PROVE  Preferred(Candidates(conns, fallback, endpoint, streaming), conns)
<1>1. PICK all : all = ConnectionsForModel(conns)
  OBVIOUS
<1>2. Preferred(all, conns)
  <2>1. ASSUME NEW c \in Range(conns), c.prefix # {} PROVE The(c.prefix) \in Nat
    <3>1. c \in Connection
      BY DEF Range
    <3>2. c.prefix \in Option(Nat)
      BY <3>1 DEF Connection
    <3> QED
      BY <2>1, <3>2 DEF Option, The
  <2> QED
    BY <1>1, <2>1, MatchesPreferred
<1>3. PICK matching : matching = Select(all, {c \in Range(all) : Accepts(endpoint, c.format)})
  OBVIOUS
<1>4. Preferred(matching, conns)
  BY <1>2, <1>3, SelectPreferred
<1>5. PICK tried : tried = IF fallback \/ matching = <<>> THEN matching ELSE <<Head(matching)>>
  OBVIOUS
<1>6. Preferred(tried, conns)
  BY <1>4, <1>5, HeadPreferred
<1>7. PICK open : open = Select(tried, {c \in Range(tried) : c.format # "bedrock"})
  OBVIOUS
<1>8. Preferred(open, conns)
  BY <1>6, <1>7, SelectPreferred
<1>9. Candidates(conns, fallback, endpoint, streaming) = IF streaming THEN open ELSE tried
  BY <1>1, <1>3, <1>5, <1>7 DEF Candidates
<1> QED
  BY <1>6, <1>8, <1>9
-----------------------------------------------------------------------------
(* The attempts stay within the candidates *)

\* What is still to be sent has a candidate left.
InBounds ==
    /\ pc # "idle" => Len(sent) <= Len(cands)
    /\ pc \in {"pii", "send"} => Len(sent) < Len(cands)

LEMMA CandidatesOfConfig ==
    ASSUME NEW c \in Configs, NEW endpoint, NEW streaming
    PROVE  Candidates(c.conns, c.fallback, endpoint, streaming) \in Seq(Range(c.conns))
<1>1. c.conns \in Seq(Connection) /\ c.fallback \in BOOLEAN
  <2>1. c \in Config
    BY ProxyRequestAssumption
  <2> QED
    BY <2>1 DEF Config
<1> QED
  BY <1>1, CandidatesSeq

LEMMA CandidatesTyped ==
    ASSUME config \in Option(Configs) \ {{}}
    PROVE  cfg \in Configs /\ cands \in Seq(Range(cfg.conns)) /\ Len(cands) \in Nat
<1>1. cfg \in Configs
  BY TheIsIn DEF cfg, Option
<1>2. cands \in Seq(Range(cfg.conns))
  BY <1>1, CandidatesOfConfig DEF cands
<1> QED
  BY <1>1, <1>2

LEMMA StaysInBounds ==
    /\ Init => InBounds
    /\ IInv /\ IInv' /\ InBounds /\ [Next]_vars => InBounds'
<1>1. Init => InBounds
  BY DEF Init, InBounds
<1> SUFFICES ASSUME IInv, IInv', InBounds, [Next]_vars PROVE InBounds'
  BY <1>1
<1>2. CASE Start
  <2>1. sent' = <<>> /\ pc' \in {"done", "body"} /\ Len(sent') = 0
    BY <1>2 DEF Start, End, IInv, SentInv
  <2>2. Len(cands)' \in Nat
    <3>1. (config \in Option(Configs) \ {{}})'
      BY <2>1 DEF IInv, StartInv
    <3>2. (cfg \in Configs /\ cands \in Seq(Range(cfg.conns)) /\ Len(cands) \in Nat)'
      BY <3>1, CandidatesTyped, PTL
    <3> QED
      BY <3>2
  <2> QED
    BY <2>1, <2>2 DEF InBounds
<1>3. CASE Reload \/ UNCHANGED vars
  <2>1. UNCHANGED <<ask, config, pc, sent>>
    BY <1>3 DEF Reload, vars, asked
  <2> QED
    BY <2>1, SameRequest DEF InBounds
<1> SUFFICES ASSUME ~Start, ~Reload, ~UNCHANGED vars PROVE InBounds'
  BY <1>2, <1>3
<1>4. /\ UNCHANGED <<ask, config>> /\ cands' = cands /\ pc # "idle"
      /\ Len(cands) \in Nat /\ Len(sent) \in Nat /\ Len(sent) <= Len(cands)
  <2>1. UNCHANGED <<ask, config>> /\ pc # "idle"
    BY DEF Next, ReadBody, ReadEmbeddingsBody, Pseudonymize, PseudonymizeInput, Send, TranslationFails, Answer,
       AnswerEmbeddings, BodyBreaks, RelayError, Relay, RelayEmbeddings, StreamEnds, ClientGone, asked
  <2>2. Len(cands) \in Nat
    BY <2>1, CandidatesTyped DEF IInv, StartInv
  <2>3. Len(sent) \in Nat
    BY DEF IInv, SentInv
  <2> QED
    BY <2>1, <2>2, <2>3, SameRequest DEF InBounds
<1>5. CASE ReadBody \/ ReadEmbeddingsBody
  <2>1. sent' = sent /\ sent = <<>> /\ Len(sent) = 0 /\ pc' \in {"pii", "send", "done"}
        /\ (pc' # "done" => cands # <<>>)
    BY <1>5 DEF ReadBody, ReadEmbeddingsBody, End, IInv, SentInv
  <2>2. cands # <<>> => Len(cands) > 0
    <3>1. cands \in Seq(Range(cfg.conns))
      BY <1>4, CandidatesTyped DEF IInv, StartInv
    <3> QED
      BY <1>4, <3>1, EmptySeq
  <2> QED
    BY <1>4, <2>1, <2>2 DEF InBounds
<1>6. CASE Pseudonymize \/ PseudonymizeInput
  <2>1. sent' = sent /\ pc = "pii"
    BY <1>6 DEF Pseudonymize, PseudonymizeInput
  <2> QED
    BY <1>4, <2>1 DEF InBounds
<1>7. CASE Send
  <2>1. Len(sent') = Len(sent) + 1 /\ pc = "send" /\ pc' = "wait"
    <3>1. sent' = Append(sent, [conn |-> cands[next_candidate], body |-> body, result |-> "none"])
      BY <1>7 DEF Send
    <3>2. Len(sent') = Len(sent) + 1
      BY <1>7, <3>1, AppendAttempt DEF IInv, SentInv
    <3> QED
      BY <1>7, <3>2 DEF Send
  <2> QED
    BY <1>4, <2>1 DEF InBounds
<1>8. CASE Answer \/ AnswerEmbeddings
  <2>1. Len(sent') = Len(sent)
    <3>1. pc = "wait" /\ sent # <<>> /\ sent \in Seq(Attempt(Tried(sent)))
      BY <1>8 DEF Answer, AnswerEmbeddings, IInv, SentInv, Dispatching
    <3>2. PICK r \in Results : sent' = [sent EXCEPT ![Len(sent)].result = r]
      BY <1>8 DEF Answer, AnswerEmbeddings
    <3> QED
      BY <3>1, <3>2, AnswerAttempt, ZenonT(60)
  <2>2. pc' \in {"pii", "send"} => Len(sent) # Len(cands)
    BY <1>8 DEF Answer, AnswerEmbeddings, End, last
  <2> QED
    BY <1>4, <2>1, <2>2 DEF InBounds
<1>9. CASE TranslationFails \/ BodyBreaks \/ RelayError \/ Relay \/ RelayEmbeddings \/ StreamEnds \/ ClientGone
  <2>1. sent' = sent /\ pc' = "done"
    BY <1>9 DEF TranslationFails, BodyBreaks, RelayError, Relay, RelayEmbeddings, StreamEnds, ClientGone, End
  <2> QED
    BY <1>4, <2>1 DEF InBounds
<1> QED
  BY <1>5, <1>6, <1>7, <1>8, <1>9 DEF Next

LEMMA BoundsKept == Spec => [](IInv /\ InBounds)
<1>1. Init => InBounds
  BY StaysInBounds
<1>2. IInv /\ IInv' /\ InBounds /\ [Next]_vars => InBounds'
  BY StaysInBounds
<1> QED
  BY <1>1, <1>2, Inductive, PTL DEF Spec

\* Which of two attempts came first is decided by how their connections match.
LEMMA PreferredKept ==
    ASSUME IInv, InBounds
    PROVE  PreferenceKept
<1> DEFINE at(k) == CHOOSE i \in DOMAIN cfg.conns : cfg.conns[i] = sent[k].conn
           again(k) == \E l \in 1 .. k - 1 : sent[l].conn = sent[k].conn
           named(k) == sent[k].conn.exact /\ ~again(k)
           prefix(k) == The(sent[k].conn.prefix)
           E == {c \in Range(cfg.conns) : c.exact}
           W == {c \in Range(cfg.conns) : c.prefix # {}}
<1> SUFFICES ASSUME NEW k \in DOMAIN sent, NEW l \in DOMAIN sent, k < l, IsInjective(cfg.conns)
             PROVE  \/ named(k) /\ ~named(l)
                    \/ named(k) /\ named(l) /\ at(k) < at(l)
                    \/ /\ ~named(k) /\ ~named(l)
                       /\ prefix(k) >= prefix(l)
                       /\ prefix(k) = prefix(l) => at(k) < at(l)
  BY Zenon DEF PreferenceKept
<1>1. /\ sent # <<>> /\ DOMAIN sent = 1 .. Len(sent) /\ Len(sent) \in Nat /\ pc # "idle"
      /\ k \in 1 .. Len(sent) /\ l \in 1 .. Len(sent)
  <2>1. DOMAIN sent = 1 .. Len(sent) /\ Len(sent) \in Nat
    BY DEF IInv, SentInv
  <2>2. sent # <<>>
    BY EmptySeq
  <2> QED
    BY <2>1, <2>2 DEF IInv, SentInv
<1>2. cfg \in Configs /\ Len(cands) \in Nat /\ Len(sent) <= Len(cands)
  BY <1>1, CandidatesTyped DEF IInv, StartInv, InBounds
<1>3. cfg.conns \in Seq(Connection) /\ cfg.fallback \in BOOLEAN
  <2>1. cfg \in Config
    BY <1>2, ProxyRequestAssumption
  <2> QED
    BY <2>1 DEF Config
<1>4. Preferred(cands, cfg.conns)
  BY <1>3, CandidatesPreferred DEF cands
<1>5. PICK a \in Seq(E), b \in Seq(W) :
          /\ cands = a \o b /\ Range(b) \cap E \subseteq Range(a)
          /\ Sorted(a, Earlier(cfg.conns)) /\ Sorted(b, Better(cfg.conns))
  BY <1>4, Zenon DEF Preferred
<1>6. \A i \in 1 .. Len(sent) : sent[i].conn = cands[i]
  BY <1>1 DEF IInv, SentInv
<1>7. \A i \in 1 .. Len(sent) : at(i) = At(cfg.conns, cands[i])
  BY <1>6 DEF At
<1>8. \A c \in Range(cfg.conns) : At(cfg.conns, c) \in Nat
  BY <1>3, ConfigOrder
<1>9. \A c \in W : The(c.prefix) \in Nat
  <2> TAKE c \in W
  <2>1. c \in Connection /\ c.prefix # {}
    BY <1>3 DEF Range
  <2>2. c.prefix \in Option(Nat)
    BY <2>1 DEF Connection
  <2> QED
    BY <2>1, <2>2 DEF Option, The
<1> HIDE DEF E, W
<1>10. /\ Len(a) \in Nat /\ Len(b) \in Nat /\ Len(cands) = Len(a) + Len(b)
       /\ \A i \in 1 .. Len(a) : cands[i] = a[i] /\ a[i] \in E /\ i \in DOMAIN a
       /\ \A i \in Len(a) + 1 .. Len(a) + Len(b) :
             cands[i] = b[i - Len(a)] /\ b[i - Len(a)] \in W /\ i - Len(a) \in DOMAIN b
             /\ b[i - Len(a)] \in Range(b)
  BY <1>5 DEF Range
<1>11. ASSUME NEW i \in 1 .. Len(sent), i <= Len(a) PROVE named(i)
  <2>1. i \in 1 .. Len(a) /\ cands[i].exact
    BY <1>1, <1>10, <1>11 DEF E
  <2>2. ASSUME NEW j \in 1 .. i - 1, sent[j].conn = sent[i].conn PROVE FALSE
    <3>1. j \in 1 .. Len(sent) /\ j \in 1 .. Len(a) /\ j < i
      BY <1>1, <1>10, <2>1
    <3>2. <<a[j], a[i]>> \in Earlier(cfg.conns)
      BY <1>5, <1>10, <2>1, <3>1 DEF Sorted
    <3>3. a[j] = a[i]
      BY <1>6, <1>10, <2>1, <2>2, <3>1
    <3> QED
      BY <1>8, <3>2, <3>3 DEF Earlier
  <2> QED
    BY <1>6, <2>1, <2>2
<1>12. ASSUME NEW i \in 1 .. Len(sent), i > Len(a) PROVE ~named(i)
  <2> SUFFICES ASSUME sent[i].conn.exact PROVE again(i)
    OBVIOUS
  <2>1. i \in Len(a) + 1 .. Len(a) + Len(b)
    BY <1>1, <1>2, <1>10, <1>12
  <2>2. cands[i] \in Range(b) /\ cands[i] \in Range(cfg.conns)
    BY <1>10, <2>1 DEF W
  <2>3. cands[i] \in E
    BY <1>6, <2>2 DEF E
  <2>4. PICK j \in 1 .. Len(a) : a[j] = cands[i]
    <3>1. PICK c : c = cands[i]
      OBVIOUS
    <3>2. c \in Range(a)
      BY <1>5, <2>2, <2>3, <3>1
    <3>3. DOMAIN a = 1 .. Len(a)
      OBVIOUS
    <3> QED
      BY <3>1, <3>2, <3>3 DEF Range
  <2>5. j \in 1 .. i - 1 /\ j \in 1 .. Len(sent)
    BY <1>1, <1>10, <1>12
  <2> QED
    BY <1>6, <1>10, <2>4, <2>5
<1>13. CASE k <= Len(a) /\ l <= Len(a)
  <2>1. k \in 1 .. Len(a) /\ l \in 1 .. Len(a)
    BY <1>1, <1>10, <1>13
  <2>2. <<a[k], a[l]>> \in Earlier(cfg.conns)
    BY <1>5, <1>10, <2>1 DEF Sorted
  <2>3. At(cfg.conns, cands[k]) < At(cfg.conns, cands[l])
    BY <1>10, <2>1, <2>2 DEF Earlier
  <2>4. at(k) < at(l)
    BY <1>1, <1>7, <2>3
  <2> QED
    BY <1>1, <1>11, <1>13, <2>4
<1>14. CASE k <= Len(a) /\ l > Len(a)
  BY <1>1, <1>11, <1>12, <1>14
<1>15. CASE k > Len(a)
  <2>1. l > Len(a) /\ k \in Len(a) + 1 .. Len(a) + Len(b) /\ l \in Len(a) + 1 .. Len(a) + Len(b)
    BY <1>1, <1>2, <1>10, <1>15
  <2>2. k - Len(a) \in DOMAIN b /\ l - Len(a) \in DOMAIN b /\ k - Len(a) < l - Len(a)
    BY <1>1, <1>10, <2>1
  <2>3. <<cands[k], cands[l]>> \in Better(cfg.conns) /\ cands[k] \in W /\ cands[l] \in W
    <3>1. <<b[k - Len(a)], b[l - Len(a)]>> \in Better(cfg.conns)
      BY <1>5, <2>2 DEF Sorted
    <3> QED
      BY <1>10, <2>1, <3>1
  <2>4. \/ The(cands[k].prefix) > The(cands[l].prefix)
        \/ The(cands[k].prefix) = The(cands[l].prefix) /\ At(cfg.conns, cands[k]) < At(cfg.conns, cands[l])
    BY <2>3 DEF Better
  <2>5. The(cands[k].prefix) \in Nat /\ The(cands[l].prefix) \in Nat
    BY <1>9, <2>3
  <2>6. at(k) = At(cfg.conns, cands[k]) /\ at(l) = At(cfg.conns, cands[l])
    BY <1>1, <1>7
  <2>7. prefix(k) = The(cands[k].prefix) /\ prefix(l) = The(cands[l].prefix)
    BY <1>1, <1>6
  <2>8. ~named(k) /\ ~named(l)
    BY <1>1, <1>12, <1>15, <2>1
  <2> HIDE DEF named, at, prefix
  <2> QED
    BY <2>4, <2>5, <2>6, <2>7, <2>8
<1> QED
  BY <1>1, <1>10, <1>13, <1>14, <1>15
-----------------------------------------------------------------------------
(* What a key is shown *)

\* f is the recursion of Distinct.
Distincts(f, list) ==
    f = [n \in 0 .. Len(list) |->
            IF n = 0 THEN <<>>
            ELSE LET before == f[n - 1]
                 IN IF list[n] \in Range(before) THEN before ELSE Append(before, list[n])]
DistinctStep(f, list, n) == f[n] = WithFirst(f[n - 1], list[n])

LEMMA DistinctBy ==
    ASSUME NEW X, NEW list \in Seq(X)
    PROVE  \E f : /\ Distinct(list) = f[Len(list)] /\ f[0] = <<>>
                  /\ \A n \in 1 .. Len(list) : DistinctStep(f, list, n)
<1> DEFINE N == Len(list)
           Up(f, m) == /\ f = [n \in 0 .. m |-> f[n]] /\ f[0] = <<>>
                       /\ \A n \in 1 .. m : DistinctStep(f, list, n)
           T == {m \in 0 .. N : \E f : Up(f, m)}
           h == CHOOSE f : Distincts(f, list)
<1>0. N \in Nat
  OBVIOUS
<1>1. Distinct(list) = h[N]
  BY DEF Distinct, Distincts
<1> HIDE DEF N, h
<1>2. 0 \in T
  <2> DEFINE f == [n \in 0 .. 0 |-> <<>>]
  <2>1. Up(f, 0)
    OBVIOUS
  <2> HIDE DEF f, Up
  <2> QED
    BY <1>0, <2>1
<1>3. ASSUME NEW m \in 1 .. N, m - 1 \in T PROVE m \in T
  <2>1. PICK f : Up(f, m - 1)
    BY <1>3
  <2> DEFINE grown == WithFirst(f[m - 1], list[m])
             g == [n \in 0 .. m |-> IF n = m THEN grown ELSE f[n]]
  <2> HIDE DEF grown
  <2>2. /\ g = [n \in 0 .. m |-> g[n]] /\ g[m] = grown /\ m \in Nat /\ m # 0
        /\ \A n \in 0 .. m - 1 : g[n] = f[n]
    OBVIOUS
  <2> HIDE DEF g
  <2>3. g[0] = <<>>
    <3>1. 0 \in 0 .. m - 1
      BY <1>0
    <3>2. g[0] = f[0] /\ f[0] = <<>>
      BY <2>1, <2>2, <3>1
    <3> QED
      BY <3>2
  <2>4. ASSUME NEW n \in 1 .. m PROVE DistinctStep(g, list, n)
    <3>1. CASE n = m
      <4>1. m - 1 \in 0 .. m - 1
        BY <1>0
      <4>2. g[m - 1] = f[m - 1]
        BY <2>2, <4>1
      <4> QED
        BY <2>2, <3>1, <4>2 DEF DistinctStep, grown
    <3>2. CASE n # m
      <4>1. n \in 1 .. m - 1 /\ n \in 0 .. m - 1 /\ n - 1 \in 0 .. m - 1
        BY <1>0, <3>2
      <4>2. g[n] = f[n] /\ g[n - 1] = f[n - 1] /\ DistinctStep(f, list, n)
        BY <2>1, <2>2, <4>1
      <4> QED
        BY <4>2 DEF DistinctStep
    <3> QED
      BY <3>1, <3>2
  <2>5. Up(g, m)
    BY <2>2, <2>3, <2>4
  <2> HIDE DEF Up
  <2> QED
    BY <1>0, <2>5
<1>4. \E f : Up(f, N)
  <2> HIDE DEF T
  <2>1. \A i \in 0 .. N : i \in T
    BY <1>0, <1>2, <1>3, UpTo
  <2>2. N \in T
    BY <1>0, <2>1
  <2> QED
    BY <2>2 DEF T
<1>5. PICK f : Up(f, N)
  BY <1>4
<1>6. Distincts(f, list)
  <2>1. ASSUME NEW n \in 0 .. N, n # 0 PROVE f[n] = WithFirst(f[n - 1], list[n])
    <3>1. n \in 1 .. N
      BY <1>0, <2>1
    <3> QED
      BY <1>5, <3>1 DEF DistinctStep
  <2>2. f = [n \in 0 .. N |-> f[n]] /\ f[0] = <<>>
    BY <1>5
  <2>3. f = [n \in 0 .. N |-> IF n = 0 THEN <<>> ELSE WithFirst(f[n - 1], list[n])]
    BY <2>1, <2>2
  <2> QED
    BY <2>3 DEF Distincts, N, WithFirst
<1>7. Distincts(h, list)
  BY <1>6, Zenon DEF h
<1>8. h = [n \in 0 .. N |-> IF n = 0 THEN <<>> ELSE WithFirst(h[n - 1], list[n])]
  BY <1>7 DEF Distincts, N, WithFirst
<1>9. h[0] = <<>>
  BY <1>0, <1>8
<1>10. ASSUME NEW n \in 1 .. N PROVE DistinctStep(h, list, n)
  <2>1. n \in 0 .. N /\ n # 0
    BY <1>0
  <2> QED
    BY <1>8, <2>1 DEF DistinctStep
<1> QED
  BY <1>1, <1>9, <1>10 DEF N

\* The first of equals is there once, and nothing else.
LEMMA DistinctIs ==
    ASSUME NEW X, NEW list \in Seq(X)
    PROVE  IsInjective(Distinct(list)) /\ Range(Distinct(list)) = Range(list)
<1>1. PICK f : /\ Distinct(list) = f[Len(list)] /\ f[0] = <<>>
               /\ \A n \in 1 .. Len(list) : DistinctStep(f, list, n)
  BY DistinctBy
<1>2. Len(list) \in Nat /\ DOMAIN list = 1 .. Len(list)
  OBVIOUS
<1> DEFINE first(i) == {list[j] : j \in 1 .. i}
           T == {i \in 0 .. Len(list) : f[i] \in Seq(X) /\ Range(f[i]) = first(i) /\ IsInjective(f[i])}
<1>3. 0 \in T
  <2>1. <<>> \in Seq(X) /\ Range(<<>>) = {} /\ first(0) = {} /\ IsInjective(<<>>)
    BY DEF Range, IsInjective
  <2>2. f[0] \in Seq(X) /\ Range(f[0]) = first(0) /\ IsInjective(f[0])
    <3> HIDE DEF first
    <3> QED
      BY <1>1, <2>1, Zenon
  <2> QED
    BY <1>2, <2>2
<1>4. ASSUME NEW i \in 1 .. Len(list), i - 1 \in T PROVE i \in T
  <2>1. f[i] = WithFirst(f[i - 1], list[i])
    BY <1>1 DEF DistinctStep
  <2>2. PICK a \in Seq(X) : a = f[i - 1]
    BY <1>4
  <2>3. Range(a) = first(i - 1) /\ IsInjective(a)
    BY <1>4, <2>2
  <2>4. PICK x \in X : x = list[i]
    BY <1>2
  <2>5. first(i) = first(i - 1) \cup {x}
    <3>1. i \in Nat /\ 1 .. i = 1 .. (i - 1) \cup {i}
      BY <1>2
    <3> QED
      BY <2>4, <3>1
  <2> HIDE DEF first
  <2>6. CASE x \in Range(a)
    <3>1. f[i] = a
      BY <2>1, <2>2, <2>4, <2>6 DEF WithFirst
    <3> QED
      BY <1>2, <2>3, <2>5, <2>6, <3>1
  <2>7. CASE x \notin Range(a)
    <3>1. f[i] = Append(a, x)
      BY <2>1, <2>2, <2>4, <2>7 DEF WithFirst
    <3>2. PICK b \in Seq(X) : b = Append(a, x)
      <4>1. Append(a, x) \in Seq(X)
        OBVIOUS
      <4> QED
        BY <4>1, Zenon
    <3>3. /\ Len(a) \in Nat /\ DOMAIN a = 1 .. Len(a) /\ DOMAIN b = 1 .. Len(a) + 1 /\ b[Len(a) + 1] = x
          /\ \A j \in 1 .. Len(a) : b[j] = a[j]
      BY <3>2
    <3>4. Range(b) = Range(a) \cup {x}
      <4>1. ASSUME NEW j \in DOMAIN b PROVE b[j] \in Range(a) \cup {x}
        <5>1. j \in 1 .. Len(a) \/ j = Len(a) + 1
          BY <3>3
        <5> QED
          BY <3>3, <5>1 DEF Range
      <4>2. ASSUME NEW j \in DOMAIN a PROVE a[j] \in Range(b)
        <5>1. j \in DOMAIN b /\ b[j] = a[j]
          BY <3>3
        <5> QED
          BY <5>1 DEF Range
      <4>3. x \in Range(b)
        <5>1. Len(a) + 1 \in DOMAIN b
          BY <3>3
        <5> QED
          BY <3>3, <5>1 DEF Range
      <4> QED
        BY <4>1, <4>2, <4>3 DEF Range
    <3>5. IsInjective(b)
      <4> SUFFICES ASSUME NEW j \in DOMAIN b, NEW k \in DOMAIN b, b[j] = b[k] PROVE j = k
        BY DEF IsInjective
      <4>1. j \in 1 .. Len(a) \/ j = Len(a) + 1
        BY <3>3
      <4>2. k \in 1 .. Len(a) \/ k = Len(a) + 1
        BY <3>3
      <4>3. \A n \in 1 .. Len(a) : a[n] # x
        BY <2>7, <3>3 DEF Range
      <4> QED
        BY <2>3, <3>3, <4>1, <4>2, <4>3 DEF IsInjective
    <3>6. f[i] = b
      BY <3>1, <3>2
    <3>7. f[i] \in Seq(X) /\ Range(f[i]) = first(i) /\ IsInjective(f[i])
      BY <2>3, <2>5, <3>4, <3>5, <3>6
    <3> QED
      BY <1>2, <3>7
  <2> QED
    BY <2>6, <2>7
<1> HIDE DEF T
<1>5. \A i \in 0 .. Len(list) : i \in T
  BY <1>2, <1>3, <1>4, UpTo
<1>6. Len(list) \in T
  BY <1>2, <1>5
<1>7. first(Len(list)) = Range(list)
  BY <1>2 DEF Range
<1> QED
  BY <1>1, <1>6, <1>7 DEF T

\* f is the recursion of FlattenSeq.
Flattens(f, seqs) ==
    f = [i \in 1 .. Len(seqs) |-> IF i = 1 THEN seqs[i] ELSE f[i - 1] \o seqs[i]]
FlattenStep(f, seqs, i) == f[i] = IF i = 1 THEN seqs[i] ELSE f[i - 1] \o seqs[i]

LEMMA FlattenBy ==
    ASSUME NEW X, NEW seqs \in Seq(X), Len(seqs) # 0
    PROVE  \E f : /\ FlattenSeq(seqs) = f[Len(seqs)]
                  /\ \A i \in 1 .. Len(seqs) : FlattenStep(f, seqs, i)
<1> DEFINE N == Len(seqs)
           Up(f, m) == f = [i \in 1 .. m |-> f[i]] /\ \A i \in 1 .. m : FlattenStep(f, seqs, i)
           T == {m \in 0 .. N : \E f : Up(f, m)}
           h == CHOOSE f : Flattens(f, seqs)
<1>0. N \in Nat
  OBVIOUS
<1>1. FlattenSeq(seqs) = h[N]
  BY DEF FlattenSeq, Flattens
<1> HIDE DEF N, h
<1>2. 0 \in T
  <2> DEFINE f == [i \in 1 .. 0 |-> <<>>]
  <2>1. Up(f, 0)
    OBVIOUS
  <2> HIDE DEF f, Up
  <2> QED
    BY <1>0, <2>1
<1>3. ASSUME NEW m \in 1 .. N, m - 1 \in T PROVE m \in T
  <2>1. PICK f : Up(f, m - 1)
    BY <1>3
  <2> DEFINE grown == IF m = 1 THEN seqs[m] ELSE f[m - 1] \o seqs[m]
             g == [i \in 1 .. m |-> IF i = m THEN grown ELSE f[i]]
  <2> HIDE DEF grown
  <2>2. /\ g = [i \in 1 .. m |-> g[i]] /\ g[m] = grown /\ m \in Nat /\ m # 0
        /\ \A i \in 1 .. m - 1 : g[i] = f[i]
    OBVIOUS
  <2> HIDE DEF g
  <2>3. ASSUME NEW i \in 1 .. m PROVE FlattenStep(g, seqs, i)
    <3>1. CASE i = m
      <4>1. m # 1 => m - 1 \in 1 .. m - 1
        BY <1>0
      <4>2. m # 1 => g[m - 1] = f[m - 1]
        BY <2>2, <4>1
      <4> QED
        BY <2>2, <3>1, <4>2 DEF FlattenStep, grown
    <3>2. CASE i # m
      <4>1. i \in 1 .. m - 1 /\ (i # 1 => i - 1 \in 1 .. m - 1)
        BY <1>0, <3>2
      <4>2. g[i] = f[i] /\ (i # 1 => g[i - 1] = f[i - 1]) /\ FlattenStep(f, seqs, i)
        BY <2>1, <2>2, <4>1
      <4> QED
        BY <4>2 DEF FlattenStep
    <3> QED
      BY <3>1, <3>2
  <2>4. Up(g, m)
    BY <2>2, <2>3
  <2> HIDE DEF Up
  <2> QED
    BY <1>0, <2>4
<1>4. \E f : Up(f, N)
  <2> HIDE DEF T
  <2>1. \A i \in 0 .. N : i \in T
    BY <1>0, <1>2, <1>3, UpTo
  <2>2. N \in T
    BY <1>0, <2>1
  <2> QED
    BY <2>2 DEF T
<1>5. PICK f : Up(f, N)
  BY <1>4
<1>6. Flattens(f, seqs)
  <2>1. ASSUME NEW i \in 1 .. N PROVE f[i] = IF i = 1 THEN seqs[i] ELSE f[i - 1] \o seqs[i]
    BY <1>5 DEF FlattenStep
  <2>2. f = [i \in 1 .. N |-> f[i]]
    BY <1>5
  <2>3. f = [i \in 1 .. N |-> IF i = 1 THEN seqs[i] ELSE f[i - 1] \o seqs[i]]
    BY <2>1, <2>2
  <2> QED
    BY <2>3 DEF Flattens, N
<1>7. Flattens(h, seqs)
  BY <1>6, Zenon DEF h
<1>8. h = [i \in 1 .. N |-> IF i = 1 THEN seqs[i] ELSE h[i - 1] \o seqs[i]]
  BY <1>7 DEF Flattens, N
<1>9. ASSUME NEW i \in 1 .. N PROVE FlattenStep(h, seqs, i)
  BY <1>8 DEF FlattenStep
<1> QED
  BY <1>1, <1>9 DEF N

\* The elements of sequences that are put together.
Within(x, seqs, n) == \E j \in 1 .. n : x \in Range(seqs[j])
LEMMA FlattenRange ==
    ASSUME NEW X, NEW seqs \in Seq(Seq(X))
    PROVE  FlattenSeq(seqs) \in Seq(X) /\ \A x : x \in Range(FlattenSeq(seqs)) <=> Within(x, seqs, Len(seqs))
<1>1. CASE Len(seqs) = 0
  <2>1. FlattenSeq(seqs) = <<>>
    BY <1>1, EmptySeq DEF FlattenSeq
  <2>2. Range(<<>>) = {} /\ <<>> \in Seq(X)
    BY DEF Range
  <2> QED
    BY <1>1, <2>1, <2>2 DEF Within
<1>2. CASE Len(seqs) # 0
  <2>1. PICK f : /\ FlattenSeq(seqs) = f[Len(seqs)]
                 /\ \A i \in 1 .. Len(seqs) : FlattenStep(f, seqs, i)
    BY <1>2, FlattenBy
  <2>2. Len(seqs) \in Nat
    OBVIOUS
  <2> DEFINE T == {i \in 0 .. Len(seqs) : i = 0 \/ (f[i] \in Seq(X) /\ \A x : x \in Range(f[i]) <=> Within(x, seqs, i))}
  <2>3. 0 \in T
    BY <2>2
  <2>4. ASSUME NEW i \in 1 .. Len(seqs), i - 1 \in T PROVE i \in T
    <3>1. PICK s \in Seq(X) : s = seqs[i]
      OBVIOUS
    <3>2. CASE i = 1
      <4>1. f[i] = s
        BY <2>1, <3>1, <3>2 DEF FlattenStep
      <4>2. \A x : x \in Range(s) <=> Within(x, seqs, i)
        BY <3>1, <3>2 DEF Within
      <4> QED
        BY <2>2, <4>1, <4>2
    <3>3. CASE i # 1
      <4>1. PICK a \in Seq(X) : a = f[i - 1]
        BY <2>4, <3>3
      <4>2. \A x : x \in Range(a) <=> Within(x, seqs, i - 1)
        BY <2>4, <3>3, <4>1
      <4>3. f[i] = a \o s
        BY <2>1, <3>1, <3>3, <4>1 DEF FlattenStep
      <4>4. Range(a \o s) = Range(a) \cup Range(s) /\ a \o s \in Seq(X)
        BY ConcatRange, ConcatProperties
      <4>5. ASSUME NEW x PROVE Within(x, seqs, i) <=> Within(x, seqs, i - 1) \/ x \in Range(s)
        <5>1. i \in Nat /\ 1 .. i = 1 .. (i - 1) \cup {i}
          BY <2>2
        <5> QED
          BY <3>1, <5>1 DEF Within
      <4>6. f[i] \in Seq(X) /\ \A x : x \in Range(f[i]) <=> Within(x, seqs, i)
        BY <4>2, <4>3, <4>4, <4>5
      <4> QED
        BY <2>2, <4>6
    <3> QED
      BY <3>2, <3>3
  <2> HIDE DEF T
  <2>5. \A i \in 0 .. Len(seqs) : i \in T
    BY <2>2, <2>3, <2>4, UpTo
  <2>6. Len(seqs) \in T
    BY <2>2, <2>5
  <2> QED
    BY <1>2, <2>1, <2>6 DEF T
<1> QED
  BY <1>1, <1>2

\* What a key's connections list, and what its own allowlist does.
Offers(key) == {p \in Pattern : \E c \in Range(key.connections) : p \in Range(c.models)}
Own(key) == IF key.allowlist = {} THEN <<>> ELSE The(key.allowlist)

LEMMA ListedAre ==
    ASSUME NEW key \in Key
    PROVE  /\ IsInjective(AllowedModels(key))
           /\ Range(AllowedModels(key)) =
                 {p \in Offers(key) : Permitted(key, p)} \cup {p \in Range(Own(key)) : p.star}
           /\ Own(key) \in Seq(Pattern)
<1> DEFINE seqs == [i \in DOMAIN key.connections |-> key.connections[i].models]
<1>1. PICK patterns : patterns = FlattenSeq(seqs)
  OBVIOUS
<1>2. PICK own : own = Own(key)
  OBVIOUS
<1>3. own \in Seq(Pattern)
  <2>1. key.allowlist \in Option(Seq(Pattern))
    BY DEF Key
  <2>2. CASE key.allowlist = {}
    <3>1. <<>> \in Seq(Pattern)
      OBVIOUS
    <3> QED
      BY <1>2, <2>2, <3>1, Zenon DEF Own
  <2>3. CASE key.allowlist # {}
    <3>1. The(key.allowlist) \in key.allowlist
      BY <2>3, TheIsIn
    <3> QED
      BY <1>2, <2>1, <2>3, <3>1 DEF Own, Option
  <2> QED
    BY <2>2, <2>3
<1>4. /\ seqs \in Seq(Seq(Pattern)) /\ DOMAIN key.connections = 1 .. Len(seqs)
      /\ \A i \in 1 .. Len(seqs) : seqs[i] = key.connections[i].models
  <2>1. key.connections \in Seq([name : STRING, format : Formats, models : Seq(Pattern)])
    BY DEF Key
  <2>2. PICK n \in Nat : n = Len(key.connections) /\ DOMAIN key.connections = 1 .. n
    BY <2>1
  <2>3. ASSUME NEW i \in 1 .. n PROVE key.connections[i].models \in Seq(Pattern)
    <3>1. key.connections[i] \in [name : STRING, format : Formats, models : Seq(Pattern)]
      BY <2>1, <2>2, ElementOfSeq
    <3> QED
      BY <3>1
  <2>4. seqs \in [1 .. n -> Seq(Pattern)]
    BY <2>2, <2>3
  <2> QED
    BY <2>2, <2>4
<1> HIDE DEF seqs
<1>5. patterns \in Seq(Pattern) /\ \A x : x \in Range(patterns) <=> Within(x, seqs, Len(seqs))
  BY <1>1, <1>4, FlattenRange
<1>6. Range(patterns) = Offers(key)
  <2>1. ASSUME NEW x PROVE x \in Range(patterns) <=> x \in Offers(key)
    <3>1. x \in Range(patterns) => x \in Pattern
      BY <1>5 DEF Range
    <3>2. Within(x, seqs, Len(seqs)) <=> \E c \in Range(key.connections) : x \in Range(c.models)
      BY <1>4 DEF Within, Range
    <3> QED
      BY <1>5, <3>1, <3>2 DEF Offers
  <2> QED
    BY <2>1
<1> DEFINE A == {p \in Range(patterns) : p.star = FALSE /\ Permitted(key, p)}
           B == {p \in Range(patterns) : p.star = TRUE /\ Permitted(key, p)}
           C == {p \in Range(own) : p.star}
<1>7. PICK a : a = Select(patterns, A)
  OBVIOUS
<1>8. PICK b : b = Select(patterns, B)
  OBVIOUS
<1>9. PICK c : c = Select(own, C)
  OBVIOUS
<1>10. PICK list : list = (a \o b) \o c
  OBVIOUS
<1>11. AllowedModels(key) = Distinct(list)
  BY <1>1, <1>2, <1>7, <1>8, <1>9, <1>10 DEF AllowedModels, seqs, Own
<1>12. /\ Range(patterns) \cap A = A /\ Range(patterns) \cap B = B /\ Range(own) \cap C = C
       /\ A \cup B = {p \in Offers(key) : Permitted(key, p)}
  <2>1. ASSUME NEW p \in Offers(key) PROVE p.star = FALSE \/ p.star = TRUE
    BY DEF Offers, Pattern
  <2> QED
    BY <1>6, <2>1
<1>13. C = {p \in Range(Own(key)) : p.star}
  BY <1>2
<1> HIDE DEF A, B, C
<1>14. Range(a) = A /\ Range(b) = B /\ Range(c) = C
  BY <1>3, <1>5, <1>7, <1>8, <1>9, <1>12, SelectSorted
<1>15. a \in Seq(Pattern) /\ b \in Seq(Pattern) /\ c \in Seq(Pattern)
  <2>1. Range(patterns) \subseteq Pattern /\ Range(own) \subseteq Pattern
    BY <1>3, <1>5 DEF Range
  <2>2. /\ Seq(Range(patterns) \cap A) \subseteq Seq(Pattern)
        /\ Seq(Range(patterns) \cap B) \subseteq Seq(Pattern)
        /\ Seq(Range(own) \cap C) \subseteq Seq(Pattern)
    BY <2>1, SeqMonotonic
  <2> QED
    BY <1>3, <1>5, <1>7, <1>8, <1>9, <2>2, SelectFrom
<1>16. PICK ab \in Seq(Pattern) : ab = a \o b
  BY <1>15, ConcatProperties
<1>17. Range(ab) = A \cup B
  BY <1>14, <1>15, <1>16, ConcatRange
<1>18. list \in Seq(Pattern) /\ Range(list) = A \cup B \cup C
  <2>1. Range(ab \o c) = Range(ab) \cup Range(c) /\ ab \o c \in Seq(Pattern)
    BY <1>15, ConcatRange, ConcatProperties
  <2> QED
    BY <1>10, <1>14, <1>16, <1>17, <2>1
<1>19. IsInjective(Distinct(list)) /\ Range(Distinct(list)) = Range(list)
  BY <1>18, DistinctIs
<1> QED
  BY <1>2, <1>3, <1>11, <1>12, <1>13, <1>18, <1>19

\* A model that a connection lists, by name or by a pattern, and that the key is
\* allowed, is served.
LEMMA OfferedIsServed ==
    ASSUME NEW key \in Key, NEW model, Allows(key, model), NEW p \in Offers(key), Matches(p, model)
    PROVE  ServedBy(key, model) # <<>>
<1> DEFINE conns == [i \in DOMAIN key.connections |-> Seen(key.connections[i], model)]
           E == {c \in Range(conns) : c.exact}
           W == {c \in Range(conns) : c.prefix # {}}
<1>1. PICK i \in DOMAIN key.connections : p \in Range(key.connections[i].models)
  BY DEF Offers, Range
<1>2. ServedBy(key, model) = Select(conns, E) \o Wildcards(conns)
  BY DEF ServedBy, ConnectionsForModel
<1>3. conns \in Seq(Range(conns))
  <2>1. key.connections \in Seq([name : STRING, format : Formats, models : Seq(Pattern)])
    BY DEF Key
  <2>2. PICK n \in Nat : DOMAIN key.connections = 1 .. n
    BY <2>1
  <2>3. conns \in [1 .. n -> Range(conns)]
    BY <2>2 DEF Range
  <2> HIDE DEF conns
  <2> QED
    BY <2>3
<1>4. conns[i] = Seen(key.connections[i], model) /\ conns[i] \in Range(conns)
  BY DEF Range
<1> HIDE DEF conns
<1>5. Wildcards(conns) \in Seq(W) /\ Range(Wildcards(conns)) = W
  BY <1>3, WildcardsRange
<1>6. Range(Select(conns, E)) = E /\ Select(conns, E) \in Seq(E)
  <2>1. Range(conns) \cap E = E
    OBVIOUS
  <2> HIDE DEF E
  <2> QED
    BY <1>3, <2>1, SelectFrom, SelectSorted
<1>7. p \in Pattern
  BY DEF Offers
<1>8. conns[i] \in E \cup W
  <2>1. CASE p.star = FALSE
    <3>1. p.prefix = model
      BY <2>1 DEF Matches
    <3>2. p = Exactly(model)
      BY <1>7, <2>1, <3>1 DEF Pattern, Exactly
    <3>3. conns[i].exact
      <4>1. Seen(key.connections[i], model).exact = (Exactly(model) \in Range(key.connections[i].models))
        BY DEF Seen
      <4>2. Exactly(model) \in Range(key.connections[i].models)
        BY <1>1, <3>2
      <4> QED
        BY <1>4, <4>1, <4>2, Zenon
    <3> QED
      BY <1>4, <3>3
  <2>2. CASE p.star = TRUE
    <3> DEFINE prefixes == {Len(q.prefix) : q \in {r \in Range(key.connections[i].models) : r.star /\ Matches(r, model)}}
    <3>1. Len(p.prefix) \in prefixes
      BY <1>1, <2>2
    <3>2. conns[i].prefix = IF prefixes = {} THEN {} ELSE {CHOOSE n \in prefixes : \A k \in prefixes : k <= n}
      BY <1>4 DEF Seen
    <3> HIDE DEF prefixes
    <3>3. conns[i].prefix # {}
      BY <3>1, <3>2
    <3> QED
      BY <1>4, <3>3
  <2> QED
    BY <1>7, <2>1, <2>2 DEF Pattern
<1> HIDE DEF E, W
<1>9. PICK a \in Seq(E) : a = Select(conns, E) /\ Range(a) = E
  BY <1>6
<1>10. PICK b \in Seq(W) : b = Wildcards(conns) /\ Range(b) = W
  BY <1>5
<1>11. a # <<>> \/ b # <<>>
  <2>1. Range(<<>>) = {}
    BY DEF Range
  <2> QED
    BY <1>8, <1>9, <1>10, <2>1
<1>12. a \o b # <<>>
  <2>1. Len(a) \in Nat /\ Len(b) \in Nat /\ Len(a \o b) = Len(a) + Len(b) /\ Len(<<>>) = 0
    OBVIOUS
  <2>2. Len(a) # 0 \/ Len(b) # 0
    BY <1>11, EmptySeq
  <2> QED
    BY <2>1, <2>2
<1> QED
  BY <1>2, <1>9, <1>10, <1>12

LEMMA ListedServed == ASSUME theKey \in Keys PROVE ModelsListedServed
<1>1. theKey \in Key /\ Models \subseteq Seq(STRING)
  BY AccessAssumption
<1> DEFINE listed == AllowedModels(theKey)
           ofConnection(p) == \E c \in Range(theKey.connections) : p \in Range(c.models)
           served(model) == ServedBy(theKey, model) # <<>>
<1>2. /\ IsInjective(listed) /\ Own(theKey) \in Seq(Pattern)
      /\ Range(listed) = {p \in Offers(theKey) : Permitted(theKey, p)} \cup {p \in Range(Own(theKey)) : p.star}
  BY <1>1, ListedAre
<1>3. Range(listed) \subseteq Pattern
  BY <1>2 DEF Offers, Range
<1> HIDE DEF listed
\* A pattern that is listed allows what it matches.
<1>4. ASSUME NEW p \in Range(listed), NEW model \in Seq(STRING), Matches(p, model)
      PROVE  Allows(theKey, model)
  <2>1. CASE p \in Offers(theKey) /\ Permitted(theKey, p)
    <3> SUFFICES ASSUME NEW list \in theKey.allowlist
                 PROVE  \E q \in Range(list) : Matches(q, model)
      BY DEF Allows
    <3>1. CASE p.star
      <4>1. Matches(AnyModel, model)
        <5>1. IsPrefix(<<>>, model)
          BY DEF IsPrefix
        <5> QED
          BY <5>1 DEF Matches, AnyModel
      <4>2. p \in Range(list) \/ AnyModel \in Range(list)
        BY <2>1, <3>1 DEF Permitted
      <4> QED
        BY <1>4, <4>1, <4>2
    <3>2. CASE ~p.star
      <4>1. p.prefix = model
        BY <1>4, <3>2 DEF Matches
      <4> QED
        BY <2>1, <3>2, <4>1 DEF Permitted
    <3> QED
      BY <3>1, <3>2
  <2>2. CASE p \in Range(Own(theKey))
    <3>1. theKey.allowlist # {}
      <4>1. Range(<<>>) = {}
        BY DEF Range
      <4> QED
        BY <2>2, <4>1, Zenon DEF Own
    <3>2. theKey.allowlist \in Option(Seq(Pattern))
      BY <1>1 DEF Key
    <3>3. \A list \in theKey.allowlist : list = Own(theKey)
      <4>1. The(theKey.allowlist) \in theKey.allowlist
        BY <3>1, TheIsIn
      <4> QED
        BY <3>1, <3>2, <4>1 DEF Own, Option
    <3> QED
      BY <1>4, <2>2, <3>3 DEF Allows
  <2> QED
    BY <1>2, <2>1, <2>2
<1>5. \A i, j \in DOMAIN listed : listed[i] = listed[j] => i = j
  BY <1>2 DEF IsInjective
<1>6. ASSUME NEW p \in Range(listed), ~p.star PROVE served(p.prefix)
  <2>1. p \in Offers(theKey) /\ p \in Pattern
    BY <1>2, <1>3, <1>6
  <2>2. p.prefix \in Seq(STRING) /\ Matches(p, p.prefix)
    BY <1>6, <2>1 DEF Pattern, Matches
  <2> QED
    BY <1>1, <1>4, <2>1, <2>2, OfferedIsServed
<1>7. ASSUME NEW p \in Range(listed), NEW model \in Models, ofConnection(p), Matches(p, model)
      PROVE  served(model)
  <2>1. p \in Offers(theKey) /\ model \in Seq(STRING)
    BY <1>1, <1>3, <1>7 DEF Offers
  <2> QED
    BY <1>1, <1>4, <1>7, <2>1, OfferedIsServed
<1>8. ASSUME NEW model \in Models, ofConnection(Exactly(model)), served(model)
      PROVE  Exactly(model) \in Range(listed)
  <2>1. Allows(theKey, model)
    BY <1>8 DEF ServedBy
  <2>2. Exactly(model) \in Pattern /\ Exactly(model).star = FALSE /\ Exactly(model).prefix = model
    BY <1>1 DEF Exactly, Pattern
  <2>3. Exactly(model) \in Offers(theKey)
    BY <1>8, <2>2 DEF Offers
  <2>4. Permitted(theKey, Exactly(model))
    BY <2>1, <2>2 DEF Permitted, Allows
  <2> QED
    BY <1>2, <2>3, <2>4
<1> QED
  BY <1>5, <1>6, <1>7, <1>8, Zenon DEF ModelsListedServed, listed

\* For every key and every list of connections: what is listed can be used, and what
\* is asked goes to the connections in the order of preference.
THEOREM RoutingHolds == AccessSpec => []RoutingKept
<1>1. AccessInit /\ [][UNCHANGED theKey]_theKey => [](theKey \in Keys)
  <2>1. AccessInit => theKey \in Keys
    BY DEF AccessInit
  <2>2. theKey \in Keys /\ [UNCHANGED theKey]_theKey => (theKey \in Keys)'
    OBVIOUS
  <2> QED
    BY <2>1, <2>2, PTL
<1>2. theKey \in Keys /\ IInv /\ InBounds => RoutingKept
  BY ListedServed, PreferredKept DEF RoutingKept
<1> QED
  BY <1>1, <1>2, BoundsKept, PTL DEF AccessSpec
=============================================================================
