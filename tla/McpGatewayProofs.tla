-------------------------- MODULE McpGatewayProofs --------------------------
(***************************************************************************)
(* For any number of requests, sessions, restarts and lost exchanges: a    *)
(* tool is executed at most once for a request, and a request nothing      *)
(* disturbs gets its result whatever state it finds the session in.  For   *)
(* any servers and request: a listed tool is called where it is, and the   *)
(* client and the trace are told how a call ended.  For any request and    *)
(* answer: attribution goes to the event and not upstream, and the client  *)
(* gets its own texts back (RequestShape).                                 *)
(***************************************************************************)
EXTENDS McpGateway, McpEndpoint, RequestShape, SequenceTheorems, FiniteSetTheorems,
        NaturalsInduction, WellFoundedInduction, TLAPS

TypePart ==
    /\ sessionId \in Nat /\ initialized \in BOOLEAN
    /\ initialized <=> sessionId # NoSession
    /\ callAt \in [Clients -> {"idle", "check", "initialize", "store", "notify", "read",
                               "post", "clear", "done"}]
    /\ sid \in [Clients -> Nat]
    /\ attempt \in [Clients -> Nat]
    /\ reply \in [Clients -> Replies]
    /\ sessions \in SUBSET Nat /\ NoSession \notin sessions /\ issued \in Nat
    /\ ran \in [Clients -> Nat] /\ quiet \in SUBSET Clients
    /\ \A c \in Clients : callAt[c] \in {"store", "notify"} => sid[c] # NoSession

\* A tool is executed by the exchange that ends a request.
RanPart == \A c \in Clients :
    /\ callAt[c] # "done" => ran[c] = 0
    /\ ran[c] <= 1

\* What a request that nothing has disturbed knows of the session: the session it
\* has opened itself is one the server knows, the one it has found may be stale,
\* and then it has a second attempt.
Undisturbed(c) ==
    /\ callAt[c] = "idle" => attempt[c] = 0
    /\ callAt[c] = "check" => attempt[c] = 0 \/ (attempt[c] = 1 /\ ~initialized)
    /\ callAt[c] \in {"initialize", "store", "notify", "read"} => attempt[c] \in {0, 1}
    /\ callAt[c] = "store" => sid[c] \in sessions
    /\ callAt[c] = "notify" => sid[c] \in sessions /\ sessionId = sid[c]
    /\ callAt[c] = "read" => initialized /\ (attempt[c] = 1 => sessionId \in sessions)
    /\ callAt[c] = "post" =>
          /\ sid[c] # NoSession
          /\ attempt[c] = 1 \/ (attempt[c] = 2 /\ sid[c] \in sessions)
    /\ callAt[c] = "clear" => attempt[c] = 1
    /\ callAt[c] = "done" => reply[c] = "result" /\ ran[c] = 1

IdlePart == \A c \in Clients : callAt[c] = "idle" => attempt[c] = 0

\* It is alone.
QuietPart == \A c \in quiet :
    /\ Undisturbed(c)
    /\ callAt[c] \notin {"idle", "done"} => \A d \in Clients : callAt[d] \notin {"idle", "done"} => d = c

IInv == TypePart /\ RanPart /\ IdlePart /\ QuietPart

LEMMA InitHolds == McpInit => IInv
<1> SUFFICES ASSUME McpInit PROVE IInv
  OBVIOUS
<1>1. \A c \in Clients : callAt[c] = "idle" /\ attempt[c] = 0 /\ ran[c] = 0
  BY DEF McpInit
<1>2. TypePart
  BY DEF McpInit, TypePart, NoSession, Replies
<1>3. RanPart /\ IdlePart
  BY <1>1 DEF RanPart, IdlePart
<1>4. QuietPart
  <2>1. quiet = Clients
    BY DEF McpInit
  <2>2. QED
    BY <1>1, <2>1 DEF QuietPart, Undisturbed
<1>5. QED
  BY <1>2, <1>3, <1>4 DEF IInv

\* A response is found behind notifications.
LEMMA ResponseFound ==
    ASSUME NEW messages \in {<<"response">>, <<"notification", "response">>}
    PROVE  ResponseIn(messages) = "response"
<1>1. CASE messages = <<"response">>
  BY <1>1 DEF ResponseIn
<1>2. CASE messages = <<"notification", "response">>
  BY <1>2 DEF ResponseIn
<1>3. QED
  BY <1>1, <1>2

\* A request that is not over moves from where it is; those that are quiet are over
\* or have not begun, unless it is the one.
LEMMA OthersRest ==
    ASSUME IInv, NEW c \in Clients, callAt[c] \notin {"idle", "done"},
           NEW d \in quiet, d # c
    PROVE  callAt[d] \in {"idle", "done"} /\ Undisturbed(d)
BY DEF IInv, QuietPart

\* What is left of the invariant when one request moves and the others stay.
LEMMA OneMoves ==
    ASSUME IInv, NEW c \in Clients, callAt[c] \notin {"idle", "done"},
           NEW to \in {"check", "initialize", "store", "notify", "read", "post", "clear", "done"},
           callAt' = [callAt EXCEPT ![c] = to],
           \A d \in Clients \ {c} : sid'[d] = sid[d] /\ attempt'[d] = attempt[d]
                                   /\ reply'[d] = reply[d] /\ ran'[d] = ran[d],
           quiet' \subseteq quiet, c \in quiet' => Undisturbed(c)',
           TypePart', RanPart'
    PROVE  IInv'
<1>1. IdlePart'
  BY DEF IInv, TypePart, IdlePart
<1>2. QuietPart'
  <2> SUFFICES ASSUME NEW d \in quiet'
               PROVE  /\ Undisturbed(d)'
                      /\ callAt'[d] \notin {"idle", "done"} =>
                            \A e \in Clients : callAt'[e] \notin {"idle", "done"} => e = d
    BY DEF QuietPart
  <2>1. d \in quiet /\ d \in Clients
    BY DEF IInv, TypePart
  <2>2. CASE d = c
    <3>1. \A e \in Clients : callAt[e] \notin {"idle", "done"} => e = c
      BY <2>1, <2>2 DEF IInv, QuietPart
    <3>2. \A e \in Clients \ {c} : callAt'[e] = callAt[e]
      BY DEF IInv, TypePart
    <3>3. QED
      BY <2>2, <3>1, <3>2
  <2>3. CASE d # c
    <3>1. callAt[d] \in {"idle", "done"} /\ Undisturbed(d)
      BY <2>1, <2>3, OthersRest
    <3>2. callAt'[d] = callAt[d]
      BY <2>1, <2>3 DEF IInv, TypePart
    <3>3. sid'[d] = sid[d] /\ attempt'[d] = attempt[d] /\ reply'[d] = reply[d] /\ ran'[d] = ran[d]
      BY <2>1, <2>3
    <3>4. QED
      BY <3>1, <3>2, <3>3 DEF Undisturbed
  <2>4. QED
    BY <2>2, <2>3
<1>3. QED
  BY <1>1, <1>2 DEF IInv

LEMMA StartKeeps == ASSUME IInv, NEW c \in Clients, StartCall(c) PROVE IInv'
<1>1. /\ callAt[c] = "idle" /\ callAt' = [callAt EXCEPT ![c] = "check"]
      /\ quiet' = IF Active = {} THEN quiet ELSE quiet \ (Active \cup {c})
      /\ UNCHANGED <<sessionId, initialized, sid, attempt, reply, sessions, issued, ran>>
  BY DEF StartCall, Move, server
<1>2. TypePart'
  BY <1>1 DEF IInv, TypePart
<1>3. RanPart' /\ IdlePart'
  BY <1>1 DEF IInv, TypePart, RanPart, IdlePart
<1>4. QuietPart'
  <2> SUFFICES ASSUME NEW d \in quiet'
               PROVE  /\ Undisturbed(d)'
                      /\ callAt'[d] \notin {"idle", "done"} =>
                            \A e \in Clients : callAt'[e] \notin {"idle", "done"} => e = d
    BY DEF QuietPart
  <2>1. d \in quiet /\ d \in Clients /\ Undisturbed(d)
    BY <1>1 DEF IInv, TypePart, QuietPart
  <2>2. \A e \in Clients \ {c} : callAt'[e] = callAt[e]
    BY <1>1 DEF IInv, TypePart
  <2>3. callAt'[c] = "check"
    BY <1>1 DEF IInv, TypePart
  <2>4. CASE d = c
    <3>1. Active = {}
      BY <1>1, <2>4
    <3>2. \A e \in Clients \ {c} : callAt'[e] \in {"idle", "done"}
      BY <2>2, <3>1 DEF Active
    <3>3. attempt'[c] = 0
      BY <1>1 DEF IInv, IdlePart
    <3>4. Undisturbed(c)'
      BY <2>3, <3>3 DEF Undisturbed
    <3>5. QED
      BY <2>4, <3>2, <3>4
  <2>5. CASE d # c
    <3>1. d \notin Active
      BY <1>1
    <3>2. callAt'[d] = callAt[d] /\ callAt[d] \in {"idle", "done"}
      BY <2>1, <2>2, <2>5, <3>1 DEF Active
    <3>3. QED
      BY <1>1, <2>1, <3>2 DEF Undisturbed
  <2>6. QED
    BY <2>4, <2>5
<1>5. QED
  BY <1>2, <1>3, <1>4 DEF IInv

LEMMA CheckKeeps == ASSUME IInv, NEW c \in Clients, CheckInitialized(c) PROVE IInv'
<1>1. /\ callAt[c] = "check"
      /\ callAt' = [callAt EXCEPT ![c] = IF initialized THEN "read" ELSE "initialize"]
      /\ UNCHANGED <<sessionId, initialized, sid, attempt, reply, sessions, issued, ran, quiet>>
  BY DEF CheckInitialized, Move, server
<1>2. TypePart' /\ RanPart'
  BY <1>1 DEF IInv, TypePart, RanPart
<1>3. ASSUME c \in quiet PROVE Undisturbed(c)'
  BY <1>1, <1>3 DEF IInv, TypePart, QuietPart, Undisturbed
<1>4. QED
  BY <1>1, <1>2, <1>3, OneMoves

LEMMA InitializeKeeps == ASSUME IInv, NEW c \in Clients, PostInitialize(c) PROVE IInv'
<1>1. /\ callAt[c] = "initialize" /\ callAt' = [callAt EXCEPT ![c] = "store"]
      /\ issued' = issued + 1 /\ sessions' = sessions \cup {issued'} /\ sid' = [sid EXCEPT ![c] = issued']
      /\ UNCHANGED <<sessionId, initialized, attempt, reply, ran, quiet>>
  BY DEF PostInitialize, Move
<1>2. issued' \in Nat /\ issued' # NoSession
  BY <1>1 DEF IInv, TypePart, NoSession
<1>3. TypePart' /\ RanPart'
  BY <1>1, <1>2 DEF IInv, TypePart, RanPart
<1>4. ASSUME c \in quiet PROVE Undisturbed(c)'
  BY <1>1, <1>4 DEF IInv, TypePart, QuietPart, Undisturbed
<1>5. \A d \in Clients \ {c} : sid'[d] = sid[d]
  BY <1>1 DEF IInv, TypePart
<1>6. QED
  BY <1>1, <1>3, <1>4, <1>5, OneMoves

LEMMA StoreKeeps == ASSUME IInv, NEW c \in Clients, StoreSession(c) PROVE IInv'
<1>1. /\ callAt[c] = "store" /\ callAt' = [callAt EXCEPT ![c] = "notify"]
      /\ sessionId' = sid[c] /\ initialized' = TRUE
      /\ UNCHANGED <<sid, attempt, reply, sessions, issued, ran, quiet>>
  BY DEF StoreSession, Move, server
<1>2. TypePart' /\ RanPart'
  BY <1>1 DEF IInv, TypePart, RanPart
<1>3. ASSUME c \in quiet PROVE Undisturbed(c)'
  BY <1>1, <1>3 DEF IInv, TypePart, QuietPart, Undisturbed
<1>4. QED
  BY <1>1, <1>2, <1>3, OneMoves

LEMMA NotifyKeeps == ASSUME IInv, NEW c \in Clients, PostInitialized(c) PROVE IInv'
<1>1. callAt[c] = "notify" /\ UNCHANGED <<sessionId, initialized, sid, attempt, sessions, issued, ran, quiet>>
  BY DEF PostInitialized, Move
<1>2. CASE sid[c] \in sessions
  <2>1. callAt' = [callAt EXCEPT ![c] = "read"] /\ reply' = reply
    BY <1>2 DEF PostInitialized, Move
  <2>2. TypePart' /\ RanPart'
    BY <1>1, <2>1 DEF IInv, TypePart, RanPart
  <2>3. ASSUME c \in quiet PROVE Undisturbed(c)'
    BY <1>1, <2>1, <2>3 DEF IInv, TypePart, QuietPart, Undisturbed
  <2>4. QED
    BY <1>1, <2>1, <2>2, <2>3, OneMoves
<1>3. CASE sid[c] \notin sessions
  <2>1. callAt' = [callAt EXCEPT ![c] = "done"] /\ reply' = [reply EXCEPT ![c] = "http"]
    BY <1>3 DEF PostInitialized, Move, Fail
  <2>2. TypePart' /\ RanPart'
    BY <1>1, <2>1 DEF IInv, TypePart, RanPart, Replies
  <2>3. c \notin quiet
    BY <1>1, <1>3 DEF IInv, QuietPart, Undisturbed
  <2>4. \A d \in Clients \ {c} : reply'[d] = reply[d]
    BY <2>1 DEF IInv, TypePart
  <2>5. QED
    BY <1>1, <2>1, <2>2, <2>3, <2>4, OneMoves
<1>4. QED
  BY <1>2, <1>3

LEMMA ReadKeeps == ASSUME IInv, NEW c \in Clients, ReadSession(c) PROVE IInv'
<1>1. /\ callAt[c] = "read" /\ callAt' = [callAt EXCEPT ![c] = "post"]
      /\ sid' = [sid EXCEPT ![c] = sessionId] /\ attempt' = [attempt EXCEPT ![c] = @ + 1]
      /\ UNCHANGED <<sessionId, initialized, reply, sessions, issued, ran, quiet>>
  BY DEF ReadSession, Move, server
<1>2. TypePart' /\ RanPart'
  BY <1>1 DEF IInv, TypePart, RanPart
<1>3. ASSUME c \in quiet PROVE Undisturbed(c)'
  BY <1>1, <1>3 DEF IInv, TypePart, QuietPart, Undisturbed
<1>4. \A d \in Clients \ {c} : sid'[d] = sid[d] /\ attempt'[d] = attempt[d]
  BY <1>1 DEF IInv, TypePart
<1>5. QED
  BY <1>1, <1>2, <1>3, <1>4, OneMoves

LEMMA AcceptedKeeps == ASSUME IInv, NEW c \in Clients, PostAccepted(c) PROVE IInv'
<1>1. /\ callAt[c] = "post" /\ callAt' = [callAt EXCEPT ![c] = "done"]
      /\ ran' = [ran EXCEPT ![c] = @ + 1]
      /\ UNCHANGED <<sessionId, initialized, sid, attempt, sessions, issued, quiet>>
  BY DEF PostAccepted, Move, server
<1>2. reply' = [reply EXCEPT ![c] = "result"]
  <2>1. PICK messages \in {<<"response">>, <<"notification", "response">>} :
           Fail(c, IF ResponseIn(messages) = "response" THEN "result" ELSE "protocol")
    BY DEF PostAccepted
  <2>2. QED
    BY <2>1, ResponseFound DEF Fail
<1>3. ran[c] = 0
  BY <1>1 DEF IInv, RanPart
<1>4. TypePart' /\ RanPart'
  BY <1>1, <1>2, <1>3 DEF IInv, TypePart, RanPart, Replies
<1>5. Undisturbed(c)'
  BY <1>1, <1>2, <1>3 DEF IInv, TypePart, Undisturbed
<1>6. \A d \in Clients \ {c} : reply'[d] = reply[d] /\ ran'[d] = ran[d]
  BY <1>1, <1>2 DEF IInv, TypePart
<1>7. QED
  BY <1>1, <1>4, <1>5, <1>6, OneMoves

LEMMA RefusedKeeps == ASSUME IInv, NEW c \in Clients, PostRefused(c) PROVE IInv'
<1>1. /\ callAt[c] = "post" /\ sid[c] \notin sessions
      /\ UNCHANGED <<sessionId, initialized, sid, attempt, sessions, issued, ran, quiet>>
  BY DEF PostRefused, Move, server
<1>2. CASE Retryable(c)
  <2>1. callAt' = [callAt EXCEPT ![c] = "clear"] /\ reply' = reply
    BY <1>2 DEF PostRefused, Move
  <2>2. TypePart' /\ RanPart'
    BY <1>1, <2>1 DEF IInv, TypePart, RanPart
  <2>3. ASSUME c \in quiet PROVE Undisturbed(c)'
    BY <1>1, <1>2, <2>1 DEF IInv, TypePart, Undisturbed, Retryable
  <2>4. QED
    BY <1>1, <2>1, <2>2, <2>3, OneMoves
<1>3. CASE ~Retryable(c)
  <2>1. callAt' = [callAt EXCEPT ![c] = "done"] /\ reply' = [reply EXCEPT ![c] = "http"]
    BY <1>3 DEF PostRefused, Move, Fail
  <2>2. TypePart' /\ RanPart'
    BY <1>1, <2>1 DEF IInv, TypePart, RanPart, Replies
  <2>3. c \notin quiet
    BY <1>1, <1>3 DEF IInv, QuietPart, Undisturbed, Retryable
  <2>4. \A d \in Clients \ {c} : reply'[d] = reply[d]
    BY <2>1 DEF IInv, TypePart
  <2>5. QED
    BY <1>1, <2>1, <2>2, <2>3, <2>4, OneMoves
<1>4. QED
  BY <1>2, <1>3

LEMMA ClearKeeps == ASSUME IInv, NEW c \in Clients, ClearSession(c) PROVE IInv'
<1>1. /\ callAt[c] = "clear" /\ callAt' = [callAt EXCEPT ![c] = "check"]
      /\ sessionId' = NoSession /\ initialized' = FALSE
      /\ UNCHANGED <<sid, attempt, reply, sessions, issued, ran, quiet>>
  BY DEF ClearSession, Move, server
<1>2. TypePart' /\ RanPart'
  BY <1>1 DEF IInv, TypePart, RanPart, NoSession
<1>3. ASSUME c \in quiet PROVE Undisturbed(c)'
  BY <1>1, <1>3 DEF IInv, TypePart, QuietPart, Undisturbed
<1>4. QED
  BY <1>1, <1>2, <1>3, OneMoves

LEMMA LoseKeeps == ASSUME IInv, NEW c \in Clients, LoseExchange(c) PROVE IInv'
<1>1. /\ callAt[c] \in {"initialize", "notify", "post"} /\ callAt' = [callAt EXCEPT ![c] = "done"]
      /\ ran' = ran \/ ran' = [ran EXCEPT ![c] = @ + 1]
      /\ reply' = [reply EXCEPT ![c] = "transport"] /\ quiet' = quiet \ {c}
      /\ UNCHANGED <<sessionId, initialized, sid, attempt, sessions, issued>>
  BY DEF LoseExchange, AfterLoss, Fail
<1>2. ran[c] = 0
  BY <1>1 DEF IInv, RanPart
<1>3. TypePart' /\ RanPart'
  BY <1>1, <1>2 DEF IInv, TypePart, RanPart, Replies
<1>4. \A d \in Clients \ {c} : reply'[d] = reply[d] /\ ran'[d] = ran[d]
  BY <1>1 DEF IInv, TypePart
<1>5. QED
  BY <1>1, <1>3, <1>4, OneMoves

LEMMA RestartKeeps == ASSUME IInv, Restart PROVE IInv'
<1>1. /\ sessions' = {} /\ quiet' = quiet \ Active
      /\ UNCHANGED <<sessionId, initialized, callAt, sid, attempt, reply, issued, ran>>
  BY DEF Restart
<1>2. TypePart' /\ RanPart' /\ IdlePart'
  BY <1>1 DEF IInv, TypePart, RanPart, IdlePart
<1>3. QuietPart'
  <2> SUFFICES ASSUME NEW c \in quiet'
               PROVE  Undisturbed(c)' /\ callAt'[c] \in {"idle", "done"}
    BY DEF QuietPart
  <2>1. c \in quiet /\ callAt[c] \in {"idle", "done"} /\ Undisturbed(c)
    BY <1>1 DEF IInv, TypePart, QuietPart, Active
  <2>2. QED
    BY <1>1, <2>1 DEF Undisturbed
<1>4. QED
  BY <1>2, <1>3 DEF IInv

LEMMA StutterKeeps == ASSUME IInv, UNCHANGED mcpVars PROVE IInv'
BY DEF IInv, TypePart, RanPart, IdlePart, QuietPart, Undisturbed, mcpVars

\* The invariant the rest follows from.
THEOREM Inductive == McpSpec => []IInv
<1>1. IInv /\ [McpNext]_mcpVars => IInv'
  BY StartKeeps, CheckKeeps, InitializeKeeps, StoreKeeps, NotifyKeeps, ReadKeeps, AcceptedKeeps,
     RefusedKeeps, ClearKeeps, LoseKeeps, RestartKeeps, StutterKeeps DEF McpNext
<1>2. QED
  BY InitHolds, <1>1, PTL DEF McpSpec

\* A tool is executed at most once for a request, although the request may be sent
\* twice and answers may be lost (upstream.rs:290-310).
THEOREM OnceHolds == McpSpec => []ExecutedOnce
<1>1. IInv => ExecutedOnce
  BY DEF IInv, RanPart, ExecutedOnce
<1>2. QED
  BY Inductive, <1>1, PTL

\* A request that no other and no failure disturbs gets its result, whatever is left
\* of the session it finds (upstream.rs:155-310).
THEOREM UndisturbedHolds == McpSpec => []UndisturbedSucceeds
<1>1. IInv => UndisturbedSucceeds
  BY DEF IInv, TypePart, QuietPart, Undisturbed, UndisturbedSucceeds
<1>2. QED
  BY Inductive, <1>1, PTL
-----------------------------------------------------------------------------
(* The endpoint *)

\* The parts of a concatenation are its subsequences.
LEMMA ConcatParts ==
    ASSUME NEW S, NEW s \in Seq(S), NEW t \in Seq(S)
    PROVE  /\ s \o t \in Seq(S) /\ Len(s \o t) = Len(s) + Len(t) /\ Len(s) \in Nat /\ Len(t) \in Nat
           /\ SubSeq(s \o t, 1, Len(s)) = s
           /\ SubSeq(s \o t, Len(s) + 1, Len(s \o t)) = t
<1>1. s \o t \in Seq(S) /\ Len(s \o t) = Len(s) + Len(t) /\ Len(s) \in Nat /\ Len(t) \in Nat
  BY ConcatProperties
<1>2. SubSeq(s \o t, 1, Len(s)) = s
  <2>1. CASE Len(s) = 0
    <3>1. SubSeq(s \o t, 1, Len(s)) = <<>>
      BY <2>1, SubSeqEmpty
    <3> QED
      BY <2>1, <3>1
  <2>2. CASE Len(s) # 0
    <3>1. SubSeq(s \o t, 1, Len(s)) = SubSeq(s, 1, Len(s))
      BY <1>1, <2>2, SubSeqOfConcat1
    <3> QED
      BY <3>1, SubSeqFull
  <2> QED
    BY <2>1, <2>2
<1>3. SubSeq(s \o t, Len(s) + 1, Len(s \o t)) = t
  <2>1. CASE Len(t) = 0
    <3>1. SubSeq(s \o t, Len(s) + 1, Len(s \o t)) = <<>>
      BY <1>1, <2>1, SubSeqEmpty
    <3> QED
      BY <2>1, <3>1
  <2>2. CASE Len(t) # 0
    <3>1. SubSeq(s \o t, Len(s) + 1, Len(s \o t)) = SubSeq(t, 1, Len(t))
      BY <1>1, <2>2, SubSeqOfConcat2
    <3> QED
      BY <3>1, SubSeqFull
  <2> QED
    BY <2>1, <2>2
<1> QED
  BY <1>1, <1>2, <1>3

\* The server's name and the separator, and what follows them.
LEMMA NeedleIs ==
    ASSUME NEW upstream, IsName(upstream.name), NEW name, IsName(name)
    PROVE  LET tool == Needle(upstream) \o name
               n == Len(Needle(upstream))
           IN /\ Len(upstream.name) \in Nat /\ n = Len(upstream.name) + 1
              /\ Len(tool) = n + Len(name) /\ Len(name) \in Nat
              /\ SubSeq(tool, 1, n) = Needle(upstream) /\ SubSeq(Needle(upstream), 1, n) = Needle(upstream)
              /\ SubSeq(tool, n + 1, Len(tool)) = name
<1> DEFINE S == Range(upstream.name) \cup {"-"} \cup Range(name)
           own == upstream.name
           needle == Needle(upstream)
<1>1. own \in Seq(S) /\ Separator \in Seq(S) /\ Len(Separator) = 1 /\ name \in Seq(S)
  BY DEF IsName, Separator
<1>2. needle = own \o Separator
  BY DEF Needle
<1> HIDE DEF S, own, needle
<1>3. needle \in Seq(S) /\ Len(needle) = Len(own) + 1 /\ Len(own) \in Nat
  BY <1>1, <1>2, ConcatParts
<1>4. /\ Len(needle \o name) = Len(needle) + Len(name) /\ Len(name) \in Nat
      /\ SubSeq(needle \o name, 1, Len(needle)) = needle
      /\ SubSeq(needle \o name, Len(needle) + 1, Len(needle \o name)) = name
  <2>1. needle \in Seq(S)
    BY <1>3
  <2>2. name \in Seq(S)
    BY <1>1
  <2>3. Len(needle \o name) = Len(needle) + Len(name)
    BY <2>1, <2>2, ConcatParts
  <2>4. Len(name) \in Nat
    BY <2>1, <2>2, ConcatParts
  <2>5. SubSeq(needle \o name, 1, Len(needle)) = needle
    BY <2>1, <2>2, ConcatParts
  <2>6. SubSeq(needle \o name, Len(needle) + 1, Len(needle \o name)) = name
    BY <2>1, <2>2, ConcatParts
  <2> QED
    BY <2>3, <2>4, <2>5, <2>6
<1>5. SubSeq(needle, 1, Len(needle)) = needle
  BY <1>3, SubSeqFull
<1> QED
  BY <1>3, <1>4, <1>5 DEF needle, own

\* Two servers that own a tool, with names of the same length, are the same.
LEMMA OwnerUnique ==
    ASSUME NEW servers, NEW tool, NEW i \in Owners(servers, tool), NEW j \in Owners(servers, tool),
           IsName(servers[i].name), IsName(servers[j].name),
           servers[i].name = servers[j].name => i = j,
           Len(servers[i].name) = Len(servers[j].name)
    PROVE  i = j
<1> DEFINE a == Needle(servers[i])
           b == Needle(servers[j])
<1>1. SubSeq(a, 1, Len(a)) = SubSeq(tool, 1, Len(a)) /\ SubSeq(b, 1, Len(b)) = SubSeq(tool, 1, Len(b))
  BY DEF Owners, IsPrefix
<1>2. /\ Len(a) = Len(servers[i].name) + 1 /\ Len(b) = Len(servers[j].name) + 1
      /\ SubSeq(a, 1, Len(a)) = a /\ SubSeq(b, 1, Len(b)) = b
  <2>1. IsName(<<>>)
    BY DEF IsName
  <2> QED
    BY <2>1, NeedleIs
<1>3. a = b
  BY <1>1, <1>2
<1>4. servers[i].name = servers[j].name
  <2> DEFINE S == Range(servers[i].name) \cup Range(servers[j].name) \cup {"-"}
  <2>1. servers[i].name \in Seq(S) /\ servers[j].name \in Seq(S) /\ Separator \in Seq(S)
    BY DEF IsName, Separator
  <2> HIDE DEF S
  <2>2. servers[i].name \o Separator = servers[j].name \o Separator
    BY <1>3 DEF Needle
  <2>3. DOMAIN servers[i].name = DOMAIN servers[j].name
    BY <2>1
  <2>4. \A k \in DOMAIN servers[i].name : servers[i].name[k] = servers[j].name[k]
    <3>1. ASSUME NEW k \in DOMAIN servers[i].name PROVE servers[i].name[k] = servers[j].name[k]
      <4>1. (servers[i].name \o Separator)[k] = servers[i].name[k]
        BY <2>1
      <4>2. (servers[j].name \o Separator)[k] = servers[j].name[k]
        BY <2>1, <2>3
      <4> QED
        BY <2>2, <4>1, <4>2
    <3> QED
      BY <3>1
  <2> QED
    BY <2>1, <2>3, <2>4
<1> QED
  BY <1>4

\* A tool is routed to one server at most.
LEMMA RouteUnique ==
    ASSUME NEW servers \in Fleets, NEW tool
    PROVE  /\ \A r \in route(servers, tool) : r.server \in Owners(servers, tool)
           /\ \A r, q \in route(servers, tool) : r = q
<1>1. \A i \in Owners(servers, tool) : i \in DOMAIN servers /\ IsName(servers[i].name)
  BY EndpointAssumption DEF Owners
<1>2. \A i, j \in Owners(servers, tool) :
          Len(servers[j].name) <= Len(servers[i].name) /\ Len(servers[i].name) <= Len(servers[j].name) => i = j
  <2>1. ASSUME NEW i \in Owners(servers, tool), NEW j \in Owners(servers, tool),
               Len(servers[j].name) <= Len(servers[i].name), Len(servers[i].name) <= Len(servers[j].name)
        PROVE  i = j
    <3>1. Len(servers[i].name) \in Nat /\ Len(servers[j].name) \in Nat
      BY <1>1 DEF IsName
    <3>2. Len(servers[i].name) = Len(servers[j].name)
      BY <2>1, <3>1
    <3>3. servers[i].name = servers[j].name => i = j
      BY <1>1, EndpointAssumption
    <3> QED
      BY <1>1, <3>2, <3>3, OwnerUnique
  <2> QED
    BY <2>1
<1> DEFINE Best == {i \in Owners(servers, tool) :
                       \A j \in Owners(servers, tool) : Len(servers[j].name) <= Len(servers[i].name)}
           To(i) == [server |-> i, bare |-> SubSeq(tool, Len(Needle(servers[i])) + 1, Len(tool))]
<1>3. route(servers, tool) = {To(i) : i \in Best}
  BY DEF route
<1>4. \A i, j \in Best : i = j
  BY <1>2
<1>5. \A i : To(i).server = i
  OBVIOUS
<1> HIDE DEF To
<1>6. \A r \in route(servers, tool) : r.server \in Owners(servers, tool)
  BY <1>3, <1>5
<1> HIDE DEF Best
<1> QED
  BY <1>3, <1>4, <1>6

\* The tool a server lists, if no longer name owns it, is routed to that server by the
\* name it has there.
LEMMA RouteOfListed ==
    ASSUME NEW servers \in Fleets, NEW i \in DOMAIN servers, NEW bare, IsName(bare), bare # <<>>,
           ~\E j \in Owners(servers, Needle(servers[i]) \o bare) : Len(servers[j].name) > Len(servers[i].name)
    PROVE  route(servers, Needle(servers[i]) \o bare) = {[server |-> i, bare |-> bare]}
<1> DEFINE tool == Needle(servers[i]) \o bare
<1>1. \A j \in DOMAIN servers : IsName(servers[j].name) /\ Len(servers[j].name) \in Nat
  BY EndpointAssumption DEF IsName
<1>2. /\ Len(tool) = Len(Needle(servers[i])) + Len(bare) /\ Len(bare) \in Nat
      /\ Len(Needle(servers[i])) \in Nat
      /\ SubSeq(tool, 1, Len(Needle(servers[i]))) = Needle(servers[i])
      /\ SubSeq(Needle(servers[i]), 1, Len(Needle(servers[i]))) = Needle(servers[i])
      /\ SubSeq(tool, Len(Needle(servers[i])) + 1, Len(tool)) = bare
  BY <1>1, NeedleIs
<1>3. Len(bare) > 0
  BY DEF IsName
<1> HIDE DEF tool
<1>4. i \in Owners(servers, tool)
  BY <1>2, <1>3 DEF Owners, IsPrefix
<1>5. \A j \in Owners(servers, tool) : j \in DOMAIN servers /\ Len(servers[j].name) <= Len(servers[i].name)
  BY <1>1 DEF Owners, tool
<1>6. [server |-> i, bare |-> bare] \in route(servers, tool)
  BY <1>2, <1>4, <1>5 DEF route
<1>7. route(servers, tool) = {[server |-> i, bare |-> bare]}
  BY <1>6, RouteUnique
<1> QED
  BY <1>7 DEF tool

\* What is sent and told for a call of a tool.
CallsOf(post, servers, tool) ==
    {[server |-> r.server, tool |-> r.bare, headers |-> HeadersSent(servers[r.server], Inbound(post))] :
        r \in route(servers, tool)}
CallEnds(told, post, servers, tool) ==
    /\ told.calls = CallsOf(post, servers, tool)
    /\ told.trace # <<>> /\ Len(told.trace) = 1
    /\ Head(told.trace).method = "tools/call" /\ Head(told.trace).tool = {tool}
    /\ Head(told.trace).server = {r.server : r \in route(servers, tool)}
    /\ Head(told.trace).failed = (told.error # {}) /\ Head(told.trace).output = (told.error = {})
    /\ told.status = 200 /\ told.echoed = TRUE /\ told.session = FALSE

LEMMA CallIs ==
    ASSUME NEW post, NEW servers, NEW tool
    PROVE  CallEnds(CallTool(post, tool, servers), post, servers, tool)
<1> DEFINE routed == route(servers, tool)
           code == IF routed = {} THEN {INVALID_PARAMS}
                   ELSE UNION {CASE servers[r.server].answer = "result" -> {}
                                 [] servers[r.server].answer = "rpc" -> {1}
                                 [] OTHER -> {INTERNAL_ERROR} : r \in routed}
           base == IF code = {} THEN Success ELSE Failure(CHOOSE c \in code : TRUE)
           calls == {[server |-> r.server, tool |-> r.bare,
                      headers |-> HeadersSent(servers[r.server], Inbound(post))] : r \in routed}
           trace == TraceMcp("tools/call", {tool}, {r.server : r \in routed}, code = {}, code # {})
<1>1. CallTool(post, tool, servers) = [base EXCEPT !.calls = calls, !.trace = trace]
  BY DEF CallTool
<1>2. \E error : base = Answered(200, error, TRUE, FALSE) /\ (error = {} <=> code = {})
  <2>1. CASE code = {}
    BY <2>1 DEF Success
  <2>2. CASE code # {}
    <3>1. base = Answered(200, {CHOOSE c \in code : TRUE}, TRUE, FALSE)
      BY <2>2 DEF Failure
    <3> QED
      BY <2>2, <3>1
  <2> QED
    BY <2>1, <2>2
<1>3. /\ trace # <<>> /\ Len(trace) = 1
      /\ Head(trace).method = "tools/call" /\ Head(trace).tool = {tool}
      /\ Head(trace).server = {r.server : r \in routed}
      /\ Head(trace).failed = (code # {}) /\ Head(trace).output = (code = {})
  <2> DEFINE toldOf == {r.server : r \in routed}
             fine == code = {}
             bad == code # {}
  <2> HIDE DEF toldOf, fine, bad
  <2>1. trace = TraceMcp("tools/call", {tool}, toldOf, fine, bad)
    BY DEF toldOf, fine, bad
  <2> HIDE DEF trace
  <2>2. /\ trace # <<>> /\ Len(trace) = 1
        /\ Head(trace).method = "tools/call" /\ Head(trace).tool = {tool}
        /\ Head(trace).server = toldOf /\ Head(trace).failed = bad /\ Head(trace).output = fine
    BY <2>1 DEF TraceMcp
  <2> QED
    BY <2>2 DEF toldOf, fine, bad
<1> HIDE DEF calls, trace, code
<1>4. PICK error : base = Answered(200, error, TRUE, FALSE) /\ (error = {} <=> code = {})
  BY <1>2
<1> DEFINE told == CallTool(post, tool, servers)
<1> HIDE DEF base
<1>5. /\ told.calls = calls /\ told.trace = trace /\ told.error = error
      /\ told.status = 200 /\ told.echoed = TRUE /\ told.session = FALSE
  BY <1>1, <1>4 DEF Answered
<1> HIDE DEF told
<1>6. (code # {}) = (told.error # {}) /\ (code = {}) = (told.error = {})
  BY <1>4, <1>5
<1>7. told.calls = CallsOf(post, servers, tool)
  BY <1>5 DEF calls, CallsOf
<1> QED
  BY <1>3, <1>5, <1>6, <1>7 DEF told, CallEnds

\* The headers a server is sent: no reserved one and none of its own from a client.
LEMMA HeadersAllowed ==
    ASSUME NEW upstream, NEW inbound
    PROVE  /\ \A h \in HeadersSent(upstream, inbound) :
                  h[2] = "client" => h[1] \in upstream.forward_headers \ Protocol
           /\ \A h \in upstream.headers \cup Protocol : <<h, "client">> \notin HeadersSent(upstream, inbound)
<1> HIDE DEF Protocol
<1>1. ASSUME NEW h \in HeadersSent(upstream, inbound), h[2] = "client"
      PROVE  h[1] \in upstream.forward_headers \ Protocol
  <2>1. h \notin Protocol \X {"gateway"} /\ h \notin upstream.headers \X {"configuration"}
    BY <1>1
  <2> QED
    BY <2>1 DEF HeadersSent, Forwarded
<1>2. ASSUME NEW h \in upstream.headers \cup Protocol
      PROVE  <<h, "client">> \notin HeadersSent(upstream, inbound)
  BY DEF HeadersSent, Forwarded
<1> QED
  BY <1>1, <1>2

\* The listed half: a tool is called at its server by the name it has there.
ListedPart ==
    \A i \in DOMAIN fleet : \A k \in DOMAIN ToolsOf(fleet[i]) : \A bare \in fleet[i].tools[k] :
        LET tool == Needle(fleet[i]) \o bare
        IN /\ {tool} \in aggregate_tools(fleet)
           /\ {[server |-> c.server, tool |-> c.tool] : c \in CallTool(posted, tool, fleet).calls}
                 = {[server |-> i, tool |-> bare]}
              \/ bare = <<>> \/ \E j \in Owners(fleet, tool) : Len(fleet[j].name) > Len(fleet[i].name)

\* The told half: of any answer to a request.
ToldPart(told) ==
    LET traced == told.trace # <<>>
        entry == Head(told.trace)
    IN /\ \A call \in told.calls :
             /\ posted.key /\ posted.id
             /\ traced /\ entry.server = {call.server} /\ entry.tool # {}
             /\ \A h \in call.headers :
                   h[2] = "client" => h[1] \in fleet[call.server].forward_headers \ Protocol
             /\ \A h \in fleet[call.server].headers \cup Protocol : <<h, "client">> \notin call.headers
       /\ traced => /\ Len(told.trace) = 1 /\ entry.failed = (told.error # {})
                    /\ (entry.method = "tools/call" => entry.output # entry.failed)
       /\ told.status = 200 => told.echoed \/ posted.json # "request"
       /\ told.session => told.calls = {}

\* What is listed is routed back to its server.
LEMMA ListedIs ==
    ASSUME fleet \in Fleets
    PROVE  ListedPart
<1>1. ASSUME NEW i \in DOMAIN fleet, NEW k \in DOMAIN ToolsOf(fleet[i]), NEW bare \in fleet[i].tools[k]
      PROVE  LET tool == Needle(fleet[i]) \o bare
             IN /\ {tool} \in aggregate_tools(fleet)
                /\ {[server |-> c.server, tool |-> c.tool] : c \in CallTool(posted, tool, fleet).calls}
                      = {[server |-> i, tool |-> bare]}
                   \/ bare = <<>> \/ \E j \in Owners(fleet, tool) : Len(fleet[j].name) > Len(fleet[i].name)
  <2> DEFINE tool == Needle(fleet[i]) \o bare
  <2>1. k \in DOMAIN fleet[i].tools /\ ToolsOf(fleet[i])[k] = {Needle(fleet[i]) \o name : name \in fleet[i].tools[k]}
    <3> DEFINE Listed == [j \in DOMAIN fleet[i].tools |-> {Needle(fleet[i]) \o name : name \in fleet[i].tools[j]}]
    <3>1. ToolsOf(fleet[i]) = IF fleet[i].failing THEN <<>> ELSE Listed
      BY DEF ToolsOf
    <3>2. DOMAIN Listed = DOMAIN fleet[i].tools
          /\ \A j \in DOMAIN fleet[i].tools : Listed[j] = {Needle(fleet[i]) \o name : name \in fleet[i].tools[j]}
      BY Zenon
    <3> HIDE DEF Listed
    <3>3. ~fleet[i].failing
      BY <1>1, <3>1
    <3>4. ToolsOf(fleet[i]) = Listed
      BY <3>1, <3>3
    <3> QED
      BY <1>1, <3>2, <3>4, Zenon
  <2>2. IsName(bare)
    BY <1>1, <2>1, EndpointAssumption
  <2>3. {tool} \in aggregate_tools(fleet)
    <3>1. \A name \in fleet[i].tools[k] : name = bare
      BY <2>1, EndpointAssumption
    <3>2. ToolsOf(fleet[i])[k] = {tool}
      BY <2>1, <3>1
    <3> QED
      BY <3>2 DEF aggregate_tools, Range
  <2>4. ASSUME bare # <<>>, ~\E j \in Owners(fleet, tool) : Len(fleet[j].name) > Len(fleet[i].name)
        PROVE  {[server |-> c.server, tool |-> c.tool] : c \in CallTool(posted, tool, fleet).calls}
                  = {[server |-> i, tool |-> bare]}
    <3>1. route(fleet, tool) = {[server |-> i, bare |-> bare]}
      BY <2>2, <2>4, RouteOfListed
    <3> HIDE DEF tool
    <3>2. CallTool(posted, tool, fleet).calls
             = {[server |-> r.server, tool |-> r.bare,
                 headers |-> HeadersSent(fleet[r.server], Inbound(posted))] : r \in route(fleet, tool)}
      <4>1. CallEnds(CallTool(posted, tool, fleet), posted, fleet, tool)
        BY CallIs
      <4> QED
        BY <4>1 DEF CallEnds, CallsOf
    <3> DEFINE sent == HeadersSent(fleet[i], Inbound(posted))
               call == [server |-> i, tool |-> bare, headers |-> sent]
    <3>3. CallTool(posted, tool, fleet).calls = {call}
      BY <3>1, <3>2
    <3>4. call.server = i /\ call.tool = bare
      OBVIOUS
    <3> HIDE DEF call
    <3> QED
      BY <3>3, <3>4
  <2> QED
    BY <2>3, <2>4
<1> QED
  BY <1>1 DEF ListedPart

\* A call of a tool goes to one server, which is the one the trace names.
LEMMA CallTold ==
    ASSUME fleet \in Fleets, posted.key, posted.id, NEW tool
    PROVE  ToldPart(CallTool(posted, tool, fleet))
<1> DEFINE told == CallTool(posted, tool, fleet)
           entry == Head(told.trace)
<1>1. /\ told.calls = {[server |-> r.server, tool |-> r.bare,
                        headers |-> HeadersSent(fleet[r.server], Inbound(posted))] : r \in route(fleet, tool)}
      /\ told.trace # <<>> /\ Len(told.trace) = 1
      /\ entry.method = "tools/call" /\ entry.tool = {tool}
      /\ entry.server = {r.server : r \in route(fleet, tool)}
      /\ entry.failed = (told.error # {}) /\ entry.output = (told.error = {})
      /\ told.status = 200 /\ told.echoed = TRUE /\ told.session = FALSE
  <2>1. CallEnds(told, posted, fleet, tool)
    BY CallIs
  <2> HIDE DEF told
  <2> QED
    BY <2>1 DEF CallEnds, CallsOf
<1> HIDE DEF told
<1>2. ASSUME NEW call \in told.calls
      PROVE  /\ entry.server = {call.server} /\ entry.tool # {}
             /\ \A h \in call.headers :
                   h[2] = "client" => h[1] \in fleet[call.server].forward_headers \ Protocol
             /\ \A h \in fleet[call.server].headers \cup Protocol : <<h, "client">> \notin call.headers
  <2>1. PICK r \in route(fleet, tool) :
            call = [server |-> r.server, tool |-> r.bare,
                    headers |-> HeadersSent(fleet[r.server], Inbound(posted))]
    BY <1>1
  <2>2. call.server = r.server /\ call.headers = HeadersSent(fleet[r.server], Inbound(posted))
    BY <2>1
  <2>3. {q.server : q \in route(fleet, tool)} = {r.server}
    <3>1. \A q \in route(fleet, tool) : q = r
      BY RouteUnique
    <3> QED
      BY <3>1
  <2>4. entry.server = {call.server} /\ entry.tool # {}
    BY <1>1, <2>2, <2>3
  <2> QED
    BY <2>2, <2>4, HeadersAllowed
<1>3. (entry.output # entry.failed) /\ (entry.failed = (told.error # {}))
  BY <1>1
<1> QED
  BY <1>1, <1>2, <1>3 DEF ToldPart, told

\* What an answer without a call is worth.
LEMMA NoneTold ==
    ASSUME NEW told, told.calls = {},
           \/ told.trace = <<>>
           \/ /\ Len(told.trace) = 1 /\ Head(told.trace).failed = (told.error # {})
              /\ Head(told.trace).method = "tools/call" => Head(told.trace).output # Head(told.trace).failed,
           told.status = 200 => told.echoed \/ posted.json # "request"
    PROVE  ToldPart(told)
  BY DEF ToldPart

\* Every answer is told as it ended: without a key, unread, a notification, a method.
LEMMA AnswerTold ==
    ASSUME fleet \in Fleets
    PROVE  ToldPart(HandlePost(posted, fleet))
<1>1. \A status : status # 200 => ToldPart(Plain(status))
  <2>1. ASSUME NEW status, status # 200 PROVE ToldPart(Plain(status))
    <3>1. Plain(status).calls = {} /\ Plain(status).trace = <<>> /\ Plain(status).status # 200
      BY <2>1 DEF Plain, Answered
    <3> QED
      BY <3>1, NoneTold
  <2> QED
    BY <2>1
<1>2. \A code : posted.json # "request" => ToldPart(Unread(code))
  <2>1. ASSUME NEW code, posted.json # "request" PROVE ToldPart(Unread(code))
    <3>1. Unread(code).calls = {} /\ Unread(code).trace = <<>>
      BY DEF Unread, Answered
    <3> QED
      BY <2>1, <3>1, NoneTold
  <2> QED
    BY <2>1
<1>3. ASSUME posted.key, posted.id PROVE ToldPart(Dispatch(posted, fleet))
  <2>1. ToldPart(Answered(200, {}, TRUE, TRUE)) /\ ToldPart(Success) /\ ToldPart(Failure(METHOD_NOT_FOUND))
    <3>1. \A error, session : /\ Answered(200, error, TRUE, session).calls = {}
                              /\ Answered(200, error, TRUE, session).trace = <<>>
                              /\ Answered(200, error, TRUE, session).echoed
      BY DEF Answered
    <3>2. \A error, session : ToldPart(Answered(200, error, TRUE, session))
      BY <3>1, NoneTold, ZenonT(60)
    <3> QED
      BY <3>2 DEF Success, Failure
  <2>2. ToldPart(ToolsList)
    <3>1. ToolsList.calls = {} /\ ToolsList.trace = TraceMcp("tools/list", {}, {}, FALSE, FALSE)
          /\ ToolsList.echoed /\ ToolsList.error = {}
      BY DEF ToolsList, Success, Answered
    <3>2. LET trace == TraceMcp("tools/list", {}, {}, FALSE, FALSE)
          IN Len(trace) = 1 /\ Head(trace).failed = FALSE /\ Head(trace).method = "tools/list"
      BY DEF TraceMcp
    <3>3. Len(ToolsList.trace) = 1 /\ Head(ToolsList.trace).failed = (ToolsList.error # {})
          /\ Head(ToolsList.trace).method # "tools/call"
      BY <3>1, <3>2
    <3> QED
      BY <3>1, <3>3, NoneTold
  <2>3. ToldPart(ToolsCall(posted, fleet))
    <3> DEFINE refused == [Failure(INVALID_PARAMS) EXCEPT !.trace = TraceMcp("tools/call", {}, {}, FALSE, TRUE)]
    <3>1. refused.calls = {} /\ refused.trace = TraceMcp("tools/call", {}, {}, FALSE, TRUE)
          /\ refused.echoed /\ refused.error = {INVALID_PARAMS}
      BY DEF Failure, Answered
    <3>2. LET trace == TraceMcp("tools/call", {}, {}, FALSE, TRUE)
          IN Len(trace) = 1 /\ Head(trace).failed = TRUE /\ Head(trace).output = FALSE
      BY DEF TraceMcp
    <3> HIDE DEF refused
    <3>3. ToldPart(refused)
      <4>1. /\ Len(refused.trace) = 1 /\ Head(refused.trace).failed = (refused.error # {})
            /\ Head(refused.trace).output # Head(refused.trace).failed
        BY <3>1, <3>2
      <4> QED
        BY <3>1, <4>1, NoneTold
    <3>4. ToolsCall(posted, fleet) = refused \/ \E tool : ToolsCall(posted, fleet) = CallTool(posted, tool, fleet)
      BY DEF ToolsCall, refused
    <3> QED
      BY <1>3, <3>3, <3>4, CallTold
  <2>4. Dispatch(posted, fleet) \in {Answered(200, {}, TRUE, TRUE), Success, ToolsList,
                                    ToolsCall(posted, fleet), Failure(METHOD_NOT_FOUND)}
    BY DEF Dispatch
  <2> QED
    BY <2>1, <2>2, <2>3, <2>4
<1>4. CASE ~posted.key
  BY <1>1, <1>4 DEF HandlePost
<1>5. CASE posted.key /\ posted.large
  BY <1>1, <1>5 DEF HandlePost
<1>6. CASE posted.key /\ ~posted.large /\ posted.json \in {"broken", "other"}
  BY <1>2, <1>6 DEF HandlePost
<1>7. CASE posted.key /\ ~posted.large /\ posted.json \notin {"broken", "other"}
  <2>1. HandlePost(posted, fleet) = IF posted.id THEN Dispatch(posted, fleet) ELSE Plain(202)
    BY <1>7 DEF HandlePost
  <2> QED
    BY <1>1, <1>3, <1>7, <2>1
<1> QED
  BY <1>4, <1>5, <1>6, <1>7

\* The tools the gateway lists are called at the servers that have them, and the
\* client and the trace are told how each call ended (handle_post, tools_call).
THEOREM ListedHolds == EndpointSpec => []ToolsListedServed
<1>1. EndpointInit => fleet \in Fleets
  BY DEF EndpointInit
<1>2. fleet \in Fleets /\ [UNCHANGED endpointVars]_endpointVars => (fleet \in Fleets)'
  BY DEF endpointVars
<1>3. fleet \in Fleets => ToolsListedServed
  <2>1. ListedPart /\ ToldPart(HandlePost(posted, fleet)) => ToolsListedServed
    BY DEF ToolsListedServed, ListedPart, ToldPart
  <2> QED
    BY <2>1, ListedIs, AnswerTold
<1> QED
  BY <1>1, <1>2, <1>3, PTL DEF EndpointSpec
-----------------------------------------------------------------------------
(* The shape of requests and answers *)

\* A set of numbers that is not empty has a least one.
LEMMA LeastExists ==
    ASSUME NEW S \in SUBSET Nat, S # {}
    PROVE  \E m \in S : \A n \in S : m <= n
<1> DEFINE R == OpToRel(<, Nat)
<1>1. IsWellFoundedOn(R, Nat)
  BY NatLessThanWellFounded
<1>2. \A m, n \in Nat : m < n => <<m, n>> \in R
  BY DEF OpToRel
<1> HIDE DEF R
<1>3. PICK m \in S : \A n \in S : ~(<<n, m>> \in R)
  BY <1>1, WFMin
<1>4. ASSUME NEW n \in S PROVE m <= n
  <2>1. m \in Nat /\ n \in Nat
    OBVIOUS
  <2>2. ~(n < m)
    BY <1>2, <1>3, <2>1, Zenon
  <2>3. QED
    BY <2>1, <2>2
<1>5. QED
  BY <1>4

Below(D, k) == {l \in D : l < k}
Rank(D, k) == Cardinality(Below(D, k))
FirstsOf(D, n) == {k \in D : Rank(D, k) < n}

\* How many keys there are below a key: more, the further on it is.
LEMMA RankGrows ==
    ASSUME NEW D \in SUBSET Nat, IsFiniteSet(D)
    PROVE  /\ \A k \in D : IsFiniteSet(Below(D, k)) /\ Rank(D, k) \in Nat /\ Rank(D, k) <= Cardinality(D)
           /\ \A k, l \in D : k < l => Rank(D, k) < Rank(D, l)
           /\ Cardinality(D) \in Nat
<1>1. ASSUME NEW k \in D
      PROVE  IsFiniteSet(Below(D, k)) /\ Rank(D, k) \in Nat /\ Rank(D, k) <= Cardinality(D)
  <2>1. Below(D, k) \subseteq D
    BY DEF Below
  <2>2. IsFiniteSet(Below(D, k)) /\ Cardinality(Below(D, k)) <= Cardinality(D)
    BY <2>1, FS_Subset
  <2> QED
    BY <2>2, FS_CardinalityType DEF Rank
<1>2. ASSUME NEW k \in D, NEW l \in D, k < l PROVE Rank(D, k) < Rank(D, l)
  <2> DEFINE B == Below(D, k) \cup {k}
  <2>1. k \notin Below(D, k) /\ B \subseteq Below(D, l)
    <3>1. k \in Nat /\ l \in Nat /\ \A x \in D : x \in Nat
      OBVIOUS
    <3>2. \A x \in Below(D, k) : x \in D /\ x < k
      BY DEF Below
    <3>3. \A x \in Below(D, k) : x < l
      <4> TAKE x \in Below(D, k)
      <4>1. x \in Nat /\ x < k
        BY <3>1, <3>2
      <4> QED
        BY <1>2, <3>1, <4>1
    <3>4. k \notin Below(D, k)
      BY <3>1, <3>2
    <3> QED
      BY <1>2, <3>2, <3>3, <3>4 DEF Below
  <2>2. IsFiniteSet(B) /\ Cardinality(B) = Cardinality(Below(D, k)) + 1
    BY <1>1, <2>1, FS_AddElement
  <2> HIDE DEF B
  <2>3. Cardinality(B) <= Cardinality(Below(D, l))
    BY <1>1, <2>1, FS_Subset
  <2> QED
    BY <1>1, <2>2, <2>3 DEF Rank
<1> QED
  BY <1>1, <1>2, FS_CardinalityType

\* The first n of a set: no more than n, and all of it unless there are n before.
LEMMA FirstsAre ==
    ASSUME NEW D \in SUBSET Nat, IsFiniteSet(D), NEW n \in Nat
    PROVE  /\ Cardinality(FirstsOf(D, n)) <= n
           /\ \A k \in D \ FirstsOf(D, n) :
                 Cardinality(FirstsOf(D, n)) = n /\ \A l \in FirstsOf(D, n) : l < k
<1> DEFINE K == FirstsOf(D, n)
<1>1. K \subseteq D /\ \A k \in D : k \in K <=> Rank(D, k) < n
  BY DEF FirstsOf
<1>2. IsFiniteSet(K) /\ Cardinality(K) \in Nat
  <2>1. IsFiniteSet(K)
    BY <1>1, FS_Subset
  <2> QED
    BY <2>1, FS_CardinalityType
<1> HIDE DEF K
<1>3. /\ \A k \in D : IsFiniteSet(Below(D, k)) /\ Rank(D, k) \in Nat /\ Rank(D, k) <= Cardinality(D)
      /\ \A k, l \in D : k < l => Rank(D, k) < Rank(D, l)
      /\ Cardinality(D) \in Nat
  BY RankGrows
<1>4. ASSUME NEW k \in D, k \notin K, NEW l \in K PROVE l < k
  <2>1. l \in Nat /\ k \in Nat /\ l \in D /\ Rank(D, l) < n /\ ~(Rank(D, k) < n)
    BY <1>1, <1>4
  <2>2. CASE k < l
    BY <1>3, <2>1, <2>2
  <2>3. CASE k = l
    BY <2>1, <2>3
  <2> QED
    BY <2>1, <2>2, <2>3
<1>5. Cardinality(K) <= n
  <2>1. CASE K = {}
    BY <2>1, FS_EmptySet
  <2>2. CASE K # {}
    <3> DEFINE left(k) == Cardinality(D) - Rank(D, k)
               Lefts == {left(k) : k \in K}
    <3>1. Lefts \in SUBSET Nat /\ Lefts # {}
      <4>1. \A k \in K : left(k) \in Nat
        BY <1>1, <1>3
      <4> HIDE DEF left
      <4> QED
        BY <2>2, <4>1
    <3>2. PICK m \in Lefts : \A x \in Lefts : m <= x
      <4> HIDE DEF Lefts
      <4> QED
        BY <3>1, LeastExists
    <3>3. PICK k \in K : m = left(k)
      OBVIOUS
    <3>4. \A l \in K : left(k) <= left(l)
      BY <3>2, <3>3
    <3>5. ASSUME NEW l \in K PROVE l \in Below(D, k) \cup {k}
      <4>1. k \in D /\ l \in D /\ k \in Nat /\ l \in Nat
        BY <1>1
      <4>2. ~(k < l)
        BY <1>3, <3>4, <4>1
      <4> QED
        BY <4>1, <4>2 DEF Below
    <3>6. k \in D /\ k \notin Below(D, k) /\ Rank(D, k) < n
      BY <1>1 DEF Below
    <3> DEFINE B == Below(D, k) \cup {k}
    <3>7. IsFiniteSet(B) /\ Cardinality(B) = Rank(D, k) + 1
      BY <1>3, <3>6, FS_AddElement DEF Rank
    <3>8. Cardinality(K) <= Cardinality(B)
      <4>1. K \subseteq B
        BY <3>5
      <4> HIDE DEF B
      <4> QED
        BY <3>7, <4>1, FS_Subset
    <3> HIDE DEF B
    <3> QED
      BY <1>2, <1>3, <3>6, <3>7, <3>8
  <2> QED
    BY <2>1, <2>2
<1>6. ASSUME NEW k \in D, k \notin K PROVE Cardinality(K) = n
  <2> DEFINE U == {x \in D : x \notin K}
  <2>1. U \in SUBSET Nat /\ U # {}
    BY <1>6
  <2>2. PICK u \in U : \A x \in U : u <= x
    <3> HIDE DEF U
    <3> QED
      BY <2>1, LeastExists
  <2>3. u \in D /\ u \notin K /\ u \in Nat
    OBVIOUS
  <2>4. ASSUME NEW x \in Below(D, u) PROVE x \in K
    <3>1. x \in D /\ x < u /\ x \in Nat
      BY DEF Below
    <3>2. x \notin U
      BY <2>2, <2>3, <3>1
    <3> QED
      BY <3>1, <3>2
  <2>5. Cardinality(Below(D, u)) <= Cardinality(K)
    BY <1>2, <2>4, FS_Subset
  <2>6. ~(Rank(D, u) < n) /\ Rank(D, u) \in Nat
    BY <1>1, <1>3, <2>3
  <2> QED
    BY <1>2, <1>5, <2>5, <2>6 DEF Rank
<1> QED
  BY <1>4, <1>5, <1>6 DEF K

\* What the event of a request has of the client's keys.
LEMMA EventIs ==
    ASSUME NEW headers, NEW metadata,
           DOMAIN headers \subseteq Nat, IsFiniteSet(DOMAIN headers),
           DOMAIN metadata \subseteq Nat, IsFiniteSet(DOMAIN metadata)
    PROVE  LET event == CollectMetadata(headers, metadata)
               fromHeader(k) == Keepable(k) /\ Other(headers, k, "opaque") # "opaque"
               fromBody(k) == Keepable(k) /\ Other(metadata, k, "null") # "null"
           IN /\ Cardinality(DOMAIN event) <= MaxKeys
              /\ \A k \in DOMAIN headers \cup DOMAIN metadata :
                    \/ k \in DOMAIN event <=> fromHeader(k) \/ fromBody(k)
                    \/ Cardinality(DOMAIN event) = MaxKeys /\ \A l \in DOMAIN event : l < k
              /\ \A k \in DOMAIN event : /\ fromHeader(k) \/ fromBody(k)
                                         /\ event[k] = Truncate(IF fromHeader(k) THEN headers[k] ELSE metadata[k])
<1> DEFINE event == CollectMetadata(headers, metadata)
           fromHeader(k) == Keepable(k) /\ Other(headers, k, "opaque") # "opaque"
           fromBody(k) == Keepable(k) /\ Other(metadata, k, "null") # "null"
           body == [k \in {k \in DOMAIN metadata : Keepable(k) /\ metadata[k] # "null"} |-> Truncate(metadata[k])]
           header == [k \in {k \in DOMAIN headers : Keepable(k) /\ headers[k] # "opaque"} |-> Truncate(headers[k])]
           D == DOMAIN body \cup DOMAIN header
           K == FirstsOf(D, MaxKeys)
<1>1. DOMAIN header = {k \in DOMAIN headers : Keepable(k) /\ headers[k] # "opaque"}
      /\ DOMAIN body = {k \in DOMAIN metadata : Keepable(k) /\ metadata[k] # "null"}
  OBVIOUS
<1>2. /\ \A k : k \in DOMAIN header <=> fromHeader(k)
      /\ \A k : k \in DOMAIN body <=> fromBody(k)
  BY <1>1 DEF Other
<1>3. D \in SUBSET Nat /\ IsFiniteSet(D)
  <2>1. DOMAIN body \subseteq DOMAIN metadata /\ DOMAIN header \subseteq DOMAIN headers
    BY <1>1
  <2>2. IsFiniteSet(DOMAIN body) /\ IsFiniteSet(DOMAIN header)
    BY <2>1, FS_Subset
  <2>3. IsFiniteSet(D)
    BY <2>2, FS_Union
  <2> QED
    BY <2>1, <2>3
<1>4. event = [k \in K |-> Over(header, body)[k]]
  <2>1. DOMAIN Over(header, body) = D
    BY DEF Over
  <2> QED
    BY <2>1 DEF CollectMetadata, FirstsOf, Rank, Below
<1>5. DOMAIN event = K
  BY <1>4
<1>6. \A k \in D : Over(header, body)[k] = IF k \in DOMAIN header THEN header[k] ELSE body[k]
  BY DEF Over, Other
<1>7. /\ \A k \in DOMAIN header : header[k] = Truncate(headers[k])
      /\ \A k \in DOMAIN body : body[k] = Truncate(metadata[k])
  OBVIOUS
<1>8. K \subseteq D
  BY DEF FirstsOf
<1>9. /\ Cardinality(K) <= MaxKeys
      /\ \A k \in D \ K : Cardinality(K) = MaxKeys /\ \A l \in K : l < k
  <2> HIDE DEF D
  <2> QED
    BY <1>3, FirstsAre, ShapeAssumption
<1>10. \A k : k \in D <=> fromHeader(k) \/ fromBody(k)
  BY <1>2
<1> HIDE DEF D, K, header, body, fromHeader, fromBody
<1>11. \A k \in K : event[k] = Over(header, body)[k]
  BY <1>4
<1> HIDE DEF event
<1>12. ASSUME NEW k \in K
       PROVE  /\ fromHeader(k) \/ fromBody(k)
              /\ event[k] = Truncate(IF fromHeader(k) THEN headers[k] ELSE metadata[k])
  <2>1. k \in D /\ event[k] = IF k \in DOMAIN header THEN header[k] ELSE body[k]
    BY <1>6, <1>8, <1>11
  <2>2. fromHeader(k) \/ fromBody(k)
    BY <1>10, <2>1
  <2> QED
    BY <1>2, <1>7, <2>1, <2>2
<1>13. \A k \in DOMAIN headers \cup DOMAIN metadata :
          \/ k \in K <=> fromHeader(k) \/ fromBody(k)
          \/ Cardinality(K) = MaxKeys /\ \A l \in K : l < k
  BY <1>8, <1>9, <1>10
<1> QED
  BY <1>5, <1>9, <1>12, <1>13 DEF event, fromHeader, fromBody

\* What is sent upstream of a body.
LEMMA ForwardIs ==
    ASSUME NEW r, r.body = [f \in DOMAIN r.body |-> r.body[f]], "model" \in DOMAIN r.body
    PROVE  LET sent == Forward(r)
           IN /\ "metadata" \notin DOMAIN sent.fields
              /\ \A f \in DOMAIN sent.fields \cup DOMAIN r.body :
                    \/ Other(sent.fields, f, "none") = Other(r.body, f, "none")
                    \/ f = "metadata"
                    \/ f = "model" /\ (r.format = "bedrock" \/ sent.fields[f] = ResolveModelAlias(r.body[f]))
                    \/ f = "anthropic_version" /\ r.format = "bedrock" /\ f \notin DOMAIN r.body
              /\ sent.verbatim => sent.fields = r.body
              /\ ~sent.verbatim => r.pii \/ sent.fields # r.body
<1> DEFINE b == r.body
           stripped == StripMetadata(b)
           resolved == ResolveModel(stripped)
           fitting == IF r.format = "bedrock" THEN ForBedrock(resolved) ELSE resolved
           sent == Forward(r)
<1>1. DOMAIN stripped = DOMAIN b \ {"metadata"} /\ \A f \in DOMAIN b \ {"metadata"} : stripped[f] = b[f]
  BY DEF StripMetadata, Without
<1>2. stripped = [f \in DOMAIN stripped |-> stripped[f]]
  BY DEF StripMetadata, Without
<1>3. /\ DOMAIN resolved = DOMAIN b \ {"metadata"}
      /\ resolved["model"] = ResolveModelAlias(b["model"])
      /\ \A f \in DOMAIN b \ {"metadata", "model"} : resolved[f] = b[f]
      /\ resolved = [f \in DOMAIN resolved |-> resolved[f]]
  <2> HIDE DEF stripped
  <2>1. "model" \in DOMAIN stripped /\ stripped["model"] = b["model"]
    BY <1>1
  <2>2. resolved = [f \in DOMAIN stripped |-> IF f = "model" THEN ResolveModelAlias(stripped["model"]) ELSE stripped[f]]
    BY <1>2, <2>1 DEF ResolveModel
  <2> HIDE DEF resolved
  <2> QED
    BY <1>1, <2>1, <2>2
<1>4. /\ sent.fields = fitting
      /\ sent.verbatim <=> /\ ~r.pii /\ r.format # "bedrock" /\ "metadata" \notin DOMAIN b
                           /\ resolved["model"] = b["model"]
  BY DEF Forward
<1>5. CASE r.format = "bedrock"
  <2> DEFINE w == Without(resolved, {"model"})
  <2>1. DOMAIN w = DOMAIN b \ {"metadata", "model"} /\ \A f \in DOMAIN w : w[f] = b[f]
    <3> HIDE DEF resolved
    <3> QED
      BY <1>3 DEF Without
  <2>2. fitting = Over(w, [anthropic_version |-> "bedrock-2023-05-31"])
    BY <1>5 DEF ForBedrock
  <2> HIDE DEF w, fitting, sent
  <2>3. DOMAIN fitting = DOMAIN w \cup {"anthropic_version"} /\ \A f \in DOMAIN w : fitting[f] = w[f]
    BY <2>2 DEF Over, Other
  <2>4. "model" \in DOMAIN b /\ "model" \notin DOMAIN fitting
    BY <2>1, <2>3
  <2>5. ~sent.verbatim /\ fitting # b
    BY <1>4, <1>5, <2>4
  <2>6. \A f \in DOMAIN fitting \cup DOMAIN b :
           \/ f \in DOMAIN fitting /\ f \in DOMAIN b /\ fitting[f] = b[f]
           \/ f = "metadata" \/ f = "model"
           \/ f = "anthropic_version" /\ f \notin DOMAIN b
    BY <2>1, <2>3
  <2>7. "metadata" \notin DOMAIN fitting
    BY <2>1, <2>3
  <2> QED
    BY <1>4, <1>5, <2>5, <2>6, <2>7 DEF Other, sent
<1>6. CASE r.format # "bedrock"
  <2>1. fitting = resolved
    BY <1>6
  <2> HIDE DEF fitting, resolved, sent
  <2>2. sent.verbatim => resolved = b
    <3> SUFFICES ASSUME sent.verbatim PROVE resolved = b
      OBVIOUS
    <3>1. DOMAIN resolved = DOMAIN b /\ \A f \in DOMAIN b : resolved[f] = b[f]
      BY <1>3, <1>4
    <3>2. b = [f \in DOMAIN b |-> b[f]] /\ resolved = [f \in DOMAIN resolved |-> resolved[f]]
      BY <1>3
    <3> QED
      BY <3>1, <3>2
  <2>3. ~sent.verbatim => r.pii \/ resolved # b
    BY <1>3, <1>4, <1>6
  <2>4. \A f \in DOMAIN resolved \cup DOMAIN b :
           \/ f \in DOMAIN resolved /\ f \in DOMAIN b /\ resolved[f] = b[f]
           \/ f = "metadata"
           \/ f = "model" /\ resolved[f] = ResolveModelAlias(b[f])
    BY <1>3
  <2>5. "metadata" \notin DOMAIN resolved
    BY <1>3
  <2> QED
    BY <1>4, <2>1, <2>2, <2>3, <2>4, <2>5 DEF Other, sent
<1> QED
  BY <1>5, <1>6

\* Attribution goes to the event and not upstream.
LEMMA AttributionHolds ==
    ASSUME asks \in AttributedRequests PROVE AttributionKept
<1>1. /\ asks.body = [f \in DOMAIN asks.body |-> asks.body[f]] /\ "model" \in DOMAIN asks.body
      /\ DOMAIN asks.headers \subseteq Nat /\ IsFiniteSet(DOMAIN asks.headers)
      /\ "metadata" \in DOMAIN asks.body => DOMAIN asks.metadata \subseteq Nat /\ IsFiniteSet(DOMAIN asks.metadata)
  BY ShapeAssumption
<1> DEFINE meta == Metadata(asks)  headers == asks.headers  event == EventMetadata(asks)
<1>2. DOMAIN meta \subseteq Nat /\ IsFiniteSet(DOMAIN meta)
  <2>1. CASE "metadata" \in DOMAIN asks.body
    BY <1>1, <2>1 DEF Metadata
  <2>2. CASE "metadata" \notin DOMAIN asks.body
    <3>1. DOMAIN meta = {}
      BY <2>2 DEF Metadata
    <3> QED
      BY <3>1, FS_EmptySet
  <2> QED
    BY <2>1, <2>2
<1>3. \A k : Other(meta, k, "null") # "null" => "metadata" \in DOMAIN asks.body /\ meta = asks.metadata
  <2>1. "metadata" \in DOMAIN asks.body => meta = asks.metadata
    BY DEF Metadata
  <2>2. "metadata" \notin DOMAIN asks.body => DOMAIN meta = {}
    BY DEF Metadata
  <2> HIDE DEF meta
  <2> QED
    BY <2>1, <2>2 DEF Other
<1>4. event = CollectMetadata(headers, meta)
  BY DEF EventMetadata
<1> DEFINE fromHeader(k) == Keepable(k) /\ Other(headers, k, "opaque") # "opaque"
           fromBody(k) == Keepable(k) /\ Other(meta, k, "null") # "null"
<1> HIDE DEF meta, event
<1>5. /\ Cardinality(DOMAIN event) <= MaxKeys
      /\ \A k \in DOMAIN headers \cup DOMAIN meta :
            \/ k \in DOMAIN event <=> fromHeader(k) \/ fromBody(k)
            \/ Cardinality(DOMAIN event) = MaxKeys /\ \A l \in DOMAIN event : l < k
      /\ \A k \in DOMAIN event : /\ fromHeader(k) \/ fromBody(k)
                                 /\ event[k] = Truncate(IF fromHeader(k) THEN headers[k] ELSE meta[k])
  BY <1>1, <1>2, <1>4, EventIs
<1>6. \A k \in DOMAIN event : event[k] = Truncate(IF fromHeader(k) THEN headers[k] ELSE asks.metadata[k])
  BY <1>3, <1>5
<1> DEFINE sent == Forward(asks)
<1>7. /\ "metadata" \notin DOMAIN sent.fields
      /\ \A f \in DOMAIN sent.fields \cup DOMAIN asks.body :
            \/ Other(sent.fields, f, "none") = Other(asks.body, f, "none")
            \/ f = "metadata"
            \/ f = "model" /\ (asks.format = "bedrock" \/ sent.fields[f] = ResolveModelAlias(asks.body[f]))
            \/ f = "anthropic_version" /\ asks.format = "bedrock" /\ f \notin DOMAIN asks.body
      /\ sent.verbatim => sent.fields = asks.body
      /\ ~sent.verbatim => asks.pii \/ sent.fields # asks.body
  BY <1>1, ForwardIs
<1> HIDE DEF sent
<1> QED
  BY <1>5, <1>6, <1>7 DEF AttributionKept, meta, event, sent

\* The client gets its own texts back, and is told what is wrong.
LEMMA ToldHolds == answer \in BufferedResponses => ClientIsTold
<1>0. SUFFICES ASSUME answer \in BufferedResponses PROVE ClientIsTold
  OBVIOUS
<1>1. LET seen == Relayed(answer)
      IN /\ answer.pii /\ answer.json /\ answer.entities > 0 => seen.text # "hidden"
         /\ \A block \in seen.debug : block.raw_response_text = answer.text
         /\ ~answer.pii => seen = [text |-> answer.text, debug |-> {}]
  <2> DEFINE seen == Relayed(answer)
             block0 == DebugBlock(answer)
  <2>1. block0.raw_response_text = answer.text
    BY DEF DebugBlock
  <2>2. ~answer.pii => ~RestoresBody(answer) /\ ~WithDebug(answer)
    BY DEF RestoresBody, WithDebug
  <2>3. answer.pii /\ answer.json /\ answer.entities > 0 => RestoresBody(answer) /\ answer.json
    BY DEF RestoresBody
  <2>4. CASE answer.json /\ (RestoresBody(answer) \/ WithDebug(answer))
    <3>1. seen = [text |-> IF RestoresBody(answer) /\ answer.text = "hidden" THEN "clear" ELSE answer.text,
                  debug |-> IF WithDebug(answer) THEN {block0} ELSE {}]
      BY <2>4 DEF Relayed
    <3> HIDE DEF seen, block0
    <3>2. /\ seen.text = IF RestoresBody(answer) /\ answer.text = "hidden" THEN "clear" ELSE answer.text
          /\ seen.debug = IF WithDebug(answer) THEN {block0} ELSE {}
      BY <3>1
    <3> QED
      BY <2>1, <2>2, <2>3, <2>4, <3>2 DEF seen
  <2>5. CASE ~(answer.json /\ (RestoresBody(answer) \/ WithDebug(answer)))
    <3>1. seen = [text |-> answer.text, debug |-> {}]
      BY <2>5 DEF Relayed
    <3>2. seen.debug = {}
      BY <3>1
    <3> HIDE DEF seen
    <3> QED
      BY <2>3, <2>5, <3>1, <3>2 DEF seen
  <2> QED
    BY <2>4, <2>5
<1>2. ASSUME NEW error \in Errors, NEW endpoint \in {"messages", "chat_completions"}
      PROVE  LET told == IntoResponse(error, endpoint)
             IN /\ told.status = 429 <=> "retry-after" \in told.headers
                /\ told.status = 429 <=> "rate_limit_error" \in told.body
                /\ told.status >= 500 <=> {"api_error", "upstream_error"} \cap told.body # {}
  <2> DEFINE e == ProxyError(error)  told == IntoResponse(error, endpoint)
  <2>1. /\ e.status = 429 <=> error \in {"RateLimited", "BudgetExhausted"}
        /\ e.status \in Nat /\ (e.status >= 500 <=> error \in {"PiiUnavailable", "Upstream"})
        /\ e.type = "rate_limit_error" <=> e.status = 429
        /\ e.anthropic = "rate_limit_error" <=> e.status = 429
        /\ e.code # "rate_limit_error" /\ e.code # "api_error"
        /\ e.type \in {"api_error", "upstream_error"} <=> e.status >= 500
        /\ e.anthropic = "api_error" <=> e.status >= 500
        /\ e.anthropic # "upstream_error" /\ (e.code = "upstream_error" => e.status >= 500)
    <3>1. CASE error \in {"RateLimited", "BudgetExhausted"}
      <4>1. PICK code \in {"rate_limit_exceeded", "insufficient_budget"} :
               e = Wire(429, "rate_limit_error", code, "rate_limit_error")
        <5>1. CASE error = "RateLimited"
          <6>1. e = Wire(429, "rate_limit_error", "rate_limit_exceeded", "rate_limit_error")
            BY <5>1 DEF ProxyError
          <6> QED
            BY <6>1, Zenon
        <5>2. CASE error = "BudgetExhausted"
          <6>1. e = Wire(429, "rate_limit_error", "insufficient_budget", "rate_limit_error")
            BY <5>2 DEF ProxyError
          <6> QED
            BY <6>1, Zenon
        <5> QED
          BY <3>1, <5>1, <5>2
      <4> HIDE DEF e
      <4> QED
        BY <3>1, <4>1 DEF Wire
    <3>2. CASE error = "PiiUnavailable"
      <4>1. e = Wire(503, "api_error", "pii_unavailable", "api_error")
        BY <3>2 DEF ProxyError
      <4> HIDE DEF e
      <4> QED
        BY <3>2, <4>1 DEF Wire
    <3>3. CASE error = "Upstream"
      <4>1. e = Wire(502, "upstream_error", "upstream_error", "api_error")
        BY <3>3 DEF ProxyError
      <4> HIDE DEF e
      <4> QED
        BY <3>3, <4>1 DEF Wire
    <3>4. CASE error \notin {"RateLimited", "BudgetExhausted", "PiiUnavailable", "Upstream"}
      <4> DEFINE Quiet(w) ==
            /\ w.status \in Nat /\ w.status < 429
            /\ w.type = Invalid /\ w.anthropic \notin {"rate_limit_error", "api_error", "upstream_error"}
            /\ w.code \notin {"rate_limit_error", "api_error", "upstream_error"}
      <4>1. Quiet(e)
        <5>1. CASE error = "MissingKey"
          BY <5>1 DEF ProxyError, Wire, Invalid
        <5>2. CASE error = "UnknownKey"
          BY <5>2 DEF ProxyError, Wire, Invalid
        <5>3. CASE error = "ModelNotAllowed"
          BY <5>3 DEF ProxyError, Wire, Invalid
        <5>4. CASE error = "UnknownModel"
          BY <5>4 DEF ProxyError, Wire, Invalid
        <5>5. CASE error = "MissingModel"
          BY <5>5 DEF ProxyError, Wire, Invalid
        <5>6. CASE error = "BodyTooLarge"
          BY <5>6 DEF ProxyError, Wire, Invalid
        <5>7. CASE error = "FormatMismatch"
          BY <5>7 DEF ProxyError, Wire, Invalid
        <5>8. CASE error = "InvalidPiiHeader"
          BY <5>8 DEF ProxyError, Wire, Invalid
        <5>9. CASE error = "GuardrailBlocked"
          BY <5>9 DEF ProxyError, Wire, Invalid
        <5> QED
          BY <3>4, <5>1, <5>2, <5>3, <5>4, <5>5, <5>6, <5>7, <5>8, <5>9 DEF Errors
      <4> HIDE DEF e
      <4> QED
        BY <3>4, <4>1 DEF Invalid
    <3> QED
      BY <3>1, <3>2, <3>3, <3>4
  <2>2. "retry-after" \in RateLimitHeaders(error) <=> error \in {"RateLimited", "BudgetExhausted"}
    BY DEF RateLimitHeaders
  <2> HIDE DEF e
  <2>3. /\ told.status = e.status /\ told.headers = RateLimitHeaders(error)
        /\ told.body = IF endpoint = "messages" THEN {e.anthropic} ELSE {e.type, e.code}
    BY DEF IntoResponse, e
  <2> HIDE DEF told
  <2> QED
    BY <2>1, <2>2, <2>3 DEF told
<1>3. answer.error \subseteq Errors
  BY <1>0, AnswerAssumption
<1> QED
  BY <1>1, <1>2, <1>3 DEF ClientIsTold

\* Of a request and its answer, only what must be is changed.
THEOREM ShapeHolds == ShapeSpec => []ShapeKept
<1> DEFINE Inv == asks \in AttributedRequests /\ answer \in BufferedResponses
<1>1. AsksInit /\ AnswerInit => Inv
  BY DEF AsksInit, AnswerInit
<1>2. Inv /\ [UNCHANGED shapeVars]_shapeVars => Inv'
  BY DEF shapeVars
<1>3. Inv => ShapeKept
  BY AttributionHolds, ToldHolds DEF ShapeKept
<1> QED
  BY <1>1, <1>2, <1>3, PTL DEF ShapeSpec
=============================================================================
