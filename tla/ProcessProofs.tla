---------------------------- MODULE ProcessProofs ----------------------------
(***************************************************************************)
(* From the configuration file to the exit.  For any number of requests    *)
(* and any capacity of the trace channel: a gateway serves with all its    *)
(* configuration asks for, and a graceful stop leaves no trace line and no *)
(* telemetry of a request behind (Lifecycle).  For any documents, edits    *)
(* and environments: the pages leave a file that starts again, a copy of   *)
(* the one they replaced, and nothing in it that differs from what runs    *)
(* but what a page has named or a reload is to load; and a form saved as   *)
(* it is shown leaves what the file means (Configuration).                 *)
(***************************************************************************)
EXTENDS Lifecycle, Configuration, TLAPS

Starting == {"args", "load", "check", "telemetry", "gate", "build", "bind"}
Serving == {"serving", "draining", "flush traces", "flush telemetry"}

Lines == [queued : Nat, written : Nat, dropped : Nat]
Telemetry == [held : Nat, exported : Nat, lost : Nat]
Rows == [waiting : Nat, stored : Nat]

TypePart ==
    /\ command \in {"run", "validate", "hash", "none"}
    /\ wanted \in SUBSET Features
    /\ mainAt \in Starting \cup Serving \cup {"exit"}
    /\ exitCode \in SUBSET {0, 1, 2}
    /\ running \in SUBSET (Features \cup {"delivery log"})
    /\ openCalls \in Nat /\ endedCalls \in Nat /\ tracedCalls \in Nat /\ toldCalls \in Nat
    /\ traceLines \in Lines /\ telemetry \in Telemetry /\ rowTasks \in Rows

\* What has come to work by each phase of the start.
RunningPart ==
    /\ mainAt \in {"args", "load", "check", "telemetry"} => running = {}
    /\ mainAt \in {"gate", "build"} =>
          /\ "otel" \in running <=> "otel" \in wanted
          /\ running \subseteq {"otel", "history"}
          /\ "history" \in running => "ui" \in wanted
    /\ mainAt \in {"bind"} \cup Serving =>
          /\ \A f \in {"otel", "tracing", "events", "ui"} : f \in running <=> f \in wanted
          /\ "history" \in running => "ui" \in wanted
          /\ "delivery log" \in running <=> "events" \in running /\ "history" \in running

\* Nothing is served, queued or held before the gateway listens.
IdlePart ==
    mainAt \in Starting =>
        /\ openCalls = 0 /\ endedCalls = 0 /\ tracedCalls = 0 /\ toldCalls = 0
        /\ traceLines.queued = 0 /\ traceLines.written = 0 /\ traceLines.dropped = 0
        /\ telemetry.held = 0 /\ telemetry.exported = 0 /\ telemetry.lost = 0
        /\ rowTasks.waiting = 0 /\ rowTasks.stored = 0

\* Every request that has ended is somewhere.
CountPart ==
    mainAt \in Serving =>
        /\ traceLines.queued + traceLines.written + traceLines.dropped
             = (IF "tracing" \in wanted THEN tracedCalls ELSE 0)
        /\ telemetry.held + telemetry.exported + telemetry.lost
             = (IF "otel" \in wanted THEN toldCalls ELSE 0)
        /\ rowTasks.waiting + rowTasks.stored <= toldCalls

\* The order of the stop.
StopPart ==
    /\ mainAt \in {"flush traces", "flush telemetry", "exit"} => openCalls = 0
    /\ mainAt = "flush telemetry" => traceLines.queued = 0

\* What a stop leaves behind.
LeftPart ==
    mainAt = "exit" /\ endedCalls > 0 =>
        /\ exitCode = {0}
        /\ traceLines.written + traceLines.dropped = (IF "tracing" \in wanted THEN tracedCalls ELSE 0)
        /\ telemetry.exported + telemetry.lost = (IF "otel" \in wanted THEN toldCalls ELSE 0)
        /\ rowTasks.stored <= toldCalls

IInv == TypePart /\ RunningPart /\ IdlePart /\ CountPart /\ StopPart /\ LeftPart

LEMMA InitHolds == LifeInit => IInv
<1> SUFFICES ASSUME LifeInit PROVE IInv
  OBVIOUS
<1>1. TypePart
  BY DEF LifeInit, TypePart, Starting, Serving, Features, Lines, Telemetry, Rows
<1>2. RunningPart /\ IdlePart /\ CountPart /\ StopPart /\ LeftPart
  BY DEF LifeInit, RunningPart, IdlePart, CountPart, StopPart, LeftPart, Starting, Serving
<1>3. QED
  BY <1>1, <1>2 DEF IInv

\* A step of the start goes on to a later phase, or to the exit.
LEMMA StartSteps ==
    ASSUME IInv, StartUp
    PROVE  /\ mainAt \in Starting /\ mainAt' \in Starting \cup {"serving", "exit"}
           /\ exitCode' \in SUBSET {0, 1, 2}
           /\ running' \in SUBSET (Features \cup {"delivery log"})
           /\ RunningPart'
<1> USE DEF Starting
<1>1. /\ exitCode \in SUBSET {0, 1, 2} /\ wanted \in SUBSET Features
      /\ running \in SUBSET (Features \cup {"delivery log"}) /\ RunningPart
  BY DEF IInv, TypePart
<1>2. CASE ReadArguments
  <2>1. CASE Proceed("args", "load", {})
    BY <1>1, <2>1 DEF Proceed, RunningPart, Serving
  <2>2. CASE mainAt = "args" /\ \E code \in {0, 1, 2} : ExitWith(code)
    BY <1>1, <2>2 DEF ExitWith, RunningPart, Serving
  <2>3. QED
    BY <1>2, <2>1, <2>2 DEF ReadArguments
<1>3. CASE LoadConfig
  <2>1. CASE Proceed("load", IF command = "validate" THEN "check" ELSE "telemetry", {})
    BY <1>1, <2>1 DEF Proceed, RunningPart, Serving
  <2>2. CASE mainAt = "load" /\ ExitWith(1)
    BY <1>1, <2>2 DEF ExitWith, RunningPart, Serving
  <2>3. QED
    BY <1>3, <2>1, <2>2 DEF LoadConfig
<1>4. CASE ValidateConfig
  BY <1>1, <1>4 DEF ValidateConfig, ExitWith, RunningPart, Serving
<1>5. CASE InitTelemetry
  <2>1. CASE Proceed("telemetry", "gate", wanted \cap {"otel"})
    BY <1>1, <2>1 DEF Proceed, RunningPart, Serving, Features
  <2>2. CASE mainAt = "telemetry" /\ ExitWith(1)
    BY <1>1, <2>2 DEF ExitWith, RunningPart, Serving
  <2>3. QED
    BY <1>5, <2>1, <2>2 DEF InitTelemetry
<1>6. CASE ConnectHistory
  <2>1. CASE {"ui", "history"} \subseteq wanted /\ Proceed("gate", "build", {"history"})
    BY <1>1, <2>1 DEF Proceed, RunningPart, Serving, Features
  <2>2. CASE Proceed("gate", "build", {})
    BY <1>1, <2>2 DEF Proceed, RunningPart, Serving, Features
  <2>3. QED
    BY <1>6, <2>1, <2>2 DEF ConnectHistory
<1>7. CASE BuildState
  <2>1. CASE mainAt = "build" /\ ExitWith(1)
    BY <1>1, <2>1 DEF ExitWith, RunningPart, Serving
  <2>2. CASE Proceed("build", "bind",
                (wanted \cap {"tracing", "events", "ui"})
                  \cup (IF {"events"} \subseteq wanted /\ "history" \in running THEN {"delivery log"} ELSE {}))
    <3>1. mainAt = "build" /\ mainAt' = "bind" /\ wanted' = wanted /\ exitCode' = exitCode
      BY <2>2 DEF Proceed
    <3>2. \A x : x \in running' <=>
             \/ x \in running
             \/ x \in wanted /\ x \in {"tracing", "events", "ui"}
             \/ x = "delivery log" /\ "events" \in wanted /\ "history" \in running
      <4>1. running' = running \cup ((wanted \cap {"tracing", "events", "ui"})
                \cup (IF {"events"} \subseteq wanted /\ "history" \in running THEN {"delivery log"} ELSE {}))
        BY <2>2 DEF Proceed
      <4>2. CASE "events" \in wanted /\ "history" \in running
        BY <4>1, <4>2
      <4>3. CASE ~("events" \in wanted /\ "history" \in running)
        BY <4>1, <4>3
      <4>4. QED
        BY <4>2, <4>3
    <3>3. RunningPart'
      <4>1. /\ "otel" \in running <=> "otel" \in wanted
            /\ \A x \in running : x \in {"otel", "history"}
            /\ "history" \in running => "ui" \in wanted
        BY <1>1, <3>1 DEF RunningPart
      <4>2. /\ \A f \in {"otel", "tracing", "events", "ui"} : f \in running' <=> f \in wanted'
            /\ "history" \in running' => "ui" \in wanted'
            /\ "delivery log" \in running' <=> "events" \in running' /\ "history" \in running'
        <5>1. "otel" \in running' <=> "otel" \in wanted
          BY <3>2, <4>1
        <5>2. \A f \in {"tracing", "events", "ui"} : f \in running' <=> f \in wanted
          <6>1. "tracing" \notin running /\ "events" \notin running
            BY <4>1
          <6>2. "ui" \notin running
            BY <4>1
          <6>3. QED
            BY <3>2, <6>1, <6>2
        <5>3. "history" \in running' <=> "history" \in running
          BY <3>2
        <5>4. "delivery log" \in running' <=> "events" \in wanted /\ "history" \in running
          <6>1. "delivery log" \notin running
            BY <4>1
          <6>2. QED
            BY <3>2, <6>1
        <5>5. QED
          BY <3>1, <4>1, <5>1, <5>2, <5>3, <5>4
      <4>3. QED
        BY <3>1, <4>2 DEF RunningPart
    <3>4. running' \in SUBSET (Features \cup {"delivery log"})
      BY <1>1, <3>2
    <3>5. QED
      BY <1>1, <3>1, <3>3, <3>4
  <2>3. QED
    BY <1>7, <2>1, <2>2 DEF BuildState
<1>8. CASE Bind
  <2>1. CASE Proceed("bind", "serving", {})
    <3>1. mainAt = "bind" /\ mainAt' = "serving" /\ wanted' = wanted /\ exitCode' = exitCode /\ running' = running
      BY <2>1 DEF Proceed
    <3>2. RunningPart'
      BY <1>1, <3>1 DEF RunningPart, Serving
    <3>3. QED
      BY <1>1, <3>1, <3>2
  <2>2. CASE mainAt = "bind" /\ ExitWith(1)
    BY <1>1, <2>2 DEF ExitWith, RunningPart, Serving
  <2>3. QED
    BY <1>8, <2>1, <2>2 DEF Bind
<1>9. QED
  BY <1>2, <1>3, <1>4, <1>5, <1>6, <1>7, <1>8 DEF StartUp

LEMMA StartKeeps == ASSUME IInv, StartUp PROVE IInv'
<1>1. /\ command' = command /\ wanted' = wanted /\ openCalls' = openCalls /\ UNCHANGED <<endedCalls, tracedCalls, toldCalls>>
      /\ traceLines' = traceLines /\ telemetry' = telemetry /\ rowTasks' = rowTasks
  BY DEF StartUp, ReadArguments, LoadConfig, ValidateConfig, InitTelemetry, ConnectHistory, BuildState, Bind,
         Proceed, ExitWith, calls
<1>2. /\ mainAt \in Starting /\ mainAt' \in Starting \cup {"serving", "exit"}
      /\ exitCode' \in SUBSET {0, 1, 2} /\ running' \in SUBSET (Features \cup {"delivery log"})
  BY StartSteps
<1>3. TypePart'
  BY <1>1, <1>2 DEF IInv, TypePart, Serving
<1>4. /\ openCalls' = 0 /\ endedCalls' = 0 /\ tracedCalls' = 0 /\ toldCalls' = 0
      /\ traceLines'.queued = 0 /\ traceLines'.written = 0 /\ traceLines'.dropped = 0
      /\ telemetry'.held = 0 /\ telemetry'.exported = 0 /\ telemetry'.lost = 0
      /\ rowTasks'.waiting = 0 /\ rowTasks'.stored = 0
  BY <1>1, <1>2 DEF IInv, IdlePart
<1>5. IdlePart'
  BY <1>4 DEF IdlePart
<1>6. CountPart'
  BY <1>4 DEF CountPart
<1>7. StopPart' /\ LeftPart'
  BY <1>4 DEF StopPart, LeftPart
<1>8. QED
  BY <1>3, <1>5, <1>6, <1>7, StartSteps DEF IInv

\* While main waits, the parts that do not speak of what changes stay as they are.
LEMMA FrameKeeps ==
    ASSUME IInv, UNCHANGED <<process, mainAt>> PROVE RunningPart'
BY DEF IInv, RunningPart, process

\* A request begins before the stop and, like the rest of the work, after the start.
LEMMA AcceptKeeps == ASSUME IInv, Accept PROVE IInv'
<1>1. /\ mainAt = "serving" /\ openCalls' = openCalls + 1
      /\ UNCHANGED <<process, mainAt, endedCalls, tracedCalls, toldCalls, traceLines, telemetry, rowTasks>>
  BY DEF Accept
<1>2. TypePart'
  <2>1. openCalls \in Nat
    BY DEF IInv, TypePart
  <2>2. openCalls' \in Nat
    BY <1>1, <2>1
  <2>3. QED
    BY <1>1, <2>2 DEF IInv, TypePart, process
<1>3. IdlePart' /\ CountPart' /\ StopPart' /\ LeftPart'
  <2>1. CountPart'
    BY <1>1 DEF IInv, CountPart, process
  <2>2. QED
    BY <1>1, <2>1 DEF IdlePart, StopPart, LeftPart, Starting, Serving
<1>4. QED
  BY <1>1, <1>2, <1>3, FrameKeeps DEF IInv

LEMMA EndCallKeeps == ASSUME IInv, EndCall PROVE IInv'
<1>1. /\ openCalls > 0 /\ openCalls' = openCalls - 1 /\ endedCalls' = endedCalls + 1
      /\ UNCHANGED <<command, wanted, exitCode, running, mainAt>>
  BY DEF EndCall, process
<1>2. mainAt \in {"serving", "draining"}
  <2>1. mainAt \in Starting \cup Serving \cup {"exit"}
    BY DEF IInv, TypePart
  <2>2. mainAt \notin Starting
    BY <1>1 DEF IInv, IdlePart
  <2>3. mainAt \notin {"flush traces", "flush telemetry", "exit"}
    <3>1. openCalls # 0
      BY <1>1
    <3>2. QED
      BY <3>1 DEF IInv, StopPart
  <2>4. QED
    BY <2>1, <2>2, <2>3 DEF Serving
<1>3. /\ traceLines \in Lines /\ telemetry \in Telemetry /\ rowTasks \in Rows
      /\ openCalls \in Nat /\ endedCalls \in Nat /\ tracedCalls \in Nat /\ toldCalls \in Nat
  BY DEF IInv, TypePart
<1>4. ("tracing" \in running <=> "tracing" \in wanted) /\ ("otel" \in running <=> "otel" \in wanted)
  BY <1>2 DEF IInv, RunningPart, Serving, Features
<1>5. /\ traceLines.queued + traceLines.written + traceLines.dropped
           = (IF "tracing" \in wanted THEN tracedCalls ELSE 0)
      /\ telemetry.held + telemetry.exported + telemetry.lost
           = (IF "otel" \in wanted THEN toldCalls ELSE 0)
      /\ rowTasks.waiting + rowTasks.stored <= toldCalls
  BY <1>2 DEF IInv, CountPart, Serving
<1>6. ASSUME QueueTraceLine
      PROVE  /\ traceLines' \in Lines
             /\ traceLines'.queued + traceLines'.written + traceLines'.dropped
                  = (IF "tracing" \in wanted THEN tracedCalls + 1 ELSE 0)
  <2>1. CASE "tracing" \notin running
    <3>1. traceLines' = traceLines
      BY <1>6, <2>1 DEF QueueTraceLine
    <3>2. QED
      BY <1>3, <1>4, <1>5, <2>1, <3>1
  <2>2. CASE "tracing" \in running /\ traceLines.queued < TraceRoom
    <3>1. traceLines' = [traceLines EXCEPT !.queued = @ + 1]
      BY <1>6, <2>2 DEF QueueTraceLine
    <3>2. /\ traceLines' \in Lines /\ traceLines'.queued = traceLines.queued + 1
          /\ traceLines'.written = traceLines.written /\ traceLines'.dropped = traceLines.dropped
      BY <1>3, <3>1 DEF Lines
    <3>3. traceLines.queued \in Nat /\ traceLines.written \in Nat /\ traceLines.dropped \in Nat
      BY <1>3 DEF Lines
    <3>4. QED
      BY <1>3, <1>4, <1>5, <2>2, <3>2, <3>3
  <2>3. CASE "tracing" \in running /\ ~(traceLines.queued < TraceRoom)
    <3>1. traceLines' = [traceLines EXCEPT !.dropped = @ + 1]
      BY <1>6, <2>3 DEF QueueTraceLine
    <3>2. /\ traceLines' \in Lines /\ traceLines'.dropped = traceLines.dropped + 1
          /\ traceLines'.queued = traceLines.queued /\ traceLines'.written = traceLines.written
      BY <1>3, <3>1 DEF Lines
    <3>3. traceLines.queued \in Nat /\ traceLines.written \in Nat /\ traceLines.dropped \in Nat
      BY <1>3 DEF Lines
    <3>4. QED
      BY <1>3, <1>4, <1>5, <2>3, <3>2, <3>3
  <2>4. QED
    BY <2>1, <2>2, <2>3
<1>7. ASSUME EndTold
      PROVE  /\ telemetry' \in Telemetry
             /\ telemetry'.held + telemetry'.exported + telemetry'.lost
                  = (IF "otel" \in wanted THEN toldCalls + 1 ELSE 0)
  <2>1. telemetry' = IF "otel" \in running THEN [telemetry EXCEPT !.held = @ + 1] ELSE telemetry
    BY <1>7 DEF EndTold
  <2>2. telemetry.held \in Nat /\ telemetry.exported \in Nat /\ telemetry.lost \in Nat
    BY <1>3 DEF Telemetry
  <2>3. CASE "otel" \in running
    <3>1. /\ telemetry' \in Telemetry /\ telemetry'.held = telemetry.held + 1
          /\ telemetry'.exported = telemetry.exported /\ telemetry'.lost = telemetry.lost
      BY <1>3, <2>1, <2>3 DEF Telemetry
    <3>2. QED
      BY <1>3, <1>4, <1>5, <2>2, <2>3, <3>1
  <2>4. QED
    BY <1>3, <1>4, <1>5, <2>1, <2>3
<1>8. ASSUME EndTold
      PROVE  /\ rowTasks' \in Rows
             /\ rowTasks'.waiting + rowTasks'.stored <= toldCalls + 1
  <2>1. rowTasks' = IF "history" \in running THEN [rowTasks EXCEPT !.waiting = @ + 1] ELSE rowTasks
    BY <1>8 DEF EndTold
  <2>2. rowTasks.waiting \in Nat /\ rowTasks.stored \in Nat
    BY <1>3 DEF Rows
  <2>3. CASE "history" \in running
    <3>1. rowTasks' \in Rows /\ rowTasks'.waiting = rowTasks.waiting + 1 /\ rowTasks'.stored = rowTasks.stored
      BY <1>3, <2>1, <2>3 DEF Rows
    <3>2. QED
      BY <1>3, <1>5, <2>2, <3>1
  <2>4. QED
    BY <1>3, <1>5, <2>1, <2>2, <2>3
\* What was told is counted, however a request ends.
<1>9. /\ traceLines' \in Lines /\ telemetry' \in Telemetry /\ rowTasks' \in Rows
      /\ tracedCalls' \in Nat /\ toldCalls' \in Nat
      /\ traceLines'.queued + traceLines'.written + traceLines'.dropped
           = (IF "tracing" \in wanted THEN tracedCalls' ELSE 0)
      /\ telemetry'.held + telemetry'.exported + telemetry'.lost
           = (IF "otel" \in wanted THEN toldCalls' ELSE 0)
      /\ rowTasks'.waiting + rowTasks'.stored <= toldCalls'
  <2>1. CASE EndUntold
    BY <1>3, <1>5, <2>1 DEF EndUntold
  <2>2. CASE EndTraced
    <3>1. QueueTraceLine /\ tracedCalls' = tracedCalls + 1 /\ UNCHANGED <<toldCalls, telemetry, rowTasks>>
      BY <2>2 DEF EndTraced
    <3>2. QED
      BY <1>3, <1>5, <1>6, <3>1
  <2>3. CASE EndTold
    <3>1. QueueTraceLine /\ tracedCalls' = tracedCalls + 1 /\ toldCalls' = toldCalls + 1
      BY <2>3 DEF EndTold
    <3>2. QED
      BY <1>3, <1>6, <1>7, <1>8, <2>3, <3>1
  <2>4. QED
    BY <2>1, <2>2, <2>3 DEF EndCall
<1>10. TypePart'
  <2>1. openCalls' \in Nat /\ endedCalls' \in Nat
    BY <1>1, <1>3
  <2>2. QED
    BY <1>1, <1>9, <2>1 DEF IInv, TypePart
<1>11. CountPart'
  BY <1>1, <1>9 DEF CountPart
<1>12. IdlePart' /\ StopPart' /\ LeftPart'
  BY <1>1, <1>2 DEF IdlePart, StopPart, LeftPart, Starting
<1>13. RunningPart'
  BY <1>1, FrameKeeps DEF process
<1>14. QED
  BY <1>10, <1>11, <1>12, <1>13 DEF IInv

\* The sum of what is held, exported and lost does not change by an export.
LEMMA ExportKeepsSum ==
    ASSUME telemetry \in Telemetry, Export
    PROVE  /\ telemetry' \in Telemetry
           /\ telemetry'.held = 0
           /\ telemetry'.exported + telemetry'.lost = telemetry.held + telemetry.exported + telemetry.lost
<1>1. telemetry.held \in Nat /\ telemetry.exported \in Nat /\ telemetry.lost \in Nat
  BY DEF Telemetry
<1>2. CASE telemetry' = [telemetry EXCEPT !.held = 0, !.exported = @ + telemetry.held]
  <2>1. /\ telemetry' \in Telemetry /\ telemetry'.held = 0
        /\ telemetry'.exported = telemetry.exported + telemetry.held /\ telemetry'.lost = telemetry.lost
    <3>1. telemetry.exported + telemetry.held \in Nat
      BY <1>1
    <3>2. telemetry' = [telemetry EXCEPT !.held = 0, !.exported = telemetry.exported + telemetry.held]
      BY <1>2
    <3>3. QED
      BY <3>1, <3>2 DEF Telemetry
  <2>2. QED
    BY <1>1, <2>1
<1>3. CASE telemetry' = [telemetry EXCEPT !.held = 0, !.lost = @ + telemetry.held]
  <2>1. /\ telemetry' \in Telemetry /\ telemetry'.held = 0
        /\ telemetry'.lost = telemetry.lost + telemetry.held /\ telemetry'.exported = telemetry.exported
    <3>1. telemetry.lost + telemetry.held \in Nat
      BY <1>1
    <3>2. telemetry' = [telemetry EXCEPT !.held = 0, !.lost = telemetry.lost + telemetry.held]
      BY <1>3
    <3>3. QED
      BY <3>1, <3>2 DEF Telemetry
  <2>2. QED
    BY <1>1, <2>1
<1>4. QED
  BY <1>2, <1>3 DEF Export

\* The tasks beside the requests move what is queued, held or waiting on, and keep
\* the sums.
LEMMA WritesKeep == ASSUME IInv, WriteTraceLine \/ ExportBatch \/ WriteRow PROVE IInv'
<1>1. /\ command' = command /\ wanted' = wanted /\ exitCode' = exitCode /\ running' = running
      /\ mainAt' = mainAt /\ openCalls' = openCalls /\ UNCHANGED <<endedCalls, tracedCalls, toldCalls>> /\ mainAt # "exit"
  BY DEF WriteTraceLine, ExportBatch, WriteRow, process, calls
<1>2. RunningPart'
  BY <1>1, FrameKeeps DEF process
<1>3. /\ traceLines \in Lines
      /\ telemetry \in Telemetry
      /\ rowTasks \in Rows /\ toldCalls \in Nat
  BY DEF IInv, TypePart
<1>4. CASE WriteTraceLine
  <2>1. /\ traceLines.queued > 0 /\ traceLines' = [traceLines EXCEPT !.queued = @ - 1, !.written = @ + 1]
        /\ telemetry' = telemetry /\ rowTasks' = rowTasks
    BY <1>4 DEF WriteTraceLine
  <2>2. /\ traceLines' \in Lines
        /\ traceLines'.queued + traceLines'.written = traceLines.queued + traceLines.written
        /\ traceLines'.dropped = traceLines.dropped
    <3>1. traceLines.queued \in Nat /\ traceLines.written \in Nat
      BY <1>3 DEF Lines
    <3>2. /\ traceLines' \in Lines /\ traceLines'.queued = traceLines.queued - 1
          /\ traceLines'.written = traceLines.written + 1 /\ traceLines'.dropped = traceLines.dropped
      <4>1. traceLines.queued - 1 \in Nat /\ traceLines.written + 1 \in Nat
        BY <2>1, <3>1
      <4>2. traceLines' = [traceLines EXCEPT !.queued = traceLines.queued - 1, !.written = traceLines.written + 1]
        BY <2>1
      <4>3. QED
        BY <1>3, <4>1, <4>2 DEF Lines
    <3>3. QED
      BY <3>1, <3>2
  <2>3. mainAt \notin Starting /\ mainAt # "flush telemetry"
    <3>1. traceLines.queued # 0
      BY <2>1
    <3>2. QED
      BY <3>1 DEF IInv, IdlePart, StopPart
  <2>4. TypePart'
    BY <1>1, <2>1, <2>2 DEF IInv, TypePart
  <2>5. IdlePart' /\ CountPart' /\ StopPart' /\ LeftPart'
    BY <1>1, <1>3, <2>1, <2>2, <2>3 DEF IInv, IdlePart, CountPart, StopPart, LeftPart
  <2>6. QED
    BY <1>2, <2>4, <2>5 DEF IInv
<1>5. CASE ExportBatch
  <2>1. telemetry.held > 0 /\ Export /\ traceLines' = traceLines /\ rowTasks' = rowTasks
    BY <1>5 DEF ExportBatch
  <2>2. mainAt \notin Starting
    BY <1>3, <2>1 DEF IInv, IdlePart
  <2>3. TypePart'
    BY <1>1, <1>3, <2>1, ExportKeepsSum DEF IInv, TypePart
  <2>4. CountPart'
    <3>1. telemetry'.exported + telemetry'.lost = telemetry.held + telemetry.exported + telemetry.lost
          /\ telemetry'.held = 0 /\ telemetry' \in Telemetry
      BY <1>3, <2>1, ExportKeepsSum
    <3>2. telemetry'.held + telemetry'.exported + telemetry'.lost = telemetry.held + telemetry.exported + telemetry.lost
      <4>1. telemetry'.exported \in Nat /\ telemetry'.lost \in Nat
        BY <3>1 DEF Telemetry
      <4>2. QED
        BY <3>1, <4>1
    <3>3. QED
      BY <1>1, <2>1, <3>2 DEF IInv, CountPart
  <2>5. IdlePart' /\ StopPart' /\ LeftPart'
    BY <1>1, <2>1, <2>2 DEF IInv, IdlePart, StopPart, LeftPart
  <2>6. QED
    BY <1>2, <2>3, <2>4, <2>5 DEF IInv
<1>6. CASE WriteRow
  <2>1. /\ rowTasks.waiting > 0 /\ traceLines' = traceLines /\ telemetry' = telemetry
        /\ rowTasks' \in {[rowTasks EXCEPT !.waiting = @ - 1, !.stored = @ + 1], [rowTasks EXCEPT !.waiting = @ - 1]}
    BY <1>6 DEF WriteRow
  <2>2. /\ rowTasks' \in Rows
        /\ rowTasks'.waiting + rowTasks'.stored <= rowTasks.waiting + rowTasks.stored
    <3>1. rowTasks.waiting \in Nat /\ rowTasks.stored \in Nat
      BY <1>3 DEF Rows
    <3>2. /\ rowTasks' \in Rows /\ rowTasks'.waiting = rowTasks.waiting - 1
          /\ rowTasks'.stored \in {rowTasks.stored, rowTasks.stored + 1}
      <4>1. rowTasks.waiting - 1 \in Nat /\ rowTasks.stored + 1 \in Nat
        BY <2>1, <3>1
      <4>2. CASE rowTasks' = [rowTasks EXCEPT !.waiting = @ - 1, !.stored = @ + 1]
        BY <1>3, <4>1, <4>2 DEF Rows
      <4>3. CASE rowTasks' = [rowTasks EXCEPT !.waiting = @ - 1]
        BY <1>3, <4>1, <4>3 DEF Rows
      <4>4. QED
        BY <2>1, <4>2, <4>3
    <3>3. QED
      BY <3>1, <3>2
  <2>3. mainAt \notin Starting
    BY <1>3, <2>1 DEF IInv, IdlePart
  <2>4. TypePart'
    BY <1>1, <2>1, <2>2 DEF IInv, TypePart
  <2>5. rowTasks.waiting + rowTasks.stored \in Nat /\ rowTasks'.waiting + rowTasks'.stored \in Nat
    BY <1>3, <2>2 DEF Rows
  <2>6. CountPart'
    BY <1>1, <1>3, <2>1, <2>2, <2>5 DEF IInv, CountPart
  <2>7. IdlePart' /\ StopPart' /\ LeftPart'
    BY <1>1, <2>1, <2>3 DEF IInv, IdlePart, StopPart, LeftPart
  <2>8. QED
    BY <1>2, <2>4, <2>6, <2>7 DEF IInv
<1>7. QED
  BY <1>4, <1>5, <1>6

\* The stop goes on only when what feeds the next flush has ended.
LEMMA StopKeeps == ASSUME IInv, Signal \/ StopServing \/ FlushTraces PROVE IInv'
<1>1. /\ command' = command /\ wanted' = wanted /\ exitCode' = exitCode /\ running' = running
      /\ openCalls' = openCalls /\ UNCHANGED <<endedCalls, tracedCalls, toldCalls>> /\ traceLines' = traceLines
      /\ telemetry' = telemetry /\ rowTasks' = rowTasks
      /\ mainAt \in {"serving", "draining", "flush traces"}
      /\ mainAt' \in {"draining", "flush traces", "flush telemetry"}
  BY DEF Signal, StopServing, Drained, FlushTraces, process, calls
<1>2. TypePart'
  BY <1>1 DEF IInv, TypePart, Serving
<1>3. RunningPart'
  BY <1>1 DEF IInv, RunningPart, Serving
<1>4. IdlePart' /\ CountPart' /\ LeftPart'
  BY <1>1 DEF IInv, IdlePart, CountPart, LeftPart, Starting, Serving
<1>5. StopPart'
  BY <1>1 DEF IInv, StopPart, Signal, StopServing, Drained, FlushTraces
<1>6. QED
  BY <1>2, <1>3, <1>4, <1>5 DEF IInv

LEMMA FlushKeeps == ASSUME IInv, FlushTelemetry PROVE IInv'
<1>1. /\ mainAt = "flush telemetry" /\ mainAt' = "exit" /\ exitCode' = {0} /\ running' = {}
      /\ command' = command /\ wanted' = wanted /\ openCalls' = openCalls /\ UNCHANGED <<endedCalls, tracedCalls, toldCalls>>
      /\ traceLines' = traceLines /\ rowTasks' = rowTasks /\ Export
  BY DEF FlushTelemetry, ExitWith, calls
<1>2. TypePart
  BY DEF IInv
<1>3. TypePart'
  BY <1>1, <1>2, ExportKeepsSum DEF TypePart, Serving
<1>4. RunningPart' /\ IdlePart' /\ CountPart'
  BY <1>1 DEF RunningPart, IdlePart, CountPart, Starting, Serving
<1>5. StopPart'
  BY <1>1 DEF IInv, StopPart
<1>6. LeftPart'
  <2>1. /\ telemetry \in Telemetry /\ traceLines \in Lines /\ rowTasks \in Rows /\ toldCalls \in Nat
    BY <1>2 DEF TypePart
  <2>2. /\ traceLines.queued + traceLines.written + traceLines.dropped
             = (IF "tracing" \in wanted THEN tracedCalls ELSE 0)
        /\ telemetry.held + telemetry.exported + telemetry.lost
             = (IF "otel" \in wanted THEN toldCalls ELSE 0)
        /\ rowTasks.waiting + rowTasks.stored <= toldCalls
        /\ traceLines.queued = 0
    BY <1>1 DEF IInv, CountPart, StopPart, Serving
  <2>3. traceLines'.written + traceLines'.dropped = (IF "tracing" \in wanted' THEN tracedCalls' ELSE 0)
    <3>1. traceLines.written \in Nat /\ traceLines.dropped \in Nat
      BY <2>1 DEF Lines
    <3>2. traceLines.queued + traceLines.written + traceLines.dropped = traceLines.written + traceLines.dropped
      BY <2>2, <3>1
    <3>3. traceLines.written + traceLines.dropped = (IF "tracing" \in wanted THEN tracedCalls ELSE 0)
      BY <2>2, <3>2
    <3>4. QED
      BY <1>1, <3>3
  <2>4. telemetry'.exported + telemetry'.lost = (IF "otel" \in wanted' THEN toldCalls' ELSE 0)
    BY <1>1, <2>1, <2>2, ExportKeepsSum
  <2>5. rowTasks'.stored <= toldCalls'
    <3>1. rowTasks.waiting \in Nat /\ rowTasks.stored \in Nat
      BY <2>1 DEF Rows
    <3>2. rowTasks.waiting + rowTasks.stored <= toldCalls /\ toldCalls \in Nat
      BY <2>1, <2>2
    <3>3. rowTasks.stored <= toldCalls
      BY <3>1, <3>2
    <3>4. QED
      BY <1>1, <3>3
  <2>6. QED
    BY <1>1, <2>3, <2>4, <2>5 DEF LeftPart
<1>7. QED
  BY <1>3, <1>4, <1>5, <1>6 DEF IInv

LEMMA StutterKeeps == ASSUME IInv, UNCHANGED lifeVars PROVE IInv'
BY ZenonT(60) DEF IInv, TypePart, RunningPart, IdlePart, CountPart, StopPart, LeftPart, lifeVars, process, calls

\* The invariant the rest follows from.
THEOREM Inductive == LifeSpec => []IInv
<1>1. IInv /\ [LifeNext]_lifeVars => IInv'
  BY StartKeeps, AcceptKeeps, EndCallKeeps, WritesKeep, StopKeeps, FlushKeeps, StutterKeeps DEF LifeNext
<1>2. QED
  BY InitHolds, <1>1, PTL DEF LifeSpec

\* A gateway that serves runs what its configuration asks for, and a graceful stop
\* leaves no request open and nothing untold that a request had to tell
\* (server.rs:183-240).
THEOREM StopHolds == LifeSpec => []StopTellsAll
<1>1. IInv => StopTellsAll
  <2> SUFFICES ASSUME IInv PROVE StopTellsAll
    OBVIOUS
  <2>1. ASSUME mainAt = "serving"
        PROVE  /\ wanted \ {"history"} \subseteq running
               /\ "history" \in running => "ui" \in wanted
               /\ "delivery log" \in running <=> {"events", "history"} \subseteq running
    BY <2>1 DEF IInv, TypePart, RunningPart, Serving, Features
  <2>2. ASSUME mainAt = "exit", endedCalls + openCalls > 0
        PROVE  endedCalls > 0 /\ openCalls = 0
    <3>1. openCalls = 0 /\ endedCalls \in Nat
      BY <2>2 DEF IInv, TypePart, StopPart
    <3>2. QED
      BY <2>2, <3>1
  <2>3. QED
    BY <2>1, <2>2 DEF IInv, LeftPart, StopTellsAll
<1>2. QED
  BY Inductive, <1>1, PTL
-----------------------------------------------------------------------------
(* The configuration *)

\* A document loads to what its references stand for, or not at all; a strict load
\* refuses unknown keys, too.
LEMMA LoadIs ==
    ASSUME NEW doc, NEW e, NEW strict \in BOOLEAN
    PROVE  /\ Load(doc, e, strict) = {} \/ Load(doc, e, strict) = {Resolve(doc, e)}
           /\ Load(doc, e, strict) \subseteq Load(doc, e, FALSE)
           /\ ~strict \/ ~doc.unknown => Load(doc, e, strict) = Load(doc, e, FALSE)
  BY DEF Load

\* An edit is at work in a running gateway only.
JobPart == "phase" \in DOMAIN job /\ (job # NoJob => up)

\* What was applied last is what runs, and it builds; what was started with is allowed
\* its embeddings.
AppliedPart ==
    up => /\ PostureHolds(boot)
          /\ \A f \in applied : Load(f, env, FALSE) = {liveConfig} /\ Builds(liveConfig)

\* A page about to replace the file has a copy of it.
CopyPart == job.phase = "replace" => job.at \in DOMAIN backups /\ backups[job.at] = {file}

ConfigIInv == JobPart /\ AppliedPart /\ CopyPart /\ DocumentsKept

LEMMA ConfigInitHolds == ConfigInit => ConfigIInv
  BY DEF ConfigInit, ConfigIInv, JobPart, AppliedPart, CopyPart, DocumentsKept, NoJob

\* Steps that leave the gateway, its file and its backups alone.
LEMMA ConfigSame ==
    ASSUME ConfigIInv, UNCHANGED <<file, backups, job, replaced, copies, env, up, boot, liveConfig, applied>>
    PROVE  ConfigIInv'
  BY DEF ConfigIInv, JobPart, AppliedPart, CopyPart, DocumentsKept

LEMMA StartStep ==
    ASSUME ConfigIInv, NEW e, NEW s \in BOOLEAN, NEW opens, StartGateway(e, s, opens)
    PROVE  ConfigIInv'
<1>1. /\ ~up /\ up' = TRUE /\ env' = e /\ applied' = {file} /\ StartFails(file, e, s, opens) = "no"
      /\ UNCHANGED <<file, backups, job, replaced, copies>>
  BY DEF StartGateway
<1>2. PICK config \in Load(file, e, s) : boot' = config /\ liveConfig' = config
  BY DEF StartGateway
<1>3. Load(file, e, s) = {config} /\ Load(file, e, FALSE) = {config}
  BY <1>2, LoadIs
<1>4. Builds(config) /\ PostureHolds(config)
  BY <1>1, <1>3 DEF StartFails
<1>5. AppliedPart'
  <2>1. Load(file, e, FALSE) = {liveConfig'} /\ Builds(liveConfig') /\ PostureHolds(boot')
    BY <1>2, <1>3, <1>4
  <2> QED
    BY <1>1, <2>1 DEF AppliedPart
<1> QED
  BY <1>1, <1>5 DEF ConfigIInv, JobPart, CopyPart, DocumentsKept

LEMMA CopyStep ==
    ASSUME ConfigIInv, CopyBackup
    PROVE  ConfigIInv'
<1> DEFINE at == job.at
<1>1. job.phase = "copy" /\ UNCHANGED <<file, env, up, boot, liveConfig, applied, replaced>>
  BY DEF CopyBackup, gatewayState
<1>2. up
  BY <1>1 DEF ConfigIInv, JobPart, NoJob
<1>3. PICK copy \in {{file}, {}} :
        /\ backups' = BackedUp(copy) /\ copies' = copies \cup {<<copy, at>>}
        /\ IF copy = {file} THEN job' = [job EXCEPT !.phase = "replace"] ELSE job' = NoJob
  BY DEF CopyBackup, BackupName
<1>4. /\ DOMAIN backups' = {at} \cup DOMAIN backups
      /\ backups'[at] = copy
      /\ \A x \in DOMAIN backups : x # at => backups'[x] = backups[x]
  BY <1>3 DEF BackedUp, BackupName
<1>5. CopyPart'
  <2>1. CASE copy = {file}
    <3>1. job' = [job EXCEPT !.phase = "replace"]
      BY <1>3, <2>1
    <3>2. job'.at = at
      BY <3>1
    <3> QED
      BY <1>1, <1>4, <2>1, <3>2 DEF CopyPart
  <2>2. CASE copy # {file}
    BY <1>3, <2>2 DEF CopyPart, NoJob
  <2> QED
    BY <2>1, <2>2
<1>6. DocumentsKept'
  <2>1. ASSUME NEW r \in replaced
        PROVE  \/ r[2] \in DOMAIN backups' /\ backups'[r[2]] = {r[1]}
               \/ \E c \in copies' : c[2] = r[2] /\ c[1] # {r[1]}
    <3>1. CASE r[2] = at
      <4>1. CASE copy = {r[1]}
        BY <1>4, <3>1, <4>1
      <4>2. CASE copy # {r[1]}
        <5>1. <<copy, at>> \in copies' /\ <<copy, at>>[2] = r[2] /\ <<copy, at>>[1] # {r[1]}
          BY <1>3, <3>1, <4>2
        <5> QED
          BY <5>1
      <4> QED
        BY <4>1, <4>2
    <3>2. CASE r[2] # at
      BY <1>3, <1>4, <3>2 DEF ConfigIInv, DocumentsKept
    <3> QED
      BY <3>1, <3>2
  <2> QED
    BY <1>1, <2>1 DEF DocumentsKept
<1>7. AppliedPart'
  BY <1>1 DEF ConfigIInv, AppliedPart
<1>8. JobPart'
  <2>1. "phase" \in DOMAIN job'
    <3>1. DOMAIN [job EXCEPT !.phase = "replace"] = DOMAIN job /\ DOMAIN NoJob = {"phase"}
      BY DEF NoJob
    <3>2. "phase" \in DOMAIN job
      BY DEF ConfigIInv, JobPart
    <3> QED
      BY <1>3, <3>1, <3>2
  <2> QED
    BY <1>1, <1>2, <2>1 DEF JobPart
<1> QED
  BY <1>5, <1>6, <1>7, <1>8 DEF ConfigIInv

LEMMA ReplaceStep ==
    ASSUME ConfigIInv, ReplaceFile
    PROVE  ConfigIInv'
<1>1. job.phase = "replace" /\ UNCHANGED <<backups, env, up, boot, liveConfig, applied, copies>>
  BY DEF ReplaceFile, gatewayState
<1>2. up /\ "phase" \in DOMAIN job /\ job.at \in DOMAIN backups /\ backups[job.at] = {file}
  BY <1>1 DEF ConfigIInv, JobPart, CopyPart, NoJob
<1>3. replaced' = replaced \cup {<<file, job.at>>} \/ replaced' = replaced
  BY DEF ReplaceFile
<1>4. job' = NoJob \/ job' = [job EXCEPT !.phase = "load"]
  BY DEF ReplaceFile
<1>5. CopyPart'
  <2>1. job'.phase # "replace"
    <3>1. CASE job' = NoJob
      BY <3>1 DEF NoJob
    <3>2. CASE job' = [job EXCEPT !.phase = "load"]
      BY <1>2, <3>2
    <3> QED
      BY <1>4, <3>1, <3>2
  <2> QED
    BY <2>1 DEF CopyPart
<1>6. DocumentsKept'
  <2>1. ASSUME NEW r \in replaced'
        PROVE  \/ r[2] \in DOMAIN backups /\ backups[r[2]] = {r[1]}
               \/ \E c \in copies : c[2] = r[2] /\ c[1] # {r[1]}
    <3>1. CASE r \in replaced
      BY <3>1 DEF ConfigIInv, DocumentsKept
    <3>2. CASE r = <<file, job.at>>
      BY <1>2, <3>2
    <3> QED
      BY <1>3, <3>1, <3>2
  <2> QED
    BY <1>1, <2>1 DEF DocumentsKept
<1>7. AppliedPart'
  BY <1>1 DEF ConfigIInv, AppliedPart
<1>8. JobPart'
  <2>1. "phase" \in DOMAIN job'
    <3>1. DOMAIN [job EXCEPT !.phase = "load"] = DOMAIN job /\ DOMAIN NoJob = {"phase"}
      BY DEF NoJob
    <3>2. "phase" \in DOMAIN job
      BY DEF ConfigIInv, JobPart
    <3> QED
      BY <1>4, <3>1, <3>2
  <2> QED
    BY <1>1, <1>2, <2>1 DEF JobPart
<1> QED
  BY <1>5, <1>6, <1>7, <1>8 DEF ConfigIInv

LEMMA ReloadStep ==
    ASSUME ConfigIInv, ReloadConfig
    PROVE  ConfigIInv'
<1>1. job.phase = "load" /\ job' = NoJob /\ UNCHANGED <<file, backups, env, up, boot, replaced, copies>>
  BY DEF ReloadConfig
<1>2. AppliedPart'
  <2>1. CASE \E config \in LoadAgain(file) : Builds(config)
    <3>1. applied' = {file} /\ liveConfig' = CHOOSE config \in LoadAgain(file) : TRUE
      BY <2>1 DEF ReloadConfig
    <3>2. PICK config \in Load(file, env, FALSE) : Builds(config)
      BY <2>1 DEF LoadAgain
    <3>3. Load(file, env, FALSE) = {config}
      BY <3>2, LoadIs
    <3>4. liveConfig' = config
      BY <3>1, <3>3 DEF LoadAgain
    <3> QED
      BY <1>1, <3>1, <3>2, <3>3, <3>4 DEF ConfigIInv, AppliedPart
  <2>2. CASE ~\E config \in LoadAgain(file) : Builds(config)
    <3>1. UNCHANGED <<liveConfig, applied>>
      BY <2>2 DEF ReloadConfig
    <3> QED
      BY <1>1, <3>1 DEF ConfigIInv, AppliedPart
  <2> QED
    BY <2>1, <2>2
<1> QED
  BY <1>1, <1>2 DEF ConfigIInv, JobPart, CopyPart, DocumentsKept, NoJob

\* Every page checks its document and has it copied next, whatever it is.
LEMMA EditStep ==
    ASSUME ConfigIInv, NEW docs, NEW how, Edit(docs, how)
    PROVE  ConfigIInv'
<1>1. up /\ UNCHANGED <<file, backups, replaced, copies, env, up, boot, liveConfig, applied>>
  BY DEF Edit, gatewayState, observed
<1>2. PICK doc : job' = [phase |-> "copy", doc |-> doc, how |-> how, at |-> second]
  BY DEF Edit
<1>3. job'.phase = "copy" /\ "phase" \in DOMAIN job'
  <2> DEFINE begun == [phase |-> "copy", doc |-> doc, how |-> how, at |-> second]
  <2>1. begun.phase = "copy" /\ DOMAIN begun = {"phase", "doc", "how", "at"}
    OBVIOUS
  <2> HIDE DEF begun
  <2>2. job' = begun
    BY <1>2 DEF begun
  <2> QED
    BY <2>1, <2>2
<1> QED
  BY <1>1, <1>3 DEF ConfigIInv, JobPart, AppliedPart, CopyPart, DocumentsKept

LEMMA ConfigStep ==
    ASSUME ConfigIInv, [ConfigNext]_configVars
    PROVE  ConfigIInv'
<1>1. CASE Second
  BY <1>1, ConfigSame DEF Second, gatewayState, observed
<1>2. CASE EditByHand
  <2>1. ~up /\ UNCHANGED <<backups, job, replaced, copies, env, up, boot, liveConfig, applied>>
    BY <1>2 DEF EditByHand, gatewayState, observed
  <2>2. job = NoJob
    BY <2>1 DEF ConfigIInv, JobPart
  <2> QED
    BY <2>1, <2>2 DEF ConfigIInv, JobPart, AppliedPart, CopyPart, DocumentsKept, NoJob
<1>3. CASE Stop
  BY <1>3 DEF Stop, ConfigIInv, JobPart, AppliedPart, CopyPart, DocumentsKept, NoJob
<1>4. CASE CopyBackup
  BY <1>4, CopyStep
<1>5. CASE ReplaceFile
  BY <1>5, ReplaceStep
<1>6. CASE ReloadConfig
  BY <1>6, ReloadStep
<1>7. ASSUME NEW e, NEW s \in BOOLEAN, NEW opens, StartGateway(e, s, opens) PROVE ConfigIInv'
  BY <1>7, StartStep
<1>8. CASE PageEdit
  <2>1. \E docs, how : Edit(docs, how)
    <3>1. ASSUME NEW section, NEW path, NEW text, SaveForm(section, path, text) PROVE \E docs, how : Edit(docs, how)
      BY <3>1, Zenon DEF SaveForm
    <3>2. ASSUME NEW list, NEW value, SaveText(list, value) PROVE \E docs, how : Edit(docs, how)
      BY <3>2, Zenon DEF SaveText
    <3>3. ASSUME NEW value, ApplyKeys(value) PROVE \E docs, how : Edit(docs, how)
      BY <3>3, Zenon DEF ApplyKeys
    <3>4. ASSUME NEW secret, Rotate(secret) PROVE \E docs, how : Edit(docs, how)
      BY <3>4, Zenon DEF Rotate
    <3>5. ASSUME NEW name, NEW url, NEW type, NEW value, SaveServer(name, url, type, value)
          PROVE  \E docs, how : Edit(docs, how)
      BY <3>5, Zenon DEF SaveServer
    <3>6. ASSUME NEW name, DeleteServer(name) PROVE \E docs, how : Edit(docs, how)
      BY <3>6, Zenon DEF DeleteServer
    <3> QED
      BY <1>8, <3>1, <3>2, <3>3, <3>4, <3>5, <3>6, Zenon DEF PageEdit
  <2> QED
    BY <2>1, EditStep
<1>9. CASE UNCHANGED configVars
  BY <1>9, ConfigSame DEF configVars
<1> QED
  BY <1>1, <1>2, <1>3, <1>4, <1>5, <1>6, <1>7, <1>8, <1>9 DEF ConfigNext

LEMMA StartsAgainImplied == ConfigIInv => StartsAgain
<1> SUFFICES ASSUME ConfigIInv, up, file \in applied, NEW s \in BOOLEAN, NEW opens \in BOOLEAN
             PROVE  LET why == StartFails(file, env, s, opens)
                    IN \/ why = "no"
                       \/ why = "unknown keys" /\ s /\ file.unknown
                       \/ why = "vault" /\ ~opens
                       \/ why = "posture" /\ (liveConfig # boot)
  BY DEF StartsAgain
<1>1. Load(file, env, FALSE) = {liveConfig} /\ Builds(liveConfig) /\ PostureHolds(boot)
  BY DEF ConfigIInv, AppliedPart
<1>2. CASE Load(file, env, s) = {}
  <2>1. s /\ file.unknown
    BY <1>1, <1>2, LoadIs
  <2> QED
    BY <1>1, <1>2, <2>1 DEF StartFails
<1>3. CASE Load(file, env, s) # {}
  <2>1. Load(file, env, s) = {liveConfig}
    BY <1>1, <1>3, LoadIs
  <2>2. (CHOOSE c \in {liveConfig} : TRUE) = liveConfig
    OBVIOUS
  <2> QED
    BY <1>1, <2>1, <2>2 DEF StartFails
<1> QED
  BY <1>2, <1>3

\* What was applied runs and builds, and what is about to be replaced has its copy,
\* wherever the gateway is stopped.
THEOREM ConfigInductive == ConfigSpec => []ConfigIInv
  BY ConfigInitHolds, ConfigStep, PTL DEF ConfigSpec

\* What a running gateway was started with or applied last starts it again in the same
\* environment, for every rule a document has to meet.
THEOREM StartsAgainHolds == ConfigSpec => []StartsAgain
  BY ConfigInductive, StartsAgainImplied, PTL

\* A page never replaces a document that has no backup, but for a second backup in the
\* same second.
THEOREM DocumentsHold == ConfigSpec => []DocumentsKept
  BY ConfigInductive, PTL DEF ConfigIInv
-----------------------------------------------------------------------------
(* What is saved is told *)

\* A document changes one scalar, all of them, or one list.
LEMMA FieldsChange ==
    ASSUME NEW d, IsDocument(d), NEW f,
           \A p \in DOMAIN f : p \in DOMAIN Fields /\ f[p] \in {Infer(f[p][2]), <<"string", f[p][2]>>}
    PROVE  IsDocument([d EXCEPT !.fields = f])
<1> DEFINE e == [d EXCEPT !.fields = f]
<1>1. /\ DOMAIN e = {"fields"} \cup Lists /\ e.fields = f
      /\ e.connections = d.connections /\ e.mcp_servers = d.mcp_servers
  BY DEF IsDocument, Lists
<1> HIDE DEF e
<1>2. IsDocument(e)
  BY <1>1 DEF IsDocument
<1> QED
  BY <1>2 DEF e

LEMMA ListChange ==
    ASSUME NEW d, IsDocument(d), NEW list \in Lists, NEW w, IsDocument([FirstFile EXCEPT ![list] = w])
    PROVE  IsDocument([d EXCEPT ![list] = w])
<1> DEFINE e == [d EXCEPT ![list] = w]  g == [FirstFile EXCEPT ![list] = w]
<1>1. DOMAIN FirstFile = {"fields"} \cup Lists
  BY DocumentAssumption DEF IsDocument
<1>2. /\ DOMAIN e = {"fields"} \cup Lists /\ e.fields = d.fields
      /\ e.connections = IF list = "connections" THEN w ELSE d.connections
      /\ e.mcp_servers = IF list = "mcp_servers" THEN w ELSE d.mcp_servers
  BY DEF IsDocument, Lists
<1>3. /\ list = "connections" => g.connections = w
      /\ list = "mcp_servers" => g.mcp_servers = w
  BY <1>1 DEF Lists
<1>4. IsDocument(g)
  OBVIOUS
<1> HIDE DEF e, g
<1>5. IsDocument(e)
  <2>1. \A p \in DOMAIN e.fields : p \in DOMAIN Fields /\ e.fields[p] \in {Infer(e.fields[p][2]), <<"string", e.fields[p][2]>>}
    BY <1>2 DEF IsDocument
  <2>2. \A c \in Range(e.connections) : ConnectionParts \subseteq DOMAIN c
    BY <1>2, <1>3, <1>4 DEF IsDocument
  <2>3. \A name \in DOMAIN e.mcp_servers : ServerParts \subseteq DOMAIN e.mcp_servers[name]
    BY <1>2, <1>3, <1>4 DEF IsDocument
  <2> QED
    BY <1>2, <2>1, <2>2, <2>3 DEF IsDocument
<1> QED
  BY <1>5 DEF e

LEMMA ServersChange ==
    ASSUME NEW d, IsDocument(d), NEW servers,
           \A name \in DOMAIN servers : ServerParts \subseteq DOMAIN servers[name]
    PROVE  IsDocument([d EXCEPT !.mcp_servers = servers])
<1> DEFINE e == [d EXCEPT !.mcp_servers = servers]
<1>1. /\ DOMAIN e = {"fields"} \cup Lists /\ e.fields = d.fields
      /\ e.connections = d.connections /\ e.mcp_servers = servers
  BY DEF IsDocument, Lists
<1> HIDE DEF e
<1>2. IsDocument(e)
  BY <1>1 DEF IsDocument
<1> QED
  BY <1>2 DEF e

\* The scalars are those of the sections.
LEMMA PathsAre ==
    /\ \A p : p \in DOMAIN Fields <=> \E section \in DOMAIN Tables : p \in PathsOf(section)
    /\ \A section \in DOMAIN Tables : \A p \in PathsOf(section) : p[1] = section
    /\ \A p \in DOMAIN Fields : p \in PathsOf(p[1]) /\ p[1] \in DOMAIN Tables
    /\ FormFields \subseteq DOMAIN Fields
<1>1. \A p : p \in DOMAIN Fields <=> \E section \in DOMAIN Tables : p \in PathsOf(section)
  BY DEF Fields
<1>2. \A section \in DOMAIN Tables : \A p \in PathsOf(section) : p[1] = section
  BY DEF PathsOf
<1>3. \A p \in DOMAIN Fields : p \in PathsOf(p[1]) /\ p[1] \in DOMAIN Tables
  BY <1>1, <1>2
<1>4. FormFields \subseteq DOMAIN Fields
  <2>1. {"server", "pii", "events", "tracing", "otel"} \subseteq DOMAIN Tables
    BY DEF Tables
  <2>2. <<"server", "bind_addr">> \in PathsOf("server") /\ <<"server", "max_body_bytes">> \in PathsOf("server")
    BY DEF PathsOf, Tables, ServerFields
  <2>3. <<"pii", "enabled_by_default">> \in PathsOf("pii")
    BY DEF PathsOf, Tables, PiiFields
  <2>4. {<<"events", "url">>, <<"events", "auth_bearer">>, <<"events", "buffer_size">>, <<"events", "timeout_ms">>}
           \subseteq PathsOf("events")
    BY DEF PathsOf, Tables, EventsFields
  <2> QED
    BY <1>1, <2>1, <2>2, <2>3, <2>4 DEF FormFields
<1> QED
  BY <1>1, <1>2, <1>3, <1>4

\* What set_value makes is an item of the file.
LEMMA SetValueIs ==
    ASSUME NEW d, NEW p, NEW text, NEW item \in SetValue(d, p, text)
    PROVE  item \in {Infer(item[2]), <<"string", item[2]>>}
<1>1. item = Infer(text) \/ item = <<"string", text>>
  BY DEF SetValue, Coerce
<1>2. Infer(text)[2] = text
  BY DEF Infer
<1> QED
  BY <1>1, <1>2

LEMMA ApplyIs ==
    ASSUME NEW d, IsDocument(d), NEW form, DOMAIN form \subseteq DOMAIN Fields, NEW doc \in ApplyScalarFields(d, form)
    PROVE  IsDocument(doc)
<1> DEFINE typed == {p \in DOMAIN form : form[p] # Sentinel}
           f == [p \in typed \cup DOMAIN d.fields |->
                    IF p \in typed THEN CHOOSE item \in SetValue(d, p, form[p]) : TRUE ELSE d.fields[p]]
<1>1. (\A p \in typed : SetValue(d, p, form[p]) # {}) /\ doc = [d EXCEPT !.fields = f]
  BY DEF ApplyScalarFields
<1>2. ASSUME NEW p \in DOMAIN f
      PROVE  p \in DOMAIN Fields /\ f[p] \in {Infer(f[p][2]), <<"string", f[p][2]>>}
  <2>1. CASE p \in typed
    <3>1. f[p] \in SetValue(d, p, form[p])
      BY <1>1, <2>1
    <3> HIDE DEF f
    <3> QED
      BY <2>1, <3>1, SetValueIs
  <2>2. CASE p \notin typed
    <3>1. f[p] = d.fields[p] /\ p \in DOMAIN d.fields
      BY <2>2
    <3> HIDE DEF f
    <3> QED
      BY <3>1 DEF IsDocument
  <2> QED
    BY <2>1, <2>2
<1> HIDE DEF f
<1> QED
  BY <1>1, <1>2, FieldsChange

LEMMA PutField ==
    ASSUME NEW d, IsDocument(d), NEW p \in DOMAIN Fields, NEW item, item \in {Infer(item[2]), <<"string", item[2]>>}
    PROVE  IsDocument([d EXCEPT !.fields = Put(@, p, item)])
<1> DEFINE f == Put(d.fields, p, item)
<1>1. \A q \in DOMAIN f : q \in DOMAIN Fields /\ f[q] \in {Infer(f[q][2]), <<"string", f[q][2]>>}
  <2>1. DOMAIN f = DOMAIN d.fields \cup {p} /\ \A q \in DOMAIN f : f[q] = IF q = p THEN item ELSE d.fields[q]
    BY DEF Put
  <2> HIDE DEF f
  <2> QED
    BY <2>1 DEF IsDocument
<1> HIDE DEF f
<1>2. IsDocument([d EXCEPT !.fields = f])
  BY <1>1, FieldsChange
<1> QED
  BY <1>2 DEF f

LEMMA DropField ==
    ASSUME NEW d, IsDocument(d), NEW p
    PROVE  IsDocument([d EXCEPT !.fields = Drop(@, p)])
<1> DEFINE f == Drop(d.fields, p)
<1>1. \A q \in DOMAIN f : q \in DOMAIN Fields /\ f[q] \in {Infer(f[q][2]), <<"string", f[q][2]>>}
  <2>1. DOMAIN f \subseteq DOMAIN d.fields /\ \A q \in DOMAIN f : f[q] = d.fields[q]
    BY DEF Drop
  <2> HIDE DEF f
  <2> QED
    BY <2>1 DEF IsDocument
<1> HIDE DEF f
<1>2. IsDocument([d EXCEPT !.fields = f])
  BY <1>1, FieldsChange
<1> QED
  BY <1>2 DEF f
-----------------------------------------------------------------------------
\* What the references stand for.
Stands(r, d, e) ==
    /\ DOMAIN r = DOMAIN d /\ r.fields = ResolveFields(d, e)
    /\ r.connections = [i \in DOMAIN d.connections |-> ResolveConnection(d.connections[i], e)]
    /\ r.mcp_servers = [n \in DOMAIN d.mcp_servers |-> ResolveServer(d.mcp_servers[n], e)]
    /\ \A list \in Lists \ {"connections", "mcp_servers"} : r[list] = d[list]
    /\ \A p : p \notin ResolvedFields => Value(r, p) = Value(d, p)
LEMMA ResolveIs ==
    ASSUME NEW d, NEW e, IsDocument(d)
    PROVE  Stands(Resolve(d, e), d, e)
<1> DEFINE r == Resolve(d, e)
<1>1. /\ DOMAIN r = DOMAIN d /\ r.fields = ResolveFields(d, e)
      /\ r.connections = [i \in DOMAIN d.connections |-> ResolveConnection(d.connections[i], e)]
      /\ r.mcp_servers = [n \in DOMAIN d.mcp_servers |-> ResolveServer(d.mcp_servers[n], e)]
      /\ \A list \in Lists \ {"connections", "mcp_servers"} : r[list] = d[list]
  BY DEF Resolve, IsDocument, Lists
<1> HIDE DEF r
<1>2. ASSUME NEW p, p \notin ResolvedFields PROVE Value(r, p) = Value(d, p)
  BY <1>1, <1>2 DEF Value, ResolveFields
<1> QED
  BY <1>1, <1>2 DEF r, Stands

\* A value is not resolved again.
LEMMA ResolvedTwice ==
    ASSUME NEW e, e # "url${V}", NEW text
    PROVE  Resolved(Resolved(text, e), e) = Resolved(text, e)
<1>1. \A t : Resolved(t, e) = IF t = "${V}" THEN e ELSE IF t = "url${V}" THEN "url" ELSE t
  BY DEF Resolved, IsReference
<1> QED
  BY <1>1

LEMMA ConnectionTwice ==
    ASSUME NEW e, e # "url${V}", NEW c
    PROVE  ResolveConnection(ResolveConnection(c, e), e) = ResolveConnection(c, e)
<1> DEFINE r == ResolveConnection(c, e)
<1>1. r = [f \in DOMAIN c |-> IF f \in ConnectionTexts THEN Resolved(c[f], e) ELSE c[f]]
  BY DEF ResolveConnection
<1>2. DOMAIN r = DOMAIN c
  BY <1>1
<1>3. \A f \in DOMAIN c : (IF f \in ConnectionTexts THEN Resolved(r[f], e) ELSE r[f])
                             = IF f \in ConnectionTexts THEN Resolved(c[f], e) ELSE c[f]
  BY <1>1, ResolvedTwice
<1>4. ResolveConnection(r, e) = [f \in DOMAIN r |-> IF f \in ConnectionTexts THEN Resolved(r[f], e) ELSE r[f]]
  BY DEF ResolveConnection
<1> HIDE DEF r
<1>5. ResolveConnection(r, e) = r
  BY <1>1, <1>2, <1>3, <1>4
<1> QED
  BY <1>5 DEF r

LEMMA ServerTwice ==
    ASSUME NEW e, e # "url${V}", NEW s
    PROVE  ResolveServer(ResolveServer(s, e), e) = ResolveServer(s, e)
<1> DEFINE values(S) == {Resolved(v, e) : v \in S}
           headers(S) == {<<h[1], Resolved(h[2], e)>> : h \in S}
           of(t) == [f \in DOMAIN t |-> IF f = "url" THEN Resolved(t[f], e)
                                        ELSE IF f = "auth_value" THEN values(t[f])
                                        ELSE IF f = "extra_headers" THEN headers(t[f]) ELSE t[f]]
<1>1. \A t : ResolveServer(t, e) = of(t)
  BY DEF ResolveServer
<1>2. ASSUME NEW S PROVE values(values(S)) = values(S)
  BY ResolvedTwice
<1>3. ASSUME NEW S PROVE headers(headers(S)) = headers(S)
  <2>1. ASSUME NEW h \in headers(S) PROVE <<h[1], Resolved(h[2], e)>> = h
    <3>1. PICK g \in S : h = <<g[1], Resolved(g[2], e)>>
      OBVIOUS
    <3>2. h[1] = g[1] /\ h[2] = Resolved(g[2], e)
      BY <3>1
    <3>3. Resolved(h[2], e) = h[2]
      BY <3>2, ResolvedTwice
    <3> QED
      BY <3>1, <3>2, <3>3
  <2> DEFINE H == headers(S)
  <2>2. headers(H) = {<<h[1], Resolved(h[2], e)>> : h \in H}
    OBVIOUS
  <2>3. \A h \in H : <<h[1], Resolved(h[2], e)>> = h
    BY <2>1
  <2> HIDE DEF H, headers
  <2>4. headers(H) = H
    BY <2>2, <2>3
  <2> QED
    BY <2>4 DEF H
<1> HIDE DEF values, headers
<1>4. of(of(s)) = of(s)
  BY <1>2, <1>3, ResolvedTwice
<1> QED
  BY <1>1, <1>4

\* What differs when it runs differs in the documents, and in the resolved one and the
\* other document.
LEMMA DiffersResolved ==
    ASSUME NEW a, NEW b, NEW e, IsDocument(a), IsDocument(b), e # "url${V}", NEW s \in Sections,
           Differs(Resolve(a, e), Resolve(b, e), s)
    PROVE  Differs(a, b, s) /\ Differs(Resolve(a, e), b, s)
<1> DEFINE ra == Resolve(a, e)  rb == Resolve(b, e)
<1>1. /\ ra.connections = [i \in DOMAIN a.connections |-> ResolveConnection(a.connections[i], e)]
      /\ rb.connections = [i \in DOMAIN b.connections |-> ResolveConnection(b.connections[i], e)]
      /\ ra.mcp_servers = [n \in DOMAIN a.mcp_servers |-> ResolveServer(a.mcp_servers[n], e)]
      /\ rb.mcp_servers = [n \in DOMAIN b.mcp_servers |-> ResolveServer(b.mcp_servers[n], e)]
      /\ ra.virtual_keys = a.virtual_keys /\ rb.virtual_keys = b.virtual_keys
      /\ ra.guardrails = a.guardrails /\ rb.guardrails = b.guardrails
  <2>1. /\ ra.connections = [i \in DOMAIN a.connections |-> ResolveConnection(a.connections[i], e)]
        /\ ra.mcp_servers = [n \in DOMAIN a.mcp_servers |-> ResolveServer(a.mcp_servers[n], e)]
        /\ ra.virtual_keys = a.virtual_keys /\ ra.guardrails = a.guardrails
    <3>1. /\ ra.connections = [i \in DOMAIN a.connections |-> ResolveConnection(a.connections[i], e)]
          /\ ra.mcp_servers = [n \in DOMAIN a.mcp_servers |-> ResolveServer(a.mcp_servers[n], e)]
          /\ \A list \in Lists \ {"connections", "mcp_servers"} : ra[list] = a[list]
      <4>1. Stands(ra, a, e)
        BY ResolveIs
      <4> HIDE DEF ra, rb
      <4> QED
        BY <4>1 DEF Stands
    <3>2. "virtual_keys" \in Lists \ {"connections", "mcp_servers"} /\ "guardrails" \in Lists \ {"connections", "mcp_servers"}
      BY DEF Lists
    <3> HIDE DEF ra, rb
    <3> QED
      BY <3>1, <3>2
  <2>2. /\ rb.connections = [i \in DOMAIN b.connections |-> ResolveConnection(b.connections[i], e)]
        /\ rb.mcp_servers = [n \in DOMAIN b.mcp_servers |-> ResolveServer(b.mcp_servers[n], e)]
        /\ rb.virtual_keys = b.virtual_keys /\ rb.guardrails = b.guardrails
    <3>1. /\ rb.connections = [i \in DOMAIN b.connections |-> ResolveConnection(b.connections[i], e)]
          /\ rb.mcp_servers = [n \in DOMAIN b.mcp_servers |-> ResolveServer(b.mcp_servers[n], e)]
          /\ \A list \in Lists \ {"connections", "mcp_servers"} : rb[list] = b[list]
      <4>1. Stands(rb, b, e)
        BY ResolveIs
      <4> HIDE DEF ra, rb
      <4> QED
        BY <4>1 DEF Stands
    <3>2. "virtual_keys" \in Lists \ {"connections", "mcp_servers"} /\ "guardrails" \in Lists \ {"connections", "mcp_servers"}
      BY DEF Lists
    <3> HIDE DEF ra, rb
    <3> QED
      BY <3>1, <3>2
  <2> QED
    BY <2>1, <2>2
<1> HIDE DEF ra, rb
<1>0. ASSUME NEW p, p \notin ResolvedFields
      PROVE  Value(ra, p) = Value(a, p) /\ Value(rb, p) = Value(b, p)
  <2>1. Value(ra, p) = Value(a, p)
    BY <1>0, ResolveIs DEF Stands, ra
  <2>2. Value(rb, p) = Value(b, p)
    BY <1>0, ResolveIs DEF Stands, rb
  <2> QED
    BY <2>1, <2>2
<1>2. Differs(ra, rb, s)
  BY DEF ra, rb
<1>3. CASE s = "virtual_keys"
  BY <1>1, <1>2, <1>3 DEF Differs, ra
<1>4. CASE s = "guardrails"
  BY <1>1, <1>2, <1>4 DEF Differs, ra
<1>5. CASE s = "connections"
  <2>1. ra.connections # rb.connections
    BY <1>2, <1>5 DEF Differs
  <2>2. a.connections # b.connections
    BY <1>1, <2>1
  <2>3. ra.connections # b.connections
    <3> SUFFICES ASSUME ra.connections = b.connections PROVE ra.connections = rb.connections
      BY <2>1
    <3>1. \A i \in DOMAIN a.connections : ResolveConnection(ra.connections[i], e) = ra.connections[i]
      <4> TAKE i \in DOMAIN a.connections
      <4>1. ra.connections[i] = ResolveConnection(a.connections[i], e)
        BY <1>1
      <4> QED
        BY <4>1, ConnectionTwice
    <3>2. DOMAIN ra.connections = DOMAIN a.connections
      BY <1>1
    <3>3. rb.connections = [i \in DOMAIN ra.connections |-> ResolveConnection(ra.connections[i], e)]
      BY <1>1
    <3>4. ra.connections = [i \in DOMAIN a.connections |-> ra.connections[i]]
      BY <1>1
    <3> QED
      BY <3>1, <3>2, <3>3, <3>4
  <2> QED
    BY <1>5, <2>2, <2>3 DEF Differs, ra
<1>6. CASE s = "mcp_servers"
  <2>1. ra.mcp_servers # rb.mcp_servers
    BY <1>2, <1>6 DEF Differs
  <2>2. a.mcp_servers # b.mcp_servers
    BY <1>1, <2>1
  <2>3. ra.mcp_servers # b.mcp_servers
    <3> SUFFICES ASSUME ra.mcp_servers = b.mcp_servers PROVE ra.mcp_servers = rb.mcp_servers
      BY <2>1
    <3>1. \A n \in DOMAIN a.mcp_servers : ResolveServer(ra.mcp_servers[n], e) = ra.mcp_servers[n]
      <4> TAKE n \in DOMAIN a.mcp_servers
      <4>1. ra.mcp_servers[n] = ResolveServer(a.mcp_servers[n], e)
        BY <1>1
      <4> QED
        BY <4>1, ServerTwice
    <3>2. DOMAIN ra.mcp_servers = DOMAIN a.mcp_servers
      BY <1>1
    <3>3. rb.mcp_servers = [n \in DOMAIN ra.mcp_servers |-> ResolveServer(ra.mcp_servers[n], e)]
      BY <1>1
    <3>4. ra.mcp_servers = [n \in DOMAIN a.mcp_servers |-> ra.mcp_servers[n]]
      BY <1>1
    <3> QED
      BY <3>1, <3>2, <3>3, <3>4
  <2> QED
    BY <1>6, <2>2, <2>3 DEF Differs, ra
<1>7. CASE s \in {"server", "pii"}
  <2> DEFINE paths == PathsOf(s) \ {<<"server", "status_token">>}
  <2>1. \A p \in paths : p \notin ResolvedFields
    <3>1. ASSUME NEW p \in ResolvedFields
          PROVE  p = <<"server", "status_token">> \/ p[1] \notin {"server", "pii"}
      <4>1. \/ p = <<"server", "status_token">> \/ p = <<"ner", "model_dir">> \/ p = <<"vault", "path">>
            \/ p = <<"vault", "key">> \/ p = <<"events", "url">> \/ p = <<"events", "auth_bearer">>
            \/ p = <<"history", "postgres_url">> \/ p = <<"auth", "session_key">>
        BY DEF ResolvedFields
      <4>2. /\ <<"ner", "model_dir">>[1] = "ner" /\ <<"history", "postgres_url">>[1] = "history"
            /\ <<"vault", "path">>[1] = "vault" /\ <<"vault", "key">>[1] = "vault"
            /\ <<"events", "url">>[1] = "events" /\ <<"events", "auth_bearer">>[1] = "events"
            /\ <<"auth", "session_key">>[1] = "auth"
        OBVIOUS
      <4> HIDE DEF paths
      <4> QED
        BY <4>1, <4>2
    <3>2. \A p \in paths : p[1] = s
      BY DEF PathsOf
    <3> HIDE DEF paths
    <3>3. \A p \in paths : p # <<"server", "status_token">>
      BY DEF paths
    <3> QED
      BY <1>7, <3>1, <3>2, <3>3
  <2>2. ~SameFields(ra, rb, paths)
    BY <1>2, <1>7 DEF Differs
  <2> HIDE DEF paths
  <2>3. PICK p \in paths : Value(ra, p) # Value(rb, p)
    BY <2>2 DEF SameFields
  <2>4. Value(a, p) # Value(b, p) /\ Value(ra, p) # Value(b, p)
    <3>1. p \notin ResolvedFields
      BY <2>1
    <3>2. Value(ra, p) = Value(a, p) /\ Value(rb, p) = Value(b, p)
      BY <1>0, <3>1
    <3> QED
      BY <2>3, <3>2
  <2>5. ~SameFields(a, b, paths) /\ ~SameFields(ra, b, paths)
    BY <2>3, <2>4 DEF SameFields
  <2> QED
    BY <1>7, <2>5 DEF Differs, paths, ra
<1> QED
  BY <1>3, <1>4, <1>5, <1>6, <1>7 DEF Sections

LEMMA DiffersFrom ==
    ASSUME NEW a, NEW b, NEW c, NEW s \in Sections, Differs(a, c, s)
    PROVE  Differs(a, b, s) \/ Differs(b, c, s)
  BY DEF Differs, Sections, SameFields

\* What differs is named.
LEMMA DiffersNamed ==
    ASSUME NEW a, NEW b, NEW s \in Sections, Differs(a, b, s)
    PROVE  s \in RestartRequired(a, b)
<1>1. CASE s = "server"
  BY <1>1 DEF Differs, RestartRequired
<1>2. CASE s = "pii"
  <2>1. ~SameFields(a, b, PathsOf("pii"))
    <3>1. ~SameFields(a, b, PathsOf("pii") \ {<<"server", "status_token">>})
      BY <1>2 DEF Differs
    <3> QED
      BY <3>1 DEF SameFields
  <2> QED
    BY <1>2, <2>1 DEF RestartRequired, SameSection
<1>3. CASE s = "connections"
  BY <1>3 DEF Differs, RestartRequired
<1>4. CASE s = "virtual_keys"
  BY <1>4 DEF Differs, RestartRequired
<1>5. CASE s = "mcp_servers"
  BY <1>5 DEF Differs, RestartRequired
<1>6. CASE s = "guardrails"
  BY <1>6 DEF Differs, RestartRequired
<1> QED
  BY <1>1, <1>2, <1>3, <1>4, <1>5, <1>6 DEF Sections
-----------------------------------------------------------------------------
\* The documents are documents, and one that replaces the file is checked.
DocumentPart ==
    /\ IsDocument(file) /\ env # "url${V}"
    /\ job # NoJob => /\ {"phase", "doc", "how", "at"} \subseteq DOMAIN job
                      /\ IsDocument(job.doc) /\ Accepted(job.doc)
    /\ job.phase = "load" => Accepted(file)

\* What differs from what runs was named, or is yet to be loaded.  A file that is not
\* accepted is the one of the start: saves compare with what was made of it.
ToldPart ==
    up => /\ ~Accepted(file) => liveConfig = boot /\ boot = Resolve(file, env)
          /\ \A s \in Sections : Differs(liveConfig, Resolve(file, env), s) => s \in told \cup unloaded

ToldInv == ConfigIInv /\ DocumentPart /\ ToldPart

LEMMA ToldInit == ConfigInit => DocumentPart /\ ToldPart
<1> SUFFICES ASSUME ConfigInit PROVE DocumentPart /\ ToldPart
  OBVIOUS
<1>1. file = FirstFile /\ env = "unset" /\ job = NoJob /\ up = FALSE
  BY DEF ConfigInit
<1>2. job.phase # "load"
  BY <1>1 DEF NoJob
<1> QED
  BY <1>1, <1>2, DocumentAssumption DEF DocumentPart, ToldPart

\* Two equal configurations do not differ.
LEMMA DiffersNot == \A a : \A s \in Sections : ~Differs(a, a, s)
  BY DEF Differs, Sections, SameFields

LEMMA ToldStart ==
    ASSUME ToldInv, NEW e \in Environments, NEW s \in BOOLEAN, NEW opens \in BOOLEAN, StartGateway(e, s, opens)
    PROVE  DocumentPart' /\ ToldPart'
<1>1. /\ env' = e /\ UNCHANGED <<file, job>>
      /\ \E config \in Load(file, e, s) : boot' = config /\ liveConfig' = config
  BY DEF StartGateway
<1>2. boot' = Resolve(file, e) /\ liveConfig' = Resolve(file, e)
  BY <1>1, LoadIs, ZenonT(60)
<1>3. DocumentPart'
  BY <1>1, ConfigurationAssumption DEF ToldInv, DocumentPart
<1>4. ToldPart'
  BY <1>1, <1>2, DiffersNot DEF ToldPart
<1> QED
  BY <1>3, <1>4

LEMMA ToldCopy ==
    ASSUME ToldInv, CopyBackup
    PROVE  DocumentPart' /\ ToldPart'
<1>1. UNCHANGED <<file, env, up, boot, liveConfig, told, unloaded>>
  BY DEF CopyBackup, gatewayState
<1>2. job.phase = "copy" /\ (job' = NoJob \/ job' = [job EXCEPT !.phase = "replace"])
  BY DEF CopyBackup
<1>3. DocumentPart'
  <2>1. CASE job' = NoJob
    <3>1. job'.phase # "load"
      BY <2>1 DEF NoJob
    <3> QED
      BY <1>1, <2>1, <3>1 DEF ToldInv, DocumentPart, NoJob
  <2>2. CASE job' = [job EXCEPT !.phase = "replace"]
    <3>1. job # NoJob
      BY <1>2 DEF NoJob
    <3>2. /\ {"phase", "doc", "how", "at"} \subseteq DOMAIN job
          /\ IsDocument(job.doc) /\ Accepted(job.doc)
      BY <3>1 DEF ToldInv, DocumentPart
    <3>3. DOMAIN job' = DOMAIN job /\ job'.doc = job.doc /\ job'.phase = "replace"
      BY <2>2, <3>2
    <3> QED
      BY <1>1, <3>2, <3>3 DEF ToldInv, DocumentPart
  <2> QED
    BY <1>2, <2>1, <2>2
<1>4. ToldPart'
  BY <1>1 DEF ToldInv, ToldPart
<1> QED
  BY <1>3, <1>4

LEMMA ToldReplace ==
    ASSUME ToldInv, ReplaceFile
    PROVE  DocumentPart' /\ ToldPart'
<1>1. job.phase = "replace" /\ UNCHANGED <<env, up, boot, liveConfig>>
  BY DEF ReplaceFile, gatewayState
<1>2. job # NoJob
  BY <1>1 DEF NoJob
<1>3. /\ {"phase", "doc", "how", "at"} \subseteq DOMAIN job /\ IsDocument(job.doc) /\ Accepted(job.doc)
      /\ IsDocument(file) /\ env # "url${V}" /\ up
  BY <1>2 DEF ToldInv, DocumentPart, ConfigIInv, JobPart
<1>4. CASE job' = NoJob /\ UNCHANGED <<file, told, unloaded>>
  <2>1. job'.phase # "load"
    BY <1>4 DEF NoJob
  <2> QED
    BY <1>1, <1>3, <1>4, <2>1 DEF ToldInv, DocumentPart, ToldPart
<1>5. CASE /\ file' = job.doc /\ job.how = "save" /\ job' = NoJob /\ unloaded' = unloaded
           /\ told' = told \cup RestartRequired(OldConfig, job.doc)
  <2>1. job'.phase # "load"
    BY <1>5 DEF NoJob
  <2>2. DocumentPart'
    BY <1>1, <1>3, <1>5, <2>1 DEF DocumentPart
  <2>3. ASSUME NEW s \in Sections, Differs(liveConfig, Resolve(job.doc, env), s)
        PROVE  s \in told' \cup unloaded'
    <3>1. CASE Accepted(file)
      <4>1. CASE Differs(liveConfig, Resolve(file, env), s)
        BY <1>3, <1>5, <4>1 DEF ToldInv, ToldPart
      <4>2. CASE Differs(Resolve(file, env), Resolve(job.doc, env), s)
        <5>1. Differs(file, job.doc, s)
          BY <1>3, <4>2, DiffersResolved
        <5>2. s \in RestartRequired(file, job.doc)
          BY <5>1, DiffersNamed
        <5> QED
          BY <1>5, <3>1, <5>2 DEF OldConfig
      <4> QED
        BY <2>3, <4>1, <4>2, DiffersFrom
    <3>2. CASE ~Accepted(file)
      <4>1. liveConfig = boot /\ boot = Resolve(file, env)
        BY <1>3, <3>2 DEF ToldInv, ToldPart
      <4>2. Differs(Resolve(file, env), job.doc, s)
        BY <1>3, <2>3, <4>1, DiffersResolved
      <4>3. s \in RestartRequired(boot, job.doc)
        BY <4>1, <4>2, DiffersNamed
      <4> QED
        BY <1>5, <3>2, <4>3 DEF OldConfig
    <3> QED
      BY <3>1, <3>2
  <2> QED
    BY <1>1, <1>3, <1>5, <2>2, <2>3 DEF ToldPart
<1>6. CASE /\ file' = job.doc /\ job' = [job EXCEPT !.phase = "load"] /\ told' = told
           /\ unloaded' = unloaded \cup {s \in Sections : Differs(file, job.doc, s)}
  <2>1. DOMAIN job' = DOMAIN job /\ job'.doc = job.doc
    BY <1>3, <1>6
  <2>2. DocumentPart'
    BY <1>1, <1>3, <1>6, <2>1 DEF DocumentPart
  <2>3. ASSUME NEW s \in Sections, Differs(liveConfig, Resolve(job.doc, env), s)
        PROVE  s \in told' \cup unloaded'
    <3>1. CASE Differs(liveConfig, Resolve(file, env), s)
      BY <1>3, <1>6, <3>1 DEF ToldInv, ToldPart
    <3>2. CASE Differs(Resolve(file, env), Resolve(job.doc, env), s)
      <4>1. Differs(file, job.doc, s)
        BY <1>3, <3>2, DiffersResolved
      <4> QED
        BY <1>6, <4>1
    <3> QED
      BY <2>3, <3>1, <3>2, DiffersFrom
  <2> QED
    BY <1>1, <1>3, <1>6, <2>2, <2>3 DEF ToldPart
<1> QED
  BY <1>4, <1>5, <1>6 DEF ReplaceFile

LEMMA ToldReload ==
    ASSUME ToldInv, ReloadConfig
    PROVE  DocumentPart' /\ ToldPart'
<1>1. job.phase = "load" /\ job' = NoJob /\ UNCHANGED <<file, env, up, boot>>
  BY DEF ReloadConfig
<1>2. Accepted(file)
  BY <1>1 DEF ToldInv, DocumentPart
<1>3. DocumentPart'
  BY <1>1, <1>2 DEF ToldInv, DocumentPart
<1>4. ToldPart'
  <2>1. CASE \E config \in LoadAgain(file) : Builds(config)
    <3>1. liveConfig' = CHOOSE config \in LoadAgain(file) : TRUE
      BY <2>1 DEF ReloadConfig
    <3>2. Load(file, env, FALSE) = {Resolve(file, env)}
      BY <2>1, LoadIs DEF LoadAgain
    <3>3. liveConfig' = Resolve(file, env)
      BY <3>1, <3>2 DEF LoadAgain
    <3> QED
      BY <1>1, <1>2, <3>3, DiffersNot DEF ToldPart
  <2>2. CASE ~\E config \in LoadAgain(file) : Builds(config)
    <3>1. UNCHANGED <<liveConfig, told, unloaded>>
      BY <2>2 DEF ReloadConfig
    <3> QED
      BY <1>1, <3>1 DEF ToldInv, ToldPart
  <2> QED
    BY <2>1, <2>2
<1> QED
  BY <1>3, <1>4

LEMMA ToldEdit ==
    ASSUME ToldInv, NEW docs, \A d \in docs : IsDocument(d), NEW how, Edit(docs, how)
    PROVE  DocumentPart' /\ ToldPart'
<1>1. UNCHANGED <<file, env, up, boot, liveConfig, told, unloaded>>
  BY DEF Edit, gatewayState, observed
<1>2. PICK doc \in docs : Accepted(doc) /\ job' = [phase |-> "copy", doc |-> doc, how |-> how, at |-> second]
  BY DEF Edit
<1>3. job'.phase = "copy" /\ job'.doc = doc /\ DOMAIN job' = {"phase", "doc", "how", "at"}
  <2> DEFINE begun == [phase |-> "copy", doc |-> doc, how |-> how, at |-> second]
  <2>1. begun.phase = "copy" /\ begun.doc = doc /\ DOMAIN begun = {"phase", "doc", "how", "at"}
    OBVIOUS
  <2> HIDE DEF begun
  <2>2. job' = begun
    BY <1>2 DEF begun
  <2> QED
    BY <2>1, <2>2
<1>4. DocumentPart'
  BY <1>1, <1>2, <1>3 DEF ToldInv, DocumentPart
<1>5. ToldPart'
  BY <1>1 DEF ToldInv, ToldPart
<1> QED
  BY <1>4, <1>5

\* The documents that the pages make of the file.
LEMMA ToldPage ==
    ASSUME ToldInv, PageEdit
    PROVE  DocumentPart' /\ ToldPart'
<1>1. IsDocument(file)
  BY DEF ToldInv, DocumentPart
<1>2. ASSUME NEW p \in FormFields, NEW text, SaveForm(p[1], p, text)
      PROVE  DocumentPart' /\ ToldPart'
  <2> DEFINE form == [q \in Form(p[1]) |-> IF q = p THEN text ELSE Shown(q)]
  <2>1. Edit(ApplyScalarFields(file, form), "save")
    BY <1>2 DEF SaveForm
  <2>2. DOMAIN form \subseteq DOMAIN Fields
    BY PathsAre DEF Form
  <2> HIDE DEF form
  <2>3. \A d \in ApplyScalarFields(file, form) : IsDocument(d)
    BY <1>1, <2>2, ApplyIs
  <2> QED
    BY <2>1, <2>3, ToldEdit
<1>3. ASSUME NEW list \in {"connections", "virtual_keys"}, NEW w, IsDocument([FirstFile EXCEPT ![list] = w])
      PROVE  IsDocument([file EXCEPT ![list] = w])
  <2>1. list \in Lists
    BY DEF Lists
  <2> QED
    BY <1>1, <1>3, <2>1, ListChange, Zenon
<1>4. ASSUME NEW list \in {"connections", "virtual_keys"}, NEW w \in Written[list], SaveText(list, w)
      PROVE  DocumentPart' /\ ToldPart'
  <2>1. IsDocument([FirstFile EXCEPT ![list] = w])
    BY DocumentAssumption
  <2>3. IsDocument([file EXCEPT ![list] = w])
    BY <1>3, <2>1, Zenon
  <2>4. \A d \in {[file EXCEPT ![list] = w]} : IsDocument(d)
    BY <2>3
  <2>2. Edit({[file EXCEPT ![list] = w]}, "save")
    BY <1>4 DEF SaveText
  <2> QED
    BY <2>2, <2>4, ToldEdit
<1>5. ASSUME NEW w \in Written["virtual_keys"], ApplyKeys(w)
      PROVE  DocumentPart' /\ ToldPart'
  <2>1. IsDocument([FirstFile EXCEPT !.virtual_keys = w])
    BY DocumentAssumption
  <2>3. IsDocument([file EXCEPT !.virtual_keys = w])
    BY <1>3, <2>1, Zenon
  <2>4. \A d \in {[file EXCEPT !.virtual_keys = w]} : IsDocument(d)
    BY <2>3
  <2>2. Edit({[file EXCEPT !.virtual_keys = w]}, "apply")
    BY <1>5 DEF ApplyKeys
  <2> QED
    BY <2>2, <2>4, ToldEdit
<1>6. ASSUME NEW secret, Rotate(secret)
      PROVE  DocumentPart' /\ ToldPart'
  <2> DEFINE path == <<"events", "signing_secret">>
             item == <<"string", secret>>
             kept == [file EXCEPT !.fields = Put(@, path, item)]
             cleared == [file EXCEPT !.fields = Drop(@, path)]
  <2>1. Edit({IF secret = "" THEN cleared ELSE kept}, "apply")
    BY <1>6 DEF Rotate
  <2>2. path \in DOMAIN Fields
    BY PathsAre DEF PathsOf, Tables, EventsFields
  <2>3. item \in {Infer(item[2]), <<"string", item[2]>>}
    OBVIOUS
  <2> HIDE DEF path, item
  <2>4. IsDocument(kept) /\ IsDocument(cleared)
    BY <1>1, <2>2, <2>3, PutField, DropField
  <2> HIDE DEF kept, cleared
  <2>5. \A d \in {IF secret = "" THEN cleared ELSE kept} : IsDocument(d)
    BY <2>4
  <2> QED
    BY <2>1, <2>5, ToldEdit
<1>7. ASSUME NEW name, NEW url, NEW type, NEW value, SaveServer(name, url, type, value)
      PROVE  DocumentPart' /\ ToldPart'
  <2> DEFINE old == IF name \in DOMAIN file.mcp_servers THEN file.mcp_servers[name]
                    ELSE [url |-> url, auth_type |-> type, auth_value |-> {}, extra_headers |-> {}]
             given == IF type = "none" THEN {} ELSE old.auth_value
             new == [old EXCEPT !.url = url, !.auth_type = type,
                                !.auth_value = IF value # "" THEN {value} ELSE given]
             servers == Put(file.mcp_servers, name, new)
  <2>1. Edit({[file EXCEPT !.mcp_servers = servers]}, "apply")
    BY <1>7 DEF SaveServer
  <2>2. ServerParts \subseteq DOMAIN old
    <3>1. CASE name \in DOMAIN file.mcp_servers
      BY <1>1, <3>1 DEF IsDocument
    <3>2. CASE name \notin DOMAIN file.mcp_servers
      BY <3>2 DEF ServerParts
    <3> QED
      BY <3>1, <3>2
  <2>3. DOMAIN new = DOMAIN old
    <3> HIDE DEF old, given
    <3> QED
      OBVIOUS
  <2> HIDE DEF old, new
  <2>4. DOMAIN servers = DOMAIN file.mcp_servers \cup {name}
        /\ \A n \in DOMAIN servers : servers[n] = IF n = name THEN new ELSE file.mcp_servers[n]
    BY DEF Put
  <2> HIDE DEF servers
  <2>5. \A n \in DOMAIN servers : ServerParts \subseteq DOMAIN servers[n]
    BY <1>1, <2>2, <2>3, <2>4 DEF IsDocument
  <2>6. \A d \in {[file EXCEPT !.mcp_servers = servers]} : IsDocument(d)
    BY <1>1, <2>5, ServersChange
  <2> QED
    BY <2>1, <2>6, ToldEdit
<1>8. ASSUME NEW name, DeleteServer(name)
      PROVE  DocumentPart' /\ ToldPart'
  <2> DEFINE servers == Drop(file.mcp_servers, name)
  <2>1. Edit({[file EXCEPT !.mcp_servers = servers]}, "apply")
    BY <1>8 DEF DeleteServer
  <2>2. DOMAIN servers \subseteq DOMAIN file.mcp_servers /\ \A n \in DOMAIN servers : servers[n] = file.mcp_servers[n]
    BY DEF Drop
  <2> HIDE DEF servers
  <2>4. \A n \in DOMAIN servers : ServerParts \subseteq DOMAIN servers[n]
    BY <1>1, <2>2 DEF IsDocument
  <2>3. \A d \in {[file EXCEPT !.mcp_servers = servers]} : IsDocument(d)
    BY <1>1, <2>4, ServersChange
  <2> QED
    BY <2>1, <2>3, ToldEdit
<1> QED
  BY <1>2, <1>4, <1>5, <1>6, <1>7, <1>8 DEF PageEdit

LEMMA ToldByHand ==
    ASSUME ToldInv, EditByHand
    PROVE  DocumentPart' /\ ToldPart'
<1>1. ~up /\ UNCHANGED <<job, env, up>>
  BY DEF EditByHand, gatewayState
<1>2. IsDocument(file) /\ job = NoJob
  BY <1>1 DEF ToldInv, DocumentPart, ConfigIInv, JobPart
<1>3. IsDocument(file')
  <2>1. CASE \E p \in DOMAIN Fields : \E text \in Typed[Fields[p].type] :
                \E item \in {Infer(text), <<"string", text>>} : file' = [file EXCEPT !.fields = Put(@, p, item)]
    <3>1. PICK p \in DOMAIN Fields : \E text :
              \E item \in {Infer(text), <<"string", text>>} : file' = [file EXCEPT !.fields = Put(@, p, item)]
      BY <2>1
    <3>4. PICK text :
              \E item \in {Infer(text), <<"string", text>>} : file' = [file EXCEPT !.fields = Put(@, p, item)]
      BY <3>1
    <3>2. PICK item \in {Infer(text), <<"string", text>>} : file' = [file EXCEPT !.fields = Put(@, p, item)]
      BY <3>4
    <3>3. item \in {Infer(item[2]), <<"string", item[2]>>}
      BY DEF Infer
    <3> QED
      BY <1>2, <3>2, <3>3, PutField
  <2>2. CASE \E p \in DOMAIN file.fields : file' = [file EXCEPT !.fields = Drop(@, p)]
    BY <1>2, <2>2, DropField
  <2>3. CASE \E list \in DOMAIN Written : \E w \in Written[list] : file' = [file EXCEPT ![list] = w]
    <3>1. PICK list \in DOMAIN Written : \E w \in Written[list] : file' = [file EXCEPT ![list] = w]
      BY <2>3
    <3>2. PICK w \in Written[list] : file' = [file EXCEPT ![list] = w]
      BY <3>1
    <3>3. list \in Lists /\ IsDocument([FirstFile EXCEPT ![list] = w])
      BY DocumentAssumption
    <3>4. IsDocument([file EXCEPT ![list] = w])
      BY <1>2, <3>3, ListChange, Zenon
    <3> QED
      BY <3>2, <3>4
  <2> QED
    BY <2>1, <2>2, <2>3 DEF EditByHand
<1>4. job'.phase # "load"
  BY <1>1, <1>2 DEF NoJob
<1> QED
  BY <1>1, <1>2, <1>3, <1>4 DEF ToldInv, DocumentPart, ToldPart

LEMMA ToldStep == ToldInv /\ [ConfigNext]_configVars => (DocumentPart /\ ToldPart)'
<1> SUFFICES ASSUME ToldInv, [ConfigNext]_configVars PROVE DocumentPart' /\ ToldPart'
  OBVIOUS
<1>1. CASE UNCHANGED configVars
  BY <1>1 DEF configVars, ToldInv, DocumentPart, ToldPart
<1>2. CASE Second
  BY <1>2 DEF Second, gatewayState, observed, ToldInv, DocumentPart, ToldPart
<1>3. CASE Stop
  <2>1. UNCHANGED file /\ up' = FALSE /\ job' = NoJob /\ env' = "unset"
    BY <1>3 DEF Stop
  <2>2. job'.phase # "load"
    BY <2>1 DEF NoJob
  <2> QED
    BY <2>1, <2>2 DEF ToldInv, DocumentPart, ToldPart
<1> QED
  BY <1>1, <1>2, <1>3, ToldByHand, ToldCopy, ToldReplace, ToldReload, ToldStart, ToldPage DEF ConfigNext

\* Documents stay documents, and what runs is told apart from the file.
THEOREM ToldInductive == ConfigSpec => []ToldInv
<1>1. ConfigInit => ToldInv
  BY ConfigInitHolds, ToldInit DEF ToldInv
<1>2. ToldInv /\ [ConfigNext]_configVars => ToldInv'
  BY ConfigStep, ToldStep DEF ToldInv
<1> QED
  BY <1>1, <1>2, PTL DEF ConfigSpec

\* What the file has and the gateway has not was named by the page that saved it, or
\* waits for a reload that succeeds.
THEOREM ToldHolds == ConfigSpec => []SavedIsTold
<1>1. ToldInv => SavedIsTold
  <2> SUFFICES ASSUME ToldInv, up, NEW config \in Load(file, env, FALSE), NEW s \in Sections,
                      Differs(liveConfig, config, s)
               PROVE  s \in told \cup unloaded
    BY DEF SavedIsTold
  <2>1. config = Resolve(file, env)
    BY LoadIs
  <2> QED
    BY <2>1 DEF ToldInv, ToldPart
<1> QED
  BY <1>1, ToldInductive, PTL
-----------------------------------------------------------------------------
(* A form saved as it is shown *)

\* The texts of a resolved document, and its sections.
TextsStand(r, d, e) ==
    /\ \A p \in DOMAIN d.fields :
          Value(r, p) = IF p \in ResolvedFields THEN Resolved(Value(d, p), e) ELSE Value(d, p)
    /\ \A p : p \notin DOMAIN d.fields => Value(r, p) = Value(d, p)
    /\ DOMAIN r.fields = DOMAIN d.fields
    /\ \A p \in DOMAIN d.fields : r.fields[p][1] = d.fields[p][1]
    /\ \A section : Present(r, section) <=> Present(d, section)

LEMMA TextsAre ==
    ASSUME NEW d, NEW e, IsDocument(d)
    PROVE  TextsStand(Resolve(d, e), d, e)
<1> DEFINE r == Resolve(d, e)
<1>1. r.fields = ResolveFields(d, e)
  BY ResolveIs DEF Stands
<1> HIDE DEF r
<1>2. /\ DOMAIN r.fields = DOMAIN d.fields
      /\ \A p \in DOMAIN d.fields :
            r.fields[p] = IF p \in ResolvedFields THEN <<d.fields[p][1], Resolved(d.fields[p][2], e)>> ELSE d.fields[p]
  BY <1>1 DEF ResolveFields
<1>7. /\ \A p \in DOMAIN d.fields \cap ResolvedFields :
            r.fields[p][1] = d.fields[p][1] /\ r.fields[p][2] = Resolved(d.fields[p][2], e)
      /\ \A p \in DOMAIN d.fields \ ResolvedFields : r.fields[p] = d.fields[p]
  <2>1. ASSUME NEW p \in DOMAIN d.fields, p \in ResolvedFields
        PROVE  r.fields[p][1] = d.fields[p][1] /\ r.fields[p][2] = Resolved(d.fields[p][2], e)
    <3>1. r.fields[p] = <<d.fields[p][1], Resolved(d.fields[p][2], e)>>
      BY <1>2, <2>1
    <3> QED
      BY <3>1
  <2> QED
    BY <1>2, <2>1
<1>3. \A p \in DOMAIN d.fields :
          Value(r, p) = IF p \in ResolvedFields THEN Resolved(Value(d, p), e) ELSE Value(d, p)
  BY <1>2, <1>7 DEF Value
<1>4. \A p : p \notin DOMAIN d.fields => Value(r, p) = Value(d, p)
  BY <1>2 DEF Value
<1>5. \A p \in DOMAIN d.fields : r.fields[p][1] = d.fields[p][1]
  BY <1>7
<1>6. \A section : Present(r, section) <=> Present(d, section)
  BY <1>2 DEF Present
<1> QED
  BY <1>2, <1>3, <1>4, <1>5, <1>6 DEF r, TextsStand

\* A scalar is its entry in the table of its section.
LEMMA FieldIs ==
    \A section \in DOMAIN Tables : \A f \in DOMAIN Tables[section] : Fields[<<section, f>>] = Tables[section][f]
<1> TAKE section \in DOMAIN Tables
<1> TAKE f \in DOMAIN Tables[section]
<1>1. <<section, f>> \in DOMAIN Fields
  BY PathsAre DEF PathsOf
<1>2. <<section, f>>[1] = section /\ <<section, f>>[2] = f
  OBVIOUS
<1> QED
  BY <1>1, <1>2 DEF Fields

\* What the resolved scalars have to meet.
LEMMA RulesAre ==
    /\ Fields[<<"server", "status_token">>].rule = "any" /\ Fields[<<"events", "auth_bearer">>].rule = "any"
    /\ Fields[<<"ner", "model_dir">>].rule = "nonempty" /\ Fields[<<"vault", "path">>].rule = "nonempty"
    /\ Fields[<<"history", "postgres_url">>].rule = "nonempty" /\ Fields[<<"auth", "session_key">>].rule = "nonempty"
    /\ Fields[<<"vault", "key">>].rule = "hex" /\ Fields[<<"events", "url">>].rule = "url"
<1>1. \A section \in DOMAIN Tables : \A f \in DOMAIN Tables[section] : Fields[<<section, f>>] = Tables[section][f]
  BY FieldIs
<1>2. {"server", "events", "ner", "vault", "history", "auth"} \subseteq DOMAIN Tables
  BY DEF Tables
<1>3. Fields[<<"server", "status_token">>].rule = "any"
  BY <1>1, <1>2 DEF Tables, ServerFields, Field
<1>4. Fields[<<"events", "auth_bearer">>].rule = "any" /\ Fields[<<"events", "url">>].rule = "url"
  BY <1>1, <1>2 DEF Tables, EventsFields, Field
<1>5. Fields[<<"ner", "model_dir">>].rule = "nonempty"
  BY <1>1, <1>2 DEF Tables, NerFields, Field
<1>6. Fields[<<"vault", "path">>].rule = "nonempty" /\ Fields[<<"vault", "key">>].rule = "hex"
  BY <1>1, <1>2 DEF Tables, VaultFields, Field
<1>7. Fields[<<"history", "postgres_url">>].rule = "nonempty"
  BY <1>1, <1>2 DEF Tables, HistoryFields, Field
<1>8. Fields[<<"auth", "session_key">>].rule = "nonempty"
  BY <1>1, <1>2 DEF Tables, AuthFields, Field
<1> QED
  BY <1>3, <1>4, <1>5, <1>6, <1>7, <1>8

LEMMA ResolvedIs ==
    \A t, e : Resolved(t, e) = IF t = "${V}" THEN e ELSE IF t = "url${V}" THEN "url" ELSE t
  BY DEF Resolved, IsReference

\* What starts is accepted by a page: but for a URL that is a reference, and what
\* refers to a variable that is empty.
LEMMA FieldsBack ==
    ASSUME NEW d, NEW e, IsDocument(d), FieldsValid(Resolve(d, e), FALSE), ~BareUrl(d), e # ""
    PROVE  FieldsValid(d, TRUE)
<1> DEFINE r == Resolve(d, e)
<1>1. TextsStand(r, d, e) /\ FieldsValid(r, FALSE)
  BY TextsAre
<1> HIDE DEF r
<1>2. SUFFICES ASSUME NEW p \in DOMAIN d.fields,
                      ~(p[1] \in Optional /\ ~Present(d, p[1])),
                      ~(p[1] = "otel" /\ Value(d, <<"otel", "enabled">>) # "true"),
                      Value(d, p) # Absent, ~Skipped(p, Value(d, p), TRUE)
               PROVE  Meets(Fields[p].rule, Value(d, p))
  BY DEF FieldsValid
<1>3. <<"otel", "enabled">> \notin ResolvedFields
  BY DEF ResolvedFields
<1>4. Value(r, <<"otel", "enabled">>) = Value(d, <<"otel", "enabled">>)
  BY <1>1, <1>3 DEF TextsStand
<1>5. Value(r, p) = Absent \/ Meets(Fields[p].rule, Value(r, p))
  BY <1>1, <1>2, <1>4 DEF FieldsValid, Skipped, TextsStand
<1> DEFINE text == Value(d, p)  value == Value(r, p)
<1>6. CASE p \notin ResolvedFields
  BY <1>1, <1>2, <1>5, <1>6 DEF TextsStand
<1>7. CASE p \in ResolvedFields
  <2>1. value = Resolved(text, e)
    BY <1>1, <1>7 DEF TextsStand
  <2>2. value = IF text = "${V}" THEN e ELSE IF text = "url${V}" THEN "url" ELSE text
    BY <2>1, ResolvedIs
  <2>3. text # Absent /\ (value = Absent \/ Meets(Fields[p].rule, value))
    BY <1>2, <1>5
  <2> HIDE DEF text, value
  <2>4. CASE p = <<"server", "status_token">> \/ p = <<"events", "auth_bearer">>
    <3>1. Fields[p].rule = "any"
      BY <2>4, RulesAre
    <3> QED
      BY <3>1 DEF Meets, text
  <2>5. CASE p \in {<<"ner", "model_dir">>, <<"vault", "path">>, <<"history", "postgres_url">>, <<"auth", "session_key">>}
    <3>1. Fields[p].rule = "nonempty"
      BY <2>5, RulesAre
    <3>2. text # ""
      BY <2>2, <2>3, <3>1 DEF Meets, Absent
    <3> QED
      BY <3>1, <3>2 DEF Meets, text
  <2>6. CASE p = <<"vault", "key">>
    <3>1. Fields[p].rule = "hex"
      BY <2>6, RulesAre
    <3>2. text # "${V}"
      BY <1>2, <2>6 DEF Skipped, IsReference, text
    <3>3. text = "hex"
      BY <2>2, <2>3, <3>1, <3>2 DEF Meets, Absent
    <3> QED
      BY <3>1, <3>3 DEF Meets, text
  <2>7. CASE p = <<"events", "url">>
    <3>1. Fields[p].rule = "url"
      BY <2>7, RulesAre
    <3>2. text # "${V}"
      BY <2>7 DEF BareUrl, text
    <3>3. IsUrl(text)
      BY <2>2, <2>3, <3>1, <3>2 DEF Meets, Absent, IsUrl
    <3> QED
      BY <3>1, <3>3 DEF Meets, text
  <2> QED
    BY <1>7, <2>4, <2>5, <2>6, <2>7 DEF ResolvedFields
<1> QED
  BY <1>6, <1>7

\* The lists that are not resolved, and what is not in the connections and servers.
LEMMA ConnectionsBack ==
    ASSUME NEW d, NEW e, IsDocument(d), ConnectionsValid(Resolve(d, e)), ~BareUrl(d), e # ""
    PROVE  /\ ConnectionsValid(d)
           /\ Names(d.connections) = Names(Resolve(d, e).connections)
<1> DEFINE r == Resolve(d, e)
<1>0. Stands(r, d, e)
  BY ResolveIs
<1>1. r.connections = [i \in DOMAIN d.connections |-> ResolveConnection(d.connections[i], e)]
  <2> HIDE DEF r
  <2> QED
    BY <1>0 DEF Stands
<1>2. ConnectionsValid(r)
  OBVIOUS
<1> HIDE DEF r
<1>3. ASSUME NEW i \in DOMAIN d.connections
      PROVE  LET c == d.connections[i]
                 rc == r.connections[i]
             IN /\ i \in DOMAIN r.connections /\ c \in Range(d.connections) /\ rc \in Range(r.connections)
                /\ rc.name = c.name /\ rc.format = c.format /\ rc.models = c.models /\ rc.costs = c.costs
                /\ rc.base_url = Resolved(c.base_url, e) /\ rc.id = Resolved(c.id, e)
                /\ rc.secret = Resolved(c.secret, e) /\ rc.token = Resolved(c.token, e)
                /\ rc.region = Resolved(c.region, e) /\ rc.api_key = Resolved(c.api_key, e)
  <2> DEFINE c == d.connections[i]  rc == r.connections[i]
  <2>1. i \in DOMAIN r.connections /\ rc = ResolveConnection(c, e)
    BY <1>1
  <2>2. c \in Range(d.connections) /\ rc \in Range(r.connections)
    BY <2>1 DEF Range
  <2>3. ConnectionParts \subseteq DOMAIN c
    BY <2>2 DEF IsDocument
  <2> HIDE DEF c, rc
  <2>4. \A f \in DOMAIN c : rc[f] = IF f \in ConnectionTexts THEN Resolved(c[f], e) ELSE c[f]
    BY <2>1 DEF ResolveConnection
  <2>5. /\ rc.name = c.name /\ rc.format = c.format /\ rc.models = c.models /\ rc.costs = c.costs
        /\ rc.base_url = Resolved(c.base_url, e) /\ rc.id = Resolved(c.id, e)
        /\ rc.secret = Resolved(c.secret, e) /\ rc.token = Resolved(c.token, e)
        /\ rc.region = Resolved(c.region, e) /\ rc.api_key = Resolved(c.api_key, e)
    BY <2>3, <2>4 DEF ConnectionParts, ConnectionTexts
  <2> QED
    BY <2>1, <2>2, <2>5 DEF c, rc
<1>4. DOMAIN r.connections = DOMAIN d.connections
  BY <1>1
<1>5. Names(d.connections) = Names(r.connections)
  BY <1>3, <1>4, ZenonT(60) DEF Names
<1>6. Unique(d.connections, LAMBDA c : c.name)
  <2>1. \A i, j \in DOMAIN r.connections : r.connections[i].name = r.connections[j].name => i = j
    BY <1>2 DEF ConnectionsValid, Unique
  <2>2. \A i \in DOMAIN d.connections : r.connections[i].name = d.connections[i].name
    BY <1>3
  <2>3. \A i, j \in DOMAIN d.connections : d.connections[i].name = d.connections[j].name => i = j
    BY <1>4, <2>1, <2>2
  <2> QED
    BY <2>3 DEF Unique
<1>7. ASSUME NEW c \in Range(d.connections)
      PROVE  LET signed == c.id # "" /\ c.secret # ""
             IN /\ c.name # "" /\ IsUrl(c.base_url)
                /\ c.id # "" <=> c.secret # ""
                /\ c.token # "" => signed
                /\ signed => c.region # ""
                /\ c.api_key = "" => signed /\ c.format = "bedrock_converse"
                /\ Unique(c.models, LAMBDA m : m)
                /\ \A m \in Range(c.models) \cup {cost[1] : cost \in c.costs} : PatternValid(m)
                /\ \A cost \in c.costs : cost[2] # "-1"
  <2>1. PICK i \in DOMAIN d.connections : c = d.connections[i]
    BY DEF Range
  <2> DEFINE rc == r.connections[i]
  <2>2. /\ rc \in Range(r.connections)
        /\ rc.name = c.name /\ rc.format = c.format /\ rc.models = c.models /\ rc.costs = c.costs
        /\ rc.base_url = Resolved(c.base_url, e) /\ rc.id = Resolved(c.id, e)
        /\ rc.secret = Resolved(c.secret, e) /\ rc.token = Resolved(c.token, e)
        /\ rc.region = Resolved(c.region, e) /\ rc.api_key = Resolved(c.api_key, e)
    BY <1>3, <2>1
  <2> HIDE DEF rc
  <2>3. /\ rc.name # "" /\ IsUrl(rc.base_url)
        /\ rc.id # "" <=> rc.secret # ""
        /\ rc.token # "" => rc.id # "" /\ rc.secret # ""
        /\ rc.id # "" /\ rc.secret # "" => rc.region # ""
        /\ rc.api_key = "" => rc.id # "" /\ rc.secret # "" /\ rc.format = "bedrock_converse"
        /\ Unique(rc.models, LAMBDA m : m)
        /\ \A m \in Range(rc.models) \cup {cost[1] : cost \in rc.costs} : PatternValid(m)
        /\ \A cost \in rc.costs : cost[2] # "-1"
    BY <1>2, <2>2, Zenon DEF ConnectionsValid
  <2>4. \A t : Resolved(t, e) = "" <=> t = ""
    BY ResolvedIs
  <2>5. c.base_url # "${V}"
    BY DEF BareUrl
  <2>6. IsUrl(c.base_url)
    BY <2>2, <2>3, <2>5, ResolvedIs DEF IsUrl
  <2>7. /\ c.name # ""
        /\ c.id # "" <=> c.secret # ""
        /\ c.token # "" => c.id # "" /\ c.secret # ""
        /\ c.id # "" /\ c.secret # "" => c.region # ""
        /\ c.api_key = "" => c.id # "" /\ c.secret # "" /\ c.format = "bedrock_converse"
    BY <2>2, <2>3, <2>4
  <2>8. /\ Unique(c.models, LAMBDA m : m)
        /\ \A m \in Range(c.models) \cup {cost[1] : cost \in c.costs} : PatternValid(m)
        /\ \A cost \in c.costs : cost[2] # "-1"
    BY <2>2, <2>3
  <2> QED
    BY <2>6, <2>7, <2>8
<1>8. ConnectionsValid(d)
  BY <1>6, <1>7, Zenon DEF ConnectionsValid
<1> QED
  BY <1>5, <1>8 DEF r

LEMMA ServersBack ==
    ASSUME NEW d, NEW e, IsDocument(d), McpServersValid(Resolve(d, e)), ~BareUrl(d), e # ""
    PROVE  /\ McpServersValid(d)
           /\ DOMAIN d.mcp_servers = DOMAIN Resolve(d, e).mcp_servers
<1> DEFINE r == Resolve(d, e)
<1>0. Stands(r, d, e)
  BY ResolveIs
<1>1. r.mcp_servers = [n \in DOMAIN d.mcp_servers |-> ResolveServer(d.mcp_servers[n], e)]
  <2> HIDE DEF r
  <2> QED
    BY <1>0 DEF Stands
<1>2. McpServersValid(r)
  OBVIOUS
<1> HIDE DEF r
<1>3. ASSUME NEW n \in DOMAIN d.mcp_servers
      PROVE  LET s == d.mcp_servers[n]
             IN /\ n \notin {"", "a b"} /\ IsUrl(s.url)
                /\ IF s.auth_type = "none" THEN s.auth_value = {} ELSE s.auth_value \notin {{}, {""}}
                /\ s.auth_value # {"ctl"}
                /\ \A h \in s.extra_headers : h[1] \notin {"", "a b"} /\ h[2] # "ctl"
  <2> DEFINE s == d.mcp_servers[n]  rs == r.mcp_servers[n]
  <2>1. n \in DOMAIN r.mcp_servers /\ rs = ResolveServer(s, e) /\ ServerParts \subseteq DOMAIN s
    BY <1>1 DEF IsDocument
  <2>2. s.url # "${V}"
    BY DEF BareUrl, Range
  <2>3. /\ n \notin {"", "a b"} /\ IsUrl(rs.url)
        /\ IF rs.auth_type = "none" THEN rs.auth_value = {} ELSE rs.auth_value \notin {{}, {""}}
        /\ rs.auth_value # {"ctl"}
        /\ \A h \in rs.extra_headers : h[1] \notin {"", "a b"} /\ h[2] # "ctl"
    BY <1>2, <2>1, Zenon DEF McpServersValid
  <2> HIDE DEF s, rs
  <2>4. /\ rs.url = Resolved(s.url, e) /\ rs.auth_type = s.auth_type
        /\ rs.auth_value = {Resolved(v, e) : v \in s.auth_value}
        /\ rs.extra_headers = {<<h[1], Resolved(h[2], e)>> : h \in s.extra_headers}
    BY <2>1 DEF ResolveServer, ServerParts
  <2>5. IsUrl(s.url)
    BY <2>2, <2>3, <2>4, ResolvedIs DEF IsUrl
  <2>6. IF s.auth_type = "none" THEN s.auth_value = {} ELSE s.auth_value \notin {{}, {""}}
    <3>1. s.auth_value = {} <=> rs.auth_value = {}
      BY <2>4, ZenonT(60)
    <3>2. s.auth_value = {""} => rs.auth_value = {Resolved("", e)}
      BY <2>4
    <3>3. Resolved("", e) = ""
      BY ResolvedIs
    <3> QED
      BY <2>3, <2>4, <3>1, <3>2, <3>3
  <2>7. s.auth_value # {"ctl"}
    <3>1. s.auth_value = {"ctl"} => rs.auth_value = {Resolved("ctl", e)}
      BY <2>4
    <3>2. Resolved("ctl", e) = "ctl"
      BY ResolvedIs
    <3> QED
      BY <2>3, <3>1, <3>2
  <2>8. ASSUME NEW h \in s.extra_headers PROVE h[1] \notin {"", "a b"} /\ h[2] # "ctl"
    <3> DEFINE g == <<h[1], Resolved(h[2], e)>>
    <3>1. g \in rs.extra_headers /\ g[1] = h[1] /\ g[2] = Resolved(h[2], e)
      BY <2>4
    <3>2. g[1] \notin {"", "a b"} /\ g[2] # "ctl"
      BY <2>3, <3>1
    <3> HIDE DEF g
    <3> QED
      BY <3>1, <3>2, ResolvedIs
  <2> QED
    BY <2>3, <2>5, <2>6, <2>7, <2>8 DEF s
<1>4. McpServersValid(d)
  BY <1>3, Zenon DEF McpServersValid
<1>5. DOMAIN r.mcp_servers = DOMAIN d.mcp_servers
  BY <1>1
<1> QED
  BY <1>4, <1>5 DEF r

LEMMA ValidBack ==
    ASSUME NEW d, NEW e, IsDocument(d), Valid(Resolve(d, e), FALSE), ~BareUrl(d), e # ""
    PROVE  Valid(d, TRUE)
<1> DEFINE r == Resolve(d, e)
<1>1. /\ FieldsValid(r, FALSE) /\ ConnectionsValid(r) /\ KeysValid(r) /\ RecognizersValid(r)
      /\ EntitiesValid(r) /\ NerValid(r) /\ GuardrailsValid(r) /\ McpServersValid(r)
  BY DEF Valid
<1>2. FieldsValid(d, TRUE)
  BY <1>1, FieldsBack
<1>3. ConnectionsValid(d) /\ Names(d.connections) = Names(r.connections)
  BY <1>1, ConnectionsBack
<1>4. McpServersValid(d) /\ DOMAIN d.mcp_servers = DOMAIN r.mcp_servers
  BY <1>1, ServersBack
<1>5. /\ r.virtual_keys = d.virtual_keys /\ r.custom_recognizers = d.custom_recognizers
      /\ r.entities = d.entities /\ r.scan_roles = d.scan_roles /\ r.guardrails = d.guardrails
  <2>1. {"virtual_keys", "custom_recognizers", "entities", "scan_roles", "guardrails"}
           \subseteq Lists \ {"connections", "mcp_servers"}
    BY DEF Lists
  <2>2. \A list \in Lists \ {"connections", "mcp_servers"} : r[list] = d[list]
    BY ResolveIs DEF Stands
  <2> HIDE DEF r
  <2> QED
    BY <2>1, <2>2
<1>6. /\ Value(r, <<"pii", "require_ner">>) = Value(d, <<"pii", "require_ner">>)
      /\ Present(r, "ner") <=> Present(d, "ner")
  <2>1. TextsStand(r, d, e)
    BY TextsAre
  <2> HIDE DEF r
  <2> QED
    BY <2>1 DEF TextsStand, ResolvedFields
<1> HIDE DEF r
<1>7. KeysValid(d)
  BY <1>1, <1>3, <1>4, <1>5, Zenon DEF KeysValid
<1>8. RecognizersValid(d)
  BY <1>1, <1>5, Zenon DEF RecognizersValid
<1>9. EntitiesValid(d)
  BY <1>1, <1>5, Zenon DEF EntitiesValid
<1>10. NerValid(d)
  BY <1>1, <1>5, <1>6, Zenon DEF NerValid
<1>11. GuardrailsValid(d)
  BY <1>1, <1>5, Zenon DEF GuardrailsValid
<1> QED
  BY <1>2, <1>3, <1>4, <1>7, <1>8, <1>9, <1>10, <1>11 DEF Valid

\* What stands in for a scalar of a form that the file has not is an item of its type.
FormDefault(field) == field.default \notin {Absent, Required} /\ Fits(field.type, Infer(field.default))

LEMMA FormIs ==
    /\ \A p \in FormFields : \/ p \in {<<"events", "url">>, <<"events", "auth_bearer">>}
                             \/ p \notin ResolvedFields /\ FormDefault(Fields[p])
    /\ Fields[<<"events", "url">>].type = "string" /\ Fields[<<"events", "auth_bearer">>].type = "string"
    /\ Fields[<<"events", "url">>].default = Required /\ Fields[<<"events", "auth_bearer">>].default = Absent
<1>1. \A a, b : <<a, b>>[1] = a /\ <<a, b>>[2] = b
  OBVIOUS
<1>2. {"server", "pii", "events", "tracing", "otel"} \subseteq DOMAIN Tables
  BY DEF Tables
<1>3. /\ Infer("addr") = <<"string", "addr">> /\ Infer("7") = <<"int", "7">> /\ Infer("1") = <<"int", "1">>
      /\ Infer("true") = <<"bool", "true">> /\ Infer("false") = <<"bool", "false">>
      /\ Infer("word") = <<"string", "word">> /\ Infer("url") = <<"string", "url">>
  BY DEF Infer
<1>4. /\ FormDefault(Field("addr", "any", "addr")) /\ FormDefault(Field("nat", "positive", "7"))
      /\ FormDefault(Field("nat", "any", "7")) /\ FormDefault(Field("bool", "any", "true"))
      /\ FormDefault(Field("bool", "any", "false")) /\ FormDefault(Field("string", "any", "word"))
      /\ FormDefault(Field("string", "url", "url")) /\ FormDefault(Field("float", "ratio", "1"))
  BY <1>1, <1>3 DEF FormDefault, Fits, Field, Absent, Required
<1>5. FormDefault(Fields[<<"server", "bind_addr">>]) /\ FormDefault(Fields[<<"server", "max_body_bytes">>])
  BY <1>2, <1>4, FieldIs DEF Tables, ServerFields
<1>6. FormDefault(Fields[<<"pii", "enabled_by_default">>])
  BY <1>2, <1>4, FieldIs DEF Tables, PiiFields
<1>7. FormDefault(Fields[<<"events", "buffer_size">>]) /\ FormDefault(Fields[<<"events", "timeout_ms">>])
  BY <1>2, <1>4, FieldIs DEF Tables, EventsFields
<1>8. \A p \in PathsOf("tracing") : FormDefault(Fields[p])
  <2>1. \A f \in DOMAIN TracingFields : FormDefault(TracingFields[f])
    BY <1>4 DEF TracingFields
  <2>2. Tables["tracing"] = TracingFields
    BY DEF Tables
  <2> QED
    BY <1>2, <2>1, <2>2, FieldIs DEF PathsOf
<1>9. \A p \in PathsOf("otel") : FormDefault(Fields[p])
  <2>1. \A f \in DOMAIN OtelFields : FormDefault(OtelFields[f])
    BY <1>4 DEF OtelFields
  <2>2. Tables["otel"] = OtelFields
    BY DEF Tables
  <2> QED
    BY <1>2, <2>1, <2>2, FieldIs DEF PathsOf
<1>10. \A p \in FormFields : p \in {<<"events", "url">>, <<"events", "auth_bearer">>} \/ FormDefault(Fields[p])
  BY <1>5, <1>6, <1>7, <1>8, <1>9 DEF FormFields
<1>11. \A p \in FormFields : p \in {<<"events", "url">>, <<"events", "auth_bearer">>} \/ p \notin ResolvedFields
  <2>1. \A p \in PathsOf("tracing") \cup PathsOf("otel") : p \notin ResolvedFields
    BY <1>1 DEF PathsOf, ResolvedFields
  <2> QED
    BY <2>1 DEF FormFields, ResolvedFields
<1>12. /\ Fields[<<"events", "url">>].type = "string" /\ Fields[<<"events", "auth_bearer">>].type = "string"
       /\ Fields[<<"events", "url">>].default = Required /\ Fields[<<"events", "auth_bearer">>].default = Absent
  BY <1>2, FieldIs DEF Tables, EventsFields, Field
<1> QED
  BY <1>10, <1>11, <1>12

\* What a form shows of a scalar is stored as what it was: but for a number.
LEMMA ItemKept ==
    ASSUME NEW d, NEW e, IsDocument(d), Parses(d), NEW p \in FormFields,
           p \in DOMAIN d.fields => d.fields[p][1] # "float",
           p \notin DOMAIN d.fields => p \notin {<<"events", "url">>, <<"events", "auth_bearer">>}
    PROVE  \E item : /\ SetValue(d, p, Value(Resolve(d, e), p)) = {item}
                     /\ item[2] = Value(Resolve(d, e), p) /\ Fits(Fields[p].type, item)
<1> DEFINE text == Value(Resolve(d, e), p)
<1>0. \A a, b : <<a, b>>[1] = a /\ <<a, b>>[2] = b
  OBVIOUS
<1>1. TextsStand(Resolve(d, e), d, e)
  BY TextsAre
<1>2. /\ p \in DOMAIN d.fields /\ p \notin ResolvedFields => text = d.fields[p][2]
      /\ p \notin DOMAIN d.fields => text = Fields[p].default
  BY <1>1 DEF TextsStand, Value
<1> HIDE DEF text
<1>3. Infer(text)[2] = text /\ Infer(text)[1] \in {"bool", "int", "float", "string"}
  BY <1>0 DEF Infer
<1>4. CASE p \notin DOMAIN d.fields
  <2>1. SetValue(d, p, text) = {Infer(text)} /\ Fits(Fields[p].type, Infer(text))
    BY <1>2, <1>4, FormIs DEF SetValue, FormDefault
  <2> QED
    BY <1>3, <2>1 DEF text
<1>5. CASE p \in DOMAIN d.fields /\ p \notin ResolvedFields
  <2> DEFINE item == d.fields[p]
  <2>1. item \in {Infer(text), <<"string", text>>} /\ Fits(Fields[p].type, item) /\ item[1] # "float" /\ item[2] = text
    BY <1>2, <1>5 DEF IsDocument, Parses
  <2>2. SetValue(d, p, text) = Coerce(item, text)
    BY <1>5 DEF SetValue
  <2> HIDE DEF item
  <2>3. CASE item[1] \in {"bool", "int"}
    <3>1. item = Infer(text)
      BY <1>0, <2>1, <2>3
    <3>2. <<item[1], text>> = item
      BY <1>0, <3>1 DEF Infer
    <3>3. Coerce(item, text) = {item}
      BY <2>3, <3>1, <3>2 DEF Coerce
    <3> QED
      BY <2>1, <2>2, <3>3 DEF text
  <2>4. CASE item[1] \notin {"bool", "int"}
    <3>1. Coerce(item, text) = {<<"string", text>>}
      BY <2>4 DEF Coerce
    <3>2. item = <<"string", text>>
      <4>1. CASE item = Infer(text)
        BY <1>0, <1>3, <2>1, <2>4, <4>1 DEF Infer
      <4> QED
        BY <2>1, <4>1
    <3> QED
      BY <2>1, <2>2, <3>1, <3>2 DEF text
  <2> QED
    BY <2>3, <2>4
<1>6. CASE p \in DOMAIN d.fields /\ p \in ResolvedFields
  <2>1. p \in {<<"events", "url">>, <<"events", "auth_bearer">>} /\ Fields[p].type = "string"
    BY <1>6, FormIs
  <2>2. d.fields[p][1] = "string"
    BY <1>6, <2>1 DEF Parses, Fits
  <2>3. SetValue(d, p, text) = {<<"string", text>>}
    BY <1>6, <2>2 DEF SetValue, Coerce
  <2>4. Fits(Fields[p].type, <<"string", text>>)
    BY <1>0, <2>1 DEF Fits
  <2> QED
    BY <1>0, <2>3, <2>4 DEF text
<1> QED
  BY <1>4, <1>5, <1>6

\* What is valid depends on the lists, the sections there are and the texts.
LEMMA ValidSame ==
    ASSUME NEW a, NEW b, Valid(b, FALSE),
           a.connections = b.connections, a.virtual_keys = b.virtual_keys, a.mcp_servers = b.mcp_servers,
           a.guardrails = b.guardrails, a.custom_recognizers = b.custom_recognizers,
           a.entities = b.entities, a.scan_roles = b.scan_roles,
           \A p : Value(a, p) = Value(b, p),
           \A section \in Optional : Present(a, section) <=> Present(b, section),
           \A p \in DOMAIN a.fields : p \in DOMAIN b.fields \/ Meets(Fields[p].rule, Value(b, p))
    PROVE  Valid(a, FALSE)
<1>1. /\ FieldsValid(b, FALSE) /\ ConnectionsValid(b) /\ KeysValid(b) /\ RecognizersValid(b)
      /\ EntitiesValid(b) /\ NerValid(b) /\ GuardrailsValid(b) /\ McpServersValid(b)
  BY DEF Valid
<1>2. FieldsValid(a, FALSE)
  BY <1>1 DEF FieldsValid, Skipped
<1>3. ConnectionsValid(a)
  BY <1>1, Zenon DEF ConnectionsValid
<1>4. KeysValid(a)
  BY <1>1, Zenon DEF KeysValid
<1>5. RecognizersValid(a)
  BY <1>1, Zenon DEF RecognizersValid
<1>6. EntitiesValid(a)
  BY <1>1, Zenon DEF EntitiesValid
<1>7. NerValid(a)
  <2>1. "ner" \in Optional
    BY DEF Optional
  <2> QED
    BY <1>1, <2>1, Zenon DEF NerValid
<1>8. GuardrailsValid(a)
  BY <1>1, Zenon DEF GuardrailsValid
<1>9. McpServersValid(a)
  BY <1>1, Zenon DEF McpServersValid
<1> QED
  BY <1>2, <1>3, <1>4, <1>5, <1>6, <1>7, <1>8, <1>9 DEF Valid
\* A form saved as it is shown.
ShownForm(section) == [p \in Form(section) |-> Shown(p)]
Stored(section) == {p \in Form(section) : Shown(p) # Sentinel}

\* What is assumed of the file and of the form.
FormPart(section) ==
    /\ IsDocument(file) /\ env # "" /\ env # "url${V}"
    /\ Load(file, env, FALSE) = {boot} /\ ~BareUrl(file)
    /\ section = "events" => Present(boot, "events")
    /\ \A p \in Form(section) \cap DOMAIN file.fields : file.fields[p][1] # "float"

LEMMA BootIs ==
    ASSUME NEW section, FormPart(section)
    PROVE  /\ boot = Resolve(file, env) /\ Parses(file) /\ Valid(boot, FALSE)
           /\ Value(boot, <<"server", "status_token">>) # ""
           /\ env = "unset" => \A text \in References(file) : ~Refers(text)
<1>1. Load(file, env, FALSE) = {boot}
  BY DEF FormPart
<1>2. boot = Resolve(file, env)
  BY <1>1, LoadIs
<1> QED
  BY <1>1, <1>2 DEF Load

\* The items that are stored: as many as the form shows, and of the same texts.
LEMMA StoredIs ==
    ASSUME NEW section, FormPart(section), NEW p \in Stored(section)
    PROVE  /\ p \in FormFields /\ p[1] = section /\ Shown(p) = Value(boot, p)
           /\ p \notin DOMAIN file.fields => p \notin {<<"events", "url">>, <<"events", "auth_bearer">>}
           /\ \E item : /\ SetValue(file, p, Shown(p)) = {item}
                        /\ item[2] = Value(boot, p) /\ Fits(Fields[p].type, item)
<1>1. p \in FormFields /\ p[1] = section /\ Shown(p) # Sentinel
  BY DEF Stored, Form
<1>2. Shown(p) = Value(boot, p) /\ (p = <<"events", "auth_bearer">> => Refers(Value(boot, p)))
  BY <1>1 DEF Shown
<1>3. boot = Resolve(file, env) /\ Parses(file) /\ IsDocument(file)
  BY BootIs DEF FormPart
<1>4. TextsStand(boot, file, env)
  BY <1>3, TextsAre
<1>5. ASSUME p \notin DOMAIN file.fields, p = <<"events", "auth_bearer">> PROVE FALSE
  <2>1. Value(boot, p) = Absent
    BY <1>4, <1>5, FormIs DEF TextsStand, Value
  <2> QED
    BY <1>2, <1>5, <2>1 DEF Refers, Absent
<1>6. ASSUME p \notin DOMAIN file.fields, p = <<"events", "url">> PROVE FALSE
  <2>1. p[1] = "events" /\ section = "events"
    BY <1>1, <1>6
  <2>2. Present(file, p[1])
    BY <1>4, <2>1 DEF FormPart, TextsStand
  <2>3. p \in DOMAIN Fields /\ Fields[p].default = Required
    BY <1>1, <1>6, PathsAre, FormIs
  <2> QED
    BY <1>3, <1>6, <2>2, <2>3 DEF Parses
<1>7. p \notin DOMAIN file.fields => p \notin {<<"events", "url">>, <<"events", "auth_bearer">>}
  BY <1>5, <1>6
<1>8. p \in DOMAIN file.fields => file.fields[p][1] # "float"
  BY <1>1 DEF FormPart, Form
<1>9. \E item : /\ SetValue(file, p, Value(boot, p)) = {item}
                /\ item[2] = Value(boot, p) /\ Fits(Fields[p].type, item)
  BY <1>1, <1>3, <1>7, <1>8, ItemKept
<1> QED
  BY <1>1, <1>2, <1>7, <1>9

\* The document that it makes of the file.
IsStored(doc, section) ==
    /\ doc \in ApplyScalarFields(file, ShownForm(section)) /\ IsDocument(doc)
    /\ \A list \in Lists : doc[list] = file[list]
    /\ DOMAIN doc.fields = Stored(section) \cup DOMAIN file.fields
    /\ \A p \in Stored(section) : doc.fields[p][2] = Value(boot, p) /\ Fits(Fields[p].type, doc.fields[p])
    /\ \A p \in DOMAIN file.fields \ Stored(section) : doc.fields[p] = file.fields[p]

LEMMA FormStored ==
    ASSUME NEW section, FormPart(section)
    PROVE  \E doc : IsStored(doc, section)
<1> DEFINE form == ShownForm(section)
           typed == {p \in DOMAIN form : form[p] # Sentinel}
           f == [p \in typed \cup DOMAIN file.fields |->
                    IF p \in typed THEN CHOOSE item \in SetValue(file, p, form[p]) : TRUE ELSE file.fields[p]]
           doc == [file EXCEPT !.fields = f]
<1>1. DOMAIN form = Form(section) /\ (\A p \in Form(section) : form[p] = Shown(p))
  BY DEF ShownForm
<1>2. typed = Stored(section)
  BY <1>1 DEF Stored
<1>3. ASSUME NEW p \in typed
      PROVE  SetValue(file, p, form[p]) # {} /\ f[p][2] = Value(boot, p) /\ Fits(Fields[p].type, f[p])
  <2>1. PICK item : /\ SetValue(file, p, form[p]) = {item}
                    /\ item[2] = Value(boot, p) /\ Fits(Fields[p].type, item)
    BY <1>1, <1>2, StoredIs
  <2>2. f[p] = CHOOSE x \in SetValue(file, p, form[p]) : TRUE
    OBVIOUS
  <2>3. f[p] = item
    BY <2>1, <2>2
  <2> QED
    BY <2>1, <2>3
<1>4. \A p \in DOMAIN file.fields \ typed : f[p] = file.fields[p]
  OBVIOUS
<1>5. DOMAIN f = typed \cup DOMAIN file.fields
  OBVIOUS
<1>6. doc \in ApplyScalarFields(file, form)
  <2>1. ~\E p \in typed : SetValue(file, p, form[p]) = {}
    BY <1>3
  <2> QED
    BY <2>1, Zenon DEF ApplyScalarFields
<1>7. IsDocument(file) /\ DOMAIN form \subseteq DOMAIN Fields
  BY <1>1, PathsAre DEF FormPart, Form
<1> HIDE DEF form
<1>8. IsDocument(doc)
  BY <1>6, <1>7, ApplyIs
<1> HIDE DEF f
<1>9. doc.fields = f /\ \A list \in Lists : doc[list] = file[list]
  BY <1>7 DEF IsDocument, Lists
<1> HIDE DEF doc, typed
<1> QED
  BY <1>2, <1>3, <1>4, <1>5, <1>6, <1>8, <1>9 DEF IsStored, form

\* Only a section that may be missing has a scalar that may not.
LEMMA RequiredAre == \A p \in DOMAIN Fields : Fields[p].default = Required => p[1] \in Optional
<1>1. \A section \in {"server", "pii", "tracing", "otel"} : \A f \in DOMAIN Tables[section] : Tables[section][f].default # Required
  <2>1. \A f \in DOMAIN ServerFields : ServerFields[f].default # Required
    BY DEF ServerFields, Field, Required, Absent
  <2>2. \A f \in DOMAIN PiiFields : PiiFields[f].default # Required
    BY DEF PiiFields, Field, Required
  <2>3. \A f \in DOMAIN TracingFields : TracingFields[f].default # Required
    BY DEF TracingFields, Field, Required
  <2>4. \A f \in DOMAIN OtelFields : OtelFields[f].default # Required
    BY DEF OtelFields, Field, Required
  <2>5. /\ Tables["server"] = ServerFields /\ Tables["pii"] = PiiFields
        /\ Tables["tracing"] = TracingFields /\ Tables["otel"] = OtelFields
    BY DEF Tables
  <2> QED
    BY <2>1, <2>2, <2>3, <2>4, <2>5
<1>2. DOMAIN Tables = {"server", "pii", "tracing", "otel"} \cup Optional
  BY DEF Tables, Optional
<1>3. \A section \in DOMAIN Tables : \A p \in PathsOf(section) : p[2] \in DOMAIN Tables[section] /\ Fields[p] = Tables[section][p[2]]
  BY FieldIs DEF PathsOf
<1> QED
  BY <1>1, <1>2, <1>3, PathsAre

\* It means what the file does.
LEMMA StoredMeans ==
    ASSUME NEW section, FormPart(section), NEW doc, IsStored(doc, section)
    PROVE  /\ \A p : Value(Resolve(doc, env), p) = Value(boot, p)
           /\ \A s \in Optional : Present(Resolve(doc, env), s) <=> Present(boot, s)
           /\ ~BareUrl(doc) /\ Parses(doc)
           /\ env = "unset" => \A text \in References(doc) : ~Refers(text)
<1> DEFINE r == Resolve(doc, env)
<1>0. /\ boot = Resolve(file, env) /\ Parses(file) /\ IsDocument(file) /\ IsDocument(doc)
      /\ ~BareUrl(file) /\ env # "url${V}"
  BY BootIs DEF FormPart, IsStored
<1>1. TextsStand(boot, file, env) /\ TextsStand(r, doc, env)
  BY <1>0, TextsAre
<1> HIDE DEF r
<1>2. /\ DOMAIN doc.fields = Stored(section) \cup DOMAIN file.fields
      /\ \A p \in Stored(section) : doc.fields[p][2] = Value(boot, p) /\ Fits(Fields[p].type, doc.fields[p])
      /\ \A p \in DOMAIN file.fields \ Stored(section) : doc.fields[p] = file.fields[p]
      /\ doc.connections = file.connections /\ doc.mcp_servers = file.mcp_servers
  BY DEF IsStored, Lists
<1>3. /\ \A p \in Stored(section) : Value(doc, p) = Value(boot, p)
      /\ \A p : p \notin Stored(section) => Value(doc, p) = Value(file, p)
  BY <1>2 DEF Value
<1>4. \A p \in Stored(section) \cap ResolvedFields : p \in DOMAIN file.fields
  BY StoredIs, FormIs
<1>5. \A p \in Stored(section) \cap ResolvedFields : Value(boot, p) = Resolved(Value(file, p), env)
  BY <1>1, <1>4 DEF TextsStand
<1>6. ASSUME NEW p PROVE Value(r, p) = Value(boot, p)
  <2>1. CASE p \in Stored(section) /\ p \in ResolvedFields
    <3>1. Value(r, p) = Resolved(Value(boot, p), env)
      BY <1>1, <1>2, <1>3, <2>1 DEF TextsStand
    <3> QED
      BY <1>0, <1>5, <2>1, <3>1, ResolvedTwice
  <2>2. CASE p \in Stored(section) /\ p \notin ResolvedFields
    BY <1>1, <1>2, <1>3, <2>2 DEF TextsStand
  <2>3. CASE p \notin Stored(section)
    BY <1>1, <1>2, <1>3, <2>3 DEF TextsStand
  <2> QED
    BY <2>1, <2>2, <2>3
<1>7. ASSUME NEW s \in Optional PROVE Present(r, s) <=> Present(boot, s)
  <2>1. Present(file, s) => Present(doc, s)
    BY <1>2 DEF Present
  <2>2. ASSUME Present(doc, s), ~Present(file, s) PROVE FALSE
    <3>1. PICK p \in DOMAIN doc.fields : p[1] = s
      BY <2>2 DEF Present
    <3>2. p \in Stored(section)
      BY <1>2, <2>2, <3>1 DEF Present
    <3>3. p \in FormFields /\ section = s
      BY <3>1, <3>2, StoredIs
    <3>4. section = "events"
      <4>1. \A a, b : <<a, b>>[1] = a
        OBVIOUS
      <4>2. \A q \in PathsOf("tracing") : q[1] = "tracing"
        BY <4>1 DEF PathsOf
      <4>3. \A q \in PathsOf("otel") : q[1] = "otel"
        BY <4>1 DEF PathsOf
      <4> QED
        BY <3>1, <3>3, <4>1, <4>2, <4>3 DEF FormFields, Optional
    <3>5. Present(boot, "events")
      BY <3>4 DEF FormPart
    <3> QED
      BY <1>1, <2>2, <3>3, <3>4, <3>5 DEF TextsStand
  <2> QED
    BY <1>1, <2>1, <2>2 DEF TextsStand
<1>8. ~BareUrl(doc)
  <2> DEFINE url == <<"events", "url">>
  <2>1. Value(file, url) # "${V}"
    BY <1>0 DEF BareUrl
  <2>2. CASE url \in Stored(section)
    <3>1. url \in ResolvedFields
      BY DEF ResolvedFields
    <3>2. Value(doc, url) = Resolved(Value(file, url), env)
      BY <1>3, <1>5, <2>2, <3>1
    <3>3. Value(doc, url) # "${V}"
      BY <2>1, <3>2, ResolvedIs
    <3> QED
      BY <1>0, <1>2, <3>3 DEF BareUrl
  <2>3. CASE url \notin Stored(section)
    BY <1>0, <1>2, <1>3, <2>3 DEF BareUrl
  <2> QED
    BY <2>2, <2>3
<1>9. Parses(doc)
  <2>1. \A p \in DOMAIN doc.fields : Fits(Fields[p].type, doc.fields[p])
    BY <1>0, <1>2 DEF Parses
  <2>2. ASSUME NEW p \in DOMAIN Fields, Fields[p].default = Required, Present(doc, p[1])
        PROVE  p \in DOMAIN doc.fields
    <3>1. Present(file, p[1])
      <4>1. CASE p[1] \in Optional
        BY <1>1, <1>7, <2>2, <4>1 DEF TextsStand
      <4>2. CASE p[1] \notin Optional
        BY <2>2, <4>2, RequiredAre
      <4> QED
        BY <4>1, <4>2
    <3> QED
      BY <1>0, <1>2, <2>2, <3>1 DEF Parses
  <2> QED
    BY <2>1, <2>2 DEF Parses
<1>10. ASSUME env = "unset", NEW text \in References(doc) PROVE ~Refers(text)
  <2>1. \A t \in References(file) : ~Refers(t)
    BY <1>10, BootIs
  <2>2. CASE text \in References(file)
    BY <2>1, <2>2
  <2>3. CASE text \notin References(file)
    <3>1. PICK p \in DOMAIN doc.fields \cap ResolvedFields : text = doc.fields[p][2]
      BY <1>2, <2>3, Zenon DEF References
    <3>2. p \in Stored(section)
      <4>1. ASSUME p \notin Stored(section) PROVE FALSE
        <5>1. p \in DOMAIN file.fields \cap ResolvedFields /\ text = file.fields[p][2]
          BY <1>2, <3>1, <4>1
        <5> QED
          BY <2>3, <5>1 DEF References
      <4> QED
        BY <4>1
    <3>3. p \in DOMAIN file.fields /\ text = Resolved(Value(file, p), env)
      BY <1>2, <1>4, <1>5, <3>1, <3>2
    <3>4. Value(file, p) \in References(file)
      BY <3>1, <3>3 DEF References, Value
    <3>5. Value(file, p) \notin {"${V}", "url${V}"}
      BY <2>1, <3>4 DEF Refers
    <3> QED
      BY <2>3, <3>3, <3>4, <3>5, ResolvedIs
  <2> QED
    BY <2>2, <2>3
<1> QED
  BY <1>6, <1>7, <1>8, <1>9, <1>10 DEF r

LEMMA UnchangedHarmless ==
    ASSUME NEW section, FormPart(section)
    PROVE  \E doc \in ApplyScalarFields(file, ShownForm(section)) :
              /\ Accepted(doc)
              /\ \E config \in Load(doc, env, FALSE) :
                    /\ \A p \in DOMAIN doc.fields \cup DOMAIN boot.fields : Value(config, p) = Value(boot, p)
                    /\ [config EXCEPT !.fields = boot.fields] = boot
<1>1. PICK doc : IsStored(doc, section)
  BY FormStored
<1> DEFINE r == Resolve(doc, env)
<1>2. /\ \A p : Value(r, p) = Value(boot, p)
      /\ \A s \in Optional : Present(r, s) <=> Present(boot, s)
      /\ ~BareUrl(doc) /\ Parses(doc)
      /\ env = "unset" => \A text \in References(doc) : ~Refers(text)
  BY <1>1, StoredMeans
<1>3. /\ boot = Resolve(file, env) /\ Valid(boot, FALSE) /\ IsDocument(file) /\ IsDocument(doc) /\ env # ""
      /\ Value(boot, <<"server", "status_token">>) # ""
  BY <1>1, BootIs DEF FormPart, IsStored
<1>4. Stands(r, doc, env) /\ Stands(boot, file, env) /\ TextsStand(r, doc, env) /\ TextsStand(boot, file, env)
  BY <1>3, ResolveIs, TextsAre
<1> HIDE DEF r
<1>5. \A list \in Lists : r[list] = boot[list]
  <2>1. \A list \in Lists : doc[list] = file[list]
    BY <1>1 DEF IsStored
  <2>2. r.connections = boot.connections /\ r.mcp_servers = boot.mcp_servers
    BY <1>4, <2>1 DEF Stands, Lists
  <2> QED
    BY <1>4, <2>1, <2>2 DEF Stands
<1>6. Valid(r, FALSE)
  <2>1. ASSUME NEW p \in DOMAIN r.fields, p \notin DOMAIN boot.fields PROVE Meets(Fields[p].rule, Value(boot, p))
    <3>1. p \in Stored(section) /\ p \notin DOMAIN file.fields
      BY <1>1, <1>4, <2>1 DEF TextsStand, IsStored
    <3>2. p \in FormFields /\ p \notin {<<"events", "url">>, <<"events", "auth_bearer">>}
      BY <3>1, StoredIs
    <3>3. p \in DOMAIN Fields /\ Fields[p].default \notin {Absent, Required}
      BY <3>2, PathsAre, FormIs DEF FormDefault
    <3>4. Value(boot, p) = Fields[p].default
      BY <2>1 DEF Value
    <3> QED
      BY <3>3, <3>4, DefaultsValid
  <2>2. /\ r.connections = boot.connections /\ r.virtual_keys = boot.virtual_keys /\ r.mcp_servers = boot.mcp_servers
        /\ r.guardrails = boot.guardrails /\ r.custom_recognizers = boot.custom_recognizers
        /\ r.entities = boot.entities /\ r.scan_roles = boot.scan_roles
    BY <1>5 DEF Lists
  <2> QED
    BY <1>2, <1>3, <2>1, <2>2, ValidSame
<1>7. Accepted(doc)
  BY <1>2, <1>3, <1>6, ValidBack DEF Accepted, r
<1>8. Load(doc, env, FALSE) = {r}
  BY <1>2, <1>3, <1>6 DEF Load, r
<1>9. [r EXCEPT !.fields = boot.fields] = boot
  <2>1. DOMAIN r = DOMAIN boot
    BY <1>3, <1>4 DEF Stands, IsDocument
  <2>2. DOMAIN boot = {"fields"} \cup Lists
    BY <1>3, <1>4 DEF Stands, IsDocument
  <2>3. boot = [x \in DOMAIN boot |-> boot[x]]
    BY <1>3 DEF Resolve
  <2>4. \A x \in DOMAIN boot : (IF x = "fields" THEN boot.fields ELSE r[x]) = boot[x]
    BY <1>5, <2>2
  <2>5. [r EXCEPT !.fields = boot.fields] = [x \in DOMAIN r |-> IF x = "fields" THEN boot.fields ELSE r[x]]
    OBVIOUS
  <2> QED
    BY <2>1, <2>3, <2>4, <2>5
<1>10. doc \in ApplyScalarFields(file, ShownForm(section))
  BY <1>1 DEF IsStored
<1> QED
  BY <1>2, <1>7, <1>8, <1>9, <1>10

\* A form saved as it is shown changes nothing, for any file that the gateway was
\* started with; and what is saved is told.
THEOREM SavesHold == ConfigSpec => []SavesAsShown
<1>1. ConfigSpec => []ToldInv
  BY ToldInductive
<1>2. ToldInv => UnchangedSaveHarmless
  <2> SUFFICES ASSUME ToldInv, up, env # "", Load(file, env, FALSE) = {boot}, ~BareUrl(file),
                      NEW section \in {p[1] : p \in FormFields},
                      ~(section = "events" /\ ~Present(boot, "events")),
                      ~\E p \in Form(section) \cap DOMAIN file.fields : file.fields[p][1] = "float"
               PROVE  \E doc \in ApplyScalarFields(file, ShownForm(section)) :
                         /\ Accepted(doc)
                         /\ \E config \in Load(doc, env, FALSE) :
                               /\ \A p \in DOMAIN doc.fields \cup DOMAIN boot.fields : Value(config, p) = Value(boot, p)
                               /\ [config EXCEPT !.fields = boot.fields] = boot
    BY Zenon DEF UnchangedSaveHarmless, ShownForm
  <2>1. FormPart(section)
    BY DEF FormPart, ToldInv, DocumentPart
  <2> QED
    BY <2>1, UnchangedHarmless
<1>3. ConfigSpec => []SavedIsTold
  BY ToldHolds
<1>4. UnchangedSaveHarmless /\ SavedIsTold => SavesAsShown
  BY DEF SavesAsShown
<1> QED
  BY <1>1, <1>2, <1>3, <1>4, PTL
=============================================================================
