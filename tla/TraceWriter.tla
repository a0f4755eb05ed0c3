----------------------------- MODULE TraceWriter -----------------------------
(***************************************************************************)
(* The request tracer of crates/drgtw-trace/src/lib.rs: request tasks put  *)
(* entries into a bounded channel; one worker appends them to the active   *)
(* file, renames it when it is full, bundles the rotated files into an     *)
(* archive when there are enough of them, and removes what is older than   *)
(* the retention.  The gateway may be killed between any two of the        *)
(* worker's file operations, or be shut down (bins/drgtw/src/server.rs):*)
(* then the worker drains the channel first.  Any file operation may fail. *)
(*                                                                         *)
(* An entry is a number; a file is as long as it has entries; the stamp in *)
(* a file's name and its modification time are the model's day.  What an   *)
(* entry holds (and the truncation of large MCP values) is left out.       *)
(*                                                                         *)
(* written, doubled and faults observe the run: the day each entry was     *)
(* written, whether originals of an archive stayed behind, and how many    *)
(* failures there have been (their bound is MaxFaults).                    *)
(***************************************************************************)
EXTENDS Integers, FiniteSetsExt, SequencesExt

CONSTANTS TraceBuffer,   \* buffer_size
          RotateMax,     \* rotate_max_bytes, in entries
          ArchiveAfter,  \* archive_after_files
          Retention,     \* retention_days
          MaxEntries,    \* bound: entries emitted
          LastDay,       \* bound: the last day
          MaxFaults      \* bound: kills and failed file operations

ASSUME TraceAssumption ==
    /\ {TraceBuffer, RotateMax} \subseteq Nat \ {0}
    /\ {ArchiveAfter, Retention, MaxEntries, LastDay, MaxFaults} \subseteq Nat

VARIABLES today, stage, traceQueue, traceDropped, emitted,
          at,        \* where the worker is
          active, rotated, archives,   \* the files
          job,       \* the files an archive is made of,
          target,    \* and the archive's name
          written, doubled, faults

files == <<active, rotated, archives, job, target>>
channel == <<traceQueue, traceDropped, emitted>>
seen == <<written, doubled, faults>>
traceVars == <<today, stage, channel, at, files, seen>>

Entry == 1 .. MaxEntries
Name == (0 .. LastDay) \X Nat
RotatedFile == [name : Name, entries : SUBSET Entry, mtime : 0 .. LastDay]
ArchiveFile == [name : Name, entries : SUBSET Entry, mtime : 0 .. LastDay, whole : BOOLEAN]

TraceTypeOK ==
    /\ today \in 0 .. LastDay
    /\ stage \in {"serving", "draining", "stopped"}
    /\ traceQueue \in Seq(Entry) /\ Len(traceQueue) <= TraceBuffer
    /\ traceDropped \in Nat
    /\ emitted \in 0 .. MaxEntries
    /\ at \in {"start", "receive", "rotate", "create", "fill", "remove", "prune"}
    /\ active \in SUBSET Entry
    /\ \A f \in rotated : f \in RotatedFile
    /\ \A f \in archives : f \in ArchiveFile
    /\ job \subseteq rotated /\ target \in Name
    /\ \A e \in DOMAIN written : e \in Entry /\ written[e] \in 0 .. today
    /\ doubled \in BOOLEAN
    /\ faults \in 0 .. MaxFaults

TraceInit ==
    /\ today = 0 /\ stage = "stopped" /\ at = "start"
    /\ traceQueue = <<>> /\ traceDropped = 0 /\ emitted = 0
    /\ active = {} /\ rotated = {} /\ archives = {} /\ job = {} /\ target = <<0, 0>>
    /\ written = [e \in {} |-> 0] /\ doubled = FALSE /\ faults = 0

NextDay ==
    /\ today < LastDay
    /\ today' = today + 1
    /\ UNCHANGED <<stage, channel, at, files, seen>>

Fault == faults < MaxFaults /\ faults' = faults + 1

-----------------------------------------------------------------------------
TraceFits == Len(traceQueue) < TraceBuffer

\* TraceWriter::emit
TraceEmit ==
    /\ stage = "serving" /\ emitted < MaxEntries
    /\ emitted' = emitted + 1
    /\ IF TraceFits
         THEN traceQueue' = Append(traceQueue, emitted') /\ UNCHANGED traceDropped
         ELSE traceDropped' = traceDropped + 1 /\ UNCHANGED traceQueue
    /\ UNCHANGED <<today, stage, at, files, seen>>

AfterWrite(act) == IF Cardinality(act) >= RotateMax THEN "rotate" ELSE "receive"

\* write_entry, then the length check.
WriteEntry ==
    /\ at = "receive" /\ traceQueue # <<>>
    /\ traceQueue' = Tail(traceQueue)
    /\ \/ /\ active' = active \cup {Head(traceQueue)}
          /\ written' = [e \in DOMAIN written \cup {Head(traceQueue)} |->
                            IF e = Head(traceQueue) THEN today ELSE written[e]]
          /\ UNCHANGED faults
       \/ Fault /\ UNCHANGED <<active, written>>
    /\ at' = AfterWrite(active')
    /\ UNCHANGED <<today, stage, traceDropped, emitted, rotated, archives, job, target, doubled>>

\* Mutant: the stamp alone names a file.
StampOnly(fs) == <<today, 0>>

\* The first of <stamp>, <stamp>-1, ... that no file has.
FreeName(fs) ==
    <<today, Min({n \in 0 .. Cardinality(fs) : \A f \in fs : f.name # <<today, n>>})>>

\* rotate: a rename takes the place of a file of that name.
Rotate ==
    LET name == FreeName(rotated)
        file == [name |-> name, entries |-> active, mtime |-> Max({written[e] : e \in active})]
    IN /\ at = "rotate"
       /\ \/ /\ rotated' = {f \in rotated : f.name # name} \cup {file}
             /\ active' = {}
             /\ at' = IF Cardinality(rotated') >= ArchiveAfter THEN "create" ELSE "receive"
             /\ UNCHANGED faults
          \/ Fault /\ at' = "receive" /\ UNCHANGED <<rotated, active>>
       /\ UNCHANGED <<today, stage, channel, archives, job, target, written, doubled>>

\* archive_rotated, up to File::create.
CreateArchive ==
    LET name == FreeName(archives)
    IN /\ at = "create"
       /\ \/ /\ archives' = archives \cup
                    {[name |-> name, entries |-> {}, mtime |-> today, whole |-> FALSE]}
             /\ job' = rotated /\ target' = name
             /\ at' = "fill"
             /\ UNCHANGED faults
          \/ Fault /\ at' = "prune" /\ UNCHANGED <<archives, job, target>>
       /\ UNCHANGED <<today, stage, channel, active, rotated, written, doubled>>

Contents(fs) == UNION {f.entries : f \in fs}

\* The archive under construction, finished with the files fs in it.
Finished(fs) ==
    {IF a.name = target
     THEN [a EXCEPT !.entries = Contents(fs), !.mtime = today, !.whole = TRUE]
     ELSE a : a \in archives}

\* Every file is appended and the archive is finished.  A file that cannot be
\* read ends it early, and the builder finishes it as it is dropped; or it
\* cannot be finished.
FillArchive ==
    /\ at = "fill"
    /\ \/ archives' = Finished(job) /\ at' = "remove" /\ UNCHANGED <<faults, doubled>>
       \/ /\ Fault /\ at' = "prune"
          /\ \/ UNCHANGED <<archives, doubled>>
             \/ /\ \E part \in SUBSET job : part # job /\ archives' = Finished(part)
                /\ doubled' = TRUE
    /\ UNCHANGED <<today, stage, channel, active, rotated, job, target, written>>

Without(fs) == rotated \ fs

\* The originals are removed one by one.
RemoveOriginals ==
    /\ at = "remove"
    /\ \/ rotated' = Without(job) /\ UNCHANGED <<faults, doubled>>
       \/ /\ Fault /\ doubled' = TRUE
          /\ \E kept \in SUBSET job : kept # {} /\ rotated' = Without(job \ kept)
    /\ job' = {}
    /\ at' = "prune"
    /\ UNCHANGED <<today, stage, channel, active, archives, target, written>>

Expired(fs) == {f \in fs : today - f.mtime > Retention}

\* Mutant: no hourly tick.
PrunedSeldom == {"start", "prune"}

PrunedAt == {"start", "prune", "receive"}

\* prune_retention: at start-up, after an archive and every hour.
Prune ==
    /\ at \in PrunedAt
    /\ \/ /\ rotated' = rotated \ Expired(rotated)
          /\ archives' = archives \ Expired(archives)
          /\ UNCHANGED faults
       \/ /\ Fault
          /\ \E kept \in SUBSET (Expired(rotated) \cup Expired(archives)) :
                /\ kept # {}
                /\ rotated' = rotated \ (Expired(rotated) \ kept)
                /\ archives' = archives \ (Expired(archives) \ kept)
    /\ job' = {}
    /\ at' = "receive"
    /\ UNCHANGED <<today, stage, channel, active, target, written, doubled>>

-----------------------------------------------------------------------------
\* The gateway is killed and started again: what waited is lost.
Kill ==
    /\ stage # "stopped" /\ Fault
    /\ stage' = "serving" /\ at' = "start"
    /\ traceQueue' = <<>> /\ job' = {}
    /\ doubled' = (doubled \/ at = "remove")
    /\ UNCHANGED <<today, traceDropped, emitted, active, rotated, archives, target, written>>

\* Shutdown: every request has ended; the last sender is dropped.
Shutdown ==
    /\ stage = "serving"
    /\ stage' = "draining"
    /\ UNCHANGED <<today, channel, at, files, seen>>

MayExit == at = "receive" /\ traceQueue = <<>>

\* recv returns None, the worker ends, shutdown().await returns.
Exit ==
    /\ stage = "draining" /\ MayExit
    /\ stage' = "stopped" /\ at' = "start" /\ traceQueue' = <<>>
    /\ UNCHANGED <<today, traceDropped, emitted, files, seen>>

\* The gateway starts (again).
Start ==
    /\ stage = "stopped"
    /\ stage' = "serving"
    /\ UNCHANGED <<today, channel, at, files, seen>>

Work ==
    /\ stage # "stopped"
    /\ WriteEntry \/ Rotate \/ CreateArchive \/ FillArchive \/ RemoveOriginals \/ Prune

TraceNext == NextDay \/ TraceEmit \/ Work \/ Kill \/ Shutdown \/ Exit \/ Start

\* The worker's task keeps running, its hourly tick included.
TraceFairness == WF_traceVars(Work) /\ WF_traceVars(stage # "stopped" /\ Prune)
TraceSpec == TraceInit /\ [][TraceNext]_traceVars /\ TraceFairness

-----------------------------------------------------------------------------
Readable == active \cup Contents(rotated) \cup Contents({a \in archives : a.whole})

\* An entry that was written can be read, from the active file, a rotated file or
\* an archive, until it is older than the retention, wherever the worker was
\* killed and whatever failed; from one file only, unless a kill or a failure fell
\* between the end of an archive and the removal of its originals.  A graceful
\* stop leaves nothing unwritten of what was accepted, but for failed writes.
EntryKept ==
    /\ \A e \in DOMAIN written : today - written[e] <= Retention => e \in Readable
    /\ ~doubled /\ at # "remove" =>
          /\ active \cap (Contents(rotated) \cup Contents(archives)) = {}
          /\ \A f, g \in rotated \cup archives :
                f.entries \cap g.entries # {} => f = g
    /\ stage = "stopped" /\ faults = 0 =>
          Cardinality(DOMAIN written) + traceDropped = emitted

\* Files older than the retention go.
ExpiredGo ==
    Expired(rotated) \cup Expired(archives) # {} ~>
        \/ Expired(rotated) \cup Expired(archives) = {}
        \/ stage = "stopped"
=============================================================================
