------------------------- MODULE TrainingPipeline -------------------------
(***************************************************************************)
(* Training data (internal/service/training_dedup.go, training_buffer.go,  *)
(* training_archiver.go): from the answered call to the archive file.      *)
(*                                                                         *)
(* A goroutine of each call looks for the content's mark in Redis, sets it *)
(* and offers the record to a bounded channel.  One consumer writes the    *)
(* channel to the table in batches.  One archiver exports the oldest rows  *)
(* to a file when the table is full and then deletes them.  The main       *)
(* goroutine closes both when the server stops.                            *)
(***************************************************************************)
EXTENDS Integers, FiniteSets, Sequences

CONSTANTS Call,        \* answered calls; each is recorded at most once
          Content, NoHash,
          ContentOf,   \* content of a call, NoHash when nothing can be extracted
          BufferCap,   \* defaultBufferCap
          BatchSize,   \* defaultBatchSize
          Threshold,   \* archiveThreshold
          ExportBatch, \* archiveExportBatch
          DeleteBatch, \* archiveDeleteBatch
          MaxFaults    \* bound: failing commands, statements and crashes

ASSUME TrainingAssumption ==
  /\ IsFiniteSet(Call)
  /\ ContentOf \in [Call -> Content \cup {NoHash}]
  /\ BufferCap \in Nat /\ BatchSize \in Nat \ {0} /\ Threshold \in Nat \ {0}
  /\ ExportBatch \in Nat \ {0} /\ DeleteBatch \in Nat \ {0}
  /\ MaxFaults \in Nat

VARIABLES
  pc,       \* where the recording of each call stands
  marks,    \* contents with a key codemind:training:hash:{hash}
  chan,     \* TrainingDataBuffer.ch
  batch,    \* the consumer's batch
  cpc,      \* the consumer
  log,      \* every row ever inserted; its position is its id
  table,    \* ids of the rows that are in llm_training_data
  apc,      \* the archiver
  boundary, \* boundaryID of the running archive
  exported, \* ids in its temporary file
  archived, \* history: ids in archive files that were closed without an error
  cut,      \* history: an archive file was cut short when it was closed
  phase,    \* the main goroutine
  faults,   \* faults so far
  dropped,  \* history: records refused by the full channel
  lost,     \* history: records whose write failed or that a stop left in memory
  early     \* history: records accepted before the server began to stop

recording == <<pc, marks, dropped>>
buffer    == <<chan, batch, cpc>>
rows      == <<log, table>>
archive   == <<apc, boundary, exported, archived, cut>>
process   == <<phase, early>>
vars == <<recording, buffer, rows, archive, process, faults, lost>>

Elements(s) == {s[i] : i \in DOMAIN s}
Held == Elements(chan) \cup Elements(batch)

CallPhases     == {"idle", "checked", "marked", "done"}
ConsumerPhases == {"looping", "writing", "singles", "draining", "lastWriting",
                   "lastSingles", "stopped"}
ArchiverPhases == {"idle", "bounding", "exporting", "compressing", "deleting", "stopped"}
MainPhases     == {"serving", "flushing", "closing", "exited"}

Ids == DOMAIN log

TypeOK ==
  /\ pc \in [Call -> CallPhases]
  /\ marks \subseteq Content
  /\ chan \in Seq(Call) /\ Len(chan) <= BufferCap
  /\ batch \in Seq(Call)
  /\ cpc \in ConsumerPhases
  /\ log \in Seq(Call)
  /\ table \subseteq Ids
  /\ apc \in ArchiverPhases
  /\ boundary \in Nat
  /\ exported \subseteq Ids /\ archived \subseteq Ids
  /\ cut \in BOOLEAN
  /\ phase \in MainPhases
  /\ faults \in 0..MaxFaults
  /\ dropped \subseteq Call /\ lost \subseteq Call /\ early \subseteq Call

Init ==
  /\ pc = [r \in Call |-> "idle"]
  /\ marks = {} /\ dropped = {} /\ lost = {} /\ early = {}
  /\ chan = <<>> /\ batch = <<>> /\ cpc = "looping"
  /\ log = <<>> /\ table = {}
  /\ apc = "idle" /\ boundary = 0 /\ exported = {} /\ archived = {} /\ cut = FALSE
  /\ phase = "serving"
  /\ faults = 0

\* An operation that fails costs a fault; one that succeeds costs none.
Fault(failed) ==
  /\ failed => faults < MaxFaults
  /\ faults' = IF failed THEN faults + 1 ELSE faults

Up == phase # "exited"

-----------------------------------------------------------------------------
(***************************************************************************)
(* RecordTrainingData: the goroutine of one call                           *)
(***************************************************************************)
Goto(r, p) == pc' = [pc EXCEPT ![r] = p]

\* IsDuplicate: EXISTS.  Off or a failing command means no duplicate; a duplicate ends the
\* recording.  A call without a hash passes.
Check(r, off, failed) ==
  /\ Up /\ pc[r] = "idle"
  /\ Fault(failed)
  /\ IF ContentOf[r] = NoHash
       THEN ~off /\ ~failed /\ Goto(r, "marked")
       ELSE /\ ~(off /\ failed)
            /\ Goto(r, IF ~off /\ ~failed /\ ContentOf[r] \in marks
                         THEN "done" ELSE "checked")
  /\ UNCHANGED <<marks, dropped, buffer, rows, archive, process, lost>>

\* MarkAsSeen: SET, whose failure is only logged.
Mark(r, off, failed) ==
  /\ Up /\ pc[r] = "checked"
  /\ ~(off /\ failed)
  /\ Fault(failed)
  /\ marks' = IF off \/ failed THEN marks ELSE marks \cup {ContentOf[r]}
  /\ Goto(r, "marked")
  /\ UNCHANGED <<dropped, buffer, rows, archive, process, lost>>

\* Add: the record enters the channel or, when that is full, is dropped.
Add(r) ==
  /\ Up /\ pc[r] = "marked"
  /\ Goto(r, "done")
  /\ IF Len(chan) < BufferCap
       THEN chan' = Append(chan, r) /\ dropped' = dropped
       ELSE chan' = chan /\ dropped' = dropped \cup {r}
  /\ early' = IF phase = "serving" /\ Len(chan) < BufferCap THEN early \cup {r} ELSE early
  /\ UNCHANGED <<marks, batch, cpc, rows, archive, phase, faults, lost>>

\* The TTL of a mark ends.
MarkExpires(c) ==
  /\ c \in marks
  /\ marks' = marks \ {c}
  /\ UNCHANGED <<pc, dropped, buffer, rows, archive, process, faults, lost>>

-----------------------------------------------------------------------------
(***************************************************************************)
(* TrainingDataBuffer.consume                                              *)
(***************************************************************************)
\* A record is received; a full batch is flushed.
Receive ==
  /\ cpc = "looping" /\ chan # <<>>
  /\ batch' = Append(batch, Head(chan))
  /\ chan' = Tail(chan)
  /\ cpc' = IF Len(batch') >= BatchSize THEN "writing" ELSE cpc
  /\ UNCHANGED <<recording, rows, archive, process, faults, lost>>

\* Seeded fault: the timer flushes only what is full, which never waits for it.
FlushTimerFull ==
  /\ cpc = "looping" /\ Len(batch) >= BatchSize
  /\ cpc' = "writing"
  /\ UNCHANGED <<recording, chan, batch, rows, archive, process, faults, lost>>

\* The flush interval ends.
FlushTimer ==
  /\ cpc = "looping" /\ batch # <<>>
  /\ cpc' = "writing"
  /\ UNCHANGED <<recording, chan, batch, rows, archive, process, faults, lost>>

\* Seeded fault: the batch is flushed, and what waits in the channel is not received.
SeeStopFlush ==
  /\ cpc = "looping" /\ phase = "flushing"
  /\ cpc' = IF batch = <<>> THEN "stopped" ELSE "lastWriting"
  /\ UNCHANGED <<recording, chan, batch, rows, archive, process, faults, lost>>

\* stopCh is closed: receive what is there, then flush and return.
SeeStop ==
  /\ cpc = "looping" /\ phase = "flushing"
  /\ cpc' = "draining"
  /\ UNCHANGED <<recording, chan, batch, rows, archive, process, faults, lost>>

Drain ==
  /\ cpc = "draining" /\ chan # <<>>
  /\ batch' = Append(batch, Head(chan))
  /\ chan' = Tail(chan)
  /\ UNCHANGED <<cpc, recording, rows, archive, process, faults, lost>>

Drained ==
  /\ cpc = "draining" /\ chan = <<>>
  /\ cpc' = IF batch = <<>> THEN "stopped" ELSE "lastWriting"
  /\ UNCHANGED <<recording, chan, batch, rows, archive, process, faults, lost>>

Flushed == IF cpc \in {"writing", "singles"} THEN "looping" ELSE "stopped"

Insert(s) ==
  /\ log' = log \o s
  /\ table' = table \cup (Len(log) + 1)..(Len(log) + Len(s))

\* Seeded fault: the batch is not emptied after it was written.
WriteBatchKeeps(failed) ==
  /\ cpc \in {"writing", "lastWriting"}
  /\ Fault(failed)
  /\ IF failed
       THEN /\ cpc' = IF cpc = "writing" THEN "singles" ELSE "lastSingles"
            /\ UNCHANGED rows
       ELSE Insert(batch) /\ cpc' = Flushed
  /\ UNCHANGED <<batch, recording, chan, archive, process, lost>>

\* BatchCreate: one INSERT of the batch; when it fails nothing of it is stored.
WriteBatch(failed) ==
  /\ cpc \in {"writing", "lastWriting"}
  /\ Fault(failed)
  /\ IF failed
       THEN /\ cpc' = IF cpc = "writing" THEN "singles" ELSE "lastSingles"
            /\ UNCHANGED <<batch, rows>>
       ELSE Insert(batch) /\ batch' = <<>> /\ cpc' = Flushed
  /\ UNCHANGED <<recording, chan, archive, process, lost>>

\* ... and the records are inserted one by one; one that fails again is given up.
WriteSingle(failed) ==
  /\ cpc \in {"singles", "lastSingles"}
  /\ Fault(failed)
  /\ IF failed
       THEN lost' = lost \cup {Head(batch)} /\ UNCHANGED rows
       ELSE lost' = lost /\ Insert(<<Head(batch)>>)
  /\ batch' = Tail(batch)
  /\ cpc' = IF Len(batch) = 1 THEN Flushed ELSE cpc
  /\ UNCHANGED <<recording, chan, archive, process>>

-----------------------------------------------------------------------------
(***************************************************************************)
(* TrainingDataArchiver                                                    *)
(***************************************************************************)
InRange == {i \in table : i <= boundary}

\* tryArchive at the start and at every tick: CountAll, and the threshold.
TryArchive(failed) ==
  /\ Up /\ apc = "idle"
  /\ Fault(failed)
  /\ apc' = IF failed \/ Cardinality(table) < Threshold THEN apc ELSE "bounding"
  /\ UNCHANGED <<boundary, exported, archived, cut, recording, buffer, rows, process, lost>>

\* GetArchiveBoundaryID: the id of the Threshold-th row.
FindBoundary(failed) ==
  /\ apc = "bounding"
  /\ Fault(failed)
  /\ IF failed
       THEN apc' = "idle" /\ boundary' = boundary
       ELSE /\ \E i \in table : /\ Cardinality({j \in table : j <= i}) = Threshold
                                /\ boundary' = i
            /\ apc' = "exporting"
  /\ exported' = {}
  /\ UNCHANGED <<archived, cut, recording, buffer, rows, process, lost>>

\* exportToTempFile: the next rows in id order; a page that is not full is the last.
\* A failure removes the file.
ExportPage(failed) ==
  /\ apc = "exporting"
  /\ Fault(failed)
  /\ LET rest == {i \in InRange : \A e \in exported : e < i}
     IN  IF failed
           THEN apc' = "idle" /\ exported' = {}
           ELSE \E page \in SUBSET rest :
                  /\ \A i \in page, j \in rest \ page : i < j
                  /\ IF Cardinality(rest) < ExportBatch
                       THEN page = rest /\ apc' = "compressing"
                       ELSE Cardinality(page) = ExportBatch /\ apc' = apc
                  /\ exported' = exported \cup page
  /\ UNCHANGED <<boundary, archived, cut, recording, buffer, rows, process, lost>>

\* compressArchive.  The writers are closed by deferred calls whose errors are dropped, so
\* a file that is cut short then counts as written.
Compress(failed, closeFailed) ==
  /\ apc = "compressing"
  /\ ~(failed /\ closeFailed)
  /\ Fault(failed \/ closeFailed)
  /\ apc' = IF failed THEN "idle" ELSE "deleting"
  /\ archived' = IF failed \/ closeFailed THEN archived ELSE archived \cup exported
  /\ cut' = (cut \/ closeFailed)
  /\ exported' = {}
  /\ UNCHANGED <<boundary, recording, buffer, rows, process, lost>>

\* Seeded fault: the DELETE is not restricted to the exported range.
DeleteOldest(failed) ==
  /\ apc = "deleting"
  /\ Fault(failed)
  /\ IF failed
       THEN apc' = "idle" /\ table' = table
       ELSE \E page \in SUBSET table :
              /\ IF Cardinality(table) < DeleteBatch
                   THEN page = table /\ apc' = "idle"
                   ELSE Cardinality(page) = DeleteBatch /\ apc' = apc
              /\ table' = table \ page
  /\ UNCHANGED <<log, boundary, exported, archived, cut, recording, buffer, process, lost>>

\* DeleteByIDRange: one DELETE of at most DeleteBatch rows; one that deletes fewer is the last.
\* PostgreSQL's DELETE has no LIMIT, so a statement may also delete all that is left.
DeletePage(failed) ==
  /\ apc = "deleting"
  /\ Fault(failed)
  /\ IF failed
       THEN apc' = "idle" /\ table' = table
       ELSE \E page \in SUBSET InRange :
              /\ IF Cardinality(InRange) < DeleteBatch
                   THEN page = InRange /\ apc' = "idle"
                   ELSE /\ Cardinality(page) \in {DeleteBatch, Cardinality(InRange)}
                        /\ apc' = apc
              /\ table' = table \ page
  /\ UNCHANGED <<log, boundary, exported, archived, cut, recording, buffer, process, lost>>

\* watchLoop sees stopCh between two archives.
ArchiverStops ==
  /\ apc = "idle" /\ phase = "closing"
  /\ apc' = "stopped"
  /\ UNCHANGED <<boundary, exported, archived, cut, recording, buffer, rows, process, faults,
                 lost>>

-----------------------------------------------------------------------------
(***************************************************************************)
(* main                                                                    *)
(***************************************************************************)
\* After Shutdown, which does not wait for the recording goroutines: buffer.Close.
CloseBuffer ==
  /\ phase = "serving"
  /\ phase' = "flushing"
  /\ UNCHANGED <<early, recording, buffer, rows, archive, faults, lost>>

\* Its wg.Wait returns; archiver.Close.
CloseArchiver ==
  /\ phase = "flushing" /\ cpc = "stopped"
  /\ phase' = "closing"
  /\ UNCHANGED <<early, recording, buffer, rows, archive, faults, lost>>

\* What is in memory when the process ends is gone, and no goroutine goes on.
Stop ==
  /\ phase' = "exited"
  /\ pc' = [r \in Call |-> IF pc[r] = "idle" THEN "idle" ELSE "done"]
  /\ lost' = lost \cup Held \cup {r \in Call : pc[r] \in {"checked", "marked"}}
  /\ chan' = <<>> /\ batch' = <<>> /\ cpc' = "stopped"
  /\ apc' = "stopped" /\ boundary' = 0 /\ exported' = {}
  /\ UNCHANGED <<marks, dropped, rows, archived, cut, early>>

Exit ==
  /\ phase = "closing" /\ apc = "stopped"
  /\ Stop /\ UNCHANGED faults

Crash ==
  /\ Up
  /\ Stop /\ Fault(TRUE)

\* A new process, with an empty buffer and an archiver that begins with tryArchive.
Restart ==
  /\ phase = "exited"
  /\ phase' = "serving"
  /\ cpc' = "looping" /\ apc' = "idle"
  /\ UNCHANGED <<chan, batch, boundary, exported, archived, cut, early, recording, rows,
                 faults, lost>>

Consume ==
  \/ Receive \/ FlushTimer \/ SeeStop \/ Drain \/ Drained
  \/ \E failed \in BOOLEAN : WriteBatch(failed) \/ WriteSingle(failed)

Archive ==
  \/ \E failed \in BOOLEAN : FindBoundary(failed) \/ ExportPage(failed) \/ DeletePage(failed)
  \/ \E failed, closeFailed \in BOOLEAN : Compress(failed, closeFailed)

Next ==
  \/ \E r \in Call, off, failed \in BOOLEAN : Check(r, off, failed) \/ Mark(r, off, failed)
  \/ \E r \in Call : Add(r)
  \/ \E c \in Content : MarkExpires(c)
  \/ Consume
  \/ \E failed \in BOOLEAN : TryArchive(failed)
  \/ Archive
  \/ ArchiverStops
  \/ CloseBuffer \/ CloseArchiver \/ Exit \/ Crash \/ Restart

Spec == Init /\ [][Next]_vars

\* The goroutines go on: the consumer's timer and the archiver's ticker never end, statements
\* return, and main waits for nothing else.  Nothing is assumed of calls and stops.
Fairness ==
  /\ WF_vars(Consume)
  /\ WF_vars(\E failed \in BOOLEAN : TryArchive(failed)) /\ WF_vars(Archive)
  /\ WF_vars(ArchiverStops) /\ WF_vars(CloseArchiver) /\ WF_vars(Exit)

FairSpec == Spec /\ Fairness

-----------------------------------------------------------------------------
(***************************************************************************)
(* Properties                                                              *)
(***************************************************************************)

\* The archiver deletes only what it has put into an archive file, although rows are
\* inserted while it exports and an archive may be given up at every step; a file that its
\* writers could not close is the one exception.
DeletedIsArchived == ~cut => Ids \ table \subseteq archived

\* A record is stored at most once, and never while the buffer still holds it: the single
\* writes after a failed batch write repeat nothing.
RecordedOnce ==
  /\ \A i, j \in Ids : log[i] = log[j] => i = j
  /\ Held \cap Elements(log) = {}

\* "Flush buffers to ensure all training data is persisted" (cmd/server/main.go), as far as
\* it goes: what was accepted before the server began to stop is stored when the buffer is
\* closed, unless its write failed or an earlier process crashed.
ShutdownFlushes == phase = "closing" => early \subseteq Elements(log) \cup lost

\* A content whose mark keeps later records away has a record itself, on its way or stored,
\* unless it was dropped by a full channel or lost by a failure or a stop.
MarkedIsKept ==
  \A c \in marks : \E r \in Call :
    /\ ContentOf[r] = c
    /\ \/ pc[r] = "marked"
       \/ r \in Held \cup Elements(log) \cup dropped \cup lost

\* What the channel accepts is stored or given up, whatever fails and whenever main stops.
AcceptedIsSettled ==
  \A r \in Call : r \in Held ~> r \in Elements(log) \cup lost
=============================================================================
