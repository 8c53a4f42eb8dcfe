------------------------------- MODULE LogExport -------------------------------
(***************************************************************************)
(* The export of the mutation log to a bucket (packages/server/src/do.ts): *)
(* the maintenance alarm reads a batch of the log past the export cursor,  *)
(* awaits the bucket, and then moves the cursor.  While the put is on its  *)
(* way pushes append to the log, an admin may reset the workspace, and the *)
(* object may be restarted.  Compaction and the extension's alarm come     *)
(* before the export and touch neither the log nor the cursor.             *)
(***************************************************************************)
EXTENDS Naturals, Sequences

CONSTANTS
  Entries,     \* what a log row says
  Idle,
  BatchRows,   \* maxBatchRows
  MaxObjects,  \* maxObjectsPerRun
  MaxLog,      \* entries of one history
  Troubles,    \* what goes wrong: TroubleKinds
  MaxTrouble   \* how often

TroubleKinds == {"put", "restart", "quarantine", "reset"}

ASSUME ExportAssumption ==
  /\ {BatchRows, MaxObjects} \subseteq Nat \ {0}
  /\ {MaxLog, MaxTrouble} \subseteq Nat
  /\ Troubles \subseteq TroubleKinds

VARIABLES
  mutationLog,      \* the rows of mutation_log; log_seq is the position
  lastExportedSeq,  \* the export cursor, in meta and in #meta
  alarm,            \* an alarm is set
  initError,        \* initialization failed, the workspace is quarantined
  run,              \* the export that awaits the bucket, or Idle
  objects,          \* the bucket
  trouble,
  torn              \* history variable: the last reset came during a put

storageVars == <<mutationLog, lastExportedSeq, alarm, initError>>
vars == <<storageVars, run, objects, trouble, torn>>

\* Mutant: the key stops one short.
LinesShortKey(from, to) ==
  [from |-> from, to |-> to - 1, body |-> [n \in from..to |-> mutationLog[n]]]

\* The rows from..to as the lines of one object.
Lines(from, to) == [from |-> from, to |-> to, body |-> [n \in from..to |-> mutationLog[n]]]

IsObject(o) ==
  /\ o.from \in Nat \ {0} /\ o.to \in Nat /\ o.from <= o.to
  /\ o.body \in [o.from..o.to -> Entries]

ExportTypeOK ==
  /\ mutationLog \in Seq(Entries)
  /\ lastExportedSeq \in Nat
  /\ alarm \in BOOLEAN
  /\ initError \in BOOLEAN
  /\ run # Idle => IsObject(run.object) /\ run.count \in 1..MaxObjects
  /\ \A o \in objects : IsObject(o)
  /\ trouble \in Nat
  /\ torn \in BOOLEAN

ExportInit ==
  /\ mutationLog = <<>>
  /\ lastExportedSeq = 0
  /\ alarm = TRUE
  /\ initError = FALSE
  /\ run = Idle
  /\ objects = {}
  /\ trouble = 0
  /\ torn = FALSE

Happens(kind) ==
  /\ kind \in Troubles
  /\ trouble < MaxTrouble
  /\ trouble' = trouble + 1

\* A processed mutation is logged, whatever its outcome.
LogMutation(e) ==
  /\ ~initError /\ Len(mutationLog) < MaxLog
  /\ mutationLog' = Append(mutationLog, e)
  /\ UNCHANGED <<lastExportedSeq, alarm, initError, run, objects, trouble, torn>>

\* Mutant: no next alarm.
FinishUnarmed == run' = Idle /\ alarm' = FALSE

\* The alarm's handler is over: it sets the next alarm, whatever happened.
Finish == run' = Idle /\ alarm' = TRUE

\* One turn of the export loop: the rows past the cursor, and the put, if any.
NextBatch(seq, count) ==
  IF seq >= Len(mutationLog) THEN Finish
  ELSE /\ alarm' = FALSE
       /\ run' = [object |-> Lines(seq + 1, IF seq + BatchRows < Len(mutationLog)
                                            THEN seq + BatchRows ELSE Len(mutationLog)),
                  count |-> count]

Alarm ==
  /\ alarm /\ ~initError /\ run = Idle
  /\ NextBatch(lastExportedSeq, 1)
  /\ UNCHANGED <<mutationLog, lastExportedSeq, initError, objects, trouble, torn>>

\* A quarantined workspace lets its alarm go by.
SkipAlarm ==
  /\ alarm /\ initError
  /\ alarm' = FALSE
  /\ UNCHANGED <<mutationLog, lastExportedSeq, initError, run, objects, trouble, torn>>

\* Mutant: the key is without the range.
SameKeyAlways(o, p) == TRUE

SameKey(o, p) == o.from = p.from /\ o.to = p.to
Stored(o) == {p \in objects : ~SameKey(o, p)} \cup {o}

\* Mutant: the end of the log after the put.
EndSeqNow(o) == Len(mutationLog)

\* The last row that was read: where the cursor goes.
EndSeq(o) == o.to

Rows(o) == o.to - o.from + 1

\* The put succeeded: the cursor moves, and the loop goes on after a full batch.
PutDone ==
  /\ run # Idle
  /\ objects' = Stored(run.object)
  /\ lastExportedSeq' = EndSeq(run.object)
  /\ IF Rows(run.object) < BatchRows \/ run.count = MaxObjects
     THEN Finish ELSE NextBatch(EndSeq(run.object), run.count + 1)
  /\ UNCHANGED <<mutationLog, initError, trouble, torn>>

\* What the bucket may hold of a put whose answer never came.
Landed == objects' = objects \/ (run # Idle /\ objects' = Stored(run.object))

PutFails ==
  /\ Happens("put")
  /\ run # Idle
  /\ Landed
  /\ Finish
  /\ UNCHANGED <<mutationLog, lastExportedSeq, initError, torn>>

\* The object restarts: an interrupted alarm is delivered again, and an
\* initialization that succeeds sets an alarm when there is none.
Restart ==
  /\ Happens("restart")
  /\ Landed
  /\ run' = Idle
  /\ initError' = FALSE
  /\ alarm' = TRUE
  /\ UNCHANGED <<mutationLog, lastExportedSeq, torn>>

RestartFails ==
  /\ Happens("quarantine")
  /\ Landed
  /\ run' = Idle
  /\ initError' = TRUE
  /\ alarm' = (alarm \/ run # Idle)
  /\ UNCHANGED <<mutationLog, lastExportedSeq, torn>>

\* A later start of a quarantined workspace succeeds.
Recover ==
  /\ initError
  /\ initError' = FALSE /\ alarm' = TRUE
  /\ UNCHANGED <<mutationLog, lastExportedSeq, run, objects, trouble, torn>>

\* The admin reset empties the storage and starts a log at 1; an export that
\* awaits the bucket knows nothing of it.
Reset ==
  /\ Happens("reset")
  /\ mutationLog' = <<>> /\ lastExportedSeq' = 0
  /\ alarm' = TRUE /\ initError' = FALSE
  /\ torn' = (run # Idle)
  /\ UNCHANGED <<run, objects>>

Next ==
  \/ \E e \in Entries : LogMutation(e)
  \/ Alarm \/ SkipAlarm \/ PutDone
  \/ PutFails \/ Restart \/ RestartFails \/ Recover \/ Reset

ExportSpec == ExportInit /\ [][Next]_vars

\* The runtime delivers the alarm that is set, the bucket answers, and a
\* workspace does not fail to initialize forever.
ExportFairSpec ==
  ExportSpec /\ WF_vars(Alarm) /\ WF_vars(PutDone) /\ WF_vars(Recover)

-----------------------------------------------------------------------------
(* Properties. *)

Archived(n) ==
  \E o \in objects : n \in o.from..o.to /\ o.body[n] = mutationLog[n]

\* Cursor after put (do.ts #exportLog): what the cursor has passed is in the
\* bucket, word for word.
CursorBehindArchive == \A n \in 1..lastExportedSeq : n <= Len(mutationLog) /\ Archived(n)

\* It is so through failed puts, restarts and resets, unless a reset came while
\* a put was on its way.
ArchiveComplete == ~torn => CursorBehindArchive

\* A later put never takes an entry of this history out of the bucket again: an
\* object is overwritten only by the lines it holds.
ArchiveKeeps ==
  [][~torn /\ Len(mutationLog') >= Len(mutationLog) =>
       \A n \in 1..Len(mutationLog) : Archived(n) => Archived(n)']_vars

\* Every logged mutation reaches the bucket (do.ts alarm, its finally block):
\* neither a failed put, nor a restart, nor a full run ends the export.
EventuallyArchived ==
  \A n \in 1..MaxLog :
    n <= Len(mutationLog) ~> (torn \/ n > Len(mutationLog) \/ Archived(n))
=============================================================================
