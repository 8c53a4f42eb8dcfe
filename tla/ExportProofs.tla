----------------------------- MODULE ExportProofs -----------------------------
(***************************************************************************)
(* Proofs about LogExport, for every batch size, number of objects per run *)
(* and bound: the types, that the cursor never passes a row the bucket     *)
(* does not hold, and that the bucket keeps what it holds.                 *)
(***************************************************************************)
EXTENDS LogExport, TLAPS

\* The export in flight carries the rows right after the cursor, as they are.
RunCurrent ==
  run # Idle /\ ~torn =>
    /\ run.object.from = lastExportedSeq + 1
    /\ run.object.to <= Len(mutationLog)
    /\ \A n \in run.object.from..run.object.to : run.object.body[n] = mutationLog[n]

ExportInv == ExportTypeOK /\ ArchiveComplete /\ RunCurrent

\* A batch read from the log is well formed, begins after the cursor and
\* repeats the log (the SELECT of #exportLog).
LEMMA LinesFaithful ==
  ASSUME mutationLog \in Seq(Entries), NEW from \in Nat \ {0}, NEW to \in Nat,
         from <= to, to <= Len(mutationLog)
  PROVE  /\ IsObject(Lines(from, to))
         /\ Lines(from, to).from = from /\ Lines(from, to).to = to
         /\ \A n \in from..to : Lines(from, to).body[n] = mutationLog[n]
  BY DEF IsObject, Lines

\* What the loop's next turn leaves: no export, or one of the rows after seq.
LEMMA NextBatchCurrent ==
  ASSUME mutationLog \in Seq(Entries), NEW seq \in Nat, NEW count \in 1..MaxObjects,
         NextBatch(seq, count)
  PROVE  /\ alarm' \in BOOLEAN
         /\ run' # Idle => /\ IsObject(run'.object) /\ run'.count \in 1..MaxObjects
                           /\ run'.object.from = seq + 1
                           /\ run'.object.to <= Len(mutationLog)
                           /\ \A n \in run'.object.from..run'.object.to :
                                run'.object.body[n] = mutationLog[n]
<1>1. CASE seq >= Len(mutationLog)
  BY <1>1 DEF NextBatch, Finish
<1>2. CASE ~(seq >= Len(mutationLog))
  <2> DEFINE to == IF seq + BatchRows < Len(mutationLog) THEN seq + BatchRows
                   ELSE Len(mutationLog)
  <2>1. Len(mutationLog) \in Nat
    OBVIOUS
  <2>2. to \in Nat /\ seq + 1 <= to /\ to <= Len(mutationLog) /\ seq + 1 \in Nat \ {0}
    BY <1>2, <2>1, ExportAssumption
  <2>3. alarm' = FALSE /\ run' = [object |-> Lines(seq + 1, to), count |-> count]
    BY <1>2 DEF NextBatch
  <2> HIDE DEF to
  <2>4. run'.object = Lines(seq + 1, to) /\ run'.count = count
    BY <2>3
  <2> DEFINE o == Lines(seq + 1, to)
  <2>5. /\ IsObject(o) /\ o.from = seq + 1 /\ o.to = to
        /\ \A n \in (seq + 1)..to : o.body[n] = mutationLog[n]
    BY <2>2, LinesFaithful
  <2> HIDE DEF o
  <2>6. run'.object = o
    BY <2>4 DEF o
  <2>7. QED
    BY <2>2, <2>3, <2>4, <2>5, <2>6
<1>3. QED
  BY <1>1, <1>2

\* The object a put stores joins the others, which stay unless they had its key.
LEMMA StoredObjects ==
  ASSUME NEW o, objects' = Stored(o)
  PROVE  /\ o \in objects'
         /\ \A p \in objects' : p = o \/ p \in objects
         /\ \A p \in objects : p \in objects' \/ SameKey(p, o)
  BY DEF Stored, SameKey

LEMMA InitExport == ExportInit => ExportInv
<1> SUFFICES ASSUME ExportInit PROVE ExportInv
  OBVIOUS
<1>0. <<>> \in Seq(Entries)
  OBVIOUS
<1>1. ExportTypeOK
  BY <1>0 DEF ExportInit, ExportTypeOK
<1>2. 1..lastExportedSeq = {}
  BY DEF ExportInit
<1>3. ArchiveComplete
  BY <1>2 DEF ArchiveComplete, CursorBehindArchive
<1>4. RunCurrent
  BY DEF ExportInit, RunCurrent
<1>5. QED
  BY <1>1, <1>3, <1>4 DEF ExportInv

\* An object of the bucket, or the one of the run, may join the bucket.
LEMMA LandedKeeps ==
  ASSUME ExportInv, Landed
  PROVE  /\ \A o \in objects' : IsObject(o)
         /\ ~torn => \A n \in 1..Len(mutationLog) : Archived(n) =>
              \E o \in objects' : n \in o.from..o.to /\ o.body[n] = mutationLog[n]
<1>1. CASE objects' = objects
  BY <1>1 DEF ExportInv, ExportTypeOK, Archived
<1>2. CASE run # Idle /\ objects' = Stored(run.object)
  <2>1. IsObject(run.object)
    BY <1>2 DEF ExportInv, ExportTypeOK
  <2>2. \A o \in objects' : IsObject(o)
    BY <1>2, <2>1, StoredObjects DEF ExportInv, ExportTypeOK
  <2>3. ASSUME ~torn, NEW n \in 1..Len(mutationLog), Archived(n)
        PROVE  \E o \in objects' : n \in o.from..o.to /\ o.body[n] = mutationLog[n]
    <3>1. PICK o \in objects : n \in o.from..o.to /\ o.body[n] = mutationLog[n]
      BY <2>3 DEF Archived
    <3>2. CASE o \in objects'
      BY <3>1, <3>2
    <3>3. CASE SameKey(o, run.object)
      <4>1. n \in run.object.from..run.object.to
        BY <3>1, <3>3 DEF SameKey
      <4>2. run.object.body[n] = mutationLog[n]
        BY <1>2, <2>3, <4>1 DEF ExportInv, RunCurrent
      <4>3. QED
        BY <1>2, <4>1, <4>2, StoredObjects
    <3>4. QED
      BY <1>2, <3>1, <3>2, <3>3, StoredObjects
  <2>4. QED
    BY <2>2, <2>3
<1>3. QED
  BY <1>1, <1>2 DEF Landed

-----------------------------------------------------------------------------
(* Every step keeps ExportInv. *)

LEMMA LogMutationExport ==
  ASSUME ExportInv, NEW e \in Entries, LogMutation(e)
  PROVE  ExportInv'
<1>1. /\ mutationLog' \in Seq(Entries) /\ Len(mutationLog') = Len(mutationLog) + 1
      /\ \A n \in 1..Len(mutationLog) : mutationLog'[n] = mutationLog[n]
  BY DEF ExportInv, ExportTypeOK, LogMutation
<1>2. ExportTypeOK'
  BY <1>1 DEF ExportInv, ExportTypeOK, LogMutation
<1>3. ArchiveComplete'
  BY <1>1 DEF ExportInv, ExportTypeOK, ArchiveComplete, CursorBehindArchive, Archived, LogMutation
<1>4. RunCurrent'
  <2>1. SUFFICES ASSUME run # Idle, ~torn
                 PROVE  /\ run.object.from = lastExportedSeq + 1
                        /\ run.object.to <= Len(mutationLog')
                        /\ \A n \in run.object.from..run.object.to :
                             run.object.body[n] = mutationLog'[n]
    BY DEF RunCurrent, LogMutation
  <2>2. /\ run.object.from = lastExportedSeq + 1
        /\ run.object.to <= Len(mutationLog)
        /\ run.object.from \in Nat \ {0} /\ run.object.to \in Nat
        /\ \A n \in run.object.from..run.object.to : run.object.body[n] = mutationLog[n]
    BY <2>1 DEF ExportInv, ExportTypeOK, RunCurrent, IsObject
  <2>3. QED
    BY <1>1, <2>2
<1>5. QED
  BY <1>2, <1>3, <1>4 DEF ExportInv

LEMMA AlarmExport ==
  ASSUME ExportInv, Alarm
  PROVE  ExportInv'
<1>1. mutationLog \in Seq(Entries) /\ lastExportedSeq \in Nat /\ 1 \in 1..MaxObjects
  BY ExportAssumption DEF ExportInv, ExportTypeOK
<1>2. NextBatch(lastExportedSeq, 1)
  BY DEF Alarm
<1>3. ExportTypeOK'
  BY <1>1, <1>2, NextBatchCurrent DEF ExportInv, ExportTypeOK, Alarm
<1>4. ArchiveComplete'
  BY DEF ExportInv, ArchiveComplete, CursorBehindArchive, Archived, Alarm
<1>5. RunCurrent'
  BY <1>1, <1>2, NextBatchCurrent DEF RunCurrent, Alarm
<1>6. QED
  BY <1>3, <1>4, <1>5 DEF ExportInv

LEMMA PutDoneExport ==
  ASSUME ExportInv, PutDone
  PROVE  ExportInv'
<1> DEFINE o == run.object
<1>1. /\ IsObject(o) /\ run.count \in 1..MaxObjects
      /\ mutationLog \in Seq(Entries) /\ o.to \in Nat
  BY DEF ExportInv, ExportTypeOK, PutDone, IsObject
<1>2. Landed
  BY DEF PutDone, Landed
<1>3. Finish \/ (NextBatch(o.to, run.count + 1) /\ run.count # MaxObjects)
  <2>1. CASE Rows(o) < BatchRows \/ run.count = MaxObjects
    BY <2>1 DEF PutDone
  <2>2. CASE ~(Rows(o) < BatchRows \/ run.count = MaxObjects)
    <3>1. NextBatch(EndSeq(o), run.count + 1)
      BY <2>2 DEF PutDone
    <3>2. run.count # MaxObjects
      BY <2>2
    <3>3. QED
      BY <3>1, <3>2 DEF EndSeq
  <2>3. QED
    BY <2>1, <2>2
<1>4. /\ alarm' \in BOOLEAN
      /\ run' # Idle => /\ IsObject(run'.object) /\ run'.count \in 1..MaxObjects
                        /\ run'.object.from = o.to + 1
                        /\ run'.object.to <= Len(mutationLog)
                        /\ \A n \in run'.object.from..run'.object.to :
                             run'.object.body[n] = mutationLog[n]
  <2>1. CASE Finish
    BY <2>1 DEF Finish
  <2>2. CASE NextBatch(o.to, run.count + 1) /\ run.count # MaxObjects
    <3>1. run.count + 1 \in 1..MaxObjects
      BY <1>1, <2>2, ExportAssumption
    <3>2. QED
      BY <1>1, <2>2, <3>1, NextBatchCurrent
  <2>3. QED
    BY <1>3, <2>1, <2>2
<1>5. ExportTypeOK'
  BY <1>1, <1>2, <1>4, LandedKeeps DEF ExportInv, ExportTypeOK, PutDone, EndSeq
<1>6. ArchiveComplete'
  <2>1. SUFFICES ASSUME ~torn, NEW n \in 1..o.to
                 PROVE  /\ n <= Len(mutationLog)
                        /\ \E p \in objects' : n \in p.from..p.to /\ p.body[n] = mutationLog[n]
    BY DEF ArchiveComplete, CursorBehindArchive, Archived, PutDone, EndSeq
  <2>2. /\ o.from = lastExportedSeq + 1 /\ o.to <= Len(mutationLog)
        /\ \A k \in o.from..o.to : o.body[k] = mutationLog[k]
    BY <2>1 DEF ExportInv, RunCurrent, PutDone
  <2>3. Len(mutationLog) \in Nat /\ lastExportedSeq \in Nat
    BY DEF ExportInv, ExportTypeOK
  <2>4. n <= Len(mutationLog)
    BY <1>1, <2>1, <2>2, <2>3
  <2>5. CASE n <= lastExportedSeq
    <3>1. Archived(n)
      BY <2>1, <2>3, <2>5 DEF ExportInv, ArchiveComplete, CursorBehindArchive
    <3>2. QED
      BY <1>2, <2>1, <2>3, <2>4, <3>1, LandedKeeps
  <2>6. CASE ~(n <= lastExportedSeq)
    <3>1. n \in o.from..o.to
      BY <1>1, <2>1, <2>2, <2>3, <2>6
    <3>2. o \in objects'
      BY StoredObjects DEF PutDone
    <3>3. QED
      BY <2>2, <2>4, <3>1, <3>2
  <2>7. QED
    BY <2>5, <2>6
<1>7. RunCurrent'
  BY <1>4 DEF RunCurrent, PutDone, EndSeq
<1>8. QED
  BY <1>5, <1>6, <1>7 DEF ExportInv

\* A run that ends with the put unanswered leaves the cursor where it was.
LEMMA AbandonedExport ==
  ASSUME ExportInv, Landed, run' = Idle, alarm' \in BOOLEAN, initError' \in BOOLEAN,
         trouble' = trouble + 1, UNCHANGED <<mutationLog, lastExportedSeq, torn>>
  PROVE  ExportInv'
<1>1. ExportTypeOK'
  BY LandedKeeps DEF ExportInv, ExportTypeOK
<1>2. ArchiveComplete'
  <2>1. SUFFICES ASSUME ~torn, NEW n \in 1..lastExportedSeq
                 PROVE  /\ n <= Len(mutationLog)
                        /\ \E p \in objects' : n \in p.from..p.to /\ p.body[n] = mutationLog[n]
    BY DEF ArchiveComplete, CursorBehindArchive, Archived
  <2>2. n <= Len(mutationLog) /\ Archived(n)
    BY <2>1 DEF ExportInv, ArchiveComplete, CursorBehindArchive
  <2>3. n \in 1..Len(mutationLog)
    BY <2>2 DEF ExportInv, ExportTypeOK
  <2>4. QED
    BY <2>1, <2>2, <2>3, LandedKeeps
<1>3. RunCurrent'
  BY DEF RunCurrent
<1>4. QED
  BY <1>1, <1>2, <1>3 DEF ExportInv

LEMMA ResetExport ==
  ASSUME ExportInv, Reset
  PROVE  ExportInv'
<1>0. <<>> \in Seq(Entries)
  OBVIOUS
<1>1. torn' \in BOOLEAN
  BY DEF Reset
<1>2. ExportTypeOK'
  <2>1. /\ mutationLog' = <<>> /\ lastExportedSeq' = 0 /\ alarm' = TRUE /\ initError' = FALSE
        /\ trouble' = trouble + 1 /\ UNCHANGED <<run, objects>>
    BY DEF Reset, Happens
  <2>2. mutationLog' \in Seq(Entries)
    BY <1>0, <2>1
  <2>3. /\ run' # Idle => IsObject(run'.object) /\ run'.count \in 1..MaxObjects
        /\ \A o \in objects' : IsObject(o)
    BY <2>1 DEF ExportInv, ExportTypeOK
  <2>4. lastExportedSeq' \in Nat /\ trouble' \in Nat
    BY <2>1 DEF ExportInv, ExportTypeOK
  <2>5. QED
    BY <1>1, <2>1, <2>2, <2>3, <2>4 DEF ExportTypeOK
<1>3. 1..lastExportedSeq' = {}
  BY DEF Reset
<1>4. ArchiveComplete'
  BY <1>3 DEF ArchiveComplete, CursorBehindArchive
<1>5. RunCurrent'
  BY DEF RunCurrent, Reset
<1>6. QED
  BY <1>2, <1>4, <1>5 DEF ExportInv

LEMMA StepExport == ExportInv /\ [Next]_vars => ExportInv'
<1> SUFFICES ASSUME ExportInv, [Next]_vars PROVE ExportInv'
  OBVIOUS
<1>1. CASE \E e \in Entries : LogMutation(e)
  BY <1>1, LogMutationExport
<1>2. CASE Alarm
  BY <1>2, AlarmExport
<1>3. CASE SkipAlarm
  BY <1>3 DEF ExportInv, ExportTypeOK, ArchiveComplete, CursorBehindArchive, Archived,
              RunCurrent, SkipAlarm
<1>4. CASE PutDone
  BY <1>4, PutDoneExport
<1>5. CASE PutFails
  BY <1>5, AbandonedExport DEF PutFails, Happens, Finish, ExportInv, ExportTypeOK
<1>6. CASE Restart
  BY <1>6, AbandonedExport DEF Restart, Happens
<1>7. CASE RestartFails
  <2>1. alarm' \in BOOLEAN
    BY <1>7 DEF RestartFails
  <2>2. QED
    BY <1>7, <2>1, AbandonedExport DEF RestartFails, Happens
<1>8. CASE Recover
  BY <1>8 DEF ExportInv, ExportTypeOK, ArchiveComplete, CursorBehindArchive, Archived,
              RunCurrent, Recover
<1>9. CASE Reset
  BY <1>9, ResetExport
<1>10. CASE UNCHANGED vars
  BY <1>10 DEF ExportInv, ExportTypeOK, ArchiveComplete, CursorBehindArchive, Archived,
               RunCurrent, vars, storageVars
<1>11. QED
  BY <1>1, <1>2, <1>3, <1>4, <1>5, <1>6, <1>7, <1>8, <1>9, <1>10 DEF Next

\* Every variable of the export keeps its type: do.ts #exportLog reads and
\* stores only well-formed ranges of the log.
THEOREM ExportTypeCorrect == ExportSpec => []ExportTypeOK
<1>1. ExportInv => ExportTypeOK
  BY DEF ExportInv
<1>2. QED
  BY InitExport, StepExport, <1>1, PTL DEF ExportSpec

\* The cursor never passes a row the bucket does not hold, unless a reset came
\* while a put was on its way (do.ts #exportLog, cursor after put).
THEOREM ArchiveCorrect == ExportSpec => []ArchiveComplete
<1>1. ExportInv => ArchiveComplete
  BY DEF ExportInv
<1>2. QED
  BY InitExport, StepExport, <1>1, PTL DEF ExportSpec

\* What the bucket holds of this history it keeps (do.ts #exportLog, the key
\* embeds the range).
THEOREM ArchiveIsKept == ExportSpec => ArchiveKeeps
<1> DEFINE Kept == ~torn /\ Len(mutationLog') >= Len(mutationLog) =>
                     \A n \in 1..Len(mutationLog) : Archived(n) => Archived(n)'
<1>1. ExportInv /\ [Next]_vars => [Kept]_vars
  <2> SUFFICES ASSUME ExportInv, Next, ~torn, Len(mutationLog') >= Len(mutationLog),
                      NEW n \in 1..Len(mutationLog), Archived(n)
               PROVE  \E o \in objects' : n \in o.from..o.to /\ o.body[n] = mutationLog'[n]
    BY DEF Archived
  <2>1. Len(mutationLog) \in Nat
    BY DEF ExportInv, ExportTypeOK
  <2>2. CASE UNCHANGED <<mutationLog, objects>>
    BY <2>2 DEF Archived
  <2>3. CASE \E e \in Entries : LogMutation(e)
    <3>1. mutationLog'[n] = mutationLog[n] /\ objects' = objects
      BY <2>1, <2>3 DEF LogMutation, ExportInv, ExportTypeOK
    <3>2. QED
      BY <3>1 DEF Archived
  <2>4. CASE Landed /\ UNCHANGED mutationLog
    BY <2>4, LandedKeeps
  <2>5. CASE Reset
    BY <2>1, <2>5 DEF Reset
  <2>6. QED
    BY <2>2, <2>3, <2>4, <2>5
       DEF Next, Alarm, SkipAlarm, PutDone, PutFails, Restart, RestartFails, Recover, Landed
<1>2. QED
  BY InitExport, StepExport, <1>1, PTL DEF ExportSpec, ArchiveKeeps
=============================================================================
