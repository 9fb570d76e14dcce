--------------------------- MODULE ReadOnlyProofs ---------------------------
(***************************************************************************)
(* `validate` and `status` beside any number of runners, without a lock.   *)
(* The command's reads are of different moments, so what they amount to    *)
(* together rests on what no run ever undoes: the marker and the objects   *)
(* stay, and so does a successful row.  The snapshot rests on the view     *)
(* pinned by its first query, which is a durable state and hence, by IInv  *)
(* of MigrateRun, one that statevalidate accepts.                          *)
(***************************************************************************)
EXTENDS ReadOnly, MigrateRunProofs, FiniteSetTheorems

\* The invariant of the runs and of the command.
CommandInv == IInv /\ ReaderInv

\* A count of rows of a table keyed by position is at most N.
LEMMA CountBound ==
  ASSUME NEW S, S \subseteq Positions
  PROVE  Cardinality(S) \in 0 .. N
  <1>1. IsFiniteSet(Positions) /\ Cardinality(Positions) = N
    BY ConstantsAssumption, FS_Interval DEF Positions
  <1>2. QED
    BY <1>1, FS_Subset, FS_CardinalityType

\* What is durable has the columns' types, and its shape is a sound snapshot.
LEMMA DurableIsSound ==
  ASSUME IInv
  PROVE  DurableColumns \in Columns /\ SnapshotShape
  BY DEF IInv, TypeOK, DurableInv, DurableColumns, Columns

\* An empty snapshot has the columns' types.
LEMMA EmptyIsTyped == EmptyColumns \in Columns
  BY DEF EmptyColumns, Columns

\* No run removes the marker.
LEMMA MarkerStays ==
  ASSUME IInv, [Next]_vars, marker
  PROVE  marker'
  <1>1. CASE UNCHANGED durableVars
    BY <1>1 DEF durableVars
  <1>2. ASSUME NEW r \in Runners, ServerCommits(r) PROVE marker'
    BY <1>2
       DEF ServerCommits, CreateObject, InsertMarker, DbInsertActive, DbUpdateAttempt,
           DbBatch, DbComplete, DbAtomic
  <1>3. QED
    BY <1>1, <1>2, OnlyCommitsChange

-----------------------------------------------------------------------------
\* Nothing has been read at first.
LEMMA InitReader ==
  ASSUME ReadOnlyInit
  PROVE  CommandInv
  <1>1. IInv
    BY InitIInv DEF ReadOnlyInit
  <1>2. ReaderTypeOK
    <2>1. meta \in BOOLEAN /\ was_initialized \in BOOLEAN
      BY Zenon DEF ReadOnlyInit, ReaderInit
    <2>2. QED
      BY <2>1, EmptyIsTyped, ConstantsAssumption
         DEF ReadOnlyInit, Init, ReaderInit, ReaderTypeOK, ReaderSteps, ReportCodes,
             CREATION_ORDER
  <1>3. QED
    BY <1>1, <1>2
       DEF CommandInv, ReadOnlyInit, ReaderInit, ReaderInv, InspectionInv, SnapshotInv,
           InitializedIsReadable, ReportedSuccessIsFinal, EmptyColumns

\* A step of a run: it keeps the marker and what the command saw successful.
LEMMA RunKeepsReader ==
  ASSUME CommandInv, [Next]_vars, UNCHANGED readerVars
  PROVE  CommandInv'
  <1> USE DEF CommandInv, ReaderInv, readerVars, readVars
  <1>1. IInv'
    BY NextIInv
  <1>2. ReaderTypeOK'
    BY DEF ReaderTypeOK, Columns, Positions
  <1>3. InspectionInv'
    BY MarkerStays DEF InspectionInv, CREATION_ORDER
  <1>4. SnapshotInv'
    BY DEF SnapshotInv, Pinned!SnapshotShape, Pinned!RowOK, Pinned!SuccessCount,
           Pinned!Positions, EmptyColumns, Positions
  <1>5. ReportedSuccessIsFinal'
    <2>1. ASSUME NEW i \in Positions, rows.status[i] = "SUCCESS"
          PROVE  status'[i] = "SUCCESS" /\ fingerprint'[i] = rows.fingerprint[i]
      BY <2>1, StepKeepsHistory DEF ReportedSuccessIsFinal, HistoryStep
    <2>2. QED
      BY <2>1 DEF ReportedSuccessIsFinal, Positions
  <1>6. QED
    BY <1>1, <1>2, <1>3, <1>4, <1>5 DEF InitializedIsReadable

-----------------------------------------------------------------------------
\* The reads of inspect_metadata: none of them concludes anything yet.
LEMMA InspectKeepsReader ==
  ASSUME CommandInv,
         StartRead \/ ReadObjects \/ CountMeta \/ ReadMeta \/ CountHistory,
         UNCHANGED vars
  PROVE  ReaderInv'
  <1> USE DEF CommandInv, ReaderInv, readVars, vars, durableVars, historyVars, envVars
  <1>1. view' = view /\ rows' = rows /\ report' = report
    BY DEF StartRead, ReadObjects, CountMeta, ReadMeta, CountHistory
  <1>2. ReaderTypeOK'
    <2> USE DEF ReaderTypeOK, ReaderSteps, Columns, Positions
    <2>1. CASE StartRead
      BY <1>1, <2>1 DEF StartRead, IInv, TypeOK
    <2>2. CASE ReadObjects
      BY <1>1, <2>2 DEF ReadObjects, IInv, TypeOK
    <2>3. CASE CountMeta
      BY <1>1, <2>3 DEF CountMeta
    <2>4. CASE ReadMeta
      BY <1>1, <2>4 DEF ReadMeta, IInv, TypeOK
    <2>5. CASE CountHistory
      <3>1. Cardinality({i \in Positions : status[i] # "NONE"}) \in 0 .. N
        BY CountBound
      <3>2. history_count' \in 0 .. N
        BY <2>5, <3>1, ConstantsAssumption DEF CountHistory
      <3>3. QED
        BY <1>1, <2>5, <3>2 DEF CountHistory
    <2>6. QED
      BY <2>1, <2>2, <2>3, <2>4, <2>5
  <1>3. InspectionInv'
    <2> USE DEF InspectionInv, CREATION_ORDER
    <2>1. CASE StartRead
      BY <2>1 DEF StartRead
    <2>2. CASE ReadObjects
      BY <2>2 DEF ReadObjects, IInv, DurableInv
    <2>3. CASE CountMeta
      BY <2>3 DEF CountMeta
    <2>4. CASE ReadMeta
      BY <2>4 DEF ReadMeta
    <2>5. CASE CountHistory
      BY <2>5 DEF CountHistory
    <2>6. QED
      BY <2>1, <2>2, <2>3, <2>4, <2>5
  <1>4. rpc \notin {"done", "snapshot_progress", "plan"}
         /\ rpc' \notin {"done", "snapshot_progress", "plan"}
    BY DEF StartRead, ReadObjects, CountMeta, ReadMeta, CountHistory
  <1>5. QED
    BY <1>1, <1>2, <1>3, <1>4
       DEF SnapshotInv, InitializedIsReadable, ReportedSuccessIsFinal, Positions

\* The end of inspect_metadata: an initialized namespace is found complete.
LEMMA ClassifyKeepsReader ==
  ASSUME CommandInv, CountProgress, UNCHANGED vars
  PROVE  ReaderInv'
  <1> USE DEF CommandInv, ReaderInv, readVars, vars, durableVars, historyVars
  <1>1. was_initialized => rpc' = "snapshot" /\ report' = report
    BY DEF CountProgress, Classify, InspectionInv
  <1>2. /\ rpc' \in {"snapshot", "done"}
        /\ report' \in {report, "METADATA_DAMAGED", "NOT_INITIALIZED"}
        /\ rpc' = "snapshot" => report' = report
        /\ rpc = "progress"
    BY DEF CountProgress
  <1>3. UNCHANGED <<capture, present, meta_rows, meta, history_count, view, rows,
                    was_initialized>>
    BY DEF CountProgress
  <1>4. ReaderTypeOK'
    BY <1>2, <1>3 DEF ReaderTypeOK, ReaderSteps, ReportCodes, Columns, Positions
  <1>5. QED
    BY <1>1, <1>2, <1>3, <1>4
       DEF InspectionInv, SnapshotInv, InitializedIsReadable, ReportedSuccessIsFinal,
           Positions

\* read_snapshot: the first query pins what is durable, and that is sound.
LEMMA PinKeepsReader ==
  ASSUME CommandInv, SnapshotHistory, UNCHANGED vars
  PROVE  ReaderInv'
  <1> USE DEF CommandInv, ReaderInv, readVars, vars, durableVars, historyVars
  <1>1. DurableColumns \in Columns /\ SnapshotShape
    BY DurableIsSound
  <1>2. ReaderTypeOK'
    BY <1>1, EmptyIsTyped
       DEF SnapshotHistory, ReaderTypeOK, ReaderSteps, ReportCodes, Columns, Positions
  <1>3. Pinned!SnapshotShape'
    BY <1>1
       DEF SnapshotHistory, DurableColumns, SnapshotShape, SuccessCount, RowOK,
           Positions, Pinned!SnapshotShape, Pinned!SuccessCount, Pinned!RowOK,
           Pinned!Positions
  <1>4. rows' = [view' EXCEPT !.progress = EmptyColumns.progress]
    BY DEF SnapshotHistory
  <1>5. ReportedSuccessIsFinal'
    BY DEF SnapshotHistory, DurableColumns, ReportedSuccessIsFinal, Positions
  <1>6. QED
    BY <1>2, <1>3, <1>4, <1>5
       DEF SnapshotHistory, InspectionInv, SnapshotInv, InitializedIsReadable,
           EmptyColumns, Positions

\* The later queries read the same view, whatever has been committed since.
LEMMA SnapshotKeepsReader ==
  ASSUME CommandInv, SnapshotProgress, UNCHANGED vars
  PROVE  ReaderInv'
  <1> USE DEF CommandInv, ReaderInv, readVars, vars, durableVars, historyVars
  <1>1. rows' = view
    BY DEF SnapshotProgress, Visible, SnapshotInv, ReaderTypeOK, Columns
  <1>2. view' = view /\ rows.status = view.status
         /\ rows.fingerprint = view.fingerprint
    BY DEF SnapshotProgress, SnapshotInv, ReaderTypeOK, Columns
  <1>3. Pinned!SnapshotShape'
    BY <1>2
       DEF SnapshotProgress, SnapshotInv, Pinned!SnapshotShape, Pinned!SuccessCount,
           Pinned!RowOK, Pinned!Positions
  <1>4. ReaderTypeOK'
    BY <1>1 DEF SnapshotProgress, ReaderTypeOK, ReaderSteps, Columns, Positions
  <1>5. ReportedSuccessIsFinal'
    BY <1>1, <1>2 DEF ReportedSuccessIsFinal, Positions
  <1>6. QED
    BY <1>1, <1>2, <1>3, <1>4, <1>5
       DEF SnapshotProgress, InspectionInv, SnapshotInv, InitializedIsReadable

\* The report: the plan is built from a sound snapshot, so it finds no damage.
LEMMA PlanKeepsReader ==
  ASSUME CommandInv, CheckPlan, UNCHANGED vars
  PROVE  ReaderInv'
  <1> USE DEF CommandInv, ReaderInv, readVars, vars, durableVars, historyVars
  <1>1. Seen!SnapshotShape
    BY DEF CheckPlan, SnapshotInv, Pinned!SnapshotShape, Pinned!SuccessCount,
           Pinned!RowOK, Pinned!Positions, Seen!SnapshotShape, Seen!SuccessCount,
           Seen!RowOK, Seen!Positions
  <1>2. report' \in {"OK", "VALIDATION"}
    BY <1>1 DEF CheckPlan
  <1>3. ReaderTypeOK'
    BY <1>2 DEF CheckPlan, ReaderTypeOK, ReaderSteps, ReportCodes, Columns, Positions
  <1>4. QED
    BY <1>2, <1>3
       DEF CheckPlan, InspectionInv, SnapshotInv, InitializedIsReadable,
           ReportedSuccessIsFinal, Positions

\* A failing query ends the command with an error of its own.
LEMMA FailKeepsReader ==
  ASSUME CommandInv, ReadFails, UNCHANGED vars
  PROVE  ReaderInv'
  <1> USE DEF CommandInv, ReaderInv, readVars, vars, durableVars, historyVars
  <1>1. report' \in {"METADATA_UNREADABLE", "FAILED"}
    BY DEF ReadFails
  <1>2. ReaderTypeOK'
    BY <1>1 DEF ReadFails, ReaderTypeOK, ReaderSteps, ReportCodes, Columns, Positions
  <1>3. QED
    BY <1>1, <1>2
       DEF ReadFails, InspectionInv, SnapshotInv, InitializedIsReadable,
           ReportedSuccessIsFinal, Positions

\* Every step, of a run or of the command, keeps the invariant.
LEMMA NextReader ==
  ASSUME CommandInv, [ReadOnlyNext]_allVars
  PROVE  CommandInv'
  <1>1. CASE UNCHANGED allVars \/ (Next /\ UNCHANGED readerVars)
    BY <1>1, RunKeepsReader DEF allVars
  <1>2. CASE Read /\ UNCHANGED vars
    <2>1. IInv'
      BY <1>2, NextIInv DEF CommandInv
    <2>2. ReaderInv'
      BY <1>2, InspectKeepsReader, ClassifyKeepsReader, PinKeepsReader,
         SnapshotKeepsReader, PlanKeepsReader, FailKeepsReader
         DEF Read
    <2>3. QED
      BY <2>1, <2>2 DEF CommandInv
  <1>3. QED
    BY <1>1, <1>2 DEF ReadOnlyNext

-----------------------------------------------------------------------------
\* THEOREM: the command's invariant holds beside any number of runners: its
\* separate reads agree in an initialized namespace, and a snapshot is one
\* durable state that statevalidate accepts.
THEOREM ReaderInvHolds == ReadOnlySpec => []ReaderInv
  <1>1. ReadOnlyInit => CommandInv
    BY InitReader
  <1>2. CommandInv /\ [ReadOnlyNext]_allVars => CommandInv'
    BY NextReader
  <1>3. CommandInv => ReaderInv
    BY DEF CommandInv
  <1>4. QED
    BY <1>1, <1>2, <1>3, PTL DEF ReadOnlySpec

\* THEOREM: `validate` and `status` never report an initialized namespace as
\* uninitialized or damaged, whatever runs commit between their queries.
THEOREM InitializedIsReadableHolds == ReadOnlySpec => []InitializedIsReadable
  <1>1. ReaderInv => InitializedIsReadable
    BY DEF ReaderInv
  <1>2. QED
    BY <1>1, ReaderInvHolds, PTL

\* THEOREM: a migration the command saw as successful stays successful, with
\* the fingerprint it reported.
THEOREM ReportedSuccessIsFinalHolds == ReadOnlySpec => []ReportedSuccessIsFinal
  <1>1. ReaderInv => ReportedSuccessIsFinal
    BY DEF ReaderInv
  <1>2. QED
    BY <1>1, ReaderInvHolds, PTL
=============================================================================
