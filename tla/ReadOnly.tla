------------------------------ MODULE ReadOnly ------------------------------
(***************************************************************************)
(* `migr8 validate` and `migr8 status` reading a namespace while runners   *)
(* of module MigrateRun initialize and migrate it (readonly.py, and        *)
(* inspect_metadata and read_snapshot of the adapters).                    *)
(*                                                                         *)
(* The command takes no lock.  inspect_metadata is a sequence of separate  *)
(* reads, each of what is durable at its own moment; read_snapshot reads   *)
(* history and progress from one view, pinned when its first query runs.   *)
(***************************************************************************)
EXTENDS MigrateRun, FiniteSets

CONSTANT Reader     \* the process running the command; it is no runner

ASSUME ReaderAssumption == Reader \notin Runners \cup {NoRunner}

VARIABLES
    rpc,            \* the next read: ReaderSteps
    capture,        \* [Positions -> Sources]: the manifest the command captured
    present,        \* metadata objects seen, a prefix of CREATION_ORDER
    meta_rows,      \* COUNT(*) of m8_meta
    meta,           \* the marker row was seen
    history_count,  \* COUNT(*) of m8_history
    view,           \* the pinned view: the history columns and progress
    rows,           \* what the snapshot's queries returned
    report,         \* exit code of the command
    was_initialized \* the marker was durable when the command connected

readVars    == <<present, meta_rows, meta, history_count>>
readerVars  == <<rpc, capture, readVars, view, rows, report, was_initialized>>
allVars     == <<vars, readerVars>>

ReaderSteps == {"idle", "objects", "meta_rows", "meta", "history", "progress",
                "snapshot", "snapshot_progress", "plan", "done"}

\* METADATA_UNREADABLE is exit 7 for a rejected read of the marker; FAILED is
\* whatever exit a query that fails otherwise leads to.
ReportCodes == {"NONE", "OK", "VALIDATION", "NOT_INITIALIZED", "METADATA_DAMAGED",
                "METADATA_UNREADABLE", "FAILED"}

\* The columns a view or a snapshot holds.
Columns == [status : [Positions -> {"NONE", "ACTIVE", "SUCCESS"}],
            fingerprint : [Positions -> Sources \cup {NoSource}],
            first_fingerprint : [Positions -> Sources \cup {NoSource}],
            attempts : [Positions -> Nat],
            progress : [Positions -> Nat]]

EmptyColumns == [status |-> [i \in Positions |-> "NONE"],
                 fingerprint |-> [i \in Positions |-> NoSource],
                 first_fingerprint |-> [i \in Positions |-> NoSource],
                 attempts |-> [i \in Positions |-> 0],
                 progress |-> [i \in Positions |-> 0]]

\* Mutated form: completions that are not committed yet are seen.
DurableColumns_Dirty ==
    [status |-> [i \in Positions |->
                    IF \E r \in Runners : /\ cur[r] = i /\ reply[r] = "sent"
                                          /\ request[r] \in {"complete", "atomic"}
                    THEN "SUCCESS" ELSE status[i]],
     fingerprint |-> fingerprint, first_fingerprint |-> first_fingerprint,
     attempts |-> attempts, progress |-> progress]

\* What is durable now.
DurableColumns == [status |-> status, fingerprint |-> fingerprint,
                   first_fingerprint |-> first_fingerprint, attempts |-> attempts,
                   progress |-> progress]

ReaderTypeOK ==
    /\ rpc \in ReaderSteps
    /\ capture \in [Positions -> Sources]
    /\ present \in 0..CREATION_ORDER
    /\ meta_rows \in 0..1 /\ meta \in BOOLEAN
    /\ history_count \in 0..N
    /\ view \in Columns
    /\ rows \in Columns
    /\ report \in ReportCodes
    /\ was_initialized \in BOOLEAN

ReaderInit ==
    /\ rpc = "idle"
    /\ capture = source
    /\ present = 0 /\ meta_rows = 0 /\ meta = FALSE /\ history_count = 0
    /\ view = EmptyColumns /\ rows = EmptyColumns
    /\ report = "NONE"
    /\ was_initialized = FALSE

\* The rules of statevalidate, applied to what the command read.
Seen == INSTANCE MigrateRun WITH
            status <- rows.status, fingerprint <- rows.fingerprint,
            first_fingerprint <- rows.first_fingerprint,
            attempts <- rows.attempts, progress <- rows.progress,
            staged <- [r \in {Reader} |-> capture], recover <- [r \in {Reader} |-> 0]

-----------------------------------------------------------------------------
\* Capture the manifest and connect.
StartRead ==
    /\ rpc = "idle"
    /\ rpc' = "objects"
    /\ capture' = source
    /\ was_initialized' = marker
    /\ UNCHANGED <<readVars, view, rows, report>>

\* _objects_present (and the definitions of those objects, always as created).
ReadObjects ==
    /\ rpc = "objects"
    /\ present' = objects
    /\ rpc' = IF objects = CREATION_ORDER THEN "meta_rows" ELSE "history"
    /\ UNCHANGED <<capture, meta_rows, meta, history_count, view, rows, report,
                   was_initialized>>

\* _read_meta: first the number of marker rows ...
CountMeta ==
    /\ rpc = "meta_rows"
    /\ meta_rows' = IF marker THEN 1 ELSE 0
    /\ rpc' = "meta"
    /\ UNCHANGED <<capture, present, meta, history_count, view, rows, report,
                   was_initialized>>

\* ... then the row itself, in a query of its own.
ReadMeta ==
    /\ rpc = "meta"
    /\ meta' = marker
    /\ rpc' = "history"
    /\ UNCHANGED <<capture, present, meta_rows, history_count, view, rows, report,
                   was_initialized>>

\* Mutated form: progress rows are counted as well.
CountHistory_Both ==
    /\ rpc = "history"
    /\ history_count' = Cardinality({i \in Positions : status[i] # "NONE"})
                          + Cardinality({i \in Positions : progress[i] # 0})
    /\ rpc' = "progress"
    /\ UNCHANGED <<capture, present, meta_rows, meta, view, rows, report,
                   was_initialized>>

\* _count of m8_history, when the table was present.
CountHistory ==
    /\ rpc = "history"
    /\ history_count' = IF present >= 1
                        THEN Cardinality({i \in Positions : status[i] # "NONE"})
                        ELSE 0
    /\ rpc' = "progress"
    /\ UNCHANGED <<capture, present, meta_rows, meta, view, rows, report,
                   was_initialized>>

\* metadata.classify, of what the separate reads returned.
Classify(progress_count) ==
    IF meta
    THEN IF meta_rows = 1 /\ present = CREATION_ORDER THEN "COMPLETE" ELSE "DAMAGED"
    ELSE IF present = 0
    THEN "ABSENT"
    ELSE IF history_count > 0 \/ progress_count > 0
    THEN "DAMAGED"
    ELSE "INCOMPLETE_COMPATIBLE"

\* _count of m8_progress, classification, and what _prepare makes of it.
CountProgress ==
    LET count == IF present >= 3
                 THEN Cardinality({i \in Positions : progress[i] # 0}) ELSE 0
        state == Classify(count)
    IN /\ rpc = "progress"
       /\ IF state = "COMPLETE"
          THEN rpc' = "snapshot" /\ UNCHANGED report
          ELSE /\ rpc' = "done"
               /\ report' = IF state = "DAMAGED" THEN "METADATA_DAMAGED"
                                                 ELSE "NOT_INITIALIZED"
       /\ UNCHANGED <<capture, readVars, view, rows, was_initialized>>

\* read_snapshot begins: its first query pins the view and returns history.
SnapshotHistory ==
    /\ rpc = "snapshot"
    /\ view' = DurableColumns
    /\ rows' = [DurableColumns EXCEPT !.progress = EmptyColumns.progress]
    /\ rpc' = "snapshot_progress"
    /\ UNCHANGED <<capture, readVars, report, was_initialized>>

\* Mutated form: every query sees what is durable at its own moment.
Visible_Current == DurableColumns

\* What the queries of one snapshot read: the pinned view.
Visible == view

\* The rest of the snapshot.
SnapshotProgress ==
    /\ rpc = "snapshot_progress"
    /\ rows' = [rows EXCEPT !.progress = Visible.progress]
    /\ rpc' = "plan"
    /\ UNCHANGED <<capture, readVars, view, report, was_initialized>>

\* _read: build_plan and require_no_recovery_needed, reported and not acted on.
CheckPlan ==
    /\ rpc = "plan"
    /\ report' = IF ~Seen!SnapshotShape
                 THEN "METADATA_DAMAGED"
                 ELSE IF Seen!PrefixMatches(Reader) /\ Seen!RecoveryAdmits(Reader)
                 THEN "OK" ELSE "VALIDATION"
    /\ rpc' = "done"
    /\ UNCHANGED <<capture, readVars, view, rows, was_initialized>>

\* A query fails: a rejected read of the marker is reported as damage; any
\* other failure, recorded bindings that are not this target's included, ends
\* the command with an error of its own.
ReadFails ==
    /\ rpc \notin {"idle", "plan", "done"}
    /\ report' \in IF rpc \in {"meta_rows", "meta"}
                   THEN {"METADATA_UNREADABLE", "FAILED"} ELSE {"FAILED"}
    /\ rpc' = "done"
    /\ UNCHANGED <<capture, readVars, view, rows, was_initialized>>

Read ==
    \/ StartRead \/ ReadObjects \/ CountMeta \/ ReadMeta \/ CountHistory
    \/ CountProgress \/ SnapshotHistory \/ SnapshotProgress \/ CheckPlan
    \/ ReadFails

ReadOnlyInit == Init /\ ReaderInit

ReadOnlyNext ==
    \/ Next /\ UNCHANGED readerVars
    \/ Read /\ UNCHANGED vars

ReadOnlySpec == ReadOnlyInit /\ [][ReadOnlyNext]_allVars

-----------------------------------------------------------------------------
\* A namespace that was initialized when the command connected is never
\* reported as uninitialized or damaged, whatever runs admit, checkpoint and
\* complete between the command's queries.
\* (A read of the marker that the server rejects is METADATA_UNREADABLE.)
InitializedIsReadable ==
    was_initialized => report \notin {"NOT_INITIALIZED", "METADATA_DAMAGED"}

\* A successful migration in the report is final: it stays successful with
\* the fingerprint reported, whatever crashes after the command has read it.
ReportedSuccessIsFinal ==
    \A i \in Positions :
        rows.status[i] = "SUCCESS" =>
            status[i] = "SUCCESS" /\ fingerprint[i] = rows.fingerprint[i]

\* What the pinned view amounts to under the rules of statevalidate.
Pinned == INSTANCE MigrateRun WITH
            status <- view.status, fingerprint <- view.fingerprint,
            first_fingerprint <- view.first_fingerprint,
            attempts <- view.attempts, progress <- view.progress,
            staged <- [r \in {Reader} |-> capture], recover <- [r \in {Reader} |-> 0]

\* In a namespace initialized from the start, the separate reads of
\* inspect_metadata agree with each other although they are of different moments.
InspectionInv ==
    was_initialized =>
        /\ marker
        /\ rpc \in {"meta_rows", "meta", "history", "progress"} =>
              present = CREATION_ORDER
        /\ rpc \in {"meta", "history", "progress"} => meta_rows = 1
        /\ rpc \in {"history", "progress"} => meta

\* The queries of one snapshot return one state, in which the database really
\* was and which statevalidate accepts.
SnapshotInv ==
    /\ rpc \in {"snapshot_progress", "plan"} => Pinned!SnapshotShape
    /\ rpc = "snapshot_progress" =>
          rows = [view EXCEPT !.progress = EmptyColumns.progress]
    /\ rpc = "plan" => rows = view

\* The inductive invariant of the command beside any number of runners: with
\* IInv of MigrateRun it is preserved by every read and every step of a run.
ReaderInv ==
    /\ ReaderTypeOK
    /\ InspectionInv
    /\ SnapshotInv
    /\ rpc # "done" => report = "NONE"
    /\ InitializedIsReadable
    /\ ReportedSuccessIsFinal

\* Metadata that migr8 alone has written is never reported as damaged: the
\* command tells an uninitialized namespace and a damaged one apart.
HealthyIsNotDamaged == report # "METADATA_DAMAGED"
=============================================================================
