------------------------- MODULE ManifestEvolution -------------------------
(***************************************************************************)
(* One namespace over the life of a project: every migrate, validate and   *)
(* status may be given another manifest, with migrations added, removed,   *)
(* reordered, renamed, rewritten or moved to another mode or language.     *)
(* statevalidate.py decides which manifest may continue which history,     *)
(* verify_baseline which plan may follow an approved one, and the engine   *)
(* writes what its plan says.                                              *)
(*                                                                         *)
(* Runs are taken one at a time: that two of them never interleave their   *)
(* writes, and that each write is all or nothing, is MigrateRun's subject. *)
(***************************************************************************)
EXTENDS Integers, Sequences, FiniteSets

CONSTANTS
    Ids,            \* migration ids
    Contents,       \* what a unit may hold; see ContentsAssumption
    NoId,           \* "no --recover"
    MaxLength,      \* bound: the longest manifest
    MaxAttempts,    \* bound: attempts of a restartable migration
    MaxEdits        \* bound: rows changed by hand

\* A content is everything the fingerprint covers: the declared language and
\* mode and the files.  sound tells whether preflight accepts the files.
ASSUME ContentsAssumption ==
    Contents \subseteq [language : {"sql", "python"}, mode : {"atomic", "restartable"},
                        src : Nat, sound : BOOLEAN]

ASSUME BoundsAssumption ==
    /\ NoId \notin Ids
    /\ MaxLength \in Nat /\ MaxAttempts \in Nat \ {0} /\ MaxEdits \in Nat

\* manifest.load: entries in order, no id twice.
Manifests ==
    UNION {{m \in [1 .. n -> [id : Ids, content : Contents]] :
               \A i, j \in 1 .. n : m[i].id = m[j].id => i = j} : n \in 0 .. MaxLength}

\* fingerprint.compute, taken to be injective.  The id is not covered.
Fingerprint(content) == content

VARIABLES
    initialized,    \* the metadata exists
    history,        \* the rows of m8_history
    progress,       \* the ids that own rows of m8_progress
    phase,          \* "idle", "executing" or, inside a restartable unit, "admitted"
    manifest,       \* the manifest of the current or the last run
    recover,        \* its --recover id, or NoId
    at,             \* the position it is at
    exit,           \* the exit code of the last run that ended
    approved,       \* the approved plan kept by the pipeline
    strayed,        \* ghost: a plan was applied or approved around the pipeline
    applied,        \* ghost: <<position, id, content>> of all code that completed
    edits           \* rows changed by hand so far

run == <<phase, manifest, recover, at, exit>>
vars == <<initialized, history, progress, run, approved, strayed, applied, edits>>

Rows ==
    [seq : Nat \ {0}, id : Ids, fingerprint : Contents, first : Contents,
     language : {"sql", "python"}, mode : {"atomic", "restartable"},
     status : {"ACTIVE", "SUCCESS"}, attempt : 0 .. MaxAttempts]

Init ==
    /\ initialized = FALSE
    /\ history = {} /\ progress = {}
    /\ phase = "idle" /\ manifest = <<>> /\ recover = NoId /\ at = 1 /\ exit = 1
    /\ approved = <<>> /\ strayed = FALSE
    /\ applied = {} /\ edits = 0

-----------------------------------------------------------------------------
(***************************************************************************)
(* statevalidate.py                                                        *)
(***************************************************************************)

Successes == {r \in history : r.status = "SUCCESS"}
Actives == {r \in history : r.status = "ACTIVE"}

\* _validate_row; attempt 0 stands for NULL.
RowOK(r) ==
    IF r.status = "ACTIVE" THEN r.mode = "restartable" /\ r.attempt >= 1
    ELSE (r.mode = "atomic") = (r.attempt = 0)

\* validate_snapshot_shape and _validate_progress.
Shape ==
    /\ {r.seq : r \in history} = 1 .. Cardinality(history)
    /\ Cardinality({r.id : r \in history}) = Cardinality(history)
    /\ \A r \in history : RowOK(r)
    /\ Cardinality(Actives) <= 1
    /\ \A r \in Actives : r.seq = Cardinality(Successes) + 1
    /\ progress \subseteq {r.id : r \in Actives}

\* build_plan, a SUCCESS row against its unit.
SuccessMatches(m, r) ==
    LET unit == m[r.seq] IN
    /\ r.id = unit.id
    /\ r.language = unit.content.language
    /\ r.mode = unit.content.mode
    /\ r.fingerprint = Fingerprint(unit.content)

\* build_plan, the ACTIVE row: a changed fingerprint is left to the caller.
ActiveMatches(m, r) ==
    LET unit == m[r.seq] IN
    /\ r.id = unit.id
    /\ ~(r.language # unit.content.language /\ r.fingerprint = Fingerprint(unit.content))
    /\ unit.content.mode = "restartable"

\* Mutated form: of the shape only the positions are checked.
PlanExit_Positions(m) ==
    IF {r.seq : r \in history} # 1 .. Cardinality(history) THEN 7
    ELSE IF /\ Cardinality(history) <= Len(m)
            /\ \A r \in Successes : SuccessMatches(m, r)
            /\ \A r \in Actives : ActiveMatches(m, r)
    THEN 0 ELSE 2

\* The exit code build_plan ends with, 0 for a plan.
PlanExit(m) ==
    IF ~Shape THEN 7
    ELSE IF /\ Cardinality(history) <= Len(m)
            /\ \A r \in Successes : SuccessMatches(m, r)
            /\ \A r \in Actives : ActiveMatches(m, r)
    THEN 0 ELSE 2

\* Plan.active_fingerprint_changed.
ActiveChanged(m) == \E r \in Actives : r.fingerprint # Fingerprint(m[r.seq].content)

\* Mutated form: --recover is not compared with the active migration.
RecoveryAdmits_Any(m, id) == Actives # {}

\* check_recovery_admission, after build_plan.
RecoveryAdmits(m, id) ==
    \E r \in Actives : r.id = id /\ m[r.seq].id = id /\ m[r.seq].content.mode = "restartable"

\* checks.preflight over the whole manifest.
Preflight(m) == \A i \in DOMAIN m : m[i].content.sound

\* Engine._run up to the plan: 0 admits the run.
MigrateExit(m, id) ==
    IF ~Preflight(m) THEN 2
    ELSE IF ~initialized THEN (IF id = NoId THEN 0 ELSE 2)
    ELSE IF PlanExit(m) # 0 THEN PlanExit(m)
    ELSE IF id = NoId THEN (IF ActiveChanged(m) THEN 2 ELSE 0)
    ELSE IF RecoveryAdmits(m, id) THEN 0 ELSE 2

-----------------------------------------------------------------------------
(***************************************************************************)
(* status: readonly._run with the preflight error deferred                 *)
(***************************************************************************)

\* _read: what the database itself has to say.
DatabaseExit(m) ==
    IF ~initialized THEN 6
    ELSE IF PlanExit(m) # 0 THEN PlanExit(m)
    ELSE IF ActiveChanged(m) THEN 2 ELSE 0

\* _attach_preflight_problem: the database condition decides when there is one.
StatusExit(m) ==
    IF DatabaseExit(m) # 0 THEN DatabaseExit(m) ELSE IF Preflight(m) THEN 0 ELSE 2

\* Mutated form: an ACTIVE migration is counted with the applied ones.
SuccessCount_Started(m) ==
    Cardinality({i \in DOMAIN m : \E r \in history : r.id = m[i].id})

\* _fill: rows are looked up by id, whatever their position.
SuccessCount(m) ==
    Cardinality({i \in DOMAIN m : \E r \in history : r.id = m[i].id /\ r.status = "SUCCESS"})

-----------------------------------------------------------------------------
(***************************************************************************)
(* The pipeline                                                            *)
(***************************************************************************)

\* Mutated form: identity and order are held, fingerprints are not.
BaselineHolds_IdsOnly(m) ==
    \A i \in DOMAIN approved : i \in DOMAIN m /\ m[i].id = approved[i].id

\* verify_baseline: a recorded entry keeps its position, id and fingerprint.
BaselineHolds(m) ==
    \A i \in DOMAIN approved :
        /\ i \in DOMAIN m
        /\ m[i].id = approved[i].id
        /\ Fingerprint(m[i].content) = Fingerprint(approved[i].content)

\* validate --offline --baseline passes and its report becomes the artifact.
Approve(m) ==
    /\ phase = "idle" /\ ~strayed
    /\ Preflight(m) /\ BaselineHolds(m)
    /\ approved' = m
    /\ UNCHANGED <<initialized, history, progress, run, strayed, applied, edits>>

-----------------------------------------------------------------------------
(***************************************************************************)
(* A run                                                                   *)
(***************************************************************************)

\* A plain run of the approved plan, or one around the pipeline, --recover
\* included; after one of those the artifact is of no more use here.
Stray(m, id) ==
    /\ strayed' = (strayed \/ m # approved \/ id # NoId)
    /\ approved' = IF strayed' THEN <<>> ELSE approved

\* migrate with this manifest is admitted: it starts at the first position
\* without a SUCCESS row; the first run initializes the namespace.
StartRun(m, id) ==
    /\ phase = "idle"
    /\ \A r \in Actives : r.attempt < MaxAttempts
    /\ MigrateExit(m, id) = 0
    /\ manifest' = m /\ recover' = id
    /\ phase' = "executing" /\ at' = Cardinality(Successes) + 1 /\ exit' = 0
    /\ initialized' = TRUE
    /\ Stray(m, id)
    /\ UNCHANGED <<history, progress, applied, edits>>

NoRun == phase' = "idle" /\ manifest' = <<>> /\ recover' = NoId /\ at' = 1

\* migrate with this manifest is refused and writes nothing.
RefuseRun(m, id) ==
    /\ phase = "idle"
    /\ MigrateExit(m, id) # 0
    /\ NoRun /\ exit' = MigrateExit(m, id)
    /\ Stray(m, id)
    /\ UNCHANGED <<initialized, history, progress, applied, edits>>

Unit == manifest[at]

Row(status, attempt, mode) ==
    [seq |-> at, id |-> Unit.id, fingerprint |-> Fingerprint(Unit.content),
     first |-> Fingerprint(Unit.content), language |-> Unit.content.language,
     mode |-> mode, status |-> status, attempt |-> attempt]

Ran == <<at, Unit.id, Unit.content>>

\* _run_atomic: the work and the SUCCESS row in one transaction.
RunAtomic ==
    /\ phase = "executing" /\ at <= Len(manifest)
    /\ Unit.content.mode = "atomic"
    /\ history' = history \cup {Row("SUCCESS", 0, "atomic")}
    /\ applied' = applied \cup {Ran}
    /\ at' = at + 1
    /\ UNCHANGED <<initialized, progress, phase, manifest, recover, exit, approved, strayed,
                   edits>>

\* Mutated form: an attempt keeps the recorded fingerprint.
Readmitted_Kept(r) == [r EXCEPT !.attempt = @ + 1]

\* update_active_attempt: the SET list.
Readmitted(r) ==
    [r EXCEPT !.attempt = @ + 1, !.fingerprint = Fingerprint(Unit.content),
              !.language = Unit.content.language]

\* _run_restartable: the plan's ACTIVE row is readmitted, or a new one inserted.
Admit ==
    /\ phase = "executing" /\ at <= Len(manifest)
    /\ Unit.content.mode = "restartable"
    /\ LET active == {r \in Actives : r.id = Unit.id} IN
       history' = IF active = {} THEN history \cup {Row("ACTIVE", 1, "restartable")}
                  ELSE (history \ active) \cup {Readmitted(r) : r \in active}
    /\ phase' = "admitted"
    /\ UNCHANGED <<initialized, progress, manifest, recover, at, exit, approved, strayed,
                   applied, edits>>

\* The migration writes a checkpoint.
Checkpoint ==
    /\ phase = "admitted"
    /\ progress' = progress \cup {Unit.id}
    /\ UNCHANGED <<initialized, history, run, approved, strayed, applied, edits>>

\* Mutated form: completion leaves the progress rows.
Complete_KeepsProgress ==
    /\ phase = "admitted"
    /\ history' = {IF r.id = Unit.id /\ r.status = "ACTIVE"
                   THEN [r EXCEPT !.status = "SUCCESS"] ELSE r : r \in history}
    /\ applied' = applied \cup {Ran}
    /\ phase' = "executing" /\ at' = at + 1
    /\ UNCHANGED <<initialized, progress, manifest, recover, exit, approved, strayed, edits>>

\* complete_active_row: status and progress, located by id and ACTIVE.
Complete ==
    /\ phase = "admitted"
    /\ history' = {IF r.id = Unit.id /\ r.status = "ACTIVE"
                   THEN [r EXCEPT !.status = "SUCCESS"] ELSE r : r \in history}
    /\ progress' = progress \ {Unit.id}
    /\ applied' = applied \cup {Ran}
    /\ phase' = "executing" /\ at' = at + 1
    /\ UNCHANGED <<initialized, manifest, recover, exit, approved, strayed, edits>>

\* Mutated form: a failing migration is reported and the next one tried.
Fail_Skip ==
    /\ phase = "executing" /\ at <= Len(manifest)
    /\ at' = at + 1
    /\ UNCHANGED <<initialized, history, progress, phase, manifest, recover, exit, approved,
                   strayed, applied, edits>>

\* The unit at hand fails or the process dies: nothing after it runs.
Fail ==
    /\ phase \in {"executing", "admitted"} /\ at <= Len(manifest)
    /\ NoRun /\ exit' = 3
    /\ UNCHANGED <<initialized, history, progress, approved, strayed, applied, edits>>

\* Every pending unit is done.
Finish ==
    /\ phase = "executing" /\ at > Len(manifest)
    /\ phase' = "idle" /\ exit' = 0 /\ recover' = NoId /\ at' = 1
    /\ UNCHANGED <<initialized, history, progress, manifest, approved, strayed, applied, edits>>

\* Somebody edits one row of the history by hand between runs.
EditByHand ==
    /\ phase = "idle" /\ initialized /\ edits < MaxEdits
    /\ \E r \in history :
        \/ history' = history \ {r}
        \/ \E s \in {"ACTIVE", "SUCCESS"}, f \in Contents, l \in {"sql", "python"} :
            history' = (history \ {r}) \cup
                {[r EXCEPT !.status = s, !.fingerprint = f, !.language = l]}
    /\ edits' = edits + 1
    /\ NoRun /\ exit' = 1
    /\ UNCHANGED <<initialized, progress, approved, strayed, applied>>

Next ==
    \/ \E m \in Manifests : Approve(m)
    \/ \E m \in Manifests, id \in Ids \cup {NoId} : StartRun(m, id) \/ RefuseRun(m, id)
    \/ RunAtomic \/ Admit \/ Checkpoint \/ Complete \/ Fail \/ Finish
    \/ EditByHand

Spec == Init /\ [][Next]_vars

-----------------------------------------------------------------------------
(***************************************************************************)
(* Properties                                                              *)
(***************************************************************************)

\* Types, over manifests of any shape that load accepts.
TypeOK ==
    /\ initialized \in BOOLEAN /\ strayed \in BOOLEAN
    /\ history \subseteq Rows /\ IsFiniteSet(history)
    /\ manifest \in Manifests /\ approved \in Manifests
    /\ progress \subseteq Ids
    /\ phase \in {"idle", "executing", "admitted"}
    /\ recover \in Ids \cup {NoId}
    /\ at \in Nat \ {0}
    /\ exit \in {0, 1, 2, 3, 7}
    /\ edits \in 0 .. MaxEdits

\* Whatever manifests come one after the other, the engine never writes a
\* history that validate_snapshot_shape would call damaged.
NeverMisshapen == edits = 0 => Shape

\* A run that ends with exit 0 leaves exactly its manifest in the history,
\* position by position, even after rows were edited by hand (build_plan).
ExitZeroMeansManifest ==
    (phase = "idle" /\ exit = 0) =>
        /\ Cardinality(history) = Len(manifest)
        /\ \A i \in DOMAIN manifest : \E r \in Successes :
              /\ r.seq = i /\ r.id = manifest[i].id
              /\ r.fingerprint = Fingerprint(manifest[i].content)
              /\ r.language = manifest[i].content.language
              /\ r.mode = manifest[i].content.mode

\* A migration is applied at most once under one id, at one position, and its
\* row records the content that was applied, amended, moved or renamed as the
\* manifests may be (build_plan, update_active_attempt).
AppliedOnceAsRecorded ==
    edits = 0 => applied = {<<r.seq, r.id, r.fingerprint>> : r \in Successes}

\* A plain migrate that keeps to approved plans is never refused: what
\* verify_baseline lets through continues every history an earlier approved
\* plan left behind, however far its run got.
ApprovedPlansApply == (~strayed /\ edits = 0) => exit \notin {2, 7}

\* When status reports no problem, the number of applied migrations it counted
\* by id is the length of the successful prefix (_fill and build_plan agree).
StatusCountsTrue ==
    \A m \in Manifests : StatusExit(m) = 0 => SuccessCount(m) = Cardinality(Successes)

\* The source recorded for an ACTIVE migration changes only in a run that was
\* given --recover with its id (check_recovery_admission).
AmendedOnlyByName ==
    [][\A r \in Actives, q \in history' :
          (edits' = edits /\ q.seq = r.seq /\ q.fingerprint # r.fingerprint) =>
              recover = r.id /\ q.id = r.id]_vars

\* A run never adds to or changes a history that was found damaged, and never
\* touches a SUCCESS row (validate_snapshot_shape runs before any write).
DamageStopsRuns ==
    [][edits' = edits =>
          /\ Successes \subseteq history'
          /\ ~Shape => history' = history /\ progress' = progress]_vars

\* While a run is on, the history is sound and follows its manifest up to the
\* position it is at; an ACTIVE row there is the unit's, with the unit's source
\* unless --recover named it.
RunInv ==
    phase # "idle" =>
        /\ Shape /\ at = Cardinality(Successes) + 1
        /\ \A r \in history : r.seq \in DOMAIN manifest
        /\ \A r \in Successes : SuccessMatches(manifest, r)
        /\ \A r \in Actives :
              /\ r.id = Unit.id /\ Unit.content.mode = "restartable"
              /\ r.fingerprint = Fingerprint(Unit.content) \/ recover = r.id
              /\ phase = "executing" => r.attempt < MaxAttempts
        /\ phase = "admitted" =>
              \E r \in Actives : r.fingerprint = Fingerprint(Unit.content)
                                 /\ r.language = Unit.content.language

\* As long as the pipeline was kept to, the history follows the approved plan.
PipelineInv ==
    ~strayed /\ edits = 0 =>
        /\ Preflight(approved)
        /\ \A r \in history : r.seq \in DOMAIN approved /\ SuccessMatches(approved, r)
        /\ phase # "idle" => manifest = approved /\ recover = NoId

\* What every run, approval and edit keeps.
IInv ==
    /\ TypeOK /\ NeverMisshapen /\ ExitZeroMeansManifest /\ AppliedOnceAsRecorded
    /\ ApprovedPlansApply /\ RunInv /\ PipelineInv
    /\ ~initialized => phase = "idle" /\ history = {} /\ progress = {}

\* No two rows share an id or a position, hand edits or not: no insert of a run
\* meets the keys of m8_history.
KeysHold == \A r, q \in history : r.id = q.id \/ r.seq = q.seq => r = q

\* History, exit codes, status and approved plans are true to what was applied,
\* however the manifest changes between runs (statevalidate.py, readonly.py).
HistorySafety == IInv /\ KeysHold /\ StatusCountsTrue

=============================================================================
