----------------------------- MODULE MigrateRun -----------------------------
(***************************************************************************)
(* `migr8 migrate`: runner processes that execute a manifest of migrations *)
(* against one database namespace (engine.py, the history transitions of   *)
(* adapters/base.py, and the session and lock life cycle of the adapters). *)
(*                                                                         *)
(* Every call that can change the database has three separate moments: the *)
(* client submits it, the server carries it out or refuses it, and the     *)
(* client learns the reply.  The link can be lost, the process can die and *)
(* the operator can interrupt between any two of them.  A session whose    *)
(* client is gone lives on: it may still carry out the call it was sent,   *)
(* and it keeps the namespace lock, until the server ends it.              *)
(*                                                                         *)
(* The table m8_history is modelled by columns: status, fingerprint,       *)
(* first_fingerprint and attempts map a manifest position to the value in  *)
(* that position's row; status "NONE" means there is no row.               *)
(*                                                                         *)
(* A restartable migration is the documented one: it reads its checkpoint  *)
(* and commits the remaining batches, each with its checkpoint, in         *)
(* ctx.transaction() blocks.  What author code may do instead is the       *)
(* subject of module BatchContext.                                         *)
(***************************************************************************)
EXTENDS Naturals

CONSTANTS
    Runners,        \* processes that may run `migr8 migrate`
    NoRunner,       \* the namespace lock is free
    N,              \* number of manifest entries
    AtomicUnits,    \* positions declared mode = "atomic"; others restartable
    Batches,        \* batches a restartable migration commits
    Sources,        \* versions of a unit's source files
    NoSource,       \* fingerprint of a position with no row
    MaxFaults,      \* bound: crashes, lost links, refusals, interrupts, errors
    MaxEdits        \* bound: source edits between runs

ASSUME ConstantsAssumption ==
    /\ NoRunner \notin Runners
    /\ N \in Nat
    /\ AtomicUnits \subseteq 1..N
    /\ Batches \in Nat
    /\ Sources # {}
    /\ NoSource \notin Sources
    /\ MaxFaults \in Nat
    /\ MaxEdits \in Nat

VARIABLES
    \* --- durable state of the namespace
    objects,            \* metadata objects created, a prefix of CREATION_ORDER
    marker,             \* the m8_meta singleton row exists
    status,             \* [Positions -> {"NONE", "ACTIVE", "SUCCESS"}]
    fingerprint,        \* [Positions -> Sources \cup {NoSource}]
    first_fingerprint,  \* [Positions -> Sources \cup {NoSource}]
    attempts,           \* [Positions -> Nat], 0 standing for NULL
    progress,           \* [Positions -> Nat]: m8_progress checkpoint, 0 = no row
    data,               \* [Positions -> Nat]: units of work applied to user tables
    \* --- the server's view of sessions
    lock,               \* session holding the namespace lock, or NoRunner
    session,            \* [Runners -> {"none", "attached", "orphan"}]
    request,            \* [Runners -> Requests]: engine transaction or lock call
    reply,              \* [Runners -> {"idle", "sent", "ok", "refused"}]
    \* --- runner processes
    pc,                 \* [Runners -> Steps]
    staged,             \* [Runners -> [Positions -> Sources]]: the staged capture
    recover,            \* [Runners -> 0..N]: --recover, 0 when not given
    cur,                \* [Runners -> 1..N+1]: position being executed
    attempt,            \* [Runners -> Nat]: attempt number known to the run
    seen,               \* [Runners -> Nat]: checkpoint the migration code holds
    exit,               \* [Runners -> ExitCodes]
    \* --- the environment
    source,             \* [Positions -> Sources]: the working tree
    faults,             \* faults left
    edits               \* edits left

historyVars == <<status, fingerprint, first_fingerprint, attempts>>
durableVars == <<objects, marker, historyVars, progress, data>>
serverVars  == <<lock, session, request, reply>>
runnerVars  == <<pc, staged, recover, cur, attempt, seen, exit>>
envVars     == <<source, faults, edits>>
vars        == <<durableVars, serverVars, runnerVars, envVars>>

Positions == 1..N

\* Calls that can make something durable, by the boundary they end at.
Requests == {"none", "lock", "object", "marker", "admit", "retry", "batch",
             "complete", "atomic"}

Steps == {"idle", "call", "inspect", "create", "verify", "plan", "unit", "entry",
          "code", "body", "batch", "close"}

\* METADATA_UNREADABLE is exit 7 for a rejected read of the marker, told apart
\* from exit 7 for metadata that was read and found damaged.
ExitCodes == {"NONE", "RUNNING", "CRASHED", "OK", "USAGE", "VALIDATION",
              "MIGRATION_FAILED", "UNKNOWN_OUTCOME", "LOCK_NOT_ACQUIRED",
              "METADATA_DAMAGED", "METADATA_UNREADABLE"}

\* Steps of a run past the lock, with no call under way that can commit; it
\* relies on nobody else changing the namespace.
Working == {"inspect", "create", "verify", "plan", "unit", "entry", "code", "body",
            "batch"}

\* History table, ACTIVE index, progress table, marker table.
CREATION_ORDER == 4

\* Work a migration consists of: one unit if atomic, its batches otherwise.
Total(i) == IF i \in AtomicUnits THEN 1 ELSE Batches

TypeOK ==
    /\ objects \in 0..CREATION_ORDER
    /\ marker \in BOOLEAN
    /\ status \in [Positions -> {"NONE", "ACTIVE", "SUCCESS"}]
    /\ fingerprint \in [Positions -> Sources \cup {NoSource}]
    /\ first_fingerprint \in [Positions -> Sources \cup {NoSource}]
    /\ attempts \in [Positions -> Nat]
    /\ progress \in [Positions -> Nat]
    /\ data \in [Positions -> Nat]
    /\ lock \in Runners \cup {NoRunner}
    /\ session \in [Runners -> {"none", "attached", "orphan"}]
    /\ request \in [Runners -> Requests]
    /\ reply \in [Runners -> {"idle", "sent", "ok", "refused"}]
    /\ pc \in [Runners -> Steps]
    /\ staged \in [Runners -> [Positions -> Sources]]
    /\ recover \in [Runners -> 0..N]
    /\ cur \in [Runners -> 1..(N + 1)]
    /\ attempt \in [Runners -> Nat]
    /\ seen \in [Runners -> Nat]
    /\ exit \in [Runners -> ExitCodes]
    /\ source \in [Positions -> Sources]
    /\ faults \in 0..MaxFaults
    /\ edits \in 0..MaxEdits

-----------------------------------------------------------------------------
(***************************************************************************)
(* Metadata inspection and planning: what a run decides from durable state *)
(***************************************************************************)

\* metadata.classify: the marker decides; rows without a marker are damage.
MetadataState ==
    IF marker
    THEN IF objects = CREATION_ORDER THEN "COMPLETE" ELSE "DAMAGED"
    ELSE IF objects = 0
    THEN "ABSENT"
    ELSE IF \E i \in Positions : status[i] # "NONE" \/ progress[i] # 0
    THEN "DAMAGED"
    ELSE "INCOMPLETE_COMPATIBLE"

\* The successful prefix has exactly length k (positions consecutive from 1).
SuccessCount(k) == \A i \in Positions : status[i] = "SUCCESS" <=> i <= k

\* statevalidate._validate_row, for the columns the engine decides.
RowOK(i) ==
    /\ status[i] = "ACTIVE" => i \notin AtomicUnits
    /\ status[i] # "NONE" => (attempts[i] = 0 <=> i \in AtomicUnits)
    /\ status[i] # "NONE" => /\ fingerprint[i] \in Sources
                             /\ first_fingerprint[i] \in Sources

\* statevalidate.validate_snapshot_shape: a successful prefix, at most one
\* ACTIVE row immediately after it, nothing further, progress only for ACTIVE.
SnapshotShape ==
    /\ \A i \in Positions : RowOK(i)
    /\ \E k \in 0..N :
          /\ SuccessCount(k)
          /\ \A i \in Positions : status[i] = "ACTIVE" => i = k + 1
    /\ \A i \in Positions : progress[i] # 0 => status[i] = "ACTIVE"

\* Mutated form: the fingerprints of successful rows are not compared.
PrefixMatches_Unchecked(r) == r \in Runners

\* build_plan: every SUCCESS row must carry the captured fingerprint.
PrefixMatches(r) ==
    \A i \in Positions :
        status[i] = "SUCCESS" => fingerprint[i] = staged[r][i]

\* require_no_recovery_needed and check_recovery_admission.
RecoveryAdmits(r) ==
    IF recover[r] = 0
    THEN \A i \in Positions :
            status[i] = "ACTIVE" => fingerprint[i] = staged[r][i]
    ELSE recover[r] \in Positions /\ status[recover[r]] = "ACTIVE"

\* Attempt number the snapshot recorded for the unit at i; 0 when not ACTIVE.
ActiveAttempt(i) ==
    IF i \in Positions /\ status[i] = "ACTIVE" THEN attempts[i] ELSE 0

-----------------------------------------------------------------------------
Init ==
    /\ objects = 0
    /\ marker = FALSE
    /\ status = [i \in Positions |-> "NONE"]
    /\ fingerprint = [i \in Positions |-> NoSource]
    /\ first_fingerprint = [i \in Positions |-> NoSource]
    /\ attempts = [i \in Positions |-> 0]
    /\ progress = [i \in Positions |-> 0]
    /\ data = [i \in Positions |-> 0]
    /\ lock = NoRunner
    /\ session = [r \in Runners |-> "none"]
    /\ request = [r \in Runners |-> "none"]
    /\ reply = [r \in Runners |-> "idle"]
    /\ pc = [r \in Runners |-> "idle"]
    /\ source \in [Positions -> Sources]
    /\ staged = [r \in Runners |-> source]
    /\ recover = [r \in Runners |-> 0]
    /\ cur = [r \in Runners |-> 1]
    /\ attempt = [r \in Runners |-> 0]
    /\ seen = [r \in Runners |-> 0]
    /\ exit = [r \in Runners |-> "NONE"]
    /\ faults = MaxFaults
    /\ edits = MaxEdits

\* Submit a call that can change the database and wait for its reply.
Submit(r, what) ==
    /\ request' = [request EXCEPT ![r] = what]
    /\ reply' = [reply EXCEPT ![r] = "sent"]
    /\ pc' = [pc EXCEPT ![r] = "call"]

\* End the run with a definite outcome: roll back, then close the session.
Settle(r, code) ==
    /\ exit' = [exit EXCEPT ![r] = code]
    /\ pc' = [pc EXCEPT ![r] = "close"]
    /\ request' = [request EXCEPT ![r] = "none"]
    /\ reply' = [reply EXCEPT ![r] = "idle"]

\* Mutated form: the run goes on without waiting for the reply.
Acknowledged_Early(r, what) ==
    /\ pc[r] = "call"
    /\ request[r] = what
    /\ reply[r] \in {"sent", "ok"}

\* The reply to call `what` has arrived and says it was carried out.
Acknowledged(r, what) ==
    /\ pc[r] = "call"
    /\ request[r] = what
    /\ reply[r] = "ok"

\* The call is over; the run goes on at `step`.
Proceed(r, step) ==
    /\ request' = [request EXCEPT ![r] = "none"]
    /\ reply' = [reply EXCEPT ![r] = "idle"]
    /\ pc' = [pc EXCEPT ![r] = step]

UseFault ==
    /\ faults > 0
    /\ faults' = faults - 1
    /\ UNCHANGED <<source, edits>>

-----------------------------------------------------------------------------
(***************************************************************************)
(* Runner: setup                                                           *)
(***************************************************************************)

\* Capture the working tree, connect, and ask for the namespace lock.
Start(r, rec) ==
    /\ pc[r] = "idle"
    /\ session[r] = "none"
    /\ session' = [session EXCEPT ![r] = "attached"]
    /\ staged' = [staged EXCEPT ![r] = source]
    /\ recover' = [recover EXCEPT ![r] = rec]
    /\ cur' = [cur EXCEPT ![r] = 1]
    /\ attempt' = [attempt EXCEPT ![r] = 0]
    /\ seen' = [seen EXCEPT ![r] = 0]
    /\ exit' = [exit EXCEPT ![r] = "RUNNING"]
    /\ Submit(r, "lock")
    /\ UNCHANGED <<durableVars, lock, envVars>>

LockAcquired(r) ==
    /\ Acknowledged(r, "lock")
    /\ Proceed(r, "inspect")
    /\ UNCHANGED <<durableVars, lock, session, staged, recover, cur, attempt,
                   seen, exit, envVars>>

\* The lock call timed out: exit 5.
LockNotAcquired(r) ==
    /\ pc[r] = "call"
    /\ request[r] = "lock"
    /\ reply[r] = "refused"
    /\ Settle(r, "LOCK_NOT_ACQUIRED")
    /\ UNCHANGED <<durableVars, lock, session, staged, recover, cur, attempt,
                   seen, envVars>>

\* The lock call fails (exit 1) or is interrupted (exit 3) before its reply;
\* the server may still carry it out, so the call stays with the session.
SetupFails(r, code) ==
    /\ code \in {"USAGE", "MIGRATION_FAILED"}
    /\ pc[r] = "call"
    /\ request[r] = "lock"
    /\ UseFault
    /\ exit' = [exit EXCEPT ![r] = code]
    /\ pc' = [pc EXCEPT ![r] = "close"]
    /\ UNCHANGED <<durableVars, serverVars, staged, recover, cur, attempt, seen>>

\* inspect_metadata, _admit_recovery_namespace and _initialize_if_needed.
Inspect(r) ==
    /\ pc[r] = "inspect"
    /\ \/ /\ MetadataState = "COMPLETE"
          /\ Proceed(r, "plan")
          /\ UNCHANGED exit
       \/ /\ MetadataState \in {"ABSENT", "INCOMPLETE_COMPATIBLE"}
          /\ recover[r] = 0
          /\ Proceed(r, "create")
          /\ UNCHANGED exit
       \/ /\ MetadataState # "COMPLETE"
          /\ recover[r] # 0 \/ MetadataState = "DAMAGED"
          /\ Settle(r, IF MetadataState = "DAMAGED" THEN "METADATA_DAMAGED"
                                                    ELSE "VALIDATION")
    /\ UNCHANGED <<durableVars, lock, session, staged, recover, cur, attempt,
                   seen, envVars>>

\* Storage preparation is refused or the recorded bindings are not this run's
\* (exit 1), or the server rejects the read of the marker (exit 7).
SetupRejected(r, code) ==
    /\ \/ /\ code = "USAGE"
          /\ pc[r] = "inspect"
          /\ MetadataState # "DAMAGED"
          /\ recover[r] # 0 => MetadataState = "COMPLETE"
       \/ /\ code = "METADATA_UNREADABLE"
          /\ pc[r] \in {"inspect", "verify"}
          /\ objects = CREATION_ORDER
    /\ UseFault
    /\ Settle(r, code)
    /\ UNCHANGED <<durableVars, lock, session, staged, recover, cur, attempt,
                   seen>>

\* Mutated form: objects are created without looking at which exist.
Initialize_Blind(r) ==
    /\ pc[r] = "create"
    /\ Submit(r, "object")
    /\ UNCHANGED <<durableVars, lock, session, staged, recover, cur, attempt,
                   seen, exit, envVars>>

\* initialize: the first missing object of CREATION_ORDER, each one durable
\* on its own; the marker last, once every object is there.
Initialize(r) ==
    /\ pc[r] = "create"
    /\ Submit(r, IF objects < CREATION_ORDER THEN "object" ELSE "marker")
    /\ UNCHANGED <<durableVars, lock, session, staged, recover, cur, attempt,
                   seen, exit, envVars>>

ObjectCreated(r) ==
    /\ Acknowledged(r, "object")
    /\ Proceed(r, "create")
    /\ UNCHANGED <<durableVars, lock, session, staged, recover, cur, attempt,
                   seen, exit, envVars>>

Initialized(r) ==
    /\ Acknowledged(r, "marker")
    /\ Proceed(r, "verify")
    /\ UNCHANGED <<durableVars, lock, session, staged, recover, cur, attempt,
                   seen, exit, envVars>>

\* After initialization the namespace is inspected again and must be COMPLETE.
Verify(r) ==
    /\ pc[r] = "verify"
    /\ IF MetadataState = "COMPLETE"
       THEN Proceed(r, "plan") /\ UNCHANGED exit
       ELSE Settle(r, "METADATA_DAMAGED")
    /\ UNCHANGED <<durableVars, lock, session, staged, recover, cur, attempt,
                   seen, envVars>>

\* _build_plan: one consistent snapshot, validated against the capture.
BuildPlan(r) ==
    /\ pc[r] = "plan"
    /\ IF SnapshotShape /\ PrefixMatches(r) /\ RecoveryAdmits(r)
       THEN /\ Proceed(r, "unit")
            /\ UNCHANGED exit
            /\ \E k \in 0..N :
                  /\ SuccessCount(k)
                  /\ cur' = [cur EXCEPT ![r] = k + 1]
                  /\ attempt' = [attempt EXCEPT ![r] = ActiveAttempt(k + 1)]
       ELSE /\ Settle(r, IF SnapshotShape THEN "VALIDATION"
                                          ELSE "METADATA_DAMAGED")
            /\ UNCHANGED <<cur, attempt>>
    /\ UNCHANGED <<durableVars, lock, session, staged, recover, seen, envVars>>

-----------------------------------------------------------------------------
(***************************************************************************)
(* Runner: execution of the pending units                                  *)
(***************************************************************************)

\* Every unit has been executed: exit 0.
FinishRun(r) ==
    /\ pc[r] = "unit"
    /\ cur[r] = N + 1
    /\ Settle(r, "OK")
    /\ UNCHANGED <<durableVars, lock, session, staged, recover, cur, attempt,
                   seen, envVars>>

\* _run_atomic: open the transaction the migration's work happens in.
BeginAtomic(r) ==
    /\ pc[r] = "unit"
    /\ cur[r] \in AtomicUnits
    /\ request' = [request EXCEPT ![r] = "atomic"]
    /\ pc' = [pc EXCEPT ![r] = "body"]
    /\ UNCHANGED <<durableVars, lock, session, reply, staged, recover, cur,
                   attempt, seen, exit, envVars>>

\* The atomic migration returned: write its SUCCESS row, submit the commit.
CompleteAtomic(r) ==
    /\ pc[r] = "body"
    /\ Submit(r, "atomic")
    /\ UNCHANGED <<durableVars, lock, session, staged, recover, cur, attempt,
                   seen, exit, envVars>>

\* _run_restartable, first admission: insert the ACTIVE row and commit it.
\* An existing row at this position is a definite rejection of the insert.
InsertActiveRow(r) ==
    /\ pc[r] = "unit"
    /\ cur[r] \in Positions \ AtomicUnits
    /\ attempt[r] = 0
    /\ IF status[cur[r]] = "NONE"
       THEN Submit(r, "admit") /\ UNCHANGED exit
       ELSE Settle(r, "MIGRATION_FAILED")
    /\ UNCHANGED <<durableVars, lock, session, staged, recover, cur, attempt,
                   seen, envVars>>

\* _run_restartable, later admission: the update must affect one ACTIVE row.
UpdateActiveAttempt(r) ==
    /\ pc[r] = "unit"
    /\ cur[r] \in Positions \ AtomicUnits
    /\ attempt[r] > 0
    /\ IF status[cur[r]] = "ACTIVE"
       THEN Submit(r, "retry") /\ UNCHANGED exit
       ELSE Settle(r, "METADATA_DAMAGED")
    /\ UNCHANGED <<durableVars, lock, session, staged, recover, cur, attempt,
                   seen, envVars>>

\* Admission is acknowledged: only now does migration code run.  The attempt
\* number is computed from the snapshot, never read back.
Admitted(r) ==
    /\ Acknowledged(r, "admit") \/ Acknowledged(r, "retry")
    /\ Proceed(r, "entry")
    /\ attempt' = [attempt EXCEPT ![r] = attempt[r] + 1]
    /\ UNCHANGED <<durableVars, lock, session, staged, recover, cur, seen, exit,
                   envVars>>

\* Migration code enters at its entry point and reads its checkpoint.
ReadCheckpoint(r) ==
    /\ pc[r] = "entry"
    /\ seen' = [seen EXCEPT ![r] = progress[cur[r]]]
    /\ pc' = [pc EXCEPT ![r] = "code"]
    /\ UNCHANGED <<durableVars, serverVars, staged, recover, cur, attempt, exit,
                   envVars>>

\* ctx.transaction(): open the batch transaction for the next batch.
EnterBatch(r) ==
    /\ pc[r] = "code"
    /\ seen[r] < Batches
    /\ request' = [request EXCEPT ![r] = "batch"]
    /\ pc' = [pc EXCEPT ![r] = "batch"]
    /\ UNCHANGED <<durableVars, lock, session, reply, staged, recover, cur,
                   attempt, seen, exit, envVars>>

\* Clean end of the block: commit the batch with its checkpoint.
CommitBatch(r) ==
    /\ pc[r] = "batch"
    /\ Submit(r, "batch")
    /\ UNCHANGED <<durableVars, lock, session, staged, recover, cur, attempt,
                   seen, exit, envVars>>

BatchCommitted(r) ==
    /\ Acknowledged(r, "batch")
    /\ Proceed(r, "code")
    /\ seen' = [seen EXCEPT ![r] = seen[r] + 1]
    /\ UNCHANGED <<durableVars, lock, session, staged, recover, cur, attempt,
                   exit, envVars>>

\* The migration returned: ACTIVE to SUCCESS plus progress deletion.
CompleteActiveRow(r) ==
    /\ pc[r] = "code"
    /\ seen[r] >= Batches
    /\ IF status[cur[r]] = "ACTIVE"
       THEN Submit(r, "complete") /\ UNCHANGED exit
       ELSE Settle(r, "METADATA_DAMAGED")
    /\ UNCHANGED <<durableVars, lock, session, staged, recover, cur, attempt,
                   seen, envVars>>

\* The unit is durably complete; the next one starts with no ACTIVE row.
UnitDone(r) ==
    /\ Acknowledged(r, "complete") \/ Acknowledged(r, "atomic")
    /\ Proceed(r, "unit")
    /\ cur' = [cur EXCEPT ![r] = cur[r] + 1]
    /\ attempt' = [attempt EXCEPT ![r] = 0]
    /\ UNCHANGED <<durableVars, lock, session, staged, recover, seen, exit,
                   envVars>>

-----------------------------------------------------------------------------
(***************************************************************************)
(* Runner: failures and teardown                                           *)
(***************************************************************************)

\* A definite refusal of a commit: nothing of it is durable, exit 3.
CommitRefused(r) ==
    /\ pc[r] = "call"
    /\ request[r] # "lock"
    /\ reply[r] = "refused"
    /\ Settle(r, "MIGRATION_FAILED")
    /\ UNCHANGED <<durableVars, lock, session, staged, recover, cur, attempt,
                   seen, envVars>>

\* Mutated form: an interrupt inside a commit is read as an ordinary failure.
RunFails_InCommit(r) ==
    /\ pc[r] \in Working \cup {"call"}
    /\ UseFault
    /\ Settle(r, "MIGRATION_FAILED")
    /\ UNCHANGED <<durableVars, lock, session, staged, recover, cur, attempt,
                   seen>>

\* A migration error, a rejected statement or an interrupt while no call that
\* can commit is under way: roll back and exit 3.
RunFails(r) ==
    /\ pc[r] \in Working
    /\ UseFault
    /\ Settle(r, "MIGRATION_FAILED")
    /\ UNCHANGED <<durableVars, lock, session, staged, recover, cur, attempt,
                   seen>>

\* Mutated form: the lock is given up while the server session lives on.
Discard_Unlocks(r) ==
    /\ pc' = [pc EXCEPT ![r] = "idle"]
    /\ session' = [session EXCEPT ![r] = "orphan"]
    /\ lock' = IF lock = r THEN NoRunner ELSE lock
    /\ UNCHANGED <<request, reply>>

\* Drop the connection without further SQL.  The server session keeps the
\* lock and whatever call it was sent.
Discard(r) ==
    /\ pc' = [pc EXCEPT ![r] = "idle"]
    /\ session' = [session EXCEPT ![r] = "orphan"]
    /\ UNCHANGED <<lock, request, reply>>

\* A lost link on any call, or an interrupt inside one that can commit: the
\* run is latched, exits 4 and discards the connection.
OutcomeUnknown(r) ==
    /\ pc[r] \notin {"idle", "close"}
    /\ request[r] # "lock"
    /\ UseFault
    /\ exit' = [exit EXCEPT ![r] = "UNKNOWN_OUTCOME"]
    /\ Discard(r)
    /\ UNCHANGED <<durableVars, staged, recover, cur, attempt, seen>>

\* The process dies at any point; nothing of it runs any more.
Crash(r) ==
    /\ pc[r] # "idle"
    /\ UseFault
    /\ exit' = [exit EXCEPT ![r] = "CRASHED"]
    /\ Discard(r)
    /\ UNCHANGED <<durableVars, staged, recover, cur, attempt, seen>>

\* Mutated form: the lock outlives its session.
LockWithout_Kept(r) == IF r \in Runners THEN lock ELSE NoRunner

\* The lock goes with the session that holds it.
LockWithout(r) == IF lock = r THEN NoRunner ELSE lock

\* close: roll back, release the lock, end the session.
Close(r) ==
    /\ pc[r] = "close"
    /\ lock' = LockWithout(r)
    /\ session' = [session EXCEPT ![r] = "none"]
    /\ Proceed(r, "idle")
    /\ UNCHANGED <<durableVars, staged, recover, cur, attempt, seen, exit,
                   envVars>>

\* The close is interrupted or fails: the session is discarded instead and
\* the recorded outcome stays.
CloseInterrupted(r) ==
    /\ pc[r] = "close"
    /\ UseFault
    /\ Discard(r)
    /\ UNCHANGED <<durableVars, staged, recover, cur, attempt, seen, exit>>

-----------------------------------------------------------------------------
(***************************************************************************)
(* Database server                                                         *)
(***************************************************************************)

\* Mutated form: an ineffective lock.
LockFree_Always == TRUE

LockFree == lock = NoRunner

GrantLock(r) ==
    /\ request[r] = "lock"
    /\ reply[r] = "sent"
    /\ LockFree
    /\ lock' = r
    /\ reply' = [reply EXCEPT ![r] = "ok"]
    /\ UNCHANGED <<durableVars, session, request, runnerVars, envVars>>

\* The lock is held until the caller's timeout.
RefuseLock(r) ==
    /\ request[r] = "lock"
    /\ reply[r] = "sent"
    /\ ~LockFree
    /\ reply' = [reply EXCEPT ![r] = "refused"]
    /\ UNCHANGED <<durableVars, lock, session, request, runnerVars, envVars>>

\* CREATE of the next metadata object.
CreateObject ==
    /\ objects' = objects + 1
    /\ UNCHANGED <<marker, historyVars, progress, data>>

\* INSERT of the m8_meta singleton.
InsertMarker ==
    /\ marker' = TRUE
    /\ UNCHANGED <<objects, historyVars, progress, data>>

\* INSERT ... 'ACTIVE', attempt 1, both fingerprints the admitted one.
DbInsertActive(i, fp) ==
    /\ status' = [status EXCEPT ![i] = "ACTIVE"]
    /\ fingerprint' = [fingerprint EXCEPT ![i] = fp]
    /\ first_fingerprint' = [first_fingerprint EXCEPT ![i] = fp]
    /\ attempts' = [attempts EXCEPT ![i] = 1]
    /\ UNCHANGED <<objects, marker, progress, data>>

\* Mutated form: recovery overwrites the first fingerprint too.
DbUpdateAttempt_First(i, fp) ==
    /\ fingerprint' = [fingerprint EXCEPT ![i] = fp]
    /\ first_fingerprint' = [first_fingerprint EXCEPT ![i] = fp]
    /\ attempts' = [attempts EXCEPT ![i] = attempts[i] + 1]
    /\ UNCHANGED <<objects, marker, status, progress, data>>

\* UPDATE ... attempt = attempt + 1, fingerprint = the admitted one.
DbUpdateAttempt(i, fp) ==
    /\ fingerprint' = [fingerprint EXCEPT ![i] = fp]
    /\ attempts' = [attempts EXCEPT ![i] = attempts[i] + 1]
    /\ UNCHANGED <<objects, marker, status, first_fingerprint, progress, data>>

\* Mutated form: the checkpoint of the batch before is written.
DbBatch_Stale(i, checkpoint) ==
    /\ data' = [data EXCEPT ![i] = data[i] + 1]
    /\ progress' = [progress EXCEPT ![i] = checkpoint - 1]
    /\ UNCHANGED <<objects, marker, historyVars>>

\* A batch: the author's writes and the checkpoint of the batch, together.
DbBatch(i, checkpoint) ==
    /\ data' = [data EXCEPT ![i] = data[i] + 1]
    /\ progress' = [progress EXCEPT ![i] = checkpoint]
    /\ UNCHANGED <<objects, marker, historyVars>>

\* Mutated form: progress rows are left behind.
DbComplete_KeepsProgress(i) ==
    /\ status' = [status EXCEPT ![i] = "SUCCESS"]
    /\ UNCHANGED <<objects, marker, fingerprint, first_fingerprint, attempts,
                   progress, data>>

\* UPDATE ... 'SUCCESS' and DELETE of the migration's progress rows.
DbComplete(i) ==
    /\ status' = [status EXCEPT ![i] = "SUCCESS"]
    /\ progress' = [progress EXCEPT ![i] = 0]
    /\ UNCHANGED <<objects, marker, fingerprint, first_fingerprint, attempts, data>>

\* The atomic migration's work and its SUCCESS row, attempt NULL.
DbAtomic(i, fp) ==
    /\ status' = [status EXCEPT ![i] = "SUCCESS"]
    /\ fingerprint' = [fingerprint EXCEPT ![i] = fp]
    /\ first_fingerprint' = [first_fingerprint EXCEPT ![i] = fp]
    /\ attempts' = [attempts EXCEPT ![i] = 0]
    /\ data' = [data EXCEPT ![i] = data[i] + 1]
    /\ UNCHANGED <<objects, marker, progress>>

\* The server makes a submitted transaction durable, whether or not its
\* client is still there to hear of it.
ServerCommits(r) ==
    /\ reply[r] = "sent"
    /\ \/ request[r] = "object" /\ CreateObject
       \/ request[r] = "marker" /\ InsertMarker
       \/ request[r] = "admit" /\ DbInsertActive(cur[r], staged[r][cur[r]])
       \/ request[r] = "retry" /\ DbUpdateAttempt(cur[r], staged[r][cur[r]])
       \/ request[r] = "batch" /\ DbBatch(cur[r], seen[r] + 1)
       \/ request[r] = "complete" /\ DbComplete(cur[r])
       \/ request[r] = "atomic" /\ DbAtomic(cur[r], staged[r][cur[r]])
    /\ reply' = [reply EXCEPT ![r] = "ok"]
    /\ UNCHANGED <<lock, session, request, runnerVars, envVars>>

\* The server definitely rejects a submitted transaction (a deferred
\* constraint, a busy database): nothing of it is durable.
ServerRefuses(r) ==
    /\ reply[r] = "sent"
    /\ request[r] # "lock"
    /\ UseFault
    /\ reply' = [reply EXCEPT ![r] = "refused"]
    /\ UNCHANGED <<durableVars, lock, session, request, runnerVars>>

\* The server notices that a client is gone: uncommitted work is rolled back
\* and the session's lock is released.
SessionEnds(r) ==
    /\ session[r] = "orphan"
    /\ session' = [session EXCEPT ![r] = "none"]
    /\ lock' = LockWithout(r)
    /\ request' = [request EXCEPT ![r] = "none"]
    /\ reply' = [reply EXCEPT ![r] = "idle"]
    /\ UNCHANGED <<durableVars, runnerVars, envVars>>

-----------------------------------------------------------------------------
\* Somebody edits the source of a unit; runs under way keep their capture.
EditSource(i, s) ==
    /\ edits > 0
    /\ s # source[i]
    /\ edits' = edits - 1
    /\ source' = [source EXCEPT ![i] = s]
    /\ UNCHANGED <<durableVars, serverVars, runnerVars, faults>>

Setup(r) ==
    \/ \E rec \in 0..N : Start(r, rec)
    \/ LockAcquired(r)
    \/ LockNotAcquired(r)
    \/ \E code \in {"USAGE", "MIGRATION_FAILED"} : SetupFails(r, code)
    \/ Inspect(r)
    \/ Initialize(r)
    \/ ObjectCreated(r)
    \/ Initialized(r)
    \/ Verify(r)
    \/ \E code \in {"USAGE", "METADATA_UNREADABLE"} : SetupRejected(r, code)
    \/ BuildPlan(r)

Execute(r) ==
    \/ FinishRun(r)
    \/ BeginAtomic(r)
    \/ CompleteAtomic(r)
    \/ InsertActiveRow(r)
    \/ UpdateActiveAttempt(r)
    \/ Admitted(r)
    \/ ReadCheckpoint(r)
    \/ EnterBatch(r)
    \/ CommitBatch(r)
    \/ BatchCommitted(r)
    \/ CompleteActiveRow(r)
    \/ UnitDone(r)

Teardown(r) ==
    \/ CommitRefused(r)
    \/ RunFails(r)
    \/ OutcomeUnknown(r)
    \/ Crash(r)
    \/ Close(r)
    \/ CloseInterrupted(r)

Server(r) ==
    \/ GrantLock(r)
    \/ RefuseLock(r)
    \/ ServerCommits(r)
    \/ ServerRefuses(r)
    \/ SessionEnds(r)

Next ==
    \/ \E r \in Runners : Setup(r) \/ Execute(r) \/ Teardown(r) \/ Server(r)
    \/ \E i \in Positions, s \in Sources : EditSource(i, s)

Spec == Init /\ [][Next]_vars

-----------------------------------------------------------------------------
(***************************************************************************)
(* Properties                                                              *)
(***************************************************************************)

\* Durable state is at every moment one that `migrate`, `validate` and
\* `status` accept: no crash, lost reply, refusal or concurrent run leaves
\* metadata that inspect_metadata or validate_snapshot_shape calls damaged, and
\* no run ever exits 7 but for a rejected read of the marker.
NeverSelfDamaged ==
    /\ MetadataState # "DAMAGED"
    /\ SnapshotShape
    /\ \A r \in Runners : exit[r] # "METADATA_DAMAGED"

\* Work and history agree: no work before admission, an atomic unit's work
\* exactly once with its SUCCESS row, a restartable unit's batches exactly
\* once each, with as many durable as its checkpoint says while ACTIVE and
\* all of them once SUCCESS.
WorkMatchesHistory ==
    \A i \in Positions :
        /\ status[i] = "NONE" => data[i] = 0
        /\ status[i] = "ACTIVE" => data[i] = progress[i] /\ data[i] <= Batches
        /\ status[i] = "SUCCESS" => data[i] = Total(i)

\* A session can still change the namespace: its run is past the lock, or the
\* server holds a transaction it has been told to commit.
CanStillWrite(r) ==
    \/ pc[r] \in Working
    \/ pc[r] = "call" /\ request[r] # "lock"
    \/ reply[r] = "sent" /\ request[r] # "lock"

\* Whatever can still change the namespace holds the lock, the sessions of
\* dead and disconnected runners included; so at most one session can.
WritersHoldLock ==
    \A r \in Runners : CanStillWrite(r) => lock = r

\* Migration code of a restartable unit runs only while its ACTIVE row is
\* durable, carries the fingerprint of the code that runs, and counts the
\* attempt the code was told (which the engine never reads back).
CodeRunsAdmitted ==
    \A r \in Runners :
        pc[r] \in {"entry", "code", "batch"} =>
            /\ status[cur[r]] = "ACTIVE"
            /\ fingerprint[cur[r]] = staged[r][cur[r]]
            /\ attempts[cur[r]] = attempt[r]

\* Exit 0 is reported only when every migration of the captured manifest is
\* durably SUCCESS with the captured fingerprint, and stays true afterwards.
ExitOkMeansApplied ==
    \A r \in Runners :
        exit[r] = "OK" =>
            \A i \in Positions :
                status[i] = "SUCCESS" /\ fingerprint[i] = staged[r][i]

\* Successful history is immutable, recovery never changes what was first
\* admitted, rows never disappear, and the attempt counter moves only by one
\* and only while ACTIVE.
HistoryStep(i) ==
    /\ status[i] = "SUCCESS" =>
          UNCHANGED <<status[i], fingerprint[i], first_fingerprint[i],
                      attempts[i], progress[i], data[i]>>
    /\ status[i] = "ACTIVE" =>
          /\ status'[i] # "NONE"
          /\ first_fingerprint'[i] = first_fingerprint[i]
          /\ attempts'[i] \in {attempts[i], attempts[i] + 1}
          /\ fingerprint'[i] # fingerprint[i] => attempts'[i] = attempts[i] + 1
          /\ status'[i] = "SUCCESS" =>
                UNCHANGED <<fingerprint[i], attempts[i]>>

\* Every step is such a step for every row of m8_history.
HistoryImmutable == [][\A i \in Positions : HistoryStep(i)]_vars

\* A run that reports an ordinary failure (exit 3) about a unit reports the
\* truth: the unit is not recorded as successful, and no batch is durable
\* beyond those the migration code knew to be committed.
TruthfulFailure(r) ==
    /\ status[cur[r]] # "SUCCESS"
    /\ pc[r] \in {"code", "batch"} => data[cur[r]] = seen[r]
    /\ pc[r] = "call" /\ request[r] = "batch" => data[cur[r]] = seen[r]

\* The run has a unit of work under way.
ExecutingUnit(r) ==
    /\ cur[r] \in Positions
    /\ \/ pc[r] \in {"unit", "entry", "code", "body", "batch"}
       \/ pc[r] = "call" /\ request[r] \in {"admit", "retry", "batch", "complete",
                                           "atomic"}

\* Every exit 3 about a unit is truthful in that sense; a run that cannot know
\* reports an unknown outcome instead.
DefiniteFailuresAreTrue ==
    [][\A r \in Runners :
          (ExecutingUnit(r) /\ exit[r] = "RUNNING" /\ exit'[r] = "MIGRATION_FAILED")
             => TruthfulFailure(r)]_vars

\* The engine implements the ledger: seen through status and data, whatever
\* runners, sessions and failures do is a step of MigrationLedger.
Ledger == INSTANCE MigrationLedger WITH ledger <- status, effects <- data

\* The refinement: every behaviour of MigrateRun is one of MigrationLedger.
LedgerSpec == Ledger!LedgerSpec

-----------------------------------------------------------------------------
(***************************************************************************)
(* The inductive invariant: what holds between any two steps, and why the  *)
(* properties above do                                                     *)
(***************************************************************************)

UnitRequests == {"admit", "retry", "batch", "complete", "atomic"}

\* A process is attached to its session exactly while it runs; a session that
\* has ended holds nothing; calls and steps agree.
SessionInv(r) ==
    /\ pc[r] = "idle" <=> session[r] # "attached"
    /\ session[r] = "none" => lock # r /\ request[r] = "none"
    /\ request[r] = "none" => reply[r] = "idle"
    /\ pc[r] = "call" => request[r] # "none" /\ reply[r] # "idle"
    /\ pc[r] \in Working \ {"body", "batch"} => request[r] = "none"
    /\ pc[r] = "body" => request[r] = "atomic" /\ reply[r] = "idle"
    /\ pc[r] = "batch" => request[r] = "batch" /\ reply[r] = "idle"
    /\ pc[r] = "close" => request[r] \in {"none", "lock"}

LockInv(r) ==
    /\ CanStillWrite(r) => lock = r
    /\ request[r] = "lock" /\ reply[r] = "ok" => lock = r

\* The rows form a successful prefix with at most one ACTIVE row after it,
\* there are none before the marker, and work agrees with them.
DurableInv ==
    /\ marker => objects = CREATION_ORDER
    /\ ~marker => \A i \in Positions : status[i] = "NONE"
    /\ SnapshotShape
    /\ WorkMatchesHistory

\* The run has planned and not yet ended, or left a unit's transaction behind.
InUnit(r) ==
    \/ pc[r] \in {"unit", "entry", "code", "body", "batch"}
    \/ pc[r] = "call" /\ request[r] \in UnitRequests
    \/ reply[r] = "sent" /\ request[r] \in UnitRequests

\* The durable prefix is exactly the units before the current one, as captured.
AtUnit(r) ==
    /\ marker
    /\ \A i \in Positions :
          /\ i < cur[r] => status[i] = "SUCCESS" /\ fingerprint[i] = staged[r][i]
          /\ i > cur[r] => status[i] = "NONE"

\* The current unit is ACTIVE under the run's source, at the run's attempt.
ActiveHere(r) ==
    /\ cur[r] \in Positions \ AtomicUnits
    /\ status[cur[r]] = "ACTIVE"
    /\ fingerprint[cur[r]] = staged[r][cur[r]]
    /\ attempts[cur[r]] = attempt[r]

\* What a transaction relies on from its submission until it is committed.
BeforeCommit(r) ==
    /\ request[r] = "object" => ~marker /\ objects < CREATION_ORDER
    /\ request[r] = "marker" => objects = CREATION_ORDER
    /\ request[r] = "admit" => /\ cur[r] \in Positions \ AtomicUnits
                               /\ status[cur[r]] = "NONE"
                               /\ attempt[r] = 0
    /\ request[r] = "retry" => /\ cur[r] \in Positions \ AtomicUnits
                               /\ status[cur[r]] = "ACTIVE"
                               /\ attempts[cur[r]] = attempt[r]
    /\ request[r] = "batch" => /\ ActiveHere(r)
                               /\ seen[r] = progress[cur[r]]
                               /\ seen[r] < Batches
    /\ request[r] = "complete" => /\ ActiveHere(r)
                                  /\ progress[cur[r]] = Batches
    /\ request[r] = "atomic" => /\ cur[r] \in AtomicUnits
                                /\ status[cur[r]] = "NONE"

\* What has become true by the time the client hears of the commit.
AfterCommit(r) ==
    /\ request[r] = "object" => ~marker
    /\ request[r] = "marker" => marker
    /\ request[r] \in {"admit", "retry"} =>
          /\ cur[r] \in Positions \ AtomicUnits
          /\ status[cur[r]] = "ACTIVE"
          /\ fingerprint[cur[r]] = staged[r][cur[r]]
          /\ attempts[cur[r]] = attempt[r] + 1
    /\ request[r] = "batch" => ActiveHere(r) /\ progress[cur[r]] = seen[r] + 1
    /\ request[r] \in {"complete", "atomic"} =>
          /\ cur[r] \in Positions
          /\ status[cur[r]] = "SUCCESS"
          /\ fingerprint[cur[r]] = staged[r][cur[r]]

\* What the run knows about the durable state at each of its steps.
RunInv(r) ==
    /\ InUnit(r) => AtUnit(r)
    /\ pc[r] = "create" => ~marker
    /\ pc[r] \in {"verify", "plan"} => marker
    /\ pc[r] = "unit" /\ cur[r] \in Positions =>
          IF attempt[r] = 0
          THEN status[cur[r]] = "NONE"
          ELSE status[cur[r]] = "ACTIVE" /\ attempts[cur[r]] = attempt[r]
    /\ pc[r] \in {"entry", "code", "batch"} => ActiveHere(r)
    /\ pc[r] \in {"code", "batch"} => seen[r] = progress[cur[r]]
    /\ pc[r] = "batch" => seen[r] < Batches
    /\ pc[r] = "body" => cur[r] \in AtomicUnits /\ status[cur[r]] = "NONE"
    /\ reply[r] = "sent" => BeforeCommit(r)
    /\ pc[r] = "call" /\ reply[r] = "refused" => BeforeCommit(r)
    /\ pc[r] = "call" /\ reply[r] = "ok" => AfterCommit(r)

ExitInv(r) ==
    /\ exit[r] # "METADATA_DAMAGED"
    /\ exit[r] = "OK" =>
          \A i \in Positions :
              status[i] = "SUCCESS" /\ fingerprint[i] = staged[r][i]

\* The inductive invariant as a whole: it is preserved by every step of every
\* runner, session and editor, and it implies each invariant above.
IInv ==
    /\ TypeOK
    /\ DurableInv
    /\ \A r \in Runners : SessionInv(r) /\ LockInv(r) /\ RunInv(r) /\ ExitInv(r)

-----------------------------------------------------------------------------
\* Processes keep running, the server answers and reaps dead sessions, and
\* the operator keeps rerunning, plainly and with every --recover.
Fairness ==
    \A r \in Runners :
        /\ WF_vars(LockAcquired(r) \/ LockNotAcquired(r) \/ Inspect(r)
                     \/ Initialize(r) \/ ObjectCreated(r) \/ Initialized(r)
                     \/ Verify(r) \/ BuildPlan(r) \/ Execute(r)
                     \/ CommitRefused(r) \/ Close(r))
        /\ WF_vars(GrantLock(r) \/ RefuseLock(r) \/ ServerCommits(r))
        /\ WF_vars(SessionEnds(r))
        /\ \A rec \in 0..N : SF_vars(Start(r, rec))

FairSpec == Spec /\ Fairness

AllApplied == \A i \in Positions : status[i] = "SUCCESS"
PublishedSourceChanged ==
    \E i \in Positions : status[i] = "SUCCESS" /\ fingerprint[i] # source[i]

\* Reruns converge: once the finitely many faults and edits are over, either
\* every migration is applied or the source of a successful one was edited
\* and not restored.  No crash point is a dead end.
RerunsConverge == <>[](AllApplied \/ PublishedSourceChanged)
=============================================================================
