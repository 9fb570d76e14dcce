# Formal model of migr8

migr8 runs an ordered manifest of database migrations against SQLite, PostgreSQL
or Oracle. Its claim is not speed but truth: every migration takes effect once,
history never lies, and a run that cannot know what happened says so (exit 4)
instead of guessing. These modules state that claim, model the code that is meant
to keep it, model-check the models on small instances with TLC, and prove the
central results for every instance with TLAPS.

Paths below are relative to the repository's `src/migr8/`. `PROJECT.json` gives
the source lines behind every definition.

    tlc -workers 2 -config MCMigrateRun.cfg MCMigrateRun
    tlapm MigrateRunProofs.tla

## 1. The system

### Components, their state and operations

| Component | State | Operations | Correct when |
|---|---|---|---|
| Engine (`engine.py`) | plan, current unit, attempt, report | setup, initialization, planning, execution of atomic and restartable units, teardown | work is applied once, reports are true, exit 0 means everything is applied |
| Metadata and history (`adapters/base.py`, `adapters/metadata.py`) | `m8_history`, its ACTIVE index, `m8_progress`, `m8_meta` | create objects in order, insert the marker, insert an ACTIVE row, count an attempt, complete, insert an atomic SUCCESS row | the stored state is always one every command accepts; successful rows never change |
| State validation (`statevalidate.py`) | none | shape of a snapshot, plan, recovery admission | an amended source runs only after `--recover`; a published one never |
| Adapters (`adapters/sqlite.py`, `postgres.py`, `oracle.py`) | connection, transaction flag, namespace lock | connect, lock, begin, commit, roll back, close, discard, classify errors | a session that can still write holds the lock; an unknown outcome is not called a failure |
| Facade and latch (`context.py`, `latch.py`) | open batch, latch | execute, query, progress, `ctx.transaction()`, `ctx.ddl` | author code that catches everything still cannot obtain a false checkpoint, SUCCESS or exit code |
| Read-only commands (`readonly.py`) | none durable | inspect metadata, read a snapshot, compare with the manifest | never calls a healthy namespace damaged, never reports a success that is not final |
| Command line (`cli.py`) | report, exit code, signal handling | migrate, validate, status; one result per run | one result, with the outcome that was recorded first |
| Staging and fingerprints (`staging.py`, `fingerprint.py`, `paths.py`) | private copy of the sources | capture, hash | the code that runs is the code that was fingerprinted |
| Loader (`loader.py`) | packages in `sys.modules` | load an entry, check its result, unload | nothing of one run is left for the next |
| Scanner (`sqltext.py`) | none | tokenize, normalize, classify, collect names and CTE verbs | what is submitted is one statement, read as the server reads it |
| Admission (`checks.py`, policies of the adapters) | none | admit or refuse a statement, a DDL statement, a SQL entry file | no transaction control, stray write or metadata access gets through the facade |
| Definition checks (`adapters/metadata.py`, adapters) | none | compare columns, keys, conditions, the one-ACTIVE index | an accepted layout enforces what the engine relies on |
| Configuration, manifest (`config.py`, `manifest.py`) | none | parse | ids and units are distinct |
| Reporting, diagnostics, test hooks | append-only log | format | - |

### Interactions

The command line captures the sources, builds an engine and calls `Engine.run`.
The engine owns one adapter connection, takes the namespace lock on it, and does
everything on that session. Migration code runs in the engine's thread and
reaches the database only through a facade, which shares the adapter's
transaction state and the run's latch with the engine. Two runs meet only in the
database: in the lock and in the metadata tables. A read-only command meets a run
only in the tables, for it takes no lock. A session outlives its client: until
the server notices that the client is gone, the session keeps the lock and may
still carry out the call it was sent.

### What is hard

* a commit whose reply is lost, at every boundary of the protocol;
* a submitted commit that lands after its client has exited, beside a rerun;
* a crash between two durable steps: creation of objects, admission, batches,
  completion;
* a source edited between two runs, and recovery with an amended source;
* author code that catches what it should not and carries on;
* an engine that ends, aborts or silently replaces the transaction under a batch;
* signals, repeated, in the work, in the teardown and in the handlers of earlier
  signals;
* reads that are several queries long, beside a run that is writing;
* a manifest that was reordered, renamed, amended or cut after part of it was
  applied, and history or tables edited by hand;
* SQL text that two readers read differently: the scanner and the server;
* driver errors that settle a call and driver errors that do not;
* a working tree edited while it is copied, and modules that outlive their run.

`PROJECT.json` lists these as hazards, each at its line, with the properties that
cover it.

## 2. The modules

| Module | Models | Role |
|---|---|---|
| `MigrationLedger` | the promise: migrations take effect in order, once, with their history | abstract specification |
| `MigrateRun` | `engine.py`, the transitions of `adapters/base.py`, sessions and lock | core |
| `BatchContext` | `context.py`, `latch.py`, adapter transaction state, completion | one restartable migration from inside |
| `AtomicContext` | `_run_atomic`, `AtomicContext`, transaction identity | one atomic migration from inside |
| `GuardedCall` | the promise of one durable call | abstract specification |
| `CallOutcome` | `guarded`, `durable_commit`, `execute_ddl`, the classifiers, the commits of the adapters | implements `GuardedCall` |
| `NamespaceLock` | `acquire_lock`, `release_lock`, `close`, `discard` of the adapters | the lock `MigrateRun` takes for granted |
| `ReadOnly` | `readonly.py`, `inspect_metadata`, `read_snapshot` | composes a reader with the runners of `MigrateRun` |
| `RunOutcome` | `Engine.run`, teardown and settlement, `cli.py` | one process under repeated signals |
| `ManifestEvolution` | `statevalidate.py`, preflight, `--recover`, `status`, `--baseline` | many runs over a manifest and a history that change |
| `LayoutCheck` | the definition checks, `classify`, `initialize` | the metadata objects changed by hand |
| `UnitPaths` | `paths.py`, `manifest.load` | which directories and files make a unit |
| `Fingerprint` | `fingerprint.py` | the encoding a fingerprint is taken of |
| `UnitModules` | `staging.py`, `loader.py`, `compile_python`, `_invoke_python` | from the working tree to the code that runs |
| `SqlTokenize` | the lexer of `sqltext.py` | operators and their reference |
| `SqlText` | the rest of `sqltext.py` | operators over tokens |
| `SqlFile` | `normalize` on whole files | checks `SqlText` |
| `StatementAdmission` | the policies, `admit_statement`, `admit_ddl`, the facade's flags | uses `SqlText` |
| `Metadata` | rows and layout of one namespace | `ManifestEvolution` and `LayoutCheck` side by side |
| `MigrateRunProofs`, `ReadOnlyProofs`, `BatchContextProofs`, `RunOutcomeProofs`, `ManifestEvolutionProofs` | - | theorems about the module they are named after |
| `AdaptersProofs` | - | theorems about `NamespaceLock`, `CallOutcome` and `AtomicContext` |
| `SourcesProofs` | - | theorems about `UnitModules` and `UnitPaths` |
| `MetadataProofs` | - | theorems about `LayoutCheck` and `Metadata` |
| `AdapterChoice` | which adapter a run is configured for | shared by the modules of `MCAdapters` |
| `MCAdapters` | - | instance of `NamespaceLock`, `CallOutcome`, `AtomicContext`, `BatchContext` and `StatementAdmission` |
| `MCMetadata` | - | instance of `Metadata` |
| `MCProcess` | - | instance of `UnitModules`, `UnitPaths`, `Fingerprint`, `SqlTokenize`, `SqlFile` and `RunOutcome` |
| other `MC*` | - | the instances of the module they are named after |

`MCAdapters`, `MCMetadata` and `MCProcess` check several components in one run. The
variable `part`, chosen in the initial state, says which component a behaviour
exercises; the others stay in an initial state of theirs. A component's behaviours are
therefore exactly its own, its properties are checked on all of them, and nothing is
said about the components' interaction: the interactions are in `MigrateRun`,
`ReadOnly` and the refinements. What a component asks of its constants is an `ASSUME`
of its own, or `ConstantsOK`, which `MCProcess` assumes of its values. Components
that are extended together cannot share names, so some of them prefix the usual ones:
`CallInit`, `AtomicInit`, `BatchInit`, `LayoutInit`, `PathsInit`, `ModulesInit` and so
on; a variable of `AtomicContext` with a counterpart in `BatchContext` has an `a` before
its name (`aTxn`, `aLatch`).

Operators with a suffix (`Discard_Unlocks`, `Admits_Blind`) are mutated forms of
the operator that follows them. No specification uses them; each is a plausible
bug which, put in place of the original, makes the property it is listed with in
`PROJECT.json` fail.

### MigrateRun

*State.* `m8_history` is modelled by columns: `status`, `fingerprint`,
`first_fingerprint` and `attempts` map a position to the value in its row.
`progress` is the checkpoint in `m8_progress`, `data` the units of work in the
user's tables. `objects` counts the metadata objects created, always a prefix of
`CREATION_ORDER`, and `marker` is the row of `m8_meta`. Each runner has a process
(`pc`, the staged capture, `--recover`, current unit, attempt, checkpoint, exit)
and a session on the server (`session`, `request`, `reply`).

*A call has three moments.* The client submits (`Submit`), the server carries
out or refuses (`ServerCommits`, `ServerRefuses`, `GrantLock`, `RefuseLock`), the
client learns the reply (`Acknowledged`). `OutcomeUnknown` is a link lost or an
interrupt in the middle: the client stops and the session becomes an orphan that
may still commit. `Crash` is the death of the process anywhere. `SessionEnds` is
the server noticing.

*Actions.* `Setup` is one `migrate` up to its plan, `Execute` its units,
`Teardown` every way it ends, `Server` what sessions do, `EditSource` a change to
the working tree between captures.

| Action | Code |
|---|---|
| `Start`, `LockAcquired`, `LockNotAcquired`, `SetupFails` | `Engine._run`, `acquire_lock` |
| `Inspect`, `Initialize`, `ObjectCreated`, `Initialized`, `Verify` | `inspect_metadata`, `initialize_metadata` |
| `BuildPlan` | `validate_snapshot_shape`, `build_plan`, recovery admission |
| `BeginAtomic`, `CompleteAtomic` | `_run_atomic` |
| `InsertActiveRow`, `UpdateActiveAttempt`, `Admitted` | admission and re-admission |
| `ReadCheckpoint`, `EnterBatch`, `CommitBatch`, `BatchCommitted` | the documented restartable migration |
| `CompleteActiveRow`, `UnitDone`, `FinishRun` | completion and the loop over units |
| `CommitRefused`, `RunFails`, `OutcomeUnknown`, `Close`, `CloseInterrupted` | `_terminate` and teardown |

*Abstractions.* The manifest's shape (length, modes) is fixed and only sources
change. A checkpoint is one counter. A rejected read is `SetupRejected`, before
anything is planned. Failures of connect and preflight precede every effect on
the database and leave no trace in this model. SQLite releases a dead client's
lock at once and the other engines later; `SessionEnds` may come at any time
after the client is gone, which covers both. A rollback succeeds: it fails only
on a link that is already dead, in which case the code logs it and ends the
session. `METADATA_UNREADABLE` is exit 7 for a rejected read of the marker, kept
apart from exit 7 for metadata that was read and found damaged.

### BatchContext

One call of a restartable `migrate(ctx)`, on each of the three adapters. Author
code is nondeterministic: it makes any facade calls in any order, catches or does
not, leaves a batch by an exception or returns with one open. The database is
nondeterministic within its engine's rules: an error may end the transaction
(SQLite), abort it (PostgreSQL) or leave it alone (Oracle); a procedural block
may commit, and on Oracle start a second transaction that hides the commit from
the open-transaction flag; a commit may be refused; the link may be lost in any
call. Writes are counted: `data` is what is durable, `written` what the author
believes is in. `error` stands for an exception of the author's own, for a
statement's error, and for an interrupt outside a call that can commit.
The server rejects the read of the transaction's identity only in an aborted
transaction. Statement admission is one refusal (`CallNotAdmitted`), and
the check of required objects is Oracle's refusal of a returned migration
(`ReturnRejected`). `torn`, `lost` and `late` record what happened and guard
nothing.

### ReadOnly

`validate` or `status` as a sequence of separate reads (`ReadObjects`,
`CountMeta`, `ReadMeta`, `CountHistory`, `CountProgress`), each of what is durable
at its own moment, then a snapshot of two queries over one pinned view, then the
plan check, which is `MigrateRun`'s own applied to what was read. Any read may
fail (`ReadFails`). Between two reads any runner may take any step.

### RunOutcome

One process from entry of the command to its exit status. The work on the
database is a few steps with every kind of ending; the recording of the outcome,
the rollback, close, discard, the settlement loop, the removal of the staging
directory, the report and the handler of the interrupt are step by step. A
signal may arrive at every named step, up to `MaxInterrupts` of them, and again
in what the previous one started. Signals are delivered at these steps, not
between two bytecodes of one handler frame. A write of the result that fails
exits 1 through `main`'s fallback; an interrupt in `main`'s handling of a failure
that precedes the engine leaves `main` as an exception.

### AtomicContext

The engine's single transaction around one atomic `migrate(ctx)`: begin and
identity, facade calls, the author's catching and raising, the checks after it
returns (latch, identity, required objects), the SUCCESS row and the commit. A
statement error may end the transaction (SQLite) or abort it (PostgreSQL); an
Oracle block may commit or roll back; a call may be lost. There is no check before
each call as there is in a batch: what the author does after a caught error is
only seen when the migration returns. `data` counts
what is durable, `written` what the author believes is in.

### CallOutcome and GuardedCall

`GuardedCall` is the promise everything above relies on: a call returns only if
the work is durable; a call reported as rejected left nothing durable and nothing
of it becomes durable later; otherwise it is unknown. `CallOutcome` is how each
engine keeps it: what a driver may raise, in classes of codes, at begin, statement
and commit; the order of the classifiers' tests; a commit request that is served
after its caller gave up; PostgreSQL's COMMIT of an aborted transaction; SQLite's
storage errors at COMMIT; `ctx.ddl()` with its own rollback; Oracle's DDL and
PostgreSQL's CONCURRENTLY, which commit by themselves. An index that a failed
CONCURRENTLY leaves behind as invalid does not count as the work.

### NamespaceLock

Runners ask, poll until a deadline, hold, release, fail to release, lose the grant
with its reply or vanish. A lock belongs to a server session, or to a descriptor of
the lock file, and comes free when that ends. The lock file has an inode, so that a
file removed under a waiting runner would show. An interrupt between `flock` and
the note of the descriptor leaves the lock with the process, which `GrantLost`
covers. SQLite's `close` skips the release when its ROLLBACK fails; the process is
then ending, as in `Vanish`.

### ManifestEvolution

Runs one after the other over a manifest whose units are added, removed, reordered,
renamed, amended and given other modes between runs, and over a history that is
edited by hand. A run plans by `validate_snapshot_shape` and `build_plan`, executes
atomic and restartable units with checkpoints, fails anywhere and is recovered by
`--recover`. `status` reports beside it, and a baseline approved offline is verified
against the manifest. The namespace lock is taken for granted here (`NamespaceLock`,
`MigrateRun`), so runs do not overlap.

### LayoutCheck

The four metadata objects as data: columns, keys with their columns, target and
state, conditions with their wording, the index with its key, literal and
rendering. Initialization creates what is missing, checks again and writes the
marker; hands alter anything at any moment; PostgreSQL's dump and restore changes
renderings. `TableMatches` and `IndexMatches` are the adapters' comparisons,
`EnforcesLayout` and `AdmitsEngine` what the server then does; `EnforcesUpToCase` is
`EnforcesLayout` but for the literal of the index, whose case PostgreSQL's and Oracle's
comparison does not see. Text normalisation is
modelled by which spellings it identifies. PostgreSQL and Oracle do not look for
added indexes, keys on other columns, storage options or collations, which
`AdmitsEngine` therefore asks of SQLite only; Oracle skips added
`CHECK (col IS NOT NULL)` conditions by their shape.

### UnitPaths, Fingerprint, UnitModules

`UnitPaths` is a tree of directories, files and links on a file system that folds
case or does not, and the rules that admit unit paths and files over it; which names
fold together is a constant, taken to be the same for `str.casefold` and the file system.
`Fingerprint` is the encoding, over bytes as numbers, with names and lengths one
byte wide. `UnitModules` is one process: units are copied file by file beside an
author who edits them, fingerprinted, compiled, loaded under a package name, run,
asked for a late import, and unloaded, in several runs. A unit is an entry and a
helper there.

### SqlTokenize, SqlText, SqlFile, StatementAdmission

`SqlTokenize` has the lexer as operators over characters (quotes, both
comment forms, brackets of q-quotes, dollar tags) and a reference that reads the
same text by the grammar. `SqlText` starts from tokens. `SqlFile` builds every
token sequence up to a bound and compares `normalize` with what a client tool would
send. `StatementAdmission` builds statements from a grammar of leading words, CTEs (the
statement all in parentheses included), mentions of a metadata table in five spellings and statement kinds, sends them
through the facade in every mode and on every adapter, and records what the
database would do with what was admitted. `SELECT ... INTO`, common table
expressions named by an unquoted keyword such as `VALUES`, PostgreSQL's nested
comments and `E''` strings are outside these grammars.

## 3. What is checked

Every run below also has its mutants; deadlock is checked wherever the system
is meant to go on.

**migrate_run** (`MCMigrateRun.cfg`): two runners, an atomic and a restartable
migration of two batches, two faults, one edit; about 1.1 million states, with
the runners as a symmetry set.

* `NeverSelfDamaged`: no crash, lost reply or concurrent run produces metadata
  that migr8 itself would reject.
* `WorkMatchesHistory`: durable work is exactly what history says.
* `WritersHoldLock`: whatever can still write holds the lock, orphans included.
* `CodeRunsAdmitted`: restartable code runs only under a durable ACTIVE row that
  names its fingerprint and its attempt.
* `ExitOkMeansApplied`: exit 0 is true, and remains true.
* `HistoryImmutable`: no step changes a successful row, or an ACTIVE row but as
  recovery may.
* `DefiniteFailuresAreTrue`: exit 3 about a unit is never said of a unit that
  succeeded or of a batch that is durable without the run's knowledge.
* `LedgerSpec`: the engine implements `MigrationLedger`.
* `IInv`: the invariant the proofs use, with `TypeOK` as its first conjunct.

Why the bounds are enough to be interesting: two runners are needed for an orphan
beside a rerun; one atomic and one restartable unit have all the boundaries and
the prefix rule; two batches distinguish a first, a middle and a last checkpoint;
two faults allow a fault in the recovery from a fault; one edit makes recovery
necessary. The theorems remove the bounds.

**reruns_converge** (`MCMigrateRunLive.cfg`): `RerunsConverge`, that no crash
point is a dead end. One runner, one batch, two faults, one edit, no symmetry.

*Fairness.* A running process takes its next step (weak fairness of the runner's
steps that are not failures); the server answers what it was sent and ends the
session of a dead client (weak fairness); the operator keeps rerunning, plainly
and with each `--recover` (strong fairness of every `Start`, because a start is
possible again and again but not continuously). Faults, edits, crashes and
interrupts are never fair. These are what the documentation asks of the operator
and what the engines do: PostgreSQL and Oracle reap dead sessions, SQLite
releases with the process. The escape in the property is intended: a published
migration whose source was changed and not restored is refused for ever.

**read_only** (`MCReadOnly.cfg`): a reader beside one runner that migrates, fails, and
reruns. `InitializedIsReadable`: a namespace initialized when the command connected is
never reported damaged or absent. `ReportedSuccessIsFinal`: a success that was seen
stays. `ReaderInv` is the invariant of the proofs. One runner is the bound of TLC's
time, not of the argument: at most one session writes at a time (`WritersHoldLock`), and
one runner already leaves an orphan's late commit and a rerun behind each fault; the
theorems are for any number.

In the next three runs the invariants of most components are conjuncts of one property,
named for the component, with mutants that break one or another of them; the inductive
invariant of the component's proofs, where it has one, is a conjunct as well. Parts of
these runs may end, so deadlock is not checked in them.

**adapters** (`MCAdapters.cfg`), about 180,000 states, on the three adapters.

* The lock: three runners (a holder, a waiter on the same file, a newcomer),
  timeouts of 0 to 2 intervals, two inodes. `LockSafety` is `HoldersExclude`.
  `LockService` is `ContentionIsReal` (exit 5 is only said of a lock that was taken),
  `WaitsEnd` and `LockComesFree`, under weak fairness: a waiting process keeps
  polling, and a session without a client comes to an end. Nothing is assumed of how
  long a holder works, or of how soon the server notices.
* One call: every class of error at every step; the space is finite without a bound.
  `ImplementsGuardedCall` is the refinement, with `NoSqlInDoubt`: no ROLLBACK follows
  an error in doubt.
* An atomic migration: four facade calls, each of which may fail, be lost or hide a
  boundary, and two reruns. Four are an error, its catch, and two writes in what is no
  longer the engine's transaction. `AtomicSafety` is `SuccessCoversWork` (a SUCCESS row
  stands for all the work the author wrote), `AllOrNothing` (row and work become
  durable together, once over all attempts) and `NoSqlAfterUnknown`.
  `LatchedAttemptStaysFailed`: nothing softens a latched failure.
* A restartable migration: seven facade calls; a full batch with checkpoint, an error in
  it, its catch and a second batch fit in seven. `CheckpointCoversDurableWork`,
  `SuccessMeansEveryBatchIn`, `TornBatchReported`, `FailedBatchStaysOut` (a batch whose
  rollback failed does not ride along with a later commit), `NoBatchSqlAfterUnknown`,
  `FirstFailureDecidesExit`, and `BatchInv`, the invariant of the proofs.
* Admission: all statements of the grammar in every scope, any number of them.
  `AdmissionSafety` is `EngineOwnsTransaction`, `ReadsOnlyOutsideBatch`,
  `CommitsAreFlagged` (whatever can commit is guarded as commit-capable) and
  `EngineStateUntouched`. `ReadsOnlyOutsideBatch` excepts a data-modifying `WITH` all in
  parentheses on PostgreSQL; **wrapped_with** below is that case.

**metadata** (`MCMetadata.cfg`), about 480,000 states. The two ids are
symmetric: the model only compares them.

* Rows: manifests of up to two units over two ids and four contents, two attempts, any
  number of runs, one row edited by hand. Two positions and two ids make every
  reordering, renaming, insertion and removal happen before, inside and behind the
  applied prefix. `HistorySafety` is `NeverMisshapen`, `ExitZeroMeansManifest`,
  `AppliedOnceAsRecorded`, `StatusCountsTrue`, `ApprovedPlansApply` (a verified
  baseline continues what was approved before) and `KeysHold` (no insert meets the keys
  of `m8_history`).
* Layout: two changes by hand, enough for one and another that hides it, at any moment
  of initialization or later, on the three adapters. `LayoutSafety` is
  `AcceptedLayoutEnforces`, `AcceptedLayoutAdmitsEngine` and `HealthyIsAccepted`, with
  the invariant of the proofs. `AcceptedLayoutEnforces` excepts, on PostgreSQL and
  Oracle, an index that differs from the issued one in the case of its literal alone;
  **index_literal** below is that case. `MarkerVouchesForLayout` has the same exception.
* `MetadataSteps`, what no step of either does: amend a source that `--recover` did not
  name (`AmendedOnlyByName`), build on history it should call damaged
  (`DamageStopsRuns`), or write the marker over a layout that does not enforce its
  rules (`MarkerVouchesForLayout`).

**process** (`MCProcess.cfg`), about 1.2 million states.

* Paths: trees of up to five objects and depth three over the names a, A and b,
  manifests of one or two units, which hold a directory inside another and two
  spellings of it. `CapturedFilesDistinct` is `UnitsShareNoFile`,
  `NoTwoFilesBecomeOne` and the invariant of the tree.
* Encoding: all pairs of units of up to two files, or one file and two declarations,
  whose contents imitate pieces of an encoding. `FingerprintIdentifies` is
  `EveryEditShows` and `OrderDoesNotShow`.
* Modules: two units, two edits, three runs in a process: one to fail, one to recover
  and one after that. `ModulesSafety` is `RanWhatWasFingerprinted`,
  `RecordedWorkWasDone`, `SyntaxErrorsStopEarly` and `ModulesDiscarded`.
* Text: all texts of up to seven characters, in four alphabets, and of up to six
  tokens. `LexerAgrees`; `SubmitsTheStatement` is `SubmitsOneStatement` and
  `AcceptsOneStatement`. Seven characters hold the shortest q-quote and dollar quote
  with something in them and after them; six tokens hold a block, its terminator, a
  comment and a slash.
* Outcome: three adapters, fifteen signals. Every signal moves the process on and no
  retry loop is unbounded, so a run can receive at most fourteen before it has exited:
  the guard on the bound never holds a signal back, and the run covers any number of
  them. `RecordedOutcomeStays`, `LatchDecidesExit`, `ExitZeroIsTrue`,
  `TeardownSendsNoSql`, `ReportedOnce`, and `IInv`, the invariant of the proofs.

### Disagreements found

* **batch_commit_refused** (`context.py:496`). A definite rejection of a batch's
  COMMIT is raised but not latched, and nothing is rolled back. An author who
  catches the error and returns ends the run with exit 1 (a transaction is still
  counted as open) on PostgreSQL and Oracle, where docstring and specification
  promise a latched failed batch and exit 3. History stays right
  (`SuccessMeansEveryBatchIn` holds): it is the report that is wrong.
* **read_only_damage** (`adapters/base.py:393`). The inspection is several queries
  with no transaction around them, where the documentation says one consistent
  read. Beside a *first* `migrate` it can combine answers from before and after
  and report exit 7 for a healthy namespace. `InitializedIsReadable` shows that
  this is confined to initialization.
* **interrupted_close** (`adapters/postgres.py:315`). The PostgreSQL and Oracle
  `close()` clear the connection in `finally`, so after an interrupt the engine
  finds nothing to discard and the report does not say that the connection was
  dropped, as the documentation says it does.
* **atomic_rollback** (`engine.py:490`). The exception path of an atomic migration
  rolls back without asking whether the transaction is still the engine's. On SQLite
  an author who catches a failed `INSERT OR ROLLBACK`, writes again and raises is
  told "rolled back" (exit 3) of a row that was autocommitted.
* **wrapped_with** (`sqltext.py:438`). Bodies of common table expressions are looked for at
  depth zero. On PostgreSQL a data-modifying `WITH` all in parentheses, which the server
  accepts, therefore passes for a query outside a batch and autocommits, where
  `docs/SPEC.md:211` has direct DML rejected. `DirectDmlRejected` is
  `ReadsOnlyOutsideBatch` without its exception.
* **index_literal** (`adapters/metadata.py:156`). The comparison of the one-ACTIVE index on
  PostgreSQL and Oracle folds the case of literals, so an index over `'active'`, in which no
  two ACTIVE rows collide, is accepted, where `docs/SPEC.md:362` asks for the exact form.
  `ExactIndexOnly` is `AcceptedLayoutEnforces` without its exception.

### Known limits of the code

Met while modelling; the properties say what holds all the same:

* An interruption between the loading of a unit and the `try` that unloads it
  (`engine.py:667`) leaves the package registered, and `load_entry` refuses the unit
  for the rest of the process; `docs/SPEC.md:417` has failure paths unload as well.
  `leaked` in `ModulesDiscarded` is this case.
* Only file paths are compared for case (`paths.py:54`): a unit with `A/x` and `a/y`
  is accepted and has another fingerprint where names fold, against the opening
  comment of `paths.py`. `NoTwoFilesBecomeOne` is what does hold.

## 4. What is proved

Eleven components are proved about for every value of their constants. Each theorem is
`Spec => []P`, `Spec => [][A]_vars` or a refinement, and each rests on an inductive
invariant that TLC checks in the component's run: `IInv`, or `CallInv`, `AtomicInv`,
`BatchInv`, `ReaderInv` beside `IInv`, `LayoutInv`, `UnitsInv` and `TreeInv`. The bounds of the models (faults,
calls, edits, attempts, ...) are constants like the others: the theorems hold for any
value of them, so also for as many as a program can meet.

The only assumptions are the named `ASSUME`s of the modules, which TLC evaluates in the
runs: naturals where numbers are meant, adapters among the three there are, model values
distinct from real ones, contents with a language and a mode, a folding of every name.
No theorem has a hypothesis beside them.

| Component | Theorems | For any number of |
|---|---|---|
| `MigrateRun` | `NeverSelfDamaged`, `WorkMatchesHistory`, `WritersHoldLock`, `CodeRunsAdmitted`, `ExitOkMeansApplied`, `HistoryImmutable`, `DefiniteFailuresAreTrue`, the refinement of `MigrationLedger` | runners, migrations, batches, sources, faults, edits |
| `ReadOnly` | `InitializedIsReadable`, `ReportedSuccessIsFinal`, `ReaderInv` | runners, migrations, faults, edits |
| `CallOutcome` | the refinement of `GuardedCall`, with `NoSqlInDoubt` | - (the classes of errors are finite) |
| `NamespaceLock` | `LockSafety`, `ContentionIsReal` | runners, lock files, poll intervals |
| `AtomicContext` | `AtomicSafety`, `LatchedAttemptStaysFailed` | facade calls, attempts |
| `BatchContext` | its six properties of the run | facade calls, batches |
| `RunOutcome` | its five properties of the run | signals |
| `UnitModules` | `ModulesSafety` | units, edits, runs |
| `UnitPaths` | `CapturedFilesDistinct` | names and foldings of them, objects, depths, units |
| `ManifestEvolution` | `HistorySafety`, `KeysHold`, `AmendedOnlyByName`, `DamageStopsRuns` | ids, contents, manifest lengths, attempts, hand edits |
| `LayoutCheck` | `LayoutSafety`, `MarkerVouchesForLayout`; with `ManifestEvolution`, `MetadataSteps` | changes by hand, restores, interrupted initializations |

The theorem about `P` is called `PHolds` (the first refinement `ImplementsLedger`);
`InductiveInvariant`, in `AdaptersProofs` `LockInvariant` and `AtomicInvariant`, says that
the invariant holds of every behaviour.

### MigrateRun

None of the properties is inductive alone. That a commit is safe
depends on what its runner decided from a snapshot several steps ago, so the
invariant must say what the runner still knows. `IInv` is the conjunction of

* `TypeOK`;
* `DurableInv`: rows form a successful prefix and at most one ACTIVE row, there
  are none before the marker, and work agrees with them;
* for each runner, `SessionInv` (process, session and call agree), `LockInv`
  (whoever can still write, or was told it has the lock, holds it), `RunInv`
  (what the run knows at each step) and `ExitInv`.

`RunInv` has the core of it: `BeforeCommit` is what a transaction relies on from
its submission until the server commits it, `AfterCommit` what is true once the
client is told. They must hold for *orphans* too: a dead client's transaction may
still commit. `LockInv` is why they persist: a step of another runner that
changes durable state would need the lock that this session holds.

The proof has one lemma per action, `XKeeps`. Steps that change one runner only
go through `OwnStep` and `FrameStep`; the commits of the server go through
`CommitStep`, whose frame lemma `OthersOut` says that no other runner relies on
anything while this one writes. The action properties and the refinement follow
from `OnlyCommitsChange`: durable state changes only in `ServerCommits`, under
`BeforeCommit`.

### ReadOnly

The command takes no lock and its reads are of different moments, so nothing it holds
need be true any more when it is used. Two things save it. What an inspection of an
initialized namespace combines is never undone: `MarkerStays`, and with the marker the
four objects and the one row of `m8_meta`, whence `InspectionInv`. It is the missing half
for an uninitialized one, where the marker may appear between two reads, that
**read_only_damage** shows. And the snapshot is of one moment: `SnapshotInv` says that its
queries return the view pinned by the first, which was a durable state, so that by
`MigrateRun`'s `DurableInv` the rules of `statevalidate.py` accept it. `Pinned` is
`MigrateRun` itself with the view for its columns, so this is the same `SnapshotShape`.
That a reported success is final needs the lemma behind `HistoryImmutable`
(`StepKeepsHistory`), applied to every step a runner takes after the read.

### CallOutcome

The contract says that a call returns only when its work is durable and is rejected
only when it is not and never will be. What has to be known at each step is which
requests can still be served: `CallInv` relates `step`, the request on the wire and the
state of the transaction. Two lemmas about the classifiers carry the argument: a commit is
called rejected only after an error with which the server refused it
(`RejectedCommitWasRefused`), and a ROLLBACK follows such errors only, or is SQLite's,
where the statement has ended with the call (`RollbackIsSettled`). The second gives
`NoSqlInDoubt`.

### NamespaceLock

`HoldersExclude` needs to know why two runners that both think they hold the lock
contradict each other: `OwnersHaveSession` and `SessionsShareFile` say that an owner's
session is alive and that all sessions of a lock have the same file open, which is where
an unlinked lock file would break the proof; `OwnershipKnown` says what a runner
concludes from the reply. `ContentionIsReal` follows from the guard of giving up: an
attempt was made and refused. `WaitsEnd` and `LockComesFree` are liveness.

### AtomicContext and BatchContext

Both have to relate three views of one transaction: what the author did (`written`),
what the database has pending or durable (`pend`, `data`), and what facade and adapter
believe. `AtomicContext` has `WorkInTransaction` (while the identity is the engine's,
the pending work is all that was written), `NothingLeftBehind` (unless a block committed
by itself, a migration without success has nothing durable) and `PhaseInv`.
`BatchContext` has more ways to go wrong and more conjuncts: `BeliefInv` (as long as
nothing is latched, what the author wrote is durable or pending), `StaysOutInv` (and
nothing else is, unless a block committed by itself), `TornInv` (where a torn batch can
hide until it is found), `EngineTransactionInv` (the flag that keeps a lost transaction
from being committed by somebody else), `CheckpointInv` and `EndInv`.
`FailedBatchStaysOut` needs `StaysOutInv` and `EngineTransactionInv` together.

### RunOutcome

A signal may arrive at every step, so the invariant is a table of what is known at each
`pc`: `RecordInv` (a recorded outcome is the latched one, and OK only if all is applied),
`ControlInv` (where something must or cannot have been recorded) and `ReportInv` (what
was rendered is the `Outcome` computed from what was recorded and latched). The
theorems hold for every bound on the number of signals.

### UnitModules

`RanWhatWasFingerprinted` relates three copies of a file: the staged one, the one loaded
in `sys.modules` and the one executed. `StagingInv` says that the copy is complete and
unchanged once its fingerprint was taken, although the tree is edited; `ModulesInv` that
what is registered for the current unit comes from that copy, and that nothing of other
units or earlier runs is registered, except after the interruption listed under the known
limits (`leaked`).

### UnitPaths

`check_units_disjoint` compares identities of directories, while a file belongs to a unit
by its path. `TreeInv` connects the two: every object lies in directories that exist, and
a path names one object at most, also where names fold (`OneObject`). So the ancestors of a
unit are the beginnings of its directory's path however the manifest spells it
(`AncestorsArePrefixes`), and two units with a file in common are one, or one is an
ancestor of the other (`DisjointUnits`). For a checkout elsewhere, `SpellingFolds` says
that whatever spelling a directory keeps, a file's path folds as before, so that files
without a collision stay as many (`CheckedOutApart`). Nothing is asked of the folding but
that it is a function of the name.

### ManifestEvolution

The shape rule of `statevalidate.py` counts rows, while a step of a run moves one.
`ManifestEvolutionProofs` restates the rule without counting (`Prefix`: a success at each
of the positions 1 to k, perhaps an ACTIVE row at k + 1, no id or position twice) and
proves the two forms equivalent with the facts about cardinalities of the library
(`ShapeIsPrefix`, `PrefixIsShape`). `PrefixGrows` and `PrefixRewritten` are then the
only two things a run does to a history. `RunInv` says that during a run the history
follows its manifest up to the position it is at and that an ACTIVE row there is the
unit's, with its source or named by `--recover`; `AdmittedPlan` shows that this is what
`build_plan` and recovery admission establish. That ids are distinct in a manifest is what
keeps a new row from meeting an old id. `PipelineInv` says that history follows the
approved plan, and `ApprovedAdmitted` that such a plan passes every check: the two
halves of `ApprovedPlansApply`. After an edit by hand only `ExitZeroMeansManifest`,
`KeysHold`, `StatusCountsTrue` and the two action properties are left, and the next
run's checks have to establish the rest. The proof attempt showed that
`AmendedOnlyByName` depends on `KeysHold`, the keys of the table, once history is damaged.

### LayoutCheck

That an accepted layout enforces its rules is a fact about the comparison, not about
behaviours: `MatchingTable` and `MatchingIndex` show it table by table for records of the
right types, `NoProblemsSuffice` puts them together. The index is the one place where the
comparison sees less than it should: `MatchingIndex` shows that on PostgreSQL and Oracle an
accepted index collides on two ACTIVE rows or is the issued one in every field but the case
of its literal, and that SQLite has no such case. SQLite compares texts and keys,
PostgreSQL and Oracle dictionaries with closed lists, and the argument differs for each.
That a namespace nobody harmed is accepted does need an invariant. `HealthyLayout` says
what the tool alone can have made: a prefix of `CREATION_ORDER`, each object as issued or
as a restore rewrites it (`OwnWording`), the marker last and rows after it.
`HealthyHasNoProblems` shows that the comparison accepts all of these spellings, which is
what `_DUMPED_RENDERINGS` is for. `StageInv` (no marker and no row while objects are being
created) is what `MarkerVouchesForLayout` adds: the second comparison in `initialize` sees
the same layout the marker is written over.

### Only model-checked

* `RerunsConverge`, `WaitsEnd`, `LockComesFree`: liveness under fairness is out of the
  prover's reach.
* `LexerAgrees`, `SubmitsTheStatement`, `FingerprintIdentifies`: what recursive definitions
  compute from texts and encodings, which would take induction over data.
* `AdmissionSafety`: what the scanner reads out of the statements of a grammar. The grammar
  and the adapters are finite and the run goes through all of them in every scope, so
  nothing is left for a theorem but a larger grammar.

## 5. What is not modelled

* TOML parsing, the configuration file, credentials and Thick mode: text and settings
  read before anything reaches a database.
* Session settings (`synchronous_commit`, `COMMIT_WAIT`, pragmas, journal mode): each
  is a request with its read-back in a fixed order inside `connect`, before the lock
  is asked for; there is no interleaving in it.
* The dictionary query behind required objects: one read; its verdict is the refusal
  of a returned migration in `AtomicContext` and `BatchContext`.
* The individual error codes, type names and column lists: data; the models have the
  classes the code distinguishes.
* The session liveness probe of `status`: advice to the reader that decides nothing.
* SHA-256, which is taken to be injective; the width of lengths in the encoding.
* Hard links and bind mounts in `UnitPaths`; metadata names taken by objects of
  another kind in `LayoutCheck`.
* Argument parsing, formatting of reports, diagnostics, test hooks.

## 6. Plan

Done: the core (`MigrationLedger`, `MigrateRun`), one migration from inside
(`BatchContext`, `AtomicContext`), the process around the run (`RunOutcome`), the
reader (`ReadOnly`), the lock, the classifiers and their contract, evolving manifests,
definition checks, units from tree to module, and SQL text from characters to
admission; the proofs of section 4, which cover every safety property of the runs but the
four named there. What could follow:

1. A wider grammar for `StatementAdmission`: `SELECT ... INTO`, nested `WITH`, `E''` strings.
2. The session settings of `connect`, if a setting ever comes to depend on an earlier one.
3. `RerunsConverge` for two runners, when TLC's time allows it.
