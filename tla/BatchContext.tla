---------------------------- MODULE BatchContext ----------------------------
(***************************************************************************)
(* One invocation of a restartable Python migration, seen from inside: the *)
(* facade (context.py), the run latch (latch.py), the adapter's            *)
(* transaction state (adapters/base.py and the three adapters) and the     *)
(* engine's completion path (engine._run_restartable and _terminate).      *)
(*                                                                         *)
(* Author code is free: it calls the facade in any order, catches any      *)
(* exception or lets it go, leaves a batch by an exception or not at all,  *)
(* and returns when it likes.  The database is free within its engine's    *)
(* rules: a statement error may end the transaction (SQLite), abort it     *)
(* (PostgreSQL) or leave it alone (Oracle); a procedural block may commit  *)
(* behind the facade's back; a commit may be refused; the link may be      *)
(* lost.                                                                   *)
(*                                                                         *)
(* A write is counted, not described: data is the number of durable        *)
(* writes, written the number the author believes are in, and a checkpoint *)
(* records that belief.                                                    *)
(***************************************************************************)
EXTENDS Naturals, AdapterChoice

CONSTANT MaxCalls   \* bound: facade calls of one invocation

ASSUME CallsAssumption == MaxCalls \in Nat

VARIABLES
    \* --- database
    txn,            \* "idle", "open", "aborted", "second" (after a hidden commit),
                    \* or "dead" (the session ended and took the transaction with it)
    pend,           \* writes in the open transaction
    pend_cp,        \* checkpoint in the open transaction, 0 = none
    data,           \* durable writes
    cp,             \* durable checkpoint
    status,         \* the history row: "ACTIVE" or "SUCCESS"
    \* --- adapter, facade and latch
    engine_transaction,  \* Adapter._engine_transaction
    in_batch,       \* RestartableContext._in_batch and _open_batch
    latch,          \* RunLatch state
    \* --- author and engine control
    pc,             \* "author", "raising", "returned", "done"
    exc,            \* on its way: "none", "usage", "error", "failed", "latched"
    written,        \* writes the author believes are in
    base,           \* value of written when the batch was entered
    exit,           \* exit code of the run
    calls,          \* facade calls left
    \* --- what happened, for the properties
    torn,           \* part of a batch became durable without the batch
    lost,           \* a batch left cleanly was refused by its commit
    late            \* SQL was sent after an unknown outcome

dbVars     == <<txn, pend, pend_cp, data, cp, status>>
facadeVars == <<engine_transaction, in_batch, latch>>
ghostVars  == <<torn, lost, late>>
batchVars == <<adapter, dbVars, facadeVars, pc, exc, written, base, exit, calls, ghostVars>>

LatchStates == {"OPEN", "UNKNOWN_OUTCOME", "CONTRACT_VIOLATION", "BATCH_FAILED"}
ExitCodes == {"NONE", "OK", "USAGE", "MIGRATION_FAILED", "UNKNOWN_OUTCOME",
              "CONTRACT_VIOLATION"}

BatchTypeOK ==
    /\ adapter \in Adapters
    /\ txn \in {"idle", "open", "aborted", "second", "dead"}
    /\ pend \in Nat /\ pend_cp \in Nat /\ data \in Nat /\ cp \in Nat
    /\ status \in {"ACTIVE", "SUCCESS"}
    /\ engine_transaction \in BOOLEAN /\ in_batch \in BOOLEAN
    /\ latch \in LatchStates
    /\ pc \in {"author", "raising", "returned", "done"}
    /\ exc \in {"none", "usage", "error", "failed", "latched"}
    /\ written \in Nat /\ base \in Nat
    /\ exit \in ExitCodes
    /\ calls \in 0..MaxCalls
    /\ torn \in BOOLEAN /\ lost \in BOOLEAN /\ late \in BOOLEAN

\* The migration has just been admitted: its ACTIVE row is durable.
BatchInit ==
    /\ adapter \in Adapters
    /\ txn = "idle" /\ pend = 0 /\ pend_cp = 0 /\ data = 0 /\ cp = 0
    /\ status = "ACTIVE"
    /\ engine_transaction = FALSE /\ in_batch = FALSE
    /\ latch = "OPEN"
    /\ pc = "author" /\ exc = "none"
    /\ written = 0 /\ base = 0
    /\ exit = "NONE"
    /\ calls = MaxCalls
    /\ torn = FALSE /\ lost = FALSE /\ late = FALSE

-----------------------------------------------------------------------------
(***************************************************************************)
(* The latch and the adapter's view of the transaction                     *)
(***************************************************************************)

\* RunLatch.latch_*: single-shot, the first failure stays.
Latched(l) == IF latch = "OPEN" THEN l ELSE latch

\* Mutated form: every ended transaction counts as rolled back.
BatchTransactionState_RolledBack == IF txn # "idle" THEN "OPEN" ELSE "ROLLED_BACK"

\* batch_transaction_state: what the driver says locally.  A transaction that
\* is gone was rolled back on SQLite; elsewhere it counts as committed.
BatchTransactionState ==
    IF txn # "idle" THEN "OPEN"
    ELSE IF adapter = "sqlite" THEN "ROLLED_BACK" ELSE "ENDED"

\* Adapter.has_open_transaction.  PostgreSQL's driver has no idle status for a
\* dead session; Oracle's probe does not come back from one (DeadProbe).
HasOpenTransaction == txn # "idle"

\* has_open_transaction is a call on Oracle, and the session is dead.
DeadProbe == adapter = "oracle" /\ txn = "dead"

\* Mutated form: the engine's own notion of an open transaction is ignored.
CanBegin_Txn == ~HasOpenTransaction

\* Adapter.begin: neither the engine nor the database has a transaction open.
CanBegin == ~engine_transaction /\ ~HasOpenTransaction

\* SQL is sent, and answered.
SendSql ==
    /\ txn # "dead"
    /\ late' = (late \/ latch = "UNKNOWN_OUTCOME")

\* The exception e reaches the author.
Raise(e) == pc' = "raising" /\ exc' = e

Calm == UNCHANGED <<pc, exc>>

\* One facade call of the author.
FacadeCall ==
    /\ pc = "author"
    /\ calls > 0
    /\ calls' = calls - 1
    /\ UNCHANGED <<adapter, status, exit, lost>>

-----------------------------------------------------------------------------
(***************************************************************************)
(* Facade calls                                                            *)
(***************************************************************************)

\* Mutated form: a batch that has ended is not noticed.
Admits_Blind == latch = "OPEN"

\* _admit_call: nothing is latched and, in a batch, its transaction is open.
Admits == latch = "OPEN" /\ (in_batch => BatchTransactionState = "OPEN")

\* A refused call: the latched error again, a failed batch or a violation.
CallRefused ==
    /\ FacadeCall
    /\ ~Admits
    /\ latch' = Latched(IF BatchTransactionState = "ROLLED_BACK"
                        THEN "BATCH_FAILED" ELSE "CONTRACT_VIOLATION")
    /\ Raise("latched")
    /\ UNCHANGED <<txn, pend, pend_cp, data, cp, engine_transaction, in_batch, written,
                   base, torn, late>>

\* A statement or value the facade does not admit, or a checkpoint outside a
\* batch: UsageError before anything is sent.
CallNotAdmitted ==
    /\ FacadeCall
    /\ Admits
    /\ Raise("usage")
    /\ UNCHANGED <<txn, pend, pend_cp, data, cp, facadeVars, written, base, torn, late>>

\* ctx.execute / executemany of a write in a batch.  With no transaction open
\* the connection autocommits.
ExecuteInBatch ==
    /\ FacadeCall
    /\ Admits /\ in_batch /\ txn # "aborted"
    /\ SendSql
    /\ IF txn = "idle"
       THEN data' = data + 1 /\ torn' = TRUE /\ UNCHANGED pend
       ELSE pend' = pend + 1 /\ UNCHANGED <<data, torn>>
    /\ written' = written + 1
    /\ Calm
    /\ UNCHANGED <<txn, pend_cp, cp, facadeVars, base>>

\* ctx.progress.set in a batch: the author records what it believes is in.
ProgressSet ==
    /\ FacadeCall
    /\ Admits /\ in_batch /\ txn # "aborted"
    /\ engine_transaction
    /\ SendSql
    /\ IF txn = "idle"
       THEN cp' = written /\ torn' = TRUE /\ UNCHANGED pend_cp
       ELSE pend_cp' = written /\ UNCHANGED <<cp, torn>>
    /\ Calm
    /\ UNCHANGED <<txn, pend, data, facadeVars, written, base>>

\* ctx.query, ctx.progress.get, ctx.sql: nothing changes.
Query ==
    /\ FacadeCall
    /\ Admits /\ txn # "aborted"
    /\ SendSql
    /\ Calm
    /\ UNCHANGED <<txn, pend, pend_cp, data, cp, facadeVars, written, base, torn>>

\* A statement fails: SQLite may roll the whole transaction back, PostgreSQL
\* aborts it, Oracle undoes the statement only.
StatementError ==
    /\ FacadeCall
    /\ Admits
    /\ SendSql
    /\ \/ adapter \in {"sqlite", "oracle"} /\ UNCHANGED <<txn, pend, pend_cp>>
       \/ adapter = "sqlite" /\ txn' = "idle" /\ pend' = 0 /\ pend_cp' = 0
       \/ /\ adapter = "postgres"
          /\ txn' = IF HasOpenTransaction THEN "aborted" ELSE "idle"
          /\ pend' = 0 /\ pend_cp' = 0
    /\ Raise("error")
    /\ UNCHANGED <<data, cp, facadeVars, written, base, torn>>

\* A procedural block in a batch commits: what was pending is durable.  The
\* block may go on writing, which begins another transaction on Oracle.
HiddenCommit ==
    /\ FacadeCall
    /\ adapter # "sqlite"
    /\ Admits /\ in_batch /\ txn # "aborted"
    /\ SendSql
    /\ data' = data + pend
    /\ cp' = IF pend_cp > 0 THEN pend_cp ELSE cp
    /\ pend_cp' = 0
    /\ torn' = TRUE
    /\ \/ txn' = "idle" /\ pend' = 0 /\ UNCHANGED written
       \/ /\ adapter = "oracle"
          /\ txn' = "second" /\ pend' = 1 /\ written' = written + 1
    /\ Calm
    /\ UNCHANGED <<facadeVars, base>>

\* ctx.execute of a procedural block outside a batch, trusted to commit its
\* own work.  On Oracle it may forget to; on PostgreSQL it cannot commit in a
\* transaction that an interrupted ctx.transaction() left open.
ProceduralOutsideBatch ==
    /\ FacadeCall
    /\ adapter # "sqlite"
    /\ Admits /\ ~in_batch /\ txn # "aborted"
    /\ SendSql
    /\ \/ /\ adapter = "oracle" \/ ~HasOpenTransaction
          /\ data' = data + pend + 1 /\ pend' = 0 /\ txn' = "idle"
       \/ /\ adapter = "oracle" \/ HasOpenTransaction
          /\ pend' = pend + 1 /\ txn' = "open" /\ UNCHANGED data
    /\ written' = written + 1
    /\ Calm
    /\ UNCHANGED <<pend_cp, cp, facadeVars, base, torn>>

\* The link is lost or already dead, a driver fails outside its own error
\* classes, or a call outside a batch, which counts as able to commit, is
\* interrupted: the run is latched.  The work of a procedural block may be in.
CallLost ==
    /\ FacadeCall
    /\ Admits
    /\ late' = (late \/ latch = "UNKNOWN_OUTCOME")
    /\ \/ UNCHANGED data
       \/ ~in_batch /\ adapter # "sqlite" /\ txn # "dead" /\ data' = data + 1
    /\ latch' = Latched("UNKNOWN_OUTCOME")
    /\ Raise("latched")
    /\ UNCHANGED <<txn, pend, pend_cp, cp, engine_transaction, in_batch, written, base,
                   torn>>

\* ctx.ddl: refused in a batch or with a transaction open; otherwise one
\* statement, in a transaction of its own or (own = FALSE: Oracle, and
\* PostgreSQL's CONCURRENTLY) submitted plainly.
Ddl(own) ==
    /\ FacadeCall
    /\ adapter = "sqlite" => own
    /\ adapter = "oracle" => ~own
    /\ ~DeadProbe
    /\ IF latch = "OPEN" /\ ~in_batch /\ ~HasOpenTransaction /\ (own => CanBegin)
       THEN /\ SendSql
            /\ \/ data' = data + 1 /\ written' = written + 1 /\ Calm
                  /\ UNCHANGED <<txn, latch, engine_transaction>>
               \/ Raise("error") /\ UNCHANGED <<data, written, txn, latch,
                                                engine_transaction>>
               \/ /\ own                          \* its commit is refused
                  /\ Raise("error")
                  /\ engine_transaction' = TRUE
                  /\ txn' = IF adapter = "sqlite" THEN "open" ELSE "idle"
                  /\ UNCHANGED <<data, written, latch>>
               \/ /\ Raise("latched")
                  /\ latch' = Latched("UNKNOWN_OUTCOME")
                  /\ data' \in {data, data + 1}
                  /\ UNCHANGED <<written, txn, engine_transaction>>
       ELSE /\ Raise(IF latch = "OPEN" THEN "usage" ELSE "latched")
            /\ UNCHANGED <<data, written, txn, latch, engine_transaction, late>>
    /\ UNCHANGED <<pend, pend_cp, cp, in_batch, base, torn>>

-----------------------------------------------------------------------------
(***************************************************************************)
(* ctx.transaction()                                                       *)
(***************************************************************************)

\* __enter__: begin and establish the identity, or a refusal.  A rejected
\* identity is rolled back; an interrupt there is not.
EnterBatch ==
    /\ FacadeCall
    /\ ~DeadProbe
    /\ IF latch = "OPEN" /\ ~in_batch /\ CanBegin
       THEN /\ SendSql
            /\ \/ /\ txn' = "open" /\ engine_transaction' = TRUE /\ in_batch' = TRUE
                  /\ base' = written
                  /\ Calm /\ UNCHANGED latch
               \/ /\ Raise("error")             \* begin or identity refused
                  /\ UNCHANGED <<txn, engine_transaction, in_batch, base, latch>>
               \/ /\ Raise("error")             \* interrupted after begin
                  /\ txn' = "open" /\ engine_transaction' = TRUE
                  /\ UNCHANGED <<in_batch, base, latch>>
               \/ /\ adapter # "sqlite"         \* identity and rollback refused
                  /\ Raise("error")
                  /\ txn' = "dead" /\ engine_transaction' = TRUE
                  /\ UNCHANGED <<in_batch, base, latch>>
               \/ /\ adapter # "sqlite"         \* a reply is lost
                  /\ Raise("latched")
                  /\ latch' = Latched("UNKNOWN_OUTCOME")
                  /\ engine_transaction' \in BOOLEAN
                  /\ UNCHANGED <<txn, in_batch, base>>
       ELSE /\ Raise(IF latch = "OPEN" THEN "usage" ELSE "latched")
            /\ UNCHANGED <<txn, engine_transaction, in_batch, base, latch, late>>
    /\ UNCHANGED <<pend, pend_cp, data, cp, written, torn>>

\* Adapter.rollback succeeds.
RolledBack ==
    /\ txn # "dead"
    /\ txn' = "idle" /\ pend' = 0 /\ pend_cp' = 0
    /\ engine_transaction' = FALSE

\* Adapter.rollback fails and its callers only log it.  Without an open
\* transaction only Oracle sends one.  SQLite keeps the transaction open; a
\* server refuses a rollback only by ending the session.
RollbackFails ==
    /\ HasOpenTransaction \/ adapter = "oracle"
    /\ IF adapter = "sqlite"
       THEN UNCHANGED <<txn, pend, pend_cp>>
       ELSE txn' = "dead" /\ pend' = 0 /\ pend_cp' = 0
    /\ UNCHANGED engine_transaction

\* Mutated form: the batch is rolled back whatever is latched.
RollbackBatch_Always(l) ==
    /\ RolledBack \/ RollbackFails
    /\ late' = (late \/ l = "UNKNOWN_OUTCOME")

\* Mutated form: the engine forgets its transaction and leaves it open.
RollbackBatch_Forgotten(l) ==
    /\ engine_transaction' = FALSE
    /\ UNCHANGED <<txn, pend, pend_cp, late>>

\* _rollback_batch and _rollback_quietly, skipped when the latch (now l) says
\* the outcome is unknown.
RollbackBatch(l) ==
    /\ IF l = "UNKNOWN_OUTCOME"
       THEN UNCHANGED <<txn, pend, pend_cp, engine_transaction>>
       ELSE RolledBack \/ RollbackFails
    /\ UNCHANGED late

\* __exit__, by the `with` block ending cleanly or by an exception passing.
LeaveBatch(failed) ==
    /\ in_batch
    /\ in_batch' = FALSE
    /\ pc = IF failed THEN "raising" ELSE "author"
    /\ UNCHANGED <<adapter, status, base, exit, calls>>

\* The batch ends with nothing committed; an exception e is on its way.
NotCommitted(e) ==
    /\ Raise(e)
    /\ written' = base
    /\ UNCHANGED <<data, cp, torn, lost>>

\* _finish_batch with something latched already.
FinishLatched(failed) ==
    /\ LeaveBatch(failed)
    /\ latch # "OPEN"
    /\ RollbackBatch(latch)
    /\ NotCommitted(IF failed /\ latch = "BATCH_FAILED" THEN exc ELSE "latched")
    /\ UNCHANGED latch

\* The transaction is gone, or its identity has changed.
FinishBroken(failed) ==
    /\ LeaveBatch(failed)
    /\ latch = "OPEN"
    /\ BatchTransactionState # "OPEN" \/ txn = "second"
    /\ IF BatchTransactionState = "ROLLED_BACK"
       THEN latch' = IF failed THEN latch ELSE Latched("BATCH_FAILED")
       ELSE latch' = Latched("CONTRACT_VIOLATION")
    /\ RollbackBatch(latch')
    /\ NotCommitted(IF latch' = "OPEN" THEN exc ELSE "latched")

\* The identity read is rejected, as in an aborted PostgreSQL transaction.
FinishAborted(failed) ==
    /\ LeaveBatch(failed)
    /\ latch = "OPEN"
    /\ txn = "aborted"
    /\ latch' = IF failed THEN latch ELSE Latched("BATCH_FAILED")
    /\ RollbackBatch(latch')
    /\ NotCommitted(IF failed THEN exc ELSE "latched")

\* The reply to the identity read is lost: no rollback follows.
FinishLost(failed) ==
    /\ LeaveBatch(failed)
    /\ adapter # "sqlite"
    /\ latch = "OPEN"
    /\ BatchTransactionState = "OPEN"
    /\ latch' = Latched("UNKNOWN_OUTCOME")
    /\ RollbackBatch(latch')
    /\ NotCommitted("latched")

\* An exception leaves a sound batch: an ordinary failure, nothing latched.
FinishFailed ==
    /\ LeaveBatch(TRUE)
    /\ latch = "OPEN" /\ txn = "open"
    /\ RollbackBatch(latch)
    /\ NotCommitted(exc)
    /\ UNCHANGED latch

\* _commit_batch of a sound batch.
FinishCommitted ==
    /\ LeaveBatch(FALSE)
    /\ latch = "OPEN" /\ txn = "open"
    /\ SendSql
    /\ txn' = "idle" /\ pend' = 0 /\ pend_cp' = 0
    /\ data' = data + pend
    /\ cp' = IF pend_cp > 0 THEN pend_cp ELSE cp
    /\ engine_transaction' = FALSE
    /\ Calm
    /\ UNCHANGED <<latch, written, torn, lost>>

\* The server refuses the commit.  Nothing is latched or rolled back: SQLite
\* keeps the transaction open, the others have ended it.
FinishRefused ==
    /\ LeaveBatch(FALSE)
    /\ latch = "OPEN" /\ txn = "open"
    /\ SendSql
    /\ \/ adapter = "sqlite" /\ UNCHANGED <<txn, pend, pend_cp>>
       \/ adapter # "sqlite" /\ txn' = "idle" /\ pend' = 0 /\ pend_cp' = 0
    /\ lost' = TRUE
    /\ Raise("failed")
    /\ written' = base
    /\ UNCHANGED <<latch, engine_transaction, data, cp, torn>>

\* The commit's reply is lost or the commit is interrupted.
FinishUnknown ==
    /\ LeaveBatch(FALSE)
    /\ latch = "OPEN" /\ txn = "open"
    /\ SendSql
    /\ \/ data' = data + pend /\ cp' = IF pend_cp > 0 THEN pend_cp ELSE cp
       \/ UNCHANGED <<data, cp>>
    /\ latch' = Latched("UNKNOWN_OUTCOME")
    /\ Raise("latched")
    /\ UNCHANGED <<txn, pend, pend_cp, engine_transaction, written, torn, lost>>

-----------------------------------------------------------------------------
(***************************************************************************)
(* The author's own moves                                                  *)
(***************************************************************************)

\* The author raises an exception of its own, or is interrupted in its own code
\* or in a call that cannot commit.
AuthorRaises ==
    /\ pc = "author"
    /\ Raise("error")
    /\ UNCHANGED <<adapter, dbVars, facadeVars, written, base, exit, calls, ghostVars>>

\* The author catches whatever is on its way, inside or outside the batch.
AuthorCatches ==
    /\ pc = "raising"
    /\ pc' = "author" /\ exc' = "none"
    /\ UNCHANGED <<adapter, dbVars, facadeVars, written, base, exit, calls, ghostVars>>

\* migrate(ctx) returns, perhaps with a batch it never left.
AuthorReturns ==
    /\ pc = "author"
    /\ pc' = "returned"
    /\ UNCHANGED <<adapter, dbVars, facadeVars, exc, written, base, exit, calls,
                   ghostVars>>

-----------------------------------------------------------------------------
(***************************************************************************)
(* The engine: completion and outcome                                      *)
(***************************************************************************)

\* Mutated form: the exception that arrived decides.
Outcome_Exception(code) == code

\* _terminate and _latched_or: a latched error outranks what arrived.
Outcome(code) == IF latch = "OPEN" THEN code ELSE latch

\* Mutated form: the failed-batch latch has no exit code of its own.
LatchExit_Raw(l) == l

\* Error.exit_code of the latched error.
LatchExit(l) == IF l = "BATCH_FAILED" THEN "MIGRATION_FAILED" ELSE l

\* The run ends: roll back unless unknown, then the session goes.
Terminate(code) ==
    /\ pc' = "done"
    /\ exit' = LatchExit(Outcome(code))
    /\ RollbackBatch(latch)
    /\ UNCHANGED <<adapter, data, cp, in_batch, latch, exc, written, base, calls, torn,
                   lost>>

\* An exception leaves migrate(ctx), perhaps past a batch never left.
MigrationRaises ==
    /\ pc = "raising"
    /\ latch = "OPEN" => ~DeadProbe
    /\ Terminate("MIGRATION_FAILED")
    /\ UNCHANGED status

\* migrate(ctx) returned, but a failure is latched, or a batch or transaction
\* is still open, or a required object is not valid.
ReturnRejected ==
    /\ pc = "returned"
    /\ latch = "OPEN" /\ ~in_batch => ~DeadProbe
    /\ \/ latch # "OPEN" \/ in_batch \/ HasOpenTransaction
       \/ adapter = "oracle"
    /\ Terminate("MIGRATION_FAILED")
    /\ UNCHANGED status

\* The engine's probe for an open transaction is lost; only Oracle's is a call.
ProbeLost ==
    /\ pc \in {"raising", "returned"}
    /\ adapter = "oracle"
    /\ latch = "OPEN"
    /\ pc' = "done"
    /\ latch' = Latched("UNKNOWN_OUTCOME")
    /\ exit' = "UNKNOWN_OUTCOME"
    /\ RollbackBatch(latch')
    /\ UNCHANGED <<adapter, data, cp, status, in_batch, exc, written, base, calls, torn,
                   lost>>

\* complete_active_row cannot begin: an engine transaction counts as open.
CompletionRefused ==
    /\ pc = "returned"
    /\ latch = "OPEN" /\ ~in_batch /\ ~HasOpenTransaction
    /\ ~CanBegin
    /\ Terminate("USAGE")
    /\ UNCHANGED status

\* complete_active_row commits SUCCESS and deletes the progress rows; its
\* commit may be refused or its reply lost.
Complete ==
    /\ pc = "returned"
    /\ latch = "OPEN" /\ ~in_batch /\ ~HasOpenTransaction
    /\ CanBegin
    /\ SendSql
    /\ pc' = "done"
    /\ \/ /\ status' = "SUCCESS" /\ cp' = 0 /\ exit' = "OK"
          /\ UNCHANGED latch
       \/ /\ exit' = "MIGRATION_FAILED"
          /\ UNCHANGED <<status, cp, latch>>
       \/ /\ latch' = Latched("UNKNOWN_OUTCOME") /\ exit' = "UNKNOWN_OUTCOME"
          /\ \/ status' = "SUCCESS" /\ cp' = 0
             \/ UNCHANGED <<status, cp>>
    /\ UNCHANGED <<adapter, txn, pend, pend_cp, data, engine_transaction, in_batch, exc,
                   written, base, calls, torn, lost>>

Finish(failed) ==
    \/ FinishLatched(failed)
    \/ FinishBroken(failed)
    \/ FinishAborted(failed)
    \/ FinishLost(failed)

BatchNext ==
    \/ CallRefused \/ CallNotAdmitted \/ ExecuteInBatch \/ ProgressSet \/ Query
    \/ StatementError \/ HiddenCommit \/ ProceduralOutsideBatch \/ CallLost
    \/ \E own \in BOOLEAN : Ddl(own)
    \/ EnterBatch
    \/ \E failed \in BOOLEAN : Finish(failed)
    \/ FinishFailed \/ FinishCommitted \/ FinishRefused \/ FinishUnknown
    \/ AuthorRaises \/ AuthorCatches \/ AuthorReturns
    \/ MigrationRaises \/ ReturnRejected \/ ProbeLost \/ CompletionRefused \/ Complete

BatchSpec == BatchInit /\ [][BatchNext]_batchVars

-----------------------------------------------------------------------------
(***************************************************************************)
(* Properties                                                              *)
(***************************************************************************)

\* A durable checkpoint never covers work that is not durable, although the
\* author may not know that its transaction ended inside a statement.
CheckpointCoversDurableWork == cp <= data

\* SUCCESS is recorded only if every batch the author left cleanly was
\* committed and nothing was latched, whatever exceptions were caught.
SuccessMeansEveryBatchIn ==
    status = "SUCCESS" =>
        /\ ~lost
        /\ latch \in {"OPEN", "UNKNOWN_OUTCOME"}
        /\ latch = "UNKNOWN_OUTCOME" => exit = "UNKNOWN_OUTCOME"
        /\ ~torn

\* Once part of a batch is durable without the batch, the run says so: exit 8,
\* or 4 when a later call was lost, unless the author never left the batch;
\* even then the migration does not succeed.
TornBatchReported ==
    torn /\ pc = "done" =>
        \/ exit \in {"CONTRACT_VIOLATION", "UNKNOWN_OUTCOME"}
        \/ in_batch /\ exit = "MIGRATION_FAILED"

\* The first failure latched decides the exit code: the author cannot change
\* it by catching, replacing or provoking other exceptions.
FirstFailureDecidesExit ==
    [][/\ latch # "OPEN" => latch' = latch
       /\ pc' = "done" /\ latch' # "OPEN" => exit' = LatchExit(latch')]_batchVars

\* A batch that did not commit stays out: no later call makes its work durable,
\* even when its rollback failed and nobody but the log was told.
FailedBatchStaysOut ==
    latch # "UNKNOWN_OUTCOME" /\ ~torn => data <= written

\* No SQL is sent on the session once the outcome of a call is unknown: not by
\* the facade, not by batch cleanup, not by the completion path.
NoBatchSqlAfterUnknown == ~late

\* What is pending carries its own checkpoint, and a batch began when all that
\* was believed to be in was durable.
CheckpointInv ==
    /\ cp <= data /\ pend_cp <= data + pend /\ base <= data
    /\ txn = "idle" => pend = 0

\* The author believes no more than what is durable or can still be committed.
BeliefInv ==
    latch = "OPEN" /\ pc # "done" =>
        /\ in_batch /\ txn \in {"open", "second"} => written <= data + pend
        /\ ~in_batch /\ txn # "aborted" => written <= data + pend
        /\ ~in_batch /\ adapter = "sqlite" => written <= data

\* And, without a hidden commit, no less: a transaction that can still be
\* committed holds nothing of a batch that failed.
StaysOutInv ==
    ~torn =>
        /\ latch # "UNKNOWN_OUTCOME" => data <= written
        /\ in_batch => data <= base
        /\ latch = "OPEN" /\ pc # "done"
              /\ \/ in_batch /\ txn = "open"
                 \/ ~in_batch /\ adapter # "sqlite" /\ txn # "aborted"
              => data + pend <= written

\* A torn batch is latched, or still open and recognisable by its transaction.
TornInv ==
    /\ txn = "second" => adapter = "oracle"
    /\ torn => /\ adapter # "sqlite"
               /\ \/ latch \in {"CONTRACT_VIOLATION", "UNKNOWN_OUTCOME"}
                  \/ latch = "OPEN" /\ in_batch
                     /\ (txn \in {"idle", "second"} \/ pc = "done")

\* A refused commit leaves the engine's transaction marked open, which keeps
\* every later transaction, the completion included, from beginning.
EngineTransactionInv ==
    pc # "done" => /\ in_batch => engine_transaction
                   /\ lost => engine_transaction /\ ~in_batch

\* How a run has ended.
EndInv ==
    /\ pc # "done" => status = "ACTIVE"
    /\ pc = "done" /\ latch # "OPEN" => exit = LatchExit(latch)
    /\ pc = "done" /\ latch = "OPEN" /\ in_batch => exit = "MIGRATION_FAILED"

\* What every call of the author and every step of the engine keeps.
BatchInv ==
    /\ BatchTypeOK /\ NoBatchSqlAfterUnknown /\ SuccessMeansEveryBatchIn
    /\ CheckpointInv /\ BeliefInv /\ StaysOutInv /\ TornInv /\ EngineTransactionInv
    /\ EndInv

\* A batch that ended cleanly but could not be committed ends the run with
\* exit 3, even if the author catches the failure and returns.
UncommittableBatchFailsRun ==
    lost /\ pc = "done" =>
        exit \in {"MIGRATION_FAILED", "UNKNOWN_OUTCOME", "CONTRACT_VIOLATION"}
=============================================================================
