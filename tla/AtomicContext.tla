---------------------------- MODULE AtomicContext ---------------------------
(***************************************************************************)
(* One atomic migration seen from inside, run again until it is recorded:  *)
(* engine._run_atomic, the facade it hands to the author (context.py), the *)
(* run latch and the adapter's transaction.                                *)
(*                                                                         *)
(* Unlike a restartable batch (BatchContext), an atomic migration has no   *)
(* per-call check that its transaction is still open.  SQLite may roll it  *)
(* back inside a statement whose error the author catches, after which     *)
(* every statement autocommits; an Oracle block may commit or roll back    *)
(* behind the facade's back.  Only the identity check before the SUCCESS   *)
(* row looks for this.                                                     *)
(*                                                                         *)
(* Writes are counted, not described, as in BatchContext.  A variable with *)
(* a counterpart there carries an a before its name.                       *)
(***************************************************************************)
EXTENDS Naturals, AdapterChoice

CONSTANTS
    AttemptCalls,   \* bound: facade calls of one attempt
    MaxRuns         \* bound: migrate commands started after the first

ASSUME AttemptsAssumption == AttemptCalls \in Nat /\ MaxRuns \in Nat

VARIABLES
    \* --- database
    aTxn,           \* "idle", "open", "aborted", or "second" (not the engine's)
    aPend,          \* writes in the open transaction
    pend_row,       \* the SUCCESS row is in the open transaction
    aData,          \* durable writes
    success,        \* the SUCCESS row is durable
    \* --- latch and control
    aLatch,         \* RunLatch state
    aPc,            \* where _run_atomic is
    aExit,          \* exit code of the run
    aCalls,         \* facade calls left in this attempt
    runs,           \* reruns left
    aWritten,       \* writes of this attempt the author was told are in
    \* --- what happened, for the properties
    aBase,          \* data when this attempt began
    aTorn,          \* some attempt's work became durable on its own
    aLate           \* SQL was sent after an unknown outcome

aDbVars    == <<aTxn, aPend, pend_row, aData, success>>
aGhostVars == <<aBase, aTorn, aLate>>
atomicVars == <<adapter, aDbVars, aLatch, aPc, aExit, aCalls, runs, aWritten, aGhostVars>>

Phases == {"begin", "author", "raising", "returned", "identity", "insert", "commit",
           "done"}
AtomicExitCodes == {"NONE", "OK", "USAGE", "MIGRATION_FAILED", "UNKNOWN_OUTCOME",
                    "CONTRACT_VIOLATION"}

AtomicTypeOK ==
    /\ adapter \in Adapters
    /\ aTxn \in {"idle", "open", "aborted", "second"}
    /\ aPend \in Nat /\ aData \in Nat /\ aWritten \in Nat /\ aBase \in Nat
    /\ pend_row \in BOOLEAN /\ success \in BOOLEAN
    /\ aLatch \in {"OPEN", "UNKNOWN_OUTCOME", "CONTRACT_VIOLATION"}
    /\ aPc \in Phases
    /\ aExit \in AtomicExitCodes
    /\ aCalls \in 0..AttemptCalls /\ runs \in 0..MaxRuns
    /\ aTorn \in BOOLEAN /\ aLate \in BOOLEAN

AtomicInit ==
    /\ adapter \in Adapters
    /\ aTxn = "idle" /\ aPend = 0 /\ pend_row = FALSE /\ aData = 0 /\ success = FALSE
    /\ aLatch = "OPEN"
    /\ aPc = "begin"
    /\ aExit = "NONE"
    /\ aCalls = AttemptCalls /\ runs = MaxRuns
    /\ aWritten = 0
    /\ aBase = 0 /\ aTorn = FALSE /\ aLate = FALSE

-----------------------------------------------------------------------------
(***************************************************************************)
(* How an attempt ends                                                     *)
(***************************************************************************)

AtomicSendSql == aLate' = (aLate \/ aLatch = "UNKNOWN_OUTCOME")

\* RunLatch.latch_*: single-shot, the first failure stays.
AtomicLatched(l) == IF aLatch = "OPEN" THEN l ELSE aLatch

\* Mutated form: the exception that arrived decides.
AtomicOutcome_Exception(l, code) == code

\* _latched_or and _terminate: a latched error (l) outranks what arrived.
AtomicOutcome(l, code) == IF l = "OPEN" THEN code ELSE l

\* Mutated form: the rollback is sent whatever is latched.
Rollback_Always(l) ==
    /\ aTxn' = "idle" /\ aPend' = 0 /\ pend_row' = FALSE
    /\ aLate' = (aLate \/ l = "UNKNOWN_OUTCOME")

\* The attempt's transaction ends uncommitted: _rollback_quietly and close or,
\* after an unknown outcome, no SQL and a discarded session the server ends.
Rollback(l) ==
    /\ aTxn' = "idle" /\ aPend' = 0 /\ pend_row' = FALSE
    /\ UNCHANGED aLate

\* The run ends with the latch at l; code is the exit code of what arrived.
Fail(l, code) ==
    /\ aPc' = "done"
    /\ aLatch' = l
    /\ aExit' = AtomicOutcome(l, code)
    /\ Rollback(l)
    /\ UNCHANGED <<adapter, aData, success, aCalls, runs, aWritten, aBase, aTorn>>

\* The reply to an engine call is lost.  SQLite has no link to lose.
Lost == adapter # "sqlite" /\ Fail(AtomicLatched("UNKNOWN_OUTCOME"), "UNKNOWN_OUTCOME")

\* An engine call is rejected, or the run is interrupted in or before it.
Refused == Fail(aLatch, "MIGRATION_FAILED")

-----------------------------------------------------------------------------
(***************************************************************************)
(* Before the author                                                       *)
(***************************************************************************)

\* adapter.begin and establish_transaction_identity.
Begin ==
    /\ aPc = "begin"
    /\ \/ /\ aTxn' = "open"
          /\ aPc' = "author"
          /\ AtomicSendSql
          /\ UNCHANGED <<adapter, aPend, pend_row, aData, success, aLatch, aExit, aCalls,
                         runs, aWritten, aBase, aTorn>>
       \/ Refused
       \/ Lost
       \/ adapter # "sqlite" /\ Fail(aLatch, "USAGE")  \* the server gives no identity

-----------------------------------------------------------------------------
(***************************************************************************)
(* Author code                                                             *)
(***************************************************************************)

\* One facade call that passes _admit_call (the latch) and reaches the driver.
AtomicCall ==
    /\ aPc = "author"
    /\ aCalls > 0 /\ aCalls' = aCalls - 1
    /\ aLatch = "OPEN"
    /\ AtomicSendSql
    /\ UNCHANGED <<adapter, pend_row, success, aExit, runs, aBase>>

\* ctx.execute or ctx.executemany of a write.  With no transaction open, SQLite
\* autocommits it and Oracle opens a second transaction.
Execute ==
    /\ AtomicCall
    /\ aTxn # "aborted"
    /\ aWritten' = aWritten + 1
    /\ IF aTxn = "idle" /\ adapter = "sqlite"
       THEN /\ aData' = aData + 1 /\ aTorn' = TRUE
            /\ UNCHANGED <<aTxn, aPend>>
       ELSE /\ aPend' = aPend + 1
            /\ aTxn' = IF aTxn = "idle" THEN "second" ELSE aTxn
            /\ UNCHANGED <<aData, aTorn>>
    /\ UNCHANGED <<aLatch, aPc>>

\* A statement fails.  SQLite may roll the whole transaction back, PostgreSQL
\* aborts it, Oracle undoes the statement alone.
AtomicStatementError ==
    /\ AtomicCall
    /\ aPc' = "raising"
    /\ \/ adapter # "postgres" /\ UNCHANGED <<aTxn, aPend>>
       \/ adapter = "sqlite" /\ aTxn' = "idle" /\ aPend' = 0
       \/ adapter = "postgres" /\ aTxn' = "aborted" /\ aPend' = 0
    /\ UNCHANGED <<aData, aLatch, aWritten, aTorn>>

\* An admitted Oracle block ends the engine's transaction, by COMMIT or by
\* ROLLBACK, around a write of its own.
HiddenBoundary ==
    /\ AtomicCall
    /\ adapter = "oracle"
    /\ aWritten' = aWritten + 1
    /\ \/ /\ aData' = aData + aPend + 1 /\ aTorn' = TRUE
          /\ aTxn' = "idle" /\ aPend' = 0
       \/ /\ aData' = aData + aPend /\ aTorn' = (aTorn \/ aPend > 0)
          /\ aTxn' = "second" /\ aPend' = 1
       \/ /\ aTxn' = "second" /\ aPend' = 1
          /\ UNCHANGED <<aData, aTorn>>
    /\ UNCHANGED <<aLatch, aPc>>

\* A call's reply is lost (on SQLite: the driver raises something that is not
\* its own error), so the run is latched; a block may have committed.
AtomicCallLost ==
    /\ AtomicCall
    /\ aPc' = "raising"
    /\ aLatch' = AtomicLatched("UNKNOWN_OUTCOME")
    /\ \/ UNCHANGED <<aData, aTorn>>
       \/ adapter = "oracle" /\ aData' = aData + aPend + 1 /\ aTorn' = TRUE
    /\ UNCHANGED <<aTxn, aPend, aWritten>>

\* Every other exception: the author's own, an interrupt outside the driver, a
\* value or statement not admitted, a call refused because the run is latched,
\* an entry module that cannot be loaded.
AtomicRaises ==
    /\ aPc = "author"
    /\ aPc' = "raising"
    /\ UNCHANGED <<adapter, aDbVars, aLatch, aExit, aCalls, runs, aWritten, aGhostVars>>

AtomicCatches ==
    /\ aPc = "raising"
    /\ aPc' = "author"
    /\ UNCHANGED <<adapter, aDbVars, aLatch, aExit, aCalls, runs, aWritten, aGhostVars>>

AtomicReturns ==
    /\ aPc = "author"
    /\ aPc' = "returned"
    /\ UNCHANGED <<adapter, aDbVars, aLatch, aExit, aCalls, runs, aWritten, aGhostVars>>

-----------------------------------------------------------------------------
(***************************************************************************)
(* _run_atomic after the author                                            *)
(***************************************************************************)

\* An exception leaves migrate(ctx): rolled back, with no identity check.
AtomicFails ==
    /\ aPc = "raising"
    /\ Fail(aLatch, "MIGRATION_FAILED")

Proceed(phase) ==
    /\ aPc' = phase
    /\ AtomicSendSql
    /\ UNCHANGED <<adapter, aTxn, aPend, aData, success, aExit, aCalls, runs, aWritten,
                   aBase, aTorn>>

\* latch.check, then the required objects, which only Oracle can declare.
RequireValid ==
    /\ aPc = "returned"
    /\ IF aLatch # "OPEN"
       THEN Fail(aLatch, "MIGRATION_FAILED")
       ELSE \/ Proceed("identity") /\ UNCHANGED <<pend_row, aLatch>>
            \/ adapter = "oracle" /\ Lost
            \/ Refused

\* Mutated form: a missing identity is taken for an unsupported one.
IdentityKept_IfOpen == aTxn \in {"open", "idle"}

\* read_transaction_identity returns what was established.
IdentityKept == aTxn = "open"

\* check_transaction_identity.  An aborted transaction rejects the read.
CheckIdentity ==
    /\ aPc = "identity"
    /\ \/ IdentityKept /\ Proceed("insert") /\ UNCHANGED <<pend_row, aLatch>>
       \/ /\ ~IdentityKept /\ aTxn # "aborted"
          /\ Fail(AtomicLatched("CONTRACT_VIOLATION"), "CONTRACT_VIOLATION")
       \/ Refused
       \/ Lost

\* Mutated form: the commit goes out before the SUCCESS row is in.
InsertSuccessRow_TooLate ==
    /\ aPc = "insert"
    /\ Proceed("commit") /\ UNCHANGED <<pend_row, aLatch>>

\* insert_success_row in the same transaction.
InsertSuccessRow ==
    /\ aPc = "insert"
    /\ \/ Proceed("commit") /\ pend_row' = TRUE /\ UNCHANGED aLatch
       \/ Refused
       \/ Lost

\* durable_commit, outside the try block.  A refusal ends in the interruption
\* path; a lost reply, a storage error or an interrupt leaves it unknown.
DurableCommit ==
    /\ aPc = "commit"
    /\ \/ /\ aPc' = "done" /\ aExit' = "OK"
          /\ AtomicSendSql
          /\ aData' = aData + aPend /\ success' = pend_row
          /\ aTxn' = "idle" /\ aPend' = 0 /\ pend_row' = FALSE
          /\ UNCHANGED <<adapter, aLatch, aCalls, runs, aWritten, aBase, aTorn>>
       \/ Refused
       \/ Fail(AtomicLatched("UNKNOWN_OUTCOME"), "UNKNOWN_OUTCOME")
       \/ /\ aPc' = "done" /\ aLatch' = AtomicLatched("UNKNOWN_OUTCOME")
          /\ aExit' = "UNKNOWN_OUTCOME"
          /\ aData' = aData + aPend /\ success' = pend_row
          /\ Rollback(aLatch')
          /\ UNCHANGED <<adapter, aCalls, runs, aWritten, aBase, aTorn>>

\* The operator runs migrate again; history decides whether this migration is
\* still pending.  A new process has a new latch and a new session.
RerunAtomic ==
    /\ aPc = "done"
    /\ runs > 0 /\ runs' = runs - 1
    /\ ~success
    /\ aPc' = "begin"
    /\ aLatch' = "OPEN" /\ aExit' = "NONE"
    /\ aCalls' = AttemptCalls /\ aWritten' = 0
    /\ aBase' = aData
    /\ UNCHANGED <<adapter, aDbVars, aTorn, aLate>>

AtomicNext ==
    \/ Begin
    \/ Execute \/ AtomicStatementError \/ HiddenBoundary \/ AtomicCallLost
    \/ AtomicRaises \/ AtomicCatches \/ AtomicReturns
    \/ AtomicFails \/ RequireValid \/ CheckIdentity \/ InsertSuccessRow
    \/ DurableCommit \/ RerunAtomic

AtomicSpec == AtomicInit /\ [][AtomicNext]_atomicVars

-----------------------------------------------------------------------------
(***************************************************************************)
(* Properties                                                              *)
(***************************************************************************)

\* The SUCCESS row is durable only together with every write the author was
\* told of in that attempt, even if errors that ended the transaction were
\* caught and more statements followed.
SuccessCoversWork == success => aData = aBase + aWritten

\* Over any number of attempts by compliant code, failed, refused, interrupted
\* or of unknown outcome, the work is in exactly once or not at all, and
\* history tells which.
AllOrNothing ==
    aPc = "done" /\ ~aTorn => aData = IF success THEN aWritten ELSE 0

\* No SQL is sent on the session once the outcome of a call is unknown.
NoSqlAfterUnknown == ~aLate

\* A latched failure is what the run reports and no row is written after it,
\* unless the unknown call is the completion commit itself (RunLatch, _run_atomic).
LatchedAttemptStaysFailed ==
    [][/\ aLatch # "OPEN" /\ aPc # "done" =>
            aLatch' = aLatch /\ success' = success /\ (aPc' = "done" => aExit' = aLatch)
       /\ aExit' = "OK" => aLatch' = "OPEN"]_atomicVars

\* Exit 3 says that atomic work was rolled back: nothing of the attempt is
\* durable.
FailureMeansRolledBack ==
    aPc = "done" /\ aExit = "MIGRATION_FAILED" => aData = aBase

\* The attempt by phase: nothing happened before it, the row is in the
\* transaction only while the commit is out, and nothing is left after it.
PhaseInv ==
    /\ pend_row <=> aPc = "commit"
    /\ aPc # "done" => ~success /\ aExit = "NONE"
    /\ aPc = "begin" => aTxn = "idle" /\ aPend = 0 /\ aWritten = 0 /\ aData = aBase
    /\ aPc = "done" => aTxn = "idle" /\ aPend = 0
    /\ aPc \in {"begin", "identity", "insert", "commit"} => aLatch = "OPEN"
    /\ aPc \in {"insert", "commit"} => aTxn = "open"
    /\ aExit = "OK" => aLatch = "OPEN"

\* While the engine's own transaction is open and nothing is latched, all the
\* author was told of is in it and nothing of the attempt is durable.
WorkInTransaction ==
    aLatch = "OPEN" /\ aTxn = "open" => aPend = aWritten /\ aData = aBase

\* Compliant attempts left nothing behind that history does not know of.
NothingLeftBehind == ~aTorn => aBase = 0 /\ (~success => aData = 0)

\* What every step of _run_atomic and of the facade keeps.
AtomicInv ==
    /\ AtomicTypeOK /\ NoSqlAfterUnknown /\ SuccessCoversWork
    /\ PhaseInv /\ WorkInTransaction /\ NothingLeftBehind

\* What an atomic migration promises in every state: row and work go together,
\* once or not at all, and no SQL follows an unknown outcome (_run_atomic).
AtomicSafety == AtomicInv /\ AllOrNothing

=============================================================================
