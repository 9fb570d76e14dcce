------------------------- MODULE BatchContextProofs -------------------------
(***************************************************************************)
(* What a restartable migration may rely on, for any number of calls by    *)
(* any author code: a checkpoint covers durable work only, a failed batch  *)
(* stays out, a torn one is reported, and the first failure decides.       *)
(*                                                                         *)
(* The counting argument has two halves.  BeliefInv: while nothing is      *)
(* latched, what the author believes is in is durable or in the            *)
(* transaction, so a checkpoint committed with it is covered.              *)
(* StaysOutInv: without a hidden commit a transaction that can still be    *)
(* committed holds nothing else, so no commit brings a failed batch in.    *)
(***************************************************************************)
EXTENDS BatchContext, TLAPS

\* The Boolean variables, typed.
Flags ==
    /\ engine_transaction \in BOOLEAN /\ in_batch \in BOOLEAN
    /\ torn \in BOOLEAN /\ lost \in BOOLEAN /\ late \in BOOLEAN

\* The run starts with nothing pending and nothing latched.
LEMMA InitIInv ==
  ASSUME BatchInit
  PROVE  BatchInv
  <1>1. Flags
    BY DEF BatchInit, Flags
  <1>2. QED
    BY <1>1, AdaptersAssumption, CallsAssumption
       DEF BatchInit, Flags, BatchInv, BatchTypeOK, NoBatchSqlAfterUnknown, SuccessMeansEveryBatchIn,
           CheckpointInv, BeliefInv, StaysOutInv, TornInv, EngineTransactionInv, EndInv,
           LatchStates, ExitCodes

\* What a rollback, sent or not, that worked or not, leaves of the transaction.
RollsBack(l) ==
    /\ late' = late
    /\ \/ UNCHANGED <<txn, pend, pend_cp>> /\ (l = "UNKNOWN_OUTCOME" \/ adapter = "sqlite")
       \/ txn' \in {"idle", "dead"} /\ pend' = 0 /\ pend_cp' = 0

\* _rollback_batch has one of those effects.
LEMMA RollbackEffect ==
  ASSUME NEW l, RollbackBatch(l)
  PROVE  RollsBack(l)
  BY DEF RollbackBatch, RolledBack, RollbackFails, RollsBack

\* Every step keeps the Boolean variables Boolean.
LEMMA NextFlags ==
  ASSUME Flags, BatchNext
  PROVE  Flags'
  <1> USE DEF Flags, FacadeCall, SendSql, facadeVars, ghostVars, LeaveBatch, NotCommitted
  <1>1. CASE CallRefused
    BY <1>1 DEF CallRefused
  <1>2. CASE CallNotAdmitted
    BY <1>2 DEF CallNotAdmitted
  <1>3. CASE ExecuteInBatch
    BY <1>3 DEF ExecuteInBatch
  <1>4. CASE ProgressSet
    BY <1>4 DEF ProgressSet
  <1>5. CASE Query
    BY <1>5 DEF Query
  <1>6. CASE StatementError
    BY <1>6 DEF StatementError
  <1>7. CASE HiddenCommit
    BY <1>7 DEF HiddenCommit
  <1>8. CASE ProceduralOutsideBatch
    BY <1>8 DEF ProceduralOutsideBatch
  <1>9. CASE CallLost
    BY <1>9 DEF CallLost
  <1>10. ASSUME NEW own \in BOOLEAN, Ddl(own) PROVE Flags'
    BY <1>10 DEF Ddl
  <1>11. CASE EnterBatch
    BY <1>11 DEF EnterBatch
  <1>12. ASSUME NEW failed \in BOOLEAN, FinishLatched(failed) PROVE Flags'
    BY <1>12 DEF FinishLatched, RollbackBatch, RolledBack, RollbackFails
  <1>13. ASSUME NEW failed \in BOOLEAN, FinishBroken(failed) PROVE Flags'
    BY <1>13 DEF FinishBroken, RollbackBatch, RolledBack, RollbackFails
  <1>14. ASSUME NEW failed \in BOOLEAN, FinishAborted(failed) PROVE Flags'
    BY <1>14 DEF FinishAborted, RollbackBatch, RolledBack, RollbackFails
  <1>15. ASSUME NEW failed \in BOOLEAN, FinishLost(failed) PROVE Flags'
    BY <1>15 DEF FinishLost, RollbackBatch, RolledBack, RollbackFails
  <1>16. CASE FinishFailed
    BY <1>16 DEF FinishFailed, RollbackBatch, RolledBack, RollbackFails
  <1>17. CASE FinishCommitted
    BY <1>17 DEF FinishCommitted
  <1>18. CASE FinishRefused
    BY <1>18 DEF FinishRefused
  <1>19. CASE FinishUnknown
    BY <1>19 DEF FinishUnknown
  <1>20. CASE AuthorRaises
    BY <1>20 DEF AuthorRaises
  <1>21. CASE AuthorCatches
    BY <1>21 DEF AuthorCatches
  <1>22. CASE AuthorReturns
    BY <1>22 DEF AuthorReturns
  <1>23. CASE MigrationRaises
    BY <1>23 DEF MigrationRaises, Terminate, RollbackBatch, RolledBack, RollbackFails
  <1>24. CASE ReturnRejected
    BY <1>24 DEF ReturnRejected, Terminate, RollbackBatch, RolledBack, RollbackFails
  <1>25. CASE ProbeLost
    BY <1>25 DEF ProbeLost, RollbackBatch, RolledBack, RollbackFails
  <1>26. CASE CompletionRefused
    BY <1>26 DEF CompletionRefused, Terminate, RollbackBatch, RolledBack, RollbackFails
  <1>27. CASE Complete
    BY <1>27 DEF Complete
  <1>28. QED
    BY <1>1, <1>2, <1>3, <1>4, <1>5, <1>6, <1>7, <1>8, <1>9, <1>10, <1>11, <1>12, <1>13,
       <1>14, <1>15, <1>16, <1>17, <1>18, <1>19, <1>20, <1>21, <1>22, <1>23, <1>24,
       <1>25, <1>26, <1>27
       DEF BatchNext, Finish

-----------------------------------------------------------------------------
\* Calls of the facade outside ctx.transaction()'s own methods.
LEMMA FacadeKeeps ==
  ASSUME BatchInv, Flags',
         CallRefused \/ CallNotAdmitted \/ ExecuteInBatch \/ ProgressSet \/ Query
         \/ StatementError \/ HiddenCommit \/ ProceduralOutsideBatch \/ CallLost
  PROVE  BatchInv'
  <1> USE AdaptersAssumption, CallsAssumption
      DEF BatchInv, BatchTypeOK, Flags, NoBatchSqlAfterUnknown, SuccessMeansEveryBatchIn,
          CheckpointInv, BeliefInv, StaysOutInv, TornInv, EngineTransactionInv, EndInv,
          LatchExit, LatchStates, ExitCodes, FacadeCall, Raise, facadeVars
  <1>1. CASE CallRefused
    BY <1>1 DEF CallRefused, Admits, BatchTransactionState, Latched
  <1>2. CASE CallNotAdmitted
    BY <1>2 DEF CallNotAdmitted, Admits
  <1>3. CASE ExecuteInBatch
    BY <1>3 DEF ExecuteInBatch, Admits, BatchTransactionState, SendSql, Calm
  <1>4. CASE ProgressSet
    BY <1>4 DEF ProgressSet, Admits, BatchTransactionState, SendSql, Calm
  <1>5. CASE Query
    BY <1>5 DEF Query, Admits, SendSql, Calm
  <1>6. CASE StatementError
    BY <1>6 DEF StatementError, Admits, BatchTransactionState, HasOpenTransaction,
                SendSql
  <1>7. CASE HiddenCommit
    BY <1>7 DEF HiddenCommit, Admits, BatchTransactionState, SendSql, Calm
  <1>8. CASE ProceduralOutsideBatch
    BY <1>8 DEF ProceduralOutsideBatch, Admits, HasOpenTransaction, SendSql, Calm
  <1>9. CASE CallLost
    BY <1>9 DEF CallLost, Admits, Latched
  <1>10. QED
    BY <1>1, <1>2, <1>3, <1>4, <1>5, <1>6, <1>7, <1>8, <1>9

\* ctx.ddl() and the entry of a batch.
LEMMA TransactionKeeps ==
  ASSUME BatchInv, Flags',
         EnterBatch \/ \E own \in BOOLEAN : Ddl(own)
  PROVE  BatchInv'
  <1> USE AdaptersAssumption, CallsAssumption
      DEF BatchInv, BatchTypeOK, Flags, NoBatchSqlAfterUnknown, SuccessMeansEveryBatchIn,
          CheckpointInv, BeliefInv, StaysOutInv, TornInv, EngineTransactionInv, EndInv,
          LatchExit, LatchStates, ExitCodes, FacadeCall, Raise, facadeVars
  <1>1. ASSUME NEW own \in BOOLEAN, Ddl(own) PROVE BatchInv'
    BY <1>1 DEF Ddl, HasOpenTransaction, CanBegin, SendSql, Calm, Latched
  <1>2. CASE EnterBatch
    BY <1>2 DEF EnterBatch, HasOpenTransaction, CanBegin, SendSql, Calm, Latched
  <1>3. QED
    BY <1>1, <1>2

\* The exit of a batch, in each of the ways _finish_batch and _commit_batch end.
LEMMA LeaveKeeps ==
  ASSUME BatchInv, Flags',
         \/ \E failed \in BOOLEAN : Finish(failed)
         \/ FinishFailed \/ FinishCommitted \/ FinishRefused \/ FinishUnknown
  PROVE  BatchInv'
  <1> USE AdaptersAssumption, CallsAssumption
      DEF BatchInv, BatchTypeOK, Flags, NoBatchSqlAfterUnknown, SuccessMeansEveryBatchIn,
          CheckpointInv, BeliefInv, StaysOutInv, TornInv, EngineTransactionInv, EndInv,
          LatchExit, LatchStates, ExitCodes, FacadeCall, Raise, facadeVars
  <1>1. ASSUME NEW failed \in BOOLEAN, FinishLatched(failed) PROVE BatchInv'
    <2>1. RollsBack(latch)
      BY <1>1, RollbackEffect DEF FinishLatched
    <2>2. QED
      BY <1>1, <2>1 DEF FinishLatched, RollsBack, LeaveBatch, NotCommitted
  <1>2. ASSUME NEW failed \in BOOLEAN, FinishBroken(failed) PROVE BatchInv'
    <2>1. RollsBack(latch')
      BY <1>2, RollbackEffect DEF FinishBroken
    <2>2. QED
      BY <1>2, <2>1 DEF FinishBroken, RollsBack, LeaveBatch, NotCommitted,
                        BatchTransactionState, Latched
  <1>3. ASSUME NEW failed \in BOOLEAN, FinishAborted(failed) PROVE BatchInv'
    <2>1. RollsBack(latch')
      BY <1>3, RollbackEffect DEF FinishAborted
    <2>2. QED
      BY <1>3, <2>1 DEF FinishAborted, RollsBack, LeaveBatch, NotCommitted, Latched
  <1>4. ASSUME NEW failed \in BOOLEAN, FinishLost(failed) PROVE BatchInv'
    BY <1>4 DEF FinishLost, LeaveBatch, NotCommitted, RollbackBatch, RolledBack,
                RollbackFails, BatchTransactionState, Latched
  <1>5. CASE FinishFailed
    <2>1. RollsBack(latch)
      BY <1>5, RollbackEffect DEF FinishFailed
    <2>2. QED
      BY <1>5, <2>1 DEF FinishFailed, RollsBack, LeaveBatch, NotCommitted
  <1>6. CASE FinishCommitted
    BY <1>6 DEF FinishCommitted, LeaveBatch, SendSql, Calm
  <1>7. CASE FinishRefused
    BY <1>7 DEF FinishRefused, LeaveBatch, SendSql
  <1>8. CASE FinishUnknown
    BY <1>8 DEF FinishUnknown, LeaveBatch, SendSql, Latched
  <1>9. QED
    BY <1>1, <1>2, <1>3, <1>4, <1>5, <1>6, <1>7, <1>8 DEF Finish

\* What the author does without a call.
LEMMA AuthorKeeps ==
  ASSUME BatchInv, Flags',
         AuthorRaises \/ AuthorCatches \/ AuthorReturns
  PROVE  BatchInv'
  <1> USE AdaptersAssumption, CallsAssumption
      DEF BatchInv, BatchTypeOK, Flags, NoBatchSqlAfterUnknown, SuccessMeansEveryBatchIn,
          CheckpointInv, BeliefInv, StaysOutInv, TornInv, EngineTransactionInv, EndInv,
          LatchExit, LatchStates, ExitCodes, FacadeCall, Raise, facadeVars
  <1>1. CASE AuthorRaises
    BY <1>1 DEF AuthorRaises, dbVars, ghostVars
  <1>2. CASE AuthorCatches
    BY <1>2 DEF AuthorCatches, dbVars, ghostVars
  <1>3. CASE AuthorReturns
    BY <1>3 DEF AuthorReturns, dbVars, ghostVars
  <1>4. QED
    BY <1>1, <1>2, <1>3

\* The engine ends the run.
LEMMA EndKeeps ==
  ASSUME BatchInv, Flags',
         MigrationRaises \/ ReturnRejected \/ ProbeLost \/ CompletionRefused \/ Complete
  PROVE  BatchInv'
  <1> USE AdaptersAssumption, CallsAssumption
      DEF BatchInv, BatchTypeOK, Flags, NoBatchSqlAfterUnknown, SuccessMeansEveryBatchIn,
          CheckpointInv, BeliefInv, StaysOutInv, TornInv, EngineTransactionInv, EndInv,
          LatchExit, LatchStates, ExitCodes, FacadeCall, Raise, facadeVars
  <1>1. CASE MigrationRaises
    BY <1>1 DEF MigrationRaises, Terminate, Outcome, RollbackBatch, RolledBack,
                RollbackFails, HasOpenTransaction
  <1>2. CASE ReturnRejected
    BY <1>2 DEF ReturnRejected, Terminate, Outcome, RollbackBatch, RolledBack,
                RollbackFails, HasOpenTransaction
  <1>3. CASE ProbeLost
    BY <1>3 DEF ProbeLost, RollbackBatch, RolledBack, RollbackFails, Latched
  <1>4. CASE CompletionRefused
    BY <1>4 DEF CompletionRefused, Terminate, Outcome, RollbackBatch, RolledBack,
                RollbackFails, HasOpenTransaction
  <1>5. CASE Complete
    BY <1>5 DEF Complete, HasOpenTransaction, CanBegin, SendSql, Latched
  <1>6. QED
    BY <1>1, <1>2, <1>3, <1>4, <1>5

\* Every step keeps the invariant.
LEMMA NextIInv ==
  ASSUME BatchInv, [BatchNext]_batchVars
  PROVE  BatchInv'
  <1>1. CASE UNCHANGED batchVars
    BY <1>1 DEF batchVars, dbVars, facadeVars, ghostVars, BatchInv, BatchTypeOK, NoBatchSqlAfterUnknown,
                SuccessMeansEveryBatchIn, CheckpointInv, BeliefInv, StaysOutInv, TornInv,
                EngineTransactionInv, EndInv, LatchExit
  <1>2. CASE BatchNext
    <2>1. Flags'
      BY <1>2, NextFlags DEF BatchInv, BatchTypeOK, Flags
    <2>2. QED
      BY <1>2, <2>1, FacadeKeeps, TransactionKeeps, LeaveKeeps, AuthorKeeps, EndKeeps
         DEF BatchNext
  <1>3. QED
    BY <1>1, <1>2

-----------------------------------------------------------------------------
\* THEOREM: the invariant holds whatever the author's code and the database do.
THEOREM InductiveInvariant == BatchSpec => []BatchInv
  <1>1. BatchInit => BatchInv
    BY InitIInv
  <1>2. BatchInv /\ [BatchNext]_batchVars => BatchInv'
    BY NextIInv
  <1>3. QED
    BY <1>1, <1>2, PTL DEF BatchSpec

\* THEOREM: a durable checkpoint never covers work that is not durable
\* (ctx.progress.set, _commit_batch).
THEOREM CheckpointCoversDurableWorkHolds == BatchSpec => []CheckpointCoversDurableWork
  <1>1. BatchInv => CheckpointCoversDurableWork
    BY DEF BatchInv, CheckpointInv, CheckpointCoversDurableWork
  <1>2. QED
    BY <1>1, InductiveInvariant, PTL

\* THEOREM: SUCCESS is recorded only if every batch left cleanly was committed
\* and no batch was torn (complete_active_row, Adapter.begin).
THEOREM SuccessMeansEveryBatchInHolds == BatchSpec => []SuccessMeansEveryBatchIn
  <1>1. BatchInv => SuccessMeansEveryBatchIn
    BY DEF BatchInv
  <1>2. QED
    BY <1>1, InductiveInvariant, PTL

\* THEOREM: a batch whose work became durable without it is reported, however
\* the author leaves it (_finish_batch, _terminate).
THEOREM TornBatchReportedHolds == BatchSpec => []TornBatchReported
  <1>1. BatchInv => TornBatchReported
    BY DEF BatchInv, TornInv, EndInv, LatchExit, TornBatchReported
  <1>2. QED
    BY <1>1, InductiveInvariant, PTL

\* THEOREM: no later call makes the work of a failed batch durable, although its
\* rollback failed (_rollback_batch, Adapter.begin).
THEOREM FailedBatchStaysOutHolds == BatchSpec => []FailedBatchStaysOut
  <1>1. BatchInv => FailedBatchStaysOut
    BY DEF BatchInv, StaysOutInv, FailedBatchStaysOut
  <1>2. QED
    BY <1>1, InductiveInvariant, PTL

\* THEOREM: no SQL is sent once the outcome of a call is unknown (_admit_call,
\* _rollback_batch, _run_restartable).
THEOREM NoBatchSqlAfterUnknownHolds == BatchSpec => []NoBatchSqlAfterUnknown
  <1>1. BatchInv => NoBatchSqlAfterUnknown
    BY DEF BatchInv
  <1>2. QED
    BY <1>1, InductiveInvariant, PTL

\* A latched failure stays latched.
LEMMA LatchStays ==
  ASSUME BatchNext, latch # "OPEN"
  PROVE  latch' = latch
  <1>1. CASE CallRefused \/ CallNotAdmitted \/ ExecuteInBatch \/ ProgressSet \/ Query
             \/ StatementError \/ HiddenCommit \/ ProceduralOutsideBatch \/ CallLost
    BY <1>1 DEF CallRefused, CallNotAdmitted, ExecuteInBatch, ProgressSet, Query,
                StatementError, HiddenCommit, ProceduralOutsideBatch, CallLost, Latched,
                facadeVars
  <1>2. CASE EnterBatch \/ \E own \in BOOLEAN : Ddl(own)
    BY <1>2 DEF EnterBatch, Ddl
  <1>3. CASE \/ \E failed \in BOOLEAN : Finish(failed)
             \/ FinishFailed \/ FinishCommitted \/ FinishRefused \/ FinishUnknown
    BY <1>3 DEF Finish, FinishLatched, FinishBroken, FinishAborted, FinishLost,
                FinishFailed, FinishCommitted, FinishRefused, FinishUnknown
  <1>4. CASE AuthorRaises \/ AuthorCatches \/ AuthorReturns
    BY <1>4 DEF AuthorRaises, AuthorCatches, AuthorReturns, facadeVars
  <1>5. CASE MigrationRaises \/ ReturnRejected \/ ProbeLost \/ CompletionRefused
             \/ Complete
    BY <1>5 DEF MigrationRaises, ReturnRejected, ProbeLost, CompletionRefused, Complete,
                Terminate
  <1>6. QED
    BY <1>1, <1>2, <1>3, <1>4, <1>5 DEF BatchNext

\* THEOREM: the first failure latched decides the exit code, whatever the author
\* catches, replaces or provokes (RunLatch, _terminate).
THEOREM FirstFailureDecidesExitHolds == BatchSpec => FirstFailureDecidesExit
  <1>1. ASSUME BatchInv', BatchNext
        PROVE  /\ latch # "OPEN" => latch' = latch
               /\ pc' = "done" /\ latch' # "OPEN" => exit' = LatchExit(latch')
    BY <1>1, LatchStays DEF BatchInv, EndInv
  <1>2. BatchInv' /\ [BatchNext]_batchVars
          => [/\ latch # "OPEN" => latch' = latch
              /\ pc' = "done" /\ latch' # "OPEN" => exit' = LatchExit(latch')]_batchVars
    BY <1>1
  <1>3. QED
    BY <1>2, InductiveInvariant, PTL DEF BatchSpec, FirstFailureDecidesExit
=============================================================================
