--------------------------- MODULE AdaptersProofs ---------------------------
(***************************************************************************)
(* Proofs about three parts of an adapter, each under its own              *)
(* specification.                                                          *)
(*                                                                         *)
(* NamespaceLock: mutual exclusion, and that exit 5 is given only under    *)
(* real contention, for any number of runners, lock files and poll         *)
(* intervals.  Exclusion rests on two facts that each step keeps: a lock   *)
(* object belongs to a session that opened it, and all sessions opened the *)
(* same object, because the lock file is created once and never unlinked.  *)
(*                                                                         *)
(* CallOutcome: a call through a driver, its classifier and the operation  *)
(* guard is a GuardedCall, on every engine.  The refinement needs CallInv: *)
(* an answer is definite only when the commit-capable request was served,  *)
(* was refused or was never sent, so nothing can land after a rejection.   *)
(*                                                                         *)
(* AtomicContext: an atomic migration's row and work go together, for any  *)
(* number of calls and reruns.  The identity check before the SUCCESS row  *)
(* is what carries the proof: if the transaction is still the one the      *)
(* engine began, and nothing is latched, then it holds exactly the writes  *)
(* the author was told of (WorkInTransaction).                             *)
(***************************************************************************)
EXTENDS NamespaceLock, CallOutcome, AtomicContext, TLAPS

-----------------------------------------------------------------------------
(***************************************************************************)
(* The namespace lock                                                      *)
(***************************************************************************)

\* Nobody has a session and nobody owns anything at first.
LEMMA InitLock ==
  ASSUME Init
  PROVE  IInv
  BY AdaptersAssumption, NoRunnerAssumption, BoundsAssumption
     DEF Init, IInv, TypeOK, OwnersHaveSession, SessionsShareFile, OwnershipKnown, Objects

-----------------------------------------------------------------------------
\* Opening the lock file: a new one is created only where no session is left.
LEMMA AskKeeps ==
  ASSUME IInv, NEW r \in Runners, Ask(r)
  PROVE  IInv'
  <1> USE NoRunnerAssumption, BoundsAssumption DEF IInv, Objects
  <1>1. \A s \in Runners : file = 0 => session[s] = "none"
    BY DEF SessionsShareFile, TypeOK
  <1>2. PICK o \in Objects :
            /\ file \in {0, o} /\ file' = o
            /\ opened' = [opened EXCEPT ![r] = o]
    BY DEF Ask, TypeOK
  <1>3. TypeOK'
    BY <1>2 DEF Ask, TypeOK
  <1>4. OwnersHaveSession'
    BY <1>2 DEF Ask, TypeOK, OwnersHaveSession
  <1>5. SessionsShareFile'
    BY <1>1, <1>2 DEF Ask, TypeOK, SessionsShareFile
  <1>6. OwnershipKnown'
    BY <1>2 DEF Ask, TypeOK, OwnersHaveSession, OwnershipKnown
  <1>7. QED
    BY <1>3, <1>4, <1>5, <1>6

\* A grant, noticed or lost.
LEMMA GrantKeeps ==
  ASSUME IInv, NEW r \in Runners, Granted(r) \/ GrantLost(r)
  PROVE  IInv'
  <1> USE NoRunnerAssumption DEF IInv, Granted, GrantLost, Free
  <1>1. TypeOK'
    BY DEF TypeOK
  <1>2. OwnersHaveSession'
    BY DEF TypeOK, OwnersHaveSession
  <1>3. SessionsShareFile'
    BY DEF TypeOK, SessionsShareFile
  <1>4. OwnershipKnown'
    BY DEF TypeOK, OwnershipKnown
  <1>5. QED
    BY <1>1, <1>2, <1>3, <1>4

\* Waiting, giving up and failing leave the owners alone.
LEMMA WaitKeeps ==
  ASSUME IInv, NEW r \in Runners, Sleep(r) \/ GiveUp(r) \/ TryFails(r) \/ Vanish(r)
  PROVE  IInv'
  <1> USE BoundsAssumption DEF IInv, Sleep, Elapse, GiveUp, TryFails, Vanish
  <1>1. left' \in [Runners -> 0 .. MaxWait]
    BY DEF TypeOK
  <1>2. TypeOK'
    BY <1>1 DEF TypeOK
  <1>3. OwnersHaveSession'
    BY DEF TypeOK, OwnersHaveSession
  <1>4. SessionsShareFile'
    BY DEF TypeOK, SessionsShareFile
  <1>5. OwnershipKnown'
    BY DEF TypeOK, OwnershipKnown
  <1>6. QED
    BY <1>2, <1>3, <1>4, <1>5

\* A release, that worked or not, and the end of a session.
LEMMA ReleaseKeeps ==
  ASSUME IInv, NEW r \in Runners, Release(r) \/ EndSession(r) \/ Rerun(r)
  PROVE  IInv'
  <1> USE NoRunnerAssumption
      DEF IInv, Release, EndSession, Rerun, AfterRelease, FileAfterRelease
  <1>1. TypeOK'
    BY DEF TypeOK
  <1>2. OwnersHaveSession'
    BY DEF TypeOK, OwnersHaveSession
  <1>3. SessionsShareFile'
    BY DEF TypeOK, SessionsShareFile
  <1>4. OwnershipKnown'
    BY DEF TypeOK, OwnersHaveSession, OwnershipKnown
  <1>5. QED
    BY <1>1, <1>2, <1>3, <1>4

\* Every step keeps the invariant.
LEMMA NextLock ==
  ASSUME IInv, [Next]_vars
  PROVE  IInv'
  <1>1. CASE UNCHANGED vars
    BY <1>1 DEF IInv, TypeOK, OwnersHaveSession, SessionsShareFile, OwnershipKnown, vars
  <1>2. CASE Next
    BY <1>2, AskKeeps, GrantKeeps, WaitKeeps, ReleaseKeeps DEF Next, Try
  <1>3. QED
    BY <1>1, <1>2

\* The invariant excludes: two holders would own the one object both opened.
LEMMA LockExcludes ==
  ASSUME IInv
  PROVE  HoldersExclude
  <1>1. SUFFICES ASSUME NEW r \in Runners, state[r] = "held"
                 PROVE  /\ owner[opened[r]] = r
                        /\ \A s \in Runners \ {r} : state[s] # "held"
                        /\ \A s \in Runners : state[s] = "waiting" => opened[s] = opened[r]
    BY DEF HoldersExclude
  <1>2. opened[r] = file /\ owner[file] = r
    BY <1>1 DEF IInv, TypeOK, SessionsShareFile, OwnershipKnown
  <1>3. ASSUME NEW s \in Runners, state[s] \in {"waiting", "held"}
        PROVE  opened[s] = file
    BY <1>3 DEF IInv, TypeOK, SessionsShareFile
  <1>4. ASSUME NEW s \in Runners, state[s] = "held"
        PROVE  s = r
    BY <1>2, <1>3, <1>4 DEF IInv, OwnershipKnown
  <1>5. QED
    BY <1>2, <1>3, <1>4

-----------------------------------------------------------------------------
\* The invariant holds of every behaviour.
THEOREM LockInvariant == Spec => []IInv
  <1>1. Init => IInv
    BY InitLock
  <1>2. IInv /\ [Next]_vars => IInv'
    BY NextLock
  <1>3. QED
    BY <1>1, <1>2, PTL DEF Spec

\* THEOREM: at most one of any number of runners holds the namespace, and all
\* that wait wait for what the holder owns, although grants and releases get
\* lost and runners die (acquire_lock, release_lock, close).
THEOREM LockSafetyHolds == Spec => []LockSafety
  <1>1. IInv => LockSafety
    BY LockExcludes DEF LockSafety
  <1>2. QED
    BY <1>1, LockInvariant, PTL

\* THEOREM: acquire_lock gives up (exit 5) only at a moment when another
\* session owns the lock, whatever the timeout is.
THEOREM ContentionIsRealHolds == Spec => ContentionIsReal
  <1>1. ASSUME IInv, Next, NEW r \in Runners, state[r] = "waiting", state'[r] = "gave_up"
        PROVE  owner[opened[r]] \notin {NoRunner, r}
    <2>1. PICK s \in Runners :
              \/ Ask(s) \/ Try(s) \/ GrantLost(s) \/ TryFails(s) \/ Release(s)
              \/ Vanish(s) \/ EndSession(s) \/ Rerun(s)
      BY <1>1 DEF Next
    <2>2. GiveUp(r)
      BY <1>1, <2>1
         DEF IInv, TypeOK, Ask, Try, Granted, Sleep, GiveUp, GrantLost, TryFails, Release,
             Vanish, EndSession, Rerun
    <2>3. QED
      BY <1>1, <2>2 DEF IInv, OwnershipKnown, GiveUp, GivesUp, Free
  <1>2. IInv /\ [Next]_vars
          => [\A r \in Runners : state[r] = "waiting" /\ state'[r] = "gave_up"
                 => owner[opened[r]] \notin {NoRunner, r}]_vars
    BY <1>1
  <1>3. QED
    BY <1>2, LockInvariant, PTL DEF Spec, ContentionIsReal

-----------------------------------------------------------------------------
(***************************************************************************)
(* One guarded call                                                        *)
(***************************************************************************)

\* What differs between the engines, spelled out for one that is checked.
LEMMA Engines ==
  ASSUME adapter \in Adapters
  PROVE  /\ adapter \in {"sqlite", "postgres", "oracle"}
         /\ "none" \notin Errors /\ "interrupted" \notin Refusals
         /\ adapter = "postgres" => AfterRefusal = {"aborted"}
         /\ adapter = "sqlite" => AfterRefusal = {"open", "none"}
         /\ adapter = "oracle" => AfterRefusal = {"open"}
  BY AdaptersAssumption DEF Errors, Refusals, Doubts, AfterRefusal

\* The guard gives a failed call one of two answers.
LEMMA GuardedAnswers ==
  ASSUME NEW e, NEW during, NEW capable
  PROVE  Guarded(e, during, capable) \in {"rejected", "unknown"}
  BY DEF Guarded

\* The heart of Adapter.guarded: a commit is reported as rejected only for an
\* error that says the server refused it.
LEMMA RejectedCommitWasRefused ==
  ASSUME adapter \in Adapters, NEW e \in Errors,
         Guarded(e, "commit", Capable("commit")) = "rejected"
  PROVE  e \in Refusals
  <1>1. e # "interrupted" /\ Definite(e, "commit", TRUE)
    BY DEF Guarded, Capable
  <1>2. adapter \in {"sqlite", "postgres", "oracle"}
    BY Engines
  <1>3. CASE adapter = "sqlite"
    BY <1>1, <1>3 DEF Definite, SqliteDefinite, Refusals
  <1>4. CASE adapter = "postgres"
    BY <1>1, <1>4 DEF Definite, PostgresDefinite
  <1>5. CASE adapter = "oracle"
    BY <1>1, <1>5 DEF Definite, OracleDefinite
  <1>6. QED
    BY <1>2, <1>3, <1>4, <1>5

\* ctx.ddl() sends its ROLLBACK only after an error that settled the statement.
LEMMA RollbackIsSettled ==
  ASSUME adapter \in Adapters, NEW e \in Errors, RollsBack(e)
  PROVE  e \in Refusals \/ adapter = "sqlite"
  <1>1. adapter \in {"sqlite", "postgres", "oracle"}
    BY Engines
  <1>2. QED
    BY <1>1 DEF RollsBack, Definite, PostgresDefinite, OracleDefinite

-----------------------------------------------------------------------------
\* The invariant holds before the first call.
LEMMA InitCallInv ==
  ASSUME CallInit
  PROVE  CallInv
  BY DEF CallInit, CallInv, CallTypeOK, NoSqlInDoubt

\* Every step keeps the types.
LEMMA CallStepTypes ==
  ASSUME CallInv, CallNext
  PROVE  CallTypeOK'
  <1> USE DEF CallInv, CallTypeOK
  <1>1. Kinds' = Kinds /\ Errors' = Errors /\ adapter' = adapter /\ kind' = kind
    BY DEF CallNext, CallAgain, RollbackQuietly, BeginCall, Statement, ErrorCaught,
       Submit,
           ServerCommits, ServerRefuses, CommitReturns, StatementFails, CommitRaises,
           Kinds, Errors, Refusals, Doubts
  <1>2. CASE CallAgain
    BY <1>1, <1>2 DEF CallAgain
  <1>3. CASE RollbackQuietly
    BY <1>1, <1>3 DEF RollbackQuietly
  <1>4. CASE BeginCall
    BY <1>1, <1>4, GuardedAnswers DEF BeginCall, FailCall
  <1>5. CASE Statement \/ ErrorCaught
    BY <1>1, <1>5, Engines DEF Statement, ErrorCaught
  <1>6. CASE Submit
    BY <1>1, <1>6 DEF Submit
  <1>7. CASE ServerCommits \/ ServerRefuses \/ CommitReturns
    BY <1>1, <1>7 DEF ServerCommits, ServerRefuses, CommitReturns
  <1>8. ASSUME NEW e \in Errors, StatementFails(e) PROVE CallTypeOK'
    <2>1. later' \in BOOLEAN
      BY <1>8 DEF StatementFails
    <2>2. QED
      BY <1>1, <1>8, <2>1, GuardedAnswers DEF StatementFails, FailCall
  <1>9. ASSUME NEW e \in Errors, CommitRaises(e) PROVE CallTypeOK'
    BY <1>1, <1>9, GuardedAnswers DEF CommitRaises, FailCall
  <1>10. QED
    BY <1>2, <1>3, <1>4, <1>5, <1>6, <1>7, <1>8, <1>9 DEF CallNext

\* Every step keeps the invariant.
LEMMA NextCallInv ==
  ASSUME CallInv, [CallNext]_callVars
  PROVE  CallInv'
  <1>1. CASE UNCHANGED callVars
    BY <1>1 DEF CallInv, CallTypeOK, NoSqlInDoubt, BeforeCommit, callVars, Kinds,
       Errors, Refusals,
                Doubts
  <1>2. CASE CallNext
    <2>1. CallTypeOK'
      BY <1>2, CallStepTypes
    <2> USE <2>1 DEF CallInv, CallTypeOK, NoSqlInDoubt, BeforeCommit
    <2>2. adapter \in {"sqlite", "postgres", "oracle"}
      BY Engines
    <2>3. CASE CallAgain
      BY <2>3 DEF CallAgain, MayBegin
    <2>4. CASE RollbackQuietly
      BY <2>4 DEF RollbackQuietly
    <2>5. CASE BeginCall
      BY <2>5, GuardedAnswers DEF BeginCall, FailCall
    <2>6. CASE Statement
      BY <2>6 DEF Statement
    <2>7. CASE ErrorCaught
      BY <2>2, <2>7, Engines DEF ErrorCaught
    <2>8. CASE Submit
      BY <2>8 DEF Submit, CommitRefused
    <2>9. CASE ServerCommits
      BY <2>9 DEF ServerCommits
    <2>10. CASE ServerRefuses
      BY <2>10 DEF ServerRefuses
    <2>11. CASE CommitReturns
      BY <2>11 DEF CommitReturns
    <2>12. ASSUME NEW e \in Errors, StatementFails(e) PROVE CallInv'
      BY <2>12, GuardedAnswers, RollbackIsSettled DEF StatementFails, FailCall
    <2>13. ASSUME NEW e \in Errors, CommitRaises(e) PROVE CallInv'
      <3>1. answer' \in {"rejected", "unknown"}
        BY <2>13, GuardedAnswers DEF CommitRaises, FailCall
      <3>2. answer' = "rejected" => request = "refused"
        BY <2>13, RejectedCommitWasRefused DEF CommitRaises, FailCall
      <3>3. QED
        BY <2>13, <3>1, <3>2 DEF CommitRaises, FailCall
    <2>14. QED
      BY <1>2, <2>3, <2>4, <2>5, <2>6, <2>7, <2>8, <2>9, <2>10, <2>11, <2>12, <2>13
         DEF CallNext
  <1>3. QED
    BY <1>1, <1>2

\* Every step is one of the abstract call, or changes neither the answer nor
\* what is durable.
LEMMA CallStepRefines ==
  ASSUME CallInv, [CallNext]_callVars
  PROVE  [Contract!Next]_(Contract!callVars)
  <1> USE DEF CallInv, CallTypeOK, NoSqlInDoubt
  <1>1. CASE UNCHANGED callVars
    BY <1>1 DEF callVars, Contract!callVars
  <1>2. CASE CallNext
    <2>1. CASE CallAgain
      BY <2>1 DEF CallAgain, MayBegin, Contract!callVars
    <2>2. CASE RollbackQuietly \/ Statement \/ ErrorCaught \/ ServerRefuses
      BY <2>2 DEF RollbackQuietly, Statement, ErrorCaught, ServerRefuses,
                  Contract!callVars
    <2>3. CASE BeginCall
      BY <2>3, GuardedAnswers
         DEF BeginCall, FailCall, Contract!Next, Contract!Answer, Contract!callVars
    <2>4. CASE Submit
      BY <2>4 DEF Submit, Contract!Next, Contract!Answer, Contract!callVars
    <2>5. CASE ServerCommits
      BY <2>5 DEF ServerCommits, Contract!Next, Contract!Land, Contract!callVars
    <2>6. CASE CommitReturns
      BY <2>6 DEF CommitReturns, Contract!Next, Contract!Answer
    <2>7. ASSUME NEW e \in Errors, StatementFails(e)
          PROVE  [Contract!Next]_(Contract!callVars)
      BY <2>7, GuardedAnswers DEF StatementFails, FailCall, Contract!Next,
         Contract!Answer
    <2>8. ASSUME NEW e \in Errors, CommitRaises(e)
          PROVE  [Contract!Next]_(Contract!callVars)
      <3>1. answer' \in {"rejected", "unknown"}
        BY <2>8, GuardedAnswers DEF CommitRaises, FailCall
      <3>2. answer' = "rejected" => request = "refused"
        BY <2>8, RejectedCommitWasRefused DEF CommitRaises, FailCall
      <3>3. QED
        BY <2>8, <3>1, <3>2 DEF CommitRaises, Contract!Next, Contract!Answer
    <2>9. QED
      BY <1>2, <2>1, <2>2, <2>3, <2>4, <2>5, <2>6, <2>7, <2>8 DEF CallNext
  <1>3. QED
    BY <1>1, <1>2

\* THEOREM: on every engine, a commit or ctx.ddl() through the driver, the
\* classifier and Adapter.guarded implements the abstract call: it returns only
\* when the work is durable, rejects only when it is not and never will be, and
\* sends no ROLLBACK after a statement whose outcome is in doubt.
THEOREM ImplementsGuardedCallHolds == CallSpec => ImplementsGuardedCall
  <1>1. CallInit => CallInv
    BY InitCallInv
  <1>2. CallInv /\ [CallNext]_callVars => CallInv'
    BY NextCallInv
  <1>3. CallInit => Contract!Init
    BY DEF CallInit, Contract!Init
  <1>4. CallInv /\ [CallNext]_callVars => [Contract!Next]_(Contract!callVars)
    BY CallStepRefines
  <1>5. QED
    BY <1>1, <1>2, <1>3, <1>4, PTL DEF CallSpec, ImplementsGuardedCall, Contract!Spec

-----------------------------------------------------------------------------
(***************************************************************************)
(* The atomic attempt                                                      *)
(***************************************************************************)

\* Nothing is pending, written or latched before the first attempt.
LEMMA InitAtomicInv ==
  ASSUME AtomicInit
  PROVE  AtomicInv
  <1> \A flag \in {pend_row, success, aTorn, aLate} : flag \in BOOLEAN
    BY DEF AtomicInit
  <1>1. AtomicTypeOK
    BY AdaptersAssumption, AttemptsAssumption DEF AtomicInit, AtomicTypeOK, Phases,
       AtomicExitCodes
  <1>2. NoSqlAfterUnknown /\ SuccessCoversWork
    BY DEF AtomicInit, NoSqlAfterUnknown, SuccessCoversWork
  <1>3. PhaseInv /\ WorkInTransaction /\ NothingLeftBehind
    BY DEF AtomicInit, PhaseInv, WorkInTransaction, NothingLeftBehind
  <1>4. QED
    BY <1>1, <1>2, <1>3 DEF AtomicInv

\* An attempt that ends uncommitted, with the latch at l and exit code c.
LEMMA AtomicFailKeeps ==
  ASSUME AtomicInv, aPc # "done", NEW l \in {"OPEN", "UNKNOWN_OUTCOME", "CONTRACT_VIOLATION"},
         NEW c \in AtomicExitCodes \ {"NONE", "OK"}, Fail(l, c)
  PROVE  AtomicInv'
  BY DEF Fail, AtomicOutcome, Rollback, AtomicInv, AtomicTypeOK, NoSqlAfterUnknown,
     SuccessCoversWork,
         PhaseInv, WorkInTransaction, NothingLeftBehind, Phases, AtomicExitCodes

\* An engine call that is refused, or whose reply is lost.
LEMMA AtomicRefusedKeeps ==
  ASSUME AtomicInv, aPc # "done", Refused \/ Lost
  PROVE  AtomicInv'
  <1>1. aLatch \in {"OPEN", "UNKNOWN_OUTCOME", "CONTRACT_VIOLATION"}
    BY DEF AtomicInv, AtomicTypeOK
  <1>2. CASE Refused
    BY <1>1, <1>2, AtomicFailKeeps DEF Refused, AtomicExitCodes
  <1>3. CASE Lost
    BY <1>1, <1>3, AtomicFailKeeps DEF Lost, AtomicLatched, AtomicExitCodes
  <1>4. QED
    BY <1>2, <1>3

\* adapter.begin and the first identity.
LEMMA AtomicBeginKeeps ==
  ASSUME AtomicInv, Begin
  PROVE  AtomicInv'
  <1>1. aPc = "begin" /\ aLatch = "OPEN" /\ ~aLate
    BY DEF Begin, AtomicInv, PhaseInv, NoSqlAfterUnknown
  <1>2. CASE Refused \/ Lost
    BY <1>1, <1>2, AtomicRefusedKeeps
  <1>3. CASE Fail(aLatch, "USAGE")
    BY <1>1, <1>3, AtomicFailKeeps DEF AtomicExitCodes
  <1>4. CASE aTxn' = "open" /\ aPc' = "author" /\ AtomicSendSql
             /\ UNCHANGED <<adapter, aPend, pend_row, aData, success, aLatch, aExit, aCalls,
                            runs, aWritten, aBase, aTorn>>
    <2>1. aLate' = FALSE
      BY <1>1, <1>4 DEF AtomicSendSql, AtomicInv, AtomicTypeOK
    <2>2. QED
      BY <1>1, <1>4, <2>1
         DEF AtomicInv, AtomicTypeOK, NoSqlAfterUnknown, SuccessCoversWork, PhaseInv,
             WorkInTransaction, NothingLeftBehind, Phases
  <1>5. QED
    BY <1>2, <1>3, <1>4 DEF Begin

\* A facade call passes the latch, so it sends no SQL after an unknown outcome.
LEMMA FacadeCallSends ==
  ASSUME AtomicInv, AtomicCall
  PROVE  ~aLate' /\ aLate' \in BOOLEAN /\ aCalls' \in 0 .. AttemptCalls /\ aLatch = "OPEN"
  <1>1. ~aLate'
    BY DEF AtomicCall, AtomicSendSql, AtomicInv, AtomicTypeOK, NoSqlAfterUnknown
  <1>2. aLate' \in BOOLEAN
    BY DEF AtomicCall, AtomicSendSql
  <1>3. QED
    BY <1>1, <1>2, AttemptsAssumption DEF AtomicCall, AtomicInv, AtomicTypeOK

\* Author code: each call either keeps the transaction whole, ends it, or leaves
\* a trace in torn or in the latch.
LEMMA FacadeKeeps ==
  ASSUME AtomicInv, Execute \/ AtomicStatementError \/ HiddenBoundary \/ AtomicCallLost
  PROVE  AtomicInv'
  <1>1. ~aLate' /\ aLate' \in BOOLEAN /\ aCalls' \in 0 .. AttemptCalls /\ aLatch = "OPEN"
    BY FacadeCallSends DEF Execute, AtomicStatementError, HiddenBoundary, AtomicCallLost
  <1>t. aTorn' \in BOOLEAN
    BY DEF Execute, AtomicStatementError, HiddenBoundary, AtomicCallLost, AtomicInv, AtomicTypeOK
  <1> USE <1>1, <1>t
      DEF AtomicCall, AtomicInv, AtomicTypeOK, NoSqlAfterUnknown, SuccessCoversWork,
          PhaseInv,
          WorkInTransaction, NothingLeftBehind, Phases
  <1>2. CASE Execute
    BY <1>2 DEF Execute
  <1>3. CASE AtomicStatementError
    BY <1>3 DEF AtomicStatementError
  <1>4. CASE HiddenBoundary
    BY <1>4 DEF HiddenBoundary
  <1>5. CASE AtomicCallLost
    BY <1>5 DEF AtomicCallLost, AtomicLatched
  <1>6. QED
    BY <1>2, <1>3, <1>4, <1>5

\* What the author does without a call.
LEMMA AuthorKeeps ==
  ASSUME AtomicInv, AtomicRaises \/ AtomicCatches \/ AtomicReturns
  PROVE  AtomicInv'
  BY DEF AtomicRaises, AtomicCatches, AtomicReturns, aDbVars, aGhostVars, AtomicInv,
     AtomicTypeOK,
         NoSqlAfterUnknown, SuccessCoversWork, PhaseInv, WorkInTransaction,
         NothingLeftBehind, Phases

\* The engine goes on to its next call with nothing latched.
LEMMA AtomicProceedKeeps ==
  ASSUME AtomicInv, aPc \in {"returned", "identity", "insert"}, aLatch = "OPEN",
         NEW phase \in {"identity", "insert", "commit"}, Proceed(phase),
         phase \in {"insert", "commit"} => aTxn = "open",
         pend_row' <=> phase = "commit", pend_row' \in BOOLEAN, UNCHANGED aLatch
  PROVE  AtomicInv'
  <1>1. aLate' = FALSE
    BY DEF Proceed, AtomicSendSql, AtomicInv, AtomicTypeOK, NoSqlAfterUnknown
  <1>2. QED
    BY <1>1 DEF Proceed, AtomicInv, AtomicTypeOK, NoSqlAfterUnknown, SuccessCoversWork,
       PhaseInv,
                WorkInTransaction, NothingLeftBehind, Phases

\* The required objects, the identity check and the SUCCESS row.
LEMMA CompletionKeeps ==
  ASSUME AtomicInv, RequireValid \/ CheckIdentity \/ InsertSuccessRow
  PROVE  AtomicInv'
  <1>1. aLatch \in {"OPEN", "UNKNOWN_OUTCOME", "CONTRACT_VIOLATION"}
    BY DEF AtomicInv, AtomicTypeOK
  <1>2. CASE Refused \/ Lost
    BY <1>2, AtomicRefusedKeeps DEF RequireValid, CheckIdentity, InsertSuccessRow
  <1>3. CASE RequireValid
    <2>1. CASE aLatch # "OPEN"
      BY <1>1, <1>3, <2>1, AtomicFailKeeps DEF RequireValid, AtomicExitCodes
    <2>2. CASE aLatch = "OPEN" /\ Proceed("identity") /\ UNCHANGED <<pend_row, aLatch>>
      BY <1>3, <2>2, AtomicProceedKeeps DEF RequireValid, AtomicInv, PhaseInv, AtomicTypeOK
    <2>3. QED
      BY <1>2, <1>3, <2>1, <2>2 DEF RequireValid
  <1>4. CASE CheckIdentity
    <2>1. aLatch = "OPEN" /\ aPc = "identity" /\ ~pend_row
      BY <1>4 DEF CheckIdentity, AtomicInv, PhaseInv
    <2>2. CASE IdentityKept /\ Proceed("insert") /\ UNCHANGED <<pend_row, aLatch>>
      BY <2>1, <2>2, AtomicProceedKeeps DEF IdentityKept, AtomicInv, PhaseInv, AtomicTypeOK
    <2>3. CASE Fail(AtomicLatched("CONTRACT_VIOLATION"), "CONTRACT_VIOLATION")
      BY <2>1, <2>3, AtomicFailKeeps DEF AtomicLatched, AtomicExitCodes
    <2>4. QED
      BY <1>2, <1>4, <2>2, <2>3 DEF CheckIdentity
  <1>5. CASE InsertSuccessRow
    <2>1. aLatch = "OPEN" /\ aPc = "insert" /\ aTxn = "open"
      BY <1>5 DEF InsertSuccessRow, AtomicInv, PhaseInv
    <2>2. CASE Proceed("commit") /\ pend_row' = TRUE /\ UNCHANGED aLatch
      BY <2>1, <2>2, AtomicProceedKeeps
    <2>3. QED
      BY <1>2, <1>5, <2>2 DEF InsertSuccessRow
  <1>6. QED
    BY <1>3, <1>4, <1>5

\* The commit: what becomes durable is the whole attempt, row included.
LEMMA AtomicCommitKeeps ==
  ASSUME AtomicInv, DurableCommit
  PROVE  AtomicInv'
  <1>1. /\ aPc = "commit" /\ aLatch = "OPEN" /\ pend_row = TRUE /\ ~aLate
        /\ aPend = aWritten /\ aData = aBase
    BY DEF DurableCommit, AtomicInv, AtomicTypeOK, PhaseInv, WorkInTransaction,
       NoSqlAfterUnknown
  <1>2. CASE Refused
    BY <1>1, <1>2, AtomicRefusedKeeps
  <1>3. CASE Fail(AtomicLatched("UNKNOWN_OUTCOME"), "UNKNOWN_OUTCOME")
    BY <1>1, <1>3, AtomicFailKeeps DEF AtomicLatched, AtomicExitCodes
  <1>4. CASE /\ aPc' = "done" /\ aData' = aData + aPend /\ success' = pend_row
             /\ aTxn' = "idle" /\ aPend' = 0 /\ pend_row' = FALSE /\ aLate' = FALSE
             /\ \/ aLatch' = "OPEN" /\ aExit' = "OK"
                \/ aLatch' = "UNKNOWN_OUTCOME" /\ aExit' = "UNKNOWN_OUTCOME"
             /\ UNCHANGED <<adapter, aCalls, runs, aWritten, aBase, aTorn>>
    <2>1. /\ pend_row' \in BOOLEAN /\ aLate' \in BOOLEAN /\ success' \in BOOLEAN
          /\ ~pend_row' /\ ~aLate' /\ success'
      BY <1>1, <1>4
    <2>2. QED
      BY <1>1, <1>4, <2>1
         DEF AtomicInv, AtomicTypeOK, NoSqlAfterUnknown, SuccessCoversWork, PhaseInv,
             WorkInTransaction, NothingLeftBehind, Phases, AtomicExitCodes
  <1>5. AtomicSendSql \/ UNCHANGED aLate => aLate' = FALSE
    BY <1>1 DEF AtomicSendSql, AtomicInv, AtomicTypeOK
  <1>6. QED
    BY <1>1, <1>2, <1>3, <1>4, <1>5 DEF DurableCommit, Rollback, AtomicLatched

\* A rerun begins with a clean session and latch.
LEMMA AtomicRerunKeeps ==
  ASSUME AtomicInv, RerunAtomic
  PROVE  AtomicInv'
  BY AdaptersAssumption, AttemptsAssumption DEF RerunAtomic, aDbVars, AtomicInv,
     AtomicTypeOK, NoSqlAfterUnknown, SuccessCoversWork,
         PhaseInv, WorkInTransaction, NothingLeftBehind, Phases, AtomicExitCodes

\* Every step keeps the invariant.
LEMMA NextAtomicInv ==
  ASSUME AtomicInv, [AtomicNext]_atomicVars
  PROVE  AtomicInv'
  <1>1. CASE UNCHANGED atomicVars
    BY <1>1 DEF atomicVars, aDbVars, aGhostVars, AtomicInv, AtomicTypeOK,
       NoSqlAfterUnknown,
                SuccessCoversWork, PhaseInv, WorkInTransaction, NothingLeftBehind
  <1>2. CASE AtomicFails
    BY <1>2, AtomicFailKeeps DEF AtomicFails, AtomicExitCodes, AtomicInv, AtomicTypeOK
  <1>3. QED
    BY <1>1, <1>2, AtomicBeginKeeps, FacadeKeeps, AuthorKeeps, CompletionKeeps, AtomicCommitKeeps,
       AtomicRerunKeeps DEF AtomicNext

-----------------------------------------------------------------------------
\* The invariant holds of every behaviour.
THEOREM AtomicInvariant == AtomicSpec => []AtomicInv
  <1>1. AtomicInit => AtomicInv
    BY InitAtomicInv
  <1>2. AtomicInv /\ [AtomicNext]_atomicVars => AtomicInv'
    BY NextAtomicInv
  <1>3. QED
    BY <1>1, <1>2, PTL DEF AtomicSpec

\* THEOREM: over any number of attempts the SUCCESS row of an atomic migration is
\* durable only with every write of its attempt, compliant work is in exactly
\* once or not at all, and no SQL follows an unknown outcome (_run_atomic).
THEOREM AtomicSafetyHolds == AtomicSpec => []AtomicSafety
  <1>1. AtomicInv => AtomicSafety
    BY DEF AtomicSafety, AllOrNothing, AtomicInv, AtomicTypeOK, SuccessCoversWork,
       NothingLeftBehind
  <1>2. QED
    BY <1>1, AtomicInvariant, PTL

\* THEOREM: once a failure is latched the attempt records nothing and reports
\* that failure, whatever the author catches (RunLatch, _latched_or).
THEOREM LatchedAttemptStaysFailedHolds == AtomicSpec => LatchedAttemptStaysFailed
  <1>1. ASSUME AtomicInv, AtomicNext, aLatch # "OPEN", aPc # "done"
        PROVE  aLatch' = aLatch /\ success' = success /\ (aPc' = "done" => aExit' = aLatch)
    BY <1>1
       DEF AtomicInv, PhaseInv, AtomicNext, Begin, Execute, AtomicStatementError,
           HiddenBoundary, AtomicCallLost,
           AtomicCall, AtomicRaises, AtomicCatches, AtomicReturns, AtomicFails,
           RequireValid, CheckIdentity, InsertSuccessRow, DurableCommit, RerunAtomic, Fail,
           AtomicOutcome, aDbVars
  <1>2. ASSUME AtomicInv', aExit' = "OK"
        PROVE  aLatch' = "OPEN"
    BY <1>2 DEF AtomicInv, PhaseInv
  <1>3. AtomicInv /\ AtomicInv' /\ [AtomicNext]_atomicVars
          => [/\ aLatch # "OPEN" /\ aPc # "done" =>
                   aLatch' = aLatch /\ success' = success /\ (aPc' = "done" => aExit' = aLatch)
              /\ aExit' = "OK" => aLatch' = "OPEN"]_atomicVars
    BY <1>1, <1>2
  <1>4. QED
    BY <1>3, AtomicInvariant, PTL DEF AtomicSpec, LatchedAttemptStaysFailed
=============================================================================
