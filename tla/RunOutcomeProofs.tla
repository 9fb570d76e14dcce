-------------------------- MODULE RunOutcomeProofs --------------------------
(***************************************************************************)
(* How a migrate process ends, for any number of signals: the outcome the  *)
(* engine recorded first, or else what is latched, is the exit status, it  *)
(* is reported once, and no SQL follows an unknown outcome.                *)
(*                                                                         *)
(* The argument follows the main thread: RecordInv says what the engine's  *)
(* record is worth, ControlInv what is settled at each point of the code,  *)
(* ReportInv that the command carries the record through unchanged.        *)
(***************************************************************************)
EXTENDS RunOutcome, TLAPS

\* The Boolean variables, typed.
Flags ==
    /\ reported \in BOOLEAN /\ discarded \in BOOLEAN /\ connected \in BOOLEAN
    /\ locked \in BOOLEAN /\ dropped \in BOOLEAN /\ engine \in BOOLEAN
    /\ run_report \in BOOLEAN /\ propagating \in BOOLEAN /\ applied \in BOOLEAN
    /\ unreleased \in BOOLEAN /\ late \in BOOLEAN /\ write_failed \in BOOLEAN
    /\ blamed_start \in BOOLEAN

\* The process starts with nothing recorded and nothing written.
LEMMA InitIInv ==
  ASSUME Init
  PROVE  IInv
  <1>1. Flags
    BY DEF Init, Flags
  <1>2. QED
    BY <1>1, OutcomeAssumption
       DEF Init, Flags, IInv, TypeOK, TeardownSendsNoSql, RecordInv, ControlInv, ReportInv,
           Steps, PlainCodes, LatchStates, ExitCodes

\* Every step keeps the Boolean variables Boolean.
LEMMA NextFlags ==
  ASSUME Flags, Next
  PROVE  Flags'
  <1> USE DEF Flags, Goto, envVars, engineVars, connVars, runVars, resultVars, teardownVars
  <1>1. CASE Run
    <2>1. CASE EnterEngine
      BY <2>1 DEF EnterEngine
    <2>2. ASSUME NEW c \in {"USAGE", "VALIDATION"}, SetupRejected(c) PROVE Flags'
      BY <2>2 DEF SetupRejected
    <2>3. CASE ReportFailure
      BY <2>3 DEF ReportFailure
    <2>4. CASE BeginRun
      BY <2>4 DEF BeginRun
    <2>5. CASE Connect
      BY <2>5 DEF Connect
    <2>6. CASE AcquireLock
      BY <2>6 DEF AcquireLock
    <2>7. CASE WorkDone
      BY <2>7 DEF WorkDone
    <2>8. ASSUME NEW e \in PlainCodes \cup {"internal"}, NEW l \in LatchStates, WorkFails(e, l) PROVE Flags'
      BY <2>8 DEF WorkFails
    <2>9. QED
      BY <1>1, <2>1, <2>2, <2>3, <2>4, <2>5, <2>6, <2>7, <2>8 DEF Run
  <1>2. CASE End
    <2>1. CASE RecordOk
      BY <2>1 DEF RecordOk, Record
    <2>2. CASE Terminate
      BY <2>2 DEF Terminate, Record
    <2>3. CASE RollbackQuietly
      BY <2>3 DEF RollbackQuietly, SendSql
    <2>4. CASE CloseConnection
      BY <2>4 DEF CloseConnection, SendSql
    <2>5. CASE DiscardQuietly
      BY <2>5 DEF DiscardQuietly, DropSession
    <2>6. CASE NoteDiscarded
      BY <2>6 DEF NoteDiscarded
    <2>7. CASE ReturnReport
      BY <2>7 DEF ReturnReport
    <2>8. CASE SettleDiscard
      BY <2>8 DEF SettleDiscard, DropSession, SettleOn
    <2>9. CASE SettleFail
      BY <2>9 DEF SettleFail, Record
    <2>10. CASE SettleEnd
      BY <2>10 DEF SettleEnd
    <2>11. QED
      BY <1>2, <2>1, <2>2, <2>3, <2>4, <2>5, <2>6, <2>7, <2>8, <2>9, <2>10 DEF End
  <1>3. CASE Report
    <2>1. CASE CleanupStaging
      BY <2>1 DEF CleanupStaging
    <2>2. CASE FormatReport
      BY <2>2 DEF FormatReport
    <2>3. CASE WriteResult
      BY <2>3 DEF WriteResult
    <2>4. CASE WriteFails
      BY <2>4 DEF WriteFails
    <2>5. CASE RenderInterrupt
      <3>1. blamed_start' \in BOOLEAN
        BY <2>5 DEF RenderInterrupt
      <3>2. QED
        BY <2>5, <3>1 DEF RenderInterrupt
    <2>6. CASE CloseLog
      BY <2>6 DEF CloseLog
    <2>7. QED
      BY <1>3, <2>1, <2>2, <2>3, <2>4, <2>5, <2>6 DEF Report
  <1>4. CASE Interrupt
    <2>1. CASE InterruptSetup
      BY <2>1 DEF InterruptSetup, Signal
    <2>2. CASE InterruptWork
      BY <2>2 DEF InterruptWork
    <2>3. CASE InterruptTeardown
      BY <2>3 DEF InterruptTeardown, Signal
    <2>4. CASE InterruptClose
      <3>1. locked' \in BOOLEAN /\ unreleased' \in BOOLEAN
        BY <2>4 DEF InterruptClose, Signal, DropSession
      <3>2. QED
        BY <2>4, <3>1 DEF InterruptClose, Signal, DropSession
    <2>5. CASE InterruptDiscard
      <3>1. dropped' \in BOOLEAN
        BY <2>5 DEF InterruptDiscard, Signal, SettleOn
      <3>2. QED
        BY <2>5, <3>1 DEF InterruptDiscard, Signal, SettleOn
    <2>6. CASE InterruptSettlement
      BY <2>6 DEF InterruptSettlement, Signal
    <2>7. CASE InterruptCleanup
      BY <2>7 DEF InterruptCleanup, Signal
    <2>8. CASE InterruptReport
      BY <2>8 DEF InterruptReport, Signal
    <2>9. CASE InterruptWrite
      BY <2>9 DEF InterruptWrite, Signal
    <2>10. CASE InterruptRender
      BY <2>10 DEF InterruptRender, Signal
    <2>11. QED
      BY <1>4, <2>1, <2>2, <2>3, <2>4, <2>5, <2>6, <2>7, <2>8, <2>9, <2>10 DEF Interrupt
  <1>5. QED
    BY <1>1, <1>2, <1>3, <1>4 DEF Next

-----------------------------------------------------------------------------
\* Setting up, connecting, locking and working.
LEMMA RunKeeps ==
  ASSUME OutcomeAssumption, IInv, Run, Flags'
  PROVE  IInv'
  <1> USE OutcomeAssumption
      DEF IInv, TypeOK, Flags, TeardownSendsNoSql, RecordInv, ControlInv, ReportInv,
          Outcome, Chosen, LatchExit, Goto, Steps, PlainCodes, LatchStates, ExitCodes,
          envVars, engineVars, connVars, runVars, resultVars, teardownVars
  <1>1. CASE EnterEngine
    BY <1>1 DEF EnterEngine
  <1>2. ASSUME NEW c \in {"USAGE", "VALIDATION"}, SetupRejected(c) PROVE IInv'
    BY <1>2 DEF SetupRejected
  <1>3. CASE ReportFailure
    BY <1>3 DEF ReportFailure
  <1>4. CASE BeginRun
    BY <1>4 DEF BeginRun
  <1>5. CASE Connect
    BY <1>5 DEF Connect
  <1>6. CASE AcquireLock
    BY <1>6 DEF AcquireLock
  <1>7. CASE WorkDone
    BY <1>7 DEF WorkDone
  <1>8. ASSUME NEW e \in PlainCodes \cup {"internal"}, NEW l \in LatchStates, WorkFails(e, l) PROVE IInv'
    BY <1>8 DEF WorkFails
  <1>9. QED
    BY <1>1, <1>2, <1>3, <1>4, <1>5, <1>6, <1>7, <1>8 DEF Run

\* Recording the outcome and giving up the connection.
LEMMA EndKeeps ==
  ASSUME OutcomeAssumption, IInv, End, Flags'
  PROVE  IInv'
  <1> USE OutcomeAssumption
      DEF IInv, TypeOK, Flags, TeardownSendsNoSql, RecordInv, ControlInv, ReportInv,
          Outcome, Chosen, LatchExit, Goto, Steps, PlainCodes, LatchStates, ExitCodes,
          envVars, engineVars, connVars, runVars, resultVars, teardownVars
  <1>1. CASE RecordOk
    BY <1>1 DEF RecordOk, Record
  <1>2. CASE Terminate
    BY <1>2 DEF Terminate, Record, TeardownFor
  <1>3. CASE RollbackQuietly
    BY <1>3 DEF RollbackQuietly, SendSql
  <1>4. CASE CloseConnection
    BY <1>4 DEF CloseConnection, SendSql
  <1>5. CASE DiscardQuietly
    BY <1>5 DEF DiscardQuietly, DropSession
  <1>6. CASE NoteDiscarded
    BY <1>6 DEF NoteDiscarded
  <1>7. CASE ReturnReport
    BY <1>7 DEF ReturnReport
  <1>8. CASE SettleDiscard
    BY <1>8 DEF SettleDiscard, DropSession, SettleOn
  <1>9. CASE SettleFail
    BY <1>9 DEF SettleFail, Record
  <1>10. CASE SettleEnd
    BY <1>10 DEF SettleEnd
  <1>11. QED
    BY <1>1, <1>2, <1>3, <1>4, <1>5, <1>6, <1>7, <1>8, <1>9, <1>10 DEF End

\* Cleanup and the report.
LEMMA ReportKeeps ==
  ASSUME OutcomeAssumption, IInv, Report, Flags'
  PROVE  IInv'
  <1> USE OutcomeAssumption
      DEF IInv, TypeOK, Flags, TeardownSendsNoSql, RecordInv, ControlInv, ReportInv,
          Outcome, Chosen, LatchExit, Goto, Steps, PlainCodes, LatchStates, ExitCodes,
          envVars, engineVars, connVars, runVars, resultVars, teardownVars
  <1>1. CASE CleanupStaging
    BY <1>1 DEF CleanupStaging
  <1>2. CASE FormatReport
    BY <1>2 DEF FormatReport
  <1>3. CASE WriteResult
    BY <1>3 DEF WriteResult
  <1>4. CASE WriteFails
    BY <1>4 DEF WriteFails
  <1>5. CASE RenderInterrupt
    BY <1>5 DEF RenderInterrupt, InterruptExit
  <1>6. CASE CloseLog
    BY <1>6 DEF CloseLog
  <1>7. QED
    BY <1>1, <1>2, <1>3, <1>4, <1>5, <1>6 DEF Report

\* Signals.
LEMMA InterruptKeeps ==
  ASSUME OutcomeAssumption, IInv, Interrupt, Flags'
  PROVE  IInv'
  <1> USE OutcomeAssumption
      DEF IInv, TypeOK, Flags, TeardownSendsNoSql, RecordInv, ControlInv, ReportInv,
          Outcome, Chosen, LatchExit, Goto, Steps, PlainCodes, LatchStates, ExitCodes,
          envVars, engineVars, connVars, runVars, resultVars, teardownVars
  <1>1. CASE InterruptSetup
    BY <1>1 DEF InterruptSetup, Signal
  <1>2. CASE InterruptWork
    BY <1>2 DEF InterruptWork
  <1>3. CASE InterruptTeardown
    BY <1>3 DEF InterruptTeardown, Signal
  <1>4. CASE InterruptClose
    BY <1>4 DEF InterruptClose, Signal, DropSession
  <1>5. CASE InterruptDiscard
    BY <1>5 DEF InterruptDiscard, Signal, SettleOn
  <1>6. CASE InterruptSettlement
    BY <1>6 DEF InterruptSettlement, Signal
  <1>7. CASE InterruptCleanup
    BY <1>7 DEF InterruptCleanup, Signal
  <1>8. CASE InterruptReport
    BY <1>8 DEF InterruptReport, Signal
  <1>9. CASE InterruptWrite
    BY <1>9 DEF InterruptWrite, Signal
  <1>10. CASE InterruptRender
    BY <1>10 DEF InterruptRender, Signal, InterruptExit
  <1>11. QED
    BY <1>1, <1>2, <1>3, <1>4, <1>5, <1>6, <1>7, <1>8, <1>9, <1>10 DEF Interrupt

\* Every step keeps the invariant.
LEMMA NextIInv ==
  ASSUME IInv, [Next]_vars
  PROVE  IInv'
  <1>1. CASE UNCHANGED vars
    BY <1>1 DEF vars, envVars, engineVars, connVars, runVars, resultVars, teardownVars,
                IInv, TypeOK, TeardownSendsNoSql, RecordInv, ControlInv, ReportInv,
                Outcome, Chosen, LatchExit
  <1>2. CASE Next
    <2>1. Flags'
      BY <1>2, NextFlags DEF IInv, TypeOK, Flags
    <2>2. QED
      BY <1>2, <2>1, OutcomeAssumption, RunKeeps, EndKeeps, ReportKeeps, InterruptKeeps
         DEF Next
  <1>3. QED
    BY <1>1, <1>2

-----------------------------------------------------------------------------
\* THEOREM: the invariant holds of every behaviour, however many signals arrive.
THEOREM InductiveInvariant == Spec => []IInv
  <1>1. Init => IInv
    BY InitIInv
  <1>2. IInv /\ [Next]_vars => IInv'
    BY NextIInv
  <1>3. QED
    BY <1>1, <1>2, PTL DEF Spec

\* THEOREM: the first outcome the engine recorded is the exit status, unless the
\* result cannot be written (_fail, _interrupt_exit, _render_interrupt).
THEOREM RecordedOutcomeStaysHolds == Spec => []RecordedOutcomeStays
  <1>1. IInv => RecordedOutcomeStays
    BY DEF IInv, TypeOK, RecordInv, ControlInv, ReportInv, Outcome, RecordedOutcomeStays
  <1>2. QED
    BY <1>1, InductiveInvariant, PTL

\* THEOREM: a latched failure decides the exit status even when signals keep the
\* engine from recording it (Engine._terminate, cli._interrupt_exit).
THEOREM LatchDecidesExitHolds == Spec => []LatchDecidesExit
  <1>1. IInv => LatchDecidesExit
    BY DEF IInv, TypeOK, RecordInv, ControlInv, ReportInv, Outcome, Chosen, LatchDecidesExit
  <1>2. QED
    BY <1>1, InductiveInvariant, PTL

\* THEOREM: exit 0 is given only when every unit of the plan is applied.
THEOREM ExitZeroIsTrueHolds == Spec => []ExitZeroIsTrue
  <1>1. IInv => ExitZeroIsTrue
    BY DEF IInv, TypeOK, LatchStates, RecordInv, ReportInv, Outcome, Chosen, LatchExit,
           ExitZeroIsTrue
  <1>2. QED
    BY <1>1, InductiveInvariant, PTL

\* THEOREM: teardown sends no SQL after an unknown outcome, on any path.
THEOREM TeardownSendsNoSqlHolds == Spec => []TeardownSendsNoSql
  <1>1. IInv => TeardownSendsNoSql
    BY DEF IInv
  <1>2. QED
    BY <1>1, InductiveInvariant, PTL

\* THEOREM: the result is written at most once, and blames the start of the run
\* only if the engine was never entered.
THEOREM ReportedOnceHolds == Spec => []ReportedOnce
  <1>1. IInv => ReportedOnce
    BY DEF IInv, ReportInv, ReportedOnce
  <1>2. QED
    BY <1>1, InductiveInvariant, PTL
=============================================================================
