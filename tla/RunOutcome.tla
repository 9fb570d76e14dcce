----------------------------- MODULE RunOutcome -----------------------------
(***************************************************************************)
(* How one `migr8 migrate` process ends: Engine.run from its start to its  *)
(* report (engine.py), the command around it (cli.py), and the close and   *)
(* discard of the adapter's connection.  What the run does to the database *)
(* is one step here (module MigrateRun has its detail); what can interrupt *)
(* the process is a signal, SIGINT, SIGTERM or SIGHUP, raised in the main  *)
(* thread wherever it happens to be: in the work, in the recording of the  *)
(* outcome, in the rollback, close or discard, in the removal of the       *)
(* staging directory, while the report is written, and in the handlers of  *)
(* earlier signals.                                                        *)
(***************************************************************************)
EXTENDS Naturals

CONSTANTS
    Adapters,       \* subset of {"sqlite", "postgres", "oracle"} to explore
    MaxInterrupts   \* bound: signals that arrive

ASSUME OutcomeAssumption ==
    /\ Adapters \subseteq {"sqlite", "postgres", "oracle"}
    /\ MaxInterrupts \in Nat

VARIABLES
    adapter,        \* the engine the run is configured for
    pc,             \* where the main thread is: Steps
    error,          \* what ended the work: an exit code, "interrupt", "internal"
    \* --- Engine
    latch,          \* RunLatch state
    reported,       \* Engine._reported
    code,           \* report.exit_code
    discarded,      \* report.connection_discarded
    conn,           \* Adapter.connection_held
    connected,      \* the local of Engine._run
    locked,         \* this session holds the namespace lock
    dropped,        \* the settlement found a connection to discard
    \* --- cli
    engine,         \* _MigrateRun.engine is set
    run_report,     \* _MigrateRun.report is set
    exit_code,      \* _MigrateRun.exit_code, "NONE" when None
    propagating,    \* a KeyboardInterrupt is on its way from Engine.run to main
    tries,          \* interrupted attempts of the retry loop pc is in
    result,         \* exit status of the process
    \* --- the environment, and what happened
    interrupts,     \* signals left
    applied,        \* every unit of the plan is durably successful
    recorded,       \* the first outcome the engine recorded
    unreleased,     \* an interrupt made the session end without releasing its lock
    late,           \* SQL was sent after an unknown outcome
    writes,         \* results put on the output streams
    write_failed,   \* writing the result failed
    blamed_start    \* the result says no migration work ever began

engineVars == <<latch, reported, code, discarded, recorded>>
connVars   == <<conn, connected, locked, unreleased, late>>
teardownVars == <<dropped, tries>>
runVars    == <<engine, run_report, exit_code, propagating>>
resultVars == <<result, writes, write_failed, blamed_start>>
envVars    == <<adapter, interrupts, applied>>
vars == <<envVars, pc, error, engineVars, connVars, runVars, resultVars, teardownVars>>

Steps == {"setup", "failing", "enter", "work", "ended", "decide", "rollback", "close",
          "close_discard", "note", "discard", "finish", "settle", "settle_fail",
          "settle_end", "cleanup", "format", "write", "render", "log", "exited"}

\* Exit codes of errors raised as such, that latch nothing.
PlainCodes == {"USAGE", "VALIDATION", "MIGRATION_FAILED", "LOCK_NOT_ACQUIRED",
               "METADATA_DAMAGED"}
LatchStates == {"OPEN", "UNKNOWN_OUTCOME", "CONTRACT_VIOLATION", "BATCH_FAILED"}
ExitCodes == PlainCodes \cup {"OK", "UNKNOWN_OUTCOME", "CONTRACT_VIOLATION"}

TypeOK ==
    /\ adapter \in Adapters
    /\ pc \in Steps
    /\ error \in PlainCodes \cup {"none", "interrupt", "internal"}
    /\ latch \in LatchStates
    /\ reported \in BOOLEAN /\ discarded \in BOOLEAN /\ connected \in BOOLEAN
    /\ code \in ExitCodes
    /\ recorded \in ExitCodes \cup {"NONE"}
    /\ conn \in {"none", "held"} /\ locked \in BOOLEAN /\ dropped \in BOOLEAN
    /\ engine \in BOOLEAN /\ run_report \in BOOLEAN /\ propagating \in BOOLEAN
    /\ exit_code \in ExitCodes \cup {"NONE"}
    /\ result \in ExitCodes \cup {"NONE", "ESCAPED"}
    /\ tries \in 0..2
    /\ interrupts \in 0..MaxInterrupts
    /\ writes \in Nat
    /\ applied \in BOOLEAN /\ unreleased \in BOOLEAN /\ late \in BOOLEAN
    /\ write_failed \in BOOLEAN /\ blamed_start \in BOOLEAN

Init ==
    /\ adapter \in Adapters
    /\ pc = "setup" /\ error = "none"
    /\ latch = "OPEN" /\ reported = FALSE /\ code = "OK" /\ discarded = FALSE
    /\ conn = "none" /\ connected = FALSE /\ locked = FALSE
    /\ dropped = FALSE
    /\ engine = FALSE /\ run_report = FALSE /\ exit_code = "NONE"
    /\ propagating = FALSE /\ tries = 0 /\ result = "NONE"
    /\ interrupts = MaxInterrupts
    /\ applied = FALSE /\ recorded = "NONE" /\ unreleased = FALSE /\ late = FALSE
    /\ writes = 0 /\ write_failed = FALSE /\ blamed_start = FALSE

-----------------------------------------------------------------------------
\* Go on at step.
Goto(step) == pc' = step /\ tries' = 0 /\ UNCHANGED dropped

SendSql == late' = (late \/ latch = "UNKNOWN_OUTCOME")

\* Mutated form: the failed-batch latch has no exit code of its own.
LatchExit_Raw == latch

\* Error.exit_code of the latched error.
LatchExit == IF latch = "BATCH_FAILED" THEN "MIGRATION_FAILED" ELSE latch

\* latch.error if there is one, else the code of what arrived.
Chosen(plain) == IF latch = "OPEN" THEN plain ELSE LatchExit

\* Mutated form: the outcome counts as recorded only when teardown is over.
Record_Late(c, drop) ==
    /\ code' = c
    /\ discarded' = drop
    /\ recorded' = IF recorded = "NONE" THEN c ELSE recorded
    /\ UNCHANGED <<reported, latch>>

\* _fail, and the end of _run: the report holds the outcome.
Record(c, drop) ==
    /\ code' = c
    /\ discarded' = drop
    /\ reported' = TRUE
    /\ recorded' = IF recorded = "NONE" THEN c ELSE recorded
    /\ UNCHANGED latch

-----------------------------------------------------------------------------
(***************************************************************************)
(* The command up to the engine, and the engine's work                     *)
(***************************************************************************)

\* _load, load_manifest, stage and Engine(): the engine is entered.
EnterEngine ==
    /\ pc = "setup"
    /\ engine' = TRUE
    /\ Goto("enter")
    /\ UNCHANGED <<envVars, error, engineVars, connVars, run_report, exit_code,
                   propagating, resultVars>>

\* Configuration, manifest or staging is rejected before the engine exists.
SetupRejected(c) ==
    /\ c \in {"USAGE", "VALIDATION"}
    /\ pc = "setup"
    /\ result' = c
    /\ Goto("failing")
    /\ UNCHANGED <<envVars, error, engineVars, connVars, runVars, writes,
                   write_failed, blamed_start>>

\* main logs and writes that failure.
ReportFailure ==
    /\ pc = "failing"
    /\ writes' = writes + 1
    /\ Goto("log")
    /\ UNCHANGED <<envVars, error, engineVars, connVars, runVars, result,
                   write_failed, blamed_start>>

\* _run passes its start event.
BeginRun ==
    /\ pc = "enter"
    /\ Goto("work")
    /\ UNCHANGED <<envVars, error, engineVars, connVars, runVars, resultVars>>

\* adapter.connect takes a connection; it returns when the session is set up.
Connect ==
    /\ pc = "work" /\ ~connected
    /\ \/ conn = "none" /\ conn' = "held" /\ UNCHANGED connected
       \/ conn = "held" /\ connected' = TRUE /\ UNCHANGED conn
    /\ UNCHANGED <<envVars, pc, error, engineVars, locked, unreleased, late,
                   runVars, resultVars, teardownVars>>

AcquireLock ==
    /\ pc = "work" /\ connected /\ ~locked
    /\ locked' = TRUE
    /\ UNCHANGED <<envVars, pc, error, engineVars, conn, connected, unreleased,
                   late, runVars, resultVars, teardownVars>>

\* _execute returns: every pending unit is durable.
WorkDone ==
    /\ pc = "work" /\ locked
    /\ applied' = TRUE
    /\ Goto("ended")
    /\ UNCHANGED <<adapter, error, engineVars, connVars, runVars, resultVars,
                   interrupts>>

\* An error ends the work; it may have been latched on its way.  A connect
\* that fails gives up its connection itself.
WorkFails(e, l) ==
    /\ pc = "work"
    /\ connected \/ l = "OPEN"
    /\ error' = e
    /\ latch' = l
    /\ conn' = IF connected THEN conn ELSE "none"
    /\ Goto("decide")
    /\ UNCHANGED <<envVars, reported, code, discarded, recorded, connected, locked,
                   unreleased, late, runVars, resultVars>>

-----------------------------------------------------------------------------
(***************************************************************************)
(* Engine: recording the outcome and giving up the connection              *)
(***************************************************************************)

RecordOk ==
    /\ pc = "ended"
    /\ Record("OK", FALSE)
    /\ Goto("close")
    /\ UNCHANGED <<envVars, error, connVars, runVars, resultVars>>

\* Mutated form: the connection is closed whatever the outcome.
TeardownFor_Close(c) == IF connected /\ c # "OK" THEN "close" ELSE "finish"

\* After an unknown outcome the connection is discarded; after an interrupt or
\* an unexpected failure it is rolled back first, otherwise just closed.
TeardownFor(c) ==
    IF ~connected THEN "finish"
    ELSE IF c = "UNKNOWN_OUTCOME" THEN "discard"
    ELSE IF error \in PlainCodes \/ latch # "OPEN" THEN "close"
    ELSE "rollback"

\* _terminate and _handle_interruption: the latch, then the exception, decide
\* the code, and the code decides between discard and close.
Terminate ==
    LET c == Chosen(IF error \in PlainCodes THEN error ELSE "MIGRATION_FAILED")
    IN /\ pc = "decide"
       /\ Record(c, c = "UNKNOWN_OUTCOME")
       /\ Goto(TeardownFor(c))
       /\ UNCHANGED <<envVars, error, connVars, runVars, resultVars>>

RollbackQuietly ==
    /\ pc = "rollback"
    /\ SendSql
    /\ Goto("close")
    /\ UNCHANGED <<envVars, error, engineVars, conn, connected, locked, unreleased,
                   runVars, resultVars>>

\* adapter.close: roll back, release the lock, close; or it fails with an
\* error that is only logged (SQLite then keeps the connection).
CloseConnection ==
    /\ pc = "close"
    /\ SendSql
    /\ \/ conn' = "none" /\ locked' = FALSE
       \/ conn' = (IF adapter = "sqlite" THEN conn ELSE "none") /\ UNCHANGED locked
    /\ Goto("finish")
    /\ UNCHANGED <<envVars, error, engineVars, connected, unreleased, runVars,
                   resultVars>>

\* The session is dropped without SQL.  SQLite's lock is a file lock of this
\* process and is released; elsewhere the server keeps it for a while.
DropSession ==
    /\ conn' = "none"
    /\ locked' = (locked /\ adapter # "sqlite")
    /\ unreleased' = (unreleased \/ (conn = "held" /\ locked'))
    /\ UNCHANGED <<connected, late>>

\* _discard_quietly, from an interrupted close or after an unknown outcome.
DiscardQuietly ==
    /\ pc \in {"close_discard", "discard"}
    /\ DropSession
    /\ Goto(IF pc = "close_discard" THEN "note" ELSE "finish")
    /\ UNCHANGED <<envVars, error, engineVars, runVars, resultVars>>

\* _note_discarded.
NoteDiscarded ==
    /\ pc = "note"
    /\ discarded' = TRUE
    /\ Goto("finish")
    /\ UNCHANGED <<envVars, error, latch, reported, code, recorded, connVars,
                   runVars, resultVars>>

\* Engine.run returns its report to the command.
ReturnReport ==
    /\ pc = "finish"
    /\ run_report' = TRUE
    /\ Goto("cleanup")
    /\ UNCHANGED <<envVars, error, engineVars, connVars, engine, exit_code,
                   propagating, resultVars>>

\* The settlement's discard is over; what it found held is remembered.
SettleOn ==
    /\ dropped' = (conn = "held")
    /\ pc' = IF reported THEN "settle_end" ELSE "settle_fail"
    /\ tries' = 0

\* _settle_interrupted_teardown: discard what is still held ...
SettleDiscard ==
    /\ pc = "settle"
    /\ DropSession
    /\ SettleOn
    /\ UNCHANGED <<envVars, error, engineVars, runVars, resultVars>>

\* ... and record an outcome if there is none yet ...
SettleFail ==
    /\ pc = "settle_fail"
    /\ Record(Chosen("MIGRATION_FAILED"),
              dropped \/ Chosen("MIGRATION_FAILED") = "UNKNOWN_OUTCOME")
    /\ Goto("settle_end")
    /\ UNCHANGED <<envVars, error, connVars, runVars, resultVars>>

\* ... and return the report, with a note of the discard.
SettleEnd ==
    /\ pc = "settle_end"
    /\ discarded' = (discarded \/ dropped)
    /\ run_report' = TRUE
    /\ Goto("cleanup")
    /\ UNCHANGED <<envVars, error, latch, reported, code, recorded, connVars,
                   engine, exit_code, propagating, resultVars>>

-----------------------------------------------------------------------------
(***************************************************************************)
(* The command: staging cleanup and the one report                         *)
(***************************************************************************)

CleanupStaging ==
    /\ pc = "cleanup"
    /\ Goto(IF propagating THEN "render" ELSE "format")
    /\ UNCHANGED <<envVars, error, engineVars, connVars, runVars, resultVars>>

\* _render_run_report up to the write: the exit code is settled first.
FormatReport ==
    /\ pc = "format"
    /\ exit_code' = code
    /\ Goto("write")
    /\ UNCHANGED <<envVars, error, engineVars, connVars, engine, run_report,
                   propagating, resultVars>>

\* _write and the return of the exit code.
WriteResult ==
    /\ pc = "write"
    /\ writes' = writes + 1
    /\ result' = exit_code
    /\ Goto("log")
    /\ UNCHANGED <<envVars, error, engineVars, connVars, runVars, write_failed,
                   blamed_start>>

\* The stream rejects the result: main's fallback, or the interpreter, exits 1.
WriteFails ==
    /\ pc = "write"
    /\ write_failed' = TRUE
    /\ result' = "USAGE"
    /\ Goto("log")
    /\ UNCHANGED <<envVars, error, engineVars, connVars, runVars, writes,
                   blamed_start>>

\* Mutated form: the report is used although it holds no outcome yet.
InterruptExit_Report == IF engine THEN code ELSE "MIGRATION_FAILED"

\* Mutated form: what is latched is forgotten outside the engine.
InterruptExit_Unlatched == IF run_report \/ reported THEN code ELSE "MIGRATION_FAILED"

\* _interrupt_exit: the recorded outcome, else the latched one, else exit 3.
InterruptExit == IF run_report \/ reported THEN code ELSE Chosen("MIGRATION_FAILED")

\* Mutated form: an interrupt that reaches main is always rendered afresh.
RenderInterrupt_Again ==
    /\ pc = "render"
    /\ exit_code' = InterruptExit
    /\ blamed_start' = ~engine
    /\ Goto("write")
    /\ UNCHANGED <<envVars, error, engineVars, connVars, engine, run_report,
                   propagating, result, writes, write_failed>>

\* _render_interrupt: nothing more is written once a result was settled.
RenderInterrupt ==
    /\ pc = "render"
    /\ IF exit_code # "NONE"
       THEN /\ result' = exit_code
            /\ Goto("log")
            /\ UNCHANGED <<exit_code, blamed_start>>
       ELSE /\ exit_code' = InterruptExit
            /\ blamed_start' = ~engine
            /\ Goto("write")
            /\ UNCHANGED result
    /\ UNCHANGED <<envVars, error, engineVars, connVars, engine, run_report,
                   propagating, writes, write_failed>>

CloseLog ==
    /\ pc = "log"
    /\ Goto("exited")
    /\ UNCHANGED <<envVars, error, engineVars, connVars, runVars, resultVars>>

-----------------------------------------------------------------------------
(***************************************************************************)
(* Signals: a KeyboardInterrupt, raised where the main thread is           *)
(***************************************************************************)

Signal ==
    /\ interrupts > 0
    /\ interrupts' = interrupts - 1
    /\ UNCHANGED <<adapter, applied>>

\* Before the engine: straight to main's handler; in main's handler of a
\* rejected setup: out of main.
InterruptSetup ==
    /\ pc \in {"setup", "failing"}
    /\ Signal
    /\ IF pc = "setup" THEN Goto("render") /\ UNCHANGED result
                       ELSE Goto("log") /\ result' = "ESCAPED"
    /\ UNCHANGED <<error, engineVars, connVars, runVars, writes, write_failed,
                   blamed_start>>

\* In the work: latched as unknown inside a call that can commit, which may
\* have been the last one.  An interrupted connect gives up its connection,
\* unless it was about to return.
InterruptWork ==
    /\ pc = "work"
    /\ interrupts > 0 /\ interrupts' = interrupts - 1
    /\ \/ UNCHANGED <<latch, applied>>
       \/ locked /\ latch' = "UNKNOWN_OUTCOME" /\ applied' \in BOOLEAN
    /\ conn' \in {conn} \cup (IF connected THEN {} ELSE {"none"})
    /\ error' = "interrupt"
    /\ Goto("decide")
    /\ UNCHANGED <<adapter, reported, code, discarded, recorded, connected, locked,
                   unreleased, late, runVars, resultVars>>

\* In Engine.run outside its try block, or in its teardown: run settles.
InterruptTeardown ==
    /\ pc \in {"enter", "ended", "decide", "rollback", "close_discard", "note",
               "discard", "finish"}
    /\ Signal
    /\ Goto("settle")
    /\ UNCHANGED <<error, engineVars, connVars, runVars, resultVars>>

\* In adapter.close.  PostgreSQL's and Oracle's drop the connection on the
\* way out, so _discard_quietly finds none held; otherwise it may have one to
\* drop.
InterruptClose ==
    /\ pc = "close"
    /\ Signal
    /\ \/ /\ adapter # "sqlite" /\ DropSession /\ Goto("finish")
       \/ /\ conn' = "none" /\ locked' = FALSE          \* it was over already
          /\ Goto("finish")
          /\ UNCHANGED <<connected, unreleased, late>>
       \/ /\ Goto(IF conn = "held" THEN "close_discard" ELSE "finish")
          /\ UNCHANGED connVars
    /\ UNCHANGED <<error, engineVars, runVars, resultVars>>

\* In a discard: tried twice, then abandoned.
InterruptDiscard ==
    /\ pc \in {"close_discard", "discard", "settle"}
    /\ Signal
    /\ IF tries = 0 THEN tries' = 1 /\ UNCHANGED <<pc, dropped>>
       ELSE IF pc = "settle" THEN SettleOn
       ELSE Goto(IF pc = "close_discard" THEN "note" ELSE "finish")
    /\ UNCHANGED <<error, engineVars, connVars, runVars, resultVars>>

\* In the settlement itself: out of Engine.run, past the staging cleanup.
InterruptSettlement ==
    /\ pc \in {"settle", "settle_fail", "settle_end"}
    /\ Signal
    /\ propagating' = TRUE
    /\ Goto("cleanup")
    /\ UNCHANGED <<error, engineVars, connVars, engine, run_report, exit_code,
                   resultVars>>

\* In the cleanup: tried twice, then the directory is left behind.
InterruptCleanup ==
    /\ pc = "cleanup"
    /\ Signal
    /\ IF tries = 0 THEN tries' = 1 /\ UNCHANGED <<pc, dropped>>
                    ELSE Goto(IF propagating THEN "render" ELSE "format")
    /\ UNCHANGED <<error, engineVars, connVars, runVars, resultVars>>

\* While the report is put together, or just before or after the write: main's
\* handler.
InterruptReport ==
    /\ pc \in {"format", "write"}
    /\ Signal
    /\ Goto("render")
    /\ writes' \in {writes} \cup (IF pc = "write" THEN {writes + 1} ELSE {})
    /\ UNCHANGED <<error, engineVars, connVars, runVars, result, write_failed,
                   blamed_start>>

\* In the write: it stops, and what was settled stands.
InterruptWrite ==
    /\ pc = "write"
    /\ Signal
    /\ writes' = writes + 1
    /\ result' = exit_code
    /\ Goto("log")
    /\ UNCHANGED <<error, engineVars, connVars, runVars, write_failed,
                   blamed_start>>

\* In main's handler: once more, then without writing.
InterruptRender ==
    /\ pc = "render"
    /\ Signal
    /\ IF tries = 0
       THEN tries' = 1 /\ UNCHANGED <<pc, dropped, result>>
       ELSE /\ result' = IF exit_code # "NONE" THEN exit_code ELSE InterruptExit
            /\ Goto("log")
    /\ UNCHANGED <<error, engineVars, connVars, runVars, writes, write_failed,
                   blamed_start>>

Run ==
    \/ EnterEngine
    \/ \E c \in {"USAGE", "VALIDATION"} : SetupRejected(c)
    \/ ReportFailure \/ BeginRun \/ Connect \/ AcquireLock \/ WorkDone
    \/ \E e \in PlainCodes \cup {"internal"}, l \in LatchStates : WorkFails(e, l)

End ==
    \/ RecordOk \/ Terminate \/ RollbackQuietly \/ CloseConnection \/ DiscardQuietly
    \/ NoteDiscarded \/ ReturnReport \/ SettleDiscard \/ SettleFail \/ SettleEnd

Report ==
    \/ CleanupStaging \/ FormatReport \/ WriteResult \/ WriteFails \/ RenderInterrupt
    \/ CloseLog

Interrupt ==
    \/ InterruptSetup \/ InterruptWork \/ InterruptTeardown \/ InterruptClose
    \/ InterruptDiscard \/ InterruptSettlement \/ InterruptCleanup \/ InterruptReport
    \/ InterruptWrite \/ InterruptRender

Next == Run \/ End \/ Report \/ Interrupt

Spec == Init /\ [][Next]_vars

-----------------------------------------------------------------------------
(***************************************************************************)
(* Properties                                                              *)
(***************************************************************************)

\* The first outcome the engine recorded is the one the process exits with,
\* however many signals arrive in teardown, cleanup and reporting; only a
\* result that cannot be written exits 1 instead.
RecordedOutcomeStays ==
    /\ reported => code = recorded
    /\ pc = "exited" /\ recorded # "NONE" => result = IF write_failed THEN "USAGE"
                                                                     ELSE recorded

\* A latched failure decides the exit status even when the signals keep the
\* engine from ever recording an outcome.
LatchDecidesExit ==
    pc = "exited" /\ latch # "OPEN" /\ ~write_failed => result = LatchExit

\* Exit 0 is the status of a run that applied everything, and only of one.
ExitZeroIsTrue == pc = "exited" /\ result = "OK" => applied

\* No rollback, lock release or other SQL once an outcome is unknown: every
\* path through teardown discards the connection.
TeardownSendsNoSql == ~late

\* The result is on the output streams at most once, and says that no work
\* ever began only if the engine was never entered.
ReportedOnce == writes <= 1 /\ (blamed_start => ~engine)

\* The outcome this process has come to so far, reported or not.
Outcome == IF reported THEN code ELSE Chosen("MIGRATION_FAILED")

\* What the engine recorded: the first outcome, which the latch decides if there
\* is one, and success only when everything is applied.
RecordInv ==
    /\ reported <=> recorded # "NONE"
    /\ reported => code = recorded
    /\ reported /\ latch # "OPEN" => code = LatchExit
    /\ reported /\ code = "OK" => applied
    /\ run_report => reported

\* What is settled where the main thread is.
ControlInv ==
    /\ pc \in {"setup", "failing", "enter", "work", "ended", "decide", "settle_fail"}
          => ~reported
    /\ pc \in {"rollback", "close", "close_discard", "note", "discard", "finish",
               "settle_end"} => reported
    /\ pc \in {"setup", "failing", "enter", "work", "ended"} => latch = "OPEN"
    /\ pc = "ended" => applied
    /\ pc \in {"rollback", "close"} => latch # "UNKNOWN_OUTCOME"
    /\ pc = "cleanup" => run_report \/ propagating
    /\ pc = "format" => run_report
    /\ pc \in {"setup", "failing"} => ~engine
    /\ ~engine => pc \in {"setup", "failing", "render", "write", "log", "exited"}
                  /\ ~reported /\ latch = "OPEN"

\* What the command is about to report, or has reported, is that outcome.
ReportInv ==
    /\ exit_code # "NONE" => pc \in {"write", "render", "log", "exited"}
                              /\ exit_code = Outcome
    /\ pc = "write" => exit_code # "NONE"
    /\ write_failed => pc \in {"log", "exited"}
    /\ writes = 0 \/ (writes = 1 /\ pc \in {"render", "log", "exited"})
    /\ pc = "render" /\ writes = 1 => exit_code # "NONE"
    /\ pc = "setup" => ~blamed_start
    /\ blamed_start => ~engine
    /\ pc = "failing" => result \in {"USAGE", "VALIDATION"}
    /\ pc \in {"log", "exited"} =>
          \/ write_failed /\ result = "USAGE"
          \/ ~write_failed /\ result = Outcome
          \/ ~engine /\ result \in {"USAGE", "VALIDATION", "ESCAPED"}

\* What every step of the run, its teardown, its report and every signal keeps:
\* no SQL follows an unknown outcome, the outcome recorded first is the one that
\* is reported, and it is reported once.
IInv == TypeOK /\ TeardownSendsNoSql /\ RecordInv /\ ControlInv /\ ReportInv

\* A close cut short by a signal, which leaves the namespace lock to the
\* server, shows in the report: "the report says the connection was discarded".
InterruptedCloseReported ==
    pc = "exited" /\ writes > 0 /\ unreleased => discarded
=============================================================================
