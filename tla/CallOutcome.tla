---------------------------- MODULE CallOutcome ----------------------------
(***************************************************************************)
(* One piece of durable work on each engine, call by call: begin, a        *)
(* statement and the commit of an engine-owned transition, or ctx.ddl().   *)
(* The server may refuse, abort, fail in the middle of a commit or fall    *)
(* silent, the process may be interrupted inside a call, and author code   *)
(* may catch a statement's error and go on to the commit.  The operation   *)
(* guard and the adapter's classifier turn what the driver raises into     *)
(* "rejected" (definite, nothing durable) or "unknown".                    *)
(***************************************************************************)
EXTENDS AdapterChoice

VARIABLES
    kind,           \* "transition", "ddl" in a transaction of its own, or "bare"
                    \* ddl: Oracle's, and CONCURRENTLY on PostgreSQL
    step,           \* the call in progress; see CallTypeOK
    callTxn,        \* the server's transaction: "none", "open" or "aborted"
    work,           \* it holds the work
    request,        \* the commit-capable request: see CallTypeOK
    durable,        \* the work is in the database
    answer,         \* what the operation guard gave its caller
    error,          \* what the failed call raised, "none" without one
    later,          \* ghost: SQL was sent although an outcome was in doubt
    again           \* the caller caught a rejection and made another call

callVars ==
    <<adapter, kind, step, callTxn, work, request, durable, answer, error, later, again>>

Kinds ==
    CASE adapter = "sqlite"   -> {"transition", "ddl"}
      [] adapter = "postgres" -> {"transition", "ddl", "bare"}
      [] adapter = "oracle"   -> {"transition", "bare"}

CallInit ==
    /\ adapter \in Adapters /\ kind \in Kinds
    /\ step = "begin" /\ callTxn = "none" /\ work = FALSE
    /\ request = "unsent" /\ durable = FALSE /\ answer = "none"
    /\ error = "none" /\ later = FALSE /\ again = FALSE

-----------------------------------------------------------------------------
(* What a driver may raise *)

\* Errors that say the server refused, and client-side refusals before anything
\* is sent.  SQLite's busy, locked and constraint codes, an ordinary SQLSTATE or
\* ORA code; query_canceled; PostgreSQL's 25P02.
Refusals ==
    CASE adapter = "sqlite"   -> {"settled_code"}
      [] adapter = "postgres" -> {"sqlstate", "query_canceled", "client_side"}
      [] adapter = "oracle"   -> {"ora_code", "client_dpy"}

\* Errors a server or a driver may report on either side of the commit point.
Doubts ==
    CASE adapter = "sqlite"   -> {"storage_code"}
      [] adapter = "postgres" -> {"class_08", "40003", "class_57_58_XX", "no_sqlstate"}
      [] adapter = "oracle"   -> {"transport_ora", "session_dead", "other_dpy"}

\* An interruption is a BaseException that is no Exception.
Errors == Refusals \union Doubts \union {"interrupted"}

-----------------------------------------------------------------------------
(* Classification *)

\* SqliteAdapter.classify_exception: every sqlite3.Error is definite, but
\* _do_commit raises CommitOutcomeUnknown, which is none, for a storage error.
SqliteDefinite(e, during) == e = "settled_code" \/ during # "commit"

\* PostgresAdapter._classify: classes 57, 58 and XX settle only a call that
\* could not commit; class 08, 40003 and an error without a SQLSTATE settle none.
PostgresDefinite(e, capable) ==
    e \in Refusals \/ (e = "class_57_58_XX" /\ ~capable)

\* OracleAdapter.classify_exception: the session-dead test comes before the code.
OracleDefinite(e) == e \in Refusals

\* classify_call_failure is SERVER_REJECTION.
Definite(e, during, capable) ==
    CASE adapter = "sqlite"   -> SqliteDefinite(e, during)
      [] adapter = "postgres" -> PostgresDefinite(e, capable)
      [] adapter = "oracle"   -> OracleDefinite(e)

\* Adapter.guarded: an interruption outside a commit-capable call is ordinary.
Guarded(e, during, capable) ==
    IF e = "interrupted" THEN (IF capable THEN "unknown" ELSE "rejected")
    ELSE IF Definite(e, during, capable) THEN "rejected" ELSE "unknown"

-----------------------------------------------------------------------------
(* The calls *)

\* ctx.ddl() runs under a guard of its own that is commit-capable, around
\* whatever the calls inside raise.
Capable(during) == during = "commit" \/ kind \in {"ddl", "bare"}

FailCall(e, during) ==
    /\ answer' = Guarded(e, during, Capable(during))
    /\ error' = e /\ step' = "done"

BeginCall ==
    /\ step = "begin" /\ kind # "bare"
    /\ \/ callTxn' = "open" /\ step' = "statement" /\ UNCHANGED <<answer, error>>
       \/ \E e \in Errors : FailCall(e, "begin") /\ UNCHANGED callTxn
    /\ UNCHANGED <<adapter, kind, work, request, durable, later, again>>

Statement ==
    /\ step = "statement" /\ ~work
    /\ work' = TRUE
    /\ UNCHANGED <<adapter, kind, step, callTxn, request, durable, answer, error, later,
                   again>>

\* What the transaction is after a statement in it was refused: PostgreSQL
\* aborts it, INSERT OR ROLLBACK ends it on SQLite.
AfterRefusal ==
    CASE adapter = "postgres" -> {"aborted"}
      [] adapter = "sqlite"   -> {"open", "none"}
      [] adapter = "oracle"   -> {"open"}

\* A later statement of the transition fails, and the author catches the error.
ErrorCaught ==
    /\ step = "statement" /\ kind = "transition" /\ work /\ callTxn = "open"
    /\ callTxn' \in AfterRefusal
    /\ UNCHANGED <<adapter, kind, step, work, request, durable, answer, error, later, again>>

\* Mutant: every failure of the statement is followed by a rollback.
RollsBack_Always(e) == TRUE

\* Adapter.execute_ddl sends a rollback only after a definite rejection, asked
\* of classify_exception; a transition's failure is the engine's to roll back.
RollsBack(e) == kind = "ddl" /\ e # "interrupted" /\ Definite(e, "statement", TRUE)

StatementFails(e) ==
    /\ step = "statement" /\ ~work
    /\ FailCall(e, "statement")
    /\ IF RollsBack(e)
       THEN callTxn' = "none" /\ later' = (e \notin Refusals /\ adapter # "sqlite")
       ELSE UNCHANGED <<callTxn, later>>
    /\ UNCHANGED <<adapter, kind, work, request, durable, again>>

\* Mutant: an aborted transaction is committed like any other.
CommitRefused_Never == FALSE

\* PostgresAdapter._do_commit looks at the transaction's state before it sends
\* COMMIT and at the returned tag after; a COMMIT with no transaction open is
\* SQLite's "no transaction is active".
CommitRefused ==
    \/ adapter = "postgres" /\ callTxn = "aborted"
    \/ adapter = "sqlite" /\ callTxn = "none"

\* durable_commit, or a bare DDL statement, which commits by itself.
Submit ==
    /\ \/ step = "statement" /\ work
       \/ step = "begin" /\ kind = "bare"
    /\ IF kind # "bare" /\ CommitRefused
       THEN step' = "done" /\ answer' = "rejected" /\ UNCHANGED request
       ELSE step' = "commit" /\ request' = "sent" /\ UNCHANGED answer
    /\ UNCHANGED <<adapter, kind, callTxn, work, durable, error, later, again>>

\* The server makes the work durable, refuses it, or rolls an aborted
\* transaction back.  A request already on the wire may be served although its
\* caller is gone; SQLite has no wire.
ServerCommits ==
    /\ request = "sent" /\ (step = "commit" \/ adapter # "sqlite")
    /\ IF kind # "bare" /\ callTxn # "open"
       THEN request' = "rolled_back" /\ UNCHANGED durable
       ELSE request' = "served" /\ durable' = TRUE
    /\ callTxn' = "none"
    /\ UNCHANGED <<adapter, kind, step, work, answer, error, later, again>>

\* A refused COMMIT ends the transaction on PostgreSQL and leaves it open on the
\* others.
ServerRefuses ==
    /\ request = "sent" /\ step = "commit"
    /\ request' = "refused"
    /\ callTxn' = IF adapter = "postgres" THEN "none" ELSE callTxn
    /\ UNCHANGED <<adapter, kind, step, work, durable, answer, error, later, again>>

CommitReturns ==
    /\ step = "commit" /\ request \in {"served", "rolled_back"}
    /\ step' = "done" /\ answer' = "returned"
    /\ UNCHANGED <<adapter, kind, callTxn, work, request, durable, error, later, again>>

\* A refusal is only reported of a request the server refused; a doubtful error
\* and an interruption may come whatever the server did.
CommitRaises(e) ==
    /\ step = "commit"
    /\ e \in Refusals => request = "refused"
    /\ FailCall(e, "commit")
    /\ UNCHANGED <<adapter, kind, callTxn, work, request, durable, later, again>>

\* Adapter.begin and ctx.ddl() refuse while a transaction is open.
MayBegin == callTxn = "none"

\* The caller catches a definite rejection and commits something else.
CallAgain ==
    /\ step = "done" /\ answer = "rejected" /\ ~again
    /\ again' = TRUE
    /\ IF MayBegin
       THEN durable' = (durable \/ (callTxn = "open" /\ work)) /\ callTxn' = "none"
       ELSE UNCHANGED <<durable, callTxn>>
    /\ UNCHANGED <<adapter, kind, step, work, request, answer, error, later>>

\* _rollback_quietly at the end of the attempt.
RollbackQuietly ==
    /\ step = "done" /\ answer = "rejected" /\ callTxn # "none"
    /\ callTxn' = "none"
    /\ UNCHANGED <<adapter, kind, step, work, request, durable, answer, error, later, again>>

CallNext ==
    \/ CallAgain \/ RollbackQuietly
    \/ BeginCall \/ Statement \/ ErrorCaught \/ Submit
    \/ ServerCommits \/ ServerRefuses \/ CommitReturns
    \/ \E e \in Errors : StatementFails(e) \/ CommitRaises(e)

CallSpec == CallInit /\ [][CallNext]_callVars

-----------------------------------------------------------------------------
(* Properties *)

CallTypeOK ==
    /\ adapter \in Adapters /\ kind \in Kinds
    /\ step \in {"begin", "statement", "commit", "done"}
    /\ callTxn \in {"none", "open", "aborted"} /\ work \in BOOLEAN /\ durable \in BOOLEAN
    /\ request \in {"unsent", "sent", "served", "refused", "rolled_back"}
    /\ answer \in {"none", "returned", "rejected", "unknown"}
    /\ error \in Errors \union {"none"} /\ later \in BOOLEAN /\ again \in BOOLEAN
    /\ (step = "done") = (answer # "none")

\* No ROLLBACK follows an error that left the statement's outcome in doubt
\* (Adapter.execute_ddl, SPEC 7.2).
NoSqlInDoubt == ~later

\* The transaction a commit finds when a statement ran in it before.
BeforeCommit ==
    \/ callTxn = "open"
    \/ adapter = "postgres" /\ callTxn = "aborted"
    \/ adapter = "sqlite" /\ callTxn = "none"

\* What every step keeps: durable work was served, what is on the wire can still
\* be served, and a definite answer was given when nothing is on the wire.
CallInv ==
    /\ CallTypeOK /\ NoSqlInDoubt
    /\ durable = (request = "served")
    /\ request # "rolled_back"
    /\ answer = "returned" => request = "served"
    /\ answer = "rejected" => request \in {"unsent", "refused"}
    /\ step \in {"begin", "statement"} => request = "unsent"
    /\ step = "commit" => request # "unsent"
    /\ step = "begin" => callTxn = "none"
    /\ step = "statement" => kind # "bare" /\ BeforeCommit
    /\ request = "sent" /\ kind # "bare" => callTxn = "open"

Contract == INSTANCE GuardedCall

\* Every engine's commit and ctx.ddl(), through its driver, its classifier and
\* the operation guard, keeps the promise the engine relies on: returned means
\* durable, rejected means nothing is, and stays so.  Nothing is sent in doubt, at
\* any step (CallInv).
ImplementsGuardedCall == Contract!Spec /\ [][CallInv']_callVars

=============================================================================
