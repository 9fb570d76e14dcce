------------------------- MODULE StatementAdmission -------------------------
(***************************************************************************)
(* Which statement may reach the database from where: the policy tables of *)
(* the three adapters, Adapter.admit_statement, admit_ddl, the reserved    *)
(* name check, checks.admit_sql_entry, and the flag commit_capable under   *)
(* which an admitted statement is sent (context._guard_call,               *)
(* engine._invoke_sql).                                                    *)
(*                                                                         *)
(* The author composes statements from a small grammar; the code judges    *)
(* them by what the scanner (SqlText) reads out of the tokens.  The        *)
(* database does what the statement really says: Effect and Touches are    *)
(* the engines' own reading, taken from how the statement was composed.    *)
(***************************************************************************)
EXTENDS SqlText, AdapterChoice

-----------------------------------------------------------------------------
(***************************************************************************)
(* The policy tables                                                       *)
(***************************************************************************)

SqlitePolicy ==
    [atomic |-> {"SELECT", "WITH", "VALUES", "INSERT", "REPLACE", "UPDATE", "DELETE",
                 "CREATE", "ALTER", "DROP"},
     query |-> {"SELECT", "WITH", "VALUES"},
     procedural |-> {},
     ddl |-> {"CREATE", "ALTER", "DROP"},
     forbidden |-> {"BEGIN", "COMMIT", "END", "ROLLBACK", "SAVEPOINT", "RELEASE",
                    "PRAGMA", "VACUUM", "ATTACH", "DETACH", "ANALYZE", "REINDEX"},
     allows_plsql |-> FALSE, quoted_string_identifiers |-> TRUE,
     cte_bodies_modify |-> FALSE]

PostgresPolicy ==
    [atomic |-> {"SELECT", "WITH", "VALUES", "INSERT", "UPDATE", "DELETE", "MERGE",
                 "LOCK", "CREATE", "ALTER", "DROP", "TRUNCATE", "COMMENT", "DO"},
     query |-> {"SELECT", "WITH", "VALUES"},
     procedural |-> {"DO", "CALL"},
     ddl |-> {"CREATE", "ALTER", "DROP", "TRUNCATE", "COMMENT", "REINDEX"},
     forbidden |-> {"BEGIN", "COMMIT", "END", "ROLLBACK", "SAVEPOINT", "RELEASE",
                    "START", "SET", "RESET", "DISCARD", "LISTEN", "NOTIFY", "GRANT",
                    "REVOKE", "VACUUM", "PREPARE", "DEALLOCATE", "COPY"},
     allows_plsql |-> FALSE, quoted_string_identifiers |-> FALSE,
     cte_bodies_modify |-> TRUE]

\* Mutated form: definition statements join the atomic set, as on PostgreSQL.
OraclePolicy_Ddl ==
    [atomic |-> {"SELECT", "WITH", "INSERT", "UPDATE", "DELETE", "MERGE", "LOCK",
                 "DECLARE", "BEGIN", "CREATE", "ALTER", "DROP"},
     query |-> {"SELECT", "WITH"},
     procedural |-> {"DECLARE", "BEGIN"},
     ddl |-> {"CREATE", "ALTER", "DROP", "TRUNCATE", "RENAME", "COMMENT", "ANALYZE"},
     forbidden |-> {"COMMIT", "ROLLBACK", "SAVEPOINT", "SET", "GRANT", "REVOKE",
                    "AUDIT", "NOAUDIT", "PURGE", "FLASHBACK"},
     allows_plsql |-> TRUE, quoted_string_identifiers |-> FALSE,
     cte_bodies_modify |-> FALSE]

OraclePolicy ==
    [atomic |-> {"SELECT", "WITH", "INSERT", "UPDATE", "DELETE", "MERGE", "LOCK",
                 "DECLARE", "BEGIN"},
     query |-> {"SELECT", "WITH"},
     procedural |-> {"DECLARE", "BEGIN"},
     ddl |-> {"CREATE", "ALTER", "DROP", "TRUNCATE", "RENAME", "COMMENT", "ANALYZE"},
     forbidden |-> {"COMMIT", "ROLLBACK", "SAVEPOINT", "SET", "GRANT", "REVOKE",
                    "AUDIT", "NOAUDIT", "PURGE", "FLASHBACK"},
     allows_plsql |-> TRUE, quoted_string_identifiers |-> FALSE,
     cte_bodies_modify |-> FALSE]

Policy(a) ==
    CASE a = "sqlite"   -> SqlitePolicy
      [] a = "postgres" -> PostgresPolicy
      [] a = "oracle"   -> OraclePolicy

\* _BATCH_DDL_TOKENS and _CTE_DML_VERBS.
BatchDdlTokens == {"CREATE", "ALTER", "DROP", "TRUNCATE", "COMMENT"}
CteDmlVerbs == {"INSERT", "REPLACE", "UPDATE", "DELETE", "MERGE"}

\* Words that can lead a statement on some engine, in a policy or in none.
LeadWords ==
    UNION {Policy(a).atomic \cup Policy(a).ddl \cup Policy(a).procedural
               \cup Policy(a).forbidden : a \in {"sqlite", "postgres", "oracle"}}
    \cup {"EXPLAIN", "REFRESH", "CLUSTER"}

-----------------------------------------------------------------------------
(***************************************************************************)
(* Statements: their tokens and what they mean                             *)
(***************************************************************************)

\* One metadata table stands for all the reserved ones.
ReservedName == "M8_HISTORY"

\* The ways a statement may mention it: as a name in several spellings, as an
\* ordinary string, in a comment, right behind the leading word, or not.
Mention ==
    [none    |-> <<>>,
     word    |-> <<Word("FROM"), Word(ReservedName)>>,
     quoted  |-> <<Word("FROM"), Comment, Quoted(ReservedName)>>,
     string  |-> <<Word("FROM"), Str(ReservedName)>>,
     into    |-> <<Word("INTO"), Comment, Str(ReservedName)>>,
     dotted  |-> <<Word("FROM"), Word("MAIN"), Punct("."), Str(ReservedName)>>,
     literal |-> <<Word("WHERE"), Punct("="), Str(ReservedName)>>,
     direct  |-> <<Str(ReservedName)>>]

\* first and second are the leading words, main the verb behind a WITH list,
\* body tells that a WITH body modifies data, alone that the statement says
\* CONCURRENTLY, mention how it names a metadata table, wrapped that all of it
\* is in parentheses.
Text(toks, first, second, main, body, alone, mention) ==
    [toks |-> Append(toks, Semicolon), first |-> first, second |-> second, main |-> main,
     body |-> body, alone |-> alone, mention |-> mention, wrapped |-> FALSE]

SimpleTexts ==
    {Text(<<Word(w)>> \o Mention[r], w, "", "", FALSE, FALSE, r) :
        w \in LeadWords \ {"WITH"}, r \in DOMAIN Mention \ {"direct"}}
    \cup {Text(<<Word(w)>> \o Mention["direct"], w, "", "", FALSE, FALSE, "direct") :
        w \in {"DO", "UPDATE"}}

\* Definitions whose second or later word decides.
DefinitionTexts ==
    {Text([i \in DOMAIN ws |-> Word(ws[i])] \o Mention[r], ws[1], ws[2], "", FALSE,
          ws[Len(ws)] = "CONCURRENTLY", r) :
        ws \in {<<"CREATE", "PROCEDURE">>, <<"CREATE", "OR", "REPLACE", "FUNCTION">>,
                <<"CREATE", "UNIQUE", "INDEX", "CONCURRENTLY">>,
                <<"DROP", "INDEX", "CONCURRENTLY">>, <<"REINDEX", "TABLE", "CONCURRENTLY">>,
                <<"ALTER", "SESSION">>, <<"ALTER", "SYSTEM">>, <<"SET", "ROLE">>},
        r \in {"none", "word"}}

\* One common table expression: a name that may look like a verb when quoted,
\* a column list, the three spellings of AS, and a body, nested or not.
Ctes ==
    {<<name>> \o columns \o as \o <<Punct("(")>> \o body \o <<Punct(")")>> :
        name \in {Word("C"), Quoted("DELETE")},
        columns \in {<<>>, <<Punct("("), Word("X"), Punct(")")>>},
        as \in {<<Word("AS")>>, <<Word("AS"), Word("MATERIALIZED")>>,
                <<Word("AS"), Word("NOT"), Word("MATERIALIZED")>>},
        body \in {<<Word("SELECT")>>, <<Word("DELETE")>>,
                  <<Word("SELECT"), Punct("("), Word("SELECT"), Punct(")")>>}}

CteModifies(cte) == Word("DELETE") \in {cte[i] : i \in DOMAIN cte}

\* A WITH statement of one or two expressions.
PlainWithTexts ==
    {Text(<<Word("WITH")>> \o c \o rest \o <<Word(m), Word("X")>>, "WITH", "", m,
          CteModifies(c) \/ CteModifies(rest), FALSE, "none") :
        c \in Ctes, m \in {"SELECT", "VALUES", "DELETE"},
        rest \in {<<>>, <<Punct(","), Word("D"), Word("AS"), Punct("("), Word("DELETE"),
                         Punct(")")>>,
                  <<Punct(","), Word("D"), Word("AS"), Punct("("), Word("SELECT"),
                    Punct(")")>>}}

\* The same query in parentheses; only a query may be put in them.
InParentheses(s) ==
    [s EXCEPT !.toks = <<Punct("(")>> \o SubSeq(@, 1, Len(@) - 1) \o <<Punct(")"), Semicolon>>,
              !.wrapped = TRUE]

WithTexts ==
    PlainWithTexts
    \cup {InParentheses(s) : s \in {t \in PlainWithTexts : t.main \notin CteDmlVerbs}}

Texts == SimpleTexts \cup DefinitionTexts \cup WithTexts

-----------------------------------------------------------------------------
(***************************************************************************)
(* Admission                                                               *)
(***************************************************************************)

\* _extra_statement_checks of the adapters; p is what normalize returned.
ExtraChecksPass(a, p, inTransaction) ==
    /\ a = "postgres" => ~(inTransaction /\ "CONCURRENTLY" \in p.words)
    /\ (a = "oracle" /\ Len(p.lead) >= 2) =>
          ~(p.lead[1] = "ALTER" /\ p.lead[2] \in {"SESSION", "SYSTEM"})

\* _reject_reserved.
NamesReserved(a, p) ==
    \/ ReservedName \in p.names
    \/ Policy(a).quoted_string_identifiers /\ ReservedName \in p.string_names

\* Adapter.admit_statement.
AdmitStatement(a, p, atomic, inBatch) ==
    LET policy == Policy(a)
        first == p.lead[1]
    IN /\ p.kind # "SQL" => policy.allows_plsql
       /\ first \notin policy.forbidden
       /\ inBatch => first \notin BatchDdlTokens
       /\ ExtraChecksPass(a, p, atomic \/ inBatch)
       /\ ~NamesReserved(a, p)
       /\ IF atomic \/ inBatch
          THEN first \in policy.atomic
          ELSE /\ first \in policy.query \cup policy.procedural
               /\ ~(first = "WITH" /\ p.cte_verb \in CteDmlVerbs)
               /\ ~(first = "WITH" /\ policy.cte_bodies_modify /\ p.cte_body_verbs # {})

\* Adapter.admit_ddl.
AdmitDdl(a, p) ==
    /\ p.kind # "PLSQL_BLOCK"
    /\ p.lead[1] \in Policy(a).ddl
    /\ ExtraChecksPass(a, p, FALSE)
    /\ ~NamesReserved(a, p)

\* checks.admit_sql_entry: the category of a SQL file, or "refused".
SqlEntryCategory(a, p, atomic) ==
    CASE atomic /\ AdmitStatement(a, p, TRUE, FALSE) -> "ATOMIC_STATEMENT"
      [] /\ ~atomic /\ p.lead[1] \in Policy(a).procedural
         /\ AdmitStatement(a, p, FALSE, FALSE) -> "RESTARTABLE_PROCEDURAL"
      [] /\ ~atomic /\ p.lead[1] \notin Policy(a).procedural
         /\ AdmitDdl(a, p) -> "RESTARTABLE_DDL"
      [] OTHER -> "refused"

-----------------------------------------------------------------------------
(***************************************************************************)
(* What a statement does on each engine                                    *)
(***************************************************************************)

TransactionControl == {"BEGIN", "START", "COMMIT", "END", "ROLLBACK", "SAVEPOINT", "RELEASE"}

DmlWords == {"INSERT", "REPLACE", "UPDATE", "DELETE", "MERGE", "COPY"}

\* Definition statements, grants included.
DdlWords == {"CREATE", "ALTER", "DROP", "TRUNCATE", "COMMENT", "REINDEX", "RENAME",
             "ANALYZE", "GRANT", "REVOKE", "AUDIT", "NOAUDIT", "PURGE", "FLASHBACK",
             "REFRESH", "CLUSTER"}

\* "control" ends or opens transactions, "session" changes connection state,
\* "block" runs code, "alone" refuses to run in a transaction.
Effect(a, s) ==
    CASE a = "oracle" /\ s.first \in {"BEGIN", "DECLARE"} -> "block"
      [] s.first \in TransactionControl                   -> "control"
      [] s.first \in {"DO", "CALL"}                       -> "block"
      [] s.first \in {"SET", "RESET", "DISCARD", "LISTEN", "NOTIFY", "PREPARE",
                      "DEALLOCATE", "PRAGMA", "ATTACH", "DETACH"} -> "session"
      [] a = "oracle" /\ s.first = "ALTER" /\ s.second \in {"SESSION", "SYSTEM"} -> "session"
      [] s.first = "VACUUM" \/ s.alone                    -> "alone"
      [] s.first \in DdlWords                             -> "ddl"
      [] s.first \in DmlWords                             -> "write"
      [] s.first = "WITH" /\ s.main \in CteDmlVerbs       -> "write"
      [] s.first = "WITH" /\ s.body /\ a = "postgres"     -> "write"
      [] OTHER                                            -> "read"

\* The statement works on a metadata table, not merely mentions its name: only
\* SQLite takes a string for a name, and a DO body is code on PostgreSQL.
Touches(a, s) ==
    \/ s.mention \in {"word", "quoted"}
    \/ a = "sqlite" /\ s.mention \in {"string", "into", "dotted"}
    \/ a = "sqlite" /\ s.mention = "direct" /\ s.first = "UPDATE"
    \/ a = "postgres" /\ s.mention = "direct" /\ s.first = "DO"

-----------------------------------------------------------------------------
VARIABLES
    scope,      \* "idle", "atomic", "outside" (a batch) or "batch"
    inTxn,      \* the session has a transaction open
    stmt,       \* the statement at hand: what the author composed last
    ended,      \* how the engine's transaction ended inside its scope
    stray,      \* what wrote outside any transaction of the engine's; "wrapped"
                \* is a write by a statement all in parentheses
    unflagged,  \* effects durable by a call not sent as commit capable
    changed,    \* connection state changed behind the engine
    touched     \* a metadata table was reached

outcome == <<ended, stray, unflagged, changed, touched>>
admissionVars == <<adapter, scope, inTxn, stmt, outcome>>

Effects == {"read", "write", "ddl", "alone", "block", "control", "session"}

NoText == [toks |-> <<>>, first |-> "", second |-> "", main |-> "", body |-> FALSE,
           alone |-> FALSE, mention |-> "none", wrapped |-> FALSE]

AdmissionInit ==
    /\ adapter \in Adapters
    /\ scope = "idle"
    /\ inTxn = FALSE
    /\ stmt = NoText
    /\ ended = {} /\ stray = {} /\ unflagged = {}
    /\ changed = FALSE /\ touched = FALSE

InTransaction == scope \in {"atomic", "batch"}

\* Running it here makes something durable at once.
Commits(e) ==
    CASE e = "control" -> TRUE
      [] e = "ddl"     -> adapter = "oracle" \/ ~inTxn
      [] e = "alone"   -> ~inTxn
      [] e = "block"   -> adapter = "oracle" \/ ~inTxn
      [] e = "write"   -> adapter # "oracle" /\ ~inTxn
      [] OTHER         -> FALSE

\* The statement at hand is sent with the given commit_capable flag and the
\* database does what it says.  On Oracle a write opens a transaction.
Send(flag) ==
    LET e == Effect(adapter, stmt) IN
    /\ ended' = IF InTransaction /\ Commits(e) THEN ended \cup {e} ELSE ended
    /\ inTxn' = IF InTransaction /\ Commits(e) THEN FALSE
                ELSE inTxn \/ (adapter = "oracle" /\ e = "write")
    /\ stray' = IF ~InTransaction /\ e \in {"write", "control"}
                THEN stray \cup {IF stmt.wrapped THEN "wrapped" ELSE e}
                ELSE stray
    /\ unflagged' = IF Commits(e) /\ ~flag THEN unflagged \cup {e} ELSE unflagged
    /\ changed' = (changed \/ e = "session")
    /\ touched' = (touched \/ Touches(adapter, stmt))
    /\ stmt' = NoText
    /\ UNCHANGED <<adapter, scope>>

\* The engine starts a unit; an atomic one gets its transaction first.
StartUnit(mode) ==
    /\ scope = "idle"
    /\ scope' = mode
    /\ inTxn' = (mode = "atomic")
    /\ UNCHANGED <<adapter, stmt, outcome>>

EnterBatchScope ==
    /\ scope = "outside" /\ ~inTxn
    /\ scope' = "batch" /\ inTxn' = TRUE
    /\ UNCHANGED <<adapter, stmt, outcome>>

\* The batch or the unit ends: committed or rolled back by the engine.
LeaveBatchScope ==
    /\ scope = "batch"
    /\ scope' = "outside" /\ inTxn' = FALSE
    /\ UNCHANGED <<adapter, stmt, outcome>>

EndUnit ==
    /\ scope \in {"atomic", "outside"}
    /\ scope' = "idle" /\ inTxn' = FALSE
    /\ stmt' = NoText
    /\ UNCHANGED <<adapter, outcome>>

\* The author writes a statement down, here or for a later scope.
Compose(s) ==
    /\ scope # "idle" /\ stmt = NoText
    /\ stmt' = s
    /\ UNCHANGED <<adapter, scope, inTxn, outcome>>

\* A statement exists and normalize has no objection.
Readable == stmt # NoText /\ ~NormalizeRefuses(stmt.toks)

\* Mutated form: whether a call can commit is read off its leading word.
CommitCapable_ByToken(p) == p.lead[1] \in DdlWords

\* _guard_call: the execution context decides whether a call can commit.
CommitCapable(p) == scope = "outside"

\* ctx.execute, executemany, query: admitted and sent.
FacadeStatement ==
    /\ scope # "idle" /\ Readable
    /\ LET p == Normalize(stmt.toks) IN
       /\ AdmitStatement(adapter, p, scope = "atomic", scope = "batch")
       /\ Send(CommitCapable(p))

\* ctx.ddl: outside a batch, no transaction open.
FacadeDdl ==
    /\ scope = "outside" /\ Readable
    /\ AdmitDdl(adapter, Normalize(stmt.toks))
    /\ ~inTxn
    /\ Send(TRUE)

\* _invoke_sql: a SQL unit's file, in the category it was admitted as.
SqlEntry ==
    /\ scope \in {"atomic", "outside"} /\ Readable
    /\ LET category == SqlEntryCategory(adapter, Normalize(stmt.toks), scope = "atomic") IN
       \/ category = "ATOMIC_STATEMENT" /\ Send(FALSE)
       \/ category = "RESTARTABLE_PROCEDURAL" /\ Send(TRUE)
       \/ category = "RESTARTABLE_DDL" /\ ~inTxn /\ Send(TRUE)

\* SqlSyntaxError, UsageError or UnsupportedCapabilityError: nothing is sent.
StatementRefused ==
    /\ scope # "idle" /\ stmt # NoText
    /\ \/ NormalizeRefuses(stmt.toks)
       \/ LET p == Normalize(stmt.toks) IN
          \/ ~AdmitStatement(adapter, p, scope = "atomic", scope = "batch")
          \/ ~AdmitDdl(adapter, p)
          \/ scope = "batch" \/ inTxn
    /\ stmt' = NoText
    /\ UNCHANGED <<adapter, scope, inTxn, outcome>>

AdmissionNext ==
    \/ \E mode \in {"atomic", "outside"} : StartUnit(mode)
    \/ EnterBatchScope \/ LeaveBatchScope \/ EndUnit
    \/ \E s \in Texts : Compose(s)
    \/ FacadeStatement \/ FacadeDdl \/ SqlEntry \/ StatementRefused

AdmissionSpec == AdmissionInit /\ [][AdmissionNext]_admissionVars

-----------------------------------------------------------------------------
(***************************************************************************)
(* Properties                                                              *)
(***************************************************************************)

\* No admitted statement ends a transaction the engine owns, except an Oracle
\* block, whose COMMIT the transaction identity check is there to find
\* (Adapter.admit_statement with the adapters' atomic and forbidden sets).
EngineOwnsTransaction == ended \subseteq (IF adapter = "oracle" THEN {"block"} ELSE {})

\* Outside a batch no admitted statement writes on its own: what the scanner
\* takes for a query does not autocommit DML (StatementPolicy.query: reads).  The
\* exception is a WITH statement all in parentheses on PostgreSQL, whose
\* expressions _cte_body_verbs does not look into: DirectDmlRejected.
ReadsOnlyOutsideBatch == stray \subseteq (IF adapter = "postgres" THEN {"wrapped"} ELSE {})

\* Direct DML outside a batch is rejected without exception, as SPEC.md says,
\* which counts a data-modifying common table expression as DML on PostgreSQL.
\* The code admits one whose statement is all in parentheses (_cte_body_verbs).
DirectDmlRejected == stray = {}

\* Whatever an admitted statement makes durable by itself was sent as commit
\* capable, so an interrupt there counts as an unknown outcome; the exception
\* is an Oracle block that breaks the contract of the engine's transaction
\* (context._guard_call, engine._invoke_sql).
CommitsAreFlagged == unflagged \subseteq (IF adapter = "oracle" THEN {"block"} ELSE {})

\* No admitted statement changes connection state the engine relies on or
\* works on a metadata table, however the table is spelled (_reject_reserved,
\* _extra_statement_checks, the forbidden sets).
EngineStateUntouched == ~changed /\ ~touched

\* Whatever author code sends in whatever scope, what is admitted takes neither
\* the transaction, the session nor the metadata from the engine and commits only
\* where the guard expects it; and outside a batch it writes nothing, except
\* through a data-modifying WITH all in parentheses on PostgreSQL
\* (Adapter.admit_statement, _cte_body_verbs).
AdmissionSafety ==
    /\ EngineOwnsTransaction /\ ReadsOnlyOutsideBatch
    /\ CommitsAreFlagged /\ EngineStateUntouched

=============================================================================
