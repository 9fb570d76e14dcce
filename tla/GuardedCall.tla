---------------------------- MODULE GuardedCall ----------------------------
(***************************************************************************)
(* What the engine relies on when it makes work durable, by a commit of    *)
(* its own or by ctx.ddl(): an answer that is not doubtful is true.  The   *)
(* commits of MigrateRun, BatchContext and AtomicContext take this for     *)
(* granted.                                                                *)
(***************************************************************************)

VARIABLES
    answer,         \* "none" yet, "returned", "rejected" or "unknown"
    durable         \* the work is in the database

callVars == <<answer, durable>>

Init == answer = "none" /\ durable = FALSE

\* The work lands, at the latest after the caller was left in doubt.
Land ==
    /\ answer \in {"none", "unknown"} /\ ~durable
    /\ durable' = TRUE /\ UNCHANGED answer

\* A call that returns did its work, a definite rejection left nothing behind.
Answer ==
    /\ answer = "none"
    /\ \/ answer' = "returned" /\ durable
       \/ answer' = "rejected" /\ ~durable
       \/ answer' = "unknown"
    /\ UNCHANGED durable

Next == Land \/ Answer

Spec == Init /\ [][Next]_callVars
=============================================================================
