-------------------------- MODULE MigrationLedger --------------------------
(***************************************************************************)
(* What migr8 promises about the target database, with no runner, session, *)
(* lock or failure in sight: migrations take effect one after the other in *)
(* manifest order; an atomic migration takes effect together with its      *)
(* SUCCESS row in one step; a restartable migration is first ACTIVE, then  *)
(* advances batch by batch, and becomes SUCCESS when all its batches are   *)
(* in.  A SUCCESS row is final and no unit of work is applied twice.       *)
(*                                                                         *)
(* MigrateRun, the model of the engine, is shown to implement this         *)
(* specification.                                                          *)
(***************************************************************************)
EXTENDS Naturals

CONSTANTS
    N,              \* number of manifest entries
    AtomicUnits,    \* the positions declared mode = "atomic"
    Batches         \* batch transactions one restartable migration commits

VARIABLES
    ledger,         \* [1..N -> {"NONE", "ACTIVE", "SUCCESS"}]
    effects         \* [1..N -> Nat]: units of work durably applied

ledgerVars == <<ledger, effects>>

\* Every migration before position i has durably succeeded.
PrefixDone(i) == \A j \in 1..N : j < i => ledger[j] = "SUCCESS"

LedgerInit ==
    /\ ledger = [i \in 1..N |-> "NONE"]
    /\ effects = [i \in 1..N |-> 0]

\* An atomic migration: its work and its SUCCESS row appear together.
Apply(i) ==
    /\ i \in AtomicUnits
    /\ ledger[i] = "NONE"
    /\ PrefixDone(i)
    /\ ledger' = [ledger EXCEPT ![i] = "SUCCESS"]
    /\ effects' = [effects EXCEPT ![i] = 1]

\* A restartable migration is admitted: durable before any of its work is.
Admit(i) ==
    /\ i \notin AtomicUnits
    /\ ledger[i] = "NONE"
    /\ PrefixDone(i)
    /\ ledger' = [ledger EXCEPT ![i] = "ACTIVE"]
    /\ UNCHANGED effects

\* One more batch of an admitted migration becomes durable.
Advance(i) ==
    /\ ledger[i] = "ACTIVE"
    /\ effects[i] < Batches
    /\ effects' = [effects EXCEPT ![i] = effects[i] + 1]
    /\ UNCHANGED ledger

\* A restartable migration completes, with all of its work in.
Finish(i) ==
    /\ ledger[i] = "ACTIVE"
    /\ effects[i] = Batches
    /\ ledger' = [ledger EXCEPT ![i] = "SUCCESS"]
    /\ UNCHANGED effects

LedgerNext == \E i \in 1..N : Apply(i) \/ Admit(i) \/ Advance(i) \/ Finish(i)

LedgerSpec == LedgerInit /\ [][LedgerNext]_ledgerVars
=============================================================================
