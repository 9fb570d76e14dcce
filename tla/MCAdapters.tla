----------------------------- MODULE MCAdapters -----------------------------
(***************************************************************************)
(* The parts of an adapter and of the facades over it for TLC: the         *)
(* namespace lock, one guarded call, the atomic attempt and the            *)
(* restartable invocation built from such calls, and the admission of      *)
(* statements.  A behaviour exercises one part, chosen at the start with   *)
(* the engine; the others stay in their initial state.                     *)
(***************************************************************************)
EXTENDS NamespaceLock, CallOutcome, AtomicContext, BatchContext, StatementAdmission

VARIABLE part       \* the part that moves

partVars == <<part, vars, callVars, atomicVars, batchVars, admissionVars>>

PartInit ==
    /\ part \in {"lock", "call", "atomic", "batch", "statements"}
    /\ Init /\ CallInit /\ AtomicInit /\ BatchInit /\ AdmissionInit
    /\ part # "call" => kind = "transition"

LockStep ==
    /\ part = "lock" /\ Next
    /\ UNCHANGED <<part, callVars, atomicVars, batchVars, admissionVars>>
CallStep ==
    /\ part = "call" /\ CallNext
    /\ UNCHANGED <<part, vars, atomicVars, batchVars, admissionVars>>
AtomicStep ==
    /\ part = "atomic" /\ AtomicNext
    /\ UNCHANGED <<part, vars, callVars, batchVars, admissionVars>>
BatchStep ==
    /\ part = "batch" /\ BatchNext
    /\ UNCHANGED <<part, vars, callVars, atomicVars, admissionVars>>
StatementStep ==
    /\ part = "statements" /\ AdmissionNext
    /\ UNCHANGED <<part, vars, callVars, atomicVars, batchVars>>

PartNext == LockStep \/ CallStep \/ AtomicStep \/ BatchStep \/ StatementStep

PartSpec == PartInit /\ [][PartNext]_partVars /\ Fairness
=============================================================================
