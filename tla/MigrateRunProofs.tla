-------------------------- MODULE MigrateRunProofs --------------------------
(***************************************************************************)
(* Proofs, for every number of runners, units, batches, sources, faults    *)
(* and edits, that MigrateRun keeps its inductive invariant, that the      *)
(* invariant implies the safety properties, and that MigrateRun implements *)
(* MigrationLedger.                                                        *)
(*                                                                         *)
(* A step of runner r or of its session touches only the entries of r (and *)
(* the lock).  FrameStep carries the invariant of every other runner over  *)
(* a step that leaves the database alone, CommitFrame over a commit: there *)
(* r holds the lock, so no other runner relies on the durable state.  What *)
(* remains for each action is the invariant of r itself.                   *)
(***************************************************************************)
EXTENDS MigrateRun, TLAPS

RunnerInv(r) == SessionInv(r) /\ LockInv(r) /\ RunInv(r) /\ ExitInv(r)

\* Nothing of runner q changes, and q holds the lock after iff it did before.
SameRunner(q) ==
    /\ session'[q] = session[q] /\ request'[q] = request[q]
    /\ reply'[q] = reply[q] /\ pc'[q] = pc[q] /\ staged'[q] = staged[q]
    /\ cur'[q] = cur[q] /\ attempt'[q] = attempt[q] /\ seen'[q] = seen[q]
    /\ exit'[q] = exit[q]
    /\ lock' = q <=> lock = q

-----------------------------------------------------------------------------
\* The invariant, with the parts about one runner collected in RunnerInv.
LEMMA IInvUnfold == IInv <=> TypeOK /\ DurableInv /\ \A r \in Runners : RunnerInv(r)
  BY DEF IInv, RunnerInv

\* A step that leaves the database alone keeps the durable invariant.
LEMMA DurableFrame ==
  ASSUME DurableInv, UNCHANGED durableVars
  PROVE  DurableInv'
  BY DEF DurableInv, durableVars, historyVars, SnapshotShape, SuccessCount, RowOK,
         WorkMatchesHistory, Total, CREATION_ORDER, Positions

\* A step that leaves the database and runner q alone keeps q's invariant.
LEMMA FrameStep ==
  ASSUME NEW q \in Runners, RunnerInv(q), SameRunner(q), UNCHANGED durableVars
  PROVE  RunnerInv(q)'
  <1> USE DEF SameRunner, durableVars, historyVars
  <1>1. SessionInv(q)'
    BY DEF RunnerInv, SessionInv, Working
  <1>2. LockInv(q)'
    BY DEF RunnerInv, LockInv, CanStillWrite, Working
  <1>3. RunInv(q)'
    <2>1. AtUnit(q) <=> AtUnit(q)'
      BY DEF AtUnit, Positions
    <2>2. ActiveHere(q) <=> ActiveHere(q)'
      BY DEF ActiveHere, Positions
    <2>3. BeforeCommit(q) <=> BeforeCommit(q)'
      BY <2>2 DEF BeforeCommit, Positions, CREATION_ORDER
    <2>4. AfterCommit(q) <=> AfterCommit(q)'
      BY <2>2 DEF AfterCommit, Positions
    <2>5. InUnit(q) <=> InUnit(q)'
      BY DEF InUnit, UnitRequests
    <2>6. RunInv(q)
      BY DEF RunnerInv
    <2>7. QED
      BY <2>1, <2>2, <2>3, <2>4, <2>5, <2>6 DEF RunInv, Positions
  <1>4. ExitInv(q)'
    BY DEF RunnerInv, ExitInv, Positions
  <1>5. QED
    BY <1>1, <1>2, <1>3, <1>4 DEF RunnerInv

\* So a step of runner r alone only owes the types and r's own invariant.
LEMMA OwnStep ==
  ASSUME IInv, NEW r \in Runners, UNCHANGED durableVars, TypeOK',
         \A q \in Runners \ {r} : SameRunner(q),
         RunnerInv(r)'
  PROVE  IInv'
  <1>1. DurableInv'
    BY DurableFrame DEF IInv
  <1>2. ASSUME NEW q \in Runners PROVE RunnerInv(q)'
    <2>1. CASE q = r
      BY <2>1
    <2>2. CASE q # r
      <3>1. RunnerInv(q) /\ SameRunner(q)
        BY <2>2, IInvUnfold
      <3>2. QED
        BY <3>1, FrameStep
    <2>3. QED
      BY <2>1, <2>2
  <1>3. QED
    BY <1>1, <1>2 DEF IInv, RunnerInv

-----------------------------------------------------------------------------
(***************************************************************************)
(* The steps actions are made of                                           *)
(***************************************************************************)

\* The environment's part of TypeOK, which UseFault keeps.
EnvOK == /\ source \in [Positions -> Sources]
         /\ faults \in 0..MaxFaults
         /\ edits \in 0..MaxEdits

\* A fault that happens leaves the fault budget within its bound.
LEMMA UseFaultTypes ==
  ASSUME TypeOK, UseFault
  PROVE  EnvOK'
  <1>1. faults' \in 0..MaxFaults
    BY ConstantsAssumption DEF TypeOK, UseFault
  <1>2. QED
    BY <1>1 DEF TypeOK, UseFault, EnvOK, Positions

\* Submitting a call keeps the types of the variables it sets.
LEMMA SubmitTypes ==
  ASSUME TypeOK, NEW r \in Runners, NEW what \in Requests, Submit(r, what)
  PROVE  /\ request' \in [Runners -> Requests]
         /\ reply' \in [Runners -> {"idle", "sent", "ok", "refused"}]
         /\ pc' \in [Runners -> Steps]
  BY DEF TypeOK, Submit, Steps

\* So does going on after a call.
LEMMA ProceedTypes ==
  ASSUME TypeOK, NEW r \in Runners, NEW step \in Steps, Proceed(r, step)
  PROVE  /\ request' \in [Runners -> Requests]
         /\ reply' \in [Runners -> {"idle", "sent", "ok", "refused"}]
         /\ pc' \in [Runners -> Steps]
  BY DEF TypeOK, Proceed, Requests

\* Ending a run with exit code `code` keeps the invariant, provided that the
\* code is not 7 and is 0 only when the captured manifest is applied.
LEMMA SettleStep ==
  ASSUME IInv, EnvOK',
         NEW r \in Runners, pc[r] # "idle",
         NEW code \in ExitCodes \ {"METADATA_DAMAGED"}, Settle(r, code),
         code = "OK" => \A i \in Positions :
             status[i] = "SUCCESS" /\ fingerprint[i] = staged[r][i],
         UNCHANGED <<durableVars, lock, session, staged, recover, cur, attempt, seen>>
  PROVE  IInv'
  <1> USE DEF Settle, durableVars, historyVars
  <1>1. TypeOK'
    BY DEF IInv, TypeOK, EnvOK, Requests, Steps, Positions
  <1>2. ASSUME NEW q \in Runners \ {r} PROVE SameRunner(q)
    BY DEF IInv, TypeOK, SameRunner
  <1>3. SessionInv(r)'
    BY DEF IInv, TypeOK, SessionInv, Working
  <1>4. LockInv(r)'
    BY DEF IInv, TypeOK, LockInv, CanStillWrite, Working
  <1>5. RunInv(r)'
    BY DEF IInv, TypeOK, RunInv, InUnit, UnitRequests
  <1>6. ExitInv(r)'
    BY DEF IInv, TypeOK, ExitInv, Positions
  <1>7. QED
    BY <1>1, <1>2, <1>3, <1>4, <1>5, <1>6, OwnStep DEF RunnerInv

\* Discarding the connection keeps it too: the session keeps the lock and the
\* call, and the process no longer relies on anything.
LEMMA DiscardStep ==
  ASSUME IInv, EnvOK',
         NEW r \in Runners, pc[r] # "idle", Discard(r),
         NEW code \in ExitCodes, code \in {exit[r], "UNKNOWN_OUTCOME", "CRASHED"},
         exit' = [exit EXCEPT ![r] = code],
         UNCHANGED <<durableVars, staged, recover, cur, attempt, seen>>
  PROVE  IInv'
  <1> USE DEF Discard, durableVars, historyVars
  <1>1. TypeOK'
    BY DEF IInv, TypeOK, EnvOK, Steps, Positions
  <1>2. ASSUME NEW q \in Runners \ {r} PROVE SameRunner(q)
    BY DEF IInv, TypeOK, SameRunner
  <1>3. SessionInv(r)'
    BY DEF IInv, TypeOK, SessionInv, Working
  <1>4. LockInv(r)'
    BY DEF IInv, TypeOK, LockInv, CanStillWrite, Working
  <1>5. RunInv(r)'
    <2>1. AtUnit(r) <=> AtUnit(r)'
      BY DEF AtUnit, Positions
    <2>2. BeforeCommit(r) <=> BeforeCommit(r)'
      BY DEF BeforeCommit, ActiveHere, Positions, CREATION_ORDER
    <2>3. QED
      BY <2>1, <2>2 DEF IInv, TypeOK, RunInv, InUnit, UnitRequests
  <1>6. ExitInv(r)'
    BY DEF IInv, TypeOK, ExitInv, Positions
  <1>7. QED
    BY <1>1, <1>2, <1>3, <1>4, <1>5, <1>6, OwnStep DEF RunnerInv

-----------------------------------------------------------------------------
(***************************************************************************)
(* One lemma per action of a runner                                        *)
(***************************************************************************)

\* A new run attaches a session and relies on nothing yet.
LEMMA StartKeeps ==
  ASSUME IInv, NEW r \in Runners, NEW rec \in 0..N, Start(r, rec)
  PROVE  IInv'
  <1> USE DEF durableVars, historyVars, serverVars, runnerVars, envVars
  <1>1. TypeOK'
    <2>1. cur' \in [Runners -> 1..(N + 1)]
      BY ConstantsAssumption DEF IInv, TypeOK, Start
    <2>2. QED
      BY <2>1, SubmitTypes DEF IInv, TypeOK, Start, Requests, ExitCodes, Positions
  <1>2. ASSUME NEW q \in Runners \ {r} PROVE SameRunner(q)
    BY ConstantsAssumption DEF IInv, TypeOK, Start, Submit, SameRunner
  <1>3. SessionInv(r)'
    BY DEF IInv, TypeOK, Start, Submit, SessionInv, Working
  <1>4. LockInv(r)'
    BY DEF IInv, TypeOK, Start, Submit, SessionInv, LockInv, CanStillWrite, Working
  <1>5. RunInv(r)'
    BY DEF IInv, TypeOK, Start, Submit, SessionInv, RunInv, InUnit, UnitRequests,
           AtUnit, ActiveHere, BeforeCommit, AfterCommit, Working, Positions
  <1>6. ExitInv(r)'
    BY DEF IInv, TypeOK, Start, Submit, ExitInv, Positions
  <1>7. QED
    BY <1>1, <1>2, <1>3, <1>4, <1>5, <1>6, OwnStep DEF RunnerInv, Start, Submit

\* The run goes past the lock only once its session holds it.
LEMMA LockAcquiredKeeps ==
  ASSUME IInv, NEW r \in Runners, LockAcquired(r)
  PROVE  IInv'
  <1> USE DEF durableVars, historyVars, serverVars, runnerVars, envVars
  <1>1. TypeOK'
    BY ProceedTypes, ConstantsAssumption
       DEF IInv, TypeOK, LockAcquired, Requests, Steps, ExitCodes, Positions
  <1>2. ASSUME NEW q \in Runners \ {r} PROVE SameRunner(q)
    BY ConstantsAssumption
       DEF IInv, TypeOK, LockAcquired, Acknowledged, Proceed, SameRunner
  <1>3. SessionInv(r)'
    BY DEF IInv, TypeOK, LockAcquired, Acknowledged, Proceed, SessionInv, Working
  <1>4. LockInv(r)'
    BY DEF IInv, TypeOK, LockAcquired, Acknowledged, Proceed, SessionInv, LockInv,
           CanStillWrite, Working
  <1>5. RunInv(r)'
    BY DEF IInv, TypeOK, LockAcquired, Acknowledged, Proceed, SessionInv, RunInv,
           InUnit, UnitRequests, AtUnit, ActiveHere, BeforeCommit, AfterCommit,
           Working, Positions
  <1>6. ExitInv(r)'
    BY DEF IInv, TypeOK, LockAcquired, Acknowledged, Proceed, ExitInv, Positions
  <1>7. QED
    BY <1>1, <1>2, <1>3, <1>4, <1>5, <1>6, OwnStep
       DEF RunnerInv, LockAcquired, Acknowledged, Proceed

\* A refused lock ends the run with exit 5.
LEMMA LockNotAcquiredKeeps ==
  ASSUME IInv, NEW r \in Runners, LockNotAcquired(r)
  PROVE  IInv'
  <1>1. EnvOK'
    BY DEF IInv, TypeOK, LockNotAcquired, envVars, EnvOK, Positions
  <1>2. QED
    BY <1>1, SettleStep DEF LockNotAcquired, ExitCodes

\* A failed or interrupted lock call ends the run; the call stays with the session.
LEMMA SetupFailsKeeps ==
  ASSUME IInv, NEW r \in Runners, NEW code \in {"USAGE", "MIGRATION_FAILED"},
    SetupFails(r, code)
  PROVE  IInv'
  <1> USE DEF durableVars, historyVars, serverVars, runnerVars, envVars
  <1>1. TypeOK'
    BY UseFaultTypes, ConstantsAssumption
       DEF IInv, TypeOK, SetupFails, EnvOK, Requests, Steps, ExitCodes, Positions
  <1>2. ASSUME NEW q \in Runners \ {r} PROVE SameRunner(q)
    BY ConstantsAssumption DEF IInv, TypeOK, SetupFails, UseFault, SameRunner
  <1>3. SessionInv(r)'
    BY DEF IInv, TypeOK, SetupFails, UseFault, SessionInv, Working
  <1>4. LockInv(r)'
    BY DEF IInv, TypeOK, SetupFails, UseFault, SessionInv, LockInv, CanStillWrite,
           Working
  <1>5. RunInv(r)'
    BY DEF IInv, TypeOK, SetupFails, UseFault, SessionInv, RunInv, InUnit,
           UnitRequests, AtUnit, ActiveHere, BeforeCommit, AfterCommit, Working,
           Positions
  <1>6. ExitInv(r)'
    BY DEF IInv, TypeOK, SetupFails, UseFault, ExitInv, Positions
  <1>7. QED
    BY <1>1, <1>2, <1>3, <1>4, <1>5, <1>6, OwnStep DEF RunnerInv, SetupFails, UseFault

\* The submitted creation matches the objects that exist.
LEMMA InitializeKeeps ==
  ASSUME IInv, NEW r \in Runners, Initialize(r)
  PROVE  IInv'
  <1> USE DEF durableVars, historyVars, serverVars, runnerVars, envVars
  <1>1. TypeOK'
    BY SubmitTypes, ConstantsAssumption
       DEF IInv, TypeOK, Initialize, Requests, Steps, ExitCodes, Positions
  <1>2. ASSUME NEW q \in Runners \ {r} PROVE SameRunner(q)
    BY ConstantsAssumption DEF IInv, TypeOK, Initialize, Submit, SameRunner
  <1>3. SessionInv(r)'
    BY DEF IInv, TypeOK, Initialize, Submit, SessionInv, Working
  <1>4. LockInv(r)'
    BY DEF IInv, TypeOK, Initialize, Submit, SessionInv, LockInv, CanStillWrite, Working
  <1>5. RunInv(r)'
    <2>1. ~marker /\ objects \in 0..CREATION_ORDER
      BY DEF IInv, TypeOK, RunInv, Initialize
    <2>2. BeforeCommit(r)'
      BY <2>1 DEF IInv, TypeOK, Initialize, Submit, BeforeCommit, CREATION_ORDER
    <2>3. QED
      BY <2>2 DEF IInv, TypeOK, Initialize, Submit, RunInv, InUnit, UnitRequests
  <1>6. ExitInv(r)'
    BY DEF IInv, TypeOK, Initialize, Submit, ExitInv, Positions
  <1>7. QED
    BY <1>1, <1>2, <1>3, <1>4, <1>5, <1>6, OwnStep DEF RunnerInv, Initialize, Submit

\* After an object is created the marker is still absent.
LEMMA ObjectCreatedKeeps ==
  ASSUME IInv, NEW r \in Runners, ObjectCreated(r)
  PROVE  IInv'
  <1> USE DEF durableVars, historyVars, serverVars, runnerVars, envVars
  <1>1. TypeOK'
    BY ProceedTypes, ConstantsAssumption
       DEF IInv, TypeOK, ObjectCreated, Requests, Steps, ExitCodes, Positions
  <1>2. ASSUME NEW q \in Runners \ {r} PROVE SameRunner(q)
    BY ConstantsAssumption
       DEF IInv, TypeOK, ObjectCreated, Acknowledged, Proceed, SameRunner
  <1>3. SessionInv(r)'
    BY DEF IInv, TypeOK, ObjectCreated, Acknowledged, Proceed, SessionInv, Working
  <1>4. LockInv(r)'
    BY DEF IInv, TypeOK, ObjectCreated, Acknowledged, Proceed, SessionInv, LockInv,
           CanStillWrite, Working
  <1>5. RunInv(r)'
    BY DEF IInv, TypeOK, ObjectCreated, Acknowledged, Proceed, SessionInv, RunInv,
           InUnit, UnitRequests, AtUnit, ActiveHere, BeforeCommit, AfterCommit,
           Working, Positions
  <1>6. ExitInv(r)'
    BY DEF IInv, TypeOK, ObjectCreated, Acknowledged, Proceed, ExitInv, Positions
  <1>7. QED
    BY <1>1, <1>2, <1>3, <1>4, <1>5, <1>6, OwnStep
       DEF RunnerInv, ObjectCreated, Acknowledged, Proceed

\* An atomic unit that is not SUCCESS has no row: its row is never ACTIVE.
LEMMA BeginAtomicKeeps ==
  ASSUME IInv, NEW r \in Runners, BeginAtomic(r)
  PROVE  IInv'
  <1> USE DEF durableVars, historyVars, serverVars, runnerVars, envVars
  <1>1. TypeOK'
    BY ConstantsAssumption
       DEF IInv, TypeOK, BeginAtomic, Requests, Steps, ExitCodes, Positions
  <1>2. ASSUME NEW q \in Runners \ {r} PROVE SameRunner(q)
    BY ConstantsAssumption DEF IInv, TypeOK, BeginAtomic, SameRunner
  <1>3. SessionInv(r)'
    BY DEF IInv, TypeOK, BeginAtomic, SessionInv, Working
  <1>4. LockInv(r)'
    BY DEF IInv, TypeOK, BeginAtomic, SessionInv, LockInv, CanStillWrite, Working
  <1>5. RunInv(r)'
    <2>1. cur[r] \in Positions /\ AtUnit(r)
      BY ConstantsAssumption DEF IInv, BeginAtomic, RunInv, InUnit, Positions
    <2>2. RowOK(cur[r])
      BY <2>1 DEF IInv, DurableInv, SnapshotShape
    <2>3. status[cur[r]] = "NONE"
      BY <2>1, <2>2 DEF IInv, BeginAtomic, RunInv, RowOK
    <2>4. AtUnit(r)'
      BY <2>1 DEF AtUnit, BeginAtomic, Positions
    <2>5. QED
      BY <2>3, <2>4 DEF IInv, TypeOK, SessionInv, Working, BeginAtomic, RunInv, InUnit
  <1>6. ExitInv(r)'
    BY DEF IInv, TypeOK, BeginAtomic, ExitInv, Positions
  <1>7. QED
    BY <1>1, <1>2, <1>3, <1>4, <1>5, <1>6, OwnStep DEF RunnerInv, BeginAtomic

\* Submitting the atomic commit changes nothing durable.
LEMMA CompleteAtomicKeeps ==
  ASSUME IInv, NEW r \in Runners, CompleteAtomic(r)
  PROVE  IInv'
  <1> USE DEF durableVars, historyVars, serverVars, runnerVars, envVars
  <1>1. TypeOK'
    BY SubmitTypes, ConstantsAssumption
       DEF IInv, TypeOK, CompleteAtomic, Requests, Steps, ExitCodes, Positions
  <1>2. ASSUME NEW q \in Runners \ {r} PROVE SameRunner(q)
    BY ConstantsAssumption DEF IInv, TypeOK, CompleteAtomic, Submit, SameRunner
  <1>3. SessionInv(r)'
    BY DEF IInv, TypeOK, CompleteAtomic, Submit, SessionInv, Working
  <1>4. LockInv(r)'
    BY DEF IInv, TypeOK, CompleteAtomic, Submit, SessionInv, LockInv, CanStillWrite,
           Working
  <1>5. RunInv(r)'
    BY DEF IInv, TypeOK, CompleteAtomic, Submit, SessionInv, RunInv, InUnit,
           UnitRequests, AtUnit, ActiveHere, BeforeCommit, AfterCommit, Working,
           Positions
  <1>6. ExitInv(r)'
    BY DEF IInv, TypeOK, CompleteAtomic, Submit, ExitInv, Positions
  <1>7. QED
    BY <1>1, <1>2, <1>3, <1>4, <1>5, <1>6, OwnStep DEF RunnerInv, CompleteAtomic, Submit

\* The attempt the run computes is the one its admission made durable.
LEMMA AdmittedKeeps ==
  ASSUME IInv, NEW r \in Runners, Admitted(r)
  PROVE  IInv'
  <1> USE DEF durableVars, historyVars, serverVars, runnerVars, envVars
  <1>1. TypeOK'
    <2>1. attempt' \in [Runners -> Nat]
      BY DEF IInv, TypeOK, Admitted
    <2>2. QED
      BY <2>1, ProceedTypes DEF IInv, TypeOK, Admitted, Steps, Positions
  <1>2. ASSUME NEW q \in Runners \ {r} PROVE SameRunner(q)
    BY ConstantsAssumption DEF IInv, TypeOK, Admitted, Acknowledged, Proceed, SameRunner
  <1>3. SessionInv(r)'
    BY DEF IInv, TypeOK, Admitted, Acknowledged, Proceed, SessionInv, Working
  <1>4. LockInv(r)'
    BY DEF IInv, TypeOK, Admitted, Acknowledged, Proceed, SessionInv, LockInv,
           CanStillWrite, Working
  <1>5. RunInv(r)'
    BY DEF IInv, TypeOK, Admitted, Acknowledged, Proceed, SessionInv, RunInv, InUnit,
           UnitRequests, AtUnit, ActiveHere, BeforeCommit, AfterCommit, Working,
           Positions
  <1>6. ExitInv(r)'
    BY DEF IInv, TypeOK, Admitted, Acknowledged, Proceed, ExitInv, Positions
  <1>7. QED
    BY <1>1, <1>2, <1>3, <1>4, <1>5, <1>6, OwnStep
       DEF RunnerInv, Admitted, Acknowledged, Proceed

\* The checkpoint read is the durable one.
LEMMA ReadCheckpointKeeps ==
  ASSUME IInv, NEW r \in Runners, ReadCheckpoint(r)
  PROVE  IInv'
  <1> USE DEF durableVars, historyVars, serverVars, runnerVars, envVars
  <1>1. TypeOK'
    <2>1. cur[r] \in Positions
      BY DEF IInv, ReadCheckpoint, RunInv, ActiveHere
    <2>2. QED
      BY <2>1 DEF IInv, TypeOK, ReadCheckpoint, Steps, Positions
  <1>2. ASSUME NEW q \in Runners \ {r} PROVE SameRunner(q)
    BY ConstantsAssumption DEF IInv, TypeOK, ReadCheckpoint, SameRunner
  <1>3. SessionInv(r)'
    BY DEF IInv, TypeOK, ReadCheckpoint, SessionInv, Working
  <1>4. LockInv(r)'
    BY DEF IInv, TypeOK, ReadCheckpoint, SessionInv, LockInv, CanStillWrite, Working
  <1>5. RunInv(r)'
    BY DEF IInv, TypeOK, ReadCheckpoint, SessionInv, RunInv, InUnit, UnitRequests,
           AtUnit, ActiveHere, BeforeCommit, AfterCommit, Working, Positions
  <1>6. ExitInv(r)'
    BY DEF IInv, TypeOK, ReadCheckpoint, ExitInv, Positions
  <1>7. QED
    BY <1>1, <1>2, <1>3, <1>4, <1>5, <1>6, OwnStep DEF RunnerInv, ReadCheckpoint

\* A batch begins at the durable checkpoint.
LEMMA EnterBatchKeeps ==
  ASSUME IInv, NEW r \in Runners, EnterBatch(r)
  PROVE  IInv'
  <1> USE DEF durableVars, historyVars, serverVars, runnerVars, envVars
  <1>1. TypeOK'
    BY ConstantsAssumption
       DEF IInv, TypeOK, EnterBatch, Requests, Steps, ExitCodes, Positions
  <1>2. ASSUME NEW q \in Runners \ {r} PROVE SameRunner(q)
    BY ConstantsAssumption DEF IInv, TypeOK, EnterBatch, SameRunner
  <1>3. SessionInv(r)'
    BY DEF IInv, TypeOK, EnterBatch, SessionInv, Working
  <1>4. LockInv(r)'
    BY DEF IInv, TypeOK, EnterBatch, SessionInv, LockInv, CanStillWrite, Working
  <1>5. RunInv(r)'
    BY DEF IInv, TypeOK, EnterBatch, SessionInv, RunInv, InUnit, UnitRequests, AtUnit,
           ActiveHere, BeforeCommit, AfterCommit, Working, Positions
  <1>6. ExitInv(r)'
    BY DEF IInv, TypeOK, EnterBatch, ExitInv, Positions
  <1>7. QED
    BY <1>1, <1>2, <1>3, <1>4, <1>5, <1>6, OwnStep DEF RunnerInv, EnterBatch

\* Submitting a batch's commit changes nothing durable.
LEMMA CommitBatchKeeps ==
  ASSUME IInv, NEW r \in Runners, CommitBatch(r)
  PROVE  IInv'
  <1> USE DEF durableVars, historyVars, serverVars, runnerVars, envVars
  <1>1. TypeOK'
    BY SubmitTypes, ConstantsAssumption
       DEF IInv, TypeOK, CommitBatch, Requests, Steps, ExitCodes, Positions
  <1>2. ASSUME NEW q \in Runners \ {r} PROVE SameRunner(q)
    BY ConstantsAssumption DEF IInv, TypeOK, CommitBatch, Submit, SameRunner
  <1>3. SessionInv(r)'
    BY DEF IInv, TypeOK, CommitBatch, Submit, SessionInv, Working
  <1>4. LockInv(r)'
    BY DEF IInv, TypeOK, CommitBatch, Submit, SessionInv, LockInv, CanStillWrite,
           Working
  <1>5. RunInv(r)'
    BY DEF IInv, TypeOK, CommitBatch, Submit, SessionInv, RunInv, InUnit,
           UnitRequests, AtUnit, ActiveHere, BeforeCommit, AfterCommit, Working,
           Positions
  <1>6. ExitInv(r)'
    BY DEF IInv, TypeOK, CommitBatch, Submit, ExitInv, Positions
  <1>7. QED
    BY <1>1, <1>2, <1>3, <1>4, <1>5, <1>6, OwnStep DEF RunnerInv, CommitBatch, Submit

\* An acknowledged batch is the one the checkpoint now counts.
LEMMA BatchCommittedKeeps ==
  ASSUME IInv, NEW r \in Runners, BatchCommitted(r)
  PROVE  IInv'
  <1> USE DEF durableVars, historyVars, serverVars, runnerVars, envVars
  <1>1. TypeOK'
    <2>1. seen' \in [Runners -> Nat]
      BY DEF IInv, TypeOK, BatchCommitted
    <2>2. QED
      BY <2>1, ProceedTypes DEF IInv, TypeOK, BatchCommitted, Steps, Positions
  <1>2. ASSUME NEW q \in Runners \ {r} PROVE SameRunner(q)
    BY ConstantsAssumption
       DEF IInv, TypeOK, BatchCommitted, Acknowledged, Proceed, SameRunner
  <1>3. SessionInv(r)'
    BY DEF IInv, TypeOK, BatchCommitted, Acknowledged, Proceed, SessionInv, Working
  <1>4. LockInv(r)'
    BY DEF IInv, TypeOK, BatchCommitted, Acknowledged, Proceed, SessionInv, LockInv,
           CanStillWrite, Working
  <1>5. RunInv(r)'
    BY DEF IInv, TypeOK, BatchCommitted, Acknowledged, Proceed, SessionInv, RunInv,
           InUnit, UnitRequests, AtUnit, ActiveHere, BeforeCommit, AfterCommit,
           Working, Positions
  <1>6. ExitInv(r)'
    BY DEF IInv, TypeOK, BatchCommitted, Acknowledged, Proceed, ExitInv, Positions
  <1>7. QED
    BY <1>1, <1>2, <1>3, <1>4, <1>5, <1>6, OwnStep
       DEF RunnerInv, BatchCommitted, Acknowledged, Proceed

\* After a unit is done the durable prefix ends just before the next one.
LEMMA UnitDoneKeeps ==
  ASSUME IInv, NEW r \in Runners, UnitDone(r)
  PROVE  IInv'
  <1> USE DEF durableVars, historyVars, serverVars, runnerVars, envVars
  <1>1. TypeOK'
    <2>1. cur[r] \in Positions
      BY DEF IInv, UnitDone, Acknowledged, RunInv, AfterCommit
    <2>2. cur[r] + 1 \in 1..(N + 1)
      BY <2>1, ConstantsAssumption DEF Positions
    <2>3. QED
      BY <2>2, ProceedTypes DEF IInv, TypeOK, UnitDone, Steps, Positions
  <1>2. ASSUME NEW q \in Runners \ {r} PROVE SameRunner(q)
    BY ConstantsAssumption DEF IInv, TypeOK, UnitDone, Acknowledged, Proceed, SameRunner
  <1>3. SessionInv(r)'
    BY DEF IInv, TypeOK, UnitDone, Acknowledged, Proceed, SessionInv, Working
  <1>4. LockInv(r)'
    BY DEF IInv, TypeOK, UnitDone, Acknowledged, Proceed, SessionInv, LockInv,
           CanStillWrite, Working
  <1>5. RunInv(r)'
    BY DEF IInv, TypeOK, UnitDone, Acknowledged, Proceed, SessionInv, RunInv, InUnit,
           UnitRequests, AtUnit, ActiveHere, BeforeCommit, AfterCommit, Working,
           Positions
  <1>6. ExitInv(r)'
    BY DEF IInv, TypeOK, UnitDone, Acknowledged, Proceed, ExitInv, Positions
  <1>7. QED
    BY <1>1, <1>2, <1>3, <1>4, <1>5, <1>6, OwnStep
       DEF RunnerInv, UnitDone, Acknowledged, Proceed

\* A refused commit ends the run with exit 3.
LEMMA CommitRefusedKeeps ==
  ASSUME IInv, NEW r \in Runners, CommitRefused(r)
  PROVE  IInv'
  <1>1. EnvOK'
    BY DEF IInv, TypeOK, CommitRefused, envVars, EnvOK, Positions
  <1>2. QED
    BY <1>1, SettleStep DEF CommitRefused, ExitCodes

\* So does an ordinary failure.
LEMMA RunFailsKeeps ==
  ASSUME IInv, NEW r \in Runners, RunFails(r)
  PROVE  IInv'
  <1>1. EnvOK'
    BY UseFaultTypes DEF IInv, RunFails
  <1>2. QED
    BY <1>1, SettleStep DEF RunFails, Working, ExitCodes

\* An unknown outcome discards the session.
LEMMA OutcomeUnknownKeeps ==
  ASSUME IInv, NEW r \in Runners, OutcomeUnknown(r)
  PROVE  IInv'
  <1>1. EnvOK'
    BY UseFaultTypes DEF IInv, OutcomeUnknown
  <1>2. /\ exit' = [exit EXCEPT ![r] = "UNKNOWN_OUTCOME"]
        /\ "UNKNOWN_OUTCOME" \in ExitCodes
    BY DEF IInv, TypeOK, OutcomeUnknown, ExitCodes
  <1>3. QED
    BY <1>1, <1>2, DiscardStep DEF OutcomeUnknown

\* So does the death of the process.
LEMMA CrashKeeps ==
  ASSUME IInv, NEW r \in Runners, Crash(r)
  PROVE  IInv'
  <1>1. EnvOK'
    BY UseFaultTypes DEF IInv, Crash
  <1>2. exit' = [exit EXCEPT ![r] = "CRASHED"] /\ "CRASHED" \in ExitCodes
    BY DEF IInv, TypeOK, Crash, ExitCodes
  <1>3. QED
    BY <1>1, <1>2, DiscardStep DEF Crash

\* So does an interrupted close, which keeps the outcome.
LEMMA CloseInterruptedKeeps ==
  ASSUME IInv, NEW r \in Runners, CloseInterrupted(r)
  PROVE  IInv'
  <1>1. EnvOK'
    BY UseFaultTypes DEF IInv, CloseInterrupted
  <1>2. exit' = [exit EXCEPT ![r] = exit[r]] /\ exit[r] \in ExitCodes
    BY DEF IInv, TypeOK, CloseInterrupted, ExitCodes
  <1>3. QED
    BY <1>1, <1>2, DiscardStep DEF CloseInterrupted

\* Closing ends the session and gives up the lock with it.
LEMMA CloseKeeps ==
  ASSUME IInv, NEW r \in Runners, Close(r)
  PROVE  IInv'
  <1> USE DEF durableVars, historyVars, serverVars, runnerVars, envVars
  <1>1. TypeOK'
    BY ProceedTypes, ConstantsAssumption
       DEF IInv, TypeOK, Close, LockWithout, Requests, Steps, ExitCodes, Positions
  <1>2. ASSUME NEW q \in Runners \ {r} PROVE SameRunner(q)
    BY ConstantsAssumption DEF IInv, TypeOK, Close, LockWithout, Proceed, SameRunner
  <1>3. SessionInv(r)'
    BY ConstantsAssumption
       DEF IInv, TypeOK, Close, LockWithout, Proceed, SessionInv, Working
  <1>4. LockInv(r)'
    BY DEF IInv, TypeOK, Close, LockWithout, Proceed, SessionInv, LockInv,
           CanStillWrite, Working
  <1>5. RunInv(r)'
    BY DEF IInv, TypeOK, Close, LockWithout, Proceed, SessionInv, RunInv, InUnit,
           UnitRequests, AtUnit, ActiveHere, BeforeCommit, AfterCommit, Working,
           Positions
  <1>6. ExitInv(r)'
    BY DEF IInv, TypeOK, Close, LockWithout, Proceed, ExitInv, Positions
  <1>7. QED
    BY <1>1, <1>2, <1>3, <1>4, <1>5, <1>6, OwnStep
       DEF RunnerInv, Close, LockWithout, Proceed

\* The lock is granted only when nobody holds it.
LEMMA GrantLockKeeps ==
  ASSUME IInv, NEW r \in Runners, GrantLock(r)
  PROVE  IInv'
  <1> USE DEF durableVars, historyVars, serverVars, runnerVars, envVars
  <1>1. TypeOK'
    BY ConstantsAssumption
       DEF IInv, TypeOK, GrantLock, Requests, Steps, ExitCodes, Positions
  <1>2. ASSUME NEW q \in Runners \ {r} PROVE SameRunner(q)
    BY ConstantsAssumption DEF IInv, TypeOK, GrantLock, LockFree, SameRunner
  <1>3. SessionInv(r)'
    BY DEF IInv, TypeOK, GrantLock, LockFree, SessionInv, Working
  <1>4. LockInv(r)'
    BY DEF IInv, TypeOK, GrantLock, LockFree, SessionInv, LockInv, CanStillWrite,
           Working
  <1>5. RunInv(r)'
    BY DEF IInv, TypeOK, GrantLock, LockFree, SessionInv, RunInv, InUnit,
           UnitRequests, AtUnit, ActiveHere, BeforeCommit, AfterCommit, Working,
           Positions
  <1>6. ExitInv(r)'
    BY DEF IInv, TypeOK, GrantLock, LockFree, ExitInv, Positions
  <1>7. QED
    BY <1>1, <1>2, <1>3, <1>4, <1>5, <1>6, OwnStep DEF RunnerInv, GrantLock, LockFree

\* A refused lock call changes nothing else.
LEMMA RefuseLockKeeps ==
  ASSUME IInv, NEW r \in Runners, RefuseLock(r)
  PROVE  IInv'
  <1> USE DEF durableVars, historyVars, serverVars, runnerVars, envVars
  <1>1. TypeOK'
    BY ConstantsAssumption
       DEF IInv, TypeOK, RefuseLock, Requests, Steps, ExitCodes, Positions
  <1>2. ASSUME NEW q \in Runners \ {r} PROVE SameRunner(q)
    BY ConstantsAssumption DEF IInv, TypeOK, RefuseLock, LockFree, SameRunner
  <1>3. SessionInv(r)'
    BY DEF IInv, TypeOK, RefuseLock, LockFree, SessionInv, Working
  <1>4. LockInv(r)'
    BY DEF IInv, TypeOK, RefuseLock, LockFree, SessionInv, LockInv, CanStillWrite,
           Working
  <1>5. RunInv(r)'
    BY DEF IInv, TypeOK, RefuseLock, LockFree, SessionInv, RunInv, InUnit,
           UnitRequests, AtUnit, ActiveHere, BeforeCommit, AfterCommit, Working,
           Positions
  <1>6. ExitInv(r)'
    BY DEF IInv, TypeOK, RefuseLock, LockFree, ExitInv, Positions
  <1>7. QED
    BY <1>1, <1>2, <1>3, <1>4, <1>5, <1>6, OwnStep DEF RunnerInv, RefuseLock, LockFree

\* A refused transaction leaves nothing durable.
LEMMA ServerRefusesKeeps ==
  ASSUME IInv, NEW r \in Runners, ServerRefuses(r)
  PROVE  IInv'
  <1> USE DEF durableVars, historyVars, serverVars, runnerVars, envVars
  <1>1. TypeOK'
    BY UseFaultTypes, ConstantsAssumption
       DEF IInv, TypeOK, ServerRefuses, EnvOK, Requests, Steps, ExitCodes, Positions
  <1>2. ASSUME NEW q \in Runners \ {r} PROVE SameRunner(q)
    BY ConstantsAssumption DEF IInv, TypeOK, ServerRefuses, UseFault, SameRunner
  <1>3. SessionInv(r)'
    BY DEF IInv, TypeOK, ServerRefuses, UseFault, SessionInv, Working
  <1>4. LockInv(r)'
    BY DEF IInv, TypeOK, ServerRefuses, UseFault, SessionInv, LockInv, CanStillWrite,
           Working
  <1>5. RunInv(r)'
    BY DEF IInv, TypeOK, ServerRefuses, UseFault, SessionInv, RunInv, InUnit,
           UnitRequests, AtUnit, ActiveHere, BeforeCommit, AfterCommit, Working,
           Positions
  <1>6. ExitInv(r)'
    BY DEF IInv, TypeOK, ServerRefuses, UseFault, ExitInv, Positions
  <1>7. QED
    BY <1>1, <1>2, <1>3, <1>4, <1>5, <1>6, OwnStep
       DEF RunnerInv, ServerRefuses, UseFault

\* A reaped session takes its call and its lock with it.
LEMMA SessionEndsKeeps ==
  ASSUME IInv, NEW r \in Runners, SessionEnds(r)
  PROVE  IInv'
  <1> USE DEF durableVars, historyVars, serverVars, runnerVars, envVars
  <1>1. TypeOK'
    BY ConstantsAssumption
       DEF IInv, TypeOK, SessionEnds, LockWithout, Requests, Steps, ExitCodes,
           Positions
  <1>2. ASSUME NEW q \in Runners \ {r} PROVE SameRunner(q)
    BY ConstantsAssumption DEF IInv, TypeOK, SessionEnds, LockWithout, SameRunner
  <1>3. SessionInv(r)'
    BY ConstantsAssumption
       DEF IInv, TypeOK, SessionEnds, LockWithout, SessionInv, Working
  <1>4. LockInv(r)'
    BY DEF IInv, TypeOK, SessionEnds, LockWithout, SessionInv, LockInv, CanStillWrite,
           Working
  <1>5. RunInv(r)'
    BY DEF IInv, TypeOK, SessionEnds, LockWithout, SessionInv, RunInv, InUnit,
           UnitRequests, AtUnit, ActiveHere, BeforeCommit, AfterCommit, Working,
           Positions
  <1>6. ExitInv(r)'
    BY DEF IInv, TypeOK, SessionEnds, LockWithout, ExitInv, Positions
  <1>7. QED
    BY <1>1, <1>2, <1>3, <1>4, <1>5, <1>6, OwnStep
       DEF RunnerInv, SessionEnds, LockWithout

\* The namespace is never damaged, and complete exactly when marked.
LEMMA InspectKeeps ==
  ASSUME IInv, NEW r \in Runners, Inspect(r)
  PROVE  IInv'
  <1> USE DEF durableVars, historyVars, envVars
  <1>1. MetadataState # "DAMAGED" /\ (MetadataState = "COMPLETE" <=> marker)
    BY DEF IInv, DurableInv, SnapshotShape, MetadataState
  <1>2. EnvOK'
    BY DEF IInv, TypeOK, Inspect, EnvOK, Positions
  <1>3. ASSUME Settle(r, "VALIDATION") PROVE IInv'
    BY <1>2, <1>3, SettleStep DEF Inspect, ExitCodes
  <1>4. ASSUME NEW step \in {"plan", "create"}, UNCHANGED exit,
               Proceed(r, step), step = "plan" <=> marker
        PROVE  IInv'
    <2> USE <1>4
    <2>1. TypeOK'
      BY ProceedTypes DEF IInv, TypeOK, Inspect, Steps, Positions
    <2>2. ASSUME NEW q \in Runners \ {r} PROVE SameRunner(q)
      BY DEF IInv, TypeOK, Inspect, Proceed, SameRunner
    <2>3. SessionInv(r)'
      BY DEF IInv, TypeOK, Inspect, Proceed, SessionInv, Working
    <2>4. LockInv(r)'
      BY DEF IInv, TypeOK, Inspect, Proceed, LockInv, CanStillWrite, Working
    <2>5. RunInv(r)'
      BY DEF IInv, TypeOK, Inspect, Proceed, RunInv, InUnit, UnitRequests
    <2>6. ExitInv(r)'
      BY DEF IInv, TypeOK, Inspect, ExitInv, Positions
    <2>7. QED
      BY <2>1, <2>2, <2>3, <2>4, <2>5, <2>6, OwnStep DEF RunnerInv, Inspect
  <1>5. CASE marker
    <2>1. Proceed(r, "plan") /\ UNCHANGED exit
      BY <1>1, <1>5 DEF Inspect
    <2>2. QED
      BY <1>4, <1>5, <2>1
  <1>6. CASE ~marker
    <2>1. \/ Proceed(r, "create") /\ UNCHANGED exit
          \/ Settle(r, "VALIDATION")
      BY <1>1, <1>6 DEF Inspect
    <2>2. QED
      BY <1>3, <1>4, <1>6, <2>1
  <1>7. QED
    BY <1>5, <1>6

\* The acknowledged marker is durable.
LEMMA InitializedKeeps ==
  ASSUME IInv, NEW r \in Runners, Initialized(r)
  PROVE  IInv'
  <1> USE DEF durableVars, historyVars, envVars
  <1>1. marker
    BY DEF IInv, Initialized, Acknowledged, RunInv, AfterCommit
  <1>2. TypeOK'
    BY ProceedTypes DEF IInv, TypeOK, Initialized, Steps, Positions
  <1>3. ASSUME NEW q \in Runners \ {r} PROVE SameRunner(q)
    BY DEF IInv, TypeOK, Initialized, Proceed, SameRunner
  <1>4. SessionInv(r)'
    BY DEF IInv, TypeOK, Initialized, Acknowledged, Proceed, SessionInv, Working
  <1>5. LockInv(r)'
    BY DEF IInv, TypeOK, Initialized, Acknowledged, Proceed, LockInv, CanStillWrite,
           Working
  <1>6. RunInv(r)'
    BY <1>1 DEF IInv, TypeOK, Initialized, Proceed, RunInv, InUnit, UnitRequests
  <1>7. ExitInv(r)'
    BY DEF IInv, TypeOK, Initialized, ExitInv, Positions
  <1>8. QED
    BY <1>2, <1>3, <1>4, <1>5, <1>6, <1>7, OwnStep DEF RunnerInv, Initialized

\* With the marker durable the second inspection finds the layout complete.
LEMMA VerifyKeeps ==
  ASSUME IInv, NEW r \in Runners, Verify(r)
  PROVE  IInv'
  <1> USE DEF durableVars, historyVars, envVars
  <1>1. marker
    BY DEF IInv, Verify, RunInv
  <1>2. MetadataState = "COMPLETE"
    BY <1>1 DEF IInv, DurableInv, MetadataState
  <1>3. Proceed(r, "plan") /\ UNCHANGED exit
    BY <1>2 DEF Verify
  <1>4. TypeOK'
    BY <1>3, ProceedTypes DEF IInv, TypeOK, Verify, Steps, Positions
  <1>5. ASSUME NEW q \in Runners \ {r} PROVE SameRunner(q)
    BY <1>3 DEF IInv, TypeOK, Verify, Proceed, SameRunner
  <1>6. SessionInv(r)'
    BY <1>3 DEF IInv, TypeOK, Verify, Proceed, SessionInv, Working
  <1>7. LockInv(r)'
    BY <1>3 DEF IInv, TypeOK, Verify, Proceed, LockInv, CanStillWrite, Working
  <1>8. RunInv(r)'
    BY <1>1, <1>3 DEF IInv, TypeOK, Verify, Proceed, RunInv, InUnit, UnitRequests
  <1>9. ExitInv(r)'
    BY <1>3 DEF IInv, TypeOK, Verify, ExitInv, Positions
  <1>10. QED
    BY <1>4, <1>5, <1>6, <1>7, <1>8, <1>9, OwnStep DEF RunnerInv, Verify

\* A rejected setup step ends the run.
LEMMA SetupRejectedKeeps ==
  ASSUME IInv, NEW r \in Runners, NEW code \in {"USAGE", "METADATA_UNREADABLE"},
         SetupRejected(r, code)
  PROVE  IInv'
  <1>1. EnvOK'
    BY UseFaultTypes DEF IInv, SetupRejected
  <1>2. QED
    BY <1>1, SettleStep DEF SetupRejected, ExitCodes

\* The plan starts at the first unit that is not SUCCESS; the shape of the
\* snapshot and the fingerprint comparison make AtUnit true there.
LEMMA BuildPlanKeeps ==
  ASSUME IInv, NEW r \in Runners, BuildPlan(r)
  PROVE  IInv'
  <1> USE DEF durableVars, historyVars, envVars
  <1>1. CASE ~(PrefixMatches(r) /\ RecoveryAdmits(r))
    <2>1. EnvOK'
      BY DEF IInv, TypeOK, BuildPlan, EnvOK, Positions
    <2>2. SnapshotShape
      BY DEF IInv, DurableInv
    <2>3. Settle(r, "VALIDATION") /\ UNCHANGED <<cur, attempt>>
      BY <1>1, <2>2 DEF BuildPlan
    <2>4. QED
      BY <2>1, <2>3, SettleStep DEF BuildPlan, ExitCodes
  <1>2. CASE PrefixMatches(r) /\ RecoveryAdmits(r)
    <2>1. SnapshotShape
      BY DEF IInv, DurableInv
    <2>2. Proceed(r, "unit") /\ UNCHANGED exit
      BY <1>2, <2>1 DEF BuildPlan
    <2>3. PICK k \in 0..N :
             /\ SuccessCount(k)
             /\ cur' = [cur EXCEPT ![r] = k + 1]
             /\ attempt' = [attempt EXCEPT ![r] = ActiveAttempt(k + 1)]
      BY <1>2, <2>1 DEF BuildPlan
    <2>4. ActiveAttempt(k + 1) \in Nat
      BY DEF IInv, TypeOK, ActiveAttempt
    <2>5. TypeOK'
      <3>1. cur' \in [Runners -> 1..(N + 1)]
        BY <2>3, ConstantsAssumption DEF IInv, TypeOK
      <3>2. QED
        BY <2>2, <2>3, <2>4, <3>1, ProceedTypes
        DEF IInv, TypeOK, BuildPlan, Steps, Positions
    <2>6. ASSUME NEW q \in Runners \ {r} PROVE SameRunner(q)
      BY <2>2, <2>3 DEF IInv, TypeOK, BuildPlan, Proceed, SameRunner
    <2>7. SessionInv(r)'
      BY <2>2 DEF IInv, TypeOK, BuildPlan, Proceed, SessionInv, Working
    <2>8. LockInv(r)'
      BY <2>2 DEF IInv, TypeOK, BuildPlan, Proceed, LockInv, CanStillWrite, Working
    <2>9. RunInv(r)'
      <3>1. marker
        BY DEF IInv, RunInv, BuildPlan
      <3>2. PICK m \in 0..N :
               SuccessCount(m) /\ \A i \in Positions : status[i] = "ACTIVE" => i = m + 1
        BY <2>1 DEF SnapshotShape
      <3>3. k = m
        BY <2>3, <3>2, ConstantsAssumption DEF SuccessCount, Positions
      <3>4. AtUnit(r)'
        <4>1. cur'[r] = k + 1 /\ UNCHANGED <<marker, status, fingerprint, staged>>
          BY <2>3 DEF IInv, TypeOK, BuildPlan
        <4>2. ASSUME NEW i \in Positions
              PROVE  /\ i < k + 1 => status[i] = "SUCCESS"
                     /\ i > k + 1 => status[i] = "NONE"
          <5>1. i \in Nat /\ k \in Nat /\ (status[i] = "SUCCESS" <=> i <= k)
            BY <2>3, ConstantsAssumption DEF SuccessCount, Positions
          <5>2. status[i] = "ACTIVE" => i = k + 1
            BY <3>2, <3>3
          <5>3. status[i] \in {"NONE", "ACTIVE", "SUCCESS"}
            BY DEF IInv, TypeOK
          <5>4. QED
            BY <5>1, <5>2, <5>3
        <4>3. QED
          BY <1>2, <3>1, <4>1, <4>2 DEF AtUnit, PrefixMatches, Positions
      <3>5. ASSUME k + 1 \in Positions
            PROVE  IF ActiveAttempt(k + 1) = 0
                   THEN status[k + 1] = "NONE"
                   ELSE status[k + 1] = "ACTIVE"
                        /\ attempts[k + 1] = ActiveAttempt(k + 1)
        <4>1. status[k + 1] \in {"NONE", "ACTIVE"}
          BY <2>3, <3>5 DEF IInv, TypeOK, SuccessCount
        <4>2. RowOK(k + 1)
          BY <2>1, <3>5 DEF SnapshotShape
        <4>3. QED
          BY <3>5, <4>1, <4>2 DEF RowOK, ActiveAttempt
      <3>6. QED
        BY <2>2, <2>3, <3>4, <3>5
        DEF IInv, TypeOK, BuildPlan, Proceed, RunInv, InUnit, UnitRequests, Positions
    <2>10. ExitInv(r)'
      BY <2>2 DEF IInv, TypeOK, BuildPlan, ExitInv, Positions
    <2>11. QED
      BY <2>5, <2>6, <2>7, <2>8, <2>9, <2>10, OwnStep DEF RunnerInv, BuildPlan
  <1>3. QED
    BY <1>1, <1>2

\* At the end of the plan AtUnit covers every position, so exit 0 is the truth.
LEMMA FinishRunKeeps ==
  ASSUME IInv, NEW r \in Runners, FinishRun(r)
  PROVE  IInv'
  <1>1. EnvOK'
    BY DEF IInv, TypeOK, FinishRun, envVars, EnvOK, Positions
  <1>2. \A i \in Positions : status[i] = "SUCCESS" /\ fingerprint[i] = staged[r][i]
    BY ConstantsAssumption DEF IInv, FinishRun, RunInv, InUnit, AtUnit, Positions
  <1>3. QED
    BY <1>1, <1>2, SettleStep DEF FinishRun, ExitCodes

\* First admission: the unit has no row, so the insert is submitted.
LEMMA InsertActiveRowKeeps ==
  ASSUME IInv, NEW r \in Runners, InsertActiveRow(r)
  PROVE  IInv'
  <1> USE DEF durableVars, historyVars, envVars
  <1>1. AtUnit(r) /\ cur[r] \in Positions
    BY DEF IInv, InsertActiveRow, RunInv, InUnit
  <1>2. status[cur[r]] = "NONE"
    BY <1>1 DEF IInv, InsertActiveRow, RunInv
  <1>3. Submit(r, "admit") /\ UNCHANGED exit
    BY <1>2 DEF InsertActiveRow
  <1>4. TypeOK'
    BY <1>3, SubmitTypes DEF IInv, TypeOK, InsertActiveRow, Requests, Positions
  <1>5. ASSUME NEW q \in Runners \ {r} PROVE SameRunner(q)
    BY <1>3 DEF IInv, TypeOK, InsertActiveRow, Submit, SameRunner
  <1>6. SessionInv(r)'
    BY <1>3 DEF IInv, TypeOK, InsertActiveRow, Submit, SessionInv, Working
  <1>7. LockInv(r)'
    BY <1>3 DEF IInv, TypeOK, InsertActiveRow, Submit, LockInv, CanStillWrite, Working
  <1>8. RunInv(r)'
    <2>1. AtUnit(r)'
      BY <1>1 DEF InsertActiveRow, AtUnit, Positions
    <2>2. BeforeCommit(r)'
      BY <1>1, <1>2, <1>3
         DEF IInv, TypeOK, InsertActiveRow, Submit, BeforeCommit, ActiveHere,
             Positions
    <2>3. QED
      BY <1>3, <2>1, <2>2 DEF IInv, TypeOK, Submit, RunInv, InUnit
  <1>9. ExitInv(r)'
    BY <1>3 DEF IInv, TypeOK, InsertActiveRow, ExitInv, Positions
  <1>10. QED
    BY <1>3, <1>4, <1>5, <1>6, <1>7, <1>8, <1>9, OwnStep DEF RunnerInv, InsertActiveRow

\* Later admission: the row is ACTIVE at the attempt the plan saw.
LEMMA UpdateActiveAttemptKeeps ==
  ASSUME IInv, NEW r \in Runners, UpdateActiveAttempt(r)
  PROVE  IInv'
  <1> USE DEF durableVars, historyVars, envVars
  <1>1. AtUnit(r) /\ cur[r] \in Positions
    BY DEF IInv, UpdateActiveAttempt, RunInv, InUnit
  <1>2. status[cur[r]] = "ACTIVE" /\ attempts[cur[r]] = attempt[r]
    BY <1>1 DEF IInv, UpdateActiveAttempt, RunInv
  <1>3. Submit(r, "retry") /\ UNCHANGED exit
    BY <1>2 DEF UpdateActiveAttempt
  <1>4. TypeOK'
    BY <1>3, SubmitTypes DEF IInv, TypeOK, UpdateActiveAttempt, Requests, Positions
  <1>5. ASSUME NEW q \in Runners \ {r} PROVE SameRunner(q)
    BY <1>3 DEF IInv, TypeOK, UpdateActiveAttempt, Submit, SameRunner
  <1>6. SessionInv(r)'
    BY <1>3 DEF IInv, TypeOK, UpdateActiveAttempt, Submit, SessionInv, Working
  <1>7. LockInv(r)'
    BY <1>3
       DEF IInv, TypeOK, UpdateActiveAttempt, Submit, LockInv, CanStillWrite, Working
  <1>8. RunInv(r)'
    <2>1. AtUnit(r)'
      BY <1>1 DEF UpdateActiveAttempt, AtUnit, Positions
    <2>2. BeforeCommit(r)'
      BY <1>1, <1>2, <1>3
         DEF IInv, TypeOK, UpdateActiveAttempt, Submit, BeforeCommit, ActiveHere,
             Positions
    <2>3. QED
      BY <1>3, <2>1, <2>2 DEF IInv, TypeOK, Submit, RunInv, InUnit
  <1>9. ExitInv(r)'
    BY <1>3 DEF IInv, TypeOK, UpdateActiveAttempt, ExitInv, Positions
  <1>10. QED
    BY <1>3, <1>4, <1>5, <1>6, <1>7, <1>8, <1>9, OwnStep
       DEF RunnerInv, UpdateActiveAttempt

\* Completion: the row is ACTIVE and every batch is in.
LEMMA CompleteActiveRowKeeps ==
  ASSUME IInv, NEW r \in Runners, CompleteActiveRow(r)
  PROVE  IInv'
  <1> USE DEF durableVars, historyVars, envVars
  <1>1. AtUnit(r) /\ ActiveHere(r) /\ cur[r] \in Positions
    BY DEF IInv, CompleteActiveRow, RunInv, InUnit, ActiveHere
  <1>2. status[cur[r]] = "ACTIVE" /\ progress[cur[r]] = Batches
    <2>1. data[cur[r]] = progress[cur[r]] /\ data[cur[r]] <= Batches
      BY <1>1 DEF IInv, DurableInv, WorkMatchesHistory, ActiveHere
    <2>2. seen[r] = progress[cur[r]]
      BY DEF IInv, CompleteActiveRow, RunInv
    <2>3. progress[cur[r]] \in Nat /\ Batches \in Nat
      BY <1>1, ConstantsAssumption DEF IInv, TypeOK
    <2>4. QED
      BY <1>1, <2>1, <2>2, <2>3 DEF CompleteActiveRow, ActiveHere
  <1>3. Submit(r, "complete") /\ UNCHANGED exit
    BY <1>2 DEF CompleteActiveRow
  <1>4. TypeOK'
    BY <1>3, SubmitTypes DEF IInv, TypeOK, CompleteActiveRow, Requests, Positions
  <1>5. ASSUME NEW q \in Runners \ {r} PROVE SameRunner(q)
    BY <1>3 DEF IInv, TypeOK, CompleteActiveRow, Submit, SameRunner
  <1>6. SessionInv(r)'
    BY <1>3 DEF IInv, TypeOK, CompleteActiveRow, Submit, SessionInv, Working
  <1>7. LockInv(r)'
    BY <1>3 DEF IInv, TypeOK, CompleteActiveRow, Submit, LockInv, CanStillWrite, Working
  <1>8. RunInv(r)'
    <2>1. AtUnit(r)'
      BY <1>1 DEF CompleteActiveRow, AtUnit, Positions
    <2>2. BeforeCommit(r)'
      BY <1>1, <1>2, <1>3
         DEF IInv, TypeOK, CompleteActiveRow, Submit, BeforeCommit, ActiveHere,
             Positions
    <2>3. QED
      BY <1>3, <2>1, <2>2 DEF IInv, TypeOK, Submit, RunInv, InUnit
  <1>9. ExitInv(r)'
    BY <1>3 DEF IInv, TypeOK, CompleteActiveRow, ExitInv, Positions
  <1>10. QED
    BY <1>3, <1>4, <1>5, <1>6, <1>7, <1>8, <1>9, OwnStep
       DEF RunnerInv, CompleteActiveRow

-----------------------------------------------------------------------------
(***************************************************************************)
(* Commits: the only steps that change the database                        *)
(***************************************************************************)

\* What a commit of runner r leaves alone.
CommitShape(r) ==
    /\ reply[r] = "sent"
    /\ request[r] \notin {"none", "lock"}
    /\ reply' = [reply EXCEPT ![r] = "ok"]
    /\ UNCHANGED <<lock, session, request, runnerVars, envVars>>

\* Before a commit its session holds the lock, so nobody else can write.
LEMMA OthersOut ==
  ASSUME IInv, NEW r \in Runners, CommitShape(r), NEW q \in Runners \ {r}
  PROVE  lock = r /\ ~CanStillWrite(q)
  BY DEF IInv, LockInv, CommitShape, CanStillWrite

\* A commit of r keeps the invariant of every other runner, if it changes no
\* SUCCESS row.
LEMMA CommitFrame ==
  ASSUME IInv, NEW r \in Runners, CommitShape(r), NEW q \in Runners \ {r},
         \A i \in Positions : status[i] = "SUCCESS" =>
             status'[i] = "SUCCESS" /\ fingerprint'[i] = fingerprint[i]
  PROVE  RunnerInv(q)'
  <1> USE DEF CommitShape, runnerVars
  <1>1. lock = r /\ ~CanStillWrite(q)
    BY OthersOut
  <1>2. reply'[q] = reply[q]
    BY DEF IInv, TypeOK
  <1>3. SessionInv(q)'
    BY <1>2 DEF IInv, SessionInv, Working
  <1>4. LockInv(q)'
    BY <1>2 DEF IInv, LockInv, CanStillWrite, Working
  <1>5. RunInv(q)'
    <2>1. ~InUnit(q)'
      BY <1>1, <1>2 DEF InUnit, CanStillWrite, Working, UnitRequests
    <2>2. reply[q] = "sent" \/ pc[q] = "call" => request[q] = "lock"
      BY <1>1 DEF CanStillWrite
    <2>3. request[q] = "lock" => BeforeCommit(q)' /\ AfterCommit(q)'
      BY DEF BeforeCommit, AfterCommit
    <2>4. QED
      BY <1>1, <1>2, <2>1, <2>2, <2>3 DEF RunInv, CanStillWrite, Working
  <1>6. ExitInv(q)'
    BY DEF IInv, ExitInv, Positions
  <1>7. QED
    BY <1>3, <1>4, <1>5, <1>6 DEF RunnerInv

\* So a commit owes the types, the durable invariant, what the client is told
\* (AfterCommit) and that the SUCCESS rows stay.
LEMMA CommitStep ==
  ASSUME IInv, NEW r \in Runners, CommitShape(r), TypeOK', DurableInv',
         request[r] \in UnitRequests => AtUnit(r)',
         AfterCommit(r)',
         \A i \in Positions : status[i] = "SUCCESS" =>
             status'[i] = "SUCCESS" /\ fingerprint'[i] = fingerprint[i]
  PROVE  IInv'
  <1> USE DEF CommitShape, runnerVars
  <1>1. reply'[r] = "ok"
    BY DEF IInv, TypeOK
  <1>2. SessionInv(r)'
    BY <1>1 DEF IInv, SessionInv, Working
  <1>3. LockInv(r)'
    BY <1>1 DEF IInv, LockInv, CanStillWrite, Working
  <1>4. pc[r] \notin {"create", "verify", "plan", "unit", "entry", "code", "body",
                      "batch"}
    BY DEF IInv, SessionInv, Working
  <1>5. RunInv(r)'
    BY <1>1, <1>4 DEF RunInv, InUnit
  <1>6. ExitInv(r)'
    BY DEF IInv, ExitInv, Positions
  <1>7. ASSUME NEW q \in Runners PROVE RunnerInv(q)'
    <2>1. CASE q = r
      BY <1>2, <1>3, <1>5, <1>6, <2>1 DEF RunnerInv
    <2>2. CASE q # r
      BY <2>2, CommitFrame
    <2>3. QED
      BY <2>1, <2>2
  <1>8. QED
    BY <1>7 DEF IInv, RunnerInv

\* Creating an object leaves a prefix of the layout, still unmarked.
LEMMA CreateObjectKeeps ==
  ASSUME IInv, NEW r \in Runners, CommitShape(r), request[r] = "object", CreateObject
  PROVE  IInv'
  <1> USE DEF CreateObject, CommitShape, historyVars, runnerVars, envVars
  <1>1. ~marker /\ objects < CREATION_ORDER
    BY DEF IInv, RunInv, BeforeCommit
  <1>2. TypeOK'
    BY <1>1 DEF IInv, TypeOK, CREATION_ORDER, Positions
  <1>3. DurableInv'
    BY <1>1
       DEF IInv, DurableInv, SnapshotShape, SuccessCount, RowOK, WorkMatchesHistory,
           Total, Positions
  <1>4. AfterCommit(r)'
    BY <1>1 DEF AfterCommit
  <1>5. QED
    BY <1>2, <1>3, <1>4, CommitStep DEF UnitRequests

\* The marker is committed only over the complete layout.
LEMMA InsertMarkerKeeps ==
  ASSUME IInv, NEW r \in Runners, CommitShape(r), request[r] = "marker", InsertMarker
  PROVE  IInv'
  <1> USE DEF InsertMarker, CommitShape, historyVars, runnerVars, envVars
  <1>1. objects = CREATION_ORDER
    BY DEF IInv, RunInv, BeforeCommit
  <1>2. TypeOK'
    BY DEF IInv, TypeOK, Positions
  <1>3. DurableInv'
    BY <1>1
       DEF IInv, DurableInv, SnapshotShape, SuccessCount, RowOK, WorkMatchesHistory,
           Total, Positions, CREATION_ORDER
  <1>4. AfterCommit(r)'
    BY DEF AfterCommit
  <1>5. QED
    BY <1>2, <1>3, <1>4, CommitStep DEF UnitRequests

\* Rows that are all SUCCESS before position c and absent after it form a
\* prefix, whatever the row at c is.
LEMMA PrefixAround ==
  ASSUME NEW st \in [Positions -> {"NONE", "ACTIVE", "SUCCESS"}],
         NEW c \in Positions,
         \A j \in Positions : (j < c => st[j] = "SUCCESS") /\ (j > c => st[j] = "NONE")
  PROVE  \E k \in 0..N : /\ \A j \in Positions : st[j] = "SUCCESS" <=> j <= k
                         /\ \A j \in Positions : st[j] = "ACTIVE" => j = k + 1
  <1>1. c \in 0..N /\ c - 1 \in 0..N
    BY ConstantsAssumption DEF Positions
  <1>2. CASE st[c] = "SUCCESS"
    <2>1. /\ \A j \in Positions : st[j] = "SUCCESS" <=> j <= c
          /\ \A j \in Positions : st[j] = "ACTIVE" => j = c + 1
      BY <1>2 DEF Positions
    <2>2. QED
      BY <1>1, <2>1
  <1>3. CASE st[c] # "SUCCESS"
    <2>1. /\ \A j \in Positions : st[j] = "SUCCESS" <=> j <= c - 1
          /\ \A j \in Positions : st[j] = "ACTIVE" => j = (c - 1) + 1
      BY <1>3 DEF Positions
    <2>2. QED
      BY <1>1, <2>1
  <1>4. QED
    BY <1>2, <1>3

\* The durable invariant after a commit of the current unit's transaction.
LEMMA CommitDurable ==
  ASSUME TypeOK', NEW r \in Runners, cur'[r] \in Positions, AtUnit(r)',
         marker' => objects' = CREATION_ORDER,
         \A j \in Positions : RowOK(j)',
         \A j \in Positions : progress'[j] # 0 => status'[j] = "ACTIVE",
         WorkMatchesHistory'
  PROVE  DurableInv'
  <1>1. \E k \in 0..N : /\ \A j \in Positions : status'[j] = "SUCCESS" <=> j <= k
                        /\ \A j \in Positions : status'[j] = "ACTIVE" => j = k + 1
    <2>1. status' \in [Positions -> {"NONE", "ACTIVE", "SUCCESS"}]
      BY DEF TypeOK, Positions
    <2>2. \A j \in Positions : /\ j < cur'[r] => status'[j] = "SUCCESS"
                               /\ j > cur'[r] => status'[j] = "NONE"
      BY DEF AtUnit, Positions
    <2>3. QED
      BY <2>1, <2>2, PrefixAround
  <1>2. QED
    BY <1>1
       DEF DurableInv, SnapshotShape, SuccessCount, AtUnit, Positions, CREATION_ORDER

\* Admission commits the only ACTIVE row, right after the prefix.
LEMMA InsertActiveCommits ==
  ASSUME IInv, NEW r \in Runners, CommitShape(r), request[r] = "admit",
         DbInsertActive(cur[r], staged[r][cur[r]])
  PROVE  IInv'
  <1> USE DEF DbInsertActive, CommitShape, historyVars, runnerVars, envVars
  <1> DEFINE i == cur[r]
  <1>1. AtUnit(r) /\ i \in Positions /\ i \notin AtomicUnits /\ status[i] = "NONE"
        /\ attempt[r] = 0
    BY ConstantsAssumption
       DEF IInv, RunInv, BeforeCommit, ActiveHere, InUnit, UnitRequests, Positions
  <1>2. staged[r][i] \in Sources
    BY <1>1 DEF IInv, TypeOK
  <1>3. TypeOK'
    BY <1>1, <1>2 DEF IInv, TypeOK, Positions
  <1>4. AtUnit(r)'
    BY <1>1 DEF IInv, TypeOK, AtUnit, Positions
  <1>5. DurableInv'
    <2>1. \A j \in Positions : RowOK(j)'
      BY <1>1, <1>2 DEF IInv, TypeOK, DurableInv, SnapshotShape, RowOK, Positions
    <2>2. \A j \in Positions : progress'[j] # 0 => status'[j] = "ACTIVE"
      BY <1>1 DEF IInv, TypeOK, DurableInv, SnapshotShape
    <2>3. WorkMatchesHistory'
      <3>1. progress[i] = 0 /\ data[i] = 0
        BY <1>1 DEF IInv, DurableInv, SnapshotShape, WorkMatchesHistory
      <3>2. QED
        BY <1>1, <3>1, ConstantsAssumption
        DEF IInv, TypeOK, DurableInv, WorkMatchesHistory, Total, Positions
    <2>4. QED
      BY <1>1, <1>3, <1>4, <2>1, <2>2, <2>3, CommitDurable
         DEF IInv, DurableInv, CREATION_ORDER
  <1>6. AfterCommit(r)'
    BY <1>1 DEF IInv, TypeOK, AfterCommit, ActiveHere, Positions
  <1>7. QED
    BY <1>1, <1>3, <1>4, <1>5, <1>6, CommitStep DEF IInv, TypeOK

\* A retry's commit changes only the attempt and the fingerprint.
LEMMA UpdateAttemptCommits ==
  ASSUME IInv, NEW r \in Runners, CommitShape(r), request[r] = "retry",
         DbUpdateAttempt(cur[r], staged[r][cur[r]])
  PROVE  IInv'
  <1> USE DEF DbUpdateAttempt, CommitShape, historyVars, runnerVars, envVars
  <1> DEFINE i == cur[r]
  <1>1. AtUnit(r) /\ i \in Positions /\ i \notin AtomicUnits /\ status[i] = "ACTIVE"
        /\ attempts[i] = attempt[r]
    BY ConstantsAssumption
       DEF IInv, RunInv, BeforeCommit, ActiveHere, InUnit, UnitRequests, Positions
  <1>2. staged[r][i] \in Sources
    BY <1>1 DEF IInv, TypeOK
  <1>3. TypeOK'
    <2>1. attempts[i] + 1 \in Nat
      BY <1>1 DEF IInv, TypeOK
    <2>2. QED
      BY <1>1, <1>2, <2>1 DEF IInv, TypeOK, Positions
  <1>4. AtUnit(r)'
    BY <1>1 DEF IInv, TypeOK, AtUnit, Positions
  <1>5. DurableInv'
    <2>1. \A j \in Positions : RowOK(j)'
      BY <1>1, <1>2 DEF IInv, TypeOK, DurableInv, SnapshotShape, RowOK, Positions
    <2>2. \A j \in Positions : progress'[j] # 0 => status'[j] = "ACTIVE"
      BY <1>1 DEF IInv, TypeOK, DurableInv, SnapshotShape
    <2>3. WorkMatchesHistory'
      <3>1. WorkMatchesHistory
        BY <1>1 DEF IInv, DurableInv, SnapshotShape, WorkMatchesHistory
      <3>2. QED
        BY <1>1, <3>1, ConstantsAssumption
        DEF IInv, TypeOK, DurableInv, WorkMatchesHistory, Total, Positions
    <2>4. QED
      BY <1>1, <1>3, <1>4, <2>1, <2>2, <2>3, CommitDurable
         DEF IInv, DurableInv, CREATION_ORDER
  <1>6. AfterCommit(r)'
    BY <1>1 DEF IInv, TypeOK, AfterCommit, ActiveHere, Positions
  <1>7. QED
    BY <1>1, <1>3, <1>4, <1>5, <1>6, CommitStep DEF IInv, TypeOK

\* A batch's commit advances work and checkpoint together.
LEMMA BatchCommits ==
  ASSUME IInv, NEW r \in Runners, CommitShape(r), request[r] = "batch",
         DbBatch(cur[r], seen[r] + 1)
  PROVE  IInv'
  <1> USE DEF DbBatch, CommitShape, historyVars, runnerVars, envVars
  <1> DEFINE i == cur[r]
  <1>1. AtUnit(r) /\ i \in Positions /\ ActiveHere(r) /\ i \notin AtomicUnits
        /\ status[i] = "ACTIVE" /\ seen[r] = progress[i] /\ seen[r] < Batches
    BY ConstantsAssumption
       DEF IInv, RunInv, BeforeCommit, ActiveHere, InUnit, UnitRequests, Positions
  <1>2. staged[r][i] \in Sources
    BY <1>1 DEF IInv, TypeOK
  <1>3. TypeOK'
    <2>1. data[i] + 1 \in Nat /\ seen[r] + 1 \in Nat
      BY <1>1 DEF IInv, TypeOK
    <2>2. QED
      BY <1>1, <1>2, <2>1 DEF IInv, TypeOK, Positions
  <1>4. AtUnit(r)'
    BY <1>1 DEF IInv, TypeOK, AtUnit, Positions
  <1>5. DurableInv'
    <2>1. \A j \in Positions : RowOK(j)'
      BY <1>1, <1>2 DEF IInv, TypeOK, DurableInv, SnapshotShape, RowOK, Positions
    <2>2. \A j \in Positions : progress'[j] # 0 => status'[j] = "ACTIVE"
      BY <1>1 DEF IInv, TypeOK, DurableInv, SnapshotShape
    <2>3. WorkMatchesHistory'
      <3>1. data[i] = progress[i] /\ data[i] \in Nat /\ data[i] < Batches
        BY <1>1 DEF IInv, TypeOK, DurableInv, WorkMatchesHistory
      <3>2. data'[i] = progress'[i] /\ data'[i] <= Batches
        BY <1>1, <3>1, ConstantsAssumption DEF IInv, TypeOK
      <3>3. \A j \in Positions \ {i} : data'[j] = data[j] /\ progress'[j] = progress[j]
        BY <1>1 DEF IInv, TypeOK
      <3>4. QED
        BY <1>1, <3>2, <3>3 DEF IInv, DurableInv, WorkMatchesHistory, Total, Positions
    <2>4. QED
      BY <1>1, <1>3, <1>4, <2>1, <2>2, <2>3, CommitDurable
         DEF IInv, DurableInv, CREATION_ORDER
  <1>6. AfterCommit(r)'
    BY <1>1 DEF IInv, TypeOK, AfterCommit, ActiveHere, Positions
  <1>7. QED
    BY <1>1, <1>3, <1>4, <1>5, <1>6, CommitStep DEF IInv, TypeOK

\* Completion extends the prefix and removes the checkpoint.
LEMMA CompleteCommits ==
  ASSUME IInv, NEW r \in Runners, CommitShape(r), request[r] = "complete",
         DbComplete(cur[r])
  PROVE  IInv'
  <1> USE DEF DbComplete, CommitShape, historyVars, runnerVars, envVars
  <1> DEFINE i == cur[r]
  <1>1. AtUnit(r) /\ i \in Positions /\ ActiveHere(r) /\ i \notin AtomicUnits
        /\ status[i] = "ACTIVE" /\ progress[i] = Batches
    BY ConstantsAssumption
       DEF IInv, RunInv, BeforeCommit, ActiveHere, InUnit, UnitRequests, Positions
  <1>2. staged[r][i] \in Sources
    BY <1>1 DEF IInv, TypeOK
  <1>3. TypeOK'
    BY <1>1, <1>2 DEF IInv, TypeOK, Positions
  <1>4. AtUnit(r)'
    BY <1>1 DEF IInv, TypeOK, AtUnit, Positions
  <1>5. DurableInv'
    <2>1. \A j \in Positions : RowOK(j)'
      BY <1>1, <1>2 DEF IInv, TypeOK, DurableInv, SnapshotShape, RowOK, Positions
    <2>2. \A j \in Positions : progress'[j] # 0 => status'[j] = "ACTIVE"
      BY <1>1 DEF IInv, TypeOK, DurableInv, SnapshotShape
    <2>3. WorkMatchesHistory'
      <3>1. data[i] = Batches
        BY <1>1 DEF IInv, DurableInv, SnapshotShape, WorkMatchesHistory
      <3>2. QED
        BY <1>1, <3>1, ConstantsAssumption
        DEF IInv, TypeOK, DurableInv, WorkMatchesHistory, Total, Positions
    <2>4. QED
      BY <1>1, <1>3, <1>4, <2>1, <2>2, <2>3, CommitDurable
         DEF IInv, DurableInv, CREATION_ORDER
  <1>6. AfterCommit(r)'
    BY <1>1 DEF IInv, TypeOK, AfterCommit, ActiveHere, Positions
  <1>7. QED
    BY <1>1, <1>3, <1>4, <1>5, <1>6, CommitStep DEF IInv, TypeOK

\* An atomic commit extends the prefix with its work done once.
LEMMA AtomicCommits ==
  ASSUME IInv, NEW r \in Runners, CommitShape(r), request[r] = "atomic",
         DbAtomic(cur[r], staged[r][cur[r]])
  PROVE  IInv'
  <1> USE DEF DbAtomic, CommitShape, historyVars, runnerVars, envVars
  <1> DEFINE i == cur[r]
  <1>1. AtUnit(r) /\ i \in Positions /\ i \in AtomicUnits /\ status[i] = "NONE"
    BY ConstantsAssumption
       DEF IInv, RunInv, BeforeCommit, ActiveHere, InUnit, UnitRequests, Positions
  <1>2. staged[r][i] \in Sources
    BY <1>1 DEF IInv, TypeOK
  <1>3. TypeOK'
    <2>1. data[i] + 1 \in Nat
      BY <1>1 DEF IInv, TypeOK
    <2>2. QED
      BY <1>1, <1>2, <2>1 DEF IInv, TypeOK, Positions
  <1>4. AtUnit(r)'
    BY <1>1 DEF IInv, TypeOK, AtUnit, Positions
  <1>5. DurableInv'
    <2>1. \A j \in Positions : RowOK(j)'
      BY <1>1, <1>2 DEF IInv, TypeOK, DurableInv, SnapshotShape, RowOK, Positions
    <2>2. \A j \in Positions : progress'[j] # 0 => status'[j] = "ACTIVE"
      BY <1>1 DEF IInv, TypeOK, DurableInv, SnapshotShape
    <2>3. WorkMatchesHistory'
      <3>1. progress[i] = 0 /\ data[i] = 0
        BY <1>1 DEF IInv, DurableInv, SnapshotShape, WorkMatchesHistory
      <3>2. QED
        BY <1>1, <3>1, ConstantsAssumption
        DEF IInv, TypeOK, DurableInv, WorkMatchesHistory, Total, Positions
    <2>4. QED
      BY <1>1, <1>3, <1>4, <2>1, <2>2, <2>3, CommitDurable
         DEF IInv, DurableInv, CREATION_ORDER
  <1>6. AfterCommit(r)'
    BY <1>1 DEF IInv, TypeOK, AfterCommit, ActiveHere, Positions
  <1>7. QED
    BY <1>1, <1>3, <1>4, <1>5, <1>6, CommitStep DEF IInv, TypeOK

\* Every commit keeps the invariant.
LEMMA ServerCommitsKeeps ==
  ASSUME IInv, NEW r \in Runners, ServerCommits(r)
  PROVE  IInv'
  <1>1. request[r] \notin {"none", "lock"} => CommitShape(r)
    BY DEF ServerCommits, CommitShape
  <1>2. QED
    BY <1>1, CreateObjectKeeps, InsertMarkerKeeps, InsertActiveCommits,
       UpdateAttemptCommits, BatchCommits, CompleteCommits, AtomicCommits
    DEF ServerCommits

\* Editing sources touches neither the database nor a capture.
LEMMA EditSourceKeeps ==
  ASSUME IInv, NEW i \in Positions, NEW s \in Sources, EditSource(i, s)
  PROVE  IInv'
  <1> USE DEF EditSource, durableVars, historyVars, serverVars, runnerVars
  <1>1. TypeOK'
    <2>1. edits' \in 0..MaxEdits
      BY ConstantsAssumption DEF IInv, TypeOK
    <2>2. QED
      BY <2>1 DEF IInv, TypeOK, Positions
  <1>2. ASSUME NEW q \in Runners PROVE RunnerInv(q)'
    BY FrameStep, IInvUnfold DEF SameRunner
  <1>3. QED
    BY <1>1, <1>2, DurableFrame DEF IInv, RunnerInv

\* So does a step that changes nothing.
LEMMA StutterKeeps ==
  ASSUME IInv, UNCHANGED vars
  PROVE  IInv'
  <1> USE DEF vars, durableVars, historyVars, serverVars, runnerVars, envVars
  <1>1. TypeOK'
    BY DEF IInv, TypeOK, Positions
  <1>2. ASSUME NEW q \in Runners PROVE RunnerInv(q)'
    BY FrameStep, IInvUnfold DEF SameRunner
  <1>3. QED
    BY <1>1, <1>2, DurableFrame DEF IInv, RunnerInv

-----------------------------------------------------------------------------
(***************************************************************************)
(* The inductive invariant                                                 *)
(***************************************************************************)

\* The initial state: an empty namespace and no runner.
LEMMA InitIInv == Init => IInv
  <1> SUFFICES ASSUME Init PROVE IInv
    OBVIOUS
  <1> USE DEF Init
  <1>1. TypeOK
    <2>1. /\ objects \in 0..CREATION_ORDER
          /\ faults \in 0..MaxFaults
          /\ edits \in 0..MaxEdits
          /\ recover \in [Runners -> 0..N]
          /\ cur \in [Runners -> 1..(N + 1)]
      BY ConstantsAssumption DEF CREATION_ORDER
    <2>2. staged \in [Runners -> [Positions -> Sources]]
      OBVIOUS
    <2>3. QED
      BY <2>1, <2>2 DEF TypeOK, Requests, Steps, ExitCodes
  <1>2. DurableInv
    <2>1. SuccessCount(0)
      BY DEF SuccessCount, Positions
    <2>2. SnapshotShape
      BY <2>1, ConstantsAssumption DEF SnapshotShape, RowOK
    <2>3. WorkMatchesHistory
      BY DEF WorkMatchesHistory
    <2>4. QED
      BY <2>2, <2>3 DEF DurableInv
  <1>3. ASSUME NEW r \in Runners
        PROVE  SessionInv(r) /\ LockInv(r) /\ RunInv(r) /\ ExitInv(r)
    BY ConstantsAssumption
       DEF SessionInv, LockInv, RunInv, ExitInv, InUnit, CanStillWrite, Working,
           UnitRequests
  <1>4. QED
    BY <1>1, <1>2, <1>3 DEF IInv

\* Every step keeps the invariant.
LEMMA NextIInv == IInv /\ [Next]_vars => IInv'
  <1> SUFFICES ASSUME IInv, [Next]_vars PROVE IInv'
    OBVIOUS
  <1>1. ASSUME NEW r \in Runners, Setup(r) PROVE IInv'
    BY <1>1, StartKeeps, LockAcquiredKeeps, LockNotAcquiredKeeps, SetupFailsKeeps,
       InspectKeeps, InitializeKeeps, ObjectCreatedKeeps, InitializedKeeps,
       VerifyKeeps, SetupRejectedKeeps, BuildPlanKeeps
       DEF Setup
  <1>2. ASSUME NEW r \in Runners, Execute(r) PROVE IInv'
    BY <1>2, FinishRunKeeps, BeginAtomicKeeps, CompleteAtomicKeeps,
       InsertActiveRowKeeps, UpdateActiveAttemptKeeps, AdmittedKeeps,
       ReadCheckpointKeeps, EnterBatchKeeps, CommitBatchKeeps, BatchCommittedKeeps,
       CompleteActiveRowKeeps, UnitDoneKeeps
       DEF Execute
  <1>3. ASSUME NEW r \in Runners, Teardown(r) PROVE IInv'
    BY <1>3, CommitRefusedKeeps, RunFailsKeeps, OutcomeUnknownKeeps, CrashKeeps,
       CloseKeeps, CloseInterruptedKeeps
       DEF Teardown
  <1>4. ASSUME NEW r \in Runners, Server(r) PROVE IInv'
    BY <1>4, GrantLockKeeps, RefuseLockKeeps, ServerCommitsKeeps, ServerRefusesKeeps,
       SessionEndsKeeps
       DEF Server
  <1>5. QED
    BY <1>1, <1>2, <1>3, <1>4, EditSourceKeeps, StutterKeeps DEF Next

\* THEOREM: the inductive invariant holds in every behaviour, for every value
\* of the constants: any number of runners, units, batches, faults and edits.
THEOREM InductiveInvariant == Spec => []IInv
  BY InitIInv, NextIInv, PTL DEF Spec

\* THEOREM: every variable keeps its type.
THEOREM TypeCorrect == Spec => []TypeOK
  <1>1. IInv => TypeOK
    BY DEF IInv
  <1>2. QED
    BY <1>1, InductiveInvariant, PTL

\* THEOREM: runs, however they are interleaved and wherever they die, leave
\* metadata that every command accepts, and no run exits 7.
THEOREM NeverSelfDamagedHolds == Spec => []NeverSelfDamaged
  <1>1. IInv => NeverSelfDamaged
    BY DEF IInv, NeverSelfDamaged, DurableInv, SnapshotShape, MetadataState, ExitInv
  <1>2. QED
    BY <1>1, InductiveInvariant, PTL

\* THEOREM: work and history agree: no unit of work is lost or applied twice.
THEOREM WorkMatchesHistoryHolds == Spec => []WorkMatchesHistory
  <1>1. IInv => WorkMatchesHistory
    BY DEF IInv, DurableInv
  <1>2. QED
    BY <1>1, InductiveInvariant, PTL

\* THEOREM: only the holder of the namespace lock can still write.
THEOREM WritersHoldLockHolds == Spec => []WritersHoldLock
  <1>1. IInv => WritersHoldLock
    BY DEF IInv, WritersHoldLock, LockInv
  <1>2. QED
    BY <1>1, InductiveInvariant, PTL

\* THEOREM: migration code runs only under its durable, current ACTIVE row.
THEOREM CodeRunsAdmittedHolds == Spec => []CodeRunsAdmitted
  <1>1. IInv => CodeRunsAdmitted
    BY DEF IInv, CodeRunsAdmitted, RunInv, ActiveHere
  <1>2. QED
    BY <1>1, InductiveInvariant, PTL

\* THEOREM: exit 0 means that the captured manifest is durably applied.
THEOREM ExitOkMeansAppliedHolds == Spec => []ExitOkMeansApplied
  <1>1. IInv => ExitOkMeansApplied
    BY DEF IInv, ExitOkMeansApplied, ExitInv
  <1>2. QED
    BY <1>1, InductiveInvariant, PTL

-----------------------------------------------------------------------------
(***************************************************************************)
(* Action properties and refinement                                        *)
(***************************************************************************)

\* Nothing but a commit changes the database.
LEMMA OnlyCommitsChange ==
  ASSUME [Next]_vars
  PROVE  UNCHANGED durableVars \/ \E r \in Runners : ServerCommits(r)
  <1>1. ASSUME NEW r \in Runners, Setup(r) PROVE UNCHANGED durableVars
    BY <1>1
       DEF Setup, Start, LockAcquired, LockNotAcquired, SetupFails, Inspect,
           Initialize, ObjectCreated, Initialized, Verify, SetupRejected, BuildPlan
  <1>2. ASSUME NEW r \in Runners, Execute(r) PROVE UNCHANGED durableVars
    BY <1>2
       DEF Execute, FinishRun, BeginAtomic, CompleteAtomic, InsertActiveRow,
           UpdateActiveAttempt, Admitted, ReadCheckpoint, EnterBatch, CommitBatch,
           BatchCommitted, CompleteActiveRow, UnitDone
  <1>3. ASSUME NEW r \in Runners, Teardown(r) PROVE UNCHANGED durableVars
    BY <1>3
       DEF Teardown, CommitRefused, RunFails, OutcomeUnknown, Crash, Close,
           CloseInterrupted
  <1>4. ASSUME NEW r \in Runners, Server(r)
        PROVE  UNCHANGED durableVars \/ ServerCommits(r)
    BY <1>4 DEF Server, GrantLock, RefuseLock, ServerRefuses, SessionEnds
  <1>5. QED
    BY <1>1, <1>2, <1>3, <1>4 DEF Next, EditSource, vars

\* What the invariant says of the unit whose transaction is being committed.
LEMMA CommittedUnit ==
  ASSUME IInv, NEW r \in Runners, reply[r] = "sent", request[r] \in UnitRequests
  PROVE  /\ cur[r] \in Positions
         /\ \A j \in Positions : j < cur[r] => status[j] = "SUCCESS"
         /\ status[cur[r]] = IF request[r] \in {"admit", "atomic"} THEN "NONE"
                                                                   ELSE "ACTIVE"
         /\ cur[r] \in AtomicUnits <=> request[r] = "atomic"
  BY ConstantsAssumption
     DEF IInv, RunInv, InUnit, AtUnit, BeforeCommit, ActiveHere, UnitRequests,
         Positions

\* Every step is one that successful history, first fingerprints and attempt
\* counters allow, for every row.
LEMMA StepKeepsHistory ==
  ASSUME IInv, [Next]_vars, NEW i \in Positions
  PROVE  HistoryStep(i)
  <1>1. CASE UNCHANGED durableVars
    BY <1>1 DEF IInv, TypeOK, HistoryStep, durableVars, historyVars
  <1>2. ASSUME NEW r \in Runners, ServerCommits(r) PROVE HistoryStep(i)
    <2> USE <1>2 DEF IInv, TypeOK, historyVars
    <2>1. CASE request[r] = "object"
      BY <2>1 DEF ServerCommits, CreateObject, HistoryStep
    <2>2. CASE request[r] = "marker"
      BY <2>2 DEF ServerCommits, InsertMarker, HistoryStep
    <2>3. CASE request[r] = "admit"
      BY <2>3, CommittedUnit
         DEF UnitRequests, ServerCommits, DbInsertActive, HistoryStep
    <2>4. CASE request[r] = "retry"
      BY <2>4, CommittedUnit
         DEF UnitRequests, ServerCommits, DbUpdateAttempt, HistoryStep
    <2>5. CASE request[r] = "batch"
      BY <2>5, CommittedUnit DEF UnitRequests, ServerCommits, DbBatch, HistoryStep
    <2>6. CASE request[r] = "complete"
      <3>1. DbComplete(cur[r])
        BY <2>6 DEF ServerCommits
      <3>2. cur[r] \in Positions /\ status[cur[r]] = "ACTIVE"
        BY <2>6, CommittedUnit DEF UnitRequests, ServerCommits
      <3>3. UNCHANGED <<fingerprint, first_fingerprint, attempts, data>>
             /\ status' = [status EXCEPT ![cur[r]] = "SUCCESS"]
             /\ progress' = [progress EXCEPT ![cur[r]] = 0]
        BY <3>1 DEF DbComplete
      <3>4. CASE i = cur[r]
        BY <3>2, <3>3, <3>4 DEF HistoryStep
      <3>5. CASE i # cur[r]
        BY <3>2, <3>3, <3>5 DEF HistoryStep
      <3>6. QED
        BY <3>4, <3>5
    <2>7. CASE request[r] = "atomic"
      BY <2>7, CommittedUnit DEF UnitRequests, ServerCommits, DbAtomic, HistoryStep
    <2>8. QED
      BY <2>1, <2>2, <2>3, <2>4, <2>5, <2>6, <2>7 DEF ServerCommits
  <1>3. QED
    BY <1>1, <1>2, OnlyCommitsChange

\* THEOREM: successful history is immutable, the first fingerprint is kept,
\* rows never disappear and attempts count up by one.
THEOREM HistoryImmutableHolds == Spec => HistoryImmutable
  <1>1. IInv /\ [Next]_vars => [\A i \in Positions : HistoryStep(i)]_vars
    BY StepKeepsHistory
  <1>2. QED
    BY <1>1, InductiveInvariant, PTL DEF Spec, HistoryImmutable

\* THEOREM: the engine implements the ledger.
THEOREM ImplementsLedger == Spec => LedgerSpec
  <1>1. Init => Ledger!LedgerInit
    BY DEF Init, Ledger!LedgerInit, Positions
  <1>2. ASSUME IInv, [Next]_vars
        PROVE  [Ledger!LedgerNext]_(Ledger!ledgerVars)
    <2>1. CASE UNCHANGED durableVars
      BY <2>1 DEF durableVars, historyVars, Ledger!ledgerVars
    <2>2. ASSUME NEW r \in Runners, ServerCommits(r)
          PROVE  [Ledger!LedgerNext]_(Ledger!ledgerVars)
      <3> DEFINE i == cur[r]
      <3> USE <1>2, <2>2 DEF historyVars
      <3>1. CASE request[r] \in {"object", "marker", "retry"}
        BY <3>1
           DEF ServerCommits, CreateObject, InsertMarker, DbUpdateAttempt,
               Ledger!ledgerVars
      <3>2. CASE request[r] \in {"admit", "batch", "complete", "atomic"}
        <4>1. /\ i \in 1..N
              /\ Ledger!PrefixDone(i)
              /\ status[i] = IF request[r] \in {"admit", "atomic"} THEN "NONE"
                                                                  ELSE "ACTIVE"
              /\ i \in AtomicUnits <=> request[r] = "atomic"
          BY <3>2, CommittedUnit
             DEF ServerCommits, UnitRequests, Ledger!PrefixDone, Positions
        <4>2. CASE request[r] = "admit"
          BY <4>1, <4>2
             DEF ServerCommits, DbInsertActive, Ledger!Admit, Ledger!LedgerNext
        <4>3. CASE request[r] = "batch"
          <5>1. data[i] < Batches
            BY <4>1, <4>3
               DEF IInv, RunInv, BeforeCommit, ServerCommits, DurableInv,
                   WorkMatchesHistory, Positions
          <5>2. QED
            BY <4>1, <4>3, <5>1
               DEF ServerCommits, DbBatch, Ledger!Advance, Ledger!LedgerNext
        <4>4. CASE request[r] = "complete"
          <5>1. data[i] = Batches
            BY <4>1, <4>4
               DEF IInv, RunInv, BeforeCommit, ServerCommits, DurableInv,
                   WorkMatchesHistory, Positions
          <5>2. QED
            BY <4>1, <4>4, <5>1
               DEF ServerCommits, DbComplete, Ledger!Finish, Ledger!LedgerNext
        <4>5. CASE request[r] = "atomic"
          <5>1. data[i] + 1 = 1
            BY <4>1, <4>5 DEF IInv, DurableInv, WorkMatchesHistory, Positions
          <5>2. QED
            BY <4>1, <4>5, <5>1
               DEF ServerCommits, DbAtomic, Ledger!Apply, Ledger!LedgerNext
        <4>6. QED
          BY <3>2, <4>2, <4>3, <4>4, <4>5
      <3>3. QED
        BY <3>1, <3>2 DEF ServerCommits
    <2>3. QED
      BY <1>2, <2>1, <2>2, OnlyCommitsChange
  <1>3. IInv /\ [Next]_vars => [Ledger!LedgerNext]_(Ledger!ledgerVars)
    BY <1>2
  <1>4. QED
    BY <1>1, <1>3, InductiveInvariant, PTL DEF Spec, LedgerSpec, Ledger!LedgerSpec

\* THEOREM: an ordinary failure report (exit 3) about a unit is the truth.
THEOREM DefiniteFailuresAreTrueHolds == Spec => DefiniteFailuresAreTrue
  <1>1. ASSUME IInv, [Next]_vars, NEW r \in Runners, ExecutingUnit(r),
               exit[r] = "RUNNING", exit'[r] = "MIGRATION_FAILED"
        PROVE  TruthfulFailure(r)
    <2>1. \/ pc[r] \in {"unit", "entry", "code", "body", "batch"}
          \/ pc[r] = "call" /\ reply[r] = "refused" /\ request[r] \in UnitRequests
      <3> USE <1>1 DEF ExecutingUnit, IInv, TypeOK
      <3>1. ASSUME NEW q \in Runners, q # r, Setup(q) \/ Execute(q) \/ Teardown(q)
            PROVE  exit'[r] = exit[r]
        BY <3>1
           DEF Setup, Start, LockAcquired, LockNotAcquired, SetupFails, Inspect,
               Initialize, ObjectCreated, Initialized, Verify, SetupRejected,
               BuildPlan, Execute, FinishRun, BeginAtomic, CompleteAtomic,
               InsertActiveRow, UpdateActiveAttempt, Admitted,
               ReadCheckpoint, EnterBatch, CommitBatch, BatchCommitted,
               CompleteActiveRow, UnitDone, Teardown, CommitRefused, RunFails,
               OutcomeUnknown, Crash, Close, CloseInterrupted, Settle
      <3>2. ASSUME NEW q \in Runners, Server(q) PROVE exit'[r] = exit[r]
        BY <3>2
           DEF Server, GrantLock, RefuseLock, ServerCommits, ServerRefuses,
               SessionEnds, runnerVars
      <3>3. CASE Setup(r)
        BY <3>3
           DEF Setup, Start, LockAcquired, LockNotAcquired, SetupFails, Inspect,
               Initialize, ObjectCreated, Initialized, Verify, SetupRejected,
               BuildPlan, Settle, Acknowledged
      <3>4. CASE Execute(r)
        BY <3>4
           DEF Execute, FinishRun, BeginAtomic, CompleteAtomic, InsertActiveRow,
               UpdateActiveAttempt, Admitted, ReadCheckpoint, EnterBatch, CommitBatch,
               BatchCommitted, CompleteActiveRow, UnitDone, Settle, Acknowledged
      <3>5. CASE Teardown(r)
        BY <3>5
           DEF Teardown, CommitRefused, RunFails, OutcomeUnknown, Crash, Close,
               CloseInterrupted, Settle, UnitRequests, Working
      <3>6. QED
        BY <3>1, <3>2, <3>3, <3>4, <3>5 DEF Next, EditSource, vars, runnerVars
    <2>2. cur[r] \in Positions
      BY <1>1 DEF ExecutingUnit
    <2>3. status[cur[r]] # "SUCCESS"
      BY <1>1, <2>1, <2>2 DEF IInv, RunInv, BeforeCommit, ActiveHere, UnitRequests
    <2>4. status[cur[r]] = "ACTIVE" => data[cur[r]] = progress[cur[r]]
      BY <1>1, <2>2 DEF IInv, DurableInv, WorkMatchesHistory
    <2>5. pc[r] \in {"code", "batch"} => data[cur[r]] = seen[r]
      BY <1>1, <2>4 DEF IInv, RunInv, ActiveHere
    <2>6. pc[r] = "call" /\ request[r] = "batch" => data[cur[r]] = seen[r]
      BY <1>1, <2>1, <2>4 DEF IInv, RunInv, BeforeCommit, ActiveHere
    <2>7. QED
      BY <2>3, <2>5, <2>6 DEF TruthfulFailure
  <1>2. IInv /\ [Next]_vars
          => [\A r \in Runners :
                 (ExecutingUnit(r) /\ exit[r] = "RUNNING"
                    /\ exit'[r] = "MIGRATION_FAILED") => TruthfulFailure(r)]_vars
    BY <1>1
  <1>3. QED
    BY <1>2, InductiveInvariant, PTL DEF Spec, DefiniteFailuresAreTrue
=============================================================================
