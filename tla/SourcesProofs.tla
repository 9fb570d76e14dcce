--------------------------- MODULE SourcesProofs ----------------------------
(***************************************************************************)
(* The sources of a unit.  The code that runs is the code that was         *)
(* fingerprinted and compiled, for any number of units, edits and runs in  *)
(* one process: staging freezes a unit (Captured), and a package that is   *)
(* not registered has no modules, so what load_entry and the imports after *)
(* it find is the frozen copy.  And the files of a captured unit are its   *)
(* own, for any tree, names and folding of names: a path names one object  *)
(* (OneObject), so the identities of its ancestors are the directories it  *)
(* lies in (AncestorsArePrefixes).                                         *)
(***************************************************************************)
EXTENDS UnitModules, UnitPaths, FiniteSetTheorems, TLAPS

\* The content the working tree starts with is one.
LEMMA FirstContent == [edit |-> 0, compiles |-> TRUE] \in Contents
  BY BoundsAssumption DEF Contents

\* Nothing is staged, loaded or recorded at first.
LEMMA InitIInv ==
  ASSUME ModulesInit
  PROVE  UnitsInv
  <1>1. leaked \in BOOLEAN
    BY DEF ModulesInit
  <1>2. ModulesTypeOK
    BY <1>1, FirstContent, NumUnitsAssumption, BoundsAssumption
       DEF ModulesInit, ModulesTypeOK, Units, Absent, NoModules
  <1>3. StagingInv /\ RecordedWorkWasDone
    BY DEF ModulesInit, StagingInv, RecordedWorkWasDone
  <1>4. ModulesInv
    BY DEF ModulesInit, ModulesInv
  <1>5. QED
    BY <1>2, <1>3, <1>4 DEF UnitsInv

\* Removing the private directory, whatever was unloaded before it.
LEMMA CleanupTypes ==
  ASSUME ModulesTypeOK, Cleanup
  PROVE  /\ phase' = "idle" /\ at' \in Units \union {0} /\ ran' = {}
         /\ staged' \in [Units -> [Files -> Contents \union {NoContent}]]
         /\ fingerprint' \in [Units -> [Files -> Contents \union {NoContent}]]
  BY DEF Cleanup, Absent

\* Unloading a package leaves no module of it and touches no other.
LEMMA UnloadTypes ==
  ASSUME ModulesTypeOK, NEW u \in Units, Unload(u)
  PROVE  /\ modules' \in [Units \X Files -> Contents \union {NoContent}]
         /\ packages' \subseteq Units
         /\ \A m \in Units \X Files : modules'[m] # NoContent => m[1] \in packages'
  BY DEF ModulesTypeOK, Unload, Unloaded

-----------------------------------------------------------------------------
\* An edit of the working tree touches nothing of a run.
LEMMA EditKeeps ==
  ASSUME UnitsInv, NEW u \in Units, NEW f \in Files, Edit(u, f)
  PROVE  UnitsInv'
  <1>1. PICK ok \in BOOLEAN :
            tree' = [tree EXCEPT ![u][f] = [edit |-> edits + 1, compiles |-> ok]]
    BY DEF Edit
  <1>2. [edit |-> edits + 1, compiles |-> ok] \in Contents
    BY BoundsAssumption DEF Edit, UnitsInv, ModulesTypeOK, Contents
  <1>3. tree' \in [Units -> [Files -> Contents]]
    BY <1>1, <1>2 DEF UnitsInv, ModulesTypeOK
  <1>4. ModulesTypeOK'
    BY <1>3, BoundsAssumption DEF Edit, UnitsInv, ModulesTypeOK, run
  <1>5. QED
    BY <1>4 DEF Edit, run, UnitsInv, StagingInv, Captured, CompilePython, ModulesInv,
                RecordedWorkWasDone

\* Copying a file disturbs no unit that was captured before.
LEMMA CopyKeeps ==
  ASSUME UnitsInv, NEW f \in Files, CopyFile(f)
  PROVE  UnitsInv'
  <1>1. at \in Units /\ tree[at][f] \in Contents
    BY DEF CopyFile, UnitsInv, ModulesTypeOK
  <1>2. staged' \in [Units -> [Files -> Contents \union {NoContent}]]
    BY <1>1 DEF CopyFile, UnitsInv, ModulesTypeOK
  <1>3. ModulesTypeOK'
    BY <1>2 DEF CopyFile, UnitsInv, ModulesTypeOK
  <1>4. StagingInv'
    BY DEF CopyFile, UnitsInv, ModulesTypeOK, StagingInv, Captured, Units
  <1>5. QED
    BY <1>3, <1>4 DEF CopyFile, UnitsInv, ModulesInv, RecordedWorkWasDone

\* The fingerprint is taken of the copy.
LEMMA FingerprintKeeps ==
  ASSUME UnitsInv, FingerprintUnit
  PROVE  UnitsInv'
  <1>1. at \in Units /\ phase = "copying"
    BY DEF FingerprintUnit, Copied, UnitsInv, ModulesTypeOK
  <1>2. ModulesTypeOK'
    BY <1>1, NumUnitsAssumption DEF FingerprintUnit, UnitsInv, ModulesTypeOK, Units
  <1>3. \A u \in Units : u = at \/ Captured(u) => Captured(u)'
    BY <1>1 DEF FingerprintUnit, Copied, Captured, UnitsInv, ModulesTypeOK
  <1>4. phase' = "copying" => \A u \in Units : u < at' => u < at \/ u = at
    BY <1>1 DEF FingerprintUnit, Units
  <1>5. phase' # "copying" => \A u \in Units : u < at \/ u = at
    BY <1>1, NumUnitsAssumption DEF FingerprintUnit, Units
  <1>6. StagingInv'
    BY <1>1, <1>3, <1>4, <1>5 DEF FingerprintUnit, UnitsInv, StagingInv
  <1>7. QED
    BY <1>1, <1>2, <1>6 DEF FingerprintUnit, UnitsInv, ModulesInv, RecordedWorkWasDone

\* The start of a run, the calls that only move on, and what ends a run without
\* touching sys.modules.
LEMMA ControlKeeps ==
  ASSUME UnitsInv, StartRun \/ Admission \/ Invoke \/ Interrupted \/ InterruptedLoaded \/ Finish
  PROVE  UnitsInv'
  <1> USE NumUnitsAssumption, BoundsAssumption
  <1>1. leaked' \in BOOLEAN
    BY DEF UnitsInv, ModulesTypeOK, StartRun, Admission, Invoke, Interrupted, InterruptedLoaded, Finish
  <1>2. CASE StartRun
    BY <1>1, <1>2
       DEF StartRun, UnitsInv, ModulesTypeOK, StagingInv, ModulesInv, RecordedWorkWasDone, Units
  <1>3. CASE Admission /\ ~Cleanup
    BY <1>1, <1>3
       DEF Admission, UnitsInv, ModulesTypeOK, StagingInv, Captured, CompilePython, ModulesInv,
           RecordedWorkWasDone
  <1>4. CASE Invoke
    BY <1>1, <1>4
       DEF Invoke, UnitsInv, ModulesTypeOK, StagingInv, Captured, CompilePython, ModulesInv,
           RecordedWorkWasDone
  <1>5. CASE /\ Cleanup /\ (phase \in {"loaded", "running"} => leaked')
             /\ leaked => leaked'
             /\ UNCHANGED <<tree, edits, modules, packages, history, runs>>
    BY <1>1, <1>5, CleanupTypes
       DEF UnitsInv, ModulesTypeOK, StagingInv, ModulesInv, RecordedWorkWasDone
  <1>6. QED
    BY <1>2, <1>3, <1>4, <1>5 DEF Admission, Interrupted, InterruptedLoaded, Finish

-----------------------------------------------------------------------------
\* load_entry: the package was not registered, so none of its modules was there.
LEMMA LoadKeeps ==
  ASSUME UnitsInv, NEW u \in Units, LoadEntry(u)
  PROVE  UnitsInv'
  <1>1. phase = "between" /\ staged[u]["entry"] \in Contents /\ "entry" \in Files
    BY DEF LoadEntry, UnitsInv, ModulesTypeOK, StagingInv, Captured, Files
  <1>2. CASE Cleanup /\ UNCHANGED <<modules, packages>>
    BY <1>1, <1>2, CleanupTypes
       DEF LoadEntry, UnitsInv, ModulesTypeOK, StagingInv, ModulesInv, RecordedWorkWasDone
  <1>3. CASE u \notin packages /\ Cleanup /\ Unload(u)
    <2>1. packages' = packages
      BY <1>3 DEF Unload
    <2>2. ModulesTypeOK'
      BY <1>1, <1>3, CleanupTypes, UnloadTypes DEF LoadEntry, UnitsInv, ModulesTypeOK
    <2>3. QED
      BY <1>1, <1>3, <2>1, <2>2
         DEF LoadEntry, Cleanup, UnitsInv, StagingInv, ModulesInv, RecordedWorkWasDone
  <1>4. CASE /\ u \notin packages
             /\ modules' = [modules EXCEPT ![<<u, "entry">>] = staged[u]["entry"]]
             /\ packages' = packages \union {u}
             /\ phase' = "loaded" /\ at' = u /\ ran' = {<<"entry", staged[u]["entry"]>>}
             /\ UNCHANGED <<staged, fingerprint>>
    <2>1. modules' \in [Units \X Files -> Contents \union {NoContent}]
      BY <1>1, <1>4 DEF UnitsInv, ModulesTypeOK
    <2>2. \A m \in Units \X Files : modules'[m] # NoContent => m[1] \in packages'
      BY <1>1, <1>4 DEF UnitsInv, ModulesTypeOK
    <2>3. ModulesTypeOK'
      BY <1>1, <1>4, <2>1, <2>2 DEF LoadEntry, UnitsInv, ModulesTypeOK, Units
    <2>4. StagingInv'
      BY <1>1, <1>4 DEF UnitsInv, StagingInv, Captured, CompilePython
    <2>5. \A f \in Files : modules[<<u, f>>] = NoContent
      BY <1>4 DEF UnitsInv, ModulesTypeOK
    <2>6. \A f \in Files : modules'[<<u, f>>] \in {NoContent, staged[u][f]}
      BY <1>1, <1>4, <2>5 DEF UnitsInv, ModulesTypeOK
    <2>7. \A x \in ran' : x[2] = staged[u][x[1]]
      BY <1>4
    <2>8. ModulesInv'
      BY <1>1, <1>4, <2>6, <2>7 DEF LoadEntry, UnitsInv, ModulesInv
    <2>9. QED
      BY <2>3, <2>4, <2>8 DEF LoadEntry, UnitsInv, RecordedWorkWasDone
  <1>5. QED
    BY <1>2, <1>3, <1>4 DEF LoadEntry

\* A late import finds the staged helper, in sys.modules or on disk.
LEMMA ImportKeeps ==
  ASSUME UnitsInv, ImportHelper
  PROVE  UnitsInv'
  <1> DEFINE found == modules[<<at, "helper">>]
             used  == IF found # NoContent THEN found ELSE staged[at]["helper"]
  <1>1. phase = "running" /\ at \in Units /\ "helper" \in Files
    BY DEF ImportHelper, UnitsInv, ModulesTypeOK, Files
  <1>2. used = staged[at]["helper"] /\ used \in Contents
    BY <1>1 DEF UnitsInv, ModulesTypeOK, StagingInv, Captured, ModulesInv
  <1> HIDE DEF found, used
  <1>3. /\ modules' = [modules EXCEPT ![<<at, "helper">>] = used]
        /\ ran' = ran \union {<<"helper", used>>}
        /\ UNCHANGED <<tree, edits, phase, at, staged, fingerprint, packages, history,
                       runs, leaked>>
    BY DEF ImportHelper, found, used
  <1>4. at \in packages
    BY <1>1 DEF UnitsInv, ModulesInv
  <1>5. ModulesTypeOK'
    BY <1>1, <1>2, <1>3, <1>4 DEF UnitsInv, ModulesTypeOK
  <1>6. StagingInv' /\ RecordedWorkWasDone'
    BY <1>3 DEF UnitsInv, StagingInv, Captured, CompilePython, RecordedWorkWasDone
  <1>7. \A x \in ran' : x[2] = staged[at][x[1]]
    BY <1>1, <1>2, <1>3 DEF UnitsInv, ModulesInv
  <1>8. \A f \in Files : modules'[<<at, f>>] \in {NoContent, staged[at][f]}
    BY <1>1, <1>2, <1>3 DEF UnitsInv, ModulesTypeOK, ModulesInv
  <1>9. ModulesInv'
    BY <1>1, <1>3, <1>4, <1>7, <1>8 DEF UnitsInv, ModulesInv
  <1>10. QED
    BY <1>5, <1>6, <1>9 DEF UnitsInv

\* The body returns or raises: what is recorded was done by the staged files.
LEMMA ReturnKeeps ==
  ASSUME UnitsInv, Fails \/ \E result \in {"none", "deferred", "value"} : Return(result)
  PROVE  UnitsInv'
  <1>1. phase = "running" /\ at \in Units /\ Unload(at)
        /\ UNCHANGED <<tree, edits, runs, leaked>>
    BY DEF Fails, Return, UnitsInv, ModulesTypeOK
  <1>2. ~leaked => packages' = {}
    BY <1>1 DEF UnitsInv, ModulesInv, Unload
  <1>3. CASE Cleanup /\ UNCHANGED history
    BY <1>1, <1>2, <1>3, CleanupTypes, UnloadTypes
       DEF UnitsInv, ModulesTypeOK, StagingInv, ModulesInv, RecordedWorkWasDone
  <1>4. CASE /\ history' = [history EXCEPT ![at] =
                   [fingerprint |-> fingerprint[at], ran |-> ran, worked |-> TRUE]]
             /\ phase' = "between" /\ at' = 0 /\ ran' = {}
             /\ UNCHANGED <<staged, fingerprint>>
    <2>1. [fingerprint |-> fingerprint[at], ran |-> ran, worked |-> TRUE] \in Rows
      BY <1>1 DEF UnitsInv, ModulesTypeOK, Rows
    <2>2. history' \in [Units -> Rows \union {NoContent}]
      BY <1>1, <1>4, <2>1 DEF UnitsInv, ModulesTypeOK
    <2>3. ModulesTypeOK'
      BY <1>1, <1>4, <2>2, UnloadTypes DEF UnitsInv, ModulesTypeOK
    <2>4. StagingInv'
      BY <1>1, <1>4 DEF UnitsInv, StagingInv, Captured, CompilePython
    <2>5. ModulesInv'
      BY <1>1, <1>2, <1>4 DEF UnitsInv, ModulesInv
    <2>6. \A x \in ran : x[2] = fingerprint[at][x[1]]
      BY <1>1 DEF UnitsInv, StagingInv, Captured, ModulesInv
    <2>7. RecordedWorkWasDone'
      BY <1>1, <1>4, <2>6 DEF UnitsInv, ModulesTypeOK, RecordedWorkWasDone
    <2>8. QED
      BY <2>3, <2>4, <2>5, <2>7 DEF UnitsInv
  <1>5. QED
    BY <1>3, <1>4 DEF Fails, Return, ResultAccepted

\* Every step keeps the invariant.
LEMMA NextIInv ==
  ASSUME UnitsInv, [ModulesNext]_moduleVars
  PROVE  UnitsInv'
  <1>1. CASE UNCHANGED moduleVars
    BY <1>1 DEF moduleVars, run, UnitsInv, ModulesTypeOK, StagingInv, Captured, CompilePython, ModulesInv,
                RecordedWorkWasDone
  <1>2. QED
    BY <1>1, EditKeeps, CopyKeeps, FingerprintKeeps, ControlKeeps, LoadKeeps, ImportKeeps,
       ReturnKeeps DEF ModulesNext

-----------------------------------------------------------------------------
\* The invariant holds of every behaviour.
THEOREM InductiveInvariant == ModulesSpec => []UnitsInv
  <1>1. ModulesInit => UnitsInv
    BY InitIInv
  <1>2. UnitsInv /\ [ModulesNext]_moduleVars => UnitsInv'
    BY NextIInv
  <1>3. QED
    BY <1>1, <1>2, PTL DEF ModulesSpec

\* THEOREM: whatever is edited and whatever earlier runs left in sys.modules, an
\* attempt executes exactly what its fingerprint covers, all of it compiled
\* before anything ran, a recorded success was done by it, and a run that is
\* over leaves no module behind (stage, compile_python, load_entry, unload).
THEOREM ModulesSafetyHolds == ModulesSpec => []ModulesSafety
  <1>1. ASSUME UnitsInv, NEW x \in ran
        PROVE  /\ phase \in {"loaded", "running"} /\ at \in Units /\ x[1] \in Files
               /\ x[2] = staged[at][x[1]] /\ Captured(at) /\ CompilePython(at)
    BY <1>1 DEF UnitsInv, ModulesTypeOK, StagingInv, ModulesInv
  <1>2. UnitsInv => RanWhatWasFingerprinted /\ SyntaxErrorsStopEarly
    BY <1>1 DEF RanWhatWasFingerprinted, SyntaxErrorsStopEarly, Captured, CompilePython
  <1>3. ASSUME UnitsInv, ~leaked, phase = "idle"
        PROVE  packages = {} /\ modules = NoModules
    <2>1. packages = {}
      BY <1>3 DEF UnitsInv, ModulesInv
    <2>2. modules \in [Units \X Files -> Contents \union {NoContent}]
          /\ \A m \in Units \X Files : modules[m] = NoContent
      BY <1>3, <2>1 DEF UnitsInv, ModulesTypeOK
    <2>3. QED
      BY <2>1, <2>2 DEF NoModules
  <1>4. UnitsInv => ModulesSafety
    BY <1>2, <1>3 DEF ModulesSafety, ModulesDiscarded
  <1>5. QED
    BY <1>4, InductiveInvariant, PTL

-----------------------------------------------------------------------------
(* Unit paths *)

\* A path is a sequence of names, and so is each beginning of it.
LEMMA PathPrefix ==
  ASSUME NEW p \in Paths
  PROVE  /\ p \in Seq(FileNames) /\ Len(p) \in 1 .. MaxDepth /\ DOMAIN p = 1 .. Len(p)
         /\ \A k \in 1 .. Len(p) :
               /\ SubSeq(p, 1, k) \in Paths /\ Len(SubSeq(p, 1, k)) = k
               /\ \A i \in 1 .. k : SubSeq(p, 1, k)[i] = p[i]
  <1>1. PICK n \in 1 .. MaxDepth : p \in [1 .. n -> FileNames]
    BY DEF Paths
  <1>2. p \in Seq(FileNames) /\ Len(p) = n /\ DOMAIN p = 1 .. n
    BY <1>1, TreeBoundsAssumption
  <1>3. ASSUME NEW k \in 1 .. Len(p)
        PROVE  /\ SubSeq(p, 1, k) \in Paths /\ Len(SubSeq(p, 1, k)) = k
               /\ \A i \in 1 .. k : SubSeq(p, 1, k)[i] = p[i]
    <2>1. k \in 1 .. MaxDepth /\ SubSeq(p, 1, k) = [i \in 1 .. k |-> p[i]]
      BY <1>2, TreeBoundsAssumption
    <2>2. [i \in 1 .. k |-> p[i]] \in [1 .. k -> FileNames]
      BY <1>1, <1>2, <2>1
    <2>3. SubSeq(p, 1, k) \in Paths
      BY <2>1, <2>2 DEF Paths
    <2>4. QED
      BY <2>1, <2>2, <2>3, <1>2
  <1>4. QED
    BY <1>2, <1>3

\* Paths that fold to the same have beginnings that do.
LEMMA FoldedPrefix ==
  ASSUME NEW p \in Paths, NEW q \in Paths, Folded(p) = Folded(q)
  PROVE  /\ Len(p) = Len(q)
         /\ \A k \in 1 .. Len(p) :
               /\ Casefold[p[k]] = Casefold[q[k]]
               /\ Folded(SubSeq(p, 1, k)) = Folded(SubSeq(q, 1, k))
  <1>1. /\ DOMAIN p = 1 .. Len(p) /\ DOMAIN q = 1 .. Len(q)
        /\ Len(p) \in Nat \ {0} /\ Len(q) \in Nat \ {0}
    BY PathPrefix, TreeBoundsAssumption
  <1>2. DOMAIN p = DOMAIN q
    BY DEF Folded
  <1>3. Len(p) = Len(q)
    <2> DEFINE m == Len(p)
               n == Len(q)
    <2>1. m \in Nat \ {0} /\ n \in Nat \ {0} /\ 1 .. m = 1 .. n
      BY <1>1, <1>2
    <2> HIDE DEF m, n
    <2>2. m \in 1 .. n /\ n \in 1 .. m
      BY <2>1
    <2>3. m = n
      BY <2>1, <2>2
    <2>4. QED
      BY <2>3 DEF m, n
  <1>4. \A k \in 1 .. Len(p) : Casefold[p[k]] = Casefold[q[k]]
    BY <1>1, <1>2 DEF Folded
  <1>5. ASSUME NEW k \in 1 .. Len(p)
        PROVE  Folded(SubSeq(p, 1, k)) = Folded(SubSeq(q, 1, k))
    <2> DEFINE u == SubSeq(p, 1, k)
               v == SubSeq(q, 1, k)
    <2>1. u \in Paths /\ v \in Paths /\ Len(u) = k /\ Len(v) = k
      BY PathPrefix, <1>3
    <2>2. DOMAIN u = 1 .. k /\ DOMAIN v = 1 .. k
      BY PathPrefix, <2>1
    <2>3. \A i \in 1 .. k : u[i] = p[i] /\ v[i] = q[i]
      BY PathPrefix, <1>3
    <2>4. \A i \in 1 .. k : Casefold[u[i]] = Casefold[v[i]]
      BY <2>3, <1>4, <1>1
    <2> HIDE DEF u, v
    <2>5. Folded(u) = Folded(v)
      BY <2>2, <2>4 DEF Folded
    <2>6. QED
      BY <2>5 DEF u, v
  <1>6. QED
    BY <1>3, <1>4, <1>5

\* A path that names something names one object, whose path is as long.
LEMMA OneObject ==
  ASSUME TreeInv, NEW p \in Paths, NEW e \in Named(p)
  PROVE  /\ e \in entries /\ e.path \in Paths /\ Len(e.path) = Len(p)
         /\ Named(p) = {e} /\ Identity(p) = e.path
  <1>1. e \in entries /\ e.path \in Paths
    BY DEF Named, TreeInv
  <1>2. Len(e.path) = Len(p)
    BY <1>1, FoldedPrefix DEF Named, SamePath
  <1>3. Named(e.path) = {e}
    BY <1>1 DEF TreeInv
  <1>4. ASSUME NEW d \in Named(p)
        PROVE  d = e
    <2>1. d \in Named(e.path)
      BY DEF Named, SamePath
    <2>2. QED
      BY <2>1, <1>3
  <1>5. Named(p) = {e}
    BY <1>4
  <1>6. QED
    BY <1>1, <1>2, <1>5 DEF Identity

\* The directories above an object are the beginnings of its path, however the
\* manifest spells them: comparing identities of ancestors compares these.
LEMMA AncestorsArePrefixes ==
  ASSUME TreeInv, NEW p \in Paths, NEW e \in Named(p), NEW k \in 1 .. Len(p) - 1
  PROVE  SubSeq(e.path, 1, k) \in Ancestors(p)
  <1> DEFINE d == [path |-> SubSeq(e.path, 1, k), kind |-> "dir"]
             u == SubSeq(p, 1, k)
  <1>1. e \in entries /\ e.path \in Paths /\ Len(e.path) = Len(p)
    BY OneObject
  <1>2. Len(p) \in Nat /\ k \in 1 .. Len(p)
    BY PathPrefix, TreeBoundsAssumption
  <1>3. d \in entries
    BY <1>1 DEF TreeInv
  <1>4. e.path = p \/ (folds /\ Folded(e.path) = Folded(p))
    BY DEF Named, SamePath
  <1>5. d.path = u \/ (folds /\ Folded(d.path) = Folded(u))
    BY <1>1, <1>2, <1>4, FoldedPrefix
  <1>6. d \in Named(u) /\ u \in Paths
    <2>1. Len(d.path) = k /\ Len(u) = k /\ u \in Paths
      BY <1>1, <1>2, PathPrefix
    <2> HIDE DEF d, u
    <2>2. QED
      BY <1>3, <1>5, <2>1 DEF Named, SamePath
  <1> HIDE DEF d, u
  <1>7. Identity(u) = d.path
    BY <1>6, OneObject
  <1>8. QED
    BY <1>7 DEF Ancestors, d, u

\* The files of a unit lie under the directory it names.
LEMMA FilesUnder ==
  ASSUME TreeInv, NEW p \in Paths, NEW e \in Named(p), NEW f \in FilesOf(p)
  PROVE  f \in Paths /\ Len(p) <= Len(f) /\ e.path = SubSeq(f, 1, Len(p))
  <1>1. PICK g \in entries : g.path = f /\ IsStrictPrefix(Identity(p), g.path)
    BY DEF FilesOf, Under
  <1>2. f \in Paths
    BY <1>1 DEF TreeInv
  <1>3. Identity(p) = e.path /\ Len(e.path) = Len(p) /\ e.path \in Paths
    BY OneObject
  <1>4. Len(p) <= Len(f) /\ SubSeq(e.path, 1, Len(p)) = SubSeq(f, 1, Len(p))
    BY <1>1, <1>3 DEF IsStrictPrefix, IsPrefix
  <1>5. SubSeq(e.path, 1, Len(p)) = e.path
    BY <1>3, PathPrefix
  <1>6. QED
    BY <1>2, <1>4, <1>5

\* check_units_disjoint: neither unit has a file of the other, the shorter path
\* first.
LEMMA DisjointInOrder ==
  ASSUME TreeInv, NEW p \in Paths, NEW q \in Paths, Named(p) # {}, Named(q) # {},
         Len(p) <= Len(q), Identity(p) # Identity(q), Identity(p) \notin Ancestors(q)
  PROVE  FilesOf(p) \intersect FilesOf(q) = {}
  <1>1. PICK d \in Named(p), e \in Named(q) : TRUE
    OBVIOUS
  <1>2. SUFFICES ASSUME NEW f \in FilesOf(p), f \in FilesOf(q)
                 PROVE  FALSE
    OBVIOUS
  <1>3. f \in Paths /\ d.path = SubSeq(f, 1, Len(p)) /\ e.path = SubSeq(f, 1, Len(q))
        /\ Len(q) <= Len(f)
    BY <1>1, <1>2, FilesUnder
  <1>4. Identity(p) = d.path /\ Identity(q) = e.path
    BY <1>1, OneObject
  <1>5. Len(p) \in Nat \ {0} /\ Len(q) \in Nat /\ Len(f) \in Nat /\ f \in Seq(FileNames)
    <2>1. f \in Paths
      BY <1>3
    <2>2. Len(p) \in 1 .. MaxDepth /\ Len(q) \in 1 .. MaxDepth
          /\ Len(f) \in 1 .. MaxDepth /\ f \in Seq(FileNames)
      BY <2>1, PathPrefix
    <2>3. QED
      BY <2>2, TreeBoundsAssumption
  <1>6. CASE Len(p) = Len(q)
    BY <1>3, <1>4, <1>6
  <1>7. CASE Len(p) < Len(q)
    <2>1. Len(p) \in 1 .. Len(q) - 1
      BY <1>5, <1>7
    <2>2. SubSeq(e.path, 1, Len(p)) \in Ancestors(q)
      BY <1>1, <2>1, AncestorsArePrefixes
    <2>3. SubSeq(SubSeq(f, 1, Len(q)), 1, Len(p)) = SubSeq(f, 1, Len(p))
      BY <1>3, <1>5, <1>7
    <2>4. QED
      BY <2>2, <2>3, <1>3, <1>4
  <1>8. QED
    BY <1>5, <1>6, <1>7

LEMMA DisjointUnits ==
  ASSUME TreeInv, NEW p \in Paths, NEW q \in Paths, ResolveUnitDir(p), ResolveUnitDir(q),
         CheckUnitsDisjoint(p, q)
  PROVE  FilesOf(p) \intersect FilesOf(q) = {}
  <1>1. Named(p) # {} /\ Named(q) # {}
    BY DEF ResolveUnitDir
  <1>2. Len(p) \in Nat /\ Len(q) \in Nat
    BY PathPrefix, TreeBoundsAssumption
  <1>3. CASE Len(p) <= Len(q)
    BY <1>1, <1>3, DisjointInOrder DEF CheckUnitsDisjoint
  <1>4. CASE Len(q) <= Len(p)
    BY <1>1, <1>4, DisjointInOrder DEF CheckUnitsDisjoint
  <1>5. QED
    BY <1>2, <1>3, <1>4

-----------------------------------------------------------------------------
(* A unit's files in another checkout *)

\* The beginnings of files are paths.
LEMMA PrefixesArePaths ==
  ASSUME NEW files, files \subseteq Paths
  PROVE  /\ PrefixesOf(files) \subseteq Paths
         /\ \A f \in files : \A k \in 1 .. Len(f) : SubSeq(f, 1, k) \in PrefixesOf(files)
  <1>1. ASSUME NEW x \in PrefixesOf(files)
        PROVE  x \in Paths
    <2>1. PICK f \in files : \E k \in 0 .. Len(f) : x = SubSeq(f, 1, k)
      BY DEF PrefixesOf, Prefixes
    <2>2. PICK k \in 0 .. Len(f) : x = SubSeq(f, 1, k)
      BY <2>1
    <2>3. f \in Paths
      BY <2>1
    <2>4. Len(f) \in Nat /\ f \in Seq(FileNames)
      BY <2>3, PathPrefix, TreeBoundsAssumption
    <2>5. x # <<>>
      BY DEF PrefixesOf
    <2>6. k # 0
      BY <2>2, <2>4, <2>5
    <2>7. k \in 1 .. Len(f)
      BY <2>2, <2>4, <2>6
    <2>8. QED
      BY <2>2, <2>3, <2>7, PathPrefix
  <1>2. ASSUME NEW f \in files, NEW k \in 1 .. Len(f)
        PROVE  SubSeq(f, 1, k) \in PrefixesOf(files)
    <2>1. f \in Paths
      OBVIOUS
    <2>2. Len(f) \in Nat
      BY <2>1, PathPrefix, TreeBoundsAssumption
    <2>3. k \in 0 .. Len(f)
      BY <2>2
    <2>4. Len(SubSeq(f, 1, k)) = k
      BY <2>1, PathPrefix
    <2>5. SubSeq(f, 1, k) # <<>>
      BY <2>2, <2>4
    <2>6. QED
      BY <2>3, <2>5 DEF PrefixesOf, Prefixes
  <1>3. QED
    BY <1>1, <1>2

\* However the checkout spells a component of a file, it folds as before.
LEMMA SpellingFolds ==
  ASSUME NEW files, files \subseteq Paths, NEW f \in files, NEW k \in 1 .. Len(f)
  PROVE  Casefold[Last(Spelling(files, SubSeq(f, 1, k)))] = Casefold[f[k]]
  <1> DEFINE u == SubSeq(f, 1, k)
             q == Spelling(files, u)
  <1>1. f \in Paths
    OBVIOUS
  <1>2. u \in PrefixesOf(files) /\ u \in Paths /\ Len(u) = k
    BY <1>1, PrefixesArePaths, PathPrefix
  <1>3. Len(f) \in Nat /\ k \in 1 .. k
    BY <1>1, PathPrefix, TreeBoundsAssumption
  <1>4. u[k] = f[k]
    BY <1>1, <1>3, PathPrefix
  <1> HIDE DEF u
  <1>5. q \in PrefixesOf(files) /\ Folded(q) = Folded(u)
    BY <1>2 DEF Spelling
  <1> HIDE DEF q
  <1>6. q \in Paths
    BY <1>5, PrefixesArePaths
  <1>7. Len(u) = Len(q) /\ Casefold[u[k]] = Casefold[q[k]]
    BY <1>2, <1>3, <1>5, <1>6, FoldedPrefix
  <1>8. QED
    BY <1>2, <1>4, <1>7 DEF Last, q, u

\* check_no_case_collisions: files that fold to different paths stay as many.
LEMMA CheckedOutApart ==
  ASSUME NEW files, files \subseteq Paths, IsFiniteSet(files), CheckNoCaseCollisions(files)
  PROVE  Cardinality(CheckedOut(files)) = Cardinality(files)
  <1> DEFINE Out(f) == [k \in DOMAIN f |-> Last(Spelling(files, SubSeq(f, 1, k)))]
             g == [f \in files |-> Out(f)]
  <1>1. CheckedOut(files) = {Out(f) : f \in files}
    BY DEF CheckedOut
  <1>2. ASSUME NEW f \in files, NEW h \in files, Out(f) = Out(h)
        PROVE  f = h
    <2>1. DOMAIN f = 1 .. Len(f) /\ DOMAIN h = 1 .. Len(h)
      BY PathPrefix
    <2>2. DOMAIN f = DOMAIN h
      BY <1>2
    <2>3. \A k \in DOMAIN f : Out(f)[k] = Out(h)[k]
      BY <1>2
    <2>4. \A k \in DOMAIN f : Casefold[f[k]] = Casefold[Out(f)[k]]
      BY <2>1, SpellingFolds
    <2>5. \A k \in DOMAIN f : Casefold[h[k]] = Casefold[Out(h)[k]]
      BY <2>1, <2>2, SpellingFolds
    <2> HIDE DEF Out
    <2>6. \A k \in DOMAIN f : Casefold[f[k]] = Casefold[h[k]]
      BY <2>3, <2>4, <2>5
    <2>7. Folded(f) = Folded(h)
      BY <2>2, <2>6 DEF Folded
    <2>8. QED
      BY <2>7 DEF CheckNoCaseCollisions
  <1>3. \A f \in files : g[f] = Out(f)
    OBVIOUS
  <1>4. g \in [files -> CheckedOut(files)]
    BY <1>1
  <1> HIDE DEF Out, g
  <1>5. \A y \in CheckedOut(files) : \E f \in files : g[f] = y
    BY <1>1, <1>3
  <1>6. \A f, h \in files : g[f] = g[h] => f = h
    BY <1>2, <1>3
  <1>7. g \in Surjection(files, CheckedOut(files)) /\ g \in Injection(files, CheckedOut(files))
    BY <1>4, <1>5, <1>6 DEF Surjection, Injection, IsInjective
  <1>8. QED
    BY <1>7, FS_Surjection

\* The files of a unit, relative to it, are finitely many paths.
LEMMA RelativePaths ==
  ASSUME TreeInv, NEW p \in Paths, Named(p) # {}
  PROVE  Relative(p, FilesOf(p)) \subseteq Paths /\ IsFiniteSet(Relative(p, FilesOf(p)))
  <1> DEFINE In == {e \in Under(p) : e.kind = "file"}
             rel == [e \in In |-> SubSeq(e.path, Len(p) + 1, Len(e.path))]
  <1>1. PICK d \in Named(p) : TRUE
    OBVIOUS
  <1>2. IsFiniteSet(In)
    BY FS_Subset DEF TreeInv, Under
  <1>3. Relative(p, FilesOf(p)) = {rel[e] : e \in In}
    BY DEF Relative, FilesOf
  <1>4. rel \in Surjection(In, Relative(p, FilesOf(p)))
    <2>1. DOMAIN rel = In
      OBVIOUS
    <2> HIDE DEF In
    <2>2. rel \in [In -> {rel[e] : e \in In}]
      OBVIOUS
    <2> HIDE DEF rel
    <2>3. QED
      BY <1>3, <2>2 DEF Surjection
  <1>5. ASSUME NEW e \in In
        PROVE  rel[e] \in Paths
    <2>1. e.path \in FilesOf(p) /\ e \in entries /\ IsStrictPrefix(Identity(p), e.path)
      BY DEF FilesOf, Under
    <2> DEFINE f == e.path
    <2>2. f \in Paths /\ Len(p) <= Len(f) /\ d.path = SubSeq(f, 1, Len(p))
      BY <1>1, <2>1, FilesUnder
    <2>3. f # d.path
      BY <1>1, <2>1, OneObject DEF IsStrictPrefix
    <2>4. f \in Seq(FileNames) /\ Len(f) \in 1 .. MaxDepth /\ Len(p) \in 1 .. MaxDepth
      BY <2>2, PathPrefix
    <2>5. SubSeq(f, 1, Len(f)) = f
      BY <2>4
    <2>6. Len(p) < Len(f)
      BY <2>2, <2>3, <2>4, <2>5, TreeBoundsAssumption
    <2>7. rel[e] = SubSeq(f, Len(p) + 1, Len(f))
      OBVIOUS
    <2> HIDE DEF rel, In, f
    <2>8. Len(f) - Len(p) \in 1 .. MaxDepth
      BY <2>4, <2>6, TreeBoundsAssumption
    <2>9. SubSeq(f, Len(p) + 1, Len(f)) \in [1 .. Len(f) - Len(p) -> FileNames]
      <3> DEFINE m == Len(p)
                 n == Len(f)
      <3>1. m \in Nat /\ n \in Nat /\ m < n /\ f \in [1 .. n -> FileNames]
        BY <2>4, <2>6, TreeBoundsAssumption
      <3>2. SubSeq(f, m + 1, n) = [i \in 1 .. n - m |-> f[i + m]]
        BY <2>4, <3>1
      <3> HIDE DEF m, n
      <3>3. \A i \in 1 .. n - m : f[i + m] \in FileNames
        BY <3>1
      <3>4. QED
        BY <3>2, <3>3 DEF m, n
    <2>10. QED
      BY <2>7, <2>8, <2>9 DEF Paths
  <1> HIDE DEF In, rel
  <1>6. IsFiniteSet(Relative(p, FilesOf(p)))
    BY <1>2, <1>4, FS_Surjection
  <1>7. QED
    BY <1>3, <1>5, <1>6

-----------------------------------------------------------------------------
(* The steps *)

LEMMA CreateKeeps ==
  ASSUME TreeInv, NEW p \in Paths, NEW kind \in Kinds, Create(p, kind)
  PROVE  TreeInv'
  <1> DEFINE n == [path |-> p, kind |-> kind]
  <1>1. entries' = entries \union {n} /\ folds' = folds /\ Named(p) = {}
    BY DEF Create
  <1>2. n \in [path : Paths, kind : Kinds] /\ n.path = p
    OBVIOUS
  <1> HIDE DEF n
  <1>3. folds' \in BOOLEAN /\ entries' \subseteq [path : Paths, kind : Kinds]
    BY <1>1, <1>2 DEF TreeInv
  <1>4. IsFiniteSet(entries')
    BY <1>1, FS_AddElement DEF TreeInv
  <1>5. ASSUME NEW k \in 1 .. Len(p) - 1
        PROVE  [path |-> SubSeq(p, 1, k), kind |-> "dir"] \in entries
    <2>1. p \in Seq(FileNames) /\ Len(p) \in Nat
      BY PathPrefix, TreeBoundsAssumption
    <2>2. Len(p) > 1
      BY <2>1
    <2> DEFINE d == [path |-> SubSeq(p, 1, Len(p) - 1), kind |-> "dir"]
    <2>3. d \in entries /\ d.path = SubSeq(p, 1, Len(p) - 1)
      BY <2>2 DEF Create, Front
    <2>4. CASE k = Len(p) - 1
      BY <2>3, <2>4
    <2>5. CASE k < Len(p) - 1
      <3>1. Len(d.path) = Len(p) - 1 /\ SubSeq(d.path, 1, k) = SubSeq(p, 1, k)
        BY <2>1, <2>2, <2>3, <2>5
      <3>2. k \in 1 .. Len(d.path) - 1
        BY <2>1, <2>5, <3>1
      <3> HIDE DEF d
      <3>3. [path |-> SubSeq(d.path, 1, k), kind |-> "dir"] \in entries
        BY <2>3, <3>2 DEF TreeInv
      <3>4. QED
        BY <3>1, <3>3
    <2>6. QED
      BY <2>1, <2>4, <2>5
  <1>6. \A e \in entries' : \A k \in 1 .. Len(e.path) - 1 :
           [path |-> SubSeq(e.path, 1, k), kind |-> "dir"] \in entries'
    BY <1>1, <1>2, <1>5 DEF TreeInv
  <1>7. ASSUME NEW e \in entries
        PROVE  {x \in entries' : SamePath(x.path, e.path)} = {e}
    <2>1. e \notin Named(p)
      BY <1>1
    <2>2. ~SamePath(p, e.path)
      BY <2>1 DEF Named, SamePath
    <2>3. Named(e.path) = {e}
      BY DEF TreeInv
    <2>4. QED
      BY <1>1, <1>2, <2>2, <2>3 DEF Named
  <1>8. {x \in entries' : SamePath(x.path, p)} = {n}
    BY <1>1, <1>2 DEF Named, SamePath
  <1>9. \A e \in entries' : Named(e.path)' = {e}
    BY <1>1, <1>2, <1>7, <1>8 DEF Named, SamePath
  <1>10. QED
    BY <1>3, <1>4, <1>6, <1>9 DEF TreeInv

LEMMA CaptureKeeps ==
  ASSUME TreeInv, NEW n \in 1 .. MaxUnits, NEW units \in [1 .. n -> UnitDirs], Capture(units)
  PROVE  UnitsShareNoFile' /\ NoTwoFilesBecomeOne'
  <1>1. /\ DOMAIN captured' = 1 .. n
        /\ \A i \in 1 .. n : /\ captured'[i].dir = units[i]
                             /\ captured'[i].files = FilesOf(units[i])
    BY DEF Capture
  <1>2. \A i \in 1 .. n : /\ units[i] \in Paths /\ ResolveUnitDir(units[i])
                         /\ ScanUnit(units[i]) /\ Named(units[i]) # {}
    BY DEF Capture, UnitDirs, ResolveUnitDir
  <1>3. ASSUME NEW i \in 1 .. n, NEW j \in 1 .. n, i # j
        PROVE  FilesOf(units[i]) \intersect FilesOf(units[j]) = {}
    <2>1. CASE i < j
      <3>1. CheckUnitsDisjoint(units[i], units[j])
        BY <2>1 DEF Capture
      <3>2. QED
        BY <1>2, <3>1, DisjointUnits
    <2>2. CASE j < i
      <3>1. CheckUnitsDisjoint(units[j], units[i])
        BY <2>2 DEF Capture
      <3>2. FilesOf(units[j]) \intersect FilesOf(units[i]) = {}
        BY <1>2, <3>1, DisjointUnits
      <3>3. QED
        BY <3>2
    <2>3. QED
      BY <1>3, <2>1, <2>2, TreeBoundsAssumption
  <1>4. UnitsShareNoFile'
    BY <1>1, <1>3 DEF UnitsShareNoFile
  <1>5. ASSUME NEW i \in 1 .. n
        PROVE  LET files == Relative(captured'[i].dir, captured'[i].files)
               IN  Cardinality(CheckedOut(files)) = Cardinality(files)
    <2> DEFINE files == Relative(units[i], FilesOf(units[i]))
    <2>1. files \subseteq Paths /\ IsFiniteSet(files)
      BY <1>2, RelativePaths
    <2>2. CheckNoCaseCollisions(files)
      BY <1>2 DEF ScanUnit
    <2> HIDE DEF files
    <2>3. Cardinality(CheckedOut(files)) = Cardinality(files)
      BY <2>1, <2>2, CheckedOutApart
    <2>4. QED
      BY <1>1, <2>3 DEF files
  <1>6. NoTwoFilesBecomeOne'
    BY <1>1, <1>5 DEF NoTwoFilesBecomeOne
  <1>7. QED
    BY <1>4, <1>6

\* THEOREM: for any names and any folding of them, any tree and any manifest, a
\* captured unit's files are its own and stay apart in a checkout that folds case
\* (check_units_disjoint, check_no_case_collisions).
THEOREM CapturedFilesDistinctHolds == PathsSpec => []CapturedFilesDistinct
  <1>1. ASSUME PathsInit
        PROVE  CapturedFilesDistinct
    <2>1. TreeInv
      BY <1>1, FS_EmptySet DEF PathsInit, TreeInv
    <2>2. DOMAIN captured = {}
      BY <1>1 DEF PathsInit
    <2>3. QED
      BY <2>1, <2>2 DEF CapturedFilesDistinct, UnitsShareNoFile, NoTwoFilesBecomeOne
  <1>2. ASSUME CapturedFilesDistinct, [PathsNext]_pathVars
        PROVE  CapturedFilesDistinct'
    <2>1. TreeInv
      BY <1>2 DEF CapturedFilesDistinct
    <2>2. ASSUME UNCHANGED <<folds, entries>>
          PROVE  TreeInv'
      BY <2>1, <2>2 DEF TreeInv, Named, SamePath
    <2>3. ASSUME captured' = <<>> \/ captured' = captured
          PROVE  UnitsShareNoFile' /\ NoTwoFilesBecomeOne'
      <3>1. CASE captured' = captured
        BY <1>2, <3>1 DEF CapturedFilesDistinct, UnitsShareNoFile, NoTwoFilesBecomeOne
      <3>2. CASE captured' = <<>>
        <4>1. DOMAIN captured' = {}
          BY <3>2
        <4>2. QED
          BY <4>1 DEF UnitsShareNoFile, NoTwoFilesBecomeOne
      <3>3. QED
        BY <2>3, <3>1, <3>2
    <2>4. CASE \E p \in Paths, kind \in Kinds : Create(p, kind)
      <3>1. PICK p \in Paths, kind \in Kinds : Create(p, kind)
        BY <2>4
      <3>2. TreeInv'
        BY <2>1, <3>1, CreateKeeps
      <3>3. captured' = captured
        BY <3>1 DEF Create
      <3>4. QED
        BY <2>3, <3>2, <3>3 DEF CapturedFilesDistinct
    <2>5. CASE \E n \in 1 .. MaxUnits : \E units \in [1 .. n -> UnitDirs] : Capture(units)
      <3>1. PICK n \in 1 .. MaxUnits : \E units \in [1 .. n -> UnitDirs] : Capture(units)
        BY <2>5
      <3>2. PICK units \in [1 .. n -> UnitDirs] : Capture(units)
        BY <3>1
      <3>3. UNCHANGED <<folds, entries>>
        BY <3>2 DEF Capture
      <3>4. UnitsShareNoFile' /\ NoTwoFilesBecomeOne'
        BY <2>1, <3>2, CaptureKeeps
      <3>5. QED
        BY <2>2, <3>3, <3>4 DEF CapturedFilesDistinct
    <2>6. CASE Release \/ UNCHANGED pathVars
      <3>1. UNCHANGED <<folds, entries>> /\ (captured' = <<>> \/ captured' = captured)
        BY <2>6 DEF Release, pathVars
      <3>2. QED
        BY <2>2, <2>3, <3>1 DEF CapturedFilesDistinct
    <2>7. QED
      BY <1>2, <2>4, <2>5, <2>6 DEF PathsNext
  <1>3. QED
    BY <1>1, <1>2, PTL DEF PathsSpec

=============================================================================
