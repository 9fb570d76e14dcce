---------------------------- MODULE UnitModules ----------------------------
(***************************************************************************)
(* From the working tree to the code that runs: migrate copies every unit  *)
(* file by file into a private directory, fingerprints the copies,         *)
(* compiles them, and imports each unit under a package of its own in      *)
(* sys.modules.  The working tree is edited at any moment, a helper may be *)
(* imported as late as inside migrate(ctx), and one process may make       *)
(* several runs, a recovery run among them.                                *)
(*                                                                         *)
(* A unit is an entry file and a helper the entry may import.  The package *)
(* name is injective in the id, so a module is named by its unit and file. *)
(***************************************************************************)
EXTENDS Integers

CONSTANTS
    NumUnits,       \* the manifest's Python migrations, all of them pending at first
    NoContent,      \* a file that does not exist
    MaxEdits,       \* bound: edits of the working tree
    MaxRuns         \* bound: runs in one process

ASSUME NumUnitsAssumption == NumUnits \in Nat \ {0}
ASSUME BoundsAssumption == MaxEdits \in Nat /\ MaxRuns \in Nat \ {0}

Units == 1 .. NumUnits
Files == {"entry", "helper"}

\* What a file holds: the edit that wrote it, and whether Python can compile it.
Contents == [edit : 0 .. MaxEdits, compiles : BOOLEAN]
ASSUME NoContentAssumption == NoContent \notin Contents

VARIABLES
    tree,           \* the working tree: unit -> file -> content
    edits,          \* edits made so far
    phase,          \* where the run is; see ModulesTypeOK
    at,             \* the unit being staged or run
    staged,         \* the private directory: unit -> file -> content
    fingerprint,    \* unit -> what the fingerprint was computed over
    modules,        \* sys.modules: <<unit, file>> -> content
    packages,       \* units whose package is registered in sys.modules
    history,        \* unit -> the recorded row, or NoContent
    ran,            \* ghost: <<file, content>> executed by the current attempt
    runs,           \* runs begun in this process
    leaked          \* ghost: a run was interrupted between load and invocation

run == <<phase, at, staged, fingerprint, ran>>
moduleVars == <<tree, edits, run, modules, packages, history, runs, leaked>>

Absent == [u \in Units |-> [f \in Files |-> NoContent]]
NoModules == [m \in Units \X Files |-> NoContent]

ModulesInit ==
    /\ tree = [u \in Units |-> [f \in Files |-> [edit |-> 0, compiles |-> TRUE]]]
    /\ edits = 0 /\ phase = "idle" /\ at = 0
    /\ staged = Absent /\ fingerprint = Absent
    /\ modules = NoModules /\ packages = {}
    /\ history = [u \in Units |-> NoContent]
    /\ ran = {} /\ runs = 0 /\ leaked = FALSE

\* The author edits the working tree, at any time.
Edit(u, f) ==
    /\ edits < MaxEdits
    /\ edits' = edits + 1
    /\ \E ok \in BOOLEAN : tree' = [tree EXCEPT ![u][f] = [edit |-> edits + 1, compiles |-> ok]]
    /\ UNCHANGED <<run, modules, packages, history, runs, leaked>>

-----------------------------------------------------------------------------
(* Staging *)

\* Every end of a run removes the private directory.
Cleanup ==
    phase' = "idle" /\ at' = 0 /\ staged' = Absent /\ fingerprint' = Absent /\ ran' = {}

StartRun ==
    /\ phase = "idle" /\ runs < MaxRuns
    /\ runs' = runs + 1
    /\ phase' = "copying" /\ at' = 1
    /\ UNCHANGED <<tree, edits, staged, fingerprint, modules, packages, history, ran, leaked>>

\* _copy_unit, one file: the tree may be edited between two of them.
CopyFile(f) ==
    /\ phase = "copying" /\ staged[at][f] = NoContent
    /\ staged' = [staged EXCEPT ![at][f] = tree[at][f]]
    /\ UNCHANGED <<tree, edits, phase, at, fingerprint, modules, packages, history, ran, runs,
                   leaked>>

Copied == phase = "copying" /\ \A f \in Files : staged[at][f] # NoContent

\* Mutant: the fingerprint is taken of the working tree.
FingerprintUnit_InPlace ==
    /\ Copied
    /\ fingerprint' = [fingerprint EXCEPT ![at] = tree[at]]
    /\ IF at + 1 \in Units THEN at' = at + 1 /\ UNCHANGED phase ELSE phase' = "staged" /\ at' = 0
    /\ UNCHANGED <<tree, edits, staged, modules, packages, history, ran, runs, leaked>>

\* _fingerprint_unit over the copy, then the next unit.
FingerprintUnit ==
    /\ Copied
    /\ fingerprint' = [fingerprint EXCEPT ![at] = staged[at]]
    /\ IF at + 1 \in Units THEN at' = at + 1 /\ UNCHANGED phase ELSE phase' = "staged" /\ at' = 0
    /\ UNCHANGED <<tree, edits, staged, modules, packages, history, ran, runs, leaked>>

Pending == {u \in Units : history[u] = NoContent}

\* Mutant: only the entry file is compiled.
CompilePython_EntryOnly(u) == staged[u]["entry"].compiles

\* compile_python: every source of the unit, imported or not.
CompilePython(u) == \A f \in Files : staged[u][f].compiles

\* preflight compiles every unit of the manifest, recorded or not, and build_plan
\* wants a recorded one to have its recorded fingerprint; else the run stops here.
Admission ==
    /\ phase = "staged"
    /\ IF /\ \A u \in Units : CompilePython(u)
          /\ \A u \in Units \ Pending : fingerprint[u] = history[u].fingerprint
       THEN phase' = "between" /\ UNCHANGED <<at, staged, fingerprint, ran>>
       ELSE Cleanup
    /\ UNCHANGED <<tree, edits, modules, packages, history, runs, leaked>>

-----------------------------------------------------------------------------
(* Loading, running and unloading one unit *)

NextUnit(u) == u \in Pending /\ \A v \in Pending : u <= v

\* Mutant: what to discard is decided when the unit is loaded.
Unloaded_AtLoad(u) ==
    [m \in Units \X Files |-> IF m = <<u, "entry">> THEN NoContent ELSE modules[m]]

\* unload_namespace: the package and everything under it, as of now.
Unloaded(u) == [m \in Units \X Files |-> IF m[1] = u THEN NoContent ELSE modules[m]]

Unload(u) == modules' = Unloaded(u) /\ packages' = packages \ {u}

\* load_entry: refused while the package is still registered; the entry is
\* executed; a declared coroutine or generator function, a missing migrate or an
\* import error is refused and unloaded.
LoadEntry(u) ==
    /\ phase = "between" /\ NextUnit(u)
    /\ \/ /\ u \in packages
          /\ Cleanup /\ UNCHANGED <<modules, packages>>
       \/ /\ u \notin packages
          /\ \/ /\ modules' = [modules EXCEPT ![<<u, "entry">>] = staged[u]["entry"]]
                /\ packages' = packages \union {u}
                /\ phase' = "loaded" /\ at' = u /\ ran' = {<<"entry", staged[u]["entry"]>>}
                /\ UNCHANGED <<staged, fingerprint>>
             \/ Cleanup /\ Unload(u)
    /\ UNCHANGED <<tree, edits, history, runs, leaked>>

\* build_context, and the call of migrate(ctx).
Invoke ==
    /\ phase = "loaded"
    /\ phase' = "running"
    /\ UNCHANGED <<tree, edits, at, staged, fingerprint, modules, packages, history, ran, runs,
                   leaked>>

\* The body imports its helper: from sys.modules when it is there, else from the
\* package's __path__, the staged directory.
ImportHelper ==
    LET found == modules[<<at, "helper">>]
        used  == IF found # NoContent THEN found ELSE staged[at]["helper"]
    IN  /\ phase = "running"
        /\ modules' = [modules EXCEPT ![<<at, "helper">>] = used]
        /\ ran' = ran \union {<<"helper", used>>}
        /\ UNCHANGED <<tree, edits, phase, at, staged, fingerprint, packages, history, runs,
                       leaked>>

\* Mutant: deferred work handed back by a plain function goes unnoticed.
ResultAccepted_Declared(result) == result \in {"none", "deferred"}

\* check_result: only None; deferred work was never executed.
ResultAccepted(result) == result = "none"

\* migrate(ctx) returned: the module is unloaded either way, and a unit whose
\* result is accepted is recorded with its fingerprint.
Return(result) ==
    /\ phase = "running"
    /\ Unload(at)
    /\ IF ResultAccepted(result)
       THEN /\ history' = [history EXCEPT ![at] =
                              [fingerprint |-> fingerprint[at], ran |-> ran,
                               worked |-> result # "deferred"]]
            /\ phase' = "between" /\ at' = 0 /\ ran' = {}
            /\ UNCHANGED <<staged, fingerprint>>
       ELSE Cleanup /\ UNCHANGED history
    /\ UNCHANGED <<tree, edits, runs, leaked>>

\* Mutant: the unload follows the call instead of standing in a finally clause.
Fails_NoFinally ==
    /\ phase = "running"
    /\ Cleanup
    /\ UNCHANGED <<tree, edits, modules, packages, history, runs, leaked>>

\* The body raises, or the engine refuses what it did: the finally clause
\* unloads, nothing is recorded.
Fails ==
    /\ phase = "running"
    /\ Unload(at) /\ Cleanup
    /\ UNCHANGED <<tree, edits, history, runs, leaked>>

\* An interruption outside the invocation: while staging, planning or between
\* units.
Interrupted ==
    /\ phase \in {"copying", "staged", "between"}
    /\ Cleanup
    /\ UNCHANGED <<tree, edits, modules, packages, history, runs, leaked>>

\* The same after load_entry returned and before the try block is entered: its
\* finally clause does not cover build_context.
InterruptedLoaded ==
    /\ phase = "loaded"
    /\ Cleanup /\ leaked' = TRUE
    /\ UNCHANGED <<tree, edits, modules, packages, history, runs>>

\* Every unit is recorded.
Finish ==
    /\ phase = "between" /\ Pending = {}
    /\ Cleanup
    /\ UNCHANGED <<tree, edits, modules, packages, history, runs, leaked>>

ModulesNext ==
    \/ \E u \in Units, f \in Files : Edit(u, f)
    \/ StartRun \/ FingerprintUnit \/ Admission \/ Invoke \/ ImportHelper
    \/ Fails \/ Interrupted \/ InterruptedLoaded \/ Finish
    \/ \E f \in Files : CopyFile(f)
    \/ \E u \in Units : LoadEntry(u)
    \/ \E result \in {"none", "deferred", "value"} : Return(result)

ModulesSpec == ModulesInit /\ [][ModulesNext]_moduleVars

-----------------------------------------------------------------------------
(* Properties *)

\* A row as it is recorded; ran and worked are ghosts.
Rows ==
    [fingerprint : [Files -> Contents \union {NoContent}],
     ran : SUBSET (Files \X Contents), worked : BOOLEAN]

ModulesTypeOK ==
    /\ tree \in [Units -> [Files -> Contents]] /\ edits \in 0 .. MaxEdits
    /\ phase \in {"idle", "copying", "staged", "between", "loaded", "running"}
    /\ at \in Units \union {0} /\ (phase \in {"copying", "loaded", "running"} => at # 0)
    /\ staged \in [Units -> [Files -> Contents \union {NoContent}]]
    /\ fingerprint \in [Units -> [Files -> Contents \union {NoContent}]]
    /\ modules \in [Units \X Files -> Contents \union {NoContent}]
    /\ packages \subseteq Units /\ runs \in 0 .. MaxRuns /\ leaked \in BOOLEAN
    /\ history \in [Units -> Rows \union {NoContent}] /\ ran \subseteq (Files \X Contents)
    /\ \A m \in Units \X Files : modules[m] # NoContent => m[1] \in packages

\* The code an attempt executes, a helper imported late included, is the code
\* its fingerprint was computed over: no edit of the working tree during or
\* after staging and no module an earlier run left in sys.modules gets in
\* between (stage, load_entry, LoadedUnit.unload).
RanWhatWasFingerprinted ==
    \A x \in ran : x[2] = fingerprint[at][x[1]]

\* A recorded SUCCESS stands for work that was done, by exactly the files the
\* row's fingerprint covers; a coroutine or generator handed back by migrate(ctx)
\* is never one (check_result).
RecordedWorkWasDone ==
    \A u \in Units : history[u] # NoContent =>
        /\ history[u].worked
        /\ \A x \in history[u].ran : x[2] = history[u].fingerprint[x[1]]

\* A source Python cannot compile is found before anything of the unit runs: no
\* import inside migrate(ctx) meets a syntax error (compile_python).
SyntaxErrorsStopEarly == \A x \in ran : x[2].compiles

\* Once the run is over, nothing of any unit is left in sys.modules, on failure
\* paths as well, so a later run in the process can load every unit again.  A
\* run interrupted before _invoke_python enters its try block is the exception.
ModulesDiscarded == leaked \/ (phase = "idle" => packages = {} /\ modules = NoModules)

\* The unit is in the private directory, and its fingerprint is the copy's.
Captured(u) == fingerprint[u] = staged[u] /\ \A f \in Files : staged[u][f] # NoContent

\* How far staging and preflight have got: what was captured and compiled stays
\* so until the run is over.
StagingInv ==
    /\ phase = "copying" => \A u \in Units : u < at => Captured(u)
    /\ phase \in {"staged", "between", "loaded", "running"} => \A u \in Units : Captured(u)
    /\ phase \in {"between", "loaded", "running"} => \A u \in Units : CompilePython(u)

\* What is in sys.modules: of the unit at hand only its staged files, of the
\* others nothing unless a run leaked them.
ModulesInv ==
    /\ phase \in {"loaded", "running"} =>
          /\ at \in packages
          /\ \A f \in Files : modules[<<at, f>>] \in {NoContent, staged[at][f]}
    /\ phase \in {"loaded", "running"} => \A x \in ran : x[2] = staged[at][x[1]]
    /\ phase \notin {"loaded", "running"} => ran = {}
    /\ ~leaked => packages = IF phase \in {"loaded", "running"} THEN {at} ELSE {}

\* What every step of staging, loading and running keeps.
UnitsInv == ModulesTypeOK /\ StagingInv /\ ModulesInv /\ RecordedWorkWasDone

\* What runs is what was fingerprinted and compiled, what is recorded was done by
\* it, and nothing of it stays behind (stage, load_entry, _invoke_python).
ModulesSafety ==
    /\ UnitsInv /\ RanWhatWasFingerprinted /\ SyntaxErrorsStopEarly /\ ModulesDiscarded

=============================================================================
