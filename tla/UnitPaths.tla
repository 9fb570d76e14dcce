----------------------------- MODULE UnitPaths -----------------------------
(***************************************************************************)
(* Which directories may be units, and which files a unit has.  A manifest *)
(* names its units by paths over a tree of directories, files and links,   *)
(* on a file system that tells names apart by case or does not.  A unit    *)
(* admitted here is fingerprinted here and again wherever the repository   *)
(* is checked out.                                                         *)
(*                                                                         *)
(* An object is identified by the path it was created under: directories   *)
(* have no hard links.  A link stands for special files and the artefacts  *)
(* of FORBIDDEN_DIR_NAMES as well, which are refused in the same places.   *)
(***************************************************************************)
EXTENDS Integers, Sequences, FiniteSets, SequencesExt

CONSTANTS
    FileNames,      \* the names check_relative_path accepts as components
    Casefold,       \* str.casefold of a name, and what the file system folds it to
    MaxDepth,       \* bound: components of a path
    MaxEntries,     \* bound: objects in the tree
    MaxUnits        \* bound: units of a manifest

ASSUME CasefoldAssumption == DOMAIN Casefold = FileNames
ASSUME TreeBoundsAssumption ==
    MaxDepth \in Nat \ {0} /\ MaxEntries \in Nat /\ MaxUnits \in Nat \ {0}

Paths == UNION {[1 .. n -> FileNames] : n \in 1 .. MaxDepth}
UnitDirs == {p \in Paths : Len(p) < MaxDepth}
Kinds == {"dir", "file", "link"}

VARIABLES
    folds,          \* the file system tells names apart only by their folding
    entries,        \* the objects of its tree: their path and kind
    captured        \* the admitted units' files, <<>> while there is no capture

pathVars == <<folds, entries, captured>>

\* str.casefold, component by component.
Folded(p) == [i \in DOMAIN p |-> Casefold[p[i]]]

PathsInit == folds \in BOOLEAN /\ entries = {} /\ captured = <<>>

\* The file system takes two paths for one.
SamePath(p, q) == p = q \/ (folds /\ Len(p) = Len(q) /\ Folded(p) = Folded(q))
Named(p) == {e \in entries : SamePath(e.path, p)}

\* The author creates an object.
Create(p, kind) ==
    /\ captured = <<>> /\ Cardinality(entries) < MaxEntries
    /\ Len(p) > 1 => [path |-> Front(p), kind |-> "dir"] \in entries
    /\ Named(p) = {}
    /\ entries' = entries \union {[path |-> p, kind |-> kind]}
    /\ UNCHANGED <<folds, captured>>

-----------------------------------------------------------------------------
(* The manifest's paths *)

\* resolve_unit_dir: every component exists and none is a link, the last is a
\* directory.  Resolving keeps the spelling of the manifest.
ResolveUnitDir(p) ==
    /\ \E e \in Named(p) : e.kind = "dir"
    /\ \A k \in DOMAIN p : \E e \in Named(SubSeq(p, 1, k)) : e.kind # "link"

\* _directory_identity of a path that resolves, and _ancestor_identities.
Identity(p) == (CHOOSE e \in Named(p) : TRUE).path
Ancestors(p) == {Identity(SubSeq(p, 1, k)) : k \in 1 .. Len(p) - 1}

\* Mutant: by the spelling of the paths alone.
CheckUnitsDisjoint_Paths(p, q) == ~IsPrefix(p, q) /\ ~IsPrefix(q, p)

CheckUnitsDisjoint(p, q) ==
    /\ p # q /\ Identity(p) # Identity(q)
    /\ ~IsPrefix(p, q) /\ Identity(p) \notin Ancestors(q)
    /\ ~IsPrefix(q, p) /\ Identity(q) \notin Ancestors(p)

-----------------------------------------------------------------------------
(* The files of a unit *)

Under(p) == {e \in entries : IsStrictPrefix(Identity(p), e.path)}
FilesOf(p) == {e.path : e \in {f \in Under(p) : f.kind = "file"}}

\* Unit-relative paths, spelled as the directory lists them.
Relative(p, files) == {SubSeq(f, Len(p) + 1, Len(f)) : f \in files}

\* Mutant: only equal spellings collide.
CheckNoCaseCollisions_Exact(relpaths) == TRUE

CheckNoCaseCollisions(relpaths) ==
    \A f, g \in relpaths : Folded(f) = Folded(g) => f = g

\* scan_unit: no link anywhere, at least one file, no collision.
ScanUnit(p) ==
    /\ \A e \in Under(p) : e.kind # "link"
    /\ FilesOf(p) # {}
    /\ CheckNoCaseCollisions(Relative(p, FilesOf(p)))

\* manifest.load of a list of unit paths, and the capture of the units.
Capture(units) ==
    /\ captured = <<>>
    /\ \A i \in DOMAIN units : ResolveUnitDir(units[i])
    /\ \A i, j \in DOMAIN units : i < j => CheckUnitsDisjoint(units[i], units[j])
    /\ \A i \in DOMAIN units : ScanUnit(units[i])
    /\ captured' = [i \in DOMAIN units |-> [dir |-> units[i], files |-> FilesOf(units[i])]]
    /\ UNCHANGED <<folds, entries>>

\* The run is over.
Release ==
    /\ captured # <<>>
    /\ captured' = <<>>
    /\ UNCHANGED <<folds, entries>>

PathsNext ==
    \/ \E p \in Paths, kind \in Kinds : Create(p, kind)
    \/ \E n \in 1 .. MaxUnits : \E units \in [1 .. n -> UnitDirs] : Capture(units)
    \/ Release

PathsSpec == PathsInit /\ [][PathsNext]_pathVars

-----------------------------------------------------------------------------
(* Properties *)

\* No file belongs to two units, however the manifest spells their directories:
\* publishing one migration never freezes or changes a part of another
\* (check_units_disjoint, scan_unit).
UnitsShareNoFile ==
    \A i, j \in DOMAIN captured : i # j => captured[i].files \intersect captured[j].files = {}

PrefixesOf(files) == (UNION {Prefixes(f) : f \in files}) \ {<<>>}

\* A checkout on a file system that folds case: the first spelling of a name is
\* the one the directory keeps.  (A file and a directory of one folded name do
\* not fit at all; one of them is given the other's spelling here.)
Spelling(files, p) == CHOOSE q \in PrefixesOf(files) : Folded(q) = Folded(p)
CheckedOut(files) ==
    {[k \in DOMAIN f |-> Last(Spelling(files, SubSeq(f, 1, k)))] : f \in files}

\* No two files of a captured unit become one in such a checkout
\* (check_no_case_collisions).
NoTwoFilesBecomeOne ==
    \A i \in DOMAIN captured :
        LET files == Relative(captured[i].dir, captured[i].files)
        IN  Cardinality(CheckedOut(files)) = Cardinality(files)

\* What creating objects keeps: a finite tree in which everything lies in
\* directories, and in which a path names one object.
TreeInv ==
    /\ folds \in BOOLEAN /\ entries \subseteq [path : Paths, kind : Kinds]
    /\ IsFiniteSet(entries)
    /\ \A e \in entries : \A k \in 1 .. Len(e.path) - 1 :
          [path |-> SubSeq(e.path, 1, k), kind |-> "dir"] \in entries
    /\ \A e \in entries : Named(e.path) = {e}

\* A captured unit's files are its own and stay apart wherever the repository is
\* checked out (check_units_disjoint, check_no_case_collisions); with the tree,
\* this is inductive.
CapturedFilesDistinct == TreeInv /\ UnitsShareNoFile /\ NoTwoFilesBecomeOne

=============================================================================
