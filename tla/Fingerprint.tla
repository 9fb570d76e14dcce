---------------------------- MODULE Fingerprint ----------------------------
(***************************************************************************)
(* The fp1 encoding: the byte string a unit's fingerprint is the hash of.  *)
(* A published unit is recognised by it for ever, so an edit must change   *)
(* it and a mere difference in the order of listing must not.              *)
(*                                                                         *)
(* A byte is a number.  A field's name is one byte and a length is one     *)
(* byte where the code has four or eight: their widths are constant and no *)
(* length comes near them.                                                 *)
(***************************************************************************)
EXTENDS Integers, Sequences
LOCAL INSTANCE SequencesExt

CONSTANTS
    Languages, Modes, Paths, Contents,  \* byte strings
    Declarations,   \* the <<type, name>> pairs a require_valid list may have
    MaxSize         \* bound: declarations of a unit plus twice its files

\* What the constants are required to be.
ConstantsOK == MaxSize \in Nat

VARIABLES
    published,      \* the unit a migrate recorded
    recorded,       \* its encoding; the row has the hash of it
    unit            \* the unit as captured now

vars == <<published, recorded, unit>>

Name(field) ==
    CASE field = "language"      -> <<11>>
      [] field = "mode"          -> <<12>>
      [] field = "entry"         -> <<13>>
      [] field = "require_valid" -> <<14>>
      [] field = "count"         -> <<15>>
      [] field = "type"          -> <<16>>
      [] field = "name"          -> <<17>>
      [] field = "path"          -> <<18>>
      [] field = "data"          -> <<19>>

\* _u32be and _u64be.
Length(n) == <<n>>

\* Mutant: only the name's length is written.
Field_Bare(name, value) == Length(Len(Name(name))) \o Name(name) \o value

Field(name, value) ==
    Length(Len(Name(name))) \o Name(name) \o Length(Len(value)) \o value

-----------------------------------------------------------------------------
(* Sorting *)

Less(a, b) ==
    \E i \in 1 .. Len(b) :
        /\ \A j \in 1 .. i - 1 : j <= Len(a) /\ a[j] = b[j]
        /\ i <= Len(a) => a[i] < b[i]

\* By type, then by name.
DeclarationLess(r, s) == Less(r[1], s[1]) \/ (r[1] = s[1] /\ Less(r[2], s[2]))
FileLess(f, g) == Less(f.path, g.path)

-----------------------------------------------------------------------------
(* The encoding *)

EncodeDeclaration(r) == Field("type", r[1]) \o Field("name", r[2])

\* Mutant: the declarations in the order the manifest lists them.
EncodeRequired_AsListed(required) ==
    Length(Len(required))
        \o FlattenSeq([i \in DOMAIN required |-> EncodeDeclaration(required[i])])

EncodeRequired(required) ==
    LET ordered == SortSeq(required, DeclarationLess)
    IN  Length(Len(ordered))
            \o FlattenSeq([i \in DOMAIN ordered |-> EncodeDeclaration(ordered[i])])

CanonicalBytes(u) ==
    LET ordered == SortSeq(u.files, FileLess)
        File(f) == Field("path", f.path) \o Field("data", f.data)
    IN  Field("language", u.language) \o Field("mode", u.mode) \o Field("entry", u.entry)
            \o Field("require_valid", EncodeRequired(u.required))
            \o Field("count", Length(Len(ordered)))
            \o FlattenSeq([i \in DOMAIN ordered |-> File(ordered[i])])

-----------------------------------------------------------------------------
(* Units: paths and declarations are listed once each, the entry is a file *)

Lists(S, max) == UNION {[1 .. n -> S] : n \in 0 .. max}

RequiredLists == {r \in Lists(Declarations, MaxSize) : IsInjective(r)}

FileLists ==
    {f \in Lists([path : Paths, data : Contents], MaxSize \div 2) :
        f # <<>> /\ \A i, j \in DOMAIN f : f[i].path = f[j].path => i = j}

Inputs ==
    {u \in [language : Languages, mode : Modes, entry : Paths,
            required : RequiredLists, files : FileLists] :
        /\ Len(u.required) + 2 * Len(u.files) <= MaxSize
        /\ \E i \in DOMAIN u.files : u.files[i].path = u.entry}

Init ==
    /\ published \in Inputs
    /\ unit = published /\ recorded = CanonicalBytes(published)

\* The author edits the unit, or its lists come in another order.
Edit ==
    /\ unit = published
    /\ unit' \in Inputs
    /\ UNCHANGED <<published, recorded>>

\* The next capture finds the unit as it was published.
Revert ==
    /\ unit # published
    /\ unit' = published
    /\ UNCHANGED <<published, recorded>>

Next == Edit \/ Revert

Spec == Init /\ [][Next]_vars

-----------------------------------------------------------------------------
(* Properties *)

\* The same unit, whatever the order of its lists.
SameUnit ==
    /\ unit.language = published.language /\ unit.mode = published.mode
    /\ unit.entry = published.entry
    /\ ToSet(unit.required) = ToSet(published.required)
    /\ ToSet(unit.files) = ToSet(published.files)

\* A unit that differs anywhere from the published one has another encoding, also
\* when file contents look like pieces of an encoding (field).
EveryEditShows == CanonicalBytes(unit) = recorded => SameUnit

\* The published unit has the recorded encoding again, in whatever order its
\* files are found and its declarations listed (canonical_bytes, encode_required).
OrderDoesNotShow == SameUnit => CanonicalBytes(unit) = recorded

\* Equal encodings are equal units: no edit goes unnoticed and no order of
\* listing shows (canonical_bytes).
FingerprintIdentifies == EveryEditShows /\ OrderDoesNotShow

=============================================================================
