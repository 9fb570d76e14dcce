--------------------------- MODULE MetadataProofs ---------------------------
(***************************************************************************)
(* The definition checks of the metadata objects, for any number of        *)
(* changes by hand: what they accept enforces the layout and admits the    *)
(* engine's rows, what the tool alone has made they accept, and the marker *)
(* is written only over a layout that enforces its rules.  The invariant   *)
(* needed is StageInv and HealthyLayout beside the types: no row and no    *)
(* marker appears while objects are being created, and until a hand        *)
(* interferes the objects are a prefix of CreationOrder, each as created.  *)
(*                                                                         *)
(* The index comparison upper-cases the literal on PostgreSQL and Oracle   *)
(* (compact_definition), so an index on status = 'active' is accepted      *)
(* there and enforces nothing.  The theorems say what acceptance is worth  *)
(* all the same: the index is the issued one but for that literal's case,  *)
(* and every other rule is enforced.                                       *)
(***************************************************************************)
EXTENDS Metadata, ManifestEvolutionProofs

LayoutInv == LayoutTypeOK /\ StageInv /\ (harmed \/ HealthyLayout)

\* Records of keys over some tables.
KeyRecords(tables) ==
    [table : tables, kind : {"primary", "unique", "foreign"}, on : KeyColumns,
     target : {"own", "other", "none"}, enforced : BOOLEAN]

AllRules == {"added"} \union UNION {ExpectedChecks(t) : t \in Tables}

CheckRecords(tables) ==
    [table : tables, rule : AllRules, wording : Wordings, enforced : BOOLEAN]

IndexRecords ==
    [table : {"history", "progress"}, unique : BOOLEAN, usable : BOOLEAN,
     key : {<<"status">>, <<"seq">>, <<"status", "seq">>},
     literal : {"ACTIVE", "active", "SUCCESS", "none"}, form : {"issued", "rewritten"}]

\* The engine is one of three.
LEMMA ThreeEngines ==
  ASSUME LayoutTypeOK
  PROVE  adapter \in {"sqlite", "postgres", "oracle"}
  BY LayoutAssumption DEF LayoutTypeOK

\* A key of the layout, as a record.
LEMMA KeyRecord ==
  ASSUME NEW t, NEW kind \in {"primary", "unique", "foreign"}, NEW on \in KeyColumns
  PROVE  /\ Key(t, kind, on) \in KeyRecords({t})
         /\ Key(t, kind, on).kind = kind /\ Key(t, kind, on).table = t
         /\ Key(t, kind, on).enforced
         /\ kind = "foreign" => Key(t, kind, on).target = "own"
  <1>1. (IF kind = "foreign" THEN "own" ELSE "none") \in {"own", "other", "none"}
    OBVIOUS
  <1>2. TRUE \in BOOLEAN
    OBVIOUS
  <1> DEFINE target == IF kind = "foreign" THEN "own" ELSE "none"
  <1>3. [table |-> t, kind |-> kind, on |-> on, target |-> target, enforced |-> TRUE]
           \in KeyRecords({t})
    <2> HIDE DEF target
    <2> QED
      BY <1>1, <1>2, Zenon DEF KeyRecords, target
  <1>4. QED
    BY <1>3 DEF Key

\* The keys the layout asks for.
LEMMA ExpectedKeyRecords ==
  ASSUME NEW t \in Tables, NEW k \in ExpectedKeys(t)
  PROVE  /\ k \in KeyRecords({t}) /\ k.table = t /\ k.enforced
         /\ k.kind = "foreign" => t = "progress" /\ k.target = "own"
  <1>1. /\ <<"migration_id">> \in KeyColumns /\ <<"seq">> \in KeyColumns
        /\ <<"migration_id", "prog_key">> \in KeyColumns /\ <<"meta_key">> \in KeyColumns
    BY DEF KeyColumns
  <1>2. \/ t = "history" /\ k = Key(t, "primary", <<"migration_id">>)
        \/ t = "history" /\ k = Key(t, "unique", <<"seq">>)
        \/ t = "progress" /\ k = Key(t, "primary", <<"migration_id", "prog_key">>)
        \/ t = "progress" /\ k = Key(t, "foreign", <<"migration_id">>)
        \/ t = "meta" /\ k = Key(t, "primary", <<"meta_key">>)
    BY DEF ExpectedKeys, Tables
  <1>3. PICK kind \in {"primary", "unique", "foreign"}, on \in KeyColumns :
            k = Key(t, kind, on) /\ (kind = "foreign" => t = "progress")
    BY <1>1, <1>2
  <1>4. QED
    BY <1>3, KeyRecord

\* Only keys of the same table, kind, columns, target and state are equal.
LEMMA KeyIsItsFields ==
  ASSUME NEW T, NEW U, NEW k \in KeyRecords(T), NEW c \in KeyRecords(U),
         c.table = k.table, c.kind = k.kind, c.on = k.on, c.target = k.target,
         c.enforced <=> k.enforced
  PROVE  c = k
  BY DEF KeyRecords

\* The one reference of the layout.
LEMMA OneReference ==
  \E k \in ExpectedKeys("progress") :
      k.kind = "foreign" /\ k.on = <<"migration_id">> /\ k.target = "own"
  BY DEF ExpectedKeys, Key

\* A wording the comparison accepts says what was issued.
LEMMA AcceptedWording ==
  ASSUME NEW c, c.wording \in Wordings, Equivalents(c) = "issued"
  PROVE  c.wording \in Faithful
  BY DEF Equivalents, CanonicalCondition, Wordings, Faithful

\* A table the checks accept has its keys and conditions enforced.
LEMMA MatchingTable ==
  ASSUME LayoutTypeOK, NEW t \in Tables, TableMatches(t)
  PROVE  /\ columns[t]
         /\ \A k \in ExpectedKeys(t) : KeyHolds(k)
         /\ \A r \in ExpectedChecks(t) : RuleHolds(t, r)
         /\ \A c \in checks : c.table = t =>
                c.rule \in ExpectedChecks(t) /\ c.wording \in Faithful
  <1>1. columns[t] /\ ChecksMatch(t)
    BY DEF TableMatches, SqliteTableMatches
  <1>2. ASSUME NEW k \in ExpectedKeys(t) PROVE KeyHolds(k)
    <2>1. CASE adapter = "sqlite"
      BY <2>1 DEF TableMatches, SqliteTableMatches, KeyHolds
    <2>2. CASE adapter # "sqlite"
      <3>1. PICK c \in keys : /\ c.table = t /\ c.kind = k.kind /\ c.on = k.on
                              /\ c.enforced /\ c.target = k.target
        BY <2>2 DEF TableMatches, DictionaryKeysMatch
      <3>2. k \in KeyRecords({t}) /\ k.enforced
        BY ExpectedKeyRecords
      <3>3. c \in KeyRecords(Tables \intersect present)
        BY DEF LayoutTypeOK, KeyRecords
      <3>4. k.table = t
        BY <3>2 DEF KeyRecords
      <3>5. c = k
        BY <3>1, <3>2, <3>3, <3>4, KeyIsItsFields
      <3>6. QED
        BY <3>5 DEF KeyHolds
    <2>3. QED
      BY <2>1, <2>2
  <1>3. ASSUME NEW c \in checks PROVE c.wording \in Wordings
    BY DEF LayoutTypeOK
  <1>4. ASSUME NEW c \in checks, c.table = t
        PROVE  c.rule \in ExpectedChecks(t) /\ c.wording \in Faithful /\ c.enforced
    BY <1>1, <1>3, <1>4, AcceptedWording DEF ChecksMatch
  <1>5. \A r \in ExpectedChecks(t) : RuleHolds(t, r)
    BY <1>1, <1>4 DEF ChecksMatch, RuleHolds
  <1>6. QED
    BY <1>1, <1>2, <1>4, <1>5

\* Only indexes that agree in all fields are equal.
LEMMA IndexIsItsFields ==
  ASSUME NEW i \in IndexRecords, NEW j \in IndexRecords,
         i.table = j.table, i.unique <=> j.unique, i.usable <=> j.usable, i.key = j.key,
         i.literal = j.literal, i.form = j.form
  PROVE  i = j
  BY DEF IndexRecords

\* An index the checks accept collides on two ACTIVE rows, unless its literal is
\* in another case, and on no others.
LEMMA MatchingIndex ==
  ASSUME LayoutTypeOK, IndexMatches
  PROVE  /\ IndexAdmits("ACTIVE", "ACTIVE") => FoldedIndex
         /\ IndexAdmits("SUCCESS", "SUCCESS")
  <1>1. /\ index \in IndexRecords
        /\ index.table = "history" /\ index.unique /\ index.usable
        /\ index.key = <<"status">> /\ index.form \in {"issued", "rewritten"}
        /\ \/ index.literal = "ACTIVE"
           \/ index.literal = "active" /\ adapter # "sqlite"
    BY DEF LayoutTypeOK, IndexRecords, IndexMatches, ComparedLiteral
  <1>2. CASE index.literal = "ACTIVE"
    BY <1>1, <1>2 DEF IndexAdmits
  <1>3. CASE index.literal = "active" /\ adapter # "sqlite"
    <2> DEFINE folded == [IssuedIndex EXCEPT !.literal = "active", !.form = index.form]
    <2>1. index = folded
      <3>1. IssuedIndex \in IndexRecords
        BY Zenon DEF IssuedIndex, IndexRecords
      <3>2. folded \in IndexRecords
        BY <1>1, <3>1 DEF IndexRecords
      <3>3. /\ folded.table = "history" /\ folded.unique /\ folded.usable
            /\ folded.key = <<"status">> /\ folded.literal = "active"
            /\ folded.form = index.form
        BY DEF IssuedIndex
      <3> HIDE DEF folded
      <3>4. (index.unique <=> folded.unique) /\ (index.usable <=> folded.usable)
        BY <1>1, <3>3
      <3>5. QED
        BY <1>1, <1>3, <3>2, <3>3, <3>4, IndexIsItsFields
    <2>2. FoldedIndex
      BY <1>1, <1>3, <2>1 DEF FoldedIndex
    <2>3. QED
      BY <1>3, <2>2 DEF IndexAdmits
  <1>4. QED
    BY <1>1, <1>2, <1>3

\* What is found without a problem enforces the layout, up to the case of the
\* index's literal, and admits the engine.
LEMMA NoProblemsSuffice ==
  ASSUME LayoutTypeOK, StageInv, NoProblems, present = Objects
  PROVE  EnforcesUpToCase /\ AdmitsEngine
  <1>1. ASSUME NEW t \in Tables PROVE TableMatches(t)
    BY DEF NoProblems, Objects
  <1>2. /\ IndexAdmits("ACTIVE", "ACTIVE") => FoldedIndex
        /\ IndexAdmits("SUCCESS", "SUCCESS")
    BY MatchingIndex DEF NoProblems, Objects
  <1>3. EnforcesUpToCase
    BY <1>1, <1>2, MatchingTable DEF EnforcesUpToCase, EnforcesTables
  <1>4. \A c \in checks : c.rule \in ExpectedChecks(c.table) /\ c.wording \in Faithful
    <2>1. \A c \in checks : c.table \in Tables
      BY DEF LayoutTypeOK
    <2>2. QED
      BY <1>1, <2>1, MatchingTable
  <1>5. \A k \in keys : k.table \in Tables
    BY DEF LayoutTypeOK
  <1>6. ASSUME NEW k \in keys, k.kind = "foreign", k.on = <<"migration_id">>
        PROVE  k.target = "own"
    <2>1. k.table = "progress" /\ "progress" \in Tables
      BY <1>6 DEF StageInv, Tables
    <2>2. CASE adapter = "sqlite"
      <3>1. k \in ExpectedKeys("progress")
        BY <1>1, <2>1, <2>2 DEF TableMatches, SqliteTableMatches
      <3>2. QED
        BY <1>6, <2>1, <3>1, ExpectedKeyRecords
    <2>3. CASE adapter # "sqlite"
      <3>1. DictionaryKeysMatch("progress")
        BY <1>1, <2>1, <2>3 DEF TableMatches
      <3>2. QED
        BY <1>6, <2>1, <3>1, OneReference DEF DictionaryKeysMatch
    <2>4. QED
      BY <2>2, <2>3
  <1>7. ASSUME adapter = "sqlite"
        PROVE  extras = {} /\ keys = UNION {ExpectedKeys(t) : t \in Tables}
    <2>1. \A t \in Tables : /\ {c \in keys : c.table = t} = ExpectedKeys(t)
                            /\ <<t, "index">> \notin extras
                            /\ <<t, "option">> \notin extras
      BY <1>1, <1>7 DEF TableMatches, SqliteTableMatches
    <2>2. extras = {}
      <3>1. \A e \in extras : \E t \in Tables, w \in {"index", "option"} : e = <<t, w>>
        BY DEF LayoutTypeOK
      <3>2. QED
        BY <2>1, <3>1
    <2>3. keys = UNION {ExpectedKeys(t) : t \in Tables}
      BY <1>5, <2>1
    <2>4. QED
      BY <2>2, <2>3
  <1>8. AdmitsEngine
    BY <1>2, <1>4, <1>6, <1>7 DEF AdmitsEngine
  <1>9. QED
    BY <1>3, <1>8

-----------------------------------------------------------------------------
\* What the tool has made and no hand has touched has no problem.
LEMMA HealthyHasNoProblems ==
  ASSUME LayoutTypeOK, HealthyLayout
  PROVE  NoProblems
  <1>1. ASSUME NEW t \in Tables \intersect present PROVE TableMatches(t)
    <2>1. columns[t] /\ <<t, "index">> \notin extras /\ <<t, "option">> \notin extras
      BY DEF HealthyLayout
    <2>2. {c \in keys : c.table = t} = ExpectedKeys(t)
      <3>1. \A s \in Tables : \A k \in ExpectedKeys(s) : k.table = s
        BY ExpectedKeyRecords DEF KeyRecords
      <3>2. keys = UNION {ExpectedKeys(s) : s \in Tables \intersect present}
        BY DEF HealthyLayout
      <3>3. QED
        BY <3>1, <3>2
    <2>3. ChecksMatch(t)
      <3>1. ASSUME NEW c \in checks, c.table = t
            PROVE  c.rule \in ExpectedChecks(t) /\ Equivalents(c) = "issued" /\ c.enforced
        BY <3>1 DEF HealthyLayout, OwnWording, Equivalents, CanonicalCondition
      <3>2. QED
        BY <3>1 DEF HealthyLayout, ChecksMatch
    <2>4. SqliteKeysMatch(t)
      BY <2>2 DEF SqliteKeysMatch
    <2>5. DictionaryKeysMatch(t)
      <3>1. SUFFICES ASSUME NEW k \in ExpectedKeys(t)
                     PROVE  /\ k \in keys /\ k.table = t
                            /\ \A c \in keys :
                                  c.table = t /\ c.kind = k.kind /\ c.on = k.on
                                    => c.enforced /\ c.target = k.target
        BY DEF DictionaryKeysMatch
      <3>2. k \in keys /\ k.table = t
        BY <2>2
      <3>3. ASSUME NEW c \in ExpectedKeys(t), c.kind = k.kind
            PROVE  c.enforced /\ c.target = k.target
        BY <3>3 DEF ExpectedKeys, Key, Tables
      <3>4. QED
        BY <2>2, <3>2, <3>3
    <2>6. QED
      BY <2>1, <2>2, <2>3, <2>4, <2>5 DEF TableMatches, SqliteTableMatches
  <1>2. IndexMatches
    BY DEF HealthyLayout, IndexMatches, IssuedIndex, ComparedLiteral
  <1>3. QED
    BY <1>1, <1>2 DEF NoProblems

\* So the checks never call it damaged.
LEMMA HealthyAccepted ==
  ASSUME LayoutTypeOK, HealthyLayout
  PROVE  Inspect # "damaged"
  BY HealthyHasNoProblems DEF HealthyLayout, Inspect

\* The invariant implies every part of LayoutSafety.
LEMMA LayoutInvSuffices ==
  ASSUME LayoutInv
  PROVE  LayoutSafety
  <1>1. Inspect = "complete" => NoProblems /\ present = Objects
    BY DEF Inspect
  <1>2. AcceptedLayoutEnforces /\ AcceptedLayoutAdmitsEngine
    BY <1>1, NoProblemsSuffice
       DEF LayoutInv, AcceptedLayoutEnforces, AcceptedLayoutAdmitsEngine
  <1>3. HealthyIsAccepted
    BY HealthyAccepted DEF LayoutInv, HealthyIsAccepted
  <1>4. QED
    BY <1>2, <1>3 DEF LayoutInv, LayoutSafety

-----------------------------------------------------------------------------
\* A changed key is a key of the same table and kind.
LEMMA ChangedKey ==
  ASSUME NEW T, NEW k \in KeyRecords(T)
  PROVE  LET on == IF Len(k.on) = 2 THEN <<k.on[2], k.on[1]>> ELSE <<"other">>
         IN  \A c \in {[k EXCEPT !.enforced = FALSE], [k EXCEPT !.on = on],
                       [k EXCEPT !.target = "other"]} :
                c \in KeyRecords(T) /\ c.table = k.table /\ c.kind = k.kind
  <1> DEFINE on == IF Len(k.on) = 2 THEN <<k.on[2], k.on[1]>> ELSE <<"other">>
  <1>1. on \in KeyColumns
    BY DEF KeyRecords, KeyColumns
  <1> HIDE DEF on
  <1>2. [k EXCEPT !.on = on] \in KeyRecords(T)
    BY <1>1 DEF KeyRecords
  <1>3. [k EXCEPT !.target = "other"] \in KeyRecords(T)
    BY DEF KeyRecords
  <1>4. [k EXCEPT !.enforced = FALSE] \in KeyRecords(T)
    BY Zenon DEF KeyRecords
  <1>5. QED
    BY <1>2, <1>3, <1>4 DEF KeyRecords, on

\* A changed condition is a condition of the same table and rule.
LEMMA ChangedCheck ==
  ASSUME NEW T, NEW c \in CheckRecords(T), NEW w \in Wordings
  PROVE  \A d \in {[c EXCEPT !.enforced = FALSE], [c EXCEPT !.wording = w]} :
            d \in CheckRecords(T) /\ d.table = c.table /\ d.rule = c.rule
  <1>1. [c EXCEPT !.wording = w] \in CheckRecords(T)
    BY DEF CheckRecords
  <1>2. [c EXCEPT !.enforced = FALSE] \in CheckRecords(T)
    BY Zenon DEF CheckRecords
  <1>3. QED
    BY <1>1, <1>2 DEF CheckRecords

\* The types, with the two record sets named.
LEMMA TypesUnfold ==
  LayoutTypeOK <=>
      /\ adapter \in Adapters /\ present \subseteq Objects
      /\ columns \in [Tables -> BOOLEAN]
      /\ extras \subseteq (Tables \intersect present) \X {"index", "option"}
      /\ keys \subseteq KeyRecords(Tables \intersect present)
      /\ checks \subseteq CheckRecords(Tables \intersect present)
      /\ index \in IndexRecords
      /\ marker \in BOOLEAN /\ (marker => "meta" \in present)
      /\ rows \in BOOLEAN /\ (rows => "history" \in present)
      /\ stage \in {"idle", "creating"} /\ changes \in 0 .. MaxChanges
      /\ harmed \in BOOLEAN
  BY DEF LayoutTypeOK, KeyRecords, CheckRecords, AllRules, IndexRecords

\* An empty namespace.
LEMMA InitLayout ==
  ASSUME LayoutInit
  PROVE  LayoutInv
  <1>1. marker \in BOOLEAN /\ rows \in BOOLEAN /\ harmed \in BOOLEAN
         /\ columns \in [Tables -> BOOLEAN]
    BY Zenon DEF LayoutInit
  <1>2. index \in IndexRecords
    BY Zenon DEF LayoutInit, IssuedIndex, IndexRecords
  <1>3. LayoutTypeOK
    BY <1>1, <1>2, LayoutAssumption, TypesUnfold DEF LayoutInit
  <1>4. HealthyLayout
    BY DEF LayoutInit, HealthyLayout, IssuedIndex
  <1>5. QED
    BY <1>3, <1>4 DEF LayoutInit, LayoutInv, StageInv

\* A step that leaves the objects alone.
LEMMA SameObjects ==
  ASSUME LayoutInv, UNCHANGED <<adapter, layout>>,
         marker' \in BOOLEAN, marker' => marker \/ present = Objects,
         rows' \in BOOLEAN, rows' => rows \/ (marker /\ present = Objects),
         stage' \in {"idle", "creating"}, changes' \in 0 .. MaxChanges, harmed' \in BOOLEAN,
         stage' = "creating" => ~marker' /\ ~rows',
         harmed' \/ (~harmed /\ (rows' => marker'))
  PROVE  LayoutInv'
  <1>1. LayoutTypeOK'
    BY DEF LayoutInv, LayoutTypeOK, layout, ExpectedChecks, Objects, Tables
  <1>2. StageInv'
    BY DEF LayoutInv, StageInv, layout
  <1>3. ASSUME ~harmed' PROVE HealthyLayout'
    <2>1. HealthyLayout /\ (marker' => present = Objects) /\ (rows' => marker')
      BY <1>3 DEF LayoutInv, HealthyLayout
    <2>2. UNCHANGED <<adapter, present, columns, keys, checks, index, extras>>
      BY DEF layout
    <2>3. \A t : ExpectedChecks(t)' = ExpectedChecks(t)
      BY <2>2 DEF ExpectedChecks
    <2>4. \A c \in checks : OwnWording(c) => OwnWording(c)'
      BY <2>2 DEF OwnWording
    <2>5. QED
      BY <2>1, <2>2, <2>3, <2>4 DEF HealthyLayout, ExpectedKeys
  <1>4. QED
    BY <1>1, <1>2, <1>3 DEF LayoutInv

\* initialize begins and ends, dies, or a first row is recorded.
LEMMA ToolKeepsObjects ==
  ASSUME LayoutInv,
         StartInitialize \/ FinishInitialize \/ Interrupted \/ RecordMigration
  PROVE  LayoutInv'
  <1> USE DEF ghosts
  <1>1. /\ marker \in BOOLEAN /\ rows \in BOOLEAN /\ stage \in {"idle", "creating"}
        /\ changes \in 0 .. MaxChanges /\ harmed \in BOOLEAN
        /\ rows => "history" \in present
    BY DEF LayoutInv, LayoutTypeOK
  <1>2. harmed \/ (rows => marker)
    BY DEF LayoutInv, HealthyLayout
  <1>3. CASE StartInitialize
    <2>1. ~marker /\ ~rows
      BY <1>1, <1>3 DEF StartInitialize, Inspect
    <2>2. QED
      BY <1>1, <1>2, <1>3, <2>1, SameObjects DEF StartInitialize
  <1>4. CASE FinishInitialize
    <2>1. ~rows
      BY <1>4 DEF FinishInitialize, LayoutInv, StageInv
    <2>2. marker' \in BOOLEAN
      BY <1>4, Zenon DEF FinishInitialize
    <2>3. QED
      BY <1>1, <1>4, <2>1, <2>2, SameObjects DEF FinishInitialize
  <1>5. CASE Interrupted
    BY <1>1, <1>2, <1>5, SameObjects DEF Interrupted
  <1>6. CASE RecordMigration
    <2>1. marker /\ present = Objects
      BY <1>6 DEF RecordMigration, Inspect
    <2>2. rows' \in BOOLEAN
      BY <1>6, Zenon DEF RecordMigration
    <2>3. QED
      BY <1>1, <1>6, <2>1, <2>2, SameObjects DEF RecordMigration
  <1>7. QED
    BY <1>3, <1>4, <1>5, <1>6

\* The rules and the wordings of conditions depend on the engine alone.
LEMMA SameEngine ==
  ASSUME UNCHANGED adapter
  PROVE  /\ \A t : ExpectedChecks(t)' = ExpectedChecks(t)
         /\ AllRules' = AllRules
         /\ \A T : CheckRecords(T)' = CheckRecords(T)
         /\ \A c : OwnWording(c)' <=> OwnWording(c)
  <1>1. \A t : ExpectedChecks(t)' = ExpectedChecks(t)
    BY DEF ExpectedChecks
  <1>2. AllRules' = AllRules
    BY <1>1 DEF AllRules, Tables
  <1>3. QED
    BY <1>1, <1>2 DEF CheckRecords, OwnWording

\* A change by hand: what it leaves has the types, and it neither adds rows nor
\* the marker.
LEMMA HandKeeps ==
  ASSUME LayoutInv, Alter, UNCHANGED <<adapter, stage>>,
         present' \subseteq Objects, columns' \in [Tables -> BOOLEAN],
         extras' \subseteq (Tables \intersect present') \X {"index", "option"},
         keys' \subseteq KeyRecords(Tables \intersect present'),
         \A k \in keys' : k.kind = "foreign" => k.table = "progress",
         checks' \subseteq CheckRecords(Tables \intersect present'),
         index' \in IndexRecords,
         marker' \in BOOLEAN, marker' => marker /\ "meta" \in present',
         rows' \in BOOLEAN, rows' => rows /\ "history" \in present'
  PROVE  LayoutInv'
  <1>1. harmed' \in BOOLEAN /\ harmed'
    BY Zenon DEF Alter
  <1>2. changes' \in 0 .. MaxChanges /\ adapter \in Adapters
         /\ stage \in {"idle", "creating"}
    BY LayoutAssumption DEF Alter, LayoutInv, LayoutTypeOK
  <1>3. checks' \subseteq CheckRecords(Tables \intersect present)'
    BY SameEngine DEF CheckRecords
  <1>4. LayoutTypeOK'
    BY <1>1, <1>2, <1>3
       DEF LayoutTypeOK, Tables, Objects, KeyRecords, CheckRecords, AllRules, IndexRecords,
           KeyColumns
  <1>5. StageInv'
    BY DEF LayoutInv, StageInv
  <1>6. QED
    BY <1>1, <1>4, <1>5 DEF LayoutInv

\* The types of the objects, by name, to carry over what a step leaves alone.
LEMMA ObjectTypes ==
  ASSUME LayoutInv
  PROVE  /\ present \subseteq Objects /\ columns \in [Tables -> BOOLEAN]
         /\ extras \subseteq (Tables \intersect present) \X {"index", "option"}
         /\ keys \subseteq KeyRecords(Tables \intersect present)
         /\ \A k \in keys : k.kind = "foreign" => k.table = "progress"
         /\ checks \subseteq CheckRecords(Tables \intersect present)
         /\ index \in IndexRecords
         /\ marker \in BOOLEAN /\ (marker => "meta" \in present)
         /\ rows \in BOOLEAN /\ (rows => "history" \in present)
  BY TypesUnfold DEF LayoutInv, StageInv

\* DROP of an object: what hangs on a dropped table goes with it.
LEMMA DropObjectKeeps ==
  ASSUME LayoutInv, NEW o \in Objects, DropObject(o)
  PROVE  LayoutInv'
  <1>1. /\ present' \subseteq present
        /\ \A t \in Tables : t \in present /\ t # o => t \in present'
    BY DEF DropObject, Tables
  <1>2. keys' \subseteq keys /\ \A k \in keys' : k.table # o
    BY DEF DropObject
  <1>3. keys' \subseteq KeyRecords(Tables \intersect present')
    BY <1>1, <1>2, ObjectTypes DEF KeyRecords
  <1>4. checks' \subseteq CheckRecords(Tables \intersect present')
    BY <1>1, ObjectTypes DEF DropObject, CheckRecords
  <1>5. extras' \subseteq (Tables \intersect present') \X {"index", "option"}
    BY <1>1, ObjectTypes DEF DropObject
  <1>6. marker' \in BOOLEAN /\ rows' \in BOOLEAN
    BY Zenon DEF DropObject
  <1>7. (marker' => marker /\ "meta" \in present') /\ (rows' => rows /\ "history" \in present')
    BY <1>1, ObjectTypes DEF DropObject, Tables
  <1>8. QED
    BY <1>1, <1>2, <1>3, <1>4, <1>5, <1>6, <1>7, ObjectTypes, HandKeeps DEF DropObject

LEMMA DeleteMarkerKeeps ==
  ASSUME LayoutInv, DeleteMarker
  PROVE  LayoutInv'
  <1>1. marker' \in BOOLEAN
    BY Zenon DEF DeleteMarker
  <1>2. QED
    BY <1>1, ObjectTypes, HandKeeps DEF DeleteMarker, layout

LEMMA AlterColumnsKeeps ==
  ASSUME LayoutInv, NEW t \in Tables, AlterColumns(t)
  PROVE  LayoutInv'
  <1>1. columns' \in [Tables -> BOOLEAN]
    BY ObjectTypes, Zenon DEF AlterColumns
  <1>2. QED
    BY <1>1, ObjectTypes, HandKeeps DEF AlterColumns, KeepOutside

LEMMA AlterKeyKeeps ==
  ASSUME LayoutInv, NEW k \in keys, AlterKey(k)
  PROVE  LayoutInv'
  <1> DEFINE T == Tables \intersect present
             on == IF Len(k.on) = 2 THEN <<k.on[2], k.on[1]>> ELSE <<"other">>
             changed == {[k EXCEPT !.enforced = FALSE], [k EXCEPT !.on = on],
                         [k EXCEPT !.target = "other"]}
  <1>1. keys' \subseteq keys \union changed
    BY DEF AlterKey
  <1>2. \A c \in changed : c \in KeyRecords(T) /\ c.table = k.table /\ c.kind = k.kind
    BY ObjectTypes, ChangedKey
  <1> HIDE DEF changed
  <1>3. /\ keys' \subseteq KeyRecords(T)
        /\ \A c \in keys' : c.kind = "foreign" => c.table = "progress"
    BY <1>1, <1>2, ObjectTypes
  <1>4. QED
    BY <1>3, ObjectTypes, HandKeeps DEF AlterKey, KeepOutside

LEMMA AlterCheckKeeps ==
  ASSUME LayoutInv, NEW c \in checks, AlterCheck(c)
  PROVE  LayoutInv'
  <1> DEFINE T == Tables \intersect present
  <1>1. \E w \in Wordings :
           checks' \subseteq checks \union {[c EXCEPT !.enforced = FALSE], [c EXCEPT !.wording = w]}
    BY DEF AlterCheck, Wordings
  <1>2. ASSUME NEW w \in Wordings
        PROVE  \A d \in {[c EXCEPT !.enforced = FALSE], [c EXCEPT !.wording = w]} :
                  d \in CheckRecords(T)
    <2>1. c \in CheckRecords(T)
      BY ObjectTypes
    <2> HIDE DEF T
    <2>2. \A d \in {[c EXCEPT !.enforced = FALSE], [c EXCEPT !.wording = w]} :
             d \in CheckRecords(T) /\ d.table = c.table /\ d.rule = c.rule
      BY <2>1, ChangedCheck, Zenon
    <2>3. QED
      BY <2>2, Zenon
  <1>3. checks' \subseteq CheckRecords(T)
    BY <1>1, <1>2, ObjectTypes
  <1>4. QED
    BY <1>3, ObjectTypes, HandKeeps DEF AlterCheck, KeepOutside

LEMMA AddCheckKeeps ==
  ASSUME LayoutInv, NEW t \in Tables, AddCheck(t)
  PROVE  LayoutInv'
  <1> DEFINE T == Tables \intersect present
  <1>1. t \in T /\ "issued" \in Wordings
    BY DEF AddCheck, Wordings, Faithful
  <1> "added" \in AllRules
    BY Zenon DEF AllRules
  <1>2. [table |-> t, rule |-> "added", wording |-> "issued", enforced |-> TRUE]
           \in CheckRecords(T)
    BY <1>1, Zenon DEF CheckRecords
  <1>3. checks' \subseteq CheckRecords(T)
    BY <1>2, ObjectTypes DEF AddCheck
  <1>4. QED
    BY <1>3, ObjectTypes, HandKeeps DEF AddCheck, KeepOutside

LEMMA RecreateIndexKeeps ==
  ASSUME LayoutInv, RecreateIndex
  PROVE  LayoutInv'
  <1>1. IssuedIndex \in IndexRecords
    BY Zenon DEF IssuedIndex, IndexRecords
  <1>2. index' \in IndexRecords
    <2>1. [IssuedIndex EXCEPT !.unique = FALSE] \in IndexRecords
      BY <1>1, Zenon DEF IndexRecords
    <2>2. [IssuedIndex EXCEPT !.usable = FALSE] \in IndexRecords
      BY <1>1, Zenon DEF IndexRecords
    <2>3. [IssuedIndex EXCEPT !.table = "progress"] \in IndexRecords
      BY <1>1 DEF IndexRecords
    <2>4. \A key \in {<<"seq">>, <<"status", "seq">>} :
             [IssuedIndex EXCEPT !.key = key] \in IndexRecords
      BY <1>1 DEF IndexRecords
    <2>5. \A l \in {"none", "active", "SUCCESS"} :
             [IssuedIndex EXCEPT !.literal = l] \in IndexRecords
      BY <1>1 DEF IndexRecords
    <2>6. QED
      BY <2>1, <2>2, <2>3, <2>4, <2>5 DEF RecreateIndex
  <1>3. QED
    BY <1>2, ObjectTypes, HandKeeps DEF RecreateIndex, KeepOutside

LEMMA AddExtraKeeps ==
  ASSUME LayoutInv, NEW t \in Tables, AddExtra(t)
  PROVE  LayoutInv'
  <1>1. extras' \subseteq (Tables \intersect present) \X {"index", "option"}
    BY ObjectTypes DEF AddExtra
  <1>2. QED
    BY <1>1, ObjectTypes, HandKeeps DEF AddExtra, KeepOutside

-----------------------------------------------------------------------------
\* Conditions come back from the dictionary in another faithful wording.
LEMMA RewordKeeps ==
  ASSUME LayoutInv, NEW w \in {"respelled", "dumped"},
         UNCHANGED <<adapter, present, columns, keys, index, extras, marker, rows, stage,
                     changes, harmed>>,
         \A d \in checks' : \E c \in checks :
             \/ d = c
             \/ /\ d = [c EXCEPT !.wording = w]
                /\ w = "respelled" => adapter # "postgres"
                /\ w = "dumped" => adapter = "postgres" /\ c.rule \in InLists,
         \A c \in checks : \E d \in checks' : d.table = c.table /\ d.rule = c.rule
  PROVE  LayoutInv'
  <1> DEFINE T == Tables \intersect present
  <1>1. checks \subseteq CheckRecords(T)
    BY ObjectTypes
  <1>2. w \in Wordings
    BY DEF Wordings, Faithful
  <1>3. ASSUME NEW d \in checks'
        PROVE  /\ d \in CheckRecords(T)
               /\ ~harmed => /\ d.rule \in ExpectedChecks(d.table)
                             /\ d.enforced /\ OwnWording(d)
    <2>1. PICK c \in checks :
             \/ d = c
             \/ /\ d = [c EXCEPT !.wording = w]
                /\ w = "respelled" => adapter # "postgres"
                /\ w = "dumped" => adapter = "postgres" /\ c.rule \in InLists
      OBVIOUS
    <2>2. c \in CheckRecords(T)
      BY <1>1
    <2>3. ~harmed => c.rule \in ExpectedChecks(c.table) /\ c.enforced /\ OwnWording(c)
      BY DEF LayoutInv, HealthyLayout
    <2>4. CASE d = c
      BY <2>2, <2>3, <2>4
    <2>5. CASE d # c
      <3>1. d = [c EXCEPT !.wording = w] /\ d \in CheckRecords(T)
        BY <1>2, <2>1, <2>2, <2>5 DEF CheckRecords
      <3>2. /\ d.table = c.table /\ d.rule = c.rule /\ d.wording = w
            /\ d.enforced = c.enforced
        BY <2>2, <3>1 DEF CheckRecords
      <3>3. OwnWording(d)
        BY <2>1, <2>5, <3>2 DEF OwnWording
      <3>4. QED
        BY <2>3, <3>1, <3>2, <3>3
    <2>6. QED
      BY <2>4, <2>5
  <1>4. LayoutTypeOK'
    <2>1. checks' \subseteq CheckRecords(T)
      BY <1>3
    <2>2. checks' \subseteq CheckRecords(T)'
      BY <2>1, SameEngine DEF CheckRecords
    <2>3. LayoutTypeOK
      BY DEF LayoutInv
    <2>4. QED
      BY <2>2, <2>3
         DEF LayoutTypeOK, Tables, Objects, CheckRecords, AllRules, KeyColumns
  <1>5. StageInv'
    BY DEF LayoutInv, StageInv
  <1>6. ASSUME ~harmed PROVE HealthyLayout'
    <2>1. HealthyLayout
      BY <1>6 DEF LayoutInv
    <2>2. \A t : ExpectedChecks(t)' = ExpectedChecks(t)
      BY SameEngine
    <2>3. \A d \in checks' : /\ d.rule \in ExpectedChecks(d.table)' /\ d.enforced
                             /\ OwnWording(d)'
      BY <1>3, <1>6, <2>2, SameEngine
    <2>4. \A t \in Tables \intersect present' : \A r \in ExpectedChecks(t)' :
             \E d \in checks' : d.table = t /\ d.rule = r
      <3>1. ASSUME NEW t \in Tables \intersect present, NEW r \in ExpectedChecks(t)
            PROVE  \E d \in checks' : d.table = t /\ d.rule = r
        <4>1. PICK c \in checks : c.table = t /\ c.rule = r
          BY <2>1, <3>1 DEF HealthyLayout
        <4>2. QED
          BY <4>1
      <3>2. QED
        BY <2>2, <3>1
    <2>5. QED
      BY <2>1, <2>3, <2>4 DEF HealthyLayout, ExpectedKeys
  <1>7. QED
    BY <1>4, <1>5, <1>6 DEF LayoutInv

LEMMA RespellKeeps ==
  ASSUME LayoutInv, NEW t \in Tables, Respell(t)
  PROVE  LayoutInv'
  <1>1. \A d \in checks' : \E c \in checks : d = c \/ d = [c EXCEPT !.wording = "respelled"]
    BY DEF Respell
  <1>2. ASSUME NEW c \in checks
        PROVE  \E d \in checks' : d.table = c.table /\ d.rule = c.rule
    <2>1. PICK d \in checks' : d = c \/ d = [c EXCEPT !.wording = "respelled"]
      BY DEF Respell
    <2>2. c \in CheckRecords(Tables \intersect present)
      BY ObjectTypes
    <2>3. QED
      BY <2>1, <2>2 DEF CheckRecords
  <1>3. QED
    BY <1>1, <1>2, RewordKeeps DEF Respell, KeepOutside, ghosts

LEMMA RestoreKeeps ==
  ASSUME LayoutInv, Restore
  PROVE  LayoutInv'
  <1>1. \A d \in checks' : \E c \in checks :
           d = c \/ (d = [c EXCEPT !.wording = "dumped"] /\ c.rule \in InLists)
    BY DEF Restore
  <1>2. ASSUME NEW c \in checks
        PROVE  \E d \in checks' : d.table = c.table /\ d.rule = c.rule
    <2>1. PICK d \in checks' : d = c \/ d = [c EXCEPT !.wording = "dumped"]
      BY DEF Restore
    <2>2. c \in CheckRecords(Tables \intersect present)
      BY ObjectTypes
    <2>3. QED
      BY <2>1, <2>2 DEF CheckRecords
  <1>3. /\ adapter = "postgres"
        /\ UNCHANGED <<adapter, present, columns, keys, index, extras, marker, rows, stage,
                       changes, harmed>>
    BY DEF Restore, KeepOutside, ghosts
  <1>4. \A d \in checks' : \E c \in checks :
           \/ d = c
           \/ /\ d = [c EXCEPT !.wording = "dumped"]
              /\ "dumped" = "respelled" => adapter # "postgres"
              /\ "dumped" = "dumped" => adapter = "postgres" /\ c.rule \in InLists
    BY <1>1, <1>3
  <1>5. QED
    BY <1>2, <1>3, <1>4, RewordKeeps

-----------------------------------------------------------------------------
\* The conditions of a table as _DDL issues them.
LEMMA IssuedCheckRecords ==
  ASSUME NEW t \in Tables
  PROVE  /\ IssuedChecks(t) \subseteq CheckRecords({t})
         /\ \A c \in IssuedChecks(t) : /\ c.table = t /\ c.rule \in ExpectedChecks(t)
                                       /\ c.enforced /\ c.wording = "issued"
         /\ \A r \in ExpectedChecks(t) : \E c \in IssuedChecks(t) : c.table = t /\ c.rule = r
  <1>1. ASSUME NEW r \in ExpectedChecks(t)
        PROVE  [table |-> t, rule |-> r, wording |-> "issued", enforced |-> TRUE]
                  \in CheckRecords({t})
    <2>1. r \in AllRules /\ "issued" \in Wordings
      BY DEF AllRules, Wordings, Faithful
    <2>2. QED
      BY <2>1, Zenon DEF CheckRecords
  <1>2. IssuedChecks(t) \subseteq CheckRecords({t})
    BY <1>1 DEF IssuedChecks
  <1>3. ASSUME NEW c \in IssuedChecks(t)
        PROVE  /\ c.table = t /\ c.rule \in ExpectedChecks(t)
               /\ c.enforced /\ c.wording = "issued"
    <2>1. PICK r \in ExpectedChecks(t) :
              c = [table |-> t, rule |-> r, wording |-> "issued", enforced |-> TRUE]
      BY DEF IssuedChecks
    <2>2. QED
      BY <2>1
  <1>4. ASSUME NEW r \in ExpectedChecks(t)
        PROVE  \E c \in IssuedChecks(t) : c.table = t /\ c.rule = r
    <2>1. [table |-> t, rule |-> r, wording |-> "issued", enforced |-> TRUE]
             \in IssuedChecks(t)
      BY DEF IssuedChecks
    <2>2. QED
      BY <2>1
  <1>5. QED
    BY <1>2, <1>3, <1>4

\* _create_metadata_object for a table: it comes with its keys and conditions.
LEMMA CreateTableKeeps ==
  ASSUME LayoutInv, NEW o \in Tables, CreateObject(o), Creatable(o)
  PROVE  LayoutInv'
  <1>1. /\ stage = "creating" /\ NextMissing(o)
        /\ present' = present \union {o} /\ columns' = [columns EXCEPT ![o] = TRUE]
        /\ keys' = keys \union ExpectedKeys(o) /\ checks' = checks \union IssuedChecks(o)
        /\ UNCHANGED <<index, stage, adapter, extras, marker, rows, changes, harmed>>
    BY DEF CreateObject, Tables, ghosts
  <1>2. LayoutTypeOK'
    <2>1. keys' \subseteq KeyRecords(Tables \intersect present')
      BY <1>1, ObjectTypes, ExpectedKeyRecords DEF KeyRecords
    <2>2. checks' \subseteq CheckRecords(Tables \intersect present')
      BY <1>1, ObjectTypes, IssuedCheckRecords DEF CheckRecords
    <2>3. checks' \subseteq CheckRecords(Tables \intersect present)'
      BY <1>1, <2>2, SameEngine DEF CheckRecords
    <2>4. columns' \in [Tables -> BOOLEAN]
      BY <1>1, ObjectTypes, Zenon
    <2>5. /\ present' \subseteq Objects
          /\ extras' \subseteq (Tables \intersect present') \X {"index", "option"}
          /\ (marker' => "meta" \in present') /\ (rows' => "history" \in present')
      BY <1>1, ObjectTypes DEF Objects
    <2>6. LayoutTypeOK
      BY DEF LayoutInv
    <2>7. QED
      BY <1>1, <2>1, <2>3, <2>4, <2>5, <2>6
         DEF LayoutTypeOK, Tables, Objects, KeyRecords, CheckRecords, AllRules, KeyColumns
  <1>3. StageInv'
    <2>1. \A k \in keys' : k.kind = "foreign" => k.table = "progress"
      BY <1>1, ObjectTypes, ExpectedKeyRecords
    <2>2. QED
      BY <1>1, <2>1 DEF LayoutInv, StageInv
  <1>4. ASSUME ~harmed PROVE HealthyLayout'
    <2>1. HealthyLayout /\ ~marker /\ ~rows
      BY <1>1, <1>4 DEF LayoutInv, StageInv
    <2>2. \A i \in 2 .. 4 : CreationOrder[i] \in present' => CreationOrder[i - 1] \in present'
      BY <1>1, <2>1 DEF HealthyLayout, NextMissing, CreationOrder
    <2>3. \A t \in Tables : columns'[t]
      BY <1>1, <2>1, ObjectTypes DEF HealthyLayout
    <2>4. keys' = UNION {ExpectedKeys(t) : t \in Tables \intersect present'}
      BY <1>1, <2>1 DEF HealthyLayout
    <2>5. \A c \in checks' : /\ c.rule \in ExpectedChecks(c.table)' /\ c.enforced
                             /\ OwnWording(c)'
      <3>1. \A c \in checks' : /\ c.rule \in ExpectedChecks(c.table) /\ c.enforced
                               /\ OwnWording(c)
        BY <1>1, <2>1, IssuedCheckRecords DEF HealthyLayout, OwnWording
      <3>2. QED
        BY <1>1, <3>1, SameEngine
    <2>6. \A t \in Tables \intersect present' : \A r \in ExpectedChecks(t)' :
             \E d \in checks' : d.table = t /\ d.rule = r
      <3>1. ASSUME NEW t \in Tables \intersect present', NEW r \in ExpectedChecks(t)
            PROVE  \E d \in checks' : d.table = t /\ d.rule = r
        <4>1. CASE t = o
          <5>1. PICK d \in IssuedChecks(o) : d.table = o /\ d.rule = r
            BY <3>1, <4>1, IssuedCheckRecords
          <5>2. QED
            BY <1>1, <4>1, <5>1
        <4>2. CASE t # o
          BY <1>1, <2>1, <4>2 DEF HealthyLayout
        <4>3. QED
          BY <4>1, <4>2
      <3>2. QED
        BY <1>1, <3>1, SameEngine
    <2>7. QED
      BY <1>1, <2>1, <2>2, <2>3, <2>4, <2>5, <2>6 DEF HealthyLayout, ExpectedKeys
  <1>5. QED
    BY <1>1, <1>2, <1>3, <1>4 DEF LayoutInv

\* _create_metadata_object for the one-ACTIVE index.
LEMMA CreateIndexKeeps ==
  ASSUME LayoutInv, CreateObject("index"), Creatable("index")
  PROVE  LayoutInv'
  <1>1. /\ stage = "creating" /\ NextMissing("index")
        /\ present' = present \union {"index"}
        /\ UNCHANGED <<columns, keys, checks, stage, adapter, extras, marker, rows, changes,
                       harmed>>
    BY DEF CreateObject, Tables, ghosts
  <1>2. PICK f \in {"issued", "rewritten"} : index' = [IssuedIndex EXCEPT !.form = f]
    BY DEF CreateObject, Tables
  <1>3. index' \in IndexRecords
    <2>1. IssuedIndex \in IndexRecords
      BY Zenon DEF IssuedIndex, IndexRecords
    <2>2. QED
      BY <1>2, <2>1 DEF IndexRecords
  <1>4. Tables \intersect present' = Tables \intersect present
    BY <1>1 DEF Tables
  <1>5. LayoutTypeOK'
    <2>1. LayoutTypeOK /\ present' \subseteq Objects
      BY <1>1 DEF LayoutInv, LayoutTypeOK, Objects
    <2>2. \A t : ExpectedChecks(t)' = ExpectedChecks(t)
      BY <1>1, SameEngine
    <2>3. QED
      BY <1>1, <1>3, <1>4, <2>1, <2>2 DEF LayoutTypeOK, IndexRecords
  <1>6. StageInv'
    BY <1>1 DEF LayoutInv, StageInv
  <1>7. ASSUME ~harmed PROVE HealthyLayout'
    <2>1. HealthyLayout /\ ~marker /\ ~rows
      BY <1>1, <1>7 DEF LayoutInv, StageInv
    <2>2. \A i \in 2 .. 4 : CreationOrder[i] \in present' => CreationOrder[i - 1] \in present'
      BY <1>1, <2>1 DEF HealthyLayout, NextMissing, CreationOrder
    <2>3. /\ \A t : ExpectedChecks(t)' = ExpectedChecks(t)
          /\ \A c : OwnWording(c)' <=> OwnWording(c)
      BY <1>1, SameEngine
    <2>4. index' \in {[IssuedIndex EXCEPT !.form = f0] : f0 \in {"issued", "rewritten"}}
      BY <1>2
    <2>5. keys' = UNION {ExpectedKeys(t) : t \in Tables \intersect present'}
      BY <1>1, <1>4, <2>1 DEF HealthyLayout
    <2>6. \A t \in Tables \intersect present' : \A r \in ExpectedChecks(t)' :
             \E c \in checks' : c.table = t /\ c.rule = r
      BY <1>1, <1>4, <2>1, <2>3 DEF HealthyLayout
    <2>7. \A c \in checks' : /\ c.rule \in ExpectedChecks(c.table)' /\ c.enforced
                             /\ OwnWording(c)'
      BY <1>1, <2>1, <2>3 DEF HealthyLayout
    <2>8. (\A t \in Tables : columns'[t]) /\ extras' = {} /\ ~marker' /\ ~rows'
      BY <1>1, <2>1 DEF HealthyLayout
    <2>9. QED
      BY <2>2, <2>4, <2>5, <2>6, <2>7, <2>8 DEF HealthyLayout, ExpectedKeys, Key, IssuedIndex,
         CreationOrder
  <1>8. QED
    BY <1>1, <1>5, <1>6, <1>7 DEF LayoutInv

\* A CREATE that the database refuses ends the initialization.
LEMMA CreateRefusedKeeps ==
  ASSUME LayoutInv, NEW o \in Objects, CreateObject(o), ~Creatable(o)
  PROVE  LayoutInv'
  <1>1. UNCHANGED <<adapter, layout, marker, rows, ghosts>> /\ stage' = "idle"
    BY DEF CreateObject, layout
  <1>2. /\ marker \in BOOLEAN /\ rows \in BOOLEAN /\ changes \in 0 .. MaxChanges
        /\ harmed \in BOOLEAN /\ (harmed \/ (rows => marker))
    BY DEF LayoutInv, LayoutTypeOK, HealthyLayout
  <1>3. QED
    BY <1>1, <1>2, SameObjects DEF ghosts

-----------------------------------------------------------------------------
\* Every step, of the tool or by hand, keeps the invariant.
LEMMA NextLayout ==
  ASSUME LayoutInv, [LayoutNext]_layoutVars
  PROVE  LayoutInv'
  <1>1. CASE UNCHANGED layoutVars
    <2>1. /\ marker \in BOOLEAN /\ rows \in BOOLEAN /\ stage \in {"idle", "creating"}
          /\ changes \in 0 .. MaxChanges /\ harmed \in BOOLEAN
          /\ harmed \/ (rows => marker)
          /\ stage = "creating" => ~marker /\ ~rows
      BY DEF LayoutInv, LayoutTypeOK, HealthyLayout, StageInv
    <2>2. QED
      BY <1>1, <2>1, SameObjects DEF layoutVars, ghosts
  <1>2. ASSUME NEW o \in Objects, CreateObject(o) PROVE LayoutInv'
    BY <1>2, CreateTableKeeps, CreateIndexKeeps, CreateRefusedKeeps DEF Objects
  <1>3. CASE ByHand
    BY <1>3, DeleteMarkerKeeps, RecreateIndexKeeps, RestoreKeeps, DropObjectKeeps,
       AlterColumnsKeeps, AddCheckKeeps, AddExtraKeeps, RespellKeeps, AlterKeyKeeps,
       AlterCheckKeeps
       DEF ByHand
  <1>4. QED
    BY <1>1, <1>2, <1>3, ToolKeepsObjects DEF LayoutNext

\* THEOREM: for any number of changes by hand and restores, while objects are
\* being created or afterwards: a namespace the definition checks accept is one
\* whose server enforces every key and condition of the layout and admits every row
\* the engine writes, and whose index collides on two ACTIVE rows or is, on
\* PostgreSQL or Oracle, the issued one but for the case of its literal
\* (compact_definition); and one that no hand has changed is accepted.
THEOREM LayoutSafetyHolds == LayoutSpec => []LayoutSafety
  <1>1. LayoutInit => LayoutInv
    BY InitLayout
  <1>2. LayoutInv /\ [LayoutNext]_layoutVars => LayoutInv'
    BY NextLayout
  <1>3. LayoutInv => LayoutSafety
    BY LayoutInvSuffices
  <1>4. QED
    BY <1>1, <1>2, <1>3, PTL DEF LayoutSpec

\* THEOREM: initialize writes the marker only over a complete layout that enforces
\* its rules, up to the case of the index's literal on PostgreSQL and Oracle, and
\* over an empty history, whatever is altered meanwhile.
THEOREM MarkerVouchesForLayoutHolds == LayoutSpec => MarkerVouchesForLayout
  <1>1. LayoutInit => LayoutInv
    BY InitLayout
  <1>2. LayoutInv /\ [LayoutNext]_layoutVars => LayoutInv'
    BY NextLayout
  <1>3. ASSUME LayoutInv, LayoutNext, ~marker, marker'
        PROVE  present = Objects /\ EnforcesUpToCase /\ ~rows
    <2>1. FinishInitialize
      BY <1>3
         DEF LayoutNext, ByHand, StartInitialize, Interrupted, RecordMigration, CreateObject,
             DeleteMarker, RecreateIndex, Restore, DropObject, AlterColumns, AddCheck,
             AddExtra, Respell, AlterKey, AlterCheck, KeepOutside
    <2>2. present = Objects /\ NoProblems /\ ~rows
      BY <1>3, <2>1 DEF FinishInitialize, LayoutInv, StageInv
    <2>3. QED
      BY <1>3, <2>2, NoProblemsSuffice DEF LayoutInv
  <1>4. LayoutInv /\ [LayoutNext]_layoutVars
          => [~marker /\ marker' => present = Objects /\ EnforcesUpToCase /\ ~rows]_layoutVars
    BY <1>3
  <1>5. QED
    BY <1>1, <1>2, <1>4, PTL DEF LayoutSpec, MarkerVouchesForLayout

\* THEOREM: no step of a run, an operator or a hand amends a source nobody named,
\* builds on a damaged history or vouches for a layout that does not hold, the case
\* of the index's literal on PostgreSQL and Oracle excepted.
THEOREM MetadataStepsHolds == Spec /\ LayoutSpec => MetadataSteps
  BY AmendedOnlyByNameHolds, DamageStopsRunsHolds, MarkerVouchesForLayoutHolds, PTL
     DEF MetadataSteps
=============================================================================
