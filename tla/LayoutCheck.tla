---------------------------- MODULE LayoutCheck ----------------------------
(***************************************************************************)
(* The definition checks of the metadata objects.  Every run compares what *)
(* the database's dictionary holds for the four objects with the layout    *)
(* the adapter creates, and refuses the namespace on any difference, since *)
(* the engine's guarantees rest on the server enforcing it.  Here objects  *)
(* are altered by hand between runs and during an initialization, dropped, *)
(* recreated, and restored from a logical backup.                          *)
(*                                                                         *)
(* A stored condition is its rule and the wording the dictionary returns.  *)
(* What the layout enforces is stated on its own (section "What the server *)
(* enforces") and never by means of the comparison.                        *)
(***************************************************************************)
EXTENDS Naturals, Sequences

CONSTANTS
    Adapters,       \* the engines to check
    MaxChanges      \* bound: objects altered by hand

ASSUME LayoutAssumption ==
    /\ Adapters \subseteq {"sqlite", "postgres", "oracle"}
    /\ MaxChanges \in Nat

Tables == {"history", "progress", "meta"}
CreationOrder == <<"history", "index", "progress", "meta">>
Objects == Tables \union {"index"}

VARIABLES
    adapter,        \* the engine of this behaviour
    present,        \* the metadata objects that exist
    columns,        \* table -> its columns are as created
    keys,           \* the primary, unique and foreign keys
    checks,         \* the check constraints
    index,          \* the one-ACTIVE index, meaningful while present
    extras,         \* <<table, what>>: an index or a storage option added by hand
    marker,         \* the singleton row of m8_meta
    rows,           \* m8_history has rows
    stage,          \* "idle" or, during initialize, "creating"
    changes,        \* alterations made by hand so far
    harmed          \* ghost: one of them changed what the layout means

layout == <<present, columns, keys, checks, index, extras>>
ghosts == <<changes, harmed>>
layoutVars == <<adapter, layout, marker, rows, stage, ghosts>>

-----------------------------------------------------------------------------
(* The supported layout *)

Key(table, kind, on) ==
    [table |-> table, kind |-> kind, on |-> on,
     target |-> IF kind = "foreign" THEN "own" ELSE "none", enforced |-> TRUE]

\* _EXPECTED_KEYS and the keys of _EXPECTED_CONSTRAINTS, in key order.
ExpectedKeys(t) ==
    CASE t = "history"  -> {Key(t, "primary", <<"migration_id">>), Key(t, "unique", <<"seq">>)}
      [] t = "progress" -> {Key(t, "primary", <<"migration_id", "prog_key">>),
                            Key(t, "foreign", <<"migration_id">>)}
      [] t = "meta"     -> {Key(t, "primary", <<"meta_key">>)}

\* The complete set of conditions of a table.  SQLite's DDL states the rule on
\* ACTIVE rows as two conditions.
ExpectedChecks(t) ==
    CASE t = "history"  -> {"seq", "language", "mode", "status", "attempt", "success"}
                           \union (IF adapter = "sqlite" THEN {"active_mode", "active_open"}
                                                         ELSE {"active"})
      [] t = "progress" -> {"prog_key", "prog_value"}
      [] t = "meta"     -> {"singleton"}

\* Conditions that compare with string literals, and those written with IN.
Lettered == {"language", "mode", "status", "success", "active", "active_mode",
             "active_open", "singleton"}
InLists == {"language", "mode", "status"}

IssuedChecks(t) ==
    {[table |-> t, rule |-> r, wording |-> "issued", enforced |-> TRUE] :
        r \in ExpectedChecks(t)}

\* ACTIVE_INDEX as _DDL creates it.  Oracle indexes a constant under a CASE,
\* the others status under a predicate; key <<"status">> stands for both.
\* literal is the value status is compared with, "none" without a restriction.
IssuedIndex ==
    [table |-> "history", unique |-> TRUE, usable |-> TRUE, key |-> <<"status">>,
     literal |-> "ACTIVE", form |-> "issued"]

-----------------------------------------------------------------------------
(* The comparison *)

\* canonical_condition: whitespace and identifiers folded, literals kept; "none"
\* when the scanner does not recognise the text.
CanonicalCondition(wording) ==
    CASE wording = "respelled"  -> "issued"
      [] wording = "unreadable" -> "none"
      [] OTHER                  -> wording

\* Mutant: the restored rendering of an IN condition is not recorded.
Equivalents_None(c) == CanonicalCondition(c.wording)

\* _DUMPED_RENDERINGS: the recorded renderings of a restored IN condition.
Equivalents(c) ==
    IF adapter = "postgres" /\ c.rule \in InLists /\ CanonicalCondition(c.wording) = "dumped"
    THEN "issued"
    ELSE CanonicalCondition(c.wording)

\* check_problems: the set is closed and the comparison exact.
ChecksMatch(t) ==
    LET stored == {c \in checks : c.table = t}
    IN  /\ \A c \in stored :
              c.rule \in ExpectedChecks(t) /\ Equivalents(c) = "issued" /\ c.enforced
        /\ \A r \in ExpectedChecks(t) : \E c \in stored : c.rule = r

\* Mutant: a key is looked for, its enabled/validated state is not.
DictionaryKeysMatch_Declared(t) ==
    \A k \in ExpectedKeys(t) :
        LET matches == {c \in keys : c.table = t /\ c.kind = k.kind /\ c.on = k.on}
        IN  matches # {} /\ \A c \in matches : c.target = k.target

\* _constraint_problems on PostgreSQL and Oracle: a required key exists, and all
\* keys of that kind on those columns are enforced and point at this schema's
\* history.
DictionaryKeysMatch(t) ==
    \A k \in ExpectedKeys(t) :
        LET matches == {c \in keys : c.table = t /\ c.kind = k.kind /\ c.on = k.on}
        IN  matches # {} /\ \A c \in matches : c.enforced /\ c.target = k.target

\* SqliteAdapter._key_problems: by columns and target; no disabled state exists.
SqliteKeysMatch(t) ==
    \A k \in ExpectedKeys(t) :
        \E c \in keys : c.table = t /\ c.kind = k.kind /\ c.on = k.on /\ c.target = k.target

\* Mutant: the structural checks alone, without the closing comparison.
SqliteTableMatches_Structural(t) ==
    columns[t] /\ SqliteKeysMatch(t) /\ ChecksMatch(t) /\ <<t, "index">> \notin extras

\* SqliteAdapter._table_problems, then _definition_differences: the stored
\* statement is the one the adapter issues, identifiers and whitespace folded.
SqliteTableMatches(t) ==
    /\ columns[t] /\ SqliteKeysMatch(t) /\ ChecksMatch(t) /\ <<t, "index">> \notin extras
    /\ {c \in keys : c.table = t} = ExpectedKeys(t) /\ <<t, "option">> \notin extras

TableMatches(t) ==
    IF adapter = "sqlite" THEN SqliteTableMatches(t)
    ELSE columns[t] /\ DictionaryKeysMatch(t) /\ ChecksMatch(t)

\* compact_definition upper-cases the whole text; SQLite canonicalises instead.
\* Both engine renderings of the supported form are accepted.
ComparedLiteral(literal) ==
    IF adapter # "sqlite" /\ literal = "active" THEN "ACTIVE" ELSE literal

IndexMatches ==
    /\ index.table = "history" /\ index.unique /\ index.usable
    /\ index.key = <<"status">>
    /\ ComparedLiteral(index.literal) = "ACTIVE" /\ index.form \in {"issued", "rewritten"}

\* _definition_problems of the objects that exist: none was found.
NoProblems ==
    /\ \A t \in Tables \intersect present : TableMatches(t)
    /\ "index" \in present => IndexMatches

\* Adapter.inspect and metadata.classify.
Inspect ==
    CASE marker                   -> IF NoProblems /\ present = Objects
                                     THEN "complete" ELSE "damaged"
      [] ~marker /\ present = {}  -> "absent"
      [] ~marker /\ present # {}  -> IF NoProblems /\ ~rows THEN "incomplete" ELSE "damaged"

-----------------------------------------------------------------------------
(* What the server enforces *)

\* Two history rows with these statuses may both be stored.
IndexAdmits(s, r) ==
    ~ /\ index.table = "history" /\ index.unique /\ index.usable
      /\ index.key = <<"status">> /\ s = r
      /\ index.literal \in {s, "none"}

KeyHolds(k) == k \in keys

Faithful == {"issued", "respelled", "dumped"}

RuleHolds(t, r) ==
    \E c \in checks : c.table = t /\ c.rule = r /\ c.enforced /\ c.wording \in Faithful

EnforcesTables ==
    \A t \in Tables : /\ columns[t]
                      /\ \A k \in ExpectedKeys(t) : KeyHolds(k)
                      /\ \A r \in ExpectedChecks(t) : RuleHolds(t, r)

EnforcesLayout == EnforcesTables /\ ~IndexAdmits("ACTIVE", "ACTIVE")

\* The index differs from the issued one in the case of its literal and in nothing
\* else, on an engine whose rendering of it is compared in upper case.
FoldedIndex ==
    /\ adapter # "sqlite"
    /\ \E f \in {"issued", "rewritten"} :
          index = [IssuedIndex EXCEPT !.literal = "active", !.form = f]

EnforcesUpToCase == EnforcesTables /\ (IndexAdmits("ACTIVE", "ACTIVE") => FoldedIndex)

\* A row the engine writes is held to nothing more: no other condition, no
\* second owner of a progress row, one SUCCESS row beside another.  Keys on
\* other columns and added indexes are looked for on SQLite only.
AdmitsEngine ==
    /\ \A c \in checks : c.rule \in ExpectedChecks(c.table) /\ c.wording \in Faithful
    /\ \A k \in keys : k.kind = "foreign" /\ k.on = <<"migration_id">> => k.target = "own"
    /\ IndexAdmits("SUCCESS", "SUCCESS")
    /\ adapter = "sqlite" => extras = {} /\ keys = UNION {ExpectedKeys(t) : t \in Tables}

-----------------------------------------------------------------------------
(* The engine's steps *)

LayoutInit ==
    /\ adapter \in Adapters
    /\ present = {} /\ columns = [t \in Tables |-> TRUE]
    /\ keys = {} /\ checks = {} /\ index = IssuedIndex /\ extras = {}
    /\ marker = FALSE /\ rows = FALSE /\ stage = "idle"
    /\ changes = 0 /\ harmed = FALSE

\* A migrate admits initialization of an absent or an incomplete namespace only.
StartInitialize ==
    /\ stage = "idle" /\ Inspect \in {"absent", "incomplete"}
    /\ stage' = "creating"
    /\ UNCHANGED <<adapter, layout, marker, rows, ghosts>>

\* The CREATE succeeds: an index needs its table, a foreign key the history's
\* key (SQLite resolves references later).
Creatable(o) ==
    CASE o = "index"    -> "history" \in present
      [] o = "progress" -> \/ adapter = "sqlite"
                           \/ \E k \in keys : /\ k.table = "history"
                                              /\ k.kind \in {"primary", "unique"}
                                              /\ k.on = <<"migration_id">>
      [] OTHER          -> TRUE

NextMissing(o) ==
    \E i \in 1 .. 4 : /\ CreationOrder[i] = o /\ o \notin present
                      /\ \A j \in 1 .. i - 1 : CreationOrder[j] \in present

\* _create_metadata_object.  The dictionary may return the index in another
\* rendering than the one issued.
CreateObject(o) ==
    /\ stage = "creating" /\ NextMissing(o)
    /\ IF Creatable(o)
       THEN /\ present' = present \union {o}
            /\ \/ /\ o \in Tables
                  /\ columns' = [columns EXCEPT ![o] = TRUE]
                  /\ keys' = keys \union ExpectedKeys(o)
                  /\ checks' = checks \union IssuedChecks(o)
                  /\ UNCHANGED index
               \/ /\ o = "index"
                  /\ \E f \in IF adapter = "sqlite" THEN {"issued"} ELSE {"issued", "rewritten"} :
                        index' = [IssuedIndex EXCEPT !.form = f]
                  /\ UNCHANGED <<columns, keys, checks>>
            /\ UNCHANGED stage
       ELSE stage' = "idle" /\ UNCHANGED <<present, columns, keys, checks, index>>
    /\ UNCHANGED <<adapter, extras, marker, rows, ghosts>>

\* Mutant: the definitions are not inspected again before the marker.
FinishInitialize_NoRecheck ==
    /\ stage = "creating" /\ \A o \in Objects : ~NextMissing(o)
    /\ stage' = "idle"
    /\ marker' = (present = Objects)
    /\ UNCHANGED <<adapter, layout, rows, ghosts>>

\* The rest of initialize: the objects are inspected again and the marker is
\* written only on a complete layout; otherwise MetadataDamagedError.
FinishInitialize ==
    /\ stage = "creating" /\ \A o \in Objects : ~NextMissing(o)
    /\ stage' = "idle"
    /\ marker' = (present = Objects /\ NoProblems)
    /\ UNCHANGED <<adapter, layout, rows, ghosts>>

\* The run dies between two creations.
Interrupted ==
    /\ stage = "creating"
    /\ stage' = "idle"
    /\ UNCHANGED <<adapter, layout, marker, rows, ghosts>>

\* A migrate records its first migration.
RecordMigration ==
    /\ stage = "idle" /\ Inspect = "complete" /\ ~rows
    /\ rows' = TRUE
    /\ UNCHANGED <<adapter, layout, marker, stage, ghosts>>

-----------------------------------------------------------------------------
(* Changes by hand, and restores *)

Alter == changes < MaxChanges /\ changes' = changes + 1 /\ harmed' = TRUE
KeepOutside == UNCHANGED <<adapter, marker, rows, stage>>

\* DROP ... CASCADE.  A table goes with its index and, except on SQLite, with the
\* references to it.
DropObject(o) ==
    /\ Alter /\ o \in present
    /\ present' = present \ (IF o = index.table THEN {o, "index"} ELSE {o})
    /\ keys' = {k \in keys : /\ k.table # o
                             /\ ~(o = "history" /\ adapter # "sqlite" /\ k.target = "own")}
    /\ checks' = {c \in checks : c.table # o}
    /\ extras' = {e \in extras : e[1] # o}
    /\ marker' = (marker /\ o # "meta") /\ rows' = (rows /\ o # "history")
    /\ UNCHANGED <<adapter, columns, index, stage>>

DeleteMarker ==
    /\ Alter /\ marker
    /\ marker' = FALSE
    /\ UNCHANGED <<adapter, layout, rows, stage>>

AlterColumns(t) ==
    /\ Alter /\ t \in present
    /\ columns' = [columns EXCEPT ![t] = FALSE]
    /\ KeepOutside /\ UNCHANGED <<present, keys, checks, index, extras>>

\* A key dropped, disabled or not validated, on other columns or in another
\* order, pointing elsewhere, or joined by a second reference.
AlterKey(k) ==
    /\ Alter
    /\ \/ keys' = keys \ {k}
       \/ /\ adapter = "oracle" \/ (adapter = "postgres" /\ k.kind = "foreign")
          /\ keys' = (keys \ {k}) \union {[k EXCEPT !.enforced = FALSE]}
       \/ keys' = (keys \ {k}) \union
                      {[k EXCEPT !.on = IF Len(@) = 2 THEN <<@[2], @[1]>> ELSE <<"other">>]}
       \/ /\ k.kind = "foreign"
          /\ \/ keys' = (keys \ {k}) \union {[k EXCEPT !.target = "other"]}
             \/ keys' = keys \union {[k EXCEPT !.target = "other"]}
    /\ KeepOutside /\ UNCHANGED <<present, columns, checks, index, extras>>

\* A condition dropped, disabled, weakened by OR 1=1, compared with a literal in
\* another case, or replaced by text outside the scanner's grammar.
AlterCheck(c) ==
    /\ Alter
    /\ \/ checks' = checks \ {c}
       \/ adapter # "sqlite" /\ checks' = (checks \ {c}) \union {[c EXCEPT !.enforced = FALSE]}
       \/ \E w \in {"weakened", "unreadable"} \union
                       (IF c.rule \in Lettered THEN {"relettered"} ELSE {}) :
             checks' = (checks \ {c}) \union {[c EXCEPT !.wording = w]}
    /\ KeepOutside /\ UNCHANGED <<present, columns, keys, index, extras>>

AddCheck(t) ==
    /\ Alter /\ t \in present
    /\ checks' = checks \union
          {[table |-> t, rule |-> "added", wording |-> "issued", enforced |-> TRUE]}
    /\ KeepOutside /\ UNCHANGED <<present, columns, keys, index, extras>>

\* The index recreated: not unique, unusable, on another table, on another key,
\* without its restriction, or with a literal in another case or of another status.
RecreateIndex ==
    /\ Alter /\ "index" \in present
    /\ \/ index' = [IssuedIndex EXCEPT !.unique = FALSE]
       \/ adapter # "sqlite" /\ index' = [IssuedIndex EXCEPT !.usable = FALSE]
       \/ "progress" \in present /\ index' = [IssuedIndex EXCEPT !.table = "progress"]
       \/ \E key \in {<<"seq">>, <<"status", "seq">>} : index' = [IssuedIndex EXCEPT !.key = key]
       \/ \E l \in {"none", "active", "SUCCESS"} :
             index' = [IssuedIndex EXCEPT !.literal = l]
    /\ KeepOutside /\ UNCHANGED <<present, columns, keys, checks, extras>>

\* An index, a storage option, a default or a collation is added to a table.
AddExtra(t) ==
    /\ Alter /\ t \in present
    /\ \E what \in {"index", "option"} : extras' = extras \union {<<t, what>>}
    /\ KeepOutside /\ UNCHANGED <<present, columns, keys, checks, index>>

\* Not damage: an object recreated with other spacing and identifier spelling.
\* PostgreSQL stores the parsed condition, so no spelling survives there.
Respell(t) ==
    /\ adapter # "postgres" /\ t \in present
    /\ \E c \in checks : c.table = t /\ c.wording = "issued"
    /\ checks' = {IF c.table = t /\ c.wording = "issued"
                  THEN [c EXCEPT !.wording = "respelled"] ELSE c : c \in checks}
    /\ KeepOutside /\ UNCHANGED <<present, columns, keys, index, extras, ghosts>>

\* Not damage either: a pg_dump is restored, and PostgreSQL renders the parsed
\* IN conditions differently.
Restore ==
    /\ adapter = "postgres" /\ stage = "idle"
    /\ \E c \in checks : c.rule \in InLists /\ c.wording = "issued"
    /\ checks' = {IF c.rule \in InLists /\ c.wording = "issued"
                  THEN [c EXCEPT !.wording = "dumped"] ELSE c : c \in checks}
    /\ KeepOutside /\ UNCHANGED <<present, columns, keys, index, extras, ghosts>>

ByHand ==
    \/ DeleteMarker \/ RecreateIndex \/ Restore
    \/ \E o \in Objects : DropObject(o)
    \/ \E t \in Tables : AlterColumns(t) \/ AddCheck(t) \/ AddExtra(t) \/ Respell(t)
    \/ \E k \in keys : AlterKey(k)
    \/ \E c \in checks : AlterCheck(c)

LayoutNext ==
    \/ StartInitialize \/ FinishInitialize \/ Interrupted \/ RecordMigration
    \/ \E o \in Objects : CreateObject(o)
    \/ ByHand

LayoutSpec == LayoutInit /\ [][LayoutNext]_layoutVars

-----------------------------------------------------------------------------
(* Properties *)

Wordings == Faithful \union {"weakened", "unreadable", "relettered"}

KeyColumns == {<<"migration_id">>, <<"seq">>, <<"meta_key">>, <<"other">>,
               <<"migration_id", "prog_key">>, <<"prog_key", "migration_id">>}

LayoutTypeOK ==
    /\ adapter \in Adapters /\ present \subseteq Objects
    /\ columns \in [Tables -> BOOLEAN]
    /\ extras \subseteq (Tables \intersect present) \X {"index", "option"}
    /\ keys \subseteq [table : Tables \intersect present,
                       kind : {"primary", "unique", "foreign"}, on : KeyColumns,
                       target : {"own", "other", "none"}, enforced : BOOLEAN]
    /\ checks \subseteq [table : Tables \intersect present,
                         rule : {"added"} \union UNION {ExpectedChecks(t) : t \in Tables},
                         wording : Wordings, enforced : BOOLEAN]
    /\ index \in [table : {"history", "progress"}, unique : BOOLEAN, usable : BOOLEAN,
                  key : {<<"status">>, <<"seq">>, <<"status", "seq">>},
                  literal : {"ACTIVE", "active", "SUCCESS", "none"},
                  form : {"issued", "rewritten"}]
    /\ marker \in BOOLEAN /\ (marker => "meta" \in present)
    /\ rows \in BOOLEAN /\ (rows => "history" \in present)
    /\ stage \in {"idle", "creating"} /\ changes \in 0 .. MaxChanges /\ harmed \in BOOLEAN

\* A namespace _definition_problems and classify accept is one whose server
\* holds the next write to every rule of the layout: the one-ACTIVE index
\* collides on two ACTIVE rows, the keys are enforced and point at this schema's
\* history, and every condition still says what the engine issued.  The exception
\* is an index that restricts status to 'active' on PostgreSQL or Oracle, which
\* compact_definition takes for 'ACTIVE': ExactIndexOnly.
AcceptedLayoutEnforces == Inspect = "complete" => EnforcesUpToCase

\* A namespace is accepted only if its one-ACTIVE index has the exact supported
\* form, as SPEC.md says, so that two ACTIVE rows collide.  The code compares the
\* whole definition in upper case (compact_definition) and accepts another literal.
ExactIndexOnly == Inspect = "complete" => EnforcesLayout

\* The closed comparison (check_problems, SQLite's _added_index_problems and
\* _definition_differences) also leaves nothing in place that would refuse a row
\* the engine writes next.
AcceptedLayoutAdmitsEngine == Inspect = "complete" => AdmitsEngine

\* Nothing the tool, an interrupted initialization or a logical restore does
\* turns a namespace into damage: only a change by hand can (_DUMPED_RENDERINGS
\* exists for this).
HealthyIsAccepted == harmed \/ Inspect # "damaged"

\* initialize writes the marker over a complete layout that enforces its rules,
\* and never over a history that already has rows, whatever is altered while the
\* objects are being created; only the case of the index's literal escapes it on
\* PostgreSQL and Oracle, as in AcceptedLayoutEnforces.
MarkerVouchesForLayout ==
    [][~marker /\ marker' => present = Objects /\ EnforcesUpToCase /\ ~rows]_layoutVars

\* An initialization runs only where there is no marker and no row; only the
\* progress table refers to another.
StageInv ==
    /\ stage = "creating" => ~marker /\ ~rows
    /\ \A k \in keys : k.kind = "foreign" => k.table = "progress"

\* The tool's own wording of a condition, as the dictionary may return it.
OwnWording(c) ==
    \/ c.wording = "issued"
    \/ c.wording = "respelled" /\ adapter # "postgres"
    \/ c.wording = "dumped" /\ adapter = "postgres" /\ c.rule \in InLists

\* Without a change by hand the objects are a prefix of CreationOrder, each as
\* created, and rows come after the marker, which comes last.
HealthyLayout ==
    /\ \A i \in 2 .. 4 : CreationOrder[i] \in present => CreationOrder[i - 1] \in present
    /\ \A t \in Tables : columns[t]
    /\ keys = UNION {ExpectedKeys(t) : t \in Tables \intersect present}
    /\ \A c \in checks : c.rule \in ExpectedChecks(c.table) /\ c.enforced /\ OwnWording(c)
    /\ \A t \in Tables \intersect present : \A r \in ExpectedChecks(t) :
          \E c \in checks : c.table = t /\ c.rule = r
    /\ extras = {}
    /\ index \in {[IssuedIndex EXCEPT !.form = f] : f \in {"issued", "rewritten"}}
    /\ marker => present = Objects
    /\ rows => marker

\* The definition checks accept what the tool made and what enforces and admits
\* the engine's rows, and nothing else but an index whose literal is in another
\* case, on PostgreSQL and Oracle (_definition_problems, compact_definition,
\* classify).  The first line is what every step of the tool and of the hands keeps.
LayoutSafety ==
    /\ LayoutTypeOK /\ StageInv /\ (harmed \/ HealthyLayout)
    /\ AcceptedLayoutEnforces /\ AcceptedLayoutAdmitsEngine /\ HealthyIsAccepted

=============================================================================
