----------------------------- MODULE MCMetadata -----------------------------
(***************************************************************************)
(* The metadata for TLC: the history rows under a changing manifest, and   *)
(* the definitions of the tables they are kept in.  A behaviour exercises  *)
(* one of the two, chosen at the start; the other stays in its initial     *)
(* state.  The contents of units differ from each other in source,         *)
(* language, mode and soundness.                                           *)
(***************************************************************************)
EXTENDS Metadata, TLC

CONSTANTS A, B

VARIABLE part       \* what moves, "rows" or "layout"

Unit1 == [language |-> "sql", mode |-> "atomic", src |-> 1, sound |-> TRUE]
Unit2 == [language |-> "python", mode |-> "restartable", src |-> 1, sound |-> TRUE]
Unit3 == [language |-> "sql", mode |-> "restartable", src |-> 2, sound |-> TRUE]
Unit4 == [language |-> "python", mode |-> "atomic", src |-> 3, sound |-> FALSE]

\* Ids are only compared with each other.
IdSymmetry == Permutations(Ids)

AllContents == {Unit1, Unit2, Unit3, Unit4}

PartInit ==
    /\ part \in {"rows", "layout"}
    /\ Init /\ LayoutInit
    /\ part # "layout" => adapter = CHOOSE a \in Adapters : TRUE

RowsStep == part = "rows" /\ Next /\ UNCHANGED <<part, layoutVars>>
LayoutStep == part = "layout" /\ LayoutNext /\ UNCHANGED <<part, vars>>

PartNext == RowsStep \/ LayoutStep

PartSpec == PartInit /\ [][PartNext]_<<part, vars, layoutVars>>
=============================================================================
