--------------------------- MODULE MCLayoutCheck ----------------------------
(* LayoutCheck on all three adapters, with a bounded number of changes. *)
EXTENDS LayoutCheck
=============================================================================
