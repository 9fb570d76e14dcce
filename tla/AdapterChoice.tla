--------------------------- MODULE AdapterChoice ---------------------------
(***************************************************************************)
(* The engine a behaviour is about.  The modules of an adapter's parts     *)
(* share it, so that they can be composed over one engine.                 *)
(***************************************************************************)
CONSTANT Adapters   \* subset of {"sqlite", "postgres", "oracle"} to explore

ASSUME AdaptersAssumption == Adapters \subseteq {"sqlite", "postgres", "oracle"}

VARIABLE adapter    \* the engine the run is configured for

=============================================================================
