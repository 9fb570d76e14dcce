--------------------------- MODULE MCBatchContext ---------------------------
(* BatchContext on all three adapters, with a bounded number of calls. *)
EXTENDS BatchContext
=============================================================================
