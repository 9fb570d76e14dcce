---------------------------- MODULE MCRunOutcome ----------------------------
(* RunOutcome on all three adapters, with a bounded number of signals. *)
EXTENDS RunOutcome
=============================================================================
