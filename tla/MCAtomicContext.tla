-------------------------- MODULE MCAtomicContext ---------------------------
(***************************************************************************)
(* Instance of AtomicContext for TLC: all three engines.                   *)
(***************************************************************************)
EXTENDS AtomicContext
=============================================================================
