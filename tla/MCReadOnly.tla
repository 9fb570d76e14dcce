----------------------------- MODULE MCReadOnly -----------------------------
(* ReadOnly beside one runner that initializes, migrates, fails and reruns. *)
EXTENDS ReadOnly
=============================================================================
