------------------------------ MODULE Metadata ------------------------------
(***************************************************************************)
(* The metadata of a namespace: the rows that runs leave behind under a    *)
(* changing manifest, and the layout of the tables they are kept in.       *)
(***************************************************************************)
EXTENDS ManifestEvolution, LayoutCheck

\* What no step does: amend a source nobody named, build on a damaged history, or
\* vouch with the marker for a layout that does not enforce its rules, the case of
\* the index's literal on PostgreSQL and Oracle excepted
\* (check_recovery_admission, validate_snapshot_shape, initialize).
MetadataSteps == AmendedOnlyByName /\ DamageStopsRuns /\ MarkerVouchesForLayout
=============================================================================
