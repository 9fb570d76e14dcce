------------------------ MODULE MCStatementAdmission ------------------------
(* StatementAdmission on all three adapters. *)
EXTENDS StatementAdmission
=============================================================================
