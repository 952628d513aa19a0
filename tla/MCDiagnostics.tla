--------------------------- MODULE MCDiagnostics ---------------------------
(***************************************************************************)
(* Two documents, two writers.                                             *)
(***************************************************************************)
EXTENDS DiagnosticProperties
=============================================================================
