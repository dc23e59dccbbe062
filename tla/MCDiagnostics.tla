----------------------------- MODULE MCDiagnostics -----------------------------
(* Diagnostics for TLC. *)
EXTENDS Diagnostics
=============================================================================
