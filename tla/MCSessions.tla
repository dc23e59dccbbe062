------------------------------ MODULE MCSessions ------------------------------
(***************************************************************************)
(* Sessions for TLC, in one run with fairness.                             *)
(***************************************************************************)
EXTENDS Sessions
=============================================================================
