--------------------------- MODULE MCRunScripts ---------------------------
(* Instances of RunScripts for TLC. *)
EXTENDS RunScripts

AllCalculators == DOMAIN Steps
=============================================================================
