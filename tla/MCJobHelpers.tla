--------------------------- MODULE MCJobHelpers ---------------------------
(* JobHelpers for TLC: two checks, two retries, two crashes. *)
EXTENDS JobHelpers
=============================================================================
