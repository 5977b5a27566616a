---------------------------- MODULE MCModelTest ----------------------------
(* Small instances of ModelTest. *)
EXTENDS ModelTest

CONSTANTS c1, c2
=============================================================================
