------------------------ MODULE MCOfficialPayment ------------------------
(* Small instances of OfficialPayment. *)
EXTENDS OfficialPayment, TLC

CONSTANTS f1, f2
=============================================================================
