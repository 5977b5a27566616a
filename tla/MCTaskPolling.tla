--------------------------- MODULE MCTaskPolling ---------------------------
(* Small instances of TaskPolling. *)
EXTENDS TaskPolling, TLC

CONSTANTS p1, p2

MCSymmetry == Permutations(Pollers)
=============================================================================
