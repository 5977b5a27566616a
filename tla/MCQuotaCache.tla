---------------------------- MODULE MCQuotaCache ----------------------------
(* Small instances of QuotaCache. *)
EXTENDS QuotaCache, TLC

CONSTANTS c1, c2, r1

MCAmount == (c1 :> -2) @@ (c2 :> 3)
=============================================================================
