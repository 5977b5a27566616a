-------------------------- MODULE MCPlaygroundChat --------------------------
(* Small instances of PlaygroundChat. *)
EXTENDS PlaygroundChat

\* The first request with the page's own body, the second one with a custom body.
MCCustomModes == <<{FALSE}, {TRUE}>>

Count(event) == IF event THEN 1 ELSE 0

\* Loads, operations, delayed sends that wait, a refused write and a silent end, together.
MCBudget == loads + ops + Len(resend) + Count(dropped) + Count(silent) <= 2
=============================================================================
