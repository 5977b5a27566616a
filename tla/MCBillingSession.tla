------------------------- MODULE MCBillingSession -------------------------
(* Small instances of BillingSession. *)
EXTENDS BillingSession, TLC

CONSTANTS r1, r2, r3

K(pref, pre, playground, unlimited, force) ==
    [pref |-> pref, pre |-> pre, playground |-> playground,
     unlimited |-> unlimited, force |-> force, free |-> FALSE, allows |-> Subs]

\* Every preference: a free estimate (a subscription still takes 1), ordinary ones,
\* one too large for the token of a limited caller, the playground, a task, a free model.
MCKindsAll ==
    {K("wallet_first", 2, FALSE, FALSE, FALSE),
     K("subscription_first", 2, FALSE, FALSE, FALSE),
     K("subscription_only", 0, FALSE, TRUE, FALSE),
     K("wallet_only", 2, TRUE, FALSE, TRUE),
     K("wallet_only", 0, FALSE, FALSE, FALSE),
     K("subscription_first", 3, FALSE, TRUE, FALSE),
     [K("subscription_only", 1, TRUE, FALSE, FALSE) EXCEPT !.allows = {2}],
     [K("subscription_first", 0, FALSE, FALSE, FALSE) EXCEPT !.free = TRUE]}

MCKindsFaults ==
    {K("wallet_only", 2, FALSE, FALSE, FALSE),
     K("subscription_first", 2, FALSE, FALSE, FALSE)}

MCKindsSub == {K("subscription_only", 2, FALSE, TRUE, FALSE)}

MCSymmetry == Permutations(Requests)

MCTotal == [s \in Subs |-> 3]
MCTotal4 == [s \in Subs |-> 4]
=============================================================================
