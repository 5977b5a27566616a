------------------------ MODULE BillingSessionProofs ------------------------
(***************************************************************************)
(* The books of BillingSession, for any number of requests, any balances   *)
(* and any quotas: IInv is inductive, and the type invariant, SettledBooks, *)
(* ReturnedBooks and NeverPaysOut follow from it.  UsageInv, inductive     *)
(* relative to IInv, adds what the subscriptions record; UsageExplained    *)
(* and AdmissionIsStrict rest on the kinds of step distinguished there.    *)
(*                                                                         *)
(* The effect lemmas say what one database operation does to its request;  *)
(* then every action has a lemma of its own, whose steps are: the other    *)
(* requests are untouched, the effect of each case, TypeOK' and the books  *)
(* of the acting request.                                                  *)
(***************************************************************************)
EXTENDS BillingSession, SumLemmas, TLAPS

IInv == TypeOK /\ LedgerInv

Books(q) == Control(q) /\ Ledger(q)

\* Nothing LedgerInv says of q changes.
Untouched(q) ==
    /\ kind'[q] = kind[q] /\ pc'[q] = pc[q] /\ arg'[q] = arg[q]
    /\ sess'[q] = sess[q] /\ rpc'[q] = rpc[q] /\ tries'[q] = tries[q]
    /\ reserves'[q] = reserves[q] /\ record'[q] = record[q]
    /\ paid'[q] = paid[q] /\ tokPaid'[q] = tokPaid[q] /\ fee'[q] = fee[q]
    /\ (q \in faulted') = (q \in faulted)
    /\ (q \in overLimit') = (q \in overLimit)

Fields == {"funding", "sub", "preConsumedQuota", "tokenConsumed", "extraReserved",
           "consumed", "trusted", "fundingSettled", "settled", "refunded"}

\* The session of r keeps every field outside F.
Keeps(r, F) == \A f \in Fields \ F : sess'[r][f] = sess[r][f]

\* A rolled back Reserve knows whether the wallet took its refund.
ReserveAcked == MaxReserves = 0 \/ "lost" \notin FaultKinds

USE DEF dbVars, histVars, reqVars
-----------------------------------------------------------------------------
(***************************************************************************)
(* Types and effects.                                                      *)
(***************************************************************************)
\* A database operation succeeds or, for an unreliable request, fails.
LEMMA Outcome ==
  ASSUME NEW r \in Requests, NEW o \in Outcomes(r)
  PROVE  /\ o \in {"ok", "err", "lost"} /\ (o # "ok" => r \in Unreliable)
         /\ (o = "lost" => "lost" \in FaultKinds)
  BY FaultAssumption DEF Outcomes

\* The type of everything one request holds.
LEMMA TypesAt ==
  ASSUME TypeOK, NEW r \in Requests
  PROVE  /\ arg[r] \in Nat /\ paid[r] \in Int /\ tokPaid[r] \in Int /\ tries[r] \in Nat
         /\ reserves[r] \in Nat
         /\ sess[r].consumed \in Nat /\ sess[r].preConsumedQuota \in Nat
         /\ sess[r].tokenConsumed \in Nat /\ sess[r].extraReserved \in Nat
         /\ sess[r].funding \in {"none", "wallet", "subscription"}
         /\ sess[r].settled \in BOOLEAN /\ sess[r].refunded \in BOOLEAN
         /\ sess[r].fundingSettled \in BOOLEAN /\ sess[r].trusted \in BOOLEAN
         /\ sess[r].sub \in Subs \cup {NoSub}
         /\ record[r] \in {"none", "consumed", "refunded"}
         /\ fee[r] \in {"none", "funding", "both"}
         /\ rpc[r] \in {"none", "funding", "extra", "token", "finished"}
         /\ pc[r] \in PCs
         /\ kind[r].pre \in Nat /\ kind[r].pref \in Prefs /\ kind[r].playground \in BOOLEAN
         /\ kind[r].unlimited \in BOOLEAN /\ kind[r].allows \subseteq Subs
         /\ FeeQuota \in Nat /\ ShouldTrust(r) \in BOOLEAN
         /\ sess[r] \in SessionType
<1>1. sess[r] \in SessionType /\ kind[r] \in KindType
  BY KindsAssumption DEF TypeOK
<1>2. /\ arg[r] \in Nat /\ paid[r] \in Int /\ tokPaid[r] \in Int /\ tries[r] \in Nat
      /\ reserves[r] \in Nat /\ record[r] \in {"none", "consumed", "refunded"}
      /\ fee[r] \in {"none", "funding", "both"}
      /\ rpc[r] \in {"none", "funding", "extra", "token", "finished"}
      /\ pc[r] \in PCs
  BY QuotaAssumption DEF TypeOK
<1>3. FeeQuota \in Nat
  BY QuotaAssumption
<1>4. ShouldTrust(r) \in BOOLEAN
  BY DEF ShouldTrust
<1>5. sess[r].sub \in Subs \cup {NoSub} /\ sess[r].funding \in {"none", "wallet", "subscription"}
  BY <1>1 DEF SessionType
<1>6. /\ sess[r].consumed \in Nat /\ sess[r].preConsumedQuota \in Nat
      /\ sess[r].tokenConsumed \in Nat /\ sess[r].extraReserved \in Nat
      /\ sess[r].settled \in BOOLEAN /\ sess[r].refunded \in BOOLEAN
      /\ sess[r].fundingSettled \in BOOLEAN /\ sess[r].trusted \in BOOLEAN
  BY <1>1 DEF SessionType
<1>7. /\ kind[r].pre \in Nat /\ kind[r].pref \in Prefs /\ kind[r].playground \in BOOLEAN
      /\ kind[r].unlimited \in BOOLEAN /\ kind[r].allows \subseteq Subs
  BY <1>1 DEF KindType
<1> QED BY <1>1, <1>2, <1>3, <1>4, <1>5, <1>6, <1>7

\* Setting a flag, clearing the token part or granting a reservation keeps the type.
LEMMA SessionFlags ==
  ASSUME NEW x \in SessionType
  PROVE  /\ [x EXCEPT !.settled = TRUE] \in SessionType
         /\ [x EXCEPT !.refunded = TRUE] \in SessionType
         /\ [x EXCEPT !.fundingSettled = TRUE] \in SessionType
         /\ [x EXCEPT !.tokenConsumed = 0] \in SessionType
<1>1. [x EXCEPT !.settled = TRUE] \in SessionType
  BY Zenon DEF SessionType
<1>2. [x EXCEPT !.refunded = TRUE] \in SessionType
  BY Zenon DEF SessionType
<1>3. [x EXCEPT !.fundingSettled = TRUE] \in SessionType
  BY Zenon DEF SessionType
<1>4. [x EXCEPT !.tokenConsumed = 0] \in SessionType
  BY DEF SessionType
<1>5. QED
  BY <1>1, <1>2, <1>3, <1>4

LEMMA SessionGranted ==
  ASSUME NEW x \in SessionType, NEW a \in Nat, NEW c \in Nat, NEW s \in Subs \cup {NoSub}
  PROVE  [x EXCEPT !.preConsumedQuota = a, !.consumed = c, !.sub = s] \in SessionType
<1>1. [x EXCEPT !.preConsumedQuota = a] \in SessionType
  BY DEF SessionType
<1>2. QED
  BY <1>1 DEF SessionType

\* A handler moves to its next step.
LEMMA GotoEffect ==
  ASSUME TypeOK, NEW r \in Requests, NEW l \in PCs, Goto(r, l)
  PROVE  pc' \in [Requests -> PCs] /\ pc'[r] = l
  BY DEF TypeOK, Goto

\* A request meets a fault, or not.
LEMMA NoteEffect ==
  ASSUME TypeOK, NEW r \in Requests, NEW o \in Outcomes(r), Note(r, o)
  PROVE  /\ faulted' \subseteq Unreliable
         /\ o = "ok" => faulted' = faulted
         /\ o # "ok" => r \in faulted'
  BY Outcome DEF TypeOK, Note

\* The wallet's balance and the request's account move together.
LEMMA WalletEffect ==
  ASSUME TypeOK, NEW r \in Requests, NEW n \in Int, NEW o, AdjustUserQuota(r, n, o)
  PROVE  /\ wallet' \in Int /\ paid' \in [Requests -> Int] /\ paid'[r] \in Int
         /\ o = "err" => paid'[r] = paid[r]
         /\ o # "err" => paid'[r] = paid[r] + n
  BY DEF TypeOK, AdjustUserQuota

\* So do the token's balance and the request's account.
LEMMA TokenEffect ==
  ASSUME TypeOK, NEW r \in Requests, NEW n \in Int, NEW o, AdjustTokenQuota(r, n, o)
  PROVE  /\ token' \in Int /\ tokPaid' \in [Requests -> Int] /\ tokPaid'[r] \in Int
         /\ o = "err" => tokPaid'[r] = tokPaid[r]
         /\ o # "err" => tokPaid'[r] = tokPaid[r] + n
  BY DEF TypeOK, AdjustTokenQuota

\* And the subscription's usage, which never becomes negative.
LEMMA SubscriptionEffect ==
  ASSUME TypeOK, NEW r \in Requests, NEW s \in Subs, NEW n \in Int, NEW o,
         AdjustSubscription(r, s, n, o)
  PROVE  /\ used' \in [Subs -> Nat] /\ paid' \in [Requests -> Int] /\ paid'[r] \in Int
         /\ o = "err" => paid'[r] = paid[r]
         /\ o # "err" => paid'[r] = paid[r] + n
<1>1. used[s] \in Nat
  BY DEF TypeOK
<1>2. NewUsed(s, n) \in Nat
  BY <1>1 DEF NewUsed
<1> QED BY <1>2 DEF TypeOK, AdjustSubscription

\* Charging a subscription.
LEMMA ChargeEffect ==
  ASSUME TypeOK, NEW r \in Requests, NEW s \in Subs, ChargeSubscription(r, s)
  PROVE  /\ used' \in [Subs -> Nat] /\ due' \in [Subs -> BOOLEAN]
         /\ paid' \in [Requests -> Int] /\ paid'[r] \in Int /\ paid'[r] = paid[r] + arg[r]
         /\ record' \in [Requests -> {"none", "consumed", "refunded"}]
         /\ record'[r] = "consumed"
<1>1. /\ used' \in [Subs -> Nat] /\ due' \in [Subs -> BOOLEAN]
  BY TypesAt DEF TypeOK, ChargeSubscription, UsedAfterReset
<1>2. /\ paid' \in [Requests -> Int] /\ paid'[r] \in Int /\ paid'[r] = paid[r] + arg[r]
      /\ record' \in [Requests -> {"none", "consumed", "refunded"}]
      /\ record'[r] = "consumed"
  BY TypesAt DEF TypeOK, ChargeSubscription
<1> QED BY <1>1, <1>2

\* One attempt of refundWithRetry.
LEMMA RetryEffect ==
  ASSUME TypeOK, NEW r \in Requests, NEW ok \in BOOLEAN, RetryOrGiveUp(r, ok),
         rpc[r] = "funding", tries[r] < RefundAttempts
  PROVE  /\ tries' \in [Requests -> 0..RefundAttempts] /\ tries'[r] \in Nat
         /\ rpc' \in [Requests -> {"none", "funding", "extra", "token", "finished"}]
         /\ rpc'[r] = "extra" \/ (rpc'[r] = "funding" /\ tries'[r] < RefundAttempts)
  BY QuotaAssumption DEF TypeOK, RetryOrGiveUp

\* A session is replaced by another one.
LEMMA SessionEffect ==
  ASSUME TypeOK, NEW r \in Requests, NEW x \in SessionType, sess' = [sess EXCEPT ![r] = x]
  PROVE  sess' \in [Requests -> SessionType] /\ sess'[r] = x
  BY DEF TypeOK

\* Raising a session's reservation gives a session.
LEMMA RaisedType ==
  ASSUME NEW x \in SessionType, NEW n \in Nat
  PROVE  Raised(x, n) \in SessionType
<1>1. /\ x.preConsumedQuota + n \in Nat /\ x.tokenConsumed + n \in Nat
      /\ x.extraReserved + n \in Nat
  BY DEF SessionType
<1> QED BY <1>1 DEF Raised, SessionType

\* What is true of a request stays true as long as nothing happens to it.
LEMMA Frame ==
  ASSUME NEW q \in Requests, Books(q), Untouched(q)
  PROVE  Books(q)'
  BY DEF Books, Untouched, Control, Ledger, Returnable, TokReturnable, Final,
     TokFinal, FeeFund, FeeTok

\* It is enough to look at the request that acts.
LEMMA ByRequest ==
  ASSUME IInv, NEW r \in Requests, Books(r)', TypeOK',
         \A q \in Requests \ {r} : Untouched(q)
  PROVE  IInv'
  BY Frame DEF IInv, LedgerInv, Books
-----------------------------------------------------------------------------
(***************************************************************************)
(* One lemma per action.                                                   *)
(***************************************************************************)
\* Arrival reads the token and changes nothing else.
LEMMA ArriveStep ==
  ASSUME IInv, NEW r \in Requests, Arrive(r)
  PROVE  IInv'
<1>1. /\ TypeOK /\ Books(r)
      /\ pc[r] = "idle"
  BY DEF Arrive, IInv, LedgerInv, Books
<1>2. UNCHANGED <<wallet, token, used, due, active, resets, record, kind, arg,
   sess, rpc, reserves, tries, paid, tokPaid, fee, faulted, overLimit>>
  BY DEF Arrive
<1>3. \A q \in Requests \ {r} : Untouched(q)
  BY <1>1, <1>2 DEF Arrive, TypeOK, Untouched, Goto
<1>4. IInv'
  <2>1. /\ seen' = [seen EXCEPT ![r] = IF kind[r].unlimited THEN 0 ELSE token]
        /\ \E l \in {"trySub", "tryWallet", "checkSub"} : Goto(r, l)
    BY <1>1, <1>2, TypesAt DEF Arrive, Prefs
  <2>2. /\ pc' \in [Requests -> PCs] /\ pc'[r] \in {"trySub", "tryWallet", "checkSub"}
        /\ seen' \in [Requests -> Int]
    BY <1>1, <2>1, TypesAt, GotoEffect DEF PCs, TypeOK
  <2>3. TypeOK'
    BY <1>1, <1>2, <2>1, <2>2 DEF TypeOK
  <2>4. Books(r)'
    BY <1>1, <1>2, <2>1, <2>2, TypesAt DEF Books, Control, Ledger, Returnable,
       TokReturnable, Final, TokFinal, FeeFund, FeeTok, EarlyPCs, HoldingPCs,
       RaisingPCs, FailedPCs, Keeps, Fields
  <2> QED BY <2>3, <2>4, <1>3, ByRequest
<1> QED BY <1>4

\* A request for a free model starts to run and holds nothing.
LEMMA SkipPreConsumeStep ==
  ASSUME IInv, NEW r \in Requests, SkipPreConsume(r)
  PROVE  IInv'
<1>1. TypeOK /\ Books(r) /\ pc[r] = "idle"
  BY DEF SkipPreConsume, IInv, LedgerInv, Books
<1>2. UNCHANGED <<wallet, token, used, due, active, resets, record, kind, arg, seen,
   rpc, reserves, tries, paid, tokPaid, fee, faulted, overLimit>>
  BY DEF SkipPreConsume
<1>3. \A q \in Requests \ {r} : Untouched(q)
  BY <1>1, <1>2 DEF SkipPreConsume, TypeOK, Untouched, Goto
<1>4. sess' = [sess EXCEPT ![r] = NewSession("wallet", TRUE)] /\ Goto(r, "running")
  BY DEF SkipPreConsume
<1>5. pc' \in [Requests -> PCs] /\ pc'[r] = "running"
  BY <1>1, <1>4, TypesAt, GotoEffect DEF PCs
<1>6. NewSession("wallet", TRUE) \in SessionType
  BY DEF SessionType, NewSession, NoSub
<1>7. sess' \in [Requests -> SessionType] /\ sess'[r] = NewSession("wallet", TRUE)
  BY <1>1, <1>4, <1>6, SessionEffect
<1>8. /\ sess'[r].funding = "wallet" /\ sess'[r].consumed = 0
      /\ sess'[r].preConsumedQuota = 0 /\ sess'[r].extraReserved = 0
      /\ sess'[r].tokenConsumed = 0
      /\ ~sess'[r].settled /\ ~sess'[r].refunded /\ ~sess'[r].fundingSettled
  BY <1>7 DEF NewSession
<1>9. TypeOK'
  BY <1>1, <1>2, <1>5, <1>7 DEF TypeOK
<1>10. Books(r)'
  BY <1>1, <1>2, <1>5, <1>8, TypesAt DEF Books, Control, Ledger,
     Returnable, TokReturnable, Final, TokFinal, FeeFund, FeeTok, EarlyPCs,
     HoldingPCs, RaisingPCs, FailedPCs
<1> QED BY <1>3, <1>9, <1>10, ByRequest

\* A failing query rejects a request that holds nothing.
LEMMA QueryFailsStep ==
  ASSUME IInv, NEW r \in Requests, QueryFails(r)
  PROVE  IInv'
<1>1. /\ TypeOK /\ Books(r)
      /\ pc[r] \in {"checkSub", "tryWallet", "overflow", "tokenCheck"}
  BY DEF QueryFails, IInv, LedgerInv, Books
<1>2. UNCHANGED <<wallet, token, used, due, active, resets, record, kind, arg,
   seen, sess, rpc, reserves, tries, paid, tokPaid, fee, faulted, overLimit>>
  BY DEF QueryFails
<1>3. \A q \in Requests \ {r} : Untouched(q)
  BY <1>1, <1>2 DEF QueryFails, TypeOK, Untouched, Goto
<1>4. IInv'
  <2>1. Goto(r, "rejected")
    BY <1>1, <1>2, TypesAt DEF QueryFails
  <2>2. pc' \in [Requests -> PCs] /\ pc'[r] = "rejected"
    BY <1>1, <2>1, TypesAt, GotoEffect DEF PCs
  <2>3. TypeOK'
    BY <1>1, <1>2, <2>1, <2>2 DEF TypeOK
  <2>4. Books(r)'
    BY <1>1, <1>2, <2>1, <2>2, TypesAt DEF Books, Control, Ledger, Returnable,
       TokReturnable, Final, TokFinal, FeeFund, FeeTok, EarlyPCs, HoldingPCs,
       RaisingPCs, FailedPCs, Keeps, Fields
  <2> QED BY <2>3, <2>4, <1>3, ByRequest
<1> QED BY <1>4

\* Looking for an active subscription changes no balance.
LEMMA CheckSubscriptionStep ==
  ASSUME IInv, NEW r \in Requests, CheckSubscription(r)
  PROVE  IInv'
<1>1. /\ TypeOK /\ Books(r)
      /\ pc[r] = "checkSub"
  BY DEF CheckSubscription, IInv, LedgerInv, Books
<1>2. UNCHANGED <<wallet, token, used, due, active, resets, record, kind, arg,
   seen, sess, rpc, reserves, tries, paid, tokPaid, fee, faulted, overLimit>>
  BY DEF CheckSubscription
<1>3. \A q \in Requests \ {r} : Untouched(q)
  BY <1>1, <1>2 DEF CheckSubscription, TypeOK, Untouched, Goto
<1>4. IInv'
  <2>1. \E l \in {"trySub", "tryWallet"} : Goto(r, l)
    BY <1>1, <1>2, TypesAt DEF CheckSubscription
  <2>2. pc' \in [Requests -> PCs] /\ pc'[r] \in {"trySub", "tryWallet"}
    BY <1>1, <2>1, TypesAt, GotoEffect DEF PCs
  <2>3. TypeOK'
    BY <1>1, <1>2, <2>1, <2>2 DEF TypeOK
  <2>4. Books(r)'
    BY <1>1, <1>2, <2>1, <2>2, TypesAt DEF Books, Control, Ledger, Returnable,
       TokReturnable, Final, TokFinal, FeeFund, FeeTok, EarlyPCs, HoldingPCs,
       RaisingPCs, FailedPCs, Keeps, Fields
  <2> QED BY <2>3, <2>4, <1>3, ByRequest
<1> QED BY <1>4

\* Neither does looking at the overflow flags.
LEMMA CheckOverflowStep ==
  ASSUME IInv, NEW r \in Requests, CheckOverflow(r)
  PROVE  IInv'
<1>1. /\ TypeOK /\ Books(r)
      /\ pc[r] = "overflow"
  BY DEF CheckOverflow, IInv, LedgerInv, Books
<1>2. UNCHANGED <<wallet, token, used, due, active, resets, record, kind, arg,
   seen, sess, rpc, reserves, tries, paid, tokPaid, fee, faulted, overLimit>>
  BY DEF CheckOverflow
<1>3. \A q \in Requests \ {r} : Untouched(q)
  BY <1>1, <1>2 DEF CheckOverflow, TypeOK, Untouched, Goto
<1>4. IInv'
  <2>1. \E l \in {"rejected", "tryWallet"} : Goto(r, l)
    BY <1>1, <1>2, TypesAt DEF CheckOverflow
  <2>2. pc' \in [Requests -> PCs] /\ pc'[r] \in {"rejected", "tryWallet"}
    BY <1>1, <2>1, TypesAt, GotoEffect DEF PCs
  <2>3. TypeOK'
    BY <1>1, <1>2, <2>1, <2>2 DEF TypeOK
  <2>4. Books(r)'
    BY <1>1, <1>2, <2>1, <2>2, TypesAt DEF Books, Control, Ledger, Returnable,
       TokReturnable, Final, TokFinal, FeeFund, FeeTok, EarlyPCs, HoldingPCs,
       RaisingPCs, FailedPCs, Keeps, Fields
  <2> QED BY <2>3, <2>4, <1>3, ByRequest
<1> QED BY <1>4

\* The wallet's session starts empty.
LEMMA TryWalletStep ==
  ASSUME IInv, NEW r \in Requests, TryWallet(r)
  PROVE  IInv'
<1>1. /\ TypeOK /\ Books(r)
      /\ pc[r] = "tryWallet"
  BY DEF TryWallet, IInv, LedgerInv, Books
<1>2. UNCHANGED <<wallet, token, used, due, active, resets, record, kind, seen,
   rpc, reserves, tries, paid, tokPaid, fee, faulted, overLimit>>
  BY DEF TryWallet
<1>3. \A q \in Requests \ {r} : Untouched(q)
  BY <1>1, <1>2 DEF TryWallet, TypeOK, Untouched, Goto
<1>4. CASE wallet > 0 /\ wallet - kind[r].pre >= 0
  <2>1. /\ sess' = [sess EXCEPT ![r] = NewSession("wallet", ShouldTrust(r))]
        /\ \E n \in {0, kind[r].pre} : arg' = [arg EXCEPT ![r] = n] /\ Goto(r, IF n > 0 THEN "tokenCheck" ELSE "fund")
    BY <1>1, <1>2, <1>4, TypesAt DEF TryWallet
  <2>2. /\ pc' \in [Requests -> PCs] /\ pc'[r] \in {"tokenCheck", "fund"}
        /\ arg' \in [Requests -> Nat] /\ arg'[r] \in Nat
        /\ pc'[r] = "fund" => arg'[r] = 0
    BY <1>1, <1>4, <2>1, TypesAt, GotoEffect DEF PCs, TypeOK
  <2>3. NewSession("wallet", ShouldTrust(r)) \in SessionType
    BY <1>1, <1>4, TypesAt DEF SessionType, NewSession, NoSub
  <2>4. sess' \in [Requests -> SessionType] /\ sess'[r] = NewSession("wallet", ShouldTrust(r))
    BY <1>1, <2>1, <2>3, SessionEffect
  <2>5. /\ sess'[r].funding = "wallet" /\ sess'[r].consumed = 0
        /\ sess'[r].preConsumedQuota = 0 /\ sess'[r].extraReserved = 0
        /\ sess'[r].tokenConsumed = 0
        /\ ~sess'[r].settled /\ ~sess'[r].refunded /\ ~sess'[r].fundingSettled
    BY <1>1, <2>4, TypesAt DEF SessionType, Keeps, Fields, NewSession, NoSub
  <2>6. TypeOK'
    BY <1>1, <1>2, <2>1, <2>2, <2>4 DEF TypeOK
  <2>7. Books(r)'
    BY <1>1, <1>2, <2>1, <2>2, <2>5, <1>4, TypesAt DEF Books, Control, Ledger,
       Returnable, TokReturnable, Final, TokFinal, FeeFund, FeeTok, EarlyPCs,
       HoldingPCs, RaisingPCs, FailedPCs, Keeps, Fields
  <2> QED BY <2>6, <2>7, <1>3, ByRequest
<1>5. CASE ~(wallet > 0 /\ wallet - kind[r].pre >= 0)
  <2>1. /\ \E l \in {"trySub", "rejected"} : Goto(r, l)
        /\ UNCHANGED <<sess, arg>>
    BY <1>1, <1>2, <1>5, TypesAt DEF TryWallet
  <2>2. pc' \in [Requests -> PCs] /\ pc'[r] \in {"trySub", "rejected"}
    BY <1>1, <1>5, <2>1, TypesAt, GotoEffect DEF PCs
  <2>3. TypeOK'
    BY <1>1, <1>2, <2>1, <2>2 DEF TypeOK
  <2>4. Books(r)'
    BY <1>1, <1>2, <2>1, <2>2, <1>5, TypesAt DEF Books, Control, Ledger,
       Returnable, TokReturnable, Final, TokFinal, FeeFund, FeeTok, EarlyPCs,
       HoldingPCs, RaisingPCs, FailedPCs, Keeps, Fields
  <2> QED BY <2>3, <2>4, <1>3, ByRequest
<1> QED BY <1>4, <1>5

\* The subscription's session starts empty.
LEMMA TrySubscriptionStep ==
  ASSUME IInv, NEW r \in Requests, TrySubscription(r)
  PROVE  IInv'
<1>1. /\ TypeOK /\ Books(r)
      /\ pc[r] = "trySub"
  BY DEF TrySubscription, IInv, LedgerInv, Books
<1>2. UNCHANGED <<wallet, token, used, due, active, resets, record, kind, seen,
   rpc, reserves, tries, paid, tokPaid, fee, faulted, overLimit>>
  BY DEF TrySubscription
<1>3. \A q \in Requests \ {r} : Untouched(q)
  BY <1>1, <1>2 DEF TrySubscription, TypeOK, Untouched, Goto
<1>4. IInv'
  <2>1. /\ sess' = [sess EXCEPT ![r] = NewSession("subscription", FALSE)]
        /\ arg' = [arg EXCEPT ![r] = IF kind[r].pre <= 0 THEN 1 ELSE kind[r].pre]
        /\ Goto(r, "tokenCheck")
    BY <1>1, <1>2, TypesAt DEF TrySubscription
  <2>2. /\ pc' \in [Requests -> PCs] /\ pc'[r] = "tokenCheck"
        /\ arg' \in [Requests -> Nat] /\ arg'[r] \in Nat
    BY <1>1, <2>1, TypesAt, GotoEffect DEF PCs, TypeOK
  <2>3. NewSession("subscription", FALSE) \in SessionType
    BY <1>1, TypesAt DEF SessionType, NewSession, NoSub
  <2>4. sess' \in [Requests -> SessionType] /\ sess'[r] = NewSession("subscription", FALSE)
    BY <1>1, <2>1, <2>3, SessionEffect
  <2>5. /\ sess'[r].funding = "subscription" /\ sess'[r].consumed = 0
        /\ sess'[r].preConsumedQuota = 0 /\ sess'[r].extraReserved = 0
        /\ sess'[r].tokenConsumed = 0
        /\ ~sess'[r].settled /\ ~sess'[r].refunded /\ ~sess'[r].fundingSettled
    BY <1>1, <2>4, TypesAt DEF SessionType, Keeps, Fields, NewSession, NoSub
  <2>6. TypeOK'
    BY <1>1, <1>2, <2>1, <2>2, <2>4 DEF TypeOK
  <2>7. Books(r)'
    BY <1>1, <1>2, <2>1, <2>2, <2>5, TypesAt DEF Books, Control, Ledger,
       Returnable, TokReturnable, Final, TokFinal, FeeFund, FeeTok, EarlyPCs,
       HoldingPCs, RaisingPCs, FailedPCs, Keeps, Fields
  <2> QED BY <2>6, <2>7, <1>3, ByRequest
<1> QED BY <1>4

\* The playground skips the token; others must pass the check.
LEMMA CheckTokenStep ==
  ASSUME IInv, NEW r \in Requests, CheckToken(r)
  PROVE  IInv'
<1>1. /\ TypeOK /\ Books(r)
      /\ pc[r] = "tokenCheck"
  BY DEF CheckToken, IInv, LedgerInv, Books
<1>2. UNCHANGED <<wallet, token, used, due, active, resets, record, kind, arg,
   seen, rpc, reserves, tries, paid, tokPaid, fee, faulted, overLimit>>
  BY DEF CheckToken
<1>3. \A q \in Requests \ {r} : Untouched(q)
  BY <1>1, <1>2 DEF CheckToken, TypeOK, Untouched, Goto
<1>4. CASE kind[r].playground
  <2>1. /\ sess' = [sess EXCEPT ![r] = [sess[r] EXCEPT !.tokenConsumed = arg[r]]]
        /\ Goto(r, "fund")
    BY <1>1, <1>2, <1>4, TypesAt DEF CheckToken
  <2>2. pc' \in [Requests -> PCs] /\ pc'[r] = "fund"
    BY <1>1, <1>4, <2>1, TypesAt, GotoEffect DEF PCs
  <2>3. [sess[r] EXCEPT !.tokenConsumed = arg[r]] \in SessionType
    BY <1>1, <1>4, TypesAt DEF SessionType
  <2>4. sess' \in [Requests -> SessionType] /\ sess'[r] = [sess[r] EXCEPT !.tokenConsumed = arg[r]]
    BY <1>1, <2>1, <2>3, SessionEffect
  <2>5. /\ sess'[r].tokenConsumed = arg[r]
        /\ Keeps(r, {"tokenConsumed"})
    BY <1>1, <2>4, TypesAt DEF SessionType, Keeps, Fields
  <2>6. TypeOK'
    BY <1>1, <1>2, <2>1, <2>2, <2>4 DEF TypeOK
  <2>7. Books(r)'
    BY <1>1, <1>2, <2>1, <2>2, <2>5, <1>4, TypesAt DEF Books, Control, Ledger,
       Returnable, TokReturnable, Final, TokFinal, FeeFund, FeeTok, EarlyPCs,
       HoldingPCs, RaisingPCs, FailedPCs, Keeps, Fields
  <2> QED BY <2>6, <2>7, <1>3, ByRequest
<1>5. CASE ~kind[r].playground
  <2>1. /\ \E l \in {"tokenDec", "rejected"} : Goto(r, l)
        /\ UNCHANGED sess
    BY <1>1, <1>2, <1>5, TypesAt DEF CheckToken
  <2>2. pc' \in [Requests -> PCs] /\ pc'[r] \in {"tokenDec", "rejected"}
    BY <1>1, <1>5, <2>1, TypesAt, GotoEffect DEF PCs
  <2>3. TypeOK'
    BY <1>1, <1>2, <2>1, <2>2 DEF TypeOK
  <2>4. Books(r)'
    BY <1>1, <1>2, <2>1, <2>2, <1>5, TypesAt DEF Books, Control, Ledger,
       Returnable, TokReturnable, Final, TokFinal, FeeFund, FeeTok, EarlyPCs,
       HoldingPCs, RaisingPCs, FailedPCs, Keeps, Fields
  <2> QED BY <2>3, <2>4, <1>3, ByRequest
<1> QED BY <1>4, <1>5

\* The token pays its part; a failure rejects the request.
LEMMA PreConsumeTokenStep ==
  ASSUME IInv, NEW r \in Requests, PreConsumeToken(r)
  PROVE  IInv'
<1>1. /\ TypeOK /\ Books(r)
      /\ pc[r] = "tokenDec"
  BY DEF PreConsumeToken, IInv, LedgerInv, Books
<1>2. UNCHANGED <<wallet, used, due, active, resets, record, kind, arg, seen,
   rpc, reserves, tries, paid, fee, overLimit>>
  BY DEF PreConsumeToken
<1>3. PICK o \in Outcomes(r) : PreConsumeToken(r)!2!(o)
  BY DEF PreConsumeToken
<1>4. /\ o \in {"ok", "err", "lost"} /\ (o # "ok" => r \in Unreliable)
      /\ (o = "lost" => "lost" \in FaultKinds)
  BY Outcome
<1>5. \A q \in Requests \ {r} : Untouched(q)
  BY <1>1, <1>2, <1>3, <1>4 DEF PreConsumeToken, AdjustTokenQuota, Note, TypeOK,
     Untouched, Goto
<1>6. CASE o = "ok"
  <2>1. /\ AdjustTokenQuota(r, arg[r], o) /\ Note(r, o)
        /\ sess' = [sess EXCEPT ![r] = [sess[r] EXCEPT !.tokenConsumed = arg[r]]]
        /\ Goto(r, "fund")
    BY <1>1, <1>2, <1>3, <1>4, <1>6, TypesAt DEF PreConsumeToken,
       AdjustTokenQuota, Note
  <2>2. /\ pc' \in [Requests -> PCs] /\ pc'[r] = "fund"
        /\ faulted' = faulted
        /\ token' \in Int /\ tokPaid' \in [Requests -> Int] /\ tokPaid'[r] \in Int
        /\ o = "err" => tokPaid'[r] = tokPaid[r]
        /\ o # "err" => tokPaid'[r] = tokPaid[r] + arg[r]
    BY <1>1, <1>4, <1>6, <2>1, TypesAt, GotoEffect, NoteEffect, TokenEffect DEF
       PCs
  <2>3. [sess[r] EXCEPT !.tokenConsumed = arg[r]] \in SessionType
    BY <1>1, <1>6, TypesAt DEF SessionType
  <2>4. sess' \in [Requests -> SessionType] /\ sess'[r] = [sess[r] EXCEPT !.tokenConsumed = arg[r]]
    BY <1>1, <2>1, <2>3, SessionEffect
  <2>5. /\ sess'[r].tokenConsumed = arg[r]
        /\ Keeps(r, {"tokenConsumed"})
    BY <1>1, <2>4, TypesAt DEF SessionType, Keeps, Fields
  <2>6. TypeOK'
    BY <1>1, <1>2, <2>1, <2>2, <2>4 DEF TypeOK
  <2>7. Books(r)'
    BY <1>1, <1>2, <1>4, <2>1, <2>2, <2>5, <1>6, TypesAt DEF Books, Control,
       Ledger, Returnable, TokReturnable, Final, TokFinal, FeeFund, FeeTok,
       EarlyPCs, HoldingPCs, RaisingPCs, FailedPCs, Keeps, Fields
  <2> QED BY <2>6, <2>7, <1>5, ByRequest
<1>7. CASE o # "ok"
  <2>1. /\ AdjustTokenQuota(r, arg[r], o) /\ Note(r, o)
        /\ UNCHANGED sess
        /\ Goto(r, "rejected")
    BY <1>1, <1>2, <1>3, <1>4, <1>7, TypesAt DEF PreConsumeToken,
       AdjustTokenQuota, Note
  <2>2. /\ pc' \in [Requests -> PCs] /\ pc'[r] = "rejected"
        /\ faulted' \subseteq Unreliable /\ r \in faulted'
        /\ token' \in Int /\ tokPaid' \in [Requests -> Int] /\ tokPaid'[r] \in Int
        /\ o = "err" => tokPaid'[r] = tokPaid[r]
        /\ o # "err" => tokPaid'[r] = tokPaid[r] + arg[r]
    BY <1>1, <1>4, <1>7, <2>1, TypesAt, GotoEffect, NoteEffect, TokenEffect DEF
       PCs
  <2>3. TypeOK'
    BY <1>1, <1>2, <2>1, <2>2 DEF TypeOK
  <2>4. Books(r)'
    BY <1>1, <1>2, <1>4, <2>1, <2>2, <1>7, TypesAt DEF Books, Control, Ledger,
       Returnable, TokReturnable, Final, TokFinal, FeeFund, FeeTok, EarlyPCs,
       HoldingPCs, RaisingPCs, FailedPCs, Keeps, Fields
  <2> QED BY <2>3, <2>4, <1>5, ByRequest
<1> QED BY <1>6, <1>7, <1>4

\* The wallet pays its part.
LEMMA PreConsumeWalletStep ==
  ASSUME IInv, NEW r \in Requests, PreConsumeWallet(r)
  PROVE  IInv'
<1>1. /\ TypeOK /\ Books(r)
      /\ pc[r] = "fund"
      /\ sess[r].funding = "wallet"
  BY DEF PreConsumeWallet, IInv, LedgerInv, Books
<1>2. UNCHANGED <<token, used, due, active, resets, record, kind, arg, seen,
   rpc, reserves, tries, tokPaid, fee, overLimit>>
  BY DEF PreConsumeWallet
<1>3. PICK o \in Outcomes(r) : PreConsumeWallet(r)!2!(o)
  BY DEF PreConsumeWallet
<1>4. /\ o \in {"ok", "err", "lost"} /\ (o # "ok" => r \in Unreliable)
      /\ (o = "lost" => "lost" \in FaultKinds)
  BY Outcome
<1>5. \A q \in Requests \ {r} : Untouched(q)
  BY <1>1, <1>2, <1>3, <1>4 DEF PreConsumeWallet, AdjustUserQuota, Note,
     Granted, TypeOK, Untouched, Goto
<1>6. CASE arg[r] <= 0
  <2>1. /\ sess' = [sess EXCEPT ![r] = [sess[r] EXCEPT !.preConsumedQuota = arg[r], !.consumed = 0, !.sub = NoSub]]
        /\ Goto(r, "running")
        /\ UNCHANGED <<wallet, paid, faulted>>
        /\ arg[r] = 0
    BY <1>1, <1>2, <1>3, <1>4, <1>6, TypesAt DEF PreConsumeWallet,
       AdjustUserQuota, Note, Granted
  <2>2. pc' \in [Requests -> PCs] /\ pc'[r] = "running"
    BY <1>1, <1>4, <1>6, <2>1, TypesAt, GotoEffect DEF PCs
  <2>3. [sess[r] EXCEPT !.preConsumedQuota = arg[r], !.consumed = 0, !.sub = NoSub] \in SessionType
    BY <1>1, TypesAt, SessionGranted
  <2>4. sess' \in [Requests -> SessionType] /\ sess'[r] = [sess[r] EXCEPT !.preConsumedQuota = arg[r], !.consumed = 0, !.sub = NoSub]
    BY <1>1, <2>1, <2>3, SessionEffect
  <2>5. /\ sess'[r].preConsumedQuota = arg[r] /\ sess'[r].consumed = 0 /\ sess'[r].sub = NoSub
        /\ Keeps(r, {"preConsumedQuota", "consumed", "sub"})
    BY <1>1, <2>4, TypesAt DEF SessionType, Keeps, Fields, NoSub
  <2>6. TypeOK'
    BY <1>1, <1>2, <2>1, <2>2, <2>4 DEF TypeOK
  <2>7. Books(r)'
    BY <1>1, <1>2, <1>4, <2>1, <2>2, <2>5, <1>6, TypesAt DEF Books, Control,
       Ledger, Returnable, TokReturnable, Final, TokFinal, FeeFund, FeeTok,
       EarlyPCs, HoldingPCs, RaisingPCs, FailedPCs, Keeps, Fields
  <2> QED BY <2>6, <2>7, <1>5, ByRequest
<1>7. CASE arg[r] > 0 /\ o = "ok"
  <2>1. /\ AdjustUserQuota(r, arg[r], o) /\ Note(r, o)
        /\ sess' = [sess EXCEPT ![r] = [sess[r] EXCEPT !.preConsumedQuota = arg[r], !.consumed = arg[r], !.sub = NoSub]]
        /\ Goto(r, "running")
    BY <1>1, <1>2, <1>3, <1>4, <1>7, TypesAt DEF PreConsumeWallet,
       AdjustUserQuota, Note, Granted
  <2>2. /\ pc' \in [Requests -> PCs] /\ pc'[r] = "running"
        /\ faulted' = faulted
        /\ wallet' \in Int /\ paid' \in [Requests -> Int] /\ paid'[r] \in Int
        /\ o = "err" => paid'[r] = paid[r]
        /\ o # "err" => paid'[r] = paid[r] + arg[r]
    BY <1>1, <1>4, <1>7, <2>1, TypesAt, GotoEffect, NoteEffect, WalletEffect DEF
       PCs
  <2>3. [sess[r] EXCEPT !.preConsumedQuota = arg[r], !.consumed = arg[r], !.sub = NoSub] \in SessionType
    BY <1>1, TypesAt, SessionGranted
  <2>4. sess' \in [Requests -> SessionType] /\ sess'[r] = [sess[r] EXCEPT !.preConsumedQuota = arg[r], !.consumed = arg[r], !.sub = NoSub]
    BY <1>1, <2>1, <2>3, SessionEffect
  <2>5. /\ sess'[r].preConsumedQuota = arg[r] /\ sess'[r].consumed = arg[r] /\ sess'[r].sub = NoSub
        /\ Keeps(r, {"preConsumedQuota", "consumed", "sub"})
    BY <1>1, <2>4, TypesAt DEF SessionType, Keeps, Fields, NoSub
  <2>6. TypeOK'
    BY <1>1, <1>2, <2>1, <2>2, <2>4 DEF TypeOK
  <2>7. Books(r)'
    BY <1>1, <1>2, <1>4, <2>1, <2>2, <2>5, <1>7, TypesAt DEF Books, Control,
       Ledger, Returnable, TokReturnable, Final, TokFinal, FeeFund, FeeTok,
       EarlyPCs, HoldingPCs, RaisingPCs, FailedPCs, Keeps, Fields
  <2> QED BY <2>6, <2>7, <1>5, ByRequest
<1>8. CASE arg[r] > 0 /\ o # "ok"
  <2>1. /\ AdjustUserQuota(r, arg[r], o) /\ Note(r, o)
        /\ UNCHANGED sess
        /\ Goto(r, "rollback")
    BY <1>1, <1>2, <1>3, <1>4, <1>8, TypesAt DEF PreConsumeWallet,
       AdjustUserQuota, Note, Granted
  <2>2. /\ pc' \in [Requests -> PCs] /\ pc'[r] = "rollback"
        /\ faulted' \subseteq Unreliable /\ r \in faulted'
        /\ wallet' \in Int /\ paid' \in [Requests -> Int] /\ paid'[r] \in Int
        /\ o = "err" => paid'[r] = paid[r]
        /\ o # "err" => paid'[r] = paid[r] + arg[r]
    BY <1>1, <1>4, <1>8, <2>1, TypesAt, GotoEffect, NoteEffect, WalletEffect DEF
       PCs
  <2>3. TypeOK'
    BY <1>1, <1>2, <2>1, <2>2 DEF TypeOK
  <2>4. Books(r)'
    BY <1>1, <1>2, <1>4, <2>1, <2>2, <1>8, TypesAt DEF Books, Control, Ledger,
       Returnable, TokReturnable, Final, TokFinal, FeeFund, FeeTok, EarlyPCs,
       HoldingPCs, RaisingPCs, FailedPCs, Keeps, Fields
  <2> QED BY <2>3, <2>4, <1>5, ByRequest
<1> QED BY <1>6, <1>7, <1>8, <1>4, <1>1, TypesAt

\* A subscription pays its part and the record says so.
LEMMA PreConsumeSubscriptionStep ==
  ASSUME IInv, NEW r \in Requests, PreConsumeSubscription(r)
  PROVE  IInv'
<1>1. /\ TypeOK /\ Books(r)
      /\ pc[r] = "fund"
      /\ sess[r].funding = "subscription"
      /\ record[r] = "none"
  BY DEF PreConsumeSubscription, IInv, LedgerInv, Books
<1>2. UNCHANGED <<wallet, token, active, resets, kind, arg, seen, rpc, reserves,
   tries, tokPaid, fee, overLimit>>
  BY DEF PreConsumeSubscription
<1>3. PICK o \in Outcomes(r) : PreConsumeSubscription(r)!3!(o)
  BY DEF PreConsumeSubscription
<1>4. /\ o \in {"ok", "err", "lost"} /\ (o # "ok" => r \in Unreliable)
      /\ (o = "lost" => "lost" \in FaultKinds)
  BY Outcome
<1>5. /\ pc' = pc \/ \E l : pc' = [pc EXCEPT ![r] = l]
      /\ sess' = sess \/ \E x : sess' = [sess EXCEPT ![r] = x]
      /\ record' = record \/ \E x : record' = [record EXCEPT ![r] = x]
      /\ paid' = paid \/ \E x : paid' = [paid EXCEPT ![r] = x]
      /\ faulted' \in {faulted, faulted \cup {r}}
  BY <1>3 DEF Note, Granted, Goto, ChargeSubscription
<1>6. \A q \in Requests \ {r} : Untouched(q)
  BY <1>1, <1>2, <1>4, <1>5 DEF PreConsumeSubscription, TypeOK, Untouched, Goto
<1>7. CASE o = "err" \/ Candidates(r, arg[r]) = {}
  <2>1. /\ \E l \in {"rollback", "rollbackInsufficient"} : Goto(r, l) /\ (o = "ok" => l = "rollbackInsufficient")
        /\ Note(r, o)
        /\ UNCHANGED <<used, due, record, paid, sess>>
    BY <1>1, <1>2, <1>3, <1>4, <1>7, TypesAt DEF PreConsumeSubscription, Note,
       Granted
  <2>2. /\ pc' \in [Requests -> PCs] /\ pc'[r] \in {"rollback", "rollbackInsufficient"}
        /\ faulted' \subseteq Unreliable
        /\ o = "ok" => faulted' = faulted
        /\ o # "ok" => r \in faulted'
    BY <1>1, <1>4, <1>7, <2>1, TypesAt, GotoEffect, NoteEffect DEF PCs
  <2>3. TypeOK'
    BY <1>1, <1>2, <2>1, <2>2 DEF TypeOK
  <2>4. Books(r)'
    BY <1>1, <1>2, <1>4, <2>1, <2>2, <1>7, TypesAt DEF Books, Control, Ledger,
       Returnable, TokReturnable, Final, TokFinal, FeeFund, FeeTok, EarlyPCs,
       HoldingPCs, RaisingPCs, FailedPCs, Keeps, Fields
  <2> QED BY <2>3, <2>4, <1>6, ByRequest
<1>8. CASE ~(o = "err" \/ Candidates(r, arg[r]) = {}) /\ o = "ok"
  <2>1. PICK s \in Candidates(r, arg[r]) :
             /\ ChargeSubscription(r, s) /\ Note(r, o)
             /\ IF o = "ok" THEN Granted(r, arg[r], s)
                ELSE Goto(r, "rollback") /\ UNCHANGED sess
    BY <1>1, <1>2, <1>3, <1>4, <1>8 DEF PreConsumeSubscription
  <2>2. /\ s \in Subs
        /\ ChargeSubscription(r, s) /\ Note(r, o)
        /\ sess' = [sess EXCEPT ![r] = [sess[r] EXCEPT !.preConsumedQuota = arg[r], !.consumed = arg[r], !.sub = s]]
        /\ Goto(r, "running")
    BY <1>1, <1>2, <1>3, <1>4, <2>1, <1>8, TypesAt DEF PreConsumeSubscription,
       Note, Granted, Candidates, TypeOK
  <2>3. /\ pc' \in [Requests -> PCs] /\ pc'[r] = "running"
        /\ faulted' = faulted
        /\ used' \in [Subs -> Nat] /\ due' \in [Subs -> BOOLEAN]
        /\ paid' \in [Requests -> Int] /\ paid'[r] \in Int /\ paid'[r] = paid[r] + arg[r]
        /\ record' \in [Requests -> {"none", "consumed", "refunded"}]
        /\ record'[r] = "consumed"
    BY <1>1, <1>4, <1>8, <2>2, <2>1, TypesAt, GotoEffect, NoteEffect,
       ChargeEffect DEF PCs
  <2>4. [sess[r] EXCEPT !.preConsumedQuota = arg[r], !.consumed = arg[r], !.sub = s] \in SessionType
    BY <1>1, <2>2, TypesAt, SessionGranted
  <2>5. sess' \in [Requests -> SessionType] /\ sess'[r] = [sess[r] EXCEPT !.preConsumedQuota = arg[r], !.consumed = arg[r], !.sub = s]
    BY <1>1, <2>2, <2>4, SessionEffect
  <2>6. /\ sess'[r].preConsumedQuota = arg[r] /\ sess'[r].consumed = arg[r] /\ sess'[r].sub = s
        /\ Keeps(r, {"preConsumedQuota", "consumed", "sub"})
    BY <1>1, <2>5, TypesAt DEF SessionType, Keeps, Fields
  <2>7. TypeOK'
    BY <1>1, <1>2, <2>2, <2>1, <2>3, <2>5 DEF TypeOK
  <2>8. Books(r)'
    BY <1>1, <1>2, <1>4, <2>2, <2>1, <2>3, <2>6, <1>8, TypesAt DEF Books,
       Control, Ledger, Returnable, TokReturnable, Final, TokFinal, FeeFund,
       FeeTok, EarlyPCs, HoldingPCs, RaisingPCs, FailedPCs, Keeps, Fields
  <2> QED BY <2>7, <2>8, <1>6, ByRequest
<1>9. CASE ~(o = "err" \/ Candidates(r, arg[r]) = {}) /\ o # "ok"
  <2>1. PICK s \in Candidates(r, arg[r]) :
             /\ ChargeSubscription(r, s) /\ Note(r, o)
             /\ IF o = "ok" THEN Granted(r, arg[r], s)
                ELSE Goto(r, "rollback") /\ UNCHANGED sess
    BY <1>1, <1>2, <1>3, <1>4, <1>9 DEF PreConsumeSubscription
  <2>2. /\ s \in Subs
        /\ ChargeSubscription(r, s) /\ Note(r, o)
        /\ UNCHANGED sess
        /\ Goto(r, "rollback")
    BY <1>1, <1>2, <1>3, <1>4, <2>1, <1>9, TypesAt DEF PreConsumeSubscription,
       Note, Granted, Candidates, TypeOK
  <2>3. /\ pc' \in [Requests -> PCs] /\ pc'[r] = "rollback"
        /\ faulted' \subseteq Unreliable /\ r \in faulted'
        /\ used' \in [Subs -> Nat] /\ due' \in [Subs -> BOOLEAN]
        /\ paid' \in [Requests -> Int] /\ paid'[r] \in Int /\ paid'[r] = paid[r] + arg[r]
        /\ record' \in [Requests -> {"none", "consumed", "refunded"}]
        /\ record'[r] = "consumed"
    BY <1>1, <1>4, <1>9, <2>2, <2>1, TypesAt, GotoEffect, NoteEffect,
       ChargeEffect DEF PCs
  <2>4. TypeOK'
    BY <1>1, <1>2, <2>2, <2>1, <2>3 DEF TypeOK
  <2>5. Books(r)'
    BY <1>1, <1>2, <1>4, <2>2, <2>1, <2>3, <1>9, TypesAt DEF Books, Control,
       Ledger, Returnable, TokReturnable, Final, TokFinal, FeeFund, FeeTok,
       EarlyPCs, HoldingPCs, RaisingPCs, FailedPCs, Keeps, Fields
  <2> QED BY <2>4, <2>5, <1>6, ByRequest
<1> QED BY <1>7, <1>8, <1>9, <1>4

\* preConsume gives the token's part back.
LEMMA RollbackTokenStep ==
  ASSUME IInv, NEW r \in Requests, RollbackToken(r)
  PROVE  IInv'
<1>1. /\ TypeOK /\ Books(r)
      /\ pc[r] \in {"rollback", "rollbackInsufficient"}
  BY DEF RollbackToken, IInv, LedgerInv, Books
<1>2. UNCHANGED <<wallet, used, due, active, resets, record, kind, arg, seen,
   rpc, reserves, tries, paid, fee, overLimit>>
  BY DEF RollbackToken
<1>3. PICK o \in Outcomes(r) : RollbackToken(r)!2!(o)
  BY DEF RollbackToken
<1>4. /\ o \in {"ok", "err", "lost"} /\ (o # "ok" => r \in Unreliable)
      /\ (o = "lost" => "lost" \in FaultKinds)
  BY Outcome
<1>5. \A q \in Requests \ {r} : Untouched(q)
  BY <1>1, <1>2, <1>3, <1>4 DEF RollbackToken, AdjustTokenQuota, Note,
     AfterRollback, TypeOK, Untouched, Goto
<1>6. CASE sess[r].tokenConsumed > 0 /\ ~kind[r].playground
  <2>1. /\ -sess[r].tokenConsumed \in Int
        /\ AdjustTokenQuota(r, -sess[r].tokenConsumed, o) /\ Note(r, o)
        /\ sess' = [sess EXCEPT ![r] = [sess[r] EXCEPT !.tokenConsumed = 0]]
        /\ \E l \in {"overflow", "rejected"} : Goto(r, l) /\ (l = "overflow" => pc[r] = "rollbackInsufficient")
    BY <1>1, <1>2, <1>3, <1>4, <1>6, TypesAt DEF RollbackToken,
       AdjustTokenQuota, Note, AfterRollback
  <2>a. /\ pc' \in [Requests -> PCs] /\ pc'[r] \in {"overflow", "rejected"}
        /\ pc'[r] = "overflow" => pc[r] = "rollbackInsufficient"
    BY <1>1, <2>1, TypesAt, GotoEffect DEF PCs
  <2>b. /\ faulted' \subseteq Unreliable
        /\ o = "ok" => faulted' = faulted
        /\ o # "ok" => r \in faulted'
    BY <1>1, <2>1, NoteEffect
  <2>c. /\ token' \in Int /\ tokPaid' \in [Requests -> Int] /\ tokPaid'[r] \in Int
        /\ o = "err" => tokPaid'[r] = tokPaid[r]
        /\ o # "err" => tokPaid'[r] = tokPaid[r] - sess[r].tokenConsumed
    BY <1>1, <1>4, <1>6, <2>1, TypesAt, TokenEffect
  <2>2. /\ pc' \in [Requests -> PCs] /\ pc'[r] \in {"overflow", "rejected"}
        /\ pc'[r] = "overflow" => pc[r] = "rollbackInsufficient"
        /\ faulted' \subseteq Unreliable
        /\ o = "ok" => faulted' = faulted
        /\ o # "ok" => r \in faulted'
        /\ token' \in Int /\ tokPaid' \in [Requests -> Int] /\ tokPaid'[r] \in Int
        /\ o = "err" => tokPaid'[r] = tokPaid[r]
        /\ o # "err" => tokPaid'[r] = tokPaid[r] - sess[r].tokenConsumed
    BY <2>a, <2>b, <2>c
  <2>3. [sess[r] EXCEPT !.tokenConsumed = 0] \in SessionType
    BY <1>1, <1>6, TypesAt DEF SessionType
  <2>4. sess' \in [Requests -> SessionType] /\ sess'[r] = [sess[r] EXCEPT !.tokenConsumed = 0]
    BY <1>1, <2>1, <2>3, SessionEffect
  <2>5. /\ sess'[r].tokenConsumed = 0
        /\ Keeps(r, {"tokenConsumed"})
    BY <1>1, <2>4, TypesAt DEF SessionType, Keeps, Fields
  <2>6. TypeOK'
    BY <1>1, <1>2, <2>1, <2>2, <2>4 DEF TypeOK
  <2>7. Books(r)'
    BY <1>1, <1>2, <1>4, <2>1, <2>2, <2>5, <1>6, TypesAt DEF Books, Control,
       Ledger, Returnable, TokReturnable, Final, TokFinal, FeeFund, FeeTok,
       EarlyPCs, HoldingPCs, RaisingPCs, FailedPCs, Keeps, Fields
  <2> QED BY <2>6, <2>7, <1>5, ByRequest
<1>7. CASE ~(sess[r].tokenConsumed > 0 /\ ~kind[r].playground)
  <2>1. /\ UNCHANGED <<token, tokPaid, faulted, sess>>
        /\ \E l \in {"overflow", "rejected"} : Goto(r, l) /\ (l = "overflow" => pc[r] = "rollbackInsufficient")
    BY <1>1, <1>2, <1>3, <1>4, <1>7, TypesAt DEF RollbackToken,
       AdjustTokenQuota, Note, AfterRollback
  <2>2. /\ pc' \in [Requests -> PCs] /\ pc'[r] \in {"overflow", "rejected"}
        /\ pc'[r] = "overflow" => pc[r] = "rollbackInsufficient"
    BY <1>1, <1>4, <1>7, <2>1, TypesAt, GotoEffect DEF PCs
  <2>3. TypeOK'
    BY <1>1, <1>2, <2>1, <2>2 DEF TypeOK
  <2>4. Books(r)'
    BY <1>1, <1>2, <1>4, <2>1, <2>2, <1>7, TypesAt DEF Books, Control, Ledger,
       Returnable, TokReturnable, Final, TokFinal, FeeFund, FeeTok, EarlyPCs,
       HoldingPCs, RaisingPCs, FailedPCs, Keeps, Fields
  <2> QED BY <2>3, <2>4, <1>5, ByRequest
<1> QED BY <1>6, <1>7, <1>4, <1>1, TypesAt

\* A reservation is raised: nothing is taken yet.
LEMMA StartReserveStep ==
  ASSUME IInv, NEW r \in Requests, StartReserve(r)
  PROVE  IInv'
<1>1. /\ TypeOK /\ Books(r)
      /\ pc[r] = "running"
      /\ reserves[r] < MaxReserves
  BY DEF StartReserve, IInv, LedgerInv, Books
<1>2. UNCHANGED <<wallet, token, used, due, active, resets, record, kind, seen,
   sess, rpc, tries, paid, tokPaid, fee, faulted, overLimit>>
  BY DEF StartReserve
<1>3. \A q \in Requests \ {r} : Untouched(q)
  BY <1>1, <1>2 DEF StartReserve, TypeOK, Untouched, Goto
<1>4. IInv'
  <2>1. PICK target \in ReserveTargets :
             /\ target > sess[r].preConsumedQuota
             /\ arg' = [arg EXCEPT ![r] = target - sess[r].preConsumedQuota]
    BY <1>1, <1>2 DEF StartReserve
  <2>a. reserves' = [reserves EXCEPT ![r] = @ + 1] /\ Goto(r, "reserve")
    BY DEF StartReserve
  <2>b. sess[r].preConsumedQuota \in Nat /\ target \in Nat
    BY <1>1, TypesAt, QuotaAssumption
  <2>2. /\ reserves' = [reserves EXCEPT ![r] = @ + 1]
        /\ target - sess[r].preConsumedQuota \in Nat
        /\ Goto(r, "reserve")
    BY <2>1, <2>a, <2>b
  <2>3. /\ pc' \in [Requests -> PCs] /\ pc'[r] = "reserve"
        /\ arg' \in [Requests -> Nat] /\ arg'[r] \in Nat
        /\ reserves' \in [Requests -> 0..MaxReserves] /\ reserves'[r] > 0
    BY <1>1, <2>2, <2>1, TypesAt, GotoEffect, QuotaAssumption DEF PCs, TypeOK
  <2>4. TypeOK'
    BY <1>1, <1>2, <2>2, <2>1, <2>3 DEF TypeOK
  <2>5. Books(r)'
    BY <1>1, <1>2, <2>2, <2>1, <2>3, TypesAt DEF Books, Control, Ledger,
       Returnable, TokReturnable, Final, TokFinal, FeeFund, FeeTok, EarlyPCs,
       HoldingPCs, RaisingPCs, FailedPCs, Keeps, Fields
  <2> QED BY <2>4, <2>5, <1>3, ByRequest
<1> QED BY <1>4

\* The funding source pays for the raise.
LEMMA ReserveFundingStep ==
  ASSUME IInv, NEW r \in Requests, ReserveFunding(r)
  PROVE  IInv'
<1>1. /\ TypeOK /\ Books(r)
      /\ pc[r] = "reserve"
      /\ sess[r].funding \in {"wallet", "subscription"}
      /\ sess[r].funding = "subscription" => sess[r].sub \in Subs
  <2>1. TypeOK /\ Control(r) /\ Books(r)
    BY DEF IInv, LedgerInv, Books
  <2> QED BY <2>1, TypesAt DEF ReserveFunding, Control, HoldingPCs
<1>2. UNCHANGED <<token, due, active, resets, record, kind, arg, seen, rpc,
   reserves, tries, tokPaid, fee, overLimit>>
  BY DEF ReserveFunding
<1>3. PICK o \in Outcomes(r) : ReserveFunding(r)!2!(o)
  BY DEF ReserveFunding
<1>4. /\ o \in {"ok", "err", "lost"} /\ (o # "ok" => r \in Unreliable)
      /\ (o = "lost" => "lost" \in FaultKinds)
  BY Outcome
<1>5. \A q \in Requests \ {r} : Untouched(q)
  BY <1>1, <1>2, <1>3, <1>4 DEF ReserveFunding, AdjustUserQuota,
     AdjustSubscription, Note, TypeOK, Untouched, Goto
<1>6. CASE sess[r].funding = "wallet" /\ o = "ok"
  <2>1. /\ AdjustUserQuota(r, arg[r], o) /\ Note(r, o) /\ UNCHANGED used
        /\ sess' = [sess EXCEPT ![r] = [sess[r] EXCEPT !.consumed = sess[r].consumed + arg[r]]]
        /\ Goto(r, "reserveToken")
    BY <1>1, <1>2, <1>3, <1>4, <1>6, TypesAt DEF ReserveFunding,
       AdjustUserQuota, AdjustSubscription, Note
  <2>2. /\ pc' \in [Requests -> PCs] /\ pc'[r] = "reserveToken"
        /\ faulted' = faulted
        /\ wallet' \in Int /\ paid' \in [Requests -> Int] /\ paid'[r] \in Int
        /\ o = "err" => paid'[r] = paid[r]
        /\ o # "err" => paid'[r] = paid[r] + arg[r]
    BY <1>1, <1>4, <1>6, <2>1, TypesAt, GotoEffect, NoteEffect, WalletEffect DEF
       PCs
  <2>3. [sess[r] EXCEPT !.consumed = sess[r].consumed + arg[r]] \in SessionType
    BY <1>1, <1>6, TypesAt DEF SessionType
  <2>4. sess' \in [Requests -> SessionType] /\ sess'[r] = [sess[r] EXCEPT !.consumed = sess[r].consumed + arg[r]]
    BY <1>1, <2>1, <2>3, SessionEffect
  <2>5. /\ sess'[r].consumed = sess[r].consumed + arg[r]
        /\ Keeps(r, {"consumed"})
    BY <1>1, <2>4, TypesAt DEF SessionType, Keeps, Fields
  <2>6. TypeOK'
    BY <1>1, <1>2, <2>1, <2>2, <2>4 DEF TypeOK
  <2>7. Books(r)'
    BY <1>1, <1>2, <1>4, <2>1, <2>2, <2>5, <1>6, TypesAt DEF Books, Control,
       Ledger, Returnable, TokReturnable, Final, TokFinal, FeeFund, FeeTok,
       EarlyPCs, HoldingPCs, RaisingPCs, FailedPCs, Keeps, Fields
  <2> QED BY <2>6, <2>7, <1>5, ByRequest
<1>7. CASE sess[r].funding = "wallet" /\ o # "ok"
  <2>1. /\ AdjustUserQuota(r, arg[r], o) /\ Note(r, o) /\ UNCHANGED used
        /\ UNCHANGED sess
        /\ Goto(r, "running")
    BY <1>1, <1>2, <1>3, <1>4, <1>7, TypesAt DEF ReserveFunding,
       AdjustUserQuota, AdjustSubscription, Note
  <2>2. /\ pc' \in [Requests -> PCs] /\ pc'[r] = "running"
        /\ faulted' \subseteq Unreliable /\ r \in faulted'
        /\ wallet' \in Int /\ paid' \in [Requests -> Int] /\ paid'[r] \in Int
        /\ o = "err" => paid'[r] = paid[r]
        /\ o # "err" => paid'[r] = paid[r] + arg[r]
    BY <1>1, <1>4, <1>7, <2>1, TypesAt, GotoEffect, NoteEffect, WalletEffect DEF
       PCs
  <2>3. TypeOK'
    BY <1>1, <1>2, <2>1, <2>2 DEF TypeOK
  <2>4. Books(r)'
    BY <1>1, <1>2, <1>4, <2>1, <2>2, <1>7, TypesAt DEF Books, Control, Ledger,
       Returnable, TokReturnable, Final, TokFinal, FeeFund, FeeTok, EarlyPCs,
       HoldingPCs, RaisingPCs, FailedPCs, Keeps, Fields
  <2> QED BY <2>3, <2>4, <1>5, ByRequest
<1>8. CASE sess[r].funding = "subscription" /\ ExceedsTotal(sess[r].sub, arg[r])
  <2>1. /\ Note(r, o) /\ UNCHANGED <<wallet, sess, used, paid>>
        /\ Goto(r, "running")
    BY <1>1, <1>2, <1>3, <1>4, <1>8, TypesAt DEF ReserveFunding,
       AdjustUserQuota, AdjustSubscription, Note
  <2>2. /\ pc' \in [Requests -> PCs] /\ pc'[r] = "running"
        /\ faulted' \subseteq Unreliable
        /\ o = "ok" => faulted' = faulted
        /\ o # "ok" => r \in faulted'
    BY <1>1, <1>4, <1>8, <2>1, TypesAt, GotoEffect, NoteEffect DEF PCs
  <2>3. TypeOK'
    BY <1>1, <1>2, <2>1, <2>2 DEF TypeOK
  <2>4. Books(r)'
    BY <1>1, <1>2, <1>4, <2>1, <2>2, <1>8, TypesAt DEF Books, Control, Ledger,
       Returnable, TokReturnable, Final, TokFinal, FeeFund, FeeTok, EarlyPCs,
       HoldingPCs, RaisingPCs, FailedPCs, Keeps, Fields
  <2> QED BY <2>3, <2>4, <1>5, ByRequest
<1>9. CASE sess[r].funding = "subscription" /\ ~ExceedsTotal(sess[r].sub, arg[r])
  <2>1. /\ AdjustSubscription(r, sess[r].sub, arg[r], o) /\ Note(r, o)
        /\ UNCHANGED <<wallet, sess>>
        /\ Goto(r, IF o = "ok" THEN "reserveToken" ELSE "running")
    BY <1>1, <1>2, <1>3, <1>4, <1>9, TypesAt DEF ReserveFunding,
       AdjustUserQuota, AdjustSubscription, Note
  <2>2. /\ pc' \in [Requests -> PCs]
        /\ pc'[r] = IF o = "ok" THEN "reserveToken" ELSE "running"
        /\ faulted' \subseteq Unreliable
        /\ o = "ok" => faulted' = faulted
        /\ o # "ok" => r \in faulted'
        /\ used' \in [Subs -> Nat] /\ paid' \in [Requests -> Int] /\ paid'[r] \in Int
        /\ o = "err" => paid'[r] = paid[r]
        /\ o # "err" => paid'[r] = paid[r] + arg[r]
    BY <1>1, <1>4, <1>9, <2>1, TypesAt, GotoEffect, NoteEffect,
       SubscriptionEffect DEF PCs
  <2>3. TypeOK'
    BY <1>1, <1>2, <2>1, <2>2 DEF TypeOK
  <2>4. Books(r)'
    BY <1>1, <1>2, <1>4, <2>1, <2>2, <1>9, TypesAt DEF Books, Control, Ledger,
       Returnable, TokReturnable, Final, TokFinal, FeeFund, FeeTok, EarlyPCs,
       HoldingPCs, RaisingPCs, FailedPCs, Keeps, Fields
  <2> QED BY <2>3, <2>4, <1>5, ByRequest
<1> QED BY <1>6, <1>7, <1>8, <1>9, <1>4, <1>1

\* The playground has no token to raise.
LEMMA ReserveTokenCheckStep ==
  ASSUME IInv, NEW r \in Requests, ReserveTokenCheck(r)
  PROVE  IInv'
<1>1. /\ TypeOK /\ Books(r)
      /\ pc[r] = "reserveToken"
  BY DEF ReserveTokenCheck, IInv, LedgerInv, Books
<1>2. UNCHANGED <<wallet, token, used, due, active, resets, record, kind, arg,
   seen, rpc, reserves, tries, paid, tokPaid, fee, faulted, overLimit>>
  BY DEF ReserveTokenCheck
<1>3. \A q \in Requests \ {r} : Untouched(q)
  BY <1>1, <1>2 DEF ReserveTokenCheck, Reserved, TypeOK, Untouched, Goto
<1>4. CASE kind[r].playground
  <2>1. /\ sess' = [sess EXCEPT ![r] = Raised(sess[r], arg[r])]
        /\ Goto(r, "running")
    BY <1>1, <1>2, <1>4, TypesAt DEF ReserveTokenCheck, Reserved
  <2>2. pc' \in [Requests -> PCs] /\ pc'[r] = "running"
    BY <1>1, <1>4, <2>1, TypesAt, GotoEffect DEF PCs
  <2>3. Raised(sess[r], arg[r]) \in SessionType
    BY <1>1, TypesAt, RaisedType
  <2>4. sess' \in [Requests -> SessionType] /\ sess'[r] = Raised(sess[r], arg[r])
    BY <1>1, <2>1, <2>3, SessionEffect
  <2>5. /\ sess'[r].preConsumedQuota = sess[r].preConsumedQuota + arg[r]
        /\ sess'[r].tokenConsumed = sess[r].tokenConsumed + arg[r]
        /\ sess'[r].extraReserved = sess[r].extraReserved + arg[r]
        /\ Keeps(r, {"preConsumedQuota", "tokenConsumed", "extraReserved"})
    BY <1>1, <2>4, TypesAt DEF SessionType, Keeps, Fields, Raised
  <2>6. TypeOK'
    BY <1>1, <1>2, <2>1, <2>2, <2>4 DEF TypeOK
  <2>7. Books(r)'
    BY <1>1, <1>2, <2>1, <2>2, <2>5, <1>4, TypesAt DEF Books, Control, Ledger,
       Returnable, TokReturnable, Final, TokFinal, FeeFund, FeeTok, EarlyPCs,
       HoldingPCs, RaisingPCs, FailedPCs, Keeps, Fields
  <2> QED BY <2>6, <2>7, <1>3, ByRequest
<1>5. CASE ~kind[r].playground
  <2>1. /\ \E l \in {"reserveTokenDec", "reserveRollback"} : Goto(r, l)
        /\ UNCHANGED sess
    BY <1>1, <1>2, <1>5, TypesAt DEF ReserveTokenCheck, Reserved
  <2>2. pc' \in [Requests -> PCs] /\ pc'[r] \in {"reserveTokenDec", "reserveRollback"}
    BY <1>1, <1>5, <2>1, TypesAt, GotoEffect DEF PCs
  <2>3. TypeOK'
    BY <1>1, <1>2, <2>1, <2>2 DEF TypeOK
  <2>4. Books(r)'
    BY <1>1, <1>2, <2>1, <2>2, <1>5, TypesAt DEF Books, Control, Ledger,
       Returnable, TokReturnable, Final, TokFinal, FeeFund, FeeTok, EarlyPCs,
       HoldingPCs, RaisingPCs, FailedPCs, Keeps, Fields
  <2> QED BY <2>3, <2>4, <1>3, ByRequest
<1> QED BY <1>4, <1>5

\* The token pays for the raise, or the funding source is rolled back.
LEMMA ReserveTokenStep ==
  ASSUME IInv, NEW r \in Requests, ReserveToken(r)
  PROVE  IInv'
<1>1. /\ TypeOK /\ Books(r)
      /\ pc[r] = "reserveTokenDec"
  BY DEF ReserveToken, IInv, LedgerInv, Books
<1>2. UNCHANGED <<wallet, used, due, active, resets, record, kind, arg, seen,
   rpc, reserves, tries, paid, fee, overLimit>>
  BY DEF ReserveToken
<1>3. PICK o \in Outcomes(r) : ReserveToken(r)!2!(o)
  BY DEF ReserveToken
<1>4. /\ o \in {"ok", "err", "lost"} /\ (o # "ok" => r \in Unreliable)
      /\ (o = "lost" => "lost" \in FaultKinds)
  BY Outcome
<1>5. \A q \in Requests \ {r} : Untouched(q)
  BY <1>1, <1>2, <1>3, <1>4 DEF ReserveToken, AdjustTokenQuota, Note, Reserved,
     TypeOK, Untouched, Goto
<1>6. CASE o = "ok"
  <2>1. /\ AdjustTokenQuota(r, arg[r], o) /\ Note(r, o)
        /\ sess' = [sess EXCEPT ![r] = Raised(sess[r], arg[r])]
        /\ Goto(r, "running")
    BY <1>1, <1>2, <1>3, <1>4, <1>6, TypesAt DEF ReserveToken, AdjustTokenQuota,
       Note, Reserved
  <2>2. /\ pc' \in [Requests -> PCs] /\ pc'[r] = "running"
        /\ faulted' = faulted
        /\ token' \in Int /\ tokPaid' \in [Requests -> Int] /\ tokPaid'[r] \in Int
        /\ o = "err" => tokPaid'[r] = tokPaid[r]
        /\ o # "err" => tokPaid'[r] = tokPaid[r] + arg[r]
    BY <1>1, <1>4, <1>6, <2>1, TypesAt, GotoEffect, NoteEffect, TokenEffect DEF
       PCs
  <2>3. Raised(sess[r], arg[r]) \in SessionType
    BY <1>1, TypesAt, RaisedType
  <2>4. sess' \in [Requests -> SessionType] /\ sess'[r] = Raised(sess[r], arg[r])
    BY <1>1, <2>1, <2>3, SessionEffect
  <2>5. /\ sess'[r].preConsumedQuota = sess[r].preConsumedQuota + arg[r]
        /\ sess'[r].tokenConsumed = sess[r].tokenConsumed + arg[r]
        /\ sess'[r].extraReserved = sess[r].extraReserved + arg[r]
        /\ Keeps(r, {"preConsumedQuota", "tokenConsumed", "extraReserved"})
    BY <1>1, <2>4, TypesAt DEF SessionType, Keeps, Fields, Raised
  <2>6. TypeOK'
    BY <1>1, <1>2, <2>1, <2>2, <2>4 DEF TypeOK
  <2>7. Books(r)'
    BY <1>1, <1>2, <1>4, <2>1, <2>2, <2>5, <1>6, TypesAt DEF Books, Control,
       Ledger, Returnable, TokReturnable, Final, TokFinal, FeeFund, FeeTok,
       EarlyPCs, HoldingPCs, RaisingPCs, FailedPCs, Keeps, Fields
  <2> QED BY <2>6, <2>7, <1>5, ByRequest
<1>7. CASE o # "ok"
  <2>1. /\ AdjustTokenQuota(r, arg[r], o) /\ Note(r, o)
        /\ UNCHANGED sess
        /\ Goto(r, "reserveRollback")
    BY <1>1, <1>2, <1>3, <1>4, <1>7, TypesAt DEF ReserveToken, AdjustTokenQuota,
       Note, Reserved
  <2>2. /\ pc' \in [Requests -> PCs] /\ pc'[r] = "reserveRollback"
        /\ faulted' \subseteq Unreliable /\ r \in faulted'
        /\ token' \in Int /\ tokPaid' \in [Requests -> Int] /\ tokPaid'[r] \in Int
        /\ o = "err" => tokPaid'[r] = tokPaid[r]
        /\ o # "err" => tokPaid'[r] = tokPaid[r] + arg[r]
    BY <1>1, <1>4, <1>7, <2>1, TypesAt, GotoEffect, NoteEffect, TokenEffect DEF
       PCs
  <2>3. TypeOK'
    BY <1>1, <1>2, <2>1, <2>2 DEF TypeOK
  <2>4. Books(r)'
    BY <1>1, <1>2, <1>4, <2>1, <2>2, <1>7, TypesAt DEF Books, Control, Ledger,
       Returnable, TokReturnable, Final, TokFinal, FeeFund, FeeTok, EarlyPCs,
       HoldingPCs, RaisingPCs, FailedPCs, Keeps, Fields
  <2> QED BY <2>3, <2>4, <1>5, ByRequest
<1> QED BY <1>6, <1>7, <1>4

\* rollbackFundingReserve: here an unacknowledged write would be refunded twice.
LEMMA RollbackReserveStep ==
  ASSUME IInv, NEW r \in Requests, RollbackReserve(r), ReserveAcked
  PROVE  IInv'
<1>1. /\ TypeOK /\ Books(r)
      /\ pc[r] = "reserveRollback"
      /\ sess[r].funding \in {"wallet", "subscription"}
      /\ sess[r].funding = "subscription" => sess[r].sub \in Subs
      /\ sess[r].funding = "wallet" => sess[r].consumed >= sess[r].preConsumedQuota + arg[r]
      /\ reserves[r] > 0 /\ -arg[r] \in Int
  <2>1. TypeOK /\ Control(r) /\ Books(r)
    BY DEF IInv, LedgerInv, Books
  <2> QED BY <2>1, TypesAt DEF RollbackReserve, Control, HoldingPCs, RaisingPCs
<1>2. UNCHANGED <<token, due, active, resets, record, kind, arg, seen, rpc,
   reserves, tries, tokPaid, fee>>
  BY DEF RollbackReserve
<1>3. PICK o \in Outcomes(r) : RollbackReserve(r)!2!(o)
  BY DEF RollbackReserve
<1>4. /\ o \in {"ok", "err", "lost"} /\ (o # "ok" => r \in Unreliable)
      /\ (o = "lost" => "lost" \in FaultKinds)
  BY Outcome
<1>5. o # "lost"
  BY <1>1, <1>4, QuotaAssumption DEF TypeOK, ReserveAcked
<1>6. \A q \in Requests \ {r} : Untouched(q)
  BY <1>1, <1>2, <1>3, <1>4, <1>5 DEF RollbackReserve, AdjustUserQuota,
     AdjustSubscription, Note, ForgetReserve, TypeOK, Untouched, Goto
<1>7. CASE sess[r].funding = "wallet" /\ o = "ok"
  <2>1. /\ AdjustUserQuota(r, -arg[r], o) /\ Note(r, o) /\ UNCHANGED <<used, overLimit>>
        /\ sess' = [sess EXCEPT ![r] = [sess[r] EXCEPT !.consumed = sess[r].consumed - arg[r]]]
        /\ Goto(r, "running")
    BY <1>1, <1>2, <1>3, <1>4, <1>5, <1>7, TypesAt DEF RollbackReserve,
       AdjustUserQuota, AdjustSubscription, Note, ForgetReserve
  <2>2. /\ pc' \in [Requests -> PCs] /\ pc'[r] = "running"
        /\ faulted' = faulted
        /\ wallet' \in Int /\ paid' \in [Requests -> Int] /\ paid'[r] \in Int
        /\ o = "err" => paid'[r] = paid[r]
        /\ o # "err" => paid'[r] = paid[r] - arg[r]
    BY <1>1, <1>4, <1>7, <2>1, TypesAt, GotoEffect, NoteEffect, WalletEffect DEF
       PCs
  <2>3. [sess[r] EXCEPT !.consumed = sess[r].consumed - arg[r]] \in SessionType
    BY <1>1, <1>7, TypesAt DEF SessionType
  <2>4. sess' \in [Requests -> SessionType] /\ sess'[r] = [sess[r] EXCEPT !.consumed = sess[r].consumed - arg[r]]
    BY <1>1, <2>1, <2>3, SessionEffect
  <2>5. /\ sess'[r].consumed = sess[r].consumed - arg[r]
        /\ Keeps(r, {"consumed"})
    BY <1>1, <2>4, TypesAt DEF SessionType, Keeps, Fields
  <2>6. TypeOK'
    BY <1>1, <1>2, <2>1, <2>2, <2>4 DEF TypeOK
  <2>7. Books(r)'
    BY SMTT(30), <1>1, <1>2, <1>4, <1>5, <2>1, <2>2, <2>5, <1>7, TypesAt DEF Books,
       Control, Ledger, Returnable, TokReturnable, Final, TokFinal, FeeFund,
       FeeTok, EarlyPCs, HoldingPCs, RaisingPCs, FailedPCs, Keeps, Fields
  <2> QED BY <2>6, <2>7, <1>6, ByRequest
<1>8. CASE sess[r].funding = "wallet" /\ o # "ok"
  <2>1. /\ AdjustUserQuota(r, -arg[r], o) /\ Note(r, o) /\ UNCHANGED <<used, overLimit>>
        /\ UNCHANGED sess
        /\ Goto(r, "running")
    BY <1>1, <1>2, <1>3, <1>4, <1>5, <1>8, TypesAt DEF RollbackReserve,
       AdjustUserQuota, AdjustSubscription, Note, ForgetReserve
  <2>2. /\ pc' \in [Requests -> PCs] /\ pc'[r] = "running"
        /\ faulted' \subseteq Unreliable /\ r \in faulted'
        /\ wallet' \in Int /\ paid' \in [Requests -> Int] /\ paid'[r] \in Int
        /\ o = "err" => paid'[r] = paid[r]
        /\ o # "err" => paid'[r] = paid[r] - arg[r]
    BY <1>1, <1>4, <1>8, <2>1, TypesAt, GotoEffect, NoteEffect, WalletEffect DEF
       PCs
  <2>3. TypeOK'
    BY <1>1, <1>2, <2>1, <2>2 DEF TypeOK
  <2>4. Books(r)'
    BY <1>1, <1>2, <1>4, <1>5, <2>1, <2>2, <1>8, TypesAt DEF Books, Control,
       Ledger, Returnable, TokReturnable, Final, TokFinal, FeeFund, FeeTok,
       EarlyPCs, HoldingPCs, RaisingPCs, FailedPCs, Keeps, Fields
  <2> QED BY <2>3, <2>4, <1>6, ByRequest
<1>9. CASE sess[r].funding = "subscription" /\ ExceedsTotal(sess[r].sub, -arg[r])
  <2>1. /\ Note(r, o) /\ UNCHANGED <<wallet, sess, used, paid>>
        /\ Goto(r, "running")
        /\ overLimit' = overLimit \cup {r}
    BY <1>1, <1>2, <1>3, <1>4, <1>5, <1>9, TypesAt DEF RollbackReserve,
       AdjustUserQuota, AdjustSubscription, Note, ForgetReserve
  <2>2. /\ pc' \in [Requests -> PCs] /\ pc'[r] = "running"
        /\ faulted' \subseteq Unreliable
        /\ o = "ok" => faulted' = faulted
        /\ o # "ok" => r \in faulted'
    BY <1>1, <1>4, <1>9, <2>1, TypesAt, GotoEffect, NoteEffect DEF PCs
  <2>3. TypeOK'
    BY <1>1, <1>2, <2>1, <2>2 DEF TypeOK
  <2>4. Books(r)'
    BY <1>1, <1>2, <1>4, <1>5, <2>1, <2>2, <1>9, TypesAt DEF Books, Control,
       Ledger, Returnable, TokReturnable, Final, TokFinal, FeeFund, FeeTok,
       EarlyPCs, HoldingPCs, RaisingPCs, FailedPCs, Keeps, Fields
  <2> QED BY <2>3, <2>4, <1>6, ByRequest
<1>10. CASE sess[r].funding = "subscription" /\ ~ExceedsTotal(sess[r].sub, -arg[r])
  <2>1. /\ AdjustSubscription(r, sess[r].sub, -arg[r], o) /\ Note(r, o)
        /\ UNCHANGED <<wallet, sess, overLimit>>
        /\ Goto(r, "running")
    BY <1>1, <1>2, <1>3, <1>4, <1>5, <1>10, TypesAt DEF RollbackReserve,
       AdjustUserQuota, AdjustSubscription, Note, ForgetReserve
  <2>2. /\ pc' \in [Requests -> PCs] /\ pc'[r] = "running"
        /\ faulted' \subseteq Unreliable
        /\ o = "ok" => faulted' = faulted
        /\ o # "ok" => r \in faulted'
        /\ used' \in [Subs -> Nat] /\ paid' \in [Requests -> Int] /\ paid'[r] \in Int
        /\ o = "err" => paid'[r] = paid[r]
        /\ o # "err" => paid'[r] = paid[r] - arg[r]
    BY <1>1, <1>4, <1>10, <2>1, TypesAt, GotoEffect, NoteEffect,
       SubscriptionEffect DEF PCs
  <2>3. TypeOK'
    BY <1>1, <1>2, <2>1, <2>2 DEF TypeOK
  <2>4. Books(r)'
    BY <1>1, <1>2, <1>4, <1>5, <2>1, <2>2, <1>10, TypesAt DEF Books, Control,
       Ledger, Returnable, TokReturnable, Final, TokFinal, FeeFund, FeeTok,
       EarlyPCs, HoldingPCs, RaisingPCs, FailedPCs, Keeps, Fields
  <2> QED BY <2>3, <2>4, <1>6, ByRequest
<1> QED BY <1>7, <1>8, <1>9, <1>10, <1>4, <1>1

\* Success fixes the actual quota.
LEMMA SucceedStep ==
  ASSUME IInv, NEW r \in Requests, Succeed(r)
  PROVE  IInv'
<1>1. /\ TypeOK /\ Books(r)
      /\ pc[r] = "running"
  BY DEF Succeed, IInv, LedgerInv, Books
<1>2. UNCHANGED <<wallet, token, used, due, active, resets, record, kind, seen,
   sess, rpc, reserves, tries, paid, tokPaid, fee, faulted, overLimit>>
  BY DEF Succeed
<1>3. \A q \in Requests \ {r} : Untouched(q)
  BY <1>1, <1>2 DEF Succeed, TypeOK, Untouched, Goto
<1>4. IInv'
  <2>1. /\ \E n \in Nat : arg' = [arg EXCEPT ![r] = n]
        /\ Goto(r, "settle")
    BY <1>1, <1>2, TypesAt, QuotaAssumption DEF Succeed
  <2>2. /\ pc' \in [Requests -> PCs] /\ pc'[r] = "settle"
        /\ arg' \in [Requests -> Nat] /\ arg'[r] \in Nat
    BY <1>1, <2>1, TypesAt, GotoEffect DEF PCs, TypeOK
  <2>3. TypeOK'
    BY <1>1, <1>2, <2>1, <2>2 DEF TypeOK
  <2>4. Books(r)'
    BY <1>1, <1>2, <2>1, <2>2, TypesAt DEF Books, Control, Ledger, Returnable,
       TokReturnable, Final, TokFinal, FeeFund, FeeTok, EarlyPCs, HoldingPCs,
       RaisingPCs, FailedPCs, Keeps, Fields
  <2> QED BY <2>3, <2>4, <1>3, ByRequest
<1> QED BY <1>4

\* Settle's first step moves the reservation to the actual quota.
LEMMA SettleFundingStep ==
  ASSUME IInv, NEW r \in Requests, SettleFunding(r)
  PROVE  IInv'
<1>1. /\ TypeOK /\ Books(r)
      /\ pc[r] = "settle"
      /\ sess[r].funding \in {"wallet", "subscription"}
      /\ sess[r].funding = "subscription" => sess[r].sub \in Subs
      /\ Delta(r) \in Int /\ Delta(r) = arg[r] - sess[r].preConsumedQuota
  <2>1. TypeOK /\ Control(r) /\ Books(r)
    BY DEF IInv, LedgerInv, Books
  <2> QED BY <2>1, TypesAt DEF SettleFunding, Control, HoldingPCs, Delta
<1>2. UNCHANGED <<token, due, active, resets, record, kind, arg, seen, rpc,
   reserves, tries, tokPaid, fee, overLimit>>
  BY DEF SettleFunding
<1>3. PICK o \in Outcomes(r) : SettleFunding(r)!2!(o)
  BY DEF SettleFunding
<1>4. /\ o \in {"ok", "err", "lost"} /\ (o # "ok" => r \in Unreliable)
      /\ (o = "lost" => "lost" \in FaultKinds)
  BY Outcome
<1>5. \A q \in Requests \ {r} : Untouched(q)
  BY <1>1, <1>2, <1>3, <1>4 DEF SettleFunding, AdjustUserQuota,
     AdjustSubscription, Note, TypeOK, Untouched, Goto
<1>6. CASE Delta(r) = 0
  <2>1. /\ arg[r] = sess[r].preConsumedQuota
        /\ UNCHANGED <<wallet, used, paid, faulted>>
        /\ sess' = [sess EXCEPT ![r] = [sess[r] EXCEPT !.settled = TRUE]]
        /\ Goto(r, "done")
    BY <1>1, <1>2, <1>3, <1>4, <1>6, TypesAt DEF SettleFunding, AdjustUserQuota,
       AdjustSubscription, Note
  <2>2. pc' \in [Requests -> PCs] /\ pc'[r] = "done"
    BY <1>1, <1>4, <1>6, <2>1, TypesAt, GotoEffect DEF PCs
  <2>3. [sess[r] EXCEPT !.settled = TRUE] \in SessionType
    BY <1>1, TypesAt, SessionFlags
  <2>4. sess' \in [Requests -> SessionType] /\ sess'[r] = [sess[r] EXCEPT !.settled = TRUE]
    BY <1>1, <2>1, <2>3, SessionEffect
  <2>5. /\ sess'[r].settled
        /\ Keeps(r, {"settled"})
    BY <1>1, <2>4, TypesAt DEF SessionType, Keeps, Fields
  <2>6. TypeOK'
    BY <1>1, <1>2, <2>1, <2>2, <2>4 DEF TypeOK
  <2>7. Books(r)'
    BY <1>1, <1>2, <1>4, <2>1, <2>2, <2>5, <1>6, TypesAt DEF Books, Control,
       Ledger, Returnable, TokReturnable, Final, TokFinal, FeeFund, FeeTok,
       EarlyPCs, HoldingPCs, RaisingPCs, FailedPCs, Keeps, Fields
  <2> QED BY <2>6, <2>7, <1>5, ByRequest
<1>7. CASE Delta(r) # 0 /\ sess[r].funding = "wallet" /\ o = "ok"
  <2>1. /\ AdjustUserQuota(r, Delta(r), o) /\ UNCHANGED used
        /\ Note(r, o)
        /\ sess' = [sess EXCEPT ![r] = [sess[r] EXCEPT !.fundingSettled = TRUE]]
        /\ Goto(r, "settleToken")
    BY <1>1, <1>2, <1>3, <1>4, <1>7, TypesAt DEF SettleFunding, AdjustUserQuota,
       AdjustSubscription, Note
  <2>2. /\ pc' \in [Requests -> PCs] /\ pc'[r] = "settleToken"
        /\ faulted' = faulted
        /\ wallet' \in Int /\ paid' \in [Requests -> Int] /\ paid'[r] \in Int
        /\ o = "err" => paid'[r] = paid[r]
        /\ o # "err" => paid'[r] = paid[r] + Delta(r)
    BY <1>1, <1>4, <1>7, <2>1, TypesAt, GotoEffect, NoteEffect, WalletEffect DEF
       PCs
  <2>3. [sess[r] EXCEPT !.fundingSettled = TRUE] \in SessionType
    BY <1>1, TypesAt, SessionFlags
  <2>4. sess' \in [Requests -> SessionType] /\ sess'[r] = [sess[r] EXCEPT !.fundingSettled = TRUE]
    BY <1>1, <2>1, <2>3, SessionEffect
  <2>5. /\ sess'[r].fundingSettled
        /\ Keeps(r, {"fundingSettled"})
    BY <1>1, <2>4, TypesAt DEF SessionType, Keeps, Fields
  <2>6. TypeOK'
    BY <1>1, <1>2, <2>1, <2>2, <2>4 DEF TypeOK
  <2>7. Books(r)'
    BY <1>1, <1>2, <1>4, <2>1, <2>2, <2>5, <1>7, TypesAt DEF Books, Control,
       Ledger, Returnable, TokReturnable, Final, TokFinal, FeeFund, FeeTok,
       EarlyPCs, HoldingPCs, RaisingPCs, FailedPCs, Keeps, Fields
  <2> QED BY <2>6, <2>7, <1>5, ByRequest
<1>8. CASE Delta(r) # 0 /\ sess[r].funding = "wallet" /\ o # "ok"
  <2>1. /\ AdjustUserQuota(r, Delta(r), o) /\ UNCHANGED used
        /\ Note(r, o)
        /\ UNCHANGED sess
        /\ Goto(r, "done")
    BY <1>1, <1>2, <1>3, <1>4, <1>8, TypesAt DEF SettleFunding, AdjustUserQuota,
       AdjustSubscription, Note
  <2>2. /\ pc' \in [Requests -> PCs] /\ pc'[r] = "done"
        /\ faulted' \subseteq Unreliable /\ r \in faulted'
        /\ wallet' \in Int /\ paid' \in [Requests -> Int] /\ paid'[r] \in Int
        /\ o = "err" => paid'[r] = paid[r]
        /\ o # "err" => paid'[r] = paid[r] + Delta(r)
    BY <1>1, <1>4, <1>8, <2>1, TypesAt, GotoEffect, NoteEffect, WalletEffect DEF
       PCs
  <2>3. TypeOK'
    BY <1>1, <1>2, <2>1, <2>2 DEF TypeOK
  <2>4. Books(r)'
    BY <1>1, <1>2, <1>4, <2>1, <2>2, <1>8, TypesAt DEF Books, Control, Ledger,
       Returnable, TokReturnable, Final, TokFinal, FeeFund, FeeTok, EarlyPCs,
       HoldingPCs, RaisingPCs, FailedPCs, Keeps, Fields
  <2> QED BY <2>3, <2>4, <1>5, ByRequest
<1>9. CASE Delta(r) # 0 /\ sess[r].funding = "subscription" /\ o = "ok"
  <2>1. /\ AdjustSubscription(r, sess[r].sub, Delta(r), o) /\ UNCHANGED wallet
        /\ Note(r, o)
        /\ sess' = [sess EXCEPT ![r] = [sess[r] EXCEPT !.fundingSettled = TRUE]]
        /\ Goto(r, "settleToken")
    BY <1>1, <1>2, <1>3, <1>4, <1>9, TypesAt DEF SettleFunding, AdjustUserQuota,
       AdjustSubscription, Note
  <2>2. /\ pc' \in [Requests -> PCs] /\ pc'[r] = "settleToken"
        /\ faulted' = faulted
        /\ used' \in [Subs -> Nat] /\ paid' \in [Requests -> Int] /\ paid'[r] \in Int
        /\ o = "err" => paid'[r] = paid[r]
        /\ o # "err" => paid'[r] = paid[r] + Delta(r)
    BY SMTT(30), <1>1, <1>4, <1>9, <2>1, TypesAt, GotoEffect, NoteEffect,
       SubscriptionEffect DEF PCs
  <2>3. [sess[r] EXCEPT !.fundingSettled = TRUE] \in SessionType
    BY <1>1, TypesAt, SessionFlags
  <2>4. sess' \in [Requests -> SessionType] /\ sess'[r] = [sess[r] EXCEPT !.fundingSettled = TRUE]
    BY <1>1, <2>1, <2>3, SessionEffect
  <2>5. /\ sess'[r].fundingSettled
        /\ Keeps(r, {"fundingSettled"})
    BY <1>1, <2>4, TypesAt DEF SessionType, Keeps, Fields
  <2>6. TypeOK'
    BY <1>1, <1>2, <2>1, <2>2, <2>4 DEF TypeOK
  <2>7. Books(r)'
    BY <1>1, <1>2, <1>4, <2>1, <2>2, <2>5, <1>9, TypesAt DEF Books, Control,
       Ledger, Returnable, TokReturnable, Final, TokFinal, FeeFund, FeeTok,
       EarlyPCs, HoldingPCs, RaisingPCs, FailedPCs, Keeps, Fields
  <2> QED BY <2>6, <2>7, <1>5, ByRequest
<1>10. CASE Delta(r) # 0 /\ sess[r].funding = "subscription" /\ o # "ok"
  <2>1. /\ AdjustSubscription(r, sess[r].sub, Delta(r), o) /\ UNCHANGED wallet
        /\ Note(r, o)
        /\ UNCHANGED sess
        /\ Goto(r, "done")
    BY <1>1, <1>2, <1>3, <1>4, <1>10, TypesAt DEF SettleFunding,
       AdjustUserQuota, AdjustSubscription, Note
  <2>2. /\ pc' \in [Requests -> PCs] /\ pc'[r] = "done"
        /\ faulted' \subseteq Unreliable /\ r \in faulted'
        /\ used' \in [Subs -> Nat] /\ paid' \in [Requests -> Int] /\ paid'[r] \in Int
        /\ o = "err" => paid'[r] = paid[r]
        /\ o # "err" => paid'[r] = paid[r] + Delta(r)
    BY <1>1, <1>4, <1>10, <2>1, TypesAt, GotoEffect, NoteEffect,
       SubscriptionEffect DEF PCs
  <2>3. TypeOK'
    BY <1>1, <1>2, <2>1, <2>2 DEF TypeOK
  <2>4. Books(r)'
    BY <1>1, <1>2, <1>4, <2>1, <2>2, <1>10, TypesAt DEF Books, Control, Ledger,
       Returnable, TokReturnable, Final, TokFinal, FeeFund, FeeTok, EarlyPCs,
       HoldingPCs, RaisingPCs, FailedPCs, Keeps, Fields
  <2> QED BY <2>3, <2>4, <1>5, ByRequest
<1> QED BY <1>6, <1>7, <1>8, <1>9, <1>10, <1>4, <1>1

\* Settle's second step does the same for the token.
LEMMA SettleTokenStep ==
  ASSUME IInv, NEW r \in Requests, SettleToken(r)
  PROVE  IInv'
<1>1. /\ TypeOK /\ Books(r)
      /\ pc[r] = "settleToken"
      /\ Delta(r) \in Int /\ Delta(r) = arg[r] - sess[r].preConsumedQuota
  <2>1. TypeOK /\ Control(r) /\ Books(r)
    BY DEF IInv, LedgerInv, Books
  <2> QED BY <2>1, TypesAt DEF SettleToken, Control, Delta
<1>2. UNCHANGED <<wallet, used, due, active, resets, record, kind, arg, seen,
   rpc, reserves, tries, paid, fee, overLimit>>
  BY DEF SettleToken
<1>3. PICK o \in Outcomes(r) : SettleToken(r)!2!(o)
  BY DEF SettleToken
<1>4. /\ o \in {"ok", "err", "lost"} /\ (o # "ok" => r \in Unreliable)
      /\ (o = "lost" => "lost" \in FaultKinds)
  BY Outcome
<1>5. \A q \in Requests \ {r} : Untouched(q)
  BY <1>1, <1>2, <1>3, <1>4 DEF SettleToken, AdjustTokenQuota, Note, TypeOK,
     Untouched, Goto
<1>6. CASE kind[r].playground
  <2>1. /\ UNCHANGED <<token, tokPaid, faulted>>
        /\ sess' = [sess EXCEPT ![r] = [sess[r] EXCEPT !.settled = TRUE]]
        /\ Goto(r, "done")
    BY <1>1, <1>2, <1>3, <1>4, <1>6, TypesAt DEF SettleToken, AdjustTokenQuota,
       Note
  <2>2. pc' \in [Requests -> PCs] /\ pc'[r] = "done"
    BY <1>1, <1>4, <1>6, <2>1, TypesAt, GotoEffect DEF PCs
  <2>3. [sess[r] EXCEPT !.settled = TRUE] \in SessionType
    BY <1>1, TypesAt, SessionFlags
  <2>4. sess' \in [Requests -> SessionType] /\ sess'[r] = [sess[r] EXCEPT !.settled = TRUE]
    BY <1>1, <2>1, <2>3, SessionEffect
  <2>5. /\ sess'[r].settled
        /\ Keeps(r, {"settled"})
    BY <1>1, <2>4, TypesAt DEF SessionType, Keeps, Fields
  <2>6. TypeOK'
    BY <1>1, <1>2, <2>1, <2>2, <2>4 DEF TypeOK
  <2>7. Books(r)'
    BY <1>1, <1>2, <1>4, <2>1, <2>2, <2>5, <1>6, TypesAt DEF Books, Control,
       Ledger, Returnable, TokReturnable, Final, TokFinal, FeeFund, FeeTok,
       EarlyPCs, HoldingPCs, RaisingPCs, FailedPCs, Keeps, Fields
  <2> QED BY <2>6, <2>7, <1>5, ByRequest
<1>7. CASE ~kind[r].playground
  <2>1. /\ AdjustTokenQuota(r, Delta(r), o) /\ Note(r, o)
        /\ sess' = [sess EXCEPT ![r] = [sess[r] EXCEPT !.settled = TRUE]]
        /\ Goto(r, "done")
    BY <1>1, <1>2, <1>3, <1>4, <1>7, TypesAt DEF SettleToken, AdjustTokenQuota,
       Note
  <2>2. /\ pc' \in [Requests -> PCs] /\ pc'[r] = "done"
        /\ faulted' \subseteq Unreliable
        /\ o = "ok" => faulted' = faulted
        /\ o # "ok" => r \in faulted'
        /\ token' \in Int /\ tokPaid' \in [Requests -> Int] /\ tokPaid'[r] \in Int
        /\ o = "err" => tokPaid'[r] = tokPaid[r]
        /\ o # "err" => tokPaid'[r] = tokPaid[r] + Delta(r)
    BY <1>1, <1>4, <1>7, <2>1, TypesAt, GotoEffect, NoteEffect, TokenEffect DEF
       PCs
  <2>3. [sess[r] EXCEPT !.settled = TRUE] \in SessionType
    BY <1>1, TypesAt, SessionFlags
  <2>4. sess' \in [Requests -> SessionType] /\ sess'[r] = [sess[r] EXCEPT !.settled = TRUE]
    BY <1>1, <2>1, <2>3, SessionEffect
  <2>5. /\ sess'[r].settled
        /\ Keeps(r, {"settled"})
    BY <1>1, <2>4, TypesAt DEF SessionType, Keeps, Fields
  <2>6. TypeOK'
    BY <1>1, <1>2, <2>1, <2>2, <2>4 DEF TypeOK
  <2>7. Books(r)'
    BY <1>1, <1>2, <1>4, <2>1, <2>2, <2>5, <1>7, TypesAt DEF Books, Control,
       Ledger, Returnable, TokReturnable, Final, TokFinal, FeeFund, FeeTok,
       EarlyPCs, HoldingPCs, RaisingPCs, FailedPCs, Keeps, Fields
  <2> QED BY <2>6, <2>7, <1>5, ByRequest
<1> QED BY <1>6, <1>7, <1>4, <1>1, TypesAt

\* Failure starts the refund goroutine if there is anything to return.
LEMMA FailStep ==
  ASSUME IInv, NEW r \in Requests, Fail(r)
  PROVE  IInv'
<1>1. /\ TypeOK /\ Books(r)
      /\ pc[r] = "running"
  BY DEF Fail, IInv, LedgerInv, Books
<1>2. UNCHANGED <<wallet, token, used, due, active, resets, record, kind, arg,
   seen, reserves, tries, paid, tokPaid, fee, faulted, overLimit>>
  BY DEF Fail
<1>3. \A q \in Requests \ {r} : Untouched(q)
  BY <1>1, <1>2 DEF Fail, TypeOK, Untouched, Goto
<1>4. CASE NeedsRefund(r)
  <2>1. /\ sess' = [sess EXCEPT ![r] = [sess[r] EXCEPT !.refunded = TRUE]]
        /\ rpc' = [rpc EXCEPT ![r] = "funding"]
        /\ \E l \in {"failed", "feeFunding"} : Goto(r, l)
    BY <1>1, <1>2, <1>4, TypesAt DEF Fail
  <2>2. /\ pc' \in [Requests -> PCs] /\ pc'[r] \in {"failed", "feeFunding"}
        /\ rpc' \in [Requests -> {"none", "funding", "extra", "token", "finished"}]
        /\ rpc'[r] = "funding"
    BY <1>1, <1>4, <2>1, TypesAt, GotoEffect DEF PCs, TypeOK
  <2>3. [sess[r] EXCEPT !.refunded = TRUE] \in SessionType
    BY <1>1, TypesAt, SessionFlags
  <2>4. sess' \in [Requests -> SessionType] /\ sess'[r] = [sess[r] EXCEPT !.refunded = TRUE]
    BY <1>1, <2>1, <2>3, SessionEffect
  <2>5. /\ sess'[r].refunded
        /\ Keeps(r, {"refunded"})
    BY <1>1, <2>4, TypesAt DEF SessionType, Keeps, Fields
  <2>6. TypeOK'
    BY <1>1, <1>2, <2>1, <2>2, <2>4 DEF TypeOK
  <2>7. Books(r)'
    BY <1>1, <1>2, <2>1, <2>2, <2>5, <1>4, TypesAt, QuotaAssumption DEF Books,
       Control, Ledger, Returnable, TokReturnable, Final, TokFinal, FeeFund,
       FeeTok, EarlyPCs, HoldingPCs, RaisingPCs, FailedPCs, Keeps, Fields
  <2> QED BY <2>6, <2>7, <1>3, ByRequest
<1>5. CASE ~NeedsRefund(r)
  <2>1. /\ UNCHANGED <<sess, rpc>>
        /\ \E l \in {"failed", "feeFunding"} : Goto(r, l)
    BY <1>1, <1>2, <1>5, TypesAt DEF Fail
  <2>2. pc' \in [Requests -> PCs] /\ pc'[r] \in {"failed", "feeFunding"}
    BY <1>1, <1>5, <2>1, TypesAt, GotoEffect DEF PCs
  <2>3. TypeOK'
    BY <1>1, <1>2, <2>1, <2>2 DEF TypeOK
  <2>4. /\ sess[r].tokenConsumed = 0
        /\ sess[r].funding = "subscription" => sess[r].consumed = 0
    BY <1>1, <1>2, <2>1, <2>2, <1>5, TypesAt DEF Books, Control, NeedsRefund,
       HoldingPCs
  <2>5. /\ sess[r].preConsumedQuota = 0
        /\ sess[r].funding = "subscription" => sess[r].extraReserved = 0
        /\ sess[r].funding = "wallet" /\ r \notin faulted => sess[r].consumed = 0
        /\ rpc[r] = "none"
    BY <1>1, <1>2, <2>1, <2>2, <2>4, <1>5, TypesAt DEF Books, Control,
       HoldingPCs, RaisingPCs, FailedPCs
  <2>6. Books(r)'
    BY <1>1, <1>2, <2>1, <2>2, <2>4, <2>5, <1>5, TypesAt DEF Books, Control,
       Ledger, Returnable, TokReturnable, Final, TokFinal, FeeFund, FeeTok,
       EarlyPCs, HoldingPCs, RaisingPCs, FailedPCs, Keeps, Fields
  <2> QED BY <2>3, <2>6, <1>3, ByRequest
<1> QED BY <1>4, <1>5

\* The violation fee is taken from the funding source.
LEMMA FeeFundingStep ==
  ASSUME IInv, NEW r \in Requests, FeeFunding(r)
  PROVE  IInv'
<1>1. /\ TypeOK /\ Books(r)
      /\ pc[r] = "feeFunding"
      /\ sess[r].funding \in {"wallet", "subscription"}
      /\ sess[r].funding = "subscription" => sess[r].sub \in Subs
      /\ FeeQuota \in Int
  <2>1. TypeOK /\ Control(r) /\ Books(r)
    BY DEF IInv, LedgerInv, Books
  <2> QED BY <2>1, TypesAt DEF FeeFunding, Control, FailedPCs
<1>2. UNCHANGED <<token, due, active, resets, record, kind, arg, seen, sess,
   rpc, reserves, tries, tokPaid, overLimit>>
  BY DEF FeeFunding
<1>3. PICK o \in Outcomes(r) : FeeFunding(r)!2!(o)
  BY DEF FeeFunding
<1>4. /\ o \in {"ok", "err", "lost"} /\ (o # "ok" => r \in Unreliable)
      /\ (o = "lost" => "lost" \in FaultKinds)
  BY Outcome
<1>5. \A q \in Requests \ {r} : Untouched(q)
  BY <1>1, <1>2, <1>3, <1>4 DEF FeeFunding, AdjustUserQuota, AdjustSubscription,
     Note, TypeOK, Untouched, Goto
<1>6. CASE sess[r].funding = "subscription" /\ ExceedsTotal(sess[r].sub, FeeQuota)
  <2>1. /\ Note(r, o) /\ UNCHANGED <<wallet, used, paid, fee>>
        /\ Goto(r, "failed")
    BY <1>1, <1>2, <1>3, <1>4, <1>6, TypesAt DEF FeeFunding, AdjustUserQuota,
       AdjustSubscription, Note
  <2>2. /\ pc' \in [Requests -> PCs] /\ pc'[r] = "failed"
        /\ faulted' \subseteq Unreliable
        /\ o = "ok" => faulted' = faulted
        /\ o # "ok" => r \in faulted'
    BY <1>1, <1>4, <1>6, <2>1, TypesAt, GotoEffect, NoteEffect DEF PCs
  <2>3. TypeOK'
    BY <1>1, <1>2, <2>1, <2>2 DEF TypeOK
  <2>4. Books(r)'
    BY <1>1, <1>2, <1>4, <2>1, <2>2, <1>6, TypesAt DEF Books, Control, Ledger,
       Returnable, TokReturnable, Final, TokFinal, FeeFund, FeeTok, EarlyPCs,
       HoldingPCs, RaisingPCs, FailedPCs, Keeps, Fields
  <2> QED BY <2>3, <2>4, <1>5, ByRequest
<1>7. CASE sess[r].funding = "wallet"
  <2>1. /\ AdjustUserQuota(r, FeeQuota, o) /\ Note(r, o) /\ UNCHANGED used
        /\ fee' = IF o = "err" THEN fee ELSE [fee EXCEPT ![r] = "funding"]
        /\ Goto(r, IF o = "ok" THEN "feeToken" ELSE "failed")
    BY <1>1, <1>2, <1>3, <1>4, <1>7, TypesAt DEF FeeFunding, AdjustUserQuota,
       AdjustSubscription, Note
  <2>2. /\ fee' \in [Requests -> {"none", "funding", "both"}]
        /\ fee'[r] = IF o = "err" THEN fee[r] ELSE "funding"
        /\ pc' \in [Requests -> PCs]
        /\ pc'[r] = IF o = "ok" THEN "feeToken" ELSE "failed"
        /\ faulted' \subseteq Unreliable
        /\ o = "ok" => faulted' = faulted
        /\ o # "ok" => r \in faulted'
        /\ wallet' \in Int /\ paid' \in [Requests -> Int] /\ paid'[r] \in Int
        /\ o = "err" => paid'[r] = paid[r]
        /\ o # "err" => paid'[r] = paid[r] + FeeQuota
    BY <1>1, <1>4, <1>7, <2>1, TypesAt, GotoEffect, NoteEffect, WalletEffect DEF
       PCs, TypeOK
  <2>3. TypeOK'
    BY <1>1, <1>2, <2>1, <2>2 DEF TypeOK
  <2>4. Books(r)'
    BY <1>1, <1>2, <1>4, <2>1, <2>2, <1>7, TypesAt DEF Books, Control, Ledger,
       Returnable, TokReturnable, Final, TokFinal, FeeFund, FeeTok, EarlyPCs,
       HoldingPCs, RaisingPCs, FailedPCs, Keeps, Fields
  <2> QED BY <2>3, <2>4, <1>5, ByRequest
<1>8. CASE sess[r].funding = "subscription" /\ ~ExceedsTotal(sess[r].sub, FeeQuota)
  <2>1. /\ AdjustSubscription(r, sess[r].sub, FeeQuota, o) /\ Note(r, o)
        /\ UNCHANGED wallet
        /\ fee' = IF o = "err" THEN fee ELSE [fee EXCEPT ![r] = "funding"]
        /\ Goto(r, IF o = "ok" THEN "feeToken" ELSE "failed")
    BY <1>1, <1>2, <1>3, <1>4, <1>8, TypesAt DEF FeeFunding, AdjustUserQuota,
       AdjustSubscription, Note
  <2>2. /\ fee' \in [Requests -> {"none", "funding", "both"}]
        /\ fee'[r] = IF o = "err" THEN fee[r] ELSE "funding"
        /\ pc' \in [Requests -> PCs]
        /\ pc'[r] = IF o = "ok" THEN "feeToken" ELSE "failed"
        /\ faulted' \subseteq Unreliable
        /\ o = "ok" => faulted' = faulted
        /\ o # "ok" => r \in faulted'
        /\ used' \in [Subs -> Nat] /\ paid' \in [Requests -> Int] /\ paid'[r] \in Int
        /\ o = "err" => paid'[r] = paid[r]
        /\ o # "err" => paid'[r] = paid[r] + FeeQuota
    BY <1>1, <1>4, <1>8, <2>1, TypesAt, GotoEffect, NoteEffect,
       SubscriptionEffect DEF PCs, TypeOK
  <2>3. TypeOK'
    BY <1>1, <1>2, <2>1, <2>2 DEF TypeOK
  <2>4. Books(r)'
    BY <1>1, <1>2, <1>4, <2>1, <2>2, <1>8, TypesAt DEF Books, Control, Ledger,
       Returnable, TokReturnable, Final, TokFinal, FeeFund, FeeTok, EarlyPCs,
       HoldingPCs, RaisingPCs, FailedPCs, Keeps, Fields
  <2> QED BY <2>3, <2>4, <1>5, ByRequest
<1> QED BY <1>6, <1>7, <1>8, <1>4, <1>1

\* And from the token.
LEMMA FeeTokenStep ==
  ASSUME IInv, NEW r \in Requests, FeeToken(r)
  PROVE  IInv'
<1>1. /\ TypeOK /\ Books(r)
      /\ pc[r] = "feeToken"
      /\ FeeQuota \in Int
  <2>1. TypeOK /\ Control(r) /\ Books(r)
    BY DEF IInv, LedgerInv, Books
  <2> QED BY <2>1, TypesAt DEF FeeToken, Control
<1>2. UNCHANGED <<wallet, used, due, active, resets, record, kind, arg, seen,
   sess, rpc, reserves, tries, paid, overLimit>>
  BY DEF FeeToken
<1>3. PICK o \in Outcomes(r) : FeeToken(r)!2!(o)
  BY DEF FeeToken
<1>4. /\ o \in {"ok", "err", "lost"} /\ (o # "ok" => r \in Unreliable)
      /\ (o = "lost" => "lost" \in FaultKinds)
  BY Outcome
<1>5. \A q \in Requests \ {r} : Untouched(q)
  BY <1>1, <1>2, <1>3, <1>4 DEF FeeToken, AdjustTokenQuota, Note, TypeOK,
     Untouched, Goto
<1>6. CASE kind[r].playground
  <2>1. /\ UNCHANGED <<token, tokPaid, faulted, fee>>
        /\ Goto(r, "failed")
    BY <1>1, <1>2, <1>3, <1>4, <1>6, TypesAt DEF FeeToken, AdjustTokenQuota,
       Note
  <2>2. pc' \in [Requests -> PCs] /\ pc'[r] = "failed"
    BY <1>1, <1>4, <1>6, <2>1, TypesAt, GotoEffect DEF PCs
  <2>3. TypeOK'
    BY <1>1, <1>2, <2>1, <2>2 DEF TypeOK
  <2>4. Books(r)'
    BY <1>1, <1>2, <1>4, <2>1, <2>2, <1>6, TypesAt DEF Books, Control, Ledger,
       Returnable, TokReturnable, Final, TokFinal, FeeFund, FeeTok, EarlyPCs,
       HoldingPCs, RaisingPCs, FailedPCs, Keeps, Fields
  <2> QED BY <2>3, <2>4, <1>5, ByRequest
<1>7. CASE ~kind[r].playground
  <2>1. /\ AdjustTokenQuota(r, FeeQuota, o) /\ Note(r, o)
        /\ fee' = IF o = "err" THEN fee ELSE [fee EXCEPT ![r] = "both"]
        /\ Goto(r, "failed")
    BY <1>1, <1>2, <1>3, <1>4, <1>7, TypesAt DEF FeeToken, AdjustTokenQuota,
       Note
  <2>2. /\ fee' \in [Requests -> {"none", "funding", "both"}]
        /\ fee'[r] = IF o = "err" THEN fee[r] ELSE "both"
        /\ pc' \in [Requests -> PCs] /\ pc'[r] = "failed"
        /\ faulted' \subseteq Unreliable
        /\ o = "ok" => faulted' = faulted
        /\ o # "ok" => r \in faulted'
        /\ token' \in Int /\ tokPaid' \in [Requests -> Int] /\ tokPaid'[r] \in Int
        /\ o = "err" => tokPaid'[r] = tokPaid[r]
        /\ o # "err" => tokPaid'[r] = tokPaid[r] + FeeQuota
    BY <1>1, <1>4, <1>7, <2>1, TypesAt, GotoEffect, NoteEffect, TokenEffect DEF
       PCs, TypeOK
  <2>3. TypeOK'
    BY <1>1, <1>2, <2>1, <2>2 DEF TypeOK
  <2>4. Books(r)'
    BY <1>1, <1>2, <1>4, <2>1, <2>2, <1>7, TypesAt DEF Books, Control, Ledger,
       Returnable, TokReturnable, Final, TokFinal, FeeFund, FeeTok, EarlyPCs,
       HoldingPCs, RaisingPCs, FailedPCs, Keeps, Fields
  <2> QED BY <2>3, <2>4, <1>5, ByRequest
<1> QED BY <1>6, <1>7, <1>4, <1>1, TypesAt

\* The wallet is refunded once.
LEMMA RefundWalletStep ==
  ASSUME IInv, NEW r \in Requests, RefundWallet(r)
  PROVE  IInv'
<1>1. /\ TypeOK /\ Books(r)
      /\ rpc[r] = "funding" /\ sess[r].funding = "wallet"
      /\ -sess[r].consumed \in Int
  <2>1. TypeOK /\ Control(r) /\ Books(r)
    BY DEF IInv, LedgerInv, Books
  <2> QED BY <2>1, TypesAt DEF RefundWallet, Control
<1>2. UNCHANGED <<token, used, due, active, resets, record, kind, pc, arg, seen,
   sess, reserves, tries, tokPaid, fee, overLimit>>
  BY DEF RefundWallet
<1>3. PICK o \in Outcomes(r) : RefundWallet(r)!2!(o)
  BY DEF RefundWallet
<1>4. /\ o \in {"ok", "err", "lost"} /\ (o # "ok" => r \in Unreliable)
      /\ (o = "lost" => "lost" \in FaultKinds)
  BY Outcome
<1>5. \A q \in Requests \ {r} : Untouched(q)
  BY <1>1, <1>2, <1>3, <1>4 DEF RefundWallet, AdjustUserQuota, Note, TypeOK,
     Untouched, Goto
<1>6. CASE sess[r].consumed <= 0
  <2>1. /\ UNCHANGED <<wallet, paid, faulted>>
        /\ rpc' = [rpc EXCEPT ![r] = "token"]
    BY <1>1, <1>2, <1>3, <1>4, <1>6, TypesAt DEF RefundWallet, AdjustUserQuota,
       Note
  <2>2. /\ rpc' \in [Requests -> {"none", "funding", "extra", "token", "finished"}]
        /\ rpc'[r] = "token"
    BY <1>1, <1>4, <1>6, <2>1, TypesAt DEF PCs, TypeOK
  <2>3. TypeOK'
    BY <1>1, <1>2, <2>1, <2>2 DEF TypeOK
  <2>4. Books(r)'
    BY <1>1, <1>2, <1>4, <2>1, <2>2, <1>6, TypesAt DEF Books, Control, Ledger,
       Returnable, TokReturnable, Final, TokFinal, FeeFund, FeeTok, EarlyPCs,
       HoldingPCs, RaisingPCs, FailedPCs, Keeps, Fields
  <2> QED BY <2>3, <2>4, <1>5, ByRequest
<1>7. CASE ~(sess[r].consumed <= 0)
  <2>1. /\ AdjustUserQuota(r, -sess[r].consumed, o) /\ Note(r, o)
        /\ rpc' = [rpc EXCEPT ![r] = "token"]
    BY <1>1, <1>2, <1>3, <1>4, <1>7, TypesAt DEF RefundWallet, AdjustUserQuota,
       Note
  <2>2. /\ rpc' \in [Requests -> {"none", "funding", "extra", "token", "finished"}]
        /\ rpc'[r] = "token"
        /\ faulted' \subseteq Unreliable
        /\ o = "ok" => faulted' = faulted
        /\ o # "ok" => r \in faulted'
        /\ wallet' \in Int /\ paid' \in [Requests -> Int] /\ paid'[r] \in Int
        /\ o = "err" => paid'[r] = paid[r]
        /\ o # "err" => paid'[r] = paid[r] - sess[r].consumed
    BY <1>1, <1>4, <1>7, <2>1, TypesAt, NoteEffect, WalletEffect DEF PCs, TypeOK
  <2>3. TypeOK'
    BY <1>1, <1>2, <2>1, <2>2 DEF TypeOK
  <2>4. Books(r)'
    BY <1>1, <1>2, <1>4, <2>1, <2>2, <1>7, TypesAt DEF Books, Control, Ledger,
       Returnable, TokReturnable, Final, TokFinal, FeeFund, FeeTok, EarlyPCs,
       HoldingPCs, RaisingPCs, FailedPCs, Keeps, Fields
  <2> QED BY <2>3, <2>4, <1>5, ByRequest
<1> QED BY <1>6, <1>7, <1>4, <1>1, TypesAt

\* A subscription is refunded until it works or the attempts are used up.
LEMMA RefundSubscriptionStep ==
  ASSUME IInv, NEW r \in Requests, RefundSubscription(r)
  PROVE  IInv'
<1>1. /\ TypeOK /\ Books(r)
      /\ rpc[r] = "funding" /\ sess[r].funding = "subscription"
      /\ sess[r].sub \in Subs /\ -sess[r].consumed \in Int
      /\ tries[r] < RefundAttempts
  <2>1. TypeOK /\ Control(r) /\ Books(r)
    BY DEF IInv, LedgerInv, Books
  <2> QED BY <2>1, TypesAt DEF RefundSubscription, Control, FailedPCs,
     HoldingPCs
<1>2. UNCHANGED <<wallet, token, due, active, resets, kind, pc, arg, seen, sess,
   reserves, tokPaid, fee>>
  BY DEF RefundSubscription
<1>3. PICK o \in Outcomes(r) : RefundSubscription(r)!2!(o)
  BY DEF RefundSubscription
<1>4. /\ o \in {"ok", "err", "lost"} /\ (o # "ok" => r \in Unreliable)
      /\ (o = "lost" => "lost" \in FaultKinds)
  BY Outcome
<1>5. \A q \in Requests \ {r} : Untouched(q)
  BY <1>1, <1>2, <1>3, <1>4 DEF RefundSubscription, AdjustSubscription, Note,
     RetryOrGiveUp, TypeOK, Untouched, Goto
<1>6. CASE ~RefundDue(r)
  <2>1. /\ UNCHANGED <<used, paid, record, overLimit>>
        /\ Note(r, o)
        /\ RetryOrGiveUp(r, o = "ok")
    BY <1>1, <1>2, <1>3, <1>4, <1>6, TypesAt DEF RefundSubscription,
       AdjustSubscription, Note, RetryOrGiveUp
  <2>2. /\ faulted' \subseteq Unreliable
        /\ o = "ok" => faulted' = faulted
        /\ o # "ok" => r \in faulted'
        /\ tries' \in [Requests -> 0..RefundAttempts] /\ tries'[r] \in Nat
        /\ rpc' \in [Requests -> {"none", "funding", "extra", "token", "finished"}]
        /\ rpc'[r] = "extra" \/ (rpc'[r] = "funding" /\ tries'[r] < RefundAttempts)
    BY <1>1, <1>4, <1>6, <2>1, TypesAt, NoteEffect, RetryEffect DEF PCs
  <2>3. TypeOK'
    BY <1>1, <1>2, <2>1, <2>2 DEF TypeOK
  <2>4. Books(r)'
    BY <1>1, <1>2, <1>4, <2>1, <2>2, <1>6, TypesAt DEF Books, Control, Ledger,
       Returnable, TokReturnable, Final, TokFinal, FeeFund, FeeTok, EarlyPCs,
       HoldingPCs, RaisingPCs, FailedPCs, Keeps, Fields, RefundDue
  <2> QED BY <2>3, <2>4, <1>5, ByRequest
<1>7. CASE RefundDue(r) /\ ExceedsTotal(sess[r].sub, -sess[r].consumed)
  <2>1. /\ UNCHANGED <<used, paid, record>>
        /\ Note(r, o)
        /\ overLimit' = overLimit \cup {r}
        /\ RetryOrGiveUp(r, FALSE)
    BY <1>1, <1>2, <1>3, <1>4, <1>7, TypesAt DEF RefundSubscription,
       AdjustSubscription, Note, RetryOrGiveUp
  <2>2. /\ faulted' \subseteq Unreliable
        /\ o = "ok" => faulted' = faulted
        /\ o # "ok" => r \in faulted'
        /\ tries' \in [Requests -> 0..RefundAttempts] /\ tries'[r] \in Nat
        /\ rpc' \in [Requests -> {"none", "funding", "extra", "token", "finished"}]
        /\ rpc'[r] = "extra" \/ (rpc'[r] = "funding" /\ tries'[r] < RefundAttempts)
    BY <1>1, <1>4, <1>7, <2>1, TypesAt, NoteEffect, RetryEffect DEF PCs
  <2>3. TypeOK'
    BY <1>1, <1>2, <2>1, <2>2 DEF TypeOK
  <2>4. /\ Returnable(r) = sess[r].consumed + sess[r].extraReserved
        /\ pc[r] \in FailedPCs
    BY <1>1, <1>2, <1>4, <2>1, <2>2, <1>7, TypesAt DEF Books, Control,
       Returnable, RefundDue, FailedPCs, HoldingPCs, RaisingPCs
  <2>5. Returnable(r)' = IF rpc'[r] = "funding" /\ record'[r] = "consumed"
                           THEN sess[r].consumed + sess[r].extraReserved ELSE sess[r].extraReserved
    BY <1>1, <1>2, <1>4, <2>1, <2>2, <2>4, <1>7, TypesAt DEF Returnable,
       FailedPCs, HoldingPCs, RaisingPCs
  <2>6. /\ TokReturnable(r)' = TokReturnable(r)
        /\ Final(r)' = Final(r) /\ Final(r) \in Int
        /\ TokFinal(r)' = TokFinal(r)
    BY <1>1, <1>2, <1>4, <2>1, <2>2, <2>4, <2>5, <1>7, TypesAt DEF
       TokReturnable, Final, TokFinal, FeeFund, FeeTok
  <2>7. Books(r)'
    <3>1. Control(r)'
      BY <1>1, <1>2, <1>4, <2>1, <2>2, <2>4, <2>5, <2>6, <1>7, TypesAt DEF
         Books, Control, Ledger, Returnable, TokReturnable, Final, TokFinal,
         FeeFund, FeeTok, EarlyPCs, HoldingPCs, RaisingPCs, FailedPCs, Keeps,
         Fields, RefundDue
    <3>2. Ledger(r)'
      BY <1>1, <1>2, <1>4, <2>1, <2>2, <2>4, <2>5, <2>6, <1>7, TypesAt DEF
         Books, Ledger, RefundDue
    <3> QED BY <3>1, <3>2 DEF Books
  <2> QED BY <2>3, <2>7, <1>5, ByRequest
<1>8. CASE RefundDue(r) /\ ~ExceedsTotal(sess[r].sub, -sess[r].consumed)
  <2>1. /\ AdjustSubscription(r, sess[r].sub, -sess[r].consumed, o) /\ Note(r, o)
        /\ record' = IF o = "err" THEN record ELSE [record EXCEPT ![r] = "refunded"]
        /\ UNCHANGED overLimit
        /\ RetryOrGiveUp(r, o = "ok")
    BY <1>1, <1>2, <1>3, <1>4, <1>8, TypesAt DEF RefundSubscription,
       AdjustSubscription, Note, RetryOrGiveUp
  <2>a. /\ faulted' \subseteq Unreliable
        /\ o = "ok" => faulted' = faulted
        /\ o # "ok" => r \in faulted'
    BY <1>1, <2>1, NoteEffect
  <2>b. /\ tries' \in [Requests -> 0..RefundAttempts] /\ tries'[r] \in Nat
        /\ rpc' \in [Requests -> {"none", "funding", "extra", "token", "finished"}]
        /\ rpc'[r] = "extra" \/ (rpc'[r] = "funding" /\ tries'[r] < RefundAttempts)
    BY <1>1, <1>4, <1>8, <2>1, TypesAt, RetryEffect
  <2>c. sess[r].sub \in Subs /\ -sess[r].consumed \in Int /\ paid[r] \in Int
    BY <1>1, <1>4, <1>8, TypesAt
  <2>d. /\ used' \in [Subs -> Nat] /\ paid' \in [Requests -> Int] /\ paid'[r] \in Int
        /\ o = "err" => paid'[r] = paid[r]
        /\ o # "err" => paid'[r] = paid[r] - sess[r].consumed
    BY <1>1, <2>1, <2>c, TypesAt, SubscriptionEffect
  <2>e. /\ record' \in [Requests -> {"none", "consumed", "refunded"}]
        /\ record'[r] = IF o = "err" THEN record[r] ELSE "refunded"
    BY <1>1, <2>1 DEF TypeOK
  <2>2. /\ faulted' \subseteq Unreliable
        /\ o = "ok" => faulted' = faulted
        /\ o # "ok" => r \in faulted'
        /\ tries' \in [Requests -> 0..RefundAttempts] /\ tries'[r] \in Nat
        /\ rpc' \in [Requests -> {"none", "funding", "extra", "token", "finished"}]
        /\ rpc'[r] = "extra" \/ (rpc'[r] = "funding" /\ tries'[r] < RefundAttempts)
        /\ used' \in [Subs -> Nat] /\ paid' \in [Requests -> Int] /\ paid'[r] \in Int
        /\ o = "err" => paid'[r] = paid[r]
        /\ o # "err" => paid'[r] = paid[r] - sess[r].consumed
        /\ record' \in [Requests -> {"none", "consumed", "refunded"}]
        /\ record'[r] = IF o = "err" THEN record[r] ELSE "refunded"
    BY <2>a, <2>b, <2>d, <2>e
  <2>3. TypeOK'
    BY <1>1, <1>2, <2>1, <2>2 DEF TypeOK
  <2>4. /\ Returnable(r) = sess[r].consumed + sess[r].extraReserved
        /\ pc[r] \in FailedPCs
    BY <1>1, <1>2, <1>4, <2>1, <2>2, <1>8, TypesAt DEF Books, Control,
       Returnable, RefundDue, FailedPCs, HoldingPCs, RaisingPCs
  <2>5. Returnable(r)' = IF rpc'[r] = "funding" /\ record'[r] = "consumed"
                           THEN sess[r].consumed + sess[r].extraReserved ELSE sess[r].extraReserved
    BY <1>1, <1>2, <1>4, <2>1, <2>2, <2>4, <1>8, TypesAt DEF Returnable,
       FailedPCs, HoldingPCs, RaisingPCs
  <2>6. /\ TokReturnable(r)' = TokReturnable(r)
        /\ Final(r)' = Final(r) /\ Final(r) \in Int
        /\ TokFinal(r)' = TokFinal(r)
    BY <1>1, <1>2, <1>4, <2>1, <2>2, <2>4, <2>5, <1>8, TypesAt DEF
       TokReturnable, Final, TokFinal, FeeFund, FeeTok
  <2>7. Books(r)'
    <3>1. Control(r)'
      BY <1>1, <1>2, <1>4, <2>1, <2>2, <2>4, <2>5, <2>6, <1>8, TypesAt DEF
         Books, Control, Ledger, Returnable, TokReturnable, Final, TokFinal,
         FeeFund, FeeTok, EarlyPCs, HoldingPCs, RaisingPCs, FailedPCs, Keeps,
         Fields, RefundDue
    <3>2. Ledger(r)'
      BY <1>1, <1>2, <1>4, <2>1, <2>2, <2>4, <2>5, <2>6, <1>8, TypesAt DEF
         Books, Ledger, RefundDue
    <3> QED BY <3>1, <3>2 DEF Books
  <2> QED BY <2>3, <2>7, <1>5, ByRequest
<1> QED BY <1>6, <1>7, <1>8, <1>4

\* What Reserve added is returned separately.
LEMMA RefundExtraStep ==
  ASSUME IInv, NEW r \in Requests, RefundExtra(r)
  PROVE  IInv'
<1>1. /\ TypeOK /\ Books(r)
      /\ rpc[r] = "extra" /\ sess[r].funding = "subscription"
      /\ sess[r].sub \in Subs /\ -sess[r].extraReserved \in Int
  <2>1. TypeOK /\ Control(r) /\ Books(r)
    BY DEF IInv, LedgerInv, Books
  <2> QED BY <2>1, TypesAt DEF RefundExtra, Control, FailedPCs, HoldingPCs
<1>2. UNCHANGED <<wallet, token, due, active, resets, record, kind, pc, arg,
   seen, sess, reserves, tries, tokPaid, fee>>
  BY DEF RefundExtra
<1>3. PICK o \in Outcomes(r) : RefundExtra(r)!2!(o)
  BY DEF RefundExtra
<1>4. /\ o \in {"ok", "err", "lost"} /\ (o # "ok" => r \in Unreliable)
      /\ (o = "lost" => "lost" \in FaultKinds)
  BY Outcome
<1>5. \A q \in Requests \ {r} : Untouched(q)
  BY <1>1, <1>2, <1>3, <1>4 DEF RefundExtra, AdjustSubscription, Note, TypeOK,
     Untouched, Goto
<1>6. CASE sess[r].extraReserved = 0
  <2>1. /\ UNCHANGED <<used, paid, faulted, overLimit>>
        /\ rpc' = [rpc EXCEPT ![r] = "token"]
    BY <1>1, <1>2, <1>3, <1>4, <1>6, TypesAt DEF RefundExtra,
       AdjustSubscription, Note
  <2>2. /\ rpc' \in [Requests -> {"none", "funding", "extra", "token", "finished"}]
        /\ rpc'[r] = "token"
    BY <1>1, <1>4, <1>6, <2>1, TypesAt DEF PCs, TypeOK
  <2>3. TypeOK'
    BY <1>1, <1>2, <2>1, <2>2 DEF TypeOK
  <2>4. Books(r)'
    BY <1>1, <1>2, <1>4, <2>1, <2>2, <1>6, TypesAt DEF Books, Control, Ledger,
       Returnable, TokReturnable, Final, TokFinal, FeeFund, FeeTok, EarlyPCs,
       HoldingPCs, RaisingPCs, FailedPCs, Keeps, Fields
  <2> QED BY <2>3, <2>4, <1>5, ByRequest
<1>7. CASE sess[r].extraReserved # 0 /\ ExceedsTotal(sess[r].sub, -sess[r].extraReserved)
  <2>1. /\ UNCHANGED <<used, paid, faulted>>
        /\ overLimit' = overLimit \cup {r}
        /\ rpc' = [rpc EXCEPT ![r] = "token"]
    BY <1>1, <1>2, <1>3, <1>4, <1>7, TypesAt DEF RefundExtra,
       AdjustSubscription, Note
  <2>2. /\ rpc' \in [Requests -> {"none", "funding", "extra", "token", "finished"}]
        /\ rpc'[r] = "token"
    BY <1>1, <1>4, <1>7, <2>1, TypesAt DEF PCs, TypeOK
  <2>3. TypeOK'
    BY <1>1, <1>2, <2>1, <2>2 DEF TypeOK
  <2>4. Books(r)'
    BY <1>1, <1>2, <1>4, <2>1, <2>2, <1>7, TypesAt DEF Books, Control, Ledger,
       Returnable, TokReturnable, Final, TokFinal, FeeFund, FeeTok, EarlyPCs,
       HoldingPCs, RaisingPCs, FailedPCs, Keeps, Fields
  <2> QED BY <2>3, <2>4, <1>5, ByRequest
<1>8. CASE sess[r].extraReserved # 0 /\ ~ExceedsTotal(sess[r].sub, -sess[r].extraReserved)
  <2>1. /\ AdjustSubscription(r, sess[r].sub, -sess[r].extraReserved, o) /\ Note(r, o)
        /\ UNCHANGED overLimit
        /\ rpc' = [rpc EXCEPT ![r] = "token"]
    BY <1>1, <1>2, <1>3, <1>4, <1>8, TypesAt DEF RefundExtra,
       AdjustSubscription, Note
  <2>2. /\ rpc' \in [Requests -> {"none", "funding", "extra", "token", "finished"}]
        /\ rpc'[r] = "token"
        /\ faulted' \subseteq Unreliable
        /\ o = "ok" => faulted' = faulted
        /\ o # "ok" => r \in faulted'
        /\ used' \in [Subs -> Nat] /\ paid' \in [Requests -> Int] /\ paid'[r] \in Int
        /\ o = "err" => paid'[r] = paid[r]
        /\ o # "err" => paid'[r] = paid[r] - sess[r].extraReserved
    BY <1>1, <1>4, <1>8, <2>1, TypesAt, NoteEffect, SubscriptionEffect DEF PCs,
       TypeOK
  <2>3. TypeOK'
    BY <1>1, <1>2, <2>1, <2>2 DEF TypeOK
  <2>4. Books(r)'
    BY <1>1, <1>2, <1>4, <2>1, <2>2, <1>8, TypesAt DEF Books, Control, Ledger,
       Returnable, TokReturnable, Final, TokFinal, FeeFund, FeeTok, EarlyPCs,
       HoldingPCs, RaisingPCs, FailedPCs, Keeps, Fields
  <2> QED BY <2>3, <2>4, <1>5, ByRequest
<1> QED BY <1>6, <1>7, <1>8, <1>4

\* The token gets its part back.
LEMMA RefundTokenStep ==
  ASSUME IInv, NEW r \in Requests, RefundToken(r)
  PROVE  IInv'
<1>1. /\ TypeOK /\ Books(r)
      /\ rpc[r] = "token"
      /\ -sess[r].tokenConsumed \in Int
  <2>1. TypeOK /\ Control(r) /\ Books(r)
    BY DEF IInv, LedgerInv, Books
  <2> QED BY <2>1, TypesAt DEF RefundToken, Control
<1>2. UNCHANGED <<wallet, used, due, active, resets, record, kind, pc, arg,
   seen, sess, reserves, tries, paid, fee, overLimit>>
  BY DEF RefundToken
<1>3. PICK o \in Outcomes(r) : RefundToken(r)!2!(o)
  BY DEF RefundToken
<1>4. /\ o \in {"ok", "err", "lost"} /\ (o # "ok" => r \in Unreliable)
      /\ (o = "lost" => "lost" \in FaultKinds)
  BY Outcome
<1>5. \A q \in Requests \ {r} : Untouched(q)
  BY <1>1, <1>2, <1>3, <1>4 DEF RefundToken, AdjustTokenQuota, Note, TypeOK,
     Untouched, Goto
<1>6. CASE sess[r].tokenConsumed > 0 /\ ~kind[r].playground
  <2>1. /\ AdjustTokenQuota(r, -sess[r].tokenConsumed, o) /\ Note(r, o)
        /\ rpc' = [rpc EXCEPT ![r] = "finished"]
    BY <1>1, <1>2, <1>3, <1>4, <1>6, TypesAt DEF RefundToken, AdjustTokenQuota,
       Note
  <2>2. /\ rpc' \in [Requests -> {"none", "funding", "extra", "token", "finished"}]
        /\ rpc'[r] = "finished"
        /\ faulted' \subseteq Unreliable
        /\ o = "ok" => faulted' = faulted
        /\ o # "ok" => r \in faulted'
        /\ token' \in Int /\ tokPaid' \in [Requests -> Int] /\ tokPaid'[r] \in Int
        /\ o = "err" => tokPaid'[r] = tokPaid[r]
        /\ o # "err" => tokPaid'[r] = tokPaid[r] - sess[r].tokenConsumed
    BY <1>1, <1>4, <1>6, <2>1, TypesAt, NoteEffect, TokenEffect DEF PCs, TypeOK
  <2>3. TypeOK'
    BY <1>1, <1>2, <2>1, <2>2 DEF TypeOK
  <2>4. Books(r)'
    BY <1>1, <1>2, <1>4, <2>1, <2>2, <1>6, TypesAt DEF Books, Control, Ledger,
       Returnable, TokReturnable, Final, TokFinal, FeeFund, FeeTok, EarlyPCs,
       HoldingPCs, RaisingPCs, FailedPCs, Keeps, Fields
  <2> QED BY <2>3, <2>4, <1>5, ByRequest
<1>7. CASE ~(sess[r].tokenConsumed > 0 /\ ~kind[r].playground)
  <2>1. /\ UNCHANGED <<token, tokPaid, faulted>>
        /\ rpc' = [rpc EXCEPT ![r] = "finished"]
    BY <1>1, <1>2, <1>3, <1>4, <1>7, TypesAt DEF RefundToken, AdjustTokenQuota,
       Note
  <2>2. /\ rpc' \in [Requests -> {"none", "funding", "extra", "token", "finished"}]
        /\ rpc'[r] = "finished"
    BY <1>1, <1>4, <1>7, <2>1, TypesAt DEF PCs, TypeOK
  <2>3. TypeOK'
    BY <1>1, <1>2, <2>1, <2>2 DEF TypeOK
  <2>4. Books(r)'
    BY <1>1, <1>2, <1>4, <2>1, <2>2, <1>7, TypesAt DEF Books, Control, Ledger,
       Returnable, TokReturnable, Final, TokFinal, FeeFund, FeeTok, EarlyPCs,
       HoldingPCs, RaisingPCs, FailedPCs, Keeps, Fields
  <2> QED BY <2>3, <2>4, <1>5, ByRequest
<1> QED BY <1>6, <1>7, <1>4, <1>1, TypesAt

\* Time touches no request.
LEMMA ClockStep ==
  ASSUME IInv, NEW s \in Subs, Clock(s)
  PROVE  IInv'
<1>1. TypeOK
  BY DEF IInv
<1>2. \A q \in Requests : Untouched(q)
  BY <1>1 DEF Clock, PeriodEnds, ResetDue, Expire, Untouched
<1>3. LedgerInv'
  BY <1>2, Frame DEF IInv, LedgerInv, Books
<1>4. TypeOK'
  <2>1. CASE PeriodEnds(s)
    BY <1>1, <2>1, QuotaAssumption DEF TypeOK, PeriodEnds
  <2>2. CASE ResetDue(s)
    BY <1>1, <2>2 DEF TypeOK, ResetDue
  <2>3. CASE Expire(s)
    BY <1>1, <2>3, QuotaAssumption DEF TypeOK, Expire
  <2> QED BY <2>1, <2>2, <2>3 DEF Clock
<1> QED BY <1>3, <1>4 DEF IInv
-----------------------------------------------------------------------------
(***************************************************************************)
(* The inductive invariant and what follows from it.                       *)
(***************************************************************************)
\* No request holds anything before it arrives.
LEMMA InitInv ==
  ASSUME Init
  PROVE  IInv
<1>1. NewSession("none", FALSE) \in SessionType
  BY DEF NewSession, SessionType, NoSub
<1>2. TypeOK
  <2>1. /\ wallet \in Int /\ token \in Int /\ resets \in 0..MaxResets
        /\ faulted \subseteq Unreliable /\ overLimit \subseteq Requests /\ active \subseteq Subs
    BY QuotaAssumption DEF Init
  <2>2. used \in [Subs -> Nat] /\ due \in [Subs -> BOOLEAN]
    BY DEF Init
  <2>3. /\ record \in [Requests -> {"none", "consumed", "refunded"}]
        /\ pc \in [Requests -> PCs]
        /\ rpc \in [Requests -> {"none", "funding", "extra", "token", "finished"}]
        /\ fee \in [Requests -> {"none", "funding", "both"}]
    BY DEF Init, PCs
  <2>4. /\ arg \in [Requests -> Nat] /\ seen \in [Requests -> Int]
        /\ reserves \in [Requests -> 0..MaxReserves] /\ tries \in [Requests -> 0..RefundAttempts]
        /\ paid \in [Requests -> Int] /\ tokPaid \in [Requests -> Int]
    BY QuotaAssumption DEF Init
  <2>5. sess \in [Requests -> SessionType]
    BY <1>1 DEF Init
  <2> QED BY <2>1, <2>2, <2>3, <2>4, <2>5 DEF TypeOK, Init
<1>3. LedgerInv
  <2> SUFFICES ASSUME NEW r \in Requests PROVE Books(r)
    BY DEF LedgerInv, Books
  <2>1. /\ sess[r] = NewSession("none", FALSE) /\ pc[r] = "idle" /\ rpc[r] = "none"
        /\ tries[r] = 0 /\ fee[r] = "none" /\ record[r] = "none" /\ arg[r] = 0
        /\ paid[r] = 0 /\ tokPaid[r] = 0
    BY DEF Init
  <2>2. /\ sess[r].consumed = 0 /\ sess[r].preConsumedQuota = 0
        /\ sess[r].extraReserved = 0 /\ sess[r].tokenConsumed = 0
        /\ ~sess[r].settled /\ ~sess[r].refunded /\ ~sess[r].fundingSettled
    BY <2>1 DEF NewSession
  <2>3. Control(r)
    BY <2>1, <2>2 DEF Control, EarlyPCs, HoldingPCs, RaisingPCs, FailedPCs
  <2>4. Returnable(r) = 0 /\ TokReturnable(r) = 0 /\ Final(r) = 0 /\ TokFinal(r) = 0
    BY <2>1, <2>2 DEF Returnable, TokReturnable, Final, TokFinal, FeeFund, FeeTok,
       HoldingPCs, RaisingPCs
  <2> QED BY <2>1, <2>3, <2>4 DEF Books, Ledger
<1> QED BY <1>2, <1>3 DEF IInv

\* Every step keeps the books.
LEMMA NextInv ==
  ASSUME ReserveAcked, IInv, [Next]_vars
  PROVE  IInv'
<1>1. ASSUME NEW r \in Requests, RequestStep(r)
      PROVE  IInv'
  <2>1. CASE AdmissionStep(r) \/ QueryFails(r)
    BY <2>1, ArriveStep, SkipPreConsumeStep, QueryFailsStep, CheckSubscriptionStep, TryWalletStep,
       TrySubscriptionStep, CheckTokenStep, PreConsumeTokenStep, PreConsumeWalletStep,
       PreConsumeSubscriptionStep, RollbackTokenStep, CheckOverflowStep
       DEF AdmissionStep
  <2>2. CASE StartReserve(r) \/ ReserveStep(r)
    BY <2>2, StartReserveStep, ReserveFundingStep, ReserveTokenCheckStep,
       ReserveTokenStep, RollbackReserveStep DEF ReserveStep
  <2>3. CASE FinishStep(r)
    BY <2>3, SucceedStep, FailStep, SettleFundingStep, SettleTokenStep,
       FeeFundingStep, FeeTokenStep DEF FinishStep
  <2> QED BY <1>1, <2>1, <2>2, <2>3 DEF RequestStep
<1>2. ASSUME NEW r \in Requests, RefundStep(r)
      PROVE  IInv'
  BY <1>2, RefundWalletStep, RefundSubscriptionStep, RefundExtraStep, RefundTokenStep
     DEF RefundStep
<1>3. ASSUME UNCHANGED vars
      PROVE  IInv'
  <2>1. TypeOK'
    BY <1>3 DEF IInv, TypeOK, vars
  <2>2. \A q \in Requests : Untouched(q)
    BY <1>3 DEF Untouched, vars
  <2>3. LedgerInv'
    BY <2>2, Frame DEF IInv, LedgerInv, Books
  <2> QED BY <2>1, <2>3 DEF IInv
<1> QED BY <1>1, <1>2, <1>3, ClockStep DEF Next

\* In every reachable state, whatever the constants: every variable has its type,
\* and what a billing session would return is covered by what it took.
THEOREM LedgerCorrect == ReserveAcked => (Spec => [](TypeOK /\ LedgerInv))
<1> SUFFICES ASSUME ReserveAcked PROVE Spec => [](TypeOK /\ LedgerInv)
  OBVIOUS
<1>1. Init => IInv
  BY InitInv
<1>2. IInv /\ [Next]_vars => IInv'
  BY NextInv
<1>3. IInv => TypeOK /\ LedgerInv
  BY DEF IInv
<1> QED BY <1>1, <1>2, <1>3, PTL DEF Spec

\* A request that met no fault pays its actual quota exactly once.
THEOREM SettledBooksCorrect == ReserveAcked => (Spec => []SettledBooks)
<1>1. TypeOK /\ LedgerInv => SettledBooks
  <2> SUFFICES ASSUME TypeOK, LedgerInv, NEW r \in Requests, r \notin faulted \cup overLimit,
                      pc[r] = "done"
               PROVE  /\ paid[r] = arg[r]
                      /\ tokPaid[r] = IF kind[r].playground THEN 0 ELSE arg[r]
    BY DEF SettledBooks
  <2>1. rpc[r] = "none" /\ fee[r] = "none"
    BY TypesAt DEF LedgerInv, Control, FailedPCs
  <2>2. Returnable(r) = 0 /\ TokReturnable(r) = 0
    BY <2>1 DEF Returnable, TokReturnable, HoldingPCs, RaisingPCs
  <2> QED BY <2>1, <2>2, TypesAt DEF LedgerInv, Ledger, Final, TokFinal, FeeFund, FeeTok
<1> QED BY <1>1, LedgerCorrect, PTL

\* A request that ends without success and met no fault pays only its violation fee.
THEOREM ReturnedBooksCorrect == ReserveAcked => (Spec => []ReturnedBooks)
<1>1. TypeOK /\ LedgerInv => ReturnedBooks
  <2> SUFFICES ASSUME TypeOK, LedgerInv, NEW r \in Requests, r \notin faulted \cup overLimit,
                      Closed(r)
               PROVE  paid[r] = FeeFund(r) /\ tokPaid[r] = FeeTok(r)
    BY DEF ReturnedBooks
  <2>1. rpc[r] \in {"none", "finished"} /\ pc[r] \in {"rejected", "failed"}
    BY TypesAt DEF LedgerInv, Control, FailedPCs, Closed
  <2>2. Returnable(r) = 0 /\ TokReturnable(r) = 0
    BY <2>1 DEF Returnable, TokReturnable, HoldingPCs, RaisingPCs
  <2> QED BY <2>1, <2>2, TypesAt DEF LedgerInv, Ledger, Final, TokFinal, FeeFund, FeeTok
<1> QED BY <1>1, LedgerCorrect, PTL

\* Whatever writes fail, no request gets back more than it took.
THEOREM NeverPaysOutCorrect == ReserveAcked => (Spec => []NeverPaysOut)
<1>1. TypeOK /\ LedgerInv => NeverPaysOut
  <2> SUFFICES ASSUME TypeOK, LedgerInv, NEW r \in Requests
               PROVE  paid[r] >= 0 /\ tokPaid[r] >= 0
    BY DEF NeverPaysOut
  <2>1. Returnable(r) \in Nat /\ TokReturnable(r) \in Nat
    BY TypesAt DEF Returnable, TokReturnable
  <2> QED BY <2>1, TypesAt DEF LedgerInv, Ledger
<1> QED BY <1>1, LedgerCorrect, PTL
-----------------------------------------------------------------------------
(***************************************************************************)
(* What a step of a request does to the subscriptions, in four kinds.  The *)
(* usage theorems look at the kind of a step only.                         *)
(***************************************************************************)
\* Where a request has not reached its funding source yet.
UnspentPCs == EarlyPCs \ {"rollback", "rejected"}

\* The handlers, sessions and accounts of the other requests stay.
OthersStay(r) ==
    \A q \in Requests \ {r} : pc'[q] = pc[q] /\ sess'[q] = sess[q] /\ paid'[q] = paid[q]

\* The session of r keeps its funding source.
SourceStays(r) == sess'[r].funding = sess[r].funding /\ sess'[r].sub = sess[r].sub

\* No balance of a subscription and no account of a request moves.
QuietMove(r) ==
    /\ OthersStay(r) /\ UNCHANGED <<used, due, resets, paid>>
    /\ SourceStays(r) \/ (pc[r] \in UnspentPCs /\ sess'[r].sub = NoSub)
    /\ pc'[r] \in UnspentPCs => pc[r] \in UnspentPCs

\* A wallet request pays or is paid back.
WalletMove(r) ==
    /\ OthersStay(r) /\ UNCHANGED <<used, due, resets>>
    /\ sess[r].funding = "wallet" /\ sess'[r].funding = "wallet"
    /\ pc'[r] \notin UnspentPCs

\* A subscription request moves its subscription by n; upwards only within the total or
\* in a settlement.
UsageMove(r, n) ==
    /\ OthersStay(r) /\ UNCHANGED <<due, resets>> /\ SourceStays(r)
    /\ sess[r].funding = "subscription" /\ sess[r].sub \in Subs /\ pc'[r] \notin UnspentPCs
    /\ used' = [used EXCEPT ![sess[r].sub] = NewUsed(sess[r].sub, n)]
    /\ paid' = [paid EXCEPT ![r] = @ + n]
    /\ n <= 0 \/ ~ExceedsTotal(sess[r].sub, n) \/ (pc[r] = "settle" /\ pc'[r] # "settle")

\* A subscription request is admitted by s.
ChargeMove(r, s) ==
    /\ OthersStay(r) /\ UNCHANGED resets
    /\ sess[r].funding = "subscription" /\ sess'[r].funding = "subscription"
    /\ sess'[r].sub \in {s, sess[r].sub}
    /\ pc[r] = "fund" /\ pc'[r] \notin UnspentPCs
    /\ s \in Candidates(r, arg[r]) /\ ChargeSubscription(r, s)

\* One of the four.
Move(r) ==
    \/ QuietMove(r) \/ WalletMove(r)
    \/ \E n \in Int : UsageMove(r, n)
    \/ \E s \in Subs : ChargeMove(r, s)

\* A handler that moves leaves the others where they are.
LEMMA GotoOthers ==
  ASSUME TypeOK, NEW r \in Requests, NEW l, Goto(r, l)
  PROVE  pc'[r] = l /\ \A q \in Requests \ {r} : pc'[q] = pc[q]
  BY DEF TypeOK, Goto

\* Writing one field of a session leaves its source and the other sessions alone.
LEMMA FieldKept ==
  ASSUME TypeOK, NEW r \in Requests, NEW v, NEW n,
         \/ UNCHANGED sess
         \/ sess' = [sess EXCEPT ![r].tokenConsumed = v]
         \/ sess' = [sess EXCEPT ![r].consumed = v]
         \/ sess' = [sess EXCEPT ![r].settled = v]
         \/ sess' = [sess EXCEPT ![r].fundingSettled = v]
         \/ sess' = [sess EXCEPT ![r].refunded = v]
         \/ sess' = [sess EXCEPT ![r] = Raised(sess[r], n)]
  PROVE  SourceStays(r) /\ \A q \in Requests \ {r} : sess'[q] = sess[q]
<1>1. sess \in [Requests -> SessionType] /\ sess[r] \in SessionType
  BY DEF TypeOK
<1>2. \A q \in Requests \ {r} : sess'[q] = sess[q]
  BY <1>1
<1>3. SourceStays(r)
  <2> DEFINE x == sess[r]
  <2>1. /\ [x EXCEPT !.tokenConsumed = v].funding = x.funding
        /\ [x EXCEPT !.tokenConsumed = v].sub = x.sub
        /\ [x EXCEPT !.consumed = v].funding = x.funding
        /\ [x EXCEPT !.consumed = v].sub = x.sub
        /\ [x EXCEPT !.settled = v].funding = x.funding
        /\ [x EXCEPT !.settled = v].sub = x.sub
    BY <1>1 DEF SessionType
  <2>2. /\ [x EXCEPT !.fundingSettled = v].funding = x.funding
        /\ [x EXCEPT !.fundingSettled = v].sub = x.sub
        /\ [x EXCEPT !.refunded = v].funding = x.funding
        /\ [x EXCEPT !.refunded = v].sub = x.sub
        /\ Raised(x, n).funding = x.funding /\ Raised(x, n).sub = x.sub
    BY <1>1 DEF SessionType, Raised
  <2>3. \/ UNCHANGED sess
        \/ sess'[r] = [x EXCEPT !.tokenConsumed = v]
        \/ sess'[r] = [x EXCEPT !.consumed = v]
        \/ sess'[r] = [x EXCEPT !.settled = v]
        \/ sess'[r] = [x EXCEPT !.fundingSettled = v]
        \/ sess'[r] = [x EXCEPT !.refunded = v]
        \/ sess'[r] = Raised(x, n)
    BY <1>1
  <2> QED BY <2>1, <2>2, <2>3 DEF SourceStays
<1> QED BY <1>2, <1>3

\* Steps that touch neither a subscription nor a wallet.
LEMMA QuietAdmission ==
  ASSUME IInv, NEW r \in Requests,
         \/ Arrive(r) \/ SkipPreConsume(r) \/ QueryFails(r) \/ CheckSubscription(r) \/ CheckOverflow(r)
         \/ TryWallet(r) \/ TrySubscription(r)
  PROVE  QuietMove(r)
<1>1. TypeOK
  BY DEF IInv
<1>2. UNCHANGED <<used, due, resets, paid>> /\ pc[r] \in UnspentPCs
  BY DEF Arrive, SkipPreConsume, QueryFails, CheckSubscription, CheckOverflow, TryWallet, TrySubscription,
     UnspentPCs, EarlyPCs
<1>3. \E l : Goto(r, l)
  BY DEF Arrive, SkipPreConsume, QueryFails, CheckSubscription, CheckOverflow, TryWallet, TrySubscription
<1>4. UNCHANGED sess \/ \E f, t : sess' = [sess EXCEPT ![r] = NewSession(f, t)]
  BY DEF Arrive, SkipPreConsume, QueryFails, CheckSubscription, CheckOverflow, TryWallet, TrySubscription
<1>5. /\ \A q \in Requests \ {r} : sess'[q] = sess[q]
      /\ SourceStays(r) \/ sess'[r].sub = NoSub
  BY <1>1, <1>4 DEF TypeOK, NewSession, SourceStays
<1> QED BY <1>1, <1>2, <1>3, <1>5, GotoOthers DEF QuietMove, OthersStay

\* Neither do the token's part of admission and Reserve, the ends of a request and its fee.
LEMMA QuietRelay ==
  ASSUME IInv, NEW r \in Requests,
         \/ CheckToken(r) \/ PreConsumeToken(r) \/ RollbackToken(r) \/ StartReserve(r)
         \/ ReserveTokenCheck(r) \/ ReserveToken(r) \/ Succeed(r) \/ SettleToken(r)
         \/ Fail(r) \/ FeeToken(r)
  PROVE  QuietMove(r)
<1>1. TypeOK
  BY DEF IInv
<1>2. UNCHANGED <<used, due, resets, paid>>
  BY DEF CheckToken, PreConsumeToken, RollbackToken, StartReserve, ReserveTokenCheck,
     ReserveToken, Succeed, SettleToken, Fail, FeeToken
<1>3. \E l : Goto(r, l) /\ (l \in UnspentPCs => pc[r] \in UnspentPCs)
  <2>1. CASE CheckToken(r) \/ PreConsumeToken(r)
    BY <2>1 DEF CheckToken, PreConsumeToken, UnspentPCs, EarlyPCs
  <2>2. CASE RollbackToken(r)
    BY <2>2 DEF RollbackToken, AfterRollback, UnspentPCs, EarlyPCs
  <2>3. CASE StartReserve(r) \/ ReserveTokenCheck(r) \/ ReserveToken(r)
    BY <2>3 DEF StartReserve, ReserveTokenCheck, ReserveToken, Reserved, UnspentPCs, EarlyPCs
  <2>4. CASE Succeed(r) \/ SettleToken(r) \/ FeeToken(r)
    BY <2>4 DEF Succeed, SettleToken, FeeToken, UnspentPCs, EarlyPCs
  <2>5. CASE Fail(r)
    BY <2>5 DEF Fail, UnspentPCs, EarlyPCs
  <2> QED BY <2>1, <2>2, <2>3, <2>4, <2>5
<1>4. \/ UNCHANGED sess
      \/ \E v : sess' = [sess EXCEPT ![r].tokenConsumed = v]
      \/ \E v : sess' = [sess EXCEPT ![r].settled = v]
      \/ \E v : sess' = [sess EXCEPT ![r].refunded = v]
      \/ \E n : sess' = [sess EXCEPT ![r] = Raised(sess[r], n)]
  BY DEF CheckToken, PreConsumeToken, RollbackToken, StartReserve, ReserveTokenCheck,
     ReserveToken, Reserved, Succeed, SettleToken, Fail, FeeToken
<1>5. SourceStays(r) /\ \A q \in Requests \ {r} : sess'[q] = sess[q]
  BY <1>1, <1>4, FieldKept
<1> QED BY <1>1, <1>2, <1>3, <1>5, GotoOthers DEF QuietMove, OthersStay

\* A step that leaves handlers and sessions alone, as the refund goroutine's do, and pays nothing.
LEMMA QuietRefund ==
  ASSUME NEW r \in Requests, UNCHANGED <<pc, sess, used, due, resets, paid>>
  PROVE  QuietMove(r)
  BY DEF QuietMove, OthersStay, SourceStays
\* The account of one request moves.
LEMMA AccountOthers ==
  ASSUME TypeOK, NEW r \in Requests, NEW n,
         UNCHANGED paid \/ paid' = [paid EXCEPT ![r] = @ + n]
  PROVE  \A q \in Requests \ {r} : paid'[q] = paid[q]
  BY DEF TypeOK

\* WalletFunding.PreConsume.
LEMMA PreConsumeWalletMove ==
  ASSUME IInv, NEW r \in Requests, PreConsumeWallet(r)
  PROVE  WalletMove(r)
<1>1. TypeOK /\ sess[r].funding = "wallet" /\ UNCHANGED <<used, due, resets>>
  BY DEF IInv, PreConsumeWallet
<1>2. PICK o \in Outcomes(r) : PreConsumeWallet(r)!2!(o)
  BY DEF PreConsumeWallet
<1>3. \E l \in {"running", "rollback"} : Goto(r, l)
  BY <1>2 DEF Granted
<1>4. UNCHANGED paid \/ paid' = [paid EXCEPT ![r] = @ + arg[r]]
  BY <1>2 DEF AdjustUserQuota
<1>5. \/ UNCHANGED sess
      \/ \E a, c, s : sess' = [sess EXCEPT ![r] = [sess[r] EXCEPT !.preConsumedQuota = a,
                                                              !.consumed = c, !.sub = s]]
  BY <1>1, <1>2 DEF Granted, TypeOK
<1>6. sess'[r].funding = "wallet" /\ \A q \in Requests \ {r} : sess'[q] = sess[q]
  BY <1>1, <1>5 DEF TypeOK, SessionType
<1> QED BY <1>1, <1>3, <1>4, <1>6, GotoOthers, AccountOthers
        DEF WalletMove, OthersStay, UnspentPCs, EarlyPCs

\* SubscriptionFunding.PreConsume: charged, even if the acknowledgement is lost, or refused.
LEMMA PreConsumeSubscriptionMove ==
  ASSUME IInv, NEW r \in Requests, PreConsumeSubscription(r)
  PROVE  Move(r)
<1>1. /\ TypeOK /\ pc[r] = "fund" /\ sess[r].funding = "subscription" /\ UNCHANGED resets
  BY DEF IInv, PreConsumeSubscription
<1>2. PICK o \in Outcomes(r) : PreConsumeSubscription(r)!3!(o)
  BY DEF PreConsumeSubscription
<1>3. CASE o = "err" \/ Candidates(r, arg[r]) = {}
  <2>1. UNCHANGED <<used, due, record, paid, sess>> /\ \E l : Goto(r, l)
    BY <1>2, <1>3
  <2> QED BY <1>1, <2>1, GotoOthers DEF Move, QuietMove, OthersStay, SourceStays, UnspentPCs, EarlyPCs
<1>4. CASE ~(o = "err" \/ Candidates(r, arg[r]) = {})
  <2>1. PICK s \in Candidates(r, arg[r]) :
             /\ ChargeSubscription(r, s)
             /\ IF o = "ok" THEN Granted(r, arg[r], s)
                ELSE Goto(r, "rollback") /\ UNCHANGED sess
    BY <1>2, <1>4
  <2>2. s \in Subs
    BY <1>1, <2>1 DEF Candidates, TypeOK
  <2>3. \E l \in {"running", "rollback"} : Goto(r, l)
    BY <2>1 DEF Granted
  <2>4. paid' = [paid EXCEPT ![r] = @ + arg[r]]
    BY <2>1 DEF ChargeSubscription
  <2>5. \/ UNCHANGED sess
        \/ sess' = [sess EXCEPT ![r] = [sess[r] EXCEPT !.preConsumedQuota = arg[r],
                                                   !.consumed = arg[r], !.sub = s]]
    BY <1>1, <2>1 DEF Granted, TypeOK
  <2>6. /\ sess'[r].funding = "subscription" /\ sess'[r].sub \in {s, sess[r].sub}
        /\ \A q \in Requests \ {r} : sess'[q] = sess[q]
    <3>1. sess \in [Requests -> SessionType] /\ sess[r] \in SessionType
      BY <1>1 DEF TypeOK
    <3> DEFINE x == [sess[r] EXCEPT !.preConsumedQuota = arg[r], !.consumed = arg[r], !.sub = s]
    <3>2. x.funding = sess[r].funding /\ x.sub = s
      BY <3>1 DEF SessionType
    <3>3. sess'[r] \in {sess[r], x} /\ \A q \in Requests \ {r} : sess'[q] = sess[q]
      BY <2>5, <3>1
    <3> HIDE DEF x
    <3> QED BY <1>1, <3>2, <3>3
  <2>7. ChargeMove(r, s)
    BY <1>1, <2>1, <2>3, <2>4, <2>6, GotoOthers, AccountOthers
       DEF ChargeMove, OthersStay, UnspentPCs, EarlyPCs
  <2> QED BY <2>2, <2>7 DEF Move
<1> QED BY <1>3, <1>4

\* Reserve raises a subscription within its total only.
LEMMA ReserveFundingMove ==
  ASSUME IInv, NEW r \in Requests, ReserveFunding(r)
  PROVE  Move(r)
<1>1. /\ TypeOK /\ pc[r] = "reserve" /\ UNCHANGED <<due, resets>> /\ arg[r] \in Int
      /\ sess[r].funding \in {"wallet", "subscription"}
      /\ sess[r].funding = "subscription" => sess[r].sub \in Subs
  <2>1. TypeOK /\ Control(r)
    BY DEF IInv, LedgerInv
  <2> QED BY <2>1, TypesAt DEF ReserveFunding, Control, HoldingPCs
<1>2. PICK o \in Outcomes(r) : ReserveFunding(r)!2!(o)
  BY DEF ReserveFunding
<1>3. \E l \in {"running", "reserveToken"} : Goto(r, l)
  BY <1>2
<1>4. /\ pc'[r] \notin UnspentPCs /\ \A q \in Requests \ {r} : pc'[q] = pc[q]
  BY <1>1, <1>3, GotoOthers DEF UnspentPCs, EarlyPCs
<1>5. SourceStays(r) /\ \A q \in Requests \ {r} : sess'[q] = sess[q]
  <2>1. UNCHANGED sess \/ \E v : sess' = [sess EXCEPT ![r].consumed = v]
    BY <1>2
  <2> QED BY <1>1, <2>1, FieldKept
<1>6. CASE sess[r].funding = "wallet"
  <2>1. UNCHANGED used /\ (UNCHANGED paid \/ paid' = [paid EXCEPT ![r] = @ + arg[r]])
    BY <1>2, <1>6 DEF AdjustUserQuota
  <2> QED BY <1>1, <1>4, <1>5, <1>6, <2>1, AccountOthers DEF Move, WalletMove, OthersStay,
     SourceStays
<1>7. CASE sess[r].funding = "subscription" /\ UNCHANGED <<used, paid>>
  BY <1>1, <1>4, <1>5, <1>7 DEF Move, QuietMove, OthersStay
<1>8. CASE sess[r].funding = "subscription" /\ ~UNCHANGED <<used, paid>>
  <2>1. /\ ~ExceedsTotal(sess[r].sub, arg[r])
        /\ used' = [used EXCEPT ![sess[r].sub] = NewUsed(sess[r].sub, arg[r])]
        /\ paid' = [paid EXCEPT ![r] = @ + arg[r]]
    BY <1>2, <1>8 DEF AdjustSubscription
  <2>2. UsageMove(r, arg[r])
    BY <1>1, <1>4, <1>5, <1>8, <2>1, AccountOthers DEF UsageMove, OthersStay
  <2> QED BY <1>1, <2>2 DEF Move
<1> QED BY <1>1, <1>6, <1>7, <1>8

\* A rolled back Reserve lowers it.
LEMMA RollbackReserveMove ==
  ASSUME IInv, NEW r \in Requests, RollbackReserve(r)
  PROVE  Move(r)
<1>1. /\ TypeOK /\ pc[r] = "reserveRollback" /\ UNCHANGED <<due, resets>> /\ arg[r] \in Nat
      /\ sess[r].funding \in {"wallet", "subscription"}
      /\ sess[r].funding = "subscription" => sess[r].sub \in Subs
  <2>1. TypeOK /\ Control(r)
    BY DEF IInv, LedgerInv
  <2> QED BY <2>1, TypesAt DEF RollbackReserve, Control, HoldingPCs, RaisingPCs
<1>2. PICK o \in Outcomes(r) : RollbackReserve(r)!2!(o)
  BY DEF RollbackReserve
<1>3. Goto(r, "running")
  BY DEF RollbackReserve
<1>4. /\ pc'[r] \notin UnspentPCs /\ \A q \in Requests \ {r} : pc'[q] = pc[q]
  BY <1>1, <1>3, GotoOthers DEF UnspentPCs, EarlyPCs
<1>5. SourceStays(r) /\ \A q \in Requests \ {r} : sess'[q] = sess[q]
  <2>1. UNCHANGED sess \/ \E v : sess' = [sess EXCEPT ![r].consumed = v]
    BY <1>2 DEF ForgetReserve
  <2> QED BY <1>1, <2>1, FieldKept
<1>6. CASE sess[r].funding = "wallet"
  <2>1. UNCHANGED used /\ (UNCHANGED paid \/ paid' = [paid EXCEPT ![r] = @ + -arg[r]])
    BY <1>2, <1>6 DEF AdjustUserQuota
  <2> QED BY <1>1, <1>4, <1>5, <1>6, <2>1, AccountOthers DEF Move, WalletMove, OthersStay,
     SourceStays
<1>7. CASE sess[r].funding = "subscription" /\ UNCHANGED <<used, paid>>
  BY <1>1, <1>4, <1>5, <1>7 DEF Move, QuietMove, OthersStay
<1>8. CASE sess[r].funding = "subscription" /\ ~UNCHANGED <<used, paid>>
  <2>1. /\ used' = [used EXCEPT ![sess[r].sub] = NewUsed(sess[r].sub, -arg[r])]
        /\ paid' = [paid EXCEPT ![r] = @ + -arg[r]]
    BY <1>2, <1>8 DEF AdjustSubscription
  <2>2. -arg[r] \in Int /\ -arg[r] <= 0
    BY <1>1
  <2>3. UsageMove(r, -arg[r])
    BY <1>1, <1>4, <1>5, <1>8, <2>1, <2>2, AccountOthers DEF UsageMove, OthersStay
  <2> QED BY <2>2, <2>3 DEF Move
<1> QED BY <1>1, <1>6, <1>7, <1>8

\* A settlement moves it either way, unchecked.
LEMMA SettleFundingMove ==
  ASSUME IInv, NEW r \in Requests, SettleFunding(r)
  PROVE  Move(r)
<1>1. /\ TypeOK /\ pc[r] = "settle" /\ UNCHANGED <<due, resets>> /\ Delta(r) \in Int
      /\ sess[r].funding \in {"wallet", "subscription"}
      /\ sess[r].funding = "subscription" => sess[r].sub \in Subs
  <2>1. TypeOK /\ Control(r)
    BY DEF IInv, LedgerInv
  <2> QED BY <2>1, TypesAt DEF SettleFunding, Control, HoldingPCs, Delta
<1>2. PICK o \in Outcomes(r) : SettleFunding(r)!2!(o)
  BY DEF SettleFunding
<1>3. \E l \in {"done", "settleToken"} : Goto(r, l)
  BY <1>2
<1>4. /\ pc'[r] \notin UnspentPCs /\ pc'[r] # "settle"
      /\ \A q \in Requests \ {r} : pc'[q] = pc[q]
  BY <1>1, <1>3, GotoOthers DEF UnspentPCs, EarlyPCs
<1>5. SourceStays(r) /\ \A q \in Requests \ {r} : sess'[q] = sess[q]
  <2>1. \/ UNCHANGED sess
        \/ \E v : sess' = [sess EXCEPT ![r].settled = v]
        \/ \E v : sess' = [sess EXCEPT ![r].fundingSettled = v]
    BY <1>2
  <2> QED BY <1>1, <2>1, FieldKept
<1>6. CASE sess[r].funding = "wallet"
  <2>1. UNCHANGED used /\ (UNCHANGED paid \/ paid' = [paid EXCEPT ![r] = @ + Delta(r)])
    BY <1>2, <1>6 DEF AdjustUserQuota
  <2> QED BY <1>1, <1>4, <1>5, <1>6, <2>1, AccountOthers DEF Move, WalletMove, OthersStay,
     SourceStays
<1>7. CASE sess[r].funding = "subscription" /\ UNCHANGED <<used, paid>>
  BY <1>1, <1>4, <1>5, <1>7 DEF Move, QuietMove, OthersStay
<1>8. CASE sess[r].funding = "subscription" /\ ~UNCHANGED <<used, paid>>
  <2>1. /\ used' = [used EXCEPT ![sess[r].sub] = NewUsed(sess[r].sub, Delta(r))]
        /\ paid' = [paid EXCEPT ![r] = @ + Delta(r)]
    BY <1>2, <1>8 DEF AdjustSubscription
  <2>2. UsageMove(r, Delta(r))
    BY <1>1, <1>4, <1>5, <1>8, <2>1, AccountOthers DEF UsageMove, OthersStay
  <2> QED BY <1>1, <2>2 DEF Move
<1> QED BY <1>1, <1>6, <1>7, <1>8

\* The violation fee is checked like a reservation.
LEMMA FeeFundingMove ==
  ASSUME IInv, NEW r \in Requests, FeeFunding(r)
  PROVE  Move(r)
<1>1. /\ TypeOK /\ pc[r] = "feeFunding" /\ UNCHANGED <<due, resets, sess>> /\ FeeQuota \in Int
      /\ sess[r].funding \in {"wallet", "subscription"}
      /\ sess[r].funding = "subscription" => sess[r].sub \in Subs
  <2>1. TypeOK /\ Control(r)
    BY DEF IInv, LedgerInv
  <2> QED BY <2>1, TypesAt DEF FeeFunding, Control, HoldingPCs, FailedPCs
<1>2. PICK o \in Outcomes(r) : FeeFunding(r)!2!(o)
  BY DEF FeeFunding
<1>3. \E l \in {"failed", "feeToken"} : Goto(r, l)
  BY <1>2
<1>4. /\ pc'[r] \notin UnspentPCs /\ \A q \in Requests \ {r} : pc'[q] = pc[q]
  BY <1>1, <1>3, GotoOthers DEF UnspentPCs, EarlyPCs
<1>5. SourceStays(r) /\ \A q \in Requests \ {r} : sess'[q] = sess[q]
  BY <1>1 DEF SourceStays
<1>6. CASE sess[r].funding = "wallet"
  <2>1. UNCHANGED used /\ (UNCHANGED paid \/ paid' = [paid EXCEPT ![r] = @ + FeeQuota])
    BY <1>2, <1>6 DEF AdjustUserQuota
  <2> QED BY <1>1, <1>4, <1>5, <1>6, <2>1, AccountOthers DEF Move, WalletMove, OthersStay,
     SourceStays
<1>7. CASE sess[r].funding = "subscription" /\ UNCHANGED <<used, paid>>
  BY <1>1, <1>4, <1>5, <1>7 DEF Move, QuietMove, OthersStay
<1>8. CASE sess[r].funding = "subscription" /\ ~UNCHANGED <<used, paid>>
  <2>1. /\ ~ExceedsTotal(sess[r].sub, FeeQuota)
        /\ used' = [used EXCEPT ![sess[r].sub] = NewUsed(sess[r].sub, FeeQuota)]
        /\ paid' = [paid EXCEPT ![r] = @ + FeeQuota]
    BY <1>2, <1>8 DEF AdjustSubscription
  <2>2. UsageMove(r, FeeQuota)
    BY <1>1, <1>4, <1>5, <1>8, <2>1, AccountOthers DEF UsageMove, OthersStay
  <2> QED BY <1>1, <2>2 DEF Move
<1> QED BY <1>1, <1>6, <1>7, <1>8

\* Refunds lower it.
LEMMA RefundMove ==
  ASSUME IInv, NEW r \in Requests, RefundStep(r)
  PROVE  Move(r)
<1>1. /\ TypeOK /\ Control(r) /\ UNCHANGED <<pc, sess, due, resets>>
      /\ sess[r].consumed \in Nat /\ sess[r].extraReserved \in Nat
      /\ pc[r] \in FailedPCs
  <2>1. TypeOK /\ Control(r) /\ UNCHANGED <<pc, sess, due, resets>> /\ rpc[r] # "none"
    BY DEF IInv, LedgerInv, RefundStep, RefundWallet, RefundSubscription, RefundExtra, RefundToken
  <2> QED BY <2>1, TypesAt DEF Control
<1>2. /\ SourceStays(r) /\ pc'[r] \notin UnspentPCs
      /\ \A q \in Requests \ {r} : pc'[q] = pc[q] /\ sess'[q] = sess[q]
  BY <1>1 DEF SourceStays, UnspentPCs, EarlyPCs, FailedPCs
<1>3. CASE UNCHANGED <<used, paid>>
  BY <1>1, <1>3, QuietRefund DEF Move
<1>4. CASE RefundWallet(r)
  <2>1. /\ UNCHANGED used /\ sess[r].funding = "wallet"
        /\ UNCHANGED paid \/ paid' = [paid EXCEPT ![r] = @ + -sess[r].consumed]
    BY <1>4 DEF RefundWallet, AdjustUserQuota
  <2> QED BY <1>1, <1>2, <2>1, AccountOthers DEF Move, WalletMove, OthersStay,
     SourceStays
<1>5. CASE RefundSubscription(r) /\ ~UNCHANGED <<used, paid>>
  <2>1. /\ sess[r].funding = "subscription"
        /\ used' = [used EXCEPT ![sess[r].sub] = NewUsed(sess[r].sub, -sess[r].consumed)]
        /\ paid' = [paid EXCEPT ![r] = @ + -sess[r].consumed]
    BY <1>5 DEF RefundSubscription, AdjustSubscription
  <2>2. -sess[r].consumed \in Int /\ -sess[r].consumed <= 0 /\ sess[r].sub \in Subs
    BY <1>1, <2>1 DEF Control
  <2>3. UsageMove(r, -sess[r].consumed)
    BY <1>1, <1>2, <2>1, <2>2, AccountOthers DEF UsageMove, OthersStay
  <2> QED BY <2>2, <2>3 DEF Move
<1>6. CASE RefundExtra(r) /\ ~UNCHANGED <<used, paid>>
  <2>1. /\ rpc[r] = "extra"
        /\ used' = [used EXCEPT ![sess[r].sub] = NewUsed(sess[r].sub, -sess[r].extraReserved)]
        /\ paid' = [paid EXCEPT ![r] = @ + -sess[r].extraReserved]
    BY <1>6 DEF RefundExtra, AdjustSubscription
  <2>2. /\ -sess[r].extraReserved \in Int /\ -sess[r].extraReserved <= 0
        /\ sess[r].funding = "subscription" /\ sess[r].sub \in Subs
    BY <1>1, <2>1 DEF Control
  <2>3. UsageMove(r, -sess[r].extraReserved)
    BY <1>1, <1>2, <2>1, <2>2, AccountOthers DEF UsageMove, OthersStay
  <2> QED BY <2>2, <2>3 DEF Move
<1>7. CASE RefundToken(r)
  BY <1>3, <1>7 DEF RefundToken
<1> QED BY <1>3, <1>4, <1>5, <1>6, <1>7 DEF RefundStep
\* Every step of a request is one of the four kinds.
LEMMA MoveOf ==
  ASSUME IInv, NEW r \in Requests, RequestStep(r) \/ RefundStep(r)
  PROVE  Move(r)
<1>1. CASE AdmissionStep(r) \/ QueryFails(r)
  BY <1>1, QuietAdmission, QuietRelay, PreConsumeWalletMove, PreConsumeSubscriptionMove
     DEF AdmissionStep, Move
<1>2. CASE StartReserve(r) \/ ReserveStep(r)
  BY <1>2, QuietRelay, ReserveFundingMove, RollbackReserveMove DEF ReserveStep, Move
<1>3. CASE FinishStep(r)
  BY <1>3, QuietRelay, SettleFundingMove, FeeFundingMove DEF FinishStep, Move
<1>4. CASE RefundStep(r)
  BY <1>4, RefundMove
<1> QED BY <1>1, <1>2, <1>3, <1>4 DEF RequestStep

\* What a step may do to a subscription above its total.
Strict ==
    \A s \in Subs :
        (used'[s] > used[s] /\ Total[s] > 0 /\ used'[s] > Total[s])
            => \E r \in Requests : pc[r] = "settle" /\ pc'[r] # "settle"

\* By the kind of the step.
LEMMA StrictStep ==
  ASSUME IInv, [Next]_vars
  PROVE  Strict
<1> SUFFICES ASSUME NEW s \in Subs, used'[s] > used[s], Total[s] > 0, used'[s] > Total[s]
             PROVE  \E r \in Requests : pc[r] = "settle" /\ pc'[r] # "settle"
  BY DEF Strict
<1>0. /\ used \in [Subs -> Nat] /\ used[s] \in Nat /\ Total[s] \in Nat /\ due \in [Subs -> BOOLEAN]
      /\ TypeOK
  BY TotalAssumption DEF IInv, TypeOK
<1>1. used'[s] # used[s]
  BY <1>0
<1>2. ASSUME NEW r \in Requests, RequestStep(r) \/ RefundStep(r)
      PROVE  pc[r] = "settle" /\ pc'[r] # "settle"
  <2>1. (\E n \in Int : UsageMove(r, n)) \/ \E t \in Subs : ChargeMove(r, t)
    BY <1>1, <1>2, MoveOf DEF Move, QuietMove, WalletMove
  <2>2. ASSUME NEW n \in Int, UsageMove(r, n)
        PROVE  pc[r] = "settle" /\ pc'[r] # "settle"
    <3>1. sess[r].sub = s /\ used'[s] = NewUsed(s, n)
      BY <1>0, <1>1, <2>2 DEF UsageMove
    <3>2. n > 0
      BY <1>0, <3>1 DEF NewUsed
    <3>3. ExceedsTotal(s, n)
      BY <3>1 DEF ExceedsTotal
    <3> QED BY <2>2, <3>1, <3>2, <3>3 DEF UsageMove
  <2>3. ASSUME NEW t \in Subs, ChargeMove(r, t)
        PROVE  FALSE
    <3>1. /\ used'[s] = IF s = t THEN UsedAfterReset(t) + arg[r]
                        ELSE IF s \in {u \in active \cap kind[r].allows : u <= t} THEN UsedAfterReset(s)
                        ELSE used[s]
      BY <2>3 DEF ChargeMove, ChargeSubscription
    <3>2. UsedAfterReset(s) \in {0, used[s]}
      BY DEF UsedAfterReset
    <3>3. s = t
      BY <1>0, <3>1, <3>2
    <3>4. Total[s] = 0 \/ Total[s] - UsedAfterReset(s) >= arg[r]
      BY <2>3, <3>3 DEF ChargeMove, Candidates
    <3>5. arg[r] \in Nat
      BY <1>0, TypesAt
    <3> QED BY <1>0, <3>1, <3>2, <3>3, <3>4, <3>5
  <2> QED BY <2>1, <2>2, <2>3
<1>3. ASSUME NEW t \in Subs, Clock(t)
      PROVE  FALSE
  BY <1>0, <1>3 DEF Clock, PeriodEnds, ResetDue, Expire
<1>4. ~UNCHANGED vars
  BY <1>1 DEF vars
<1> QED BY <1>2, <1>3, <1>4 DEF Next

\* Only the settlement of a request that has succeeded lifts a subscription's usage above
\* its total: PreConsumeUserSubscription, Reserve and the violation fee never do, whatever
\* other requests charge, settle or return in between.
THEOREM AdmissionCorrect == ReserveAcked => (Spec => AdmissionIsStrict)
<1> SUFFICES ASSUME ReserveAcked PROVE Spec => AdmissionIsStrict
  OBVIOUS
<1>1. IInv /\ [Next]_vars => [Strict]_vars
  BY StrictStep
<1>2. Spec => []IInv
  BY LedgerCorrect DEF IInv
<1> QED BY <1>1, <1>2, PTL DEF Spec, AdmissionIsStrict, Strict
-----------------------------------------------------------------------------
(***************************************************************************)
(* Usage: what each subscription records is what the requests placed on it *)
(* have paid.  UsageInv is inductive relative to IInv.                     *)
(***************************************************************************)
\* What the requests that at places on s have paid.
PaidOn(at, p, s) == SumFunctionOnSet(Part(p, at, Requests, s), Requests)

\* at[r] is the subscription that r was charged to, acknowledged or not.
Placed(at, r) ==
    /\ at[r] # NoSub => sess[r].funding = "subscription"
    /\ at[r] = NoSub /\ sess[r].funding = "subscription" => paid[r] = 0
    /\ sess[r].funding = "subscription" /\ sess[r].sub # NoSub => at[r] = sess[r].sub
    /\ pc[r] \in UnspentPCs => at[r] = NoSub /\ sess[r].sub = NoSub /\ paid[r] = 0

\* s records at most what was paid on it, and exactly that before the first period ends.
Explained(at, s) ==
    /\ used[s] <= PaidOn(at, paid, s)
    /\ resets = 0 => due[s] = FALSE /\ used[s] = PaidOn(at, paid, s)

Places == [Requests -> Subs \cup {NoSub}]

\* The acknowledgement of a charge may be lost, and with it the session's knowledge of its
\* subscription: the place of a request is therefore quantified here.
UsageInv ==
    \E at \in Places :
        (\A r \in Requests : Placed(at, r)) /\ (\A s \in Subs : Explained(at, s))

\* Accounts that are not negative.
LEMMA PaidOnType ==
  ASSUME NEW at, NEW p \in [Requests -> Int], NEW s
  PROVE  /\ PaidOn(at, p, s) \in Int /\ Summable(Part(p, at, Requests, s), Requests)
         /\ (\A q \in Requests : p[q] >= 0) => PaidOn(at, p, s) >= 0
<1> DEFINE f == Part(p, at, Requests, s)
<1>1. \A q \in Requests : f[q] \in Int
  BY DEF Part
<1>2. (\A q \in Requests : p[q] >= 0) => \A q \in Requests : f[q] \in Nat
  BY DEF Part
<1> HIDE DEF f
<1>3. Summable(f, Requests)
  BY <1>1, RequestsAssumption DEF Summable
<1>4. SumFunctionOnSet(f, Requests) \in Int
  BY <1>3, SumType
<1>5. (\A q \in Requests : p[q] >= 0) => SumFunctionOnSet(f, Requests) \in Nat
  BY <1>2, RequestsAssumption, SumNat
<1>6. (\A q \in Requests : p[q] >= 0) => SumFunctionOnSet(f, Requests) >= 0
  BY <1>5
<1> QED BY <1>3, <1>4, <1>6 DEF PaidOn, f

\* One request's account and place change.
LEMMA PaidOnUpdate ==
  ASSUME NEW at1, NEW at2, NEW p1 \in [Requests -> Int], NEW p2 \in [Requests -> Int], NEW s,
         NEW r \in Requests,
         \A q \in Requests \ {r} : at2[q] = at1[q] /\ p2[q] = p1[q]
  PROVE  PaidOn(at2, p2, s) = PaidOn(at1, p1, s)
           + ((IF at2[r] = s THEN p2[r] ELSE 0) - (IF at1[r] = s THEN p1[r] ELSE 0))
<1> DEFINE f == Part(p1, at1, Requests, s)
           g == Part(p2, at2, Requests, s)
<1>1. /\ f[r] = IF at1[r] = s THEN p1[r] ELSE 0
      /\ g[r] = IF at2[r] = s THEN p2[r] ELSE 0
      /\ \A q \in Requests \ {r} : g[q] = f[q]
  BY DEF Part
<1>2. Summable(f, Requests) /\ g[r] \in Int
  BY <1>1, PaidOnType
<1> HIDE DEF f, g
<1>3. SumFunctionOnSet(g, Requests) = SumFunctionOnSet(f, Requests) + (g[r] - f[r])
  BY <1>1, <1>2, SumUpdate
<1> QED BY <1>1, <1>3 DEF PaidOn, f, g

\* No account is negative while the books are kept...
LEMMA PaidNow == IInv => \A q \in Requests : paid[q] >= 0
<1> SUFFICES ASSUME IInv, NEW q \in Requests PROVE paid[q] >= 0
  OBVIOUS
<1>1. TypeOK /\ Ledger(q)
  BY DEF IInv, LedgerInv
<1>2. Returnable(q) \in Nat
  BY <1>1, TypesAt DEF Returnable
<1> QED BY <1>1, <1>2, TypesAt DEF Ledger

\* ... nor after a step that keeps them.
LEMMA PaidNext == IInv' => (\A q \in Requests : paid[q] >= 0)'
  BY PaidNow, PTL

\* Who is placed stays placed while nothing happens to him.
LEMMA PlacedOthers ==
  ASSUME NEW r \in Requests, OthersStay(r), NEW at1, NEW at2,
         \A q \in Requests : Placed(at1, q), \A q \in Requests \ {r} : at2[q] = at1[q]
  PROVE  \A q \in Requests \ {r} : Placed(at2, q)'
  BY DEF OthersStay, Placed

\* Nothing moves.
LEMMA UsageQuiet ==
  ASSUME IInv, UsageInv, NEW r \in Requests, QuietMove(r)
  PROVE  UsageInv'
<1>1. PICK at \in Places : (\A q \in Requests : Placed(at, q)) /\ \A s \in Subs : Explained(at, s)
  BY DEF UsageInv
<1>2. UNCHANGED <<used, due, resets, paid>>
  BY DEF QuietMove
<1>3. \A s \in Subs : Explained(at, s)'
  BY <1>1, <1>2 DEF Explained
<1>4. Placed(at, r)'
  BY <1>1, <1>2 DEF QuietMove, Placed, SourceStays
<1>5. \A q \in Requests \ {r} : Placed(at, q)'
  BY <1>1, PlacedOthers DEF QuietMove
<1> QED BY <1>1, <1>3, <1>4, <1>5 DEF UsageInv, Places

\* A wallet request's money is on no subscription.
LEMMA UsageWallet ==
  ASSUME IInv, IInv', UsageInv, NEW r \in Requests, WalletMove(r)
  PROVE  UsageInv'
<1>1. PICK at \in Places : (\A q \in Requests : Placed(at, q)) /\ \A s \in Subs : Explained(at, s)
  BY DEF UsageInv
<1>2. UNCHANGED <<used, due, resets>> /\ OthersStay(r) /\ at[r] = NoSub
  BY <1>1 DEF WalletMove, Placed
<1>3. paid \in [Requests -> Int] /\ paid' \in [Requests -> Int]
  BY DEF IInv, TypeOK
<1>4. ASSUME NEW s \in Subs PROVE Explained(at, s)'
  <2>1. s # NoSub
    BY SubsAssumption DEF NoSub
  <2>2. PaidOn(at, paid', s) = PaidOn(at, paid, s) + (0 - 0)
    BY <1>2, <1>3, <2>1, PaidOnUpdate DEF OthersStay
  <2>3. PaidOn(at, paid, s) \in Int
    BY <1>3, PaidOnType
  <2>4. PaidOn(at, paid', s) = PaidOn(at, paid, s)
    BY <2>2, <2>3
  <2> QED BY <1>1, <1>2, <2>4 DEF Explained
<1>5. Placed(at, r)'
  BY <1>2 DEF WalletMove, Placed
<1>6. \A q \in Requests \ {r} : Placed(at, q)'
  BY <1>1, <1>2, PlacedOthers
<1> QED BY <1>1, <1>4, <1>5, <1>6 DEF UsageInv, Places

\* A subscription and the account of the request placed on it move together; what would
\* fall below 0 is cut off, which can only happen after a reset.
LEMMA UsageAdjust ==
  ASSUME IInv, IInv', UsageInv, NEW r \in Requests, NEW n \in Int, UsageMove(r, n)
  PROVE  UsageInv'
<1>1. PICK at \in Places : (\A q \in Requests : Placed(at, q)) /\ \A s \in Subs : Explained(at, s)
  BY DEF UsageInv
<1>2. UNCHANGED <<due, resets>> /\ OthersStay(r)
  BY DEF UsageMove
<1>3. /\ paid \in [Requests -> Int] /\ paid' \in [Requests -> Int] /\ used \in [Subs -> Nat]
      /\ paid[r] \in Int /\ paid'[r] = paid[r] + n
  BY DEF IInv, TypeOK, UsageMove
<1>4. sess[r].sub \in Subs /\ at[r] = sess[r].sub
  BY <1>1, SubsAssumption DEF UsageMove, Placed, NoSub
<1>5. \A q \in Requests : paid'[q] >= 0
  BY PaidNext
<1>6. ASSUME NEW s \in Subs PROVE Explained(at, s)'
  <2>1. PICK a \in Int, b \in Int : a = PaidOn(at, paid, s) /\ b = PaidOn(at, paid', s)
    BY <1>3, PaidOnType
  <2>2. b >= 0
    BY <1>3, <1>5, <2>1, PaidOnType
  <2>3. b = a + ((IF at[r] = s THEN paid[r] + n ELSE 0) - (IF at[r] = s THEN paid[r] ELSE 0))
    BY <1>2, <1>3, <2>1, PaidOnUpdate DEF OthersStay
  <2>4. /\ used[s] \in Nat /\ used[s] <= a
        /\ resets = 0 => due[s] = FALSE /\ used[s] = a
    BY <1>1, <1>3, <2>1 DEF Explained
  <2>5. CASE at[r] = s
    <3>1. b = a + n /\ used'[s] = IF used[s] + n < 0 THEN 0 ELSE used[s] + n
      BY <1>3, <1>4, <2>3, <2>5 DEF UsageMove, NewUsed
    <3>2. used'[s] <= b /\ (resets = 0 => used'[s] = b)
      BY <2>2, <2>4, <3>1
    <3> QED BY <1>2, <2>1, <2>4, <3>2 DEF Explained
  <2>6. CASE at[r] # s
    <3>1. b = a /\ used'[s] = used[s]
      BY <1>3, <1>4, <2>3, <2>6 DEF UsageMove
    <3> QED BY <1>2, <2>1, <2>4, <3>1 DEF Explained
  <2> QED BY <2>5, <2>6
<1>7. Placed(at, r)'
  BY <1>1, <1>4, SubsAssumption DEF UsageMove, Placed, SourceStays, NoSub
<1>8. \A q \in Requests \ {r} : Placed(at, q)'
  BY <1>1, <1>2, PlacedOthers
<1> QED BY <1>1, <1>6, <1>7, <1>8 DEF UsageInv, Places

\* A request is placed on the subscription that admits it.
LEMMA UsageCharge ==
  ASSUME IInv, IInv', UsageInv, NEW r \in Requests, NEW u \in Subs, ChargeMove(r, u)
  PROVE  UsageInv'
<1>1. PICK at \in Places : (\A q \in Requests : Placed(at, q)) /\ \A s \in Subs : Explained(at, s)
  BY DEF UsageInv
<1>2. UNCHANGED resets /\ OthersStay(r) /\ ChargeSubscription(r, u)
  BY DEF ChargeMove
<1>3. /\ paid \in [Requests -> Int] /\ paid' \in [Requests -> Int] /\ used \in [Subs -> Nat]
      /\ arg[r] \in Nat /\ paid'[r] = paid[r] + arg[r] /\ due \in [Subs -> BOOLEAN]
  BY <1>2 DEF IInv, TypeOK, ChargeSubscription
<1>4. at[r] = NoSub /\ sess[r].sub = NoSub /\ paid[r] = 0 /\ u # NoSub /\ paid'[r] = arg[r]
  <2>1. pc[r] \in UnspentPCs
    BY DEF ChargeMove, UnspentPCs, EarlyPCs
  <2>2. at[r] = NoSub /\ sess[r].sub = NoSub /\ paid[r] = 0 /\ u # NoSub
    BY <1>1, <2>1, SubsAssumption DEF Placed, NoSub
  <2> QED BY <1>3, <2>2
<1>5. PICK new : new = [at EXCEPT ![r] = u]
  OBVIOUS
<1>6. new \in Places /\ new[r] = u /\ \A q \in Requests \ {r} : new[q] = at[q]
  BY <1>1, <1>5 DEF Places
<1>7. ASSUME NEW s \in Subs PROVE Explained(new, s)'
  <2>1. PICK a \in Int, b \in Int : a = PaidOn(at, paid, s) /\ b = PaidOn(new, paid', s)
    BY <1>3, PaidOnType
  <2>2. s # NoSub
    BY SubsAssumption DEF NoSub
  <2>3. b = a + ((IF u = s THEN arg[r] ELSE 0) - 0)
    BY <1>2, <1>3, <1>4, <1>6, <2>1, <2>2, PaidOnUpdate DEF OthersStay
  <2>4. /\ used[s] \in Nat /\ used[s] <= a
        /\ resets = 0 => due[s] = FALSE /\ used[s] = a
    BY <1>1, <1>3, <2>1 DEF Explained
  <2>5. PICK w : w = UsedAfterReset(s)
    OBVIOUS
  <2>6. w \in Nat /\ w <= used[s] /\ (due[s] = FALSE => w = used[s])
    BY <2>4, <2>5 DEF UsedAfterReset
  <2>7. resets = 0 => due'[s] = FALSE
    <3>1. due'[s] = (due[s] /\ s \notin {t \in active \cap kind[r].allows : t <= u})
      BY <1>2 DEF ChargeSubscription
    <3> QED BY <2>4, <3>1
  <2>8. CASE s = u
    <3>1. b = a + arg[r] /\ used'[s] = w + arg[r]
      BY <1>2, <1>3, <2>3, <2>5, <2>8 DEF ChargeSubscription
    <3>2. used'[s] <= b /\ (resets = 0 => used'[s] = b)
      BY <1>3, <2>4, <2>6, <3>1
    <3> QED BY <1>2, <2>1, <2>7, <3>2 DEF Explained
  <2>9. CASE s # u
    <3>1. b = a /\ used'[s] \in {w, used[s]}
      BY <1>2, <1>3, <2>3, <2>5, <2>9 DEF ChargeSubscription
    <3>2. used'[s] <= b /\ (resets = 0 => used'[s] = b)
      BY <2>4, <2>6, <3>1
    <3> QED BY <1>2, <2>1, <2>7, <3>2 DEF Explained
  <2> QED BY <2>8, <2>9
<1>8. Placed(new, r)'
  BY <1>4, <1>6 DEF ChargeMove, Placed
<1>9. \A q \in Requests \ {r} : Placed(new, q)'
  BY <1>1, <1>2, <1>6, PlacedOthers
<1> QED BY <1>6, <1>7, <1>8, <1>9 DEF UsageInv, Places

\* Time only lowers what is recorded, and only after a period has ended.
LEMMA UsageClock ==
  ASSUME IInv, UsageInv, NEW t \in Subs, Clock(t)
  PROVE  UsageInv'
<1>1. PICK at \in Places : (\A q \in Requests : Placed(at, q)) /\ \A s \in Subs : Explained(at, s)
  BY DEF UsageInv
<1>2. UNCHANGED <<pc, sess, paid>> /\ paid \in [Requests -> Int] /\ used \in [Subs -> Nat]
      /\ resets \in Nat /\ TypeOK
  BY QuotaAssumption DEF IInv, TypeOK, Clock, PeriodEnds, ResetDue, Expire
<1>3. \A q \in Requests : Placed(at, q)'
  BY <1>1, <1>2 DEF Placed
<1>4. ASSUME NEW s \in Subs PROVE Explained(at, s)'
  <2>1. PICK a \in Int : a = PaidOn(at, paid, s) /\ a = PaidOn(at, paid', s)
    BY <1>2, PaidOnType
  <2>2. /\ used[s] \in Nat /\ used[s] <= a
        /\ resets = 0 => due[s] = FALSE /\ used[s] = a
    BY <1>1, <1>2, <2>1 DEF Explained
  <2>3. CASE PeriodEnds(t) \/ Expire(t)
    <3>1. used'[s] = used[s] /\ resets' = resets + 1 /\ resets' # 0
      BY <1>2, <2>3 DEF PeriodEnds, Expire
    <3> QED BY <2>1, <2>2, <3>1 DEF Explained
  <2>4. CASE ResetDue(t)
    <3>1. used'[s] \in {0, used[s]} /\ resets' = resets /\ due[t]
      BY <1>2, <2>4 DEF ResetDue
    <3>2. resets # 0
      BY <1>1, <3>1 DEF Explained
    <3>3. used'[s] <= a
      BY <2>2, <3>1
    <3> QED BY <2>1, <3>1, <3>2, <3>3 DEF Explained
  <2> QED BY <2>3, <2>4 DEF Clock
<1> QED BY <1>1, <1>3, <1>4 DEF UsageInv
\* Before any request arrives nothing is placed and nothing recorded.
LEMMA UsageInit ==
  ASSUME Init
  PROVE  UsageInv
<1> DEFINE at == [r \in Requests |-> NoSub]
<1>1. at \in Places /\ \A r \in Requests : at[r] = NoSub
  BY DEF Places
<1>2. /\ paid \in [Requests -> Int] /\ \A r \in Requests : paid[r] = 0
      /\ \A s \in Subs : used[s] = 0 /\ due[s] = FALSE
      /\ \A r \in Requests : sess[r].funding = "none" /\ sess[r].sub = NoSub
  BY DEF Init, NewSession
<1> HIDE DEF at
<1>3. \A r \in Requests : Placed(at, r)
  BY <1>1, <1>2 DEF Placed
<1>4. ASSUME NEW s \in Subs PROVE Explained(at, s)
  <2>1. Summable(Part(paid, at, Requests, s), Requests)
    BY <1>2, PaidOnType
  <2>2. \A r \in Requests \ {} : Part(paid, at, Requests, s)[r] = 0
    BY <1>2 DEF Part
  <2>3. {} \in SUBSET Requests /\ \A r \in {} : Part(paid, at, Requests, s)[r] = paid[r]
    OBVIOUS
  <2>4. PaidOn(at, paid, s) = SumFunctionOnSet(paid, {})
    BY <2>1, <2>2, <2>3, SumFilter DEF PaidOn
  <2>5. PaidOn(at, paid, s) = 0
    BY <2>4, SumEmpty
  <2> QED BY <1>2, <2>5 DEF Explained
<1> QED BY <1>1, <1>3, <1>4 DEF UsageInv

\* Every step, by its kind.
LEMMA UsageStep ==
  ASSUME IInv, IInv', UsageInv, [Next]_vars
  PROVE  UsageInv'
<1>1. ASSUME NEW r \in Requests, RequestStep(r) \/ RefundStep(r)
      PROVE  UsageInv'
  <2>1. Move(r)
    BY <1>1, MoveOf
  <2> QED BY <2>1, UsageQuiet, UsageWallet, UsageAdjust, UsageCharge DEF Move
<1>2. ASSUME UNCHANGED vars
      PROVE  UsageInv'
  BY <1>2 DEF vars, UsageInv, Placed, Explained
<1> QED BY <1>1, <1>2, UsageClock DEF Next

\* The subscriptions' totals from the usage of each.
LEMMA UsageTotal ==
  ASSUME IInv, UsageInv
  PROVE  UsageExplained
<1>1. PICK at \in Places : (\A q \in Requests : Placed(at, q)) /\ \A s \in Subs : Explained(at, s)
  BY DEF UsageInv
<1>2. paid \in [Requests -> Int] /\ used \in [Subs -> Nat]
  BY DEF IInv, TypeOK
<1> DEFINE on == [s \in Subs |-> SumFunctionOnSet(Part(paid, at, Requests, s), Requests)]
           Charged == {r \in Requests : at[r] \in Subs}
           Funded == {r \in Requests : sess[r].funding = "subscription"}
<1>3. Summable(paid, Requests) /\ IsFiniteSet(Subs)
  BY <1>2, RequestsAssumption, SubsAssumption DEF Summable
<1>4. SumFunctionOnSet(on, Subs) = SumFunctionOnSet(paid, Charged)
  BY <1>3, SumGroups
<1>5. \A s \in Subs : on[s] = PaidOn(at, paid, s) /\ on[s] \in Int
  BY <1>2, PaidOnType DEF PaidOn
<1>6. SumFunctionOnSet(paid, Funded) = SumFunctionOnSet(paid, Charged)
  <2>1. Charged \in SUBSET Funded
    BY <1>1, SubsAssumption DEF Placed, NoSub
  <2>2. \A r \in Funded \ Charged : paid[r] = 0
    BY <1>1 DEF Placed, Places
  <2>3. Summable(paid, Funded)
    BY <1>3, FS_Subset DEF Summable
  <2> HIDE DEF Funded, Charged
  <2>4. \A r \in Charged : paid[r] = paid[r]
    OBVIOUS
  <2> QED BY <2>1, <2>2, <2>3, <2>4, SumFilter
<1> HIDE DEF on, Charged, Funded
<1>7. Summable(used, Subs) /\ Summable(on, Subs)
  BY <1>2, <1>3, <1>5 DEF Summable
<1>8. SumFunctionOnSet(used, Subs) <= SumFunctionOnSet(on, Subs)
  BY <1>1, <1>5, <1>7, SumLeq DEF Explained
<1>9. resets = 0 => SumFunctionOnSet(used, Subs) = SumFunctionOnSet(on, Subs)
  BY <1>1, <1>5, <1>7, SumSame DEF Explained
<1> QED BY <1>4, <1>6, <1>8, <1>9 DEF UsageExplained, SubscriptionPaid, Funded

\* In every reachable state the subscriptions together record at most what the requests
\* took from them, and exactly that much while no period has ended, for any number of
\* requests and subscriptions.
THEOREM UsageCorrect == ReserveAcked => (Spec => []UsageExplained)
<1> SUFFICES ASSUME ReserveAcked PROVE Spec => []UsageExplained
  OBVIOUS
<1>1. Init => IInv /\ UsageInv
  BY InitInv, UsageInit
<1>2. IInv /\ UsageInv /\ [Next]_vars => (IInv /\ UsageInv)'
  BY NextInv, UsageStep
<1>3. IInv /\ UsageInv => UsageExplained
  BY UsageTotal
<1> QED BY <1>1, <1>2, <1>3, PTL DEF Spec
=============================================================================
