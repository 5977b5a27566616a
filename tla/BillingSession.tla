--------------------------- MODULE BillingSession ---------------------------
(***************************************************************************)
(* The billing life cycle of relay requests (service/billing_session.go,   *)
(* service/funding_source.go): a request reserves quota from its API token *)
(* and from a funding source (the user's wallet or one of the user's       *)
(* subscriptions), is relayed upstream, and then either settles at the     *)
(* actual quota or has its reservation returned by a background goroutine. *)
(*                                                                         *)
(* All requests belong to one user and one token, so they compete for the  *)
(* same three balances.  Every database statement or transaction is one    *)
(* atomic step; requests interleave between them.  A write of a request in *)
(* Unreliable may fail ("err") or be applied although the caller gets an   *)
(* error ("lost": the acknowledgement is lost).                            *)
(*                                                                         *)
(* paid, tokPaid, fee, faulted and overLimit are history variables: what   *)
(* the request really took, and what went wrong for it.  No action reads   *)
(* them.  The quota caches in front of the database are not part of this   *)
(* module.                                                                 *)
(***************************************************************************)
EXTENDS Integers, FiniteSets, Functions

CONSTANTS
    Requests,          \* request identifiers
    Kinds,             \* the kinds of request that may arrive (see KindType)
    Subs,              \* the user's subscriptions, numbered by (end_time, id)
    Total,             \* Total[s]: amount_total of s, 0 for unlimited
    OverflowSubs,      \* subscriptions with allow_wallet_overflow
    Wallet0, Token0,   \* initial wallet and token balances
    TrustQuota,        \* common.GetTrustQuota()
    Actuals,           \* quotas a successful request may cost
    ReserveTargets,    \* targets Reserve may be called with
    MaxReserves,       \* bound: how often a request may call Reserve
    FeeQuota,          \* the violation fee
    MaxResets,         \* bound: how often a subscription period may end
    RefundAttempts,    \* refundWithRetry's maxAttempts
    Unreliable,        \* requests whose database operations may fail
    FaultKinds         \* subset of {"err", "lost"}

Prefs == {"subscription_only", "wallet_only", "wallet_first", "subscription_first"}

\* What GenRelayInfo and the price helper fix before billing starts: the
\* preference, the quota to pre-consume, whether the model is free, and which
\* plans allow the model.
KindType == [pref : Prefs, pre : Nat, playground : BOOLEAN, unlimited : BOOLEAN,
             force : BOOLEAN, free : BOOLEAN, allows : SUBSET Subs]

ASSUME RequestsAssumption == IsFiniteSet(Requests)
ASSUME SubsAssumption == Subs \subseteq Nat \ {0} /\ IsFiniteSet(Subs)
ASSUME TotalAssumption == Total \in [Subs -> Nat] /\ OverflowSubs \subseteq Subs
ASSUME KindsAssumption == Kinds \subseteq KindType
ASSUME QuotaAssumption ==
    /\ Wallet0 \in Int /\ Token0 \in Int /\ TrustQuota \in Nat
    /\ Actuals \subseteq Nat /\ ReserveTargets \subseteq Nat
    /\ MaxReserves \in Nat /\ FeeQuota \in Nat /\ MaxResets \in Nat /\ RefundAttempts \in Nat \ {0}
ASSUME FaultAssumption == Unreliable \subseteq Requests /\ FaultKinds \subseteq {"err", "lost"}

NoSub == 0

VARIABLES
    \* the database
    wallet,      \* users.quota
    token,       \* tokens.remain_quota
    used,        \* used[s]: user_subscriptions.amount_used
    due,         \* due[s]: next_reset_time has passed
    active,      \* subscriptions that are active now
    resets,      \* how many subscription periods have ended (bounds the model)
    record,      \* record[r]: status of r's SubscriptionPreConsumeRecord
    \* the requests
    kind,        \* kind[r]: the kind of request r
    pc,          \* pc[r]: next step of r's handler goroutine
    arg,         \* arg[r]: the amount the current step works with
    seen,        \* seen[r]: token_quota put in the context by the auth middleware
    sess,        \* sess[r]: r's BillingSession
    rpc,         \* rpc[r]: next step of r's refund goroutine
    reserves,    \* reserves[r]: how often r called Reserve (bounds the model)
    tries,       \* tries[r]: failed attempts of refundWithRetry
    \* history
    paid,        \* paid[r]: what r took from its funding source, net
    tokPaid,     \* tokPaid[r]: what r took from the token, net
    fee,         \* fee[r]: how much of the violation fee was charged
    faulted,     \* requests that met a database fault
    overLimit    \* requests whose refund the over-total check rejected

dbVars   == <<wallet, token, used, due, active, resets, record>>
reqVars  == <<kind, pc, arg, seen, sess, rpc, reserves, tries>>
histVars == <<paid, tokPaid, fee, faulted, overLimit>>
vars     == <<dbVars, reqVars, histVars>>

PCs == {"idle", "tryWallet", "checkSub", "trySub", "tokenCheck", "tokenDec",
        "fund", "rollback", "rollbackInsufficient", "overflow", "running",
        "reserve", "reserveToken", "reserveTokenDec", "reserveRollback",
        "settle", "settleToken", "done", "feeFunding", "feeToken", "failed",
        "rejected"}

SessionType ==
    [funding : {"none", "wallet", "subscription"}, sub : Subs \cup {NoSub},
     preConsumedQuota : Nat, tokenConsumed : Nat, extraReserved : Nat,
     consumed : Nat, trusted : BOOLEAN, fundingSettled : BOOLEAN,
     settled : BOOLEAN, refunded : BOOLEAN]

\* consumed is WalletFunding.consumed or SubscriptionFunding.preConsumed.
NewSession(funding, trusted) ==
    [funding |-> funding, sub |-> NoSub, preConsumedQuota |-> 0,
     tokenConsumed |-> 0, extraReserved |-> 0, consumed |-> 0,
     trusted |-> trusted, fundingSettled |-> FALSE,
     settled |-> FALSE, refunded |-> FALSE]

Init ==
    /\ wallet = Wallet0 /\ token = Token0
    /\ used = [s \in Subs |-> 0] /\ due = [s \in Subs |-> FALSE]
    /\ active = Subs /\ resets = 0
    /\ record = [r \in Requests |-> "none"]
    /\ kind \in [Requests -> Kinds]
    /\ pc = [r \in Requests |-> "idle"] /\ arg = [r \in Requests |-> 0]
    /\ seen = [r \in Requests |-> 0]
    /\ sess = [r \in Requests |-> NewSession("none", FALSE)]
    /\ reserves = [r \in Requests |-> 0]
    /\ rpc = [r \in Requests |-> "none"] /\ tries = [r \in Requests |-> 0]
    /\ paid = [r \in Requests |-> 0] /\ tokPaid = [r \in Requests |-> 0]
    /\ fee = [r \in Requests |-> "none"]
    /\ faulted = {} /\ overLimit = {}
-----------------------------------------------------------------------------
(***************************************************************************)
(* Database operations.  o is the outcome: "ok", "err" or "lost".          *)
(***************************************************************************)
Outcomes(r) == {"ok"} \cup (IF r \in Unreliable THEN FaultKinds ELSE {})

Note(r, o) == faulted' = IF o = "ok" THEN faulted ELSE faulted \cup {r}

\* DecreaseUserQuota(n), or IncreaseUserQuota(-n): quota = quota - n, unchecked.
AdjustUserQuota(r, n, o) ==
    IF o = "err" THEN UNCHANGED <<wallet, paid>>
    ELSE wallet' = wallet - n /\ paid' = [paid EXCEPT ![r] = @ + n]

\* DecreaseTokenQuota(n), or IncreaseTokenQuota(-n).
AdjustTokenQuota(r, n, o) ==
    IF o = "err" THEN UNCHANGED <<token, tokPaid>>
    ELSE token' = token - n /\ tokPaid' = [tokPaid EXCEPT ![r] = @ + n]

\* Mutant: a settlement records at most the total.
MutNewUsedCapped(s, n) ==
    LET m == IF used[s] + n < 0 THEN 0 ELSE used[s] + n IN
    IF Total[s] > 0 /\ m > Total[s] THEN Total[s] ELSE m

\* postConsumeUserSubscriptionDeltaTx: the new amount_used, never negative.
NewUsed(s, n) == IF used[s] + n < 0 THEN 0 ELSE used[s] + n

\* The over-total check of the same transaction (allowOverLimit = FALSE).  It
\* looks at the result only, whatever the sign of the delta.
ExceedsTotal(s, n) == Total[s] > 0 /\ NewUsed(s, n) > Total[s]

AdjustSubscription(r, s, n, o) ==
    IF o = "err" THEN UNCHANGED <<used, paid>>
    ELSE /\ used' = [used EXCEPT ![s] = NewUsed(s, n)]
         /\ paid' = [paid EXCEPT ![r] = @ + n]

\* amount_used as a pre-consume transaction sees it after
\* maybeResetUserSubscriptionWithPlanTx.
UsedAfterReset(s) == IF due[s] THEN 0 ELSE used[s]

\* Mutant: any remaining quota admits the request.
MutCandidates(r, n) ==
    {s \in active \cap kind[r].allows : Total[s] = 0 \/ Total[s] > UsedAfterReset(s)}

\* Active subscriptions whose plan allows the model and that have room for n.
Candidates(r, n) ==
    {s \in active \cap kind[r].allows :
        Total[s] = 0 \/ Total[s] - UsedAfterReset(s) >= n}

Goto(r, label) == pc' = [pc EXCEPT ![r] = label]
-----------------------------------------------------------------------------
(***************************************************************************)
(* NewBillingSession: choose a funding source and pre-consume.             *)
(***************************************************************************)
\* Authentication puts token_quota in the context, then the preference decides
\* where NewBillingSession starts.
Arrive(r) ==
    /\ pc[r] = "idle" /\ ~kind[r].free
    /\ seen' = [seen EXCEPT ![r] = IF kind[r].unlimited THEN 0 ELSE token]
    /\ Goto(r, CASE kind[r].pref = "subscription_only" -> "trySub"
                 [] kind[r].pref \in {"wallet_only", "wallet_first"} -> "tryWallet"
                 [] kind[r].pref = "subscription_first" -> "checkSub")
    /\ UNCHANGED <<dbVars, kind, arg, sess, rpc, reserves, tries, histVars>>

\* A free model is relayed without a session. SettleBilling then charges the actual
\* quota with PostConsumeQuota, wallet first and then token, and a failed request
\* has nothing to return: what a session of the wallet does that holds nothing and
\* never reserves.
SkipPreConsume(r) ==
    /\ pc[r] = "idle" /\ kind[r].free
    /\ sess' = [sess EXCEPT ![r] = NewSession("wallet", TRUE)]
    /\ Goto(r, "running")
    /\ UNCHANGED <<dbVars, kind, arg, seen, rpc, reserves, tries, histVars>>

\* A query before any write fails: the request is rejected with that error.
QueryFails(r) ==
    /\ r \in Unreliable
    /\ pc[r] \in {"checkSub", "tryWallet", "overflow", "tokenCheck"}
    /\ Goto(r, "rejected")
    /\ UNCHANGED <<dbVars, kind, arg, seen, sess, rpc, reserves, tries, histVars>>

\* subscription_first: HasActiveUserSubscription.
CheckSubscription(r) ==
    /\ pc[r] = "checkSub"
    /\ Goto(r, IF active = {} THEN "tryWallet" ELSE "trySub")
    /\ UNCHANGED <<dbVars, kind, arg, seen, sess, rpc, reserves, tries, histVars>>

\* shouldTrust for the wallet; a subscription is never trusted.
ShouldTrust(r) ==
    /\ ~kind[r].force
    /\ TrustQuota > 0
    /\ kind[r].unlimited \/ seen[r] > TrustQuota
    /\ wallet > TrustQuota

\* tryWallet up to the session's preConsume.
TryWallet(r) ==
    /\ pc[r] = "tryWallet"
    /\ IF wallet > 0 /\ wallet - kind[r].pre >= 0
       THEN LET n == IF ShouldTrust(r) THEN 0 ELSE kind[r].pre IN
            /\ sess' = [sess EXCEPT ![r] = NewSession("wallet", ShouldTrust(r))]
            /\ arg' = [arg EXCEPT ![r] = n]
            /\ Goto(r, IF n > 0 THEN "tokenCheck" ELSE "fund")
       ELSE /\ Goto(r, IF kind[r].pref = "wallet_first" THEN "trySub" ELSE "rejected")
            /\ UNCHANGED <<sess, arg>>
    /\ UNCHANGED <<dbVars, kind, seen, rpc, reserves, tries, histVars>>

\* trySubscription: at least 1 is pre-consumed.
TrySubscription(r) ==
    /\ pc[r] = "trySub"
    /\ sess' = [sess EXCEPT ![r] = NewSession("subscription", FALSE)]
    /\ arg' = [arg EXCEPT ![r] = IF kind[r].pre <= 0 THEN 1 ELSE kind[r].pre]
    /\ Goto(r, "tokenCheck")
    /\ UNCHANGED <<dbVars, kind, seen, rpc, reserves, tries, histVars>>

\* PreConsumeTokenQuota reads the token and compares; the decrement is a
\* statement of its own, so the balance may change in between.
TokenCovers(r) == kind[r].unlimited \/ token >= arg[r]

CheckToken(r) ==
    /\ pc[r] = "tokenCheck"
    /\ IF kind[r].playground
       THEN /\ sess' = [sess EXCEPT ![r].tokenConsumed = arg[r]]
            /\ Goto(r, "fund")
       ELSE /\ Goto(r, IF TokenCovers(r) THEN "tokenDec" ELSE "rejected")
            /\ UNCHANGED sess
    /\ UNCHANGED <<dbVars, kind, arg, seen, rpc, reserves, tries, histVars>>

PreConsumeToken(r) ==
    /\ pc[r] = "tokenDec"
    /\ \E o \in Outcomes(r) :
        /\ AdjustTokenQuota(r, arg[r], o)
        /\ Note(r, o)
        /\ IF o = "ok"
           THEN /\ sess' = [sess EXCEPT ![r].tokenConsumed = arg[r]]
                /\ Goto(r, "fund")
           ELSE Goto(r, "rejected") /\ UNCHANGED sess
    /\ UNCHANGED <<wallet, used, due, active, resets, record, kind, arg, seen,
                   rpc, reserves, tries, paid, fee, overLimit>>

\* preConsume succeeds: preConsumedQuota = effectiveQuota.
Granted(r, consumed, s) ==
    /\ sess' = [sess EXCEPT ![r] = [@ EXCEPT !.preConsumedQuota = arg[r],
                                           !.consumed = consumed, !.sub = s]]
    /\ Goto(r, "running")

\* WalletFunding.PreConsume
PreConsumeWallet(r) ==
    /\ pc[r] = "fund" /\ sess[r].funding = "wallet"
    /\ \E o \in Outcomes(r) :
        IF arg[r] <= 0
        THEN Granted(r, 0, NoSub) /\ UNCHANGED <<wallet, paid, faulted>>
        ELSE /\ AdjustUserQuota(r, arg[r], o)
             /\ Note(r, o)
             /\ IF o = "ok" THEN Granted(r, arg[r], NoSub)
                ELSE Goto(r, "rollback") /\ UNCHANGED sess
    /\ UNCHANGED <<token, used, due, active, resets, record, kind, arg, seen,
                   rpc, reserves, tries, tokPaid, fee, overLimit>>

\* The transaction charges s and resets, on the way there, the subscriptions
\* whose period has ended.
ChargeSubscription(r, s) ==
    LET visited == {t \in active \cap kind[r].allows : t <= s} IN
    /\ used' = [t \in Subs |->
                  IF t = s THEN UsedAfterReset(s) + arg[r]
                  ELSE IF t \in visited THEN UsedAfterReset(t)
                  ELSE used[t]]
    /\ due' = [t \in Subs |-> due[t] /\ t \notin visited]
    /\ record' = [record EXCEPT ![r] = "consumed"]
    /\ paid' = [paid EXCEPT ![r] = @ + arg[r]]

\* PreConsumeUserSubscription: one transaction that takes the first candidate in
\* end_time order.  A request comes here at most once, so its record does not
\* exist yet.  An error of the query for the subscriptions is reported as "no
\* active subscription", as if there were none.
PreConsumeSubscription(r) ==
    /\ pc[r] = "fund" /\ sess[r].funding = "subscription"
    /\ record[r] = "none"
    /\ \E o \in Outcomes(r) :
        IF o = "err" \/ Candidates(r, arg[r]) = {}
        THEN /\ \/ o # "lost" /\ Goto(r, "rollbackInsufficient")
                \/ o # "ok" /\ Goto(r, "rollback")
             /\ Note(r, o)
             /\ UNCHANGED <<used, due, record, paid, sess>>
        ELSE \E s \in Candidates(r, arg[r]) :
             /\ \A t \in Candidates(r, arg[r]) : s <= t
             /\ ChargeSubscription(r, s)
             /\ Note(r, o)
             /\ IF o = "ok" THEN Granted(r, arg[r], s)
                ELSE Goto(r, "rollback") /\ UNCHANGED sess
    /\ UNCHANGED <<wallet, token, active, resets, kind, arg, seen, rpc, reserves, tries,
                   tokPaid, fee, overLimit>>

\* preConsume's rollback of the token when the funding source refused; what
\* follows depends on the error.
AfterRollback(r) ==
    IF pc[r] = "rollbackInsufficient" /\ kind[r].pref = "subscription_first"
    THEN "overflow" ELSE "rejected"

RollbackToken(r) ==
    /\ pc[r] \in {"rollback", "rollbackInsufficient"}
    /\ \E o \in Outcomes(r) :
        IF sess[r].tokenConsumed > 0 /\ ~kind[r].playground
        THEN /\ AdjustTokenQuota(r, -sess[r].tokenConsumed, o)
             /\ Note(r, o)
             /\ sess' = [sess EXCEPT ![r].tokenConsumed = 0]
        ELSE UNCHANGED <<token, tokPaid, faulted, sess>>
    /\ Goto(r, AfterRollback(r))
    /\ UNCHANGED <<wallet, used, due, active, resets, record, kind, arg, seen,
                   rpc, reserves, tries, paid, fee, overLimit>>

\* UserActiveSubscriptionsAllowWalletOverflow
CheckOverflow(r) ==
    /\ pc[r] = "overflow"
    /\ Goto(r, IF active \subseteq OverflowSubs THEN "tryWallet" ELSE "rejected")
    /\ UNCHANGED <<dbVars, kind, arg, seen, sess, rpc, reserves, tries, histVars>>
-----------------------------------------------------------------------------
(***************************************************************************)
(* Reserve: raise the reservation of a running request to a target.        *)
(***************************************************************************)
StartReserve(r) ==
    /\ pc[r] = "running" /\ ~sess[r].trusted
    /\ reserves[r] < MaxReserves
    /\ reserves' = [reserves EXCEPT ![r] = @ + 1]
    /\ \E target \in ReserveTargets :
        /\ target > sess[r].preConsumedQuota
        /\ arg' = [arg EXCEPT ![r] = target - sess[r].preConsumedQuota]
    /\ Goto(r, "reserve")
    /\ UNCHANGED <<dbVars, kind, seen, sess, rpc, tries, histVars>>

\* reserveFunding
ReserveFunding(r) ==
    /\ pc[r] = "reserve"
    /\ \E o \in Outcomes(r) :
        /\ Note(r, o)
        /\ IF sess[r].funding = "wallet"
           THEN /\ AdjustUserQuota(r, arg[r], o)
                /\ UNCHANGED used
                /\ IF o = "ok"
                   THEN /\ sess' = [sess EXCEPT ![r].consumed = @ + arg[r]]
                        /\ Goto(r, "reserveToken")
                   ELSE Goto(r, "running") /\ UNCHANGED sess
           ELSE /\ UNCHANGED <<wallet, sess>>
                /\ IF ExceedsTotal(sess[r].sub, arg[r])
                   THEN Goto(r, "running") /\ UNCHANGED <<used, paid>>
                   ELSE /\ AdjustSubscription(r, sess[r].sub, arg[r], o)
                        /\ Goto(r, IF o = "ok" THEN "reserveToken" ELSE "running")
    /\ UNCHANGED <<token, due, active, resets, record, kind, arg, seen, rpc,
                   reserves, tries, tokPaid, fee, overLimit>>

\* Mutant: preConsumedQuota forgets the extra amount.
MutRaised(x, n) == [x EXCEPT !.tokenConsumed = x.tokenConsumed + n,
                             !.extraReserved = x.extraReserved + n]

\* The end of a successful Reserve.
Raised(x, n) == [x EXCEPT !.preConsumedQuota = x.preConsumedQuota + n,
                          !.tokenConsumed = x.tokenConsumed + n,
                          !.extraReserved = x.extraReserved + n]

Reserved(r) ==
    /\ sess' = [sess EXCEPT ![r] = Raised(sess[r], arg[r])]
    /\ Goto(r, "running")

\* reserveToken: PreConsumeTokenQuota's read, then its decrement.
ReserveTokenCheck(r) ==
    /\ pc[r] = "reserveToken"
    /\ \/ kind[r].playground /\ Reserved(r)
       \/ /\ ~kind[r].playground
          /\ Goto(r, IF TokenCovers(r) THEN "reserveTokenDec" ELSE "reserveRollback")
          /\ UNCHANGED sess
    /\ UNCHANGED <<dbVars, kind, arg, seen, rpc, reserves, tries, histVars>>

ReserveToken(r) ==
    /\ pc[r] = "reserveTokenDec"
    /\ \E o \in Outcomes(r) :
        /\ AdjustTokenQuota(r, arg[r], o)
        /\ Note(r, o)
        /\ IF o = "ok" THEN Reserved(r)
           ELSE Goto(r, "reserveRollback") /\ UNCHANGED sess
    /\ UNCHANGED <<wallet, used, due, active, resets, record, kind, arg, seen,
                   rpc, reserves, tries, paid, fee, overLimit>>

ForgetReserve(r, o) ==
    sess' = IF o = "ok" THEN [sess EXCEPT ![r].consumed = @ - arg[r]] ELSE sess

\* rollbackFundingReserve: errors are only logged, and consumed then keeps
\* counting the extra amount.
RollbackReserve(r) ==
    /\ pc[r] = "reserveRollback"
    /\ \E o \in Outcomes(r) :
        /\ Note(r, o)
        /\ IF sess[r].funding = "wallet"
           THEN /\ AdjustUserQuota(r, -arg[r], o)
                /\ ForgetReserve(r, o)
                /\ UNCHANGED <<used, overLimit>>
           ELSE /\ UNCHANGED <<wallet, sess>>
                /\ IF ExceedsTotal(sess[r].sub, -arg[r])
                   THEN overLimit' = overLimit \cup {r} /\ UNCHANGED <<used, paid>>
                   ELSE /\ AdjustSubscription(r, sess[r].sub, -arg[r], o)
                        /\ UNCHANGED overLimit
    /\ Goto(r, "running")
    /\ UNCHANGED <<token, due, active, resets, record, kind, arg, seen, rpc,
                   reserves, tries, tokPaid, fee>>
-----------------------------------------------------------------------------
(***************************************************************************)
(* The end of a request: Settle on success, Refund on failure.             *)
(***************************************************************************)
\* The upstream answered; the consume handler computed the actual quota.
Succeed(r) ==
    /\ pc[r] = "running"
    /\ \E actual \in Actuals : arg' = [arg EXCEPT ![r] = actual]
    /\ Goto(r, "settle")
    /\ UNCHANGED <<dbVars, kind, seen, sess, rpc, reserves, tries, histVars>>

Delta(r) == arg[r] - sess[r].preConsumedQuota

\* Settle, step 1: the funding source.  On an error nothing is marked and the
\* caller only logs it: the request keeps what it pre-consumed.
SettleFunding(r) ==
    /\ pc[r] = "settle"
    /\ \E o \in Outcomes(r) :
        IF Delta(r) = 0
        THEN /\ sess' = [sess EXCEPT ![r].settled = TRUE]
             /\ Goto(r, "done")
             /\ UNCHANGED <<wallet, used, paid, faulted>>
        ELSE /\ Note(r, o)
             /\ IF sess[r].funding = "wallet"
                THEN AdjustUserQuota(r, Delta(r), o) /\ UNCHANGED used
                ELSE AdjustSubscription(r, sess[r].sub, Delta(r), o) /\ UNCHANGED wallet
             /\ IF o = "ok"
                THEN /\ sess' = [sess EXCEPT ![r].fundingSettled = TRUE]
                     /\ Goto(r, "settleToken")
                ELSE Goto(r, "done") /\ UNCHANGED sess
    /\ UNCHANGED <<token, due, active, resets, record, kind, arg, seen, rpc,
                   reserves, tries, tokPaid, fee, overLimit>>

\* Settle, step 2: the token; an error does not undo the settlement.
SettleToken(r) ==
    /\ pc[r] = "settleToken"
    /\ \E o \in Outcomes(r) :
        IF kind[r].playground
        THEN UNCHANGED <<token, tokPaid, faulted>>
        ELSE AdjustTokenQuota(r, Delta(r), o) /\ Note(r, o)
    /\ sess' = [sess EXCEPT ![r].settled = TRUE]
    /\ Goto(r, "done")
    /\ UNCHANGED <<wallet, used, due, active, resets, record, kind, arg, seen,
                   rpc, reserves, tries, paid, fee, overLimit>>

\* needsRefundLocked
NeedsRefund(r) ==
    /\ ~sess[r].settled /\ ~sess[r].refunded /\ ~sess[r].fundingSettled
    /\ \/ sess[r].tokenConsumed > 0
       \/ sess[r].funding = "subscription" /\ sess[r].consumed > 0

\* The relay failed: the deferred function calls Refund, which starts the
\* refund goroutine, and then charges a violation fee if the error says so.  The
\* end of a realtime session, whose rounds were charged one by one, is the same
\* call without a fee.  No handler returns an error after it has settled or
\* refunded, so Refund is called once and never after Settle.
Fail(r) ==
    /\ pc[r] = "running"
    /\ IF NeedsRefund(r)
       THEN /\ sess' = [sess EXCEPT ![r].refunded = TRUE]
            /\ rpc' = [rpc EXCEPT ![r] = "funding"]
       ELSE UNCHANGED <<sess, rpc>>
    /\ \E next \in {"failed"} \cup (IF FeeQuota > 0 THEN {"feeFunding"} ELSE {}) :
        Goto(r, next)
    /\ UNCHANGED <<dbVars, kind, arg, seen, reserves, tries, histVars>>

\* PostConsumeQuota(FeeQuota): strict for a subscription.
FeeFunding(r) ==
    /\ pc[r] = "feeFunding"
    /\ \E o \in Outcomes(r) :
        IF sess[r].funding = "subscription" /\ ExceedsTotal(sess[r].sub, FeeQuota)
        THEN Goto(r, "failed") /\ Note(r, o) /\ UNCHANGED <<wallet, used, paid, fee>>
        ELSE /\ Note(r, o)
             /\ IF sess[r].funding = "wallet"
                THEN AdjustUserQuota(r, FeeQuota, o) /\ UNCHANGED used
                ELSE AdjustSubscription(r, sess[r].sub, FeeQuota, o) /\ UNCHANGED wallet
             /\ fee' = IF o = "err" THEN fee ELSE [fee EXCEPT ![r] = "funding"]
             /\ Goto(r, IF o = "ok" THEN "feeToken" ELSE "failed")
    /\ UNCHANGED <<token, due, active, resets, record, kind, arg, seen, sess, rpc,
                   reserves, tries, tokPaid, overLimit>>

FeeToken(r) ==
    /\ pc[r] = "feeToken"
    /\ \E o \in Outcomes(r) :
        IF kind[r].playground
        THEN UNCHANGED <<token, tokPaid, faulted, fee>>
        ELSE /\ AdjustTokenQuota(r, FeeQuota, o)
             /\ Note(r, o)
             /\ fee' = IF o = "err" THEN fee ELSE [fee EXCEPT ![r] = "both"]
    /\ Goto(r, "failed")
    /\ UNCHANGED <<wallet, used, due, active, resets, record, kind, arg, seen,
                   sess, rpc, reserves, tries, paid, overLimit>>
-----------------------------------------------------------------------------
(***************************************************************************)
(* The refund goroutine.                                                   *)
(***************************************************************************)
\* WalletFunding.Refund: not idempotent, tried once.
RefundWallet(r) ==
    /\ rpc[r] = "funding" /\ sess[r].funding = "wallet"
    /\ \E o \in Outcomes(r) :
        IF sess[r].consumed <= 0
        THEN UNCHANGED <<wallet, paid, faulted>>
        ELSE AdjustUserQuota(r, -sess[r].consumed, o) /\ Note(r, o)
    /\ rpc' = [rpc EXCEPT ![r] = "token"]
    /\ UNCHANGED <<token, used, due, active, resets, record, kind, pc, arg, seen,
                   sess, reserves, tries, tokPaid, fee, overLimit>>

\* Mutant: the record's status is not looked at.
MutRefundDue(r) == TRUE

\* What RefundSubscriptionPreConsume has to undo: nothing once the record says
\* "refunded".
RefundDue(r) == record[r] = "consumed"

\* Mutant: retry until it works.
MutRetryOrGiveUp(r, success) ==
    /\ rpc' = IF success THEN [rpc EXCEPT ![r] = "extra"] ELSE rpc
    /\ UNCHANGED tries

\* refundWithRetry around one attempt.
RetryOrGiveUp(r, success) ==
    /\ tries' = IF success THEN tries ELSE [tries EXCEPT ![r] = @ + 1]
    /\ rpc' = IF success \/ tries[r] + 1 >= RefundAttempts
              THEN [rpc EXCEPT ![r] = "extra"] ELSE rpc

\* SubscriptionFunding.Refund: RefundSubscriptionPreConsume under
\* refundWithRetry.  The amount is the record's, which is sess[r].consumed.
RefundSubscription(r) ==
    /\ rpc[r] = "funding" /\ sess[r].funding = "subscription"
    /\ \E o \in Outcomes(r) :
        LET s        == sess[r].sub
            rejected == RefundDue(r) /\ ExceedsTotal(s, -sess[r].consumed)
            success  == o = "ok" /\ ~rejected
        IN /\ Note(r, o)
           /\ overLimit' = IF rejected THEN overLimit \cup {r} ELSE overLimit
           /\ IF RefundDue(r) /\ ~rejected
              THEN /\ AdjustSubscription(r, s, -sess[r].consumed, o)
                   /\ record' = IF o = "err" THEN record
                                ELSE [record EXCEPT ![r] = "refunded"]
              ELSE UNCHANGED <<used, paid, record>>
           /\ RetryOrGiveUp(r, success)
    /\ UNCHANGED <<wallet, token, due, active, resets, kind, pc, arg, seen, sess,
                   reserves, tokPaid, fee>>

\* Mutant: only the pre-consume record is returned.
MutRefundExtra(r) ==
    /\ rpc[r] = "extra"
    /\ rpc' = [rpc EXCEPT ![r] = "token"]
    /\ UNCHANGED <<dbVars, kind, pc, arg, seen, sess, reserves, tries, histVars>>

\* The extra reservation of a subscription is returned separately, tried once.
RefundExtra(r) ==
    /\ rpc[r] = "extra"
    /\ \E o \in Outcomes(r) :
        IF sess[r].extraReserved = 0
        THEN UNCHANGED <<used, paid, faulted, overLimit>>
        ELSE IF ExceedsTotal(sess[r].sub, -sess[r].extraReserved)
        THEN overLimit' = overLimit \cup {r} /\ UNCHANGED <<used, paid, faulted>>
        ELSE /\ AdjustSubscription(r, sess[r].sub, -sess[r].extraReserved, o)
             /\ Note(r, o)
             /\ UNCHANGED overLimit
    /\ rpc' = [rpc EXCEPT ![r] = "token"]
    /\ UNCHANGED <<wallet, token, due, active, resets, record, kind, pc, arg, seen,
                   sess, reserves, tries, tokPaid, fee>>

RefundToken(r) ==
    /\ rpc[r] = "token"
    /\ \E o \in Outcomes(r) :
        IF sess[r].tokenConsumed > 0 /\ ~kind[r].playground
        THEN AdjustTokenQuota(r, -sess[r].tokenConsumed, o) /\ Note(r, o)
        ELSE UNCHANGED <<token, tokPaid, faulted>>
    /\ rpc' = [rpc EXCEPT ![r] = "finished"]
    /\ UNCHANGED <<wallet, used, due, active, resets, record, kind, pc, arg, seen,
                   sess, reserves, tries, paid, fee, overLimit>>
-----------------------------------------------------------------------------
(***************************************************************************)
(* Time: a subscription's period ends, the reset job runs, it expires.     *)
(***************************************************************************)
PeriodEnds(s) ==
    /\ resets < MaxResets /\ s \in active /\ ~due[s]
    /\ due' = [due EXCEPT ![s] = TRUE] /\ resets' = resets + 1
    /\ UNCHANGED <<wallet, token, used, active, record, reqVars, histVars>>

\* ResetDueSubscriptions
ResetDue(s) ==
    /\ due[s] /\ s \in active
    /\ used' = [used EXCEPT ![s] = 0] /\ due' = [due EXCEPT ![s] = FALSE]
    /\ UNCHANGED <<wallet, token, active, resets, record, reqVars, histVars>>

Expire(s) ==
    /\ resets < MaxResets /\ s \in active
    /\ active' = active \ {s} /\ resets' = resets + 1
    /\ UNCHANGED <<wallet, token, used, due, record, reqVars, histVars>>
-----------------------------------------------------------------------------
AdmissionStep(r) ==
    \/ Arrive(r) \/ SkipPreConsume(r) \/ CheckSubscription(r) \/ TryWallet(r) \/ TrySubscription(r)
    \/ CheckToken(r) \/ PreConsumeToken(r) \/ PreConsumeWallet(r)
    \/ PreConsumeSubscription(r) \/ RollbackToken(r) \/ CheckOverflow(r)

ReserveStep(r) ==
    \/ ReserveFunding(r) \/ ReserveTokenCheck(r) \/ ReserveToken(r)
    \/ RollbackReserve(r)

FinishStep(r) ==
    \/ Succeed(r) \/ Fail(r) \/ SettleFunding(r) \/ SettleToken(r)
    \/ FeeFunding(r) \/ FeeToken(r)

RefundStep(r) ==
    \/ RefundWallet(r) \/ RefundSubscription(r) \/ RefundExtra(r) \/ RefundToken(r)

RequestStep(r) ==
    AdmissionStep(r) \/ QueryFails(r) \/ StartReserve(r) \/ ReserveStep(r)
        \/ FinishStep(r)

Clock(s) == PeriodEnds(s) \/ ResetDue(s) \/ Expire(s)

Next == \/ \E r \in Requests : RequestStep(r) \/ RefundStep(r)
        \/ \E s \in Subs : Clock(s)

(***************************************************************************)
(* A handler goroutine keeps running until its request is answered, and    *)
(* gopool runs a submitted function; nothing forces a request to arrive,   *)
(* Reserve to be called or time to pass.                                   *)
(***************************************************************************)
Fairness == \A r \in Requests :
    /\ WF_vars(pc[r] # "idle" /\ (AdmissionStep(r) \/ ReserveStep(r)))
    /\ WF_vars(FinishStep(r))
    /\ WF_vars(RefundStep(r))

Spec == Init /\ [][Next]_vars /\ Fairness
-----------------------------------------------------------------------------
(***************************************************************************)
(* Properties.                                                             *)
(***************************************************************************)
FeeFund(r) == IF fee[r] = "none" THEN 0 ELSE FeeQuota
FeeTok(r)  == IF fee[r] = "both" THEN FeeQuota ELSE 0

\* Every variable has its type.
TypeOK ==
    /\ wallet \in Int /\ token \in Int
    /\ used \in [Subs -> Nat] /\ due \in [Subs -> BOOLEAN]
    /\ active \subseteq Subs /\ resets \in 0..MaxResets
    /\ record \in [Requests -> {"none", "consumed", "refunded"}]
    /\ kind \in [Requests -> Kinds] /\ pc \in [Requests -> PCs]
    /\ arg \in [Requests -> Nat] /\ seen \in [Requests -> Int]
    /\ sess \in [Requests -> SessionType] /\ reserves \in [Requests -> 0..MaxReserves]
    /\ rpc \in [Requests -> {"none", "funding", "extra", "token", "finished"}]
    /\ tries \in [Requests -> 0..RefundAttempts]
    /\ paid \in [Requests -> Int] /\ tokPaid \in [Requests -> Int]
    /\ fee \in [Requests -> {"none", "funding", "both"}]
    /\ faulted \subseteq Unreliable /\ overLimit \subseteq Requests

\* A request that succeeded and met no fault has paid its actual quota,
\* once, from its funding source and (unless it came from the playground) from
\* the token: Settle's delta, the trust bypass, the subscription's minimum of 1
\* and Reserve add up whatever the other requests do in between.
SettledBooks ==
    \A r \in Requests \ (faulted \cup overLimit) :
        pc[r] = "done" =>
            /\ paid[r] = arg[r]
            /\ tokPaid[r] = IF kind[r].playground THEN 0 ELSE arg[r]

\* r is over without success and nothing more will be returned to it.
Closed(r) ==
    pc[r] = "rejected" \/ (pc[r] = "failed" /\ rpc[r] \in {"none", "finished"})

\* A rejected or failed request that met no fault has paid nothing but its
\* violation fee: preConsume's rollback and Refund return every reservation,
\* including one whose token part is 0.  Exempt are refunds turned down by the
\* over-total check, see RefundReturnsReservation.
ReturnedBooks ==
    \A r \in Requests \ (faulted \cup overLimit) :
        Closed(r) => paid[r] = FeeFund(r) /\ tokPaid[r] = FeeTok(r)

\* "Refund returns all pre-consumed quota" (service/billing_session.go:81, and
\* "rejects positive deltas", model/subscription.go:2080): a failed request that
\* met no fault gets its whole reservation back.
RefundReturnsReservation ==
    \A r \in Requests \ faulted : Closed(r) => paid[r] = FeeFund(r)

\* No request is ever paid out more than it took, whatever writes fail or lose
\* their acknowledgement: a retried subscription refund is applied once and a
\* wallet refund is never retried.
NeverPaysOut == \A r \in Requests : paid[r] >= 0 /\ tokPaid[r] >= 0

SubscriptionPaid ==
    SumFunctionOnSet(paid, {r \in Requests : sess[r].funding = "subscription"})

(***************************************************************************)
(* The books of one request: the inductive invariant behind SettledBooks,  *)
(* ReturnedBooks and NeverPaysOut.                                         *)
(***************************************************************************)
EarlyPCs   == {"idle", "tryWallet", "checkSub", "trySub", "tokenCheck", "tokenDec",
               "fund", "rollback", "rollbackInsufficient", "overflow", "rejected"}
RaisingPCs == {"reserveToken", "reserveTokenDec", "reserveRollback"}
HoldingPCs == {"running", "reserve", "settle"} \cup RaisingPCs
FailedPCs  == {"feeFunding", "feeToken", "failed"}

\* What the session would still give back to the funding source...
Returnable(r) ==
    LET x      == sess[r]
        extra  == IF x.funding = "subscription" THEN x.extraReserved ELSE 0
        raised == IF x.funding = "subscription" /\ pc[r] \in RaisingPCs
                  THEN arg[r] ELSE 0
        rec    == IF x.funding = "subscription" /\ record[r] # "consumed"
                  THEN 0 ELSE x.consumed
    IN IF pc[r] \in HoldingPCs THEN x.consumed + extra + raised
       ELSE IF rpc[r] = "funding" THEN rec + extra
       ELSE IF rpc[r] = "extra" THEN extra
       ELSE 0

\* ... and to the token.
TokReturnable(r) ==
    IF /\ ~kind[r].playground
       /\ \/ pc[r] \in HoldingPCs \cup {"fund", "rollback", "rollbackInsufficient", "settleToken"}
          \/ rpc[r] \in {"funding", "extra", "token"}
    THEN sess[r].tokenConsumed ELSE 0

\* What has been charged for good.
Final(r) == FeeFund(r) + (IF pc[r] \in {"settleToken", "done"} THEN arg[r] ELSE 0)
TokFinal(r) ==
    FeeTok(r) + (IF pc[r] = "done" /\ ~kind[r].playground THEN arg[r] ELSE 0)

\* Where the handler and its refund goroutine can be, and what the session says.
Control(r) ==
    LET x == sess[r] IN
    /\ pc[r] \in EarlyPCs => x.consumed = 0 /\ x.preConsumedQuota = 0
                               /\ x.extraReserved = 0 /\ record[r] # "refunded"
    /\ pc[r] \in EarlyPCs \cup HoldingPCs => ~x.settled /\ ~x.refunded /\ ~x.fundingSettled
    /\ pc[r] \in {"idle", "tryWallet", "checkSub", "trySub", "tokenCheck", "tokenDec",
                   "fund", "rollbackInsufficient", "overflow"} => record[r] = "none"
    /\ pc[r] \in {"fund", "rollback", "rollbackInsufficient", "tokenCheck", "tokenDec"}
                  \cup HoldingPCs \cup FailedPCs \cup {"settleToken"} => x.funding # "none"
    /\ pc[r] = "fund" => x.tokenConsumed = arg[r]
    /\ pc[r] \in {"tokenDec", "reserveTokenDec"} => ~kind[r].playground
    /\ pc[r] \in HoldingPCs \cup FailedPCs =>
          /\ x.funding = "subscription" => x.sub \in Subs
          /\ x.funding = "subscription" /\ rpc[r] = "none" /\ pc[r] \in HoldingPCs => record[r] = "consumed"
    /\ pc[r] \in HoldingPCs \cup {"settleToken"} => x.tokenConsumed = x.preConsumedQuota
    /\ pc[r] \in HoldingPCs =>
          LET raised == IF pc[r] \in RaisingPCs THEN arg[r] ELSE 0 IN
          /\ x.funding = "subscription" => x.preConsumedQuota = x.consumed + x.extraReserved
          /\ x.funding = "wallet" => x.consumed >= x.preConsumedQuota + raised
          /\ x.funding = "wallet" /\ r \notin faulted => x.consumed = x.preConsumedQuota + raised
    /\ pc[r] \in RaisingPCs \cup {"reserve"} => reserves[r] > 0
    /\ rpc[r] # "none" => pc[r] \in FailedPCs
    /\ rpc[r] \in {"extra"} => x.funding = "subscription"
    /\ rpc[r] \in {"none"} => tries[r] = 0
    /\ rpc[r] = "funding" => tries[r] < RefundAttempts
    /\ fee[r] # "none" => pc[r] \in {"feeToken", "failed"}
    /\ fee[r] = "both" => pc[r] = "failed" /\ ~kind[r].playground
    /\ pc[r] = "feeToken" => fee[r] = "funding"

\* r never owes the session more than it took, and exactly that much as long as
\* nothing went wrong for it.
Ledger(r) ==
    /\ paid[r] >= Returnable(r) /\ tokPaid[r] >= TokReturnable(r)
    /\ r \notin faulted \cup overLimit =>
          paid[r] = Returnable(r) + Final(r) /\ tokPaid[r] = TokReturnable(r) + TokFinal(r)

\* In every state the reservation a session remembers is covered by what its
\* request took, and equals it while no write of the request has failed.
LedgerInv == \A r \in Requests : Control(r) /\ Ledger(r)

\* The subscriptions never record more usage than the requests took, and as long
\* as no period has ended exactly that much: no concurrent pre-consume, settlement
\* or refund of amount_used is lost or cut off at 0.
UsageExplained ==
    LET total == SumFunctionOnSet(used, Subs) IN
        /\ total <= SubscriptionPaid
        /\ resets = 0 => total = SubscriptionPaid

\* Admission is strict: only the settlement of a request that has succeeded lifts
\* amount_used above amount_total (docs/subscription-billing.md).
AdmissionIsStrict ==
    [][\A s \in Subs :
          (used'[s] > used[s] /\ Total[s] > 0 /\ used'[s] > Total[s])
              => \E r \in Requests : pc[r] = "settle" /\ pc'[r] # "settle"]_vars

\* A request that holds a reservation is eventually settled or closed, with its
\* refund goroutine finished: no error path retries for ever or forgets it.
ReservationResolved ==
    \A r \in Requests : pc[r] = "running" ~> (pc[r] = "done" \/ Closed(r))
=============================================================================
