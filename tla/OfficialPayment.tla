-------------------------- MODULE OfficialPayment --------------------------
(***************************************************************************)
(* One WeChat Pay (official) top-up order: its row in the database, the    *)
(* provider's transaction, the payer, the webhooks that credit it, the     *)
(* status query of the web console, expiry, closing and manual completion, *)
(* and the refunds an administrator starts                                 *)
(* (controller/topup_official.go, model/topup.go).                         *)
(*                                                                         *)
(* A database transaction is one step.  Calls to the provider are steps of *)
(* their own, so that other handlers run between them; LockOrder is the    *)
(* variable lock, held across provider calls by refunds and by closing.    *)
(***************************************************************************)
EXTENDS Integers, FiniteSets, FiniteSetsExt

CONSTANTS
    Money,      \* what the order costs, in the smallest refundable unit
    Credit,     \* the quota it buys
    Refunds,    \* refund request numbers (bounds how many refunds are started)
    MaxEvents   \* how often the user spends some quota or the server restarts, together

ASSUME AmountAssumption == Money \in Nat \ {0} /\ Credit \in Nat \ {0}
ASSUME BoundAssumption == IsFiniteSet(Refunds) /\ MaxEvents \in Nat

NoOne == "nobody"

ASSUME LockAssumption == Refunds \cap {"close", NoOne} = {}

VARIABLES
    \* the database
    status,     \* top_ups.status of the order
    refunded,   \* top_ups.refunded_money and refunded_quota
    refund,     \* refund[r]: the row of a refund in top_up_refunds
    quota,      \* users.quota
    \* the provider and the payer
    trade,      \* state of the provider's transaction
    hasCode,    \* the user has been given the payment code
    prov,       \* prov[r]: state of the refund at the provider
    reports,    \* results of refunds the provider has notified or answered
    \* the server's memory
    overdue,    \* the order is older than the order timeout
    lock,       \* who holds LockOrder across provider calls: a refund, "close" or nobody
    creator,    \* progress of RequestWechatPayOfficialPay
    query,      \* progress of QueryWechatPayOfficialTopUpStatus
    closer,     \* progress of AdminCloseWechatPayOfficialTopUp
    call,       \* call[r]: progress of the provider call of a refund
    \* history
    credits,    \* how often the order has been credited
    manual,     \* an administrator completed the order by hand
    undone,     \* the failure of the prepayment overwrote a completed order
    told,       \* the last status other than pending the web console was told; a completed
                \* one, refunded or not, is "success" here
    unheard,    \* refunds whose call failed for the server although the provider took it
    cut,        \* refunds a restart, or a failed write of their result, left as they were
    spent, crashes

db == <<status, refunded, refund, quota>>
provider == <<trade, hasCode, prov, reports>>
memory == <<overdue, lock, creator, query, closer, call>>
history == <<credits, manual, undone, told, unheard, cut, spent, crashes>>
vars == <<db, provider, memory, history>>

Statuses == {"none", "pending", "success", "failed", "expired", "partial_refunded", "refunded"}
Completed == {"success", "partial_refunded", "refunded"}
Final == {"SUCCESS", "REFUNDCLOSE"}
Live == {"pending", "success"}

NoRefund == [status |-> "none", money |-> 0, quota |-> 0]

LiveRefunds == {r \in Refunds : refund[r].status \in Live}

\* What the refunds of S take together.
MoneyOf(S) == SumFunctionOnSet([r \in Refunds |-> refund[r].money], S)
QuotaOf(S) == SumFunctionOnSet([r \in Refunds |-> refund[r].quota], S)

Init ==
    /\ status = "none" /\ refunded = [money |-> 0, quota |-> 0]
    /\ refund = [r \in Refunds |-> NoRefund]
    /\ quota = 0
    /\ trade = "none" /\ hasCode = FALSE
    /\ prov = [r \in Refunds |-> "none"] /\ reports = {}
    /\ overdue = FALSE /\ lock = NoOne
    /\ creator = "idle" /\ query = "idle" /\ closer = "idle"
    /\ call = [r \in Refunds |-> "idle"]
    /\ credits = 0 /\ manual = FALSE /\ undone = FALSE /\ told = "none"
    /\ unheard = {} /\ cut = {} /\ spent = 0 /\ crashes = 0

-----------------------------------------------------------------------------
(* Creating the order.                                                     *)

\* The handler stores the order before it asks the provider for a prepayment.
InsertOrder ==
    /\ status = "none"
    /\ status' = "pending" /\ creator' = "prepay"
    /\ UNCHANGED <<refunded, refund, quota, provider, overdue, lock, query, closer, call, history>>

PrepaySucceeds ==
    /\ creator = "prepay"
    /\ creator' = "done" /\ trade' = "open" /\ hasCode' = TRUE
    /\ UNCHANGED <<db, prov, reports, overdue, lock, query, closer, call, history>>

\* The provider refuses, or its answer is lost; the row the handler holds is saved
\* back whole, with status failed, whatever the row has become.
PrepayFails ==
    /\ creator = "prepay"
    /\ creator' = "done"
    /\ trade' \in {"none", "open"}
    /\ status' = "failed" /\ refunded' = [money |-> 0, quota |-> 0]
    /\ undone' = (status \in Completed)
    /\ UNCHANGED <<refund, quota, hasCode, prov, reports, overdue, lock, query, closer,
                   call, credits, manual, told, unheard, cut, spent, crashes>>

TimeoutPasses ==
    /\ status # "none" /\ ~overdue
    /\ overdue' = TRUE
    /\ UNCHANGED <<db, provider, lock, creator, query, closer, call, history>>

\* The provider honours a code until it is closed there.
Pay ==
    /\ hasCode /\ trade = "open"
    /\ trade' = "paid"
    /\ UNCHANGED <<db, hasCode, prov, reports, memory, history>>

-----------------------------------------------------------------------------
(* Crediting the order.                                                    *)

\* Mutant: the row is not checked for an earlier completion.
MutRecharge ==
    IF status # "failed"
    THEN /\ status' = "success" /\ quota' = quota + Credit /\ credits' = credits + 1
    ELSE UNCHANGED <<status, quota, credits>>

\* Mutant: expired orders are refused.
MutRechargePending ==
    IF status = "pending"
    THEN /\ status' = "success" /\ quota' = quota + Credit /\ credits' = credits + 1
    ELSE UNCHANGED <<status, quota, credits>>

\* RechargeOfficialPayment: an expired order is still credited, a failed one is refused,
\* a completed one is left alone.
RechargeOfficialPayment ==
    IF status \in {"pending", "expired"}
    THEN /\ status' = "success" /\ quota' = quota + Credit /\ credits' = credits + 1
    ELSE UNCHANGED <<status, quota, credits>>

\* WechatPayOfficialNotify: delivered any number of times, also long after the payment.
\* AdminQueryWechatPayOfficialTopUp does the same with the answer to a query.
WechatPayOfficialNotify ==
    /\ trade = "paid" /\ lock = NoOne
    /\ RechargeOfficialPayment
    /\ UNCHANGED <<refunded, refund, provider, memory, manual, undone, told, unheard, cut, spent, crashes>>

\* ManualCompleteTopUp: credits a pending or expired order without asking the provider.
AdminCompleteTopUp ==
    /\ lock = NoOne /\ status \in {"pending", "expired"}
    /\ status' = "success" /\ quota' = quota + Credit /\ credits' = credits + 1
    /\ manual' = TRUE
    /\ UNCHANGED <<refunded, refund, provider, memory, undone, told, unheard, cut, spent, crashes>>

-----------------------------------------------------------------------------
(* The status query of the web console.                                    *)

\* A status other than pending is the answer; a pending order that is overdue is expired
\* next, any other one is looked up at the provider.
QueryRead ==
    /\ query = "idle" /\ hasCode
    /\ IF status # "pending"
       THEN told' = (IF status \in Completed THEN "success" ELSE status) /\ UNCHANGED query
       ELSE query' = (IF overdue THEN "expire" ELSE "ask") /\ UNCHANGED told
    /\ UNCHANGED <<db, provider, overdue, lock, creator, closer, call,
                   credits, manual, undone, unheard, cut, spent, crashes>>

\* UpdatePendingTopUpStatus
ExpirePending == status' = IF status = "pending" THEN "expired" ELSE status

\* The answer is "expired" even if the order has been credited since it was read.
QueryExpire ==
    /\ query = "expire"
    /\ ExpirePending
    /\ query' = "idle" /\ told' = "expired"
    /\ UNCHANGED <<refunded, refund, quota, provider, overdue, lock, creator, closer, call,
                   credits, manual, undone, unheard, cut, spent, crashes>>

\* The provider has no payment, or the call fails: the status read before is the answer.
QueryUnpaid ==
    /\ query = "ask"
    /\ query' = "idle"
    /\ UNCHANGED <<db, provider, overdue, lock, creator, closer, call, history>>

QueryPaid ==
    /\ query = "ask" /\ trade = "paid"
    /\ query' = "reconcile"
    /\ UNCHANGED <<db, provider, overdue, lock, creator, closer, call, history>>

\* reconcileWechatPayOfficialTransaction; a refused order is an error without status.
QueryReconcile ==
    /\ query = "reconcile" /\ lock = NoOne
    /\ RechargeOfficialPayment
    /\ query' = "idle" /\ told' = (IF status' \in Completed THEN "success" ELSE told)
    /\ UNCHANGED <<refunded, refund, provider, overdue, lock, creator, closer, call,
                   manual, undone, unheard, cut, spent, crashes>>

-----------------------------------------------------------------------------
(* Expiry and closing.                                                     *)

\* ExpireOfficialPaymentPendingTopUpsByTimeout, run whenever a list of orders is shown.
ExpireByTimeout ==
    /\ overdue /\ status = "pending"
    /\ ExpirePending
    /\ UNCHANGED <<refunded, refund, quota, provider, memory, history>>

CloseStart ==
    /\ lock = NoOne /\ status = "pending"
    /\ lock' = "close" /\ closer' = "call"
    /\ UNCHANGED <<db, provider, overdue, creator, query, call, history>>

\* Mutant: an early return forgets the lock.
MutCloseCall ==
    /\ closer = "call" /\ closer' = "idle"
    /\ UNCHANGED <<db, provider, overdue, lock, creator, query, call, history>>

\* The provider closes a transaction that has not been paid; the answer may be lost.
CloseCall ==
    /\ closer = "call"
    /\ \/ /\ trade \in {"none", "open", "closed"}
          /\ trade' = (IF trade = "open" THEN "closed" ELSE trade)
          /\ closer' = "expire" /\ UNCHANGED lock
       \/ /\ trade' \in (IF trade = "open" THEN {"open", "closed"} ELSE {trade})
          /\ closer' = "idle" /\ lock' = NoOne
    /\ UNCHANGED <<db, hasCode, prov, reports, overdue, creator, query, call, history>>

CloseExpire ==
    /\ closer = "expire"
    /\ ExpirePending
    /\ closer' = "idle" /\ lock' = NoOne
    /\ UNCHANGED <<refunded, refund, quota, provider, overdue, creator, query, call, history>>

-----------------------------------------------------------------------------
(* Refunds.                                                                *)

\* calculateOfficialRefundQuota: proportional, rounded to the nearest, at least one; the
\* last refund takes what is left.
RefundQuota(m) ==
    LET left == Credit - refunded.quota
        share == (2 * Credit * m + Money) \div (2 * Money)
    IN IF left <= 0 THEN 0
       ELSE IF m >= Money - refunded.money THEN left
       ELSE Min({left, Max({1, share})})

\* calculateBalanceTopUpRefundPreview: unless a full refund was asked for, the money must
\* not be worth more than the quota the user still has of the order.
Refundable(m, full) ==
    LET available == Max({0, Min({Credit - refunded.quota, quota})})
    IN full \/ m <= Min({Money - refunded.money, (Money * available) \div Credit})

\* CreateOfficialPaymentRefund books the refund before the provider is asked.
CreateRefund(r, m, full) ==
    /\ refund[r].status = "none" /\ lock = NoOne
    /\ status \in {"success", "partial_refunded"}
    /\ m <= Money - refunded.money
    /\ RefundQuota(m) > 0 /\ Refundable(m, full)
    /\ refund' = [refund EXCEPT ![r] = [status |-> "pending", money |-> m, quota |-> RefundQuota(m)]]
    /\ refunded' = [money |-> refunded.money + m, quota |-> refunded.quota + RefundQuota(m)]
    /\ status' = IF refunded.money + m < Money THEN "partial_refunded" ELSE "refunded"
    /\ quota' = quota - RefundQuota(m)
    /\ lock' = r /\ call' = [call EXCEPT ![r] = "call"]
    /\ UNCHANGED <<provider, overdue, creator, query, closer, history>>

ProviderLeft == IF trade = "paid"
                THEN Money - MoneyOf({r \in Refunds : prov[r] \in {"PROCESSING", "SUCCESS"}})
                ELSE 0

\* requestWechatPayOfficialRefund: the provider takes the refund and says so, takes it and
\* is not heard, or refuses it.
CallRefund(r) ==
    /\ call[r] = "call"
    /\ \/ /\ refund[r].money <= ProviderLeft
          /\ \E s \in {"PROCESSING", "SUCCESS", "REFUNDCLOSE"} :
                /\ prov' = [prov EXCEPT ![r] = s]
                /\ reports' = IF s \in Final THEN reports \union {<<r, s>>} ELSE reports
                /\ \/ call' = [call EXCEPT ![r] = s] /\ UNCHANGED unheard
                   \/ call' = [call EXCEPT ![r] = "error"] /\ unheard' = unheard \union {r}
       \/ call' = [call EXCEPT ![r] = "error"] /\ UNCHANGED <<prov, reports, unheard>>
    /\ UNCHANGED <<db, trade, hasCode, overdue, lock, creator, query, closer,
                   credits, manual, undone, told, cut, spent, crashes>>

\* MarkTopUpRefundSuccess: only a pending refund becomes successful.
MarkRefundSuccess(r) ==
    /\ refund' = IF refund[r].status = "pending" THEN [refund EXCEPT ![r].status = "success"] ELSE refund
    /\ UNCHANGED <<status, refunded, quota>>

\* Mutant: a refund that has failed already is rolled back again.
MutMarkRefundFailed(r) ==
    /\ refund' = [refund EXCEPT ![r].status = "failed"]
    /\ refunded' = [money |-> Max({0, refunded.money - refund[r].money}),
                    quota |-> Max({0, refunded.quota - refund[r].quota})]
    /\ status' = "success"
    /\ quota' = quota + refund[r].quota

\* Mutant: only a pending refund can fail.
MutFailPending(r) ==
    IF refund[r].status = "pending"
    THEN LET money == Max({0, refunded.money - refund[r].money})
             left == Max({0, refunded.quota - refund[r].quota})
         IN /\ refund' = [refund EXCEPT ![r].status = "failed"]
            /\ refunded' = [money |-> money, quota |-> left]
            /\ status' = IF money = 0 /\ left = 0 THEN "success" ELSE "partial_refunded"
            /\ quota' = quota + refund[r].quota
    ELSE UNCHANGED <<refund, refunded, status, quota>>

\* MarkTopUpRefundFailed gives back what the refund had taken. (The referral commission and
\* the inviter's reward it also restores, in the same transaction, belong to other users.)
MarkRefundFailed(r) ==
    IF refund[r].status \in Live
    THEN LET money == Max({0, refunded.money - refund[r].money})
             left == Max({0, refunded.quota - refund[r].quota})
         IN /\ refund' = [refund EXCEPT ![r].status = "failed"]
            /\ refunded' = [money |-> money, quota |-> left]
            /\ status' = IF money = 0 /\ left = 0 THEN "success" ELSE "partial_refunded"
            /\ quota' = quota + refund[r].quota
    ELSE UNCHANGED <<refund, refunded, status, quota>>

MarkRefund(r, s) == IF s = "SUCCESS" THEN MarkRefundSuccess(r) ELSE MarkRefundFailed(r)

\* Mutant: anything but SUCCESS is taken for a failure.
MutFinishRefund(r) ==
    /\ call[r] \in {"PROCESSING", "error"} \union Final
    /\ MarkRefund(r, call[r])
    /\ call' = [call EXCEPT ![r] = "idle"] /\ lock' = NoOne
    /\ UNCHANGED <<provider, overdue, creator, query, closer, history>>

\* The end of executeOfficialPaymentRefund; a refund in progress is left pending, and so is
\* one whose result cannot be written: the error is logged or returned, nothing tries again.
FinishRefund(r) ==
    /\ call[r] \in {"PROCESSING", "error"} \union Final
    /\ \/ call[r] = "PROCESSING" /\ UNCHANGED <<db, cut>>
       \/ call[r] # "PROCESSING" /\ MarkRefund(r, call[r]) /\ UNCHANGED cut
       \/ call[r] # "PROCESSING" /\ cut' = cut \union {r} /\ UNCHANGED db
    /\ call' = [call EXCEPT ![r] = "idle"] /\ lock' = NoOne
    /\ UNCHANGED <<provider, overdue, creator, query, closer,
                   credits, manual, undone, told, unheard, spent, crashes>>

\* The provider decides a refund it took; a bank may still reject a successful one.
ProviderDecides(r) ==
    /\ \/ prov[r] = "PROCESSING" /\ \E s \in Final : prov' = [prov EXCEPT ![r] = s]
       \/ prov[r] = "SUCCESS" /\ prov' = [prov EXCEPT ![r] = "REFUNDCLOSE"]
    /\ reports' = reports \union {<<r, prov'[r]>>}
    /\ UNCHANGED <<db, trade, hasCode, memory, history>>

\* handleWechatPayOfficialRefundNotify and AdminQueryWechatPayOfficialRefund apply what the
\* provider once said, without the order's lock, in any order and any number of times; one
\* that cannot be written is answered with an error and sent again.
ReportRefund(r, s) ==
    /\ <<r, s>> \in reports
    /\ MarkRefund(r, s)
    /\ UNCHANGED <<provider, memory, history>>

-----------------------------------------------------------------------------
(* The rest of the system.                                                 *)

Spend ==
    /\ spent + crashes < MaxEvents /\ quota > 0
    /\ quota' = quota - 1 /\ spent' = spent + 1
    /\ UNCHANGED <<status, refunded, refund, provider, memory,
                   credits, manual, undone, told, unheard, cut, crashes>>

\* A restart ends every handler and frees every lock.
Crash ==
    /\ spent + crashes < MaxEvents
    /\ creator' = (IF creator = "prepay" THEN "done" ELSE creator)
    /\ query' = "idle" /\ closer' = "idle" /\ lock' = NoOne
    /\ call' = [r \in Refunds |-> "idle"]
    /\ cut' = cut \union {r \in Refunds : call[r] # "idle"}
    /\ crashes' = crashes + 1
    /\ UNCHANGED <<db, provider, overdue, credits, manual, undone, told, unheard, spent>>

Next ==
    \/ InsertOrder \/ PrepaySucceeds \/ PrepayFails \/ TimeoutPasses \/ Pay
    \/ WechatPayOfficialNotify \/ AdminCompleteTopUp
    \/ QueryRead \/ QueryExpire \/ QueryUnpaid \/ QueryPaid \/ QueryReconcile
    \/ ExpireByTimeout \/ CloseStart \/ CloseCall \/ CloseExpire
    \/ \E r \in Refunds :
        \/ \E m \in 1..Money, full \in BOOLEAN : CreateRefund(r, m, full)
        \/ CallRefund(r) \/ FinishRefund(r) \/ ProviderDecides(r)
        \/ \E s \in Final : ReportRefund(r, s)
    \/ Spend \/ Crash

\* The handler that holds the lock goes on.
LockedStep == CloseCall \/ CloseExpire \/ \E r \in Refunds : CallRefund(r) \/ FinishRefund(r)

\* Handlers run to their end; the provider decides every refund it took and repeats its
\* notifications until they are accepted. A Go mutex is handed to those who wait for it, so
\* administrators who close the order again and again cannot lock a webhook out.
Fairness ==
    /\ SF_vars(WechatPayOfficialNotify)
    /\ WF_vars(LockedStep)
    /\ \A r \in Refunds :
        /\ WF_vars(prov[r] = "PROCESSING" /\ ProviderDecides(r))
        /\ \A s \in Final : WF_vars(ReportRefund(r, s))

Spec == Init /\ [][Next]_vars /\ Fairness
-----------------------------------------------------------------------------
(* Properties.                                                             *)

\* Every row, the provider's states and the progress of every handler have their type, and
\* the lock is held exactly while a refund or a closing of this order talks to the provider.
TypeOK ==
    /\ status \in Statuses /\ refunded \in [money : 0..Money, quota : 0..Credit]
    /\ refund \in [Refunds -> [status : {"none", "pending", "success", "failed"},
                               money : 0..Money, quota : 0..Credit]]
    /\ quota \in Int /\ trade \in {"none", "open", "paid", "closed"} /\ hasCode \in BOOLEAN
    /\ prov \in [Refunds -> {"none", "PROCESSING"} \union Final] /\ reports \subseteq Refunds \X Final
    /\ overdue \in BOOLEAN /\ creator \in {"idle", "prepay", "done"}
    /\ query \in {"idle", "expire", "ask", "reconcile"} /\ closer \in {"idle", "call", "expire"}
    /\ call \in [Refunds -> {"idle", "call", "error", "PROCESSING"} \union Final]
    /\ credits \in Nat /\ manual \in BOOLEAN /\ undone \in BOOLEAN /\ told \in Statuses
    /\ unheard \subseteq Refunds /\ cut \subseteq Refunds
    /\ spent \in Nat /\ crashes \in Nat /\ spent + crashes <= MaxEvents
    /\ (lock = "close") <=> (closer # "idle")
    /\ \A r \in Refunds : (lock = r) <=> (call[r] # "idle")

\* Webhooks, the active query and manual completion race with each other, with expiry and
\* with refunds, and RechargeOfficialPayment accepts expired orders again: the quota of an
\* order is granted at most once, it is granted exactly when the order says so, and never
\* without a payment or an administrator. Nor does the status query say more than that: it
\* answers success only after the quota was granted, and expired only if the order has left
\* pending for good, although it may have been credited while the query was expiring it.
CreditedOnce ==
    /\ credits = (IF status \in Completed \/ undone THEN 1 ELSE 0)
    /\ credits = 1 => trade = "paid" \/ manual
    /\ told \in Completed => credits = 1
    /\ told = "expired" => status \notin {"none", "pending"}

\* The order's refund totals, its status and the user's quota are those of the refunds that
\* are pending or successful, whatever order refunds fail in and however the last one was
\* rounded; no order returns more than it cost. (A failed prepayment that is saved over a
\* completed order wipes the totals, so such an order is exempt.)
Books ==
    LET money == MoneyOf(LiveRefunds)
        taken == QuotaOf(LiveRefunds)
    IN undone
       \/ /\ refunded = [money |-> money, quota |-> taken]
          /\ quota + spent = credits * Credit - taken
          /\ credits = 1 => status = (IF money = 0 THEN "success"
                                      ELSE IF money < Money THEN "partial_refunded" ELSE "refunded")
          /\ money = Money => taken = Credit

\* Webhooks of refunds take no lock, come twice, late and out of order, and the call itself
\* may fail after the provider took the refund. A refund is rolled back while the provider
\* pays it only if the provider was not heard; one recorded as successful was paid, or the
\* message that it was rejected is on its way; and one that is pending is known to the
\* provider or about to be sent, unless a restart came between booking and sending it or the
\* rollback of a refused one failed, which is only logged: then its quota stays taken.
RefundTruth ==
    \A r \in Refunds :
        /\ refund[r].status = "failed" /\ prov[r] \in {"PROCESSING", "SUCCESS"} => r \in unheard
        /\ refund[r].status = "success" => prov[r] = "SUCCESS" \/ <<r, "REFUNDCLOSE">> \in reports
        /\ refund[r].status = "pending" /\ prov[r] = "none" => r \in cut \/ lock = r

\* A paid order is credited in the end, also when it expired before the payment was seen and
\* whatever closing, status queries and restarts come in between.
PaidIsCredited == trade = "paid" ~> credits = 1

\* Once the provider's word on a refund is final the local refund agrees with it for good,
\* unless the server had taken the call for failed.
RefundsAgree ==
    <>[](\A r \in Refunds : \/ r \in unheard \/ prov[r] = "none"
                            \/ prov[r] = "SUCCESS" /\ refund[r].status = "success"
                            \/ prov[r] = "REFUNDCLOSE" /\ refund[r].status = "failed")

=============================================================================
