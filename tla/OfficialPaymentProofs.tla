----------------------- MODULE OfficialPaymentProofs -----------------------
(***************************************************************************)
(* Proofs about OfficialPayment: its types, CreditedOnce, RefundTruth and  *)
(* Books, for all values of the constants.                                 *)
(***************************************************************************)
EXTENDS OfficialPayment, SumLemmas

USE DEF Statuses, Completed, Final, Live, NoRefund

\* The library's Max of two numbers is the larger one.
LEMMA MaxOfTwo ==
    ASSUME NEW a \in Int, NEW b \in Int
    PROVE  Max({a, b}) \in Int /\ Max({a, b}) = IF a >= b THEN a ELSE b
<1>1. CASE a >= b
  <2>1. a \in {a, b} /\ \A y \in {a, b} : a >= y
    BY <1>1
  <2>2. \A x \in {a, b} : (\A y \in {a, b} : x >= y) => x = a
    BY <1>1
  <2> QED BY <1>1, <2>1, <2>2 DEF Max
<1>2. CASE ~(a >= b)
  <2>1. b \in {a, b} /\ \A y \in {a, b} : b >= y
    BY <1>2
  <2>2. \A x \in {a, b} : (\A y \in {a, b} : x >= y) => x = b
    BY <1>2
  <2> QED BY <1>2, <2>1, <2>2 DEF Max
<1> QED BY <1>1, <1>2

\* The library's Min of two numbers is the smaller one.
LEMMA MinOfTwo ==
    ASSUME NEW a \in Int, NEW b \in Int
    PROVE  Min({a, b}) \in Int /\ Min({a, b}) = IF a <= b THEN a ELSE b
<1>1. CASE a <= b
  <2>1. a \in {a, b} /\ \A y \in {a, b} : a <= y
    BY <1>1
  <2>2. \A x \in {a, b} : (\A y \in {a, b} : x <= y) => x = a
    BY <1>1
  <2> QED BY <1>1, <2>1, <2>2 DEF Min
<1>2. CASE ~(a <= b)
  <2>1. b \in {a, b} /\ \A y \in {a, b} : b <= y
    BY <1>2
  <2>2. \A x \in {a, b} : (\A y \in {a, b} : x <= y) => x = b
    BY <1>2
  <2> QED BY <1>2, <2>1, <2>2 DEF Min
<1> QED BY <1>1, <1>2

\* calculateOfficialRefundQuota never takes more quota than is left of the order, however
\* the share is rounded, and the refund of the rest takes all of it.
LEMMA QuotaFits ==
    ASSUME TypeOK, NEW m \in 1..Money
    PROVE  /\ RefundQuota(m) \in Int
           /\ RefundQuota(m) <= Credit - refunded.quota
           /\ m >= Money - refunded.money => RefundQuota(m) = Credit - refunded.quota
<1> DEFINE left == Credit - refunded.quota
           share == (2 * Credit * m + Money) \div (2 * Money)
<1>1. left \in Nat /\ Money - refunded.money \in Nat
  BY AmountAssumption DEF TypeOK
<1>2. share \in Int
  BY AmountAssumption
<1>3. RefundQuota(m) = IF left <= 0 THEN 0
                       ELSE IF m >= Money - refunded.money THEN left
                       ELSE Min({left, Max({1, share})})
  BY DEF RefundQuota
<1> HIDE DEF left, share
<1>4. Max({1, share}) \in Int
  BY <1>2, MaxOfTwo
<1>5. PICK k \in Int : k = Max({1, share})
  BY <1>4
<1>6. Min({left, k}) \in Int /\ Min({left, k}) <= left
  BY <1>1, MinOfTwo
<1>7. RefundQuota(m) \in Int /\ RefundQuota(m) <= left
  BY <1>1, <1>3, <1>5, <1>6
<1>8. m >= Money - refunded.money => RefundQuota(m) = left
  BY <1>1, <1>3
<1> QED BY <1>7, <1>8 DEF left
\* What MarkTopUpRefundFailed does to the refund of a row it accepts.
RolledBack(r) ==
    /\ refund' = [refund EXCEPT ![r].status = "failed"]
    /\ refunded' = [money |-> IF refund[r].money <= refunded.money THEN refunded.money - refund[r].money ELSE 0,
                    quota |-> IF refund[r].quota <= refunded.quota THEN refunded.quota - refund[r].quota ELSE 0]
    /\ status' = IF refunded'.money = 0 /\ refunded'.quota = 0 THEN "success" ELSE "partial_refunded"
    /\ quota' = quota + refund[r].quota

\* The amounts of the order and of its refunds.
LEMMA RowTypes ==
    ASSUME TypeOK, NEW r \in Refunds
    PROVE  /\ refunded.money \in 0..Money /\ refunded.quota \in 0..Credit
           /\ refund[r].money \in 0..Money /\ refund[r].quota \in 0..Credit
           /\ refund[r].status \in {"none", "pending", "success", "failed"}
           /\ refunded = [money |-> refunded.money, quota |-> refunded.quota]
  BY DEF TypeOK

\* A failed refund that was pending or successful is rolled back.
LEMMA FailedEffect ==
    ASSUME TypeOK, NEW r \in Refunds, MarkRefundFailed(r), refund[r].status \in Live
    PROVE  RolledBack(r)
<1> DEFINE money == Max({0, refunded.money - refund[r].money})
           left == Max({0, refunded.quota - refund[r].quota})
<1>1. /\ refund' = [refund EXCEPT ![r].status = "failed"]
      /\ refunded' = [money |-> money, quota |-> left]
      /\ status' = IF money = 0 /\ left = 0 THEN "success" ELSE "partial_refunded"
      /\ quota' = quota + refund[r].quota
  BY DEF MarkRefundFailed
<1>2. /\ refunded.money \in Int /\ refunded.quota \in Int
      /\ refund[r].money \in Int /\ refund[r].quota \in Int
  BY RowTypes, AmountAssumption
<1>3. PICK a \in Int, b \in Int : a = refunded.money - refund[r].money /\ b = refunded.quota - refund[r].quota
  BY <1>2
<1>4. /\ Max({0, a}) = IF 0 >= a THEN 0 ELSE a
      /\ Max({0, b}) = IF 0 >= b THEN 0 ELSE b
  BY MaxOfTwo
<1>5. /\ money = IF refund[r].money <= refunded.money THEN refunded.money - refund[r].money ELSE 0
      /\ left = IF refund[r].quota <= refunded.quota THEN refunded.quota - refund[r].quota ELSE 0
  BY <1>2, <1>3, <1>4
<1>6. refunded'.money = money /\ refunded'.quota = left
  BY <1>1
<1> HIDE DEF money, left
<1> QED BY <1>1, <1>5, <1>6 DEF RolledBack

\* Marking a refund changes nothing, makes a pending refund successful, or rolls it back.
LEMMA MarkEffect ==
    ASSUME TypeOK, NEW r \in Refunds, NEW s, MarkRefund(r, s)
    PROVE  \/ UNCHANGED db
           \/ /\ s = "SUCCESS" /\ refund[r].status = "pending"
              /\ refund' = [refund EXCEPT ![r].status = "success"]
              /\ UNCHANGED <<status, refunded, quota>>
           \/ /\ s # "SUCCESS" /\ refund[r].status \in Live
              /\ RolledBack(r)
<1>1. CASE s = "SUCCESS"
  BY <1>1 DEF MarkRefund, MarkRefundSuccess, db
<1>2. CASE s # "SUCCESS"
  <2>1. MarkRefundFailed(r)
    BY <1>2 DEF MarkRefund
  <2>2. CASE refund[r].status \in Live
    BY <1>2, <2>1, <2>2, FailedEffect
  <2>3. CASE refund[r].status \notin Live
    BY <2>1, <2>3 DEF MarkRefundFailed, db
  <2> QED BY <2>2, <2>3
<1> QED BY <1>1, <1>2

\* The database's part of TypeOK.
RowsOK == /\ status \in Statuses /\ refunded \in [money : 0..Money, quota : 0..Credit]
          /\ refund \in [Refunds -> [status : {"none", "pending", "success", "failed"},
                                     money : 0..Money, quota : 0..Credit]]
          /\ quota \in Int

\* Marking a refund keeps the rows within their types.
LEMMA MarkTypes ==
    ASSUME TypeOK, NEW r \in Refunds, NEW s, MarkRefund(r, s)
    PROVE  RowsOK'
<1> USE AmountAssumption
<1>1. CASE UNCHANGED db
  BY <1>1 DEF TypeOK, RowsOK, db
<1>2. CASE refund' = [refund EXCEPT ![r].status = "success"] /\ UNCHANGED <<status, refunded, quota>>
  BY <1>2 DEF TypeOK, RowsOK
<1>3. CASE RolledBack(r)
  <2>1. refunded' \in [money : 0..Money, quota : 0..Credit]
    BY <1>3, RowTypes DEF RolledBack
  <2>2. refund' \in [Refunds -> [status : {"none", "pending", "success", "failed"},
                                 money : 0..Money, quota : 0..Credit]]
    BY <1>3 DEF RolledBack, TypeOK
  <2>3. status' \in Statuses /\ quota' \in Int
    BY <1>3, RowTypes DEF RolledBack, TypeOK
  <2> QED BY <2>1, <2>2, <2>3 DEF RowsOK
<1> QED BY <1>1, <1>2, <1>3, MarkEffect
\* The types hold at the start.
LEMMA TypeInit == Init => TypeOK
<1> SUFFICES ASSUME Init PROVE TypeOK
  OBVIOUS
<1> USE AmountAssumption, BoundAssumption, LockAssumption DEF Init, NoOne
<1>1. RowsOK
  BY DEF RowsOK
<1>2. ((lock = "close") <=> (closer # "idle")) /\ \A r \in Refunds : (lock = r) <=> (call[r] # "idle")
  OBVIOUS
<1>3. credits \in Nat /\ spent \in Nat /\ crashes \in Nat /\ spent + crashes <= MaxEvents
  OBVIOUS
<1>4. /\ prov \in [Refunds -> {"none", "PROCESSING"} \union Final]
      /\ call \in [Refunds -> {"idle", "call", "error", "PROCESSING"} \union Final]
  OBVIOUS
<1> QED BY <1>1, <1>2, <1>3, <1>4 DEF RowsOK, TypeOK

\* Whoever holds the order's lock is the only one who talks to the provider.
LEMMA LockFacts ==
    ASSUME TypeOK
    PROVE  /\ lock = NoOne => closer = "idle" /\ \A r \in Refunds : call[r] = "idle"
           /\ \A r \in Refunds : call[r] # "idle" => closer = "idle" /\ \A q \in Refunds \ {r} : call[q] = "idle"
  BY LockAssumption DEF TypeOK, NoOne

\* Booking a refund keeps the types: it never takes more than is left.
LEMMA CreateTypes ==
    ASSUME TypeOK, NEW r \in Refunds, NEW m \in 1..Money, NEW full \in BOOLEAN, CreateRefund(r, m, full)
    PROVE  TypeOK'
<1> USE AmountAssumption
<1>1. RefundQuota(m) \in Int /\ RefundQuota(m) <= Credit - refunded.quota /\ RefundQuota(m) > 0
  BY QuotaFits DEF CreateRefund
<1>2. PICK n \in Int : n = RefundQuota(m)
  BY <1>1
<1>3. refunded.money \in 0..Money /\ refunded.quota \in 0..Credit
  BY RowTypes
<1>4. n \in 0..Credit /\ refunded.quota + n \in 0..Credit /\ refunded.money + m \in 0..Money
  BY <1>1, <1>2, <1>3 DEF CreateRefund
<1>5. RowsOK'
  BY <1>2, <1>4 DEF CreateRefund, RowsOK, TypeOK
<1>6. (lock' = "close" <=> closer' # "idle") /\ \A q \in Refunds : (lock' = q <=> call'[q] # "idle")
  BY LockAssumption, LockFacts DEF CreateRefund, TypeOK
<1> QED BY <1>5, <1>6 DEF CreateRefund, RowsOK, TypeOK, provider, history

\* Calling the provider keeps the types.
LEMMA CallTypes ==
    ASSUME TypeOK, NEW r \in Refunds, CallRefund(r) PROVE TypeOK'
<1>1. /\ UNCHANGED <<db, trade, hasCode, overdue, lock, creator, query, closer,
                     credits, manual, undone, told, cut, spent, crashes>>
      /\ call' \in [Refunds -> {"idle", "call", "error", "PROCESSING"} \union Final]
      /\ prov' \in [Refunds -> {"none", "PROCESSING"} \union Final]
      /\ reports' \subseteq Refunds \X Final /\ unheard' \subseteq Refunds
      /\ call[r] # "idle" /\ call'[r] # "idle" /\ \A q \in Refunds \ {r} : call'[q] = call[q]
  BY DEF CallRefund, TypeOK
<1> QED BY <1>1 DEF TypeOK, db

\* The end of a refund keeps the types and frees the lock.
LEMMA FinishTypes ==
    ASSUME TypeOK, NEW r \in Refunds, FinishRefund(r) PROVE TypeOK'
<1>1. RowsOK'
  <2>1. CASE UNCHANGED db
    BY <2>1 DEF RowsOK, TypeOK, db
  <2>2. CASE MarkRefund(r, call[r])
    BY <2>2, MarkTypes
  <2> QED BY <2>1, <2>2 DEF FinishRefund
<1>2. (lock' = "close" <=> closer' # "idle") /\ \A q \in Refunds : (lock' = q <=> call'[q] # "idle")
  BY LockAssumption, LockFacts DEF FinishRefund, TypeOK, NoOne
<1>3. /\ UNCHANGED <<provider, overdue, creator, query, closer, credits, manual, undone, told,
                     unheard, spent, crashes>>
      /\ call' \in [Refunds -> {"idle", "call", "error", "PROCESSING"} \union Final]
      /\ cut' \subseteq Refunds
  BY DEF FinishRefund, TypeOK
<1> QED BY <1>1, <1>2, <1>3 DEF RowsOK, TypeOK, provider

\* A late report keeps the types.
LEMMA ReportTypes ==
    ASSUME TypeOK, NEW r \in Refunds, NEW s \in Final, ReportRefund(r, s) PROVE TypeOK'
<1>1. RowsOK'
  BY MarkTypes DEF ReportRefund
<1>2. UNCHANGED <<provider, memory, history>>
  BY DEF ReportRefund
<1> QED BY <1>1, <1>2 DEF RowsOK, TypeOK, provider, memory, history

\* Every step keeps the types.
LEMMA TypeStep == TypeOK /\ [Next]_vars => TypeOK'
<1> SUFFICES ASSUME TypeOK, [Next]_vars PROVE TypeOK'
  OBVIOUS
<1> USE AmountAssumption, BoundAssumption, LockAssumption
    DEF NoOne, db, provider, memory, history
<1>1. CASE InsertOrder
  BY <1>1 DEF InsertOrder, TypeOK
<1>2. CASE PrepaySucceeds
  BY <1>2 DEF PrepaySucceeds, TypeOK
<1>3. CASE PrepayFails
  BY <1>3 DEF PrepayFails, TypeOK
<1>4. CASE TimeoutPasses
  BY <1>4 DEF TimeoutPasses, TypeOK
<1>5. CASE Pay
  BY <1>5 DEF Pay, TypeOK
<1>6. CASE WechatPayOfficialNotify
  BY <1>6 DEF WechatPayOfficialNotify, RechargeOfficialPayment, TypeOK
<1>7. CASE AdminCompleteTopUp
  BY <1>7 DEF AdminCompleteTopUp, TypeOK
<1>8. CASE QueryRead
  BY <1>8 DEF QueryRead, TypeOK
<1>9. CASE QueryExpire
  BY <1>9 DEF QueryExpire, ExpirePending, TypeOK
<1>10. CASE QueryUnpaid
  BY <1>10 DEF QueryUnpaid, TypeOK
<1>11. CASE QueryPaid
  BY <1>11 DEF QueryPaid, TypeOK
<1>12. CASE QueryReconcile
  BY <1>12 DEF QueryReconcile, RechargeOfficialPayment, TypeOK
<1>13. CASE ExpireByTimeout
  BY <1>13 DEF ExpireByTimeout, ExpirePending, TypeOK
<1>14. CASE CloseStart
  BY <1>14 DEF CloseStart, TypeOK
<1>15. CASE CloseCall
  BY <1>15 DEF CloseCall, TypeOK
<1>16. CASE CloseExpire
  BY <1>16 DEF CloseExpire, ExpirePending, TypeOK
<1>17. ASSUME NEW r \in Refunds, NEW m \in 1..Money, NEW full \in BOOLEAN, CreateRefund(r, m, full)
       PROVE  TypeOK'
  BY <1>17, CreateTypes
<1>18. ASSUME NEW r \in Refunds, CallRefund(r) PROVE TypeOK'
  BY <1>18, CallTypes
<1>19. ASSUME NEW r \in Refunds, FinishRefund(r) PROVE TypeOK'
  BY <1>19, FinishTypes
<1>20. ASSUME NEW r \in Refunds, ProviderDecides(r) PROVE TypeOK'
  BY <1>20 DEF ProviderDecides, TypeOK
<1>21. ASSUME NEW r \in Refunds, NEW s \in Final, ReportRefund(r, s) PROVE TypeOK'
  BY <1>21, ReportTypes
<1>22. CASE Spend
  BY <1>22 DEF Spend, TypeOK
<1>23. CASE Crash
  BY <1>23 DEF Crash, TypeOK
<1>24. CASE UNCHANGED vars
  BY <1>24 DEF vars, TypeOK
<1> QED
  BY <1>1, <1>2, <1>3, <1>4, <1>5, <1>6, <1>7, <1>8, <1>9, <1>10, <1>11, <1>12, <1>13, <1>14,
     <1>15, <1>16, <1>17, <1>18, <1>19, <1>20, <1>21, <1>22, <1>23, <1>24 DEF Next

\* For every price, quota, number of refunds and restarts: all rows and handlers keep their
\* types, the refunded amounts stay within the order, and the lock is held exactly while a
\* refund or a closing talks to the provider.
THEOREM TypeCorrect == Spec => []TypeOK
  BY TypeInit, TypeStep, PTL DEF Spec
\* How far the order has come: there is a row once the handler stored it, nobody can pay or
\* ask for the status before the code was given out, the query credits only what was paid,
\* and an order whose completion was overwritten is not pending again.
Created ==
    /\ (status = "none") <=> (creator = "idle")
    /\ creator # "done" => trade = "none" /\ undone = FALSE
    /\ hasCode => creator = "done"
    /\ query # "idle" => hasCode
    /\ query = "reconcile" => trade = "paid"
    /\ undone => status \notin {"none", "pending", "expired"}
    /\ \A r \in Refunds : refund[r].status # "none" => credits = 1

\* The inductive invariant behind CreditedOnce.
OrderInv == TypeOK /\ Created /\ CreditedOnce

\* It holds at the start.
LEMMA OrderInit == Init => OrderInv
<1> SUFFICES ASSUME Init PROVE Created /\ CreditedOnce
  BY TypeInit DEF OrderInv
<1> QED BY DEF Init, Created, CreditedOnce

\* Marking a refund does not disturb it: only a credited order has refunds.
LEMMA MarkOrder ==
    ASSUME OrderInv, NEW r \in Refunds, NEW s, MarkRefund(r, s),
           UNCHANGED <<trade, hasCode, creator, credits, manual, undone, told>>,
           query' = query
    PROVE  Created' /\ CreditedOnce'
<1>1. TypeOK /\ Created /\ CreditedOnce
  BY DEF OrderInv
<1>2. refund[r].status \in Live => credits = 1
  BY <1>1 DEF Created
<1>3. \A q \in Refunds : refund'[q].status # "none" => refund[q].status # "none"
  BY <1>1, MarkEffect DEF RolledBack, TypeOK, db
<1>4. status' = status \/ (credits = 1 /\ status' \in {"success", "partial_refunded"})
  BY <1>1, <1>2, MarkEffect DEF RolledBack, TypeOK, db
<1>5. credits = 1 => status # "none"
  BY <1>1 DEF Created, CreditedOnce
<1>6. status' = "none" <=> status = "none"
  BY <1>4, <1>5
<1>7. Created'
  BY <1>1, <1>3, <1>4, <1>6 DEF Created
<1>8. CreditedOnce'
  BY <1>1, <1>4, <1>6 DEF CreditedOnce
<1> QED BY <1>7, <1>8

\* Every step keeps it.
LEMMA OrderStep == OrderInv /\ [Next]_vars => OrderInv'
<1> SUFFICES ASSUME OrderInv, [Next]_vars PROVE Created' /\ CreditedOnce'
  BY TypeStep DEF OrderInv
<1>0. TypeOK /\ Created /\ CreditedOnce
  BY DEF OrderInv
<1> USE <1>0 DEF db, provider, memory, history
<1>1. CASE InsertOrder
  BY <1>1 DEF InsertOrder, TypeOK, Created, CreditedOnce
<1>2. CASE PrepaySucceeds
  BY <1>2 DEF PrepaySucceeds, TypeOK, Created, CreditedOnce
<1>3. CASE PrepayFails
  BY <1>3 DEF PrepayFails, TypeOK, Created, CreditedOnce
<1>4. CASE TimeoutPasses
  BY <1>4 DEF TimeoutPasses, TypeOK, Created, CreditedOnce
<1>5. CASE Pay
  BY <1>5 DEF Pay, TypeOK, Created, CreditedOnce
<1>6. CASE WechatPayOfficialNotify
  BY <1>6 DEF WechatPayOfficialNotify, RechargeOfficialPayment, TypeOK, Created, CreditedOnce
<1>7. CASE AdminCompleteTopUp
  BY <1>7 DEF AdminCompleteTopUp, TypeOK, Created, CreditedOnce
<1>8. CASE QueryRead
  BY <1>8 DEF QueryRead, TypeOK, Created, CreditedOnce
<1>9. CASE QueryExpire
  BY <1>9 DEF QueryExpire, ExpirePending, TypeOK, Created, CreditedOnce
<1>10. CASE QueryUnpaid
  BY <1>10 DEF QueryUnpaid, TypeOK, Created, CreditedOnce
<1>11. CASE QueryPaid
  BY <1>11 DEF QueryPaid, TypeOK, Created, CreditedOnce
<1>12. CASE QueryReconcile
  BY <1>12 DEF QueryReconcile, RechargeOfficialPayment, TypeOK, Created, CreditedOnce
<1>13. CASE ExpireByTimeout
  BY <1>13 DEF ExpireByTimeout, ExpirePending, TypeOK, Created, CreditedOnce
<1>14. CASE CloseStart
  BY <1>14 DEF CloseStart, TypeOK, Created, CreditedOnce
<1>15. CASE CloseCall
  BY <1>15 DEF CloseCall, TypeOK, Created, CreditedOnce
<1>16. CASE CloseExpire
  BY <1>16 DEF CloseExpire, ExpirePending, TypeOK, Created, CreditedOnce
<1>17. ASSUME NEW r \in Refunds, NEW m \in 1..Money, NEW full \in BOOLEAN, CreateRefund(r, m, full)
       PROVE  Created' /\ CreditedOnce'
  BY <1>17 DEF CreateRefund, TypeOK, Created, CreditedOnce
<1>18. ASSUME NEW r \in Refunds, CallRefund(r) PROVE Created' /\ CreditedOnce'
  BY <1>18 DEF CallRefund, TypeOK, Created, CreditedOnce
<1>19. ASSUME NEW r \in Refunds, FinishRefund(r) PROVE Created' /\ CreditedOnce'
  <2>1. UNCHANGED <<trade, hasCode, creator, query, credits, manual, undone, told>>
    BY <1>19 DEF FinishRefund
  <2>2. CASE UNCHANGED db
    BY <2>1, <2>2 DEF Created, CreditedOnce
  <2>3. CASE MarkRefund(r, call[r])
    BY <2>1, <2>3, MarkOrder
  <2> QED BY <1>19, <2>2, <2>3 DEF FinishRefund
<1>20. ASSUME NEW r \in Refunds, ProviderDecides(r) PROVE Created' /\ CreditedOnce'
  BY <1>20 DEF ProviderDecides, TypeOK, Created, CreditedOnce
<1>21. ASSUME NEW r \in Refunds, NEW s \in Final, ReportRefund(r, s) PROVE Created' /\ CreditedOnce'
  BY <1>21, MarkOrder DEF ReportRefund
<1>22. CASE Spend
  BY <1>22 DEF Spend, TypeOK, Created, CreditedOnce
<1>23. CASE Crash
  BY <1>23 DEF Crash, TypeOK, Created, CreditedOnce
<1>24. CASE UNCHANGED vars
  BY <1>24 DEF vars, TypeOK, Created, CreditedOnce
<1> QED
  BY <1>1, <1>2, <1>3, <1>4, <1>5, <1>6, <1>7, <1>8, <1>9, <1>10, <1>11, <1>12, <1>13, <1>14,
     <1>15, <1>16, <1>17, <1>18, <1>19, <1>20, <1>21, <1>22, <1>23, <1>24 DEF Next

\* For all constants, an order is credited at most once and never without a payment or an
\* administrator, and the web console is never told more than that (CreditedOnce).
THEOREM CreditedOnceCorrect == Spec => []CreditedOnce
<1>1. Spec => []OrderInv
  BY OrderInit, OrderStep, PTL DEF Spec
<1>2. OrderInv => CreditedOnce
  BY DEF OrderInv
<1> QED BY <1>1, <1>2, PTL
\* What the server's progress with refund r and the provider's reports say of the provider.
Known(r) ==
    /\ refund[r].status = "none" => prov[r] = "none" /\ call[r] = "idle"
    /\ call[r] = "call" => prov[r] = "none" /\ refund[r].status = "pending"
    /\ call[r] = "error" => prov[r] = "none" \/ r \in unheard
    /\ call[r] = "PROCESSING" => prov[r] # "none"
    /\ call[r] = "SUCCESS" => prov[r] \in Final
    /\ call[r] = "REFUNDCLOSE" => prov[r] = "REFUNDCLOSE"
    /\ <<r, "SUCCESS">> \in reports => prov[r] \in Final
    /\ <<r, "REFUNDCLOSE">> \in reports <=> prov[r] = "REFUNDCLOSE"

\* RefundTruth for the refund r.
Truth(r) ==
    /\ refund[r].status = "failed" /\ prov[r] \in {"PROCESSING", "SUCCESS"} => r \in unheard
    /\ refund[r].status = "success" => prov[r] = "SUCCESS" \/ <<r, "REFUNDCLOSE">> \in reports
    /\ refund[r].status = "pending" /\ prov[r] = "none" => r \in cut \/ lock = r

\* The inductive invariant behind RefundTruth.
RefundInv == TypeOK /\ \A r \in Refunds : Known(r) /\ Truth(r)

\* It holds at the start.
LEMMA RefundInit == Init => RefundInv
<1> SUFFICES ASSUME Init, NEW r \in Refunds PROVE Known(r) /\ Truth(r)
  BY TypeInit DEF RefundInv
<1> QED BY DEF Init, Known, Truth

\* It survives steps that leave refund r alone.
LEMMA RefundFrame ==
    ASSUME RefundInv, NEW r \in Refunds,
           refund'[r].status = refund[r].status, prov'[r] = prov[r], call'[r] = call[r],
           \A s \in Final : <<r, s>> \in reports' <=> <<r, s>> \in reports,
           r \in unheard => r \in unheard', r \in cut => r \in cut',
           call[r] # "idle" => lock' = r
    PROVE  (Known(r) /\ Truth(r))'
<1>1. Known(r) /\ Truth(r) /\ TypeOK
  BY DEF RefundInv
<1>2. lock = r => lock' = r
  BY <1>1 DEF TypeOK
<1> QED BY <1>1, <1>2 DEF Known, Truth

\* It survives marking a refund, by its own call or by a report however late.
LEMMA MarkRefundInv ==
    ASSUME RefundInv, NEW r \in Refunds, NEW s, MarkRefund(r, s),
           UNCHANGED <<prov, reports, unheard, cut>>,
           \/ call' = call /\ lock' = lock /\ s \in Final /\ <<r, s>> \in reports
           \/ call' = [call EXCEPT ![r] = "idle"] /\ s = call[r]
              /\ call[r] \in {"error"} \union Final
    PROVE  \A q \in Refunds : (Known(q) /\ Truth(q))'
<1>0. TypeOK /\ Known(r) /\ Truth(r)
  BY DEF RefundInv
<1>1. \A q \in Refunds \ {r} : (Known(q) /\ Truth(q))'
  <2> SUFFICES ASSUME NEW q \in Refunds \ {r} PROVE (Known(q) /\ Truth(q))'
    OBVIOUS
  <2>1. refund'[q] = refund[q]
    BY <1>0, MarkEffect DEF RolledBack, TypeOK, db
  <2>2. call'[q] = call[q]
    BY <1>0 DEF TypeOK
  <2>3. call[q] # "idle" => lock' = q
    BY <1>0, LockFacts DEF TypeOK
  <2> QED BY <2>1, <2>2, <2>3, RefundFrame
<1>2. call'[r] = call[r] \/ call'[r] = "idle"
  BY <1>0 DEF TypeOK
<1>3. s = "SUCCESS" => prov[r] \in Final
  BY <1>0 DEF Known
<1>4. s # "SUCCESS" => prov[r] \in {"none", "REFUNDCLOSE"} \/ r \in unheard
  BY <1>0 DEF Known
<1>5. \/ refund'[r].status = refund[r].status
      \/ s = "SUCCESS" /\ refund'[r].status = "success" /\ refund[r].status = "pending"
      \/ s # "SUCCESS" /\ refund'[r].status = "failed" /\ refund[r].status \in Live
  BY <1>0, MarkEffect DEF RolledBack, TypeOK, db
<1>6. call'[r] # "call" \/ refund'[r].status = refund[r].status
  BY <1>0, <1>3, <1>5 DEF Known, TypeOK
<1>7. Known(r)'
  BY <1>0, <1>2, <1>5, <1>6 DEF Known
<1>8. refund'[r].status = "failed" /\ prov[r] \in {"PROCESSING", "SUCCESS"} => r \in unheard
  BY <1>0, <1>4, <1>5 DEF Truth
<1>9. refund'[r].status = "success" => prov[r] = "SUCCESS" \/ <<r, "REFUNDCLOSE">> \in reports
  BY <1>0, <1>3, <1>5 DEF Truth, Known
<1>10. refund'[r].status = "pending" /\ prov[r] = "none" => r \in cut \/ lock' = r
  <2> SUFFICES ASSUME refund'[r].status = "pending", prov[r] = "none" PROVE r \in cut \/ lock' = r
    OBVIOUS
  <2>1. refund[r].status = "pending"
    BY <1>5
  <2>2. s \notin Final
    BY <1>0, <1>3 DEF Known
  <2>3. s = "error" /\ MarkRefundFailed(r)
    BY <2>2 DEF MarkRefund
  <2>4. RolledBack(r)
    BY <1>0, <2>1, <2>3, FailedEffect
  <2> QED BY <1>0, <2>4 DEF RolledBack, TypeOK
<1>11. Truth(r)'
  BY <1>8, <1>9, <1>10 DEF Truth
<1> QED BY <1>1, <1>7, <1>11
\* It survives steps that touch no refund.
LEMMA QuietRefunds ==
    ASSUME RefundInv, UNCHANGED <<refund, prov, reports, call, unheard, cut>>,
           lock' = lock \/ lock \in {NoOne, "close"}
    PROVE  \A r \in Refunds : (Known(r) /\ Truth(r))'
<1> SUFFICES ASSUME NEW r \in Refunds PROVE (Known(r) /\ Truth(r))'
  OBVIOUS
<1>1. call[r] # "idle" => lock' = r
  BY LockAssumption DEF RefundInv, TypeOK, NoOne
<1> QED BY <1>1, RefundFrame

\* It survives the booking of a refund.
LEMMA CreateRefundInv ==
    ASSUME RefundInv, NEW r \in Refunds, NEW m, NEW full, CreateRefund(r, m, full)
    PROVE  \A q \in Refunds : (Known(q) /\ Truth(q))'
<1>0. TypeOK /\ Known(r)
  BY DEF RefundInv
<1>1. /\ UNCHANGED <<prov, reports, unheard, cut>> /\ lock' = r /\ lock = NoOne
      /\ call'[r] = "call" /\ \A q \in Refunds \ {r} : call'[q] = call[q]
      /\ refund[r].status = "none" /\ refund'[r].status = "pending"
      /\ \A q \in Refunds \ {r} : refund'[q] = refund[q]
  BY <1>0 DEF CreateRefund, TypeOK, provider, history
<1>2. ASSUME NEW q \in Refunds \ {r} PROVE (Known(q) /\ Truth(q))'
  <2>1. call[q] = "idle"
    BY <1>0, <1>1, LockFacts
  <2> QED BY <1>1, <2>1, RefundFrame
<1>3. (Known(r) /\ Truth(r))'
  BY <1>0, <1>1 DEF Known, Truth
<1> QED BY <1>2, <1>3

\* It survives the call of the provider, heard or not.
LEMMA CallRefundInv ==
    ASSUME RefundInv, NEW r \in Refunds, CallRefund(r)
    PROVE  \A q \in Refunds : (Known(q) /\ Truth(q))'
<1>0. TypeOK /\ Known(r) /\ Truth(r)
  BY DEF RefundInv
<1>1. /\ UNCHANGED <<refund, cut, lock>> /\ call[r] = "call"
      /\ \/ \E s \in {"PROCESSING", "SUCCESS", "REFUNDCLOSE"} :
               /\ prov' = [prov EXCEPT ![r] = s]
               /\ reports' = IF s \in Final THEN reports \union {<<r, s>>} ELSE reports
               /\ \/ call' = [call EXCEPT ![r] = s] /\ unheard' = unheard
                  \/ call' = [call EXCEPT ![r] = "error"] /\ unheard' = unheard \union {r}
         \/ call' = [call EXCEPT ![r] = "error"] /\ UNCHANGED <<prov, reports, unheard>>
  BY DEF CallRefund, db
<1>2. ASSUME NEW q \in Refunds \ {r} PROVE (Known(q) /\ Truth(q))'
  <2>1. prov'[q] = prov[q] /\ call'[q] = call[q] /\ call[q] = "idle"
    BY <1>0, <1>1, LockFacts DEF TypeOK
  <2>2. \A s \in Final : <<q, s>> \in reports' <=> <<q, s>> \in reports
    BY <1>1
  <2>3. q \in unheard => q \in unheard'
    BY <1>1
  <2> QED BY <1>1, <2>1, <2>2, <2>3, RefundFrame
<1>3. (Known(r) /\ Truth(r))'
  <2>1. prov[r] = "none" /\ refund[r].status = "pending" /\ lock = r
        /\ <<r, "SUCCESS">> \notin reports /\ <<r, "REFUNDCLOSE">> \notin reports
    BY <1>0, <1>1 DEF Known, TypeOK
  <2>2. CASE call' = [call EXCEPT ![r] = "error"] /\ UNCHANGED <<prov, reports, unheard>>
    BY <1>0, <1>1, <2>1, <2>2 DEF Known, Truth, TypeOK
  <2>3. CASE ~(call' = [call EXCEPT ![r] = "error"] /\ UNCHANGED <<prov, reports, unheard>>)
    <3>1. PICK s \in {"PROCESSING", "SUCCESS", "REFUNDCLOSE"} :
               /\ prov' = [prov EXCEPT ![r] = s]
               /\ reports' = IF s \in Final THEN reports \union {<<r, s>>} ELSE reports
               /\ \/ call' = [call EXCEPT ![r] = s] /\ unheard' = unheard
                  \/ call' = [call EXCEPT ![r] = "error"] /\ unheard' = unheard \union {r}
      BY <1>1, <2>3
    <3>2. /\ prov'[r] = s /\ refund'[r].status = "pending"
          /\ call'[r] = s \/ (call'[r] = "error" /\ r \in unheard')
          /\ <<r, "SUCCESS">> \in reports' <=> s = "SUCCESS"
          /\ <<r, "REFUNDCLOSE">> \in reports' <=> s = "REFUNDCLOSE"
      BY <1>0, <1>1, <2>1, <3>1 DEF TypeOK
    <3> QED BY <3>2 DEF Known, Truth
  <2> QED BY <2>2, <2>3
<1> QED BY <1>2, <1>3

\* It survives the provider's decision.
LEMMA DecideRefundInv ==
    ASSUME RefundInv, NEW r \in Refunds, ProviderDecides(r)
    PROVE  \A q \in Refunds : (Known(q) /\ Truth(q))'
<1>0. TypeOK /\ Known(r) /\ Truth(r)
  BY DEF RefundInv
<1>1. PICK s \in Final :
         /\ prov[r] = "PROCESSING" \/ (prov[r] = "SUCCESS" /\ s = "REFUNDCLOSE")
         /\ prov' = [prov EXCEPT ![r] = s]
         /\ reports' = reports \union {<<r, s>>}
         /\ UNCHANGED <<refund, call, lock, unheard, cut>>
  BY <1>0 DEF ProviderDecides, TypeOK, db, memory, history
<1>2. ASSUME NEW q \in Refunds \ {r} PROVE (Known(q) /\ Truth(q))'
  <2>1. prov'[q] = prov[q]
    BY <1>0, <1>1 DEF TypeOK
  <2>2. \A t \in Final : <<q, t>> \in reports' <=> <<q, t>> \in reports
    BY <1>1
  <2>3. call[q] # "idle" => lock' = q
    BY <1>0, <1>1 DEF TypeOK
  <2> QED BY <1>1, <2>1, <2>2, <2>3, RefundFrame
<1>3. (Known(r) /\ Truth(r))'
  <2>1. prov'[r] = s
    BY <1>0, <1>1 DEF TypeOK
  <2>2. /\ <<r, "SUCCESS">> \in reports' <=> (<<r, "SUCCESS">> \in reports \/ s = "SUCCESS")
        /\ <<r, "REFUNDCLOSE">> \in reports' <=> (<<r, "REFUNDCLOSE">> \in reports \/ s = "REFUNDCLOSE")
    BY <1>1
  <2>3. Known(r)'
    BY <1>0, <1>1, <2>1, <2>2 DEF Known
  <2>4. Truth(r)'
    BY <1>0, <1>1, <2>1, <2>2 DEF Known, Truth
  <2> QED BY <2>3, <2>4
<1> QED BY <1>2, <1>3

\* It survives a restart, which is recorded for every refund it cuts.
LEMMA CrashRefundInv ==
    ASSUME RefundInv, Crash
    PROVE  \A r \in Refunds : (Known(r) /\ Truth(r))'
<1> SUFFICES ASSUME NEW r \in Refunds PROVE (Known(r) /\ Truth(r))'
  OBVIOUS
<1>0. TypeOK /\ Known(r) /\ Truth(r)
  BY DEF RefundInv
<1>1. /\ UNCHANGED <<refund, prov, reports, unheard>> /\ call'[r] = "idle"
      /\ r \in cut \/ call[r] # "idle" => r \in cut'
  BY DEF Crash, db, provider
<1>2. lock = r => r \in cut'
  BY <1>0, <1>1 DEF TypeOK
<1> QED BY <1>0, <1>1, <1>2 DEF Known, Truth

\* Every step keeps it.
LEMMA RefundStep == RefundInv /\ [Next]_vars => RefundInv'
<1> SUFFICES ASSUME RefundInv, [Next]_vars PROVE \A r \in Refunds : (Known(r) /\ Truth(r))'
  BY TypeStep DEF RefundInv
<1>0. TypeOK
  BY DEF RefundInv
<1> USE DEF db, provider, memory, history
<1>1. CASE InsertOrder
  BY <1>1, QuietRefunds DEF InsertOrder
<1>2. CASE PrepaySucceeds
  BY <1>2, QuietRefunds DEF PrepaySucceeds
<1>3. CASE PrepayFails
  BY <1>3, QuietRefunds DEF PrepayFails
<1>4. CASE TimeoutPasses
  BY <1>4, QuietRefunds DEF TimeoutPasses
<1>5. CASE Pay
  BY <1>5, QuietRefunds DEF Pay
<1>6. CASE WechatPayOfficialNotify
  BY <1>6, QuietRefunds DEF WechatPayOfficialNotify
<1>7. CASE AdminCompleteTopUp
  BY <1>7, QuietRefunds DEF AdminCompleteTopUp
<1>8. CASE QueryRead
  BY <1>8, QuietRefunds DEF QueryRead
<1>9. CASE QueryExpire
  BY <1>9, QuietRefunds DEF QueryExpire
<1>10. CASE QueryUnpaid
  BY <1>10, QuietRefunds DEF QueryUnpaid
<1>11. CASE QueryPaid
  BY <1>11, QuietRefunds DEF QueryPaid
<1>12. CASE QueryReconcile
  BY <1>12, QuietRefunds DEF QueryReconcile
<1>13. CASE ExpireByTimeout
  BY <1>13, QuietRefunds DEF ExpireByTimeout
<1>14. CASE CloseStart
  BY <1>14, QuietRefunds DEF CloseStart
<1>15. CASE CloseCall
  BY <1>0, <1>15, QuietRefunds DEF CloseCall, TypeOK
<1>16. CASE CloseExpire
  BY <1>0, <1>16, QuietRefunds DEF CloseExpire, TypeOK
<1>17. ASSUME NEW r \in Refunds, NEW m \in 1..Money, NEW full \in BOOLEAN, CreateRefund(r, m, full)
       PROVE  \A q \in Refunds : (Known(q) /\ Truth(q))'
  BY <1>17, CreateRefundInv
<1>18. ASSUME NEW r \in Refunds, CallRefund(r) PROVE \A q \in Refunds : (Known(q) /\ Truth(q))'
  BY <1>18, CallRefundInv
<1>19. ASSUME NEW r \in Refunds, FinishRefund(r) PROVE \A q \in Refunds : (Known(q) /\ Truth(q))'
  <2>1. /\ UNCHANGED <<prov, reports, unheard>> /\ call' = [call EXCEPT ![r] = "idle"]
        /\ call[r] \in {"PROCESSING", "error"} \union Final /\ lock' = NoOne
    BY <1>19 DEF FinishRefund
  <2>2. CASE call[r] # "PROCESSING" /\ MarkRefund(r, call[r]) /\ UNCHANGED cut
    BY <2>1, <2>2, MarkRefundInv
  <2>3. CASE UNCHANGED db /\ ((call[r] = "PROCESSING" /\ UNCHANGED cut) \/ cut' = cut \union {r})
    <3>1. refund' = refund /\ Known(r) /\ Truth(r)
      BY <2>3 DEF RefundInv
    <3>2. prov[r] # "none" \/ r \in cut'
      BY <2>3, <3>1 DEF Known
    <3>3. (Known(r) /\ Truth(r))'
      BY <1>0, <2>1, <2>3, <3>1, <3>2 DEF Known, Truth, TypeOK
    <3>4. ASSUME NEW q \in Refunds \ {r} PROVE (Known(q) /\ Truth(q))'
      <4>1. call'[q] = call[q] /\ call[q] = "idle" /\ (q \in cut => q \in cut')
        BY <1>0, <2>1, <2>3, LockFacts DEF TypeOK
      <4> QED BY <2>1, <3>1, <4>1, RefundFrame
    <3> QED BY <3>3, <3>4
  <2> QED BY <1>19, <2>2, <2>3 DEF FinishRefund
<1>20. ASSUME NEW r \in Refunds, ProviderDecides(r) PROVE \A q \in Refunds : (Known(q) /\ Truth(q))'
  BY <1>20, DecideRefundInv
<1>21. ASSUME NEW r \in Refunds, NEW s \in Final, ReportRefund(r, s)
       PROVE  \A q \in Refunds : (Known(q) /\ Truth(q))'
  BY <1>21, MarkRefundInv DEF ReportRefund
<1>22. CASE Spend
  BY <1>22, QuietRefunds DEF Spend
<1>23. CASE Crash
  BY <1>23, CrashRefundInv
<1>24. CASE UNCHANGED vars
  BY <1>24, QuietRefunds DEF vars
<1> QED
  BY <1>1, <1>2, <1>3, <1>4, <1>5, <1>6, <1>7, <1>8, <1>9, <1>10, <1>11, <1>12, <1>13, <1>14,
     <1>15, <1>16, <1>17, <1>18, <1>19, <1>20, <1>21, <1>22, <1>23, <1>24 DEF Next

\* For any number of refunds: what the rows say of a refund is what the provider did, but for
\* calls that were not heard, rejections still on their way, restarts and rollbacks that
\* failed (RefundTruth).
THEOREM RefundTruthCorrect == Spec => []RefundTruth
<1>1. Spec => []RefundInv
  BY RefundInit, RefundStep, PTL DEF Spec
<1>2. RefundInv => RefundTruth
  BY DEF RefundInv, RefundTruth, Truth
<1> QED BY <1>1, <1>2, PTL
\* What the refunds that are pending or successful have taken, in money and in quota.
TakenMoney == MoneyOf(LiveRefunds)
TakenQuota == QuotaOf(LiveRefunds)

\* Every refund that was booked returns some money.
Priced == \A r \in Refunds : refund[r].status # "none" => refund[r].money >= 1

\* The inductive invariant behind Books.
BookInv == OrderInv /\ Priced /\ Books

\* Books, for an order whose completion was not overwritten.
Balanced ==
    /\ refunded = [money |-> TakenMoney, quota |-> TakenQuota]
    /\ quota + spent = credits * Credit - TakenQuota
    /\ credits = 1 => status = (IF TakenMoney = 0 THEN "success"
                                ELSE IF TakenMoney < Money THEN "partial_refunded" ELSE "refunded")
    /\ TakenMoney = Money => TakenQuota = Credit

\* Books in these terms ...
LEMMA BooksMeaning == Books <=> undone \/ Balanced
  BY DEF Books, Balanced, TakenMoney, TakenQuota

\* ... and in the next state.
LEMMA BooksMeaningNext == Books' <=> undone' \/ Balanced'
  BY DEF Books, Balanced, TakenMoney, TakenQuota

\* The totals are natural numbers that no single refund exceeds.
LEMMA Totals ==
    ASSUME TypeOK
    PROVE  /\ TakenMoney \in Nat /\ TakenQuota \in Nat
           /\ \A r \in LiveRefunds : refund[r].money <= TakenMoney /\ refund[r].quota <= TakenQuota
           /\ LiveRefunds = {} => TakenMoney = 0 /\ TakenQuota = 0
<1> DEFINE f == [r \in Refunds |-> refund[r].money]
           g == [r \in Refunds |-> refund[r].quota]
<1>1. IsFiniteSet(LiveRefunds)
  BY BoundAssumption, FS_Subset DEF LiveRefunds
<1>2. \A r \in LiveRefunds : f[r] \in Nat /\ g[r] \in Nat /\ f[r] = refund[r].money /\ g[r] = refund[r].quota
  BY AmountAssumption DEF LiveRefunds, TypeOK
<1>3. TakenMoney = SumFunctionOnSet(f, LiveRefunds) /\ TakenQuota = SumFunctionOnSet(g, LiveRefunds)
  BY DEF TakenMoney, TakenQuota, MoneyOf, QuotaOf
<1> HIDE DEF f, g
<1>4. TakenMoney \in Nat /\ TakenQuota \in Nat
  BY <1>1, <1>2, <1>3, SumNat
<1>5. \A r \in LiveRefunds : f[r] <= TakenMoney /\ g[r] <= TakenQuota
  BY <1>1, <1>2, <1>3, SumBounds
<1>6. LiveRefunds = {} => TakenMoney = 0 /\ TakenQuota = 0
  BY <1>3, SumEmpty
<1> QED BY <1>2, <1>4, <1>5, <1>6

\* They do not change while the refunds do not.
LEMMA TotalsKept ==
    ASSUME refund' = refund
    PROVE  TakenMoney' = TakenMoney /\ TakenQuota' = TakenQuota
  BY DEF TakenMoney, TakenQuota, MoneyOf, QuotaOf, LiveRefunds

\* Booking a refund adds its amounts.
LEMMA TotalsAdd ==
    ASSUME TypeOK, NEW r \in Refunds, r \notin LiveRefunds,
           NEW m \in Nat, NEW n \in Nat,
           refund' = [refund EXCEPT ![r] = [status |-> "pending", money |-> m, quota |-> n]]
    PROVE  TakenMoney' = m + TakenMoney /\ TakenQuota' = n + TakenQuota
<1> DEFINE f == [q \in Refunds |-> refund[q].money]
           g == [q \in Refunds |-> refund[q].quota]
           f1 == [q \in Refunds |-> refund'[q].money]
           g1 == [q \in Refunds |-> refund'[q].quota]
<1>1. LiveRefunds' = LiveRefunds \cup {r}
  BY DEF LiveRefunds, TypeOK
<1>2. Summable(f, LiveRefunds) /\ Summable(g, LiveRefunds)
  <2>1. IsFiniteSet(LiveRefunds)
    BY BoundAssumption, FS_Subset DEF LiveRefunds
  <2>2. \A q \in LiveRefunds : f[q] \in Int /\ g[q] \in Int
    BY AmountAssumption DEF LiveRefunds, TypeOK
  <2> QED BY <2>1, <2>2 DEF Summable
<1>3. f1[r] = m /\ g1[r] = n /\ \A q \in LiveRefunds : f1[q] = f[q] /\ g1[q] = g[q]
  BY DEF LiveRefunds, TypeOK
<1>4. /\ TakenMoney = SumFunctionOnSet(f, LiveRefunds) /\ TakenQuota = SumFunctionOnSet(g, LiveRefunds)
      /\ TakenMoney' = SumFunctionOnSet(f1, LiveRefunds \cup {r})
      /\ TakenQuota' = SumFunctionOnSet(g1, LiveRefunds \cup {r})
  BY <1>1 DEF TakenMoney, TakenQuota, MoneyOf, QuotaOf
<1> HIDE DEF f, g, f1, g1
<1>5. TakenMoney' = f1[r] + TakenMoney
  BY <1>2, <1>3, <1>4, SumAdd
<1>6. TakenQuota' = g1[r] + TakenQuota
  BY <1>2, <1>3, <1>4, SumAdd
<1> QED BY <1>3, <1>5, <1>6

\* Rolling a refund back takes its amounts off, and leaves what the others have.
LEMMA TotalsRemove ==
    ASSUME TypeOK, NEW r \in LiveRefunds, refund' = [refund EXCEPT ![r].status = "failed"]
    PROVE  /\ TakenMoney = refund[r].money + TakenMoney' /\ TakenQuota = refund[r].quota + TakenQuota'
           /\ TakenMoney' \in Nat /\ TakenQuota' \in Nat
           /\ \A q \in LiveRefunds \ {r} : refund[q].money <= TakenMoney'
           /\ LiveRefunds \ {r} = {} => TakenQuota' = 0
<1> DEFINE f == [q \in Refunds |-> refund[q].money]
           g == [q \in Refunds |-> refund[q].quota]
<1>1. LiveRefunds' = LiveRefunds \ {r}
  BY DEF LiveRefunds, TypeOK
<1>2. Summable(f, LiveRefunds) /\ Summable(g, LiveRefunds)
  <2>1. IsFiniteSet(LiveRefunds)
    BY BoundAssumption, FS_Subset DEF LiveRefunds
  <2>2. \A q \in LiveRefunds : f[q] \in Int /\ g[q] \in Int
    BY AmountAssumption DEF LiveRefunds, TypeOK
  <2> QED BY <2>1, <2>2 DEF Summable
<1>3. f = [q \in Refunds |-> refund'[q].money] /\ g = [q \in Refunds |-> refund'[q].quota]
  BY DEF TypeOK
<1>4. /\ TakenMoney = SumFunctionOnSet(f, LiveRefunds) /\ TakenQuota = SumFunctionOnSet(g, LiveRefunds)
      /\ TakenMoney' = SumFunctionOnSet(f, LiveRefunds \ {r})
      /\ TakenQuota' = SumFunctionOnSet(g, LiveRefunds \ {r})
  BY <1>1, <1>3 DEF TakenMoney, TakenQuota, MoneyOf, QuotaOf
<1>5. \A q \in LiveRefunds : /\ f[q] = refund[q].money /\ g[q] = refund[q].quota
                              /\ f[q] \in Nat /\ g[q] \in Nat
  BY AmountAssumption DEF LiveRefunds, TypeOK
<1>6. IsFiniteSet(LiveRefunds \ {r})
  BY BoundAssumption, FS_Subset DEF LiveRefunds
<1> HIDE DEF f, g
<1>7. TakenMoney = refund[r].money + TakenMoney' /\ TakenQuota = refund[r].quota + TakenQuota'
  BY <1>2, <1>4, <1>5, SumRemove
<1>8. TakenMoney' \in Nat /\ TakenQuota' \in Nat
  BY <1>4, <1>5, <1>6, SumNat
<1>9. \A q \in LiveRefunds \ {r} : f[q] <= TakenMoney'
  BY <1>4, <1>5, <1>6, SumBounds
<1>10. LiveRefunds \ {r} = {} => TakenQuota' = 0
  BY <1>4, SumEmpty
<1> QED BY <1>5, <1>7, <1>8, <1>9, <1>10

\* A refund that becomes successful counts as before.
LEMMA TotalsMarked ==
    ASSUME TypeOK, NEW r \in LiveRefunds, refund' = [refund EXCEPT ![r].status = "success"]
    PROVE  TakenMoney' = TakenMoney /\ TakenQuota' = TakenQuota
<1>1. LiveRefunds' = LiveRefunds
  BY DEF LiveRefunds, TypeOK
<1>2. /\ [q \in Refunds |-> refund'[q].money] = [q \in Refunds |-> refund[q].money]
      /\ [q \in Refunds |-> refund'[q].quota] = [q \in Refunds |-> refund[q].quota]
  BY DEF TypeOK
<1> QED BY <1>1, <1>2 DEF TakenMoney, TakenQuota, MoneyOf, QuotaOf
\* Before it is credited an order has no refund and the user none of its quota.
LEMMA Uncredited ==
    ASSUME BookInv, credits # 1
    PROVE  /\ credits = 0 /\ LiveRefunds = {} /\ TakenMoney = 0 /\ TakenQuota = 0
           /\ refunded = [money |-> 0, quota |-> 0] /\ quota + spent = 0
           /\ undone = FALSE
<1>1. TypeOK /\ Created /\ CreditedOnce /\ (undone \/ Balanced)
  BY BooksMeaning DEF BookInv, OrderInv
<1>2. credits = 0 /\ undone = FALSE
  BY <1>1 DEF CreditedOnce, TypeOK
<1>3. LiveRefunds = {}
  BY <1>1 DEF Created, LiveRefunds
<1>4. TakenMoney = 0 /\ TakenQuota = 0
  BY <1>1, <1>3, Totals
<1>5. 0 * Credit = 0
  BY AmountAssumption
<1> QED BY <1>1, <1>2, <1>3, <1>4, <1>5 DEF Balanced

\* The books survive steps that touch no amount.
LEMMA BookFrame ==
    ASSUME BookInv, UNCHANGED <<refund, refunded, credits>>, undone' = undone,
           quota' + spent' = quota + spent, status' = status \/ credits # 1
    PROVE  Priced' /\ Books'
<1>1. Priced /\ (undone \/ Balanced)
  BY BooksMeaning DEF BookInv
<1>2. TakenMoney' = TakenMoney /\ TakenQuota' = TakenQuota
  BY TotalsKept
<1>3. undone \/ Balanced'
  BY <1>1, <1>2 DEF Balanced
<1>4. Books'
  BY <1>3, BooksMeaningNext
<1> QED BY <1>1, <1>4 DEF Priced

\* They survive the crediting of the order ...
LEMMA CreditBooks ==
    ASSUME BookInv, credits # 1, UNCHANGED <<refund, refunded, spent>>,
           status' = "success", quota' = quota + Credit, credits' = credits + 1
    PROVE  Priced' /\ Books'
<1>1. /\ credits = 0 /\ TakenMoney = 0 /\ TakenQuota = 0
      /\ refunded = [money |-> 0, quota |-> 0] /\ quota + spent = 0
  BY Uncredited
<1>2. TakenMoney' = 0 /\ TakenQuota' = 0
  BY <1>1, TotalsKept
<1>3. quota \in Int /\ spent \in Int /\ Priced
  BY BoundAssumption DEF BookInv, OrderInv, TypeOK
<1>4. quota' + spent' = Credit /\ credits' * Credit - 0 = Credit /\ Money # 0
  BY <1>1, <1>3, AmountAssumption
<1>5. Balanced'
  BY <1>1, <1>2, <1>4 DEF Balanced
<1> QED BY <1>3, <1>5, BooksMeaningNext DEF Priced

\* ... by a webhook or a query ...
LEMMA RechargeBooks ==
    ASSUME BookInv, RechargeOfficialPayment, UNCHANGED <<refund, refunded, spent, undone>>
    PROVE  Priced' /\ Books'
<1>1. CASE status \in {"pending", "expired"}
  <2>1. credits # 1
    BY <1>1 DEF BookInv, OrderInv, Created, CreditedOnce, TypeOK
  <2> QED BY <1>1, <2>1, CreditBooks DEF RechargeOfficialPayment
<1>2. CASE status \notin {"pending", "expired"}
  BY <1>2, BookFrame DEF RechargeOfficialPayment
<1> QED BY <1>1, <1>2

\* ... a prepayment that fails, which wipes amounts only of an order that is not credited or
\* is marked as overwritten ...
LEMMA PrepayBooks ==
    ASSUME BookInv, PrepayFails PROVE Priced' /\ Books'
<1>1. TypeOK /\ Created /\ CreditedOnce /\ Priced
  BY DEF BookInv, OrderInv
<1>2. /\ refund' = refund /\ refunded' = [money |-> 0, quota |-> 0] /\ undone' = (status \in Completed)
      /\ UNCHANGED <<quota, spent, credits>>
  BY DEF PrepayFails
<1>3. CASE status \in Completed
  <2>1. undone'
    BY <1>2, <1>3
  <2> QED BY <1>1, <1>2, <2>1, BooksMeaningNext DEF Priced
<1>4. CASE status \notin Completed
  <2>1. undone = FALSE
    BY <1>1 DEF PrepayFails, Created
  <2>2. credits # 1 /\ undone' = undone
    <3>1. credits # 1
      BY <1>1, <1>4, <2>1 DEF CreditedOnce
    <3>2. undone' = FALSE
      <4>1. undone' = (status \in Completed)
        BY <1>2
      <4>2. (status \in Completed) = FALSE
        BY <1>4
      <4> QED BY <4>1, <4>2, Zenon
    <3> QED BY <2>1, <3>1, <3>2
  <2>3. refunded' = refunded
    BY <1>2, <2>2, Uncredited
  <2> QED BY <1>2, <2>2, <2>3, BookFrame
<1> QED BY <1>3, <1>4

\* ... the booking of a refund ...
LEMMA CreateBooks ==
    ASSUME BookInv, NEW r \in Refunds, NEW m \in 1..Money, NEW full \in BOOLEAN, CreateRefund(r, m, full)
    PROVE  Priced' /\ Books'
<1>1. TypeOK /\ CreditedOnce /\ Priced /\ (undone \/ Balanced)
  BY BooksMeaning DEF BookInv, OrderInv
<1>2. /\ RefundQuota(m) \in Int /\ RefundQuota(m) <= Credit - refunded.quota /\ RefundQuota(m) > 0
      /\ m >= Money - refunded.money => RefundQuota(m) = Credit - refunded.quota
  BY <1>1, QuotaFits DEF CreateRefund
<1>3. PICK n \in Nat : n = RefundQuota(m) /\ n > 0
  BY <1>2
<1>4. /\ refund[r].status = "none" /\ status \in {"success", "partial_refunded"}
      /\ m <= Money - refunded.money
      /\ refund' = [refund EXCEPT ![r] = [status |-> "pending", money |-> m, quota |-> n]]
      /\ refunded' = [money |-> refunded.money + m, quota |-> refunded.quota + n]
      /\ status' = IF refunded.money + m < Money THEN "partial_refunded" ELSE "refunded"
      /\ quota' = quota - n /\ UNCHANGED <<undone, credits, spent>>
  BY <1>3 DEF CreateRefund, history
<1>5. Priced'
  BY <1>1, <1>4 DEF Priced, TypeOK
<1>6. CASE undone
  BY <1>4, <1>5, <1>6, BooksMeaningNext
<1>7. CASE Balanced
  <2>1. r \notin LiveRefunds /\ m \in Nat
    BY <1>4, AmountAssumption DEF LiveRefunds
  <2>2. TakenMoney' = m + TakenMoney /\ TakenQuota' = n + TakenQuota
    BY <1>1, <1>4, <2>1, TotalsAdd
  <2>3. TakenMoney \in Nat /\ TakenQuota \in Nat
    BY <1>1, Totals
  <2>4. refunded.money = TakenMoney /\ refunded.quota = TakenQuota
    BY <1>7 DEF Balanced
  <2>5. credits = 1
    BY <1>1, <1>4 DEF CreditedOnce
  <2>6. quota \in Int /\ spent \in Int /\ Credit \in Int /\ Money \in Int /\ m \in Int /\ m >= 1
    BY <1>1, AmountAssumption, BoundAssumption DEF TypeOK
  <2>7. quota + spent = Credit - TakenQuota
    BY <1>7, <2>5, <2>6 DEF Balanced
  <2>8. refunded' = [money |-> TakenMoney', quota |-> TakenQuota']
    BY <1>4, <2>2, <2>3, <2>4
  <2>9. quota' + spent' = credits' * Credit - TakenQuota'
    BY <1>4, <2>2, <2>3, <2>5, <2>6, <2>7
  <2>10. status' = (IF TakenMoney' = 0 THEN "success"
                    ELSE IF TakenMoney' < Money THEN "partial_refunded" ELSE "refunded")
    BY <1>4, <2>2, <2>3, <2>4, <2>6
  <2>11. TakenMoney' = Money => TakenQuota' = Credit
    BY <1>2, <1>3, <2>2, <2>3, <2>4, <2>6
  <2>12. Balanced'
    BY <2>8, <2>9, <2>10, <2>11 DEF Balanced
  <2> QED BY <1>5, <2>12, BooksMeaningNext
<1> QED BY <1>1, <1>6, <1>7

\* ... and marking one, where neither maximum with 0 ever cuts anything off.
LEMMA MarkBooks ==
    ASSUME BookInv, NEW r \in Refunds, NEW s, MarkRefund(r, s), UNCHANGED <<undone, credits, spent>>
    PROVE  Priced' /\ Books'
<1>1. TypeOK /\ Created /\ CreditedOnce /\ Priced /\ (undone \/ Balanced)
  BY BooksMeaning DEF BookInv, OrderInv
<1>2. CASE UNCHANGED db
  BY <1>2, BookFrame DEF db
<1>3. CASE /\ refund[r].status = "pending" /\ refund' = [refund EXCEPT ![r].status = "success"]
           /\ UNCHANGED <<status, refunded, quota>>
  <2>1. r \in LiveRefunds
    BY <1>3 DEF LiveRefunds
  <2>2. TakenMoney' = TakenMoney /\ TakenQuota' = TakenQuota
    BY <1>1, <1>3, <2>1, TotalsMarked
  <2>3. Priced'
    BY <1>1, <1>3 DEF Priced, TypeOK
  <2>4. undone' \/ Balanced'
    BY <1>1, <1>3, <2>2 DEF Balanced
  <2> QED BY <2>3, <2>4, BooksMeaningNext
<1>4. CASE refund[r].status \in Live /\ RolledBack(r)
  <2>1. r \in LiveRefunds
    BY <1>4 DEF LiveRefunds
  <2>2. refund' = [refund EXCEPT ![r].status = "failed"]
    BY <1>4 DEF RolledBack
  <2>3. /\ TakenMoney = refund[r].money + TakenMoney' /\ TakenQuota = refund[r].quota + TakenQuota'
        /\ TakenMoney' \in Nat /\ TakenQuota' \in Nat
        /\ \A q \in LiveRefunds \ {r} : refund[q].money <= TakenMoney'
        /\ LiveRefunds \ {r} = {} => TakenQuota' = 0
    BY <1>1, <2>1, <2>2, TotalsRemove
  <2>4. /\ TakenMoney \in Nat /\ TakenQuota \in Nat
        /\ refund[r].money <= TakenMoney /\ refund[r].quota <= TakenQuota
    BY <1>1, <2>1, Totals
  <2>5. Priced'
    BY <1>1, <1>4, <2>2 DEF Priced, TypeOK
  <2>6. CASE undone
    BY <2>5, <2>6, BooksMeaningNext
  <2>7. CASE Balanced
    <3>1. refunded.money = TakenMoney /\ refunded.quota = TakenQuota /\ credits = 1
      BY <1>1, <1>4, <2>7 DEF Balanced, Created
    <3>2. PICK a \in Nat, b \in Nat : a = refund[r].money /\ b = refund[r].quota
      BY <1>1, AmountAssumption DEF TypeOK
    <3>3. a >= 1
      BY <1>1, <1>4, <3>2 DEF Priced
    <3>4. /\ TakenMoney = a + TakenMoney' /\ TakenQuota = b + TakenQuota'
          /\ a <= TakenMoney /\ b <= TakenQuota
      BY <2>3, <2>4, <3>2
    <3>5. refunded' = [money |-> TakenMoney', quota |-> TakenQuota'] /\ quota' = quota + b
      BY <1>4, <2>3, <2>4, <3>1, <3>2, <3>4 DEF RolledBack
    <3>6. status' = IF TakenMoney' = 0 /\ TakenQuota' = 0 THEN "success" ELSE "partial_refunded"
      BY <1>4, <3>5 DEF RolledBack
    <3>7. TakenMoney' = 0 => TakenQuota' = 0
      <4> SUFFICES ASSUME NEW q \in LiveRefunds \ {r} PROVE TakenMoney' # 0
        BY <2>3
      <4>1. refund[q].money >= 1 /\ refund[q].money <= TakenMoney' /\ refund[q].money \in Int
        BY <1>1, <2>3, AmountAssumption DEF Priced, LiveRefunds, TypeOK
      <4> QED BY <2>3, <4>1
    <3>8. TakenMoney <= Money /\ Money \in Int /\ Credit \in Int /\ quota \in Int /\ spent \in Int
      BY <1>1, <3>1, AmountAssumption, BoundAssumption DEF TypeOK
    <3>9. TakenMoney' < Money
      BY <2>3, <2>4, <3>3, <3>4, <3>8
    <3>10. quota + spent = Credit - TakenQuota
      BY <2>7, <3>1, <3>8 DEF Balanced
    <3>11. quota' + spent' = credits' * Credit - TakenQuota'
      <4>1. spent' = spent /\ credits' * Credit = Credit
        BY <1>4, <3>1, <3>8
      <4>2. quota + b + spent = Credit - TakenQuota'
        BY <2>3, <2>4, <3>2, <3>4, <3>8, <3>10
      <4> QED BY <3>5, <4>1, <4>2
    <3>12. Balanced'
      BY <2>3, <3>5, <3>6, <3>7, <3>8, <3>9, <3>11 DEF Balanced
    <3> QED BY <2>5, <3>12, BooksMeaningNext
  <2> QED BY <1>1, <2>6, <2>7
<1> QED BY <1>1, <1>2, <1>3, <1>4, MarkEffect
\* The books balance at the start.
LEMMA BookInit == Init => BookInv
<1> SUFFICES ASSUME Init PROVE BookInv
  OBVIOUS
<1>1. OrderInv /\ TypeOK
  BY OrderInit DEF OrderInv
<1>2. Priced /\ LiveRefunds = {}
  BY DEF Init, Priced, LiveRefunds
<1>3. TakenMoney = 0 /\ TakenQuota = 0
  BY <1>1, <1>2, Totals
<1>4. Balanced
  BY <1>3, AmountAssumption DEF Init, Balanced
<1> QED BY <1>1, <1>2, <1>4, BooksMeaning DEF BookInv

\* Every step keeps them.
LEMMA BookStep == BookInv /\ [Next]_vars => BookInv'
<1> SUFFICES ASSUME BookInv, [Next]_vars PROVE Priced' /\ Books'
  BY OrderStep DEF BookInv
<1>0. TypeOK /\ Created /\ CreditedOnce
  BY DEF BookInv, OrderInv
<1>a. status \in {"none", "pending", "expired"} => credits # 1
  BY <1>0 DEF Created, CreditedOnce, TypeOK
<1> USE DEF db, provider, memory, history
<1>1. CASE InsertOrder
  BY <1>a, <1>1, BookFrame DEF InsertOrder
<1>2. CASE PrepaySucceeds
  BY <1>2, BookFrame DEF PrepaySucceeds
<1>3. CASE PrepayFails
  BY <1>3, PrepayBooks
<1>4. CASE TimeoutPasses
  BY <1>4, BookFrame DEF TimeoutPasses
<1>5. CASE Pay
  BY <1>5, BookFrame DEF Pay
<1>6. CASE WechatPayOfficialNotify
  BY <1>6, RechargeBooks DEF WechatPayOfficialNotify
<1>7. CASE AdminCompleteTopUp
  BY <1>a, <1>7, CreditBooks DEF AdminCompleteTopUp
<1>8. CASE QueryRead
  BY <1>8, BookFrame DEF QueryRead
<1>9. CASE QueryExpire
  BY <1>a, <1>9, BookFrame DEF QueryExpire, ExpirePending
<1>10. CASE QueryUnpaid
  BY <1>10, BookFrame DEF QueryUnpaid
<1>11. CASE QueryPaid
  BY <1>11, BookFrame DEF QueryPaid
<1>12. CASE QueryReconcile
  BY <1>12, RechargeBooks DEF QueryReconcile
<1>13. CASE ExpireByTimeout
  BY <1>a, <1>13, BookFrame DEF ExpireByTimeout, ExpirePending
<1>14. CASE CloseStart
  BY <1>14, BookFrame DEF CloseStart
<1>15. CASE CloseCall
  BY <1>15, BookFrame DEF CloseCall
<1>16. CASE CloseExpire
  BY <1>a, <1>16, BookFrame DEF CloseExpire, ExpirePending
<1>17. ASSUME NEW r \in Refunds, NEW m \in 1..Money, NEW full \in BOOLEAN, CreateRefund(r, m, full)
       PROVE  Priced' /\ Books'
  BY <1>17, CreateBooks
<1>18. ASSUME NEW r \in Refunds, CallRefund(r) PROVE Priced' /\ Books'
  BY <1>18, BookFrame DEF CallRefund
<1>19. ASSUME NEW r \in Refunds, FinishRefund(r) PROVE Priced' /\ Books'
  <2>1. UNCHANGED <<undone, credits, spent>>
    BY <1>19 DEF FinishRefund
  <2>2. CASE UNCHANGED db
    BY <2>1, <2>2, BookFrame
  <2>3. CASE MarkRefund(r, call[r])
    BY <2>1, <2>3, MarkBooks
  <2> QED BY <1>19, <2>2, <2>3 DEF FinishRefund
<1>20. ASSUME NEW r \in Refunds, ProviderDecides(r) PROVE Priced' /\ Books'
  BY <1>20, BookFrame DEF ProviderDecides
<1>21. ASSUME NEW r \in Refunds, NEW s \in Final, ReportRefund(r, s) PROVE Priced' /\ Books'
  BY <1>21, MarkBooks DEF ReportRefund
<1>22. CASE Spend
  <2>1. quota' + spent' = quota + spent
    BY <1>0, <1>22, BoundAssumption DEF Spend, TypeOK
  <2> QED BY <1>22, <2>1, BookFrame DEF Spend
<1>23. CASE Crash
  BY <1>23, BookFrame DEF Crash
<1>24. CASE UNCHANGED vars
  BY <1>24, BookFrame DEF vars
<1> QED
  BY <1>1, <1>2, <1>3, <1>4, <1>5, <1>6, <1>7, <1>8, <1>9, <1>10, <1>11, <1>12, <1>13, <1>14,
     <1>15, <1>16, <1>17, <1>18, <1>19, <1>20, <1>21, <1>22, <1>23, <1>24 DEF Next

\* For every price, quota, rounding and number of refunds, the refunded totals, the status and
\* the user's quota are those of the refunds that are pending or successful (Books).
THEOREM BooksCorrect == Spec => []Books
<1>1. Spec => []BookInv
  BY BookInit, BookStep, PTL DEF Spec
<1>2. BookInv => Books
  BY DEF BookInv
<1> QED BY <1>1, <1>2, PTL
=============================================================================
