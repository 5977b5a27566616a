\* An order of 2 units for 3 units of quota, two refunds, one unit spent or one restart.
SPECIFICATION Spec
CONSTANTS
    f1 = f1
    f2 = f2
    Refunds = {f1, f2}
    Money = 2
    Credit = 3
    MaxEvents = 1
INVARIANTS TypeOK CreditedOnce Books RefundTruth
PROPERTIES PaidIsCredited RefundsAgree
CHECK_DEADLOCK FALSE
