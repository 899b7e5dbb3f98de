SPECIFICATION Spec
CONSTANTS
    x1 = x1
    t1 = t1
    c1 = c1
    e1 = e1
    e2 = e2
    w1 = w1
    w2 = w2
    Electronic = {x1}
    Manual = {t1}
    Cash = {c1}
    Events = {e1, e2}
    Receipts = {r1}
    Workers = {w1, w2}
    Other = Other
    Price = 2
INVARIANTS TypeOK OneTransactionPerReference PaidIsTheSum NoPartialPayment EveryUnservedPaymentHasACase SuccessIsBacked
PROPERTIES ExpiryTakesNoMoney
CONSTRAINT Plausible
SYMMETRY PaymentsSymmetry
CHECK_DEADLOCK FALSE
