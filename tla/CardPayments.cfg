SPECIFICATION Spec
CONSTANTS
    Requests = {r1, r2}
    Months = 2
    Limit = 2
    Amounts = {1}
    Cash = 2
    Openings = {0, 3}
    CashChecked = FALSE
    MaxCreated = 2
    MaxChanged = 1
    MaxPayments = 2
INVARIANTS BalanceExplained CoveredUnlessRaced PaidIsAllocated DebtIsOwed
PROPERTY StaysSettled
SYMMETRY Symmetry
CHECK_DEADLOCK FALSE
