SPECIFICATION CalendarSpec
CONSTANTS
    Cutoffs = {1, 15, 28, 29, 30, 31}
    PaymentDays = {1, 20, 30, 31}
    FirstMonth = 24287
    MaxMonths = 16
    Terms = {3, 12}
    AmountCents = 1000
    Precision = 2
INVARIANTS CyclesMeet InstalmentsInTurn
PROPERTIES StampsInOrder
CHECK_DEADLOCK FALSE
