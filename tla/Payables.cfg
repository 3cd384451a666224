SPECIFICATION Spec
CONSTANTS
    Requests = {1, 2}
    DueDays = {10}
    MaxMonth = 4
    FirstMonths = {1}
    Limits = {2}
    Shifts = {0, 1}
    MaxEdits = 1
    MaxPays = 3
INVARIANTS
    SettledOnce
    NothingForgotten
    StuckOnlyAfterRace
    ListedCanBePaid
    CountedOnce
CHECK_DEADLOCK FALSE
