SPECIFICATION Spec
CONSTANTS
    Requests = {1, 2}
    Boards = {b1}
    Tasks = {t1}
    Columns = {1, 2, 3, 4}
    Defaults = 3
    Stores = {"sqlite", "postgres"}
    MaxPosition = 2
    MaxOps = 3
    None = None
INVARIANTS ColumnsInOrder BoardTakesItsRows EditsKept
PROPERTIES MovesKeepOrder RowsOnlyAdvance
CHECK_DEADLOCK FALSE
