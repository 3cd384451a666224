SPECIFICATION Spec
CONSTANTS
    Users = {a, b}
    SignIns = {s1, s2}
    MaxTime = 3
    MaxSignIns = 2
    None = None
INVARIANTS RowsUpToCursor 
SYMMETRY Symmetry
CHECK_DEADLOCK FALSE
