\* Two callers, nothing fails: a row that match() does not find.
SPECIFICATION Spec
CONSTANTS
    Doc = {d1, d2}
    a = a
    b = b
    Token = {a, b}
    Text <- MCText
    Absent = Absent
    Worker = {w1, w2}
    MaxOps = 2
    Disturbances = {}
SYMMETRY Symmetry
INVARIANTS MatchFindsAll
CHECK_DEADLOCK FALSE
