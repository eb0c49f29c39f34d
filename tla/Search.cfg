\* Two documents of two tokens and two callers; hooks that fail, crashes and
\* sessions without the plugin.
SPECIFICATION Spec
CONSTANTS
    Doc = {d1, d2}
    a = a
    b = b
    Token = {a, b}
    Text <- MCText
    Absent = Absent
    Worker = {w1, w2}
    MaxOps = 2
    Disturbances = {"crash", "fail", "unplugged"}
SYMMETRY Symmetry
INVARIANTS TypeOK PostingsExact
PROPERTIES SteadyRowsFound StampedIsBuilt
CHECK_DEADLOCK FALSE
