\* Two rows, four operations in any order, and no component.
SPECIFICATION SystemSpec
CONSTANTS
    Id = {1, 2}
    Op = {"batch", "edit", "tx", "clear"}
    Kind <- MCKind
    Touches <- MCTouches
    Fetch = {}
    Query = {{1}}
    None = None
    MaxRenders = 0
INVARIANTS AnsweredIsDurable
PROPERTIES ImplementsAtomicStore
CHECK_DEADLOCK FALSE
