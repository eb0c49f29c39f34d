\* Two rows, an update and a transaction that creates or changes both, and a
\* component that changes its query twice, with two fetches under way.
SPECIFICATION FairSpec
CONSTANTS
    Id = {1, 2}
    Op = {"edit", "tx"}
    Kind <- MCKind
    Touches <- MCTouches
    Fetch = {f1, f2}
    Query = {{1}, {1, 2}}
    None = None
    MaxRenders = 2
INVARIANTS ShowsItsQuery
PROPERTIES NeverOlder ViewSettles
CHECK_DEADLOCK FALSE
