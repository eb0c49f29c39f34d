\* Three keys of three types, an object and true, in a field that the schema has
\* as a structured one: no transactions, every value in every row.
SPECIFICATION Spec
CONSTANTS
    Id = {1, 2}
    Key = {1, 2, 3}
    o = o
    yes = yes
    undefined = undefined
    Odd = {o, yes}
    Flag = {yes}
    Undefined = undefined
    Absent = Absent
    NoCache = NoCache
    Structured = TRUE
    Type <- MixedType
    Less <- MixedLess
    AtMost <- MixedAtMost
    Same <- MixedSame
    Txn = {}
    Nobody = Nobody
    MaxJournal = 1
    Condition <- MixedCondition
    Queries <- NoQueries
INVARIANTS QueriesAgree
PROPERTIES UniqueHolds
CHECK_DEADLOCK FALSE
