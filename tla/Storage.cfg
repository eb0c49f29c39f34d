\* One collection of two rows, two keys and one value that cannot be indexed;
\* a transaction of up to two writes at a time, and writers outside of it.
SPECIFICATION Spec
CONSTANTS
    Id = {1, 2}
    Key = {1, 2}
    o = o
    yes = yes
    undefined = undefined
    Odd = {o}
    Flag = {}
    Undefined = undefined
    Absent = Absent
    NoCache = NoCache
    Structured = FALSE
    Type <- MCType
    Less <- MCLess
    AtMost <- MCAtMost
    Same <- MCSame
    Txn = {t1}
    Nobody = Nobody
    MaxJournal = 2
    Condition <- MCCondition
    Queries <- MCQueries
INVARIANTS TypeOK IndexExact QueriesAgree PagesAgree
PROPERTIES UniqueHolds RollbackRestores
CHECK_DEADLOCK FALSE
