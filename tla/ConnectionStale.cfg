\* A tab that another tab upgraded while its plugins were starting.
SPECIFICATION FairSpec
CONSTANTS
    Tab = {t1, t2}
    None = None
    MaxCalls = 3
    MaxVersion = 2
    Field = {"email", "age"}
    Declared <- MCDeclared
    MaxReloads = 1
INVARIANTS StaleIsDisconnected
CHECK_DEADLOCK FALSE
