\* Two tabs, one or both with the newer schema, three calls of connect() and one
\* reload.
SPECIFICATION FairSpec
CONSTANTS
    Tab = {t1, t2}
    None = None
    MaxCalls = 3
    MaxVersion = 2
    Field = {"email", "age"}
    Declared <- MCDeclared
    MaxReloads = 1
INVARIANTS AdapterIsCurrent NothingLeaks SchemaApplied
PROPERTIES ConnectSettles UpgradeHappens
CHECK_DEADLOCK FALSE
