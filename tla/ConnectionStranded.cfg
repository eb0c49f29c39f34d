\* A tab that another tab upgrades while its engine awaits the socket.
SPECIFICATION FairSpec
CONSTANTS
    Tab = {t1, t2}
    None = None
    MaxCalls = 2
    MaxVersion = 2
    Field = {"email", "age"}
    Declared <- MCDeclared
    MaxReloads = 0
PROPERTIES EveryConnectSettles
CHECK_DEADLOCK FALSE
