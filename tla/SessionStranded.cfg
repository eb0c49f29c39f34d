\* Another tab upgrades the database while the engine awaits its socket.
SPECIFICATION FairSpec
CONSTANTS
    Socket = {s1, s2}
    Request = {r1, r2}
    None = None
    Engine = {e1}
    MaxReconnectAttempts = 2
    CircuitBreakerThreshold = 2
    RequestsPerCycle = 1
PROPERTIES ConnectEnds
CHECK_DEADLOCK FALSE
