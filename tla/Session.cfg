\* One database with the sync plugin over the websocket transport: two sockets,
\* two requests; the application connects and disconnects at will.
SPECIFICATION FairSpec
CONSTANTS
    Socket = {s1, s2}
    Request = {r1, r2}
    None = None
    Engine = {e1}
    MaxReconnectAttempts = 2
    CircuitBreakerThreshold = 2
    RequestsPerCycle = 1
INVARIANTS OneSocket PendingIsOnOpenSocket DisconnectedIsQuiet
PROPERTIES AnswersItsRequest BreakerOpens InitEnds CycleEnds TriggerHonoured Reconnects
CHECK_DEADLOCK FALSE
