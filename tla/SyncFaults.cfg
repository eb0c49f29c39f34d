\* Every kind of disturbance, one at a time, and a custom resolver that may throw.
SPECIFICATION Spec
CONSTANTS
    Key = {k1}
    Local = {c1, c2}
    Remote = {w1}
    Field = {f1}
    Forms = {{f1}}
    Refused <- RefusedRemote
    Absent = Absent
    Merged = Merged
    NoChange = NoChange
    ClientSkew = 0
    ServerSkew = 0
    MaxClock = 1
    Disturbances = {"push", "pull", "crash", "refuse", "ignore", "append",
                    "compact", "retry", "clear"}
    MaxDisturbed = 1
    RetryMax = 2
    Strategy = "custom"
    MaxConflictRetries = 1
    PushBatch = 2
    PullBatch = 1
    MaxPullPages = 4
    AppOps = {"create", "update"}
SYMMETRY Symmetry
INVARIANTS CoverInv CompactedIsSuperseded SyncingIsOwned
PROPERTIES ImplementsLifecycle
CHECK_DEADLOCK FALSE
