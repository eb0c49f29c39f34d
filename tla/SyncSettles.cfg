\* Liveness of the queue and the pull under client-wins, the strategy that pushes
\* a conflict again: pushes that fail, are lost, refused or ignored, failed
\* pulls, crashes; two records of two fields.
SPECIFICATION FairSpec
CONSTANTS
    Key = {k1, k2}
    Local = {c1}
    Remote = {w1}
    Field = {f1, f2}
    Forms = {{f1}, {f2}}
    Refused = {}
    Absent = Absent
    Merged = Merged
    NoChange = NoChange
    ClientSkew = 0
    ServerSkew = 0
    MaxClock = 1
    Disturbances = {"push", "pull", "crash", "refuse", "ignore"}
    MaxDisturbed = 2
    RetryMax = 2
    Strategy = "client-wins"
    MaxConflictRetries = 1
    PushBatch = 2
    PullBatch = 1
    MaxPullPages = 1
    AppOps = {"create", "update"}
INVARIANTS Converged
PROPERTIES Settles CatchesUp
CHECK_DEADLOCK FALSE
