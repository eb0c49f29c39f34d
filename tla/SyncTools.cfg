\* Compaction and a retry of failed changes beside the cycles, with two edits of
\* the same millisecond: the retry queues a change that a conflict is about to
\* give up, and compaction drops the other edit for it.
SPECIFICATION Spec
CONSTANTS
    Key = {k1}
    Local = {c1, c2}
    Remote = {w1}
    Field = {f1}
    Forms = {{f1}}
    Refused = {}
    Absent = Absent
    Merged = Merged
    NoChange = NoChange
    ClientSkew = 0
    ServerSkew = 0
    MaxClock = 1
    Disturbances = {"refuse", "compact", "retry"}
    MaxDisturbed = 3
    RetryMax = 2
    Strategy = "lww"
    MaxConflictRetries = 1
    PushBatch = 2
    PullBatch = 1
    MaxPullPages = 4
    AppOps = {"create", "update"}
SYMMETRY Symmetry
INVARIANTS Converged
CHECK_DEADLOCK FALSE
