\* A remote change overwrites a newer queued edit.
SPECIFICATION Spec
CONSTANTS
    Key = {k1}
    Local = {c1, c2}
    Remote = {w1}
    Field = {f1}
    Forms = {{f1}}
    Refused = {}
    Absent = Absent
    Merged = Merged
    NoChange = NoChange
    ClientSkew = 0
    ServerSkew = 0
    MaxClock = 2
    Disturbances = {}
    MaxDisturbed = 1
    RetryMax = 2
    Strategy = "lww"
    MaxConflictRetries = 1
    PushBatch = 2
    PullBatch = 1
    MaxPullPages = 4
    AppOps = {"create", "update"}
SYMMETRY Symmetry
PROPERTIES NewerEditKept
CHECK_DEADLOCK FALSE
