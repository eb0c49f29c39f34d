\* A remote change is skipped for an edit that is parked, and stays unpushed.
SPECIFICATION Spec
CONSTANTS
    Key = {k1}
    Local = {c1}
    Remote = {w1}
    Field = {f1}
    Forms = {{f1}}
    Refused = {}
    Absent = Absent
    Merged = Merged
    NoChange = NoChange
    ClientSkew = 0
    ServerSkew = 0
    MaxClock = 1
    Disturbances = {"refuse"}
    MaxDisturbed = 1
    RetryMax = 1
    Strategy = "lww"
    MaxConflictRetries = 1
    PushBatch = 2
    PullBatch = 1
    MaxPullPages = 4
    AppOps = {"create", "update"}
PROPERTIES KeptEditIsPushed
CHECK_DEADLOCK FALSE
