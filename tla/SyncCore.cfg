\* One record of two fields, two local writes and one remote write, each setting one
\* field, under last-write-wins; a push that fails, is lost or is handled late,
\* or a compaction.
SPECIFICATION Spec
CONSTANTS
    Key = {k1}
    Local = {c1, c2}
    Remote = {w1}
    Field = {f1, f2}
    Forms = {{f1}, {f2}}
    Refused = {}
    Absent = Absent
    Merged = Merged
    NoChange = NoChange
    ClientSkew = 0
    ServerSkew = 0
    MaxClock = 1
    Disturbances = {"push", "compact"}
    MaxDisturbed = 1
    RetryMax = 2
    Strategy = "lww"
    MaxConflictRetries = 1
    PushBatch = 2
    PullBatch = 1
    MaxPullPages = 4
    AppOps = {"create", "update", "delete"}
SYMMETRY Symmetry
INVARIANTS TypeOK CommittedIsCovered Converged
PROPERTIES KeptEditIsQueued
CHECK_DEADLOCK FALSE
