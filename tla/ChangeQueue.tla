----------------------------- MODULE ChangeQueue -----------------------------
(***************************************************************************)
(* The persistent queue of local writes (sync/change-tracker.ts): one row  *)
(* per write in the store _ctrodb_sync_changes, with a status, a retry     *)
(* count and the timestamp of the append.                                  *)
(*                                                                         *)
(* The row of change c is [status[c], retries[c], change[c]].  Four        *)
(* statuses are those of the store; the others say why there is no row.    *)
(***************************************************************************)
EXTENDS SyncBase

CONSTANT RetryMax   \* retryMaxAttempts: a change that failed so often is parked

ASSUME RetryMaxAssumption == RetryMax \in Nat

VARIABLES
    status,   \* [Local -> Status]
    retries,  \* [Local -> Nat], the retries field of the row
    change    \* [Local -> [key, type, ts, data]], the immutable fields of the row

queueVars == <<status, retries, change>>

ChangeType == {"create", "update", "delete"}
Stored == {"pending", "syncing", "committed", "failed"}
Status == Stored \cup
    {"unborn",     \* the application has not made this write yet
     "hooking",    \* the record is written, onAfter* has not appended the row
     "lost",       \* the row was never appended: crash, or the append failed
     "removed",    \* deleted by removeCommitted
     "compacted"}  \* deleted by compactSyncQueue

Row == {row \in [key : Key, type : ChangeType, ts : Nat, data : Content] :
           row.type = "delete" <=> row.data = Absent}

QueueTypeOK ==
    /\ status \in [Local -> Status]
    /\ retries \in [Local -> Nat]
    /\ change \in [Local -> Row]

QueueInit ==
    /\ status = [c \in Local |-> "unborn"]
    /\ retries = [c \in Local |-> 0]
    /\ change = [c \in Local |->
                    [key |-> CHOOSE k \in Key : TRUE, type |-> "delete", ts |-> 0,
                     data |-> Absent]]

-----------------------------------------------------------------------------
\* What the tracker's readers return.
HasRow(c) == status[c] \in Stored
ByStatus(s) == {c \in Local : status[c] = s}
Queued == ByStatus("pending") \cup ByStatus("failed")

\* Mutant of QueuedFor: the record of a change is not compared.
QueuedForAny(k) == Queued

QueuedFor(k) == {c \in Queued : change[c].key = k}

\* Mutant of DataOf: the null of a delete is passed on as it is.
DataOfUnmapped(c) == IF change[c].type = "delete" THEN NoChange ELSE change[c].data

\* What a change carries: the whole record as its write left it, for a delete
\* null.
DataOf(c) == IF change[c].type = "delete" THEN Absent ELSE change[c].data

\* A parked change: failed as often as retryMaxAttempts allows.
DeadLetter(c) == status[c] = "failed" /\ retries[c] >= RetryMax

-----------------------------------------------------------------------------
\* What the tracker's writers do to the row of change c (which must exist:
\* adapter.update rejects when there is no row).
\* Mutant of MarkPending: what was not acknowledged counts as committed.
MarkPendingAsCommitted(c) ==
    /\ status' = [status EXCEPT ![c] = "committed"]
    /\ UNCHANGED <<retries, change>>

MarkPending(c) ==
    /\ status' = [status EXCEPT ![c] = "pending"]
    /\ UNCHANGED <<retries, change>>

\* Mutant of MarkPendingWithRetries: the attempt is not counted.
MarkPendingUncounted(c, n) ==
    /\ status' = [status EXCEPT ![c] = "pending"]
    /\ UNCHANGED <<retries, change>>

MarkPendingWithRetries(c, n) ==
    /\ status' = [status EXCEPT ![c] = "pending"]
    /\ retries' = [retries EXCEPT ![c] = n]
    /\ UNCHANGED change

MarkSyncing(c) ==
    /\ status' = [status EXCEPT ![c] = "syncing"]
    /\ UNCHANGED <<retries, change>>

MarkCommitted(c) ==
    /\ status' = [status EXCEPT ![c] = "committed"]
    /\ UNCHANGED <<retries, change>>

\* markFailed returns silently when the row is gone.
MarkFailed(c) ==
    /\ IF HasRow(c)
       THEN /\ status' = [status EXCEPT ![c] = "failed"]
            /\ retries' = [retries EXCEPT ![c] = @ + 1]
       ELSE UNCHANGED <<status, retries>>
    /\ UNCHANGED change

\* Mutant of UnmarkSyncing: the rows already marked stay marked.
UnmarkNothing(done) == UNCHANGED queueVars

\* markSyncing failed part of the way: the rows already marked go back.
UnmarkSyncing(done) ==
    /\ status' = [c \in Local |->
                     IF c \in done /\ HasRow(c) THEN "pending" ELSE status[c]]
    /\ UNCHANGED <<retries, change>>

\* The row is created by the after hook, stamped with the time of the append.
AppendRow(c) ==
    /\ status' = [status EXCEPT ![c] = "pending"]
    /\ change' = [change EXCEPT ![c].ts = ClientNow]
    /\ UNCHANGED retries

RemoveCommitted ==
    /\ status' = [c \in Local |->
                     IF status[c] = "committed" THEN "removed" ELSE status[c]]
    /\ UNCHANGED <<retries, change>>

\* init: rows left in "syncing" by a crash return to the queue; writes whose
\* append had not run when the process died never reach it.
Recover ==
    /\ status' = [c \in Local |->
                     IF status[c] = "syncing" THEN "pending" ELSE status[c]]
    /\ retries' = [c \in Local |->
                     IF status[c] = "syncing" THEN retries[c] + 1 ELSE retries[c]]
    /\ UNCHANGED change
=============================================================================
