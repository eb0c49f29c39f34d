---------------------------- MODULE SyncDevtools ----------------------------
(***************************************************************************)
(* The queue maintenance of sync/devtools.ts, which an application may call *)
(* at any moment, in the middle of a sync cycle too.  Compaction plans from *)
(* one read of the queue, then re-fetches and deletes one row at a time;    *)
(* a retry lists the failed rows, then resets them one at a time.           *)
(***************************************************************************)
EXTENDS SyncEngine

VARIABLES
    doomed,    \* the superseded changes compactSyncQueue has yet to visit
    victim,    \* the change whose status it has checked and is about to delete
    retrying   \* the failed changes retryFailedSync has yet to reset

toolVars == <<doomed, victim, retrying>>

ToolsTypeOK ==
    /\ doomed \in SUBSET Local
    /\ victim \in Local \cup {NoChange}
    /\ retrying \in SUBSET Local

ToolsInit == doomed = {} /\ victim = NoChange /\ retrying = {}

\* Mutant of NewestIn: the oldest change is kept.
OldestKept(S, c) == OldestIn(S, c)

NewestIn(S, c) == c \in S /\ \A d \in S : change[d].ts <= change[c].ts

\* Keep the newest queued change of each record, mark the others.
CompactPlan ==
    /\ pc # "down"
    /\ doomed = {} /\ victim = NoChange
    /\ Disturb("compact")
    /\ \E kept \in [Key -> Local \cup {NoChange}] :
          /\ \A k \in Key : QueuedFor(k) # {} => NewestIn(QueuedFor(k), kept[k])
          /\ doomed' = {c \in Queued : kept[change[c].key] # c}
    /\ UNCHANGED <<victim, retrying, engineVars, queueVars, serverVars, wireVars>>

\* Re-fetch a candidate: only a pending or failed row may be deleted.
CompactCheck(c) ==
    /\ victim = NoChange
    /\ c \in doomed
    /\ doomed' = doomed \ {c}
    /\ victim' = IF c \in Queued THEN c ELSE NoChange
    /\ UNCHANGED <<retrying, engineVars, queueVars, serverVars, wireVars>>

CompactDelete ==
    /\ victim # NoChange
    /\ status' = [status EXCEPT ![victim] = IF HasRow(victim) THEN "compacted" ELSE @]
    /\ victim' = NoChange
    /\ UNCHANGED <<doomed, retrying, retries, change, engineVars, serverVars, wireVars>>

\* retryFailedSync lists the failed changes, dead letters included ...
RetryPlan ==
    /\ pc # "down"
    /\ retrying = {}
    /\ Disturb("retry")
    /\ ByStatus("failed") # {}
    /\ retrying' = ByStatus("failed")
    /\ UNCHANGED <<doomed, victim, engineVars, queueVars, serverVars, wireVars>>

\* ... and queues them again, whatever became of them since; it gives up at
\* the first one whose row is gone.
RetryNext(c) ==
    /\ c \in retrying
    /\ \/ HasRow(c) /\ MarkPending(c) /\ retrying' = retrying \ {c}
       \/ ~HasRow(c) /\ retrying' = {} /\ UNCHANGED queueVars
    /\ UNCHANGED <<doomed, victim, engineVars, serverVars, wireVars>>

\* clearCommittedSync, outside the cycle's own purge.
ClearCommitted ==
    /\ pc # "down"
    /\ Disturb("clear")
    /\ ByStatus("committed") # {}
    /\ RemoveCommitted
    /\ UNCHANGED <<toolVars, engineVars, serverVars, wireVars>>
=============================================================================
