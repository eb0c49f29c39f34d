----------------------------- MODULE SyncEngine -----------------------------
(***************************************************************************)
(* One sync cycle of the client (sync/sync-engine.ts), as the steps between *)
(* its awaits: the queue is snapshotted, a batch is pushed and its answer   *)
(* settled, the server's log is pulled and applied through Collection, the  *)
(* cursor is saved and the committed rows are removed.  Other actors may    *)
(* move between any two steps.                                              *)
(*                                                                          *)
(* The lists of one answer are settled in any order within a list: the      *)
(* transport contract (sync/types.ts) does not fix one.                     *)
(***************************************************************************)
EXTENDS SyncServer

CONSTANTS
    Strategy,            \* "lww", "client-wins", "server-wins" or "custom"
    MaxConflictRetries,  \* MAX_CONFLICT_RETRIES
    PushBatch,           \* pushBatchSize
    PullBatch,           \* pullBatchSize
    MaxPullPages         \* MAX_PULL_PAGES

ASSUME EngineAssumption ==
    /\ Strategy \in {"lww", "client-wins", "server-wins", "custom"}
    /\ MaxConflictRetries \in Nat
    /\ PushBatch \in Nat \ {0} /\ PullBatch \in Nat \ {0}
    /\ MaxPullPages \in Nat \ {0}

VARIABLES
    rows,      \* [Key -> Content], the records of the local database
    pc,        \* where the cycle is; "down" when the program does not run
    snap,      \* pendingSnapshot: a queued change per key, or NoChange
    batch,     \* the changes of this cycle's push
    todo,      \* the changes the current loop has yet to visit
    remote,    \* the change #applyRemoteChange is applying
    existing,  \* whether its read found the record
    at,        \* log entries applied by this pull
    upto,      \* end of the page being applied, and the loop's cursor
    more,      \* the page's hasMore
    pages,     \* pages fetched by this pull
    cursor,    \* #lastPullCursor
    saved,     \* the persisted sync:lastPullCursor
    aborted    \* an exception escaped the settling of a push since start-up

applyVars == <<remote, existing>>
pullVars == <<at, upto, more, pages>>
cursorVars == <<cursor, saved>>
engineVars == <<rows, pc, snap, batch, todo, applyVars, pullVars, cursorVars, aborted>>

PC == {"down", "idle", "select", "mark", "sent", "rollback", "accepted",
       "conflicts", "errors", "unacked", "pull", "apply", "read", "write",
       "settle", "save", "purge"}

NoRemote == [key |-> CHOOSE k \in Key : TRUE, data |-> Absent, ts |-> 0,
             cause |-> NoChange]
NoSnapshot == [k \in Key |-> NoChange]

EngineTypeOK ==
    /\ rows \in [Key -> Content]
    /\ pc \in PC
    /\ snap \in [Key -> Local \cup {NoChange}]
    /\ batch \in SUBSET Local
    /\ todo \in SUBSET Local
    /\ remote \in [key : Key, data : Content, ts : Nat, cause : Local \cup {NoChange}]
    /\ existing \in BOOLEAN
    /\ at \in Nat /\ upto \in Nat
    /\ more \in BOOLEAN
    /\ pages \in Nat
    /\ cursor \in Nat /\ saved \in Nat
    /\ aborted \in BOOLEAN

\* The locals of a cycle as they are when none runs.
FreshCycle ==
    /\ snap = NoSnapshot
    /\ batch = {} /\ todo = {}
    /\ remote = NoRemote /\ existing = FALSE
    /\ at = 0 /\ upto = 0 /\ more = FALSE /\ pages = 0

EngineInit ==
    /\ rows = [k \in Key |-> Absent]
    /\ pc = "idle"
    /\ FreshCycle
    /\ cursor = 0 /\ saved = 0
    /\ aborted = FALSE

ForgetCycle ==
    /\ snap' = NoSnapshot
    /\ batch' = {} /\ todo' = {}
    /\ remote' = NoRemote /\ existing' = FALSE
    /\ at' = 0 /\ upto' = 0 /\ more' = FALSE /\ pages' = 0
    /\ answer' = AllUnanswered

\* The finally of sync(): the cycle is over, whatever it did.
EndCycle == pc' = "idle" /\ ForgetCycle

\* An exception reaches the catch of sync(): #pushChanges and #pullChanges
\* leave the queue as it is.
Fail == EndCycle /\ UNCHANGED aborted
Abort == EndCycle /\ aborted' = TRUE

-----------------------------------------------------------------------------
\* Snapshot and selection.

\* #pendingByKey keeps the oldest queued change of each record; among equal
\* timestamps the first one of the scan.
Snapshots == {s \in [Key -> Local \cup {NoChange}] :
                 \A k \in Key : IF QueuedFor(k) = {}
                                THEN s[k] = NoChange
                                ELSE OldestIn(QueuedFor(k), s[k])}

BeginSync ==
    /\ pc = "idle"
    /\ pc' = "select"
    /\ snap' \in Snapshots
    /\ UNCHANGED <<rows, batch, todo, applyVars, pullVars, cursorVars, aborted,
                   queueVars, serverVars, wireVars>>

\* Dead letters are not pushed.
Eligible == {c \in Queued : ~DeadLetter(c)}

\* The oldest PushBatch changes of S.
IsBatchOf(b, S) ==
    /\ Cardinality(b) = IF Cardinality(S) < PushBatch THEN Cardinality(S)
                                                      ELSE PushBatch
    /\ \A c \in b, d \in S \ b : change[c].ts <= change[d].ts

BeginPull ==
    /\ pc' = "pull"
    /\ todo' = {}
    /\ at' = cursor /\ upto' = cursor /\ more' = FALSE /\ pages' = 0

SelectBatch ==
    /\ pc = "select"
    /\ \/ /\ Eligible = {}
          /\ BeginPull
          /\ UNCHANGED batch
       \/ /\ Eligible # {}
          /\ \E b \in SUBSET Eligible : IsBatchOf(b, Eligible) /\ batch' = b
          /\ todo' = batch'
          /\ pc' = "mark"
          /\ UNCHANGED pullVars
    /\ UNCHANGED <<rows, snap, applyVars, cursorVars, aborted,
                   queueVars, serverVars, wireVars>>

-----------------------------------------------------------------------------
\* Push.

MarkNext(c) ==
    /\ pc = "mark"
    /\ OldestIn(todo, c)
    /\ UNCHANGED <<rows, cursorVars, serverVars, late>>
    /\ \/ /\ HasRow(c)
          /\ MarkSyncing(c)
          /\ todo' = todo \ {c}
          /\ IF todo' = {} THEN pc' = "sent" /\ request' = batch
                           ELSE pc' = "mark" /\ UNCHANGED request
          /\ UNCHANGED <<snap, batch, applyVars, pullVars, aborted, answer>>
       \/ /\ ~HasRow(c)
          /\ UnmarkSyncing(batch \ todo)
          /\ Fail
          /\ UNCHANGED request

\* transport.push resolves with the server's answer.
ReceiveAnswer ==
    /\ pc = "sent"
    /\ request = {}
    /\ pc' = "accepted"
    /\ todo' = {c \in batch : answer[c].kind = "accepted"}
    /\ UNCHANGED <<rows, snap, batch, applyVars, pullVars, cursorVars, aborted,
                   queueVars, serverVars, wireVars>>

\* transport.push throws: the request was lost, its answer was lost, or the
\* client stopped waiting and the server handles the request later.
PushThrows ==
    /\ pc = "sent"
    /\ Disturb("push")
    /\ pc' = "rollback"
    /\ todo' = batch
    /\ GiveUp
    /\ answer' = AllUnanswered
    /\ UNCHANGED <<rows, snap, batch, applyVars, pullVars, cursorVars, aborted,
                   queueVars, serverVars>>

\* The loop of the catch around transport.push; then the error is rethrown.
RollbackNext(c) ==
    /\ pc = "rollback"
    /\ c \in todo
    /\ UNCHANGED <<rows, cursorVars, serverVars, request, late>>
    /\ \/ /\ HasRow(c)
          /\ MarkPending(c)
          /\ IF todo = {c}
             THEN Fail
             ELSE /\ todo' = todo \ {c}
                  /\ UNCHANGED <<pc, snap, batch, applyVars, pullVars, aborted, answer>>
       \/ /\ ~HasRow(c)
          /\ Abort
          /\ UNCHANGED queueVars

Visited(c) ==
    /\ todo' = todo \ {c}
    /\ UNCHANGED <<rows, pc, snap, batch, applyVars, pullVars, cursorVars, aborted,
                   serverVars, wireVars>>

\* A row the settling needs is gone: adapter.update rejects.
RowMissing(c) ==
    /\ ~HasRow(c)
    /\ Abort
    /\ UNCHANGED <<rows, cursorVars, queueVars, serverVars, request, late>>

CommitNow(c) ==
    \/ HasRow(c) /\ MarkCommitted(c) /\ Visited(c)
    \/ RowMissing(c)

AcceptNext(c) ==
    /\ pc = "accepted"
    /\ c \in todo
    /\ CommitNow(c)

ErrorNext(c) ==
    /\ pc = "errors"
    /\ c \in todo
    /\ MarkFailed(c)
    /\ Visited(c)

UnackedNext(c) ==
    /\ pc = "unacked"
    /\ c \in todo
    /\ \/ HasRow(c) /\ MarkPending(c) /\ Visited(c)
       \/ RowMissing(c)

Answered(kind) == {c \in batch : answer[c].kind = kind}

\* One list of the answer is settled; the next one is taken up.
NextList ==
    /\ todo = {}
    /\ \/ pc = "accepted" /\ pc' = "conflicts" /\ todo' = Answered("conflict")
          /\ UNCHANGED pullVars
       \/ pc = "conflicts" /\ pc' = "errors" /\ todo' = Answered("error")
          /\ UNCHANGED pullVars
       \/ pc = "errors" /\ pc' = "unacked" /\ todo' = Answered("none")
          /\ UNCHANGED pullVars
       \/ pc = "unacked" /\ BeginPull
    /\ UNCHANGED <<rows, snap, batch, applyVars, cursorVars, aborted,
                   queueVars, serverVars, wireVars>>

-----------------------------------------------------------------------------
\* Conflicts.

\* Mutant of Lww: the comparison of the timestamps is turned around.
LwwOlder(c) ==
    IF /\ DataOf(c) # Absent
       /\ answer[c].data = Absent \/ change[c].ts < answer[c].ts
    THEN "local" ELSE "remote"

\* ConflictResolverEngine.#lww
Lww(c) ==
    IF /\ DataOf(c) # Absent
       /\ answer[c].data = Absent \/ change[c].ts > answer[c].ts
    THEN "local" ELSE "remote"

\* ConflictResolverEngine.resolve; a custom resolver may do anything.
Resolutions(c) ==
    (IF Strategy = "lww" THEN {Lww(c)} ELSE {}) \cup
    (IF Strategy = "client-wins" THEN {"local"} ELSE {}) \cup
    (IF Strategy = "server-wins" THEN {"remote"} ELSE {}) \cup
    (IF Strategy = "custom"
     THEN {"local", "remote", "merged", "unsupported", "throw"} ELSE {})

\* What a custom resolver may build from both sides.
MergedContents == {Patch(fields, Merged) : fields \in Forms}

\* Apply content to record k, on behalf of the conflicting change c if any.
StartApply(k, data, ts, c) ==
    /\ remote' = [key |-> k, data |-> data, ts |-> ts, cause |-> c]
    /\ pc' = "read"

Attempts(c) == (IF HasRow(c) THEN retries[c] ELSE 0) + 1

\* The local side wins: push again, a bounded number of times.
KeepLocal(c) ==
    \/ /\ Attempts(c) > MaxConflictRetries
       /\ MarkFailed(c)
       /\ Visited(c)
    \/ /\ Attempts(c) <= MaxConflictRetries
       /\ HasRow(c)
       /\ MarkPendingWithRetries(c, Attempts(c))
       /\ Visited(c)
    \/ /\ Attempts(c) <= MaxConflictRetries
       /\ RowMissing(c)

\* The remote or the merged content wins: apply it, then settle the change.
TakeContent(c, data) ==
    /\ StartApply(change[c].key, data, answer[c].ts, c)
    /\ UNCHANGED <<rows, snap, batch, todo, existing, pullVars, cursorVars, aborted,
                   queueVars, serverVars, wireVars>>

ResolveNext(c) ==
    /\ pc = "conflicts"
    /\ c \in todo
    /\ \E r \in Resolutions(c) :
          \/ r = "local" /\ KeepLocal(c)
          \/ r = "remote" /\ TakeContent(c, answer[c].data)
          \/ r = "merged" /\ \E data \in MergedContents : TakeContent(c, data)
          \/ r = "merged" /\ CommitNow(c)   \* "merged" without a content
          \/ r = "unsupported" /\ MarkFailed(c) /\ Visited(c)
          \/ /\ r = "throw"
             /\ Abort
             /\ UNCHANGED <<rows, cursorVars, queueVars, serverVars, request, late>>

\* The content is applied: the change leaves the queue.
SettleConflict ==
    LET c == remote.cause IN
    /\ pc = "settle"
    /\ \/ /\ HasRow(c)
          /\ MarkCommitted(c)
          /\ pc' = "conflicts"
          /\ todo' = todo \ {c}
          /\ remote' = NoRemote /\ existing' = FALSE
          /\ UNCHANGED <<rows, snap, batch, pullVars, cursorVars, aborted,
                         serverVars, wireVars>>
       \/ RowMissing(c)

-----------------------------------------------------------------------------
\* Pull.

PullPage ==
    /\ pc = "pull"
    /\ pages < MaxPullPages
    /\ pc' = "apply"
    /\ at' = upto
    /\ upto' = PageEnd(upto, PullBatch)
    /\ more' = HasMore(upto, PullBatch)
    /\ pages' = pages + 1
    /\ UNCHANGED <<rows, snap, batch, todo, applyVars, cursorVars, aborted,
                   queueVars, serverVars, wireVars>>

\* transport.pull throws.
PullThrows ==
    /\ pc = "pull"
    /\ Disturb("pull")
    /\ Fail
    /\ UNCHANGED <<rows, cursorVars, queueVars, serverVars, request, late>>

\* Too many pages in one pull: the cycle fails, and the cursor stays.
PullOverrun ==
    /\ pc = "pull"
    /\ pages >= MaxPullPages
    /\ Fail
    /\ UNCHANGED <<rows, cursorVars, queueVars, serverVars, request, late>>

\* Mutant of IsReplay: an edit of the same millisecond counts as newer.
IsReplayOrEqual(p, e) == p # NoChange /\ change[p].ts >= e.ts

\* A queued local edit strictly newer than the remote change makes the latter
\* a replay.
IsReplay(p, e) == p # NoChange /\ change[p].ts > e.ts

\* The head of #applyRemoteChange, for the next entry of the page.
ApplyNext ==
    LET e == log[at + 1]
        p == snap[e.key] IN
    /\ pc = "apply"
    /\ at < upto
    /\ \/ /\ IsReplay(p, e)
          /\ at' = at + 1
          /\ UNCHANGED <<rows, pc, snap, batch, todo, applyVars, upto, more, pages,
                         cursorVars, aborted, queueVars, serverVars, wireVars>>
       \/ /\ ~IsReplay(p, e)
          /\ p = NoChange
          /\ StartApply(e.key, e.data, e.ts, NoChange)
          /\ UNCHANGED <<rows, snap, batch, todo, existing, pullVars, cursorVars,
                         aborted, queueVars, serverVars, wireVars>>
       \/ /\ ~IsReplay(p, e)
          /\ p # NoChange
          /\ HasRow(p)
          /\ MarkCommitted(p)
          /\ snap' = [snap EXCEPT ![e.key] = NoChange]
          /\ StartApply(e.key, e.data, e.ts, NoChange)
          /\ UNCHANGED <<rows, batch, todo, existing, pullVars, cursorVars, aborted,
                         serverVars, wireVars>>
       \/ /\ ~IsReplay(p, e)
          /\ p # NoChange
          /\ ~HasRow(p)
          /\ Fail
          /\ UNCHANGED <<rows, cursorVars, queueVars, serverVars, request, late>>

\* collection.get: what the write below decides on.
ReadExisting ==
    /\ pc = "read"
    /\ pc' = "write"
    /\ existing' = (rows[remote.key] # Absent)
    /\ UNCHANGED <<rows, snap, batch, todo, remote, pullVars, cursorVars, aborted,
                   queueVars, serverVars, wireVars>>

\* collection.update rejects when the record is gone, collection.create when
\* it exists; deleting a record that is gone does nothing.
WriteRejected ==
    /\ remote.data # Absent
    /\ existing # (rows[remote.key] # Absent)

Applied ==
    IF remote.cause = NoChange
    THEN /\ pc' = "apply"
         /\ at' = at + 1
         /\ remote' = NoRemote /\ existing' = FALSE
         /\ UNCHANGED <<upto, more, pages>>
    ELSE pc' = "settle" /\ UNCHANGED <<pullVars, applyVars>>

\* What the write leaves: collection.update merges the content into the record,
\* collection.create and collection.delete do not.
Outcome ==
    IF remote.data # Absent THEN Merge(rows[remote.key], remote.data)
    ELSE IF existing THEN Absent ELSE rows[remote.key]

\* The record that was read is there, or is not, as it was.  A deletion is not
\* validated.
WriteRow ==
    /\ pc = "write"
    /\ ~WriteRejected
    /\ remote.data # Absent => Acceptable(Outcome)
    /\ rows' = [rows EXCEPT ![remote.key] = Outcome]
    /\ Applied
    /\ UNCHANGED <<snap, batch, todo, cursorVars, aborted,
                   queueVars, serverVars, wireVars>>

WriteThrows ==
    /\ pc = "write"
    /\ IF remote.cause = NoChange THEN Fail ELSE Abort
    /\ UNCHANGED <<rows, cursorVars, queueVars, serverVars, request, late>>

\* The record came or went between the read and the write.
WriteRaces == WriteRejected /\ WriteThrows

\* The record would fail the schema validation of Collection: it does so again
\* whenever the same content is applied to the same record.
WriteInvalid ==
    /\ ~WriteRejected
    /\ remote.data # Absent /\ ~Acceptable(Outcome)
    /\ WriteThrows

\* The page is applied: fetch the next one, or keep the cursor of the last.
PageDone ==
    /\ pc = "apply"
    /\ at = upto
    /\ IF more
       THEN pc' = "pull" /\ UNCHANGED <<cursor, pullVars>>
       ELSE /\ pc' = "save"
            /\ cursor' = upto
            /\ at' = 0 /\ upto' = 0 /\ more' = FALSE /\ pages' = 0
    /\ UNCHANGED <<rows, snap, batch, todo, applyVars, saved, aborted,
                   queueVars, serverVars, wireVars>>

-----------------------------------------------------------------------------
\* Completion.

SaveCursor ==
    /\ pc = "save"
    /\ pc' = "purge"
    /\ saved' = cursor
    /\ UNCHANGED <<rows, snap, batch, todo, applyVars, pullVars, cursor, aborted,
                   queueVars, serverVars, wireVars>>

Purge ==
    /\ pc = "purge"
    /\ RemoveCommitted
    /\ EndCycle
    /\ UNCHANGED aborted
    /\ UNCHANGED <<rows, cursorVars, serverVars, request, late>>

\* The steps of a cycle that cause no disturbance of their own.
CycleStep ==
    \/ BeginSync \/ SelectBatch \/ ReceiveAnswer \/ NextList
    \/ SettleConflict \/ PullPage \/ ApplyNext \/ ReadExisting \/ WriteRow
    \/ PageDone \/ SaveCursor \/ Purge
    \/ PullOverrun \/ WriteRaces \/ WriteInvalid
    \/ \E c \in Local :
          \/ MarkNext(c) \/ RollbackNext(c) \/ AcceptNext(c) \/ ResolveNext(c)
          \/ ErrorNext(c) \/ UnackedNext(c)
=============================================================================
