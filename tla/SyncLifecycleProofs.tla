------------------------- MODULE SyncLifecycleProofs -------------------------
(***************************************************************************)
(* The sync subsystem implements ChangeLifecycle; compaction never drops    *)
(* the last word of the queue about a record; and a row is in "syncing"     *)
(* only while the cycle still owns it.  For every number of records,        *)
(* writes, disturbances and crashes, every strategy and every bound.        *)
(***************************************************************************)
EXTENDS SyncProofs

USE DEF vars, queueVars, serverVars, wireVars, engineVars, applyVars, pullVars,
        cursorVars, toolVars

-----------------------------------------------------------------------------
(* What a step does to the queue: it leaves it alone, or it is one call of   *)
(* one of the tracker's writers, and the server's log stays as it is.        *)

\* A row goes back to the queue, or to the wire, or fails.
Requeues(c) ==
    /\ HasRow(c)
    /\ MarkPending(c) \/ MarkSyncing(c) \/ MarkFailed(c)
       \/ \E n \in Nat : MarkPendingWithRetries(c, n)

CycleWrites ==
    \/ UNCHANGED queueVars
    \/ \E c \in Local : Requeues(c)
    \/ \E c \in Entered : Covered(c) /\ HasRow(c) /\ MarkCommitted(c)
    \/ pc = "mark" /\ UnmarkSyncing(batch \ todo)
    \/ RemoveCommitted

LEMMA MarkFailedWrites ==
  ASSUME NEW c \in Local, MarkFailed(c)
  PROVE  CycleWrites
  BY DEF MarkFailed, CycleWrites, Requeues

LEMMA CommitNowWrites ==
  ASSUME NEW c \in Entered, Covered(c), CommitNow(c)
  PROVE  CycleWrites
  BY DEF CommitNow, RowMissing, CycleWrites

LEMMA ResolveWrites ==
  ASSUME CoverInv, NEW c \in Local, ResolveNext(c)
  PROVE  CycleWrites
<1>1. c \in Entered /\ answer[c].kind = "conflict"
  BY DEF ResolveNext, CoverInv, ListIsAnswered, Answered, InFlightIsEntered
<1>2. CASE Abort /\ UNCHANGED queueVars
  BY <1>2 DEF CycleWrites
<1>3. CASE MarkFailed(c)
  BY <1>3, MarkFailedWrites
<1>4. CASE KeepLocal(c)
  <2>1. Attempts(c) \in Nat
    BY DEF Attempts, CoverInv, TypeInv, TypeOK, QueueTypeOK
  <2> QED
    BY <1>4, <2>1, MarkFailedWrites DEF KeepLocal, RowMissing, CycleWrites, Requeues
<1>5. CASE TakeContent(c, answer[c].data) \/ \E data \in MergedContents : TakeContent(c, data)
  BY <1>5 DEF TakeContent, CycleWrites
<1>6. CASE "merged" \in Resolutions(c) /\ CommitNow(c)
  BY <1>1, <1>6, RemoteWins, CommitNowWrites
<1> QED BY <1>2, <1>3, <1>4, <1>5, <1>6 DEF ResolveNext

LEMMA SettleWrites ==
  ASSUME CoverInv, SettleConflict
  PROVE  CycleWrites
<1> DEFINE c == remote.cause
<1>1. c \in Entered /\ Covered(c)
  BY DEF SettleConflict, CoverInv, CauseIsCovered, InFlightIsEntered
<1> QED BY <1>1 DEF SettleConflict, RowMissing, CycleWrites

LEMMA ApplyWrites ==
  ASSUME CoverInv, ApplyNext
  PROVE  CycleWrites
<1> DEFINE e == log[at + 1]
           p == snap[e.key]
<1>1. at + 1 \in 1..Len(log)
  BY DEF ApplyNext, CoverInv, TypeInv, TypeOK, PageOK, EngineTypeOK, ServerTypeOK
<1>2. e.key \in Key /\ e.ts \in Nat
  <2>1. e \in Entry
    BY <1>1 DEF CoverInv, TypeInv, TypeOK, ServerTypeOK
  <2> QED BY <2>1 DEF Entry
<1>3. CASE p = NoChange \/ ~HasRow(p) \/ IsReplay(p, e)
  BY <1>3 DEF ApplyNext, CycleWrites
<1>4. CASE p # NoChange /\ HasRow(p) /\ ~IsReplay(p, e)
  <2>1. p \in Entered /\ change[p].key = e.key
    BY <1>2, <1>4 DEF CoverInv, InFlightIsEntered, SnapshotMatches
  <2>2. change[p].ts <= e.ts
    BY <1>2, <1>4, <2>1 DEF IsReplay, Entered, CoverInv, TypeInv, TypeOK, QueueTypeOK, Row
  <2>3. Covered(p)
    BY <1>1, <1>2, <2>1, <2>2
       DEF Covered, Entered, CoverInv, TypeInv, TypeOK, QueueTypeOK, Row
  <2>4. MarkCommitted(p)
    BY <1>4 DEF ApplyNext
  <2> QED BY <1>4, <2>1, <2>3, <2>4 DEF CycleWrites
<1> QED BY <1>3, <1>4

LEMMA ClientStepWrites ==
  ASSUME CoverInv, ClientStep
  PROVE  CycleWrites /\ log' = log
<1>1. CASE BeginSync \/ SelectBatch \/ ReceiveAnswer \/ NextList \/ PullPage \/ ReadExisting
           \/ WriteRow \/ PageDone \/ SaveCursor \/ PullOverrun \/ WriteRaces \/ WriteInvalid
  BY <1>1 DEF BeginSync, SelectBatch, ReceiveAnswer, NextList, PullPage, ReadExisting, WriteRow,
              PageDone, SaveCursor, PullOverrun, WriteRaces, WriteInvalid, WriteThrows, CycleWrites
<1>2. CASE SettleConflict
  BY <1>2, SettleWrites DEF SettleConflict, RowMissing
<1>3. CASE ApplyNext
  BY <1>3, ApplyWrites DEF ApplyNext
<1>4. CASE Purge
  BY <1>4 DEF Purge, CycleWrites
<1>5. ASSUME NEW c \in Local, MarkNext(c) PROVE CycleWrites /\ log' = log
  BY <1>5 DEF MarkNext, CycleWrites, Requeues
<1>6. ASSUME NEW c \in Local, RollbackNext(c) PROVE CycleWrites /\ log' = log
  BY <1>6 DEF RollbackNext, CycleWrites, Requeues
<1>7. ASSUME NEW c \in Local, AcceptNext(c) PROVE CycleWrites /\ log' = log
  <2>1. c \in Entered /\ Covered(c)
    BY <1>7 DEF AcceptNext, CoverInv, InFlightIsEntered, ListIsAnswered, Answered,
                AnswersAreLogged, Covered
  <2> QED BY <1>7, <2>1, CommitNowWrites DEF AcceptNext, CommitNow, Visited, RowMissing
<1>8. ASSUME NEW c \in Local, ResolveNext(c) PROVE CycleWrites /\ log' = log
  BY <1>8, ResolveWrites DEF ResolveNext, KeepLocal, TakeContent, CommitNow, Visited, RowMissing
<1>9. ASSUME NEW c \in Local, ErrorNext(c) PROVE CycleWrites /\ log' = log
  BY <1>9, MarkFailedWrites DEF ErrorNext, Visited
<1>10. ASSUME NEW c \in Local, UnackedNext(c) PROVE CycleWrites /\ log' = log
  BY <1>10 DEF UnackedNext, Visited, RowMissing, CycleWrites, Requeues
<1> QED
  BY <1>1, <1>2, <1>3, <1>4, <1>5, <1>6, <1>7, <1>8, <1>9, <1>10 DEF ClientStep, CycleStep

\* What the cycle writes forgets no change that was queued.
LEMMA WritesKeepQueue ==
  ASSUME CoverInv, CycleWrites
  PROVE  QueueKept
  BY SameQueue, MarkKeepsQueue, FailKeepsQueue, SweepKeepsQueue
     DEF CycleWrites, Requeues, CoverInv, Entered

\* No step at all forgets a change that was queued, or an entry of the log.
LEMMA NextKeepsHistory ==
  ASSUME CoverInv, [Next]_vars
  PROVE  HistoryKept
<1>1. CASE Tick \/ UNCHANGED vars
  BY <1>1, SameQueue, SameLog DEF Tick, HistoryKept
<1>2. CASE ClientStep
  BY <1>2, ClientStepWrites, WritesKeepQueue, SameLog DEF HistoryKept
<1>3. CASE ServerStep
  <2> SUFFICES ASSUME NEW c \in Local, Serve(c) \/ ServeLate(c), UNCHANGED queueVars
               PROVE  HistoryKept
    BY <1>3 DEF ServerStep
  <2>1. change[c].key \in Key /\ c \in Write /\ DataOf(c) \in Content
    BY ChangeTypes DEF CoverInv
  <2>2. LogKept
    BY <2>1, AcceptKeepsLog, SameLog DEF Serve, ServeLate, CoverInv
  <2> QED BY <2>2, SameQueue DEF HistoryKept
<1>4. CASE OthersStep
  <2>1. LogKept
    BY <1>4, RemoteAccepts, AcceptKeepsLog DEF OthersStep, CoverInv
  <2> QED BY <1>4, <2>1, SameQueue DEF OthersStep, HistoryKept
<1>5. CASE ToolStep \/ CompactPlan \/ RetryPlan \/ ClearCommitted
  <2>1. log' = log
    BY <1>5 DEF ToolStep, CompactPlan, CompactCheck, CompactDelete, RetryPlan, RetryNext,
                ClearCommitted
  <2>2. QueueKept
    BY <1>5 DEF ToolStep, CompactPlan, CompactCheck, CompactDelete, RetryPlan, RetryNext,
                ClearCommitted, MarkPending, RemoveCommitted, HasRow, Stored, QueueKept,
                Entered, CoverInv, TypeInv, TypeOK, QueueTypeOK
  <2> QED BY <2>1, <2>2, SameLog DEF HistoryKept
<1>6. CASE AppStep \/ HookStep \/ (\E c \in Local : QueueWriteFails(c))
  <2>1. log' = log
    BY <1>6 DEF AppStep, LocalWrite, HookStep, QueueWrite, QueueWriteFails
  <2>2. QueueKept
    BY <1>6 DEF AppStep, LocalWrite, HookStep, QueueWrite, AppendRow, QueueWriteFails,
                QueueKept, Entered, CoverInv, TypeInv, TypeOK, QueueTypeOK
  <2> QED BY <2>1, <2>2, SameLog DEF HistoryKept
<1>7. CASE Crash \/ Restart
  <2>1. log' = log
    BY <1>7 DEF Crash, Restart
  <2>2. QueueKept
    BY <1>7, SweepKeepsQueue
       DEF Crash, Restart, QueueKept, Entered, CoverInv, TypeInv, TypeOK, QueueTypeOK
  <2> QED BY <2>1, <2>2, SameLog DEF HistoryKept
<1>8. CASE DisturbedStep
  <2>1. CASE PushThrows \/ PullThrows
    BY <2>1, SameQueue, SameLog
       DEF PushThrows, PullThrows, WriteThrows, HistoryKept
  <2>2. CASE \E c \in Local :
                (Refuse(c) \/ Ignore(c)) /\ UNCHANGED <<queueVars, engineVars, toolVars>>
    BY <2>2, SameQueue, SameLog DEF Refuse, Ignore, HistoryKept
  <2> QED BY <1>5, <1>6, <1>7, <1>8, <2>1, <2>2 DEF DisturbedStep
<1> QED BY <1>1, <1>2, <1>3, <1>4, <1>5, <1>6, <1>7, <1>8 DEF Next, CalmStep

-----------------------------------------------------------------------------
(* Compaction. *)

LEMMA OutdoneKept ==
  ASSUME QueueKept, NEW c \in Entered, Outdone(c)
  PROVE  Outdone(c)'
  BY DEF QueueKept, Outdone

\* What a plan lists is outdone by a queued row that it keeps.
LEMMA PlanDooms ==
  ASSUME CoverInv, CompactPlan, NEW c \in doomed'
  PROVE  /\ c \in Entered
         /\ \E d \in Queued \ doomed' : /\ d # c /\ change[d].key = change[c].key
                                        /\ change[d].ts >= change[c].ts
<1>1. PICK kept \in [Key -> Local \cup {NoChange}] :
          /\ \A k \in Key : QueuedFor(k) # {} => NewestIn(QueuedFor(k), kept[k])
          /\ doomed' = {d \in Queued : kept[change[d].key] # d}
  BY DEF CompactPlan
<1> DEFINE k == change[c].key
           d == kept[k]
<1>2. c \in Queued /\ c \in Local /\ k \in Key /\ d # c
  BY <1>1 DEF Queued, ByStatus, CoverInv, TypeInv, TypeOK, QueueTypeOK, Row
<1>3. c \in QueuedFor(k)
  BY <1>2 DEF QueuedFor
<1>4. d \in QueuedFor(k) /\ change[c].ts <= change[d].ts
  BY <1>1, <1>2, <1>3 DEF NewestIn
<1>5. d \in Queued /\ change[d].key = k /\ change[d].ts >= change[c].ts
  BY <1>2, <1>4 DEF QueuedFor, Queued, ByStatus, CoverInv, TypeInv, TypeOK, QueueTypeOK, Row
<1>6. d \notin doomed'
  BY <1>1, <1>5
<1> QED BY <1>2, <1>5, <1>6 DEF Queued, ByStatus, Entered

\* No other step adds to the rows that compaction is going to drop.
LEMMA PlannedOnly ==
  ASSUME [Next]_vars, ~CompactPlan
  PROVE  /\ doomed' \subseteq doomed
         /\ victim' = NoChange \/ victim' = victim \/ victim' \in doomed
  BY DEF Next, Tick, CalmStep, ClientStep, ServerStep, ToolStep, CompactDelete, CompactCheck,
         RetryNext, AppStep, LocalWrite, HookStep, QueueWrite, OthersStep, Restart,
         DisturbedStep, QueueWriteFails, RetryPlan, ClearCommitted, Crash

\* Compaction drops only the row that it has checked.
LEMMA NewlyCompacted ==
  ASSUME CoverInv, [Next]_vars, NEW c \in Local, status'[c] = "compacted"
  PROVE  status[c] = "compacted" \/ (c = victim /\ CompactDelete)
<1>1. CASE CompactDelete
  BY <1>1 DEF CompactDelete, CoverInv, TypeInv, TypeOK, QueueTypeOK
<1>2. CASE ClientStep
  BY <1>2, ClientStepWrites
     DEF CycleWrites, Requeues, MarkPending, MarkSyncing, MarkFailed, MarkPendingWithRetries,
         MarkCommitted, UnmarkSyncing, RemoveCommitted, CoverInv, TypeInv, TypeOK, QueueTypeOK
<1>3. CASE ~CompactDelete /\ ~ClientStep
  BY <1>3 DEF Next, Tick, CalmStep, ServerStep, ToolStep, CompactCheck, RetryNext, MarkPending,
              AppStep, LocalWrite, HookStep, QueueWrite, AppendRow, OthersStep, Restart, Recover,
              DisturbedStep, PushThrows, PullThrows, WriteThrows, Refuse,
              Ignore, QueueWriteFails, CompactPlan, RetryPlan, ClearCommitted,
              RemoveCommitted, Crash, CoverInv, TypeInv, TypeOK, QueueTypeOK
<1> QED BY <1>1, <1>2, <1>3

LEMMA DoomedNext ==
  ASSUME CoverInv, DoomedAreOutdone, [Next]_vars
  PROVE  DoomedAreOutdone'
<1>0. QueueKept
  BY NextKeepsHistory DEF HistoryKept
<1>1. \A c \in doomed' : c \in doomed \/ (c \in Entered /\ Outdone(c))
  <2>1. ASSUME CompactPlan, NEW c \in doomed' PROVE c \in Entered /\ Outdone(c)
    BY <2>1, PlanDooms DEF Outdone, Queued, ByStatus, Entered
  <2> QED BY <2>1, PlannedOnly
<1>2. victim' = NoChange \/ victim' = victim \/ victim' \in doomed
  BY PlannedOnly DEF CompactPlan
<1>3. \A c \in Local : c \in doomed' \/ c = victim' => c \in Entered /\ Outdone(c)
  BY <1>1, <1>2, ConstantsAssumption DEF DoomedAreOutdone, Entered
<1>4. \A c \in Local : c \in doomed' \/ c = victim' => Outdone(c)'
  BY <1>0, <1>3, OutdoneKept
<1>5. doomed' \subseteq Entered /\ (victim' # NoChange => victim' \in Entered)
  BY <1>1, <1>2 DEF DoomedAreOutdone
<1> QED BY <1>0, <1>4, <1>5 DEF DoomedAreOutdone, QueueKept

LEMMA CompactedNext ==
  ASSUME CoverInv, DoomedAreOutdone, CompactedIsSuperseded, [Next]_vars
  PROVE  CompactedIsSuperseded'
<1>0. QueueKept
  BY NextKeepsHistory DEF HistoryKept
<1>1. \A c \in Local : status'[c] = "compacted" => status[c] = "compacted" \/ c = victim
  BY NewlyCompacted
<1>2. SUFFICES ASSUME NEW c \in Local, status'[c] = "compacted"
               PROVE  Outdone(c)'
  BY DEF CompactedIsSuperseded, Outdone, Entered
<1>3. c \in Entered /\ Outdone(c)
  <2>1. CASE status[c] = "compacted"
    BY <2>1 DEF CompactedIsSuperseded, Outdone, Entered
  <2>2. CASE c = victim
    BY <2>2, ConstantsAssumption DEF DoomedAreOutdone
  <2> QED BY <1>1, <1>2, <2>1, <2>2
<1> QED BY <1>0, <1>3, OutdoneKept

-----------------------------------------------------------------------------
(* Who owns the rows in "syncing". *)

LEMMA MarkedNext ==
  ASSUME CoverInv, MarkedAreQueued, [Next]_vars
  PROVE  MarkedAreQueued'
<1> SUFFICES ASSUME pc' = "mark", NEW c \in batch'
             PROVE  status'[c] # "committed"
  BY DEF MarkedAreQueued
<1>0. status \in [Local -> Status] /\ batch \subseteq Local
  BY DEF CoverInv, TypeInv, TypeOK, QueueTypeOK, EngineTypeOK
<1>1. CASE SelectBatch
  <2>1. c \in Eligible /\ UNCHANGED status
    BY <1>1 DEF SelectBatch, BeginPull
  <2> QED BY <2>1 DEF Eligible, Queued, ByStatus
<1>2. ASSUME NEW d \in Local, MarkNext(d) PROVE status'[c] # "committed"
  BY <1>0, <1>2 DEF MarkNext, MarkSyncing, Fail, EndCycle, MarkedAreQueued
<1>3. CASE ClientStep /\ ~SelectBatch /\ ~(\E d \in Local : MarkNext(d))
  BY <1>3 DEF ClientStep, CycleStep, BeginSync, ReceiveAnswer, NextList, BeginPull,
              SettleConflict, RowMissing, PullPage, ApplyNext, StartApply, ReadExisting, WriteRow,
              Applied, PageDone, SaveCursor, Purge, PullOverrun, WriteRaces, WriteInvalid, WriteThrows, Fail,
              Abort, EndCycle, RollbackNext, AcceptNext, CommitNow, Visited, ResolveNext,
              KeepLocal, TakeContent, ErrorNext, UnackedNext
<1>4. CASE ~ClientStep
  <2>1. pc = "mark" /\ batch' = batch
    BY <1>4 DEF Next, Tick, CalmStep, ServerStep, ToolStep, CompactDelete,
                CompactCheck, RetryNext, AppStep, LocalWrite, HookStep, QueueWrite,
                OthersStep, Restart, DisturbedStep, PushThrows, PullThrows,                 WriteThrows, Fail, Abort, EndCycle, Refuse, Ignore, QueueWriteFails, CompactPlan,
                RetryPlan, ClearCommitted, Crash
  <2>2. status'[c] = "committed" => status[c] = "committed"
    BY <1>0, <1>4, <2>1
       DEF Next, Tick, CalmStep, ServerStep, ToolStep, CompactDelete,
           CompactCheck, RetryNext, MarkPending, AppStep, LocalWrite, HookStep, QueueWrite,
           AppendRow, OthersStep, Restart, Recover, DisturbedStep, PushThrows, PullThrows,
           WriteThrows, Refuse, Ignore, QueueWriteFails, CompactPlan, RetryPlan,
           ClearCommitted, RemoveCommitted, Crash
  <2> QED BY <2>1, <2>2 DEF MarkedAreQueued
<1> QED BY <1>1, <1>2, <1>3, <1>4

\* Steps that take no row into "syncing" and give up no claim on one.
LEMMA StillOwned ==
  ASSUME SyncingIsOwned, pc' # "down" => pc # "down", aborted' = aborted,
         ByStatus("syncing")' \subseteq ByStatus("syncing"),
         Outstanding \cap ByStatus("syncing")' \subseteq Outstanding'
  PROVE  SyncingIsOwned'
  BY DEF SyncingIsOwned

\* Steps of others than the engine leave its claims as they are.
LEMMA OthersKeepClaims ==
  ASSUME CoverInv, SyncingIsOwned, UNCHANGED <<pc, batch, todo, remote, aborted>>,
         pc = "sent" \/ UNCHANGED answer,
         ByStatus("syncing")' \subseteq ByStatus("syncing")
  PROVE  SyncingIsOwned'
<1>1. Outstanding' = Outstanding
  BY DEF Outstanding, Answered
<1> QED BY <1>1, StillOwned

\* The end of a cycle gives up every claim: no row may be left in "syncing", or
\* an exception has escaped.
LEMMA EndOwned ==
  ASSUME EndCycle, aborted' = TRUE \/ ByStatus("syncing")' = {}
  PROVE  SyncingIsOwned'
  BY DEF EndCycle, SyncingIsOwned

LEMMA RowMissingOwned ==
  ASSUME NEW c, RowMissing(c)
  PROVE  SyncingIsOwned'
  BY EndOwned DEF RowMissing, Abort

\* A phase of the cycle that claims no row.
Claimless ==
    \/ pc \in {"idle", "select", "pull", "apply", "save", "purge"}
    \/ pc \in {"read", "write"} /\ remote.cause = NoChange

LEMMA ClaimlessOwned ==
  ASSUME CoverInv, SyncingIsOwned, Claimless, aborted' = aborted,
         ByStatus("syncing")' \subseteq ByStatus("syncing")
  PROVE  SyncingIsOwned'
<1>1. Outstanding = {} /\ pc # "down"
  BY DEF Claimless, Outstanding
<1> QED BY <1>1 DEF SyncingIsOwned

\* A loop over a list of the answer settles one row, which leaves "syncing".
LEMMA VisitedOwned ==
  ASSUME CoverInv, SyncingIsOwned, NEW c \in Local, Visited(c),
         pc \in {"accepted", "conflicts", "errors", "unacked"},
         ByStatus("syncing")' \subseteq ByStatus("syncing") \ {c}
  PROVE  SyncingIsOwned'
<1>1. Outstanding \ {c} \subseteq Outstanding'
  BY DEF Visited, Outstanding, Answered
<1> QED BY <1>1 DEF SyncingIsOwned, Visited

\* What the tracker's writers do to the set of rows in "syncing".
LEMMA WriterSyncs ==
  ASSUME CoverInv, NEW c \in Local,
         \/ MarkPending(c) \/ MarkFailed(c) \/ MarkCommitted(c)
         \/ \E n : MarkPendingWithRetries(c, n)
  PROVE  ByStatus("syncing")' \subseteq ByStatus("syncing") \ {c}
  BY DEF ByStatus, MarkPending, MarkFailed, MarkCommitted, MarkPendingWithRetries, HasRow, Stored,
         CoverInv, TypeInv, TypeOK, QueueTypeOK

LEMMA CommitNowOwned ==
  ASSUME CoverInv, SyncingIsOwned, NEW c \in Local, CommitNow(c), pc \in {"accepted", "conflicts"}
  PROVE  SyncingIsOwned'
  BY WriterSyncs, VisitedOwned, RowMissingOwned DEF CommitNow

LEMMA PushOwned ==
  ASSUME CoverInv, SyncingIsOwned, NEW c \in Local, MarkNext(c) \/ RollbackNext(c)
  PROVE  SyncingIsOwned'
<1>0. status \in [Local -> Status]
  BY DEF CoverInv, TypeInv, TypeOK, QueueTypeOK
<1>1. CASE MarkNext(c) /\ HasRow(c)
  <2>1. c \in batch /\ c \in todo /\ pc = "mark"
    BY <1>1 DEF MarkNext, OldestIn, CoverInv, InFlightIsEntered
  <2>2. ByStatus("syncing")' \subseteq ByStatus("syncing") \cup {c}
    BY <1>0, <1>1 DEF MarkNext, MarkSyncing, ByStatus
  <2>3. Outstanding = batch \ todo
    BY <2>1 DEF Outstanding
  <2>4. Outstanding' = batch \ todo'
    BY <1>1 DEF MarkNext, Outstanding
  <2>5. todo' = todo \ {c} /\ aborted' = aborted
    BY <1>1 DEF MarkNext
  <2> QED BY <2>1, <2>2, <2>3, <2>4, <2>5 DEF SyncingIsOwned
<1>2. CASE MarkNext(c) /\ ~HasRow(c)
  <2>1. pc = "mark" /\ UnmarkSyncing(batch \ todo) /\ Fail
    BY <1>2 DEF MarkNext
  <2>2. ~aborted => ByStatus("syncing") \subseteq batch \ todo
    BY <2>1 DEF SyncingIsOwned, Outstanding
  <2>3. ~aborted => ByStatus("syncing")' = {}
    BY <1>0, <2>1, <2>2 DEF UnmarkSyncing, ByStatus, HasRow, Stored
  <2> QED BY <2>1, <2>3, EndOwned DEF Fail, CoverInv, TypeInv, TypeOK, EngineTypeOK
<1>3. CASE RollbackNext(c) /\ HasRow(c)
  <2>1. pc = "rollback" /\ MarkPending(c) /\ Outstanding = todo /\ aborted' = aborted
    BY <1>3 DEF RollbackNext, Outstanding, Fail
  <2>2. ByStatus("syncing")' \subseteq ByStatus("syncing") \ {c}
    BY <2>1, WriterSyncs
  <2>3. CASE todo = {c}
    BY <1>3, <2>1, <2>2, <2>3, EndOwned
       DEF RollbackNext, Fail, SyncingIsOwned, CoverInv, TypeInv, TypeOK, EngineTypeOK
  <2>4. CASE todo # {c}
    <3>1. Outstanding' = todo \ {c} /\ pc' = pc
      BY <1>3, <2>1, <2>4 DEF RollbackNext, Outstanding
    <3> QED BY <2>1, <2>2, <3>1 DEF SyncingIsOwned
  <2> QED BY <2>3, <2>4
<1>4. CASE RollbackNext(c) /\ ~HasRow(c)
  BY <1>4, EndOwned DEF RollbackNext, Abort
<1> QED BY <1>1, <1>2, <1>3, <1>4

LEMMA AnswerOwned ==
  ASSUME CoverInv, SyncingIsOwned, ReceiveAnswer \/ NextList \/ PushThrows
  PROVE  SyncingIsOwned'
<1>0. /\ UNCHANGED <<queueVars, aborted, batch>>
      /\ answer \in [Local -> Answer]
      /\ batch \subseteq Local
  BY DEF ReceiveAnswer, NextList, PushThrows, CoverInv, TypeInv, TypeOK, ServerTypeOK,
         EngineTypeOK
<1>1. pc # "down" /\ Outstanding \subseteq Outstanding'
  <2>1. CASE ReceiveAnswer
    <3>1. \A c \in batch : answer[c].kind \in {"none", "accepted", "conflict", "error"}
      BY <1>0 DEF Answer
    <3>2. Outstanding = batch /\ pc = "sent"
      BY <2>1 DEF ReceiveAnswer, Outstanding
    <3>3. Outstanding' = Answered("accepted") \cup Answered("conflict") \cup Answered("error")
                         \cup Answered("none")
      BY <2>1 DEF ReceiveAnswer, Outstanding, Answered
    <3> QED BY <3>1, <3>2, <3>3 DEF Answered
  <2>2. CASE NextList
    BY <2>2 DEF NextList, BeginPull, Outstanding, Answered
  <2>3. CASE PushThrows
    BY <2>3 DEF PushThrows, Outstanding
  <2> QED BY <2>1, <2>2, <2>3
<1>2. ByStatus("syncing")' = ByStatus("syncing")
  BY <1>0 DEF ByStatus
<1> QED BY <1>0, <1>1, <1>2 DEF SyncingIsOwned

LEMMA ConflictOwned ==
  ASSUME CoverInv, SyncingIsOwned, SettleConflict \/ \E c \in Local : ResolveNext(c)
  PROVE  SyncingIsOwned'
<1>1. ASSUME NEW c \in Local, ResolveNext(c) PROVE SyncingIsOwned'
  <2>0. pc = "conflicts" /\ c \in todo
    BY <1>1 DEF ResolveNext
  <2>1. CASE Abort
    BY <2>1, EndOwned DEF Abort
  <2>2. CASE MarkFailed(c) /\ Visited(c)
    BY <2>0, <2>2, WriterSyncs, VisitedOwned
  <2>3. CASE KeepLocal(c)
    BY <2>0, <2>3, WriterSyncs, VisitedOwned, RowMissingOwned DEF KeepLocal
  <2>4. CASE TakeContent(c, answer[c].data) \/ \E data \in MergedContents : TakeContent(c, data)
    <3>1. pc' = "read" /\ remote'.cause # NoChange
      BY <2>4, ConstantsAssumption DEF TakeContent, StartApply
    <3>2. UNCHANGED <<queueVars, todo, batch, answer, aborted>>
      BY <2>4 DEF TakeContent
    <3>3. Outstanding' = Outstanding
      BY <2>0, <3>1, <3>2 DEF Outstanding, Answered
    <3> QED BY <2>0, <3>1, <3>2, <3>3 DEF SyncingIsOwned, ByStatus
  <2>5. CASE CommitNow(c)
    BY <2>0, <2>5, CommitNowOwned
  <2> QED BY <1>1, <2>1, <2>2, <2>3, <2>4, <2>5 DEF ResolveNext
<1>2. CASE SettleConflict
  <2> DEFINE c == remote.cause
  <2>0. pc = "settle" /\ c # NoChange /\ c \in Local
    BY <1>2 DEF SettleConflict, CoverInv, CauseIsCovered, InFlightIsEntered, Entered
  <2>1. CASE RowMissing(c)
    BY <2>1, RowMissingOwned
  <2>2. CASE ~RowMissing(c)
    <3>1. /\ MarkCommitted(c) /\ pc' = "conflicts" /\ todo' = todo \ {c}
          /\ UNCHANGED <<batch, answer, aborted>>
      BY <1>2, <2>2 DEF SettleConflict
    <3>2. Outstanding \ {c} \subseteq Outstanding'
      BY <2>0, <3>1 DEF Outstanding, Answered
    <3>3. ByStatus("syncing")' \subseteq ByStatus("syncing") \ {c}
      BY <2>0, <3>1, WriterSyncs
    <3> QED BY <2>0, <3>1, <3>2, <3>3 DEF SyncingIsOwned
  <2> QED BY <2>1, <2>2
<1> QED BY <1>1, <1>2

LEMMA PullOwned ==
  ASSUME CoverInv, SyncingIsOwned,
         \/ BeginSync \/ SelectBatch \/ PullPage \/ ApplyNext \/ PageDone \/ SaveCursor
         \/ Purge \/ PullOverrun \/ PullThrows
  PROVE  SyncingIsOwned'
<1>1. Claimless /\ aborted' = aborted
  BY DEF BeginSync, SelectBatch, PullPage, ApplyNext, PageDone, SaveCursor, Purge, PullOverrun,
         PullThrows, Fail, Claimless
<1>2. ByStatus("syncing")' \subseteq ByStatus("syncing")
  <2>1. CASE ApplyNext
    <3>1. status \in [Local -> Status]
      BY DEF CoverInv, TypeInv, TypeOK, QueueTypeOK
    <3>2. UNCHANGED queueVars \/ \E c : MarkCommitted(c)
      BY <2>1 DEF ApplyNext
    <3> QED BY <3>1, <3>2 DEF ByStatus, MarkCommitted
  <2>2. CASE ~ApplyNext
    BY <2>2 DEF BeginSync, SelectBatch, PullPage, PageDone, SaveCursor, Purge, RemoveCommitted,
                PullOverrun, PullThrows, ByStatus
  <2> QED BY <2>1, <2>2
<1> QED BY <1>1, <1>2, ClaimlessOwned

LEMMA ApplyOwned ==
  ASSUME CoverInv, SyncingIsOwned, ReadExisting \/ WriteRow \/ WriteThrows
  PROVE  SyncingIsOwned'
<1>0. UNCHANGED queueVars /\ pc \in {"read", "write"}
  BY DEF ReadExisting, WriteRow, WriteThrows
<1>1. CASE remote.cause = NoChange
  <2>1. Claimless /\ aborted' = aborted
    BY <1>0, <1>1 DEF Claimless, ReadExisting, WriteRow, WriteThrows, Fail
  <2> QED BY <1>0, <2>1, ClaimlessOwned DEF ByStatus
<1>2. CASE remote.cause # NoChange /\ WriteThrows
  BY <1>2, EndOwned DEF WriteThrows, Abort
<1>3. CASE remote.cause # NoChange /\ ~WriteThrows
  <2>1. pc' \in {"write", "settle"} /\ UNCHANGED <<remote, todo, batch, answer, aborted>>
    BY <1>3 DEF ReadExisting, WriteRow, Applied
  <2>2. Outstanding' = Outstanding
    BY <1>0, <1>3, <2>1 DEF Outstanding, Answered
  <2> QED BY <1>0, <2>1, <2>2 DEF SyncingIsOwned, ByStatus
<1> QED BY <1>1, <1>2, <1>3

LEMMA ClientStepOwned ==
  ASSUME CoverInv, SyncingIsOwned, ClientStep
  PROVE  SyncingIsOwned'
<1>1. ASSUME NEW c \in Local, AcceptNext(c) \/ ErrorNext(c) \/ UnackedNext(c)
      PROVE  SyncingIsOwned'
  <2>1. CASE AcceptNext(c)
    BY <2>1, CommitNowOwned DEF AcceptNext
  <2>2. CASE ErrorNext(c)
    BY <2>2, WriterSyncs, VisitedOwned DEF ErrorNext
  <2>3. CASE UnackedNext(c)
    BY <2>3, WriterSyncs, VisitedOwned, RowMissingOwned DEF UnackedNext
  <2> QED BY <1>1, <2>1, <2>2, <2>3
<1> QED
  BY <1>1, PushOwned, AnswerOwned, ConflictOwned, PullOwned, ApplyOwned
     DEF ClientStep, CycleStep, WriteRaces, WriteInvalid

LEMMA OwnedNext ==
  ASSUME CoverInv, SyncingIsOwned, [Next]_vars
  PROVE  SyncingIsOwned'
<1>0. status \in [Local -> Status]
  BY DEF CoverInv, TypeInv, TypeOK, QueueTypeOK
<1>1. CASE ClientStep
  BY <1>1, ClientStepOwned
<1>2. CASE PushThrows \/ PullThrows
  BY <1>2, AnswerOwned, PullOwned, ApplyOwned
<1>3. CASE Crash
  BY <1>3 DEF Crash, SyncingIsOwned
<1>4. CASE Restart
  BY <1>0, <1>4 DEF Restart, Recover, SyncingIsOwned, ByStatus
<1>5. CASE ServerStep \/ \E c \in Local :
                (Refuse(c) \/ Ignore(c)) /\ UNCHANGED <<queueVars, engineVars, toolVars>>
  <2>1. pc = "sent" \/ UNCHANGED answer
    BY <1>5 DEF ServerStep, Serve, ServeLate, Refuse, Ignore, OldestIn, CoverInv, ServedWhileSent
  <2>2. UNCHANGED <<queueVars, engineVars>>
    BY <1>5 DEF ServerStep
  <2> QED BY <2>1, <2>2, OthersKeepClaims DEF ByStatus
<1>6. CASE Tick \/ UNCHANGED vars \/ OthersStep \/ ToolStep \/ AppStep \/ HookStep
           \/ CompactPlan \/ RetryPlan \/ ClearCommitted \/ \E c \in Local : QueueWriteFails(c)
  <2>1. UNCHANGED <<pc, batch, todo, remote, aborted, answer>>
    BY <1>6 DEF Tick, OthersStep, RemoteWrite, ToolStep, CompactCheck, CompactDelete, RetryNext,
                AppStep, LocalWrite, HookStep, QueueWrite, CompactPlan, RetryPlan,
                ClearCommitted, QueueWriteFails
  <2>2. ByStatus("syncing")' \subseteq ByStatus("syncing")
    BY <1>0, <1>6
       DEF Tick, OthersStep, ToolStep, CompactCheck, CompactDelete, RetryNext, MarkPending,
           AppStep, LocalWrite, HookStep, QueueWrite, AppendRow, CompactPlan, RetryPlan,
           ClearCommitted, RemoveCommitted, QueueWriteFails, ByStatus
  <2> QED BY <2>1, <2>2, OthersKeepClaims
<1> QED BY <1>1, <1>2, <1>3, <1>4, <1>5, <1>6 DEF Next, CalmStep, DisturbedStep

-----------------------------------------------------------------------------
LEMMA QueueInvInit == Init => QueueInv
<1> SUFFICES ASSUME Init PROVE QueueInv
  OBVIOUS
<1>1. DoomedAreOutdone /\ MarkedAreQueued
  BY ConstantsAssumption DEF Init, ToolsInit, EngineInit, DoomedAreOutdone, MarkedAreQueued
<1>2. CompactedIsSuperseded /\ SyncingIsOwned
  BY DEF Init, QueueInit, CompactedIsSuperseded, SyncingIsOwned, ByStatus
<1> QED BY <1>1, <1>2, InitCover DEF QueueInv

LEMMA QueueInvNext == QueueInv /\ [Next]_vars => QueueInv'
  BY NextCover, DoomedNext, CompactedNext, MarkedNext, OwnedNext DEF QueueInv

\* The inductive invariant of the queue holds in every reachable state.
THEOREM QueueInvHolds == Spec => []QueueInv
  BY QueueInvInit, QueueInvNext, PTL DEF Spec

\* compactSyncQueue drops a row only when another change of the same record,
\* at least as new, was queued too, however its plan and its deletes interleave
\* with a cycle, a retry, a purge or new writes.
THEOREM CompactionKeepsLastWord == Spec => []CompactedIsSuperseded
<1>1. QueueInv => CompactedIsSuperseded
  BY DEF QueueInv
<1> QED BY <1>1, QueueInvHolds, PTL

\* A row in "syncing" is one whose outcome the running cycle still has to
\* record, unless an exception escaped the settling of an answer: the push's
\* failure, its answer, the loops over it and the recovery leave none behind.
THEOREM SyncingRowsAreOwned == Spec => []SyncingIsOwned
<1>1. QueueInv => SyncingIsOwned
  BY DEF QueueInv
<1> QED BY <1>1, QueueInvHolds, PTL

-----------------------------------------------------------------------------
(* The refinement of ChangeLifecycle, step by step. *)

Stages == [c \in Local |-> StageOf(c)]

\* A write is queued, done or dropped exactly when it entered the queue.
LEMMA EnteredStages ==
  ASSUME CoverInv, NEW c \in Local
  PROVE  /\ c \in Entered <=> StageOf(c) \in {"queued", "done", "dropped"}
         /\ StageOf(c) = "queued" <=> status[c] \in {"pending", "syncing", "failed"}
         /\ StageOf(c) = "done" <=> status[c] \in {"committed", "removed"}
         /\ StageOf(c) = "dropped" <=> status[c] = "compacted"
         /\ StageOf(c) = "written" <=> status[c] = "hooking"
  BY DEF CoverInv, TypeInv, TypeOK, QueueTypeOK, Status, Stored, StageOf, Entered

\* A step that moves no write to another stage: the log may have grown.
LEMMA SameStagesCover ==
  ASSUME CoverInv, CoverInv', HistoryKept, Stages' = Stages
  PROVE  Lifecycle!Next
<1>1. Entered' = Entered
  <2>1. \A c \in Local : c \in Entered <=> StageOf(c) \in {"queued", "done", "dropped"}
    BY EnteredStages
  <2>2. \A c \in Local : (c \in Entered)' <=> StageOf(c)' \in {"queued", "done", "dropped"}
    <3> SUFFICES ASSUME NEW c \in Local
                 PROVE  (c \in Entered)' <=> StageOf(c)' \in {"queued", "done", "dropped"}
      OBVIOUS
    <3> QED
      BY DEF CoverInv, TypeInv, TypeOK, QueueTypeOK, Status, Stored, StageOf, Entered
  <2>3. \A c \in Local : StageOf(c)' = StageOf(c)
    BY DEF Stages
  <2> QED BY <2>1, <2>2, <2>3 DEF Entered
<1>2. CoveredWrites \subseteq CoveredWrites'
  <2> SUFFICES ASSUME NEW c \in CoveredWrites PROVE c \in CoveredWrites'
    OBVIOUS
  <2>1. c \in Entered /\ Covered(c) /\ c \in Entered'
    BY <1>1 DEF CoveredWrites, Entered
  <2>2. Covered(c)'
    BY <2>1, CoveredKept DEF CoverInv
  <2> QED BY <2>1, <2>2 DEF CoveredWrites, Entered
<1>3. \A c \in CoveredWrites' : StageOf(c) \in {"queued", "done", "dropped"}
  BY <1>1, EnteredStages DEF CoveredWrites, Entered
<1> QED BY <1>2, <1>3 DEF Lifecycle!Next, Lifecycle!Cover, Stages, CoveredWrites

\* A step that moves only the write c, between stages after the queue.
LEMMA OneMoves ==
  ASSUME CoverInv, NEW c \in Local, NEW s, status' = [status EXCEPT ![c] = s],
         UNCHANGED <<change, log>>, c \in Entered, s \notin {"unborn", "hooking", "lost"}
  PROVE  /\ CoveredWrites' = CoveredWrites
         /\ Stages' = [Stages EXCEPT ![c] = StageOf(c)']
<1>1. \A d \in Local : Covered(d)' <=> Covered(d)
  BY DEF Covered
<1>2. \A d \in Local \ {c} : status'[d] = status[d] /\ StageOf(d)' = StageOf(d)
  BY DEF StageOf, CoverInv, TypeInv, TypeOK, QueueTypeOK
<1>3. status'[c] = s
  BY DEF CoverInv, TypeInv, TypeOK, QueueTypeOK
<1>4. CoveredWrites' = CoveredWrites
  BY <1>1, <1>2, <1>3 DEF CoveredWrites, Entered
<1>5. Stages' = [Stages EXCEPT ![c] = StageOf(c)']
  BY <1>2 DEF Stages
<1> QED BY <1>4, <1>5

\* Every step that leaves the queue alone.
LEMMA QueueIdle ==
  ASSUME CoverInv, CoverInv', HistoryKept, UNCHANGED queueVars
  PROVE  Lifecycle!Next
  BY SameStagesCover DEF Stages, StageOf

LEMMA RequeuesMap ==
  ASSUME CoverInv, CoverInv', HistoryKept, log' = log, NEW c \in Local, Requeues(c)
  PROVE  Lifecycle!Next
<1>1. c \in Entered /\ StageOf(c) \in {"queued", "done"}
  BY EnteredStages DEF Requeues, HasRow, Stored, Entered
<1>2. PICK s \in {"pending", "syncing", "failed"} : status' = [status EXCEPT ![c] = s]
  BY DEF Requeues, MarkPending, MarkSyncing, MarkFailed, MarkPendingWithRetries
<1>3. UNCHANGED change
  BY DEF Requeues, MarkPending, MarkSyncing, MarkFailed, MarkPendingWithRetries
<1>4. StageOf(c)' = "queued"
  BY <1>2 DEF StageOf, CoverInv, TypeInv, TypeOK, QueueTypeOK
<1>5. CoveredWrites' = CoveredWrites /\ Stages' = [Stages EXCEPT ![c] = "queued"]
  BY <1>1, <1>2, <1>3, <1>4, OneMoves
<1>6. CASE StageOf(c) = "done"
  <2>1. Lifecycle!Requeue(c)
    BY <1>5, <1>6 DEF Lifecycle!Requeue, Stages
  <2> QED BY <2>1 DEF Lifecycle!Next
<1>7. CASE StageOf(c) = "queued"
  BY <1>5, <1>7, SameStagesCover DEF Stages
<1> QED BY <1>1, <1>6, <1>7

LEMMA CommitMaps ==
  ASSUME CoverInv, CoverInv', HistoryKept, log' = log,
         NEW c \in Entered, Covered(c), HasRow(c), MarkCommitted(c)
  PROVE  Lifecycle!Next
<1>1. c \in Local /\ StageOf(c) \in {"queued", "done"}
  BY EnteredStages DEF HasRow, Stored, Entered
<1>2. StageOf(c)' = "done"
  BY <1>1 DEF MarkCommitted, StageOf, CoverInv, TypeInv, TypeOK, QueueTypeOK
<1>3. CoveredWrites' = CoveredWrites /\ Stages' = [Stages EXCEPT ![c] = "done"]
  BY <1>1, <1>2, OneMoves DEF MarkCommitted
<1>4. c \in CoveredWrites
  BY <1>1 DEF CoveredWrites, Entered
<1>5. CASE StageOf(c) = "queued"
  <2>1. Lifecycle!Finish(c)
    BY <1>1, <1>3, <1>4, <1>5 DEF Lifecycle!Finish, Stages
  <2> QED BY <1>1, <2>1 DEF Lifecycle!Next
<1>6. CASE StageOf(c) = "done"
  BY <1>1, <1>3, <1>6, SameStagesCover DEF Stages
<1> QED BY <1>1, <1>5, <1>6

\* Rows swept between statuses of one stage.
LEMMA SweepMaps ==
  ASSUME CoverInv, CoverInv', HistoryKept, MarkedAreQueued,
         \/ RemoveCommitted \/ Recover
         \/ pc = "mark" /\ UnmarkSyncing(batch \ todo)
  PROVE  Lifecycle!Next
<1> SUFFICES ASSUME NEW c \in Local PROVE StageOf(c)' = StageOf(c)
  BY SameStagesCover DEF Stages
<1>0. status[c] \in Status /\ (c \in batch => c \in Entered)
  BY DEF CoverInv, TypeInv, TypeOK, QueueTypeOK, InFlightIsEntered
<1>1. CASE RemoveCommitted
  BY <1>0, <1>1 DEF RemoveCommitted, StageOf, Status, Stored
<1>2. CASE Recover
  BY <1>0, <1>2 DEF Recover, StageOf, Status, Stored
<1>3. CASE pc = "mark" /\ UnmarkSyncing(batch \ todo)
  <2>1. c \in batch => status[c] # "committed"
    BY <1>3 DEF MarkedAreQueued
  <2> QED BY <1>0, <1>3, <2>1 DEF UnmarkSyncing, HasRow, StageOf, Status, Stored, Entered
<1> QED BY <1>1, <1>2, <1>3

LEMMA CycleMaps ==
  ASSUME CoverInv, CoverInv', HistoryKept, MarkedAreQueued, log' = log, CycleWrites
  PROVE  Lifecycle!Next
  BY QueueIdle, RequeuesMap, CommitMaps, SweepMaps DEF CycleWrites

LEMMA CompactMaps ==
  ASSUME CoverInv, CoverInv', HistoryKept, DoomedAreOutdone, CompactDelete
  PROVE  Lifecycle!Next
<1>0. PICK c \in Local : c = victim /\ c \in Entered
  BY DEF CompactDelete, DoomedAreOutdone, Entered
<1>1. CASE ~HasRow(c)
  <2>1. UNCHANGED queueVars
    BY <1>0, <1>1 DEF CompactDelete, CoverInv, TypeInv, TypeOK, QueueTypeOK
  <2> QED BY <2>1, QueueIdle
<1>2. CASE HasRow(c)
  <2>1. status' = [status EXCEPT ![c] = "compacted"] /\ UNCHANGED <<change, log>>
    BY <1>0, <1>2 DEF CompactDelete
  <2>2. StageOf(c)' = "dropped"
    BY <1>0, <2>1 DEF StageOf, CoverInv, TypeInv, TypeOK, QueueTypeOK
  <2>3. CoveredWrites' = CoveredWrites /\ Stages' = [Stages EXCEPT ![c] = "dropped"]
    BY <1>0, <2>1, <2>2, OneMoves
  <2>4. StageOf(c) \in {"queued", "done"}
    BY <1>0, <1>2, EnteredStages DEF HasRow, Stored
  <2>5. PICK d \in Entered \ {c} : TRUE
    BY <1>0 DEF DoomedAreOutdone, Outdone
  <2>6. d \in Local \ {c} /\ StageOf(d) \in {"queued", "done", "dropped"}
    BY <2>5, EnteredStages DEF Entered
  <2>7. Lifecycle!Drop(c)
    BY <1>0, <2>3, <2>4, <2>6 DEF Lifecycle!Drop, Stages
  <2> QED BY <1>0, <2>7 DEF Lifecycle!Next
<1> QED BY <1>1, <1>2

-----------------------------------------------------------------------------
(* Writes on their way into the queue. *)

\* Changes that stay as they are keep their stage and their cover.
LEMMA OthersAlike ==
  ASSUME NEW c \in Local, log' = log,
         status'[c] = status[c], change'[c] = change[c]
  PROVE  /\ StageOf(c)' = StageOf(c)
         /\ (c \in CoveredWrites)' <=> c \in CoveredWrites
  BY DEF StageOf, CoveredWrites, Covered

LEMMA MakeMaps ==
  ASSUME CoverInv, AppStep
  PROVE  Lifecycle!Next
<1>1. PICK c \in Local, k \in Key, type \in ChangeType : LocalWrite(c, k, type)
  BY DEF AppStep
<1>2. status[c] = "unborn" /\ status'[c] = "hooking" /\ log' = log
  BY <1>1 DEF LocalWrite, CoverInv, TypeInv, TypeOK, QueueTypeOK
<1>3. \A d \in Local \ {c} : status'[d] = status[d] /\ change'[d] = change[d]
  BY <1>1 DEF LocalWrite, CoverInv, TypeInv, TypeOK, QueueTypeOK
<1>4. StageOf(c) = "unborn" /\ StageOf(c)' = "written"
  BY <1>2 DEF StageOf
<1>5. c \notin CoveredWrites /\ (c \notin CoveredWrites)'
  BY <1>2 DEF CoveredWrites
<1>6. \A d \in Local \ {c} : /\ StageOf(d)' = StageOf(d)
                             /\ (d \in CoveredWrites)' <=> d \in CoveredWrites
  BY <1>2, <1>3, OthersAlike
<1>7. Stages' = [Stages EXCEPT ![c] = "written"]
  BY <1>4, <1>6 DEF Stages
<1>8. CoveredWrites' = CoveredWrites
  BY <1>5, <1>6 DEF CoveredWrites
<1>9. Lifecycle!Make(c)
  BY <1>4, <1>7, <1>8 DEF Lifecycle!Make, Stages
<1> QED BY <1>9 DEF Lifecycle!Next

LEMMA EnqueueMaps ==
  ASSUME CoverInv, HookStep
  PROVE  Lifecycle!Next
<1>1. PICK c \in Local : QueueWrite(c)
  BY DEF HookStep
<1>2. status[c] = "hooking" /\ status'[c] = "pending" /\ log' = log
  BY <1>1 DEF QueueWrite, AppendRow, CoverInv, TypeInv, TypeOK, QueueTypeOK
<1>3. \A d \in Local \ {c} : status'[d] = status[d] /\ change'[d] = change[d]
  BY <1>1 DEF QueueWrite, AppendRow, CoverInv, TypeInv, TypeOK, QueueTypeOK
<1>4. StageOf(c) = "written" /\ StageOf(c)' = "queued"
  BY <1>2 DEF StageOf
<1>5. c \notin CoveredWrites
  BY <1>2 DEF CoveredWrites
<1>6. \A d \in Local \ {c} : /\ StageOf(d)' = StageOf(d)
                             /\ (d \in CoveredWrites)' <=> d \in CoveredWrites
  BY <1>2, <1>3, OthersAlike
<1>7. Stages' = [Stages EXCEPT ![c] = "queued"]
  BY <1>4, <1>6 DEF Stages
<1>8. CoveredWrites' \in {CoveredWrites, CoveredWrites \cup {c}}
  <2>1. CoveredWrites \subseteq Local /\ CoveredWrites' \subseteq Local
    BY DEF CoveredWrites
  <2> QED BY <1>5, <1>6, <2>1
<1>9. Lifecycle!Enqueue(c)
  BY <1>4, <1>7, <1>8 DEF Lifecycle!Enqueue, Stages
<1> QED BY <1>9 DEF Lifecycle!Next

\* Writes that were on their way are lost, one or all of them.
LEMMA LossMaps ==
  ASSUME CoverInv, NEW S \in SUBSET ByStatus("hooking"), UNCHANGED <<change, log>>,
         status' = [c \in Local |-> IF c \in S THEN "lost" ELSE status[c]]
  PROVE  Lifecycle!Next
<1>1. \A c \in S : c \in Local /\ StageOf(c) = "written" /\ StageOf(c)' = "lost"
  BY DEF ByStatus, StageOf
<1>2. \A c \in S : c \notin CoveredWrites /\ (c \notin CoveredWrites)'
  BY DEF ByStatus, CoveredWrites
<1>3. \A c \in Local \ S : /\ StageOf(c)' = StageOf(c)
                           /\ (c \in CoveredWrites)' <=> c \in CoveredWrites
  BY OthersAlike
<1>4. Stages' = [c \in Local |-> IF c \in S THEN "lost" ELSE Stages[c]]
  BY <1>1, <1>3 DEF Stages
<1>5. CoveredWrites' = CoveredWrites
  BY <1>2, <1>3 DEF CoveredWrites
<1>6. Lifecycle!Lose(S)
  BY <1>1, <1>4, <1>5 DEF Lifecycle!Lose, Stages
<1>7. S \in SUBSET Local
  BY DEF ByStatus
<1> QED BY <1>6, <1>7 DEF Lifecycle!Next

-----------------------------------------------------------------------------
\* Every step is a step of the lifecycle, or changes nothing of it.
LEMMA LifecycleNext ==
  ASSUME QueueInv, QueueInv', [Next]_vars
  PROVE  Lifecycle!Next
<1>0. CoverInv /\ CoverInv' /\ HistoryKept /\ DoomedAreOutdone /\ MarkedAreQueued
  BY NextKeepsHistory DEF QueueInv
<1>1. CASE ClientStep
  BY <1>0, <1>1, ClientStepWrites, CycleMaps
<1>2. CASE Tick \/ UNCHANGED vars \/ ServerStep \/ OthersStep \/ CompactPlan \/ RetryPlan
           \/ (\E c \in Local : CompactCheck(c))
           \/ (\E c \in Local :
                 (Refuse(c) \/ Ignore(c)) /\ UNCHANGED <<queueVars, engineVars, toolVars>>)
           \/ PushThrows \/ PullThrows
  <2>1. UNCHANGED queueVars
    BY <1>2 DEF Tick, ServerStep, OthersStep, CompactPlan, RetryPlan, CompactCheck, PushThrows,
                PullThrows, WriteThrows
  <2> QED BY <1>0, <2>1, QueueIdle
<1>3. CASE CompactDelete
  BY <1>0, <1>3, CompactMaps
<1>4. ASSUME NEW c \in Local, RetryNext(c) PROVE Lifecycle!Next
  <2>1. UNCHANGED queueVars \/ Requeues(c)
    BY <1>4 DEF RetryNext, Requeues
  <2>2. log' = log
    BY <1>4 DEF RetryNext
  <2> QED BY <1>0, <2>1, <2>2, QueueIdle, RequeuesMap
<1>5. CASE ClearCommitted \/ Restart
  BY <1>0, <1>5, SweepMaps DEF ClearCommitted, Restart
<1>6. CASE AppStep \/ HookStep
  BY <1>0, <1>6, MakeMaps, EnqueueMaps
<1>7. CASE Crash
  <2>1. status' = [c \in Local |-> IF c \in ByStatus("hooking") THEN "lost" ELSE status[c]]
    BY <1>7 DEF Crash, ByStatus
  <2> QED BY <1>0, <1>7, <2>1, LossMaps DEF Crash
<1>8. ASSUME NEW c \in Local, QueueWriteFails(c) PROVE Lifecycle!Next
  <2>1. {c} \in SUBSET ByStatus("hooking")
    BY <1>8 DEF QueueWriteFails, ByStatus
  <2>2. status' = [d \in Local |-> IF d \in {c} THEN "lost" ELSE status[d]]
    BY <1>0, <1>8 DEF QueueWriteFails, CoverInv, TypeInv, TypeOK, QueueTypeOK
  <2> QED BY <1>0, <1>8, <2>1, <2>2, LossMaps DEF QueueWriteFails
<1> QED
  BY <1>1, <1>2, <1>3, <1>4, <1>5, <1>6, <1>7, <1>8 DEF Next, CalmStep, DisturbedStep, ToolStep

LEMMA LifecycleInit == Init => Lifecycle!Init
  BY DEF Init, QueueInit, Lifecycle!Init, StageOf, CoveredWrites

\* The sync subsystem, with its cycles, answers, conflicts, maintenance and
\* crashes, implements ChangeLifecycle: a queued write stays queued until the
\* server has it or something at least as new, compaction drops it only for
\* another one, and only an explicit retry brings back a write that was done.
THEOREM SyncImplementsLifecycle == Spec => ImplementsLifecycle
<1>1. QueueInv /\ QueueInv' /\ [Next]_vars => [Lifecycle!Next]_Lifecycle!vars
  BY LifecycleNext
<1> QED BY <1>1, LifecycleInit, QueueInvHolds, PTL DEF Spec, ImplementsLifecycle, Lifecycle!Spec
=============================================================================
