------------------------- MODULE SyncAgreementProofs -------------------------
(***************************************************************************)
(* Client and server come to agree: a remote change is skipped only while a *)
(* newer edit still has its row in the queue, and when nothing is queued, on *)
(* its way or unread the client holds the server's records, with the        *)
(* server's value in each of their fields.  Under each of the built-in      *)
(* strategies, with a client clock that is not ahead of the server's, for    *)
(* every number of records, fields, writes, disturbances and crashes.        *)
(***************************************************************************)
EXTENDS SyncLifecycleProofs

USE DEF vars, queueVars, serverVars, wireVars, engineVars, applyVars, pullVars,
        cursorVars, toolVars

-----------------------------------------------------------------------------
(* What a row carries. *)

LEMMA CarriesSame ==
  ASSUME NEW data
  PROVE  Carries(data, data)
  BY DEF Carries

LEMMA CarriesThrough ==
  ASSUME NEW row, NEW middle, NEW content, Carries(row, middle), Carries(middle, content)
  PROVE  Carries(row, content)
  BY DEF Carries

\* A record that is merged with a content carries it.
LEMMA CarriesMerged ==
  ASSUME NEW old \in Content, NEW new \in Content, new # Absent
  PROVE  Merge(old, new) \in Content /\ Merge(old, new) # Absent /\ Carries(Merge(old, new), new)
<1>1. new \in Record
  BY DEF Content
<1>2. Merge(old, new) \in Content /\ Merge(old, new) # Absent
  BY <1>1, MergeType, RecordAssumption
<1>3. CASE old = Absent
  BY <1>3, CarriesSame DEF Merge
<1>4. CASE old # Absent
  <2>1. Merge(old, new) = [f \in DOMAIN old \cup DOMAIN new |->
                              IF f \in DOMAIN new THEN new[f] ELSE old[f]]
    BY <1>4 DEF Merge
  <2> QED BY <1>2, <2>1 DEF Carries
<1> QED BY <1>2, <1>3, <1>4

-----------------------------------------------------------------------------
(* The clocks. *)

\* A change enters the queue in the after hook only, stamped with the time.
LEMMA NewlyEntered ==
  ASSUME CoverInv, [Next]_vars, NEW c \in Entered' \ Entered
  PROVE  /\ \E d \in Local : QueueWrite(d)
         /\ clock' = clock /\ log' = log /\ change'[c].ts = ClientNow
<1>0. /\ status \in [Local -> Status] /\ change \in [Local -> Row]
      /\ c \in Local
      /\ status[c] \in {"unborn", "hooking", "lost"}
      /\ status'[c] \notin {"unborn", "hooking", "lost"}
  BY DEF Entered, CoverInv, TypeInv, TypeOK, QueueTypeOK
<1>1. clock' = clock
  BY <1>0 DEF Next, Tick
<1>2. CASE HookStep
  <2>1. PICK d \in Local : QueueWrite(d)
    BY <1>2 DEF HookStep
  <2>2. c = d
    BY <1>0, <2>1 DEF QueueWrite, AppendRow
  <2>3. change'[c].ts = ClientNow
    BY <1>0, <2>1, <2>2 DEF QueueWrite, AppendRow, Row
  <2> QED BY <1>1, <2>1, <2>3 DEF QueueWrite
<1>3. CASE ClientStep
  <2>1. CycleWrites
    BY <1>3, ClientStepWrites
  <2>2. ASSUME NEW d \in Local, HasRow(d), NEW s, status' = [status EXCEPT ![d] = s]
        PROVE  FALSE
    BY <1>0, <2>2 DEF HasRow, Stored
  <2>3. ASSUME NEW d \in Local, Requeues(d) PROVE FALSE
    BY <2>2, <2>3 DEF Requeues, MarkPending, MarkSyncing, MarkFailed, MarkPendingWithRetries
  <2>4. ASSUME NEW d \in Local, HasRow(d), MarkCommitted(d) PROVE FALSE
    BY <2>2, <2>4 DEF MarkCommitted
  <2>5. CASE UNCHANGED queueVars \/ RemoveCommitted \/ UnmarkSyncing(batch \ todo)
    BY <1>0, <2>5 DEF UnmarkSyncing, RemoveCommitted, HasRow, Stored
  <2> QED BY <2>1, <2>3, <2>4, <2>5 DEF CycleWrites, Entered
<1>4. CASE ToolStep \/ AppStep \/ \E d \in Local : QueueWriteFails(d)
  BY <1>0, <1>4 DEF ToolStep, CompactCheck, CompactDelete, RetryNext, MarkPending, AppStep,
                    LocalWrite, QueueWriteFails, HasRow, Stored
<1>5. CASE ~ClientStep /\ ~HookStep /\ ~ToolStep /\ ~AppStep /\ ~\E d \in Local : QueueWriteFails(d)
  <2>1. \/ UNCHANGED status \/ Recover \/ RemoveCommitted \/ Crash
    BY <1>5 DEF Next, Tick, CalmStep, ServerStep, OthersStep, Restart, DisturbedStep,
                PushThrows, PullThrows, WriteThrows, CompactPlan, RetryPlan,
                ClearCommitted
  <2> QED BY <1>0, <2>1 DEF Recover, RemoveCommitted, Crash
<1> QED BY <1>2, <1>3, <1>4, <1>5

\* The log grows only by a write the server stores; one of this client's was
\* queued before.
Stores(k, w, data) ==
    /\ Accept(k, w, data)
    /\ w \in Local => w \in Entered /\ k = change[w].key
    /\ UNCHANGED <<queueVars, engineVars, toolVars, clock>>

LEMMA LogStep ==
  ASSUME CoverInv, [Next]_vars
  PROVE  \/ UNCHANGED serverVars
         \/ \E k \in Key, w \in Write, data \in Content : Stores(k, w, data)
<1>0. UNCHANGED clock \/ UNCHANGED serverVars
  BY DEF Next, Tick
<1>1. CASE ServerStep
  <2>1. PICK c \in Local : Serve(c) \/ ServeLate(c)
    BY <1>1 DEF ServerStep
  <2>2. c \in Entered /\ change[c].key \in Key /\ c \in Write /\ DataOf(c) \in Content
    BY <2>1, ChangeTypes DEF Serve, ServeLate, OldestIn, CoverInv, InFlightIsEntered
  <2>3. UNCHANGED serverVars \/ Accept(change[c].key, c, DataOf(c))
    BY <2>1 DEF Serve, ServeLate
  <2> QED BY <1>0, <1>1, <2>2, <2>3 DEF ServerStep, Stores
<1>2. CASE OthersStep
  <2>1. PICK w \in Remote, k \in Key : RemoteWrite(w, k)
    BY <1>2 DEF OthersStep
  <2>2. w \in Write /\ w \notin Local
    BY <2>1, ConstantsAssumption DEF Write
  <2>3. PICK data \in Content : Accept(k, w, data)
    BY <2>1, RemoteAccepts DEF CoverInv
  <2>4. Stores(k, w, data)
    BY <1>0, <1>2, <2>2, <2>3 DEF OthersStep, Accept, Stores
  <2> QED BY <2>2, <2>4
<1>3. CASE ~ServerStep /\ ~OthersStep
  <2>1. CASE ClientStep
    BY <2>1 DEF ClientStep, CycleStep, BeginSync, SelectBatch, ReceiveAnswer, NextList,
                SettleConflict, PullPage, ApplyNext, ReadExisting, WriteRow, PageDone,
                SaveCursor, Purge, PullOverrun, WriteRaces, WriteInvalid, WriteThrows, MarkNext, RollbackNext,
                AcceptNext, CommitNow, Visited, RowMissing, ResolveNext, KeepLocal,
                TakeContent, ErrorNext, UnackedNext
  <2>2. CASE ~ClientStep
    BY <1>3, <2>2
       DEF Next, Tick, CalmStep, ToolStep, CompactCheck, CompactDelete, RetryNext, AppStep,
           LocalWrite, HookStep, QueueWrite, Restart, DisturbedStep, PushThrows, PullThrows,
           WriteThrows, Refuse, Ignore, QueueWriteFails, CompactPlan, RetryPlan,
           ClearCommitted, Crash
  <2> QED BY <2>1, <2>2
<1> QED BY <1>1, <1>2, <1>3

\* What the server appends.
LEMMA StoresAppends ==
  ASSUME CoverInv, NEW k \in Key, NEW w \in Write, NEW data \in Content, Stores(k, w, data)
  PROVE  /\ Len(log) \in Nat /\ Len(log') = Len(log) + 1
         /\ \A i \in 1..Len(log) : log'[i] = log[i]
         /\ log'[Len(log) + 1].key = k /\ log'[Len(log) + 1].by = w
         /\ log'[Len(log) + 1].data = data /\ log'[Len(log) + 1].ts = ServerNow
<1>1. log \in Seq(Entry)
  BY DEF CoverInv, TypeInv, TypeOK, ServerTypeOK
<1>2. /\ Len(log) \in Nat /\ Len(log') = Len(log) + 1
      /\ \A i \in 1..Len(log) : log'[i] = log[i]
      /\ log'[Len(log) + 1] = [key |-> k, by |-> w, data |-> data, ts |-> ServerNow]
  BY <1>1 DEF Stores, Accept
<1> QED BY <1>2

LEMMA LogTypes ==
  ASSUME CoverInv
  PROVE  /\ Len(log) \in Nat
         /\ \A i \in 1..Len(log) : /\ log[i] \in Entry /\ log[i].key \in Key
                                   /\ log[i].ts \in Nat /\ log[i].data \in Content
<1>1. log \in Seq(Entry)
  BY DEF CoverInv, TypeInv, TypeOK, ServerTypeOK
<1>2. \A i \in 1..Len(log) : log[i] \in Entry
  BY <1>1
<1> QED BY <1>1, <1>2 DEF Entry

LEMMA ClockNext ==
  ASSUME CoverInv, ClientBehind, ClockInv, [Next]_vars
  PROVE  ClockInv'
<1>0. /\ clock \in Nat /\ clock' \in Nat /\ clock' >= clock
      /\ ClientNow \in Nat /\ ClientNow' \in Nat /\ ClientNow' >= ClientNow
      /\ ServerNow \in Nat /\ ServerNow' \in Nat /\ ServerNow' >= ServerNow
      /\ ClientNow <= ServerNow
  <2>1. clock \in Nat /\ clock' >= clock /\ clock' \in Nat
    BY DEF Next, Tick, CoverInv, TypeInv, TypeOK, BaseTypeOK
  <2>2. ClientSkew \in Nat /\ ServerSkew \in Nat /\ ClientSkew <= ServerSkew
    BY ConstantsAssumption DEF ClientBehind
  <2>3. ClientNow \in Nat /\ ServerNow \in Nat /\ ClientNow <= ServerNow
    BY <2>1, <2>2 DEF ClientNow, ServerNow
  <2>4. /\ ClientNow = clock + ClientSkew /\ ServerNow = clock + ServerSkew
        /\ ClientNow' = clock' + ClientSkew /\ ServerNow' = clock' + ServerSkew
    BY DEF ClientNow, ServerNow
  <2>5. \A a, b, s \in Nat : b >= a => b + s \in Nat /\ b + s >= a + s
    OBVIOUS
  <2>6. ClientNow' \in Nat /\ ClientNow' >= ClientNow /\ ServerNow' \in Nat /\ ServerNow' >= ServerNow
    BY <2>1, <2>2, <2>4, <2>5
  <2> QED BY <2>1, <2>3, <2>6
<1>1. QueueKept /\ LogKept
  BY NextKeepsHistory DEF HistoryKept
<1>2. ASSUME NEW c \in Entered' PROVE change'[c].ts <= ClientNow'
  <2>1. CASE c \in Entered
    <3>1. change'[c].ts = change[c].ts /\ change[c].ts \in Nat /\ change[c].ts <= ClientNow
      BY <1>1, <2>1, ChangeTypes DEF QueueKept, ClockInv, CoverInv, Entered
    <3> QED BY <1>0, <3>1
  <2>2. CASE c \notin Entered
    BY <1>0, <1>2, <2>2, NewlyEntered
  <2> QED BY <2>1, <2>2
<1>3. CASE log' = log
  <2>1. \A i \in 1..Len(log) : log[i].ts \in Nat
    BY LogTypes
  <2>2. \A i \in 1..Len(log') : log'[i].ts <= ServerNow'
    BY <1>0, <1>3, <2>1 DEF ClockInv
  <2>3. \A i \in 1..Len(log') : log'[i].by \in Local =>
            log'[i].by \in Entered' /\ log'[i].ts >= change'[log'[i].by].ts
    BY <1>1, <1>3 DEF ClockInv, QueueKept
  <2>4. \A i, j \in 1..Len(log') : i <= j => log'[i].ts <= log'[j].ts
    BY <1>3 DEF ClockInv
  <2> QED BY <1>2, <2>2, <2>3, <2>4 DEF ClockInv
<1>4. CASE log' # log
  <2>1. PICK k \in Key, w \in Write, data \in Content : Stores(k, w, data)
    BY <1>4, LogStep
  <2> DEFINE n == Len(log) + 1
  <2>2. /\ Len(log) \in Nat /\ Len(log') = n
        /\ \A i \in 1..Len(log) : log'[i] = log[i]
        /\ log'[n].by = w /\ log'[n].ts = ServerNow
    BY <2>1, StoresAppends
  <2>3. ServerNow' = ServerNow /\ change' = change /\ Entered' = Entered
    BY <2>1 DEF Stores, ServerNow, Entered
  <2>4. \A i \in 1..Len(log') : i = n \/ (i \in 1..Len(log) /\ log'[i] = log[i])
    BY <2>2
  <2>5. \A i \in 1..Len(log') : log'[i].ts <= ServerNow'
    BY <1>0, <2>2, <2>3, <2>4 DEF ClockInv
  <2>6. \A i \in 1..Len(log') : log'[i].by \in Local =>
            log'[i].by \in Entered' /\ log'[i].ts >= change'[log'[i].by].ts
    <3>1. w \in Local => w \in Entered /\ ServerNow >= change[w].ts
      <4>1. w \in Local => w \in Entered /\ change[w].ts <= ClientNow /\ change[w].ts \in Nat
        BY <2>1, ChangeTypes DEF Stores, ClockInv, CoverInv
      <4> QED BY <1>0, <4>1
    <3> QED BY <2>2, <2>3, <2>4, <3>1 DEF ClockInv
  <2>7. ASSUME NEW i \in 1..Len(log'), NEW j \in 1..Len(log'), i <= j
        PROVE  log'[i].ts <= log'[j].ts
    <3>1. CASE j = n
      BY <2>2, <2>3, <2>5, <3>1
    <3>2. CASE j # n
      <4>1. j \in 1..Len(log) /\ i \in 1..Len(log)
        BY <2>2, <2>7, <3>2
      <4> QED BY <2>2, <2>7, <4>1 DEF ClockInv
    <3> QED BY <3>1, <3>2
  <2> QED BY <1>2, <2>5, <2>6, <2>7 DEF ClockInv
<1> QED BY <1>3, <1>4

-----------------------------------------------------------------------------
(* The last word about a record. *)

LEMMA LastWordNext ==
  ASSUME CoverInv, DoomedAreOutdone, CompactedIsSuperseded, LastWordStands, [Next]_vars
  PROVE  LastWordStands'
<1>0. QueueKept /\ NoChange \notin Local
  BY NextKeepsHistory, ConstantsAssumption DEF HistoryKept
<1>1. SUFFICES ASSUME NEW c \in Local, (c \in Listed)' \/ status'[c] = "compacted"
               PROVE  \E d \in Entered' \ Listed' :
                         /\ status'[d] # "compacted"
                         /\ change'[d].key = change'[c].key
                         /\ change'[d].ts >= change'[c].ts
  BY DEF LastWordStands
<1>2. status'[c] = "compacted" => status[c] = "compacted" \/ c \in Listed
  BY NewlyCompacted DEF Listed
<1>3. CASE CompactPlan
  <2>1. UNCHANGED queueVars /\ doomed = {} /\ victim = NoChange /\ victim' = victim
    BY <1>3 DEF CompactPlan
  <2>2. Queued \subseteq Entered /\ \A d \in Queued : status[d] # "compacted"
    BY DEF Queued, ByStatus, Entered
  <2>3. CASE (c \in Listed)'
    <3>1. c \in doomed'
      BY <1>0, <2>1, <2>3 DEF Listed
    <3>2. PICK d \in Queued \ doomed' : change[d].key = change[c].key /\ change[d].ts >= change[c].ts
      BY <1>3, <3>1, PlanDooms
    <3> QED BY <1>0, <2>1, <2>2, <3>2 DEF Listed, Entered
  <2>4. CASE status'[c] = "compacted"
    <3>1. status[c] = "compacted"
      BY <2>1, <2>4
    <3>2. PICK d \in Entered \ Listed :
              /\ status[d] # "compacted"
              /\ change[d].key = change[c].key
              /\ change[d].ts >= change[c].ts
      BY <3>1 DEF LastWordStands
    <3>3. CASE d \in doomed'
      <4>1. PICK e \in Queued \ doomed' :
                change[e].key = change[d].key /\ change[e].ts >= change[d].ts
        BY <1>3, <3>3, PlanDooms
      <4>2. c \in Local /\ d \in Local /\ e \in Local /\ e \in Entered /\ status[e] # "compacted"
        BY <2>2, <4>1 DEF Entered
      <4>3. change[e].ts >= change[c].ts
        BY <3>2, <4>1, <4>2, ChangeTypes DEF CoverInv
      <4> QED BY <1>0, <2>1, <3>2, <4>1, <4>2, <4>3 DEF Listed, Entered
    <3>4. CASE d \notin doomed'
      BY <1>0, <2>1, <3>2, <3>4 DEF Listed, Entered
    <3> QED BY <3>3, <3>4
  <2> QED BY <1>1, <2>3, <2>4
<1>4. CASE ~CompactPlan
  <2>1. Listed' \subseteq Listed \cup {NoChange}
    BY <1>4, PlannedOnly DEF Listed
  <2>2. c \in Listed \/ status[c] = "compacted"
    BY <1>0, <1>1, <1>2, <2>1
  <2>3. c \in Entered
    BY <1>0, <2>2 DEF Listed, DoomedAreOutdone, CompactedIsSuperseded, Entered
  <2>4. PICK d \in Entered \ Listed :
            /\ status[d] # "compacted"
            /\ change[d].key = change[c].key
            /\ change[d].ts >= change[c].ts
    BY <2>2 DEF LastWordStands
  <2>5. d \in Local /\ d \notin Listed' /\ d # victim
    BY <1>0, <2>1, <2>4 DEF Entered, Listed
  <2>6. status'[d] # "compacted"
    BY <2>4, <2>5, NewlyCompacted
  <2> QED BY <1>0, <2>3, <2>4, <2>5, <2>6 DEF QueueKept
<1> QED BY <1>3, <1>4

\* A change that the server has still to hear of.
Wanted(d) == d \notin Listed /\ status[d] \in {"pending", "syncing", "failed"}

\* Of a change that once was queued, the server has still to hear of one of its
\* record that is at least as new, or its log has such a write.
LEMMA WantedOrLogged ==
  ASSUME KeptInv, NewestWins, NEW p \in Entered
  PROVE  \/ \E d \in Local : /\ Wanted(d)
                             /\ change[d].key = change[p].key /\ change[d].ts >= change[p].ts
         \/ \E j \in 1..Len(log) : log[j].key = change[p].key /\ log[j].ts >= change[p].ts
<1>0. CoverInv /\ ClockInv /\ LastWordStands
  BY DEF KeptInv, QueueInv
<1>1. /\ Len(log) \in Nat /\ \A j \in 1..Len(log) : log[j].ts \in Nat
      /\ \A d \in Entered : change[d].ts \in Nat /\ d \in Local
  BY <1>0, LogTypes, ChangeTypes DEF CoverInv, Entered
<1>2. PICK d \in Entered \ Listed :
          /\ status[d] # "compacted"
          /\ change[d].key = change[p].key /\ change[d].ts >= change[p].ts
  <2>1. CASE p \in Listed \/ status[p] = "compacted"
    BY <1>0, <1>1, <2>1 DEF LastWordStands
  <2>2. CASE p \notin Listed /\ status[p] # "compacted"
    BY <1>1, <2>2
  <2> QED BY <2>1, <2>2
<1>3. d \in Local /\ status[d] \in {"pending", "syncing", "failed", "committed", "removed"}
  BY <1>0, <1>2 DEF Entered, CoverInv, TypeInv, TypeOK, QueueTypeOK, Status, Stored
<1>4. CASE status[d] \in {"pending", "syncing", "failed"}
  BY <1>2, <1>3, <1>4 DEF Wanted
<1>5. CASE status[d] \in {"committed", "removed"}
  <2>1. PICK j \in 1..Len(log) :
            log[j].key = change[d].key /\ (log[j].by = d \/ log[j].ts >= change[d].ts)
    BY <1>0, <1>3, <1>5 DEF CoverInv, CommittedIsCovered, Covered
  <2>2. log[j].ts >= change[d].ts
    BY <1>0, <1>3, <2>1 DEF ClockInv
  <2>3. log[j].ts >= change[p].ts
    BY <1>1, <1>2, <2>2
  <2> QED BY <1>2, <2>1, <2>3
<1> QED BY <1>3, <1>4, <1>5

\* A write of the log that is newer than another one comes after it.
LEMMA NewerIsLater ==
  ASSUME KeptInv, NEW i \in 1..Len(log), NEW j \in 1..Len(log), log[j].ts > log[i].ts
  PROVE  j > i
<1>1. CoverInv /\ ClockInv
  BY DEF KeptInv, QueueInv
<1>2. Len(log) \in Nat /\ log[i].ts \in Nat /\ log[j].ts \in Nat
  BY <1>1, LogTypes
<1>3. j <= i => log[j].ts <= log[i].ts
  BY <1>1 DEF ClockInv
<1> QED BY <1>2, <1>3

\* The server has not seen the last of a record when an entry about it is older
\* than a change of the record that once was queued.
LEMMA StillWanted ==
  ASSUME KeptInv, NewestWins, NEW p \in Entered, NEW i \in 1..Len(log),
         change[p].key = log[i].key, change[p].ts > log[i].ts
  PROVE  \/ \E d \in Local : /\ Wanted(d)
                             /\ change[d].key = log[i].key /\ change[d].ts > log[i].ts
         \/ \E j \in i+1..Len(log) : log[j].key = log[i].key
<1>1. /\ Len(log) \in Nat /\ \A j \in 1..Len(log) : log[j].ts \in Nat
      /\ change[p].ts \in Nat /\ change \in [Local -> Row]
  BY LogTypes, ChangeTypes
     DEF KeptInv, QueueInv, CoverInv, TypeInv, TypeOK, QueueTypeOK, Entered
<1>2. \A d \in Local : change[d].ts \in Nat
  BY <1>1 DEF Row
<1>3. ASSUME NEW d \in Local, change[d].ts >= change[p].ts PROVE change[d].ts > log[i].ts
  BY <1>1, <1>2, <1>3
<1>4. ASSUME NEW j \in 1..Len(log), log[j].ts >= change[p].ts PROVE j \in i+1..Len(log)
  <2>1. log[j].ts > log[i].ts
    BY <1>1, <1>4
  <2> QED BY <1>1, <2>1, NewerIsLater
<1> QED BY <1>3, <1>4, WantedOrLogged

\* While the engine applies a page, it moves on without a write only past an
\* entry that the snapshot makes a replay.
LEMMA SkipIsReplay ==
  ASSUME CoverInv, [Next]_vars, pc = "apply", at' = at + 1
  PROVE  /\ at + 1 \in 1..Len(log)
         /\ IsReplay(snap[log[at + 1].key], log[at + 1])
         /\ UNCHANGED <<rows, pc, snap, batch, todo, applyVars, cursorVars, aborted,
                        queueVars, serverVars, wireVars, toolVars>>
<1>0. at \in Nat /\ at' # at /\ at' # 0
  BY DEF CoverInv, TypeInv, TypeOK, EngineTypeOK
<1>1. ClientStep
  BY <1>0 DEF Next, Tick, CalmStep, ServerStep, ToolStep, CompactCheck, CompactDelete, RetryNext,
              AppStep, LocalWrite, HookStep, QueueWrite, OthersStep, Restart, DisturbedStep,
              PushThrows, PullThrows, WriteThrows, QueueWriteFails, CompactPlan,
              RetryPlan, ClearCommitted, Crash, ForgetCycle
<1>2. ApplyNext
  BY <1>0, <1>1
     DEF ClientStep, CycleStep, BeginSync, SelectBatch, ReceiveAnswer, NextList, SettleConflict,
         PullPage, ReadExisting, WriteRow, PageDone, SaveCursor, Purge, PullOverrun, WriteRaces, WriteInvalid,
         WriteThrows, MarkNext, RollbackNext, AcceptNext, ResolveNext, ErrorNext, UnackedNext,
         Fail, EndCycle, ForgetCycle
<1>3. at < upto /\ upto <= Len(log) /\ upto \in Nat /\ Len(log) \in Nat
  BY <1>2, LogTypes DEF ApplyNext, CoverInv, TypeInv, TypeOK, PageOK, EngineTypeOK
<1> QED
  BY <1>0, <1>1, <1>2, <1>3 DEF ApplyNext, StartApply, Fail, EndCycle, ForgetCycle, ClientStep

LEMMA KeptStep ==
  ASSUME KeptInv, NewestWins, [Next]_vars, pc = "apply", at' = at + 1
  PROVE  \/ \E d \in Local : /\ Wanted(d) /\ change[d].key = log[at + 1].key
                             /\ change[d].ts > log[at + 1].ts
         \/ \E j \in at+2..Len(log) : log[j].key = log[at + 1].key
<1> DEFINE e == log[at + 1]
           p == snap[e.key]
<1>1. CoverInv
  BY DEF KeptInv, QueueInv
<1>2. at + 1 \in 1..Len(log) /\ p # NoChange /\ change[p].ts > e.ts /\ at \in Nat
  BY <1>1, SkipIsReplay DEF IsReplay, CoverInv, TypeInv, TypeOK, EngineTypeOK
<1>3. e.key \in Key
  BY <1>1, <1>2, LogTypes
<1>4. p \in Entered /\ change[p].key = e.key
  BY <1>1, <1>2, <1>3 DEF CoverInv, InFlightIsEntered, SnapshotMatches
<1>5. (at + 1) + 1 = at + 2
  BY <1>2
<1> QED BY <1>2, <1>4, <1>5, StillWanted

LEMMA KeptInit == ClientBehind /\ Init => KeptInv
<1> SUFFICES ASSUME ClientBehind, Init PROVE KeptInv
  OBVIOUS
<1>1. ClockInv
  BY DEF Init, QueueInit, ServerInit, ClockInv, Entered
<1>2. LastWordStands
  BY ConstantsAssumption DEF Init, QueueInit, ToolsInit, LastWordStands, Listed
<1> QED BY <1>1, <1>2, QueueInvInit DEF KeptInv

LEMMA KeptNext == KeptInv /\ [Next]_vars => KeptInv'
<1> SUFFICES ASSUME KeptInv, [Next]_vars PROVE KeptInv'
  OBVIOUS
<1>1. QueueInv /\ QueueInv' /\ ClientBehind /\ ClockInv /\ LastWordStands
  BY QueueInvNext DEF KeptInv
<1>2. ClockInv' /\ LastWordStands'
  BY <1>1, ClockNext, LastWordNext DEF QueueInv
<1> QED BY <1>1, <1>2 DEF KeptInv, ClientBehind

\* When #applyRemoteChange skips a remote change in favour of a queued edit, the
\* server has not seen the last of the record: an edit newer than the change
\* still has its row, whatever the cycle, compaction, retries and crashes did to
\* the one of the snapshot since, or a later entry of the log is about it.
THEOREM KeptEditsAreQueued == NewestWins /\ ClientBehind /\ Spec => KeptEditIsQueued
<1> DEFINE Kept == Skips => NewerIn(Queued \cup ByStatus("syncing")) \/ OutrunByLog
<1>1. NewestWins /\ KeptInv /\ [Next]_vars => [Kept]_vars
  <2> SUFFICES ASSUME NewestWins, KeptInv, [Next]_vars, Skips
               PROVE  NewerIn(Queued \cup ByStatus("syncing")) \/ OutrunByLog
    OBVIOUS
  <2>1. \A d \in Local : Wanted(d) => d \in Queued \cup ByStatus("syncing")
    BY DEF Wanted, Queued, ByStatus
  <2> QED BY <2>1, KeptStep DEF Skips, NewerIn, OutrunByLog
<1>2. NewestWins /\ ClientBehind /\ Init => NewestWins /\ KeptInv
  BY KeptInit
<1>3. (NewestWins /\ KeptInv) /\ [Next]_vars => (NewestWins /\ KeptInv)'
  BY KeptNext DEF NewestWins
<1> QED BY <1>1, <1>2, <1>3, PTL DEF Spec, KeptEditIsQueued

-----------------------------------------------------------------------------
(* How far the client has applied the log. *)

LEMMA PositionTypes ==
  ASSUME CoverInv
  PROVE  /\ Len(log) \in Nat /\ Position \in Nat /\ Position <= Len(log)
         /\ at \in Nat /\ upto \in Nat /\ cursor \in Nat /\ saved \in Nat
         /\ at <= upto /\ upto <= Len(log) /\ cursor <= Len(log)
<1>1. /\ at \in Nat /\ upto \in Nat /\ cursor \in Nat /\ saved \in Nat /\ Len(log) \in Nat
      /\ at <= upto /\ upto <= Len(log) /\ cursor <= Len(log) /\ saved <= Len(log)
  BY LogTypes DEF CoverInv, TypeInv, TypeOK, EngineTypeOK, PageOK
<1> QED BY <1>1 DEF Position

\* The step does not take the client further in the log.
NoAdvance == PositionInv' /\ Position' <= Position

\* The step leaves the engine where it is.
EngineIdles == UNCHANGED <<pc, snap, batch, todo, applyVars, pullVars, cursorVars, aborted>>

LEMMA IdlesNoAdvance ==
  ASSUME CoverInv, PositionInv, EngineIdles
  PROVE  NoAdvance
<1>1. Position' = Position
  BY DEF EngineIdles, Position, Pulling
<1> QED BY <1>1, PositionTypes DEF NoAdvance, PositionInv, EngineIdles, Pulling

LEMMA EndNoAdvance ==
  ASSUME CoverInv, PositionInv, EndCycle, UNCHANGED cursorVars, pc # "down"
  PROVE  NoAdvance
<1>1. Position' = cursor /\ ~Pulling'
  BY DEF EndCycle, Position, Pulling
<1> QED BY <1>1, PositionTypes DEF NoAdvance, PositionInv, EndCycle, Position

\* The phases in which the engine neither pulls nor is down.
Pushing == ~Pulling /\ pc # "down"

LEMMA PushNoAdvance ==
  ASSUME CoverInv, PositionInv, Pushing, Pushing', UNCHANGED cursorVars
  PROVE  NoAdvance
<1>1. Position' = cursor /\ Position = cursor /\ pc' # "pull"
  BY DEF Pushing, Position, Pulling
<1> QED BY <1>1, PositionTypes DEF NoAdvance, PositionInv, Pushing

LEMMA RowMissingNoAdvance ==
  ASSUME CoverInv, PositionInv, NEW c, RowMissing(c), pc # "down"
  PROVE  NoAdvance
  BY EndNoAdvance DEF RowMissing, Abort

LEMMA BeginPullNoAdvance ==
  ASSUME CoverInv, PositionInv, Pushing, BeginPull, UNCHANGED cursorVars
  PROVE  NoAdvance
<1>1. Position' = cursor /\ Position = cursor /\ Pulling'
  BY DEF BeginPull, Pushing, Position, Pulling
<1> QED BY <1>1, PositionTypes DEF NoAdvance, PositionInv, Pushing, BeginPull

LEMMA PushStepsNoAdvance ==
  ASSUME CoverInv, PositionInv,
         \/ BeginSync \/ SelectBatch \/ ReceiveAnswer \/ NextList \/ SettleConflict
         \/ PushThrows
         \/ \E c \in Local : \/ MarkNext(c) \/ RollbackNext(c) \/ AcceptNext(c)
                             \/ ResolveNext(c) \/ ErrorNext(c) \/ UnackedNext(c)
  PROVE  NoAdvance
<1>1. ASSUME Pushing, UNCHANGED cursorVars, UNCHANGED remote,
             pc' \in {"idle", "select", "mark", "sent", "rollback", "accepted", "conflicts",
                      "errors", "unacked"}
      PROVE  NoAdvance
  BY <1>1, PushNoAdvance DEF Pushing, Pulling
<1>2. CASE BeginSync \/ ReceiveAnswer \/ PushThrows
  BY <1>1, <1>2 DEF BeginSync, ReceiveAnswer, PushThrows, Pushing, Pulling
<1>3. CASE SelectBatch \/ NextList
  BY <1>1, <1>3, BeginPullNoAdvance DEF SelectBatch, NextList, Pushing, Pulling
<1>4. CASE SettleConflict
  BY <1>4, PushNoAdvance, RowMissingNoAdvance DEF SettleConflict, Pushing, Pulling
<1>5. ASSUME NEW c \in Local, MarkNext(c) \/ RollbackNext(c) PROVE NoAdvance
  BY <1>1, <1>5, EndNoAdvance DEF MarkNext, RollbackNext, Fail, Abort, Pushing, Pulling
<1>6. ASSUME NEW c \in Local, AcceptNext(c) \/ ErrorNext(c) \/ UnackedNext(c) PROVE NoAdvance
  BY <1>1, <1>6, RowMissingNoAdvance
     DEF AcceptNext, CommitNow, ErrorNext, UnackedNext, Visited, Pushing, Pulling
<1>7. ASSUME NEW c \in Local, ResolveNext(c) PROVE NoAdvance
  <2>1. Pushing /\ pc = "conflicts"
    BY <1>7 DEF ResolveNext, Pushing, Pulling
  <2>2. CASE Visited(c)
    BY <1>1, <2>1, <2>2 DEF Visited
  <2>3. CASE RowMissing(c)
    BY <2>1, <2>3, RowMissingNoAdvance
  <2>4. CASE TakeContent(c, answer[c].data) \/ \E data \in MergedContents : TakeContent(c, data)
    <3>1. Pushing'
      BY <2>4, ConstantsAssumption DEF TakeContent, StartApply, Pushing, Pulling
    <3> QED BY <2>1, <2>4, <3>1, PushNoAdvance DEF TakeContent
  <2>5. CASE Abort /\ UNCHANGED cursorVars
    BY <2>1, <2>5, EndNoAdvance DEF Abort
  <2> QED BY <1>7, <2>2, <2>3, <2>4, <2>5 DEF ResolveNext, KeepLocal, CommitNow
<1> QED BY <1>2, <1>3, <1>4, <1>5, <1>6, <1>7

LEMMA PullStepsNoAdvance ==
  ASSUME CoverInv, PositionInv,
         \/ PullPage \/ ReadExisting \/ PageDone \/ SaveCursor \/ Purge
         \/ PullOverrun \/ PullThrows \/ WriteThrows
         \/ WriteRow /\ remote.cause # NoChange
         \/ ApplyNext /\ at' # at + 1
  PROVE  NoAdvance
<1>1. CASE Purge \/ PullOverrun \/ PullThrows \/ WriteThrows
  BY <1>1, EndNoAdvance DEF Purge, PullOverrun, PullThrows, WriteThrows, Fail, Abort
<1>2. CASE PullPage
  <2>1. Pulling /\ Pulling' /\ Position = at /\ Position' = upto /\ at = upto /\ pc' = "apply"
    BY <1>2 DEF PullPage, Position, Pulling, PositionInv
  <2> QED BY <1>2, <2>1, PositionTypes DEF NoAdvance, PositionInv, PullPage
<1>3. CASE ReadExisting
  <2>1. (Pulling' <=> Pulling) /\ Position' = Position /\ pc # "down" /\ pc' = "write"
    BY <1>3 DEF ReadExisting, Position, Pulling
  <2> QED BY <1>3, <2>1, PositionTypes DEF NoAdvance, PositionInv, ReadExisting
<1>4. CASE PageDone
  <2>1. Position = at /\ Pulling /\ pc = "apply" /\ at = upto
    BY <1>4 DEF PageDone, Position, Pulling
  <2>2. CASE more
    <3>1. Position' = at /\ pc' = "pull" /\ UNCHANGED <<cursor, saved, at, upto>>
      BY <1>4, <2>2 DEF PageDone, Position, Pulling
    <3> QED BY <2>1, <3>1, PositionTypes DEF NoAdvance, PositionInv, Pulling
  <2>3. CASE ~more
    <3>1. Position' = upto /\ pc' = "save" /\ cursor' = upto /\ saved' = saved /\ ~Pulling'
      BY <1>4, <2>3 DEF PageDone, Position, Pulling
    <3> QED BY <2>1, <3>1, PositionTypes DEF NoAdvance, PositionInv
  <2> QED BY <2>2, <2>3
<1>5. CASE SaveCursor
  <2>1. Position = cursor /\ Position' = cursor /\ ~Pulling'
    BY <1>5 DEF SaveCursor, Position, Pulling
  <2> QED BY <1>5, <2>1, PositionTypes DEF NoAdvance, PositionInv, SaveCursor
<1>6. CASE WriteRow /\ remote.cause # NoChange
  BY <1>6, PushNoAdvance DEF WriteRow, Applied, Pushing, Pulling
<1>7. CASE ApplyNext /\ at' # at + 1
  <2>1. CASE Fail
    BY <1>7, <2>1, EndNoAdvance DEF ApplyNext, Fail
  <2>2. CASE ~Fail
    <3>1. /\ pc = "apply" /\ pc' = "read" /\ remote'.cause = NoChange
          /\ UNCHANGED <<at, upto, cursor, saved>>
      BY <1>7, <2>2 DEF ApplyNext, StartApply
    <3>2. Position = at /\ Position' = at /\ Pulling
      BY <3>1 DEF Position, Pulling
    <3> QED BY <3>1, <3>2, PositionTypes DEF NoAdvance, PositionInv
  <2> QED BY <2>1, <2>2
<1> QED BY <1>1, <1>2, <1>3, <1>4, <1>5, <1>6, <1>7

\* Every step but two leaves the client where it is in the log, or takes it back:
\* the two go past the next entry, which is written or skipped.
Writes == pc = "write" /\ remote.cause = NoChange /\ WriteRow
Passes == pc = "apply" /\ at' = at + 1 /\ ApplyNext

LEMMA PositionStep ==
  ASSUME CoverInv, PositionInv, [Next]_vars
  PROVE  \/ NoAdvance
         \/ /\ Writes \/ Passes
            /\ PositionInv' /\ Position = at /\ Position' = at + 1
<1>1. CASE ClientStep
  <2>1. CASE WriteRow /\ remote.cause = NoChange
    <3>1. pc = "write" /\ pc' = "apply" /\ at' = at + 1 /\ UNCHANGED <<cursor, saved>>
      BY <2>1 DEF WriteRow, Applied
    <3> QED BY <2>1, <3>1, PositionTypes DEF Writes, Position, Pulling, PositionInv
  <2>2. CASE ApplyNext /\ at' = at + 1
    <3>1. pc = "apply" /\ pc' = "apply" /\ UNCHANGED <<cursor, saved>>
      BY <2>2, PositionTypes DEF ApplyNext, StartApply, Fail, EndCycle, ForgetCycle
    <3> QED BY <2>2, <3>1, PositionTypes DEF Passes, Position, Pulling, PositionInv
  <2>3. CASE ~(WriteRow /\ remote.cause = NoChange) /\ ~(ApplyNext /\ at' = at + 1)
    BY <1>1, <2>3, PushStepsNoAdvance, PullStepsNoAdvance DEF ClientStep, CycleStep, WriteRaces, WriteInvalid
  <2> QED BY <2>1, <2>2, <2>3
<1>2. CASE PushThrows \/ PullThrows
  BY <1>2, PushStepsNoAdvance, PullStepsNoAdvance
<1>3. CASE Crash
  <2>1. Position' = saved /\ pc' = "down" /\ ~Pulling' /\ pc # "down"
    BY <1>3 DEF Crash, Position, Pulling
  <2> QED BY <2>1, PositionTypes DEF NoAdvance, PositionInv, Position
<1>4. CASE Restart
  <2>1. Position = saved /\ Position' = saved /\ ~Pulling' /\ pc' # "pull"
    BY <1>4 DEF Restart, Position, Pulling
  <2> QED BY <1>4, <2>1, PositionTypes DEF NoAdvance, PositionInv, Restart
<1>5. CASE ~ClientStep /\ ~PushThrows /\ ~PullThrows /\ ~Crash /\ ~Restart
  <2>1. EngineIdles
    BY <1>5 DEF Next, Tick, CalmStep, ServerStep, ToolStep, CompactCheck, CompactDelete,
                RetryNext, AppStep, LocalWrite, HookStep, QueueWrite, OthersStep, DisturbedStep,
                QueueWriteFails, CompactPlan, RetryPlan, ClearCommitted, EngineIdles
  <2> QED BY <2>1, IdlesNoAdvance
<1> QED BY <1>1, <1>2, <1>3, <1>4, <1>5

-----------------------------------------------------------------------------
(* What the client has still to read. *)

\* The snapshot changes only when a cycle begins, but for changes that leave it.
SnapKept == \A k \in Key : snap'[k] \in {snap[k], NoChange}

Begins == BeginSync /\ UNCHANGED toolVars

LEMMA SnapStep ==
  ASSUME CoverInv, [Next]_vars, ~Begins
  PROVE  SnapKept
<1>0. snap \in [Key -> Local \cup {NoChange}]
  BY DEF CoverInv, TypeInv, TypeOK, EngineTypeOK
<1>1. CASE ApplyNext
  <2>1. UNCHANGED snap \/ snap' = NoSnapshot \/ snap' = [snap EXCEPT ![log[at + 1].key] = NoChange]
    BY <1>1 DEF ApplyNext, Fail, EndCycle, ForgetCycle
  <2> QED BY <1>0, <2>1 DEF SnapKept, NoSnapshot
<1>2. CASE UNCHANGED snap \/ snap' = NoSnapshot
  BY <1>2 DEF SnapKept, NoSnapshot
<1>3. CASE ClientStep /\ ~ApplyNext
  BY <1>2, <1>3
     DEF Begins, ClientStep, CycleStep, SelectBatch, ReceiveAnswer, NextList, SettleConflict,
         PullPage, ReadExisting, WriteRow, PageDone, SaveCursor, Purge, PullOverrun, WriteRaces, WriteInvalid,
         WriteThrows, MarkNext, RollbackNext, AcceptNext, CommitNow, Visited, RowMissing,
         ResolveNext, KeepLocal, TakeContent, ErrorNext, UnackedNext, Fail, Abort, EndCycle,
         ForgetCycle
<1>4. CASE ~ClientStep
  BY <1>2, <1>4
     DEF Next, Tick, CalmStep, ServerStep, ToolStep, CompactCheck, CompactDelete, RetryNext,
         AppStep, LocalWrite, HookStep, QueueWrite, OthersStep, Restart, DisturbedStep,
         PushThrows, PullThrows, WriteThrows, QueueWriteFails, CompactPlan,
         RetryPlan, ClearCommitted, Crash, Fail, Abort, EndCycle, ForgetCycle
<1> QED BY <1>1, <1>3, <1>4

\* A stored write is the last entry of the log, about its record only, and no
\* older than the snapshot.
LEMMA StoresToApply ==
  ASSUME KeptInv, NEW k \in Key, NEW w \in Write, NEW data \in Content, Stores(k, w, data)
  PROVE  /\ ToApply(k)'
         /\ records'[k].data = data
         /\ \A j \in Key \ {k} : records'[j] = records[j]
<1>0. CoverInv /\ ClockInv /\ ClientBehind
  BY DEF KeptInv, QueueInv
<1>1. /\ Len(log) \in Nat /\ Len(log') = Len(log) + 1
      /\ log'[Len(log) + 1].key = k /\ log'[Len(log) + 1].ts = ServerNow
  BY <1>0, StoresAppends
<1>2. Position' = Position /\ snap' = snap /\ change' = change
  BY DEF Stores, Position, Pulling
<1>3. PICK n \in Nat : n = Len(log) + 1
  BY <1>1
<1>4. ~IsReplay(snap[k], log[n])'
  <2> SUFFICES ASSUME snap[k] # NoChange PROVE ~(change[snap[k]].ts > ServerNow)
    BY <1>1, <1>2, <1>3 DEF IsReplay
  <2>1. snap[k] \in Entered /\ snap[k] \in Local
    BY <1>0 DEF CoverInv, InFlightIsEntered, Entered
  <2>2. change[snap[k]].ts \in Nat /\ change[snap[k]].ts <= ClientNow
    BY <1>0, <2>1, ChangeTypes DEF ClockInv, CoverInv
  <2>3. ClientNow \in Nat /\ ServerNow \in Nat /\ ClientNow <= ServerNow
    <3>1. clock \in Nat /\ ClientSkew \in Nat /\ ServerSkew \in Nat /\ ClientSkew <= ServerSkew
      BY <1>0, ConstantsAssumption DEF ClientBehind, CoverInv, TypeInv, TypeOK, BaseTypeOK
    <3> QED BY <3>1 DEF ClientNow, ServerNow
  <2> QED BY <2>2, <2>3
<1>5. ToApply(k)'
  BY <1>0, <1>1, <1>2, <1>3, <1>4, PositionTypes DEF ToApply
<1>6. records \in [Key -> [data : Content, at : Nat]]
  BY <1>0 DEF CoverInv, TypeInv, TypeOK, ServerTypeOK
<1>7. records' = [records EXCEPT ![k] =
                     [data |-> data, at |-> IF data = Absent THEN 0 ELSE ServerNow]]
  BY DEF Stores, Accept
<1> QED BY <1>5, <1>6, <1>7

\* The client neither advances nor takes a new snapshot.
Stays == Position' <= Position /\ SnapKept

LEMMA ToApplyKept ==
  ASSUME CoverInv, CoverInv', [Next]_vars, Stays, NEW k \in Key, ToApply(k)
  PROVE  ToApply(k)'
<1>1. PICK j \in 1..Len(log) : j > Position /\ log[j].key = k /\ ~IsReplay(snap[k], log[j])
  BY DEF ToApply
<1>2. LogKept /\ QueueKept
  BY NextKeepsHistory DEF HistoryKept
<1>3. Position \in Nat /\ Len(log) \in Nat
  BY PositionTypes
<1>4. Position' \in Nat /\ Len(log') \in Nat
  <2>1. at' \in Nat /\ saved' \in Nat /\ cursor' \in Nat /\ log' \in Seq(Entry)
    BY DEF CoverInv, TypeInv, TypeOK, EngineTypeOK, ServerTypeOK
  <2> QED BY <2>1 DEF Position
<1>5. j \in 1..Len(log') /\ log'[j] = log[j] /\ j > Position'
  BY <1>1, <1>2, <1>3, <1>4 DEF LogKept, Stays
<1>6. ~IsReplay(snap[k], log[j])'
  <2>1. CASE snap'[k] = NoChange
    BY <2>1 DEF IsReplay
  <2>2. CASE snap'[k] # NoChange
    <3>1. snap'[k] = snap[k] /\ snap[k] \in Entered
      BY <2>2 DEF Stays, SnapKept, CoverInv, InFlightIsEntered
    <3>2. change'[snap[k]] = change[snap[k]]
      BY <1>2, <3>1 DEF QueueKept
    <3> QED BY <1>1, <1>5, <3>1, <3>2 DEF IsReplay
  <2> QED BY <2>1, <2>2
<1> QED BY <1>1, <1>5, <1>6 DEF ToApply

\* What carries the server's content of a record, or will take up a newer one,
\* stays so as long as the client stays.
LEMMA UpToDateKept ==
  ASSUME KeptInv, CoverInv', [Next]_vars, Stays, NEW k \in Key,
         NEW data, UpToDate(k, data)
  PROVE  UpToDate(k, data)'
<1>0. CoverInv
  BY DEF KeptInv, QueueInv
<1>1. CASE ToApply(k)
  BY <1>0, <1>1, ToApplyKept DEF UpToDate
<1>2. CASE Carries(data, records[k].data) /\ UNCHANGED serverVars
  BY <1>2 DEF UpToDate, Carries
<1>3. ASSUME NEW j \in Key, NEW w \in Write, NEW d \in Content, Stores(j, w, d),
             Carries(data, records[k].data)
      PROVE  UpToDate(k, data)'
  <2>1. CASE k = j
    BY <1>3, <2>1, StoresToApply DEF UpToDate
  <2>2. CASE k # j
    <3>1. records'[k] = records[k]
      BY <1>3, <2>2, StoresToApply
    <3> QED BY <1>3, <3>1 DEF UpToDate, Carries
  <2> QED BY <2>1, <2>2
<1> QED BY <1>0, <1>1, <1>2, <1>3, LogStep DEF UpToDate

LEMMA RecordsNext ==
  ASSUME KeptInv, RecordsAreLast, [Next]_vars
  PROVE  RecordsAreLast'
<1>0. CoverInv
  BY DEF KeptInv, QueueInv
<1>1. CASE UNCHANGED serverVars
  BY <1>1 DEF RecordsAreLast
<1>2. ASSUME NEW k \in Key, NEW w \in Write, NEW data \in Content, Stores(k, w, data)
      PROVE  RecordsAreLast'
  <2> DEFINE n == Len(log) + 1
  <2>1. /\ Len(log) \in Nat /\ Len(log') = n
        /\ \A i \in 1..Len(log) : log'[i] = log[i]
        /\ log'[n].key = k /\ log'[n].data = data
    BY <1>0, <1>2, StoresAppends
  <2>2. SUFFICES ASSUME NEW i \in 1..Len(log'),
                        \A j \in 1..Len(log') : j > i => log'[j].key # log'[i].key
                 PROVE  records'[log'[i].key].data = log'[i].data
    BY DEF RecordsAreLast
  <2>3. CASE i = n
    BY <1>2, <2>1, <2>3, StoresToApply
  <2>4. CASE i # n
    <3>1. i \in 1..Len(log) /\ n \in 1..Len(log') /\ n > i /\ log'[i] = log[i]
      BY <2>1, <2>4
    <3>2. log[i].key # k /\ log[i].key \in Key
      BY <1>0, <2>1, <2>2, <3>1, LogTypes
    <3>3. \A j \in 1..Len(log) : j > i => log[j].key # log[i].key
      BY <2>1, <2>2, <3>1
    <3>4. records[log[i].key].data = log[i].data
      BY <3>1, <3>3 DEF RecordsAreLast
    <3>5. records'[log[i].key] = records[log[i].key]
      BY <1>2, <3>2, StoresToApply
    <3> QED BY <3>1, <3>4, <3>5
  <2> QED BY <2>3, <2>4
<1> QED BY <1>0, <1>1, <1>2, LogStep

-----------------------------------------------------------------------------
(* The changes the server has still to hear of. *)

\* A change that is lost stays lost.
LEMMA LostKept ==
  ASSUME CoverInv, [Next]_vars, SomeLost
  PROVE  SomeLost'
<1>0. PICK c \in Local : status[c] = "lost"
  BY DEF SomeLost, ByStatus
<1>1. status \in [Local -> Status]
  BY DEF CoverInv, TypeInv, TypeOK, QueueTypeOK
<1>2. status'[c] = "lost"
  <2>1. CASE ClientStep
    <3>1. CycleWrites
      BY <2>1, ClientStepWrites
    <3>2. ASSUME NEW d \in Local, HasRow(d), NEW s, status' = [status EXCEPT ![d] = s]
          PROVE  status'[c] = "lost"
      BY <1>0, <1>1, <3>2 DEF HasRow, Stored
    <3>3. ASSUME NEW d \in Local, Requeues(d) PROVE status'[c] = "lost"
      BY <3>2, <3>3 DEF Requeues, MarkPending, MarkSyncing, MarkFailed, MarkPendingWithRetries
    <3>4. ASSUME NEW d \in Local, HasRow(d), MarkCommitted(d) PROVE status'[c] = "lost"
      BY <3>2, <3>4 DEF MarkCommitted
    <3>5. CASE UNCHANGED queueVars \/ RemoveCommitted \/ UnmarkSyncing(batch \ todo)
      BY <1>0, <3>5 DEF UnmarkSyncing, RemoveCommitted, HasRow, Stored
    <3> QED BY <3>1, <3>3, <3>4, <3>5 DEF CycleWrites, Entered
  <2>2. CASE ToolStep \/ AppStep \/ HookStep \/ \E d \in Local : QueueWriteFails(d)
    BY <1>0, <1>1, <2>2
       DEF ToolStep, CompactCheck, CompactDelete, RetryNext, MarkPending, AppStep, LocalWrite,
           HookStep, QueueWrite, AppendRow, QueueWriteFails, HasRow, Stored
  <2>3. CASE ~ClientStep /\ ~ToolStep /\ ~AppStep /\ ~HookStep
             /\ ~\E d \in Local : QueueWriteFails(d)
    <3>1. UNCHANGED status \/ Recover \/ RemoveCommitted \/ Crash
      BY <2>3 DEF Next, Tick, CalmStep, ServerStep, OthersStep, Restart, DisturbedStep,
                  PushThrows, PullThrows, WriteThrows, CompactPlan, RetryPlan,
                  ClearCommitted
    <3> QED BY <1>0, <3>1 DEF Recover, RemoveCommitted, Crash
  <2> QED BY <2>1, <2>2, <2>3
<1> QED BY <1>0, <1>2 DEF SomeLost, ByStatus

\* One step takes a standing change to another status of the queue, commits it,
\* or loses it.
LEMMA StandingMoves ==
  ASSUME CoverInv, DoomedAreOutdone, [Next]_vars, NEW k \in Key, NEW d \in Standing(k)
  PROVE  /\ d \in Local /\ change'[d].key = k
         /\ status'[d] \in {"hooking", "pending", "syncing", "failed", "committed", "lost"}
<1>0. /\ d \in Local /\ d # victim /\ change[d].key = k
      /\ status[d] \in {"hooking", "pending", "syncing", "failed"}
      /\ status \in [Local -> Status] /\ change \in [Local -> Row]
  BY DEF Standing, Listed, CoverInv, TypeInv, TypeOK, QueueTypeOK
<1>1. CASE ClientStep
  <2>1. CycleWrites
    BY <1>1, ClientStepWrites
  <2>2. change' = change
    BY <2>1 DEF CycleWrites, Requeues, MarkPending, MarkSyncing, MarkFailed, MarkCommitted,
                MarkPendingWithRetries, UnmarkSyncing, RemoveCommitted
  <2>3. ASSUME NEW c \in Local, NEW s \in {"pending", "syncing", "failed", "committed"},
               status' = [status EXCEPT ![c] = s]
        PROVE  status'[d] \in {"hooking", "pending", "syncing", "failed", "committed"}
    BY <1>0, <2>3
  <2>4. ASSUME NEW c \in Local, Requeues(c)
        PROVE  status'[d] \in {"hooking", "pending", "syncing", "failed", "committed"}
    <3>1. \E s \in {"pending", "syncing", "failed", "committed"} :
              status' = [status EXCEPT ![c] = s]
      BY <2>4 DEF Requeues, MarkPending, MarkSyncing, MarkFailed, MarkPendingWithRetries
    <3> QED BY <2>3, <3>1
  <2>5. ASSUME NEW c \in Entered, MarkCommitted(c)
        PROVE  status'[d] \in {"hooking", "pending", "syncing", "failed", "committed"}
    BY <2>3, <2>5 DEF MarkCommitted, Entered
  <2>6. CASE UNCHANGED queueVars \/ RemoveCommitted \/ UnmarkSyncing(batch \ todo)
    BY <1>0, <2>6 DEF UnmarkSyncing, RemoveCommitted
  <2> QED BY <1>0, <2>1, <2>2, <2>4, <2>5, <2>6 DEF CycleWrites
<1>2. CASE CompactDelete
  BY <1>0, <1>2 DEF CompactDelete
<1>3. CASE AppStep
  BY <1>0, <1>3 DEF AppStep, LocalWrite
<1>4. CASE HookStep \/ \E c \in Local : QueueWriteFails(c)
  BY <1>0, <1>4 DEF HookStep, QueueWrite, AppendRow, QueueWriteFails, Row
<1>5. ASSUME NEW c \in Local, RetryNext(c)
      PROVE  /\ change' = change
             /\ status'[d] \in {"hooking", "pending", "syncing", "failed"}
  BY <1>0, <1>5 DEF RetryNext, MarkPending
<1>6. CASE ~ClientStep /\ ~ToolStep /\ ~AppStep /\ ~HookStep
           /\ ~\E c \in Local : QueueWriteFails(c)
  <2>1. /\ UNCHANGED status \/ Recover \/ RemoveCommitted \/ Crash
        /\ change' = change
    BY <1>6 DEF Next, Tick, CalmStep, ServerStep, OthersStep, Restart, Recover, DisturbedStep,
                PushThrows, PullThrows, WriteThrows, CompactPlan, RetryPlan,
                ClearCommitted, RemoveCommitted, Crash
  <2> QED BY <1>0, <2>1 DEF Recover, RemoveCommitted, Crash
<1>7. CASE \E c \in Local : CompactCheck(c)
  BY <1>0, <1>7 DEF CompactCheck
<1> QED BY <1>0, <1>1, <1>2, <1>3, <1>4, <1>5, <1>6, <1>7 DEF ToolStep

\* A standing change that is not committed leaves one standing, another one if
\* compaction lists it now, or is lost.
LEMMA StandsOn ==
  ASSUME QueueInv, [Next]_vars, NEW k \in Key, NEW x, NEW d \in Standing(k) \ {x},
         status'[d] # "committed", CompactPlan => x \notin Queued
  PROVE  SomeLost' \/ Standing(k)' \ {x} # {}
<1>0. CoverInv /\ DoomedAreOutdone /\ NoChange \notin Local
  BY ConstantsAssumption DEF QueueInv
<1>1. /\ d \in Local /\ change'[d].key = k
      /\ status'[d] \in {"hooking", "pending", "syncing", "failed", "lost"}
  BY <1>0, StandingMoves
<1>2. CASE status'[d] = "lost"
  BY <1>1, <1>2 DEF SomeLost, ByStatus
<1>3. CASE status'[d] # "lost" /\ d \notin Listed'
  BY <1>1, <1>3 DEF Standing
<1>4. CASE d \in Listed'
  <2>1. CompactPlan /\ doomed = {} /\ victim' = NoChange /\ UNCHANGED queueVars
    BY <1>0, <1>1, <1>4, PlannedOnly DEF Standing, Listed, CompactPlan
  <2>2. d \in doomed'
    BY <1>0, <1>1, <1>4, <2>1 DEF Listed
  <2>3. PICK e \in Queued \ doomed' : change[e].key = change[d].key
    BY <1>0, <2>1, <2>2, PlanDooms
  <2>4. e \in Local /\ status'[e] \in {"pending", "failed"} /\ change'[e].key = k /\ e # x
    BY <1>1, <2>1, <2>3 DEF Queued, ByStatus
  <2>5. e \notin Listed'
    BY <1>0, <2>1, <2>3, <2>4 DEF Listed
  <2> QED BY <2>4, <2>5 DEF Standing
<1> QED BY <1>1, <1>2, <1>3, <1>4

-----------------------------------------------------------------------------
(* Commits. *)

\* The built-in strategies keep the local side, or take the remote one.
BuiltIn == Strategy # "custom"

LEMMA BuiltInResolves ==
  ASSUME BuiltIn, NEW c
  PROVE  Resolutions(c) \subseteq {"local", "remote"}
  BY DEF BuiltIn, Resolutions, Lww

LEMMA BuiltInSteps ==
  ASSUME BuiltIn, NEW c \in Local, ResolveNext(c)
  PROVE  /\ pc = "conflicts" /\ c \in todo
         /\ KeepLocal(c) \/ TakeContent(c, answer[c].data)
  BY BuiltInResolves DEF ResolveNext

\* Only the engine commits a change: what was accepted, what lost its conflict,
\* and what the next entry of the log outran.
LEMMA NewlyCommitted ==
  ASSUME CoverInv, BuiltIn, [Next]_vars, NEW d \in Local,
         status[d] # "committed", status'[d] = "committed"
  PROVE  \/ AcceptNext(d)
         \/ SettleConflict /\ d = remote.cause
         \/ ApplyNext /\ d = snap[log[at + 1].key] /\ UNCHANGED <<rows, pullVars>>
<1>0. status \in [Local -> Status] /\ status' # status
  BY DEF CoverInv, TypeInv, TypeOK, QueueTypeOK
<1>1. ASSUME NEW c, MarkCommitted(c) PROVE c = d
  BY <1>0, <1>1 DEF MarkCommitted
<1>2. ASSUME NEW c, \/ MarkPending(c) \/ MarkSyncing(c) \/ MarkFailed(c)
                    \/ \E n : MarkPendingWithRetries(c, n)
      PROVE  FALSE
  BY <1>0, <1>2 DEF MarkPending, MarkSyncing, MarkFailed, MarkPendingWithRetries
<1>3. CASE ~ClientStep
  BY <1>0, <1>2, <1>3
     DEF Next, Tick, CalmStep, ServerStep, ToolStep, CompactCheck, CompactDelete, RetryNext,
         AppStep, LocalWrite, HookStep, QueueWrite, AppendRow, OthersStep, Restart, Recover,
         DisturbedStep, PushThrows, PullThrows, WriteThrows, QueueWriteFails,
         CompactPlan, RetryPlan, ClearCommitted, RemoveCommitted, Crash
<1>4. CASE BeginSync \/ SelectBatch \/ ReceiveAnswer \/ NextList \/ PullPage \/ ReadExisting
           \/ WriteRow \/ PageDone \/ SaveCursor \/ Purge \/ PullOverrun \/ WriteRaces \/ WriteInvalid
  BY <1>0, <1>4
     DEF BeginSync, SelectBatch, ReceiveAnswer, NextList, PullPage, ReadExisting, WriteRow,
         PageDone, SaveCursor, Purge, RemoveCommitted, PullOverrun, WriteRaces, WriteInvalid, WriteThrows
<1>5. CASE SettleConflict
  BY <1>0, <1>1, <1>5 DEF SettleConflict, RowMissing
<1>6. CASE ApplyNext
  <2>1. MarkCommitted(snap[log[at + 1].key]) /\ UNCHANGED <<rows, pullVars>>
    BY <1>0, <1>6 DEF ApplyNext
  <2> QED BY <1>1, <1>6, <2>1
<1>7. ASSUME NEW c \in Local,
             MarkNext(c) \/ RollbackNext(c) \/ ErrorNext(c) \/ UnackedNext(c)
      PROVE  FALSE
  <2>1. UnmarkSyncing(batch \ todo)
    BY <1>0, <1>2, <1>7
       DEF MarkNext, RollbackNext, ErrorNext, UnackedNext, RowMissing
  <2> QED BY <1>0, <2>1 DEF UnmarkSyncing
<1>8. ASSUME NEW c \in Local, AcceptNext(c) PROVE AcceptNext(d)
  BY <1>0, <1>1, <1>8 DEF AcceptNext, CommitNow, RowMissing
<1>9. ASSUME NEW c \in Local, ResolveNext(c) PROVE FALSE
  BY <1>0, <1>2, <1>9, BuiltInSteps DEF KeepLocal, TakeContent, RowMissing
<1> QED BY <1>3, <1>4, <1>5, <1>6, <1>7, <1>8, <1>9 DEF ClientStep, CycleStep

\* Agreement about a record, whatever the change x does.
Settled(k, data, x) == UpToDate(k, data) \/ SomeLost \/ Standing(k) \ {x} # {}

\* A step that does not advance, and commits no standing change but x.
LEMMA SettledKept ==
  ASSUME KeptInv, QueueInv', [Next]_vars, Stays, NEW k \in Key, NEW data,
         NEW x, Settled(k, data, x), CompactPlan => x \notin Queued,
         \A d \in Standing(k) \ {x} : status'[d] # "committed"
  PROVE  UpToDate(k, data)' \/ SomeLost' \/ Standing(k)' \ {x} # {}
<1>0. QueueInv /\ CoverInv /\ CoverInv'
  BY DEF KeptInv, QueueInv
<1>1. CASE UpToDate(k, data)
  BY <1>0, <1>1, UpToDateKept
<1>2. CASE SomeLost
  BY <1>0, <1>2, LostKept
<1>3. CASE Standing(k) \ {x} # {}
  BY <1>0, <1>3, StandsOn
<1> QED BY <1>1, <1>2, <1>3 DEF Settled

-----------------------------------------------------------------------------
(* Every record will agree. *)

\* The parts of the inductive invariant that the next lemmas use.
LEMMA AgreeParts ==
  ASSUME AgreeInv
  PROVE  /\ QueueInv /\ CoverInv /\ BuiltIn /\ KeptInv /\ PositionInv /\ DoomedAreOutdone
         /\ NoChange \notin Local
  BY ConstantsAssumption DEF AgreeInv, Agreeable, NewestWins, BuiltIn, KeptInv, QueueInv

\* Only the application and the engine write records.
LEMMA RowsStep ==
  ASSUME [Next]_vars
  PROVE  UNCHANGED rows \/ AppStep \/ WriteRow
<1>1. CASE ClientStep
  BY <1>1
     DEF ClientStep, CycleStep, BeginSync, SelectBatch, ReceiveAnswer, NextList, SettleConflict,
         PullPage, ApplyNext, ReadExisting, PageDone, SaveCursor, Purge, PullOverrun,
         WriteRaces, WriteInvalid, WriteThrows, MarkNext, RollbackNext, AcceptNext, CommitNow, Visited,
         RowMissing, ResolveNext, KeepLocal, TakeContent, ErrorNext, UnackedNext
<1>2. CASE ~ClientStep
  BY <1>2
     DEF Next, Tick, CalmStep, ServerStep, ToolStep, CompactCheck, CompactDelete, RetryNext,
         HookStep, QueueWrite, OthersStep, Restart, DisturbedStep, PushThrows, PullThrows,
         WriteThrows, QueueWriteFails, CompactPlan, RetryPlan, ClearCommitted,
         Crash
<1> QED BY <1>1, <1>2

\* A local write makes its own change stand.
LEMMA WriteStands ==
  ASSUME CoverInv, DoomedAreOutdone, NEW c \in Local, NEW k \in Key, NEW type \in ChangeType,
         LocalWrite(c, k, type)
  PROVE  c \in Standing(k)' /\ c \notin Entered /\ UNCHANGED <<serverVars, wireVars>>
<1>1. status'[c] = "hooking" /\ change'[c].key = k /\ status[c] = "unborn"
  BY DEF LocalWrite, CoverInv, TypeInv, TypeOK, QueueTypeOK
<1>2. c \notin Listed'
  BY <1>1, ConstantsAssumption DEF LocalWrite, Listed, DoomedAreOutdone, Entered
<1> QED BY <1>1, <1>2 DEF Standing, Entered, LocalWrite

\* The client goes past an entry: what it is to apply of the other records, and of
\* this one if it skips the entry, is left.
LEMMA OthersToApply ==
  ASSUME CoverInv, Position = at, Position' = at + 1,
         UNCHANGED <<log, snap, change>>, at + 1 \in 1..Len(log), NEW k,
         k # log[at + 1].key \/ IsReplay(snap[k], log[at + 1]), ToApply(k)
  PROVE  ToApply(k)'
<1>1. PICK j \in 1..Len(log) : j > at /\ log[j].key = k /\ ~IsReplay(snap[k], log[j])
  BY DEF ToApply
<1>2. j # at + 1 /\ at \in Nat
  BY <1>1, PositionTypes
<1>3. j > at + 1
  BY <1>1, <1>2
<1>4. ~IsReplay(snap[k], log[j])'
  BY <1>1 DEF IsReplay
<1> QED BY <1>1, <1>3, <1>4 DEF ToApply

\* The client writes the next entry, or skips it: then it does not wait for it.
LEMMA AdvanceAgrees ==
  ASSUME AgreeInv, CoverInv', [Next]_vars, Writes \/ Passes,
         Position = at, Position' = at + 1, NEW k \in Key
  PROVE  UpToDate(k, rows[k])' \/ SomeLost' \/ Standing(k)' # {}
<1> DEFINE e == log[at + 1]
<1>0. CoverInv /\ KeptInv /\ (UpToDate(k, rows[k]) \/ SomeLost \/ Standing(k) # {})
  BY AgreeParts DEF AgreeInv, WillAgree
<1>1. /\ at + 1 \in 1..Len(log) /\ at \in Nat
      /\ UNCHANGED <<snap, queueVars, serverVars, toolVars>>
  <2>1. at < upto /\ upto <= Len(log) /\ at \in Nat /\ upto \in Nat /\ Len(log) \in Nat
    BY <1>0, PositionTypes DEF Writes, Passes, ApplyNext, CoverInv, TypeInv, PageOK
  <2>2. CASE Writes
    <3>1. at' # at /\ at' # 0
      BY <2>1, <2>2 DEF Writes, WriteRow, Applied
    <3>2. UNCHANGED toolVars
      BY <3>1 DEF Next, Tick, CalmStep, ClientStep, ServerStep, ToolStep, CompactCheck,
                  CompactDelete, RetryNext, AppStep, LocalWrite, HookStep, QueueWrite,
                  OthersStep, Restart, DisturbedStep, QueueWriteFails, CompactPlan, RetryPlan,
                  ClearCommitted, Crash, ForgetCycle
    <3> QED BY <2>1, <2>2, <3>2 DEF Writes, WriteRow
  <2>3. CASE Passes
    BY <1>0, <2>1, <2>3, SkipIsReplay DEF Passes
  <2> QED BY <2>2, <2>3
<1>2. CASE SomeLost
  BY <1>1, <1>2 DEF SomeLost, ByStatus
<1>3. CASE Standing(k) # {}
  BY <1>1, <1>3 DEF Standing, Listed
<1>4. CASE UpToDate(k, rows[k]) /\ (k # e.key \/ Passes)
  <2>0. k # e.key \/ IsReplay(snap[k], e)
    BY <1>0, <1>4, SkipIsReplay DEF Passes
  <2>1. rows'[k] = rows[k]
    <3>1. CASE Writes /\ k # e.key
      <4>1. remote.key = e.key
        BY <3>1 DEF Writes, AgreeInv, RemoteIsFresh
      <4> QED BY <3>1, <4>1 DEF Writes, WriteRow, CoverInv, TypeInv, TypeOK, EngineTypeOK
    <3>2. CASE Passes
      BY <1>0, <3>2, SkipIsReplay DEF Passes
    <3> QED BY <1>4, <3>1, <3>2
  <2>2. CASE ToApply(k)
    BY <1>0, <1>1, <2>0, <2>2, OthersToApply DEF UpToDate
  <2>3. CASE Carries(rows[k], records[k].data)
    BY <1>1, <2>1, <2>3 DEF UpToDate, Carries
  <2> QED BY <1>4, <2>2, <2>3 DEF UpToDate
<1>5. CASE Writes /\ k = e.key
  <2>1. /\ remote.key = k /\ remote.data = e.data /\ pc = "write"
        /\ snap[k] = NoChange /\ rows \in [Key -> Content]
    BY <1>5, AgreeParts
       DEF Writes, AgreeInv, RemoteIsFresh, CoverInv, TypeInv, TypeOK, EngineTypeOK
  <2>2. CASE \E j \in 1..Len(log) : j > at + 1 /\ log[j].key = k
    BY <1>1, <2>1, <2>2 DEF ToApply, UpToDate, IsReplay
  <2>3. CASE ~\E j \in 1..Len(log) : j > at + 1 /\ log[j].key = k
    <3>1. records'[k].data = e.data
      BY <1>1, <1>5, <2>3 DEF AgreeInv, RecordsAreLast
    <3>2. CASE remote.data = Absent /\ ~existing
      <4>1. rows[k] = Absent \/ SomeLost \/ Standing(k) # {}
        BY <2>1, <3>2 DEF AgreeInv, RemoteIsFresh
      <4>2. rows'[k] = rows[k]
        BY <1>5, <2>1, <3>2 DEF Writes, WriteRow, Outcome
      <4> QED BY <1>2, <1>3, <2>1, <3>1, <3>2, <4>1, <4>2 DEF UpToDate, Carries
    <3>3. CASE remote.data = Absent /\ existing
      <4>1. rows'[k] = Absent
        BY <1>5, <2>1, <3>3 DEF Writes, WriteRow, Outcome
      <4> QED BY <2>1, <3>1, <3>3, <4>1 DEF UpToDate, Carries
    <3>4. CASE remote.data # Absent
      <4>1. rows'[k] = Merge(rows[k], e.data)
        BY <1>5, <2>1, <3>4 DEF Writes, WriteRow, Outcome
      <4>2. e.data \in Content
        BY <1>0, <1>1, LogTypes
      <4>3. Carries(Merge(rows[k], e.data), e.data)
        BY <2>1, <3>4, <4>2, CarriesMerged
      <4>4. Carries(rows'[k], records'[k].data)
        BY <3>1, <4>1, <4>3
      <4> QED BY <4>4 DEF UpToDate, Carries
    <3> QED BY <3>2, <3>3, <3>4
  <2> QED BY <2>2, <2>3
<1> QED BY <1>0, <1>2, <1>3, <1>4, <1>5

\* A commit of a standing change: the server's entry about it is unread, or what
\* the engine wrote in its place agrees.
LEMMA CommitAgrees ==
  ASSUME AgreeInv, QueueInv', [Next]_vars, Stays, NEW k \in Key,
         rows'[k] = rows[k], NEW d \in Standing(k), status'[d] = "committed"
  PROVE  UpToDate(k, rows[k])' \/ SomeLost' \/ Standing(k)' # {}
<1>0. /\ CoverInv /\ CoverInv' /\ BuiltIn /\ KeptInv
      /\ d \in Local /\ change[d].key = k /\ status[d] # "committed"
  BY AgreeParts DEF QueueInv, Standing
<1>1. CASE ToApply(k)
  BY <1>0, <1>1, ToApplyKept DEF UpToDate
<1>2. CASE AcceptNext(d)
  <2>1. pc = "accepted" /\ answer[d].kind = "accepted" /\ ~Pulling
    BY <1>0, <1>2 DEF AcceptNext, CoverInv, ListIsAnswered, Answered, Pulling
  <2> QED BY <1>0, <1>1, <2>1 DEF AgreeInv, AnswersAreFresh
<1>3. CASE SettleConflict /\ d = remote.cause
  <2>1. pc = "settle" /\ remote.key = k
    BY <1>0, <1>3, AgreeParts DEF SettleConflict, AgreeInv, RemoteIsFresh, Resolving
  <2>2. Settled(k, rows[k], d)
    BY <1>3, <2>1 DEF AgreeInv, RemoteIsFresh, Settled
  <2>3. ~CompactPlan
    BY <1>0 DEF CompactPlan
  <2>4. \A c \in Standing(k) \ {d} : status'[c] # "committed"
    <3> SUFFICES ASSUME NEW c \in Standing(k) \ {d}, status'[c] = "committed" PROVE FALSE
      OBVIOUS
    <3>1. c \in Local /\ status[c] # "committed"
      BY DEF Standing
    <3> QED
      BY <1>0, <1>3, <2>1, <3>1, NewlyCommitted DEF AcceptNext, ApplyNext
  <2>5. PICK data : data = rows[k]
    OBVIOUS
  <2>6. UpToDate(k, data)' \/ SomeLost' \/ Standing(k)' \ {d} # {}
    BY <1>0, <2>2, <2>3, <2>4, <2>5, SettledKept
  <2> QED BY <2>5, <2>6 DEF UpToDate
<1>4. CASE ApplyNext /\ d = snap[log[at + 1].key]
  <2>1. at + 1 \in 1..Len(log) /\ at \in Nat
    BY <1>0, <1>4, PositionTypes DEF ApplyNext
  <2>2. log[at + 1].key \in Key /\ d # NoChange
    BY <1>0, <2>1, LogTypes, AgreeParts
  <2>3. log[at + 1].key = k
    BY <1>0, <1>4, <2>2 DEF CoverInv, SnapshotMatches
  <2>4. Position = at
    BY <1>4 DEF ApplyNext, Position, Pulling
  <2>5. ~IsReplay(snap[k], log[at + 1])
    BY <1>0, <1>4, <2>3 DEF ApplyNext
  <2> QED BY <1>1, <2>1, <2>3, <2>4, <2>5 DEF ToApply
<1> QED BY <1>0, <1>2, <1>3, <1>4, NewlyCommitted

\* A cycle begins: what its snapshot makes a replay, the server has still to hear
\* something newer about, or has heard of it.
LEMMA BeginAgrees ==
  ASSUME AgreeInv, Begins, NEW k \in Key
  PROVE  UpToDate(k, rows[k])' \/ SomeLost' \/ Standing(k)' # {}
<1>0. CoverInv /\ KeptInv /\ (UpToDate(k, rows[k]) \/ SomeLost \/ Standing(k) # {})
  BY AgreeParts DEF AgreeInv, WillAgree
<1>1. /\ UNCHANGED <<rows, at, cursorVars, queueVars, serverVars>>
      /\ pc = "idle" /\ pc' = "select" /\ snap' \in Snapshots /\ UNCHANGED toolVars
  BY DEF Begins, BeginSync
<1>2. Position' = Position
  BY <1>1 DEF Position, Pulling
<1>3. Standing(k)' = Standing(k) /\ SomeLost' = SomeLost
  BY <1>1 DEF Standing, Listed, SomeLost, ByStatus
<1>4. CASE Carries(rows[k], records[k].data)
  BY <1>1, <1>4 DEF UpToDate, Carries
<1>5. CASE ToApply(k)
  <2> DEFINE p == snap'[k]
  <2>1. PICK i \in 1..Len(log) : i > Position /\ log[i].key = k
    BY <1>5 DEF ToApply
  <2>2. CASE p = NoChange \/ ~(change[p].ts > log[i].ts)
    <3>1. ~IsReplay(snap[k], log[i])'
      BY <1>1, <2>2 DEF IsReplay
    <3> QED BY <1>1, <1>2, <2>1, <3>1 DEF ToApply, UpToDate
  <2>3. CASE p # NoChange /\ change[p].ts > log[i].ts
    <3>1. p \in Queued /\ change[p].key = k
      BY <1>1, <2>3 DEF Snapshots, OldestIn, QueuedFor
    <3>2. p \in Entered /\ p \in Local /\ status[p] \in {"pending", "failed"}
      BY <3>1 DEF Queued, ByStatus, Entered
    <3>3. CASE "compact" \notin Disturbances
      <4>1. p \notin Listed
        BY <2>3, <3>3 DEF AgreeInv, NothingListed, Listed
      <4> QED BY <1>3, <3>1, <3>2, <4>1 DEF Standing
    <3>4. CASE NewestWins
      <4>1. CASE \E d \in Local : Wanted(d) /\ change[d].key = k
        BY <1>3, <4>1 DEF Wanted, Standing
      <4>2. CASE \E j \in 1..Len(log) : log[j].key = k /\ log[j].ts >= change[p].ts
        <5>1. PICK j \in 1..Len(log) : log[j].key = k /\ log[j].ts >= change[p].ts
          BY <4>2
        <5>2. /\ log[i].ts \in Nat /\ log[j].ts \in Nat /\ change[p].ts \in Nat
              /\ Len(log) \in Nat /\ Position \in Nat
          BY <1>0, <3>2, LogTypes, ChangeTypes, PositionTypes DEF CoverInv
        <5>3. log[j].ts > log[i].ts
          BY <2>3, <5>1, <5>2
        <5>4. j > Position
          BY <1>0, <2>1, <5>2, <5>3, NewerIsLater
        <5>5. ~IsReplay(snap[k], log[j])'
          BY <1>1, <5>1, <5>2 DEF IsReplay
        <5> QED BY <1>1, <1>2, <5>1, <5>4, <5>5 DEF ToApply, UpToDate
      <4> QED BY <1>0, <3>1, <3>2, <3>4, <4>1, <4>2, WantedOrLogged
    <3> QED BY <3>3, <3>4 DEF AgreeInv, Agreeable
  <2> QED BY <2>2, <2>3
<1> QED BY <1>0, <1>3, <1>4, <1>5 DEF UpToDate

\* The engine writes the outcome of a conflict: the record carries it.
LEMMA OutcomeIsUpToDate ==
  ASSUME CoverInv, RemoteIsFresh, WriteRow, remote.cause # NoChange
  PROVE  /\ remote.key \in Key
         /\ \E data \in Content : /\ rows' = [rows EXCEPT ![remote.key] = data]
                                 /\ UpToDate(remote.key, data)
<1>1. /\ remote.key \in Key /\ remote.data \in Content /\ rows \in [Key -> Content]
  BY DEF CoverInv, TypeInv, TypeOK, EngineTypeOK
<1>2. remote.data # Absent /\ UpToDate(remote.key, remote.data)
  BY DEF RemoteIsFresh, Resolving, WriteRow
<1> DEFINE data == Merge(rows[remote.key], remote.data)
<1>3. data \in Content /\ Carries(data, remote.data)
  BY <1>1, <1>2, CarriesMerged
<1>4. UpToDate(remote.key, data)
  BY <1>2, <1>3, CarriesThrough DEF UpToDate
<1>5. rows' = [rows EXCEPT ![remote.key] = data]
  BY <1>2 DEF WriteRow, Outcome
<1> QED BY <1>1, <1>3, <1>4, <1>5

LEMMA WillAgreeNext ==
  ASSUME AgreeInv, QueueInv', [Next]_vars
  PROVE  WillAgree'
<1>0. CoverInv /\ CoverInv' /\ KeptInv /\ PositionInv /\ DoomedAreOutdone
  BY AgreeParts DEF QueueInv
<1> SUFFICES ASSUME NEW k \in Key
             PROVE  UpToDate(k, rows[k])' \/ SomeLost' \/ Standing(k)' # {}
  BY DEF WillAgree
<1>1. CASE (Writes \/ Passes) /\ Position = at /\ Position' = at + 1
  BY <1>0, <1>1, AdvanceAgrees
<1>2. CASE Stays /\ rows'[k] = rows[k]
  <2>1. CASE \E d \in Standing(k) : status'[d] = "committed"
    BY <1>2, <2>1, CommitAgrees
  <2>2. CASE \A d \in Standing(k) : status'[d] # "committed"
    <3>1. PICK data : data = rows[k]
      OBVIOUS
    <3>2. Settled(k, data, NoChange) /\ NoChange \notin Queued
      BY <3>1, AgreeParts DEF AgreeInv, WillAgree, Settled, Standing, Queued, ByStatus
    <3>3. UpToDate(k, data)' \/ SomeLost' \/ Standing(k)' \ {NoChange} # {}
      BY <1>0, <1>2, <2>2, <3>2, SettledKept
    <3> QED BY <1>2, <3>1, <3>3 DEF UpToDate
  <2> QED BY <2>1, <2>2
<1>3. CASE Stays /\ rows'[k] # rows[k]
  <2>1. CASE AppStep
    <3>1. PICK c \in Local, j \in Key, type \in ChangeType : LocalWrite(c, j, type)
      BY <2>1 DEF AppStep
    <3>2. j = k
      BY <1>0, <1>3, <3>1 DEF LocalWrite, CoverInv, TypeInv, TypeOK, EngineTypeOK
    <3> QED BY <1>0, <3>1, <3>2, WriteStands
  <2>2. CASE WriteRow
    <3>1. remote.cause # NoChange
      <4>1. at \in Nat
        BY <1>0, PositionTypes
      <4> QED BY <1>3, <2>2, <4>1 DEF Stays, WriteRow, Applied, Position, Pulling
    <3>2. PICK data \in Content : /\ rows' = [rows EXCEPT ![remote.key] = data]
                                  /\ UpToDate(remote.key, data)
      BY <1>0, <2>2, <3>1, OutcomeIsUpToDate DEF AgreeInv
    <3>3. k = remote.key /\ rows'[k] = data
      BY <1>0, <1>3, <3>2 DEF CoverInv, TypeInv, TypeOK, EngineTypeOK
    <3>4. UpToDate(k, data)'
      BY <1>0, <1>3, <3>2, <3>3, UpToDateKept
    <3> QED BY <3>3, <3>4 DEF UpToDate
  <2> QED BY <1>3, <2>1, <2>2, RowsStep
<1>4. CASE Begins
  BY <1>4, BeginAgrees
<1> QED BY <1>0, <1>1, <1>2, <1>3, <1>4, PositionStep, SnapStep DEF NoAdvance, Stays

-----------------------------------------------------------------------------
(* The answers of the server. *)

LEMMA AnswerStep ==
  ASSUME CoverInv, [Next]_vars, NEW c \in Local
  PROVE  \/ answer'[c] = answer[c] \/ answer'[c].kind \in {"none", "error"}
         \/ Serve(c) /\ UNCHANGED <<queueVars, engineVars, toolVars, clock>>
<1>0. answer \in [Local -> Answer] /\ AllUnanswered[c].kind = "none"
  BY DEF CoverInv, TypeInv, TypeOK, ServerTypeOK, AllUnanswered, NoAnswer
<1>1. CASE answer' = answer \/ answer' = AllUnanswered
  BY <1>0, <1>1
<1>2. ASSUME NEW d \in Local, Serve(d) \/ ServeLate(d)
      PROVE  answer'[c] = answer[c] \/ Serve(c)
  BY <1>0, <1>2 DEF Serve, ServeLate
<1>3. ASSUME NEW d \in Local, Refuse(d) \/ Ignore(d)
      PROVE  answer'[c] = answer[c] \/ answer'[c].kind = "error"
  BY <1>0, <1>3 DEF Refuse, Ignore, Answer
<1>4. CASE ClientStep
  BY <1>1, <1>4
     DEF ClientStep, CycleStep, BeginSync, SelectBatch, ReceiveAnswer, NextList, SettleConflict,
         PullPage, ApplyNext, ReadExisting, WriteRow, PageDone, SaveCursor, Purge, PullOverrun,
         WriteRaces, WriteInvalid, WriteThrows, MarkNext, RollbackNext, AcceptNext, CommitNow, Visited,
         RowMissing, ResolveNext, KeepLocal, TakeContent, ErrorNext, UnackedNext,
         Fail, Abort, EndCycle, ForgetCycle
<1>5. CASE ~ClientStep /\ ~ServerStep /\ ~\E d \in Local : Refuse(d) \/ Ignore(d)
  BY <1>1, <1>5
     DEF Next, Tick, CalmStep, ToolStep, CompactCheck, CompactDelete, RetryNext, AppStep,
         LocalWrite, HookStep, QueueWrite, OthersStep, RemoteWrite, Restart, DisturbedStep,
         PushThrows, PullThrows, WriteThrows, QueueWriteFails, CompactPlan,
         RetryPlan, ClearCommitted, Crash, Fail, Abort, EndCycle, ForgetCycle
<1>6. UNCHANGED clock \/ UNCHANGED answer
  BY DEF Next, Tick
<1> QED BY <1>1, <1>2, <1>3, <1>4, <1>5, <1>6 DEF ServerStep

\* The phases of a cycle before the pull.
BeforePull == ~Pulling /\ pc \notin {"save", "purge"}

\* The answers of a cycle are forgotten when its pull ends.
LEMMA BeforePullStep ==
  ASSUME [Next]_vars, BeforePull'
  PROVE  BeforePull \/ answer' = AllUnanswered
<1>1. CASE ClientStep
  <2>1. CASE PullPage \/ ApplyNext \/ ReadExisting \/ WriteRow \/ PageDone \/ SaveCursor
    BY <2>1
       DEF PullPage, ApplyNext, StartApply, ReadExisting, WriteRow, Applied, PageDone,
           SaveCursor, Fail, EndCycle, ForgetCycle, BeforePull, Pulling
  <2>2. CASE Purge \/ PullOverrun \/ WriteRaces \/ WriteInvalid
    BY <2>2 DEF Purge, PullOverrun, WriteRaces, WriteInvalid, WriteThrows, Fail, Abort, EndCycle, ForgetCycle
  <2>3. CASE BeginSync \/ SelectBatch \/ ReceiveAnswer \/ NextList \/ SettleConflict
             \/ \E c \in Local : \/ MarkNext(c) \/ RollbackNext(c) \/ AcceptNext(c)
                                 \/ ResolveNext(c) \/ ErrorNext(c) \/ UnackedNext(c)
    BY <2>3
       DEF BeginSync, SelectBatch, ReceiveAnswer, NextList, SettleConflict, MarkNext,
           RollbackNext, AcceptNext, ResolveNext, ErrorNext, UnackedNext, BeforePull, Pulling
  <2> QED BY <1>1, <2>1, <2>2, <2>3 DEF ClientStep, CycleStep
<1>2. CASE PushThrows \/ PullThrows \/ Crash \/ Restart
  BY <1>2 DEF PushThrows, PullThrows, WriteThrows, Crash, Restart, Fail, Abort,
              EndCycle, ForgetCycle, BeforePull, Pulling
<1>3. CASE ~ClientStep /\ ~PushThrows /\ ~PullThrows /\ ~Crash /\ ~Restart
  <2>1. UNCHANGED <<pc, remote>>
    BY <1>3 DEF Next, Tick, CalmStep, ServerStep, ToolStep, CompactCheck, CompactDelete,
                RetryNext, AppStep, LocalWrite, HookStep, QueueWrite, OthersStep, DisturbedStep,
                QueueWriteFails, CompactPlan, RetryPlan, ClearCommitted
  <2> QED BY <2>1 DEF BeforePull, Pulling
<1> QED BY <1>1, <1>2, <1>3

\* What AnswersAreFresh says of one change.
AnswerIsFresh(c) ==
    /\ answer[c].kind = "accepted" => ToApply(change[c].key)
    /\ answer[c].kind = "conflict" =>
          answer[c].data # Absent /\ UpToDate(change[c].key, answer[c].data)

LEMMA FreshAnswerKept ==
  ASSUME KeptInv, CoverInv', [Next]_vars, Stays, NEW c \in Local,
         AnswerIsFresh(c), answer'[c] = answer[c]
  PROVE  AnswerIsFresh(c)'
<1>0. CoverInv
  BY DEF KeptInv, QueueInv
<1>1. CASE answer[c].kind \in {"accepted", "conflict"}
  <2>1. c \in Entered /\ change'[c] = change[c] /\ change[c].key \in Key
    BY <1>0, <1>1, NextKeepsHistory, ChangeTypes
       DEF HistoryKept, QueueKept, CoverInv, InFlightIsEntered
  <2>2. PICK k \in Key, data \in Content : k = change[c].key /\ data = answer[c].data
    BY <1>0, <2>1 DEF CoverInv, TypeInv, TypeOK, ServerTypeOK, Answer
  <2>3. ToApply(k) => ToApply(k)'
    BY <1>0, ToApplyKept
  <2>4. UpToDate(k, data) => UpToDate(k, data)'
    BY UpToDateKept
  <2>5. (ToApply(change[c].key))' <=> ToApply(k)'
    BY <2>1, <2>2 DEF ToApply
  <2>6. (UpToDate(change[c].key, answer[c].data))' <=> UpToDate(k, data)'
    BY <2>1, <2>2 DEF UpToDate, ToApply
  <2> QED BY <2>2, <2>3, <2>4, <2>5, <2>6 DEF AnswerIsFresh
<1>2. CASE answer[c].kind \notin {"accepted", "conflict"}
  BY <1>2 DEF AnswerIsFresh
<1> QED BY <1>1, <1>2

LEMMA ServedIsFresh ==
  ASSUME KeptInv, NEW c \in Local, Serve(c), UNCHANGED <<queueVars, engineVars, toolVars, clock>>
  PROVE  AnswerIsFresh(c)'
<1>0. /\ c \in Entered /\ change[c].key \in Key /\ c \in Write /\ DataOf(c) \in Content
      /\ answer \in [Local -> Answer]
  BY ChangeTypes
     DEF Serve, OldestIn, KeptInv, QueueInv, CoverInv, InFlightIsEntered, TypeInv, TypeOK,
         ServerTypeOK
<1>1. PICK k \in Key : k = change[c].key
  BY <1>0
<1>2. (ToApply(change[c].key))' <=> ToApply(k)'
  BY <1>1 DEF ToApply
<1>3. CASE Conflicts(c)
  <2>1. answer'[c] = [kind |-> "conflict", data |-> records[k].data, ts |-> records[k].at]
    BY <1>0, <1>1, <1>3 DEF Serve
  <2>2. answer'[c].data = records'[k].data /\ answer'[c].data # Absent
        /\ answer'[c].kind = "conflict"
    BY <1>1, <1>3, <2>1 DEF Serve, Conflicts, Holds
  <2>3. Carries(answer'[c].data, records'[k].data)
    BY <2>2, CarriesSame
  <2> QED BY <1>1, <2>2, <2>3 DEF AnswerIsFresh, UpToDate, Carries
<1>4. CASE ~Conflicts(c)
  <2>1. Stores(k, c, DataOf(c))
    BY <1>0, <1>1, <1>4 DEF Serve, Stores
  <2>2. ToApply(k)'
    BY <1>0, <2>1, StoresToApply
  <2>3. answer'[c].kind = "accepted"
    BY <1>0, <1>4 DEF Serve
  <2> QED BY <1>2, <2>2, <2>3 DEF AnswerIsFresh
<1> QED BY <1>3, <1>4

LEMMA AnswersNext ==
  ASSUME AgreeInv, CoverInv', [Next]_vars
  PROVE  AnswersAreFresh'
<1>0. CoverInv /\ KeptInv /\ PositionInv
  BY AgreeParts
<1> SUFFICES ASSUME BeforePull', NEW c \in Local PROVE AnswerIsFresh(c)'
  BY DEF AnswersAreFresh, AnswerIsFresh, BeforePull
<1>1. CASE answer' = AllUnanswered
  BY <1>1 DEF AllUnanswered, NoAnswer, AnswerIsFresh
<1>2. CASE BeforePull /\ ~Begins
  <2>1. AnswerIsFresh(c)
    BY <1>2 DEF AgreeInv, AnswersAreFresh, BeforePull, AnswerIsFresh
  <2>2. Stays
    BY <1>0, <1>2, PositionStep, SnapStep DEF NoAdvance, Writes, Passes, BeforePull, Pulling, Stays
  <2>3. CASE answer'[c] = answer[c]
    BY <1>0, <2>1, <2>2, <2>3, FreshAnswerKept
  <2>4. CASE answer'[c].kind \in {"none", "error"}
    BY <2>4 DEF AnswerIsFresh
  <2>5. CASE Serve(c) /\ UNCHANGED <<queueVars, engineVars, toolVars, clock>>
    BY <1>0, <2>5, ServedIsFresh
  <2> QED BY <1>0, <2>3, <2>4, <2>5, AnswerStep
<1>3. CASE Begins
  <2>1. answer'[c].kind = "none"
    BY <1>3 DEF Begins, BeginSync, AgreeInv, AnswersComeLater
  <2> QED BY <2>1 DEF AnswerIsFresh
<1> QED BY <1>1, <1>2, <1>3, BeforePullStep

\* Answers come while the engine waits for them, and go when the cycle ends.
LEMMA ComeLaterNext ==
  ASSUME CoverInv, AnswersComeLater, [Next]_vars
  PROVE  AnswersComeLater'
<1> DEFINE Early == pc \in {"down", "idle", "select", "mark"}
<1> SUFFICES ASSUME Early' PROVE answer' = AllUnanswered \/ (Early /\ answer' = answer)
  BY DEF AnswersComeLater, AllUnanswered, NoAnswer
<1>1. CASE ClientStep
  <2>1. CASE PullPage \/ ApplyNext \/ ReadExisting \/ WriteRow \/ PageDone \/ SaveCursor
             \/ Purge \/ PullOverrun \/ WriteRaces \/ WriteInvalid
    BY <2>1
       DEF PullPage, ApplyNext, StartApply, ReadExisting, WriteRow, Applied, PageDone,
           SaveCursor, Purge, PullOverrun, WriteRaces, WriteInvalid, WriteThrows, Fail, Abort, EndCycle,
           ForgetCycle
  <2>2. CASE BeginSync \/ SelectBatch \/ ReceiveAnswer \/ NextList \/ SettleConflict
    BY <2>2
       DEF BeginSync, SelectBatch, BeginPull, ReceiveAnswer, NextList, SettleConflict,
           RowMissing, Abort, EndCycle, ForgetCycle
  <2>3. ASSUME NEW c \in Local, MarkNext(c) \/ RollbackNext(c) \/ AcceptNext(c) \/ ErrorNext(c)
                                \/ UnackedNext(c)
        PROVE  answer' = AllUnanswered \/ (Early /\ answer' = answer)
    BY <2>3
       DEF MarkNext, RollbackNext, AcceptNext, CommitNow, ErrorNext, UnackedNext, Visited,
           RowMissing, Fail, Abort, EndCycle, ForgetCycle
  <2>4. ASSUME NEW c \in Local, ResolveNext(c) PROVE answer' = AllUnanswered
    BY <2>4
       DEF ResolveNext, KeepLocal, TakeContent, StartApply, CommitNow, Visited, RowMissing,
           Abort, EndCycle, ForgetCycle
  <2> QED BY <1>1, <2>1, <2>2, <2>3, <2>4 DEF ClientStep, CycleStep
<1>2. CASE PushThrows \/ PullThrows \/ Crash \/ Restart
  BY <1>2 DEF PushThrows, PullThrows, WriteThrows, Crash, Restart, Fail, Abort,
              EndCycle, ForgetCycle
<1>3. CASE ~ClientStep /\ ~PushThrows /\ ~PullThrows /\ ~Crash /\ ~Restart
  <2>1. pc' = pc /\ (pc = "sent" \/ UNCHANGED answer)
    BY <1>3
       DEF Next, Tick, CalmStep, ServerStep, Serve, ServeLate, Refuse, Ignore, OldestIn,
           CoverInv, ServedWhileSent, ToolStep, CompactCheck, CompactDelete, RetryNext, AppStep,
           LocalWrite, HookStep, QueueWrite, OthersStep, RemoteWrite, DisturbedStep,
           QueueWriteFails, CompactPlan, RetryPlan, ClearCommitted
  <2> QED BY <2>1
<1> QED BY <1>1, <1>2, <1>3

-----------------------------------------------------------------------------
(* What the cycle is applying. *)

\* How the engine comes to be applying a content, or stays at it.
LEMMA RemoteStep ==
  ASSUME CoverInv, BuiltIn, [Next]_vars, pc' \in {"read", "write", "settle"}
  PROVE  \/ EngineIdles
         \/ /\ ApplyNext /\ UNCHANGED <<rows, pullVars, serverVars>>
            /\ StartApply(log[at + 1].key, log[at + 1].data, log[at + 1].ts, NoChange)
         \/ /\ pc = "conflicts"
            /\ \E c \in todo : TakeContent(c, answer[c].data)
         \/ ReadExisting
         \/ WriteRow /\ remote.cause # NoChange /\ pc' = "settle" /\ UNCHANGED applyVars
<1>1. CASE ClientStep
  <2>1. CASE ApplyNext
    BY <1>1, <2>1 DEF ApplyNext, Fail, EndCycle
  <2>2. CASE WriteRow
    BY <2>2 DEF WriteRow, Applied
  <2>3. ASSUME NEW c \in Local, ResolveNext(c)
        PROVE  pc = "conflicts" /\ c \in todo /\ TakeContent(c, answer[c].data)
    BY <2>3, BuiltInSteps DEF KeepLocal, Visited, RowMissing, Abort, EndCycle
  <2>4. CASE ~ApplyNext /\ ~WriteRow /\ ~ReadExisting /\ ~\E c \in Local : ResolveNext(c)
    BY <1>1, <2>4
       DEF ClientStep, CycleStep, BeginSync, SelectBatch, BeginPull, ReceiveAnswer, NextList,
           SettleConflict, PullPage, PageDone, SaveCursor, Purge, PullOverrun, WriteRaces, WriteInvalid,
           WriteThrows, MarkNext, RollbackNext, AcceptNext, CommitNow, Visited, RowMissing,
           ErrorNext, UnackedNext, Fail, Abort, EndCycle
  <2> QED BY <2>1, <2>2, <2>3, <2>4
<1>2. CASE ~ClientStep
  BY <1>2
     DEF Next, Tick, CalmStep, ServerStep, ToolStep, CompactCheck, CompactDelete, RetryNext,
         AppStep, LocalWrite, HookStep, QueueWrite, OthersStep, Restart, DisturbedStep,
         PushThrows, PullThrows, WriteThrows, QueueWriteFails, CompactPlan,
         RetryPlan, ClearCommitted, Crash, Fail, Abort, EndCycle, EngineIdles
<1> QED BY <1>1, <1>2

\* Compaction plans nothing around a change that the cycle has yet to settle.
LEMMA CauseIsOut ==
  ASSUME AgreeInv, CompactPlan, Resolving
  PROVE  remote.cause \notin Queued
<1>1. "retry" \notin Disturbances
  BY DEF CompactPlan, Disturb, AgreeInv, Agreeable, OneTool
<1>2. remote.cause \in Outstanding
  BY DEF Resolving, Outstanding, AgreeInv, OutstandingIsOut
<1> QED BY <1>1, <1>2 DEF AgreeInv, OutstandingIsOut

\* Others than the engine: they write a record only with a change that stands.
LEMMA IdleKeepsRemote ==
  ASSUME AgreeInv, QueueInv', [Next]_vars, EngineIdles
  PROVE  RemoteIsFresh'
<1>0. /\ CoverInv /\ CoverInv' /\ QueueInv /\ KeptInv /\ BuiltIn /\ PositionInv /\ DoomedAreOutdone
      /\ NoChange \notin Local /\ HistoryKept
      /\ rows \in [Key -> Content] /\ at \in Nat /\ upto \in Nat /\ Len(log) \in Nat
  BY AgreeParts, NextKeepsHistory, PositionTypes
     DEF QueueInv, CoverInv, TypeInv, TypeOK, EngineTypeOK
<1>1. UNCHANGED <<pc, remote, existing, at, snap>>
  BY DEF EngineIdles
<1>2. Stays
  BY <1>0, <1>1, IdlesNoAdvance DEF NoAdvance, Stays, SnapKept
<1>3. PICK k \in Key, x \in Local \cup {NoChange} : k = remote.key /\ x = remote.cause
  BY <1>0 DEF CoverInv, TypeInv, TypeOK, EngineTypeOK
<1>4. ASSUME pc \in {"read", "write"}, x = NoChange
      PROVE  k = log'[at + 1].key /\ remote.data = log'[at + 1].data /\ snap'[k] = NoChange
  <2>1. k = log[at + 1].key /\ remote.data = log[at + 1].data /\ snap'[k] = NoChange
    BY <1>1, <1>3, <1>4 DEF AgreeInv, RemoteIsFresh
  <2>2. at + 1 \in 1..Len(log)
    BY <1>0, <1>3, <1>4 DEF CoverInv, TypeInv, PageOK
  <2> QED BY <1>0, <2>1, <2>2 DEF HistoryKept, LogKept
<1>5. Resolving => x \in Entered /\ k = change[x].key
  BY <1>0, <1>3 DEF Resolving, CoverInv, InFlightIsEntered, AgreeInv, RemoteIsFresh
<1>6. Resolving => k = change'[x].key
  BY <1>0, <1>5 DEF HistoryKept, QueueKept
<1>7. \A d \in Standing(k) : pc \in {"write", "settle"} => status'[d] # "committed"
  <2> SUFFICES ASSUME NEW d \in Standing(k), pc \in {"write", "settle"}, status'[d] = "committed"
               PROVE  FALSE
    OBVIOUS
  <2>1. d \in Local /\ status[d] # "committed"
    BY DEF Standing
  <2> QED
    BY <1>0, <1>1, <2>1, NewlyCommitted
       DEF AcceptNext, SettleConflict, RowMissing, Abort, EndCycle, ApplyNext
<1>8. rows'[k] = rows[k] \/ (\E c \in Standing(k)' : c \notin Entered)
  <2>1. CASE AppStep
    <3>1. PICK c \in Local, j \in Key, type \in ChangeType : LocalWrite(c, j, type)
      BY <2>1 DEF AppStep
    <3>2. CASE j = k
      BY <1>0, <3>1, <3>2, WriteStands
    <3>3. CASE j # k
      BY <1>0, <3>1, <3>3 DEF LocalWrite
    <3> QED BY <3>2, <3>3
  <2>2. ~WriteRow
    BY <1>1 DEF WriteRow, Applied
  <2> QED BY <2>1, <2>2, RowsStep
<1>9. ASSUME Resolving, pc # "settle"
      PROVE  remote.data # Absent /\ UpToDate(k, remote.data)'
  <2>1. remote.data # Absent /\ UpToDate(k, remote.data)
    BY <1>3, <1>9 DEF AgreeInv, RemoteIsFresh
  <2>2. PICK data : data = remote.data
    OBVIOUS
  <2>3. UpToDate(k, data)'
    BY <1>0, <1>2, <2>1, <2>2, UpToDateKept
  <2> QED BY <1>1, <2>1, <2>2, <2>3 DEF UpToDate
<1>10. ASSUME pc = "settle"
       PROVE  UpToDate(k, rows[k])' \/ SomeLost' \/ Standing(k)' \ {x} # {}
  <2>1. Settled(k, rows[k], x)
    BY <1>3, <1>10 DEF AgreeInv, RemoteIsFresh, Settled
  <2>2. Resolving
    BY <1>0, <1>10 DEF Resolving, CoverInv, CauseIsCovered
  <2>3. CompactPlan => x \notin Queued
    BY <1>3, <2>2, CauseIsOut
  <2>4. CASE rows'[k] = rows[k]
    <3>1. PICK data : data = rows[k]
      OBVIOUS
    <3>2. UpToDate(k, data)' \/ SomeLost' \/ Standing(k)' \ {x} # {}
      BY <1>0, <1>2, <1>7, <1>10, <2>1, <2>3, <3>1, SettledKept
    <3> QED BY <2>4, <3>1, <3>2 DEF UpToDate
  <2>5. CASE \E c \in Standing(k)' : c \notin Entered
    BY <1>5, <2>2, <2>5
  <2> QED BY <1>8, <2>4, <2>5
<1>11. ASSUME pc = "write", remote.data = Absent, ~existing
       PROVE  rows'[k] = Absent \/ SomeLost' \/ Standing(k)' # {}
  <2>1. rows[k] = Absent \/ SomeLost \/ Standing(k) # {}
    BY <1>3, <1>11 DEF AgreeInv, RemoteIsFresh
  <2>2. CASE SomeLost
    BY <1>0, <2>2, LostKept
  <2>3. CASE Standing(k) # {}
    <3>1. PICK d \in Standing(k) \ {NoChange} : status'[d] # "committed"
      BY <1>0, <1>7, <1>11, <2>3 DEF Standing
    <3>2. NoChange \notin Queued
      BY <1>0 DEF Queued, ByStatus
    <3> QED BY <1>0, <3>1, <3>2, StandsOn
  <2> QED BY <1>8, <2>1, <2>2, <2>3
<1>12. UpToDate(remote.key, remote.data)' <=> UpToDate(k, remote.data)'
  BY <1>1, <1>3 DEF UpToDate, ToApply
<1>13. /\ UpToDate(remote.key, rows[remote.key])' <=> UpToDate(k, rows[k])'
       /\ (Standing(remote.key) \ {remote.cause})' = Standing(k)' \ {x}
       /\ Standing(remote.key)' = Standing(k)'
  BY <1>1, <1>3 DEF UpToDate, ToApply, Standing
<1>14. Resolving' <=> Resolving
  BY <1>1 DEF Resolving
<1> QED
  BY <1>1, <1>3, <1>4, <1>6, <1>9, <1>10, <1>11, <1>12, <1>13, <1>14 DEF RemoteIsFresh

\* The record of the next entry of the page.
LEMMA PulledKey ==
  ASSUME CoverInv, ApplyNext
  PROVE  log[at + 1].key \in Key /\ snap \in [Key -> Local \cup {NoChange}]
<1>1. at + 1 \in 1..Len(log)
  BY PositionTypes DEF ApplyNext
<1> QED BY <1>1, LogTypes DEF CoverInv, TypeInv, TypeOK, EngineTypeOK

LEMMA RemoteNext ==
  ASSUME AgreeInv, QueueInv', [Next]_vars
  PROVE  RemoteIsFresh'
<1>0. /\ CoverInv /\ CoverInv' /\ KeptInv /\ BuiltIn /\ PositionInv
      /\ NoChange \notin Local /\ rows \in [Key -> Content]
  BY AgreeParts DEF QueueInv, CoverInv, TypeInv, TypeOK, EngineTypeOK
<1>1. CASE EngineIdles
  BY <1>1, IdleKeepsRemote
<1>2. CASE /\ ApplyNext /\ UNCHANGED <<rows, pullVars, serverVars>>
           /\ StartApply(log[at + 1].key, log[at + 1].data, log[at + 1].ts, NoChange)
  <2>1. /\ pc' = "read" /\ remote'.cause = NoChange /\ ~Resolving'
        /\ remote'.key = log'[at' + 1].key /\ remote'.data = log'[at' + 1].data
    BY <1>2 DEF StartApply, Resolving
  <2>2. snap'[remote'.key] = NoChange
    <3>1. log[at + 1].key \in Key /\ snap \in [Key -> Local \cup {NoChange}]
      BY <1>0, <1>2, <2>1, PulledKey
    <3> QED BY <1>2, <2>1, <3>1 DEF ApplyNext, StartApply, Fail, EndCycle
  <2> QED BY <2>1, <2>2 DEF RemoteIsFresh
<1>3. CASE pc = "conflicts" /\ \E c \in todo : TakeContent(c, answer[c].data)
  <2>1. PICK c \in todo : TakeContent(c, answer[c].data)
    BY <1>3
  <2>2. /\ c \in Local /\ c # NoChange /\ answer[c].kind = "conflict"
        /\ change[c].key \in Key
    BY <1>0, <1>3, ChangeTypes
       DEF CoverInv, ListIsAnswered, Answered, InFlightIsEntered, Entered
  <2>3. PICK k \in Key, data \in Content : k = change[c].key /\ data = answer[c].data
    BY <1>0, <2>2 DEF CoverInv, TypeInv, TypeOK, ServerTypeOK, Answer
  <2>4. data # Absent /\ UpToDate(k, data)
    BY <1>3, <2>2, <2>3 DEF AgreeInv, AnswersAreFresh, Pulling
  <2>5. /\ pc' = "read" /\ UNCHANGED queueVars /\ remote'.cause = c
        /\ remote'.key = k /\ remote'.data = data
    BY <2>1, <2>3 DEF TakeContent, StartApply
  <2>6. Stays
    <3>1. UNCHANGED snap
      BY <2>1 DEF TakeContent
    <3> QED BY <1>0, <1>3, <3>1, PositionStep DEF NoAdvance, Writes, Passes, Stays, SnapKept
  <2>7. UpToDate(k, data)'
    BY <1>0, <2>4, <2>6, UpToDateKept
  <2>8. UpToDate(remote.key, remote.data)' <=> UpToDate(k, data)'
    BY <2>5 DEF UpToDate, ToApply
  <2> QED BY <2>2, <2>3, <2>4, <2>5, <2>7, <2>8 DEF RemoteIsFresh
<1>4. CASE ReadExisting
  <2>1. /\ pc = "read" /\ pc' = "write" /\ existing' = (rows[remote.key] # Absent)
        /\ UNCHANGED <<rows, remote, snap, queueVars, serverVars, at, cursor>>
    BY <1>4 DEF ReadExisting
  <2>2. (Resolving' <=> Resolving) /\ Position' = Position
    BY <2>1 DEF Resolving, Position, Pulling
  <2>3. Resolving => UpToDate(remote.key, remote.data)'
    BY <2>1, <2>2 DEF AgreeInv, RemoteIsFresh, UpToDate, ToApply, IsReplay
  <2>4. /\ remote.cause = NoChange => /\ remote.key = log[at + 1].key
                                     /\ remote.data = log[at + 1].data
                                     /\ snap[remote.key] = NoChange
        /\ Resolving => remote.key = change[remote.cause].key /\ remote.data # Absent
    BY <2>1 DEF AgreeInv, RemoteIsFresh
  <2>5. remote.data = Absent /\ ~existing' =>
           (rows[remote.key] = Absent \/ SomeLost \/ Standing(remote.key) # {})'
    BY <2>1
  <2> QED BY <2>1, <2>2, <2>3, <2>4, <2>5 DEF RemoteIsFresh
<1>5. CASE WriteRow /\ remote.cause # NoChange /\ pc' = "settle" /\ UNCHANGED applyVars
  <2>1. Resolving /\ pc = "write" /\ UNCHANGED <<queueVars, serverVars>>
    BY <1>5 DEF WriteRow, Resolving
  <2>2. remote.key = change[remote.cause].key
    BY <2>1 DEF AgreeInv, RemoteIsFresh
  <2>3. PICK k \in Key, data \in Content : /\ k = remote.key /\ UpToDate(k, data)
                                          /\ rows' = [rows EXCEPT ![k] = data]
    BY <1>0, <1>5, OutcomeIsUpToDate DEF AgreeInv
  <2>4. rows'[k] = data /\ remote'.key = k
    BY <1>0, <1>5, <2>3
  <2>5. Stays
    <3>1. ~Writes /\ ~Passes
      BY <1>5, <2>1 DEF Writes, Passes
    <3>2. UNCHANGED snap
      BY <1>5 DEF WriteRow
    <3> QED BY <1>0, <3>1, <3>2, PositionStep DEF NoAdvance, Stays, SnapKept
  <2>6. UpToDate(k, data)'
    BY <1>0, <2>3, <2>5, UpToDateKept
  <2>7. UpToDate(remote.key, rows[remote.key])'
    BY <2>4, <2>6 DEF UpToDate, ToApply
  <2> QED BY <1>5, <2>1, <2>2, <2>7 DEF RemoteIsFresh
<1>6. CASE pc' \notin {"read", "write", "settle"}
  BY <1>6 DEF RemoteIsFresh, Resolving
<1> QED BY <1>0, <1>1, <1>2, <1>3, <1>4, <1>5, <1>6, RemoteStep

-----------------------------------------------------------------------------
(* What the cycle has yet to settle. *)

\* The list of the errors is that of the answer.
ErrorsAreAnswered == pc = "errors" => todo \subseteq Answered("error")

LEMMA ErrorsNext ==
  ASSUME CoverInv, ErrorsAreAnswered, [Next]_vars
  PROVE  ErrorsAreAnswered'
<1> SUFFICES ASSUME pc' = "errors" PROVE todo' \subseteq Answered("error")'
  BY DEF ErrorsAreAnswered
<1>1. CASE NextList
  BY <1>1 DEF NextList, BeginPull, Answered
<1>2. ASSUME NEW c \in Local, ErrorNext(c) PROVE todo' \subseteq Answered("error")'
  BY <1>2 DEF ErrorNext, Visited, ErrorsAreAnswered, Answered
<1>3. CASE ClientStep /\ ~NextList /\ ~\E c \in Local : ErrorNext(c)
  BY <1>3
     DEF ClientStep, CycleStep, BeginSync, SelectBatch, BeginPull, ReceiveAnswer,
         SettleConflict, PullPage, ApplyNext, StartApply, ReadExisting, WriteRow, Applied,
         PageDone, SaveCursor, Purge, PullOverrun, WriteRaces, WriteInvalid, WriteThrows, MarkNext,
         RollbackNext, AcceptNext, CommitNow, Visited, RowMissing, ResolveNext, KeepLocal,
         TakeContent, UnackedNext, Fail, Abort, EndCycle
<1>4. CASE ~ClientStep
  <2>1. pc = "errors" /\ UNCHANGED <<todo, batch, answer>>
    BY <1>4
       DEF Next, Tick, CalmStep, ServerStep, Serve, ServeLate, Refuse, Ignore, OldestIn,
           CoverInv, ServedWhileSent, ToolStep, CompactCheck, CompactDelete, RetryNext, AppStep,
           LocalWrite, HookStep, QueueWrite, OthersStep, RemoteWrite, Restart, DisturbedStep,
           PushThrows, PullThrows, WriteThrows, QueueWriteFails, CompactPlan,
           RetryPlan, ClearCommitted, Crash, Fail, Abort, EndCycle
  <2> QED BY <2>1 DEF ErrorsAreAnswered, Answered
<1> QED BY <1>1, <1>2, <1>3, <1>4

\* No change whose outcome is yet to be recorded is back in the queue.
NoneIsBack == Outstanding \cap Queued = {}

LEMMA EndNoneBack ==
  ASSUME EndCycle
  PROVE  NoneIsBack'
  BY DEF EndCycle, NoneIsBack, Outstanding

LEMMA WriterQueues ==
  ASSUME CoverInv, NEW c \in Local
  PROVE  /\ MarkPending(c) \/ MarkFailed(c) \/ (\E n : MarkPendingWithRetries(c, n)) =>
                Queued' \subseteq Queued \cup {c}
         /\ MarkCommitted(c) \/ MarkSyncing(c) => Queued' \subseteq Queued \ {c}
  BY DEF Queued, ByStatus, MarkPending, MarkFailed, MarkPendingWithRetries, MarkCommitted,
         MarkSyncing, CoverInv, TypeInv, TypeOK, QueueTypeOK

\* A loop over a list of the answer settles one row, which may be queued again.
LEMMA VisitedNoneBack ==
  ASSUME CoverInv, ErrorsAreAnswered, NoneIsBack, NEW c \in todo, Visited(c),
         pc \in {"accepted", "conflicts", "errors", "unacked"},
         Queued' \subseteq Queued \cup {c}
  PROVE  NoneIsBack'
<1>1. Outstanding' \subseteq Outstanding \ {c}
  BY DEF Visited, Outstanding, Answered, CoverInv, ListIsAnswered, ErrorsAreAnswered
<1> QED BY <1>1 DEF NoneIsBack

LEMMA PushNoneBack ==
  ASSUME CoverInv, NoneIsBack, NEW c \in Local, MarkNext(c) \/ RollbackNext(c)
  PROVE  NoneIsBack'
<1>1. CASE MarkNext(c) /\ HasRow(c)
  <2>1. Outstanding = batch \ todo /\ c \in todo /\ todo \subseteq batch
    BY <1>1 DEF MarkNext, OldestIn, Outstanding, CoverInv, InFlightIsEntered
  <2>2. Outstanding' = batch \ (todo \ {c})
    BY <1>1 DEF MarkNext, Outstanding
  <2>3. Queued' \subseteq Queued \ {c}
    BY <1>1, WriterQueues DEF MarkNext
  <2> QED BY <2>1, <2>2, <2>3 DEF NoneIsBack
<1>2. CASE RollbackNext(c) /\ HasRow(c) /\ todo # {c}
  <2>1. Outstanding = todo /\ Outstanding' = todo \ {c}
    BY <1>2 DEF RollbackNext, Outstanding
  <2>2. Queued' \subseteq Queued \cup {c}
    BY <1>2, WriterQueues DEF RollbackNext
  <2> QED BY <2>1, <2>2 DEF NoneIsBack
<1>3. CASE EndCycle
  BY <1>3, EndNoneBack
<1> QED BY <1>1, <1>2, <1>3 DEF MarkNext, RollbackNext, Fail, Abort

\* Steps that queue nothing and take nothing up.
LEMMA FewerNoneBack ==
  ASSUME NoneIsBack, Outstanding' \subseteq Outstanding, Queued' \subseteq Queued
  PROVE  NoneIsBack'
  BY DEF NoneIsBack

LEMMA AnswerNoneBack ==
  ASSUME CoverInv, NoneIsBack, ReceiveAnswer \/ NextList \/ PushThrows
  PROVE  NoneIsBack'
<1>1. Queued' = Queued
  BY DEF ReceiveAnswer, NextList, PushThrows, Queued, ByStatus
<1>2. Outstanding' \subseteq Outstanding
  <2>1. CASE ReceiveAnswer
    BY <2>1 DEF ReceiveAnswer, Outstanding, Answered
  <2>2. CASE NextList
    BY <2>2 DEF NextList, BeginPull, Outstanding, Answered
  <2>3. CASE PushThrows
    BY <2>3 DEF PushThrows, Outstanding
  <2> QED BY <2>1, <2>2, <2>3
<1> QED BY <1>1, <1>2, FewerNoneBack

LEMMA ConflictNoneBack ==
  ASSUME CoverInv, ErrorsAreAnswered, NoneIsBack,
         SettleConflict \/ \E c \in Local : ResolveNext(c)
  PROVE  NoneIsBack'
<1>1. ASSUME NEW c \in Local, ResolveNext(c) PROVE NoneIsBack'
  <2>0. pc = "conflicts" /\ c \in todo
    BY <1>1 DEF ResolveNext
  <2>1. CASE EndCycle
    BY <2>1, EndNoneBack
  <2>2. CASE Visited(c) /\ (MarkFailed(c) \/ MarkCommitted(c) \/ \E n : MarkPendingWithRetries(c, n))
    BY <2>0, <2>2, WriterQueues, VisitedNoneBack
  <2>3. CASE TakeContent(c, answer[c].data) \/ \E data \in MergedContents : TakeContent(c, data)
    <3>1. pc' = "read" /\ remote'.cause # NoChange
      BY <2>3, ConstantsAssumption DEF TakeContent, StartApply
    <3>2. UNCHANGED <<queueVars, todo, batch, answer>>
      BY <2>3 DEF TakeContent
    <3>3. Outstanding' = Outstanding
      BY <2>0, <3>1, <3>2 DEF Outstanding, Answered
    <3> QED BY <3>2, <3>3, FewerNoneBack DEF Queued, ByStatus
  <2> QED
    BY <1>1, <2>1, <2>2, <2>3 DEF ResolveNext, KeepLocal, CommitNow, RowMissing, Abort
<1>2. CASE SettleConflict /\ pc' = "conflicts"
  <2>1. /\ pc = "settle" /\ remote.cause # NoChange /\ remote.cause \in Local
        /\ MarkCommitted(remote.cause) /\ todo' \subseteq todo /\ UNCHANGED <<batch, answer>>
    BY <1>2 DEF SettleConflict, RowMissing, Abort, EndCycle, CoverInv, CauseIsCovered,
                InFlightIsEntered, Entered
  <2>2. Outstanding' \subseteq Outstanding
    BY <1>2, <2>1 DEF Outstanding, Answered
  <2> QED BY <2>1, <2>2, WriterQueues, FewerNoneBack
<1>3. CASE SettleConflict /\ EndCycle
  BY <1>3, EndNoneBack
<1> QED BY <1>1, <1>2, <1>3 DEF SettleConflict, RowMissing, Abort

\* Nothing is outstanding in the rest of a cycle.
LEMMA PullNoneBack ==
  ASSUME CoverInv, NoneIsBack,
         \/ BeginSync \/ SelectBatch \/ PullPage \/ ApplyNext \/ PageDone \/ SaveCursor
         \/ Purge \/ PullOverrun \/ PullThrows \/ ReadExisting \/ WriteRow \/ WriteThrows
  PROVE  NoneIsBack'
<1>1. CASE EndCycle
  BY <1>1, EndNoneBack
<1>2. CASE BeginSync \/ SelectBatch \/ PullPage \/ PageDone \/ SaveCursor
  <2>1. Outstanding' = {}
    BY <1>2 DEF BeginSync, SelectBatch, BeginPull, PullPage, PageDone, SaveCursor, Outstanding
  <2> QED BY <2>1 DEF NoneIsBack
<1>3. CASE ApplyNext /\ ~EndCycle
  <2>1. pc' = "apply" \/ (pc' = "read" /\ remote'.cause = NoChange)
    BY <1>3 DEF ApplyNext, StartApply, Fail
  <2> QED BY <2>1 DEF NoneIsBack, Outstanding
<1>4. CASE ReadExisting \/ WriteRow
  <2>1. \/ pc' = "apply"
        \/ /\ pc \in {"read", "write"} /\ pc' \in {"write", "settle"}
           /\ UNCHANGED <<remote, todo, batch, answer>>
    BY <1>4 DEF ReadExisting, WriteRow, Applied
  <2>2. Outstanding' \subseteq Outstanding
    BY <2>1 DEF Outstanding, Answered
  <2>3. Queued' = Queued
    BY <1>4 DEF ReadExisting, WriteRow, Queued, ByStatus
  <2> QED BY <2>2, <2>3, FewerNoneBack
<1> QED
  BY <1>1, <1>2, <1>3, <1>4
     DEF Purge, PullOverrun, PullThrows, WriteThrows, Fail, Abort

LEMMA NoneBackNext ==
  ASSUME CoverInv, ErrorsAreAnswered, NoneIsBack, "retry" \notin Disturbances, retrying = {},
         [Next]_vars
  PROVE  retrying' = {} /\ NoneIsBack'
<1>0. status \in [Local -> Status] /\ Outstanding \subseteq Entered
  BY DEF CoverInv, TypeInv, TypeOK, QueueTypeOK, Outstanding, Answered, InFlightIsEntered
<1>1. ~RetryPlan /\ ~\E c \in Local : RetryNext(c)
  BY DEF RetryPlan, RetryNext, Disturb
<1>2. retrying' = {}
  BY <1>1 DEF Next, Tick, CalmStep, ClientStep, ServerStep, ToolStep, CompactCheck, CompactDelete,
              AppStep, LocalWrite, HookStep, QueueWrite, OthersStep, Restart, DisturbedStep,
              QueueWriteFails, CompactPlan, ClearCommitted, Crash
<1>3. ASSUME ClientStep PROVE NoneIsBack'
  <2>1. ASSUME NEW c \in Local, AcceptNext(c) \/ ErrorNext(c) \/ UnackedNext(c)
        PROVE  NoneIsBack'
    <3>1. CASE EndCycle
      BY <3>1, EndNoneBack
    <3>2. CASE Visited(c) /\ (MarkFailed(c) \/ MarkCommitted(c) \/ MarkPending(c))
      BY <2>1, <3>2, WriterQueues, VisitedNoneBack DEF AcceptNext, ErrorNext, UnackedNext
    <3> QED
      BY <2>1, <3>1, <3>2 DEF AcceptNext, CommitNow, ErrorNext, UnackedNext, RowMissing, Abort
  <2> QED
    BY <1>3, <2>1, PushNoneBack, AnswerNoneBack, ConflictNoneBack, PullNoneBack
       DEF ClientStep, CycleStep, WriteRaces, WriteInvalid
<1>4. ASSUME PushThrows \/ PullThrows PROVE NoneIsBack'
  BY <1>4, AnswerNoneBack, PullNoneBack
<1>5. ASSUME Crash \/ Restart PROVE NoneIsBack'
  <2>1. pc' \in {"down", "idle"}
    BY <1>5 DEF Crash, Restart
  <2> QED BY <2>1 DEF NoneIsBack, Outstanding
<1>6. ASSUME ~ClientStep, ~PushThrows, ~PullThrows, ~Crash, ~Restart
      PROVE  NoneIsBack'
  <2>1. /\ UNCHANGED <<pc, batch, todo, remote>>
        /\ pc = "sent" \/ UNCHANGED answer
    BY <1>6
       DEF Next, Tick, CalmStep, ServerStep, Serve, ServeLate, Refuse, Ignore, OldestIn,
           CoverInv, ServedWhileSent, ToolStep, CompactCheck, CompactDelete, RetryNext, AppStep,
           LocalWrite, HookStep, QueueWrite, OthersStep, RemoteWrite, DisturbedStep,
           QueueWriteFails, CompactPlan, RetryPlan, ClearCommitted
  <2>2. Outstanding' = Outstanding
    BY <2>1 DEF Outstanding, Answered
  <2>3. Queued' \cap Entered \subseteq Queued
    BY <1>0, <1>1, <1>6
       DEF Next, Tick, CalmStep, ServerStep, ToolStep, CompactCheck, CompactDelete, AppStep,
           LocalWrite, HookStep, QueueWrite, AppendRow, OthersStep, DisturbedStep,
           QueueWriteFails, CompactPlan, ClearCommitted, RemoveCommitted, Queued, ByStatus,
           Entered
  <2> QED BY <1>0, <2>2, <2>3 DEF NoneIsBack
<1> QED BY <1>2, <1>3, <1>4, <1>5, <1>6

\* What the cycle resolves is in the list of the conflicts.
LEMMA CauseNext ==
  ASSUME CoverInv, BuiltIn, Resolving => remote.cause \in todo, [Next]_vars
  PROVE  (Resolving => remote.cause \in todo)'
<1> SUFFICES ASSUME Resolving' PROVE remote'.cause \in todo'
  OBVIOUS
<1>1. CASE EngineIdles
  BY <1>1 DEF EngineIdles, Resolving
<1>2. ASSUME NEW c \in todo, TakeContent(c, answer[c].data) PROVE remote'.cause \in todo'
  BY <1>2 DEF TakeContent, StartApply
<1>3. CASE ReadExisting \/ (WriteRow /\ remote.cause # NoChange /\ UNCHANGED applyVars)
  BY <1>3 DEF ReadExisting, WriteRow, Resolving
<1>4. CASE StartApply(log[at + 1].key, log[at + 1].data, log[at + 1].ts, NoChange)
  BY <1>4 DEF StartApply, Resolving
<1> QED BY <1>1, <1>2, <1>3, <1>4, RemoteStep DEF Resolving

LEMMA OutstandingNext ==
  ASSUME AgreeInv, [Next]_vars
  PROVE  OutstandingIsOut'
<1>0. CoverInv /\ BuiltIn
  BY AgreeParts
<1>1. /\ Resolving => remote.cause \in todo
      /\ ErrorsAreAnswered
      /\ "retry" \notin Disturbances => retrying = {} /\ NoneIsBack
  BY DEF AgreeInv, OutstandingIsOut, ErrorsAreAnswered, NoneIsBack
<1>2. (Resolving => remote.cause \in todo)'
  BY <1>0, <1>1, CauseNext
<1>3. ErrorsAreAnswered'
  BY <1>0, <1>1, ErrorsNext
<1>4. "retry" \notin Disturbances => retrying' = {} /\ NoneIsBack'
  BY <1>0, <1>1, NoneBackNext
<1> QED BY <1>2, <1>3, <1>4 DEF OutstandingIsOut, ErrorsAreAnswered, NoneIsBack

-----------------------------------------------------------------------------
\* Only compaction lists rows.
LEMMA ListedNext ==
  ASSUME NothingListed, [Next]_vars
  PROVE  NothingListed'
<1> SUFFICES ASSUME "compact" \notin Disturbances, doomed = {}, victim = NoChange
             PROVE  doomed' = {} /\ victim' = NoChange
  BY DEF NothingListed
<1> QED
  BY DEF Next, Tick, CalmStep, ClientStep, ServerStep, ToolStep, CompactCheck, CompactDelete,
         RetryNext, AppStep, LocalWrite, HookStep, QueueWrite, OthersStep, Restart,
         DisturbedStep, QueueWriteFails, CompactPlan, Disturb, RetryPlan, ClearCommitted, Crash

LEMMA AgreeInit == Agreeable /\ Init => AgreeInv
<1> SUFFICES ASSUME Agreeable, Init PROVE AgreeInv
  OBVIOUS
<1>1. /\ pc = "idle" /\ log = <<>> /\ cursor = 0 /\ saved = 0
      /\ retrying = {} /\ \A c \in Local : answer[c].kind = "none"
      /\ \A k \in Key : rows[k] = Absent /\ records[k].data = Absent
  BY DEF Init, ServerInit, EngineInit, FreshCycle, ToolsInit, AllUnanswered, NoAnswer
<1>2. PositionInv
  BY <1>1 DEF PositionInv, Pulling
<1>3. RecordsAreLast
  BY <1>1 DEF RecordsAreLast
<1>4. AnswersAreFresh
  BY <1>1 DEF AnswersAreFresh
<1>5. RemoteIsFresh /\ OutstandingIsOut
  BY <1>1 DEF RemoteIsFresh, OutstandingIsOut, Resolving, Outstanding
<1>6. WillAgree
  BY <1>1, CarriesSame DEF WillAgree, UpToDate
<1>7. AnswersComeLater /\ NothingListed
  BY <1>1 DEF AnswersComeLater, NothingListed, Init, ToolsInit
<1> QED BY <1>2, <1>3, <1>4, <1>5, <1>6, <1>7, KeptInit DEF AgreeInv, Agreeable

LEMMA AgreeNext == AgreeInv /\ [Next]_vars => AgreeInv'
<1> SUFFICES ASSUME AgreeInv, [Next]_vars PROVE AgreeInv'
  OBVIOUS
<1>0. CoverInv /\ KeptInv /\ PositionInv /\ RecordsAreLast
  BY AgreeParts DEF AgreeInv
<1>1. KeptInv' /\ QueueInv' /\ CoverInv'
  BY <1>0, KeptNext DEF KeptInv, QueueInv
<1>2. Agreeable'
  BY DEF AgreeInv, Agreeable, ClientBehind, OneTool, NewestWins
<1>3. PositionInv'
  BY <1>0, PositionStep DEF NoAdvance
<1>4. RecordsAreLast'
  BY <1>0, RecordsNext
<1>5. AnswersComeLater' /\ NothingListed'
  BY <1>0, ComeLaterNext, ListedNext DEF AgreeInv
<1> QED
  BY <1>1, <1>2, <1>3, <1>4, <1>5, AnswersNext, RemoteNext, OutstandingNext, WillAgreeNext DEF AgreeInv

\* Under each built-in strategy, with a client clock that is not ahead (Agreeable):
\* whatever was lost, repeated, delayed or interrupted, every record of the
\* client has at every moment the server's value in each field of the server's
\* record, or has an entry of the log to read, an edit in the queue, or an edit
\* that was lost before it was queued.
THEOREM AgreeInvHolds == Agreeable /\ Spec => []AgreeInv
  BY AgreeInit, AgreeNext, PTL DEF Spec

\* When nothing is queued, on its way or unread, the client holds the records of
\* the server and no others, each with the server's value in each field that the
\* server's has: #pushChanges, #resolveConflict, #applyRemoteChange and the cursor
\* leave no other difference than fields that the merge of #applyRemoteChange let
\* stand, under any built-in strategy and within the bounds of Agreeable.
THEOREM ClientConverges == Agreeable /\ Spec => []Converged
<1>1. AgreeInv => Converged
  <2> SUFFICES ASSUME AgreeInv, Quiescent, NEW k \in Key
               PROVE  Carries(rows[k], records[k].data)
    BY DEF Converged
  <2>1. Position = Len(log) /\ Len(log) \in Nat
    BY AgreeParts, PositionTypes DEF Quiescent, Position, Pulling
  <2>2. ~ToApply(k)
    BY <2>1 DEF ToApply
  <2>3. ~SomeLost /\ Standing(k) = {}
    BY DEF Quiescent, SomeLost, ByStatus, Standing
  <2> QED BY <2>2, <2>3 DEF AgreeInv, WillAgree, UpToDate
<1> QED BY <1>1, AgreeInvHolds, PTL
=============================================================================
