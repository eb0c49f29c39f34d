------------------------------ MODULE SyncProofs ------------------------------
(***************************************************************************)
(* Type correctness of the sync subsystem, and its central safety claim: a  *)
(* local write leaves the queue as committed only when the server has it or *)
(* something at least as new.  For every number of records, writes, crashes *)
(* and lost or late messages, every strategy and every pair of clocks.      *)
(***************************************************************************)
EXTENDS SyncInvariant, TLAPS

USE DEF vars, queueVars, serverVars, wireVars, engineVars, applyVars, pullVars,
        cursorVars, toolVars

LEMMA SomeKey == (CHOOSE k \in Key : TRUE) \in Key
  BY ConstantsAssumption

\* What a write sets is a record, and so is a record with it on top.
LEMMA PatchType ==
  ASSUME NEW fields \in Forms, NEW w \in Write \cup {Merged}
  PROVE  Patch(fields, w) \in Record /\ Patch(fields, w) \in Content
<1>1. fields \in SUBSET Field /\ Patch(fields, w) \in [fields -> Write \cup {Merged}]
  BY ConstantsAssumption DEF Patch
<1> QED BY <1>1 DEF Record, Content

LEMMA MergeType ==
  ASSUME NEW old \in Content, NEW new \in Record
  PROVE  Merge(old, new) \in Record /\ Merge(old, new) \in Content
<1>1. CASE old = Absent
  BY <1>1 DEF Merge, Content
<1>2. CASE old # Absent
  <2>1. PICK F \in SUBSET Field : old \in [F -> Write \cup {Merged}]
    BY <1>2 DEF Content, Record
  <2>2. PICK G \in SUBSET Field : new \in [G -> Write \cup {Merged}]
    BY DEF Record
  <2> DEFINE both == DOMAIN old \cup DOMAIN new
             merged == [f \in both |-> IF f \in DOMAIN new THEN new[f] ELSE old[f]]
  <2>3. both = F \cup G /\ both \in SUBSET Field
    BY <2>1, <2>2
  <2>4. merged \in [both -> Write \cup {Merged}]
    BY <2>1, <2>2
  <2>5. Merge(old, new) = merged
    BY <1>2 DEF Merge
  <2> HIDE DEF both, merged
  <2>6. Merge(old, new) \in Record
    BY <2>3, <2>4, <2>5 DEF Record
  <2> QED BY <2>6 DEF Content
<1> QED BY <1>1, <1>2

LEMMA InitTypes == Init => TypeInv
<1> SUFFICES ASSUME Init PROVE TypeInv
  OBVIOUS
<1> USE SomeKey, ConstantsAssumption DEF Init
<1>1. BaseTypeOK
  BY DEF BaseInit, BaseTypeOK
<1>2. QueueTypeOK
  BY DEF QueueInit, QueueTypeOK, Status, Stored, Row, ChangeType, Content
<1>3. ServerTypeOK
  <2>1. records \in [Key -> [data : Content, at : Nat]] /\ log \in Seq(Entry)
    BY DEF ServerInit, Content, Write
  <2>2. answer \in [Local -> Answer]
    BY DEF ServerInit, AllUnanswered, NoAnswer, Answer, Content, Write
  <2> QED BY <2>1, <2>2 DEF ServerInit, ServerTypeOK
<1>4. EngineTypeOK
  <2>1. rows \in [Key -> Content]
    BY DEF EngineInit, Content
  <2>2. remote \in [key : Key, data : Content, ts : Nat, cause : Local \cup {NoChange}]
    BY DEF EngineInit, FreshCycle, NoRemote, Content
  <2> QED BY <2>1, <2>2 DEF EngineInit, FreshCycle, EngineTypeOK, NoSnapshot, PC
<1>5. ToolsTypeOK
  BY DEF ToolsInit, ToolsTypeOK
<1>6. PageOK
  BY DEF EngineInit, FreshCycle, ServerInit, PageOK
<1> QED BY <1>1, <1>2, <1>3, <1>4, <1>5, <1>6 DEF TypeInv, TypeOK

\* What the engine's locals are after a cycle, and that they have their types.
CycleTypeOK ==
    /\ snap \in [Key -> Local \cup {NoChange}]
    /\ batch \in SUBSET Local
    /\ todo \in SUBSET Local
    /\ remote \in [key : Key, data : Content, ts : Nat, cause : Local \cup {NoChange}]
    /\ existing \in BOOLEAN
    /\ at \in Nat /\ upto \in Nat
    /\ more \in BOOLEAN
    /\ pages \in Nat

LEMMA ForgetTypes ==
  ASSUME ForgetCycle
  PROVE  CycleTypeOK' /\ answer' \in [Local -> Answer]
<1> USE SomeKey DEF ForgetCycle
<1>1. answer' \in [Local -> Answer]
  BY DEF AllUnanswered, NoAnswer, Answer, Content
<1>2. remote' \in [key : Key, data : Content, ts : Nat, cause : Local \cup {NoChange}]
  BY DEF NoRemote, Content
<1> QED BY <1>1, <1>2 DEF CycleTypeOK, NoSnapshot

LEMMA EndCycleTypes ==
  ASSUME TypeInv, EndCycle, aborted' \in BOOLEAN, UNCHANGED <<rows, cursorVars>>
  PROVE  EngineTypeOK' /\ (Len(log') >= Len(log) /\ Len(log') \in Nat => PageOK')
<1>1. CycleTypeOK'
  BY ForgetTypes DEF EndCycle
<1>2. at' = 0 /\ upto' = 0 /\ remote'.cause = NoChange /\ pc' = "idle"
  BY DEF EndCycle, ForgetCycle, NoRemote
<1>3. EngineTypeOK'
  BY <1>1, <1>2 DEF TypeInv, TypeOK, EngineTypeOK, CycleTypeOK, PC
<1>4. Len(log') >= Len(log) /\ Len(log') \in Nat => PageOK'
  BY <1>2 DEF TypeInv, TypeOK, PageOK, EngineTypeOK, ServerTypeOK
<1> QED BY <1>3, <1>4

LEMMA MarkNextTypes ==
  ASSUME TypeInv, NEW c \in Local, MarkNext(c), UNCHANGED <<toolVars, clock, disturbed>>
  PROVE  TypeInv'
<1>1. QueueTypeOK'
  BY DEF TypeInv, TypeOK, QueueTypeOK, MarkNext, MarkSyncing, UnmarkSyncing, Status, Stored
<1>2. CASE HasRow(c)
  <2>1. ServerTypeOK'
    BY <1>2 DEF TypeInv, TypeOK, ServerTypeOK, EngineTypeOK, MarkNext
  <2>2. EngineTypeOK'
    BY <1>2 DEF TypeInv, TypeOK, EngineTypeOK, MarkNext, PC
  <2>3. PageOK'
    BY <1>2 DEF TypeInv, PageOK, MarkNext
  <2> QED BY <1>1, <2>1, <2>2, <2>3 DEF TypeInv, TypeOK, BaseTypeOK, ToolsTypeOK
<1>3. CASE ~HasRow(c)
  <2>1. ServerTypeOK'
    BY <1>3, ForgetTypes DEF TypeInv, TypeOK, ServerTypeOK, MarkNext, Fail, EndCycle
  <2>2. EngineTypeOK' /\ PageOK'
    BY <1>3, EndCycleTypes DEF TypeInv, TypeOK, ServerTypeOK, EngineTypeOK, MarkNext, Fail
  <2> QED BY <1>1, <2>1, <2>2 DEF TypeInv, TypeOK, BaseTypeOK, ToolsTypeOK
<1> QED BY <1>2, <1>3

\* Steps that leave the queue, the server and the wire alone.
LEMMA LocalStepTypes ==
  ASSUME TypeInv, UNCHANGED <<queueVars, serverVars, wireVars, toolVars, clock, disturbed>>,
         EngineTypeOK', PageOK'
  PROVE  TypeInv'
  BY DEF TypeInv, TypeOK, BaseTypeOK, QueueTypeOK, ServerTypeOK, ToolsTypeOK

LEMMA BeginSyncTypes ==
  ASSUME TypeInv, BeginSync, UNCHANGED <<toolVars, clock, disturbed>>
  PROVE  TypeInv'
<1>1. EngineTypeOK'
  BY DEF TypeInv, TypeOK, EngineTypeOK, BeginSync, Snapshots, PC
<1>2. PageOK'
  BY DEF TypeInv, PageOK, BeginSync
<1> QED BY <1>1, <1>2, LocalStepTypes DEF BeginSync

LEMMA SelectBatchTypes ==
  ASSUME TypeInv, SelectBatch, UNCHANGED <<toolVars, clock, disturbed>>
  PROVE  TypeInv'
<1>0. Eligible \subseteq Local
  BY DEF Eligible, Queued, ByStatus
<1>1. EngineTypeOK'
  <2>1. CASE Eligible = {}
    <3>1. more' \in BOOLEAN
      BY <2>1, Zenon DEF SelectBatch, BeginPull
    <3> QED BY <2>1, <3>1 DEF TypeInv, TypeOK, EngineTypeOK, SelectBatch, BeginPull, PC
  <2>2. CASE Eligible # {}
    BY <1>0, <2>2 DEF TypeInv, TypeOK, EngineTypeOK, SelectBatch, PC
  <2> QED BY <2>1, <2>2
<1>2. PageOK'
  BY DEF TypeInv, TypeOK, EngineTypeOK, PageOK, SelectBatch, BeginPull
<1> QED BY <1>1, <1>2, LocalStepTypes DEF SelectBatch

LEMMA ReceiveAnswerTypes ==
  ASSUME TypeInv, ReceiveAnswer, UNCHANGED <<toolVars, clock, disturbed>>
  PROVE  TypeInv'
<1>1. EngineTypeOK'
  BY DEF TypeInv, TypeOK, EngineTypeOK, ReceiveAnswer, PC
<1>2. PageOK'
  BY DEF TypeInv, PageOK, ReceiveAnswer
<1> QED BY <1>1, <1>2, LocalStepTypes DEF ReceiveAnswer

LEMMA NextListTypes ==
  ASSUME TypeInv, NextList, UNCHANGED <<toolVars, clock, disturbed>>
  PROVE  TypeInv'
<1>0. \A kind : Answered(kind) \subseteq Local
  BY DEF TypeInv, TypeOK, EngineTypeOK, Answered
<1>1. EngineTypeOK'
  <2>1. CASE pc = "unacked"
    <3>1. more' \in BOOLEAN
      BY <2>1, Zenon DEF NextList, BeginPull
    <3> QED BY <2>1, <3>1 DEF TypeInv, TypeOK, EngineTypeOK, NextList, BeginPull, PC
  <2>2. CASE pc # "unacked"
    BY <1>0, <2>2 DEF TypeInv, TypeOK, EngineTypeOK, NextList, PC
  <2> QED BY <2>1, <2>2
<1>2. PageOK'
  BY DEF TypeInv, TypeOK, EngineTypeOK, PageOK, NextList, BeginPull
<1> QED BY <1>1, <1>2, LocalStepTypes DEF NextList

LEMMA PullPageTypes ==
  ASSUME TypeInv, PullPage, UNCHANGED <<toolVars, clock, disturbed>>
  PROVE  TypeInv'
<1>1. Len(log) \in Nat /\ PullBatch \in Nat
  BY EngineAssumption DEF TypeInv, TypeOK, ServerTypeOK
<1>2. EngineTypeOK'
  BY <1>1 DEF TypeInv, TypeOK, EngineTypeOK, PullPage, PageEnd, HasMore, PC
<1>3. PageOK'
  BY <1>1 DEF TypeInv, TypeOK, EngineTypeOK, PageOK, PullPage, PageEnd
<1> QED BY <1>2, <1>3, LocalStepTypes DEF PullPage

LEMMA ReadExistingTypes ==
  ASSUME TypeInv, ReadExisting, UNCHANGED <<toolVars, clock, disturbed>>
  PROVE  TypeInv'
<1>1. EngineTypeOK'
  BY DEF TypeInv, TypeOK, EngineTypeOK, ReadExisting, PC
<1>2. PageOK'
  BY DEF TypeInv, PageOK, ReadExisting
<1> QED BY <1>1, <1>2, LocalStepTypes DEF ReadExisting

LEMMA PageDoneTypes ==
  ASSUME TypeInv, PageDone, UNCHANGED <<toolVars, clock, disturbed>>
  PROVE  TypeInv'
<1>1. EngineTypeOK'
  <2>1. CASE more
    BY <2>1 DEF TypeInv, TypeOK, EngineTypeOK, PageDone, PC
  <2>2. CASE ~more
    <3>1. more' \in BOOLEAN
      BY <2>2, Zenon DEF PageDone
    <3> QED BY <2>2, <3>1 DEF TypeInv, TypeOK, EngineTypeOK, PageDone, PC
  <2> QED BY <2>1, <2>2
<1>2. PageOK'
  BY DEF TypeInv, TypeOK, EngineTypeOK, ServerTypeOK, PageOK, PageDone
<1> QED BY <1>1, <1>2, LocalStepTypes DEF PageDone

LEMMA SaveCursorTypes ==
  ASSUME TypeInv, SaveCursor, UNCHANGED <<toolVars, clock, disturbed>>
  PROVE  TypeInv'
<1>1. EngineTypeOK'
  BY DEF TypeInv, TypeOK, EngineTypeOK, SaveCursor, PC
<1>2. PageOK'
  BY DEF TypeInv, PageOK, SaveCursor
<1> QED BY <1>1, <1>2, LocalStepTypes DEF SaveCursor

LEMMA WriteRowTypes ==
  ASSUME TypeInv, WriteRow, UNCHANGED <<toolVars, clock, disturbed>>
  PROVE  TypeInv'
<1>0. Outcome \in Content
  <2>1. rows[remote.key] \in Content /\ remote.data \in Content /\ Absent \in Content
    BY DEF TypeInv, TypeOK, EngineTypeOK, Content
  <2>2. remote.data # Absent => remote.data \in Record
    BY <2>1 DEF Content
  <2> QED BY <2>1, <2>2, MergeType DEF Outcome
<1>1. rows' \in [Key -> Content]
  BY <1>0 DEF TypeInv, TypeOK, EngineTypeOK, WriteRow
<1>2. EngineTypeOK'
  <2>1. NoRemote \in [key : Key, data : Content, ts : Nat, cause : Local \cup {NoChange}]
    BY SomeKey DEF NoRemote, Content
  <2>2. CASE remote.cause = NoChange
    <3>1. existing' \in BOOLEAN /\ UNCHANGED more
      BY <2>2, Zenon DEF WriteRow, Applied
    <3> QED BY <1>1, <2>1, <2>2, <3>1 DEF TypeInv, TypeOK, EngineTypeOK, WriteRow, Applied, PC
  <2>3. CASE remote.cause # NoChange
    BY <1>1, <2>3 DEF TypeInv, TypeOK, EngineTypeOK, WriteRow, Applied, PC
  <2> QED BY <2>2, <2>3
<1>3. PageOK'
  BY DEF TypeInv, TypeOK, EngineTypeOK, ServerTypeOK, PageOK, WriteRow, Applied
<1> QED BY <1>2, <1>3, LocalStepTypes DEF WriteRow

\* Writers of one row keep the types of the queue.
LEMMA MarkTypes ==
  ASSUME TypeInv, NEW c \in Local,
         \/ MarkPending(c) \/ MarkCommitted(c) \/ MarkFailed(c)
         \/ \E n \in Nat : MarkPendingWithRetries(c, n)
  PROVE  QueueTypeOK'
  BY DEF TypeInv, TypeOK, QueueTypeOK, Status, Stored, MarkPending, MarkCommitted,
         MarkFailed, MarkPendingWithRetries

\* An exception that ends the cycle.
LEMMA ThrowTypes ==
  ASSUME TypeInv, EndCycle, aborted' \in BOOLEAN, QueueTypeOK', BaseTypeOK',
         UNCHANGED <<rows, cursorVars, serverVars, request, late, toolVars>>
  PROVE  TypeInv'
<1>1. ServerTypeOK'
  BY ForgetTypes DEF TypeInv, TypeOK, ServerTypeOK, EndCycle
<1>2. EngineTypeOK' /\ PageOK'
  BY EndCycleTypes DEF TypeInv, TypeOK, ServerTypeOK
<1> QED BY <1>1, <1>2 DEF TypeInv, TypeOK, ToolsTypeOK

LEMMA FailTypes ==
  ASSUME TypeInv, Fail, QueueTypeOK', BaseTypeOK',
         UNCHANGED <<rows, cursorVars, serverVars, request, late, toolVars>>
  PROVE  TypeInv'
<1>1. aborted' \in BOOLEAN
  BY DEF Fail, TypeInv, TypeOK, EngineTypeOK
<1> QED BY <1>1, ThrowTypes DEF Fail

LEMMA AbortTypes ==
  ASSUME TypeInv, Abort, QueueTypeOK', BaseTypeOK',
         UNCHANGED <<rows, cursorVars, serverVars, request, late, toolVars>>
  PROVE  TypeInv'
<1>1. aborted' \in BOOLEAN
  BY DEF Abort
<1> QED BY <1>1, ThrowTypes DEF Abort

LEMMA RowMissingTypes ==
  ASSUME TypeInv, NEW c, RowMissing(c), UNCHANGED <<toolVars, clock, disturbed>>
  PROVE  TypeInv'
<1>1. QueueTypeOK' /\ BaseTypeOK'
  BY DEF RowMissing, TypeInv, TypeOK, QueueTypeOK, BaseTypeOK
<1> QED BY <1>1, AbortTypes DEF RowMissing

LEMMA VisitedTypes ==
  ASSUME TypeInv, NEW c \in Local, Visited(c), QueueTypeOK',
         UNCHANGED <<toolVars, clock, disturbed>>
  PROVE  TypeInv'
<1>1. EngineTypeOK'
  BY DEF Visited, TypeInv, TypeOK, EngineTypeOK
<1>2. ServerTypeOK' /\ ToolsTypeOK' /\ BaseTypeOK'
  BY DEF Visited, TypeInv, TypeOK, ServerTypeOK, ToolsTypeOK, BaseTypeOK
<1>3. PageOK'
  BY DEF Visited, TypeInv, PageOK
<1> QED BY <1>1, <1>2, <1>3 DEF TypeInv, TypeOK

LEMMA RollbackNextTypes ==
  ASSUME TypeInv, NEW c \in Local, RollbackNext(c), UNCHANGED <<toolVars, clock, disturbed>>
  PROVE  TypeInv'
<1>0. BaseTypeOK'
  BY DEF TypeInv, TypeOK, BaseTypeOK
<1>1. CASE HasRow(c) /\ todo = {c}
  BY <1>0, <1>1, MarkTypes, FailTypes DEF RollbackNext
<1>2. CASE HasRow(c) /\ todo # {c}
  <2>1. QueueTypeOK'
    BY <1>2, MarkTypes DEF RollbackNext
  <2> QED BY <1>2, <2>1, VisitedTypes DEF RollbackNext, Visited
<1>3. CASE ~HasRow(c)
  <2>1. QueueTypeOK'
    BY <1>3 DEF RollbackNext, TypeInv, TypeOK, QueueTypeOK
  <2> QED BY <1>0, <1>3, <2>1, AbortTypes DEF RollbackNext
<1> QED BY <1>1, <1>2, <1>3

LEMMA CommitNowTypes ==
  ASSUME TypeInv, NEW c \in Local, CommitNow(c), UNCHANGED <<toolVars, clock, disturbed>>
  PROVE  TypeInv'
  BY MarkTypes, VisitedTypes, RowMissingTypes DEF CommitNow

LEMMA AcceptNextTypes ==
  ASSUME TypeInv, NEW c \in Local, AcceptNext(c), UNCHANGED <<toolVars, clock, disturbed>>
  PROVE  TypeInv'
  BY CommitNowTypes DEF AcceptNext

LEMMA ErrorNextTypes ==
  ASSUME TypeInv, NEW c \in Local, ErrorNext(c), UNCHANGED <<toolVars, clock, disturbed>>
  PROVE  TypeInv'
  BY MarkTypes, VisitedTypes DEF ErrorNext

LEMMA UnackedNextTypes ==
  ASSUME TypeInv, NEW c \in Local, UnackedNext(c), UNCHANGED <<toolVars, clock, disturbed>>
  PROVE  TypeInv'
  BY MarkTypes, VisitedTypes, RowMissingTypes DEF UnackedNext

LEMMA KeepLocalTypes ==
  ASSUME TypeInv, NEW c \in Local, KeepLocal(c), UNCHANGED <<toolVars, clock, disturbed>>
  PROVE  TypeInv'
<1>1. Attempts(c) \in Nat
  BY DEF Attempts, TypeInv, TypeOK, QueueTypeOK
<1> QED BY <1>1, MarkTypes, VisitedTypes, RowMissingTypes DEF KeepLocal

LEMMA TakeContentTypes ==
  ASSUME TypeInv, NEW c \in Local, NEW data \in Content, TakeContent(c, data), 
         pc = "conflicts", UNCHANGED <<toolVars, clock, disturbed>>
  PROVE  TypeInv'
<1>1. change[c].key \in Key /\ answer[c].ts \in Nat
  BY DEF TypeInv, TypeOK, QueueTypeOK, ServerTypeOK, Row, Answer
<1>2. EngineTypeOK'
  BY <1>1 DEF TakeContent, StartApply, TypeInv, TypeOK, EngineTypeOK, PC
<1>3. remote'.cause # NoChange
  BY ConstantsAssumption DEF TakeContent, StartApply
<1>4. PageOK'
  BY <1>3 DEF TakeContent, StartApply, TypeInv, PageOK
<1> QED BY <1>2, <1>4, LocalStepTypes DEF TakeContent

LEMMA ResolveNextTypes ==
  ASSUME TypeInv, NEW c \in Local, ResolveNext(c), UNCHANGED <<toolVars, clock, disturbed>>
  PROVE  TypeInv'
<1>1. answer[c].data \in Content /\ \A data \in MergedContents : data \in Content
  BY PatchType DEF TypeInv, TypeOK, ServerTypeOK, Answer, MergedContents
<1>2. CASE Abort /\ UNCHANGED <<rows, cursorVars, queueVars, serverVars, request, late>>
  <2>1. QueueTypeOK' /\ BaseTypeOK'
    BY <1>2 DEF TypeInv, TypeOK, QueueTypeOK, BaseTypeOK
  <2> QED BY <1>2, <2>1, AbortTypes
<1>3. CASE MarkFailed(c) /\ Visited(c)
  BY <1>3, MarkTypes, VisitedTypes
<1>4. CASE KeepLocal(c)
  BY <1>4, KeepLocalTypes
<1>5. CASE TakeContent(c, answer[c].data) \/ \E data \in MergedContents : TakeContent(c, data)
  BY <1>1, <1>5, TakeContentTypes DEF ResolveNext
<1>6. CASE CommitNow(c)
  BY <1>6, CommitNowTypes
<1> QED BY <1>2, <1>3, <1>4, <1>5, <1>6 DEF ResolveNext

LEMMA SettleConflictTypes ==
  ASSUME TypeInv, SettleConflict, UNCHANGED <<toolVars, clock, disturbed>>
  PROVE  TypeInv'
<1> DEFINE c == remote.cause
<1>1. CASE RowMissing(c)
  BY <1>1, RowMissingTypes
<1>2. CASE HasRow(c) /\ MarkCommitted(c) /\ ~RowMissing(c)
  <2>1. QueueTypeOK'
    BY <1>2 DEF MarkCommitted, TypeInv, TypeOK, QueueTypeOK, Status, Stored
  <2>2. existing' \in BOOLEAN
    BY <1>2, Zenon DEF SettleConflict
  <2>3. NoRemote \in [key : Key, data : Content, ts : Nat, cause : Local \cup {NoChange}]
    BY SomeKey DEF NoRemote, Content
  <2>4. EngineTypeOK'
    BY <1>2, <2>2, <2>3 DEF SettleConflict, TypeInv, TypeOK, EngineTypeOK, PC
  <2>5. PageOK'
    BY <1>2 DEF SettleConflict, TypeInv, PageOK
  <2>6. ServerTypeOK' /\ ToolsTypeOK' /\ BaseTypeOK'
    BY <1>2 DEF SettleConflict, TypeInv, TypeOK, ServerTypeOK, ToolsTypeOK, BaseTypeOK
  <2> QED BY <2>1, <2>4, <2>5, <2>6 DEF TypeInv, TypeOK
<1> QED BY <1>1, <1>2 DEF SettleConflict

LEMMA PullFailTypes ==
  ASSUME TypeInv, PullOverrun \/ PullThrows, BaseTypeOK', UNCHANGED toolVars
  PROVE  TypeInv'
<1>1. QueueTypeOK'
  BY DEF PullOverrun, PullThrows, TypeInv, TypeOK, QueueTypeOK
<1> QED BY <1>1, FailTypes DEF PullOverrun, PullThrows

LEMMA WriteThrowsTypes ==
  ASSUME TypeInv, WriteThrows, BaseTypeOK', UNCHANGED toolVars
  PROVE  TypeInv'
<1>1. QueueTypeOK'
  BY DEF WriteThrows, TypeInv, TypeOK, QueueTypeOK
<1> QED BY <1>1, FailTypes, AbortTypes DEF WriteThrows

LEMMA PurgeTypes ==
  ASSUME TypeInv, Purge, BaseTypeOK', UNCHANGED toolVars
  PROVE  TypeInv'
<1>1. QueueTypeOK'
  BY DEF Purge, RemoveCommitted, TypeInv, TypeOK, QueueTypeOK, Status
<1> QED BY <1>1, FailTypes DEF Purge, Fail

LEMMA ApplyNextTypes ==
  ASSUME TypeInv, ApplyNext, UNCHANGED <<toolVars, clock, disturbed>>
  PROVE  TypeInv'
<1> DEFINE e == log[at + 1]
           p == snap[e.key]
<1>0. BaseTypeOK' /\ ToolsTypeOK'
  BY DEF TypeInv, TypeOK, BaseTypeOK, ToolsTypeOK
<1>1. at + 1 \in 1..Len(log) /\ at < upto
  BY DEF ApplyNext, TypeInv, TypeOK, PageOK, EngineTypeOK, ServerTypeOK
<1>2. e \in Entry
  BY <1>1 DEF TypeInv, TypeOK, ServerTypeOK
<1>3. e.key \in Key /\ e.data \in Content /\ e.ts \in Nat
  BY <1>2 DEF Entry
<1>4. p \in Local \cup {NoChange}
  BY <1>3 DEF TypeInv, TypeOK, EngineTypeOK
<1>5. CASE IsReplay(p, e) /\ UNCHANGED <<queueVars, serverVars, wireVars>> /\ at' = at + 1
  <2>1. EngineTypeOK'
    BY <1>5 DEF ApplyNext, TypeInv, TypeOK, EngineTypeOK
  <2>2. PageOK'
    BY <1>1, <1>5 DEF ApplyNext, TypeInv, TypeOK, PageOK, EngineTypeOK
  <2> QED BY <1>5, <2>1, <2>2, LocalStepTypes
<1>6. CASE ~IsReplay(p, e) /\ p = NoChange
  <2>1. EngineTypeOK'
    BY <1>3, <1>6 DEF ApplyNext, StartApply, TypeInv, TypeOK, EngineTypeOK, PC
  <2>2. PageOK'
    BY <1>1, <1>6 DEF ApplyNext, StartApply, TypeInv, PageOK
  <2>3. UNCHANGED <<queueVars, serverVars, wireVars>>
    BY <1>6 DEF ApplyNext
  <2> QED BY <2>1, <2>2, <2>3, LocalStepTypes
<1>7. CASE ~IsReplay(p, e) /\ p # NoChange /\ HasRow(p)
  <2>1. QueueTypeOK'
    BY <1>4, <1>7, MarkTypes DEF ApplyNext
  <2>2. EngineTypeOK'
    BY <1>3, <1>7 DEF ApplyNext, StartApply, TypeInv, TypeOK, EngineTypeOK, PC
  <2>3. PageOK'
    BY <1>1, <1>7 DEF ApplyNext, StartApply, TypeInv, PageOK
  <2>4. ServerTypeOK'
    BY <1>7 DEF ApplyNext, TypeInv, TypeOK, ServerTypeOK
  <2> QED BY <1>0, <2>1, <2>2, <2>3, <2>4 DEF TypeInv, TypeOK
<1>8. CASE ~IsReplay(p, e) /\ p # NoChange /\ ~HasRow(p)
  <2>1. QueueTypeOK'
    BY <1>8 DEF ApplyNext, TypeInv, TypeOK, QueueTypeOK
  <2> QED BY <1>0, <1>8, <2>1, FailTypes DEF ApplyNext
<1> QED BY <1>5, <1>6, <1>7, <1>8 DEF ApplyNext

-----------------------------------------------------------------------------
\* The server and the wire.

\* Whatever the server does, what it leaves the client keeps its bounds.
LEMMA ServerSideTypes ==
  ASSUME TypeInv, ServerTypeOK', BaseTypeOK', Len(log') >= Len(log), 
         UNCHANGED <<queueVars, engineVars, toolVars>>
  PROVE  TypeInv'
<1>1. QueueTypeOK' /\ EngineTypeOK' /\ ToolsTypeOK'
  BY DEF TypeInv, TypeOK, QueueTypeOK, EngineTypeOK, ToolsTypeOK
<1>2. Len(log) \in Nat /\ Len(log') \in Nat
  BY DEF TypeInv, TypeOK, ServerTypeOK
<1>3. PageOK'
  BY <1>2 DEF TypeInv, TypeOK, PageOK, EngineTypeOK
<1> QED BY <1>1, <1>3 DEF TypeInv, TypeOK

LEMMA AcceptTypes ==
  ASSUME TypeInv, NEW k \in Key, NEW w \in Write, NEW data \in Content, Accept(k, w, data)
  PROVE  /\ records' \in [Key -> [data : Content, at : Nat]]
         /\ log' \in Seq(Entry)
         /\ Len(log') = Len(log) + 1
<1>1. ServerNow \in Nat
  BY ConstantsAssumption DEF ServerNow, TypeInv, TypeOK, BaseTypeOK
<1>2. [key |-> k, by |-> w, data |-> data, ts |-> ServerNow] \in Entry
  BY <1>1 DEF Entry
<1>3. log \in Seq(Entry) /\ records \in [Key -> [data : Content, at : Nat]]
  BY DEF TypeInv, TypeOK, ServerTypeOK
<1> QED BY <1>1, <1>2, <1>3 DEF Accept

LEMMA ChangeTypes ==
  ASSUME TypeInv, NEW c \in Local
  PROVE  /\ c \in Write /\ change[c].key \in Key /\ change[c].ts \in Nat
         /\ DataOf(c) \in Content
  BY DEF TypeInv, TypeOK, QueueTypeOK, Row, Write, Content, DataOf

LEMMA ServeTypes ==
  ASSUME TypeInv, NEW c \in Local, Serve(c),
         UNCHANGED <<queueVars, engineVars, toolVars, clock, disturbed>>
  PROVE  TypeInv'
<1>0. BaseTypeOK'
  BY DEF TypeInv, TypeOK, BaseTypeOK
<1>1. ServerNow \in Nat
  BY ConstantsAssumption DEF ServerNow, TypeInv, TypeOK, BaseTypeOK
<1>2. request' \in SUBSET Local /\ late' \in SUBSET Local
  BY DEF Serve, TypeInv, TypeOK, ServerTypeOK
<1>3. CASE Conflicts(c)
  <2>1. records[change[c].key] \in [data : Content, at : Nat]
    BY ChangeTypes DEF TypeInv, TypeOK, ServerTypeOK
  <2> DEFINE given == [kind |-> "conflict", data |-> records[change[c].key].data,
                       ts |-> records[change[c].key].at]
  <2>a. given \in Answer
    BY <2>1 DEF Answer
  <2>b. answer' = [answer EXCEPT ![c] = given]
    BY <1>3 DEF Serve
  <2> HIDE DEF given
  <2>2. answer' \in [Local -> Answer]
    BY <2>a, <2>b DEF TypeInv, TypeOK, ServerTypeOK
  <2>3. ServerTypeOK' /\ log' = log
    BY <1>2, <1>3, <2>2 DEF Serve, TypeInv, TypeOK, ServerTypeOK
  <2> QED BY <1>0, <2>3, ServerSideTypes DEF TypeInv, TypeOK, ServerTypeOK
<1>4. CASE ~Conflicts(c)
  <2> DEFINE given == [kind |-> "accepted", data |-> DataOf(c), ts |-> ServerNow]
  <2>a. given \in Answer
    BY <1>1, ChangeTypes DEF Answer
  <2>b. answer' = [answer EXCEPT ![c] = given]
    BY <1>4 DEF Serve
  <2> HIDE DEF given
  <2>1. answer' \in [Local -> Answer]
    BY <2>a, <2>b DEF TypeInv, TypeOK, ServerTypeOK
  <2>2. ServerTypeOK' /\ Len(log') = Len(log) + 1
    BY <1>2, <1>4, <2>1, ChangeTypes, AcceptTypes DEF Serve, ServerTypeOK
  <2> QED BY <1>0, <2>2, ServerSideTypes DEF TypeInv, TypeOK, ServerTypeOK
<1> QED BY <1>3, <1>4

LEMMA ServeLateTypes ==
  ASSUME TypeInv, NEW c \in Local, ServeLate(c),
         UNCHANGED <<queueVars, engineVars, toolVars, clock, disturbed>>
  PROVE  TypeInv'
<1>0. BaseTypeOK'
  BY DEF TypeInv, TypeOK, BaseTypeOK
<1>1. CASE Conflicts(c)
  <2>1. ServerTypeOK' /\ log' = log
    BY <1>1 DEF ServeLate, TypeInv, TypeOK, ServerTypeOK
  <2> QED BY <1>0, <2>1, ServerSideTypes DEF TypeInv, TypeOK, ServerTypeOK
<1>2. CASE ~Conflicts(c)
  <2>1. ServerTypeOK' /\ Len(log') = Len(log) + 1
    BY <1>2, ChangeTypes, AcceptTypes DEF ServeLate, TypeInv, TypeOK, ServerTypeOK
  <2> QED BY <1>0, <2>1, ServerSideTypes DEF TypeInv, TypeOK, ServerTypeOK
<1> QED BY <1>1, <1>2

LEMMA RemoteAccepts ==
  ASSUME TypeInv, NEW w \in Remote, NEW k \in Key, RemoteWrite(w, k)
  PROVE  w \in Write /\ \E data \in Content : Accept(k, w, data)
<1>1. w \in Write
  BY DEF Write
<1>2. \A i \in 1..Len(log) : log[i].data \in Content
  <2>1. \A i \in 1..Len(log) : log[i] \in Entry
    BY DEF TypeInv, TypeOK, ServerTypeOK
  <2> QED BY <2>1 DEF Entry
<1>3. Copies(k) \subseteq Content
  BY <1>2 DEF Copies, Content
<1>4. \A copy \in Copies(k), fields \in Forms : Merge(copy, Patch(fields, w)) \in Content
  BY <1>1, <1>3, PatchType, MergeType
<1>5. RemoteContents(w, k) \subseteq Content
  BY <1>4 DEF RemoteContents, Content
<1> QED BY <1>1, <1>5 DEF RemoteWrite

LEMMA RemoteWriteTypes ==
  ASSUME TypeInv, NEW w \in Remote, NEW k \in Key, RemoteWrite(w, k),
         UNCHANGED <<queueVars, engineVars, toolVars, clock, disturbed>>
  PROVE  TypeInv'
<1>0. BaseTypeOK'
  BY DEF TypeInv, TypeOK, BaseTypeOK
<1>1. ServerTypeOK' /\ Len(log') = Len(log) + 1
  BY RemoteAccepts, AcceptTypes DEF RemoteWrite, TypeInv, TypeOK, ServerTypeOK
<1> QED BY <1>0, <1>1, ServerSideTypes DEF TypeInv, TypeOK, ServerTypeOK

LEMMA RefuseTypes ==
  ASSUME TypeInv, NEW c \in Local, Refuse(c) \/ Ignore(c),
         UNCHANGED <<queueVars, engineVars, toolVars, clock>>
  PROVE  TypeInv'
<1>0. BaseTypeOK'
  BY DEF Refuse, Ignore, Disturb, TypeInv, TypeOK, BaseTypeOK
<1>a. [answer EXCEPT ![c].kind = "error"] \in [Local -> Answer]
  BY DEF TypeInv, TypeOK, ServerTypeOK, Answer
<1>b. answer' \in [Local -> Answer]
  BY <1>a DEF Refuse, Ignore, TypeInv, TypeOK, ServerTypeOK
<1>1. ServerTypeOK' /\ log' = log
  BY <1>b DEF Refuse, Ignore, TypeInv, TypeOK, ServerTypeOK
<1> QED BY <1>0, <1>1, ServerSideTypes DEF TypeInv, TypeOK, ServerTypeOK

LEMMA PushThrowsTypes ==
  ASSUME TypeInv, PushThrows, UNCHANGED <<toolVars, clock>>
  PROVE  TypeInv'
<1>0. BaseTypeOK'
  BY DEF PushThrows, Disturb, TypeInv, TypeOK, BaseTypeOK
<1>1. AllUnanswered \in [Local -> Answer]
  BY DEF AllUnanswered, NoAnswer, Answer, Content
<1>2. ServerTypeOK'
  BY <1>1 DEF PushThrows, GiveUp, TypeInv, TypeOK, ServerTypeOK
<1>3. QueueTypeOK' /\ ToolsTypeOK'
  BY DEF PushThrows, TypeInv, TypeOK, QueueTypeOK, ToolsTypeOK
<1>4. EngineTypeOK'
  BY DEF PushThrows, TypeInv, TypeOK, EngineTypeOK, PC
<1>5. PageOK'
  BY DEF PushThrows, TypeInv, PageOK
<1> QED BY <1>0, <1>2, <1>3, <1>4, <1>5 DEF TypeInv, TypeOK

-----------------------------------------------------------------------------
\* The queue's maintenance, the application, crashes.

\* Steps that leave the engine, the server and the wire alone.
LEMMA QueueStepTypes ==
  ASSUME TypeInv, QueueTypeOK', ToolsTypeOK', BaseTypeOK',
         UNCHANGED <<engineVars, serverVars, wireVars>>
  PROVE  TypeInv'
<1>1. ServerTypeOK' /\ EngineTypeOK'
  BY DEF TypeInv, TypeOK, ServerTypeOK, EngineTypeOK
<1>2. PageOK'
  BY DEF TypeInv, PageOK
<1> QED BY <1>1, <1>2 DEF TypeInv, TypeOK

LEMMA CompactTypes ==
  ASSUME TypeInv, CompactPlan \/ CompactDelete \/ (\E c \in Local : CompactCheck(c)),
         BaseTypeOK'
  PROVE  TypeInv'
<1>1. QueueTypeOK'
  BY DEF CompactPlan, CompactDelete, CompactCheck, TypeInv, TypeOK, QueueTypeOK, Status
<1>2. ToolsTypeOK'
  BY DEF CompactPlan, CompactDelete, CompactCheck, TypeInv, TypeOK, ToolsTypeOK,
         Queued, ByStatus
<1>3. UNCHANGED <<engineVars, serverVars, wireVars>>
  BY DEF CompactPlan, CompactDelete, CompactCheck
<1> QED BY <1>1, <1>2, <1>3, QueueStepTypes

LEMMA ToolTypes ==
  ASSUME TypeInv, RetryPlan \/ ClearCommitted \/ (\E c \in Local : RetryNext(c)),
         BaseTypeOK'
  PROVE  TypeInv'
<1>1. QueueTypeOK'
  BY DEF RetryPlan, RetryNext, MarkPending, ClearCommitted, RemoveCommitted, TypeInv,
         TypeOK, QueueTypeOK, Status, Stored
<1>2. ToolsTypeOK'
  BY DEF RetryPlan, RetryNext, ClearCommitted, TypeInv, TypeOK, ToolsTypeOK, ByStatus
<1> QED BY <1>1, <1>2, QueueStepTypes DEF RetryPlan, RetryNext, ClearCommitted

LEMMA WrittenType ==
  ASSUME TypeInv, NEW c \in Local, NEW k \in Key, NEW type \in ChangeType, NEW fields \in Forms
  PROVE  /\ Written(c, k, type, fields) \in Content
         /\ Written(c, k, type, fields) = Absent <=> type = "delete"
<1>1. c \in Write /\ rows[k] \in Content /\ Absent \in Content
  BY DEF TypeInv, TypeOK, EngineTypeOK, Write, Content
<1>2. type # "delete" => Written(c, k, type, fields) \in Record
  BY <1>1, PatchType, MergeType DEF Written
<1> QED BY <1>1, <1>2, RecordAssumption DEF Written, Content

\* What a local write leaves of the record is queued with the change.
LEMMA LocalWriteContent ==
  ASSUME TypeInv, NEW c \in Local, NEW k \in Key, NEW type \in ChangeType,
         LocalWrite(c, k, type)
  PROVE  \E data \in Content :
            /\ data = Absent <=> type = "delete"
            /\ status' = [status EXCEPT ![c] = "hooking"]
            /\ change' = [change EXCEPT ![c] =
                            [key |-> k, type |-> type, ts |-> 0, data |-> data]]
            /\ rows' = [rows EXCEPT ![k] = data]
<1>1. PICK fields \in Forms :
         /\ status' = [status EXCEPT ![c] = "hooking"]
         /\ change' = [change EXCEPT ![c] =
                         [key |-> k, type |-> type, ts |-> 0,
                          data |-> Written(c, k, type, fields)]]
         /\ rows' = [rows EXCEPT ![k] = Written(c, k, type, fields)]
  BY Zenon DEF LocalWrite
<1>2. Written(c, k, type, fields) \in Content
      /\ (Written(c, k, type, fields) = Absent <=> type = "delete")
  BY WrittenType
<1> QED BY <1>1, <1>2, Zenon

LEMMA LocalWriteTypes ==
  ASSUME TypeInv, NEW c \in Local, NEW k \in Key, NEW type \in ChangeType,
         LocalWrite(c, k, type), UNCHANGED <<clock, disturbed>>
  PROVE  TypeInv'
<1>0. PICK data \in Content :
         /\ data = Absent <=> type = "delete"
         /\ status' = [status EXCEPT ![c] = "hooking"]
         /\ change' = [change EXCEPT ![c] = [key |-> k, type |-> type, ts |-> 0, data |-> data]]
         /\ rows' = [rows EXCEPT ![k] = data]
  BY LocalWriteContent
<1>1. QueueTypeOK'
  <2>1. [key |-> k, type |-> type, ts |-> 0, data |-> data] \in Row
    BY <1>0 DEF Row
  <2> QED BY <1>0, <2>1 DEF LocalWrite, TypeInv, TypeOK, QueueTypeOK, Status
<1>3. EngineTypeOK'
  BY <1>0 DEF LocalWrite, TypeInv, TypeOK, EngineTypeOK
<1>4. PageOK'
  BY DEF LocalWrite, TypeInv, PageOK
<1>5. BaseTypeOK' /\ ServerTypeOK' /\ ToolsTypeOK'
  BY DEF LocalWrite, TypeInv, TypeOK, BaseTypeOK, ServerTypeOK, ToolsTypeOK
<1> QED BY <1>1, <1>3, <1>4, <1>5 DEF TypeInv, TypeOK

LEMMA QueueWriteTypes ==
  ASSUME TypeInv, NEW c \in Local, QueueWrite(c) \/ QueueWriteFails(c), BaseTypeOK'
  PROVE  TypeInv'
<1>1. ClientNow \in Nat
  BY ConstantsAssumption DEF ClientNow, TypeInv, TypeOK, BaseTypeOK
<1>2. QueueTypeOK'
  BY <1>1 DEF QueueWrite, QueueWriteFails, AppendRow, TypeInv, TypeOK, QueueTypeOK,
              Status, Stored, Row
<1>3. ToolsTypeOK' /\ UNCHANGED <<engineVars, serverVars, wireVars>>
  BY DEF QueueWrite, QueueWriteFails, TypeInv, TypeOK, ToolsTypeOK
<1> QED BY <1>2, <1>3, QueueStepTypes

LEMMA CrashTypes ==
  ASSUME TypeInv, Crash, UNCHANGED clock
  PROVE  TypeInv'
<1>1. QueueTypeOK' /\ ToolsTypeOK'
  BY DEF Crash, TypeInv, TypeOK, QueueTypeOK, ToolsTypeOK, Status
<1>2. BaseTypeOK'
  BY DEF Crash, Disturb, TypeInv, TypeOK, BaseTypeOK
<1>3. ServerTypeOK'
  BY ForgetTypes DEF Crash, GiveUp, TypeInv, TypeOK, ServerTypeOK
<1>4. CycleTypeOK' /\ aborted' \in BOOLEAN
  BY ForgetTypes DEF Crash
<1>5. EngineTypeOK'
  BY <1>4 DEF Crash, TypeInv, TypeOK, EngineTypeOK, CycleTypeOK, PC
<1>6. PageOK'
  BY DEF Crash, ForgetCycle, TypeInv, TypeOK, PageOK, ServerTypeOK
<1> QED BY <1>1, <1>2, <1>3, <1>5, <1>6 DEF TypeInv, TypeOK

LEMMA RestartTypes ==
  ASSUME TypeInv, Restart, UNCHANGED <<clock, disturbed>>
  PROVE  TypeInv'
<1>1. QueueTypeOK'
  BY DEF Restart, Recover, TypeInv, TypeOK, QueueTypeOK, Status, Stored
<1>2. EngineTypeOK'
  BY DEF Restart, TypeInv, TypeOK, EngineTypeOK, PC
<1>3. PageOK'
  BY DEF Restart, TypeInv, PageOK
<1>4. BaseTypeOK' /\ ServerTypeOK' /\ ToolsTypeOK'
  BY DEF Restart, TypeInv, TypeOK, BaseTypeOK, ServerTypeOK, ToolsTypeOK
<1> QED BY <1>1, <1>2, <1>3, <1>4 DEF TypeInv, TypeOK

-----------------------------------------------------------------------------
LEMMA ClientStepTypes ==
  ASSUME TypeInv, ClientStep, Calm, UNCHANGED clock
  PROVE  TypeInv'
<1>1. UNCHANGED <<toolVars, clock, disturbed>> /\ BaseTypeOK'
  BY DEF ClientStep, Calm, TypeInv, TypeOK, BaseTypeOK
<1>2. CASE BeginSync \/ SelectBatch \/ ReceiveAnswer \/ NextList \/ SettleConflict
  BY <1>1, <1>2, BeginSyncTypes, SelectBatchTypes, ReceiveAnswerTypes, NextListTypes,
     SettleConflictTypes
<1>3. CASE PullPage \/ ApplyNext \/ ReadExisting \/ WriteRow \/ PageDone
  BY <1>1, <1>3, PullPageTypes, ApplyNextTypes, ReadExistingTypes, WriteRowTypes,
     PageDoneTypes
<1>4. CASE SaveCursor \/ Purge \/ PullOverrun \/ WriteRaces \/ WriteInvalid
  BY <1>1, <1>4, SaveCursorTypes, PurgeTypes, PullFailTypes, WriteThrowsTypes
  DEF WriteRaces, WriteInvalid
<1>5. ASSUME NEW c \in Local,
             \/ MarkNext(c) \/ RollbackNext(c) \/ AcceptNext(c) \/ ResolveNext(c)
             \/ ErrorNext(c) \/ UnackedNext(c)
      PROVE  TypeInv'
  BY <1>1, <1>5, MarkNextTypes, RollbackNextTypes, AcceptNextTypes, ResolveNextTypes,
     ErrorNextTypes, UnackedNextTypes
<1> QED BY <1>2, <1>3, <1>4, <1>5 DEF ClientStep, CycleStep

LEMMA NextTypes == TypeInv /\ [Next]_vars => TypeInv'
<1> SUFFICES ASSUME TypeInv, [Next]_vars PROVE TypeInv'
  OBVIOUS
<1>1. CASE Tick
  <2>1. BaseTypeOK'
    BY <1>1 DEF Tick, TypeInv, TypeOK, BaseTypeOK
  <2>2. QueueTypeOK' /\ ToolsTypeOK' /\ UNCHANGED <<engineVars, serverVars, wireVars>>
    BY <1>1 DEF Tick, TypeInv, TypeOK, QueueTypeOK, ToolsTypeOK
  <2> QED BY <2>1, <2>2, QueueStepTypes
<1>2. CASE CalmStep /\ Calm /\ UNCHANGED clock
  <2>0. UNCHANGED <<clock, disturbed>> /\ BaseTypeOK'
    BY <1>2 DEF Calm, TypeInv, TypeOK, BaseTypeOK
  <2>1. CASE ClientStep
    BY <1>2, <2>1, ClientStepTypes
  <2>2. CASE ServerStep
    BY <2>0, <2>2, ServeTypes, ServeLateTypes DEF ServerStep
  <2>3. CASE ToolStep
    BY <2>0, <2>3, CompactTypes, ToolTypes DEF ToolStep
  <2>4. CASE AppStep
    BY <2>0, <2>4, LocalWriteTypes DEF AppStep
  <2>5. CASE HookStep
    BY <2>0, <2>5, QueueWriteTypes DEF HookStep
  <2>6. CASE OthersStep
    BY <2>0, <2>6, RemoteWriteTypes DEF OthersStep
  <2>7. CASE Restart
    BY <2>0, <2>7, RestartTypes
  <2> QED BY <1>2, <2>1, <2>2, <2>3, <2>4, <2>5, <2>6, <2>7 DEF CalmStep
<1>3. CASE DisturbedStep /\ UNCHANGED clock
  <2>0. BaseTypeOK'
    BY <1>3 DEF DisturbedStep, PushThrows, PullThrows, Refuse, Ignore,
                QueueWriteFails, CompactPlan, RetryPlan, ClearCommitted, Crash, Disturb,
                TypeInv, TypeOK, BaseTypeOK
  <2>1. CASE (PushThrows \/ PullThrows) /\ UNCHANGED toolVars
    BY <1>3, <2>0, <2>1, PushThrowsTypes, PullFailTypes, WriteThrowsTypes
  <2>2. CASE \E c \in Local :
                (Refuse(c) \/ Ignore(c)) /\ UNCHANGED <<queueVars, engineVars, toolVars>>
    BY <1>3, <2>2, RefuseTypes
  <2>3. CASE \E c \in Local : QueueWriteFails(c)
    BY <2>0, <2>3, QueueWriteTypes
  <2>4. CASE CompactPlan \/ RetryPlan \/ ClearCommitted
    BY <2>0, <2>4, CompactTypes, ToolTypes
  <2>5. CASE Crash
    BY <1>3, <2>5, CrashTypes
  <2> QED BY <1>3, <2>1, <2>2, <2>3, <2>4, <2>5 DEF DisturbedStep
<1>4. CASE UNCHANGED vars
  <2>1. QueueTypeOK' /\ ToolsTypeOK' /\ BaseTypeOK'
    BY <1>4 DEF TypeInv, TypeOK, QueueTypeOK, ToolsTypeOK, BaseTypeOK
  <2> QED BY <1>4, <2>1, QueueStepTypes
<1> QED BY <1>1, <1>2, <1>3, <1>4 DEF Next

\* Type correctness: every variable keeps the type the module declares.
THEOREM TypeCorrect == Spec => []TypeOK
<1>1. Spec => []TypeInv
  BY InitTypes, NextTypes, PTL DEF Spec
<1>2. TypeInv => TypeOK
  BY DEF TypeInv
<1> QED BY <1>1, <1>2, PTL

-----------------------------------------------------------------------------
(* Committed changes are covered. *)

\* What never changes once it is there: a change that entered the queue, and
\* an entry of the server's log.
QueueKept ==
    /\ Entered \subseteq Entered'
    /\ \A c \in Entered : change'[c] = change[c]

LogKept ==
    /\ Len(log) <= Len(log')
    /\ \A i \in 1..Len(log) : log'[i] = log[i]

HistoryKept == QueueKept /\ LogKept

\* No change becomes committed in this step.
NoNewCommit ==
    \A c \in Local : status'[c] \in {"committed", "removed"}
                        => status[c] \in {"committed", "removed"}

LEMMA MarkKeepsQueue ==
  ASSUME TypeInv, NEW c \in Local, HasRow(c),
         \/ MarkPending(c) \/ MarkCommitted(c) \/ MarkSyncing(c)
         \/ \E n \in Nat : MarkPendingWithRetries(c, n)
  PROVE  QueueKept
  BY DEF TypeInv, TypeOK, QueueTypeOK, HasRow, Stored, Status, QueueKept, Entered,
         MarkPending, MarkCommitted, MarkSyncing, MarkPendingWithRetries

LEMMA FailKeepsQueue ==
  ASSUME TypeInv, NEW c \in Local, MarkFailed(c)
  PROVE  QueueKept /\ NoNewCommit
  BY DEF TypeInv, TypeOK, QueueTypeOK, HasRow, Stored, Status, QueueKept, NoNewCommit,
         Entered, MarkFailed

LEMMA SweepKeepsQueue ==
  ASSUME TypeInv, UnmarkSyncing(batch \ todo) \/ RemoveCommitted \/ Recover
  PROVE  QueueKept /\ NoNewCommit
  BY DEF TypeInv, TypeOK, QueueTypeOK, HasRow, Stored, Status, QueueKept, NoNewCommit,
         Entered, UnmarkSyncing, RemoveCommitted, Recover

LEMMA SameQueue == UNCHANGED queueVars => QueueKept /\ NoNewCommit
  BY DEF QueueKept, NoNewCommit, Entered

LEMMA SameLog == log' = log => LogKept
  BY DEF LogKept

LEMMA AcceptKeepsLog ==
  ASSUME TypeInv, NEW k \in Key, NEW w \in Write, NEW data \in Content, Accept(k, w, data)
  PROVE  LogKept
<1>1. log \in Seq(Entry)
  BY DEF TypeInv, TypeOK, ServerTypeOK
<1> QED BY <1>1 DEF LogKept, Accept

-----------------------------------------------------------------------------
\* What a step that keeps the history preserves, conjunct by conjunct.

LEMMA CoveredKept ==
  ASSUME HistoryKept, NEW c \in Entered, Covered(c), TypeInv
  PROVE  Covered(c)'
<1>1. PICK i \in 1..Len(log) :
          /\ log[i].key = change[c].key
          /\ log[i].by = c \/ log[i].ts >= change[c].ts \/ ~NewestWins
  BY DEF Covered
<1>2. i \in 1..Len(log') /\ log'[i] = log[i] /\ change'[c] = change[c]
  BY DEF HistoryKept, LogKept, QueueKept, TypeInv, TypeOK, ServerTypeOK
<1> QED BY <1>1, <1>2 DEF Covered, NewestWins

LEMMA CommittedKept ==
  ASSUME CoverInv, HistoryKept, NoNewCommit
  PROVE  CommittedIsCovered'
<1> SUFFICES ASSUME NEW c \in Local, status'[c] \in {"committed", "removed"}
             PROVE  Covered(c)'
  BY DEF CommittedIsCovered
<1>1. c \in Entered /\ Covered(c)
  BY DEF NoNewCommit, CoverInv, CommittedIsCovered, Entered
<1> QED BY <1>1, CoveredKept DEF CoverInv

LEMMA RecordsKept ==
  ASSUME CoverInv, LogKept, UNCHANGED records
  PROVE  RecordsAreLogged'
<1> SUFFICES ASSUME NEW k \in Key, Holds(k)'
             PROVE  \E i \in 1..Len(log') : log'[i].key = k /\ log'[i].ts = records[k].at
  BY DEF RecordsAreLogged
<1>1. PICK i \in 1..Len(log) : log[i].key = k /\ log[i].ts = records[k].at
  BY DEF CoverInv, RecordsAreLogged, Holds
<1> QED BY <1>1 DEF LogKept, CoverInv, TypeInv, TypeOK, ServerTypeOK

\* The part of AnswersAreLogged about one change.
AnswerIsLogged(c) ==
    /\ answer[c].kind = "accepted" =>
          \E i \in 1..Len(log) : log[i].key = change[c].key /\ log[i].by = c
    /\ answer[c].kind = "conflict" =>
          /\ \E i \in 1..Len(log) :
                log[i].key = change[c].key /\ log[i].ts = answer[c].ts
          /\ change[c].type = "delete" => answer[c].ts > change[c].ts

LEMMA AnswerKept ==
  ASSUME CoverInv, HistoryKept, NEW c \in Local, answer'[c] = answer[c]
  PROVE  AnswerIsLogged(c)'
<1>0. Len(log) \in Nat /\ Len(log') >= Len(log) /\ 1..Len(log) \subseteq 1..Len(log')
  BY DEF CoverInv, TypeInv, TypeOK, ServerTypeOK, HistoryKept, LogKept
<1>1. CASE answer[c].kind = "accepted"
  <2>1. change'[c] = change[c]
    BY <1>1 DEF CoverInv, InFlightIsEntered, HistoryKept, QueueKept
  <2>2. PICK i \in 1..Len(log) : log[i].key = change[c].key /\ log[i].by = c
    BY <1>1 DEF CoverInv, AnswersAreLogged
  <2>3. i \in 1..Len(log') /\ log'[i] = log[i]
    BY <1>0 DEF HistoryKept, LogKept
  <2> QED BY <1>1, <2>1, <2>2, <2>3 DEF AnswerIsLogged
<1>2. CASE answer[c].kind = "conflict"
  <2>1. change'[c] = change[c]
    BY <1>2 DEF CoverInv, InFlightIsEntered, HistoryKept, QueueKept
  <2>2. PICK i \in 1..Len(log) : log[i].key = change[c].key /\ log[i].ts = answer[c].ts
    BY <1>2 DEF CoverInv, AnswersAreLogged
  <2>3. i \in 1..Len(log') /\ log'[i] = log[i]
    BY <1>0 DEF HistoryKept, LogKept
  <2>4. change[c].type = "delete" => answer[c].ts > change[c].ts
    BY <1>2 DEF CoverInv, AnswersAreLogged
  <2> QED BY <1>2, <2>1, <2>2, <2>3, <2>4 DEF AnswerIsLogged
<1>3. CASE answer[c].kind \notin {"accepted", "conflict"}
  BY <1>3 DEF AnswerIsLogged
<1> QED BY <1>1, <1>2, <1>3

LEMMA AnswersKept ==
  ASSUME CoverInv, HistoryKept, answer' = answer \/ answer' = AllUnanswered
  PROVE  AnswersAreLogged'
<1> SUFFICES ASSUME NEW c \in Local PROVE AnswerIsLogged(c)'
  BY DEF AnswersAreLogged, AnswerIsLogged
<1>1. CASE answer' = answer
  BY <1>1, AnswerKept
<1>2. CASE answer' = AllUnanswered
  BY <1>2 DEF AnswerIsLogged, AllUnanswered, NoAnswer
<1> QED BY <1>1, <1>2

LEMMA SnapshotKept ==
  ASSUME CoverInv, HistoryKept, snap' = snap \/ snap' = NoSnapshot
  PROVE  SnapshotMatches'
  BY DEF CoverInv, SnapshotMatches, InFlightIsEntered, HistoryKept, QueueKept, NoSnapshot

LEMMA CauseKept ==
  ASSUME CoverInv, HistoryKept, remote'.cause \in {remote.cause, NoChange},
         pc' = "settle" => remote'.cause # NoChange
  PROVE  CauseIsCovered'
<1>1. CASE remote'.cause = NoChange
  BY <1>1 DEF CauseIsCovered
<1>2. CASE remote'.cause # NoChange
  <2>1. PICK c \in Entered : c = remote.cause
    BY <1>2 DEF CoverInv, InFlightIsEntered
  <2>2. Covered(c)
    BY <1>2, <2>1 DEF CoverInv, CauseIsCovered
  <2>3. Covered(c)'
    BY <2>2, CoveredKept DEF CoverInv
  <2>4. remote'.cause = c
    BY <1>2, <2>1
  <2> QED BY <1>2, <2>3, <2>4 DEF CauseIsCovered, Covered
<1> QED BY <1>1, <1>2

\* What is left to show of a step of the cycle that commits nothing.
LEMMA QuietStep ==
  ASSUME CoverInv, TypeInv', QueueKept, NoNewCommit, UNCHANGED serverVars,
         answer' = answer \/ answer' = AllUnanswered,
         snap' = snap \/ snap' = NoSnapshot,
         remote'.cause \in {remote.cause, NoChange},
         pc' = "settle" => remote'.cause # NoChange,
         batch' \subseteq Entered, todo' \subseteq batch',
         request' \subseteq Entered, late' \subseteq Entered,
         ServedWhileSent', ListIsAnswered'
  PROVE  CoverInv'
<1>1. HistoryKept
  BY SameLog DEF HistoryKept
<1>2. InFlightIsEntered'
  <2>1. \A c \in Local : answer'[c].kind # "none" => c \in Entered
    <3>1. CASE answer' = answer
      BY <3>1 DEF CoverInv, InFlightIsEntered
    <3>2. CASE answer' = AllUnanswered
      BY <3>2 DEF AllUnanswered, NoAnswer
    <3> QED BY <3>1, <3>2
  <2>2. \A k \in Key : snap'[k] # NoChange => snap'[k] \in Entered
    BY DEF CoverInv, InFlightIsEntered, NoSnapshot
  <2>3. remote'.cause # NoChange => remote'.cause \in Entered
    BY DEF CoverInv, InFlightIsEntered
  <2> QED BY <2>1, <2>2, <2>3 DEF InFlightIsEntered, QueueKept
<1>3. RecordsAreLogged' /\ AnswersAreLogged' /\ SnapshotMatches'
  BY <1>1, RecordsKept, AnswersKept, SnapshotKept DEF HistoryKept
<1>4. CauseIsCovered' /\ CommittedIsCovered'
  BY <1>1, CauseKept, CommittedKept
<1> QED BY <1>2, <1>3, <1>4 DEF CoverInv

\* The end of a cycle, by an exception or not.
LEMMA CycleEnds ==
  ASSUME CoverInv, TypeInv', EndCycle, QueueKept, NoNewCommit,
         UNCHANGED <<serverVars, request, late>>, pc # "sent"
  PROVE  CoverInv'
<1>1. /\ batch' = {} /\ todo' = {} /\ pc' = "idle" /\ remote'.cause = NoChange
      /\ answer' = AllUnanswered /\ snap' = NoSnapshot
  BY DEF EndCycle, ForgetCycle, NoRemote
<1>2. request = {} /\ late \subseteq Entered
  BY DEF CoverInv, ServedWhileSent, InFlightIsEntered
<1>3. ServedWhileSent' /\ ListIsAnswered'
  BY <1>1, <1>2 DEF ServedWhileSent, ListIsAnswered, Resolving
<1> QED BY <1>1, <1>2, <1>3, QuietStep

LEMMA RowMissingCover ==
  ASSUME CoverInv, TypeInv', NEW c, RowMissing(c), pc # "sent"
  PROVE  CoverInv'
  BY CycleEnds, SameQueue DEF RowMissing, Abort

LEMMA ThrowsCover ==
  ASSUME CoverInv, TypeInv', PullOverrun \/ PullThrows \/ WriteThrows
  PROVE  CoverInv'
  BY CycleEnds, SameQueue DEF PullOverrun, PullThrows, WriteThrows, Fail, Abort

LEMMA PurgeCover ==
  ASSUME CoverInv, TypeInv', Purge
  PROVE  CoverInv'
  BY CycleEnds, SweepKeepsQueue DEF Purge, CoverInv

-----------------------------------------------------------------------------
\* The steps of a cycle.

LEMMA BeginSyncCover ==
  ASSUME CoverInv, TypeInv', BeginSync
  PROVE  CoverInv'
<1>1. QueueKept /\ NoNewCommit /\ HistoryKept
  BY SameQueue, SameLog DEF BeginSync, HistoryKept
<1>2. \A k \in Key : snap'[k] # NoChange => snap'[k] \in QueuedFor(k)
  BY DEF BeginSync, Snapshots, OldestIn
<1>3. \A k \in Key : QueuedFor(k) \subseteq {c \in Entered : change[c].key = k}
  BY DEF QueuedFor, Queued, ByStatus, Entered
<1>4. InFlightIsEntered'
  BY <1>1, <1>2, <1>3 DEF BeginSync, CoverInv, InFlightIsEntered, QueueKept
<1>5. SnapshotMatches'
  BY <1>1, <1>2, <1>3 DEF SnapshotMatches, QueueKept
<1>6. ServedWhileSent' /\ ListIsAnswered'
  BY DEF BeginSync, CoverInv, ServedWhileSent, ListIsAnswered, Resolving
<1>7. RecordsAreLogged' /\ AnswersAreLogged' /\ CauseIsCovered' /\ CommittedIsCovered'
  BY <1>1, RecordsKept, AnswersKept, CauseKept, CommittedKept DEF BeginSync, HistoryKept
<1> QED BY <1>4, <1>5, <1>6, <1>7 DEF CoverInv

LEMMA SelectBatchCover ==
  ASSUME CoverInv, TypeInv', SelectBatch
  PROVE  CoverInv'
<1>1. QueueKept /\ NoNewCommit
  BY SameQueue DEF SelectBatch
<1>2. Eligible \subseteq Entered
  BY DEF Eligible, Queued, ByStatus, Entered
<1>3. batch' \subseteq Entered /\ todo' \subseteq batch' /\ pc' \in {"pull", "mark"}
  BY <1>2 DEF SelectBatch, BeginPull, CoverInv, InFlightIsEntered
<1>4. ServedWhileSent' /\ ListIsAnswered'
  BY <1>3 DEF SelectBatch, CoverInv, ServedWhileSent, ListIsAnswered, Resolving
<1>5. request' \subseteq Entered /\ late' \subseteq Entered
  BY DEF SelectBatch, CoverInv, InFlightIsEntered
<1> QED BY <1>1, <1>3, <1>4, <1>5, QuietStep DEF SelectBatch

LEMMA MarkNextCover ==
  ASSUME CoverInv, TypeInv', NEW c \in Local, MarkNext(c)
  PROVE  CoverInv'
<1>1. CASE HasRow(c)
  <2>1. QueueKept /\ NoNewCommit
    BY <1>1, MarkKeepsQueue DEF MarkNext, MarkSyncing, NoNewCommit, CoverInv, TypeInv,
                                TypeOK, QueueTypeOK
  <2>2. request = {} /\ batch \subseteq Entered /\ late \subseteq Entered
    BY DEF MarkNext, CoverInv, ServedWhileSent, InFlightIsEntered
  <2>3. todo' \subseteq batch' /\ request' \subseteq Entered /\ pc' \in {"mark", "sent"}
    BY <1>1, <2>2 DEF MarkNext, CoverInv, InFlightIsEntered
  <2>4. ServedWhileSent' /\ ListIsAnswered'
    BY <1>1, <2>2, <2>3 DEF MarkNext, ServedWhileSent, ListIsAnswered, Resolving
  <2> QED BY <1>1, <2>1, <2>2, <2>3, <2>4, QuietStep DEF MarkNext
<1>2. CASE ~HasRow(c)
  BY <1>2, CycleEnds, SweepKeepsQueue DEF MarkNext, Fail, CoverInv
<1> QED BY <1>1, <1>2

LEMMA ReceiveAnswerCover ==
  ASSUME CoverInv, TypeInv', ReceiveAnswer
  PROVE  CoverInv'
<1>1. QueueKept /\ NoNewCommit
  BY SameQueue DEF ReceiveAnswer
<1>2. todo' \subseteq batch' /\ pc' = "accepted"
  BY DEF ReceiveAnswer
<1>3. ServedWhileSent' /\ ListIsAnswered'
  BY <1>2 DEF ReceiveAnswer, ServedWhileSent, ListIsAnswered, Resolving, Answered
<1> QED BY <1>1, <1>2, <1>3, QuietStep DEF ReceiveAnswer, CoverInv, InFlightIsEntered

LEMMA PushThrowsCover ==
  ASSUME CoverInv, TypeInv', PushThrows
  PROVE  CoverInv'
<1>1. QueueKept /\ NoNewCommit
  BY SameQueue DEF PushThrows
<1>2. pc' = "rollback" /\ request' = {} /\ late' \subseteq late \cup request
  BY DEF PushThrows, GiveUp
<1>3. ServedWhileSent' /\ ListIsAnswered'
  BY <1>2 DEF ServedWhileSent, ListIsAnswered, Resolving
<1> QED BY <1>1, <1>2, <1>3, QuietStep DEF PushThrows, CoverInv, InFlightIsEntered

LEMMA NextListCover ==
  ASSUME CoverInv, TypeInv', NextList
  PROVE  CoverInv'
<1>1. QueueKept /\ NoNewCommit
  BY SameQueue DEF NextList
<1>2. todo' \subseteq batch /\ pc' \in {"conflicts", "errors", "unacked", "pull"}
  BY DEF NextList, BeginPull, Answered
<1>3. ServedWhileSent'
  BY DEF NextList, BeginPull, CoverInv, ServedWhileSent
<1>4. ListIsAnswered'
  BY <1>2 DEF NextList, BeginPull, ListIsAnswered, Resolving, Answered
<1> QED BY <1>1, <1>2, <1>3, <1>4, QuietStep DEF NextList, CoverInv, InFlightIsEntered

\* The loops that go through the changes of an answer.
LEMMA VisitedCover ==
  ASSUME CoverInv, TypeInv', NEW c \in Local, Visited(c), QueueKept, NoNewCommit,
         pc # "sent", pc # "settle"
  PROVE  CoverInv'
<1>1. ServedWhileSent' /\ ListIsAnswered'
  BY DEF Visited, CoverInv, ServedWhileSent, ListIsAnswered, Resolving, Answered
<1> QED BY <1>1, QuietStep DEF Visited, CoverInv, InFlightIsEntered

LEMMA MarkPendingCover ==
  ASSUME CoverInv, NEW c \in Local, HasRow(c),
         MarkPending(c) \/ \E n \in Nat : MarkPendingWithRetries(c, n)
  PROVE  QueueKept /\ NoNewCommit
  BY MarkKeepsQueue DEF MarkPending, MarkPendingWithRetries, NoNewCommit, CoverInv,
                        TypeInv, TypeOK, QueueTypeOK

LEMMA RollbackNextCover ==
  ASSUME CoverInv, TypeInv', NEW c \in Local, RollbackNext(c)
  PROVE  CoverInv'
<1>1. CASE HasRow(c) /\ todo = {c}
  BY <1>1, MarkPendingCover, CycleEnds DEF RollbackNext, Fail
<1>2. CASE HasRow(c) /\ todo # {c}
  BY <1>2, MarkPendingCover, VisitedCover DEF RollbackNext, Visited
<1>3. CASE ~HasRow(c)
  BY <1>3, SameQueue, CycleEnds DEF RollbackNext, Abort
<1> QED BY <1>1, <1>2, <1>3

LEMMA ErrorNextCover ==
  ASSUME CoverInv, TypeInv', NEW c \in Local, ErrorNext(c)
  PROVE  CoverInv'
  BY FailKeepsQueue, VisitedCover DEF ErrorNext, CoverInv

LEMMA UnackedNextCover ==
  ASSUME CoverInv, TypeInv', NEW c \in Local, UnackedNext(c)
  PROVE  CoverInv'
  BY MarkPendingCover, VisitedCover, RowMissingCover DEF UnackedNext

\* A step that commits exactly change c.
Commits(c) ==
    \A d \in Local : status'[d] \in {"committed", "removed"}
                        => d = c \/ status[d] \in {"committed", "removed"}

LEMMA MarkCommittedCover ==
  ASSUME CoverInv, NEW c \in Local, HasRow(c), MarkCommitted(c)
  PROVE  QueueKept /\ Commits(c) /\ c \in Entered
  BY MarkKeepsQueue DEF MarkCommitted, Commits, CoverInv, TypeInv, TypeOK, QueueTypeOK,
                        HasRow, Stored, Entered

LEMMA CommittedNow ==
  ASSUME CoverInv, HistoryKept, NEW c \in Entered, Covered(c), Commits(c)
  PROVE  CommittedIsCovered'
<1> SUFFICES ASSUME NEW d \in Local, status'[d] \in {"committed", "removed"}
             PROVE  Covered(d)'
  BY DEF CommittedIsCovered
<1>1. d \in Entered /\ Covered(d)
  BY DEF Commits, CoverInv, CommittedIsCovered, Entered
<1> QED BY <1>1, CoveredKept DEF CoverInv

LEMMA CommitNowCover ==
  ASSUME CoverInv, TypeInv', NEW c \in Local, CommitNow(c), Covered(c),
         pc \in {"accepted", "conflicts"}, c \in todo
  PROVE  CoverInv'
<1>1. CASE RowMissing(c)
  BY <1>1, RowMissingCover
<1>2. CASE HasRow(c) /\ MarkCommitted(c) /\ Visited(c)
  <2>1. QueueKept /\ Commits(c) /\ c \in Entered
    BY <1>2, MarkCommittedCover
  <2>2. HistoryKept
    BY <1>2, <2>1, SameLog DEF Visited, HistoryKept
  <2>3. CommittedIsCovered'
    BY <2>1, <2>2, CommittedNow
  <2>4. InFlightIsEntered' /\ ServedWhileSent' /\ ListIsAnswered'
    BY <1>2, <2>1 DEF Visited, QueueKept, CoverInv, InFlightIsEntered, ServedWhileSent,
                      ListIsAnswered, Resolving, Answered
  <2>5. RecordsAreLogged' /\ AnswersAreLogged' /\ SnapshotMatches' /\ CauseIsCovered'
    BY <1>2, <2>2, RecordsKept, AnswersKept, SnapshotKept, CauseKept DEF Visited, HistoryKept
  <2> QED BY <2>3, <2>4, <2>5 DEF CoverInv
<1> QED BY <1>1, <1>2 DEF CommitNow

LEMMA AcceptNextCover ==
  ASSUME CoverInv, TypeInv', NEW c \in Local, AcceptNext(c)
  PROVE  CoverInv'
<1>1. Covered(c)
  BY DEF AcceptNext, CoverInv, ListIsAnswered, Answered, AnswersAreLogged, Covered
<1> QED BY <1>1, CommitNowCover DEF AcceptNext

\* The resolver prefers the remote side only to a change that it outran.
LEMMA RemoteWins ==
  ASSUME CoverInv, NEW c \in Local, answer[c].kind = "conflict",
         "remote" \in Resolutions(c) \/ "merged" \in Resolutions(c)
  PROVE  Covered(c)
<1>1. PICK i \in 1..Len(log) : log[i].key = change[c].key /\ log[i].ts = answer[c].ts
  BY DEF CoverInv, AnswersAreLogged
<1>2. CASE ~NewestWins
  BY <1>1, <1>2 DEF Covered
<1>3. CASE NewestWins
  <2>1. Lww(c) = "remote"
    BY <1>3 DEF NewestWins, Resolutions, Lww
  <2>2. answer[c].ts \in Nat /\ change[c].ts \in Nat
    BY DEF CoverInv, TypeInv, TypeOK, ServerTypeOK, QueueTypeOK, Row, Answer
  <2>3. DataOf(c) = Absent \/ change[c].ts <= answer[c].ts
    BY <2>1, <2>2 DEF Lww
  <2>4. DataOf(c) = Absent => change[c].type = "delete"
    BY DEF DataOf, CoverInv, TypeInv, TypeOK, QueueTypeOK, Row
  <2>5. change[c].ts <= answer[c].ts
    BY <2>2, <2>3, <2>4 DEF CoverInv, AnswersAreLogged
  <2> QED BY <1>1, <2>2, <2>5 DEF Covered
<1> QED BY <1>2, <1>3

LEMMA TakeContentCover ==
  ASSUME CoverInv, TypeInv', NEW c \in Local, NEW data, TakeContent(c, data), Covered(c),
         pc = "conflicts", c \in todo
  PROVE  CoverInv'
<1>1. /\ pc' = "read" /\ remote'.cause = c /\ UNCHANGED <<queueVars, serverVars, wireVars>>
      /\ UNCHANGED <<snap, batch, todo>>
  BY DEF TakeContent, StartApply
<1>2. HistoryKept /\ NoNewCommit /\ QueueKept
  BY <1>1, SameQueue, SameLog DEF HistoryKept
<1>3. InFlightIsEntered'
  BY <1>1, <1>2 DEF CoverInv, InFlightIsEntered, QueueKept
<1>4. ServedWhileSent' /\ ListIsAnswered'
  BY <1>1 DEF CoverInv, ServedWhileSent, ListIsAnswered, Answered
<1>5. CauseIsCovered'
  <2>1. c \in Entered
    BY DEF CoverInv, InFlightIsEntered
  <2>2. Covered(c)'
    BY <1>2, <2>1, CoveredKept DEF CoverInv
  <2> QED BY <1>1, <2>2, ConstantsAssumption DEF CauseIsCovered, Covered
<1>6. RecordsAreLogged' /\ AnswersAreLogged' /\ SnapshotMatches' /\ CommittedIsCovered'
  BY <1>1, <1>2, RecordsKept, AnswersKept, SnapshotKept, CommittedKept DEF HistoryKept
<1> QED BY <1>3, <1>4, <1>5, <1>6 DEF CoverInv

LEMMA KeepLocalCover ==
  ASSUME CoverInv, TypeInv', NEW c \in Local, KeepLocal(c), pc = "conflicts"
  PROVE  CoverInv'
<1>1. Attempts(c) \in Nat
  BY DEF Attempts, CoverInv, TypeInv, TypeOK, QueueTypeOK
<1> QED BY <1>1, MarkPendingCover, FailKeepsQueue, VisitedCover, RowMissingCover
        DEF KeepLocal, CoverInv

LEMMA ResolveNextCover ==
  ASSUME CoverInv, TypeInv', NEW c \in Local, ResolveNext(c)
  PROVE  CoverInv'
<1>1. pc = "conflicts" /\ c \in todo /\ answer[c].kind = "conflict"
  BY DEF ResolveNext, CoverInv, ListIsAnswered, Answered
<1>2. CASE Abort /\ UNCHANGED <<rows, cursorVars, queueVars, serverVars, request, late>>
  BY <1>1, <1>2, CycleEnds, SameQueue DEF Abort
<1>3. CASE MarkFailed(c) /\ Visited(c)
  BY <1>1, <1>3, FailKeepsQueue, VisitedCover DEF CoverInv
<1>4. CASE KeepLocal(c)
  BY <1>1, <1>4, KeepLocalCover
<1>5. CASE /\ "remote" \in Resolutions(c) \/ "merged" \in Resolutions(c)
           /\ TakeContent(c, answer[c].data) \/ \E data \in MergedContents : TakeContent(c, data)
  BY <1>1, <1>5, RemoteWins, TakeContentCover
<1>6. CASE "merged" \in Resolutions(c) /\ CommitNow(c)
  BY <1>1, <1>6, RemoteWins, CommitNowCover
<1> QED BY <1>2, <1>3, <1>4, <1>5, <1>6 DEF ResolveNext

LEMMA SettleConflictCover ==
  ASSUME CoverInv, TypeInv', SettleConflict
  PROVE  CoverInv'
<1> DEFINE c == remote.cause
<1>1. pc = "settle" /\ c \in Local /\ c \in Entered /\ Covered(c)
  BY DEF SettleConflict, CoverInv, CauseIsCovered, InFlightIsEntered, Entered
<1>2. CASE RowMissing(c)
  BY <1>1, <1>2, RowMissingCover
<1>3. CASE ~RowMissing(c)
  <2>1. /\ HasRow(c) /\ MarkCommitted(c)
        /\ pc' = "conflicts" /\ todo' = todo \ {c} /\ remote' = NoRemote
        /\ UNCHANGED <<snap, batch, serverVars, wireVars>>
    BY <1>3 DEF SettleConflict
  <2>2. QueueKept /\ Commits(c)
    BY <1>1, <2>1, MarkCommittedCover
  <2>3. HistoryKept
    BY <2>1, <2>2, SameLog DEF HistoryKept
  <2>4. CommittedIsCovered'
    BY <1>1, <2>2, <2>3, CommittedNow
  <2>5. InFlightIsEntered' /\ ServedWhileSent'
    BY <1>1, <2>1, <2>2 DEF CoverInv, InFlightIsEntered, ServedWhileSent, QueueKept, NoRemote
  <2>6. ListIsAnswered'
    BY <1>1, <2>1, <2>5 DEF SettleConflict, CoverInv, ListIsAnswered, Resolving, Answered,
                       CauseIsCovered
  <2>7. RecordsAreLogged' /\ AnswersAreLogged' /\ SnapshotMatches'
    BY <2>1, <2>3, RecordsKept, AnswersKept, SnapshotKept DEF HistoryKept
  <2>8. CauseIsCovered'
    BY <2>1 DEF CauseIsCovered, NoRemote
  <2> QED BY <2>4, <2>5, <2>6, <2>7, <2>8 DEF CoverInv
<1> QED BY <1>2, <1>3

\* Steps of the pull that touch neither the queue, the batch nor the wire.
LEMMA PullStepCover ==
  ASSUME CoverInv, TypeInv',
         UNCHANGED <<queueVars, serverVars, wireVars, snap, batch, todo>>,
         remote'.cause \in {remote.cause, NoChange},
         pc' = "settle" => remote'.cause # NoChange,
         pc # "sent", pc' \notin {"sent", "accepted", "conflicts"}, Resolving' => Resolving
  PROVE  CoverInv'
<1>1. ServedWhileSent' /\ ListIsAnswered'
  BY DEF CoverInv, ServedWhileSent, ListIsAnswered, Answered
<1> QED BY <1>1, SameQueue, QuietStep DEF CoverInv, InFlightIsEntered

LEMMA PullStepsCover ==
  ASSUME CoverInv, TypeInv', PullPage \/ ReadExisting \/ PageDone \/ SaveCursor
  PROVE  CoverInv'
<1>1. pc \in {"pull", "read", "apply", "save"} /\ pc' \in {"apply", "write", "pull", "save", "purge"}
  BY DEF PullPage, ReadExisting, PageDone, SaveCursor
<1>2. remote' = remote /\ (Resolving' => Resolving)
  BY DEF PullPage, ReadExisting, PageDone, SaveCursor, Resolving
<1> QED BY <1>1, <1>2, PullStepCover DEF PullPage, ReadExisting, PageDone, SaveCursor

LEMMA WriteRowCover ==
  ASSUME CoverInv, TypeInv', WriteRow
  PROVE  CoverInv'
<1>1. CASE remote.cause = NoChange
  BY <1>1, PullStepCover DEF WriteRow, Applied, NoRemote, Resolving
<1>2. CASE remote.cause # NoChange
  BY <1>2, PullStepCover DEF WriteRow, Applied, Resolving
<1> QED BY <1>1, <1>2

LEMMA ApplyNextCover ==
  ASSUME CoverInv, TypeInv', ApplyNext
  PROVE  CoverInv'
<1> DEFINE e == log[at + 1]
           p == snap[e.key]
<1>1. at + 1 \in 1..Len(log)
  BY DEF ApplyNext, CoverInv, TypeInv, TypeOK, PageOK, EngineTypeOK, ServerTypeOK
<1>2. e.key \in Key /\ e.ts \in Nat
  <2>1. e \in Entry
    BY <1>1 DEF CoverInv, TypeInv, TypeOK, ServerTypeOK
  <2> QED BY <2>1 DEF Entry
<1>3. CASE IsReplay(p, e)
  BY <1>3, PullStepCover DEF ApplyNext, Resolving
<1>4. CASE ~IsReplay(p, e) /\ p = NoChange
  BY <1>4, PullStepCover DEF ApplyNext, StartApply, Resolving
<1>5. CASE ~IsReplay(p, e) /\ p # NoChange /\ ~HasRow(p)
  BY <1>5, CycleEnds, SameQueue DEF ApplyNext, Fail
<1>6. CASE ~IsReplay(p, e) /\ p # NoChange /\ HasRow(p)
  <2>1. /\ MarkCommitted(p) /\ snap' = [snap EXCEPT ![e.key] = NoChange]
        /\ pc = "apply" /\ pc' = "read" /\ remote'.cause = NoChange
        /\ UNCHANGED <<batch, todo, serverVars, wireVars>>
    BY <1>6 DEF ApplyNext, StartApply
  <2>2. p \in Entered /\ p \in Local /\ change[p].key = e.key
    BY <1>2, <1>6 DEF CoverInv, InFlightIsEntered, SnapshotMatches, Entered
  <2>3. Covered(p)
    <3>1. change[p].ts <= e.ts
      BY <1>2, <1>6, <2>2 DEF IsReplay, CoverInv, TypeInv, TypeOK, QueueTypeOK, Row
    <3> QED BY <1>1, <1>2, <2>2, <3>1 DEF Covered, CoverInv, TypeInv, TypeOK, QueueTypeOK, Row
  <2>4. QueueKept /\ Commits(p)
    BY <1>6, <2>1, <2>2, MarkCommittedCover
  <2>5. HistoryKept
    BY <2>1, <2>4, SameLog DEF HistoryKept
  <2>6. CommittedIsCovered'
    BY <2>2, <2>3, <2>4, <2>5, CommittedNow
  <2>7. \A k \in Key : snap'[k] # NoChange => snap'[k] = snap[k]
    BY <1>2, <2>1 DEF CoverInv, TypeInv, TypeOK, EngineTypeOK
  <2>8. InFlightIsEntered' /\ SnapshotMatches'
    BY <2>1, <2>4, <2>7 DEF CoverInv, InFlightIsEntered, SnapshotMatches, QueueKept
  <2>9. ServedWhileSent' /\ ListIsAnswered' /\ CauseIsCovered'
    BY <2>1 DEF CoverInv, ServedWhileSent, ListIsAnswered, CauseIsCovered, Resolving
  <2>10. RecordsAreLogged' /\ AnswersAreLogged'
    BY <2>1, <2>5, RecordsKept, AnswersKept DEF HistoryKept
  <2> QED BY <2>6, <2>8, <2>9, <2>10 DEF CoverInv
<1> QED BY <1>3, <1>4, <1>5, <1>6

LEMMA ClientStepCover ==
  ASSUME CoverInv, TypeInv', ClientStep
  PROVE  CoverInv'
<1>1. CASE BeginSync \/ SelectBatch \/ ReceiveAnswer \/ NextList \/ SettleConflict
  BY <1>1, BeginSyncCover, SelectBatchCover, ReceiveAnswerCover, NextListCover,
     SettleConflictCover
<1>2. CASE PullPage \/ ApplyNext \/ ReadExisting \/ WriteRow \/ PageDone
  BY <1>2, PullStepsCover, ApplyNextCover, WriteRowCover
<1>3. CASE SaveCursor \/ Purge \/ PullOverrun \/ WriteRaces \/ WriteInvalid
  BY <1>3, PullStepsCover, PurgeCover, ThrowsCover DEF WriteRaces, WriteInvalid
<1>4. ASSUME NEW c \in Local,
             \/ MarkNext(c) \/ RollbackNext(c) \/ AcceptNext(c) \/ ResolveNext(c)
             \/ ErrorNext(c) \/ UnackedNext(c)
      PROVE  CoverInv'
  BY <1>4, MarkNextCover, RollbackNextCover, AcceptNextCover, ResolveNextCover,
     ErrorNextCover, UnackedNextCover
<1> QED BY <1>1, <1>2, <1>3, <1>4 DEF ClientStep, CycleStep

-----------------------------------------------------------------------------
\* The server and the wire.

LEMMA AcceptLogs ==
  ASSUME CoverInv, NEW k \in Key, NEW w \in Write, NEW data \in Content, Accept(k, w, data)
  PROVE  /\ RecordsAreLogged' /\ LogKept
         /\ Len(log') = Len(log) + 1
         /\ log'[Len(log) + 1].key = k /\ log'[Len(log) + 1].by = w
<1>1. LogKept /\ Len(log) \in Nat /\ Len(log') = Len(log) + 1
  BY AcceptKeepsLog, AcceptTypes DEF CoverInv, TypeInv, TypeOK, ServerTypeOK
<1>2. log'[Len(log) + 1] = [key |-> k, by |-> w, data |-> data, ts |-> ServerNow]
  BY DEF Accept, CoverInv, TypeInv, TypeOK, ServerTypeOK
<1>3. ASSUME NEW j \in Key, Holds(j)'
      PROVE  \E i \in 1..Len(log') : log'[i].key = j /\ log'[i].ts = records'[j].at
  <2>1. CASE j = k
    <3>1. records'[k] = [data |-> data, at |-> IF data = Absent THEN 0 ELSE ServerNow]
      BY DEF Accept, CoverInv, TypeInv, TypeOK, ServerTypeOK
    <3>2. data # Absent
      BY <1>3, <2>1, <3>1 DEF Holds
    <3>3. Len(log) + 1 \in 1..Len(log')
      BY <1>1
    <3> QED BY <1>2, <2>1, <3>1, <3>2, <3>3
  <2>2. CASE j # k
    <3>1. records'[j] = records[j]
      BY <2>2 DEF Accept, CoverInv, TypeInv, TypeOK, ServerTypeOK
    <3>2. PICK i \in 1..Len(log) : log[i].key = j /\ log[i].ts = records[j].at
      BY <1>3, <3>1 DEF Holds, CoverInv, RecordsAreLogged
    <3>3. i \in 1..Len(log') /\ log'[i] = log[i]
      BY <1>1 DEF LogKept
    <3> QED BY <3>1, <3>2, <3>3
  <2> QED BY <2>1, <2>2
<1> QED BY <1>1, <1>2, <1>3 DEF RecordsAreLogged

\* A step of the server leaves the client's side of the invariant alone.
LEMMA ServerSideCover ==
  ASSUME CoverInv, TypeInv', LogKept, UNCHANGED <<queueVars, engineVars>>,
         request' \subseteq request, late' \subseteq late,
         RecordsAreLogged', AnswersAreLogged',
         \A c \in Local : answer'[c] # answer[c] => c \in request
  PROVE  CoverInv'
<1>1. HistoryKept /\ NoNewCommit /\ Entered' = Entered
  BY SameQueue DEF HistoryKept, Entered
<1>2. \A c \in Local : answer'[c].kind # "none" => c \in Entered
  BY DEF CoverInv, InFlightIsEntered
<1>3. InFlightIsEntered' /\ SnapshotMatches'
  BY <1>1, <1>2 DEF CoverInv, InFlightIsEntered, SnapshotMatches
<1>4. ServedWhileSent'
  BY DEF CoverInv, ServedWhileSent
<1>5. ListIsAnswered'
  <2>1. CASE request = {}
    <3>1. \A c \in Local : answer'[c] = answer[c]
      BY <2>1
    <3>2. \A kind : Answered(kind)' = Answered(kind)
      BY <3>1 DEF Answered, CoverInv, TypeInv, TypeOK, EngineTypeOK
    <3> QED BY <3>2 DEF CoverInv, ListIsAnswered, Resolving
  <2>2. CASE request # {}
    BY <2>2 DEF CoverInv, ServedWhileSent, ListIsAnswered, Resolving
  <2> QED BY <2>1, <2>2
<1>6. CauseIsCovered' /\ CommittedIsCovered'
  BY <1>1, CauseKept, CommittedKept DEF CoverInv, CauseIsCovered
<1> QED BY <1>3, <1>4, <1>5, <1>6 DEF CoverInv

LEMMA ServeCover ==
  ASSUME CoverInv, TypeInv', NEW c \in Local, Serve(c), UNCHANGED <<queueVars, engineVars>>
  PROVE  CoverInv'
<1>1. c \in request /\ change[c].key \in Key /\ c \in Write /\ DataOf(c) \in Content
  BY ChangeTypes DEF Serve, OldestIn, CoverInv
<1>2. \A d \in Local : answer'[d] # answer[d] => d = c
  BY DEF Serve, CoverInv, TypeInv, TypeOK, ServerTypeOK
<1>3. CASE Conflicts(c)
  <2>1. UNCHANGED serverVars /\ LogKept
    BY <1>3, SameLog DEF Serve
  <2>2. HistoryKept
    BY <2>1, SameQueue DEF HistoryKept
  <2>3. AnswerIsLogged(c)'
    <3>1. answer'[c].kind = "conflict" /\ answer'[c].ts = records[change[c].key].at
      BY <1>3 DEF Serve, CoverInv, TypeInv, TypeOK, ServerTypeOK
    <3>2. \E i \in 1..Len(log) : log[i].key = change[c].key
                                 /\ log[i].ts = records[change[c].key].at
      BY <1>1, <1>3 DEF Conflicts, CoverInv, RecordsAreLogged
    <3>3. change[c].type = "delete" => records[change[c].key].at > change[c].ts
      BY <1>3 DEF Conflicts
    <3> QED BY <2>1, <3>1, <3>2, <3>3 DEF AnswerIsLogged
  <2>4. AnswersAreLogged'
    BY <1>2, <2>2, <2>3, AnswerKept DEF AnswersAreLogged, AnswerIsLogged
  <2>5. RecordsAreLogged'
    BY <2>1, RecordsKept
  <2> QED BY <1>1, <1>2, <2>1, <2>4, <2>5, ServerSideCover DEF Serve
<1>4. CASE ~Conflicts(c)
  <2>1. Accept(change[c].key, c, DataOf(c)) /\ answer'[c].kind = "accepted"
    BY <1>4 DEF Serve, CoverInv, TypeInv, TypeOK, ServerTypeOK
  <2>2. /\ RecordsAreLogged' /\ LogKept
        /\ Len(log') = Len(log) + 1 /\ Len(log) \in Nat
        /\ log'[Len(log) + 1].key = change[c].key /\ log'[Len(log) + 1].by = c
    BY <1>1, <2>1, AcceptLogs DEF CoverInv, TypeInv, TypeOK, ServerTypeOK
  <2>3. HistoryKept
    BY <2>2, SameQueue DEF HistoryKept
  <2>4. AnswerIsLogged(c)'
    <3>1. Len(log) + 1 \in 1..Len(log')
      BY <2>2
    <3> QED BY <2>1, <2>2, <3>1 DEF AnswerIsLogged
  <2>5. AnswersAreLogged'
    BY <1>2, <2>3, <2>4, AnswerKept DEF AnswersAreLogged, AnswerIsLogged
  <2> QED BY <1>1, <1>2, <2>2, <2>5, ServerSideCover DEF Serve
<1> QED BY <1>3, <1>4

LEMMA ServeLateCover ==
  ASSUME CoverInv, TypeInv', NEW c \in Local, ServeLate(c), UNCHANGED <<queueVars, engineVars>>
  PROVE  CoverInv'
<1>1. change[c].key \in Key /\ c \in Write /\ DataOf(c) \in Content
  BY ChangeTypes DEF CoverInv
<1>2. RecordsAreLogged' /\ LogKept
  <2>1. CASE Conflicts(c)
    BY <2>1, SameLog, RecordsKept DEF ServeLate
  <2>2. CASE ~Conflicts(c)
    BY <1>1, <2>2, AcceptLogs DEF ServeLate
  <2> QED BY <2>1, <2>2
<1>3. AnswersAreLogged'
  BY <1>2, SameQueue, AnswersKept DEF ServeLate, HistoryKept
<1> QED BY <1>2, <1>3, ServerSideCover DEF ServeLate

LEMMA RemoteWriteCover ==
  ASSUME CoverInv, TypeInv', NEW w \in Remote, NEW k \in Key, RemoteWrite(w, k),
         UNCHANGED <<queueVars, engineVars>>
  PROVE  CoverInv'
<1>2. RecordsAreLogged' /\ LogKept
  BY RemoteAccepts, AcceptLogs DEF RemoteWrite, CoverInv
<1>3. AnswersAreLogged'
  BY <1>2, SameQueue, AnswersKept DEF RemoteWrite, HistoryKept
<1> QED BY <1>2, <1>3, ServerSideCover DEF RemoteWrite

LEMMA RefuseCover ==
  ASSUME CoverInv, TypeInv', NEW c \in Local, Refuse(c) \/ Ignore(c),
         UNCHANGED <<queueVars, engineVars>>
  PROVE  CoverInv'
<1>1. c \in request /\ UNCHANGED <<serverVars, late>> /\ request' \subseteq request
  BY DEF Refuse, Ignore, OldestIn
<1>2. LogKept /\ RecordsAreLogged'
  BY <1>1, SameLog, RecordsKept
<1>3. HistoryKept
  BY <1>2, SameQueue DEF HistoryKept
<1>4. \A d \in Local : answer'[d] = answer[d] \/ (d = c /\ answer'[c].kind = "error")
  BY DEF Refuse, Ignore, CoverInv, TypeInv, TypeOK, ServerTypeOK, Answer
<1>5. AnswersAreLogged'
  <2> SUFFICES ASSUME NEW d \in Local PROVE AnswerIsLogged(d)'
    BY DEF AnswersAreLogged, AnswerIsLogged
  <2>1. CASE answer'[d] = answer[d]
    BY <1>3, <2>1, AnswerKept
  <2>2. CASE answer'[d].kind = "error"
    BY <2>2 DEF AnswerIsLogged
  <2> QED BY <1>4, <2>1, <2>2
<1> QED BY <1>1, <1>2, <1>4, <1>5, ServerSideCover

-----------------------------------------------------------------------------
\* The queue's maintenance, the application, crashes.

\* Steps that touch only the queue, the records and the tools.
LEMMA QueueStepCover ==
  ASSUME CoverInv, TypeInv', QueueKept, NoNewCommit,
         UNCHANGED <<serverVars, wireVars, pc, snap, batch, todo, remote>>
  PROVE  CoverInv'
<1>1. ServedWhileSent' /\ ListIsAnswered'
  BY DEF CoverInv, ServedWhileSent, ListIsAnswered, Resolving, Answered
<1>2. pc' = "settle" => remote'.cause # NoChange
  BY DEF CoverInv, CauseIsCovered
<1> QED BY <1>1, <1>2, QuietStep DEF CoverInv, InFlightIsEntered

LEMMA CompactCover ==
  ASSUME CoverInv, TypeInv', CompactPlan \/ CompactDelete \/ \E c \in Local : CompactCheck(c)
  PROVE  CoverInv'
<1>1. QueueKept /\ NoNewCommit
  BY DEF CompactPlan, CompactDelete, CompactCheck, QueueKept, NoNewCommit, Entered, HasRow,
         Stored, CoverInv, TypeInv, TypeOK, QueueTypeOK
<1> QED BY <1>1, QueueStepCover DEF CompactPlan, CompactDelete, CompactCheck

LEMMA ToolsCover ==
  ASSUME CoverInv, TypeInv', RetryPlan \/ ClearCommitted \/ \E c \in Local : RetryNext(c)
  PROVE  CoverInv'
<1>1. QueueKept /\ NoNewCommit
  BY DEF RetryPlan, RetryNext, MarkPending, ClearCommitted, RemoveCommitted, HasRow, Stored, QueueKept, NoNewCommit, Entered,
         CoverInv, TypeInv, TypeOK, QueueTypeOK
<1> QED BY <1>1, QueueStepCover DEF RetryPlan, RetryNext, ClearCommitted

LEMMA AppCover ==
  ASSUME CoverInv, TypeInv', NEW c \in Local,
         \/ \E k \in Key, type \in ChangeType : LocalWrite(c, k, type)
         \/ QueueWrite(c) \/ QueueWriteFails(c)
  PROVE  CoverInv'
<1>1. QueueKept /\ NoNewCommit
  BY DEF LocalWrite, QueueWrite, AppendRow, QueueWriteFails, QueueKept, NoNewCommit, Entered,
         CoverInv, TypeInv, TypeOK, QueueTypeOK
<1> QED BY <1>1, QueueStepCover DEF LocalWrite, QueueWrite, QueueWriteFails

LEMMA CrashCover ==
  ASSUME CoverInv, TypeInv', Crash
  PROVE  CoverInv'
<1>1. QueueKept /\ NoNewCommit
  BY DEF Crash, QueueKept, NoNewCommit, Entered, CoverInv, TypeInv, TypeOK, QueueTypeOK
<1>2. /\ batch' = {} /\ todo' = {} /\ pc' = "down" /\ remote'.cause = NoChange
      /\ answer' = AllUnanswered /\ snap' = NoSnapshot
  BY DEF Crash, ForgetCycle, NoRemote
<1>3. request' = {} /\ late' \subseteq late \cup request
  BY DEF Crash, GiveUp
<1>4. ServedWhileSent' /\ ListIsAnswered'
  BY <1>2, <1>3 DEF ServedWhileSent, ListIsAnswered, Resolving
<1> QED BY <1>1, <1>2, <1>3, <1>4, QuietStep DEF Crash, CoverInv, InFlightIsEntered

LEMMA RestartCover ==
  ASSUME CoverInv, TypeInv', Restart
  PROVE  CoverInv'
<1>1. QueueKept /\ NoNewCommit
  BY SweepKeepsQueue DEF Restart, CoverInv
<1>2. pc' = "idle" /\ request = {}
  BY DEF Restart, CoverInv, ServedWhileSent
<1>3. ServedWhileSent' /\ ListIsAnswered'
  BY <1>2 DEF Restart, ServedWhileSent, ListIsAnswered, Resolving
<1> QED BY <1>1, <1>2, <1>3, QuietStep DEF Restart, CoverInv, InFlightIsEntered

-----------------------------------------------------------------------------
LEMMA InitCover == Init => CoverInv
<1> SUFFICES ASSUME Init PROVE CoverInv
  OBVIOUS
<1>1. TypeInv
  BY InitTypes
<1>2. InFlightIsEntered /\ SnapshotMatches /\ ServedWhileSent
  BY DEF Init, EngineInit, FreshCycle, ServerInit, AllUnanswered, NoAnswer, NoSnapshot,
         NoRemote, InFlightIsEntered, SnapshotMatches, ServedWhileSent
<1>3. RecordsAreLogged /\ AnswersAreLogged
  BY DEF Init, ServerInit, AllUnanswered, NoAnswer, RecordsAreLogged, Holds, AnswersAreLogged
<1>4. ListIsAnswered /\ CauseIsCovered /\ CommittedIsCovered
  BY DEF Init, EngineInit, FreshCycle, NoRemote, QueueInit, ListIsAnswered, Resolving,
         CauseIsCovered, CommittedIsCovered
<1> QED BY <1>1, <1>2, <1>3, <1>4 DEF CoverInv

LEMMA NextCover == CoverInv /\ [Next]_vars => CoverInv'
<1> SUFFICES ASSUME CoverInv, [Next]_vars PROVE CoverInv'
  OBVIOUS
<1>0. TypeInv'
  BY NextTypes DEF CoverInv
<1>1. CASE Tick \/ UNCHANGED vars
  BY <1>0, <1>1, SameQueue, QueueStepCover DEF Tick
<1>2. CASE CalmStep
  <2>1. CASE ClientStep
    BY <1>0, <2>1, ClientStepCover
  <2>2. CASE ServerStep
    BY <1>0, <2>2, ServeCover, ServeLateCover DEF ServerStep
  <2>3. CASE ToolStep
    BY <1>0, <2>3, CompactCover, ToolsCover DEF ToolStep
  <2>4. CASE AppStep \/ HookStep
    BY <1>0, <2>4, AppCover DEF AppStep, HookStep
  <2>5. CASE OthersStep
    BY <1>0, <2>5, RemoteWriteCover DEF OthersStep
  <2>6. CASE Restart
    BY <1>0, <2>6, RestartCover
  <2> QED BY <1>2, <2>1, <2>2, <2>3, <2>4, <2>5, <2>6 DEF CalmStep
<1>3. CASE DisturbedStep
  <2>1. CASE PushThrows \/ PullThrows
    BY <1>0, <2>1, PushThrowsCover, ThrowsCover
  <2>2. CASE \E c \in Local :
                (Refuse(c) \/ Ignore(c)) /\ UNCHANGED <<queueVars, engineVars, toolVars>>
    BY <1>0, <2>2, RefuseCover
  <2>3. CASE \E c \in Local : QueueWriteFails(c)
    BY <1>0, <2>3, AppCover
  <2>4. CASE CompactPlan \/ RetryPlan \/ ClearCommitted \/ \E c \in Local : RetryNext(c)
    BY <1>0, <2>4, CompactCover, ToolsCover
  <2>5. CASE Crash
    BY <1>0, <2>5, CrashCover
  <2> QED BY <1>3, <2>1, <2>2, <2>3, <2>4, <2>5 DEF DisturbedStep
<1> QED BY <1>1, <1>2, <1>3 DEF Next

\* The inductive invariant holds in every reachable state.
THEOREM CoverInvHolds == Spec => []CoverInv
  BY InitCover, NextCover, PTL DEF Spec

\* No local write leaves the queue as committed unless the server's log has it
\* or, under last-write-wins, a write to its record at least as new.
THEOREM CommittedCovered == Spec => []CommittedIsCovered
<1>1. CoverInv => CommittedIsCovered
  BY DEF CoverInv
<1> QED BY <1>1, CoverInvHolds, PTL
=============================================================================
