----------------------------- MODULE SyncSystem -----------------------------
(***************************************************************************)
(* The whole sync subsystem: an application writing records, the plugin     *)
(* that queues its writes, the sync engine, the queue's maintenance, the    *)
(* reference server, other clients, and the environment (time, crashes).    *)
(***************************************************************************)
EXTENDS SyncDevtools

CONSTANT AppOps   \* the operations the application uses

ASSUME AppOpsAssumption == AppOps \subseteq ChangeType

vars == <<clock, disturbed, queueVars, serverVars, wireVars, engineVars, toolVars>>

TypeOK ==
    /\ BaseTypeOK
    /\ QueueTypeOK
    /\ ServerTypeOK
    /\ EngineTypeOK
    /\ ToolsTypeOK

Init ==
    /\ BaseInit
    /\ QueueInit
    /\ ServerInit
    /\ EngineInit
    /\ ToolsInit

-----------------------------------------------------------------------------
\* The application.

\* collection.create rejects an existing id, collection.update a missing one;
\* collection.delete accepts both.
MayWrite(type, k) ==
    /\ type \in AppOps
    /\ type = "create" => rows[k] = Absent
    /\ type = "update" => rows[k] # Absent

\* What a local write leaves of the record: an update merges its fields into it.
Written(c, k, type, fields) ==
    IF type = "delete" THEN Absent ELSE Merge(rows[k], Patch(fields, c))

\* The adapter write of a local create, update or delete.  What the hook will
\* append is the record as it is now.
LocalWrite(c, k, type) ==
    /\ pc # "down"
    /\ status[c] = "unborn"
    /\ MayWrite(type, k)
    /\ \E fields \in Forms :
          LET data == Written(c, k, type, fields) IN
          /\ Acceptable(data)
          /\ status' = [status EXCEPT ![c] = "hooking"]
          /\ change' = [change EXCEPT ![c] =
                           [key |-> k, type |-> type, ts |-> 0, data |-> data]]
          /\ rows' = [rows EXCEPT ![k] = data]
    /\ UNCHANGED <<retries, pc, snap, batch, todo, applyVars, pullVars, cursorVars,
                   aborted, serverVars, wireVars, toolVars>>

\* The plugin's after hook appends the change to the queue.
QueueWrite(c) ==
    /\ status[c] = "hooking"
    /\ AppendRow(c)
    /\ UNCHANGED <<engineVars, serverVars, wireVars, toolVars>>

\* The append rejects; runAfterHook only reports it.
QueueWriteFails(c) ==
    /\ status[c] = "hooking"
    /\ Disturb("append")
    /\ status' = [status EXCEPT ![c] = "lost"]
    /\ UNCHANGED <<retries, change, engineVars, serverVars, wireVars, toolVars>>

-----------------------------------------------------------------------------
\* The program stops and starts.

\* Everything but the two stores and the saved cursor is lost.
Crash ==
    /\ pc # "down"
    /\ Disturb("crash")
    /\ pc' = "down"
    /\ ForgetCycle
    /\ status' = [c \in Local |-> IF status[c] = "hooking" THEN "lost" ELSE status[c]]
    /\ cursor' = 0
    /\ aborted' = FALSE
    /\ doomed' = {} /\ victim' = NoChange /\ retrying' = {}
    /\ GiveUp
    /\ UNCHANGED <<retries, change, rows, saved, serverVars>>

\* SyncEngine.init: recover the queue, load the cursor.
Restart ==
    /\ pc = "down"
    /\ pc' = "idle"
    /\ Recover
    /\ cursor' = saved
    /\ UNCHANGED <<rows, snap, batch, todo, applyVars, pullVars, saved, aborted,
                   serverVars, wireVars, toolVars>>

-----------------------------------------------------------------------------
Tick ==
    /\ clock < MaxClock
    /\ clock' = clock + 1
    /\ UNCHANGED <<disturbed, queueVars, serverVars, wireVars, engineVars, toolVars>>

ClientStep == CycleStep /\ UNCHANGED toolVars
ServerStep ==
    /\ \E c \in Local : Serve(c) \/ ServeLate(c)
    /\ UNCHANGED <<queueVars, engineVars, toolVars>>
ToolStep == CompactDelete \/ \E c \in Local : CompactCheck(c) \/ RetryNext(c)
AppStep == \E c \in Local, k \in Key, type \in ChangeType : LocalWrite(c, k, type)
HookStep == \E c \in Local : QueueWrite(c)
OthersStep ==
    /\ \E w \in Remote, k \in Key : RemoteWrite(w, k)
    /\ UNCHANGED <<queueVars, engineVars, toolVars>>

CalmStep ==
    \/ ClientStep \/ ServerStep \/ ToolStep \/ AppStep \/ HookStep
    \/ OthersStep \/ Restart

\* Steps that spend the budget of disturbances.
DisturbedStep ==
    \/ (PushThrows \/ PullThrows) /\ UNCHANGED toolVars
    \/ \E c \in Local :
          (Refuse(c) \/ Ignore(c)) /\ UNCHANGED <<queueVars, engineVars, toolVars>>
    \/ \E c \in Local : QueueWriteFails(c)
    \/ CompactPlan \/ RetryPlan \/ ClearCommitted
    \/ Crash

Next ==
    \/ Tick
    \/ CalmStep /\ Calm /\ UNCHANGED clock
    \/ DisturbedStep /\ UNCHANGED clock

Spec == Init /\ [][Next]_vars

\* The interval of autoSync keeps starting cycles, and a cycle keeps running;
\* the server handles what it received; hooks run; a closed program is opened
\* again.  Nothing makes the application, other clients or time move.
Fairness ==
    /\ WF_vars(ClientStep /\ Calm /\ UNCHANGED clock)
    /\ WF_vars(ServerStep /\ Calm /\ UNCHANGED clock)
    /\ WF_vars(HookStep /\ Calm /\ UNCHANGED clock)
    /\ WF_vars(ToolStep /\ Calm /\ UNCHANGED clock)
    /\ WF_vars(Restart /\ Calm /\ UNCHANGED clock)

FairSpec == Spec /\ Fairness
=============================================================================
