---------------------------- MODULE SyncInvariant ----------------------------
(***************************************************************************)
(* The inductive invariant behind CommittedIsCovered: why, at each of the   *)
(* three places that commit a change, the server's log already has the      *)
(* change or something at least as new.  Then the one of the queue itself:   *)
(* who owns its rows, and what compaction may drop.  Then the one behind     *)
(* KeptEditIsQueued and Converged: why client and server come to agree.      *)
(***************************************************************************)
EXTENDS SyncProperties

\* The engine reads the log inside its bounds, and applies an entry of the page.
PageOK ==
    /\ at <= upto /\ upto <= Len(log)
    /\ cursor <= Len(log) /\ saved <= Len(log)
    /\ pc \in {"read", "write"} /\ remote.cause = NoChange => at < upto

\* The types, with what the engine needs to keep them.
TypeInv == TypeOK /\ PageOK

\* The changes that are, or once were, rows of the queue: their key, type and
\* timestamp never change again.
Entered == {c \in Local : status[c] \notin {"unborn", "hooking", "lost"}}

\* Nothing is in flight, snapshotted or being settled that was never queued.
InFlightIsEntered ==
    /\ batch \subseteq Entered
    /\ todo \subseteq batch
    /\ request \subseteq Entered
    /\ late \subseteq Entered
    /\ \A c \in Local : answer[c].kind # "none" => c \in Entered
    /\ \A k \in Key : snap[k] # NoChange => snap[k] \in Entered
    /\ remote.cause # NoChange => remote.cause \in Entered

\* The snapshot of a record is a change of that record.
SnapshotMatches == \A k \in Key : snap[k] # NoChange => change[snap[k]].key = k

\* The server handles the push of the cycle only while the engine waits for it.
ServedWhileSent == request # {} => pc = "sent"

\* Each stored record is the outcome of a logged write.
RecordsAreLogged ==
    \A k \in Key : Holds(k) =>
        \E i \in 1..Len(log) : log[i].key = k /\ log[i].ts = records[k].at

\* An accepted change is in the log; a conflict reports a logged write of the
\* same record, and one newer than the change if that is a delete.
AnswersAreLogged ==
    \A c \in Local :
        /\ answer[c].kind = "accepted" =>
              \E i \in 1..Len(log) : log[i].key = change[c].key /\ log[i].by = c
        /\ answer[c].kind = "conflict" =>
              /\ \E i \in 1..Len(log) :
                    log[i].key = change[c].key /\ log[i].ts = answer[c].ts
              /\ change[c].type = "delete" => answer[c].ts > change[c].ts

\* The engine applies a pulled entry or the outcome of a conflict.
Resolving == pc \in {"read", "write", "settle"} /\ remote.cause # NoChange

\* The list a loop works through is the one of the answer it is meant for.
ListIsAnswered ==
    /\ pc = "accepted" => todo \subseteq Answered("accepted")
    /\ pc = "conflicts" \/ Resolving => todo \subseteq Answered("conflict")

\* A conflict is given up only against something at least as new.
CauseIsCovered ==
    /\ remote.cause # NoChange => Covered(remote.cause)
    /\ pc = "settle" => remote.cause # NoChange

\* The inductive invariant.
CoverInv ==
    /\ TypeInv
    /\ InFlightIsEntered
    /\ SnapshotMatches
    /\ ServedWhileSent
    /\ RecordsAreLogged
    /\ AnswersAreLogged
    /\ ListIsAnswered
    /\ CauseIsCovered
    /\ CommittedIsCovered

-----------------------------------------------------------------------------
\* Another change of the same record, not older, was queued as well.
Outdone(c) ==
    \E d \in Entered \ {c} :
        change[d].key = change[c].key /\ change[d].ts >= change[c].ts

\* What compaction has listed stays outdone, whatever happens to the row until
\* it is visited: rows come and go, but what was queued is not forgotten.
DoomedAreOutdone ==
    /\ doomed \subseteq Entered
    /\ victim # NoChange => victim \in Entered
    /\ \A c \in Local : c \in doomed \/ c = victim => Outdone(c)

\* The rows the cycle is marking were queued when it chose them, and nothing
\* commits a row before the push is answered.
MarkedAreQueued ==
    pc = "mark" => \A c \in batch : status[c] # "committed"

\* The inductive invariant of the queue.
QueueInv ==
    /\ CoverInv
    /\ DoomedAreOutdone
    /\ MarkedAreQueued
    /\ CompactedIsSuperseded
    /\ SyncingIsOwned

-----------------------------------------------------------------------------
\* What agreement rests on: a client clock that is not ahead of the server's, a
\* built-in strategy, and little maintenance of the queue beside the cycles.  TLC
\* shows that compaction together with retries of failed changes can lose an edit:
\* a retry queues a change that a conflict is about to give up, and compaction
\* drops for it an edit of the same millisecond.  Under server-wins compaction may
\* drop an edit for a newer one that was already given up for an older write.
ClientBehind == ClientSkew <= ServerSkew
OneTool == ~({"compact", "retry"} \subseteq Disturbances)
Agreeable ==
    /\ ClientBehind
    /\ OneTool
    /\ NewestWins \/ (Strategy = "server-wins" /\ "compact" \notin Disturbances)

\* The log is in the order of the server's clock, and has a local write only
\* after it was queued.
ClockInv ==
    /\ \A c \in Entered : change[c].ts <= ClientNow
    /\ \A i \in 1..Len(log) : log[i].ts <= ServerNow
    /\ \A i, j \in 1..Len(log) : i <= j => log[i].ts <= log[j].ts
    /\ \A i \in 1..Len(log) : log[i].by \in Local =>
          log[i].by \in Entered /\ log[i].ts >= change[log[i].by].ts

\* The rows that compaction is going to drop.
Listed == doomed \cup {victim}

\* For each row that compaction dropped, or is going to, another one of the
\* record stays that is at least as new.
LastWordStands ==
    \A c \in Local : (c \in Listed \/ status[c] = "compacted") =>
        \E d \in Entered \ Listed :
            /\ status[d] # "compacted"
            /\ change[d].key = change[c].key
            /\ change[d].ts >= change[c].ts

\* What KeptEditIsQueued needs.
KeptInv == QueueInv /\ ClientBehind /\ ClockInv /\ LastWordStands

-----------------------------------------------------------------------------
\* The cycle is applying what it pulls.
Pulling ==
    \/ pc \in {"pull", "apply"}
    \/ pc \in {"read", "write"} /\ remote.cause = NoChange

\* How far the client has applied the log.  After a failure it starts again
\* from its cursor, after a crash from the saved one.
Position == IF Pulling THEN at ELSE IF pc = "down" THEN saved ELSE cursor

PositionInv ==
    /\ pc # "down" => saved <= cursor
    /\ Pulling => cursor <= at
    /\ pc = "pull" => at = upto

\* The client has still to read an entry about the record, and the snapshot of the
\* cycle under way does not make it a replay.
ToApply(k) ==
    \E j \in 1..Len(log) :
        j > Position /\ log[j].key = k /\ ~IsReplay(snap[k], log[j])

\* The changes of the record that the server has still to hear of.
Standing(k) ==
    {d \in Local \ Listed :
        status[d] \in {"hooking", "pending", "syncing", "failed"} /\ change[d].key = k}

SomeLost == ByStatus("lost") # {}

\* The server holds what the last entry about a record says.
RecordsAreLast ==
    \A i \in 1..Len(log) :
        (\A j \in 1..Len(log) : j > i => log[j].key # log[i].key) =>
            records[log[i].key].data = log[i].data

\* This content of a record carries the server's, or will take up a newer one.
UpToDate(k, data) == Carries(data, records[k].data) \/ ToApply(k)

\* Until the pull begins, what was accepted is still to be applied, and what
\* conflicts is the server's record unless something newer is to be applied.
AnswersAreFresh ==
    ~Pulling /\ pc \notin {"save", "purge"} => \A c \in Local :
        /\ answer[c].kind = "accepted" => ToApply(change[c].key)
        /\ answer[c].kind = "conflict" =>
              answer[c].data # Absent /\ UpToDate(change[c].key, answer[c].data)

\* What the cycle is applying is the next entry, or up to date; an outcome that
\* it has applied was not changed again, unless by an edit that is queued; and a
\* record that a deletion has not found is still missing, or was created again.
RemoteIsFresh ==
    LET k == remote.key IN
    /\ pc \in {"read", "write"} /\ remote.cause = NoChange =>
          /\ k = log[at + 1].key /\ remote.data = log[at + 1].data
          /\ snap[k] = NoChange
    /\ Resolving => k = change[remote.cause].key
    /\ Resolving /\ pc # "settle" => remote.data # Absent /\ UpToDate(k, remote.data)
    /\ pc = "settle" =>
          UpToDate(k, rows[k]) \/ SomeLost \/ Standing(k) \ {remote.cause} # {}
    /\ pc = "write" /\ remote.data = Absent /\ ~existing =>
          rows[k] = Absent \/ SomeLost \/ Standing(k) # {}

\* No change is answered before it is sent.
AnswersComeLater ==
    pc \in {"down", "idle", "select", "mark"} => \A c \in Local : answer[c].kind = "none"

\* Without compaction nothing is listed.
NothingListed == "compact" \notin Disturbances => doomed = {} /\ victim = NoChange

\* What the cycle has yet to settle is not queued again by anybody else.
OutstandingIsOut ==
    /\ Resolving => remote.cause \in todo
    /\ pc = "errors" => todo \subseteq Answered("error")
    /\ "retry" \notin Disturbances => retrying = {} /\ Outstanding \cap Queued = {}

\* Every record is as on the server, or will be: an entry is to be applied, an edit
\* is queued, or an edit was lost before it was queued.
WillAgree == \A k \in Key : UpToDate(k, rows[k]) \/ SomeLost \/ Standing(k) # {}

\* The inductive invariant of agreement.
AgreeInv ==
    /\ KeptInv
    /\ Agreeable
    /\ PositionInv
    /\ RecordsAreLast
    /\ AnswersComeLater
    /\ NothingListed
    /\ AnswersAreFresh
    /\ RemoteIsFresh
    /\ OutstandingIsOut
    /\ WillAgree
=============================================================================
