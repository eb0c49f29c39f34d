--------------------------- MODULE SyncProperties ---------------------------
(***************************************************************************)
(* What the sync subsystem promises.                                        *)
(***************************************************************************)
EXTENDS SyncSystem

\* The strategies that give a change up only for a write at least as new.
NewestWins == Strategy \in {"lww", "client-wins"}

\* The server's log has change c, or a write to its record at least as new (under
\* the other strategies: any write to its record).
Covered(c) ==
    \E i \in 1..Len(log) :
        /\ log[i].key = change[c].key
        /\ log[i].by = c \/ log[i].ts >= change[c].ts \/ ~NewestWins

\* A local write leaves the queue as committed only when the server has it or
\* something at least as new: an answer that was lost, a request handled twice,
\* a conflict, a pull or a crash in between never drops an edit the server has
\* not outrun (markCommitted in #pushChanges, #resolveConflict, #applyRemoteChange).
CommittedIsCovered ==
    \A c \in Local : status[c] \in {"committed", "removed"} => Covered(c)

\* The changes of the current push whose outcome the cycle has yet to record.
Outstanding ==
    CASE pc = "mark"      -> batch \ todo
      [] pc = "sent"      -> batch
      [] pc = "rollback"  -> todo
      [] pc = "accepted"  -> todo \cup Answered("conflict") \cup Answered("error")
                                  \cup Answered("none")
      [] pc = "conflicts" -> todo \cup Answered("error") \cup Answered("none")
      [] pc \in {"read", "write", "settle"} /\ remote.cause # NoChange
                          -> todo \cup Answered("error") \cup Answered("none")
      [] pc = "errors"    -> todo \cup Answered("none")
      [] pc = "unacked"   -> todo
      [] OTHER            -> {}

\* A row is in "syncing" only while the cycle still has to record the outcome
\* of its push, unless an exception escaped the settling of an answer since
\* start-up (rollback, answer and recovery paths leave nothing behind).
SyncingIsOwned ==
    pc # "down" /\ ~aborted => ByStatus("syncing") \subseteq Outstanding

\* When nothing is queued, on its way or unread, the client holds every record of
\* the server with the server's value in each of its fields, and no other record,
\* whatever was lost, repeated, delayed or interrupted before.  Its records may
\* have more fields than the server's: SupersededStaysDropped says which.
Quiescent ==
    /\ pc = "idle"
    /\ \A c \in Local : status[c] \in {"unborn", "committed", "removed", "compacted"}
    /\ late = {}
    /\ cursor = Len(log)

\* A row carries a content: neither is there, or the row has the content's fields.
Carries(row, content) ==
    IF content = Absent THEN row = Absent
    ELSE /\ row # Absent
         /\ \A f \in DOMAIN content : f \in DOMAIN row /\ row[f] = content[f]

Converged == Quiescent => \A k \in Key : Carries(rows[k], records[k].data)

\* The engine skips entry e of the page as a replay.
Skips == pc = "apply" /\ at' = at + 1

\* A later entry of the log is about the record of the entry that is skipped.
OutrunByLog == \E j \in at + 2 .. Len(log) : log[j].key = log[at + 1].key

\* One of these changes is a newer edit of the record of the entry that is skipped.
NewerIn(S) ==
    \E c \in S : change[c].key = log[at + 1].key /\ change[c].ts > log[at + 1].ts

\* A remote change is skipped only while an edit newer than it has its row in the
\* queue, waiting, being pushed or parked after too many failures for the
\* application to retry or drop, or while a later entry of the log is about the
\* record: a skipped change is never the last word about a record that nothing
\* on this client speaks for (#applyRemoteChange).  It takes a client clock that
\* is not ahead of the server's, and lww or client-wins.
KeptEditIsQueued ==
    [][ Skips => NewerIn(Queued \cup ByStatus("syncing")) \/ OutrunByLog ]_vars

\* Compaction never drops the last word of the queue about a record: a dropped
\* change is older than another one of the same record that was queued too.
CompactedIsSuperseded ==
    \A c \in Local : status[c] = "compacted" =>
        \E d \in Local \ {c} :
            /\ change[d].key = change[c].key
            /\ change[d].ts >= change[c].ts
            /\ status[d] \notin {"unborn", "hooking", "lost"}

\* The subsystem implements ChangeLifecycle: a write is queued while its row is
\* pending, syncing or failed, and done once it is committed.
StageOf(c) ==
    CASE status[c] = "unborn"                           -> "unborn"
      [] status[c] = "hooking"                          -> "written"
      [] status[c] \in {"pending", "syncing", "failed"} -> "queued"
      [] status[c] \in {"committed", "removed"}         -> "done"
      [] status[c] = "compacted"                        -> "dropped"
      [] status[c] = "lost"                             -> "lost"

CoveredWrites ==
    {c \in Local : status[c] \notin {"unborn", "hooking", "lost"} /\ Covered(c)}

Lifecycle == INSTANCE ChangeLifecycle
                 WITH stage <- [c \in Local |-> StageOf(c)],
                      covered <- CoveredWrites

ImplementsLifecycle == Lifecycle!Spec

-----------------------------------------------------------------------------
\* Every queued change eventually leaves the queue or is parked, as long as no
\* exception escaped the settling of an answer.
Settles ==
    \A c \in Local :
        status[c] \in {"pending", "syncing"} ~>
            \/ status[c] \in {"committed", "removed", "compacted"}
            \/ DeadLetter(c)
            \/ aborted

\* The client's schema may refuse the content of entry i of the log.
Unfit(i) ==
    log[i].data # Absent /\ \E row \in Content : ~Acceptable(Merge(row, log[i].data))

\* The client always catches up with the server's log again, unless more is ahead
\* than one pull may fetch, or an entry that its schema refuses: neither passes by
\* itself, since a pull that fails starts again from the cursor.
CatchesUp ==
    []<>( \/ cursor = Len(log)
          \/ Len(log) - cursor > MaxPullPages * PullBatch
          \/ \E i \in cursor + 1 .. Len(log) : Unfit(i) )

-----------------------------------------------------------------------------
\* What the documentation says and the code does not do.

\* The engine writes a pulled change to the record of the entry.
PulledWrite == pc = "write" /\ remote.cause = NoChange /\ pc' = "apply"

\* The queued edit c is what the record holds.
ShownEdit(c, k) == c \in Queued /\ change[c].key = k /\ DataOf(c) = rows[k]

\* "A remote change never overwrites a newer queued local edit"
\* (tests/integration/sync-pull-safety.test.ts): but the snapshot keeps only
\* the oldest queued change of a record, and misses edits made after it.
NewerEditKept ==
    [][ PulledWrite =>
          ~ \E c \in Local : /\ ShownEdit(c, remote.key)
                            /\ change[c].ts > remote.ts
                            /\ rows'[remote.key] # rows[remote.key] ]_vars

\* "Keep the local value; the queue will push it on the next cycle"
\* (sync-engine.ts, #applyRemoteChange): but the edit may be parked, and parked
\* changes are not pushed.
KeptEditIsPushed ==
    [][ Skips => NewerIn(Eligible \cup ByStatus("syncing")) \/ OutrunByLog ]_vars

\* Change c left the queue for a remote write: the server never stored it.
Superseded(c) ==
    /\ status[c] \in {"committed", "removed"}
    /\ \A i \in 1..Len(log) : log[i].by # c

\* "Drop the superseded local change so the next push cannot resurrect stale data"
\* (sync-engine.ts, #applyRemoteChange): but the remote content is merged into the
\* row, the fields it lacks keep what the dropped change gave them, and the next
\* edit of the record queues the whole row for the server.
SupersededStaysDropped ==
    [][ \A c, d \in Local :
          Superseded(c) /\ status[d] = "unborn" /\ status'[d] = "hooking" =>
              LET data == change'[d].data IN
              data # Absent => \A f \in DOMAIN data : data[f] # c ]_vars

\* "The queue never leaves a change stranded in syncing"
\* (tests/integration/sync-pull-safety.test.ts): but an exception while a
\* conflict is resolved leaves the rest of the batch there.
NeverStranded == pc = "idle" => ByStatus("syncing") = {}

=============================================================================
