--------------------------- MODULE ChangeLifecycle ---------------------------
(***************************************************************************)
(* What the sync subsystem promises about each local write, without         *)
(* cycles, batches, retries or answers: a queued write stays queued until   *)
(* the server has it or something at least as new, and only an explicit     *)
(* retry brings a write back that left the queue.                           *)
(***************************************************************************)
CONSTANT Local

VARIABLES
    stage,    \* [Local -> Stage]
    covered   \* the queued writes the server has, or has outrun

vars == <<stage, covered>>

Stage == {"unborn", "written", "queued", "done", "dropped", "lost"}

Init ==
    /\ stage = [c \in Local |-> "unborn"]
    /\ covered = {}

\* The application writes a record.
Make(c) ==
    /\ stage[c] = "unborn"
    /\ stage' = [stage EXCEPT ![c] = "written"]
    /\ UNCHANGED covered

\* The write is queued; the server may already have outrun it.
Enqueue(c) ==
    /\ stage[c] = "written"
    /\ stage' = [stage EXCEPT ![c] = "queued"]
    /\ covered' \in {covered, covered \cup {c}}

\* Writes that were not queued yet are lost, all at once in a crash.
Lose(S) ==
    /\ \A c \in S : stage[c] = "written"
    /\ stage' = [c \in Local |-> IF c \in S THEN "lost" ELSE stage[c]]
    /\ UNCHANGED covered

\* The server's log grows.
Cover ==
    /\ UNCHANGED stage
    /\ covered \subseteq covered'
    /\ \A c \in covered' \ covered : stage[c] \in {"queued", "done", "dropped"}

\* A write leaves the queue because the server has it or something newer.
Finish(c) ==
    /\ stage[c] = "queued"
    /\ c \in covered
    /\ stage' = [stage EXCEPT ![c] = "done"]
    /\ UNCHANGED covered

\* A write leaves the queue because another one was queued as well; the
\* decision may be stale by now, and the write done in the meantime.
Drop(c) ==
    /\ stage[c] \in {"queued", "done"}
    /\ \E d \in Local \ {c} : stage[d] \in {"queued", "done", "dropped"}
    /\ stage' = [stage EXCEPT ![c] = "dropped"]
    /\ UNCHANGED covered

\* A retry works from a list of failed writes: one of them may be done by now.
Requeue(c) ==
    /\ stage[c] = "done"
    /\ stage' = [stage EXCEPT ![c] = "queued"]
    /\ UNCHANGED covered

Next ==
    \/ Cover
    \/ \E c \in Local : Make(c) \/ Enqueue(c) \/ Finish(c) \/ Drop(c) \/ Requeue(c)
    \/ \E S \in SUBSET Local : Lose(S)

Spec == Init /\ [][Next]_vars
=============================================================================
