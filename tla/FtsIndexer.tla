----------------------------- MODULE FtsIndexer -----------------------------
(***************************************************************************)
(* The postings of the full-text plugin (plugins/fts/indexer.ts) and the     *)
(* after-hooks that keep them (plugins/fts/index.ts): one record for each     *)
(* token of each document.  A document's text is its set of tokens.  A hook   *)
(* becomes a job, the postings to remove and those to add, and its writer     *)
(* awaits each of these adapter calls, others running in between.             *)
(***************************************************************************)
EXTENDS Naturals, Sequences

CONSTANTS
    Doc,        \* documents of the collection
    Token,      \* words
    Absent,     \* no row
    Worker      \* callers of the collection: each awaits its own operation

VARIABLES
    postings,   \* the posting store, a subset of Doc \X Token
    jobs        \* [Worker -> Seq of jobs]: the after-hooks it has yet to run

Tokens(row) == IF row = Absent THEN {} ELSE row

-----------------------------------------------------------------------------
\* The jobs.

\* Mutant of Lost: the tokens that stay are removed as well.
LostAll(old, new) == Tokens(old)

\* updateRecord touches only the tokens that changed; for indexRecord old is
\* Absent, and for removeRecord new is.
Lost(old, new) == Tokens(old) \ Tokens(new)

Gained(old, new) == Tokens(new) \ Tokens(old)

Job(d, old, new) ==
    [remove |-> {d} \X Lost(old, new), add |-> {d} \X Gained(old, new), batch |-> FALSE]

\* indexRecords: the postings of all the rows at once.
BatchJob(new) ==
    [remove |-> {}, add |-> {p \in Doc \X Token : p[1] \in DOMAIN new /\ p[2] \in Tokens(new[p[1]])},
     batch |-> TRUE]

JobDocs(job) == {p[1] : p \in job.remove \cup job.add}

\* Mutant of Left: a finished job is not taken off the queue.
LeftQueued(w, job) == jobs' = [jobs EXCEPT ![w] = <<job>> \o Tail(@)]

\* A worker's queue once its first job is what is left of it.
Left(w, job) ==
    jobs' = [jobs EXCEPT ![w] = IF job.remove \cup job.add = {} THEN Tail(@) ELSE <<job>> \o Tail(@)]

-----------------------------------------------------------------------------
\* The steps of the first job of a worker.

RemovePosting(w) ==
    LET job == Head(jobs[w]) IN
    \E p \in job.remove :
        /\ postings' = postings \ {p}
        /\ Left(w, [job EXCEPT !.remove = @ \ {p}])

\* A posting that is there already is a duplicate, and ignored.
AddPosting(w) ==
    LET job == Head(jobs[w]) IN
    /\ job.remove = {}
    /\ ~job.batch
    /\ \E p \in job.add :
          /\ postings' = postings \cup {p}
          /\ Left(w, [job EXCEPT !.add = @ \ {p}])

\* createMany inserts all the postings, or none when one is a duplicate: then
\* they are inserted one by one.
AddBatch(w) ==
    LET job == Head(jobs[w]) IN
    /\ job.batch
    /\ IF job.add \cap postings = {}
       THEN postings' = postings \cup job.add /\ Left(w, [job EXCEPT !.add = {}])
       ELSE Left(w, [job EXCEPT !.batch = FALSE]) /\ UNCHANGED postings

\* The adapter fails: runAfterHook reports it and the next hook runs.
AbandonJob(w) ==
    /\ jobs' = [jobs EXCEPT ![w] = Tail(@)]
    /\ UNCHANGED postings

-----------------------------------------------------------------------------
\* search: the documents that have each token, looked up one after the other.
DocsWith(t) == {d \in Doc : <<d, t>> \in postings}
=============================================================================
