-------------------------- MODULE CollectionWrites --------------------------
(***************************************************************************)
(* The writes of a collection (collection.ts) and of db.transaction()        *)
(* (transaction-context.ts), with the after-hooks they run.  update, delete   *)
(* and deleteMany read the rows first and give the hook what they read; other *)
(* callers run at each await.  A row is the text of the document.  put is an  *)
(* update or a create, whichever its own read suggests.                       *)
(***************************************************************************)
EXTENDS FtsIndexer, SequencesExt

CONSTANTS
    Text,       \* the texts documents have, sets of tokens
    MaxOps      \* bound of the model: operations begun

ASSUME TextAssumption == Text \subseteq SUBSET Token /\ \A text \in Text : Absent # text

\* The ids a call is about are a finite list.
ASSUME DocAssumption == IsFiniteSet(Doc)

ASSUME BoundAssumption == MaxOps \in Nat

VARIABLES
    rows,       \* [Doc -> Text \cup {Absent}]
    op,         \* [Worker -> operation that has read and not yet written]
    seen,       \* [Worker -> what that operation read]
    inTxn,      \* [Worker -> is it in a transaction]
    undo,       \* [Worker -> rows of its transaction, as before its first write]
    ops,        \* how many operations were begun
    clean       \* history: documents with no overlapping or failed writes

writeVars == <<postings, jobs, rows, op, seen, inTxn, undo, ops, clean>>

Row == Text \cup {Absent}
Nothing == [d \in {} |-> Absent]
PartialRows == UNION {[ids -> Row] : ids \in SUBSET Doc}

WritesTypeOK ==
    /\ postings \subseteq Doc \X Token
    /\ \A w \in Worker : \A n \in DOMAIN jobs[w] :
          /\ jobs[w][n].remove \cup jobs[w][n].add \subseteq Doc \X Token
          /\ jobs[w][n].remove \cap jobs[w][n].add = {}
          /\ jobs[w][n].remove \cup jobs[w][n].add # {}
    /\ rows \in [Doc -> Row]
    /\ op \in [Worker -> {"none", "update", "delete", "deleteMany"}]
    /\ seen \in [Worker -> PartialRows]
    /\ inTxn \in [Worker -> BOOLEAN]
    /\ undo \in [Worker -> PartialRows]
    /\ ops \in 0..MaxOps
    /\ clean \subseteq Doc

\* The documents that a worker's operation is about.
Busy(w) == DOMAIN seen[w] \cup DOMAIN undo[w] \cup UNION {JobDocs(jobs[w][n]) : n \in DOMAIN jobs[w]}
BusyDocs == UNION {Busy(w) : w \in Worker}

\* Two operations on a document at a time: no more is asked of it.
Touches(w, ids) ==
    clean' = clean \ (ids \cap UNION {Busy(u) : u \in Worker \ {w}})

\* It can start an operation: the one before has returned.
Ready(w) ==
    /\ op[w] = "none"
    /\ inTxn[w] \/ jobs[w] = <<>>
    /\ ops < MaxOps
    /\ ops' = ops + 1

NoMore(w) ==
    /\ op' = [op EXCEPT ![w] = "none"]
    /\ seen' = [seen EXCEPT ![w] = Nothing]
    /\ UNCHANGED ops

\* The rows, some of them replaced.
Replaced(some) == [d \in Doc |-> IF d \in DOMAIN some THEN some[d] ELSE rows[d]]

\* What a transaction has to put back once it has written these documents too.
UndoWith(w, ids) ==
    [d \in DOMAIN undo[w] \cup ids |-> IF d \in DOMAIN undo[w] THEN undo[w][d] ELSE rows[d]]

\* A hook with no posting to touch does nothing.
Due(job) == IF job.remove \cup job.add = {} THEN <<>> ELSE <<job>>

\* The rows are written and the hooks queued: in a transaction they wait for it.
Written(w, new, due) ==
    /\ rows' = Replaced(new)
    /\ jobs' = [jobs EXCEPT ![w] = @ \o due]
    /\ undo' = IF inTxn[w] THEN [undo EXCEPT ![w] = UndoWith(w, DOMAIN new)] ELSE undo
    /\ Touches(w, DOMAIN new)
    /\ UNCHANGED <<postings, inTxn>>

-----------------------------------------------------------------------------
\* The operations.

Create(w) ==
    /\ Ready(w)
    /\ \E d \in Doc, text \in Text :
          /\ rows[d] = Absent
          /\ Written(w, [e \in {d} |-> text], Due(Job(d, Absent, text)))
    /\ UNCHANGED <<op, seen>>

CreateMany(w) ==
    /\ Ready(w) /\ ~inTxn[w]
    /\ \E ids \in SUBSET Doc \ {{}} : \E new \in [ids -> Text] :
          /\ \A d \in ids : rows[d] = Absent
          /\ Written(w, new, Due(BatchJob(new)))
    /\ UNCHANGED <<op, seen>>

\* The read that update, delete and deleteMany begin with.
Read(w) ==
    /\ Ready(w)
    /\ \E kind \in {"update", "delete", "deleteMany"}, ids \in SUBSET Doc \ {{}} :
          /\ kind = "deleteMany" => ~inTxn[w]
          /\ kind # "deleteMany" => \E d \in ids : ids = {d}
          /\ kind = "update" => \A d \in ids : rows[d] # Absent
          /\ op' = [op EXCEPT ![w] = kind]
          /\ seen' = [seen EXCEPT ![w] = [d \in ids |-> rows[d]]]
          /\ Touches(w, ids)
    /\ UNCHANGED <<postings, jobs, rows, inTxn, undo>>

Update(w) ==
    /\ op[w] = "update"
    /\ \E d \in DOMAIN seen[w], text \in Text :
          /\ rows[d] # Absent
          /\ Written(w, [e \in {d} |-> text], Due(Job(d, seen[w][d], text)))
    /\ NoMore(w)

\* The row has gone since it was read.
UpdateRejected(w) ==
    /\ op[w] = "update"
    /\ \E d \in DOMAIN seen[w] : rows[d] = Absent
    /\ NoMore(w)
    /\ UNCHANGED <<postings, jobs, rows, inTxn, undo, clean>>

\* delete, and deleteMany with its hooks in the caller's order: only those of
\* documents that were there, and had a text, touch a posting.
Delete(w) ==
    /\ op[w] \in {"delete", "deleteMany"}
    /\ \E order \in SetToSeqs({d \in DOMAIN seen[w] : Tokens(seen[w][d]) # {}}) :
          Written(w, [d \in DOMAIN seen[w] |-> Absent],
                  [n \in DOMAIN order |-> Job(order[n], seen[w][order[n]], Absent)])
    /\ NoMore(w)

Begin(w) ==
    /\ op[w] = "none" /\ jobs[w] = <<>> /\ ~inTxn[w]
    /\ inTxn' = [inTxn EXCEPT ![w] = TRUE]
    /\ UNCHANGED <<postings, jobs, rows, op, seen, undo, ops, clean>>

\* flush: the hooks of the committed writes, in their order, are due from here.
Commit(w) ==
    /\ inTxn[w] /\ op[w] = "none"
    /\ inTxn' = [inTxn EXCEPT ![w] = FALSE]
    /\ undo' = [undo EXCEPT ![w] = Nothing]
    /\ UNCHANGED <<ops, postings, jobs, rows, op, seen, clean>>

\* Mutant of Forgotten: flush runs although the transaction was rolled back.
ForgottenNothing(w) == jobs

Forgotten(w) == [jobs EXCEPT ![w] = <<>>]

\* The callback throws: its rows are put back (module Transactions has the
\* loop), and the hooks of its writes never run.
RollBack(w) ==
    /\ inTxn[w] /\ op[w] = "none"
    /\ rows' = Replaced(undo[w])
    /\ undo' = [undo EXCEPT ![w] = Nothing]
    /\ jobs' = Forgotten(w)
    /\ inTxn' = [inTxn EXCEPT ![w] = FALSE]
    /\ UNCHANGED <<ops, postings, op, seen, clean>>

HookStep(w) ==
    /\ ~inTxn[w] /\ jobs[w] # <<>>
    /\ RemovePosting(w) \/ AddPosting(w) \/ AddBatch(w)
    /\ UNCHANGED <<ops, rows, op, seen, inTxn, undo, clean>>

HookFails(w) ==
    /\ ~inTxn[w] /\ jobs[w] # <<>>
    /\ AbandonJob(w)
    /\ clean' = clean \ JobDocs(Head(jobs[w]))
    /\ UNCHANGED <<ops, rows, op, seen, inTxn, undo>>
=============================================================================
