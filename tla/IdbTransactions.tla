-------------------------- MODULE IdbTransactions --------------------------
(***************************************************************************)
(* The operations of a collection on the IndexedDB adapter.  The browser    *)
(* runs the transactions of an object store in the order they were made; a   *)
(* writing one waits for all before it.  create, update and delete answer    *)
(* when their request has succeeded, before the commit; createMany,          *)
(* deleteMany and transaction answer when the transaction has completed.     *)
(*                                                                         *)
(* The fetches of a component wait in the same line (module UseQuery).       *)
(***************************************************************************)
EXTENDS AtomicStore, Sequences

CONSTANT Fetch   \* the fetches that may be under way at a time

ASSUME FetchAssumption == Op \cap Fetch = {}

VARIABLES
    line,      \* transactions of operations and fetches, in the order made
    phase,     \* how far each operation has come, as its caller sees it
    existing,  \* what the collection read before it asked for the write
    seen,      \* the rows as the running transaction sees them
    done       \* the rows the running transaction has written

txVars == <<seen, done>>
storeVars == <<rows, applied, idle, line, phase, existing, txVars>>

Phase == {"new", "called", "asked", "answered", "failed", "ended"}

Single(o) == Kind[o] \in {"create", "update", "delete"}

NoRows == [i \in Id |-> Absent]

StoreTypeOK ==
    /\ rows \in Rows /\ seen \in Rows
    /\ applied \subseteq Op /\ idle \subseteq applied
    /\ line \in Seq(Op \cup Fetch)
    /\ phase \in [Op -> Phase]
    /\ existing \in [Op -> Rows]
    /\ done \subseteq Id

StoreInit ==
    /\ Init
    /\ line = <<>>
    /\ phase = [o \in Op |-> "new"]
    /\ existing = [o \in Op |-> NoRows]
    /\ seen = NoRows
    /\ done = {}

IsHead(x) == line # <<>> /\ Head(line) = x

\* A transaction is writing: nothing else reads or writes the store.
Writing == done # {}

Become(o, p) == phase' = [phase EXCEPT ![o] = p]

-----------------------------------------------------------------------------
\* findById, findByIds: what the collection reads of an operation's rows.
Found(o) == [i \in Id |-> IF i \in Touches[o] THEN rows[i] ELSE Absent]

\* Collection.update, delete and deleteMany first read the rows in a
\* transaction of their own; update throws when there is none.
Calls(o) ==
    /\ phase[o] = "new" /\ ~Writing
    /\ IF Kind[o] \in {"update", "delete", "deleteMany"}
         THEN /\ existing' = [existing EXCEPT ![o] = Found(o)]
              /\ Become(o, IF \A i \in Touches[o] : Kind[o] = "update" => rows[i] # Absent
                             THEN "called" ELSE "failed")
         ELSE Become(o, "called") /\ UNCHANGED existing
    /\ UNCHANGED <<rows, applied, idle, line, txVars>>

\* The before hooks have run; the adapter makes the transaction.
Asks(o) ==
    /\ phase[o] = "called"
    /\ Become(o, "asked")
    /\ line' = Append(line, o)
    /\ UNCHANGED <<rows, applied, idle, existing, txVars>>

\* Mutant of Base: the row the collection has read is merged and put.
BaseRead(o, i) == IF Kind[o] = "update" THEN existing[o][i] ELSE seen[i]

\* The content a request finds: update reads the row inside its transaction.
Base(o, i) == seen[i]

\* Mutant of AnsweredByRequest: a batch resolves with its last request.
AnsweredByAny(o) == Single(o) \/ Kind[o] = "createMany"

\* What answers before the transaction commits.
AnsweredByRequest(o) == Single(o)

\* A request of the transaction succeeds; the last one answers a single write.
RequestSucceeds(o, i) ==
    /\ IsHead(o) /\ i \in Touches[o] \ done
    /\ Accepts(o, seen[i])
    /\ seen' = [seen EXCEPT ![i] = Written(o, Base(o, i))]
    /\ done' = done \cup {i}
    /\ Become(o, IF AnsweredByRequest(o) /\ done' = Touches[o] THEN "answered" ELSE phase[o])
    /\ UNCHANGED <<rows, applied, idle, line, existing>>

\* The transaction of an operation, whose turn it is, ends without an effect.
Aborts(o, p) ==
    /\ IsHead(o)
    /\ line' = Tail(line)
    /\ seen' = rows
    /\ done' = {}
    /\ Become(o, p)
    /\ UNCHANGED <<rows, applied, idle, existing>>

\* A request fails: the id is taken, or there is nothing to update.
RequestFails(o, i) ==
    /\ i \in Touches[o] \ done
    /\ ~Accepts(o, seen[i])
    /\ Aborts(o, "failed")

\* What is written becomes the state of the store.
Install(o) ==
    /\ IsHead(o)
    /\ rows' = seen
    /\ applied' = applied \cup {o}
    /\ line' = Tail(line)
    /\ done' = {}
    /\ UNCHANGED <<seen, existing>>

\* tx.oncomplete
Commits(o) ==
    /\ done = Touches[o]
    /\ Install(o)
    /\ Become(o, IF phase[o] = "asked" THEN "answered" ELSE phase[o])
    /\ UNCHANGED idle

\* The commit fails, say for want of space: tx.onabort.  deleteMany listens to
\* tx.onerror alone and never settles; a single write was answered before.
CommitFails(o) ==
    /\ done = Touches[o]
    /\ Aborts(o, IF Kind[o] \in {"createMany", "transaction"} THEN "failed" ELSE phase[o])

\* The callback of transaction() throws: tx.abort().  It may do so while the
\* transaction waits for its turn, with nothing written; that is the same to
\* everyone as throwing when the turn comes.
CallbackThrows(o) ==
    /\ Kind[o] = "transaction" /\ phase[o] = "asked"
    /\ Aborts(o, "failed")

\* The callback awaits something else: the browser commits what is written.
CallbackIdles(o) ==
    /\ Kind[o] = "transaction" /\ phase[o] = "asked"
    /\ Install(o)
    /\ idle' = idle \cup {o}
    /\ UNCHANGED phase

\* Then it returns, and transaction() with it, or fails at its next request.
CallbackGoesOn(o) ==
    /\ o \in idle /\ phase[o] = "asked"
    /\ \E p \in {"answered", "failed"} : Become(o, p)
    /\ UNCHANGED <<rows, applied, idle, line, existing, txVars>>

\* What the browser and the adapter do for an operation.
Proceeds(o) ==
    \/ Asks(o)
    \/ \E i \in Touches[o] : RequestSucceeds(o, i) \/ RequestFails(o, i)
    \/ Commits(o) \/ CallbackGoesOn(o)

\* What may also happen to it.
Suffers(o) == CommitFails(o) \/ CallbackThrows(o) \/ CallbackIdles(o)
=============================================================================
