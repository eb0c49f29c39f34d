--------------------------- MODULE StorageSystem ---------------------------
(***************************************************************************)
(* The memory store with its transactions, other writers and queries.       *)
(***************************************************************************)
EXTENDS Transactions

CONSTANT Condition  \* the conditions the application's queries are made of

ASSUME ConditionAssumption ==
    \A c \in Condition :
        /\ c.op \in Operator
        /\ \/ c.field = "id" /\ c.value \in Id
           \/ c.field = "key" /\ c.value \in Value

Group == UNION {[1..n -> Condition] : n \in 0..2}

QueryStep ==
    /\ rolling = Nobody
    /\ \E g \in Group : Query(g)
    /\ UNCHANGED txnVars

Next ==
    \/ AppWrite
    \/ \E t \in Txn : Begin(t) \/ TxnWrite(t) \/ Commit(t) \/ Throw(t)
    \/ Undo
    \/ RolledBack
    \/ QueryStep

Spec == Init /\ [][Next]_vars

-----------------------------------------------------------------------------
\* The index is what the rows say, after every write, batch and undo: the
\* bucket of a key holds the rows with that key, the count is that of the rows
\* it cannot hold, and a cached list of keys is the list of keys.  #applyIndexes
\* keeps these three structures step by step and never recomputes them.
IndexExact ==
    /\ \A k \in Key : buckets[k] = {i \in Id : data[i] = k}
    /\ oddRows = Cardinality({i \in Id : data[i] \in Odd})
    /\ sorted \in {NoCache, Occupied(buckets)}

\* Two rows that share a value of a unique index shared it before.
UniqueKept ==
    unique /\ rolling = Nobody =>
       \A i, j \in Rows' :
          i # j /\ data'[i] = data'[j] /\ data'[i] \in Checked
             => data'[i] = data[i] /\ data'[j] = data[j]

\* No operation but a rollback lets two rows share a value of a unique index that
\* did not share it before: not an update, not two rows of one batch, not a write
\* in a transaction beside one outside.  (The rollback loop checks nothing: it can
\* put back a key that somebody else has taken meanwhile.)
UniqueHolds == [][UniqueKept]_vars

\* Whatever plan is chosen, a query returns the rows that match all its
\* conditions, provided that the rows have values of the types it asks for: the
\* plan compares by the key ranges of the index, the meaning by JavaScript's
\* operators.  In every state, those in the middle of transactions included.
QueriesAgree == \A g \in Group : WellTyped(g) => Execute(g) = Meaning(g)

\* "The presence of an index must never change a result set": of any values.
\* Code: createQueryRange gives a key range to every condition whose own value
\* is a key, and queryRangeContains leaves out the rows whose value is none or of
\* another type, which the predicate of a full scan may match.
IndexChangesNothing == \A g \in Group : Execute(g) = Meaning(g)

\* What a row was before the transaction's first write to it.
Before(t, i) ==
    LET first == CHOOSE n \in DOMAIN journal[t] :
                    journal[t][n].id = i /\ \A m \in 1..(n - 1) : journal[t][m].id # i
    IN  journal[t][first].before

\* A transaction that threw leaves every row it wrote, and nobody else did since,
\* as it was before its first write to it.
RollbackRestores ==
    [][\A t \in Txn : rolling = t /\ rolling' = Nobody =>
          \A i \in Touched(t) \ others[t] : data[i] = Before(t, i)]_vars

\* The rows that the transaction wrote once and somebody else wrote after it.
Overtaken(t) ==
    {i \in others[t] : Cardinality({n \in DOMAIN journal[t] : journal[t][n].id = i}) = 1}

\* "A thrown error reverts only the writes this transaction made": its rollback
\* leaves alone a row that somebody else has written after it.
RollbackKeepsOthers ==
    [][\A t \in Txn : rolling = t => \A i \in Overtaken(t) : data'[i] = data[i]]_vars
=============================================================================
