--------------------------- MODULE StorageProofs ---------------------------
(***************************************************************************)
(* Proofs about the memory store, for every set of ids, keys, conditions    *)
(* and transactions: its index is always that of its rows, so that no index *)
(* changes what a query returns and no write puts a unique key in two rows,  *)
(* and every page of a query of several groups is the page it should be.     *)
(***************************************************************************)
EXTENDS QueryWindow, FiniteSetTheorems, WellFoundedInduction, TLAPS

\* The rows that the index cannot hold.
Oddities(rows) == {i \in Id : rows[i] \in Odd}

\* What the loop that undoes a journal needs: there is an entry at its turn.
JournalsFit ==
    /\ \A t \in Txn : Len(journal[t]) <= MaxJournal
    /\ rolling = Nobody => turn = 0
    /\ rolling # Nobody => turn <= Len(journal[rolling])

\* The inductive invariant.
StoreInv == TypeOK /\ IndexExact /\ JournalsFit

-----------------------------------------------------------------------------
\* One write, however many rows it stores.

\* The value of the indexed field tells a key or an odd value from everything else.
LEMMA FieldTells ==
  ASSUME NEW row \in Row, NEW v \in Key \cup Odd
  PROVE  FieldOf(row) = v <=> row = v
  BY StoreAssumption DEF FieldOf, Row, Value

\* The buckets are updated to those of the new rows.
LEMMA BucketsFollow ==
  ASSUME StoreTypeOK, IndexExact,
         NEW S \in SUBSET Id, NEW new \in [S -> Row], StoreRows(new)
  PROVE  /\ data' \in [Id -> Row]
         /\ buckets' \in [Key -> SUBSET Id]
         /\ \A k \in Key : buckets'[k] = {i \in Id : data'[i] = k}
<1>1. data' \in [Id -> Row] /\ \A i \in Id : data'[i] = IF i \in S THEN new[i] ELSE data[i]
  BY DEF StoreRows, StoreTypeOK, Row
<1>2. ASSUME NEW k \in Key
      PROVE  /\ (buckets[k] \ Leaving(new, k)) \cup Entering(new, k) \in SUBSET Id
             /\ (buckets[k] \ Leaving(new, k)) \cup Entering(new, k) = {i \in Id : data'[i] = k}
  <2>1. buckets[k] = {i \in Id : data[i] = k}
    BY DEF IndexExact
  <2>2. Leaving(new, k) = {i \in S : data[i] = k /\ FieldOf(new[i]) # FieldOf(data[i])}
    BY FieldTells DEF Leaving, Moved, StoreTypeOK, Row
  <2>3. Entering(new, k) = {i \in S : new[i] = k /\ FieldOf(new[i]) # FieldOf(data[i])}
    BY FieldTells DEF Entering, Moved
  <2>4. \A i \in S : FieldOf(new[i]) = FieldOf(data[i]) => (new[i] = k <=> data[i] = k)
    BY FieldTells DEF StoreTypeOK, Row
  <2> QED BY <1>1, <2>1, <2>2, <2>3, <2>4
<1>3. buckets' = [k \in Key |-> (buckets[k] \ Leaving(new, k)) \cup Entering(new, k)]
  BY DEF StoreRows, Reindex
<1> QED BY <1>1, <1>2, <1>3

\* The count of odd rows is updated to that of the new rows, and what
\* #adjustUnindexable does to keep it from going below zero is never needed.
LEMMA OddRowsFollow ==
  ASSUME StoreTypeOK, IndexExact,
         NEW S \in SUBSET Id, NEW new \in [S -> Row], StoreRows(new)
  PROVE  oddRows' = Cardinality(Oddities(data')) /\ oddRows' \in 0..Cardinality(Id)
<1> DEFINE Old == Oddities(data)
           Out == UNION {Leaving(new, v) : v \in Odd}
           In == UNION {Entering(new, v) : v \in Odd}
<1>1. \A i \in Id : data'[i] = IF i \in S THEN new[i] ELSE data[i]
  BY DEF StoreRows
<1>2. Out = {i \in S : data[i] \in Odd /\ FieldOf(new[i]) # FieldOf(data[i])}
  BY FieldTells DEF Leaving, Moved, StoreTypeOK, Row
<1>3. In = {i \in S : new[i] \in Odd /\ FieldOf(new[i]) # FieldOf(data[i])}
  BY FieldTells DEF Entering, Moved
<1>4. \A i \in S : FieldOf(new[i]) = FieldOf(data[i]) => (new[i] \in Odd <=> data[i] \in Odd)
  BY FieldTells DEF StoreTypeOK, Row
<1>5. Oddities(data') = (Old \ Out) \cup In /\ (Old \ Out) \cap In = {}
  BY <1>1, <1>2, <1>3, <1>4 DEF Oddities
<1>6. Out \subseteq Old /\ In \subseteq Id /\ Old \subseteq Id /\ Oddities(data') \subseteq Id
  BY <1>2, <1>3 DEF Oddities
<1> HIDE DEF Old, Out, In
<1>7. IsFiniteSet(Id) /\ IsFiniteSet(Old) /\ IsFiniteSet(Out) /\ IsFiniteSet(In)
  BY <1>6, StoreAssumption, FS_Subset
<1>8. IsFiniteSet(Old \ Out) /\ Cardinality(Old \ Out) = Cardinality(Old) - Cardinality(Out)
  <2>1. Old \cap Out = Out
    BY <1>6
  <2> QED BY <1>7, <2>1, FS_Difference
<1>9. Cardinality(Oddities(data')) = Cardinality(Old) - Cardinality(Out) + Cardinality(In)
  <2>1. Cardinality((Old \ Out) \cap In) = 0
    BY <1>5, FS_EmptySet
  <2>2. Cardinality(Old \ Out) \in Nat /\ Cardinality(In) \in Nat
    BY <1>7, <1>8, FS_CardinalityType
  <2>3. Cardinality((Old \ Out) \cup In)
          = Cardinality(Old \ Out) + Cardinality(In) - Cardinality((Old \ Out) \cap In)
    BY <1>7, <1>8, FS_Union
  <2>4. Cardinality(Oddities(data')) = Cardinality(Old \ Out) + Cardinality(In)
    BY <1>5, <2>1, <2>2, <2>3
  <2> QED BY <1>8, <2>4
<1>10. /\ Cardinality(Old) \in Nat /\ Cardinality(Out) \in Nat /\ Cardinality(In) \in Nat
       /\ Cardinality(Out) <= Cardinality(Old)
  BY <1>6, <1>7, FS_CardinalityType, FS_Subset
<1>11. oddRows = Cardinality(Old)
  BY DEF IndexExact, Oddities, Old
<1>12. oddRows' = Cardinality(Oddities(data'))
  <2>1. oddRows' = (IF Cardinality(Out) > oddRows THEN 0 ELSE oddRows - Cardinality(Out))
                      + Cardinality(In)
    BY DEF StoreRows, Reindex, OddRowsAfter, Out, In
  <2> QED BY <1>9, <1>10, <1>11, <2>1
<1>13. Cardinality(Oddities(data')) \in 0..Cardinality(Id)
  BY <1>6, <1>7, FS_Subset, FS_CardinalityType
<1> QED BY <1>12, <1>13

\* The cached keys survive only a write that neither fills nor empties a bucket.
LEMMA CacheFollows ==
  ASSUME IndexExact, NEW new, StoreRows(new)
  PROVE  sorted' \in {NoCache, Occupied(buckets')}
<1>1. CASE BucketsChange(buckets')
  BY <1>1 DEF StoreRows, Reindex
<1>2. CASE ~BucketsChange(buckets')
  <2>1. Occupied(buckets') = Occupied(buckets)
    BY <1>2 DEF BucketsChange, Occupied
  <2> QED BY <1>2, <2>1 DEF StoreRows, Reindex, IndexExact
<1> QED BY <1>1, <1>2

LEMMA StoreRowsKeeps ==
  ASSUME StoreTypeOK, IndexExact,
         NEW S \in SUBSET Id, NEW new \in [S -> Row], StoreRows(new)
  PROVE  StoreTypeOK' /\ IndexExact'
<1>1. /\ data' \in [Id -> Row]
      /\ buckets' \in [Key -> SUBSET Id]
      /\ \A k \in Key : buckets'[k] = {i \in Id : data'[i] = k}
  BY BucketsFollow
<1>2. oddRows' = Cardinality(Oddities(data')) /\ oddRows' \in 0..Cardinality(Id)
  BY OddRowsFollow
<1>3. sorted' \in {NoCache, Occupied(buckets')}
  BY CacheFollows
<1>4. unique' \in BOOLEAN
  BY DEF StoreTypeOK, StoreRows
<1>5. StoreTypeOK'
  BY <1>1, <1>2, <1>3, <1>4 DEF StoreTypeOK, Row, Occupied
<1>6. IndexExact'
  BY <1>1, <1>2, <1>3 DEF IndexExact, Oddities, Occupied
<1> QED BY <1>5, <1>6

LEMMA StoreRowKeeps ==
  ASSUME StoreTypeOK, IndexExact, NEW i \in Id, NEW row \in Row, StoreRow(i, row)
  PROVE  StoreTypeOK' /\ IndexExact'
<1>1. [j \in {i} |-> row] \in [{i} -> Row]
  OBVIOUS
<1> QED BY <1>1, StoreRowsKeeps DEF StoreRow

-----------------------------------------------------------------------------
\* Every step keeps the invariant.

LEMMA InitStoreInv == Init => StoreInv
<1> SUFFICES ASSUME Init PROVE StoreInv
  OBVIOUS
<1>1. {i \in Id : data[i] \in Odd} = {} /\ \A k \in Key : {i \in Id : data[i] = k} = {}
  BY StoreAssumption DEF Init, StoreInit
<1>2. Cardinality({i \in Id : data[i] \in Odd}) = 0 /\ Cardinality(Id) \in Nat
  BY <1>1, StoreAssumption, FS_EmptySet, FS_CardinalityType
<1>3. StoreTypeOK
  BY <1>2 DEF Init, StoreInit, StoreTypeOK
<1>4. IndexExact
  BY <1>1, <1>2 DEF Init, StoreInit, IndexExact
<1>5. TypeOK
  BY <1>3, TransactionAssumption DEF Init, TypeOK
<1>6. JournalsFit
  BY TransactionAssumption DEF Init, JournalsFit
<1> QED BY <1>4, <1>5, <1>6 DEF StoreInv

LEMMA AppWriteKeeps == StoreInv /\ AppWrite => StoreInv'
<1> SUFFICES ASSUME StoreInv, AppWrite PROVE StoreInv'
  OBVIOUS
<1>1. StoreTypeOK /\ IndexExact
  BY DEF StoreInv, TypeOK
<1>2. StoreTypeOK' /\ IndexExact'
  <2>1. ASSUME NEW i \in Id, NEW v \in Value, Create(i, v) \/ Update(i, v)
        PROVE  StoreTypeOK' /\ IndexExact'
    BY <1>1, <2>1, StoreRowKeeps DEF Create, Update, Row
  <2>2. ASSUME NEW i \in Id, Delete(i)
        PROVE  StoreTypeOK' /\ IndexExact'
    BY <1>1, <2>2, StoreRowKeeps DEF Delete, Row
  <2>3. ASSUME NEW ids \in SUBSET Id, DeleteMany(ids)
        PROVE  StoreTypeOK' /\ IndexExact'
    <3>1. [i \in ids |-> Absent] \in [ids -> Row]
      BY DEF Row
    <3> QED BY <1>1, <2>3, <3>1, StoreRowsKeeps DEF DeleteMany
  <2>4. ASSUME NEW ids \in SUBSET Id, NEW new \in [ids -> Value], CreateMany(new)
        PROVE  StoreTypeOK' /\ IndexExact'
    <3>1. new \in [ids -> Row]
      BY DEF Row
    <3> QED BY <1>1, <2>4, <3>1, StoreRowsKeeps DEF CreateMany
  <2> QED BY <2>1, <2>2, <2>3, <2>4 DEF AppWrite
<1>3. others' \in [Txn -> SUBSET Id]
  BY DEF AppWrite, Noted, StoreInv, TypeOK
<1>4. TypeOK' /\ JournalsFit'
  BY <1>2, <1>3 DEF AppWrite, StoreInv, TypeOK, JournalsFit
<1> QED BY <1>2, <1>4 DEF StoreInv

LEMMA TxnWriteKeeps ==
  ASSUME StoreInv, NEW t \in Txn, TxnWrite(t)
  PROVE  StoreInv'
<1>1. StoreTypeOK /\ IndexExact
  BY DEF StoreInv, TypeOK
<1>2. PICK i \in Id : /\ (\E v \in Value : Create(i, v) \/ Update(i, v)) \/ Delete(i)
                      /\ Journalled(t, i)
                      /\ Noted({i}, t)
  BY DEF TxnWrite
<1>3. StoreTypeOK' /\ IndexExact'
  BY <1>1, <1>2, StoreRowKeeps DEF Create, Update, Delete, Row
<1> DEFINE E == [id : Id, before : Row]
           e == [id |-> i, before |-> data[i]]
<1>4. journal \in [Txn -> Seq(E)] /\ e \in E
  BY <1>1 DEF StoreTypeOK, Row, StoreInv, TypeOK
<1>9. journal' = [journal EXCEPT ![t] = Append(@, e)]
  BY <1>2 DEF Journalled
<1> HIDE DEF E, e
<1>5. journal' \in [Txn -> Seq(E)] /\ \A u \in Txn : Len(journal'[u]) <= MaxJournal
  <2>1. journal[t] \in Seq(E) /\ Len(journal[t]) \in Nat
    BY <1>4
  <2>2. Append(journal[t], e) \in Seq(E) /\ Len(Append(journal[t], e)) = Len(journal[t]) + 1
    BY <1>4, <2>1
  <2>3. \A u \in Txn : journal'[u] = IF u = t THEN Append(journal[t], e) ELSE journal[u]
    BY <1>4, <1>9
  <2>4. \A u \in Txn : Len(journal'[u]) <= MaxJournal
    <3>1. Len(journal[t]) < MaxJournal /\ \A u \in Txn : Len(journal[u]) <= MaxJournal
      BY DEF TxnWrite, StoreInv, JournalsFit
    <3>2. Len(journal[t]) + 1 <= MaxJournal
      BY <2>1, <3>1, TransactionAssumption
    <3>3. Len(journal'[t]) <= MaxJournal
      BY <2>2, <2>3, <3>2
    <3> QED BY <2>3, <3>1, <3>3
  <2> QED BY <1>4, <1>9, <2>2, <2>4
<1> USE DEF E
<1>6. others' \in [Txn -> SUBSET Id]
  BY <1>2 DEF Noted, StoreInv, TypeOK
<1>7. TypeOK' /\ JournalsFit'
  BY <1>3, <1>5, <1>6 DEF TxnWrite, StoreInv, TypeOK, JournalsFit
<1> QED BY <1>3, <1>7 DEF StoreInv

LEMMA UndoKeeps == StoreInv /\ Undo => StoreInv'
<1> SUFFICES ASSUME StoreInv, Undo PROVE StoreInv'
  OBVIOUS
<1> DEFINE entry == journal[rolling][turn]
<1>1. StoreTypeOK /\ IndexExact
  BY DEF StoreInv, TypeOK
<1>2. turn \in Nat /\ turn > 0 /\ rolling \in Txn /\ turn <= Len(journal[rolling])
  BY TransactionAssumption DEF Undo, StoreInv, TypeOK, JournalsFit
<1>3. entry.id \in Id /\ entry.before \in Row
  <2> DEFINE E == [id : Id, before : Row]
  <2>1. journal[rolling] \in Seq(E)
    BY <1>2 DEF StoreInv, TypeOK
  <2> HIDE DEF E
  <2>2. entry \in E
    BY <1>2, <2>1
  <2> QED BY <2>2 DEF E
<1>4. StoreTypeOK' /\ IndexExact'
  BY <1>1, <1>3, StoreRowKeeps DEF Undo, NextUndo
<1>5. others' \in [Txn -> SUBSET Id]
  <2>1. Noted({entry.id}, rolling)
    BY DEF Undo, NextUndo
  <2> QED BY <1>3, <2>1 DEF Noted, StoreInv, TypeOK
<1>6. turn' \in 0..MaxJournal /\ (rolling # Nobody => turn' <= Len(journal[rolling]))
  BY <1>2, TransactionAssumption DEF Undo, StoreInv, TypeOK, JournalsFit
<1>7. TypeOK' /\ JournalsFit'
  BY <1>2, <1>4, <1>5, <1>6, TransactionAssumption DEF Undo, StoreInv, TypeOK, JournalsFit
<1> QED BY <1>4, <1>7 DEF StoreInv

LEMMA EndedKeeps ==
  ASSUME StoreInv, NEW t \in Txn, Ended(t), UNCHANGED <<storeVars, turn>>,
         rolling' \in {rolling, Nobody}, turn = 0
  PROVE  StoreInv'
<1>1. StoreTypeOK' /\ IndexExact'
  BY DEF StoreInv, TypeOK, StoreTypeOK, IndexExact, storeVars, indexVars, Occupied
<1>2. /\ journal' \in [Txn -> Seq([id : Id, before : Row])]
      /\ \A u \in Txn : Len(journal'[u]) <= MaxJournal /\ Len(journal'[u]) \in Nat
  <2>1. \A u \in Txn : journal'[u] = IF u = t THEN <<>> ELSE journal[u]
    BY DEF Ended, StoreInv, TypeOK
  <2> DEFINE E == [id : Id, before : Row]
  <2>2. journal \in [Txn -> Seq(E)]
    BY DEF StoreInv, TypeOK
  <2> HIDE DEF E
  <2>3. <<>> \in Seq(E) /\ Len(<<>>) = 0 /\ \A u \in Txn : Len(journal[u]) \in Nat
    BY <2>2
  <2>4. journal' \in [Txn -> Seq(E)]
    BY <2>2, <2>3 DEF Ended
  <2>5. \A u \in Txn : Len(journal'[u]) <= MaxJournal /\ Len(journal'[u]) \in Nat
    BY <2>1, <2>3, TransactionAssumption DEF StoreInv, JournalsFit
  <2> QED BY <2>4, <2>5 DEF E
<1>3. TypeOK'
  BY <1>1, <1>2 DEF Ended, StoreInv, TypeOK
<1>4. JournalsFit'
  BY <1>2, <1>3 DEF StoreInv, TypeOK, JournalsFit
<1> QED BY <1>1, <1>3, <1>4 DEF StoreInv

LEMMA StoreInvNext == StoreInv /\ [Next]_vars => StoreInv'
<1> SUFFICES ASSUME StoreInv, [Next]_vars PROVE StoreInv'
  OBVIOUS
<1>1. CASE AppWrite
  BY <1>1, AppWriteKeeps
<1>2. ASSUME NEW t \in Txn, Begin(t) PROVE StoreInv'
  BY <1>2 DEF Begin, StoreInv, TypeOK, StoreTypeOK, IndexExact, JournalsFit, Occupied,
      storeVars, indexVars
<1>3. ASSUME NEW t \in Txn, TxnWrite(t) PROVE StoreInv'
  BY <1>3, TxnWriteKeeps
<1>4. ASSUME NEW t \in Txn, Commit(t) PROVE StoreInv'
  BY <1>4, EndedKeeps DEF Commit, StoreInv, JournalsFit
<1>5. ASSUME NEW t \in Txn, Throw(t) PROVE StoreInv'
  <2> DEFINE E == [id : Id, before : Row]
  <2>1. journal \in [Txn -> Seq(E)]
    BY DEF StoreInv, TypeOK
  <2> HIDE DEF E
  <2>2. Len(journal[t]) \in 0..MaxJournal
    BY <2>1, TransactionAssumption DEF StoreInv, JournalsFit
  <2>3. StoreTypeOK' /\ IndexExact'
    BY <1>5 DEF Throw, StoreInv, TypeOK, StoreTypeOK, IndexExact, Occupied, storeVars, indexVars
  <2>4. TypeOK'
    BY <1>5, <2>2, <2>3 DEF Throw, StoreInv, TypeOK
  <2>5. JournalsFit'
    BY <1>5, <2>2, TransactionAssumption DEF Throw, StoreInv, JournalsFit
  <2> QED BY <2>3, <2>4, <2>5 DEF StoreInv
<1>6. CASE Undo
  BY <1>6, UndoKeeps
<1>7. CASE RolledBack
  BY <1>7, EndedKeeps DEF RolledBack, StoreInv, TypeOK
<1>8. CASE QueryStep
  <2>1. sorted' = Walked /\ UNCHANGED <<data, buckets, oddRows, unique, txnVars>>
    BY <1>8 DEF QueryStep, Query
  <2>2. sorted' = Occupied(buckets)
    BY <2>1 DEF Walked, StoreInv, IndexExact
  <2> QED BY <2>1, <2>2 DEF StoreInv, TypeOK, StoreTypeOK, IndexExact, JournalsFit, Occupied, txnVars
<1>9. CASE UNCHANGED vars
  BY <1>9 DEF StoreInv, TypeOK, StoreTypeOK, IndexExact, JournalsFit, Occupied, vars,
      storeVars, indexVars, txnVars
<1> QED BY <1>1, <1>2, <1>3, <1>4, <1>5, <1>6, <1>7, <1>8, <1>9 DEF Next

THEOREM StoreInvHolds == Spec => []StoreInv
  BY InitStoreInv, StoreInvNext, PTL DEF Spec

-----------------------------------------------------------------------------
\* Every variable of the store keeps its type.  (MemoryStore, Transactions)
THEOREM StorageTyped == Spec => []TypeOK
<1>1. StoreInv => TypeOK
  BY DEF StoreInv
<1> QED BY <1>1, StoreInvHolds, PTL

\* #applyIndexes keeps the buckets, the count of odd rows and the cached keys
\* equal to what the rows say, whatever writes, batches and rollbacks there are.
THEOREM IndexAlwaysExact == Spec => []IndexExact
<1>1. StoreInv => IndexExact
  BY DEF StoreInv
<1> QED BY <1>1, StoreInvHolds, PTL

-----------------------------------------------------------------------------
\* A write to a collection with a unique index.

\* The rows of a write that shares no value with a stored row, nor two of its own.
LEMMA DistinctKept ==
  ASSUME NEW S \in SUBSET Id, NEW new \in [S -> Row], StoreRows(new),
         \A i \in S, j \in Id \ S : new[i] \in Checked => new[i] # data[j],
         \A i, j \in S : new[i] = new[j] /\ new[i] \in Checked => i = j
  PROVE  UniqueKept
<1>1. \A i \in Id : data'[i] = IF i \in S THEN new[i] ELSE data[i]
  BY DEF StoreRows
<1> QED BY <1>1 DEF UniqueKept, Rows

LEMMA StoreRowDistinct ==
  ASSUME StoreInv, NEW i \in Id, NEW row \in Row, StoreRow(i, row),
         UniqueBut(row, {i})
  PROVE  UniqueKept
<1> DEFINE new == [j \in {i} |-> row]
<1>1. CASE unique
  <2>1. \A j \in Id \ {i} : row \in Checked => row # data[j]
    BY <1>1, StoreAssumption DEF StoreInv, IndexExact, UniqueBut, Checked, Rows
  <2>2. new \in [{i} -> Row] /\ StoreRows(new) /\ new[i] = row
    BY DEF StoreRow
  <2> HIDE DEF new
  <2> QED BY <2>1, <2>2, DistinctKept
<1>2. CASE ~unique
  BY <1>2 DEF UniqueKept
<1> QED BY <1>1, <1>2

LEMMA SameDataKept ==
  ASSUME UNCHANGED data PROVE UniqueKept
  BY DEF UniqueKept

LEMMA DeletedKept ==
  ASSUME NEW ids \in SUBSET Id, DeleteMany(ids)
  PROVE  UniqueKept
<1> DEFINE new == [i \in ids |-> Absent]
<1>1. new \in [ids -> Row] /\ StoreRows(new) /\ \A i \in ids : new[i] \notin Checked
  BY StoreAssumption DEF DeleteMany, Row, Checked
<1> HIDE DEF new
<1> QED BY <1>1, DistinctKept

LEMMA CreatedKept ==
  ASSUME NEW ids \in SUBSET Id, NEW new \in [ids -> Value], CreateMany(new)
  PROVE  UniqueKept
<1>1. CASE unique
  <2>1. new \in [ids -> Row] /\ StoreRows(new) /\ BatchFits(new)
    BY DEF CreateMany, Row
  <2>2. \A i \in ids, j \in Id \ ids : new[i] \in Checked => new[i] # data[j]
    BY <1>1, <2>1, StoreAssumption DEF BatchFits, Rows, Checked
  <2>3. \A i, j \in ids : new[i] = new[j] /\ new[i] \in Checked => i = j
    BY <1>1, <2>1 DEF BatchFits
  <2> QED BY <2>1, <2>2, <2>3, DistinctKept
<1>2. CASE ~unique
  BY <1>2 DEF UniqueKept
<1> QED BY <1>1, <1>2

LEMMA RecordWriteKept ==
  ASSUME StoreInv, NEW i \in Id,
         (\E v \in Value : Create(i, v) \/ Update(i, v)) \/ Delete(i)
  PROVE  UniqueKept
<1>1. ASSUME NEW v \in Value, Create(i, v) \/ Update(i, v) PROVE UniqueKept
  BY <1>1, StoreRowDistinct DEF Create, Update, UniqueBut, Row
<1>2. CASE Delete(i)
  BY <1>2, StoreAssumption, StoreRowDistinct DEF Delete, Row, UniqueBut
<1> QED BY <1>1, <1>2

LEMMA UniqueNext == StoreInv /\ [Next]_vars => [UniqueKept]_vars
<1> SUFFICES ASSUME StoreInv, [Next]_vars, rolling = Nobody PROVE UniqueKept
  BY DEF UniqueKept
<1>1. CASE AppWrite
  BY <1>1, RecordWriteKept, DeletedKept, CreatedKept DEF AppWrite
<1>2. ASSUME NEW t \in Txn, TxnWrite(t) PROVE UniqueKept
  BY <1>2, RecordWriteKept DEF TxnWrite
<1>3. ASSUME NEW t \in Txn, Begin(t) \/ Commit(t) \/ Throw(t) PROVE UniqueKept
  BY <1>3, SameDataKept DEF Begin, Commit, Throw, storeVars
<1>4. CASE Undo
  BY <1>4 DEF Undo, StoreInv, JournalsFit
<1>5. CASE RolledBack \/ QueryStep \/ UNCHANGED vars
  BY <1>5, SameDataKept DEF RolledBack, QueryStep, Query, vars, storeVars
<1> QED BY <1>1, <1>2, <1>3, <1>4, <1>5 DEF Next

\* No update, batch or write of a transaction gives two rows one value of a unique
\* index: #assertUnique looks the key up in the index, and the index is exact.
THEOREM UniqueAlwaysHolds == Spec => UniqueHolds
  BY StoreInvHolds, UniqueNext, PTL DEF Spec, UniqueHolds

-----------------------------------------------------------------------------
\* A query, whatever its plan.

\* Every set of numbers has a least one: the induction of this module.
LEMMA LeastOf ==
  ASSUME NEW S \in SUBSET Nat, S # {}
  PROVE  \E n \in S : \A m \in S : n <= m
<1> DEFINE R == {pair \in Nat \X Nat : pair[1] < pair[2]}
<1>1. IsWellFoundedOn(R, Nat)
  BY NatLessThanWellFounded DEF OpToRel
<1> HIDE DEF R
<1>2. PICK n \in S : \A m \in S : <<m, n>> \notin R
  BY <1>1, WFMin
<1>3. \A m \in S : ~(m < n)
  BY <1>2 DEF R
<1> QED BY <1>3

LEMMA FirstIsOneOf ==
  ASSUME NEW P \in SUBSET Nat, P # {}
  PROVE  First(P) \in P
  BY LeastOf DEF First

\* On values of the types a condition asks for, its range holds those of the rows
\* that match it.
LEMMA RangeIsMatch ==
  ASSUME StoreTypeOK, NEW i \in Rows, NEW c \in Condition, c.field = "key", HasRange(c),
         Typed(data[i], c)
  PROVE  InRange(data[i], c) <=> Matches(i, c)
<1> DEFINE v == data[i]
           w == c.value
<1>1. c.op \in {"==", ">", ">=", "<", "<="}
  BY ConditionAssumption DEF HasRange, Operator, Comparison
<1>2. w \in Key /\ v \in Value
  BY ConditionAssumption DEF HasRange, IsQueryKey, Value, Rows, StoreTypeOK
<1>3. IsQueryKey(v) <=> v \in Key
  BY <1>2, StoreAssumption DEF IsQueryKey, Value
<1>4. CASE v \in Key
  <2>1. Type[v] = Type[w] /\ (c.op = "==" => Type[v] # "date")
    BY <1>2, <1>4 DEF Typed, SameType
  <2>2. Holds(v, c.op, w) <=> Ordered(v, c.op, w)
    BY <1>1, <1>2, <1>4, <2>1, OperatorsAssumption, StoreAssumption DEF Holds, Ordered
  <2> QED BY <1>3, <1>4, <2>2 DEF InRange, Matches
<1>5. CASE v \notin Key
  <2>1. <<v, w>> \notin Less \cup AtMost /\ <<w, v>> \notin Less \cup AtMost
    BY <1>2, <1>5 DEF Typed, SameType
  <2>2. <<v, w>> \notin Same
    BY <1>2, <1>5, OperatorsAssumption DEF Value
  <2> QED BY <1>1, <1>3, <1>5, <2>1, <2>2 DEF InRange, Matches, Holds
<1> QED BY <1>4, <1>5

\* The walk of the index misses no row whose key is in the range.
LEMMA CandidatesCover ==
  ASSUME StoreTypeOK, IndexExact, NEW c, NEW i \in Rows, InRange(data[i], c)
  PROVE  i \in Candidates(c)
<1>1. i \in Id /\ data[i] \in Key
  BY DEF Rows, StoreTypeOK, Value, InRange, IsQueryKey
<1>2. i \in buckets[data[i]]
  BY <1>1 DEF IndexExact
<1>3. data[i] \in Walked
  BY <1>1, <1>2 DEF Walked, IndexExact, Occupied
<1>4. CASE c.op = "=="
  BY <1>1, <1>2, <1>4 DEF Candidates, InRange, Ordered
<1>5. CASE c.op # "=="
  BY <1>1, <1>2, <1>3, <1>5 DEF Candidates, InRange
<1> QED BY <1>4, <1>5

LEMMA PlansAgree ==
  ASSUME StoreTypeOK, IndexExact, NEW g \in Seq(Condition), WellTyped(g)
  PROVE  Execute(g) = Meaning(g)
<1> DEFINE plan == Plan(g)
           c == g[plan.at]
<1>1. DOMAIN g \subseteq Nat /\ \A p \in DOMAIN g : g[p] \in Condition
  OBVIOUS
<1>2. CASE IdEqualities(g) # {}
  <2>1. plan = [strategy |-> "id_lookup", at |-> First(IdEqualities(g))]
    BY <1>2 DEF Plan
  <2>2. plan.at \in IdEqualities(g)
    <3>1. IdEqualities(g) \in SUBSET Nat
      BY <1>1 DEF IdEqualities
    <3> QED BY <1>2, <2>1, <3>1, FirstIsOneOf
  <2>3. \A i \in Rows : Matches(i, c) <=> i = c.value
    BY <2>2 DEF IdEqualities, Matches, Ordered
  <2>4. Execute(g) = {i \in {c.value} \cap Rows : \A p \in DOMAIN g \ {plan.at} : Matches(i, g[p])}
    BY <2>1 DEF Execute, PostFilters
  <2> HIDE DEF plan
  <2> QED BY <2>2, <2>3, <2>4 DEF Meaning, MatchesAll, IdEqualities
<1>3. CASE IdEqualities(g) = {} /\ Best(g) # {} /\ HasRange(g[First(Best(g))])
  <2> DEFINE post == PostFilters(g, plan.at)
  <2>1. plan = [strategy |-> "index_scan", at |-> First(Best(g))]
    BY <1>3 DEF Plan
  <2>2. plan.at \in DOMAIN g /\ c.field = "key" /\ HasRange(c)
    <3>1. Best(g) \in SUBSET Nat
      BY <1>1 DEF Best
    <3>2. plan.at \in Best(g) /\ HasRange(g[plan.at])
      BY <1>3, <2>1, <3>1, FirstIsOneOf
    <3> QED BY <3>2 DEF Best
  <2>3. Execute(g) = ScanIndex(c, post, g)
    BY <2>1 DEF Execute
  <2>4. \A i \in Rows : Typed(data[i], c)
    BY <2>2 DEF WellTyped
  <2>5. Scanned(c, post) \subseteq Rows
    BY DEF Scanned
  <2>6. \A i \in Rows : InRange(data[i], c) <=> Matches(i, c)
    BY <1>1, <2>2, <2>4, RangeIsMatch
  <2>7. \A i \in Rows : Matches(i, c) => i \in Scanned(c, post)
    BY <2>6, CandidatesCover DEF Scanned
  <2>8. post = DOMAIN g \ {plan.at}
    BY DEF PostFilters
  <2> HIDE DEF plan, post
  <2>9. ScanIndex(c, post, g) = {i \in Rows : Matches(i, c) /\ \A p \in post : Matches(i, g[p])}
    BY <2>7, <2>5, <2>6 DEF ScanIndex
  <2> QED BY <2>2, <2>3, <2>8, <2>9 DEF Meaning, MatchesAll
<1>4. CASE /\ IdEqualities(g) = {}
           /\ ~(Best(g) # {} /\ HasRange(g[First(Best(g))]))
  <2>1. plan = [strategy |-> "full_scan", at |-> 0]
    BY <1>4 DEF Plan
  <2> QED BY <2>1 DEF Execute, Meaning
<1> QED BY <1>2, <1>3, <1>4

\* The bound on the conditions of a query in the runs plays no part.
AnyQueryAgrees == \A g \in Seq(Condition) : WellTyped(g) => Execute(g) = Meaning(g)

\* In every state, every query of any number of conditions finds the rows that
\* match all of them by JavaScript's operators, whichever condition drives its
\* plan by the key ranges of the index, as long as the rows have values of the
\* types it asks for.  (query/planner.ts, query/range.ts, query/predicate.ts)
THEOREM AnyQueryAlwaysAgrees == Spec => []AnyQueryAgrees
<1>1. StoreInv => AnyQueryAgrees
  BY PlansAgree DEF StoreInv, TypeOK, AnyQueryAgrees
<1> QED BY <1>1, StoreInvHolds, PTL

\* The presence of an index does not change the result set of a query of values
\* of the types that the rows have.  (query/planner.ts)
THEOREM QueriesAlwaysAgree == Spec => []QueriesAgree
<1>1. ASSUME NEW g \in Group PROVE g \in Seq(Condition)
  <2>1. PICK n \in 0..2 : g \in [1..n -> Condition]
    BY DEF Group
  <2> QED BY <2>1
<1>2. AnyQueryAgrees => QueriesAgree
  BY <1>1 DEF QueriesAgree, AnyQueryAgrees
<1> QED BY <1>2, AnyQueryAlwaysAgrees, PTL

-----------------------------------------------------------------------------
(* Recursive functions over the numbers up to N. *)

\* Induction over the numbers up to N, for a property given as a set.
LEMMA Inductive ==
  ASSUME NEW N \in Nat, NEW S, 0 \in S,
         \A n \in 1..N : n - 1 \in S => n \in S
  PROVE  \A n \in 0..N : n \in S
<1> DEFINE T == (0..N) \ S
<1> SUFFICES ASSUME T # {} PROVE FALSE
  OBVIOUS
<1>0. T \in SUBSET Nat
  OBVIOUS
<1>1. PICK n \in T : \A m \in T : n <= m
  <2> HIDE DEF T
  <2> QED BY <1>0, LeastOf
<1>2. n \in 1..N /\ n - 1 \in 0..N
  BY <1>1
<1>3. n - 1 \in S
  BY <1>1, <1>2
<1> QED BY <1>1, <1>2, <1>3

\* What to make of each value at each number.
Steps(N, V) == [1..N -> [V -> V]]

\* A function defined from its value at the number before exists.
LEMMA Iterated ==
  ASSUME NEW N \in Nat, NEW V, NEW base \in V, NEW step \in Steps(N, V)
  PROVE  \E f \in [0..N -> V] :
            \A n \in 0..N : f[n] = IF n = 0 THEN base ELSE step[n][f[n - 1]]
<1> DEFINE Up(k, f) == \A n \in 0..k : f[n] = IF n = 0 THEN base ELSE step[n][f[n - 1]]
           S == {k \in 0..N : \E f \in [0..k -> V] : Up(k, f)}
<1>1. 0 \in S
  <2>1. [n \in 0..0 |-> base] \in [0..0 -> V] /\ Up(0, [n \in 0..0 |-> base])
    OBVIOUS
  <2>2. 0 \in 0..N
    OBVIOUS
  <2> HIDE DEF Up
  <2> QED BY <2>1, <2>2
<1>2. ASSUME NEW k \in 1..N, k - 1 \in S PROVE k \in S
  <2>1. PICK f \in [0..(k - 1) -> V] : Up(k - 1, f)
    BY <1>2
  <2> DEFINE g == [n \in 0..k |-> IF n = k THEN step[k][f[k - 1]] ELSE f[n]]
  <2>2. f[k - 1] \in V /\ step[k] \in [V -> V]
    BY <2>1 DEF Steps
  <2>3. step[k][f[k - 1]] \in V
    BY <2>2
  <2>4. g \in [0..k -> V]
    BY <2>1, <2>3
  <2>5. ASSUME NEW n \in 0..k PROVE g[n] = IF n = 0 THEN base ELSE step[n][g[n - 1]]
    <3>1. CASE n = k
      BY <3>1, <2>1
    <3>2. CASE n # k
      <4>1. n \in 0..(k - 1) /\ g[n] = f[n] /\ (n # 0 => n - 1 \in 0..k /\ n - 1 # k)
        BY <3>2
      <4> QED BY <4>1, <2>1
    <3> QED BY <3>1, <3>2
  <2> HIDE DEF g
  <2> QED BY <2>4, <2>5
<1> HIDE DEF S
<1>3. N \in S
  <2>1. \A n \in 0..N : n \in S
    BY <1>1, <1>2, Inductive
  <2> QED BY <2>1
<1>4. PICK f \in [0..N -> V] : Up(N, f)
  BY <1>3 DEF S
<1> QED BY <1>4

-----------------------------------------------------------------------------
(* The rows of a query of several groups. *)

\* Some rows, each once.
Distinct(rows) == rows \in Seq(Id) /\ IsInjective(rows)

\* A row that is not there is put behind the others.
LEMMA AppendDistinct ==
  ASSUME NEW rows, Distinct(rows), NEW i \in Id
  PROVE  /\ Contains(rows, i) <=> i \in Range(rows)
         /\ ~Contains(rows, i) => /\ Distinct(Append(rows, i))
                                  /\ Range(Append(rows, i)) = Range(rows) \cup {i}
<1>1. rows \in Seq(Id) /\ DOMAIN rows = 1..Len(rows) /\ Len(rows) \in Nat
  BY DEF Distinct
<1>2. Contains(rows, i) <=> i \in Range(rows)
  BY <1>1 DEF Contains, Range
<1>3. ASSUME i \notin Range(rows)
      PROVE  Distinct(Append(rows, i)) /\ Range(Append(rows, i)) = Range(rows) \cup {i}
  <2> DEFINE new == Append(rows, i)
  <2>1. /\ new \in Seq(Id) /\ Len(new) = Len(rows) + 1 /\ DOMAIN new = 1..(Len(rows) + 1)
        /\ new[Len(rows) + 1] = i
        /\ \A n \in 1..Len(rows) : new[n] = rows[n]
    BY <1>1
  <2> HIDE DEF new
  <2>2. \A n \in 1..Len(rows) : rows[n] # i
    BY <1>1, <1>3 DEF Range
  <2>3. IsInjective(new)
    <3>1. \A m, n \in 1..Len(rows) : rows[m] = rows[n] => m = n
      BY <1>1 DEF Distinct, IsInjective
    <3>2. \A m \in DOMAIN new : m \in 1..Len(rows) \/ m = Len(rows) + 1
      BY <1>1, <2>1
    <3> QED BY <2>1, <2>2, <3>1, <3>2 DEF IsInjective
  <2>4. Range(new) = Range(rows) \cup {i}
    <3>1. DOMAIN new = DOMAIN rows \cup {Len(rows) + 1}
      BY <1>1, <2>1
    <3> QED BY <1>1, <2>1, <3>1 DEF Range
  <2> QED BY <2>1, <2>3, <2>4 DEF Distinct, new
<1> QED BY <1>2, <1>3

\* Merging leaves every row once and loses none.
LEMMA MergedRows ==
  ASSUME NEW rows, Distinct(rows), NEW found \in Seq(Id)
  PROVE  Distinct(Merged(rows, found)) /\ Range(Merged(rows, found)) = Range(rows) \cup Range(found)
<1> DEFINE N == Len(found)
           V == Seq(Id)
           step == [n \in 1..N |-> [v \in V |-> IF Contains(v, found[n]) THEN v ELSE Append(v, found[n])]]
           Is(f) == f = [n \in 0..N |->
                            IF n = 0 THEN rows
                            ELSE LET before == f[n - 1] IN
                                 IF Contains(before, found[n]) THEN before
                                 ELSE Append(before, found[n])]
           merged == CHOOSE f : Is(f)
<1>1. N \in Nat /\ DOMAIN found = 1..N /\ \A n \in 1..N : found[n] \in Id
  OBVIOUS
<1>2. Is(merged)
  <2>1. step \in Steps(N, V) /\ rows \in V
    BY <1>1 DEF Distinct, Steps
  <2>2. PICK f \in [0..N -> V] :
                 \A n \in 0..N : f[n] = IF n = 0 THEN rows ELSE step[n][f[n - 1]]
    <3>1. N \in Nat
      BY <1>1
    <3> HIDE DEF step, V, N
    <3> QED BY <3>1, <2>1, Iterated
  <2>3. \A n \in 1..N : f[n - 1] \in V
    <3>1. \A n \in 1..N : n - 1 \in 0..N
      BY <1>1
    <3> HIDE DEF V, N
    <3> QED BY <2>2, <3>1
  <2>4. \A n \in 1..N : step[n][f[n - 1]] = IF Contains(f[n - 1], found[n]) THEN f[n - 1]
                                            ELSE Append(f[n - 1], found[n])
    BY <2>3
  <2>5. Is(f)
    <3>1. \A n \in 0..N : n # 0 => n \in 1..N
      BY <1>1
    <3> HIDE DEF step
    <3> QED BY <2>2, <2>4, <3>1
  <2> QED BY <2>5
<1>3. Merged(rows, found) = merged[N]
  BY DEF Merged
<1> HIDE DEF merged, step
<1> DEFINE S == {n \in 0..N : /\ Distinct(merged[n])
                              /\ Range(merged[n]) = Range(rows) \cup {found[k] : k \in 1..n}}
<1>4. 0 \in S
  <2>1. merged[0] = rows
    BY <1>1, <1>2
  <2> QED BY <1>1, <2>1
<1>5. ASSUME NEW n \in 1..N, n - 1 \in S PROVE n \in S
  <2>1. n \in 0..N /\ n # 0 /\ found[n] \in Id
    BY <1>1
  <2>2. merged[n] = IF Contains(merged[n - 1], found[n]) THEN merged[n - 1]
                    ELSE Append(merged[n - 1], found[n])
    BY <1>2, <2>1
  <2>3. {found[k] : k \in 1..n} = {found[k] : k \in 1..(n - 1)} \cup {found[n]}
    <3>1. 1..n = 1..(n - 1) \cup {n}
      BY <1>1
    <3> QED BY <3>1
  <2>4. Distinct(merged[n - 1]) /\ Range(merged[n - 1]) = Range(rows) \cup {found[k] : k \in 1..(n - 1)}
    BY <1>5
  <2>5. Distinct(merged[n]) /\ Range(merged[n]) = Range(rows) \cup {found[k] : k \in 1..n}
    BY <2>1, <2>2, <2>3, <2>4, AppendDistinct
  <2> QED BY <2>1, <2>5
<1> HIDE DEF S
<1>6. N \in S
  <2>1. \A n \in 0..N : n \in S
    BY <1>1, <1>4, <1>5, Inductive
  <2> QED BY <1>1, <2>1
<1>7. Range(found) = {found[k] : k \in 1..N}
  BY <1>1 DEF Range
<1> QED BY <1>3, <1>6, <1>7 DEF S

\* The orders of a finite set, each element once.
LEMMA Enumerations ==
  ASSUME NEW S, IsFiniteSet(S)
  PROVE  /\ SetToSeqs(S) # {}
         /\ \A s \in SetToSeqs(S) : /\ s \in Seq(S) /\ Len(s) = Cardinality(S)
                                    /\ IsInjective(s) /\ Range(s) = S
<1> DEFINE N == Cardinality(S)
<1>1. N \in Nat /\ ExistsBijection(1..N, S)
  BY FS_CardinalityType
<1>2. SetToSeqs(S) # {}
  <2>1. PICK f \in Bijection(1..N, S) : TRUE
    BY <1>1 DEF ExistsBijection
  <2>2. f \in SetToSeqs(S)
    BY <2>1 DEF Bijection, Injection, Surjection, IsInjective, SetToSeqs
  <2> QED BY <2>2
<1>3. ASSUME NEW s \in SetToSeqs(S)
      PROVE  s \in Seq(S) /\ Len(s) = N /\ IsInjective(s) /\ Range(s) = S
  <2>1. s \in [1..N -> S] /\ \A i, j \in 1..N : i # j => s[i] # s[j]
    BY DEF SetToSeqs
  <2>2. s \in Seq(S) /\ Len(s) = N /\ IsInjective(s)
    BY <1>1, <2>1 DEF IsInjective
  <2>3. s \in Injection(1..N, S)
    BY <2>1, <2>2 DEF Injection
  <2>4. Cardinality(1..N) = N
    BY <1>1, FS_Interval
  <2>5. s \in Surjection(1..N, S)
    BY <2>3, <2>4, FS_Injection
  <2>6. Range(s) = S
    BY <2>1, <2>5 DEF Surjection, Range
  <2> QED BY <2>2, <2>6
<1> QED BY <1>2, <1>3

\* A query as the builder makes it.
IsQuery(q) ==
  /\ q.groups \in Seq(Seq(Condition)) /\ q.groups # <<>>
  /\ q.direction \in {"none", "asc", "desc"}
  /\ q.offset \in Nat /\ q.limit \in Nat

\* A plan finds rows of the collection; the one without conditions finds all.
LEMMA RowsAreFound ==
  ASSUME NEW g \in Seq(Condition)
  PROVE  Execute(g) \subseteq Rows
<1>1. Plan(g).strategy \in {"id_lookup", "index_scan", "full_scan"}
  BY DEF Plan
<1> QED BY <1>1 DEF Execute, ScanIndex, Scanned

LEMMA NoConditionsFindAll == Execute(<<>>) = Rows
<1>1. IdEqualities(<<>>) = {} /\ Best(<<>>) = {}
  BY DEF IdEqualities, Best
<1> QED BY <1>1 DEF Plan, Execute, MatchesAll

\* Leaving a query unplanned leaves none of its rows out.
LEMMA PlannedAre ==
  ASSUME NEW q, IsQuery(q)
  PROVE  /\ PlannedGroups(q) \in Seq(Seq(Condition))
         /\ UNION {Execute(PlannedGroups(q)[n]) : n \in 1..Len(PlannedGroups(q))} = FoundByAny(q)
<1>1. DOMAIN q.groups = 1..Len(q.groups) /\ 1 \in DOMAIN q.groups
  BY DEF IsQuery
<1>2. CASE q.groups[1] = <<>>
  <2>1. PlannedGroups(q) = << <<>> >>
    BY <1>2 DEF PlannedGroups
  <2>2. Execute(<<>>) = Rows
    BY NoConditionsFindAll
  <2>3. \A n \in DOMAIN q.groups : Execute(q.groups[n]) \subseteq Rows
    BY <1>1, RowsAreFound DEF IsQuery
  <2>4. FoundByAny(q) = Rows
    BY <1>1, <1>2, <2>2, <2>3 DEF FoundByAny
  <2>5. PlannedGroups(q) \in Seq(Seq(Condition)) /\ 1..Len(PlannedGroups(q)) = {1} /\ PlannedGroups(q)[1] = <<>>
    <3>1. <<>> \in Seq(Condition)
      OBVIOUS
    <3>2. << <<>> >> \in Seq(Seq(Condition)) /\ Len(<< <<>> >>) = 1
      BY <3>1
    <3> QED BY <2>1, <3>2
  <2> QED BY <2>2, <2>4, <2>5
<1>3. CASE q.groups[1] # <<>>
  BY <1>1, <1>3 DEF PlannedGroups, FoundByAny, IsQuery
<1> QED BY <1>2, <1>3

\* What the executor merges: the rows of the query, each once, in some order.
LEMMA AnswersAre ==
  ASSUME NEW q, IsQuery(q)
  PROVE  /\ Answers(q) # {}
         /\ \A rows \in Answers(q) : Distinct(rows) /\ Range(rows) = FoundByAny(q)
<1> DEFINE groups == PlannedGroups(q)
           N == Len(groups)
           D == {rows \in Seq(Id) : IsInjective(rows)}
           After(A, n) == {Merged(rows, found) : rows \in A, found \in SetToSeqs(Execute(groups[n]))}
           step == [n \in 1..N |-> [A \in SUBSET D |-> After(A, n)]]
           Is(f) == f = [n \in 0..N |-> IF n = 0 THEN {<<>>} ELSE After(f[n - 1], n)]
           answers == CHOOSE f : Is(f)
<1>1. /\ N \in Nat /\ \A n \in 1..N : groups[n] \in Seq(Condition)
  BY PlannedAre
<1>2. ASSUME NEW n \in 1..N
      PROVE  /\ SetToSeqs(Execute(groups[n])) # {}
             /\ \A found \in SetToSeqs(Execute(groups[n])) :
                   found \in Seq(Id) /\ Range(found) = Execute(groups[n])
  <2> DEFINE M == Execute(groups[n])
  <2>1. M \subseteq Id
    BY <1>1, RowsAreFound DEF Rows
  <2>2. IsFiniteSet(M)
    BY <2>1, StoreAssumption, FS_Subset
  <2> HIDE DEF M
  <2>3. \A found \in Seq(M) : M \subseteq Id => found \in Seq(Id)
    OBVIOUS
  <2> QED BY <2>1, <2>2, <2>3, Enumerations DEF M
<1>3. ASSUME NEW A \in SUBSET D, NEW n \in 1..N
      PROVE  /\ After(A, n) \in SUBSET D
             /\ A # {} => After(A, n) # {}
             /\ \A next \in After(A, n) : \E rows \in A :
                    Range(next) = Range(rows) \cup Execute(groups[n])
  <2>1. ASSUME NEW rows \in A, NEW found \in SetToSeqs(Execute(groups[n]))
        PROVE  /\ Merged(rows, found) \in D
               /\ Range(Merged(rows, found)) = Range(rows) \cup Execute(groups[n])
    BY <1>2, MergedRows DEF Distinct
  <2> HIDE DEF D
  <2>2. After(A, n) \in SUBSET D
    BY <2>1
  <2>3. ASSUME NEW rows \in A PROVE After(A, n) # {}
    <3>1. PICK found \in SetToSeqs(Execute(groups[n])) : TRUE
      BY <1>2
    <3>2. Merged(rows, found) \in After(A, n)
      BY <3>1
    <3> HIDE DEF After
    <3> QED BY <3>2
  <2>4. ASSUME NEW next \in After(A, n)
        PROVE  \E rows \in A : Range(next) = Range(rows) \cup Execute(groups[n])
    <3>1. PICK rows \in A, found \in SetToSeqs(Execute(groups[n])) : next = Merged(rows, found)
      OBVIOUS
    <3> QED BY <2>1, <3>1
  <2> HIDE DEF After
  <2> QED BY <2>2, <2>3, <2>4
<1>4. Is(answers)
  <2> DEFINE V == SUBSET D
  <2>1. step \in Steps(N, V) /\ {<<>>} \in V
    <3>1. step \in Steps(N, V)
      <4> HIDE DEF After, D
      <4>1. \A n \in 1..N : \A A \in SUBSET D : After(A, n) \in SUBSET D
        BY <1>3
      <4> HIDE DEF groups
      <4> QED BY <4>1 DEF Steps
    <3>2. <<>> \in D
      BY DEF IsInjective
    <3> QED BY <3>1, <3>2
  <2>2. PICK f \in [0..N -> V] :
                 \A n \in 0..N : f[n] = IF n = 0 THEN {<<>>} ELSE step[n][f[n - 1]]
    <3>1. N \in Nat
      BY <1>1
    <3> HIDE DEF step, V, N
    <3> QED BY <3>1, <2>1, Iterated
  <2>3. \A n \in 1..N : f[n - 1] \in V
    <3>1. \A n \in 1..N : n - 1 \in 0..N
      BY <1>1
    <3> HIDE DEF V, N
    <3> QED BY <2>2, <3>1
  <2>4. \A n \in 1..N : step[n][f[n - 1]] = After(f[n - 1], n)
    <3> HIDE DEF After, D
    <3> QED BY <2>3
  <2>5. Is(f)
    <3>1. \A n \in 0..N : n # 0 => n \in 1..N
      BY <1>1
    <3> HIDE DEF step, After
    <3> QED BY <2>2, <2>4, <3>1
  <2> HIDE DEF Is
  <2> QED BY <2>5
<1>5. Answers(q) = answers[N]
  BY DEF Answers
<1> HIDE DEF answers, step, After
<1> DEFINE S == {n \in 0..N :
                    /\ answers[n] \in SUBSET D /\ answers[n] # {}
                    /\ \A rows \in answers[n] :
                          Range(rows) = UNION {Execute(groups[k]) : k \in 1..n}}
<1>6. 0 \in S
  <2>1. answers[0] = {<<>>}
    BY <1>1, <1>4
  <2>2. <<>> \in D /\ Range(<<>>) = {}
    BY DEF IsInjective, Range
  <2> DEFINE found(n) == UNION {Execute(groups[k]) : k \in 1..n}
  <2>3. found(0) = {}
    OBVIOUS
  <2>4. 0 \in 0..N /\ \A rows \in answers[0] : rows \in D /\ Range(rows) = {}
    <3> HIDE DEF D
    <3> QED BY <1>1, <2>1, <2>2
  <2>5. answers[0] \in SUBSET D /\ answers[0] # {}
    <3> HIDE DEF D
    <3> QED BY <2>1, <2>2
  <2> HIDE DEF D, found
  <2>6. \A rows \in answers[0] : Range(rows) = found(0)
    BY <2>3, <2>4
  <2> QED BY <2>4, <2>5, <2>6 DEF found
<1>7. ASSUME NEW n \in 1..N, n - 1 \in S PROVE n \in S
  <2> DEFINE M(k) == Execute(groups[k])
  <2>1. n \in 0..N /\ n # 0 /\ 1..n = 1..(n - 1) \cup {n}
    BY <1>1
  <2>2. answers[n] = After(answers[n - 1], n)
    BY <1>4, <2>1
  <2>3. UNION {M(k) : k \in 1..n} = (UNION {M(k) : k \in 1..(n - 1)}) \cup M(n)
    <3> HIDE DEF M
    <3> QED BY <2>1
  <2> HIDE DEF D
  <2>4. answers[n - 1] \in SUBSET D /\ answers[n - 1] # {}
    BY <1>7
  <2>5. answers[n] \in SUBSET D /\ answers[n] # {}
    BY <1>3, <2>2, <2>4
  <2>6. ASSUME NEW next \in answers[n]
        PROVE  Range(next) = UNION {M(k) : k \in 1..n}
    <3>1. PICK rows \in answers[n - 1] : Range(next) = Range(rows) \cup M(n)
      BY <1>3, <2>2, <2>4
    <3>2. Range(rows) = UNION {M(k) : k \in 1..(n - 1)}
      BY <1>7
    <3> HIDE DEF M
    <3> QED BY <2>3, <3>1, <3>2
  <2> QED BY <2>1, <2>5, <2>6
<1> HIDE DEF S
<1>8. N \in S
  <2>1. \A n \in 0..N : n \in S
    BY <1>1, <1>6, <1>7, Inductive
  <2> QED BY <1>1, <2>1
<1> QED BY <1>5, <1>8, PlannedAre DEF S, Distinct

-----------------------------------------------------------------------------
(* Putting rows in order. *)

\* R puts each two elements of S in one order.
IsOrder(R, S) ==
  /\ \A i, j \in S : i # j => <<i, j>> \in R \/ <<j, i>> \in R
  /\ \A i, j \in S : <<i, j>> \in R => <<j, i>> \notin R
  /\ \A i, j, k \in S : <<i, j>> \in R /\ <<j, k>> \in R => <<i, k>> \in R

\* A sequence in that order.
InOrderOf(R, s) == \A m, n \in DOMAIN s : m < n => <<s[m], s[n]>> \in R

\* A last element put at the end of an ordered sequence of the others.
LEMMA OrderedAppend ==
  ASSUME NEW R, NEW T, IsFiniteSet(T), NEW e \in T,
         \A i \in T \ {e} : <<i, e>> \in R,
         NEW s \in SetToSeqs(T \ {e}), InOrderOf(R, s)
  PROVE  Append(s, e) \in SetToSeqs(T) /\ InOrderOf(R, Append(s, e))
<1> DEFINE N == Cardinality(T)
           rest == T \ {e}
           t == Append(s, e)
<1>1. /\ N \in Nat /\ N > 0 /\ IsFiniteSet(rest) /\ Cardinality(rest) = N - 1
  BY FS_CardinalityType, FS_RemoveElement, FS_EmptySet
<1>2. s \in Seq(rest) /\ Len(s) = N - 1 /\ IsInjective(s)
  BY <1>1, Enumerations
<1>3. \A n \in 1..(N - 1) : s[n] \in T /\ s[n] # e
  BY <1>2
<1>4. /\ t \in Seq(T) /\ Len(t) = N /\ t[N] = e
      /\ \A n \in 1..(N - 1) : t[n] = s[n]
  BY <1>1, <1>2
<1> HIDE DEF t
<1>5. DOMAIN t = 1..N /\ DOMAIN s = 1..(N - 1) /\ 1..N = 1..(N - 1) \cup {N}
  BY <1>1, <1>2, <1>4
<1>6. t \in [1..N -> T]
  BY <1>4, <1>5
<1>7. \A m, n \in 1..N : m # n => t[m] # t[n]
  BY <1>2, <1>3, <1>4, <1>5 DEF IsInjective
<1>8. t \in SetToSeqs(T)
  BY <1>6, <1>7 DEF SetToSeqs
<1>9. ASSUME NEW m \in 1..N, NEW n \in 1..N, m < n
      PROVE  <<t[m], t[n]>> \in R
  <2>1. m \in 1..(N - 1)
    BY <1>1, <1>9
  <2>2. CASE n = N
    BY <2>1, <2>2, <1>3, <1>4
  <2>3. CASE n # N
    BY <2>1, <2>3, <1>4, <1>5, <1>9 DEF InOrderOf
  <2> QED BY <2>2, <2>3
<1>10. InOrderOf(R, t)
  BY <1>5, <1>9 DEF InOrderOf
<1> QED BY <1>8, <1>10 DEF t

\* A finite set can be put in order.
LEMMA OrderExists ==
  ASSUME NEW S, IsFiniteSet(S), NEW R, IsOrder(R, S)
  PROVE  \E s \in SetToSeqs(S) : InOrderOf(R, s)
<1> DEFINE N == Cardinality(S)
           CanOrder(T) == \E s \in SetToSeqs(T) : InOrderOf(R, s)
           Sizes == {n \in 0..N : \A T \in SUBSET S : Cardinality(T) = n => CanOrder(T)}
<1>1. N \in Nat /\ \A T \in SUBSET S : IsFiniteSet(T) /\ Cardinality(T) \in Nat
  BY FS_CardinalityType, FS_Subset
<1>2. 0 \in Sizes
  <2>1. ASSUME NEW T \in SUBSET S, Cardinality(T) = 0 PROVE CanOrder(T)
    <3>1. PICK s \in SetToSeqs(T) : Len(s) = 0 /\ DOMAIN s = 1..Len(s)
      BY <1>1, <2>1, Enumerations
    <3> QED BY <3>1 DEF InOrderOf
  <2> QED BY <1>1, <2>1
<1>3. ASSUME NEW n \in 1..N, n - 1 \in Sizes PROVE n \in Sizes
  <2>1. \A T \in SUBSET S : Cardinality(T) = n - 1 => CanOrder(T)
    BY <1>3
  <2>2. ASSUME NEW T \in SUBSET S, Cardinality(T) = n PROVE CanOrder(T)
    <3>1. T # {} /\ IsFiniteSet(T)
      BY <1>1, <2>2, FS_EmptySet
    <3>2. \A e \in T : T \ {e} \in SUBSET S /\ Cardinality(T \ {e}) = n - 1
      BY <1>1, <2>2, FS_RemoveElement
    <3>3. PICK x \in T : TRUE
      BY <3>1
    <3>4. PICK s \in SetToSeqs(T \ {x}) : InOrderOf(R, s)
      BY <2>1, <3>2
    <3>5. /\ s \in Seq(T \ {x}) /\ Len(s) = n - 1 /\ Range(s) = T \ {x} /\ DOMAIN s = 1..(n - 1)
      BY <1>1, <3>2, Enumerations
    <3>6. \E e \in T : \A i \in T \ {e} : <<i, e>> \in R
      <4>1. CASE n = 1
        <5>1. \A i \in T : i = x
          BY <3>5, <4>1 DEF Range
        <5> QED BY <5>1
      <4>2. CASE n # 1
        <5> DEFINE l == s[n - 1]
        <5>1. n - 1 \in DOMAIN s /\ l \in T /\ l # x /\ \A m \in DOMAIN s : m # n - 1 => m < n - 1
          BY <3>5, <4>2
        <5>2. \A i \in T \ {x} : i # l => <<i, l>> \in R
          BY <3>4, <3>5, <5>1 DEF Range, InOrderOf
        <5>3. CASE <<l, x>> \in R
          <6>1. \A i \in T \ {x} : <<i, x>> \in R
            BY <5>1, <5>2, <5>3 DEF IsOrder
          <6> QED BY <6>1
        <5>4. CASE <<l, x>> \notin R
          <6>1. <<x, l>> \in R
            BY <5>1, <5>4 DEF IsOrder
          <6>2. \A i \in T \ {l} : <<i, l>> \in R
            BY <5>2, <6>1
          <6> QED BY <5>1, <6>2
        <5> QED BY <5>3, <5>4
      <4> QED BY <4>1, <4>2
    <3>7. PICK e \in T : \A i \in T \ {e} : <<i, e>> \in R
      BY <3>6
    <3>8. PICK u \in SetToSeqs(T \ {e}) : InOrderOf(R, u)
      BY <2>1, <3>2
    <3> QED BY <3>1, <3>7, <3>8, OrderedAppend
  <2> QED BY <1>1, <2>2
<1> HIDE DEF Sizes
<1>4. N \in Sizes
  <2>1. \A n \in 0..N : n \in Sizes
    BY <1>1, <1>2, <1>3, Inductive
  <2> QED BY <1>1, <2>1
<1> QED BY <1>4 DEF Sizes

\* Sorting neither loses a row nor doubles one.
LEMMA SortedRows ==
  ASSUME NEW rows, Distinct(rows), NEW p \in Places(rows)
  PROVE  /\ Distinct(Sorted(rows, p)) /\ Range(Sorted(rows, p)) = Range(rows)
         /\ Len(Sorted(rows, p)) = Len(rows)
         /\ p \in [DOMAIN rows -> DOMAIN rows] /\ IsInjective(p)
<1> DEFINE N == Len(rows)
           s == Sorted(rows, p)
<1>1. /\ N \in Nat /\ DOMAIN rows = 1..N /\ IsFiniteSet(1..N) /\ Cardinality(1..N) = N
      /\ \A n \in 1..N : rows[n] \in Id
  <2>1. N \in Nat /\ DOMAIN rows = 1..N /\ \A n \in 1..N : rows[n] \in Id
    BY DEF Distinct
  <2> HIDE DEF N
  <2>2. IsFiniteSet(1..N) /\ Cardinality(1..N) = N
    BY <2>1, FS_Interval
  <2> QED BY <2>1, <2>2
<1>2. p \in Seq(1..N) /\ Len(p) = N /\ IsInjective(p) /\ Range(p) = 1..N
  BY <1>1, Enumerations DEF Places
<1>3. p \in [1..N -> 1..N] /\ \A m \in 1..N : \E n \in 1..N : p[n] = m
  BY <1>2 DEF Range
<1>4. s = [n \in 1..N |-> rows[p[n]]]
  BY <1>1 DEF Sorted
<1> HIDE DEF s
<1>5. s \in Seq(Id) /\ Len(s) = N /\ DOMAIN s = 1..N
  <2>1. s \in [1..N -> Id]
    BY <1>1, <1>3, <1>4
  <2> HIDE DEF N
  <2> QED BY <1>1, <2>1
<1>6. IsInjective(s)
  <2>1. \A m, n \in 1..N : rows[m] = rows[n] => m = n
    BY <1>1 DEF Distinct, IsInjective
  <2>2. \A m, n \in 1..N : p[m] = p[n] => m = n
    BY <1>2, <1>3 DEF IsInjective
  <2> HIDE DEF N
  <2>3. ASSUME NEW m \in 1..N, NEW n \in 1..N, s[m] = s[n] PROVE m = n
    <3>1. rows[p[m]] = rows[p[n]] /\ p[m] \in 1..N /\ p[n] \in 1..N
      BY <1>3, <1>4, <2>3
    <3> QED BY <2>1, <2>2, <3>1
  <2> QED BY <1>5, <2>3 DEF IsInjective
<1>7. Range(s) = Range(rows)
  BY <1>1, <1>3, <1>4, <1>5 DEF Range
<1> QED BY <1>1, <1>2, <1>3, <1>5, <1>6, <1>7 DEF s, Distinct

\* There are as many places as rows.
LEMMA PlacesAreFinite ==
  ASSUME NEW rows, Distinct(rows)
  PROVE  /\ Len(rows) \in Nat /\ DOMAIN rows = 1..Len(rows) /\ IsFiniteSet(DOMAIN rows)
         /\ Cardinality(Range(rows)) = Len(rows)
         /\ \A n \in DOMAIN rows : rows[n] \in Id
<1> DEFINE N == Len(rows)
<1>1. N \in Nat /\ DOMAIN rows = 1..N /\ \A n \in 1..N : rows[n] \in Id
  BY DEF Distinct
<1>2. rows \in [1..N -> Range(rows)] /\ Range(rows) = {rows[n] : n \in 1..N}
  BY <1>1 DEF Distinct, Range
<1> HIDE DEF N
<1>3. IsFiniteSet(1..N) /\ Cardinality(1..N) = N
  BY <1>1, FS_Interval
<1>4. rows \in Bijection(1..N, Range(rows))
  BY <1>1, <1>2 DEF Distinct, Bijection, Injection, Surjection, IsInjective
<1>5. Cardinality(Range(rows)) = N
  BY <1>3, <1>4, FS_Bijection DEF ExistsBijection
<1> QED BY <1>1, <1>3, <1>5 DEF N

\* The rows with the lowest ids first: there is one such order at most.
Ascending(s) == \A m, n \in DOMAIN s : m < n => s[m] < s[n]

\* #applyDefaultOrder
LEMMA DefaultOrdersAre ==
  ASSUME NEW rows, Distinct(rows)
  PROVE  /\ DefaultOrders(rows) # {}
         /\ \A s \in DefaultOrders(rows) :
               Distinct(s) /\ Range(s) = Range(rows) /\ Ascending(s)
<1> DEFINE D == DOMAIN rows
           R == {pair \in D \X D : rows[pair[1]] < rows[pair[2]]}
<1>1. /\ \A n \in D : rows[n] \in Nat
      /\ \A m, n \in D : rows[m] = rows[n] => m = n
      /\ D \subseteq Nat /\ IsFiniteSet(D)
  <2>1. \A n \in D : rows[n] \in Nat
    BY PlacesAreFinite, StoreAssumption
  <2>2. D \subseteq Nat /\ IsFiniteSet(D)
    BY PlacesAreFinite
  <2> QED BY <2>1, <2>2 DEF Distinct, IsInjective
<1>2. \A m, n \in D : <<m, n>> \in R <=> rows[m] < rows[n]
  OBVIOUS
<1>3. DefaultOrders(rows) # {}
  <2>1. IsOrder(R, D)
    <3> HIDE DEF R, D
    <3> QED BY <1>1, <1>2 DEF IsOrder
  <2>2. PICK p \in Places(rows) : InOrderOf(R, p)
    <3> HIDE DEF R
    <3> QED BY <1>1, <2>1, OrderExists DEF Places
  <2>3. p \in [D -> D]
    BY SortedRows
  <2>4. \A m, n \in D : m < n => rows[p[m]] <= rows[p[n]]
    <3>1. \A m, n \in D : m < n => rows[p[m]] < rows[p[n]]
      <4> HIDE DEF R
      <4> QED BY <1>2, <2>2, <2>3 DEF InOrderOf
    <3> QED BY <1>1, <2>3, <3>1
  <2> QED BY <2>2, <2>4 DEF DefaultOrders
<1>4. ASSUME NEW s \in DefaultOrders(rows)
      PROVE  Distinct(s) /\ Range(s) = Range(rows) /\ Ascending(s)
  <2>1. PICK p \in Places(rows) : /\ s = Sorted(rows, p)
                                  /\ \A m, n \in D : m < n => rows[p[m]] <= rows[p[n]]
    BY DEF DefaultOrders
  <2>2. Distinct(s) /\ Range(s) = Range(rows) /\ p \in [D -> D] /\ IsInjective(p)
    BY <2>1, SortedRows
  <2>3. DOMAIN s = D /\ \A n \in D : s[n] = rows[p[n]]
    BY <2>1 DEF Sorted
  <2>4. ASSUME NEW m \in D, NEW n \in D, m < n PROVE s[m] < s[n]
    <3>1. p[m] # p[n] /\ p[m] \in D /\ p[n] \in D
      BY <1>1, <2>2, <2>4 DEF IsInjective
    <3>2. rows[p[m]] # rows[p[n]] /\ rows[p[m]] <= rows[p[n]]
      BY <1>1, <2>1, <2>4, <3>1
    <3> QED BY <1>1, <2>3, <3>1, <3>2
  <2> QED BY <2>2, <2>3, <2>4 DEF Ascending
<1> QED BY <1>3, <1>4

LEMMA AscendingIsOne ==
  ASSUME NEW s, NEW t, Distinct(s), Distinct(t), Range(s) = Range(t), Ascending(s), Ascending(t)
  PROVE  s = t
<1> DEFINE N == Len(s)
           D == {n \in 1..N : s[n] # t[n]}
<1>1. /\ N \in Nat /\ DOMAIN s = 1..N /\ \A n \in 1..N : s[n] \in Nat
      /\ Len(t) = N /\ DOMAIN t = 1..N /\ \A n \in 1..N : t[n] \in Nat
  BY PlacesAreFinite, StoreAssumption
<1>2. \A n \in 1..N : (\E m \in 1..N : t[m] = s[n]) /\ \E m \in 1..N : s[m] = t[n]
  BY <1>1 DEF Range
<1>3. D = {}
  <2> SUFFICES ASSUME D # {} PROVE FALSE
    OBVIOUS
  <2>1. PICK k \in D : \A n \in D : k <= n
    <3>1. D \in SUBSET Nat
      BY <1>1
    <3> HIDE DEF D
    <3> QED BY <3>1, LeastOf
  <2>2. k \in 1..N /\ s[k] # t[k] /\ \A n \in 1..N : n < k => s[n] = t[n]
    BY <1>1, <2>1
  <2>3. PICK m \in 1..N : t[m] = s[k]
    BY <1>2, <2>2
  <2>4. PICK n \in 1..N : s[n] = t[k]
    BY <1>2, <2>2
  <2> HIDE DEF D, N
  <2>5. \A i, j \in 1..N : (s[i] = s[j] => i = j) /\ (t[i] = t[j] => i = j)
    BY <1>1 DEF Distinct, IsInjective
  <2>6. k < m /\ k < n
    BY <1>1, <2>2, <2>3, <2>4, <2>5
  <2>7. t[k] < t[m] /\ s[k] < s[n]
    BY <1>1, <2>2, <2>6 DEF Ascending
  <2> QED BY <1>1, <2>2, <2>3, <2>4, <2>7
<1> QED BY <1>1, <1>3 DEF Distinct

\* The n-th row of an order by key is not before the m-th when m < n.
ByKey(s, direction) ==
  \A m, n \in DOMAIN s : m < n => IF direction = "asc" THEN data[s[m]] <= data[s[n]]
                                  ELSE data[s[m]] >= data[s[n]]

\* #applySort; rows without a comparable key stay the rows they are.
LEMMA KeyOrdersAre ==
  ASSUME StoreTypeOK, NEW rows, Distinct(rows), NEW direction
  PROVE  /\ KeyOrders(rows, direction) # {}
         /\ \A s \in KeyOrders(rows, direction) :
               /\ Distinct(s) /\ Range(s) = Range(rows)
               /\ Sortable(Range(rows)) => ByKey(s, direction)
<1> DEFINE D == DOMAIN rows
           key(n) == data[rows[n]]
           before(m, n) == IF direction = "asc" THEN key(m) < key(n) ELSE key(m) > key(n)
           R == {pair \in D \X D : \/ before(pair[1], pair[2])
                                   \/ key(pair[1]) = key(pair[2]) /\ pair[1] < pair[2]}
           InPlace(p, m, n) == before(p[m], p[n]) \/ (key(p[m]) = key(p[n]) /\ p[m] < p[n])
           Stable(p) == Sortable(Range(rows)) => \A m, n \in D : m < n => InPlace(p, m, n)
<1>1. D \subseteq Nat /\ IsFiniteSet(D)
  BY PlacesAreFinite
<1>2. KeyOrders(rows, direction) = {Sorted(rows, p) : p \in {p \in Places(rows) : Stable(p)}}
  BY DEF KeyOrders
<1>3. \A m, n \in D : <<m, n>> \in R <=> before(m, n) \/ (key(m) = key(n) /\ m < n)
  OBVIOUS
<1>4. Sortable(Range(rows)) => \A n \in D : key(n) \in Nat
  BY StoreAssumption DEF Sortable, SameType, Range
<1>5. \E p \in Places(rows) : Stable(p)
  <2>1. CASE ~Sortable(Range(rows))
    BY <1>1, <2>1, Enumerations DEF Places
  <2>2. CASE Sortable(Range(rows))
    <3>1. IsOrder(R, D)
      <4>1. \A n \in D : key(n) \in Nat
        BY <1>4, <2>2
      <4> HIDE DEF R, D, key
      <4> QED BY <1>1, <1>3, <4>1 DEF IsOrder
    <3>2. PICK p \in Places(rows) : InOrderOf(R, p)
      <4> HIDE DEF R
      <4> QED BY <1>1, <3>1, OrderExists DEF Places
    <3>3. p \in [D -> D]
      BY SortedRows
    <3>4. \A m, n \in D : m < n => InPlace(p, m, n)
      <4> HIDE DEF R, before, key
      <4> QED BY <1>3, <3>2, <3>3 DEF InOrderOf
    <3> QED BY <3>4
  <2> QED BY <2>1, <2>2
<1>6. ASSUME NEW s \in KeyOrders(rows, direction)
      PROVE  /\ Distinct(s) /\ Range(s) = Range(rows)
             /\ Sortable(Range(rows)) => ByKey(s, direction)
  <2>1. PICK p \in Places(rows) : s = Sorted(rows, p) /\ Stable(p)
    BY <1>2
  <2>2. Distinct(s) /\ Range(s) = Range(rows) /\ p \in [D -> D]
    BY <2>1, SortedRows
  <2>3. DOMAIN s = D /\ \A n \in D : s[n] = rows[p[n]]
    BY <2>1 DEF Sorted
  <2>4. ASSUME Sortable(Range(rows)) PROVE ByKey(s, direction)
    <3>1. \A n \in D : key(p[n]) \in Nat /\ data[s[n]] = key(p[n])
      BY <1>4, <2>2, <2>3, <2>4
    <3>2. \A m, n \in D : m < n => InPlace(p, m, n)
      BY <2>1, <2>4
    <3> HIDE DEF key
    <3> QED BY <2>3, <3>1, <3>2 DEF ByKey
  <2> QED BY <2>2, <2>4
<1> QED BY <1>2, <1>5, <1>6

-----------------------------------------------------------------------------
(* Cutting a page out. *)

LEMMA CountTo ==
  ASSUME NEW n \in Nat
  PROVE  IsFiniteSet(1..n) /\ Cardinality(1..n) = n
  BY FS_Interval

\* A page is what stands in the rows after the offset, up to the limit.
LEMMA PageIs ==
  ASSUME NEW s, Distinct(s), NEW q, q.offset \in Nat, q.limit \in Nat
  PROVE  LET page == Page(s, q) IN
         /\ Distinct(page) /\ Range(page) \subseteq Range(s)
         /\ Len(page) = PageSize(q, Range(s))
         /\ \A n \in DOMAIN page : n + q.offset \in DOMAIN s /\ page[n] = s[n + q.offset]
<1> DEFINE N == Len(s)
           off == q.offset
           rest == Slice(s, off, N)
           page == Page(s, q)
           size == PageSize(q, Range(s))
<1>1. /\ N \in Nat /\ DOMAIN s = 1..N /\ s \in Seq(Id) /\ off \in Nat /\ q.limit \in Nat
      /\ Cardinality(Range(s)) = N
  BY PlacesAreFinite DEF Distinct
<1>2. /\ rest \in Seq(Id) /\ Len(rest) = IF off > N THEN 0 ELSE N - off
      /\ \A n \in 1..Len(rest) : n + off \in 1..N /\ rest[n] = s[n + off]
  <2>1. rest = SubSeq(s, off + 1, N)
    BY <1>1 DEF Slice
  <2> HIDE DEF rest, N, off
  <2>2. CASE off > N
    <3>1. rest = <<>>
      BY <1>1, <2>1, <2>2
    <3> QED BY <1>1, <2>2, <3>1
  <2>3. CASE ~(off > N)
    <3>1. off + 1 \in 1..(N + 1) /\ N \in off..N
      BY <1>1, <2>3
    <3>2. rest \in Seq(Id) /\ Len(rest) = N - off
      BY <1>1, <2>1, <2>3
    <3>3. \A n \in 1..Len(rest) : n + off \in 1..N /\ rest[n] = s[n + off]
      BY <1>1, <2>1, <2>3, <3>2
    <3> QED BY <2>3, <3>2, <3>3
  <2> QED BY <1>1, <2>2, <2>3
<1>3. size = IF q.limit > Len(rest) THEN Len(rest) ELSE q.limit
  BY <1>1, <1>2 DEF PageSize
<1>4. page = SubSeq(rest, 1, size)
  BY <1>3 DEF Page, Slice
<1> HIDE DEF rest, size
<1>5. Len(rest) \in Nat /\ size \in 0..Len(rest)
  BY <1>1, <1>2, <1>3
<1> HIDE DEF page
<1>6. page \in Seq(Id) /\ Len(page) = size /\ DOMAIN page = 1..size /\ \A n \in 1..size : page[n] = rest[n]
  BY <1>2, <1>4, <1>5
<1>7. \A n \in 1..size : n + off \in 1..N /\ page[n] = s[n + off]
  <2>1. \A n \in 1..size : n \in 1..Len(rest) /\ page[n] = rest[n]
    BY <1>5, <1>6
  <2> HIDE DEF N, off
  <2> QED BY <1>2, <2>1
<1>8. IsInjective(page)
  <2>1. ASSUME NEW m \in 1..size, NEW n \in 1..size, page[m] = page[n] PROVE m = n
    <3>1. m + off = n + off
      BY <1>1, <1>7, <2>1 DEF Distinct, IsInjective
    <3> QED BY <1>1, <1>5, <3>1
  <2> QED BY <1>6, <2>1 DEF IsInjective
<1>9. Range(page) \subseteq Range(s)
  BY <1>1, <1>6, <1>7 DEF Range
<1> QED BY <1>1, <1>6, <1>7, <1>8, <1>9 DEF Distinct, page, size

\* A page of ordered rows is in that order, and the rows before it are as many as
\* the offset says.
LEMMA PageIsInOrder ==
  ASSUME NEW s, Distinct(s), NEW q, q.offset \in Nat, q.limit \in Nat,
         \A m, n \in DOMAIN s : m < n => InOrder(q, s[m], s[n])
  PROVE  IsPageOf(Page(s, q), q, Range(s))
<1> DEFINE page == Page(s, q)
           off == q.offset
           N == Len(s)
           B == {s[m] : m \in 1..off}
<1>1. /\ N \in Nat /\ DOMAIN s = 1..N /\ off \in Nat
      /\ \A m, n \in 1..N : s[m] = s[n] => m = n
  BY PlacesAreFinite DEF Distinct, IsInjective
<1>2. /\ Distinct(page)
      /\ \A n \in DOMAIN page : n + off \in 1..N /\ page[n] = s[n + off] /\ n \in Nat /\ n > 0
  BY <1>1, PageIs, PlacesAreFinite
<1> HIDE DEF page
<1>3. \A m, n \in DOMAIN page : m < n => InOrder(q, page[m], page[n])
  <2>1. \A m, n \in DOMAIN page : m < n => m + off < n + off
    BY <1>1, <1>2
  <2> QED BY <1>1, <1>2, <2>1
<1>4. ASSUME page # <<>>
      PROVE  \E before \in kSubset(off, Range(s) \ Range(page)) :
                \A n \in DOMAIN page : \A i \in before : InOrder(q, i, page[n])
  <2>1. off \in 0..N
    <3>1. PICK n \in DOMAIN page : TRUE
      BY <1>2, <1>4, PlacesAreFinite DEF Distinct
    <3> QED BY <1>1, <1>2, <3>1
  <2>2. Cardinality(B) = off
    <3> DEFINE f == [m \in 1..off |-> s[m]]
    <3>1. f \in Bijection(1..off, B)
      BY <1>1, <2>1 DEF Bijection, Injection, Surjection, IsInjective
    <3>2. IsFiniteSet(1..off) /\ Cardinality(1..off) = off
      BY <1>1, CountTo
    <3> HIDE DEF f, B
    <3> QED BY <3>1, <3>2, FS_Bijection DEF ExistsBijection
  <2>3. \A m \in 1..off, n \in DOMAIN page : m \in 1..N /\ m < n + off
    BY <1>1, <1>2, <2>1
  <2>4. B \subseteq Range(s) \ Range(page)
    <3>1. \A m \in 1..off, n \in DOMAIN page : s[m] # page[n]
      BY <1>1, <1>2, <2>3
    <3> QED BY <1>1, <2>1, <3>1 DEF Range
  <2>5. \A n \in DOMAIN page : \A i \in B : InOrder(q, i, page[n])
    BY <1>1, <1>2, <2>3
  <2>6. B \in kSubset(off, Range(s) \ Range(page))
    BY <2>2, <2>4 DEF kSubset
  <2> QED BY <2>5, <2>6
<1> QED BY <1>3, <1>4 DEF IsPageOf, page

\* count() may ask the collection for its size.
LEMMA NoPageIsLonger ==
  ASSUME NEW rows \in SUBSET Id
  PROVE  PageSize(NewQuery, rows) = Cardinality(rows)
<1>1. /\ Cardinality(rows) \in Nat /\ Cardinality(Id) \in Nat /\ Cardinality(rows) <= Cardinality(Id)
  BY StoreAssumption, FS_Subset, FS_CardinalityType
<1> QED BY <1>1 DEF PageSize, NewQuery, NoLimit

\* Each result of a query is a page of all its rows, in the order asked for.
IsResult(page, q) ==
  \E s : /\ Distinct(s) /\ Range(s) = FoundByAny(q) /\ page = Page(s, q)
         /\ q.direction = "none" => Ascending(s)
         /\ q.direction # "none" /\ Sortable(Range(s)) => ByKey(s, q.direction)

LEMMA ResultsAre ==
  ASSUME StoreTypeOK, IndexExact, NEW q, IsQuery(q)
  PROVE  Results(q) # {} /\ \A page \in Results(q) : IsResult(page, q)
<1>1. /\ Answers(q) # {}
      /\ \A rows \in Answers(q) : Distinct(rows) /\ Range(rows) = FoundByAny(q)
  BY AnswersAre
<1> DEFINE orders(rows) == IF q.direction = "none" THEN DefaultOrders(rows)
                           ELSE KeyOrders(rows, q.direction)
<1>2. ASSUME NEW rows \in Answers(q)
      PROVE  /\ orders(rows) # {}
             /\ \A s \in orders(rows) :
                   /\ Distinct(s) /\ Range(s) = FoundByAny(q)
                   /\ q.direction = "none" => Ascending(s)
                   /\ q.direction # "none" /\ Sortable(Range(s))
                        => ByKey(s, q.direction)
  <2>1. Distinct(rows) /\ Range(rows) = FoundByAny(q)
    BY <1>1
  <2>2. CASE q.direction = "none"
    BY <2>1, <2>2, DefaultOrdersAre
  <2>3. CASE q.direction # "none"
    BY <2>1, <2>3, KeyOrdersAre
  <2> QED BY <2>2, <2>3
<1>3. \A rows : Windows(rows, q) = {Page(s, q) : s \in orders(rows)}
  BY DEF Windows
<1> HIDE DEF orders
<1>4. Results(q) # {}
  <2>1. PICK rows \in Answers(q) : TRUE
    BY <1>1
  <2>2. PICK s \in orders(rows) : TRUE
    BY <1>2
  <2>3. Page(s, q) \in Results(q)
    BY <1>3, <2>1, <2>2 DEF Results
  <2> QED BY <2>3
<1>5. ASSUME NEW page \in Results(q) PROVE IsResult(page, q)
  <2>1. PICK rows \in Answers(q) : page \in Windows(rows, q)
    BY DEF Results
  <2>2. PICK s \in orders(rows) : page = Page(s, q)
    BY <1>3, <2>1
  <2> QED BY <1>2, <2>1, <2>2 DEF IsResult
<1> QED BY <1>4, <1>5

\* With neither conditions nor a window the rows are all of them.
LEMMA NewQueryIsAll == FoundByAny(NewQuery) = Rows
<1>1. DOMAIN NewQuery.groups = {1} /\ NewQuery.groups[1] = <<>>
  BY DEF NewQuery
<1>2. Execute(<<>>) = Rows
  BY NoConditionsFindAll
<1> QED BY <1>1, <1>2 DEF FoundByAny

LEMMA PagesDo ==
  ASSUME StoreTypeOK, IndexExact, NEW q, IsQuery(q)
  PROVE  LET results == Results(q)
             rows == FoundByAny(q) IN
         /\ Counts(q, results) = {PageSize(q, rows)}
         /\ q.direction = "none" => Cardinality(results) = 1
         /\ \A page \in results :
               /\ IsInjective(page) /\ Range(page) \subseteq rows
               /\ q.direction = "none" \/ Sortable(rows)
                     => IsPageOf(page, q, rows)
<1> DEFINE results == Results(q)
           rows == FoundByAny(q)
<1>1. results # {} /\ \A page \in results : IsResult(page, q)
  BY ResultsAre
<1>2. q.offset \in Nat /\ q.limit \in Nat /\ q.direction \in {"none", "asc", "desc"}
  BY DEF IsQuery
<1> HIDE DEF results
<1>3. ASSUME NEW page \in results
      PROVE  /\ Len(page) = PageSize(q, rows)
             /\ IsInjective(page) /\ Range(page) \subseteq rows
             /\ q.direction = "none" \/ Sortable(rows)
                   => IsPageOf(page, q, rows)
  <2>1. PICK s : /\ Distinct(s) /\ Range(s) = rows /\ page = Page(s, q)
                 /\ q.direction = "none" => Ascending(s)
                 /\ q.direction # "none" /\ Sortable(Range(s))
                      => ByKey(s, q.direction)
    BY <1>1 DEF IsResult
  <2> HIDE DEF rows
  <2>2. Distinct(page) /\ Range(page) \subseteq rows /\ Len(page) = PageSize(q, rows)
    BY <1>2, <2>1, PageIs
  <2>3. ASSUME q.direction = "none" \/ Sortable(rows)
        PROVE  \A m, n \in DOMAIN s : m < n => InOrder(q, s[m], s[n])
    BY <1>2, <2>1, <2>3 DEF InOrder, Ascending, ByKey
  <2>4. ASSUME q.direction = "none" \/ Sortable(rows)
        PROVE  IsPageOf(page, q, rows)
    BY <1>2, <2>1, <2>3, <2>4, PageIsInOrder
  <2> QED BY <2>2, <2>4 DEF Distinct
<1>4. Counts(q, results) = {PageSize(q, rows)}
  <2>1. CASE q = NewQuery
    <3>1. rows = Rows /\ Rows \in SUBSET Id
      BY <2>1, NewQueryIsAll DEF Rows
    <3>2. PageSize(q, rows) = Cardinality(Rows)
      BY <2>1, <3>1, NoPageIsLonger
    <3> QED BY <2>1, <3>2 DEF Counts
  <2>2. CASE q # NewQuery
    <3>1. Counts(q, results) = {Len(page) : page \in results}
      BY <2>2 DEF Counts
    <3> HIDE DEF rows
    <3> QED BY <1>1, <1>3, <3>1
  <2> QED BY <2>1, <2>2
<1>5. ASSUME q.direction = "none" PROVE Cardinality(results) = 1
  <2>1. ASSUME NEW page \in results, NEW other \in results PROVE page = other
    <3>1. PICK s : Distinct(s) /\ Range(s) = rows /\ page = Page(s, q) /\ Ascending(s)
      BY <1>1, <1>5 DEF IsResult
    <3>2. PICK t : Distinct(t) /\ Range(t) = rows /\ other = Page(t, q) /\ Ascending(t)
      BY <1>1, <1>5 DEF IsResult
    <3>3. s = t
      <4> HIDE DEF rows
      <4> QED BY <3>1, <3>2, AscendingIsOne
    <3> QED BY <3>1, <3>2, <3>3
  <2>2. PICK page \in results : TRUE
    BY <1>1
  <2>3. results = {page}
    BY <2>1, <2>2
  <2> QED BY <2>3, FS_Singleton
<1> QED BY <1>3, <1>4, <1>5 DEF results

\* In every state, and whatever any adapter's order: a page of a query has as many
\* rows as it should, each once and each a row of the query, and count() agrees;
\* without a sort the page is the only one, with a sort it is a page in that order.
\* (orWhere, #executeOrQuery, #applyDefaultOrder, #applySort, #applyWindow)
THEOREM PagesAlwaysAgree == Spec => []PagesAgree
<1>1. \A q \in Queries : IsQuery(q)
  BY QueriesAssumption DEF IsQuery
<1>2. StoreInv => PagesAgree
  <2> SUFFICES ASSUME StoreInv, NEW q \in Queries
               PROVE  LET results == Results(q)
                          rows == FoundByAny(q) IN
                      /\ Counts(q, results) = {PageSize(q, rows)}
                      /\ q.direction = "none" => Cardinality(results) = 1
                      /\ \A page \in results :
                            /\ IsInjective(page) /\ Range(page) \subseteq rows
                            /\ q.direction = "none" \/ Sortable(rows)
                                  => IsPageOf(page, q, rows)
    BY DEF PagesAgree
  <2> QED BY <1>1, PagesDo DEF StoreInv, TypeOK
<1> QED BY <1>2, StoreInvHolds, PTL

-----------------------------------------------------------------------------
(* A rollback. *)

\* The rows whose entries the loop has undone are as the earliest of these says.
UndoneInv ==
    rolling # Nobody =>
        \A n \in DOMAIN journal[rolling] :
            /\ n > turn
            /\ \A m \in DOMAIN journal[rolling] :
                  turn < m /\ m < n => journal[rolling][m].id # journal[rolling][n].id
            => data[journal[rolling][n].id] = journal[rolling][n].before

LEMMA UndoneInit == Init => UndoneInv
  BY DEF Init, UndoneInv

LEMMA UndoneUndo == StoreInv /\ UndoneInv /\ Undo => UndoneInv'
<1> SUFFICES ASSUME StoreInv, UndoneInv, Undo, rolling # Nobody,
                    NEW n \in DOMAIN journal[rolling], n > turn',
                    \A m \in DOMAIN journal[rolling] :
                        turn' < m /\ m < n => journal[rolling][m].id # journal[rolling][n].id
             PROVE  data'[journal[rolling][n].id] = journal[rolling][n].before
  BY DEF UndoneInv, Undo
<1> DEFINE s == journal[rolling]
           entry == s[turn]
<1>1. turn \in Nat /\ turn > 0 /\ rolling \in Txn /\ turn <= Len(s) /\ turn' = turn - 1
  BY TransactionAssumption DEF Undo, StoreInv, TypeOK, JournalsFit
<1>2. /\ s \in Seq([id : Id, before : Row]) /\ turn \in DOMAIN s /\ DOMAIN s \subseteq Nat
      /\ \A m \in DOMAIN s : s[m] \in [id : Id, before : Row]
  <2> DEFINE E == [id : Id, before : Row]
  <2>1. s \in Seq(E)
    BY <1>1 DEF StoreInv, TypeOK
  <2> HIDE DEF E
  <2>2. turn \in DOMAIN s /\ DOMAIN s \subseteq Nat /\ \A m \in DOMAIN s : s[m] \in E
    BY <1>1, <2>1
  <2> QED BY <2>1, <2>2 DEF E
<1>3. \A i \in Id : data'[i] = IF i = entry.id THEN entry.before ELSE data[i]
  BY <1>2 DEF Undo, NextUndo, StoreRow, StoreRows
<1>4. s[n].id \in Id /\ n \in Nat
  BY <1>2
<1>5. CASE n = turn
  BY <1>3, <1>4, <1>5
<1>6. CASE n > turn
  <2>1. s[n].id # entry.id
    BY <1>1, <1>2, <1>6
  <2>2. \A m \in DOMAIN s : turn < m /\ m < n => s[m].id # s[n].id
    BY <1>1, <1>2
  <2>3. data[s[n].id] = s[n].before
    BY <1>6, <2>2 DEF UndoneInv
  <2> QED BY <1>3, <1>4, <2>1, <2>3
<1> QED BY <1>1, <1>4, <1>5, <1>6

LEMMA UndoneNext == StoreInv /\ UndoneInv /\ [Next]_vars => UndoneInv'
<1> SUFFICES ASSUME StoreInv, UndoneInv, [Next]_vars PROVE UndoneInv'
  OBVIOUS
<1>1. CASE AppWrite \/ QueryStep
  BY <1>1 DEF AppWrite, QueryStep, txnVars, UndoneInv
<1>2. ASSUME NEW t \in Txn, Begin(t) \/ TxnWrite(t) \/ Commit(t) PROVE UndoneInv'
  BY <1>2 DEF Begin, TxnWrite, Commit, UndoneInv
<1>3. ASSUME NEW t \in Txn, Throw(t) PROVE UndoneInv'
  <2>1. rolling' = t /\ turn' = Len(journal[t]) /\ journal' = journal /\ t # Nobody
    BY <1>3, TransactionAssumption DEF Throw
  <2>2. \A n \in DOMAIN journal[t] : ~(n > Len(journal[t]))
    <3> DEFINE E == [id : Id, before : Row]
    <3>1. journal[t] \in Seq(E)
      BY DEF StoreInv, TypeOK
    <3> HIDE DEF E
    <3> QED BY <3>1
  <2> QED BY <2>1, <2>2 DEF UndoneInv
<1>4. CASE Undo
  BY <1>4, UndoneUndo
<1>5. CASE RolledBack
  BY <1>5 DEF RolledBack, UndoneInv
<1>6. CASE UNCHANGED vars
  BY <1>6 DEF vars, storeVars, txnVars, UndoneInv
<1> QED BY <1>1, <1>2, <1>3, <1>4, <1>5, <1>6 DEF Next

\* A row that the transaction wrote has a first entry in its journal.
LEMMA FirstEntry ==
  ASSUME StoreInv, NEW t \in Txn, NEW i \in Touched(t)
  PROVE  \E n \in DOMAIN journal[t] :
             /\ journal[t][n].id = i
             /\ \A m \in 1..(n - 1) : journal[t][m].id # i
             /\ Before(t, i) = journal[t][n].before
<1> DEFINE s == journal[t]
           S == {n \in DOMAIN s : s[n].id = i}
<1>1. DOMAIN s = 1..Len(s) /\ Len(s) \in Nat
  <2> DEFINE E == [id : Id, before : Row]
  <2>1. s \in Seq(E)
    BY DEF StoreInv, TypeOK
  <2> HIDE DEF E
  <2> QED BY <2>1
<1>2. S # {} /\ S \in SUBSET Nat
  BY <1>1 DEF Touched
<1>3. PICK n \in S : \A m \in S : n <= m
  BY <1>2, LeastOf
<1>4. n \in DOMAIN s /\ s[n].id = i /\ \A m \in 1..(n - 1) : s[m].id # i
  BY <1>1, <1>3
<1>5. PICK first : first = CHOOSE k \in DOMAIN s : s[k].id = i /\ \A m \in 1..(k - 1) : s[m].id # i
  OBVIOUS
<1>6. first \in DOMAIN s /\ s[first].id = i /\ \A m \in 1..(first - 1) : s[m].id # i
  BY <1>4, <1>5
<1>7. Before(t, i) = s[first].before
  BY <1>5 DEF Before
<1> QED BY <1>6, <1>7

LEMMA RolledBackRows ==
  ASSUME StoreInv, UndoneInv, [Next]_vars, NEW t \in Txn, rolling = t, rolling' = Nobody,
         NEW i \in Touched(t)
  PROVE  data[i] = Before(t, i)
<1>1. RolledBack
  BY TransactionAssumption DEF Next, AppWrite, Begin, TxnWrite, Commit, Throw, Undo, QueryStep, vars, txnVars
<1>2. turn = 0 /\ t # Nobody
  BY <1>1, TransactionAssumption DEF RolledBack
<1>3. PICK n \in DOMAIN journal[t] :
          /\ journal[t][n].id = i
          /\ \A m \in 1..(n - 1) : journal[t][m].id # i
          /\ Before(t, i) = journal[t][n].before
  BY FirstEntry
<1>4. DOMAIN journal[t] \subseteq Nat \ {0}
  <2> DEFINE E == [id : Id, before : Row]
  <2>1. journal[t] \in Seq(E)
    BY DEF StoreInv, TypeOK
  <2> HIDE DEF E
  <2> QED BY <2>1
<1>5. \A m \in DOMAIN journal[t] : m < n => journal[t][m].id # i
  BY <1>3, <1>4
<1> QED BY <1>2, <1>3, <1>4, <1>5 DEF UndoneInv

\* A transaction that threw leaves every row it wrote, and nobody else did since,
\* as it was before its first write to it, however often and in whatever order it
\* wrote them: the loop over #undo runs from the newest entry to the oldest, and
\* nothing comes in between.
THEOREM RollbackAlwaysRestores == Spec => RollbackRestores
<1>1. StoreInv /\ UndoneInv /\ [Next]_vars =>
          [\A t \in Txn : rolling = t /\ rolling' = Nobody =>
              \A i \in Touched(t) \ others[t] : data[i] = Before(t, i)]_vars
  BY RolledBackRows
<1> QED BY <1>1, UndoneInit, UndoneNext, StoreInvHolds, PTL DEF Spec, RollbackRestores
=============================================================================
