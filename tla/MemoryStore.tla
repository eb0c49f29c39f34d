---------------------------- MODULE MemoryStore ----------------------------
(***************************************************************************)
(* One collection of the memory adapter (adapter/memory.ts): its rows and   *)
(* the index kept beside them.  A row is the value of its indexed field:    *)
(* other fields are not indexed and no operation looks at them.  Each        *)
(* method of the adapter runs without awaiting anything, so each is one step.*)
(***************************************************************************)
EXTENDS Naturals, FiniteSets

CONSTANTS
    Id,         \* record ids, numbers
    Key,        \* values an index can hold, numbers
    Odd,        \* values it cannot: booleans, null, NaN, objects, arrays
    Flag,       \* the booleans: a unique field has each at most once
    Undefined,  \* the field is not there
    Absent,     \* no row
    NoCache     \* the sorted keys are not cached

ASSUME StoreAssumption ==
    /\ Id \subseteq Nat /\ IsFiniteSet(Id)
    /\ Key \subseteq Nat /\ IsFiniteSet(Key)
    /\ Undefined \notin Key \cup Odd
    /\ Absent \notin Key \cup Odd \cup {Undefined}
    /\ Odd \cap Key = {} /\ Flag \subseteq Odd
    /\ \A keys \in SUBSET Key : NoCache # keys

VARIABLES
    data,       \* [Id -> Value \cup {Absent}], #data
    buckets,    \* [Key -> SUBSET Id], #indexes; a key without ids has no bucket
    oddRows,    \* #unindexable: how many rows the index cannot hold
    sorted,     \* #sortedIndexKeys: the cached set of keys, or NoCache
    unique      \* whether the index is declared unique

indexVars == <<buckets, oddRows, sorted>>
storeVars == <<data, indexVars, unique>>

Value == Key \cup Odd \cup {Undefined}

StoreTypeOK ==
    /\ data \in [Id -> Value \cup {Absent}]
    /\ buckets \in [Key -> SUBSET Id]
    /\ oddRows \in 0..Cardinality(Id)
    /\ sorted = NoCache \/ sorted \in SUBSET Key
    /\ unique \in BOOLEAN

StoreInit ==
    /\ data = [i \in Id |-> Absent]
    /\ buckets = [k \in Key |-> {}]
    /\ oddRows = 0
    /\ sorted = NoCache
    /\ unique \in BOOLEAN

Rows == {i \in Id : data[i] # Absent}

\* The keys that have a bucket.
Occupied(b) == {k \in Key : b[k] # {}}

-----------------------------------------------------------------------------
\* Keeping the index.  Some rows are about to be stored: new maps their ids to
\* what is stored, Absent to delete the row.

\* previous?.[field] and next?.[field]
FieldOf(row) == IF row = Absent THEN Undefined ELSE row

Moved(new) == {i \in DOMAIN new : FieldOf(new[i]) # FieldOf(data[i])}
Leaving(new, v) == {i \in Moved(new) : FieldOf(data[i]) = v}
Entering(new, v) == {i \in Moved(new) : FieldOf(new[i]) = v}

\* Mutant of OddRowsAfter: a row whose value cannot be indexed is not subtracted.
OddRowsGrow(new) == oddRows + Cardinality(UNION {Entering(new, v) : v \in Odd})

\* #adjustUnindexable never goes below zero.
OddRowsAfter(new) ==
    LET out == Cardinality(UNION {Leaving(new, v) : v \in Odd})
        in == Cardinality(UNION {Entering(new, v) : v \in Odd})
    IN  (IF out > oddRows THEN 0 ELSE oddRows - out) + in

\* Mutant of BucketsChange: a key whose last row leaves stays in the cache.
BucketAppears(b) == \E k \in Key : buckets[k] = {} /\ b[k] # {}

\* A bucket appears or disappears: the cached keys are invalid.
BucketsChange(b) == \E k \in Key : (buckets[k] = {}) # (b[k] = {})

\* #applyIndexField, for each row.
Reindex(new) ==
    /\ buckets' = [k \in Key |-> (buckets[k] \ Leaving(new, k)) \cup Entering(new, k)]
    /\ oddRows' = OddRowsAfter(new)
    /\ sorted' = IF BucketsChange(buckets') THEN NoCache ELSE sorted

StoreRows(new) ==
    /\ data' = [i \in Id |-> IF i \in DOMAIN new THEN new[i] ELSE data[i]]
    /\ Reindex(new)
    /\ UNCHANGED unique

StoreRow(i, row) == StoreRows([j \in {i} |-> row])

-----------------------------------------------------------------------------
\* The operations.

\* What a unique index admits once: nothing and null are not checked, NaN and an
\* object equal nothing.
Checked == Key \cup Flag

\* #assertUnique, but for the row itself.
UniqueBut(v, own) ==
    unique => /\ v \in Key => buckets[v] \subseteq own
              /\ v \in Flag => {i \in Rows : data[i] = v} \subseteq own

Create(i, v) ==
    /\ data[i] = Absent
    /\ UniqueBut(v, {})
    /\ StoreRow(i, v)

Update(i, v) ==
    /\ data[i] # Absent
    /\ UniqueBut(v, {i})
    /\ StoreRow(i, v)

Delete(i) == StoreRow(i, Absent)

\* Mutant of BatchFits: each row is compared with the stored rows only.
BatchFitsStore(new) ==
    /\ DOMAIN new \cap Rows = {}
    /\ unique => \A i \in DOMAIN new, j \in Rows : new[i] \in Checked => new[i] # data[j]

\* createMany: every row is checked, against the others too, before the first
\* write; ids are distinct, new being a function.
BatchFits(new) ==
    /\ DOMAIN new \cap Rows = {}
    /\ unique =>
         /\ \A i \in DOMAIN new, j \in Rows : new[i] \in Checked => new[i] # data[j]
         /\ \A i, j \in DOMAIN new : new[i] = new[j] /\ new[i] \in Checked => i = j

CreateMany(new) == BatchFits(new) /\ StoreRows(new)

DeleteMany(ids) == StoreRows([i \in ids |-> Absent])
=============================================================================
