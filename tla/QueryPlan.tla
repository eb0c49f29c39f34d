----------------------------- MODULE QueryPlan -----------------------------
(***************************************************************************)
(* Queries over the memory store: the planner (query/planner.ts), the key   *)
(* ranges (query/range.ts), the predicate (query/predicate.ts), the executor *)
(* (query/executor.ts) and scanIndex of the memory adapter.  A query is a     *)
(* sequence of conditions that must all hold, on the id or on the indexed      *)
(* field; its result is a set of ids, which the executor then orders by id.    *)
(***************************************************************************)
EXTENDS MemoryStore, Sequences

\* JavaScript's operators, which the predicate applies to any two values.  < and
\* <= turn what is neither a number nor a string into one, so that true > 0,
\* null < 2 and "36" > 20; === compares an object, a date too, by identity.
CONSTANTS
    Structured, \* whether the schema has the indexed field as boolean, object or array
    Type,       \* [Key -> {"number", "date", "string"}]: the type of a key
    Less,       \* the pairs of values with v < w
    AtMost,     \* the pairs of values with v <= w
    Same        \* the pairs of values with v === w

\* The keys are numbered in the order of compareQueryKeys: numbers before dates
\* before strings.  Within one type JavaScript has the same order.
ASSUME OperatorsAssumption ==
    /\ Structured \in BOOLEAN
    /\ Type \in [Key -> {"number", "date", "string"}]
    /\ \A a, b \in Key :
          Type[a] = Type[b] => /\ <<a, b>> \in Less <=> a < b
                               /\ <<a, b>> \in AtMost <=> a <= b
    /\ \A a, b \in Key : Type[a] # "date" => (<<a, b>> \in Same <=> a = b)
    /\ \A a \in Key, v \in Odd \cup {Undefined} : <<a, v>> \notin Same /\ <<v, a>> \notin Same

Comparison == {">", ">=", "<", "<="}
Operator == Comparison \cup {"==", "!="}

\* isQueryKey
IsQueryKey(v) == v \notin Odd \cup {Undefined}

-----------------------------------------------------------------------------
\* The two ways to compare.

\* compareQueryKeys; on two ids, which are numbers, also what JavaScript says.
Ordered(a, op, b) ==
    CASE op = "==" -> a = b
      [] op = "!=" -> a # b
      [] op = ">" -> a > b
      [] op = ">=" -> a >= b
      [] op = "<" -> a < b
      [] op = "<=" -> a <= b

\* The operators of matchesWhere.
Holds(v, op, w) ==
    CASE op = "==" -> <<v, w>> \in Same
      [] op = "!=" -> <<v, w>> \notin Same
      [] op = ">" -> <<w, v>> \in Less
      [] op = ">=" -> <<w, v>> \in AtMost
      [] op = "<" -> <<v, w>> \in Less
      [] op = "<=" -> <<v, w>> \in AtMost

\* matchesWhere
Matches(i, c) ==
    IF c.field = "id" THEN Ordered(i, c.op, c.value) ELSE Holds(data[i], c.op, c.value)

MatchesAll(i, group) == \A p \in DOMAIN group : Matches(i, group[p])

\* What a query means: the rows that match, whatever indexes there are.
Meaning(group) == {i \in Rows : MatchesAll(i, group)}

SameType(v, w) == v \in Key /\ w \in Key /\ Type[v] = Type[w]

\* The value of a row and that of a condition are of one type, which is not date
\* if they are tested for equality; or the condition's is no key; or the row's is
\* none and JavaScript finds no order between the two either.
Typed(v, c) ==
    \/ c.value \notin Key
    \/ SameType(v, c.value) /\ (c.op = "==" => Type[v] # "date")
    \/ v \notin Key /\ \A pair \in {<<v, c.value>>, <<c.value, v>>} : pair \notin Less \cup AtMost

\* Every row has a value of the right type for each condition on the index.
WellTyped(group) ==
    \A p \in DOMAIN group : group[p].field = "key" => \A i \in Rows : Typed(data[i], group[p])

-----------------------------------------------------------------------------
\* Planning.

\* Mutant of HasRange: != gets a range too.
HasRangeOfAny(c) == IsQueryKey(c.value)

\* createQueryRange has a range for it.
HasRange(c) == c.op # "!=" /\ IsQueryKey(c.value)

\* queryRangeContains, for the range of condition c
InRange(v, c) ==
    IsQueryKey(v) /\ Ordered(v, c.op, c.value)

\* #selectBestIndexedCondition
Priority(c) ==
    CASE Structured \/ ~IsQueryKey(c.value) -> 0
      [] c.op = "==" -> IF unique THEN 5 ELSE 4
      [] c.op \in Comparison -> 3
      [] OTHER -> 1

First(positions) == CHOOSE p \in positions : \A q \in positions : p <= q

\* The id equality that makes the query a lookup.
IdEqualities(group) ==
    {p \in DOMAIN group : group[p].field = "id" /\ group[p].op = "==" /\ IsQueryKey(group[p].value)}

\* The conditions on the indexed field that no other beats.
Best(group) ==
    LET indexed == {p \in DOMAIN group : group[p].field = "key"}
    IN  {p \in indexed : \A q \in indexed : Priority(group[q]) <= Priority(group[p])}

\* #planSingleGroup: [strategy, at (the condition that drives it)]
Plan(group) ==
    LET ids == IdEqualities(group)
        best == Best(group)
    IN  CASE ids # {} -> [strategy |-> "id_lookup", at |-> First(ids)]
          [] ids = {} /\ best # {} /\ HasRange(group[First(best)])
                -> [strategy |-> "index_scan", at |-> First(best)]
          [] OTHER -> [strategy |-> "full_scan", at |-> 0]

\* Mutant of PostFilters: a condition on the indexed field is not filtered again.
PostFiltersElsewhere(group, at) == {p \in DOMAIN group : p # at /\ group[p].field # "key"}

\* The conditions left for the rows the strategy finds.
PostFilters(group, at) == DOMAIN group \ {at}

-----------------------------------------------------------------------------
\* scanIndex.

\* The keys it walks: the cached ones if there are.
Walked == IF sorted = NoCache THEN Occupied(buckets) ELSE sorted

Candidates(c) ==
    IF c.op = "==" THEN (IF c.value \in Key THEN buckets[c.value] ELSE {})
    ELSE UNION {buckets[k] : k \in {k \in Walked : InRange(k, c)}}

\* A broad range is scanned instead: it covers two fifths of the rows and there
\* is nothing left to filter.
Broad(c, post) ==
    /\ c.op # "=="
    /\ post = {}
    /\ 5 * Cardinality(Candidates(c)) >= 2 * Cardinality(Rows)

\* While a row cannot be indexed the index is not used either.
Scanned(c, post) ==
    IF oddRows > 0 \/ Broad(c, post) THEN Rows ELSE Candidates(c) \cap Rows

ScanIndex(c, post, group) ==
    {i \in Scanned(c, post) : InRange(data[i], c) /\ \A p \in post : Matches(i, group[p])}

\* #executePlan
Execute(group) ==
    LET plan == Plan(group)
        c == group[plan.at]
        post == PostFilters(group, plan.at)
    IN  CASE plan.strategy = "full_scan" -> {i \in Rows : MatchesAll(i, group)}
          [] plan.strategy = "id_lookup" ->
                {i \in {c.value} \cap Rows : \A p \in post : Matches(i, group[p])}
          [] plan.strategy = "index_scan" -> ScanIndex(c, post, group)

\* A query that walks the keys leaves them in the cache.
Query(group) ==
    LET plan == Plan(group) IN
    /\ plan.strategy = "index_scan"
    /\ group[plan.at].op # "=="
    /\ oddRows = 0
    /\ sorted' = Walked
    /\ UNCHANGED <<data, buckets, oddRows, unique>>
=============================================================================
