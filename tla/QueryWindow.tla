---------------------------- MODULE QueryWindow ----------------------------
(***************************************************************************)
(* Queries of several groups and their windows: the calls of the builder    *)
(* (query/builder.ts), the plan of several groups (query/planner.ts) and      *)
(* what the executor makes of the rows of each group (query/executor.ts):     *)
(* merge them, put them in order, cut a page out.                            *)
(*                                                                         *)
(* The order in which an adapter hands over the rows of one group depends on *)
(* the plan and on the history of the store: it is any order here.            *)
(***************************************************************************)
EXTENDS StorageSystem, SequencesExt

CONSTANT Queries   \* the queries the application asks, see NewQuery

ASSUME QueriesAssumption ==
    \A q \in Queries :
        /\ q.groups \in Seq(Seq(Condition)) /\ q.groups # <<>>
        /\ q.direction \in {"none", "asc", "desc"}
        /\ q.offset \in Nat /\ q.limit \in Nat

\* A query without a limit: no page is longer.
NoLimit == Cardinality(Id)

\* new QueryBuilder(): direction is "none", "asc" or "desc"; sort() takes the
\* indexed field here.
NewQuery == [groups |-> << <<>> >>, direction |-> "none", offset |-> 0, limit |-> NoLimit]

\* where(): the condition goes to the last group.
Where(q, c) ==
    [q EXCEPT !.groups[Len(q.groups)] = Append(@, c)]

\* orWhere(): the first group of the child query, unless it is empty.
OrWhere(q, child) ==
    IF child.groups[1] = <<>> THEN q
    ELSE [q EXCEPT !.groups = Append(@, child.groups[1])]

\* Each group of a query, which the planner plans by itself; when the first one
\* has no condition there is nothing to plan.
PlannedGroups(q) == IF q.groups[1] = <<>> THEN << <<>> >> ELSE q.groups

\* The rows a query is about: those that any of its groups finds by itself.
FoundByAny(q) == UNION {Execute(q.groups[n]) : n \in DOMAIN q.groups}

\* Mutant of Merged: a row that two groups match comes twice.
MergedTwice(rows, found) == rows \o found

\* #executeOrQuery: the rows that one more group found, those that are not there
\* yet.
Merged(rows, found) ==
    LET merged[n \in 0..Len(found)] ==
            IF n = 0 THEN rows
            ELSE LET before == merged[n - 1] IN
                 IF Contains(before, found[n]) THEN before ELSE Append(before, found[n])
    IN  merged[Len(found)]

\* What #executePlan may return.
Answers(q) ==
    LET groups == PlannedGroups(q)
        answers[n \in 0..Len(groups)] ==
            IF n = 0 THEN {<<>>}
            ELSE {Merged(rows, found) :
                     rows \in answers[n - 1], found \in SetToSeqs(Execute(groups[n]))}
    IN  answers[Len(groups)]

-----------------------------------------------------------------------------
\* Sorting: the n-th row stood at place p[n] before.
Places(rows) == SetToSeqs(DOMAIN rows)
Sorted(rows, p) == [n \in DOMAIN rows |-> rows[p[n]]]

\* #applyDefaultOrder
DefaultOrders(rows) ==
    {Sorted(rows, p) : p \in
        {p \in Places(rows) : \A m, n \in DOMAIN rows : m < n => rows[p[m]] <= rows[p[n]]}}

\* The values the comparator of #applySort can put in order: keys of one type,
\* but not dates, two of which are never the same.
Sortable(ids) == \A i, j \in ids : SameType(data[i], data[j]) /\ Type[data[i]] # "date"

\* #applySort is stable.  When the values are not of one type the comparator may
\* contradict itself and the engine may return the rows in any order.
KeyOrders(rows, direction) ==
    LET before(i, j) == IF direction = "asc" THEN data[i] < data[j] ELSE data[i] > data[j]
        InPlace(p, m, n) == \/ before(rows[p[m]], rows[p[n]])
                            \/ data[rows[p[m]]] = data[rows[p[n]]] /\ p[m] < p[n]
    IN  {Sorted(rows, p) : p \in
            {p \in Places(rows) :
                Sortable(Range(rows)) => \A m, n \in DOMAIN rows : m < n => InPlace(p, m, n)}}

\* Array.slice(from, to)
Slice(rows, from, to) == SubSeq(rows, from + 1, IF to > Len(rows) THEN Len(rows) ELSE to)

\* The page that offset and limit cut out.
Page(rows, q) ==
    LET rest == Slice(rows, q.offset, Len(rows)) IN Slice(rest, 0, q.limit)

\* #applyWindow
Windows(rows, q) ==
    {Page(ordered, q) : ordered \in IF q.direction = "none" THEN DefaultOrders(rows)
                                                            ELSE KeyOrders(rows, q.direction)}

\* execute()
Results(q) == UNION {Windows(rows, q) : rows \in Answers(q)}

\* count(), given what execute() may return: the size of the collection when
\* there is nothing to filter or cut.
Counts(q, results) ==
    IF q = NewQuery THEN {Cardinality(Rows)} ELSE {Len(rows) : rows \in results}

-----------------------------------------------------------------------------
\* How many of these rows the page of a query has.
PageSize(q, rows) ==
    LET left == IF q.offset > Cardinality(rows) THEN 0 ELSE Cardinality(rows) - q.offset
    IN  IF q.limit > left THEN left ELSE q.limit

\* The order of a query: by id, or by the key.
InOrder(q, i, j) ==
    CASE q.direction = "none" -> i < j
      [] q.direction = "asc" -> data[i] <= data[j]
      [] q.direction = "desc" -> data[i] >= data[j]

\* A page is in order and comes after as many other rows as the offset says.
IsPageOf(page, q, rows) ==
    /\ \A m, n \in DOMAIN page : m < n => InOrder(q, page[m], page[n])
    /\ page # <<>> =>
          \E before \in kSubset(q.offset, rows \ Range(page)) :
             \A n \in DOMAIN page : \A i \in before : InOrder(q, i, page[n])

\* In every state, whatever plan each group of a query gets and in whatever
\* order the adapter finds the rows: a page has as many rows as it should, each
\* once and each a row of the query, and count() agrees; the default order makes
\* the page unique; and a sorted page is a page in that order, provided that
\* the rows of the query have values of one type to sort by.
PagesAgree ==
    \A q \in Queries :
        LET results == Results(q)
            rows == FoundByAny(q) IN
        /\ Counts(q, results) = {PageSize(q, rows)}
        /\ q.direction = "none" => Cardinality(results) = 1
        /\ \A page \in results :
              /\ IsInjective(page) /\ Range(page) \subseteq rows
              /\ q.direction = "none" \/ Sortable(rows)
                    => IsPageOf(page, q, rows)
=============================================================================
