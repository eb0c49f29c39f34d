----------------------------- MODULE MCStorage -----------------------------
(***************************************************************************)
(* Instances of the memory store for TLC: keys that are all numbers, or one  *)
(* of each type and true, yes; beside them an object o that is no number.     *)
(***************************************************************************)
EXTENDS QueryWindow

CONSTANTS o, yes, undefined

SameIn(values) == {<<v, v>> : v \in values}

\* Two numbers, and an object, which is neither less than one nor the same as any.
MCType == <<"number", "number">>
MCLess == {<<1, 2>>}
MCAtMost == MCLess \cup SameIn({1, 2})
MCSame == SameIn({1, 2, undefined})

\* Each way to plan a query, and conditions that contradict each other.
MCCondition ==
    [field : {"key"}, op : {"=="}, value : {1, o, undefined}]
        \cup [field : {"key"}, op : {"!=", ">=", "<"}, value : {2}]
        \cup [field : {"id"}, op : {"==", "<="}, value : {1}]

\* Three keys: the number 2, a date at the time 3 and the string "1".  Across types
\* < and <= compare numbers, and take true and "1" for 1; a date is another object
\* in each place, and so the same as none.
MixedType == <<"number", "date", "string">>
MixedLess == {<<yes, 1>>, <<yes, 2>>, <<3, 1>>, <<3, 2>>, <<1, 2>>}
MixedAtMost == MixedLess \cup SameIn({1, 2, 3, yes}) \cup {<<yes, 3>>, <<3, yes>>}
MixedSame == SameIn({1, 3, yes, undefined})

\* Each key and true, compared with each other.
MixedCondition ==
    [field : {"key"}, op : {"=="}, value : {1, 2, 3, yes}]
        \cup [field : {"key"}, op : {">", "<="}, value : {1, 2, 3}]
        \cup [field : {"key"}, op : {"!="}, value : {2}]

Cond(field, op, value) == [field |-> field, op |-> op, value |-> value]

\* Groups that overlap, a first group without a condition, conditions after
\* orWhere(), and windows that cut.
MCQueries ==
    LET all == NewQuery
        byKey == Where(NewQuery, Cond("key", "==", 1))
        small == Where(NewQuery, Cond("key", "<", 2))
        odd == Where(NewQuery, Cond("key", "==", o))
        first == Where(NewQuery, Cond("id", "==", 1))
        either == OrWhere(byKey, small)
        narrowed == Where(OrWhere(first, Where(NewQuery, Cond("key", ">=", 2))),
                          Cond("id", "<=", 1))
    IN  { all, [all EXCEPT !.offset = 1, !.limit = 1], [all EXCEPT !.direction = "asc"],
          OrWhere(all, small), OrWhere(first, odd), either,
          [either EXCEPT !.direction = "desc", !.limit = 1],
          OrWhere(OrWhere(small, odd), first), narrowed,
          [OrWhere(odd, Where(NewQuery, Cond("key", "!=", 2))) EXCEPT
              !.direction = "asc", !.offset = 1] }

\* No pages: single groups only.
NoQueries == {}
=============================================================================
