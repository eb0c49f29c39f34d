---------------------------- MODULE AtomicStore ----------------------------
(***************************************************************************)
(* What a store promises its callers: every operation changes the rows as   *)
(* a whole, once, or not at all.  The content of a row is the set of the     *)
(* operations merged into it since it was created: a lost update is a        *)
(* missing member, and a row that does not exist is empty.                   *)
(*                                                                         *)
(* The one exception is a transaction whose callback awaits something that   *)
(* is not the database: it takes effect as far as it had come.               *)
(***************************************************************************)
CONSTANTS
    Id,       \* the ids of the rows
    Op,       \* the operations, each called at most once
    Kind,     \* the kind of each operation
    Touches   \* the rows each operation is about

OpKind == {"create", "update", "delete", "createMany", "deleteMany", "transaction"}

ASSUME StoreAssumption ==
    /\ Kind \in [Op -> OpKind]
    /\ Touches \in [Op -> (SUBSET Id) \ {{}}]
    /\ \A o \in Op : Kind[o] \in {"create", "update", "delete"} =>
                        \E i \in Id : Touches[o] = {i}

Absent == {}

VARIABLES
    rows,     \* the committed rows
    applied,  \* the operations that have taken effect
    idle      \* the transactions that let the database go idle

Rows == [Id -> SUBSET Op]

Init ==
    /\ rows = [i \in Id |-> Absent]
    /\ applied = {}
    /\ idle = {}

\* What an operation makes of the content of a row.
Written(o, content) ==
    IF Kind[o] \in {"delete", "deleteMany"} THEN Absent ELSE content \cup {o}

\* Whether the operation may be applied to a row with that content.
Accepts(o, content) ==
    /\ Kind[o] \in {"create", "createMany"} => content = Absent
    /\ Kind[o] = "update" => content # Absent

Effect(o, ids) == [i \in Id |-> IF i \in ids THEN Written(o, rows[i]) ELSE rows[i]]

Takes(o) ==
    /\ o \notin applied
    /\ \A i \in Touches[o] : Accepts(o, rows[i])
    /\ rows' = Effect(o, Touches[o])
    /\ applied' = applied \cup {o}
    /\ UNCHANGED idle

\* A transaction that went idle half-way.
TakesPart(o) ==
    /\ o \notin applied /\ Kind[o] = "transaction" /\ o \notin idle
    /\ \E ids \in SUBSET Touches[o] : rows' = Effect(o, ids)
    /\ applied' = applied \cup {o}
    /\ idle' = idle \cup {o}

Next == \E o \in Op : Takes(o) \/ TakesPart(o)

Spec == Init /\ [][Next]_<<rows, applied, idle>>
=============================================================================
