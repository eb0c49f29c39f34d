------------------------------ MODULE SyncBase ------------------------------
(***************************************************************************)
(* Values shared by the modules of the sync subsystem: records, writes,    *)
(* wall clocks, and the budget of disturbances of the environment.         *)
(*                                                                         *)
(* A record is identified by one Key (collection and record id together).  *)
(* Its content gives some of the fields a value, and the value of a field  *)
(* is the identity of the write that set it: two writes never set the same *)
(* value, so a field shows whose write it holds.                           *)
(***************************************************************************)
EXTENDS Naturals, FiniteSets, Sequences

CONSTANTS
    Key,           \* the records: collection and record id together
    Local,         \* the writes the application makes on this client
    Remote,        \* the writes other clients make through the server
    Field,         \* the fields of a record, its id apart
    Forms,         \* the sets of fields that one write may set
    Absent,        \* the content of a record that does not exist
    Merged,        \* the value a custom resolver builds from both sides
    Refused,       \* the records that the client's schema does not accept
    NoChange,      \* no write: an empty slot
    ClientSkew,    \* how far this client's clock is ahead of true time
    ServerSkew,    \* how far the server's clock is ahead of true time
    MaxClock,      \* bound of the model: the last instant of true time
    Disturbances,  \* the kinds of disturbance the environment may cause
    MaxDisturbed   \* bound of the model: how many disturbances in all

ASSUME ConstantsAssumption ==
    /\ Key # {}
    /\ Local \cap Remote = {}
    /\ Merged \notin Local \cup Remote
    /\ Forms \subseteq SUBSET Field
    /\ NoChange \notin Local \cup Remote
    /\ ClientSkew \in Nat /\ ServerSkew \in Nat
    /\ MaxClock \in Nat /\ MaxDisturbed \in Nat

VARIABLES
    clock,      \* true time, in milliseconds (the resolution of toISOString)
    disturbed   \* how many disturbances the environment has caused so far

Write == Local \cup Remote

\* The records there can be; most fields of most records are optional.
Record == UNION {[fields -> Write \cup {Merged}] : fields \in SUBSET Field}
Content == Record \cup {Absent}

ASSUME RecordAssumption == Absent \notin Record /\ Refused \subseteq Record

\* What write w sets.
Patch(fields, w) == [f \in fields |-> w]

\* Mutant of Merge: the fields that are there already win.
MergeOldWins(old, new) ==
    IF old = Absent THEN new
    ELSE [f \in DOMAIN old \cup DOMAIN new |-> IF f \in DOMAIN old THEN old[f] ELSE new[f]]

\* {...old, ...new}: the update of a record replaces the fields it names and
\* leaves the others as they are.
Merge(old, new) ==
    IF old = Absent THEN new
    ELSE [f \in DOMAIN old \cup DOMAIN new |-> IF f \in DOMAIN new THEN new[f] ELSE old[f]]

\* Collection validates the whole record before it writes it.
Acceptable(content) == content \notin Refused

ClientNow == clock + ClientSkew
ServerNow == clock + ServerSkew

BaseTypeOK ==
    /\ clock \in Nat
    /\ disturbed \in Nat

BaseInit ==
    /\ clock = 0
    /\ disturbed = 0

\* The environment causes one disturbance of the given kind.
Disturb(kind) ==
    /\ kind \in Disturbances
    /\ disturbed < MaxDisturbed
    /\ disturbed' = disturbed + 1

Calm == UNCHANGED disturbed
=============================================================================
