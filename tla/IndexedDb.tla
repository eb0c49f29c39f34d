----------------------------- MODULE IndexedDb -----------------------------
(***************************************************************************)
(* One IndexedDB database as the tabs of a browser share it: the open       *)
(* requests wait in a queue, and an upgrade of the version first tells the  *)
(* other connections, then waits until all of them are closed.              *)
(*                                                                         *)
(* The n-th call of Database.connect() makes the n-th open request, which   *)
(* becomes the n-th connection.                                             *)
(***************************************************************************)
EXTENDS Naturals, FiniteSets, Sequences

CONSTANTS
    Tab,          \* the tabs, each with a page of the application
    None,         \* no connection, no tab
    MaxCalls,     \* bound of the model: the calls of connect() in all
    MaxVersion,   \* bound of the model: the newest schema version
    Field,        \* the fields some schema indexes
    Declared      \* the index each version of the schema declares per field

Call == 1 .. MaxCalls
Version == 1 .. MaxVersion
IndexKind == {"none", "plain", "unique"}

ASSUME IndexedDbAssumption ==
    /\ None \notin Call \cup Tab
    /\ MaxCalls \in Nat /\ MaxVersion \in Nat
    /\ Declared \in [Version -> [Field -> IndexKind]]

VARIABLES
    version,   \* the stored version, 0 before the first upgrade
    indexes,   \* the index each field has in the stored database
    queue,     \* the open requests not processed yet, in the order made
    conn,      \* the state of each request and of the connection it becomes
    wants,     \* the version each request asks for
    told,      \* connections with a versionchange event on its way
    busy       \* connections with a transaction under way

browserVars == <<version, indexes, queue, conn, wants, told, busy>>

ConnState == { "none", "queued", "asking", "blocked", "success", "error",
               "open", "closing", "closed" }

BrowserTypeOK ==
    /\ version \in 0 .. MaxVersion
    /\ indexes \in [Field -> IndexKind]
    /\ queue \in Seq(Call)
    /\ conn \in [Call -> ConnState]
    /\ wants \in [Call -> 0 .. MaxVersion]
    /\ told \subseteq Call
    /\ busy \subseteq Call

BrowserInit ==
    /\ version = 0
    /\ indexes = [f \in Field |-> "none"]
    /\ queue = <<>>
    /\ conn = [c \in Call |-> "none"]
    /\ wants = [c \in Call |-> 0]
    /\ told = {}
    /\ busy = {}

\* A connection exists from the success of its request until it is closed; one
\* that close() was called on lives on until its transaction ends.
Live(c) == conn[c] \in {"success", "open", "closing"}

Others(c) == {d \in Call \ {c} : Live(d)}

IsFirst(c) == queue # <<>> /\ Head(queue) = c

-----------------------------------------------------------------------------
\* indexedDB.open(name, v)
Open(c, v) ==
    /\ queue' = Append(queue, c)
    /\ conn' = [conn EXCEPT ![c] = "queued"]
    /\ wants' = [wants EXCEPT ![c] = v]
    /\ UNCHANGED <<version, indexes, told, busy>>

\* db.close() of each connection of a set: no event reaches it any more, and
\* the transaction it runs still ends.
Close(closed) ==
    /\ conn' = [c \in Call |->
                  CASE c \notin closed -> conn[c]
                    [] c \in closed /\ c \in busy -> "closing"
                    [] OTHER -> "closed"]
    /\ told' = told \ closed
    /\ UNCHANGED <<version, indexes, queue, wants, busy>>

Finish(c, outcome) ==
    /\ queue' = Tail(queue)
    /\ conn' = [conn EXCEPT ![c] = outcome]

\* The version asked for is the stored one: the request succeeds.
OpensAsStored(c) ==
    /\ IsFirst(c) /\ conn[c] = "queued"
    /\ wants[c] = version
    /\ Finish(c, "success")
    /\ UNCHANGED <<version, indexes, wants, told, busy>>

\* The stored version is newer: VersionError.
RefusesOlder(c) ==
    /\ IsFirst(c) /\ conn[c] = "queued"
    /\ wants[c] < version
    /\ Finish(c, "error")
    /\ UNCHANGED <<version, indexes, wants, told, busy>>

\* An upgrade: every other connection is sent a versionchange event.
TellsOthers(c) ==
    /\ IsFirst(c) /\ conn[c] = "queued"
    /\ wants[c] > version
    /\ conn' = [conn EXCEPT ![c] = "asking"]
    /\ told' = told \cup {d \in Others(c) : conn[d] # "closing"}
    /\ UNCHANGED <<version, indexes, queue, wants, busy>>

\* All the events were delivered and some connection is open still.
Blocks(c) ==
    /\ conn[c] = "asking"
    /\ told = {} /\ Others(c) # {}
    /\ conn' = [conn EXCEPT ![c] = "blocked"]
    /\ UNCHANGED <<version, indexes, queue, wants, told, busy>>

MayUpgrade(c) ==
    /\ IsFirst(c) /\ conn[c] \in {"asking", "blocked"}
    /\ Others(c) = {}

\* The versionchange transaction fails, say because a unique index meets
\* duplicates, and leaves the database as it was.
UpgradeAborts(c) ==
    /\ MayUpgrade(c)
    /\ Finish(c, "error")
    /\ UNCHANGED <<version, indexes, wants, told, busy>>

TransactionBegins(c) ==
    /\ busy' = busy \cup {c}
    /\ UNCHANGED <<version, indexes, queue, conn, wants, told>>

TransactionEnds(c) ==
    /\ c \in busy
    /\ busy' = busy \ {c}
    /\ conn' = [conn EXCEPT ![c] = IF @ = "closing" THEN "closed" ELSE @]
    /\ UNCHANGED <<version, indexes, queue, wants, told>>

\* The page of these requests and connections goes away.
Vanish(gone) ==
    /\ queue' = SelectSeq(queue, LAMBDA c : c \notin gone)
    /\ conn' = [c \in Call |-> IF c \in gone THEN "closed" ELSE conn[c]]
    /\ told' = told \ gone
    /\ busy' = busy \ gone
    /\ UNCHANGED <<version, indexes, wants>>
=============================================================================
