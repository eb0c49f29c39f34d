----------------------------- MODULE SyncServer -----------------------------
(***************************************************************************)
(* The reference server (examples/sync/server-node) and the wire between   *)
(* it and one client.  The store keeps the records with the time of their  *)
(* last write and an append-only change log, which clients read through a  *)
(* cursor.  A push request is a batch handled oldest change first; its     *)
(* answer says of each change whether it was accepted, conflicts with the  *)
(* stored record, or was refused.                                          *)
(***************************************************************************)
EXTENDS ChangeQueue

VARIABLES
    records,  \* [Key -> [data, at]], the server's records and their _updatedAt
    log,      \* Seq of [key, by, data, ts], the server's change log
    request,  \* the changes of the client's push the server has yet to handle
    answer,   \* [Local -> Answer], the answer to the client's push so far
    late      \* changes of a push the client gave up on, still to be handled

serverVars == <<records, log>>
wireVars == <<request, answer, late>>

Entry == [key : Key, by : Write, data : Content, ts : Nat]
Answer == [kind : {"none", "accepted", "conflict", "error"},
           data : Content, ts : Nat]
NoAnswer == [kind |-> "none", data |-> Absent, ts |-> 0]
AllUnanswered == [c \in Local |-> NoAnswer]

ServerTypeOK ==
    /\ records \in [Key -> [data : Content, at : Nat]]
    /\ log \in Seq(Entry)
    /\ request \in SUBSET Local
    /\ answer \in [Local -> Answer]
    /\ late \in SUBSET Local

ServerInit ==
    /\ records = [k \in Key |-> [data |-> Absent, at |-> 0]]
    /\ log = <<>>
    /\ request = {}
    /\ answer = AllUnanswered
    /\ late = {}

-----------------------------------------------------------------------------
Holds(k) == records[k].data # Absent

\* A create conflicts with any stored record; an update or a delete only with
\* one written after the change was made.
Conflicts(c) ==
    LET k == change[c].key IN
    /\ Holds(k)
    /\ change[c].type # "create" => records[k].at > change[c].ts

\* Store a write and append it to the change log.  The record is replaced as a
\* whole: fields that the write does not carry are gone.
Accept(k, w, data) ==
    /\ records' = [records EXCEPT ![k] =
                      [data |-> data,
                       at   |-> IF data = Absent THEN 0 ELSE ServerNow]]
    /\ log' = Append(log, [key |-> k, by |-> w, data |-> data, ts |-> ServerNow])

\* The batch was sorted by timestamp before it was sent; equal timestamps
\* keep the order of the index scan, which is that of random ids.
OldestIn(S, c) == c \in S /\ \A d \in S : change[c].ts <= change[d].ts

\* One iteration of the push handler's loop.
Serve(c) ==
    LET k == change[c].key IN
    /\ OldestIn(request, c)
    /\ request' = request \ {c}
    /\ \/ /\ Conflicts(c)
          /\ answer' = [answer EXCEPT ![c] =
                [kind |-> "conflict", data |-> records[k].data, ts |-> records[k].at]]
          /\ UNCHANGED serverVars
       \/ /\ ~Conflicts(c)
          /\ Accept(k, c, DataOf(c))
          /\ answer' = [answer EXCEPT ![c] =
                [kind |-> "accepted", data |-> DataOf(c), ts |-> ServerNow]]
    /\ UNCHANGED late

\* The loop's catch: the change is reported in errors.
Refuse(c) ==
    /\ OldestIn(request, c)
    /\ Disturb("refuse")
    /\ request' = request \ {c}
    /\ answer' = [answer EXCEPT ![c].kind = "error"]
    /\ UNCHANGED <<serverVars, late>>

\* A server of the same protocol that leaves the change out of its answer.
Ignore(c) ==
    /\ OldestIn(request, c)
    /\ Disturb("ignore")
    /\ request' = request \ {c}
    /\ UNCHANGED <<serverVars, answer, late>>

\* A request the client no longer waits for is handled all the same.
ServeLate(c) ==
    /\ OldestIn(late, c)
    /\ late' = late \ {c}
    /\ IF Conflicts(c)
       THEN UNCHANGED serverVars
       ELSE Accept(change[c].key, c, DataOf(c))
    /\ UNCHANGED <<request, answer>>

\* The push handler runs its loop without yielding to other requests.
ServerBusy == request # {} /\ answer # AllUnanswered

\* Mutant of GiveUp: the abandoned request still fills in the answer.
GiveUpNothing == UNCHANGED <<late, request>>

\* The client stops waiting: what the server has not handled is lost on the
\* way or handled later.
GiveUp ==
    /\ \/ late' = late \cup request
       \/ ~ServerBusy /\ UNCHANGED late
    /\ request' = {}

Unwritten(w) == \A i \in 1..Len(log) : log[i].by # w

\* The copies of record k that another client can have: any the log has told of.
Copies(k) == {Absent} \cup {log[i].data : i \in {i \in 1..Len(log) : log[i].key = k}}

\* What another client pushes for write w: its copy of the record with the
\* fields the write sets on top, or a deletion.
RemoteContents(w, k) ==
    {Absent} \cup {Merge(copy, Patch(fields, w)) : copy \in Copies(k), fields \in Forms}

\* Another client's push of write w is accepted.
RemoteWrite(w, k) ==
    /\ ~ServerBusy
    /\ Unwritten(w)
    /\ \E data \in RemoteContents(w, k) : Accept(k, w, data)
    /\ UNCHANGED wireVars

\* getChanges: the page of the log after the cursor ends here, and more follow.
PageEnd(from, size) == IF from + size < Len(log) THEN from + size ELSE Len(log)

\* Mutant of HasMore: the page size is compared with the whole log.
HasMoreOfAll(from, size) == size < Len(log)

HasMore(from, size) == from + size < Len(log)
=============================================================================
