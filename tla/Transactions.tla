---------------------------- MODULE Transactions ----------------------------
(***************************************************************************)
(* Transactions of the memory adapter: writes take effect at once and are   *)
(* journalled; a transaction that throws undoes its journal, newest first,   *)
(* without awaiting anything.  Other writers are not kept out before that.   *)
(***************************************************************************)
EXTENDS QueryPlan

CONSTANTS
    Txn,        \* transactions
    Nobody,     \* no transaction is rolling back
    MaxJournal  \* bound of the model: writes of one transaction

ASSUME TransactionAssumption == Nobody \notin Txn /\ MaxJournal \in Nat

VARIABLES
    running,    \* the transactions under way
    journal,    \* [Txn -> Seq of [id, before]], #undo
    rolling,    \* the transaction whose rollback loop runs, or Nobody
    turn,       \* the variable of that loop: the entry to undo; 0 when it is over
    others      \* history: [Txn -> ids somebody else wrote since its first write to them]

txnVars == <<running, journal, rolling, turn, others>>
vars == <<storeVars, txnVars>>

Row == Value \cup {Absent}

TypeOK ==
    /\ StoreTypeOK
    /\ running \in SUBSET Txn
    /\ journal \in [Txn -> Seq([id : Id, before : Row])]
    /\ rolling \in Txn \cup {Nobody}
    /\ turn \in 0..MaxJournal
    /\ others \in [Txn -> SUBSET Id]

Init ==
    /\ StoreInit
    /\ running = {}
    /\ journal = [t \in Txn |-> <<>>]
    /\ rolling = Nobody
    /\ turn = 0
    /\ others = [t \in Txn |-> {}]

\* The ids a transaction has written.
Touched(t) == {journal[t][n].id : n \in DOMAIN journal[t]}

-----------------------------------------------------------------------------
\* The history of a write to these ids by t, or by nobody's transaction.
Noted(ids, t) ==
    others' = [u \in Txn |-> IF u = t THEN others[u] ELSE others[u] \cup (ids \cap Touched(u))]

\* A write outside of any transaction.
AppWrite ==
    /\ rolling = Nobody
    /\ UNCHANGED <<running, journal, rolling, turn>>
    /\ \/ \E i \in Id, v \in Value : (Create(i, v) \/ Update(i, v)) /\ Noted({i}, Nobody)
       \/ \E i \in Id : Delete(i) /\ Noted({i} \cap Rows, Nobody)
       \/ \E ids \in SUBSET Id : DeleteMany(ids) /\ Noted(ids \cap Rows, Nobody)
       \/ \E ids \in SUBSET Id : \E new \in [ids -> Value] : CreateMany(new) /\ Noted(ids, Nobody)

Begin(t) ==
    /\ rolling = Nobody
    /\ t \notin running
    /\ running' = running \cup {t}
    /\ UNCHANGED <<storeVars, journal, rolling, turn, others>>

Journalled(t, i) == journal' = [journal EXCEPT ![t] = Append(@, [id |-> i, before |-> data[i]])]

TxnWrite(t) ==
    /\ rolling = Nobody
    /\ t \in running
    /\ Len(journal[t]) < MaxJournal
    /\ \E i \in Id :
          /\ (\E v \in Value : Create(i, v) \/ Update(i, v)) \/ Delete(i)
          /\ Journalled(t, i)
          /\ Noted({i}, t)
    /\ UNCHANGED <<running, rolling, turn>>

\* The transaction is over: nothing of it is kept.
Ended(t) ==
    /\ running' = running \ {t}
    /\ journal' = [journal EXCEPT ![t] = <<>>]
    /\ others' = [others EXCEPT ![t] = {}]

Commit(t) ==
    /\ rolling = Nobody
    /\ t \in running
    /\ Ended(t)
    /\ UNCHANGED <<storeVars, rolling, turn>>

\* The callback throws: the loop starts at the last entry.
Throw(t) ==
    /\ rolling = Nobody
    /\ t \in running
    /\ rolling' = t
    /\ turn' = Len(journal[t])
    /\ UNCHANGED <<storeVars, running, journal, others>>

\* Mutant of NextUndo: the journal is replayed from its start.
OldestUndo == Len(journal[rolling]) + 1 - turn

NextUndo == turn

\* One turn of the rollback loop, through _write: nothing is checked.
Undo ==
    /\ turn > 0
    /\ LET entry == journal[rolling][NextUndo] IN
          /\ StoreRow(entry.id, entry.before)
          /\ Noted({entry.id}, rolling)
    /\ turn' = turn - 1
    /\ UNCHANGED <<running, journal, rolling>>

\* The loop is over; the error goes on to the caller.
RolledBack ==
    /\ rolling # Nobody
    /\ turn = 0
    /\ Ended(rolling)
    /\ rolling' = Nobody
    /\ UNCHANGED <<storeVars, turn>>
=============================================================================
