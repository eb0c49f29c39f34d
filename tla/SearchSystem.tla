---------------------------- MODULE SearchSystem ----------------------------
(***************************************************************************)
(* A database with the full-text plugin: connecting (the plugin's migrate),  *)
(* the writes of several callers, a match query, crashes, and sessions of     *)
(* the application without the plugin.                                        *)
(***************************************************************************)
EXTENDS CollectionWrites

CONSTANT Disturbances   \* subset of {"crash", "fail", "unplugged"} that happens

VARIABLES
    phase,      \* "down", "clear", "build" (migrate), "up"
    stamped,    \* the index format is stored
    toBuild,    \* postings that rebuild has yet to add
    query,      \* tokens of the match query under way; {}: none
    lookups,    \* the tokens it has yet to look up
    found,      \* the documents that had all the tokens looked up
    steady      \* history: clean documents that matched since the query began

queryVars == <<query, lookups, found, steady>>
connectVars == <<phase, stamped, toBuild>>
vars == <<writeVars, connectVars, queryVars>>

TypeOK ==
    /\ WritesTypeOK
    /\ phase \in {"down", "clear", "build", "up"}
    /\ stamped \in BOOLEAN
    /\ toBuild \subseteq Doc \X Token
    /\ lookups \subseteq query /\ query \subseteq Token
    /\ found \subseteq Doc
    /\ steady \subseteq Doc

\* The rows were written before the plugin was there.
Init ==
    /\ rows \in [Doc -> Row]
    /\ postings = {}
    /\ jobs = [w \in Worker |-> <<>>]
    /\ op = [w \in Worker |-> "none"]
    /\ seen = [w \in Worker |-> Nothing]
    /\ inTxn = [w \in Worker |-> FALSE]
    /\ undo = [w \in Worker |-> Nothing]
    /\ ops = 0
    /\ clean = {}
    /\ phase = "down"
    /\ stamped = FALSE
    /\ toBuild = {}
    /\ query = {} /\ lookups = {} /\ found = {} /\ steady = {}

-----------------------------------------------------------------------------
\* Connecting: collection() refuses callers until it is over.

Connect ==
    /\ phase = "down"
    /\ phase' = IF stamped THEN "up" ELSE "clear"
    /\ UNCHANGED <<writeVars, stamped, toBuild, queryVars>>

\* Mutant of Cleared: the rebuild starts from what is there.
ClearedNothing == postings

Cleared == {}

\* clear, then rebuild's read of the rows.
ClearIndex ==
    /\ phase = "clear"
    /\ postings' = Cleared
    /\ toBuild' = {p \in Doc \X Token : p[2] \in Tokens(rows[p[1]])}
    /\ phase' = "build"
    /\ UNCHANGED <<jobs, rows, op, seen, inTxn, undo, ops, clean, stamped, queryVars>>

Build ==
    /\ phase = "build"
    /\ \E p \in toBuild : postings' = postings \cup {p} /\ toBuild' = toBuild \ {p}
    /\ UNCHANGED <<jobs, rows, op, seen, inTxn, undo, ops, clean, phase, stamped, queryVars>>

Stamp ==
    /\ phase = "build"
    /\ toBuild = {}
    /\ stamped' = TRUE
    /\ phase' = "up"
    /\ clean' = Doc
    /\ UNCHANGED <<postings, jobs, rows, op, seen, inTxn, undo, ops, toBuild, queryVars>>

\* The process dies.  The rows and postings written so far stay; an open
\* transaction is undone.
Crash ==
    /\ "crash" \in Disturbances
    /\ phase # "down"
    /\ phase' = "down"
    /\ rows' = [d \in Doc |->
                  IF \E w \in Worker : d \in DOMAIN undo[w]
                  THEN undo[CHOOSE w \in Worker : d \in DOMAIN undo[w]][d]
                  ELSE rows[d]]
    /\ clean' = clean \ BusyDocs
    /\ jobs' = [w \in Worker |-> <<>>]
    /\ op' = [w \in Worker |-> "none"]
    /\ seen' = [w \in Worker |-> Nothing]
    /\ inTxn' = [w \in Worker |-> FALSE]
    /\ undo' = [w \in Worker |-> Nothing]
    /\ toBuild' = {}
    /\ query' = {} /\ lookups' = {} /\ found' = {} /\ steady' = {}
    /\ UNCHANGED <<postings, ops, stamped>>

\* A session of the application without the plugin writes a row.
UnpluggedWrite ==
    /\ "unplugged" \in Disturbances
    /\ phase = "down"
    /\ \E d \in Doc, row \in Row : rows' = [rows EXCEPT ![d] = row] /\ clean' = clean \ {d}
    /\ UNCHANGED <<postings, jobs, op, seen, inTxn, undo, ops, connectVars, queryVars>>

-----------------------------------------------------------------------------
\* The match query: the tokens one by one, then the rows, filtered.

Ask ==
    /\ phase = "up"
    /\ query = {}
    /\ \E q \in SUBSET Token \ {{}} :
          /\ query' = q
          /\ lookups' = q
          /\ steady' = {d \in clean \ BusyDocs : q \subseteq Tokens(rows[d])}
    /\ found' = Doc
    /\ UNCHANGED <<writeVars, connectVars>>

LookUp ==
    /\ \E t \in lookups : lookups' = lookups \ {t} /\ found' = found \cap DocsWith(t)
    /\ UNCHANGED <<writeVars, connectVars, query, steady>>

\* #executeMatch: the predicate decides on the rows found.
Result == {d \in found : query \subseteq Tokens(rows[d])}

Answer ==
    /\ query # {}
    /\ lookups = {}
    /\ query' = {} /\ found' = {} /\ steady' = {}
    /\ UNCHANGED <<writeVars, connectVars, lookups>>

-----------------------------------------------------------------------------
Write ==
    /\ phase = "up"
    /\ \E w \in Worker :
          \/ Create(w) \/ CreateMany(w)
          \/ Read(w) \/ Update(w) \/ UpdateRejected(w) \/ Delete(w)
          \/ Begin(w) \/ Commit(w) \/ RollBack(w)
          \/ HookStep(w)
          \/ "fail" \in Disturbances /\ HookFails(w)
    /\ steady' = {d \in steady \cap clean' : query \subseteq Tokens(rows'[d])}
    /\ UNCHANGED <<connectVars, query, lookups, found>>

Next ==
    \/ Connect \/ ClearIndex \/ Build \/ Stamp
    \/ Crash \/ UnpluggedWrite
    \/ Write
    \/ Ask \/ LookUp \/ Answer

Spec == Init /\ [][Next]_vars

-----------------------------------------------------------------------------
\* A document without overlapping or failed writes has exactly the postings of
\* its text whenever no write of it is under way: whichever operations wrote it,
\* in transactions committed or rolled back, whatever its neighbours went through.
PostingsExact ==
    \A d \in clean \ BusyDocs : {t \in Token : <<d, t>> \in postings} = Tokens(rows[d])

\* A document that matches from the query's first lookup to its last read is in
\* the result, even if it is rewritten in between: the hook of an update leaves
\* alone the postings that both texts have.
SteadyRowsFound == [][query # {} /\ query' = {} /\ phase' = "up" => steady \subseteq Result]_vars

\* The stamp says that the index was built from the rows: at that moment it is
\* the rows' index, whatever earlier builds left behind.
StampedIsBuilt ==
    [][~stamped /\ stamped' => postings = {p \in Doc \X Token : p[2] \in Tokens(rows[p[1]])}]_vars

\* "Installing the plugin changes how fast this runs, never what it returns":
\* once every write has returned, a row has the postings that make match find it.
MatchFindsAll ==
    phase = "up" /\ (\A w \in Worker : op[w] = "none" /\ jobs[w] = <<>> /\ ~inTxn[w]) =>
        \A d \in Doc : \A t \in Tokens(rows[d]) : <<d, t>> \in postings
=============================================================================
