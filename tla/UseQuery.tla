------------------------------ MODULE UseQuery ------------------------------
(***************************************************************************)
(* The useQuery hook of the React bindings: one component that shows the    *)
(* rows its query matches, fetches again when its dependencies change or a   *)
(* change event arrives, and must not let a slow fetch overwrite a newer.    *)
(* useDoc is the query that matches one id.                                  *)
(***************************************************************************)
EXTENDS IdbTransactions, Naturals

CONSTANTS
    Query,       \* the queries the component may ask, each the ids it matches
    None,        \* no query, no fetch
    MaxRenders   \* bound of the model: how often the dependencies change

ASSUME UseQueryAssumption ==
    /\ Query \subseteq SUBSET Id /\ None \notin Query \cup Fetch
    /\ MaxRenders \in Nat

VARIABLES
    asked,    \* queryFnRef.current: the query of the latest render
    dirty,    \* a render changed the dependencies, the effect has yet to run
    mounted,  \* the component is on the page
    own,      \* the fetches of the running effect (the others are disposed)
    latest,   \* latestRequest of the running effect
    timer,    \* whether a refetch is scheduled (COALESCE_MS)
    fetch,    \* the fetches under way
    view,     \* the state of the hook, and what it was read from
    renders   \* how often the dependencies changed so far

viewVars == <<asked, dirty, mounted, own, latest, timer, fetch, view, renders>>

\* The rows a query matches.
Result(q) == [i \in Id |-> IF i \in q THEN rows[i] ELSE Absent]

NothingShown ==
    [data |-> NoRows, loading |-> TRUE, error |-> FALSE, query |-> None, at |-> {}]

Free == [state |-> "free", query |-> None, data |-> NoRows, at |-> {}]

ViewInit ==
    /\ asked \in Query
    /\ dirty = TRUE
    /\ mounted = TRUE
    /\ own = {}
    /\ latest = None
    /\ timer = FALSE
    /\ fetch = [f \in Fetch |-> Free]
    /\ view = NothingShown
    /\ renders = 0

\* run(): the newest query function is called, its fetch goes to the adapter.
Starts(f) ==
    /\ fetch[f].state = "free"
    /\ fetch' = [fetch EXCEPT ![f] =
                    [state |-> "asked", query |-> asked, data |-> NoRows, at |-> {}]]
    /\ latest' = f
    /\ line' = Append(line, f)

-----------------------------------------------------------------------------
\* The component renders with other dependencies.
Renders(q) ==
    /\ mounted /\ q # asked /\ renders < MaxRenders
    /\ renders' = renders + 1
    /\ asked' = q
    /\ dirty' = TRUE
    /\ UNCHANGED <<storeVars, mounted, own, latest, timer, fetch, view>>

\* The effect that compares the dependencies sets a new version, and the main
\* effect cleans up, runs its first fetch and subscribes to the events.
EffectRuns(f) ==
    /\ mounted /\ dirty
    /\ Starts(f)
    /\ dirty' = FALSE
    /\ own' = {f}
    /\ timer' = FALSE
    /\ view' = [view EXCEPT !.loading = TRUE, !.error = FALSE]
    /\ UNCHANGED <<rows, applied, idle, phase, existing, txVars>>
    /\ UNCHANGED <<asked, mounted, renders>>

Unmounts ==
    /\ mounted
    /\ mounted' = FALSE
    /\ own' = {}
    /\ timer' = FALSE
    /\ view' = NothingShown
    /\ UNCHANGED <<storeVars, asked, dirty, latest, fetch, renders>>

\* The timer fires: a background refresh.
TimerFires(f) ==
    /\ timer
    /\ Starts(f)
    /\ timer' = FALSE
    /\ own' = own \cup {f}
    /\ UNCHANGED <<rows, applied, idle, phase, existing, txVars>>
    /\ UNCHANGED <<asked, dirty, mounted, view, renders>>

\* Mutant of Announces: an event is ignored while the component is loading.
AnnouncesIdle(o) ==
    /\ phase[o] = "answered"
    /\ Become(o, "ended")
    /\ timer' = (timer \/ (mounted /\ latest # None /\ ~view.loading))
    /\ UNCHANGED <<rows, applied, idle, line, existing, txVars>>
    /\ UNCHANGED <<asked, dirty, mounted, own, latest, fetch, view, renders>>

\* The after hooks of an operation have run, and it emits its change events:
\* the effect, if it has run, schedules one refetch for all of them.
Announces(o) ==
    /\ phase[o] = "answered"
    /\ Become(o, "ended")
    /\ timer' = (timer \/ (mounted /\ latest # None))
    /\ UNCHANGED <<rows, applied, idle, line, existing, txVars>>
    /\ UNCHANGED <<asked, dirty, mounted, own, latest, fetch, view, renders>>

\* The adapter reads the rows of a fetch in one readonly transaction.
FetchReads(f) ==
    /\ IsHead(f)
    /\ line' = Tail(line)
    /\ fetch' = [fetch EXCEPT ![f] =
                    [state |-> "read", query |-> fetch[f].query,
                     data |-> Result(fetch[f].query), at |-> applied]]
    /\ UNCHANGED <<rows, applied, idle, phase, existing, txVars>>
    /\ UNCHANGED <<asked, dirty, mounted, own, latest, timer, view, renders>>

FetchFails(f) ==
    /\ IsHead(f)
    /\ line' = Tail(line)
    /\ fetch' = [fetch EXCEPT ![f].state = "failed"]
    /\ UNCHANGED <<rows, applied, idle, phase, existing, txVars>>
    /\ UNCHANGED <<asked, dirty, mounted, own, latest, timer, view, renders>>

\* Mutant of IsWanted: any answer to the running effect is shown.
IsOfEffect(f) == f \in own

\* Mutant of IsWanted: an answer to the previous effect is shown as well.
IsLatest(f) == latest = f \/ f \notin own

\* disposed || request !== latestRequest
IsWanted(f) == f \in own /\ latest = f

\* The promise of a fetch settles; only the latest of the effect is shown.
Delivers(f) ==
    /\ fetch[f].state \in {"read", "failed"}
    /\ view' =
         CASE ~IsWanted(f) -> view
           [] IsWanted(f) /\ fetch[f].state = "failed" ->
                [view EXCEPT !.loading = FALSE, !.error = TRUE]
           [] OTHER ->
                [data |-> fetch[f].data, loading |-> FALSE, error |-> FALSE,
                 query |-> fetch[f].query, at |-> fetch[f].at]
    /\ fetch' = [fetch EXCEPT ![f] = Free]
    /\ own' = own \ {f}
    /\ UNCHANGED <<storeVars, asked, dirty, mounted, latest, timer, renders>>
=============================================================================
