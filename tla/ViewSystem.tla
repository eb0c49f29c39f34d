----------------------------- MODULE ViewSystem -----------------------------
(***************************************************************************)
(* A component that shows a query over an IndexedDB collection while the    *)
(* application writes to it.  What the store and the component promise.      *)
(***************************************************************************)
EXTENDS UseQuery

vars == <<storeVars, viewVars>>

SystemInit == StoreInit /\ ViewInit

OpStep(o) ==
    (Calls(o) \/ Proceeds(o) \/ Suffers(o)) /\ UNCHANGED viewVars

FetchStep(f) ==
    EffectRuns(f) \/ TimerFires(f) \/ FetchReads(f) \/ FetchFails(f) \/ Delivers(f)

SystemNext ==
    \/ \E o \in Op : OpStep(o) \/ Announces(o)
    \/ \E f \in Fetch : FetchStep(f)
    \/ \E q \in Query : Renders(q)
    \/ Unmounts

SystemSpec == SystemInit /\ [][SystemNext]_vars

\* Transactions run, promises settle, React runs the effects of a render and
\* armed timers fire; nothing makes the application write or render.
Fairness ==
    /\ WF_vars(\E o \in Op : Proceeds(o) /\ UNCHANGED viewVars)
    /\ WF_vars(\E o \in Op : Announces(o))
    /\ WF_vars(\E f \in Fetch : EffectRuns(f))
    /\ WF_vars(\E f \in Fetch : TimerFires(f))
    /\ WF_vars(\E f \in Fetch : FetchReads(f))
    /\ WF_vars(\E f \in Fetch : Delivers(f))

FairSpec == SystemSpec /\ Fairness

-----------------------------------------------------------------------------
\* The rows change by whole operations, each at most once and each on what the
\* row holds at that time: no update is lost, no batch is half-written, and a
\* transaction that throws leaves nothing behind.
Store == INSTANCE AtomicStore
ImplementsAtomicStore == Store!Spec

\* When the hooks and events of a batch or a transaction run, it is durable.
\* (Those of a single write may run before its commit, which may yet fail.)
AnsweredIsDurable ==
    \A o \in Op : phase[o] \in {"answered", "ended"} /\ ~Single(o) => o \in applied

\* What the component shows never goes back to an older state of the store,
\* in whatever order its fetches answer and its dependencies change.
NeverOlder == [][mounted' => view.at \subseteq view'.at]_vars

\* Once the effect has run, a component that is not loading shows rows of the
\* query it asks, never of the one it asked before.
ShowsItsQuery ==
    mounted /\ ~dirty /\ ~view.loading /\ ~view.error => view.query = asked

\* A transaction that went idle and was then reported as failed has changed
\* rows without a change event.
Unannounced == {o \in applied : phase[o] = "failed"}

\* When the application pauses the component shows what the store holds,
\* unless its last fetch failed or a change was never announced.
ViewSettles ==
    <>[](~mounted \/ view.error \/ Unannounced # {} \/ view.data = Result(asked))
=============================================================================
