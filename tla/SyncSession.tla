---------------------------- MODULE SyncSession ----------------------------
(***************************************************************************)
(* A session: the application connects and disconnects the database, the    *)
(* engines run cycles through the transport, and the network and the server *)
(* answer or fail to.  What the session promises.                            *)
(***************************************************************************)
EXTENDS EngineLifecycle

vars == <<transportVars, lifeVars>>

TypeOK == TransportTypeOK /\ LifeTypeOK

Init == TransportInit /\ LifeInit

EngineStep(e) ==
    \/ CycleCannotAsk(e) \/ CycleHears(e) \/ CycleCompletes(e)
    \/ \E r \in Request : CycleAsks(e, r)

TimerStep(e) == IntervalFires(e) \/ DebounceFires(e) \/ BackoffFires(e)

AppStep ==
    \/ \E e \in Engine, s \in Socket : DbConnect(e, s)
    \/ DbDisconnect \/ AppSync

DbStep ==
    \/ DbClosed \/ ConnectionChanges
    \/ \E e \in Engine : InitContinues(e) \/ OthersReady(e) \/ OthersFail(e)

NetworkStep == TransportStep /\ UNCHANGED lifeVars

Next ==
    \/ AppStep \/ DbStep
    \/ ServerPushes
    \/ \E e \in Engine :
          EngineStep(e) \/ TimerStep(e) \/ OtherTabWrites(e) \/ CycleThrows(e)
    \/ NetworkStep

Spec == Init /\ [][Next]_vars

\* Armed timers fire, a socket that is closing closes, and continuations run.
\* Nothing makes the application, the other tabs, the later plugins, the server
\* or the network do anything.
Fairness ==
    /\ WF_vars(DbClosed)
    /\ \A e \in Engine :
          /\ WF_vars(InitContinues(e)) /\ WF_vars(EngineStep(e))
          /\ WF_vars(IntervalFires(e)) /\ WF_vars(DebounceFires(e))
          /\ WF_vars(BackoffFires(e))
    /\ \A s \in Socket :
          /\ WF_vars(DialTimesOut(s) /\ UNCHANGED lifeVars)
          /\ WF_vars(socket[s] = "closing" /\ SocketCloses(s) /\ UNCHANGED lifeVars)
    /\ WF_vars((\E s \in Socket : Redial(s)) /\ UNCHANGED lifeVars)
    /\ \A r \in Request : WF_vars(RequestTimesOut(r) /\ UNCHANGED lifeVars)

FairSpec == Spec /\ Fairness

-----------------------------------------------------------------------------
\* The transport never has two sockets: neither a reconnection nor a timer
\* outlives the disconnect or the close that made it pointless (unless a
\* connect replaced an engine that was still in use: `orphaned`).
OneSocket ==
    ~orphaned => Cardinality({s \in heard : socket[s] # "free"}) <= 1

\* A request awaits an answer only while the socket it was sent on is open:
\* dropping or leaving the connection settles every request.
PendingIsOnOpenSocket ==
    ~orphaned => \A i \in Request :
        pending[i] # None => Sendable /\ wire[pending[i]] \in {ws, None}

\* After disconnect() nothing of the transport is left to act.
DisconnectedIsQuiet ==
    ~shouldReconnect /\ ~orphaned =>
        /\ redials = 0 /\ dialing = {} /\ heard = {}
        /\ \A i \in Request : pending[i] = None

\* A request is settled by the answer to it or by nothing: an answer that comes
\* after the timeout is not taken for the answer to a later request.
AnswersItsRequest ==
    [][ \A r \in Request :
          outcome[r] = "waiting" /\ outcome'[r] = "ok" =>
              wire[r] # None /\ wire'[r] = None ]_vars

\* When the server stays out of reach the engine stops backing off: the
\* circuit breaker opens and stays open, whatever timers were armed before
\* (a new connect of the database starts with a new engine and a new count).
BreakerOpens ==
    <>[](~Sendable /\ \A e \in Engine : phase[e] # "connecting") => <>[](backoff = {})

\* An engine's init always gets past the transport, connected or not, unless
\* the engine is destroyed under it or another connect runs beside it: then it
\* may never end (ConnectEnds).
InitEnds ==
    \A e \in Engine :
        dialled[e] # None ~> dialled[e] = None \/ phase[e] = "destroyed" \/ orphaned

\* Every cycle ends: no request is awaited for ever.
CycleEnds == \A e \in Engine : cycle[e] # "idle" ~> cycle[e] = "idle"

\* What another tab or the server announced is followed by a cycle that starts
\* after it, even if the announcement came in the middle of a cycle.
TriggerHonoured == \A e \in Engine : e \in owed ~> e \notin owed

\* A transport that is wanted connects, or gives up after its last attempt.
Reconnects ==
    []<>( connected \/ ~shouldReconnect \/ ws = None
          \/ attempts = MaxReconnectAttempts )

-----------------------------------------------------------------------------
\* "Stops the auto-sync interval, backoff/debounce timers and the
\* BroadcastChannel [...] Without this the engine outlived db.disconnect()"
\* (sync-plugin.ts): but a cycle that fails after destroy arms the backoff.
DisconnectStopsEngines ==
    ~orphaned /\ Live = {} => interval \cup debounce \cup backoff \cup listening = {}

\* connect() "rejects on connection timeout" (tests/unit/sync/ws-transport.test.ts)
\* and in onclose, where "rejection/cleanup happens" (ws-transport.ts): but a
\* teardown while init awaits the socket takes the timer and the handlers away
\* without settling the wait, and connect() never returns.
ConnectEnds == \A e \in Engine : dialled[e] # None ~> dialled[e] = None
=============================================================================
