-------------------------- MODULE EngineLifecycle --------------------------
(***************************************************************************)
(* The life of sync engines (sync/sync-engine.ts, sync/sync-plugin.ts):     *)
(* every db.connect() makes an engine, which connects the transport, starts *)
(* its interval and listens for triggers; a cycle is started by a timer, a  *)
(* trigger or the application; a failed one is tried again after a backoff; *)
(* db.disconnect() destroys the engine, and so does the upgrade of the       *)
(* database by another tab, whatever the engine is doing.  What a cycle does *)
(* to the data is in SyncEngine; here it is a few requests.                  *)
(***************************************************************************)
EXTENDS WsTransport

CONSTANTS
    Engine,                  \* engine objects, one per db.connect()
    CircuitBreakerThreshold, \* CIRCUIT_BREAKER_THRESHOLD
    RequestsPerCycle         \* bound of the model: requests of one cycle

ASSUME LifecycleAssumption ==
    /\ None \notin Engine
    /\ CircuitBreakerThreshold \in Nat
    /\ RequestsPerCycle \in Nat \ {0}

VARIABLES
    db,         \* #connected: "closed" (not), "open", "closing" (disconnect runs)
    opening,    \* the engines whose db.connect() has not settled
    current,    \* the engine the plugin refers to, or None
    phase,      \* [Engine -> Phase]
    dialled,    \* [Engine -> Socket \cup {None}], the open its init awaits
    interval,   \* the engines whose autoSync interval runs
    debounce,   \* the engines whose debounce timer is armed
    backoff,    \* the engines whose backoff timer is armed
    listening,  \* the engines whose BroadcastChannel is open
    onPush,     \* #onServerPush: the engine that gets server pushes, or None
    cycle,      \* [Engine -> Cycle]
    left,       \* [Engine -> Nat], the requests its cycle may still make
    asked,      \* [Engine -> Request \cup {None}], the request it awaits
    failures,   \* [Engine -> Nat], #consecutiveFailures
    owed,       \* the engines triggered since they last started a cycle
    orphaned    \* whether a connect ever replaced an engine still in use

timerVars == <<interval, debounce, backoff>>
cycleVars == <<cycle, left, asked, failures>>
dbVars == <<db, opening, current, phase, dialled, listening, onPush, orphaned>>
lifeVars == <<dbVars, timerVars, cycleVars, owed>>

Phase == {"new", "connecting", "ready", "destroyed"}
Cycle == {"idle", "working", "waiting"}

LifeTypeOK ==
    /\ db \in {"closed", "open", "closing"}
    /\ opening \in SUBSET Engine
    /\ current \in Engine \cup {None}
    /\ phase \in [Engine -> Phase]
    /\ dialled \in [Engine -> Socket \cup {None}]
    /\ interval \in SUBSET Engine
    /\ debounce \in SUBSET Engine
    /\ backoff \in SUBSET Engine
    /\ listening \in SUBSET Engine
    /\ onPush \in Engine \cup {None}
    /\ cycle \in [Engine -> Cycle]
    /\ left \in [Engine -> 0..RequestsPerCycle]
    /\ asked \in [Engine -> Request \cup {None}]
    /\ failures \in [Engine -> 0..CircuitBreakerThreshold]
    /\ owed \in SUBSET Engine
    /\ orphaned \in BOOLEAN

LifeInit ==
    /\ db = "closed"
    /\ opening = {}
    /\ current = None
    /\ phase = [e \in Engine |-> "new"]
    /\ dialled = [e \in Engine |-> None]
    /\ interval = {} /\ debounce = {} /\ backoff = {} /\ listening = {}
    /\ onPush = None
    /\ cycle = [e \in Engine |-> "idle"]
    /\ left = [e \in Engine |-> 0]
    /\ asked = [e \in Engine |-> None]
    /\ failures = [e \in Engine |-> 0]
    /\ owed = {}
    /\ orphaned = FALSE

-----------------------------------------------------------------------------
\* Connecting and disconnecting the database.

\* An engine nobody can hear of any more stands for a new one.
Fresh(e) ==
    /\ \/ phase[e] = "new"
       \/ phase[e] = "destroyed" /\ cycle[e] = "idle" /\ e \notin opening
    /\ e \notin interval \cup debounce \cup backoff

\* An engine that uses the transport: made, and not destroyed.
Live == {e \in Engine : phase[e] \in {"connecting", "ready"}}

\* db.connect(), up to the engine's wait for the transport.  Nothing stops a
\* second call while the first is under way: the plugin then forgets the
\* engine of the first.
DbConnect(e, s) ==
    /\ db = "closed"
    /\ Fresh(e)
    /\ opening' = opening \cup {e}
    /\ current' = e
    /\ phase' = [phase EXCEPT ![e] = "connecting"]
    /\ dialled' = [dialled EXCEPT ![e] = s]
    /\ failures' = [failures EXCEPT ![e] = 0]
    /\ orphaned' = (orphaned \/ Live # {})
    /\ Connect(s)
    /\ UNCHANGED <<db, listening, onPush, timerVars, cycle, left, asked, owed>>

\* init goes on, connected or not: listen, then start the interval.
InitContinues(e) ==
    LET s == dialled[e] IN
    /\ phase[e] = "connecting"
    /\ promise[s] \in {"resolved", "rejected"}
    /\ promise' = [promise EXCEPT ![s] = "none"]
    /\ phase' = [phase EXCEPT ![e] = "ready"]
    /\ dialled' = [dialled EXCEPT ![e] = None]
    /\ listening' = listening \cup {e}
    /\ onPush' = e
    /\ interval' = interval \cup {e}
    /\ UNCHANGED <<db, opening, current, orphaned, debounce, backoff, cycleVars, owed,
                   socket, heard, ws, connected, shouldReconnect, attempts, waiter,
                   dialing, dialTimer, redials, redialTimer, requestVars>>

\* The later plugins are initialised: db.connect() ends, whatever has happened
\* to the engine in the meantime.
OthersReady(e) ==
    /\ e \in opening
    /\ dialled[e] = None
    /\ opening' = opening \ {e}
    /\ db' = IF db = "closing" THEN db ELSE "open"
    /\ UNCHANGED <<current, phase, dialled, listening, onPush, orphaned,
                   timerVars, cycleVars, owed, transportVars>>

\* One of them rejects: only the adapter is disconnected.
OthersFail(e) ==
    /\ e \in opening
    /\ dialled[e] = None
    /\ opening' = opening \ {e}
    /\ db' = IF db = "closing" THEN db ELSE "closed"
    /\ UNCHANGED <<current, phase, dialled, listening, onPush, orphaned,
                   timerVars, cycleVars, owed, transportVars>>

\* #stopAutoSync, #cancelBackoff, #clearDebounce
StopTimers(e) ==
    /\ interval' = interval \ {e}
    /\ backoff' = backoff \ {e}
    /\ debounce' = debounce \ {e}

\* destroy() of the plugin's engine.  A cycle it is in goes on; an init that
\* awaits the transport waits on.  (An init whose open has been settled has
\* gone on before anybody else runs.)
DestroyEngine ==
    /\ dialled[current] # None => promise[dialled[current]] = "waiting"
    /\ StopTimers(current)
    /\ listening' = listening \ {current}
    /\ onPush' = None
    /\ phase' = [phase EXCEPT ![current] = "destroyed"]
    /\ owed' = owed \ {current}
    /\ Disconnect
    /\ UNCHANGED <<opening, current, dialled, orphaned, cycleVars>>

\* db.disconnect()
DbDisconnect ==
    /\ db = "open"
    /\ db' = "closing"
    /\ DestroyEngine

DbClosed ==
    /\ db = "closing"
    /\ db' = "closed"
    /\ UNCHANGED <<opening, current, phase, dialled, listening, onPush, orphaned,
                   timerVars, cycleVars, owed, transportVars>>

\* Another tab upgrades the database (versionchange): the plugins are destroyed
\* at once, also those whose init is under way.  (Before init dials there is
\* nothing to destroy: it rejects, or dials as if nothing had happened.)
ConnectionChanges ==
    /\ db # "closing"
    /\ db = "open" \/ opening \cap Live # {}
    /\ db' = "closed"
    /\ DestroyEngine

-----------------------------------------------------------------------------
\* What starts a cycle.

\* sync(): does nothing while a cycle is under way.
StartCycle(e) ==
    IF cycle[e] = "idle"
    THEN /\ cycle' = [cycle EXCEPT ![e] = "working"]
         /\ left' = [left EXCEPT ![e] = RequestsPerCycle]
         /\ owed' = owed \ {e}
         /\ UNCHANGED <<asked, failures>>
    ELSE UNCHANGED <<cycleVars, owed>>

\* Mutant of IntervalFires: the interval is a timer that fires once.
IntervalFiresOnce(e) ==
    /\ e \in interval
    /\ interval' = interval \ {e}
    /\ StartCycle(e)
    /\ UNCHANGED <<dbVars, debounce, backoff, transportVars>>

IntervalFires(e) ==
    /\ e \in interval
    /\ StartCycle(e)
    /\ UNCHANGED <<dbVars, timerVars, transportVars>>

DebounceFires(e) ==
    /\ e \in debounce
    /\ debounce' = debounce \ {e}
    /\ StartCycle(e)
    /\ UNCHANGED <<dbVars, interval, backoff, transportVars>>

BackoffFires(e) ==
    /\ e \in backoff
    /\ backoff' = backoff \ {e}
    /\ StartCycle(e)
    /\ UNCHANGED <<dbVars, interval, debounce, transportVars>>

\* db.sync(), or the browser's online event: nobody checks that the database is
\* open, the plugin's last engine is used.
AppSync ==
    /\ current # None
    /\ StartCycle(current)
    /\ UNCHANGED <<dbVars, timerVars, transportVars>>

\* triggerSync: (re)arm the debounce timer.
Trigger(e) ==
    /\ debounce' = debounce \cup {e}
    /\ owed' = owed \cup {e}
    /\ UNCHANGED <<dbVars, interval, backoff, cycleVars, transportVars>>

\* Another tab announces a change.
OtherTabWrites(e) == e \in listening /\ Trigger(e)

\* The server announces a change.
ServerPushes ==
    /\ Sendable
    /\ ws \in heard
    /\ onPush # None
    /\ Trigger(onPush)

-----------------------------------------------------------------------------
\* The cycle, as far as the transport and the timers see it.

\* Mutant of CycleFails: the circuit breaker never opens.
CycleFailsForEver(e) ==
    /\ cycle' = [cycle EXCEPT ![e] = "idle"]
    /\ left' = [left EXCEPT ![e] = 0]
    /\ failures' = [failures EXCEPT ![e] = IF @ < CircuitBreakerThreshold THEN @ + 1 ELSE @]
    /\ backoff' = backoff \cup {e}
    /\ UNCHANGED <<owed, dbVars, interval, debounce>>

\* The catch of sync(): count the failure, back off below the threshold.
CycleFails(e) ==
    /\ cycle' = [cycle EXCEPT ![e] = "idle"]
    /\ left' = [left EXCEPT ![e] = 0]
    /\ failures' = [failures EXCEPT ![e] = IF @ < CircuitBreakerThreshold THEN @ + 1 ELSE @]
    /\ backoff' = IF failures[e] + 1 < CircuitBreakerThreshold
                  THEN backoff \cup {e} ELSE backoff
    /\ UNCHANGED <<owed, dbVars, interval, debounce>>

CycleAsks(e, r) ==
    /\ cycle[e] = "working"
    /\ left[e] > 0
    /\ Send(r)
    /\ cycle' = [cycle EXCEPT ![e] = "waiting"]
    /\ asked' = [asked EXCEPT ![e] = r]
    /\ left' = [left EXCEPT ![e] = @ - 1]
    /\ UNCHANGED <<failures, owed, dbVars, timerVars>>

\* #send throws: there is no open socket.
CycleCannotAsk(e) ==
    /\ cycle[e] = "working"
    /\ left[e] > 0
    /\ ~Sendable
    /\ CycleFails(e)
    /\ UNCHANGED <<asked, transportVars>>

\* The request is settled: go on, or give the cycle up.
CycleHears(e) ==
    LET r == asked[e] IN
    /\ cycle[e] = "waiting"
    /\ outcome[r] \in {"ok", "failed"}
    /\ outcome' = [outcome EXCEPT ![r] = "none"]
    /\ asked' = [asked EXCEPT ![e] = None]
    /\ \/ /\ outcome[r] = "ok"
          /\ cycle' = [cycle EXCEPT ![e] = "working"]
          /\ UNCHANGED <<left, failures, owed, dbVars, timerVars>>
       \/ outcome[r] = "failed" /\ CycleFails(e)
    /\ UNCHANGED <<pending, wire, socket, heard, dialVars>>

\* The last page has been pulled and applied.  The backoff timer, if one is
\* armed, stays armed.
CycleCompletes(e) ==
    /\ cycle[e] = "working"
    /\ left[e] < RequestsPerCycle
    /\ cycle' = [cycle EXCEPT ![e] = "idle"]
    /\ left' = [left EXCEPT ![e] = 0]
    /\ failures' = [failures EXCEPT ![e] = 0]
    /\ UNCHANGED <<asked, owed, dbVars, timerVars, transportVars>>

\* A step of the cycle of SyncEngine throws.
CycleThrows(e) ==
    /\ cycle[e] = "working"
    /\ CycleFails(e)
    /\ UNCHANGED <<asked, transportVars>>
=============================================================================
