---------------------------- MODULE SessionProofs ----------------------------
(***************************************************************************)
(* The websocket transport under the sync engines: one socket at a time,    *)
(* requests that wait only on an open one, nothing left after disconnect(), *)
(* and answers that reach the request they answer.  Proved for any number   *)
(* of sockets, requests, engines and attempts.                               *)
(***************************************************************************)
EXTENDS SyncSession, FiniteSetTheorems, TLAPS

-----------------------------------------------------------------------------
(* The inductive invariant. *)

\* A request is registered under its own id.
OwnId == \A i \in Request : pending[i] \in {i, None}

\* The timer #reconnectTimer holds is one of those that are armed.
TimerIsArmed == redialTimer => redials > 0

\* The transport listens to #ws and to nothing else, until that one closes.
HearsWs ==
    /\ heard \subseteq {ws}
    /\ ws # None /\ socket[ws] # "free" => ws \in heard

\* At most one connection timer is armed: the one #connectionTimer holds, of
\* the socket #ws, while that is connecting.
DialsWs ==
    /\ dialing \subseteq heard \cap {dialTimer}
    /\ \A s \in dialing : socket[s] = "connecting"

\* At most one reconnection is scheduled, and none beside a socket.
RedialsOnce ==
    /\ redials = IF redialTimer THEN 1 ELSE 0
    /\ redials > 0 => heard = {}

\* Nothing of the transport is left to act.
Quiet ==
    /\ ws = None
    /\ redials = 0 /\ dialing = {} /\ heard = {}
    /\ \A i \in Request : pending[i] = None

\* It is quiet while no engine uses it: before the first connect, and from the
\* end of an engine to the next connect.
QuietWhenUnused == Live = {} \/ ~shouldReconnect => Quiet

\* The plugin refers to the engine in use: destroying that one leaves none.
CurrentIsLive == Live \subseteq {current}

\* A request awaits an answer while the socket it was sent on is open.
AwaitsOpenSocket ==
    \A i \in Request : pending[i] # None => Sendable /\ wire[i] \in {ws, None}

\* What holds unless a connect has replaced an engine in use.
Orderly ==
    /\ HearsWs /\ DialsWs /\ RedialsOnce /\ AwaitsOpenSocket
    /\ QuietWhenUnused /\ CurrentIsLive

SessionInv ==
    /\ TypeOK
    /\ OwnId
    /\ TimerIsArmed
    /\ ~orphaned => Orderly

USE DEF vars, transportVars, dialVars, requestVars, lifeVars, dbVars, timerVars, cycleVars

-----------------------------------------------------------------------------
(* Types, and what holds whatever a connect has replaced. *)

Basics == TypeOK /\ OwnId /\ TimerIsArmed

LEMMA NetworkBasics ==
  ASSUME Basics, NetworkStep
  PROVE  Basics'
<1> USE TransportAssumption
    DEF Basics, TypeOK, OwnId, TimerIsArmed, TransportTypeOK, LifeTypeOK, SocketState,
        PromiseState, Outcome
<1>1. UNCHANGED lifeVars
  BY DEF NetworkStep
<1>2. ASSUME NEW s \in Socket, SocketOpens(s) PROVE Basics'
  BY <1>1, <1>2 DEF SocketOpens, ClearDialTimer, SettleWaiter
<1>3. ASSUME NEW s \in Socket, SocketCloses(s) PROVE Basics'
  <2>1. socket' \in [Socket -> SocketState] /\ heard' \in SUBSET Socket
    BY <1>3 DEF SocketCloses
  <2>2. wire' \in [Request -> Socket \cup {None}]
    BY <1>3 DEF SocketCloses
  <2>3. /\ attempts' \in 0..MaxReconnectAttempts /\ redials' \in Nat
        /\ redialTimer' \in BOOLEAN /\ TimerIsArmed'
    <3>1. ScheduleRedial \/ UNCHANGED <<attempts, redials, redialTimer>>
      BY <1>3 DEF SocketCloses
    <3>2. CASE UNCHANGED <<attempts, redials, redialTimer>>
      BY <3>2
    <3>3. CASE ScheduleRedial /\ attempts < MaxReconnectAttempts
      BY <3>3 DEF ScheduleRedial
    <3> QED BY <3>1, <3>2, <3>3 DEF ScheduleRedial
  <2>4. pending' \in [Request -> Request \cup {None}] /\ OwnId'
    BY <1>3 DEF SocketCloses, RejectAllPending
  <2>5. outcome' \in [Request -> Outcome]
    BY <1>3 DEF SocketCloses, RejectAllPending
  <2>6. /\ dialing' \in SUBSET Socket /\ dialTimer' \in Socket \cup {None}
        /\ connected' \in BOOLEAN /\ waiter' \in Socket \cup {None}
        /\ promise' \in [Socket -> PromiseState]
    <3>1. CASE s \in heard
      <4>1. ClearDialTimer /\ SettleWaiter("rejected") /\ connected' = FALSE
        BY <1>3, <3>1 DEF SocketCloses
      <4> QED BY <4>1 DEF ClearDialTimer, SettleWaiter
    <3>2. CASE s \notin heard
      BY <1>3, <3>2 DEF SocketCloses
    <3> QED BY <3>1, <3>2
  <2>7. UNCHANGED <<ws, shouldReconnect>>
    BY <1>3 DEF SocketCloses
  <2> QED BY <1>1, <2>1, <2>2, <2>3, <2>4, <2>5, <2>6, <2>7
<1>4. ASSUME NEW s \in Socket, DialTimesOut(s) PROVE Basics'
  BY <1>1, <1>4 DEF DialTimesOut, SettleWaiter
<1>5. ASSUME NEW s \in Socket, Redial(s) PROVE Basics'
  <2>1. redials' \in Nat /\ redialTimer' = FALSE
    BY <1>5 DEF Redial
  <2>2. /\ socket' \in [Socket -> SocketState] /\ heard' \in SUBSET Socket
        /\ ws' \in Socket /\ waiter' \in Socket /\ dialTimer' \in Socket
        /\ promise' \in [Socket -> PromiseState] /\ dialing' \in SUBSET Socket
    BY <1>5 DEF Redial, Open
  <2>3. UNCHANGED <<connected, shouldReconnect, attempts, requestVars>>
    BY <1>5 DEF Redial
  <2> QED BY <1>1, <2>1, <2>2, <2>3
<1>6. ASSUME NEW r \in Request, Answered(r) PROVE Basics'
  BY <1>1, <1>6 DEF Answered, IdOf
<1>7. ASSUME NEW r \in Request, RequestTimesOut(r) PROVE Basics'
  BY <1>1, <1>7 DEF RequestTimesOut, IdOf
<1> QED BY <1>2, <1>3, <1>4, <1>5, <1>6, <1>7 DEF NetworkStep, TransportStep

LEMMA DbBasics ==
  ASSUME Basics, AppStep \/ DbStep
  PROVE  Basics'
<1> USE TransportAssumption, LifecycleAssumption
    DEF Basics, TypeOK, OwnId, TimerIsArmed, TransportTypeOK, LifeTypeOK, SocketState,
        PromiseState, Outcome, Phase, Cycle
<1>1. ASSUME NEW e \in Engine, NEW s \in Socket, DbConnect(e, s) PROVE Basics'
  <2>1. TransportTypeOK' /\ OwnId' /\ TimerIsArmed'
    BY <1>1 DEF DbConnect, Connect, Open
  <2>2. orphaned' \in BOOLEAN
    BY <1>1 DEF DbConnect
  <2>3. /\ opening' \in SUBSET Engine /\ current' \in Engine
        /\ phase' \in [Engine -> Phase] /\ dialled' \in [Engine -> Socket \cup {None}]
        /\ failures' \in [Engine -> 0..CircuitBreakerThreshold]
    BY <1>1 DEF DbConnect
  <2>4. UNCHANGED <<db, listening, onPush, timerVars, cycle, left, asked, owed>>
    BY <1>1 DEF DbConnect
  <2> QED BY <2>1, <2>2, <2>3, <2>4
<1>2. CASE DbDisconnect \/ ConnectionChanges
  <2>0. DestroyEngine /\ db' \in {"closing", "closed"}
    BY <1>2 DEF DbDisconnect, ConnectionChanges
  <2>1. TransportTypeOK' /\ OwnId' /\ TimerIsArmed'
    <3>1. /\ redials' \in Nat /\ redialTimer' = FALSE /\ shouldReconnect' = FALSE
          /\ connected' = FALSE
      BY <2>0 DEF DestroyEngine, Disconnect, CancelRedial
    <3>2. dialing' \in SUBSET Socket /\ dialTimer' = None
      BY <2>0 DEF DestroyEngine, Disconnect, ClearDialTimer
    <3>3. outcome' \in [Request -> Outcome] /\ pending' = [i \in Request |-> None]
      BY <2>0 DEF DestroyEngine, Disconnect, RejectAllPending
    <3>4. /\ socket' \in [Socket -> SocketState] /\ heard' \in SUBSET Socket
          /\ ws' \in Socket \cup {None}
      BY <2>0 DEF DestroyEngine, Disconnect
    <3>5. UNCHANGED <<attempts, waiter, promise, wire>>
      BY <2>0 DEF DestroyEngine, Disconnect
    <3> QED BY <3>1, <3>2, <3>3, <3>4, <3>5
  <2>2. LifeTypeOK'
    BY <2>0 DEF DestroyEngine, StopTimers
  <2> QED BY <2>1, <2>2
<1>3. CASE AppSync
  BY <1>3 DEF AppSync, StartCycle
<1>4. ASSUME DbClosed \/ \E e \in Engine : OthersReady(e) \/ OthersFail(e) PROVE Basics'
  <2>1. /\ db' \in {"closed", "open", "closing"} /\ opening' \in SUBSET Engine
        /\ UNCHANGED <<current, phase, dialled, listening, onPush, orphaned, timerVars,
                       cycleVars, owed, transportVars>>
    BY <1>4 DEF DbClosed, OthersReady, OthersFail
  <2> QED BY <2>1
<1>5. ASSUME NEW e \in Engine, InitContinues(e) PROVE Basics'
  <2>1. /\ phase' \in [Engine -> Phase]
        /\ dialled' \in [Engine -> Socket \cup {None}]
        /\ listening' \in SUBSET Engine /\ onPush' \in Engine /\ interval' \in SUBSET Engine
    BY <1>5 DEF InitContinues
  <2>2. promise' \in [Socket -> PromiseState]
    BY <1>5 DEF InitContinues
  <2>3. UNCHANGED <<db, opening, current, orphaned, debounce, backoff, cycleVars, owed, socket, heard, ws,
                    connected, shouldReconnect, attempts, waiter, dialing, dialTimer, redials,
                    redialTimer, requestVars>>
    BY <1>5 DEF InitContinues
  <2> QED BY <2>1, <2>2, <2>3
<1> QED BY <1>1, <1>2, <1>3, <1>4, <1>5 DEF AppStep, DbStep

LEMMA CycleBasics ==
  ASSUME Basics, NEW e \in Engine,
         EngineStep(e) \/ TimerStep(e) \/ OtherTabWrites(e) \/ CycleThrows(e) \/ ServerPushes
  PROVE  Basics'
<1> USE TransportAssumption, LifecycleAssumption
    DEF Basics, TypeOK, OwnId, TimerIsArmed, TransportTypeOK, LifeTypeOK, Outcome, Phase, Cycle
<1>1. CASE TimerStep(e)
  BY <1>1 DEF TimerStep, IntervalFires, DebounceFires, BackoffFires, StartCycle
<1>2. CASE OtherTabWrites(e) \/ ServerPushes
  BY <1>2 DEF OtherTabWrites, ServerPushes, Trigger
<1>3. CASE CycleThrows(e) \/ CycleCannotAsk(e)
  BY <1>3 DEF CycleThrows, CycleCannotAsk, CycleFails
<1>4. CASE CycleHears(e)
  <2>1. /\ outcome' \in [Request -> Outcome] /\ asked' \in [Engine -> Request \cup {None}]
        /\ UNCHANGED <<pending, wire, socket, heard, dialVars>>
    BY <1>4 DEF CycleHears
  <2>2. /\ cycle' \in [Engine -> Cycle] /\ left' \in [Engine -> 0..RequestsPerCycle]
        /\ failures' \in [Engine -> 0..CircuitBreakerThreshold] /\ backoff' \in SUBSET Engine
        /\ UNCHANGED <<owed, dbVars, interval, debounce>>
    BY <1>4 DEF CycleHears, CycleFails
  <2> QED BY <2>1, <2>2
<1>5. CASE CycleCompletes(e)
  BY <1>5 DEF CycleCompletes
<1>6. ASSUME NEW r \in Request, CycleAsks(e, r) PROVE Basics'
  BY <1>6 DEF CycleAsks, Send, Sendable, IdOf
<1> QED BY <1>1, <1>2, <1>3, <1>4, <1>5, <1>6 DEF EngineStep

LEMMA BasicsNext == Basics /\ [Next]_vars => Basics'
<1> SUFFICES ASSUME Basics, [Next]_vars PROVE Basics'
  OBVIOUS
<1>1. CASE UNCHANGED vars
  BY <1>1 DEF Basics, TypeOK, OwnId, TimerIsArmed, TransportTypeOK, LifeTypeOK
<1>2. CASE ServerPushes
  <2>1. onPush \in Engine
    BY <1>2 DEF ServerPushes, Basics, TypeOK, LifeTypeOK
  <2> QED BY <1>2, <2>1, CycleBasics
<1> QED BY <1>1, <1>2, NetworkBasics, DbBasics, CycleBasics DEF Next

-----------------------------------------------------------------------------
(* The order of a session no connect of which replaced an engine in use. *)

OrderlyInv == Basics /\ Orderly

\* What the environment does to the transport, the engines staying as they are.
LEMMA NetworkOrderly ==
  ASSUME OrderlyInv, NetworkStep
  PROVE  Orderly'
<1> USE TransportAssumption
    DEF OrderlyInv, Basics, TypeOK, OwnId, TimerIsArmed, TransportTypeOK
<1>0. Live' = Live /\ CurrentIsLive'
  BY DEF NetworkStep, Live, Orderly, CurrentIsLive
<1>1. ASSUME NEW s \in Socket, SocketOpens(s) PROVE Orderly'
  <2>1. ws = s /\ heard = {s} /\ socket[s] = "connecting" /\ redials = 0 /\ ~redialTimer
    BY <1>1 DEF SocketOpens, Orderly, HearsWs, RedialsOnce
  <2>2. \A i \in Request : pending[i] = None
    BY <2>1 DEF Orderly, AwaitsOpenSocket, Sendable
  <2>3. dialing' = {} /\ pending' = pending
    BY <1>1, <2>1 DEF SocketOpens, ClearDialTimer, Orderly, DialsWs
  <2>4. UNCHANGED <<heard, ws, shouldReconnect, redials, redialTimer>>
    BY <1>1 DEF SocketOpens
  <2>5. HearsWs' /\ DialsWs' /\ RedialsOnce'
    BY <2>1, <2>3, <2>4 DEF HearsWs, DialsWs, RedialsOnce
  <2>6. AwaitsOpenSocket'
    BY <2>2, <2>3 DEF AwaitsOpenSocket
  <2>7. QuietWhenUnused'
    BY <1>0, <2>1, <2>4 DEF Orderly, QuietWhenUnused, Quiet
  <2> QED BY <1>0, <2>5, <2>6, <2>7 DEF Orderly
<1>2. ASSUME NEW s \in Socket, SocketCloses(s), s \in heard PROVE Orderly'
  <2>1. ws = s /\ heard = {s} /\ redials = 0 /\ ~redialTimer
    BY <1>2 DEF Orderly, HearsWs, RedialsOnce
  <2>2. Live # {} /\ shouldReconnect
    BY <2>1 DEF Orderly, QuietWhenUnused, Quiet
  <2>3. heard' = {} /\ socket'[s] = "free" /\ ws' = ws /\ shouldReconnect' = shouldReconnect
    BY <1>2, <2>1 DEF SocketCloses
  <2>4. dialing' = {} /\ pending' = [i \in Request |-> None]
    BY <1>2, <2>1 DEF SocketCloses, ClearDialTimer, RejectAllPending, Orderly, DialsWs
  <2>5. RedialsOnce'
    <3>1. ScheduleRedial
      BY <1>2, <2>2 DEF SocketCloses
    <3>2. \/ redials' = 1 /\ redialTimer' = TRUE
          \/ redials' = 0 /\ redialTimer' = redialTimer
      BY <2>1, <3>1 DEF ScheduleRedial
    <3> QED BY <2>1, <2>3, <3>2 DEF RedialsOnce
  <2>6. HearsWs' /\ DialsWs'
    BY <2>1, <2>3, <2>4 DEF HearsWs, DialsWs
  <2>7. AwaitsOpenSocket' /\ QuietWhenUnused'
    BY <1>0, <2>2, <2>3, <2>4 DEF AwaitsOpenSocket, QuietWhenUnused
  <2> QED BY <1>0, <2>5, <2>6, <2>7 DEF Orderly
<1>3. ASSUME NEW s \in Socket, SocketCloses(s), s \notin heard PROVE Orderly'
  <2>1. UNCHANGED <<dialing, dialTimer, redials, redialTimer, pending, ws, shouldReconnect>>
    BY <1>3 DEF SocketCloses
  <2>2. heard' = heard /\ socket' = [socket EXCEPT ![s] = "free"] /\ socket[s] # "free"
    BY <1>3 DEF SocketCloses
  <2>3. s # ws
    BY <1>3, <2>2 DEF Orderly, HearsWs
  <2>4. \A r \in Request : wire'[r] \in {wire[r], None}
    BY <1>3 DEF SocketCloses
  <2>5. HearsWs' /\ DialsWs' /\ RedialsOnce'
    BY <1>3, <2>1, <2>2, <2>3 DEF Orderly, HearsWs, DialsWs, RedialsOnce
  <2>6. AwaitsOpenSocket'
    BY <2>1, <2>2, <2>3, <2>4 DEF Orderly, AwaitsOpenSocket, Sendable
  <2>7. QuietWhenUnused'
    BY <1>0, <2>1, <2>2 DEF Orderly, QuietWhenUnused, Quiet
  <2> QED BY <1>0, <2>5, <2>6, <2>7 DEF Orderly
<1>4. ASSUME NEW s \in Socket, DialTimesOut(s) PROVE Orderly'
  <2>1. ws = s /\ heard = {s} /\ socket[s] = "connecting" /\ redials = 0 /\ ~redialTimer
    BY <1>4 DEF DialTimesOut, Orderly, HearsWs, DialsWs, RedialsOnce
  <2>2. \A i \in Request : pending[i] = None
    BY <2>1 DEF Orderly, AwaitsOpenSocket, Sendable
  <2>3. dialing' = {} /\ pending' = pending
    BY <1>4, <2>1 DEF DialTimesOut, Orderly, DialsWs
  <2>4. UNCHANGED <<heard, ws, shouldReconnect, redials, redialTimer>>
    BY <1>4 DEF DialTimesOut
  <2>5. HearsWs' /\ DialsWs' /\ RedialsOnce'
    BY <2>1, <2>3, <2>4 DEF HearsWs, DialsWs, RedialsOnce
  <2>6. AwaitsOpenSocket'
    BY <2>2, <2>3 DEF AwaitsOpenSocket
  <2>7. QuietWhenUnused'
    BY <1>0, <2>1, <2>4 DEF Orderly, QuietWhenUnused, Quiet
  <2> QED BY <1>0, <2>5, <2>6, <2>7 DEF Orderly
<1>5. ASSUME NEW s \in Socket, Redial(s) PROVE Orderly'
  <2>1. redials = 1 /\ redials' = 0 /\ redialTimer' = FALSE /\ heard = {} /\ dialing = {}
    BY <1>5 DEF Redial, Orderly, RedialsOnce, DialsWs
  <2>2. \A i \in Request : pending[i] = None
    BY <2>1 DEF Orderly, HearsWs, AwaitsOpenSocket, Sendable
  <2>3. /\ ws' = s /\ heard' = {s} /\ socket'[s] = "connecting" /\ dialing' = {s}
        /\ dialTimer' = s /\ pending' = pending /\ shouldReconnect' = shouldReconnect
    BY <1>5, <2>1 DEF Redial, Open
  <2>4. Live # {} /\ shouldReconnect
    BY <2>1 DEF Orderly, QuietWhenUnused, Quiet
  <2>5. HearsWs' /\ DialsWs'
    BY <2>3 DEF HearsWs, DialsWs
  <2>6. RedialsOnce'
    BY <2>1 DEF RedialsOnce
  <2>7. AwaitsOpenSocket' /\ QuietWhenUnused'
    BY <1>0, <2>2, <2>3, <2>4 DEF AwaitsOpenSocket, QuietWhenUnused
  <2> QED BY <1>0, <2>5, <2>6, <2>7 DEF Orderly
<1>6. ASSUME NEW r \in Request, Answered(r) \/ RequestTimesOut(r) PROVE Orderly'
  <2>1. UNCHANGED <<socket, heard, dialVars>>
    BY <1>6 DEF Answered, RequestTimesOut
  <2>2. \A i \in Request : pending'[i] \in {pending[i], None} /\ wire'[i] \in {wire[i], None}
    BY <1>6 DEF Answered, RequestTimesOut, IdOf
  <2>3. HearsWs' /\ DialsWs' /\ RedialsOnce'
    BY <2>1 DEF Orderly, HearsWs, DialsWs, RedialsOnce
  <2>4. AwaitsOpenSocket'
    BY <2>1, <2>2 DEF Orderly, AwaitsOpenSocket, Sendable
  <2>5. QuietWhenUnused'
    BY <1>0, <2>1, <2>2 DEF Orderly, QuietWhenUnused, Quiet
  <2> QED BY <1>0, <2>3, <2>4, <2>5 DEF Orderly
<1> QED BY <1>1, <1>2, <1>3, <1>4, <1>5, <1>6 DEF NetworkStep, TransportStep

\* A new connect of the database: the transport opens its only socket.
LEMMA ConnectOrderly ==
  ASSUME OrderlyInv, NEW e \in Engine, NEW s \in Socket, DbConnect(e, s), ~orphaned'
  PROVE  Orderly'
<1> USE TransportAssumption
    DEF OrderlyInv, Basics, TypeOK, OwnId, TimerIsArmed, TransportTypeOK
<1>1. Quiet /\ Live' = {e} /\ current' = e
  <2>1. Live = {}
    BY DEF DbConnect
  <2>2. Live' = {e}
    BY <2>1 DEF DbConnect, Live, LifeTypeOK
  <2> QED BY <2>1, <2>2 DEF DbConnect, Orderly, QuietWhenUnused
<1>2. /\ ws' = s /\ heard' = {s} /\ socket'[s] = "connecting" /\ dialing' = {s}
      /\ dialTimer' = s /\ pending' = pending /\ shouldReconnect' = TRUE
      /\ UNCHANGED <<redials, redialTimer>>
  BY <1>1 DEF DbConnect, Connect, Open, Quiet
<1>3. HearsWs' /\ DialsWs' /\ RedialsOnce'
  BY <1>1, <1>2 DEF HearsWs, DialsWs, RedialsOnce, Orderly, Quiet
<1>4. AwaitsOpenSocket' /\ QuietWhenUnused' /\ CurrentIsLive'
  BY <1>1, <1>2 DEF AwaitsOpenSocket, QuietWhenUnused, CurrentIsLive, Quiet
<1> QED BY <1>3, <1>4 DEF Orderly

\* destroy(): everything the transport could still do is cancelled.
LEMMA DestroyOrderly ==
  ASSUME OrderlyInv, DestroyEngine
  PROVE  Orderly'
<1> USE TransportAssumption
    DEF OrderlyInv, Basics, TypeOK, OwnId, TimerIsArmed, TransportTypeOK
<1>1. Disconnect /\ Live' = {}
  BY DEF DestroyEngine, Live, LifeTypeOK, Orderly, CurrentIsLive
<1>2. ws' = None /\ heard' = {}
  BY <1>1 DEF Disconnect, Orderly, HearsWs
<1>3. redials' = 0 /\ redialTimer' = FALSE
  BY <1>1 DEF Disconnect, CancelRedial, Orderly, RedialsOnce
<1>4. dialing' = {} /\ pending' = [i \in Request |-> None]
  BY <1>1 DEF Disconnect, ClearDialTimer, RejectAllPending, Orderly, DialsWs
<1>5. Quiet'
  BY <1>2, <1>3, <1>4 DEF Quiet
<1>6. HearsWs' /\ DialsWs' /\ RedialsOnce'
  BY <1>2, <1>3, <1>4 DEF HearsWs, DialsWs, RedialsOnce
<1>7. AwaitsOpenSocket' /\ QuietWhenUnused' /\ CurrentIsLive'
  BY <1>1, <1>4, <1>5 DEF AwaitsOpenSocket, QuietWhenUnused, CurrentIsLive
<1> QED BY <1>6, <1>7 DEF Orderly

\* A request is made while the socket is open.
LEMMA SendOrderly ==
  ASSUME OrderlyInv, NEW e \in Engine, NEW r \in Request, CycleAsks(e, r)
  PROVE  Orderly'
<1> USE TransportAssumption
    DEF OrderlyInv, Basics, TypeOK, OwnId, TimerIsArmed, TransportTypeOK
<1>1. Sendable /\ UNCHANGED <<socket, heard, dialVars, phase, current>>
  BY DEF CycleAsks, Send
<1>2. \A i \in Request : \/ i = r /\ wire'[i] = ws
                         \/ pending'[i] = pending[i] /\ wire'[i] = wire[i]
  BY DEF CycleAsks, Send, IdOf
<1>3. HearsWs' /\ DialsWs' /\ RedialsOnce'
  BY <1>1 DEF Orderly, HearsWs, DialsWs, RedialsOnce
<1>4. AwaitsOpenSocket'
  BY <1>1, <1>2 DEF Orderly, AwaitsOpenSocket, Sendable
<1>5. QuietWhenUnused' /\ CurrentIsLive'
  BY <1>1 DEF Orderly, QuietWhenUnused, CurrentIsLive, Live, Quiet, Sendable
<1> QED BY <1>3, <1>4, <1>5 DEF Orderly

LEMMA OrderlyNext ==
  ASSUME OrderlyInv, [Next]_vars, ~orphaned'
  PROVE  Orderly'
<1>1. ASSUME UNCHANGED <<socket, heard, ws, shouldReconnect, dialing, dialTimer, redials,
                         redialTimer, pending, wire, current>>,
             Live' = Live
      PROVE  Orderly'
  <2>1. HearsWs' /\ DialsWs' /\ RedialsOnce' /\ AwaitsOpenSocket'
    BY <1>1 DEF OrderlyInv, Orderly, HearsWs, DialsWs, RedialsOnce, AwaitsOpenSocket, Sendable
  <2>2. QuietWhenUnused' /\ CurrentIsLive'
    BY <1>1 DEF OrderlyInv, Orderly, QuietWhenUnused, CurrentIsLive, Quiet
  <2> QED BY <2>1, <2>2 DEF Orderly
<1>2. ASSUME DbClosed \/ \E e \in Engine : OthersReady(e) \/ OthersFail(e) PROVE Orderly'
  BY <1>1, <1>2 DEF DbClosed, OthersReady, OthersFail, Live
<1>3. ASSUME NEW e \in Engine, InitContinues(e) PROVE Orderly'
  <2>1. Live' = Live
    BY <1>3 DEF InitContinues, Live, OrderlyInv, Basics, TypeOK, LifeTypeOK
  <2> QED BY <1>1, <1>3, <2>1 DEF InitContinues
<1>4. CASE ServerPushes \/ AppSync
  BY <1>1, <1>4 DEF ServerPushes, Trigger, AppSync, Live
<1>5. ASSUME NEW e \in Engine,
             \/ TimerStep(e) \/ OtherTabWrites(e) \/ CycleThrows(e)
             \/ CycleCannotAsk(e) \/ CycleHears(e) \/ CycleCompletes(e)
      PROVE  Orderly'
  BY <1>1, <1>5
     DEF Live, TimerStep, IntervalFires, DebounceFires, BackoffFires, OtherTabWrites, Trigger,
         CycleThrows, CycleCannotAsk, CycleHears, CycleCompletes, CycleFails
<1>6. CASE DbDisconnect \/ ConnectionChanges
  BY <1>6, DestroyOrderly DEF DbDisconnect, ConnectionChanges
<1>7. CASE UNCHANGED vars
  BY <1>1, <1>7 DEF Live
<1> QED
  BY <1>2, <1>3, <1>4, <1>5, <1>6, <1>7, NetworkOrderly, ConnectOrderly, SendOrderly
     DEF Next, AppStep, DbStep, EngineStep

-----------------------------------------------------------------------------
LEMMA SessionInit == Init => SessionInv
<1> SUFFICES ASSUME Init PROVE SessionInv
  OBVIOUS
<1> USE TransportAssumption, LifecycleAssumption DEF Init, TransportInit, LifeInit
<1>1. TransportTypeOK
  <2>1. connected \in BOOLEAN /\ shouldReconnect \in BOOLEAN /\ redialTimer \in BOOLEAN
    OBVIOUS
  <2>2. /\ socket \in [Socket -> SocketState] /\ promise \in [Socket -> PromiseState]
        /\ outcome \in [Request -> Outcome]
    BY DEF SocketState, PromiseState, Outcome
  <2>3. /\ heard \in SUBSET Socket /\ dialing \in SUBSET Socket
        /\ ws \in Socket \cup {None} /\ waiter \in Socket \cup {None}
        /\ dialTimer \in Socket \cup {None}
    OBVIOUS
  <2>4. /\ attempts \in 0..MaxReconnectAttempts /\ redials \in Nat
    OBVIOUS
  <2>5. /\ pending \in [Request -> Request \cup {None}]
        /\ wire \in [Request -> Socket \cup {None}]
    OBVIOUS
  <2> QED BY <2>1, <2>2, <2>3, <2>4, <2>5 DEF TransportTypeOK
<1>2. LifeTypeOK
  <2>1. orphaned \in BOOLEAN
    OBVIOUS
  <2>2. /\ phase \in [Engine -> Phase] /\ cycle \in [Engine -> Cycle]
        /\ dialled \in [Engine -> Socket \cup {None}]
        /\ asked \in [Engine -> Request \cup {None}]
    BY DEF Phase, Cycle
  <2>3. /\ left \in [Engine -> 0..RequestsPerCycle]
        /\ failures \in [Engine -> 0..CircuitBreakerThreshold]
    OBVIOUS
  <2> QED BY <2>1, <2>2, <2>3 DEF LifeTypeOK
<1>3. OwnId /\ TimerIsArmed
  BY DEF OwnId, TimerIsArmed
<1>4. Orderly
  BY DEF Orderly, HearsWs, DialsWs, RedialsOnce, QuietWhenUnused, Quiet, AwaitsOpenSocket,
         CurrentIsLive, Live
<1> QED BY <1>1, <1>2, <1>3, <1>4 DEF SessionInv, TypeOK

LEMMA SessionNext == SessionInv /\ [Next]_vars => SessionInv'
<1> SUFFICES ASSUME SessionInv, [Next]_vars PROVE SessionInv'
  OBVIOUS
<1>1. Basics'
  BY BasicsNext DEF SessionInv, Basics
<1>2. orphaned => orphaned'
  BY DEF SessionInv, TypeOK, LifeTypeOK, Next, AppStep, DbStep, NetworkStep, DbConnect, DbDisconnect,
         ConnectionChanges, DestroyEngine, DbClosed, OthersReady, InitContinues, OthersFail, AppSync, ServerPushes, Trigger,
         EngineStep, TimerStep, IntervalFires, DebounceFires, BackoffFires, OtherTabWrites,
         CycleThrows, CycleFails, CycleCannotAsk, CycleHears, CycleCompletes, CycleAsks
<1>3. ~orphaned' => Orderly'
  BY <1>2, OrderlyNext DEF SessionInv, OrderlyInv, Basics
<1> QED BY <1>1, <1>3 DEF SessionInv, Basics

\* The inductive invariant holds in every reachable state, types included.
THEOREM SessionInvHolds == Spec => []SessionInv
  BY SessionInit, SessionNext, PTL DEF Spec

\* The transport has at most one socket in use: open, scheduleReconnect,
\* the connection timer and disconnect never leave two of them behind, unless a
\* connect of the database has replaced an engine in use (`orphaned`).
THEOREM TransportHasOneSocket == Spec => []OneSocket
<1>1. SessionInv => OneSocket
  <2> SUFFICES ASSUME SessionInv, ~orphaned
               PROVE  Cardinality({s \in heard : socket[s] # "free"}) <= 1
    BY DEF OneSocket
  <2> DEFINE used == {s \in heard : socket[s] # "free"}
  <2>1. used \subseteq {ws}
    BY DEF SessionInv, Orderly, HearsWs
  <2>2. used = {} \/ used = {ws}
    BY <2>1
  <2>3. Cardinality(used) = 0 \/ Cardinality(used) = 1
    BY <2>2, FS_EmptySet, FS_Singleton
  <2> QED BY <2>3
<1> QED BY <1>1, SessionInvHolds, PTL

\* A request awaits its answer only while the socket it was sent on is open:
\* onclose and disconnect reject every pending request, and no reconnection
\* begins while one is pending.  (Unless `orphaned`.)
THEOREM RequestsWaitOnOpenSocket == Spec => []PendingIsOnOpenSocket
<1>1. SessionInv => PendingIsOnOpenSocket
  BY TransportAssumption
     DEF SessionInv, OwnId, Orderly, AwaitsOpenSocket, PendingIsOnOpenSocket
<1> QED BY <1>1, SessionInvHolds, PTL

\* After disconnect() no timer, socket or request of the transport is left.
\* (Unless `orphaned`.)
THEOREM DisconnectLeavesNothing == Spec => []DisconnectedIsQuiet
<1>1. SessionInv => DisconnectedIsQuiet
  BY DEF SessionInv, Orderly, QuietWhenUnused, Quiet, DisconnectedIsQuiet
<1> QED BY <1>1, SessionInvHolds, PTL

\* A request resolves only by the answer to it: handleMessage looks up the id
\* of the answer, and an answer after the timeout finds nothing.
THEOREM AnswersReachTheirRequest == Spec => AnswersItsRequest
<1>1. ASSUME SessionInv, [Next]_vars, NEW r \in Request,
             outcome[r] = "waiting", outcome'[r] = "ok"
      PROVE  wire[r] # None /\ wire'[r] = None
  <2>0. /\ outcome \in [Request -> Outcome] /\ wire \in [Request -> Socket \cup {None}]
        /\ OwnId
    BY <1>1 DEF SessionInv, TypeOK, TransportTypeOK
  <2>1. ~RejectAllPending /\ outcome' # outcome
    BY <1>1, <2>0 DEF RejectAllPending
  <2>2. \A s \in Socket :
            ~SocketOpens(s) /\ ~SocketCloses(s) /\ ~DialTimesOut(s) /\ ~Redial(s)
    BY <1>1, <2>1 DEF SocketOpens, SocketCloses, DialTimesOut, Redial
  <2>3. ~AppStep /\ ~DbStep /\ ~ServerPushes
    BY <2>1 DEF AppStep, DbConnect, Connect, DbDisconnect, ConnectionChanges, DestroyEngine,
                Disconnect, AppSync, DbStep, DbClosed, OthersReady, InitContinues, OthersFail, ServerPushes, Trigger
  <2>4. ASSUME NEW e \in Engine
        PROVE  ~EngineStep(e) /\ ~TimerStep(e) /\ ~OtherTabWrites(e) /\ ~CycleThrows(e)
    <3>1. ~CycleHears(e)
      BY <1>1, <2>0 DEF CycleHears
    <3>2. \A q \in Request : ~CycleAsks(e, q)
      BY <1>1, <2>0 DEF CycleAsks, Send
    <3> QED
      BY <2>1, <3>1, <3>2
         DEF EngineStep, CycleCannotAsk, CycleCompletes, TimerStep, IntervalFires, DebounceFires,
             BackoffFires, OtherTabWrites, Trigger, CycleThrows
  <2>5. \A q \in Request : ~RequestTimesOut(q)
    BY <1>1, <2>0 DEF RequestTimesOut
  <2>6. PICK q \in Request : Answered(q)
    BY <1>1, <2>1, <2>2, <2>3, <2>4, <2>5 DEF Next, NetworkStep, TransportStep
  <2>7. q = r
    BY <1>1, <2>0, <2>6 DEF Answered, IdOf, OwnId
  <2> QED BY <2>0, <2>6, <2>7 DEF Answered
<1>2. SessionInv /\ [Next]_vars =>
        [\A r \in Request : outcome[r] = "waiting" /\ outcome'[r] = "ok" =>
            wire[r] # None /\ wire'[r] = None]_vars
  BY <1>1
<1> QED BY <1>2, SessionInvHolds, PTL DEF Spec, AnswersItsRequest
=============================================================================
