---------------------------- MODULE WsTransport ----------------------------
(***************************************************************************)
(* The websocket transport (sync/ws-transport.ts): one object, the sockets *)
(* it opens one after the other, its connection, reconnection and request   *)
(* timers, and the requests awaiting an answer.  The browser's sockets, the  *)
(* network and the server are the environment.                               *)
(***************************************************************************)
EXTENDS Naturals, FiniteSets

CONSTANTS
    Socket,                \* socket objects; one is used again once it is free
    Request,               \* requests; one is used again once it is settled
    None,                  \* the null of #ws, #connectResolve and the timers
    MaxReconnectAttempts   \* maxReconnectAttempts

ASSUME TransportAssumption ==
    /\ None \notin Socket \cup Request
    /\ MaxReconnectAttempts \in Nat

VARIABLES
    socket,           \* [Socket -> SocketState], readyState; "free": not in use
    heard,            \* the sockets whose handlers are attached
    ws,               \* #ws
    connected,        \* #connected
    shouldReconnect,  \* #shouldReconnect
    attempts,         \* #reconnectAttempts
    waiter,           \* the open whose promise #connectResolve settles, or None
    promise,          \* [Socket -> PromiseState], the promise of the open
    dialing,          \* the sockets whose connection timer is armed
    dialTimer,        \* #connectionTimer: the socket whose timer it holds
    redials,          \* how many reconnection timers are armed
    redialTimer,      \* whether #reconnectTimer holds one of them
    pending,          \* #pendingRequests: [Request -> Request \cup {None}], by id
    outcome,          \* [Request -> Outcome], the promise of the request
    wire              \* [Request -> Socket \cup {None}], where it travels

dialVars == <<ws, connected, shouldReconnect, attempts, waiter, promise,
              dialing, dialTimer, redials, redialTimer>>
requestVars == <<pending, outcome, wire>>
transportVars == <<socket, heard, dialVars, requestVars>>

SocketState == {"free", "connecting", "open", "closing"}
PromiseState == {"none", "waiting", "resolved", "rejected"}
Outcome == {"none", "waiting", "ok", "failed"}

TransportTypeOK ==
    /\ socket \in [Socket -> SocketState]
    /\ heard \in SUBSET Socket
    /\ ws \in Socket \cup {None}
    /\ connected \in BOOLEAN
    /\ shouldReconnect \in BOOLEAN
    /\ attempts \in 0..MaxReconnectAttempts
    /\ waiter \in Socket \cup {None}
    /\ promise \in [Socket -> PromiseState]
    /\ dialing \in SUBSET Socket
    /\ dialTimer \in Socket \cup {None}
    /\ redials \in Nat
    /\ redialTimer \in BOOLEAN
    /\ pending \in [Request -> Request \cup {None}]
    /\ outcome \in [Request -> Outcome]
    /\ wire \in [Request -> Socket \cup {None}]

TransportInit ==
    /\ socket = [s \in Socket |-> "free"]
    /\ heard = {}
    /\ ws = None
    /\ connected = FALSE
    /\ shouldReconnect = TRUE
    /\ attempts = 0
    /\ waiter = None
    /\ promise = [s \in Socket |-> "none"]
    /\ dialing = {}
    /\ dialTimer = None
    /\ redials = 0
    /\ redialTimer = FALSE
    /\ pending = [i \in Request |-> None]
    /\ outcome = [r \in Request |-> "none"]
    /\ wire = [r \in Request |-> None]

-----------------------------------------------------------------------------
\* Connecting.

FreeSocket(s) == socket[s] = "free" /\ s \notin dialing /\ promise[s] = "none"

\* #open: a new socket, its handlers, its timer; somebody may await its promise.
Open(s, awaited) ==
    /\ FreeSocket(s)
    /\ socket' = [socket EXCEPT ![s] = "connecting"]
    /\ heard' = heard \cup {s}
    /\ ws' = s
    /\ waiter' = s
    /\ promise' = [promise EXCEPT ![s] = IF awaited THEN "waiting" ELSE "none"]
    /\ dialing' = dialing \cup {s}
    /\ dialTimer' = s

\* connect()
Connect(s) ==
    /\ Open(s, TRUE)
    /\ shouldReconnect' = TRUE
    /\ UNCHANGED <<connected, attempts, redials, redialTimer, requestVars>>

\* #connectResolve / #connectReject settle the open they belong to.
SettleWaiter(result) ==
    /\ waiter' = None
    /\ promise' = [s \in Socket |->
                      IF s = waiter /\ promise[s] = "waiting" THEN result ELSE promise[s]]

\* Mutant of ClearDialTimer: the timer stays armed.
KeepDialTimer == UNCHANGED <<dialing, dialTimer>>

ClearDialTimer ==
    /\ dialing' = dialing \ {dialTimer}
    /\ dialTimer' = None

\* Mutant of RejectAllPending: the requests are left to their timers.
RejectNone == UNCHANGED <<outcome, pending>>

RejectAllPending ==
    /\ outcome' = [r \in Request |->
                      IF \E i \in Request : pending[i] = r THEN "failed" ELSE outcome[r]]
    /\ pending' = [i \in Request |-> None]

\* Mutant of ScheduleRedial: only a transport that had been connected redials.
RedialIfConnected ==
    IF connected /\ attempts < MaxReconnectAttempts
    THEN /\ attempts' = attempts + 1
         /\ redials' = redials + 1
         /\ redialTimer' = TRUE
    ELSE UNCHANGED <<attempts, redials, redialTimer>>

\* #scheduleReconnect
ScheduleRedial ==
    IF attempts < MaxReconnectAttempts
    THEN /\ attempts' = attempts + 1
         /\ redials' = redials + 1
         /\ redialTimer' = TRUE
    ELSE UNCHANGED <<attempts, redials, redialTimer>>

\* Mutant of CancelRedial: disconnect forgets the reconnection timer.
KeepRedial == UNCHANGED <<redials, redialTimer>>

\* #cancelReconnect
CancelRedial ==
    /\ redials' = IF redialTimer THEN redials - 1 ELSE redials
    /\ redialTimer' = FALSE

\* ws.onopen (a socket without handlers has been told to close)
SocketOpens(s) ==
    /\ socket[s] = "connecting"
    /\ s \in heard
    /\ socket' = [socket EXCEPT ![s] = "open"]
    /\ ClearDialTimer
    /\ connected' = TRUE
    /\ attempts' = 0
    /\ SettleWaiter("resolved")
    /\ UNCHANGED <<heard, ws, shouldReconnect, redials, redialTimer, requestVars>>

\* ws.onclose: a refused or dropped connection, or the end of a close().  The
\* messages on their way are lost.
SocketCloses(s) ==
    /\ socket[s] # "free"
    /\ socket' = [socket EXCEPT ![s] = "free"]
    /\ heard' = heard \ {s}
    /\ wire' = [r \in Request |-> IF wire[r] = s THEN None ELSE wire[r]]
    /\ IF s \in heard
       THEN /\ ClearDialTimer
            /\ connected' = FALSE
            /\ RejectAllPending
            /\ SettleWaiter("rejected")
            /\ IF shouldReconnect
               THEN ScheduleRedial
               ELSE UNCHANGED <<attempts, redials, redialTimer>>
       ELSE UNCHANGED <<dialing, dialTimer, connected, waiter, promise, attempts,
                        redials, redialTimer, pending, outcome>>
    /\ UNCHANGED <<ws, shouldReconnect>>

\* Mutant of DialTimesOut: the socket is closed and nobody is told.
DialGivesUp(s) ==
    /\ s \in dialing
    /\ dialing' = dialing \ {s}
    /\ socket' = [socket EXCEPT ![s] = IF @ = "free" THEN @ ELSE "closing"]
    /\ heard' = heard \ {s}
    /\ UNCHANGED <<waiter, promise, ws, connected, shouldReconnect, attempts,
                   dialTimer, redials, redialTimer, requestVars>>

\* The connection timer: reject whoever is waiting, close this timer's socket.
DialTimesOut(s) ==
    /\ s \in dialing
    /\ dialing' = dialing \ {s}
    /\ SettleWaiter("rejected")
    /\ socket' = [socket EXCEPT ![s] = IF @ = "free" THEN @ ELSE "closing"]
    /\ UNCHANGED <<heard, ws, connected, shouldReconnect, attempts, dialTimer,
                   redials, redialTimer, requestVars>>

\* The reconnection timer fires; nobody looks at the outcome of the open.
Redial(s) ==
    /\ redials > 0
    /\ redials' = redials - 1
    /\ redialTimer' = FALSE
    /\ Open(s, FALSE)
    /\ UNCHANGED <<connected, shouldReconnect, attempts, requestVars>>

\* disconnect()
Disconnect ==
    /\ shouldReconnect' = FALSE
    /\ CancelRedial
    /\ ClearDialTimer
    /\ RejectAllPending
    /\ IF ws # None
       THEN /\ heard' = heard \ {ws}
            /\ socket' = [socket EXCEPT ![ws] = IF @ = "free" THEN @ ELSE "closing"]
            /\ ws' = None
       ELSE UNCHANGED <<heard, socket, ws>>
    /\ connected' = FALSE
    /\ UNCHANGED <<attempts, waiter, promise, wire>>

-----------------------------------------------------------------------------
\* Requests.

\* Mutant of IdOf: every request has the same id.
IdStuck(r) == CHOOSE i \in Request : TRUE

\* #nextRequestId: no two requests have the same id.
IdOf(r) == r

\* A request object is free once its promise is settled and consumed; a message
\* of its earlier use that is still travelling is then never answered.
Unused(r) == outcome[r] = "none"

Sendable == ws # None /\ socket[ws] = "open"

\* push or pull: register the request, then send it.
Send(r) ==
    /\ Unused(r)
    /\ Sendable
    /\ pending' = [pending EXCEPT ![IdOf(r)] = r]
    /\ outcome' = [outcome EXCEPT ![r] = "waiting"]
    /\ wire' = [wire EXCEPT ![r] = ws]
    /\ UNCHANGED <<socket, heard, dialVars>>

\* #handleMessage: an answer or an error arrives; an unknown id is ignored.
Answered(r) ==
    LET p == pending[IdOf(r)] IN
    /\ wire[r] # None
    /\ socket[wire[r]] = "open"
    /\ wire' = [wire EXCEPT ![r] = None]
    /\ IF wire[r] \in heard /\ p # None
       THEN /\ pending' = [pending EXCEPT ![IdOf(r)] = None]
            /\ \E result \in {"ok", "failed"} : outcome' = [outcome EXCEPT ![p] = result]
       ELSE UNCHANGED <<pending, outcome>>
    /\ UNCHANGED <<socket, heard, dialVars>>

\* Mutant of RequestTimesOut: the timer drops the request and settles nothing.
RequestForgotten(r) ==
    /\ pending[IdOf(r)] = r
    /\ pending' = [pending EXCEPT ![IdOf(r)] = None]
    /\ UNCHANGED <<socket, heard, dialVars, wire, outcome>>

\* The request's timer: it stops waiting, the message travels on.
RequestTimesOut(r) ==
    /\ pending[IdOf(r)] = r
    /\ pending' = [pending EXCEPT ![IdOf(r)] = None]
    /\ outcome' = [outcome EXCEPT ![r] = "failed"]
    /\ UNCHANGED <<socket, heard, dialVars, wire>>

TransportStep ==
    \/ \E s \in Socket : SocketOpens(s) \/ SocketCloses(s) \/ DialTimesOut(s) \/ Redial(s)
    \/ \E r \in Request : Answered(r) \/ RequestTimesOut(r)
=============================================================================
