-------------------------- MODULE ConnectionSystem --------------------------
(***************************************************************************)
(* Several tabs connect to one IndexedDB database, use it, disconnect, are  *)
(* reloaded with newer schemas and upgrade it under each other's feet.      *)
(***************************************************************************)
EXTENDS DatabaseConnection

vars == <<browserVars, databaseVars>>

Init == BrowserInit /\ DatabaseInit

AppStep ==
    \E t \in Tab :
        \/ \E c \in Call : ConnectCalled(t, c)
        \/ DisconnectCalled(t) \/ Uses(t) \/ Reloads(t)

\* The browser gets on with the first request of the queue.
Upgrades(c) == (UpgradeCommits(c) \/ UpgradeAborts(c)) /\ UNCHANGED databaseVars

Processes(c) ==
    \/ (OpensAsStored(c) \/ RefusesOlder(c) \/ TellsOthers(c)) /\ UNCHANGED databaseVars
    \/ Upgrades(c)

\* The events of a request and of its connection.
Handles(c) ==
    OnBlocked(c) \/ OnError(c) \/ OnSuccess(c) \/ OnLateSuccess(c) \/ OnVersionChange(c)

\* connect() goes on.
Continues(c) == ConnectStarts(c) \/ InitReads(c) \/ PluginsReady(c) \/ PluginsFail(c)

Ends(c) == TransactionEnds(c) /\ UNCHANGED databaseVars

CallStep(c) == Processes(c) \/ Handles(c) \/ Continues(c) \/ Ends(c)

Next ==
    \/ AppStep
    \/ \E c \in Call : CallStep(c)
    \/ \E t \in Tab : DisconnectEnds(t)

Spec == Init /\ [][Next]_vars

\* The browser processes requests, events are delivered, transactions end and
\* promises settle; nothing makes the application do anything.
Fairness ==
    /\ WF_vars(\E c \in Call : Processes(c))
    /\ WF_vars(\E c \in Call : Handles(c))
    /\ WF_vars(\E c \in Call : Continues(c))
    /\ WF_vars(\E c \in Call : Ends(c))
    /\ WF_vars(\E t \in Tab : DisconnectEnds(t))

FairSpec == Spec /\ Fairness

-----------------------------------------------------------------------------
TypeOK == BrowserTypeOK /\ DatabaseTypeOK

\* The adapter only holds a connection that is open and whose version is the
\* stored one: whatever tab upgrades, whenever, nobody is left with a
\* connection of the older schema.
AdapterIsCurrent ==
    \A t \in Tab : adapter[t] # None =>
        /\ conn[adapter[t]] = "open"
        /\ of[adapter[t]] = t
        /\ wants[adapter[t]] = version

\* Every open connection is the one its tab uses: a connect() that rejected,
\* or a request that succeeded too late, leaves no connection behind for a
\* future upgrade to wait for.  (Overlapping calls of connect() do.)
NothingLeaks ==
    \A c \in Call : conn[c] = "open" /\ of[c] \notin overlapped => adapter[of[c]] = c

\* A connection sees every index its schema declares, of the declared kind,
\* though the database was upgraded step by step or aborted on the way.
SchemaApplied ==
    \A c \in Call : conn[c] = "open" =>
        \A f \in Field : Declared[wants[c]][f] \in {"none", indexes[f]}

\* Every connect() settles, whoever blocks whom, unless the promise its plugins
\* await was lost to a teardown or to an overlapping call (EveryConnectSettles).
ConnectSettles == []<>(\A c \in Call : ~UnderWay(c))

\* Every upgrade happens or fails: all other connections close for it, those
\* an overlapping connect() leaked included.
UpgradeHappens == []<>(\A c \in Call : conn[c] \notin {"queued", "asking", "blocked"})

-----------------------------------------------------------------------------
\* "When another tab opens a newer schema version, ctrodb closes the stale
\* connection automatically, marks the Database disconnected" (README.md): but a
\* versionchange while connect() awaits its plugins is followed by the
\* assignment that marks it connected.
StaleIsDisconnected == \A t \in claims : adapter[t] # None

\* "IndexedDB version upgrades no longer strand old tabs", whose handler runs
\* "plugin teardown" (CHANGELOG.md, 1.13.0): but the teardown of a plugin whose
\* init awaits the socket leaves that init, and connect(), waiting for ever,
\* also where no two calls overlap.
EveryConnectSettles ==
    []<>(\A c \in Call : stage[c] \in {"unused", "settled"} \/ of[c] \in overlapped)
=============================================================================
