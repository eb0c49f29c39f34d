------------------------- MODULE DatabaseConnection -------------------------
(***************************************************************************)
(* What ctrodb makes of IndexedDB: openDB and its handlers, the migration   *)
(* of the indexes, the adapter's one connection, and the Database that      *)
(* connects, initialises its plugins, disconnects and gives way to an       *)
(* upgrade by another tab.  There is one Database in the page of each tab.  *)
(***************************************************************************)
EXTENDS IndexedDb

CONSTANT MaxReloads   \* bound of the model: how often a page is reloaded

ASSUME ReloadsAssumption == MaxReloads \in Nat

VARIABLES
    app,         \* the schema version of the page each tab has loaded
    of,          \* the tab each call of connect() was made in
    stage,       \* how far each call of connect() has come
    adapter,     \* IndexedDBAdapter.#db: the connection each tab uses
    claims,      \* tabs whose Database.#connected is true
    leaving,     \* tabs in the middle of disconnect()
    stranded,    \* calls that wait for the plugins, and nobody will ever answer
    overlapped,  \* tabs that called connect() before an earlier call ended
    reloads      \* how many pages were reloaded so far

databaseVars == <<app, of, stage, adapter, claims, leaving, stranded, overlapped, reloads>>

\* What connect() answered is not kept: claims and conn tell.
Stage == {"unused", "waiting", "opening", "reading", "plugins", "settled"}

\* A call of connect() that has not settled and may still go on.
UnderWay(c) ==
    stage[c] \in {"waiting", "opening", "reading", "plugins"} /\ c \notin stranded

CallsOf(t) == {c \in Call : of[c] = t}

DatabaseTypeOK ==
    /\ app \in [Tab -> Version]
    /\ of \in [Call -> Tab \cup {None}]
    /\ stage \in [Call -> Stage]
    /\ adapter \in [Tab -> Call \cup {None}]
    /\ claims \subseteq Tab
    /\ leaving \subseteq Tab
    /\ stranded \subseteq Call
    /\ overlapped \subseteq Tab
    /\ reloads \in 0 .. MaxReloads

DatabaseInit ==
    /\ app \in [Tab -> Version]
    /\ of = [c \in Call |-> None]
    /\ stage = [c \in Call |-> "unused"]
    /\ adapter = [t \in Tab |-> None]
    /\ claims = {}
    /\ leaving = {}
    /\ stranded = {}
    /\ overlapped = {}
    /\ reloads = 0

Reach(c, s) == stage' = [stage EXCEPT ![c] = s]

\* The promise a plugin's init awaits is lost: to the transport's disconnect(),
\* which drops the handlers and the timer that would settle it, or to a second
\* #open, which takes its resolver.  A call that is past that plugin goes on.
SomeStranded(cs) == \E lost \in SUBSET {c \in cs : stage[c] = "plugins"} :
                        stranded' = stranded \cup lost

-----------------------------------------------------------------------------
\* Database.connect() is called; it awaits the teardown a versionchange began.
ConnectCalled(t, c) ==
    /\ stage[c] = "unused" /\ \A d \in Call : d < c => stage[d] # "unused"
    /\ of' = [of EXCEPT ![c] = t]
    /\ Reach(c, "waiting")
    /\ overlapped' = IF \E d \in CallsOf(t) : UnderWay(d)
                       THEN overlapped \cup {t} ELSE overlapped
    /\ UNCHANGED <<browserVars, app, adapter, claims, leaving, stranded, reloads>>

\* connect() after that await: it returns if the database is connected, else
\* asks the browser for a connection with the version of the page's schema.
ConnectStarts(c) ==
    /\ stage[c] = "waiting"
    /\ \/ /\ of[c] \in claims
          /\ Reach(c, "settled")
          /\ UNCHANGED browserVars
       \/ /\ of[c] \notin claims
          /\ Reach(c, "opening")
          /\ Open(c, app[of[c]])
    /\ UNCHANGED <<app, of, adapter, claims, leaving, stranded, overlapped, reloads>>

\* Mutant of Migrated: an index that exists is never rebuilt.
MigratedOnce(old, declared) ==
    [f \in Field |-> IF old[f] = "none" THEN declared[f] ELSE old[f]]

\* createMigrationHandler: create what is missing, rebuild an index whose
\* unique flag changed, keep the rest.
Migrated(old, declared) ==
    [f \in Field |->
        CASE declared[f] = "none" -> old[f]
          [] old[f] = declared[f] -> old[f]
          [] OTHER -> declared[f]]

\* request.onupgradeneeded, in the versionchange transaction, which commits.
UpgradeCommits(c) ==
    /\ MayUpgrade(c)
    /\ version' = wants[c]
    /\ indexes' = Migrated(indexes, Declared[wants[c]])
    /\ Finish(c, "success")
    /\ UNCHANGED <<wants, told, busy>>

\* request.onblocked: connect() rejects, and the request waits on.
OnBlocked(c) ==
    /\ Blocks(c)
    /\ Reach(c, "settled")
    /\ UNCHANGED <<app, of, adapter, claims, leaving, stranded, overlapped, reloads>>

\* Mutant of OnError: nobody is told of a VersionError.
OnErrorUnheard(c) ==
    /\ conn[c] = "error"
    /\ conn' = [conn EXCEPT ![c] = "closed"]
    /\ UNCHANGED <<version, indexes, queue, wants, told, busy, databaseVars>>

\* request.onerror
OnError(c) ==
    /\ conn[c] = "error"
    /\ conn' = [conn EXCEPT ![c] = "closed"]
    /\ Reach(c, "settled")
    /\ UNCHANGED <<version, indexes, queue, wants, told, busy>>
    /\ UNCHANGED <<app, of, adapter, claims, leaving, stranded, overlapped, reloads>>

\* request.onsuccess of a request still awaited: the adapter takes the
\* connection and the first plugin, the sync engine, starts to read its state.
OnSuccess(c) ==
    /\ conn[c] = "success" /\ stage[c] = "opening"
    /\ conn' = [conn EXCEPT ![c] = "open"]
    /\ adapter' = [adapter EXCEPT ![of[c]] = c]
    /\ Reach(c, "reading")
    /\ UNCHANGED <<version, indexes, queue, wants, told, busy>>
    /\ UNCHANGED <<app, of, claims, leaving, stranded, overlapped, reloads>>

\* Mutant of OnLateSuccess: the late connection is not closed.
OnLateSuccessKept(c) ==
    /\ conn[c] = "success" /\ stage[c] # "opening"
    /\ conn' = [conn EXCEPT ![c] = "open"]
    /\ UNCHANGED <<version, indexes, queue, wants, told, busy, databaseVars>>

\* request.onsuccess of a request connect() no longer waits for.
OnLateSuccess(c) ==
    /\ conn[c] = "success" /\ stage[c] # "opening"
    /\ Close({c})
    /\ UNCHANGED databaseVars

\* #handleConnectionChange: the Database says it is disconnected and destroys
\* its plugins, also those that are being initialised.  (connect() and
\* disconnect() await the end of that: an arbitrary delay of either.)
HandleConnectionChange(t) ==
    /\ claims' = claims \ {t}
    /\ SomeStranded(CallsOf(t))
    /\ UNCHANGED <<app, of, stage, leaving, overlapped, reloads>>

\* Mutant of OnVersionChange: the adapter keeps the connection it closed.
OnVersionChangeKept(c) ==
    /\ c \in told /\ conn[c] = "open"
    /\ Close({c})
    /\ HandleConnectionChange(of[c])
    /\ UNCHANGED adapter

\* Mutant of OnVersionChange: the connection is given up and not closed.
OnVersionChangeOpen(c) ==
    /\ c \in told /\ conn[c] = "open"
    /\ told' = told \ {c}
    /\ adapter' = [adapter EXCEPT ![of[c]] = None]
    /\ HandleConnectionChange(of[c])
    /\ UNCHANGED <<version, indexes, queue, conn, wants, busy>>

\* db.onversionchange, and the adapter's handler.
OnVersionChange(c) ==
    /\ c \in told /\ conn[c] = "open"
    /\ Close({c})
    /\ adapter' = [adapter EXCEPT ![of[c]] = None]
    /\ HandleConnectionChange(of[c])

\* IndexedDBAdapter.disconnect(), and the Database is no longer connected.
AdapterDisconnects(t) ==
    /\ Close(IF adapter[t] = None THEN {} ELSE {adapter[t]})
    /\ adapter' = [adapter EXCEPT ![t] = None]
    /\ claims' = claims \ {t}

\* connect() after a plugin rejected: it undoes the connection and rejects.
InitFails(c) ==
    /\ AdapterDisconnects(of[c])
    /\ Reach(c, "settled")
    /\ UNCHANGED <<app, of, leaving, stranded, overlapped, reloads>>

\* The engine's init reads the queue and its metadata through the adapter,
\* which throws once the connection is gone; then it connects the transport,
\* perhaps while another call awaits that.
InitReads(c) ==
    /\ stage[c] = "reading"
    /\ \/ adapter[of[c]] = None /\ InitFails(c)
       \/ /\ adapter[of[c]] # None
          /\ Reach(c, "plugins")
          /\ SomeStranded(CallsOf(of[c]))
          /\ UNCHANGED browserVars
          /\ UNCHANGED <<app, of, adapter, claims, leaving, overlapped, reloads>>

\* The transport has answered, and the other plugins are ready or one rejects.
PluginsFail(c) == stage[c] = "plugins" /\ c \notin stranded /\ InitFails(c)

PluginsReady(c) ==
    /\ stage[c] = "plugins" /\ c \notin stranded
    /\ Reach(c, "settled")
    /\ claims' = claims \cup {of[c]}
    /\ UNCHANGED <<browserVars, app, of, adapter, leaving, stranded, overlapped, reloads>>

\* disconnect() of a connected database first tears the plugins down; the
\* application does not call it again before it has ended.
DisconnectCalled(t) ==
    /\ t \in claims /\ t \notin leaving
    /\ leaving' = leaving \cup {t}
    /\ SomeStranded(CallsOf(t))
    /\ UNCHANGED <<browserVars, app, of, stage, adapter, claims, overlapped, reloads>>

DisconnectEnds(t) ==
    /\ t \in leaving
    /\ leaving' = leaving \ {t}
    /\ AdapterDisconnects(t)
    /\ UNCHANGED <<app, of, stage, stranded, overlapped, reloads>>

\* collection() and transaction() of a database that says it is connected run
\* a transaction on the adapter's connection; without one they throw.
Uses(t) ==
    /\ t \in claims /\ adapter[t] # None
    /\ adapter[t] \notin busy
    /\ TransactionBegins(adapter[t])
    /\ UNCHANGED databaseVars

\* The page is reloaded, perhaps with a newer version of the application.
Reloads(t) ==
    /\ reloads < MaxReloads
    /\ reloads' = reloads + 1
    /\ \E v \in Version : v >= app[t] /\ app' = [app EXCEPT ![t] = v]
    /\ Vanish(CallsOf(t))
    /\ stage' = [c \in Call |-> IF of[c] = t THEN "settled" ELSE stage[c]]
    /\ adapter' = [adapter EXCEPT ![t] = None]
    /\ claims' = claims \ {t}
    /\ leaving' = leaving \ {t}
    /\ stranded' = stranded \ CallsOf(t)
    /\ overlapped' = overlapped \ {t}
    /\ UNCHANGED of
=============================================================================
