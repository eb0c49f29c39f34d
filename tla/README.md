# Verification of ctrodb

ctrodb is a local-first document database in TypeScript: collections over a
storage adapter (in memory, or the browser's IndexedDB), plugins with hooks
around every write, a query planner with indexes, full-text search, transactions,
and a sync engine that exchanges changes with a server.  This directory holds TLA+
modules translated from its source, the instances TLC checks, and theorems TLAPS
proves for every instance.  Paths below are relative to the repository.

    tlc  -config SyncCore.cfg MCSync.tla     check one run (PROJECT.json lists all)
    tlapm SyncProofs.tla                     check one module's proofs


## 1. The system

| component | state | operations | talks to |
|---|---|---|---|
| collection `src/collection.ts` | none but the rows | create, createMany, update, delete, deleteMany, put | adapter; runs each plugin's hooks, awaiting them |
| database `src/database.ts` | connected, its collections, plugins, a teardown under way | connect, disconnect, transaction, sync | initialises and destroys plugins; hears of versionchange |
| transactions `src/transaction-context.ts` | writes not yet hooked | the collection's operations; flush | hooks run after the commit |
| memory adapter `src/adapter/memory.ts` | rows, index buckets, count of unindexable rows, cache of sorted keys, undo journals | CRUD, batches, scanIndex, transaction | - |
| IndexedDB adapter `src/adapter/idb.ts` | one connection; the rest is the browser's | open and upgrade, the same operations | the browser, and through it the other tabs |
| queries `src/query/*.ts` | the groups, order and window of a query | where, orWhere, plan, execute, count | scanIndex, findById, findAll; the token index |
| full-text plugin `src/plugins/fts/*.ts` | posting store, format stamp | after-hooks, search, rebuild at connect | adapter |
| change queue `src/sync/change-tracker.ts` | one row per write: status, retries, time | append, mark pending, syncing, committed, failed; recover | adapter |
| sync plugin `src/sync/sync-plugin.ts` | its engine | hooks that append to the queue; init, destroy | queue, engine |
| sync engine `src/sync/sync-engine.ts` | cursor (in memory and saved), cycle, timers, failures, retry counts | sync, triggerSync, init, destroy | queue, collections, transport, other tabs |
| conflict resolver `src/sync/conflict-resolver.ts` | none | resolve | engine |
| queue maintenance `src/sync/devtools.ts` | none | compact, retry failed, clear committed | queue |
| websocket transport `src/sync/ws-transport.ts` | socket, pending requests, attempts, timers | connect, disconnect, push, pull | server |
| http transport `src/sync/http-transport.ts` | none | push, pull | server |
| reference server `examples/sync/server-node/src` | records, change log | push, pull, broadcast | clients |
| React bindings `src/react.ts` | data, loading, error, the latest request, a timer | useQuery, useDoc | queries; change events |
| models, schema, relations and validation plugins | see section 7 | | |

How they meet: a write goes collection -> adapter -> after-hooks.  The sync
plugin's hook appends a row to the change queue (in the same adapter, in another
call); the full-text plugin's hook adds and removes postings.  The engine, woken by
its interval, a debounce, a backoff, another tab, the server or the application,
runs a cycle: it snapshots the queued edits, pushes the queue in batches, settles
the answers, pulls the server's log from its cursor and applies each entry through
the collection, saves the cursor and purges the queue.  Everything is one
JavaScript thread: code between two awaits is atomic, and at an await anything
else may run.

What is hard, and therefore what the models keep step by step:

* every await of a cycle is a point where the application writes the same records,
  where the queue's maintenance runs, and where the process may die;
* a push that throws may have been handled, may be handled later, or may be lost;
* four clocks and counters decide what wins: client time, server time, the log
  position, the order in which requests arrive;
* sockets, timers and requests outlive the connection or engine that made them;
* writes of a transaction are visible at once and undone later, beside others' writes;
* hooks run after the write they belong to, one adapter call at a time, and may fail;
* tabs share one IndexedDB database: an upgrade by one closes the connections of the
  others, at whatever point of connect or disconnect they are, and a request that was
  given up may still succeed;
* IndexedDB's transactions answer, commit, fail and go idle at different moments;
* the fetches of a component outlive the query, the effect or the page they were for.

What makes each part correct is stated by the properties of section 4.
PROJECT.json lists the hazards with their lines and the property that covers each.


## 2. Modules

Six groups; within a group each module extends the one above it.

**Sync** - data flow between the application, the queue, the engine and the server.

* `SyncBase` - records and their fields, writes, the merge of an update, the two clocks,
  the budget of disturbances.
* `ChangeQueue` - the queue.  `status[c]` is the status of change c's row (`unborn`,
  `hooking`: written but not yet queued, `lost`, `removed`, `compacted` say why it has
  none); one operator per method of ChangeTracker.
* `SyncServer` - the reference server's records and log, and the wire: the request of
  the cycle, requests still under way after the client gave up (`late`), answers.
* `SyncEngine` - one cycle.  `pc` is the await the cycle is at; `snap`, `batch`,
  `todo`, `remote`, `at`, `upto` are its local variables; `cursor` and `saved` the
  cursor in memory and in metadata.
* `SyncDevtools` - compaction, retry and clearing beside a running cycle.
* `SyncSystem` - the application's writes and their hooks, crash and restart, time;
  `Next`, `Spec`, `FairSpec`.
* `SyncProperties`, `SyncInvariant` - what it promises, and the inductive invariants.
* `ChangeLifecycle` - the abstract specification: a write is unborn, written, queued,
  then done, dropped or lost; a done write is covered by the server.
* `SyncProofs` (types, committed edits), `SyncLifecycleProofs` (the queue's rows and the
  refinement of `ChangeLifecycle`), `SyncAgreementProofs` (client and server agree) - the
  theorems.  `MCSync` - instances.

**Session** - who runs cycles and over what.

* `WsTransport` - sockets, their handlers and timers, reconnection with a bounded
  number of attempts, pending requests, timeouts, late answers.
* `EngineLifecycle` - db.connect and disconnect, the engine's init, interval,
  debounce, backoff, circuit breaker and triggers; a cycle is a few requests.
  `opening` are the engines whose connect is under way: another connect, or the teardown
  another tab's upgrade causes (`ConnectionChanges`), may come between.
* `SyncSession` - the composition, fairness and properties.  `SessionProofs` - the
  theorems.  `MCSession` - instances.

**Storage** - the memory adapter.

* `MemoryStore` - rows of one collection (`data`) and what is kept beside them:
  `buckets`, `oddRows` (#unindexable), `sorted` (#sortedIndexKeys).  A value is a key of
  an index or one that no index holds (`Odd`, the booleans `Flag` among them).
* `QueryPlan` - planner, ranges, predicate, scanIndex and executor as operators:
  `Execute(group)` is what the code returns, `Meaning(group)` what the query says.  The
  code compares in two ways and so does the module: key ranges by compareQueryKeys
  (`Ordered`), the predicate by JavaScript's operators (`Holds`).
* `Transactions` - the undo journal and its loop.  `StorageSystem` - composition and
  properties.  `StorageProofs` - the theorems.
* `QueryWindow` - queries of several groups and their pages: the builder's calls, the
  merging of the groups' rows, order, offset, limit and count.  `Results(q)` is the set
  of pages the code may return, over every order in which an adapter may hand over the
  rows of a group.  `MCStorage` - instances.

**Search** - the collection's writes with the full-text plugin.

* `FtsIndexer` - the posting store and the hooks as jobs of postings to remove and add.
* `CollectionWrites` - each operation's read, write and hooks; the transaction
  pipeline, which keeps the hooks until the commit.
* `SearchSystem` - migrate at connect, the match query, crashes, sessions without the
  plugin; properties.  `SearchProofs` - the theorems.  `MCSearch` - instances.

**Connections** - tabs that open, use and upgrade one IndexedDB database.

* `IndexedDb` - the browser's side (external): the queue of open requests, versionchange
  and blocked events, the versionchange transaction, closing.  `conn[c]` is the state of
  the c-th open request and of the connection it becomes.
* `DatabaseConnection` - openDB's handlers, the migration of indexes, the adapter's
  `#db` (`adapter`), and Database.connect and disconnect: `stage[c]` is the await the
  c-th call of connect is at, `claims` are the tabs whose `#connected` is true, and
  `stranded` the calls that wait for a promise nobody will settle.
* `ConnectionSystem` - composition, fairness, properties.  `ConnectionProofs` - the
  theorems.  `MCConnection` - instances.

**Views** - a React component over IndexedDB's transactions.

* `AtomicStore` - the abstract specification: every operation changes the rows as a
  whole, once, or not at all.  The content of a row is the set of operations merged into
  it, so that a lost update is a missing member.
* `IdbTransactions` - the operations of a collection as the adapter runs them: the read
  the collection makes first, the transaction that waits in `line`, each request on what
  that transaction sees (`seen`), the answer, the commit or its failure.
* `UseQuery` - renders, effects, fetches (in the same line) and the coalesced refetch.
* `ViewSystem` - composition, fairness, properties; `ImplementsAtomicStore` refines
  `AtomicStore`.  `ViewProofs` - the theorems.  `MCViews` - instances.

Names follow the code where a function has one; PROJECT.json maps each definition to
its lines.  `Mutant of X` marks a plausible bug of X: substituted for X it makes a
property fail, which is how we know the property depends on that code.


## 3. Abstractions

* A record's content gives some of the fields `Field` a value, and the value of a field is
  the identity of the write that set it (`Merged` for what a custom resolver builds); a
  write sets one of the sets of fields in `Forms`.  An update is merged into the row field
  by field, on the client by both adapters, while the server stores what is pushed as a
  whole.  Another client pushes what it may hold, any content the log has told of with its
  own write on top.  The defaults a schema gives missing fields are left out.
* Validation depends on the record alone: `Refused` are the records this client's schema
  does not accept, and an entry of the log whose merge gives one throws on every pull.
* The queue's read-then-write pairs with no other await between (markFailed,
  removeCommitted's list and delete) are one step.  The lists of an answer are settled
  in any order.  The server handles each change of a request in a step of its own
  (`ServeLate`), which allows more interleavings than its synchronous loop.
* No collections filter, one tab, one client observed closely, the others as writes
  to the server.
* Session: an engine that is inert is used again as the next one; request ids are
  recycled, and a message about a recycled id counts as never answered; the browser's
  online event is the application's `sync`; abort signals act like timeouts.  The plugins
  after the engine, and the adapter before it, are no steps of their own.  `orphaned` marks
  the states after a connect replaced an engine still in use, one that a second call of
  connect or the failed init of a later plugin left behind: nobody destroys that engine any
  more, its resolver and socket are the new one's, and the properties of the transport say
  nothing from there on.
* Storage: a row is its indexed field, and ids are numbers.  The keys of the index, of
  three types (number, date, string), are numbered in the order of compareQueryKeys.  What
  JavaScript's <, <= and === say of any two values is data: the constants `Less`, `AtMost`
  and `Same`, of which a named assumption says only that within one type they follow that
  order, equality of dates apart, and that a key is === to no other kind of value.  Booleans
  are unique in a unique field; other values without a key (NaN, null, fresh objects) clash
  with nothing.  A transaction's write and its journal entry are one step.
* Search: a text is its set of tokens; the rollback is one step (its loop is in
  `Transactions`); an open transaction dies with the process, as IndexedDB's does.  put
  is not an action of its own: it is an update or a create that starts after a read.

* Queries: sort() sorts by the indexed field; a comparator that may contradict itself,
  where the values are not all of one type or are dates, returns the rows in any order.
* Connections: the plugins are two awaits, the engine's first read and the rest; their
  timers and sockets are in Session.  A teardown, or a second call that opens the socket
  again, may lose the promise the plugins wait for or not (`SomeStranded`): which, depends
  on how far init has come, and `EngineLifecycle` has those steps.  connect's wait for the
  teardown of a versionchange is a delay of any length.  disconnect is not called again
  while it runs.  What an upgrade does to the rows is nothing; to the indexes it is
  `Migrated`.  Any upgrade may abort, as one does when a unique index meets duplicates.
* Views: one object store; a transaction's callback writes its rows in any order and may
  throw or await something else at any point, as idb.ts:509-511 warns; it is then
  committed as far as it had come (`TakesPart`).  deleteMany whose commit fails never
  settles, as in the code.  Key ranges and tokens are data.  React runs an effect after
  the render that changed its dependencies; state set after unmounting is dropped.

Bounds of the model, each a constant: `MaxClock`, `MaxDisturbed`, the sets of writes
and records, `PushBatch`, `PullBatch`, `MaxPullPages`, `RetryMax`,
`MaxConflictRetries` (constants of the code, made small), `RequestsPerCycle`,
`MaxReconnectAttempts`, `CircuitBreakerThreshold`, `MaxJournal`, `MaxOps`, `MaxCalls`,
`MaxVersion`, `MaxReloads`, `MaxRenders` and the set `Fetch`.


## 4. Runs and what they show

| run | question | bounds |
|---|---|---|
| `SyncCore` | lost or overwritten edits under last-write-wins: `CommittedIsCovered`, `Converged`, `KeptEditIsQueued` | 1 record of 2 fields, 2 local writes and 1 remote, 2 instants, one disturbance: a push failing, lost or handled late, a compaction; create, update, delete |
| `SyncFaults` | one disturbance of each of nine kinds at every moment, a schema that refuses other clients' content, and a custom resolver that keeps, takes, merges, returns nonsense or throws: `CoverInv`, `CompactedIsSuperseded`, `SyncingIsOwned`, `ImplementsLifecycle` | the same writes, of one field; no deletes |
| `SyncSettles` | under client-wins, does the queue drain and the client catch up: `Converged`, `Settles`, `CatchesUp` | 2 records of 2 fields, 1 local and 1 remote write, two disturbances |
| `SyncNewerEdit` | violation of `NewerEditKept` | no disturbance |
| `Session` | sockets, requests, timers, connect and disconnect: three safety and six temporal properties | 2 sockets, 2 requests, 1 engine, 2 attempts, threshold 2 |
| `Storage` | index, queries, pages, uniqueness and rollback: `IndexExact`, `QueriesAgree`, `PagesAgree`, `UniqueHolds`, `RollbackRestores` | 2 rows, 2 keys, missing and unindexable values, a transaction of 2 writes, 73 queries of up to 2 conditions, 10 queries of up to 3 groups with orders and windows |
| `Search` | postings and match queries: `PostingsExact`, `SteadyRowsFound`, `StampedIsBuilt` | 2 documents, 2 tokens, 2 callers, 2 operations; failing hooks, crashes, sessions without the plugin |
| `SearchMatch` | violation of `MatchFindsAll` | no disturbance |
| `Connection` | upgrades under each other's feet: `AdapterIsCurrent`, `NothingLeaks`, `SchemaApplied`, `ConnectSettles`, `UpgradeHappens` | 2 tabs, 3 calls of connect, 2 versions, 2 indexed fields, 1 reload |
| `ConnectionStale` | violation of `StaleIsDisconnected` | the same |
| `IdbStore` | lost updates, half-written batches, answers before the commit: `ImplementsAtomicStore`, `AnsweredIsDurable` | 2 rows; a batch, an update, a transaction, a bulk deletion |
| `Views` | stale results of a component: `ShowsItsQuery`, `NeverOlder`, `ViewSettles` | 2 rows, an update and a transaction, 2 queries, 2 changes of the dependencies, 2 fetches under way |

Where a property above excuses a behaviour of the code, what it excuses is stated too.  TLC
finds each of these properties violated on the instance named: a configuration of its own,
or that of a run with the property in place of its own.

| property | instance | what happens |
|---|---|---|
| `KeptEditIsPushed` | `SyncParkedEdit` | a remote change is skipped for a parked edit, which is not pushed, against `src/sync/sync-engine.ts:567-568` ("Keep the local value; the queue will push it on the next cycle"): client and server differ until the application retries.  `KeptEditIsQueued` says only that the edit has a row |
| `SupersededStaysDropped` | `SyncCore` | a remote content that wins over a queued edit is merged into the row (`src/adapter/memory.ts:459`), so a field only that edit had set stays and the next edit takes it to the server, against `sync-engine.ts:572-573` ("Drop the superseded local change so the next push cannot resurrect stale data").  This is why `Converged` says that a quiet client carries the server's fields and not that its rows equal the server's |
| `NeverStranded` | `SyncCore` | a record deleted between the engine's read and write of a conflict's outcome leaves the rest of the batch in `syncing` until the next start |
| `Converged` | `SyncTools` | a retry and a compaction around one conflict drop an edit; section 5 |
| `DisconnectStopsEngines` | `Session` | a cycle that fails after destroy arms a backoff timer again |
| `ConnectEnds` | `SessionStranded` | another tab's upgrade tears the engine down while its init awaits the socket: `WsTransport.disconnect` (`ws-transport.ts:96-113`) takes the connection timer and the handlers away and settles nothing, so init never ends |
| `EveryConnectSettles` | `ConnectionStranded` | the same, seen from the database: connect() waits for a plugin that was torn down, where `CHANGELOG.md:67` says that upgrades "no longer strand old tabs" |
| `RollbackKeepsOthers` | `Storage` | a rollback puts back the whole row it found, over a write that another caller completed since |
| `IndexChangesNothing` | `StorageTypes` | a row whose value is `true` matches `<= 1` in a scan and is in no key range, against `tests/integration/planner-index-eligibility.test.ts:7` ("the presence of an index must never change a result set"); likewise dates and strings beside numbers |

`StorageTypes` also checks what does hold of such values: `QueriesAgree` and `UniqueHolds`
pass on it, with a number, a date, a string, an object and a boolean, each compared with
each, in a field the schema has as a structured one.

Why these bounds are enough to be interesting: two local writes to one record are what a
snapshot, a replay or a compaction can confuse, and the remote write between them is what
makes a conflict; two instants of the clock give earlier, equal and later; a batch of two
lets one change of an answer fail beside another; one disturbance at every step covers each
crash point and each failing call, and two cover a failure during the recovery from
another.  With one record those runs cannot see one record's queue decide about another:
`SyncSettles` has two.  Two fields, one per write, are what two contents can differ in;
`SyncCore` and `SyncSettles` have them.  Liveness is checked under client-wins because that
is where a conflict is pushed again, so where the retry counter matters.  Two sockets are an
old and a new one; two requests are one that is late and one that could be given its
answer.  With one engine no connect replaces an engine in use, so the runs never reach
`orphaned`; the theorems are about any number of engines.  Two rows and two keys fill, share
and empty a bucket; two conditions contradict, repeat or complete each other; one key of
each type and `true` give every kind of comparison across types (`StorageTypes`).  Two operations
are the least that overlap; a transaction of two rewrites the same document.  Two rows are
enough for a page: an offset of one and a limit of one each cut something, and a row that two groups
match shows.  Three calls of connect are one per tab and one that overlaps, repeats or
follows a reload; two versions make one tab older than the other, and the declared indexes
change in each of the ways `Migrated` tells apart.  Four operations on the same two rows
meet in every order, with every failure; two fetches are the one that is late and the one
that replaced it.

What the violations say (PROJECT.json, `findings`, quotes the text each contradicts):

* `NewerEditKept` - a pulled change can overwrite a newer queued edit: the snapshot has
  one queued change per record, the oldest, and none made after the cycle began.
* `MatchFindsAll` - the hooks of two overlapping writes of a document interleave so that
  the older one removes a posting the newer text needs.
* `StaleIsDisconnected` - another tab's upgrade reaches a database whose connect() still
  waits for a plugin: the database is marked disconnected and torn down, and then
  connect() marks it connected, without a connection.

Fairness.  `SyncSystem`: the cycle, the server, hooks, maintenance and the reopening of a
closed program keep taking steps - the interval starts cycles and promises that can settle
do; nothing makes the application, other clients, time or a disturbance happen.
`SyncSession`: armed timers fire, continuations run, and a closing socket closes; no step of
the network, the server, the application, the later plugins or the other tabs is fair, so
`CycleEnds`, `InitEnds` and `Reconnects` rest on the code's own timers alone.  `InitEnds`
excuses an engine destroyed while it waits, and what follows a connect beside it;
`ConnectEnds` does not and fails.  `ConnectionSystem`: the browser processes its requests,
delivers events and ends transactions, promises settle, those of `stranded` calls excepted,
and a teardown ends; the application need not do anything.  `ViewSystem`: transactions run,
promises settle, effects follow their render and armed timers fire; no operation, render,
failure or unmounting is fair, nor is the browser's delivery order.  The storage, search and
store runs are safety only.  Deadlock checking is off since all these systems may stop: the
application has no more writes to make within the bounds.


## 5. Proofs

Proved for every set of records, writes, clients, queries of the log, batch and page
size, clock skew, bound and strategy allowed by the named assumptions
(`ConstantsAssumption`, `EngineAssumption`, `AppOpsAssumption`, ...):

* `SyncProofs!TypeCorrect`: `Spec => []TypeOK`.  Types alone are not inductive: the
  engine indexes the log with `at`, so `TypeInv` adds that the engine's positions are
  inside the log (`PageOK`).  One lemma per action; lemmas are shared by the actions
  that end a cycle or touch only the queue or only the server.
* `SyncProofs!CommittedCovered`: `Spec => []CommittedIsCovered`, the central claim
  that a local write leaves the queue as committed only if the server's log has it or a
  write of that record at least as new.
* `SyncProofs!CoverInvHolds`: its inductive invariant.  A change is committed in
  three places: an accepted answer, a conflict given up, an echo or newer entry pulled.
  `CoverInv` says why each is right - what is in flight was entered and no longer
  changes (`InFlightIsEntered`), each answer is justified by the log
  (`AnswersAreLogged`), records come from logged writes (`RecordsAreLogged`), each list
  being settled is the one of the answer it is meant for (`ListIsAnswered`), and whatever
  is about to cause a commit is already covered (`CauseIsCovered`).  The log only grows,
  so covered stays covered.  TLC checks `CoverInv` in `SyncFaults`.
* `SyncLifecycleProofs!CompactionKeepsLastWord` and `SyncingRowsAreOwned` from one
  invariant, `QueueInv`.  Compaction reads the queue once and deletes row by row, with
  anything in between, so what its list promises must survive: `DoomedAreOutdone` says that
  for each listed row another change of the record, as new, was once queued - a fact about
  the past, which no purge or retry undoes.  A row in `syncing` belongs to the running
  cycle because a batch is chosen among rows that are pending (`MarkedAreQueued`), each
  leaves `todo` only as its outcome is written, and each path out of a cycle either has
  emptied `todo` or written every row back; `aborted` marks those that have not.
* `SyncLifecycleProofs!SyncImplementsLifecycle`: the refinement.  Under the mapping
  (`stage[c]` from the row's status) each action is one `ChangeLifecycle` step per
  change or a stutter; the step to `done` needs `CoverInv`, the step of compaction
  `DoomedAreOutdone`.
* `SyncAgreementProofs!KeptEditsAreQueued`: `NewestWins /\ ClientBehind /\ Spec =>
  KeptEditIsQueued`, that is under lww and client-wins.  A pulled change is skipped for
  the oldest edit of a snapshot taken when the cycle began; since then that edit may have
  been pushed, settled, compacted or purged.
  `KeptInv` says why something newer is still to come.  The log is in the order of the
  server's clock and a logged edit is not older than its row (`ClockInv`), so what made
  the server commit the edit is a later entry; and for every row that compaction drops
  or has listed, one as new stays that it has not listed (`LastWordStands`).
* `SyncAgreementProofs!ClientConverges`: `Agreeable /\ Spec => []Converged`, under every
  built-in strategy.  `Converged` speaks of quiet moments: a row carries the server's
  content if it has every field of it with the server's value (`Carries`), and more the code
  does not achieve.  `AgreeInv` says what keeps every other moment repairable.
  `WillAgree`: each row carries the server's content already, or the record has an entry
  of the log that the client has still to apply (`ToApply`), or an edit that it has still to
  push (`Standing`), or an edit was lost before it was queued.  A step that removes one
  reason must leave another: applying or skipping the next entry (`PositionInv`,
  `RecordsAreLast`), committing an edit (its answer put an entry in the log, or the
  record is about to be overwritten: `AnswersAreFresh`, `RemoteIsFresh`), compaction
  (`LastWordStands`).  `ToApply` counts no entry that the cycle's snapshot makes a
  replay, so skipping one costs nothing and only beginning a cycle takes such reasons
  away (`BeginAgrees`).  Then the edit of the snapshot is still to be pushed, unless
  compaction has it listed; in that case, under lww and client-wins, an edit at
  least as new is, or the log has a later entry (`WantedOrLogged`).  TLC checked `AgreeInv`
  under each of the three strategies, on instances like `SyncCore`, before it was proved.

  What `Agreeable` asks, and why:
  * a client clock that is not ahead of the server's (`ClientBehind`): with
    `ClientSkew = 1` TLC finds both properties violated, by an edit that looks newer than
    a change made after it;
  * retryFailedSync or compactSyncQueue, not both (`OneTool`): a retry may queue a change
    again that a conflict is about to give up; compaction then keeps that one of two edits
    of the same millisecond and drops the other, the conflict commits the one kept, and
    the client shows an edit the server never gets (`SyncTools.cfg`, three disturbances);
  * no compaction under server-wins: compaction may drop an edit for a newer one that was
    already given up for an older write of the server, and the engine's snapshot of that edit
    then makes the pull skip the server's last entry (found by TLC with three local and two
    remote writes and four disturbances; no instance for it is kept);
  * no custom resolver: what it merges is written locally and never pushed, so client and
    server need not agree.

* `SessionProofs`: `TransportHasOneSocket`, `RequestsWaitOnOpenSocket`,
  `DisconnectLeavesNothing` and the action property `AnswersReachTheirRequest`, from
  `SessionInv`.  The transport hears only the socket it holds (`HearsWs`), the connection
  timer is that socket's (`DialsWs`), at most one redial is armed, and then no socket is
  there (`RedialsOnce`); without an engine in use there is none of
  these (`QuietWhenUnused`); a pending request was sent on the open socket
  (`AwaitsOpenSocket`).  The plugin refers to the engine in use (`CurrentIsLive`), so
  whoever destroys it leaves the transport quiet, also while its init dials
  (`DestroyOrderly`).  All of it is claimed only until a connect replaces an engine still in
  use (`orphaned`): that engine acts on, and a second socket beside it is possible; types
  and ids hold there too.

* `StorageProofs!IndexAlwaysExact`: `Spec => []IndexExact`, for every set of ids, keys and
  values that no index holds (`StoreAssumption`, `OperatorsAssumption`).  `IndexExact` is
  nearly inductive: only the rollback needs more, that the entry at its turn exists
  (`JournalsFit`).  Every operation comes down to `StoreRows`, so the argument is about one
  write of any number of rows: `BucketsFollow`, `OddRowsFollow` (the count, with the
  library's facts on cardinalities) and `CacheFollows`.
* `StorageProofs!UniqueAlwaysHolds` and `QueriesAlwaysAgree` rest on it: the unique check
  and the index scan both read the index, and are right because it is exact.
  `RangeIsMatch` and `CandidatesCover` say that the scan's range selects the rows that
  match and that the walk of the keys misses none of them.  The first needs `Typed`, since
  the range and the predicate compare differently: `QueriesAgree` is about the queries that
  are `WellTyped` in the rows at hand, and for the others TLC refutes it
  (`IndexChangesNothing`).  `AnyQueryAlwaysAgrees` says the same of queries with any number
  of conditions, without the runs' bound.  Booleans are unique too: where there is no key
  the check goes through the rows.
* `StorageProofs!PagesAlwaysAgree`: `Spec => []PagesAgree`, for any rows, groups, offset and
  limit, of the rows its groups find, whatever their types.  Merging the groups leaves every
  row once and loses none (`MergedRows`, `AnswersAre`); sorting is a choice of places, so no
  row is lost or doubled (`SortedRows`), such a choice exists for every order of a finite
  set (`OrderExists`: comparator and stable tie-break never leave the engine without a
  result), and the ascending order is unique (`AscendingIsOne`: without a sort there is one
  page); a page is what stands after the offset, so the rows before it are as many as the
  offset says (`PageIsInOrder`).
* `StorageProofs!RollbackAlwaysRestores`: during the loop of rollback(), every row it
  has undone is what the earliest of the entries undone so far says (`UndoneInv`).  At the
  end that entry is the row's first one in the journal, which exists by the least-element
  principle (`FirstEntry`): the loop must run from the newest entry down.

* `SearchProofs`: `IndexIsExact`, `StampFollowsBuild`, `MatchesAreFound` and the types from
  `SearchInv`, for any documents, tokens, texts and callers.  Exactness at rest is the end
  of a longer story: hooks wait, one by one and posting by posting.  `LeadsToIndex` says
  where they lead: of all waiting hooks the last to touch a posting leaves it as the row's
  text wants it, and a posting that none touches is already right.  It needs that a clean
  document is one caller's business (`Sole`), that what an operation read is still there
  (`SeenIsCurrent`) and, for a rollback, that the index still is that of the rows the
  transaction will put back (`UndoIsIndexed`), because its hooks have not begun.
  `BuildInv` is the rebuild's loop invariant, and `SteadyInv` that of the query's
  lookups.  TLC checked `SearchInv` on the instance of `Search` before it was proved.

* `ConnectionProofs`: `AdapterIsCurrent`, `NothingLeaks` and `SchemaApplied` from one
  invariant (`ConnectionInvariant`).  It adds that every living connection asked for the
  stored version (`LiveIsCurrent`), that the stored indexes are those this version declares
  (`IndexesMatch`), and, for what leaks, that a tab whose calls of connect did not overlap
  has one call under way and a connection only while it claims one or initialises its
  plugins (`OneAtATime`).  A stranded call is one with its plugins (`StrandedIsInPlugins`),
  so it is counted there.  An upgrade runs only when nobody else is connected, so it changes
  the version under nobody.
* `ViewProofs!StoreImplementsAtomicStore`: every step of the store over the browser's
  transactions is a step of `AtomicStore` or changes nothing of it.  Its invariant
  (`StoreInvariant`): only the head of the line has written anything; what it sees is the
  committed rows with its own requests' effect on the rows it is done with, each accepted
  on what the row was; an operation waits in the line once, while asked or answered.
  `AnswersAreDurable` follows from the same invariant.
* `ViewProofs`: `NeverShowsOlder` and `ShowsOnlyItsQuery`.  The invariant
  (`ViewInvariant`): what is shown and what was fetched is committed (`SeenCommits`), so a
  fetch that reads now reads at least what is shown; the answer the component waits for is
  not older than what it shows (`LatestIsNewer`), because only that answer may replace it;
  and the fetches of an effect ask the query of its render (`OwnAskIt`).

The assumptions are on the constants only, each named where the constant is declared: sets
of ids and texts are what they are used as, `DocAssumption` (the ids of one call
are a finite list), `QueriesAssumption` (a query is what the builder can make) and bounds
are naturals.

Every safety invariant, action property and refinement that a passing run checks is
stated by a theorem.  `Converged` is also checked where it is proved (`SyncCore` under
lww, `SyncSettles` under client-wins), and is not claimed outside `Agreeable`.
Only model-checked: every temporal property (`Settles`, `CatchesUp`, `BreakerOpens`,
`InitEnds`, `CycleEnds`, `TriggerHonoured`, `Reconnects`, `ConnectSettles`,
`UpgradeHappens`, `ViewSettles`): fairness and ENABLED are outside the prover's reach.

The library's theorems of induction take an operator as a parameter, which the provers
cannot instantiate.  Where an argument needs induction, over the merged rows of the groups or
the entries of a journal, the set of numbers that satisfy a claim takes the operator's place
(`Inductive`), and the function that a recursive definition names is shown to
exist by the same means (`Iterated`).


## 6. Plan

Built so far, in this order: Sync (the core), its proofs, Session, Storage, Search, the
proofs of Storage, the pages of queries, Connections and Views with their proofs, the
proofs of the queue's life, of Session and of Search, that client and server agree under
each built-in strategy, and that pages are right.
Next, most important first:

1. the server's collections filter: a constant `Wanted` of records a client pulls, and
   a page that holds only others';
2. several tabs on one queue: recovery of one against the cycle of the other;
3. a second engine in the Session runs, for the sockets and cycles of overlapping connects;
4. `createSyncEventLog`, the realtime server, cascading deletes of the relations plugin.


## 7. Not modelled, and why

* `src/adapter/idb.ts`: metadata, key ranges and messages of errors.  The browser's part
  is modelled from the standard's behaviour the code relies on, and marked external.
* `src/react.ts`: useMutation, useSyncStatus, useSyncQueue and the developer panel, each a
  flag or a list around one call.
* `examples/sync/server-node/src/routes/ws.ts`: planned with several clients.
* `src/plugins/validation`, `src/schema.ts`, `src/model`, `src/reactive`: checks and
  conversions of one value, sequential, without a protocol.
* `src/plugins/relations`: planned.
* status codes, headers and encodings of the transports: pure input and output.
* tokenizing, and which contents a server refuses: data.
* the examples' user interfaces, the site and build scripts.
