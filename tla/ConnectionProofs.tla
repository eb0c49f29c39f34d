-------------------------- MODULE ConnectionProofs --------------------------
(***************************************************************************)
(* The adapter only ever holds a current, open connection; nothing leaks;   *)
(* and a connection sees the indexes of its schema.  Proved for any number   *)
(* of tabs, calls, versions and fields.                                      *)
(***************************************************************************)
EXTENDS ConnectionSystem, TLAPS


-----------------------------------------------------------------------------
(* The inductive invariant. *)

\* The types, but for the queue: only its head matters here.
Types ==
    /\ version \in 0 .. MaxVersion
    /\ indexes \in [Field -> IndexKind]
    /\ conn \in [Call -> ConnState]
    /\ wants \in [Call -> 0 .. MaxVersion]
    /\ DatabaseTypeOK

\* A connection that lives is one of the stored version.
LiveIsCurrent == \A c \in Call : Live(c) => wants[c] = version

\* The adapter's connection is open and was asked for by its tab.
AdapterIsOpen ==
    \A t \in Tab : adapter[t] # None =>
        conn[adapter[t]] = "open" /\ of[adapter[t]] = t

\* The stored indexes are those the stored version declares.
IndexesMatch ==
    version # 0 => \A f \in Field : Declared[version][f] \in {"none", indexes[f]}

\* A request that is not settled asks for a version of the schema.
AskedFor == \A c \in Call : conn[c] \notin {"none", "closed"} => wants[c] \in Version

\* A call after its connection opened that has not settled.
InPlugins(c) == stage[c] \in {"reading", "plugins"}

\* A call that has begun belongs to a tab; one that has not has no request; only
\* the plugins can lose a call.
Owned ==
    \A c \in Call :
        /\ stage[c] = "unused" => of[c] = None
        /\ stage[c] # "unused" => of[c] \in Tab
        /\ stage[c] \in {"unused", "waiting"} => conn[c] = "none"
        /\ InPlugins(c) => conn[c] \in {"open", "closing", "closed"}
        /\ c \in stranded => stage[c] = "plugins"

\* Without overlapping calls a tab has one call under way, a connection only
\* while it claims one or initialises its plugins, and none beside the adapter's.
OneAtATime ==
    \A t \in Tab \ overlapped :
        /\ \A c, d \in CallsOf(t) : UnderWay(c) /\ UnderWay(d) => c = d
        /\ adapter[t] # None => t \in claims \/ \E c \in CallsOf(t) : InPlugins(c) /\ UnderWay(c)
        /\ \A c \in CallsOf(t) : stage[c] = "opening" => t \notin claims

IInv ==
    /\ Types
    /\ LiveIsCurrent /\ AdapterIsOpen /\ IndexesMatch /\ AskedFor /\ Owned
    /\ OneAtATime /\ NothingLeaks

-----------------------------------------------------------------------------
LEMMA InitIInv == Init => IInv
  BY IndexedDbAssumption, ReloadsAssumption
     DEF Init, BrowserInit, DatabaseInit, IInv, Types, DatabaseTypeOK, LiveIsCurrent, Live,
         AdapterIsOpen, IndexesMatch, AskedFor, Owned, OneAtATime, NothingLeaks, CallsOf,
         UnderWay, InPlugins, IndexKind, ConnState, Stage

\* A teardown and a second open lose only calls that are with their plugins.
LEMMA StrandedIsInPlugins ==
  ASSUME NEW cs, SomeStranded(cs)
  PROVE  /\ stranded \subseteq stranded'
         /\ \A d \in stranded' \ stranded : d \in cs /\ stage[d] = "plugins"
  BY DEF SomeStranded

LEMMA NextIInv == IInv /\ [Next]_vars => IInv'
<1> SUFFICES ASSUME IInv, [Next]_vars PROVE IInv'
  OBVIOUS
<1> USE IndexedDbAssumption, ReloadsAssumption
<1> USE DEF IInv, Types, DatabaseTypeOK, LiveIsCurrent, Live, AdapterIsOpen, IndexesMatch,
            AskedFor, Owned, OneAtATime, NothingLeaks, CallsOf, UnderWay, InPlugins, ConnState,
            Stage, Reach, browserVars, databaseVars
<1>1. CASE UNCHANGED vars
  BY <1>1 DEF vars
<1>2. ASSUME NEW t \in Tab, NEW c \in Call, ConnectCalled(t, c) PROVE IInv'
  BY <1>2 DEF ConnectCalled
<1>3. ASSUME NEW c \in Call, ConnectStarts(c) PROVE IInv'
  <2>1. CASE of[c] \in claims /\ Reach(c, "settled") /\ UNCHANGED browserVars
    BY <1>3, <2>1 DEF ConnectStarts
  <2>2. CASE of[c] \notin claims /\ Reach(c, "opening") /\ Open(c, app[of[c]])
    <3>1. /\ stage[c] = "waiting" /\ conn[c] = "none" /\ of[c] \in Tab
          /\ UNCHANGED <<app, of, adapter, claims, leaving, stranded, overlapped, reloads>>
          /\ UNCHANGED <<version, indexes>>
      BY <1>3, <2>2 DEF ConnectStarts, Open
    <3>2. /\ stage' = [stage EXCEPT ![c] = "opening"]
          /\ conn' = [conn EXCEPT ![c] = "queued"]
          /\ wants' = [wants EXCEPT ![c] = app[of[c]]]
      BY <2>2 DEF Open
    <3>3. app[of[c]] \in Version /\ app[of[c]] \in 0 .. MaxVersion
      BY <3>1 DEF Version
    <3>4. Types' /\ LiveIsCurrent' /\ AdapterIsOpen' /\ IndexesMatch'
      BY <3>1, <3>2, <3>3
    <3>5. AskedFor' /\ Owned' /\ NothingLeaks'
      BY <3>1, <3>2, <3>3
    <3>6. OneAtATime'
      BY <2>2, <3>1, <3>2
    <3> QED
      BY <3>4, <3>5, <3>6
  <2> QED
    BY <1>3, <2>1, <2>2 DEF ConnectStarts
<1>4. ASSUME NEW t \in Tab, DisconnectCalled(t) PROVE IInv'
  <2>1. /\ leaving' \subseteq Tab
        /\ UNCHANGED <<browserVars, app, of, stage, adapter, claims, overlapped, reloads>>
    BY <1>4 DEF DisconnectCalled
  <2>2. /\ stranded \subseteq stranded'
        /\ \A d \in stranded' \ stranded : d \in CallsOf(t) /\ stage[d] = "plugins"
    BY <1>4, StrandedIsInPlugins DEF DisconnectCalled
  <2>3. Types' /\ LiveIsCurrent' /\ AdapterIsOpen' /\ IndexesMatch' /\ AskedFor'
    BY <2>1, <2>2
  <2>4. Owned' /\ NothingLeaks'
    BY <2>1, <2>2
  <2>5. OneAtATime'
    <3>1. t \in claims
      BY <1>4 DEF DisconnectCalled
    <3>2. \A c \in Call : UnderWay(c)' => UnderWay(c)
      BY <2>1, <2>2
    <3>3. \A c \in Call : of[c] # t => (UnderWay(c) <=> UnderWay(c)')
      BY <2>1, <2>2
    <3> QED BY <2>1, <3>1, <3>2, <3>3
  <2> QED BY <2>3, <2>4, <2>5
<1>5. ASSUME NEW t \in Tab, Uses(t) PROVE IInv'
  BY <1>5 DEF Uses, TransactionBegins
<1>6. ASSUME NEW t \in Tab, Reloads(t) PROVE IInv'
  BY <1>6 DEF Reloads, Vanish
<1>7. ASSUME NEW c \in Call, Processes(c) PROVE IInv'
  <2>1. CASE OpensAsStored(c) /\ UNCHANGED databaseVars
    BY <2>1 DEF OpensAsStored, Finish
  <2>2. CASE RefusesOlder(c) /\ UNCHANGED databaseVars
    BY <2>2 DEF RefusesOlder, Finish
  <2>3. CASE TellsOthers(c) /\ UNCHANGED databaseVars
    BY <2>3 DEF TellsOthers
  <2>4. CASE UpgradeCommits(c) /\ UNCHANGED databaseVars
    BY <2>4 DEF UpgradeCommits, MayUpgrade, Others, Migrated, Finish, IndexKind
  <2>5. CASE UpgradeAborts(c) /\ UNCHANGED databaseVars
    BY <2>5 DEF UpgradeAborts, MayUpgrade, Finish
  <2> QED
    BY <1>7, <2>1, <2>2, <2>3, <2>4, <2>5 DEF Processes, Upgrades
<1>8. ASSUME NEW c \in Call, OnBlocked(c) PROVE IInv'
  BY <1>8 DEF OnBlocked, Blocks
<1>9. ASSUME NEW c \in Call, OnError(c) PROVE IInv'
  BY <1>9 DEF OnError
<1>10. ASSUME NEW c \in Call, OnSuccess(c) PROVE IInv'
  BY <1>10 DEF OnSuccess
<1>11. ASSUME NEW c \in Call, OnLateSuccess(c) PROVE IInv'
  BY <1>11 DEF OnLateSuccess, Close
<1>12. ASSUME NEW c \in Call, OnVersionChange(c) PROVE IInv'
  <2>1. /\ conn[c] = "open" /\ of[c] \in Tab
        /\ adapter' = [adapter EXCEPT ![of[c]] = None] /\ claims' = claims \ {of[c]}
        /\ UNCHANGED <<app, of, stage, leaving, overlapped, reloads>>
    BY <1>12 DEF OnVersionChange, HandleConnectionChange
  <2>2. /\ stranded \subseteq stranded'
        /\ \A d \in stranded' \ stranded : d \in CallsOf(of[c]) /\ stage[d] = "plugins"
    BY <1>12, StrandedIsInPlugins DEF OnVersionChange, HandleConnectionChange
  <2>3. /\ conn' \in [Call -> ConnState]
        /\ conn'[c] \in {"closing", "closed"}
        /\ \A d \in Call : d # c => conn'[d] = conn[d]
        /\ UNCHANGED <<version, indexes, wants>>
    BY <1>12 DEF OnVersionChange, Close
  <2>4. Types' /\ LiveIsCurrent' /\ AdapterIsOpen' /\ IndexesMatch' /\ AskedFor'
    BY <2>1, <2>2, <2>3
  <2>5. Owned'
    BY <2>1, <2>2, <2>3
  <2>6. NothingLeaks'
    BY <2>1, <2>3
  <2>7. OneAtATime'
    <3>1. \A d \in Call : UnderWay(d)' => UnderWay(d)
      BY <2>1, <2>2
    <3>2. \A d \in Call : of[d] # of[c] => (UnderWay(d) <=> UnderWay(d)')
      BY <2>1, <2>2
    <3> QED BY <2>1, <3>1, <3>2
  <2> QED BY <2>4, <2>5, <2>6, <2>7
<1>13. ASSUME NEW c \in Call, InitFails(c), InPlugins(c), UnderWay(c) PROVE IInv'
  BY <1>13 DEF InitFails, AdapterDisconnects, Close
<1>14. ASSUME NEW c \in Call, InitReads(c) PROVE IInv'
  <2>1. CASE InitFails(c)
    BY <1>13, <1>14, <2>1 DEF InitReads
  <2>2. CASE Reach(c, "plugins") /\ UNCHANGED browserVars
             /\ SomeStranded(CallsOf(of[c]))
             /\ UNCHANGED <<app, of, adapter, claims, leaving, overlapped, reloads>>
    <3>1. stage[c] = "reading" /\ stage' = [stage EXCEPT ![c] = "plugins"]
      BY <1>14, <2>2 DEF InitReads
    <3>2. /\ stranded \subseteq stranded'
          /\ \A d \in stranded' \ stranded : d \in CallsOf(of[c]) /\ stage[d] = "plugins"
      BY <2>2, StrandedIsInPlugins
    <3>3. Types' /\ LiveIsCurrent' /\ AdapterIsOpen' /\ IndexesMatch' /\ AskedFor'
      BY <2>2, <3>1, <3>2
    <3>4. Owned' /\ NothingLeaks'
      BY <2>2, <3>1, <3>2
    <3>5. OneAtATime'
      <4>1. of[c] \notin overlapped =>
                \A d \in CallsOf(of[c]) : UnderWay(d) => d = c
        BY <3>1
      <4>2. \A d \in Call : of[d] \notin overlapped => (UnderWay(d) <=> UnderWay(d)')
        BY <2>2, <3>1, <3>2, <4>1
      <4> QED BY <2>2, <3>1, <4>2
    <3> QED BY <3>3, <3>4, <3>5
  <2> QED
    BY <1>14, <2>1, <2>2 DEF InitReads
<1>15. ASSUME NEW c \in Call, PluginsReady(c) PROVE IInv'
  BY <1>15 DEF PluginsReady
<1>16. ASSUME NEW c \in Call, PluginsFail(c) PROVE IInv'
  BY <1>13, <1>16 DEF PluginsFail
<1>17. ASSUME NEW t \in Tab, DisconnectEnds(t) PROVE IInv'
  BY <1>17 DEF DisconnectEnds, AdapterDisconnects, Close
<1>18. ASSUME NEW c \in Call, Ends(c) PROVE IInv'
  BY <1>18 DEF Ends, TransactionEnds
<1> QED
  BY <1>1, <1>2, <1>3, <1>4, <1>5, <1>6, <1>7, <1>8, <1>9, <1>10, <1>11, <1>12, <1>14, <1>15,
     <1>16, <1>17, <1>18
     DEF Next, AppStep, CallStep, Handles, Continues

-----------------------------------------------------------------------------
\* What the tabs may rely on, for every number of tabs, calls and versions.
THEOREM ConnectionInvariant == Spec => []IInv
  BY InitIInv, NextIInv, PTL DEF Spec

\* The adapter only holds a connection that is open and of the stored version:
\* the versionchange handler of idb.ts lets no other survive an upgrade.
THEOREM AdapterStaysCurrent == Spec => []AdapterIsCurrent
<1>1. IInv => AdapterIsCurrent
  BY DEF IInv, Types, DatabaseTypeOK, AdapterIsOpen, LiveIsCurrent, Live, AdapterIsCurrent
<1> QED
  BY <1>1, ConnectionInvariant, PTL

\* Without overlapping calls of connect() no open connection is forgotten: not
\* after a blocked or a late request, nor after a failed initialisation.
THEOREM NothingEverLeaks == Spec => []NothingLeaks
<1>1. IInv => NothingLeaks
  BY DEF IInv
<1> QED
  BY <1>1, ConnectionInvariant, PTL

\* An open connection sees every index of its schema, with the kind declared.
THEOREM SchemaIsApplied == Spec => []SchemaApplied
<1>1. IInv => SchemaApplied
  <2> SUFFICES ASSUME IInv, NEW c \in Call, conn[c] = "open"
               PROVE  \A f \in Field : Declared[wants[c]][f] \in {"none", indexes[f]}
    BY DEF SchemaApplied
  <2>1. wants[c] = version /\ wants[c] \in Version
    BY DEF IInv, LiveIsCurrent, Live, AskedFor
  <2> QED
    BY <2>1 DEF IInv, IndexesMatch, Version
<1> QED
  BY <1>1, ConnectionInvariant, PTL
=============================================================================
