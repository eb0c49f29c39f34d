----------------------------- MODULE ViewProofs -----------------------------
(***************************************************************************)
(* The operations of a collection on IndexedDB implement the atomic store,  *)
(* and what a batch or a transaction answers is durable.  The component      *)
(* that shows a query over it never goes back in time and never shows the    *)
(* rows of another query than the one it asks.  For whatever rows,           *)
(* operations, queries and fetches there are.                                *)
(***************************************************************************)
EXTENDS ViewSystem, TLAPS

-----------------------------------------------------------------------------
(* The store: the inductive invariant. *)

\* An operation waits in line once, from the making of its transaction to its
\* end; it has taken effect only after that.
LineInv ==
    /\ line \in Seq(Op \cup Fetch)
    /\ \A j \in 1 .. Len(line) : line[j] \in Op =>
          /\ line[j] \notin applied
          /\ phase[line[j]] \in {"asked", "answered", "ended"}
    /\ \A j, k \in 1 .. Len(line) : line[j] = line[k] /\ line[j] \in Op => j = k

\* An operation that has not been asked for has not taken effect.
AppliedInv == \A o \in applied : phase[o] \notin {"new", "called"}

\* What the running transaction has written is its effect on those rows.
SeenInv ==
    /\ done # {} => line # <<>> /\ Head(line) \in Op /\ done \subseteq Touches[Head(line)]
    /\ \A i \in Id \ done : seen[i] = rows[i]
    /\ \A i \in done :
          Accepts(Head(line), rows[i]) /\ seen[i] = Written(Head(line), rows[i])

Types ==
    /\ rows \in Rows /\ seen \in Rows
    /\ applied \subseteq Op /\ idle \subseteq applied
    /\ phase \in [Op -> Phase]
    /\ done \subseteq Id

StoreInv == Types /\ LineInv /\ AppliedInv /\ SeenInv /\ AnsweredIsDurable

-----------------------------------------------------------------------------
(* The line of transactions. *)

\* The first leaves the line.
LEMMA PopKeepsLine ==
  ASSUME LineInv, line # <<>>, line' = Tail(line),
         applied' \subseteq applied \cup {Head(line)},
         \A p \in Op \ {Head(line)} : phase'[p] = phase[p]
  PROVE  LineInv'
<1> DEFINE n == Len(line)
<1>1. line \in Seq(Op \cup Fetch) /\ n \in Nat /\ n > 0 /\ Head(line) = line[1]
  BY DEF LineInv
<1>2. /\ Tail(line) \in Seq(Op \cup Fetch) /\ Len(Tail(line)) = n - 1
      /\ \A j \in 1 .. n - 1 : Tail(line)[j] = line[j + 1]
  BY <1>1
<1>3. \A j \in 1 .. n - 1 : j + 1 \in 1 .. n /\ j + 1 # 1
  BY <1>1
<1>4. ASSUME NEW j \in 1 .. n - 1, line[j + 1] \in Op
      PROVE  line[j + 1] \notin applied' /\ phase'[line[j + 1]] \in {"asked", "answered", "ended"}
  <2>1. j + 1 \in 1 .. n /\ 1 \in 1 .. n /\ j + 1 # 1
    BY <1>1, <1>3
  <2>2. line[j + 1] # line[1]
    BY <1>4, <2>1 DEF LineInv
  <2>3. line[j + 1] \notin applied /\ phase[line[j + 1]] \in {"asked", "answered", "ended"}
    BY <1>4, <2>1 DEF LineInv
  <2> QED
    BY <1>1, <1>4, <2>2, <2>3
<1>5. ASSUME NEW j \in 1 .. n - 1, NEW k \in 1 .. n - 1,
             line[j + 1] = line[k + 1], line[j + 1] \in Op
      PROVE  j = k
  <2>1. j + 1 = k + 1
    BY <1>3, <1>5 DEF LineInv
  <2> QED
    BY <2>1
<1> HIDE DEF n
<1> QED
  BY <1>1, <1>2, <1>4, <1>5 DEF LineInv

\* A transaction that was not there joins the line.
LEMMA JoinKeepsLine ==
  ASSUME LineInv, NEW x \in Op \cup Fetch, line' = Append(line, x), applied' = applied,
         x \in Op => x \notin applied /\ phase[x] = "called" /\ phase'[x] = "asked",
         \A p \in Op \ {x} : phase'[p] = phase[p]
  PROVE  LineInv'
<1> DEFINE n == Len(line)
<1>1. line \in Seq(Op \cup Fetch) /\ n \in Nat
  BY DEF LineInv
<1>2. /\ line' \in Seq(Op \cup Fetch) /\ Len(line') = n + 1
      /\ \A j \in 1 .. n : line'[j] = line[j]
      /\ line'[n + 1] = x
  BY <1>1
<1>3. \A j \in 1 .. n + 1 : j \in 1 .. n \/ j = n + 1
  BY <1>1
<1>4. \A j \in 1 .. n : line[j] \in Op => line[j] # x
  BY DEF LineInv
<1> HIDE DEF n
<1>5. ASSUME NEW j \in 1 .. n + 1, line'[j] \in Op
      PROVE  line'[j] \notin applied' /\ phase'[line'[j]] \in {"asked", "answered", "ended"}
  <2>1. CASE j \in 1 .. n
    BY <1>2, <1>4, <1>5, <2>1 DEF LineInv, n
  <2>2. CASE j = n + 1
    BY <1>2, <1>5, <2>2
  <2> QED
    BY <1>3, <2>1, <2>2
<1>6. ASSUME NEW j \in 1 .. n + 1, NEW k \in 1 .. n + 1, line'[j] = line'[k], line'[j] \in Op
      PROVE  j = k
  <2>1. CASE j \in 1 .. n /\ k \in 1 .. n
    BY <1>2, <1>6, <2>1 DEF LineInv, n
  <2>2. CASE j = n + 1 \/ k = n + 1
    BY <1>2, <1>3, <1>4, <1>6, <2>2
  <2> QED
    BY <1>3, <2>1, <2>2
<1> QED
  BY <1>2, <1>5, <1>6 DEF LineInv

\* Nobody joins or leaves.
LEMMA StayInLine ==
  ASSUME LineInv, line' = line, applied' = applied,
         \A p \in Op \ applied : phase[p] \in {"asked", "answered", "ended"}
                                    => phase'[p] \in {"asked", "answered", "ended"}
  PROVE  LineInv'
  BY DEF LineInv

\* Whose turn it is has not taken effect.
LEMMA HeadIsPending ==
  ASSUME LineInv, NEW o \in Op, IsHead(o)
  PROVE  o \notin applied /\ phase[o] \in {"asked", "answered", "ended"}
<1>1. 1 \in 1 .. Len(line) /\ line[1] = o
  BY DEF LineInv, IsHead
<1> QED
  BY <1>1 DEF LineInv

LEMMA HeadOfAppend ==
  ASSUME NEW x \in Op \cup Fetch, line \in Seq(Op \cup Fetch), line # <<>>
  PROVE  Append(line, x) # <<>> /\ Head(Append(line, x)) = Head(line)
  OBVIOUS

-----------------------------------------------------------------------------
(* Every step keeps the invariant, and is a step of the atomic store. *)

LEMMA StoreInvInit == SystemInit => StoreInv
  BY StoreAssumption
     DEF SystemInit, StoreInit, Init, StoreInv, Types, Rows, NoRows, Absent, Phase, LineInv,
         AppliedInv, SeenInv, AnsweredIsDurable

\* A transaction that ends without an effect.
LEMMA AbortsKeeps ==
  ASSUME StoreInv, NEW o \in Op, NEW p \in {"failed", phase[o]}, Aborts(o, p)
  PROVE  StoreInv'
<1>1. o \notin applied /\ phase[o] \in {"asked", "answered", "ended"} /\ Head(line) = o
  BY HeadIsPending DEF StoreInv, Aborts, IsHead
<1>2. phase' = [phase EXCEPT ![o] = p] /\ p \in Phase
  BY <1>1 DEF Aborts, Become, Phase
<1>3. LineInv'
  BY <1>1, <1>2, PopKeepsLine DEF StoreInv, Types, Aborts, IsHead
<1>4. Types' /\ AppliedInv'
  BY <1>1, <1>2 DEF StoreInv, Types, AppliedInv, Aborts
<1>5. SeenInv'
  BY DEF StoreInv, Types, Aborts, SeenInv
<1>6. AnsweredIsDurable'
  BY <1>1, <1>2 DEF StoreInv, Types, AnsweredIsDurable, Single, Aborts
<1> QED
  BY <1>3, <1>4, <1>5, <1>6 DEF StoreInv

\* A transaction that takes effect, whatever its caller is told.
LEMMA InstallKeeps ==
  ASSUME StoreInv, NEW o \in Op, Install(o),
         idle' \subseteq idle \cup {o},
         NEW p \in Phase \ {"new", "called"}, phase' = [phase EXCEPT ![o] = p]
  PROVE  StoreInv'
<1>1. o \notin applied /\ Head(line) = o /\ line # <<>>
  BY HeadIsPending DEF StoreInv, Install, IsHead
<1>2. LineInv'
  BY <1>1, PopKeepsLine DEF StoreInv, Types, Install
<1>3. Types' /\ AppliedInv' /\ AnsweredIsDurable'
  BY <1>1 DEF StoreInv, Types, AppliedInv, AnsweredIsDurable, Single, Install, Rows
<1>4. SeenInv'
  BY DEF StoreInv, Types, Install, SeenInv
<1> QED
  BY <1>2, <1>3, <1>4 DEF StoreInv

\* The state of the store is untouched and nobody joins or leaves the line.
LEMMA QuietKeeps ==
  ASSUME StoreInv, UNCHANGED <<rows, applied, idle, line, seen, done>>,
         phase' \in [Op -> Phase],
         \A p \in Op : \/ phase'[p] = phase[p]
                       \/ p \in applied /\ phase'[p] \notin {"new", "called"}
                       \/ phase[p] = "answered" /\ phase'[p] = "ended"
                       \/ phase[p] = "new" /\ phase'[p] \in {"called", "failed"}
  PROVE  StoreInv'
<1>1. LineInv'
  BY StayInLine DEF StoreInv
<1>2. Types' /\ AppliedInv' /\ SeenInv' /\ AnsweredIsDurable'
  BY DEF StoreInv, Types, AppliedInv, SeenInv, AnsweredIsDurable, Single, Accepts, Written
<1> QED
  BY <1>1, <1>2 DEF StoreInv

\* A transaction is made, of an operation or of a fetch.
LEMMA JoinKeeps ==
  ASSUME StoreInv, NEW x \in Op \cup Fetch, line' = Append(line, x),
         UNCHANGED <<rows, applied, idle, seen, done>>, phase' \in [Op -> Phase],
         x \in Op => phase[x] = "called" /\ phase'[x] = "asked",
         \A p \in Op \ {x} : phase'[p] = phase[p]
  PROVE  StoreInv'
<1>1. x \in Op => x \notin applied
  BY DEF StoreInv, AppliedInv
<1>2. LineInv'
  BY <1>1, JoinKeepsLine DEF StoreInv
<1>3. Types' /\ AppliedInv'
  BY <1>1 DEF StoreInv, Types, AppliedInv
<1>4. AnsweredIsDurable'
  <2> SUFFICES ASSUME NEW p \in Op, phase'[p] \in {"answered", "ended"}, ~Single(p)
               PROVE  p \in applied
    BY DEF AnsweredIsDurable, Single
  <2>1. phase'[p] = phase[p]
    OBVIOUS
  <2> QED
    BY <2>1 DEF StoreInv, AnsweredIsDurable
<1>5. SeenInv'
  <2>1. CASE done = {}
    BY <2>1 DEF StoreInv, SeenInv
  <2>2. CASE done # {}
    <3>1. line' # <<>> /\ Head(line') = Head(line)
      BY <2>2, HeadOfAppend DEF StoreInv, SeenInv, LineInv
    <3> QED
      BY <2>2, <3>1 DEF StoreInv, SeenInv, Accepts, Written
  <2> QED
    BY <2>1, <2>2
<1> QED
  BY <1>2, <1>3, <1>4, <1>5 DEF StoreInv

\* A fetch has had its turn.
LEMMA FetchLeaves ==
  ASSUME StoreInv, NEW f \in Fetch, IsHead(f), line' = Tail(line),
         UNCHANGED <<rows, applied, idle, phase, seen, done>>
  PROVE  StoreInv'
<1>1. Head(line) \notin Op /\ line # <<>>
  BY FetchAssumption DEF IsHead
<1>2. LineInv'
  BY <1>1, PopKeepsLine DEF StoreInv
<1>3. done = {}
  BY <1>1 DEF StoreInv, SeenInv
<1>4. Types' /\ AppliedInv' /\ AnsweredIsDurable' /\ SeenInv'
  BY <1>3 DEF StoreInv, Types, AppliedInv, AnsweredIsDurable, Single, SeenInv
<1> QED
  BY <1>2, <1>4 DEF StoreInv

\* A request of the transaction that has the turn.
LEMMA RequestKeeps ==
  ASSUME StoreInv, NEW o \in Op, NEW i \in Touches[o], RequestSucceeds(o, i)
  PROVE  StoreInv'
<1>1. o \notin applied /\ phase[o] \in {"asked", "answered", "ended"} /\ Head(line) = o
      /\ line # <<>> /\ i \in Id /\ i \notin done
  BY HeadIsPending, StoreAssumption DEF StoreInv, RequestSucceeds, IsHead
<1>2. PICK q \in {"answered", phase[o]} :
         phase' = [phase EXCEPT ![o] = q] /\ (q = "answered" => q = phase[o] \/ Single(o))
  BY DEF RequestSucceeds, Become, AnsweredByRequest
<1>3. LineInv'
  BY <1>1, <1>2, StayInLine DEF StoreInv, Types, RequestSucceeds
<1>4. Written(o, seen[i]) \in SUBSET Op
  BY <1>1 DEF StoreInv, Types, Rows, Written, Absent
<1>5. Types' /\ AppliedInv'
  BY <1>1, <1>2, <1>4 DEF StoreInv, Types, AppliedInv, RequestSucceeds, Base, Rows, Phase
<1>6. AnsweredIsDurable'
  BY <1>1, <1>2 DEF StoreInv, Types, AnsweredIsDurable, Single, RequestSucceeds
<1>7. SeenInv'
  <2>1. /\ seen' = [seen EXCEPT ![i] = Written(o, seen[i])] /\ Accepts(o, seen[i])
        /\ done' = done \cup {i} /\ UNCHANGED <<rows, line>>
    BY DEF RequestSucceeds, Base
  <2>2. seen[i] = rows[i]
    BY <1>1 DEF StoreInv, SeenInv
  <2>3. done \subseteq Touches[o] /\ i \in Touches[o]
    BY <1>1 DEF StoreInv, SeenInv
  <2>4. \A j \in Id \ done' : seen'[j] = rows'[j]
    BY <2>1 DEF StoreInv, Types, Rows, SeenInv
  <2>5. \A j \in done' : Accepts(o, rows'[j]) /\ seen'[j] = Written(o, rows'[j])
    BY <1>1, <2>1, <2>2 DEF StoreInv, Types, Rows, SeenInv
  <2> QED
    BY <1>1, <2>1, <2>3, <2>4, <2>5 DEF SeenInv, Accepts, Written
<1> QED
  BY <1>3, <1>5, <1>6, <1>7 DEF StoreInv

\* The steps of the system, sorted by what they do to the store.
LEMMA StoreInvNext == StoreInv /\ [SystemNext]_vars => StoreInv'
<1> SUFFICES ASSUME StoreInv, [SystemNext]_vars PROVE StoreInv'
  OBVIOUS
<1>0. phase \in [Op -> Phase] /\ idle \subseteq applied
  BY DEF StoreInv, Types
<1>14. ASSUME UNCHANGED storeVars PROVE StoreInv'
  <2>1. UNCHANGED <<rows, applied, idle, line, seen, done>> /\ phase' = phase
    BY <1>14 DEF storeVars, txVars
  <2>2. phase' \in [Op -> Phase]
    BY <1>0, <2>1
  <2>3. \A p \in Op : \/ phase'[p] = phase[p]
                      \/ p \in applied /\ phase'[p] \notin {"new", "called"}
                      \/ phase[p] = "answered" /\ phase'[p] = "ended"
                      \/ phase[p] = "new" /\ phase'[p] \in {"called", "failed"}
    BY <1>0, <2>1
  <2> QED
    BY <2>1, <2>2, <2>3, QuietKeeps
<1>1. CASE UNCHANGED vars
  BY <1>0, <1>1, <1>14 DEF vars
<1>2. ASSUME NEW o \in Op, Calls(o) PROVE StoreInv'
  <2>1. UNCHANGED <<rows, applied, idle, line, seen, done>> /\ phase[o] = "new"
        /\ \E p \in {"called", "failed"} : phase' = [phase EXCEPT ![o] = p]
    BY <1>2 DEF Calls, Become, txVars
  <2>2. phase' \in [Op -> Phase]
    BY <1>0, <2>1 DEF Phase
  <2>3. \A p \in Op : \/ phase'[p] = phase[p]
                      \/ p \in applied /\ phase'[p] \notin {"new", "called"}
                      \/ phase[p] = "answered" /\ phase'[p] = "ended"
                      \/ phase[p] = "new" /\ phase'[p] \in {"called", "failed"}
    BY <1>0, <2>1
  <2> QED
    BY <2>1, <2>2, <2>3, QuietKeeps
<1>3. ASSUME NEW o \in Op, Asks(o) PROVE StoreInv'
  <2>1. phase[o] = "called" /\ phase' = [phase EXCEPT ![o] = "asked"]
        /\ line' = Append(line, o) /\ UNCHANGED <<rows, applied, idle, seen, done>>
    BY <1>3 DEF Asks, Become, txVars
  <2> QED
    BY <1>0, <2>1, JoinKeeps DEF Phase
<1>4. ASSUME NEW o \in Op, NEW i \in Touches[o], RequestFails(o, i) PROVE StoreInv'
  BY <1>4, AbortsKeeps DEF RequestFails
<1>5. ASSUME NEW o \in Op, Commits(o) PROVE StoreInv'
  <2>1. phase[o] \in {"asked", "answered", "ended"}
    BY <1>5, HeadIsPending DEF Commits, Install, StoreInv
  <2>2. PICK p \in {"answered", "ended"} : phase' = [phase EXCEPT ![o] = p]
    BY <1>5, <2>1 DEF Commits, Become
  <2>3. p \in Phase \ {"new", "called"}
    BY DEF Phase
  <2> QED
    BY <1>5, <2>2, <2>3, InstallKeeps DEF Commits
<1>6. ASSUME NEW o \in Op, CallbackGoesOn(o) PROVE StoreInv'
  <2>1. UNCHANGED <<rows, applied, idle, line, seen, done>> /\ o \in applied
        /\ \E p \in {"answered", "failed"} : phase' = [phase EXCEPT ![o] = p]
    BY <1>0, <1>6 DEF CallbackGoesOn, Become, txVars
  <2>2. phase' \in [Op -> Phase]
    BY <1>0, <2>1 DEF Phase
  <2>3. \A p \in Op : \/ phase'[p] = phase[p]
                      \/ p \in applied /\ phase'[p] \notin {"new", "called"}
                      \/ phase[p] = "answered" /\ phase'[p] = "ended"
                      \/ phase[p] = "new" /\ phase'[p] \in {"called", "failed"}
    BY <1>0, <2>1
  <2> QED
    BY <2>1, <2>2, <2>3, QuietKeeps
<1>7. ASSUME NEW o \in Op, CommitFails(o) PROVE StoreInv'
  <2>1. \E p \in {"failed", phase[o]} : Aborts(o, p)
    BY <1>7 DEF CommitFails
  <2> QED
    BY <2>1, AbortsKeeps
<1>8. ASSUME NEW o \in Op, CallbackThrows(o) PROVE StoreInv'
  BY <1>8, AbortsKeeps DEF CallbackThrows
<1>9. ASSUME NEW o \in Op, CallbackIdles(o) PROVE StoreInv'
  <2>1. "asked" \in Phase \ {"new", "called"} /\ phase' = [phase EXCEPT ![o] = "asked"]
    BY <1>0, <1>9 DEF CallbackIdles, Phase
  <2> QED
    BY <1>9, <2>1, InstallKeeps DEF CallbackIdles
<1>10. ASSUME NEW o \in Op, OpStep(o) PROVE StoreInv'
  BY <1>2, <1>3, <1>4, <1>5, <1>6, <1>7, <1>8, <1>9, <1>10, RequestKeeps
     DEF OpStep, Proceeds, Suffers
<1>11. ASSUME NEW o \in Op, Announces(o) PROVE StoreInv'
  <2>1. UNCHANGED <<rows, applied, idle, line, seen, done>> /\ phase[o] = "answered"
        /\ phase' = [phase EXCEPT ![o] = "ended"]
    BY <1>11 DEF Announces, Become, txVars
  <2>2. phase' \in [Op -> Phase]
    BY <1>0, <2>1 DEF Phase
  <2>3. \A p \in Op : \/ phase'[p] = phase[p]
                      \/ p \in applied /\ phase'[p] \notin {"new", "called"}
                      \/ phase[p] = "answered" /\ phase'[p] = "ended"
                      \/ phase[p] = "new" /\ phase'[p] \in {"called", "failed"}
    BY <1>0, <2>1
  <2> QED
    BY <2>1, <2>2, <2>3, QuietKeeps
<1>12. ASSUME NEW f \in Fetch, EffectRuns(f) \/ TimerFires(f) PROVE StoreInv'
  <2>1. f \notin Op /\ line' = Append(line, f)
        /\ UNCHANGED <<rows, applied, idle, phase, seen, done>>
    BY <1>12, FetchAssumption DEF EffectRuns, TimerFires, Starts, txVars
  <2> QED
    BY <1>0, <2>1, JoinKeeps
<1>13. ASSUME NEW f \in Fetch, FetchReads(f) \/ FetchFails(f) PROVE StoreInv'
  <2>1. IsHead(f) /\ line' = Tail(line)
        /\ UNCHANGED <<rows, applied, idle, phase, seen, done>>
    BY <1>13 DEF FetchReads, FetchFails, txVars
  <2> QED
    BY <2>1, FetchLeaves
<1>15. ASSUME NEW f \in Fetch, Delivers(f) PROVE StoreInv'
  BY <1>14, <1>15 DEF Delivers
<1>16. ASSUME NEW q \in Query, Renders(q) PROVE StoreInv'
  BY <1>14, <1>16 DEF Renders
<1>17. CASE Unmounts
  BY <1>14, <1>17 DEF Unmounts
<1> QED
  BY <1>1, <1>10, <1>11, <1>12, <1>13, <1>15, <1>16, <1>17 DEF SystemNext, FetchStep

\* A commit is the whole effect of the operation, on the rows as they are.
LEMMA CommitTakes ==
  ASSUME StoreInv, NEW o \in Op, Commits(o)
  PROVE  Store!Takes(o)
<1>1. o \notin applied /\ Head(line) = o /\ done = Touches[o]
  BY HeadIsPending DEF StoreInv, Commits, Install, IsHead
<1>2. rows' = seen /\ applied' = applied \cup {o} /\ UNCHANGED idle
  BY DEF Commits, Install
<1>3. seen = [i \in Id |-> IF i \in Touches[o] THEN Written(o, rows[i]) ELSE rows[i]]
  BY <1>1 DEF StoreInv, Types, Rows, SeenInv
<1>4. \A i \in Touches[o] : Accepts(o, rows[i])
  BY <1>1 DEF StoreInv, SeenInv
<1> QED
  BY <1>1, <1>2, <1>3, <1>4
     DEF Store!Takes, Store!Effect, Store!Accepts, Store!Written, Store!Absent,
         Accepts, Written, Absent

\* What a transaction has written when it goes idle is a part of its effect.
LEMMA IdleTakesPart ==
  ASSUME StoreInv, NEW o \in Op, CallbackIdles(o)
  PROVE  Store!TakesPart(o)
<1>1. o \notin applied /\ o \notin idle /\ Head(line) = o /\ Kind[o] = "transaction"
  BY HeadIsPending DEF StoreInv, Types, CallbackIdles, Install, IsHead
<1>2. rows' = seen /\ applied' = applied \cup {o} /\ idle' = idle \cup {o}
  BY DEF CallbackIdles, Install
<1>3. seen = [i \in Id |-> IF i \in done THEN Written(o, rows[i]) ELSE rows[i]]
  BY <1>1 DEF StoreInv, Types, Rows, SeenInv
<1>4. done \in SUBSET Touches[o]
  BY <1>1 DEF StoreInv, SeenInv
<1> QED
  BY <1>1, <1>2, <1>3, <1>4
     DEF Store!TakesPart, Store!Effect, Store!Written, Store!Absent, Written, Absent

LEMMA StepTakes ==
  StoreInv /\ [SystemNext]_vars => [Store!Next]_<<rows, applied, idle>>
<1> SUFFICES ASSUME StoreInv, SystemNext, ~UNCHANGED <<rows, applied, idle>>
             PROVE  Store!Next
  BY DEF vars, storeVars
<1>1. ASSUME NEW o \in Op, OpStep(o) PROVE Store!Next
  <2>1. Commits(o) \/ CallbackIdles(o)
    BY <1>1 DEF OpStep, Proceeds, Suffers, Calls, Asks, RequestSucceeds, RequestFails, Aborts,
                CallbackGoesOn, CommitFails, CallbackThrows
  <2> QED
    BY <2>1, CommitTakes, IdleTakesPart DEF Store!Next
<1> QED
  BY <1>1 DEF SystemNext, FetchStep, Announces, EffectRuns, TimerFires, FetchReads, FetchFails,
              Delivers, Renders, Unmounts, storeVars

-----------------------------------------------------------------------------
\* The invariant of the transactions on IndexedDB.
THEOREM StoreInvariant == SystemSpec => []StoreInv
  BY StoreInvInit, StoreInvNext, PTL DEF SystemSpec

\* create, update, delete, createMany, deleteMany and transaction of idb.ts
\* implement the atomic store: no lost update, no half-written batch.
THEOREM StoreImplementsAtomicStore == SystemSpec => ImplementsAtomicStore
<1>1. SystemInit => Store!Init
  BY DEF SystemInit, StoreInit, Init, Store!Init, Absent, Store!Absent
<1> QED
  BY <1>1, StepTakes, StoreInvariant, PTL DEF SystemSpec, ImplementsAtomicStore, Store!Spec

\* The hooks and events of a batch or a transaction follow its commit.
THEOREM AnswersAreDurable == SystemSpec => []AnsweredIsDurable
<1>1. StoreInv => AnsweredIsDurable
  BY DEF StoreInv
<1> QED
  BY <1>1, StoreInvariant, PTL

-----------------------------------------------------------------------------
(* The component: the inductive invariant. *)

FetchState == {"free", "asked", "read", "failed"}

\* A fetch and the component have seen what was committed, and no more.
SeenCommits ==
    /\ view.at \subseteq applied
    /\ \A f \in Fetch : fetch[f].at \subseteq applied

\* The answer the component waits for is not older than what it shows.
LatestIsNewer ==
    \A f \in Fetch : IsWanted(f) /\ fetch[f].state = "read" => view.at \subseteq fetch[f].at

\* Unless a render has yet to take effect, the fetches of the effect are for
\* the query of that render.
OwnAskIt == ~dirty => \A f \in own : fetch[f].query = asked

ViewTypes ==
    /\ fetch \in [Fetch -> [state : FetchState, query : Query \cup {None},
                            data : Rows, at : SUBSET Op]]
    /\ view \in [data : Rows, loading : BOOLEAN, error : BOOLEAN,
                 query : Query \cup {None}, at : SUBSET Op]
    /\ own \subseteq Fetch
    /\ asked \in Query
    /\ applied \subseteq Op
    /\ rows \in Rows /\ seen \in Rows

ViewInv == ViewTypes /\ SeenCommits /\ LatestIsNewer /\ OwnAskIt /\ ShowsItsQuery

-----------------------------------------------------------------------------
LEMMA ViewInvInit == SystemInit => ViewInv
  BY UseQueryAssumption
     DEF SystemInit, StoreInit, Init, ViewInit, ViewInv, ViewTypes, SeenCommits, LatestIsNewer,
         IsWanted, OwnAskIt, ShowsItsQuery, Free, NothingShown, NoRows, Rows, Absent, FetchState

\* A step of an operation: rows may be committed, the component is untouched.
LEMMA OpKeepsView ==
  ASSUME ViewInv, UNCHANGED <<asked, dirty, mounted, own, latest, fetch, view>>,
         applied \subseteq applied', applied' \subseteq Op, rows' \in Rows, seen' \in Rows
  PROVE  ViewInv'
  BY DEF ViewInv, ViewTypes, SeenCommits, LatestIsNewer, IsWanted, OwnAskIt, ShowsItsQuery

LEMMA WrittenType ==
  ASSUME NEW o \in Op, NEW content \in SUBSET Op
  PROVE  Written(o, content) \in SUBSET Op
  BY DEF Written, Absent

\* What replacing one fetch by another of the same type does.
LEMMA ReplacedFetch ==
  ASSUME NEW T, NEW old \in [Fetch -> T], NEW f \in Fetch, NEW x \in T,
         NEW new, new = [old EXCEPT ![f] = x]
  PROVE  new \in [Fetch -> T] /\ new[f] = x /\ \A g \in Fetch \ {f} : new[g] = old[g]
  OBVIOUS

LEMMA FetchStarts ==
  ASSUME ViewInv, NEW f \in Fetch, Starts(f)
  PROVE  /\ fetch' \in [Fetch -> [state : FetchState, query : Query \cup {None},
                                   data : Rows, at : SUBSET Op]]
         /\ fetch'[f].state = "asked" /\ fetch'[f].query = asked /\ fetch'[f].at = {}
         /\ \A g \in Fetch \ {f} : fetch'[g] = fetch[g]
<1> DEFINE New == [state |-> "asked", query |-> asked, data |-> NoRows, at |-> {}]
<1>2. New \in [state : FetchState, query : Query \cup {None}, data : Rows, at : SUBSET Op]
  BY DEF ViewInv, ViewTypes, FetchState, NoRows, Rows, Absent
<1>3. New.state = "asked" /\ New.query = asked /\ New.at = {}
  OBVIOUS
<1>4. fetch' = [fetch EXCEPT ![f] = New]
  BY DEF Starts
<1> HIDE DEF New
<1> QED
  BY <1>2, <1>3, <1>4, ReplacedFetch DEF ViewInv, ViewTypes

LEMMA FetchIsRead ==
  ASSUME ViewInv, NEW f \in Fetch, FetchReads(f)
  PROVE  /\ fetch' \in [Fetch -> [state : FetchState, query : Query \cup {None},
                                   data : Rows, at : SUBSET Op]]
         /\ fetch'[f].query = fetch[f].query /\ fetch'[f].at = applied
         /\ \A g \in Fetch \ {f} : fetch'[g] = fetch[g]
<1> DEFINE New == [state |-> "read", query |-> fetch[f].query,
                   data |-> Result(fetch[f].query), at |-> applied]
<1>1. Result(fetch[f].query) \in Rows
  BY DEF Result, Rows, Absent, ViewInv, ViewTypes
<1>2. New \in [state : FetchState, query : Query \cup {None}, data : Rows, at : SUBSET Op]
  BY <1>1 DEF ViewInv, ViewTypes, FetchState
<1>3. fetch' = [fetch EXCEPT ![f] = New]
  BY DEF FetchReads
<1>4. New.query = fetch[f].query /\ New.at = applied
  OBVIOUS
<1> HIDE DEF New
<1> QED
  BY <1>2, <1>3, <1>4, ReplacedFetch DEF ViewInv, ViewTypes

LEMMA ViewInvNext == ViewInv /\ [SystemNext]_vars => ViewInv'
<1> SUFFICES ASSUME ViewInv, [SystemNext]_vars PROVE ViewInv'
  OBVIOUS
<1>0. applied \subseteq Op /\ rows \in Rows /\ seen \in Rows
  BY DEF ViewInv, ViewTypes
<1>1. CASE UNCHANGED vars
  BY <1>0, <1>1, OpKeepsView DEF vars, storeVars, txVars, viewVars
<1>2. ASSUME NEW o \in Op, OpStep(o) PROVE ViewInv'
  <2>1. UNCHANGED <<asked, dirty, mounted, own, latest, fetch, view>>
    BY <1>2 DEF OpStep, viewVars
  <2>2. ASSUME NEW i \in Touches[o], RequestSucceeds(o, i) PROVE seen' \in Rows
    <3>1. Written(o, seen[i]) \in SUBSET Op \/ i \notin Id
      BY <1>0, WrittenType DEF Rows
    <3> QED
      BY <1>0, <2>2, <3>1 DEF RequestSucceeds, Base, Rows
  <2>3. applied \subseteq applied' /\ applied' \subseteq Op /\ rows' \in Rows /\ seen' \in Rows
    BY <1>0, <1>2, <2>2
       DEF OpStep, Proceeds, Suffers, Calls, Asks, RequestSucceeds, RequestFails, Aborts, Commits,
           CallbackGoesOn, CommitFails, CallbackThrows, CallbackIdles, Install, txVars
  <2> QED
    BY <2>1, <2>3, OpKeepsView
<1>3. ASSUME NEW o \in Op, Announces(o) PROVE ViewInv'
  BY <1>0, <1>3, OpKeepsView DEF Announces, txVars
<1> USE DEF ViewInv, ViewTypes, SeenCommits, LatestIsNewer, IsWanted, OwnAskIt, ShowsItsQuery
<1>4. ASSUME NEW f \in Fetch, EffectRuns(f) PROVE ViewInv'
  <2>1. /\ latest' = f /\ own' = {f} /\ asked' = asked /\ ~dirty' /\ view'.at = view.at
        /\ view' \in [data : Rows, loading : BOOLEAN, error : BOOLEAN,
                      query : Query \cup {None}, at : SUBSET Op]
        /\ view'.loading
        /\ applied' = applied /\ rows' = rows /\ seen' = seen
    BY <1>4 DEF EffectRuns, Starts, txVars
  <2>2. ViewTypes' /\ SeenCommits'
    BY <1>4, <2>1, FetchStarts DEF EffectRuns
  <2>3. LatestIsNewer' /\ OwnAskIt' /\ ShowsItsQuery'
    BY <1>4, <2>1, FetchStarts DEF EffectRuns
  <2> QED
    BY <2>2, <2>3
<1>5. ASSUME NEW f \in Fetch, TimerFires(f) PROVE ViewInv'
  <2>1. /\ latest' = f /\ own' = own \cup {f}
        /\ UNCHANGED <<asked, dirty, mounted, view, applied, rows, seen>>
    BY <1>5 DEF TimerFires, Starts, txVars
  <2>2. ViewTypes' /\ SeenCommits'
    BY <1>5, <2>1, FetchStarts DEF TimerFires
  <2>3. LatestIsNewer' /\ OwnAskIt' /\ ShowsItsQuery'
    BY <1>5, <2>1, FetchStarts DEF TimerFires
  <2> QED
    BY <2>2, <2>3
<1>6. ASSUME NEW f \in Fetch, FetchReads(f) PROVE ViewInv'
  <2>1. UNCHANGED <<asked, dirty, mounted, own, latest, view, applied, rows, seen>>
    BY <1>6 DEF FetchReads, txVars
  <2>2. ViewTypes' /\ SeenCommits'
    BY <1>6, <2>1, FetchIsRead
  <2>3. LatestIsNewer' /\ OwnAskIt' /\ ShowsItsQuery'
    BY <1>6, <2>1, FetchIsRead
  <2> QED
    BY <2>2, <2>3
<1>7. ASSUME NEW f \in Fetch, FetchFails(f) PROVE ViewInv'
  BY <1>7 DEF FetchFails, FetchState, txVars
<1>8. ASSUME NEW f \in Fetch, Delivers(f) PROVE ViewInv'
  BY <1>8 DEF Delivers, Free, NoRows, Rows, Absent, FetchState, storeVars, txVars
<1>9. ASSUME NEW q \in Query, Renders(q) PROVE ViewInv'
  BY <1>9 DEF Renders, storeVars, txVars
<1>10. CASE Unmounts
  BY <1>10 DEF Unmounts, NothingShown, NoRows, Rows, Absent, storeVars, txVars
<1> QED
  BY <1>1, <1>2, <1>3, <1>4, <1>5, <1>6, <1>7, <1>8, <1>9, <1>10 DEF SystemNext, FetchStep

\* Only the answer that is waited for changes what is shown.
LEMMA StepIsNewer ==
  ViewInv /\ [SystemNext]_vars => [mounted' => view.at \subseteq view'.at]_vars
<1> SUFFICES ASSUME ViewInv, SystemNext, mounted' PROVE view.at \subseteq view'.at
  BY DEF vars, viewVars
<1>1. ASSUME NEW f \in Fetch, Delivers(f) PROVE view.at \subseteq view'.at
  BY <1>1 DEF Delivers, ViewInv, ViewTypes, LatestIsNewer
<1>2. ASSUME NEW f \in Fetch, EffectRuns(f) PROVE view.at \subseteq view'.at
  BY <1>2 DEF EffectRuns, ViewInv, ViewTypes
<1>3. CASE ~(\E f \in Fetch : Delivers(f) \/ EffectRuns(f))
  BY <1>3 DEF SystemNext, FetchStep, OpStep, Announces, TimerFires, FetchReads, FetchFails,
              Renders, Unmounts, viewVars
<1> QED
  BY <1>1, <1>2, <1>3

-----------------------------------------------------------------------------
\* What useQuery may rely on between any two steps.
THEOREM ViewInvariant == SystemSpec => []ViewInv
  BY ViewInvInit, ViewInvNext, PTL DEF SystemSpec

\* The latestRequest and disposed guards of react.ts: what is shown never goes
\* back to an older state of the store.
THEOREM NeverShowsOlder == SystemSpec => NeverOlder
  BY ViewInvariant, StepIsNewer, PTL DEF SystemSpec, NeverOlder

\* A component that has settled shows rows of the query it asks.
THEOREM ShowsOnlyItsQuery == SystemSpec => []ShowsItsQuery
<1>1. ViewInv => ShowsItsQuery
  BY DEF ViewInv
<1> QED
  BY <1>1, ViewInvariant, PTL
=============================================================================
