---------------------------- MODULE SearchProofs ----------------------------
(***************************************************************************)
(* The full-text index of a document without overlapping or failed writes   *)
(* is that of its text, a rebuilt index is that of the rows, and a match     *)
(* query misses no document that matches throughout.  Proved for any         *)
(* documents, tokens, texts, callers and disturbances.                        *)
(***************************************************************************)
EXTENDS SearchSystem, FiniteSetTheorems, TLAPS

-----------------------------------------------------------------------------
(* The inductive invariant. *)

JobSet == [remove : SUBSET (Doc \X Token), add : SUBSET (Doc \X Token), batch : BOOLEAN]

JobsTyped == jobs \in [Worker -> Seq(JobSet)]

\* The postings a job still has to touch.
Pending(job) == job.remove \cup job.add

\* Nobody works on the collection unless the database is up.
AtRest(w) ==
    /\ jobs[w] = <<>> /\ op[w] = "none" /\ ~inTxn[w]
    /\ DOMAIN seen[w] = {} /\ DOMAIN undo[w] = {}

RestsUnlessUp ==
    phase # "up" => (\A w \in Worker : AtRest(w)) /\ query = {} /\ steady = {}

\* The stamp is there from the first completed build on, and there are no clean
\* documents before.
StampInv ==
    /\ phase = "up" => stamped
    /\ phase \in {"clear", "build"} => ~stamped
    /\ ~stamped => clean = {}

\* The index of the rows.
IndexOfRows == {p \in Doc \X Token : p[2] \in Tokens(rows[p[1]])}

\* A build adds what is missing of the index, and there is nothing else in it.
BuildInv == phase = "build" => postings \cup toBuild = IndexOfRows

\* What an operation has read is kept until it writes; what a transaction has
\* to put back, and the hooks that wait for it, until it ends.
OperationInv ==
    \A w \in Worker :
        /\ op[w] = "none" => DOMAIN seen[w] = {}
        /\ ~inTxn[w] => DOMAIN undo[w] = {}
        /\ inTxn[w] => \A n \in DOMAIN jobs[w] : JobDocs(jobs[w][n]) \subseteq DOMAIN undo[w]

\* One operation at a time is about d.
Sole(d) == \A u, w \in Worker : d \in Busy(u) /\ d \in Busy(w) => u = w

\* What an operation has read of d is what is there.
SeenIsCurrent(d) == \A w \in Worker : d \in DOMAIN seen[w] => seen[w][d] = rows[d]

\* While a transaction that wrote d runs, the index is still that of the text
\* which its rollback would restore.
UndoIsIndexed(d) ==
    \A w \in Worker : d \in DOMAIN undo[w] =>
        \A t \in Token : <<d, t>> \in postings <=> t \in Tokens(undo[w][d])

\* The n-th job of w is the last one of its queue that touches p.
LastToTouch(w, n, p) ==
    /\ p \in Pending(jobs[w][n])
    /\ \A m \in DOMAIN jobs[w] : m > n => p \notin Pending(jobs[w][m])

Untouched(p) == \A w \in Worker : \A n \in DOMAIN jobs[w] : p \notin Pending(jobs[w][n])

\* The hooks that are due lead to the index of the row: the last one to touch a
\* posting leaves it as the text wants it, and one that none touches is so already.
LeadsToIndex(d) ==
    \A t \in Token :
        /\ \A w \in Worker : \A n \in DOMAIN jobs[w] :
              LastToTouch(w, n, <<d, t>>) =>
                  (<<d, t>> \in jobs[w][n].add <=> t \in Tokens(rows[d]))
        /\ Untouched(<<d, t>>) => (<<d, t>> \in postings <=> t \in Tokens(rows[d]))

CleanInv ==
    \A d \in clean : Sole(d) /\ SeenIsCurrent(d) /\ UndoIsIndexed(d) /\ LeadsToIndex(d)

\* A document that has matched since the query began is clean, was found so far,
\* and no hook touches the postings it is found by.
SteadyInv ==
    \A d \in steady :
        /\ d \in clean /\ d \in found /\ query \subseteq Tokens(rows[d])
        /\ \A t \in query : <<d, t>> \in postings /\ Untouched(<<d, t>>)

SearchInv ==
    /\ TypeOK /\ JobsTyped
    /\ RestsUnlessUp /\ StampInv /\ BuildInv /\ OperationInv
    /\ CleanInv /\ SteadyInv

USE DEF vars, writeVars, queryVars, connectVars

-----------------------------------------------------------------------------
(* The operators of the model. *)

\* A row of the collection is a set of tokens, or absent: it has tokens anyway.
LEMMA RowTokens ==
  ASSUME NEW row \in Row
  PROVE  Tokens(row) \subseteq Token
  BY TextAssumption DEF Row, Tokens

LEMMA PartialRow ==
  ASSUME NEW f \in PartialRows, NEW d \in DOMAIN f
  PROVE  d \in Doc /\ f[d] \in Row
  BY DEF PartialRows

LEMMA PartialMade ==
  ASSUME NEW S \in SUBSET Doc, NEW f \in [S -> Row]
  PROVE  f \in PartialRows
  BY DEF PartialRows

LEMMA PartialDomain ==
  ASSUME NEW f \in PartialRows
  PROVE  DOMAIN f \subseteq Doc
  BY DEF PartialRows

\* A caller is busy with the documents of its operation, its transaction and
\* its hooks.
LEMMA BusyWith ==
  ASSUME NEW w \in Worker, NEW d
  PROVE  d \in Busy(w) <=>
             \/ d \in DOMAIN seen[w] \/ d \in DOMAIN undo[w]
             \/ \E n \in DOMAIN jobs[w] : d \in JobDocs(jobs[w][n])
  BY DEF Busy

LEMMA TouchedDoc ==
  ASSUME NEW job, NEW d, NEW t, <<d, t>> \in Pending(job)
  PROVE  d \in JobDocs(job)
<1>1. <<d, t>>[1] = d
  OBVIOUS
<1> QED BY <1>1 DEF Pending, JobDocs

\* A job the hooks make: it touches only postings that the two texts differ in.
LEMMA JobMade ==
  ASSUME NEW d \in Doc, NEW old \in Row, NEW new \in Row
  PROVE  /\ Job(d, old, new) \in JobSet
         /\ Job(d, old, new).remove \cap Job(d, old, new).add = {}
         /\ \A e, t : <<e, t>> \in Pending(Job(d, old, new)) <=>
                e = d /\ t \in (Tokens(old) \ Tokens(new)) \cup (Tokens(new) \ Tokens(old))
         /\ \A e, t : <<e, t>> \in Job(d, old, new).add <=>
                e = d /\ t \in Tokens(new) \ Tokens(old)
         /\ JobDocs(Job(d, old, new)) \subseteq {d}
  BY RowTokens DEF Job, JobSet, Lost, Gained, Pending, JobDocs

LEMMA BatchMade ==
  ASSUME NEW new \in PartialRows
  PROVE  /\ BatchJob(new) \in JobSet
         /\ BatchJob(new).remove \cap BatchJob(new).add = {}
         /\ BatchJob(new).add = Pending(BatchJob(new))
         /\ \A d \in Doc, t \in Token : <<d, t>> \in Pending(BatchJob(new)) <=>
                d \in DOMAIN new /\ t \in Tokens(new[d])
         /\ JobDocs(BatchJob(new)) \subseteq DOMAIN new
  BY DEF BatchJob, JobSet, Pending, JobDocs

-----------------------------------------------------------------------------
(* What a step of a hook does. *)

\* The hook handles the postings X of its job, which is finished when none is left.
Handles(w, X, job) ==
    /\ X \subseteq Pending(Head(jobs[w]))
    /\ postings' = (postings \ X) \cup (X \cap Head(jobs[w]).add)
    /\ job \in JobSet
    /\ job.remove = Head(jobs[w]).remove \ X
    /\ job.add = Head(jobs[w]).add \ X
    /\ Left(w, job)

LEMMA HookHandles ==
  ASSUME SearchInv, NEW w \in Worker, HookStep(w)
  PROVE  \E X, job : Handles(w, X, job)
<1> DEFINE h == Head(jobs[w])
<1>1. h \in JobSet /\ h = jobs[w][1] /\ 1 \in DOMAIN jobs[w]
  BY DEF HookStep, SearchInv, JobsTyped
<1>2. h.remove \cap h.add = {} /\ postings \subseteq Doc \X Token
  BY <1>1 DEF SearchInv, TypeOK, WritesTypeOK
<1>3. CASE RemovePosting(w)
  <2>1. PICK p \in h.remove : postings' = postings \ {p} /\ Left(w, [h EXCEPT !.remove = @ \ {p}])
    BY <1>3 DEF RemovePosting
  <2>2. Handles(w, {p}, [h EXCEPT !.remove = @ \ {p}])
    BY <1>1, <1>2, <2>1 DEF Handles, JobSet, Pending
  <2> QED BY <2>2
<1>4. CASE AddPosting(w)
  <2>1. PICK p \in h.add : postings' = postings \cup {p} /\ Left(w, [h EXCEPT !.add = @ \ {p}])
    BY <1>4 DEF AddPosting
  <2>2. Handles(w, {p}, [h EXCEPT !.add = @ \ {p}])
    BY <1>1, <1>2, <2>1 DEF Handles, JobSet, Pending
  <2> QED BY <2>2
<1>5. CASE AddBatch(w) /\ h.add \cap postings = {}
  <2>1. postings' = postings \cup h.add /\ Left(w, [h EXCEPT !.add = {}])
    BY <1>5 DEF AddBatch
  <2>2. Handles(w, h.add, [h EXCEPT !.add = {}])
    BY <1>1, <1>2, <2>1 DEF Handles, JobSet, Pending
  <2> QED BY <2>2
<1>6. CASE AddBatch(w) /\ h.add \cap postings # {}
  <2>1. postings' = postings /\ Left(w, [h EXCEPT !.batch = FALSE])
    BY <1>6 DEF AddBatch
  <2>2. Handles(w, {}, [h EXCEPT !.batch = FALSE])
    BY <1>1, <1>2, <2>1 DEF Handles, JobSet, Pending
  <2> QED BY <2>2
<1> QED BY <1>3, <1>4, <1>5, <1>6 DEF HookStep

\* The queue after such a step: the jobs are those of before, but for the first.
LEMMA QueueAfter ==
  ASSUME JobsTyped, NEW w \in Worker, jobs[w] # <<>>, NEW job \in JobSet, Left(w, job)
  PROVE  LET s == jobs[w]
             z == jobs'[w]
         IN  /\ jobs' \in [Worker -> Seq(JobSet)]
             /\ \A u \in Worker \ {w} : jobs'[u] = jobs[u]
             /\ \/ /\ Pending(job) = {} /\ DOMAIN z = 1..(Len(s) - 1)
                   /\ \A n \in DOMAIN z : n + 1 \in DOMAIN s /\ z[n] = s[n + 1]
                   /\ \A n \in DOMAIN s : n > 1 => n - 1 \in DOMAIN z /\ z[n - 1] = s[n]
                \/ /\ Pending(job) # {} /\ DOMAIN z = DOMAIN s /\ z[1] = job
                   /\ \A n \in DOMAIN s : n > 1 => z[n] = s[n]
<1> DEFINE s == jobs[w]
           r == IF Pending(job) = {} THEN Tail(s) ELSE <<job>> \o Tail(s)
<1>1. s \in Seq(JobSet) /\ s # <<>>
  BY DEF JobsTyped
<1>2. jobs' = [jobs EXCEPT ![w] = r]
  BY DEF Left, Pending
<1>3. Tail(s) \in Seq(JobSet) /\ Len(Tail(s)) = Len(s) - 1
      /\ \A n \in 1..(Len(s) - 1) : Tail(s)[n] = s[n + 1]
  BY <1>1
<1>4. r \in Seq(JobSet)
  BY <1>3
<1>5. jobs'[w] = r /\ jobs' \in [Worker -> Seq(JobSet)]
      /\ \A u \in Worker \ {w} : jobs'[u] = jobs[u]
  BY <1>2, <1>4 DEF JobsTyped
<1>6. CASE Pending(job) = {}
  <2>1. r = Tail(s) /\ DOMAIN r = 1..(Len(s) - 1) /\ DOMAIN s = 1..Len(s)
    BY <1>1, <1>3, <1>6
  <2> QED BY <1>1, <1>3, <1>5, <1>6, <2>1
<1>7. CASE Pending(job) # {}
  <2>1. r = <<job>> \o Tail(s) /\ Len(r) = Len(s) /\ DOMAIN s = 1..Len(s) /\ DOMAIN r = 1..Len(r)
    BY <1>1, <1>3, <1>7
  <2>2. r[1] = job /\ \A n \in 1..Len(s) : n > 1 => r[n] = s[n]
    BY <1>1, <1>3, <1>7, <2>1
  <2> QED BY <1>5, <1>7, <2>1, <2>2
<1> QED BY <1>6, <1>7

-----------------------------------------------------------------------------
(* The steps of the callers. *)

\* What a step of a caller has to keep: the rest of the invariant follows.
SteadyKept ==
    \A d \in steady \cap clean' : query \subseteq Tokens(rows'[d]) =>
        \A t \in query : <<d, t>> \in postings' /\ Untouched(<<d, t>>)'

Kept ==
    /\ clean' \subseteq clean
    /\ WritesTypeOK' /\ JobsTyped' /\ OperationInv' /\ CleanInv' /\ SteadyKept

\* A hook's step seen from one posting: what is still to happen to it.
LEMMA HookSeenFromPosting ==
  ASSUME SearchInv, NEW w \in Worker, HookStep(w), NEW X, NEW job, Handles(w, X, job), NEW p
  PROVE  /\ \A u \in Worker : \A n \in DOMAIN jobs'[u] : LastToTouch(u, n, p)' =>
               \E m \in DOMAIN jobs[u] :
                   LastToTouch(u, m, p) /\ (p \in jobs[u][m].add <=> p \in jobs'[u][n].add)
         /\ Untouched(p)' =>
               \/ Untouched(p) /\ (p \in postings' <=> p \in postings)
               \/ 1 \in DOMAIN jobs[w] /\ LastToTouch(w, 1, p)
                  /\ (p \in postings' <=> p \in jobs[w][1].add)
         /\ Untouched(p) => Untouched(p)' /\ (p \in postings' <=> p \in postings)
         /\ p \notin Pending(jobs[w][1]) => (p \in postings' <=> p \in postings)
<1> DEFINE s == jobs[w]
           z == jobs'[w]
<1>1. s \in Seq(JobSet) /\ s # <<>> /\ Head(s) = s[1] /\ 1 \in DOMAIN s /\ DOMAIN s \subseteq Nat \ {0}
  BY DEF HookStep, SearchInv, JobsTyped
<1>2. /\ \A u \in Worker \ {w} : jobs'[u] = jobs[u]
      /\ \/ /\ Pending(job) = {} /\ DOMAIN z = 1..(Len(s) - 1)
            /\ \A n \in DOMAIN z : n + 1 \in DOMAIN s /\ z[n] = s[n + 1]
            /\ \A n \in DOMAIN s : n > 1 => n - 1 \in DOMAIN z /\ z[n - 1] = s[n]
         \/ /\ Pending(job) # {} /\ DOMAIN z = DOMAIN s /\ z[1] = job
            /\ \A n \in DOMAIN s : n > 1 => z[n] = s[n]
  BY <1>1, QueueAfter DEF SearchInv, Handles
<1>3. /\ X \subseteq Pending(s[1])
      /\ p \in Pending(job) <=> p \in Pending(s[1]) /\ p \notin X
      /\ p \in job.add <=> p \in s[1].add /\ p \notin X
      /\ p \in postings' <=> (p \in X /\ p \in s[1].add) \/ (p \notin X /\ p \in postings)
  BY <1>1 DEF Handles, Pending
<1>4. ASSUME NEW u \in Worker, NEW n \in DOMAIN jobs'[u], LastToTouch(u, n, p)'
      PROVE  \E m \in DOMAIN jobs[u] :
                 LastToTouch(u, m, p) /\ (p \in jobs[u][m].add <=> p \in jobs'[u][n].add)
  <2>1. p \in Pending(jobs'[u][n]) /\ \A m \in DOMAIN jobs'[u] : m > n => p \notin Pending(jobs'[u][m])
    BY <1>4 DEF LastToTouch, Pending
  <2>2. CASE u # w
    BY <1>2, <2>1, <2>2 DEF LastToTouch
  <2>3. CASE u = w /\ Pending(job) = {}
    <3>1. n + 1 \in DOMAIN s /\ z[n] = s[n + 1] /\ n \in Nat
      BY <1>1, <1>2, <2>3
    <3>2. ASSUME NEW m \in DOMAIN s, m > n + 1
          PROVE  p \notin Pending(s[m])
      <4>1. m > 1 /\ m - 1 > n /\ m \in Nat
        BY <1>1, <3>1, <3>2
      <4>2. m - 1 \in DOMAIN z /\ z[m - 1] = s[m]
        BY <1>2, <2>3, <4>1
      <4> QED BY <2>1, <2>3, <4>1, <4>2
    <3>3. LastToTouch(w, n + 1, p)
      BY <2>1, <2>3, <3>1, <3>2 DEF LastToTouch
    <3> QED BY <2>3, <3>1, <3>3
  <2>4. CASE u = w /\ Pending(job) # {}
    <3>1. n \in DOMAIN s /\ n \in Nat \ {0}
      BY <1>1, <1>2, <2>4
    <3>2. p \in Pending(s[n]) /\ (p \in s[n].add <=> p \in z[n].add)
      <4>1. CASE n = 1
        BY <1>2, <1>3, <2>1, <2>4, <4>1
      <4>2. CASE n > 1
        BY <1>2, <2>1, <2>4, <3>1, <4>2
      <4> QED BY <3>1, <4>1, <4>2
    <3>3. ASSUME NEW m \in DOMAIN s, m > n
          PROVE  p \notin Pending(s[m])
      <4>1. m > 1
        BY <1>1, <3>1, <3>3
      <4>2. m \in DOMAIN z /\ z[m] = s[m]
        BY <1>2, <2>4, <4>1
      <4> QED BY <2>1, <2>4, <3>3, <4>2
    <3> QED BY <2>4, <3>1, <3>2, <3>3 DEF LastToTouch
  <2> QED BY <2>2, <2>3, <2>4
<1>5. ASSUME Untouched(p)'
      PROVE  \/ Untouched(p) /\ (p \in postings' <=> p \in postings)
             \/ 1 \in DOMAIN jobs[w] /\ LastToTouch(w, 1, p)
                /\ (p \in postings' <=> p \in jobs[w][1].add)
  <2>1. \A u \in Worker : \A n \in DOMAIN jobs'[u] : p \notin Pending(jobs'[u][n])
    BY <1>5 DEF Untouched, Pending
  <2>2. \A n \in DOMAIN s : n > 1 => p \notin Pending(s[n])
    BY <1>2, <2>1
  <2>3. p \in Pending(s[1]) => p \in X
    <3>1. p \in Pending(s[1]) /\ p \notin X => Pending(job) # {} /\ p \in Pending(job)
      BY <1>3
    <3> QED BY <1>1, <1>2, <2>1, <3>1
  <2>4. CASE p \in Pending(s[1])
    <3>1. \A n \in DOMAIN s : n > 1 => p \notin Pending(s[n])
      BY <2>2
    <3>2. LastToTouch(w, 1, p)
      BY <1>1, <2>4, <3>1 DEF LastToTouch
    <3>3. p \in postings' <=> p \in s[1].add
      BY <1>3, <2>3, <2>4
    <3> QED BY <1>1, <3>2, <3>3
  <2>5. CASE p \notin Pending(s[1])
    <3>1. \A n \in DOMAIN s : n = 1 \/ n > 1
      BY <1>1
    <3>2. Untouched(p)
      BY <1>2, <2>1, <2>2, <2>5, <3>1 DEF Untouched
    <3> QED BY <1>3, <2>5, <3>2
  <2> QED BY <2>4, <2>5
<1>6. ASSUME Untouched(p)
      PROVE  Untouched(p)' /\ (p \in postings' <=> p \in postings)
  <2>1. \A u \in Worker : \A n \in DOMAIN jobs[u] : p \notin Pending(jobs[u][n])
    BY <1>6 DEF Untouched
  <2>2. p \notin Pending(s[1]) /\ p \notin X /\ p \notin Pending(job)
    BY <1>1, <1>3, <2>1
  <2>3. \A n \in DOMAIN z : p \notin Pending(z[n])
    <3>1. CASE Pending(job) = {}
      BY <1>2, <2>1, <3>1
    <3>2. CASE Pending(job) # {}
      <4>1. \A n \in DOMAIN s : n = 1 \/ n > 1
        BY <1>1
      <4> QED BY <1>2, <2>1, <2>2, <3>2, <4>1
    <3> QED BY <3>1, <3>2
  <2>4. \A u \in Worker : \A n \in DOMAIN jobs'[u] : p \notin Pending(jobs'[u][n])
    BY <1>2, <2>1, <2>3
  <2> QED BY <1>3, <2>2, <2>4 DEF Untouched, Pending
<1>7. p \notin Pending(s[1]) => (p \in postings' <=> p \in postings)
  BY <1>3
<1> QED BY <1>4, <1>5, <1>6, <1>7

\* Jobs that a queue may hold.
WellMade(job) == job \in JobSet /\ job.remove \cap job.add = {} /\ Pending(job) # {}

LEMMA QueuesWellMade ==
  ASSUME TypeOK, JobsTyped
  PROVE  \A u \in Worker : \A n \in DOMAIN jobs[u] : WellMade(jobs[u][n])
<1>1. \A u \in Worker : \A n \in DOMAIN jobs[u] : jobs[u][n] \in JobSet
  <2>1. \A s \in Seq(JobSet) : \A n \in DOMAIN s : s[n] \in JobSet
    OBVIOUS
  <2> QED BY <2>1 DEF JobsTyped
<1>2. \A u \in Worker : \A n \in DOMAIN jobs[u] :
          jobs[u][n].remove \cap jobs[u][n].add = {} /\ Pending(jobs[u][n]) # {}
  BY DEF TypeOK, WritesTypeOK, Pending
<1> QED BY <1>1, <1>2 DEF WellMade

\* What the steps that only change the queues and the postings leave of the types.
LEMMA QueuesTyped ==
  ASSUME TypeOK, jobs' \in [Worker -> Seq(JobSet)],
         \A u \in Worker : \A n \in DOMAIN jobs'[u] : WellMade(jobs'[u][n]),
         postings' \subseteq Doc \X Token, clean' \subseteq Doc,
         UNCHANGED <<rows, op, seen, inTxn, undo, ops>>
  PROVE  WritesTypeOK' /\ JobsTyped'
<1>1. JobsTyped'
  BY DEF JobsTyped
<1>2. \A u \in Worker : \A n \in DOMAIN jobs'[u] :
          /\ jobs'[u][n].remove \cup jobs'[u][n].add \subseteq Doc \X Token
          /\ jobs'[u][n].remove \cap jobs'[u][n].add = {}
          /\ jobs'[u][n].remove \cup jobs'[u][n].add # {}
  BY DEF WellMade, JobSet, Pending
<1>3. /\ rows' \in [Doc -> Row]
      /\ op' \in [Worker -> {"none", "update", "delete", "deleteMany"}]
      /\ seen' \in [Worker -> PartialRows]
      /\ inTxn' \in [Worker -> BOOLEAN]
      /\ undo' \in [Worker -> PartialRows]
      /\ ops' \in 0..MaxOps
  BY DEF TypeOK, WritesTypeOK
<1> QED BY <1>1, <1>2, <1>3 DEF WritesTypeOK

LEMMA HookLeavesLess ==
  ASSUME SearchInv, NEW w \in Worker, HookStep(w), NEW X, NEW job, Handles(w, X, job)
  PROVE  /\ jobs' \in [Worker -> Seq(JobSet)] /\ \A u \in Worker \ {w} : jobs'[u] = jobs[u]
         /\ \A u \in Worker : \A n \in DOMAIN jobs'[u] :
               /\ WellMade(jobs'[u][n])
               /\ \E m \in DOMAIN jobs[u] : JobDocs(jobs'[u][n]) \subseteq JobDocs(jobs[u][m])
<1> DEFINE s == jobs[w]
           z == jobs'[w]
<1>1. s \in Seq(JobSet) /\ s # <<>> /\ Head(s) = s[1] /\ 1 \in DOMAIN s /\ DOMAIN s \subseteq Nat \ {0}
  BY DEF HookStep, SearchInv, JobsTyped
<1>2. /\ jobs' \in [Worker -> Seq(JobSet)]
      /\ \A u \in Worker \ {w} : jobs'[u] = jobs[u]
      /\ \/ /\ Pending(job) = {} /\ DOMAIN z = 1..(Len(s) - 1)
            /\ \A n \in DOMAIN z : n + 1 \in DOMAIN s /\ z[n] = s[n + 1]
         \/ /\ Pending(job) # {} /\ DOMAIN z = DOMAIN s /\ z[1] = job
            /\ \A n \in DOMAIN s : n > 1 => z[n] = s[n]
  BY <1>1, QueueAfter DEF SearchInv, Handles
<1>3. \A u \in Worker : \A n \in DOMAIN jobs[u] : WellMade(jobs[u][n])
  BY QueuesWellMade DEF SearchInv
<1>4. WellMade(s[1]) /\ job \in JobSet /\ job.remove \subseteq s[1].remove /\ job.add \subseteq s[1].add
  BY <1>1, <1>3 DEF Handles
<1>5. job.remove \cap job.add = {} /\ JobDocs(job) \subseteq JobDocs(s[1])
  BY <1>4 DEF WellMade, JobDocs
<1>6. ASSUME NEW n \in DOMAIN z
      PROVE  WellMade(z[n]) /\ \E m \in DOMAIN s : JobDocs(z[n]) \subseteq JobDocs(s[m])
  <2>1. CASE Pending(job) = {}
    BY <1>2, <1>3, <2>1
  <2>2. CASE Pending(job) # {}
    <3>1. n \in DOMAIN s /\ (n = 1 \/ n > 1)
      BY <1>1, <1>2, <2>2
    <3>2. WellMade(job)
      BY <1>4, <1>5, <2>2 DEF WellMade
    <3> QED BY <1>1, <1>2, <1>3, <1>5, <2>2, <3>1, <3>2
  <2> QED BY <2>1, <2>2
<1>7. ASSUME NEW u \in Worker, NEW n \in DOMAIN jobs'[u]
      PROVE  /\ WellMade(jobs'[u][n])
             /\ \E m \in DOMAIN jobs[u] : JobDocs(jobs'[u][n]) \subseteq JobDocs(jobs[u][m])
  BY <1>2, <1>3, <1>6
<1> QED BY <1>2, <1>7

\* Two operations on a document do not come from callers' doing less.
LEMMA FewerBusy ==
  ASSUME NEW w \in Worker,
         DOMAIN seen'[w] \subseteq DOMAIN seen[w], DOMAIN undo'[w] \subseteq DOMAIN undo[w],
         \A n \in DOMAIN jobs'[w] :
             \E m \in DOMAIN jobs[w] : JobDocs(jobs'[w][n]) \subseteq JobDocs(jobs[w][m])
  PROVE  Busy(w)' \subseteq Busy(w)
<1> SUFFICES ASSUME NEW d \in Busy(w)' PROVE d \in Busy(w)
  OBVIOUS
<1>1. \/ d \in DOMAIN seen'[w] \/ d \in DOMAIN undo'[w]
      \/ \E n \in DOMAIN jobs'[w] : d \in JobDocs(jobs'[w][n])
  BY DEF Busy, JobDocs
<1> QED BY <1>1, BusyWith

LEMMA HookStepKeeps ==
  ASSUME SearchInv, NEW w \in Worker, HookStep(w)
  PROVE  Kept
<1>1. PICK X, job : Handles(w, X, job)
  BY HookHandles
<1>2. UNCHANGED <<ops, rows, op, seen, inTxn, undo, clean>> /\ ~inTxn[w] /\ jobs[w] # <<>>
  BY DEF HookStep
<1>3. /\ jobs' \in [Worker -> Seq(JobSet)] /\ \A u \in Worker \ {w} : jobs'[u] = jobs[u]
      /\ \A u \in Worker : \A n \in DOMAIN jobs'[u] :
            /\ WellMade(jobs'[u][n])
            /\ \E m \in DOMAIN jobs[u] : JobDocs(jobs'[u][n]) \subseteq JobDocs(jobs[u][m])
  BY <1>1, HookLeavesLess
<1>4. WellMade(jobs[w][1]) /\ Head(jobs[w]) = jobs[w][1] /\ 1 \in DOMAIN jobs[w]
  BY <1>2, QueuesWellMade DEF SearchInv, JobsTyped
<1>5. WritesTypeOK' /\ JobsTyped'
  <2>1. postings' \subseteq Doc \X Token
    BY <1>1, <1>4 DEF Handles, WellMade, JobSet, Pending, SearchInv, TypeOK, WritesTypeOK
  <2> QED BY <1>2, <1>3, <2>1, QueuesTyped DEF SearchInv, TypeOK, WritesTypeOK
<1>6. OperationInv'
  <2>1. \A u \in Worker :
            /\ op[u] = "none" => DOMAIN seen[u] = {}
            /\ ~inTxn[u] => DOMAIN undo[u] = {}
    BY DEF SearchInv, OperationInv
  <2>2. ASSUME NEW u \in Worker, inTxn[u], NEW n \in DOMAIN jobs'[u]
        PROVE  JobDocs(jobs'[u][n]) \subseteq DOMAIN undo[u]
    BY <1>2, <1>3, <2>2 DEF SearchInv, OperationInv
  <2>3. ASSUME NEW u \in Worker, inTxn[u], NEW n \in DOMAIN jobs'[u]
        PROVE  JobDocs(jobs[u][n])' \subseteq DOMAIN undo[u]
    BY <2>2, <2>3 DEF JobDocs
  <2> QED BY <1>2, <2>1, <2>3 DEF OperationInv
<1>7. CleanInv'
  <2> SUFFICES ASSUME NEW d \in clean
               PROVE  Sole(d)' /\ SeenIsCurrent(d)' /\ UndoIsIndexed(d)' /\ LeadsToIndex(d)'
    BY <1>2 DEF CleanInv
  <2>1. Sole(d) /\ SeenIsCurrent(d) /\ UndoIsIndexed(d) /\ LeadsToIndex(d) /\ d \in Doc
    BY DEF SearchInv, CleanInv, TypeOK, WritesTypeOK
  <2>2. Sole(d)'
    <3>1. \A u \in Worker : Busy(u)' \subseteq Busy(u)
      BY <1>2, <1>3, FewerBusy
    <3> QED BY <2>1, <3>1 DEF Sole
  <2>3. SeenIsCurrent(d)'
    BY <1>2, <2>1 DEF SeenIsCurrent
  <2>4. UndoIsIndexed(d)'
    <3> SUFFICES ASSUME NEW u \in Worker, d \in DOMAIN undo[u], NEW t \in Token
                 PROVE  <<d, t>> \in postings' <=> t \in Tokens(undo[u][d])
      BY <1>2 DEF UndoIsIndexed
    <3>1. d \in Busy(u) /\ u # w
      BY <1>2, BusyWith DEF SearchInv, OperationInv
    <3>2. d \notin JobDocs(jobs[w][1])
      BY <1>4, <2>1, <3>1, BusyWith DEF Sole
    <3>3. <<d, t>> \notin Pending(jobs[w][1])
      BY <3>2, TouchedDoc
    <3>4. <<d, t>> \in postings' <=> <<d, t>> \in postings
      BY <1>1, <3>3, HookSeenFromPosting
    <3> QED BY <2>1, <3>4 DEF UndoIsIndexed
  <2>5. LeadsToIndex(d)'
    <3>1. ASSUME NEW t \in Token, NEW u \in Worker, NEW n \in DOMAIN jobs'[u],
                 LastToTouch(u, n, <<d, t>>)'
          PROVE  <<d, t>> \in jobs'[u][n].add <=> t \in Tokens(rows[d])
      <4>1. PICK m \in DOMAIN jobs[u] :
                /\ LastToTouch(u, m, <<d, t>>)
                /\ <<d, t>> \in jobs[u][m].add <=> <<d, t>> \in jobs'[u][n].add
        BY <1>1, <3>1, HookSeenFromPosting
      <4> QED BY <2>1, <4>1 DEF LeadsToIndex
    <3>2. ASSUME NEW t \in Token, Untouched(<<d, t>>)'
          PROVE  <<d, t>> \in postings' <=> t \in Tokens(rows[d])
      <4>1. \/ Untouched(<<d, t>>) /\ (<<d, t>> \in postings' <=> <<d, t>> \in postings)
            \/ 1 \in DOMAIN jobs[w] /\ LastToTouch(w, 1, <<d, t>>)
               /\ (<<d, t>> \in postings' <=> <<d, t>> \in jobs[w][1].add)
        BY <1>1, <3>2, HookSeenFromPosting
      <4> QED BY <2>1, <4>1 DEF LeadsToIndex
    <3> QED BY <1>2, <3>1, <3>2 DEF LeadsToIndex
  <2> QED BY <2>2, <2>3, <2>4, <2>5
<1>8. SteadyKept
  <2> SUFFICES ASSUME NEW d \in steady, NEW t \in query
               PROVE  <<d, t>> \in postings' /\ Untouched(<<d, t>>)'
    BY DEF SteadyKept
  <2>1. <<d, t>> \in postings /\ Untouched(<<d, t>>)
    BY DEF SearchInv, SteadyInv
  <2> QED BY <1>1, <2>1, HookSeenFromPosting
<1> QED BY <1>2, <1>5, <1>6, <1>7, <1>8 DEF Kept

\* A hook given up takes its document out of the clean ones; the others' postings
\* do not see it.
LEMMA HookFailsKeeps ==
  ASSUME SearchInv, NEW w \in Worker, HookFails(w)
  PROVE  Kept
<1> DEFINE s == jobs[w]
           z == jobs'[w]
<1>1. /\ UNCHANGED <<ops, rows, op, seen, inTxn, undo, postings>>
      /\ clean' = clean \ JobDocs(Head(s)) /\ ~inTxn[w] /\ s # <<>>
      /\ jobs' = [jobs EXCEPT ![w] = Tail(s)]
  BY DEF HookFails, AbandonJob
<1>2. s \in Seq(JobSet) /\ Head(s) = s[1] /\ 1 \in DOMAIN s /\ DOMAIN s \subseteq Nat \ {0}
  BY <1>1 DEF SearchInv, JobsTyped
<1>3. Tail(s) \in Seq(JobSet) /\ DOMAIN Tail(s) = 1..(Len(s) - 1) /\ DOMAIN s = 1..Len(s)
      /\ \A n \in 1..(Len(s) - 1) : Tail(s)[n] = s[n + 1]
  BY <1>1, <1>2
<1>4. /\ jobs' \in [Worker -> Seq(JobSet)] /\ z = Tail(s) /\ \A u \in Worker \ {w} : jobs'[u] = jobs[u]
      /\ DOMAIN z \subseteq Nat \ {0}
      /\ \A n \in DOMAIN z : n + 1 \in DOMAIN s /\ z[n] = s[n + 1]
      /\ \A n \in DOMAIN s : n > 1 => n - 1 \in DOMAIN z /\ z[n - 1] = s[n]
  BY <1>1, <1>3 DEF SearchInv, JobsTyped
<1>5. \A u \in Worker : \A n \in DOMAIN jobs'[u] : \E m \in DOMAIN jobs[u] : jobs'[u][n] = jobs[u][m]
  <2>1. \A n \in DOMAIN z : \E m \in DOMAIN s : z[n] = s[m]
    BY <1>4
  <2> QED BY <1>4, <2>1
<1>6. WritesTypeOK' /\ JobsTyped'
  <2>1. \A u \in Worker : \A n \in DOMAIN jobs'[u] : WellMade(jobs'[u][n])
    BY <1>5, QueuesWellMade DEF SearchInv
  <2> QED BY <1>1, <1>4, <2>1, QueuesTyped DEF SearchInv, TypeOK, WritesTypeOK
<1>7. OperationInv'
  <2>1. \A u \in Worker :
            /\ op[u] = "none" => DOMAIN seen[u] = {}
            /\ ~inTxn[u] => DOMAIN undo[u] = {}
    BY DEF SearchInv, OperationInv
  <2>2. ASSUME NEW u \in Worker, inTxn[u], NEW n \in DOMAIN jobs'[u]
        PROVE  JobDocs(jobs'[u][n]) \subseteq DOMAIN undo[u]
    BY <1>5, <2>2 DEF SearchInv, OperationInv
  <2>3. ASSUME NEW u \in Worker, inTxn[u], NEW n \in DOMAIN jobs'[u]
        PROVE  JobDocs(jobs[u][n])' \subseteq DOMAIN undo[u]
    BY <2>2, <2>3 DEF JobDocs
  <2> QED BY <1>1, <2>1, <2>3 DEF OperationInv
<1>8. ASSUME NEW p, p \notin Pending(s[1]), NEW u \in Worker, NEW n \in DOMAIN jobs'[u],
             LastToTouch(u, n, p)'
      PROVE  \E m \in DOMAIN jobs[u] : LastToTouch(u, m, p) /\ jobs'[u][n] = jobs[u][m]
  <2>1. p \in Pending(jobs'[u][n]) /\ \A m \in DOMAIN jobs'[u] : m > n => p \notin Pending(jobs'[u][m])
    BY <1>8 DEF LastToTouch, Pending
  <2>2. CASE u # w
    BY <1>4, <2>1, <2>2 DEF LastToTouch
  <2>3. CASE u = w
    <3>1. n + 1 \in DOMAIN s /\ z[n] = s[n + 1] /\ n \in Nat
      BY <1>4, <2>3
    <3>2. ASSUME NEW m \in DOMAIN s, m > n + 1
          PROVE  p \notin Pending(s[m])
      <4>1. m > 1 /\ m - 1 > n /\ m \in Nat
        BY <1>2, <3>1, <3>2
      <4>2. m - 1 \in DOMAIN z /\ z[m - 1] = s[m]
        BY <1>4, <4>1
      <4> QED BY <2>1, <2>3, <4>1, <4>2
    <3>3. LastToTouch(w, n + 1, p)
      BY <2>1, <2>3, <3>1, <3>2 DEF LastToTouch
    <3> QED BY <2>3, <3>1, <3>3
  <2> QED BY <2>2, <2>3
<1>9. ASSUME NEW p, p \notin Pending(s[1])
      PROVE  Untouched(p)' <=> Untouched(p)
  <2>1. (\A n \in DOMAIN z : p \notin Pending(z[n])) <=> (\A n \in DOMAIN s : p \notin Pending(s[n]))
    <3>1. \A n \in DOMAIN s : n = 1 \/ n > 1
      BY <1>2
    <3> QED BY <1>4, <1>9, <3>1
  <2> QED BY <1>4, <2>1 DEF Untouched, Pending
<1>10. CleanInv'
  <2> SUFFICES ASSUME NEW d \in clean, d \notin JobDocs(s[1])
               PROVE  Sole(d)' /\ SeenIsCurrent(d)' /\ UndoIsIndexed(d)' /\ LeadsToIndex(d)'
    BY <1>1, <1>2 DEF CleanInv
  <2>1. Sole(d) /\ SeenIsCurrent(d) /\ UndoIsIndexed(d) /\ LeadsToIndex(d)
    BY DEF SearchInv, CleanInv
  <2>2. Sole(d)'
    <3>1. \A u \in Worker : Busy(u)' \subseteq Busy(u)
      BY <1>1, <1>5, FewerBusy
    <3> QED BY <2>1, <3>1 DEF Sole
  <2>3. SeenIsCurrent(d)' /\ UndoIsIndexed(d)'
    BY <1>1, <2>1 DEF SeenIsCurrent, UndoIsIndexed
  <2>4. \A t : <<d, t>> \notin Pending(s[1])
    BY TouchedDoc
  <2>5. LeadsToIndex(d)'
    <3>1. ASSUME NEW t \in Token, NEW u \in Worker, NEW n \in DOMAIN jobs'[u],
                 LastToTouch(u, n, <<d, t>>)'
          PROVE  <<d, t>> \in jobs'[u][n].add <=> t \in Tokens(rows[d])
      <4>1. PICK m \in DOMAIN jobs[u] : LastToTouch(u, m, <<d, t>>) /\ jobs'[u][n] = jobs[u][m]
        BY <1>8, <2>4, <3>1
      <4> QED BY <2>1, <4>1 DEF LeadsToIndex
    <3>2. ASSUME NEW t \in Token, Untouched(<<d, t>>)'
          PROVE  <<d, t>> \in postings <=> t \in Tokens(rows[d])
      BY <1>9, <2>1, <2>4, <3>2 DEF LeadsToIndex
    <3> QED BY <1>1, <3>1, <3>2 DEF LeadsToIndex
  <2> QED BY <2>2, <2>3, <2>5
<1>11. SteadyKept
  <2> SUFFICES ASSUME NEW d \in steady, d \notin JobDocs(s[1]), NEW t \in query
               PROVE  <<d, t>> \in postings /\ Untouched(<<d, t>>)'
    BY <1>1, <1>2 DEF SteadyKept
  <2>1. <<d, t>> \in postings /\ Untouched(<<d, t>>)
    BY DEF SearchInv, SteadyInv
  <2>2. <<d, t>> \notin Pending(s[1])
    BY TouchedDoc
  <2> QED BY <1>9, <2>1, <2>2
<1> QED BY <1>1, <1>6, <1>7, <1>10, <1>11 DEF Kept

-----------------------------------------------------------------------------
(* Writing rows and queuing the hooks that are due. *)

LEMMA Queued ==
  ASSUME NEW s \in Seq(JobSet), NEW due \in Seq(JobSet)
  PROVE  /\ s \o due \in Seq(JobSet)
         /\ \A n \in DOMAIN s : n \in DOMAIN (s \o due) /\ (s \o due)[n] = s[n]
         /\ \A n \in DOMAIN due : /\ Len(s) + n \in DOMAIN (s \o due)
                                  /\ (s \o due)[Len(s) + n] = due[n]
                                  /\ \A m \in DOMAIN s : Len(s) + n > m
         /\ \A n \in DOMAIN (s \o due) :
               \/ n \in DOMAIN s
               \/ \E m \in DOMAIN due : n = Len(s) + m
  <1>1. /\ s \o due \in Seq(JobSet)
        /\ DOMAIN (s \o due) = 1..(Len(s) + Len(due)) /\ DOMAIN s = 1..Len(s) /\ DOMAIN due = 1..Len(due)
        /\ Len(s) \in Nat /\ Len(due) \in Nat
        /\ \A n \in DOMAIN (s \o due) : (s \o due)[n] = IF n <= Len(s) THEN s[n] ELSE due[n - Len(s)]
    OBVIOUS
  <1>2. \A n \in DOMAIN s : n \in DOMAIN (s \o due) /\ (s \o due)[n] = s[n]
    BY <1>1
  <1>3. \A n \in DOMAIN due : /\ Len(s) + n \in DOMAIN (s \o due)
                              /\ (s \o due)[Len(s) + n] = due[n]
                              /\ \A m \in DOMAIN s : Len(s) + n > m
    BY <1>1
  <1>4. ASSUME NEW n \in DOMAIN (s \o due), n \notin DOMAIN s
        PROVE  \E m \in DOMAIN due : n = Len(s) + m
    <2>1. n - Len(s) \in DOMAIN due /\ n = Len(s) + (n - Len(s))
      BY <1>1, <1>4
    <2> QED BY <2>1
  <1> QED BY <1>1, <1>2, <1>3, <1>4

\* The hooks that are due for some rows: each is about these rows, the postings it
\* touches are those of tokens that the old or the new text has, not both, and what
\* none of them touches need not be.
Fits(new, due) ==
    /\ new \in PartialRows
    /\ due \in Seq(JobSet)
    /\ \A n \in DOMAIN due : WellMade(due[n]) /\ JobDocs(due[n]) \subseteq DOMAIN new
    /\ \A d \in DOMAIN new \cap clean', t \in Token :
          /\ \A n \in DOMAIN due : <<d, t>> \in Pending(due[n]) =>
                /\ <<d, t>> \in due[n].add <=> t \in Tokens(new[d])
                /\ ~(t \in Tokens(rows[d]) /\ t \in Tokens(new[d]))
          /\ (\A n \in DOMAIN due : <<d, t>> \notin Pending(due[n])) =>
                (t \in Tokens(rows[d]) <=> t \in Tokens(new[d]))

LEMMA WrittenTyped ==
  ASSUME SearchInv, NEW w \in Worker, NEW new, NEW due, Written(w, new, due), Fits(new, due)
  PROVE  /\ rows' \in [Doc -> Row] /\ undo' \in [Worker -> PartialRows]
         /\ \A d \in Doc : rows'[d] = IF d \in DOMAIN new THEN new[d] ELSE rows[d]
         /\ jobs' \in [Worker -> Seq(JobSet)] /\ jobs'[w] = jobs[w] \o due
         /\ \A u \in Worker \ {w} : jobs'[u] = jobs[u] /\ undo'[u] = undo[u]
         /\ DOMAIN undo'[w] = IF inTxn[w] THEN DOMAIN undo[w] \cup DOMAIN new ELSE {}
         /\ \A d \in DOMAIN undo'[w] :
               undo'[w][d] = IF d \in DOMAIN undo[w] THEN undo[w][d] ELSE rows[d]
         /\ \A u \in Worker : \A n \in DOMAIN jobs'[u] : WellMade(jobs'[u][n])
<1>1. /\ rows \in [Doc -> Row] /\ undo \in [Worker -> PartialRows]
      /\ jobs \in [Worker -> Seq(JobSet)] /\ jobs[w] \in Seq(JobSet) /\ due \in Seq(JobSet)
      /\ ~inTxn[w] => DOMAIN undo[w] = {}
  BY DEF SearchInv, TypeOK, WritesTypeOK, JobsTyped, OperationInv, Fits
<1>2. /\ rows' \in [Doc -> Row]
      /\ \A d \in Doc : rows'[d] = IF d \in DOMAIN new THEN new[d] ELSE rows[d]
  <2>1. \A d \in DOMAIN new : new[d] \in Row
    BY PartialRow DEF Fits
  <2> QED BY <1>1, <2>1 DEF Written, Replaced
<1>3. /\ jobs' = [jobs EXCEPT ![w] = jobs[w] \o due]
      /\ undo' = IF inTxn[w] THEN [undo EXCEPT ![w] = UndoWith(w, DOMAIN new)] ELSE undo
  BY DEF Written
<1>4. jobs[w] \o due \in Seq(JobSet)
  BY <1>1, Queued
<1>5. /\ jobs' \in [Worker -> Seq(JobSet)] /\ jobs'[w] = jobs[w] \o due
      /\ \A u \in Worker \ {w} : jobs'[u] = jobs[u]
  BY <1>1, <1>3, <1>4
<1>6. /\ DOMAIN UndoWith(w, DOMAIN new) = DOMAIN undo[w] \cup DOMAIN new
      /\ \A d \in DOMAIN undo[w] \cup DOMAIN new :
            UndoWith(w, DOMAIN new)[d] = IF d \in DOMAIN undo[w] THEN undo[w][d] ELSE rows[d]
  BY DEF UndoWith
<1>7. UndoWith(w, DOMAIN new) \in PartialRows
  <2>1. DOMAIN undo[w] \subseteq Doc /\ DOMAIN new \subseteq Doc
    BY <1>1, PartialDomain DEF Fits
  <2>2. \A d \in DOMAIN undo[w] : undo[w][d] \in Row
    BY <1>1, PartialRow
  <2>3. UndoWith(w, DOMAIN new) \in [DOMAIN undo[w] \cup DOMAIN new -> Row]
    BY <1>1, <2>1, <2>2 DEF UndoWith
  <2> QED BY <2>1, <2>3, PartialMade
<1>8. /\ undo' \in [Worker -> PartialRows]
      /\ \A u \in Worker \ {w} : undo'[u] = undo[u]
      /\ inTxn[w] => undo'[w] = UndoWith(w, DOMAIN new)
      /\ ~inTxn[w] => undo'[w] = undo[w]
  <2>1. CASE inTxn[w]
    BY <1>1, <1>3, <1>7, <2>1
  <2>2. CASE ~inTxn[w]
    BY <1>1, <1>3, <2>2
  <2> QED BY <2>1, <2>2
<1>9. /\ DOMAIN undo'[w] = IF inTxn[w] THEN DOMAIN undo[w] \cup DOMAIN new ELSE {}
      /\ \A d \in DOMAIN undo'[w] :
            undo'[w][d] = IF d \in DOMAIN undo[w] THEN undo[w][d] ELSE rows[d]
  <2>1. CASE inTxn[w]
    BY <1>6, <1>8, <2>1
  <2>2. CASE ~inTxn[w]
    BY <1>1, <1>8, <2>2
  <2> QED BY <2>1, <2>2
<1>10. ASSUME NEW u \in Worker, NEW n \in DOMAIN jobs'[u]
       PROVE  WellMade(jobs'[u][n])
  <2>1. \A v \in Worker : \A m \in DOMAIN jobs[v] : WellMade(jobs[v][m])
    BY QueuesWellMade DEF SearchInv
  <2>2. CASE u # w
    BY <1>5, <1>10, <2>1, <2>2
  <2>3. CASE u = w
    <3>1. n \in DOMAIN (jobs[w] \o due)
      BY <1>5, <2>3
    <3>2. CASE n \in DOMAIN jobs[w]
      <4>1. (jobs[w] \o due)[n] = jobs[w][n]
        BY <1>1, <3>2, Queued
      <4> QED BY <1>5, <2>1, <2>3, <3>2, <4>1
    <3>3. CASE n \notin DOMAIN jobs[w]
      <4>1. PICK m \in DOMAIN due : n = Len(jobs[w]) + m
        BY <1>1, <3>1, <3>3, Queued
      <4>2. (jobs[w] \o due)[n] = due[m]
        BY <1>1, <4>1, Queued
      <4> QED BY <1>5, <2>3, <4>2 DEF Fits
    <3> QED BY <3>2, <3>3
  <2> QED BY <2>2, <2>3
<1> QED BY <1>2, <1>5, <1>8, <1>9, <1>10

\* The operation that writes has nothing more to read.
Returns(w) ==
    /\ op' \in [Worker -> {"none", "update", "delete", "deleteMany"}] /\ ops' \in 0..MaxOps
    /\ seen' \in [Worker -> PartialRows] /\ DOMAIN seen'[w] = {}
    /\ \A u \in Worker \ {w} : seen'[u] = seen[u] /\ op'[u] = op[u]

LEMMA WrittenKeeps ==
  ASSUME SearchInv, NEW w \in Worker, NEW new, NEW due,
         Written(w, new, due), Fits(new, due), Returns(w)
  PROVE  Kept
<1>1. /\ rows' \in [Doc -> Row] /\ undo' \in [Worker -> PartialRows]
      /\ \A d \in Doc : rows'[d] = IF d \in DOMAIN new THEN new[d] ELSE rows[d]
      /\ jobs' \in [Worker -> Seq(JobSet)] /\ jobs'[w] = jobs[w] \o due
      /\ \A u \in Worker \ {w} : jobs'[u] = jobs[u] /\ undo'[u] = undo[u]
      /\ \A u \in Worker : \A n \in DOMAIN jobs'[u] : WellMade(jobs'[u][n])
  <2>1. rows' \in [Doc -> Row] /\ undo' \in [Worker -> PartialRows]
    BY WrittenTyped
  <2>2. \A d \in Doc : rows'[d] = IF d \in DOMAIN new THEN new[d] ELSE rows[d]
    BY WrittenTyped
  <2>3. jobs' \in [Worker -> Seq(JobSet)] /\ jobs'[w] = jobs[w] \o due
    <3>1. jobs' \in [Worker -> Seq(JobSet)]
      BY WrittenTyped
    <3>2. jobs'[w] = jobs[w] \o due
      BY DEF Written, SearchInv, JobsTyped
    <3> QED BY <3>1, <3>2
  <2>4. \A u \in Worker \ {w} : jobs'[u] = jobs[u] /\ undo'[u] = undo[u]
    BY WrittenTyped
  <2>5. \A u \in Worker : \A n \in DOMAIN jobs'[u] : WellMade(jobs'[u][n])
    BY WrittenTyped
  <2> QED BY <2>1, <2>2, <2>3, <2>4, <2>5
<1>2. /\ DOMAIN undo'[w] = IF inTxn[w] THEN DOMAIN undo[w] \cup DOMAIN new ELSE {}
      /\ \A d \in DOMAIN undo'[w] :
             undo'[w][d] = IF d \in DOMAIN undo[w] THEN undo[w][d] ELSE rows[d]
  BY WrittenTyped
<1>3. UNCHANGED <<postings, inTxn>> /\ clean' = clean \ (DOMAIN new \cap UNION {Busy(u) : u \in Worker \ {w}})
  BY DEF Written, Touches
<1>4. /\ jobs[w] \in Seq(JobSet) /\ due \in Seq(JobSet)
      /\ \A n \in DOMAIN due : WellMade(due[n]) /\ JobDocs(due[n]) \subseteq DOMAIN new
  BY DEF SearchInv, JobsTyped, Fits
<1>5. /\ \A n \in DOMAIN jobs[w] : n \in DOMAIN jobs'[w] /\ jobs'[w][n] = jobs[w][n]
      /\ \A n \in DOMAIN due : /\ Len(jobs[w]) + n \in DOMAIN jobs'[w]
                               /\ jobs'[w][Len(jobs[w]) + n] = due[n]
                               /\ \A m \in DOMAIN jobs[w] : Len(jobs[w]) + n > m
      /\ \A n \in DOMAIN jobs'[w] :
            n \in DOMAIN jobs[w] \/ \E m \in DOMAIN due : n = Len(jobs[w]) + m
  BY <1>1, <1>4, Queued
<1>6. WritesTypeOK' /\ JobsTyped'
  <2>1. \A u \in Worker : \A n \in DOMAIN jobs'[u] :
            /\ jobs'[u][n].remove \cup jobs'[u][n].add \subseteq Doc \X Token
            /\ jobs'[u][n].remove \cap jobs'[u][n].add = {}
            /\ jobs'[u][n].remove \cup jobs'[u][n].add # {}
    BY <1>1 DEF WellMade, JobSet, Pending
  <2>2. /\ postings' \subseteq Doc \X Token /\ inTxn' \in [Worker -> BOOLEAN] /\ clean' \subseteq Doc
    BY <1>3 DEF SearchInv, TypeOK, WritesTypeOK
  <2>3. JobsTyped'
    BY <1>1 DEF JobsTyped
  <2> QED BY <1>1, <2>1, <2>2, <2>3 DEF WritesTypeOK, Returns
\* Whose documents are whose.
<1>7. ASSUME NEW d \in clean'
      PROVE  /\ d \in clean /\ d \in Doc
             /\ Sole(d) /\ SeenIsCurrent(d) /\ UndoIsIndexed(d) /\ LeadsToIndex(d)
             /\ d \in DOMAIN new => \A u \in Worker \ {w} : d \notin Busy(u)
  <2>1. d \in clean /\ (d \in DOMAIN new => \A u \in Worker \ {w} : d \notin Busy(u))
    BY <1>3
  <2> QED BY <2>1 DEF SearchInv, CleanInv, TypeOK, WritesTypeOK
<1>8. ASSUME NEW n \in DOMAIN jobs'[w]
      PROVE  \/ \E m \in DOMAIN jobs[w] : JobDocs(jobs'[w][n]) = JobDocs(jobs[w][m])
             \/ JobDocs(jobs'[w][n]) \subseteq DOMAIN new
  BY <1>4, <1>5
<1>9. OperationInv'
  <2>1. ASSUME NEW u \in Worker, op'[u] = "none"
        PROVE  DOMAIN seen'[u] = {}
    BY <2>1 DEF SearchInv, OperationInv, Returns
  <2>2. ASSUME NEW u \in Worker, ~inTxn[u]
        PROVE  DOMAIN undo'[u] = {}
    BY <1>1, <1>2, <2>2 DEF SearchInv, OperationInv
  <2>3. ASSUME NEW u \in Worker, inTxn[u], NEW n \in DOMAIN jobs'[u]
        PROVE  JobDocs(jobs'[u][n]) \subseteq DOMAIN undo'[u]
    <3>1. \A m \in DOMAIN jobs[u] : JobDocs(jobs[u][m]) \subseteq DOMAIN undo[u]
      BY <2>3 DEF SearchInv, OperationInv
    <3>2. CASE u # w
      BY <1>1, <3>1, <3>2
    <3>3. CASE u = w
      BY <1>2, <1>8, <2>3, <3>1, <3>3
    <3> QED BY <3>2, <3>3
  <2>4. ASSUME NEW u \in Worker, inTxn[u], NEW n \in DOMAIN jobs'[u]
        PROVE  JobDocs(jobs[u][n])' \subseteq DOMAIN undo'[u]
    BY <2>3, <2>4 DEF JobDocs
  <2> QED BY <1>3, <2>1, <2>2, <2>4 DEF OperationInv
<1>10. /\ Busy(w)' \subseteq Busy(w) \cup DOMAIN new
       /\ \A u \in Worker \ {w} : Busy(u)' \subseteq Busy(u)
  <2>1. ASSUME NEW d \in Busy(w)'
        PROVE  d \in Busy(w) \cup DOMAIN new
    <3>1. \/ d \in DOMAIN seen'[w] \/ d \in DOMAIN undo'[w]
          \/ \E n \in DOMAIN jobs'[w] : d \in JobDocs(jobs'[w][n])
      BY DEF Busy, JobDocs
    <3> QED BY <1>2, <1>8, <3>1, BusyWith DEF Returns
  <2>2. ASSUME NEW u \in Worker \ {w}
        PROVE  Busy(u)' \subseteq Busy(u)
    <3>1. seen'[u] = seen[u] /\ undo'[u] = undo[u] /\ jobs'[u] = jobs[u]
      BY <1>1 DEF Returns
    <3> QED BY <3>1, FewerBusy
  <2> QED BY <2>1, <2>2
\* What is queued, seen from a posting.
<1>11. ASSUME NEW p, Untouched(p)'
       PROVE  Untouched(p) /\ \A n \in DOMAIN due : p \notin Pending(due[n])
  <2>1. \A u \in Worker : \A n \in DOMAIN jobs'[u] : p \notin Pending(jobs'[u][n])
    BY <1>11 DEF Untouched, Pending
  <2>2. \A n \in DOMAIN jobs[w] : p \notin Pending(jobs[w][n])
    BY <1>5, <2>1
  <2>3. \A n \in DOMAIN due : p \notin Pending(due[n])
    BY <1>5, <2>1
  <2> QED BY <1>1, <2>1, <2>2, <2>3 DEF Untouched
<1>12. ASSUME NEW p, Untouched(p), \A n \in DOMAIN due : p \notin Pending(due[n])
       PROVE  Untouched(p)'
  <2>1. \A n \in DOMAIN jobs'[w] : p \notin Pending(jobs'[w][n])
    BY <1>5, <1>12 DEF Untouched
  <2>2. \A u \in Worker : \A n \in DOMAIN jobs'[u] : p \notin Pending(jobs'[u][n])
    BY <1>1, <1>12, <2>1 DEF Untouched
  <2> QED BY <2>2 DEF Untouched, Pending
<1>13. ASSUME NEW p, NEW u \in Worker, NEW n \in DOMAIN jobs'[u], LastToTouch(u, n, p)'
       PROVE  \/ u = w /\ \E m \in DOMAIN due : p \in Pending(due[m]) /\ jobs'[u][n] = due[m]
              \/ /\ n \in DOMAIN jobs[u] /\ jobs'[u][n] = jobs[u][n] /\ LastToTouch(u, n, p)
                 /\ u = w => \A m \in DOMAIN due : p \notin Pending(due[m])
  <2>1. p \in Pending(jobs'[u][n]) /\ \A m \in DOMAIN jobs'[u] : m > n => p \notin Pending(jobs'[u][m])
    BY <1>13 DEF LastToTouch, Pending
  <2>2. CASE u # w
    BY <1>1, <2>1, <2>2 DEF LastToTouch
  <2>3. CASE u = w /\ n \in DOMAIN jobs[w]
    <3>1. LastToTouch(w, n, p)
      BY <1>5, <2>1, <2>3 DEF LastToTouch
    <3>2. \A m \in DOMAIN due : p \notin Pending(due[m])
      BY <1>5, <2>1, <2>3
    <3> QED BY <1>5, <2>3, <3>1, <3>2
  <2>4. CASE u = w /\ n \notin DOMAIN jobs[w]
    BY <1>5, <2>1, <2>4
  <2> QED BY <2>2, <2>3, <2>4
<1>14. CleanInv'
  <2> SUFFICES ASSUME NEW d \in clean'
               PROVE  Sole(d)' /\ SeenIsCurrent(d)' /\ UndoIsIndexed(d)' /\ LeadsToIndex(d)'
    BY DEF CleanInv
  <2>1. Sole(d)'
    BY <1>7, <1>10 DEF Sole
  <2>2. SeenIsCurrent(d)'
    <3>1. ASSUME NEW u \in Worker, d \in DOMAIN seen'[u]
          PROVE  seen'[u][d] = rows'[d]
      <4>1. u # w /\ seen'[u] = seen[u] /\ d \in Busy(u)
        BY <3>1, BusyWith DEF Returns
      <4>2. d \notin DOMAIN new /\ rows'[d] = rows[d]
        BY <1>1, <1>7, <4>1
      <4> QED BY <1>7, <3>1, <4>1, <4>2 DEF SeenIsCurrent
    <3> QED BY <3>1 DEF SeenIsCurrent
  <2>3. UndoIsIndexed(d)'
    <3> SUFFICES ASSUME NEW u \in Worker, d \in DOMAIN undo'[u], NEW t \in Token
                 PROVE  <<d, t>> \in postings <=> t \in Tokens(undo'[u][d])
      BY <1>3 DEF UndoIsIndexed
    <3>1. CASE d \in DOMAIN undo[u]
      <4>1. undo'[u][d] = undo[u][d]
        BY <1>1, <1>2, <3>1
      <4> QED BY <1>7, <3>1, <4>1 DEF UndoIsIndexed
    <3>2. CASE d \notin DOMAIN undo[u]
      <4>1. u = w /\ inTxn[w] /\ d \in DOMAIN new /\ undo'[u][d] = rows[d]
        BY <1>1, <1>2, <3>2
      <4>2. ASSUME NEW v \in Worker, NEW n \in DOMAIN jobs[v]
            PROVE  d \notin JobDocs(jobs[v][n])
        <5>1. CASE v = w
          BY <3>2, <4>1, <5>1 DEF SearchInv, OperationInv
        <5>2. CASE v # w
          BY <1>7, <4>1, <5>2, BusyWith
        <5> QED BY <5>1, <5>2
      <4>3. Untouched(<<d, t>>)
        BY <4>2, TouchedDoc DEF Untouched
      <4> QED BY <1>7, <4>1, <4>3 DEF LeadsToIndex
    <3> QED BY <3>1, <3>2
  <2>4. LeadsToIndex(d)'
    <3>1. ASSUME NEW t \in Token, NEW u \in Worker, NEW n \in DOMAIN jobs'[u],
                 LastToTouch(u, n, <<d, t>>)'
          PROVE  <<d, t>> \in jobs'[u][n].add <=> t \in Tokens(rows'[d])
      <4>1. CASE u = w /\ \E m \in DOMAIN due : <<d, t>> \in Pending(due[m]) /\ jobs'[u][n] = due[m]
        <5>1. PICK m \in DOMAIN due : <<d, t>> \in Pending(due[m]) /\ jobs'[u][n] = due[m]
          BY <4>1
        <5>2. d \in DOMAIN new
          BY <1>4, <5>1, TouchedDoc
        <5> QED BY <1>1, <1>7, <5>1, <5>2 DEF Fits
      <4>2. CASE /\ n \in DOMAIN jobs[u] /\ jobs'[u][n] = jobs[u][n] /\ LastToTouch(u, n, <<d, t>>)
                 /\ u = w => \A m \in DOMAIN due : <<d, t>> \notin Pending(due[m])
        <5>1. <<d, t>> \in jobs[u][n].add <=> t \in Tokens(rows[d])
          BY <1>7, <4>2 DEF LeadsToIndex
        <5>2. CASE d \notin DOMAIN new
          BY <1>1, <1>7, <4>2, <5>1, <5>2
        <5>3. CASE d \in DOMAIN new
          <6>1. d \in Busy(u)
            BY <4>2, TouchedDoc, BusyWith DEF LastToTouch
          <6>2. u = w
            BY <1>7, <5>3, <6>1
          <6>3. t \in Tokens(rows[d]) <=> t \in Tokens(new[d])
            BY <4>2, <5>3, <6>2 DEF Fits
          <6> QED BY <1>1, <1>7, <4>2, <5>1, <5>3, <6>3
        <5> QED BY <5>2, <5>3
      <4> QED BY <1>13, <3>1, <4>1, <4>2
    <3>2. ASSUME NEW t \in Token, Untouched(<<d, t>>)'
          PROVE  <<d, t>> \in postings <=> t \in Tokens(rows'[d])
      <4>1. Untouched(<<d, t>>) /\ \A n \in DOMAIN due : <<d, t>> \notin Pending(due[n])
        BY <1>11, <3>2
      <4>2. <<d, t>> \in postings <=> t \in Tokens(rows[d])
        BY <1>7, <4>1 DEF LeadsToIndex
      <4>3. d \in DOMAIN new => (t \in Tokens(rows[d]) <=> t \in Tokens(new[d]))
        BY <4>1 DEF Fits
      <4> QED BY <1>1, <1>7, <4>2, <4>3
    <3> QED BY <1>3, <3>1, <3>2 DEF LeadsToIndex
  <2> QED BY <2>1, <2>2, <2>3, <2>4
<1>15. SteadyKept
  <2> SUFFICES ASSUME NEW d \in steady \cap clean', query \subseteq Tokens(rows'[d]), NEW t \in query
               PROVE  <<d, t>> \in postings /\ Untouched(<<d, t>>)'
    BY <1>3 DEF SteadyKept
  <2>1. <<d, t>> \in postings /\ Untouched(<<d, t>>) /\ t \in Tokens(rows[d]) /\ t \in Tokens(rows'[d])
    BY DEF SearchInv, SteadyInv
  <2>2. t \in Token
    BY DEF SearchInv, TypeOK
  <2>3. ASSUME NEW n \in DOMAIN due
        PROVE  <<d, t>> \notin Pending(due[n])
    <3>1. <<d, t>> \in Pending(due[n]) => d \in DOMAIN new
      BY <1>4, TouchedDoc
    <3>2. d \in DOMAIN new => t \in Tokens(new[d])
      BY <1>1, <1>7, <2>1
    <3> QED BY <2>1, <2>2, <3>1, <3>2 DEF Fits
  <2> QED BY <1>12, <2>1, <2>3
<1> QED BY <1>3, <1>6, <1>9, <1>14, <1>15 DEF Kept

\* The hook of one row.
LEMMA JobFits ==
  ASSUME NEW d \in Doc, NEW old \in Row, NEW new \in Row, rows \in [Doc -> Row],
         d \in clean' => old = rows[d]
  PROVE  Fits([e \in {d} |-> new], Due(Job(d, old, new)))
<1> DEFINE f == [e \in {d} |-> new]
           job == Job(d, old, new)
           due == Due(job)
<1>1. /\ job \in JobSet /\ job.remove \cap job.add = {}
      /\ \A e, t : <<e, t>> \in Pending(job) <=>
             e = d /\ t \in (Tokens(old) \ Tokens(new)) \cup (Tokens(new) \ Tokens(old))
      /\ \A e, t : <<e, t>> \in job.add <=> e = d /\ t \in Tokens(new) \ Tokens(old)
      /\ JobDocs(job) \subseteq {d}
  BY JobMade
<1>2. f \in PartialRows /\ DOMAIN f = {d} /\ f[d] = new
  <2>1. f \in [{d} -> Row] /\ {d} \in SUBSET Doc
    OBVIOUS
  <2> QED BY <2>1, PartialMade
<1> HIDE DEF job, f
<1>3. due = IF Pending(job) = {} THEN <<>> ELSE <<job>>
  BY DEF Due, Pending
<1>4. due \in Seq(JobSet) /\ \A n \in DOMAIN due : due[n] = job /\ Pending(job) # {}
  BY <1>1, <1>3
<1>5. Pending(job) # {} => 1 \in DOMAIN due /\ due[1] = job
  BY <1>1, <1>3
<1> HIDE DEF due
<1>6. \A n \in DOMAIN due : WellMade(due[n]) /\ JobDocs(due[n]) \subseteq DOMAIN f
  BY <1>1, <1>2, <1>4 DEF WellMade
<1>7. ASSUME NEW e \in DOMAIN f \cap clean', NEW t \in Token
      PROVE  /\ \A n \in DOMAIN due : <<e, t>> \in Pending(due[n]) =>
                   /\ <<e, t>> \in due[n].add <=> t \in Tokens(f[e])
                   /\ ~(t \in Tokens(rows[e]) /\ t \in Tokens(f[e]))
             /\ (\A n \in DOMAIN due : <<e, t>> \notin Pending(due[n])) =>
                   (t \in Tokens(rows[e]) <=> t \in Tokens(f[e]))
  <2>1. e = d /\ f[e] = new /\ rows[e] = old
    BY <1>2
  <2>2. ASSUME NEW n \in DOMAIN due, <<e, t>> \in Pending(due[n])
        PROVE  /\ <<e, t>> \in due[n].add <=> t \in Tokens(f[e])
               /\ ~(t \in Tokens(rows[e]) /\ t \in Tokens(f[e]))
    <3>1. due[n] = job /\ <<e, t>> \in Pending(job)
      BY <1>4, <2>2
    <3> QED BY <1>1, <2>1, <3>1
  <2>3. ASSUME \A n \in DOMAIN due : <<e, t>> \notin Pending(due[n])
        PROVE  t \in Tokens(rows[e]) <=> t \in Tokens(f[e])
    <3>1. <<e, t>> \notin Pending(job)
      BY <1>5, <2>3
    <3> QED BY <1>1, <2>1, <3>1
  <2> QED BY <2>2, <2>3
<1>8. Fits(f, due)
  BY <1>2, <1>4, <1>6, <1>7 DEF Fits
<1> QED BY <1>8 DEF f, due, job

\* The hook of the rows of createMany.
LEMMA BatchFits ==
  ASSUME NEW ids \in SUBSET Doc, NEW new \in [ids -> Text],
         \A d \in ids : rows[d] = Absent
  PROVE  Fits(new, Due(BatchJob(new)))
<1> DEFINE job == BatchJob(new)
           due == Due(job)
<1>1. new \in PartialRows /\ DOMAIN new = ids
  <2>1. new \in [ids -> Row]
    BY DEF Row
  <2> QED BY <2>1, PartialMade
<1>2. /\ job \in JobSet /\ job.remove \cap job.add = {} /\ job.add = Pending(job)
      /\ \A d \in Doc, t \in Token : <<d, t>> \in Pending(job) <=> d \in DOMAIN new /\ t \in Tokens(new[d])
      /\ JobDocs(job) \subseteq DOMAIN new
  BY <1>1, BatchMade
<1> HIDE DEF job
<1>3. due = IF Pending(job) = {} THEN <<>> ELSE <<job>>
  BY DEF Due, Pending
<1>4. due \in Seq(JobSet) /\ \A n \in DOMAIN due : due[n] = job /\ Pending(job) # {}
  BY <1>2, <1>3
<1>5. Pending(job) # {} => 1 \in DOMAIN due /\ due[1] = job
  BY <1>2, <1>3
<1> HIDE DEF due
<1>6. \A n \in DOMAIN due : WellMade(due[n]) /\ JobDocs(due[n]) \subseteq DOMAIN new
  BY <1>2, <1>4 DEF WellMade
<1>7. ASSUME NEW d \in DOMAIN new, NEW t \in Token
      PROVE  /\ \A n \in DOMAIN due : <<d, t>> \in Pending(due[n]) =>
                   /\ <<d, t>> \in due[n].add <=> t \in Tokens(new[d])
                   /\ ~(t \in Tokens(rows[d]) /\ t \in Tokens(new[d]))
             /\ (\A n \in DOMAIN due : <<d, t>> \notin Pending(due[n])) =>
                   (t \in Tokens(rows[d]) <=> t \in Tokens(new[d]))
  <2>1. d \in Doc /\ Tokens(rows[d]) = {}
    BY <1>1 DEF Tokens
  <2>2. ASSUME NEW n \in DOMAIN due, <<d, t>> \in Pending(due[n])
        PROVE  <<d, t>> \in due[n].add /\ t \in Tokens(new[d])
    BY <1>2, <1>4, <2>1, <2>2
  <2>3. ASSUME \A n \in DOMAIN due : <<d, t>> \notin Pending(due[n])
        PROVE  t \notin Tokens(new[d])
    <3>1. <<d, t>> \notin Pending(job)
      BY <1>5, <2>3
    <3> QED BY <1>2, <2>1, <3>1
  <2> QED BY <2>1, <2>2, <2>3
<1>8. Fits(new, due)
  BY <1>1, <1>4, <1>6, <1>7 DEF Fits
<1> QED BY <1>8 DEF due, job

\* A list of all the members of a finite set has each of them.
LEMMA ListHasAll ==
  ASSUME NEW S, IsFiniteSet(S), NEW order \in SetToSeqs(S)
  PROVE  /\ order \in Seq(S)
         /\ \A x \in S : \E n \in DOMAIN order : order[n] = x
<1> DEFINE D == 1..Cardinality(S)
<1>1. Cardinality(S) \in Nat
  BY FS_CardinalityType
<1>2. order \in [D -> S] /\ \A i, j \in D : i # j => order[i] # order[j]
  BY DEF SetToSeqs
<1>3. order \in Seq(S)
  BY <1>1, <1>2
<1>4. IsFiniteSet(D) /\ Cardinality(D) = Cardinality(S)
  BY <1>1, FS_Interval
<1>5. order \in Injection(D, S)
  BY <1>2 DEF Injection, IsInjective
<1>6. order \in Surjection(D, S)
  BY <1>4, <1>5, FS_Injection
<1> QED BY <1>2, <1>3, <1>6 DEF Surjection

\* The hooks of delete and deleteMany.
LEMMA DeletionFits ==
  ASSUME NEW old \in PartialRows, rows \in [Doc -> Row],
         \A d \in DOMAIN old \cap clean' : old[d] = rows[d],
         NEW order \in SetToSeqs({d \in DOMAIN old : Tokens(old[d]) # {}})
  PROVE  Fits([d \in DOMAIN old |-> Absent], [n \in DOMAIN order |-> Job(order[n], old[order[n]], Absent)])
<1> DEFINE S == {d \in DOMAIN old : Tokens(old[d]) # {}}
           new == [d \in DOMAIN old |-> Absent]
           due == [n \in DOMAIN order |-> Job(order[n], old[order[n]], Absent)]
<1>1. /\ DOMAIN old \subseteq Doc /\ \A d \in DOMAIN old : old[d] \in Row
      /\ Absent \in Row /\ Tokens(Absent) = {}
  BY PartialDomain, PartialRow DEF Row, Tokens
<1>2. IsFiniteSet(S)
  <2>1. S \in SUBSET Doc
    BY <1>1
  <2> QED BY <2>1, DocAssumption, FS_Subset
<1>3. order \in Seq(S) /\ \A d \in S : \E n \in DOMAIN order : order[n] = d
  BY <1>2, ListHasAll
<1>4. new \in PartialRows /\ DOMAIN new = DOMAIN old /\ \A d \in DOMAIN old : Tokens(new[d]) = {}
  <2>1. new \in [DOMAIN old -> Row] /\ DOMAIN old \in SUBSET Doc
    BY <1>1
  <2> QED BY <1>1, <2>1, PartialMade
<1>5. ASSUME NEW d \in S
      PROVE  LET job == Job(d, old[d], Absent)
             IN  /\ job \in JobSet /\ WellMade(job) /\ JobDocs(job) \subseteq {d}
                 /\ \A e, t : <<e, t>> \in Pending(job) <=> e = d /\ t \in Tokens(old[d])
                 /\ \A e, t : <<e, t>> \notin job.add
  <2>1. d \in Doc /\ old[d] \in Row
    BY <1>1
  <2>2. PICK job : job = Job(d, old[d], Absent)
    OBVIOUS
  <2>3. /\ job \in JobSet /\ job.remove \cap job.add = {} /\ JobDocs(job) \subseteq {d}
        /\ \A e, t : <<e, t>> \in Pending(job) <=>
               e = d /\ t \in (Tokens(old[d]) \ Tokens(Absent)) \cup (Tokens(Absent) \ Tokens(old[d]))
        /\ \A e, t : <<e, t>> \in job.add <=> e = d /\ t \in Tokens(Absent) \ Tokens(old[d])
    BY <1>1, <2>1, <2>2, JobMade
  <2>4. /\ \A e, t : <<e, t>> \in Pending(job) <=> e = d /\ t \in Tokens(old[d])
        /\ \A e, t : <<e, t>> \notin job.add
    BY <1>1, <2>3
  <2>5. Pending(job) # {}
    BY <2>4
  <2>6. WellMade(job)
    BY <2>3, <2>5 DEF WellMade
  <2> QED BY <2>2, <2>3, <2>4, <2>6
<1>6. \A n \in DOMAIN order : order[n] \in S
  BY <1>3
<1>7. due \in Seq(JobSet) /\ DOMAIN due = DOMAIN order
      /\ \A n \in DOMAIN order : due[n] = Job(order[n], old[order[n]], Absent)
  <2>1. \A n \in DOMAIN order : Job(order[n], old[order[n]], Absent) \in JobSet
    BY <1>5, <1>6
  <2>2. DOMAIN order = 1..Len(order) /\ Len(order) \in Nat
    BY <1>3
  <2>3. due \in [1..Len(order) -> JobSet]
    BY <2>1, <2>2
  <2> QED BY <2>2, <2>3
<1> HIDE DEF due, new
<1>8. \A n \in DOMAIN due : WellMade(due[n]) /\ JobDocs(due[n]) \subseteq DOMAIN new
  <2> SUFFICES ASSUME NEW n \in DOMAIN due
               PROVE  WellMade(due[n]) /\ JobDocs(due[n]) \subseteq DOMAIN new
    OBVIOUS
  <2>1. order[n] \in S /\ due[n] = Job(order[n], old[order[n]], Absent)
    BY <1>6, <1>7
  <2>2. WellMade(due[n]) /\ JobDocs(due[n]) \subseteq {order[n]}
    BY <1>5, <2>1
  <2> QED BY <1>4, <2>1, <2>2
<1>9. ASSUME NEW d \in DOMAIN new \cap clean', NEW t \in Token
      PROVE  /\ \A n \in DOMAIN due : <<d, t>> \in Pending(due[n]) => <<d, t>> \notin due[n].add
             /\ (\A n \in DOMAIN due : <<d, t>> \notin Pending(due[n])) => t \notin Tokens(rows[d])
  <2>1. d \in DOMAIN old /\ old[d] = rows[d]
    BY <1>4
  <2>2. ASSUME NEW n \in DOMAIN due
        PROVE  <<d, t>> \notin due[n].add
    <3>1. order[n] \in S /\ due[n] = Job(order[n], old[order[n]], Absent)
      BY <1>6, <1>7
    <3> QED BY <1>5, <3>1
  <2>3. ASSUME t \in Tokens(rows[d])
        PROVE  \E n \in DOMAIN due : <<d, t>> \in Pending(due[n])
    <3>1. d \in S
      BY <2>1, <2>3
    <3>2. PICK n \in DOMAIN due : order[n] = d /\ due[n] = Job(d, old[d], Absent)
      BY <1>3, <1>7, <3>1
    <3> QED BY <1>5, <2>1, <2>3, <3>1, <3>2
  <2> QED BY <2>2, <2>3
<1>10. Fits(new, due)
  BY <1>4, <1>7, <1>8, <1>9 DEF Fits
<1> QED BY <1>10 DEF new, due

-----------------------------------------------------------------------------
(* The other operations. *)

LEMMA CreateKeeps ==
  ASSUME SearchInv, NEW w \in Worker, Create(w)
  PROVE  Kept
<1>1. PICK d \in Doc, text \in Text :
          rows[d] = Absent /\ Written(w, [e \in {d} |-> text], Due(Job(d, Absent, text)))
  BY DEF Create
<1>2. text \in Row /\ Absent \in Row
  BY DEF Row
<1>3. rows \in [Doc -> Row]
  BY DEF SearchInv, TypeOK, WritesTypeOK
<1>4. Fits([e \in {d} |-> text], Due(Job(d, Absent, text)))
  BY <1>1, <1>2, <1>3, JobFits
<1>5. Returns(w)
  <2>1. op[w] = "none" /\ UNCHANGED <<op, seen>> /\ ops < MaxOps /\ ops' = ops + 1
    BY DEF Create, Ready
  <2>2. ops' \in 0..MaxOps
    BY <2>1, BoundAssumption DEF SearchInv, TypeOK, WritesTypeOK
  <2>3. DOMAIN seen[w] = {}
    BY <2>1 DEF SearchInv, OperationInv
  <2>4. /\ seen \in [Worker -> PartialRows]
        /\ op \in [Worker -> {"none", "update", "delete", "deleteMany"}]
    BY DEF SearchInv, TypeOK, WritesTypeOK
  <2> QED BY <2>1, <2>2, <2>3, <2>4 DEF Returns
<1> QED BY <1>1, <1>4, <1>5, WrittenKeeps

LEMMA CreateManyKeeps ==
  ASSUME SearchInv, NEW w \in Worker, CreateMany(w)
  PROVE  Kept
<1>1. PICK ids \in SUBSET Doc : \E new \in [ids -> Text] :
          (\A d \in ids : rows[d] = Absent) /\ Written(w, new, Due(BatchJob(new)))
  BY DEF CreateMany
<1>2. PICK new \in [ids -> Text] :
          (\A d \in ids : rows[d] = Absent) /\ Written(w, new, Due(BatchJob(new)))
  BY <1>1
<1>3. Fits(new, Due(BatchJob(new)))
  BY <1>2, BatchFits
<1>4. Returns(w)
  <2>1. op[w] = "none" /\ UNCHANGED <<op, seen>> /\ ops < MaxOps /\ ops' = ops + 1
    BY DEF CreateMany, Ready
  <2>2. ops' \in 0..MaxOps
    BY <2>1, BoundAssumption DEF SearchInv, TypeOK, WritesTypeOK
  <2>3. DOMAIN seen[w] = {}
    BY <2>1 DEF SearchInv, OperationInv
  <2>4. /\ seen \in [Worker -> PartialRows]
        /\ op \in [Worker -> {"none", "update", "delete", "deleteMany"}]
    BY DEF SearchInv, TypeOK, WritesTypeOK
  <2> QED BY <2>1, <2>2, <2>3, <2>4 DEF Returns
<1> QED BY <1>2, <1>3, <1>4, WrittenKeeps

LEMMA NothingTyped == Nothing \in PartialRows /\ DOMAIN Nothing = {}
<1>1. Nothing \in [{} -> Row] /\ {} \in SUBSET Doc
  BY DEF Nothing
<1> QED BY <1>1, PartialMade DEF Nothing

\* The operations that have read are over.
LEMMA NoMoreReturns ==
  ASSUME SearchInv, NEW w \in Worker, NoMore(w)
  PROVE  Returns(w)
<1>1. Nothing \in PartialRows /\ DOMAIN Nothing = {}
  BY NothingTyped
<1>2. /\ seen \in [Worker -> PartialRows] /\ ops \in 0..MaxOps
      /\ op \in [Worker -> {"none", "update", "delete", "deleteMany"}]
  BY DEF SearchInv, TypeOK, WritesTypeOK
<1> QED BY <1>1, <1>2 DEF NoMore, Returns

LEMMA UpdateKeeps ==
  ASSUME SearchInv, NEW w \in Worker, Update(w)
  PROVE  Kept
<1>1. PICK d \in DOMAIN seen[w], text \in Text :
          Written(w, [e \in {d} |-> text], Due(Job(d, seen[w][d], text)))
  BY DEF Update
<1>2. seen[w] \in PartialRows /\ rows \in [Doc -> Row] /\ text \in Row
  BY DEF SearchInv, TypeOK, WritesTypeOK, Row
<1>3. d \in Doc /\ seen[w][d] \in Row
  BY <1>2, PartialRow
<1>4. d \in clean' => seen[w][d] = rows[d]
  BY <1>1 DEF Written, Touches, SearchInv, CleanInv, SeenIsCurrent
<1>5. Fits([e \in {d} |-> text], Due(Job(d, seen[w][d], text)))
  BY <1>2, <1>3, <1>4, JobFits
<1>6. Returns(w)
  BY NoMoreReturns DEF Update
<1> QED BY <1>1, <1>5, <1>6, WrittenKeeps

LEMMA DeleteKeeps ==
  ASSUME SearchInv, NEW w \in Worker, Delete(w)
  PROVE  Kept
<1>1. PICK order \in SetToSeqs({d \in DOMAIN seen[w] : Tokens(seen[w][d]) # {}}) :
          Written(w, [d \in DOMAIN seen[w] |-> Absent],
                  [n \in DOMAIN order |-> Job(order[n], seen[w][order[n]], Absent)])
  BY DEF Delete
<1>2. seen[w] \in PartialRows /\ rows \in [Doc -> Row]
  BY DEF SearchInv, TypeOK, WritesTypeOK
<1>3. \A d \in DOMAIN seen[w] \cap clean' : seen[w][d] = rows[d]
  BY <1>1 DEF Written, Touches, SearchInv, CleanInv, SeenIsCurrent
<1>4. Fits([d \in DOMAIN seen[w] |-> Absent],
           [n \in DOMAIN order |-> Job(order[n], seen[w][order[n]], Absent)])
  BY <1>1, <1>2, <1>3, DeletionFits
<1>5. Returns(w)
  BY NoMoreReturns DEF Delete
<1> QED BY <1>1, <1>4, <1>5, WrittenKeeps

\* Steps that leave the rows and the index alone, and do not queue anything.
LEMMA QuietKeeps ==
  ASSUME SearchInv, UNCHANGED <<postings, jobs, rows>>, clean' \subseteq clean,
         WritesTypeOK', OperationInv',
         \A d \in clean' : Sole(d)' /\ SeenIsCurrent(d)' /\ UndoIsIndexed(d)'
  PROVE  Kept
<1>1. JobsTyped'
  BY DEF SearchInv, JobsTyped
<1>2. CleanInv'
  <2> SUFFICES ASSUME NEW d \in clean' PROVE LeadsToIndex(d)'
    BY DEF CleanInv
  <2>1. LeadsToIndex(d)
    BY DEF SearchInv, CleanInv
  <2> QED BY <2>1 DEF LeadsToIndex, LastToTouch, Untouched, Pending
<1>3. SteadyKept
  BY DEF SteadyKept, SearchInv, SteadyInv, Untouched, Pending
<1> QED BY <1>1, <1>2, <1>3 DEF Kept

LEMMA ReadKeeps ==
  ASSUME SearchInv, NEW w \in Worker, Read(w)
  PROVE  Kept
<1>1. PICK kind \in {"update", "delete", "deleteMany"}, ids \in SUBSET Doc :
          /\ op' = [op EXCEPT ![w] = kind]
          /\ seen' = [seen EXCEPT ![w] = [d \in ids |-> rows[d]]]
          /\ clean' = clean \ (ids \cap UNION {Busy(u) : u \in Worker \ {w}})
  BY DEF Read, Touches
<1>2. UNCHANGED <<postings, jobs, rows, inTxn, undo>> /\ op[w] = "none" /\ ops < MaxOps /\ ops' = ops + 1
  BY DEF Read, Ready
<1>3. /\ seen \in [Worker -> PartialRows] /\ rows \in [Doc -> Row] /\ ops \in 0..MaxOps
      /\ op \in [Worker -> {"none", "update", "delete", "deleteMany"}]
      /\ clean \subseteq Doc /\ DOMAIN seen[w] = {}
  BY <1>2 DEF SearchInv, TypeOK, WritesTypeOK, OperationInv
<1>4. [d \in ids |-> rows[d]] \in PartialRows
  <2>1. [d \in ids |-> rows[d]] \in [ids -> Row]
    BY <1>3
  <2> QED BY <2>1, PartialMade
<1>5. /\ seen' \in [Worker -> PartialRows] /\ DOMAIN seen'[w] = ids
      /\ \A d \in ids : seen'[w][d] = rows[d]
      /\ \A u \in Worker \ {w} : seen'[u] = seen[u] /\ op'[u] = op[u]
      /\ op' \in [Worker -> {"none", "update", "delete", "deleteMany"}] /\ op'[w] # "none"
  BY <1>1, <1>3, <1>4
<1>6. ops' \in 0..MaxOps
  BY <1>2, <1>3, BoundAssumption
<1>7. WritesTypeOK'
  <2>1. clean' \subseteq Doc
    BY <1>1, <1>3
  <2>2. postings' \subseteq Doc \X Token /\ inTxn' \in [Worker -> BOOLEAN]
    BY <1>2 DEF SearchInv, TypeOK, WritesTypeOK
  <2>3. rows' \in [Doc -> Row] /\ undo' \in [Worker -> PartialRows]
    BY <1>2 DEF SearchInv, TypeOK, WritesTypeOK
  <2>4. \A u \in Worker : \A n \in DOMAIN jobs'[u] :
            /\ jobs'[u][n].remove \cup jobs'[u][n].add \subseteq Doc \X Token
            /\ jobs'[u][n].remove \cap jobs'[u][n].add = {}
            /\ jobs'[u][n].remove \cup jobs'[u][n].add # {}
    BY <1>2 DEF SearchInv, TypeOK, WritesTypeOK
  <2> QED BY <1>5, <1>6, <2>1, <2>2, <2>3, <2>4 DEF WritesTypeOK
<1>8. OperationInv'
  <2>1. ASSUME NEW u \in Worker, op'[u] = "none"
        PROVE  DOMAIN seen'[u] = {}
    BY <1>5, <2>1 DEF SearchInv, OperationInv
  <2> QED BY <1>2, <2>1 DEF SearchInv, OperationInv, JobDocs
<1>9. /\ Busy(w)' \subseteq Busy(w) \cup ids
      /\ \A u \in Worker \ {w} : Busy(u)' = Busy(u)
  BY <1>2, <1>5 DEF Busy, JobDocs
<1>10. ASSUME NEW d \in clean'
       PROVE  Sole(d)' /\ SeenIsCurrent(d)' /\ UndoIsIndexed(d)'
  <2>1. /\ Sole(d) /\ SeenIsCurrent(d) /\ UndoIsIndexed(d)
        /\ d \in ids => \A u \in Worker \ {w} : d \notin Busy(u)
    BY <1>1 DEF SearchInv, CleanInv
  <2>2. Sole(d)'
    BY <1>9, <2>1 DEF Sole
  <2>3. SeenIsCurrent(d)'
    BY <1>2, <1>5, <2>1 DEF SeenIsCurrent
  <2>4. UndoIsIndexed(d)'
    BY <1>2, <2>1 DEF UndoIsIndexed
  <2> QED BY <2>2, <2>3, <2>4
<1>11. clean' \subseteq clean
  BY <1>1
<1> QED BY <1>2, <1>7, <1>8, <1>10, <1>11, QuietKeeps

\* Steps that end an operation, or a transaction, and do nothing else.
LEMMA EndingKeeps ==
  ASSUME SearchInv, UNCHANGED <<postings, jobs, rows, clean>>, WritesTypeOK', OperationInv',
         \A u \in Worker : /\ DOMAIN seen'[u] \subseteq DOMAIN seen[u]
                           /\ \A d \in DOMAIN seen'[u] : seen'[u][d] = seen[u][d]
                           /\ DOMAIN undo'[u] \subseteq DOMAIN undo[u]
                           /\ \A d \in DOMAIN undo'[u] : undo'[u][d] = undo[u][d]
  PROVE  Kept
<1>1. \A u \in Worker : Busy(u)' \subseteq Busy(u)
  BY FewerBusy
<1>2. ASSUME NEW d \in clean'
      PROVE  Sole(d)' /\ SeenIsCurrent(d)' /\ UndoIsIndexed(d)'
  <2>1. Sole(d) /\ SeenIsCurrent(d) /\ UndoIsIndexed(d)
    BY DEF SearchInv, CleanInv
  <2> QED BY <1>1, <2>1 DEF Sole, SeenIsCurrent, UndoIsIndexed
<1> QED BY <1>2, QuietKeeps

\* What is left of the types by a step that does not write.
LEMMA ReadTypes ==
  ASSUME SearchInv, UNCHANGED <<postings, jobs, rows, clean>>,
         seen' \in [Worker -> PartialRows], undo' \in [Worker -> PartialRows],
         inTxn' \in [Worker -> BOOLEAN], ops' \in 0..MaxOps,
         op' \in [Worker -> {"none", "update", "delete", "deleteMany"}]
  PROVE  WritesTypeOK'
<1>1. /\ postings' \subseteq Doc \X Token /\ rows' \in [Doc -> Row] /\ clean' \subseteq Doc
  BY DEF SearchInv, TypeOK, WritesTypeOK
<1>2. \A u \in Worker : \A n \in DOMAIN jobs'[u] :
          /\ jobs'[u][n].remove \cup jobs'[u][n].add \subseteq Doc \X Token
          /\ jobs'[u][n].remove \cap jobs'[u][n].add = {}
          /\ jobs'[u][n].remove \cup jobs'[u][n].add # {}
  BY DEF SearchInv, TypeOK, WritesTypeOK
<1> QED BY <1>1, <1>2 DEF WritesTypeOK

LEMMA UpdateRejectedKeeps ==
  ASSUME SearchInv, NEW w \in Worker, UpdateRejected(w)
  PROVE  Kept
<1>1. Returns(w) /\ UNCHANGED <<postings, jobs, rows, inTxn, undo, clean>>
  BY NoMoreReturns DEF UpdateRejected
<1>2. inTxn' \in [Worker -> BOOLEAN] /\ undo' \in [Worker -> PartialRows]
  BY <1>1 DEF SearchInv, TypeOK, WritesTypeOK
<1>3. WritesTypeOK'
  BY <1>1, <1>2, ReadTypes DEF Returns
<1>4. OperationInv'
  <2>1. ASSUME NEW u \in Worker, op'[u] = "none"
        PROVE  DOMAIN seen'[u] = {}
    BY <1>1, <2>1 DEF SearchInv, OperationInv, Returns
  <2> QED BY <1>1, <2>1 DEF SearchInv, OperationInv, JobDocs
<1>5. ASSUME NEW u \in Worker
      PROVE  /\ DOMAIN seen'[u] \subseteq DOMAIN seen[u]
             /\ \A d \in DOMAIN seen'[u] : seen'[u][d] = seen[u][d]
  BY <1>1 DEF Returns
<1> QED BY <1>1, <1>3, <1>4, <1>5, EndingKeeps

LEMMA BeginKeeps ==
  ASSUME SearchInv, NEW w \in Worker, Begin(w)
  PROVE  Kept
<1>1. /\ UNCHANGED <<postings, jobs, rows, op, seen, undo, ops, clean>>
      /\ jobs[w] = <<>> /\ inTxn' = [inTxn EXCEPT ![w] = TRUE]
  BY DEF Begin
<1>2. inTxn' \in [Worker -> BOOLEAN] /\ inTxn'[w] /\ \A u \in Worker \ {w} : inTxn'[u] = inTxn[u]
  BY <1>1 DEF SearchInv, TypeOK, WritesTypeOK
<1>3. /\ undo' \in [Worker -> PartialRows] /\ seen' \in [Worker -> PartialRows] /\ ops' \in 0..MaxOps
      /\ op' \in [Worker -> {"none", "update", "delete", "deleteMany"}]
  BY <1>1 DEF SearchInv, TypeOK, WritesTypeOK
<1>4. WritesTypeOK'
  BY <1>1, <1>2, <1>3, ReadTypes
<1>5. OperationInv'
  <2>1. \A u \in Worker : op[u] = "none" => DOMAIN seen[u] = {}
    BY DEF SearchInv, OperationInv
  <2>2. \A u \in Worker : ~inTxn'[u] => DOMAIN undo[u] = {}
    BY <1>2 DEF SearchInv, OperationInv
  <2>3. ASSUME NEW u \in Worker, inTxn'[u], NEW n \in DOMAIN jobs[u]
        PROVE  JobDocs(jobs[u][n]) \subseteq DOMAIN undo[u]
    <3>1. u # w
      BY <1>1
    <3> QED BY <1>2, <2>3, <3>1 DEF SearchInv, OperationInv
  <2> QED BY <1>1, <2>1, <2>2, <2>3 DEF OperationInv, JobDocs
<1> QED BY <1>1, <1>4, <1>5, EndingKeeps

LEMMA CommitKeeps ==
  ASSUME SearchInv, NEW w \in Worker, Commit(w)
  PROVE  Kept
<1>1. /\ UNCHANGED <<postings, jobs, rows, op, seen, ops, clean>>
      /\ inTxn' = [inTxn EXCEPT ![w] = FALSE] /\ undo' = [undo EXCEPT ![w] = Nothing]
  BY DEF Commit
<1>2. inTxn' \in [Worker -> BOOLEAN] /\ ~inTxn'[w] /\ \A u \in Worker \ {w} : inTxn'[u] = inTxn[u]
  BY <1>1 DEF SearchInv, TypeOK, WritesTypeOK
<1>3. /\ undo' \in [Worker -> PartialRows] /\ DOMAIN undo'[w] = {}
      /\ \A u \in Worker \ {w} : undo'[u] = undo[u]
  BY <1>1, NothingTyped DEF SearchInv, TypeOK, WritesTypeOK
<1>4. /\ seen' \in [Worker -> PartialRows] /\ ops' \in 0..MaxOps
      /\ op' \in [Worker -> {"none", "update", "delete", "deleteMany"}]
  BY <1>1 DEF SearchInv, TypeOK, WritesTypeOK
<1>5. WritesTypeOK'
  BY <1>1, <1>2, <1>3, <1>4, ReadTypes
<1>6. OperationInv'
  <2>1. \A u \in Worker : op[u] = "none" => DOMAIN seen[u] = {}
    BY DEF SearchInv, OperationInv
  <2>2. ASSUME NEW u \in Worker, ~inTxn'[u]
        PROVE  DOMAIN undo'[u] = {}
    BY <1>2, <1>3, <2>2 DEF SearchInv, OperationInv
  <2>3. ASSUME NEW u \in Worker, inTxn'[u], NEW n \in DOMAIN jobs[u]
        PROVE  JobDocs(jobs[u][n]) \subseteq DOMAIN undo'[u]
    <3>1. u # w
      BY <1>2, <2>3
    <3> QED BY <1>2, <1>3, <2>3, <3>1 DEF SearchInv, OperationInv
  <2> QED BY <1>1, <2>1, <2>2, <2>3 DEF OperationInv, JobDocs
<1>7. ASSUME NEW u \in Worker
      PROVE  /\ DOMAIN undo'[u] \subseteq DOMAIN undo[u]
             /\ \A d \in DOMAIN undo'[u] : undo'[u][d] = undo[u][d]
  BY <1>3
<1> QED BY <1>1, <1>5, <1>6, <1>7, EndingKeeps

\* The rows are as the index has them: that is what UndoIsIndexed is for.
LEMMA RollBackKeeps ==
  ASSUME SearchInv, NEW w \in Worker, RollBack(w)
  PROVE  Kept
<1>1. /\ UNCHANGED <<postings, op, seen, ops, clean>> /\ inTxn[w] /\ op[w] = "none"
      /\ inTxn' = [inTxn EXCEPT ![w] = FALSE] /\ undo' = [undo EXCEPT ![w] = Nothing]
      /\ jobs' = [jobs EXCEPT ![w] = <<>>] /\ rows' = Replaced(undo[w])
  BY DEF RollBack, Forgotten
<1>2. inTxn' \in [Worker -> BOOLEAN] /\ ~inTxn'[w] /\ \A u \in Worker \ {w} : inTxn'[u] = inTxn[u]
  BY <1>1 DEF SearchInv, TypeOK, WritesTypeOK
<1>3. /\ undo' \in [Worker -> PartialRows] /\ DOMAIN undo'[w] = {}
      /\ \A u \in Worker \ {w} : undo'[u] = undo[u]
  BY <1>1, NothingTyped DEF SearchInv, TypeOK, WritesTypeOK
<1>4. /\ jobs' \in [Worker -> Seq(JobSet)] /\ DOMAIN jobs'[w] = {}
      /\ \A u \in Worker \ {w} : jobs'[u] = jobs[u]
  <2>1. <<>> \in Seq(JobSet) /\ DOMAIN <<>> = {}
    OBVIOUS
  <2> QED BY <1>1, <2>1 DEF SearchInv, JobsTyped
<1>5. /\ rows' \in [Doc -> Row]
      /\ \A d \in Doc : rows'[d] = IF d \in DOMAIN undo[w] THEN undo[w][d] ELSE rows[d]
  <2>1. rows \in [Doc -> Row] /\ undo[w] \in PartialRows
    BY DEF SearchInv, TypeOK, WritesTypeOK
  <2>2. \A d \in DOMAIN undo[w] : undo[w][d] \in Row
    BY <2>1, PartialRow
  <2> QED BY <1>1, <2>1, <2>2 DEF Replaced
<1>6. WritesTypeOK' /\ JobsTyped'
  <2>1. \A u \in Worker : \A n \in DOMAIN jobs'[u] :
            /\ jobs'[u][n].remove \cup jobs'[u][n].add \subseteq Doc \X Token
            /\ jobs'[u][n].remove \cap jobs'[u][n].add = {}
            /\ jobs'[u][n].remove \cup jobs'[u][n].add # {}
    BY <1>4 DEF SearchInv, TypeOK, WritesTypeOK
  <2>2. /\ postings' \subseteq Doc \X Token /\ clean' \subseteq Doc
        /\ seen' \in [Worker -> PartialRows] /\ ops' \in 0..MaxOps
        /\ op' \in [Worker -> {"none", "update", "delete", "deleteMany"}]
    BY <1>1 DEF SearchInv, TypeOK, WritesTypeOK
  <2>3. JobsTyped'
    BY <1>4 DEF JobsTyped
  <2> QED BY <1>2, <1>3, <1>5, <2>1, <2>2, <2>3 DEF WritesTypeOK
<1>7. OperationInv'
  <2>1. \A u \in Worker : op[u] = "none" => DOMAIN seen[u] = {}
    BY DEF SearchInv, OperationInv
  <2>2. ASSUME NEW u \in Worker, ~inTxn'[u]
        PROVE  DOMAIN undo'[u] = {}
    BY <1>2, <1>3, <2>2 DEF SearchInv, OperationInv
  <2>3. ASSUME NEW u \in Worker, inTxn'[u], NEW n \in DOMAIN jobs'[u]
        PROVE  JobDocs(jobs'[u][n]) \subseteq DOMAIN undo'[u]
    <3>1. u # w
      BY <1>2, <2>3
    <3> QED BY <1>2, <1>3, <1>4, <2>3, <3>1 DEF SearchInv, OperationInv
  <2>4. ASSUME NEW u \in Worker, inTxn'[u], NEW n \in DOMAIN jobs'[u]
        PROVE  JobDocs(jobs[u][n])' \subseteq DOMAIN undo'[u]
    BY <2>3, <2>4 DEF JobDocs
  <2> QED BY <1>1, <2>1, <2>2, <2>4 DEF OperationInv
<1>8. \A u \in Worker : Busy(u)' \subseteq Busy(u)
  <2>1. ASSUME NEW u \in Worker
        PROVE  /\ DOMAIN seen'[u] \subseteq DOMAIN seen[u] /\ DOMAIN undo'[u] \subseteq DOMAIN undo[u]
               /\ \A n \in DOMAIN jobs'[u] :
                     \E m \in DOMAIN jobs[u] : JobDocs(jobs'[u][n]) \subseteq JobDocs(jobs[u][m])
    BY <1>1, <1>3, <1>4
  <2> QED BY <2>1, FewerBusy
<1>9. ASSUME NEW d \in clean, d \in DOMAIN undo[w]
      PROVE  \A u \in Worker \ {w} : d \notin Busy(u)
  BY <1>9, BusyWith DEF SearchInv, CleanInv, Sole
\* The hooks forgotten are about documents that are put back.
<1>10. ASSUME NEW d, d \notin DOMAIN undo[w], NEW t, Untouched(<<d, t>>)'
       PROVE  Untouched(<<d, t>>)
  <2>1. ASSUME NEW n \in DOMAIN jobs[w]
        PROVE  <<d, t>> \notin Pending(jobs[w][n])
    <3>1. d \notin JobDocs(jobs[w][n])
      BY <1>1, <1>10 DEF SearchInv, OperationInv
    <3> QED BY <3>1, TouchedDoc
  <2> QED BY <1>4, <1>10, <2>1 DEF Untouched, Pending
<1>11. CleanInv'
  <2> SUFFICES ASSUME NEW d \in clean
               PROVE  Sole(d)' /\ SeenIsCurrent(d)' /\ UndoIsIndexed(d)' /\ LeadsToIndex(d)'
    BY <1>1 DEF CleanInv
  <2>1. Sole(d) /\ SeenIsCurrent(d) /\ UndoIsIndexed(d) /\ LeadsToIndex(d) /\ d \in Doc
    BY DEF SearchInv, CleanInv, TypeOK, WritesTypeOK
  <2>2. Sole(d)'
    BY <1>8, <2>1 DEF Sole
  <2>3. SeenIsCurrent(d)'
    <3>1. ASSUME NEW u \in Worker, d \in DOMAIN seen[u]
          PROVE  seen[u][d] = rows'[d]
      <4>1. u # w /\ d \in Busy(u)
        BY <1>1, <3>1, BusyWith DEF SearchInv, OperationInv
      <4>2. rows'[d] = rows[d]
        BY <1>5, <1>9, <2>1, <4>1
      <4> QED BY <2>1, <3>1, <4>2 DEF SeenIsCurrent
    <3> QED BY <1>1, <3>1 DEF SeenIsCurrent
  <2>4. UndoIsIndexed(d)'
    BY <1>1, <1>3, <2>1 DEF UndoIsIndexed
  <2>5. LeadsToIndex(d)'
    <3>1. ASSUME NEW t \in Token, NEW u \in Worker, NEW n \in DOMAIN jobs'[u],
                 LastToTouch(u, n, <<d, t>>)'
          PROVE  <<d, t>> \in jobs'[u][n].add <=> t \in Tokens(rows'[d])
      <4>1. u # w /\ jobs'[u] = jobs[u]
        BY <1>4, <3>1
      <4>2. LastToTouch(u, n, <<d, t>>)
        BY <3>1, <4>1 DEF LastToTouch, Pending
      <4>3. d \in Busy(u)
        BY <4>1, <4>2, TouchedDoc, BusyWith DEF LastToTouch
      <4>4. rows'[d] = rows[d]
        BY <1>5, <1>9, <2>1, <4>1, <4>3
      <4> QED BY <2>1, <4>1, <4>2, <4>4 DEF LeadsToIndex
    <3>2. ASSUME NEW t \in Token, Untouched(<<d, t>>)'
          PROVE  <<d, t>> \in postings <=> t \in Tokens(rows'[d])
      <4>1. CASE d \in DOMAIN undo[w]
        BY <1>5, <2>1, <4>1 DEF UndoIsIndexed
      <4>2. CASE d \notin DOMAIN undo[w]
        <5>1. Untouched(<<d, t>>)
          BY <1>10, <3>2, <4>2
        <5> QED BY <1>5, <2>1, <4>2, <5>1 DEF LeadsToIndex
      <4> QED BY <4>1, <4>2
    <3> QED BY <1>1, <3>1, <3>2 DEF LeadsToIndex
  <2> QED BY <2>2, <2>3, <2>4, <2>5
<1>12. SteadyKept
  <2> SUFFICES ASSUME NEW d \in steady, NEW t \in query
               PROVE  <<d, t>> \in postings /\ Untouched(<<d, t>>)'
    BY <1>1 DEF SteadyKept
  <2>1. <<d, t>> \in postings /\ Untouched(<<d, t>>)
    BY DEF SearchInv, SteadyInv
  <2> QED BY <1>4, <2>1 DEF Untouched, Pending
<1> QED BY <1>1, <1>6, <1>7, <1>11, <1>12 DEF Kept

\* Whatever a caller does, the invariant stays.
LEMMA WriteKeeps ==
  ASSUME SearchInv, Write
  PROVE  SearchInv'
<1>1. /\ phase = "up" /\ UNCHANGED <<connectVars, query, lookups, found>>
      /\ steady' = {d \in steady \cap clean' : query \subseteq Tokens(rows'[d])}
  BY DEF Write
<1>2. Kept
  <2>1. PICK w \in Worker :
            \/ Create(w) \/ CreateMany(w)
            \/ Read(w) \/ Update(w) \/ UpdateRejected(w) \/ Delete(w)
            \/ Begin(w) \/ Commit(w) \/ RollBack(w)
            \/ HookStep(w) \/ HookFails(w)
    BY DEF Write
  <2>2. CASE Create(w)
    BY <2>2, CreateKeeps
  <2>3. CASE CreateMany(w)
    BY <2>3, CreateManyKeeps
  <2>4. CASE Read(w)
    BY <2>4, ReadKeeps
  <2>5. CASE Update(w)
    BY <2>5, UpdateKeeps
  <2>6. CASE UpdateRejected(w)
    BY <2>6, UpdateRejectedKeeps
  <2>7. CASE Delete(w)
    BY <2>7, DeleteKeeps
  <2>8. CASE Begin(w)
    BY <2>8, BeginKeeps
  <2>9. CASE Commit(w)
    BY <2>9, CommitKeeps
  <2>10. CASE RollBack(w)
    BY <2>10, RollBackKeeps
  <2>11. CASE HookStep(w)
    BY <2>11, HookStepKeeps
  <2>12. CASE HookFails(w)
    BY <2>12, HookFailsKeeps
  <2> QED BY <2>1, <2>2, <2>3, <2>4, <2>5, <2>6, <2>7, <2>8, <2>9, <2>10, <2>11, <2>12
<1>3. TypeOK'
  BY <1>1, <1>2 DEF Kept, SearchInv, TypeOK
<1>4. RestsUnlessUp' /\ StampInv' /\ BuildInv'
  BY <1>1, <1>2 DEF Kept, SearchInv, RestsUnlessUp, StampInv, BuildInv
<1>5. SteadyInv'
  BY <1>1, <1>2 DEF Kept, SteadyKept, SearchInv, SteadyInv
<1> QED BY <1>2, <1>3, <1>4, <1>5 DEF Kept, SearchInv

-----------------------------------------------------------------------------
(* Connecting, crashes and queries. *)

LEMMA InitInv ==
  ASSUME Init
  PROVE  SearchInv
<1>1. WritesTypeOK /\ JobsTyped
  <2>1. <<>> \in Seq(JobSet) /\ DOMAIN <<>> = {}
    OBVIOUS
  <2>2. JobsTyped
    BY <2>1 DEF Init, JobsTyped
  <2>3. seen \in [Worker -> PartialRows] /\ undo \in [Worker -> PartialRows]
    BY NothingTyped DEF Init
  <2>4. \A w \in Worker : DOMAIN jobs[w] = {}
    BY <2>1 DEF Init
  <2> QED BY <2>2, <2>3, <2>4, BoundAssumption DEF Init, WritesTypeOK
<1>2. TypeOK
  BY <1>1 DEF Init, TypeOK
<1>3. RestsUnlessUp /\ StampInv /\ BuildInv /\ CleanInv /\ SteadyInv
  BY NothingTyped DEF Init, RestsUnlessUp, AtRest, StampInv, BuildInv, CleanInv, SteadyInv
<1>4. OperationInv
  BY NothingTyped DEF Init, OperationInv
<1> QED BY <1>1, <1>2, <1>3, <1>4 DEF SearchInv

\* Steps that leave the callers and their documents alone.
LEMMA CallersAlone ==
  ASSUME SearchInv, UNCHANGED <<jobs, rows, op, seen, inTxn, undo, ops, clean>>,
         postings' \subseteq Doc \X Token, clean = {} \/ UNCHANGED postings
  PROVE  WritesTypeOK' /\ JobsTyped' /\ OperationInv' /\ CleanInv'
<1>1. WritesTypeOK'
  <2>1. inTxn' \in [Worker -> BOOLEAN]
    BY DEF SearchInv, TypeOK, WritesTypeOK
  <2> QED BY <2>1 DEF SearchInv, TypeOK, WritesTypeOK
<1>2. JobsTyped'
  BY DEF SearchInv, JobsTyped
<1>3. OperationInv'
  BY DEF SearchInv, OperationInv, JobDocs
<1>4. CleanInv'
  <2>1. CASE clean = {}
    BY <2>1 DEF CleanInv
  <2>2. CASE UNCHANGED postings
    BY <2>2 DEF SearchInv, CleanInv, Sole, SeenIsCurrent, UndoIsIndexed, LeadsToIndex,
                LastToTouch, Untouched, Pending, Busy, JobDocs
  <2> QED BY <2>1, <2>2
<1> QED BY <1>1, <1>2, <1>3, <1>4

\* Nobody works on the collection: every posting is as it stays.
LEMMA RestUntouched ==
  ASSUME RestsUnlessUp, phase # "up", NEW p
  PROVE  Untouched(p)
  BY DEF RestsUnlessUp, AtRest, Untouched

LEMMA ConnectKeeps ==
  ASSUME SearchInv, Connect
  PROVE  SearchInv'
<1>1. /\ UNCHANGED <<writeVars, stamped, toBuild, queryVars>>
      /\ phase = "down" /\ phase' = IF stamped THEN "up" ELSE "clear"
  BY DEF Connect
<1>2. WritesTypeOK' /\ JobsTyped' /\ OperationInv' /\ CleanInv'
  BY <1>1, CallersAlone DEF SearchInv, TypeOK, WritesTypeOK
<1>3. TypeOK'
  BY <1>1, <1>2 DEF SearchInv, TypeOK
<1>4. RestsUnlessUp' /\ StampInv' /\ BuildInv'
  BY <1>1 DEF SearchInv, RestsUnlessUp, AtRest, StampInv, BuildInv
<1>5. SteadyInv'
  BY <1>1 DEF SearchInv, RestsUnlessUp, SteadyInv
<1> QED BY <1>2, <1>3, <1>4, <1>5 DEF SearchInv

LEMMA ClearIndexKeeps ==
  ASSUME SearchInv, ClearIndex
  PROVE  SearchInv'
<1>1. /\ UNCHANGED <<jobs, rows, op, seen, inTxn, undo, ops, clean, stamped, queryVars>>
      /\ phase = "clear" /\ phase' = "build" /\ postings' = {} /\ toBuild' = IndexOfRows
  BY DEF ClearIndex, Cleared, IndexOfRows
<1>2. clean = {}
  BY <1>1 DEF SearchInv, StampInv
<1>3. WritesTypeOK' /\ JobsTyped' /\ OperationInv' /\ CleanInv'
  BY <1>1, <1>2, CallersAlone
<1>4. TypeOK'
  BY <1>1, <1>3 DEF SearchInv, TypeOK, IndexOfRows
<1>5. RestsUnlessUp' /\ StampInv'
  BY <1>1 DEF SearchInv, RestsUnlessUp, AtRest, StampInv
<1>6. BuildInv'
  BY <1>1 DEF BuildInv, IndexOfRows
<1>7. SteadyInv'
  BY <1>1 DEF SearchInv, RestsUnlessUp, SteadyInv
<1> QED BY <1>3, <1>4, <1>5, <1>6, <1>7 DEF SearchInv

LEMMA BuildKeeps ==
  ASSUME SearchInv, Build
  PROVE  SearchInv'
<1>1. /\ UNCHANGED <<jobs, rows, op, seen, inTxn, undo, ops, clean, phase, stamped, queryVars>>
      /\ phase = "build"
  BY DEF Build
<1>2. PICK p \in toBuild : postings' = postings \cup {p} /\ toBuild' = toBuild \ {p}
  BY DEF Build
<1>3. clean = {}
  BY <1>1 DEF SearchInv, StampInv
<1>4. /\ postings' \subseteq Doc \X Token /\ toBuild' \subseteq Doc \X Token
      /\ postings' \cup toBuild' = postings \cup toBuild
  BY <1>2 DEF SearchInv, TypeOK, WritesTypeOK
<1>5. WritesTypeOK' /\ JobsTyped' /\ OperationInv' /\ CleanInv'
  BY <1>1, <1>3, <1>4, CallersAlone
<1>6. TypeOK'
  BY <1>1, <1>4, <1>5 DEF SearchInv, TypeOK
<1>7. RestsUnlessUp' /\ StampInv'
  BY <1>1 DEF SearchInv, RestsUnlessUp, AtRest, StampInv
<1>8. BuildInv'
  BY <1>1, <1>4 DEF SearchInv, BuildInv, IndexOfRows
<1>9. SteadyInv'
  BY <1>1 DEF SearchInv, RestsUnlessUp, SteadyInv
<1> QED BY <1>5, <1>6, <1>7, <1>8, <1>9 DEF SearchInv

\* The documents are clean from the stamp on.
LEMMA StampKeeps ==
  ASSUME SearchInv, Stamp
  PROVE  SearchInv'
<1>1. /\ UNCHANGED <<postings, jobs, rows, op, seen, inTxn, undo, ops, toBuild, queryVars>>
      /\ phase = "build" /\ toBuild = {} /\ stamped' = TRUE /\ phase' = "up" /\ clean' = Doc
  BY DEF Stamp
<1>2. postings = IndexOfRows
  BY <1>1 DEF SearchInv, BuildInv
<1>3. /\ \A w \in Worker : jobs[w] = <<>> /\ DOMAIN seen[w] = {} /\ DOMAIN undo[w] = {}
      /\ query = {} /\ steady = {}
  BY <1>1 DEF SearchInv, RestsUnlessUp, AtRest
<1>4. TypeOK' /\ JobsTyped' /\ OperationInv'
  <2>1. WritesTypeOK'
    <3>1. inTxn' \in [Worker -> BOOLEAN]
      BY <1>1 DEF SearchInv, TypeOK, WritesTypeOK
    <3> QED BY <1>1, <3>1 DEF SearchInv, TypeOK, WritesTypeOK
  <2>2. JobsTyped' /\ OperationInv'
    BY <1>1 DEF SearchInv, JobsTyped, OperationInv, JobDocs
  <2> QED BY <1>1, <2>1, <2>2 DEF SearchInv, TypeOK
<1>5. CleanInv'
  <2> SUFFICES ASSUME NEW d \in Doc
               PROVE  Sole(d)' /\ SeenIsCurrent(d)' /\ UndoIsIndexed(d)' /\ LeadsToIndex(d)'
    BY <1>1 DEF CleanInv
  <2>1. \A w \in Worker : d \notin Busy(w)
    BY <1>3, BusyWith
  <2>2. Sole(d)'
    BY <1>1, <2>1 DEF Sole, Busy, JobDocs
  <2>3. SeenIsCurrent(d)' /\ UndoIsIndexed(d)'
    BY <1>1, <1>3 DEF SeenIsCurrent, UndoIsIndexed
  <2>4. LeadsToIndex(d)'
    <3>1. \A t \in Token : <<d, t>> \in postings <=> t \in Tokens(rows[d])
      BY <1>2 DEF IndexOfRows
    <3>2. \A w \in Worker : DOMAIN jobs[w] = {}
      BY <1>3
    <3> QED BY <1>1, <3>1, <3>2 DEF LeadsToIndex
  <2> QED BY <2>2, <2>3, <2>4
<1>6. RestsUnlessUp' /\ StampInv' /\ BuildInv' /\ SteadyInv'
  BY <1>1, <1>3 DEF RestsUnlessUp, StampInv, BuildInv, SteadyInv
<1> QED BY <1>4, <1>5, <1>6 DEF SearchInv

\* A crash ends all that is under way; of the documents it was about, none is clean.
LEMMA CrashKeeps ==
  ASSUME SearchInv, Crash
  PROVE  SearchInv'
<1>1. /\ UNCHANGED <<postings, ops, stamped>> /\ phase' = "down" /\ toBuild' = {}
      /\ clean' = clean \ BusyDocs
      /\ query' = {} /\ lookups' = {} /\ found' = {} /\ steady' = {}
  BY DEF Crash
<1>2. /\ jobs' = [w \in Worker |-> <<>>] /\ op' = [w \in Worker |-> "none"]
      /\ seen' = [w \in Worker |-> Nothing] /\ inTxn' = [w \in Worker |-> FALSE]
      /\ undo' = [w \in Worker |-> Nothing]
  BY DEF Crash
<1>3. \A w \in Worker : /\ jobs'[w] = <<>> /\ op'[w] = "none" /\ ~inTxn'[w]
                        /\ DOMAIN seen'[w] = {} /\ DOMAIN undo'[w] = {}
  BY <1>2, NothingTyped
<1>4. \A w \in Worker : DOMAIN jobs'[w] = {}
  BY <1>3
<1>5. /\ rows' \in [Doc -> Row]
      /\ \A d \in Doc : (\A w \in Worker : d \notin DOMAIN undo[w]) => rows'[d] = rows[d]
  <2>1. rows \in [Doc -> Row] /\ \A w \in Worker : undo[w] \in PartialRows
    BY DEF SearchInv, TypeOK, WritesTypeOK
  <2>2. rows' = [d \in Doc |-> IF \E w \in Worker : d \in DOMAIN undo[w]
                               THEN undo[CHOOSE w \in Worker : d \in DOMAIN undo[w]][d]
                               ELSE rows[d]]
    BY DEF Crash
  <2>3. ASSUME NEW d \in Doc, \E w \in Worker : d \in DOMAIN undo[w]
        PROVE  undo[CHOOSE w \in Worker : d \in DOMAIN undo[w]][d] \in Row
    <3>1. PICK u : u = CHOOSE w \in Worker : d \in DOMAIN undo[w]
      OBVIOUS
    <3>2. u \in Worker /\ d \in DOMAIN undo[u]
      BY <2>3, <3>1
    <3>3. undo[u][d] \in Row
      BY <2>1, <3>2, PartialRow
    <3> QED BY <3>1, <3>3
  <2> QED BY <2>1, <2>2, <2>3
<1>6. TypeOK' /\ JobsTyped'
  <2>1. <<>> \in Seq(JobSet)
    OBVIOUS
  <2>2. JobsTyped'
    BY <1>2, <2>1 DEF JobsTyped
  <2>3. seen' \in [Worker -> PartialRows] /\ undo' \in [Worker -> PartialRows]
    BY <1>2, NothingTyped
  <2>4. inTxn' \in [Worker -> BOOLEAN] /\ op' \in [Worker -> {"none", "update", "delete", "deleteMany"}]
    BY <1>2
  <2>5. postings' \subseteq Doc \X Token /\ ops' \in 0..MaxOps /\ clean' \subseteq Doc
    BY <1>1 DEF SearchInv, TypeOK, WritesTypeOK
  <2>6. WritesTypeOK'
    BY <1>4, <1>5, <2>3, <2>4, <2>5 DEF WritesTypeOK
  <2>7. stamped' \in BOOLEAN
    BY <1>1 DEF SearchInv, TypeOK
  <2> QED BY <1>1, <2>2, <2>6, <2>7 DEF TypeOK
<1>7. CleanInv'
  <2> SUFFICES ASSUME NEW d \in clean, \A w \in Worker : d \notin Busy(w)
               PROVE  Sole(d)' /\ SeenIsCurrent(d)' /\ UndoIsIndexed(d)' /\ LeadsToIndex(d)'
    BY <1>1 DEF CleanInv, BusyDocs
  <2>1. LeadsToIndex(d) /\ d \in Doc
    BY DEF SearchInv, CleanInv, TypeOK, WritesTypeOK
  <2>2. Sole(d)' /\ SeenIsCurrent(d)' /\ UndoIsIndexed(d)'
    BY <1>3, <1>4 DEF Sole, Busy, SeenIsCurrent, UndoIsIndexed
  <2>3. LeadsToIndex(d)'
    <3>1. \A t : Untouched(<<d, t>>)
      BY BusyWith, TouchedDoc DEF Untouched
    <3>2. rows'[d] = rows[d]
      BY <1>5, <2>1, BusyWith
    <3> QED BY <1>1, <1>4, <2>1, <3>1, <3>2 DEF LeadsToIndex
  <2> QED BY <2>2, <2>3
<1>8. RestsUnlessUp'
  BY <1>1, <1>3 DEF RestsUnlessUp, AtRest
<1>9. StampInv' /\ BuildInv' /\ SteadyInv'
  BY <1>1 DEF SearchInv, StampInv, BuildInv, SteadyInv
<1>10. OperationInv'
  BY <1>3 DEF OperationInv
<1> QED BY <1>6, <1>7, <1>8, <1>9, <1>10 DEF SearchInv

LEMMA UnpluggedWriteKeeps ==
  ASSUME SearchInv, UnpluggedWrite
  PROVE  SearchInv'
<1>1. PICK e \in Doc, row \in Row : rows' = [rows EXCEPT ![e] = row] /\ clean' = clean \ {e}
  BY DEF UnpluggedWrite
<1>2. /\ UNCHANGED <<postings, jobs, op, seen, inTxn, undo, ops, connectVars, queryVars>>
      /\ phase = "down"
  BY DEF UnpluggedWrite
<1>3. \A w \in Worker : jobs[w] = <<>> /\ DOMAIN seen[w] = {} /\ DOMAIN undo[w] = {}
  BY <1>2 DEF SearchInv, RestsUnlessUp, AtRest
<1>4. TypeOK' /\ JobsTyped' /\ OperationInv'
  <2>1. rows' \in [Doc -> Row] /\ clean' \subseteq Doc
    BY <1>1 DEF SearchInv, TypeOK, WritesTypeOK
  <2>2. inTxn' \in [Worker -> BOOLEAN]
    BY <1>2 DEF SearchInv, TypeOK, WritesTypeOK
  <2>3. WritesTypeOK'
    BY <1>2, <2>1, <2>2 DEF SearchInv, TypeOK, WritesTypeOK
  <2>4. JobsTyped' /\ OperationInv'
    BY <1>2 DEF SearchInv, JobsTyped, OperationInv, JobDocs
  <2> QED BY <1>2, <2>3, <2>4 DEF SearchInv, TypeOK
<1>5. CleanInv'
  <2> SUFFICES ASSUME NEW d \in clean, d # e
               PROVE  Sole(d)' /\ SeenIsCurrent(d)' /\ UndoIsIndexed(d)' /\ LeadsToIndex(d)'
    BY <1>1 DEF CleanInv
  <2>1. Sole(d) /\ LeadsToIndex(d) /\ rows'[d] = rows[d]
    BY <1>1 DEF SearchInv, CleanInv, TypeOK, WritesTypeOK
  <2>2. Sole(d)'
    BY <1>2, <2>1 DEF Sole, Busy, JobDocs
  <2>3. SeenIsCurrent(d)' /\ UndoIsIndexed(d)'
    BY <1>2, <1>3 DEF SeenIsCurrent, UndoIsIndexed
  <2>4. LeadsToIndex(d)'
    BY <1>2, <2>1 DEF LeadsToIndex, LastToTouch, Untouched, Pending
  <2> QED BY <2>2, <2>3, <2>4
<1>6. RestsUnlessUp'
  BY <1>2 DEF SearchInv, RestsUnlessUp, AtRest
<1>7. StampInv' /\ BuildInv' /\ SteadyInv'
  BY <1>1, <1>2 DEF SearchInv, RestsUnlessUp, StampInv, BuildInv, SteadyInv
<1> QED BY <1>4, <1>5, <1>6, <1>7 DEF SearchInv

\* The postings of a clean document that nobody is busy with are those of its text.
LEMMA CleanIsIndexed ==
  ASSUME SearchInv, NEW d \in clean, d \notin BusyDocs
  PROVE  \A t \in Token : /\ Untouched(<<d, t>>)
                          /\ <<d, t>> \in postings <=> t \in Tokens(rows[d])
<1>1. \A w \in Worker : d \notin Busy(w)
  BY DEF BusyDocs
<1>2. \A t : Untouched(<<d, t>>)
  BY <1>1, BusyWith, TouchedDoc DEF Untouched
<1> QED BY <1>2 DEF SearchInv, CleanInv, LeadsToIndex

\* What the steps of a query leave alone.
LEMMA QueryLeaves ==
  ASSUME SearchInv, UNCHANGED <<writeVars, connectVars>>, phase = "up"
  PROVE  /\ WritesTypeOK' /\ JobsTyped' /\ OperationInv' /\ CleanInv'
         /\ RestsUnlessUp' /\ StampInv' /\ BuildInv'
<1>1. WritesTypeOK' /\ JobsTyped' /\ OperationInv' /\ CleanInv'
  BY CallersAlone DEF SearchInv, TypeOK, WritesTypeOK
<1> QED BY <1>1 DEF SearchInv, RestsUnlessUp, StampInv, BuildInv

LEMMA AskKeeps ==
  ASSUME SearchInv, Ask
  PROVE  SearchInv'
<1>1. /\ UNCHANGED <<writeVars, connectVars>> /\ phase = "up" /\ found' = Doc
  BY DEF Ask
<1>2. PICK q \in SUBSET Token : /\ query' = q /\ lookups' = q
                                /\ steady' = {d \in clean \ BusyDocs : q \subseteq Tokens(rows[d])}
  BY DEF Ask
<1>3. /\ WritesTypeOK' /\ JobsTyped' /\ OperationInv' /\ CleanInv'
      /\ RestsUnlessUp' /\ StampInv' /\ BuildInv'
  BY <1>1, QueryLeaves
<1>4. TypeOK'
  <2>1. steady' \subseteq Doc
    BY <1>2 DEF SearchInv, TypeOK, WritesTypeOK
  <2> QED BY <1>1, <1>2, <1>3, <2>1 DEF SearchInv, TypeOK
<1>5. SteadyInv'
  <2> SUFFICES ASSUME NEW d \in clean \ BusyDocs, query' \subseteq Tokens(rows[d])
               PROVE  /\ d \in Doc
                      /\ \A t \in query' : <<d, t>> \in postings /\ Untouched(<<d, t>>)'
    BY <1>1, <1>2 DEF SteadyInv
  <2>1. d \in Doc /\ query' \subseteq Token
    BY <1>2 DEF SearchInv, TypeOK, WritesTypeOK
  <2>2. \A t \in query' : <<d, t>> \in postings /\ Untouched(<<d, t>>)
    BY <2>1, CleanIsIndexed
  <2> QED BY <1>1, <2>1, <2>2 DEF Untouched, Pending
<1> QED BY <1>3, <1>4, <1>5 DEF SearchInv

LEMMA LookUpKeeps ==
  ASSUME SearchInv, LookUp
  PROVE  SearchInv'
<1>1. UNCHANGED <<writeVars, connectVars, query, steady>>
  BY DEF LookUp
<1>2. PICK t \in lookups : lookups' = lookups \ {t} /\ found' = found \cap DocsWith(t)
  BY DEF LookUp
<1>3. phase = "up" /\ t \in query
  BY <1>2 DEF SearchInv, TypeOK, RestsUnlessUp
<1>4. /\ WritesTypeOK' /\ JobsTyped' /\ OperationInv' /\ CleanInv'
      /\ RestsUnlessUp' /\ StampInv' /\ BuildInv'
  BY <1>1, <1>3, QueryLeaves
<1>5. TypeOK'
  BY <1>1, <1>2, <1>4 DEF SearchInv, TypeOK
<1>6. SteadyInv'
  <2>1. \A d \in steady : /\ d \in clean /\ d \in found /\ query \subseteq Tokens(rows[d])
                          /\ \A s \in query : <<d, s>> \in postings /\ Untouched(<<d, s>>)
    BY DEF SearchInv, SteadyInv
  <2>2. \A d \in steady : d \in DocsWith(t)
    BY <1>3, <2>1 DEF SearchInv, TypeOK, DocsWith
  <2> QED BY <1>1, <1>2, <2>1, <2>2 DEF SteadyInv, Untouched, Pending
<1> QED BY <1>4, <1>5, <1>6 DEF SearchInv

LEMMA AnswerKeeps ==
  ASSUME SearchInv, Answer
  PROVE  SearchInv'
<1>1. /\ UNCHANGED <<writeVars, connectVars, lookups>> /\ query # {} /\ lookups = {}
      /\ query' = {} /\ found' = {} /\ steady' = {}
  BY DEF Answer
<1>2. phase = "up"
  BY <1>1 DEF SearchInv, RestsUnlessUp
<1>3. /\ WritesTypeOK' /\ JobsTyped' /\ OperationInv' /\ CleanInv'
      /\ RestsUnlessUp' /\ StampInv' /\ BuildInv'
  BY <1>1, <1>2, QueryLeaves
<1>4. TypeOK' /\ SteadyInv'
  BY <1>1, <1>3 DEF SearchInv, TypeOK, SteadyInv
<1> QED BY <1>3, <1>4 DEF SearchInv

LEMMA StutterKeeps ==
  ASSUME SearchInv, UNCHANGED vars
  PROVE  SearchInv'
<1>1. WritesTypeOK' /\ JobsTyped' /\ OperationInv' /\ CleanInv'
  BY CallersAlone DEF SearchInv, TypeOK, WritesTypeOK
<1>2. TypeOK'
  BY <1>1 DEF SearchInv, TypeOK
<1>3. RestsUnlessUp' /\ StampInv' /\ BuildInv' /\ SteadyInv'
  BY DEF SearchInv, RestsUnlessUp, AtRest, StampInv, BuildInv, IndexOfRows, SteadyInv, Untouched, Pending
<1> QED BY <1>1, <1>2, <1>3 DEF SearchInv

LEMMA StepKeeps ==
  ASSUME SearchInv, [Next]_vars
  PROVE  SearchInv'
<1>1. CASE Connect
  BY <1>1, ConnectKeeps
<1>2. CASE ClearIndex
  BY <1>2, ClearIndexKeeps
<1>3. CASE Build
  BY <1>3, BuildKeeps
<1>4. CASE Stamp
  BY <1>4, StampKeeps
<1>5. CASE Crash
  BY <1>5, CrashKeeps
<1>6. CASE UnpluggedWrite
  BY <1>6, UnpluggedWriteKeeps
<1>7. CASE Write
  BY <1>7, WriteKeeps
<1>8. CASE Ask
  BY <1>8, AskKeeps
<1>9. CASE LookUp
  BY <1>9, LookUpKeeps
<1>10. CASE Answer
  BY <1>10, AnswerKeeps
<1>11. CASE UNCHANGED vars
  BY <1>11, StutterKeeps
<1> HIDE DEF vars
<1> QED BY <1>1, <1>2, <1>3, <1>4, <1>5, <1>6, <1>7, <1>8, <1>9, <1>10, <1>11 DEF Next

-----------------------------------------------------------------------------
(* The theorems. *)

\* The index and the hooks that wait fit together in every state: for each clean
\* document, the last hook to touch a posting leaves it as the row's text wants it.
THEOREM SearchInvHolds == Spec => []SearchInv
<1>1. Init => SearchInv
  BY InitInv
<1>2. SearchInv /\ [Next]_vars => SearchInv'
  BY StepKeeps
<1> QED BY <1>1, <1>2, PTL DEF Spec

\* The types of the index, the callers, their hooks and the query.
THEOREM SearchTypes == Spec => []TypeOK
<1>1. SearchInv => TypeOK
  BY DEF SearchInv
<1> QED BY <1>1, SearchInvHolds, PTL

\* A document without overlapping or failed writes has exactly the postings of its
\* text whenever no write of it is under way, whichever operations of collection.ts
\* wrote it, in transactions committed or rolled back, and across crashes.
THEOREM IndexIsExact == Spec => []PostingsExact
<1>1. SearchInv => PostingsExact
  <2> SUFFICES ASSUME SearchInv, NEW d \in clean \ BusyDocs
               PROVE  {t \in Token : <<d, t>> \in postings} = Tokens(rows[d])
    BY DEF PostingsExact
  <2>1. \A t \in Token : <<d, t>> \in postings <=> t \in Tokens(rows[d])
    BY CleanIsIndexed
  <2>2. d \in Doc /\ rows[d] \in Row
    BY DEF SearchInv, TypeOK, WritesTypeOK
  <2>3. Tokens(rows[d]) \subseteq Token
    BY <2>2, RowTokens
  <2> QED BY <2>1, <2>3
<1> QED BY <1>1, SearchInvHolds, PTL

\* The format stamp of the plugin's migrate is written only over an index that is
\* the rows' index, after builds that crashed and sessions without the plugin too.
THEOREM StampFollowsBuild == Spec => StampedIsBuilt
<1>1. ASSUME SearchInv, [Next]_vars
      PROVE  [~stamped /\ stamped' => postings = {p \in Doc \X Token : p[2] \in Tokens(rows[p[1]])}]_vars
  <2> SUFFICES ASSUME ~stamped, stamped', Next
               PROVE  postings = IndexOfRows
    BY <1>1 DEF IndexOfRows
  <2>1. Stamp
    BY DEF Next, Connect, ClearIndex, Build, Crash, UnpluggedWrite, Write, Ask, LookUp, Answer
  <2> QED BY <1>1, <2>1 DEF Stamp, SearchInv, BuildInv
<1> QED BY <1>1, SearchInvHolds, PTL DEF Spec, StampedIsBuilt

\* A match query misses no document that is clean and matches from its first lookup
\* to its last read, whatever is written to it and to the others in between.
THEOREM MatchesAreFound == Spec => SteadyRowsFound
<1>1. ASSUME SearchInv, [Next]_vars
      PROVE  [query # {} /\ query' = {} /\ phase' = "up" => steady \subseteq Result]_vars
  <2>1. steady \subseteq Result
    BY <1>1 DEF SearchInv, SteadyInv, Result
  <2> QED BY <2>1
<1> QED BY <1>1, SearchInvHolds, PTL DEF Spec, SteadyRowsFound
=============================================================================
