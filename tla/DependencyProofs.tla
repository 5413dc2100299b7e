-------------------------- MODULE DependencyProofs --------------------------
(***************************************************************************)
(* The advisory locks of Dependencies exclude every loop of blocker edges  *)
(* whose edges pairwise share a project, for any tasks, projects and       *)
(* number of requests.                                                     *)
(*                                                                         *)
(* LoopsSpanDisjointProjects speaks of committed edges and is not          *)
(* inductive: an edge that passed its check is committed three statements  *)
(* later.  NoCandidateLoop strengthens it to every edge past its check.    *)
(* Its one hard step is the check itself: the edges that share a project   *)
(* with the new one are committed, as their writers have given up the lock *)
(* on it, so the walk sees them and would have met the loop.               *)
(*                                                                         *)
(* Then, for the same constants: no circle of requests waits for advisory  *)
(* locks, as every request takes them in the order of the projects; and a  *)
(* request that nothing overlapped leaves the counts of all tasks its      *)
(* change bears on right.                                                  *)
(***************************************************************************)
EXTENDS Dependencies, FiniteSetTheorems, WellFoundedInduction, TLAPS

\* An add whose cycle check has passed, so that its edge may yet be committed.
PastCheck(x) == req[x].op = "add" /\ req[x].at \notin {"idle", "locking"}

Candidates == db.edges \cup {EdgeOf(req[x]) : x \in {y \in Request : PastCheck(y)}}

Shares(L) == \A e, f \in L : Ends(e) \cap Ends(f) # {}

\* No loop among the candidates whose edges pairwise share a project.
NoCandidateLoop == \A L \in SUBSET Candidates : Shares(L) => Looping(L) = {}

\* A request in flight names tasks.
Named ==
    \A x \in Request : Busy(x) =>
        /\ req[x].task \in Task
        /\ req[x].op \in {"add", "remove"} => req[x].blocker \in Task

\* An add holds the locks of both projects from its check on.
AddsLocked ==
    \A x \in Request : (req[x].op = "add" /\ Busy(x)) =>
        /\ req[x].locks \cup req[x].waits = Ends(EdgeOf(req[x]))
        /\ PastCheck(x) => req[x].waits = {}

LocksExclude == \A x, y \in Request : x # y => req[x].locks \cap req[y].locks = {}

\* The edge an add has inserted is past its check.
AddsChecked == \A x \in Request : (req[x].wrote /\ req[x].op = "add") => PastCheck(x)

IInv == TypeOK /\ Named /\ AddsLocked /\ LocksExclude /\ AddsChecked /\ NoCandidateLoop

-----------------------------------------------------------------------------
\* An idle request is a request.
LEMMA NoReqType == NoReq \in Req
  BY DEF NoReq, Req, Op, At

\* The count of open blockers is a number.
LEMMA OpenBlockersType ==
    ASSUME NEW d \in Tables, NEW t \in Task
    PROVE  OpenBlockers(d, t) \in Nat
  <1> DEFINE B == {b \in d.live : /\ <<b, t>> \in d.edges
                                  /\ Remote(<<b, t>>)
                                  /\ b \notin d.archived
                                  /\ b \notin d.done}
  <1>1. d.live \subseteq Task
    BY DEF Tables
  <1>2. IsFiniteSet(B)
    BY <1>1, DependencyAssumption, FS_Subset
  <1>3. Cardinality(B) \in Nat
    BY <1>2, FS_CardinalityType
  <1> QED  BY <1>3 DEF OpenBlockers

\* A request's own change keeps the tables' type.
LEMMA AppliedType ==
    ASSUME NEW d \in Tables, NEW r \in Req,
           r.wrote => /\ r.task \in Task
                      /\ r.op \in {"add", "remove"} => r.blocker \in Task
    PROVE  Applied(d, r) \in Tables
  <1>1. r.wrote /\ r.op \in {"add", "remove"} => EdgeOf(r) \in Task \X Task
    BY DEF EdgeOf
  <1> QED  BY <1>1 DEF Applied, Tables

-----------------------------------------------------------------------------
\* A step inside a request: neither its begin, nor a lock, nor the check, nor
\* its end.
Proceeds(x, q) ==
    /\ Set(x, q)
    /\ q \in Req
    /\ q.op = req[x].op /\ q.task = req[x].task /\ q.blocker = req[x].blocker
    /\ q.locks = req[x].locks /\ q.waits = req[x].waits
    /\ Busy(x) /\ q.at # "idle"
    /\ q.op = "add" => req[x].at # "locking" /\ q.at # "locking"

\* Fewer candidates have no more loops.
LEMMA FewerCandidates ==
    ASSUME NoCandidateLoop, Candidates' \subseteq Candidates
    PROVE  NoCandidateLoop'
  BY DEF NoCandidateLoop, Looping, Upstream, Shares, Ends

\* A step inside a request keeps the invariant.
LEMMA ProceedsKeeps ==
    ASSUME IInv, NEW x \in Request, NEW q, Proceeds(x, q),
           UNCHANGED <<db, count, started>>
    PROVE  IInv'
  <1> USE DEF IInv, Proceeds, Set
  <1>1. TypeOK'
    BY DEF TypeOK
  <1>2. /\ req'[x] = q
        /\ \A y \in Request : y # x => req'[y] = req[y]
    BY DEF TypeOK
  <1>3. Named'
    BY <1>2 DEF Named, Busy
  <1>4. PastCheck(x)' = PastCheck(x) /\ \A y \in Request : y # x => PastCheck(y)' = PastCheck(y)
    BY <1>2 DEF PastCheck, Busy
  <1>5. \A y \in Request : EdgeOf(req'[y]) = EdgeOf(req[y])
    BY <1>2 DEF EdgeOf
  <1>6. AddsLocked'
    BY <1>2, <1>4, <1>5 DEF AddsLocked, Busy, Ends
  <1>7. LocksExclude'
    BY <1>2 DEF LocksExclude
  <1>8. AddsChecked'
    BY <1>2, <1>4 DEF AddsChecked, PastCheck, Busy
  <1>9. Candidates' \subseteq Candidates
    BY <1>4, <1>5 DEF Candidates
  <1>10. NoCandidateLoop'
    BY <1>9, FewerCandidates
  <1> QED  BY <1>1, <1>3, <1>6, <1>7, <1>8, <1>10

\* So does the end of a request that commits nothing new.
LEMMA CloseKeeps ==
    ASSUME IInv, NEW x \in Request, Close(x), TypeOK',
           db'.edges \subseteq Candidates
    PROVE  IInv'
  <1> USE DEF IInv, Close, Set
  <1>1. /\ req'[x] = NoReq
        /\ \A y \in Request : y # x => req'[y] = req[y]
    BY DEF TypeOK
  <1>2. Named'
    BY <1>1 DEF Named, Busy, NoReq
  <1>3. ~PastCheck(x)' /\ \A y \in Request : y # x => PastCheck(y)' = PastCheck(y)
    BY <1>1 DEF PastCheck, NoReq
  <1>4. \A y \in Request : y # x => EdgeOf(req'[y]) = EdgeOf(req[y])
    BY <1>1 DEF EdgeOf
  <1>5. AddsLocked'
    BY <1>1, <1>3, <1>4 DEF AddsLocked, Busy, NoReq, Ends
  <1>6. LocksExclude'
    BY <1>1 DEF LocksExclude, NoReq
  <1>7. AddsChecked'
    BY <1>1, <1>3 DEF AddsChecked, NoReq
  <1>8. Candidates' \subseteq Candidates
    BY <1>3, <1>4 DEF Candidates
  <1>9. NoCandidateLoop'
    BY <1>8, FewerCandidates
  <1> QED  BY <1>2, <1>5, <1>6, <1>7, <1>9

\* The check.  Edges that loop with the new edge e and did not without it make
\* the blocked task upstream of the blocker already.
LEMMA LoopFound ==
    ASSUME NEW E, NEW L, NEW e \in Task \X Task,
           L \subseteq E \cup {e}, Looping(L) # {}, Looping(L \ {e}) = {}
    PROVE  e[2] \in Upstream(E, e[1])
  <1> DEFINE Closed(S, F) == \A g \in F : g[2] \in S => g[1] \in S
  <1>1. PICK f \in L : f[2] \in Upstream(L, f[1])
    BY DEF Looping
  <1>2. SUFFICES ASSUME NEW S \in SUBSET Task, e[1] \in S, Closed(S, E), e[2] \notin S
                 PROVE  FALSE
    BY DEF Upstream
  <1>3. f[2] \in Task /\ \A T \in SUBSET Task : f[1] \in T /\ Closed(T, L) => f[2] \in T
    BY <1>1 DEF Upstream
  <1>4. Closed(S, L \ {e})
    BY <1>2
  <1>5. CASE f = e
    BY <1>2, <1>3, <1>4, <1>5
  <1>6. CASE f # e
    <2>1. f[2] \notin Upstream(L \ {e}, f[1])
      BY <1>1, <1>6 DEF Looping
    <2>2. PICK U \in SUBSET Task : f[1] \in U /\ Closed(U, L \ {e}) /\ f[2] \notin U
      BY <1>3, <2>1 DEF Upstream
    <2>3. Closed(U \cup S, L)
      BY <1>2, <1>4, <2>2
    <2>4. f[2] \in U \cup S
      BY <1>3, <2>2, <2>3
    <2>5. f[1] \in S
      BY <1>1, <1>4, <1>6, <2>2, <2>4
    <2>6. Closed(U \cap S, L \ {e}) /\ f[1] \in U \cap S /\ f[2] \notin U \cap S
      BY <1>4, <2>2, <2>5
    <2>7. Closed(U \cap S, L)
      BY <1>2, <2>6
    <2> QED  BY <1>3, <2>6, <2>7
  <1> QED  BY <1>5, <1>6

-----------------------------------------------------------------------------
\* A request begins with no lock and no write.
LEMMA BeginKeeps ==
    ASSUME IInv, NEW x \in Request, NEW op \in Op, NEW t \in Task, NEW b \in Task \cup {NoTask},
           Begin(x, op, t, b)
    PROVE  IInv'
  <1> USE DEF IInv
  <1>1. /\ req'[x].op = op /\ req'[x].task = t /\ req'[x].blocker = b
        /\ req'[x].at = IF op = "add" THEN "locking" ELSE "writing"
        /\ req'[x].waits = IF op = "add" THEN LocksFor(t, b) ELSE {}
        /\ req'[x].locks = {} /\ req'[x].wrote = FALSE
    BY DEF Begin, TypeOK, NoReq
  <1>2. \A y \in Request : y # x =>
           /\ req'[y].op = req[y].op /\ req'[y].task = req[y].task
           /\ req'[y].blocker = req[y].blocker /\ req'[y].at = req[y].at
           /\ req'[y].waits = req[y].waits /\ req'[y].locks = req[y].locks
           /\ req'[y].wrote = req[y].wrote
    BY DEF Begin, TypeOK, Req
  <1>3. LocksFor(t, b) \subseteq Project \/ op # "add"
    BY DependencyAssumption DEF Begin, LocksFor
  <1>4. TypeOK'
    <2>1. started' \in 0..MaxRequests
      <3>1. started < MaxRequests /\ started' = started + 1
        BY DEF Begin
      <3>2. started \in 0..MaxRequests /\ MaxRequests \in Nat
        BY DependencyAssumption DEF TypeOK
      <3> QED  BY <3>1, <3>2
    <2>2. \A y \in Request : req'[y] \in Req
      <3>1. /\ req'[x] \in Req
        <4> DEFINE at == IF op = "add" THEN "locking" ELSE "writing"
                   waits == IF op = "add" THEN LocksFor(t, b) ELSE {}
        <4>1. \E a \in BOOLEAN :
                 req'[x] = [NoReq EXCEPT !.op = op, !.task = t, !.blocker = b,
                                         !.at = at, !.waits = waits, !.alone = a]
          BY DEF Begin
        <4>2. at \in At /\ waits \in SUBSET Project
          BY <1>3 DEF At
        <4> HIDE DEF at, waits
        <4> QED  BY <4>1, <4>2, NoReqType DEF Req
      <3>2. ASSUME NEW y \in Request, y # x
            PROVE  req'[y] \in Req
        <4>1. req'[y] = [req[y] EXCEPT !.alone = FALSE] \/ req'[y] = req[y]
          BY <3>2 DEF Begin
        <4>2. req[y] \in Req
          BY DEF TypeOK
        <4> QED  BY <4>1, <4>2 DEF Req
      <3> QED  BY <3>1, <3>2
    <2>3. req' \in [Request -> Req]
      BY <2>2 DEF Begin
    <2> QED  BY <2>1, <2>3 DEF Begin, TypeOK
  <1>5. Named'
    BY <1>1, <1>2, DependencyAssumption DEF Named, Busy, Begin
  <1>6. ~PastCheck(x)' /\ \A y \in Request : y # x => PastCheck(y)' = PastCheck(y)
    BY <1>1, <1>2 DEF PastCheck
  <1>7. \A y \in Request : y # x => EdgeOf(req'[y]) = EdgeOf(req[y])
    BY <1>2 DEF EdgeOf
  <1>8. AddsLocked'
    <2>1. op = "add" => LocksFor(t, b) = Ends(EdgeOf(req'[x]))
      BY <1>1 DEF LocksFor, Ends, EdgeOf
    <2> QED  BY <1>1, <1>2, <1>6, <1>7, <2>1 DEF AddsLocked, Busy, Ends
  <1>9. LocksExclude'
    BY <1>1, <1>2 DEF LocksExclude
  <1>10. AddsChecked'
    BY <1>1, <1>2, <1>6 DEF AddsChecked
  <1>11. Candidates' \subseteq Candidates
    BY <1>6, <1>7 DEF Candidates, Begin
  <1>12. NoCandidateLoop'
    BY <1>11, FewerCandidates
  <1> QED  BY <1>4, <1>5, <1>8, <1>9, <1>10, <1>12

\* A lock that nobody holds moves from the waits of an add to its locks.
LEMMA TakeLockKeeps ==
    ASSUME IInv, NEW x \in Request, NEW p \in Project, TakeLock(x, p)
    PROVE  IInv'
  <1> USE DEF IInv
  <1> DEFINE q == [req[x] EXCEPT !.waits = @ \ {p}, !.locks = @ \cup {p}]
  <1>1. req[x] \in Req
    BY DEF TypeOK
  <1>2. /\ q \in Req
        /\ q.op = req[x].op /\ q.task = req[x].task /\ q.blocker = req[x].blocker
        /\ q.at = req[x].at /\ q.wrote = req[x].wrote
        /\ q.waits = req[x].waits \ {p} /\ q.locks = req[x].locks \cup {p}
    BY <1>1 DEF Req
  <1> HIDE DEF q
  <1>3. /\ req' = [req EXCEPT ![x] = q]
        /\ req[x].at = "locking" /\ p \in req[x].waits
        /\ \A y \in Request : p \notin req[y].locks
        /\ UNCHANGED <<db, count, started>>
    BY DEF TakeLock, Set, q, NextLock
  <1>4. /\ req'[x] = q
        /\ \A y \in Request : y # x => req'[y] = req[y]
    BY <1>3 DEF TypeOK
  <1>5. TypeOK'
    BY <1>2, <1>3 DEF TypeOK
  <1>6. Named'
    BY <1>2, <1>4 DEF Named, Busy
  <1>7. \A y \in Request : PastCheck(y)' = PastCheck(y) /\ EdgeOf(req'[y]) = EdgeOf(req[y])
    BY <1>2, <1>4 DEF PastCheck, EdgeOf
  <1>8. AddsLocked'
    BY <1>2, <1>3, <1>4, <1>7 DEF AddsLocked, Busy, Ends, PastCheck
  <1>9. LocksExclude'
    BY <1>2, <1>3, <1>4 DEF LocksExclude
  <1>10. AddsChecked'
    BY <1>2, <1>4, <1>7 DEF AddsChecked
  <1>11. Candidates' \subseteq Candidates
    BY <1>3, <1>7 DEF Candidates
  <1>12. NoCandidateLoop'
    BY <1>11, FewerCandidates
  <1> QED  BY <1>5, <1>6, <1>8, <1>9, <1>10, <1>12

\* The check passes: the new candidate closes no loop of edges that pairwise
\* share a project, or the walk would have found it.
LEMMA CheckKeeps ==
    ASSUME IInv, NEW x \in Request, CheckCycle(x)
    PROVE  IInv'
  <1> USE DEF IInv
  <1> DEFINE r == req[x]
             q == [r EXCEPT !.at = "inserting"]
             e == EdgeOf(r)
  <1>1. CASE r.task \in Upstream(db.edges, r.blocker)
    <2>1. Close(x) /\ UNCHANGED <<db, count, started>>
      BY <1>1 DEF CheckCycle
    <2>2. TypeOK'
      BY <2>1, NoReqType DEF TypeOK, Close, Set
    <2> QED  BY <2>1, <2>2, CloseKeeps DEF Candidates
  <1>2. CASE r.task \notin Upstream(db.edges, r.blocker)
    <2>1. /\ req' = [req EXCEPT ![x] = q]
          /\ r.at = "locking" /\ r.waits = {}
          /\ UNCHANGED <<db, count, started>>
      BY <1>2 DEF CheckCycle, Set
    <2>2. /\ q \in Req
          /\ q.op = r.op /\ q.task = r.task /\ q.blocker = r.blocker
          /\ q.at = "inserting" /\ q.wrote = r.wrote
          /\ q.waits = r.waits /\ q.locks = r.locks
      BY DEF TypeOK, Req, At
    <2> HIDE DEF q
    <2>3. /\ req'[x] = q
          /\ \A y \in Request : y # x => req'[y] = req[y]
      BY <2>1 DEF TypeOK
    <2>4. TypeOK'
      BY <2>1, <2>2 DEF TypeOK
    <2>5. Named'
      BY <2>1, <2>2, <2>3 DEF Named, Busy
    <2>6. /\ \A y \in Request : y # x => PastCheck(y)' = PastCheck(y)
          /\ \A y \in Request : EdgeOf(req'[y]) = EdgeOf(req[y])
      BY <2>2, <2>3 DEF PastCheck, EdgeOf
    <2>7. AddsLocked'
      BY <2>1, <2>2, <2>3, <2>6 DEF AddsLocked, Busy, Ends
    <2>8. LocksExclude'
      BY <2>2, <2>3 DEF LocksExclude
    <2>9. AddsChecked'
      BY <2>1, <2>2, <2>3, <2>6 DEF AddsChecked, PastCheck
    <2>10. Candidates' \subseteq Candidates \cup (IF r.op = "add" THEN {e} ELSE {})
      BY <2>1, <2>2, <2>3, <2>6 DEF Candidates, PastCheck
    <2>11. CASE r.op # "add"
      BY <2>4, <2>5, <2>7, <2>8, <2>9, <2>10, <2>11, FewerCandidates
    <2>12. CASE r.op = "add"
      <3>1. r.locks = Ends(e)
        BY <2>1, <2>12 DEF AddsLocked, Busy
      <3>2. \A f \in Candidates : Ends(f) \cap Ends(e) # {} => f \in db.edges
        <4>1. SUFFICES ASSUME NEW y \in Request, PastCheck(y),
                              Ends(EdgeOf(req[y])) \cap Ends(e) # {}
                       PROVE  FALSE
          BY DEF Candidates
        <4>2. y # x
          BY <2>1, <4>1 DEF PastCheck
        <4>3. req[y].locks = Ends(EdgeOf(req[y]))
          BY <4>1 DEF AddsLocked, PastCheck, Busy
        <4> QED  BY <3>1, <4>1, <4>2, <4>3 DEF LocksExclude
      <3>3. ASSUME NEW L \in SUBSET Candidates', Shares(L), Looping(L) # {}
            PROVE  FALSE
        <4>1. Looping(L \ {e}) = {}
          <5>1. L \ {e} \in SUBSET Candidates /\ Shares(L \ {e})
            BY <2>10, <2>12, <3>3 DEF Shares
          <5> QED  BY <5>1 DEF NoCandidateLoop
        <4>2. e \in L
          BY <3>3, <4>1 DEF Looping, Upstream
        <4>3. L \subseteq db.edges \cup {e}
          BY <2>10, <2>12, <3>2, <3>3, <4>2 DEF Shares
        <4>4. e \in Task \X Task /\ e[1] = r.blocker /\ e[2] = r.task
          BY <2>1, <2>12 DEF Named, Busy, EdgeOf
        <4>5. r.task \in Upstream(db.edges, r.blocker)
          BY <3>3, <4>1, <4>3, <4>4, LoopFound
        <4> QED  BY <1>2, <4>5
      <3>4. NoCandidateLoop'
        BY <3>3 DEF NoCandidateLoop, Looping, Upstream, Shares, Ends
      <3> QED  BY <2>4, <2>5, <2>7, <2>8, <2>9, <3>4
    <2> QED  BY <2>11, <2>12
  <1> QED  BY <1>1, <1>2

\* A commit adds a candidate to the edges or takes edges away.
LEMMA CommitKeeps ==
    ASSUME IInv, NEW x \in Request, Commit(x)
    PROVE  IInv'
  <1> USE DEF IInv
  <1>1. /\ req[x] \in Req /\ Busy(x)
        /\ db' = Applied(db, req[x]) /\ Close(x) /\ started' = started
        /\ count' = [t \in Task |-> IF t \in req[x].stored THEN req[x].tally[t] ELSE count[t]]
    BY DEF Commit, TypeOK, Busy, View
  <1>2. db' \in Tables
    BY <1>1, AppliedType DEF TypeOK, Named
  <1>3. count' \in [Task -> Nat]
    BY <1>1 DEF TypeOK, Req
  <1>4. TypeOK'
    BY <1>1, <1>2, <1>3, NoReqType DEF TypeOK, Close, Set
  <1>5. db'.edges \subseteq db.edges \cup (IF req[x].wrote /\ req[x].op = "add"
                                          THEN {EdgeOf(req[x])} ELSE {})
    BY <1>1 DEF Applied
  <1>6. db'.edges \subseteq Candidates
    BY <1>5 DEF Candidates, AddsChecked
  <1> QED  BY <1>1, <1>4, <1>6, CloseKeeps

\* Every other step proceeds within its request or ends it.
LEMMA MiddleKeeps ==
    ASSUME IInv, NEW x \in Request,
           \/ InsertEdge(x) \/ RemoveEdge(x) \/ UpdateTask(x) \/ LockForDelete(x)
           \/ ReadDependents(x) \/ DeleteTask(x) \/ Recount(x)
           \/ \E t \in Task : StoreCount(x, t)
           \/ Abort(x)
    PROVE  IInv'
  <1> USE DEF IInv
  <1> DEFINE r == req[x]
  <1>1. r \in Req
    BY DEF TypeOK
  <1>2. ASSUME NEW q, Proceeds(x, q), UNCHANGED <<db, count, started>>
        PROVE  IInv'
    BY <1>2, ProceedsKeeps
  <1>3. ASSUME Close(x), UNCHANGED <<db, count, started>>
        PROVE  IInv'
    <2>1. TypeOK'
      BY <1>3, NoReqType DEF TypeOK, Close, Set
    <2> QED  BY <1>3, <2>1, CloseKeeps DEF Candidates
  <1>4. CASE InsertEdge(x)
    <2> DEFINE q == [r EXCEPT !.at = "recounting", !.targets = {r.task},
                              !.wrote = EdgeOf(r) \notin db.edges]
    <2>1. r.task \in Task
      BY <1>4 DEF InsertEdge, TypeOK, Tables
    <2>2. Proceeds(x, q)
      BY <1>1, <1>4, <2>1 DEF InsertEdge, Proceeds, Req, At, Busy
    <2> QED  BY <1>2, <1>4, <2>2 DEF InsertEdge
  <1>5. CASE RemoveEdge(x)
    <2>1. r.task \in Task /\ r.op = "remove" /\ Busy(x) /\ UNCHANGED <<db, count, started>>
      BY <1>5 DEF RemoveEdge, Named, Busy
    <2>2. PICK w \in BOOLEAN : Set(x, [r EXCEPT !.at = "recounting", !.targets = {r.task},
                                               !.wrote = w])
      <3> DEFINE w == EdgeOf(r) \in db.edges
      <3>1. w \in BOOLEAN
        OBVIOUS
      <3>2. Set(x, [r EXCEPT !.at = "recounting", !.targets = {r.task}, !.wrote = w])
        BY <1>5, Zenon DEF RemoveEdge
      <3> HIDE DEF w
      <3> QED  BY <3>1, <3>2, Zenon
    <2> DEFINE q == [r EXCEPT !.at = "recounting", !.targets = {r.task}, !.wrote = w]
    <2>3. Proceeds(x, q)
      BY <1>1, <2>1, <2>2 DEF Proceeds, Req, At
    <2> QED  BY <1>2, <2>1, <2>3
  <1>6. CASE UpdateTask(x)
    <2> DEFINE q == [r EXCEPT !.wrote = TRUE, !.at = "dependents"]
    <2>1. CASE Changes(r)
      <3>1. Proceeds(x, q)
        BY <1>1, <1>6, <2>1 DEF UpdateTask, Proceeds, Req, At, Busy
      <3> QED  BY <1>2, <1>6, <2>1, <3>1 DEF UpdateTask
    <2>2. CASE ~Changes(r)
      BY <1>3, <1>6, <2>2 DEF UpdateTask
    <2> QED  BY <2>1, <2>2
  <1>7. CASE LockForDelete(x)
    <2> DEFINE q == [r EXCEPT !.at = "dependents"]
    <2>1. CASE r.task \in db.live /\ r.task \in db.archived
      <3>1. Proceeds(x, q)
        BY <1>1, <1>7, <2>1 DEF LockForDelete, Proceeds, Req, At, Busy
      <3> QED  BY <1>2, <1>7, <2>1, <3>1 DEF LockForDelete
    <2>2. CASE ~(r.task \in db.live /\ r.task \in db.archived)
      BY <1>3, <1>7, <2>2 DEF LockForDelete
    <2> QED  BY <2>1, <2>2
  <1>8. CASE ReadDependents(x)
    <2> DEFINE q == [r EXCEPT !.targets = Dependents(View(x), r.task),
                              !.at = IF r.op = "delete" THEN "deleting" ELSE "recounting"]
    <2>1. View(x) \in Tables
      BY <1>1, <1>8, AppliedType DEF View, ReadDependents, TypeOK, Named, Busy
    <2>2. Dependents(View(x), r.task) \subseteq Task
      BY <2>1 DEF Dependents, Tables
    <2>3. Proceeds(x, q)
      BY <1>1, <1>8, <2>2 DEF ReadDependents, Proceeds, Req, At, Busy
    <2> QED  BY <1>2, <1>8, <2>3 DEF ReadDependents
  <1>9. CASE DeleteTask(x)
    <2> DEFINE q == [r EXCEPT !.wrote = TRUE, !.at = "recounting"]
    <2>1. Proceeds(x, q)
      BY <1>1, <1>9 DEF DeleteTask, Proceeds, Req, At, Busy
    <2> QED  BY <1>2, <1>9, <2>1 DEF DeleteTask
  <1>10. CASE Recount(x)
    <2> DEFINE d == View(x)
               stale == {t \in r.targets \cap d.live : count[t] # OpenBlockers(d, t)}
               tally == [t \in Task |-> IF t \in stale THEN OpenBlockers(d, t) ELSE 0]
               q == [r EXCEPT !.at = IF stale = {} THEN "committing" ELSE "storing",
                              !.pending = stale, !.tally = tally]
    <2>1. d \in Tables
      BY <1>1, <1>10, AppliedType DEF View, Recount, TypeOK, Named, Busy
    <2>2. stale \subseteq Task
      BY <1>1 DEF Req
    <2>3. tally \in [Task -> Nat]
      BY <2>1, OpenBlockersType
    <2>4. r.at = "recounting" /\ Set(x, q) /\ UNCHANGED <<db, count, started>>
      BY <1>10 DEF Recount
    <2> HIDE DEF stale, tally, d
    <2>5. Proceeds(x, q)
      BY <1>1, <2>2, <2>3, <2>4 DEF Proceeds, Req, At, Busy
    <2> QED  BY <1>2, <2>4, <2>5
  <1>11. CASE \E t \in Task : StoreCount(x, t)
    <2>1. PICK t \in Task : StoreCount(x, t)
      BY <1>11
    <2> DEFINE left == r.pending \ {t}
               q == [r EXCEPT !.pending = left,
                              !.at = IF left = {} THEN "committing" ELSE "storing",
                              !.stored = @ \cup ({t} \cap db.live)]
    <2>2. r.at = "storing" /\ Set(x, q) /\ UNCHANGED <<db, count, started>>
      BY <2>1 DEF StoreCount
    <2>3. Proceeds(x, q)
      BY <1>1, <2>2 DEF Proceeds, Req, At, Busy
    <2> QED  BY <1>2, <2>2, <2>3
  <1>12. CASE Abort(x)
    BY <1>3, <1>12 DEF Abort
  <1> QED
    BY <1>4, <1>5, <1>6, <1>7, <1>8, <1>9, <1>10, <1>11, <1>12

LEMMA IInvInit == Init => IInv
  <1> SUFFICES ASSUME Init PROVE IInv
    OBVIOUS
  <1>1. db \in Tables
    BY DependencyAssumption DEF Init, Tables
  <1>2. count \in [Task -> Nat]
    BY <1>1, OpenBlockersType DEF Init
  <1>3. TypeOK
    <2>1. req \in [Request -> Req]
      BY NoReqType DEF Init
    <2>2. started \in 0..MaxRequests
      BY DependencyAssumption DEF Init
    <2> QED  BY <1>1, <1>2, <2>1, <2>2 DEF TypeOK
  <1>4. \A x \in Request : ~Busy(x) /\ ~PastCheck(x) /\ ~req[x].wrote /\ req[x].locks = {}
    BY DEF Init, NoReq, Busy, PastCheck
  <1>5. Named /\ AddsLocked /\ LocksExclude /\ AddsChecked
    BY <1>4 DEF Named, AddsLocked, LocksExclude, AddsChecked
  <1>6. Candidates = FirstEdges
    BY <1>4 DEF Candidates, Init
  <1>7. ASSUME NEW L \in SUBSET FirstEdges
        PROVE  Looping(L) = {}
    <2>1. Looping(L) \subseteq Looping(FirstEdges)
      BY DEF Looping, Upstream
    <2> QED  BY <2>1, FirstAssumption
  <1>8. NoCandidateLoop
    BY <1>6, <1>7 DEF NoCandidateLoop
  <1> QED  BY <1>3, <1>5, <1>8 DEF IInv

LEMMA IInvNext == IInv /\ [Next]_vars => IInv'
  <1> SUFFICES ASSUME IInv, [Next]_vars PROVE IInv'
    OBVIOUS
  <1>1. CASE Next
    <2>1. PICK x \in Request :
             \/ \E op \in Op, t \in Task, b \in Task \cup {NoTask} : Begin(x, op, t, b)
             \/ \E p \in Project : TakeLock(x, p)
             \/ CheckCycle(x)
             \/ InsertEdge(x) \/ RemoveEdge(x) \/ UpdateTask(x) \/ LockForDelete(x)
             \/ ReadDependents(x) \/ DeleteTask(x) \/ Recount(x)
             \/ \E t \in Task : StoreCount(x, t)
             \/ Commit(x)
             \/ Abort(x)
      BY <1>1 DEF Next
    <2> QED  BY <2>1, BeginKeeps, TakeLockKeeps, CheckKeeps, MiddleKeeps, CommitKeeps
  <1>2. CASE UNCHANGED vars
    BY <1>2 DEF vars, IInv, TypeOK, Named, Busy, AddsLocked, LocksExclude, AddsChecked,
                PastCheck, NoCandidateLoop, Candidates, EdgeOf, Ends, Looping, Upstream, Shares
  <1> QED  BY <1>1, <1>2

LEMMA IInvAlways == Spec => []IInv
  BY IInvInit, IInvNext, PTL DEF Spec

-----------------------------------------------------------------------------
\* Every reachable state is well typed.
THEOREM TypeCorrect == Spec => []TypeOK
  <1>1. IInv => TypeOK
    BY DEF IInv
  <1> QED  BY <1>1, IInvAlways, PTL

\* dependencies.ts:7-26: whatever tasks, projects and requests there are, a
\* loop of committed edges has two edges that share no project.
THEOREM LoopsNeedDisjointProjects == Spec => []LoopsSpanDisjointProjects
  <1>1. IInv => LoopsSpanDisjointProjects
    BY DEF IInv, NoCandidateLoop, Candidates, LoopsSpanDisjointProjects, Shares
  <1> QED  BY <1>1, IInvAlways, PTL

\* dependencies.ts:7-9, "within a project": were there a single project, its
\* lock would be enough; the edges never close a loop.
THEOREM OneProjectAcyclic ==
    ASSUME \A p, q \in Project : p = q
    PROVE  Spec => []Acyclic
  <1>1. IInv => Acyclic
    <2> SUFFICES ASSUME IInv PROVE Acyclic
      OBVIOUS
    <2>1. \A e \in db.edges : e[1] \in Task /\ e[2] \in Task
      BY DEF IInv, TypeOK, Tables
    <2>2. \A e \in db.edges : Ends(e) # {} /\ Ends(e) \subseteq Project
      BY <2>1, DependencyAssumption DEF Ends
    <2>3. Shares(db.edges)
      BY <2>2 DEF Shares
    <2> QED  BY <2>3 DEF IInv, NoCandidateLoop, Candidates, Acyclic
  <1> QED  BY <1>1, IInvAlways, PTL

-----------------------------------------------------------------------------
(* The order of the advisory locks.                                        *)

\* A request holds only locks below those it waits for, only a request in
\* flight waits, and only finitely many are in flight.
Ascending == \A x \in Request : \A p \in req[x].locks, q \in req[x].waits : p < q
WaitersBusy == \A x \in Request : req[x].waits # {} => Busy(x)
FewBusy == IsFiniteSet({x \in Request : Busy(x)})

OrderInv == Ascending /\ WaitersBusy /\ FewBusy

\* A statement other than a request's first and than taking a lock ends the
\* request or leaves its locks alone.
LEMMA LocksStand ==
    ASSUME TypeOK, NEW x \in Request,
           \/ CheckCycle(x) \/ InsertEdge(x) \/ RemoveEdge(x) \/ UpdateTask(x)
           \/ LockForDelete(x) \/ ReadDependents(x) \/ DeleteTask(x) \/ Recount(x)
           \/ \E t \in Task : StoreCount(x, t)
           \/ Commit(x) \/ Abort(x)
    PROVE  \/ Close(x)
           \/ \E q : /\ Set(x, q) /\ Busy(x) /\ q.at # "idle"
                     /\ q.locks = req[x].locks /\ q.waits = req[x].waits
  <1> DEFINE r == req[x]
             Stands(q) == q.at # "idle" /\ q.locks = r.locks /\ q.waits = r.waits
  <1>1. r \in Req
    BY DEF TypeOK
  <1>2. SUFFICES Close(x) \/ \E q : Set(x, q) /\ Busy(x) /\ Stands(q)
    OBVIOUS
  <1>3. \A at \in At \ {"idle"} : \A w, T, P, C, S :
           /\ Stands([r EXCEPT !.at = at])
           /\ Stands([r EXCEPT !.wrote = w, !.at = at])
           /\ Stands([r EXCEPT !.at = at, !.targets = T, !.wrote = w])
           /\ Stands([r EXCEPT !.targets = T, !.at = at])
           /\ Stands([r EXCEPT !.at = at, !.pending = P, !.tally = C])
           /\ Stands([r EXCEPT !.pending = P, !.at = at, !.stored = S])
    BY <1>1 DEF Req, At
  <1> HIDE DEF Stands
  <1>5. CASE CheckCycle(x)
    BY <1>3, <1>5 DEF CheckCycle, Busy, At
  <1>6. CASE InsertEdge(x)
    <2> DEFINE w == EdgeOf(r) \notin db.edges
               T == {r.task}
    <2>1. /\ Set(x, [r EXCEPT !.at = "recounting", !.targets = T, !.wrote = w])
          /\ r.at = "inserting"
      BY <1>6 DEF InsertEdge
    <2>2. "recounting" \in At \ {"idle"}
      BY DEF At
    <2> HIDE DEF w, T
    <2> QED  BY <1>3, <2>1, <2>2, Zenon DEF Busy
  <1>7. CASE RemoveEdge(x)
    <2> DEFINE w == EdgeOf(r) \in db.edges
               T == {r.task}
    <2>1. /\ Set(x, [r EXCEPT !.at = "recounting", !.targets = T, !.wrote = w])
          /\ r.at = "writing"
      BY <1>7 DEF RemoveEdge
    <2>2. "recounting" \in At \ {"idle"}
      BY DEF At
    <2> HIDE DEF w, T
    <2> QED  BY <1>3, <2>1, <2>2, Zenon DEF Busy
  <1>8. CASE UpdateTask(x)
    BY <1>3, <1>8 DEF UpdateTask, Busy, At
  <1>9. CASE LockForDelete(x)
    BY <1>3, <1>9 DEF LockForDelete, Busy, At
  <1>10. CASE ReadDependents(x)
    <2> DEFINE T == Dependents(View(x), r.task)
               at == IF r.op = "delete" THEN "deleting" ELSE "recounting"
    <2>1. Set(x, [r EXCEPT !.targets = T, !.at = at]) /\ r.at = "dependents"
      BY <1>10 DEF ReadDependents
    <2>2. at \in At \ {"idle"}
      BY DEF At
    <2> HIDE DEF T, at
    <2> QED  BY <1>3, <2>1, <2>2, Zenon DEF Busy
  <1>11. CASE DeleteTask(x)
    BY <1>3, <1>11 DEF DeleteTask, Busy, At
  <1>12. CASE Recount(x)
    <2> DEFINE d == View(x)
               stale == {t \in r.targets \cap d.live : count[t] # OpenBlockers(d, t)}
               tally == [t \in Task |-> IF t \in stale THEN OpenBlockers(d, t) ELSE 0]
               at == IF stale = {} THEN "committing" ELSE "storing"
    <2>1. /\ Set(x, [r EXCEPT !.at = at, !.pending = stale, !.tally = tally])
          /\ r.at = "recounting"
      BY <1>12 DEF Recount
    <2>2. at \in At \ {"idle"}
      BY DEF At
    <2> HIDE DEF stale, tally, at
    <2> QED  BY <1>3, <2>1, <2>2, Zenon DEF Busy
  <1>13. CASE \E t \in Task : StoreCount(x, t)
    <2>1. PICK t \in Task : StoreCount(x, t)
      BY <1>13
    <2> DEFINE left == r.pending \ {t}
               stored == r.stored \cup ({t} \cap db.live)
               at == IF left = {} THEN "committing" ELSE "storing"
    <2>2. /\ Set(x, [r EXCEPT !.pending = left, !.at = at, !.stored = stored])
          /\ r.at = "storing"
      BY <2>1 DEF StoreCount
    <2>3. at \in At \ {"idle"}
      BY DEF At
    <2> HIDE DEF left, stored, at
    <2> QED  BY <1>3, <2>2, <2>3, Zenon DEF Busy
  <1>14. CASE Commit(x) \/ Abort(x)
    BY <1>14 DEF Commit, Abort
  <1> QED
    BY <1>5, <1>6, <1>7, <1>8, <1>9, <1>10, <1>11, <1>12, <1>13, <1>14

LEMMA OrderInit == Init => OrderInv
  <1> SUFFICES ASSUME Init PROVE OrderInv
    OBVIOUS
  <1>1. \A x \in Request : ~Busy(x) /\ req[x].locks = {} /\ req[x].waits = {}
    BY DEF Init, NoReq, Busy
  <1>2. {x \in Request : Busy(x)} = {}
    BY <1>1
  <1> QED  BY <1>1, <1>2, FS_EmptySet DEF OrderInv, Ascending, WaitersBusy, FewBusy

\* A lock is the least a request waits for when it is taken.
LEMMA OrderNext == TypeOK /\ OrderInv /\ [Next]_vars => OrderInv'
  <1> SUFFICES ASSUME TypeOK, OrderInv, [Next]_vars PROVE OrderInv'
    OBVIOUS
  <1> USE DEF OrderInv
  <1>1. ASSUME NEW x \in Request, NEW S, S = {y \in Request : Busy(y)'}, S \subseteq {y \in Request : Busy(y)} \cup {x}
        PROVE  FewBusy'
    <2>1. IsFiniteSet({y \in Request : Busy(y)} \cup {x})
      BY FS_AddElement DEF FewBusy
    <2>2. IsFiniteSet(S)
      BY <1>1, <2>1, FS_Subset
    <2> QED  BY <1>1, <2>2 DEF FewBusy, Busy
  <1>2. ASSUME NEW x \in Request, NEW op \in Op, NEW t \in Task, NEW b \in Task \cup {NoTask},
               Begin(x, op, t, b)
        PROVE  OrderInv'
    <2>1. req'[x].locks = {} /\ req'[x].at # "idle"
      BY <1>2 DEF Begin, TypeOK, NoReq
    <2>2. \A y \in Request : y # x =>
             /\ req'[y].at = req[y].at
             /\ req'[y].waits = req[y].waits /\ req'[y].locks = req[y].locks
      BY <1>2 DEF Begin, TypeOK, Req
    <2>3. Ascending' /\ WaitersBusy'
      BY <2>1, <2>2 DEF Ascending, WaitersBusy, Busy
    <2>4. {y \in Request : Busy(y)'} \subseteq {y \in Request : Busy(y)} \cup {x}
      BY <2>2 DEF Busy
    <2> QED  BY <1>1, <2>3, <2>4
  <1>3. ASSUME NEW x \in Request, NEW p \in Project, TakeLock(x, p)
        PROVE  OrderInv'
    <2> DEFINE q == [req[x] EXCEPT !.waits = @ \ {p}, !.locks = @ \cup {p}]
    <2>1. /\ req' = [req EXCEPT ![x] = q] /\ Busy(x)
          /\ p \in req[x].waits /\ \A o \in req[x].waits : p <= o
      BY <1>3 DEF TakeLock, Set, NextLock, Busy
    <2>2. q.at = req[x].at /\ q.waits = req[x].waits \ {p} /\ q.locks = req[x].locks \cup {p}
      BY DEF TypeOK, Req
    <2> HIDE DEF q
    <2>3. req'[x] = q /\ \A y \in Request : y # x => req'[y] = req[y]
      BY <2>1 DEF TypeOK
    <2>4. req[x].waits \subseteq Int
      BY DependencyAssumption DEF TypeOK, Req
    <2>5. \A o \in q.locks, w \in q.waits : o < w
      BY <2>1, <2>2, <2>4 DEF Ascending
    <2>6. Ascending' /\ WaitersBusy'
      BY <2>1, <2>2, <2>3, <2>5 DEF Ascending, WaitersBusy, Busy
    <2>7. {y \in Request : Busy(y)'} \subseteq {y \in Request : Busy(y)} \cup {x}
      BY <2>3 DEF Busy
    <2> QED  BY <1>1, <2>6, <2>7
  <1>4. ASSUME NEW x \in Request,
               \/ Close(x)
               \/ \E q : /\ Set(x, q) /\ Busy(x) /\ q.at # "idle"
                         /\ q.locks = req[x].locks /\ q.waits = req[x].waits
        PROVE  OrderInv'
    <2>1. \A y \in Request : y # x => req'[y] = req[y]
      BY <1>4 DEF Close, Set, TypeOK
    <2>2. \/ req'[x].locks = {} /\ req'[x].waits = {}
          \/ /\ req'[x].locks = req[x].locks /\ req'[x].waits = req[x].waits
             /\ Busy(x)'
      BY <1>4 DEF Close, Set, NoReq, TypeOK, Busy
    <2>3. Ascending' /\ WaitersBusy'
      BY <2>1, <2>2 DEF Ascending, WaitersBusy, Busy
    <2>4. {y \in Request : Busy(y)'} \subseteq {y \in Request : Busy(y)} \cup {x}
      BY <2>1 DEF Busy
    <2> QED  BY <1>1, <2>3, <2>4
  <1>5. CASE Next
    <2>1. PICK x \in Request :
             \/ \E op \in Op, t \in Task, b \in Task \cup {NoTask} : Begin(x, op, t, b)
             \/ \E p \in Project : TakeLock(x, p)
             \/ CheckCycle(x)
             \/ InsertEdge(x) \/ RemoveEdge(x) \/ UpdateTask(x) \/ LockForDelete(x)
             \/ ReadDependents(x) \/ DeleteTask(x) \/ Recount(x)
             \/ \E t \in Task : StoreCount(x, t)
             \/ Commit(x)
             \/ Abort(x)
      BY <1>5 DEF Next
    <2> QED  BY <1>2, <1>3, <1>4, <2>1, LocksStand
  <1>6. CASE UNCHANGED vars
    BY <1>6 DEF vars, Ascending, WaitersBusy, FewBusy, Busy
  <1> QED  BY <1>5, <1>6

\* Among finitely many requests that each wait for a lock another of them
\* holds, the one that waits for the highest lock would wait for a higher one.
LEMMA NoCircle ==
    ASSUME TypeOK, OrderInv
    PROVE  NoLockDeadlock
  <1> SUFFICES ASSUME NEW W \in SUBSET Request, W # {},
                      \A x \in W : /\ req[x].waits # {}
                                   /\ \E p \in NextLock(req[x]), y \in W \ {x} : p \in req[y].locks
               PROVE  FALSE
    BY DEF NoLockDeadlock
  <1> DEFINE Beyond(x) == {y \in W : \E p \in NextLock(req[x]), q \in NextLock(req[y]) : p < q}
             Ranks == {Cardinality(Beyond(x)) : x \in W}
  <1>1. \A x \in W : NextLock(req[x]) \subseteq Int
    BY DependencyAssumption DEF NextLock, TypeOK, Req
  <1>2. \A x \in W : IsFiniteSet(Beyond(x)) /\ Cardinality(Beyond(x)) \in Nat
    <2>1. W \subseteq {x \in Request : Busy(x)}
      BY DEF OrderInv, WaitersBusy
    <2>2. IsFiniteSet(W)
      BY <2>1, FS_Subset DEF OrderInv, FewBusy
    <2> HIDE DEF Beyond
    <2>3. \A x \in W : Beyond(x) \subseteq W
      BY DEF Beyond
    <2> QED  BY <2>2, <2>3, FS_Subset, FS_CardinalityType
  <1>3. ASSUME NEW x \in W
        PROVE  \E y \in W : Cardinality(Beyond(y)) < Cardinality(Beyond(x))
    <2>1. PICK p \in NextLock(req[x]), y \in W \ {x} : p \in req[y].locks
      OBVIOUS
    <2>2. \A q \in NextLock(req[y]) : p < q
      BY <2>1 DEF OrderInv, Ascending, NextLock
    <2>3. PICK q \in NextLock(req[y]) : TRUE
      BY <2>1
    <2>4. y \in Beyond(x)
      BY <2>1, <2>2, <2>3
    <2>5. y \notin Beyond(y)
      BY <1>1, <2>1 DEF NextLock
    <2>6. Beyond(y) \subseteq Beyond(x)
      <3>1. SUFFICES ASSUME NEW z \in Beyond(y) PROVE z \in Beyond(x)
        OBVIOUS
      <3>2. PICK o \in NextLock(req[y]), w \in NextLock(req[z]) : o < w
        BY <3>1
      <3>3. p < o /\ {p, o, w} \subseteq Int
        BY <1>1, <2>1, <2>2, <3>1, <3>2
      <3>4. p < w
        BY <3>2, <3>3
      <3> QED  BY <2>1, <3>1, <3>2, <3>4
    <2> HIDE DEF Beyond
    <2> QED  BY <1>2, <2>1, <2>4, <2>5, <2>6, FS_Subset
  <1> HIDE DEF Beyond
  <1>4. Ranks \subseteq Nat /\ Ranks # {}
    BY <1>2
  <1>5. PICK n \in Ranks : \A m \in Ranks : <<m, n>> \notin OpToRel(<, Nat)
    <2> HIDE DEF Ranks
    <2> QED  BY <1>4, WFMin, NatLessThanWellFounded, Zenon
  <1>6. \A m \in Ranks : ~(m < n)
    <2> HIDE DEF Ranks
    <2> QED  BY <1>4, <1>5 DEF OpToRel
  <1> QED  BY <1>3, <1>6

\* dependencies.ts:14-17: however many requests take the locks of however many
\* projects, no group of them waits in a circle.
THEOREM LocksNeverDeadlock == Spec => []NoLockDeadlock
  <1>1. IInv => TypeOK
    BY DEF IInv
  <1>2. TypeOK /\ OrderInv => NoLockDeadlock
    BY NoCircle
  <1> QED  BY <1>1, <1>2, IInvAlways, OrderInit, OrderNext, PTL DEF Spec

-----------------------------------------------------------------------------
(* What one request leaves behind it.                                      *)

\* Where the statements of a request come in its operation.
Phased(r) ==
    /\ r.at \in {"locking", "inserting"} => r.op = "add"
    /\ r.at \in {"dependents", "deleting"} => r.op \notin {"add", "remove"}
    /\ r.op = "delete" /\ r.at \in {"writing", "dependents", "deleting"} => ~r.wrote
    /\ r.at \notin {"storing", "committing"} => r.stored = {}
    /\ r.at = "committing" => r.pending = {}

\* The foreign keys: an edge has its tasks, and an edge that is being inserted
\* keeps them.
KeysHold ==
    /\ db.edges \subseteq db.live \X db.live
    /\ \A x \in Request : (req[x].op = "add" /\ req[x].wrote) =>
          /\ req[x].task \in db.live /\ req[x].blocker \in db.live
          /\ ~BeingDeleted(req[x].task, x) /\ ~BeingDeleted(req[x].blocker, x)

\* The tasks whose counts the change of a request bears on.
Bears(r) == IF r.op \in {"add", "remove"} THEN {r.task}
            ELSE {t \in Task : <<r.task, t>> \in db.edges /\ Remote(<<r.task, t>>)}

\* What a request that nothing has overlapped knows at each of its statements.
Heals(r) ==
    /\ r.task \in db.live
    /\ r.at \in {"deleting", "recounting"} => r.targets = Bears(r)
    /\ r.at = "storing" => r.pending \subseteq db.live
    /\ r.at \in {"storing", "committing"} =>
          \A t \in Bears(r) :
             OpenBlockers(Applied(db, r), t) =
                IF t \in r.pending \cup r.stored THEN r.tally[t] ELSE count[t]

AloneHeals ==
    \A x \in Request : (Busy(x) /\ req[x].alone) =>
        Heals(req[x]) /\ \A y \in Request : Busy(y) => y = x

HealInv == /\ \A x \in Request : Phased(req[x])
           /\ KeysHold
           /\ AloneHeals

-----------------------------------------------------------------------------
\* A statement of a request that has not committed: what it must see to for the
\* invariant to hold on.
Follows(x, q) ==
    /\ Set(x, q) /\ UNCHANGED <<db, count>>
    /\ Busy(x) /\ req[x].op = q.op /\ req[x].task = q.task /\ req[x].blocker = q.blocker
    /\ req[x].alone = q.alone
    /\ Phased(q)
    /\ (req[x].alone /\ Heals(req[x])) => Heals(q)
    /\ (q.op = "add" /\ q.wrote) =>
          /\ q.task \in db.live /\ q.blocker \in db.live
          /\ ~BeingDeleted(q.task, x) /\ ~BeingDeleted(q.blocker, x)
    /\ (q.op = "delete" /\ (q.wrote \/ q.at \in {"dependents", "deleting"})) =>
          \/ req[x].wrote \/ req[x].at \in {"dependents", "deleting"}
          \/ ~KeyShared(q.task, x)

LEMMA FollowsKeeps ==
    ASSUME TypeOK, HealInv, NEW x \in Request, NEW q, Follows(x, q)
    PROVE  HealInv'
  <1>1. req'[x] = q /\ \A y \in Request : y # x => req'[y] = req[y]
    BY DEF Follows, Set, TypeOK
  <1>2. \A y \in Request : Phased(req'[y])
    BY <1>1 DEF HealInv, Follows
  <1>3. KeysHold'
    <2>1. ASSUME NEW y \in Request, req'[y].op = "add", req'[y].wrote, NEW t \in {req'[y].task, req'[y].blocker}
          PROVE  t \in db'.live /\ ~BeingDeleted(t, y)'
      <3>1. CASE y = x
        <4>1. t \in db.live /\ ~BeingDeleted(t, x)
          BY <1>1, <2>1, <3>1 DEF Follows
        <4> QED  BY <1>1, <3>1, <4>1 DEF Follows, BeingDeleted
      <3>2. CASE y # x
        <4>1. req'[y] = req[y] /\ db' = db
          BY <1>1, <3>2 DEF Follows
        <4>2. t \in db.live /\ ~BeingDeleted(t, y)
          BY <2>1, <4>1 DEF HealInv, KeysHold
        <4>3. KeyShared(t, x)
          BY <2>1, <3>2, <4>1 DEF KeyShared, Touches, EdgeOf
        <4> QED  BY <1>1, <4>1, <4>2, <4>3 DEF Follows, BeingDeleted
      <3> QED  BY <3>1, <3>2
    <2> QED  BY <2>1 DEF HealInv, KeysHold, Follows
  <1>4. AloneHeals'
    <2>1. ASSUME NEW y \in Request, Busy(y)', req'[y].alone
          PROVE  Heals(req[y])' /\ \A z \in Request : Busy(z)' => z = y
      <3>1. Busy(y) /\ req[y].alone
        BY <1>1, <2>1 DEF Busy, Follows
      <3>2. Heals(req[y]) /\ \A z \in Request : Busy(z) => z = y
        BY <3>1 DEF HealInv, AloneHeals
      <3>3. y = x
        BY <3>2 DEF Follows
      <3>4. Heals(q) /\ req'[y] = q /\ db' = db /\ count' = count
        BY <1>1, <3>1, <3>2, <3>3 DEF Follows
      <3>5. Heals(req[y])'
        BY <3>4 DEF Heals, Bears
      <3> QED  BY <1>1, <3>2, <3>3, <3>5 DEF Busy
    <2> QED  BY <2>1 DEF AloneHeals
  <1> QED  BY <1>2, <1>3, <1>4 DEF HealInv

\* A request that ends without a change.
LEMMA EndKeeps ==
    ASSUME TypeOK, HealInv, NEW x \in Request, Busy(x), Close(x), UNCHANGED <<db, count>>
    PROVE  HealInv'
  <1>1. req'[x] = NoReq /\ \A y \in Request : y # x => req'[y] = req[y]
    BY DEF Close, Set, TypeOK
  <1>2. \A y \in Request : Phased(req'[y])
    BY <1>1 DEF HealInv, Phased, NoReq
  <1>3. KeysHold'
    BY <1>1 DEF HealInv, KeysHold, BeingDeleted, NoReq
  <1>4. AloneHeals'
    BY <1>1 DEF HealInv, AloneHeals, Busy, NoReq
  <1> QED  BY <1>2, <1>3, <1>4 DEF HealInv

\* A commit: the edge it adds has its tasks, the task it deletes has no edge
\* left, and nobody else's edge is on it.
LEMMA CommitHeals ==
    ASSUME TypeOK, HealInv, NEW x \in Request, Commit(x)
    PROVE  HealInv'
  <1> DEFINE r == req[x]
  <1>1. /\ req'[x] = NoReq /\ \A y \in Request : y # x => req'[y] = req[y]
        /\ r.at = "committing" /\ db' = Applied(db, r)
    BY DEF Commit, Close, Set, TypeOK, View
  <1>2. \A y \in Request : Phased(req'[y])
    BY <1>1 DEF HealInv, Phased, NoReq
  <1>3. /\ db'.live = db.live \ (IF r.wrote /\ r.op = "delete" THEN {r.task} ELSE {})
        /\ \A e \in db'.edges :
              /\ e \in db.edges \/ (r.wrote /\ r.op = "add" /\ e = EdgeOf(r))
              /\ ~(r.wrote /\ r.op = "delete" /\ Touches(e, r.task))
    BY <1>1 DEF Applied
  <1>4. db'.edges \subseteq db'.live \X db'.live
    <2>1. SUFFICES ASSUME NEW e \in db'.edges PROVE e \in db'.live \X db'.live
      OBVIOUS
    <2>2. e \in db.live \X db.live
      BY <1>3 DEF HealInv, KeysHold, EdgeOf
    <2> QED  BY <1>3, <2>2 DEF Touches
  <1>5. ASSUME NEW y \in Request, req'[y].op = "add", req'[y].wrote,
               NEW t \in {req'[y].task, req'[y].blocker}
        PROVE  t \in db'.live /\ ~BeingDeleted(t, y)'
    <2>1. y # x /\ req'[y] = req[y]
      BY <1>1, <1>5 DEF NoReq
    <2>2. t \in db.live /\ ~BeingDeleted(t, y)
      BY <1>5, <2>1 DEF HealInv, KeysHold
    <2>3. ~(r.wrote /\ r.op = "delete" /\ r.task = t)
      BY <2>1, <2>2 DEF BeingDeleted
    <2>4. t \in db'.live
      BY <1>3, <2>2, <2>3
    <2> QED  BY <1>1, <2>2, <2>4 DEF BeingDeleted, NoReq
  <1>6. KeysHold'
    BY <1>4, <1>5 DEF KeysHold
  <1>7. AloneHeals'
    <2>1. Busy(x)
      BY <1>1 DEF Busy
    <2> QED  BY <1>1, <2>1 DEF HealInv, AloneHeals, Busy, NoReq
  <1> QED  BY <1>2, <1>6, <1>7 DEF HealInv

\* A request begins, with others or alone.
LEMMA BeginHeals ==
    ASSUME TypeOK, HealInv, NEW x \in Request,
           NEW op \in Op, NEW t \in Task, NEW b \in Task \cup {NoTask}, Begin(x, op, t, b)
    PROVE  HealInv'
  <1>1. /\ req'[x].op = op /\ req'[x].task = t /\ req'[x].blocker = b
        /\ req'[x].at = IF op = "add" THEN "locking" ELSE "writing"
        /\ req'[x].wrote = FALSE /\ req'[x].stored = {}
        /\ req'[x].alone = \A y \in Request : ~Busy(y)
    <2> DEFINE a == \A y \in Request : ~Busy(y)
               at == IF op = "add" THEN "locking" ELSE "writing"
               waits == IF op = "add" THEN LocksFor(t, b) ELSE {}
    <2>1. req'[x] = [NoReq EXCEPT !.op = op, !.task = t, !.blocker = b,
                                  !.at = at, !.waits = waits, !.alone = a]
      BY DEF Begin, TypeOK
    <2> HIDE DEF a, at, waits
    <2>2. /\ req'[x].op = op /\ req'[x].task = t /\ req'[x].blocker = b /\ req'[x].at = at
          /\ req'[x].wrote = FALSE /\ req'[x].stored = {} /\ req'[x].alone = a
      BY <2>1 DEF NoReq
    <2> QED  BY <2>2 DEF a, at
  <1>2. ASSUME NEW y \in Request, y # x
        PROVE  /\ req'[y].op = req[y].op /\ req'[y].task = req[y].task
               /\ req'[y].blocker = req[y].blocker /\ req'[y].at = req[y].at
               /\ req'[y].wrote = req[y].wrote /\ req'[y].stored = req[y].stored
               /\ req'[y].pending = req[y].pending
               /\ Busy(y) => ~req'[y].alone
    BY <1>2 DEF Begin, TypeOK, Req
  <1>3. t \in db.live /\ UNCHANGED <<db, count>> /\ ~Busy(x)
    BY DEF Begin
  <1>4. \A y \in Request : Phased(req'[y])
    BY <1>1, <1>2 DEF HealInv, Phased
  <1>5. KeysHold'
    BY <1>1, <1>2, <1>3 DEF HealInv, KeysHold, BeingDeleted
  <1>6. AloneHeals'
    <2>1. ASSUME NEW y \in Request, Busy(y)', req'[y].alone
          PROVE  Heals(req[y])' /\ \A z \in Request : Busy(z)' => z = y
      <3>1. y = x
        BY <1>2, <2>1 DEF Busy
      <3>2. \A z \in Request : z # x => ~Busy(z)'
        BY <1>1, <1>2, <2>1, <3>1 DEF Busy
      <3>3. Heals(req[x])'
        BY <1>1, <1>3 DEF Heals
      <3> QED  BY <3>1, <3>2, <3>3
    <2> QED  BY <2>1 DEF AloneHeals
  <1> QED  BY <1>4, <1>5, <1>6 DEF HealInv

\* What a change does to the tasks and edges that Bears and the counts read.
LEMMA AppliedFields ==
    ASSUME NEW d, NEW r
    PROVE  /\ Applied(d, r).live = d.live \ (IF r.wrote /\ r.op = "delete" THEN {r.task} ELSE {})
           /\ (r.op \notin {"add", "remove", "delete"} \/ ~r.wrote) => \A e :
                 e \in Applied(d, r).edges <=> e \in d.edges
  BY DEF Applied

\* The rows a recount leaves alone are exact, and it stores what is exact in
\* the others.
LEMMA RecountHeals ==
    ASSUME TypeOK, HealInv, NEW x \in Request, Recount(x)
    PROVE  HealInv'
  <1> DEFINE r == req[x]
             d == Applied(db, r)
             stale == {t \in r.targets \cap d.live : count[t] # OpenBlockers(d, t)}
             tally == [t \in Task |-> IF t \in stale THEN OpenBlockers(d, t) ELSE 0]
             at == IF stale = {} THEN "committing" ELSE "storing"
             q == [r EXCEPT !.at = at, !.pending = stale, !.tally = tally]
  <1>1. /\ r.at = "recounting" /\ Set(x, q) /\ UNCHANGED <<db, count>>
        /\ r \in Req /\ Busy(x) /\ Phased(r)
    BY DEF Recount, View, TypeOK, Busy, HealInv
  <1>2. at = IF stale = {} THEN "committing" ELSE "storing"
    OBVIOUS
  <1> HIDE DEF at, stale, tally
  <1>3. /\ q.op = r.op /\ q.task = r.task /\ q.blocker = r.blocker /\ q.alone = r.alone
        /\ q.wrote = r.wrote /\ q.at = at /\ q.pending = stale /\ q.tally = tally
        /\ q.stored = r.stored /\ q.targets = r.targets
    BY <1>1 DEF Req
  <1> HIDE DEF q
  <1>4. Phased(q)
    BY <1>1, <1>2, <1>3 DEF Phased
  <1>5. ASSUME Heals(r)
        PROVE  Heals(q)
    <2>1. r.targets = Bears(r) /\ r.task \in db.live
      BY <1>1, <1>5 DEF Heals
    <2>2. Bears(r) \subseteq d.live
      <3>1. ASSUME NEW t \in Bears(r)
            PROVE  t \in db.live /\ (r.op = "delete" => t # r.task)
        BY <2>1, <3>1 DEF Bears, HealInv, KeysHold, Remote
      <3> QED  BY <3>1, AppliedFields
    <2>3. \A t \in Bears(r) : t \in stale <=> count[t] # OpenBlockers(d, t)
      BY <2>1, <2>2 DEF stale
    <2>4. \A t \in stale : tally[t] = OpenBlockers(d, t)
      BY <1>1 DEF stale, tally, Req
    <2>5. Bears(q) = Bears(r) /\ Applied(db, q) = d
      BY <1>3 DEF Bears, Applied, EdgeOf
    <2>6. stale \subseteq db.live
      BY AppliedFields DEF stale
    <2>7. q.at \in {"storing", "committing"}
      BY <1>2, <1>3
    <2>8. q.stored = {}
      BY <1>1, <1>3 DEF Phased
    <2> HIDE DEF d
    <2>9. \A t \in Bears(q) : OpenBlockers(Applied(db, q), t) =
             IF t \in q.pending \cup q.stored THEN q.tally[t] ELSE count[t]
      BY <1>3, <2>3, <2>4, <2>5, <2>8
    <2> QED  BY <1>3, <2>1, <2>6, <2>7, <2>9 DEF Heals
  <1>6. (q.op = "add" /\ q.wrote) =>
          /\ q.task \in db.live /\ q.blocker \in db.live
          /\ ~BeingDeleted(q.task, x) /\ ~BeingDeleted(q.blocker, x)
    BY <1>3 DEF HealInv, KeysHold
  <1>7. q.at \notin {"dependents", "deleting"}
    BY <1>2, <1>3
  <1>8. Follows(x, q)
    BY <1>1, <1>3, <1>4, <1>5, <1>6, <1>7 DEF Follows
  <1> QED  BY <1>8, FollowsKeeps

\* A row that is stored has been counted.
LEMMA StoreHeals ==
    ASSUME TypeOK, HealInv, NEW x \in Request, NEW t \in Task, StoreCount(x, t)
    PROVE  HealInv'
  <1> DEFINE r == req[x]
             left == r.pending \ {t}
             stored == r.stored \cup ({t} \cap db.live)
             at == IF left = {} THEN "committing" ELSE "storing"
             q == [r EXCEPT !.pending = left, !.at = at, !.stored = stored]
  <1>1. /\ r.at = "storing" /\ t \in r.pending /\ Set(x, q) /\ UNCHANGED <<db, count>>
        /\ r \in Req /\ Busy(x) /\ Phased(r)
    BY DEF StoreCount, TypeOK, Busy, HealInv
  <1>2. /\ q.op = r.op /\ q.task = r.task /\ q.blocker = r.blocker /\ q.alone = r.alone
        /\ q.wrote = r.wrote /\ q.at = at /\ q.pending = left /\ q.tally = r.tally
        /\ q.stored = stored /\ q.targets = r.targets
    BY <1>1 DEF Req
  <1> HIDE DEF q
  <1>3. Phased(q)
    BY <1>1, <1>2 DEF Phased
  <1>4. ASSUME Heals(r)
        PROVE  Heals(q)
    <2>1. r.task \in db.live /\ r.pending \subseteq db.live
      BY <1>1, <1>4 DEF Heals
    <2>2. Bears(q) = Bears(r) /\ Applied(db, q) = Applied(db, r)
      BY <1>2 DEF Bears, Applied, EdgeOf
    <2>3. q.pending \cup q.stored = r.pending \cup r.stored
      BY <1>1, <1>2, <2>1
    <2> QED  BY <1>1, <1>2, <1>4, <2>1, <2>2, <2>3 DEF Heals
  <1>5. (q.op = "add" /\ q.wrote) =>
          /\ q.task \in db.live /\ q.blocker \in db.live
          /\ ~BeingDeleted(q.task, x) /\ ~BeingDeleted(q.blocker, x)
    BY <1>2 DEF HealInv, KeysHold
  <1>6. Follows(x, q)
    BY <1>1, <1>2, <1>3, <1>4, <1>5 DEF Follows
  <1> QED  BY <1>6, FollowsKeeps

\* The tasks a change bears on: read after the change, and before a delete.
LEMMA DependentsHeal ==
    ASSUME TypeOK, HealInv, NEW x \in Request, ReadDependents(x)
    PROVE  HealInv'
  <1> DEFINE r == req[x]
             T == Dependents(View(x), r.task)
             at == IF r.op = "delete" THEN "deleting" ELSE "recounting"
             q == [r EXCEPT !.targets = T, !.at = at]
  <1>1. /\ r.at = "dependents" /\ Set(x, q) /\ UNCHANGED <<db, count>>
        /\ r \in Req /\ Busy(x) /\ Phased(r)
    BY DEF ReadDependents, TypeOK, Busy, HealInv
  <1> HIDE DEF T
  <1>2. /\ q.op = r.op /\ q.task = r.task /\ q.blocker = r.blocker /\ q.alone = r.alone
        /\ q.wrote = r.wrote /\ q.at = at /\ q.targets = T /\ q.stored = r.stored
    BY <1>1 DEF Req
  <1> HIDE DEF q
  <1>3. Phased(q)
    BY <1>1, <1>2 DEF Phased
  <1>4. T = Bears(r)
    <2>1. r.op \notin {"add", "remove"} /\ (r.op = "delete" => ~r.wrote)
      BY <1>1 DEF Phased
    <2>2. /\ \A b : b \in View(x).live <=> b \in db.live
          /\ \A e : e \in View(x).edges <=> e \in db.edges
      BY <2>1, AppliedFields DEF View
    <2>3. db.live \subseteq Task /\ db.edges \subseteq db.live \X db.live
      BY DEF TypeOK, Tables, HealInv, KeysHold
    <2>4. \A u : u \in T <=> u \in Bears(r)
      BY <2>1, <2>2, <2>3 DEF T, Dependents, Bears
    <2> QED  BY <2>4
  <1>5. ASSUME Heals(r)
        PROVE  Heals(q)
    BY <1>1, <1>2, <1>4, <1>5 DEF Heals, Bears
  <1>6. (q.op = "add" /\ q.wrote) =>
          /\ q.task \in db.live /\ q.blocker \in db.live
          /\ ~BeingDeleted(q.task, x) /\ ~BeingDeleted(q.blocker, x)
    BY <1>2 DEF HealInv, KeysHold
  <1>7. Follows(x, q)
    BY <1>1, <1>2, <1>3, <1>5, <1>6 DEF Follows
  <1> QED  BY <1>7, FollowsKeeps

\* An insert finds both tasks, and no delete of either under way.
LEMMA EdgeHeals ==
    ASSUME TypeOK, HealInv, NEW x \in Request, InsertEdge(x) \/ RemoveEdge(x)
    PROVE  HealInv'
  <1> DEFINE r == req[x]
  <1>1. r \in Req /\ Busy(x) /\ Phased(r) /\ UNCHANGED <<db, count>>
    BY DEF InsertEdge, RemoveEdge, TypeOK, Busy, HealInv
  <1>2. /\ \E v \in BOOLEAN : Set(x, [r EXCEPT !.at = "recounting", !.targets = {r.task},
                                              !.wrote = v])
        /\ (r.at = "inserting" /\ r.op = "add") \/ (r.at = "writing" /\ r.op = "remove")
    <2>1. CASE InsertEdge(x)
      <3> DEFINE v == EdgeOf(r) \notin db.edges
      <3>1. r.op = "add" /\ r.at = "inserting"
        BY <1>1, <2>1 DEF InsertEdge, Phased
      <3>2. v \in BOOLEAN
        OBVIOUS
      <3>3. Set(x, [r EXCEPT !.at = "recounting", !.targets = {r.task}, !.wrote = v])
        BY <2>1, Zenon DEF InsertEdge
      <3> HIDE DEF v
      <3> QED  BY <3>1, <3>2, <3>3, Zenon
    <2>2. CASE RemoveEdge(x)
      <3> DEFINE v == EdgeOf(r) \in db.edges
      <3>1. r.op = "remove" /\ r.at = "writing"
        BY <2>2 DEF RemoveEdge
      <3>2. v \in BOOLEAN
        OBVIOUS
      <3>3. Set(x, [r EXCEPT !.at = "recounting", !.targets = {r.task}, !.wrote = v])
        BY <2>2, Zenon DEF RemoveEdge
      <3> HIDE DEF v
      <3> QED  BY <3>1, <3>2, <3>3, Zenon
    <2> QED  BY <2>1, <2>2
  <1> PICK v \in BOOLEAN : Set(x, [r EXCEPT !.at = "recounting", !.targets = {r.task},
                                          !.wrote = v])
    BY <1>2
  <1> DEFINE q == [r EXCEPT !.at = "recounting", !.targets = {r.task}, !.wrote = v]
  <1>3. /\ q.op = r.op /\ q.task = r.task /\ q.blocker = r.blocker /\ q.alone = r.alone
        /\ q.at = "recounting" /\ q.targets = {r.task} /\ q.stored = r.stored
        /\ Set(x, q)
    BY <1>1 DEF Req
  <1> HIDE DEF q
  <1>4. Phased(q)
    BY <1>1, <1>2, <1>3 DEF Phased
  <1>5. ASSUME Heals(r)
        PROVE  Heals(q)
    BY <1>2, <1>3, <1>5 DEF Heals, Bears
  <1>6. q.op = "add" =>
          /\ q.task \in db.live /\ q.blocker \in db.live
          /\ ~BeingDeleted(q.task, x) /\ ~BeingDeleted(q.blocker, x)
    BY <1>2, <1>3 DEF InsertEdge, RemoveEdge
  <1>7. Follows(x, q)
    BY <1>1, <1>2, <1>3, <1>4, <1>5, <1>6 DEF Follows
  <1> QED  BY <1>7, FollowsKeeps

\* The other statements do not touch what the counts are made of.
LEMMA OtherHeals ==
    ASSUME TypeOK, HealInv, NEW x \in Request,
           \/ \E p \in Project : TakeLock(x, p)
           \/ CheckCycle(x) \/ UpdateTask(x) \/ LockForDelete(x) \/ DeleteTask(x)
    PROVE  HealInv'
  <1> DEFINE r == req[x]
  <1>1. r \in Req /\ Busy(x) /\ Phased(r) /\ UNCHANGED <<db, count>>
    BY DEF TakeLock, CheckCycle, UpdateTask, LockForDelete, DeleteTask, TypeOK, Busy, HealInv
  <1>2. (r.op = "add" /\ r.wrote) =>
          /\ r.task \in db.live /\ r.blocker \in db.live
          /\ ~BeingDeleted(r.task, x) /\ ~BeingDeleted(r.blocker, x)
    BY DEF HealInv, KeysHold
  <1>3. CASE Close(x)
    BY <1>1, <1>3, EndKeeps
  <1>4. ASSUME NEW p \in Project, TakeLock(x, p)
        PROVE  HealInv'
    <2> DEFINE q == [r EXCEPT !.waits = @ \ {p}, !.locks = @ \cup {p}]
    <2>1. Set(x, q) /\ r.at = "locking"
      BY <1>4 DEF TakeLock
    <2>2. /\ q.op = r.op /\ q.task = r.task /\ q.blocker = r.blocker /\ q.alone = r.alone
          /\ q.wrote = r.wrote /\ q.at = "locking" /\ q.stored = r.stored
      BY <1>1, <2>1 DEF Req
    <2> HIDE DEF q
    <2>3. Follows(x, q)
      BY <1>1, <1>2, <2>1, <2>2 DEF Follows, Phased, Heals
    <2> QED  BY <2>3, FollowsKeeps
  <1>5. ASSUME CheckCycle(x), ~Close(x)
        PROVE  HealInv'
    <2> DEFINE q == [r EXCEPT !.at = "inserting"]
    <2>1. Set(x, q) /\ r.at = "locking"
      BY <1>5 DEF CheckCycle
    <2>2. /\ q.op = r.op /\ q.task = r.task /\ q.blocker = r.blocker /\ q.alone = r.alone
          /\ q.wrote = r.wrote /\ q.at = "inserting" /\ q.stored = r.stored
      BY <1>1 DEF Req
    <2> HIDE DEF q
    <2>3. Follows(x, q)
      BY <1>1, <1>2, <2>1, <2>2 DEF Follows, Phased, Heals
    <2> QED  BY <2>3, FollowsKeeps
  <1>6. ASSUME UpdateTask(x), ~Close(x)
        PROVE  HealInv'
    <2> DEFINE q == [r EXCEPT !.wrote = TRUE, !.at = "dependents"]
    <2>1. Set(x, q) /\ r.at = "writing" /\ r.op \in {"finish", "reopen", "archive", "restore"}
      BY <1>6 DEF UpdateTask
    <2>2. /\ q.op = r.op /\ q.task = r.task /\ q.blocker = r.blocker /\ q.alone = r.alone
          /\ q.at = "dependents" /\ q.stored = r.stored
      BY <1>1 DEF Req
    <2> HIDE DEF q
    <2>3. Follows(x, q)
      BY <1>1, <2>1, <2>2 DEF Follows, Phased, Heals
    <2> QED  BY <2>3, FollowsKeeps
  <1>7. ASSUME LockForDelete(x), ~Close(x)
        PROVE  HealInv'
    <2> DEFINE q == [r EXCEPT !.at = "dependents"]
    <2>1. Set(x, q) /\ r.at = "writing" /\ r.op = "delete" /\ ~KeyShared(r.task, x)
      BY <1>7 DEF LockForDelete
    <2>2. /\ q.op = r.op /\ q.task = r.task /\ q.blocker = r.blocker /\ q.alone = r.alone
          /\ q.wrote = r.wrote /\ q.at = "dependents" /\ q.stored = r.stored
      BY <1>1 DEF Req
    <2> HIDE DEF q
    <2>3. Follows(x, q)
      BY <1>1, <2>1, <2>2 DEF Follows, Phased, Heals
    <2> QED  BY <2>3, FollowsKeeps
  <1>8. ASSUME DeleteTask(x)
        PROVE  HealInv'
    <2> DEFINE q == [r EXCEPT !.wrote = TRUE, !.at = "recounting"]
    <2>1. Set(x, q) /\ r.at = "deleting"
      BY <1>8 DEF DeleteTask
    <2>2. /\ q.op = r.op /\ q.task = r.task /\ q.blocker = r.blocker /\ q.alone = r.alone
          /\ q.at = "recounting" /\ q.stored = r.stored /\ q.targets = r.targets
      BY <1>1 DEF Req
    <2> HIDE DEF q
    <2>3. q.op # "add"
      BY <1>1, <2>1, <2>2 DEF Phased
    <2>4. Follows(x, q)
      BY <1>1, <2>1, <2>2, <2>3 DEF Follows, Phased, Heals, Bears
    <2> QED  BY <2>4, FollowsKeeps
  <1> QED  BY <1>3, <1>4, <1>5, <1>6, <1>7, <1>8

LEMMA HealInit == Init => HealInv
  <1> SUFFICES ASSUME Init PROVE HealInv
    OBVIOUS
  <1>1. \A x \in Request : ~Busy(x) /\ Phased(req[x]) /\ ~req[x].wrote
    BY DEF Init, NoReq, Busy, Phased
  <1>2. db.edges \subseteq db.live \X db.live
    BY DependencyAssumption DEF Init
  <1> QED  BY <1>1, <1>2 DEF HealInv, KeysHold, AloneHeals

LEMMA HealNext == TypeOK /\ HealInv /\ [Next]_vars => HealInv'
  <1> SUFFICES ASSUME TypeOK, HealInv, [Next]_vars PROVE HealInv'
    OBVIOUS
  <1>1. CASE Next
    <2>1. PICK x \in Request :
             \/ \E op \in Op, t \in Task, b \in Task \cup {NoTask} : Begin(x, op, t, b)
             \/ InsertEdge(x) \/ RemoveEdge(x) \/ ReadDependents(x) \/ Recount(x)
             \/ \E t \in Task : StoreCount(x, t)
             \/ Commit(x)
             \/ Abort(x)
             \/ \E p \in Project : TakeLock(x, p)
             \/ CheckCycle(x) \/ UpdateTask(x) \/ LockForDelete(x) \/ DeleteTask(x)
      BY <1>1 DEF Next
    <2>2. CASE Abort(x)
      BY <2>2, EndKeeps DEF Abort
    <2> QED  BY <2>1, <2>2, BeginHeals, EdgeHeals, DependentsHeal, RecountHeals,
                StoreHeals, CommitHeals, OtherHeals
  <1>2. CASE UNCHANGED vars
    BY <1>2 DEF vars, HealInv, KeysHold, AloneHeals, Heals, Bears, Busy, BeingDeleted, Remote
  <1> QED  BY <1>1, <1>2

\* README "a count that ever drifts heals the next time anything touches its
\* blocker": whatever the counts were, the commit of a request that nothing
\* overlapped makes those of all tasks its change bears on exact.
THEOREM CountsHeal == Spec => TouchHeals
  <1> DEFINE A == \A x \in Request :
                   LET r == req[x]
                       borne == IF r.op \in {"add", "remove"} THEN {r.task}
                                ELSE {t \in Task : /\ <<r.task, t>> \in db.edges
                                                   /\ Remote(<<r.task, t>>)}
                   IN  (r.at = "committing" /\ req'[x].at = "idle" /\ r.alone) =>
                          \A t \in borne : count'[t] = OpenBlockers(db', t)
  <1>1. IInv => TypeOK
    BY DEF IInv
  <1>2. TypeOK /\ HealInv /\ [Next]_vars => [A]_vars
    <2> SUFFICES ASSUME TypeOK, HealInv, Next,
                        NEW x \in Request, req[x].at = "committing", req'[x].at = "idle",
                        req[x].alone, NEW t \in Bears(req[x])
                 PROVE  count'[t] = OpenBlockers(db', t)
      BY DEF Bears
    <2> DEFINE r == req[x]
    <2>1. Heals(r) /\ \A y \in Request : Busy(y) => y = x
      BY DEF HealInv, AloneHeals, Busy
    <2>2. Commit(x)
      <3>1. PICK y \in Request :
               \/ \E op \in Op, u \in Task, b \in Task \cup {NoTask} : Begin(y, op, u, b)
               \/ \E p \in Project : TakeLock(y, p)
               \/ CheckCycle(y)
               \/ InsertEdge(y) \/ RemoveEdge(y) \/ UpdateTask(y) \/ LockForDelete(y)
               \/ ReadDependents(y) \/ DeleteTask(y) \/ Recount(y)
               \/ \E u \in Task : StoreCount(y, u)
               \/ Commit(y)
               \/ Abort(y)
        BY DEF Next
      <3>2. ASSUME NEW op \in Op, NEW u \in Task, NEW b \in Task \cup {NoTask}, Begin(y, op, u, b)
            PROVE  FALSE
        <4>1. y # x
          BY <3>2 DEF Begin, Busy
        <4>2. req'[x].at = req[x].at
          BY <3>2, <4>1 DEF Begin, TypeOK, Req
        <4> QED  BY <4>2
      <3>3. y = x
        BY <2>1, <3>1, <3>2 DEF Busy, TakeLock, CheckCycle, InsertEdge, RemoveEdge, UpdateTask,
           LockForDelete, ReadDependents, DeleteTask, Recount, StoreCount, Commit, Abort
      <3> QED  BY <3>1, <3>2, <3>3 DEF TakeLock, CheckCycle, InsertEdge, RemoveEdge, UpdateTask,
                  LockForDelete, ReadDependents, DeleteTask, Recount, StoreCount, Abort
    <2>3. /\ db' = Applied(db, r) /\ r.pending = {}
          /\ count' = [u \in Task |-> IF u \in r.stored THEN r.tally[u] ELSE count[u]]
      BY <2>2 DEF Commit, View, HealInv, Phased
    <2>4. t \in Task
      BY <2>1 DEF Bears, Heals, TypeOK, Tables
    <2>5. OpenBlockers(Applied(db, r), t) =
             IF t \in r.pending \cup r.stored THEN r.tally[t] ELSE count[t]
      BY <2>1 DEF Heals
    <2> QED  BY <2>3, <2>4, <2>5
  <1>3. TouchHeals <=> [][A]_vars
    BY DEF TouchHeals
  <1> HIDE DEF A
  <1> QED  BY <1>1, <1>2, <1>3, IInvAlways, HealInit, HealNext, PTL DEF Spec
=============================================================================
