----------------------------- MODULE JobProofs ------------------------------
(***************************************************************************)
(* Proofs about the job queue, for any number of pods, ticks, jobs, kinds  *)
(* and releases and any value of the limits: JobQueue's types, its         *)
(* promises about one-shot jobs, its implementation of JobPromise and its  *)
(* count of slots, then JobLease's timing.                                 *)
(***************************************************************************)
EXTENDS JobLease, FiniteSetTheorems, TLAPS

\* There are finitely many jobs, so a claim can count the rows it takes.
LEMMA JobFinite == IsFiniteSet(Job)
  BY FS_Union, KindAssumption DEF Job

\* The counters a claim computes are numbers.
LEMMA ClaimCounts ==
    ASSUME NEW t \in Tick, NEW S \in SUBSET Job, TypeOK
    PROVE  /\ Cardinality(S) \in Nat
           /\ Lesser(held[t], Cardinality(S)) \in Int
           /\ \A j \in Job : Lesser(row[j].attempts + 1, MaxAttempts) \in 1..MaxAttempts
<1>1. Cardinality(S) \in Nat
  BY JobFinite, FS_Subset, FS_CardinalityType
<1>2. Lesser(held[t], Cardinality(S)) \in Int
  BY <1>1 DEF Lesser, TypeOK
<1>3. ASSUME NEW j \in Job
      PROVE  Lesser(row[j].attempts + 1, MaxAttempts) \in 1..MaxAttempts
  <2>1. row[j].attempts \in 0..MaxAttempts
    BY DEF TypeOK, Row
  <2> QED BY <2>1, LimitAssumption DEF Lesser
<1> QED BY <1>1, <1>2, <1>3

\* The tick counter stays below MaintenanceEvery.
LEMMA NextTick ==
    ASSUME NEW n \in 0..(MaintenanceEvery - 1)
    PROVE  (n + 1) % MaintenanceEvery \in 0..(MaintenanceEvery - 1)
  BY LimitAssumption

\* Ending a tick keeps the types of what it frees.
LEMMA EndTickType ==
    ASSUME TypeOK, NEW t \in Tick, EndTick(t)
    PROVE  /\ phase' \in [Tick -> Phase]
           /\ held' \in [Tick -> Int]
           /\ inFlight' \in [Pod -> Int]
           /\ latch' \in [Pod -> Tick \cup {NoTick}]
<1>1. PodOf[t] \in Pod
  BY TickAssumption
<1>2. phase' \in [Tick -> Phase] /\ held' \in [Tick -> Int]
  BY DEF TypeOK, EndTick, Phase
<1>3. inFlight' \in [Pod -> Int]
  <2>1. inFlight[PodOf[t]] - held[t] \in Int
    BY <1>1 DEF TypeOK
  <2> QED BY <2>1 DEF TypeOK, EndTick
<1>4. latch' \in [Pod -> Tick \cup {NoTick}]
  <2>1. latch[PodOf[t]] \in Tick \cup {NoTick}
    BY <1>1 DEF TypeOK
  <2> QED BY <2>1 DEF TypeOK, EndTick
<1> QED BY <1>2, <1>3, <1>4

\* A runner that moves its row on still holds a run ...
LEMMA MoveType ==
    ASSUME TypeOK, NEW t \in Tick, NEW r \in runs[t],
           NEW at \in {"handler", "succeeded", "failed"}, Move(t, r, at)
    PROVE  runs' \in [Tick -> SUBSET Run]
<1>1. r \in Run
  BY DEF TypeOK
<1>2. [r EXCEPT !.at = at] \in Run
  BY <1>1 DEF Run
<1> QED BY <1>2 DEF TypeOK, Move

\* ... and one that lets go of it holds no others.
LEMMA LeaveType ==
    ASSUME TypeOK, NEW t \in Tick, NEW r \in runs[t], Leave(t, r)
    PROVE  runs' \in [Tick -> SUBSET Run]
  BY DEF TypeOK, Leave

\* Synchronising schedules, all or some, leaves a table of rows.
LEMMA SyncedType ==
    ASSUME TypeOK, NEW v \in Release, NEW K \in SUBSET Kind
    PROVE  Synced(v, K) \in [Job -> Row]
  BY LimitAssumption DEF Synced, TypeOK, Row, Status, NoRow

\* Every step of a tick keeps the types.
LEMMA TickStepType ==
    ASSUME TypeOK, NEW t \in Tick, TickStep(t)
    PROVE  TypeOK'
<1> USE DEF tableVars, podVars, tickVars
<1>1. CASE StartTick(t)
  BY <1>1, NextTick, TickAssumption DEF StartTick, TypeOK, Phase
<1>2. CASE Maintain(t)
  <2>1. row' \in [Job -> Row]
    <3>1. release[PodOf[t]] \in Release
      BY TickAssumption DEF TypeOK
    <3> QED BY <1>2, <3>1, SyncedType DEF Maintain
  <2> QED BY <1>2, <2>1, NextTick, TickAssumption DEF Maintain, TypeOK, Phase
<1>3. CASE ReserveSlots(t)
  <2>1. MaxConcurrent - inFlight[PodOf[t]] \in Int /\ inFlight[PodOf[t]] \in Int
    BY TickAssumption, LimitAssumption DEF TypeOK
  <2>2. held' \in [Tick -> Int] /\ inFlight' \in [Pod -> Int]
    <3> DEFINE free == MaxConcurrent - inFlight[PodOf[t]]
    <3>1. free \in Int /\ inFlight[PodOf[t]] + free \in Int
      BY <2>1, LimitAssumption
    <3>2. /\ held' = [held EXCEPT ![t] = free]
          /\ inFlight' = [inFlight EXCEPT ![PodOf[t]] = @ + free]
      BY <1>3 DEF ReserveSlots
    <3> HIDE DEF free
    <3> QED BY <3>1, <3>2 DEF TypeOK
  <2> QED BY <1>3, <2>2 DEF ReserveSlots, TypeOK, Phase
<1>4. CASE NothingToReserve(t)
  BY <1>4, EndTickType DEF NothingToReserve, TypeOK
<1>5. CASE \E S \in SUBSET Job : Claim(t, S)
  <2>1. PICK S \in SUBSET Job : Claim(t, S)
    BY <1>5
  <2> DEFINE bumped(j) == Lesser(row[j].attempts + 1, MaxAttempts)
             runners == Lesser(held[t], Cardinality(S))
  <2>a. runners \in Int /\ \A j \in Job : bumped(j) \in 1..MaxAttempts
    BY ClaimCounts
  <2>b. \A j \in Job : bumped(j) \in 0..MaxAttempts
    BY <2>a, LimitAssumption
  <2>c. row' = [j \in Job |->
                  IF j \in S THEN [row[j] EXCEPT !.attempts = bumped(j), !.due = FALSE]
                  ELSE row[j]]
    BY <2>1 DEF Claim
  <2>d. /\ todo' = [todo EXCEPT ![t] = {[job |-> j, attempts |-> bumped(j)] : j \in S}]
        /\ held' = [held EXCEPT ![t] = runners]
        /\ inFlight' = [inFlight EXCEPT ![PodOf[t]] = @ - (held[t] - runners)]
    BY <2>1 DEF Claim
  <2> HIDE DEF bumped, runners
  <2>2. row' \in [Job -> Row]
    <3>1. ASSUME NEW j \in Job
          PROVE  row'[j] \in Row
      <4>1. row[j] \in Row
        BY DEF TypeOK
      <4>2. [row[j] EXCEPT !.attempts = bumped(j), !.due = FALSE] \in Row
        BY <4>1, <2>b DEF Row
      <4> QED BY <4>1, <4>2, <2>c
    <3> QED BY <3>1, <2>c
  <2>3. todo' \in [Tick -> SUBSET Claimed]
    <3>1. {[job |-> j, attempts |-> bumped(j)] : j \in S} \subseteq Claimed
      BY <2>a DEF Claimed
    <3> QED BY <3>1, <2>d DEF TypeOK
  <2>4. held' \in [Tick -> Int] /\ inFlight' \in [Pod -> Int]
    <3>1. inFlight[PodOf[t]] - (held[t] - runners) \in Int
      BY <2>a, TickAssumption DEF TypeOK
    <3> QED BY <2>a, <2>d, <3>1 DEF TypeOK
  <2> QED BY <2>1, <2>2, <2>3, <2>4 DEF Claim, TypeOK, Phase
<1>6. CASE TickFails(t)
  <2>1. row' \in [Job -> Row]
    <3>1. release[PodOf[t]] \in Release
      BY TickAssumption DEF TypeOK
    <3>2. CASE UNCHANGED row
      BY <3>2 DEF TypeOK
    <3> QED BY <1>6, <3>1, <3>2, SyncedType DEF TickFails
  <2> QED BY <1>6, <2>1, EndTickType DEF TickFails, TypeOK
<1>7. CASE FinishTick(t)
  BY <1>7, EndTickType DEF FinishTick, TypeOK
<1>8. CASE BudgetExpires(t)
  BY <1>8, TickAssumption DEF BudgetExpires, TypeOK
<1> QED BY <1>1, <1>2, <1>3, <1>4, <1>5, <1>6, <1>7, <1>8 DEF TickStep

\* Every step of a runner keeps the types.
LEMMA RunnerStepType ==
    ASSUME TypeOK, NEW t \in Tick, RunnerStep(t)
    PROVE  TypeOK'
<1> USE DEF tableVars, podVars, tickVars
<1>1. CASE \E c \in todo[t] : StartJob(t, c)
  <2>1. PICK c \in todo[t] : StartJob(t, c)
    BY <1>1
  <2>2. c \in Claimed
    BY DEF TypeOK
  <2>3. [job |-> c.job, attempts |-> c.attempts, at |-> "handler"] \in Run
    BY <2>2 DEF Claimed, Run
  <2> QED BY <2>1, <2>3 DEF StartJob, TypeOK
<1>2. ASSUME NEW r \in runs[t], HandlerReturns(t, r)
      PROVE  TypeOK'
  BY <1>2, MoveType DEF HandlerReturns, TypeOK
<1>3. ASSUME NEW r \in runs[t], HandlerThrows(t, r)
      PROVE  TypeOK'
  BY <1>3, MoveType DEF HandlerThrows, TypeOK
<1>4. ASSUME NEW r \in runs[t], HandlerTimesOut(t, r)
      PROVE  TypeOK'
  <2>1. r.job \in Job
    BY DEF TypeOK, Run
  <2> QED BY <1>4, <2>1, MoveType, TickAssumption DEF HandlerTimesOut, TypeOK
<1>5. ASSUME NEW r \in runs[t], RecordSuccess(t, r)
      PROVE  TypeOK'
  <2>1. r.job \in Job
    BY DEF TypeOK, Run
  <2>2. AfterSuccess(r.job) \in Row
    <3>1. row[r.job] \in Row
      BY <2>1 DEF TypeOK
    <3>2. NoRow \in Row /\ 0 \in 0..MaxAttempts
      BY LimitAssumption DEF NoRow, Row, Status
    <3>3. [row[r.job] EXCEPT !.due = FALSE, !.attempts = 0] \in Row
      BY <3>1, <3>2 DEF Row
    <3> QED BY <3>2, <3>3 DEF AfterSuccess
  <2> QED BY <1>5, <2>1, <2>2, LeaveType DEF RecordSuccess, TypeOK
<1>6. ASSUME NEW r \in runs[t], RecordSuccessFails(t, r)
      PROVE  TypeOK'
  BY <1>6, MoveType DEF RecordSuccessFails, TypeOK
<1>7. ASSUME NEW r \in runs[t], RecordFailure(t, r)
      PROVE  TypeOK'
  <2>1. r.job \in Job
    BY DEF TypeOK, Run
  <2>2. AfterFailure(r) \in Row
    <3>1. row[r.job] \in Row
      BY <2>1 DEF TypeOK
    <3> QED BY <3>1 DEF AfterFailure, Row, Status
  <2> QED BY <1>7, <2>1, <2>2, LeaveType DEF RecordFailure, TypeOK
<1>8. ASSUME NEW r \in runs[t], RecordFailureFails(t, r)
      PROVE  TypeOK'
  BY <1>8, LeaveType DEF RecordFailureFails, TypeOK
<1> QED BY <1>1, <1>2, <1>3, <1>4, <1>5, <1>6, <1>7, <1>8 DEF RunnerStep

\* JobQueue keeps its types: the table only ever holds rows with a status the
\* code knows and an attempt count in range, and every tick holds claims of them.
THEOREM TypeCorrect == Spec => []TypeOK
<1>1. Init => TypeOK
  BY LimitAssumption, TickAssumption DEF Init, TypeOK, NoRow, Row, Status, Phase
<1>2. TypeOK /\ [Next]_vars => TypeOK'
  <2> SUFFICES ASSUME TypeOK, [Next]_vars PROVE TypeOK'
    OBVIOUS
  <2>1. ASSUME NEW j \in Job, NEW due \in BOOLEAN, Enqueue(j, due)
        PROVE  TypeOK'
    BY <2>1, LimitAssumption DEF Enqueue, TypeOK, Row, Status, podVars, tickVars
  <2>2. ASSUME NEW j \in Job, RunAtPasses(j)
        PROVE  TypeOK'
    BY <2>2 DEF RunAtPasses, TypeOK, Row, podVars, tickVars
  <2>3. ASSUME NEW t \in Tick, TickStep(t)
        PROVE  TypeOK'
    BY <2>3, TickStepType
  <2>4. ASSUME NEW t \in Tick, RunnerStep(t)
        PROVE  TypeOK'
    BY <2>4, RunnerStepType
  <2>5. ASSUME NEW p \in Pod, NEW j \in Job, NEW completed \in BOOLEAN,
               OverrunEnds(p, j, completed)
        PROVE  TypeOK'
    BY <2>5 DEF OverrunEnds, TypeOK, tableVars, podVars, tickVars
  <2>6. ASSUME NEW p \in Pod, NEW v \in Release, Restart(p, v)
        PROVE  TypeOK'
    BY <2>6, LimitAssumption DEF Restart, TypeOK, tableVars, Phase
  <2>7. CASE UNCHANGED vars
    BY <2>7 DEF vars, TypeOK
  <2> QED BY <2>1, <2>2, <2>3, <2>4, <2>5, <2>6, <2>7 DEF Next
<1> QED BY <1>1, <1>2, PTL DEF Spec

-----------------------------------------------------------------------------
(* The inductive invariant behind the three promises about one-shot jobs.   *)
(* A settlement is not fenced, so it has to be safe whatever the row has    *)
(* become since the claim: what makes it so is what a runner already knows. *)

\* A claim of a one-shot job is of one that was enqueued, and the row, while it
\* exists, has been claimed at least as often as the claim says.
Backed(c) ==
    c.job \in OneShot =>
        /\ c.job \in enqueued
        /\ RowExists(c.job) => c.attempts <= row[c.job].attempts

ClaimsBacked == \A t \in Tick : \A c \in todo[t] : Backed(c)
RunsBacked == \A t \in Tick : \A r \in runs[t] : Backed(r)

\* A runner about to delete the row of a one-shot job has run its handler.
SuccessRan == \A t \in Tick : \A r \in runs[t] :
                 r.at = "succeeded" /\ r.job \in OneShot => r.job \in ran

RowsEnqueued == \A j \in OneShot : RowExists(j) => j \in enqueued

IInv ==
    /\ NoLostJob
    /\ ParksOnlyExhausted
    /\ ClaimsBacked
    /\ RunsBacked
    /\ SuccessRan
    /\ RowsEnqueued

\* A claim stays backed while the table of one-shot jobs only loses rows and
\* raises attempts.
LEMMA BackedStays ==
    ASSUME NEW c, Backed(c), enqueued \subseteq enqueued',
           c.job \in OneShot /\ RowExists(c.job)' =>
               RowExists(c.job) /\ row[c.job].attempts <= row'[c.job].attempts,
           c.job \in OneShot => row[c.job].attempts \in Int /\ row'[c.job].attempts \in Int,
           c.attempts \in Int
    PROVE  Backed(c)'
  BY DEF Backed

\* Steps that leave the table and the batches alone, or only drop claims.
LEMMA Untouched ==
    ASSUME IInv, UNCHANGED tableVars, ran \subseteq ran',
           \A t \in Tick : todo'[t] \subseteq todo[t] /\ runs'[t] \subseteq runs[t]
    PROVE  IInv'
<1>1. NoLostJob' /\ ParksOnlyExhausted' /\ RowsEnqueued'
  BY DEF IInv, NoLostJob, ParksOnlyExhausted, RowsEnqueued, RowExists, tableVars
<1>2. ASSUME NEW c PROVE Backed(c)' <=> Backed(c)
  BY DEF Backed, RowExists, tableVars
<1>3. ClaimsBacked' /\ RunsBacked' /\ SuccessRan'
  BY <1>2 DEF IInv, ClaimsBacked, RunsBacked, SuccessRan
<1> QED BY <1>1, <1>3 DEF IInv

\* Steps of a runner that move its row on without touching the table.
LEMMA Moved ==
    ASSUME TypeOK, IInv, UNCHANGED <<tableVars, todo>>, ran \subseteq ran',
           NEW t \in Tick, NEW r \in runs[t], NEW at \in {"succeeded", "failed"},
           Move(t, r, at), at = "succeeded" /\ r.job \in OneShot => r.job \in ran'
    PROVE  IInv'
<1> DEFINE s == [r EXCEPT !.at = at]
<1>1. NoLostJob' /\ ParksOnlyExhausted' /\ RowsEnqueued'
  BY DEF IInv, NoLostJob, ParksOnlyExhausted, RowsEnqueued, RowExists, tableVars
<1>2. ASSUME NEW c PROVE Backed(c)' <=> Backed(c)
  BY DEF Backed, RowExists, tableVars
<1>3. ClaimsBacked'
  BY <1>2 DEF IInv, ClaimsBacked
<1>4. s.job = r.job /\ s.attempts = r.attempts /\ s.at = at
  BY DEF TypeOK, Run
<1>5. \A u \in Tick : runs'[u] \subseteq runs[u] \cup (IF u = t THEN {s} ELSE {})
  BY DEF Move, TypeOK
<1>6. Backed(r) /\ (Backed(s) <=> Backed(r))
  BY <1>4 DEF IInv, RunsBacked, Backed
<1> HIDE DEF s
<1>7. RunsBacked'
  <2> SUFFICES ASSUME NEW u \in Tick, NEW x \in runs'[u] PROVE Backed(x)'
    BY DEF RunsBacked
  <2>1. CASE x \in runs[u]
    BY <2>1, <1>2 DEF IInv, RunsBacked
  <2>2. CASE x = s
    BY <2>2, <1>2, <1>6
  <2> QED BY <1>5, <2>1, <2>2
<1>8. SuccessRan'
  <2> SUFFICES ASSUME NEW u \in Tick, NEW x \in runs'[u],
                      x.at = "succeeded", x.job \in OneShot
               PROVE  x.job \in ran'
    BY DEF SuccessRan
  <2>1. CASE x \in runs[u]
    BY <2>1 DEF IInv, SuccessRan
  <2>2. CASE x = s
    BY <2>2, <1>4
  <2> QED BY <1>5, <2>1, <2>2
<1> QED BY <1>1, <1>3, <1>7, <1>8 DEF IInv

\* Steps that change the table only in rows that keep their status or go, and
\* that start no claim.
LEMMA Rewritten ==
    ASSUME TypeOK, TypeOK', IInv, enqueued' = enqueued, ran \subseteq ran',
           \A t \in Tick : todo'[t] \subseteq todo[t] /\ runs'[t] \subseteq runs[t],
           \A j \in OneShot : RowExists(j) =>
               \/ RowExists(j)' /\ row[j].attempts <= row'[j].attempts
               \/ ~RowExists(j)' /\ j \in ran',
           \A j \in OneShot : RowExists(j)' => RowExists(j),
           ParksOnlyExhausted'
    PROVE  IInv'
<1>1. NoLostJob'
  <2> SUFFICES ASSUME NEW j \in enqueued, ~RowExists(j)' PROVE j \in ran'
    BY DEF NoLostJob
  <2>1. j \in OneShot
    BY DEF TypeOK
  <2> QED BY <2>1 DEF IInv, NoLostJob
<1>2. RowsEnqueued'
  BY DEF IInv, RowsEnqueued
<1>3. ASSUME NEW c, c \in Claimed \/ c \in Run, Backed(c) PROVE Backed(c)'
  <2>1. c.job \in Job /\ c.attempts \in Int
    BY <1>3, LimitAssumption DEF Claimed, Run
  <2>2. row[c.job].attempts \in Int /\ row'[c.job].attempts \in Int
    BY <2>1, LimitAssumption DEF TypeOK, Row
  <2> QED BY <1>3, <2>1, <2>2, BackedStays
<1>4. ClaimsBacked'
  <2> SUFFICES ASSUME NEW t \in Tick, NEW c \in todo'[t] PROVE Backed(c)'
    BY DEF ClaimsBacked
  <2>1. c \in todo[t] /\ c \in Claimed /\ Backed(c)
    BY DEF TypeOK, IInv, ClaimsBacked
  <2> QED BY <2>1, <1>3
<1>5. RunsBacked'
  <2> SUFFICES ASSUME NEW t \in Tick, NEW c \in runs'[t] PROVE Backed(c)'
    BY DEF RunsBacked
  <2>1. c \in runs[t] /\ c \in Run /\ Backed(c)
    BY DEF TypeOK, IInv, RunsBacked
  <2> QED BY <2>1, <1>3
<1>6. SuccessRan'
  BY DEF IInv, SuccessRan
<1> QED BY <1>1, <1>2, <1>4, <1>5, <1>6 DEF IInv

\* A claim backs the claims it hands out.
LEMMA ClaimKeeps ==
    ASSUME TypeOK, TypeOK', IInv, NEW t \in Tick, NEW S \in SUBSET Job, Claim(t, S)
    PROVE  IInv'
<1> DEFINE bumped(j) == Lesser(row[j].attempts + 1, MaxAttempts)
<1>1. /\ row' = [j \in Job |->
                   IF j \in S THEN [row[j] EXCEPT !.attempts = bumped(j), !.due = FALSE]
                   ELSE row[j]]
      /\ todo' = [todo EXCEPT ![t] = {[job |-> j, attempts |-> bumped(j)] : j \in S}]
      /\ S \subseteq Due(PodOf[t])
      /\ enqueued' = enqueued /\ ran' = ran /\ runs' = runs
  BY DEF Claim
<1>2. \A j \in Job : /\ row[j].attempts \in 0..MaxAttempts
                     /\ row[j].attempts <= bumped(j)
                     /\ bumped(j) \in 1..MaxAttempts
  <2> SUFFICES ASSUME NEW j \in Job
               PROVE  /\ row[j].attempts \in 0..MaxAttempts
                      /\ row[j].attempts <= bumped(j)
                      /\ bumped(j) \in 1..MaxAttempts
    OBVIOUS
  <2>1. row[j].attempts \in 0..MaxAttempts
    BY DEF TypeOK, Row
  <2> QED BY <2>1, LimitAssumption DEF Lesser
<1> HIDE DEF bumped
<1>3. \A j \in Job : /\ row'[j].status = row[j].status
                     /\ row[j].attempts <= row'[j].attempts
                     /\ j \in S => row'[j].attempts = bumped(j)
                     /\ j \notin S => row'[j] = row[j]
  <2> SUFFICES ASSUME NEW j \in Job
               PROVE  /\ row'[j].status = row[j].status
                      /\ row[j].attempts <= row'[j].attempts
                      /\ j \in S => row'[j].attempts = bumped(j)
                      /\ j \notin S => row'[j] = row[j]
    OBVIOUS
  <2>1. row[j] \in Row
    BY DEF TypeOK
  <2>2. CASE j \in S
    BY <1>1, <1>2, <2>1, <2>2 DEF Row
  <2>3. CASE j \notin S
    <3>1. row'[j] = row[j]
      BY <1>1, <2>3
    <3> QED BY <1>2, <2>3, <3>1
  <2> QED BY <2>2, <2>3
<1>4. \A j \in Job : RowExists(j)' <=> RowExists(j)
  BY <1>3 DEF RowExists
<1>5. NoLostJob' /\ RowsEnqueued'
  <2>1. enqueued \subseteq Job
    BY DEF TypeOK, Job
  <2> QED BY <1>1, <1>4, <2>1 DEF IInv, NoLostJob, RowsEnqueued, Job
<1>6. ParksOnlyExhausted'
  <2> SUFFICES ASSUME NEW j \in Job, row'[j].status = "failed"
               PROVE  j \in OneShot /\ row'[j].attempts = MaxAttempts
    BY DEF ParksOnlyExhausted
  <2>1. row[j].status = "failed"
    BY <1>3
  <2>2. j \notin S
    BY <1>1, <2>1 DEF Due
  <2> QED BY <1>3, <2>1, <2>2 DEF IInv, ParksOnlyExhausted
<1>7. ASSUME NEW c, c \in Claimed \/ c \in Run, Backed(c) PROVE Backed(c)'
  <2>1. c.job \in Job /\ c.attempts \in Int
    BY <1>7, LimitAssumption DEF Claimed, Run
  <2>2. row[c.job].attempts \in Int /\ row'[c.job].attempts \in Int
    BY <2>1, LimitAssumption DEF TypeOK, Row
  <2> QED BY <1>7, <1>1, <1>3, <1>4, <2>1, <2>2, BackedStays
<1>8. ASSUME NEW c, NEW j \in S, c = [job |-> j, attempts |-> bumped(j)]
      PROVE  Backed(c)'
  <2>1. RowExists(j)
    BY <1>1 DEF Due, RowExists
  <2>2. row'[j].attempts = bumped(j) /\ bumped(j) \in Int
    BY <1>2, <1>3
  <2>3. j \in OneShot => j \in enqueued'
    BY <1>1, <2>1 DEF IInv, RowsEnqueued
  <2>4. c.job = j /\ c.attempts = bumped(j)
    BY <1>8
  <2> QED BY <2>2, <2>3, <2>4 DEF Backed
<1>9. ClaimsBacked'
  <2> SUFFICES ASSUME NEW u \in Tick, NEW c \in todo'[u] PROVE Backed(c)'
    BY DEF ClaimsBacked
  <2>1. CASE u = t
    <3>1. PICK j \in S : c = [job |-> j, attempts |-> bumped(j)]
      BY <1>1, <2>1 DEF TypeOK
    <3> QED BY <3>1, <1>8
  <2>2. CASE u # t
    <3>1. c \in todo[u] /\ c \in Claimed /\ Backed(c)
      BY <1>1, <2>2 DEF TypeOK, IInv, ClaimsBacked
    <3> QED BY <3>1, <1>7
  <2> QED BY <2>1, <2>2
<1>10. RunsBacked' /\ SuccessRan'
  <2>1. ASSUME NEW u \in Tick, NEW c \in runs'[u] PROVE Backed(c)'
    <3>1. c \in Run /\ Backed(c)
      BY <1>1 DEF TypeOK, IInv, RunsBacked
    <3> QED BY <3>1, <1>7
  <2> QED BY <1>1, <2>1 DEF IInv, RunsBacked, SuccessRan
<1> QED BY <1>5, <1>6, <1>9, <1>10 DEF IInv

\* Starting a claimed row keeps it backed.
LEMMA StartKeeps ==
    ASSUME TypeOK, IInv, NEW t \in Tick, NEW c \in todo[t], StartJob(t, c)
    PROVE  IInv'
<1> DEFINE s == [job |-> c.job, attempts |-> c.attempts, at |-> "handler"]
<1>1. UNCHANGED <<row, enqueued, ran>> /\ \A u \in Tick : todo'[u] \subseteq todo[u]
  BY DEF StartJob, tableVars, TypeOK
<1>2. \A u \in Tick : runs'[u] \subseteq runs[u] \cup (IF u = t THEN {s} ELSE {})
  BY DEF StartJob, TypeOK
<1>3. ASSUME NEW x PROVE Backed(x)' <=> Backed(x)
  BY <1>1 DEF Backed, RowExists
<1>4. Backed(s) /\ s.at # "succeeded"
  BY DEF IInv, ClaimsBacked, Backed
<1> HIDE DEF s
<1>5. NoLostJob' /\ ParksOnlyExhausted' /\ RowsEnqueued'
  BY <1>1 DEF IInv, NoLostJob, ParksOnlyExhausted, RowsEnqueued, RowExists
<1>6. ClaimsBacked'
  BY <1>1, <1>3 DEF IInv, ClaimsBacked
<1>7. ASSUME NEW u \in Tick, NEW x \in runs'[u]
      PROVE  Backed(x)' /\ (x.at = "succeeded" /\ x.job \in OneShot => x.job \in ran')
  <2>1. CASE x \in runs[u]
    BY <1>1, <1>3, <2>1 DEF IInv, RunsBacked, SuccessRan
  <2>2. CASE x = s
    BY <1>3, <1>4, <2>2
  <2> QED BY <1>2, <2>1, <2>2
<1> QED BY <1>5, <1>6, <1>7 DEF IInv, RunsBacked, SuccessRan

\* Synchronising schedules leaves one-shot rows alone and parks nothing.
LEMMA SyncedKeeps ==
    ASSUME TypeOK, TypeOK', IInv, NEW v \in Release, NEW K \in SUBSET Kind,
           row' = Synced(v, K), UNCHANGED <<enqueued, ran, todo, runs>>
    PROVE  IInv'
<1>1. Schedules[v] \subseteq Kind /\ Handles[v] \subseteq Kind
  BY ReleaseAssumption
<1>2. \A j \in OneShot : row'[j] = row[j]
  BY <1>1, KindAssumption DEF Synced, Seeded, Retired, Job
<1>3. ParksOnlyExhausted'
  <2> SUFFICES ASSUME NEW j \in Job, row'[j].status = "failed"
               PROVE  j \in OneShot /\ row'[j].attempts = MaxAttempts
    BY DEF ParksOnlyExhausted
  <2>1. row'[j] = row[j]
    BY DEF Synced, NoRow
  <2> QED BY <2>1 DEF IInv, ParksOnlyExhausted
<1>4. \A j \in OneShot : row[j].attempts <= row[j].attempts
  BY LimitAssumption DEF TypeOK, Row, Job
<1>5. \A t \in Tick : todo'[t] = todo[t] /\ runs'[t] = runs[t]
  OBVIOUS
<1>6. \A j \in OneShot : /\ row'[j].attempts = row[j].attempts
                         /\ RowExists(j)' <=> RowExists(j)
  BY <1>2 DEF RowExists
<1> QED BY <1>3, <1>4, <1>5, <1>6, Rewritten

\* Every step of a tick keeps the inductive invariant.
LEMMA TickStepKeeps ==
    ASSUME TypeOK, TypeOK', IInv, NEW t \in Tick, TickStep(t)
    PROVE  IInv'
<1>0. release[PodOf[t]] \in Release
  BY TickAssumption DEF TypeOK
<1>1. CASE \/ StartTick(t) \/ ReserveSlots(t) \/ NothingToReserve(t)
           \/ FinishTick(t) \/ BudgetExpires(t)
  <2>1. UNCHANGED <<tableVars, ran, todo, runs>>
    BY <1>1 DEF StartTick, ReserveSlots, NothingToReserve, FinishTick,
                BudgetExpires, tickVars
  <2> QED BY <2>1, Untouched
<1>2. CASE Maintain(t)
  BY <1>0, <1>2, SyncedKeeps DEF Maintain
<1>3. CASE \E S \in SUBSET Job : Claim(t, S)
  BY <1>3, ClaimKeeps
<1>4. CASE TickFails(t)
  <2>1. UNCHANGED <<enqueued, ran, todo, runs>>
    BY <1>4 DEF TickFails
  <2>2. CASE UNCHANGED row
    BY <2>1, <2>2, Untouched DEF tableVars
  <2> QED BY <1>0, <1>4, <2>1, <2>2, SyncedKeeps DEF TickFails
<1> QED BY <1>1, <1>2, <1>3, <1>4 DEF TickStep

\* Every step of a runner keeps the inductive invariant.
LEMMA RunnerStepKeeps ==
    ASSUME TypeOK, TypeOK', IInv, NEW t \in Tick, RunnerStep(t)
    PROVE  IInv'
<1>1. CASE \E c \in todo[t] : StartJob(t, c)
  BY <1>1, StartKeeps
<1>2. ASSUME NEW r \in runs[t], HandlerReturns(t, r)
      PROVE  IInv'
  <2>1. ran \subseteq ran' /\ (r.job \in OneShot => r.job \in ran')
    BY <1>2 DEF HandlerReturns
  <2> QED BY <1>2, <2>1, Moved DEF HandlerReturns
<1>3. ASSUME NEW r \in runs[t],
             HandlerThrows(t, r) \/ HandlerTimesOut(t, r) \/ RecordSuccessFails(t, r)
      PROVE  IInv'
  <2>1. /\ Move(t, r, "failed")
        /\ UNCHANGED <<tableVars, ran, todo>>
    BY <1>3 DEF HandlerThrows, HandlerTimesOut, RecordSuccessFails
  <2> QED BY <2>1, Moved
<1>4. ASSUME NEW r \in runs[t], RecordSuccess(t, r)
      PROVE  IInv'
  <2>0. PICK j : j = r.job
    OBVIOUS
  <2>1. r \in Run /\ j \in Job /\ r.at = "succeeded"
    BY <1>4, <2>0 DEF RecordSuccess, TypeOK, Run
  <2>2. j \in OneShot => j \in ran
    BY <2>0, <2>1 DEF IInv, SuccessRan
  <2>3. /\ row' = IF RowExists(j) THEN [row EXCEPT ![j] = AfterSuccess(j)] ELSE row
        /\ UNCHANGED <<enqueued, ran, todo>>
        /\ \A u \in Tick : runs'[u] \subseteq runs[u]
    BY <1>4, <2>0 DEF RecordSuccess, Leave, TypeOK
  <2>4. \A i \in Job : i # j => row'[i] = row[i]
    BY <2>3 DEF TypeOK
  <2>5. j \in OneShot =>
            \/ ~RowExists(j) /\ row'[j] = row[j]
            \/ ~RowExists(j)' /\ j \in ran'
    BY <2>1, <2>2, <2>3 DEF AfterSuccess, RowExists, TypeOK, NoRow
  <2>6. j \notin OneShot => row'[j].status = row[j].status
    BY <2>1, <2>3 DEF AfterSuccess, TypeOK, Row
  <2>7. \A i \in OneShot : row[i].attempts <= row[i].attempts /\ i \in Job
    BY LimitAssumption DEF TypeOK, Row, Job
  <2>8. ParksOnlyExhausted'
    <3> SUFFICES ASSUME NEW i \in Job, row'[i].status = "failed"
                 PROVE  i \in OneShot /\ row'[i].attempts = MaxAttempts
      BY DEF ParksOnlyExhausted
    <3>1. CASE i # j
      BY <3>1, <2>4 DEF IInv, ParksOnlyExhausted
    <3>2. CASE i = j /\ j \in OneShot
      <4>1. RowExists(j)'
        BY <3>2 DEF RowExists
      <4> QED BY <3>2, <4>1, <2>5 DEF IInv, ParksOnlyExhausted
    <3>3. CASE i = j /\ j \notin OneShot
      BY <3>3, <2>6 DEF IInv, ParksOnlyExhausted
    <3> QED BY <3>1, <3>2, <3>3
  <2>9. \A i \in OneShot :
            /\ RowExists(i) => \/ RowExists(i)' /\ row[i].attempts <= row'[i].attempts
                               \/ ~RowExists(i)' /\ i \in ran'
            /\ RowExists(i)' => RowExists(i)
    BY <2>4, <2>5, <2>7 DEF RowExists
  <2> QED BY <2>3, <2>8, <2>9, Rewritten
<1>5. ASSUME NEW r \in runs[t], RecordFailure(t, r)
      PROVE  IInv'
  <2>0. PICK j : j = r.job
    OBVIOUS
  <2>1. r \in Run /\ j \in Job /\ Backed(r)
    BY <2>0 DEF TypeOK, Run, IInv, RunsBacked
  <2>2. /\ row' = IF RowExists(j) THEN [row EXCEPT ![j] = AfterFailure(r)] ELSE row
        /\ UNCHANGED <<enqueued, ran, todo>>
        /\ \A u \in Tick : runs'[u] \subseteq runs[u]
    BY <1>5, <2>0 DEF RecordFailure, Leave, TypeOK
  <2>3. \A i \in Job : i # j => row'[i] = row[i]
    BY <2>2 DEF TypeOK
  <2>4. row[j] \in Row
    BY <2>1 DEF TypeOK
  <2>5. /\ row'[j].attempts = row[j].attempts
        /\ RowExists(j)' <=> RowExists(j)
        /\ row'[j].status = "failed" => row[j].status = "failed" \/ (RowExists(j) /\ Exhausted(r))
    <3>1. CASE RowExists(j)
      <4>1. row'[j] = IF Exhausted(r) THEN [row[j] EXCEPT !.status = "failed"]
                      ELSE [row[j] EXCEPT !.due = FALSE]
        BY <2>0, <2>1, <2>2, <3>1 DEF AfterFailure, TypeOK
      <4> QED BY <3>1, <2>4, <4>1 DEF RowExists, Row
    <3>2. CASE ~RowExists(j)
      BY <2>2, <3>2 DEF RowExists
    <3> QED BY <3>1, <3>2
  <2>6. RowExists(j) /\ Exhausted(r) => j \in OneShot /\ row[j].attempts = MaxAttempts
    BY <2>0, <2>1, <2>4, LimitAssumption DEF Exhausted, Backed, Run, Row
  <2>7. \A i \in OneShot : row[i].attempts <= row[i].attempts /\ i \in Job
    BY LimitAssumption DEF TypeOK, Row, Job
  <2>8. ParksOnlyExhausted'
    <3> SUFFICES ASSUME NEW i \in Job, row'[i].status = "failed"
                 PROVE  i \in OneShot /\ row'[i].attempts = MaxAttempts
      BY DEF ParksOnlyExhausted
    <3>1. CASE i = j
      BY <3>1, <2>5, <2>6 DEF IInv, ParksOnlyExhausted
    <3>2. CASE i # j
      BY <3>2, <2>3 DEF IInv, ParksOnlyExhausted
    <3> QED BY <3>1, <3>2
  <2>9. \A i \in OneShot :
            /\ RowExists(i) => RowExists(i)' /\ row[i].attempts <= row'[i].attempts
            /\ RowExists(i)' => RowExists(i)
    BY <2>3, <2>5, <2>7 DEF RowExists
  <2> QED BY <2>2, <2>8, <2>9, Rewritten
<1>6. ASSUME NEW r \in runs[t], RecordFailureFails(t, r)
      PROVE  IInv'
  <2>1. UNCHANGED <<tableVars, ran, todo>> /\ \A u \in Tick : runs'[u] \subseteq runs[u]
    BY <1>6 DEF RecordFailureFails, Leave, TypeOK
  <2> QED BY <2>1, Untouched
<1> QED BY <1>1, <1>2, <1>3, <1>4, <1>5, <1>6 DEF RunnerStep

\* Every step of the system keeps it.
LEMMA NextKeeps ==
    ASSUME TypeOK, TypeOK', IInv, [Next]_vars
    PROVE  IInv'
<1>1. ASSUME NEW j \in Job, NEW due \in BOOLEAN, Enqueue(j, due)
      PROVE  IInv'
  <2>1. /\ j \in OneShot \ enqueued
        /\ row' = [row EXCEPT ![j] = [status |-> "pending", due |-> due, attempts |-> 0]]
        /\ enqueued' = enqueued \cup {j}
        /\ UNCHANGED <<ran, todo, runs>>
    BY <1>1 DEF Enqueue, tickVars
  <2>2. row'[j].status = "pending" /\ \A i \in Job : i # j => row'[i] = row[i]
    BY <2>1 DEF TypeOK
  <2>3. NoLostJob' /\ ParksOnlyExhausted' /\ RowsEnqueued'
    BY <2>1, <2>2 DEF IInv, NoLostJob, ParksOnlyExhausted, RowsEnqueued, RowExists, TypeOK, Job
  <2>4. ASSUME NEW c, c.job \in Job, Backed(c)
        PROVE  Backed(c)'
    BY <2>1, <2>2, <2>4 DEF Backed, RowExists
  <2>5. ClaimsBacked' /\ RunsBacked' /\ SuccessRan'
    <3>1. \A t \in Tick : /\ \A c \in todo[t] : c.job \in Job
                          /\ \A r \in runs[t] : r.job \in Job
      BY DEF TypeOK, Claimed, Run
    <3> QED BY <2>1, <2>4, <3>1 DEF IInv, ClaimsBacked, RunsBacked, SuccessRan
  <2> QED BY <2>3, <2>5 DEF IInv
<1>2. ASSUME NEW j \in Job, RunAtPasses(j)
      PROVE  IInv'
  <2>1. \A i \in Job : /\ row'[i].status = row[i].status
                       /\ row'[i].attempts = row[i].attempts
    BY <1>2 DEF RunAtPasses, TypeOK, Row
  <2>2. UNCHANGED <<enqueued, ran, todo, runs>>
    BY <1>2 DEF RunAtPasses, tickVars
  <2>3. ParksOnlyExhausted'
    BY <2>1 DEF IInv, ParksOnlyExhausted
  <2>4. \A i \in OneShot : i \in Job /\ row[i].attempts <= row[i].attempts
    BY LimitAssumption DEF TypeOK, Row, Job
  <2> QED BY <2>1, <2>2, <2>3, <2>4, Rewritten DEF RowExists
<1>3. ASSUME NEW t \in Tick, TickStep(t)
      PROVE  IInv'
  BY <1>3, TickStepKeeps
<1>4. ASSUME NEW t \in Tick, RunnerStep(t)
      PROVE  IInv'
  BY <1>4, RunnerStepKeeps
<1>5. ASSUME NEW p \in Pod, NEW j \in Job, NEW completed \in BOOLEAN,
             OverrunEnds(p, j, completed)
      PROVE  IInv'
  <2>1. UNCHANGED <<tableVars, todo, runs>> /\ ran \subseteq ran'
    BY <1>5 DEF OverrunEnds, tickVars
  <2> QED BY <2>1, Untouched
<1>6. ASSUME NEW p \in Pod, NEW v \in Release, Restart(p, v)
      PROVE  IInv'
  <2>1. UNCHANGED <<tableVars, ran>>
    BY <1>6 DEF Restart
  <2>2. \A t \in Tick : todo'[t] \subseteq todo[t] /\ runs'[t] \subseteq runs[t]
    BY <1>6 DEF Restart
  <2> QED BY <2>1, <2>2, Untouched
<1>7. CASE UNCHANGED vars
  BY <1>7, Untouched DEF vars, tableVars
<1> QED BY <1>1, <1>2, <1>3, <1>4, <1>5, <1>6, <1>7 DEF Next

\* The inductive invariant: every claim and every run in memory is backed by its
\* row or by work already done.
THEOREM Invariance == Spec => []IInv
<1>1. Init => IInv
  <2> SUFFICES ASSUME Init PROVE IInv
    OBVIOUS
  <2>1. \A j \in Job : row[j].status = "none"
    BY DEF Init, NoRow
  <2>2. enqueued = {} /\ \A t \in Tick : todo[t] = {} /\ runs[t] = {}
    BY DEF Init
  <2>3. NoLostJob /\ ParksOnlyExhausted /\ RowsEnqueued
    BY <2>1, <2>2 DEF NoLostJob, ParksOnlyExhausted, RowsEnqueued, RowExists, Job
  <2>4. ClaimsBacked /\ RunsBacked /\ SuccessRan
    BY <2>2 DEF ClaimsBacked, RunsBacked, SuccessRan
  <2> QED BY <2>3, <2>4 DEF IInv
<1>2. TypeOK /\ TypeOK' /\ IInv /\ [Next]_vars => IInv'
  BY NextKeeps
<1> QED BY <1>1, <1>2, TypeCorrect, PTL DEF Spec

\* At least once: a one-shot job whose row is gone has run, for any number of
\* pods and any order of claims, lapses, crashes and late settlements.
THEOREM AtLeastOnce == Spec => []NoLostJob
<1>1. IInv => NoLostJob
  BY DEF IInv
<1> QED BY <1>1, Invariance, PTL

\* Only a one-shot job claimed MAX_ATTEMPTS times is ever parked.
THEOREM ParkedAreExhausted == Spec => []ParksOnlyExhausted
<1>1. IInv => ParksOnlyExhausted
  BY DEF IInv
<1> QED BY <1>1, Invariance, PTL

\* No late settlement revives a parked row.
THEOREM ParkedRowsStay == Spec => ParkedStaysParked
<1> DEFINE A == \A j \in Job : row[j].status = "failed" =>
                    row'[j].status = "failed" \/ (row'[j].status = "none" /\ j \in ran')
<1>1. TypeOK /\ IInv /\ [Next]_vars => [A]_vars
  <2> SUFFICES ASSUME TypeOK, IInv, Next, NEW j \in Job, row[j].status = "failed"
               PROVE  row'[j].status = "failed" \/ (row'[j].status = "none" /\ j \in ran')
    OBVIOUS
  <2>1. j \in OneShot /\ j \in enqueued /\ j \notin Kind
    BY KindAssumption DEF IInv, ParksOnlyExhausted, RowsEnqueued, RowExists
  <2>2. ASSUME row' = row PROVE row'[j].status = "failed"
    BY <2>2
  <2>3. ASSUME NEW i \in Job, NEW due \in BOOLEAN, Enqueue(i, due)
        PROVE  row'[j].status = "failed"
    BY <2>1, <2>3 DEF Enqueue, TypeOK
  <2>4. ASSUME NEW i \in Job, RunAtPasses(i)
        PROVE  row'[j].status = "failed"
    BY <2>4 DEF RunAtPasses, TypeOK
  <2>5. ASSUME NEW t \in Tick, TickStep(t)
        PROVE  row'[j].status = "failed"
    <3>1. CASE Maintain(t) \/ TickFails(t)
      <4>1. row' = row \/ \E K \in SUBSET Kind : row' = Synced(release[PodOf[t]], K)
        BY <3>1 DEF Maintain, TickFails
      <4>2. ASSUME NEW K \in SUBSET Kind
            PROVE  Synced(release[PodOf[t]], K)[j] = row[j]
        BY <2>1 DEF Synced
      <4> QED BY <2>2, <4>1, <4>2
    <3>2. CASE \E S \in SUBSET Job : Claim(t, S)
      BY <3>2 DEF Claim, Due
    <3>3. CASE \/ StartTick(t) \/ ReserveSlots(t) \/ NothingToReserve(t)
               \/ FinishTick(t) \/ BudgetExpires(t)
      BY <3>3, <2>2 DEF StartTick, ReserveSlots, NothingToReserve, FinishTick,
                        BudgetExpires, tableVars
    <3> QED BY <2>5, <3>1, <3>2, <3>3 DEF TickStep
  <2>6. ASSUME NEW t \in Tick, RunnerStep(t)
        PROVE  row'[j].status = "failed" \/ (row'[j].status = "none" /\ j \in ran')
    <3>1. ASSUME NEW r \in runs[t], RecordSuccess(t, r)
          PROVE  row'[j].status = "failed" \/ (row'[j].status = "none" /\ j \in ran')
      <4>1. CASE r.job = j
        <5>1. j \in ran'
          BY <2>1, <3>1, <4>1 DEF RecordSuccess, IInv, SuccessRan
        <5>2. row' = [row EXCEPT ![j] = NoRow]
          BY <2>1, <3>1, <4>1 DEF RecordSuccess, AfterSuccess, RowExists
        <5> QED BY <5>1, <5>2 DEF NoRow, TypeOK
      <4>2. CASE r.job # j
        BY <3>1, <4>2 DEF RecordSuccess, TypeOK
      <4> QED BY <4>1, <4>2
    <3>2. ASSUME NEW r \in runs[t], RecordFailure(t, r)
          PROVE  row'[j].status = "failed"
      <4>1. row[j] \in Row
        BY DEF TypeOK
      <4> QED BY <3>2, <4>1 DEF RecordFailure, AfterFailure, TypeOK, Row
    <3>3. CASE row' = row
      BY <3>3, <2>2
    <3> QED BY <2>6, <3>1, <3>2, <3>3
            DEF RunnerStep, StartJob, HandlerReturns, HandlerThrows, HandlerTimesOut,
                RecordSuccessFails, RecordFailureFails, tableVars
  <2> QED BY <2>2, <2>3, <2>4, <2>5, <2>6 DEF Next, OverrunEnds, Restart, tableVars
<1> QED BY <1>1, TypeCorrect, Invariance, PTL DEF Spec, ParkedStaysParked

-----------------------------------------------------------------------------
(* The refinement: JobQueue implements JobPromise, for every value of the   *)
(* constants.                                                               *)

\* What the steps of the promise need to know besides IInv: a handler left
\* running is of a job that was enqueued, and a row that is gone counts nothing.
OverrunsEnqueued == \A p \in Pod : \A j \in overrun[p] : j \in OneShot => j \in enqueued
GoneCountNothing == \A j \in OneShot : ~RowExists(j) => row[j].attempts = 0

\* Synchronising schedules does not touch one-shot rows.
LEMMA SyncedOneShot ==
    ASSUME NEW v \in Release, NEW K \in SUBSET Kind, NEW j \in OneShot
    PROVE  Synced(v, K)[j] = row[j]
<1>1. j \notin Kind /\ j \notin Handles[v] /\ j \notin Schedules[v] /\ j \in Job
  BY KindAssumption, ReleaseAssumption DEF Job
<1> QED BY <1>1 DEF Synced, Seeded, Retired

\* A step of a tick leaves one-shot rows alone, or is a claim.
LEMMA TickStepRows ==
    ASSUME TypeOK, NEW t \in Tick, TickStep(t)
    PROVE  /\ UNCHANGED <<enqueued, ran, overrun>>
           /\ \/ \A j \in OneShot : row'[j] = row[j]
              \/ \E S \in SUBSET Job : Claim(t, S)
<1>0. release[PodOf[t]] \in Release
  BY TickAssumption DEF TypeOK
<1>1. CASE \/ StartTick(t) \/ ReserveSlots(t) \/ NothingToReserve(t)
           \/ FinishTick(t) \/ BudgetExpires(t)
  BY <1>1 DEF StartTick, ReserveSlots, NothingToReserve, FinishTick, BudgetExpires, tableVars
<1>2. CASE Maintain(t)
  BY <1>0, <1>2, SyncedOneShot DEF Maintain
<1>3. CASE TickFails(t)
  BY <1>0, <1>3, SyncedOneShot DEF TickFails
<1>4. CASE \E S \in SUBSET Job : Claim(t, S)
  BY <1>4 DEF Claim
<1> QED BY <1>1, <1>2, <1>3, <1>4 DEF TickStep

\* Every row, and so every one-shot one, has a status and a count.
LEMMA OneShotRow ==
    ASSUME TypeOK, NEW j \in OneShot
    PROVE  /\ j \in Job /\ row[j] \in Row
           /\ row[j].status \in {"none", "pending", "failed"}
           /\ row[j].attempts \in 0..MaxAttempts
  BY DEF TypeOK, Job, Row, Status

\* The auxiliary invariant.
LEMMA AuxiliaryKeeps ==
    ASSUME TypeOK, IInv, OverrunsEnqueued, GoneCountNothing, [Next]_vars
    PROVE  OverrunsEnqueued' /\ GoneCountNothing'
<1>1. ASSUME UNCHANGED <<overrun, enqueued>> PROVE OverrunsEnqueued'
  BY <1>1 DEF OverrunsEnqueued
<1>2. ASSUME \A j \in OneShot : row'[j] = row[j] PROVE GoneCountNothing'
  BY <1>2 DEF GoneCountNothing, RowExists
<1>3. ASSUME NEW j \in Job, NEW due \in BOOLEAN, Enqueue(j, due)
      PROVE  OverrunsEnqueued' /\ GoneCountNothing'
  <2>1. OverrunsEnqueued'
    BY <1>3 DEF Enqueue, OverrunsEnqueued
  <2>2. GoneCountNothing'
    BY <1>3, OneShotRow DEF Enqueue, GoneCountNothing, RowExists, TypeOK
  <2> QED BY <2>1, <2>2
<1>4. ASSUME NEW j \in Job, RunAtPasses(j)
      PROVE  OverrunsEnqueued' /\ GoneCountNothing'
  <2>1. GoneCountNothing'
    BY <1>4, OneShotRow DEF RunAtPasses, GoneCountNothing, RowExists, TypeOK, Row
  <2> QED BY <1>1, <1>4, <2>1 DEF RunAtPasses
<1>5. ASSUME NEW t \in Tick, TickStep(t)
      PROVE  OverrunsEnqueued' /\ GoneCountNothing'
  <2>1. CASE \E S \in SUBSET Job : Claim(t, S)
    <3>1. PICK S \in SUBSET Job : Claim(t, S)
      BY <2>1
    <3>2. ASSUME NEW j \in OneShot, ~RowExists(j)' PROVE row'[j].attempts = 0
      <4>1. CASE j \in S
        <5>1. row[j].status = "pending" /\ row'[j].status = row[j].status
          BY <3>1, <4>1, OneShotRow DEF Claim, Due, Row
        <5> QED BY <3>2, <5>1 DEF RowExists
      <4>2. CASE j \notin S
        BY <3>1, <3>2, <4>2, OneShotRow DEF Claim, GoneCountNothing, RowExists
      <4> QED BY <4>1, <4>2
    <3>3. GoneCountNothing'
      BY <3>2 DEF GoneCountNothing
    <3> QED BY <1>1, <3>1, <3>3 DEF Claim
  <2> QED BY <1>1, <1>2, <1>5, <2>1, TickStepRows
<1>6. ASSUME NEW t \in Tick, RunnerStep(t)
      PROVE  OverrunsEnqueued' /\ GoneCountNothing'
  <2>1. ASSUME NEW r \in runs[t], HandlerTimesOut(t, r)
        PROVE  OverrunsEnqueued' /\ GoneCountNothing'
    <3>1. r.job \in OneShot => r.job \in enqueued
      BY DEF IInv, RunsBacked, Backed
    <3>2. OverrunsEnqueued'
      BY <2>1, <3>1 DEF HandlerTimesOut, OverrunsEnqueued, TypeOK, tableVars
    <3> QED BY <1>2, <2>1, <3>2 DEF HandlerTimesOut, tableVars
  <2>2. ASSUME NEW r \in runs[t], RecordSuccess(t, r)
        PROVE  OverrunsEnqueued' /\ GoneCountNothing'
    <3>1. GoneCountNothing'
      <4> SUFFICES ASSUME NEW j \in OneShot, ~RowExists(j)' PROVE row'[j].attempts = 0
        BY DEF GoneCountNothing
      <4> QED BY <2>2, OneShotRow
              DEF RecordSuccess, AfterSuccess, NoRow, GoneCountNothing, RowExists, TypeOK
    <3> QED BY <1>1, <2>2, <3>1 DEF RecordSuccess
  <2>3. ASSUME NEW r \in runs[t], RecordFailure(t, r)
        PROVE  OverrunsEnqueued' /\ GoneCountNothing'
    <3>1. GoneCountNothing'
      <4> SUFFICES ASSUME NEW j \in OneShot, ~RowExists(j)' PROVE row'[j].attempts = 0
        BY DEF GoneCountNothing
      <4> QED BY <2>3, OneShotRow
              DEF RecordFailure, AfterFailure, GoneCountNothing, RowExists, TypeOK, Row
    <3> QED BY <1>1, <2>3, <3>1 DEF RecordFailure
  <2>4. CASE UNCHANGED <<tableVars, overrun>>
    BY <1>1, <1>2, <2>4 DEF tableVars
  <2> QED BY <1>6, <2>1, <2>2, <2>3, <2>4
          DEF RunnerStep, StartJob, HandlerReturns, HandlerThrows, RecordSuccessFails,
              RecordFailureFails
<1>7. ASSUME NEW p \in Pod, NEW j \in Job, NEW completed \in BOOLEAN,
             OverrunEnds(p, j, completed)
      PROVE  OverrunsEnqueued' /\ GoneCountNothing'
  <2>1. OverrunsEnqueued'
    BY <1>7 DEF OverrunEnds, OverrunsEnqueued, TypeOK, tableVars
  <2> QED BY <1>2, <1>7, <2>1 DEF OverrunEnds, tableVars
<1>8. ASSUME NEW p \in Pod, NEW v \in Release, Restart(p, v)
      PROVE  OverrunsEnqueued' /\ GoneCountNothing'
  <2>1. OverrunsEnqueued'
    BY <1>8 DEF Restart, OverrunsEnqueued, TypeOK, tableVars
  <2> QED BY <1>2, <1>8, <2>1 DEF Restart, tableVars
<1>9. CASE UNCHANGED vars
  BY <1>1, <1>2, <1>9 DEF vars
<1> QED BY <1>3, <1>4, <1>5, <1>6, <1>7, <1>8, <1>9 DEF Next

\* A handler that still runs after its timeout is of a job that was enqueued,
\* and what is left of a row that is gone counts no attempts.
THEOREM Auxiliary == Spec => [](OverrunsEnqueued /\ GoneCountNothing)
<1>1. Init => OverrunsEnqueued /\ GoneCountNothing
  BY DEF Init, OverrunsEnqueued, GoneCountNothing, NoRow, Job
<1>2. TypeOK /\ IInv /\ OverrunsEnqueued /\ GoneCountNothing /\ [Next]_vars
          => OverrunsEnqueued' /\ GoneCountNothing'
  BY AuxiliaryKeeps
<1> QED BY <1>1, <1>2, TypeCorrect, Invariance, PTL DEF Spec

-----------------------------------------------------------------------------
(* The refinement, step by step.                                            *)

\* Steps that change neither the status nor the count of a one-shot row.
LEMMA Stutters ==
    ASSUME UNCHANGED <<enqueued, ran>>,
           \A j \in OneShot : /\ row'[j].status = row[j].status
                              /\ row'[j].attempts = row[j].attempts
    PROVE  UNCHANGED Promise!vars
  BY DEF Promise!vars, Life

\* Where one job changes its life, or its count, and the others stay.
LEMMA OneChanges ==
    ASSUME enqueued \subseteq enqueued', NEW j \in OneShot,
           enqueued' \subseteq enqueued \cup {j},
           \A i \in OneShot \ {j} : row'[i] = row[i]
    PROVE  /\ [i \in OneShot |-> Life(i)]' = [[i \in OneShot |-> Life(i)] EXCEPT ![j] = Life(j)']
           /\ [i \in OneShot |-> row[i].attempts]'
                = [[i \in OneShot |-> row[i].attempts] EXCEPT ![j] = row'[j].attempts]
<1>1. \A i \in OneShot \ {j} : Life(i)' = Life(i) /\ row'[i].attempts = row[i].attempts
  BY DEF Life
<1> QED BY <1>1

LEMMA EnqueueSubmits ==
    ASSUME TypeOK, IInv, GoneCountNothing, NEW j \in Job, NEW due \in BOOLEAN, Enqueue(j, due)
    PROVE  Promise!Submit(j) /\ j \in OneShot
<1>1. j \in OneShot /\ j \notin enqueued /\ ~RowExists(j)
  BY DEF Enqueue, IInv, RowsEnqueued
<1>2. Life(j) = "new" /\ row[j].attempts = 0
  BY <1>1 DEF Life, RowExists, GoneCountNothing
<1>3. row'[j].status = "pending" /\ row'[j].attempts = 0
  BY <1>1 DEF Enqueue, TypeOK
<1>4. Life(j)' = "open"
  BY <1>3 DEF Life
<1>5. \A i \in OneShot \ {j} : row'[i] = row[i]
  BY <1>1, OneShotRow DEF Enqueue, TypeOK
<1>6. /\ [i \in OneShot |-> Life(i)]' = [[i \in OneShot |-> Life(i)] EXCEPT ![j] = "open"]
      /\ [i \in OneShot |-> row[i].attempts]' = [i \in OneShot |-> row[i].attempts]
  <2>1. enqueued \subseteq enqueued' /\ enqueued' \subseteq enqueued \cup {j}
    BY DEF Enqueue
  <2>2. /\ [i \in OneShot |-> Life(i)]' = [[i \in OneShot |-> Life(i)] EXCEPT ![j] = Life(j)']
        /\ [i \in OneShot |-> row[i].attempts]'
             = [[i \in OneShot |-> row[i].attempts] EXCEPT ![j] = row'[j].attempts]
    BY <1>1, <1>5, <2>1, OneChanges
  <2>3. [[i \in OneShot |-> row[i].attempts] EXCEPT ![j] = row'[j].attempts]
            = [i \in OneShot |-> row[i].attempts]
    BY <1>1, <1>2, <1>3
  <2> QED BY <1>4, <2>2, <2>3
<1> QED BY <1>1, <1>2, <1>6 DEF Promise!Submit, Enqueue

LEMMA ClaimHandsOut ==
    ASSUME TypeOK, NEW t \in Tick, NEW S \in SUBSET Job, Claim(t, S)
    PROVE  \E R \in SUBSET OneShot : Promise!HandOut(R)
<1> DEFINE R == S \cap OneShot
<1>1. ASSUME NEW j \in OneShot
      PROVE  /\ Life(j)' = Life(j)
             /\ j \in R => Life(j) = "open"
             /\ row'[j].attempts = IF j \in R /\ row[j].attempts < MaxAttempts
                                   THEN row[j].attempts + 1 ELSE row[j].attempts
  <2>1. row[j] \in Row /\ j \in Job /\ row[j].attempts \in 0..MaxAttempts
    BY OneShotRow
  <2>2. CASE j \in R
    <3>1. row[j].status = "pending"
      BY <2>2 DEF Claim, Due
    <3>2. row'[j] = [row[j] EXCEPT !.attempts = Lesser(row[j].attempts + 1, MaxAttempts),
                                   !.due = FALSE]
      BY <2>1, <2>2 DEF Claim
    <3>3. /\ row'[j].status = "pending"
          /\ row'[j].attempts = Lesser(row[j].attempts + 1, MaxAttempts)
      BY <2>1, <3>1, <3>2 DEF Row
    <3>4. Lesser(row[j].attempts + 1, MaxAttempts)
            = IF row[j].attempts < MaxAttempts THEN row[j].attempts + 1 ELSE row[j].attempts
      BY <2>1, LimitAssumption DEF Lesser
    <3> QED BY <2>2, <3>1, <3>3, <3>4 DEF Life
  <2>3. CASE j \notin R
    <3>1. row'[j] = row[j] /\ enqueued' = enqueued
      BY <2>1, <2>3 DEF Claim
    <3> QED BY <2>3, <3>1 DEF Life
  <2> QED BY <2>2, <2>3
<1>2. ran' = ran
  BY DEF Claim
<1>3. Promise!HandOut(R)
  BY <1>1, <1>2 DEF Promise!HandOut
<1> QED BY <1>3

LEMMA SuccessLeaves ==
    ASSUME TypeOK, IInv, NEW t \in Tick, NEW r \in runs[t], RecordSuccess(t, r)
    PROVE  [Promise!Next]_(Promise!vars)
<1>0. PICK j : j = r.job
  OBVIOUS
<1>1. j \in Job /\ r.at = "succeeded" /\ UNCHANGED <<enqueued, ran>>
  BY <1>0 DEF RecordSuccess, TypeOK, Run
<1>2. CASE j \in OneShot /\ RowExists(j)
  <2>1. row' = [row EXCEPT ![j] = NoRow]
    BY <1>0, <1>2 DEF RecordSuccess, AfterSuccess
  <2>2. row'[j].status = "none" /\ row'[j].attempts = 0
    BY <1>1, <2>1 DEF TypeOK, NoRow
  <2>3. j \in ran /\ j \in enqueued
    BY <1>0, <1>1, <1>2 DEF IInv, SuccessRan, RowsEnqueued
  <2>4. Life(j) \in {"open", "parked"} /\ Life(j)' = "gone"
    BY <1>1, <1>2, <2>2, <2>3, OneShotRow DEF Life, RowExists
  <2>5. \A i \in OneShot \ {j} : row'[i] = row[i]
    BY <2>1, OneShotRow DEF TypeOK
  <2>6. /\ [i \in OneShot |-> Life(i)]' = [[i \in OneShot |-> Life(i)] EXCEPT ![j] = "gone"]
        /\ [i \in OneShot |-> row[i].attempts]'
             = [[i \in OneShot |-> row[i].attempts] EXCEPT ![j] = 0]
    BY <1>1, <1>2, <2>2, <2>4, <2>5, OneChanges
  <2>7. Promise!Leave(j)
    BY <1>1, <1>2, <2>3, <2>4, <2>6 DEF Promise!Leave
  <2> QED BY <1>2, <2>7 DEF Promise!Next
<1>3. CASE j \in OneShot /\ ~RowExists(j)
  <2>1. row' = row
    BY <1>0, <1>3 DEF RecordSuccess
  <2> QED BY <1>1, <2>1, Stutters
<1>4. CASE j \notin OneShot
  <2>1. \A i \in OneShot : row'[i] = row[i]
    BY <1>0, <1>4, OneShotRow DEF RecordSuccess, TypeOK
  <2> QED BY <1>1, <2>1, Stutters
<1> QED BY <1>2, <1>3, <1>4

LEMMA FailureParks ==
    ASSUME TypeOK, IInv, NEW t \in Tick, NEW r \in runs[t], RecordFailure(t, r)
    PROVE  [Promise!Next]_(Promise!vars)
<1>0. PICK j : j = r.job
  OBVIOUS
<1>1. j \in Job /\ r \in Run /\ Backed(r) /\ row[j] \in Row /\ UNCHANGED <<enqueued, ran>>
  BY <1>0 DEF RecordFailure, TypeOK, Run, IInv, RunsBacked
<1>2. CASE RowExists(j) /\ Exhausted(r) /\ row[j].status = "pending"
  <2>1. row' = [row EXCEPT ![j] = [row[j] EXCEPT !.status = "failed"]] /\ j \in OneShot
    BY <1>0, <1>2 DEF RecordFailure, AfterFailure, Exhausted
  <2>2. row'[j].status = "failed" /\ row'[j].attempts = row[j].attempts
    BY <1>1, <2>1 DEF TypeOK, Row
  <2>3. row[j].attempts = MaxAttempts
    BY <1>0, <1>1, <1>2, LimitAssumption DEF Exhausted, Backed, Run, Row
  <2>4. Life(j) = "open" /\ Life(j)' = "parked"
    BY <1>2, <2>2 DEF Life
  <2>5. \A i \in OneShot \ {j} : row'[i] = row[i]
    BY <2>1, OneShotRow DEF TypeOK
  <2>6. /\ [i \in OneShot |-> Life(i)]' = [[i \in OneShot |-> Life(i)] EXCEPT ![j] = "parked"]
        /\ [i \in OneShot |-> row[i].attempts]' = [i \in OneShot |-> row[i].attempts]
    <3>1. [i \in OneShot |-> Life(i)]' = [[i \in OneShot |-> Life(i)] EXCEPT ![j] = Life(j)']
      BY <1>1, <2>1, <2>5, OneChanges
    <3>2. \A i \in OneShot : row'[i].attempts = row[i].attempts
      BY <2>2, <2>5
    <3> QED BY <2>4, <3>1, <3>2
  <2>7. Promise!Park(j)
    BY <1>1, <2>1, <2>3, <2>4, <2>6 DEF Promise!Park
  <2> QED BY <2>1, <2>7 DEF Promise!Next
<1>3. CASE ~(RowExists(j) /\ Exhausted(r) /\ row[j].status = "pending")
  <2>1. row'[j].status = row[j].status /\ row'[j].attempts = row[j].attempts
    <3>1. CASE RowExists(j)
      <4>1. row[j].status \in {"pending", "failed"}
        BY <1>1, <3>1 DEF RowExists, Row, Status
      <4>2. row'[j] = IF Exhausted(r) THEN [row[j] EXCEPT !.status = "failed"]
                      ELSE [row[j] EXCEPT !.due = FALSE]
        BY <1>0, <1>1, <3>1 DEF RecordFailure, AfterFailure, TypeOK
      <4> QED BY <1>1, <1>3, <3>1, <4>1, <4>2 DEF Row
    <3>2. CASE ~RowExists(j)
      BY <1>0, <3>2 DEF RecordFailure
    <3> QED BY <3>1, <3>2
  <2>2. \A i \in OneShot \ {j} : row'[i] = row[i]
    BY <1>0, OneShotRow DEF RecordFailure, TypeOK
  <2> QED BY <1>1, <2>1, <2>2, Stutters
<1> QED BY <1>2, <1>3

\* A handler that completes, in time or not, works on a job that was enqueued.
LEMMA CompletionWorks ==
    ASSUME UNCHANGED tableVars, NEW j, j \in OneShot => j \in enqueued,
           ran' = ran \cup ({j} \cap OneShot)
    PROVE  [Promise!Next]_(Promise!vars)
<1>1. \A i \in OneShot : Life(i)' = Life(i) /\ row'[i].attempts = row[i].attempts
  BY DEF tableVars, Life
<1>2. CASE j \in OneShot
  <2>1. Life(j) # "new"
    BY <1>2 DEF Life
  <2>2. Promise!Work(j)
    BY <1>1, <1>2, <2>1 DEF Promise!Work
  <2> QED BY <1>2, <2>2 DEF Promise!Next
<1>3. CASE j \notin OneShot
  <2>1. ran' = ran
    BY <1>3
  <2> QED BY <2>1, Stutters DEF tableVars
<1> QED BY <1>2, <1>3

\* The job table is the plain queue its callers rely on: JobQueue implements
\* JobPromise whatever crashes, lapses, overlaps and settles late.
THEOREM QueueKeepsPromise == Spec => KeepsPromise
<1>1. Init => Promise!Init
  <2> SUFFICES ASSUME Init PROVE Promise!Init
    OBVIOUS
  <2>1. enqueued = {} /\ ran = {}
    BY DEF Init
  <2>2. \A j \in OneShot : row[j].status = "none" /\ row[j].attempts = 0
    BY DEF Init, Job, NoRow
  <2>3. \A j \in OneShot : Life(j) = "new"
    BY <2>1, <2>2 DEF Life
  <2> QED BY <2>1, <2>2, <2>3 DEF Promise!Init
<1>2. TypeOK /\ IInv /\ OverrunsEnqueued /\ GoneCountNothing /\ [Next]_vars
          => [Promise!Next]_(Promise!vars)
  <2> SUFFICES ASSUME TypeOK, IInv, OverrunsEnqueued, GoneCountNothing, [Next]_vars
               PROVE  [Promise!Next]_(Promise!vars)
    OBVIOUS
  <2>1. ASSUME UNCHANGED <<tableVars, ran>> PROVE [Promise!Next]_(Promise!vars)
    BY <2>1, Stutters DEF tableVars
  <2>2. ASSUME NEW j \in Job, NEW due \in BOOLEAN, Enqueue(j, due)
        PROVE  [Promise!Next]_(Promise!vars)
    BY <2>2, EnqueueSubmits DEF Promise!Next
  <2>3. ASSUME NEW j \in Job, RunAtPasses(j)
        PROVE  [Promise!Next]_(Promise!vars)
    <3>1. \A i \in OneShot : row'[i].status = row[i].status /\ row'[i].attempts = row[i].attempts
      BY <2>3, OneShotRow DEF RunAtPasses, TypeOK, Row
    <3> QED BY <2>3, <3>1, Stutters DEF RunAtPasses
  <2>4. ASSUME NEW t \in Tick, TickStep(t)
        PROVE  [Promise!Next]_(Promise!vars)
    <3>1. CASE \E S \in SUBSET Job : Claim(t, S)
      BY <3>1, ClaimHandsOut DEF Promise!Next
    <3>2. CASE \A j \in OneShot : row'[j] = row[j]
      BY <2>4, <3>2, TickStepRows, Stutters
    <3> QED BY <2>4, <3>1, <3>2, TickStepRows
  <2>5. ASSUME NEW t \in Tick, RunnerStep(t)
        PROVE  [Promise!Next]_(Promise!vars)
    <3>1. ASSUME NEW r \in runs[t], HandlerReturns(t, r)
          PROVE  [Promise!Next]_(Promise!vars)
      <4>1. r.job \in OneShot => r.job \in enqueued
        BY DEF IInv, RunsBacked, Backed
      <4> QED BY <3>1, <4>1, CompletionWorks DEF HandlerReturns
    <3>2. ASSUME NEW r \in runs[t], RecordSuccess(t, r)
          PROVE  [Promise!Next]_(Promise!vars)
      BY <3>2, SuccessLeaves
    <3>3. ASSUME NEW r \in runs[t], RecordFailure(t, r)
          PROVE  [Promise!Next]_(Promise!vars)
      BY <3>3, FailureParks
    <3> QED BY <2>1, <2>5, <3>1, <3>2, <3>3
            DEF RunnerStep, StartJob, HandlerThrows, HandlerTimesOut, RecordSuccessFails,
                RecordFailureFails
  <2>6. ASSUME NEW p \in Pod, NEW j \in Job, NEW completed \in BOOLEAN,
               OverrunEnds(p, j, completed)
        PROVE  [Promise!Next]_(Promise!vars)
    <3>1. j \in OneShot => j \in enqueued
      BY <2>6 DEF OverrunEnds, OverrunsEnqueued
    <3>2. CASE completed
      BY <2>6, <3>1, <3>2, CompletionWorks DEF OverrunEnds
    <3>3. CASE ~completed
      BY <2>1, <2>6, <3>3 DEF OverrunEnds
    <3> QED BY <3>2, <3>3
  <2>7. ASSUME NEW p \in Pod, NEW v \in Release, Restart(p, v)
        PROVE  [Promise!Next]_(Promise!vars)
    BY <2>1, <2>7 DEF Restart
  <2>8. CASE UNCHANGED vars
    BY <2>1, <2>8 DEF vars, tableVars
  <2> QED BY <2>2, <2>3, <2>4, <2>5, <2>6, <2>7, <2>8 DEF Next
<1> QED BY <1>1, <1>2, TypeCorrect, Invariance, Auxiliary, PTL DEF Spec, KeepsPromise, Promise!Spec

-----------------------------------------------------------------------------
(* The slots.  A tick's slots are counted as pairs of the tick and a number *)
(* so that the slots of a pod are a set, and a step that changes how many   *)
(* one tick holds changes its size by the difference.                       *)

SlotsOf(t) == {t} \X (1..held[t])

\* A tick holds slots only from its reservation to its end, and is in runJob for
\* no more rows than it has slots.
TickSlots(t) ==
    /\ held[t] \in Nat
    /\ phase[t] \notin {"claiming", "running"} => held[t] = 0
    /\ phase[t] # "running" => runs[t] = {}
    /\ IsFiniteSet(runs[t]) /\ Cardinality(runs[t]) <= held[t]

PodSlots(p) ==
    /\ IsFiniteSet(SlotsHeld(p))
    /\ inFlight[p] = Cardinality(SlotsHeld(p))
    /\ inFlight[p] <= MaxConcurrent

SlotsInv == (\A t \in Tick : TickSlots(t)) /\ (\A p \in Pod : PodSlots(p))

LEMMA SlotsMember ==
    ASSUME NEW p \in Pod
    PROVE  \A x : x \in SlotsHeld(p) <=>
               \E t \in Tick : PodOf[t] = p /\ \E n \in 1..held[t] : x = <<t, n>>
  BY DEF SlotsHeld, TicksOf

\* A tick with n slots has n of them.
LEMMA SlotsCounted ==
    ASSUME NEW t, NEW n \in Nat
    PROVE  IsFiniteSet({t} \X (1..n)) /\ Cardinality({t} \X (1..n)) = n
<1>1. IsFiniteSet({t}) /\ Cardinality({t}) = 1
  BY FS_Singleton
<1>2. IsFiniteSet(1..n) /\ Cardinality(1..n) = n
  BY FS_Interval
<1>3. /\ IsFiniteSet({t} \X (1..n))
      /\ Cardinality({t} \X (1..n)) = Cardinality({t}) * Cardinality(1..n)
  BY <1>1, <1>2, FS_Product
<1> QED BY <1>1, <1>2, <1>3

\* A step that changes the slots of one tick, and its pod's count with them.
LEMMA SlotsMove ==
    ASSUME TypeOK, SlotsInv, NEW t \in Tick, NEW n \in Nat, held' = [held EXCEPT ![t] = n],
           inFlight' = [inFlight EXCEPT ![PodOf[t]] = @ - held[t] + n],
           inFlight[PodOf[t]] - held[t] + n <= MaxConcurrent
    PROVE  \A p \in Pod : PodSlots(p)'
<1>1. /\ held'[t] = n /\ held[t] \in Nat
      /\ \A u \in Tick : u # t => held'[u] = held[u]
  BY DEF TypeOK, SlotsInv, TickSlots
<1>2. \A p \in Pod : p # PodOf[t] => inFlight'[p] = inFlight[p]
  BY DEF TypeOK
<1>3. PodOf[t] \in Pod /\ inFlight'[PodOf[t]] = inFlight[PodOf[t]] - held[t] + n
  BY TickAssumption DEF TypeOK
<1>4. ASSUME NEW p \in Pod, p # PodOf[t] PROVE PodSlots(p)'
  <2>1. SlotsHeld(p)' = SlotsHeld(p)
    <3>1. \A u \in TicksOf(p) : held'[u] = held[u]
      BY <1>1, <1>4 DEF TicksOf
    <3> QED BY <3>1 DEF SlotsHeld, TicksOf
  <2> QED BY <1>2, <1>4, <2>1 DEF SlotsInv, PodSlots
<1>5. PodSlots(PodOf[t])'
  <2> DEFINE p == PodOf[t]
             A == SlotsHeld(p)
             B == SlotsOf(t)
             C == {t} \X (1..n)
  <2>1. \A x : x \in A <=> \E u \in Tick : PodOf[u] = p /\ \E i \in 1..held[u] : x = <<u, i>>
    BY <1>3, SlotsMember
  <2>2. \A x : x \in SlotsHeld(p)' <=> \E u \in Tick : PodOf[u] = p /\ \E i \in 1..held'[u] : x = <<u, i>>
    BY DEF SlotsHeld, TicksOf
  <2>3. /\ \A x : x \in B <=> \E i \in 1..held[t] : x = <<t, i>>
        /\ \A x : x \in C <=> \E i \in 1..n : x = <<t, i>>
    BY DEF SlotsOf
  <2>4. B \subseteq A
    BY <2>1, <2>3
  <2>5. SlotsHeld(p)' = (A \ B) \cup C
    <3>1. ASSUME NEW x \in SlotsHeld(p)' PROVE x \in (A \ B) \cup C
      <4>1. PICK u \in Tick : PodOf[u] = p /\ \E i \in 1..held'[u] : x = <<u, i>>
        BY <2>2
      <4>2. PICK i \in 1..held'[u] : x = <<u, i>>
        BY <4>1
      <4>3. CASE u = t
        BY <1>1, <2>3, <4>2, <4>3
      <4>4. CASE u # t
        <5>1. x \in A
          BY <1>1, <2>1, <4>1, <4>2, <4>4
        <5>2. x \notin B
          BY <2>3, <4>2, <4>4
        <5> QED BY <5>1, <5>2
      <4> QED BY <4>3, <4>4
    <3>2. ASSUME NEW x \in A \ B PROVE x \in SlotsHeld(p)'
      <4>1. PICK u \in Tick : PodOf[u] = p /\ \E i \in 1..held[u] : x = <<u, i>>
        BY <2>1
      <4>2. PICK i \in 1..held[u] : x = <<u, i>>
        BY <4>1
      <4>3. u # t
        BY <2>3, <4>2
      <4> QED BY <1>1, <2>2, <4>1, <4>2, <4>3
    <3>3. ASSUME NEW x \in C PROVE x \in SlotsHeld(p)'
      BY <1>1, <2>2, <2>3
    <3> HIDE DEF A, B, C
    <3> QED BY <3>1, <3>2, <3>3
  <2>6. (A \ B) \cap C = {}
    <3> SUFFICES ASSUME NEW x \in A \ B, x \in C PROVE FALSE
      OBVIOUS
    <3>1. PICK u \in Tick : \E i \in 1..held[u] : x = <<u, i>>
      BY <2>1
    <3>2. PICK i \in 1..held[u] : x = <<u, i>>
      BY <3>1
    <3>3. u = t
      BY <2>3, <3>2
    <3> QED BY <2>3, <3>2, <3>3
  <2>7. IsFiniteSet(A) /\ inFlight[p] = Cardinality(A)
    BY <1>3 DEF SlotsInv, PodSlots
  <2>8. Cardinality(B) = held[t] /\ IsFiniteSet(C) /\ Cardinality(C) = n
    BY <1>1, SlotsCounted DEF SlotsOf
  <2> HIDE DEF A, B, C
  <2>9. IsFiniteSet(A \ B) /\ Cardinality(A \ B) = Cardinality(A) - held[t]
    <3>1. A \cap B = B
      BY <2>4
    <3>2. IsFiniteSet(A \ B) /\ Cardinality(A \ B) = Cardinality(A) - Cardinality(A \cap B)
      BY <2>7, FS_Difference
    <3> QED BY <2>8, <3>1, <3>2
  <2>10. /\ IsFiniteSet((A \ B) \cup C)
         /\ Cardinality((A \ B) \cup C) = Cardinality(A \ B) + n
    <3>1. Cardinality((A \ B) \cap C) = 0
      BY <2>6, FS_EmptySet
    <3>2. Cardinality(A \ B) \in Nat
      BY <2>9, FS_CardinalityType
    <3>3. /\ IsFiniteSet((A \ B) \cup C)
          /\ Cardinality((A \ B) \cup C) = Cardinality(A \ B) + Cardinality(C) - Cardinality((A \ B) \cap C)
      BY <2>8, <2>9, FS_Union
    <3> QED BY <2>8, <3>1, <3>2, <3>3
  <2>11. Cardinality(A) \in Nat
    BY <2>7, FS_CardinalityType
  <2>12. IsFiniteSet(SlotsHeld(p)') /\ Cardinality(SlotsHeld(p)') = inFlight[p] - held[t] + n
    BY <2>5, <2>7, <2>9, <2>10
  <2>13. IsFiniteSet(SlotsHeld(p)') /\ inFlight'[p] = Cardinality(SlotsHeld(p)') /\ inFlight'[p] <= MaxConcurrent
    BY <1>3, <2>12
  <2> QED BY <2>13 DEF PodSlots
<1> QED BY <1>4, <1>5

\* A step that changes no tick's slots.
LEMMA SlotsStay ==
    ASSUME SlotsInv, UNCHANGED <<held, inFlight>>
    PROVE  \A p \in Pod : PodSlots(p)'
  BY DEF SlotsInv, PodSlots, SlotsHeld, TicksOf

\* A tick whose runs, phase and slots stand still.
LEMMA TickSlotsStay ==
    ASSUME NEW t \in Tick, TickSlots(t),
           phase'[t] = phase[t], held'[t] = held[t], runs'[t] = runs[t]
    PROVE  TickSlots(t)'
  BY DEF TickSlots

\* Ending a tick that runs nothing gives back exactly what it holds.
LEMMA EndTickSlots ==
    ASSUME TypeOK, SlotsInv, NEW t \in Tick, EndTick(t), runs[t] = {}, runs' = runs
    PROVE  SlotsInv'
<1>1. held[t] \in Nat /\ PodOf[t] \in Pod
  BY TickAssumption DEF SlotsInv, TickSlots
<1>2. /\ phase' = [phase EXCEPT ![t] = "idle"]
      /\ held' = [held EXCEPT ![t] = 0]
      /\ inFlight' = [inFlight EXCEPT ![PodOf[t]] = @ - held[t]]
  BY DEF EndTick
<1>3. inFlight[PodOf[t]] \in Int /\ inFlight[PodOf[t]] <= MaxConcurrent
  BY <1>1 DEF TypeOK, SlotsInv, PodSlots
<1>4. inFlight' = [inFlight EXCEPT ![PodOf[t]] = @ - held[t] + 0]
  <2>1. inFlight[PodOf[t]] - held[t] + 0 = inFlight[PodOf[t]] - held[t]
    BY <1>1, <1>3
  <2> QED BY <1>2, <2>1
<1>5. \A p \in Pod : PodSlots(p)'
  <2>1. inFlight[PodOf[t]] - held[t] + 0 <= MaxConcurrent
    BY <1>1, <1>3, LimitAssumption
  <2> QED BY <1>2, <1>4, <2>1, SlotsMove
<1>6. ASSUME NEW u \in Tick PROVE TickSlots(u)'
  <2>1. CASE u = t
    <3>1. phase'[t] = "idle" /\ held'[t] = 0 /\ runs'[t] = {}
      BY <1>2 DEF TypeOK
    <3> QED BY <2>1, <3>1, FS_EmptySet DEF TickSlots
  <2>2. CASE u # t
    <3>1. phase'[u] = phase[u] /\ held'[u] = held[u] /\ runs'[u] = runs[u]
      BY <1>2, <2>2 DEF TypeOK
    <3> QED BY <3>1, TickSlotsStay DEF SlotsInv
  <2> QED BY <2>1, <2>2
<1> QED BY <1>5, <1>6 DEF SlotsInv

\* The steps of a tick keep the balance.
LEMMA TickStepSlots ==
    ASSUME TypeOK, TypeOK', SlotsInv, NEW t \in Tick, TickStep(t)
    PROVE  SlotsInv'
<1>0. held[t] \in Nat /\ PodOf[t] \in Pod
  BY TickAssumption DEF SlotsInv, TickSlots
<1>1. CASE StartTick(t) \/ Maintain(t) \/ BudgetExpires(t)
  <2>1. UNCHANGED <<held, inFlight, runs>>
    BY <1>1 DEF StartTick, Maintain, BudgetExpires, tickVars
  <2>2. \A u \in Tick :
            \/ phase'[u] = phase[u]
            \/ /\ phase[u] \notin {"claiming", "running"}
               /\ phase'[u] \notin {"claiming", "running"}
    BY <1>1 DEF StartTick, Maintain, BudgetExpires, tickVars, TypeOK
  <2>3. \A u \in Tick : TickSlots(u)'
    BY <2>1, <2>2 DEF SlotsInv, TickSlots
  <2> QED BY <2>1, <2>3, SlotsStay DEF SlotsInv
<1>2. CASE ReserveSlots(t)
  <2>1. PICK free \in Int : free = MaxConcurrent - inFlight[PodOf[t]]
    BY <1>0, LimitAssumption DEF TypeOK
  <2>2. /\ phase[t] = "ready" /\ free > 0
        /\ held' = [held EXCEPT ![t] = free]
        /\ inFlight' = [inFlight EXCEPT ![PodOf[t]] = @ + free]
        /\ phase' = [phase EXCEPT ![t] = "claiming"]
        /\ runs' = runs
    BY <1>2, <2>1 DEF ReserveSlots
  <2>3. held[t] = 0 /\ free \in Nat /\ runs[t] = {}
    BY <2>2 DEF SlotsInv, TickSlots
  <2>4. inFlight' = [inFlight EXCEPT ![PodOf[t]] = @ - held[t] + free]
    <3>1. inFlight[PodOf[t]] - held[t] + free = inFlight[PodOf[t]] + free
      BY <1>0, <2>3 DEF TypeOK
    <3> QED BY <2>2, <3>1
  <2>5. inFlight[PodOf[t]] - held[t] + free <= MaxConcurrent
    BY <1>0, <2>1, <2>3, LimitAssumption DEF TypeOK
  <2>6. \A p \in Pod : PodSlots(p)'
    BY <2>2, <2>3, <2>4, <2>5, SlotsMove
  <2>7. ASSUME NEW u \in Tick PROVE TickSlots(u)'
    <3>1. CASE u = t
      <4>1. phase'[t] = "claiming" /\ held'[t] = free /\ runs'[t] = {}
        BY <2>2, <2>3 DEF TypeOK
      <4> QED BY <2>3, <3>1, <4>1, FS_EmptySet DEF TickSlots
    <3>2. CASE u # t
      <4>1. phase'[u] = phase[u] /\ held'[u] = held[u] /\ runs'[u] = runs[u]
        BY <2>2, <3>2 DEF TypeOK
      <4> QED BY <4>1, TickSlotsStay DEF SlotsInv
    <3> QED BY <3>1, <3>2
  <2> QED BY <2>6, <2>7 DEF SlotsInv
<1>3. CASE NothingToReserve(t) \/ TickFails(t) \/ FinishTick(t)
  <2>1. EndTick(t) /\ runs' = runs
    BY <1>3 DEF NothingToReserve, TickFails, FinishTick
  <2>2. runs[t] = {}
    BY <1>3 DEF NothingToReserve, TickFails, FinishTick, SlotsInv, TickSlots
  <2> QED BY <2>1, <2>2, EndTickSlots
<1>4. CASE \E S \in SUBSET Job : Claim(t, S)
  <2>1. PICK S \in SUBSET Job : Claim(t, S)
    BY <1>4
  <2>2. Cardinality(S) \in Nat
    BY JobFinite, FS_Subset, FS_CardinalityType
  <2>3. PICK n \in Nat : n = Lesser(held[t], Cardinality(S)) /\ n <= held[t]
    BY <1>0, <2>2 DEF Lesser
  <2>4. /\ phase[t] = "claiming"
        /\ held' = [held EXCEPT ![t] = n]
        /\ inFlight' = [inFlight EXCEPT ![PodOf[t]] = @ - (held[t] - n)]
        /\ phase' = [phase EXCEPT ![t] = "running"]
        /\ runs' = runs
    BY <2>1, <2>3 DEF Claim
  <2>5. inFlight[PodOf[t]] \in Int /\ inFlight[PodOf[t]] <= MaxConcurrent
    BY <1>0 DEF TypeOK, SlotsInv, PodSlots
  <2>6. inFlight' = [inFlight EXCEPT ![PodOf[t]] = @ - held[t] + n]
    <3>1. inFlight[PodOf[t]] - held[t] + n = inFlight[PodOf[t]] - (held[t] - n)
      BY <1>0, <2>5
    <3> QED BY <2>4, <3>1
  <2>7. inFlight[PodOf[t]] - held[t] + n <= MaxConcurrent
    BY <1>0, <2>3, <2>5, LimitAssumption
  <2>8. \A p \in Pod : PodSlots(p)'
    BY <2>4, <2>6, <2>7, SlotsMove
  <2>9. ASSUME NEW u \in Tick PROVE TickSlots(u)'
    <3>1. CASE u = t
      <4>1. phase'[t] = "running" /\ held'[t] = n /\ runs'[t] = {}
        BY <2>4 DEF TypeOK, SlotsInv, TickSlots
      <4> QED BY <3>1, <4>1, FS_EmptySet DEF TickSlots
    <3>2. CASE u # t
      <4>1. phase'[u] = phase[u] /\ held'[u] = held[u] /\ runs'[u] = runs[u]
        BY <2>4, <3>2 DEF TypeOK
      <4> QED BY <4>1, TickSlotsStay DEF SlotsInv
    <3> QED BY <3>1, <3>2
  <2> QED BY <2>8, <2>9 DEF SlotsInv
<1> QED BY <1>1, <1>2, <1>3, <1>4 DEF TickStep

\* The steps of a runner: it takes a row only while a slot of its tick is free.
LEMMA RunnerStepSlots ==
    ASSUME TypeOK, TypeOK', SlotsInv, NEW t \in Tick, RunnerStep(t)
    PROVE  SlotsInv'
<1> USE DEF tableVars, podVars
<1>1. UNCHANGED <<held, inFlight, phase>>
  BY DEF RunnerStep, StartJob, HandlerReturns, HandlerThrows, HandlerTimesOut, RecordSuccess,
         RecordSuccessFails, RecordFailure, RecordFailureFails
<1>2. /\ IsFiniteSet(runs[t]) /\ Cardinality(runs[t]) \in Nat /\ held[t] \in Nat
      /\ Cardinality(runs[t]) <= held[t]
  BY FS_CardinalityType DEF SlotsInv, TickSlots
<1>3. CASE \E c \in todo[t] : StartJob(t, c)
  <2>1. PICK c \in todo[t] : StartJob(t, c)
    BY <1>3
  <2>2. PICK s : runs' = [runs EXCEPT ![t] = @ \cup {s}]
    BY <2>1 DEF StartJob
  <2>3. /\ runs'[t] = runs[t] \cup {s} /\ phase[t] = "running" /\ Cardinality(runs[t]) < held[t]
        /\ \A u \in Tick : u # t => runs'[u] = runs[u]
    BY <2>1, <2>2 DEF StartJob, TypeOK
  <2>4. /\ IsFiniteSet(runs[t] \cup {s})
        /\ Cardinality(runs[t] \cup {s}) =
               IF s \in runs[t] THEN Cardinality(runs[t]) ELSE Cardinality(runs[t]) + 1
    BY <1>2, FS_AddElement
  <2>5. Cardinality(runs[t] \cup {s}) <= held[t]
    BY <1>2, <2>3, <2>4
  <2>6. TickSlots(t)'
    BY <1>1, <1>2, <2>3, <2>4, <2>5 DEF TickSlots
  <2>7. \A u \in Tick : u # t => TickSlots(u)'
    BY <1>1, <2>3, TickSlotsStay DEF SlotsInv
  <2> QED BY <1>1, <2>6, <2>7, SlotsStay DEF SlotsInv
<1>4. ASSUME NEW r \in runs[t], Leave(t, r) \/ \E at : Move(t, r, at)
      PROVE  SlotsInv'
  <2>1. PICK X : /\ runs'[t] = (runs[t] \ {r}) \cup X
                 /\ X = {} \/ \E s : X = {s}
    <3>1. CASE Leave(t, r)
      BY <3>1 DEF Leave, TypeOK
    <3>2. ASSUME NEW at, Move(t, r, at)
          PROVE  runs'[t] = (runs[t] \ {r}) \cup {[r EXCEPT !.at = at]}
      BY <3>2 DEF Move, TypeOK
    <3>3. CASE \E at : Move(t, r, at)
      BY <3>2, <3>3
    <3> QED BY <1>4, <3>1, <3>3
  <2>2. \A u \in Tick : u # t => runs'[u] = runs[u]
    BY <1>4 DEF Leave, Move, TypeOK
  <2>3. IsFiniteSet(runs[t] \ {r}) /\ Cardinality(runs[t] \ {r}) = Cardinality(runs[t]) - 1
    BY <1>2, FS_RemoveElement
  <2>4. IsFiniteSet(runs'[t]) /\ Cardinality(runs'[t]) <= held[t]
    <3>1. CASE X = {}
      <4>1. runs'[t] = runs[t] \ {r}
        BY <2>1, <3>1
      <4> QED BY <1>2, <2>3, <4>1
    <3>2. ASSUME NEW s, X = {s}
          PROVE  IsFiniteSet(runs'[t]) /\ Cardinality(runs'[t]) <= held[t]
      <4>1. runs'[t] = (runs[t] \ {r}) \cup {s}
        BY <2>1, <3>2
      <4>2. PICK R : R = runs[t] \ {r}
        OBVIOUS
      <4>3. IsFiniteSet(R) /\ Cardinality(R) = Cardinality(runs[t]) - 1
        BY <2>3, <4>2
      <4>4. /\ IsFiniteSet(R \cup {s})
            /\ Cardinality(R \cup {s}) = IF s \in R THEN Cardinality(R) ELSE Cardinality(R) + 1
        BY <4>3, FS_AddElement
      <4>5. Cardinality(R \cup {s}) <= held[t]
        BY <1>2, <4>3, <4>4
      <4> QED BY <4>1, <4>2, <4>4, <4>5
    <3> QED BY <2>1, <3>1, <3>2
  <2>5. phase[t] = "running"
    BY DEF SlotsInv, TickSlots
  <2>6. TickSlots(t)'
    BY <1>1, <1>2, <2>4, <2>5 DEF TickSlots
  <2>7. \A u \in Tick : u # t => TickSlots(u)'
    BY <1>1, <2>2, TickSlotsStay DEF SlotsInv
  <2> QED BY <1>1, <2>6, <2>7, SlotsStay DEF SlotsInv
<1>5. ASSUME NEW r \in runs[t],
             \/ HandlerReturns(t, r) \/ HandlerThrows(t, r) \/ HandlerTimesOut(t, r)
             \/ RecordSuccess(t, r) \/ RecordSuccessFails(t, r)
             \/ RecordFailure(t, r) \/ RecordFailureFails(t, r)
      PROVE  SlotsInv'
  <2>1. Leave(t, r) \/ \E at : Move(t, r, at)
    BY <1>5 DEF HandlerReturns, HandlerThrows, HandlerTimesOut, RecordSuccess,
                RecordSuccessFails, RecordFailure, RecordFailureFails
  <2> QED BY <2>1, <1>4
<1> QED BY <1>3, <1>5 DEF RunnerStep

\* A pod that restarts holds nothing.
LEMMA RestartSlots ==
    ASSUME TypeOK, TypeOK', SlotsInv, NEW p \in Pod, NEW v \in Release, Restart(p, v)
    PROVE  SlotsInv'
<1>1. /\ inFlight' = [inFlight EXCEPT ![p] = 0]
      /\ phase' = [t \in Tick |-> IF PodOf[t] = p THEN "idle" ELSE phase[t]]
      /\ held' = [t \in Tick |-> IF PodOf[t] = p THEN 0 ELSE held[t]]
      /\ runs' = [t \in Tick |-> IF PodOf[t] = p THEN {} ELSE runs[t]]
  BY DEF Restart
<1>2. ASSUME NEW t \in Tick PROVE TickSlots(t)'
  <2>1. CASE PodOf[t] = p
    <3>1. phase'[t] = "idle" /\ held'[t] = 0 /\ runs'[t] = {}
      BY <1>1, <2>1
    <3> QED BY <3>1, FS_EmptySet DEF TickSlots
  <2>2. CASE PodOf[t] # p
    <3>1. phase'[t] = phase[t] /\ held'[t] = held[t] /\ runs'[t] = runs[t]
      BY <1>1, <2>2
    <3> QED BY <3>1, TickSlotsStay DEF SlotsInv
  <2> QED BY <2>1, <2>2
<1>3. ASSUME NEW q \in Pod PROVE PodSlots(q)'
  <2>1. CASE q = p
    <3>1. \A t \in TicksOf(p) : held'[t] = 0
      BY <1>1 DEF TicksOf
    <3>2. SlotsHeld(p)' = {}
      <4>1. 1..0 = {}
        OBVIOUS
      <4> QED BY <3>1, <4>1 DEF SlotsHeld, TicksOf
    <3>3. inFlight'[p] = 0
      BY <1>1 DEF TypeOK
    <3>4. IsFiniteSet(SlotsHeld(p)') /\ inFlight'[p] = Cardinality(SlotsHeld(p)') /\ inFlight'[p] <= MaxConcurrent
      BY <3>2, <3>3, FS_EmptySet, LimitAssumption
    <3> QED BY <2>1, <3>4 DEF PodSlots
  <2>2. CASE q # p
    <3>1. \A t \in TicksOf(q) : held'[t] = held[t]
      BY <1>1, <2>2 DEF TicksOf
    <3>2. SlotsHeld(q)' = SlotsHeld(q)
      BY <3>1 DEF SlotsHeld, TicksOf
    <3>3. inFlight'[q] = inFlight[q]
      BY <1>1, <2>2 DEF TypeOK
    <3> QED BY <3>2, <3>3 DEF SlotsInv, PodSlots
  <2> QED BY <2>1, <2>2
<1> QED BY <1>2, <1>3 DEF SlotsInv

\* A pod's rows in runJob are no more than its slots: number each tick's.
LEMMA RunsWithinSlots ==
    ASSUME SlotsInv, NEW p \in Pod
    PROVE  Cardinality(Running(p)) \in Nat /\ Cardinality(Running(p)) <= Cardinality(SlotsHeld(p))
<1> DEFINE size(t) == Cardinality(runs[t])
           number(t) == CHOOSE b \in Surjection(1..size(t), runs[t]) : TRUE
           A == {x \in SlotsHeld(p) : x[2] \in 1..size(x[1])}
           f == [x \in A |-> <<x[1], number(x[1])[x[2]]>>]
<1>1. \A t \in Tick : size(t) \in Nat /\ held[t] \in Nat /\ size(t) <= held[t]
  BY FS_CardinalityType DEF SlotsInv, TickSlots
<1>2. ASSUME NEW t \in Tick PROVE number(t) \in Surjection(1..size(t), runs[t])
  <2>1. ExistsBijection(1..size(t), runs[t])
    BY FS_CardinalityType DEF SlotsInv, TickSlots
  <2>2. \E b : b \in Surjection(1..size(t), runs[t])
    BY <2>1 DEF ExistsBijection, Bijection
  <2> QED BY <2>2
<1> HIDE DEF size, number
<1>3. ASSUME NEW x \in A
      PROVE  \E t \in Tick : /\ PodOf[t] = p
                             /\ \E n \in 1..size(t) : x = <<t, n>> /\ number(t)[n] \in runs[t]
  <2>1. PICK t \in Tick : PodOf[t] = p /\ \E n \in 1..held[t] : x = <<t, n>>
    BY SlotsMember
  <2>2. PICK n \in 1..held[t] : x = <<t, n>>
    BY <2>1
  <2>3. n \in 1..size(t)
    BY <2>2
  <2>4. number(t)[n] \in runs[t]
    BY <1>2, <2>3 DEF Surjection
  <2> QED BY <2>1, <2>2, <2>3, <2>4
<1>4. \A y : y \in Running(p) <=> \E t \in Tick : PodOf[t] = p /\ \E r \in runs[t] : y = <<t, r>>
  BY DEF Running, TicksOf
<1>5. f \in [A -> Running(p)]
  <2> SUFFICES ASSUME NEW x \in A PROVE f[x] \in Running(p)
    OBVIOUS
  <2>1. PICK t \in Tick : /\ PodOf[t] = p
                          /\ \E n \in 1..size(t) : x = <<t, n>> /\ number(t)[n] \in runs[t]
    BY <1>3
  <2>2. PICK n \in 1..size(t) : x = <<t, n>> /\ number(t)[n] \in runs[t]
    BY <2>1
  <2>3. f[x] = <<t, number(t)[n]>>
    BY <2>2
  <2> HIDE DEF f, A
  <2> QED BY <1>4, <2>1, <2>2, <2>3
<1>6. ASSUME NEW y \in Running(p) PROVE \E x \in A : f[x] = y
  <2>1. PICK t \in Tick : PodOf[t] = p /\ \E r \in runs[t] : y = <<t, r>>
    BY <1>4
  <2>2. PICK r \in runs[t] : y = <<t, r>>
    BY <2>1
  <2>3. PICK n \in 1..size(t) : number(t)[n] = r
    BY <1>2 DEF Surjection
  <2>4. <<t, n>> \in A
    <3>1. n \in 1..held[t]
      BY <1>1
    <3>2. <<t, n>> \in SlotsHeld(p)
      BY <2>1, <3>1, SlotsMember
    <3> QED BY <3>2
  <2>5. f[<<t, n>>] = y
    BY <2>2, <2>3, <2>4
  <2> QED BY <2>4, <2>5
<1>7. IsFiniteSet(A) /\ Cardinality(A) \in Nat /\ Cardinality(A) <= Cardinality(SlotsHeld(p))
      /\ Cardinality(SlotsHeld(p)) \in Nat
  <2>1. A \in SUBSET SlotsHeld(p) /\ IsFiniteSet(SlotsHeld(p))
    BY DEF SlotsInv, PodSlots
  <2> HIDE DEF A
  <2> QED BY <2>1, FS_Subset, FS_CardinalityType
<1> HIDE DEF A, f
<1>8. f \in Surjection(A, Running(p))
  BY <1>5, <1>6 DEF Surjection
<1>9. IsFiniteSet(Running(p)) /\ Cardinality(Running(p)) <= Cardinality(A)
  BY <1>7, <1>8, FS_Surjection
<1>10. Cardinality(Running(p)) \in Nat
  BY <1>9, FS_CardinalityType
<1> QED BY <1>7, <1>9, <1>10

\* Every step keeps the count of the slots.
LEMMA NextSlots ==
    ASSUME TypeOK, TypeOK', SlotsInv, [Next]_vars
    PROVE  SlotsInv'
<1>1. ASSUME UNCHANGED <<phase, held, inFlight, runs>>
      PROVE  SlotsInv'
  BY <1>1, TickSlotsStay, SlotsStay DEF SlotsInv
<1>2. CASE \E j \in Job : \E due \in BOOLEAN : Enqueue(j, due)
  BY <1>2, <1>1 DEF Enqueue, podVars, tickVars
<1>3. CASE \E j \in Job : RunAtPasses(j)
  BY <1>3, <1>1 DEF RunAtPasses, podVars, tickVars
<1>4. CASE \E t \in Tick : TickStep(t)
  BY <1>4, TickStepSlots
<1>5. CASE \E t \in Tick : RunnerStep(t)
  BY <1>5, RunnerStepSlots
<1>6. CASE \E p \in Pod, j \in Job, completed \in BOOLEAN : OverrunEnds(p, j, completed)
  BY <1>6, <1>1 DEF OverrunEnds, podVars, tickVars
<1>7. CASE \E p \in Pod, v \in Release : Restart(p, v)
  BY <1>7, RestartSlots
<1>8. CASE UNCHANGED vars
  BY <1>8, <1>1 DEF vars
<1> QED BY <1>2, <1>3, <1>4, <1>5, <1>6, <1>7, <1>8 DEF Next

\* No slot leaks and none is invented: for any ticks overlapping in any number of
\* pods, whatever fails, a pod's counter is what its ticks hold, within
\* MAX_CONCURRENT_JOBS, and covers the rows it runs.
THEOREM SlotsAreCounted == Spec => []SlotsBalance
<1>1. Init => SlotsInv
  <2> SUFFICES ASSUME Init PROVE SlotsInv
    OBVIOUS
  <2>1. /\ \A t \in Tick : phase[t] = "idle" /\ held[t] = 0 /\ runs[t] = {}
        /\ \A p \in Pod : inFlight[p] = 0
    BY DEF Init
  <2>2. \A t \in Tick : TickSlots(t)
    BY <2>1, FS_EmptySet DEF TickSlots
  <2>3. ASSUME NEW p \in Pod PROVE PodSlots(p)
    <3>1. SlotsHeld(p) = {}
      BY <2>1 DEF SlotsHeld, TicksOf
    <3> QED BY <2>1, <3>1, FS_EmptySet, LimitAssumption DEF PodSlots
  <2> QED BY <2>2, <2>3 DEF SlotsInv
<1>2. TypeOK /\ TypeOK' /\ SlotsInv /\ [Next]_vars => SlotsInv'
  BY NextSlots
<1>3. SlotsInv => SlotsBalance
  <2> SUFFICES ASSUME SlotsInv, NEW p \in Pod
               PROVE  /\ inFlight[p] = Cardinality(SlotsHeld(p))
                      /\ inFlight[p] \in 0..MaxConcurrent
                      /\ Cardinality(Running(p)) <= inFlight[p]
    BY DEF SlotsBalance
  <2>1. inFlight[p] = Cardinality(SlotsHeld(p)) /\ inFlight[p] <= MaxConcurrent
    BY DEF SlotsInv, PodSlots
  <2>2. Cardinality(SlotsHeld(p)) \in Nat
    BY FS_CardinalityType DEF SlotsInv, PodSlots
  <2> QED BY <2>1, <2>2, RunsWithinSlots, LimitAssumption
<1> QED BY <1>1, <1>2, <1>3, TypeCorrect, PTL DEF Spec

-----------------------------------------------------------------------------
(* The timed worker implements the untimed one, so what is proved above for *)
(* every timing holds for the timing the code intends.                      *)

\* Every behaviour of the worker under its clock is a behaviour of JobQueue: the
\* timers only choose among the steps JobQueue allows.
THEOREM LeaseImplementsQueue == LeaseSpec => Spec
<1>1. LeaseInit => Init
  BY DEF LeaseInit
<1>2. [LeaseNext]_leaseVars => [Next]_vars
  <2> SUFFICES ASSUME [LeaseNext]_leaseVars PROVE [Next]_vars
    OBVIOUS
  <2>1. CASE Advance \/ \E t \in Tick : HoldUp(t)
    BY <2>1 DEF Advance, HoldUp
  <2>2. ASSUME NEW j \in Job, LeaseTable(j)
        PROVE  Next
    BY <2>2 DEF LeaseTable, Next
  <2>3. ASSUME NEW t \in Tick, LeaseTick(t)
        PROVE  Next
    <3>1. TickStep(t)
      BY <2>3 DEF LeaseTick, TickStep
    <3> QED BY <3>1 DEF Next
  <2>4. ASSUME NEW t \in Tick, LeaseRunner(t)
        PROVE  Next
    <3>1. RunnerStep(t)
      BY <2>4 DEF LeaseRunner, RunnerStep
    <3> QED BY <3>1 DEF Next
  <2>5. ASSUME NEW p \in Pod, NEW j \in Job, NEW completed \in BOOLEAN,
               OverrunEnds(p, j, completed)
        PROVE  Next
    BY <2>5 DEF Next
  <2>6. CASE UNCHANGED leaseVars
    BY <2>6 DEF leaseVars
  <2> QED BY <2>1, <2>2, <2>3, <2>4, <2>5, <2>6 DEF LeaseNext
<1> QED BY <1>1, <1>2, PTL DEF LeaseSpec, Spec

\* At least once also holds under the clock.
THEOREM LeaseAtLeastOnce == LeaseSpec => []NoLostJob
  BY LeaseImplementsQueue, AtLeastOnce, PTL

\* ... and so do the count of slots and the promise made to every job.
THEOREM LeaseSlotsAreCounted == LeaseSpec => []SlotsBalance
  BY LeaseImplementsQueue, SlotsAreCounted, PTL

THEOREM LeaseKeepsPromise == LeaseSpec => KeepsPromise
  BY LeaseImplementsQueue, QueueKeepsPromise, PTL

-----------------------------------------------------------------------------
(* Why the lease is long enough.  A claim leases at most Rounds rows for    *)
(* every slot its tick holds.  While the tick is not held up, every slot is *)
(* busy as long as rows are queued, so what is left to do is never ahead of *)
(* what is left of the lease: InTime says so with a number of full rounds   *)
(* still to come and the time to the end of the round in hand.              *)

TodoJobs(t) == {c.job : c \in todo[t]}
RunJobs(t) == {r.job : r \in runs[t]}

\* The jobs of a tick whose handlers may still run more than rho.
Late(t, rho) == {j \in RunJobs(t) : left[t][j] > rho}

Exempt == mixed \cup Dropped

TimersTyped ==
    /\ wait \in [Job -> Nat]
    /\ left \in [Tick -> [Job -> Nat]]
    /\ slow \in SUBSET Tick
    /\ mixed \in SUBSET Job

\* A tick has rows only while it runs, each of them once, and no handler has
\* longer than its timeout.
Tidy(t) ==
    /\ phase[t] # "running" => todo[t] = {} /\ runs[t] = {}
    /\ phase[t] = "claiming" => held[t] > 0
    /\ phase[t] = "running" => held[t] >= 0
    /\ t \in slow => phase[t] = "running" /\ JobsOf(t) \subseteq mixed
    /\ TodoJobs(t) \cap RunJobs(t) = {}
    /\ \A c, d \in todo[t] : c.job = d.job => c = d
    /\ \A r, s \in runs[t] : r.job = s.job => r = s
    /\ \A j \in RunJobs(t) : left[t][j] <= HandlerTimeout

\* The rows of a tick that is not held up are pending and leased.
Leased(t) ==
    t \notin slow =>
        \A j \in JobsOf(t) \ Exempt : row[j].status = "pending" /\ ~row[j].due

\* With q rounds to come and rho left of this one, the lease outlasts both.
Ahead(t, q, rho) ==
    /\ Cardinality(TodoJobs(t)) + Cardinality(Late(t, rho)) <= held[t] * q
    /\ \A j \in JobsOf(t) \ Exempt : wait[j] > q * HandlerTimeout + rho

InTime(t) ==
    t \notin slow /\ phase[t] = "running" =>
        \E q \in 0..Rounds : \E rho \in 0..(HandlerTimeout - 1) : Ahead(t, q, rho)

\* A schedule's row stems from a release that declares it.
RowsScheduled == \A k \in Kind : RowExists(k) => \E w \in Release : k \in Schedules[w]

LeaseInv ==
    /\ TimersTyped
    /\ LeaseCoversBatch
    /\ RowsScheduled
    /\ \A t \in Tick : Tidy(t) /\ Leased(t) /\ InTime(t)

\* The arithmetic of the lease, as the proofs use it.
LEMMA Arithmetic ==
    /\ Lease \in Nat /\ Interval \in Nat /\ BackoffTime \in Nat
    /\ HandlerTimeout \in Nat \ {0} /\ Rounds \in Nat \ {0}
    /\ Lease > Rounds * HandlerTimeout
<1>1. Rounds * HandlerTimeout \in Nat
  BY LeaseArithmetic, LimitAssumption
<1> QED BY <1>1, LeaseArithmetic, LimitAssumption

\* The jobs of a tick are those it has queued and those it runs.
LEMMA JobsSplit ==
    ASSUME NEW t \in Tick
    PROVE  JobsOf(t) = TodoJobs(t) \cup RunJobs(t)
  BY DEF JobsOf, TodoJobs, RunJobs

LEMMA JobsTyped ==
    ASSUME TypeOK, NEW t \in Tick
    PROVE  /\ TodoJobs(t) \subseteq Job
           /\ RunJobs(t) \subseteq Job
           /\ JobsOf(t) \subseteq Job
  BY DEF JobsOf, TodoJobs, RunJobs, TypeOK, Claimed, Run

\* Counting jobs is monotone.
LEMMA Fewer ==
    ASSUME NEW A, NEW B, A \subseteq B, B \subseteq Job
    PROVE  /\ IsFiniteSet(A) /\ IsFiniteSet(B)
           /\ Cardinality(A) \in Nat /\ Cardinality(B) \in Nat
           /\ Cardinality(A) <= Cardinality(B)
  BY JobFinite, FS_Subset, FS_CardinalityType

\* A tick runs no more rows than jobs: each of them once.
LEMMA RunsCounted ==
    ASSUME TypeOK, NEW t \in Tick, Tidy(t)
    PROVE  /\ Cardinality(runs[t]) \in Nat
           /\ Cardinality(runs[t]) <= Cardinality(RunJobs(t))
<1> DEFINE f == [j \in RunJobs(t) |-> CHOOSE r \in runs[t] : r.job = j]
<1>1. ASSUME NEW j \in RunJobs(t)
      PROVE  f[j] \in runs[t] /\ f[j].job = j
  BY DEF RunJobs
<1>2. ASSUME NEW r \in runs[t]
      PROVE  r.job \in RunJobs(t) /\ f[r.job] = r
  <2>1. r.job \in RunJobs(t)
    BY DEF RunJobs
  <2> HIDE DEF f
  <2> QED BY <1>1, <2>1 DEF Tidy
<1>3. f \in [RunJobs(t) -> runs[t]]
  BY <1>1
<1> HIDE DEF f
<1>4. f \in Surjection(RunJobs(t), runs[t])
  BY <1>2, <1>3 DEF Surjection
<1>5. IsFiniteSet(RunJobs(t))
  BY JobsTyped, Fewer
<1> QED BY <1>4, <1>5, FS_Surjection, FS_CardinalityType

\* Claims only ever come together through a claim: a step that gives no tick a
\* new row keeps batches apart.
LEMMA ApartStays ==
    ASSUME LeaseCoversBatch, mixed \subseteq mixed',
           \A t \in Tick \ slow' :
               \/ JobsOf(t)' = {}
               \/ t \notin slow /\ JobsOf(t)' \subseteq JobsOf(t)
    PROVE  LeaseCoversBatch'
<1> SUFFICES ASSUME NEW t \in Tick \ slow', NEW u \in Tick \ slow', t # u,
                    NEW j \in JobsOf(t)' \cap JobsOf(u)'
             PROVE  j \in mixed' \cup Dropped
  BY DEF LeaseCoversBatch, Dropped
<1>1. t \notin slow /\ u \notin slow /\ j \in JobsOf(t) \cap JobsOf(u)
  OBVIOUS
<1> QED BY <1>1 DEF LeaseCoversBatch

\* A tick without rows.
LEMMA BareIsFine ==
    ASSUME NEW u \in Tick, todo'[u] = {}, runs'[u] = {}, phase'[u] # "running",
           phase'[u] = "claiming" => held'[u] > 0, u \notin slow'
    PROVE  /\ Tidy(u)' /\ Leased(u)' /\ InTime(u)'
           /\ JobsOf(u)' = {}
<1>1. JobsOf(u)' = {} /\ TodoJobs(u)' = {} /\ RunJobs(u)' = {}
  BY DEF JobsOf, TodoJobs, RunJobs
<1> QED BY <1>1 DEF Tidy, Leased, InTime

\* A tick whose queue stands still and whose runs only end, move on or lose time.
LEMMA BatchShrinks ==
    ASSUME TypeOK, TypeOK', TimersTyped, TimersTyped',
           NEW u \in Tick, Tidy(u), Leased(u), InTime(u),
           phase'[u] = phase[u], held'[u] = held[u], todo'[u] = todo[u],
           u \in slow <=> u \in slow', mixed \subseteq mixed',
           RunJobs(u)' \subseteq RunJobs(u),
           \A r, s \in runs'[u] : r.job = s.job => r = s,
           \A j \in RunJobs(u)' : left'[u][j] <= left[u][j],
           u \notin slow => \A j \in JobsOf(u)' \ Exempt :
                                row'[j] = row[j] /\ wait'[j] = wait[j]
    PROVE  /\ Tidy(u)' /\ Leased(u)' /\ InTime(u)'
           /\ JobsOf(u)' \subseteq JobsOf(u)
<1>1. TodoJobs(u)' = TodoJobs(u)
  BY DEF TodoJobs
<1>2. JobsOf(u)' \subseteq JobsOf(u)
  BY DEF JobsOf, RunJobs
<1>3. Exempt \subseteq Exempt'
  BY DEF Exempt, Dropped
<1>4. RunJobs(u) \subseteq Job /\ TodoJobs(u) \subseteq Job
  BY JobsTyped
<1>5. \A j \in RunJobs(u)' : left[u][j] \in Nat /\ left'[u][j] \in Nat
  BY <1>4 DEF TimersTyped
<1>6. Tidy(u)'
  <2>1. phase'[u] # "running" => todo'[u] = {} /\ runs'[u] = {}
    BY DEF Tidy, RunJobs
  <2>2. u \in slow' => phase'[u] = "running" /\ JobsOf(u)' \subseteq mixed'
    BY <1>2 DEF Tidy
  <2>3. \A j \in RunJobs(u)' : left'[u][j] <= HandlerTimeout
    BY <1>5, Arithmetic DEF Tidy
  <2> QED BY <1>1, <2>1, <2>2, <2>3 DEF Tidy
<1>7. Leased(u)'
  BY <1>2, <1>3 DEF Leased
<1>8. InTime(u)'
  <2> SUFFICES ASSUME u \notin slow', phase'[u] = "running"
               PROVE  \E q \in 0..Rounds : \E rho \in 0..(HandlerTimeout - 1) : Ahead(u, q, rho)'
    BY DEF InTime
  <2>1. PICK q \in 0..Rounds : \E rho \in 0..(HandlerTimeout - 1) : Ahead(u, q, rho)
    BY DEF InTime
  <2>2. PICK rho \in 0..(HandlerTimeout - 1) : Ahead(u, q, rho)
    BY <2>1
  <2>3. Late(u, rho)' \subseteq Late(u, rho)
    BY <1>5, Arithmetic DEF Late
  <2>4. Late(u, rho) \subseteq Job
    BY <1>4 DEF Late
  <2>5. /\ Cardinality(Late(u, rho)') <= Cardinality(Late(u, rho))
        /\ Cardinality(Late(u, rho)') \in Nat /\ Cardinality(Late(u, rho)) \in Nat
        /\ Cardinality(TodoJobs(u)) \in Nat
    BY <1>4, <2>3, <2>4, Fewer
  <2>6. held[u] * q \in Int
    BY LimitAssumption DEF TypeOK
  <2>7. Cardinality(TodoJobs(u)') + Cardinality(Late(u, rho)') <= held'[u] * q
    <3>1. Cardinality(TodoJobs(u)) + Cardinality(Late(u, rho)) <= held[u] * q
      BY <2>2 DEF Ahead
    <3> QED BY <1>1, <2>5, <2>6, <3>1
  <2>8. \A j \in JobsOf(u)' \ Exempt' : wait'[j] > q * HandlerTimeout + rho
    BY <1>2, <1>3, <2>2 DEF Ahead
  <2>9. Ahead(u, q, rho)'
    BY <2>7, <2>8 DEF Ahead
  <2> QED BY <2>9
<1> QED BY <1>2, <1>6, <1>7, <1>8

\* A tick the step does not touch.
LEMMA Bystander ==
    ASSUME TypeOK, TypeOK', TimersTyped, TimersTyped',
           NEW u \in Tick, Tidy(u), Leased(u), InTime(u),
           phase'[u] = phase[u], held'[u] = held[u],
           todo'[u] = todo[u], runs'[u] = runs[u], left'[u] = left[u],
           u \in slow <=> u \in slow', mixed \subseteq mixed',
           u \notin slow => \A j \in JobsOf(u) \ Exempt :
                                row'[j] = row[j] /\ wait'[j] = wait[j]
    PROVE  /\ Tidy(u)' /\ Leased(u)' /\ InTime(u)'
           /\ JobsOf(u)' \subseteq JobsOf(u)
<1>1. RunJobs(u)' = RunJobs(u) /\ JobsOf(u)' = JobsOf(u)
  BY DEF RunJobs, JobsOf
<1>2. \A j \in RunJobs(u)' : left'[u][j] <= left[u][j]
  <2>1. \A j \in RunJobs(u) : left[u][j] \in Nat
    BY JobsTyped DEF TimersTyped
  <2> QED BY <1>1, <2>1
<1>3. \A r, s \in runs'[u] : r.job = s.job => r = s
  BY DEF Tidy
<1> QED BY <1>1, <1>2, <1>3, BatchShrinks

\* A job some tick has is no concern of another, unless it is exempt.
LEMMA OtherBatch ==
    ASSUME LeaseInv, NEW t \in Tick, NEW j \in JobsOf(t),
           NEW u \in Tick, u # t, u \notin slow, j \in JobsOf(u)
    PROVE  j \in Exempt
<1>1. CASE t \in slow
  BY <1>1 DEF LeaseInv, Tidy, Exempt
<1>2. CASE t \notin slow
  BY <1>2 DEF LeaseInv, LeaseCoversBatch, Exempt
<1> QED BY <1>1, <1>2

\* Time: the rounds still to come shorten with the lease.
LEMMA AdvanceKeeps ==
    ASSUME TypeOK, TypeOK', LeaseInv, Advance
    PROVE  LeaseInv'
<1>1. /\ wait' = [j \in Job |-> Down(wait[j])]
      /\ left' = [t \in Tick |-> [j \in Job |-> Down(left[t][j])]]
      /\ UNCHANGED <<row, phase, held, todo, runs, slow, mixed>>
      /\ \A t \in Tick \ slow : Prompt(t)
  BY DEF Advance, vars
<1>2. \A n \in Nat : Down(n) \in Nat /\ Down(n) <= n /\ (n > 0 => Down(n) = n - 1)
  BY DEF Down
<1>3. /\ \A j \in Job : wait[j] \in Nat /\ wait'[j] = Down(wait[j])
      /\ \A t \in Tick : \A j \in Job : left[t][j] \in Nat /\ left'[t][j] = Down(left[t][j])
  BY <1>1 DEF LeaseInv, TimersTyped
<1>4. TimersTyped'
  BY <1>1, <1>2, <1>3 DEF LeaseInv, TimersTyped
<1>5. \A t \in Tick : /\ JobsOf(t)' = JobsOf(t)
                      /\ TodoJobs(t)' = TodoJobs(t)
                      /\ RunJobs(t)' = RunJobs(t)
  BY <1>1 DEF JobsOf, TodoJobs, RunJobs
<1>6. Exempt' = Exempt
  BY <1>1 DEF Exempt, Dropped
<1>7. LeaseCoversBatch' /\ RowsScheduled'
  BY <1>1, <1>5 DEF LeaseInv, LeaseCoversBatch, Dropped, RowsScheduled, RowExists
<1>8. ASSUME NEW t \in Tick PROVE Tidy(t)' /\ Leased(t)'
  <2>1. \A j \in RunJobs(t) : left'[t][j] <= HandlerTimeout
    BY <1>2, <1>3, JobsTyped, Arithmetic DEF LeaseInv, Tidy
  <2> QED BY <1>1, <1>5, <1>6, <2>1 DEF LeaseInv, Tidy, Leased
<1>9. ASSUME NEW t \in Tick PROVE InTime(t)'
  <2> SUFFICES ASSUME t \notin slow, phase[t] = "running"
               PROVE  \E q \in 0..Rounds : \E rho \in 0..(HandlerTimeout - 1) : Ahead(t, q, rho)'
    BY <1>1 DEF InTime
  <2>1. PICK q \in 0..Rounds : \E rho \in 0..(HandlerTimeout - 1) : Ahead(t, q, rho)
    BY DEF LeaseInv, InTime
  <2>2. PICK rho \in 0..(HandlerTimeout - 1) : Ahead(t, q, rho)
    BY <2>1
  <2>3. q \in Nat /\ rho \in Nat /\ q * HandlerTimeout \in Nat
    BY Arithmetic
  <2>4. RunJobs(t) \subseteq Job /\ TodoJobs(t) \subseteq Job /\ JobsOf(t) \subseteq Job
    BY JobsTyped
  <2>5. \A j \in JobsOf(t) \ Exempt : wait'[j] > q * HandlerTimeout + rho - 1
    <3> SUFFICES ASSUME NEW j \in JobsOf(t) \ Exempt
                 PROVE  wait'[j] > q * HandlerTimeout + rho - 1
      OBVIOUS
    <3>1. wait[j] > q * HandlerTimeout + rho /\ wait[j] \in Nat /\ wait'[j] = Down(wait[j])
      BY <1>3, <2>2, <2>4 DEF Ahead
    <3>2. PICK m \in Nat : m = q * HandlerTimeout + rho
      BY <2>3
    <3>3. wait[j] > 0 /\ wait'[j] = wait[j] - 1
      BY <1>2, <3>1, <3>2
    <3> QED BY <2>3, <3>1, <3>3
  <2>6. CASE rho > 0
    <3>1. rho - 1 \in 0..(HandlerTimeout - 1)
      BY <2>6, Arithmetic
    <3>2. Late(t, rho - 1)' = Late(t, rho)
      <4>1. ASSUME NEW j \in RunJobs(t)
            PROVE  left'[t][j] > rho - 1 <=> left[t][j] > rho
        <5>1. left[t][j] \in Nat /\ left'[t][j] = Down(left[t][j])
          BY <1>3, <2>4
        <5> QED BY <2>3, <2>6, <5>1 DEF Down
      <4> QED BY <1>5, <4>1 DEF Late
    <3>3. \A j \in JobsOf(t)' \ Exempt' : wait'[j] > q * HandlerTimeout + (rho - 1)
      BY <1>5, <1>6, <2>3, <2>5
    <3>4. Ahead(t, q, rho - 1)'
      BY <1>1, <1>5, <2>2, <3>2, <3>3 DEF Ahead
    <3> QED BY <3>1, <3>4
  <2>7. CASE rho = 0
    <3>1. Prompt(t)
      BY <1>1
    <3>2. Late(t, 0) = RunJobs(t)
      BY <3>1 DEF Prompt, Late, RunJobs
    <3>3. Cardinality(TodoJobs(t)) \in Nat /\ Cardinality(RunJobs(t)) \in Nat
      BY <2>4, Fewer
    <3>4. Cardinality(TodoJobs(t)) + Cardinality(RunJobs(t)) <= held[t] * q
      BY <2>2, <2>7, <3>2 DEF Ahead
    <3>5. Cardinality(RunJobs(t)) > 0
      <4>1. RunJobs(t) # {} /\ IsFiniteSet(RunJobs(t))
        BY <2>4, <3>1, Fewer DEF Prompt, RunJobs
      <4> QED BY <3>3, <4>1, FS_EmptySet
    <3>6. held[t] \in Nat
      BY DEF LeaseInv, Tidy, TypeOK
    <3>7. q - 1 \in 0..Rounds /\ q - 1 \in Nat
      <4>1. q # 0
        BY <3>3, <3>4, <3>5, <3>6
      <4> QED BY <2>3, <4>1, Arithmetic
    <3>8. held[t] * q = held[t] * (q - 1) + held[t]
      BY <2>3, <3>6
    <3>9. held[t] * (q - 1) \in Nat
      BY <3>6, <3>7
    <3>10. Cardinality(TodoJobs(t)) <= held[t] * (q - 1)
      <4>1. CASE todo[t] = {}
        <5>1. Cardinality(TodoJobs(t)) = 0
          BY <4>1, FS_EmptySet DEF TodoJobs
        <5> QED BY <3>9, <5>1
      <4>2. CASE todo[t] # {}
        <5>1. Cardinality(runs[t]) = held[t]
          BY <3>1, <4>2 DEF Prompt
        <5>2. held[t] <= Cardinality(RunJobs(t))
          BY <5>1, RunsCounted DEF LeaseInv
        <5> QED BY <3>3, <3>4, <3>6, <3>8, <3>9, <5>2
      <4> QED BY <4>1, <4>2
    <3>11. Late(t, HandlerTimeout - 1)' = {}
      <4>1. ASSUME NEW j \in RunJobs(t)
            PROVE  ~(left'[t][j] > HandlerTimeout - 1)
        <5>1. left[t][j] \in Nat /\ left'[t][j] = Down(left[t][j]) /\ left[t][j] <= HandlerTimeout
          BY <1>3, <2>4 DEF LeaseInv, Tidy
        <5> QED BY <5>1, Arithmetic DEF Down
      <4> QED BY <1>5, <4>1 DEF Late
    <3>12. Cardinality(TodoJobs(t)') + Cardinality(Late(t, HandlerTimeout - 1)') <= held'[t] * (q - 1)
      <4>1. Cardinality(Late(t, HandlerTimeout - 1)') = 0
        BY <3>11, FS_EmptySet
      <4>2. Cardinality(TodoJobs(t)') = Cardinality(TodoJobs(t)) /\ held'[t] = held[t]
        BY <1>1, <1>5
      <4> QED BY <3>3, <3>10, <4>1, <4>2
    <3>13. q * HandlerTimeout + rho - 1 = (q - 1) * HandlerTimeout + (HandlerTimeout - 1)
      BY <2>3, <2>7, Arithmetic
    <3>14. \A j \in JobsOf(t)' \ Exempt' :
               wait'[j] > (q - 1) * HandlerTimeout + (HandlerTimeout - 1)
      BY <1>5, <1>6, <2>5, <3>13
    <3>15. Ahead(t, q - 1, HandlerTimeout - 1)'
      BY <3>12, <3>14 DEF Ahead
    <3>16. HandlerTimeout - 1 \in 0..(HandlerTimeout - 1)
      BY Arithmetic
    <3> QED BY <3>7, <3>15, <3>16
  <2> QED BY <2>3, <2>6, <2>7
<1> QED BY <1>4, <1>7, <1>8, <1>9 DEF LeaseInv

\* A step that takes no row, hands none out and sets no timer: every tick keeps
\* its batch or has none.
LEMMA SameBatches ==
    ASSUME TypeOK, TypeOK', LeaseInv,
           UNCHANGED <<wait, left, mixed, todo, runs>>, slow' \subseteq slow, RowsScheduled',
           \A u \in Tick :
               \/ /\ phase'[u] = phase[u] /\ held'[u] = held[u]
                  /\ u \in slow => u \in slow'
               \/ /\ todo[u] = {} /\ runs[u] = {} /\ u \notin slow'
                  /\ phase'[u] # "running"
                  /\ phase'[u] = "claiming" => held'[u] > 0,
           \A u \in Tick \ slow : \A j \in JobsOf(u) \ Exempt : row'[j] = row[j]
    PROVE  LeaseInv'
<1>1. TimersTyped /\ TimersTyped' /\ mixed \subseteq mixed'
  BY DEF LeaseInv, TimersTyped
<1>2. ASSUME NEW u \in Tick
      PROVE  /\ Tidy(u)' /\ Leased(u)' /\ InTime(u)'
             /\ JobsOf(u)' = {} \/ (JobsOf(u)' \subseteq JobsOf(u) /\ (u \in slow => u \in slow'))
  <2>1. CASE phase'[u] = phase[u] /\ held'[u] = held[u] /\ (u \in slow => u \in slow')
    <3>1. Tidy(u) /\ Leased(u) /\ InTime(u)
      BY DEF LeaseInv
    <3>2. todo'[u] = todo[u] /\ runs'[u] = runs[u] /\ left'[u] = left[u] /\ (u \in slow <=> u \in slow')
      BY <2>1
    <3>3. u \notin slow => \A j \in JobsOf(u) \ Exempt : row'[j] = row[j] /\ wait'[j] = wait[j]
      OBVIOUS
    <3> QED BY <1>1, <2>1, <3>1, <3>2, <3>3, Bystander
  <2>2. CASE /\ todo[u] = {} /\ runs[u] = {} /\ u \notin slow'
             /\ phase'[u] # "running"
             /\ phase'[u] = "claiming" => held'[u] > 0
    BY <2>2, BareIsFine
  <2> QED BY <2>1, <2>2
<1>3. \A t \in Tick \ slow' :
          JobsOf(t)' = {} \/ (t \notin slow /\ JobsOf(t)' \subseteq JobsOf(t))
  BY <1>2
<1>4. LeaseCoversBatch'
  BY <1>1, <1>3, ApartStays DEF LeaseInv
<1> QED BY <1>1, <1>2, <1>4 DEF LeaseInv

\* A tick that is held up takes its rows out of the promise.
LEMMA HoldUpKeeps ==
    ASSUME TypeOK, TypeOK', LeaseInv, NEW t \in Tick, HoldUp(t)
    PROVE  LeaseInv'
<1>1. /\ phase[t] = "running" /\ t \notin slow
      /\ slow' = slow \cup {t} /\ mixed' = mixed \cup JobsOf(t)
      /\ UNCHANGED <<row, phase, held, todo, runs, wait, left>>
  BY DEF HoldUp, vars
<1>2. TimersTyped /\ TimersTyped' /\ mixed \subseteq mixed'
  BY <1>1, JobsTyped DEF LeaseInv, TimersTyped
<1>3. RowsScheduled'
  BY <1>1 DEF LeaseInv, RowsScheduled, RowExists
<1>4. ASSUME NEW u \in Tick
      PROVE  Tidy(u)' /\ Leased(u)' /\ InTime(u)' /\ JobsOf(u)' \subseteq JobsOf(u)
  <2>1. Tidy(u) /\ Leased(u) /\ InTime(u)
    BY DEF LeaseInv
  <2>2. CASE u # t
    <3>1. u \in slow <=> u \in slow'
      BY <1>1, <2>2
    <3> QED BY <1>1, <1>2, <2>1, <3>1, Bystander
  <2>3. CASE u = t
    <3>1. /\ JobsOf(t)' = JobsOf(t) /\ TodoJobs(t)' = TodoJobs(t)
          /\ RunJobs(t)' = RunJobs(t) /\ t \in slow'
      BY <1>1 DEF JobsOf, TodoJobs, RunJobs
    <3> QED BY <1>1, <2>1, <2>3, <3>1 DEF Tidy, Leased, InTime
  <2> QED BY <2>2, <2>3
<1>5. LeaseCoversBatch'
  BY <1>1, <1>2, <1>4, ApartStays DEF LeaseInv
<1> QED BY <1>2, <1>3, <1>4, <1>5 DEF LeaseInv

\* Enqueueing adds a row nobody has, and a lease that lapses is nobody's.
LEMMA TableKeeps ==
    ASSUME TypeOK, TypeOK', IInv, LeaseInv, NEW j \in Job, LeaseTable(j)
    PROVE  LeaseInv'
<1>1. /\ UNCHANGED <<wait, left, mixed, slow, todo, runs, phase, held>>
      /\ \A i \in Job : i # j => row'[i] = row[i]
  BY DEF LeaseTable, Quiet, timers, Enqueue, RunAtPasses, tickVars, TypeOK
<1>2. ASSUME NEW u \in Tick \ slow, j \in JobsOf(u) \ Exempt
      PROVE  FALSE
  <2>1. row[j].status = "pending" /\ ~row[j].due
    BY <1>2 DEF LeaseInv, Leased
  <2>2. CASE Enqueue(j, TRUE)
    <3>1. j \in OneShot \ enqueued
      BY <2>2 DEF Enqueue
    <3> QED BY <2>1, <3>1 DEF IInv, RowsEnqueued, RowExists
  <2>3. CASE wait[j] = 0
    <3>1. phase[u] = "running"
      BY <1>2 DEF LeaseInv, Tidy, JobsOf
    <3>2. PICK q \in 0..Rounds : \E rho \in 0..(HandlerTimeout - 1) : Ahead(u, q, rho)
      BY <1>2, <3>1 DEF LeaseInv, InTime
    <3>3. PICK rho \in 0..(HandlerTimeout - 1) : Ahead(u, q, rho)
      BY <3>2
    <3>4. q * HandlerTimeout \in Nat /\ rho \in Nat
      BY Arithmetic
    <3>5. wait[j] > q * HandlerTimeout + rho
      BY <1>2, <3>3 DEF Ahead
    <3> QED BY <2>3, <3>4, <3>5
  <2> QED BY <2>2, <2>3 DEF LeaseTable
<1>3. RowsScheduled'
  <2> SUFFICES ASSUME NEW k \in Kind, RowExists(k)' PROVE RowExists(k)
    BY DEF LeaseInv, RowsScheduled
  <2>1. CASE Enqueue(j, TRUE)
    <3>1. k # j /\ k \in Job
      BY <2>1, KindAssumption DEF Enqueue, Job
    <3> QED BY <1>1, <3>1 DEF RowExists
  <2>2. CASE RunAtPasses(j)
    BY <2>2 DEF RunAtPasses, RowExists, TypeOK, Row, Job
  <2> QED BY <2>1, <2>2 DEF LeaseTable
<1>4. \A u \in Tick \ slow : \A i \in JobsOf(u) \ Exempt : row'[i] = row[i]
  BY <1>1, <1>2, JobsTyped
<1> QED BY <1>1, <1>3, <1>4, SameBatches

\* The rows a tick holds survive another pod's maintenance: it seeds only what is
\* missing, and retires no row of a schedule the releases agree on.
LEMMA SyncLeavesBatches ==
    ASSUME TypeOK, LeaseInv, NEW v \in Release, row' = Synced(v, Kind)
    PROVE  /\ RowsScheduled'
           /\ \A u \in Tick \ slow : \A j \in JobsOf(u) \ Exempt : row'[j] = row[j]
<1>1. RowsScheduled'
  <2> SUFFICES ASSUME NEW k \in Kind, RowExists(k)'
               PROVE  \E w \in Release : k \in Schedules[w]
    BY DEF RowsScheduled
  <2>1. k \in Job
    BY DEF Job
  <2>2. RowExists(k) \/ k \in Schedules[v]
    BY <2>1 DEF Synced, Seeded, RowExists, NoRow
  <2> QED BY <2>2 DEF LeaseInv, RowsScheduled
<1>2. ASSUME NEW u \in Tick \ slow, NEW j \in JobsOf(u) \ Exempt
      PROVE  row'[j] = row[j]
  <2>1. j \in Job /\ RowExists(j)
    BY JobsTyped DEF LeaseInv, Leased, RowExists
  <2>2. ~Seeded(j, v)
    BY <2>1 DEF Seeded
  <2>3. ~(j \in Kind /\ Retired(j, v))
    <3> SUFFICES ASSUME j \in Kind, Retired(j, v) PROVE FALSE
      OBVIOUS
    <3>1. j \in Dropped
      BY <2>1 DEF LeaseInv, RowsScheduled, Dropped, Retired
    <3> QED BY <3>1 DEF Exempt
  <2> QED BY <2>1, <2>2, <2>3 DEF Synced
<1> QED BY <1>1, <1>2

\* A tick that ends leaves the other ticks alone.
LEMMA EndTickFrame ==
    ASSUME TypeOK, NEW t \in Tick, EndTick(t)
    PROVE  /\ phase'[t] = "idle"
           /\ \A u \in Tick : u # t => phase'[u] = phase[u] /\ held'[u] = held[u]
  BY DEF EndTick, TypeOK

\* The steps of a tick outside its batch.
LEMMA TickKeeps ==
    ASSUME TypeOK, TypeOK', LeaseInv, NEW t \in Tick,
           \/ StartTick(t) /\ UNCHANGED slow
           \/ Maintain(t) /\ SlowLeft
           \/ ReserveSlots(t) /\ SlowLeft
           \/ NothingToReserve(t) /\ SlowLeft
           \/ FinishTick(t) /\ SlowLeft
           \/ BudgetExpires(t) /\ UNCHANGED slow,
           UNCHANGED <<wait, left, mixed>>
    PROVE  LeaseInv'
<1>1. UNCHANGED <<todo, runs>> /\ slow' \subseteq slow
  BY DEF StartTick, Maintain, ReserveSlots, NothingToReserve, FinishTick, BudgetExpires,
         tickVars, SlowLeft
<1>2. /\ RowsScheduled'
      /\ \A u \in Tick \ slow : \A j \in JobsOf(u) \ Exempt : row'[j] = row[j]
  <2>1. CASE row' = row
    BY <2>1 DEF LeaseInv, RowsScheduled, RowExists
  <2>2. CASE Maintain(t)
    <3>1. release[PodOf[t]] \in Release
      BY TickAssumption DEF TypeOK
    <3> QED BY <2>2, <3>1, SyncLeavesBatches DEF Maintain
  <2> QED BY <2>1, <2>2 DEF StartTick, ReserveSlots, NothingToReserve, FinishTick,
                             BudgetExpires, tableVars
<1>3. \A u \in slow : phase[u] = "running" /\ u \in Tick
  BY DEF LeaseInv, Tidy, TimersTyped
<1>4. ASSUME NEW u \in Tick, u # t
      PROVE  /\ phase'[u] = phase[u] /\ held'[u] = held[u]
             /\ u \in slow => u \in slow'
  <2>1. phase'[u] = phase[u] /\ held'[u] = held[u]
    BY <1>4, EndTickFrame DEF StartTick, Maintain, ReserveSlots, NothingToReserve,
                              FinishTick, BudgetExpires, tickVars, TypeOK
  <2>2. u \in slow => phase'[u] # "idle"
    BY <1>3, <2>1
  <2> QED BY <2>1, <2>2 DEF SlowLeft
<1>5. \/ /\ phase'[t] = phase[t] /\ held'[t] = held[t]
         /\ t \in slow => t \in slow'
      \/ /\ todo[t] = {} /\ runs[t] = {} /\ t \notin slow'
         /\ phase'[t] # "running"
         /\ phase'[t] = "claiming" => held'[t] > 0
  <2>1. CASE BudgetExpires(t) /\ UNCHANGED slow
    BY <2>1 DEF BudgetExpires, tickVars
  <2>2. CASE FinishTick(t) /\ SlowLeft
    <3>1. phase'[t] = "idle" /\ todo[t] = {} /\ runs[t] = {}
      BY <2>2, EndTickFrame DEF FinishTick
    <3> QED BY <2>2, <3>1 DEF SlowLeft
  <2>3. CASE StartTick(t) \/ Maintain(t) \/ ReserveSlots(t) \/ NothingToReserve(t)
    <3>1. phase[t] # "running"
      BY <2>3 DEF StartTick, Maintain, ReserveSlots, NothingToReserve
    <3>2. todo[t] = {} /\ runs[t] = {} /\ t \notin slow'
      BY <1>1, <3>1 DEF LeaseInv, Tidy
    <3>3. /\ phase'[t] # "running"
          /\ phase'[t] = "claiming" => held'[t] > 0
      BY <2>3, EndTickFrame DEF StartTick, Maintain, ReserveSlots, NothingToReserve, TypeOK
    <3> QED BY <3>2, <3>3
  <2> QED BY <2>1, <2>2, <2>3
<1> QED BY <1>1, <1>2, <1>4, <1>5, SameBatches

\* A claim: no row it takes is leased to anybody, and the batch fits the lease.
LEMMA ClaimKeepsLease ==
    ASSUME TypeOK, TypeOK', LeaseInv, NEW t \in Tick, NEW S \in SUBSET Job, Claim(t, S),
           wait' = [j \in Job |-> IF j \in S THEN Lease ELSE wait[j]],
           UNCHANGED <<left, slow, mixed>>
    PROVE  LeaseInv'
<1> DEFINE bumped(j) == Lesser(row[j].attempts + 1, MaxAttempts)
           runners == Lesser(held[t], Cardinality(S))
<1>1. /\ phase[t] = "claiming" /\ S \subseteq Due(PodOf[t])
      /\ Cardinality(S) = Lesser(ClaimLimit(t), Cardinality(Due(PodOf[t])))
      /\ row' = [j \in Job |->
                   IF j \in S THEN [row[j] EXCEPT !.attempts = bumped(j), !.due = FALSE]
                   ELSE row[j]]
      /\ todo' = [todo EXCEPT ![t] = {[job |-> j, attempts |-> bumped(j)] : j \in S}]
      /\ held' = [held EXCEPT ![t] = runners]
      /\ phase' = [phase EXCEPT ![t] = "running"]
      /\ runs' = runs
  BY DEF Claim
<1>2. Cardinality(S) \in Nat /\ Cardinality(Due(PodOf[t])) \in Nat
  BY Fewer DEF Due
<1>3. t \notin slow /\ held[t] > 0 /\ held[t] \in Nat /\ todo[t] = {} /\ runs[t] = {}
  <2>1. held[t] > 0 /\ held[t] \in Int /\ t \notin slow /\ todo[t] = {} /\ runs[t] = {}
    BY <1>1 DEF LeaseInv, Tidy, TypeOK
  <2> QED BY <2>1
<1>4. /\ runners \in Nat
      /\ Cardinality(S) <= runners * Rounds
  <2>1. PICK n \in Nat : n = held[t] * Rounds
    BY <1>3, Arithmetic
  <2>2. Cardinality(S) <= n
    <3>1. ClaimLimit(t) = Lesser(ClaimBatch, n)
      BY <2>1 DEF ClaimLimit
    <3>2. ClaimLimit(t) \in Int /\ ClaimLimit(t) <= n
      BY <2>1, <3>1, LimitAssumption DEF Lesser
    <3>3. Cardinality(S) <= ClaimLimit(t)
      <4>1. PICK l \in Int : l = ClaimLimit(t)
        BY <3>2
      <4>2. PICK d \in Nat : d = Cardinality(Due(PodOf[t]))
        BY <1>2
      <4>3. Cardinality(S) = Lesser(l, d)
        BY <1>1, <4>1, <4>2
      <4> QED BY <4>1, <4>3 DEF Lesser
    <3> QED BY <1>2, <2>1, <3>2, <3>3
  <2>3. CASE held[t] <= Cardinality(S)
    <3>1. runners = held[t]
      BY <2>3 DEF Lesser
    <3> QED BY <1>3, <2>1, <2>2, <3>1
  <2>4. CASE ~(held[t] <= Cardinality(S))
    <3>1. runners = Cardinality(S)
      BY <2>4 DEF Lesser
    <3>2. PICK m \in Nat : m = Cardinality(S)
      BY <1>2
    <3>3. m <= m * Rounds
      BY Arithmetic
    <3> QED BY <3>1, <3>2, <3>3
  <2> QED BY <2>3, <2>4
<1>5. todo'[t] = {[job |-> j, attempts |-> bumped(j)] : j \in S}
  BY <1>1 DEF TypeOK
<1>6. held'[t] = runners /\ phase'[t] = "running" /\ runs'[t] = {}
  BY <1>1, <1>3 DEF TypeOK
<1> HIDE DEF bumped, runners
<1>7. /\ TodoJobs(t)' = S /\ RunJobs(t)' = {} /\ JobsOf(t)' = S
      /\ \A c, d \in todo'[t] : c.job = d.job => c = d
  <2>1. \A c : c \in todo'[t] <=> \E j \in S : c = [job |-> j, attempts |-> bumped(j)]
    BY <1>5
  <2>2. TodoJobs(t)' = S
    <3>1. \A c \in todo'[t] : c.job \in S
      BY <2>1
    <3>2. ASSUME NEW j \in S PROVE \E c \in todo'[t] : c.job = j
      <4>1. [job |-> j, attempts |-> bumped(j)] \in todo'[t]
        BY <2>1
      <4>2. [job |-> j, attempts |-> bumped(j)].job = j
        OBVIOUS
      <4> QED BY <4>1, <4>2
    <3> QED BY <3>1, <3>2 DEF TodoJobs
  <2>3. RunJobs(t)' = {}
    BY <1>6 DEF RunJobs
  <2>4. JobsOf(t)' = S
    BY <2>2, <1>6 DEF TodoJobs, JobsOf
  <2>5. \A c, d \in todo'[t] : c.job = d.job => c = d
    BY <2>1
  <2> QED BY <2>2, <2>3, <2>4, <2>5
<1>8. \A j \in Job : /\ wait[j] \in Nat
                     /\ j \in S => wait'[j] = Lease
                     /\ j \notin S => wait'[j] = wait[j] /\ row'[j] = row[j]
  BY <1>1 DEF LeaseInv, TimersTyped
<1>9. TimersTyped /\ TimersTyped'
  BY <1>8, Arithmetic DEF LeaseInv, TimersTyped
<1>10. \A j \in S : row'[j].status = "pending" /\ ~row'[j].due
  <2> SUFFICES ASSUME NEW j \in S PROVE row'[j].status = "pending" /\ ~row'[j].due
    OBVIOUS
  <2>1. row[j].status = "pending" /\ row[j] \in Row
    BY <1>1 DEF Due, TypeOK
  <2> QED BY <1>1, <2>1 DEF Row
<1>11. ASSUME NEW u \in Tick, u # t, u \notin slow, NEW j \in JobsOf(u) \ Exempt
       PROVE  j \in Job /\ j \notin S
  BY <1>1, <1>11, JobsTyped DEF LeaseInv, Leased, Due
<1>12. ASSUME NEW u \in Tick, u # t
       PROVE  Tidy(u)' /\ Leased(u)' /\ InTime(u)' /\ JobsOf(u)' \subseteq JobsOf(u)
  <2>1. /\ phase'[u] = phase[u] /\ held'[u] = held[u] /\ todo'[u] = todo[u]
        /\ runs'[u] = runs[u] /\ left'[u] = left[u] /\ (u \in slow <=> u \in slow')
    BY <1>1, <1>12 DEF TypeOK
  <2>2. u \notin slow => \A j \in JobsOf(u) \ Exempt : row'[j] = row[j] /\ wait'[j] = wait[j]
    BY <1>8, <1>11, <1>12
  <2>3. Tidy(u) /\ Leased(u) /\ InTime(u) /\ mixed \subseteq mixed'
    BY DEF LeaseInv
  <2> QED BY <1>9, <2>1, <2>2, <2>3, Bystander
<1>13. Tidy(t)'
  BY <1>3, <1>4, <1>6, <1>7 DEF Tidy
<1>14. Leased(t)'
  BY <1>7, <1>10 DEF Leased
<1>15. InTime(t)'
  <2>1. Late(t, 0)' = {}
    BY <1>7 DEF Late
  <2>2. Cardinality(TodoJobs(t)') = Cardinality(S) /\ Cardinality(Late(t, 0)') = 0
    BY <1>7, <2>1, FS_EmptySet
  <2>3. Cardinality(TodoJobs(t)') + Cardinality(Late(t, 0)') <= held'[t] * Rounds
    BY <1>2, <1>4, <1>6, <2>2
  <2>4. \A j \in JobsOf(t)' \ Exempt' : wait'[j] > Rounds * HandlerTimeout + 0
    BY <1>7, <1>8, Arithmetic
  <2>5. Ahead(t, Rounds, 0)'
    BY <2>3, <2>4 DEF Ahead
  <2>6. Rounds \in 0..Rounds /\ 0 \in 0..(HandlerTimeout - 1)
    BY Arithmetic
  <2> QED BY <2>5, <2>6 DEF InTime
<1>16. RowsScheduled'
  <2>1. \A j \in Job : RowExists(j)' => RowExists(j)
    BY <1>1, <1>8 DEF Due, RowExists
  <2> QED BY <2>1 DEF LeaseInv, RowsScheduled, Job
<1>17. LeaseCoversBatch'
  <2> SUFFICES ASSUME NEW a \in Tick \ slow, NEW b \in Tick \ slow, a # b,
                      NEW j \in JobsOf(a)' \cap JobsOf(b)'
               PROVE  j \in Exempt
    BY DEF LeaseCoversBatch, Exempt, Dropped
  <2>1. CASE a # t /\ b # t
    <3>1. j \in JobsOf(a) /\ j \in JobsOf(b)
      BY <1>12, <2>1
    <3> QED BY <3>1, OtherBatch
  <2>2. CASE a = t
    <3>1. b # t /\ j \in JobsOf(b) /\ j \in S
      BY <1>7, <1>12, <2>2
    <3> QED BY <1>11, <3>1
  <2>3. CASE b = t
    <3>1. a # t /\ j \in JobsOf(a) /\ j \in S
      BY <1>7, <1>12, <2>3
    <3> QED BY <1>11, <3>1
  <2> QED BY <2>1, <2>2, <2>3
<1> QED BY <1>9, <1>12, <1>13, <1>14, <1>15, <1>16, <1>17 DEF LeaseInv

\* A runner takes the next row: one fewer is queued, and its handler gets its
\* whole timeout.
LEMMA StartKeepsLease ==
    ASSUME TypeOK, TypeOK', LeaseInv, NEW t \in Tick, NEW c \in todo[t], StartJob(t, c),
           left' = [left EXCEPT ![t][c.job] = HandlerTimeout],
           UNCHANGED <<wait, slow, mixed>>
    PROVE  LeaseInv'
<1> DEFINE s == [job |-> c.job, attempts |-> c.attempts, at |-> "handler"]
<1>1. /\ phase[t] = "running"
      /\ todo' = [todo EXCEPT ![t] = @ \ {c}]
      /\ runs' = [runs EXCEPT ![t] = @ \cup {s}]
      /\ UNCHANGED <<row, phase, held>>
  BY DEF StartJob, tableVars
<1>2. PICK j \in Job : j = c.job
  BY DEF TypeOK, Claimed
<1>3. s.job = j
  BY <1>2
<1> HIDE DEF s
<1>4. todo'[t] = todo[t] \ {c} /\ runs'[t] = runs[t] \cup {s}
  BY <1>1 DEF TypeOK
<1>5. j \in TodoJobs(t) /\ j \notin RunJobs(t)
  <2>1. j \in TodoJobs(t)
    BY <1>2 DEF TodoJobs
  <2> QED BY <2>1 DEF LeaseInv, Tidy
<1>6. TodoJobs(t)' = TodoJobs(t) \ {j}
  <2>1. \A d \in todo[t] : d.job = j => d = c
    BY <1>2 DEF LeaseInv, Tidy
  <2> QED BY <1>2, <1>4, <2>1 DEF TodoJobs
<1>7. RunJobs(t)' = RunJobs(t) \cup {j}
  BY <1>3, <1>4 DEF RunJobs
<1>8. JobsOf(t) = TodoJobs(t) \cup RunJobs(t) /\ JobsOf(t)' = JobsOf(t)
  BY <1>2, <1>3, <1>4 DEF TodoJobs, RunJobs, JobsOf
<1>9. /\ \A i \in Job : left'[t][i] = IF i = j THEN HandlerTimeout ELSE left[t][i]
      /\ \A u \in Tick : u # t => left'[u] = left[u]
      /\ left' \in [Tick -> [Job -> Nat]]
  BY <1>2, Arithmetic DEF LeaseInv, TimersTyped
<1>10. TimersTyped /\ TimersTyped' /\ mixed \subseteq mixed'
  BY <1>9 DEF LeaseInv, TimersTyped
<1>11. Exempt' = Exempt
  BY DEF Exempt, Dropped
<1>12. TodoJobs(t) \subseteq Job /\ RunJobs(t) \subseteq Job /\ JobsOf(t) \subseteq Job
  BY JobsTyped
<1>13. Tidy(t)'
  <2>1. \A a, b \in todo'[t] : a.job = b.job => a = b
    BY <1>4 DEF LeaseInv, Tidy
  <2>2. \A a, b \in runs'[t] : a.job = b.job => a = b
    <3>1. \A r \in runs[t] : r.job # j
      BY <1>5 DEF RunJobs
    <3> QED BY <1>3, <1>4, <3>1 DEF LeaseInv, Tidy
  <2>3. \A i \in RunJobs(t)' : left'[t][i] <= HandlerTimeout
    BY <1>7, <1>9, <1>12, Arithmetic DEF LeaseInv, Tidy
  <2>4. TodoJobs(t)' \cap RunJobs(t)' = {}
    BY <1>5, <1>6, <1>7 DEF LeaseInv, Tidy
  <2>5. phase'[t] = "running" /\ held'[t] >= 0 /\ (t \in slow' => JobsOf(t)' \subseteq mixed')
    BY <1>1, <1>8 DEF LeaseInv, Tidy
  <2> QED BY <2>1, <2>2, <2>3, <2>4, <2>5 DEF Tidy
<1>14. Leased(t)'
  BY <1>1, <1>8, <1>11 DEF LeaseInv, Leased
<1>15. InTime(t)'
  <2> SUFFICES ASSUME t \notin slow
               PROVE  \E q \in 0..Rounds : \E rho \in 0..(HandlerTimeout - 1) : Ahead(t, q, rho)'
    BY DEF InTime
  <2>1. PICK q \in 0..Rounds : \E rho \in 0..(HandlerTimeout - 1) : Ahead(t, q, rho)
    BY <1>1 DEF LeaseInv, InTime
  <2>2. PICK rho \in 0..(HandlerTimeout - 1) : Ahead(t, q, rho)
    BY <2>1
  <2>3. Late(t, rho)' \subseteq Late(t, rho) \cup {j}
    BY <1>7, <1>9, <1>12 DEF Late
  <2>4. Late(t, rho) \subseteq Job /\ Late(t, rho) \cup {j} \subseteq Job
    BY <1>12 DEF Late
  <2>5. /\ IsFiniteSet(Late(t, rho)) /\ IsFiniteSet(TodoJobs(t))
        /\ Cardinality(Late(t, rho)) \in Nat /\ Cardinality(TodoJobs(t)) \in Nat
    BY <1>12, <2>4, Fewer
  <2>6. /\ Cardinality(Late(t, rho)') \in Nat
        /\ Cardinality(Late(t, rho)') <= Cardinality(Late(t, rho)) + 1
    <3>1. Cardinality(Late(t, rho) \cup {j}) <= Cardinality(Late(t, rho)) + 1
      <4>1. PICK A : A = Late(t, rho)
        OBVIOUS
      <4>2. IsFiniteSet(A) /\ Cardinality(A) \in Nat
        BY <2>5, <4>1
      <4>3. Cardinality(A \cup {j}) = IF j \in A THEN Cardinality(A) ELSE Cardinality(A) + 1
        BY <4>2, FS_AddElement
      <4>4. Cardinality(A \cup {j}) <= Cardinality(A) + 1
        BY <4>2, <4>3
      <4> QED BY <4>1, <4>4
    <3>2. /\ Cardinality(Late(t, rho)') \in Nat /\ Cardinality(Late(t, rho) \cup {j}) \in Nat
          /\ Cardinality(Late(t, rho)') <= Cardinality(Late(t, rho) \cup {j})
      BY <2>3, <2>4, Fewer
    <3> QED BY <2>5, <3>1, <3>2
  <2>7. Cardinality(TodoJobs(t)') = Cardinality(TodoJobs(t)) - 1
    BY <1>5, <1>6, <2>5, FS_RemoveElement
  <2>8. PICK b \in Int : b = held[t] * q
    BY Arithmetic DEF TypeOK
  <2>9. Cardinality(TodoJobs(t)) + Cardinality(Late(t, rho)) <= b
    BY <2>2, <2>8 DEF Ahead
  <2>10. held'[t] * q = b
    BY <1>1, <2>8
  <2>11. Cardinality(TodoJobs(t)') + Cardinality(Late(t, rho)') <= held'[t] * q
    BY <2>5, <2>6, <2>7, <2>9, <2>10
  <2>12. Ahead(t, q, rho)'
    BY <1>8, <1>11, <2>2, <2>11 DEF Ahead
  <2> QED BY <2>12
<1>16. ASSUME NEW u \in Tick, u # t
       PROVE  Tidy(u)' /\ Leased(u)' /\ InTime(u)' /\ JobsOf(u)' \subseteq JobsOf(u)
  <2>1. /\ phase'[u] = phase[u] /\ held'[u] = held[u] /\ todo'[u] = todo[u]
        /\ runs'[u] = runs[u] /\ left'[u] = left[u] /\ (u \in slow <=> u \in slow')
    BY <1>1, <1>9, <1>16 DEF TypeOK
  <2>2. u \notin slow => \A i \in JobsOf(u) \ Exempt : row'[i] = row[i] /\ wait'[i] = wait[i]
    BY <1>1
  <2>3. Tidy(u) /\ Leased(u) /\ InTime(u)
    BY DEF LeaseInv
  <2> QED BY <1>10, <2>1, <2>2, <2>3, Bystander
<1>17. RowsScheduled'
  BY <1>1 DEF LeaseInv, RowsScheduled, RowExists
<1>18. LeaseCoversBatch'
  BY <1>8, <1>10, <1>16, ApartStays DEF LeaseInv
<1> QED BY <1>10, <1>13, <1>14, <1>15, <1>16, <1>17, <1>18 DEF LeaseInv

\* A runner moves on or settles its row: its tick keeps the rest, and no other
\* tick cares for the row it writes.
LEMMA RunnerKeeps ==
    ASSUME TypeOK, TypeOK', LeaseInv, NEW t \in Tick, NEW r \in runs[t],
           UNCHANGED <<phase, held, todo, slow, mixed>>,
           TimersTyped', RowsScheduled',
           \/ Leave(t, r)
           \/ \E at : Move(t, r, at) /\ UNCHANGED <<row, wait>>,
           \A u \in Tick : u # t => left'[u] = left[u],
           \A j \in Job : left'[t][j] <= left[t][j],
           \A j \in Job : j # r.job => row'[j] = row[j] /\ wait'[j] = wait[j]
    PROVE  LeaseInv'
<1>1. TimersTyped /\ Tidy(t)
  BY DEF LeaseInv
<1>2. r.job \in RunJobs(t) /\ r.job \in JobsOf(t) /\ r \in Run
  BY DEF RunJobs, JobsOf, TypeOK
<1>3. PICK s : s.job = r.job /\ runs'[t] \subseteq (runs[t] \ {r}) \cup {s}
                /\ (Leave(t, r) \/ UNCHANGED <<row, wait>>)
                /\ (Leave(t, r) => runs'[t] = runs[t] \ {r})
  <2>1. CASE Leave(t, r)
    <3>1. runs'[t] = runs[t] \ {r}
      BY <2>1 DEF Leave, TypeOK
    <3> QED BY <2>1, <3>1
  <2>2. CASE \E at : Move(t, r, at) /\ UNCHANGED <<row, wait>>
    <3>1. PICK at : Move(t, r, at) /\ UNCHANGED <<row, wait>>
      BY <2>2
    <3>2. runs'[t] = (runs[t] \ {r}) \cup {[r EXCEPT !.at = at]}
      BY <3>1 DEF Move, TypeOK
    <3>3. [r EXCEPT !.at = at].job = r.job
      BY <1>2 DEF Run
    <3>4. CASE Leave(t, r)
      <4>1. runs'[t] = runs[t] \ {r}
        BY <3>4 DEF Leave, TypeOK
      <4> QED BY <3>4, <4>1
    <3> QED BY <3>1, <3>2, <3>3, <3>4
  <2> QED BY <2>1, <2>2
<1>4. \A x \in runs[t] \ {r} : x.job # r.job
  BY <1>1 DEF Tidy
<1>5. /\ RunJobs(t)' \subseteq RunJobs(t)
      /\ \A x, y \in runs'[t] : x.job = y.job => x = y
  <2>1. \A x \in runs'[t] : x \in runs[t] \/ x = s
    BY <1>3
  <2>2. RunJobs(t)' \subseteq RunJobs(t)
    BY <1>2, <1>3, <2>1 DEF RunJobs
  <2>3. \A x, y \in runs'[t] : x.job = y.job => x = y
    BY <1>1, <1>3, <1>4 DEF Tidy
  <2> QED BY <2>2, <2>3
<1>6. \A j \in RunJobs(t)' : left'[t][j] <= left[t][j]
  BY <1>5, JobsTyped
<1>7. \A j \in JobsOf(t)' \ Exempt : row'[j] = row[j] /\ wait'[j] = wait[j]
  <2>1. CASE Leave(t, r)
    <3>1. r.job \notin TodoJobs(t)
      BY <1>1, <1>2 DEF Tidy
    <3>2. r.job \notin JobsOf(t)'
      BY <1>3, <1>4, <2>1, <3>1 DEF JobsOf, TodoJobs
    <3>3. JobsOf(t)' \subseteq Job
      BY <1>2, JobsTyped, <1>5 DEF JobsOf, TypeOK, Claimed, Run
    <3> QED BY <3>2, <3>3
  <2>2. CASE ~Leave(t, r)
    BY <1>3, <2>2
  <2> QED BY <2>1, <2>2
<1>8. Tidy(t)' /\ Leased(t)' /\ InTime(t)' /\ JobsOf(t)' \subseteq JobsOf(t)
  <2>1. Leased(t) /\ InTime(t)
    BY DEF LeaseInv
  <2>2. phase'[t] = phase[t] /\ held'[t] = held[t] /\ todo'[t] = todo[t] /\ (t \in slow <=> t \in slow')
    OBVIOUS
  <2> QED BY <1>1, <1>5, <1>6, <1>7, <2>1, <2>2, BatchShrinks
<1>9. ASSUME NEW u \in Tick, u # t
      PROVE  Tidy(u)' /\ Leased(u)' /\ InTime(u)' /\ JobsOf(u)' \subseteq JobsOf(u)
  <2>1. /\ phase'[u] = phase[u] /\ held'[u] = held[u] /\ todo'[u] = todo[u]
        /\ runs'[u] = runs[u] /\ left'[u] = left[u] /\ (u \in slow <=> u \in slow')
    BY <1>9 DEF Leave, Move, TypeOK
  <2>2. u \notin slow => \A i \in JobsOf(u) \ Exempt : row'[i] = row[i] /\ wait'[i] = wait[i]
    <3>1. u \notin slow => r.job \notin JobsOf(u) \ Exempt
      BY <1>2, <1>9, OtherBatch
    <3> QED BY <3>1, JobsTyped
  <2>3. Tidy(u) /\ Leased(u) /\ InTime(u)
    BY DEF LeaseInv
  <2> QED BY <1>1, <2>1, <2>2, <2>3, Bystander
<1>10. LeaseCoversBatch'
  BY <1>8, <1>9, ApartStays DEF LeaseInv
<1> QED BY <1>8, <1>9, <1>10 DEF LeaseInv

\* The runner's steps, with the timers they set.
LEMMA RunnerStepKeepsLease ==
    ASSUME TypeOK, TypeOK', LeaseInv, NEW t \in Tick, LeaseRunner(t)
    PROVE  LeaseInv'
<1> USE DEF tableVars, podVars
<1>1. CASE \E c \in todo[t] : StartJob(t, c) /\ left' = [left EXCEPT ![t][c.job] = HandlerTimeout]
                                /\ UNCHANGED <<wait, budget, slow, mixed, slowed>>
  BY <1>1, StartKeepsLease
<1>2. \A i \in Job : left[t][i] \in Nat /\ wait[i] \in Nat
  BY DEF LeaseInv, TimersTyped
<1>3. \A i \in Job : left[t][i] <= left[t][i]
  BY <1>2
<1>4. ASSUME NEW r \in runs[t], HandlerReturns(t, r) \/ HandlerThrows(t, r),
             left' = [left EXCEPT ![t][r.job] = 0], UNCHANGED <<wait, slow, mixed>>
      PROVE  LeaseInv'
  <2>1. /\ UNCHANGED <<row, phase, held, todo>>
        /\ \E at : Move(t, r, at)
    BY <1>4 DEF HandlerReturns, HandlerThrows
  <2>2. r.job \in Job
    BY DEF TypeOK, Run
  <2>3. TimersTyped'
    BY <1>4, <2>2 DEF LeaseInv, TimersTyped
  <2>4. \A u \in Tick : u # t => left'[u] = left[u]
    BY <1>4 DEF LeaseInv, TimersTyped
  <2>5. \A i \in Job : left'[t][i] <= left[t][i]
    <3>1. \A i \in Job : left'[t][i] = IF i = r.job THEN 0 ELSE left[t][i]
      BY <1>4, <2>2 DEF LeaseInv, TimersTyped
    <3> QED BY <1>2, <3>1
  <2>6. RowsScheduled'
    BY <2>1 DEF LeaseInv, RowsScheduled, RowExists
  <2>7. \A i \in Job : i # r.job => row'[i] = row[i] /\ wait'[i] = wait[i]
    BY <1>4, <2>1
  <2>8. \E at : Move(t, r, at) /\ UNCHANGED <<row, wait>>
    BY <1>4, <2>1
  <2> QED BY <1>4, <2>1, <2>3, <2>4, <2>5, <2>6, <2>7, <2>8, RunnerKeeps
<1>5. ASSUME NEW r \in runs[t], HandlerTimesOut(t, r), UNCHANGED timers
      PROVE  LeaseInv'
  <2>1. /\ UNCHANGED <<row, phase, held, todo, wait, left, slow, mixed>>
        /\ \E at : Move(t, r, at) /\ UNCHANGED <<row, wait>>
    BY <1>5 DEF HandlerTimesOut, timers
  <2>2. TimersTyped' /\ RowsScheduled'
    BY <2>1 DEF LeaseInv, TimersTyped, RowsScheduled, RowExists
  <2>3. \A u \in Tick : u # t => left'[u] = left[u]
    BY <2>1
  <2>4. \A i \in Job : left'[t][i] <= left[t][i]
    BY <1>3, <2>1
  <2>5. \A i \in Job : i # r.job => row'[i] = row[i] /\ wait'[i] = wait[i]
    BY <2>1
  <2> QED BY <2>1, <2>2, <2>3, <2>4, <2>5, RunnerKeeps
<1>6. ASSUME NEW r \in runs[t], RecordSuccess(t, r) \/ RecordFailure(t, r),
             NEW n \in Nat, wait' = [wait EXCEPT ![r.job] = n], UNCHANGED <<left, slow, mixed>>
      PROVE  LeaseInv'
  <2>1. UNCHANGED <<phase, held, todo>> /\ Leave(t, r)
    BY <1>6 DEF RecordSuccess, RecordFailure
  <2>2. TimersTyped'
    BY <1>6 DEF LeaseInv, TimersTyped
  <2>3. \A i \in Job : i # r.job => row'[i] = row[i]
    BY <1>6 DEF RecordSuccess, RecordFailure, TypeOK
  <2>4. \A i \in Job : i # r.job => wait'[i] = wait[i]
    BY <1>6 DEF LeaseInv, TimersTyped
  <2>5. RowsScheduled'
    <3> SUFFICES ASSUME NEW k \in Kind, RowExists(k)' PROVE RowExists(k)
      BY DEF LeaseInv, RowsScheduled
    <3>1. k \in Job
      BY DEF Job
    <3>2. CASE k # r.job
      BY <2>3, <3>1, <3>2 DEF RowExists
    <3>3. CASE k = r.job
      BY <1>6, <3>3 DEF RecordSuccess, RecordFailure, RowExists
    <3> QED BY <3>2, <3>3
  <2>6. \A u \in Tick : u # t => left'[u] = left[u]
    BY <1>6
  <2>7. \A i \in Job : left'[t][i] <= left[t][i]
    BY <1>3, <1>6
  <2>8. \A i \in Job : i # r.job => row'[i] = row[i] /\ wait'[i] = wait[i]
    BY <2>3, <2>4
  <2> QED BY <1>6, <2>1, <2>2, <2>5, <2>6, <2>7, <2>8, RunnerKeeps
<1>7. ASSUME NEW r \in runs[t], RecordSuccess(t, r),
             wait' = [wait EXCEPT ![r.job] = IF r.job \in OneShot THEN 0 ELSE Interval],
             UNCHANGED <<left, slow, mixed>>
      PROVE  LeaseInv'
  <2>1. (IF r.job \in OneShot THEN 0 ELSE Interval) \in Nat
    BY Arithmetic
  <2> QED BY <1>6, <1>7, <2>1
<1>8. ASSUME NEW r \in runs[t], RecordFailure(t, r),
             wait' = [wait EXCEPT ![r.job] = IF Exhausted(r) THEN 0 ELSE BackoffTime],
             UNCHANGED <<left, slow, mixed>>
      PROVE  LeaseInv'
  <2>1. (IF Exhausted(r) THEN 0 ELSE BackoffTime) \in Nat
    BY Arithmetic
  <2> QED BY <1>6, <1>8, <2>1
<1> QED BY <1>1, <1>4, <1>5, <1>7, <1>8 DEF LeaseRunner, Quiet

\* A step of a tick outside its runners keeps the invariant too.
LEMMA TickStepKeepsLease ==
    ASSUME TypeOK, TypeOK', LeaseInv, NEW t \in Tick, LeaseTick(t)
    PROVE  LeaseInv'
<1>1. CASE \E S \in SUBSET Job :
              /\ Claim(t, S)
              /\ wait' = [j \in Job |-> IF j \in S THEN Lease ELSE wait[j]]
              /\ UNCHANGED <<left, budget, slow, mixed, slowed>>
  BY <1>1, ClaimKeepsLease
<1>2. CASE StartTick(t) /\ UNCHANGED <<wait, left, slow, mixed, slowed>>
  BY <1>2, TickKeeps
<1>3. CASE /\ Maintain(t) \/ ReserveSlots(t) \/ NothingToReserve(t) \/ FinishTick(t)
           /\ SlowLeft
           /\ UNCHANGED <<wait, left, mixed, slowed>>
  BY <1>3, TickKeeps
<1>4. CASE BudgetExpires(t) /\ Quiet
  BY <1>4, TickKeeps DEF Quiet, timers
<1> QED BY <1>1, <1>2, <1>3, <1>4 DEF LeaseTick

\* Every step keeps the lease ahead of the work.
LEMMA LeaseStepKeeps ==
    ASSUME TypeOK, TypeOK', IInv, LeaseInv, [LeaseNext]_leaseVars
    PROVE  LeaseInv'
<1>1. ASSUME UNCHANGED <<row, phase, held, todo, runs, wait, left, slow, mixed>>
      PROVE  LeaseInv'
  <2>1. RowsScheduled'
    BY <1>1 DEF LeaseInv, RowsScheduled, RowExists
  <2>2. \A u \in Tick : phase'[u] = phase[u] /\ held'[u] = held[u] /\ (u \in slow => u \in slow')
    BY <1>1
  <2>3. \A u \in Tick \ slow : \A j \in JobsOf(u) \ Exempt : row'[j] = row[j]
    BY <1>1
  <2> QED BY <1>1, <2>1, <2>2, <2>3, SameBatches
<1>2. CASE Advance
  BY <1>2, AdvanceKeeps
<1>3. CASE \E t \in Tick : HoldUp(t)
  BY <1>3, HoldUpKeeps
<1>4. CASE \E j \in Job : LeaseTable(j)
  BY <1>4, TableKeeps
<1>5. CASE \E t \in Tick : LeaseTick(t) \/ LeaseRunner(t)
  BY <1>5, TickStepKeepsLease, RunnerStepKeepsLease
<1>6. CASE \E p \in Pod, j \in Job, completed \in BOOLEAN :
               OverrunEnds(p, j, completed) /\ Quiet
  BY <1>6, <1>1 DEF OverrunEnds, Quiet, timers, tableVars, tickVars
<1>7. CASE UNCHANGED leaseVars
  BY <1>7, <1>1 DEF leaseVars, timers, vars
<1> QED BY <1>2, <1>3, <1>4, <1>5, <1>6, <1>7 DEF LeaseNext

\* The invariant of the clock: what a tick has left to do never takes longer
\* than what is left of its leases.
THEOREM LeaseInvariance == LeaseSpec => []LeaseInv
<1>1. LeaseInit => LeaseInv
  <2> SUFFICES ASSUME LeaseInit PROVE LeaseInv
    OBVIOUS
  <2>1. /\ TimersTyped /\ slow = {} /\ mixed = {}
        /\ \A t \in Tick : phase[t] = "idle" /\ todo[t] = {} /\ runs[t] = {}
        /\ \A j \in Job : row[j].status = "none"
    BY DEF LeaseInit, Init, TimersTyped, NoRow
  <2>2. \A t \in Tick : JobsOf(t) = {} /\ TodoJobs(t) = {} /\ RunJobs(t) = {}
    BY <2>1 DEF JobsOf, TodoJobs, RunJobs
  <2>3. RowsScheduled
    BY <2>1 DEF RowsScheduled, RowExists, Job
  <2> QED BY <2>1, <2>2, <2>3 DEF LeaseInv, LeaseCoversBatch, Tidy, Leased, InTime
<1>2. TypeOK /\ TypeOK' /\ IInv /\ LeaseInv /\ [LeaseNext]_leaseVars => LeaseInv'
  BY LeaseStepKeeps
<1> QED BY <1>1, <1>2, LeaseImplementsQueue, TypeCorrect, Invariance, PTL DEF LeaseSpec

\* The lease is long enough: for any number of pods, ticks, rows and releases and
\* any limits and timers in the chain Rounds * HandlerTimeout < TickBudget < Lease,
\* no row is claimed while a tick that is not held up has it.
THEOREM LeasesHold == LeaseSpec => []LeaseCoversBatch
<1>1. LeaseInv => LeaseCoversBatch
  BY DEF LeaseInv
<1> QED BY <1>1, LeaseInvariance, PTL

=============================================================================
