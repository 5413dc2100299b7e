------------------------------ MODULE JobQueue ------------------------------
(***************************************************************************)
(* The leased job table of the API (services/jobs/queue.ts) and the worker *)
(* every pod runs over it (services/jobs/worker.ts, services/tickWorker.ts)*)
(*                                                                         *)
(* Pods share nothing but the table.  A row is claimed by pushing its      *)
(* run_at a lease into the future, run outside any transaction, and        *)
(* settled by a second statement that names the row and nothing else: no   *)
(* claim token fences it.  Here time is abstracted to what the code tests, *)
(* whether run_at <= now(): the row's due flag.  Any delay between any two *)
(* steps is possible, so what holds here holds however slow a handler, a   *)
(* statement or a pod is.  JobLease adds the clock.                        *)
(*                                                                         *)
(* A statement is one atomic step; those of syncPeriodicJobs touch a row   *)
(* each and are taken as one.  SKIP LOCKED makes concurrent claims         *)
(* equivalent to one claim after the other.  A schedule that is deleted    *)
(* and seeded again keeps its id here, so the late settlement of a deleted *)
(* row, which in the code matches nothing, may also reach its successor.   *)
(***************************************************************************)
EXTENDS Integers, FiniteSets

CONSTANTS
    OneShot,          \* ids of the one-shot jobs that may be enqueued
    Kind,             \* job kinds; a kind is also the id of its schedule row
    KindOf,           \* the kind of each one-shot job
    Pod,              \* API processes
    Tick,             \* executions of runDueJobs that may be live at once ...
    PodOf,            \* ... and the pod each belongs to
    NoTick,           \* the latch of a pod that is not ticking
    Release,          \* numbers of the releases a rolling deploy goes through
    Handles,          \* kinds registered by each release
    Schedules,        \* kinds each release registers with intervalSeconds
    MaxAttempts,      \* MAX_ATTEMPTS
    ClaimBatch,       \* CLAIM_BATCH
    MaxConcurrent,    \* MAX_CONCURRENT_JOBS
    Rounds,           \* ROUNDS_PER_TICK
    MaintenanceEvery, \* MAINTENANCE_EVERY_TICKS
    MaxFaults         \* bound: failed statements, handler timeouts and restarts
                      \* in a behaviour

Job == OneShot \cup Kind

ASSUME KindAssumption ==
    /\ IsFiniteSet(OneShot) /\ IsFiniteSet(Kind)
    /\ OneShot \cap Kind = {}
    /\ KindOf \in [OneShot -> Kind]

ASSUME ReleaseAssumption ==
    /\ Release \subseteq Nat
    /\ Handles \in [Release -> SUBSET Kind]
    /\ Schedules \in [Release -> SUBSET Kind]
    /\ \A v \in Release : Schedules[v] \subseteq Handles[v]

ASSUME TickAssumption ==
    /\ PodOf \in [Tick -> Pod]
    /\ NoTick \notin Tick

ASSUME LimitAssumption ==
    /\ MaxAttempts \in Nat \ {0}
    /\ ClaimBatch \in Nat \ {0}
    /\ MaxConcurrent \in Nat \ {0}
    /\ Rounds \in Nat \ {0}
    /\ MaintenanceEvery \in Nat \ {0}
    /\ MaxFaults \in Nat

VARIABLES
    row,       \* the job table
    enqueued,  \* history: one-shot jobs whose enqueueing transaction committed
    ran,       \* history: one-shot jobs whose handler has run to completion
    release,   \* the release each pod runs
    latch,     \* per pod, the tick holding startWorker's no-overlap latch
    ticks,     \* per pod, the worker's tick counter modulo MaintenanceEvery
    inFlight,  \* per pod, slots taken out of MAX_CONCURRENT_JOBS
    phase,     \* per tick, how far runDueJobs has come
    held,      \* per tick, the slots it holds
    todo,      \* per tick, claimed rows no runner has picked yet
    runs,      \* per tick, the rows its runners are in runJob with
    overrun,   \* per pod, handlers still running after their timeout
    faults     \* failed statements, handler timeouts and restarts so far

tableVars == <<row, enqueued>>
podVars == <<release, latch, ticks, inFlight>>
tickVars == <<phase, held, todo, runs>>
vars == <<row, enqueued, ran, release, latch, ticks, inFlight,
          phase, held, todo, runs, overrun, faults>>

-----------------------------------------------------------------------------
(* The table.  attempts saturates at MaxAttempts: the code only compares it *)
(* with MAX_ATTEMPTS and clamps it to the length of the backoff table.      *)

Status == {"none", "pending", "failed"}
Row == [status : Status, due : BOOLEAN, attempts : 0..MaxAttempts]
NoRow == [status |-> "none", due |-> FALSE, attempts |-> 0]

\* The snapshot a claim returns, and the same row inside runJob.
Claimed == [job : Job, attempts : 1..MaxAttempts]
Run == [job : Job, attempts : 1..MaxAttempts,
        at : {"handler", "succeeded", "failed"}]

Phase == {"idle", "maintenance", "ready", "claiming", "running"}

KindOfJob(j) == IF j \in OneShot THEN KindOf[j] ELSE j
RowExists(j) == row[j].status # "none"
Lesser(a, b) == IF a <= b THEN a ELSE b

Init ==
    /\ row = [j \in Job |-> NoRow]
    /\ enqueued = {}
    /\ ran = {}
    /\ release \in [Pod -> Release]
    /\ latch = [p \in Pod |-> NoTick]
    /\ ticks = [p \in Pod |-> 0]
    /\ inFlight = [p \in Pod |-> 0]
    /\ phase = [t \in Tick |-> "idle"]
    /\ held = [t \in Tick |-> 0]
    /\ todo = [t \in Tick |-> {}]
    /\ runs = [t \in Tick |-> {}]
    /\ overrun = [p \in Pod |-> {}]
    /\ faults = 0

-----------------------------------------------------------------------------
(* Producers and time.                                                      *)

\* enqueueJob, on the caller's connection: the row appears when the mutation
\* that caused it commits, due at once or at a later runAt.
Enqueue(j, due) ==
    /\ j \in OneShot \ enqueued
    /\ row' = [row EXCEPT ![j] = [status |-> "pending", due |-> due, attempts |-> 0]]
    /\ enqueued' = enqueued \cup {j}
    /\ UNCHANGED <<ran, podVars, tickVars, overrun, faults>>

\* now() reaches a row's run_at: a lease, a backoff or an interval is over.
RunAtPasses(j) ==
    /\ row[j].status = "pending" /\ ~row[j].due
    /\ row' = [row EXCEPT ![j].due = TRUE]
    /\ UNCHANGED <<enqueued, ran, podVars, tickVars, overrun, faults>>

-----------------------------------------------------------------------------
(* A tick: startWorker's interval callback, then runDueJobs.                *)

\* The interval fires on a pod whose latch is free.  One tick in every
\* MaintenanceEvery re-seeds the schedules before it runs the due jobs.
StartTick(t) ==
    LET p == PodOf[t]
    IN  /\ latch[p] = NoTick
        /\ phase[t] = "idle"
        /\ latch' = [latch EXCEPT ![p] = t]
        /\ phase' = [phase EXCEPT ![t] = IF ticks[p] = 0 THEN "maintenance" ELSE "ready"]
        /\ ticks' = IF ticks[p] = 0 THEN ticks
                    ELSE [ticks EXCEPT ![p] = (@ + 1) % MaintenanceEvery]
        /\ UNCHANGED <<tableVars, ran, release, inFlight, held, todo, runs, overrun, faults>>

\* syncPeriodicJobs: seed the schedules this release declares, leaving the
\* run_at of those that exist alone; delete the schedules of kinds it handles
\* but no longer schedules.
\* Mutant: retire the schedules of the kinds this release does not handle.
RetiredUnhandled(j, v) == j \in Kind \ Handles[v]

Seeded(j, v) == j \in Schedules[v] /\ ~RowExists(j)
Retired(j, v) == j \in Handles[v] \ Schedules[v]

\* The table once release v has synchronised the schedules of the kinds K.
Synced(v, K) ==
    [j \in Job |->
        IF j \in K /\ Seeded(j, v) THEN [status |-> "pending", due |-> TRUE, attempts |-> 0]
        ELSE IF j \in K /\ Retired(j, v) THEN NoRow
        ELSE row[j]]

Maintain(t) ==
    LET p == PodOf[t]
    IN  /\ phase[t] = "maintenance"
        /\ row' = Synced(release[p], Kind)
        /\ ticks' = [ticks EXCEPT ![p] = (@ + 1) % MaintenanceEvery]
        /\ phase' = [phase EXCEPT ![t] = "ready"]
        /\ UNCHANGED <<enqueued, ran, release, latch, inFlight, held, todo, runs, overrun, faults>>

\* Mutant: the finally clause keeps the slots.
EndTickKeepsSlots(t) ==
    /\ phase' = [phase EXCEPT ![t] = "idle"]
    /\ held' = [held EXCEPT ![t] = 0]
    /\ latch' = [latch EXCEPT ![PodOf[t]] = IF @ = t THEN NoTick ELSE @]
    /\ UNCHANGED inFlight

\* The tick is over and gives its slots back; the latch is freed too, unless
\* the budget has freed it before.
EndTick(t) ==
    LET p == PodOf[t]
    IN  /\ phase' = [phase EXCEPT ![t] = "idle"]
        /\ held' = [held EXCEPT ![t] = 0]
        /\ inFlight' = [inFlight EXCEPT ![p] = @ - held[t]]
        /\ latch' = [latch EXCEPT ![p] = IF @ = t THEN NoTick ELSE @]

\* Mutant: the slots are read before the claim but only counted as held after.
ReserveSlotsUncounted(t) ==
    LET p == PodOf[t]
        free == MaxConcurrent - inFlight[p]
    IN  /\ phase[t] = "ready"
        /\ free > 0 /\ Handles[release[p]] # {}
        /\ held' = [held EXCEPT ![t] = free]
        /\ phase' = [phase EXCEPT ![t] = "claiming"]
        /\ UNCHANGED <<tableVars, ran, podVars, todo, runs, overrun, faults>>

\* runDueJobs takes every free slot before it claims, and returns at once when
\* there is none or the release registers no kind.
ReserveSlots(t) ==
    LET p == PodOf[t]
        free == MaxConcurrent - inFlight[p]
    IN  /\ phase[t] = "ready"
        /\ free > 0 /\ Handles[release[p]] # {}
        /\ held' = [held EXCEPT ![t] = free]
        /\ inFlight' = [inFlight EXCEPT ![p] = @ + free]
        /\ phase' = [phase EXCEPT ![t] = "claiming"]
        /\ UNCHANGED <<tableVars, ran, release, latch, ticks, todo, runs, overrun, faults>>

NothingToReserve(t) ==
    LET p == PodOf[t]
    IN  /\ phase[t] = "ready"
        /\ MaxConcurrent - inFlight[p] <= 0 \/ Handles[release[p]] = {}
        /\ EndTick(t)
        /\ UNCHANGED <<tableVars, ran, release, ticks, todo, runs, overrun, faults>>

\* claimDueJobs: lease at most `limit' due rows of the kinds this pod handles.
Due(p) == {j \in Job : /\ row[j].status = "pending"
                       /\ row[j].due
                       /\ KindOfJob(j) \in Handles[release[p]]}

\* Mutant: the batch ignores how few slots the tick got.
ClaimLimitWholeBatch(t) == ClaimBatch

ClaimLimit(t) == Lesser(ClaimBatch, held[t] * Rounds)

\* Which of the due rows a claim takes is left open (order by run_at).  The
\* runners the batch does not need give their slots back at once.
Claim(t, S) ==
    LET p == PodOf[t]
        bumped(j) == Lesser(row[j].attempts + 1, MaxAttempts)
        runners == Lesser(held[t], Cardinality(S))
    IN  /\ phase[t] = "claiming"
        /\ S \subseteq Due(p)
        /\ Cardinality(S) = Lesser(ClaimLimit(t), Cardinality(Due(p)))
        /\ row' = [j \in Job |->
                     IF j \in S THEN [row[j] EXCEPT !.attempts = bumped(j), !.due = FALSE]
                     ELSE row[j]]
        /\ todo' = [todo EXCEPT ![t] = {[job |-> j, attempts |-> bumped(j)] : j \in S}]
        /\ held' = [held EXCEPT ![t] = runners]
        /\ inFlight' = [inFlight EXCEPT ![p] = @ - (held[t] - runners)]
        /\ phase' = [phase EXCEPT ![t] = "running"]
        /\ UNCHANGED <<enqueued, ran, release, latch, ticks, runs, overrun, faults>>

\* Maintenance throws, some of its statements done, or the claim does: the tick
\* fails, its slots come back and its maintenance is due again.
TickFails(t) ==
    /\ \/ /\ phase[t] = "maintenance"
          /\ \E K \in SUBSET Kind : row' = Synced(release[PodOf[t]], K)
       \/ /\ phase[t] = "claiming"
          /\ UNCHANGED row
    /\ faults < MaxFaults
    /\ faults' = faults + 1
    /\ EndTick(t)
    /\ UNCHANGED <<enqueued, ran, release, ticks, todo, runs, overrun>>

\* Every runner found the batch empty.
FinishTick(t) ==
    /\ phase[t] = "running"
    /\ todo[t] = {} /\ runs[t] = {}
    /\ EndTick(t)
    /\ UNCHANGED <<tableVars, ran, release, ticks, todo, runs, overrun, faults>>

\* TICK_BUDGET_MS runs out: the latch opens, the tick itself goes on.
BudgetExpires(t) ==
    LET p == PodOf[t]
    IN  /\ latch[p] = t
        /\ latch' = [latch EXCEPT ![p] = NoTick]
        /\ UNCHANGED <<tableVars, ran, release, ticks, inFlight, tickVars, overrun, faults>>

-----------------------------------------------------------------------------
(* A runner: runJob on one claimed row.                                     *)

Move(t, r, at) == runs' = [runs EXCEPT ![t] = (@ \ {r}) \cup {[r EXCEPT !.at = at]}]
Leave(t, r) == runs' = [runs EXCEPT ![t] = @ \ {r}]

\* A free runner takes the next claimed row and calls its handler.
StartJob(t, c) ==
    /\ phase[t] = "running"
    /\ c \in todo[t]
    /\ Cardinality(runs[t]) < held[t]
    /\ todo' = [todo EXCEPT ![t] = @ \ {c}]
    /\ runs' = [runs EXCEPT ![t] =
                  @ \cup {[job |-> c.job, attempts |-> c.attempts, at |-> "handler"]}]
    /\ UNCHANGED <<tableVars, ran, podVars, phase, held, overrun, faults>>

HandlerReturns(t, r) ==
    /\ r.at = "handler"
    /\ Move(t, r, "succeeded")
    /\ ran' = ran \cup ({r.job} \cap OneShot)
    /\ UNCHANGED <<tableVars, podVars, phase, held, todo, overrun, faults>>

HandlerThrows(t, r) ==
    /\ r.at = "handler"
    /\ Move(t, r, "failed")
    /\ UNCHANGED <<tableVars, ran, podVars, phase, held, todo, overrun, faults>>

\* Mutant: the timeout resolves the race instead of rejecting it.
HandlerTimesOutAsSuccess(t, r) ==
    /\ r.at = "handler"
    /\ faults < MaxFaults
    /\ faults' = faults + 1
    /\ Move(t, r, "succeeded")
    /\ overrun' = [overrun EXCEPT ![PodOf[t]] = @ \cup {r.job}]
    /\ UNCHANGED <<tableVars, ran, podVars, phase, held, todo>>

\* withTimeout stops waiting; nothing stops the handler.
HandlerTimesOut(t, r) ==
    /\ r.at = "handler"
    /\ faults < MaxFaults
    /\ faults' = faults + 1
    /\ Move(t, r, "failed")
    /\ overrun' = [overrun EXCEPT ![PodOf[t]] = @ \cup {r.job}]
    /\ UNCHANGED <<tableVars, ran, podVars, phase, held, todo>>

\* An abandoned handler ends, having done its work or not.
OverrunEnds(p, j, completed) ==
    /\ j \in overrun[p]
    /\ overrun' = [overrun EXCEPT ![p] = @ \ {j}]
    /\ ran' = IF completed THEN ran \cup ({j} \cap OneShot) ELSE ran
    /\ UNCHANGED <<tableVars, podVars, tickVars, faults>>

\* recordJobSuccess: a one-shot row is deleted, a schedule is re-armed at its
\* interval with its attempts cleared.  The statement names only the id, so it
\* reaches whatever the row has become.
AfterSuccess(j) ==
    IF j \in OneShot THEN NoRow
    ELSE [row[j] EXCEPT !.due = FALSE, !.attempts = 0]

RecordSuccess(t, r) ==
    /\ r.at = "succeeded"
    /\ row' = IF RowExists(r.job) THEN [row EXCEPT ![r.job] = AfterSuccess(r.job)] ELSE row
    /\ Leave(t, r)
    /\ UNCHANGED <<enqueued, ran, podVars, phase, held, todo, overrun, faults>>

\* The success statement throws inside runJob's try: the job counts as failed.
RecordSuccessFails(t, r) ==
    /\ r.at = "succeeded"
    /\ faults < MaxFaults
    /\ faults' = faults + 1
    /\ Move(t, r, "failed")
    /\ UNCHANGED <<tableVars, ran, podVars, phase, held, todo, overrun>>

\* recordJobFailure: a schedule always backs off; a one-shot backs off until
\* the claim it failed was its last, and then parks.

\* Mutant: schedules are retired too.
ExhaustedSchedules(r) == r.attempts >= MaxAttempts

\* Mutant: one attempt early.
ExhaustedEarly(r) == r.job \in OneShot /\ r.attempts + 1 >= MaxAttempts

Exhausted(r) == r.job \in OneShot /\ r.attempts >= MaxAttempts

\* Mutant: a retry writes the status along with the run_at, as the webhook
\* queue does.
AfterFailureResets(r) ==
    IF Exhausted(r) THEN [row[r.job] EXCEPT !.status = "failed"]
    ELSE [row[r.job] EXCEPT !.status = "pending", !.due = FALSE]

\* Mutant: no failure is the last one.
AfterFailureRetries(r) == [row[r.job] EXCEPT !.due = FALSE]

\* Mutant: a status nothing else knows.
AfterFailureUnknown(r) ==
    IF Exhausted(r) THEN [row[r.job] EXCEPT !.status = "dead"]
    ELSE [row[r.job] EXCEPT !.due = FALSE]

\* Mutant: the last failure deletes the row.
AfterFailureDrops(r) ==
    IF Exhausted(r) THEN NoRow ELSE [row[r.job] EXCEPT !.due = FALSE]

AfterFailure(r) ==
    IF Exhausted(r) THEN [row[r.job] EXCEPT !.status = "failed"]
    ELSE [row[r.job] EXCEPT !.due = FALSE]

RecordFailure(t, r) ==
    /\ r.at = "failed"
    /\ row' = IF RowExists(r.job) THEN [row EXCEPT ![r.job] = AfterFailure(r)] ELSE row
    /\ Leave(t, r)
    /\ UNCHANGED <<enqueued, ran, podVars, phase, held, todo, overrun, faults>>

\* The failure statement throws too: logged, and the lease recovers the row.
RecordFailureFails(t, r) ==
    /\ r.at = "failed"
    /\ faults < MaxFaults
    /\ faults' = faults + 1
    /\ Leave(t, r)
    /\ UNCHANGED <<tableVars, ran, podVars, phase, held, todo, overrun>>

-----------------------------------------------------------------------------
\* A pod dies or is shut down, which drains nothing, and comes back on the same
\* release or a later one.
Restart(p, v) ==
    LET its(t) == PodOf[t] = p
    IN  /\ v >= release[p]
        /\ faults < MaxFaults
        /\ faults' = faults + 1
        /\ release' = [release EXCEPT ![p] = v]
        /\ latch' = [latch EXCEPT ![p] = NoTick]
        /\ ticks' = [ticks EXCEPT ![p] = 0]
        /\ inFlight' = [inFlight EXCEPT ![p] = 0]
        /\ overrun' = [overrun EXCEPT ![p] = {}]
        /\ phase' = [t \in Tick |-> IF its(t) THEN "idle" ELSE phase[t]]
        /\ held' = [t \in Tick |-> IF its(t) THEN 0 ELSE held[t]]
        /\ todo' = [t \in Tick |-> IF its(t) THEN {} ELSE todo[t]]
        /\ runs' = [t \in Tick |-> IF its(t) THEN {} ELSE runs[t]]
        /\ UNCHANGED <<tableVars, ran>>

TickStep(t) ==
    \/ StartTick(t)
    \/ Maintain(t)
    \/ ReserveSlots(t)
    \/ NothingToReserve(t)
    \/ \E S \in SUBSET Job : Claim(t, S)
    \/ TickFails(t)
    \/ FinishTick(t)
    \/ BudgetExpires(t)

RunnerStep(t) ==
    \/ \E c \in todo[t] : StartJob(t, c)
    \/ \E r \in runs[t] :
          \/ HandlerReturns(t, r)
          \/ HandlerThrows(t, r)
          \/ HandlerTimesOut(t, r)
          \/ RecordSuccess(t, r)
          \/ RecordSuccessFails(t, r)
          \/ RecordFailure(t, r)
          \/ RecordFailureFails(t, r)

Next ==
    \/ \E j \in Job : \E due \in BOOLEAN : Enqueue(j, due)
    \/ \E j \in Job : RunAtPasses(j)
    \/ \E t \in Tick : TickStep(t)
    \/ \E t \in Tick : RunnerStep(t)
    \/ \E p \in Pod, j \in Job, completed \in BOOLEAN : OverrunEnds(p, j, completed)
    \/ \E p \in Pod, v \in Release : Restart(p, v)

Spec == Init /\ [][Next]_vars

\* Fairness.  Time passes; the interval timer keeps firing; Node keeps running
\* the continuations of every statement that answers and of every handler that
\* returns, throws or times out.  Nothing is asked of an abandoned handler, of
\* an enqueuer or of a failure.
TickProgress(t) ==
    \/ Maintain(t) \/ ReserveSlots(t) \/ NothingToReserve(t)
    \/ \E S \in SUBSET Job : Claim(t, S)
    \/ FinishTick(t)

RunnerProgress(t) ==
    \/ \E c \in todo[t] : StartJob(t, c)
    \/ \E r \in runs[t] :
          \/ HandlerReturns(t, r) \/ HandlerThrows(t, r) \/ HandlerTimesOut(t, r)
          \/ RecordSuccess(t, r) \/ RecordFailure(t, r)

Fairness ==
    /\ \A j \in Job : WF_vars(RunAtPasses(j))
    /\ \A p \in Pod : WF_vars(\E t \in Tick : PodOf[t] = p /\ StartTick(t))
    /\ \A t \in Tick : WF_vars(TickProgress(t)) /\ WF_vars(RunnerProgress(t))

FairSpec == Spec /\ Fairness

-----------------------------------------------------------------------------
\* Types of the state: the table holds rows, a tick holds claims and runs.
TypeOK ==
    /\ row \in [Job -> Row]
    /\ enqueued \subseteq OneShot
    /\ ran \subseteq OneShot
    /\ release \in [Pod -> Release]
    /\ latch \in [Pod -> Tick \cup {NoTick}]
    /\ ticks \in [Pod -> 0..(MaintenanceEvery - 1)]
    /\ inFlight \in [Pod -> Int]
    /\ phase \in [Tick -> Phase]
    /\ held \in [Tick -> Int]
    /\ todo \in [Tick -> SUBSET Claimed]
    /\ runs \in [Tick -> SUBSET Run]
    /\ overrun \in [Pod -> SUBSET Job]
    /\ faults \in Nat

TicksOf(p) == {t \in Tick : PodOf[t] = p}
SlotsHeld(p) == UNION {{t} \X (1..held[t]) : t \in TicksOf(p)}
Running(p) == UNION {{t} \X runs[t] : t \in TicksOf(p)}

\* worker.ts:30-52, README "The concurrency limit is process-wide, not per
\* tick": whatever ticks overlap, the slots they hold are exactly the slots
\* counted as taken, never more than MAX_CONCURRENT_JOBS, and a pod is in
\* runJob for no more rows than that.
SlotsBalance ==
    \A p \in Pod :
        /\ inFlight[p] = Cardinality(SlotsHeld(p))
        /\ inFlight[p] \in 0..MaxConcurrent
        /\ Cardinality(Running(p)) <= inFlight[p]

\* README "Delivery is at-least-once": whatever crashes, lapses and late
\* settlements happen, a one-shot job whose row is gone has had its handler run
\* to completion.
NoLostJob == \A j \in enqueued : RowExists(j) \/ j \in ran

\* queue.ts:124-145: a row parks as failed only when it is a one-shot job that
\* was claimed MAX_ATTEMPTS times.  A schedule never parks, however stale the
\* settlement that reaches it.
ParksOnlyExhausted ==
    \A j \in Job : row[j].status = "failed" => j \in OneShot /\ row[j].attempts = MaxAttempts

\* queue.ts:137-155: no settlement, not even one by a runner whose lease lapsed
\* before the row was claimed again, brings a parked row back to the queue; it
\* can only delete it, having run its handler.
ParkedStaysParked ==
    [][\A j \in Job : row[j].status = "failed" =>
          row'[j].status = "failed" \/ (row'[j].status = "none" /\ j \in ran')]_vars

-----------------------------------------------------------------------------
\* A one-shot job as JobPromise sees it: its row, or what became of it.
Life(j) ==
    CASE row[j].status = "pending" -> "open"
      [] row[j].status = "failed" -> "parked"
      [] OTHER -> IF j \in enqueued THEN "gone" ELSE "new"

Promise == INSTANCE JobPromise WITH
    Task <- OneShot,
    state <- [j \in OneShot |-> Life(j)],
    attempts <- [j \in OneShot |-> row[j].attempts],
    worked <- ran

\* README "Delivery is at-least-once" and queue.ts:98-155: unfenced settlements,
\* lapsed leases, crashes and overlapping ticks included, the table is the plain
\* queue of JobPromise.  No step of it reopens a parked or departed job, takes an
\* undone one away, or parks one early.
KeepsPromise == Promise!Spec

-----------------------------------------------------------------------------
Served(k) == \E p \in Pod : k \in Handles[release[p]]
ScheduledEverywhere(k) ==
    /\ Served(k)
    /\ \A p \in Pod : k \in Handles[release[p]] => k \in Schedules[release[p]]
ScheduledNowhere(k) ==
    /\ Served(k)
    /\ \A p \in Pod : k \notin Schedules[release[p]]
HandlerRuns(j) == \E t \in Tick : \E r \in runs[t] : r.job = j /\ r.at = "handler"

\* README "On failure it backs off ... and then parks": a pending one-shot job
\* whose kind some pod handles is not retried forever; it is done or parked.
EveryJobSettles ==
    \A j \in OneShot : row[j].status = "pending" ~>
                          (row[j].status # "pending" \/ ~Served(KindOf[j]))

\* queue.ts:124-126, "retiring one silently stops every occurrence it drives":
\* while every pod that handles a kind schedules it, its handler runs again and
\* again, whatever fails, crashes or is settled late.
ScheduleNeverStops == \A k \in Kind : []<>(HandlerRuns(k) \/ ~ScheduledEverywhere(k))

\* queue.ts:162-196: once the rollout of a release that drops a schedule is
\* complete, the row the old release kept re-seeding goes and stays away.
DroppedScheduleGoes == \A k \in Kind : <>[]ScheduledNowhere(k) => <>[]~RowExists(k)

\* worker.ts:25-33, tickWorker.ts:5-10: a pod whose slots are all taken gets
\* one back.  (That all are free at once is not promised: the budget lets ticks
\* overlap without end.)
SlotsComeBack == \A p \in Pod : []<>(inFlight[p] < MaxConcurrent)

=============================================================================
