------------------------------ MODULE JobLease ------------------------------
(***************************************************************************)
(* JobQueue under a clock: the arithmetic that makes a lease long enough.  *)
(*                                                                         *)
(* Each timer the code sets becomes a counter that Advance lowers: a row's *)
(* run_at, a handler's timeout, a tick's budget.  Everything else a tick   *)
(* does takes no time, unless the tick is slow: a statement of it hangs,   *)
(* or the event loop does, and then it takes any time at all.  Every timed *)
(* step is a step of JobQueue, and Advance leaves JobQueue's state alone.  *)
(* Restarts and statements that fail stay with JobQueue: they end a batch, *)
(* and the question here is how long a batch can last.                     *)
(***************************************************************************)
EXTENDS JobQueue

CONSTANTS
    Lease,           \* LEASE_SECONDS
    HandlerTimeout,  \* MAX_HANDLER_TIMEOUT_MS
    TickBudget,      \* TICK_BUDGET_MS
    BackoffTime,     \* first step of BACKOFF_SECONDS
    Interval,        \* interval_seconds of a schedule
    MaxSlow          \* bound: slow ticks in a behaviour

\* The chain the README asks to be redone when any of its links is changed.
ASSUME LeaseArithmetic ==
    /\ {Lease, HandlerTimeout, TickBudget, BackoffTime, Interval, MaxSlow} \subseteq Nat
    /\ HandlerTimeout > 0
    /\ ClaimBatch <= Rounds * MaxConcurrent
    /\ Rounds * HandlerTimeout < TickBudget
    /\ TickBudget < Lease

VARIABLES
    wait,    \* per row, time until run_at
    left,    \* per tick and job, time left to the handler it runs
    budget,  \* per pod, time left to the tick holding the latch
    slow,    \* ticks that are held up
    mixed,   \* jobs a slow tick has had: their lease may be cut short
    slowed   \* slow ticks so far

timers == <<wait, left, budget, slow, mixed, slowed>>
leaseVars == <<vars, timers>>

JobsOf(t) == {c.job : c \in todo[t] \cup runs[t]}

LeaseInit ==
    /\ Init
    /\ wait = [j \in Job |-> 0]
    /\ left = [t \in Tick |-> [j \in Job |-> 0]]
    /\ budget = [p \in Pod |-> 0]
    /\ slow = {}
    /\ mixed = {}
    /\ slowed = 0

-----------------------------------------------------------------------------
\* Time passes by one unit, unless something is due to happen first: a timer of
\* this pod that has run out, or a step that takes no time.
Prompt(t) ==
    /\ phase[t] \in {"idle", "running"}
    /\ \A r \in runs[t] : r.at = "handler" /\ left[t][r.job] > 0
    /\ todo[t] # {} => Cardinality(runs[t]) = held[t]
    /\ phase[t] = "running" => runs[t] # {}

Down(n) == IF n = 0 THEN 0 ELSE n - 1

Advance ==
    /\ \A t \in Tick \ slow : Prompt(t)
    /\ \A p \in Pod : latch[p] # NoTick => budget[p] > 0
    /\ wait' = [j \in Job |-> Down(wait[j])]
    /\ left' = [t \in Tick |-> [j \in Job |-> Down(left[t][j])]]
    /\ budget' = [p \in Pod |-> Down(budget[p])]
    /\ UNCHANGED <<vars, slow, mixed, slowed>>

\* A statement of a running tick hangs, or its continuation is kept waiting.
HoldUp(t) ==
    /\ phase[t] = "running" /\ t \notin slow
    /\ slowed < MaxSlow
    /\ slow' = slow \cup {t}
    /\ mixed' = mixed \cup JobsOf(t)
    /\ slowed' = slowed + 1
    /\ UNCHANGED <<vars, wait, left, budget>>

-----------------------------------------------------------------------------
(* The steps of JobQueue with the timers they set and wait for.             *)

Quiet == UNCHANGED timers
SlowLeft == slow' = {t \in slow : phase'[t] # "idle"}

LeaseTable(j) ==
    \/ Enqueue(j, TRUE) /\ Quiet
    \/ RunAtPasses(j) /\ wait[j] = 0 /\ Quiet

LeaseTick(t) ==
    \/ /\ StartTick(t)
       /\ budget' = [budget EXCEPT ![PodOf[t]] = TickBudget]
       /\ UNCHANGED <<wait, left, slow, mixed, slowed>>
    \/ /\ Maintain(t) \/ ReserveSlots(t) \/ NothingToReserve(t) \/ FinishTick(t)
       /\ SlowLeft
       /\ budget' = [p \in Pod |-> IF latch'[p] = NoTick THEN 0 ELSE budget[p]]
       /\ UNCHANGED <<wait, left, mixed, slowed>>
    \/ /\ BudgetExpires(t) /\ budget[PodOf[t]] = 0
       /\ Quiet
    \/ \E S \in SUBSET Job :
          /\ Claim(t, S)
          /\ wait' = [j \in Job |-> IF j \in S THEN Lease ELSE wait[j]]
          /\ UNCHANGED <<left, budget, slow, mixed, slowed>>

\* A settlement that leaves the row pending also sets its run_at.
LeaseRunner(t) ==
    \/ \E c \in todo[t] :
          /\ StartJob(t, c)
          /\ left' = [left EXCEPT ![t][c.job] = HandlerTimeout]
          /\ UNCHANGED <<wait, budget, slow, mixed, slowed>>
    \/ \E r \in runs[t] :
          \/ /\ HandlerReturns(t, r) \/ HandlerThrows(t, r)
             /\ left' = [left EXCEPT ![t][r.job] = 0]
             /\ UNCHANGED <<wait, budget, slow, mixed, slowed>>
          \/ HandlerTimesOut(t, r) /\ left[t][r.job] = 0 /\ Quiet
          \/ /\ RecordSuccess(t, r)
             /\ wait' = [wait EXCEPT ![r.job] = IF r.job \in OneShot THEN 0 ELSE Interval]
             /\ UNCHANGED <<left, budget, slow, mixed, slowed>>
          \/ /\ RecordFailure(t, r)
             /\ wait' = [wait EXCEPT ![r.job] = IF Exhausted(r) THEN 0 ELSE BackoffTime]
             /\ UNCHANGED <<left, budget, slow, mixed, slowed>>

LeaseNext ==
    \/ Advance
    \/ \E t \in Tick : HoldUp(t)
    \/ \E j \in Job : LeaseTable(j)
    \/ \E t \in Tick : LeaseTick(t) \/ LeaseRunner(t)
    \/ \E p \in Pod, j \in Job, completed \in BOOLEAN :
          OverrunEnds(p, j, completed) /\ Quiet

LeaseSpec == LeaseInit /\ [][LeaseNext]_leaseVars

-----------------------------------------------------------------------------
\* A schedule that one release retires and another declares: while both run, its
\* row may be deleted and seeded anew, due at once, under a handler.
Dropped ==
    {k \in Kind : \E v, w \in Release : k \in Handles[v] \ Schedules[v] /\ k \in Schedules[w]}

\* README "The lease is a budget, not a lock", worker.ts:25-33: however ticks of
\* one pod or of two overlap, a row is not claimed again while a tick that is not
\* held up still has it queued or running.  A job a slow tick has had is
\* excepted: its late settlement may cut the lease of the next claim short.  So
\* is a schedule the releases disagree on: its next row has no lease yet.
LeaseCoversBatch ==
    \A t, u \in Tick \ slow : t # u => JobsOf(t) \cap JobsOf(u) \subseteq mixed \cup Dropped

=============================================================================
