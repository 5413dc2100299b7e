# A TLA+ model of Critical Path

Critical Path is a collaborative kanban board: an API (`src/api`, Hono and Kysely
over PostgreSQL), a single-page web client (`src/web`, Svelte), a command line
client (`src/cli`) and a small proxy for previews (`src/preview-edge`). This
directory holds TLA+ modules of the parts of it where several actors meet, the
TLC configurations that check them on small instances, and proofs of their most
important properties for all instances.

Contents: [inventory](#inventory), [modules and the code](#modules-and-the-code),
[runs](#runs), [what the runs found](#where-the-code-and-its-comments-differ),
[proofs](#proofs), [limits](#what-is-not-shown), [plan](#plan).

How to run it: `tlc -config JobsSettle.cfg MCJobQueue` (the module of each run is
in the table below), `tlapm JobProofs.tla`.

## Inventory

| Component | State | Operations | Meets | Hard part | Correct when |
|---|---|---|---|---|---|
| Background jobs (`api/src/services/jobs`, `tickWorker.ts`) | table `job`; per process a latch, a slot counter, a tick counter | enqueue, claim with a lease, run under a timeout, settle, seed and retire schedules | every mutation that enqueues; other pods only through the table | leases that lapse, overlapping ticks, handlers that outlive their timeout, crashes, rolling deploys | no job is lost, none is retried for ever, schedules never stop, slots balance |
| Outbound webhooks (`services/webhooks`, `routes/webhooks.ts`) | `project_webhook`, `webhook_delivery` | fan out after commit, claim, send, settle, auto-disable, prune, edit, re-send | post-commit hooks, batches on any pod, editors | three kinds of writers over two tables; unlocked reads followed by writes | no row is stranded, failures are counted once, a delivered row stays so, every queued row settles |
| Web outbox (`web/src/lib/outbox.svelte.ts`) | queue in memory, operation on the wire, copy in IndexedDB, memoized drain, wake timer, generation | submit, merge, drain, retry, give up, hydrate, reset | board mutations, session, connectivity, the API | answers that arrive after a sign-out, retries, reloads at any point | nothing lost, nothing sent twice once answered, nothing sent for someone else |
| Task dependencies (`services/dependencies.ts`, `crossProjectBlockers.ts`, `routes/tasks.ts`) | `task_dependency`, `task.open_cross_project_blocker_count` | add and remove a blocker, finish, reopen, archive, restore, delete | advisory locks of two projects, row locks of tasks | a cycle check under READ COMMITTED, counts kept up to date across projects | no cycles, no lock deadlock, counts that heal |
| Request transaction (`middleware/transaction.ts`) | one transaction, a list of post-commit hooks | commit, roll back, run hooks | every mutation, realtime, webhooks | hooks run after the commit and fail alone | hooks run once, after commit, in order |
| Realtime fan-out (`services/realtime`) | sockets with their subscriptions, rooms, the Redis bus | authenticate, subscribe, publish, deliver, evict, recheck, revoke | every mutation, revocations, sign-outs | rooms and rights read before two awaits, lookups against revocations, more tabs than sockets | no gap a client does not know of; no socket outlives its session |
| Realtime client (`web/src/lib/realtime.svelte.ts`, `realtime-coverage.svelte.ts`, `board.svelte.ts`) | socket, timers, eviction, coverage token, board, buffered events | reconnect with backoff, yield, revalidate, apply events, refetch, heal | outbox drains, drags, connectivity, other tabs | events against refetches, a drag in progress, a tab that nothing wakes | a gap is healed or shown; a visible tab gets its connection back |
| Membership, invitations (`services/invitations.ts`, `projectMembers.ts`, `projectLock.ts`, `accountDeletion.ts`) | `project_member`, `project_invitation`, `project.created_by`, `task_assignee` | replace members, leave, invite, re-invite, resend, revoke, accept, claim at sign-up, transfer, assign, delete the board or the account | project row lock | checks made before the lock, accounts that appear and vanish | the owner has no member row; a withdrawn invitation grants nothing; shared boards survive |
| Recurring series (`services/taskSeries`, `routes/taskSeries.ts`) | `task_series` with its next occurrence, status and counters; the cards it made | create, edit, pause, resume, delete, sweep, catch up, pause after failures | a schedule of the job queue drives the sweep; board limits, columns, archive | sweeps of several pods, edits decided on stale reads, failures counted outside the transaction | every occurrence has a card or is recorded as missed, once; only an edit revives a series; a broken one comes to a pause |
| Notifications (`assignmentDigest.ts`, `notificationBudget.ts`, `rateLimit.ts`) | pending digest rows, windows in Redis or memory | collect, claim and send, spend, refund | jobs, mail | crash between claim and send, refund after failure | at most once per window; budgets never go negative |
| Ordering keys (`sortKey.ts`, `boardColumns.ts`, `web/src/lib/ranks.ts`) | sort keys of cards, columns, items | place, append, rekey | column tail lock, outbox moves | two placements in one gap | keys are unique in their scope, order is the one meant |
| Attachments, storage (`services/attachments`, `services/storage`) | `attachment`, stored objects | upload, copy, unfurl, delete after commit | quota lock, jobs | quota races, objects deleted after the rows | the quota holds; no row points at a deleted object |
| Authentication (`routes/auth.ts`, `sessions.ts`, `credentials.ts`) | users, sessions, tokens, one-use links | sign up, in and out, reset, verify, revoke | realtime eviction | use against revocation | a revoked credential reads nothing |
| Projects, columns, boards, search, export, deletion of accounts | project data | mostly one transaction each | the above | set-valued deletes with dependents | as their parts |
| Web UI, CLI, preview proxy, infrastructure, scripts | none shared | rendering, sequential HTTP calls, deployment | | | |

The first four and the four from realtime to series are modelled, the others in part
or not at all ([What is not shown](#what-is-not-shown), [Plan](#plan)). `PROJECT.json`
lists the files of each component and the hazards, each at its line with the
properties that cover it.

How the modelled parts interact: a mutation runs in one transaction
(`Dependencies`); it may enqueue jobs on the same connection (`Enqueue` in
`JobQueue` happens at its commit) and after the commit fans its events out to
webhooks (`SelectHooks`, `InsertRows` in `WebhookQueue`). The worker loop of
`tickWorker.ts` drives both queues. The outbox is a client of the routes and
sees a route as a request that is applied, refused or unanswered. `Series` is swept by
a schedule of `JobQueue`: that every pod sweeps again and again, the fairness `Series`
assumes, is what `ScheduleNeverStops` shows. `Realtime` takes its connections as
they come and go; why they do, and that they come back, is `Sockets`. A reconnect
drains the outbox before it reads the board (`heal.draining` in `Realtime`).

## Modules and the code

Conventions. One action per step that another actor can observe: a statement, a
transaction that takes its locks first, or the code between two awaits. A read
that is used after an await is a step of its own, and what it read is kept in a
variable. History variables (marked "history") record what the properties talk
about and guard no action. Every bound has a name and is a CONSTANT. Operators whose
comment starts with "Mutant" or "A faulty form" are plausible bugs; nothing uses them in a run.

### JobQueue: `jobs/queue.ts`, `jobs/worker.ts`, `tickWorker.ts`

| State | Code |
|---|---|
| `row[j]` | a row of `job`: status, whether `run_at <= now()`, attempts (saturating at MAX_ATTEMPTS) |
| `latch[p]`, `ticks[p]`, `inFlight[p]` | `running` of `startWorker`, `ticks` of `startJobWorker`, `inFlight` of `worker.ts` |
| `phase`, `held`, `todo`, `runs` | one execution of the tick: where it is, `held`, the unclaimed tail of `claimed`, the rows inside `runJob` |
| `overrun[p]` | handlers still running after `withTimeout` gave up on them |
| `release[p]` | which registrations the pod's code has: `Handles` and `Schedules` per release |
| `enqueued`, `ran` | history |

Time is reduced to what the SQL tests: `RunAtPasses` may happen to a pending row at
any moment, so leases lapse whenever they like and settlements come arbitrarily
late. A settlement names the row and nothing else, as `recordJobSuccess` and
`recordJobFailure` do. `Restart` is a crash or a shutdown (`index.ts` drains
nothing), on the same release or a later one. `TickFails`, `RecordSuccessFails`
and `RecordFailureFails` are failing statements.

A schedule keeps its id when it is deleted and seeded again; the code gives the
new row a new id, so the model has a few behaviours more than the code (a late
settlement may reach the successor).

### JobPromise

What the table promises of one job to those who enqueue it, with no pods, ticks or
leases: new, open, parked or gone, how often it was handed out, whether its work was
done. `Promise` in `JobQueue` maps a row and the history of a job to it
(`Life`), and `KeepsPromise` says that every step of the queue is a step of it or a
stutter: checked by the run JobsSettle, proved in `JobProofs`.

### JobLease

`JobQueue` with a clock. Every timer the code sets becomes a counter (`wait` for
`run_at`, `left` for a handler's timeout, `budget` for the tick), and `Advance`
lowers them unless something is due first. A tick may be *slow* (a hung statement,
a blocked event loop), and then it takes any time. The constants are tied by
`LeaseArithmetic`: ROUNDS x timeout < budget < lease, the chain that the comments at
`worker.ts:25` and the section "The lease is a budget, not a lock" of the API's
README ask to keep. Its specification implements `JobQueue`'s: that is proved.

`LeaseCoversBatch` says what the chain is for, with two exceptions. `mixed` (history) are jobs a slow tick has
had: its late settlement may shorten the lease of whoever has the row now. `Dropped` are
schedules that one release retires and another declares: while pods of both run,
one deletes the row and another seeds it anew, due at once, under a handler that still has the old one.

### WebhookQueue: `webhooks/queue.ts`, `webhooks/worker.ts`, `routes/webhooks.ts`

| State | Code |
|---|---|
| `hook[w]` | `project_webhook`: new, on, off (`disabled_at`), gone; `consecutive_failures` |
| `delivery[d]` | `webhook_delivery`: status, due, `attempt_count`, `redelivery_count` |
| `picked[e]` | the registrations `enqueueDeliveries` read before it inserts |
| `phase`, `scanned`, `todo`, `open`, `sends` | one execution of `runDueDeliveries`: the ranked rows of its claim, its groups, the groups taken, the rows a runner has |
| `patch[w]`, `resend[d]` | what a PATCH or a redeliver request has read and not yet written |
| `raced`, `late`, `unreset`, `blamed` | history |

The claim is two steps because it is two evaluations: `Scan` is the ranked
subquery on the statement's snapshot, `Claim` the outer query, which locks rows by id and,
under READ COMMITTED, does not evaluate the subquery's conditions again.
`recordFailure` locks the registration before anything else and is one step with
four outcomes (`Retry`, `FailInactive`, `FailUncounted`, `FailCounted`).
`recordSuccess` is one step. `PatchEnabled` and the three steps of redeliver keep
the code's unlocked reads apart from their writes; `RequestsInFlight` bounds them.

### Outbox: `web/src/lib/outbox.svelte.ts`, `outbox-ops.ts`, `offline-db.ts`

| State | Code |
|---|---|
| `ops`, `inflight`, `seq`, `gen`, `memo`, `draining`, `wake` | `#ops`, `#inflight`, `#seq`, `#generation`, `#drain`, `draining`, `#wakeTimer` |
| `stored` | the IndexedDB store; a row's user is `owner` of its operation |
| `run[r]` | an execution of `#run`: which await it is at, the generation it started with, its operation, the account whose token its request carries |
| `reads`, `direct` | executions of `hydrate` and of `submit` that are waiting |
| `applied` | the server: which operations it applied, and for whom |
| `taken`, `settled`, `mixed`, `overtaken` | history |

A queued edit carries every mutation merged into it, so "nothing is lost" speaks
of mutations, not of queue entries. The server may apply a request and its answer
be lost (`reached` in `Unreachable`, `Stale`, `OnTheWire` in `Reload`). `SignOut`
happens at any await, by the user or by a 401 to whatever request. `mixed` is
raised when an execution left over from an earlier account touches the queue of the
next, which [can happen](#where-the-code-and-its-comments-differ); all properties but
`QueueHasAWaker` are stated for behaviours where it has not.

A stored queue is read back in the order of `seq`; rows that tie come in any order
(`InOrder`), which is one behaviour more than IndexedDB has.

`#hydrated` is not a variable: a sign-in or a reload reads the store once.

### Dependencies: `services/dependencies.ts`, `crossProjectBlockers.ts`, `routes/tasks.ts`

| State | Code |
|---|---|
| `db` | committed tasks (live, archived, in a done column) and edges |
| `count[t]` | `task.open_cross_project_blocker_count` |
| `req[x]` | one request: its transaction's own writes, advisory locks, and how far the handler is |

Each statement of the transaction is a step that sees what is committed and what
its own transaction wrote (`View`). Row locks, the key-share locks of the foreign
keys and the advisory locks are derived from the requests (`RowHeld`, `KeyShared`,
`BeingDeleted`, `EdgeHeld`, `TakeLock`). `Recount` picks the rows and counts on its snapshot; `StoreCount`
writes one row, after waiting for it if need be, with the count taken before.
`Abort` is a deadlock victim, a lost connection or any failing statement.

### Realtime: `services/realtime/bus.ts`, `delivery.ts`, `transport.ts`, web `realtime.svelte.ts`, `board.svelte.ts`, `realtime-coverage.svelte.ts`

| State | Code |
|---|---|
| `db` | the cards as committed: a version, and whether the card is on the board |
| `published` | entries on the bus, and executions of `deliver` between its reads and its send |
| `socket`, `up`, `down` | the connection, whether the pod has authenticated it and put it in the room, frames each way |
| `coverage` | the token of `RealtimeCoverage`: a number, and whether it is in force |
| `board`, `read` | the board store with `#coverage` (`under`) and `staleRead`; the newest `#fetchToken`'s request, and what its answer was built from |
| `drag`, `heal` | `dragBusy`, `#queue`, `#needsBoardRefetch`; `#hasSyncedOnce` and a drain that holds the reads back |
| `missed`, `told` | history: the cards whose newest version left before the subscription was in place, or was told to the screen |

Every delivery is a process of its own, so events overtake each other and
subscriptions (`Resolve`, `Send`). A read is three steps: sent, built on the server
from one snapshot, applied if it is still the newest (`Refetch`,
`BuildResponse`, `ReadArrives`).

### Sockets: `services/realtime/transport.ts`, `state.ts`, `credentials.ts`, web `realtime.svelte.ts`, `connectivity.svelte.ts`

| State | Code |
|---|---|
| `tab[t]` | one tab's `#stopped`, `#socket`, `#reconnectTimer`, `#visibilityWatched`, `evicted`, visibility and `connectivity.reachable`; `asking` counts the revalidations under way |
| `sock[s]` | a connection: the tab's end, the pod's end (before, during and after the token's lookup, in, closing) and the frames between |
| `registered` | `socketStates` in the order of insertion, which is the order of eviction |
| `live`, `entry` | the session's row; a `sessions_revoked` entry on the bus |

One session in several tabs, one pod. The backoff's length is left out (a set timer
fires some time), and with it the difference between a yielding tab's delay and
others. `Terminate` is the end of a connection whose pings nobody answers.

### Membership: `routes/projects.ts`, `routes/invitations.ts`, `services/invitations.ts`, `projectMembers.ts`, `projectLock.ts`, `assigneeStrip.ts`, `accountDeletion.ts`

| State | Code |
|---|---|
| `db` | one project: `created_by`, member rows, pending invitations with inviter, address, role and whether they have expired, assignees of a task; the accounts there are |
| `req[r]` | a request between its check, made without a lock, and the part under the project lock, with what it has read |
| `lock` | the request that holds the project row over two statements (`DELETE /me`) |
| `withdrawn`, `granted`, `demoted`, `crossed[r]` | history; `crossed[r]`: of those an assignment in flight names, who had no access when it looked or has lost it since |

Under the row lock nobody else writes members or invitations, so the rest of a
request is one step. `Assign` and `Resend` take no lock and are steps all the
same: each is a check and a later write. A request that finds its caller no
longer entitled ends in `Refuse`.

### Series: `services/taskSeries/materialize.ts`, `write.ts`, `rule.ts`, `routes/taskSeries.ts`

| State | Code |
|---|---|
| `row` | the `task_series` row; a rule, with its anchor and zone, is the set of days it falls on; `armed` is whether `next_occurrence_at` is there; the counter of missed days is kept per day |
| `cards` | the occurrences with a card (`task_series_occurrence_idx`) |
| `day`, `full`, `archived` | the calendar, the board's limit, the project's flag |
| `sweep[p]` | one pod: found, locked with its transaction's day, failed, counted |
| `edit[e]` | a PATCH between its unlocked read and its update |
| `again`, `stale`, `exhausted` | history: days scheduled when they were done with already; whether an edit wrote over what it had not read; whether the rule had run out when the series was made and nothing has paused or scheduled it since |

A series is made on any day, also after the last day of its rule: `createSeries` checks
that the rule occurs on or after its own start date (`rule.ts:221-224`), not that it
occurs from today on, and inserts an active row without a date then.
`Find` and `Lock` are apart because the candidates are read outside the
transaction. `CountFailure` and `PauseFailed` are two statements on their own.
A sweep whose transaction fails for any reason is `Throw`; a pod that dies at any point is
`Abandon`.

## Runs

| Run | Instance | What it shows |
|---|---|---|
| JobsSettle | 1 job, 2 pods with a tick each, attempts 2, 3 faults, a rollout whose new release adds the job's kind | `TypeOK`, `NoLostJob`, `ParksOnlyExhausted`; `KeepsPromise`, the refinement of `JobPromise`; under fairness `EveryJobSettles`, `SlotsComeBack` |
| JobSchedules | 1 schedule, 2 pods, 2 releases of which the second drops it, 2 faults | `ScheduleNeverStops`, `DroppedScheduleGoes` |
| JobLease | 4 jobs, 2 ticks of one pod, 2 slots, batch 4, timeout 2, budget 5, lease 6 (units of 10 s), 1 slow tick, 1 handler timeout | `SlotsBalance`, `LeaseCoversBatch` |
| WebhookBatches | 1 registration, 2 events, 1 batch, 2 requests in flight, 1 re-send, 1 fault | `StrandedOnlyByRace`, `ActiveBelowLimit` |
| WebhookLapses | 1 registration, 1 event, 2 batches, 1 request in flight, 1 re-send, 1 fault | `FailuresAreDistinct`, `DeliveredStays`; under fairness `DeliverySettles` |
| Outbox | 1 account, 2 edits of one card and a move of another, queue of 2, attempts 2, 1 reload | `NothingLost`, `NothingForgotten`, `NeverResent` |
| OutboxSessions | 2 accounts, a create and a move, 1 sign-out, 1 reload | `OneSender`, `QueueHasAWaker`, `AbandonedRunsAreSilent` |
| Dependencies | 2 tasks in each of 2 projects, edges both ways, 2 requests at a time, 3 in a behaviour | `LoopsSpanDisjointProjects`, `NoLockDeadlock`, `TouchHeals` |
| Realtime | 1 card, 2 changes, 2 faults (a lost connection, a failed read, a board left) | `NoUnknownGap`; under fairness `GapsHeal` |
| Membership | 3 people, 2 requests in flight, 4 in a behaviour, 2 invitations | `TypeOK`, `OwnerIsNoMember`, `WithdrawnNeverGrants`, `InvitersCanWriteButByEmail`, `AssignmentsFollowAccess`, `SharedBoardSurvives` |
| Sockets | 2 tabs where 1 connection is allowed, 3 sockets, 2 faults, 1 tab shown or hidden | under fairness `DeadSessionsClose`, `VisibleTabsSettle`; `TabHasAWaker` |
| Series | 2 pods, 1 edit at a time, made on any of the days 0 to 2, a daily rule up to day 3 and one of day 1 only, a scan of 2 days, 2 failures until the pause, 2 upsets (edits, changes by others, failures, crashes together) | `ActiveIsArmed`, `MissedOnce`, `NothingSkipped`, `OnlyEditsRevive`; under fairness `DueSettles` |

All runs pass. `TypeOK` of WebhookQueue, Outbox, Realtime, Sockets and Series, the
ceiling of sockets (`BelowCeiling`) and the mutual exclusion of row locks in Series
held in runs of the same instances; `TypeOK` of Dependencies and
`ParkedStaysParked` of JobQueue are proved. To repeat one, add its
name to the configuration.

Why the bounds are enough for what they are used for:

* Two is the least number at which actors of a kind can meet (pods, ticks,
  batches, requests, accounts, executions of `#run`), and every interaction modelled is between pairs:
  through one row, one registration, one queue, one lock.
* MAX_ATTEMPTS and MAX_CONSECUTIVE_FAILURES are 2 where the code has 6 and 5: one
  attempt that is not the last and one that is. Counters saturate at the constant they
  are compared with.
* JobLease keeps the proportions of 20 s, 45 s and 60 s, with two rounds of handlers per slot, so
  the last handler of a batch ends at 40 s and the budget and the lease follow.
* Faults are bounded by `MaxFaults`, so that liveness asks for what the code promises: it
  recovers from each fault, not from an endless series of them.
* Realtime needs two changes of one card for one to overtake the other, and two faults
  for a reconnect that fails; cards do not interact. Membership needs two requests in flight for
  a check to be overtaken, and four requests to bring about who is owner, member,
  invited and demoted first; with five (1.3 million states) nothing changes. Sockets needs one tab
  more than the ceiling admits and one socket more than there are tabs, for a
  half-open one. Series needs a backlog longer than its scan (3 days against 2) and a failure more than
  one; with two concurrent edits (1.8 million states) or three upsets (2.4 million)
  its safety properties hold as well.
* The instance of Dependencies starts one edge short of a loop in either project,
  so that a single pair of concurrent additions can close it.

`CHECK_DEADLOCK FALSE` where the system may come to rest: webhook events, outbox
operations, dependency and membership requests, faults and days are finite in number,
and so everything may be done. The job worker ticks for ever, and its runs check deadlock.

Symmetry is used for jobs, events, batches, accounts and runs, in runs of safety
properties only.

**Fairness.** JobQueue: time passes (`RunAtPasses`), each pod's interval timer fires
(`setInterval` keeps firing; `startWorker` swallows every error), a statement is
answered and its continuation runs, a handler returns, throws or is timed out
(`withTimeout`). Nothing is assumed of abandoned handlers, producers or faults.
WebhookQueue: the same with a send that ends (by SEND_TIMEOUT_MS at the latest). No
fairness is assumed of editors, of events, or of what a receiver answers. Realtime:
frames and bus entries arrive, `deliver` goes on, a reconnect is tried, requests are
answered or fail (strong fairness for an answer: every reconnect and every event may
have made it obsolete before), a drag and a drain end. Nobody has to write, leave,
or drag. Sockets: timers fire, requests settle, frames arrive, heartbeats and close
events happen; nobody has to sign out, lose a connection or look at a tab. Series: a
pod goes on sweeping, which JobQueue shows of the schedule that drives it, and a sweep
that has begun goes on; that a statement fails counts as no progress. Outbox,
Dependencies and Membership have no liveness property: the network may stay away for ever, and
locks are released by commits the database controls.

## Where the code and its comments differ

Each statement below is a definition of a module that does not hold. None is in a
configuration; put its name in place of the properties of the run that is named, and
TLC prints the behaviour. The passing runs check what does hold instead.

1. *A pending row on a disabled registration* (`NoneStranded`, WebhookBatches).
   `webhooks/queue.ts:228-230` says that a pending row left behind is stranded for ever, and
   `routes/webhooks.ts:210-211` that disabling terminates every queued delivery. `enqueueDeliveries` reads the
   active registrations (37-42) and inserts their rows (77-82) in two statements: a registration
   disabled in between gets a row that nothing claims, terminates or prunes.
   Redeliver (`routes/webhooks.ts:428-459`) does the same. What holds: `StrandedOnlyByRace`.
2. *The claim of deliveries does not exclude two replicas* (`LeaseExcludes`,
   WebhookLapses). `queue.ts:85-86` says that FOR UPDATE SKIP LOCKED and the lease make two
   replicas safe. The conditions (97-108) are in a subquery that is not locked, the lock (109-113) joins
   it by id: a row that another replica claims and commits in between is claimed again. The job
   queue, whose conditions are on the locked row, is not affected.
   What holds: `FailuresAreDistinct`, `DeliveredStays`, with exactly those rows excepted.
3. *Work attributed to the next account* (`AttributedToOwner`, OutboxSessions).
   `outbox.svelte.ts:738-741` says that `reset` prevents it. Two awaits are not followed by a look at the
   generation: the request of `submit` (172-187), and `#rekey` before `sendRequest` (376-378).
   Once work of an earlier account is in the queue, a second sign-out can leave behind a run that sends it for
   somebody else, and the next account can queue and claim the same entry: then the `finally` of
   the abandoned run gives up a claim and clears a memo that are not its own, against 763-766
   ("the abandoned run cannot write"). Hence `~mixed` in `AbandonedRunsAreSilent`.
4. *A dependency loop across projects* (`Acyclic`, Dependencies with `MaxRequests` 2).
   `dependencies.ts:7-9` says that the lock serializes the writes of edges. The cycle check walks every project, the locks cover
   the two of the new edge: with a2->b1 and b2->a1 in place, a1->a2 and b1->b2
   pass at once. What holds, and is proved: `LoopsSpanDisjointProjects`.
5. *An editor demoted by an invite keeps their invitations* (`InvitersCanWrite`, Membership).
   `services/invitations.ts:228-229` says that losing write access takes the outstanding
   grants along. `POST /:id/members/by-email` with role `viewer` for an address that is an editor's
   (`routes/projects.ts:998-1006`) overwrites the role and sweeps nothing. What holds: `InvitersCanWriteButByEmail`.
6. *A covered board that is out of date* (`CoverageMeansCurrent`, Realtime).
   `realtime-coverage.svelte.ts:1-30` says that what was read under a token stays current for as long as
   the token comes back. An answer built before an event that has arrived meanwhile replaces the
   whole board (`board.svelte.ts:408-450`), and two events of one card may be sent in the wrong order. What
   holds: `NoUnknownGap`, of what the screen has been told.
7. *Two sockets of one tab* (`OneSocketPerTab`, Sockets). `realtime.svelte.ts:441-444` says that a
   reconnect cannot stack a second socket. A revalidation awaits its request while the network comes back
   and opens a socket; then the timer it sets (363-371) opens another, without a look at
   `#socket`. The first one is not closed by the tab; the pings it no longer answers end it.
8. *Series edited on a stale read.* A PATCH decides from a row it read without a lock
   (`write.ts:342-369`). One with `status: active` that read `active` before the series was paused
   leaves an active row without a date, which the sweep never claims, against `write.ts:359-360` and
   README 697 ("self-healing after any edit"); a new rule for a series that has ended since gets a schedule and stays ended;
   of two edits, one of the rule and one of the zone, the date is the one the other's
   rule gives. `ActiveIsArmed` with `stale` left out shows them.
9. *A series made on a rule that has run out* (`NoZombieRow`, Series). README 656-657 says that a
   rule that can never fire is "a 422, not a zombie row". The rule is checked from its start date, which may
   lie in the past (`rule.ts:221-224`): with a COUNT or UNTIL that is over by today `createSeries`
   (`write.ts:169-196`) inserts an active row with no next occurrence. No sweep claims it, so it is neither
   ended nor paused, and stays until somebody pauses or schedules it; `PATCH` (359-366) and copies
   (`copy.ts:44-58`) end it instead. Such a series, and the edits of item 8, are the
   only active series without a date: `ActiveIsArmed`.
10. *An assignee without access* (`AssigneesHaveAccess`, Membership). `projectMembers.ts:6-8` says that
   losing membership takes the assignments with it, `accountDeletion.ts:88-90` that an assignment outlives
   the membership. The code takes them, but `PUT /:id/assignees` checks access without a lock
   (`routes/tasks.ts:1285`) and writes its list afterwards: a member removed in between is
   assigned again, and stays so, as people on the list already are not checked and who is no
   member is not removed again, until a list leaves them out. What holds: `AssignmentsFollowAccess`, no removal
   leaves an assignment behind.

Smaller ones, seen while reading and not run: `routes/tasks.ts:1408` still says the
blocker must be in the same project; the API's README says at most four jobs run at
once, which is true of `runJob` and not of handlers that outlived their timeout;
re-enabling on a stale read keeps the failure count (`ActiveBelowLimit` names the
exception); counts of cross-project blockers can drift when two recounts cross,
which the README concedes and `TouchHeals` bounds; two requests that make a series of one card at
once both adopt it, as `series_id` is read (`routes/tasks.ts:545-558`) before the project is locked;
deleting a column reads its cards first, and the cascade takes one that a sweep inserts after
(`routes/columns.ts:353-413`); the day of the card a series was made from counts as
missed if no sweep runs that day, and an edit that spans midnight may count a day again
(`again` in Series excepts both); one deleted registration fails the foreign key
of its chunk and loses the rows of the others in it (`InsertRows`, `queue.ts:78`), which the code logs
and accepts.

## Proofs

Every invariant and every action property that a run checks, and the two refinements, are
theorems that TLAPS checks for every value of the constants that satisfies the
assumptions named in the modules; the liveness properties are not. The proofs are in

| Module | About | Assumptions on the constants |
|---|---|---|
| `JobProofs` | JobQueue, JobPromise, JobLease | `KindAssumption`, `ReleaseAssumption`, `TickAssumption`, `LimitAssumption`, for JobLease also `LeaseArithmetic` |
| `WebhookQueueProofs` | WebhookQueue | `WebhookLimits`, `WebhookSets` |
| `OutboxProofs` | Outbox | `OutboxConstants`, `NoOpAssumption` |
| `DependencyProofs` | Dependencies | `DependencyAssumption`, `FirstAssumption` |
| `RealtimeProofs` | Realtime | `RealtimeAssumption` |
| `SocketsProofs` | Sockets | `SocketAssumption` |
| `MembershipProofs` | Membership | `MembershipAssumption` |
| `SeriesProofs` | Series | `SeriesAssumption` |

The assumptions say that limits are natural numbers (positive where the code's are), that
distinguished values differ from the others, and that sets whose members are counted are finite;
beyond that, `LeaseArithmetic` is the chain the API's README asks to keep, and `FirstAssumption` that
the edges a behaviour starts from close no loop. In none of the modules is the
property proved the whole of the invariant; what each needs besides is the
content of the proof, and TLC has checked it on the instances of the runs.

**JobQueue**: `TypeCorrect`, `AtLeastOnce` (`NoLostJob`), `ParkedAreExhausted`
(`ParksOnlyExhausted`), `ParkedRowsStay` (`ParkedStaysParked`, in no run). None of the three safety
properties is inductive: a settlement acts on a snapshot taken long before. The
inductive invariant adds what snapshots keep knowing however late they are:
one-shot rows exist only for jobs that were enqueued (`RowsEnqueued`); a claim or
a run of a one-shot job has no more attempts than the row, if the row still exists,
because attempts only grow (`ClaimsBacked`, `RunsBacked`), so a run that parks a
row finds it exhausted; a run about to record success has its job among those that
ran (`SuccessRan`), so the row it deletes is of a job that is done. `ParkedStaysParked` is an
action property and follows from the invariant at each step.

**JobPromise**: `QueueKeepsPromise` proves `Spec => KeepsPromise`, that `JobQueue`
implements `JobPromise` under the mapping `Life`. The initial states map by the
definitions. A step maps by cases: an enqueue is `Submit`; a claim is `HandOut` of the
one-shot rows it takes; a handler that returns is `Work`, and so is one that ends
after its timeout; a settlement is `Leave`, `Park` or a stutter; the rest stutters. Beyond the
invariant of `Invariance` the cases need that a job whose handler outlived its timeout was enqueued
(`OverrunsEnqueued`) and that the row of a job that is gone counts no attempts (`GoneCountNothing`);
`Auxiliary` proves both invariant.

**Slots**: `SlotsAreCounted` (`SlotsBalance`). A sum over ticks is a recursion the prover does not
follow; so a slot is taken for a pair of a tick and a number, the slots of a pod are the set of
these pairs (`SlotsHeld`), and a reservation or a return changes its size by the
size of a difference. `SlotsInv` adds that a tick holds slots only from its
reservation to its end and is inside `runJob` for no more rows than it holds slots.

**JobLease**: `LeaseImplementsQueue` proves `LeaseSpec => Spec`: every timed step
is a step of the queue and `Advance` and `HoldUp` stutter. So `NoLostJob`, `SlotsBalance` and
`KeepsPromise` hold under the clock too (`LeaseAtLeastOnce`, `LeaseSlotsAreCounted`,
`LeaseKeepsPromise`). `LeasesHold` is the timing itself (`LeaseCoversBatch`), for any lengths in the
right order. A claim takes at most ROUNDS rows per slot it holds, and while the tick is not held
up no slot rests as long as a row is queued. So for some number *q* of rounds to come and some
rest *rho* of the round in hand, the rows queued and the handlers with more than *rho* left
fit *q* rounds of the slots held, and the leases have more than *q* timeouts
and *rho* left (`Ahead`, `InTime`). `Advance` lowers *rho*, and at its end turns a round; a row that is started takes
the place of a handler that has ended. A lease that has time left is not due, and a
row that is not due is not claimed (`Leased`).

**WebhookQueue**: `TypesHold`, `SettlingStrandsNone` (`StrandedOnlyByRace`), `ActiveHasSpare` (`ActiveBelowLimit`),
`NoFailureCountsTwice` (`FailuresAreDistinct`), `DeliveredIsFinal` (`DeliveredStays`). The last two rest on
`Holdings`: rows and claims of an event exist only after its fan-out; unless `late`
names the row, one batch has it, and it is not delivered yet. Failures need besides that a row already
counted against its registration is pending again only by a re-send, which every claim of it
knows (`BlamedOnlyResent`), so that it is not counted again. What strands a row is
shown action by action: disabling and deleting terminate all rows in the same transaction, so only an
insert or a re-send decided before remains.

**Outbox**: all its properties: `TypesHold`, `WorkIsDurable` (`NothingLost`), `StoredWorkComes` (`NothingForgotten`),
`AnsweredIsGone` (`NeverResent`), `OneRunSends` (`OneSender`), `QueueMoves` (`QueueHasAWaker`), `AbandonedRunsDoNotWrite`
(`AbandonedRunsAreSilent`). One invariant carries them all, `IInv`. Always: types, and what keeps the queue moving (`Moving`: the
memoized run is current, a claim belongs to a current run). As long as no work of an earlier
account has got in, `Clean`: a current run is the memoized one and has claimed what it sends
(`SoleRun`); a mutation is carried by one entry, in memory as in its stored copy (`Copies`); what
is in memory is the account's (`Owned`); a stored queue being read and a mutation being sent directly are in no queue yet
(`ReadsFresh`, `DirectFresh`); what an abandoned run has is nowhere else any more (`RunsKept`). The lemmas about
queues as sequences without duplicates come first, then one per action.

**Dependencies**: `TypeCorrect`; `LoopsNeedDisjointProjects`
(`LoopsSpanDisjointProjects`) for any number of projects, tasks and requests; and
`OneProjectAcyclic`, the claim of the code's comment where it holds, for a single
project. The argument: call the committed edges and the edges of additions past
their check *candidates*. Any set of candidates every two of which share a project
closes no loop. Two additions past their check whose edges share a project cannot
coexist, since both hold that project's lock; so when an addition passes its
check, every other candidate that shares a project with it is committed, and a
loop through the new edge would be a path the check has just walked
(`CheckKeeps`). Removals only shrink the set.

`LocksNeverDeadlock` (`NoLockDeadlock`): a request waits only for locks above all it holds (`Ascending`).
In a circle each would wait for a lock that another holds, which waits for a higher one, without end;
but finitely many requests are in flight (`FewBusy`), so one of them waits for the highest lock. `CountsHeal` (`TouchHeals`): `AloneHeals` says what a request that nothing overlapped
knows at each of its statements, up to "for every task the change bears on, the count is right or
among those still to be written"; it leans on the foreign keys (`KeysHold`), as a
count that is written must be that of a task that is still there.

**Realtime**: `GapsAreKnown` (`NoUnknownGap`), for any cards, changes and faults. The property speaks of the board; the answer to a
read turns a board into a covered one, so the invariant must say the same of an answer on its way:
what an answer built under a token that still holds lacks was told since, or is
on its way (`ReadCovered`). When the answer is built nothing is missing from it; what is written later is
published to a room the client is in, as the token holds only under a subscription (`Subscribed`). That a token taken before the last
subscription cannot hold again is `Tokens`.

**Sockets**: `NoTabIsStranded` (`TabHasAWaker`), for any tabs, connections and ceiling: every
callback that leaves a tab without a connection leaves it a timer, a revalidation or a
visibility listener. Which branch runs depends on the code a connection was closed with, so the invariant
carries the types of the frames under way.

**Membership**: every property of its run, for any people, requests in flight, bodies and limits:
`TypeCorrect`, `OwnerNeverMember`, `ConsumedOnce` (`WithdrawnNeverGrants`), `InvitersKeepWriting`
(`InvitersCanWriteButByEmail`), `AccessTakesAssignments` (`AssignmentsFollowAccess`) and `SharedBoardsStay`
(`SharedBoardSurvives`). The inductive invariant `IInv` adds to the properties what they lean on.
`RowsKept`: ids grow, and who has access has an account. `SpentKept`: an id that was honored or withdrawn
is not pending, so that a claim, which honors pending ids only, cannot honor it, however long ago
it read the row. `AssignKept`: whom a request is going to assign has access, or is recorded in `crossed`, or has left
the service; so the write, which checks nothing, assigns nobody else. Each lemma of an operation also shows that its
step leaves no other assignment without access (`Followed`).
`LockKept`: an account deletion that found a board holds the lock, and the board is still the caller's, because a
transfer waits for the lock; so what it drops is its own. One lemma per operation (`SetMembersKeeps`,
`ClaimKeeps`, `TransferKeeps`, `DeleteAccountKeeps`, ...) shows `IInv` preserved.

**Series**: `TypesHold`, `ActiveIsClaimable` (`ActiveIsArmed`), `NoDayMissedTwice` (`MissedOnce`), `CatchUpSkipsNone`
(`NothingSkipped`), `SweepsReviveNone` (`OnlyEditsRevive`), for any rule, backlog and scan limit. `LockedDue`: one pod has the series locked, and until it
commits the series stays active, armed and due. `SettledBehind`: what has a card or counts as missed
lies before the next occurrence, except days scheduled again; so what a sweep creates or counts is new. `ActiveIsArmed`
is inductive with them: a series that was made on a rule that had run out (`exhausted`) has no date, so no sweep locks it. That a run skips nothing
is a lemma about its plan (`PlanFields`): the scanned window has every occurrence up to its last, and the next date is the
first one after those the plan has dealt with.

## What is not shown

* Liveness under fairness is out of the prover's reach and model-checked only: `EveryJobSettles`, `SlotsComeBack`,
  `ScheduleNeverStops`, `DroppedScheduleGoes`, `DeliverySettles`, `GapsHeal`, `DeadSessionsClose`, `VisibleTabsSettle`, `DueSettles`.
* So are facts by induction over data: what the fold `AppliedAll` makes of the board's rows in Realtime, and
  what filtering `registered` leaves in Sockets. `TypeOK` of these two and `BelowCeiling` need them; the theorems about
  these modules do not. That `seq` orders the queue of Outbox is in no property.
* The SQL is modelled, not the planner: that READ COMMITTED evaluates the claim's
  conditions once is read from the query and PostgreSQL's rules for locked rows.
* A statement is atomic in itself, except the two that are not (`Claim` of webhooks
  and the recount). IndexedDB writes are taken to happen in the order they are issued, and to succeed.
* Realtime has one pod and one board; recipient lists, the recheck of access of each event
  and the bus of Redis, which carries entries unchanged, are left out. Sockets has one session; personal
  access tokens are left out. Membership has one project and no order among locks of several. Series leaves out
  time zones, `rrule`, the template, copies of series (which may be made paused or ended) and the cap on their number.
* Notifications, ordering keys, attachments: not modelled (see the plan). Web UI, command line,
  preview proxy, infrastructure and scripts: rendering, sequential calls and deployment, with no state that
  two actors share. Generated clients (`*.generated.ts`) hold no logic.
* The contents of requests, mails and payloads.

## Plan

1. **Notifications**: the digest's claim and send, budgets and refunds.
2. **Column tails** and rank collisions; the **storage quota** and deletion after commit.
3. **Dependencies**, set-valued forms: bulk edits, a column's done flag, deleting
   a project, project copy.
4. `Sockets` under `Realtime`: one module with both, which needs instances beyond what TLC finishes in minutes.
5. Proofs: an abstract specification of what the outbox and the webhook queue promise of one mutation
   and one delivery, as `JobPromise` is for a job, and the refinements; `BelowCeiling` of Sockets with `registered`
   as a set with an order.
