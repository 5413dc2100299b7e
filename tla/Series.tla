------------------------------- MODULE Series -------------------------------
(***************************************************************************)
(* One recurring series: the sweep that every pod runs over it once a      *)
(* minute (services/taskSeries/materialize.ts) and the requests that edit  *)
(* it (services/taskSeries/write.ts, routes/taskSeries.ts).                *)
(*                                                                         *)
(* The sweep finds the series without a lock, locks its row, skipping it   *)
(* when another sweep has, creates the cards that are due and moves the    *)
(* schedule on in one transaction.  What fails is counted in statements    *)
(* after it.  An edit decides from a row it read without a lock and from   *)
(* the day its transaction began, and then updates that row.               *)
(*                                                                         *)
(* Time is a day; a recurrence rule, with its anchor and its zone, is the  *)
(* set of days it falls on.  The instant next_occurrence_at is there or    *)
(* not (armed): if it is, it is the start of next_occurrence_date.  The    *)
(* counter of missed days is kept per day.  The template, the card's place *)
(* in its column and the events are left out.                              *)
(***************************************************************************)
EXTENDS Integers, FiniteSets, FiniteSetsExt

CONSTANTS
    Pod,          \* API processes, a sweep each at most
    Edit,         \* PATCH requests that may be in flight at once
    Rule,         \* bound: the recurrence rules that are used
    MaxDay,       \* bound: the last day of a behaviour
    Scan,         \* MAX_CATCHUP_SCAN
    MaxFailures,  \* MAX_CONSECUTIVE_FAILURES
    MaxUpsets     \* bound: edits, changes by others, failed statements and
                  \* crashes of a behaviour, together

Day == 0 .. MaxDay + 1
Never == MaxDay + 2   \* a date that is null

\* A rule falls on some day, on or after its own anchor (rule.ts:221-224): that
\* day may lie before the day the series is made, or after the last day of a
\* behaviour.
ASSUME SeriesAssumption ==
    /\ {MaxDay, Scan, MaxFailures, MaxUpsets} \subseteq Nat
    /\ Scan > 0 /\ MaxFailures > 0
    /\ Rule \subseteq SUBSET Day /\ {} \notin Rule

VARIABLES
    row,       \* the series
    cards,     \* the occurrences that have a card
    day,       \* the current day
    full,      \* whether the board is at its task limit
    archived,  \* whether the project is archived
    sweep,     \* how far each pod has come with the series
    edit,      \* what each edit asks and has read
    upsets,    \* counter of the bound
    again,     \* history: occurrences that were scheduled when they were done with
    stale,     \* history: whether an edit wrote over what it had not read
    exhausted  \* history: whether the rule had run out when the series was made,
               \* and nothing has paused or scheduled it since

world == <<day, full, archived>>
vars == <<row, cards, world, sweep, edit, upsets, again, stale, exhausted>>

-----------------------------------------------------------------------------
\* The first day of a rule on or after a day: firstOccurrenceOnOrAfter.
First(rule, from) == LET days == {d \in rule : d >= from}
                     IN IF days = {} THEN Never ELSE Min(days)

Nothing == [d \in Day |-> 0]

\* One more of what MaxUpsets bounds.
Upset == upsets < MaxUpsets /\ upsets' = upsets + 1

\* A row; one that is gone has the status "none".
Row == [status : {"active", "paused", "ended", "none"}, column : BOOLEAN, rule : Rule,
        next : Day \cup {Never}, armed : BOOLEAN, failures : 0 .. MaxFailures,
        missed : [Day -> 0 .. 2]]

Idle == [at |-> "idle"]

\* createSeries: active, with the first occurrence on or after today and no
\* date where there is none; createSeriesFromTask makes the card it started
\* from that occurrence.
Init ==
    /\ day \in 0 .. MaxDay /\ full = FALSE /\ archived = FALSE
    /\ \E rule \in Rule :
          LET next == First(rule, day)
          IN row = [status |-> "active", column |-> TRUE, rule |-> rule, next |-> next,
                    armed |-> next # Never, failures |-> 0, missed |-> Nothing]
    /\ cards \in {{}, {row.next} \ {Never}}
    /\ sweep = [p \in Pod |-> Idle]
    /\ edit = [e \in Edit |-> Idle]
    /\ upsets = 0
    /\ again = cards /\ stale = FALSE /\ exhausted = ~row.armed

-----------------------------------------------------------------------------
(* The sweep.                                                              *)
Sweeps(p, state) == sweep' = [sweep EXCEPT ![p] = state]

\* A faulty form: a series that was due when it was found is taken as it is.
ClaimableFound == row.status # "none"

\* A faulty form: the locked read looks at the status and not at the date.
ClaimableEarly == row.status = "active" /\ row.column /\ row.armed

Claimable ==
    /\ row.status = "active" /\ row.column
    /\ row.armed /\ row.next <= day

\* claimCandidates.
Find(p) ==
    /\ sweep[p] = Idle
    /\ row.status = "active" /\ row.column /\ row.armed /\ row.next <= day /\ ~archived
    /\ Sweeps(p, [at |-> "found"])
    /\ UNCHANGED <<row, cards, world, edit, upsets, again, stale, exhausted>>

Locked == \E p \in Pod : sweep[p].at = "locked"

\* materializeSeries: the locked read, with the day of its transaction.
Lock(p) ==
    /\ sweep[p].at = "found"
    /\ Sweeps(p, IF Claimable /\ ~Locked /\ ~archived THEN [at |-> "locked", today |-> day]
                 ELSE Idle)
    /\ UNCHANGED <<row, cards, world, edit, upsets, again, stale, exhausted>>

\* occurrencesBetween: the first Scan of the days of the rule in between.
Window(from, to) ==
    LET days == row.rule \cap (from .. to)
    IN {d \in days : Cardinality({c \in days : c <= d}) <= Scan}

\* A faulty form: a full window is taken for one that was cut off.
SaturatedFull(window, today) == Cardinality(window) = Scan

\* A window that was cut off: the backlog is walked on, and nothing created.
Saturated(window, today) == Cardinality(window) = Scan /\ Max(window) < today

\* What a run makes of the series: the cards it is to create, the days it
\* counts as missed and where the schedule goes on.
Plan(today) ==
    LET window == Window(row.next, today)
    IN IF window = {}
       THEN [due |-> {}, missed |-> {}, next |-> First(row.rule, today)]
       ELSE IF Saturated(window, today)
       THEN [due |-> {}, missed |-> window, next |-> First(row.rule, Max(window) + 1)]
       ELSE [due |-> window \cap {today}, missed |-> window \ {today},
             next |-> First(row.rule, Max(window) + 1)]

Twice(n) == IF n < 2 THEN n + 1 ELSE 2

\* The schedule moves on, and ends when the rule is exhausted.
Advanced(plan) ==
    [row EXCEPT !.next = plan.next, !.armed = plan.next # Never,
                !.status = IF plan.next = Never THEN "ended" ELSE "active",
                !.failures = 0,
                !.missed = [d \in Day |-> IF d \in plan.missed THEN Twice(@[d]) ELSE @[d]]]

\* assertTaskCapacity refuses what does not fit as a whole.
Refused(plan) == full /\ plan.due # {}

\* The cards, an occurrence that has one being left alone, and the schedule,
\* in one commit.
Materialize(p) ==
    /\ sweep[p].at = "locked"
    /\ LET plan == Plan(sweep[p].today)
       IN /\ ~Refused(plan)
          /\ cards' = cards \cup plan.due
          /\ row' = Advanced(plan)
    /\ Sweeps(p, Idle)
    /\ UNCHANGED <<world, edit, upsets, again, stale, exhausted>>

\* The board is full, or a statement fails: nothing of it is left.
Throw(p) ==
    /\ sweep[p].at = "locked"
    /\ \/ Refused(Plan(sweep[p].today)) /\ UNCHANGED upsets
       \/ Upset
    /\ Sweeps(p, [at |-> "failed"])
    /\ UNCHANGED <<row, cards, world, edit, again, stale, exhausted>>

\* A faulty form: the reason is stored and the failure not counted.
BumpedNot == row

\* recordSeriesFailure, first statement.
Bumped == IF row.status = "none" THEN row
          ELSE [row EXCEPT !.failures = IF @ < MaxFailures THEN @ + 1 ELSE @]

CountFailure(p) ==
    /\ sweep[p].at = "failed" /\ ~Locked
    /\ row' = Bumped
    /\ Sweeps(p, [at |-> "counted"])
    /\ UNCHANGED <<cards, world, edit, upsets, again, stale, exhausted>>

\* Second statement: a series that failed too often is paused, whatever else
\* it is by now.
PauseFailed(p) ==
    /\ sweep[p].at = "counted" /\ ~Locked
    /\ row' = IF row.status # "none" /\ row.failures >= MaxFailures
              THEN [row EXCEPT !.status = "paused", !.armed = FALSE] ELSE row
    /\ Sweeps(p, Idle)
    /\ UNCHANGED <<cards, world, edit, upsets, again, stale, exhausted>>

\* The pod dies, or a statement of recordSeriesFailure fails: the transaction
\* is gone, the failure is not counted or the pause is left to the next one.
Abandon(p) ==
    /\ sweep[p] # Idle
    /\ Upset
    /\ Sweeps(p, Idle)
    /\ UNCHANGED <<row, cards, world, edit, again, stale, exhausted>>

-----------------------------------------------------------------------------
(* Edits.                                                                  *)
\* Bodies of PATCH: status pauses, resumes or leaves be; rule is a new preset
\* or rrule, alone or with a status; rezone stands for a new start date or time
\* zone that leaves the days of the rule as they are; column and clear give a
\* column and clear the counter.
NoRule == {}
Body ==
    LET bodies == [status : {"active", "paused", "kept"}, rule : Rule \cup {NoRule},
                   rezone : BOOLEAN, column : BOOLEAN, clear : BOOLEAN]
        asks(b) == <<b.status # "kept" \/ b.rule # NoRule, b.rezone, b.column, b.clear>>
    IN {b \in bodies : \E i \in 1 .. 4 : \A j \in 1 .. 4 : asks(b)[j] <=> i = j}

\* The request reads the row; its day is that of its transaction.
Read(e, b) ==
    /\ edit[e] = Idle /\ row.status # "none" /\ Upset
    /\ edit' = [edit EXCEPT ![e] =
          [at |-> "read", body |-> b, status |-> row.status, rule |-> row.rule, today |-> day]]
    /\ UNCHANGED <<row, cards, world, sweep, again, stale, exhausted>>

\* A faulty form: a resumed series goes on from where it stopped.
RescheduledResumed(b, read) == b.rule # NoRule \/ b.rezone

Rescheduled(b, read) ==
    \/ b.rule # NoRule \/ b.rezone
    \/ b.status = "active" /\ read.status # "active"

\* scheduleFrom: the first occurrence on or after today.
Scheduled(r, rule, today) ==
    LET next == First(rule, today)
    IN [r EXCEPT !.next = next, !.armed = next # Never, !.failures = 0,
                 !.status = IF next = Never THEN "ended" ELSE @]

\* patchSeries: the row after the update.  Only what changed, by what was read,
\* is written; what follows from it is computed from what was read.
Patched(b, read) ==
    LET rule   == IF b.rule = NoRule THEN read.rule ELSE b.rule
        status == IF b.status = "kept" THEN read.status ELSE b.status
        plain  == [row EXCEPT
                     !.rule = IF rule # read.rule THEN rule ELSE @,
                     !.status = IF b.status = "kept" THEN @ ELSE b.status,
                     !.column = @ \/ b.column,
                     !.missed = IF b.clear THEN Nothing ELSE @]
    IN IF b.status = "paused" THEN [plain EXCEPT !.armed = FALSE]
       ELSE IF ~Rescheduled(b, read) THEN plain
       ELSE IF status = "active" THEN Scheduled(plain, rule, read.today)
       ELSE [plain EXCEPT !.next = Never, !.armed = FALSE]

\* An occurrence that is done with: it has a card or was counted as missed.
Settled(d) == d \in cards \/ row.missed[d] > 0

\* The update waits for a sweep that has the row locked, and then overwrites.
Write(e) ==
    LET read == edit[e]
        touches == read.body.status # "kept" \/ Rescheduled(read.body, read)
    IN /\ read.at = "read" /\ ~Locked
       /\ edit' = [edit EXCEPT ![e] = Idle]
       /\ IF row.status = "none" THEN UNCHANGED <<row, again, stale, exhausted>>
          ELSE /\ row' = Patched(read.body, read)
               /\ again' = IF row'.armed /\ Rescheduled(read.body, read)
                           THEN again \cup {d \in Day : d >= row'.next /\ Settled(d)} ELSE again
               /\ stale' = (stale \/ (touches /\ (\/ row.status # read.status
                                                  \/ row.rule # read.rule)))
               /\ exhausted' = (exhausted /\ read.body.status # "paused"
                                          /\ ~Rescheduled(read.body, read))
       /\ UNCHANGED <<cards, world, sweep, upsets>>

\* DELETE: the cards stay.
Delete ==
    /\ row.status # "none" /\ ~Locked
    /\ row' = [row EXCEPT !.status = "none", !.armed = FALSE, !.failures = 0]
    /\ UNCHANGED <<cards, world, sweep, edit, upsets, again, stale, exhausted>>

\* The column goes: the series loses its destination (ON DELETE SET NULL).
DeleteColumn ==
    /\ row.status # "none" /\ row.column /\ ~Locked
    /\ row' = [row EXCEPT !.column = FALSE]
    /\ UNCHANGED <<cards, world, sweep, edit, upsets, again, stale, exhausted>>

-----------------------------------------------------------------------------
(* The world: midnight, cards of others and the project's archive flag.    *)
Midnight ==
    /\ day < MaxDay /\ day' = day + 1
    /\ UNCHANGED <<row, cards, full, archived, sweep, edit, upsets, again, stale, exhausted>>

Others ==
    /\ Upset
    /\ \/ full' = ~full /\ UNCHANGED archived
       \/ archived' = ~archived /\ UNCHANGED full
    /\ UNCHANGED <<row, cards, day, sweep, edit, again, stale, exhausted>>

SweepStep(p) ==
    \/ Find(p) \/ Lock(p) \/ Materialize(p) \/ Throw(p)
    \/ CountFailure(p) \/ PauseFailed(p)

Next ==
    \/ \E p \in Pod : SweepStep(p) \/ Abandon(p)
    \/ \E e \in Edit : Write(e) \/ \E b \in Body : Read(e, b)
    \/ Delete \/ DeleteColumn \/ Midnight \/ Others

Spec == Init /\ [][Next]_vars

\* The periodic job keeps sweeping on every pod, and what a sweep started goes
\* on: JobQueue's ScheduleNeverStops.  Nothing is asked of editors, of others
\* or of failures; that a statement fails is no progress either.
Progress(p) ==
    \/ Find(p) \/ Lock(p) \/ Materialize(p) \/ CountFailure(p) \/ PauseFailed(p)
    \/ Throw(p) /\ UNCHANGED upsets

FairSpec == Spec /\ \A p \in Pod : WF_vars(Progress(p))

-----------------------------------------------------------------------------
\* Types of the state; at most one sweep has the row locked.
TypeOK ==
    /\ row \in Row /\ cards \subseteq Day /\ day \in 0 .. MaxDay
    /\ again \subseteq Day
    /\ \A p \in Pod : sweep[p].at \in {"idle", "found", "locked", "failed", "counted"}
    /\ Cardinality({p \in Pod : sweep[p].at = "locked"}) <= 1

\* README "Recurring series", write.ts:342-369: what has a date is active and
\* its date is a day of the rule, and an active series without one is a series
\* made on a rule that had run out (write.ts:94-104, 178-196), until it is
\* paused or scheduled.  No sweep, failure or deletion, in any order, leaves
\* another; an edit that overwrote what it had not read may.
ActiveIsArmed ==
    ~stale => /\ row.armed => row.status = "active" /\ row.next \in row.rule
              /\ row.status = "active" => row.armed # exhausted

\* Not so: README "a 422, not a zombie row" and write.ts:359-360, no active
\* series without a next occurrence.  A rule is only checked from its anchor.
NoZombieRow == row.status = "active" => row.armed

\* README "Catch-up skips forward and records the gap", materialize.ts:233-265:
\* whatever the backlog, a sweep passes no occurrence that has no card without
\* counting it, and it counts only days that were over when it ran.
NothingSkipped ==
    [][\A p \in Pod : Materialize(p) =>
          \A d \in row.rule : d >= row.next /\ d < row'.next =>
             d \in cards' \/ (row'.missed[d] > 0 /\ d < sweep[p].today)]_vars

\* materialize.ts:204-222: a sweep that found the series due before it was
\* paused, resumed elsewhere or ended does not bring it back: only an edit does.
OnlyEditsRevive ==
    [][row.status \in {"paused", "ended"} /\ row'.status = "active" =>
          \E e \in Edit : edit[e] # Idle /\ edit'[e] = Idle]_vars

\* README "Catch-up ...": the schedule counts no day twice and counts no day
\* that has a card, unless that day was scheduled when it was done with: the
\* card the series was made from, or an edit that went back over it.
MissedOnce ==
    \A d \in Day \ again : row.missed[d] <= 1 /\ (row.missed[d] > 0 => d \notin cards)

\* README "One periodic sweep", materialize.ts:164-182: a series that is due is
\* materialized, or fails often enough to be paused; it does not hold up the
\* sweep for ever.
DueSettles == Claimable /\ ~archived ~> ~(Claimable /\ ~archived)
=============================================================================
