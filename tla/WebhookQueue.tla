---------------------------- MODULE WebhookQueue ----------------------------
(***************************************************************************)
(* Outbound webhooks of the API: registrations (routes/webhooks.ts), the   *)
(* delivery table (services/webhooks/queue.ts) and the batches that send   *)
(* its rows (services/webhooks/worker.ts).                                 *)
(*                                                                         *)
(* Three kinds of writers meet in two tables without one lock over both:   *)
(* post-commit hooks that fan an event out, batches on any pod that send   *)
(* and settle rows, and editors who disable, re-enable, delete and re-send.*)
(* A batch may be any execution of runDueDeliveries, on any pod, so two of *)
(* them overlap freely.  A row's next_attempt_at is its due flag, as in    *)
(* JobQueue: any delay between two steps is possible.                      *)
(*                                                                         *)
(* A statement is a step, and so is a transaction that locks the           *)
(* registration before it writes; every other read is a step of its own.   *)
(* The claim is two: its conditions are evaluated on a snapshot, and not   *)
(* again when it locks the rows.                                           *)
(***************************************************************************)
EXTENDS Integers, FiniteSets, FiniteSetsExt

CONSTANTS
    Hook,            \* registrations of one project
    Event,           \* board events its mutations emit
    Batch,           \* executions of runDueDeliveries that may be live at once
    MaxHooks,        \* MAX_WEBHOOKS_PER_PROJECT
    MaxAttempts,     \* MAX_ATTEMPTS
    MaxConsecutive,  \* MAX_CONSECUTIVE_FAILURES
    ClaimBatch,      \* CLAIM_BATCH
    PerHook,         \* MAX_PER_WEBHOOK_PER_TICK
    MaxSends,        \* MAX_CONCURRENT_SENDS
    MaxResends,      \* bound: times one delivery is re-sent by hand
    MaxRequests,     \* bound: editors' read-then-write requests in flight at once
    MaxFaults        \* bound: crashes and failed statements in a behaviour

Delivery == Event \X Hook
HookOf(d) == d[2]

ASSUME WebhookLimits ==
    /\ {MaxHooks, MaxAttempts, MaxConsecutive, ClaimBatch, PerHook, MaxSends} \subseteq Nat \ {0}
    /\ {MaxResends, MaxRequests, MaxFaults} \subseteq Nat

ASSUME WebhookSets == IsFiniteSet(Hook) /\ IsFiniteSet(Event)

VARIABLES
    hook,      \* project_webhook
    delivery,  \* webhook_delivery
    picked,    \* per event, the registrations its fan-out read as active
    phase,     \* per batch, how far runDueDeliveries has come
    scanned,   \* per batch, the rows the subquery of its claim has ranked
    todo,      \* per batch, claimed rows not sent yet
    open,      \* per batch, the registrations whose group a runner has taken
    sends,     \* per batch, rows being sent or settled
    patch,     \* per registration, what a re-enabling PATCH has read
    resend,    \* per delivery, how far a redeliver request has come
    raced,     \* history: rows queued by a request that read the registration
               \* as active before it was disabled
    late,      \* history: rows written by more than one of the writers at once
    unreset,   \* history: registrations re-enabled on a stale reading
    blamed,    \* history: per registration, the deliveries counted in its
               \* consecutive_failures
    faults     \* crashes and failed statements so far

tables == <<hook, delivery>>
batches == <<phase, scanned, todo, open, sends>>
requests == <<picked, patch, resend>>
history == <<raced, late, unreset, blamed>>
vars == <<tables, batches, requests, history, faults>>

-----------------------------------------------------------------------------
(* The tables.  attempt_count is only compared with MAX_ATTEMPTS and        *)
(* consecutive_failures with its limit: both saturate there.                *)

HookState == {"new", "on", "off", "gone"}
Status == {"none", "pending", "delivered", "failed"}
Row == [status : Status, due : BOOLEAN, attempts : 0..MaxAttempts, resends : 0..MaxResends]
NoRow == [status |-> "none", due |-> FALSE, attempts |-> 0, resends |-> 0]

\* The snapshot a claim returns, and the same row while a runner has it.
Claimed == [id : Delivery, attempts : 1..MaxAttempts, resent : BOOLEAN]
Sent == [id : Delivery, attempts : 1..MaxAttempts, resent : BOOLEAN,
         at : {"wire", "accepted", "refused"}]

Active(w) == hook[w].state = "on"
HookExists(w) == hook[w].state \in {"on", "off"}
RowExists(d) == delivery[d].status # "none"
Lesser(a, b) == IF a <= b THEN a ELSE b

Holds(b, d) == \E c \in todo[b] \cup sends[b] : c.id = d
Held(d) == \E b \in Batch : Holds(b, d)

Init ==
    /\ hook = [w \in Hook |-> [state |-> "new", fails |-> 0]]
    /\ delivery = [d \in Delivery |-> NoRow]
    /\ picked = [e \in Event |-> [at |-> "new", hooks |-> {}]]
    /\ phase = [b \in Batch |-> "idle"]
    /\ scanned = [b \in Batch |-> {}]
    /\ todo = [b \in Batch |-> {}]
    /\ open = [b \in Batch |-> {}]
    /\ sends = [b \in Batch |-> {}]
    /\ patch = [w \in Hook |-> "none"]
    /\ resend = [d \in Delivery |-> "none"]
    /\ raced = {} /\ late = {} /\ unreset = {}
    /\ blamed = [w \in Hook |-> {}]
    /\ faults = 0

\* Mutant: every row of the registration, not only those that are pending.
TerminatedAll(w) ==
    [d \in Delivery |->
        IF HookOf(d) = w /\ RowExists(d)
        THEN [delivery[d] EXCEPT !.status = "failed", !.due = FALSE]
        ELSE delivery[d]]

\* failPendingDeliveries: the rows of w after it.
Terminated(w) ==
    [d \in Delivery |->
        IF HookOf(d) = w /\ delivery[d].status = "pending"
        THEN [delivery[d] EXCEPT !.status = "failed", !.due = FALSE]
        ELSE delivery[d]]

-----------------------------------------------------------------------------
(* enqueueDeliveries: two statements, outside any transaction, after the    *)
(* mutation committed.                                                      *)

SelectHooks(e) ==
    /\ picked[e].at = "new"
    /\ LET active == {w \in Hook : Active(w)}
       IN  picked' = [picked EXCEPT ![e] = [at    |-> IF active = {} THEN "over" ELSE "read",
                                            hooks |-> active]]
    /\ UNCHANGED <<tables, batches, patch, resend, history, faults>>

\* One insert for the whole fan-out: a registration deleted in the meantime
\* fails its foreign key and takes the other rows down with it.
InsertRows(e) ==
    LET ws == picked[e].hooks
    IN  /\ picked[e].at = "read"
        /\ IF \A w \in ws : HookExists(w)
           THEN /\ delivery' = [d \in Delivery |->
                                  IF d[1] = e /\ HookOf(d) \in ws
                                  THEN [NoRow EXCEPT !.status = "pending", !.due = TRUE]
                                  ELSE delivery[d]]
                /\ raced' = raced \cup {<<e, w>> : w \in {v \in ws : ~Active(v)}}
           ELSE UNCHANGED <<delivery, raced>>
        /\ picked' = [picked EXCEPT ![e] = [at |-> "over", hooks |-> {}]]
        /\ UNCHANGED <<hook, batches, patch, resend, late, unreset, blamed, faults>>

\* The pod dies between the two, or the insert fails.
FanOutLost(e) ==
    /\ picked[e].at = "read"
    /\ faults < MaxFaults
    /\ faults' = faults + 1
    /\ picked' = [picked EXCEPT ![e] = [at |-> "over", hooks |-> {}]]
    /\ UNCHANGED <<tables, batches, patch, resend, history>>

-----------------------------------------------------------------------------
(* A batch: runDueDeliveries.                                               *)

\* now() reaches next_attempt_at: a lease or a backoff is over.
FallsDue(d) ==
    /\ delivery[d].status = "pending" /\ ~delivery[d].due
    /\ delivery' = [delivery EXCEPT ![d].due = TRUE]
    /\ UNCHANGED <<hook, batches, requests, history, faults>>

Due(w) == {d \in Delivery : /\ HookOf(d) = w /\ Active(w)
                            /\ delivery[d].status = "pending" /\ delivery[d].due}

\* claimDueDeliveries, a statement in two steps.  Its subquery ranks the due rows
\* of each registration on the statement's snapshot and keeps the first PerHook;
\* the order by next_attempt_at leaves any such choice possible ...
Ranked(S) ==
    /\ S \subseteq UNION {Due(w) : w \in Hook}
    /\ \A w \in Hook : Cardinality(S \cap Due(w)) = Lesser(PerHook, Cardinality(Due(w)))

Scan(b, S) ==
    /\ phase[b] = "idle"
    /\ S # {} /\ Ranked(S)
    /\ scanned' = [scanned EXCEPT ![b] = S]
    /\ phase' = [phase EXCEPT ![b] = "scanned"]
    /\ UNCHANGED <<tables, todo, open, sends, requests, history, faults>>

\* A row still as the snapshot had it.
StillDue(d) == delivery[d].status = "pending" /\ delivery[d].due

\* ... and the outer query locks them.  Under READ COMMITTED a row changed since
\* the snapshot is followed to its new version, and only the join on its id is
\* evaluated again: the conditions of the subquery are not.
Lockable(b) == {d \in scanned[b] : RowExists(d)}

\* SKIP LOCKED passes over a row another transaction is changing.
Claim(b, S) ==
    LET bumped(d) == Lesser(delivery[d].attempts + 1, MaxAttempts)
    IN  /\ phase[b] = "scanned"
        /\ S \subseteq Lockable(b) /\ Cardinality(S) <= ClaimBatch
        /\ Cardinality(S) = ClaimBatch \/ {d \in Lockable(b) : StillDue(d)} \subseteq S
        /\ delivery' = [d \in Delivery |->
                          IF d \in S THEN [delivery[d] EXCEPT !.attempts = bumped(d), !.due = FALSE]
                          ELSE delivery[d]]
        /\ todo' = [todo EXCEPT ![b] =
                      {[id |-> d, attempts |-> bumped(d), resent |-> delivery[d].resends > 0] :
                          d \in S}]
        /\ late' = late \cup {d \in S : Held(d) \/ ~StillDue(d)}
        /\ scanned' = [scanned EXCEPT ![b] = {}]
        /\ phase' = [phase EXCEPT ![b] = IF S = {} THEN "idle" ELSE "claimed"]
        /\ UNCHANGED <<hook, open, sends, requests, raced, unreset, blamed, faults>>

\* The registrations are read once more: groups of one disabled since the
\* claim are skipped.
Recheck(b) ==
    /\ phase[b] = "claimed"
    /\ todo' = [todo EXCEPT ![b] = {c \in @ : Active(HookOf(c.id))}]
    /\ phase' = [phase EXCEPT ![b] = "sending"]
    /\ UNCHANGED <<tables, scanned, open, sends, requests, history, faults>>

\* A runner takes the next group, or the next row of the group it has.
Send(b, c) ==
    LET w == HookOf(c.id)
    IN  /\ phase[b] = "sending"
        /\ c \in todo[b]
        /\ \A s \in sends[b] : HookOf(s.id) # w
        /\ w \in open[b] \/ Cardinality(open[b]) < MaxSends
        /\ todo' = [todo EXCEPT ![b] = @ \ {c}]
        /\ open' = [open EXCEPT ![b] = @ \cup {w}]
        /\ sends' = [sends EXCEPT ![b] = @ \cup
                       {[id |-> c.id, attempts |-> c.attempts, resent |-> c.resent, at |-> "wire"]}]
        /\ UNCHANGED <<tables, phase, scanned, requests, history, faults>>

\* The receiver answers 2xx, or refuses, or does not answer in time.
Answer(b, s, at) ==
    /\ s.at = "wire"
    /\ sends' = [sends EXCEPT ![b] = (@ \ {s}) \cup {[s EXCEPT !.at = at]}]
    /\ UNCHANGED <<tables, phase, scanned, todo, open, requests, history, faults>>

\* The runner is done with s; when told that the registration is disabled it
\* drops the rest of the group.
Settle(b, s, disabled) ==
    LET w == HookOf(s.id)
        rest == IF disabled THEN {c \in todo[b] : HookOf(c.id) # w} ELSE todo[b]
    IN  /\ sends' = [sends EXCEPT ![b] = @ \ {s}]
        /\ todo' = [todo EXCEPT ![b] = rest]
        /\ open' = [open EXCEPT ![b] = IF \E c \in rest : HookOf(c.id) = w THEN @ ELSE @ \ {w}]

\* recordSuccess: both updates match nothing once the registration is deleted.
RecordSuccess(b, s) ==
    LET w == HookOf(s.id)
    IN  /\ s.at = "accepted"
        /\ hook' = [hook EXCEPT ![w].fails = 0]
        /\ delivery' = IF RowExists(s.id)
                       THEN [delivery EXCEPT ![s.id].status = "delivered", ![s.id].due = FALSE]
                       ELSE delivery
        /\ blamed' = [blamed EXCEPT ![w] = {}]
        /\ unreset' = unreset \ {w}
        /\ Settle(b, s, FALSE)
        /\ UNCHANGED <<phase, scanned, requests, raced, late, faults>>

-----------------------------------------------------------------------------
(* recordFailure: one transaction that locks the registration first.        *)

\* Mutant: no attempt is the last.
ExhaustedNever(s) == FALSE

Exhausted(s) == s.attempts >= MaxAttempts

\* Mutant: a status nothing else knows.
FailedRowUnknown(s) == IF RowExists(s.id)
                       THEN [delivery EXCEPT ![s.id].status = "dead", ![s.id].due = FALSE]
                       ELSE delivery

FailedRow(s) == IF RowExists(s.id)
                THEN [delivery EXCEPT ![s.id].status = "failed", ![s.id].due = FALSE]
                ELSE delivery

\* Mutant: the retry does not look at the registration again.
RetryUnchecked(b, s) ==
    /\ s.at = "refused" /\ ~Exhausted(s)
    /\ delivery' = IF RowExists(s.id)
                   THEN [delivery EXCEPT ![s.id].status = "pending", ![s.id].due = FALSE]
                   ELSE delivery
    /\ Settle(b, s, FALSE)
    /\ UNCHANGED <<hook, phase, scanned, requests, history, faults>>

Retry(b, s) ==
    /\ s.at = "refused" /\ ~Exhausted(s) /\ Active(HookOf(s.id))
    /\ delivery' = IF RowExists(s.id)
                   THEN [delivery EXCEPT ![s.id].status = "pending", ![s.id].due = FALSE]
                   ELSE delivery
    /\ Settle(b, s, FALSE)
    /\ UNCHANGED <<hook, phase, scanned, requests, history, faults>>

\* The registration is disabled or gone: the row goes terminal, the group too.
FailInactive(b, s) ==
    /\ s.at = "refused" /\ ~Active(HookOf(s.id))
    /\ delivery' = FailedRow(s)
    /\ Settle(b, s, TRUE)
    /\ UNCHANGED <<hook, phase, scanned, requests, history, faults>>

\* Mutant: a re-sent delivery counts like any other.
CountsEvery(s) == TRUE

Counts(s) == ~s.resent

FailUncounted(b, s) ==
    /\ s.at = "refused" /\ Exhausted(s) /\ Active(HookOf(s.id)) /\ ~Counts(s)
    /\ delivery' = FailedRow(s)
    /\ Settle(b, s, FALSE)
    /\ UNCHANGED <<hook, phase, scanned, requests, history, faults>>

\* The last attempt of a delivery counts against the registration, and the
\* MaxConsecutive-th disables it and terminates what it has queued.
FailCounted(b, s) ==
    LET w == HookOf(s.id)
        fails == Lesser(hook[w].fails + 1, MaxConsecutive)
        disables == fails >= MaxConsecutive
    IN  /\ s.at = "refused" /\ Exhausted(s) /\ Active(w) /\ Counts(s)
        /\ hook' = [hook EXCEPT ![w] = [state |-> IF disables THEN "off" ELSE "on",
                                        fails |-> fails]]
        /\ delivery' = [d \in Delivery |-> IF d # s.id /\ disables THEN Terminated(w)[d]
                                           ELSE FailedRow(s)[d]]
        /\ blamed' = [blamed EXCEPT ![w] = @ \cup {s.id}]
        /\ Settle(b, s, disables)
        /\ UNCHANGED <<phase, scanned, requests, raced, late, unreset, faults>>

RecordFailure(b, s) ==
    Retry(b, s) \/ FailInactive(b, s) \/ FailUncounted(b, s) \/ FailCounted(b, s)

\* The settling transaction throws: logged, and the runner goes on.
RecordThrows(b, s) ==
    /\ s.at \in {"accepted", "refused"}
    /\ faults < MaxFaults
    /\ faults' = faults + 1
    /\ Settle(b, s, FALSE)
    /\ UNCHANGED <<tables, phase, scanned, requests, history>>

FinishBatch(b) ==
    /\ phase[b] = "sending"
    /\ todo[b] = {} /\ sends[b] = {}
    /\ phase' = [phase EXCEPT ![b] = "idle"]
    /\ UNCHANGED <<tables, scanned, todo, open, sends, requests, history, faults>>

\* The pod dies, or the claim or the statement after it throws.
BatchDies(b) ==
    /\ phase[b] # "idle"
    /\ faults < MaxFaults
    /\ faults' = faults + 1
    /\ phase' = [phase EXCEPT ![b] = "idle"]
    /\ scanned' = [scanned EXCEPT ![b] = {}]
    /\ todo' = [todo EXCEPT ![b] = {}]
    /\ open' = [open EXCEPT ![b] = {}]
    /\ sends' = [sends EXCEPT ![b] = {}]
    /\ UNCHANGED <<tables, requests, history>>

\* pruneDeliveries reaches a terminal row that is seven days old; a request or
\* a batch that still names it is long over by then.
Prune(d) ==
    /\ delivery[d].status \in {"delivered", "failed"}
    /\ ~Held(d) /\ resend[d] = "none" /\ \A b \in Batch : d \notin scanned[b]
    /\ delivery' = [delivery EXCEPT ![d] = NoRow]
    /\ raced' = raced \ {d}
    /\ UNCHANGED <<hook, batches, requests, late, unreset, blamed, faults>>

-----------------------------------------------------------------------------
(* Editors: routes/webhooks.ts.                                             *)

\* The project row is locked, so the cap is counted and the row inserted at once.
Register(w) ==
    /\ hook[w].state = "new"
    /\ Cardinality({v \in Hook : HookExists(v)}) < MaxHooks
    /\ hook' = [hook EXCEPT ![w].state = "on"]
    /\ UNCHANGED <<delivery, batches, requests, history, faults>>

\* A PATCH that sets disabled_at, or one that leaves a disabled registration
\* disabled: the update and the termination commit together.
PatchDisabled(w) ==
    /\ HookExists(w)
    /\ hook' = [hook EXCEPT ![w].state = "off"]
    /\ delivery' = Terminated(w)
    /\ UNCHANGED <<batches, requests, history, faults>>

RequestsInFlight == Cardinality({w \in Hook : patch[w] # "none"})
                    + Cardinality({d \in Delivery : resend[d] # "none"})

\* A PATCH that clears disabled_at decides what else to write on an unlocked
\* read of the registration ...
PatchRead(w) ==
    /\ HookExists(w) /\ patch[w] = "none"
    /\ RequestsInFlight < MaxRequests
    /\ patch' = [patch EXCEPT ![w] = hook[w].state]
    /\ UNCHANGED <<tables, batches, picked, resend, history, faults>>

\* Mutant: the counter is left for the next success to clear.
ClearsCounterNever(w) == FALSE

\* ... the counter only when that read saw it disabled ...
ClearsCounter(w) == patch[w] = "off"

\* ... and writes it with the update, if the row is still there.
PatchEnabled(w) ==
    /\ patch[w] # "none"
    /\ patch' = [patch EXCEPT ![w] = "none"]
    /\ IF ~HookExists(w) THEN UNCHANGED <<hook, unreset, blamed>>
       ELSE IF ClearsCounter(w)
       THEN /\ hook' = [hook EXCEPT ![w] = [state |-> "on", fails |-> 0]]
            /\ blamed' = [blamed EXCEPT ![w] = {}]
            /\ unreset' = unreset \ {w}
       ELSE /\ hook' = [hook EXCEPT ![w].state = "on"]
            /\ unreset' = IF ~Active(w) /\ patch[w] = "on" THEN unreset \cup {w} ELSE unreset
            /\ UNCHANGED blamed
    /\ UNCHANGED <<delivery, batches, picked, resend, raced, late, faults>>

\* DELETE; the delivery log goes by cascade.
DeleteHook(w) ==
    /\ HookExists(w)
    /\ hook' = [hook EXCEPT ![w] = [state |-> "gone", fails |-> 0]]
    /\ delivery' = [d \in Delivery |-> IF HookOf(d) = w THEN NoRow ELSE delivery[d]]
    /\ blamed' = [blamed EXCEPT ![w] = {}]
    /\ unreset' = unreset \ {w}
    /\ UNCHANGED <<batches, requests, raced, late, faults>>

\* Redeliver reads the registration, then the row, and then updates the row by
\* id alone.
ResendReadsHook(d) ==
    /\ resend[d] = "none" /\ delivery[d].resends < MaxResends
    /\ Active(HookOf(d))
    /\ RequestsInFlight < MaxRequests
    /\ resend' = [resend EXCEPT ![d] = "hook"]
    /\ UNCHANGED <<tables, batches, picked, patch, history, faults>>

ResendReadsRow(d) ==
    /\ resend[d] = "hook"
    /\ resend' = [resend EXCEPT ![d] = IF delivery[d].status = "failed" THEN "row" ELSE "none"]
    /\ UNCHANGED <<tables, batches, picked, patch, history, faults>>

ResendWrites(d) ==
    /\ resend[d] = "row"
    /\ resend' = [resend EXCEPT ![d] = "none"]
    /\ IF RowExists(d)
       THEN /\ delivery' = [delivery EXCEPT ![d] =
                              [status |-> "pending", due |-> TRUE, attempts |-> 0,
                               resends |-> @.resends + 1]]
            /\ raced' = IF Active(HookOf(d)) THEN raced ELSE raced \cup {d}
            /\ late' = IF Held(d) \/ delivery[d].status # "failed" THEN late \cup {d} ELSE late
       ELSE UNCHANGED <<delivery, raced, late>>
    /\ UNCHANGED <<hook, batches, picked, patch, unreset, blamed, faults>>

-----------------------------------------------------------------------------
EventStep(e) == SelectHooks(e) \/ InsertRows(e) \/ FanOutLost(e)

BatchStep(b) ==
    \/ \E S \in SUBSET Delivery : Scan(b, S) \/ Claim(b, S)
    \/ Recheck(b)
    \/ \E c \in todo[b] : Send(b, c)
    \/ \E s \in sends[b] :
          \/ \E at \in {"accepted", "refused"} : Answer(b, s, at)
          \/ RecordSuccess(b, s)
          \/ RecordFailure(b, s)
          \/ RecordThrows(b, s)
    \/ FinishBatch(b)
    \/ BatchDies(b)

EditorStep(w) ==
    Register(w) \/ PatchDisabled(w) \/ PatchRead(w) \/ PatchEnabled(w) \/ DeleteHook(w)

ResendStep(d) == ResendReadsHook(d) \/ ResendReadsRow(d) \/ ResendWrites(d)

Next ==
    \/ \E e \in Event : EventStep(e)
    \/ \E b \in Batch : BatchStep(b)
    \/ \E w \in Hook : EditorStep(w)
    \/ \E d \in Delivery : FallsDue(d) \/ Prune(d) \/ ResendStep(d)

Spec == Init /\ [][Next]_vars

\* Fairness.  Time passes, the interval keeps starting batches, a send ends (by
\* its timeout if need be) and Node runs the continuations of what answers.
\* Editors, events, failures and what a receiver answers are left free.
BatchProgress(b) ==
    \/ \E S \in SUBSET Delivery : Claim(b, S)
    \/ Recheck(b)
    \/ \E c \in todo[b] : Send(b, c)
    \/ \E s \in sends[b] :
          \/ \E at \in {"accepted", "refused"} : Answer(b, s, at)
          \/ RecordSuccess(b, s) \/ RecordFailure(b, s)
    \/ FinishBatch(b)

Fairness ==
    /\ \A d \in Delivery : WF_vars(FallsDue(d))
    /\ WF_vars(\E b \in Batch, S \in SUBSET Delivery : Scan(b, S))
    /\ \A b \in Batch : WF_vars(BatchProgress(b))

FairSpec == Spec /\ Fairness

-----------------------------------------------------------------------------
\* Types of the state: the two tables, and what requests and batches have read.
TypeOK ==
    /\ hook \in [Hook -> [state : HookState, fails : 0..MaxConsecutive]]
    /\ delivery \in [Delivery -> Row]
    /\ picked \in [Event -> [at : {"new", "read", "over"}, hooks : SUBSET Hook]]
    /\ phase \in [Batch -> {"idle", "scanned", "claimed", "sending"}]
    /\ scanned \in [Batch -> SUBSET Delivery]
    /\ todo \in [Batch -> SUBSET Claimed]
    /\ open \in [Batch -> SUBSET Hook]
    /\ sends \in [Batch -> SUBSET Sent]
    /\ patch \in [Hook -> {"none", "on", "off"}]
    /\ resend \in [Delivery -> {"none", "hook", "row"}]
    /\ raced \subseteq Delivery /\ late \subseteq Delivery /\ unreset \subseteq Hook
    /\ blamed \in [Hook -> SUBSET Delivery]
    /\ faults \in 0..MaxFaults

\* queue.ts:157-158, 228-230: a pending row of a disabled registration is out of
\* reach of the claim and of the prune.  No settlement leaves one behind, whatever
\* is disabled while it is on its way; only a request that read the registration
\* before it was disabled can.
StrandedOnlyByRace ==
    \A d \in Delivery : delivery[d].status = "pending" /\ ~Active(HookOf(d)) => d \in raced

\* README "five consecutive deliveries exhaust their attempts": an active
\* registration is below the limit, so its next failure is not its last, unless
\* it was re-enabled by a PATCH that had read it before it was disabled.
ActiveBelowLimit ==
    \A w \in Hook : Active(w) /\ w \notin unreset => hook[w].fails < MaxConsecutive

\* README "Manually re-sent deliveries never count toward that threshold":
\* consecutive_failures never exceeds the number of distinct deliveries that
\* exhausted their attempts since it was last cleared, except where two batches
\* had one of them at once.
FailuresAreDistinct ==
    \A w \in Hook : blamed[w] \cap late = {} => hook[w].fails <= Cardinality(blamed[w])

\* queue.ts:228-242, routes/webhooks.ts:440-460: a delivered row stays delivered
\* until it is pruned or deleted, unless two writers had it at once.
DeliveredStays ==
    [][\A d \in Delivery : delivery[d].status = "delivered" =>
          delivery'[d].status \in {"delivered", "none"} \/ d \in late']_vars

\* queue.ts:85-86, "FOR UPDATE SKIP LOCKED plus the lease is what makes two replicas
\* safe": no batch claims a row that another batch has and whose lease still runs.
\* It does not hold: README.md, "Where the code and its comments differ".
LeaseExcludes ==
    [][\A b \in Batch : phase[b] = "scanned" =>
          \A c \in todo'[b] : Held(c.id) => delivery[c.id].status # "pending" \/ delivery[c.id].due]_vars

\* README "Retries": a queued delivery of a registration that stays active is
\* delivered or given up after its attempts, whatever dies in between.
DeliverySettles ==
    \A d \in Delivery :
        delivery[d].status = "pending" ~> (delivery[d].status # "pending" \/ ~Active(HookOf(d)))

\* queue.ts:228-230: "a pending row left behind is stranded forever": no pending
\* row belongs to a disabled registration.  It does not hold: README.md, "Where the
\* code and its comments differ".
NoneStranded ==
    \A d \in Delivery : delivery[d].status = "pending" => Active(HookOf(d))

=============================================================================
