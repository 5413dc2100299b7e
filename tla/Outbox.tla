------------------------------- MODULE Outbox -------------------------------
(***************************************************************************)
(* The web client's outbox (web/src/lib/outbox.svelte.ts): board mutations *)
(* made while the server is out of reach, queued in memory and in          *)
(* IndexedDB, replayed one at a time, through reloads and sign-outs.       *)
(*                                                                         *)
(* One tab is one thread: an action is the code between two awaits.  What  *)
(* may be waiting at once is a drain that is still current, drains a       *)
(* sign-out has abandoned, reads of the stored queue and mutations that    *)
(* were sent without queueing.  A generation number tells them apart.      *)
(*                                                                         *)
(* The server is external: it applies a request for the account whose      *)
(* token the request carries, or refuses it in one of the ways the code    *)
(* tells apart, and its answer may be lost.  When the network is believed  *)
(* down or back is left open, and so is when anything calls drain().       *)
(* What a request holds is left out: the preconditions of content edits,   *)
(* and the placement a move is recomputed to.                              *)
(***************************************************************************)
EXTENDS Integers, FiniteSets, SequencesExt

CONSTANTS
    Op,           \* mutations the user may make
    Entity,       \* the board entity of each
    Moves,        \* those with semantics 'move', ...
    Edits,        \* ... 'contentEdit' ...
    Creates,      \* ... and 'create'; the others are 'plain'
    Account,      \* users who may sign in to this tab
    Nobody,       \* no one is signed in
    Run,          \* executions of #run that may be live at once
    NoRun,        \* no run is memoized
    NoOp,         \* no operation is claimed
    MaxQueued,    \* MAX_QUEUED_OPS
    MaxAttempts,  \* MAX_SERVER_ERROR_ATTEMPTS
    MaxSessions,  \* bound: sign-outs in a behaviour
    MaxReloads    \* bound: reloads of the page in a behaviour

ASSUME OutboxConstants ==
    /\ Moves \cap Edits = {} /\ Moves \cap Creates = {} /\ Edits \cap Creates = {}
    /\ Moves \cup Edits \cup Creates \subseteq Op
    /\ Nobody \notin Account /\ NoRun \notin Run
    /\ MaxQueued \in Nat \ {0} /\ MaxAttempts \in Nat \ {0}
    /\ {MaxSessions, MaxReloads} \subseteq Nat

VARIABLES
    account,    \* session.user
    owner,      \* the userId each operation was built with
    ops,        \* #ops
    inflight,   \* #inflight
    stored,     \* the outbox store of IndexedDB
    seq,        \* #seq
    gen,        \* #generation
    memo,       \* #drain
    draining,   \* draining
    wake,       \* whether #wakeTimer is set
    run,        \* the executions of #run
    reads,      \* executions of hydrate waiting for the stored queue
    direct,     \* executions of submit waiting for a request sent at once
    applied,    \* the server: operations it has applied, and for whom
    taken,      \* history: operations #enqueue has taken
    settled,    \* operations answered, reported or dropped at a sign-out
    mixed,      \* history: the queue of an account was touched by an execution
                \* that an earlier account had left waiting
    overtaken,  \* history: operations in memory when a stored queue replaced it
    reloads     \* reloads so far

queue == <<ops, inflight>>
control == <<memo, draining, wake, run>>
vars == <<account, owner, queue, stored, seq, gen, control, reads, direct,
          applied, taken, settled, mixed, overtaken, reloads>>

-----------------------------------------------------------------------------
(* Queued operations.  An entry carries every mutation merged into it.      *)

Entry == [id : Op, seq : Nat, attempts : 0..MaxAttempts, carries : SUBSET Op]
IsOp(e) == e # NoOp

ASSUME NoOpAssumption == NoOp \notin Entry

Unsent == IF IsOp(inflight) THEN <<inflight>> \o ops ELSE ops
Carried(es) == UNION {e.carries : e \in es}
Stored(a) == {e \in stored : owner[e.id] = a}

IdleRun == [at |-> "idle", gen |-> 0, op |-> NoOp, as |-> Nobody]
Waiting(r) == run[r].at # "idle"
Current(r) == Waiting(r) /\ run[r].gen = gen

\* q without the entries that have one of these ids.
Filtered(q, ids) ==
    LET kept   == {i \in DOMAIN q : q[i].id \notin ids}
        nth(k) == CHOOSE i \in kept : Cardinality({j \in kept : j <= i}) = k
    IN [k \in 1..Cardinality(kept) |-> q[nth(k)]]

Without(ids) == Filtered(ops, ids)
StoredWithout(ids) == {e \in stored : e.id \notin ids}

Init ==
    /\ account = Nobody
    /\ owner = [o \in Op |-> Nobody]
    /\ ops = <<>> /\ inflight = NoOp
    /\ stored = {}
    /\ seq = 0 /\ gen = 0
    /\ memo = NoRun /\ draining = FALSE /\ wake = FALSE
    /\ run = [r \in Run |-> IdleRun]
    /\ reads = {} /\ direct = {}
    /\ applied = {} /\ taken = {} /\ settled = {}
    /\ mixed = FALSE /\ overtaken = {}
    /\ reloads = 0

-----------------------------------------------------------------------------
(* #claim, #release and the ways a run goes on.                             *)

\* The head of q goes on the wire, a move once the board has been read.
Claim(r, q) ==
    LET op == Head(q)
    IN  /\ ops' = Tail(q)
        /\ inflight' = op
        /\ run' = [run EXCEPT ![r] = [at  |-> IF op.id \in Moves THEN "board" ELSE "wire",
                                      gen |-> gen, op |-> op, as |-> account]]

\* Mutant: a run does not look whether one is already draining the queue.
DrainAnyway(q, w) ==
    IF q = <<>>
    THEN ops' = q /\ wake' = w /\ UNCHANGED <<inflight, memo, draining, run>>
    ELSE \E r \in Run :
            /\ ~Waiting(r)
            /\ Claim(r, q)
            /\ memo' = r /\ draining' = TRUE /\ wake' = FALSE

\* drain(), called when the queue is q and the wake timer is w.
Drain(q, w) ==
    IF memo # NoRun \/ q = <<>>
    THEN ops' = q /\ wake' = w /\ UNCHANGED <<inflight, memo, draining, run>>
    ELSE \E r \in Run :
            /\ ~Waiting(r)
            /\ Claim(r, q)
            /\ memo' = r /\ draining' = TRUE /\ wake' = FALSE

\* #run returns and its finally clause clears #drain, whosever it is by now.
End(r) == run' = [run EXCEPT ![r] = IdleRun] /\ memo' = NoRun

\* The loop of #run comes round with queue q and claim f.
Loop(r, q, f) ==
    IF q # <<>> THEN Claim(r, q) /\ UNCHANGED <<memo, draining, wake>>
    ELSE /\ End(r)
         /\ ops' = q /\ inflight' = f /\ draining' = FALSE
         /\ UNCHANGED wake

Claims(r) == IsOp(inflight) /\ inflight.id = run[r].op.id
Released(r) == IF Claims(r) THEN <<inflight>> \o ops ELSE ops
Unclaimed(r) == IF Claims(r) THEN NoOp ELSE inflight

\* Mutant: the operation is dropped with its claim.
BreakDrops(r) ==
    /\ End(r)
    /\ inflight' = Unclaimed(r)
    /\ draining' = FALSE
    /\ wake' = (wake \/ ops # <<>>)
    /\ UNCHANGED ops

\* The loop breaks: the operation goes back to the head, to be sent later.
Break(r) ==
    /\ End(r)
    /\ ops' = Released(r) /\ inflight' = Unclaimed(r)
    /\ draining' = FALSE
    /\ wake' = (wake \/ Released(r) # <<>>)

\* Mutant: a run unwinding late releases whatever is on the wire.
AbandonAny(r) ==
    /\ End(r)
    /\ ops' = IF IsOp(inflight) THEN <<inflight>> \o ops ELSE ops
    /\ inflight' = NoOp
    /\ mixed' = (mixed \/ memo # NoRun)
    /\ UNCHANGED <<draining, wake>>

\* The generation has moved on: return, through the same finally clauses.
Abandon(r) ==
    /\ End(r)
    /\ ops' = Released(r) /\ inflight' = Unclaimed(r)
    /\ mixed' = (mixed \/ memo # NoRun)
    /\ UNCHANGED <<draining, wake>>

\* Mutant: the answered operation keeps its claim, and release puts it back.
ForgetQueuedOnly(r, ids) ==
    /\ stored' = StoredWithout(ids)
    /\ Loop(r, Released(r), Unclaimed(r))

\* #forget, and on to the next operation.
Forget(r, ids) ==
    /\ stored' = StoredWithout(ids)
    /\ Loop(r, Without(ids), IF IsOp(inflight) /\ inflight.id \in ids THEN NoOp ELSE inflight)

-----------------------------------------------------------------------------
(* submit.                                                                  *)

\* #coalesce: an edit joins the queued edit of the same entity.
Merges(e) == {i \in DOMAIN ops : /\ e.id \in Edits /\ ops[i].id \in Edits
                                 /\ Entity[ops[i].id] = Entity[e.id]}

\* #enforceBounds on queue q: the oldest go when there are more than MaxQueued,
\* and the first n, for being a week old.
Doomed(q, n) == {q[i].id : i \in {k \in DOMAIN q : k <= n \/ k <= Len(q) - MaxQueued}}
Expired(q, doomed) == Carried({q[i] : i \in {k \in DOMAIN q : q[k].id \in doomed}})

\* Mutant: only the queue in memory takes the merged edit.
JoinInMemory(e) ==
    LET i == CHOOSE k \in Merges(e) : \A m \in Merges(e) : k <= m
        merged == [ops[i] EXCEPT !.carries = @ \cup e.carries]
    IN  /\ ops' = [ops EXCEPT ![i] = merged]
        /\ UNCHANGED <<stored, wake, settled>>

Join(e) ==
    LET i == CHOOSE k \in Merges(e) : \A m \in Merges(e) : k <= m
        merged == [ops[i] EXCEPT !.carries = @ \cup e.carries]
    IN  /\ ops' = [ops EXCEPT ![i] = merged]
        /\ stored' = StoredWithout({merged.id}) \cup {merged}
        /\ UNCHANGED <<wake, settled>>

AppendOp(e) ==
    \E n \in 0..Len(ops) :
        LET doomed == Doomed(Append(ops, e), n)
        IN  /\ ops' = Filtered(Append(ops, e), doomed)
            /\ stored' = {s \in stored \cup {e} : s.id \notin doomed}
            /\ settled' = settled \cup Expired(Append(ops, e), doomed)
            /\ wake' = (wake \/ ops' # <<>>)

\* #enqueue, whoever is signed in by now.
Enqueue(e) ==
    /\ IF Merges(e) # {} THEN Join(e) ELSE AppendOp(e)
    /\ taken' = taken \cup {e.id}
    /\ UNCHANGED <<inflight, memo, draining, run>>

Built(o) == [id |-> o, seq |-> seq + 1, attempts |-> 0, carries |-> {o}]

New(o) ==
    /\ account # Nobody /\ owner[o] = Nobody
    /\ owner' = [owner EXCEPT ![o] = account]
    /\ seq' = seq + 1
    /\ UNCHANGED <<account, gen, reads, applied, mixed, overtaken, reloads>>

SubmitQueued(o) ==
    /\ New(o)
    /\ Enqueue(Built(o))
    /\ UNCHANGED direct

\* Only with nothing waiting and no drain is a mutation sent at once.
SubmitDirect(o) ==
    /\ New(o)
    /\ Unsent = <<>> /\ ~draining
    /\ direct' = direct \cup {[op |-> Built(o), as |-> account, gen |-> gen]}
    /\ UNCHANGED <<queue, stored, control, taken, settled>>

\* The server has applied it, and the answer has arrived or was lost.
DirectAnswered(d) ==
    /\ direct' = direct \ {d}
    /\ applied' = applied \cup {<<d.op.id, d.as>>}
    /\ settled' = settled \cup {d.op.id}
    /\ UNCHANGED <<account, owner, queue, stored, seq, gen, control, reads, taken, mixed,
                   overtaken, reloads>>

DirectRefused(d) ==
    /\ direct' = direct \ {d}
    /\ settled' = settled \cup {d.op.id}
    /\ UNCHANGED <<account, owner, queue, stored, seq, gen, control, reads, applied, taken,
                   mixed, overtaken, reloads>>

DirectUnreachable(d, reached) ==
    /\ direct' = direct \ {d}
    /\ applied' = IF reached THEN applied \cup {<<d.op.id, d.as>>} ELSE applied
    /\ Enqueue(d.op)
    /\ mixed' = (mixed \/ d.gen # gen)
    /\ UNCHANGED <<account, owner, seq, gen, reads, overtaken, reloads>>

-----------------------------------------------------------------------------
(* #run, at each of its awaits.                                             *)

RunUnchanged == UNCHANGED <<account, owner, seq, gen, reads, direct, taken, overtaken, reloads>>

\* The board has been read, or the read failed.
BoardRead(r, found) ==
    /\ run[r].at = "board"
    /\ IF ~Current(r) THEN Abandon(r)
       ELSE /\ run' = [run EXCEPT ![r].at = IF found THEN "rekey" ELSE "wire", ![r].as = account]
            /\ UNCHANGED <<queue, memo, draining, wake, mixed>>
    /\ RunUnchanged
    /\ UNCHANGED <<stored, applied, settled>>

\* The move has its new key; no generation check follows this await.
Rekeyed(r) ==
    /\ run[r].at = "rekey"
    /\ run' = [run EXCEPT ![r].at = "wire", ![r].as = account]
    /\ RunUnchanged
    /\ UNCHANGED <<queue, memo, draining, wake, stored, applied, settled, mixed>>

\* The request of r comes back.  Whether it reached the server is another
\* matter; without a token it is refused.
Answered(r, reached) ==
    /\ run[r].at = "wire"
    /\ reached => run[r].as # Nobody
    /\ applied' = IF reached THEN applied \cup {<<o, run[r].as>> : o \in run[r].op.carries}
                  ELSE applied
    /\ RunUnchanged

Stale(r, reached) ==
    /\ Answered(r, reached)
    /\ ~Current(r) /\ Abandon(r)
    /\ UNCHANGED <<stored, settled>>

Unreachable(r, reached) ==
    /\ Answered(r, reached)
    /\ Current(r) /\ Break(r)
    /\ UNCHANGED <<stored, settled, mixed>>

\* A 401 to a request that carried no token: halt.
Halted(r) ==
    /\ Answered(r, FALSE)
    /\ Current(r) /\ run[r].as = Nobody /\ Break(r)
    /\ UNCHANGED <<stored, settled, mixed>>

\* Accepted, or a create that had landed before.
Accepted(r) ==
    /\ Answered(r, TRUE)
    /\ Current(r) /\ Forget(r, {run[r].op.id})
    /\ settled' = settled \cup run[r].op.carries
    /\ UNCHANGED mixed

Landed(r) ==
    /\ Answered(r, FALSE)
    /\ run[r].op.id \in Creates /\ \E a \in Account : <<run[r].op.id, a>> \in applied
    /\ Current(r) /\ Forget(r, {run[r].op.id})
    /\ settled' = settled \cup run[r].op.carries
    /\ UNCHANGED mixed

\* Refused for good, with a report: a conflict, a request the server will never
\* take, or a server error for the last time.
Rejected(r) ==
    /\ Answered(r, FALSE)
    /\ run[r].as # Nobody
    /\ Current(r) /\ Forget(r, {run[r].op.id})
    /\ settled' = settled \cup run[r].op.carries
    /\ UNCHANGED mixed

\* 403 or 404: everything unsent about the entity is doomed with it.
Gone(r) ==
    LET doomed == {e \in ToSet(Unsent) : Entity[e.id] = Entity[run[r].op.id]}
    IN  /\ Answered(r, FALSE)
        /\ run[r].as # Nobody
        /\ Current(r) /\ Forget(r, {e.id : e \in doomed})
        /\ settled' = settled \cup Carried(doomed)
        /\ UNCHANGED mixed

\* #bumpAttempts, wherever the operation is by now, and its durable copy.
Bumped(e) == [e EXCEPT !.attempts = @ + 1]
Bump(r) ==
    LET op == run[r].op
    IN  /\ inflight' = IF Claims(r) THEN Bumped(op) ELSE inflight
        /\ ops' = IF Claims(r) THEN ops
                  ELSE [i \in DOMAIN ops |-> IF ops[i].id = op.id THEN Bumped(op) ELSE ops[i]]
        /\ stored' = StoredWithout({op.id}) \cup {Bumped(op)}

\* Mutant: a server error is retried for ever.
MayRetryAlways(r, at) ==
    \/ at = "sleep"
    \/ at = "refresh" /\ run[r].op.id \in Moves /\ run[r].op.attempts = 0

\* A server error with attempts left: sleep.  A move whose slot is taken, for the
\* first time: read the board again.
MayRetry(r, at) ==
    \/ at = "sleep" /\ run[r].op.attempts + 1 < MaxAttempts
    \/ at = "refresh" /\ run[r].op.id \in Moves /\ run[r].op.attempts = 0

Retried(r, at) ==
    /\ Answered(r, FALSE)
    /\ run[r].as # Nobody
    /\ Current(r) /\ MayRetry(r, at)
    /\ Bump(r)
    /\ run' = [run EXCEPT ![r].at = at]
    /\ UNCHANGED <<memo, draining, wake, settled, mixed>>

\* The sleep or the read is over: release, and round again.
Resumed(r) ==
    /\ run[r].at \in {"sleep", "refresh"}
    /\ IF Current(r) THEN Loop(r, Released(r), Unclaimed(r)) /\ UNCHANGED mixed ELSE Abandon(r)
    /\ RunUnchanged
    /\ UNCHANGED <<stored, applied, settled>>

\* The network is back or the socket has reconnected.
DrainCalled ==
    /\ memo = NoRun /\ ops # <<>>
    /\ Drain(ops, wake)
    /\ RunUnchanged
    /\ UNCHANGED <<stored, applied, settled, mixed>>

WakeFires ==
    /\ wake
    /\ Drain(ops, FALSE)
    /\ RunUnchanged
    /\ UNCHANGED <<stored, applied, settled, mixed>>

-----------------------------------------------------------------------------
(* hydrate, sign-in, sign-out and reload.                                   *)

ReadStored(a, g) == [gen |-> g, rows |-> Stored(a)]

\* Stored rows in the order of #seq; IndexedDB decides between equals.
InOrder(rows) ==
    {q \in [1..Cardinality(rows) -> rows] :
        \A i, j \in DOMAIN q : i < j => q[i] # q[j] /\ q[i].seq <= q[j].seq}

\* The session is established, and the shell hydrates the outbox.
SignIn(a) ==
    /\ account = Nobody
    /\ account' = a
    /\ reads' = reads \cup {ReadStored(a, gen)}
    /\ UNCHANGED <<owner, queue, stored, seq, gen, control, direct, applied, taken, settled,
                   mixed, overtaken, reloads>>

\* The stored queue replaces the one in memory and is drained, unless there is
\* none or the account has left.
Hydrate(h) ==
    LET rows == {e \in h.rows : ~IsOp(inflight) \/ e.id # inflight.id}
    IN  /\ reads' = reads \ {h}
        /\ IF h.gen # gen \/ h.rows = {}
           THEN UNCHANGED <<queue, stored, seq, control, settled, overtaken>>
           ELSE \E q \in InOrder(rows) : \E n \in 0..Len(q) :
                  LET doomed == Doomed(q, n)
                  IN  /\ seq' = Max({seq} \cup {e.seq : e \in h.rows})
                      /\ stored' = StoredWithout(doomed)
                      /\ settled' = settled \cup Expired(q, doomed)
                      /\ overtaken' = overtaken \cup Carried(ToSet(ops))
                      /\ Drain(Filtered(q, doomed), wake)
        /\ UNCHANGED <<account, owner, gen, direct, applied, taken, mixed, reloads>>

\* Mutant: the memoized run outlives the queue it was draining.
ResetKeepsMemo ==
    /\ ops' = <<>> /\ inflight' = NoOp
    /\ seq' = 0
    /\ draining' = FALSE /\ wake' = FALSE
    /\ gen' = gen + 1
    /\ UNCHANGED <<run, memo>>

\* reset()
Reset ==
    /\ ops' = <<>> /\ inflight' = NoOp
    /\ seq' = 0
    /\ draining' = FALSE /\ wake' = FALSE
    /\ gen' = gen + 1
    /\ memo' = NoRun
    /\ UNCHANGED run

\* The user signs out, or a 401 to any request of this tab ends the session,
\* whichever account the request was for: the account's stored queue is cleared,
\* and the outbox is reset.
SignOut ==
    /\ account # Nobody
    /\ gen < MaxSessions
    /\ account' = Nobody
    /\ Reset
    /\ stored' = stored \ Stored(account)
    /\ settled' = settled \cup Carried(Stored(account))
    /\ UNCHANGED <<owner, reads, direct, applied, taken, mixed, overtaken, reloads>>

\* The mutations on their way to the server, with the account they travel as.
OnTheWire ==
    {<<d.op.id, d.as>> : d \in direct}
        \cup UNION {{<<o, run[r].as>> : o \in run[r].op.carries} :
                     r \in {s \in Run : run[s].at = "wire" /\ run[s].as # Nobody}}

\* The page goes, and everything in memory with it; what was on the wire may
\* have reached the server.
Reload ==
    /\ reloads < MaxReloads
    /\ reloads' = reloads + 1
    /\ \E arrived \in SUBSET OnTheWire : applied' = applied \cup arrived
    /\ ops' = <<>> /\ inflight' = NoOp
    /\ seq' = 0
    /\ memo' = NoRun /\ draining' = FALSE /\ wake' = FALSE
    /\ run' = [r \in Run |-> IdleRun]
    /\ reads' = IF account = Nobody THEN {} ELSE {ReadStored(account, gen)}
    /\ direct' = {}
    /\ UNCHANGED <<account, owner, stored, gen, taken, settled, mixed, overtaken>>

RunStep(r) ==
    \/ \E found \in BOOLEAN : BoardRead(r, found)
    \/ Rekeyed(r)
    \/ \E reached \in BOOLEAN : Stale(r, reached) \/ Unreachable(r, reached)
    \/ Halted(r) \/ Accepted(r) \/ Landed(r) \/ Rejected(r) \/ Gone(r)
    \/ \E at \in {"sleep", "refresh"} : Retried(r, at)
    \/ Resumed(r)

DirectStep(d) ==
    DirectAnswered(d) \/ DirectRefused(d) \/ \E reached \in BOOLEAN : DirectUnreachable(d, reached)

Next ==
    \/ \E o \in Op : SubmitQueued(o) \/ SubmitDirect(o)
    \/ \E d \in direct : DirectStep(d)
    \/ \E r \in Run : RunStep(r)
    \/ DrainCalled \/ WakeFires
    \/ \E a \in Account : SignIn(a)
    \/ \E h \in reads : Hydrate(h)
    \/ SignOut
    \/ Reload

Spec == Init /\ [][Next]_vars

-----------------------------------------------------------------------------
\* Types of the state: the queue, its durable copy and what waits on an answer.
TypeOK ==
    /\ account \in Account \cup {Nobody}
    /\ owner \in [Op -> Account \cup {Nobody}]
    /\ ToSet(ops) \subseteq Entry /\ stored \subseteq Entry
    /\ inflight \in Entry \cup {NoOp}
    /\ seq \in Nat /\ gen \in 0..MaxSessions /\ reloads \in 0..MaxReloads
    /\ memo \in Run \cup {NoRun}
    /\ draining \in BOOLEAN /\ wake \in BOOLEAN /\ mixed \in BOOLEAN
    /\ \A r \in Run :
          /\ run[r].at \in {"idle", "board", "rekey", "wire", "sleep", "refresh"}
          /\ run[r].gen \in 0..MaxSessions
          /\ run[r].op \in Entry \cup {NoOp}
          /\ run[r].as \in Account \cup {Nobody}
    /\ \A h \in reads : h.gen \in 0..MaxSessions /\ h.rows \subseteq Entry
    /\ \A d \in direct : d.op \in Entry /\ d.as \in Account
    /\ applied \subseteq Op \X Account
    /\ taken \subseteq Op /\ settled \subseteq Op /\ overtaken \subseteq Op

\* outbox.svelte.ts:83-84, "The one op a drain is sending": at most one run of the
\* current account is live, and what it sends is the claimed operation and is no
\* longer in the queue, unless an earlier account's execution has got into it.
OneSender ==
    ~mixed => \A r, q \in Run :
        Current(r) /\ Current(q) =>
            r = q /\ Claims(r) /\ \A i \in DOMAIN ops : ops[i].id # run[r].op.id

\* outbox.svelte.ts:763-766, "the abandoned run cannot write": the step in which
\* a run of an earlier account unwinds leaves the queue of the next one alone, in
\* memory and in storage, if the queue had none of the earlier account's work.
AbandonedRunsAreSilent ==
    [][~mixed => \A r \in Run :
          Waiting(r) /\ ~Current(r) /\ ~Waiting(r)' /\ reloads' = reloads =>
          UNCHANGED <<queue, stored, settled, seq>>]_vars

\* outbox.svelte.ts:206-211, 714-727: what the queue has taken and nobody has
\* answered, reported or signed out of survives a reload, merged, claimed or retried
\* as it may be.
NothingLost == ~mixed => taken \ settled \subseteq Carried(stored)

\* outbox.svelte.ts:18-20, "a promise that the work is still coming": what is stored
\* for the account is in its queue in memory or about to be read into it, unless it
\* was queued while the stored queue was being read and lost its place to it.
NothingForgotten ==
    ~mixed =>
        \A e \in Stored(account) :
            \/ \E u \in ToSet(Unsent) : u.id = e.id
            \/ \E h \in reads : h.gen = gen /\ e.id \in {x.id : x \in h.rows}
            \/ e.carries \cap overtaken # {}

\* outbox.svelte.ts:714-720: an operation that was answered is not sent again.
NeverResent == ~mixed => settled \cap Carried(ToSet(Unsent) \cup stored) = {}

\* outbox.svelte.ts:447-449, 761-765: unsent work never sits without a run that
\* is sending it or a timer behind it.
QueueHasAWaker == ops # <<>> => wake \/ \E r \in Run : Current(r)

\* outbox.svelte.ts:738-741, replaying it "would attribute one person's work to
\* another": the server applies an operation only for the account that made it.
\* It does not hold: README.md, "Where the code and its comments differ".
AttributedToOwner == \A m \in applied : owner[m[1]] = m[2]

=============================================================================
