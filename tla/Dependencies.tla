---------------------------- MODULE Dependencies ----------------------------
(***************************************************************************)
(* Blocker edges between tasks and the count each task keeps of its open   *)
(* blockers in other projects (routes/tasks.ts, services/dependencies.ts,  *)
(* services/crossProjectBlockers.ts).                                      *)
(*                                                                         *)
(* Every request is one READ COMMITTED transaction (middleware/            *)
(* transaction.ts): each of its statements is a step that sees what has    *)
(* been committed by then and what the request itself has written.  The    *)
(* waits are PostgreSQL's: advisory locks, row locks and the key-share     *)
(* locks that the foreign keys of an inserted edge take.  The row locks    *)
(* can deadlock; Abort stands for the victim, for a lost connection and    *)
(* for every other failing statement.                                      *)
(*                                                                         *)
(* A task's column is abstracted to whether it is a done one, and access   *)
(* checks to success.  The forms that touch many tasks in one statement    *)
(* (bulk routes, a column's done flag, deleting a project) are left out.   *)
(***************************************************************************)
EXTENDS Integers, FiniteSets

CONSTANTS
    Task,
    Project,      \* project ids, as numbers: they are locked in ascending order
    ProjectOf,    \* the project of each task; no route moves a task to another
    Request,      \* requests that may be in flight at once
    NoTask,       \* the blocker of a request that names none
    FirstEdges,   \* the edges there are at the start
    Edge,         \* bound: the edges requests name
    MaxRequests   \* bound: requests in a behaviour

ASSUME DependencyAssumption ==
    /\ IsFiniteSet(Task) /\ NoTask \notin Task
    /\ Project \subseteq Int
    /\ ProjectOf \in [Task -> Project]
    /\ Edge \subseteq Task \X Task /\ FirstEdges \subseteq Edge
    /\ MaxRequests \in Nat

VARIABLES
    db,      \* committed tasks and edges
    count,   \* committed task.open_cross_project_blocker_count
    req,     \* what each request is doing
    started  \* requests begun so far

vars == <<db, count, req, started>>

-----------------------------------------------------------------------------
\* An edge is <<blocker, blocked>>, a row of task_dependency.
Tables == [live : SUBSET Task, archived : SUBSET Task, done : SUBSET Task,
           edges : SUBSET (Task \X Task)]

Op == {"add", "remove", "finish", "reopen", "archive", "restore", "delete"}
At == {"idle", "locking", "inserting", "writing", "dependents", "deleting",
       "recounting", "storing", "committing"}

\* A request: `wrote' once its change to the tables is made, `tally' what it
\* counted for the rows of count it has still to write and those it has.
Req == [op : Op, at : At, task : Task \cup {NoTask}, blocker : Task \cup {NoTask},
        waits : SUBSET Project, locks : SUBSET Project,
        wrote : BOOLEAN, targets : SUBSET Task,
        tally : [Task -> Nat], pending : SUBSET Task, stored : SUBSET Task,
        alone : BOOLEAN]

NoReq == [op |-> "add", at |-> "idle", task |-> NoTask, blocker |-> NoTask,
          waits |-> {}, locks |-> {}, wrote |-> FALSE, targets |-> {},
          tally |-> [t \in Task |-> 0], pending |-> {}, stored |-> {}, alone |-> TRUE]

EdgeOf(r) == <<r.blocker, r.task>>
Touches(e, t) == e[1] = t \/ e[2] = t
Remote(e) == ProjectOf[e[1]] # ProjectOf[e[2]]
Busy(x) == req[x].at # "idle"

\* The tables once the change a request makes is applied to them.
Applied(d, r) ==
    LET did(op) == r.wrote /\ r.op = op
        its(op) == IF did(op) THEN {r.task} ELSE {}
        added == IF did("add") THEN {EdgeOf(r)} ELSE {}
        removed(e) == (did("remove") /\ e = EdgeOf(r)) \/ (did("delete") /\ Touches(e, r.task))
    IN  [live |-> d.live \ its("delete"),
         archived |-> (d.archived \cup its("archive")) \ its("restore"),
         done |-> (d.done \cup its("finish")) \ its("reopen"),
         edges |-> {e \in d.edges \cup added : ~removed(e)}]

\* What a statement of request x sees.
View(x) == Applied(db, req[x])

\* refreshCrossProjectBlockerCounts' subselect.
OpenBlockers(d, t) ==
    Cardinality({b \in d.live : /\ <<b, t>> \in d.edges
                                /\ Remote(<<b, t>>)
                                /\ b \notin d.archived
                                /\ b \notin d.done})

\* Mutant: cards in the archive are left out, as they are where the restored
\* card's relations are published.
DependentsUnarchived(d, t) ==
    {u \in d.live \ d.archived : <<t, u>> \in d.edges /\ Remote(<<t, u>>)}

\* crossProjectDependentsOf.
Dependents(d, t) == {u \in d.live : <<t, u>> \in d.edges /\ Remote(<<t, u>>)}

\* The recursive query of wouldCreateDependencyCycle, as the least set that
\* holds b and every blocker of its members.
Upstream(edges, b) ==
    {t \in Task : \A S \in SUBSET Task :
        (b \in S /\ \A e \in edges : e[2] \in S => e[1] \in S) => t \in S}

\* The projects of an edge's two tasks.
Ends(e) == {ProjectOf[e[1]], ProjectOf[e[2]]}

\* Edges from each of which a path leads back to its start.
Looping(edges) == {e \in edges : e[2] \in Upstream(edges, e[1])}

ASSUME FirstAssumption == Looping(FirstEdges) = {}

Init ==
    /\ db = [live |-> Task, archived |-> {}, done |-> {}, edges |-> FirstEdges]
    /\ count = [t \in Task |-> OpenBlockers(db, t)]
    /\ req = [x \in Request |-> NoReq]
    /\ started = 0

-----------------------------------------------------------------------------
(* Locks.                                                                   *)

\* A task row another request has updated, locked for update or deleted.
RowHeld(t, x) ==
    \E y \in Request \ {x} :
        \/ t \in req[y].stored
        \/ /\ req[y].task = t
           /\ req[y].op \notin {"add", "remove"}
           /\ req[y].wrote \/ req[y].at \in {"dependents", "deleting"}

\* An edge another request has inserted holds a key-share lock on both ends,
\* which only a delete of the task waits for.
KeyShared(t, x) ==
    \E y \in Request \ {x} : req[y].op = "add" /\ req[y].wrote /\ Touches(EdgeOf(req[y]), t)

BeingDeleted(t, x) ==
    \E y \in Request \ {x} :
        /\ req[y].op = "delete" /\ req[y].task = t
        /\ req[y].wrote \/ req[y].at \in {"dependents", "deleting"}

\* An edge another request has deleted, itself or by cascade.
EdgeHeld(e, x) ==
    \E y \in Request \ {x} :
        /\ req[y].wrote
        /\ \/ req[y].op = "remove" /\ EdgeOf(req[y]) = e
           \/ req[y].op = "delete" /\ Touches(e, req[y].task)

\* Mutant: the project of the blocked task alone.
LocksBlockedOnly(blocked, blocker) == {ProjectOf[blocked]}

\* lockDependencyProjects' list.
LocksFor(blocked, blocker) == {ProjectOf[blocked], ProjectOf[blocker]}

\* Mutant: in whatever order the list comes.
NextLockAny(r) == r.waits

\* ... and the one it takes next.
NextLock(r) == {p \in r.waits : \A q \in r.waits : p <= q}

-----------------------------------------------------------------------------
Set(x, r) == req' = [req EXCEPT ![x] = r]
Close(x) == Set(x, NoReq)

\* A request begins and its handler makes its first reads: the tasks exist and,
\* for a new edge, differ and the blocker is not archived.
Begin(x, op, t, b) ==
    /\ ~Busy(x) /\ started < MaxRequests
    /\ t \in db.live
    /\ IF op \in {"add", "remove"} THEN <<b, t>> \in Edge ELSE b = NoTask
    /\ op = "add" => b \in db.live \ db.archived /\ b # t
    /\ started' = started + 1
    /\ LET fresh == [NoReq EXCEPT !.op = op, !.task = t, !.blocker = b,
                         !.at = IF op = "add" THEN "locking" ELSE "writing",
                         !.waits = IF op = "add" THEN LocksFor(t, b) ELSE {},
                         !.alone = \A y \in Request : ~Busy(y)]
       IN  req' = [y \in Request |-> IF y = x THEN fresh
                                     ELSE IF Busy(y) THEN [req[y] EXCEPT !.alone = FALSE]
                                     ELSE req[y]]
    /\ UNCHANGED <<db, count>>

\* Add a blocker: the advisory locks ...
TakeLock(x, p) ==
    LET r == req[x]
    IN  /\ r.at = "locking"
        /\ p \in NextLock(r)
        /\ \A y \in Request : p \notin req[y].locks
        /\ Set(x, [r EXCEPT !.waits = @ \ {p}, !.locks = @ \cup {p}])
        /\ UNCHANGED <<db, count, started>>

\* ... the cycle check under them, which refuses (409) or goes on ...
CheckCycle(x) ==
    LET r == req[x]
    IN  /\ r.at = "locking" /\ r.waits = {}
        /\ IF r.task \in Upstream(db.edges, r.blocker) THEN Close(x)
           ELSE Set(x, [r EXCEPT !.at = "inserting"])
        /\ UNCHANGED <<db, count, started>>

\* ... and the insert, which does nothing when the edge is there.  A task that
\* has been deleted in the meantime fails its foreign key: Abort.
InsertEdge(x) ==
    LET r == req[x]
    IN  /\ r.at = "inserting"
        /\ {r.task, r.blocker} \subseteq db.live
        /\ ~BeingDeleted(r.task, x) /\ ~BeingDeleted(r.blocker, x)
        /\ ~EdgeHeld(EdgeOf(r), x)
        /\ Set(x, [r EXCEPT !.at = "recounting", !.targets = {r.task},
                            !.wrote = EdgeOf(r) \notin db.edges])
        /\ UNCHANGED <<db, count, started>>

\* Remove a blocker; removing an absent one recounts all the same.
RemoveEdge(x) ==
    LET r == req[x]
    IN  /\ r.at = "writing" /\ r.op = "remove"
        /\ ~EdgeHeld(EdgeOf(r), x)
        /\ Set(x, [r EXCEPT !.at = "recounting", !.targets = {r.task},
                            !.wrote = EdgeOf(r) \in db.edges])
        /\ UNCHANGED <<db, count, started>>

\* Move a card over the done line, archive or restore it.  A card already there
\* is answered at once and recounts nothing.
Changes(r) ==
    /\ r.task \in db.live
    /\ CASE r.op = "finish"  -> r.task \notin db.done
         [] r.op = "reopen"  -> r.task \in db.done
         [] r.op = "archive" -> r.task \notin db.archived
         [] r.op = "restore" -> r.task \in db.archived

UpdateTask(x) ==
    LET r == req[x]
    IN  /\ r.at = "writing" /\ r.op \in {"finish", "reopen", "archive", "restore"}
        /\ ~RowHeld(r.task, x)
        /\ IF Changes(r) THEN Set(x, [r EXCEPT !.wrote = TRUE, !.at = "dependents"])
           ELSE Close(x)
        /\ UNCHANGED <<db, count, started>>

\* Delete an archived card: lock its row, or refuse ...
LockForDelete(x) ==
    LET r == req[x]
    IN  /\ r.at = "writing" /\ r.op = "delete"
        /\ ~RowHeld(r.task, x) /\ ~KeyShared(r.task, x)
        /\ IF r.task \in db.live /\ r.task \in db.archived
           THEN Set(x, [r EXCEPT !.at = "dependents"])
           ELSE Close(x)
        /\ UNCHANGED <<db, count, started>>

\* The tasks whose counts the change moves, read before a delete takes the
\* edges away and after any other change.
ReadDependents(x) ==
    LET r == req[x]
    IN  /\ r.at = "dependents"
        /\ Set(x, [r EXCEPT !.targets = Dependents(View(x), r.task),
                            !.at = IF r.op = "delete" THEN "deleting" ELSE "recounting"])
        /\ UNCHANGED <<db, count, started>>

\* ... and delete it with its edges.
DeleteTask(x) ==
    LET r == req[x]
    IN  /\ r.at = "deleting"
        /\ \A e \in db.edges : Touches(e, r.task) => ~EdgeHeld(e, x)
        /\ Set(x, [r EXCEPT !.wrote = TRUE, !.at = "recounting"])
        /\ UNCHANGED <<db, count, started>>

\* Mutant: the count moves by one, up or down with the change.
RecountByOne(x) ==
    LET r == req[x]
        step == IF r.op \in {"add", "reopen", "restore"} THEN 1 ELSE -1
    IN  /\ r.at = "recounting"
        /\ Set(x, [r EXCEPT !.at = IF r.targets = {} THEN "committing" ELSE "storing",
                            !.pending = r.targets,
                            !.tally = [t \in Task |-> count[t] + step]])
        /\ UNCHANGED <<db, count, started>>

\* refreshCrossProjectBlockerCounts: the statement counts on its snapshot and
\* picks the rows whose count it sees to differ ...
Recount(x) ==
    LET r == req[x]
        d == View(x)
        stale == {t \in r.targets \cap d.live : count[t] # OpenBlockers(d, t)}
    IN  /\ r.at = "recounting"
        /\ Set(x, [r EXCEPT !.at = IF stale = {} THEN "committing" ELSE "storing",
                            !.pending = stale,
                            !.tally = [t \in Task |-> IF t \in stale THEN OpenBlockers(d, t)
                                                      ELSE 0]])
        /\ UNCHANGED <<db, count, started>>

\* ... and updates them one by one.  It waits for a row another request holds,
\* and then stores what it counted before: the row is read again, the count is
\* not.
StoreCount(x, t) ==
    LET r == req[x]
        left == r.pending \ {t}
    IN  /\ r.at = "storing" /\ t \in r.pending
        /\ ~RowHeld(t, x)
        /\ Set(x, [r EXCEPT !.pending = left,
                            !.at = IF left = {} THEN "committing" ELSE "storing",
                            !.stored = @ \cup ({t} \cap db.live)])
        /\ UNCHANGED <<db, count, started>>

Commit(x) ==
    LET r == req[x]
    IN  /\ r.at = "committing"
        /\ db' = View(x)
        /\ count' = [t \in Task |-> IF t \in r.stored THEN r.tally[t] ELSE count[t]]
        /\ Close(x)
        /\ UNCHANGED started

Abort(x) ==
    /\ Busy(x) /\ req[x].at # "committing"
    /\ Close(x)
    /\ UNCHANGED <<db, count, started>>

Next ==
    \E x \in Request :
        \/ \E op \in Op, t \in Task, b \in Task \cup {NoTask} : Begin(x, op, t, b)
        \/ \E p \in Project : TakeLock(x, p)
        \/ CheckCycle(x)
        \/ InsertEdge(x)
        \/ RemoveEdge(x)
        \/ UpdateTask(x)
        \/ LockForDelete(x)
        \/ ReadDependents(x)
        \/ DeleteTask(x)
        \/ Recount(x)
        \/ \E t \in Task : StoreCount(x, t)
        \/ Commit(x)
        \/ Abort(x)

Spec == Init /\ [][Next]_vars

-----------------------------------------------------------------------------
\* Types of the state.
TypeOK ==
    /\ db \in Tables
    /\ count \in [Task -> Nat]
    /\ req \in [Request -> Req]
    /\ started \in 0..MaxRequests

\* dependencies.ts:7-9, README "cycle detection walks every edge regardless of
\* project": the committed edges never close a loop.  It does not hold: README.md,
\* "Where the code and its comments differ", has the behaviour that breaks it.
Acyclic == Looping(db.edges) = {}

\* dependencies.ts:7-26: what the locks do exclude.  Wherever committed edges
\* close a loop, two of them have no project in common; so none within a
\* project, and none that goes back and forth between a project and others.
LoopsSpanDisjointProjects ==
    \A L \in SUBSET db.edges :
        Looping(L) # {} =>
            \E e, f \in L : Ends(e) \cap Ends(f) = {}

\* dependencies.ts:14-17: ascending order keeps two writers of edges in opposite
\* directions from waiting for each other, however many projects are involved.
NoLockDeadlock ==
    \A W \in SUBSET Request :
        W # {} => \E x \in W : req[x].waits = {} \/
                     \A p \in NextLock(req[x]) : \A y \in W \ {x} : p \notin req[y].locks

\* README "a count that ever drifts heals the next time anything touches its
\* blocker": a request that nothing overlapped leaves the counts of all tasks
\* its change bears on exact, whatever they were before.
TouchHeals ==
    [][\A x \in Request :
          LET r == req[x]
              borne == IF r.op \in {"add", "remove"} THEN {r.task}
                       ELSE {t \in Task : /\ <<r.task, t>> \in db.edges
                                          /\ Remote(<<r.task, t>>)}
          IN  (r.at = "committing" /\ req'[x].at = "idle" /\ r.alone) =>
                 \A t \in borne : count'[t] = OpenBlockers(db', t)]_vars

=============================================================================
