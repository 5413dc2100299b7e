----------------------------- MODULE Membership -----------------------------
(***************************************************************************)
(* Who may use one project: its owner, its members and the invitations     *)
(* that become members (routes/projects.ts, routes/invitations.ts,         *)
(* services/invitations.ts, projectMembers.ts, accountDeletion.ts).        *)
(*                                                                         *)
(* A request is one READ COMMITTED transaction.  It checks the caller's    *)
(* access without a lock, then takes the project row FOR UPDATE, reads     *)
(* again what the row protects, writes and commits.  Ask is the first      *)
(* part and one action per operation the second: under the lock nobody     *)
(* else writes members or invitations, so that it is one step.  Deleting   *)
(* an account holds the lock over two steps; setting assignees, and        *)
(* resending an invitation, take none.                                     *)
(*                                                                         *)
(* A person and their address are one value, a project is one board with   *)
(* one task, the clock is whether an invitation has expired.  Rate limits, *)
(* mail, events and fields that hold no access are left out.               *)
(***************************************************************************)
EXTENDS Integers, FiniteSets

CONSTANTS
    User,
    FirstOwner, FirstMember,  \* the board's owner and its editor at the start
    Request,      \* requests that may be in flight at once
    Body,         \* bound: the bodies of PUT /:id/members that are sent
    Omitted,      \* a body's user_ids that is not there
    MaxPending,   \* MAX_PENDING_INVITATIONS_PER_PROJECT
    MaxRequests,  \* bound: requests in a behaviour
    MaxInvites    \* bound: invitations ever created

ASSUME MembershipAssumption ==
    /\ {FirstOwner, FirstMember} \subseteq User /\ FirstOwner # FirstMember
    /\ \A b \in Body : /\ b.ids = Omitted \/ b.ids \subseteq User
                       /\ DOMAIN b.roles \subseteq User
                       /\ \A u \in DOMAIN b.roles : b.roles[u] \in {"viewer", "editor"}
    /\ {MaxPending, MaxRequests, MaxInvites} \subseteq Nat

VARIABLES
    db,        \* the committed rows
    req,       \* what each request is doing
    lock,      \* the request that holds the project row over a step
    begun,     \* requests so far
    withdrawn, \* history: invitations revoked, dropped or swept away
    granted,   \* history: <<invitation, person>> for each one honored
    demoted,   \* history: editors an invite by email turned into viewers
    crossed    \* history: of those a request is going to assign, who had no
               \* access when it looked or has lost it since

history == <<withdrawn, granted, demoted, crossed>>
vars == <<db, req, lock, begun, history>>

-----------------------------------------------------------------------------
Role == {"viewer", "editor"}
NoRow == "none"
Id == 1 .. MaxInvites

\* An invitation is keyed by the address it names; by is its invited_by.
Invitation == [id : Id, to : User, role : Role, by : User, live : BOOLEAN]

\* What a request is, who makes it and what it carries over the lock: its
\* input, or the rows it read before (at "locked": whether it holds the board).
Asked(op, args) == [op : {op}, by : User, arg : args, at : {"asked"}]
Idle == [op |-> "idle"]
NoArg == [none |-> TRUE]

Requests ==
    {Idle} \cup Asked("members", Body) \cup Asked("revoke", Invitation)
    \cup Asked("resend", Invitation) \cup Asked("transfer", User)
    \cup Asked("delete", {NoArg}) \cup Asked("accept", Invitation)
    \cup Asked("signup", SUBSET Invitation) \cup Asked("assign", SUBSET User)
    \cup Asked("leave", [owned : BOOLEAN, shared : BOOLEAN])
    \cup [op : {"leave"}, by : User, arg : BOOLEAN, at : {"locked"}]

Pending == {i.id : i \in db.invites}
Editors(d) == {d.owner} \cup {u \in User : d.member[u] = "editor"}
Readers(d) == {d.owner} \cup {u \in User : d.member[u] # NoRow}
CanWrite(u) == db.on /\ u \in Editors(db)
CanAccess(u) == db.on /\ u \in Readers(db)

Shared(d) == \E u \in User : d.member[u] # NoRow
Owned(u) == db.on /\ db.owner = u

Empty == [u \in User |-> NoRow]

Init ==
    /\ db = [on |-> TRUE, owner |-> FirstOwner,
             member |-> [Empty EXCEPT ![FirstMember] = "editor"],
             invites |-> {}, assigned |-> {}, minted |-> 0,
             accounts |-> {FirstOwner, FirstMember}, closed |-> {}]
    /\ req = [r \in Request |-> Idle]
    /\ lock = {} /\ begun = 0
    /\ withdrawn = {} /\ granted = {} /\ demoted = {}
    /\ crossed = [r \in Request |-> {}]

-----------------------------------------------------------------------------
(* The part of a request before it takes the lock.                         *)
Enter(r, what) ==
    /\ req[r] = Idle /\ begun < MaxRequests
    /\ begun' = begun + 1
    /\ req' = [req EXCEPT ![r] = what]
    /\ UNCHANGED <<db, lock>>

Begin(r, what) == Enter(r, what) /\ UNCHANGED history

Asks(op, u, arg) == [op |-> op, by |-> u, arg |-> arg, at |-> "asked"]

AskMembers(r, u) ==
    /\ CanAccess(u)
    /\ \E b \in Body : Begin(r, Asks("members", u, b))

\* An invitation of the list, which may be gone by then: revoke finds it by
\* its id under the lock, resend reads it here and updates it by its id.
AskAboutInvitation(r, u) ==
    /\ CanWrite(u)
    /\ \E i \in db.invites, op \in {"revoke", "resend"} : Begin(r, Asks(op, u, i))

AskTransfer(r, u) == CanWrite(u) /\ \E to \in User : Begin(r, Asks("transfer", u, to))

AskDelete(r, u) == CanWrite(u) /\ Begin(r, Asks("delete", u, NoArg))

\* Any holder of the link may redeem it.
AskAccept(r, u) ==
    /\ u \in db.accounts
    /\ \E i \in db.invites : i.live /\ Begin(r, Asks("accept", u, i))

\* The account's row is inserted, which others see at the commit, and the
\* invitations of its address are read.  Who deleted their account does not
\* come back: that would be another account, and another value of User.
AskSignup(r, u) ==
    /\ u \notin db.accounts \cup db.closed
    /\ Begin(r, Asks("signup", u, {i \in db.invites : i.to = u /\ i.live}))

\* Only people who are not assigned yet are checked.
AskAssign(r, u) ==
    /\ CanWrite(u)
    /\ \E desired \in SUBSET User :
          /\ desired \ db.assigned \subseteq Readers(db) \cap db.accounts
          /\ Enter(r, Asks("assign", u, desired))
          /\ crossed' = [crossed EXCEPT ![r] = desired \ Readers(db)]
    /\ UNCHANGED <<withdrawn, granted, demoted>>

\* DELETE /me: the snapshot of the statement that will lock the owned boards.
AskLeave(r, u) ==
    /\ u \in db.accounts
    /\ Begin(r, Asks("leave", u, [owned |-> Owned(u), shared |-> Shared(db)]))

-----------------------------------------------------------------------------
Unlocked == lock = {}
Holds(r, op) == req[r] # Idle /\ req[r].op = op /\ req[r].at = "asked"
Answer(r) == req' = [req EXCEPT ![r] = Idle]

\* A request that finds its rows gone, or its caller no longer entitled,
\* answers an error and leaves no trace.
Refuse(r) == Answer(r) /\ UNCHANGED <<db, lock, begun, history>>

\* A faulty form: members go and their assignments stay.
StrippedNot(d, gone) == d

\* stripAssigneesForRemovedMembers.
Stripped(d, gone) == [d EXCEPT !.assigned = @ \ gone]

\* removeProjectMembers.
Removed(d, gone) ==
    Stripped([d EXCEPT !.member = [u \in User |-> IF u \in gone THEN NoRow ELSE @[u]]], gone)

\* A faulty form: members change and the invitations stay.
SweptNot(d) == d

\* revokeInvitationsFromNonEditors.
Swept(d) == [d EXCEPT !.invites = {i \in @ : i.by \in Editors(d)}]

\* What a change of members leaves: the rows, less the invitations of those
\* who may no longer write.
SettleMembers(d, gone) ==
    /\ db' = Swept(d)
    /\ withdrawn' = withdrawn \cup (Pending \ {i.id : i \in Swept(d).invites})
    /\ demoted' = {}
    /\ crossed' = [s \in Request |-> IF Holds(s, "assign")
                                     THEN crossed[s] \cup (gone \cap req[s].arg) ELSE {}]
    /\ UNCHANGED granted

\* PUT /:id/members by an editor: the body's list replaces the members, its
\* roles apply to who is on it, newcomers are editors where it says nothing.
Replaced(d, b) ==
    LET current == {u \in User : d.member[u] # NoRow}
        desired == (IF b.ids = Omitted THEN current ELSE b.ids) \ {d.owner}
        role(u) == IF u \in DOMAIN b.roles THEN b.roles[u]
                   ELSE IF u \in current THEN d.member[u] ELSE "editor"
        kept    == Removed(d, current \ desired)
    IN [kept EXCEPT !.member = [u \in User |-> IF u \in desired THEN role(u) ELSE NoRow]]

Allowed(d, b) ==
    LET listed == IF b.ids = Omitted THEN {u \in User : d.member[u] # NoRow} ELSE b.ids
        added  == {u \in listed \ {d.owner} : d.member[u] = NoRow}
    IN DOMAIN b.roles \ {d.owner} \subseteq listed \ {d.owner} /\ added \subseteq d.accounts

\* A viewer may only leave; so may, under the lock, who is no member any more.
SetMembers(r) ==
    LET u == req[r].by
        b == req[r].arg
        leaves == b.ids # Omitted /\ u \notin b.ids /\ DOMAIN b.roles = {}
        next == Replaced(db, b)
    IN /\ Holds(r, "members") /\ Unlocked
       /\ IF ~db.on THEN Refuse(r)
          ELSE IF u \notin Editors(db)
          THEN IF ~leaves THEN Refuse(r)
               ELSE /\ SettleMembers(Removed(db, {u}), {u})
                    /\ Answer(r) /\ UNCHANGED <<lock, begun>>
          ELSE IF ~Allowed(db, b) THEN Refuse(r)
          ELSE /\ SettleMembers(next, Readers(db) \ Readers(next))
               /\ Answer(r) /\ UNCHANGED <<lock, begun>>

-----------------------------------------------------------------------------
(* Invitations.                                                            *)
\* POST /:id/members/by-email takes the lock before it reads anything, so the
\* whole request is one step.  role is NoRow where the body names none.
InviteExisting(u, to, role) ==
    LET was == db.member[to]
        now == IF was = NoRow THEN IF role = NoRow THEN "editor" ELSE role
               ELSE IF role = NoRow THEN was ELSE role
        dropped == {i \in db.invites : i.to = to}
    IN /\ to \in db.accounts
       /\ db' = [db EXCEPT !.invites = @ \ dropped,
                           !.member[to] = IF to = db.owner THEN @ ELSE now]
       /\ withdrawn' = withdrawn \cup {i.id : i \in dropped}
       /\ demoted' = IF db.owner # to /\ was = "editor" /\ now = "viewer"
                     THEN demoted \cup {to} ELSE demoted \ Editors(db')
       /\ UNCHANGED <<granted, crossed>>

\* A re-invite keeps the row's id and its inviter and gives it a new deadline.
InviteAddress(u, to, role) ==
    /\ to \notin db.accounts
    /\ \/ \E i \in db.invites :
             /\ i.to = to
             /\ db' = [db EXCEPT !.invites = (@ \ {i}) \cup
                   {[i EXCEPT !.live = TRUE, !.role = IF role = NoRow THEN @ ELSE role]}]
       \/ /\ \A i \in db.invites : i.to # to
          /\ Cardinality(db.invites) < MaxPending /\ db.minted < MaxInvites
          /\ db' = [db EXCEPT !.minted = @ + 1, !.invites = @ \cup
                {[id |-> db.minted + 1, to |-> to, by |-> u, live |-> TRUE,
                  role |-> IF role = NoRow THEN "editor" ELSE role]}]
    /\ UNCHANGED history

InviteByEmail(u, to) ==
    /\ Unlocked /\ begun < MaxRequests /\ CanWrite(u)
    /\ begun' = begun + 1
    /\ \E role \in Role \cup {NoRow} : InviteExisting(u, to, role) \/ InviteAddress(u, to, role)
    /\ UNCHANGED <<req, lock>>

\* The caller's right was checked before the lock and is not checked again.
Revoke(r) ==
    LET gone == {i \in db.invites : i.id = req[r].arg.id}
    IN /\ Holds(r, "revoke") /\ Unlocked
       /\ db' = [db EXCEPT !.invites = @ \ gone]
       /\ withdrawn' = withdrawn \cup {i.id : i \in gone}
       /\ Answer(r) /\ UNCHANGED <<lock, begun, granted, demoted, crossed>>

\* An update by id, which matches nothing if the row is gone.
Resend(r) ==
    /\ Holds(r, "resend")
    /\ db' = [db EXCEPT !.invites =
          {IF i.id = req[r].arg.id THEN [i EXCEPT !.live = TRUE] ELSE i : i \in @}]
    /\ Answer(r) /\ UNCHANGED <<lock, begun, history>>

Expire ==
    /\ \E i \in db.invites :
          i.live /\ db' = [db EXCEPT !.invites = (@ \ {i}) \cup {[i EXCEPT !.live = FALSE]}]
    /\ UNCHANGED <<req, lock, begun, history>>

\* A faulty form: only a member row counts as access already held.
GrantableWithoutRow(d, u, rows) ==
    IF d.on /\ (d.member[u] = NoRow) THEN rows ELSE {}

\* claimInvitations under the lock: rows read before it, less those of a board
\* the claimer has access to, and of these the ones still there to be deleted.
Grantable(d, u, rows) == IF d.on /\ u \notin Readers(d) THEN rows ELSE {}

\* A faulty form: what was read before the lock is honored, whatever is left.
ConsumedUnread(d, rows) == rows

Consumed(d, rows) == {i \in rows : \E j \in d.invites : j.id = i.id}

Claim(u, rows, accounts) ==
    LET won == Consumed(db, Grantable(db, u, rows))
    IN /\ db' = [db EXCEPT
             !.accounts = accounts,
             !.invites = {i \in @ : i.id \notin {j.id : j \in won}},
             !.member[u] = IF won = {} THEN @ ELSE (CHOOSE i \in won : TRUE).role]
       /\ granted' = granted \cup {<<i.id, u>> : i \in won}
       /\ UNCHANGED <<withdrawn, demoted, crossed>>

Accept(r) ==
    /\ Holds(r, "accept") /\ Unlocked
    /\ IF req[r].by \notin db.accounts THEN Refuse(r)
       ELSE /\ Claim(req[r].by, {req[r].arg}, db.accounts)
            /\ Answer(r) /\ UNCHANGED <<lock, begun>>

\* Two sign-ups of one address: the unique index refuses the second.
Signup(r) ==
    /\ Holds(r, "signup")
    /\ req[r].arg = {} \/ Unlocked
    /\ IF req[r].by \in db.accounts \cup db.closed THEN Refuse(r)
       ELSE /\ Claim(req[r].by, req[r].arg, db.accounts \cup {req[r].by})
            /\ Answer(r) /\ UNCHANGED <<lock, begun>>

-----------------------------------------------------------------------------
(* Ownership, assignments, the end of a board and of an account.           *)
\* The outgoing owner becomes an editor, the incoming one loses their row.
Transfer(r) ==
    LET u == req[r].by
        to == req[r].arg
    IN /\ Holds(r, "transfer") /\ Unlocked
       /\ IF ~db.on \/ db.owner # u \/ db.member[to] = NoRow THEN Refuse(r)
          ELSE /\ db' = [db EXCEPT !.owner = to, !.member[to] = NoRow, !.member[u] = "editor"]
               /\ demoted' = demoted \ {to}
               /\ Answer(r) /\ UNCHANGED <<lock, begun, withdrawn, granted, crossed>>

\* A faulty form: the project's cascade forgets its invitations.
DroppedKeepsInvites(d) == [d EXCEPT !.on = FALSE, !.member = Empty, !.assigned = {}]

\* The rows of a project go with it.
Dropped(d) == [d EXCEPT !.on = FALSE, !.member = Empty, !.invites = {}, !.assigned = {}]

DropBoard(d) ==
    /\ db' = Dropped(d)
    /\ withdrawn' = withdrawn \cup Pending
    /\ demoted' = {} /\ crossed' = [r \in Request |-> {}]
    /\ UNCHANGED granted

Delete(r) ==
    /\ Holds(r, "delete") /\ Unlocked
    /\ IF ~db.on \/ db.owner # req[r].by THEN Refuse(r)
       ELSE DropBoard(db) /\ Answer(r) /\ UNCHANGED <<lock, begun>>

\* Nothing is checked again: the body's list is written, unless the board is
\* gone or the foreign key refuses somebody.
Assign(r) ==
    /\ Holds(r, "assign")
    /\ db' = IF db.on /\ req[r].arg \subseteq db.accounts
             THEN [db EXCEPT !.assigned = req[r].arg] ELSE db
    /\ crossed' = [crossed EXCEPT ![r] = {}]
    /\ Answer(r) /\ UNCHANGED <<lock, begun, withdrawn, granted, demoted>>

\* lockOwnedProjects: the boards found are locked, less what has been handed on
\* meanwhile; whether one is shared is what the snapshot said.  409 for an owner
\* of a shared one.
LockOwned(r) ==
    LET u == req[r].by
        found == req[r].arg.owned /\ Owned(u)
    IN /\ Holds(r, "leave")
       /\ req[r].arg.owned => Unlocked
       /\ IF found /\ req[r].arg.shared THEN Refuse(r)
          ELSE /\ lock' = IF found THEN {r} ELSE lock
               /\ req' = [req EXCEPT ![r].at = "locked", ![r].arg = found]
               /\ UNCHANGED <<db, begun, history>>

\* A faulty form: the boards that were found go, shared by now or not.
DoomedUnlooked(r) == req[r].arg = TRUE

\* A faulty form: the account takes whatever it owns by now along.
DoomedNow(r) == db.on /\ db.owner = req[r].by

\* The boards found then go, if they are unshared still, and the account after
\* them: its rows everywhere, unless a board it owns is left (ON DELETE RESTRICT).
Doomed(r) == req[r].arg = TRUE /\ ~Shared(db)

DeleteAccount(r) ==
    LET u == req[r].by
        without == [db EXCEPT !.accounts = @ \ {u}, !.closed = @ \cup {u}]
        gone == {i \in db.invites : i.by = u}
    IN /\ req[r] # Idle /\ req[r].op = "leave" /\ req[r].at = "locked"
       /\ lock' = lock \ {r} /\ Answer(r) /\ UNCHANGED begun
       /\ \/ Doomed(r) /\ DropBoard(without)
          \/ /\ ~Doomed(r) /\ Owned(u) /\ UNCHANGED <<db, history>>
          \/ /\ ~Doomed(r) /\ ~Owned(u)
             /\ db' = [Removed(without, {u}) EXCEPT !.invites = @ \ gone]
             /\ withdrawn' = withdrawn \cup {i.id : i \in gone}
             /\ demoted' = demoted \ {u}
             /\ UNCHANGED <<granted, crossed>>

-----------------------------------------------------------------------------
Ask(r, u) ==
    \/ AskMembers(r, u) \/ AskAboutInvitation(r, u) \/ AskTransfer(r, u)
    \/ AskDelete(r, u) \/ AskAccept(r, u) \/ AskSignup(r, u)
    \/ AskAssign(r, u) \/ AskLeave(r, u)

Work(r) ==
    \/ SetMembers(r) \/ Revoke(r) \/ Resend(r) \/ Accept(r) \/ Signup(r)
    \/ Transfer(r) \/ Delete(r) \/ Assign(r) \/ LockOwned(r) \/ DeleteAccount(r)

Next ==
    \/ \E r \in Request, u \in User : Ask(r, u)
    \/ \E r \in Request : Work(r)
    \/ \E u, to \in User : InviteByEmail(u, to)
    \/ Expire

Spec == Init /\ [][Next]_vars
-----------------------------------------------------------------------------
(* Properties.                                                             *)
\* Rows are well formed: one invitation of an address, access only for accounts
\* (the foreign keys), nothing left of a board that is gone, one holder of the
\* lock (project_invitation_project_email_idx, 0026_project_invitation.ts).
TypeOK ==
    /\ db.on \in BOOLEAN /\ db.owner \in User /\ db.minted \in 0 .. MaxInvites
    /\ db.member \in [User -> Role \cup {NoRow}]
    /\ db.invites \subseteq Invitation
    /\ \A i, j \in db.invites : i.to = j.to \/ i.id = j.id => i = j
    /\ db.on => Readers(db) \subseteq db.accounts
    /\ ~db.on => db.invites = {} /\ db.member = Empty /\ db.assigned = {}
    /\ db.accounts \subseteq User \ db.closed /\ db.assigned \subseteq db.accounts
    /\ \A r \in Request : req[r] = Idle \/ req[r].by \in User
    /\ Cardinality(lock) \leq 1 /\ begun \in 0 .. MaxRequests

\* However transfers, invitations, claims and member lists interleave, the
\* owner never has a member row: their access would depend on which of the two
\* a reader asks (lockProject's comment, projectLock.ts:21-25).
OwnerIsNoMember == db.member[db.owner] = NoRow

\* An invitation lets one person in at most, and none once it was revoked,
\* dropped or swept away, though a claim may have read it before that
\* (claimInvitations, "consumed before it is honored").
WithdrawnNeverGrants ==
    /\ \A g, h \in granted : g[1] = h[1] => g = h
    /\ {g[1] : g \in granted} \cap withdrawn = {}

\* Whoever sent an invitation that is pending can still write, or is an editor
\* that an invite by email has turned into a viewer, which is the one demotion
\* that does not sweep (revokeInvitationsFromNonEditors and its callers).
InvitersCanWriteButByEmail ==
    \A i \in db.invites : i.by \in Editors(db) \cup demoted

\* Losing write access takes the outstanding invitations along, whatever took
\* it (the comment at services/invitations.ts:229-230).  It does not hold:
\* README.md, "Where the code and its comments differ", has the behaviour.
InvitersCanWrite == \A i \in db.invites : i.by \in Editors(db)

\* projectMembers.ts:6-8, "losing membership has to take the assignments with
\* it".  Whatever takes access away, in any order with the others, leaves no
\* assignment behind; one without access comes about only when a request writes
\* a list it checked before the person lost access (routes/tasks.ts:1285), or
\* keeps on it who had none already.
AssignmentsFollowAccess ==
    [][\A u \in db'.assigned \ Readers(db') :
         \/ u \in db.assigned \ Readers(db)
         \/ \E r \in Request : Holds(r, "assign") /\ u \in crossed[r] /\ req'[r] = Idle]_vars

\* Not so: "an assignee with no access is a card nobody can be asked about".  A
\* late list is written over the removal, and no later removal strips it, since
\* who is no member any more is not removed again.
AssigneesHaveAccess == db.assigned \subseteq Readers(db)

\* A board goes by its owner's request to delete it, or with its owner's account
\* if nobody else is a member: a board that an account came to own while it was
\* being deleted survives (deleteUnsharedProjects).
SharedBoardSurvives ==
    [][db.on /\ ~db'.on =>
         \E r \in Request : /\ req[r] # Idle /\ req[r].by = db.owner /\ req'[r] = Idle
                            /\ \/ req[r].op = "delete"
                               \/ req[r].op = "leave" /\ ~Shared(db)]_vars
=============================================================================
