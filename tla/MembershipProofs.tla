-------------------------- MODULE MembershipProofs --------------------------
(***************************************************************************)
(* Proofs about Membership: its invariants hold for any people, requests   *)
(* and bodies and any value of the bounds.                                 *)
(***************************************************************************)
EXTENDS Membership, FiniteSetTheorems, TLAPS

-----------------------------------------------------------------------------
(* The inductive invariant.                                                *)
Db == [on : BOOLEAN, owner : User, member : [User -> Role \cup {NoRow}],
       invites : SUBSET Invitation, assigned : SUBSET User, minted : 0 .. MaxInvites,
       accounts : SUBSET User, closed : SUBSET User]

Typed ==
    /\ db \in Db /\ req \in [Request -> Requests]
    /\ lock \in SUBSET Request /\ begun \in 0 .. MaxRequests
    /\ withdrawn \in SUBSET Id /\ granted \in SUBSET (Id \X User)
    /\ demoted \in SUBSET User /\ crossed \in [Request -> SUBSET User]

\* What the indexes, the foreign keys and the cascades of the tables keep.
RowsKept ==
    /\ \A i, j \in db.invites : i.to = j.to \/ i.id = j.id => i = j
    /\ \A i \in db.invites : i.id \leq db.minted
    /\ db.on => Readers(db) \subseteq db.accounts
    /\ ~db.on => db.invites = {} /\ db.member = Empty /\ db.assigned = {}
    /\ db.accounts \cap db.closed = {}
    /\ db.assigned \subseteq db.accounts

\* An invitation that was honored or withdrawn is gone and its id is not used again.
Spent == withdrawn \cup {g[1] : g \in granted}
SpentKept ==
    /\ WithdrawnNeverGrants
    /\ \A n \in Spent : n \leq db.minted /\ n \notin Pending

\* What a request is going to assign had an account, and who of it has one
\* still has access to the board or is recorded by crossed.
AssignKept ==
    \A r \in Request : Holds(r, "assign") =>
        /\ req[r].arg \subseteq db.accounts \cup db.closed
        /\ db.on => req[r].arg \cap db.accounts \subseteq Readers(db) \cup crossed[r]

\* What AssignmentsFollowAccess asks of a step.
Followed ==
    \A u \in db'.assigned \ Readers(db') :
        \/ u \in db.assigned \ Readers(db)
        \/ \E r \in Request : Holds(r, "assign") /\ u \in crossed[r] /\ req'[r] = Idle

\* An account deletion that found a board holds the lock, and its owner's.
Leaving(r) == req[r] # Idle /\ req[r].op = "leave" /\ req[r].at = "locked"
LockKept ==
    /\ lock = {} \/ \E r \in Request : lock = {r}
    /\ \A r \in Request : Leaving(r) /\ req[r].arg = TRUE => r \in lock
    /\ \A r \in lock : Leaving(r) /\ db.owner = req[r].by

IInv == /\ Typed /\ RowsKept /\ OwnerIsNoMember /\ SpentKept
        /\ InvitersCanWriteButByEmail /\ AssignKept /\ LockKept

-----------------------------------------------------------------------------
(* What the operators on the rows change, field by field.                  *)
LEMMA EmptyType == Empty \in [User -> Role \cup {NoRow}] /\ NoRow \notin Role
  BY DEF Empty, NoRow, Role

\* Sweeping touches the invitations only.
LEMMA SweptFields ==
    ASSUME NEW d \in Db
    PROVE  /\ Swept(d) \in Db
           /\ Swept(d).invites = {i \in d.invites : i.by \in Editors(d)}
           /\ Swept(d).on = d.on /\ Swept(d).owner = d.owner
           /\ Swept(d).member = d.member /\ Swept(d).assigned = d.assigned
           /\ Swept(d).minted = d.minted /\ Swept(d).accounts = d.accounts
           /\ Swept(d).closed = d.closed
  BY DEF Swept, Db

\* Removing members takes their rows and their assignments.
LEMMA RemovedFields ==
    ASSUME NEW d \in Db, NEW gone \in SUBSET User
    PROVE  /\ Removed(d, gone) \in Db
           /\ Removed(d, gone).member = [u \in User |-> IF u \in gone THEN NoRow ELSE d.member[u]]
           /\ Removed(d, gone).assigned = d.assigned \ gone
           /\ Removed(d, gone).invites = d.invites
           /\ Removed(d, gone).on = d.on /\ Removed(d, gone).owner = d.owner
           /\ Removed(d, gone).minted = d.minted /\ Removed(d, gone).accounts = d.accounts
           /\ Removed(d, gone).closed = d.closed
<1> DEFINE rows == [u \in User |-> IF u \in gone THEN NoRow ELSE d.member[u]]
<1>1. rows \in [User -> Role \cup {NoRow}]
  BY DEF Db
<1>2. Removed(d, gone) = [d EXCEPT !.member = rows, !.assigned = d.assigned \ gone]
  BY DEF Removed, Stripped, Db
<1> HIDE DEF rows
<1>3. [d EXCEPT !.member = rows, !.assigned = d.assigned \ gone] \in Db
  BY <1>1 DEF Db
<1>4. /\ Removed(d, gone).member = rows /\ Removed(d, gone).assigned = d.assigned \ gone
      /\ Removed(d, gone).invites = d.invites
      /\ Removed(d, gone).on = d.on /\ Removed(d, gone).owner = d.owner
      /\ Removed(d, gone).minted = d.minted /\ Removed(d, gone).accounts = d.accounts
      /\ Removed(d, gone).closed = d.closed
  BY <1>2 DEF Db
<1> QED BY <1>2, <1>3, <1>4 DEF rows

\* The list of a body: nobody on it is the owner, and whoever is off it loses
\* their row and their assignments.
LEMMA ReplacedFields ==
    ASSUME NEW d \in Db, NEW b \in Body, Allowed(d, b)
    PROVE  /\ Replaced(d, b) \in Db
           /\ Replaced(d, b).member[d.owner] = NoRow
           /\ \A u \in User : Replaced(d, b).member[u] # NoRow =>
                 d.member[u] # NoRow \/ u \in d.accounts
           /\ \A u \in User : u \in d.assigned /\ d.member[u] # NoRow
                              /\ Replaced(d, b).member[u] = NoRow
                 => u \notin Replaced(d, b).assigned
           /\ Replaced(d, b).assigned \subseteq d.assigned
           /\ Replaced(d, b).invites = d.invites
           /\ Replaced(d, b).on = d.on /\ Replaced(d, b).owner = d.owner
           /\ Replaced(d, b).minted = d.minted /\ Replaced(d, b).accounts = d.accounts
           /\ Replaced(d, b).closed = d.closed
<1> DEFINE current == {u \in User : d.member[u] # NoRow}
           desired == (IF b.ids = Omitted THEN current ELSE b.ids) \ {d.owner}
           role(u) == IF u \in DOMAIN b.roles THEN b.roles[u]
                      ELSE IF u \in current THEN d.member[u] ELSE "editor"
           kept    == Removed(d, current \ desired)
           rows    == [u \in User |-> IF u \in desired THEN role(u) ELSE NoRow]
<1>1. desired \subseteq User
  BY MembershipAssumption
<1>2. \A u \in desired : role(u) \in Role
  BY <1>1, MembershipAssumption DEF Db, Role
<1>3. rows \in [User -> Role \cup {NoRow}]
  BY <1>2
<1>4. Replaced(d, b) = [kept EXCEPT !.member = rows]
  BY DEF Replaced
<1>5. \A u \in desired : u \in current \/ u \in d.accounts
  <2>1. SUFFICES ASSUME NEW u \in desired PROVE u \in current \/ u \in d.accounts
    OBVIOUS
  <2> DEFINE listed == IF b.ids = Omitted THEN current ELSE b.ids
             added  == {v \in listed \ {d.owner} : d.member[v] = NoRow}
  <2>2. added \subseteq d.accounts
    BY DEF Allowed
  <2>3. u \in listed \ {d.owner} /\ u \in User
    BY <1>1
  <2> HIDE DEF listed, desired, role
  <2> QED BY <2>2, <2>3
<1> HIDE DEF role, desired
<1>6. \A u \in User : rows[u] # NoRow <=> u \in desired
  BY <1>2, EmptyType
<1>7. d.owner \notin desired
  BY DEF desired
<1>8. /\ kept \in Db /\ kept.assigned = d.assigned \ (current \ desired)
      /\ kept.invites = d.invites /\ kept.on = d.on /\ kept.owner = d.owner
      /\ kept.minted = d.minted /\ kept.accounts = d.accounts /\ kept.closed = d.closed
  BY RemovedFields
<1> HIDE DEF rows, kept
<1>9. /\ Replaced(d, b) \in Db /\ Replaced(d, b).member = rows
      /\ Replaced(d, b).assigned = kept.assigned /\ Replaced(d, b).invites = kept.invites
      /\ Replaced(d, b).on = kept.on /\ Replaced(d, b).owner = kept.owner
      /\ Replaced(d, b).minted = kept.minted /\ Replaced(d, b).accounts = kept.accounts
      /\ Replaced(d, b).closed = kept.closed
  BY <1>3, <1>4, <1>8 DEF Db
<1>10. d.owner \in User
  BY DEF Db
<1> HIDE DEF current
<1>11. Replaced(d, b).assigned \subseteq d.assigned
  BY <1>8, <1>9
<1>12. \A u \in User : u \in d.assigned /\ d.member[u] # NoRow /\ rows[u] = NoRow
          => u \notin kept.assigned
  BY <1>6, <1>8 DEF current
<1>13. \A u \in User : rows[u] # NoRow => d.member[u] # NoRow \/ u \in d.accounts
  BY <1>5, <1>6 DEF current
<1> QED BY <1>6, <1>7, <1>8, <1>9, <1>10, <1>11, <1>12, <1>13

\* What goes with a project leaves no rows.
LEMMA DroppedFields ==
    ASSUME NEW d \in Db
    PROVE  /\ Dropped(d) \in Db
           /\ ~Dropped(d).on /\ Dropped(d).member = Empty
           /\ Dropped(d).invites = {} /\ Dropped(d).assigned = {}
           /\ Dropped(d).owner = d.owner /\ Dropped(d).minted = d.minted
           /\ Dropped(d).accounts = d.accounts /\ Dropped(d).closed = d.closed
  BY EmptyType DEF Dropped, Db

-----------------------------------------------------------------------------
(* What ending a request changes.                                          *)
LEMMA Answered ==
    ASSUME Typed, NEW r \in Request, Answer(r)
    PROVE  /\ req' \in [Request -> Requests]
           /\ req'[r] = Idle
           /\ \A s \in Request : s # r => req'[s] = req[s]
  BY DEF Typed, Answer, Requests

\* What a request carries, by what it is.
LEMMA ArgTypes ==
    ASSUME NEW q \in Requests, q # Idle
    PROVE  /\ q.by \in User
           /\ q.op = "members" => q.arg \in Body
           /\ q.op \in {"revoke", "resend", "accept"} => q.arg \in Invitation
           /\ q.op = "transfer" => q.arg \in User
           /\ q.op = "signup" => q.arg \in SUBSET Invitation
           /\ q.op = "assign" => q.arg \in SUBSET User
           /\ q.op = "leave" /\ q.at = "asked" => q.arg \in [owned : BOOLEAN, shared : BOOLEAN]
           /\ q.op = "leave" /\ q.at = "locked" => q.arg \in BOOLEAN
  BY DEF Requests, Asked

\* Who ends a request disturbs no other one.
LEMMA Ended ==
    ASSUME Typed, NEW r \in Request, Answer(r)
    PROVE  /\ \A s \in Request : Holds(s, "assign")' =>
                 s # r /\ Holds(s, "assign") /\ req'[s] = req[s]
           /\ \A s \in Request : Leaving(s)' => s # r /\ Leaving(s) /\ req'[s] = req[s]
           /\ \A s \in Request : Leaving(s) /\ s # r => Leaving(s)' /\ req'[s] = req[s]
  BY Answered DEF Holds, Leaving

\* The lock stays with its holder, and while nobody has it the board may
\* change hands.
LEMMA LockStays ==
    ASSUME LockKept, lock' = lock, lock = {} \/ db'.owner = db.owner,
           \A s \in Request : Leaving(s)' => Leaving(s) /\ req'[s] = req[s],
           \A s \in Request : Leaving(s) => Leaving(s)' /\ req'[s] = req[s]
    PROVE  LockKept'
  BY DEF LockKept

\* A list stays covered where who was checked is still covered.
LEMMA AssignStays ==
    ASSUME AssignKept,
           \A s \in Request : Holds(s, "assign")' => Holds(s, "assign") /\ req'[s] = req[s],
           db.accounts \cup db.closed \subseteq db'.accounts \cup db'.closed,
           \A s \in Request : Holds(s, "assign") /\ req'[s] = req[s] /\ db'.on =>
               req[s].arg \cap db'.accounts \subseteq Readers(db') \cup crossed'[s]
    PROVE  AssignKept'
  BY DEF AssignKept

\* A step that changes requests only, no assignment and no account deletion.
LEMMA QuietKeeps ==
    ASSUME IInv, UNCHANGED <<db, lock, history>>, begun' \in 0 .. MaxRequests,
           req' \in [Request -> Requests],
           \A s \in Request : Holds(s, "assign")' => Holds(s, "assign") /\ req'[s] = req[s],
           \A s \in Request : Leaving(s)' => Leaving(s) /\ req'[s] = req[s],
           \A s \in Request : Leaving(s) => Leaving(s)' /\ req'[s] = req[s]
    PROVE  IInv' /\ Followed
<1>1. Typed'
  BY DEF IInv, Typed, history
<1>2. RowsKept' /\ OwnerIsNoMember' /\ InvitersCanWriteButByEmail'
  BY DEF IInv, RowsKept, OwnerIsNoMember, InvitersCanWriteButByEmail, history, Readers,
         Editors, Empty
<1>3. SpentKept'
  BY DEF IInv, SpentKept, WithdrawnNeverGrants, Spent, Pending, history
<1>4. AssignKept' /\ Followed
  <2>1. db' = db /\ crossed' = crossed /\ Readers(db') = Readers(db)
    BY DEF history, Readers
  <2> QED BY <2>1, AssignStays DEF IInv, AssignKept, Followed
<1>5. LockKept'
  BY LockStays DEF IInv
<1> QED BY <1>1, <1>2, <1>3, <1>4, <1>5 DEF IInv

-----------------------------------------------------------------------------
(* The part of a request before the lock.                                  *)
LEMMA AskedType ==
    ASSUME NEW u \in User
    PROVE  /\ \A b \in Body : Asks("members", u, b) \in Requests
           /\ \A i \in Invitation : /\ Asks("revoke", u, i) \in Requests
                                    /\ Asks("resend", u, i) \in Requests
                                    /\ Asks("accept", u, i) \in Requests
           /\ \A to \in User : Asks("transfer", u, to) \in Requests
           /\ Asks("delete", u, NoArg) \in Requests
           /\ \A rows \in SUBSET Invitation : Asks("signup", u, rows) \in Requests
           /\ \A some \in SUBSET User : Asks("assign", u, some) \in Requests
           /\ \A o, x \in BOOLEAN : Asks("leave", u, [owned |-> o, shared |-> x]) \in Requests
  BY DEF Asks, Asked, Requests

LEMMA Beginning ==
    ASSUME IInv, NEW r \in Request, NEW what \in Requests, Enter(r, what),
           NEW op, NEW u, NEW arg, what = Asks(op, u, arg)
    PROVE  /\ req' \in [Request -> Requests] /\ begun' \in 0 .. MaxRequests
           /\ UNCHANGED <<db, lock>>
           /\ req'[r] = what /\ \A s \in Request : s # r => req'[s] = req[s]
           /\ \A s \in Request : Leaving(s)' => Leaving(s) /\ req'[s] = req[s]
           /\ \A s \in Request : Leaving(s) => Leaving(s)' /\ req'[s] = req[s]
<1>1. /\ req' \in [Request -> Requests] /\ begun' \in 0 .. MaxRequests
      /\ UNCHANGED <<db, lock>>
      /\ req'[r] = what /\ \A s \in Request : s # r => req'[s] = req[s]
  BY MembershipAssumption DEF IInv, Typed, Enter
<1>2. what.at = "asked" /\ req[r] = Idle
  BY DEF Asks, Enter
<1> QED BY <1>1, <1>2 DEF Leaving

LEMMA QuietAsk ==
    ASSUME IInv, NEW r \in Request, NEW op, NEW u, NEW arg, op # "assign",
           Asks(op, u, arg) \in Requests, Begin(r, Asks(op, u, arg))
    PROVE  IInv' /\ Followed
<1>1. /\ req' \in [Request -> Requests] /\ begun' \in 0 .. MaxRequests
      /\ UNCHANGED <<db, lock, history>>
      /\ req'[r] = Asks(op, u, arg) /\ \A s \in Request : s # r => req'[s] = req[s]
      /\ \A s \in Request : Leaving(s)' => Leaving(s) /\ req'[s] = req[s]
      /\ \A s \in Request : Leaving(s) => Leaving(s)' /\ req'[s] = req[s]
  BY Beginning DEF Begin
<1>2. \A s \in Request : Holds(s, "assign")' => Holds(s, "assign") /\ req'[s] = req[s]
  BY <1>1 DEF Holds, Asks
<1> QED BY <1>1, <1>2, QuietKeeps

\* Whoever is to be assigned has access when it is checked, or is assigned
\* already; crossed starts with those of them who have none.
LEMMA AskAssignKeeps ==
    ASSUME IInv, NEW r \in Request, NEW u \in User, AskAssign(r, u)
    PROVE  IInv' /\ Followed
<1>1. PICK desired \in SUBSET User :
        /\ desired \ db.assigned \subseteq Readers(db) \cap db.accounts
        /\ Enter(r, Asks("assign", u, desired))
        /\ crossed' = [crossed EXCEPT ![r] = desired \ Readers(db)]
  BY DEF AskAssign
<1>2. /\ req' \in [Request -> Requests] /\ begun' \in 0 .. MaxRequests
      /\ UNCHANGED <<db, lock, withdrawn, granted, demoted>>
      /\ req'[r] = Asks("assign", u, desired) /\ \A s \in Request : s # r => req'[s] = req[s]
      /\ \A s \in Request : Leaving(s)' => Leaving(s) /\ req'[s] = req[s]
      /\ \A s \in Request : Leaving(s) => Leaving(s)' /\ req'[s] = req[s]
  BY <1>1, AskedType, Beginning DEF AskAssign
<1>3. /\ crossed' \in [Request -> SUBSET User] /\ crossed'[r] = desired \ Readers(db)
      /\ \A s \in Request : s # r => crossed'[s] = crossed[s]
  BY <1>1 DEF IInv, Typed
<1>4. Typed' /\ LockKept'
  BY <1>2, <1>3, LockStays DEF IInv, Typed
<1>5. RowsKept' /\ OwnerIsNoMember' /\ InvitersCanWriteButByEmail'
  BY <1>2 DEF IInv, RowsKept, OwnerIsNoMember, InvitersCanWriteButByEmail, Readers,
         Editors, Empty
<1>6. SpentKept'
  BY <1>2 DEF IInv, SpentKept, WithdrawnNeverGrants, Spent, Pending
<1>7. desired \subseteq db.accounts
  BY <1>1 DEF IInv, RowsKept
<1>8. db' = db /\ Readers(db') = Readers(db)
  BY <1>2 DEF Readers
<1>9. AssignKept'
  <2>1. req'[r].arg = desired
    BY <1>2 DEF Asks
  <2>2. \A s \in Request : s # r /\ Holds(s, "assign")' => Holds(s, "assign") /\ req'[s] = req[s]
    BY <1>2 DEF Holds
  <2>3. desired \subseteq Readers(db) \cup crossed'[r]
    BY <1>3
  <2> QED BY <1>3, <1>7, <1>8, <2>1, <2>2, <2>3 DEF IInv, AssignKept
<1> QED BY <1>4, <1>5, <1>6, <1>8, <1>9 DEF IInv, Followed

LEMMA AskKeeps ==
    ASSUME IInv, NEW r \in Request, NEW u \in User, Ask(r, u)
    PROVE  IInv' /\ Followed
<1>0. \A i \in db.invites : i \in Invitation
  BY DEF IInv, Typed, Db
<1>1. CASE AskMembers(r, u)
  BY <1>1, AskedType, QuietAsk DEF AskMembers
<1>2. CASE AskAboutInvitation(r, u)
  BY <1>0, <1>2, AskedType, QuietAsk DEF AskAboutInvitation
<1>3. CASE AskTransfer(r, u)
  BY <1>3, AskedType, QuietAsk DEF AskTransfer
<1>4. CASE AskDelete(r, u)
  BY <1>4, AskedType, QuietAsk DEF AskDelete
<1>5. CASE AskAccept(r, u)
  BY <1>0, <1>5, AskedType, QuietAsk DEF AskAccept
<1>6. CASE AskSignup(r, u)
  <2> DEFINE rows == {i \in db.invites : i.to = u /\ i.live}
  <2>1. rows \in SUBSET Invitation
    BY <1>0
  <2>2. Asks("signup", u, rows) \in Requests
    BY <2>1, AskedType
  <2> QED BY <1>6, <2>2, QuietAsk DEF AskSignup
<1>7. CASE AskAssign(r, u)
  BY <1>7, AskAssignKeeps
<1>8. CASE AskLeave(r, u)
  <2> DEFINE seen == [owned |-> Owned(u), shared |-> Shared(db)]
  <2>1. Owned(u) \in BOOLEAN /\ Shared(db) \in BOOLEAN
    BY DEF IInv, Typed, Db, Owned, Shared
  <2>2. Asks("leave", u, seen) \in Requests
    BY <2>1, AskedType
  <2> QED BY <1>8, <2>2, QuietAsk DEF AskLeave
<1> QED BY <1>1, <1>2, <1>3, <1>4, <1>5, <1>6, <1>7, <1>8 DEF Ask

-----------------------------------------------------------------------------
(* One operation after the lock at a time.                                 *)
\* A request that held nothing over a step ends.
LEMMA EndedQuietly ==
    ASSUME Typed, NEW r \in Request, ~Leaving(r), Answer(r)
    PROVE  /\ req' \in [Request -> Requests]
           /\ \A s \in Request : Holds(s, "assign")' => Holds(s, "assign") /\ req'[s] = req[s]
           /\ \A s \in Request : Leaving(s)' => Leaving(s) /\ req'[s] = req[s]
           /\ \A s \in Request : Leaving(s) => Leaving(s)' /\ req'[s] = req[s]
  BY Answered, Ended

\* Ids that were pending may be withdrawn, and new ones follow the last.
LEMMA SpentStays ==
    ASSUME SpentKept, Typed, db'.minted \in Nat, db.minted \leq db'.minted,
           \A i \in db.invites : i.id \leq db.minted,
           granted' = granted, withdrawn' \subseteq withdrawn \cup Pending,
           \A n \in Pending' : n \in Nat /\ (n \in Pending \ withdrawn' \/ n > db.minted)
    PROVE  SpentKept'
<1>1. db.minted \in Nat /\ \A n \in Spent : n \in Nat
  BY MembershipAssumption DEF Typed, Db, Spent, Id
<1>2. \A n \in Pending : n \in Nat /\ n \leq db.minted
  BY DEF Typed, Db, Pending, Invitation, Id
<1>3. WithdrawnNeverGrants'
  <2>1. {g[1] : g \in granted} \cap Pending = {}
    BY DEF SpentKept, Spent
  <2> QED BY <2>1 DEF SpentKept, WithdrawnNeverGrants
<1>4. ASSUME NEW n \in Spent' PROVE n \leq db'.minted /\ n \notin Pending'
  <2>1. n \in Spent \/ n \in withdrawn' \cap Pending
    BY DEF Spent
  <2>2. n \leq db.minted
    BY <1>2, <2>1 DEF SpentKept
  <2>3. n \notin Pending'
    BY <1>1, <1>2, <2>1, <2>2 DEF SpentKept
  <2> QED BY <1>1, <1>2, <2>1, <2>2, <2>3
<1> QED BY <1>3, <1>4 DEF SpentKept

LEMMA RefuseKeeps ==
    ASSUME IInv, NEW r \in Request, ~Leaving(r), Refuse(r)
    PROVE  IInv' /\ Followed
<1>1. Typed /\ Answer(r) /\ UNCHANGED <<db, lock, begun, history>> /\ begun \in 0 .. MaxRequests
  BY DEF IInv, Typed, Refuse
<1> QED BY <1>1, EndedQuietly, QuietKeeps

\* A change of members: who loses access loses the assignments, or is recorded
\* for a request that is about to assign them.
LEMMA SettleKeeps ==
    ASSUME IInv, NEW r \in Request, ~Leaving(r), Answer(r), UNCHANGED <<lock, begun>>, db.on,
           NEW d \in Db, NEW gone \in SUBSET User, SettleMembers(d, gone),
           d.member[db.owner] = NoRow, Readers(db) \ Readers(d) \subseteq gone,
           Readers(d) \subseteq db.accounts,
           d.assigned \subseteq db.assigned,
           d.assigned \cap (Readers(db) \ Readers(d)) = {},
           d.invites = db.invites, d.on = db.on, d.owner = db.owner,
           d.minted = db.minted, d.accounts = db.accounts, d.closed = db.closed
    PROVE  IInv' /\ Followed
<1>1. /\ db' \in Db /\ db'.invites = {i \in db.invites : i.by \in Editors(d)}
      /\ db'.on = db.on /\ db'.owner = db.owner /\ db'.member = d.member
      /\ db'.assigned = d.assigned /\ db'.minted = db.minted
      /\ db'.accounts = db.accounts /\ db'.closed = db.closed
  BY SweptFields DEF SettleMembers
<1>2. Readers(db') = Readers(d) /\ Editors(db') = Editors(d)
  BY <1>1 DEF Readers, Editors
<1>3. /\ withdrawn' = withdrawn \cup (Pending \ Pending') /\ demoted' = {}
      /\ crossed' = [s \in Request |-> IF Holds(s, "assign")
                                      THEN crossed[s] \cup (gone \cap req[s].arg) ELSE {}]
      /\ granted' = granted
  BY DEF SettleMembers, Pending
<1>4. Pending' \subseteq Pending
  BY <1>1 DEF Pending
<1>5. Typed'
  <2>1. Pending \subseteq Id
    BY DEF IInv, Typed, Db, Pending, Invitation
  <2>2. crossed' \in [Request -> SUBSET User]
    BY <1>3 DEF IInv, Typed
  <2>3. withdrawn' \in SUBSET Id /\ demoted' \in SUBSET User
    BY <1>3, <2>1 DEF IInv, Typed
  <2> QED BY <1>1, <1>3, <2>2, <2>3, Answered DEF IInv, Typed
<1>6. RowsKept'
  BY <1>1, <1>2 DEF IInv, RowsKept
<1>7. OwnerIsNoMember'
  BY <1>1 DEF OwnerIsNoMember
<1>8. SpentKept'
  <2>1. \A n \in Pending' : n \in Nat
    BY <1>4 DEF IInv, Typed, Db, Pending, Invitation, Id
  <2>2. db.minted \in Nat
    BY MembershipAssumption DEF IInv, Typed, Db
  <2>3. Pending' \cap withdrawn = {}
    BY <1>4 DEF IInv, SpentKept, Spent
  <2> QED BY <1>1, <1>3, <1>4, <2>1, <2>2, <2>3, SpentStays DEF IInv, RowsKept
<1>9. InvitersCanWriteButByEmail'
  BY <1>1, <1>2 DEF InvitersCanWriteButByEmail
<1>10. AssignKept'
  <2>1. \A s \in Request : Holds(s, "assign") /\ db.on =>
           req[s].arg \cap db.accounts \subseteq Readers(db) \cup crossed[s]
    BY DEF IInv, AssignKept
  <2>2. \A s \in Request : Holds(s, "assign") =>
           crossed[s] \cup (gone \cap req[s].arg) = crossed'[s]
    BY <1>3
  <2>3. \A s \in Request : Holds(s, "assign") /\ db'.on =>
           req[s].arg \cap db'.accounts \subseteq Readers(db') \cup crossed'[s]
    BY <1>1, <1>2, <2>1, <2>2
  <2> QED BY <1>1, <2>3, AssignStays, EndedQuietly DEF IInv
\* Who loses access loses the assignments in the same step.
<1>12. Followed
  BY <1>1, <1>2 DEF Followed
<1>11. LockKept'
  BY <1>1, LockStays, EndedQuietly DEF IInv
<1> QED BY <1>5, <1>6, <1>7, <1>8, <1>9, <1>10, <1>11, <1>12 DEF IInv

LEMMA SetMembersKeeps ==
    ASSUME IInv, NEW r \in Request, SetMembers(r)
    PROVE  IInv' /\ Followed
<1> DEFINE u == req[r].by
           b == req[r].arg
           next == Replaced(db, b)
<1>1. u \in User /\ b \in Body /\ ~Leaving(r)
  BY ArgTypes DEF IInv, Typed, SetMembers, Holds, Leaving
<1>2. /\ db \in Db /\ db.owner \in User /\ db.member[db.owner] = NoRow
      /\ db.on => Readers(db) \subseteq db.accounts
  BY DEF IInv, Typed, Db, RowsKept, OwnerIsNoMember
<1>3. CASE Refuse(r)
  BY <1>1, <1>3, RefuseKeeps
<1>4. CASE /\ db.on /\ SettleMembers(Removed(db, {u}), {u})
           /\ Answer(r) /\ UNCHANGED <<lock, begun>>
  <2> DEFINE d == Removed(db, {u})
  <2>1. /\ d \in Db /\ d.member = [v \in User |-> IF v = u THEN NoRow ELSE db.member[v]]
        /\ d.assigned = db.assigned \ {u} /\ d.invites = db.invites /\ d.on = db.on
        /\ d.owner = db.owner /\ d.minted = db.minted /\ d.accounts = db.accounts
        /\ d.closed = db.closed
    BY <1>1, <1>2, RemovedFields
  <2> HIDE DEF d
  <2>2. d.member[db.owner] = NoRow /\ Readers(d) \subseteq Readers(db)
        /\ Readers(db) \ Readers(d) \subseteq {u}
    BY <1>2, <2>1 DEF Readers
  <2>3. {u} \in SUBSET User /\ SettleMembers(d, {u})
    BY <1>1, <1>4 DEF d
  <2> QED BY <1>1, <1>2, <1>4, <2>1, <2>2, <2>3, SettleKeeps
<1>5. CASE /\ db.on /\ Allowed(db, b) /\ SettleMembers(next, Readers(db) \ Readers(next))
           /\ Answer(r) /\ UNCHANGED <<lock, begun>>
  <2>1. /\ next \in Db /\ next.member[db.owner] = NoRow
        /\ \A v \in User : next.member[v] # NoRow => db.member[v] # NoRow \/ v \in db.accounts
        /\ \A v \in User : v \in db.assigned /\ db.member[v] # NoRow /\ next.member[v] = NoRow
                           => v \notin next.assigned
        /\ next.assigned \subseteq db.assigned
        /\ next.invites = db.invites /\ next.on = db.on /\ next.owner = db.owner
        /\ next.minted = db.minted /\ next.accounts = db.accounts /\ next.closed = db.closed
    BY <1>1, <1>2, <1>5, ReplacedFields
  <2>2. Readers(next) \subseteq db.accounts /\ Readers(db) \ Readers(next) \in SUBSET User
    BY <1>2, <1>5, <2>1 DEF Readers
  <2>3. next.assigned \cap (Readers(db) \ Readers(next)) = {}
    BY <2>1 DEF Readers
  <2> HIDE DEF next
  <2> QED BY <1>1, <1>2, <1>5, <2>1, <2>2, <2>3, SettleKeeps
<1> QED BY <1>3, <1>4, <1>5 DEF SetMembers

\* A step that changes the invitations only: each is one of before, with its
\* address, its id and its inviter, or a new one with a new id.
LEMMA InvitationsKeep ==
    ASSUME IInv, lock' = lock, begun' \in 0 .. MaxRequests, req' \in [Request -> Requests],
           \A s \in Request : Holds(s, "assign")' => Holds(s, "assign") /\ req'[s] = req[s],
           \A s \in Request : Leaving(s)' => Leaving(s) /\ req'[s] = req[s],
           \A s \in Request : Leaving(s) => Leaving(s)' /\ req'[s] = req[s],
           NEW S \in SUBSET Invitation, NEW n \in 0 .. MaxInvites, db.minted \leq n,
           db' = [db EXCEPT !.invites = S, !.minted = n], db.on \/ S = {},
           UNCHANGED <<granted, demoted, crossed>>,
           withdrawn' \subseteq withdrawn \cup (Pending \ {i.id : i \in S}),
           \A i \in S : \/ \E j \in db.invites : j.id = i.id /\ j.by = i.by
                        \/ i.id = n /\ n > db.minted /\ i.by \in Editors(db),
           \A i, j \in S : i.to = j.to \/ i.id = j.id => i = j
    PROVE  IInv' /\ Followed
<1>1. /\ db' \in Db /\ db'.invites = S /\ db'.minted = n
      /\ db'.on = db.on /\ db'.owner = db.owner /\ db'.member = db.member
      /\ db'.assigned = db.assigned /\ db'.accounts = db.accounts /\ db'.closed = db.closed
  BY DEF IInv, Typed, Db
<1>2. Readers(db') = Readers(db) /\ Editors(db') = Editors(db)
  BY <1>1 DEF Readers, Editors
<1>3. db.minted \in Nat /\ n \in Nat /\ Pending \subseteq Id /\ Id \subseteq Nat
  BY MembershipAssumption DEF IInv, Typed, Db, Pending, Invitation, Id
<1>4. \A i \in db.invites : i.id \in Nat /\ i.id \leq db.minted
  BY DEF IInv, Typed, Db, RowsKept, Invitation, Id
<1>5. \A i \in S : i.id \in Nat
  BY DEF Invitation, Id
<1>6. Pending' = {i.id : i \in S}
  BY <1>1 DEF Pending
<1>7. Typed'
  <2>1. withdrawn' \in SUBSET Id
    BY <1>3 DEF IInv, Typed
  <2> QED BY <1>1, <2>1 DEF IInv, Typed
<1>8. RowsKept'
  <2>1. \A i \in S : i.id \leq n
    BY <1>3, <1>4, <1>5
  <2> QED BY <1>1, <1>2, <2>1 DEF IInv, RowsKept, Empty
<1>9. OwnerIsNoMember'
  BY <1>1 DEF IInv, OwnerIsNoMember
<1>10. SpentKept'
  <2>1. Pending \cap withdrawn = {} /\ \A k \in withdrawn : k \leq db.minted
    BY DEF IInv, SpentKept, Spent
  <2>2. ASSUME NEW k \in Pending'
        PROVE  k \in Nat /\ (k \in Pending \ withdrawn' \/ k > db.minted)
    <3>1. PICK i \in S : k = i.id
      BY <1>6
    <3>2. k \in Pending \/ k > db.minted
      BY <3>1 DEF Pending
    <3> QED BY <1>5, <1>6, <2>1, <3>1, <3>2
  <2>3. withdrawn' \subseteq withdrawn \cup Pending
    OBVIOUS
  <2> HIDE DEF Pending
  <2> QED BY <1>1, <1>3, <1>4, <2>2, <2>3, SpentStays DEF IInv
<1>11. InvitersCanWriteButByEmail'
  <2>1. \A i \in db.invites : i.by \in Editors(db) \cup demoted
    BY DEF IInv, InvitersCanWriteButByEmail
  <2> QED BY <1>1, <1>2, <2>1 DEF InvitersCanWriteButByEmail
<1>12. AssignKept' /\ Followed
  <2>1. Followed
    BY <1>1, <1>2 DEF Followed
  <2>2. \A s \in Request : Holds(s, "assign") /\ db'.on =>
           req[s].arg \cap db'.accounts \subseteq Readers(db') \cup crossed'[s]
    BY <1>1, <1>2 DEF IInv, AssignKept
  <2> QED BY <1>1, <2>1, <2>2, AssignStays DEF IInv
<1>13. LockKept'
  BY <1>1, LockStays DEF IInv
<1> QED BY <1>7, <1>8, <1>9, <1>10, <1>11, <1>12, <1>13 DEF IInv

LEMMA RevokeKeeps ==
    ASSUME IInv, NEW r \in Request, Revoke(r)
    PROVE  IInv' /\ Followed
<1> DEFINE gone == {i \in db.invites : i.id = req[r].arg.id}
           S == db.invites \ gone
<1>1. ~Leaving(r) /\ Answer(r) /\ Typed
  BY DEF IInv, Revoke, Holds, Leaving
<1>2. /\ S \in SUBSET Invitation /\ db.minted \in 0 .. MaxInvites /\ db.minted \leq db.minted
      /\ begun \in 0 .. MaxRequests
  BY MembershipAssumption DEF IInv, Typed, Db
<1>3. db' = [db EXCEPT !.invites = S, !.minted = db.minted]
  BY DEF Revoke, IInv, Typed, Db
<1>4. {i.id : i \in gone} \subseteq Pending \ {i.id : i \in S}
  BY DEF Pending
<1>5. (db.on \/ S = {}) /\ \A i, j \in S : i.to = j.to \/ i.id = j.id => i = j
  BY DEF IInv, RowsKept
<1>6. /\ withdrawn' = withdrawn \cup {i.id : i \in gone}
      /\ UNCHANGED <<lock, begun, granted, demoted, crossed>>
  BY DEF Revoke
<1>7. \A i \in S : \E j \in db.invites : j.id = i.id /\ j.by = i.by
  OBVIOUS
<1> HIDE DEF gone, S
<1> QED BY <1>1, <1>2, <1>3, <1>4, <1>5, <1>6, <1>7, EndedQuietly, InvitationsKeep

LEMMA ResendKeeps ==
    ASSUME IInv, NEW r \in Request, Resend(r)
    PROVE  IInv' /\ Followed
<1> DEFINE revived(i) == IF i.id = req[r].arg.id THEN [i EXCEPT !.live = TRUE] ELSE i
           S == {revived(i) : i \in db.invites}
<1>1. ~Leaving(r) /\ Answer(r) /\ Typed
  BY DEF IInv, Resend, Holds, Leaving
<1>2. \A i \in Invitation : /\ revived(i) \in Invitation /\ revived(i).id = i.id
                             /\ revived(i).by = i.by /\ revived(i).to = i.to
  BY DEF Invitation
<1>3. db.minted \in 0 .. MaxInvites /\ db.minted \leq db.minted /\ db.invites \subseteq Invitation
      /\ begun \in 0 .. MaxRequests
  BY MembershipAssumption DEF IInv, Typed, Db
<1>4. db' = [db EXCEPT !.invites = S, !.minted = db.minted]
  BY DEF Resend, IInv, Typed, Db
<1>5. UNCHANGED <<lock, begun, history>>
  BY DEF Resend
<1>6. db.on \/ S = {}
  BY DEF IInv, RowsKept
<1> HIDE DEF revived
<1>7. S \in SUBSET Invitation
  BY <1>2, <1>3
<1>8. \A i \in S : \E j \in db.invites : j.id = i.id /\ j.by = i.by
  BY <1>2, <1>3
<1>9. \A i, j \in S : i.to = j.to \/ i.id = j.id => i = j
  BY <1>2, <1>3 DEF IInv, RowsKept
<1> HIDE DEF S
<1> QED BY <1>1, <1>3, <1>4, <1>5, <1>6, <1>7, <1>8, <1>9, EndedQuietly, InvitationsKeep DEF history

\* A step that leaves the requests alone.
LEMMA SameRequests ==
    ASSUME req' = req
    PROVE  /\ \A s \in Request : Holds(s, "assign")' => Holds(s, "assign") /\ req'[s] = req[s]
           /\ \A s \in Request : Leaving(s)' => Leaving(s) /\ req'[s] = req[s]
           /\ \A s \in Request : Leaving(s) => Leaving(s)' /\ req'[s] = req[s]
  BY DEF Holds, Leaving

\* Replacing one invitation by itself with another role or deadline.
LEMMA OneChanged ==
    ASSUME IInv, UNCHANGED <<req, lock, history>>, begun' \in 0 .. MaxRequests,
           NEW i \in db.invites, NEW k \in Invitation, k.id = i.id, k.to = i.to, k.by = i.by,
           db' = [db EXCEPT !.invites = (@ \ {i}) \cup {k}]
    PROVE  IInv' /\ Followed
<1> DEFINE S == (db.invites \ {i}) \cup {k}
<1>1. /\ S \in SUBSET Invitation /\ db.minted \in 0 .. MaxInvites /\ db.minted \leq db.minted
      /\ req \in [Request -> Requests]
  BY MembershipAssumption DEF IInv, Typed, Db
<1>2. db' = [db EXCEPT !.invites = S, !.minted = db.minted]
  BY DEF IInv, Typed, Db
<1>3. (db.on \/ S = {}) /\ \A j, l \in S : j.to = l.to \/ j.id = l.id => j = l
  BY DEF IInv, RowsKept
<1>4. \A l \in S : \E j \in db.invites : j.id = l.id /\ j.by = l.by
  OBVIOUS
<1> HIDE DEF S
<1> QED BY <1>1, <1>2, <1>3, <1>4, SameRequests, InvitationsKeep DEF history

LEMMA ExpireKeeps ==
    ASSUME IInv, Expire
    PROVE  IInv' /\ Followed
<1>1. PICK i \in db.invites : db' = [db EXCEPT !.invites = (@ \ {i}) \cup {[i EXCEPT !.live = FALSE]}]
  BY DEF Expire
<1> DEFINE k == [i EXCEPT !.live = FALSE]
<1>2. k \in Invitation /\ k.id = i.id /\ k.to = i.to /\ k.by = i.by
  BY DEF IInv, Typed, Db, Invitation
<1>3. UNCHANGED <<req, lock, history>> /\ begun' \in 0 .. MaxRequests
  BY DEF Expire, IInv, Typed
<1>4. db' = [db EXCEPT !.invites = (@ \ {i}) \cup {k}]
  BY <1>1
<1> HIDE DEF k
<1> QED BY <1>2, <1>3, <1>4, OneChanged

\* An invite of an account makes or changes a member and drops the invitations
\* of the address; an editor it demotes is recorded.
LEMMA InviteExistingKeeps ==
    ASSUME IInv, NEW u \in User, NEW to \in User, NEW role \in Role \cup {NoRow},
           InviteExisting(u, to, role), db.on,
           begun' \in 0 .. MaxRequests, UNCHANGED <<req, lock>>
    PROVE  IInv' /\ Followed
<1> DEFINE was == db.member[to]
           now == IF was = NoRow THEN IF role = NoRow THEN "editor" ELSE role
                  ELSE IF role = NoRow THEN was ELSE role
           row == IF to = db.owner THEN was ELSE now
           dropped == {i \in db.invites : i.to = to}
           ids == {i.id : i \in dropped}
<1>1. now \in Role /\ row \in Role \cup {NoRow}
  BY EmptyType DEF IInv, Typed, Db, Role
<1>2. /\ to \in db.accounts
      /\ withdrawn' = withdrawn \cup ids
      /\ demoted' = IF db.owner # to /\ was = "editor" /\ now = "viewer"
                     THEN demoted \cup {to} ELSE demoted \ Editors(db')
      /\ UNCHANGED <<granted, crossed>>
  BY DEF InviteExisting
<1>3. db' = [db EXCEPT !.invites = @ \ dropped, !.member = [@ EXCEPT ![to] = row]]
  BY DEF InviteExisting, IInv, Typed, Db
<1> HIDE DEF now, row
<1>4. /\ db' \in Db /\ db'.invites = db.invites \ dropped /\ db'.minted = db.minted
      /\ db'.on = db.on /\ db'.owner = db.owner
      /\ db'.member = [db.member EXCEPT ![to] = row]
      /\ db'.assigned = db.assigned /\ db'.accounts = db.accounts /\ db'.closed = db.closed
  BY <1>1, <1>3 DEF IInv, Typed, Db
<1>5. /\ \A v \in User : v # to => db'.member[v] = db.member[v]
      /\ db'.member[to] = row /\ db.member \in [User -> Role \cup {NoRow}]
      /\ db.owner \in User
  BY <1>4 DEF IInv, Typed, Db
<1>6. Readers(db) \subseteq Readers(db') /\ Readers(db') \subseteq Readers(db) \cup {to}
  BY <1>1, <1>4, <1>5, EmptyType DEF Readers, row
<1>7. /\ db.minted \in Nat /\ Pending \subseteq Id /\ Id \subseteq Nat
      /\ ids \subseteq Pending
  BY MembershipAssumption DEF IInv, Typed, Db, Pending, Invitation, Id
<1>8. Pending' \subseteq Pending \ ids
  BY <1>4 DEF Pending, IInv, RowsKept
<1>9. Typed'
  <2>1. demoted' \in SUBSET User /\ withdrawn' \in SUBSET Id
    BY <1>2, <1>7 DEF IInv, Typed
  <2> QED BY <1>2, <1>4, <2>1 DEF IInv, Typed
<1>10. RowsKept'
  BY <1>2, <1>4, <1>6 DEF IInv, RowsKept
<1>11. OwnerIsNoMember'
  BY <1>4, <1>5 DEF IInv, OwnerIsNoMember, row
<1>12. SpentKept'
  <2>1. Pending \cap withdrawn = {}
    BY DEF IInv, SpentKept, Spent
  <2>2. \A n \in Pending' : n \in Nat /\ n \in Pending \ withdrawn'
    BY <1>2, <1>7, <1>8, <2>1
  <2>3. withdrawn' \subseteq withdrawn \cup Pending
    BY <1>2, <1>7
  <2> HIDE DEF ids
  <2> QED BY <1>2, <1>4, <1>7, <2>2, <2>3, SpentStays DEF IInv, RowsKept
<1>13. InvitersCanWriteButByEmail'
  <2>1. \A i \in db.invites : i.by \in Editors(db) \cup demoted
    BY DEF IInv, InvitersCanWriteButByEmail
  <2>2. CASE db.owner # to /\ was = "editor" /\ now = "viewer"
    <3>1. Editors(db) \subseteq Editors(db') \cup {to}
      BY <1>4, <1>5 DEF Editors
    <3> QED BY <1>2, <1>4, <2>1, <2>2, <3>1 DEF InvitersCanWriteButByEmail
  <2>3. CASE ~(db.owner # to /\ was = "editor" /\ now = "viewer")
    <3>1. to \in Editors(db) => to = db.owner \/ row = "editor"
      BY <1>1, <2>3 DEF Editors, row, Role
    <3>2. Editors(db) \subseteq Editors(db')
      BY <1>4, <1>5, <3>1 DEF Editors
    <3>3. demoted' = demoted \ Editors(db')
      BY <1>2, <2>3
    <3> QED BY <1>4, <2>1, <3>2, <3>3 DEF InvitersCanWriteButByEmail
  <2> QED BY <2>2, <2>3
<1>14. AssignKept' /\ Followed
  <2>1. Followed
    BY <1>4, <1>6 DEF Followed
  <2>2. \A s \in Request : Holds(s, "assign") /\ db'.on =>
           req[s].arg \cap db'.accounts \subseteq Readers(db') \cup crossed'[s]
    BY <1>2, <1>4, <1>6 DEF IInv, AssignKept
  <2> QED BY <1>4, <2>1, <2>2, AssignStays, SameRequests DEF IInv
<1>15. LockKept'
  BY <1>4, LockStays, SameRequests DEF IInv
<1> QED BY <1>9, <1>10, <1>11, <1>12, <1>13, <1>14, <1>15 DEF IInv

LEMMA InviteAddressKeeps ==
    ASSUME IInv, NEW u \in User, NEW to \in User, NEW role \in Role \cup {NoRow},
           InviteAddress(u, to, role), CanWrite(u),
           begun' \in 0 .. MaxRequests, UNCHANGED <<req, lock>>
    PROVE  IInv' /\ Followed
<1>1. UNCHANGED <<req, lock, history>>
  BY DEF InviteAddress
<1>2. CASE \E i \in db.invites :
             /\ i.to = to
             /\ db' = [db EXCEPT !.invites = (@ \ {i}) \cup
                   {[i EXCEPT !.live = TRUE, !.role = IF role = NoRow THEN @ ELSE role]}]
  <2>1. PICK i \in db.invites : db' = [db EXCEPT !.invites = (@ \ {i}) \cup
                   {[i EXCEPT !.live = TRUE, !.role = IF role = NoRow THEN @ ELSE role]}]
    BY <1>2
  <2> DEFINE k == [i EXCEPT !.live = TRUE, !.role = IF role = NoRow THEN @ ELSE role]
  <2>2. k \in Invitation /\ k.id = i.id /\ k.to = i.to /\ k.by = i.by
    BY DEF IInv, Typed, Db, Invitation
  <2>3. db' = [db EXCEPT !.invites = (@ \ {i}) \cup {k}]
    BY <2>1
  <2> HIDE DEF k
  <2> QED BY <1>1, <2>2, <2>3, OneChanged
<1>3. CASE /\ \A i \in db.invites : i.to # to
           /\ db.minted < MaxInvites
           /\ db' = [db EXCEPT !.minted = @ + 1, !.invites = @ \cup
                 {[id |-> db.minted + 1, to |-> to, by |-> u, live |-> TRUE,
                   role |-> IF role = NoRow THEN "editor" ELSE role]}]
  <2> DEFINE n == db.minted + 1
             k == [id |-> n, to |-> to, by |-> u, live |-> TRUE,
                   role |-> IF role = NoRow THEN "editor" ELSE role]
             S == db.invites \cup {k}
  <2>1. n \in 1 .. MaxInvites /\ n \in 0 .. MaxInvites /\ db.minted \leq n /\ n > db.minted
    BY <1>3, MembershipAssumption DEF IInv, Typed, Db
  <2>2. k \in Invitation /\ k.id = n /\ k.to = to /\ k.by = u
    BY <2>1 DEF Invitation, Id, Role
  <2>3. db' = [db EXCEPT !.invites = S, !.minted = n]
    BY <1>3 DEF IInv, Typed, Db
  <2>4. \A i \in db.invites : i.id \in Nat /\ i.id \leq db.minted
    BY DEF IInv, Typed, Db, RowsKept, Invitation, Id
  <2>5. db.on /\ u \in Editors(db) /\ db.invites \subseteq Invitation
        /\ req \in [Request -> Requests] /\ db.minted \in Nat
    BY MembershipAssumption DEF CanWrite, IInv, Typed, Db
  <2> HIDE DEF k, n
  <2>6. \A i, j \in S : i.to = j.to \/ i.id = j.id => i = j
    <3>1. \A i \in db.invites : i.id # n /\ i.to # to
      BY <1>3, <2>1, <2>4, <2>5
    <3> QED BY <2>2, <3>1 DEF IInv, RowsKept
  <2>7. ASSUME NEW i \in S
        PROVE  \/ \E j \in db.invites : j.id = i.id /\ j.by = i.by
               \/ i.id = n /\ n > db.minted /\ i.by \in Editors(db)
    <3>1. CASE i \in db.invites
      BY <3>1
    <3>2. CASE i = k
      BY <2>1, <2>2, <2>5, <3>2
    <3> QED BY <3>1, <3>2
  <2>8. S \in SUBSET Invitation
    BY <2>2, <2>5
  <2> HIDE DEF S
  <2>9. /\ withdrawn' \subseteq withdrawn \cup (Pending \ {i.id : i \in S})
        /\ UNCHANGED <<granted, demoted, crossed>> /\ req' \in [Request -> Requests]
    BY <1>1, <2>5 DEF history
  <2>10. /\ \A s \in Request : Holds(s, "assign")' => Holds(s, "assign") /\ req'[s] = req[s]
         /\ \A s \in Request : Leaving(s)' => Leaving(s) /\ req'[s] = req[s]
         /\ \A s \in Request : Leaving(s) => Leaving(s)' /\ req'[s] = req[s]
    BY <1>1, SameRequests
  <2> QED BY <2>1, <2>3, <2>5, <2>6, <2>7, <2>8, <2>9, <2>10, InvitationsKeep
<1> QED BY <1>2, <1>3 DEF InviteAddress

LEMMA InviteByEmailKeeps ==
    ASSUME IInv, NEW u \in User, NEW to \in User, InviteByEmail(u, to)
    PROVE  IInv' /\ Followed
<1>1. begun' \in 0 .. MaxRequests /\ UNCHANGED <<req, lock>> /\ CanWrite(u) /\ db.on
  BY MembershipAssumption DEF IInv, Typed, InviteByEmail, CanWrite
<1>2. PICK role \in Role \cup {NoRow} : InviteExisting(u, to, role) \/ InviteAddress(u, to, role)
  BY DEF InviteByEmail
<1> QED BY <1>1, <1>2, InviteExistingKeeps, InviteAddressKeeps

\* A claim honors what is pending still, for somebody who had no access.
LEMMA ClaimKeeps ==
    ASSUME IInv, NEW r \in Request, ~Leaving(r), Answer(r), UNCHANGED <<lock, begun>>,
           NEW u \in User, NEW rows \in SUBSET Invitation, NEW accounts \in SUBSET User,
           accounts = db.accounts \cup {u}, u \notin db.closed, Claim(u, rows, accounts)
    PROVE  IInv' /\ Followed
<1> DEFINE won == Consumed(db, Grantable(db, u, rows))
           row == IF won = {} THEN db.member[u] ELSE (CHOOSE i \in won : TRUE).role
           S == {i \in db.invites : i.id \notin {j.id : j \in won}}
<1>1. /\ won \subseteq rows /\ (won # {} => db.on /\ u \notin Readers(db))
      /\ \A i \in won : i.id \in Pending
  BY DEF Consumed, Grantable, Pending
<1>2. /\ db' = [db EXCEPT !.accounts = accounts, !.invites = S, !.member[u] = row]
      /\ granted' = granted \cup {<<i.id, u>> : i \in won}
      /\ UNCHANGED <<withdrawn, demoted, crossed>>
  BY DEF Claim, IInv, Typed, Db
<1>3. \A i \in won : i.role \in Role /\ i.id \in Id
  BY <1>1 DEF Invitation
<1>4. /\ db \in Db /\ db.owner \in User /\ db.member \in [User -> Role \cup {NoRow}]
      /\ db.minted \in Nat
  BY MembershipAssumption DEF IInv, Typed, Db
<1>5. row \in Role \cup {NoRow} /\ (won # {} => row \in Role)
  <2>1. won # {} => (CHOOSE i \in won : TRUE) \in won
    OBVIOUS
  <2> HIDE DEF won
  <2> QED BY <1>3, <1>4, <2>1
<1> HIDE DEF won
<1>6. /\ db' \in Db /\ db'.invites = S /\ db'.accounts = accounts
      /\ db'.member = [db.member EXCEPT ![u] = row]
      /\ db'.on = db.on /\ db'.owner = db.owner /\ db'.minted = db.minted
      /\ db'.assigned = db.assigned /\ db'.closed = db.closed
  <2>1. S \in SUBSET Invitation
    BY DEF IInv, Typed, Db
  <2> HIDE DEF S, row
  <2> QED BY <1>2, <1>4, <1>5, <2>1 DEF Db
<1>7. db'.member[u] = row /\ \A v \in User : v # u => db'.member[v] = db.member[v]
  BY <1>4, <1>6
<1>8. won = {} => db'.member = db.member
  BY <1>4, <1>6
<1>9. won # {} => db.owner # u /\ db.member[u] = NoRow
  BY <1>1 DEF Readers
<1>10. /\ Readers(db) \subseteq Readers(db') /\ Readers(db') \subseteq Readers(db) \cup {u}
       /\ Editors(db) \subseteq Editors(db')
  <2>1. CASE won = {}
    BY <1>6, <1>8, <2>1 DEF Readers, Editors
  <2>2. CASE won # {}
    <3>1. \A v \in User : db.member[v] # NoRow => db'.member[v] = db.member[v]
      BY <1>7, <1>9, <2>2
    <3>2. NoRow # "editor"
      BY DEF NoRow
    <3>3. Readers(db) \subseteq Readers(db') /\ Editors(db) \subseteq Editors(db')
      BY <1>6, <3>1, <3>2 DEF Readers, Editors
    <3>4. Readers(db') \subseteq Readers(db) \cup {u}
      BY <1>6, <1>7 DEF Readers
    <3> QED BY <3>3, <3>4
  <2> QED BY <2>1, <2>2
<1> HIDE DEF row
<1>11. Typed'
  <2>1. granted' \in SUBSET (Id \X User)
    BY <1>2, <1>3 DEF IInv, Typed
  <2> QED BY <1>2, <1>6, <2>1, Answered DEF IInv, Typed
<1>12. RowsKept'
  <2>1. db.on => Readers(db') \subseteq accounts
    BY <1>10 DEF IInv, RowsKept
  <2>2. ~db.on => S = {} /\ db'.member = Empty /\ db.assigned = {}
    BY <1>1, <1>8 DEF IInv, RowsKept
  <2> QED BY <1>6, <2>1, <2>2 DEF IInv, RowsKept, Empty
<1>13. OwnerIsNoMember'
  BY <1>4, <1>6, <1>7, <1>8, <1>9 DEF IInv, OwnerIsNoMember
<1>14. SpentKept'
  <2> DEFINE new == {i.id : i \in won}
  <2>1. new \subseteq Pending /\ Pending \cap Spent = {}
    BY <1>1 DEF IInv, SpentKept
  <2>2. \A g \in granted' : g \in granted \/ (g[1] \in new /\ g = <<g[1], u>>)
    BY <1>2
  <2>3. \A g \in granted' : g[1] \in {h[1] : h \in granted} \cup new
    BY <2>2
  <2>4. Pending' \subseteq Pending \ new
    BY <1>6 DEF Pending
  <2>5. \A n \in Pending : n \leq db.minted
    BY DEF IInv, RowsKept, Pending
  <2>6. \A g \in granted : g[1] \in Spent
    BY DEF Spent
  <2>7. withdrawn \subseteq Spent
    BY DEF Spent
  <2>8. WithdrawnNeverGrants'
    <3>1. ASSUME NEW g \in granted', NEW h \in granted', g[1] = h[1] PROVE g = h
      BY <2>1, <2>2, <2>6, <3>1 DEF IInv, SpentKept, WithdrawnNeverGrants
    <3>2. {g[1] : g \in granted'} \cap withdrawn = {}
      BY <2>1, <2>3, <2>7 DEF IInv, SpentKept, WithdrawnNeverGrants
    <3> QED BY <1>2, <3>1, <3>2 DEF WithdrawnNeverGrants
  <2>9. Spent' \subseteq Spent \cup new
    BY <1>2, <2>3 DEF Spent
  <2> HIDE DEF new
  <2> QED BY <1>6, <2>1, <2>4, <2>5, <2>8, <2>9 DEF IInv, SpentKept
<1>15. InvitersCanWriteButByEmail'
  BY <1>2, <1>6, <1>10 DEF IInv, InvitersCanWriteButByEmail
<1>16. AssignKept' /\ Followed
  <2>1. Followed
    BY <1>6, <1>10 DEF Followed
  <2>2. \A s \in Request : Holds(s, "assign") /\ db'.on =>
           req[s].arg \cap db'.accounts \subseteq Readers(db') \cup crossed'[s]
    <3> SUFFICES ASSUME NEW s \in Request, Holds(s, "assign"), db'.on
                 PROVE  req[s].arg \cap db'.accounts \subseteq Readers(db') \cup crossed'[s]
      OBVIOUS
    <3>1. /\ req[s].arg \subseteq db.accounts \cup db.closed
          /\ req[s].arg \cap db.accounts \subseteq Readers(db) \cup crossed[s]
      BY <1>6 DEF IInv, AssignKept
    <3>2. req[s].arg \cap db'.accounts \subseteq db.accounts
      BY <1>6, <3>1
    <3>3. crossed' = crossed
      BY <1>2
    <3> QED BY <1>10, <3>1, <3>2, <3>3
  <2> QED BY <1>6, <2>1, <2>2, AssignStays, EndedQuietly DEF IInv
<1>17. LockKept'
  BY <1>6, LockStays, EndedQuietly DEF IInv
<1> QED BY <1>11, <1>12, <1>13, <1>14, <1>15, <1>16, <1>17 DEF IInv

LEMMA AcceptKeeps ==
    ASSUME IInv, NEW r \in Request, Accept(r)
    PROVE  IInv' /\ Followed
<1>1. /\ req[r].by \in User /\ {req[r].arg} \in SUBSET Invitation /\ ~Leaving(r)
      /\ db.accounts \in SUBSET User
  BY ArgTypes DEF IInv, Typed, Db, Accept, Holds, Leaving
<1>2. CASE Refuse(r)
  BY <1>1, <1>2, RefuseKeeps
<1>3. CASE /\ req[r].by \in db.accounts /\ Claim(req[r].by, {req[r].arg}, db.accounts)
           /\ Answer(r) /\ UNCHANGED <<lock, begun>>
  <2>1. db.accounts = db.accounts \cup {req[r].by} /\ req[r].by \notin db.closed
    BY <1>3 DEF IInv, RowsKept
  <2> QED BY <1>1, <1>3, <2>1, ClaimKeeps
<1> QED BY <1>2, <1>3 DEF Accept

LEMMA SignupKeeps ==
    ASSUME IInv, NEW r \in Request, Signup(r)
    PROVE  IInv' /\ Followed
<1>1. /\ req[r].by \in User /\ req[r].arg \in SUBSET Invitation /\ ~Leaving(r)
      /\ db.accounts \cup {req[r].by} \in SUBSET User
  BY ArgTypes DEF IInv, Typed, Db, Signup, Holds, Leaving
<1>2. CASE Refuse(r)
  BY <1>1, <1>2, RefuseKeeps
<1>3. CASE /\ req[r].by \notin db.closed
           /\ Claim(req[r].by, req[r].arg, db.accounts \cup {req[r].by})
           /\ Answer(r) /\ UNCHANGED <<lock, begun>>
  BY <1>1, <1>3, ClaimKeeps
<1> QED BY <1>2, <1>3 DEF Signup

\* The board changes hands: the same people have access, and who could write
\* still can.
LEMMA TransferKeeps ==
    ASSUME IInv, NEW r \in Request, Transfer(r)
    PROVE  IInv' /\ Followed
<1> DEFINE u == req[r].by
           to == req[r].arg
<1>1. u \in User /\ to \in User /\ ~Leaving(r) /\ lock = {}
  BY ArgTypes DEF IInv, Typed, Transfer, Holds, Leaving, Unlocked
<1>2. CASE Refuse(r)
  BY <1>1, <1>2, RefuseKeeps
<1>3. CASE /\ db.on /\ db.owner = u /\ db.member[to] # NoRow
           /\ db' = [db EXCEPT !.owner = to, !.member[to] = NoRow, !.member[u] = "editor"]
           /\ demoted' = demoted \ {to}
           /\ Answer(r) /\ UNCHANGED <<lock, begun, withdrawn, granted, crossed>>
  <2>1. /\ db \in Db /\ db.member \in [User -> Role \cup {NoRow}] /\ db.member[u] = NoRow
        /\ to # u
    BY <1>3 DEF IInv, Typed, Db, OwnerIsNoMember
  <2> HIDE DEF u, to
  <2>2. /\ db' \in Db /\ db'.owner = to
        /\ db'.member = [[db.member EXCEPT ![to] = NoRow] EXCEPT ![u] = "editor"]
        /\ db'.invites = db.invites /\ db'.on = db.on /\ db'.minted = db.minted
        /\ db'.assigned = db.assigned /\ db'.accounts = db.accounts /\ db'.closed = db.closed
    BY <1>1, <1>3, <2>1 DEF Db, Role
  <2>3. /\ db'.member[to] = NoRow /\ db'.member[u] = "editor"
        /\ \A v \in User \ {to, u} : db'.member[v] = db.member[v]
    BY <1>1, <2>1, <2>2
  <2>4. "editor" # NoRow
    BY DEF NoRow
  <2>5. Readers(db') = Readers(db) /\ Editors(db) \cup {to} \subseteq Editors(db')
    BY <1>1, <1>3, <2>1, <2>2, <2>3, <2>4 DEF Readers, Editors
  <2>6. Typed'
    BY <1>3, <2>2, Answered DEF IInv, Typed
  <2>7. RowsKept'
    BY <1>3, <2>2, <2>5 DEF IInv, RowsKept
  <2>8. OwnerIsNoMember'
    BY <2>2, <2>3 DEF OwnerIsNoMember
  <2>9. SpentKept'
    BY <1>3, <2>2 DEF IInv, SpentKept, WithdrawnNeverGrants, Spent, Pending
  <2>10. InvitersCanWriteButByEmail'
    BY <1>3, <2>2, <2>5 DEF IInv, InvitersCanWriteButByEmail
  <2>11. AssignKept' /\ Followed
    <3>1. Followed
      BY <2>2, <2>5 DEF Followed
    <3>2. \A s \in Request : Holds(s, "assign") /\ db'.on =>
             req[s].arg \cap db'.accounts \subseteq Readers(db') \cup crossed'[s]
      BY <1>3, <2>2, <2>5 DEF IInv, AssignKept
    <3> QED BY <1>1, <1>3, <2>2, <3>1, <3>2, AssignStays, EndedQuietly DEF IInv
  <2>12. LockKept'
    BY <1>1, <1>3, LockStays, EndedQuietly DEF IInv
  <2> QED BY <2>6, <2>7, <2>8, <2>9, <2>10, <2>11, <2>12 DEF IInv
<1> QED BY <1>2, <1>3 DEF Transfer

\* A board that goes takes its rows; the lock is the caller's business.
LEMMA DropKeeps ==
    ASSUME IInv, LockKept', lock' \in SUBSET Request, begun' \in 0 .. MaxRequests,
           req' \in [Request -> Requests],
           \A s \in Request : Holds(s, "assign")' => Holds(s, "assign") /\ req'[s] = req[s],
           NEW d \in Db, DropBoard(d), d.owner = db.owner, d.minted = db.minted,
           db.accounts \cup db.closed \subseteq d.accounts \cup d.closed,
           d.accounts \cap d.closed = {},
           db.member[db.owner] = NoRow
    PROVE  IInv' /\ Followed
<1>1. /\ db' \in Db /\ ~db'.on /\ db'.member = Empty /\ db'.invites = {} /\ db'.assigned = {}
      /\ db'.owner = db.owner /\ db'.minted = db.minted
      /\ db'.accounts = d.accounts /\ db'.closed = d.closed
  BY DroppedFields DEF DropBoard
<1>2. withdrawn' = withdrawn \cup Pending /\ demoted' = {} /\ granted' = granted
      /\ crossed' \in [Request -> SUBSET User]
  BY DEF DropBoard
<1>3. Pending' = {} /\ Pending \subseteq Id /\ db.minted \in Nat
  BY <1>1, MembershipAssumption DEF Pending, IInv, Typed, Db, Invitation
<1>4. Typed'
  <2>1. withdrawn' \in SUBSET Id
    BY <1>2, <1>3 DEF IInv, Typed
  <2> QED BY <1>1, <1>2, <2>1 DEF IInv, Typed
<1>5. RowsKept'
  BY <1>1 DEF RowsKept, Empty
<1>6. OwnerIsNoMember'
  BY <1>1 DEF OwnerIsNoMember, Empty, Db
<1>7. SpentKept'
  BY <1>1, <1>2, <1>3, SpentStays DEF IInv, RowsKept
<1>8. InvitersCanWriteButByEmail' /\ Followed
  BY <1>1 DEF InvitersCanWriteButByEmail, Followed
<1>9. AssignKept'
  BY <1>1, <1>8, AssignStays DEF IInv
<1> QED BY <1>4, <1>5, <1>6, <1>7, <1>8, <1>9 DEF IInv

LEMMA DeleteKeeps ==
    ASSUME IInv, NEW r \in Request, Delete(r)
    PROVE  IInv' /\ Followed
<1>1. ~Leaving(r) /\ Typed
  BY DEF IInv, Delete, Holds, Leaving
<1>2. CASE Refuse(r)
  BY <1>1, <1>2, RefuseKeeps
<1>3. CASE DropBoard(db) /\ Answer(r) /\ lock = {} /\ UNCHANGED <<lock, begun>>
  <2>1. LockKept'
    BY <1>1, <1>3, LockStays, EndedQuietly DEF IInv
  <2>2. lock' \in SUBSET Request /\ begun' \in 0 .. MaxRequests /\ db \in Db
    BY <1>3 DEF IInv, Typed
  <2>3. db.accounts \cap db.closed = {} /\ db.member[db.owner] = NoRow
    BY DEF IInv, RowsKept, OwnerIsNoMember
  <2> QED BY <1>1, <1>3, <2>1, <2>2, <2>3, DropKeeps, EndedQuietly
<1> QED BY <1>2, <1>3 DEF Delete, Unlocked

\* Whoever of the list has no access is recorded: the list is the one way an
\* assignment without access comes about.
LEMMA AssignKeeps ==
    ASSUME IInv, NEW r \in Request, Assign(r)
    PROVE  IInv' /\ Followed
<1> DEFINE written == db.on /\ req[r].arg \subseteq db.accounts
<1>1. ~Leaving(r) /\ Holds(r, "assign") /\ Typed /\ req[r].arg \in SUBSET User
  BY ArgTypes DEF IInv, Typed, Assign, Holds, Leaving
<1>2. /\ db' = IF written THEN [db EXCEPT !.assigned = req[r].arg] ELSE db
      /\ crossed' = [crossed EXCEPT ![r] = {}]
      /\ Answer(r) /\ UNCHANGED <<lock, begun, withdrawn, granted, demoted>>
  BY DEF Assign
<1>3. /\ db' \in Db /\ db'.assigned = IF written THEN req[r].arg ELSE db.assigned
      /\ db'.on = db.on /\ db'.owner = db.owner /\ db'.member = db.member
      /\ db'.invites = db.invites /\ db'.minted = db.minted
      /\ db'.accounts = db.accounts /\ db'.closed = db.closed
  BY <1>1, <1>2 DEF Typed, Db
<1>4. /\ crossed' \in [Request -> SUBSET User]
      /\ \A s \in Request : s # r => crossed'[s] = crossed[s]
  BY <1>1, <1>2 DEF Typed
<1>5. req'[r] = Idle /\ req' \in [Request -> Requests]
  BY <1>1, <1>2, Answered
<1>6. Readers(db') = Readers(db) /\ Editors(db') = Editors(db)
  BY <1>3 DEF Readers, Editors
<1>7. Typed'
  BY <1>1, <1>2, <1>3, <1>4, <1>5 DEF Typed
<1>8. RowsKept'
  BY <1>3, <1>6 DEF IInv, RowsKept
<1>9. OwnerIsNoMember' /\ InvitersCanWriteButByEmail'
  BY <1>2, <1>3, <1>6 DEF IInv, OwnerIsNoMember, InvitersCanWriteButByEmail
<1>10. SpentKept'
  BY <1>2, <1>3 DEF IInv, SpentKept, WithdrawnNeverGrants, Spent, Pending
<1>11. AssignKept'
  <2>1. \A s \in Request : Holds(s, "assign")' => s # r /\ Holds(s, "assign") /\ req'[s] = req[s]
    BY <1>1, <1>2, Ended
  <2> QED BY <1>3, <1>4, <1>6, <2>1 DEF IInv, AssignKept
<1>12. LockKept'
  BY <1>1, <1>2, <1>3, LockStays, EndedQuietly DEF IInv
<1>13. Followed
  <2>1. CASE written
    <3>1. req[r].arg \subseteq Readers(db) \cup crossed[r]
      BY <1>1, <2>1 DEF IInv, AssignKept
    <3> QED BY <1>1, <1>3, <1>5, <1>6, <2>1, <3>1 DEF Followed
  <2>2. CASE ~written
    BY <1>3, <1>6, <2>2 DEF Followed
  <2> QED BY <2>1, <2>2
<1> QED BY <1>7, <1>8, <1>9, <1>10, <1>11, <1>12, <1>13 DEF IInv

\* Who finds a board that is theirs still takes the lock, which nobody has.
LEMMA LockOwnedKeeps ==
    ASSUME IInv, NEW r \in Request, LockOwned(r)
    PROVE  IInv' /\ Followed
<1> DEFINE q == req[r]
           found == q.arg.owned /\ Owned(q.by)
           after == [q EXCEPT !.at = "locked", !.arg = found]
<1>1. ~Leaving(r) /\ q \in Requests /\ q # Idle /\ q.op = "leave" /\ q.at = "asked"
  BY DEF IInv, Typed, LockOwned, Holds, Leaving
<1>2. CASE Refuse(r)
  BY <1>1, <1>2, RefuseKeeps
<1>3. CASE /\ lock' = IF found THEN {r} ELSE lock
           /\ req' = [req EXCEPT ![r].at = "locked", ![r].arg = found]
           /\ UNCHANGED <<db, begun, history>>
  <2>1. q \in Asked("leave", [owned : BOOLEAN, shared : BOOLEAN])
    BY <1>1 DEF Requests, Asked
  <2>2. found \in BOOLEAN /\ (found => lock = {} /\ db.owner = q.by)
    BY <2>1 DEF LockOwned, Unlocked, Owned, Asked, IInv, Typed, Db
  <2>3. req' = [req EXCEPT ![r] = after]
    BY <1>3 DEF IInv, Typed
  <2> HIDE DEF found
  <2>4. after \in [op : {"leave"}, by : User, arg : BOOLEAN, at : {"locked"}]
    BY <2>1, <2>2 DEF Asked
  <2>5. after.op = "leave" /\ after.at = "locked" /\ after.arg = found /\ after.by = q.by
    BY <2>1 DEF Asked
  <2>6. after \in Requests /\ after # Idle
    BY <2>4, <2>5 DEF Requests, Idle
  <2> HIDE DEF after, q
  <2>7. /\ req' \in [Request -> Requests] /\ req'[r] = after
        /\ \A s \in Request : s # r => req'[s] = req[s]
    BY <2>3, <2>6 DEF IInv, Typed
  <2>8. UNCHANGED <<withdrawn, granted, demoted, crossed>>
    BY <1>3 DEF history
  <2>9. Typed'
    BY <1>3, <2>7, <2>8 DEF IInv, Typed
  <2>10. RowsKept' /\ OwnerIsNoMember' /\ InvitersCanWriteButByEmail'
    BY <1>3, <2>8 DEF IInv, RowsKept, OwnerIsNoMember, InvitersCanWriteButByEmail, Readers,
           Editors, Empty
  <2>11. SpentKept'
    BY <1>3, <2>8 DEF IInv, SpentKept, WithdrawnNeverGrants, Spent, Pending
  <2>12. AssignKept' /\ Followed
    <3>1. \A s \in Request : Holds(s, "assign")' => Holds(s, "assign") /\ req'[s] = req[s]
      BY <2>5, <2>7 DEF Holds
    <3>2. Followed
      BY <1>3 DEF Followed, Readers
    <3>3. \A s \in Request : Holds(s, "assign") /\ db'.on =>
             req[s].arg \cap db'.accounts \subseteq Readers(db') \cup crossed'[s]
      BY <1>3, <2>8 DEF IInv, AssignKept
    <3> QED BY <1>3, <3>1, <3>2, <3>3, AssignStays DEF IInv
  <2>13. LockKept'
    <3>1. Leaving(r)' /\ \A s \in Request : s # r =>
             (Leaving(s)' <=> Leaving(s)) /\ req'[s] = req[s]
      BY <2>5, <2>6, <2>7 DEF Leaving
    <3>2. r \notin lock
      BY <1>1 DEF IInv, LockKept
    <3>3. CASE found
      BY <1>3, <2>2, <2>5, <2>7, <3>1, <3>3 DEF IInv, LockKept, q
    <3>4. CASE ~found
      BY <1>3, <2>2, <2>5, <2>7, <3>1, <3>2, <3>4 DEF IInv, LockKept
    <3> QED BY <3>3, <3>4
  <2> QED BY <2>9, <2>10, <2>11, <2>12, <2>13 DEF IInv
<1> QED BY <1>2, <1>3 DEF LockOwned

\* The end of an account: a board that is found and unshared goes with it, an
\* owner of another board stays, anybody else goes with their rows.
LEMMA DeleteAccountKeeps ==
    ASSUME IInv, NEW r \in Request, DeleteAccount(r)
    PROVE  IInv' /\ Followed
<1> DEFINE u == req[r].by
           without == [db EXCEPT !.accounts = @ \ {u}, !.closed = @ \cup {u}]
           gone == {i \in db.invites : i.by = u}
<1>1. /\ Leaving(r) /\ u \in User /\ Typed
      /\ lock' = lock \ {r} /\ Answer(r) /\ begun' = begun
  BY ArgTypes DEF IInv, Typed, DeleteAccount, Leaving
<1>2. /\ without \in Db /\ without.accounts = db.accounts \ {u}
      /\ without.closed = db.closed \cup {u}
      /\ without.on = db.on /\ without.owner = db.owner /\ without.member = db.member
      /\ without.invites = db.invites /\ without.assigned = db.assigned
      /\ without.minted = db.minted
  BY <1>1 DEF Typed, Db
<1>3. /\ req' \in [Request -> Requests]
      /\ \A s \in Request : Holds(s, "assign")' => Holds(s, "assign") /\ req'[s] = req[s]
      /\ \A s \in Request : Leaving(s)' => s # r /\ Leaving(s) /\ req'[s] = req[s]
      /\ \A s \in Request : Leaving(s) /\ s # r => Leaving(s)' /\ req'[s] = req[s]
  BY <1>1, Answered, Ended
<1>4. db'.owner = db.owner => LockKept'
  BY <1>1, <1>3 DEF IInv, LockKept
<1>5. lock' \in SUBSET Request /\ begun' \in 0 .. MaxRequests
  BY <1>1 DEF Typed
<1>6. db.member[db.owner] = NoRow
  BY DEF IInv, OwnerIsNoMember
<1>7. CASE DropBoard(without)
  <2>1. db'.owner = db.owner
    BY <1>2, <1>7, DroppedFields DEF DropBoard
  <2>2. /\ without.accounts \cup without.closed = db.accounts \cup db.closed \cup {u}
        /\ without.accounts \cap without.closed = {}
    BY <1>2 DEF IInv, RowsKept
  <2> QED BY <1>1, <1>2, <1>3, <1>4, <1>5, <1>6, <1>7, <2>1, <2>2, DropKeeps
<1>8. CASE UNCHANGED <<db, history>>
  <2>1. UNCHANGED <<withdrawn, granted, demoted, crossed>> /\ db' = db
    BY <1>8 DEF history
  <2>2. Typed'
    BY <1>1, <1>3, <1>5, <2>1 DEF Typed
  <2>3. RowsKept' /\ OwnerIsNoMember' /\ InvitersCanWriteButByEmail'
    BY <2>1 DEF IInv, RowsKept, OwnerIsNoMember, InvitersCanWriteButByEmail, Readers,
           Editors, Empty
  <2>4. SpentKept'
    BY <2>1 DEF IInv, SpentKept, WithdrawnNeverGrants, Spent, Pending
  <2>5. Readers(db') = Readers(db)
    BY <2>1 DEF Readers
  <2>6. AssignKept' /\ Followed
    BY <1>3, <2>1, <2>5, AssignStays DEF IInv, AssignKept, Followed
  <2> QED BY <1>4, <2>1, <2>2, <2>3, <2>4, <2>6 DEF IInv
<1>9. CASE /\ ~Owned(u)
           /\ db' = [Removed(without, {u}) EXCEPT !.invites = @ \ gone]
           /\ withdrawn' = withdrawn \cup {i.id : i \in gone}
           /\ demoted' = demoted \ {u}
           /\ granted' = granted /\ crossed' = crossed
  <2> DEFINE d == Removed(without, {u})
  <2> HIDE DEF without
  <2>1. /\ d \in Db /\ d.member = [v \in User |-> IF v \in {u} THEN NoRow ELSE db.member[v]]
        /\ d.assigned = db.assigned \ {u} /\ d.invites = db.invites
        /\ d.on = db.on /\ d.owner = db.owner /\ d.minted = db.minted
        /\ d.accounts = db.accounts \ {u} /\ d.closed = db.closed \cup {u}
    BY <1>1, <1>2, RemovedFields
  <2>2. db' = [d EXCEPT !.invites = @ \ gone]
    BY <1>9
  <2> HIDE DEF d
  <2>3. /\ db' \in Db /\ db'.member = d.member /\ db'.invites = db.invites \ gone
        /\ db'.on = db.on /\ db'.owner = db.owner /\ db'.minted = db.minted
        /\ db'.assigned = db.assigned \ {u}
        /\ db'.accounts = db.accounts \ {u} /\ db'.closed = db.closed \cup {u}
    BY <2>1, <2>2 DEF Db
  <2>4. /\ \A v \in User : v # u => db'.member[v] = db.member[v]
        /\ db'.member[u] = NoRow
    BY <1>1, <2>1, <2>3
  <2>5. /\ Readers(db') \subseteq Readers(db)
        /\ db.on => Readers(db') = Readers(db) \ {u}
        /\ db.on => Editors(db) \ {u} \subseteq Editors(db')
    <3>1. db.on => db.owner # u
      BY <1>9 DEF Owned
    <3>2. \A v \in User : db'.member[v] # NoRow <=> v # u /\ db.member[v] # NoRow
      BY <2>4
    <3>3. \A v \in User : v # u /\ db.member[v] = "editor" => db'.member[v] = "editor"
      BY <2>4
    <3> HIDE DEF u
    <3>4. /\ Readers(db') \subseteq Readers(db)
          /\ db.on => Readers(db') = Readers(db) \ {u}
      BY <2>3, <3>1, <3>2 DEF Readers
    <3>5. Editors(db) \ {u} \subseteq Editors(db')
      BY <2>3, <3>3 DEF Editors
    <3> QED BY <3>4, <3>5
  <2>6. ~db.on => db.invites = {} /\ db.assigned = {} /\ db.member = Empty
    BY DEF IInv, RowsKept
  <2>7. {i.id : i \in gone} \subseteq Pending /\ Pending \subseteq Id /\ db.minted \in Nat
        /\ Id \subseteq Nat
    BY MembershipAssumption DEF Pending, Typed, Db, Invitation, Id, IInv
  <2>8. Typed'
    <3>1. withdrawn' \in SUBSET Id
      BY <1>9, <2>7 DEF IInv, Typed
    <3> QED BY <1>3, <1>5, <1>9, <2>3, <3>1 DEF IInv, Typed
  <2>9. RowsKept'
    <3>1. ~db.on => db'.member = Empty
      BY <2>1, <2>3, <2>6 DEF Empty
    <3> QED BY <2>3, <2>5, <2>6, <3>1 DEF IInv, RowsKept, Empty
  <2>10. OwnerIsNoMember'
    BY <1>6, <2>3, <2>4 DEF OwnerIsNoMember, IInv, Typed, Db
  <2>11. SpentKept'
    <3>1. Pending' \subseteq Pending \ {i.id : i \in gone}
      BY <2>3 DEF Pending, IInv, RowsKept
    <3>2. Pending \cap withdrawn = {}
      BY DEF IInv, SpentKept, Spent
    <3>3. \A n \in Pending' : n \in Nat /\ n \in Pending \ withdrawn'
      BY <1>9, <2>7, <3>1, <3>2
    <3>4. withdrawn' \subseteq withdrawn \cup Pending
      BY <1>9, <2>7
    <3> HIDE DEF gone
    <3> QED BY <1>9, <2>3, <2>7, <3>3, <3>4, SpentStays DEF IInv, RowsKept
  <2>12. InvitersCanWriteButByEmail'
    <3>1. \A i \in db'.invites : i.by # u /\ i.by \in Editors(db) \cup demoted
      BY <2>3 DEF IInv, InvitersCanWriteButByEmail
    <3> QED BY <1>9, <2>3, <2>5, <2>6, <3>1 DEF InvitersCanWriteButByEmail
  <2>13. AssignKept' /\ Followed
    <3>1. Followed
      BY <2>3, <2>5, <2>6 DEF Followed
    <3>2. \A s \in Request : Holds(s, "assign") /\ db'.on =>
             req[s].arg \cap db'.accounts \subseteq Readers(db') \cup crossed'[s]
      BY <1>9, <2>3, <2>5 DEF IInv, AssignKept
    <3> QED BY <1>3, <2>3, <3>1, <3>2, AssignStays DEF IInv
  <2> QED BY <1>4, <2>3, <2>8, <2>9, <2>10, <2>11, <2>12, <2>13 DEF IInv
<1> QED BY <1>7, <1>8, <1>9 DEF DeleteAccount

-----------------------------------------------------------------------------
(* The invariant and what follows from it.                                 *)
LEMMA InitIInv == Init => IInv
<1> SUFFICES ASSUME Init PROVE IInv
  OBVIOUS
<1> DEFINE first == [Empty EXCEPT ![FirstMember] = "editor"]
<1>1. /\ first \in [User -> Role \cup {NoRow}] /\ first[FirstOwner] = NoRow
      /\ \A u \in User : u # FirstMember => first[u] = NoRow
  BY MembershipAssumption DEF Empty, Role, NoRow
<1> HIDE DEF first
<1>2. db = [on |-> TRUE, owner |-> FirstOwner, member |-> first, invites |-> {},
            assigned |-> {}, minted |-> 0, accounts |-> {FirstOwner, FirstMember}, closed |-> {}]
  BY DEF Init, first
<1>3. Typed
  <2>1. db \in Db
    BY <1>1, <1>2, MembershipAssumption DEF Db
  <2>2. Idle \in Requests /\ 0 \in 0 .. MaxRequests
    BY MembershipAssumption DEF Requests
  <2>3. req \in [Request -> Requests]
    BY <2>2 DEF Init
  <2> QED BY <2>1, <2>2, <2>3 DEF Init, Typed
<1>4. RowsKept
  BY <1>1, <1>2 DEF RowsKept, Readers
<1>5. OwnerIsNoMember /\ InvitersCanWriteButByEmail
  BY <1>1, <1>2 DEF OwnerIsNoMember, InvitersCanWriteButByEmail
<1>6. SpentKept
  BY <1>2 DEF Init, SpentKept, WithdrawnNeverGrants, Spent
<1>7. AssignKept /\ LockKept
  BY <1>2 DEF Init, AssignKept, LockKept, Holds, Leaving
<1> QED BY <1>3, <1>4, <1>5, <1>6, <1>7 DEF IInv

LEMMA WorkKeeps ==
    ASSUME IInv, NEW r \in Request, Work(r)
    PROVE  IInv' /\ Followed
  BY SetMembersKeeps, RevokeKeeps, ResendKeeps, AcceptKeeps, SignupKeeps, TransferKeeps,
     DeleteKeeps, AssignKeeps, LockOwnedKeeps, DeleteAccountKeeps DEF Work

LEMMA NextIInv == IInv /\ [Next]_vars => IInv' /\ Followed
<1> SUFFICES ASSUME IInv, [Next]_vars PROVE IInv' /\ Followed
  OBVIOUS
<1>1. CASE UNCHANGED vars
  <2>1. UNCHANGED <<db, req, lock, begun, history>> /\ begun \in 0 .. MaxRequests
        /\ req \in [Request -> Requests]
    BY <1>1 DEF vars, IInv, Typed
  <2> QED BY <2>1, SameRequests, QuietKeeps
<1>2. CASE Next
  BY <1>2, AskKeeps, WorkKeeps, InviteByEmailKeeps, ExpireKeeps DEF Next
<1> QED BY <1>1, <1>2

LEMMA IInvTypeOK == IInv => TypeOK
<1> SUFFICES ASSUME IInv PROVE TypeOK
  OBVIOUS
<1>1. Cardinality(lock) \leq 1
  <2>1. CASE lock = {}
    BY <2>1, FS_EmptySet
  <2>2. CASE \E r \in Request : lock = {r}
    <3>1. PICK r \in Request : lock = {r}
      BY <2>2
    <3>2. Cardinality({r}) = 1
      BY FS_Singleton
    <3> QED BY <3>1, <3>2
  <2> QED BY <2>1, <2>2 DEF IInv, LockKept
<1>2. \A r \in Request : req[r] = Idle \/ req[r].by \in User
  BY ArgTypes DEF IInv, Typed
<1>3. db \in Db /\ begun \in 0 .. MaxRequests /\ RowsKept
  BY DEF IInv, Typed
<1> QED BY <1>1, <1>2, <1>3 DEF TypeOK, RowsKept, Db

\* The rows are well formed in every state.
THEOREM TypeCorrect == Spec => []TypeOK
<1> QED BY InitIInv, NextIInv, IInvTypeOK, PTL DEF Spec

\* However transfers, claims and member lists interleave, no owner is a member:
\* a claim is refused and a list is trimmed for whoever owns the board by then.
THEOREM OwnerNeverMember == Spec => []OwnerIsNoMember
<1>1. IInv => OwnerIsNoMember
  BY DEF IInv
<1> QED BY <1>1, InitIInv, NextIInv, PTL DEF Spec

\* An invitation that was withdrawn, or honored once, lets nobody in: its id is
\* not pending any more, and a claim honors pending ids only.
THEOREM ConsumedOnce == Spec => []WithdrawnNeverGrants
<1>1. IInv => WithdrawnNeverGrants
  BY DEF IInv, SpentKept
<1> QED BY <1>1, InitIInv, NextIInv, PTL DEF Spec

\* Whoever invited can write still, or was made a viewer by an invite.
THEOREM InvitersKeepWriting == Spec => []InvitersCanWriteButByEmail
<1>1. IInv => InvitersCanWriteButByEmail
  BY DEF IInv
<1> QED BY <1>1, InitIInv, NextIInv, PTL DEF Spec

\* Taking access away, in any order with everything else, leaves no assignment
\* behind: only a list that was checked earlier assigns somebody without access.
THEOREM AccessTakesAssignments == Spec => AssignmentsFollowAccess
<1>1. IInv /\ [Next]_vars => [Followed]_vars
  BY NextIInv
<1>2. AssignmentsFollowAccess <=> [][Followed]_vars
  BY DEF AssignmentsFollowAccess, Followed
<1> QED BY <1>1, <1>2, InitIInv, NextIInv, PTL DEF Spec

\* A board goes with its owner only: an account deletion that is to take one
\* along has held its lock since it found it, so that it is its owner's.
THEOREM SharedBoardsStay == Spec => SharedBoardSurvives
<1> DEFINE Mine(r) == /\ req[r] # Idle /\ req[r].by = db.owner /\ req'[r] = Idle
                      /\ \/ req[r].op = "delete"
                         \/ req[r].op = "leave" /\ ~Shared(db)
           Safe == db.on /\ ~db'.on => \E r \in Request : Mine(r)
<1>1. ASSUME IInv, [Next]_vars, db.on, ~db'.on PROVE \E r \in Request : Mine(r)
  <2>0. \A r \in Request : Answer(r) => req'[r] = Idle
    BY <1>1, Answered DEF IInv
  <2>1. \A r \in Request : Delete(r) => Mine(r)
    BY <1>1, <2>0 DEF Delete, Holds, Refuse
  <2>2. \A r \in Request : DeleteAccount(r) => Mine(r)
    <3> SUFFICES ASSUME NEW r \in Request, DeleteAccount(r) PROVE Mine(r)
      OBVIOUS
    <3>1. Leaving(r) /\ req'[r] = Idle
      BY <2>0 DEF DeleteAccount, Leaving
    <3> DEFINE without == [db EXCEPT !.accounts = @ \ {req[r].by}, !.closed = @ \cup {req[r].by}]
               gone == {i \in db.invites : i.by = req[r].by}
    <3>2. CASE Doomed(r)
      <4>1. r \in lock /\ ~Shared(db)
        BY <1>1, <3>1, <3>2 DEF Doomed, IInv, LockKept
      <4> QED BY <1>1, <3>1, <4>1 DEF IInv, LockKept, Leaving
    <3>3. CASE UNCHANGED <<db, history>>
      BY <1>1, <3>3
    <3>4. CASE db' = [Removed(without, {req[r].by}) EXCEPT !.invites = @ \ gone]
      <4>1. req[r].by \in User
        BY <3>1, ArgTypes, <1>1 DEF IInv, Typed, Leaving
      <4>2. without \in Db /\ without.on = db.on
        BY <1>1, <4>1 DEF IInv, Typed, Db
      <4> HIDE DEF without
      <4> DEFINE me == {req[r].by}
                 left == Removed(without, me)
      <4>3. me \in SUBSET User
        BY <4>1
      <4> HIDE DEF me
      <4>4. left \in Db /\ left.on = db.on
        BY <4>2, <4>3, RemovedFields
      <4>5. db' = [left EXCEPT !.invites = @ \ gone]
        BY <3>4 DEF me
      <4> HIDE DEF left, gone
      <4>6. db'.on = db.on
        BY <4>4, <4>5 DEF Db
      <4> QED BY <1>1, <4>6
    <3> QED BY <3>2, <3>3, <3>4 DEF DeleteAccount
  <2>3. db \in Db
    BY <1>1 DEF IInv, Typed
  <2>4. \A r \in Request, u \in User : Ask(r, u) => db' = db
    BY DEF Ask, AskMembers, AskAboutInvitation, AskTransfer, AskDelete, AskAccept, AskSignup,
           AskAssign, AskLeave, Begin, Enter
  <2>5. \A u, to \in User : InviteByEmail(u, to) => db'.on = db.on
    <3> SUFFICES ASSUME NEW u \in User, NEW to \in User, InviteByEmail(u, to)
                 PROVE db'.on = db.on
      OBVIOUS
    <3>1. PICK role \in Role \cup {NoRow} :
            InviteExisting(u, to, role) \/ InviteAddress(u, to, role)
      BY DEF InviteByEmail
    <3>2. CASE InviteExisting(u, to, role)
      BY <2>3, <3>2 DEF InviteExisting, Db
    <3>3. CASE InviteAddress(u, to, role)
      BY <2>3, <3>3 DEF InviteAddress, Db
    <3> QED BY <3>1, <3>2, <3>3
  <2>6. Expire => db'.on = db.on
    BY <2>3 DEF Expire, Db
  <2>7. \A r \in Request : SetMembers(r) => db'.on = db.on
    <3> SUFFICES ASSUME NEW r \in Request, SetMembers(r) PROVE db'.on = db.on
      OBVIOUS
    <3>1. req[r].by \in User /\ req[r].arg \in Body
      BY <1>1, ArgTypes DEF SetMembers, Holds, IInv, Typed
    <3>2. CASE Refuse(r)
      BY <3>2 DEF Refuse
    <3>3. CASE db' = Swept(Removed(db, {req[r].by}))
      <4> DEFINE me == {req[r].by}
                 left == Removed(db, me)
      <4>1. me \in SUBSET User
        BY <3>1
      <4> HIDE DEF me
      <4>2. left \in Db /\ left.on = db.on
        BY <2>3, <4>1, RemovedFields
      <4>3. db' = Swept(left)
        BY <3>3 DEF me
      <4> HIDE DEF left
      <4> QED BY <4>2, <4>3, SweptFields
    <3>4. CASE Allowed(db, req[r].arg) /\ db' = Swept(Replaced(db, req[r].arg))
      BY <2>3, <3>1, <3>4, ReplacedFields, SweptFields
    <3> QED BY <3>2, <3>3, <3>4 DEF SetMembers, SettleMembers
  <2>8. ASSUME NEW r \in Request,
               \/ Revoke(r) \/ Resend(r) \/ Accept(r) \/ Signup(r) \/ Transfer(r)
               \/ Assign(r) \/ LockOwned(r)
        PROVE  db'.on = db.on
    <3>1. \A u, rows, accounts : Claim(u, rows, accounts) => db'.on = db.on
      BY <2>3 DEF Claim, Db
    <3>2. CASE Accept(r) \/ Signup(r)
      BY <3>1, <3>2 DEF Accept, Signup, Refuse
    <3>3. CASE Revoke(r) \/ Resend(r)
      BY <2>3, <3>3 DEF Revoke, Resend, Db
    <3>4. CASE Transfer(r) \/ Assign(r)
      BY <2>3, <3>4 DEF Transfer, Assign, Refuse, Db
    <3>5. CASE LockOwned(r)
      BY <3>5 DEF LockOwned, Refuse
    <3> QED BY <2>8, <3>2, <3>3, <3>4, <3>5
  <2> QED BY <1>1, <2>1, <2>2, <2>4, <2>5, <2>6, <2>7, <2>8 DEF Next, Work, vars
<1>2. IInv /\ [Next]_vars => [Safe]_vars
  BY <1>1 DEF Safe
<1>3. SharedBoardSurvives <=> [][Safe]_vars
  BY DEF SharedBoardSurvives
<1> QED BY <1>2, <1>3, InitIInv, NextIInv, PTL DEF Spec

=============================================================================
