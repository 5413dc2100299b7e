------------------------------ MODULE Realtime ------------------------------
(***************************************************************************)
(* One board on one screen, kept up to date by the server's events (API    *)
(* services/realtime, web lib/realtime.svelte.ts, lib/board.svelte.ts and  *)
(* lib/realtime-coverage.svelte.ts).                                       *)
(*                                                                         *)
(* A committed write publishes an event.  Each event is delivered by an    *)
(* async function of its own: it takes the sockets of the project's room,  *)
(* awaits two reads and then sends, so that two events may change places.  *)
(* The client applies them to the board and re-reads the whole board when  *)
(* it may have missed some; a coverage token tells it when it may not.     *)
(*                                                                         *)
(* A card is abstracted to a version and whether it is on the board, the   *)
(* project to one board, and the person to a member of it throughout.      *)
(* Left out: the person's own unsent edits (Outbox), the archive list, the *)
(* cache on the device and the close codes of the API (Sockets).          *)
(***************************************************************************)
EXTENDS Integers, Sequences, FiniteSets

CONSTANTS
    Card,
    MaxWrites,   \* bound: writes to a card
    MaxFaults    \* bound: connections lost, boards left and reads that fail

ASSUME RealtimeAssumption == {MaxWrites, MaxFaults} \subseteq Nat

VARIABLES
    db,         \* the committed cards
    published,  \* events on the bus, and those deliver() is reading for
    socket,     \* the connection: the client's side of it and the server's
    up, down,   \* its frames on the way to the server and to the client
    coverage,   \* RealtimeCoverage
    board,      \* the board store
    read,       \* the newest read of the board, older ones are not applied
    drag,       \* a drag and what waits for its end
    heal,       \* whether a connection is to be followed by reads; a drain that
                \* holds them back
    spent,      \* writes and faults so far
    missed,     \* history: the cards whose newest version was in an event that
                \* left before the server had the subscription
    told        \* history: the cards whose newest version this visit was told of

server == <<db, published, missed>>
client == <<coverage, board, read, drag, heal>>
vars == <<server, socket, up, down, client, told, spent>>

-----------------------------------------------------------------------------
Version == 0 .. MaxWrites
Rows == [Card -> [ver : Version, on : BOOLEAN]]
NoRows == [c \in Card |-> [ver |-> 0, on |-> FALSE]]

\* task_created and task_restored put a card on the board, task_updated and
\* its like change one, task_deleted and task_archived take one off.
Event == [card : Card, kind : {"put", "patch", "drop"}, ver : Version]

\* No token: the board was not read under one unbroken subscription.
Null == -1
IdleRead == [at |-> "none", under |-> Null, rows |-> NoRows]

\* tokenFor and holds.
TokenNow(cov) == IF cov.on THEN cov.token ELSE Null
Holds(cov, token) == token # Null /\ TokenNow(cov) = token

Began(cov) == [token |-> cov.token + 1, on |-> TRUE]
Ended(cov) == IF cov.on THEN [token |-> cov.token + 1, on |-> FALSE] ELSE cov

Init ==
    /\ db = NoRows
    /\ published = {}
    /\ socket = [conn |-> "closed", authed |-> FALSE, joined |-> FALSE]
    /\ up = <<>> /\ down = <<>>
    /\ coverage = [token |-> 0, on |-> FALSE]
    /\ board = [open |-> FALSE, rows |-> NoRows, under |-> Null, stale |-> FALSE,
                loading |-> FALSE]
    /\ read = IdleRead
    /\ drag = [busy |-> FALSE, queue |-> <<>>, refetch |-> FALSE]
    \* synced from the start where the session was restored without the server.
    /\ heal \in [synced : BOOLEAN, draining : {FALSE}]
    /\ spent = [writes |-> [c \in Card |-> 0], faults |-> 0]
    /\ missed = {} /\ told = {}

\* The cards whose newest version is in one of a sequence of events.
Newest(events) ==
    {c \in Card : \E i \in 1 .. Len(events) :
        events[i].card = c /\ events[i].ver = db[c].ver}

-----------------------------------------------------------------------------
(* The server. *)

\* A request commits a change of a card and its post-commit hook publishes it.
\* No order holds between the hooks of two requests, or on two pods.
Write(c, kind) ==
    /\ spent.writes[c] < MaxWrites
    /\ (kind = "put") = ~db[c].on
    /\ LET v == db[c].ver + 1 IN
       /\ db' = [db EXCEPT ![c] = [ver |-> v, on |-> kind # "drop"]]
       /\ published' = published \cup {[at |-> "bus", event |->
                                        [card |-> c, kind |-> kind, ver |-> v]]}
    /\ spent' = [spent EXCEPT !.writes[c] = @ + 1]
    /\ missed' = missed \ {c} /\ told' = told \ {c}
    /\ UNCHANGED <<socket, up, down, client>>

\* deliverProjectScoped takes the sockets of the room before its awaits; with
\* none there it is done.
Resolve(p) ==
    /\ p.at = "bus"
    /\ published' = (published \ {p})
                    \cup (IF socket.joined THEN {[p EXCEPT !.at = "reading"]} ELSE {})
    /\ missed' = IF coverage.on /\ ~socket.joined THEN missed \cup Newest(<<p.event>>)
                 ELSE missed
    /\ UNCHANGED <<db, socket, up, down, client, told, spent>>

\* ... and sends after them to those still open, subscribed or not by now.
Send(p) ==
    /\ p.at = "reading"
    /\ published' = published \ {p}
    /\ down' = Append(down, [type |-> "event", event |-> p.event])
    /\ UNCHANGED <<db, missed, socket, up, client, told, spent>>

\* handleMessage: the frames of a socket in their order.
ServerReceives ==
    /\ up # <<>>
    /\ up' = Tail(up)
    /\ CASE Head(up) = "auth" -> /\ socket' = [socket EXCEPT !.authed = TRUE]
                                 /\ down' = Append(down, [type |-> "auth_ok"])
         [] Head(up) = "subscribe" -> /\ socket' = [socket EXCEPT !.joined = @ \/ socket.authed]
                                      /\ UNCHANGED down
         [] Head(up) = "unsubscribe" -> /\ socket' = [socket EXCEPT !.joined = FALSE]
                                        /\ UNCHANGED down
    /\ UNCHANGED <<server, client, told, spent>>

\* GET /api/projects/{id} reads what is committed.
BuildResponse ==
    /\ read.at = "sent"
    /\ read' = [read EXCEPT !.at = "built", !.rows = db]
    /\ UNCHANGED <<server, socket, up, down, coverage, board, drag, heal, told, spent>>

-----------------------------------------------------------------------------
(* The board store. *)

\* refetch: the token is captured first, and the newest read is the one that
\* counts.
Refetch(cov) == [at |-> "sent", under |-> TokenNow(cov), rows |-> NoRows]

\* An event applied to the rows of the board.
Applied(rows, e) ==
    CASE e.kind = "put" -> [rows EXCEPT ![e.card] = [ver |-> e.ver, on |-> TRUE]]
      [] e.kind = "patch" -> IF rows[e.card].on THEN [rows EXCEPT ![e.card].ver = e.ver] ELSE rows
      [] e.kind = "drop" -> [rows EXCEPT ![e.card] = [ver |-> e.ver, on |-> FALSE]]

\* The rows once a sequence of events has been applied.
AppliedAll(rows, events) ==
    LET at[i \in 0 .. Len(events)] ==
            IF i = 0 THEN rows ELSE Applied(at[i - 1], events[i])
    IN  at[Len(events)]

\* Mutant: the token is taken when the answer is there.
ReadArrivesUnchecked ==
    /\ read.at = "built"
    /\ board' = [board EXCEPT !.rows = read.rows, !.stale = FALSE, !.loading = FALSE,
                              !.under = TokenNow(coverage)]
    /\ told' = told \cup {c \in Card : read.rows[c].ver = db[c].ver}
    /\ read' = IdleRead
    /\ UNCHANGED <<server, socket, up, down, coverage, drag, heal, spent>>

\* refetch, with its answer: the board is replaced as a whole.
ReadArrives ==
    /\ read.at = "built"
    /\ board' = [board EXCEPT !.rows = read.rows, !.stale = FALSE, !.loading = FALSE,
                              !.under = IF Holds(coverage, read.under) THEN read.under ELSE Null]
    /\ told' = told \cup {c \in Card : read.rows[c].ver = db[c].ver}
    /\ read' = IdleRead
    /\ UNCHANGED <<server, socket, up, down, coverage, drag, heal, spent>>

\* refetch, with a refusal or none at all: the old board stays and is known to.
ReadFails ==
    /\ read.at # "none"
    /\ spent.faults < MaxFaults
    /\ spent' = [spent EXCEPT !.faults = @ + 1]
    /\ board' = [board EXCEPT !.under = Null, !.stale = TRUE, !.loading = FALSE]
    /\ read' = IdleRead
    /\ UNCHANGED <<server, socket, up, down, coverage, drag, heal, told>>

\* load of the board that is open already, as opening a card does: the read is
\* skipped while the coverage holds.
Revisit ==
    /\ board.open /\ ~board.loading
    /\ ~Holds(coverage, board.under)
    /\ read' = Refetch(coverage)
    /\ UNCHANGED <<server, socket, up, down, coverage, board, drag, heal, told, spent>>

\* #flushQueue, once no drag is live: a refetch asked for in the meantime
\* replaces what the events would have changed.
Flushed(d, b, t, rd, cov) ==
    IF d.refetch
    THEN [board |-> b, told |-> t, read |-> IF b.open THEN Refetch(cov) ELSE rd]
    ELSE LET events == IF b.open THEN d.queue ELSE <<>>
         IN  [board |-> [b EXCEPT !.rows = AppliedAll(@, events)],
              told |-> t \cup Newest(events), read |-> rd]

NoDrag == [busy |-> FALSE, queue |-> <<>>, refetch |-> FALSE]

DragStarts ==
    /\ board.open /\ ~board.loading /\ ~drag.busy
    /\ drag' = [drag EXCEPT !.busy = TRUE]
    /\ UNCHANGED <<server, socket, up, down, coverage, board, read, heal, told, spent>>

DragEnds ==
    /\ drag.busy
    /\ LET after == Flushed(drag, board, told, read, coverage) IN
       /\ board' = after.board
       /\ told' = after.told
       /\ read' = after.read
    /\ drag' = NoDrag
    /\ UNCHANGED <<server, socket, up, down, coverage, heal, spent>>

\* load of a board that is not open: reset, the first read, and then the effect
\* that moves the subscription.
Enter ==
    /\ ~board.open
    /\ board' = [open |-> TRUE, rows |-> NoRows, under |-> Null, stale |-> FALSE, loading |-> TRUE]
    /\ told' = {} /\ missed' = {}
    /\ read' = Refetch(coverage)
    /\ IF socket.conn = "online"
       THEN up' = Append(up, "subscribe") /\ coverage' = Began(coverage)
       ELSE UNCHANGED <<up, coverage>>
    /\ UNCHANGED <<db, published, socket, down, drag, heal, spent>>

\* Another page: reset, which also ends a drag and empties its queue.
Leave ==
    /\ board.open
    /\ spent.faults < MaxFaults
    /\ spent' = [spent EXCEPT !.faults = @ + 1]
    /\ board' = [open |-> FALSE, rows |-> NoRows, under |-> Null, stale |-> FALSE, loading |-> FALSE]
    /\ read' = IdleRead
    /\ drag' = NoDrag
    /\ IF socket.conn = "online"
       THEN up' = Append(up, "unsubscribe") /\ coverage' = Ended(coverage)
       ELSE UNCHANGED <<up, coverage>>
    /\ UNCHANGED <<server, socket, down, heal, told>>

-----------------------------------------------------------------------------
(* The connection. *)

\* #open, when the backoff is over.
Reopen ==
    /\ socket.conn = "closed"
    /\ socket' = [socket EXCEPT !.conn = "opening"]
    /\ up' = <<"auth">>
    /\ coverage' = Ended(coverage)
    /\ UNCHANGED <<server, down, board, read, drag, heal, told, spent>>

\* Mutant: only the board's own events are caught up with, nothing is re-read.
HealedNot(d, b, rd, cov) == [drag |-> d, read |-> rd]

\* #healReads, as far as the board is concerned.
Healed(d, b, rd, cov) ==
    [drag |-> IF b.open /\ d.busy THEN [d EXCEPT !.refetch = TRUE] ELSE d,
     read |-> IF b.open /\ ~d.busy THEN Refetch(cov) ELSE rd]

\* #onAuthOk.  The first connection needs no healing, the page has just been
\* loaded; later ones replay the person's unsent changes first if there are any.
AuthOk(unsent) ==
    LET cov == IF board.open THEN Began(Ended(coverage)) ELSE coverage
        after == IF heal.synced /\ ~unsent THEN Healed(drag, board, read, cov)
                 ELSE [drag |-> drag, read |-> read]
    IN  /\ socket' = [socket EXCEPT !.conn = "online"]
        /\ up' = IF board.open THEN Append(up, "subscribe") ELSE up
        /\ coverage' = cov
        /\ heal' = [synced |-> TRUE, draining |-> heal.draining \/ (heal.synced /\ unsent)]
        /\ drag' = after.drag
        /\ read' = after.read
        /\ UNCHANGED <<board, told>>

\* #dispatch of a board event.
Dispatch(e) ==
    /\ IF ~board.open THEN UNCHANGED <<board, told, drag>>
       ELSE IF drag.busy
       THEN /\ drag' = [drag EXCEPT !.queue = Append(@, e)]
            /\ UNCHANGED <<board, told>>
       ELSE /\ board' = [board EXCEPT !.rows = Applied(@, e)]
            /\ told' = told \cup Newest(<<e>>)
            /\ UNCHANGED drag
    /\ UNCHANGED <<socket, up, coverage, read, heal>>

ClientReceives ==
    /\ down # <<>>
    /\ down' = Tail(down)
    /\ IF Head(down).type = "auth_ok" THEN \E unsent \in BOOLEAN : AuthOk(unsent)
       ELSE Dispatch(Head(down).event)
    /\ UNCHANGED <<server, spent>>

\* The outbox is drained, or has given up for now: the reads it held back go.
DrainEnds ==
    /\ heal.draining
    /\ LET after == Healed(drag, board, read, coverage) IN
       /\ drag' = after.drag
       /\ read' = after.read
    /\ heal' = [heal EXCEPT !.draining = FALSE]
    /\ UNCHANGED <<server, socket, up, down, coverage, board, told, spent>>

\* #onClose on this side, removeSocket on the other; frames on the way and
\* sends to the closed socket are lost.
Disconnect ==
    /\ socket.conn # "closed"
    /\ spent.faults < MaxFaults
    /\ spent' = [spent EXCEPT !.faults = @ + 1]
    /\ socket' = [conn |-> "closed", authed |-> FALSE, joined |-> FALSE]
    /\ up' = <<>> /\ down' = <<>>
    /\ published' = {p \in published : p.at = "bus"}
    /\ coverage' = Ended(coverage)
    /\ UNCHANGED <<db, missed, board, read, drag, heal, told>>

Deliver == \E p \in published : Resolve(p) \/ Send(p)

Next ==
    \/ \E c \in Card, kind \in {"put", "patch", "drop"} : Write(c, kind)
    \/ Deliver
    \/ ServerReceives
    \/ ClientReceives
    \/ BuildResponse
    \/ ReadArrives
    \/ ReadFails
    \/ Revisit
    \/ DragStarts
    \/ DragEnds
    \/ Enter
    \/ Leave
    \/ Reopen
    \/ DrainEnds
    \/ Disconnect

Spec == Init /\ [][Next]_vars

\* The network and both programs go on; people need not do anything, but they
\* let go of a card they drag and do not open cards faster than every answer.
Fairness ==
    /\ WF_vars(Deliver)
    /\ WF_vars(ServerReceives)
    /\ WF_vars(ClientReceives)
    /\ WF_vars(BuildResponse)
    /\ SF_vars(ReadArrives)
    /\ WF_vars(DragEnds)
    /\ WF_vars(Reopen)
    /\ WF_vars(DrainEnds)

FairSpec == Spec /\ Fairness

-----------------------------------------------------------------------------
(* Properties. *)

Delivery == [at : {"bus", "reading"}, event : Event]
ReadState == [at : {"none", "sent", "built"}, under : Int, rows : Rows]

\* Types of the state.
TypeOK ==
    /\ db \in Rows
    /\ published \subseteq Delivery
    /\ socket \in [conn : {"closed", "opening", "online"}, authed : BOOLEAN, joined : BOOLEAN]
    /\ up \in Seq({"auth", "subscribe", "unsubscribe"})
    /\ down \in Seq([type : {"auth_ok"}] \cup [type : {"event"}, event : Event])
    /\ coverage \in [token : Nat, on : BOOLEAN]
    /\ board \in [open : BOOLEAN, rows : Rows, under : Int, stale : BOOLEAN, loading : BOOLEAN]
    /\ read \in ReadState
    /\ drag \in [busy : BOOLEAN, queue : Seq(Event), refetch : BOOLEAN]
    /\ heal \in [synced : BOOLEAN, draining : BOOLEAN]
    /\ missed \subseteq Card /\ told \subseteq Card

\* Version v of card c is in an event that this screen is still going to
\* apply, or in the answer to a read it has sent.
OnItsWay(c, v) ==
    \/ read.at = "sent" \/ (read.at = "built" /\ read.rows[c].ver = v)
    \/ \E p \in published : p.event.card = c /\ p.event.ver = v
    \/ \E i \in 1 .. Len(down) :
        down[i].type = "event" /\ down[i].event.card = c /\ down[i].event.ver = v
    \/ \E i \in 1 .. Len(drag.queue) : drag.queue[i].card = c /\ drag.queue[i].ver = v

\* A board whose next read would be skipped has been told of the newest version
\* of every card, or is going to be: the coverage token misses no gap, but for
\* the one realtime-coverage.svelte.ts names, an event that left while the
\* subscribe frame was on its way.
NoUnknownGap ==
    Holds(coverage, board.under) =>
        \A c \in Card : \/ c \in told \cup missed
                        \/ OnItsWay(c, db[c].ver)

\* The same of what is on the screen: a board whose next read would be skipped
\* shows the newest version of every card or is about to.  This is what
\* realtime-coverage.svelte.ts says of a read made under a token, and it is
\* false: an event may be applied before an answer that was built before it,
\* and two events of one card may be sent in the wrong order (README.md, "Where
\* the code and its comments differ").
CoverageMeansCurrent ==
    Holds(coverage, board.under) =>
        \A c \in Card : \/ board.rows[c] = db[c]
                        \/ c \in missed
                        \/ OnItsWay(c, db[c].ver)

\* A connection lost under an open board is followed by a read of it that
\* counts, or by the mark that the board is stale (unless the person leaves).
GapsHeal ==
    (board.open /\ heal.synced /\ socket.conn = "closed")
        ~> (~board.open \/ board.stale \/ Holds(coverage, board.under))
=============================================================================
