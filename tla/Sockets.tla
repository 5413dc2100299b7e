------------------------------ MODULE Sockets -------------------------------
(***************************************************************************)
(* The live connections of one account: the tabs that open them (web       *)
(* lib/realtime.svelte.ts) and the pod that admits, re-checks, evicts and  *)
(* closes them (API services/realtime/transport.ts, state.ts).             *)
(*                                                                         *)
(* All tabs hold the token of one session.  A socket has two ends that     *)
(* learn of each other through frames in order; either end may be gone     *)
(* while the other still stands.  The callbacks of a tab (timer, frame,    *)
(* visibility, reachability, the answer to a revalidation) run in any      *)
(* order, as the browser runs them.                                        *)
(*                                                                         *)
(* Time is abstracted: a timer fires some time after it was set, and the   *)
(* longest delay is like any other.  What a connection carries is left to  *)
(* Realtime; source addresses and access tokens are left out.              *)
(***************************************************************************)
EXTENDS Integers, Sequences, SequencesExt, FiniteSets

CONSTANTS
    Tab,
    Socket,      \* bound: connections there may be at once
    NoTab, NoSocket,
    MaxPerUser,  \* MAX_SOCKETS_PER_USER
    MaxFaults,   \* bound: losses, slow lookups, failed requests
    MaxLooks     \* bound: tabs shown or hidden

ASSUME SocketAssumption ==
    /\ NoTab \notin Tab /\ NoSocket \notin Socket
    /\ MaxPerUser \in Nat \ {0} /\ {MaxFaults, MaxLooks} \subseteq Nat

VARIABLES
    tab,        \* the client of each tab
    sock,       \* the two ends of each connection and the frames between them
    registered, \* socketStates, in the order of insertion
    live,       \* whether the session's row is there
    entry,      \* whether a sessions_revoked entry is on the bus
    faults, looks

vars == <<tab, sock, registered, live, entry, faults, looks>>

-----------------------------------------------------------------------------
\* asking counts the revalidations under way; reachable is connectivity's.
TabState == [stopped : BOOLEAN, socket : Socket \cup {NoSocket},
             timer : BOOLEAN, watching : BOOLEAN, visible : BOOLEAN,
             evicted : BOOLEAN, reachable : BOOLEAN, asking : Nat]

Frame == {"auth_ok", "unauthorized", "too_many", "lost"}
ServerEnd == {"waiting", "found", "in", "closing", "gone"}
SocketState == [tab : Tab \cup {NoTab}, client : {"open", "gone"},
                server : ServerEnd, down : Seq(Frame)]

Free == [tab |-> NoTab, client |-> "gone", server |-> "gone", down |-> <<>>]

\* A connection both ends have let go of.
Tidy(all) == [s \in Socket |->
    IF all[s].client = "gone" /\ all[s].server = "gone" THEN Free ELSE all[s]]

Init ==
    /\ \E shown \in SUBSET Tab : tab =
          [t \in Tab |-> [stopped |-> TRUE, socket |-> NoSocket,
                          timer |-> FALSE, watching |-> FALSE, visible |-> t \in shown,
                          evicted |-> FALSE, reachable |-> TRUE, asking |-> 0]]
    /\ sock = [s \in Socket |-> Free]
    /\ registered = <<>>
    /\ live = TRUE /\ entry = FALSE
    /\ faults = 0 /\ looks = 0

\* Bounds: the end of the session is the one fault of its behaviour.
Fault == faults < MaxFaults /\ faults' = faults + 1
OnlyFault == faults = 0 /\ faults' = MaxFaults
Look == looks < MaxLooks /\ looks' = looks + 1

-----------------------------------------------------------------------------
(* The tab.                                                                *)
\* #open replaces #socket, whatever it held, and its first frame is the token.
\* Any free slot will do.
Opens(t, c) ==
    /\ \E s \in Socket : sock[s] = Free
    /\ LET s == CHOOSE f \in Socket : sock[f] = Free
       IN /\ tab' = [tab EXCEPT ![t] = [c EXCEPT !.socket = s]]
          /\ sock' = [sock EXCEPT ![s] = [tab |-> t, client |-> "open",
                                          server |-> "waiting", down |-> <<>>]]

\* A faulty form: an evicted tab sets no timer, it has been told to stand down.
ScheduledUnlessEvicted(c) == IF c.stopped \/ c.evicted THEN c ELSE [c EXCEPT !.timer = TRUE]

Scheduled(c) == IF c.stopped THEN c ELSE [c EXCEPT !.timer = TRUE]

Connect(t) ==
    /\ tab[t].stopped /\ live
    /\ Opens(t, [tab[t] EXCEPT !.stopped = FALSE])
    /\ UNCHANGED <<registered, live, entry, faults, looks>>

\* The timer's callback does not look at #socket.
TimerFires(t) ==
    /\ tab[t].timer
    /\ Opens(t, [tab[t] EXCEPT !.timer = FALSE])
    /\ UNCHANGED <<registered, live, entry, faults, looks>>

\* #reconnectNow: an evicted tab does not wait for the network.
MayReconnect(c) == ~c.evicted /\ ~c.stopped /\ c.socket = NoSocket

\* Something answers: reachable becomes true and the effect on it runs.
Reached(t) ==
    /\ ~tab[t].reachable
    /\ LET c == [tab[t] EXCEPT !.reachable = TRUE]
       IN IF MayReconnect(c)
          THEN Opens(t, [c EXCEPT !.timer = FALSE])
          ELSE tab' = [tab EXCEPT ![t] = c] /\ UNCHANGED sock
    /\ UNCHANGED <<registered, live, entry, faults, looks>>

\* A fetch without an answer, or the browser's offline event.
Unreachable(t) ==
    /\ tab[t].reachable /\ ~tab[t].stopped /\ Fault
    /\ tab' = [tab EXCEPT ![t].reachable = FALSE]
    /\ UNCHANGED <<sock, registered, live, entry, looks>>

\* #onVisible runs while the tab watches for it.
Show(t) ==
    /\ ~tab[t].visible /\ Look
    /\ LET c == [tab[t] EXCEPT !.visible = TRUE]
       IN IF c.watching /\ ~c.stopped /\ c.socket = NoSocket
          THEN Opens(t, [c EXCEPT !.watching = FALSE])
          ELSE tab' = [tab EXCEPT ![t] = c] /\ UNCHANGED sock
    /\ UNCHANGED <<registered, live, entry, faults>>

Hide(t) ==
    /\ tab[t].visible /\ Look
    /\ tab' = [tab EXCEPT ![t].visible = FALSE]
    /\ UNCHANGED <<sock, registered, live, entry, faults>>

\* A faulty form: a hidden tab retries like any other.
WatchesAndRetries(c) == Scheduled(c)

\* #yieldSlot of a hidden tab: no timer, it waits to be looked at.
Watches(c) == [c EXCEPT !.timer = FALSE, !.watching = TRUE]

\* #onClose of the current socket: its code says what is done next.
Closed(c, code) ==
    LET off == [c EXCEPT !.socket = NoSocket,
                         !.evicted = code = "too_many"]
    IN CASE code = "unauthorized" -> [off EXCEPT !.asking = @ + 1]
         [] code = "too_many" -> IF off.visible \/ off.stopped
                                 THEN Scheduled(off) ELSE Watches(off)
         [] code = "lost" -> Scheduled(off)

\* A frame or a close.  Frames are handled whichever of the tab's sockets they
\* come from, closes only on the current one.
ClientReceives(s) ==
    /\ sock[s].down # <<>>
    /\ LET t == sock[s].tab
           frame == Head(sock[s].down)
       IN IF frame = "auth_ok"
          THEN /\ tab' = [tab EXCEPT ![t].evicted = FALSE]
               /\ sock' = [sock EXCEPT ![s].down = Tail(@)]
          ELSE /\ tab' = [tab EXCEPT ![t] =
                     IF tab[t].socket = s THEN Closed(@, frame) ELSE @]
               /\ sock' = Tidy([sock EXCEPT ![s].client = "gone", ![s].down = <<>>])
    /\ UNCHANGED <<registered, live, entry, faults, looks>>

\* disconnect(): every handler is taken off and the socket closed.
Stopped(c) == [c EXCEPT !.stopped = TRUE, !.socket = NoSocket,
                        !.timer = FALSE, !.watching = FALSE, !.evicted = FALSE]
HungUp(t) == Tidy([s \in Socket |->
    IF s = tab[t].socket THEN [sock[s] EXCEPT !.client = "gone", !.down = <<>>] ELSE sock[s]])

\* #revalidateSession ends: 401 signs the tab out, anything else reconnects.
Revalidated(t) ==
    /\ tab[t].asking > 0
    /\ LET c == [tab[t] EXCEPT !.asking = @ - 1]
       IN IF live \/ c.stopped
          THEN /\ tab' = [tab EXCEPT ![t] = Scheduled(c)]
               /\ UNCHANGED sock
          ELSE /\ tab' = [tab EXCEPT ![t] = Stopped(c)]
               /\ sock' = HungUp(t)
    /\ UNCHANGED <<registered, live, entry, faults, looks>>

\* Signing out in a tab deletes the session's row and publishes nothing.
LogOut(t) ==
    /\ ~tab[t].stopped /\ live /\ OnlyFault
    /\ live' = FALSE
    /\ tab' = [tab EXCEPT ![t] = Stopped(@)]
    /\ sock' = HungUp(t)
    /\ UNCHANGED <<registered, entry, looks>>

-----------------------------------------------------------------------------
(* The pod.                                                                *)
\* A faulty form: a socket is forgotten by its rooms only.
OutOfRooms(s) == registered

Out(s) == SelectSeq(registered, LAMBDA r : r # s)

\* ws.close(): the code follows what was sent before it.
CloseWith(all, s, code) ==
    [all EXCEPT ![s].server = "closing",
                ![s].down = IF all[s].client = "gone" THEN <<>> ELSE Append(@, code)]

\* The token's row is read; a row that is found is used later.
Lookup(s) ==
    /\ sock[s].server = "waiting"
    /\ sock' = IF live THEN [sock EXCEPT ![s].server = "found"]
               ELSE CloseWith(sock, s, "unauthorized")
    /\ UNCHANGED <<tab, registered, live, entry, faults, looks>>

\* A faulty form: the socket that is being let in is not counted.
ExcessLate(all) ==
    IF Len(all) > MaxPerUser + 1 THEN ToSet(SubSeq(all, 1, Len(all) - MaxPerUser - 1)) ELSE {}

\* evictExcessUserSockets: the oldest that exceed the ceiling.
Excess(all) == IF Len(all) > MaxPerUser THEN ToSet(SubSeq(all, 1, Len(all) - MaxPerUser)) ELSE {}

Register(s) ==
    /\ sock[s].server = "found"
    /\ LET all == Append(registered, s)
           gone == Excess(all)
           greeted == [sock EXCEPT ![s].server = "in",
                                   ![s].down = IF s \in gone \/ sock[s].client = "gone"
                                               THEN @ ELSE Append(@, "auth_ok")]
       IN /\ registered' = SelectSeq(all, LAMBDA r : r \notin gone)
          /\ sock' = [r \in Socket |-> IF r \in gone THEN CloseWith(greeted, r, "too_many")[r]
                                       ELSE greeted[r]]
    /\ UNCHANGED <<tab, live, entry, faults, looks>>

\* The ten seconds for the lookup are over.
AuthTimeout(s) ==
    /\ sock[s].server \in {"waiting", "found"} /\ Fault
    /\ sock' = CloseWith(sock, s, "unauthorized")
    /\ UNCHANGED <<tab, registered, live, entry, looks>>

\* A faulty form: a socket that was let in is trusted from then on.
RecheckedNever(s) == FALSE

\* The heartbeat's credentialIsLive.
Rechecked(s) == sock[s].server = "in" /\ ~live

\* The socket stays registered until its close event.
Heartbeat(s) ==
    /\ Rechecked(s)
    /\ sock' = CloseWith(sock, s, "unauthorized")
    /\ UNCHANGED <<tab, registered, live, entry, faults, looks>>

\* The end of a close, of a connection whose other end has hung up, and of one
\* whose pings are not answered: a tab answers them on its current socket only.
ServerCloses(s) ==
    /\ \/ sock[s].server = "closing" /\ sock[s].down = <<>>
       \/ sock[s].server \in {"waiting", "found", "in"} /\ sock[s].client = "gone"
    /\ registered' = Out(s)
    /\ sock' = Tidy([sock EXCEPT ![s].server = "gone"])
    /\ UNCHANGED <<tab, live, entry, faults, looks>>

Terminate(s) ==
    /\ sock[s].server = "in" /\ sock[s].client = "open"
    /\ tab[sock[s].tab].socket # s
    /\ registered' = Out(s)
    /\ sock' = Tidy([sock EXCEPT ![s].server = "gone", ![s].client = "gone", ![s].down = <<>>])
    /\ UNCHANGED <<tab, live, entry, faults, looks>>

\* The network drops a connection: the tab is told, the pod will find out.
Lose(s) ==
    /\ sock[s].client = "open" /\ "lost" \notin ToSet(sock[s].down) /\ Fault
    /\ sock' = [sock EXCEPT ![s].down = <<"lost">>]
    /\ UNCHANGED <<tab, registered, live, entry, looks>>

-----------------------------------------------------------------------------
\* DELETE /sessions/:id from elsewhere commits and publishes.
RevokeSession ==
    /\ live /\ OnlyFault
    /\ live' = FALSE /\ entry' = TRUE
    /\ UNCHANGED <<tab, sock, registered, looks>>

\* closeSocketsForCredential: out of the state at once, then closed.
HandleRevoked ==
    /\ entry
    /\ entry' = FALSE
    /\ registered' = <<>>
    /\ sock' = [s \in Socket |-> IF s \in ToSet(registered)
                                 THEN CloseWith(sock, s, "unauthorized")[s] ELSE sock[s]]
    /\ UNCHANGED <<tab, live, faults, looks>>

-----------------------------------------------------------------------------
TabStep(t) == TimerFires(t) \/ Revalidated(t)
SocketStep(s) == \/ ClientReceives(s) \/ Lookup(s) \/ Register(s)
                 \/ Heartbeat(s) \/ ServerCloses(s) \/ Terminate(s)

Next ==
    \/ \E t \in Tab : TabStep(t) \/ Connect(t) \/ Reached(t) \/ Unreachable(t)
                      \/ Show(t) \/ Hide(t) \/ LogOut(t)
    \/ \E s \in Socket : SocketStep(s) \/ AuthTimeout(s) \/ Lose(s)
    \/ RevokeSession \/ HandleRevoked

Spec == Init /\ [][Next]_vars

\* Timers fire, requests settle, frames arrive, and the pod's heartbeats run.
\* Nobody has to sign out, lose a connection or look at a tab.
Fairness ==
    /\ \A t \in Tab : WF_vars(TabStep(t))
    /\ \A s \in Socket : WF_vars(SocketStep(s))
    /\ WF_vars(HandleRevoked)

FairSpec == Spec /\ Fairness

-----------------------------------------------------------------------------
(* Properties.                                                             *)
\* Types of the state, and the list of sockets against the sockets.
TypeOK ==
    /\ tab \in [Tab -> TabState] /\ sock \in [Socket -> SocketState]
    /\ \A i, j \in 1 .. Len(registered) : registered[i] = registered[j] => i = j
    /\ \A s \in ToSet(registered) : sock[s].server \in {"in", "closing"}
    /\ {live, entry} \subseteq BOOLEAN

\* The pod never holds more sockets of an account than the ceiling, while old
\* ones linger half open and new ones come (MAX_SOCKETS_PER_USER).
BelowCeiling == Len(registered) \leq MaxPerUser

\* A tab that runs without a connection has something that will bring it back:
\* a timer, a revalidation that will set one, or, hidden, the next look at it
\* (#onVisible's "would strand the tab with no way to reconnect at all").
TabHasAWaker ==
    \A t \in Tab : ~tab[t].stopped /\ tab[t].socket = NoSocket =>
        tab[t].timer \/ tab[t].asking > 0 \/ (tab[t].watching /\ ~tab[t].visible)

\* No more than one connection of a tab is open or being opened
\* (#reconnectNow's comment, "cannot stack a second socket").  It does not hold:
\* README.md, "Where the code and its comments differ".
OneSocketPerTab ==
    \A s, r \in Socket :
        (/\ sock[s].client # "gone" /\ sock[r].client # "gone"
         /\ sock[s].tab = sock[r].tab) => s = r

\* A connection does not outlive the session it was let in with, though the
\* lookup may have read the row before it went and a sign-out publishes nothing
\* ("a socket must not outlive its own", transport.ts).
DeadSessionsClose == ~live ~> registered = <<>>

\* When no more tabs are looked at than the account may have connections, each
\* of them ends up connected and stays so: giving a slot up does not become a
\* rotation (#yieldSlot's comment).
Wanted == {t \in Tab : ~tab[t].stopped /\ tab[t].visible}
Connected(t) == tab[t].socket # NoSocket /\ sock[tab[t].socket].server = "in"
VisibleTabsSettle ==
    <>[](live /\ Cardinality(Wanted) \leq MaxPerUser)
        => <>[](\A t \in Wanted : Connected(t))
=============================================================================
