---------------------------- MODULE SocketsProofs ----------------------------
(***************************************************************************)
(* No tab of Sockets is ever stranded, for any tabs, connections and       *)
(* ceiling.                                                                *)
(*                                                                         *)
(* TabHasAWaker speaks of the tabs and is kept by every callback of a tab, *)
(* but which one runs depends on the frames: a close whose code none of    *)
(* #onClose's branches knew would leave the tab with nothing.  The types   *)
(* of the frames under way are what the invariant adds.                    *)
(***************************************************************************)
EXTENDS Sockets, SequenceTheorems, TLAPS

\* The clients, the connections and the frames on them.
Typed == tab \in [Tab -> TabState] /\ sock \in [Socket -> SocketState]

HasAWaker(c) ==
    ~c.stopped /\ c.socket = NoSocket =>
        c.timer \/ c.asking > 0 \/ (c.watching /\ ~c.visible)

WInv == Typed /\ \A t \in Tab : HasAWaker(tab[t])

-----------------------------------------------------------------------------
\* A free connection is a connection, and tidying keeps the type.
LEMMA TidyType ==
    ASSUME NEW all \in [Socket -> SocketState]
    PROVE  Tidy(all) \in [Socket -> SocketState]
  <1>1. <<>> \in Seq(Frame)
    OBVIOUS
  <1>2. Free \in SocketState
    BY <1>1 DEF Free, SocketState, ServerEnd
  <1> QED  BY <1>2 DEF Tidy

\* Changing one connection, or all of them, field by field.
LEMMA CloseWithType ==
    ASSUME NEW all \in [Socket -> SocketState], NEW s \in Socket, NEW code \in Frame
    PROVE  CloseWith(all, s, code) \in [Socket -> SocketState]
  <1> DEFINE down == IF all[s].client = "gone" THEN <<>> ELSE Append(all[s].down, code)
  <1>1. all[s] \in SocketState
    OBVIOUS
  <1>2. down \in Seq(Frame)
    BY <1>1 DEF SocketState
  <1>3. CloseWith(all, s, code) = [all EXCEPT ![s] = [all[s] EXCEPT !.server = "closing",
                                                                    !.down = down]]
    BY DEF CloseWith
  <1> HIDE DEF down
  <1>4. [all[s] EXCEPT !.server = "closing", !.down = down] \in SocketState
    BY <1>1, <1>2 DEF SocketState, ServerEnd
  <1> QED  BY <1>3, <1>4

-----------------------------------------------------------------------------
(* What a tab does with itself.                                            *)

\* Opening leaves the tab with a connection.
LEMMA OpensKeeps ==
    ASSUME WInv, NEW t \in Tab, NEW c \in TabState, Opens(t, c)
    PROVE  WInv'
  <1> DEFINE s == CHOOSE f \in Socket : sock[f] = Free
  <1>1. s \in Socket
    BY DEF Opens
  <1>2. /\ tab' = [tab EXCEPT ![t] = [c EXCEPT !.socket = s]]
        /\ sock' = [sock EXCEPT ![s] = [tab |-> t, client |-> "open",
                                        server |-> "waiting", down |-> <<>>]]
    BY DEF Opens
  <1> HIDE DEF s
  <1>3. [tab |-> t, client |-> "open", server |-> "waiting", down |-> <<>>] \in SocketState
    <2>1. <<>> \in Seq(Frame)
      OBVIOUS
    <2> QED  BY <2>1 DEF SocketState, ServerEnd
  <1>4. /\ [c EXCEPT !.socket = s] \in TabState
        /\ [c EXCEPT !.socket = s].socket = s
    BY <1>1 DEF TabState
  <1>5. HasAWaker([c EXCEPT !.socket = s])
    BY <1>1, <1>4, SocketAssumption DEF HasAWaker
  <1> QED  BY <1>2, <1>3, <1>4, <1>5 DEF WInv, Typed

\* A tab that changes otherwise is left with a waker.
LEMMA TabKeeps ==
    ASSUME WInv, NEW t \in Tab, NEW c \in TabState, HasAWaker(c),
           tab' = [tab EXCEPT ![t] = c], sock' \in [Socket -> SocketState]
    PROVE  WInv'
  BY DEF WInv, Typed

\* A pod's step leaves the tabs alone.
LEMMA PodKeeps ==
    ASSUME WInv, UNCHANGED tab, sock' \in [Socket -> SocketState]
    PROVE  WInv'
  BY DEF WInv, Typed, HasAWaker

\* Scheduling, and standing down, need no premise.
LEMMA WakersSet ==
    ASSUME NEW c \in TabState
    PROVE  /\ Scheduled(c) \in TabState /\ HasAWaker(Scheduled(c))
           /\ Stopped(c) \in TabState /\ HasAWaker(Stopped(c))
           /\ ~c.visible => Watches(c) \in TabState /\ HasAWaker(Watches(c))
  BY DEF Scheduled, Stopped, Watches, HasAWaker, TabState

\* Each close leaves a waker, whatever its code.
LEMMA ClosedHasAWaker ==
    ASSUME NEW c \in TabState, NEW code \in Frame \ {"auth_ok"}
    PROVE  Closed(c, code) \in TabState /\ HasAWaker(Closed(c, code))
  <1> DEFINE e == code = "too_many"
             off == [c EXCEPT !.socket = NoSocket, !.evicted = e]
  <1>1. off \in TabState /\ off.visible = c.visible /\ off.stopped = c.stopped
    BY DEF TabState
  <1>2. CASE code = "unauthorized"
    <2>1. Closed(c, code) = [off EXCEPT !.asking = @ + 1]
      BY <1>2 DEF Closed
    <2> HIDE DEF off
    <2> QED  BY <1>1, <2>1 DEF TabState, HasAWaker
  <1>3. CASE code = "too_many"
    <2>1. Closed(c, code) = IF off.visible \/ off.stopped THEN Scheduled(off) ELSE Watches(off)
      BY <1>3 DEF Closed
    <2> HIDE DEF off
    <2> QED  BY <1>1, <2>1, WakersSet
  <1>4. CASE code = "lost"
    <2>1. Closed(c, code) = Scheduled(off)
      BY <1>4 DEF Closed
    <2> HIDE DEF off
    <2> QED  BY <1>1, <2>1, WakersSet
  <1> QED  BY <1>2, <1>3, <1>4 DEF Frame

-----------------------------------------------------------------------------
(* The steps of a tab.                                                     *)

LEMMA ConnectKeeps ==
    ASSUME WInv, NEW t \in Tab, Connect(t)
    PROVE  WInv'
  <1>1. [tab[t] EXCEPT !.stopped = FALSE] \in TabState
    BY DEF WInv, Typed, TabState
  <1> QED  BY <1>1, OpensKeeps DEF Connect

LEMMA TimerFiresKeeps ==
    ASSUME WInv, NEW t \in Tab, TimerFires(t)
    PROVE  WInv'
  <1>1. [tab[t] EXCEPT !.timer = FALSE] \in TabState
    BY DEF WInv, Typed, TabState
  <1> QED  BY <1>1, OpensKeeps DEF TimerFires

LEMMA ReachedKeeps ==
    ASSUME WInv, NEW t \in Tab, Reached(t)
    PROVE  WInv'
  <1> DEFINE c == [tab[t] EXCEPT !.reachable = TRUE]
  <1>1. c \in TabState /\ [c EXCEPT !.timer = FALSE] \in TabState /\ HasAWaker(c)
    BY DEF WInv, Typed, TabState, HasAWaker
  <1>2. Opens(t, [c EXCEPT !.timer = FALSE]) \/ (tab' = [tab EXCEPT ![t] = c] /\ UNCHANGED sock)
    BY DEF Reached
  <1>3. sock \in [Socket -> SocketState]
    BY DEF WInv, Typed
  <1> HIDE DEF c
  <1> QED  BY <1>1, <1>2, <1>3, OpensKeeps, TabKeeps

LEMMA UnreachableKeeps ==
    ASSUME WInv, NEW t \in Tab, Unreachable(t)
    PROVE  WInv'
  <1> DEFINE c == [tab[t] EXCEPT !.reachable = FALSE]
  <1>1. c \in TabState /\ HasAWaker(c)
    BY DEF WInv, Typed, TabState, HasAWaker
  <1>2. tab' = [tab EXCEPT ![t] = c] /\ sock' \in [Socket -> SocketState]
    BY DEF Unreachable, WInv, Typed
  <1> QED  BY <1>1, <1>2, TabKeeps

\* A tab that is looked at while it watches opens; one that does not watch has
\* another waker.
LEMMA ShowKeeps ==
    ASSUME WInv, NEW t \in Tab, Show(t)
    PROVE  WInv'
  <1> DEFINE c == [tab[t] EXCEPT !.visible = TRUE]
  <1>1. c \in TabState /\ [c EXCEPT !.watching = FALSE] \in TabState
    BY DEF WInv, Typed, TabState
  <1>2. CASE c.watching /\ ~c.stopped /\ c.socket = NoSocket
    <2>1. Opens(t, [c EXCEPT !.watching = FALSE])
      BY <1>2 DEF Show
    <2> QED  BY <1>1, <2>1, OpensKeeps
  <1>3. CASE ~(c.watching /\ ~c.stopped /\ c.socket = NoSocket)
    <2>1. HasAWaker(c)
      BY <1>3 DEF WInv, Typed, TabState, HasAWaker
    <2>2. tab' = [tab EXCEPT ![t] = c] /\ sock' \in [Socket -> SocketState]
      BY <1>3 DEF Show, WInv, Typed
    <2> QED  BY <1>1, <2>1, <2>2, TabKeeps
  <1> QED  BY <1>2, <1>3

LEMMA HideKeeps ==
    ASSUME WInv, NEW t \in Tab, Hide(t)
    PROVE  WInv'
  <1> DEFINE c == [tab[t] EXCEPT !.visible = FALSE]
  <1>1. c \in TabState /\ HasAWaker(c)
    BY DEF WInv, Typed, TabState, HasAWaker
  <1>2. tab' = [tab EXCEPT ![t] = c] /\ sock' \in [Socket -> SocketState]
    BY DEF Hide, WInv, Typed
  <1> QED  BY <1>1, <1>2, TabKeeps

\* Hanging up keeps the connections' type.
LEMMA HungUpType ==
    ASSUME WInv, NEW t \in Tab
    PROVE  HungUp(t) \in [Socket -> SocketState]
  <1> DEFINE cut(s) == [sock[s] EXCEPT !.client = "gone", !.down = <<>>]
             all == [s \in Socket |-> IF s = tab[t].socket THEN cut(s) ELSE sock[s]]
  <1>1. \A s \in Socket : sock[s] \in SocketState
    BY DEF WInv, Typed
  <1>2. \A s \in Socket : cut(s) \in SocketState
    <2>1. <<>> \in Seq(Frame)
      OBVIOUS
    <2> QED  BY <1>1, <2>1 DEF SocketState
  <1> HIDE DEF cut
  <1>3. all \in [Socket -> SocketState]
    BY <1>1, <1>2
  <1>4. HungUp(t) = Tidy(all)
    BY DEF HungUp, cut
  <1> HIDE DEF all
  <1> QED  BY <1>3, <1>4, TidyType

\* A revalidation that ends sets the timer, or signs the tab out.
LEMMA RevalidatedKeeps ==
    ASSUME WInv, NEW t \in Tab, Revalidated(t)
    PROVE  WInv'
  <1> DEFINE c == [tab[t] EXCEPT !.asking = @ - 1]
  <1>1. c \in TabState
    BY DEF Revalidated, WInv, Typed, TabState
  <1>2. \/ tab' = [tab EXCEPT ![t] = Scheduled(c)] /\ UNCHANGED sock
        \/ tab' = [tab EXCEPT ![t] = Stopped(c)] /\ sock' = HungUp(t)
    BY DEF Revalidated
  <1>3. sock' \in [Socket -> SocketState]
    BY <1>2, HungUpType DEF WInv, Typed
  <1> HIDE DEF c
  <1> QED  BY <1>1, <1>2, <1>3, WakersSet, TabKeeps

LEMMA LogOutKeeps ==
    ASSUME WInv, NEW t \in Tab, LogOut(t)
    PROVE  WInv'
  <1>1. tab[t] \in TabState
    BY DEF WInv, Typed
  <1>2. tab' = [tab EXCEPT ![t] = Stopped(tab[t])] /\ sock' = HungUp(t)
    BY DEF LogOut
  <1> QED  BY <1>1, <1>2, WakersSet, HungUpType, TabKeeps

\* A frame is handled; the last one of a connection is a close.
LEMMA ClientReceivesKeeps ==
    ASSUME WInv, NEW s \in Socket, ClientReceives(s)
    PROVE  WInv'
  <1> DEFINE t == sock[s].tab
             frame == Head(sock[s].down)
             cut == [sock[s] EXCEPT !.client = "gone", !.down = <<>>]
             left == [sock[s] EXCEPT !.down = Tail(@)]
  <1>1. sock[s] \in SocketState /\ sock[s].down \in Seq(Frame) /\ sock[s].down # <<>>
    BY DEF ClientReceives, WInv, Typed, SocketState
  <1>2. frame \in Frame /\ left \in SocketState /\ cut \in SocketState
    <2>1. Head(sock[s].down) \in Frame /\ Tail(sock[s].down) \in Seq(Frame)
      BY <1>1, HeadTailProperties
    <2>2. <<>> \in Seq(Frame)
      OBVIOUS
    <2>3. left \in SocketState
      BY <1>1, <2>1 DEF SocketState
    <2>4. cut \in SocketState
      BY <1>1, <2>2 DEF SocketState
    <2> QED  BY <2>1, <2>3, <2>4
  <1>3. sock \in [Socket -> SocketState] /\ tab \in [Tab -> TabState]
    BY DEF WInv, Typed
  <1>4. CASE frame = "auth_ok"
    <2>1. /\ tab' = [tab EXCEPT ![t] = [tab[t] EXCEPT !.evicted = FALSE]]
          /\ sock' = [sock EXCEPT ![s] = left]
      BY <1>4 DEF ClientReceives
    <2>2. sock' \in [Socket -> SocketState]
      BY <1>2, <1>3, <2>1
    <2>3. CASE t \in Tab
      <3>1. [tab[t] EXCEPT !.evicted = FALSE] \in TabState
        BY <1>3, <2>3 DEF TabState
      <3>2. HasAWaker([tab[t] EXCEPT !.evicted = FALSE])
        BY <1>3, <2>3 DEF WInv, HasAWaker, TabState
      <3> QED  BY <2>1, <2>2, <2>3, <3>1, <3>2, TabKeeps
    <2>4. CASE t \notin Tab
      <3>1. tab' = tab
        BY <1>3, <2>1, <2>4
      <3> QED  BY <2>2, <3>1, PodKeeps
    <2> QED  BY <2>3, <2>4
  <1>5. CASE frame # "auth_ok"
    <2>1. /\ tab' = [tab EXCEPT ![t] = IF tab[t].socket = s THEN Closed(tab[t], frame) ELSE tab[t]]
          /\ sock' = Tidy([sock EXCEPT ![s] = cut])
      BY <1>5 DEF ClientReceives
    <2>2. sock' \in [Socket -> SocketState]
      <3>1. [sock EXCEPT ![s] = cut] \in [Socket -> SocketState]
        BY <1>2, <1>3
      <3> HIDE DEF cut
      <3> QED  BY <2>1, <3>1, TidyType
    <2> HIDE DEF frame, cut
    <2>3. CASE t \in Tab /\ tab[t].socket = s
      <3>1. tab' = [tab EXCEPT ![t] = Closed(tab[t], frame)]
        BY <2>1, <2>3
      <3>2. tab[t] \in TabState
        BY <1>3, <2>3
      <3> QED  BY <1>2, <1>5, <2>2, <2>3, <3>1, <3>2, ClosedHasAWaker, TabKeeps
    <2>4. CASE ~(t \in Tab /\ tab[t].socket = s)
      <3>1. tab' = tab
        BY <1>3, <2>1, <2>4
      <3> QED  BY <2>2, <3>1, PodKeeps
    <2> QED  BY <2>3, <2>4
  <1> QED  BY <1>4, <1>5

-----------------------------------------------------------------------------
(* The steps of the pod.                                                   *)

LEMMA RegisterKeeps ==
    ASSUME WInv, NEW s \in Socket, Register(s)
    PROVE  WInv'
  <1> DEFINE gone == Excess(Append(registered, s))
             down == IF s \in gone \/ sock[s].client = "gone" THEN sock[s].down
                     ELSE Append(sock[s].down, "auth_ok")
             greeted == [sock EXCEPT ![s].server = "in",
                                     ![s].down = IF s \in gone \/ sock[s].client = "gone"
                                                 THEN @ ELSE Append(@, "auth_ok")]
  <1>1. sock \in [Socket -> SocketState] /\ sock[s] \in SocketState
    BY DEF WInv, Typed
  <1>2. UNCHANGED tab
    BY DEF Register
  <1>3. sock' = [r \in Socket |-> IF r \in gone THEN CloseWith(greeted, r, "too_many")[r]
                                 ELSE greeted[r]]
    BY Zenon DEF Register
  <1>4. greeted \in [Socket -> SocketState]
    <2>1. down \in Seq(Frame)
      <3>1. sock[s].down \in Seq(Frame) /\ "auth_ok" \in Frame
        BY <1>1 DEF SocketState, Frame
      <3>2. Append(sock[s].down, "auth_ok") \in Seq(Frame)
        BY <3>1, AppendProperties
      <3> QED  BY <3>1, <3>2
    <2>2. greeted = [sock EXCEPT ![s] = [sock[s] EXCEPT !.server = "in", !.down = down]]
      BY <1>1
    <2> HIDE DEF down, greeted
    <2>3. [sock[s] EXCEPT !.server = "in", !.down = down] \in SocketState
      BY <1>1, <2>1 DEF SocketState, ServerEnd
    <2> QED  BY <1>1, <2>2, <2>3
  <1> HIDE DEF greeted, gone
  <1>5. \A r \in Socket : CloseWith(greeted, r, "too_many") \in [Socket -> SocketState]
    BY <1>4, CloseWithType DEF Frame
  <1>6. sock' \in [Socket -> SocketState]
    BY <1>3, <1>4, <1>5
  <1> QED  BY <1>2, <1>6, PodKeeps

\* One connection is read, closed, ended or dropped.
LEMMA ConnectionKeeps ==
    ASSUME WInv, NEW s \in Socket,
           \/ Lookup(s) \/ AuthTimeout(s) \/ Heartbeat(s)
           \/ ServerCloses(s) \/ Terminate(s) \/ Lose(s)
    PROVE  WInv'
  <1>1. sock \in [Socket -> SocketState] /\ sock[s] \in SocketState
    BY DEF WInv, Typed
  <1>2. UNCHANGED tab
    BY DEF Lookup, AuthTimeout, Heartbeat, ServerCloses, Terminate, Lose
  <1>3. CloseWith(sock, s, "unauthorized") \in [Socket -> SocketState]
    BY <1>1, CloseWithType DEF Frame
  <1> DEFINE found == [sock[s] EXCEPT !.server = "found"]
             ended == [sock[s] EXCEPT !.server = "gone"]
             dropped == [sock[s] EXCEPT !.server = "gone", !.client = "gone", !.down = <<>>]
             cut == [sock[s] EXCEPT !.down = <<"lost">>]
  <1>4. {found, ended, dropped, cut} \subseteq SocketState
    <2>1. <<>> \in Seq(Frame) /\ <<"lost">> \in Seq(Frame)
      BY DEF Frame
    <2> QED  BY <1>1, <2>1 DEF SocketState, ServerEnd
  <1>5. \/ sock' = [sock EXCEPT ![s] = found]
        \/ sock' = CloseWith(sock, s, "unauthorized")
        \/ sock' = Tidy([sock EXCEPT ![s] = ended])
        \/ sock' = Tidy([sock EXCEPT ![s] = dropped])
        \/ sock' = [sock EXCEPT ![s] = cut]
    BY DEF Lookup, AuthTimeout, Heartbeat, ServerCloses, Terminate, Lose
  <1> HIDE DEF found, ended, dropped, cut
  <1>6. \A r \in {found, ended, dropped, cut} :
           [sock EXCEPT ![s] = r] \in [Socket -> SocketState]
    BY <1>1, <1>4
  <1>7. sock' \in [Socket -> SocketState]
    BY <1>3, <1>5, <1>6, TidyType
  <1> QED  BY <1>2, <1>7, PodKeeps

LEMMA HandleRevokedKeeps ==
    ASSUME WInv, HandleRevoked
    PROVE  WInv'
  <1>1. sock \in [Socket -> SocketState]
    BY DEF WInv, Typed
  <1>2. \A s \in Socket : CloseWith(sock, s, "unauthorized") \in [Socket -> SocketState]
    BY <1>1, CloseWithType DEF Frame
  <1>3. sock' = [s \in Socket |-> IF s \in ToSet(registered)
                                 THEN CloseWith(sock, s, "unauthorized")[s] ELSE sock[s]]
    BY DEF HandleRevoked
  <1>4. sock' \in [Socket -> SocketState]
    BY <1>1, <1>2, <1>3
  <1> QED  BY <1>4, PodKeeps DEF HandleRevoked

-----------------------------------------------------------------------------
LEMMA WInvInit == Init => WInv
  <1> SUFFICES ASSUME Init PROVE WInv
    OBVIOUS
  <1>1. sock \in [Socket -> SocketState]
    <2>1. <<>> \in Seq(Frame)
      OBVIOUS
    <2> QED  BY <2>1 DEF Init, Free, SocketState, ServerEnd
  <1>2. tab \in [Tab -> TabState]
    BY DEF Init, TabState
  <1>3. \A t \in Tab : HasAWaker(tab[t])
    BY DEF Init, HasAWaker
  <1> QED  BY <1>1, <1>2, <1>3 DEF WInv, Typed

LEMMA WInvNext == WInv /\ [Next]_vars => WInv'
  <1> SUFFICES ASSUME WInv, [Next]_vars PROVE WInv'
    OBVIOUS
  <1>1. ASSUME NEW t \in Tab,
               TabStep(t) \/ Connect(t) \/ Reached(t) \/ Unreachable(t)
               \/ Show(t) \/ Hide(t) \/ LogOut(t)
        PROVE  WInv'
    BY <1>1, TimerFiresKeeps, RevalidatedKeeps, ConnectKeeps, ReachedKeeps,
       UnreachableKeeps, ShowKeeps, HideKeeps, LogOutKeeps DEF TabStep
  <1>2. ASSUME NEW s \in Socket, SocketStep(s) \/ AuthTimeout(s) \/ Lose(s)
        PROVE  WInv'
    BY <1>2, ClientReceivesKeeps, RegisterKeeps, ConnectionKeeps DEF SocketStep
  <1>3. CASE RevokeSession
    BY <1>3, PodKeeps DEF RevokeSession, WInv, Typed
  <1>4. CASE UNCHANGED vars
    BY <1>4, PodKeeps DEF vars, WInv, Typed
  <1> QED  BY <1>1, <1>2, <1>3, <1>4, HandleRevokedKeeps DEF Next

LEMMA WInvAlways == Spec => []WInv
  BY WInvInit, WInvNext, PTL DEF Spec

-----------------------------------------------------------------------------
\* realtime.svelte.ts, #onVisible ("would strand the tab with no way to
\* reconnect at all"): in whatever order timers, frames, evictions, answers and
\* looks come, a tab that runs without a connection has something left that
\* will open one.
THEOREM NoTabIsStranded == Spec => []TabHasAWaker
  <1>1. WInv => TabHasAWaker
    BY DEF WInv, TabHasAWaker, HasAWaker
  <1> QED  BY <1>1, WInvAlways, PTL
=============================================================================
