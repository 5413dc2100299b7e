--------------------------- MODULE RealtimeProofs ---------------------------
(***************************************************************************)
(* The coverage token of Realtime misses no gap but the one it is known to *)
(* miss, for any cards, writes and faults.                                 *)
(*                                                                         *)
(* NoUnknownGap speaks of the board and is not inductive: the answer to a  *)
(* read makes the board a covered one, so that what has happened since the *)
(* answer was built must already be on its way.  ReadCovered says that of  *)
(* a built answer whose token still holds.  That a token taken before the  *)
(* last change of the subscription cannot hold again is Tokens: tokens are *)
(* counted up, never set back.                                             *)
(***************************************************************************)
EXTENDS Realtime, SequenceTheorems, TLAPS

\* An event of any version; the rows of the board need no type.
AnyEvent == [card : Card, kind : {"put", "patch", "drop"}, ver : Nat]
Frames == [type : {"auth_ok"}] \cup [type : {"event"}, event : AnyEvent]

Typed ==
    /\ db \in [Card -> [ver : Nat, on : BOOLEAN]]
    /\ published \subseteq [at : {"bus", "reading"}, event : AnyEvent]
    /\ socket \in [conn : {"closed", "opening", "online"}, authed : BOOLEAN, joined : BOOLEAN]
    /\ up \in Seq({"auth", "subscribe", "unsubscribe"})
    /\ down \in Seq(Frames)
    /\ coverage \in [token : Nat, on : BOOLEAN]
    /\ board = [open |-> board.open, rows |-> board.rows, under |-> board.under,
                stale |-> board.stale, loading |-> board.loading]
    /\ board.open \in BOOLEAN /\ board.under \in Int
    /\ read = [at |-> read.at, under |-> read.under, rows |-> read.rows]
    /\ read.under \in Int
    /\ drag \in [busy : BOOLEAN, queue : Seq(AnyEvent), refetch : BOOLEAN]

\* A subscription is under way only for an open board on an open connection.
Subscribed == coverage.on => board.open /\ socket.conn = "online"

\* No token is from the future.
Tokens == board.under \leq coverage.token /\ read.under \leq coverage.token

\* The events that are on their way to the screen.
InFrames == {down[i].event : i \in {j \in 1 .. Len(down) : down[j].type = "event"}}
InQueue == {drag.queue[i] : i \in 1 .. Len(drag.queue)}
Transit == {p.event : p \in published} \cup InFrames \cup InQueue

\* The screen was told of the newest version of a card or is going to be.
Covered(c) ==
    \/ c \in told \cup missed
    \/ \E e \in Transit : e.card = c /\ e.ver = db[c].ver

\* What an answer to a read of the board under a token that still holds has
\* not, is on its way.
ReadCovered ==
    (read.at = "built" /\ Holds(coverage, read.under)) =>
        \A c \in Card : read.rows[c].ver = db[c].ver \/ Covered(c)

\* NoUnknownGap, in terms of Covered.
BoardCovered ==
    Holds(coverage, board.under) =>
        \A c \in Card : \/ read.at = "sent"
                        \/ read.at = "built" /\ read.rows[c].ver = db[c].ver
                        \/ Covered(c)

Controlled == Typed /\ Subscribed /\ Tokens
GapInv == Controlled /\ ReadCovered /\ BoardCovered

-----------------------------------------------------------------------------
(* Tokens.                                                                 *)

\* A token holds only under a subscription, and only the current one does.
LEMMA HoldsNow ==
    ASSUME NEW cov, NEW t, Holds(cov, t)
    PROVE  cov.on /\ cov.token = t /\ t # Null
  BY DEF Holds, TokenNow

\* A read is sent under a token there is.
LEMMA RefetchToken ==
    ASSUME NEW cov \in [token : Nat, on : BOOLEAN]
    PROVE  LET r == Refetch(cov)
           IN  /\ r = [at |-> r.at, under |-> r.under, rows |-> r.rows]
               /\ r.at = "sent" /\ r.under \in Int /\ r.under \leq cov.token
  <1>1. TokenNow(cov) \in Int /\ TokenNow(cov) \leq cov.token
    BY DEF TokenNow, Null
  <1> QED  BY <1>1 DEF Refetch

LEMMA BeganToken ==
    ASSUME NEW cov \in [token : Nat, on : BOOLEAN]
    PROVE  /\ Began(cov) \in [token : Nat, on : BOOLEAN]
           /\ Began(cov).on /\ Began(cov).token = cov.token + 1
  BY DEF Began

LEMMA EndedToken ==
    ASSUME NEW cov \in [token : Nat, on : BOOLEAN]
    PROVE  /\ Ended(cov) \in [token : Nat, on : BOOLEAN]
           /\ ~Ended(cov).on /\ Ended(cov).token >= cov.token
           /\ ~cov.on => Ended(cov) = cov
  BY DEF Ended

\* Without a subscription nothing is claimed.
LEMMA NothingClaimed ==
    ASSUME ~coverage.on
    PROVE  ReadCovered /\ BoardCovered
  BY HoldsNow DEF ReadCovered, BoardCovered

-----------------------------------------------------------------------------
(* Steps by what they do to the events on their way.                       *)

\* A step that leaves reads, coverage and the board's token alone keeps what
\* they claim if it keeps what is covered and covers what it writes.
LEMMA CarriedOn ==
    ASSUME GapInv, Controlled',
           coverage' = coverage, read' = read, board'.under = board.under,
           \A c \in Card : coverage.on =>
              \/ Covered(c)'
              \/ ~Covered(c) /\ db'[c].ver = db[c].ver
    PROVE  GapInv'
  <1> USE HoldsNow DEF GapInv
  <1>1. ReadCovered'
    BY DEF ReadCovered
  <1>2. BoardCovered'
    BY DEF BoardCovered
  <1> QED  BY <1>1, <1>2

\* The events on their way stay on their way.
LEMMA StaysCovered ==
    ASSUME db' = db, told \subseteq told', missed \subseteq missed',
           NEW c \in Card, Covered(c),
           \A e \in Transit : \/ e \in Transit'
                              \/ e.card = c /\ e.ver = db[c].ver => c \in told' \cup missed'
    PROVE  Covered(c)'
  BY DEF Covered

LEMMA NewestOne ==
    ASSUME NEW e \in AnyEvent, NEW c \in Card, e.card = c, e.ver = db[c].ver
    PROVE  c \in Newest(<<e>>)
  <1>1. Len(<<e>>) = 1 /\ <<e>>[1] = e
    OBVIOUS
  <1> QED  BY <1>1 DEF Newest

-----------------------------------------------------------------------------
(* The server.                                                             *)

LEMMA WriteKeeps ==
    ASSUME GapInv, NEW c \in Card, NEW kind \in {"put", "patch", "drop"}, Write(c, kind)
    PROVE  GapInv'
  <1> DEFINE v == db[c].ver + 1
             p == [at |-> "bus", event |-> [card |-> c, kind |-> kind, ver |-> v]]
  <1>1. /\ db' = [db EXCEPT ![c] = [ver |-> v, on |-> kind # "drop"]]
        /\ published' = published \cup {p}
        /\ missed' = missed \ {c} /\ told' = told \ {c}
        /\ UNCHANGED <<socket, up, down, client>>
    BY DEF Write
  <1>2. v \in Nat /\ (kind # "drop") \in BOOLEAN
    BY DEF GapInv, Controlled, Typed
  <1> HIDE DEF v
  <1>3. p \in [at : {"bus", "reading"}, event : AnyEvent]
    BY <1>2 DEF AnyEvent
  <1>4. Controlled'
    BY <1>1, <1>2, <1>3 DEF GapInv, Controlled, Typed, Subscribed, Tokens, client
  <1>5. ASSUME NEW d \in Card
        PROVE  Covered(d)' \/ (~Covered(d) /\ db'[d].ver = db[d].ver)
    <2>1. Transit \subseteq Transit' /\ p.event \in Transit'
      BY <1>1 DEF Transit, InFrames, InQueue, client
    <2>2. CASE d = c
      <3>1. db'[d].ver = v
        BY <1>1, <2>2 DEF GapInv, Controlled, Typed
      <3> QED  BY <2>1, <2>2, <3>1 DEF Covered
    <2>3. CASE d # c
      <3>1. db'[d] = db[d]
        BY <1>1, <2>3 DEF GapInv, Controlled, Typed
      <3> QED  BY <1>1, <2>1, <2>3, <3>1 DEF Covered
    <2> QED  BY <2>2, <2>3
  <1> QED  BY <1>1, <1>4, <1>5, CarriedOn DEF client

\* An event that finds nobody in the room is missed.
LEMMA ResolveKeeps ==
    ASSUME GapInv, NEW p \in published, Resolve(p)
    PROVE  GapInv'
  <1> DEFINE q == [p EXCEPT !.at = "reading"]
  <1>1. UNCHANGED <<db, socket, up, down, client, told>>
    BY DEF Resolve
  <1>2. p \in [at : {"bus", "reading"}, event : AnyEvent]
    BY DEF GapInv, Controlled, Typed
  <1>3. q \in [at : {"bus", "reading"}, event : AnyEvent] /\ q.event = p.event
    BY <1>2
  <1>4. published' = (published \ {p}) \cup (IF socket.joined THEN {q} ELSE {})
    BY DEF Resolve
  <1> HIDE DEF q
  <1>5. Controlled'
    BY <1>1, <1>3, <1>4 DEF GapInv, Controlled, Typed, Subscribed, Tokens, client
  <1>6. ASSUME NEW c \in Card, coverage.on, Covered(c)
        PROVE  Covered(c)'
    <2>1. missed \subseteq missed'
      BY DEF Resolve
    <2>2. \A e \in Transit \ {p.event} : e \in Transit'
      BY <1>1, <1>4 DEF Transit, InFrames, InQueue, client
    <2>3. CASE socket.joined
      <3>1. p.event \in Transit'
        BY <1>3, <1>4, <2>3 DEF Transit
      <3> QED  BY <1>1, <1>6, <2>1, <2>2, <3>1, StaysCovered
    <2>4. CASE ~socket.joined
      <3>1. missed' = missed \cup Newest(<<p.event>>)
        BY <1>6, <2>4 DEF Resolve
      <3>2. p.event \in AnyEvent
        BY <1>2
      <3>3. p.event.card = c /\ p.event.ver = db[c].ver => c \in missed'
        BY <3>1, <3>2, NewestOne
      <3> QED  BY <1>1, <1>6, <2>1, <2>2, <3>3, StaysCovered
    <2> QED  BY <2>3, <2>4
  <1> QED  BY <1>1, <1>5, <1>6, CarriedOn DEF client

\* A frame that is sent is behind the others.
LEMMA FramesAppended ==
    ASSUME Typed, NEW f \in Frames, down' = Append(down, f)
    PROVE  /\ down' \in Seq(Frames) /\ InFrames \subseteq InFrames'
           /\ f.type = "event" => f.event \in InFrames'
  <1>1. /\ Append(down, f) \in Seq(Frames) /\ Len(Append(down, f)) = Len(down) + 1
        /\ \A i \in 1 .. Len(down) : Append(down, f)[i] = down[i]
        /\ Append(down, f)[Len(down) + 1] = f
    BY AppendProperties DEF Typed
  <1>2. Len(down) \in Nat
    BY LenProperties DEF Typed
  <1>3. InFrames \subseteq InFrames'
    <2>1. SUFFICES ASSUME NEW i \in 1 .. Len(down), down[i].type = "event"
                   PROVE  down[i].event \in InFrames'
      BY DEF InFrames
    <2>2. i \in 1 .. Len(down') /\ down'[i] = down[i]
      BY <1>1, <1>2
    <2> QED  BY <2>1, <2>2 DEF InFrames
  <1>4. ASSUME f.type = "event"
        PROVE  f.event \in InFrames'
    <2>1. Len(down) + 1 \in 1 .. Len(down') /\ down'[Len(down) + 1] = f
      BY <1>1, <1>2
    <2> QED  BY <1>4, <2>1 DEF InFrames
  <1> QED  BY <1>1, <1>3, <1>4

LEMMA SendKeeps ==
    ASSUME GapInv, NEW p \in published, Send(p)
    PROVE  GapInv'
  <1> DEFINE f == [type |-> "event", event |-> p.event]
  <1>1. /\ published' = published \ {p} /\ down' = Append(down, f)
        /\ UNCHANGED <<db, missed, socket, up, client, told>>
    BY DEF Send
  <1>2. f \in Frames /\ f.type = "event" /\ f.event = p.event
    BY DEF GapInv, Controlled, Typed, Frames
  <1> HIDE DEF f
  <1>3. Typed
    BY DEF GapInv, Controlled
  <1>4. down' \in Seq(Frames) /\ InFrames \subseteq InFrames' /\ p.event \in InFrames'
    BY <1>1, <1>2, <1>3, FramesAppended
  <1>5. Controlled'
    BY <1>1, <1>4 DEF GapInv, Controlled, Typed, Subscribed, Tokens, client
  <1>6. Transit \subseteq Transit'
    BY <1>1, <1>4 DEF Transit, InQueue, client
  <1>7. \A c \in Card : Covered(c) => Covered(c)'
    BY <1>1, <1>6, StaysCovered
  <1> QED  BY <1>1, <1>5, <1>7, CarriedOn DEF client

LEMMA ServerReceivesKeeps ==
    ASSUME GapInv, ServerReceives
    PROVE  GapInv'
  <1>1. UNCHANGED <<server, client, told>>
    BY DEF ServerReceives
  <1>2. Typed
    BY DEF GapInv, Controlled
  <1>3. Head(up) \in {"auth", "subscribe", "unsubscribe"}
        /\ up' \in Seq({"auth", "subscribe", "unsubscribe"})
    <2>1. up \in Seq({"auth", "subscribe", "unsubscribe"}) /\ up # <<>> /\ up' = Tail(up)
      BY DEF ServerReceives, GapInv, Controlled, Typed
    <2> HIDE DEF ServerReceives
    <2> QED  BY <2>1, HeadTailProperties
  <1>4. /\ socket' \in [conn : {"closed", "opening", "online"}, authed : BOOLEAN, joined : BOOLEAN]
        /\ socket'.conn = socket.conn
        /\ down' = down \/ down' = Append(down, [type |-> "auth_ok"])
    <2>1. socket \in [conn : {"closed", "opening", "online"}, authed : BOOLEAN, joined : BOOLEAN]
      BY <1>2 DEF Typed
    <2>2. CASE Head(up) = "auth"
      BY <2>1, <2>2 DEF ServerReceives
    <2>3. CASE Head(up) = "subscribe"
      BY <2>1, <2>3 DEF ServerReceives
    <2>4. CASE Head(up) = "unsubscribe"
      BY <2>1, <2>4 DEF ServerReceives
    <2> QED  BY <1>3, <2>2, <2>3, <2>4
  <1>5. down' \in Seq(Frames) /\ InFrames \subseteq InFrames'
    <2>1. [type |-> "auth_ok"] \in Frames
      BY DEF Frames
    <2>2. CASE down' = down
      BY <1>2, <2>2 DEF Typed, InFrames
    <2>3. CASE down' = Append(down, [type |-> "auth_ok"])
      BY <1>2, <2>1, <2>3, FramesAppended
    <2> QED  BY <1>4, <2>2, <2>3
  <1>6. Controlled'
    BY <1>1, <1>3, <1>4, <1>5 DEF GapInv, Controlled, Typed, Subscribed, Tokens, client, server
  <1>7. Transit \subseteq Transit'
    BY <1>1, <1>5 DEF Transit, InQueue, client, server
  <1>8. \A c \in Card : Covered(c) => Covered(c)'
    BY <1>1, <1>7, StaysCovered DEF server
  <1> QED  BY <1>1, <1>6, <1>8, CarriedOn DEF client, server

-----------------------------------------------------------------------------
(* Reads.                                                                  *)

\* A step that only sends a read: what the board claims is then in its answer.
LEMMA SentKeeps ==
    ASSUME Controlled', read'.at = "sent"
    PROVE  GapInv'
  BY DEF GapInv, ReadCovered, BoardCovered

\* The answer has every version there is.
LEMMA BuildKeeps ==
    ASSUME GapInv, BuildResponse
    PROVE  GapInv'
  <1>1. /\ read' = [read EXCEPT !.at = "built", !.rows = db]
        /\ UNCHANGED <<server, socket, up, down, coverage, board, drag, heal, told>>
    BY DEF BuildResponse
  <1>2. /\ read'.at = "built" /\ read'.rows = db /\ read'.under = read.under
        /\ read' = [at |-> read'.at, under |-> read'.under, rows |-> read'.rows]
    BY <1>1 DEF GapInv, Controlled, Typed
  <1>3. Controlled'
    BY <1>1, <1>2 DEF GapInv, Controlled, Typed, Subscribed, Tokens, server
  <1> QED  BY <1>1, <1>2, <1>3 DEF GapInv, ReadCovered, BoardCovered, server

\* The answer makes the board a covered one only if its token still holds.
LEMMA ArrivesKeeps ==
    ASSUME GapInv, ReadArrives
    PROVE  GapInv'
  <1> DEFINE under == IF Holds(coverage, read.under) THEN read.under ELSE Null
  <1>1. /\ read.at = "built" /\ read' = IdleRead
        /\ board' = [board EXCEPT !.rows = read.rows, !.stale = FALSE, !.loading = FALSE,
                                  !.under = under]
        /\ told' = told \cup {c \in Card : read.rows[c].ver = db[c].ver}
        /\ UNCHANGED <<server, socket, up, down, coverage, drag, heal>>
    BY DEF ReadArrives
  <1>2. under \in Int /\ under \leq coverage.token
    BY DEF GapInv, Controlled, Typed, Tokens, Null
  <1>3. Holds(coverage, under) => Holds(coverage, read.under) /\ under = read.under
    BY DEF Holds
  <1> HIDE DEF under
  <1>4. /\ board'.under = under /\ board'.open = board.open
        /\ board' = [open |-> board'.open, rows |-> board'.rows, under |-> board'.under,
                     stale |-> board'.stale, loading |-> board'.loading]
    BY <1>1 DEF GapInv, Controlled, Typed
  <1>5. /\ read'.at = "none" /\ read'.under = Null
        /\ read' = [at |-> read'.at, under |-> read'.under, rows |-> read'.rows]
    BY <1>1 DEF IdleRead
  <1>6. Controlled'
    BY <1>1, <1>2, <1>4, <1>5 DEF GapInv, Controlled, Typed, Subscribed, Tokens, server, Null
  <1>7. ReadCovered'
    BY <1>5 DEF ReadCovered
  <1>8. ASSUME Holds(coverage, under), NEW c \in Card
        PROVE  Covered(c)'
    <2>1. read.rows[c].ver = db[c].ver \/ Covered(c)
      BY <1>1, <1>3, <1>8 DEF GapInv, ReadCovered
    <2>2. CASE read.rows[c].ver = db[c].ver
      BY <1>1, <2>2 DEF Covered
    <2>3. CASE Covered(c)
      <3>1. Transit' = Transit
        BY <1>1 DEF Transit, InFrames, InQueue, server
      <3> QED  BY <1>1, <2>3, <3>1, StaysCovered DEF server
    <2> QED  BY <2>1, <2>2, <2>3
  <1>9. BoardCovered'
    BY <1>1, <1>4, <1>8 DEF BoardCovered, server
  <1> QED  BY <1>6, <1>7, <1>9 DEF GapInv

LEMMA FailsKeeps ==
    ASSUME GapInv, ReadFails
    PROVE  GapInv'
  <1>1. /\ read' = IdleRead
        /\ board' = [board EXCEPT !.under = Null, !.stale = TRUE, !.loading = FALSE]
        /\ UNCHANGED <<server, socket, up, down, coverage, drag, heal, told>>
    BY DEF ReadFails
  <1>2. /\ board'.under = Null /\ board'.open = board.open
        /\ board' = [open |-> board'.open, rows |-> board'.rows, under |-> board'.under,
                     stale |-> board'.stale, loading |-> board'.loading]
    BY <1>1 DEF GapInv, Controlled, Typed
  <1>3. /\ read'.at = "none" /\ read'.under = Null
        /\ read' = [at |-> read'.at, under |-> read'.under, rows |-> read'.rows]
    BY <1>1 DEF IdleRead
  <1>4. Controlled'
    BY <1>1, <1>2, <1>3 DEF GapInv, Controlled, Typed, Subscribed, Tokens, server, Null
  <1> QED  BY <1>2, <1>3, <1>4 DEF GapInv, ReadCovered, BoardCovered, Holds

LEMMA RevisitKeeps ==
    ASSUME GapInv, Revisit
    PROVE  GapInv'
  <1>1. /\ read' = Refetch(coverage)
        /\ UNCHANGED <<server, socket, up, down, coverage, board, drag, heal, told>>
    BY DEF Revisit
  <1>2. coverage \in [token : Nat, on : BOOLEAN]
    BY DEF GapInv, Controlled, Typed
  <1>3. Controlled'
    BY <1>1, <1>2, RefetchToken DEF GapInv, Controlled, Typed, Subscribed, Tokens, server
  <1> QED  BY <1>1, <1>2, <1>3, RefetchToken, SentKeeps

-----------------------------------------------------------------------------
(* Drags.                                                                  *)

LEMMA DragStartsKeeps ==
    ASSUME GapInv, DragStarts
    PROVE  GapInv'
  <1>1. /\ drag' = [drag EXCEPT !.busy = TRUE]
        /\ UNCHANGED <<server, socket, up, down, coverage, board, read, heal, told>>
    BY DEF DragStarts
  <1>2. Controlled' /\ drag'.queue = drag.queue
    BY <1>1 DEF GapInv, Controlled, Typed, Subscribed, Tokens, server
  <1>3. Transit \subseteq Transit'
    BY <1>1, <1>2 DEF Transit, InFrames, InQueue, server
  <1>4. \A c \in Card : Covered(c) => Covered(c)'
    BY <1>1, <1>3, StaysCovered DEF server
  <1> QED  BY <1>1, <1>2, <1>4, CarriedOn DEF server

\* The events of the queue are applied, or a read takes their place.
LEMMA DragEndsKeeps ==
    ASSUME GapInv, DragEnds
    PROVE  GapInv'
  <1>1. /\ drag' = NoDrag
        /\ UNCHANGED <<server, socket, up, down, coverage, heal>>
        /\ board' = Flushed(drag, board, told, read, coverage).board
        /\ told' = Flushed(drag, board, told, read, coverage).told
        /\ read' = Flushed(drag, board, told, read, coverage).read
    BY DEF DragEnds
  <1>2. drag' \in [busy : BOOLEAN, queue : Seq(AnyEvent), refetch : BOOLEAN]
    <2>1. <<>> \in Seq(AnyEvent)
      OBVIOUS
    <2> QED  BY <1>1, <2>1 DEF NoDrag
  <1>3. coverage \in [token : Nat, on : BOOLEAN]
    BY DEF GapInv, Controlled, Typed
  <1>4. CASE drag.refetch
    <2>1. board' = board /\ told' = told /\ read' = IF board.open THEN Refetch(coverage) ELSE read
      BY <1>1, <1>4 DEF Flushed
    <2>2. CASE board.open
      <3>1. Controlled'
        BY <1>1, <1>2, <1>3, <2>1, <2>2, RefetchToken
           DEF GapInv, Controlled, Typed, Subscribed, Tokens, server
      <3> QED  BY <1>3, <2>1, <2>2, <3>1, RefetchToken, SentKeeps
    <2>3. CASE ~board.open
      <3>1. Controlled'
        BY <1>1, <1>2, <2>1, <2>3 DEF GapInv, Controlled, Typed, Subscribed, Tokens, server
      <3>2. ~coverage'.on
        BY <1>1, <2>3 DEF GapInv, Controlled, Subscribed
      <3> QED  BY <1>1, <2>1, <2>3, <3>1, <3>2, CarriedOn
    <2> QED  BY <2>2, <2>3 DEF GapInv, Controlled, Typed
  <1>5. CASE ~drag.refetch
    <2> DEFINE events == IF board.open THEN drag.queue ELSE <<>>
               rows == AppliedAll(board.rows, events)
    <2>1. /\ board' = [board EXCEPT !.rows = rows]
          /\ told' = told \cup Newest(events) /\ read' = read
      BY <1>1, <1>5 DEF Flushed
    <2> HIDE DEF rows
    <2>2. /\ board'.under = board.under /\ board'.open = board.open
          /\ board' = [open |-> board'.open, rows |-> board'.rows, under |-> board'.under,
                       stale |-> board'.stale, loading |-> board'.loading]
      BY <2>1 DEF GapInv, Controlled, Typed
    <2>3. Controlled'
      BY <1>1, <1>2, <2>1, <2>2 DEF GapInv, Controlled, Typed, Subscribed, Tokens, server
    <2>4. ASSUME NEW c \in Card, coverage.on, Covered(c)
          PROVE  Covered(c)'
      <3>1. events = drag.queue
        BY <2>4 DEF GapInv, Controlled, Subscribed
      <3> HIDE DEF events
      <3>2. \A e \in Transit \ InQueue : e \in Transit'
        BY <1>1 DEF Transit, InFrames, server
      <3>3. \A e \in InQueue : e.card = c /\ e.ver = db[c].ver => c \in told'
        BY <2>1, <3>1 DEF InQueue, Newest
      <3> QED  BY <1>1, <2>1, <2>4, <3>2, <3>3, StaysCovered DEF server
    <2> QED  BY <1>1, <2>1, <2>2, <2>3, <2>4, CarriedOn DEF server
  <1> QED  BY <1>4, <1>5 DEF GapInv, Controlled, Typed

-----------------------------------------------------------------------------
(* The subscription comes and goes.                                        *)

\* After a step that ends the subscription nothing is claimed, after one that
\* begins one no token that was taken before holds.
LEMMA NewSubscription ==
    ASSUME GapInv, Controlled',
           ~coverage'.on \/ coverage'.token > coverage.token,
           board'.under = board.under \/ board'.under = Null,
           read'.at = "sent" \/ read' = read \/ read'.at = "none"
    PROVE  GapInv'
  <1>1. CASE ~coverage'.on
    <2>1. \A t : ~Holds(coverage', t)
      BY <1>1 DEF Holds, TokenNow
    <2> QED  BY <2>1 DEF GapInv, ReadCovered, BoardCovered
  <1>2. CASE coverage'.token > coverage.token
    <2>1. coverage.token \in Nat /\ coverage'.token \in Nat /\ board.under \in Int /\ read.under \in Int
      BY DEF GapInv, Controlled, Typed
    <2>2. \A t \in Int : t \leq coverage.token => ~Holds(coverage', t)
      BY <1>2, <2>1 DEF Holds, TokenNow
    <2>3. ~Holds(coverage', board'.under)
      BY <2>1, <2>2 DEF GapInv, Controlled, Tokens, Holds
    <2>4. read' = read => ~Holds(coverage', read'.under)
      BY <2>1, <2>2 DEF GapInv, Controlled, Tokens
    <2> QED  BY <2>3, <2>4 DEF GapInv, ReadCovered, BoardCovered
  <1> QED  BY <1>1, <1>2

LEMMA UpAppended ==
    ASSUME Typed
    PROVE  /\ up \in Seq({"auth", "subscribe", "unsubscribe"})
           /\ \A f \in {"subscribe", "unsubscribe"} :
                 Append(up, f) \in Seq({"auth", "subscribe", "unsubscribe"})
  BY AppendProperties DEF Typed

LEMMA EnterKeeps ==
    ASSUME GapInv, Enter
    PROVE  GapInv'
  <1>1. /\ board' = [open |-> TRUE, rows |-> NoRows, under |-> Null, stale |-> FALSE,
                     loading |-> TRUE]
        /\ read' = Refetch(coverage)
        /\ \/ socket.conn = "online" /\ up' = Append(up, "subscribe") /\ coverage' = Began(coverage)
           \/ UNCHANGED <<up, coverage>>
        /\ UNCHANGED <<db, published, socket, down, drag, heal>>
    BY DEF Enter
  <1>2. coverage \in [token : Nat, on : BOOLEAN] /\ ~coverage.on
    BY DEF Enter, GapInv, Controlled, Typed, Subscribed
  <1>3. /\ coverage' \in [token : Nat, on : BOOLEAN] /\ coverage'.token >= coverage.token
        /\ coverage'.on => socket.conn = "online" /\ coverage'.token > coverage.token
    <2>1. CASE socket.conn = "online" /\ coverage' = Began(coverage)
      <3>1. /\ Began(coverage) \in [token : Nat, on : BOOLEAN]
            /\ Began(coverage).token = coverage.token + 1 /\ coverage.token \in Nat
        BY <1>2, BeganToken
      <3> QED  BY <2>1, <3>1
    <2>2. CASE coverage' = coverage
      <3>1. coverage.token \in Nat
        BY <1>2
      <3> QED  BY <1>2, <2>2, <3>1
    <2> QED  BY <1>1, <2>1, <2>2
  <1>4. up' \in Seq({"auth", "subscribe", "unsubscribe"})
    BY <1>1, UpAppended DEF GapInv, Controlled
  <1>5. read'.under \in Int /\ read'.under \leq coverage.token /\ read'.at = "sent"
        /\ read' = [at |-> read'.at, under |-> read'.under, rows |-> read'.rows]
    BY <1>1, <1>2, RefetchToken
  <1>6. Controlled'
    BY <1>1, <1>2, <1>3, <1>4, <1>5 DEF GapInv, Controlled, Typed, Subscribed, Tokens, Null
  <1>7. board'.under = Null
    BY <1>1
  <1> QED  BY <1>3, <1>5, <1>6, <1>7, NewSubscription

LEMMA LeaveKeeps ==
    ASSUME GapInv, Leave
    PROVE  GapInv'
  <1>1. /\ board' = [open |-> FALSE, rows |-> NoRows, under |-> Null, stale |-> FALSE,
                     loading |-> FALSE]
        /\ read' = IdleRead /\ drag' = NoDrag
        /\ IF socket.conn = "online"
           THEN up' = Append(up, "unsubscribe") /\ coverage' = Ended(coverage)
           ELSE UNCHANGED <<up, coverage>>
        /\ UNCHANGED <<server, socket, down, heal, told>>
    BY DEF Leave
  <1>2. coverage \in [token : Nat, on : BOOLEAN] /\ (coverage.on => socket.conn = "online")
    BY DEF GapInv, Controlled, Typed, Subscribed
  <1>3. coverage' \in [token : Nat, on : BOOLEAN] /\ ~coverage'.on
    BY <1>1, <1>2, EndedToken
  <1>4. up' \in Seq({"auth", "subscribe", "unsubscribe"})
    BY <1>1, UpAppended DEF GapInv, Controlled
  <1>5. drag' \in [busy : BOOLEAN, queue : Seq(AnyEvent), refetch : BOOLEAN]
    <2>1. <<>> \in Seq(AnyEvent)
      OBVIOUS
    <2> QED  BY <1>1, <2>1 DEF NoDrag
  <1>6. /\ read'.at = "none" /\ read'.under = Null
        /\ read' = [at |-> read'.at, under |-> read'.under, rows |-> read'.rows]
    BY <1>1 DEF IdleRead
  <1>7. Controlled'
    BY <1>1, <1>3, <1>4, <1>5, <1>6 DEF GapInv, Controlled, Typed, Subscribed, Tokens, server, Null
  <1>8. board'.under = Null
    BY <1>1
  <1> QED  BY <1>3, <1>6, <1>7, <1>8, NewSubscription

LEMMA ReopenKeeps ==
    ASSUME GapInv, Reopen
    PROVE  GapInv'
  <1>1. /\ socket.conn = "closed" /\ socket' = [socket EXCEPT !.conn = "opening"]
        /\ up' = <<"auth">> /\ coverage' = Ended(coverage)
        /\ UNCHANGED <<server, down, board, read, drag, heal, told>>
    BY DEF Reopen
  <1>2. coverage \in [token : Nat, on : BOOLEAN] /\ ~coverage.on
    BY <1>1 DEF GapInv, Controlled, Typed, Subscribed
  <1>3. coverage' = coverage
    BY <1>1, <1>2, EndedToken
  <1>4. up' \in Seq({"auth", "subscribe", "unsubscribe"})
    BY <1>1
  <1>5. Controlled'
    BY <1>1, <1>2, <1>3, <1>4 DEF GapInv, Controlled, Typed, Subscribed, Tokens, server
  <1> QED  BY <1>1, <1>2, <1>3, <1>5, NewSubscription

LEMMA DisconnectKeeps ==
    ASSUME GapInv, Disconnect
    PROVE  GapInv'
  <1>1. /\ socket' = [conn |-> "closed", authed |-> FALSE, joined |-> FALSE]
        /\ up' = <<>> /\ down' = <<>>
        /\ published' = {p \in published : p.at = "bus"}
        /\ coverage' = Ended(coverage)
        /\ UNCHANGED <<db, missed, board, read, drag, heal, told>>
    BY DEF Disconnect
  <1>2. coverage \in [token : Nat, on : BOOLEAN]
    BY DEF GapInv, Controlled, Typed
  <1>3. coverage' \in [token : Nat, on : BOOLEAN] /\ ~coverage'.on
        /\ coverage'.token >= coverage.token
    BY <1>1, <1>2, EndedToken
  <1>4. up' \in Seq({"auth", "subscribe", "unsubscribe"}) /\ down' \in Seq(Frames)
    BY <1>1
  <1>5. board.under \leq coverage'.token /\ read.under \leq coverage'.token
    BY <1>2, <1>3 DEF GapInv, Controlled, Typed, Tokens
  <1>6. Controlled'
    BY <1>1, <1>3, <1>4, <1>5 DEF GapInv, Controlled, Typed, Subscribed, Tokens
  <1> QED  BY <1>1, <1>3, <1>6, NewSubscription

-----------------------------------------------------------------------------
(* Frames that reach the screen, and healing.                              *)

\* Healing sends a read, marks the drag, or does nothing.
LEMMA HealedShape ==
    ASSUME Typed, NEW cov \in [token : Nat, on : BOOLEAN]
    PROVE  LET h == Healed(drag, board, read, cov)
           IN  /\ h.drag \in [busy : BOOLEAN, queue : Seq(AnyEvent), refetch : BOOLEAN]
               /\ h.drag.queue = drag.queue
               /\ h.read = read \/ h.read = Refetch(cov)
  BY DEF Healed, Typed

LEMMA DrainEndsKeeps ==
    ASSUME GapInv, DrainEnds
    PROVE  GapInv'
  <1> DEFINE h == Healed(drag, board, read, coverage)
  <1>1. /\ drag' = h.drag /\ read' = h.read
        /\ UNCHANGED <<server, socket, up, down, coverage, board, told>>
    BY DEF DrainEnds
  <1>2. Typed /\ coverage \in [token : Nat, on : BOOLEAN]
    BY DEF GapInv, Controlled, Typed
  <1>3. /\ drag' \in [busy : BOOLEAN, queue : Seq(AnyEvent), refetch : BOOLEAN]
        /\ drag'.queue = drag.queue
        /\ read' = read \/ read' = Refetch(coverage)
    BY <1>1, <1>2, HealedShape
  <1> HIDE DEF h
  <1>4. Controlled'
    BY <1>1, <1>2, <1>3, RefetchToken DEF GapInv, Controlled, Typed, Subscribed, Tokens, server
  <1>5. CASE read' = read
    <2>1. Transit \subseteq Transit'
      BY <1>1, <1>3 DEF Transit, InFrames, InQueue, server
    <2>2. \A c \in Card : Covered(c) => Covered(c)'
      BY <1>1, <2>1, StaysCovered DEF server
    <2> QED  BY <1>1, <1>4, <1>5, <2>2, CarriedOn DEF server
  <1>6. CASE read' = Refetch(coverage)
    BY <1>2, <1>4, <1>6, RefetchToken, SentKeeps
  <1> QED  BY <1>3, <1>5, <1>6

\* The first frame is taken off; the others stay.
LEMMA FramesTaken ==
    ASSUME Typed, down # <<>>, down' = Tail(down)
    PROVE  /\ Head(down) \in Frames /\ down' \in Seq(Frames)
           /\ \A e \in InFrames : \/ e \in InFrames'
                                  \/ Head(down).type = "event" /\ e = Head(down).event
  <1>1. /\ Head(down) \in Frames /\ Tail(down) \in Seq(Frames)
        /\ Len(Tail(down)) = Len(down) - 1
        /\ \A i \in 1 .. Len(Tail(down)) : Tail(down)[i] = down[i + 1]
    BY HeadTailProperties DEF Typed
  <1>2. Len(down) \in Nat /\ Head(down) = down[1]
    BY LenProperties DEF Typed
  <1>3. ASSUME NEW i \in 1 .. Len(down), down[i].type = "event"
        PROVE  \/ down[i].event \in InFrames'
               \/ Head(down).type = "event" /\ down[i].event = Head(down).event
    <2>1. CASE i = 1
      BY <1>2, <1>3, <2>1
    <2>2. CASE i # 1
      <3>1. i - 1 \in 1 .. Len(down') /\ down'[i - 1] = down[i]
        BY <1>1, <1>2, <2>2
      <3> QED  BY <1>3, <3>1 DEF InFrames
    <2> QED  BY <2>1, <2>2
  <1> QED  BY <1>1, <1>3 DEF InFrames

\* auth_ok begins a new subscription for an open board.
LEMMA AuthOkKeeps ==
    ASSUME GapInv, NEW unsent \in BOOLEAN, AuthOk(unsent), UNCHANGED server,
           down' \in Seq(Frames)
    PROVE  GapInv'
  <1> DEFINE cov == IF board.open THEN Began(Ended(coverage)) ELSE coverage
             h == Healed(drag, board, read, cov)
  <1>1. /\ socket' = [socket EXCEPT !.conn = "online"]
        /\ up' = IF board.open THEN Append(up, "subscribe") ELSE up
        /\ coverage' = cov
        /\ \/ drag' = h.drag /\ read' = h.read
           \/ drag' = drag /\ read' = read
        /\ UNCHANGED <<board, told>>
    BY DEF AuthOk
  <1>2. Typed /\ coverage \in [token : Nat, on : BOOLEAN] /\ (coverage.on => board.open)
    BY DEF GapInv, Controlled, Typed, Subscribed
  <1>3. /\ cov \in [token : Nat, on : BOOLEAN] /\ cov.token >= coverage.token
        /\ cov.on <=> board.open
        /\ cov.on => cov.token > coverage.token
    <2>1. CASE board.open
      <3>1. Ended(coverage) \in [token : Nat, on : BOOLEAN]
            /\ Ended(coverage).token >= coverage.token
        BY <1>2, EndedToken
      <3>2. /\ Began(Ended(coverage)) \in [token : Nat, on : BOOLEAN]
            /\ Began(Ended(coverage)).on
            /\ Began(Ended(coverage)).token = Ended(coverage).token + 1
        BY <3>1, BeganToken
      <3> QED  BY <1>2, <2>1, <3>1, <3>2
    <2>2. CASE ~board.open
      BY <1>2, <2>2
    <2> QED  BY <2>1, <2>2
  <1> HIDE DEF cov
  <1>4. /\ drag' \in [busy : BOOLEAN, queue : Seq(AnyEvent), refetch : BOOLEAN]
        /\ read' = read \/ read' = Refetch(cov)
    BY <1>1, <1>2, <1>3, HealedShape DEF Typed
  <1>5. up' \in Seq({"auth", "subscribe", "unsubscribe"})
    BY <1>1, <1>2, UpAppended DEF Typed
  <1>6. /\ read'.under \in Int /\ read'.under \leq cov.token
        /\ read' = [at |-> read'.at, under |-> read'.under, rows |-> read'.rows]
        /\ read' = read \/ read'.at = "sent"
    <2>1. CASE read' = read
      BY <1>2, <1>3, <2>1 DEF GapInv, Controlled, Typed, Tokens
    <2>2. CASE read' = Refetch(cov)
      BY <1>3, <2>2, RefetchToken
    <2> QED  BY <1>4, <2>1, <2>2
  <1>7. board.under \leq cov.token
    BY <1>2, <1>3 DEF GapInv, Controlled, Typed, Tokens
  <1>8. socket' \in [conn : {"closed", "opening", "online"}, authed : BOOLEAN, joined : BOOLEAN]
        /\ socket'.conn = "online"
    BY <1>1, <1>2 DEF Typed
  <1>9. Typed'
    BY <1>1, <1>3, <1>4, <1>5, <1>6, <1>8 DEF GapInv, Controlled, Typed, server
  <1>10. Controlled'
    BY <1>1, <1>3, <1>6, <1>7, <1>8, <1>9 DEF Controlled, Subscribed, Tokens
  <1> QED  BY <1>1, <1>3, <1>6, <1>10, NewSubscription

\* An event is applied, or waits for the end of a drag.
LEMMA DispatchKeeps ==
    ASSUME GapInv, down # <<>>, down' = Tail(down), Head(down).type # "auth_ok",
           Dispatch(Head(down).event), UNCHANGED server
    PROVE  GapInv'
  <1> DEFINE e == Head(down).event
  <1>1. Typed /\ UNCHANGED <<socket, up, coverage, read, heal>> /\ UNCHANGED server
    BY DEF GapInv, Controlled, Dispatch
  <1>2. /\ Head(down) \in Frames /\ down' \in Seq(Frames)
        /\ \A f \in InFrames : f \in InFrames' \/ f = e
    BY <1>1, FramesTaken
  <1>3. e \in AnyEvent
    BY <1>2 DEF Frames
  <1> HIDE DEF e
  <1>4. CASE ~board.open
    <2>1. UNCHANGED <<board, told, drag>>
      BY <1>4 DEF Dispatch
    <2>2. Controlled'
      BY <1>1, <1>2, <2>1 DEF GapInv, Controlled, Typed, Subscribed, Tokens, server
    <2>3. ~coverage.on
      BY <1>4 DEF GapInv, Controlled, Subscribed
    <2> QED  BY <1>1, <2>1, <2>2, <2>3, CarriedOn DEF server
  <1>5. CASE board.open /\ drag.busy
    <2> DEFINE q == Append(drag.queue, e)
    <2>1. drag' = [drag EXCEPT !.queue = q] /\ UNCHANGED <<board, told>>
      BY <1>5 DEF Dispatch, e
    <2>2. drag.queue \in Seq(AnyEvent) /\ Len(drag.queue) \in Nat
      BY <1>1, LenProperties DEF Typed
    <2>3. /\ q \in Seq(AnyEvent) /\ Len(q) = Len(drag.queue) + 1
          /\ \A i \in 1 .. Len(drag.queue) : q[i] = drag.queue[i]
          /\ q[Len(drag.queue) + 1] = e
      BY <1>3, <2>2, AppendProperties
    <2> HIDE DEF q
    <2>4. /\ drag' \in [busy : BOOLEAN, queue : Seq(AnyEvent), refetch : BOOLEAN]
          /\ drag'.queue = q
      BY <1>1, <2>1, <2>3 DEF Typed
    <2>5. Controlled'
      BY <1>1, <1>2, <2>1, <2>4 DEF GapInv, Controlled, Typed, Subscribed, Tokens, server
    <2>6. InQueue \subseteq InQueue' /\ e \in InQueue'
      <3>1. ASSUME NEW i \in 1 .. Len(drag.queue)
            PROVE  drag.queue[i] \in InQueue'
        <4>1. i \in 1 .. Len(drag'.queue) /\ drag'.queue[i] = drag.queue[i]
          BY <2>2, <2>3, <2>4
        <4> QED  BY <4>1 DEF InQueue
      <3>2. Len(drag.queue) + 1 \in 1 .. Len(drag'.queue) /\ drag'.queue[Len(drag.queue) + 1] = e
        BY <2>2, <2>3, <2>4
      <3> QED  BY <3>1, <3>2 DEF InQueue
    <2>7. Transit \subseteq Transit'
      BY <1>1, <1>2, <2>6 DEF Transit, server
    <2>8. \A c \in Card : Covered(c) => Covered(c)'
      BY <1>1, <2>1, <2>7, StaysCovered DEF server
    <2> QED  BY <1>1, <2>1, <2>5, <2>8, CarriedOn DEF server
  <1>6. CASE board.open /\ ~drag.busy
    <2> DEFINE rows == Applied(board.rows, e)
    <2>1. /\ board' = [board EXCEPT !.rows = rows] /\ told' = told \cup Newest(<<e>>)
          /\ UNCHANGED drag
      BY <1>6 DEF Dispatch, e
    <2> HIDE DEF rows
    <2>2. /\ board'.under = board.under /\ board'.open = board.open
          /\ board' = [open |-> board'.open, rows |-> board'.rows, under |-> board'.under,
                       stale |-> board'.stale, loading |-> board'.loading]
      BY <1>1, <2>1 DEF Typed
    <2>3. Controlled'
      BY <1>1, <1>2, <2>1, <2>2 DEF GapInv, Controlled, Typed, Subscribed, Tokens, server
    <2>4. \A f \in Transit : f \in Transit' \/ f = e
      BY <1>1, <1>2, <2>1 DEF Transit, InQueue, server
    <2>5. ASSUME NEW c \in Card, Covered(c)
          PROVE  Covered(c)'
      <3>1. e.card = c /\ e.ver = db[c].ver => c \in told'
        BY <1>3, <2>1, NewestOne
      <3> QED  BY <1>1, <2>1, <2>4, <2>5, <3>1, StaysCovered DEF server
    <2> QED  BY <1>1, <2>2, <2>3, <2>5, CarriedOn DEF server
  <1> QED  BY <1>1, <1>4, <1>5, <1>6 DEF Typed

LEMMA ClientReceivesKeeps ==
    ASSUME GapInv, ClientReceives
    PROVE  GapInv'
  <1>1. down # <<>> /\ down' = Tail(down) /\ UNCHANGED server
    BY DEF ClientReceives
  <1>2. down' \in Seq(Frames)
    BY <1>1, FramesTaken DEF GapInv, Controlled
  <1>3. CASE Head(down).type = "auth_ok"
    BY <1>1, <1>2, <1>3, AuthOkKeeps DEF ClientReceives
  <1>4. CASE Head(down).type # "auth_ok"
    BY <1>1, <1>4, DispatchKeeps DEF ClientReceives
  <1> QED  BY <1>3, <1>4

-----------------------------------------------------------------------------
LEMMA GapInit == Init => GapInv
  <1> SUFFICES ASSUME Init PROVE GapInv
    OBVIOUS
  <1>1. <<>> \in Seq(Frames) /\ <<>> \in Seq(AnyEvent)
        /\ <<>> \in Seq({"auth", "subscribe", "unsubscribe"})
    OBVIOUS
  <1>2. Typed
    BY <1>1 DEF Init, Typed, NoRows, IdleRead, Null
  <1>3. Subscribed /\ Tokens /\ ~coverage.on
    BY DEF Init, Subscribed, Tokens, IdleRead, Null
  <1> QED  BY <1>2, <1>3, NothingClaimed DEF GapInv, Controlled

LEMMA GapNext == GapInv /\ [Next]_vars => GapInv'
  <1> SUFFICES ASSUME GapInv, [Next]_vars PROVE GapInv'
    OBVIOUS
  <1>1. CASE \E c \in Card, kind \in {"put", "patch", "drop"} : Write(c, kind)
    BY <1>1, WriteKeeps
  <1>2. CASE Deliver
    BY <1>2, ResolveKeeps, SendKeeps DEF Deliver
  <1>3. CASE UNCHANGED vars
    <2>1. Controlled' /\ Transit' = Transit
      BY <1>3 DEF vars, server, client, GapInv, Controlled, Typed, Subscribed, Tokens,
                  Transit, InFrames, InQueue
    <2>2. \A c \in Card : Covered(c) => Covered(c)'
      BY <1>3, <2>1 DEF vars, server, Covered
    <2> QED  BY <1>3, <2>1, <2>2, CarriedOn DEF vars, server, client
  <1> QED
    BY <1>1, <1>2, <1>3, ServerReceivesKeeps, ClientReceivesKeeps, BuildKeeps, ArrivesKeeps,
       FailsKeeps, RevisitKeeps, DragStartsKeeps, DragEndsKeeps, EnterKeeps, LeaveKeeps,
       ReopenKeeps, DrainEndsKeeps, DisconnectKeeps DEF Next

\* realtime-coverage.svelte.ts: a board whose next read would be skipped has
\* been told of the newest version of every card or is going to be, whatever
\* the order of events, frames, answers and drags, unless the event left while
\* the subscribe frame was on its way.
THEOREM GapsAreKnown == Spec => []NoUnknownGap
  <1>1. GapInv => NoUnknownGap
    <2> SUFFICES ASSUME GapInv, Holds(coverage, board.under), NEW c \in Card, Covered(c)
                 PROVE  c \in told \cup missed \/ OnItsWay(c, db[c].ver)
      BY DEF GapInv, BoardCovered, NoUnknownGap, OnItsWay
    <2> QED  BY DEF Covered, Transit, InFrames, InQueue, OnItsWay
  <1> QED  BY <1>1, GapInit, GapNext, PTL DEF Spec
=============================================================================
