------------------------- MODULE WebhookQueueProofs -------------------------
(***************************************************************************)
(* Proofs about WebhookQueue: the types of its state, that no settlement   *)
(* strands a row, that an active registration is below its limit, that     *)
(* what counts against it are distinct deliveries, and that a delivered    *)
(* row stays delivered.                                                    *)
(***************************************************************************)
EXTENDS WebhookQueue, FiniteSetTheorems, TLAPS

-----------------------------------------------------------------------------
(* What the invariants rest on.                                             *)

\* A redeliver request under way has read a row with a re-send to spare, and
\* nobody else writes the count.
ResendsFit ==
    \A d \in Delivery : resend[d] # "none" => delivery[d].resends < MaxResends

\* An event has no rows, and no batch has one of its, before its fan-out is over.
RowsByInsert ==
    \A d \in Delivery : RowExists(d) \/ Held(d) => picked[d[1]].at = "over"

\* A registration that was never made has no failures.
NewAtZero == \A w \in Hook : hook[w].state = "new" => hook[w].fails = 0

\* A batch holds each delivery once, and only after its claim.
BatchShape ==
    \A b \in Batch :
        /\ phase[b] \in {"idle", "scanned"} => todo[b] = {} /\ sends[b] = {}
        /\ \A c, k \in todo[b] : c.id = k.id => c = k
        /\ \A s, k \in sends[b] : s.id = k.id => s = k
        /\ \A c \in todo[b], s \in sends[b] : c.id # s.id

\* Two batches have a delivery at once only where late says so.
SoleHolder ==
    \A d \in Delivery \ late : \A a, b \in Batch : Holds(a, d) /\ Holds(b, d) => a = b

\* A delivery that one batch has is not delivered yet.
HeldUndelivered ==
    \A d \in Delivery \ late : Held(d) => delivery[d].status # "delivered"

\* A batch's claim of d, if it has one, is that of a re-send.
OnlyResent(d) ==
    Held(d) => /\ delivery[d].resends > 0
               /\ \A b \in Batch : \A c \in todo[b] \cup sends[b] : c.id = d => c.resent

\* A delivery already counted against its registration is tried again only when
\* it is re-sent by hand.
BlamedOnlyResent ==
    \A w \in Hook : \A d \in blamed[w] :
        /\ HookOf(d) = w /\ picked[d[1]].at = "over"
        /\ d \notin late =>
             /\ delivery[d].status = "pending" => delivery[d].resends > 0
             /\ OnlyResent(d)

\* The invariant the last two properties rest on.
Holdings == RowsByInsert /\ SoleHolder /\ HeldUndelivered

-----------------------------------------------------------------------------
(* Lemmas about the operators.                                              *)

\* A delivery is of one event and one registration.
LEMMA DeliveryParts ==
    ASSUME NEW d \in Delivery
    PROVE  d[1] \in Event /\ HookOf(d) \in Hook /\ d = <<d[1], HookOf(d)>>
BY DEF Delivery, HookOf

\* The limits are positive numbers.
LEMMA LimitsArePositive ==
    /\ MaxAttempts \in Nat /\ MaxAttempts > 0
    /\ MaxConsecutive \in Nat /\ MaxConsecutive > 0
    /\ MaxResends \in Nat /\ MaxFaults \in Nat
BY WebhookLimits

\* A row without contents is a row, and so is one given a status and a due flag.
LEMMA NoRowIsRow == NoRow \in Row
BY LimitsArePositive DEF NoRow, Row, Status

LEMMA RowFields ==
    ASSUME NEW r \in Row, NEW status \in Status, NEW due \in BOOLEAN
    PROVE  /\ [r EXCEPT !.status = status, !.due = due] \in Row
           /\ [r EXCEPT !.status = status, !.due = due].status = status
           /\ [r EXCEPT !.status = status, !.due = due].resends = r.resends
BY DEF Row

\* Giving one row a status leaves the others, and its count of re-sends.
LEMMA SettledRow ==
    ASSUME NEW d \in Delivery, NEW status \in Status, delivery \in [Delivery -> Row],
           delivery' = [delivery EXCEPT ![d].status = status, ![d].due = FALSE]
    PROVE  /\ delivery' \in [Delivery -> Row]
           /\ \A k \in Delivery \ {d} : delivery'[k] = delivery[k]
           /\ delivery'[d].status = status /\ delivery'[d].resends = delivery[d].resends
BY DEF Row

\* What a termination leaves of a row: a pending one fails, any other stays.
LEMMA TerminatedRows ==
    ASSUME NEW w \in Hook, delivery \in [Delivery -> Row]
    PROVE  /\ Terminated(w) \in [Delivery -> Row]
           /\ \A d \in Delivery :
                 /\ Terminated(w)[d].resends = delivery[d].resends
                 /\ \/ Terminated(w)[d].status = delivery[d].status
                    \/ delivery[d].status = "pending" /\ Terminated(w)[d].status = "failed"
                 /\ Terminated(w)[d].status = "pending" => HookOf(d) # w
BY DEF Terminated, Row, Status, RowExists

\* What a failure leaves of its row, and that it leaves the others.
LEMMA FailedRows ==
    ASSUME NEW s \in Sent, delivery \in [Delivery -> Row]
    PROVE  /\ FailedRow(s) \in [Delivery -> Row]
           /\ \A d \in Delivery \ {s.id} : FailedRow(s)[d] = delivery[d]
           /\ FailedRow(s)[s.id].resends = delivery[s.id].resends
           /\ FailedRow(s)[s.id].status =
                 IF delivery[s.id].status = "none" THEN "none" ELSE "failed"
<1>1. s.id \in Delivery
  BY DEF Sent
<1> QED BY <1>1 DEF FailedRow, Row, Status, RowExists

\* A settlement lets go of one send, and takes nothing up.
LEMMA SettleTypes ==
    ASSUME NEW b \in Batch, NEW s \in sends[b], NEW disabled \in BOOLEAN,
           TypeOK, Settle(b, s, disabled)
    PROVE  /\ todo' \in [Batch -> SUBSET Claimed] /\ open' \in [Batch -> SUBSET Hook]
           /\ sends' \in [Batch -> SUBSET Sent]
           /\ \A a \in Batch : todo'[a] \subseteq todo[a] /\ sends'[a] \subseteq sends[a]
           /\ s \notin sends'[b]
BY DEF Settle, TypeOK

-----------------------------------------------------------------------------
(* Types.                                                                   *)

\* Every step keeps the types of the state.
LEMMA NextTypeOK == TypeOK /\ ResendsFit /\ [Next]_vars => TypeOK'
<1> SUFFICES ASSUME TypeOK, ResendsFit, [Next]_vars PROVE TypeOK'
  OBVIOUS
<1> USE LimitsArePositive
<1>e. ASSUME NEW e \in Event, EventStep(e) PROVE TypeOK'
  <2>1. CASE SelectHooks(e)
    BY <2>1 DEF SelectHooks, TypeOK, tables, batches, history
  <2>2. CASE InsertRows(e)
    <3>1. [NoRow EXCEPT !.status = "pending", !.due = TRUE] \in Row
      BY RowFields, NoRowIsRow DEF Status
    <3>2. delivery' \in [Delivery -> Row]
      BY <2>2, <3>1 DEF InsertRows, TypeOK
    <3>3. raced' \subseteq Delivery
      BY <2>2 DEF InsertRows, TypeOK, Delivery
    <3> QED BY <2>2, <3>2, <3>3 DEF InsertRows, TypeOK, batches
  <2>3. CASE FanOutLost(e)
    BY <2>3 DEF FanOutLost, TypeOK, tables, batches, history
  <2> QED BY <1>e, <2>1, <2>2, <2>3 DEF EventStep
<1>b. ASSUME NEW b \in Batch, BatchStep(b) PROVE TypeOK'
  <2>1. ASSUME NEW S \in SUBSET Delivery, Scan(b, S) PROVE TypeOK'
    BY <2>1 DEF Scan, TypeOK, tables, requests, history
  <2>2. ASSUME NEW S \in SUBSET Delivery, Claim(b, S) PROVE TypeOK'
    <3>1. \A d \in Delivery : Lesser(delivery[d].attempts + 1, MaxAttempts) \in 1 .. MaxAttempts
      BY DEF TypeOK, Row, Lesser
    <3> DEFINE bumped(d) == Lesser(delivery[d].attempts + 1, MaxAttempts)
               taken == {[id |-> d, attempts |-> bumped(d), resent |-> delivery[d].resends > 0] :
                            d \in S}
    <3>2. delivery' \in [Delivery -> Row]
      <4>1. ASSUME NEW d \in Delivery
            PROVE  [delivery[d] EXCEPT !.attempts = bumped(d), !.due = FALSE] \in Row
        <5>1. delivery[d] \in Row /\ bumped(d) \in 0 .. MaxAttempts
          BY <3>1 DEF TypeOK
        <5> HIDE DEF bumped
        <5> QED BY <5>1 DEF Row
      <4>2. delivery' = [d \in Delivery |->
                           IF d \in S
                           THEN [delivery[d] EXCEPT !.attempts = bumped(d), !.due = FALSE]
                           ELSE delivery[d]]
        BY <2>2 DEF Claim
      <4> HIDE DEF bumped
      <4> QED BY <4>1, <4>2 DEF TypeOK
    <3>3. todo' \in [Batch -> SUBSET Claimed]
      <4>1. taken \in SUBSET Claimed
        <5>1. ASSUME NEW d \in S
              PROVE  [id |-> d, attempts |-> bumped(d), resent |-> delivery[d].resends > 0]
                        \in Claimed
          <6>1. bumped(d) \in 1 .. MaxAttempts /\ (delivery[d].resends > 0) \in BOOLEAN
            BY <3>1
          <6> HIDE DEF bumped
          <6> QED BY <6>1 DEF Claimed
        <5> QED BY <5>1
      <4>2. todo' = [todo EXCEPT ![b] = taken]
        BY <2>2 DEF Claim
      <4> HIDE DEF taken
      <4> QED BY <4>1, <4>2 DEF TypeOK
    <3> HIDE DEF bumped, taken
    <3> QED BY <2>2, <3>2, <3>3 DEF Claim, TypeOK, requests
  <2>3. CASE Recheck(b)
    BY <2>3 DEF Recheck, TypeOK, tables, requests, history
  <2>4. ASSUME NEW c \in todo[b], Send(b, c) PROVE TypeOK'
    <3>1. c \in Claimed
      BY DEF TypeOK
    <3>2. [id |-> c.id, attempts |-> c.attempts, resent |-> c.resent, at |-> "wire"] \in Sent
      BY <3>1 DEF Claimed, Sent
    <3>3. HookOf(c.id) \in Hook
      BY <3>1, DeliveryParts DEF Claimed
    <3> QED BY <2>4, <3>2, <3>3 DEF Send, TypeOK, tables, requests, history
  <2>5. ASSUME NEW s \in sends[b] PROVE s \in Sent /\ s.id \in Delivery /\ HookOf(s.id) \in Hook
    BY DeliveryParts DEF TypeOK, Sent
  <2>6. ASSUME NEW s \in sends[b], NEW at \in {"accepted", "refused"}, Answer(b, s, at)
        PROVE  TypeOK'
    <3>1. [s EXCEPT !.at = at] \in Sent
      BY <2>5 DEF Sent
    <3> QED BY <2>6, <3>1 DEF Answer, TypeOK, tables, requests, history
  <2>7. ASSUME NEW s \in sends[b], RecordSuccess(b, s) PROVE TypeOK'
    <3>1. hook' \in [Hook -> [state : HookState, fails : 0 .. MaxConsecutive]]
      <4>1. hook \in [Hook -> [state : HookState, fails : 0 .. MaxConsecutive]]
        BY DEF TypeOK
      <4>2. hook' = [hook EXCEPT ![HookOf(s.id)].fails = 0]
        BY <2>7 DEF RecordSuccess
      <4> QED BY <4>1, <4>2, <2>5, LimitsArePositive
    <3>2. delivery' \in [Delivery -> Row]
      <4>1. delivery \in [Delivery -> Row] /\ s.id \in Delivery /\ "delivered" \in Status
        BY <2>5 DEF TypeOK, Status
      <4>2. \/ delivery' = delivery
            \/ delivery' = [delivery EXCEPT ![s.id].status = "delivered", ![s.id].due = FALSE]
        BY <2>7 DEF RecordSuccess
      <4> QED BY <4>1, <4>2, SettledRow
    <3> QED BY <2>7, <3>1, <3>2, SettleTypes DEF RecordSuccess, TypeOK, requests
  <2>8. ASSUME NEW s \in sends[b], Retry(b, s) PROVE TypeOK'
    <3>1. delivery' \in [Delivery -> Row]
      <4>1. delivery \in [Delivery -> Row] /\ s.id \in Delivery /\ "pending" \in Status
        BY <2>5 DEF TypeOK, Status
      <4>2. \/ delivery' = delivery
            \/ delivery' = [delivery EXCEPT ![s.id].status = "pending", ![s.id].due = FALSE]
        BY <2>8 DEF Retry
      <4> QED BY <4>1, <4>2, SettledRow
    <3> QED BY <2>8, <3>1, SettleTypes DEF Retry, TypeOK, requests, history
  <2>9. ASSUME NEW s \in sends[b], FailInactive(b, s) \/ FailUncounted(b, s) PROVE TypeOK'
    <3>1. delivery' \in [Delivery -> Row]
      BY <2>9, <2>5, FailedRows DEF FailInactive, FailUncounted, TypeOK
    <3>2. PICK disabled \in BOOLEAN : Settle(b, s, disabled)
      BY <2>9 DEF FailInactive, FailUncounted
    <3> QED BY <2>9, <3>1, <3>2, SettleTypes
            DEF FailInactive, FailUncounted, TypeOK, requests, history
  <2>10. ASSUME NEW s \in sends[b], FailCounted(b, s) PROVE TypeOK'
    <3>1. delivery' \in [Delivery -> Row]
      BY <2>10, <2>5, FailedRows, TerminatedRows DEF FailCounted, TypeOK
    <3>2. PICK disabled \in BOOLEAN : Settle(b, s, disabled)
      <4>1. Settle(b, s, Lesser(hook[HookOf(s.id)].fails + 1, MaxConsecutive) >= MaxConsecutive)
        BY <2>10 DEF FailCounted
      <4>2. (Lesser(hook[HookOf(s.id)].fails + 1, MaxConsecutive) >= MaxConsecutive) \in BOOLEAN
        OBVIOUS
      <4> QED BY <4>1, <4>2, Zenon
    <3>3. hook' \in [Hook -> [state : HookState, fails : 0 .. MaxConsecutive]]
      BY <2>10, <2>5 DEF FailCounted, TypeOK, Lesser, HookState
    <3>4. blamed' \in [Hook -> SUBSET Delivery]
      BY <2>10, <2>5 DEF FailCounted, TypeOK
    <3>5. UNCHANGED <<phase, scanned, picked, patch, resend, raced, late, unreset, faults>>
      BY <2>10 DEF FailCounted, requests
    <3>6. /\ todo' \in [Batch -> SUBSET Claimed] /\ open' \in [Batch -> SUBSET Hook]
          /\ sends' \in [Batch -> SUBSET Sent]
      BY <3>2, SettleTypes
    <3> QED BY <3>1, <3>3, <3>4, <3>5, <3>6 DEF TypeOK
  <2>11. ASSUME NEW s \in sends[b], RecordThrows(b, s) PROVE TypeOK'
    <3>1. Settle(b, s, FALSE) /\ faults < MaxFaults /\ faults' = faults + 1
      BY <2>11 DEF RecordThrows
    <3>2. UNCHANGED <<hook, delivery, phase, scanned, picked, patch, resend, raced, late, unreset, blamed>>
      BY <2>11 DEF RecordThrows, tables, requests, history
    <3>3. /\ todo' \in [Batch -> SUBSET Claimed] /\ open' \in [Batch -> SUBSET Hook]
          /\ sends' \in [Batch -> SUBSET Sent]
      BY <3>1, SettleTypes
    <3> QED BY <3>1, <3>2, <3>3 DEF TypeOK
  <2>12. CASE FinishBatch(b)
    BY <2>12 DEF FinishBatch, TypeOK, tables, requests, history
  <2>13. CASE BatchDies(b)
    BY <2>13 DEF BatchDies, TypeOK, tables, requests, history
  <2> QED BY <1>b, <2>1, <2>2, <2>3, <2>4, <2>6, <2>7, <2>8, <2>9, <2>10, <2>11, <2>12, <2>13
          DEF BatchStep, RecordFailure
<1>w. ASSUME NEW w \in Hook, EditorStep(w) PROVE TypeOK'
  <2>1. CASE Register(w)
    BY <2>1 DEF Register, TypeOK, HookState, batches, requests, history
  <2>2. CASE PatchDisabled(w)
    <3>1. delivery' \in [Delivery -> Row]
      BY <2>2, TerminatedRows DEF PatchDisabled, TypeOK
    <3>2. hook' \in [Hook -> [state : HookState, fails : 0 .. MaxConsecutive]]
      BY <2>2 DEF PatchDisabled, TypeOK, HookState
    <3> QED BY <2>2, <3>1, <3>2 DEF PatchDisabled, TypeOK, batches, requests, history
  <2>3. CASE PatchRead(w)
    BY <2>3 DEF PatchRead, HookExists, TypeOK, tables, batches, history
  <2>4. CASE PatchEnabled(w)
    <3>1. /\ hook' \in [Hook -> [state : HookState, fails : 0 .. MaxConsecutive]]
          /\ blamed' \in [Hook -> SUBSET Delivery] /\ unreset' \subseteq Hook
      <4>1. CASE ~HookExists(w)
        BY <2>4, <4>1 DEF PatchEnabled, TypeOK
      <4>2. CASE HookExists(w) /\ ClearsCounter(w)
        <5>1. [state |-> "on", fails |-> 0] \in [state : HookState, fails : 0 .. MaxConsecutive]
          BY DEF HookState
        <5>2. /\ hook' = [hook EXCEPT ![w] = [state |-> "on", fails |-> 0]]
              /\ blamed' = [blamed EXCEPT ![w] = {}] /\ unreset' = unreset \ {w}
          BY <2>4, <4>2 DEF PatchEnabled
        <5> QED BY <5>1, <5>2 DEF TypeOK
      <4>3. CASE HookExists(w) /\ ~ClearsCounter(w)
        <5>1. /\ hook' = [hook EXCEPT ![w].state = "on"] /\ blamed' = blamed
              /\ unreset' \subseteq unreset \cup {w}
          BY <2>4, <4>3 DEF PatchEnabled
        <5>2. hook' \in [Hook -> [state : HookState, fails : 0 .. MaxConsecutive]]
          BY <5>1 DEF TypeOK, HookState
        <5> QED BY <5>1, <5>2 DEF TypeOK
      <4> QED BY <4>1, <4>2, <4>3
    <3> QED BY <2>4, <3>1 DEF PatchEnabled, TypeOK, batches
  <2>5. CASE DeleteHook(w)
    <3>1. NoRow \in Row
      BY NoRowIsRow
    <3> QED BY <2>5, <3>1 DEF DeleteHook, TypeOK, HookState, batches, requests
  <2> QED BY <1>w, <2>1, <2>2, <2>3, <2>4, <2>5 DEF EditorStep
<1>d. ASSUME NEW d \in Delivery, FallsDue(d) \/ Prune(d) \/ ResendStep(d) PROVE TypeOK'
  <2>1. CASE FallsDue(d)
    BY <2>1 DEF FallsDue, TypeOK, Row, batches, requests, history
  <2>2. CASE Prune(d)
    <3>1. NoRow \in Row
      BY NoRowIsRow
    <3> QED BY <2>2, <3>1 DEF Prune, TypeOK, batches, requests
  <2>3. CASE ResendReadsHook(d) \/ ResendReadsRow(d)
    BY <2>3 DEF ResendReadsHook, ResendReadsRow, TypeOK, tables, batches, history
  <2>4. CASE ResendWrites(d)
    <3>1. [status |-> "pending", due |-> TRUE, attempts |-> 0,
           resends |-> delivery[d].resends + 1] \in Row
      BY <2>4 DEF ResendWrites, ResendsFit, TypeOK, Row, Status
    <3> QED BY <2>4, <3>1 DEF ResendWrites, TypeOK, batches
  <2> QED BY <1>d, <2>1, <2>2, <2>3, <2>4 DEF ResendStep
<1>s. CASE UNCHANGED vars
  BY <1>s DEF vars, tables, batches, requests, history, TypeOK
<1> QED BY <1>e, <1>b, <1>w, <1>d, <1>s DEF Next

-----------------------------------------------------------------------------
(* What a step may do to one row, to what a batch has, and to a             *)
(* registration: all that the invariants need to know of the actions.       *)

\* The batch that had d has done with it.
LetGo(b, d) ==
    /\ Holds(b, d) /\ ~Holds(b, d)'
    /\ \A a \in Batch : Holds(a, d)' => Holds(a, d)

RowStays(d) ==
    /\ delivery'[d].status = delivery[d].status
    /\ delivery'[d].resends = delivery[d].resends
    /\ d \in raced => d \in raced'

RowInserted(d) ==
    /\ picked[d[1]].at = "read"
    /\ picked'[d[1]].at = "over"
    /\ hook' = hook
    /\ delivery'[d].status = "pending" /\ delivery'[d].resends = 0
    /\ Active(HookOf(d)) \/ d \in raced'

RowFails(d) ==
    /\ delivery[d].status = "pending" \/ (Held(d) /\ RowExists(d))
    /\ delivery'[d].status = "failed"
    /\ delivery'[d].resends = delivery[d].resends

RowDelivered(d) ==
    /\ RowExists(d) /\ \E b \in Batch : LetGo(b, d)
    /\ delivery'[d].status = "delivered"
    /\ delivery'[d].resends = delivery[d].resends
    /\ blamed'[HookOf(d)] = {}

RowRetried(d) ==
    /\ RowExists(d) /\ Held(d)
    /\ Active(HookOf(d)) /\ hook' = hook
    /\ delivery'[d].status = "pending"
    /\ delivery'[d].resends = delivery[d].resends

RowErased(d) ==
    /\ delivery'[d].status = "none" /\ delivery'[d].resends = 0
    /\ resend' = resend
    /\ \A b \in Batch : Holds(b, d)' => Holds(b, d)
    /\ ~Held(d) \/ blamed'[HookOf(d)] = {}

RowResent(d) ==
    /\ RowExists(d) /\ resend[d] = "row" /\ resend'[d] = "none"
    /\ hook' = hook
    /\ delivery'[d].status = "pending"
    /\ delivery'[d].resends = delivery[d].resends + 1
    /\ Active(HookOf(d)) \/ d \in raced'
    /\ Held(d) \/ delivery[d].status # "failed" => d \in late'
    /\ \A b \in Batch : Holds(b, d)' => Holds(b, d)

RowStep(d) ==
    \/ RowStays(d) \/ RowInserted(d) \/ RowFails(d) \/ RowDelivered(d)
    \/ RowRetried(d) \/ RowErased(d) \/ RowResent(d)

\* A batch that has d afterwards had it, or has just claimed it.
Kept(b, d) ==
    /\ Holds(b, d)
    /\ \A c \in todo'[b] \cup sends'[b] : c.id = d =>
          \E k \in todo[b] \cup sends[b] : k.id = d /\ k.resent = c.resent

Taken(b, d) ==
    /\ RowExists(d) /\ RowStays(d) /\ blamed' = blamed
    /\ d \in late' \/ (StillDue(d) /\ ~Held(d))
    /\ \A c \in todo'[b] \cup sends'[b] : c.id = d => c.resent = (delivery[d].resends > 0)
    /\ \A a \in Batch \ {b} : Holds(a, d)' => Holds(a, d)

HoldStep(b, d) == Kept(b, d) \/ Taken(b, d) \/ ~Holds(b, d)'

HookKept(w) ==
    /\ hook'[w].fails = hook[w].fails /\ blamed'[w] = blamed[w]
    /\ Active(w)' /\ w \notin unreset' =>
          (Active(w) /\ w \notin unreset) \/ hook[w].state = "new"

HookCleared(w) == hook'[w].fails = 0 /\ blamed'[w] = {}

HookCounted(w) ==
    \E b \in Batch : \E s \in sends[b] :
        /\ HookOf(s.id) = w /\ ~s.resent /\ LetGo(b, s.id)
        /\ hook'[w].fails = Lesser(hook[w].fails + 1, MaxConsecutive)
        /\ Active(w)' => hook'[w].fails < MaxConsecutive
        /\ blamed'[w] = blamed[w] \cup {s.id}
        /\ delivery'[s.id].status # "pending"

HookStep(w) ==
    /\ HookKept(w) \/ HookCleared(w) \/ HookCounted(w)
    /\ hook'[w].state = "new" => hook[w].state = "new" /\ hook'[w].fails \in {0, hook[w].fails}
    /\ Active(w) /\ ~Active(w)' =>
          \A d \in Delivery : HookOf(d) = w => delivery'[d].status # "pending"

-----------------------------------------------------------------------------
(* What a batch has.                                                        *)

\* A batch that only drops what it has keeps its shape.
LEMMA DroppingKeepsShape ==
    ASSUME BatchShape,
           \A a \in Batch : todo'[a] \subseteq todo[a] /\ sends'[a] \subseteq sends[a],
           \A a \in Batch : phase'[a] \in {"idle", "scanned"} =>
              phase[a] \in {"idle", "scanned"} \/ (todo'[a] = {} /\ sends'[a] = {})
    PROVE  BatchShape'
<1> SUFFICES ASSUME NEW a \in Batch
             PROVE  /\ phase'[a] \in {"idle", "scanned"} => todo'[a] = {} /\ sends'[a] = {}
                    /\ \A c, k \in todo'[a] : c.id = k.id => c = k
                    /\ \A s, k \in sends'[a] : s.id = k.id => s = k
                    /\ \A c \in todo'[a], s \in sends'[a] : c.id # s.id
  BY DEF BatchShape
<1> QED BY DEF BatchShape

\* A claim gives a batch one entry per row, and no sends.
LEMMA ClaimTakes ==
    ASSUME TypeOK, BatchShape, NEW b \in Batch, NEW S \in SUBSET Delivery, Claim(b, S)
    PROVE  /\ \A a \in Batch \ {b} : todo'[a] = todo[a] /\ sends'[a] = sends[a] /\ phase'[a] = phase[a]
           /\ todo[b] = {} /\ sends[b] = {} /\ sends'[b] = {}
           /\ \A c \in todo'[b] : c.id \in S /\ c.resent = (delivery[c.id].resends > 0)
           /\ \A c, k \in todo'[b] : c.id = k.id => c = k
           /\ phase'[b] = "idle" => todo'[b] = {}
           /\ phase'[b] # "scanned"
<1> DEFINE bumped(d) == Lesser(delivery[d].attempts + 1, MaxAttempts)
           entry(d) == [id |-> d, attempts |-> bumped(d), resent |-> delivery[d].resends > 0]
           taken == {entry(d) : d \in S}
<1>1. todo' = [todo EXCEPT ![b] = taken] /\ sends' = sends
  BY DEF Claim
<1>2. phase[b] = "scanned" /\ phase' = [phase EXCEPT ![b] = IF S = {} THEN "idle" ELSE "claimed"]
  BY DEF Claim
<1>3. todo[b] = {} /\ sends[b] = {}
  BY <1>2 DEF BatchShape
<1>4. todo'[b] = taken /\ \A a \in Batch \ {b} : todo'[a] = todo[a]
  BY <1>1 DEF TypeOK
<1>5. ASSUME NEW d PROVE entry(d).id = d /\ entry(d).resent = (delivery[d].resends > 0)
  OBVIOUS
<1>6. S = {} => taken = {}
  OBVIOUS
<1>7. /\ phase'[b] = IF S = {} THEN "idle" ELSE "claimed"
      /\ \A a \in Batch \ {b} : phase'[a] = phase[a]
  BY <1>2 DEF TypeOK
<1>8. \A c \in taken : \E d \in S : c = entry(d)
  OBVIOUS
<1> HIDE DEF entry, taken
<1>9. \A c \in taken : c.id \in S /\ c = entry(c.id)
  BY <1>5, <1>8
<1>10. \A c \in taken : c.resent = (delivery[c.id].resends > 0)
  BY <1>5, <1>9
<1> QED BY <1>1, <1>3, <1>4, <1>6, <1>7, <1>9, <1>10

\* A runner moves one entry from what is to do to what is being sent.
LEMMA SendMoves ==
    ASSUME TypeOK, NEW b \in Batch, NEW c \in todo[b], Send(b, c)
    PROVE  /\ \A a \in Batch \ {b} : todo'[a] = todo[a] /\ sends'[a] = sends[a]
           /\ todo'[b] = todo[b] \ {c}
           /\ \E s : sends'[b] = sends[b] \cup {s} /\ s.id = c.id /\ s.resent = c.resent
           /\ \A s \in sends[b] : s.id # c.id
<1> DEFINE sent == [id |-> c.id, attempts |-> c.attempts, resent |-> c.resent, at |-> "wire"]
<1>1. sent.id = c.id /\ sent.resent = c.resent
  OBVIOUS
<1>2. /\ sends' = [sends EXCEPT ![b] = @ \cup {sent}] /\ todo' = [todo EXCEPT ![b] = @ \ {c}]
      /\ \A s \in sends[b] : HookOf(s.id) # HookOf(c.id)
  BY DEF Send
<1> HIDE DEF sent
<1> QED BY <1>1, <1>2 DEF TypeOK

\* An answer changes how far a send has come.
LEMMA AnswerMoves ==
    ASSUME TypeOK, NEW b \in Batch, NEW s \in sends[b], NEW at \in {"accepted", "refused"},
           Answer(b, s, at)
    PROVE  /\ \A a \in Batch \ {b} : sends'[a] = sends[a]
           /\ todo' = todo
           /\ \E k : sends'[b] = (sends[b] \ {s}) \cup {k} /\ k.id = s.id /\ k.resent = s.resent
<1>1. s \in Sent
  BY DEF TypeOK
<1>2. [s EXCEPT !.at = at].id = s.id /\ [s EXCEPT !.at = at].resent = s.resent
  BY <1>1 DEF Sent
<1>3. sends' = [sends EXCEPT ![b] = (@ \ {s}) \cup {[s EXCEPT !.at = at]}] /\ todo' = todo
  BY DEF Answer
<1> QED BY <1>2, <1>3 DEF TypeOK

\* Each step of a batch that neither claims, sends nor hears an answer only drops
\* what a batch has; every other step leaves all of it.
LEMMA OthersDrop ==
    ASSUME TypeOK, BatchShape, [Next]_vars,
           ~\E b \in Batch, S \in SUBSET Delivery : Claim(b, S),
           ~\E b \in Batch : \E c \in todo[b] : Send(b, c),
           ~\E b \in Batch : \E s \in sends[b], at \in {"accepted", "refused"} : Answer(b, s, at)
    PROVE  /\ \A a \in Batch : todo'[a] \subseteq todo[a] /\ sends'[a] \subseteq sends[a]
           /\ \A a \in Batch : phase'[a] \in {"idle", "scanned"} =>
                 phase[a] \in {"idle", "scanned"} \/ (todo'[a] = {} /\ sends'[a] = {})
<1> DEFINE Goal == /\ \A a \in Batch : todo'[a] \subseteq todo[a] /\ sends'[a] \subseteq sends[a]
                   /\ \A a \in Batch : phase'[a] \in {"idle", "scanned"} =>
                         phase[a] \in {"idle", "scanned"} \/ (todo'[a] = {} /\ sends'[a] = {})
<1>u. ASSUME UNCHANGED <<phase, todo, sends>> PROVE Goal
  BY <1>u
<1>e. ASSUME NEW e \in Event, EventStep(e) PROVE UNCHANGED <<phase, todo, sends>>
  BY <1>e DEF EventStep, SelectHooks, InsertRows, FanOutLost, batches
<1>w. ASSUME NEW w \in Hook, EditorStep(w) PROVE UNCHANGED <<phase, todo, sends>>
  BY <1>w DEF EditorStep, Register, PatchDisabled, PatchRead, PatchEnabled, DeleteHook, batches
<1>d. ASSUME NEW d \in Delivery, FallsDue(d) \/ Prune(d) \/ ResendStep(d)
      PROVE  UNCHANGED <<phase, todo, sends>>
  BY <1>d DEF FallsDue, Prune, ResendStep, ResendReadsHook, ResendReadsRow, ResendWrites, batches
<1>s. ASSUME UNCHANGED vars PROVE Goal
  BY <1>s, <1>u DEF vars, batches
<1>b. ASSUME NEW b \in Batch, BatchStep(b) PROVE Goal
  <2>1. ASSUME NEW S \in SUBSET Delivery, Scan(b, S) PROVE Goal
    BY <2>1 DEF Scan, TypeOK
  <2>2. CASE Recheck(b)
    BY <2>2 DEF Recheck, TypeOK
  <2>3. ASSUME NEW s \in sends[b], RecordSuccess(b, s) \/ RecordFailure(b, s) \/ RecordThrows(b, s)
        PROVE  Goal
    <3>1. \E disabled \in BOOLEAN : Settle(b, s, disabled)
      <4>1. Settle(b, s, FALSE) \/ Settle(b, s, TRUE)
               \/ Settle(b, s, Lesser(hook[HookOf(s.id)].fails + 1, MaxConsecutive) >= MaxConsecutive)
        BY <2>3 DEF RecordSuccess, RecordFailure, RecordThrows, Retry, FailInactive,
                    FailUncounted, FailCounted
      <4>2. (Lesser(hook[HookOf(s.id)].fails + 1, MaxConsecutive) >= MaxConsecutive) \in BOOLEAN
        OBVIOUS
      <4> QED BY <4>1, <4>2, Zenon
    <3>2. phase' = phase
      BY <2>3 DEF RecordSuccess, RecordFailure, RecordThrows, Retry, FailInactive,
                  FailUncounted, FailCounted
    <3> QED BY <3>1, <3>2, SettleTypes
  <2>4. CASE FinishBatch(b)
    BY <2>4 DEF FinishBatch, TypeOK
  <2>5. CASE BatchDies(b)
    BY <2>5 DEF BatchDies, TypeOK
  <2> HIDE DEF Goal
  <2> QED BY <1>b, <2>1, <2>2, <2>3, <2>4, <2>5 DEF BatchStep
<1> HIDE DEF Goal
<1>1. Goal
  BY <1>u, <1>e, <1>w, <1>d, <1>s, <1>b DEF Next
<1> QED BY <1>1 DEF Goal

\* A batch holds each delivery once, and only after its claim.
LEMMA NextBatchShape == TypeOK /\ BatchShape /\ [Next]_vars => BatchShape'
<1> SUFFICES ASSUME TypeOK, BatchShape, [Next]_vars PROVE BatchShape'
  OBVIOUS
<1>1. ASSUME NEW b \in Batch, NEW S \in SUBSET Delivery, Claim(b, S) PROVE BatchShape'
  BY <1>1, ClaimTakes DEF BatchShape
<1>2. ASSUME NEW b \in Batch, NEW c \in todo[b], Send(b, c) PROVE BatchShape'
  <2>1. phase' = phase /\ phase[b] = "sending"
    BY <1>2 DEF Send
  <2>2. /\ \A a \in Batch \ {b} : todo'[a] = todo[a] /\ sends'[a] = sends[a]
        /\ todo'[b] = todo[b] \ {c} /\ \A s \in sends[b] : s.id # c.id
    BY <1>2, SendMoves
  <2>3. PICK s : sends'[b] = sends[b] \cup {s} /\ s.id = c.id
    BY <1>2, SendMoves
  <2> QED BY <2>1, <2>2, <2>3 DEF BatchShape
<1>3. ASSUME NEW b \in Batch, NEW s \in sends[b], NEW at \in {"accepted", "refused"},
             Answer(b, s, at)
      PROVE  BatchShape'
  <2>1. phase' = phase
    BY <1>3 DEF Answer
  <2>2. todo' = todo /\ \A a \in Batch \ {b} : sends'[a] = sends[a]
    BY <1>3, AnswerMoves
  <2>3. PICK k : sends'[b] = (sends[b] \ {s}) \cup {k} /\ k.id = s.id
    BY <1>3, AnswerMoves
  <2>4. phase[b] \notin {"idle", "scanned"}
    BY DEF BatchShape
  <2> QED BY <2>1, <2>2, <2>3, <2>4 DEF BatchShape
<1> QED BY <1>1, <1>2, <1>3, OthersDrop, DroppingKeepsShape

\* Whatever a batch has after a step it had, or has claimed in it.
LEMMA HoldSteps ==
    ASSUME TypeOK, BatchShape, [Next]_vars
    PROVE  \A b \in Batch, d \in Delivery : HoldStep(b, d)
<1> SUFFICES ASSUME NEW a \in Batch, NEW d \in Delivery, Holds(a, d)' PROVE HoldStep(a, d)
  BY DEF HoldStep
<1>1. ASSUME NEW b \in Batch, NEW S \in SUBSET Delivery, Claim(b, S) PROVE HoldStep(a, d)
  <2>1. CASE a = b
    <3>1. d \in S
      BY <1>1, <2>1, ClaimTakes DEF Holds
    <3>2. RowExists(d) /\ late' = late \cup {k \in S : Held(k) \/ ~StillDue(k)}
             /\ blamed' = blamed /\ raced' = raced
      BY <1>1, <3>1 DEF Claim, Lockable
    <3>3. delivery'[d].status = delivery[d].status /\ delivery'[d].resends = delivery[d].resends
      <4>1. delivery'[d] = [delivery[d] EXCEPT
                              !.attempts = Lesser(delivery[d].attempts + 1, MaxAttempts), !.due = FALSE]
        BY <1>1, <3>1 DEF Claim
      <4>2. delivery[d] \in Row
        BY DEF TypeOK
      <4> QED BY <4>1, <4>2 DEF Row
    <3>4. \A c \in todo'[a] \cup sends'[a] : c.id = d => c.resent = (delivery[d].resends > 0)
      BY <1>1, <2>1, ClaimTakes
    <3>5. \A k \in Batch \ {a} : Holds(k, d)' => Holds(k, d)
      BY <1>1, <2>1, ClaimTakes DEF Holds
    <3> QED BY <3>1, <3>2, <3>3, <3>4, <3>5 DEF HoldStep, Taken, RowStays
  <2>2. CASE a # b
    <3>1. todo'[a] = todo[a] /\ sends'[a] = sends[a]
      BY <1>1, <2>2, ClaimTakes
    <3> QED BY <3>1 DEF HoldStep, Kept, Holds
  <2> QED BY <2>1, <2>2
<1>2. ASSUME NEW b \in Batch, NEW c \in todo[b], Send(b, c) PROVE HoldStep(a, d)
  <2>1. /\ \A k \in Batch \ {b} : todo'[k] = todo[k] /\ sends'[k] = sends[k]
        /\ todo'[b] = todo[b] \ {c}
    BY <1>2, SendMoves
  <2>2. PICK s : sends'[b] = sends[b] \cup {s} /\ s.id = c.id /\ s.resent = c.resent
    BY <1>2, SendMoves
  <2> QED BY <2>1, <2>2 DEF HoldStep, Kept, Holds
<1>3. ASSUME NEW b \in Batch, NEW s \in sends[b], NEW at \in {"accepted", "refused"},
             Answer(b, s, at)
      PROVE  HoldStep(a, d)
  <2>1. todo' = todo /\ \A k \in Batch \ {b} : sends'[k] = sends[k]
    BY <1>3, AnswerMoves
  <2>2. PICK k : sends'[b] = (sends[b] \ {s}) \cup {k} /\ k.id = s.id /\ k.resent = s.resent
    BY <1>3, AnswerMoves
  <2> QED BY <2>1, <2>2 DEF HoldStep, Kept, Holds
<1>4. CASE todo'[a] \subseteq todo[a] /\ sends'[a] \subseteq sends[a]
  BY <1>4 DEF HoldStep, Kept, Holds
<1> QED BY <1>1, <1>2, <1>3, <1>4, OthersDrop

\* A settlement lets go of the delivery it settles.
LEMMA SettleLetsGo ==
    ASSUME TypeOK, BatchShape, NEW b \in Batch, NEW s \in sends[b], NEW disabled \in BOOLEAN,
           Settle(b, s, disabled)
    PROVE  /\ LetGo(b, s.id) /\ Held(s.id)
           /\ s.id \in Delivery /\ HookOf(s.id) \in Hook
           /\ \A a \in Batch, d \in Delivery : Holds(a, d)' => Holds(a, d)
<1>1. s \in Sent /\ s.id \in Delivery /\ HookOf(s.id) \in Hook
  BY DeliveryParts DEF TypeOK, Sent
<1>2. /\ \A a \in Batch : todo'[a] \subseteq todo[a] /\ sends'[a] \subseteq sends[a]
      /\ s \notin sends'[b]
  BY SettleTypes
<1>3. \A a \in Batch, d \in Delivery : Holds(a, d)' => Holds(a, d)
  BY <1>2 DEF Holds
<1>4. Holds(b, s.id) /\ ~Holds(b, s.id)'
  BY <1>2 DEF Holds, BatchShape
<1> QED BY <1>1, <1>3, <1>4 DEF LetGo, Held, Holds

-----------------------------------------------------------------------------
(* What a step does to a row and to a registration.                         *)

\* A step that leaves the rows and what is known of their races.
LEMMA RowsStay ==
    ASSUME UNCHANGED <<delivery, raced>>
    PROVE  \A d \in Delivery : RowStep(d)
BY DEF RowStep, RowStays

\* A termination fails what is pending of its registration and no more.
LEMMA TerminationSteps ==
    ASSUME TypeOK, NEW w \in Hook, NEW d \in Delivery,
           delivery'[d] = Terminated(w)[d], raced' = raced
    PROVE  RowStays(d) \/ RowFails(d)
BY TerminatedRows DEF TypeOK, RowStays, RowFails

\* A failure fails its row, if that is still there.
LEMMA FailureSteps ==
    ASSUME TypeOK, NEW s \in Sent, Held(s.id), NEW d \in Delivery,
           delivery'[d] = FailedRow(s)[d], raced' = raced
    PROVE  RowStays(d) \/ RowFails(d)
<1>1. delivery \in [Delivery -> Row]
  BY DEF TypeOK
<1>2. CASE d # s.id
  BY <1>1, <1>2, FailedRows DEF RowStays
<1>3. CASE d = s.id
  BY <1>1, <1>3, FailedRows DEF RowStays, RowFails, RowExists
<1> QED BY <1>2, <1>3

\* The rows that steps of an event, an editor or a request change.
LEMMA RowStepsOfOthers ==
    ASSUME TypeOK,
           \/ \E e \in Event : EventStep(e)
           \/ \E w \in Hook : EditorStep(w)
           \/ \E d \in Delivery : FallsDue(d) \/ Prune(d) \/ ResendStep(d)
    PROVE  \A d \in Delivery : RowStep(d)
<1>1. ASSUME NEW e \in Event, EventStep(e), NEW d \in Delivery PROVE RowStep(d)
  <2>1. CASE SelectHooks(e) \/ FanOutLost(e)
    BY <2>1, RowsStay DEF SelectHooks, FanOutLost, tables, history
  <2>2. CASE InsertRows(e)
    <3>1. CASE d[1] = e /\ HookOf(d) \in picked[e].hooks /\ \A w \in picked[e].hooks : HookExists(w)
      <4>1. delivery'[d] = [NoRow EXCEPT !.status = "pending", !.due = TRUE]
        BY <2>2, <3>1 DEF InsertRows
      <4>2. delivery'[d].status = "pending" /\ delivery'[d].resends = 0
        <5>1. NoRow.resends = 0
          BY DEF NoRow
        <5>2. "pending" \in Status /\ TRUE \in BOOLEAN
          BY DEF Status
        <5>3. [NoRow EXCEPT !.status = "pending", !.due = TRUE].status = "pending"
          BY <5>2, RowFields, NoRowIsRow
        <5>4. [NoRow EXCEPT !.status = "pending", !.due = TRUE].resends = NoRow.resends
          BY <5>2, RowFields, NoRowIsRow
        <5> QED BY <4>1, <5>1, <5>3, <5>4
      <4>3. Active(HookOf(d)) \/ d \in raced'
        BY <2>2, <3>1, DeliveryParts DEF InsertRows
      <4>4. picked[d[1]].at = "read" /\ picked'[d[1]].at = "over" /\ hook' = hook
        BY <2>2, <3>1 DEF InsertRows, TypeOK
      <4> QED BY <4>2, <4>3, <4>4 DEF RowStep, RowInserted
    <3>2. CASE ~(d[1] = e /\ HookOf(d) \in picked[e].hooks /\ \A w \in picked[e].hooks : HookExists(w))
      <4>1. delivery'[d] = delivery[d] /\ (d \in raced => d \in raced')
        BY <2>2, <3>2 DEF InsertRows
      <4> QED BY <4>1 DEF RowStep, RowStays
    <3> QED BY <3>1, <3>2
  <2> QED BY <1>1, <2>1, <2>2 DEF EventStep
<1>2. ASSUME NEW w \in Hook, EditorStep(w), NEW d \in Delivery PROVE RowStep(d)
  <2>1. CASE Register(w) \/ PatchRead(w) \/ PatchEnabled(w)
    BY <2>1, RowsStay DEF Register, PatchRead, PatchEnabled, tables, history
  <2>2. CASE PatchDisabled(w)
    <3>1. delivery' = Terminated(w) /\ raced' = raced
      BY <2>2 DEF PatchDisabled, history
    <3> QED BY <3>1, TerminationSteps DEF RowStep
  <2>3. CASE DeleteHook(w)
    <3>1. delivery'[d] = IF HookOf(d) = w THEN NoRow ELSE delivery[d]
      BY <2>3 DEF DeleteHook
    <3>2. raced' = raced /\ resend' = resend /\ todo' = todo /\ sends' = sends
             /\ blamed' = [blamed EXCEPT ![w] = {}]
      BY <2>3 DEF DeleteHook, requests, batches
    <3>3. CASE HookOf(d) = w
      BY <3>1, <3>2, <3>3 DEF RowStep, RowErased, NoRow, Holds, TypeOK
    <3>4. CASE HookOf(d) # w
      BY <3>1, <3>2, <3>4 DEF RowStep, RowStays
    <3> QED BY <3>3, <3>4
  <2> QED BY <1>2, <2>1, <2>2, <2>3 DEF EditorStep
<1>3. ASSUME NEW k \in Delivery, FallsDue(k) \/ Prune(k) \/ ResendStep(k),
             NEW d \in Delivery
      PROVE  RowStep(d)
  <2>1. CASE FallsDue(k)
    <3>1. delivery'[d].status = delivery[d].status /\ delivery'[d].resends = delivery[d].resends
      BY <2>1 DEF FallsDue, TypeOK, Row
    <3>2. raced' = raced
      BY <2>1 DEF FallsDue, history
    <3> QED BY <3>1, <3>2 DEF RowStep, RowStays
  <2>2. CASE Prune(k)
    <3>1. /\ delivery'[d] = IF d = k THEN NoRow ELSE delivery[d]
          /\ raced' = raced \ {k} /\ resend' = resend /\ ~Held(k)
          /\ todo' = todo /\ sends' = sends
      BY <2>2 DEF Prune, TypeOK, requests, batches
    <3> QED BY <3>1 DEF RowStep, RowErased, RowStays, NoRow, Holds
  <2>3. CASE ResendReadsHook(k) \/ ResendReadsRow(k)
    BY <2>3, RowsStay DEF ResendReadsHook, ResendReadsRow, tables, history
  <2>4. CASE ResendWrites(k)
    <3>1. CASE RowExists(k) /\ d = k
      <4>1. delivery'[d] = [status |-> "pending", due |-> TRUE, attempts |-> 0,
                            resends |-> delivery[d].resends + 1]
        BY <2>4, <3>1 DEF ResendWrites, TypeOK
      <4>2. resend[d] = "row" /\ resend'[d] = "none" /\ hook' = hook
        BY <2>4, <3>1 DEF ResendWrites, TypeOK
      <4>3. /\ Active(HookOf(d)) \/ d \in raced'
            /\ Held(d) \/ delivery[d].status # "failed" => d \in late'
        BY <2>4, <3>1 DEF ResendWrites
      <4>4. todo' = todo /\ sends' = sends
        BY <2>4 DEF ResendWrites, batches
      <4> QED BY <3>1, <4>1, <4>2, <4>3, <4>4 DEF RowStep, RowResent, Holds
    <3>2. CASE ~(RowExists(k) /\ d = k)
      <4>1. delivery'[d] = delivery[d] /\ (d \in raced => d \in raced')
        BY <2>4, <3>2 DEF ResendWrites, TypeOK
      <4> QED BY <4>1 DEF RowStep, RowStays
    <3> QED BY <3>1, <3>2
  <2> QED BY <1>3, <2>1, <2>2, <2>3, <2>4 DEF ResendStep
<1> QED BY <1>1, <1>2, <1>3

\* The rows that steps of a batch change.
LEMMA RowStepsOfBatch ==
    ASSUME TypeOK, BatchShape, [Next]_vars, NEW b \in Batch, BatchStep(b)
    PROVE  \A d \in Delivery : RowStep(d)
<1> SUFFICES ASSUME NEW d \in Delivery PROVE RowStep(d)
  OBVIOUS
<1>1. ASSUME NEW S \in SUBSET Delivery, Scan(b, S) PROVE RowStep(d)
  BY <1>1, RowsStay DEF Scan, tables, history
<1>2. ASSUME NEW S \in SUBSET Delivery, Claim(b, S) PROVE RowStep(d)
  <2>1. raced' = raced
    BY <1>2 DEF Claim
  <2>2. delivery'[d].status = delivery[d].status /\ delivery'[d].resends = delivery[d].resends
    <3>1. \/ delivery'[d] = delivery[d]
          \/ delivery'[d] = [delivery[d] EXCEPT
                !.attempts = Lesser(delivery[d].attempts + 1, MaxAttempts), !.due = FALSE]
      BY <1>2 DEF Claim
    <3>2. delivery[d] \in Row
      BY DEF TypeOK
    <3> QED BY <3>1, <3>2 DEF Row
  <2> QED BY <2>1, <2>2 DEF RowStep, RowStays
<1>3. CASE Recheck(b) \/ FinishBatch(b) \/ BatchDies(b)
  BY <1>3, RowsStay DEF Recheck, FinishBatch, BatchDies, tables, history
<1>4. ASSUME NEW c \in todo[b], Send(b, c) PROVE RowStep(d)
  BY <1>4, RowsStay DEF Send, tables, history
<1>5. ASSUME NEW s \in sends[b], NEW at \in {"accepted", "refused"}, Answer(b, s, at)
      PROVE  RowStep(d)
  BY <1>5, RowsStay DEF Answer, tables, history
<1>6. ASSUME NEW s \in sends[b], RecordThrows(b, s) PROVE RowStep(d)
  BY <1>6, RowsStay DEF RecordThrows, tables, history
<1>7. ASSUME NEW s \in sends[b], RecordSuccess(b, s) PROVE RowStep(d)
  <2>1. LetGo(b, s.id) /\ s.id \in Delivery /\ HookOf(s.id) \in Hook
    BY <1>7, SettleLetsGo DEF RecordSuccess
  <2>2. raced' = raced /\ blamed'[HookOf(s.id)] = {}
    BY <1>7, <2>1 DEF RecordSuccess, TypeOK
  <2>3. CASE RowExists(s.id)
    <3>1. delivery' = [delivery EXCEPT ![s.id].status = "delivered", ![s.id].due = FALSE]
      BY <1>7, <2>3 DEF RecordSuccess
    <3>2. /\ d # s.id => delivery'[d] = delivery[d]
          /\ d = s.id => /\ delivery'[d].status = "delivered"
                         /\ delivery'[d].resends = delivery[d].resends
      <4>1. "delivered" \in Status /\ delivery \in [Delivery -> Row]
        BY DEF Status, TypeOK
      <4> QED BY <2>1, <3>1, <4>1, SettledRow
    <3> QED BY <2>1, <2>2, <2>3, <3>2 DEF RowStep, RowStays, RowDelivered
  <2>4. CASE ~RowExists(s.id)
    BY <1>7, <2>2, <2>4, RowsStay DEF RecordSuccess
  <2> QED BY <2>3, <2>4
<1>8. ASSUME NEW s \in sends[b], Retry(b, s) PROVE RowStep(d)
  <2>1. Held(s.id) /\ s.id \in Delivery /\ Active(HookOf(s.id)) /\ raced' = raced /\ hook' = hook
    BY <1>8, SettleLetsGo DEF Retry, history
  <2>2. CASE RowExists(s.id)
    <3>1. delivery' = [delivery EXCEPT ![s.id].status = "pending", ![s.id].due = FALSE]
      BY <1>8, <2>2 DEF Retry
    <3>2. /\ d # s.id => delivery'[d] = delivery[d]
          /\ d = s.id => /\ delivery'[d].status = "pending"
                         /\ delivery'[d].resends = delivery[d].resends
      <4>1. "pending" \in Status /\ delivery \in [Delivery -> Row]
        BY DEF Status, TypeOK
      <4> QED BY <2>1, <3>1, <4>1, SettledRow
    <3> QED BY <2>1, <2>2, <3>2 DEF RowStep, RowStays, RowRetried
  <2>3. CASE ~RowExists(s.id)
    BY <1>8, <2>1, <2>3, RowsStay DEF Retry
  <2> QED BY <2>2, <2>3
<1>9. ASSUME NEW s \in sends[b], FailInactive(b, s) \/ FailUncounted(b, s) PROVE RowStep(d)
  <2>1. delivery' = FailedRow(s) /\ raced' = raced
    BY <1>9 DEF FailInactive, FailUncounted, history
  <2>2. s \in Sent /\ Held(s.id)
    BY DEF TypeOK, Held, Holds
  <2> QED BY <2>1, <2>2, FailureSteps DEF RowStep
<1>10. ASSUME NEW s \in sends[b], FailCounted(b, s) PROVE RowStep(d)
  <2>1. s \in Sent /\ Held(s.id) /\ HookOf(s.id) \in Hook
    BY DeliveryParts DEF TypeOK, Held, Holds, Sent
  <2>2. /\ delivery'[d] = Terminated(HookOf(s.id))[d] \/ delivery'[d] = FailedRow(s)[d]
        /\ raced' = raced
    BY <1>10 DEF FailCounted
  <2> QED BY <2>1, <2>2, FailureSteps, TerminationSteps DEF RowStep
<1> QED BY <1>1, <1>2, <1>3, <1>4, <1>5, <1>6, <1>7, <1>8, <1>9, <1>10 DEF BatchStep, RecordFailure

\* What a step does to the rows.
LEMMA RowSteps ==
    ASSUME TypeOK, BatchShape, [Next]_vars
    PROVE  \A d \in Delivery : RowStep(d)
<1>1. CASE UNCHANGED vars
  BY <1>1, RowsStay DEF vars, tables, history
<1> QED BY <1>1, RowStepsOfOthers, RowStepsOfBatch DEF Next

\* A step that leaves a registration and what counts against it.
LEMMA HookStays ==
    ASSUME NEW w \in Hook, hook'[w] = hook[w], blamed'[w] = blamed[w],
           w \in unreset => w \in unreset'
    PROVE  HookStep(w)
BY DEF HookStep, HookKept, Active

\* The registration whose delivery exhausted its attempts.
LEMMA CountedHook ==
    ASSUME TypeOK, BatchShape, NEW b \in Batch, NEW s \in sends[b], FailCounted(b, s)
    PROVE  HookStep(HookOf(s.id))
<1> DEFINE w == HookOf(s.id)
           fails == Lesser(hook[w].fails + 1, MaxConsecutive)
           disables == fails >= MaxConsecutive
<1>1. s \in Sent /\ s.id \in Delivery /\ w \in Hook
  BY DeliveryParts DEF TypeOK, Sent
<1>2. /\ hook' = [hook EXCEPT ![w] = [state |-> IF disables THEN "off" ELSE "on", fails |-> fails]]
      /\ delivery' = [d \in Delivery |-> IF d # s.id /\ disables THEN Terminated(w)[d]
                                         ELSE FailedRow(s)[d]]
      /\ blamed' = [blamed EXCEPT ![w] = @ \cup {s.id}]
      /\ Settle(b, s, disables) /\ Active(w) /\ Counts(s)
  BY DEF FailCounted
<1>3. fails \in 0 .. MaxConsecutive
  BY <1>1, LimitsArePositive DEF TypeOK, Lesser
<1>4. hook'[w] = [state |-> IF disables THEN "off" ELSE "on", fails |-> fails]
  BY <1>1, <1>2 DEF TypeOK
<1>5. blamed'[w] = blamed[w] \cup {s.id}
  BY <1>1, <1>2 DEF TypeOK
<1>6. LetGo(b, s.id)
  <2>1. disables \in BOOLEAN
    BY <1>3, LimitsArePositive
  <2> HIDE DEF disables
  <2> QED BY <1>2, <2>1, SettleLetsGo
<1>7. delivery'[s.id].status # "pending"
  <2>1. delivery'[s.id] = FailedRow(s)[s.id]
    BY <1>1, <1>2
  <2>2. FailedRow(s)[s.id].status \in {"none", "failed"}
    BY <1>1, FailedRows DEF TypeOK
  <2> QED BY <2>1, <2>2
<1>8. HookCounted(w)
  <2>1. Active(w)' => fails < MaxConsecutive
    BY <1>3, <1>4, LimitsArePositive DEF Active
  <2>2. ~s.resent
    BY <1>2 DEF Counts
  <2>3. hook'[w].fails = fails
    BY <1>4
  <2> HIDE DEF w
  <2>4. /\ HookOf(s.id) = w /\ ~s.resent /\ LetGo(b, s.id)
        /\ hook'[w].fails = Lesser(hook[w].fails + 1, MaxConsecutive)
        /\ Active(w)' => hook'[w].fails < MaxConsecutive
        /\ blamed'[w] = blamed[w] \cup {s.id}
        /\ delivery'[s.id].status # "pending"
    BY <1>5, <1>6, <1>7, <2>1, <2>2, <2>3 DEF w
  <2> QED BY <2>4 DEF HookCounted
<1>9. ASSUME ~Active(w)', NEW d \in Delivery, HookOf(d) = w PROVE delivery'[d].status # "pending"
  <2>1. disables
    BY <1>4, <1>9 DEF Active
  <2>2. CASE d # s.id
    <3>1. delivery'[d] = Terminated(w)[d]
      BY <1>2, <2>1, <2>2
    <3> HIDE DEF w
    <3> QED BY <1>1, <1>9, <3>1, TerminatedRows DEF TypeOK
  <2> QED BY <1>7, <2>2
<1>10. hook'[w].state # "new"
  BY <1>4
<1> HIDE DEF w
<1> QED BY <1>8, <1>9, <1>10 DEF HookStep, w

\* The registrations that steps of an editor change.
LEMMA HookStepsOfEditor ==
    ASSUME TypeOK, NEW v \in Hook, EditorStep(v)
    PROVE  \A w \in Hook : HookStep(w)
<1> SUFFICES ASSUME NEW w \in Hook PROVE HookStep(w)
  OBVIOUS
<1>1. CASE Register(v)
  <2>1. /\ UNCHANGED <<delivery, blamed, unreset>>
        /\ hook'[w].fails = hook[w].fails
        /\ w # v => hook'[w] = hook[w]
        /\ w = v => hook[w].state = "new" /\ hook'[w].state = "on"
    BY <1>1 DEF Register, TypeOK, history
  <2> QED BY <2>1, HookStays DEF HookStep, HookKept, Active
<1>2. CASE PatchDisabled(v)
  <2>1. /\ UNCHANGED <<blamed, unreset>> /\ delivery' = Terminated(v)
        /\ hook'[w].fails = hook[w].fails
        /\ w # v => hook'[w] = hook[w]
        /\ w = v => hook'[w].state = "off"
    BY <1>2 DEF PatchDisabled, TypeOK, history
  <2>2. \A d \in Delivery : HookOf(d) = v => delivery'[d].status # "pending"
    BY <2>1, TerminatedRows DEF TypeOK
  <2> QED BY <2>1, <2>2, HookStays DEF HookStep, HookKept, Active
<1>3. CASE PatchRead(v)
  BY <1>3, HookStays DEF PatchRead, tables, history
<1>4. CASE PatchEnabled(v)
  <2>1. CASE ~HookExists(v) \/ w # v
    <3>1. hook'[w] = hook[w] /\ blamed'[w] = blamed[w] /\ (w \in unreset => w \in unreset')
      BY <1>4, <2>1 DEF PatchEnabled, TypeOK
    <3> QED BY <3>1, HookStays
  <2>2. CASE HookExists(v) /\ ClearsCounter(v) /\ w = v
    <3>1. /\ hook' = [hook EXCEPT ![w] = [state |-> "on", fails |-> 0]]
          /\ blamed' = [blamed EXCEPT ![w] = {}]
      BY <1>4, <2>2 DEF PatchEnabled
    <3>2. hook'[w].state = "on" /\ hook'[w].fails = 0 /\ blamed'[w] = {}
      BY <3>1 DEF TypeOK
    <3> QED BY <3>2 DEF HookStep, HookCleared, Active
  <2>3. CASE HookExists(v) /\ ~ClearsCounter(v) /\ w = v
    <3>1. /\ hook' = [hook EXCEPT ![w].state = "on"] /\ blamed' = blamed
          /\ unreset' = IF ~Active(w) /\ patch[w] = "on" THEN unreset \cup {w} ELSE unreset
      BY <1>4, <2>3 DEF PatchEnabled
    <3>2. hook'[w].state = "on" /\ hook'[w].fails = hook[w].fails
      BY <3>1 DEF TypeOK
    <3>3. patch[w] = "on"
      BY <1>4, <2>3 DEF PatchEnabled, ClearsCounter, TypeOK
    <3> QED BY <3>1, <3>2, <3>3 DEF HookStep, HookKept, Active
  <2> QED BY <2>1, <2>2, <2>3
<1>5. CASE DeleteHook(v)
  <2>1. CASE w # v
    <3>1. hook'[w] = hook[w] /\ blamed'[w] = blamed[w] /\ (w \in unreset => w \in unreset')
      BY <1>5, <2>1 DEF DeleteHook, TypeOK
    <3> QED BY <3>1, HookStays
  <2>2. CASE w = v
    <3>1. hook'[w] = [state |-> "gone", fails |-> 0] /\ blamed'[w] = {}
      BY <1>5, <2>2 DEF DeleteHook, TypeOK
    <3>2. \A d \in Delivery : HookOf(d) = w => delivery'[d].status = "none"
      BY <1>5, <2>2 DEF DeleteHook, NoRow
    <3> QED BY <3>1, <3>2 DEF HookStep, HookCleared
  <2> QED BY <2>1, <2>2
<1> QED BY <1>1, <1>2, <1>3, <1>4, <1>5 DEF EditorStep

\* What a step does to the registrations.
LEMMA HookSteps ==
    ASSUME TypeOK, BatchShape, [Next]_vars
    PROVE  \A w \in Hook : HookStep(w)
<1>u. ASSUME UNCHANGED <<hook, blamed, unreset>> PROVE \A w \in Hook : HookStep(w)
  BY <1>u, HookStays
<1>s. ASSUME UNCHANGED vars PROVE UNCHANGED <<hook, blamed, unreset>>
  BY <1>s DEF vars, tables, history
<1>e. ASSUME NEW e \in Event, EventStep(e) PROVE UNCHANGED <<hook, blamed, unreset>>
  BY <1>e DEF EventStep, SelectHooks, InsertRows, FanOutLost, tables, history
<1>d. ASSUME NEW d \in Delivery, FallsDue(d) \/ Prune(d) \/ ResendStep(d)
      PROVE  UNCHANGED <<hook, blamed, unreset>>
  BY <1>d DEF FallsDue, Prune, ResendStep, ResendReadsHook, ResendReadsRow, ResendWrites,
              tables, history
<1>b. ASSUME NEW b \in Batch, BatchStep(b) PROVE \A w \in Hook : HookStep(w)
  <2>1. ASSUME NEW S \in SUBSET Delivery, Scan(b, S) \/ Claim(b, S)
        PROVE  UNCHANGED <<hook, blamed, unreset>>
    BY <2>1 DEF Scan, Claim, tables, history
  <2>2. ASSUME Recheck(b) \/ FinishBatch(b) \/ BatchDies(b)
        PROVE  UNCHANGED <<hook, blamed, unreset>>
    BY <2>2 DEF Recheck, FinishBatch, BatchDies, tables, history
  <2>3. ASSUME NEW c \in todo[b], Send(b, c) PROVE UNCHANGED <<hook, blamed, unreset>>
    BY <2>3 DEF Send, tables, history
  <2>4. ASSUME NEW s \in sends[b],
               \/ \E at \in {"accepted", "refused"} : Answer(b, s, at)
               \/ RecordThrows(b, s) \/ Retry(b, s) \/ FailInactive(b, s) \/ FailUncounted(b, s)
        PROVE  UNCHANGED <<hook, blamed, unreset>>
    BY <2>4 DEF Answer, RecordThrows, Retry, FailInactive, FailUncounted, tables, history
  <2>5. ASSUME NEW s \in sends[b], RecordSuccess(b, s), NEW w \in Hook PROVE HookStep(w)
    <3>1. /\ hook' = [hook EXCEPT ![HookOf(s.id)].fails = 0]
          /\ blamed' = [blamed EXCEPT ![HookOf(s.id)] = {}]
          /\ unreset' = unreset \ {HookOf(s.id)}
      BY <2>5 DEF RecordSuccess
    <3>2. CASE w # HookOf(s.id)
      BY <3>1, <3>2, HookStays DEF TypeOK
    <3>3. CASE w = HookOf(s.id)
      BY <3>1, <3>3 DEF HookStep, HookCleared, Active, TypeOK
    <3> QED BY <3>2, <3>3
  <2>6. ASSUME NEW s \in sends[b], FailCounted(b, s), NEW w \in Hook PROVE HookStep(w)
    <3>1. CASE w # HookOf(s.id)
      <4>1. hook'[w] = hook[w] /\ blamed'[w] = blamed[w] /\ unreset' = unreset
        BY <2>6, <3>1 DEF FailCounted, TypeOK
      <4> QED BY <4>1, HookStays
    <3> QED BY <2>6, <3>1, CountedHook
  <2> QED BY <1>b, <1>u, <2>1, <2>2, <2>3, <2>4, <2>5, <2>6 DEF BatchStep, RecordFailure
<1>w. ASSUME NEW w \in Hook, EditorStep(w) PROVE \A v \in Hook : HookStep(v)
  BY <1>w, HookStepsOfEditor
<1> QED BY <1>u, <1>s, <1>e, <1>d, <1>b, <1>w DEF Next

\* What a step does to the requests under way, and that no race is forgotten.
LEMMA RequestSteps ==
    ASSUME TypeOK, [Next]_vars
    PROVE  /\ late \subseteq late'
           /\ \A e \in Event : picked[e].at = "over" => picked'[e].at = "over"
           /\ \A d \in Delivery : resend'[d] # "none" =>
                 resend[d] # "none" \/ delivery[d].resends < MaxResends
<1> DEFINE Goal == /\ late \subseteq late'
                   /\ \A e \in Event : picked[e].at = "over" => picked'[e].at = "over"
                   /\ \A d \in Delivery : resend'[d] # "none" =>
                         resend[d] # "none" \/ delivery[d].resends < MaxResends
<1>u. ASSUME UNCHANGED <<picked, resend, late>> PROVE Goal
  BY <1>u
<1>s. ASSUME UNCHANGED vars PROVE Goal
  BY <1>s DEF vars, requests, history
<1>e. ASSUME NEW e \in Event, EventStep(e) PROVE Goal
  <2>1. UNCHANGED <<resend, late>>
    BY <1>e DEF EventStep, SelectHooks, InsertRows, FanOutLost, history
  <2>2. \A f \in Event : picked[f].at = "over" => picked'[f].at = "over"
    BY <1>e DEF EventStep, SelectHooks, InsertRows, FanOutLost, TypeOK
  <2> QED BY <2>1, <2>2
<1>w. ASSUME NEW w \in Hook, EditorStep(w) PROVE UNCHANGED <<picked, resend, late>>
  BY <1>w DEF EditorStep, Register, PatchDisabled, PatchRead, PatchEnabled, DeleteHook,
              requests, history
<1>d. ASSUME NEW d \in Delivery, FallsDue(d) \/ Prune(d) \/ ResendStep(d) PROVE Goal
  <2>1. UNCHANGED picked
    BY <1>d DEF FallsDue, Prune, ResendStep, ResendReadsHook, ResendReadsRow, ResendWrites, requests
  <2>2. late \subseteq late'
    BY <1>d DEF FallsDue, Prune, ResendStep, ResendReadsHook, ResendReadsRow, ResendWrites, history
  <2>3. CASE FallsDue(d) \/ Prune(d)
    BY <2>1, <2>2, <2>3 DEF FallsDue, Prune, requests
  <2>4. CASE ResendStep(d)
    BY <2>1, <2>2, <2>4 DEF ResendStep, ResendReadsHook, ResendReadsRow, ResendWrites, TypeOK
  <2> QED BY <1>d, <2>3, <2>4
<1>b. ASSUME NEW b \in Batch, BatchStep(b) PROVE UNCHANGED <<picked, resend>> /\ late \subseteq late'
  <2>1. ASSUME NEW S \in SUBSET Delivery, Scan(b, S) \/ Claim(b, S)
        PROVE  UNCHANGED <<picked, resend>> /\ late \subseteq late'
    BY <2>1 DEF Scan, Claim, requests, history
  <2>2. CASE Recheck(b) \/ FinishBatch(b) \/ BatchDies(b)
    BY <2>2 DEF Recheck, FinishBatch, BatchDies, requests, history
  <2>3. ASSUME NEW c \in todo[b], Send(b, c) PROVE UNCHANGED <<picked, resend, late>>
    BY <2>3 DEF Send, requests, history
  <2>4. ASSUME NEW s \in sends[b], RecordSuccess(b, s) \/ RecordThrows(b, s) \/ RecordFailure(b, s)
        PROVE  UNCHANGED <<picked, resend, late>>
    BY <2>4 DEF RecordSuccess, RecordThrows, RecordFailure, Retry, FailInactive, FailUncounted,
                FailCounted, requests, history
  <2>5. ASSUME NEW s \in sends[b], \E at \in {"accepted", "refused"} : Answer(b, s, at)
        PROVE  UNCHANGED <<picked, resend, late>>
    BY <2>5 DEF Answer, requests, history
  <2> QED BY <1>b, <2>1, <2>2, <2>3, <2>4, <2>5 DEF BatchStep
<1>b2. ASSUME NEW b \in Batch, BatchStep(b) PROVE Goal
  BY <1>b, <1>b2
<1>w2. ASSUME NEW w \in Hook, EditorStep(w) PROVE Goal
  BY <1>w, <1>w2
<1> HIDE DEF Goal
<1>1. Goal
  BY <1>s, <1>e, <1>w2, <1>d, <1>b2 DEF Next
<1> QED BY <1>1 DEF Goal

-----------------------------------------------------------------------------
(* The base: types, the shape of a batch and the room for a re-send.        *)

\* What a row and an unsettled batch look like, in every state.
Base == TypeOK /\ ResendsFit /\ BatchShape

\* A redeliver request under way has a re-send to spare.
LEMMA NextResendsFit == Base /\ [Next]_vars => ResendsFit'
<1> SUFFICES ASSUME Base, [Next]_vars, NEW d \in Delivery, resend'[d] # "none"
             PROVE  delivery'[d].resends < MaxResends
  BY DEF ResendsFit
<1>1. delivery[d].resends \in Nat /\ MaxResends \in Nat
  BY LimitsArePositive DEF Base, TypeOK, Row
<1>2. resend[d] # "none" \/ delivery[d].resends < MaxResends
  BY RequestSteps DEF Base
<1>3. delivery[d].resends < MaxResends
  BY <1>2 DEF Base, ResendsFit
<1>4. RowStep(d)
  BY RowSteps DEF Base
<1> QED BY <1>1, <1>3, <1>4 DEF RowStep, RowStays, RowInserted, RowFails, RowDelivered,
                                RowRetried, RowErased, RowResent

\* The initial state has it all, and nothing happened in it yet.
LEMMA InitBase ==
    ASSUME Init
    PROVE  /\ Base
           /\ \A d \in Delivery : ~Held(d) /\ delivery[d].status = "none"
           /\ \A w \in Hook : hook[w].state = "new" /\ hook[w].fails = 0 /\ blamed[w] = {}
<1>1. \A d \in Delivery : delivery[d] = NoRow /\ resend[d] = "none"
  BY DEF Init
<1>2. \A b \in Batch : todo[b] = {} /\ sends[b] = {}
  BY DEF Init
<1>3. TypeOK
  <2>1. hook \in [Hook -> [state : HookState, fails : 0 .. MaxConsecutive]]
    <3>1. [state |-> "new", fails |-> 0] \in [state : HookState, fails : 0 .. MaxConsecutive]
      BY LimitsArePositive DEF HookState
    <3> QED BY <3>1 DEF Init
  <2>2. delivery \in [Delivery -> Row]
    BY NoRowIsRow DEF Init
  <2> QED BY <2>1, <2>2, LimitsArePositive DEF Init, TypeOK
<1>4. BatchShape
  BY <1>2 DEF BatchShape
<1>5. ResendsFit
  BY <1>1 DEF ResendsFit
<1>6. \A d \in Delivery : ~Held(d) /\ delivery[d].status = "none"
  BY <1>1, <1>2 DEF Held, Holds, NoRow
<1>7. \A w \in Hook : hook[w].state = "new" /\ hook[w].fails = 0 /\ blamed[w] = {}
  BY DEF Init
<1> QED BY <1>3, <1>4, <1>5, <1>6, <1>7 DEF Base

\* The base holds in every state.
LEMMA BaseHolds == Spec => []Base
<1>1. Init => Base
  BY InitBase
<1>2. Base /\ [Next]_vars => Base'
  <2> SUFFICES ASSUME Base, [Next]_vars PROVE TypeOK' /\ ResendsFit' /\ BatchShape'
    BY DEF Base
  <2> QED BY NextTypeOK, NextResendsFit, NextBatchShape DEF Base
<1> QED BY <1>1, <1>2, PTL DEF Spec

\* The tables, and what batches and requests have read, keep their types.
THEOREM TypesHold == Spec => []TypeOK
<1>1. Base => TypeOK
  BY DEF Base
<1> QED BY <1>1, BaseHolds, PTL

-----------------------------------------------------------------------------
(* Rows of a disabled registration.                                         *)

\* queue.ts:157-158, 228-230: whatever settles a row while its registration is
\* disabled, re-enabled or deleted, it leaves no pending row out of reach of the
\* claim: only a request that read the registration as active before does.
THEOREM SettlingStrandsNone == Spec => []StrandedOnlyByRace
<1>1. Init => StrandedOnlyByRace
  BY InitBase DEF StrandedOnlyByRace
<1>2. Base /\ StrandedOnlyByRace /\ [Next]_vars => StrandedOnlyByRace'
  <2> SUFFICES ASSUME Base, StrandedOnlyByRace, [Next]_vars, NEW d \in Delivery,
                      delivery'[d].status = "pending", ~Active(HookOf(d))'
               PROVE  d \in raced'
    BY DEF StrandedOnlyByRace
  <2>1. HookOf(d) \in Hook /\ HookStep(HookOf(d)) /\ RowStep(d)
    BY HookSteps, RowSteps, DeliveryParts DEF Base
  <2>2. ~Active(HookOf(d))
    BY <2>1 DEF HookStep
  <2>3. CASE RowStays(d)
    BY <2>2, <2>3 DEF RowStays, StrandedOnlyByRace
  <2>4. CASE RowInserted(d) \/ RowResent(d)
    BY <2>2, <2>4 DEF RowInserted, RowResent
  <2>5. CASE RowRetried(d)
    BY <2>2, <2>5 DEF RowRetried
  <2>6. CASE RowFails(d) \/ RowDelivered(d) \/ RowErased(d)
    BY <2>6 DEF RowFails, RowDelivered, RowErased
  <2> QED BY <2>1, <2>3, <2>4, <2>5, <2>6 DEF RowStep
<1> QED BY <1>1, <1>2, BaseHolds, PTL DEF Spec

-----------------------------------------------------------------------------
(* Registrations and their limit.                                           *)

\* README "five consecutive deliveries exhaust their attempts": a registration
\* that is active has failures to spare, unless a PATCH re-enabled it on a reading
\* from before it was disabled.
THEOREM ActiveHasSpare == Spec => []ActiveBelowLimit
<1> DEFINE Inv == NewAtZero /\ ActiveBelowLimit
<1>1. Init => Inv
  BY InitBase DEF NewAtZero, ActiveBelowLimit, Active
<1>2. Base /\ Inv /\ [Next]_vars => Inv'
  <2> SUFFICES ASSUME Base, Inv, [Next]_vars, NEW w \in Hook
               PROVE  /\ hook'[w].state = "new" => hook'[w].fails = 0
                      /\ Active(w)' /\ w \notin unreset' => hook'[w].fails < MaxConsecutive
    BY DEF NewAtZero, ActiveBelowLimit
  <2>1. HookStep(w)
    BY HookSteps DEF Base
  <2>2. hook[w].state = "new" => hook[w].fails = 0
    BY DEF NewAtZero
  <2>3. hook'[w].state = "new" => hook'[w].fails = 0
    BY <2>1, <2>2 DEF HookStep
  <2>4. ASSUME Active(w)', w \notin unreset' PROVE hook'[w].fails < MaxConsecutive
    <3>1. CASE HookKept(w)
      BY <2>2, <2>4, <3>1, LimitsArePositive DEF HookKept, ActiveBelowLimit
    <3>2. CASE HookCleared(w)
      BY <3>2, LimitsArePositive DEF HookCleared
    <3>3. CASE HookCounted(w)
      BY <2>4, <3>3 DEF HookCounted
    <3> QED BY <2>1, <3>1, <3>2, <3>3 DEF HookStep
  <2> QED BY <2>3, <2>4
<1>3. Inv => ActiveBelowLimit
  OBVIOUS
<1> HIDE DEF Inv
<1> QED BY <1>1, <1>2, <1>3, BaseHolds, PTL DEF Spec

-----------------------------------------------------------------------------
(* Who has which delivery.                                                  *)

\* Before anything happened no batch has anything.
LEMMA InitHoldings == Init => Holdings /\ BlamedOnlyResent
<1> SUFFICES ASSUME Init PROVE Holdings /\ BlamedOnlyResent
  OBVIOUS
<1>1. \A d \in Delivery : ~Held(d) /\ delivery[d].status = "none"
  BY InitBase
<1>2. \A w \in Hook : blamed[w] = {}
  BY InitBase
<1>3. RowsByInsert /\ HeldUndelivered
  BY <1>1 DEF RowsByInsert, HeldUndelivered, RowExists
<1>4. SoleHolder
  BY <1>1 DEF SoleHolder, Held
<1>5. BlamedOnlyResent
  BY <1>2 DEF BlamedOnlyResent
<1> QED BY <1>3, <1>4, <1>5 DEF Holdings

\* No step lets two batches have a delivery, or a batch a delivered one, without
\* a race that is recorded.
LEMMA NextHoldings == Base /\ Holdings /\ [Next]_vars => Holdings'
<1> SUFFICES ASSUME Base, Holdings, [Next]_vars PROVE Holdings'
  OBVIOUS
<1>1. \A d \in Delivery : RowStep(d) /\ \A b \in Batch : HoldStep(b, d)
  BY RowSteps, HoldSteps DEF Base
<1>2. late \subseteq late' /\ \A e \in Event : picked[e].at = "over" => picked'[e].at = "over"
  BY RequestSteps DEF Base
<1>3. RowsByInsert'
  <2> SUFFICES ASSUME NEW d \in Delivery, RowExists(d)' \/ Held(d)' PROVE picked'[d[1]].at = "over"
    BY DEF RowsByInsert
  <2>1. CASE Held(d)'
    <3>1. PICK b \in Batch : Holds(b, d)'
      BY <2>1 DEF Held
    <3>2. Held(d) \/ RowExists(d)
      BY <1>1, <3>1 DEF HoldStep, Kept, Taken, Held
    <3> QED BY <1>2, <3>2, DeliveryParts DEF Holdings, RowsByInsert
  <2>2. CASE RowExists(d)'
    <3>1. RowExists(d) \/ picked'[d[1]].at = "over"
      BY <1>1, <2>2 DEF RowStep, RowStays, RowInserted, RowFails, RowDelivered, RowRetried,
                        RowErased, RowResent, RowExists
    <3> QED BY <1>2, <3>1, DeliveryParts DEF Holdings, RowsByInsert
  <2> QED BY <2>1, <2>2
<1>4. SoleHolder'
  <2> SUFFICES ASSUME NEW d \in Delivery, d \notin late', NEW a \in Batch, NEW b \in Batch,
                      Holds(a, d)', Holds(b, d)', a # b
               PROVE  FALSE
    BY DEF SoleHolder
  <2>1. HoldStep(a, d) /\ HoldStep(b, d)
    BY <1>1
  <2>2. ~Taken(a, d) /\ ~Taken(b, d)
    BY DEF Taken, Held
  <2>3. Holds(a, d) /\ Holds(b, d)
    BY <2>1, <2>2 DEF HoldStep, Kept
  <2> QED BY <1>2, <2>3 DEF Holdings, SoleHolder
<1>5. HeldUndelivered'
  <2> SUFFICES ASSUME NEW d \in Delivery, d \notin late', Held(d)'
               PROVE  delivery'[d].status # "delivered"
    BY DEF HeldUndelivered
  <2>1. PICK b \in Batch : Holds(b, d)'
    BY DEF Held
  <2>2. CASE Taken(b, d)
    BY <2>2 DEF Taken, RowStays, StillDue
  <2>3. CASE Kept(b, d)
    <3>1. Held(d) /\ Holds(b, d) /\ d \notin late
      BY <1>2, <2>3 DEF Kept, Held
    <3>2. delivery[d].status # "delivered"
      BY <3>1 DEF Holdings, HeldUndelivered
    <3>3. ~RowDelivered(d)
      BY <2>1, <3>1 DEF RowDelivered, LetGo, Holdings, SoleHolder
    <3> QED BY <1>1, <3>2, <3>3 DEF RowStep, RowStays, RowInserted, RowFails, RowRetried,
                                    RowErased, RowResent
  <2> QED BY <1>1, <2>1, <2>2, <2>3 DEF HoldStep
<1> QED BY <1>3, <1>4, <1>5 DEF Holdings

\* The holdings are as described in every state.
LEMMA HoldingsHold == Spec => []Holdings
<1>1. Init => Holdings
  BY InitHoldings
<1> QED BY <1>1, NextHoldings, BaseHolds, PTL DEF Spec

\* queue.ts:228-242, routes/webhooks.ts:440-460: no step takes "delivered" from a
\* row that it does not erase, unless two writers had it at once.
THEOREM DeliveredIsFinal == Spec => DeliveredStays
<1> DEFINE Final == \A d \in Delivery : delivery[d].status = "delivered" =>
                       delivery'[d].status \in {"delivered", "none"} \/ d \in late'
<1>1. Base /\ Holdings /\ [Next]_vars => [Final]_vars
  <2> SUFFICES ASSUME Base, Holdings, [Next]_vars,
                      NEW d \in Delivery, delivery[d].status = "delivered", d \notin late'
               PROVE  delivery'[d].status \in {"delivered", "none"}
    OBVIOUS
  <2>1. RowStep(d) /\ d \notin late
    BY RowSteps, RequestSteps DEF Base
  <2>2. ~Held(d)
    BY <2>1 DEF Holdings, HeldUndelivered
  <2>3. ~RowInserted(d)
    BY DEF Holdings, RowsByInsert, RowInserted, RowExists
  <2>4. ~RowFails(d) /\ ~RowRetried(d) /\ ~RowResent(d)
    BY <2>2 DEF RowFails, RowRetried, RowResent
  <2> QED BY <2>1, <2>3, <2>4 DEF RowStep, RowStays, RowDelivered, RowErased
<1>2. DeliveredStays <=> [][Final]_vars
  BY DEF DeliveredStays
<1> HIDE DEF Final
<1> QED BY <1>1, <1>2, BaseHolds, HoldingsHold, PTL DEF Spec

-----------------------------------------------------------------------------
(* What counts against a registration.                                      *)

\* A delivery already counted is tried again only when it is re-sent.
LEMMA NextBlamed ==
    Base /\ Holdings /\ BlamedOnlyResent /\ [Next]_vars => BlamedOnlyResent'
<1> SUFFICES ASSUME Base, Holdings, BlamedOnlyResent, [Next]_vars,
                    NEW w \in Hook, NEW d \in blamed'[w]
             PROVE  /\ HookOf(d) = w /\ picked'[d[1]].at = "over"
                    /\ d \notin late' =>
                         /\ delivery'[d].status = "pending" => delivery'[d].resends > 0
                         /\ OnlyResent(d)'
  BY DEF BlamedOnlyResent
<1>1. TypeOK /\ TypeOK'
  BY NextTypeOK DEF Base
<1>2. d \in Delivery
  BY <1>1 DEF TypeOK
<1>3. RowStep(d) /\ HookStep(w) /\ \A b \in Batch : HoldStep(b, d)
  BY <1>2, RowSteps, HookSteps, HoldSteps DEF Base
<1>4. late \subseteq late' /\ \A e \in Event : picked[e].at = "over" => picked'[e].at = "over"
  BY RequestSteps DEF Base
<1>5. CASE d \in blamed[w]
  <2>1. HookOf(d) = w /\ picked[d[1]].at = "over" /\ picked'[d[1]].at = "over"
    BY <1>2, <1>4, <1>5, DeliveryParts DEF BlamedOnlyResent
  <2> SUFFICES ASSUME d \notin late'
               PROVE  /\ delivery'[d].status = "pending" => delivery'[d].resends > 0
                      /\ OnlyResent(d)'
    BY <2>1
  <2>2. (delivery[d].status = "pending" => delivery[d].resends > 0) /\ OnlyResent(d)
    BY <1>4, <1>5 DEF BlamedOnlyResent
  <2>3. delivery[d].resends \in Nat
    BY <1>1, <1>2, LimitsArePositive DEF TypeOK, Row
  <2>4. ~RowInserted(d)
    BY <2>1 DEF RowInserted
  <2>5. delivery'[d].status = "pending" => delivery'[d].resends > 0
    BY <1>3, <2>2, <2>3, <2>4 DEF RowStep, RowStays, RowFails, RowDelivered, RowRetried,
                                  RowErased, RowResent, OnlyResent
  <2>6. ASSUME NEW b \in Batch, Holds(b, d)'
        PROVE  /\ delivery'[d].resends > 0
               /\ \A c \in todo'[b] \cup sends'[b] : c.id = d => c.resent
    <3>1. CASE Kept(b, d)
      <4>1. Held(d)
        BY <3>1 DEF Kept, Held
      <4>2. delivery[d].resends > 0
        BY <2>2, <4>1 DEF OnlyResent
      <4>3. ~RowErased(d)
        BY <2>1, <4>1 DEF RowErased
      <4>4. delivery'[d].resends > 0
        BY <1>3, <2>3, <2>4, <4>2, <4>3 DEF RowStep, RowStays, RowFails, RowDelivered,
                                            RowRetried, RowResent
      <4>5. \A c \in todo'[b] \cup sends'[b] : c.id = d => c.resent
        BY <2>2, <3>1, <4>1 DEF Kept, OnlyResent
      <4> QED BY <4>4, <4>5
    <3>2. CASE Taken(b, d)
      <4>1. delivery[d].resends > 0 /\ delivery'[d].resends > 0
        BY <2>2, <3>2 DEF Taken, StillDue, RowStays
      <4>2. \A c \in todo'[b] \cup sends'[b] : c.id = d => c.resent = (delivery[d].resends > 0)
        BY <3>2 DEF Taken
      <4> QED BY <4>1, <4>2
    <3> QED BY <1>3, <2>6, <3>1, <3>2 DEF HoldStep
  <2>7. OnlyResent(d)'
    <3> SUFFICES ASSUME Held(d)'
                 PROVE  /\ delivery'[d].resends > 0
                        /\ \A b \in Batch : \A c \in todo'[b] \cup sends'[b] : c.id = d => c.resent
      BY DEF OnlyResent
    <3>1. delivery'[d].resends > 0
      BY <2>6 DEF Held
    <3>2. ASSUME NEW b \in Batch, NEW c \in todo'[b] \cup sends'[b], c.id = d PROVE c.resent
      <4>1. Holds(b, d)'
        BY <3>2 DEF Holds
      <4> QED BY <2>6, <3>2, <4>1
    <3> QED BY <3>1, <3>2
  <2> QED BY <2>5, <2>7
<1>6. CASE d \notin blamed[w]
  <2>1. HookCounted(w)
    BY <1>3, <1>6 DEF HookStep, HookKept, HookCleared
  <2>2. PICK b \in Batch : /\ HookOf(d) = w /\ LetGo(b, d)
                           /\ delivery'[d].status # "pending"
    BY <1>6, <2>1 DEF HookCounted
  <2>3. picked'[d[1]].at = "over"
    BY <1>2, <1>4, <2>2, DeliveryParts DEF LetGo, Held, Holdings, RowsByInsert
  <2>4. d \notin late' => ~Held(d)'
    BY <1>2, <1>4, <2>2 DEF LetGo, Held, Holdings, SoleHolder
  <2> QED BY <2>2, <2>3, <2>4 DEF OnlyResent
<1> QED BY <1>5, <1>6

\* README "Manually re-sent deliveries never count toward that threshold": as long
\* as no two batches had one of them at once, consecutive_failures counts no
\* delivery twice.
THEOREM NoFailureCountsTwice == Spec => []FailuresAreDistinct
<1>1. Init => BlamedOnlyResent /\ FailuresAreDistinct
  <2> SUFFICES ASSUME Init PROVE FailuresAreDistinct
    BY InitHoldings
  <2>1. \A w \in Hook : hook[w].fails = 0 /\ blamed[w] = {}
    BY InitBase
  <2>2. Cardinality({}) = 0
    BY FS_EmptySet
  <2> QED BY <2>1, <2>2 DEF FailuresAreDistinct
<1>2. Base /\ Holdings /\ BlamedOnlyResent /\ FailuresAreDistinct /\ [Next]_vars
         => FailuresAreDistinct'
  <2> SUFFICES ASSUME Base, Holdings, BlamedOnlyResent, FailuresAreDistinct, [Next]_vars,
                      NEW w \in Hook, blamed'[w] \cap late' = {}
               PROVE  hook'[w].fails <= Cardinality(blamed'[w])
    BY DEF FailuresAreDistinct
  <2>1. HookStep(w) /\ late \subseteq late'
    BY HookSteps, RequestSteps DEF Base
  <2>2. CASE HookKept(w)
    BY <2>1, <2>2 DEF HookKept, FailuresAreDistinct
  <2>3. CASE HookCleared(w)
    BY <2>3, FS_EmptySet DEF HookCleared
  <2>4. CASE HookCounted(w)
    <3>1. PICK b \in Batch : \E s \in sends[b] :
              /\ ~s.resent
              /\ hook'[w].fails = Lesser(hook[w].fails + 1, MaxConsecutive)
              /\ blamed'[w] = blamed[w] \cup {s.id}
      BY <2>4 DEF HookCounted
    <3>2. PICK s \in sends[b] :
              /\ ~s.resent
              /\ hook'[w].fails = Lesser(hook[w].fails + 1, MaxConsecutive)
              /\ blamed'[w] = blamed[w] \cup {s.id}
      BY <3>1
    <3>3. s.id \notin late /\ blamed[w] \cap late = {}
      BY <2>1, <3>2
    <3>4. s.id \notin blamed[w]
      <4>1. Held(s.id)
        BY DEF Held, Holds
      <4>2. s.id \in blamed[w] => OnlyResent(s.id)
        BY <3>3 DEF BlamedOnlyResent
      <4> QED BY <3>2, <4>1, <4>2 DEF OnlyResent
    <3>5. IsFiniteSet(blamed[w])
      <4>1. IsFiniteSet(Delivery)
        BY WebhookSets, FS_Product DEF Delivery
      <4>2. blamed[w] \subseteq Delivery
        BY DEF Base, TypeOK
      <4> QED BY <4>1, <4>2, FS_Subset
    <3>6. /\ Cardinality(blamed'[w]) = Cardinality(blamed[w]) + 1
          /\ Cardinality(blamed[w]) \in Nat
      BY <3>2, <3>4, <3>5, FS_AddElement, FS_CardinalityType
    <3>7. hook[w].fails <= Cardinality(blamed[w])
      BY <3>3 DEF FailuresAreDistinct
    <3>8. hook[w].fails \in Nat
      BY LimitsArePositive DEF Base, TypeOK
    <3> QED BY <3>2, <3>6, <3>7, <3>8, LimitsArePositive DEF Lesser
  <2> QED BY <2>1, <2>2, <2>3, <2>4 DEF HookStep
<1> QED BY <1>1, <1>2, NextBlamed, BaseHolds, HoldingsHold, PTL DEF Spec

=============================================================================
