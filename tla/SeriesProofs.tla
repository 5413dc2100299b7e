---------------------------- MODULE SeriesProofs ----------------------------
(***************************************************************************)
(* Proofs about Series: an active series is armed, no day is counted twice *)
(* or beside its card, a sweep skips no occurrence, and only an edit       *)
(* brings a series back.                                                   *)
(***************************************************************************)
EXTENDS Series, FiniteSetTheorems, TLAPS

-----------------------------------------------------------------------------
(* Least and greatest numbers.                                              *)

\* A set of naturals that is not empty has a least member.
LEMMA LeastNatural ==
    ASSUME NEW S \in SUBSET Nat, S # {}
    PROVE  \E m \in S : \A k \in S : m <= k
<1> DEFINE R == OpToRel(<, Nat)
<1>1. IsWellFoundedOn(R, Nat)
  BY NatLessThanWellFounded
<1>2. \A x, y \in Nat : y < x => <<y, x>> \in R
  BY DEF OpToRel
<1> HIDE DEF R
<1>3. PICK x \in S : \A y \in S : <<y, x>> \notin R
  BY <1>1, WFMin
<1>4. \A y \in S : ~(y < x)
  BY <1>2, <1>3
<1> QED BY <1>4

\* ... and a greatest one when it is bounded.
LEMMA GreatestNatural ==
    ASSUME NEW S \in SUBSET Nat, S # {}, NEW n \in Nat, \A k \in S : k <= n
    PROVE  \E m \in S : \A k \in S : m >= k
<1> DEFINE Bounds == {b \in Nat : \A k \in S : k <= b}
<1>1. PICK b \in Bounds : \A c \in Bounds : b <= c
  <2>1. Bounds \in SUBSET Nat /\ n \in Bounds
    OBVIOUS
  <2> HIDE DEF Bounds
  <2> QED BY <2>1, LeastNatural
<1>2. ASSUME b \notin S PROVE FALSE
  <2>1. \A k \in S : k <= b - 1
    BY <1>2
  <2>2. b - 1 \in Nat
    <3>1. PICK k \in S : TRUE
      OBVIOUS
    <3> QED BY <2>1, <3>1
  <2>3. b - 1 \in Bounds
    BY <2>1, <2>2
  <2> QED BY <1>1, <2>2, <2>3
<1> QED BY <1>1, <1>2

LEMMA MinIsLeast ==
    ASSUME NEW S \in SUBSET Nat, S # {}
    PROVE  Min(S) \in S /\ \A k \in S : Min(S) <= k
BY LeastNatural DEF Min

LEMMA MaxIsGreatest ==
    ASSUME NEW S \in SUBSET Nat, S # {}, NEW n \in Nat, \A k \in S : k <= n
    PROVE  Max(S) \in S /\ \A k \in S : Max(S) >= k
BY GreatestNatural DEF Max

-----------------------------------------------------------------------------
\* The fields of the body of a PATCH.
LEMMA BodyFields ==
    ASSUME NEW b \in Body
    PROVE  /\ b.status \in {"active", "paused", "kept"} /\ b.rule \in Rule \cup {NoRule}
           /\ {b.rezone, b.column, b.clear} \subseteq BOOLEAN
BY DEF Body

-----------------------------------------------------------------------------
(* The schedule.                                                            *)
LEMMA DayIsNat == Day \subseteq Nat /\ Never \in Nat /\ \A d \in Day : d < Never
  BY SeriesAssumption DEF Day, Never

\* The first day of a rule from a day on is that, or there is none.
LEMMA FirstOccurrence ==
    ASSUME NEW rule \in Rule, NEW from \in Nat
    PROVE  /\ First(rule, from) \in rule \cup {Never}
           /\ First(rule, from) \in Day \cup {Never}
           /\ First(rule, from) = Never \/ First(rule, from) >= from
           /\ \A d \in rule : d >= from => First(rule, from) # Never /\ First(rule, from) <= d
<1> DEFINE days == {d \in rule : d >= from}
<1>1. rule \subseteq Day /\ days \subseteq rule /\ days \in SUBSET Nat
  BY DayIsNat, SeriesAssumption
<1>2. First(rule, from) = IF days = {} THEN Never ELSE Min(days)
  BY DEF First
<1>3. days # {} => Min(days) \in days /\ \A k \in days : Min(days) <= k
  BY <1>1, MinIsLeast
<1>4. CASE days = {}
  BY <1>2, <1>4
<1>5. CASE days # {}
  <2>1. First(rule, from) \in days /\ \A k \in days : First(rule, from) <= k
    BY <1>2, <1>3, <1>5
  <2>2. First(rule, from) \in Day /\ First(rule, from) # Never
    BY <1>1, <2>1, DayIsNat
  <2> QED BY <1>1, <2>1, <2>2
<1> QED BY <1>4, <1>5

\* The days of the rule a run looks at are the first ones, without a gap: if
\* there is one it looks at the first, and with a day at all those before it.
LEMMA WindowHasNoGap ==
    ASSUME row.rule \in Rule, NEW from \in Nat, NEW to \in Nat
    PROVE  /\ Window(from, to) \subseteq row.rule \cap (from .. to)
           /\ row.rule \cap (from .. to) # {} => Window(from, to) # {}
           /\ \A d \in row.rule \cap (from .. to) : \A w \in Window(from, to) :
                 d <= w => d \in Window(from, to)
<1> DEFINE days == row.rule \cap (from .. to)
           Rank(d) == {c \in days : c <= d}
<1>1. days \in SUBSET Nat /\ Scan \in Nat /\ Scan > 0
  BY SeriesAssumption
<1>2. Window(from, to) = {d \in days : Cardinality(Rank(d)) <= Scan}
  BY DEF Window
<1>3. IsFiniteSet(days)
  <2>1. IsFiniteSet(from .. to)
    BY FS_Interval
  <2> QED BY <2>1, FS_Subset
<1>4. ASSUME days # {} PROVE Window(from, to) # {}
  <2>1. Min(days) \in days /\ \A k \in days : Min(days) <= k
    <3> HIDE DEF days
    <3> QED BY <1>1, <1>4, MinIsLeast
  <2>2. Rank(Min(days)) = {Min(days)}
    <3>1. Min(days) \in Nat
      BY <1>1, <2>1
    <3>2. ASSUME NEW c \in days, c <= Min(days) PROVE c = Min(days)
      <4>1. c \in Nat /\ Min(days) <= c
        BY <1>1, <2>1
      <4> HIDE DEF days
      <4> QED BY <3>1, <3>2, <4>1
    <3>3. Min(days) <= Min(days)
      BY <3>1
    <3> HIDE DEF days
    <3> QED BY <2>1, <3>2, <3>3
  <2>3. Cardinality(Rank(Min(days))) = 1
    BY <2>2, FS_Singleton
  <2> HIDE DEF days
  <2> QED BY <1>1, <1>2, <2>1, <2>3
<1>5. ASSUME NEW d \in days, NEW w \in Window(from, to), d <= w
      PROVE  d \in Window(from, to)
  <2>1. w \in days /\ Cardinality(Rank(w)) <= Scan
    BY <1>2
  <2>2. Rank(d) \subseteq Rank(w)
    <3>1. d \in Nat /\ w \in Nat
      BY <1>1, <2>1
    <3>2. ASSUME NEW c \in days, c <= d PROVE c <= w
      <4>1. c \in Nat
        BY <1>1
      <4> QED BY <1>5, <3>1, <3>2, <4>1
    <3> HIDE DEF days
    <3> QED BY <3>2
  <2>3. IsFiniteSet(Rank(w))
    BY <1>3, FS_Subset
  <2>4. /\ IsFiniteSet(Rank(d)) /\ Cardinality(Rank(d)) <= Cardinality(Rank(w))
        /\ Cardinality(Rank(d)) \in Nat /\ Cardinality(Rank(w)) \in Nat
    <3> HIDE DEF Rank
    <3> QED BY <2>2, <2>3, FS_Subset, FS_CardinalityType
  <2> HIDE DEF Rank
  <2> QED BY <1>1, <1>2, <2>1, <2>4
<1> HIDE DEF days
<1> QED
  <2>1. Window(from, to) \subseteq days
    BY <1>2
  <2> QED BY <1>4, <1>5, <2>1 DEF days

-----------------------------------------------------------------------------
(* The inductive invariant.                                                 *)
Sweeping == {Idle} \cup [at : {"found", "failed", "counted"}]
                   \cup [at : {"locked"}, today : 0 .. MaxDay]
Editing == {Idle} \cup [at : {"read"}, body : Body, status : {"active", "paused", "ended"},
                        rule : Rule, today : 0 .. MaxDay]

Typed ==
    /\ row \in Row /\ cards \subseteq Day /\ again \subseteq Day
    /\ day \in 0 .. MaxDay /\ stale \in BOOLEAN /\ exhausted \in BOOLEAN
    /\ sweep \in [Pod -> Sweeping] /\ edit \in [Edit -> Editing]

\* One sweep has the row, and until it lets go the series is as it was claimed.
Holds(p) == sweep[p].at = "locked"
LockedDue ==
    /\ \A p, q \in Pod : Holds(p) /\ Holds(q) => p = q
    /\ \A p \in Pod : Holds(p) =>
          /\ row.status = "active" /\ row.column /\ row.armed
          /\ row.next <= sweep[p].today /\ sweep[p].today <= day

\* What is done with lies behind the schedule, but for what was scheduled again.
SettledBehind == row.armed => \A d \in Day \ again : Settled(d) => d < row.next

IInv == Typed /\ LockedDue /\ ActiveIsArmed /\ MissedOnce /\ SettledBehind

-----------------------------------------------------------------------------
(* What the operators on the row change, field by field.                    *)
LEMMA IdleFacts ==
    /\ Idle.at = "idle" /\ Idle \in Sweeping /\ Idle \in Editing
    /\ \A s \in Sweeping : s.at \in {"idle", "found", "locked", "failed", "counted"}
    /\ \A s \in Sweeping : s.at = "locked" => s.today \in 0 .. MaxDay
    /\ \A x \in Editing : x.at \in {"idle", "read"}
    /\ \A x \in Editing : x.at = "read" =>
          /\ x.body \in Body /\ x.status \in {"active", "paused", "ended"}
          /\ x.rule \in Rule /\ x.today \in 0 .. MaxDay
<1>1. Idle.at = "idle" /\ Idle \in Sweeping /\ Idle \in Editing
  BY DEF Idle, Sweeping, Editing
<1>2. ASSUME NEW s \in Sweeping
      PROVE  /\ s.at \in {"idle", "found", "locked", "failed", "counted"}
             /\ s.at = "locked" => s.today \in 0 .. MaxDay
  BY <1>1 DEF Sweeping
<1>3. ASSUME NEW x \in Editing
      PROVE  /\ x.at \in {"idle", "read"}
             /\ x.at = "read" =>
                   /\ x.body \in Body /\ x.status \in {"active", "paused", "ended"}
                   /\ x.rule \in Rule /\ x.today \in 0 .. MaxDay
  BY <1>1 DEF Editing
<1> QED BY <1>1, <1>2, <1>3

LEMMA RowType ==
    ASSUME NEW r \in Row
    PROVE  /\ r.status \in {"active", "paused", "ended", "none"} /\ r.column \in BOOLEAN
           /\ r.rule \in Rule /\ r.next \in Day \cup {Never} /\ r.armed \in BOOLEAN
           /\ r.failures \in 0 .. MaxFailures /\ r.missed \in [Day -> 0 .. 2]
           /\ r.next \in Nat /\ \A d \in Day : r.missed[d] \in 0 .. 2
           /\ r = [status |-> r.status, column |-> r.column, rule |-> r.rule, next |-> r.next,
                   armed |-> r.armed, failures |-> r.failures, missed |-> r.missed]
  BY DayIsNat DEF Row

\* A run: the counter of the days it passes goes up, the rule is the same.
LEMMA AdvancedFields ==
    ASSUME row \in Row, NEW plan, plan.next \in Day \cup {Never}
    PROVE  /\ Advanced(plan) \in Row
           /\ Advanced(plan).next = plan.next /\ Advanced(plan).rule = row.rule
           /\ Advanced(plan).armed = (plan.next # Never)
           /\ Advanced(plan).status = IF plan.next = Never THEN "ended" ELSE "active"
           /\ Advanced(plan).missed =
                 [d \in Day |-> IF d \in plan.missed THEN Twice(row.missed[d]) ELSE row.missed[d]]
<1>1. /\ Advanced(plan).next = plan.next /\ Advanced(plan).rule = row.rule
      /\ Advanced(plan).armed = (plan.next # Never)
      /\ Advanced(plan).status = IF plan.next = Never THEN "ended" ELSE "active"
  BY DEF Advanced, Row
<1>2. Advanced(plan).missed =
         [d \in Day |-> IF d \in plan.missed THEN Twice(row.missed[d]) ELSE row.missed[d]]
  BY DEF Advanced, Row
<1>3. Advanced(plan).missed \in [Day -> 0 .. 2]
  BY <1>2, RowType DEF Twice
<1>4. Advanced(plan) \in Row
  <2> DEFINE m == [d \in Day |-> IF d \in plan.missed THEN Twice(row.missed[d])
                               ELSE row.missed[d]]
             s == IF plan.next = Never THEN "ended" ELSE "active"
             a == plan.next # Never
             n == plan.next
  <2>1. Advanced(plan) = [row EXCEPT !.next = n, !.armed = a, !.status = s,
                                     !.failures = 0, !.missed = m]
    BY DEF Advanced
  <2>2. m \in [Day -> 0 .. 2]
    BY <1>2, <1>3
  <2>3. s \in {"active", "ended"} /\ a \in BOOLEAN /\ n \in Day \cup {Never}
        /\ 0 \in 0 .. MaxFailures
    BY SeriesAssumption
  <2> HIDE DEF m, s, a, n
  <2> QED BY <2>1, <2>2, <2>3 DEF Row
<1> QED BY <1>1, <1>2, <1>4

\* A schedule that starts over, or ends.
LEMMA ScheduledFields ==
    ASSUME NEW r \in Row, NEW rule \in Rule, NEW today \in Nat
    PROVE  /\ Scheduled(r, rule, today) \in Row
           /\ Scheduled(r, rule, today).next = First(rule, today)
           /\ Scheduled(r, rule, today).armed = (First(rule, today) # Never)
           /\ Scheduled(r, rule, today).status =
                 IF First(rule, today) = Never THEN "ended" ELSE r.status
           /\ Scheduled(r, rule, today).rule = r.rule
           /\ Scheduled(r, rule, today).missed = r.missed
<1> DEFINE n == First(rule, today)
           a == n # Never
           s == IF n = Never THEN "ended" ELSE r.status
<1>1. Scheduled(r, rule, today) = [r EXCEPT !.next = n, !.armed = a, !.failures = 0,
                                            !.status = s]
  BY DEF Scheduled
<1>2. n \in Day \cup {Never} /\ a \in BOOLEAN /\ a = (n # Never)
      /\ s \in {"active", "paused", "ended", "none"} /\ 0 \in 0 .. MaxFailures
      /\ s = (IF n = Never THEN "ended" ELSE r.status) /\ n = First(rule, today)
  BY FirstOccurrence, RowType, SeriesAssumption
<1> HIDE DEF n, a, s
<1> QED BY <1>1, <1>2 DEF Row

\* An edit: what it asks for, what it leaves, and when it starts the schedule over.
Aimed(b, read) == IF b.rule = NoRule THEN read.rule ELSE b.rule
Wanted(b, read) == IF b.status = "kept" THEN read.status ELSE b.status

LEMMA PatchedFields ==
    ASSUME row \in Row, NEW b \in Body, NEW read, read.rule \in Rule,
           read.status \in {"active", "paused", "ended"}, read.today \in Nat
    PROVE  /\ Patched(b, read) \in Row
           /\ Patched(b, read).rule =
                 IF Aimed(b, read) # read.rule THEN Aimed(b, read) ELSE row.rule
           /\ Patched(b, read).missed = IF b.clear THEN Nothing ELSE row.missed
           /\ b.status = "paused" =>
                 Patched(b, read).status = "paused" /\ ~Patched(b, read).armed
           /\ b.status # "paused" /\ ~Rescheduled(b, read) =>
                 /\ Patched(b, read).status = IF b.status = "kept" THEN row.status ELSE b.status
                 /\ Patched(b, read).armed = row.armed /\ Patched(b, read).next = row.next
           /\ b.status # "paused" /\ Rescheduled(b, read) /\ Wanted(b, read) = "active" =>
                 LET first == First(Aimed(b, read), read.today)
                     kept  == IF b.status = "kept" THEN row.status ELSE b.status
                 IN /\ Patched(b, read).next = first /\ Patched(b, read).armed = (first # Never)
                    /\ Patched(b, read).status = IF first = Never THEN "ended" ELSE kept
           /\ b.status # "paused" /\ Rescheduled(b, read) /\ Wanted(b, read) # "active" =>
                 /\ Patched(b, read).status = IF b.status = "kept" THEN row.status ELSE b.status
                 /\ ~Patched(b, read).armed
<1> DEFINE rule == Aimed(b, read)
           ru == IF rule # read.rule THEN rule ELSE row.rule
           st == IF b.status = "kept" THEN row.status ELSE b.status
           co == row.column \/ b.column
           mi == IF b.clear THEN Nothing ELSE row.missed
           plain == [row EXCEPT !.rule = ru, !.status = st, !.column = co, !.missed = mi]
<1>1. /\ rule \in Rule /\ ru \in Rule /\ co \in BOOLEAN /\ mi \in [Day -> 0 .. 2]
      /\ st \in {"active", "paused", "ended", "none"}
  BY RowType, BodyFields DEF Nothing, Aimed
<1>2. Patched(b, read) =
        IF b.status = "paused" THEN [plain EXCEPT !.armed = FALSE]
        ELSE IF ~Rescheduled(b, read) THEN plain
        ELSE IF Wanted(b, read) = "active" THEN Scheduled(plain, rule, read.today)
        ELSE [plain EXCEPT !.next = Never, !.armed = FALSE]
  BY DEF Patched, Aimed, Wanted
<1>3. /\ ru = (IF rule # read.rule THEN rule ELSE row.rule)
      /\ mi = (IF b.clear THEN Nothing ELSE row.missed)
      /\ st = (IF b.status = "kept" THEN row.status ELSE b.status)
      /\ rule = Aimed(b, read)
  OBVIOUS
<1> HIDE DEF rule, ru, st, co, mi
<1>4. /\ plain \in Row /\ plain.rule = ru /\ plain.status = st /\ plain.missed = mi
      /\ plain.armed = row.armed /\ plain.next = row.next
  BY <1>1 DEF Row
<1> HIDE DEF plain
<1>5. CASE b.status = "paused"
  <2>1. Patched(b, read) = [plain EXCEPT !.armed = FALSE]
    BY <1>2, <1>5
  <2>2. b.status = "paused" => st = "paused"
    BY <1>3
  <2> QED BY <1>3, <1>4, <1>5, <2>1, <2>2 DEF Row
<1>6. CASE b.status # "paused" /\ ~Rescheduled(b, read)
  <2>1. Patched(b, read) = plain
    BY <1>2, <1>6
  <2> QED BY <1>3, <1>4, <1>6, <2>1
<1>7. CASE b.status # "paused" /\ Rescheduled(b, read) /\ Wanted(b, read) = "active"
  <2>1. Patched(b, read) = Scheduled(plain, rule, read.today)
    BY <1>2, <1>7
  <2>2. /\ Patched(b, read) \in Row
        /\ Patched(b, read).next = First(rule, read.today)
        /\ Patched(b, read).armed = (First(rule, read.today) # Never)
        /\ Patched(b, read).status = IF First(rule, read.today) = Never THEN "ended" ELSE st
        /\ Patched(b, read).rule = ru /\ Patched(b, read).missed = mi
    BY <1>1, <1>4, <2>1, ScheduledFields
  <2> QED BY <1>3, <1>7, <2>2
<1>8. CASE b.status # "paused" /\ Rescheduled(b, read) /\ Wanted(b, read) # "active"
  <2>1. Patched(b, read) = [plain EXCEPT !.next = Never, !.armed = FALSE]
    BY <1>2, <1>8
  <2> QED BY <1>3, <1>4, <1>8, <2>1 DEF Row
<1> QED BY <1>5, <1>6, <1>7, <1>8

\* A failure counted, a pause, a deletion and a lost column.
LEMMA SmallFields ==
    ASSUME row \in Row
    PROVE  /\ /\ Bumped \in Row /\ Bumped.status = row.status /\ Bumped.rule = row.rule
              /\ Bumped.next = row.next /\ Bumped.armed = row.armed
              /\ Bumped.missed = row.missed
           /\ LET r == [row EXCEPT !.status = "paused", !.armed = FALSE]
              IN r \in Row /\ r.status = "paused" /\ ~r.armed /\ r.missed = row.missed
           /\ LET r == [row EXCEPT !.status = "none", !.armed = FALSE, !.failures = 0]
              IN r \in Row /\ r.status = "none" /\ ~r.armed /\ r.missed = row.missed
           /\ LET r == [row EXCEPT !.column = FALSE]
              IN /\ r \in Row /\ r.status = row.status /\ r.rule = row.rule
                 /\ r.next = row.next /\ r.armed = row.armed /\ r.missed = row.missed
<1>1. /\ Bumped \in Row /\ Bumped.status = row.status /\ Bumped.rule = row.rule
      /\ Bumped.next = row.next /\ Bumped.armed = row.armed /\ Bumped.missed = row.missed
  <2> DEFINE f == IF row.failures < MaxFailures THEN row.failures + 1 ELSE row.failures
  <2>1. Bumped = IF row.status = "none" THEN row ELSE [row EXCEPT !.failures = f]
    BY DEF Bumped
  <2>2. f \in 0 .. MaxFailures
    BY RowType, SeriesAssumption
  <2> HIDE DEF f
  <2> QED BY <2>1, <2>2 DEF Row
<1>2. LET r == [row EXCEPT !.status = "paused", !.armed = FALSE]
      IN r \in Row /\ r.status = "paused" /\ ~r.armed /\ r.missed = row.missed
  BY DEF Row
<1>3. LET r == [row EXCEPT !.status = "none", !.armed = FALSE, !.failures = 0]
      IN r \in Row /\ r.status = "none" /\ ~r.armed /\ r.missed = row.missed
  <2>1. 0 \in 0 .. MaxFailures
    BY SeriesAssumption
  <2> QED BY <2>1 DEF Row
<1>4. LET r == [row EXCEPT !.column = FALSE]
      IN /\ r \in Row /\ r.status = row.status /\ r.rule = row.rule
         /\ r.next = row.next /\ r.armed = row.armed /\ r.missed = row.missed
  BY DEF Row
<1> QED BY <1>1, <1>2, <1>3, <1>4

\* A run passes days of the rule only, each as a card or as missed, and the
\* schedule goes on after all of them; what it counts as missed is over.
LEMMA PlanFields ==
    ASSUME row \in Row, NEW today \in 0 .. MaxDay, row.next <= today, NEW plan, plan = Plan(today)
    PROVE  /\ plan.next \in row.rule \cup {Never} /\ plan.next \in Day \cup {Never}
           /\ row.next <= plan.next
           /\ plan.due \subseteq Day /\ plan.missed \subseteq Day
           /\ plan.due \cap plan.missed = {}
           /\ \A d \in plan.due \cup plan.missed : row.next <= d /\ d < plan.next
           /\ \A d \in plan.missed : d < today
           /\ \A d \in row.rule : row.next <= d /\ d < plan.next =>
                 d \in plan.due \/ d \in plan.missed
<1> DEFINE window == Window(row.next, today)
           last == Max(window)
           days == row.rule \cap (row.next .. today)
<1>1. /\ row.rule \in Rule /\ row.rule \subseteq Day /\ row.next \in Nat /\ today \in Nat
      /\ \A d \in Day : d \in Nat /\ d < Never
      /\ Never \in Nat /\ today < Never
  BY RowType, DayIsNat, SeriesAssumption DEF Never
<1>2. /\ window \subseteq days
      /\ days # {} => window # {}
      /\ \A d \in days : \A w \in window : d <= w => d \in window
  BY <1>1, WindowHasNoGap
<1>3. \A d \in days : d \in Day /\ d \in Nat /\ row.next <= d /\ d <= today
  BY <1>1
<1>4. \A d \in row.rule : row.next <= d /\ d <= today => d \in days
  BY <1>1
<1>5. window # {} => last \in window /\ \A w \in window : w <= last
  <2>1. window \in SUBSET Nat /\ \A w \in window : w <= today
    BY <1>2, <1>3
  <2> HIDE DEF window
  <2> QED BY <1>1, <2>1, MaxIsGreatest
<1>6. plan = IF window = {}
             THEN [due |-> {}, missed |-> {}, next |-> First(row.rule, today)]
             ELSE IF Saturated(window, today)
             THEN [due |-> {}, missed |-> window, next |-> First(row.rule, last + 1)]
             ELSE [due |-> window \cap {today}, missed |-> window \ {today},
                   next |-> First(row.rule, last + 1)]
  BY DEF Plan
<1>7. Saturated(window, today) => last < today
  BY DEF Saturated
<1> DEFINE Goal == /\ plan.next \in row.rule \cup {Never} /\ plan.next \in Day \cup {Never}
                   /\ row.next <= plan.next
                   /\ plan.due \subseteq Day /\ plan.missed \subseteq Day
                   /\ plan.due \cap plan.missed = {}
                   /\ \A d \in plan.due \cup plan.missed : row.next <= d /\ d < plan.next
                   /\ \A d \in plan.missed : d < today
                   /\ \A d \in row.rule : row.next <= d /\ d < plan.next =>
                         d \in plan.due \/ d \in plan.missed
<1>8. ASSUME window = {} PROVE Goal
  <2>1. plan.due = {} /\ plan.missed = {} /\ plan.next = First(row.rule, today)
    BY <1>6, <1>8
  <2>2. /\ plan.next \in row.rule \cup {Never} /\ plan.next \in Day \cup {Never}
        /\ plan.next = Never \/ plan.next >= today
        /\ \A d \in row.rule : d >= today => plan.next <= d
    BY <1>1, <2>1, FirstOccurrence
  <2>3. ASSUME NEW d \in row.rule, row.next <= d, d < plan.next PROVE FALSE
    <3>1. d \in Nat /\ plan.next \in Nat
      BY <1>1, <2>2
    <3>2. d < today
      BY <1>1, <2>2, <2>3, <3>1
    <3> QED BY <1>1, <1>2, <1>4, <1>8, <2>3, <3>1, <3>2
  <2>4. row.next <= plan.next
    BY <1>1, <2>2
  <2> QED BY <2>1, <2>2, <2>3, <2>4
<1>9. ASSUME window # {} PROVE Goal
  <2>1. last \in window /\ last \in Nat /\ row.next <= last /\ last <= today
    BY <1>2, <1>3, <1>5, <1>9
  <2>2. plan.next = First(row.rule, last + 1)
    BY <1>6, <1>9
  <2>3. /\ plan.next \in row.rule \cup {Never} /\ plan.next \in Day \cup {Never}
        /\ plan.next \in Nat /\ last < plan.next
        /\ \A d \in row.rule : d >= last + 1 => plan.next <= d
    <3> HIDE DEF last
    <3>1. last + 1 \in Nat /\ last < Never
      BY <1>1, <2>1
    <3>2. /\ plan.next \in row.rule \cup {Never} /\ plan.next \in Day \cup {Never}
          /\ plan.next = Never \/ plan.next >= last + 1
          /\ \A d \in row.rule : d >= last + 1 => plan.next <= d
      BY <1>1, <2>2, <3>1, FirstOccurrence
    <3>3. plan.next \in Nat
      BY <1>1, <3>2
    <3> QED BY <2>1, <3>1, <3>2, <3>3
  <2>4. /\ plan.due \cup plan.missed = window /\ plan.due \cap plan.missed = {}
        /\ \A d \in plan.missed : d < today
    <3>1. CASE Saturated(window, today)
      <4>1. plan.due = {} /\ plan.missed = window
        BY <1>6, <1>9, <3>1
      <4>2. ASSUME NEW d \in window PROVE d < today
        <5>1. d \in Nat /\ d <= last /\ last < today
          BY <1>2, <1>3, <1>5, <1>7, <1>9, <3>1
        <5> HIDE DEF last, window
        <5> QED BY <1>1, <2>1, <5>1
      <4> QED BY <4>1, <4>2
    <3>2. CASE ~Saturated(window, today)
      <4>1. plan.due = window \cap {today} /\ plan.missed = window \ {today}
        BY <1>6, <1>9, <3>2
      <4>2. ASSUME NEW d \in window \ {today} PROVE d < today
        <5>1. d \in Nat /\ d <= today /\ d # today
          BY <1>2, <1>3
        <5> HIDE DEF window
        <5> QED BY <1>1, <5>1
      <4> HIDE DEF window
      <4> QED BY <4>1, <4>2
    <3> QED BY <3>1, <3>2
  <2>5. ASSUME NEW d \in window PROVE row.next <= d /\ d < plan.next /\ d \in Day
    <3>1. d \in Nat /\ d \in Day /\ row.next <= d /\ d <= last
      BY <1>2, <1>3, <1>5, <1>9
    <3> HIDE DEF last, window
    <3> QED BY <2>1, <2>3, <3>1
  <2>6. ASSUME NEW d \in row.rule, row.next <= d, d < plan.next PROVE d \in window
    <3>1. d \in Nat
      BY <1>1
    <3>2. d <= last
      <4> HIDE DEF last
      <4> QED BY <2>1, <2>3, <2>6, <3>1
    <3>3. d <= today
      <4> HIDE DEF last
      <4> QED BY <1>1, <2>1, <3>1, <3>2
    <3> QED BY <1>2, <1>4, <2>1, <2>6, <3>2, <3>3
  <2>7. row.next <= plan.next
    <3> HIDE DEF last
    <3> QED BY <1>1, <2>1, <2>3
  <2> HIDE DEF window, last
  <2> QED BY <2>3, <2>4, <2>5, <2>6, <2>7
<1> QED BY <1>8, <1>9

-----------------------------------------------------------------------------
(* The invariant, step by step.                                             *)
LEMMA InitHolds == Init => IInv
<1> SUFFICES ASSUME Init PROVE IInv
  OBVIOUS
<1>1. PICK rule \in Rule :
        LET next == First(rule, day)
        IN row = [status |-> "active", column |-> TRUE, rule |-> rule, next |-> next,
                  armed |-> next # Never, failures |-> 0, missed |-> Nothing]
  BY DEF Init
<1> DEFINE next == First(rule, day)
<1>2. day \in 0 .. MaxDay /\ day \in Nat /\ rule \subseteq Day
  BY SeriesAssumption DEF Init
<1>3. next \in rule \cup {Never} /\ next \in Day \cup {Never}
  BY <1>2, FirstOccurrence
<1>4. /\ row.status = "active" /\ row.rule = rule /\ row.armed = (next # Never)
      /\ row.next = next /\ row.missed = Nothing
  BY <1>1
<1>5. row \in Row
  <2>1. Nothing \in [Day -> 0 .. 2] /\ 0 \in 0 .. MaxFailures
    BY SeriesAssumption DEF Nothing
  <2>2. (next # Never) \in BOOLEAN
    OBVIOUS
  <2> HIDE DEF next
  <2> QED BY <1>1, <1>3, <2>1, <2>2 DEF Row, next
<1> HIDE DEF next
<1>6. /\ cards \subseteq {row.next} \ {Never} /\ again = cards /\ stale = FALSE
      /\ exhausted = ~row.armed
      /\ \A p \in Pod : sweep[p] = Idle
      /\ sweep = [p \in Pod |-> Idle] /\ edit = [e \in Edit |-> Idle]
  BY DEF Init
<1>7. Typed
  <2>1. sweep \in [Pod -> Sweeping] /\ edit \in [Edit -> Editing]
    BY <1>6, IdleFacts
  <2>2. FALSE \in BOOLEAN /\ exhausted \in BOOLEAN
    BY <1>6
  <2>3. cards \subseteq Day /\ again \subseteq Day
    BY <1>3, <1>4, <1>6
  <2> QED BY <1>2, <1>5, <1>6, <2>1, <2>2, <2>3 DEF Typed
<1>8. LockedDue
  BY <1>6, IdleFacts DEF LockedDue, Holds
<1>9. ActiveIsArmed
  BY <1>3, <1>4, <1>6 DEF ActiveIsArmed
<1>10. \A d \in Day \ again : ~Settled(d) /\ row.missed[d] = 0
  BY <1>4, <1>6 DEF Settled, Nothing
<1>11. MissedOnce /\ SettledBehind
  BY <1>10 DEF MissedOnce, SettledBehind
<1> QED BY <1>7, <1>8, <1>9, <1>11 DEF IInv

\* A step of one sweep that leaves the row as it is.
LEMMA SweepKeeps ==
    ASSUME IInv, NEW p \in Pod, NEW s \in Sweeping, Sweeps(p, s),
           UNCHANGED <<row, cards, world, edit, again, stale, exhausted>>,
           s.at = "locked" => Claimable /\ ~Locked /\ s.today = day
    PROVE  IInv'
<1>1. /\ sweep' = [sweep EXCEPT ![p] = s] /\ row' = row /\ cards' = cards /\ day' = day
      /\ edit' = edit /\ again' = again /\ stale' = stale /\ exhausted' = exhausted
  BY DEF Sweeps, world
<1>2. sweep' \in [Pod -> Sweeping] /\ \A q \in Pod : sweep'[q] = IF q = p THEN s ELSE sweep[q]
  BY <1>1 DEF IInv, Typed
<1>3. Typed'
  BY <1>1, <1>2 DEF IInv, Typed
<1>4. LockedDue'
  <2>1. CASE s.at = "locked"
    <3>1. \A q \in Pod : ~Holds(q)
      BY <2>1 DEF Locked, Holds
    <3>2. /\ row.status = "active" /\ row.column /\ row.armed /\ row.next <= s.today
          /\ s.today = day /\ day <= day
      BY <2>1, SeriesAssumption DEF Claimable, IInv, Typed
    <3> QED BY <1>1, <1>2, <3>1, <3>2 DEF LockedDue, Holds
  <2>2. CASE s.at # "locked"
    BY <1>1, <1>2, <2>2 DEF LockedDue, Holds, IInv
  <2> QED BY <2>1, <2>2
<1>5. ActiveIsArmed' /\ MissedOnce' /\ SettledBehind'
  BY <1>1 DEF IInv, ActiveIsArmed, MissedOnce, SettledBehind, Settled
<1> QED BY <1>3, <1>4, <1>5 DEF IInv

\* A step that counts nothing, and leaves the schedule as it is or takes it away.
LEMMA QuietKeeps ==
    ASSUME IInv, row'.missed = row.missed, cards' = cards, again' = again, stale' = stale,
           exhausted' = exhausted,
           \/ ~row'.armed /\ row'.status # "active"
           \/ /\ row'.armed = row.armed /\ row'.status = row.status
              /\ row'.next = row.next /\ row'.rule = row.rule
    PROVE  ActiveIsArmed' /\ MissedOnce' /\ SettledBehind'
<1>1. \A d \in Day : Settled(d)' <=> Settled(d)
  BY DEF Settled
<1>2. MissedOnce'
  BY DEF IInv, MissedOnce
<1>3. SettledBehind'
  BY <1>1 DEF IInv, SettledBehind
<1>4. ActiveIsArmed'
  BY DEF IInv, ActiveIsArmed
<1> QED BY <1>2, <1>3, <1>4

\* Nobody has the row, before and after.
LEMMA FreeKeeps ==
    ASSUME IInv, ~Locked, sweep' = sweep \/ \E p \in Pod, s \in Sweeping :
                             sweep' = [sweep EXCEPT ![p] = s] /\ s.at # "locked"
    PROVE  LockedDue' /\ sweep' \in [Pod -> Sweeping]
<1>1. \A q \in Pod : sweep[q].at # "locked"
  BY DEF Locked
<1>2. \A q \in Pod : sweep'[q].at # "locked"
  BY <1>1 DEF IInv, Typed
<1> QED BY <1>2 DEF LockedDue, Holds, IInv, Typed

\* A run that goes through: it starts where everything done with lies behind.
LEMMA MaterializeKeeps ==
    ASSUME IInv, NEW p \in Pod, Materialize(p)
    PROVE  IInv'
<1> DEFINE plan == Plan(sweep[p].today)
<1>1. /\ sweep[p].at = "locked" /\ cards' = cards \cup plan.due /\ row' = Advanced(plan)
      /\ sweep' = [sweep EXCEPT ![p] = Idle]
      /\ UNCHANGED <<day, edit, again, stale, exhausted>>
  BY DEF Materialize, Sweeps, world
<1>2. /\ row \in Row /\ sweep[p].today \in 0 .. MaxDay /\ row.next <= sweep[p].today
      /\ row.armed /\ row.next \in Nat
  BY <1>1, IdleFacts, RowType DEF IInv, Typed, LockedDue, Holds
<1>3. /\ plan.next \in row.rule \cup {Never} /\ plan.next \in Day \cup {Never}
      /\ row.next <= plan.next /\ plan.next \in Nat
      /\ plan.due \subseteq Day /\ plan.missed \subseteq Day /\ plan.due \cap plan.missed = {}
      /\ \A d \in plan.due \cup plan.missed : row.next <= d /\ d < plan.next
  BY <1>2, PlanFields, DayIsNat
<1> HIDE DEF plan
<1>4. /\ row' \in Row /\ row'.next = plan.next /\ row'.rule = row.rule
      /\ row'.armed = (plan.next # Never)
      /\ row'.status = IF plan.next = Never THEN "ended" ELSE "active"
      /\ row'.missed =
            [d \in Day |-> IF d \in plan.missed THEN Twice(row.missed[d]) ELSE row.missed[d]]
  BY <1>1, <1>2, <1>3, AdvancedFields
<1>5. Typed'
  BY <1>1, <1>3, <1>4, IdleFacts DEF IInv, Typed
<1>6. LockedDue'
  <2>1. \A q \in Pod : q # p => ~Holds(q)
    BY <1>1 DEF IInv, LockedDue, Holds
  <2>2. \A q \in Pod : sweep'[q].at # "locked"
    BY <1>1, <2>1, IdleFacts DEF IInv, Typed, Holds
  <2> QED BY <2>2 DEF LockedDue, Holds
<1>7. ActiveIsArmed'
  <2>1. row'.next = Never \/ row'.next \in row'.rule
    BY <1>3, <1>4
  \* What was locked was armed, and so not made with a rule that had run out.
  <2>2. ~stale => ~exhausted
    BY <1>1, <1>2 DEF IInv, Typed, LockedDue, Holds, ActiveIsArmed
  <2>3. row'.armed <=> row'.status = "active"
    BY <1>4
  <2>4. exhausted' = exhausted /\ stale' = stale
    BY <1>1
  <2> QED BY <1>4, <2>1, <2>2, <2>3, <2>4 DEF ActiveIsArmed
\* Nothing that the run passes was done with, so it is counted and made once.
<1>8. ASSUME NEW d \in Day \ again
      PROVE  /\ d \in plan.due \cup plan.missed => d \notin cards /\ row.missed[d] = 0
             /\ Settled(d) => d < row.next
             /\ row.missed[d] \in 0 .. 2 /\ d \in Nat
  <2>1. Settled(d) => d < row.next
    BY <1>2 DEF IInv, SettledBehind
  <2>2. row.missed[d] \in 0 .. 2 /\ d \in Nat
    BY <1>2, RowType, DayIsNat
  <2>3. d \in plan.due \cup plan.missed => ~Settled(d)
    BY <1>2, <1>3, <2>1, <2>2
  <2> QED BY <2>1, <2>2, <2>3 DEF Settled
<1>9. ASSUME NEW d \in Day \ again
      PROVE  row'.missed[d] = IF d \in plan.missed THEN 1 ELSE row.missed[d]
  BY <1>4, <1>8, <1>9 DEF Twice
<1>10. MissedOnce'
  <2>1. ASSUME NEW d \in Day \ again
        PROVE  row'.missed[d] <= 1 /\ (row'.missed[d] > 0 => d \notin cards')
    <3>1. row.missed[d] <= 1 /\ (row.missed[d] > 0 => d \notin cards)
      BY <2>1 DEF IInv, MissedOnce
    <3>2. row'.missed[d] = IF d \in plan.missed THEN 1 ELSE row.missed[d]
      BY <1>9
    <3>3. /\ d \in plan.due \cup plan.missed => d \notin cards /\ row.missed[d] = 0
          /\ row.missed[d] \in 0 .. 2
      BY <1>8
    <3> QED BY <1>1, <1>3, <3>1, <3>2, <3>3
  <2> QED BY <1>1, <2>1 DEF MissedOnce
<1>11. SettledBehind'
  <2>1. ASSUME NEW d \in Day \ again, Settled(d)' PROVE d < row'.next
    <3>1. Settled(d) \/ d \in plan.due \cup plan.missed
      BY <1>1, <1>9, <2>1 DEF Settled
    <3>2. (Settled(d) => d < row.next) /\ d \in Nat
      BY <1>8
    <3> QED BY <1>2, <1>3, <1>4, <3>1, <3>2
  <2> QED BY <1>1, <2>1 DEF SettledBehind
<1> QED BY <1>5, <1>6, <1>7, <1>10, <1>11 DEF IInv

\* An edit: it overwrites what it has not read, which stale records, or it
\* leaves an active series armed; what it schedules again it records.
LEMMA WriteKeeps ==
    ASSUME IInv, NEW e \in Edit, Write(e)
    PROVE  IInv'
<1> DEFINE read == edit[e]
           b == edit[e].body
           touches == b.status # "kept" \/ Rescheduled(b, read)
<1>1. /\ read.at = "read" /\ ~Locked /\ edit' = [edit EXCEPT ![e] = Idle]
      /\ UNCHANGED <<cards, day, sweep>>
  BY DEF Write, world
<1>2. /\ row \in Row /\ b \in Body /\ read.status \in {"active", "paused", "ended"}
      /\ read.rule \in Rule /\ read.today \in 0 .. MaxDay /\ read.today \in Nat
  BY <1>1, IdleFacts DEF IInv, Typed
<1>3. LockedDue' /\ sweep' \in [Pod -> Sweeping]
  BY <1>1, FreeKeeps
<1>4. edit' \in [Edit -> Editing]
  BY <1>1, IdleFacts DEF IInv, Typed
<1>5. CASE row.status = "none"
  <2>1. row' = row /\ again' = again /\ stale' = stale /\ exhausted' = exhausted
    BY <1>5 DEF Write
  <2>2. Typed'
    BY <1>1, <1>3, <1>4, <2>1 DEF IInv, Typed
  <2>3. ActiveIsArmed' /\ MissedOnce' /\ SettledBehind'
    BY <1>1, <2>1, QuietKeeps
  <2> QED BY <1>3, <2>2, <2>3 DEF IInv
<1>6. CASE row.status # "none"
  <2>1. /\ row' = Patched(b, read)
        /\ again' = IF row'.armed /\ Rescheduled(b, read)
                    THEN again \cup {d \in Day : d >= row'.next /\ Settled(d)} ELSE again
        /\ stale' = (stale \/ (touches /\ (\/ row.status # read.status
                                           \/ row.rule # read.rule)))
        /\ exhausted' = (exhausted /\ b.status # "paused" /\ ~Rescheduled(b, read))
    BY <1>6 DEF Write
  <2>2. /\ row' \in Row
        /\ row'.rule = IF Aimed(b, read) # read.rule THEN Aimed(b, read) ELSE row.rule
        /\ row'.missed = IF b.clear THEN Nothing ELSE row.missed
        /\ b.status = "paused" => row'.status = "paused" /\ ~row'.armed
        /\ b.status # "paused" /\ ~Rescheduled(b, read) =>
              /\ row'.status = IF b.status = "kept" THEN row.status ELSE b.status
              /\ row'.armed = row.armed /\ row'.next = row.next
        /\ b.status # "paused" /\ Rescheduled(b, read) /\ Wanted(b, read) = "active" =>
              LET first == First(Aimed(b, read), read.today)
                  kept  == IF b.status = "kept" THEN row.status ELSE b.status
              IN /\ row'.next = first /\ row'.armed = (first # Never)
                 /\ row'.status = IF first = Never THEN "ended" ELSE kept
        /\ b.status # "paused" /\ Rescheduled(b, read) /\ Wanted(b, read) # "active" =>
              /\ row'.status = IF b.status = "kept" THEN row.status ELSE b.status
              /\ ~row'.armed
    <3> HIDE DEF b, read
    <3> QED BY <1>2, <2>1, PatchedFields
  <2>3. again \subseteq again' /\ again' \subseteq Day
    BY <2>1 DEF IInv, Typed
  <2>4. stale' \in BOOLEAN /\ exhausted' \in BOOLEAN
    <3> HIDE DEF touches
    <3> QED BY <2>1, Zenon DEF IInv, Typed
  <2>5. Typed'
    <3>1. cards' \subseteq Day /\ day' \in 0 .. MaxDay
      BY <1>1 DEF IInv, Typed
    <3> QED BY <1>3, <1>4, <2>2, <2>3, <2>4, <3>1 DEF Typed
  <2>6. ASSUME NEW d \in Day
        PROVE  /\ row'.missed[d] = 0 \/ row'.missed[d] = row.missed[d]
               /\ Settled(d)' => Settled(d)
    <3>1. row'.missed[d] = 0 \/ row'.missed[d] = row.missed[d]
      BY <2>2 DEF Nothing
    <3> QED BY <1>1, <3>1 DEF Settled
  <2>7. MissedOnce'
    BY <1>1, <2>3, <2>6 DEF IInv, MissedOnce
  <2>8. SettledBehind'
    <3>1. ASSUME row'.armed, NEW d \in Day \ again', Settled(d)' PROVE d < row'.next
      <4>1. d \in Day \ again /\ Settled(d) /\ d \in Nat /\ row'.next \in Nat
        BY <2>2, <2>3, <2>6, <3>1, DayIsNat, RowType
      <4>2. CASE Rescheduled(b, read)
        <5>1. ~(d >= row'.next)
          BY <2>1, <3>1, <4>1, <4>2
        <5> QED BY <4>1, <5>1
      <4>3. CASE ~Rescheduled(b, read)
        <5>1. row'.next = row.next /\ row.armed
          BY <2>2, <3>1, <4>3
        <5> QED BY <4>1, <5>1 DEF IInv, SettledBehind
      <4> QED BY <4>2, <4>3
    <3> QED BY <3>1 DEF SettledBehind
  <2>9. ActiveIsArmed'
    <3> SUFFICES ASSUME ~stale'
                 PROVE  /\ row'.armed => row'.status = "active" /\ row'.next \in row'.rule
                        /\ row'.status = "active" => row'.armed # exhausted'
      BY DEF ActiveIsArmed
    <3>1. ~stale /\ (touches => row.status = read.status /\ row.rule = read.rule)
      BY <2>1
    <3>2. /\ row.armed => row.status = "active" /\ row.next \in row.rule
          /\ row.status = "active" => row.armed # exhausted
      BY <3>1 DEF IInv, ActiveIsArmed
    <3>3. b.status \in {"active", "paused", "kept"} /\ b.rule \in Rule \cup {NoRule}
      BY <1>2, BodyFields
    <3>4. CASE b.status = "paused"
      BY <2>2, <3>4
    <3>5. CASE b.status # "paused" /\ ~Rescheduled(b, read)
      <4>1. b.rule = NoRule /\ row'.rule = row.rule
        BY <2>2, <3>5 DEF Rescheduled, Aimed
      <4>2. b.status = "active" => read.status = "active" /\ row.status = "active"
        BY <3>1, <3>5 DEF Rescheduled
      <4>3. row'.status = row.status
        BY <2>2, <3>3, <3>5, <4>2
      <4>4. exhausted' = exhausted
        <5>1. exhausted \in BOOLEAN
          BY DEF IInv, Typed
        <5>2. exhausted' = (exhausted /\ b.status # "paused" /\ ~Rescheduled(b, read))
          BY <2>1
        <5> HIDE DEF b, read
        <5> QED BY <3>5, <5>1, <5>2, Zenon
      <4>5. row'.armed = row.armed /\ row'.next = row.next
        BY <2>2, <3>5
      <4> QED BY <3>2, <4>1, <4>3, <4>4, <4>5
    <3>6. CASE b.status # "paused" /\ Rescheduled(b, read)
      <4>1. row.status = read.status /\ row.rule = read.rule
        BY <3>1, <3>6
      <4>2. row'.rule = Aimed(b, read) /\ Aimed(b, read) \in Rule
        BY <1>2, <2>2, <3>3, <4>1 DEF Aimed
      <4>3. (IF b.status = "kept" THEN row.status ELSE b.status) = Wanted(b, read)
        BY <4>1 DEF Wanted
      <4>4. First(Aimed(b, read), read.today) \in Aimed(b, read) \cup {Never}
        BY <1>2, <4>2, FirstOccurrence
      <4>5. ~exhausted'
        BY <2>1, <3>6
      <4>6. CASE Wanted(b, read) = "active"
        BY <2>2, <3>6, <4>2, <4>3, <4>4, <4>5, <4>6
      <4>7. CASE Wanted(b, read) # "active"
        BY <2>2, <3>6, <4>3, <4>7
      <4> QED BY <4>6, <4>7
    <3> QED BY <3>4, <3>5, <3>6
  <2> QED BY <1>3, <2>5, <2>7, <2>8, <2>9 DEF IInv
<1> QED BY <1>5, <1>6

LEMMA NextKeeps == IInv /\ [Next]_vars => IInv'
<1> SUFFICES ASSUME IInv, [Next]_vars PROVE IInv'
  OBVIOUS
<1>1. ASSUME NEW p \in Pod, Find(p) PROVE IInv'
  <2> DEFINE s == [at |-> "found"]
  <2>1. Sweeps(p, s) /\ UNCHANGED <<row, cards, world, edit, again, stale, exhausted>>
    BY <1>1 DEF Find
  <2>2. s \in Sweeping /\ s.at # "locked"
    BY DEF Sweeping
  <2> HIDE DEF s
  <2> QED BY <2>1, <2>2, SweepKeeps
<1>2. ASSUME NEW p \in Pod, Lock(p) PROVE IInv'
  <2> DEFINE taken == [at |-> "locked", today |-> day]
             s == IF Claimable /\ ~Locked /\ ~archived THEN taken ELSE Idle
  <2>1. Sweeps(p, s) /\ UNCHANGED <<row, cards, world, edit, again, stale, exhausted>>
    BY <1>2 DEF Lock
  <2>2. taken \in Sweeping /\ taken.today = day
    BY DEF Sweeping, IInv, Typed
  <2> HIDE DEF taken
  <2>3. s \in Sweeping /\ (s.at = "locked" => Claimable /\ ~Locked /\ s.today = day)
    BY <2>2, IdleFacts
  <2> HIDE DEF s
  <2> QED BY <2>1, <2>3, SweepKeeps
<1>3. ASSUME NEW p \in Pod, Materialize(p) PROVE IInv'
  BY <1>3, MaterializeKeeps
<1>4. ASSUME NEW p \in Pod, Throw(p) PROVE IInv'
  <2> DEFINE s == [at |-> "failed"]
  <2>1. Sweeps(p, s) /\ UNCHANGED <<row, cards, world, edit, again, stale, exhausted>>
    BY <1>4 DEF Throw
  <2>2. s \in Sweeping /\ s.at # "locked"
    BY DEF Sweeping
  <2> HIDE DEF s
  <2> QED BY <2>1, <2>2, SweepKeeps
<1>5. ASSUME NEW p \in Pod, Abandon(p) PROVE IInv'
  <2>1. Sweeps(p, Idle) /\ UNCHANGED <<row, cards, world, edit, again, stale, exhausted>>
    BY <1>5 DEF Abandon
  <2> QED BY <2>1, IdleFacts, SweepKeeps
<1>6. row \in Row
  BY DEF IInv, Typed
\* What only counts a failure, pauses, deletes or takes the column away.
<1>7. ASSUME ~Locked, row' \in Row, row'.missed = row.missed,
             \/ ~row'.armed /\ row'.status # "active"
             \/ /\ row'.armed = row.armed /\ row'.status = row.status
                /\ row'.next = row.next /\ row'.rule = row.rule,
             UNCHANGED <<cards, world, edit, again, stale, exhausted>>,
             sweep' = sweep \/ \E p \in Pod, s \in Sweeping :
                sweep' = [sweep EXCEPT ![p] = s] /\ s.at # "locked"
      PROVE  IInv'
  <2>1. LockedDue' /\ sweep' \in [Pod -> Sweeping]
    BY <1>7, FreeKeeps
  <2>2. /\ cards' = cards /\ day' = day /\ edit' = edit
        /\ again' = again /\ stale' = stale /\ exhausted' = exhausted
    BY <1>7 DEF world
  <2>3. Typed'
    BY <1>7, <2>1, <2>2 DEF IInv, Typed
  <2>4. ActiveIsArmed' /\ MissedOnce' /\ SettledBehind'
    BY <1>7, <2>2, QuietKeeps
  <2> QED BY <2>1, <2>3, <2>4 DEF IInv
<1>8. ASSUME NEW p \in Pod, CountFailure(p) PROVE IInv'
  <2> DEFINE s == [at |-> "counted"]
  <2>1. /\ row' = Bumped /\ ~Locked /\ sweep' = [sweep EXCEPT ![p] = s]
        /\ UNCHANGED <<cards, world, edit, again, stale, exhausted>>
    BY <1>8 DEF CountFailure, Sweeps
  <2>2. s \in Sweeping /\ s.at # "locked"
    BY DEF Sweeping
  <2> HIDE DEF s
  <2> QED BY <1>6, <1>7, <2>1, <2>2, SmallFields
<1>9. ASSUME NEW p \in Pod, PauseFailed(p) PROVE IInv'
  <2>1. /\ ~Locked /\ sweep' = [sweep EXCEPT ![p] = Idle]
        /\ UNCHANGED <<cards, world, edit, again, stale, exhausted>>
        /\ row' = row \/ row' = [row EXCEPT !.status = "paused", !.armed = FALSE]
    BY <1>9 DEF PauseFailed, Sweeps
  <2> QED BY <1>6, <1>7, <2>1, SmallFields, IdleFacts
<1>10. ASSUME NEW e \in Edit, Write(e) PROVE IInv'
  BY <1>10, WriteKeeps
<1>11. ASSUME NEW e \in Edit, NEW b \in Body, Read(e, b) PROVE IInv'
  <2> DEFINE x == [at |-> "read", body |-> b, status |-> row.status, rule |-> row.rule,
                   today |-> day]
  <2>1. /\ edit' = [edit EXCEPT ![e] = x] /\ row.status # "none"
        /\ row' = row /\ cards' = cards /\ day' = day /\ sweep' = sweep
        /\ again' = again /\ stale' = stale /\ exhausted' = exhausted
    BY <1>11 DEF Read, world
  <2>2. x \in Editing
    BY <2>1, RowType DEF Editing, IInv, Typed
  <2> HIDE DEF x
  <2>3. Typed'
    BY <2>1, <2>2 DEF IInv, Typed
  <2>4. LockedDue'
    BY <2>1 DEF IInv, LockedDue, Holds
  <2>5. ActiveIsArmed' /\ MissedOnce' /\ SettledBehind'
    BY <2>1, QuietKeeps
  <2> QED BY <2>3, <2>4, <2>5 DEF IInv
<1>12. ASSUME Delete PROVE IInv'
  <2>1. /\ ~Locked /\ sweep' = sweep /\ UNCHANGED <<cards, world, edit, again, stale, exhausted>>
        /\ row' = [row EXCEPT !.status = "none", !.armed = FALSE, !.failures = 0]
    BY <1>12 DEF Delete
  <2> QED BY <1>6, <1>7, <2>1, SmallFields
<1>13. ASSUME DeleteColumn PROVE IInv'
  <2>1. /\ ~Locked /\ sweep' = sweep /\ UNCHANGED <<cards, world, edit, again, stale, exhausted>>
        /\ row' = [row EXCEPT !.column = FALSE]
    BY <1>13 DEF DeleteColumn
  <2> QED BY <1>6, <1>7, <2>1, SmallFields
<1>14. ASSUME Midnight \/ Others \/ UNCHANGED vars PROVE IInv'
  <2>1. /\ row' = row /\ cards' = cards /\ sweep' = sweep /\ edit' = edit
        /\ again' = again /\ stale' = stale /\ exhausted' = exhausted
        /\ day' = day \/ (day < MaxDay /\ day' = day + 1)
    BY <1>14 DEF Midnight, Others, vars, world
  <2>2. day' \in 0 .. MaxDay /\ day <= day'
    BY <2>1, SeriesAssumption DEF IInv, Typed
  <2>3. Typed'
    BY <2>1, <2>2 DEF IInv, Typed
  <2>4. LockedDue'
    <3>1. ASSUME NEW p \in Pod, Holds(p) PROVE sweep[p].today <= day'
      <4>1. sweep[p].today \in 0 .. MaxDay /\ sweep[p].today <= day
        BY <3>1, IdleFacts DEF IInv, Typed, LockedDue, Holds
      <4> QED BY <2>2, <4>1, SeriesAssumption DEF IInv, Typed
    <3> QED BY <2>1, <3>1 DEF IInv, LockedDue, Holds
  <2>5. ActiveIsArmed' /\ MissedOnce' /\ SettledBehind'
    BY <2>1, QuietKeeps
  <2> QED BY <2>3, <2>4, <2>5 DEF IInv
<1> QED
  BY <1>1, <1>2, <1>3, <1>4, <1>5, <1>8, <1>9, <1>10, <1>11, <1>12, <1>13, <1>14
  DEF Next, SweepStep

LEMMA Invariance == Spec => []IInv
<1> QED BY InitHolds, NextKeeps, PTL DEF Spec

-----------------------------------------------------------------------------
(* The theorems.                                                            *)

\* Types; and no two pods are in the transaction of the same series at once
\* (FOR UPDATE SKIP LOCKED in materializeSeries).
THEOREM TypesHold == Spec => []TypeOK
<1>1. IInv => TypeOK
  <2> SUFFICES ASSUME IInv PROVE TypeOK
    OBVIOUS
  <2> DEFINE held == {p \in Pod : sweep[p].at = "locked"}
  <2>1. held = {} \/ \E p \in Pod : held = {p}
    BY DEF IInv, LockedDue, Holds
  <2>2. Cardinality({}) = 0 /\ \A p \in Pod : Cardinality({p}) = 1
    BY FS_EmptySet, FS_Singleton
  <2>3. Cardinality(held) <= 1
    <3> HIDE DEF held
    <3> QED BY <2>1, <2>2
  <2> QED BY <2>3, IdleFacts DEF TypeOK, IInv, Typed
<1> QED BY <1>1, Invariance, PTL

\* What has a date is active, and an active series without one was made on a
\* rule that had run out and has not been paused or scheduled since: no order of
\* sweeps, failures and deletions makes another, nor an edit that overwrote only
\* what it had read.
THEOREM ActiveIsClaimable == Spec => []ActiveIsArmed
<1>1. IInv => ActiveIsArmed
  BY DEF IInv
<1> QED BY <1>1, Invariance, PTL

\* However often it fails and however many pods sweep, a day is counted as
\* missed at most once and never beside its card.
THEOREM NoDayMissedTwice == Spec => []MissedOnce
<1>1. IInv => MissedOnce
  BY DEF IInv
<1> QED BY <1>1, Invariance, PTL

\* Whatever the backlog and the limit of the scan, a run passes no occurrence
\* that it does not create or count, and counts none that is not over.
THEOREM CatchUpSkipsNone == Spec => NothingSkipped
<1> DEFINE Passes == \A p \in Pod : Materialize(p) =>
              \A d \in row.rule : d >= row.next /\ d < row'.next =>
                 d \in cards' \/ (row'.missed[d] > 0 /\ d < sweep[p].today)
<1>1. ASSUME IInv, NEW p \in Pod, Materialize(p), NEW d \in row.rule, d >= row.next, d < row'.next
      PROVE  d \in cards' \/ (row'.missed[d] > 0 /\ d < sweep[p].today)
  <2> DEFINE plan == Plan(sweep[p].today)
  <2>1. sweep[p].at = "locked" /\ cards' = cards \cup plan.due /\ row' = Advanced(plan)
    BY <1>1 DEF Materialize
  <2>2. /\ row \in Row /\ sweep[p].today \in 0 .. MaxDay /\ row.next <= sweep[p].today
        /\ row.next \in Nat /\ d \in Day /\ d \in Nat
    BY <1>1, <2>1, IdleFacts, RowType, DayIsNat, SeriesAssumption
    DEF IInv, Typed, LockedDue, Holds
  <2>3. /\ plan.next \in Day \cup {Never} /\ plan.next \in Nat
        /\ \A c \in plan.missed : c < sweep[p].today
        /\ \A c \in row.rule : row.next <= c /\ c < plan.next =>
              c \in plan.due \/ c \in plan.missed
    BY <2>2, PlanFields, DayIsNat
  <2> HIDE DEF plan
  <2>4. /\ row'.next = plan.next
        /\ row'.missed =
              [c \in Day |-> IF c \in plan.missed THEN Twice(row.missed[c]) ELSE row.missed[c]]
    BY <2>1, <2>2, <2>3, AdvancedFields
  <2>5. d \in plan.due \/ d \in plan.missed
    BY <1>1, <2>2, <2>3, <2>4
  <2>6. row.missed[d] \in 0 .. 2 /\ Twice(row.missed[d]) > 0
    BY <2>2, RowType DEF Twice
  <2>7. d \in plan.missed => row'.missed[d] > 0 /\ d < sweep[p].today
    BY <2>2, <2>3, <2>4, <2>6
  <2> QED BY <2>1, <2>5, <2>7
<1>2. IInv /\ [Next]_vars => [Passes]_vars
  BY <1>1
<1>3. NothingSkipped <=> [][Passes]_vars
  BY DEF NothingSkipped
<1> HIDE DEF Passes
<1> QED BY <1>2, <1>3, Invariance, PTL DEF Spec

\* A series that was paused or has ended is brought back by an edit only; a
\* sweep that found it before does not.
THEOREM SweepsReviveNone == Spec => OnlyEditsRevive
<1> DEFINE Revived == row.status \in {"paused", "ended"} /\ row'.status = "active" =>
              \E e \in Edit : edit[e] # Idle /\ edit'[e] = Idle
<1>1. ASSUME IInv, Next, row.status \in {"paused", "ended"}, row'.status = "active",
             ~\E e \in Edit : Write(e)
      PROVE  FALSE
  <2>1. row \in Row
    BY <1>1 DEF IInv, Typed
  <2>2. row' # row
    BY <1>1
  <2>3. ~\E p \in Pod : Materialize(p)
    BY <1>1 DEF Materialize, IInv, LockedDue, Holds
  <2>4. (\E p \in Pod : CountFailure(p) \/ PauseFailed(p)) \/ Delete \/ DeleteColumn
    <3>1. ~\E p \in Pod : Find(p) \/ Lock(p) \/ Throw(p) \/ Abandon(p)
      BY <2>2 DEF Find, Lock, Throw, Abandon
    <3>2. ~\E e \in Edit : \E b \in Body : Read(e, b)
      BY <2>2 DEF Read
    <3>3. ~Midnight /\ ~Others
      BY <2>2 DEF Midnight, Others
    <3> QED BY <1>1, <2>3, <3>1, <3>2, <3>3 DEF Next, SweepStep
  <2> QED BY <1>1, <2>1, <2>4, SmallFields DEF CountFailure, PauseFailed, Delete, DeleteColumn
<1>2. ASSUME IInv, NEW e \in Edit, Write(e) PROVE edit[e] # Idle /\ edit'[e] = Idle
  <2>1. edit[e].at = "read" /\ edit' = [edit EXCEPT ![e] = Idle]
    BY <1>2 DEF Write
  <2> QED BY <1>2, <2>1, IdleFacts DEF IInv, Typed
<1>3. IInv /\ [Next]_vars => [Revived]_vars
  BY <1>1, <1>2
<1>4. OnlyEditsRevive <=> [][Revived]_vars
  BY DEF OnlyEditsRevive
<1> HIDE DEF Revived
<1> QED BY <1>3, <1>4, Invariance, PTL DEF Spec
=============================================================================
