---------------------------- MODULE OutboxProofs ----------------------------
(***************************************************************************)
(* Proofs about Outbox: queued work is neither lost, nor forgotten, nor    *)
(* sent twice, one run at a time sends it, and it never waits without      *)
(* something that will send it.                                            *)
(***************************************************************************)
EXTENDS Outbox, FiniteSetTheorems, SequenceTheorems, TLAPS

-----------------------------------------------------------------------------
(* Queues as sequences of entries.                                          *)
Distinct(q) == \A i, j \in DOMAIN q : q[i].id = q[j].id => i = j

LEMMA SeqParts ==
    ASSUME NEW q \in Seq(Entry)
    PROVE  /\ Len(q) \in Nat /\ DOMAIN q = 1..Len(q)
           /\ ToSet(q) \subseteq Entry /\ \A i \in DOMAIN q : q[i] \in ToSet(q)
           /\ q = <<>> <=> ToSet(q) = {}
<1>1. Len(q) \in Nat /\ DOMAIN q = 1..Len(q) /\ \A i \in 1..Len(q) : q[i] \in Entry
  OBVIOUS
<1>2. q # <<>> => Len(q) # 0
  BY EmptySeq
<1>3. q = <<>> => Len(q) = 0
  OBVIOUS
<1>4. ASSUME ToSet(q) = {} PROVE Len(q) = 0
  <2>1. 1 \notin DOMAIN q
    BY <1>4 DEF ToSet
  <2> QED BY <1>1, <2>1
<1>5. ASSUME Len(q) = 0 PROVE ToSet(q) = {}
  BY <1>1, <1>5 DEF ToSet
<1> QED BY <1>1, <1>2, <1>3, <1>4, <1>5 DEF ToSet

LEMMA EmptyFacts == <<>> \in Seq(Entry) /\ ToSet(<<>>) = {} /\ Distinct(<<>>)
  BY DEF ToSet, Distinct

\* The head and the rest.
LEMMA HeadTailFacts ==
    ASSUME NEW q \in Seq(Entry), q # <<>>
    PROVE  /\ Head(q) \in Entry /\ Tail(q) \in Seq(Entry)
           /\ ToSet(q) = {Head(q)} \cup ToSet(Tail(q))
           /\ Distinct(q) => /\ Distinct(Tail(q))
                             /\ \A e \in ToSet(Tail(q)) : e.id # Head(q).id
<1>1. /\ Len(q) \in Nat /\ Len(q) # 0 /\ DOMAIN q = 1..Len(q)
      /\ Head(q) \in Entry /\ Head(q) = q[1] /\ Tail(q) \in Seq(Entry)
      /\ Len(Tail(q)) = Len(q) - 1
      /\ \A i \in 1..Len(q) - 1 : Tail(q)[i] = q[i + 1]
  BY HeadTailProperties, EmptySeq
<1>2. DOMAIN Tail(q) = 1..Len(q) - 1
  BY <1>1
<1>3. ToSet(q) \subseteq {Head(q)} \cup ToSet(Tail(q))
  <2>1. ASSUME NEW i \in 1..Len(q), i # 1 PROVE q[i] = Tail(q)[i - 1] /\ i - 1 \in 1..Len(q) - 1
    BY <1>1, <2>1
  <2>2. \A i \in 1..Len(q) : q[i] = Head(q) \/ q[i] \in ToSet(Tail(q))
    BY <1>1, <1>2, <2>1 DEF ToSet
  <2> QED BY <1>1, <2>2 DEF ToSet
<1>4. {Head(q)} \cup ToSet(Tail(q)) \subseteq ToSet(q)
  <2>1. ASSUME NEW i \in 1..Len(q) - 1 PROVE Tail(q)[i] = q[i + 1] /\ i + 1 \in 1..Len(q)
    BY <1>1
  <2>2. 1 \in 1..Len(q)
    BY <1>1
  <2> QED BY <1>1, <1>2, <2>1, <2>2 DEF ToSet
<1>5. ASSUME Distinct(q)
      PROVE  Distinct(Tail(q)) /\ \A e \in ToSet(Tail(q)) : e.id # Head(q).id
  <2>1. ASSUME NEW i \in 1..Len(q) - 1, NEW j \in 1..Len(q) - 1, Tail(q)[i].id = Tail(q)[j].id
        PROVE  i = j
    BY <1>1, <1>5, <2>1 DEF Distinct
  <2>2. ASSUME NEW i \in 1..Len(q) - 1 PROVE Tail(q)[i].id # Head(q).id
    BY <1>1, <1>5 DEF Distinct
  <2> QED BY <1>2, <2>1, <2>2 DEF Distinct, ToSet
<1> QED BY <1>1, <1>3, <1>4, <1>5

\* An entry put back at the head.
LEMMA PutBackFacts ==
    ASSUME NEW q \in Seq(Entry), NEW x \in Entry
    PROVE  /\ <<x>> \o q \in Seq(Entry) /\ <<x>> \o q # <<>>
           /\ ToSet(<<x>> \o q) = {x} \cup ToSet(q)
           /\ Head(<<x>> \o q) = x /\ Tail(<<x>> \o q) = q
           /\ Distinct(q) /\ (\A e \in ToSet(q) : e.id # x.id) => Distinct(<<x>> \o q)
<1> DEFINE p == <<x>> \o q
<1>1. /\ p \in Seq(Entry) /\ Len(p) = Len(q) + 1 /\ Len(q) \in Nat
      /\ DOMAIN p = 1..Len(q) + 1 /\ DOMAIN q = 1..Len(q)
      /\ \A i \in 1..Len(q) + 1 : p[i] = IF i = 1 THEN x ELSE q[i - 1]
  OBVIOUS
<1>2. p # <<>> /\ Head(p) = x
  BY <1>1
<1>3. Tail(p) = q
  <2> HIDE DEF p
  <2>1. Tail(p) \in Seq(Entry) /\ Len(Tail(p)) = Len(q)
        /\ \A i \in 1..Len(q) : Tail(p)[i] = p[i + 1]
    BY <1>1, <1>2, HeadTailProperties
  <2>2. \A i \in 1..Len(q) : Tail(p)[i] = q[i]
    BY <1>1, <2>1
  <2> QED BY <2>1, <2>2, SeqEqual
<1> HIDE DEF p
<1>4. ToSet(p) = {x} \cup ToSet(q)
  BY <1>1, <1>2, <1>3, HeadTailFacts
<1>5. ASSUME Distinct(q), \A e \in ToSet(q) : e.id # x.id PROVE Distinct(p)
  <2>1. \A i \in 1..Len(q) : q[i].id # x.id
    BY <1>1, <1>5, SeqParts
  <2>2. ASSUME NEW i \in 1..Len(q) + 1, NEW j \in 1..Len(q) + 1, p[i].id = p[j].id
        PROVE  i = j
    <3>1. CASE i = 1
      <4>1. j # 1 => j - 1 \in 1..Len(q) /\ p[j] = q[j - 1]
        BY <1>1
      <4>2. p[i] = x
        BY <1>1, <3>1
      <4> QED BY <2>1, <2>2, <3>1, <4>1, <4>2
    <3>2. CASE j = 1
      <4>1. i # 1 => i - 1 \in 1..Len(q) /\ p[i] = q[i - 1]
        BY <1>1
      <4>2. p[j] = x
        BY <1>1, <3>2
      <4> QED BY <2>1, <2>2, <3>2, <4>1, <4>2
    <3>3. CASE i # 1 /\ j # 1
      <4>1. /\ i - 1 \in 1..Len(q) /\ j - 1 \in 1..Len(q)
            /\ p[i] = q[i - 1] /\ p[j] = q[j - 1]
        BY <1>1, <3>3
      <4>2. i - 1 = j - 1
        BY <1>1, <1>5, <2>2, <4>1 DEF Distinct
      <4> QED BY <4>2
    <3> QED BY <3>1, <3>2, <3>3
  <2> QED BY <1>1, <2>2 DEF Distinct
<1> QED BY <1>1, <1>2, <1>3, <1>4, <1>5 DEF p

LEMMA AppendFacts ==
    ASSUME NEW q \in Seq(Entry), NEW x \in Entry
    PROVE  /\ Append(q, x) \in Seq(Entry) /\ ToSet(Append(q, x)) = ToSet(q) \cup {x}
           /\ Distinct(q) /\ (\A e \in ToSet(q) : e.id # x.id) => Distinct(Append(q, x))
<1> DEFINE p == Append(q, x)
<1>1. /\ p \in Seq(Entry) /\ Len(p) = Len(q) + 1 /\ Len(q) \in Nat
      /\ DOMAIN p = 1..Len(q) + 1 /\ DOMAIN q = 1..Len(q)
      /\ \A i \in 1..Len(q) : p[i] = q[i]
      /\ p[Len(q) + 1] = x
  BY AppendProperties
<1> HIDE DEF p
<1>2. ToSet(p) = ToSet(q) \cup {x}
  <2>1. \A i \in 1..Len(q) + 1 : i \in 1..Len(q) \/ i = Len(q) + 1
    BY <1>1
  <2>2. \A i \in 1..Len(q) : i \in 1..Len(q) + 1
    BY <1>1
  <2>3. Len(q) + 1 \in 1..Len(q) + 1
    BY <1>1
  <2> QED BY <1>1, <2>1, <2>2, <2>3 DEF ToSet
<1>3. ASSUME Distinct(q), \A e \in ToSet(q) : e.id # x.id PROVE Distinct(p)
  <2>1. \A i \in 1..Len(q) : q[i].id # x.id
    BY <1>1, <1>3, SeqParts
  <2> QED BY <1>1, <1>3, <2>1 DEF Distinct
<1> QED BY <1>1, <1>2, <1>3 DEF p

\* What is left of a queue keeps its entries apart.  The positions that stay are
\* counted off one by one: there is one for every number up to how many they are.
LEMMA FilteredFacts ==
    ASSUME NEW q \in Seq(Entry), NEW ids
    PROVE  /\ Filtered(q, ids) \in Seq(Entry)
           /\ ToSet(Filtered(q, ids)) = {e \in ToSet(q) : e.id \notin ids}
           /\ Distinct(q) => Distinct(Filtered(q, ids))
<1> DEFINE kept == {i \in DOMAIN q : q[i].id \notin ids}
           n == Cardinality(kept)
           upto(i) == {j \in kept : j <= i}
           rank == [i \in kept |-> Cardinality(upto(i))]
           nth(k) == CHOOSE i \in kept : Cardinality(upto(i)) = k
           p == Filtered(q, ids)
<1>1. Len(q) \in Nat /\ DOMAIN q = 1..Len(q) /\ kept \subseteq 1..Len(q)
  BY SeqParts
<1>2. IsFiniteSet(kept) /\ n \in Nat
  <2>1. IsFiniteSet(1..Len(q))
    BY <1>1, FS_Interval
  <2>2. IsFiniteSet(kept)
    BY <1>1, <2>1, FS_Subset
  <2> HIDE DEF kept
  <2> QED BY <2>2, FS_CardinalityType
<1>3. ASSUME NEW i \in kept
      PROVE  IsFiniteSet(upto(i)) /\ Cardinality(upto(i)) \in 1..n /\ i \in upto(i)
  <2>1. i \in Nat /\ i <= i
    BY <1>1
  <2>2. i \in upto(i) /\ upto(i) \in SUBSET kept
    BY <2>1
  <2> HIDE DEF upto, kept
  <2>3. IsFiniteSet(upto(i)) /\ Cardinality(upto(i)) <= n
    BY <1>2, <2>2, FS_Subset
  <2>4. Cardinality(upto(i)) \in Nat /\ Cardinality(upto(i)) # 0
    BY <2>2, <2>3, FS_CardinalityType, FS_EmptySet
  <2> QED BY <1>2, <2>2, <2>3, <2>4
<1>4. ASSUME NEW i \in kept, NEW j \in kept, i < j
      PROVE  Cardinality(upto(i)) # Cardinality(upto(j))
  <2>1. i \in Nat /\ j \in Nat /\ \A k \in kept : k \in Nat
    BY <1>1
  <2>2. upto(i) \in SUBSET upto(j)
    BY <1>4, <2>1
  <2>3. j \in upto(j) /\ j \notin upto(i)
    BY <1>4, <2>1
  <2>4. IsFiniteSet(upto(j))
    BY <1>3
  <2> HIDE DEF upto
  <2> QED BY <2>2, <2>3, <2>4, FS_Subset
<1>5. ASSUME NEW i \in kept, NEW j \in kept, Cardinality(upto(i)) = Cardinality(upto(j))
      PROVE  i = j
  <2>1. i \in Nat /\ j \in Nat
    BY <1>1
  <2>2. i < j \/ j < i \/ i = j
    BY <2>1
  <2> HIDE DEF upto, kept
  <2> QED BY <1>4, <1>5, <2>2
<1>6. ASSUME NEW k \in 1..n
      PROVE  nth(k) \in kept /\ Cardinality(upto(nth(k))) = k
  <2>1. rank \in Injection(kept, 1..n)
    <3>1. rank \in [kept -> 1..n] /\ \A i \in kept : rank[i] = Cardinality(upto(i))
      BY <1>3
    <3>2. \A i, j \in kept : rank[i] = rank[j] => i = j
      BY <1>5, <3>1
    <3> HIDE DEF rank, kept, n
    <3> QED BY <3>1, <3>2 DEF Injection, IsInjective
  <2>2. IsFiniteSet(1..n) /\ Cardinality(1..n) = n
    BY <1>2, FS_Interval
  <2>3. rank \in Surjection(kept, 1..n)
    <3> HIDE DEF rank, kept
    <3> QED BY <2>1, <2>2, FS_Injection
  <2>4. PICK i \in kept : rank[i] = k
    <3> HIDE DEF rank, kept, n
    <3> QED BY <2>3 DEF Surjection
  <2>5. Cardinality(upto(i)) = k
    BY <2>4
  <2> HIDE DEF upto, kept
  <2> QED BY <2>5
<1>7. p = [k \in 1..n |-> q[nth(k)]]
  BY DEF Filtered
<1> HIDE DEF p, nth
<1>8. \A k \in 1..n : q[nth(k)] \in Entry /\ q[nth(k)].id \notin ids /\ nth(k) \in 1..Len(q)
  <2>1. \A i \in kept : q[i] \in Entry /\ q[i].id \notin ids /\ i \in 1..Len(q)
    BY <1>1
  <2> HIDE DEF kept, n
  <2> QED BY <1>6, <2>1
<1>9. p \in Seq(Entry) /\ DOMAIN p = 1..n /\ \A k \in 1..n : p[k] = q[nth(k)]
  <2> HIDE DEF n
  <2> QED BY <1>2, <1>7, <1>8
<1>10. ToSet(p) = {e \in ToSet(q) : e.id \notin ids}
  <2>1. ASSUME NEW k \in 1..n PROVE p[k] \in ToSet(q) /\ p[k].id \notin ids
    BY <1>1, <1>8, <1>9 DEF ToSet
  <2>2. ASSUME NEW i \in 1..Len(q), q[i].id \notin ids PROVE \E k \in 1..n : p[k] = q[i]
    <3>1. i \in kept
      BY <1>1, <2>2
    <3>2. Cardinality(upto(i)) \in 1..n
      BY <1>3, <3>1
    <3>3. nth(Cardinality(upto(i))) = i
      <4> HIDE DEF kept, n, upto
      <4> QED BY <1>5, <1>6, <3>1, <3>2
    <3> QED BY <1>9, <3>2, <3>3
  <2> HIDE DEF n
  <2> QED BY <1>1, <1>9, <2>1, <2>2 DEF ToSet
<1>11. ASSUME Distinct(q) PROVE Distinct(p)
  <2>1. ASSUME NEW k \in 1..n, NEW l \in 1..n, p[k].id = p[l].id PROVE k = l
    <3>1. q[nth(k)].id = q[nth(l)].id
      BY <1>9, <2>1
    <3>2. nth(k) = nth(l)
      <4> HIDE DEF n
      <4> QED BY <1>1, <1>8, <1>11, <3>1 DEF Distinct
    <3>3. Cardinality(upto(nth(k))) = k /\ Cardinality(upto(nth(l))) = l
      BY <1>6
    <3> QED BY <3>2, <3>3
  <2> HIDE DEF n
  <2> QED BY <1>9, <2>1 DEF Distinct
<1> QED BY <1>9, <1>10, <1>11 DEF p

\* Stored rows in order are all of them, and each once.
LEMMA InOrderFacts ==
    ASSUME NEW rows \in SUBSET Entry, IsFiniteSet(rows),
           \A e, f \in rows : e.id = f.id => e = f,
           NEW q \in InOrder(rows)
    PROVE  q \in Seq(Entry) /\ ToSet(q) = rows /\ Distinct(q)
<1> DEFINE n == Cardinality(rows)
<1>1. n \in Nat
  BY FS_CardinalityType
<1>2. q \in [1..n -> rows] /\ \A i, j \in 1..n : i < j => q[i] # q[j]
  <2>1. q \in [1..n -> rows] /\ \A i, j \in DOMAIN q : i < j => q[i] # q[j]
    BY DEF InOrder
  <2> QED BY <2>1
<1> HIDE DEF n
<1>3. \A i, j \in 1..n : q[i] = q[j] => i = j
  <2>1. \A i, j \in 1..n : i < j \/ j < i \/ i = j
    BY <1>1
  <2> QED BY <1>2, <2>1
<1>4. q \in Injection(1..n, rows)
  BY <1>2, <1>3 DEF Injection, IsInjective
<1>5. Cardinality(1..n) = n
  BY <1>1, FS_Interval
<1>6. q \in Surjection(1..n, rows)
  BY <1>4, <1>5, FS_Injection DEF n
<1>7. DOMAIN q = 1..n
  BY <1>2
<1>8. q \in Seq(Entry)
  BY <1>1, <1>2
<1>9. ToSet(q) = rows
  BY <1>2, <1>6, <1>7 DEF ToSet, Surjection
<1>10. Distinct(q)
  BY <1>2, <1>3, <1>7 DEF Distinct
<1> QED BY <1>8, <1>9, <1>10

-----------------------------------------------------------------------------
(* The inductive invariant.  Types and what keeps the queue moving hold      *)
(* always, the rest (Clean) while no earlier account's work has got in.      *)
RunRecord == [at : {"idle", "board", "rekey", "wire", "sleep", "refresh"}, gen : 0..MaxSessions,
              op : Entry \cup {NoOp}, as : Account \cup {Nobody}]
Read == [gen : 0..MaxSessions, rows : {S \in SUBSET Entry : IsFiniteSet(S)}]
Request == [op : Entry, as : Account, gen : 0..MaxSessions]

TypedControl ==
    /\ ops \in Seq(Entry) /\ inflight \in Entry \cup {NoOp}
    /\ memo \in Run \cup {NoRun} /\ draining \in BOOLEAN /\ wake \in BOOLEAN
    /\ run \in [Run -> RunRecord] /\ \A r \in Run : Waiting(r) => run[r].op \in Entry

TypedWork ==
    /\ stored \in SUBSET Entry /\ IsFiniteSet(stored)
    /\ applied \in SUBSET (Op \X Account)
    /\ taken \in SUBSET Op /\ settled \in SUBSET Op /\ overtaken \in SUBSET Op

TypedSession ==
    /\ account \in Account \cup {Nobody} /\ owner \in [Op -> Account \cup {Nobody}]
    /\ seq \in Nat /\ gen \in 0..MaxSessions /\ reloads \in 0..MaxReloads
    /\ mixed \in BOOLEAN /\ reads \in SUBSET Read /\ direct \in SUBSET Request

Typed == TypedControl /\ TypedWork /\ TypedSession

\* The memoized run is a current one, and so is the run that has an operation claimed.
MemoIsCurrent == memo # NoRun => Current(memo)
InflightOwned == IsOp(inflight) => \E r \in Run : Current(r) /\ Claims(r)
Moving == MemoIsCurrent /\ InflightOwned /\ QueueHasAWaker

Ids(es) == {e.id : e \in es}
InMemory == ToSet(ops) \cup (IF IsOp(inflight) THEN {inflight} ELSE {})

\* A current run is the memoized one, and has claimed what it sends.
SoleRun ==
    /\ \A r \in Run : Current(r) => /\ r = memo /\ Claims(r)
                                    /\ inflight.carries = run[r].op.carries
    /\ Distinct(ops)
    /\ IsOp(inflight) => \A e \in ToSet(ops) : e.id # inflight.id

\* Entries are told apart by id; a mutation is carried by one of them, and what
\* is in memory carries what its stored copy does.
Copies ==
    /\ \A e, f \in stored : e.id = f.id => e = f
    /\ \A u \in InMemory : \A e \in stored : u.id = e.id => u.carries = e.carries
    /\ \A e, f \in InMemory \cup stored : e.carries \cap f.carries # {} => e.id = f.id
    /\ \A e \in InMemory \cup stored : e.id \in e.carries /\ e.carries \subseteq taken

\* What is in memory is the account's, and what is known was made by somebody.
Owned ==
    /\ \A u \in InMemory : account # Nobody /\ owner[u.id] = account
    /\ \A o \in taken \cup settled : owner[o] # Nobody

\* A stored queue that is being read has not been touched since.
ReadsFresh ==
    \A h \in reads : h.gen <= gen /\
        (h.gen = gen =>
            /\ account # Nobody /\ h.rows \subseteq stored
            /\ \A e \in h.rows : owner[e.id] = account /\ e.id \notin Ids(InMemory)
            /\ \A g \in reads : g.gen = gen => g = h)

\* A mutation that was sent at once is not queued yet.
DirectFresh ==
    \A d \in direct :
        /\ d.gen <= gen /\ d.op.id \notin taken \cup settled /\ d.op.carries = {d.op.id}
        /\ owner[d.op.id] # Nobody
        /\ d.gen = gen => account # Nobody /\ owner[d.op.id] = account
        /\ \A c \in direct : c.op.id = d.op.id => c = d

\* What the three properties of the work say, when nothing got in.
Safe == taken \ settled \subseteq Carried(stored)
Remembered ==
    \A e \in Stored(account) :
        \/ e.id \in Ids(InMemory)
        \/ \E h \in reads : h.gen = gen /\ e.id \in Ids(h.rows)
        \/ e.carries \cap overtaken # {}
SentOnce == settled \cap Carried(InMemory \cup stored) = {}

Work == Copies /\ Owned /\ ReadsFresh /\ DirectFresh /\ Safe /\ Remembered /\ SentOnce

\* What an abandoned run has is nowhere else any more.
RunsKept ==
    \A r \in Run : Waiting(r) =>
        /\ run[r].gen <= gen /\ run[r].op.id \in taken
        /\ ~Current(r) => run[r].op.id \notin Ids(InMemory \cup stored)

Clean == SoleRun /\ Work /\ RunsKept

IInv == Typed /\ Moving /\ (~mixed => Clean)

-----------------------------------------------------------------------------
(* Entries and runs, field by field.                                        *)
LEMMA EntryFacts ==
    ASSUME NEW e \in Entry
    PROVE  /\ e.id \in Op /\ e.seq \in Nat /\ e.attempts \in 0..MaxAttempts
           /\ e.carries \in SUBSET Op /\ IsOp(e)
  BY NoOpAssumption DEF Entry, IsOp

LEMMA IdleRunFacts == IdleRun \in RunRecord /\ IdleRun.at = "idle"
<1>1. 0 \in 0..MaxSessions
  BY OutboxConstants
<1> QED BY <1>1 DEF IdleRun, RunRecord

\* A run ends.
LEMMA EndFacts ==
    ASSUME TypedControl, NEW r \in Run, End(r)
    PROVE  /\ run' \in [Run -> RunRecord] /\ ~Waiting(r)' /\ memo' = NoRun
           /\ \A s \in Run : s # r => run'[s] = run[s]
           /\ \A s \in Run : Waiting(s)' => run'[s].op \in Entry
<1>1. run' = [run EXCEPT ![r] = IdleRun] /\ memo' = NoRun
  BY DEF End
<1>2. /\ run' \in [Run -> RunRecord] /\ run'[r] = IdleRun
      /\ \A s \in Run : s # r => run'[s] = run[s]
  BY <1>1, IdleRunFacts DEF TypedControl
<1> QED BY <1>1, <1>2, IdleRunFacts DEF TypedControl, Waiting

\* A run takes the head of the queue.
LEMMA ClaimFacts ==
    ASSUME TypedControl, TypedSession, NEW r \in Run, NEW q \in Seq(Entry), q # <<>>, Claim(r, q)
    PROVE  /\ ops' = Tail(q) /\ ops' \in Seq(Entry)
           /\ inflight' = Head(q) /\ inflight' \in Entry /\ IsOp(inflight')
           /\ run' \in [Run -> RunRecord] /\ Waiting(r)'
           /\ run'[r].op = Head(q) /\ run'[r].gen = gen
           /\ \A s \in Run : s # r => run'[s] = run[s]
           /\ \A s \in Run : Waiting(s)' => run'[s].op \in Entry
<1> DEFINE op == Head(q)
           at == IF op.id \in Moves THEN "board" ELSE "wire"
           x == [at |-> at, gen |-> gen, op |-> op, as |-> account]
<1>1. ops' = Tail(q) /\ inflight' = op /\ run' = [run EXCEPT ![r] = x]
  BY DEF Claim
<1>2. op \in Entry /\ IsOp(op) /\ Tail(q) \in Seq(Entry)
  BY HeadTailFacts, EntryFacts
<1>3. at \in {"board", "wire"}
  OBVIOUS
<1> HIDE DEF at, op
<1>4. x \in RunRecord /\ x.at # "idle" /\ x.op = op /\ x.gen = gen
  BY <1>2, <1>3 DEF RunRecord, TypedSession
<1> HIDE DEF x
<1>5. /\ run' \in [Run -> RunRecord] /\ run'[r] = x
      /\ \A s \in Run : s # r => run'[s] = run[s]
  BY <1>1, <1>4 DEF TypedControl
<1> QED BY <1>1, <1>2, <1>4, <1>5 DEF TypedControl, Waiting, op

\* A run goes on at another await.
LEMMA GoesOnFacts ==
    ASSUME TypedControl, NEW r \in Run, NEW x \in RunRecord, x.at # "idle", Waiting(r),
           x.gen = run[r].gen, x.op = run[r].op, run' = [run EXCEPT ![r] = x]
    PROVE  /\ run' \in [Run -> RunRecord]
           /\ \A s \in Run : /\ Waiting(s)' <=> Waiting(s)
                            /\ run'[s].gen = run[s].gen /\ run'[s].op = run[s].op
           /\ \A s \in Run : Waiting(s)' => run'[s].op \in Entry
<1>1. /\ run' \in [Run -> RunRecord] /\ run'[r] = x
      /\ \A s \in Run : s # r => run'[s] = run[s]
  BY DEF TypedControl
<1> QED BY <1>1 DEF TypedControl, Waiting

\* The queue after a run let its operation go.
LEMMA ReleasedFacts ==
    ASSUME TypedControl, NEW r \in Run
    PROVE  /\ Released(r) \in Seq(Entry) /\ Unclaimed(r) \in Entry \cup {NoOp}
           /\ Claims(r) => /\ Released(r) = <<inflight>> \o ops /\ Released(r) # <<>>
                           /\ Unclaimed(r) = NoOp /\ inflight \in Entry
           /\ ~Claims(r) => Released(r) = ops /\ Unclaimed(r) = inflight
<1>1. Claims(r) => inflight \in Entry
  BY DEF Claims, IsOp, TypedControl
<1>2. CASE Claims(r)
  BY <1>1, <1>2, PutBackFacts DEF Released, Unclaimed, TypedControl
<1>3. CASE ~Claims(r)
  BY <1>3 DEF Released, Unclaimed, TypedControl
<1> QED BY <1>2, <1>3

-----------------------------------------------------------------------------
(* What keeps the queue moving, for each way a run goes on.                  *)
LEMMA WakerFacts ==
    /\ QueueHasAWaker <=> (ops = <<>> \/ wake \/ \E r \in Run : Current(r))
    /\ \A r \in Run : Claims(r) => IsOp(inflight) /\ inflight.id = run[r].op.id
  BY DEF QueueHasAWaker, Claims

\* drain() joins the run that is there, or starts one.
LEMMA DrainMoves ==
    ASSUME TypedControl, TypedSession, Moving, NEW q \in Seq(Entry), NEW w \in BOOLEAN,
           Drain(q, w), gen' = gen
    PROVE  TypedControl' /\ Moving'
<1>1. CASE memo # NoRun \/ q = <<>>
  <2>1. ops' = q /\ wake' = w /\ inflight' = inflight /\ memo' = memo /\ draining' = draining
        /\ run' = run
    BY <1>1 DEF Drain
  <2>2. TypedControl'
    BY <2>1 DEF TypedControl, Waiting
  <2>3. \A r \in Run : (Current(r)' <=> Current(r)) /\ (Claims(r)' <=> Claims(r))
    BY <2>1 DEF Current, Waiting, Claims
  <2>4. MemoIsCurrent' /\ InflightOwned'
    BY <2>1, <2>3, OutboxConstants DEF Moving, MemoIsCurrent, InflightOwned, TypedControl
  <2>5. QueueHasAWaker'
    <3>1. memo # NoRun => \E r \in Run : Current(r)
      BY DEF Moving, MemoIsCurrent, TypedControl
    <3> QED BY <1>1, <2>1, <2>3, <3>1 DEF QueueHasAWaker
  <2> QED BY <2>2, <2>4, <2>5 DEF Moving
<1>2. CASE memo = NoRun /\ q # <<>>
  <2>1. PICK r \in Run : /\ Claim(r, q) /\ memo' = r /\ draining' = TRUE /\ wake' = FALSE
    BY <1>2 DEF Drain
  <2>2. /\ ops' \in Seq(Entry) /\ inflight' = Head(q) /\ inflight' \in Entry
        /\ run' \in [Run -> RunRecord] /\ Waiting(r)' /\ IsOp(inflight')
        /\ run'[r].op = Head(q) /\ run'[r].gen = gen
        /\ \A s \in Run : Waiting(s)' => run'[s].op \in Entry
    BY <1>2, <2>1, ClaimFacts
  <2>3. Current(r)' /\ Claims(r)'
    BY <2>2 DEF Current, Claims, Waiting
  <2>4. TypedControl'
    BY <2>1, <2>2 DEF TypedControl
  <2>5. Moving'
    BY <2>1, <2>3 DEF Moving, MemoIsCurrent, InflightOwned, QueueHasAWaker
  <2> QED BY <2>4, <2>5
<1> QED BY <1>1, <1>2

\* The loop takes the next operation, or there is none.
LEMMA LoopMoves ==
    ASSUME TypedControl, TypedSession, Moving, NEW r \in Run, NEW q \in Seq(Entry),
           NEW f \in Entry \cup {NoOp}, f = NoOp \/ (f = inflight /\ ~Claims(r)),
           Current(r), Loop(r, q, f), gen' = gen
    PROVE  TypedControl' /\ Moving'
<1>1. CASE q # <<>>
  <2>1. Claim(r, q) /\ memo' = memo /\ draining' = draining /\ wake' = wake
    BY <1>1 DEF Loop
  <2>2. /\ ops' \in Seq(Entry) /\ inflight' = Head(q) /\ inflight' \in Entry
        /\ run' \in [Run -> RunRecord] /\ Waiting(r)' /\ IsOp(inflight')
        /\ run'[r].op = Head(q) /\ run'[r].gen = gen
        /\ \A s \in Run : s # r => run'[s] = run[s]
        /\ \A s \in Run : Waiting(s)' => run'[s].op \in Entry
    BY <1>1, <2>1, ClaimFacts
  <2>3. Current(r)' /\ Claims(r)'
    BY <2>2 DEF Current, Claims, Waiting
  <2>4. \A s \in Run : Current(s) => Current(s)'
    BY <2>2, <2>3 DEF Current, Waiting
  <2>5. TypedControl'
    BY <2>1, <2>2 DEF TypedControl
  <2>6. Moving'
    BY <2>1, <2>3, <2>4 DEF Moving, MemoIsCurrent, InflightOwned, QueueHasAWaker, TypedControl
  <2> QED BY <2>5, <2>6
<1>2. CASE q = <<>>
  <2>1. /\ End(r) /\ ops' = q /\ inflight' = f /\ draining' = FALSE /\ wake' = wake
    BY <1>2 DEF Loop
  <2>2. /\ run' \in [Run -> RunRecord] /\ memo' = NoRun
        /\ \A s \in Run : s # r => run'[s] = run[s]
        /\ \A s \in Run : Waiting(s)' => run'[s].op \in Entry
    BY <2>1, EndFacts
  <2>3. TypedControl'
    BY <2>1, <2>2 DEF TypedControl
  <2>4. InflightOwned'
    <3>1. ASSUME IsOp(f) PROVE \E s \in Run : Current(s)' /\ Claims(s)'
      <4>1. f = inflight /\ ~Claims(r)
        BY <3>1 DEF IsOp
      <4>2. PICK s \in Run : Current(s) /\ Claims(s)
        BY <3>1, <4>1 DEF Moving, InflightOwned
      <4> QED BY <2>1, <2>2, <4>1, <4>2 DEF Current, Waiting, Claims
    <3> QED BY <2>1, <3>1 DEF InflightOwned
  <2>5. MemoIsCurrent' /\ QueueHasAWaker'
    BY <1>2, <2>1, <2>2 DEF MemoIsCurrent, QueueHasAWaker
  <2> QED BY <2>3, <2>4, <2>5 DEF Moving
<1> QED BY <1>1, <1>2

\* A run ends and lets its operation go, with a timer behind what is left, or
\* without one if it is an abandoned run, whose operation nobody has claimed then.
LEMMA EndMoves ==
    ASSUME TypedControl, TypedSession, Moving, NEW r \in Run, End(r),
           ops' = Released(r), inflight' = Unclaimed(r), draining' \in BOOLEAN, gen' = gen,
           \/ wake' = (wake \/ Released(r) # <<>>)
           \/ wake' = wake /\ ~Current(r)
    PROVE  TypedControl' /\ Moving'
<1>1. /\ run' \in [Run -> RunRecord] /\ memo' = NoRun
      /\ \A s \in Run : s # r => run'[s] = run[s]
      /\ \A s \in Run : Waiting(s)' => run'[s].op \in Entry
  BY EndFacts
<1>2. /\ Released(r) \in Seq(Entry) /\ Unclaimed(r) \in Entry \cup {NoOp}
      /\ Claims(r) => Unclaimed(r) = NoOp
      /\ ~Claims(r) => Released(r) = ops /\ Unclaimed(r) = inflight
  BY ReleasedFacts
<1>3. wake' \in BOOLEAN
  BY DEF TypedControl
<1>4. TypedControl'
  BY <1>1, <1>2, <1>3 DEF TypedControl
<1>5. InflightOwned'
  <2>1. ASSUME IsOp(inflight') PROVE \E s \in Run : Current(s)' /\ Claims(s)'
    <3>1. inflight' = inflight /\ ~Claims(r)
      BY <1>2, <2>1 DEF IsOp
    <3>2. PICK s \in Run : Current(s) /\ Claims(s)
      BY <2>1, <3>1 DEF Moving, InflightOwned
    <3> QED BY <1>1, <3>1, <3>2 DEF Current, Waiting, Claims
  <2> QED BY <2>1 DEF InflightOwned
<1>6. QueueHasAWaker'
  <2>1. CASE wake' = (wake \/ Released(r) # <<>>)
    BY <2>1 DEF QueueHasAWaker
  <2>2. CASE wake' = wake /\ ~Current(r)
    <3>1. \A s \in Run : Current(s) => Current(s)'
      BY <1>1, <2>2 DEF Current, Waiting
    <3>2. CASE Claims(r)
      <4>1. IsOp(inflight)
        BY <3>2 DEF Claims
      <4> QED BY <3>1, <4>1 DEF Moving, InflightOwned, QueueHasAWaker
    <3>3. CASE ~Claims(r)
      BY <1>2, <2>2, <3>1, <3>3 DEF Moving, QueueHasAWaker
    <3> QED BY <3>2, <3>3
  <2> QED BY <2>1, <2>2
<1>7. MemoIsCurrent'
  BY <1>1 DEF MemoIsCurrent
<1> QED BY <1>4, <1>5, <1>6, <1>7 DEF Moving

\* The runs stay where they are, or one goes on to another await, and the claim
\* and the queue are those of the same operations.
LEMMA StaysMoving ==
    ASSUME TypedControl, TypedSession, Moving, run' \in [Run -> RunRecord],
           \A s \in Run : /\ Waiting(s)' <=> Waiting(s)
                        /\ run'[s].gen = run[s].gen /\ run'[s].op = run[s].op,
           memo' = memo, draining' = draining, wake' \in BOOLEAN, ops' \in Seq(Entry),
           inflight' \in Entry \cup {NoOp}, gen' = gen,
           IsOp(inflight') => IsOp(inflight) /\ inflight'.id = inflight.id,
           \/ wake' = (wake \/ ops' # <<>>)
           \/ wake' = wake /\ (ops' = <<>> <=> ops = <<>>)
    PROVE  TypedControl' /\ Moving'
<1>1. \A s \in Run : Current(s)' <=> Current(s)
  BY DEF Current
<1>2. TypedControl'
  BY DEF TypedControl
<1>3. MemoIsCurrent'
  BY <1>1, OutboxConstants DEF Moving, MemoIsCurrent, TypedControl
<1>4. InflightOwned'
  BY <1>1 DEF Moving, InflightOwned, Claims
<1>5. QueueHasAWaker'
  BY <1>1 DEF Moving, QueueHasAWaker
<1> QED BY <1>2, <1>3, <1>4, <1>5 DEF Moving

\* All is dropped.
LEMMA EmptyMoves ==
    ASSUME ops' = <<>>, inflight' = NoOp, memo' = NoRun, draining' = FALSE, wake' = FALSE,
           run' \in [Run -> RunRecord], \A r \in Run : Waiting(r)' => run'[r].op \in Entry
    PROVE  TypedControl' /\ Moving'
  BY EmptyFacts DEF TypedControl, Moving, MemoIsCurrent, InflightOwned, QueueHasAWaker, IsOp

-----------------------------------------------------------------------------
(* What becomes of the work.                                                 *)
LEMMA CarriedFacts ==
    ASSUME NEW es, NEW o
    PROVE  o \in Carried(es) <=> \E e \in es : o \in e.carries
  BY DEF Carried

LEMMA IdsFacts ==
    ASSUME NEW es, NEW o
    PROVE  o \in Ids(es) <=> \E e \in es : o = e.id
  BY DEF Ids

\* An operation that has a maker keeps it.
OwnersKept == \A o \in Op : owner[o] # Nobody => owner'[o] = owner[o]

LEMMA MemoryType == Typed => InMemory \in SUBSET Entry /\ stored \in SUBSET Entry
  BY SeqParts DEF Typed, TypedControl, TypedWork, InMemory, IsOp

\* A new mutation made by the account, or none, is added; then everything with
\* some ids is answered for.
New1(N, e) ==
    /\ N = {e} /\ e \in Entry /\ e.carries = {e.id} /\ e.id \notin taken \cup settled
    /\ account # Nobody /\ owner'[e.id] = account
    /\ \A d \in direct' : d.op.id # e.id

LEMMA PutKeeps ==
    ASSUME Typed, Work, NEW N, N = {} \/ \E e : New1(N, e), NEW ids,
           ids \subseteq Ids(InMemory \cup N),
           InMemory' = {u \in InMemory \cup N : u.id \notin ids},
           stored' = {u \in stored \cup N : u.id \notin ids},
           taken' = taken \cup Ids(N),
           settled' = settled \cup Carried({u \in InMemory \cup N : u.id \in ids}),
           account' = account, gen' = gen, reads' = reads, overtaken' = overtaken,
           direct' \subseteq direct, OwnersKept
    PROVE  Work'
<1>1. /\ InMemory \subseteq Entry /\ stored \subseteq Entry
      /\ taken \subseteq Op /\ settled \subseteq Op
  BY MemoryType DEF Typed, TypedWork
<1>2. ASSUME NEW u \in InMemory \cup stored
      PROVE  u.id \in taken /\ u.carries \subseteq taken /\ u.id \in u.carries /\ u.id \in Op
  BY <1>1 DEF Work, Copies
<1>3. ASSUME NEW u \in N
      PROVE  /\ u \in Entry /\ u.carries = {u.id} /\ u.id \notin taken \cup settled /\ u.id \in Op
             /\ account # Nobody /\ owner'[u.id] = account /\ \A d \in direct' : d.op.id # u.id
             /\ \A v \in N : v = u
  BY <1>3, EntryFacts DEF New1
<1>4. /\ \A u : u \in InMemory' <=> (u \in InMemory \/ u \in N) /\ u.id \notin ids
      /\ \A u : u \in stored' <=> (u \in stored \/ u \in N) /\ u.id \notin ids
      /\ \A o : o \in taken' <=> o \in taken \/ \E u \in N : o = u.id
      /\ \A o : o \in settled' <=>
               o \in settled \/ \E u : (u \in InMemory \/ u \in N) /\ u.id \in ids /\ o \in u.carries
      /\ \A i \in ids : \E u : (u \in InMemory \/ u \in N) /\ i = u.id
  BY DEF Carried, Ids
<1>5. Copies'
  <2>1. \A e, f \in stored' : e.id = f.id => e = f
    BY <1>2, <1>3, <1>4 DEF Work, Copies
  <2>2. \A u \in InMemory' : \A e \in stored' : u.id = e.id => u.carries = e.carries
    BY <1>2, <1>3, <1>4 DEF Work, Copies
  <2>3. ASSUME NEW e \in InMemory' \cup stored', NEW f \in InMemory' \cup stored',
               e.carries \cap f.carries # {}
        PROVE  e.id = f.id
    <3>1. (e \in InMemory \cup stored \/ e \in N) /\ (f \in InMemory \cup stored \/ f \in N)
      BY <1>4
    <3>2. CASE e \in InMemory \cup stored /\ f \in InMemory \cup stored
      BY <2>3, <3>2 DEF Work, Copies
    <3>3. CASE e \in N /\ f \in N
      BY <1>3, <3>3
    <3>4. CASE e \in InMemory \cup stored /\ f \in N
      BY <1>2, <1>3, <2>3, <3>4
    <3>5. CASE e \in N /\ f \in InMemory \cup stored
      BY <1>2, <1>3, <2>3, <3>5
    <3> QED BY <3>1, <3>2, <3>3, <3>4, <3>5
  <2>4. ASSUME NEW e \in InMemory' \cup stored'
        PROVE  e.id \in e.carries /\ e.carries \subseteq taken'
    BY <1>2, <1>3, <1>4
  <2> QED BY <2>1, <2>2, <2>3, <2>4 DEF Copies
<1>6. \A o \in settled' : o \in settled \/ o \in taken'
  BY <1>2, <1>3, <1>4
<1>7. Owned'
  <2>1. ASSUME NEW u \in InMemory' PROVE account # Nobody /\ owner'[u.id] = account
    BY <1>2, <1>3, <1>4 DEF Work, Owned, OwnersKept
  <2>2. ASSUME NEW o \in taken' \cup settled' PROVE owner'[o] # Nobody
    <3>1. CASE o \in taken \cup settled
      BY <1>1, <3>1 DEF Work, Owned, OwnersKept
    <3>2. CASE \E u \in N : o = u.id
      BY <1>3, <3>2
    <3> QED BY <1>4, <1>6, <3>1, <3>2
  <2> QED BY <2>1, <2>2 DEF Owned
<1>8. ReadsFresh'
  <2>1. ASSUME NEW h \in reads, h.gen = gen
        PROVE  h.rows \subseteq stored' /\ \A e \in h.rows : /\ owner'[e.id] = account
                                                        /\ e.id \notin Ids(InMemory')
    <3>1. /\ h.rows \subseteq stored /\ account # Nobody
          /\ \A e \in h.rows : owner[e.id] = account /\ e.id \notin Ids(InMemory)
      BY <2>1 DEF Work, ReadsFresh
    <3>2. ASSUME NEW e \in h.rows
          PROVE  e \in stored' /\ owner'[e.id] = account /\ e.id \notin Ids(InMemory')
      <4>1. e \in stored /\ e.id \in taken /\ e.id \in Op /\ owner[e.id] = account
            /\ \A u \in InMemory : u.id # e.id
        BY <1>2, <3>1, <3>2, IdsFacts
      <4>2. \A u \in N : u.id # e.id
        BY <1>3, <4>1
      <4>3. e.id \notin ids
        BY <1>4, <4>1, <4>2
      <4>4. \A u \in InMemory' : u.id # e.id
        BY <1>4, <4>1, <4>2
      <4>5. owner'[e.id] = account
        BY <3>1, <4>1 DEF OwnersKept
      <4> QED BY <1>4, <4>1, <4>3, <4>4, <4>5, IdsFacts
    <3> QED BY <3>2
  <2> QED BY <2>1 DEF Work, ReadsFresh
<1>9. DirectFresh'
  <2>1. ASSUME NEW d \in direct'
        PROVE  /\ d.op.id \notin taken' \cup settled' /\ owner'[d.op.id] # Nobody
               /\ d.gen = gen => owner'[d.op.id] = account
    <3>1. /\ d \in direct /\ d.op.id \notin taken \cup settled /\ owner[d.op.id] # Nobody
          /\ d.gen = gen => owner[d.op.id] = account
          /\ d.op.id \in Op
      BY EntryFacts DEF Work, DirectFresh, Typed, TypedSession, Request
    <3>2. d.op.id \notin taken'
      BY <1>3, <1>4, <3>1
    <3> QED BY <1>6, <3>1, <3>2 DEF OwnersKept
  <2> QED BY <2>1 DEF Work, DirectFresh
<1>10. Safe'
  <2>1. ASSUME NEW o \in taken', o \notin settled' PROVE \E e \in stored' : o \in e.carries
    <3>1. CASE o \in taken
      <4>1. PICK e \in stored : o \in e.carries
        BY <1>4, <2>1, <3>1, CarriedFacts DEF Work, Safe
      <4>2. e.id \notin ids
        <5>1. ASSUME e.id \in ids PROVE FALSE
          <6>1. PICK u : (u \in InMemory \/ u \in N) /\ e.id = u.id
            BY <1>4, <5>1
          <6>2. u \in InMemory
            BY <1>2, <1>3, <6>1
          <6>3. o \in u.carries
            BY <4>1, <6>1, <6>2 DEF Work, Copies
          <6> QED BY <1>4, <2>1, <5>1, <6>1, <6>3
        <5> QED BY <5>1
      <4> QED BY <1>4, <4>1, <4>2
    <3>2. CASE \E u \in N : o = u.id
      BY <1>3, <1>4, <2>1, <3>2
    <3> QED BY <1>4, <2>1, <3>1, <3>2
  <2> QED BY <2>1, CarriedFacts DEF Safe
<1>11. Remembered'
  <2>1. ASSUME NEW e \in stored', owner'[e.id] = account
        PROVE  \/ e.id \in Ids(InMemory')
               \/ \E h \in reads : h.gen = gen /\ e.id \in Ids(h.rows)
               \/ e.carries \cap overtaken # {}
    <3>1. CASE e \in N
      BY <1>4, <3>1, IdsFacts
    <3>2. CASE e \in stored
      <4>1. e.id \in taken /\ e.id \in Op /\ e.id \notin ids
        BY <1>2, <1>4, <3>2
      <4>2. owner[e.id] = account
        BY <2>1, <4>1 DEF Work, Owned, OwnersKept
      <4>3. CASE e.id \in Ids(InMemory)
        <5>1. PICK u \in InMemory : e.id = u.id
          BY <4>3, IdsFacts
        <5> QED BY <1>4, <4>1, <5>1, IdsFacts
      <4> QED BY <3>2, <4>2, <4>3 DEF Work, Remembered, Stored
    <3> QED BY <1>4, <3>1, <3>2
  <2> QED BY <2>1 DEF Remembered, Stored
<1>12. SentOnce'
  <2>1. ASSUME NEW o \in settled', NEW x \in InMemory' \cup stored', o \in x.carries PROVE FALSE
    <3>1. x \in InMemory \cup stored \/ x \in N
      BY <1>4
    <3>2. x.id \notin ids
      BY <1>4
    <3>3. CASE o \in settled
      <4>1. x \notin InMemory \cup stored
        BY <2>1, <3>3, CarriedFacts DEF Work, SentOnce
      <4> QED BY <1>3, <2>1, <3>1, <3>3, <4>1
    <3>4. CASE o \notin settled
      <4>1. PICK u : (u \in InMemory \/ u \in N) /\ u.id \in ids /\ o \in u.carries
        BY <1>4, <3>4
      <4>2. CASE u \in InMemory /\ x \in InMemory \cup stored
        BY <2>1, <3>2, <4>1, <4>2 DEF Work, Copies
      <4>3. CASE u \in N /\ x \in N
        BY <1>3, <3>2, <4>1, <4>3
      <4>4. CASE u \in InMemory /\ x \in N
        BY <1>2, <1>3, <2>1, <4>1, <4>4
      <4>5. CASE u \in N /\ x \in InMemory \cup stored
        BY <1>2, <1>3, <2>1, <4>1, <4>5
      <4> QED BY <3>1, <4>1, <4>2, <4>3, <4>4, <4>5
    <3> QED BY <3>3, <3>4
  <2> QED BY <2>1, CarriedFacts DEF SentOnce
<1> QED BY <1>5, <1>7, <1>8, <1>9, <1>10, <1>11, <1>12 DEF Work

\* An entry in memory is replaced by one that carries as much or more.
LEMMA ReplaceKeeps ==
    ASSUME Typed, Work, NEW u0 \in InMemory, NEW m \in Entry, m.id = u0.id,
           NEW X \in SUBSET Op, m.carries = u0.carries \cup X,
           \A o \in X : /\ o \notin taken \cup settled
                        /\ owner'[o] = account /\ \A d \in direct' : d.op.id # o,
           InMemory' = {u \in InMemory : u.id # m.id} \cup {m},
           stored' = {u \in stored : u.id # m.id} \cup {m},
           taken' = taken \cup X, settled' = settled,
           account' = account, gen' = gen, reads' = reads, overtaken' = overtaken,
           direct' \subseteq direct, OwnersKept
    PROVE  Work'
<1>1. /\ InMemory \subseteq Entry /\ stored \subseteq Entry
      /\ taken \subseteq Op /\ settled \subseteq Op
  BY MemoryType DEF Typed, TypedWork
<1>2. ASSUME NEW u \in InMemory \cup stored
      PROVE  u.id \in taken /\ u.carries \subseteq taken /\ u.id \in u.carries /\ u.id \in Op
  BY <1>1 DEF Work, Copies
<1>3. /\ \A u : u \in InMemory' <=> u = m \/ (u \in InMemory /\ u.id # m.id)
      /\ \A u : u \in stored' <=> u = m \/ (u \in stored /\ u.id # m.id)
      /\ \A o : o \in taken' <=> o \in taken \/ o \in X
      /\ \A o : o \in m.carries <=> o \in u0.carries \/ o \in X
      /\ m.id \in taken /\ m.id = u0.id
  BY <1>2
<1>4. Copies'
  <2>1. \A e, f \in stored' : e.id = f.id => e = f
    BY <1>3 DEF Work, Copies
  <2>2. \A u \in InMemory' : \A e \in stored' : u.id = e.id => u.carries = e.carries
    BY <1>3 DEF Work, Copies
  <2>3. ASSUME NEW f \in InMemory \cup stored, m.carries \cap f.carries # {} PROVE f.id = m.id
    <3>1. PICK o \in m.carries : o \in f.carries
      BY <2>3
    <3>2. o \in u0.carries
      BY <1>2, <1>3, <3>1
    <3>3. u0.carries \cap f.carries # {} /\ u0 \in InMemory \cup stored
      BY <3>1, <3>2
    <3> QED BY <1>3, <3>3 DEF Work, Copies
  <2>4. ASSUME NEW e \in InMemory' \cup stored', NEW f \in InMemory' \cup stored',
               e.carries \cap f.carries # {}
        PROVE  e.id = f.id
    <3>1. (e = m \/ e \in InMemory \cup stored) /\ (f = m \/ f \in InMemory \cup stored)
      BY <1>3
    <3>2. CASE e \in InMemory \cup stored /\ f \in InMemory \cup stored
      BY <2>4, <3>2 DEF Work, Copies
    <3>3. CASE e = m
      BY <2>3, <2>4, <3>1, <3>3
    <3>4. CASE f = m
      <4>1. m.carries \cap e.carries # {}
        BY <2>4, <3>4
      <4> QED BY <2>3, <3>1, <3>4, <4>1
    <3> QED BY <3>1, <3>2, <3>3, <3>4
  <2>5. ASSUME NEW e \in InMemory' \cup stored'
        PROVE  e.id \in e.carries /\ e.carries \subseteq taken'
    <3>1. CASE e = m
      BY <1>2, <1>3, <3>1
    <3>2. CASE e # m
      BY <1>2, <1>3, <3>2
    <3> QED BY <3>1, <3>2
  <2> QED BY <2>1, <2>2, <2>4, <2>5 DEF Copies
<1>5. Owned'
  <2>1. ASSUME NEW u \in InMemory' PROVE account # Nobody /\ owner'[u.id] = account
    <3>1. PICK v \in InMemory : v.id = u.id
      BY <1>3
    <3> QED BY <1>2, <3>1 DEF Work, Owned, OwnersKept
  <2>2. ASSUME NEW o \in taken' \cup settled' PROVE owner'[o] # Nobody
    <3>1. CASE o \in taken \cup settled
      BY <1>1, <3>1 DEF Work, Owned, OwnersKept
    <3>2. CASE o \in X
      BY <3>2 DEF Work, Owned
    <3> QED BY <1>3, <3>1, <3>2
  <2> QED BY <2>1, <2>2 DEF Owned
<1>6. ReadsFresh'
  <2>1. ASSUME NEW h \in reads, h.gen = gen, NEW e \in h.rows
        PROVE  e \in stored' /\ owner'[e.id] = account /\ e.id \notin Ids(InMemory')
    <3>1. e \in stored /\ owner[e.id] = account /\ account # Nobody /\ e.id \notin Ids(InMemory)
      BY <2>1 DEF Work, ReadsFresh
    <3>2. e.id \in Op /\ \A u \in InMemory : u.id # e.id
      BY <1>2, <3>1, IdsFacts
    <3>3. \A u \in InMemory' : u.id # e.id
      BY <1>3, <3>2
    <3> QED BY <1>3, <3>1, <3>2, <3>3, IdsFacts DEF OwnersKept
  <2> QED BY <2>1 DEF Work, ReadsFresh
<1>7. DirectFresh'
  <2>1. ASSUME NEW d \in direct'
        PROVE  /\ d.op.id \notin taken' \cup settled' /\ owner'[d.op.id] # Nobody
               /\ d.gen = gen => owner'[d.op.id] = account
    <3>1. /\ d \in direct /\ d.op.id \notin taken \cup settled /\ owner[d.op.id] # Nobody
          /\ d.gen = gen => owner[d.op.id] = account
          /\ d.op.id \in Op
      BY EntryFacts DEF Work, DirectFresh, Typed, TypedSession, Request
    <3> QED BY <1>3, <3>1 DEF OwnersKept
  <2> QED BY <2>1 DEF Work, DirectFresh
<1>8. Safe'
  <2>1. ASSUME NEW o \in taken', o \notin settled' PROVE \E e \in stored' : o \in e.carries
    <3>1. CASE o \in taken
      <4>1. PICK e \in stored : o \in e.carries
        BY <2>1, <3>1, CarriedFacts DEF Work, Safe
      <4>2. CASE e.id = m.id
        <5>1. u0.carries = e.carries
          BY <1>3, <4>2 DEF Work, Copies
        <5> QED BY <1>3, <4>1, <5>1
      <4> QED BY <1>3, <4>1, <4>2
    <3>2. CASE o \in X
      BY <1>3, <3>2
    <3> QED BY <1>3, <2>1, <3>1, <3>2
  <2> QED BY <2>1, CarriedFacts DEF Safe
<1>9. Remembered'
  <2>1. ASSUME NEW e \in stored', owner'[e.id] = account
        PROVE  \/ e.id \in Ids(InMemory')
               \/ \E h \in reads : h.gen = gen /\ e.id \in Ids(h.rows)
               \/ e.carries \cap overtaken # {}
    <3>1. CASE e = m
      BY <1>3, <3>1, IdsFacts
    <3>2. CASE e # m
      <4>1. e \in stored /\ e.id # m.id /\ owner[e.id] = account
        BY <1>2, <1>3, <2>1, <3>2 DEF Work, Owned, OwnersKept
      <4>2. CASE e.id \in Ids(InMemory)
        <5>1. PICK u \in InMemory : e.id = u.id
          BY <4>2, IdsFacts
        <5> QED BY <1>3, <4>1, <5>1, IdsFacts
      <4> QED BY <4>1, <4>2 DEF Work, Remembered, Stored
    <3> QED BY <3>1, <3>2
  <2> QED BY <2>1 DEF Remembered, Stored
<1>10. SentOnce'
  <2>1. ASSUME NEW o \in settled, NEW x \in InMemory' \cup stored', o \in x.carries PROVE FALSE
    <3>1. \A v \in InMemory \cup stored : o \notin v.carries
      BY <2>1, CarriedFacts DEF Work, SentOnce
    <3>2. o \notin m.carries
      BY <1>3, <2>1, <3>1
    <3> QED BY <1>3, <2>1, <3>1, <3>2
  <2> QED BY <2>1, CarriedFacts DEF SentOnce
<1> QED BY <1>4, <1>5, <1>6, <1>7, <1>8, <1>9, <1>10 DEF Work

\* The stored queue takes the place of the one in memory, without some of it.
LEMMA HydrateKeeps ==
    ASSUME Typed, Work, NEW h \in reads, h.gen = gen, NEW ids,
           InMemory' = {u \in h.rows : u.id \notin ids}
                           \cup (IF IsOp(inflight) THEN {inflight} ELSE {}),
           stored' = {u \in stored : u.id \notin ids},
           ids \subseteq Ids(h.rows),
           settled' = settled \cup Carried({u \in h.rows : u.id \in ids}),
           overtaken' = overtaken \cup Carried(ToSet(ops)),
           reads' = reads \ {h}, taken' = taken,
           account' = account, gen' = gen, owner' = owner, direct' = direct
    PROVE  Work'
<1> DEFINE F == IF IsOp(inflight) THEN {inflight} ELSE {}
<1>1. /\ F \subseteq InMemory /\ InMemory = ToSet(ops) \cup F
      /\ InMemory \subseteq Entry /\ stored \subseteq Entry /\ taken \subseteq Op
  BY MemoryType DEF InMemory, Typed, TypedWork
<1>2. ASSUME NEW u \in InMemory \cup stored
      PROVE  u.id \in taken /\ u.carries \subseteq taken /\ u.id \in u.carries /\ u.id \in Op
  BY <1>1 DEF Work, Copies
<1>3. /\ account # Nobody /\ h.rows \subseteq stored
      /\ \A e \in h.rows : owner[e.id] = account /\ \A u \in InMemory : u.id # e.id
      /\ \A g \in reads : g.gen = gen => g = h
  BY IdsFacts DEF Work, ReadsFresh
<1>4. /\ \A u : u \in InMemory' <=> u \in F \/ (u \in h.rows /\ u.id \notin ids)
      /\ \A u : u \in stored' <=> u \in stored /\ u.id \notin ids
      /\ \A o : o \in settled' <=> o \in settled \/ \E u \in h.rows : u.id \in ids /\ o \in u.carries
      /\ \A o : o \in overtaken' <=> o \in overtaken \/ \E u \in ToSet(ops) : o \in u.carries
      /\ \A i \in ids : \E u \in h.rows : i = u.id
  BY DEF Carried, Ids
<1> HIDE DEF F
<1>5. InMemory' \cup stored' \subseteq InMemory \cup stored
  BY <1>1, <1>3, <1>4
<1>6. Copies'
  BY <1>1, <1>3, <1>4, <1>5 DEF Work, Copies
<1>7. Owned'
  <2>1. \A u \in InMemory' : account # Nobody /\ owner[u.id] = account
    BY <1>1, <1>3, <1>4 DEF Work, Owned
  <2>2. \A o \in taken' \cup settled' : owner[o] # Nobody
    <3>1. \A o \in settled' : o \in settled \/ o \in taken
      BY <1>2, <1>3, <1>4
    <3> QED BY <3>1 DEF Work, Owned
  <2> QED BY <2>1, <2>2 DEF Owned
<1>8. ReadsFresh'
  <2>1. \A g \in reads' : g.gen <= gen /\ g.gen # gen
    BY <1>3 DEF Work, ReadsFresh
  <2> QED BY <2>1 DEF ReadsFresh
<1>9. DirectFresh'
  <2>1. \A o \in settled' : o \in settled \/ o \in taken
    BY <1>2, <1>3, <1>4
  <2> QED BY <2>1 DEF Work, DirectFresh
<1>10. Safe'
  <2>1. ASSUME NEW o \in taken, o \notin settled' PROVE \E e \in stored' : o \in e.carries
    <3>1. PICK e \in stored : o \in e.carries
      BY <1>4, <2>1, CarriedFacts DEF Work, Safe
    <3>2. ASSUME e.id \in ids PROVE FALSE
      <4>1. PICK u \in h.rows : e.id = u.id
        BY <1>4, <3>2
      <4>2. u = e
        BY <1>3, <4>1 DEF Work, Copies
      <4> QED BY <1>4, <2>1, <3>1, <3>2, <4>1, <4>2
    <3> QED BY <1>4, <3>1, <3>2
  <2> QED BY <2>1, CarriedFacts DEF Safe
<1>11. Remembered'
  <2>1. ASSUME NEW e \in stored', owner[e.id] = account
        PROVE  e.id \in Ids(InMemory') \/ e.carries \cap overtaken' # {}
    <3>1. e \in stored /\ e.id \notin ids
      BY <1>4
    <3>2. CASE e.id \in Ids(InMemory)
      <4>1. PICK u \in InMemory : e.id = u.id
        BY <3>2, IdsFacts
      <4>2. CASE u \in F
        BY <1>4, <4>1, <4>2, IdsFacts
      <4>3. CASE u \in ToSet(ops)
        <5>1. u.id \in u.carries /\ u.carries = e.carries
          BY <1>2, <3>1, <4>1 DEF Work, Copies
        <5> QED BY <1>4, <4>3, <5>1
      <4> QED BY <1>1, <4>2, <4>3
    <3>3. CASE \E g \in reads : g.gen = gen /\ e.id \in Ids(g.rows)
      <4>1. PICK u \in h.rows : e.id = u.id
        BY <1>3, <3>3, IdsFacts
      <4> QED BY <1>4, <3>1, <4>1, IdsFacts
    <3>4. CASE e.carries \cap overtaken # {}
      BY <1>4, <3>4
    <3> QED BY <2>1, <3>1, <3>2, <3>3, <3>4 DEF Work, Remembered, Stored
  <2> QED BY <2>1 DEF Remembered, Stored
<1>12. SentOnce'
  <2>1. ASSUME NEW o \in settled', NEW x \in InMemory' \cup stored', o \in x.carries PROVE FALSE
    <3>1. CASE o \in settled
      BY <1>5, <2>1, <3>1, CarriedFacts DEF Work, SentOnce
    <3>2. CASE o \notin settled
      <4>1. PICK u \in h.rows : u.id \in ids /\ o \in u.carries
        BY <1>4, <3>2
      <4>2. x.id = u.id
        <5>1. x.carries \cap u.carries # {} /\ u \in stored /\ x \in InMemory \cup stored
          BY <1>3, <1>5, <2>1, <4>1
        <5> QED BY <5>1 DEF Work, Copies
      <4> QED BY <1>1, <1>3, <1>4, <4>1, <4>2
    <3> QED BY <3>1, <3>2
  <2> QED BY <2>1, CarriedFacts DEF SentOnce
<1> QED BY <1>6, <1>7, <1>8, <1>9, <1>10, <1>11, <1>12 DEF Work

\* Nothing of it changes.
LEMMA SameKeeps ==
    ASSUME Typed, Work, InMemory' = InMemory, stored' = stored, taken' = taken,
           settled' = settled, account' = account, owner' = owner, gen' = gen,
           reads' = reads, overtaken' = overtaken, direct' = direct
    PROVE  Work'
  BY DEF Work, Copies, Owned, ReadsFresh, DirectFresh, Safe, Remembered, SentOnce, Stored

\* An account's stored queue is read; nothing of an account was there.
LEMMA SignInKeeps ==
    ASSUME Typed, Work, NEW a \in Account, account = Nobody, account' = a,
           reads' = reads \cup {ReadStored(a, gen)}, InMemory' = InMemory, stored' = stored,
           taken' = taken, settled' = settled, owner' = owner, gen' = gen,
           overtaken' = overtaken, direct' = direct
    PROVE  Work'
<1> DEFINE g == ReadStored(a, gen)
<1>1. InMemory = {} /\ a # Nobody
  BY OutboxConstants DEF Work, Owned
<1>2. \A h \in reads : h.gen <= gen /\ h.gen # gen
  BY DEF Work, ReadsFresh
<1>3. g.gen = gen /\ g.rows = Stored(a) /\ gen <= gen
  BY DEF ReadStored, Typed, TypedSession
<1> HIDE DEF g
<1>4. ReadsFresh'
  <2>1. g.rows \subseteq stored /\ \A e \in g.rows : owner[e.id] = a
    BY <1>3 DEF Stored
  <2>2. Ids(InMemory) = {}
    BY <1>1 DEF Ids
  <2> QED BY <1>1, <1>2, <1>3, <2>1, <2>2 DEF ReadsFresh, g
<1>5. DirectFresh'
  BY DEF Work, DirectFresh
<1>6. Remembered'
  <2>1. \A e \in Stored(a) : e.id \in Ids(g.rows)
    BY <1>3 DEF Ids
  <2> QED BY <1>3, <2>1 DEF Remembered, Stored, g
<1>7. Copies' /\ Owned' /\ Safe' /\ SentOnce'
  BY <1>1 DEF Work, Copies, Owned, Safe, SentOnce
<1> QED BY <1>4, <1>5, <1>6, <1>7 DEF Work

\* The account leaves, and its queue goes with it.
LEMMA SignOutKeeps ==
    ASSUME Typed, Work, account # Nobody, account' = Nobody, gen' = gen + 1, InMemory' = {},
           stored' = stored \ Stored(account), settled' = settled \cup Carried(Stored(account)),
           taken' = taken, owner' = owner, reads' = reads, overtaken' = overtaken,
           direct' = direct
    PROVE  Work'
<1>1. \A u \in stored : /\ u.id \in taken /\ u.carries \subseteq taken /\ u.id \in u.carries
                        /\ owner[u.id] # Nobody
  BY DEF Work, Copies, Owned
<1>2. /\ \A u : u \in stored' <=> u \in stored /\ owner[u.id] # account
      /\ \A o : o \in settled' <=>
               o \in settled \/ \E u \in stored : owner[u.id] = account /\ o \in u.carries
  BY DEF Carried, Stored
<1>3. \A o \in settled' : o \in settled \/ o \in taken
  BY <1>1, <1>2
<1>4. gen \in Nat /\ \A h \in reads : h.gen \in Nat
  BY OutboxConstants DEF Typed, TypedSession, Read
<1>5. \A d \in direct : d.gen \in Nat
  BY OutboxConstants DEF Typed, TypedSession, Request
<1>6. Copies'
  BY <1>2 DEF Work, Copies
<1>7. Owned'
  BY <1>3 DEF Work, Owned
<1>8. ReadsFresh'
  <2>1. \A h \in reads : h.gen <= gen + 1 /\ h.gen # gen + 1
    BY <1>4 DEF Work, ReadsFresh
  <2> QED BY <2>1 DEF ReadsFresh
<1>9. DirectFresh'
  <2>1. \A d \in direct : d.gen <= gen + 1 /\ d.gen # gen + 1
    BY <1>4, <1>5 DEF Work, DirectFresh
  <2>2. \A d \in direct : d.op.id \notin taken' \cup settled'
    BY <1>3 DEF Work, DirectFresh
  <2> QED BY <2>1, <2>2 DEF Work, DirectFresh
<1>10. Safe'
  <2>1. ASSUME NEW o \in taken, o \notin settled' PROVE \E e \in stored' : o \in e.carries
    BY <1>2, <2>1, CarriedFacts DEF Work, Safe
  <2> QED BY <2>1, CarriedFacts DEF Safe
<1>11. Remembered'
  BY <1>1, <1>2 DEF Remembered, Stored
<1>12. SentOnce'
  <2>1. ASSUME NEW o \in settled', NEW x \in stored', o \in x.carries PROVE FALSE
    <3>1. CASE o \in settled
      BY <1>2, <2>1, <3>1, CarriedFacts DEF Work, SentOnce
    <3>2. CASE o \notin settled
      <4>1. PICK u \in stored : owner[u.id] = account /\ o \in u.carries
        BY <1>2, <3>2
      <4>2. u.id = x.id
        BY <1>2, <2>1, <4>1 DEF Work, Copies
      <4> QED BY <1>2, <4>1, <4>2
    <3> QED BY <3>1, <3>2
  <2> QED BY <2>1, CarriedFacts DEF SentOnce
<1> QED BY <1>6, <1>7, <1>8, <1>9, <1>10, <1>11, <1>12 DEF Work

\* Memory is emptied, and the account's stored queue read again.
LEMMA ReloadKeeps ==
    ASSUME Typed, Work, InMemory' = {}, direct' = {},
           reads' = IF account = Nobody THEN {} ELSE {ReadStored(account, gen)},
           stored' = stored, taken' = taken, settled' = settled, owner' = owner, gen' = gen,
           account' = account, overtaken' = overtaken
    PROVE  Work'
<1> DEFINE g == ReadStored(account, gen)
<1>1. g.gen = gen /\ g.rows = Stored(account) /\ gen <= gen
  BY DEF ReadStored, Typed, TypedSession
<1> HIDE DEF g
<1>2. ReadsFresh'
  <2>1. g.rows \subseteq stored /\ \A e \in g.rows : owner[e.id] = account
    BY <1>1 DEF Stored
  <2>2. Ids({}) = {}
    BY DEF Ids
  <2>3. \A h \in reads' : h = g /\ account # Nobody
    BY DEF g
  <2> QED BY <1>1, <2>1, <2>2, <2>3 DEF ReadsFresh
<1>3. Remembered'
  <2>1. CASE account = Nobody
    <3>1. \A e \in stored : owner[e.id] # account
      BY <2>1 DEF Work, Copies, Owned
    <3> QED BY <3>1 DEF Remembered, Stored
  <2>2. CASE account # Nobody
    <3>1. \A e \in Stored(account) : e.id \in Ids(g.rows)
      BY <1>1 DEF Ids
    <3> QED BY <1>1, <2>2, <3>1 DEF Remembered, Stored, g
  <2> QED BY <2>1, <2>2
<1>4. Copies' /\ Owned' /\ DirectFresh' /\ Safe'
  BY DEF Work, Copies, Owned, DirectFresh, Safe
<1>5. SentOnce'
  BY CarriedFacts DEF Work, SentOnce
<1> QED BY <1>2, <1>3, <1>4, <1>5 DEF Work

\* A new mutation is on its way to the server without having been queued.
LEMMA SentAtOnceKeeps ==
    ASSUME Typed, Work, NEW d \in Request, account # Nobody, d.gen = gen,
           owner[d.op.id] = Nobody, d.op.carries = {d.op.id},
           owner' = [owner EXCEPT ![d.op.id] = account], direct' = direct \cup {d},
           InMemory' = InMemory, stored' = stored, taken' = taken, settled' = settled,
           account' = account, gen' = gen, reads' = reads, overtaken' = overtaken
    PROVE  Work'
<1>1. d.op.id \in Op /\ gen <= gen
  BY EntryFacts DEF Request, Typed, TypedSession
<1>2. /\ owner'[d.op.id] = account
      /\ \A o \in Op : o # d.op.id => owner'[o] = owner[o]
  BY <1>1 DEF Typed, TypedSession
<1>3. /\ taken \subseteq Op /\ settled \subseteq Op /\ InMemory \subseteq Entry /\ stored \subseteq Entry
      /\ \A c \in direct : c.op.id \in Op
  BY MemoryType, EntryFacts DEF Typed, TypedWork, TypedSession, Request
<1>4. /\ \A o \in taken \cup settled : o # d.op.id /\ owner'[o] = owner[o]
      /\ \A u \in InMemory \cup stored : u.id \in taken
      /\ \A c \in direct : c.op.id # d.op.id /\ owner'[c.op.id] = owner[c.op.id]
  BY <1>2, <1>3 DEF Work, Copies, Owned, DirectFresh
<1>5. Owned'
  BY <1>4 DEF Work, Owned
<1>6. ReadsFresh'
  <2>1. \A h \in reads : h.gen = gen => \A e \in h.rows : owner'[e.id] = account
    BY <1>4 DEF Work, ReadsFresh
  <2> QED BY <2>1 DEF Work, ReadsFresh
<1>7. DirectFresh'
  BY <1>1, <1>2, <1>4 DEF Work, DirectFresh
<1>8. Remembered'
  <2>1. \A e \in stored : owner'[e.id] = owner[e.id]
    BY <1>4
  <2> QED BY <2>1 DEF Work, Remembered, Stored
<1>9. Copies' /\ Safe' /\ SentOnce'
  BY DEF Work, Copies, Safe, SentOnce
<1> QED BY <1>5, <1>6, <1>7, <1>8, <1>9 DEF Work

\* ... and has been answered.
LEMMA AnsweredAtOnceKeeps ==
    ASSUME Typed, Work, NEW d \in direct, direct' = direct \ {d},
           settled' = settled \cup {d.op.id}, InMemory' = InMemory, stored' = stored,
           taken' = taken, account' = account, owner' = owner, gen' = gen, reads' = reads,
           overtaken' = overtaken
    PROVE  Work'
<1>1. /\ d.op.id \notin taken /\ owner[d.op.id] # Nobody
      /\ \A c \in direct' : c.op.id # d.op.id
  BY DEF Work, DirectFresh
<1>2. Owned'
  BY <1>1 DEF Work, Owned
<1>3. DirectFresh'
  BY <1>1 DEF Work, DirectFresh
<1>4. SentOnce'
  BY <1>1, CarriedFacts DEF Work, Copies, SentOnce
<1>5. Copies' /\ ReadsFresh' /\ Safe' /\ Remembered'
  BY DEF Work, Copies, ReadsFresh, Safe, Remembered, Stored
<1> QED BY <1>2, <1>3, <1>4, <1>5 DEF Work

-----------------------------------------------------------------------------
(* The runs, while the queue is the account's alone.                         *)
InFlight == IF IsOp(inflight) THEN {inflight} ELSE {}

\* Every run is where it was or has claimed what it sends.
RunsFollow ==
    \A s \in Run : Waiting(s)' =>
        \/ Waiting(s) /\ run'[s].gen = run[s].gen /\ run'[s].op.id = run[s].op.id
        \/ run'[s].gen = gen /\ run'[s].op.id \in Ids(InMemory')

LEMMA RunsStayKept ==
    ASSUME RunsKept, RunsFollow, gen' = gen, gen \in Nat, Copies', taken \subseteq taken',
           \A i \in Ids(InMemory' \cup stored') : i \in Ids(InMemory \cup stored) \/ i \notin taken
    PROVE  RunsKept'
<1> SUFFICES ASSUME NEW s \in Run, Waiting(s)'
             PROVE  /\ run'[s].gen <= gen /\ run'[s].op.id \in taken'
                    /\ run'[s].gen # gen => run'[s].op.id \notin Ids(InMemory' \cup stored')
  BY DEF RunsKept, Current
<1>1. CASE Waiting(s) /\ run'[s].gen = run[s].gen /\ run'[s].op.id = run[s].op.id
  BY <1>1 DEF RunsKept, Current
<1>2. CASE run'[s].gen = gen /\ run'[s].op.id \in Ids(InMemory')
  <2>1. PICK u \in InMemory' : run'[s].op.id = u.id
    BY <1>2, IdsFacts
  <2>2. u.id \in taken'
    BY <2>1 DEF Copies
  <2> QED BY <1>2, <2>1, <2>2
<1> QED BY <1>1, <1>2 DEF RunsFollow

\* No run is memoized, so none is current and nothing is on the wire.
LEMMA NoneIsCurrent ==
    ASSUME Moving, SoleRun, memo = NoRun
    PROVE  inflight = NoOp /\ InFlight = {} /\ \A r \in Run : ~Current(r) /\ ~Claims(r)
<1>1. \A r \in Run : ~Current(r)
  BY OutboxConstants DEF SoleRun
<1>2. ~IsOp(inflight)
  BY <1>1 DEF Moving, InflightOwned
<1> QED BY <1>1, <1>2 DEF IsOp, Claims, InFlight

\* A run has the head of a queue and is the only one.
LEMMA ClaimClean ==
    ASSUME TypedControl, TypedSession, NEW r \in Run, NEW q \in Seq(Entry), q # <<>>,
           Distinct(q), Claim(r, q), memo' = r, gen' = gen,
           \A s \in Run : s # r => ~Current(s)
    PROVE  SoleRun' /\ InMemory' = ToSet(q) /\ RunsFollow
<1>1. /\ ops' = Tail(q) /\ inflight' = Head(q) /\ IsOp(inflight')
      /\ Waiting(r)' /\ run'[r].op = Head(q) /\ run'[r].gen = gen
      /\ \A s \in Run : s # r => run'[s] = run[s]
  BY ClaimFacts
<1>2. /\ ToSet(q) = {Head(q)} \cup ToSet(Tail(q)) /\ Distinct(Tail(q))
      /\ \A e \in ToSet(Tail(q)) : e.id # Head(q).id
  BY HeadTailFacts
<1>3. InMemory' = ToSet(q)
  BY <1>1, <1>2 DEF InMemory
<1>4. SoleRun'
  <2>1. \A s \in Run : Current(s)' => s = r
    BY <1>1 DEF Current, Waiting
  <2>2. Claims(r)' /\ inflight'.carries = run'[r].op.carries
    BY <1>1 DEF Claims
  <2> QED BY <1>1, <1>2, <2>1, <2>2 DEF SoleRun
<1>5. RunsFollow
  <2>1. run'[r].op.id \in Ids(InMemory')
    BY <1>1, <1>2, <1>3, IdsFacts
  <2> QED BY <1>1, <2>1 DEF RunsFollow, Waiting
<1> QED BY <1>3, <1>4, <1>5

LEMMA DrainClean ==
    ASSUME TypedControl, TypedSession, Moving, SoleRun, NEW q \in Seq(Entry), NEW w,
           Distinct(q), IsOp(inflight) => \A e \in ToSet(q) : e.id # inflight.id,
           Drain(q, w), gen' = gen
    PROVE  SoleRun' /\ InMemory' = ToSet(q) \cup InFlight /\ RunsFollow
<1>1. CASE memo # NoRun \/ q = <<>>
  <2>1. ops' = q /\ inflight' = inflight /\ memo' = memo /\ run' = run
    BY <1>1 DEF Drain
  <2>2. InMemory' = ToSet(q) \cup InFlight
    BY <2>1 DEF InMemory, InFlight
  <2>3. \A r \in Run : (Current(r)' <=> Current(r)) /\ (Claims(r)' <=> Claims(r))
    BY <2>1 DEF Current, Waiting, Claims
  <2>4. SoleRun'
    BY <2>1, <2>3 DEF SoleRun
  <2> QED BY <2>1, <2>2, <2>4 DEF RunsFollow, Waiting
<1>2. CASE memo = NoRun /\ q # <<>>
  <2>1. PICK r \in Run : Claim(r, q) /\ memo' = r
    BY <1>2 DEF Drain
  <2>2. InFlight = {} /\ \A s \in Run : ~Current(s)
    BY <1>2, NoneIsCurrent
  <2> QED BY <1>2, <2>1, <2>2, ClaimClean
<1> QED BY <1>1, <1>2

LEMMA LoopClean ==
    ASSUME TypedControl, TypedSession, SoleRun, NEW r \in Run, Current(r),
           NEW q \in Seq(Entry), Distinct(q), Loop(r, q, NoOp), gen' = gen
    PROVE  SoleRun' /\ InMemory' = ToSet(q) /\ RunsFollow
<1>1. memo = r /\ \A s \in Run : s # r => ~Current(s)
  BY DEF SoleRun
<1>2. CASE q # <<>>
  BY <1>1, <1>2, ClaimClean DEF Loop
<1>3. CASE q = <<>>
  <2>1. End(r) /\ ops' = <<>> /\ inflight' = NoOp
    BY <1>3 DEF Loop
  <2>2. ~Waiting(r)' /\ \A s \in Run : s # r => run'[s] = run[s]
    BY <2>1, EndFacts
  <2>3. \A s \in Run : ~Current(s)'
    BY <1>1, <2>2 DEF Current, Waiting
  <2>4. InMemory' = {}
    BY <2>1, EmptyFacts DEF InMemory, IsOp
  <2>5. SoleRun'
    BY <2>1, <2>3, EmptyFacts DEF SoleRun, IsOp
  <2>6. RunsFollow
    BY <2>2 DEF RunsFollow, Waiting
  <2> QED BY <1>3, <2>4, <2>5, <2>6, EmptyFacts
<1> QED BY <1>2, <1>3

\* A current run ends, or an abandoned one with no other there.
LEMMA EndClean ==
    ASSUME TypedControl, Moving, SoleRun, NEW r \in Run, End(r), ops' = Released(r),
           inflight' = Unclaimed(r), gen' = gen, Current(r) \/ memo = NoRun
    PROVE  SoleRun' /\ InMemory' = InMemory /\ RunsFollow
<1>1. ~Waiting(r)' /\ \A s \in Run : s # r => run'[s] = run[s]
  BY EndFacts
<1>2. \A s \in Run : s # r => ~Current(s)
  BY OutboxConstants DEF SoleRun
<1>3. \A s \in Run : ~Current(s)'
  BY <1>1, <1>2 DEF Current, Waiting
<1>4. RunsFollow
  BY <1>1 DEF RunsFollow, Waiting
<1>5. CASE Current(r)
  <2>1. Claims(r)
    BY <1>5 DEF SoleRun
  <2>2. /\ inflight \in Entry /\ IsOp(inflight) /\ inflight' = NoOp
        /\ ops' = <<inflight>> \o ops
    BY <2>1, ReleasedFacts DEF Claims
  <2>3. ToSet(ops') = {inflight} \cup ToSet(ops) /\ Distinct(ops')
    BY <2>2, PutBackFacts DEF SoleRun, TypedControl
  <2>4. InMemory' = InMemory
    BY <2>2, <2>3 DEF InMemory, IsOp
  <2>5. SoleRun'
    BY <1>3, <2>2, <2>3 DEF SoleRun, IsOp
  <2> QED BY <1>4, <2>4, <2>5
<1>6. CASE memo = NoRun
  <2>1. inflight = NoOp /\ ~Claims(r)
    BY <1>6, NoneIsCurrent
  <2>2. ops' = ops /\ inflight' = inflight
    BY <2>1, ReleasedFacts
  <2>3. SoleRun'
    BY <1>3, <2>1, <2>2 DEF SoleRun, IsOp
  <2>4. InMemory' = InMemory
    BY <2>2 DEF InMemory
  <2> QED BY <1>4, <2>3, <2>4
<1> QED BY <1>5, <1>6

\* The runs have what they had, and so has the queue, up to what entries hold.
LEMMA StaysClean ==
    ASSUME SoleRun, memo' = memo, gen' = gen,
           \A s \in Run : /\ Waiting(s)' <=> Waiting(s)
                        /\ run'[s].gen = run[s].gen /\ run'[s].op = run[s].op,
           Distinct(ops'),
           IsOp(inflight') <=> IsOp(inflight),
           IsOp(inflight) => inflight'.id = inflight.id /\ inflight'.carries = inflight.carries,
           IsOp(inflight) => \A e \in ToSet(ops') : e.id # inflight.id
    PROVE  SoleRun' /\ RunsFollow
<1>1. \A s \in Run : Current(s)' <=> Current(s)
  BY DEF Current
<1>2. \A s \in Run : Claims(s)' <=> Claims(s)
  BY DEF Claims
<1>3. \A s \in Run : Current(s) => inflight'.carries = run'[s].op.carries
  BY DEF SoleRun, Claims
<1>4. SoleRun'
  BY <1>1, <1>2, <1>3 DEF SoleRun
<1> QED BY <1>4 DEF RunsFollow

-----------------------------------------------------------------------------
(* Numbers and positions.                                                    *)

\* A set of naturals that is not empty has a least member.
LEMMA LeastNatural ==
    ASSUME NEW S \in SUBSET Nat, S # {}
    PROVE  \E m \in S : \A k \in S : m <= k
<1> DEFINE R == OpToRel(<, Nat)
<1>1. IsWellFoundedOn(R, Nat)
  BY NatLessThanWellFounded
<1>2. \A x, y \in Nat : y < x => <<y, x>> \in R
  BY DEF OpToRel
<1> HIDE DEF R
<1>3. PICK x \in S : \A y \in S : <<y, x>> \notin R
  BY <1>1, WFMin
<1>4. \A y \in S : ~(y < x)
  BY <1>2, <1>3
<1> QED BY <1>4

\* A finite one has a greatest member: the smallest one without would have a
\* smaller one without in it.
LEMMA MaxIsGreatest ==
    ASSUME NEW S \in SUBSET Nat, IsFiniteSet(S), S # {}
    PROVE  Max(S) \in S
<1> DEFINE HasMax(T) == \E m \in T : \A k \in T : m >= k
           Bad == {T \in SUBSET S : T # {} /\ ~HasMax(T)}
           Sizes == {Cardinality(T) : T \in Bad}
<1>1. \A T \in SUBSET S : IsFiniteSet(T) /\ Cardinality(T) \in Nat
  BY FS_Subset, FS_CardinalityType
<1>2. ASSUME Bad # {} PROVE FALSE
  <2>1. Sizes \in SUBSET Nat /\ Sizes # {}
    BY <1>1, <1>2
  <2>2. PICK n \in Sizes : \A k \in Sizes : n <= k
    <3> HIDE DEF Sizes
    <3> QED BY <2>1, LeastNatural
  <2>3. PICK T \in Bad : Cardinality(T) = n
    BY <2>2
  <2>4. PICK x \in T : TRUE
    BY <2>3
  <2>5. Cardinality(T \ {x}) = Cardinality(T) - 1 /\ Cardinality(T) \in Nat
    BY <1>1, <2>3, <2>4, FS_RemoveElement
  <2>6. T \ {x} \notin Bad
    <3>1. Cardinality(T \ {x}) < n /\ n \in Nat
      BY <2>3, <2>5
    <3>2. T \ {x} \in Bad => Cardinality(T \ {x}) \in Sizes
      OBVIOUS
    <3>3. Cardinality(T \ {x}) \in Nat
      BY <1>1, <2>3
    <3> HIDE DEF Sizes, Bad
    <3> QED BY <2>2, <3>1, <3>2, <3>3
  <2>7. x \in Nat /\ T \subseteq Nat /\ ~HasMax(T)
    BY <2>3, <2>4
  <2>8. CASE T \ {x} = {}
    <3>1. \A k \in T : x >= k
      BY <2>7, <2>8
    <3> QED BY <2>4, <2>7, <3>1
  <2>9. CASE T \ {x} # {}
    <3>1. PICK m \in T \ {x} : \A k \in T \ {x} : m >= k
      BY <2>3, <2>6, <2>9
    <3>2. m \in Nat /\ (m >= x \/ x >= m)
      BY <2>7, <3>1
    <3>3. CASE m >= x
      BY <2>7, <3>1, <3>3
    <3>4. CASE x >= m
      <4>1. \A k \in T : x >= k
        BY <2>7, <3>1, <3>2, <3>4
      <4> QED BY <2>4, <2>7, <4>1
    <3> QED BY <3>2, <3>3, <3>4
  <2> QED BY <2>8, <2>9
<1>3. HasMax(S)
  BY <1>2
<1> QED BY <1>3 DEF Max

\* An entry takes the place of one with the same id.
LEMMA ReplacedFacts ==
    ASSUME NEW q \in Seq(Entry), NEW i \in DOMAIN q, NEW m \in Entry, m.id = q[i].id,
           NEW p, p = [q EXCEPT ![i] = m]
    PROVE  /\ p \in Seq(Entry) /\ p # <<>> /\ q # <<>> /\ q[i] \in ToSet(q)
           /\ Distinct(q) => /\ Distinct(p)
                             /\ ToSet(p) = {u \in ToSet(q) : u.id # m.id} \cup {m}
<1>1. Len(q) \in Nat /\ DOMAIN q = 1..Len(q) /\ i \in 1..Len(q) /\ q[i] \in ToSet(q)
  BY SeqParts
<1>2. /\ p \in Seq(Entry) /\ DOMAIN p = 1..Len(q) /\ p[i] = m
      /\ \A j \in 1..Len(q) : j # i => p[j] = q[j]
  BY <1>1
<1>3. p # <<>> /\ q # <<>>
  BY <1>1, <1>2
<1>4. ASSUME Distinct(q) PROVE Distinct(p)
  <2>1. \A j \in 1..Len(q) : p[j].id = q[j].id
    BY <1>2
  <2> QED BY <1>1, <1>2, <1>4, <2>1 DEF Distinct
<1>5. ASSUME Distinct(q) PROVE ToSet(p) = {u \in ToSet(q) : u.id # m.id} \cup {m}
  <2>1. \A j \in 1..Len(q) : j # i => q[j].id # m.id
    BY <1>1, <1>5 DEF Distinct
  <2>2. ASSUME NEW j \in 1..Len(q) PROVE p[j] = m \/ (p[j] \in ToSet(q) /\ p[j].id # m.id)
    BY <1>1, <1>2, <2>1 DEF ToSet
  <2>3. ASSUME NEW u \in ToSet(q), u.id # m.id PROVE \E j \in 1..Len(q) : u = p[j]
    <3>1. PICK j \in 1..Len(q) : u = q[j]
      BY <1>1 DEF ToSet
    <3> QED BY <1>2, <2>3, <3>1
  <2> QED BY <1>1, <1>2, <2>2, <2>3 DEF ToSet
<1> QED BY <1>1, <1>2, <1>3, <1>4, <1>5

-----------------------------------------------------------------------------
(* Each operation keeps the invariant.                                       *)
LEMMA UnsentIsInMemory ==
    ASSUME TypedControl
    PROVE  ToSet(Unsent) = InMemory
<1>1. CASE IsOp(inflight)
  BY <1>1, PutBackFacts DEF Unsent, InMemory, TypedControl, IsOp
<1>2. CASE ~IsOp(inflight)
  BY <1>2 DEF Unsent, InMemory
<1> QED BY <1>1, <1>2

LEMMA InitKeeps == Init => IInv
<1> SUFFICES ASSUME Init PROVE IInv
  OBVIOUS
<1>1. /\ run = [r \in Run |-> IdleRun] /\ ops = <<>> /\ inflight = NoOp /\ memo = NoRun
      /\ stored = {} /\ taken = {} /\ settled = {} /\ reads = {} /\ direct = {}
      /\ owner = [o \in Op |-> Nobody] /\ gen = 0 /\ seq = 0 /\ reloads = 0
      /\ account = Nobody /\ wake = FALSE /\ draining = FALSE /\ mixed = FALSE
      /\ applied = {} /\ overtaken = {}
  BY DEF Init
<1>2. \A r \in Run : ~Waiting(r)
  BY <1>1, IdleRunFacts DEF Waiting
<1>3. TypedControl
  BY <1>1, <1>2, IdleRunFacts, EmptyFacts DEF TypedControl
<1>4. TypedWork
  BY <1>1, FS_EmptySet DEF TypedWork
<1>5. TypedSession
  <2>1. 0 \in 0..MaxSessions /\ 0 \in 0..MaxReloads
    BY OutboxConstants
  <2>2. owner \in [Op -> Account \cup {Nobody}]
    BY <1>1
  <2> QED BY <1>1, <2>1, <2>2 DEF TypedSession
<1>6. Moving
  BY <1>1 DEF Moving, MemoIsCurrent, InflightOwned, QueueHasAWaker, IsOp
<1>7. InMemory = {}
  BY <1>1, EmptyFacts DEF InMemory, IsOp
<1>8. SoleRun
  BY <1>1, <1>2, EmptyFacts DEF SoleRun, Current, IsOp
<1>9. Work
  BY <1>1, <1>7 DEF Work, Copies, Owned, ReadsFresh, DirectFresh, Safe, Remembered, SentOnce,
                    Stored
<1>10. RunsKept
  BY <1>2 DEF RunsKept
<1> QED BY <1>3, <1>4, <1>5, <1>6, <1>8, <1>9, <1>10 DEF IInv, Typed, Clean

\* A run goes on or ends, and the work is where it was.
LEMMA QuietKeeps ==
    ASSUME IInv, RunUnchanged, stored' = stored, settled' = settled,
           applied' \in SUBSET (Op \X Account), mixed' \in BOOLEAN, ~mixed' => ~mixed,
           TypedControl', Moving',
           ~mixed' => SoleRun' /\ InMemory' = InMemory /\ RunsFollow
    PROVE  IInv'
<1>1. /\ account' = account /\ owner' = owner /\ seq' = seq /\ gen' = gen /\ reads' = reads
      /\ direct' = direct /\ taken' = taken /\ overtaken' = overtaken /\ reloads' = reloads
  BY DEF RunUnchanged
<1>2. Typed'
  BY <1>1 DEF IInv, Typed, TypedWork, TypedSession
<1>3. ASSUME ~mixed' PROVE Clean'
  <2>1. Work'
    BY <1>1, <1>3, SameKeeps DEF IInv, Clean
  <2>2. RunsKept'
    <3>1. Copies' /\ gen \in Nat /\ \A i \in Ids(InMemory' \cup stored') : i \in Ids(InMemory \cup stored)
      BY <1>3, <2>1, OutboxConstants DEF Work, IInv, Typed, TypedSession
    <3> QED BY <1>1, <1>3, <3>1, RunsStayKept DEF IInv, Clean
  <2> QED BY <1>3, <2>1, <2>2 DEF Clean
<1> QED BY <1>2, <1>3 DEF IInv

LEMMA BreakKeeps ==
    ASSUME IInv, NEW r \in Run, Current(r), Break(r), RunUnchanged,
           stored' = stored, settled' = settled, mixed' = mixed,
           applied' \in SUBSET (Op \X Account)
    PROVE  IInv'
<1>1. /\ End(r) /\ ops' = Released(r) /\ inflight' = Unclaimed(r) /\ draining' = FALSE
      /\ wake' = (wake \/ Released(r) # <<>>) /\ gen' = gen
  BY DEF Break, RunUnchanged
<1>2. TypedControl' /\ Moving'
  BY <1>1, EndMoves DEF IInv, Typed
<1>3. ~mixed => SoleRun' /\ InMemory' = InMemory /\ RunsFollow
  BY <1>1, EndClean DEF IInv, Typed, Clean
<1> QED BY <1>2, <1>3, QuietKeeps DEF IInv, Typed, TypedSession

\* An abandoned run finds no other, while the queue is the account's alone: it has
\* nothing to let go of.
LEMMA AbandonKeeps ==
    ASSUME IInv, NEW r \in Run, ~Current(r), Abandon(r), RunUnchanged,
           stored' = stored, settled' = settled, applied' \in SUBSET (Op \X Account)
    PROVE  IInv'
<1>1. /\ End(r) /\ ops' = Released(r) /\ inflight' = Unclaimed(r) /\ draining' = draining
      /\ wake' = wake /\ gen' = gen /\ mixed' = (mixed \/ memo # NoRun)
  BY DEF Abandon, RunUnchanged
<1>2. draining' \in BOOLEAN /\ mixed' \in BOOLEAN
  BY <1>1 DEF IInv, Typed, TypedControl
<1>3. TypedControl' /\ Moving'
  BY <1>1, <1>2, EndMoves DEF IInv, Typed
<1>4. ~mixed' => SoleRun' /\ InMemory' = InMemory /\ RunsFollow
  BY <1>1, EndClean DEF IInv, Typed, Clean
<1> QED BY <1>1, <1>2, <1>3, <1>4, QuietKeeps

LEMMA AnsweredFacts ==
    ASSUME IInv, NEW r \in Run, NEW reached \in BOOLEAN, Answered(r, reached)
    PROVE  /\ applied' \in SUBSET (Op \X Account) /\ RunUnchanged /\ Waiting(r)
           /\ run[r].op \in Entry /\ run[r] \in RunRecord
<1>1. Waiting(r) /\ run[r].op \in Entry /\ run[r] \in RunRecord /\ run[r].as \in Account \cup {Nobody}
  BY DEF Answered, Waiting, IInv, Typed, TypedControl, RunRecord
<1>2. run[r].op.carries \subseteq Op
  BY <1>1, EntryFacts
<1>3. reached => run[r].as \in Account
  BY <1>1 DEF Answered
<1>4. applied' \in SUBSET (Op \X Account)
  BY <1>2, <1>3 DEF Answered, IInv, Typed, TypedWork
<1> QED BY <1>1, <1>4 DEF Answered

LEMMA RekeyedKeeps ==
    ASSUME IInv, NEW r \in Run, NEW at \in {"rekey", "wire"},
           run[r].at \in {"board", "rekey"},
           run' = [run EXCEPT ![r].at = at, ![r].as = account],
           UNCHANGED <<queue, memo, draining, wake, mixed, stored, applied, settled>>,
           RunUnchanged
    PROVE  IInv'
<1> DEFINE x == [run[r] EXCEPT !.at = at, !.as = account]
<1>1. Waiting(r) /\ run[r] \in RunRecord /\ run' = [run EXCEPT ![r] = x]
  BY DEF IInv, Typed, TypedControl, Waiting
<1>2. x \in RunRecord /\ x.at = at /\ x.gen = run[r].gen /\ x.op = run[r].op
  BY <1>1 DEF RunRecord, IInv, Typed, TypedSession
<1> HIDE DEF x
<1>3. /\ run' \in [Run -> RunRecord]
      /\ \A s \in Run : /\ Waiting(s)' <=> Waiting(s)
                       /\ run'[s].gen = run[s].gen /\ run'[s].op = run[s].op
  BY <1>1, <1>2, GoesOnFacts DEF IInv, Typed
<1>4. /\ ops' = ops /\ inflight' = inflight /\ memo' = memo /\ draining' = draining
      /\ wake' = wake /\ gen' = gen /\ InMemory' = InMemory /\ mixed' = mixed
      /\ stored' = stored /\ settled' = settled /\ applied' = applied
  BY DEF queue, RunUnchanged, InMemory
<1>5. TypedControl' /\ Moving'
  <2>1. /\ wake' \in BOOLEAN /\ ops' \in Seq(Entry) /\ inflight' \in Entry \cup {NoOp}
        /\ wake' = wake /\ (ops' = <<>> <=> ops = <<>>)
        /\ IsOp(inflight') => IsOp(inflight) /\ inflight'.id = inflight.id
    BY <1>4 DEF IInv, Typed, TypedControl
  <2> QED BY <1>3, <1>4, <2>1, StaysMoving DEF IInv, Typed
<1>6. ~mixed => SoleRun' /\ RunsFollow
  <2>1. SUFFICES ASSUME SoleRun PROVE SoleRun' /\ RunsFollow
    BY DEF IInv, Clean
  <2>2. /\ Distinct(ops') /\ (IsOp(inflight') <=> IsOp(inflight))
        /\ IsOp(inflight) => inflight'.id = inflight.id /\ inflight'.carries = inflight.carries
        /\ IsOp(inflight) => \A e \in ToSet(ops') : e.id # inflight.id
    BY <1>4, <2>1 DEF SoleRun
  <2> QED BY <1>3, <1>4, <2>1, <2>2, StaysClean
<1> QED BY <1>4, <1>5, <1>6, QuietKeeps DEF IInv, Typed, TypedWork, TypedSession

\* What was answered for good leaves memory and storage, and the run goes on.
LEMMA ForgetKeeps ==
    ASSUME IInv, NEW r \in Run, Current(r), NEW ids, Claims(r) => run[r].op.id \in ids,
           Forget(r, ids), RunUnchanged, mixed' = mixed, applied' \in SUBSET (Op \X Account),
           settled' \in SUBSET Op,
           ~mixed => /\ ids \subseteq Ids(InMemory)
                     /\ settled' = settled \cup Carried({u \in InMemory : u.id \in ids})
    PROVE  IInv'
<1> DEFINE q == Without(ids)
           f == IF IsOp(inflight) /\ inflight.id \in ids THEN NoOp ELSE inflight
<1>1. /\ stored' = StoredWithout(ids) /\ Loop(r, q, f)
      /\ account' = account /\ owner' = owner /\ seq' = seq /\ gen' = gen /\ reads' = reads
      /\ direct' = direct /\ taken' = taken /\ overtaken' = overtaken /\ reloads' = reloads
  BY DEF Forget, RunUnchanged
<1>2. /\ q \in Seq(Entry) /\ ToSet(q) = {e \in ToSet(ops) : e.id \notin ids}
      /\ Distinct(ops) => Distinct(q)
  BY FilteredFacts DEF Without, IInv, Typed, TypedControl
<1>3. /\ f \in Entry \cup {NoOp} /\ (f = NoOp \/ (f = inflight /\ ~Claims(r)))
      /\ Claims(r) => f = NoOp /\ inflight.id \in ids /\ IsOp(inflight)
  BY DEF Claims, IInv, Typed, TypedControl
<1> HIDE DEF q, f
<1>4. TypedControl' /\ Moving'
  BY <1>1, <1>2, <1>3, LoopMoves DEF IInv, Typed
<1>5. TypedWork' /\ TypedSession'
  <2>1. stored' \in SUBSET stored
    BY <1>1 DEF StoredWithout
  <2>2. IsFiniteSet(stored')
    BY <2>1, FS_Subset DEF IInv, Typed, TypedWork
  <2> QED BY <1>1, <2>1, <2>2 DEF IInv, Typed, TypedWork, TypedSession
<1>6. ASSUME ~mixed PROVE Clean'
  <2>1. SoleRun /\ Work /\ RunsKept /\ Claims(r)
    BY <1>6 DEF IInv, Clean, SoleRun
  <2>2. SoleRun' /\ InMemory' = ToSet(q) /\ RunsFollow
    BY <1>1, <1>2, <1>3, <2>1, LoopClean DEF IInv, Typed, SoleRun
  <2>3. InMemory' = {u \in InMemory : u.id \notin ids}
    BY <1>2, <1>3, <2>1, <2>2 DEF InMemory
  <2>4. Work'
    <3> DEFINE N == {}
    <3>1. /\ ids \subseteq Ids(InMemory \cup N)
          /\ InMemory' = {u \in InMemory \cup N : u.id \notin ids}
          /\ stored' = {u \in stored \cup N : u.id \notin ids}
          /\ taken' = taken \cup Ids(N)
          /\ settled' = settled \cup Carried({u \in InMemory \cup N : u.id \in ids})
      BY <1>1, <1>6, <2>3 DEF Ids, StoredWithout
    <3>2. N = {} /\ OwnersKept /\ direct' \subseteq direct
      BY <1>1 DEF OwnersKept
    <3> HIDE DEF N
    <3> QED BY <1>1, <2>1, <3>1, <3>2, PutKeeps DEF IInv
  <2>5. RunsKept'
    <3>1. \A i \in Ids(InMemory' \cup stored') : i \in Ids(InMemory \cup stored)
      BY <1>1, <2>3 DEF Ids, StoredWithout
    <3>2. Copies' /\ gen \in Nat /\ taken \subseteq taken'
      BY <1>1, <2>4, OutboxConstants DEF Work, IInv, Typed, TypedSession
    <3> QED BY <1>1, <2>1, <2>2, <3>1, <3>2, RunsStayKept
  <2> QED BY <2>2, <2>4, <2>5 DEF Clean
<1> QED BY <1>4, <1>5, <1>6 DEF IInv, Typed

LEMMA AnsweredForGoodKeeps ==
    ASSUME IInv, NEW r \in Run, NEW reached \in BOOLEAN, Answered(r, reached), Current(r),
           Forget(r, {run[r].op.id}), settled' = settled \cup run[r].op.carries, mixed' = mixed
    PROVE  IInv'
<1> DEFINE ids == {run[r].op.id}
<1>1. /\ applied' \in SUBSET (Op \X Account) /\ RunUnchanged /\ run[r].op.carries \subseteq Op
  BY AnsweredFacts, EntryFacts
<1>2. settled' \in SUBSET Op
  BY <1>1 DEF IInv, Typed, TypedWork
<1>3. ASSUME ~mixed
      PROVE  /\ ids \subseteq Ids(InMemory)
             /\ settled' = settled \cup Carried({u \in InMemory : u.id \in ids})
  <2>1. /\ Claims(r) /\ inflight.carries = run[r].op.carries /\ inflight.id = run[r].op.id
        /\ \A e \in ToSet(ops) : e.id # inflight.id
        /\ inflight \in InMemory /\ InMemory = ToSet(ops) \cup {inflight}
    BY <1>3 DEF IInv, Clean, SoleRun, Claims, InMemory
  <2>2. {u \in InMemory : u.id \in ids} = {inflight}
    BY <2>1
  <2>3. Carried({inflight}) = run[r].op.carries
    BY <2>1 DEF Carried
  <2> QED BY <2>1, <2>2, <2>3, IdsFacts
<1> HIDE DEF ids
<1>4. run[r].op.id \in ids /\ Forget(r, ids)
  BY DEF ids
<1> QED BY <1>1, <1>2, <1>3, <1>4, ForgetKeeps

LEMMA GoneKeeps ==
    ASSUME IInv, NEW r \in Run, Gone(r)
    PROVE  IInv'
<1> DEFINE doomed == {e \in ToSet(Unsent) : Entity[e.id] = Entity[run[r].op.id]}
           ids == {e.id : e \in doomed}
<1>1. /\ Answered(r, FALSE) /\ Current(r) /\ Forget(r, ids)
      /\ settled' = settled \cup Carried(doomed) /\ mixed' = mixed
  BY DEF Gone
<1>2. /\ applied' \in SUBSET (Op \X Account) /\ RunUnchanged
  BY <1>1, AnsweredFacts
<1>3. doomed = {e \in InMemory : Entity[e.id] = Entity[run[r].op.id]} /\ InMemory \subseteq Entry
  BY UnsentIsInMemory, MemoryType DEF IInv, Typed
<1> HIDE DEF doomed
<1>4. settled' \in SUBSET Op
  <2>1. \A e \in doomed : e.carries \subseteq Op
    BY <1>3, EntryFacts
  <2> QED BY <1>1, <2>1, CarriedFacts DEF IInv, Typed, TypedWork
<1>5. Claims(r) => run[r].op.id \in ids
  <2>1. Claims(r) => inflight \in InMemory /\ inflight.id = run[r].op.id
    BY DEF Claims, InMemory
  <2> QED BY <1>3, <2>1
<1>6. doomed = {u \in InMemory : u.id \in ids}
  BY <1>3
<1>7. ids \subseteq Ids(InMemory)
  BY <1>3 DEF Ids
<1> HIDE DEF ids
<1> QED BY <1>1, <1>2, <1>4, <1>5, <1>6, <1>7, ForgetKeeps

\* The attempt is counted in memory and in storage.
LEMMA RetriedKeeps ==
    ASSUME IInv, NEW r \in Run, NEW at \in {"sleep", "refresh"}, Retried(r, at)
    PROVE  IInv'
<1> DEFINE op == run[r].op
           m == Bumped(op)
           x == [run[r] EXCEPT !.at = at]
<1>1. /\ Answered(r, FALSE) /\ Current(r) /\ MayRetry(r, at) /\ Bump(r)
      /\ run' = [run EXCEPT ![r] = x]
      /\ memo' = memo /\ draining' = draining /\ wake' = wake /\ settled' = settled
      /\ mixed' = mixed
  BY DEF Retried, IInv, Typed, TypedControl
<1>2. /\ applied' \in SUBSET (Op \X Account) /\ Waiting(r) /\ op \in Entry
      /\ run[r] \in RunRecord
      /\ account' = account /\ owner' = owner /\ seq' = seq /\ gen' = gen /\ reads' = reads
      /\ direct' = direct /\ taken' = taken /\ overtaken' = overtaken /\ reloads' = reloads
  BY <1>1, AnsweredFacts DEF RunUnchanged
<1>3. m \in Entry /\ m.id = op.id /\ m.carries = op.carries
  <2>1. op.attempts \in Nat /\ op.attempts + 1 \in 0..MaxAttempts
    BY <1>1, <1>2, OutboxConstants, EntryFacts DEF MayRetry
  <2> QED BY <1>2, <2>1 DEF Bumped, Entry
<1>4. x \in RunRecord /\ x.at # "idle" /\ x.gen = run[r].gen /\ x.op = op
  BY <1>2 DEF RunRecord
<1> HIDE DEF x, m
<1>5. /\ run' \in [Run -> RunRecord]
      /\ \A s \in Run : /\ Waiting(s)' <=> Waiting(s)
                       /\ run'[s].gen = run[s].gen /\ run'[s].op = run[s].op
  BY <1>1, <1>2, <1>4, GoesOnFacts DEF IInv, Typed
<1>6. /\ inflight' = IF Claims(r) THEN m ELSE inflight
      /\ ops' = IF Claims(r) THEN ops
                ELSE [i \in DOMAIN ops |-> IF ops[i].id = op.id THEN m ELSE ops[i]]
      /\ stored' = {s \in stored : s.id # m.id} \cup {m}
  BY <1>1, <1>3 DEF Bump, m, StoredWithout
<1>7. /\ ops' \in Seq(Entry) /\ (ops' = <<>> <=> ops = <<>>)
      /\ inflight' \in Entry \cup {NoOp}
      /\ IsOp(inflight') => IsOp(inflight) /\ inflight'.id = inflight.id
  <2>1. ops \in Seq(Entry) /\ inflight \in Entry \cup {NoOp}
    BY DEF IInv, Typed, TypedControl
  <2>2. CASE Claims(r)
    BY <1>3, <1>6, <2>1, <2>2 DEF Claims
  <2>3. CASE ~Claims(r)
    <3>1. Len(ops) \in Nat /\ DOMAIN ops = 1..Len(ops) /\ \A i \in 1..Len(ops) : ops[i] \in Entry
      BY <2>1
    <3>2. ops' \in [1..Len(ops) -> Entry] /\ inflight' = inflight
      BY <1>3, <1>6, <2>3, <3>1
    <3>3. ops' \in Seq(Entry) /\ Len(ops') = Len(ops)
      BY <3>1, <3>2
    <3>4. ops' = <<>> <=> ops = <<>>
      BY <2>1, <3>3, EmptySeq
    <3> QED BY <2>1, <3>2, <3>3, <3>4
  <2> QED BY <2>2, <2>3
<1>8. TypedControl' /\ Moving'
  BY <1>1, <1>2, <1>5, <1>7, StaysMoving DEF IInv, Typed, TypedControl
<1>9. TypedWork' /\ TypedSession'
  <2>1. {s \in stored : s.id # m.id} \in SUBSET stored /\ IsFiniteSet(stored)
    BY DEF IInv, Typed, TypedWork
  <2>2. IsFiniteSet(stored')
    BY <1>6, <2>1, FS_Subset, FS_AddElement
  <2> QED BY <1>1, <1>2, <1>3, <1>6, <2>2 DEF IInv, Typed, TypedWork, TypedSession
<1>10. ASSUME ~mixed PROVE Clean'
  <2>1. SoleRun /\ Work /\ RunsKept /\ Claims(r) /\ inflight.carries = op.carries
    BY <1>1, <1>10 DEF IInv, Clean, SoleRun
  <2>2. IsOp(inflight) /\ inflight.id = op.id /\ inflight' = m /\ ops' = ops /\ IsOp(m)
    BY <1>3, <1>6, <2>1, EntryFacts DEF Claims
  <2>3. SoleRun' /\ RunsFollow
    <3>1. /\ Distinct(ops') /\ (IsOp(inflight') <=> IsOp(inflight))
          /\ IsOp(inflight) => /\ inflight'.id = inflight.id
                               /\ inflight'.carries = inflight.carries
                               /\ \A e \in ToSet(ops') : e.id # inflight.id
      BY <1>3, <2>1, <2>2 DEF SoleRun
    <3> QED BY <1>1, <1>2, <1>5, <2>1, <3>1, StaysClean
  <2>4. InMemory' = {u \in InMemory : u.id # m.id} \cup {m}
    BY <1>3, <2>1, <2>2 DEF InMemory, SoleRun
  <2>5. Work'
    <3> DEFINE X == {}
    <3>1. /\ inflight \in InMemory /\ m.id = inflight.id /\ m.carries = inflight.carries \cup X
          /\ taken' = taken \cup X /\ X \in SUBSET Op
      BY <1>2, <1>3, <2>1, <2>2 DEF InMemory
    <3>2. /\ \A o \in X : /\ o \notin taken \cup settled
                          /\ owner'[o] = account /\ \A d \in direct' : d.op.id # o
          /\ OwnersKept /\ direct' \subseteq direct
      BY <1>2 DEF OwnersKept
    <3> HIDE DEF X
    <3> QED BY <1>1, <1>2, <1>3, <1>6, <2>1, <2>4, <3>1, <3>2, ReplaceKeeps DEF IInv
  <2>6. RunsKept'
    <3>1. inflight \in InMemory /\ inflight.id = m.id
      BY <1>3, <2>2 DEF InMemory
    <3>2. \A i \in Ids(InMemory' \cup stored') : i \in Ids(InMemory \cup stored)
      BY <1>6, <2>4, <3>1 DEF Ids
    <3>3. Copies' /\ gen \in Nat /\ taken \subseteq taken'
      BY <1>2, <2>5, OutboxConstants DEF Work, IInv, Typed, TypedSession
    <3> QED BY <1>2, <2>1, <2>3, <3>2, <3>3, RunsStayKept
  <2> QED BY <2>3, <2>5, <2>6 DEF Clean
<1> QED BY <1>1, <1>8, <1>9, <1>10 DEF IInv, Typed

LEMMA ResumedKeeps ==
    ASSUME IInv, NEW r \in Run, Resumed(r)
    PROVE  IInv'
<1>1. /\ IF Current(r) THEN Loop(r, Released(r), Unclaimed(r)) /\ mixed' = mixed ELSE Abandon(r)
      /\ RunUnchanged /\ stored' = stored /\ settled' = settled /\ applied' = applied
      /\ applied' \in SUBSET (Op \X Account)
  BY DEF Resumed, IInv, Typed, TypedWork
<1>2. CASE ~Current(r)
  BY <1>1, <1>2, AbandonKeeps
<1>3. CASE Current(r)
  <2> DEFINE q == Released(r)
             f == Unclaimed(r)
  <2>1. /\ q \in Seq(Entry) /\ f \in Entry \cup {NoOp} /\ (f = NoOp \/ (f = inflight /\ ~Claims(r)))
        /\ Claims(r) => q = <<inflight>> \o ops /\ f = NoOp /\ inflight \in Entry
    BY ReleasedFacts DEF IInv, Typed
  <2>2. Loop(r, q, f) /\ mixed' = mixed /\ gen' = gen
    BY <1>1, <1>3 DEF RunUnchanged
  <2> HIDE DEF q, f
  <2>3. TypedControl' /\ Moving'
    BY <1>3, <2>1, <2>2, LoopMoves DEF IInv, Typed
  <2>4. ASSUME ~mixed PROVE SoleRun' /\ InMemory' = InMemory /\ RunsFollow
    <3>1. SoleRun /\ Claims(r) /\ IsOp(inflight)
      BY <1>3, <2>4 DEF IInv, Clean, SoleRun, Claims
    <3>2. Distinct(q) /\ ToSet(q) = InMemory /\ f = NoOp
      BY <2>1, <3>1, PutBackFacts DEF SoleRun, InMemory, IInv, Typed, TypedControl
    <3> QED BY <1>3, <2>1, <2>2, <3>1, <3>2, LoopClean DEF IInv, Typed
  <2> QED BY <1>1, <2>2, <2>3, <2>4, QuietKeeps DEF IInv, Typed, TypedSession
<1> QED BY <1>2, <1>3

LEMMA DrainKeeps ==
    ASSUME IInv, NEW w \in BOOLEAN, Drain(ops, w), RunUnchanged,
           UNCHANGED <<stored, applied, settled, mixed>>
    PROVE  IInv'
<1>1. gen' = gen /\ ops \in Seq(Entry) /\ applied' \in SUBSET (Op \X Account)
      /\ mixed' = mixed /\ mixed' \in BOOLEAN
  BY DEF RunUnchanged, IInv, Typed, TypedControl, TypedWork, TypedSession
<1>2. TypedControl' /\ Moving'
  BY <1>1, DrainMoves DEF IInv, Typed
<1>3. ASSUME ~mixed PROVE SoleRun' /\ InMemory' = InMemory /\ RunsFollow
  <2>1. SoleRun /\ Distinct(ops) /\ (IsOp(inflight) => \A e \in ToSet(ops) : e.id # inflight.id)
    BY <1>3 DEF IInv, Clean, SoleRun
  <2>2. InMemory = ToSet(ops) \cup InFlight
    BY DEF InMemory, InFlight
  <2> QED BY <1>1, <2>1, <2>2, DrainClean DEF IInv, Typed
<1> QED BY <1>1, <1>2, <1>3, QuietKeeps

LEMMA RunStepKeeps ==
    ASSUME IInv, NEW r \in Run, RunStep(r)
    PROVE  IInv'
<1>0. applied \in SUBSET (Op \X Account)
  BY DEF IInv, Typed, TypedWork
<1>1. ASSUME NEW found \in BOOLEAN, BoardRead(r, found) PROVE IInv'
  <2>1. CASE ~Current(r)
    BY <1>0, <1>1, <2>1, AbandonKeeps DEF BoardRead
  <2>2. CASE Current(r)
    <3> DEFINE at == IF found THEN "rekey" ELSE "wire"
    <3>1. /\ at \in {"rekey", "wire"} /\ run[r].at \in {"board", "rekey"}
          /\ run' = [run EXCEPT ![r].at = at, ![r].as = account]
          /\ UNCHANGED <<queue, memo, draining, wake, mixed, stored, applied, settled>>
          /\ RunUnchanged
      BY <1>1, <2>2 DEF BoardRead
    <3> HIDE DEF at
    <3> QED BY <3>1, RekeyedKeeps
  <2> QED BY <2>1, <2>2
<1>2. ASSUME Rekeyed(r) PROVE IInv'
  <2>1. /\ run[r].at \in {"board", "rekey"}
        /\ run' = [run EXCEPT ![r].at = "wire", ![r].as = account]
        /\ UNCHANGED <<queue, memo, draining, wake, mixed, stored, applied, settled>>
        /\ RunUnchanged
    BY <1>2 DEF Rekeyed
  <2> QED BY <2>1, RekeyedKeeps
<1>3. ASSUME NEW reached \in BOOLEAN, Stale(r, reached) PROVE IInv'
  <2>1. applied' \in SUBSET (Op \X Account) /\ RunUnchanged
    BY <1>3, AnsweredFacts DEF Stale
  <2> QED BY <1>3, <2>1, AbandonKeeps DEF Stale
<1>4. ASSUME NEW reached \in BOOLEAN, Unreachable(r, reached) PROVE IInv'
  <2>1. applied' \in SUBSET (Op \X Account) /\ RunUnchanged
    BY <1>4, AnsweredFacts DEF Unreachable
  <2> QED BY <1>4, <2>1, BreakKeeps DEF Unreachable
<1>5. ASSUME Halted(r) PROVE IInv'
  <2>1. applied' \in SUBSET (Op \X Account) /\ RunUnchanged
    BY <1>5, AnsweredFacts DEF Halted
  <2> QED BY <1>5, <2>1, BreakKeeps DEF Halted
<1>6. ASSUME Accepted(r) PROVE IInv'
  BY <1>6, AnsweredForGoodKeeps DEF Accepted
<1>7. ASSUME Landed(r) PROVE IInv'
  BY <1>7, AnsweredForGoodKeeps DEF Landed
<1>8. ASSUME Rejected(r) PROVE IInv'
  BY <1>8, AnsweredForGoodKeeps DEF Rejected
<1> QED BY <1>1, <1>2, <1>3, <1>4, <1>5, <1>6, <1>7, <1>8, GoneKeeps, RetriedKeeps,
           ResumedKeeps DEF RunStep

\* What a queue is cut down to.
LEMMA DoomedFacts ==
    ASSUME NEW q \in Seq(Entry), NEW n, NEW ids
    PROVE  /\ Doomed(q, n) \subseteq Ids(ToSet(q))
           /\ Expired(q, ids) = Carried({u \in ToSet(q) : u.id \in ids})
           /\ Expired(q, ids) \subseteq Op
<1>1. \A i \in DOMAIN q : q[i] \in ToSet(q) /\ q[i].carries \subseteq Op
  BY SeqParts, EntryFacts
<1>2. Doomed(q, n) \subseteq Ids(ToSet(q))
  BY <1>1 DEF Doomed, Ids
<1>3. {q[i] : i \in {k \in DOMAIN q : q[k].id \in ids}} = {u \in ToSet(q) : u.id \in ids}
  BY <1>1 DEF ToSet
<1>4. Expired(q, ids) \subseteq Op
  BY <1>1 DEF Expired, Carried
<1> QED BY <1>2, <1>3, <1>4 DEF Expired

\* A mutation is queued: for the account that made it, unless a sign-out came in
\* between.
LEMMA EnqueueKeeps ==
    ASSUME IInv, NEW e \in Entry, Enqueue(e), gen' = gen,
           account' = account, reads' = reads, overtaken' = overtaken,
           direct' \subseteq direct, TypedSession', applied' \in SUBSET (Op \X Account),
           ~mixed' => /\ ~mixed /\ e.id \notin taken \cup settled /\ account # Nobody
                      /\ owner'[e.id] = account /\ OwnersKept /\ e.carries = {e.id}
                      /\ \A d \in direct' : d.op.id # e.id
    PROVE  IInv'
<1>1. /\ IF Merges(e) # {} THEN Join(e) ELSE AppendOp(e)
      /\ taken' = taken \cup {e.id} /\ inflight' = inflight /\ memo' = memo
      /\ draining' = draining /\ run' = run
  BY DEF Enqueue
<1>2. /\ TypedControl /\ TypedWork /\ TypedSession /\ Moving
      /\ ops \in Seq(Entry) /\ inflight \in Entry \cup {NoOp} /\ wake \in BOOLEAN
      /\ stored \in SUBSET Entry /\ IsFiniteSet(stored) /\ settled \in SUBSET Op
      /\ run' \in [Run -> RunRecord] /\ gen \in Nat
      /\ e.id \in Op /\ e.carries \in SUBSET Op
  BY <1>1, EntryFacts, OutboxConstants DEF IInv, Typed, TypedControl, TypedWork, TypedSession
<1>3. \A s \in Run : /\ Waiting(s)' <=> Waiting(s)
                     /\ run'[s].gen = run[s].gen /\ run'[s].op = run[s].op
  BY <1>1 DEF Waiting
<1>4. ASSUME ~mixed'
      PROVE  /\ SoleRun /\ Work /\ RunsKept /\ ~mixed
             /\ \A u \in InMemory \cup stored : u.id \in taken /\ u.id # e.id
  BY <1>4 DEF IInv, Clean, Work, Copies
<1>5. CASE Merges(e) # {}
  <2> DEFINE i == CHOOSE k \in Merges(e) : \A m \in Merges(e) : k <= m
             m == [ops[i] EXCEPT !.carries = @ \cup e.carries]
  <2>1. /\ ops' = [ops EXCEPT ![i] = m] /\ stored' = StoredWithout({m.id}) \cup {m}
        /\ wake' = wake /\ settled' = settled
    BY <1>1, <1>5 DEF Join
  <2>2. i \in Merges(e) /\ Merges(e) \subseteq DOMAIN ops
    <3>1. Merges(e) \in SUBSET Nat /\ Merges(e) \subseteq DOMAIN ops
      BY <1>2 DEF Merges
    <3> QED BY <1>5, <3>1, LeastNatural
  <2> HIDE DEF i
  <2>3. i \in DOMAIN ops /\ ops[i] \in Entry
    BY <1>2, <2>2
  <2>4. m \in Entry /\ m.id = ops[i].id /\ m.carries = ops[i].carries \cup e.carries
    BY <1>2, <2>3 DEF Entry
  <2> HIDE DEF m
  <2>5. /\ ops' \in Seq(Entry) /\ ops' # <<>> /\ ops # <<>> /\ ops[i] \in ToSet(ops)
        /\ Distinct(ops) => /\ Distinct(ops')
                            /\ ToSet(ops') = {u \in ToSet(ops) : u.id # m.id} \cup {m}
    <3> DEFINE p == [ops EXCEPT ![i] = m]
    <3>1. /\ p \in Seq(Entry) /\ p # <<>> /\ ops # <<>> /\ ops[i] \in ToSet(ops)
          /\ Distinct(ops) => /\ Distinct(p)
                              /\ ToSet(p) = {u \in ToSet(ops) : u.id # m.id} \cup {m}
      <4>1. ops \in Seq(Entry) /\ i \in DOMAIN ops /\ m \in Entry /\ m.id = ops[i].id
        BY <1>2, <2>3, <2>4
      <4>2. p = [ops EXCEPT ![i] = m]
        OBVIOUS
      <4> HIDE DEF p
      <4> QED BY <4>1, <4>2, ReplacedFacts
    <3>2. ops' = p
      BY <2>1
    <3> QED BY <3>1, <3>2
  <2>6. TypedControl' /\ Moving'
    BY <1>1, <1>2, <1>3, <2>1, <2>5, StaysMoving
  <2>7. stored' = {u \in stored : u.id # m.id} \cup {m}
    BY <2>1 DEF StoredWithout
  <2>8. TypedWork'
    <3>1. {u \in stored : u.id # m.id} \in SUBSET stored
      OBVIOUS
    <3>2. IsFiniteSet(stored')
      BY <1>2, <2>7, <3>1, FS_Subset, FS_AddElement
    <3> QED BY <1>1, <1>2, <2>1, <2>4, <2>7, <3>2 DEF TypedWork
  <2>9. ASSUME ~mixed' PROVE Clean'
    <3>1. /\ SoleRun /\ Work /\ RunsKept /\ ~mixed /\ Distinct(ops)
          /\ IsOp(inflight) => \A u \in ToSet(ops) : u.id # inflight.id
          /\ ops[i] \in InMemory
      BY <1>4, <2>5, <2>9 DEF SoleRun, InMemory
    <3>2. SoleRun' /\ RunsFollow
      <4>1. /\ Distinct(ops') /\ (IsOp(inflight') <=> IsOp(inflight))
            /\ IsOp(inflight) => /\ inflight'.id = inflight.id
                                 /\ inflight'.carries = inflight.carries
                                 /\ \A u \in ToSet(ops') : u.id # inflight.id
        BY <1>1, <2>4, <2>5, <3>1
      <4> QED BY <1>1, <1>3, <3>1, <4>1, StaysClean
    <3>3. InMemory' = {u \in InMemory : u.id # m.id} \cup {m}
      BY <1>1, <2>4, <2>5, <3>1 DEF InMemory
    <3>4. Work'
      <4> DEFINE X == {e.id}
      <4>1. m.carries = ops[i].carries \cup X /\ taken' = taken \cup X /\ X \in SUBSET Op
        BY <1>1, <1>2, <2>4, <2>9
      <4>2. \A o \in X : /\ o \notin taken \cup settled
                         /\ owner'[o] = account /\ \A d \in direct' : d.op.id # o
        BY <2>9
      <4>3. PICK u \in InMemory : m.id = u.id /\ m.carries = u.carries \cup X
        BY <2>4, <3>1, <4>1
      <4>4. OwnersKept /\ Typed /\ settled' = settled
        BY <2>1, <2>9 DEF IInv
      <4> HIDE DEF X
      <4> QED BY <2>4, <2>7, <3>1, <3>3, <4>1, <4>2, <4>3, <4>4, ReplaceKeeps
    <3>5. RunsKept'
      <4>1. \A j \in Ids(InMemory' \cup stored') : j \in Ids(InMemory \cup stored)
        BY <2>4, <2>7, <3>1, <3>3 DEF Ids
      <4>2. Copies' /\ taken \subseteq taken'
        BY <1>1, <3>4 DEF Work
      <4> QED BY <1>2, <3>1, <3>2, <4>1, <4>2, RunsStayKept
    <3> QED BY <3>2, <3>4, <3>5 DEF Clean
  <2> QED BY <2>6, <2>8, <2>9 DEF IInv, Typed
<1>6. CASE Merges(e) = {}
  <2> DEFINE p == Append(ops, e)
  <2>1. PICK n \in 0..Len(ops) :
          LET doomed == Doomed(p, n)
          IN  /\ ops' = Filtered(p, doomed)
              /\ stored' = {s \in stored \cup {e} : s.id \notin doomed}
              /\ settled' = settled \cup Expired(p, doomed)
              /\ wake' = (wake \/ ops' # <<>>)
    BY <1>1, <1>6 DEF AppendOp
  <2> DEFINE ids == Doomed(p, n)
             N == {e}
  <2>2. /\ ops' = Filtered(p, ids) /\ stored' = {s \in stored \cup N : s.id \notin ids}
        /\ settled' = settled \cup Expired(p, ids) /\ wake' = (wake \/ ops' # <<>>)
    BY <2>1
  <2>3. /\ p \in Seq(Entry) /\ ToSet(p) = ToSet(ops) \cup N
        /\ Distinct(ops) /\ (\A u \in ToSet(ops) : u.id # e.id) => Distinct(p)
    BY <1>2, AppendFacts
  <2> HIDE DEF p
  <2>4. /\ ids \subseteq Ids(ToSet(p)) /\ Expired(p, ids) \subseteq Op
        /\ Expired(p, ids) = Carried({u \in ToSet(p) : u.id \in ids})
    BY <2>3, DoomedFacts
  <2> HIDE DEF ids
  <2>5. /\ ops' \in Seq(Entry) /\ ToSet(ops') = {u \in ToSet(p) : u.id \notin ids}
        /\ Distinct(p) => Distinct(ops')
    BY <2>2, <2>3, FilteredFacts
  <2>6. TypedControl' /\ Moving'
    <3>1. wake' \in BOOLEAN /\ inflight' \in Entry \cup {NoOp}
          /\ (IsOp(inflight') => IsOp(inflight) /\ inflight'.id = inflight.id)
      BY <1>1, <1>2, <2>2
    <3> QED BY <1>1, <1>2, <1>3, <2>2, <2>5, <3>1, StaysMoving
  <2>7. TypedWork'
    <3>1. IsFiniteSet(stored \cup N)
      BY <1>2, FS_AddElement
    <3>2. stored' \in SUBSET (stored \cup N)
      BY <2>2
    <3>3. IsFiniteSet(stored')
      BY <3>1, <3>2, FS_Subset
    <3> QED BY <1>1, <1>2, <2>2, <2>4, <3>2, <3>3 DEF TypedWork
  <2>8. ASSUME ~mixed' PROVE Clean'
    <3>1. /\ SoleRun /\ Work /\ RunsKept /\ ~mixed /\ Distinct(ops)
          /\ IsOp(inflight) => inflight \in InMemory /\ \A u \in ToSet(ops) : u.id # inflight.id
          /\ \A u \in ToSet(ops) : u \in InMemory
      BY <1>4, <2>8 DEF SoleRun, InMemory
    <3>2. \A u \in InMemory : u.id # e.id
      BY <1>4, <2>8
    <3>3. Distinct(ops') /\ (IsOp(inflight) => \A u \in ToSet(p) : u.id # inflight.id)
      BY <2>3, <2>5, <3>1, <3>2
    <3>4. IsOp(inflight) => inflight.id \notin ids
      BY <2>4, <3>3, IdsFacts
    <3>5. SoleRun' /\ RunsFollow
      <4>1. /\ Distinct(ops') /\ (IsOp(inflight') <=> IsOp(inflight))
            /\ IsOp(inflight) => /\ inflight'.id = inflight.id
                                 /\ inflight'.carries = inflight.carries
                                 /\ \A u \in ToSet(ops') : u.id # inflight.id
        BY <1>1, <2>5, <3>3
      <4> QED BY <1>1, <1>3, <3>1, <4>1, StaysClean
    <3>6. InMemory' = {u \in InMemory \cup N : u.id \notin ids}
      BY <1>1, <2>3, <2>5, <3>4 DEF InMemory
    <3>7. {u \in ToSet(p) : u.id \in ids} = {u \in InMemory \cup N : u.id \in ids}
      BY <2>3, <3>4 DEF InMemory
    <3>8. ids \subseteq Ids(InMemory \cup N)
      <4>1. Ids(ToSet(p)) \subseteq Ids(InMemory \cup N)
        BY <2>3, <3>1 DEF Ids
      <4> QED BY <2>4, <4>1
    <3>9. Work'
      <4>1. New1(N, e)
        BY <2>8 DEF New1
      <4>2. taken' = taken \cup Ids(N)
        BY <1>1 DEF Ids
      <4>3. settled' = settled \cup Carried({u \in InMemory \cup N : u.id \in ids})
        BY <2>2, <2>4, <3>7
      <4> HIDE DEF N
      <4> QED BY <2>2, <2>8, <3>1, <3>6, <3>8, <4>1, <4>2, <4>3, PutKeeps DEF IInv
    <3>10. RunsKept'
      <4>1. \A j \in Ids(InMemory' \cup stored') : j \in Ids(InMemory \cup stored) \/ j \notin taken
        <5>1. \A u \in InMemory' \cup stored' : u \in InMemory \cup stored \/ u = e
          BY <2>2, <3>6
        <5>2. e.id \notin taken
          BY <2>8
        <5> QED BY <5>1, <5>2, IdsFacts
      <4>2. Copies' /\ taken \subseteq taken'
        BY <1>1, <3>9 DEF Work
      <4> QED BY <1>2, <3>1, <3>5, <4>1, <4>2, RunsStayKept
    <3> QED BY <3>5, <3>9, <3>10 DEF Clean
  <2> QED BY <2>6, <2>7, <2>8 DEF IInv, Typed
<1> QED BY <1>5, <1>6

\* A mutation nobody had made before.
LEMMA NewFacts ==
    ASSUME IInv, NEW o \in Op, New(o)
    PROVE  /\ Built(o) \in Entry /\ Built(o).id = o /\ Built(o).carries = {o}
           /\ account \in Account /\ account # Nobody /\ owner[o] = Nobody
           /\ owner' \in [Op -> Account \cup {Nobody}]
           /\ owner' = [owner EXCEPT ![o] = account] /\ owner'[o] = account /\ OwnersKept
           /\ seq' \in Nat /\ account' = account /\ gen' = gen /\ reads' = reads
           /\ applied' = applied /\ mixed' = mixed /\ overtaken' = overtaken
           /\ reloads' = reloads
<1>1. /\ seq \in Nat /\ owner \in [Op -> Account \cup {Nobody}]
      /\ account \in Account \cup {Nobody}
  BY DEF IInv, Typed, TypedSession
<1>2. 0 \in 0..MaxAttempts
  BY OutboxConstants
<1>3. Built(o) \in Entry /\ Built(o).id = o /\ Built(o).carries = {o}
  BY <1>1, <1>2 DEF Built, Entry
<1> QED BY <1>1, <1>3 DEF New, OwnersKept

LEMMA SubmitQueuedKeeps ==
    ASSUME IInv, NEW o \in Op, SubmitQueued(o)
    PROVE  IInv'
<1>1. New(o) /\ Enqueue(Built(o)) /\ direct' = direct
  BY DEF SubmitQueued
<1> DEFINE e == Built(o)
<1>2. /\ e \in Entry /\ e.id = o /\ e.carries = {e.id} /\ account # Nobody
      /\ owner'[e.id] = account /\ OwnersKept /\ gen' = gen /\ account' = account
      /\ reads' = reads /\ overtaken' = overtaken /\ mixed' = mixed /\ owner[o] = Nobody
  BY <1>1, NewFacts
<1>3. TypedSession' /\ applied' \in SUBSET (Op \X Account)
  BY <1>1, NewFacts DEF IInv, Typed, TypedWork, TypedSession
<1>4. ASSUME ~mixed PROVE o \notin taken \cup settled /\ \A d \in direct' : d.op.id # o
  BY <1>1, <1>2, <1>4 DEF IInv, Clean, Work, Owned, DirectFresh
<1> HIDE DEF e
<1>5. Enqueue(e) /\ direct' \subseteq direct
  BY <1>1 DEF e
<1> QED BY <1>2, <1>3, <1>4, <1>5, EnqueueKeeps

\* What is sent at once touches neither the queue nor a run.
LEMMA AsideFacts ==
    ASSUME IInv, UNCHANGED <<queue, stored, control>>, gen' = gen
    PROVE  /\ TypedControl' /\ Moving' /\ InMemory' = InMemory
           /\ SoleRun => SoleRun'
           /\ RunsKept /\ taken' = taken => RunsKept'
<1>1. /\ ops' = ops /\ inflight' = inflight /\ stored' = stored /\ memo' = memo
      /\ draining' = draining /\ wake' = wake /\ run' = run
  BY DEF queue, control
<1>2. \A r \in Run : (Current(r)' <=> Current(r)) /\ (Claims(r)' <=> Claims(r))
                     /\ (Waiting(r)' <=> Waiting(r))
  BY <1>1 DEF Current, Claims, Waiting
<1>3. InMemory' = InMemory
  BY <1>1 DEF InMemory
<1>4. TypedControl'
  BY <1>1, <1>2 DEF IInv, Typed, TypedControl
<1>5. Moving'
  <2>1. memo # NoRun => memo \in Run
    BY DEF IInv, Typed, TypedControl
  <2>2. MemoIsCurrent'
    BY <1>1, <1>2, <2>1 DEF IInv, Moving, MemoIsCurrent
  <2> QED BY <1>1, <1>2, <2>2 DEF IInv, Moving, InflightOwned, QueueHasAWaker
<1> QED BY <1>1, <1>2, <1>3, <1>4, <1>5 DEF SoleRun, RunsKept

LEMMA SubmitDirectKeeps ==
    ASSUME IInv, NEW o \in Op, SubmitDirect(o)
    PROVE  IInv'
<1> DEFINE d == [op |-> Built(o), as |-> account, gen |-> gen]
<1>1. /\ New(o) /\ direct' = direct \cup {d}
      /\ UNCHANGED <<queue, stored, control>> /\ taken' = taken /\ settled' = settled
      /\ stored' = stored
  BY DEF SubmitDirect
<1>2. /\ account \in Account /\ account # Nobody /\ owner[o] = Nobody
      /\ Built(o) \in Entry /\ Built(o).id = o /\ Built(o).carries = {o}
      /\ owner' = [owner EXCEPT ![o] = account]
      /\ account' = account /\ gen' = gen /\ reads' = reads /\ overtaken' = overtaken
      /\ mixed' = mixed /\ applied' = applied
  BY <1>1, NewFacts
<1>3. d \in Request /\ d.op = Built(o) /\ d.gen = gen
  BY <1>2 DEF Request, IInv, Typed, TypedSession
<1> HIDE DEF d
<1>4. TypedControl' /\ Moving' /\ InMemory' = InMemory
  BY <1>1, <1>2, AsideFacts
<1>5. TypedSession' /\ TypedWork'
  <2>1. owner' \in [Op -> Account \cup {Nobody}] /\ seq' \in Nat /\ reloads' = reloads
    BY <1>1, NewFacts
  <2> QED BY <1>1, <1>2, <1>3, <2>1 DEF IInv, Typed, TypedWork, TypedSession
<1>6. ASSUME ~mixed PROVE Clean'
  <2>1. Work'
    BY <1>1, <1>2, <1>3, <1>4, <1>6, SentAtOnceKeeps DEF IInv, Clean
  <2> QED BY <1>1, <1>2, <1>6, <2>1, AsideFacts DEF IInv, Clean
<1> QED BY <1>2, <1>4, <1>5, <1>6 DEF IInv, Typed

LEMMA DirectAnsweredKeeps ==
    ASSUME IInv, NEW d \in direct, direct' = direct \ {d}, settled' = settled \cup {d.op.id},
           applied' = applied \/ applied' = applied \cup {<<d.op.id, d.as>>},
           UNCHANGED <<account, owner, queue, stored, seq, gen, control, reads, taken, mixed,
                       overtaken, reloads>>
    PROVE  IInv'
<1>1. d.op.id \in Op /\ d.as \in Account
  BY EntryFacts DEF IInv, Typed, TypedSession, Request
<1>2. TypedControl' /\ Moving' /\ InMemory' = InMemory
  BY AsideFacts
<1>3. TypedWork' /\ TypedSession'
  <2>1. <<d.op.id, d.as>> \in Op \X Account
    BY <1>1
  <2>2. applied' \in SUBSET (Op \X Account)
    BY <2>1 DEF IInv, Typed, TypedWork
  <2> QED BY <1>1, <2>2 DEF IInv, Typed, TypedWork, TypedSession
<1>4. ASSUME ~mixed PROVE Clean'
  <2>1. Work'
    BY <1>2, <1>4, AnsweredAtOnceKeeps DEF IInv, Clean
  <2> QED BY <1>4, <2>1, AsideFacts DEF IInv, Clean
<1> QED BY <1>2, <1>3, <1>4 DEF IInv, Typed

LEMMA DirectUnreachableKeeps ==
    ASSUME IInv, NEW d \in direct, NEW reached \in BOOLEAN, DirectUnreachable(d, reached)
    PROVE  IInv'
<1>1. /\ direct' = direct \ {d} /\ Enqueue(d.op) /\ mixed' = (mixed \/ d.gen # gen)
      /\ applied' = IF reached THEN applied \cup {<<d.op.id, d.as>>} ELSE applied
      /\ account' = account /\ owner' = owner /\ seq' = seq /\ gen' = gen /\ reads' = reads
      /\ overtaken' = overtaken /\ reloads' = reloads
  BY DEF DirectUnreachable
<1>2. /\ d.op \in Entry /\ d.op.id \in Op /\ d.as \in Account
  BY EntryFacts DEF IInv, Typed, TypedSession, Request
<1>3. TypedSession' /\ applied' \in SUBSET (Op \X Account)
  <2>1. <<d.op.id, d.as>> \in Op \X Account
    BY <1>2
  <2> QED BY <1>1, <2>1 DEF IInv, Typed, TypedWork, TypedSession
<1>4. ASSUME ~mixed'
      PROVE  /\ ~mixed /\ d.op.id \notin taken \cup settled /\ account # Nobody
             /\ owner'[d.op.id] = account /\ OwnersKept /\ d.op.carries = {d.op.id}
             /\ \A c \in direct' : c.op.id # d.op.id
  BY <1>1, <1>4 DEF IInv, Clean, Work, DirectFresh, OwnersKept
<1> QED BY <1>1, <1>2, <1>3, <1>4, EnqueueKeeps

LEMMA SignInKeepsAll ==
    ASSUME IInv, NEW a \in Account, SignIn(a)
    PROVE  IInv'
<1>1. /\ account = Nobody /\ account' = a /\ reads' = reads \cup {ReadStored(a, gen)}
      /\ UNCHANGED <<queue, stored, control>>
      /\ owner' = owner /\ stored' = stored /\ seq' = seq /\ gen' = gen /\ direct' = direct
      /\ applied' = applied /\ taken' = taken /\ settled' = settled /\ mixed' = mixed
      /\ overtaken' = overtaken /\ reloads' = reloads
  BY DEF SignIn
<1>2. TypedControl' /\ Moving' /\ InMemory' = InMemory
  BY <1>1, AsideFacts
<1>3. TypedWork' /\ TypedSession'
  <2>1. Stored(a) \in SUBSET stored /\ IsFiniteSet(stored) /\ stored \in SUBSET Entry
    BY DEF Stored, IInv, Typed, TypedWork
  <2>2. IsFiniteSet(Stored(a))
    BY <2>1, FS_Subset
  <2>3. ReadStored(a, gen) \in Read
    BY <2>1, <2>2 DEF ReadStored, Read, IInv, Typed, TypedSession
  <2> QED BY <1>1, <2>3 DEF IInv, Typed, TypedWork, TypedSession
<1>4. ASSUME ~mixed PROVE Clean'
  <2>1. Work'
    BY <1>1, <1>2, <1>4, SignInKeeps DEF IInv, Clean
  <2> QED BY <1>1, <1>4, <2>1, AsideFacts DEF IInv, Clean
<1> QED BY <1>1, <1>2, <1>3, <1>4 DEF IInv, Typed

\* The runs of the account that leaves have sent what has left with it.
LEMMA SignOutKeepsAll ==
    ASSUME IInv, SignOut
    PROVE  IInv'
<1>1. /\ account # Nobody /\ gen < MaxSessions /\ account' = Nobody
      /\ stored' = stored \ Stored(account) /\ settled' = settled \cup Carried(Stored(account))
      /\ owner' = owner /\ reads' = reads /\ direct' = direct /\ applied' = applied
      /\ taken' = taken /\ mixed' = mixed /\ overtaken' = overtaken /\ reloads' = reloads
      /\ ops' = <<>> /\ inflight' = NoOp /\ seq' = 0 /\ draining' = FALSE /\ wake' = FALSE
      /\ gen' = gen + 1 /\ memo' = NoRun /\ run' = run
  BY DEF SignOut, Reset
<1>2. TypedControl' /\ Moving'
  <2>1. run' \in [Run -> RunRecord] /\ \A r \in Run : Waiting(r)' => run'[r].op \in Entry
    BY <1>1 DEF IInv, Typed, TypedControl, Waiting
  <2> QED BY <1>1, <2>1, EmptyMoves
<1>3. TypedWork' /\ TypedSession'
  <2>1. stored' \in SUBSET stored /\ Stored(account) \subseteq stored
    BY <1>1 DEF Stored
  <2>2. IsFiniteSet(stored')
    BY <2>1, FS_Subset DEF IInv, Typed, TypedWork
  <2>3. gen' \in 0..MaxSessions
    BY <1>1, OutboxConstants DEF IInv, Typed, TypedSession
  <2>4. Carried(Stored(account)) \subseteq Op
    <3>1. \A e \in stored : e.carries \subseteq Op
      BY EntryFacts DEF IInv, Typed, TypedWork
    <3> QED BY <2>1, <3>1, CarriedFacts
  <2> QED BY <1>1, <2>1, <2>2, <2>3, <2>4 DEF IInv, Typed, TypedWork, TypedSession
<1>4. InMemory' = {}
  BY <1>1, EmptyFacts DEF InMemory, IsOp
<1>5. ASSUME ~mixed PROVE Clean'
  <2>1. SoleRun /\ Work /\ RunsKept
    BY <1>5 DEF IInv, Clean
  <2>2. gen \in Nat
    BY OutboxConstants DEF IInv, Typed, TypedSession
  <2>3. Work'
    BY <1>1, <1>4, <2>1, SignOutKeeps DEF IInv
  <2>4. \A r \in Run : Waiting(r)' => Waiting(r) /\ run[r].gen <= gen + 1 /\ run[r].gen # gen + 1
    <3>1. \A r \in Run : run[r].gen \in Nat
      BY OutboxConstants DEF IInv, Typed, TypedControl, RunRecord
    <3> QED BY <1>1, <2>1, <2>2, <3>1 DEF RunsKept, Waiting
  <2>5. SoleRun'
    <3>1. \A r \in Run : ~Current(r)'
      BY <1>1, <2>4 DEF Current
    <3> QED BY <1>1, <3>1, EmptyFacts DEF SoleRun, IsOp
  <2>6. RunsKept'
    <3>1. ASSUME NEW r \in Run, Waiting(r) PROVE run[r].op.id \notin Ids(stored')
      <4>1. ASSUME NEW s \in stored', s.id = run[r].op.id PROVE FALSE
        <5>1. s \in stored /\ owner[s.id] # account
          BY <1>1 DEF Stored
        <5>2. CASE Current(r)
          <6>1. Claims(r)
            BY <2>1, <5>2 DEF SoleRun
          <6>2. inflight \in InMemory /\ inflight.id = run[r].op.id
            BY <6>1 DEF Claims, InMemory
          <6> QED BY <2>1, <4>1, <5>1, <6>2 DEF Work, Owned
        <5>3. CASE ~Current(r)
          <6>1. run[r].op.id \notin Ids(InMemory \cup stored)
            BY <2>1, <3>1, <5>3 DEF RunsKept
          <6> QED BY <4>1, <5>1, <6>1, IdsFacts
        <5> QED BY <5>2, <5>3
      <4> QED BY <4>1, IdsFacts
    <3> QED BY <1>1, <1>4, <2>1, <2>4, <3>1 DEF RunsKept
  <2> QED BY <2>3, <2>5, <2>6 DEF Clean
<1> QED BY <1>1, <1>2, <1>3, <1>5 DEF IInv, Typed

LEMMA ReloadKeepsAll ==
    ASSUME IInv, Reload
    PROVE  IInv'
<1>1. /\ reloads < MaxReloads /\ reloads' = reloads + 1
      /\ ops' = <<>> /\ inflight' = NoOp /\ seq' = 0 /\ memo' = NoRun /\ draining' = FALSE
      /\ wake' = FALSE /\ run' = [r \in Run |-> IdleRun] /\ direct' = {}
      /\ reads' = IF account = Nobody THEN {} ELSE {ReadStored(account, gen)}
      /\ account' = account /\ owner' = owner /\ stored' = stored /\ gen' = gen
      /\ taken' = taken /\ settled' = settled /\ mixed' = mixed /\ overtaken' = overtaken
  BY DEF Reload
<1>2. \A r \in Run : run'[r] \in RunRecord /\ ~Waiting(r)'
  BY <1>1, IdleRunFacts DEF Waiting
<1>3. run' \in [Run -> RunRecord]
  BY <1>1, IdleRunFacts
<1>4. TypedControl' /\ Moving'
  BY <1>1, <1>2, <1>3, EmptyMoves
<1>5. OnTheWire \subseteq Op \X Account
  <2>1. \A d \in direct : d.op.id \in Op /\ d.as \in Account
    BY EntryFacts DEF IInv, Typed, TypedSession, Request
  <2>2. ASSUME NEW r \in Run, run[r].at = "wire", run[r].as # Nobody
        PROVE  run[r].as \in Account /\ run[r].op.carries \subseteq Op
    <3>1. run[r] \in RunRecord /\ run[r].op \in Entry
      BY <2>2 DEF IInv, Typed, TypedControl, Waiting
    <3> QED BY <2>2, <3>1, EntryFacts DEF RunRecord
  <2> QED BY <2>1, <2>2 DEF OnTheWire
<1>6. applied' \in SUBSET (Op \X Account)
  BY <1>5 DEF Reload, IInv, Typed, TypedWork
<1>7. TypedWork' /\ TypedSession'
  <2>1. Stored(account) \in SUBSET stored /\ IsFiniteSet(stored) /\ stored \in SUBSET Entry
    BY DEF Stored, IInv, Typed, TypedWork
  <2>2. IsFiniteSet(Stored(account))
    BY <2>1, FS_Subset
  <2>3. ReadStored(account, gen) \in Read
    BY <2>1, <2>2 DEF ReadStored, Read, IInv, Typed, TypedSession
  <2>4. reloads' \in 0..MaxReloads
    BY <1>1, OutboxConstants DEF IInv, Typed, TypedSession
  <2> QED BY <1>1, <1>6, <2>3, <2>4 DEF IInv, Typed, TypedWork, TypedSession
<1>8. InMemory' = {}
  BY <1>1, EmptyFacts DEF InMemory, IsOp
<1>9. ASSUME ~mixed PROVE Clean'
  <2>1. Work'
    BY <1>1, <1>8, <1>9, ReloadKeeps DEF IInv, Clean
  <2>2. SoleRun' /\ RunsKept'
    BY <1>1, <1>2, EmptyFacts DEF SoleRun, RunsKept, Current, IsOp
  <2> QED BY <2>1, <2>2 DEF Clean
<1> QED BY <1>1, <1>4, <1>7, <1>9 DEF IInv, Typed

LEMMA HydrateKeepsAll ==
    ASSUME IInv, NEW h \in reads, Hydrate(h)
    PROVE  IInv'
<1>1. /\ reads' = reads \ {h} /\ account' = account /\ owner' = owner /\ gen' = gen
      /\ direct' = direct /\ applied' = applied /\ taken' = taken /\ mixed' = mixed
      /\ reloads' = reloads
  BY DEF Hydrate
<1>2. CASE h.gen # gen \/ h.rows = {}
  <2>1. /\ UNCHANGED <<queue, stored, control>> /\ seq' = seq /\ settled' = settled
        /\ overtaken' = overtaken /\ stored' = stored
    BY <1>2 DEF Hydrate
  <2>2. TypedControl' /\ Moving' /\ InMemory' = InMemory
    BY <1>1, <2>1, AsideFacts
  <2>3. TypedWork' /\ TypedSession'
    BY <1>1, <2>1 DEF IInv, Typed, TypedWork, TypedSession
  <2>4. ASSUME ~mixed PROVE Clean'
    <3>1. Work /\ Remembered'
      <4>1. \A o : ~(h.gen = gen /\ o \in Ids(h.rows))
        BY <1>2 DEF Ids
      <4>2. Work
        BY <2>4 DEF IInv, Clean
      <4>3. \A e \in stored : owner[e.id] = account =>
              \/ e.id \in Ids(InMemory)
              \/ \E g \in reads \ {h} : g.gen = gen /\ e.id \in Ids(g.rows)
              \/ e.carries \cap overtaken # {}
        BY <4>1, <4>2 DEF Work, Remembered, Stored
      <4>4. account' = account /\ owner' = owner /\ gen' = gen /\ overtaken' = overtaken
            /\ stored' = stored /\ reads' = reads \ {h} /\ InMemory' = InMemory
        BY <1>1, <2>1, <2>2
      <4> QED BY <4>2, <4>3, <4>4 DEF Remembered, Stored
    <3>2. ReadsFresh' /\ Copies' /\ Owned' /\ DirectFresh' /\ Safe' /\ SentOnce'
      <4>1. /\ account' = account /\ owner' = owner /\ gen' = gen /\ settled' = settled
            /\ stored' = stored /\ reads' \subseteq reads /\ InMemory' = InMemory
            /\ taken' = taken /\ direct' = direct
        BY <1>1, <2>1, <2>2
      <4>2. ReadsFresh'
        BY <3>1, <4>1 DEF Work, ReadsFresh
      <4> QED BY <3>1, <4>1, <4>2 DEF Work, Copies, Owned, DirectFresh, Safe, SentOnce
    <3> QED BY <1>1, <2>1, <2>4, <3>1, <3>2, AsideFacts DEF IInv, Clean, Work
  <2> QED BY <1>1, <2>2, <2>3, <2>4 DEF IInv, Typed
<1>3. CASE h.gen = gen /\ h.rows # {}
  <2> DEFINE rows == {e \in h.rows : ~IsOp(inflight) \/ e.id # inflight.id}
             S == {seq} \cup {e.seq : e \in h.rows}
  <2>0. PICK q \in InOrder(rows) : \E n \in 0..Len(q) :
           /\ seq' = Max(S) /\ stored' = StoredWithout(Doomed(q, n))
           /\ settled' = settled \cup Expired(q, Doomed(q, n))
           /\ overtaken' = overtaken \cup Carried(ToSet(ops))
           /\ Drain(Filtered(q, Doomed(q, n)), wake)
    BY <1>3 DEF Hydrate
  <2>1. PICK n \in 0..Len(q) :
           /\ seq' = Max(S) /\ stored' = StoredWithout(Doomed(q, n))
           /\ settled' = settled \cup Expired(q, Doomed(q, n))
           /\ overtaken' = overtaken \cup Carried(ToSet(ops))
           /\ Drain(Filtered(q, Doomed(q, n)), wake)
    BY <2>0
  <2> DEFINE ids == Doomed(q, n)
             p == Filtered(q, ids)
  <2>2. h.rows \in SUBSET Entry /\ IsFiniteSet(h.rows)
    BY DEF IInv, Typed, TypedSession, Read
  <2>3. rows \in SUBSET h.rows /\ rows \in SUBSET Entry /\ IsFiniteSet(rows)
    <3>1. rows \in SUBSET h.rows
      OBVIOUS
    <3> HIDE DEF rows
    <3> QED BY <2>2, <3>1, FS_Subset
  <2>4. seq' \in Nat
    <3>1. \A e \in h.rows : e.seq \in Nat
      BY <2>2, EntryFacts
    <3>2. IsFiniteSet({e.seq : e \in h.rows})
      <4> DEFINE T == {e.seq : e \in h.rows}
                 f == [e \in h.rows |-> e.seq]
      <4>1. f \in Surjection(h.rows, T)
        BY DEF Surjection
      <4> HIDE DEF T, f
      <4> QED BY <2>2, <4>1, FS_Surjection DEF T
    <3>3. S \in SUBSET Nat /\ S # {}
      BY <3>1 DEF IInv, Typed, TypedSession
    <3>4. IsFiniteSet(S)
      <4>1. S = {e.seq : e \in h.rows} \cup {seq}
        OBVIOUS
      <4> QED BY <3>2, <4>1, FS_AddElement
    <3> HIDE DEF S
    <3>5. Max(S) \in S
      BY <3>3, <3>4, MaxIsGreatest
    <3> QED BY <2>1, <3>3, <3>5
  <2> HIDE DEF rows, S
  <2>5. q \in Seq(Entry)
    <3>1. Cardinality(rows) \in Nat
      BY <2>3, FS_CardinalityType
    <3>2. q \in [1..Cardinality(rows) -> Entry]
      BY <2>1, <2>3 DEF InOrder
    <3> QED BY <3>1, <3>2
  <2>6. /\ ids \subseteq Ids(ToSet(q)) /\ Expired(q, ids) \subseteq Op
        /\ Expired(q, ids) = Carried({u \in ToSet(q) : u.id \in ids})
    BY <2>5, DoomedFacts
  <2>7. /\ stored' = StoredWithout(ids) /\ settled' = settled \cup Expired(q, ids)
        /\ Drain(p, wake) /\ overtaken' = overtaken \cup Carried(ToSet(ops))
    BY <2>1
  <2> HIDE DEF ids
  <2>8. /\ p \in Seq(Entry) /\ ToSet(p) = {e \in ToSet(q) : e.id \notin ids}
        /\ Distinct(q) => Distinct(p)
    BY <2>5, FilteredFacts
  <2> HIDE DEF p
  <2>9. TypedControl' /\ Moving'
    BY <1>1, <2>7, <2>8, DrainMoves DEF IInv, Typed, TypedControl
  <2>10. TypedWork' /\ TypedSession'
    <3>1. stored' \in SUBSET stored /\ IsFiniteSet(stored)
      BY <2>7 DEF StoredWithout, IInv, Typed, TypedWork
    <3>2. IsFiniteSet(stored')
      BY <3>1, FS_Subset
    <3>3. Carried(ToSet(ops)) \subseteq Op
      <4>1. \A e \in ToSet(ops) : e.carries \subseteq Op
        BY SeqParts, EntryFacts DEF IInv, Typed, TypedControl
      <4> QED BY <4>1, CarriedFacts
    <3> QED BY <1>1, <2>4, <2>6, <2>7, <3>1, <3>2, <3>3 DEF IInv, Typed, TypedWork, TypedSession
  <2>11. ASSUME ~mixed PROVE Clean'
    <3>1. SoleRun /\ Work /\ RunsKept /\ Typed
      BY <2>11 DEF IInv, Clean
    <3>2. /\ h.rows \subseteq stored /\ \A e \in h.rows : e.id \notin Ids(InMemory)
      BY <1>3, <3>1 DEF Work, ReadsFresh
    <3>3. IsOp(inflight) => \A e \in h.rows : e.id # inflight.id
      BY <3>2, IdsFacts DEF InMemory
    <3>4. rows = h.rows /\ \A e, f \in h.rows : e.id = f.id => e = f
      BY <3>1, <3>2, <3>3 DEF rows, Work, Copies
    <3>5. ToSet(q) = h.rows /\ Distinct(q)
      BY <2>1, <2>3, <3>4, InOrderFacts
    <3>6. SoleRun' /\ InMemory' = ToSet(p) \cup InFlight /\ RunsFollow
      <4>1. Distinct(p) /\ (IsOp(inflight) => \A e \in ToSet(p) : e.id # inflight.id)
        BY <2>8, <3>3, <3>5
      <4> QED BY <1>1, <2>7, <2>8, <3>1, <4>1, DrainClean DEF IInv, Typed
    <3>7. Work'
      <4>1. InMemory' = {u \in h.rows : u.id \notin ids}
                            \cup (IF IsOp(inflight) THEN {inflight} ELSE {})
        BY <2>8, <3>5, <3>6 DEF InFlight
      <4>2. stored' = {u \in stored : u.id \notin ids} /\ ids \subseteq Ids(h.rows)
        BY <2>6, <2>7, <3>5 DEF StoredWithout
      <4>3. settled' = settled \cup Carried({u \in h.rows : u.id \in ids})
        BY <2>6, <2>7, <3>5
      <4> QED BY <1>1, <1>3, <2>7, <3>1, <4>1, <4>2, <4>3, HydrateKeeps
    <3>8. RunsKept'
      <4>1. \A u \in InMemory' \cup stored' : u \in InMemory \cup stored
        BY <2>7, <2>8, <3>2, <3>5, <3>6 DEF InMemory, InFlight, StoredWithout
      <4>2. \A i \in Ids(InMemory' \cup stored') : i \in Ids(InMemory \cup stored)
        BY <4>1, IdsFacts
      <4>3. Copies' /\ gen \in Nat /\ taken \subseteq taken'
        BY <1>1, <3>7, OutboxConstants DEF Work, IInv, Typed, TypedSession
      <4> QED BY <1>1, <3>1, <3>6, <4>2, <4>3, RunsStayKept
    <3> QED BY <3>6, <3>7, <3>8 DEF Clean
  <2> QED BY <1>1, <2>9, <2>10, <2>11 DEF IInv, Typed
<1> QED BY <1>2, <1>3

LEMMA StepKeeps == IInv /\ [Next]_vars => IInv'
<1> SUFFICES ASSUME IInv, [Next]_vars PROVE IInv'
  OBVIOUS
<1>1. ASSUME NEW o \in Op, SubmitQueued(o) \/ SubmitDirect(o) PROVE IInv'
  BY <1>1, SubmitQueuedKeeps, SubmitDirectKeeps
<1>2. ASSUME NEW d \in direct, DirectStep(d) PROVE IInv'
  BY <1>2, DirectAnsweredKeeps, DirectUnreachableKeeps
     DEF DirectStep, DirectAnswered, DirectRefused
<1>3. ASSUME NEW r \in Run, RunStep(r) PROVE IInv'
  BY <1>3, RunStepKeeps
<1>4. ASSUME DrainCalled PROVE IInv'
  <2>1. wake \in BOOLEAN
    BY DEF IInv, Typed, TypedControl
  <2> QED BY <1>4, <2>1, DrainKeeps DEF DrainCalled
<1>5. ASSUME WakeFires PROVE IInv'
  <2>1. FALSE \in BOOLEAN
    OBVIOUS
  <2> QED BY <1>5, <2>1, DrainKeeps DEF WakeFires
<1>6. ASSUME NEW a \in Account, SignIn(a) PROVE IInv'
  BY <1>6, SignInKeepsAll
<1>7. ASSUME NEW h \in reads, Hydrate(h) PROVE IInv'
  BY <1>7, HydrateKeepsAll
<1>8. ASSUME SignOut PROVE IInv'
  BY <1>8, SignOutKeepsAll
<1>9. ASSUME Reload PROVE IInv'
  BY <1>9, ReloadKeepsAll
<1>10. ASSUME UNCHANGED vars PROVE IInv'
  <2>1. /\ UNCHANGED <<queue, stored, control>> /\ gen' = gen /\ RunUnchanged
        /\ stored' = stored /\ settled' = settled /\ applied' = applied /\ mixed' = mixed
        /\ taken' = taken /\ run' = run
    BY <1>10 DEF vars, control, RunUnchanged
  <2>2. TypedControl' /\ Moving' /\ InMemory' = InMemory /\ (SoleRun => SoleRun') /\ RunsFollow
    BY <2>1, AsideFacts DEF RunsFollow, Waiting
  <2> QED BY <2>1, <2>2, QuietKeeps DEF IInv, Typed, TypedWork, TypedSession, Clean
<1> QED BY <1>1, <1>2, <1>3, <1>4, <1>5, <1>6, <1>7, <1>8, <1>9, <1>10 DEF Next

LEMMA Invariance == Spec => []IInv
  BY InitKeeps, StepKeeps, PTL DEF Spec

-----------------------------------------------------------------------------
(* The theorems.                                                             *)

\* A run moves alone.
LEMMA OthersStay ==
    ASSUME TypedControl, NEW s \in Run, RunStep(s), NEW t \in Run, t # s
    PROVE  run'[t] = run[t]
<1> DEFINE Moved == \E x : run' = [run EXCEPT ![s] = x]
<1>1. Moved => run'[t] = run[t]
  BY DEF TypedControl
<1>2. End(s) => Moved
  BY DEF End
<1>3. \A q : Claim(s, q) => Moved
  BY DEF Claim
<1>4. \A q, f : Loop(s, q, f) => Moved
  BY <1>2, <1>3 DEF Loop
<1>5. \A ids : Forget(s, ids) => Moved
  BY <1>4 DEF Forget
<1>6. Abandon(s) \/ Break(s) => Moved
  BY <1>2 DEF Abandon, Break
<1>7. ASSUME NEW found \in BOOLEAN, BoardRead(s, found) PROVE run'[t] = run[t]
  BY <1>1, <1>6, <1>7 DEF BoardRead, TypedControl
<1>8. ASSUME Rekeyed(s) PROVE run'[t] = run[t]
  BY <1>8 DEF Rekeyed, TypedControl
<1>9. ASSUME NEW at \in {"sleep", "refresh"}, Retried(s, at) PROVE run'[t] = run[t]
  BY <1>9 DEF Retried, TypedControl
<1> HIDE DEF Moved
<1> QED BY <1>1, <1>4, <1>5, <1>6, <1>7, <1>8, <1>9
        DEF RunStep, Stale, Unreachable, Halted, Accepted, Landed, Rejected, Gone, Resumed

\* The only way out of an abandoned run.
LEMMA AbandonedStep ==
    ASSUME TypedControl, NEW r \in Run, RunStep(r), ~Current(r), ~Waiting(r)'
    PROVE  Abandon(r) /\ stored' = stored /\ settled' = settled /\ seq' = seq
<1>1. ASSUME Rekeyed(r) PROVE FALSE
  <2>1. run'[r].at = "wire"
    BY <1>1 DEF Rekeyed, TypedControl
  <2> QED BY <2>1 DEF Waiting
<1> QED BY <1>1 DEF RunStep, BoardRead, Stale, Unreachable, Halted, Accepted, Landed, Rejected,
                    Gone, Retried, Resumed, Answered, RunUnchanged

\* outbox.svelte.ts: the queue in memory, its durable copy and what waits on an
\* answer keep their types.
THEOREM TypesHold == Spec => []TypeOK
<1>1. IInv => TypeOK
  <2> SUFFICES ASSUME IInv PROVE TypeOK
    OBVIOUS
  <2>1. ToSet(ops) \subseteq Entry
    BY SeqParts DEF IInv, Typed, TypedControl
  <2>2. \A r \in Run :
          /\ run[r].at \in {"idle", "board", "rekey", "wire", "sleep", "refresh"}
          /\ run[r].gen \in 0..MaxSessions /\ run[r].op \in Entry \cup {NoOp}
          /\ run[r].as \in Account \cup {Nobody}
    BY DEF IInv, Typed, TypedControl, RunRecord
  <2>3. \A h \in reads : h.gen \in 0..MaxSessions /\ h.rows \subseteq Entry
    BY DEF IInv, Typed, TypedSession, Read
  <2>4. \A d \in direct : d.op \in Entry /\ d.as \in Account
    BY DEF IInv, Typed, TypedSession, Request
  <2> QED BY <2>1, <2>2, <2>3, <2>4
          DEF TypeOK, IInv, Typed, TypedControl, TypedWork, TypedSession
<1> QED BY <1>1, Invariance, PTL

\* outbox.svelte.ts:206-211, 714-727: what the queue has taken and nobody has
\* answered, reported or signed out of is in its durable copy, through merges,
\* claims, retries, reloads and a cut-down queue.
THEOREM WorkIsDurable == Spec => []NothingLost
<1>1. IInv => NothingLost
  BY DEF IInv, Clean, Work, Safe, NothingLost
<1> QED BY <1>1, Invariance, PTL

\* outbox.svelte.ts:18-20: what is stored for the account is in its queue in memory
\* or about to be read into it, unless a stored queue overtook it.
THEOREM StoredWorkComes == Spec => []NothingForgotten
<1>1. IInv => NothingForgotten
  <2> SUFFICES ASSUME IInv, ~mixed, NEW e \in Stored(account)
               PROVE  \/ \E u \in ToSet(Unsent) : u.id = e.id
                      \/ \E h \in reads : h.gen = gen /\ e.id \in {x.id : x \in h.rows}
                      \/ e.carries \cap overtaken # {}
    BY DEF NothingForgotten
  <2>1. \/ e.id \in Ids(InMemory)
        \/ \E h \in reads : h.gen = gen /\ e.id \in Ids(h.rows)
        \/ e.carries \cap overtaken # {}
    BY DEF IInv, Clean, Work, Remembered
  <2>2. e.id \in Ids(InMemory) => \E u \in ToSet(Unsent) : u.id = e.id
    BY UnsentIsInMemory, IdsFacts DEF IInv, Typed
  <2> QED BY <2>1, <2>2 DEF Ids
<1> QED BY <1>1, Invariance, PTL

\* outbox.svelte.ts:714-720: a mutation that was answered is neither in memory nor
\* stored any more, whatever entry carried it.
THEOREM AnsweredIsGone == Spec => []NeverResent
<1>1. IInv => NeverResent
  BY UnsentIsInMemory DEF IInv, Typed, Clean, Work, SentOnce, NeverResent
<1> QED BY <1>1, Invariance, PTL

\* outbox.svelte.ts:83-84, 463-469: at most one run of the current account is live,
\* and it sends the operation that is claimed.
THEOREM OneRunSends == Spec => []OneSender
<1>1. IInv => OneSender
  <2> SUFFICES ASSUME IInv, ~mixed, NEW r \in Run, NEW q \in Run, Current(r), Current(q)
               PROVE  r = q /\ Claims(r) /\ \A i \in DOMAIN ops : ops[i].id # run[r].op.id
    BY DEF OneSender
  <2>1. r = q /\ Claims(r) /\ IsOp(inflight) /\ inflight.id = run[r].op.id
        /\ \A e \in ToSet(ops) : e.id # inflight.id
    BY DEF IInv, Clean, SoleRun, Claims
  <2>2. \A i \in DOMAIN ops : ops[i] \in ToSet(ops)
    BY SeqParts DEF IInv, Typed, TypedControl
  <2> QED BY <2>1, <2>2
<1> QED BY <1>1, Invariance, PTL

\* outbox.svelte.ts:447-449, 761-765: unsent work has a current run or a timer
\* behind it, whatever earlier accounts have left waiting.
THEOREM QueueMoves == Spec => []QueueHasAWaker
<1>1. IInv => QueueHasAWaker
  BY DEF IInv, Moving
<1> QED BY <1>1, Invariance, PTL

\* outbox.svelte.ts:763-766: a run that an earlier account has left unwinds without
\* touching the queue, in memory or in storage.
THEOREM AbandonedRunsDoNotWrite == Spec => AbandonedRunsAreSilent
<1> DEFINE P == ~mixed => \A r \in Run :
                   Waiting(r) /\ ~Current(r) /\ ~Waiting(r)' /\ reloads' = reloads =>
                   UNCHANGED <<queue, stored, settled, seq>>
<1>1. IInv /\ [Next]_vars => [P]_vars
  <2> SUFFICES ASSUME IInv, Next, ~mixed, NEW r \in Run, Waiting(r), ~Current(r), ~Waiting(r)',
                      reloads' = reloads
               PROVE  UNCHANGED <<queue, stored, settled, seq>>
    OBVIOUS
  <2>1. ~Claims(r)
    <3>1. run[r].op.id \notin Ids(InMemory \cup stored)
      BY DEF IInv, Clean, RunsKept
    <3>2. IsOp(inflight) => inflight.id # run[r].op.id
      BY <3>1, IdsFacts DEF InMemory
    <3> QED BY <3>2 DEF Claims
  <2>2. PICK s \in Run : RunStep(s)
    <3>1. run'[r] # run[r] /\ run' # run
      BY DEF Waiting
    <3>2. ~\E q : \E w : Drain(q, w)
      <4>1. ASSUME NEW q, NEW w, Drain(q, w) PROVE run'[r] = run[r]
        <5>1. run' = run \/ \E s \in Run : ~Waiting(s) /\ Claim(s, q)
          BY <4>1 DEF Drain
        <5>2. ASSUME NEW s \in Run, ~Waiting(s), Claim(s, q) PROVE run'[r] = run[r]
          BY <5>2 DEF Claim, IInv, Typed, TypedControl
        <5> QED BY <5>1, <5>2
      <4> QED BY <3>1, <4>1
    <3>3. ~\E o \in Op : SubmitQueued(o) \/ SubmitDirect(o)
      BY <3>1 DEF SubmitQueued, SubmitDirect, Enqueue, control
    <3>4. ~\E d \in direct : DirectStep(d)
      BY <3>1 DEF DirectStep, DirectAnswered, DirectRefused, DirectUnreachable, Enqueue, control
    <3>5. ~DrainCalled /\ ~WakeFires /\ ~\E h \in reads : Hydrate(h)
      BY <3>1, <3>2 DEF DrainCalled, WakeFires, Hydrate, control
    <3>6. ~SignOut /\ ~\E a \in Account : SignIn(a)
      BY <3>1 DEF SignOut, Reset, SignIn, control
    <3>7. ~Reload
      BY OutboxConstants DEF Reload, IInv, Typed, TypedSession
    <3> QED BY <3>3, <3>4, <3>5, <3>6, <3>7 DEF Next
  <2>3. s = r
    BY <2>2, OthersStay DEF Waiting, IInv, Typed
  <2>4. Abandon(r) /\ stored' = stored /\ settled' = settled /\ seq' = seq
    BY <2>2, <2>3, AbandonedStep DEF IInv, Typed
  <2> QED BY <2>1, <2>4 DEF Abandon, Released, Unclaimed, queue
<1>2. AbandonedRunsAreSilent <=> [][P]_vars
  BY DEF AbandonedRunsAreSilent
<1> HIDE DEF P
<1> QED BY <1>1, <1>2, Invariance, PTL DEF Spec
=============================================================================
