--------------------------- MODULE TxSchedulerProofs ---------------------------
(***************************************************************************)
(* The scheduler for any catalog, any table, queue capacity, gap and       *)
(* length of a pass.                                                       *)
(***************************************************************************)
EXTENDS TxScheduler, FiniteSetTheorems, SequenceTheorems, TLAPS

-----------------------------------------------------------------------------
(* Natural numbers: what the provers need of them beyond arithmetic.       *)

(* A set of natural numbers that is not empty has a least element.         *)
LEMMA NatLeast ==
  ASSUME NEW S \in SUBSET Nat, S # {}
  PROVE  \E x \in S : \A y \in S : x <= y
<1>1. PICK x \in S : \A y \in S : ~ (<<y, x>> \in OpToRel(<, Nat))
  BY NatLessThanWellFounded, WFMin
<1>2. ASSUME NEW y \in S PROVE x <= y
  <2>1. ~ (<<y, x>> \in OpToRel(<, Nat)) /\ <<y, x>> \in Nat \X Nat
    BY <1>1
  <2> QED
    BY <2>1 DEF OpToRel
<1> QED
  BY <1>2

(* Induction over the natural numbers, stated with a set.                  *)
LEMMA SetInduction ==
  ASSUME NEW S \in SUBSET Nat, 0 \in S, \A n \in S : n + 1 \in S
  PROVE  S = Nat
<1>1. SUFFICES ASSUME Nat \ S # {} PROVE FALSE
  OBVIOUS
<1>2. PICK x \in Nat \ S : \A y \in Nat \ S : x <= y
  BY <1>1, NatLeast
<1>3. x # 0 /\ x - 1 \in Nat
  BY <1>2
<1>4. x - 1 \in S
  BY <1>2, <1>3
<1> QED
  BY <1>2, <1>3, <1>4

(* What Min picks.                                                         *)
LEMMA MinIs ==
  ASSUME NEW S \in SUBSET Nat, S # {}
  PROVE  Min(S) \in S /\ \A y \in S : Min(S) <= y
BY NatLeast DEF Min

(* What Max picks, if the set has a bound.                                 *)
LEMMA MaxIs ==
  ASSUME NEW S \in SUBSET Nat, S # {}, NEW n \in Nat, \A x \in S : x <= n
  PROVE  Max(S) \in S /\ \A y \in S : y <= Max(S)
<1> DEFINE T == {n - x : x \in S}
<1>1. T \in SUBSET Nat /\ T # {}
  <2>1. \A x \in S : n - x \in Nat
    OBVIOUS
  <2> QED
    BY <2>1
<1>2. PICK m \in T : \A y \in T : m <= y
  BY <1>1, NatLeast
<1>3. PICK x \in S : m = n - x
  BY <1>2
<1>4. ASSUME NEW y \in S PROVE x >= y
  <2>1. n - y \in T
    OBVIOUS
  <2>2. n - x <= n - y
    BY <1>2, <1>3, <2>1
  <2> QED
    BY <2>2
<1>5. Max(S) \in S /\ \A y \in S : Max(S) >= y
  BY <1>3, <1>4 DEF Max
<1> QED
  BY <1>5

(* The longest period of a finite catalog.                                 *)
LEMMA PeriodsBounded ==
  /\ MaxPeriod \in Nat \ {0} /\ \A p \in PGNs : Period[p] <= MaxPeriod
<1> DEFINE Bounded(T) == \E b \in Nat : \A p \in T : Period[p] <= b
           R == StrictSubsetOrdering(PGNs)
           Bad == {T \in SUBSET PGNs : ~Bounded(T)}
<1>0. IsFiniteSet(PGNs) /\ PGNs # {} /\ Period \in [PGNs -> Nat \ {0}]
  BY SchedulerAssumption
<1>1. Bounded(PGNs)
  <2>1. SUFFICES ASSUME Bad # {} PROVE FALSE
    OBVIOUS
  <2>2. Bad \subseteq FiniteSubsetsOf(PGNs)
    BY <1>0, FS_FiniteSubsetsOfFinite
  <2>3. PICK T \in Bad : \A U \in Bad : <<U, T>> \notin R
    BY <2>1, <2>2, FS_StrictSubsetOrderingWellFounded, WFMin
  <2>4. T # {}
    BY <2>3
  <2>5. PICK x \in T : TRUE
    BY <2>4
  <2>6. <<T \ {x}, T>> \in R
    BY <2>3, <2>5 DEF StrictSubsetOrdering
  <2>7. PICK b \in Nat : \A p \in T \ {x} : Period[p] <= b
    BY <2>3, <2>6
  <2>8. PICK c \in Nat : c >= b /\ c >= Period[x]
    BY <1>0, <2>3
  <2>9. \A p \in T : Period[p] <= c
    BY <1>0, <2>3, <2>7, <2>8
  <2> QED
    BY <2>3, <2>9
<1>2. PICK b \in Nat : \A p \in PGNs : Period[p] <= b
  BY <1>1
<1> DEFINE Ps == {Period[p] : p \in PGNs}
<1>3. Ps \in SUBSET Nat /\ Ps # {} /\ \A x \in Ps : x <= b
  BY <1>0, <1>2
<1>4. Max(Ps) \in Ps /\ \A y \in Ps : y <= Max(Ps)
  BY <1>3, MaxIs
<1> QED
  BY <1>0, <1>4 DEF MaxPeriod

-----------------------------------------------------------------------------
(* Time: within these bounds a difference of time stamps is the signed     *)
(* difference of two times.                                                *)

Half == TimeModulus \div 2

(* What the assumptions on the constants say, as separate facts.           *)
LEMMA Constants ==
  /\ TimeModulus \in Nat /\ TimeModulus = 2 * Half /\ Half \in Nat
  /\ MaxPass \in Nat /\ MaxPass >= 1 /\ Ancient \in Nat
  /\ Ancient <= Half /\ Ancient = MaxPeriod + 2 * MaxPass /\ MaxPeriod \in Nat
  /\ \A p \in PGNs : Period[p] \in Nat /\ Period[p] >= 1 /\ Period[p] <= MaxPeriod
  /\ QueueCapacity \in Nat /\ QueueCapacity >= 1
  /\ Gap \in Nat /\ Gap >= 1 /\ AbortLate \in Nat /\ AbortLate >= 1
BY SchedulerAssumption, PeriodsBounded DEF Ancient, Half

(* A difference of less than half a turn of the clock is read with its     *)
(* sign.                                                                   *)
LEMMA SignedIs ==
  ASSUME NEW x \in Int, - Half <= x, x < Half
  PROVE  Signed(x) = x
<1>1. x + Half \in 0..TimeModulus - 1
  BY Constants
<1>2. (x + Half) % TimeModulus = x + Half
  BY <1>1, Constants
<1> QED
  BY <1>2, Constants DEF Signed, Half

(* Every other one is read as something in that range.                     *)
LEMMA SignedType ==
  ASSUME NEW x \in Int
  PROVE  Signed(x) \in - Half .. Half - 1
<1>1. TimeModulus > 0
  BY Constants
<1>2. (x + Half) % TimeModulus \in 0..TimeModulus - 1
  BY <1>1, Constants
<1> QED
  BY <1>2, Constants DEF Signed, Half

(* The comparison of the code is right for times less than half a turn     *)
(* away.                                                                   *)
LEMMA ReachedIs ==
  ASSUME NEW age \in Int, behind \in Int, - Half <= age - behind, age - behind < Half
  PROVE  Reached(age) <=> age >= behind
BY SignedIs, Constants DEF Reached

-----------------------------------------------------------------------------
(* The table J1939_Sched_Clear and the rebuild of a commit leave: each PGN *)
(* of the configuration once.                                              *)

Distinct(t) == \A i, j \in DOMAIN t : t[i] = t[j] => i = j
Enumerates(t, pgns) ==
  t \in Seq(PGNs) /\ Distinct(t) /\ {t[i] : i \in DOMAIN t} = pgns

(* Any set of PGNs has a sequence in the catalog's order.                  *)
LEMMA CatalogOrderExists ==
  ASSUME NEW pgns \in SUBSET PGNs
  PROVE  /\ Cardinality(pgns) \in Nat
         /\ \E t \in [1 .. Cardinality(pgns) -> pgns] :
              \A i, j \in DOMAIN t : i < j => IndexOf[t[i]] < IndexOf[t[j]]
<1> DEFINE n == Cardinality(pgns)
           UpTo(p) == {q \in pgns : IndexOf[q] <= IndexOf[p]}
           r == [p \in pgns |-> Cardinality(UpTo(p))]
<1>0. /\ IsFiniteSet(pgns) /\ n \in Nat
      /\ \A p \in pgns : IndexOf[p] \in Nat
      /\ \A p, q \in pgns : p # q => IndexOf[p] # IndexOf[q]
  <2>1. IsFiniteSet(pgns)
    BY SchedulerAssumption, FS_Subset
  <2>2. n \in Nat
    BY <2>1, FS_CardinalityType
  <2>3. IndexOf \in [PGNs -> Nat] /\ \A p, q \in PGNs : p # q => IndexOf[p] # IndexOf[q]
    BY SchedulerAssumption
  <2> QED
    BY <2>1, <2>2, <2>3
<1>1. ASSUME NEW p \in pgns
      PROVE  IsFiniteSet(UpTo(p)) /\ Cardinality(UpTo(p)) \in 1..n
  <2>1. UpTo(p) \in SUBSET pgns
    OBVIOUS
  <2>2. IsFiniteSet(UpTo(p)) /\ Cardinality(UpTo(p)) <= n
    BY <1>0, <2>1, FS_Subset
  <2>3. p \in UpTo(p)
    BY <1>0
  <2>4. Cardinality(UpTo(p)) \in Nat /\ Cardinality(UpTo(p)) # 0
    BY <2>2, <2>3, FS_CardinalityType, FS_EmptySet
  <2> QED
    BY <1>0, <2>2, <2>4
<1>2. ASSUME NEW p \in pgns, NEW q \in pgns, IndexOf[p] < IndexOf[q]
      PROVE  Cardinality(UpTo(p)) < Cardinality(UpTo(q))
  <2>1. UpTo(p) \in SUBSET UpTo(q) /\ q \in UpTo(q) /\ q \notin UpTo(p)
    BY <1>0, <1>2
  <2>2. /\ Cardinality(UpTo(p)) <= Cardinality(UpTo(q))
        /\ Cardinality(UpTo(q)) = Cardinality(UpTo(p)) => UpTo(q) = UpTo(p)
    BY <1>1, <2>1, FS_Subset
  <2>3. Cardinality(UpTo(q)) # Cardinality(UpTo(p))
    BY <2>1, <2>2
  <2>4. Cardinality(UpTo(p)) \in Nat /\ Cardinality(UpTo(q)) \in Nat
    BY <1>1, <1>0
  <2> QED
    BY <2>2, <2>3, <2>4
<1>3. r \in Injection(pgns, 1..n)
  <2>1. r \in [pgns -> 1..n]
    BY <1>1
  <2>2. ASSUME NEW p \in pgns, NEW q \in pgns, r[p] = r[q] PROVE p = q
    <3>1. ~(IndexOf[p] < IndexOf[q]) /\ ~(IndexOf[q] < IndexOf[p])
      <4>1. r[p] = Cardinality(UpTo(p)) /\ r[q] = Cardinality(UpTo(q))
        OBVIOUS
      <4>2. Cardinality(UpTo(p)) \in Nat /\ Cardinality(UpTo(q)) \in Nat
        BY <1>0, <1>1
      <4>3. ~(Cardinality(UpTo(p)) < Cardinality(UpTo(q)))
        BY <2>2, <4>1, <4>2
      <4>4. ~(Cardinality(UpTo(q)) < Cardinality(UpTo(p)))
        BY <2>2, <4>1, <4>2
      <4> HIDE DEF r, UpTo
      <4> QED
        BY <1>2, <4>3, <4>4
    <3>2. IndexOf[p] \in Nat /\ IndexOf[q] \in Nat
      BY <1>0
    <3>3. IndexOf[p] = IndexOf[q]
      BY <3>1, <3>2
    <3> QED
      BY <1>0, <3>3
  <2>3. DOMAIN r = pgns
    OBVIOUS
  <2> HIDE DEF r
  <2>4. IsInjective(r)
    BY <2>2, <2>3 DEF IsInjective
  <2> QED
    BY <2>1, <2>4 DEF Injection
<1>4. r \in Surjection(pgns, 1..n)
  <2>1. IsFiniteSet(1..n) /\ Cardinality(1..n) = n
    BY <1>0, FS_Interval
  <2> HIDE DEF r
  <2> QED
    BY <1>3, <2>1, FS_Injection
<1> DEFINE t == [i \in 1..n |-> CHOOSE p \in pgns : r[p] = i]
<1>5. ASSUME NEW i \in 1..n PROVE t[i] \in pgns /\ r[t[i]] = i
  <2>1. \E p \in pgns : r[p] = i
    BY <1>4 DEF Surjection
  <2> HIDE DEF r
  <2> QED
    BY <2>1
<1>6. t \in [1..n -> pgns]
  BY <1>5
<1>7. ASSUME NEW i \in DOMAIN t, NEW j \in DOMAIN t, i < j
      PROVE  IndexOf[t[i]] < IndexOf[t[j]]
  <2>1. i \in 1..n /\ j \in 1..n /\ t[i] \in pgns /\ t[j] \in pgns /\ r[t[i]] = i /\ r[t[j]] = j
    BY <1>5
  <2>2. r[t[i]] = Cardinality(UpTo(t[i])) /\ r[t[j]] = Cardinality(UpTo(t[j]))
    BY <2>1
  <2> HIDE DEF t, r, UpTo
  <2>3. ~(IndexOf[t[j]] < IndexOf[t[i]])
    BY <1>0, <1>2, <1>7, <2>1, <2>2
  <2>4. IndexOf[t[i]] # IndexOf[t[j]]
    BY <1>0, <1>7, <2>1
  <2>5. IndexOf[t[i]] \in Nat /\ IndexOf[t[j]] \in Nat
    BY <1>0, <2>1
  <2> QED
    BY <2>3, <2>4, <2>5
<1> QED
  BY <1>0, <1>6, <1>7

(* So the table of a commit lists its PGNs, each once.                     *)
LEMMA InOrderEnumerates ==
  ASSUME NEW pgns \in SUBSET PGNs
  PROVE  Enumerates(InOrder(pgns), pgns)
<1> DEFINE n == Cardinality(pgns)
           t == InOrder(pgns)
<1>1. /\ n \in Nat /\ t \in [1..n -> pgns]
      /\ \A i, j \in DOMAIN t : i < j => IndexOf[t[i]] < IndexOf[t[j]]
  BY CatalogOrderExists DEF InOrder
<1> HIDE DEF t
<1>2. ASSUME NEW i \in 1..n, NEW j \in 1..n, t[i] = t[j] PROVE i = j
  <2>1. IndexOf[t[i]] \in Nat
    BY <1>1, SchedulerAssumption
  <2>2. ~(i < j) /\ ~(j < i)
    BY <1>1, <1>2, <2>1
  <2> QED
    BY <2>2
<1>3. t \in Injection(1..n, pgns)
  BY <1>1, <1>2 DEF Injection, IsInjective
<1>4. IsFiniteSet(pgns) /\ IsFiniteSet(1..n) /\ Cardinality(1..n) = n
  <2>1. IsFiniteSet(pgns)
    BY SchedulerAssumption, FS_Subset
  <2>2. IsFiniteSet(1..n) /\ Cardinality(1..n) = n
    BY <1>1, FS_Interval
  <2> QED
    BY <2>1, <2>2
<1>5. t \in Surjection(1..n, pgns)
  BY <1>3, <1>4, FS_Injection
<1>6. {t[i] : i \in DOMAIN t} = pgns
  BY <1>1, <1>5 DEF Surjection
<1>7. t \in Seq(PGNs) /\ DOMAIN t = 1..n
  BY <1>1
<1>8. Distinct(t)
  BY <1>2, <1>7 DEF Distinct
<1> QED
  BY <1>6, <1>7, <1>8 DEF Enumerates, t

(* The table has an entry for each PGN that is configured.                 *)
LEMMA TableCounts ==
  ASSUME table \in Seq(PGNs), Distinct(table)
  PROVE  Len(table) = Cardinality(Configured)
<1>1. Len(table) \in Nat /\ DOMAIN table = 1..Len(table)
  OBVIOUS
<1>2. table \in [1..Len(table) -> Configured]
  BY <1>1 DEF Configured
<1>3. table \in Bijection(1..Len(table), Configured)
  BY <1>1, <1>2 DEF Bijection, Injection, IsInjective, Surjection, Distinct, Configured
<1>4. ExistsBijection(1..Len(table), Configured)
  BY <1>3 DEF ExistsBijection
<1> QED
  BY <1>1, <1>4, FS_CountingElements

-----------------------------------------------------------------------------
(* The inductive invariant, in parts.                                      *)

TableInv == table \in Seq(PGNs) /\ Distinct(table)

(* What a pass at the latest can find due is less than a pass late.        *)
DueInv ==
  /\ due \in [Configured -> Int]
  /\ \A p \in Configured :
       /\ due[p] >= - Period[p] /\ due[p] <= 2 * MaxPass
       /\ running => due[p] - behind <= MaxPass

PendingInv == pending \subseteq Long \cap Configured

(* Of a sequence of frames: each is of the PGN its slot has, and was due   *)
(* at time b; all but the last of a slot are superseded; and so is each    *)
(* when its slot comes due, at the time at(slot).                          *)
Frames == [slot : DOMAIN table, payload : PGNs, age : 0 .. Ancient]
Late(f, age) == f.age >= AtMost(age + Period[table[f.slot]], Ancient)
Valid(q) == \A i \in DOMAIN q : q[i].payload = table[q[i].slot]
DueBy(q, b) == \A i \in DOMAIN q : q[i].age >= b
Succeed(q) ==
  \A i, j \in DOMAIN q :
    i < j /\ q[i].slot = q[j].slot => Late(q[i], q[j].age)
Ahead(q, at) == \A i \in DOMAIN q : Late(q[i], at[table[q[i].slot]])

QueueInv ==
  /\ queue \in Seq(Frames) /\ Len(queue) <= QueueCapacity
  /\ Valid(queue)
  /\ running => DueBy(queue, behind) /\ Succeed(queue) /\ Ahead(queue, due)

(* A session runs only while the generator does.  A packet the link        *)
(* refused is not yet too late when it is tried again, a millisecond later.*)
Sessions == [pgn : Long, packet : Nat, slot : Int, next : Int]
SessionAt(s, time) ==
  /\ s \in Sessions
  /\ s.pgn \in Configured
  /\ s.packet <= Packets[s.pgn]
  /\ s.slot >= - Gap /\ s.slot - time < AbortLate + MaxPass
  /\ s.next >= - Gap - 1 /\ s.next - time < MaxPass
  /\ s.slot = s.next \/ s.next - time >= -1
  /\ s.next - time < 0 => s.slot - time < AbortLate
TpInv == tp = NONE \/ (running /\ SessionAt(tp, behind))

ClockInv ==
  /\ behind \in 0 .. MaxPass
  /\ retry \in - Half .. Half - 1
  /\ started \in 0 .. TimeModulus - 1
  /\ duration \in Durations \cup {0}

SchedulerInv ==
  /\ running \in BOOLEAN
  /\ TableInv /\ DueInv /\ PendingInv /\ QueueInv /\ TpInv /\ ClockInv

-----------------------------------------------------------------------------
(* The queue as a sequence: where an insertion puts the frames.            *)

Moved(at, i) == IF i < at THEN i ELSE i - 1

(* What an insertion into a sequence leaves at each place.                 *)
LEMMA InsertedIs ==
  ASSUME NEW S, NEW q \in Seq(S), NEW f \in S, NEW at \in 1 .. Len(q) + 1
  PROVE  /\ InsertAt(q, at, f) \in Seq(S)
         /\ Len(InsertAt(q, at, f)) = Len(q) + 1
         /\ InsertAt(q, at, f)[at] = f
         /\ \A i \in 1 .. Len(q) + 1 :
              i # at => /\ Moved(at, i) \in 1 .. Len(q)
                        /\ InsertAt(q, at, f)[i] = q[Moved(at, i)]
<1> DEFINE u == SubSeq(q, 1, at - 1)
           v == SubSeq(q, at, Len(q))
           w == u \o <<f>>
<1>0. Len(q) \in Nat /\ at \in Nat
  OBVIOUS
<1>1. u \in Seq(S) /\ Len(u) = at - 1 /\ \A i \in 1 .. at - 1 : u[i] = q[i]
  BY <1>0, SubSeqProperties
<1>2. v \in Seq(S) /\ Len(v) = Len(q) - at + 1
      /\ \A i \in 1 .. Len(q) - at + 1 : v[i] = q[at + i - 1]
  BY <1>0, SubSeqProperties
<1> HIDE DEF u, v
<1>3. w \in Seq(S) /\ Len(w) = at /\ w[at] = f /\ \A i \in 1 .. at - 1 : w[i] = u[i]
  BY <1>0, <1>1
<1> HIDE DEF w
<1> DEFINE x == w \o v
<1>4. x \in Seq(S) /\ Len(x) = Len(q) + 1
      /\ \A i \in 1 .. Len(q) + 1 : x[i] = IF i <= at THEN w[i] ELSE v[i - at]
  <2>1. w \in Seq(S) /\ v \in Seq(S) /\ Len(w) = at /\ Len(v) = Len(q) - at + 1
    BY <1>2, <1>3
  <2>2. x \in Seq(S) /\ Len(x) = Len(w) + Len(v)
    BY <2>1
  <2>3. \A i \in 1 .. Len(w) + Len(v) : x[i] = IF i <= Len(w) THEN w[i] ELSE v[i - Len(w)]
    BY <2>1
  <2> QED
    BY <1>0, <2>1, <2>2, <2>3
<1>5. InsertAt(q, at, f) = x
  BY DEF InsertAt, w, u, v
<1> HIDE DEF x
<1>6. ASSUME NEW i \in 1 .. Len(q) + 1, i # at
      PROVE  Moved(at, i) \in 1 .. Len(q) /\ x[i] = q[Moved(at, i)]
  <2>1. CASE i < at
    <3>1. i \in 1 .. at - 1 /\ i \in 1 .. Len(q) /\ i <= at
      BY <1>0, <2>1
    <3>2. x[i] = w[i] /\ w[i] = u[i] /\ u[i] = q[i]
      BY <1>1, <1>3, <1>4, <3>1
    <3> QED
      BY <2>1, <3>1, <3>2 DEF Moved
  <2>2. CASE i > at
    <3>1. i - at \in 1 .. Len(q) - at + 1 /\ at + (i - at) - 1 = i - 1
      BY <1>0, <2>2
    <3>2. v[i - at] = q[i - 1]
      BY <1>2, <3>1
    <3>3. ~(i <= at) /\ ~(i < at) /\ i - 1 \in 1 .. Len(q)
      BY <1>0, <2>2
    <3> QED
      BY <1>4, <3>2, <3>3 DEF Moved
  <2> QED
    BY <1>0, <1>6, <2>1, <2>2
<1> QED
  BY <1>0, <1>3, <1>4, <1>5, <1>6

(* A frame goes behind every frame that it does not come before, unless    *)
(* the queue is full.                                                      *)
LEMMA EnqueueIs ==
  ASSUME NEW S, NEW q \in Seq(S), NEW f \in S
  PROVE  Enqueue(q, f) = q \/
           /\ Len(q) < QueueCapacity
           /\ \E at \in 1 .. Len(q) + 1 :
                /\ Enqueue(q, f) = InsertAt(q, at, f)
                /\ \A j \in DOMAIN q : j >= at => Before(f, q[j])
<1>1. CASE Len(q) >= QueueCapacity
  BY <1>1 DEF Enqueue
<1>2. CASE Len(q) < QueueCapacity
  <2> DEFINE J == {0} \cup {j \in DOMAIN q : ~Before(f, q[j])}
             at == Max(J) + 1
  <2>1. J \in SUBSET Nat /\ J # {} /\ Len(q) \in Nat /\ \A j \in J : j <= Len(q)
    OBVIOUS
  <2>2. Max(J) \in J /\ \A j \in J : j <= Max(J)
    BY <2>1, MaxIs
  <2>3. at \in 1 .. Len(q) + 1
    BY <2>1, <2>2
  <2>4. ASSUME NEW j \in DOMAIN q, j >= at PROVE Before(f, q[j])
    <3>1. j \notin J
      BY <2>1, <2>2, <2>4
    <3> QED
      BY <3>1
  <2>5. Enqueue(q, f) = InsertAt(q, at, f)
    BY <1>2, Constants DEF Enqueue
  <2> HIDE DEF at
  <2> QED
    BY <1>2, <2>3, <2>4, <2>5
<1>3. Len(q) \in Nat
  OBVIOUS
<1> QED
  BY <1>1, <1>2, <1>3, Constants


-----------------------------------------------------------------------------
(* The slots that are due, and the frame of one.                           *)

(* Division rounds down.                                                   *)
LEMMA Division ==
  ASSUME NEW x \in Nat, NEW n \in Nat, n >= 1
  PROVE  /\ x \div n \in Nat
         /\ (x \div n) * n <= x /\ x - (x \div n) * n < n
<1>1. x \div n \in Int /\ x % n \in 0 .. n - 1 /\ x = n * (x \div n) + (x % n)
  OBVIOUS
<1>2. x \div n >= 0
  BY <1>1
<1> QED
  BY <1>1, <1>2

(* Due times are in the range where their comparison is right.             *)
LEMMA DueIs ==
  ASSUME TableInv, DueInv, running, behind \in 0 .. MaxPass, NEW p \in Configured
  PROVE  /\ p \in PGNs /\ due[p] \in Int
         /\ due[p] >= - Period[p] /\ due[p] <= 2 * MaxPass /\ due[p] - behind <= MaxPass
         /\ Reached(due[p]) <=> due[p] >= behind
<1>1. p \in PGNs
  BY DEF TableInv, Configured
<1>2. due[p] \in Int /\ due[p] >= - Period[p] /\ due[p] <= 2 * MaxPass /\ due[p] - behind <= MaxPass
  BY DEF DueInv
<1>3. behind \in Int /\ - Half <= due[p] - behind /\ due[p] - behind < Half
  BY <1>1, <1>2, Constants
<1>4. Reached(due[p]) <=> due[p] >= behind
  BY <1>2, <1>3, ReachedIs
<1> QED
  BY <1>1, <1>2, <1>4

(* The frame packed for a due PGN: its slot, payload and age, and the next *)
(* due time.                                                               *)
LEMMA FrameIs ==
  ASSUME TableInv, DueInv, running, behind \in 0 .. MaxPass, NEW i \in DueSlots
  PROVE  /\ Frame(i) \in Frames
         /\ Frame(i).slot = i /\ Frame(i).payload = table[i]
         /\ Frame(i).age \in Nat
         /\ Frame(i).age >= behind /\ Frame(i).age < behind + Period[table[i]]
         /\ Frame(i).age <= due[table[i]]
         /\ NextDue(table[i]) = Frame(i).age - Period[table[i]]
<1> DEFINE p == table[i]
           n == PeriodsLate(p)
           late == due[p] - n * Period[p]
<1>1. i \in DOMAIN table /\ p \in Configured /\ Reached(due[p])
  BY DEF DueSlots, Configured
<1>2. /\ p \in PGNs /\ due[p] \in Int /\ due[p] >= behind
      /\ due[p] <= 2 * MaxPass
  BY <1>1, DueIs
<1>3. Period[p] \in Nat /\ Period[p] >= 1
  BY <1>2, Constants
<1>4. due[p] - behind \in Nat
  BY <1>2
<1>5. /\ n \in Nat /\ n * Period[p] <= due[p] - behind
      /\ due[p] - behind - n * Period[p] < Period[p]
  BY <1>3, <1>4, Division DEF PeriodsLate
<1>6. Frame(i) = [slot |-> i, payload |-> p, age |-> late]
  BY DEF Frame
<1>7. NextDue(p) = due[p] - (n + 1) * Period[p]
  BY DEF NextDue
<1> HIDE DEF n
<1>8. n * Period[p] \in Nat /\ (n + 1) * Period[p] = n * Period[p] + Period[p]
  BY <1>3, <1>5
<1> DEFINE m == n * Period[p]
<1>9. m \in Nat /\ late = due[p] - m /\ m <= due[p] - behind
      /\ due[p] - behind - m < Period[p] /\ NextDue(p) = due[p] - (m + Period[p])
  BY <1>5, <1>7, <1>8
<1> HIDE DEF m, late
<1>10. /\ late \in Nat /\ late >= behind /\ late < behind + Period[p]
       /\ late <= due[p] /\ NextDue(p) = late - Period[p] /\ late \in 0 .. Ancient
  BY <1>2, <1>3, <1>9, Constants
<1> HIDE DEF p
<1>11. Frame(i) \in Frames
  BY <1>1, <1>2, <1>6, <1>10 DEF Frames
<1> QED
  BY <1>6, <1>10, <1>11 DEF p


-----------------------------------------------------------------------------
(* What the insertion of a frame preserves.                                *)

(* What the type of a frame says of its slot.                              *)
LEMMA FramesAre ==
  ASSUME TableInv, NEW f \in Frames
  PROVE  /\ f.slot \in DOMAIN table /\ f.age \in 0 .. Ancient /\ f.payload \in PGNs
         /\ table[f.slot] \in Configured /\ table[f.slot] \in PGNs
         /\ Period[table[f.slot]] \in Nat /\ Period[table[f.slot]] >= 1
         /\ Period[table[f.slot]] <= MaxPeriod
<1>1. f.slot \in DOMAIN table /\ f.age \in 0 .. Ancient /\ f.payload \in PGNs
  BY DEF Frames
<1>2. table[f.slot] \in Configured /\ table[f.slot] \in PGNs
  BY <1>1 DEF Configured, TableInv
<1> QED
  BY <1>1, <1>2, Constants

(* A frame that is late at one time is late at every earlier one.          *)
LEMMA LateIs ==
  ASSUME TableInv, NEW f \in Frames, NEW x \in Int, NEW y \in Int, Late(f, x), y <= x
  PROVE  Late(f, y) /\ (f.age > x \/ f.age = Ancient)
<1>1. Period[table[f.slot]] \in Nat /\ Period[table[f.slot]] >= 1 /\ f.age \in 0 .. Ancient
  BY FramesAre
<1> QED
  BY <1>1, Constants DEF Late, AtMost

(* Insertion into the sorted queue, or its refusal when the queue is full, *)
(* keeps what the invariant says of the queue.                             *)
LEMMA EnqueueKeeps ==
  ASSUME TableInv, NEW q \in Seq(Frames), Len(q) <= QueueCapacity,
         NEW b \in Int, NEW at \in [Configured -> Int], NEW next \in [Configured -> Int],
         Valid(q), DueBy(q, b), Succeed(q), Ahead(q, at),
         NEW f \in Frames, f.payload = table[f.slot], f.age >= b, f.age < Ancient,
         f.age <= at[table[f.slot]],
         next[table[f.slot]] = f.age - Period[table[f.slot]],
         \A p \in Configured : next[p] <= at[p]
  PROVE  /\ Enqueue(q, f) \in Seq(Frames) /\ Len(Enqueue(q, f)) <= QueueCapacity
         /\ Valid(Enqueue(q, f)) /\ DueBy(Enqueue(q, f), b)
         /\ Succeed(Enqueue(q, f)) /\ Ahead(Enqueue(q, f), next)
<1>0. \A i \in DOMAIN q : q[i] \in Frames
  OBVIOUS
<1>1. ASSUME NEW i \in DOMAIN q
      PROVE  /\ Late(q[i], next[table[q[i].slot]])
             /\ q[i].slot = f.slot => Late(q[i], f.age) /\ q[i].age > f.age
  <2>1. q[i] \in Frames /\ table[q[i].slot] \in Configured /\ f.age \in Int
    BY <1>0, FramesAre
  <2>2. at[table[q[i].slot]] \in Int /\ next[table[q[i].slot]] \in Int
    BY <2>1
  <2>3. Late(q[i], at[table[q[i].slot]])
    BY DEF Ahead
  <2>4. Late(q[i], next[table[q[i].slot]])
    BY <2>1, <2>2, <2>3, LateIs
  <2>5. ASSUME q[i].slot = f.slot PROVE Late(q[i], f.age) /\ q[i].age > f.age
    <3>1. f.age <= at[table[q[i].slot]]
      BY <2>5
    <3>2. Late(q[i], f.age)
      BY <2>1, <2>2, <2>3, <3>1, LateIs
    <3>3. q[i].age > f.age \/ q[i].age = Ancient
      BY <2>1, <3>2, LateIs
    <3> QED
      BY <2>1, <3>2, <3>3, Constants
  <2> QED
    BY <2>4, <2>5
<1>2. CASE Enqueue(q, f) = q
  <2>1. Ahead(q, next)
    BY <1>1 DEF Ahead
  <2> QED
    BY <1>2, <2>1
<1>3. ASSUME Len(q) < QueueCapacity,
             NEW c \in 1 .. Len(q) + 1, Enqueue(q, f) = InsertAt(q, c, f),
             \A j \in DOMAIN q : j >= c => Before(f, q[j])
      PROVE  /\ Enqueue(q, f) \in Seq(Frames) /\ Len(Enqueue(q, f)) <= QueueCapacity
             /\ Valid(Enqueue(q, f)) /\ DueBy(Enqueue(q, f), b)
             /\ Succeed(Enqueue(q, f)) /\ Ahead(Enqueue(q, f), next)
  <2> DEFINE r == Enqueue(q, f)
  <2>1. /\ r \in Seq(Frames) /\ Len(r) = Len(q) + 1 /\ r[c] = f
        /\ \A i \in 1 .. Len(q) + 1 :
             i # c => Moved(c, i) \in 1 .. Len(q) /\ r[i] = q[Moved(c, i)]
    BY SMTT(30), <1>3, InsertedIs
  <2>2. Len(q) \in Nat /\ DOMAIN q = 1 .. Len(q) /\ DOMAIN r = 1 .. Len(q) + 1
        /\ Len(q) + 1 <= QueueCapacity
    BY <2>1, <1>3, Constants
  <2> HIDE DEF r
  <2>3. \A i \in DOMAIN r : i # c => Moved(c, i) \in DOMAIN q /\ r[i] = q[Moved(c, i)]
    BY <2>1, <2>2
  <2>4. Valid(r)
    BY <2>1, <2>3 DEF Valid
  <2>5. DueBy(r, b)
    BY <2>1, <2>3 DEF DueBy
  <2>6. Ahead(r, next)
    <3>1. Late(f, next[table[f.slot]])
      <4>1. Period[table[f.slot]] \in Nat /\ f.age \in 0 .. Ancient
        BY FramesAre
      <4> QED
        BY <4>1, Constants DEF Late, AtMost
    <3>2. \A i \in DOMAIN r : Late(r[i], next[table[r[i].slot]])
      BY <1>1, <2>1, <2>3, <3>1
    <3> QED
      BY <3>2 DEF Ahead
  <2>7. ASSUME NEW i \in DOMAIN r, NEW j \in DOMAIN r, i < j, r[i].slot = r[j].slot
        PROVE  Late(r[i], r[j].age)
    <3>1. CASE j = c
      <4>1. Moved(c, i) \in DOMAIN q /\ r[i] = q[Moved(c, i)] /\ r[j] = f
        BY <2>1, <2>2, <2>3, <2>7, <3>1
      <4> QED
        BY <1>1, <2>7, <4>1
    <3>2. CASE i = c
      <4>1. j # c /\ r[i] = f /\ j - 1 \in DOMAIN q /\ r[j] = q[j - 1] /\ j - 1 >= c
        BY <2>1, <2>2, <2>3, <2>7, <3>2 DEF Moved
      <4>2. Before(f, q[j - 1]) /\ q[j - 1].slot = f.slot
        BY <1>3, <2>7, <4>1
      <4>3. q[j - 1].age > f.age
        BY <1>1, <4>1, <4>2
      <4>4. q[j - 1].age \in Int /\ f.age \in Int /\ CanId[table[f.slot]] \in Nat
        <5>1. q[j - 1] \in Frames
          BY <1>0, <4>1
        <5>2. q[j - 1].age \in Int /\ f.age \in Int /\ table[f.slot] \in PGNs
          BY <5>1, FramesAre
        <5> QED
          BY <5>2, SchedulerAssumption
      <4>5. f.age > q[j - 1].age \/ CanId[table[f.slot]] < CanId[table[f.slot]]
        BY <4>2, <4>4 DEF Before, PgnOf
      <4> QED
        BY <4>3, <4>4, <4>5
    <3>3. CASE i # c /\ j # c
      <4>1. /\ Moved(c, i) \in DOMAIN q /\ r[i] = q[Moved(c, i)]
            /\ Moved(c, j) \in DOMAIN q /\ r[j] = q[Moved(c, j)]
        BY <2>3, <3>3
      <4>2. Moved(c, i) < Moved(c, j)
        BY <2>2, <2>7, <3>3 DEF Moved
      <4> QED
        BY <2>7, <4>1, <4>2 DEF Succeed
    <3> QED
      BY <3>1, <3>2, <3>3
  <2>8. Succeed(r)
    BY <2>7 DEF Succeed
  <2> QED
    BY <2>1, <2>2, <2>4, <2>5, <2>6, <2>8 DEF r
<1> QED
  BY <1>2, <1>3, EnqueueIs


-----------------------------------------------------------------------------
(* The queue with the frames of the short slots up to n entered, by        *)
(* induction on n.                                                         *)

DueAfter(n) ==
  [p \in Configured |->
     IF \E i \in DueSlots \ LongDue : i <= n /\ table[i] = p
     THEN NextDue(p) ELSE due[p]]

Good(q, n) ==
  /\ q \in Seq(Frames) /\ Len(q) <= QueueCapacity
  /\ Valid(q) /\ DueBy(q, behind) /\ Succeed(q) /\ Ahead(q, DueAfter(n))

Passing == TableInv /\ DueInv /\ QueueInv /\ running /\ behind \in 0 .. MaxPass

(* The due times after the first n PGNs of the table.                      *)
LEMMA DueAfterIs ==
  ASSUME Passing, NEW n \in Nat
  PROVE  /\ DueAfter(n) \in [Configured -> Int]
         /\ \A p \in Configured : DueAfter(n)[p] <= due[p]
         /\ \A p \in Configured :
              Reached(due[p]) => NextDue(p) \in Int /\ NextDue(p) < due[p]
<1>1. ASSUME NEW p \in Configured, Reached(due[p])
      PROVE  NextDue(p) \in Int /\ NextDue(p) < due[p]
  <2>1. PICK i \in DOMAIN table : table[i] = p
    BY DEF Configured
  <2>2. i \in DueSlots
    BY <1>1, <2>1 DEF DueSlots
  <2>3. /\ Frame(i).age \in Nat /\ Frame(i).age <= due[p]
        /\ NextDue(p) = Frame(i).age - Period[p]
    BY <2>1, <2>2, FrameIs DEF Passing
  <2>4. p \in PGNs /\ due[p] \in Int
    BY DueIs DEF Passing
  <2>5. Period[p] \in Nat /\ Period[p] >= 1
    BY <2>4, Constants
  <2> QED
    BY <2>3, <2>4, <2>5
<1>2. ASSUME NEW p \in Configured
      PROVE  DueAfter(n)[p] \in Int /\ DueAfter(n)[p] <= due[p]
  <2>1. due[p] \in Int
    BY DueIs DEF Passing
  <2>2. ASSUME \E i \in DueSlots \ LongDue : i <= n /\ table[i] = p PROVE Reached(due[p])
    BY <2>2 DEF DueSlots
  <2>3. CASE \E i \in DueSlots \ LongDue : i <= n /\ table[i] = p
    <3>1. DueAfter(n)[p] = NextDue(p)
      BY <2>3 DEF DueAfter
    <3>2. NextDue(p) \in Int /\ NextDue(p) < due[p]
      BY <1>1, <2>2, <2>3
    <3> QED
      BY <2>1, <3>1, <3>2
  <2>4. CASE ~ \E i \in DueSlots \ LongDue : i <= n /\ table[i] = p
    <3>1. DueAfter(n)[p] = due[p]
      BY <2>4 DEF DueAfter
    <3> QED
      BY <2>1, <3>1
  <2> QED
    BY <2>3, <2>4
<1>3. DueAfter(n) \in [Configured -> Int]
  BY <1>2 DEF DueAfter
<1> QED
  BY <1>1, <1>2, <1>3

(* The queue is good before the first PGN of the pass ...                  *)
LEMMA FillStarts ==
  ASSUME Passing
  PROVE  Good(queue, 0)
<1>1. \A i \in DueSlots : i \in Nat /\ i > 0
  BY DEF DueSlots, Passing, TableInv
<1>2. \A p \in Configured : DueAfter(0)[p] = due[p]
  BY <1>1 DEF DueAfter
<1>3. \A i \in DOMAIN queue : table[queue[i].slot] \in Configured
  BY FramesAre DEF Passing, QueueInv
<1>4. Ahead(queue, DueAfter(0))
  BY <1>2, <1>3 DEF Ahead, Passing, QueueInv
<1> QED
  BY <1>4 DEF Good, Passing, QueueInv

(* ... and stays so with each further one.                                 *)
LEMMA FillStep ==
  ASSUME Passing, NEW n \in Nat, n + 1 \in DOMAIN table, NEW q, Good(q, n)
  PROVE  Good(Entered(q, n + 1), n + 1)
<1> DEFINE i == n + 1
           p == table[i]
           at == DueAfter(n)
           next == DueAfter(i)
<1>0. table \in Seq(PGNs) /\ Distinct(table) /\ i \in Nat /\ behind \in Int /\ p \in Configured
      /\ \A k \in DOMAIN table : k \in Nat
  BY DEF Passing, TableInv, Configured
<1>1. at \in [Configured -> Int] /\ next \in [Configured -> Int]
  BY <1>0, DueAfterIs
<1>2. ASSUME NEW r \in Configured, r # p \/ i \notin DueSlots \ LongDue
      PROVE  next[r] = at[r]
  <2>1. ASSUME NEW k \in DueSlots \ LongDue, table[k] = r PROVE k <= i <=> k <= n
    <3>1. k \in DOMAIN table
      BY DEF DueSlots
    <3>2. k # i
      BY <1>2, <2>1
    <3> QED
      BY <1>0, <3>1, <3>2
  <2>2. (\E k \in DueSlots \ LongDue : k <= i /\ table[k] = r)
          <=> \E k \in DueSlots \ LongDue : k <= n /\ table[k] = r
    BY <2>1
  <2> QED
    BY <2>2 DEF DueAfter
<1>3. CASE i \notin DueSlots \ LongDue
  <2>1. next = at
    BY <1>1, <1>2, <1>3
  <2>2. Entered(q, i) = q
    BY <1>3 DEF Entered
  <2> QED
    BY <2>1, <2>2 DEF Good
<1>4. CASE i \in DueSlots \ LongDue
  <2> DEFINE f == Frame(i)
  <2>1. Entered(q, i) = Enqueue(q, f)
    BY <1>4 DEF Entered
  <2>2. /\ f \in Frames /\ f.slot = i /\ f.payload = p /\ f.age \in Nat
        /\ f.age >= behind /\ f.age < behind + Period[p] /\ f.age <= due[p]
        /\ NextDue(p) = f.age - Period[p]
    BY <1>4, FrameIs DEF Passing
  <2>3. at[p] = due[p]
    <3>1. ~ \E k \in DueSlots \ LongDue : k <= n /\ table[k] = p
      BY <1>0 DEF DueSlots, Distinct
    <3> QED
      BY <1>0, <3>1 DEF DueAfter
  <2>4. next[p] = f.age - Period[p]
    <3>1. next[p] = NextDue(p)
      BY <1>0, <1>4 DEF DueAfter
    <3> QED
      BY <2>2, <3>1
  <2>5. f.age < Ancient
    <3>1. p \in PGNs
      BY <2>2, FramesAre DEF Passing
    <3> QED
      BY <1>0, <2>2, <3>1, Constants DEF Passing
  <2> HIDE DEF f
  <2>6. \A r \in Configured : next[r] <= at[r]
    <3>1. p \in PGNs /\ Period[p] \in Nat
      BY <2>2, FramesAre DEF Passing
    <3>2. ASSUME NEW r \in Configured PROVE next[r] <= at[r]
      <4>1. next[r] \in Int /\ at[r] \in Int
        BY <1>1
      <4>2. CASE r = p
        <5>1. due[p] \in Int /\ f.age - Period[p] <= due[p]
          BY SMTT(30), <1>1, <1>0, <2>2, <2>3, <3>1
        <5> QED
          BY <2>3, <2>4, <4>2, <5>1
      <4>3. CASE r # p
        BY <1>2, <4>1, <4>3
      <4> QED
        BY <4>2, <4>3
    <3> QED
      BY <3>2
  <2> HIDE DEF at, next
  <2>7. /\ q \in Seq(Frames) /\ Len(q) <= QueueCapacity
        /\ Valid(q) /\ DueBy(q, behind) /\ Succeed(q) /\ Ahead(q, at)
    BY DEF Good, at
  <2>8. /\ Enqueue(q, f) \in Seq(Frames) /\ Len(Enqueue(q, f)) <= QueueCapacity
        /\ Valid(Enqueue(q, f)) /\ DueBy(Enqueue(q, f), behind)
        /\ Succeed(Enqueue(q, f)) /\ Ahead(Enqueue(q, f), next)
    BY <1>0, <1>1, <2>2, <2>3, <2>4, <2>5, <2>6, <2>7, EnqueueKeeps DEF Passing
  <2> QED
    BY <2>1, <2>8 DEF Good, next
<1> QED
  BY <1>3, <1>4


AfterTo(g, n) ==
  g = [i \in 0 .. n |-> IF i = 0 THEN queue ELSE Entered(g[i - 1], i)]

(* The recursion that fills the queue has a solution.                      *)
LEMMA AfterExists ==
  ASSUME NEW n \in Nat
  PROVE  \E g : AfterTo(g, n)
<1> DEFINE Exists(k) == \E g : AfterTo(g, k)
           S == {k \in Nat : Exists(k)}
<1>1. Exists(0)
  <2>1. AfterTo([i \in 0 .. 0 |-> queue], 0)
    BY DEF AfterTo
  <2> QED
    BY <2>1
<1>2. ASSUME NEW k \in Nat, Exists(k) PROVE Exists(k + 1)
  <2>1. PICK g : AfterTo(g, k)
    BY <1>2
  <2> DEFINE h == [i \in 0 .. k + 1 |-> IF i <= k THEN g[i] ELSE Entered(g[k], i)]
  <2>2. ASSUME NEW i \in 0 .. k + 1
        PROVE  h[i] = IF i = 0 THEN queue ELSE Entered(h[i - 1], i)
    <3>1. CASE i = 0
      <4>1. h[i] = g[i] /\ i \in 0 .. k
        BY <3>1
      <4> QED
        BY <2>1, <3>1, <4>1 DEF AfterTo
    <3>2. CASE i \in 1 .. k
      <4>1. h[i] = g[i] /\ h[i - 1] = g[i - 1] /\ i \in 0 .. k /\ i # 0
        BY <3>2
      <4>2. g[i] = Entered(g[i - 1], i)
        BY <2>1, <4>1 DEF AfterTo
      <4> QED
        BY <4>1, <4>2
    <3>3. CASE i = k + 1
      <4>1. h[i] = Entered(g[k], i) /\ h[i - 1] = g[k] /\ i # 0
        BY <3>3
      <4> QED
        BY <4>1
    <3> QED
      BY <3>1, <3>2, <3>3
  <2>3. h = [i \in 0 .. k + 1 |-> IF i = 0 THEN queue ELSE Entered(h[i - 1], i)]
    BY <2>2
  <2> HIDE DEF h
  <2>4. AfterTo(h, k + 1)
    BY <2>3 DEF AfterTo
  <2> QED
    BY <2>4
<1> HIDE DEF Exists
<1>3. 0 \in S /\ \A k \in S : k + 1 \in S
  BY <1>1, <1>2
<1>4. S = Nat
  BY <1>3, SetInduction
<1> QED
  BY <1>4 DEF Exists

(* So the queue is good after all of them.                                 *)
LEMMA FilledIs ==
  ASSUME Passing
  PROVE  Good(Filled, Len(table))
<1> DEFINE m == Len(table)
<1>1. m \in Nat /\ DOMAIN table = 1 .. m
  BY DEF Passing, TableInv
<1>2. PICK g : AfterTo(g, m) /\ Filled = g[m]
  <2> DEFINE g == CHOOSE h : AfterTo(h, m)
  <2>1. AfterTo(g, m)
    BY <1>1, AfterExists
  <2>2. Filled = g[m]
    BY DEF Filled, AfterTo
  <2> HIDE DEF g
  <2> QED
    BY <2>1, <2>2
<1> DEFINE Fine(k) == k <= m => Good(g[k], k)
           S == {k \in Nat : Fine(k)}
<1>3. Fine(0)
  <2>1. g[0] = queue
    BY <1>1, <1>2 DEF AfterTo
  <2> QED
    BY <2>1, FillStarts
<1>4. ASSUME NEW k \in Nat, Fine(k) PROVE Fine(k + 1)
  <2>1. SUFFICES ASSUME k + 1 <= m PROVE Good(g[k + 1], k + 1)
    OBVIOUS
  <2>2. g[k + 1] = Entered(g[k], k + 1)
    <3>1. k + 1 \in 0 .. m /\ k + 1 # 0 /\ k + 1 - 1 = k
      BY <1>1, <2>1
    <3> QED
      BY <1>2, <3>1 DEF AfterTo
  <2>3. k + 1 \in DOMAIN table /\ k <= m
    BY <1>1, <2>1
  <2>4. Good(Entered(g[k], k + 1), k + 1)
    BY <1>4, <2>3, FillStep
  <2> QED
    BY <2>2, <2>4
<1> HIDE DEF Fine
<1>5. 0 \in S /\ \A k \in S : k + 1 \in S
  BY <1>3, <1>4
<1>6. S = Nat
  BY <1>5, SetInduction
<1>7. Fine(m)
  BY <1>1, <1>6
<1> QED
  BY <1>1, <1>2, <1>7 DEF Fine


-----------------------------------------------------------------------------
(* The drain: of two frames of one PGN the first is expired.               *)

Singly(frames) == \A i, j \in DOMAIN frames : i # j => frames[i] # frames[j]

(* When a queued frame is dropped instead of sent.                         *)
LEMMA ExpiredIs ==
  ASSUME Passing, NEW f \in Frames
  PROVE  Expired(f) <=> f.age - Period[table[f.slot]] >= behind
<1> DEFINE age == f.age - Period[table[f.slot]]
<1>1. /\ f.age \in 0 .. Ancient /\ Period[table[f.slot]] \in Nat
      /\ Period[table[f.slot]] >= 1 /\ Period[table[f.slot]] <= MaxPeriod
  BY FramesAre DEF Passing
<1>2. age \in Int /\ behind \in Int /\ - Half <= age - behind /\ age - behind < Half
  BY <1>1, Constants DEF Passing
<1>3. Expired(f) = Reached(age)
  BY DEF Expired, PgnOf
<1> HIDE DEF age
<1> QED
  BY <1>2, <1>3, ReachedIs DEF age

(* Of two frames of one PGN the earlier one has expired.                   *)
LEMMA SentSingly ==
  ASSUME Passing, NEW n, NEW q, Good(q, n),
         NEW i \in DOMAIN q, NEW j \in DOMAIN q, i < j, q[i].payload = q[j].payload
  PROVE  Expired(q[i])
<1>1. q[i] \in Frames /\ q[j] \in Frames
  BY DEF Good
<1>2. q[i].slot = q[j].slot
  <2>1. table[q[i].slot] = table[q[j].slot]
    BY DEF Good, Valid
  <2> QED
    BY <1>1, <2>1, FramesAre DEF Passing, TableInv, Distinct
<1>3. Late(q[i], q[j].age) /\ q[j].age >= behind
  BY <1>2 DEF Good, Succeed, DueBy
<1>4. /\ q[i].age \in 0 .. Ancient /\ q[j].age \in 0 .. Ancient
      /\ Period[table[q[i].slot]] \in Nat
      /\ Period[table[q[i].slot]] >= 1 /\ Period[table[q[i].slot]] <= MaxPeriod
  BY <1>1, FramesAre DEF Passing
<1>5. q[i].age - Period[table[q[i].slot]] >= behind
  BY <1>3, <1>4, Constants DEF Late, AtMost, Passing
<1> QED
  BY <1>1, <1>5, ExpiredIs

(* What remains of a good queue is a good queue.                           *)
LEMMA SuffixGood ==
  ASSUME Passing, NEW n, NEW q, Good(q, n), NEW k \in 1 .. Len(q) + 1
  PROVE  Good(SubSeq(q, k, Len(q)), n)
<1> DEFINE r == SubSeq(q, k, Len(q))
<1>0. q \in Seq(Frames) /\ Len(q) \in Nat /\ Len(q) <= QueueCapacity
  BY DEF Good
<1>1. /\ r \in Seq(Frames) /\ Len(r) = Len(q) - k + 1
      /\ \A i \in 1 .. Len(q) - k + 1 : r[i] = q[k + i - 1]
  BY <1>0, SubSeqProperties
<1> HIDE DEF r
<1>2. DOMAIN r = 1 .. Len(q) - k + 1 /\ DOMAIN q = 1 .. Len(q)
  BY <1>0, <1>1
<1>3. \A i \in DOMAIN r : k + i - 1 \in DOMAIN q /\ r[i] = q[k + i - 1]
  BY <1>0, <1>1, <1>2
<1>4. Valid(r)
  BY <1>3 DEF Good, Valid
<1>5. DueBy(r, behind)
  BY <1>3 DEF Good, DueBy
<1>6. ASSUME NEW i \in DOMAIN r, NEW j \in DOMAIN r, i < j, r[i].slot = r[j].slot
      PROVE  Late(r[i], r[j].age)
  <2>1. k + i - 1 < k + j - 1
    BY <1>0, <1>2, <1>6
  <2> QED
    BY <1>3, <1>6, <2>1 DEF Good, Succeed
<1>7. Ahead(r, DueAfter(n))
  BY <1>3 DEF Good, Ahead
<1>8. Len(r) <= QueueCapacity
  BY <1>0, <1>1, Constants
<1>9. Succeed(r)
  BY <1>6 DEF Succeed
<1> QED
  BY <1>1, <1>4, <1>5, <1>7, <1>8, <1>9 DEF Good, r

(* Sending from the queue, up to a refusal of the link, sends no PGN twice *)
(* and keeps the rest good.                                                *)
LEMMA DrainKeeps ==
  ASSUME Passing, retry \in - Half .. Half - 1, NEW n, NEW q, Good(q, n), Drain(q)
  PROVE  /\ Good(queue', n) /\ Singly(sent')
         /\ retry' \in - Half .. Half - 1
<1>1. CASE queue' = q /\ sent' = << >> /\ UNCHANGED retry
  BY <1>1 DEF Singly
<1>2. ASSUME NEW k \in 1 .. Len(q) + 1,
             queue' = SubSeq(q, k, Len(q)),
             sent' = [i \in {j \in 1 .. k - 1 : ~Expired(q[j])} |-> q[i].payload],
             retry' = IF k <= Len(q) THEN behind - 1 ELSE retry
      PROVE  /\ Good(queue', n) /\ Singly(sent')
             /\ retry' \in - Half .. Half - 1
  <2>1. Good(queue', n)
    BY <1>2, SuffixGood
  <2>2. ASSUME NEW i \in DOMAIN sent', NEW j \in DOMAIN sent', i # j
        PROVE  sent'[i] # sent'[j]
    <3>1. /\ i \in 1 .. k - 1 /\ ~Expired(q[i]) /\ sent'[i] = q[i].payload
          /\ j \in 1 .. k - 1 /\ ~Expired(q[j]) /\ sent'[j] = q[j].payload
      BY <1>2
    <3>2. i \in DOMAIN q /\ j \in DOMAIN q /\ (i < j \/ j < i)
      <4>1. q \in Seq(Frames)
        BY DEF Good
      <4> QED
        BY <2>2, <3>1, <4>1
    <3> QED
      BY <3>1, <3>2, SentSingly
  <2>3. retry' \in - Half .. Half - 1
    <3>1. behind - 1 \in - Half .. Half - 1
      BY Constants DEF Passing
    <3> QED
      BY <1>2, <3>1
  <2> QED
    BY <2>1, <2>2, <2>3 DEF Singly
<1> QED
  BY <1>1, <1>2 DEF Drain


-----------------------------------------------------------------------------
(* The BAM session over a pass.                                            *)

(* What the constants say of a multi-packet PGN.                           *)
LEMMA LongIs ==
  ASSUME NEW p \in Long
  PROVE  /\ p \in PGNs /\ Packets[p] \in Nat /\ Packets[p] >= 1
         /\ AbortLate + MaxPass + Gap <= Half
<1>1. p \in PGNs /\ Packets[p] \in Nat /\ Packets[p] >= 1
  BY SchedulerAssumption
<1>2. Period[p] \in Nat /\ Period[p] <= MaxPeriod
  BY <1>1, Constants
<1> DEFINE x == AbortLate + MaxPass
<1>3. x \in Nat /\ Gap \in Nat
  BY Constants
<1>4. (Packets[p] + 1) * x + Packets[p] * Gap <= Period[p]
  BY SessionsFit
<1>5. (Packets[p] + 1) * x >= x /\ Packets[p] * Gap >= Gap
        /\ (Packets[p] + 1) * x \in Nat /\ Packets[p] * Gap \in Nat
  <2> HIDE DEF x
  <2>1. (Packets[p] + 1) * x = Packets[p] * x + x /\ Packets[p] * x \in Nat
    BY <1>1, <1>3
  <2>2. Packets[p] * Gap = (Packets[p] - 1) * Gap + Gap /\ (Packets[p] - 1) * Gap \in Nat
    <3>1. Packets[p] - 1 \in Nat
      BY <1>1
    <3> QED
      BY <1>1, <1>3, <3>1
  <2> QED
    BY <1>1, <1>3, <2>1, <2>2
<1>6. x + Gap <= Half
  <2> DEFINE y == (Packets[p] + 1) * x
             z == Packets[p] * Gap
  <2>1. y \in Nat /\ z \in Nat /\ y >= x /\ z >= Gap /\ y + z <= Period[p]
    BY <1>4, <1>5
  <2> HIDE DEF x, y, z
  <2> QED
    BY <1>2, <1>3, <2>1, Constants
<1> QED
  BY <1>1, <1>6

(* A step of the BAM session keeps its times in range or ends it.          *)
LEMMA SessionKeeps ==
  ASSUME behind \in 0 .. MaxPass, NEW s, SessionAt(s, behind), TpProcess(s)
  PROVE  tp' = NONE \/ SessionAt(tp', 0)
<1>1. /\ s \in Sessions /\ s.pgn \in Long /\ s.packet \in Nat
      /\ s.slot \in Int /\ s.next \in Int /\ behind \in Int
      /\ behind >= 0 /\ behind <= MaxPass
  BY DEF SessionAt, Sessions
<1>2. /\ Packets[s.pgn] \in Nat /\ Packets[s.pgn] >= 1
      /\ AbortLate + MaxPass + Gap <= Half
  BY <1>1, LongIs
<1>3. /\ s.slot >= - Gap /\ s.slot - behind < AbortLate + MaxPass
      /\ s.next >= - Gap - 1 /\ s.next - behind < MaxPass
      /\ s.slot = s.next \/ s.next - behind >= -1
      /\ s.next - behind < 0 => s.slot - behind < AbortLate
      /\ s.pgn \in Configured /\ s.packet <= Packets[s.pgn]
  BY DEF SessionAt
<1>4. Reached(s.next) <=> s.next >= behind
  <2>1. - Half <= s.next - behind /\ s.next - behind < Half
    BY <1>1, <1>2, <1>3, Constants
  <2> QED
    BY <1>1, <2>1, ReachedIs
<1>5. Reached(s.slot - AbortLate) <=> s.slot - AbortLate >= behind
  <2> DEFINE age == s.slot - AbortLate
  <2>1. age \in Int /\ - Half <= age - behind /\ age - behind < Half
    BY <1>1, <1>2, <1>3, Constants
  <2> HIDE DEF age
  <2>2. Reached(age) <=> age >= behind
    BY <1>1, <2>1, ReachedIs
  <2> QED
    BY <2>2 DEF age
<1>6. CASE s.next < behind
  <2>1. tp' = s \/ tp' = NONE
    BY <1>1, <1>4, <1>6 DEF TpProcess
  <2>2. SessionAt(s, 0)
    BY <1>1, <1>3, <1>6, Constants DEF SessionAt
  <2> QED
    BY <2>1, <2>2
<1>7. CASE s.next >= behind
  <2>0. \/ tp' = NONE
        \/ /\ s.slot - AbortLate < behind
           /\ \/ tp' = [s EXCEPT !.next = behind - 1]
              \/ /\ s.packet < Packets[s.pgn]
                 /\ tp' = [s EXCEPT !.packet = @ + 1, !.slot = behind - Gap,
                                    !.next = behind - Gap]
    BY <1>1, <1>2, <1>4, <1>5, <1>7, Constants DEF TpProcess
  <2>1. CASE /\ s.slot - AbortLate < behind
             /\ tp' = [s EXCEPT !.next = behind - 1]
    <3>1. tp' \in Sessions /\ tp'.pgn = s.pgn /\ tp'.packet = s.packet
          /\ tp'.slot = s.slot /\ tp'.next = behind - 1
      BY <1>1, <2>1 DEF Sessions
    <3> QED
      BY <1>1, <1>3, <2>1, <3>1, Constants DEF SessionAt
  <2>2. CASE /\ s.packet < Packets[s.pgn]
             /\ tp' = [s EXCEPT !.packet = @ + 1, !.slot = behind - Gap,
                                !.next = behind - Gap]
    <3>1. tp' \in Sessions /\ tp'.pgn = s.pgn /\ tp'.packet = s.packet + 1
          /\ tp'.slot = behind - Gap /\ tp'.next = behind - Gap
      <4>1. behind - Gap \in Int /\ s.packet + 1 \in Nat
        BY <1>1, Constants
      <4> QED
        BY <1>1, <2>2, <4>1 DEF Sessions
    <3> QED
      BY <1>1, <1>2, <1>3, <2>2, <3>1, Constants DEF SessionAt
  <2> QED
    BY <2>0, <2>1, <2>2
<1> QED
  BY <1>1, <1>6, <1>7

(* A new session has them in range.                                        *)
LEMMA NewSessionIs ==
  ASSUME behind \in 0 .. MaxPass, NEW p \in Long \cap Configured
  PROVE  SessionAt(NewSession(p), behind)
<1>1. Packets[p] \in Nat
  BY LongIs
<1>2. NewSession(p) = [pgn |-> p, packet |-> 0, slot |-> behind, next |-> behind]
  BY DEF NewSession
<1> QED
  BY <1>1, <1>2, Constants DEF SessionAt, Sessions


-----------------------------------------------------------------------------
(* One pass preserves the invariant.                                       *)

(* The PGN that gets the next session is multi-packet and configured.      *)
LEMMA BegunIs ==
  ASSUME TableInv, PendingInv, Resumed \cup Begun # {}
  PROVE  table[Min(Resumed \cup Begun)] \in Long \cap Configured
<1> DEFINE R == {i \in DOMAIN table : table[i] \in pending}
<1>0. DOMAIN table \in SUBSET Nat
  BY DEF TableInv
<1>1. \A x \in Nat : Min({x}) = x
  <2> SUFFICES ASSUME NEW x \in Nat PROVE Min({x}) = x
    OBVIOUS
  <2> QED
    BY MinIs
<1>2. LongDue \in SUBSET DOMAIN table /\ \A i \in LongDue : table[i] \in Long
  BY DEF LongDue, DueSlots
<1>3. CASE Resumed # {}
  <2>1. pending # {} /\ Resumed = {Min(R)} /\ Begun = {}
    BY <1>3 DEF Resumed, Begun
  <2>2. R # {} /\ R \in SUBSET Nat
    BY <1>0, <2>1 DEF PendingInv, Configured
  <2>3. Min(R) \in R
    BY <2>2, MinIs
  <2> HIDE DEF R
  <2>4. Min(Resumed \cup Begun) = Min(R)
    BY <1>1, <2>1, <2>2, <2>3
  <2> QED
    BY <2>3, <2>4 DEF R, PendingInv
<1>4. CASE Resumed = {}
  <2>1. LongDue # {} /\ Begun = {Min(LongDue)}
    BY <1>4 DEF Begun
  <2>2. Min(LongDue) \in LongDue
    BY <1>0, <1>2, <2>1, MinIs
  <2>3. Min(Resumed \cup Begun) = Min(LongDue)
    BY <1>0, <1>1, <1>2, <1>4, <2>1, <2>2
  <2> QED
    BY <1>2, <2>2, <2>3 DEF Configured
<1> QED
  BY <1>3, <1>4

(* One tick of a running scheduler keeps the invariant.                    *)
LEMMA TickKeeps ==
  ASSUME SchedulerInv, running, Tick, running' = running, table' = table, behind' = 0
  PROVE  /\ DueInv' /\ PendingInv' /\ QueueInv' /\ TpInv'
         /\ retry' \in - Half .. Half - 1 /\ Singly(sent')
<1> DEFINE m == Len(table)
<1>0. /\ Passing /\ m \in Nat /\ DOMAIN table = 1 .. m
      /\ behind \in Int /\ behind >= 0 /\ behind <= MaxPass
  BY DEF SchedulerInv, Passing, ClockInv, TableInv
<1>1. Configured' = Configured /\ Frames' = Frames
  BY DEF Configured, Frames
<1>2. Good(queue', m) /\ retry' \in - Half .. Half - 1 /\ Singly(sent')
  <2>1. Good(Filled, m) /\ Drain(Filled) /\ retry \in - Half .. Half - 1
    BY <1>0, FilledIs DEF Tick, SchedulerInv, ClockInv
  <2> QED
    BY <1>0, <2>1, DrainKeeps
<1>3. due' = [p \in Configured |-> IF Reached(due[p]) THEN NextDue(p) ELSE due[p]]
  BY DEF Tick
<1>4. ASSUME NEW p \in Configured
      PROVE  /\ due'[p] \in Int /\ due'[p] >= - Period[p] /\ due'[p] <= MaxPass
             /\ due'[p] <= DueAfter(m)[p]
  <2>1. /\ p \in PGNs /\ due[p] \in Int /\ due[p] >= - Period[p]
        /\ Reached(due[p]) <=> due[p] >= behind
    BY <1>0, DueIs DEF Passing
  <2>2. Period[p] \in Nat /\ Period[p] >= 1
    BY <2>1, Constants
  <2>3. PICK i \in DOMAIN table : table[i] = p
    BY DEF Configured
  <2>4. CASE Reached(due[p])
    <3>1. i \in DueSlots
      BY <2>3, <2>4 DEF DueSlots
    <3>2. /\ Frame(i).age \in Nat /\ Frame(i).age >= behind
          /\ Frame(i).age < behind + Period[p]
          /\ NextDue(p) = Frame(i).age - Period[p]
      BY <1>0, <2>3, <3>1, FrameIs DEF Passing
    <3>3. due'[p] = NextDue(p) /\ NextDue(p) < due[p]
      BY <1>0, <1>3, <2>4, DueAfterIs
    <3>4. due'[p] <= DueAfter(m)[p]
      <4>1. DueAfter(m)[p] = NextDue(p) \/ DueAfter(m)[p] = due[p]
        BY DEF DueAfter
      <4> QED
        BY <2>1, <2>2, <3>2, <3>3, <4>1
    <3> QED
      BY <1>0, <2>1, <2>2, <3>2, <3>3, <3>4, Constants
  <2>5. CASE ~ Reached(due[p])
    <3>1. due'[p] = due[p]
      BY <1>3, <2>5
    <3>2. DueAfter(m)[p] = due[p]
      BY <2>5 DEF DueAfter, DueSlots
    <3> QED
      BY <1>0, <2>1, <2>5, <3>1, <3>2, Constants
  <2> QED
    BY <2>4, <2>5
<1>5. DueInv'
  <2>1. due' \in [Configured -> Int]
    BY <1>3, <1>4
  <2>2. \A p \in Configured : due'[p] <= 2 * MaxPass /\ due'[p] - behind' <= MaxPass
    BY <1>4, Constants
  <2> QED
    BY <1>1, <1>4, <2>1, <2>2 DEF DueInv
<1>6. PendingInv'
  <2>1. \A i \in LongDue : table[i] \in Long \cap Configured
    BY DEF LongDue, DueSlots, Configured
  <2>2. pending' \subseteq Long \cap Configured
    BY <2>1 DEF Tick, SchedulerInv, PendingInv
  <2> QED
    BY <1>1, <2>2 DEF PendingInv
<1>7. QueueInv'
  <2>1. /\ queue' \in Seq(Frames) /\ Len(queue') <= QueueCapacity
        /\ Valid(queue') /\ DueBy(queue', behind) /\ Succeed(queue')
        /\ Ahead(queue', DueAfter(m))
    BY <1>2 DEF Good
  <2>2. Ahead(queue', due')
    <3>1. ASSUME NEW i \in DOMAIN queue' PROVE Late(queue'[i], due'[table[queue'[i].slot]])
      <4>1. queue'[i] \in Frames /\ table[queue'[i].slot] \in Configured
        BY <1>0, <2>1, FramesAre DEF Passing
      <4>2. Late(queue'[i], DueAfter(m)[table[queue'[i].slot]])
        BY <2>1 DEF Ahead
      <4>3. DueAfter(m)[table[queue'[i].slot]] \in Int
        BY <1>0, <4>1, DueAfterIs
      <4> QED
        BY <1>0, <1>4, <4>1, <4>2, <4>3, LateIs DEF Passing
    <3> QED
      BY <3>1 DEF Ahead
  <2>3. Valid(queue)' /\ Succeed(queue)' /\ Ahead(queue, due)'
    BY <2>1, <2>2 DEF Valid, Succeed, Ahead, Late
  <2>4. DueBy(queue, behind)'
    <3>1. \A i \in DOMAIN queue' : queue'[i].age \in 0 .. Ancient
      <4>1. \A i \in DOMAIN queue' : queue'[i] \in Frames
        BY <2>1
      <4> QED
        BY <1>0, <4>1, FramesAre DEF Passing
    <3>2. \A i \in DOMAIN queue' : queue'[i].age >= 0
      BY <3>1, Constants
    <3> QED
      BY <3>2 DEF DueBy
  <2> QED
    BY <1>1, <2>1, <2>3, <2>4 DEF QueueInv
<1>8. TpInv'
  <2> DEFINE begun == Resumed \cup Begun
             s == IF begun = {} THEN tp ELSE NewSession(table[Min(begun)])
  <2>1. TpProcess(s)
    BY DEF Tick
  <2>2. s = NONE \/ SessionAt(s, behind)
    <3>1. CASE begun = {}
      BY <3>1 DEF SchedulerInv, TpInv
    <3>2. CASE begun # {}
      <4>1. table[Min(begun)] \in Long \cap Configured
        BY <3>2, BegunIs DEF SchedulerInv
      <4> QED
        BY <3>2, <4>1, NewSessionIs DEF SchedulerInv, ClockInv
    <3> QED
      BY <3>1, <3>2
  <2> HIDE DEF s
  <2>3. tp' = NONE \/ SessionAt(tp', 0)
    <3>1. CASE s = NONE
      BY <2>1, <3>1 DEF TpProcess
    <3>2. CASE s # NONE
      BY <2>1, <2>2, <3>2, SessionKeeps DEF SchedulerInv, ClockInv
    <3> QED
      BY <3>1, <3>2
  <2>4. SessionAt(tp', 0) => SessionAt(tp, behind)'
    BY <1>1 DEF SessionAt, Sessions
  <2> QED
    BY <2>3, <2>4 DEF TpInv
<1> QED
  BY <1>2, <1>5, <1>6, <1>7, <1>8


(* The first slots of the PGNs of one period are spread over it, none of   *)
(* them later than a period after the START.                               *)
LEMMA PhaseIs ==
  ASSUME TableInv, NEW i \in DOMAIN table
  PROVE  Phase(i) \in 1 .. Period[table[i]]
<1> DEFINE peers == {j \in DOMAIN table : Period[table[j]] = Period[table[i]]}
           before == {j \in peers : j < i}
           rank == Cardinality(before)
           n == Cardinality(peers)
           P == Period[table[i]]
<1>1. /\ Len(table) \in Nat /\ DOMAIN table = 1 .. Len(table)
      /\ table[i] \in PGNs /\ i \in Nat
  BY DEF TableInv
<1>2. P \in Nat /\ P >= 1
  BY <1>1, Constants
<1>3. IsFiniteSet(peers) /\ n \in Nat
  <2>1. IsFiniteSet(DOMAIN table)
    BY <1>1, FS_Interval
  <2>2. IsFiniteSet(peers)
    BY <2>1, FS_Subset
  <2> QED
    BY <2>2, FS_CardinalityType
<1>4. rank \in Nat /\ rank < n
  <2>1. before \in SUBSET peers /\ i \in peers /\ i \notin before
    BY <1>1
  <2>2. /\ IsFiniteSet(before) /\ rank <= n
        /\ rank = n => before = peers
    BY <1>3, <2>1, FS_Subset
  <2>3. rank \in Nat /\ rank # n
    BY <2>1, <2>2, FS_CardinalityType
  <2> QED
    BY <1>3, <2>2, <2>3
<1>5. Phase(i) = ((rank + 1) * P + n - 1) \div n
  BY DEF Phase
<1> HIDE DEF peers, before, rank, n, P
<1> DEFINE a == (rank + 1) * P
           x == a + n - 1
           y == x \div n
<1>6. a \in Nat /\ a >= 1 /\ a <= n * P
  <2>1. a = rank * P + P /\ rank * P \in Nat
    BY <1>2, <1>4
  <2>2. n - (rank + 1) \in Nat
    BY <1>3, <1>4
  <2>3. (n - (rank + 1)) * P \in Nat
    BY <1>2, <2>2
  <2>4. n * P = a + (n - (rank + 1)) * P
    BY <1>2, <1>3, <1>4
  <2> QED
    BY <1>2, <2>1, <2>3, <2>4
<1> HIDE DEF a
<1>7. x \in Nat /\ n >= 1 /\ n * P \in Nat
  BY <1>2, <1>3, <1>4, <1>6
<1>8. y \in Nat /\ y * n <= x /\ x - y * n < n
  BY <1>3, <1>7, Division
<1> HIDE DEF y
<1>9. y >= 1
  <2>1. ASSUME y = 0 PROVE FALSE
    BY <1>3, <1>6, <1>8, <2>1
  <2> QED
    BY <1>8, <2>1
<1>10. y <= P
  <2>1. ASSUME y > P PROVE FALSE
    <3>1. y - (P + 1) \in Nat
      BY <1>2, <1>8, <2>1
    <3>2. (y - (P + 1)) * n \in Nat
      BY <1>3, <3>1
    <3>3. y * n = (y - (P + 1)) * n + n * P + n
      BY <1>2, <1>3, <1>8
    <3>4. y * n \in Nat
      BY <1>3, <1>8
    <3> QED
      BY <1>3, <1>6, <1>7, <1>8, <3>2, <3>3, <3>4
  <2> QED
    BY <1>2, <1>8, <2>1
<1> QED
  BY <1>2, <1>5, <1>8, <1>9, <1>10 DEF P, y, a, rank, n, before, peers


-----------------------------------------------------------------------------
(* The commands preserve the invariant.                                    *)

(* So does START ...                                                       *)
LEMMA StartKeeps ==
  ASSUME SchedulerInv, NEW d \in Durations, Start(d)
  PROVE  SchedulerInv' /\ Singly(sent')
<1>0. table' = table /\ behind' = behind /\ running' = TRUE
  BY DEF Start
<1>1. Configured' = Configured
  BY <1>0 DEF Configured
<1>2. DueInv'
  <2>1. ASSUME NEW p \in Configured PROVE due'[p] \in - Period[p] .. -1
    <3> DEFINE i == CHOOSE i \in DOMAIN table : table[i] = p
    <3>1. i \in DOMAIN table /\ table[i] = p
      BY DEF Configured
    <3>2. due'[p] = - Phase(i)
      BY DEF Start
    <3> HIDE DEF i
    <3>3. Phase(i) \in 1 .. Period[p]
      BY <3>1, PhaseIs DEF SchedulerInv
    <3>4. Period[p] \in Nat
      BY <3>1, Constants DEF SchedulerInv, TableInv
    <3> QED
      BY <3>2, <3>3, <3>4
  <2>2. ASSUME NEW p \in Configured
        PROVE  due'[p] \in Int /\ due'[p] >= - Period[p] /\ due'[p] < 0
    <3>1. p \in PGNs
      BY DEF SchedulerInv, TableInv, Configured
    <3>2. Period[p] \in Nat
      BY <3>1, Constants
    <3> QED
      BY <2>1, <3>2
  <2>3. due' \in [Configured -> Int]
    BY <2>2 DEF Start
  <2>4. behind \in Int /\ behind >= 0
    BY DEF SchedulerInv, ClockInv
  <2>5. \A p \in Configured : due'[p] <= 2 * MaxPass /\ due'[p] - behind' <= MaxPass
    BY <1>0, <2>2, <2>4, Constants
  <2> QED
    BY <1>1, <2>2, <2>3, <2>5 DEF DueInv
<1>3. queue' = << >> /\ pending' = {} /\ tp' = NONE /\ sent' = << >>
  BY DEF Start
<1>4. QueueInv'
  BY <1>3, Constants DEF QueueInv, Valid, DueBy, Succeed, Ahead
<1>5. PendingInv' /\ TpInv' /\ TableInv' /\ Singly(sent')
  BY <1>0, <1>3 DEF PendingInv, TpInv, TableInv, SchedulerInv, Singly
<1>6. ClockInv'
  BY <1>0, Constants DEF Start, SchedulerInv, ClockInv
<1> QED
  BY <1>0, <1>2, <1>4, <1>5, <1>6 DEF SchedulerInv

(* STOP, and a change of the bitrate.                                      *)
LEMMA StopKeeps ==
  ASSUME SchedulerInv, Stop \/ SetBaud
  PROVE  SchedulerInv' /\ Singly(sent')
<1>0. /\ table' = table /\ due' = due /\ pending' = pending /\ queue' = queue
      /\ retry' = retry /\ behind' = behind /\ started' = started /\ duration' = duration
      /\ tp' = NONE /\ sent' = << >> /\ (running' = FALSE \/ running' = running)
  BY DEF Stop, SetBaud, timer
<1>1. Configured' = Configured /\ Frames' = Frames
  BY <1>0 DEF Configured, Frames
<1>2. TableInv' /\ DueInv' /\ PendingInv' /\ TpInv' /\ ClockInv'
  BY <1>0, <1>1 DEF SchedulerInv, TableInv, DueInv, PendingInv, TpInv, ClockInv
<1>3. Valid(queue)' = Valid(queue) /\ DueBy(queue, behind)' = DueBy(queue, behind)
      /\ Succeed(queue)' = Succeed(queue) /\ Ahead(queue, due)' = Ahead(queue, due)
  BY <1>0 DEF Valid, DueBy, Succeed, Ahead, Late
<1>4. QueueInv'
  BY <1>0, <1>1, <1>3 DEF SchedulerInv, QueueInv
<1>5. running' \in BOOLEAN
  BY <1>0 DEF SchedulerInv
<1> QED
  BY <1>0, <1>2, <1>4, <1>5 DEF SchedulerInv, Singly

(* ... the rebuild of a commit ...                                         *)
LEMMA BuildKeeps ==
  ASSUME SchedulerInv, NEW pgns \in SUBSET PGNs, Build(pgns),
         behind' = behind, UNCHANGED timer, running' = FALSE
  PROVE  SchedulerInv' /\ Singly(sent')
<1>1. table' \in Seq(PGNs) /\ Distinct(table') /\ {table'[i] : i \in DOMAIN table'} = pgns
  BY InOrderEnumerates DEF Build, Enumerates
<1>2. Configured' = pgns /\ TableInv'
  BY <1>1 DEF Configured, TableInv, Distinct
<1>3. due' = [p \in pgns |-> - Period[p]]
  BY DEF Build
<1>4. ASSUME NEW p \in pgns
      PROVE  due'[p] \in Int /\ due'[p] >= - Period[p] /\ due'[p] <= 2 * MaxPass
  <2>1. Period[p] \in Nat
    BY Constants
  <2> QED
    BY <1>3, <2>1, Constants
<1>5. DueInv'
  <2>1. due' \in [pgns -> Int]
    BY <1>3, <1>4
  <2> QED
    BY <1>2, <1>4, <2>1 DEF DueInv
<1>6. queue' = << >> /\ pending' = {} /\ tp' = NONE /\ sent' = << >> /\ retry' = 0
  BY DEF Build
<1>7. QueueInv'
  BY <1>6, Constants DEF QueueInv, Valid, DueBy, Succeed, Ahead
<1>8. PendingInv' /\ TpInv' /\ Singly(sent')
  BY <1>6 DEF PendingInv, TpInv, Singly
<1>9. ClockInv'
  BY <1>6, Constants DEF SchedulerInv, ClockInv, timer
<1> QED
  BY <1>2, <1>5, <1>7, <1>8, <1>9 DEF SchedulerInv


(* A PGN added to the table takes a new slot: those of the frames queued   *)
(* keep theirs.                                                            *)
LEMMA AddKeeps ==
  ASSUME SchedulerInv, NEW p \in Added, AddPgn(p)
  PROVE  SchedulerInv' /\ Singly(sent')
<1> DEFINE m == Len(table)
<1>0. /\ p \in PGNs /\ p \notin Configured /\ table' = Append(table, p)
      /\ queue' = queue /\ tp' = tp /\ pending' = pending /\ running' = running
      /\ behind' = behind /\ retry' = retry /\ started' = started
      /\ duration' = duration /\ sent' = << >>
  BY SchedulerAssumption DEF AddPgn, timer
<1>1. table \in Seq(PGNs) /\ Distinct(table) /\ m \in Nat /\ DOMAIN table = 1 .. m
  BY DEF SchedulerInv, TableInv
<1>2. /\ table' \in Seq(PGNs) /\ DOMAIN table' = 1 .. m + 1 /\ table'[m + 1] = p
      /\ \A i \in DOMAIN table : table'[i] = table[i] /\ i \in DOMAIN table'
  BY <1>0, <1>1
<1>3. Configured' = Configured \cup {p}
  <2>1. \A i \in DOMAIN table' : i \in DOMAIN table \/ i = m + 1
    BY <1>1, <1>2
  <2>2. m + 1 \in DOMAIN table'
    BY <1>1, <1>2
  <2> QED
    BY <1>2, <2>1, <2>2 DEF Configured
<1>4. TableInv'
  <2>1. ASSUME NEW i \in DOMAIN table', NEW j \in DOMAIN table', table'[i] = table'[j]
        PROVE  i = j
    <3>1. \A k \in DOMAIN table : table[k] # p
      BY <1>0 DEF Configured
    <3>2. (i \in DOMAIN table \/ i = m + 1) /\ (j \in DOMAIN table \/ j = m + 1)
      BY <1>1, <1>2
    <3> QED
      BY <1>1, <1>2, <2>1, <3>1, <3>2 DEF Distinct
  <2> QED
    BY <1>2, <2>1 DEF TableInv, Distinct
<1>5. DueInv'
  <2>1. due' = [q \in Configured \cup {p} |-> IF q = p THEN - Period[p] ELSE due[q]]
    BY DEF AddPgn
  <2>2. behind \in Int /\ behind >= 0 /\ Period[p] \in Nat
    BY <1>0, Constants DEF SchedulerInv, ClockInv
  <2>3. ASSUME NEW q \in Configured \cup {p}
        PROVE  /\ due'[q] \in Int /\ due'[q] >= - Period[q] /\ due'[q] <= 2 * MaxPass
               /\ running' => due'[q] - behind' <= MaxPass
    <3>1. CASE q = p
      BY SMTT(30), <2>1, <2>2, <3>1, <1>0, Constants
    <3>2. CASE q \in Configured /\ q # p
      BY <1>0, <2>1, <3>2 DEF SchedulerInv, DueInv
    <3> QED
      BY <3>1, <3>2
  <2>4. due' \in [Configured' -> Int]
    BY <1>3, <2>1, <2>3
  <2> QED
    BY <1>3, <2>3, <2>4 DEF DueInv
<1>6. PendingInv' /\ ClockInv' /\ Singly(sent')
  BY <1>0, <1>3 DEF SchedulerInv, PendingInv, ClockInv, Singly
<1>7. TpInv'
  BY <1>0, <1>3 DEF SchedulerInv, TpInv, SessionAt
<1>8. QueueInv'
  <2>1. Frames \subseteq Frames'
    BY <1>2 DEF Frames
  <2>2. /\ queue \in Seq(Frames) /\ Len(queue) <= QueueCapacity
        /\ Valid(queue)
        /\ running => DueBy(queue, behind) /\ Succeed(queue) /\ Ahead(queue, due)
    BY DEF SchedulerInv, QueueInv
  <2>3. queue' \in Seq(Frames')
    BY <1>0, <2>1, <2>2
  <2>4. ASSUME NEW i \in DOMAIN queue
        PROVE  /\ table'[queue[i].slot] = table[queue[i].slot]
               /\ table[queue[i].slot] \in Configured
    <3>1. queue[i] \in Frames
      BY <2>2
    <3> QED
      BY <1>2, <3>1, FramesAre DEF SchedulerInv
  <2>5. Valid(queue)'
    BY <1>0, <2>2, <2>4 DEF Valid
  <2>6. \A q \in Configured : due'[q] = due[q]
    BY <1>0 DEF AddPgn
  <2>7. ASSUME running PROVE DueBy(queue, behind)' /\ Succeed(queue)' /\ Ahead(queue, due)'
    <3>1. DueBy(queue, behind)'
      BY <1>0, <2>2, <2>7 DEF DueBy
    <3>2. Succeed(queue)'
      BY <1>0, <2>2, <2>4, <2>7 DEF Succeed, Late
    <3>3. Ahead(queue, due)'
      <4>1. ASSUME NEW i \in DOMAIN queue
            PROVE  queue[i].age >=
                     AtMost(due'[table'[queue[i].slot]] + Period[table'[queue[i].slot]],
                            Ancient)
        <5>1. Late(queue[i], due[table[queue[i].slot]])
          BY <2>2, <2>7 DEF Ahead
        <5>2. due'[table[queue[i].slot]] = due[table[queue[i].slot]]
          BY <2>4, <2>6
        <5> QED
          BY <2>4, <5>1, <5>2 DEF Late
      <4> QED
        BY <1>0, <4>1 DEF Ahead, Late
    <3> QED
      BY <3>1, <3>2, <3>3
  <2> QED
    BY <1>0, <2>2, <2>3, <2>5, <2>7 DEF QueueInv
<1> QED
  BY <1>0, <1>4, <1>5, <1>6, <1>7, <1>8 DEF SchedulerInv

-----------------------------------------------------------------------------
(* So does the clock.                                                      *)

(* ... the passage of time ...                                             *)
LEMMA ElapseKeeps ==
  ASSUME SchedulerInv, NEW d \in 1 .. MaxPass, Elapse(d)
  PROVE  SchedulerInv' /\ Singly(sent')
<1>0. /\ table' = table /\ pending' = pending /\ running' = running
      /\ duration' = duration /\ sent' = << >>
      /\ behind' = behind + d /\ behind + d <= MaxPass
      /\ behind \in Int /\ behind >= 0 /\ behind <= MaxPass /\ d \in Int /\ d >= 1 /\ d <= MaxPass
  BY Constants DEF Elapse, SchedulerInv, ClockInv
<1>1. Configured' = Configured /\ Frames' = Frames
  BY <1>0 DEF Configured, Frames
<1>2. TableInv' /\ PendingInv' /\ Singly(sent') /\ running' \in BOOLEAN
  BY <1>0, <1>1 DEF SchedulerInv, TableInv, PendingInv, Singly
<1>3. behind' \in 0 .. MaxPass
  BY <1>0
<1>4. CASE ~running
  <2>0. due' = due /\ queue' = queue /\ retry' = retry /\ tp' = tp /\ started' = started
    BY <1>4 DEF Elapse
  <2>1. DueInv'
    BY <1>0, <1>1, <1>4, <2>0 DEF SchedulerInv, DueInv
  <2>2. Valid(queue)' = Valid(queue)
    BY <1>0, <2>0 DEF Valid
  <2>3. QueueInv'
    BY <1>0, <1>1, <1>4, <2>0, <2>2 DEF SchedulerInv, QueueInv
  <2>4. TpInv' /\ ClockInv'
    BY <1>0, <1>3, <1>4, <2>0 DEF SchedulerInv, TpInv, ClockInv
  <2> QED
    BY <1>2, <2>1, <2>3, <2>4 DEF SchedulerInv
<1>5. CASE running
  <2>0. /\ due' = [p \in Configured |-> due[p] + d]
        /\ queue' = [i \in DOMAIN queue |->
                       [queue[i] EXCEPT !.age = AtMost(@ + d, Ancient)]]
        /\ retry' = IF AtMostHalfATurn THEN AtMost(retry + d, MaxPass + 1)
                    ELSE Signed(retry + d)
        /\ tp' = IF tp = NONE THEN NONE
                 ELSE [tp EXCEPT !.slot = @ + d, !.next = @ + d]
        /\ started' = IF duration = 0 THEN 0 ELSE (started + d) % TimeModulus
    BY <1>5 DEF Elapse
  <2>1. DueInv'
    <3>1. ASSUME NEW p \in Configured
          PROVE  /\ due'[p] \in Int /\ due'[p] >= - Period[p] /\ due'[p] <= 2 * MaxPass
                 /\ due'[p] - behind' <= MaxPass
      <4>1. /\ due[p] \in Int /\ due[p] >= - Period[p] /\ due[p] - behind <= MaxPass
            /\ due'[p] = due[p] + d /\ p \in PGNs
        BY <1>5, <2>0 DEF SchedulerInv, DueInv, Configured, TableInv
      <4>2. Period[p] \in Nat
        BY <4>1, Constants
      <4> QED
        BY SMTT(30), <1>0, <4>1, <4>2, Constants
    <3>2. due' \in [Configured -> Int]
      BY <2>0, <3>1
    <3> QED
      BY <1>1, <3>1, <3>2 DEF DueInv
  <2>2. QueueInv'
    <3>1. /\ queue \in Seq(Frames) /\ Len(queue) <= QueueCapacity
          /\ Valid(queue) /\ DueBy(queue, behind) /\ Succeed(queue) /\ Ahead(queue, due)
      BY <1>5 DEF SchedulerInv, QueueInv
    <3>2. ASSUME NEW i \in DOMAIN queue
          PROVE  /\ queue'[i] \in Frames /\ queue'[i].slot = queue[i].slot
                 /\ queue'[i].payload = queue[i].payload
                 /\ queue'[i].age = AtMost(queue[i].age + d, Ancient)
                 /\ queue[i] \in Frames /\ queue[i].age \in Int
                 /\ Period[table[queue[i].slot]] \in Nat
                 /\ table[queue[i].slot] \in Configured
      <4>1. queue[i] \in Frames
        BY <3>1
      <4>2. /\ queue[i].age \in Int /\ queue[i].age >= 0 /\ queue[i].age <= Ancient
            /\ Period[table[queue[i].slot]] \in Nat
            /\ table[queue[i].slot] \in Configured
        BY <4>1, FramesAre, Constants DEF SchedulerInv
      <4> DEFINE age == AtMost(queue[i].age + d, Ancient)
      <4>3. age \in 0 .. Ancient
        BY <1>0, <4>2, Constants DEF AtMost
      <4> HIDE DEF age
      <4>4. queue'[i] = [queue[i] EXCEPT !.age = age]
        BY <2>0 DEF age
      <4>5. queue'[i] \in Frames /\ queue'[i].slot = queue[i].slot
            /\ queue'[i].payload = queue[i].payload /\ queue'[i].age = age
        BY <4>1, <4>3, <4>4 DEF Frames
      <4> QED
        BY <4>1, <4>2, <4>5 DEF age
    <3>3. DOMAIN queue' = DOMAIN queue /\ queue' \in Seq(Frames) /\ Len(queue') = Len(queue)
      <4>1. Len(queue) \in Nat /\ DOMAIN queue = 1 .. Len(queue)
        BY <3>1
      <4>2. queue' \in [1 .. Len(queue) -> Frames]
        BY <2>0, <3>2, <4>1
      <4> QED
        BY <4>1, <4>2
    <3>4. Valid(queue)'
      BY <1>0, <3>1, <3>2, <3>3 DEF Valid
    <3>5. DueBy(queue, behind)'
      <4>1. ASSUME NEW i \in DOMAIN queue PROVE queue'[i].age >= behind'
        <5>1. queue[i].age >= behind
          BY <3>1 DEF DueBy
        <5> QED
          BY <1>0, <3>2, <5>1, Constants DEF AtMost
      <4> QED
        BY <3>3, <4>1 DEF DueBy
    <3>6. Succeed(queue)'
      <4>1. ASSUME NEW i \in DOMAIN queue, NEW j \in DOMAIN queue, i < j,
                   queue[i].slot = queue[j].slot
            PROVE  Late(queue'[i], queue'[j].age)
        <5>1. Late(queue[i], queue[j].age)
          BY <3>1, <4>1 DEF Succeed
        <5> DEFINE P == Period[table[queue[i].slot]]
        <5>2. queue[i].age >= AtMost(queue[j].age + P, Ancient)
          BY <5>1 DEF Late
        <5>3. /\ queue'[i].age = AtMost(queue[i].age + d, Ancient)
              /\ queue'[j].age = AtMost(queue[j].age + d, Ancient)
              /\ queue[i].age \in Int /\ queue[j].age \in Int /\ P \in Nat
              /\ Period[table[queue'[i].slot]] = P
          BY <3>2
        <5> HIDE DEF P
        <5>4. queue'[i].age >= AtMost(queue'[j].age + P, Ancient)
          BY <1>0, <5>2, <5>3, Constants DEF AtMost
        <5> QED
          BY <5>3, <5>4 DEF Late
      <4> QED
        BY <1>0, <3>2, <3>3, <4>1 DEF Succeed, Late
    <3>7. Ahead(queue, due)'
      <4>1. ASSUME NEW i \in DOMAIN queue
            PROVE  Late(queue'[i], due'[table[queue'[i].slot]])
        <5> DEFINE p == table[queue[i].slot]
        <5>1. Late(queue[i], due[p])
          BY <3>1 DEF Ahead
        <5>2. queue[i].age >= AtMost(due[p] + Period[p], Ancient)
          BY <5>1 DEF Late
        <5>3. /\ queue'[i].age = AtMost(queue[i].age + d, Ancient)
              /\ queue[i].age \in Int /\ Period[p] \in Nat
              /\ table[queue'[i].slot] = p /\ p \in Configured
          BY <3>2
        <5>4. due[p] \in Int /\ due'[p] = due[p] + d
          BY <2>0, <5>3 DEF SchedulerInv, DueInv
        <5> HIDE DEF p
        <5>5. queue'[i].age >= AtMost(due'[p] + Period[p], Ancient)
          BY <1>0, <5>2, <5>3, <5>4, Constants DEF AtMost
        <5> QED
          BY <5>3, <5>5 DEF Late
      <4> QED
        BY <1>0, <3>3, <4>1 DEF Ahead, Late
    <3> QED
      BY <1>1, <3>1, <3>3, <3>4, <3>5, <3>6, <3>7 DEF QueueInv
  <2>3. TpInv'
    <3>1. CASE tp = NONE
      BY <2>0, <3>1 DEF TpInv
    <3>2. CASE tp # NONE
      <4>1. SessionAt(tp, behind)
        BY <3>2 DEF SchedulerInv, TpInv
      <4>2. /\ tp \in Sessions /\ tp.slot \in Int /\ tp.next \in Int
            /\ tp' = [tp EXCEPT !.slot = tp.slot + d, !.next = tp.next + d]
        BY <2>0, <3>2, <4>1 DEF SessionAt, Sessions
      <4>3. /\ tp' \in Sessions /\ tp'.pgn = tp.pgn /\ tp'.packet = tp.packet
            /\ tp'.slot = tp.slot + d /\ tp'.next = tp.next + d
        <5>1. tp.slot + d \in Int /\ tp.next + d \in Int
          BY <1>0, <4>2
        <5> QED
          BY <4>2, <5>1 DEF Sessions
      <4>4. SessionAt(tp', behind')
        <5>1. /\ tp.slot >= - Gap /\ tp.slot - behind < AbortLate + MaxPass
              /\ tp.next >= - Gap - 1 /\ tp.next - behind < MaxPass
              /\ tp.slot = tp.next \/ tp.next - behind >= -1
              /\ tp.next - behind < 0 => tp.slot - behind < AbortLate
          BY <4>1 DEF SessionAt
        <5>2. tp'.slot - behind' = tp.slot - behind /\ tp'.next - behind' = tp.next - behind
          BY <1>0, <4>2, <4>3
        <5>3. tp'.slot >= - Gap /\ tp'.next >= - Gap - 1
          <6>1. /\ Gap \in Int /\ d \in Int /\ d >= 0 /\ tp.slot \in Int /\ tp.next \in Int
            BY <1>0, <4>2, Constants
          <6>2. tp.slot + d >= - Gap /\ tp.next + d >= - Gap - 1
            BY <5>1, <6>1
          <6> QED
            BY <4>3, <6>2
        <5>4. tp'.slot = tp'.next \/ tp'.next - behind' >= -1
          BY <4>2, <4>3, <5>1, <5>2
        <5>5. tp'.pgn \in Configured /\ tp'.packet <= Packets[tp'.pgn]
          BY <4>1, <4>3 DEF SessionAt
        <5> QED
          BY <4>3, <5>1, <5>2, <5>3, <5>4, <5>5 DEF SessionAt
      <4>5. SessionAt(tp', behind') = SessionAt(tp, behind)'
        BY <1>1 DEF SessionAt, Sessions
      <4> QED
        BY <1>0, <1>5, <4>4, <4>5 DEF TpInv
    <3> QED
      BY <3>1, <3>2
  <2>4. ClockInv'
    <3>1. /\ Half \in Int /\ retry \in Int /\ retry >= - Half /\ retry <= Half - 1
          /\ duration \in Durations \cup {0}
          /\ TimeModulus \in Nat /\ TimeModulus > 0 /\ started \in Int
      BY Constants DEF SchedulerInv, ClockInv
    <3>2. retry' \in - Half .. Half - 1
      <4>1. AtMost(retry + d, MaxPass + 1) \in - Half .. Half - 1
        <5>1. MaxPass + 1 \in Int /\ MaxPass + 1 <= Half - 1 /\ MaxPass + 1 >= - Half
          BY Constants, PeriodsBounded
        <5>2. retry + d \in Int /\ retry + d >= - Half
          BY <1>0, <3>1
        <5> QED
          BY <3>1, <5>1, <5>2 DEF AtMost
      <4>2. Signed(retry + d) \in - Half .. Half - 1
        <5>1. retry + d \in Int
          BY <1>0, <3>1
        <5> QED
          BY <5>1, SignedType
      <4> QED
        BY <2>0, <4>1, <4>2
    <3>3. started' \in 0 .. TimeModulus - 1
      <4>1. started + d \in Int /\ 0 \in 0 .. TimeModulus - 1
        BY <1>0, <3>1
      <4>2. (started + d) % TimeModulus \in 0 .. TimeModulus - 1
        BY <3>1, <4>1
      <4> QED
        BY <2>0, <4>1, <4>2
    <3> QED
      BY <1>0, <1>3, <3>1, <3>2, <3>3 DEF ClockInv
  <2> QED
    BY <1>2, <2>1, <2>2, <2>3, <2>4 DEF SchedulerInv
<1> QED
  BY <1>4, <1>5


(* ... and a pass of the main loop.                                        *)
LEMMA ProcessKeeps ==
  ASSUME SchedulerInv, Process
  PROVE  SchedulerInv' /\ Singly(sent')
<1>0. /\ table' = table /\ behind' = 0 /\ started' = started /\ duration' = duration
      /\ behind \in Int /\ behind >= 0
  BY DEF Process, timer, SchedulerInv, ClockInv
<1>1. Configured' = Configured /\ Frames' = Frames /\ TableInv'
  BY <1>0 DEF Configured, Frames, SchedulerInv, TableInv
<1>2. retry' \in - Half .. Half - 1 => ClockInv'
  BY <1>0, Constants DEF SchedulerInv, ClockInv
<1>3. CASE running /\ Tick /\ running' = running
  <2>1. /\ DueInv' /\ PendingInv' /\ QueueInv' /\ TpInv'
        /\ retry' \in - Half .. Half - 1 /\ Singly(sent')
    BY <1>0, <1>3, TickKeeps
  <2> QED
    BY <1>1, <1>2, <1>3, <2>1 DEF SchedulerInv
<1>4. CASE /\ running' = FALSE /\ tp' = NONE /\ sent' = << >>
           /\ UNCHANGED <<due, pending, queue, retry>>
  <2>1. DueInv' /\ PendingInv' /\ TpInv' /\ ClockInv'
    BY <1>0, <1>1, <1>2, <1>4 DEF SchedulerInv, DueInv, PendingInv, TpInv, ClockInv
  <2>2. Valid(queue)' = Valid(queue)
    BY <1>0, <1>4 DEF Valid
  <2>3. QueueInv'
    BY <1>1, <1>4, <2>2 DEF SchedulerInv, QueueInv
  <2>4. running' \in BOOLEAN
    BY <1>4
  <2>5. Singly(sent')
    BY <1>4 DEF Singly
  <2> QED
    BY <1>1, <2>1, <2>3, <2>4, <2>5 DEF SchedulerInv
<1>5. CASE /\ ~running \/ table = << >>
           /\ sent' = << >>
           /\ UNCHANGED <<running, due, pending, queue, retry, tp>>
  <2>1. CASE ~running
    <3>1. running' = FALSE /\ tp' = NONE
      BY <1>5, <2>1 DEF SchedulerInv, TpInv
    <3> QED
      BY <1>4, <1>5, <3>1
  <2>2. CASE running /\ table = << >>
    <3>1. Configured = {} /\ Frames = {}
      BY <2>2 DEF Configured, Frames
    <3>2. queue = << >> /\ tp = NONE
      <4>1. queue \in Seq({})
        BY <3>1 DEF SchedulerInv, QueueInv
      <4> QED
        BY <2>2, <3>1, <4>1 DEF SchedulerInv, TpInv, SessionAt
    <3>3. DueInv' /\ PendingInv' /\ TpInv' /\ ClockInv'
      BY <1>0, <1>1, <1>2, <1>5, <3>1, <3>2
         DEF SchedulerInv, DueInv, PendingInv, TpInv, ClockInv
    <3>4. QueueInv'
      BY <1>5, <3>2, Constants DEF QueueInv, Valid, DueBy, Succeed, Ahead
    <3> QED
      BY <1>1, <1>5, <3>3, <3>4 DEF SchedulerInv, Singly
  <2> QED
    BY <1>5, <2>1, <2>2
<1> QED
  BY <1>3, <1>4, <1>5 DEF Process

(* The invariant holds initially ...                                       *)
LEMMA InitInv == Init => SchedulerInv /\ Singly(sent)
<1> SUFFICES ASSUME Init PROVE SchedulerInv /\ Singly(sent)
  OBVIOUS
<1>1. Configured = {} /\ queue = << >>
  BY DEF Init, Configured
<1>2. QueueInv
  BY <1>1, Constants DEF QueueInv, Valid, DueBy, Succeed, Ahead
<1>3. TableInv /\ DueInv /\ PendingInv /\ TpInv /\ Singly(sent)
  BY <1>1 DEF Init, TableInv, Distinct, DueInv, PendingInv, TpInv, Singly
<1>4. ClockInv
  BY Constants, PeriodsBounded DEF Init, ClockInv
<1> QED
  BY <1>2, <1>3, <1>4 DEF SchedulerInv, Init

(* ... is kept by every step ...                                           *)
LEMMA NextInv ==
  SchedulerInv /\ Singly(sent) /\ [Next]_vars => SchedulerInv' /\ Singly(sent)'
<1> SUFFICES ASSUME SchedulerInv, Singly(sent), [Next]_vars
             PROVE  SchedulerInv' /\ Singly(sent')
  BY DEF Singly
<1>1. CASE Process
  BY <1>1, ProcessKeeps
<1>2. ASSUME NEW d \in Durations, Start(d) PROVE SchedulerInv' /\ Singly(sent')
  BY <1>2, StartKeeps
<1>3. CASE Stop \/ SetBaud
  BY <1>3, StopKeeps
<1>4. CASE Clear
  <2>1. /\ {} \in SUBSET PGNs /\ Build({}) /\ behind' = behind /\ UNCHANGED timer
        /\ running' = FALSE
    BY <1>4 DEF Clear
  <2> QED
    BY <2>1, BuildKeeps
<1>5. ASSUME NEW pgns \in Configurations, Configure(pgns)
      PROVE  SchedulerInv' /\ Singly(sent')
  <2>1. /\ pgns \in SUBSET PGNs /\ Build(pgns) /\ behind' = behind /\ UNCHANGED timer
        /\ running' = FALSE
    BY <1>5, SchedulerAssumption DEF Configure, SchedulerInv
  <2> QED
    BY <2>1, BuildKeeps
<1>6. ASSUME NEW p \in Added, AddPgn(p) PROVE SchedulerInv' /\ Singly(sent')
  BY <1>6, AddKeeps
<1>7. CASE Advance
  BY <1>7, ElapseKeeps DEF Advance
<1>8. CASE UNCHANGED vars
  <2>1. SchedulerInv' = SchedulerInv /\ Singly(sent') = Singly(sent)
    BY <1>8 DEF vars, timer, SchedulerInv, TableInv, Distinct, DueInv, PendingInv,
                QueueInv, TpInv, ClockInv, Configured, Frames, Valid, DueBy, Succeed,
                Ahead, Late, SessionAt, Singly
  <2> QED
    BY <2>1
<1> QED
  BY <1>1, <1>2, <1>3, <1>4, <1>5, <1>6, <1>7, <1>8 DEF Next

(* ... and therefore always holds.                                         *)
LEMMA InvHolds == Spec => [](SchedulerInv /\ Singly(sent))
<1>1. Init => SchedulerInv /\ Singly(sent)
  BY InitInv
<1>2. SchedulerInv /\ Singly(sent) /\ [Next]_vars => (SchedulerInv /\ Singly(sent))'
  BY NextInv
<1> QED
  BY <1>1, <1>2, PTL DEF Spec


-----------------------------------------------------------------------------
(* The theorems.                                                           *)

(* It contains the type invariant.                                         *)
LEMMA InvTypes == SchedulerInv => TypeOK
<1> SUFFICES ASSUME SchedulerInv PROVE TypeOK
  OBVIOUS
<1>1. table \in Seq(PGNs) /\ Len(table) = Cardinality(Configured)
  BY TableCounts DEF SchedulerInv, TableInv
<1>2. DOMAIN due = Configured /\ \A p \in Configured : due[p] \in - Period[p] .. 2 * MaxPass
  <2>1. ASSUME NEW p \in Configured PROVE due[p] \in - Period[p] .. 2 * MaxPass
    <3>1. p \in PGNs
      BY <1>1 DEF Configured
    <3>2. Period[p] \in Nat /\ MaxPass \in Nat
      BY <3>1, Constants
    <3>3. due[p] \in Int /\ due[p] >= - Period[p] /\ due[p] <= 2 * MaxPass
      BY DEF SchedulerInv, DueInv
    <3> QED
      BY <3>2, <3>3
  <2> QED
    BY <2>1 DEF SchedulerInv, DueInv
<1>3. /\ queue \in Seq([slot : DOMAIN table, payload : PGNs, age : 0 .. Ancient])
      /\ Len(queue) <= QueueCapacity
  BY DEF SchedulerInv, QueueInv, Frames
<1>4. retry \in - TimeModulus \div 2 .. TimeModulus \div 2 - 1
  <2>1. - TimeModulus \div 2 = - Half /\ TimeModulus \div 2 = Half
    BY Constants DEF Half
  <2> QED
    BY <2>1 DEF SchedulerInv, ClockInv
<1>5. behind \in 0 .. MaxPass /\ behind \in Int
      /\ started \in 0 .. TimeModulus - 1 /\ duration \in Durations \cup {0}
  BY DEF SchedulerInv, ClockInv
<1>6. ASSUME tp # NONE
      PROVE  /\ tp.pgn \in Long \cap Configured
             /\ tp.packet \in 0 .. Packets[tp.pgn]
             /\ tp.slot \in - Gap .. AbortLate + 2 * MaxPass
             /\ tp.next \in - Gap - 1 .. AbortLate + 2 * MaxPass
  <2>1. /\ tp.pgn \in Long /\ tp.packet \in Nat /\ tp.slot \in Int /\ tp.next \in Int
        /\ tp.pgn \in Configured /\ tp.packet <= Packets[tp.pgn]
        /\ tp.slot >= - Gap /\ tp.slot - behind < AbortLate + MaxPass
        /\ tp.next >= - Gap - 1 /\ tp.next - behind < MaxPass
    BY <1>6 DEF SchedulerInv, TpInv, SessionAt, Sessions
  <2>2. Packets[tp.pgn] \in Nat
    BY <2>1, LongIs
  <2>3. behind <= MaxPass /\ MaxPass \in Nat /\ Gap \in Nat /\ AbortLate \in Nat
    BY <1>5, Constants
  <2> QED
    BY <1>5, <2>1, <2>2, <2>3
<1> QED
  BY <1>1, <1>2, <1>3, <1>4, <1>5, <1>6 DEF TypeOK, SchedulerInv, PendingInv

(* The scheduler's variables keep their ranges: no slot comes due further  *)
(* from the clock than its period or two passes, the queue and the BAM     *)
(* session stay within theirs, and no time stamp that is compared is half  *)
(* a turn of the clock away.                                               *)
THEOREM TypeCorrect == Spec => []TypeOK
<1>1. SchedulerInv /\ Singly(sent) => TypeOK
  BY InvTypes
<1> QED
  BY <1>1, InvHolds, PTL

(* A queued frame is sent as the PGN it was packed for, whatever is        *)
(* configured, cleared or added in the meantime.                           *)
THEOREM SlotsStayValid == Spec => []SlotsValid
<1>1. SchedulerInv /\ Singly(sent) => SlotsValid
  <2> SUFFICES ASSUME SchedulerInv, NEW i \in DOMAIN queue
               PROVE  queue[i].slot \in DOMAIN table /\ PgnOf(queue[i]) = queue[i].payload
    BY DEF SlotsValid
  <2>1. queue[i] \in Frames /\ Valid(queue)
    BY DEF SchedulerInv, QueueInv
  <2> QED
    BY <2>1, FramesAre DEF SchedulerInv, Valid, PgnOf
<1> QED
  BY <1>1, InvHolds, PTL

(* However long the link was out, of the frames of one PGN in the queue    *)
(* all but the last are a full period late, and the last one is when its   *)
(* PGN comes due again.                                                    *)
THEOREM OldFramesSuperseded == Spec => []Superseded
<1>1. SchedulerInv /\ Singly(sent) => Superseded
  <2> SUFFICES ASSUME SchedulerInv, running PROVE Superseded
    BY DEF Superseded
  <2>1. Succeed(queue) /\ Ahead(queue, due)
    BY DEF SchedulerInv, QueueInv
  <2> QED
    BY <2>1 DEF Superseded, Succeed, Ahead, Late, PgnOf
<1> QED
  BY <1>1, InvHolds, PTL

(* No pass sends two frames of one PGN, however late it is and however     *)
(* many frames the link takes in it.                                       *)
THEOREM SentOncePerPass == Spec => []OncePerPass
<1>1. SchedulerInv /\ Singly(sent) => OncePerPass
  BY DEF Singly, OncePerPass
<1> QED
  BY <1>1, InvHolds, PTL

=============================================================================
