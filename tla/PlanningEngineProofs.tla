------------------------ MODULE PlanningEngineProofs ------------------------
(***************************************************************************)
(* Proofs about PlanningEngine, for any factory, snapshots, overrides,     *)
(* weights and sweeps.                                                     *)
(***************************************************************************)
EXTENDS PlanningEngine, FiniteSetTheorems, SequenceTheorems, WellFoundedInduction, TLAPS

-----------------------------------------------------------------------------
(* Natural numbers, bounds and orders.                                       *)

LEMMA LeastNatural ==
  ASSUME NEW S \in SUBSET Nat, S # {}
  PROVE  \E n \in S : \A m \in S : n <= m
  <1>. DEFINE R == OpToRel(<, Nat)
  <1>1. IsWellFoundedOn(R, Nat)
    BY NatLessThanWellFounded
  <1>2. \A x, y \in Nat : x < y => <<x, y>> \in R
    BY DEF OpToRel
  <1>. HIDE DEF R
  <1>3. PICK n \in S : \A m \in S : <<m, n>> \notin R
    BY <1>1, WFMin
  <1>4. \A m \in S : ~(m < n)
    BY <1>2, <1>3
  <1>5. \A m \in S : m \in Nat /\ n \in Nat
    OBVIOUS
  <1>6. \A m \in S : n <= m
    BY <1>4, <1>5
  <1>. QED
    BY <1>6

(* Induction, for a set of numbers in the place of a predicate.              *)
LEMMA Induction ==
  ASSUME NEW I \in SUBSET Nat, 0 \in I, \A n \in I : n + 1 \in I
  PROVE  I = Nat
  <1>. SUFFICES ASSUME Nat \ I # {} PROVE FALSE
    OBVIOUS
  <1>1. PICK n \in Nat \ I : \A m \in Nat \ I : n <= m
    BY LeastNatural
  <1>2. n # 0 /\ n - 1 \in Nat
    BY <1>1
  <1>3. n - 1 \in I
    BY <1>1, <1>2
  <1>. QED
    BY <1>1, <1>2, <1>3

LEMMA MinIs ==
  ASSUME NEW S \in SUBSET Int, S # {}, NEW b \in Int, \A x \in S : b <= x
  PROVE  Min(S) \in S /\ \A y \in S : Min(S) <= y
  <1>. DEFINE T == {x - b : x \in S}
  <1>0. \A x \in S : x - b \in Nat
    OBVIOUS
  <1>1. T \in SUBSET Nat /\ T # {}
    BY <1>0
  <1>. HIDE DEF T
  <1>2. PICK n \in T : \A m \in T : n <= m
    BY <1>1, LeastNatural
  <1>3. PICK x \in S : n = x - b
    BY <1>2 DEF T
  <1>4. \A y \in S : y - b \in T
    BY DEF T
  <1>5. \A y \in S : n <= y - b /\ y \in Int
    BY <1>2, <1>4
  <1>6. \A y \in S : x <= y
    BY <1>3, <1>5
  <1>. QED
    BY <1>3, <1>6 DEF Min

LEMMA MaxIs ==
  ASSUME NEW S \in SUBSET Int, S # {}, NEW b \in Int, \A x \in S : x <= b
  PROVE  Max(S) \in S /\ \A y \in S : y <= Max(S)
  <1>. DEFINE T == {b - x : x \in S}
  <1>1. T \in SUBSET Nat /\ T # {}
    OBVIOUS
  <1>. HIDE DEF T
  <1>2. PICK n \in T : \A m \in T : n <= m
    BY <1>1, LeastNatural
  <1>3. PICK x \in S : n = b - x
    BY <1>2 DEF T
  <1>4. \A y \in S : b - y \in T
    BY DEF T
  <1>5. \A y \in S : n <= b - y /\ y \in Int
    BY <1>2, <1>4
  <1>6. \A y \in S : x >= y
    BY <1>3, <1>5
  <1>7. Max(S) \in S /\ \A y \in S : Max(S) >= y
    BY <1>3, <1>6 DEF Max
  <1>. QED
    BY <1>7

LEMMA MaxOfTwo ==
  ASSUME NEW x \in Int, NEW y \in Int
  PROVE  Max({x, y}) = IF x >= y THEN x ELSE y
  BY DEF Max

LEMMA MinOfTwo ==
  ASSUME NEW x \in Int, NEW y \in Int
  PROVE  Min({x, y}) = IF x <= y THEN x ELSE y
  BY DEF Min

(* A sequence of all the members of a finite set.                            *)
LEMMA SeqsOf ==
  ASSUME NEW S, IsFiniteSet(S), NEW q \in SetToSeqs(S)
  PROVE  /\ q \in Seq(S) /\ Len(q) \in Nat /\ DOMAIN q = 1 .. Len(q)
         /\ \A i \in 1 .. Len(q) : q[i] \in S
         /\ \A x \in S : \E i \in 1 .. Len(q) : q[i] = x
         /\ \A i, j \in 1 .. Len(q) : i # j => q[i] # q[j]
  <1>. DEFINE n == Cardinality(S)
  <1>1. n \in Nat
    BY FS_CardinalityType
  <1>2. q \in [1 .. n -> S] /\ \A i, j \in 1 .. n : i # j => q[i] # q[j]
    BY DEF SetToSeqs
  <1>3. IsFiniteSet(1 .. n) /\ Cardinality(1 .. n) = n
    BY <1>1, FS_Interval
  <1>4. q \in Injection(1 .. n, S)
    BY <1>2 DEF Injection, IsInjective
  <1>5. q \in Surjection(1 .. n, S)
    BY <1>3, <1>4, FS_Injection
  <1>6. \A x \in S : \E i \in 1 .. n : q[i] = x
    BY <1>5 DEF Surjection
  <1>. HIDE DEF n
  <1>7. q \in Seq(S)
    BY <1>1, <1>2, SeqDef
  <1>8. Len(q) = n
    BY <1>1, <1>2, <1>7
  <1>. QED
    BY <1>1, <1>2, <1>6, <1>7, <1>8

IsStrictOrder(R, S) ==
  /\ \A x \in S : <<x, x>> \notin R
  /\ \A x, y \in S : <<x, y>> \in R \/ <<y, x>> \in R \/ x = y
  /\ \A x, y, z \in S : <<x, y>> \in R /\ <<y, z>> \in R => <<x, z>> \in R

IsSortedBy(q, R) == \A i, j \in DOMAIN q : i < j => <<q[i], q[j]>> \in R

(* A finite set can be sorted by a strict total order.                       *)
LEMMA SortExists ==
  ASSUME NEW S, IsFiniteSet(S), NEW R, IsStrictOrder(R, S)
  PROVE  \E q \in SetToSeqs(S) : IsSortedBy(q, R)
  <1>0. /\ \A x \in S : <<x, x>> \notin R
        /\ \A x, y \in S : <<x, y>> \in R \/ <<y, x>> \in R \/ x = y
        /\ \A x, y, z \in S : <<x, y>> \in R /\ <<y, z>> \in R => <<x, z>> \in R
    BY DEF IsStrictOrder
  <1>. DEFINE n == Cardinality(S)
              below(x) == {y \in S : <<y, x>> \in R}
              rank == [x \in S |-> Cardinality(below(x)) + 1]
  <1>1. n \in Nat
    BY FS_CardinalityType
  <1>2. ASSUME NEW x \in S
        PROVE  rank[x] \in 1 .. n
    <2>1. below(x) \in SUBSET (S \ {x})
      BY <1>0
    <2>2. IsFiniteSet(S \ {x}) /\ Cardinality(S \ {x}) = n - 1
      BY FS_RemoveElement
    <2>3. IsFiniteSet(below(x)) /\ Cardinality(below(x)) <= n - 1
      <3>. HIDE DEF below, n
      <3>. QED
        BY <2>1, <2>2, FS_Subset
    <2>4. Cardinality(below(x)) \in Nat
      BY <2>3, FS_CardinalityType
    <2>. QED
      BY <1>1, <2>3, <2>4
  <1>3. ASSUME NEW x \in S, NEW y \in S, <<x, y>> \in R
        PROVE  rank[x] < rank[y]
    <2>1. below(x) \in SUBSET below(y) /\ x \in below(y) /\ x \notin below(x)
      BY <1>0, <1>3
    <2>2. IsFiniteSet(below(y)) /\ IsFiniteSet(below(x))
      BY FS_Subset
    <2>3. Cardinality(below(x)) <= Cardinality(below(y)) /\ Cardinality(below(x)) # Cardinality(below(y))
      BY <2>1, <2>2, FS_Subset
    <2>4. Cardinality(below(x)) \in Nat /\ Cardinality(below(y)) \in Nat
      BY <2>2, FS_CardinalityType
    <2>. QED
      BY <2>3, <2>4
  <1>. HIDE DEF rank
  <1>4. rank \in [S -> 1 .. n]
    BY <1>2 DEF rank
  <1>. HIDE DEF n
  <1>5. rank \in Injection(S, 1 .. n)
    <2>1. ASSUME NEW x \in S, NEW y \in S, rank[x] = rank[y]
          PROVE  x = y
      <3>1. rank[x] \in Int /\ rank[y] \in Int
        BY <1>4
      <3>2. <<x, y>> \notin R /\ <<y, x>> \notin R
        BY <1>3, <2>1, <3>1
      <3>. QED
        BY <1>0, <3>2
    <2>. QED
      BY <1>4, <2>1 DEF Injection, IsInjective
  <1>6. rank \in Surjection(S, 1 .. n)
    <2>1. IsFiniteSet(1 .. n) /\ Cardinality(1 .. n) = n
      BY <1>1, FS_Interval
    <2>. QED
      BY <1>5, <2>1, FS_Injection DEF n
  <1>. DEFINE q == [i \in 1 .. n |-> CHOOSE x \in S : rank[x] = i]
  <1>7. \A i \in 1 .. n : q[i] \in S /\ rank[q[i]] = i
    BY <1>6 DEF Surjection
  <1>. HIDE DEF q
  <1>8. q \in [1 .. n -> S]
    BY <1>7 DEF q
  <1>9. \A i, j \in 1 .. n : i # j => q[i] # q[j]
    BY <1>7
  <1>10. q \in SetToSeqs(S)
    BY <1>8, <1>9 DEF SetToSeqs, n
  <1>11. ASSUME NEW i \in DOMAIN q, NEW j \in DOMAIN q, i < j
         PROVE  <<q[i], q[j]>> \in R
    <2>1. i \in 1 .. n /\ j \in 1 .. n
      BY <1>8
    <2>2. /\ q[i] \in S /\ q[j] \in S /\ rank[q[i]] = i /\ rank[q[j]] = j
          /\ i \in Int /\ j \in Int
      BY <1>7, <2>1
    <2>3. <<q[j], q[i]>> \notin R
      BY <1>3, <1>11, <2>2
    <2>. QED
      BY <1>0, <1>11, <2>2, <2>3
  <1>. QED
    BY <1>10, <1>11 DEF IsSortedBy

LEMMA SortedTeam ==
  ASSUME NEW team \in SUBSET Nat, IsFiniteSet(team)
  PROVE  LET q == Sorted(team, <)
         IN  q \in SetToSeqs(team) /\ \A i, j \in DOMAIN q : i < j => q[i] < q[j]
  <1>. DEFINE R == {p \in team \X team : p[1] < p[2]}
  <1>1. \A x, y \in team : <<x, y>> \in R <=> x < y
    OBVIOUS
  <1>. HIDE DEF R
  <1>2. IsStrictOrder(R, team)
    BY <1>1 DEF IsStrictOrder
  <1>3. PICK q \in SetToSeqs(team) : IsSortedBy(q, R)
    BY <1>2, SortExists
  <1>4. \A i \in DOMAIN q : q[i] \in team
    BY SeqsOf
  <1>5. \A i, j \in DOMAIN q : i < j => q[i] < q[j]
    BY <1>1, <1>3, <1>4 DEF IsSortedBy
  <1>. QED
    BY <1>5 DEF Sorted

LEMMA LexicographicIs ==
  ASSUME NEW u, NEW v
  PROVE  (\E i \in 1 .. 4 : u[i] < v[i] /\ \A j \in 1 .. i - 1 : u[j] = v[j])
           <=> \/ u[1] < v[1]
               \/ u[1] = v[1] /\ u[2] < v[2]
               \/ u[1] = v[1] /\ u[2] = v[2] /\ u[3] < v[3]
               \/ u[1] = v[1] /\ u[2] = v[2] /\ u[3] = v[3] /\ u[4] < v[4]
  <1>1. 1 .. 4 = {1, 2, 3, 4}
    OBVIOUS
  <1>2. /\ \A j : j \notin 1 .. 1 - 1
        /\ \A j : j \in 1 .. 2 - 1 <=> j = 1
        /\ \A j : j \in 1 .. 3 - 1 <=> j = 1 \/ j = 2
        /\ \A j : j \in 1 .. 4 - 1 <=> j = 1 \/ j = 2 \/ j = 3
    OBVIOUS
  <1>. QED
    BY <1>1, <1>2

LEMMA UrgencyTyped ==
  ASSUME NEW s, IsSnapshot(s), NEW r \in Requests
  PROVE  /\ Urgency(s, r)[1] \in Int /\ Urgency(s, r)[2] \in Int /\ Urgency(s, r)[3] \in Int
         /\ Urgency(s, r)[4] = r /\ r \in Int
  <1>1. s.req[r].latest \in Int /\ s.req[r].earliest \in Int
    BY DEF IsSnapshot, Request
  <1>2. r \in Int
    BY RulesAssumption
  <1>. QED
    BY <1>1, <1>2 DEF Urgency

LEMMA RequestsSorted ==
  ASSUME NEW s, IsSnapshot(s), NEW profile
  PROVE  RequestOrder(s, profile) \in SetToSeqs(DueRequests(s, profile))
  <1>. DEFINE due == DueRequests(s, profile)
              R == {p \in due \X due : MoreUrgent(s, p[1], p[2])}
  <1>1. \A x, y \in due : <<x, y>> \in R <=> MoreUrgent(s, x, y)
    OBVIOUS
  <1>2. due \in SUBSET Requests /\ IsFiniteSet(due)
    <2>1. due \in SUBSET Requests
      BY DEF DueRequests
    <2>. QED
      BY <2>1, RulesAssumption, FS_Subset
  <1>3. ASSUME NEW x \in due, NEW y \in due
        PROVE  LET u == Urgency(s, x)
                   v == Urgency(s, y)
               IN MoreUrgent(s, x, y)
                    <=> \/ u[1] < v[1]
                        \/ u[1] = v[1] /\ u[2] < v[2]
                        \/ u[1] = v[1] /\ u[2] = v[2] /\ u[3] < v[3]
                        \/ u[1] = v[1] /\ u[2] = v[2] /\ u[3] = v[3] /\ u[4] < v[4]
    BY LexicographicIs DEF MoreUrgent
  <1>4. ASSUME NEW x \in due
        PROVE  /\ Urgency(s, x)[1] \in Int /\ Urgency(s, x)[2] \in Int /\ Urgency(s, x)[3] \in Int
               /\ Urgency(s, x)[4] = x /\ x \in Int
    BY <1>2, UrgencyTyped
  <1>. HIDE DEF R, due
  <1>5. IsStrictOrder(R, due)
    <2>1. ASSUME NEW x \in due PROVE <<x, x>> \notin R
      BY <1>1, <1>3, <1>4
    <2>2. ASSUME NEW x \in due, NEW y \in due PROVE <<x, y>> \in R \/ <<y, x>> \in R \/ x = y
      BY <1>1, <1>3, <1>4
    <2>3. ASSUME NEW x \in due, NEW y \in due, NEW z \in due, <<x, y>> \in R, <<y, z>> \in R
          PROVE  <<x, z>> \in R
      BY <1>1, <1>3, <1>4, <2>3
    <2>. QED
      BY <2>1, <2>2, <2>3 DEF IsStrictOrder
  <1>6. PICK q \in SetToSeqs(due) : IsSortedBy(q, R)
    BY <1>2, <1>5, SortExists
  <1>7. \A i \in DOMAIN q : q[i] \in due
    BY <1>2, SeqsOf
  <1>8. \A i, j \in DOMAIN q : i < j => MoreUrgent(s, q[i], q[j])
    BY <1>1, <1>6, <1>7 DEF IsSortedBy
  <1>. QED
    BY <1>8 DEF Sorted, RequestOrder, due

-----------------------------------------------------------------------------
(* Recursive definitions.                                                    *)

IsPushed(f, s, order, t, d, n) ==
  f = [i \in 0 .. n |-> IF i = 0 THEN t ELSE IF f[i - 1] = NoTime THEN NoTime
                        ELSE AvailabilityStart(s, order[i], f[i - 1], d)]

LEMMA PushedDefined ==
  ASSUME NEW s, NEW order, NEW t, NEW d, NEW n \in Nat
  PROVE  \E f : IsPushed(f, s, order, t, d, n)
  <1>. DEFINE step(i, x) == IF x = NoTime THEN NoTime ELSE AvailabilityStart(s, order[i], x, d)
              I == {m \in Nat : \E f : f = [i \in 0 .. m |-> IF i = 0 THEN t ELSE step(i, f[i - 1])]}
  <1>. HIDE DEF step
  <1>1. 0 \in I
    <2>. DEFINE f == [i \in 0 .. 0 |-> t]
    <2>1. f = [i \in 0 .. 0 |-> IF i = 0 THEN t ELSE step(i, f[i - 1])]
      OBVIOUS
    <2>. QED
      BY <2>1
  <1>2. ASSUME NEW m \in I PROVE m + 1 \in I
    <2>1. PICK f : f = [i \in 0 .. m |-> IF i = 0 THEN t ELSE step(i, f[i - 1])]
      OBVIOUS
    <2>. DEFINE g == [i \in 0 .. m + 1 |-> IF i = m + 1 THEN step(m + 1, f[m]) ELSE f[i]]
    <2>2. ASSUME NEW i \in 0 .. m + 1
          PROVE  g[i] = IF i = 0 THEN t ELSE step(i, g[i - 1])
      <3>1. CASE i = m + 1
        BY <2>1, <3>1
      <3>2. CASE i # m + 1
        <4>1. i \in 0 .. m /\ g[i] = f[i] /\ f[i] = IF i = 0 THEN t ELSE step(i, f[i - 1])
          BY <2>1, <3>2
        <4>2. i # 0 => g[i - 1] = f[i - 1]
          BY <4>1
        <4>. QED
          BY <4>1, <4>2
      <3>. QED
        BY <3>1, <3>2
    <2>3. g = [i \in 0 .. m + 1 |-> IF i = 0 THEN t ELSE step(i, g[i - 1])]
      BY <2>2
    <2>. HIDE DEF g
    <2>. QED
      BY <2>3
  <1>3. I = Nat
    <2>. HIDE DEF I
    <2>1. I \in SUBSET Nat
      BY DEF I
    <2>. QED
      BY <1>1, <1>2, <2>1, Induction
  <1>. QED
    BY <1>3 DEF step, IsPushed

LEMMA AvailabilityTyped ==
  ASSUME NEW s, IsSnapshot(s), NEW tech \in OnShift(s), NEW t \in Nat, NEW d
  PROVE  LET x == AvailabilityStart(s, tech, t, d) IN x = NoTime \/ (x \in Nat /\ t <= x)
  <1>. DEFINE starts == {Max({t, w[1]}) : w \in {v \in s.hours[tech] : Max({t, v[1]}) + d <= v[2]}}
  <1>1. \A w \in s.hours[tech] : w[1] \in Int
    BY DEF IsSnapshot, OnShift
  <1>2. \A w \in s.hours[tech] : Max({t, w[1]}) \in Int /\ t <= Max({t, w[1]})
    BY <1>1, MaxOfTwo
  <1>3. starts \in SUBSET Int /\ \A x \in starts : t <= x
    BY <1>2
  <1>4. AvailabilityStart(s, tech, t, d) = IF starts = {} THEN NoTime ELSE Min(starts)
    BY DEF AvailabilityStart
  <1>. HIDE DEF starts
  <1>5. starts # {} => Min(starts) \in starts
    BY <1>3, MinIs
  <1>6. CASE starts = {}
    BY <1>4, <1>6
  <1>7. CASE starts # {}
    <2>1. Min(starts) \in Int /\ t <= Min(starts)
      BY <1>3, <1>5, <1>7
    <2>2. Min(starts) \in Nat
      BY <2>1
    <2>. QED
      BY <1>4, <1>7, <2>1, <2>2
  <1>. QED
    BY <1>6, <1>7

(* A team settles at or after the time it is asked from.                     *)
LEMMA SettledTyped ==
  ASSUME NEW s, IsSnapshot(s), NEW team \in SUBSET OnShift(s), NEW t \in Nat, NEW d
  PROVE  LET x == SettledStart(s, team, t, d) IN x = NoTime \/ (x \in Nat /\ t <= x)
  <1>. DEFINE order == Sorted(team, <)
              n == Len(order)
  <1>1. team \in SUBSET Nat /\ IsFiniteSet(team)
    <2>1. team \in SUBSET Technicians
      BY DEF IsSnapshot, OnShift
    <2>. QED
      BY <2>1, RulesAssumption, FS_Subset
  <1>2. n \in Nat /\ \A i \in 1 .. n : order[i] \in OnShift(s)
    BY <1>1, SortedTeam, SeqsOf
  <1>. DEFINE f == CHOOSE g : IsPushed(g, s, order, t, d, n)
  <1>3. SettledStart(s, team, t, d) = f[n]
    BY DEF SettledStart, IsPushed
  <1>. HIDE DEF order, n
  <1>4. f = [i \in 0 .. n |->
               IF i = 0 THEN t ELSE IF f[i - 1] = NoTime THEN NoTime
               ELSE AvailabilityStart(s, order[i], f[i - 1], d)]
    <2>1. IsPushed(f, s, order, t, d, n)
      BY <1>2, PushedDefined
    <2>. HIDE DEF f
    <2>. QED
      BY <2>1 DEF IsPushed
  <1>. HIDE DEF f
  <1>. DEFINE I == {m \in Nat : m <= n => f[m] = NoTime \/ (f[m] \in Nat /\ t <= f[m])}
  <1>5. 0 \in I
    BY <1>2, <1>4
  <1>6. ASSUME NEW m \in I PROVE m + 1 \in I
    <2>. SUFFICES ASSUME m + 1 <= n PROVE f[m + 1] = NoTime \/ (f[m + 1] \in Nat /\ t <= f[m + 1])
      OBVIOUS
    <2>1. f[m] = NoTime \/ (f[m] \in Nat /\ t <= f[m])
      BY <1>2
    <2>2. f[m + 1] = IF f[m] = NoTime THEN NoTime ELSE AvailabilityStart(s, order[m + 1], f[m], d)
      <3>1. m + 1 \in 0 .. n /\ m + 1 # 0 /\ (m + 1) - 1 = m
        BY <1>2
      <3>. QED
        BY <1>4, <3>1
    <2>3. order[m + 1] \in OnShift(s)
      BY <1>2
    <2>4. CASE f[m] # NoTime
      <3>1. LET x == AvailabilityStart(s, order[m + 1], f[m], d) IN x = NoTime \/ (x \in Nat /\ f[m] <= x)
        BY <2>1, <2>3, <2>4, AvailabilityTyped
      <3>. QED
        BY <2>1, <2>2, <2>4, <3>1
    <2>. QED
      BY <2>2, <2>4
  <1>7. I = Nat
    <2>. HIDE DEF I
    <2>1. I \in SUBSET Nat
      BY DEF I
    <2>. QED
      BY <1>5, <1>6, <2>1, Induction
  <1>8. f[n] = NoTime \/ (f[n] \in Nat /\ t <= f[n])
    BY <1>2, <1>7
  <1>. QED
    BY <1>3, <1>8

(* Times of a plan: within the planning window.                              *)
PlanTimed(plan) == \A a \in plan : a.start \in Int /\ a.end \in 0 .. Horizon

BusyAt(s, plan, r, team, x) ==
  {a \in plan : /\ a.machine = MachineOf[r] \/ a.team \cap team # {}
                /\ a.start < x + s.req[r].duration /\ x < a.end}

AfterBusy(s, plan, r, team, x) == Max({a.end : a \in BusyAt(s, plan, r, team, x)})

TryAt(f, s, plan, r, team, latest, t) ==
  LET x == SettledStart(s, team, t, s.req[r].duration) IN
  IF t > latest \/ x = NoTime THEN NoTime
  ELSE IF BusyAt(s, plan, r, team, x) # {} THEN f[AfterBusy(s, plan, r, team, x)]
  ELSE IF x <= latest THEN x ELSE NoTime

LEMMA AfterBusyTyped ==
  ASSUME NEW s, NEW plan, PlanTimed(plan), NEW r, NEW team, NEW x \in Nat,
         BusyAt(s, plan, r, team, x) # {}
  PROVE  AfterBusy(s, plan, r, team, x) \in Nat /\ x < AfterBusy(s, plan, r, team, x)
  <1>. DEFINE S == {a.end : a \in BusyAt(s, plan, r, team, x)}
  <1>1. S \in SUBSET Int /\ S # {} /\ \A y \in S : y <= Horizon /\ x < y
    <2>1. \A a \in BusyAt(s, plan, r, team, x) : a.end \in 0 .. Horizon /\ x < a.end
      BY DEF BusyAt, PlanTimed
    <2>. QED
      BY <2>1, RulesAssumption
  <1>. HIDE DEF S
  <1>2. Max(S) \in S
    BY <1>1, MaxIs, RulesAssumption
  <1>. QED
    BY <1>1, <1>2 DEF AfterBusy, S

(* A try refers to later ones only.                                          *)
LEMMA TryLater ==
  ASSUME NEW s, IsSnapshot(s), NEW plan, PlanTimed(plan), NEW r, NEW team \in SUBSET OnShift(s),
         NEW latest \in Int, NEW t \in Nat, NEW f, NEW g, \A u \in Nat : u > t => f[u] = g[u]
  PROVE  TryAt(f, s, plan, r, team, latest, t) = TryAt(g, s, plan, r, team, latest, t)
  <1>. DEFINE x == SettledStart(s, team, t, s.req[r].duration)
  <1>1. x = NoTime \/ (x \in Nat /\ t <= x)
    BY SettledTyped
  <1>. HIDE DEF x
  <1>2. CASE x = NoTime
    BY <1>2 DEF TryAt, x
  <1>3. CASE x # NoTime /\ BusyAt(s, plan, r, team, x) # {}
    <2>1. AfterBusy(s, plan, r, team, x) \in Nat /\ x < AfterBusy(s, plan, r, team, x)
      BY <1>1, <1>3, AfterBusyTyped
    <2>2. f[AfterBusy(s, plan, r, team, x)] = g[AfterBusy(s, plan, r, team, x)]
      BY <1>1, <1>3, <2>1
    <2>. QED
      BY <2>2 DEF TryAt, x
  <1>4. CASE x # NoTime /\ BusyAt(s, plan, r, team, x) = {}
    BY <1>4 DEF TryAt, x
  <1>. QED
    BY <1>2, <1>3, <1>4

IsTried(f, s, plan, r, team, latest) ==
  f = [t \in Nat |-> TryAt(f, s, plan, r, team, latest, t)]

LEMMA TriedDefined ==
  ASSUME NEW s, IsSnapshot(s), NEW plan, PlanTimed(plan), NEW r, NEW team \in SUBSET OnShift(s),
         NEW latest \in Int
  PROVE  \E f : IsTried(f, s, plan, r, team, latest)
  <1>. DEFINE step(f, t) == TryAt(f, s, plan, r, team, latest, t)
              Upto(m, f) == f = [t \in Nat |-> f[t]] /\ \A t \in Nat : t + m > latest => f[t] = step(f, t)
              I == {m \in Nat : \E f : Upto(m, f)}
  <1>0. \A f, g, t : t \in Nat /\ (\A u \in Nat : u > t => f[u] = g[u]) => step(f, t) = step(g, t)
    BY TryLater
  <1>1. 0 \in I
    <2>. DEFINE f == [t \in Nat |-> NoTime]
    <2>1. ASSUME NEW t \in Nat, t + 0 > latest PROVE f[t] = step(f, t)
      BY <2>1 DEF TryAt
    <2>2. Upto(0, f)
      BY <2>1
    <2>. HIDE DEF f, Upto
    <2>. QED
      BY <2>2
  <1>. HIDE DEF step
  <1>2. ASSUME NEW m \in I PROVE m + 1 \in I
    <2>1. PICK f : Upto(m, f)
      OBVIOUS
    <2>. DEFINE g == [t \in Nat |-> IF t + m > latest THEN f[t] ELSE step(f, t)]
    <2>2. ASSUME NEW t \in Nat, t + (m + 1) > latest PROVE g[t] = step(g, t)
      <3>1. \A u \in Nat : u > t => f[u] = g[u]
        BY <2>2
      <3>2. step(f, t) = step(g, t)
        BY <1>0, <3>1
      <3>3. g[t] = step(f, t)
        BY <2>1
      <3>. QED
        BY <3>2, <3>3
    <2>3. Upto(m + 1, g)
      BY <2>2
    <2>. HIDE DEF g, Upto
    <2>. QED
      BY <2>3
  <1>3. I = Nat
    <2>. HIDE DEF I
    <2>1. I \in SUBSET Nat
      BY DEF I
    <2>. QED
      BY <1>1, <1>2, <2>1, Induction
  <1>4. PICK m \in Nat : m > latest
    <2>1. CASE latest < 0
      BY <2>1
    <2>2. CASE latest >= 0
      <3>1. latest + 1 \in Nat /\ latest + 1 > latest
        BY <2>2
      <3>. QED
        BY <3>1
    <2>. QED
      BY <2>1, <2>2
  <1>5. PICK f : Upto(m, f)
    BY <1>3
  <1>6. f = [t \in Nat |-> step(f, t)]
    <2>1. f = [t \in Nat |-> f[t]]
      BY <1>5
    <2>2. \A t \in Nat : t + m > latest
      BY <1>4
    <2>3. \A t \in Nat : f[t] = step(f, t)
      BY <1>5, <2>2
    <2>. QED
      BY <2>1, <2>3
  <1>. QED
    BY <1>6 DEF IsTried, step

(* A slot found lies between the bounds asked for.                           *)
LEMMA SlotWithinBounds ==
  ASSUME NEW s, IsSnapshot(s), NEW plan, PlanTimed(plan), NEW r, NEW team \in SUBSET OnShift(s),
         NEW earliest \in Nat, NEW latest \in Int
  PROVE  LET x == FindMaintenanceSlot(s, plan, r, team, earliest, latest)
         IN  x = NoTime \/ (x \in Nat /\ earliest <= x /\ x <= latest)
  <1>. DEFINE f == CHOOSE g : IsTried(g, s, plan, r, team, latest)
  <1>1. FindMaintenanceSlot(s, plan, r, team, earliest, latest) = f[earliest]
    BY DEF FindMaintenanceSlot, IsTried, TryAt, BusyAt, AfterBusy
  <1>2. IsTried(f, s, plan, r, team, latest)
    BY TriedDefined
  <1>. HIDE DEF f
  <1>3. \A t \in Nat : f[t] = TryAt(f, s, plan, r, team, latest, t)
    BY <1>2 DEF IsTried
  <1>. DEFINE Good(t) == f[t] = NoTime \/ (f[t] \in Nat /\ t <= f[t] /\ f[t] <= latest)
              I == {m \in Nat : \A t \in Nat : t + m > latest => Good(t)}
  <1>4. 0 \in I
    BY <1>3 DEF TryAt
  <1>5. ASSUME NEW m \in I PROVE m + 1 \in I
    <2>. SUFFICES ASSUME NEW t \in Nat, t + (m + 1) > latest PROVE Good(t)
      OBVIOUS
    <2>. DEFINE x == SettledStart(s, team, t, s.req[r].duration)
    <2>1. x = NoTime \/ (x \in Nat /\ t <= x)
      BY SettledTyped
    <2>2. f[t] = IF t > latest \/ x = NoTime THEN NoTime
                 ELSE IF BusyAt(s, plan, r, team, x) # {} THEN f[AfterBusy(s, plan, r, team, x)]
                 ELSE IF x <= latest THEN x ELSE NoTime
      BY <1>3 DEF TryAt
    <2>. HIDE DEF x
    <2>3. CASE x # NoTime /\ BusyAt(s, plan, r, team, x) # {}
      <3>1. AfterBusy(s, plan, r, team, x) \in Nat /\ x < AfterBusy(s, plan, r, team, x)
        BY <2>1, <2>3, AfterBusyTyped
      <3>2. Good(AfterBusy(s, plan, r, team, x))
        BY <2>1, <2>3, <3>1
      <3>. QED
        BY <2>1, <2>2, <2>3, <3>1, <3>2
    <2>4. CASE x # NoTime /\ BusyAt(s, plan, r, team, x) = {}
      BY <2>1, <2>2, <2>4
    <2>5. CASE x = NoTime
      BY <2>2, <2>5
    <2>. QED
      BY <2>3, <2>4, <2>5
  <1>6. I = Nat
    <2>. HIDE DEF I
    <2>1. I \in SUBSET Nat
      BY DEF I
    <2>. QED
      BY <1>4, <1>5, <2>1, Induction
  <1>7. PICK m \in Nat : m > latest
    <2>1. CASE latest < 0
      BY <2>1
    <2>2. CASE latest >= 0
      <3>1. latest + 1 \in Nat /\ latest + 1 > latest
        BY <2>2
      <3>. QED
        BY <3>1
    <2>. QED
      BY <2>1, <2>2
  <1>8. Good(earliest)
    <2>1. m \in I
      <3>. HIDE DEF I
      <3>. QED
        BY <1>6
    <2>2. earliest + m > latest
      BY <1>7
    <2>. QED
      BY <2>1, <2>2
  <1>. QED
    BY <1>1, <1>8

-----------------------------------------------------------------------------
(* What the scheduler adds to the reservations it keeps.                     *)

FreshProduction(s, a) ==
  /\ a.kind = Production /\ a.work \in Operations /\ a.team = {}
  /\ Of(Retained(s), Production, a.work) = {}
  /\ a.machine \in DOMAIN Minutes[a.work] /\ a.end = a.start + Minutes[a.work][a.machine]
  /\ Release[a.work] <= a.start

FreshMaintenance(s, a) ==
  /\ a.kind = Maintenance /\ a.work \in Requests
  /\ a.end = a.start + s.req[a.work].duration
  /\ s.req[a.work].earliest <= a.start /\ a.start <= s.req[a.work].latest

Fresh(s, strategy, a) ==
  /\ a.status = "PROPOSED" /\ a.strategy = strategy
  /\ a.start \in Int /\ a.end \in 0 .. Horizon
  /\ FreshProduction(s, a) \/ FreshMaintenance(s, a)

SoundPlan(s, strategy, plan) ==
  /\ IsFiniteSet(plan) /\ Retained(s) \subseteq plan
  /\ \A a \in plan : a \in Retained(s) \/ Fresh(s, strategy, a)

LEMMA RetainedTyped ==
  ASSUME NEW s, IsSnapshot(s), NEW a \in Retained(s)
  PROVE  /\ a.start \in Int /\ a.end \in 0 .. Horizon /\ a.kind \in {Production, Maintenance}
         /\ a.kind = Production => a.work \in Operations /\ a.team = {}
  <1>1. a \in Reservations
    BY DEF Retained, IsSnapshot
  <1>. QED
    BY <1>1, RulesAssumption DEF Reservations

LEMMA SoundTimed ==
  ASSUME NEW s, IsSnapshot(s), NEW strategy, NEW plan, SoundPlan(s, strategy, plan)
  PROVE  PlanTimed(plan)
  BY RetainedTyped DEF SoundPlan, PlanTimed, Fresh

LEMMA SoundAdded ==
  ASSUME NEW s, NEW strategy, NEW plan, SoundPlan(s, strategy, plan), NEW a, Fresh(s, strategy, a)
  PROVE  SoundPlan(s, strategy, plan \cup {a})
  BY FS_AddElement DEF SoundPlan

LEMMA FirstFreeTyped ==
  ASSUME NEW taken, \A a \in taken : a.end \in 0 .. Horizon, NEW t \in Int, NEW d
  PROVE  FirstFree(taken, t, d) \in Int /\ t <= FirstFree(taken, t, d)
  <1>. DEFINE ends == {t} \cup {a.end : a \in taken}
              X == {x \in ends : x >= t /\ \A a \in taken : a.end <= x \/ x + d <= a.start}
              b == IF t >= Horizon THEN t ELSE Horizon
  <1>1. ends \in SUBSET Int /\ ends # {} /\ b \in Int /\ \A x \in ends : x <= b
    BY RulesAssumption
  <1>2. t \in ends /\ \A a \in taken : a.end \in ends
    OBVIOUS
  <1>. HIDE DEF ends, b
  <1>3. Max(ends) \in ends /\ \A y \in ends : y <= Max(ends)
    BY <1>1, MaxIs
  <1>4. Max(ends) >= t
    BY <1>1, <1>2, <1>3
  <1>5. Max(ends) \in X
    BY <1>2, <1>3, <1>4
  <1>6. X \in SUBSET Int /\ \A x \in X : t <= x
    BY <1>1
  <1>7. FirstFree(taken, t, d) = Min(X)
    BY DEF FirstFree, ends
  <1>. HIDE DEF X
  <1>8. Min(X) \in X
    BY <1>5, <1>6, MinIs
  <1>. QED
    BY <1>6, <1>7, <1>8

LEMMA ReadyTyped ==
  ASSUME NEW plan, PlanTimed(plan), NEW o \in Operations
  PROVE  ReadyAt(plan, o) \in Int /\ Release[o] <= ReadyAt(plan, o)
  <1>. DEFINE S == {Release[o]} \cup {a.end : a \in {b \in plan : b.kind = Production /\ b.work \in Predecessors[o]}}
              b == IF Release[o] >= Horizon THEN Release[o] ELSE Horizon
  <1>1. Release[o] \in Int /\ b \in Int /\ Release[o] \in S
    BY RulesAssumption
  <1>2. S \in SUBSET Int /\ \A x \in S : x <= b
    BY <1>1, RulesAssumption DEF PlanTimed
  <1>3. ReadyAt(plan, o) = Max(S)
    BY DEF ReadyAt
  <1>. HIDE DEF S, b
  <1>4. Max(S) \in S /\ Release[o] <= Max(S)
    BY <1>1, <1>2, MaxIs
  <1>. QED
    BY <1>2, <1>3, <1>4

LEMMA MachineChosen ==
  ASSUME NEW s, IsSnapshot(s), NEW strategy, NEW plan, PlanTimed(plan), NEW o \in Operations,
         Of(Retained(s), Production, o) = {}, NEW a \in ChooseMachine(s, plan, o, ReadyAt(plan, o), strategy)
  PROVE  Fresh(s, strategy, a) /\ a.kind = Production /\ a.work = o
  <1>. DEFINE ready == ReadyAt(plan, o)
              free(m) == FirstFree({x \in plan : x.machine = m}, Max({ready, 0}), Minutes[o][m])
              finish(m) == free(m) + Minutes[o][m]
  <1>1. PICK m \in DOMAIN Minutes[o] \cap s.up :
          finish(m) <= Horizon /\ a = Assignment(Production, strategy, o, m, finish(m) - Minutes[o][m], finish(m), {})
    BY DEF ChooseMachine
  <1>2. Minutes[o][m] \in Nat \ {0}
    BY RulesAssumption
  <1>3. ready \in Int /\ Release[o] <= ready
    BY ReadyTyped
  <1>4. Max({ready, 0}) \in Nat /\ ready <= Max({ready, 0})
    BY <1>3, MaxOfTwo
  <1>5. free(m) \in Int /\ Max({ready, 0}) <= free(m)
    BY <1>4, FirstFreeTyped DEF PlanTimed
  <1>6. Release[o] \in Int /\ Horizon \in Nat
    BY RulesAssumption
  <1>. HIDE DEF free, ready
  <1>7. finish(m) - Minutes[o][m] = free(m)
    BY <1>2, <1>5
  <1>8. /\ a.status = "PROPOSED" /\ a.strategy = strategy /\ a.kind = Production /\ a.work = o
        /\ a.team = {} /\ a.machine = m /\ a.start = free(m) /\ a.end = free(m) + Minutes[o][m]
    BY <1>1, <1>7 DEF Assignment
  <1>9. free(m) + Minutes[o][m] \in 0 .. Horizon /\ Release[o] <= free(m)
    BY <1>1, <1>2, <1>3, <1>4, <1>5, <1>6
  <1>. QED
    BY <1>1, <1>5, <1>8, <1>9 DEF Fresh, FreshProduction

LEMMA SlotChosen ==
  ASSUME NEW s, IsSnapshot(s), NEW strategy, NEW plan, PlanTimed(plan), NEW r \in Requests,
         NEW a \in ChooseMaintenanceSlot(s, plan, r, strategy)
  PROVE  Fresh(s, strategy, a) /\ a.kind = Maintenance /\ a.work = r
  <1>. DEFINE d == s.req[r].duration
              latest == Min({s.req[r].latest, Horizon - d})
              lower == Max({s.req[r].earliest, 0})
              earliest == IF strategy = "BALANCED" /\ latest > lower
                          THEN lower + Half(latest - lower) ELSE lower
  <1>1. PICK g \in QualifiedTeams(s, r) :
          LET x == FindMaintenanceSlot(s, plan, r, g, earliest, latest)
          IN  x # NoTime /\ a = Assignment(Maintenance, strategy, r, MachineOf[r], x, x + d, g)
    <2>. DEFINE find(g) == FindMaintenanceSlot(s, plan, r, g, earliest, latest)
                slots == {c \in {<<find(g), g>> : g \in QualifiedTeams(s, r)} : c[1] # NoTime}
    <2>1. a \in {Assignment(Maintenance, strategy, r, MachineOf[r], c[1], c[1] + d, c[2]) : c \in BestSlots(slots)}
      BY DEF ChooseMaintenanceSlot
    <2>. HIDE DEF find, d
    <2>2. PICK c \in slots : a = Assignment(Maintenance, strategy, r, MachineOf[r], c[1], c[1] + d, c[2])
      BY <2>1 DEF BestSlots
    <2>3. PICK g \in QualifiedTeams(s, r) : c = <<find(g), g>> /\ c[1] # NoTime
      BY <2>2
    <2>4. find(g) # NoTime /\ a = Assignment(Maintenance, strategy, r, MachineOf[r], find(g), find(g) + d, g)
      BY <2>2, <2>3
    <2>. QED
      BY <2>4 DEF find
  <1>2. g \in SUBSET OnShift(s)
    BY DEF QualifiedTeams
  <1>3. d \in Nat /\ s.req[r].latest \in Int /\ s.req[r].earliest \in Int /\ Horizon \in Nat
    BY RulesAssumption DEF IsSnapshot, Request
  <1>. HIDE DEF d
  <1>4. latest \in Int /\ latest <= s.req[r].latest /\ latest <= Horizon - d
    <2>1. Horizon - d \in Int
      BY <1>3
    <2>2. latest = IF s.req[r].latest <= Horizon - d THEN s.req[r].latest ELSE Horizon - d
      BY <1>3, <2>1, MinOfTwo
    <2>. HIDE DEF latest
    <2>. QED
      BY <1>3, <2>1, <2>2
  <1>5. lower \in Nat /\ s.req[r].earliest <= lower
    BY <1>3, MaxOfTwo
  <1>. HIDE DEF latest, lower
  <1>6. earliest \in Nat /\ lower <= earliest
    <2>1. latest > lower => Half(latest - lower) \in Nat
      BY <1>4, <1>5 DEF Half
    <2>. QED
      BY <1>5, <2>1
  <1>. HIDE DEF earliest
  <1>. DEFINE x == FindMaintenanceSlot(s, plan, r, g, earliest, latest)
  <1>7. x \in Nat /\ earliest <= x /\ x <= latest
    BY <1>1, <1>2, <1>4, <1>6, SlotWithinBounds
  <1>8. a = Assignment(Maintenance, strategy, r, MachineOf[r], x, x + d, g)
    BY <1>1
  <1>. HIDE DEF x
  <1>9. /\ a.status = "PROPOSED" /\ a.strategy = strategy /\ a.kind = Maintenance /\ a.work = r
        /\ a.start = x /\ a.end = x + d
    BY <1>8 DEF Assignment
  <1>10. x + d \in 0 .. Horizon /\ s.req[r].earliest <= x /\ x <= s.req[r].latest
    BY <1>3, <1>4, <1>5, <1>6, <1>7
  <1>. QED
    BY <1>7, <1>9, <1>10 DEF Fresh, FreshMaintenance, d

LEMMA RequestPlaced ==
  ASSUME NEW s, IsSnapshot(s), NEW strategy, NEW plan, SoundPlan(s, strategy, plan), NEW r \in Requests,
         NEW q \in PlaceRequest(s, strategy, plan, r)
  PROVE  SoundPlan(s, strategy, q) /\ plan \subseteq q /\ Of(q, Maintenance, r) # {}
  <1>1. PICK a \in ChooseMaintenanceSlot(s, plan, r, strategy) : q = plan \cup {a}
    BY DEF PlaceRequest
  <1>2. Fresh(s, strategy, a) /\ a.kind = Maintenance /\ a.work = r
    BY SlotChosen, SoundTimed
  <1>3. a \in Of(q, Maintenance, r)
    BY <1>1, <1>2 DEF Of
  <1>. QED
    BY <1>1, <1>2, <1>3, SoundAdded

LEMMA OperationPlaced ==
  ASSUME NEW s, IsSnapshot(s), NEW profile, NEW strategy, NEW plan, SoundPlan(s, strategy, plan),
         NEW o \in Operations, NEW q \in PlaceOperation(s, profile, strategy, plan, o)
  PROVE  /\ SoundPlan(s, strategy, q) /\ plan \subseteq q
         /\ s.opStatus[o] # "COMPLETED" => Of(q, Production, o) # {}
  <1>1. CASE s.opStatus[o] = "COMPLETED" \/ Of(Retained(s), Production, o) # {}
    <2>1. q = plan
      BY <1>1 DEF PlaceOperation
    <2>2. Of(Retained(s), Production, o) \subseteq Of(plan, Production, o)
      BY DEF SoundPlan, Of
    <2>. QED
      BY <1>1, <2>1, <2>2
  <1>2. CASE Of(Retained(s), Production, o) = {} /\ s.opStatus[o] # "COMPLETED"
    <2>1. PICK a \in ChooseMachine(s, plan, o, ReadyAt(plan, o), strategy) : q = plan \cup {a}
      BY <1>2 DEF PlaceOperation
    <2>2. Fresh(s, strategy, a) /\ a.kind = Production /\ a.work = o
      BY <1>2, MachineChosen, SoundTimed
    <2>3. a \in Of(q, Production, o)
      BY <2>1, <2>2 DEF Of
    <2>. QED
      BY <2>1, <2>2, <2>3, SoundAdded
  <1>. QED
    BY <1>1, <1>2

IsAfterRequests(f, s, strategy, order, plans, n) ==
  f = [i \in 0 .. n |-> IF i = 0 THEN plans ELSE UNION {PlaceRequest(s, strategy, p, order[i]) : p \in f[i - 1]}]

IsAfterOperations(f, s, profile, strategy, order, plans, n) ==
  f = [i \in 0 .. n |-> IF i = 0 THEN plans
                        ELSE UNION {PlaceOperation(s, profile, strategy, p, order[i]) : p \in f[i - 1]}]

LEMMA AfterRequestsDefined ==
  ASSUME NEW s, NEW strategy, NEW order, NEW plans, NEW n \in Nat
  PROVE  \E f : IsAfterRequests(f, s, strategy, order, plans, n)
  <1>. DEFINE step(i, x) == UNION {PlaceRequest(s, strategy, p, order[i]) : p \in x}
              I == {m \in Nat : \E f : f = [i \in 0 .. m |-> IF i = 0 THEN plans ELSE step(i, f[i - 1])]}
  <1>. HIDE DEF step
  <1>1. 0 \in I
    <2>. DEFINE f == [i \in 0 .. 0 |-> plans]
    <2>1. f = [i \in 0 .. 0 |-> IF i = 0 THEN plans ELSE step(i, f[i - 1])]
      OBVIOUS
    <2>. QED
      BY <2>1
  <1>2. ASSUME NEW m \in I PROVE m + 1 \in I
    <2>1. PICK f : f = [i \in 0 .. m |-> IF i = 0 THEN plans ELSE step(i, f[i - 1])]
      OBVIOUS
    <2>. DEFINE g == [i \in 0 .. m + 1 |-> IF i = m + 1 THEN step(m + 1, f[m]) ELSE f[i]]
    <2>2. ASSUME NEW i \in 0 .. m + 1
          PROVE  g[i] = IF i = 0 THEN plans ELSE step(i, g[i - 1])
      <3>1. CASE i = m + 1
        BY <2>1, <3>1
      <3>2. CASE i # m + 1
        <4>1. i \in 0 .. m /\ g[i] = f[i] /\ f[i] = IF i = 0 THEN plans ELSE step(i, f[i - 1])
          BY <2>1, <3>2
        <4>2. i # 0 => g[i - 1] = f[i - 1]
          BY <4>1
        <4>. QED
          BY <4>1, <4>2
      <3>. QED
        BY <3>1, <3>2
    <2>3. g = [i \in 0 .. m + 1 |-> IF i = 0 THEN plans ELSE step(i, g[i - 1])]
      BY <2>2
    <2>. HIDE DEF g
    <2>. QED
      BY <2>3
  <1>3. I = Nat
    <2>. HIDE DEF I
    <2>1. I \in SUBSET Nat
      BY DEF I
    <2>. QED
      BY <1>1, <1>2, <2>1, Induction
  <1>. QED
    BY <1>3 DEF step, IsAfterRequests

LEMMA AfterOperationsDefined ==
  ASSUME NEW s, NEW profile, NEW strategy, NEW order, NEW plans, NEW n \in Nat
  PROVE  \E f : IsAfterOperations(f, s, profile, strategy, order, plans, n)
  <1>. DEFINE step(i, x) == UNION {PlaceOperation(s, profile, strategy, p, order[i]) : p \in x}
              I == {m \in Nat : \E f : f = [i \in 0 .. m |-> IF i = 0 THEN plans ELSE step(i, f[i - 1])]}
  <1>. HIDE DEF step
  <1>1. 0 \in I
    <2>. DEFINE f == [i \in 0 .. 0 |-> plans]
    <2>1. f = [i \in 0 .. 0 |-> IF i = 0 THEN plans ELSE step(i, f[i - 1])]
      OBVIOUS
    <2>. QED
      BY <2>1
  <1>2. ASSUME NEW m \in I PROVE m + 1 \in I
    <2>1. PICK f : f = [i \in 0 .. m |-> IF i = 0 THEN plans ELSE step(i, f[i - 1])]
      OBVIOUS
    <2>. DEFINE g == [i \in 0 .. m + 1 |-> IF i = m + 1 THEN step(m + 1, f[m]) ELSE f[i]]
    <2>2. ASSUME NEW i \in 0 .. m + 1
          PROVE  g[i] = IF i = 0 THEN plans ELSE step(i, g[i - 1])
      <3>1. CASE i = m + 1
        BY <2>1, <3>1
      <3>2. CASE i # m + 1
        <4>1. i \in 0 .. m /\ g[i] = f[i] /\ f[i] = IF i = 0 THEN plans ELSE step(i, f[i - 1])
          BY <2>1, <3>2
        <4>2. i # 0 => g[i - 1] = f[i - 1]
          BY <4>1
        <4>. QED
          BY <4>1, <4>2
      <3>. QED
        BY <3>1, <3>2
    <2>3. g = [i \in 0 .. m + 1 |-> IF i = 0 THEN plans ELSE step(i, g[i - 1])]
      BY <2>2
    <2>. HIDE DEF g
    <2>. QED
      BY <2>3
  <1>3. I = Nat
    <2>. HIDE DEF I
    <2>1. I \in SUBSET Nat
      BY DEF I
    <2>. QED
      BY <1>1, <1>2, <2>1, Induction
  <1>. QED
    BY <1>3 DEF step, IsAfterOperations

(* Every due request is in a plan all requests were placed in, and what was  *)
(* in the plan before still is.                                              *)
LEMMA RequestsPlaced ==
  ASSUME NEW s, IsSnapshot(s), NEW profile, NEW strategy, NEW plans,
         \A p \in plans : SoundPlan(s, strategy, p),
         NEW q \in MaintenanceScheduled(s, profile, strategy, plans)
  PROVE  /\ SoundPlan(s, strategy, q) /\ \E p \in plans : p \subseteq q
         /\ \A r \in DueRequests(s, profile) : Of(q, Maintenance, r) # {}
  <1>. DEFINE order == RequestOrder(s, profile)
              n == Len(order)
              due == DueRequests(s, profile)
              f == CHOOSE g : IsAfterRequests(g, s, strategy, order, plans, n)
  <1>1. due \in SUBSET Requests /\ IsFiniteSet(due)
    <2>1. due \in SUBSET Requests
      BY DEF DueRequests
    <2>. QED
      BY <2>1, RulesAssumption, FS_Subset
  <1>2. /\ n \in Nat /\ \A i \in 1 .. n : order[i] \in due
        /\ \A r \in due : \E i \in 1 .. n : order[i] = r
    BY <1>1, RequestsSorted, SeqsOf
  <1>3. q \in f[n]
    BY DEF MaintenanceScheduled, IsAfterRequests
  <1>. HIDE DEF order, n, due
  <1>4. IsAfterRequests(f, s, strategy, order, plans, n)
    BY <1>2, AfterRequestsDefined
  <1>. HIDE DEF f
  <1>5. /\ f[0] = plans
        /\ \A i \in 1 .. n : f[i] = UNION {PlaceRequest(s, strategy, p, order[i]) : p \in f[i - 1]}
    <2>1. \A i \in 0 .. n : f[i] = IF i = 0 THEN plans
                                   ELSE UNION {PlaceRequest(s, strategy, p, order[i]) : p \in f[i - 1]}
      BY <1>4 DEF IsAfterRequests
    <2>2. 0 \in 0 .. n /\ \A i \in 1 .. n : i \in 0 .. n /\ i # 0
      BY <1>2
    <2>. QED
      BY <2>1, <2>2
  <1>. DEFINE Good(m, x) == /\ SoundPlan(s, strategy, x) /\ \E p \in plans : p \subseteq x
                            /\ \A i \in 1 .. m : Of(x, Maintenance, order[i]) # {}
              I == {m \in Nat : m <= n => \A x \in f[m] : Good(m, x)}
  <1>6. 0 \in I
    <2>. SUFFICES ASSUME NEW x \in f[0] PROVE Good(0, x)
      OBVIOUS
    <2>. QED
      BY <1>5
  <1>7. ASSUME NEW m \in I PROVE m + 1 \in I
    <2>. SUFFICES ASSUME m + 1 <= n, NEW x \in f[m + 1] PROVE Good(m + 1, x)
      OBVIOUS
    <2>1. m + 1 \in 1 .. n /\ (m + 1) - 1 = m /\ m \in Nat
      BY <1>2
    <2>2. PICK y \in f[m] : x \in PlaceRequest(s, strategy, y, order[m + 1])
      BY <1>5, <2>1
    <2>3. Good(m, y)
      BY <1>2, <2>1
    <2>4. SoundPlan(s, strategy, x) /\ y \subseteq x /\ Of(x, Maintenance, order[m + 1]) # {}
      BY <1>1, <1>2, <2>1, <2>2, <2>3, RequestPlaced
    <2>5. ASSUME NEW i \in 1 .. m + 1 PROVE Of(x, Maintenance, order[i]) # {}
      <3>1. CASE i = m + 1
        BY <2>4, <3>1
      <3>2. CASE i \in 1 .. m
        BY <2>3, <2>4, <3>2 DEF Of
      <3>. QED
        BY <2>1, <3>1, <3>2
    <2>. QED
      BY <2>3, <2>4, <2>5
  <1>8. I = Nat
    <2>. HIDE DEF I
    <2>1. I \in SUBSET Nat
      BY DEF I
    <2>. QED
      BY <1>6, <1>7, <2>1, Induction
  <1>9. Good(n, q)
    <2>. HIDE DEF Good
    <2>1. n \in I
      <3>. HIDE DEF I
      <3>. QED
        BY <1>2, <1>8
    <2>. QED
      BY <1>2, <1>3, <2>1
  <1>. QED
    BY <1>2, <1>9 DEF due

(* Every operation still to do is in a plan all operations were placed in.   *)
LEMMA OperationsPlaced ==
  ASSUME NEW s, IsSnapshot(s), NEW profile, NEW strategy, NEW plans,
         \A p \in plans : SoundPlan(s, strategy, p),
         NEW q \in ProductionScheduled(s, profile, strategy, plans)
  PROVE  /\ SoundPlan(s, strategy, q) /\ \E p \in plans : p \subseteq q
         /\ \A o \in Operations : s.opStatus[o] # "COMPLETED" => Of(q, Production, o) # {}
  <1>. DEFINE order == OperationOrder
              n == Len(order)
              f == CHOOSE g : IsAfterOperations(g, s, profile, strategy, order, plans, n)
  <1>1. /\ n \in Nat /\ \A i \in 1 .. n : order[i] \in Operations
        /\ \A o \in Operations : \E i \in 1 .. n : order[i] = o
    BY RulesAssumption, SchedulerAssumption, SeqsOf
  <1>2. q \in f[n]
    BY DEF ProductionScheduled, IsAfterOperations
  <1>. HIDE DEF order, n
  <1>3. IsAfterOperations(f, s, profile, strategy, order, plans, n)
    BY <1>1, AfterOperationsDefined
  <1>. HIDE DEF f
  <1>4. /\ f[0] = plans
        /\ \A i \in 1 .. n : f[i] = UNION {PlaceOperation(s, profile, strategy, p, order[i]) : p \in f[i - 1]}
    <2>1. \A i \in 0 .. n : f[i] = IF i = 0 THEN plans
                                   ELSE UNION {PlaceOperation(s, profile, strategy, p, order[i]) : p \in f[i - 1]}
      BY <1>3 DEF IsAfterOperations
    <2>2. 0 \in 0 .. n /\ \A i \in 1 .. n : i \in 0 .. n /\ i # 0
      BY <1>1
    <2>. QED
      BY <2>1, <2>2
  <1>. DEFINE Done(x, o) == s.opStatus[o] # "COMPLETED" => Of(x, Production, o) # {}
              Good(m, x) == /\ SoundPlan(s, strategy, x) /\ \E p \in plans : p \subseteq x
                            /\ \A i \in 1 .. m : Done(x, order[i])
              I == {m \in Nat : m <= n => \A x \in f[m] : Good(m, x)}
  <1>5. 0 \in I
    <2>. SUFFICES ASSUME NEW x \in f[0] PROVE Good(0, x)
      OBVIOUS
    <2>. QED
      BY <1>4
  <1>6. ASSUME NEW m \in I PROVE m + 1 \in I
    <2>. SUFFICES ASSUME m + 1 <= n, NEW x \in f[m + 1] PROVE Good(m + 1, x)
      OBVIOUS
    <2>1. m + 1 \in 1 .. n /\ (m + 1) - 1 = m /\ m \in Nat
      BY <1>1
    <2>2. PICK y \in f[m] : x \in PlaceOperation(s, profile, strategy, y, order[m + 1])
      BY <1>4, <2>1
    <2>3. Good(m, y)
      BY <1>1, <2>1
    <2>4. SoundPlan(s, strategy, x) /\ y \subseteq x /\ Done(x, order[m + 1])
      BY <1>1, <2>1, <2>2, <2>3, OperationPlaced
    <2>5. ASSUME NEW i \in 1 .. m + 1 PROVE Done(x, order[i])
      <3>1. CASE i = m + 1
        BY <2>4, <3>1
      <3>2. CASE i \in 1 .. m
        BY <2>3, <2>4, <3>2 DEF Of
      <3>. QED
        BY <2>1, <3>1, <3>2
    <2>. QED
      BY <2>3, <2>4, <2>5
  <1>7. I = Nat
    <2>. HIDE DEF I
    <2>1. I \in SUBSET Nat
      BY DEF I
    <2>. QED
      BY <1>5, <1>6, <2>1, Induction
  <1>8. Good(n, q)
    <2>. HIDE DEF Good
    <2>1. n \in I
      <3>. HIDE DEF I
      <3>. QED
        BY <1>1, <1>7
    <2>. QED
      BY <1>1, <1>2, <2>1
  <1>. QED
    BY <1>1, <1>8

(* What the scheduler builds: the reservations it must keep, what it placed  *)
(* itself, all that was to be done.                                          *)
LEMMA BuiltComplete ==
  ASSUME NEW s, IsSnapshot(s), NEW profile, NEW strategy, NEW plan \in Built(s, profile, strategy)
  PROVE  /\ SoundPlan(s, strategy, plan)
         /\ \A o \in Operations : s.opStatus[o] # "COMPLETED" => Of(plan, Production, o) # {}
         /\ \A r \in DueRequests(s, profile) : Of(plan, Maintenance, r) # {}
  <1>. DEFINE start == {Retained(s)}
  <1>1. \A p \in start : SoundPlan(s, strategy, p)
    <2>1. IsFiniteSet(Retained(s))
      BY FS_Subset DEF Retained, IsSnapshot
    <2>. QED
      BY <2>1 DEF SoundPlan
  <1>. HIDE DEF start
  <1>2. CASE strategy = "PRODUCTION_PRIORITY"
    <2>. DEFINE produced == ProductionScheduled(s, profile, strategy, start)
    <2>1. plan \in MaintenanceScheduled(s, profile, strategy, produced)
      BY <1>2 DEF Built, start
    <2>2. \A p \in produced : /\ SoundPlan(s, strategy, p)
                              /\ \A o \in Operations : s.opStatus[o] # "COMPLETED" => Of(p, Production, o) # {}
      BY <1>1, OperationsPlaced
    <2>. HIDE DEF produced
    <2>3. /\ SoundPlan(s, strategy, plan) /\ \E p \in produced : p \subseteq plan
          /\ \A r \in DueRequests(s, profile) : Of(plan, Maintenance, r) # {}
      BY <2>1, <2>2, RequestsPlaced
    <2>4. PICK p \in produced : p \subseteq plan
      BY <2>3
    <2>5. \A o : Of(p, Production, o) \subseteq Of(plan, Production, o)
      BY <2>4 DEF Of
    <2>. QED
      BY <2>2, <2>3, <2>5
  <1>3. CASE strategy # "PRODUCTION_PRIORITY"
    <2>. DEFINE maintained == MaintenanceScheduled(s, profile, strategy, start)
    <2>1. plan \in ProductionScheduled(s, profile, strategy, maintained)
      BY <1>3 DEF Built, start
    <2>2. \A p \in maintained : /\ SoundPlan(s, strategy, p)
                                /\ \A r \in DueRequests(s, profile) : Of(p, Maintenance, r) # {}
      BY <1>1, RequestsPlaced
    <2>. HIDE DEF maintained
    <2>3. /\ SoundPlan(s, strategy, plan) /\ \E p \in maintained : p \subseteq plan
          /\ \A o \in Operations : s.opStatus[o] # "COMPLETED" => Of(plan, Production, o) # {}
      BY <2>1, <2>2, OperationsPlaced
    <2>4. PICK p \in maintained : p \subseteq plan
      BY <2>3
    <2>5. \A r : Of(p, Maintenance, r) \subseteq Of(plan, Maintenance, r)
      BY <2>4 DEF Of
    <2>. QED
      BY <2>2, <2>3, <2>5
  <1>. QED
    BY <1>2, <1>3

-----------------------------------------------------------------------------
(* What one call of the planner returns.                                   *)

(* The plans of one strategy are those of the scheduler, whatever the mode. *)
Candidate(s, mode, i, p) == [strategy |-> i, plan |-> p, kpis |-> Kpis(s, p, Drawn(mode, i))]

Candidates(s, mode, profile, k) ==
  UNION {{Candidate(s, mode, i, p) : p \in {q \in Built(s, profile, Strategies[i]) : Valid(s, q, profile)}} : i \in 1 .. k}

IllFormed(s, profile, k) ==
  \E i \in 1 .. k : \E p \in Built(s, profile, Strategies[i]) : ~WellFormed(p)

LEMMA PlanWithinCases ==
  ASSUME NEW s, NEW mode, NEW profile, NEW k \in Nat
  PROVE  PlanWithin(s, mode, profile, k) =
           IF IllFormed(s, profile, k) THEN Ended("INTERNAL_PLANNING_ERROR")
           ELSE IF Candidates(s, mode, profile, k) # {}
                THEN Ranked(Candidates(s, mode, profile, k), Weights, k < Len(Strategies))
           ELSE IF k < Len(Strategies) THEN Ended("PLANNING_TIMEOUT") ELSE Infeasible
  <1>. DEFINE built == [i \in 1 .. k |-> Built(s, profile, Strategies[i])]
  <1>1. \A i \in 1 .. k : built[i] = Built(s, profile, Strategies[i])
    OBVIOUS
  <1>2. (\E i \in 1 .. k : \E p \in built[i] : ~WellFormed(p)) <=> IllFormed(s, profile, k)
    BY <1>1 DEF IllFormed
  <1>3. Candidates(s, mode, profile, k) =
          UNION {{Candidate(s, mode, i, p) : p \in {q \in built[i] : Valid(s, q, profile)}} : i \in 1 .. k}
    BY <1>1 DEF Candidates
  <1>. QED
    BY <1>2, <1>3 DEF PlanWithin, Answer, Candidate

(* The plans of the candidates, which the mode does not touch. *)
Plans(s, profile, k) ==
  UNION {{<<i, p>> : p \in {q \in Built(s, profile, Strategies[i]) : Valid(s, q, profile)}} : i \in 1 .. k}

LEMMA PlansOffered ==
  ASSUME NEW s, NEW mode, NEW profile, NEW k \in Nat
  PROVE  {<<c.strategy, c.plan>> : c \in Candidates(s, mode, profile, k)} = Plans(s, profile, k)
  <1>. DEFINE cs == Candidates(s, mode, profile, k)
  <1>1. \A c \in cs : <<c.strategy, c.plan>> \in Plans(s, profile, k)
    <2>. SUFFICES ASSUME NEW c \in cs PROVE <<c.strategy, c.plan>> \in Plans(s, profile, k)
      OBVIOUS
    <2>1. PICK i \in 1 .. k : \E p \in Built(s, profile, Strategies[i]) :
                                Valid(s, p, profile) /\ c = Candidate(s, mode, i, p)
      BY DEF Candidates
    <2>2. PICK p \in Built(s, profile, Strategies[i]) : Valid(s, p, profile) /\ c = Candidate(s, mode, i, p)
      BY <2>1
    <2>3. c.strategy = i /\ c.plan = p
      BY <2>2 DEF Candidate
    <2>. QED
      BY <2>2, <2>3 DEF Plans
  <1>2. ASSUME NEW x \in Plans(s, profile, k)
        PROVE  \E c \in cs : x = <<c.strategy, c.plan>>
    <2>0. PICK i \in 1 .. k : x \in {<<i, p>> : p \in {q \in Built(s, profile, Strategies[i]) : Valid(s, q, profile)}}
      BY DEF Plans
    <2>1. PICK p \in Built(s, profile, Strategies[i]) : x = <<i, p>> /\ Valid(s, p, profile)
      BY <2>0
    <2>2. Candidate(s, mode, i, p) \in cs
      BY <2>1 DEF Candidates
    <2>3. Candidate(s, mode, i, p).strategy = i /\ Candidate(s, mode, i, p).plan = p
      BY DEF Candidate
    <2>. QED
      BY <2>1, <2>2, <2>3
  <1>. QED
    BY <1>1, <1>2

LEMMA StrategyCount == Len(Strategies) = 3
  BY DEF Strategies

(* An answer no deadline cut short comes from all strategies. *)
LEMMA CompleteAnswer ==
  ASSUME NEW s, NEW mode, NEW profile, NEW k \in 0 .. 3,
         Complete(PlanWithin(s, mode, profile, k))
  PROVE  /\ k = 3 /\ ~IllFormed(s, profile, 3)
         /\ PlanWithin(s, mode, profile, k) =
              IF Candidates(s, mode, profile, 3) # {} THEN Ranked(Candidates(s, mode, profile, 3), Weights, FALSE)
              ELSE Infeasible
  <1>. DEFINE r == PlanWithin(s, mode, profile, k)
  <1>1. r = IF IllFormed(s, profile, k) THEN Ended("INTERNAL_PLANNING_ERROR")
            ELSE IF Candidates(s, mode, profile, k) # {} THEN Ranked(Candidates(s, mode, profile, k), Weights, k < 3)
            ELSE IF k < 3 THEN Ended("PLANNING_TIMEOUT") ELSE Infeasible
    BY PlanWithinCases, StrategyCount
  <1>2. r.outcome \in {"FEASIBLE", "NO_FEASIBLE_PLAN"} /\ ~r.partial
    BY DEF Complete
  <1>. HIDE DEF r
  <1>3. ASSUME NEW o \in {"INTERNAL_PLANNING_ERROR", "PLANNING_TIMEOUT"}
        PROVE  r # Ended(o)
    BY <1>2, <1>3 DEF Ended
  <1>4. ~IllFormed(s, profile, k)
    BY <1>1, <1>3
  <1>5. k = 3
    <2>1. CASE Candidates(s, mode, profile, k) # {}
      <3>1. r = Ranked(Candidates(s, mode, profile, k), Weights, k < 3)
        BY <1>1, <1>4, <2>1
      <3>2. r.partial = (k < 3)
        BY <3>1 DEF Ranked
      <3>3. ~(k < 3)
        BY <1>2, <3>2, Zenon
      <3>. QED
        BY <3>3
    <2>2. CASE Candidates(s, mode, profile, k) = {}
      <3>1. r = IF k < 3 THEN Ended("PLANNING_TIMEOUT") ELSE Infeasible
        BY <1>1, <1>4, <2>2
      <3>2. ~(k < 3)
        BY <1>3, <3>1
      <3>. QED
        BY <3>2
    <2>. QED
      BY <2>1, <2>2
  <1>6. (k < 3) = FALSE
    BY <1>5
  <1>7. r = IF Candidates(s, mode, profile, k) # {} THEN Ranked(Candidates(s, mode, profile, k), Weights, FALSE)
            ELSE Infeasible
    BY <1>1, <1>4, <1>6, Zenon
  <1>. QED
    BY <1>4, <1>5, <1>7 DEF r

(* The outcomes a call can have. *)
LEMMA AnswerKinds ==
  ASSUME NEW s, NEW mode, NEW profile, NEW k \in Nat
  PROVE  LET r == PlanWithin(s, mode, profile, k) IN
         /\ r.outcome = "FEASIBLE" => r = Ranked(r.candidates, Weights, r.partial)
         /\ r.outcome \in {"INTERNAL_PLANNING_ERROR", "FEASIBLE", "PLANNING_TIMEOUT", "NO_FEASIBLE_PLAN"}
  <1>. DEFINE r == PlanWithin(s, mode, profile, k)
  <1>1. \/ r = Ended("INTERNAL_PLANNING_ERROR") \/ r = Ended("PLANNING_TIMEOUT") \/ r = Infeasible
        \/ r = Ranked(Candidates(s, mode, profile, k), Weights, k < Len(Strategies))
    BY PlanWithinCases
  <1>. HIDE DEF r
  <1>2. CASE r = Ranked(Candidates(s, mode, profile, k), Weights, k < Len(Strategies))
    <2>1. /\ r.outcome = "FEASIBLE" /\ r.candidates = Candidates(s, mode, profile, k)
          /\ r.partial = (k < Len(Strategies))
      BY <1>2 DEF Ranked
    <2>. QED
      BY <1>2, <2>1 DEF r
  <1>3. ASSUME NEW o, r = Ended(o) PROVE r.outcome = o
    BY <1>3 DEF Ended
  <1>. QED
    BY <1>1, <1>2, <1>3 DEF Infeasible, r

-----------------------------------------------------------------------------
(* The two ways to change a snapshot: by the overrides of a scenario, and by *)
(* the bounds of a LIVE request.                                             *)

Given(vs, type, target) == {v \in vs : v.type = type /\ v.target = target}

AnyOf(vs) == CHOOSE v \in vs : TRUE

NewHours(s, vs) ==
  [t \in OnShift(s) |-> IF Given(vs, "TECHNICIAN_UNAVAILABLE", t) = {} THEN s.hours[t]
                        ELSE Subtract(s.hours[t], AnyOf(Given(vs, "TECHNICIAN_UNAVAILABLE", t)))]

NewRequests(s, vs) ==
  [r \in Requests |-> [status |-> s.req[r].status,
                       earliest |-> Override(s, vs, "DEFER_MAINTENANCE", r, s.req[r].earliest),
                       latest |-> s.req[r].latest,
                       duration |-> Override(s, vs, "MAINTENANCE_DURATION", r, s.req[r].duration)]]

Transformed(s, vs) ==
  [up |-> s.up, opStatus |-> s.opStatus, hours |-> NewHours(s, vs), req |-> NewRequests(s, vs),
   current |-> s.current]

LEMMA RequestChanged ==
  ASSUME NEW q \in Request, NEW d, NEW e
  PROVE  [q EXCEPT !.duration = d, !.earliest = e]
           = [status |-> q.status, earliest |-> e, latest |-> q.latest, duration |-> d]
  <1>. DEFINE p == [q EXCEPT !.duration = d, !.earliest = e]
  <1>1. DOMAIN q = {"status", "earliest", "latest", "duration"}
    BY DEF Request
  <1>2. p = [x \in {"status", "earliest", "latest", "duration"} |->
               IF x = "earliest" THEN e ELSE IF x = "duration" THEN d ELSE q[x]]
    BY <1>1
  <1>. HIDE DEF p
  <1>3. /\ DOMAIN p = {"status", "earliest", "latest", "duration"}
        /\ p.status = q.status /\ p.earliest = e /\ p.latest = q.latest /\ p.duration = d
    BY <1>2
  <1>. QED
    BY <1>2, <1>3 DEF p

LEMMA SnapshotChanged ==
  ASSUME NEW s, IsSnapshot(s), NEW h, NEW q
  PROVE  [s EXCEPT !.hours = h, !.req = q]
           = [up |-> s.up, opStatus |-> s.opStatus, hours |-> h, req |-> q, current |-> s.current]
  <1>. DEFINE p == [s EXCEPT !.hours = h, !.req = q]
  <1>1. DOMAIN s = {"up", "opStatus", "hours", "req", "current"}
    <2>. DEFINE t == [up |-> s.up, opStatus |-> s.opStatus, hours |-> s.hours, req |-> s.req, current |-> s.current]
    <2>1. s = t
      BY DEF IsSnapshot
    <2>2. DOMAIN t = {"up", "opStatus", "hours", "req", "current"}
      OBVIOUS
    <2>. HIDE DEF t
    <2>. QED
      BY <2>1, <2>2
  <1>2. p = [x \in {"up", "opStatus", "hours", "req", "current"} |->
               IF x = "hours" THEN h ELSE IF x = "req" THEN q ELSE s[x]]
    BY <1>1
  <1>. HIDE DEF p
  <1>3. /\ DOMAIN p = {"up", "opStatus", "hours", "req", "current"}
        /\ p.up = s.up /\ p.opStatus = s.opStatus /\ p.hours = h /\ p.req = q /\ p.current = s.current
    BY <1>2
  <1>. QED
    BY <1>2, <1>3 DEF p

LEMMA RequestMoved ==
  ASSUME NEW q \in Request, NEW e
  PROVE  [q EXCEPT !.earliest = e]
           = [status |-> q.status, earliest |-> e, latest |-> q.latest, duration |-> q.duration]
  <1>. DEFINE p == [q EXCEPT !.earliest = e]
  <1>1. DOMAIN q = {"status", "earliest", "latest", "duration"}
    BY DEF Request
  <1>2. p = [x \in {"status", "earliest", "latest", "duration"} |->
               IF x = "earliest" THEN e ELSE q[x]]
    BY <1>1
  <1>. HIDE DEF p
  <1>3. /\ DOMAIN p = {"status", "earliest", "latest", "duration"}
        /\ p.status = q.status /\ p.earliest = e /\ p.latest = q.latest /\ p.duration = q.duration
    BY <1>2
  <1>. QED
    BY <1>2, <1>3 DEF p

LEMMA SnapshotMoved ==
  ASSUME NEW s, IsSnapshot(s), NEW q
  PROVE  [s EXCEPT !.req = q]
           = [up |-> s.up, opStatus |-> s.opStatus, hours |-> s.hours, req |-> q, current |-> s.current]
  <1>. DEFINE p == [s EXCEPT !.req = q]
  <1>1. DOMAIN s = {"up", "opStatus", "hours", "req", "current"}
    <2>. DEFINE t == [up |-> s.up, opStatus |-> s.opStatus, hours |-> s.hours, req |-> s.req, current |-> s.current]
    <2>1. s = t
      BY DEF IsSnapshot
    <2>2. DOMAIN t = {"up", "opStatus", "hours", "req", "current"}
      OBVIOUS
    <2>. HIDE DEF t
    <2>. QED
      BY <2>1, <2>2
  <1>2. p = [x \in {"up", "opStatus", "hours", "req", "current"} |->
               IF x = "req" THEN q ELSE s[x]]
    BY <1>1
  <1>. HIDE DEF p
  <1>3. /\ DOMAIN p = {"up", "opStatus", "hours", "req", "current"}
        /\ p.up = s.up /\ p.opStatus = s.opStatus /\ p.hours = s.hours /\ p.req = q /\ p.current = s.current
    BY <1>2
  <1>. QED
    BY <1>2, <1>3 DEF p

LEMMA EffectiveIs ==
  ASSUME NEW s, IsSnapshot(s), NEW vs
  PROVE  Effective(s, vs) = IF \E v \in vs : Conflicting(s, v) THEN {} ELSE {Transformed(s, vs)}
  <1>. DEFINE absences(t) == {v \in vs : v.type = "TECHNICIAN_UNAVAILABLE" /\ v.target = t}
              hours == [t \in OnShift(s) |-> IF absences(t) = {} THEN s.hours[t]
                                             ELSE Subtract(s.hours[t], CHOOSE v \in absences(t) : TRUE)]
              req == [r \in Requests |->
                        [s.req[r] EXCEPT !.duration = Override(s, vs, "MAINTENANCE_DURATION", r, @),
                                         !.earliest = Override(s, vs, "DEFER_MAINTENANCE", r, @)]]
  <1>1. hours = NewHours(s, vs)
    BY DEF NewHours, Given, AnyOf
  <1>2. ASSUME NEW r \in Requests
        PROVE  [s.req[r] EXCEPT !.duration = Override(s, vs, "MAINTENANCE_DURATION", r, @),
                                !.earliest = Override(s, vs, "DEFER_MAINTENANCE", r, @)]
                 = NewRequests(s, vs)[r]
    <2>1. s.req[r] \in Request
      BY DEF IsSnapshot
    <2>. DEFINE d == Override(s, vs, "MAINTENANCE_DURATION", r, s.req[r].duration)
                e == Override(s, vs, "DEFER_MAINTENANCE", r, s.req[r].earliest)
    <2>2. NewRequests(s, vs)[r] = [status |-> s.req[r].status, earliest |-> e,
                                   latest |-> s.req[r].latest, duration |-> d]
      BY DEF NewRequests
    <2>3. [s.req[r] EXCEPT !.duration = d, !.earliest = e]
            = [status |-> s.req[r].status, earliest |-> e, latest |-> s.req[r].latest, duration |-> d]
      <3>. HIDE DEF d, e
      <3>. QED
        BY <2>1, RequestChanged
    <2>. QED
      BY <2>2, <2>3
  <1>3. req = NewRequests(s, vs)
    <2>1. \A r \in Requests : req[r] = NewRequests(s, vs)[r]
      BY <1>2
    <2>. QED
      BY <2>1 DEF NewRequests
  <1>4. [s EXCEPT !.hours = NewHours(s, vs), !.req = NewRequests(s, vs)] = Transformed(s, vs)
    <2>. DEFINE h == NewHours(s, vs)
                q == NewRequests(s, vs)
    <2>. HIDE DEF h, q
    <2>1. [s EXCEPT !.hours = h, !.req = q]
            = [up |-> s.up, opStatus |-> s.opStatus, hours |-> h, req |-> q, current |-> s.current]
      BY SnapshotChanged
    <2>. QED
      BY <2>1 DEF h, q, Transformed
  <1>5. Effective(s, vs) = IF \E v \in vs : Conflicting(s, v) THEN {} ELSE {[s EXCEPT !.hours = hours, !.req = req]}
    BY DEF Effective
  <1>. HIDE DEF hours, req
  <1>. QED
    BY <1>1, <1>3, <1>4, <1>5

(* The overrides of a scenario: at most one for a type and a target. *)
OnePerTarget(vs) == \A v, u \in vs : v.type = u.type /\ v.target = u.target => v = u

LEMMA OverrideSetsTyped == \A vs \in OverrideSets : OnePerTarget(vs) /\ \A v \in vs : IsOverride(v)
  BY EngineAssumption DEF OnePerTarget

LEMMA OverrideIs ==
  ASSUME NEW s, NEW vs, OnePerTarget(vs), NEW type, NEW target, NEW old
  PROVE  /\ (\A v \in vs : v.type # type \/ v.target # target) => Override(s, vs, type, target, old) = old
         /\ \A v \in vs : v.type = type /\ v.target = target => Override(s, vs, type, target, old) = v.to
  <1>. DEFINE g == {x \in vs : x.type = type /\ x.target = target}
  <1>1. Override(s, vs, type, target, old) = IF g = {} THEN old ELSE (CHOOSE x \in g : TRUE).to
    BY DEF Override
  <1>2. ASSUME NEW v \in vs, v.type = type, v.target = target
        PROVE  (CHOOSE x \in g : TRUE) = v /\ g # {}
    <2>1. g = {v}
      BY <1>2 DEF OnePerTarget
    <2>2. (CHOOSE x \in {v} : TRUE) = v
      OBVIOUS
    <2>. HIDE DEF g
    <2>. QED
      BY <2>1, <2>2
  <1>3. (\A v \in vs : v.type # type \/ v.target # target) => g = {}
    OBVIOUS
  <1>. HIDE DEF g
  <1>. QED
    BY <1>1, <1>2, <1>3

(* What a LIVE request is bounded by is what the author's scenario changed:   *)
(* for accepted overrides that only defer and contradict no latest start,     *)
(* with_start_constraints and transform build the same snapshot.              *)
LEMMA BoundsAreOverrides ==
  ASSUME NEW s, IsSnapshot(s), NEW vs, OnePerTarget(vs),
         \A v \in vs : v.type = "DEFER_MAINTENANCE" /\ v.to \in Int /\ Accepted(s, v),
         Effective(s, vs) # {}
  PROVE  WithStartConstraints(s, vs) = {Transformed(s, vs)} /\ Effective(s, vs) = {Transformed(s, vs)}
  <1>1. Effective(s, vs) = {Transformed(s, vs)} /\ \A v \in vs : ~Conflicting(s, v)
    BY EffectiveIs
  <1>2. ASSUME NEW v \in vs
        PROVE  /\ v.target \in Requests /\ ActiveRequest(s, v.target)
               /\ Max({0, s.req[v.target].earliest}) <= v.to /\ v.to < Horizon
               /\ v.to <= s.req[v.target].latest
    <2>1. /\ v.type = "DEFER_MAINTENANCE" /\ v.to \in Int
          /\ v.target \in Requests /\ ActiveRequest(s, v.target)
          /\ 0 <= v.to /\ v.to < Horizon /\ s.req[v.target].earliest <= v.to
      BY DEF Accepted
    <2>2. s.req[v.target] \in Request
      BY <2>1 DEF IsSnapshot
    <2>3. s.req[v.target].earliest \in Int /\ s.req[v.target].latest \in Int
      BY <2>2 DEF Request
    <2>4. Max({0, s.req[v.target].earliest}) \in {0, s.req[v.target].earliest}
      BY <2>3 DEF Max
    <2>5. v.to <= s.req[v.target].latest
      BY <1>1, <2>1, <2>3 DEF Conflicting
    <2>. QED
      BY <2>1, <2>3, <2>4, <2>5
  <1>. DEFINE earliest(r) == IF \E b \in vs : b.target = r THEN (CHOOSE b \in vs : b.target = r).to
                             ELSE s.req[r].earliest
              req == [r \in Requests |-> [s.req[r] EXCEPT !.earliest = earliest(r)]]
  <1>3. WithStartConstraints(s, vs) = {[s EXCEPT !.req = req]}
    BY <1>2 DEF WithStartConstraints
  <1>4. ASSUME NEW r \in Requests
        PROVE  req[r] = NewRequests(s, vs)[r]
    <2>1. Override(s, vs, "MAINTENANCE_DURATION", r, s.req[r].duration) = s.req[r].duration
      BY OverrideIs
    <2>2. earliest(r) = Override(s, vs, "DEFER_MAINTENANCE", r, s.req[r].earliest)
      <3>1. CASE \E b \in vs : b.target = r
        <4>1. PICK b \in vs : b.target = r
          BY <3>1
        <4>2. (CHOOSE x \in vs : x.target = r) = b
          <5>1. \A x \in vs : x.target = r <=> x = b
            BY <4>1 DEF OnePerTarget
          <5>. QED
            BY <4>1, <5>1
        <4>. QED
          BY <3>1, <4>1, <4>2, OverrideIs
      <3>2. CASE ~\E b \in vs : b.target = r
        BY <3>2, OverrideIs
      <3>. QED
        BY <3>1, <3>2
    <2>3. s.req[r] \in Request
      BY DEF IsSnapshot
    <2>. DEFINE e == earliest(r)  d == s.req[r].duration
    <2>4. [s.req[r] EXCEPT !.earliest = e] = [status |-> s.req[r].status, earliest |-> e,
                                              latest |-> s.req[r].latest, duration |-> d]
      <3>. HIDE DEF e
      <3>. QED
        BY <2>3, RequestMoved
    <2>. QED
      BY <2>1, <2>2, <2>4 DEF NewRequests
  <1>5. req = NewRequests(s, vs)
    <2>1. \A r \in Requests : req[r] = NewRequests(s, vs)[r]
      BY <1>4
    <2>. QED
      BY <2>1 DEF NewRequests
  <1>6. NewHours(s, vs) = s.hours
    <2>1. \A t : Given(vs, "TECHNICIAN_UNAVAILABLE", t) = {}
      BY DEF Given
    <2>2. NewHours(s, vs) = [t \in DOMAIN s.hours |-> s.hours[t]]
      BY <2>1 DEF NewHours, OnShift
    <2>. QED
      BY <2>2 DEF IsSnapshot
  <1>. HIDE DEF req
  <1>7. [s EXCEPT !.req = req] = Transformed(s, vs)
    BY <1>5, <1>6, SnapshotMoved DEF Transformed
  <1>. QED
    BY <1>1, <1>3, <1>7

(* The point of a duration sweep that repeats the duration of the scenario    *)
(* has the scenario's input, whether or not the author had overridden it.     *)
LEMMA RepeatedDuration ==
  ASSUME IsSnapshot(snapshot), OnePerTarget(overrides), NEW d,
         d = Override(snapshot, overrides, "MAINTENANCE_DURATION", SweptRequest, snapshot.req[SweptRequest].duration)
  PROVE  Effective(snapshot, SweptOverrides(d)) = Effective(snapshot, overrides)
  <1>. DEFINE new == [type |-> "MAINTENANCE_DURATION", target |-> SweptRequest, to |-> d]
              kept == {v \in overrides : ~(v.type = "MAINTENANCE_DURATION" /\ v.target = SweptRequest)}
              swept == SweptOverrides(d)
  <1>1. swept = kept \cup {new} /\ new.type = "MAINTENANCE_DURATION" /\ new.target = SweptRequest /\ new.to = d
    BY DEF SweptOverrides
  <1>. HIDE DEF swept, new
  <1>2. ASSUME NEW type, NEW target, type # "MAINTENANCE_DURATION" \/ target # SweptRequest
        PROVE  Given(swept, type, target) = Given(overrides, type, target)
    BY <1>1, <1>2 DEF Given
  <1>3. (\E v \in swept : Conflicting(snapshot, v)) <=> \E v \in overrides : Conflicting(snapshot, v)
    BY <1>1 DEF Conflicting
  <1>4. OnePerTarget(swept)
    BY <1>1 DEF OnePerTarget
  <1>5. ASSUME NEW type, NEW target, NEW old, type # "MAINTENANCE_DURATION" \/ target # SweptRequest
        PROVE  Override(snapshot, swept, type, target, old) = Override(snapshot, overrides, type, target, old)
    <2>1. \A vs : Override(snapshot, vs, type, target, old) =
                     IF Given(vs, type, target) = {} THEN old ELSE AnyOf(Given(vs, type, target)).to
      BY DEF Override, Given, AnyOf
    <2>. QED
      BY <1>2, <1>5, <2>1
  <1>6. \A old : Override(snapshot, swept, "MAINTENANCE_DURATION", SweptRequest, old) = d
    BY <1>1, <1>4, OverrideIs
  <1>7. NewHours(snapshot, swept) = NewHours(snapshot, overrides)
    BY <1>2 DEF NewHours
  <1>8. NewRequests(snapshot, swept) = NewRequests(snapshot, overrides)
    <2>1. ASSUME NEW r \in Requests
          PROVE  /\ Override(snapshot, swept, "MAINTENANCE_DURATION", r, snapshot.req[r].duration)
                      = Override(snapshot, overrides, "MAINTENANCE_DURATION", r, snapshot.req[r].duration)
                 /\ Override(snapshot, swept, "DEFER_MAINTENANCE", r, snapshot.req[r].earliest)
                      = Override(snapshot, overrides, "DEFER_MAINTENANCE", r, snapshot.req[r].earliest)
      BY <1>5, <1>6
    <2>. QED
      BY <2>1 DEF NewRequests
  <1>9. Transformed(snapshot, swept) = Transformed(snapshot, overrides)
    BY <1>7, <1>8 DEF Transformed
  <1>. QED
    BY <1>3, <1>9, EffectiveIs DEF swept

(* Planning a transformed snapshot is one call, or none.                      *)
LEMMA PlanEffectiveIs ==
  ASSUME NEW s, IsSnapshot(s), NEW vs, NEW k
  PROVE  PlanEffective(s, vs, k) = IF Effective(s, vs) = {} THEN Infeasible
                                   ELSE PlanWithin(Transformed(s, vs), Simulation, Strict, k)
  <1>1. CASE Effective(s, vs) = {}
    BY <1>1 DEF PlanEffective
  <1>2. CASE Effective(s, vs) # {}
    <2>. DEFINE t == Transformed(s, vs)
    <2>1. Effective(s, vs) = {t}
      BY <1>2, EffectiveIs
    <2>. HIDE DEF t
    <2>2. (CHOOSE x \in Effective(s, vs) : TRUE) = t
      BY <2>1
    <2>. QED
      BY <1>2, <2>2 DEF PlanEffective, t
  <1>. QED
    BY <1>1, <1>2

-----------------------------------------------------------------------------
(* The inductive invariant.                                                  *)

PlannedScenario == \E k \in Budgets : scenario = PlanEffective(snapshot, overrides, k)

PlannedLive == \E k \in Budgets : live = LivePlan(snapshot, overrides, k)

PointPlanned(i) ==
  \/ points[i] = Ended("NOT_STARTED")
  \/ /\ axis = "duration"
     /\ \E k \in Budgets : points[i] = PlanEffective(snapshot, SweptOverrides(PointValue(i)), k)
  \/ /\ axis \in SweptWeights
     /\ points[i] = IF scenario.outcome # "FEASIBLE" THEN scenario
                    ELSE Ranked(scenario.candidates, Reweighted(axis, PointValue(i)), scenario.partial)

(* Each answer is that of one call on the input it belongs to, and the inputs *)
(* do not change once they were used.                                         *)
AnswersInv ==
  /\ snapshot \in Snapshots /\ overrides \in OverrideSets
  /\ baseline # NotRun => /\ \A v \in overrides : Accepted(snapshot, v)
                          /\ \E k \in Budgets : baseline = PlanWithin(snapshot, Simulation, Strict, k)
  /\ \/ scenario = NotRun \/ scenario = Ended("INVALID_SCENARIO_INPUT")
     \/ baseline # NotRun /\ PlannedScenario
  /\ live # NotRun => PlannedLive /\ (overrides = {} \/ LiveMapped)
  /\ axis \in {"none", "duration"} \cup SweptWeights
  /\ axis # "none" => scenario # NotRun
  /\ axis = "none" => points = <<>>
  /\ axis # "none" => Len(points) <= Len(SweptValues[axis])
  /\ points \in Seq({points[i] : i \in DOMAIN points})
  /\ \A i \in DOMAIN points : PointPlanned(i)

LEMMA BudgetsTyped == \A k \in Budgets : k \in 0 .. 3 /\ k \in Nat
  BY EngineAssumption, StrategyCount

LEMMA AnswersInit == Init => AnswersInv
  <1>. SUFFICES ASSUME Init PROVE AnswersInv
    OBVIOUS
  <1>1. points = <<>> /\ DOMAIN points = {}
    BY DEF Init
  <1>2. points \in Seq({points[i] : i \in DOMAIN points})
    BY <1>1
  <1>. QED
    BY <1>1, <1>2 DEF Init, AnswersInv

(* A call was made: its answer is none of the two that are no answers.       *)
LEMMA CallAnswers ==
  ASSUME NEW s, IsSnapshot(s), NEW vs, NEW k \in Nat, NEW mode, NEW profile
  PROVE  PlanWithin(s, mode, profile, k) # NotRun /\ PlanEffective(s, vs, k) # NotRun
  <1>1. NotRun.outcome = "NOT_RUN" /\ Infeasible.outcome = "NO_FEASIBLE_PLAN"
    BY DEF NotRun, Infeasible, Ended
  <1>2. \A t, m, p : PlanWithin(t, m, p, k) # NotRun
    BY <1>1, AnswerKinds
  <1>. QED
    BY <1>1, <1>2, PlanEffectiveIs

LEMMA SnapshotsTyped == \A s \in Snapshots : IsSnapshot(s)
  BY EngineAssumption

LEMMA SweptLengths == \A x \in {"duration"} \cup SweptWeights : Len(SweptValues[x]) \in Nat
  BY EngineAssumption

LEMMA NewPoint ==
  ASSUME AnswersInv, NEW e, AddPoint(e)
  PROVE  /\ points' \in Seq({points'[i] : i \in DOMAIN points'})
         /\ Len(points') <= Len(SweptValues[axis])
         /\ DOMAIN points' = 1 .. Len(points) + 1 /\ DOMAIN points = 1 .. Len(points) /\ Len(points) \in Nat
         /\ \A i \in DOMAIN points : points'[i] = points[i]
         /\ points'[Len(points) + 1] = e
         /\ UNCHANGED <<snapshot, overrides, baseline, scenario, axis, live>> /\ axis # "none"
  <1>. DEFINE S == {points[i] : i \in DOMAIN points} \cup {e}
  <1>1. points \in Seq(S) /\ e \in S
    <2>1. points \in Seq({points[i] : i \in DOMAIN points})
      BY DEF AnswersInv
    <2>2. {points[i] : i \in DOMAIN points} \subseteq S
      OBVIOUS
    <2>. HIDE DEF S
    <2>. QED
      BY <2>1, <2>2 DEF S
  <1>2. points' = Append(points, e)
    BY DEF AddPoint
  <1>. HIDE DEF S
  <1>3. /\ points' \in Seq(S) /\ Len(points') = Len(points) + 1 /\ Len(points) \in Nat
        /\ \A i \in 1 .. Len(points) : points'[i] = points[i]
        /\ points'[Len(points) + 1] = e
    BY <1>1, <1>2
  <1>4. DOMAIN points' = 1 .. Len(points) + 1 /\ DOMAIN points = 1 .. Len(points)
    BY <1>1, <1>3
  <1>5. points' \in Seq({points'[i] : i \in DOMAIN points'})
    <2>. DEFINE T == {points'[i] : i \in DOMAIN points'}
    <2>1. \A i \in 1 .. Len(points') : points'[i] \in T
      BY <1>3, <1>4
    <2>. HIDE DEF T
    <2>. QED
      BY <1>3, <2>1 DEF T
  <1>6. Len(points') <= Len(SweptValues[axis])
    <2>1. axis \in {"duration"} \cup SweptWeights /\ Len(points) < Len(SweptValues[axis])
      BY DEF AddPoint, AnswersInv
    <2>2. Len(SweptValues[axis]) \in Nat
      BY <2>1, SweptLengths
    <2>. QED
      BY <1>3, <2>1, <2>2
  <1>. QED
    BY <1>3, <1>4, <1>5, <1>6 DEF AddPoint

(* What a step leaves alone keeps its part of the invariant.                 *)
LEMMA PointsKept ==
  ASSUME AnswersInv, UNCHANGED <<snapshot, overrides, scenario, axis>>,
         NEW i \in DOMAIN points, points'[i] = points[i]
  PROVE  PointPlanned(i)'
  <1>1. PointPlanned(i)
    BY DEF AnswersInv
  <1>2. PointValue(i)' = PointValue(i)
    BY DEF PointValue
  <1>3. \A x : SweptOverrides(x)' = SweptOverrides(x)
    BY DEF SweptOverrides
  <1>. QED
    BY <1>1, <1>2, <1>3 DEF PointPlanned

LEMMA PointStep ==
  ASSUME AnswersInv, NEW e, AddPoint(e), NEW n, n = Len(points) + 1, PointPlanned(n)'
  PROVE  AnswersInv'
  <1>1. /\ points' \in Seq({points'[i] : i \in DOMAIN points'}) /\ Len(points') <= Len(SweptValues[axis])
        /\ DOMAIN points' = 1 .. Len(points) + 1 /\ DOMAIN points = 1 .. Len(points) /\ Len(points) \in Nat
        /\ \A i \in DOMAIN points : points'[i] = points[i]
        /\ UNCHANGED <<snapshot, overrides, baseline, scenario, axis, live>> /\ axis # "none"
    BY NewPoint
  <1>2. \A i \in DOMAIN points' : PointPlanned(i)'
    <2>1. \A i \in DOMAIN points : PointPlanned(i)'
      BY <1>1, PointsKept
    <2>2. \A i \in DOMAIN points' : i \in DOMAIN points \/ i = n
      BY <1>1
    <2>. QED
      BY <2>1, <2>2
  <1>3. PlannedScenario' = PlannedScenario /\ PlannedLive' = PlannedLive /\ LiveMapped' = LiveMapped
    BY <1>1 DEF PlannedScenario, PlannedLive, LiveMapped
  <1>. QED
    BY <1>1, <1>2, <1>3 DEF AnswersInv

LEMMA NoPoints ==
  ASSUME AnswersInv, axis = "none", UNCHANGED points
  PROVE  /\ DOMAIN points' = {} /\ points' = <<>>
         /\ points' \in Seq({points'[i] : i \in DOMAIN points'})
  BY DEF AnswersInv

LEMMA AnswersStep == AnswersInv /\ [Next]_engineVars => AnswersInv'
  <1>. SUFFICES ASSUME AnswersInv, [Next]_engineVars PROVE AnswersInv'
    OBVIOUS
  <1>0. IsSnapshot(snapshot) /\ OnePerTarget(overrides)
    BY SnapshotsTyped, OverrideSetsTyped DEF AnswersInv
  <1>1. CASE UNCHANGED engineVars
    <2>1. UNCHANGED <<snapshot, overrides, baseline, scenario, axis, points, live>>
      BY <1>1 DEF engineVars
    <2>2. \A i \in DOMAIN points : PointPlanned(i)'
      BY <2>1, PointsKept
    <2>3. PlannedScenario' = PlannedScenario /\ PlannedLive' = PlannedLive /\ LiveMapped' = LiveMapped
      BY <2>1 DEF PlannedScenario, PlannedLive, LiveMapped
    <2>. QED
      BY <2>1, <2>2, <2>3 DEF AnswersInv
  <1>2. CASE RejectInput
    <2>1. /\ scenario = NotRun /\ baseline = NotRun /\ live = NotRun /\ axis = "none"
          /\ scenario' = Ended("INVALID_SCENARIO_INPUT")
          /\ UNCHANGED <<snapshot, overrides, baseline, axis, points, live>>
      BY <1>2 DEF RejectInput, AnswersInv
    <2>2. DOMAIN points' = {} /\ points' = <<>> /\ points' \in Seq({points'[i] : i \in DOMAIN points'})
      BY <2>1, NoPoints
    <2>. QED
      BY <2>1, <2>2 DEF AnswersInv
  <1>3. ASSUME NEW k \in Budgets, EvaluateBaseline(k) PROVE AnswersInv'
    <2>1. /\ baseline = NotRun /\ scenario = NotRun /\ live = NotRun /\ axis = "none"
          /\ \A v \in overrides : Accepted(snapshot, v)
          /\ baseline' = PlanWithin(snapshot, Simulation, Strict, k)
          /\ UNCHANGED <<snapshot, overrides, scenario, axis, points, live>>
      BY <1>3 DEF EvaluateBaseline, AnswersInv
    <2>2. DOMAIN points' = {} /\ points' = <<>> /\ points' \in Seq({points'[i] : i \in DOMAIN points'})
      BY <2>1, NoPoints
    <2>. QED
      BY <2>1, <2>2 DEF AnswersInv
  <1>4. ASSUME NEW k \in Budgets, EvaluateScenario(k) PROVE AnswersInv'
    <2>1. /\ baseline # NotRun /\ scenario = NotRun /\ axis = "none"
          /\ UNCHANGED <<snapshot, overrides, baseline, axis, points, live>>
          /\ scenario' = IF Effective(snapshot, overrides) = {snapshot} THEN baseline
                         ELSE PlanEffective(snapshot, overrides, k)
      BY <1>4 DEF EvaluateScenario, AnswersInv
    <2>2. DOMAIN points' = {} /\ points' = <<>> /\ points' \in Seq({points'[i] : i \in DOMAIN points'})
      BY <2>1, NoPoints
    <2>3. \E b \in Budgets : scenario' = PlanEffective(snapshot, overrides, b)
      <3>1. CASE Effective(snapshot, overrides) = {snapshot}
        <4>1. PICK b \in Budgets : baseline = PlanWithin(snapshot, Simulation, Strict, b)
          BY <2>1 DEF AnswersInv
        <4>2. Transformed(snapshot, overrides) = snapshot
          BY <1>0, <3>1, EffectiveIs
        <4>3. PlanEffective(snapshot, overrides, b) = PlanWithin(snapshot, Simulation, Strict, b)
          BY <1>0, <3>1, <4>2, PlanEffectiveIs
        <4>. QED
          BY <2>1, <3>1, <4>1, <4>3
      <3>. QED
        BY <2>1, <3>1
    <2>4. PlannedScenario'
      BY <2>1, <2>3 DEF PlannedScenario
    <2>5. live # NotRun => overrides = {}
      <3>1. NotRun.outcome # "FEASIBLE"
        BY DEF NotRun, Ended
      <3>. QED
        BY <2>1, <3>1 DEF AnswersInv, LiveMapped
    <2>6. live # NotRun => PlannedLive'
      BY <2>1 DEF AnswersInv, PlannedLive
    <2>. QED
      BY <2>1, <2>2, <2>4, <2>5, <2>6 DEF AnswersInv
  <1>5. CASE AskSweep
    <2>1. /\ scenario # NotRun /\ baseline # NotRun /\ live = NotRun /\ axis = "none"
          /\ axis' \in {"duration"} \cup SweptWeights
          /\ UNCHANGED <<snapshot, overrides, baseline, scenario, points, live>>
      BY <1>5 DEF AskSweep
    <2>2. DOMAIN points' = {} /\ points' = <<>> /\ points' \in Seq({points'[i] : i \in DOMAIN points'})
      BY <2>1, NoPoints
    <2>3. PlannedScenario' = PlannedScenario
      BY <2>1 DEF PlannedScenario
    <2>4. Len(points') <= Len(SweptValues[axis'])
      <3>1. Len(points') = 0
        BY <2>2
      <3>. QED
        BY <2>1, <3>1, SweptLengths
    <2>. QED
      BY <2>1, <2>2, <2>3, <2>4 DEF AnswersInv
  <1>6. ASSUME NEW k \in Budgets, PlanPoint(k) PROVE AnswersInv'
    <2>0. PICK i : i = Len(points) + 1
      OBVIOUS
    <2>. DEFINE e == PlanEffective(snapshot, SweptOverrides(PointValue(i)), k)
    <2>1. axis = "duration" /\ AddPoint(e)
      BY <1>6, <2>0 DEF PlanPoint
    <2>. HIDE DEF e
    <2>2. points'[i] = e /\ UNCHANGED <<snapshot, overrides, axis>>
      BY <2>0, <2>1, NewPoint
    <2>3. PointPlanned(i)'
      <3>1. PointValue(i)' = PointValue(i)
        BY <2>2 DEF PointValue
      <3>2. SweptOverrides(PointValue(i))' = SweptOverrides(PointValue(i))
        BY <2>2, <3>1 DEF SweptOverrides
      <3>. QED
        BY <2>1, <2>2, <3>2 DEF PointPlanned, e
    <2>. QED
      BY <2>0, <2>1, <2>3, PointStep
  <1>7. CASE RankPoint
    <2>0. PICK i : i = Len(points) + 1
      OBVIOUS
    <2>. DEFINE e == IF scenario.outcome # "FEASIBLE" THEN scenario
                     ELSE Ranked(scenario.candidates, Reweighted(axis, PointValue(i)), scenario.partial)
    <2>1. axis \in SweptWeights /\ AddPoint(e)
      BY <1>7, <2>0 DEF RankPoint
    <2>. HIDE DEF e
    <2>2. points'[i] = e /\ UNCHANGED <<scenario, axis>>
      BY <2>0, <2>1, NewPoint
    <2>3. PointPlanned(i)'
      <3>1. PointValue(i)' = PointValue(i)
        BY <2>2 DEF PointValue
      <3>. QED
        BY <2>1, <2>2, <3>1 DEF PointPlanned, e
    <2>. QED
      BY <2>0, <2>1, <2>3, PointStep
  <1>8. CASE SweepOutOfTime
    <2>1. AddPoint(Ended("NOT_STARTED"))
      BY <1>8 DEF SweepOutOfTime
    <2>2. PICK i : i = Len(points) + 1
      OBVIOUS
    <2>3. PointPlanned(i)'
      BY <2>1, <2>2, NewPoint DEF PointPlanned
    <2>. QED
      BY <2>1, <2>2, <2>3, PointStep
  <1>9. ASSUME NEW k \in Budgets, PlanLive(k) PROVE AnswersInv'
    <2>1. /\ axis = "none" /\ (overrides = {} \/ LiveMapped)
          /\ live' = LivePlan(snapshot, overrides, k)
          /\ UNCHANGED <<snapshot, overrides, baseline, scenario, axis, points>>
      BY <1>9 DEF PlanLive
    <2>2. DOMAIN points' = {} /\ points' = <<>> /\ points' \in Seq({points'[i] : i \in DOMAIN points'})
      BY <2>1, NoPoints
    <2>3. PlannedScenario' = PlannedScenario /\ LiveMapped' = LiveMapped
      BY <2>1 DEF PlannedScenario, LiveMapped
    <2>4. PlannedLive'
      BY <2>1 DEF PlannedLive
    <2>. QED
      BY <2>1, <2>2, <2>3, <2>4 DEF AnswersInv
  <1>. QED
    BY <1>1, <1>2, <1>3, <1>4, <1>5, <1>6, <1>7, <1>8, <1>9 DEF Next

(* Each answer is the planner's on the input it belongs to                   *)
(* (service.py, evaluation.py, sensitivity.py: nothing is planned twice and  *)
(* nothing of a job is replaced once it was computed).                       *)
THEOREM AnswersFollowInput == Spec => []AnswersInv
  BY AnswersInit, AnswersStep, PTL DEF Spec

-----------------------------------------------------------------------------
(* One input has one answer.                                                 *)

(* The plans of a complete answer depend on the input and the profile alone. *)
LEMMA AnsweredPlans ==
  ASSUME NEW s, NEW mode, NEW profile, NEW k \in 0 .. 3,
         Complete(PlanWithin(s, mode, profile, k))
  PROVE  /\ Offered(PlanWithin(s, mode, profile, k)) = Plans(s, profile, 3)
         /\ PlanWithin(s, mode, profile, k).outcome =
              IF Plans(s, profile, 3) = {} THEN "NO_FEASIBLE_PLAN" ELSE "FEASIBLE"
  <1>. DEFINE r == PlanWithin(s, mode, profile, k)
              cs == Candidates(s, mode, profile, 3)
  <1>1. r = IF cs # {} THEN Ranked(cs, Weights, FALSE) ELSE Infeasible
    BY CompleteAnswer
  <1>2. {<<c.strategy, c.plan>> : c \in cs} = Plans(s, profile, 3)
    BY PlansOffered
  <1>. HIDE DEF cs, r
  <1>3. cs = {} <=> Plans(s, profile, 3) = {}
    BY <1>2
  <1>4. CASE cs = {}
    <2>1. r.outcome = "NO_FEASIBLE_PLAN" /\ r.candidates = {}
      BY <1>1, <1>4 DEF Infeasible, Ended
    <2>. QED
      BY <1>3, <1>4, <2>1 DEF Offered, r
  <1>5. CASE cs # {}
    <2>1. r.outcome = "FEASIBLE" /\ r.candidates = cs
      BY <1>1, <1>5 DEF Ranked
    <2>. QED
      BY <1>2, <1>3, <1>5, <2>1 DEF Offered, r
  <1>. QED
    BY <1>4, <1>5

(* An exception in a shorter call would have been one in the complete call. *)
LEMMA NoLaterException ==
  ASSUME NEW s, NEW profile, ~IllFormed(s, profile, 3), NEW mode, NEW k \in 0 .. 3
  PROVE  PlanWithin(s, mode, profile, k).outcome # "INTERNAL_PLANNING_ERROR"
  <1>. DEFINE r == PlanWithin(s, mode, profile, k)
  <1>1. ~IllFormed(s, profile, k)
    BY DEF IllFormed
  <1>2. \/ r = Ended("PLANNING_TIMEOUT") \/ r = Infeasible
        \/ r = Ranked(Candidates(s, mode, profile, k), Weights, k < Len(Strategies))
    BY <1>1, PlanWithinCases
  <1>. HIDE DEF r
  <1>3. r.outcome \in {"PLANNING_TIMEOUT", "NO_FEASIBLE_PLAN", "FEASIBLE"}
    BY <1>2 DEF Ended, Infeasible, Ranked
  <1>. QED
    BY <1>3 DEF r

LEMMA CompleteScenario ==
  ASSUME AnswersInv, Complete(scenario)
  PROVE  /\ IsSnapshot(snapshot) /\ OnePerTarget(overrides) /\ \A v \in overrides : IsOverride(v)
         /\ \A v \in overrides : Accepted(snapshot, v)
         /\ \E k \in 0 .. 3 : scenario = PlanEffective(snapshot, overrides, k)
  <1>1. \A o \in {"NOT_RUN", "INVALID_SCENARIO_INPUT"} : scenario # Ended(o)
    BY DEF Complete, Ended
  <1>2. scenario # NotRun /\ scenario # Ended("INVALID_SCENARIO_INPUT")
    BY <1>1 DEF NotRun
  <1>. QED
    BY <1>2, SnapshotsTyped, OverrideSetsTyped, BudgetsTyped DEF AnswersInv, PlannedScenario

LEMMA LiveRepeatsScenario ==
  ASSUME AnswersInv, Complete(scenario), overrides # {}, live.outcome # "NOT_RUN",
         Complete(live) \/ live.outcome = "INTERNAL_PLANNING_ERROR"
  PROVE  live.outcome = scenario.outcome /\ Offered(live) = Offered(scenario)
  <1>. DEFINE t == Transformed(snapshot, overrides)
  <1>1. live # NotRun
    BY DEF NotRun, Ended
  <1>2. /\ scenario.outcome = "FEASIBLE" /\ \A v \in overrides : v.type = "DEFER_MAINTENANCE"
        /\ \E k \in 0 .. 3 : live = LivePlan(snapshot, overrides, k)
    BY <1>1, BudgetsTyped DEF AnswersInv, PlannedLive, LiveMapped
  <1>3. PICK k \in 0 .. 3 : scenario = PlanEffective(snapshot, overrides, k)
    BY CompleteScenario
  <1>4. Effective(snapshot, overrides) # {}
    BY <1>2, <1>3, CompleteScenario, PlanEffectiveIs DEF Infeasible, Ended
  <1>5. scenario = PlanWithin(t, Simulation, Strict, k)
    BY <1>3, <1>4, CompleteScenario, PlanEffectiveIs
  <1>6. WithStartConstraints(snapshot, overrides) = {t}
    <2>1. \A v \in overrides : v.to \in Int
      BY <1>2, CompleteScenario DEF IsOverride
    <2>. QED
      BY <1>2, <1>4, <2>1, CompleteScenario, BoundsAreOverrides
  <1>7. PICK j \in 0 .. 3 : live = LivePlan(snapshot, overrides, j)
    BY <1>2
  <1>. HIDE DEF t
  <1>8. (CHOOSE x \in {t} : TRUE) = t
    OBVIOUS
  <1>9. live = PlanWithin(t, Live, Strict, j)
    BY <1>6, <1>7, <1>8 DEF LivePlan
  <1>10. ~IllFormed(t, Strict, 3)
    BY <1>5, CompleteAnswer
  <1>11. Complete(live)
    BY <1>9, <1>10, NoLaterException
  <1>. QED
    BY <1>5, <1>9, <1>11, AnsweredPlans

LEMMA PointRepeatsScenario ==
  ASSUME AnswersInv, Complete(scenario), NEW i \in DOMAIN points,
         Complete(points[i]), PointValue(i) = OwnValue
  PROVE  points[i] = scenario
  <1>1. PointPlanned(i)
    BY DEF AnswersInv
  <1>2. points[i] # Ended("NOT_STARTED")
    BY DEF Complete, Ended
  <1>3. PICK k \in 0 .. 3 : scenario = PlanEffective(snapshot, overrides, k)
    BY CompleteScenario
  <1>4. IsSnapshot(snapshot) /\ OnePerTarget(overrides)
    BY CompleteScenario
  <1>5. ASSUME axis = "duration", NEW j \in Budgets,
               points[i] = PlanEffective(snapshot, SweptOverrides(PointValue(i)), j)
        PROVE  points[i] = scenario
    <2>. DEFINE swept == SweptOverrides(PointValue(i))
    <2>1. Effective(snapshot, swept) = Effective(snapshot, overrides)
      BY <1>4, <1>5, RepeatedDuration DEF OwnValue
    <2>. HIDE DEF swept
    <2>2. points[i] = PlanEffective(snapshot, swept, j) /\ j \in 0 .. 3
      BY <1>5, BudgetsTyped DEF swept
    <2>3. CASE Effective(snapshot, overrides) = {}
      BY <1>3, <1>4, <2>1, <2>2, <2>3, PlanEffectiveIs
    <2>4. CASE Effective(snapshot, overrides) # {}
      <3>1. Transformed(snapshot, swept) = Transformed(snapshot, overrides)
        <4>1. /\ Effective(snapshot, swept) = {Transformed(snapshot, swept)}
              /\ Effective(snapshot, overrides) = {Transformed(snapshot, overrides)}
          BY <1>4, <2>1, <2>4, EffectiveIs
        <4>. QED
          BY <2>1, <4>1
      <3>2. /\ points[i] = PlanWithin(Transformed(snapshot, overrides), Simulation, Strict, j)
            /\ scenario = PlanWithin(Transformed(snapshot, overrides), Simulation, Strict, k)
        BY <1>3, <1>4, <2>1, <2>2, <2>4, <3>1, PlanEffectiveIs
      <3>. QED
        BY <2>2, <3>2, CompleteAnswer
    <2>. QED
      BY <2>3, <2>4
  <1>6. ASSUME axis \in SweptWeights,
               points[i] = IF scenario.outcome # "FEASIBLE" THEN scenario
                           ELSE Ranked(scenario.candidates, Reweighted(axis, PointValue(i)), scenario.partial)
        PROVE  points[i] = scenario
    <2>1. Reweighted(axis, PointValue(i)) = Weights
      <3>1. axis \in Objectives /\ axis # "duration" /\ Weights \in [Objectives -> Nat]
        BY <1>6, EngineAssumption DEF Objectives
      <3>2. PointValue(i) = Weights[axis]
        BY <3>1 DEF OwnValue
      <3>. QED
        BY <3>1, <3>2 DEF Reweighted
    <2>2. scenario.outcome = "FEASIBLE" => scenario = Ranked(scenario.candidates, Weights, scenario.partial)
      <3>1. \/ scenario = Infeasible
            \/ scenario = PlanWithin(Transformed(snapshot, overrides), Simulation, Strict, k)
        BY <1>3, <1>4, PlanEffectiveIs
      <3>2. Infeasible.outcome # "FEASIBLE"
        BY DEF Infeasible, Ended
      <3>. QED
        BY <3>1, <3>2, AnswerKinds
    <2>. QED
      BY <1>6, <2>1, <2>2
  <1>. QED
    BY <1>1, <1>2, <1>5, <1>6 DEF PointPlanned

(* One input has one answer: the LIVE case made from a scenario of deferrals *)
(* is offered the scenario's plans, and the point of a sweep that repeats    *)
(* the scenario's duration or weight has its whole answer (transform.py,     *)
(* maintenance_constraints.py, sensitivity.py).                              *)
THEOREM OneInputOneAnswer == Spec => []SameInputSamePlans
  <1>1. AnswersInv => SameInputSamePlans
    BY LiveRepeatsScenario, PointRepeatsScenario DEF SameInputSamePlans
  <1>. QED
    BY <1>1, AnswersFollowInput, PTL

-----------------------------------------------------------------------------
(* What is offered is feasible.                                              *)

(* The plans the validator lets through, of those the scheduler builds.      *)
LEMMA BuiltFeasible ==
  ASSUME NEW s, IsSnapshot(s), NEW profile, profile = Strict \/ ReservationsDistinct(s), NEW strategy,
         NEW plan \in Built(s, profile, strategy), Valid(s, plan, profile), WellFormed(plan)
  PROVE  Feasible(s, profile, plan)
  <1>1. /\ Retained(s) \subseteq plan
        /\ \A a \in plan : a \in Retained(s) \/ Fresh(s, strategy, a)
        /\ \A o \in Operations : s.opStatus[o] # "COMPLETED" => Of(plan, Production, o) # {}
        /\ \A r \in DueRequests(s, profile) : Of(plan, Maintenance, r) # {}
    BY BuiltComplete DEF SoundPlan
  <1>2. {a \in plan : a.status # "CANCELLED"} = plan
    <2>1. profile = Strict => Retained(s) \subseteq {a \in plan : a.status # "CANCELLED"}
      BY DEF Valid, StrictConstraints
    <2>. QED
      BY <1>1, <2>1 DEF ReservationsDistinct, Fresh
  <1>3. /\ \A a \in plan : InWindow(a) /\ MachineEligible(s, a)
        /\ NoMachineOverlap(plan) /\ PrecedenceKept(s, plan) /\ TechniciansKept(s, plan)
        /\ profile = Strict => StrictConstraints(s, plan)
    BY <1>2 DEF Valid
  <1>4. ASSUME NEW a \in plan
        PROVE  /\ a.start \in Int /\ a.end \in Int /\ a.kind \in {Production, Maintenance}
               /\ a.kind = Production => a.work \in Operations /\ a.team = {}
    <2>1. \A x \in 0 .. Horizon : x \in Int
      BY RulesAssumption
    <2>. QED
      BY <1>1, <2>1, RetainedTyped DEF Fresh, FreshProduction, FreshMaintenance, Production, Maintenance
  <1>5. ResourcesExclusive(plan)
    <2>. SUFFICES ASSUME NEW a \in plan, NEW b \in plan, a.machine = b.machine \/ a.team \cap b.team # {}, a # b
                  PROVE  a.end <= b.start \/ b.end <= a.start
      BY DEF ResourcesExclusive
    <2>1. ~Overlap(a, b)
      <3>1. CASE a.machine = b.machine
        BY <1>3, <3>1 DEF NoMachineOverlap
      <3>2. CASE a.team \cap b.team # {}
        <4>1. a.kind = Maintenance /\ b.kind = Maintenance
          BY <1>4, <3>2
        <4>. QED
          BY <1>3, <3>2, <4>1 DEF TechniciansKept
      <3>. QED
        BY <3>1, <3>2
    <2>. QED
      BY <1>4, <2>1 DEF Overlap
  <1>6. ASSUME NEW o \in Operations, s.opStatus[o] # "COMPLETED"
        PROVE  \E a \in plan : /\ Of(plan, Production, o) = {a} /\ a.kind = Production /\ a.work = o
                               /\ Placed(plan, o) = a
    <2>1. PICK a \in Of(plan, Production, o) : TRUE
      BY <1>1, <1>6
    <2>2. ASSUME NEW b \in Of(plan, Production, o) PROVE b = a
      <3>1. /\ a \in plan /\ a.kind = Production /\ a.work = o
            /\ b \in plan /\ b.kind = Production /\ b.work = o
        BY DEF Of
      <3>2. CASE a \in Retained(s) /\ b \in Retained(s)
        <4>1. CASE profile = Strict
          <5>. DEFINE placed == Of(plan, Production, o)
          <5>1. StrictConstraints(s, plan)
            BY <1>3, <4>1
          <5>2. Cardinality(placed) \in {0, 1}
            BY <5>1 DEF StrictConstraints
          <5>3. IsFiniteSet(placed)
            BY BuiltComplete, FS_Subset DEF SoundPlan, Of
          <5>4. IsFiniteSet(placed \ {a}) /\ Cardinality(placed \ {a}) = Cardinality(placed) - 1
            BY <5>3, FS_RemoveElement
          <5>5. Cardinality(placed \ {a}) \in Nat
            BY <5>4, FS_CardinalityType
          <5>. HIDE DEF placed
          <5>6. placed \ {a} = {}
            BY <5>2, <5>4, <5>5, FS_EmptySet
          <5>. QED
            BY <5>6 DEF placed
        <4>2. CASE ReservationsDistinct(s)
          BY <3>1, <3>2, <4>2 DEF ReservationsDistinct
        <4>. QED
          BY <4>1, <4>2
      <3>3. CASE a \notin Retained(s) /\ b \notin Retained(s)
        <4>1. a.strategy = strategy /\ b.strategy = strategy
          BY <1>1, <3>1, <3>3 DEF Fresh
        <4>. QED
          BY <3>1, <4>1 DEF WellFormed, AssignmentId
      <3>4. \A x, y \in plan : x \in Retained(s) /\ x.kind = Production /\ x.work = o
                               /\ y.kind = Production /\ y.work = o => y \in Retained(s)
        BY <1>1 DEF Fresh, FreshProduction, FreshMaintenance, Of, Production, Maintenance
      <3>. QED
        BY <3>1, <3>2, <3>3, <3>4
    <2>3. Of(plan, Production, o) = {a}
      BY <2>1, <2>2
    <2>4. a \in plan /\ a.kind = Production /\ a.work = o
      BY DEF Of
    <2>5. Placed(plan, o) = a
      BY <1>4, <2>3, <2>4 DEF Placed
    <2>. QED
      BY <2>3, <2>4, <2>5
  <1>7. ASSUME NEW o \in Operations, s.opStatus[o] # "COMPLETED"
        PROVE  OperationDone(s, plan, o)
    <2>1. PICK a \in plan : /\ Of(plan, Production, o) = {a} /\ a.kind = Production /\ a.work = o
                            /\ Placed(plan, o) = a
      BY <1>6, <1>7
    <2>2. a.machine \in s.up \cap DOMAIN Minutes[o] /\ 0 <= a.start /\ a.end <= Horizon
      BY <1>3, <1>4, <2>1 DEF MachineEligible, InWindow
    <2>3. a \notin Retained(s) => a.end = a.start + Minutes[o][a.machine] /\ Release[o] <= a.start
      BY <1>1, <2>1 DEF Fresh, FreshProduction, FreshMaintenance, Production, Maintenance
    <2>4. ASSUME NEW p \in Predecessors[o], s.opStatus[p] # "COMPLETED"
          PROVE  \E b \in Of(plan, Production, p) : b.end <= a.start
      <3>1. p \in Operations
        BY RulesAssumption
      <3>2. PICK b \in plan : Of(plan, Production, p) = {b} /\ Placed(plan, p) = b
        BY <1>6, <2>4, <3>1
      <3>3. Placed(plan, p).end <= a.start
        BY <1>3, <2>1, <2>4 DEF PrecedenceKept
      <3>. QED
        BY <3>2, <3>3
    <2>. QED
      BY <2>1, <2>2, <2>3, <2>4 DEF OperationDone
  <1>8. ASSUME NEW r \in Requests, NEW a \in Of(plan, Maintenance, r)
        PROVE  RequestDone(s, plan, r, a)
    <2>1. a \in plan /\ a.kind = Maintenance /\ a.work = r /\ Maintenance # Production
      BY DEF Of, Maintenance, Production
    <2>2. a.machine = MachineOf[r] /\ 0 <= a.start /\ a.end <= Horizon
      BY <1>3, <1>4, <2>1 DEF MachineEligible, InWindow
    <2>3. TeamAdequate(a) /\ \A t \in a.team : TechnicianAvailable(s, t, a)
      BY <1>3, <2>1 DEF TechniciansKept
    <2>4. \A skill \in Needs[r] : \E t \in a.team : skill \in Covers[t][r]
      BY <2>1, <2>3 DEF TeamAdequate
    <2>5. a \notin Retained(s) => FreshMaintenance(s, a)
      BY <1>1, <2>1 DEF Fresh, FreshProduction
    <2>. QED
      BY <2>1, <2>2, <2>3, <2>4, <2>5 DEF RequestDone, TechnicianAvailable, FreshMaintenance
  <1>9. ASSUME NEW r \in Requests, ActiveRequest(s, r)
        PROVE  Of(plan, Maintenance, r) # {}
    <2>1. CASE r \in DueRequests(s, profile)
      BY <1>1, <2>1
    <2>2. CASE r \notin DueRequests(s, profile)
      <3>1. PICK b \in Retained(s) : b.kind = Maintenance /\ b.work = r
        BY <1>9, <2>2 DEF DueRequests
      <3>2. b \in Of(plan, Maintenance, r)
        BY <1>1, <3>1 DEF Of
      <3>. QED
        BY <3>2
    <2>. QED
      BY <2>1, <2>2
  <1>10. ASSUME profile = Strict
         PROVE  /\ \A o \in Operations : s.opStatus[o] # "BLOCKED"
                /\ \A a \in plan : a.kind = Production => Release[a.work] <= a.start
                /\ \A r \in Requests : Cardinality(Of(plan, Maintenance, r)) <= 1
    <2>1. StrictConstraints(s, plan)
      BY <1>3, <1>10
    <2>2. ASSUME NEW o \in Operations PROVE s.opStatus[o] # "BLOCKED"
      <3>1. CASE s.opStatus[o] # "COMPLETED"
        <4>1. PICK a \in plan : a.kind = Production /\ a.work = o
          BY <1>6, <3>1
        <4>2. StrictProduction(s, a)
          BY <2>1, <4>1 DEF StrictConstraints
        <4>. QED
          BY <4>1, <4>2 DEF StrictProduction
      <3>. QED
        BY <3>1
    <2>3. ASSUME NEW r \in Requests PROVE Cardinality(Of(plan, Maintenance, r)) <= 1
      <3>1. Cardinality(Of(plan, Maintenance, r)) \in {0, 1}
        BY <2>1 DEF StrictConstraints
      <3>. QED
        BY <3>1
    <2>4. \A a \in plan : a.kind = Production => StrictProduction(s, a)
      BY <2>1 DEF StrictConstraints
    <2>5. ASSUME NEW a \in plan, a.kind = Production PROVE Release[a.work] <= a.start
      <3>1. a.start \in Int /\ Release[a.work] \in Int
        BY <1>4, <2>5, RulesAssumption
      <3>. QED
        BY <2>4, <2>5, <3>1 DEF StrictProduction
    <2>. QED
      BY <2>2, <2>3, <2>5
  <1>. QED
    BY <1>1, <1>5, <1>7, <1>8, <1>9, <1>10 DEF Feasible

LEMMA AnswerFeasible ==
  ASSUME NEW s, IsSnapshot(s), NEW mode, NEW profile, profile = Strict \/ ReservationsDistinct(s),
         NEW k \in Nat,
         NEW c \in PlanWithin(s, mode, profile, k).candidates
  PROVE  Feasible(s, profile, c.plan)
  <1>. DEFINE r == PlanWithin(s, mode, profile, k)
              cs == Candidates(s, mode, profile, k)
  <1>1. r = IF IllFormed(s, profile, k) THEN Ended("INTERNAL_PLANNING_ERROR")
            ELSE IF cs # {} THEN Ranked(cs, Weights, k < Len(Strategies))
            ELSE IF k < Len(Strategies) THEN Ended("PLANNING_TIMEOUT") ELSE Infeasible
    BY PlanWithinCases
  <1>2. c \in r.candidates
    OBVIOUS
  <1>. HIDE DEF r, cs
  <1>3. \A o : Ended(o).candidates = {}
    BY DEF Ended
  <1>4. ~IllFormed(s, profile, k) /\ cs # {}
    BY <1>1, <1>2, <1>3 DEF Infeasible
  <1>5. r.candidates = cs
    BY <1>1, <1>4 DEF Ranked
  <1>6. c \in Candidates(s, mode, profile, k)
    BY <1>2, <1>5 DEF cs
  <1>7. PICK i \in 1 .. k : \E p \in Built(s, profile, Strategies[i]) :
                              Valid(s, p, profile) /\ c = Candidate(s, mode, i, p)
    BY <1>6 DEF Candidates
  <1>8. PICK p \in Built(s, profile, Strategies[i]) : Valid(s, p, profile) /\ c = Candidate(s, mode, i, p)
    BY <1>7
  <1>9. WellFormed(p) /\ c.plan = p
    BY <1>4, <1>8 DEF IllFormed, Candidate
  <1>. QED
    BY <1>8, <1>9, BuiltFeasible

LEMMA EndedOffersNothing == NotRun.candidates = {} /\ Infeasible.candidates = {} /\ \A o : Ended(o).candidates = {}
  BY DEF NotRun, Infeasible, Ended

LEMMA SubtractTyped ==
  ASSUME NEW windows \in SUBSET (Int \X Int), NEW v, v.from \in Int, v.to \in Int
  PROVE  Subtract(windows, v) \in SUBSET (Int \X Int)
  BY DEF Subtract

LEMMA OverrideTyped ==
  ASSUME NEW s, NEW vs, NEW type, NEW target, NEW old, NEW T, old \in T,
         \A v \in vs : v.type = type => v.to \in T
  PROVE  Override(s, vs, type, target, old) \in T
  <1>. DEFINE g == {x \in vs : x.type = type /\ x.target = target}
  <1>1. g # {} => (CHOOSE x \in g : TRUE) \in g
    OBVIOUS
  <1>2. \A x \in g : x.to \in T
    OBVIOUS
  <1>. QED
    BY <1>1, <1>2 DEF Override

(* What the transformation makes of a snapshot is one.                       *)
LEMMA TransformedTyped ==
  ASSUME NEW s, IsSnapshot(s), NEW vs, \A v \in vs : IsOverride(v)
  PROVE  IsSnapshot(Transformed(s, vs))
  <1>. DEFINE t == Transformed(s, vs)
              hours == NewHours(s, vs)
              req == NewRequests(s, vs)
  <1>1. /\ t.up = s.up /\ t.opStatus = s.opStatus /\ t.hours = hours /\ t.req = req /\ t.current = s.current
        /\ t = [up |-> t.up, opStatus |-> t.opStatus, hours |-> t.hours, req |-> t.req, current |-> t.current]
    BY DEF Transformed
  <1>2. DOMAIN hours = DOMAIN s.hours /\ hours \in [DOMAIN s.hours -> SUBSET (Int \X Int)]
    <2>1. ASSUME NEW x \in DOMAIN s.hours
          PROVE  hours[x] \in SUBSET (Int \X Int)
      <3>. DEFINE g == Given(vs, "TECHNICIAN_UNAVAILABLE", x)
      <3>1. s.hours[x] \in SUBSET (Int \X Int)
        BY DEF IsSnapshot
      <3>2. hours[x] = IF g = {} THEN s.hours[x] ELSE Subtract(s.hours[x], AnyOf(g))
        BY DEF NewHours, OnShift
      <3>3. CASE g # {}
        <4>1. AnyOf(g) \in g
          BY <3>3 DEF AnyOf
        <4>2. AnyOf(g).from \in Int /\ AnyOf(g).to \in Int
          BY <4>1 DEF Given, IsOverride
        <4>. HIDE DEF g, hours
        <4>. QED
          BY <3>1, <3>2, <3>3, <4>2, SubtractTyped
      <3>. HIDE DEF g, hours
      <3>. QED
        BY <3>1, <3>2, <3>3
    <2>. QED
      BY <2>1 DEF NewHours, OnShift
  <1>3. req \in [Requests -> Request]
    <2>1. ASSUME NEW r \in Requests
          PROVE  req[r] \in Request
      <3>1. s.req[r] \in Request
        BY DEF IsSnapshot
      <3>2. Override(s, vs, "DEFER_MAINTENANCE", r, s.req[r].earliest) \in Int
        <4>1. s.req[r].earliest \in Int /\ \A v \in vs : v.type = "DEFER_MAINTENANCE" => v.to \in Int
          BY <3>1 DEF Request, IsOverride
        <4>. QED
          BY <4>1, OverrideTyped
      <3>3. Override(s, vs, "MAINTENANCE_DURATION", r, s.req[r].duration) \in Nat \ {0}
        <4>1. PICK T : T = Nat \ {0}
          OBVIOUS
        <4>2. s.req[r].duration \in T /\ \A v \in vs : v.type = "MAINTENANCE_DURATION" => v.to \in T
          BY <3>1, <4>1 DEF Request, IsOverride
        <4>3. Override(s, vs, "MAINTENANCE_DURATION", r, s.req[r].duration) \in T
          BY <4>2, OverrideTyped
        <4>. QED
          BY <4>1, <4>3
      <3>. QED
        BY <3>1, <3>2, <3>3 DEF NewRequests, Request
    <2>. QED
      BY <2>1 DEF NewRequests
  <1>4. IsSnapshot(t)
    <2>. HIDE DEF t, hours, req
    <2>. QED
      BY <1>1, <1>2, <1>3 DEF IsSnapshot
  <1>. QED
    BY <1>4

(* The points of a sweep take their values from the request.                 *)
(* The values of a sweep, in the order they are evaluated.                   *)
LEMMA AscendingIs ==
  ASSUME NEW x \in {"duration"} \cup SweptWeights
  PROVE  LET q == SweptValues[x]
             a == Ascending(q)
         IN  /\ \A i \in 1 .. Len(q) : a[i] \in ToSet(q)
             /\ \A i, j \in 1 .. Len(q) : i < j => a[i] < a[j]
             /\ ToSet(q) \in SUBSET Nat /\ (x = "duration" => 0 \notin ToSet(q))
  <1>. DEFINE q == SweptValues[x]
              S == ToSet(q)
              a == Ascending(q)
  <1>0. q \in Seq(Nat) /\ (x = "duration" => q \in Seq(Nat \ {0}))
    <2>1. x \in SweptWeights => q \in Seq(Nat)
      BY EngineAssumption
    <2>2. x = "duration" => q \in Seq(Nat \ {0})
      BY EngineAssumption
    <2>3. q \in Seq(Nat \ {0}) => q \in Seq(Nat)
      OBVIOUS
    <2>. QED
      BY <2>1, <2>2, <2>3
  <1>1. IsInjective(q) /\ Len(q) \in Nat /\ DOMAIN q = 1 .. Len(q)
    BY <1>0, EngineAssumption
  <1>. HIDE DEF q
  <1>2. PICK n \in Nat : n = Len(q)
    BY <1>1
  <1>3. S = {q[j] : j \in 1 .. n} /\ S \in SUBSET Nat /\ (x = "duration" => 0 \notin S)
    BY <1>0, <1>1, <1>2 DEF ToSet, Range
  <1>4. IsFiniteSet(S) /\ Cardinality(S) = n
    <2>1. IsFiniteSet(1 .. n) /\ Cardinality(1 .. n) = n
      BY FS_Interval
    <2>2. q \in [1 .. n -> S]
      BY <1>0, <1>1, <1>2, <1>3
    <2>3. q \in Injection(1 .. n, S) /\ q \in Surjection(1 .. n, S)
      BY <1>1, <1>2, <1>3, <2>2 DEF Injection, Surjection, IsInjective
    <2>. QED
      BY <2>1, <2>3, FS_Surjection
  <1>. HIDE DEF S
  <1>5. a \in SetToSeqs(S) /\ \A i, j \in DOMAIN a : i < j => a[i] < a[j]
    BY <1>3, <1>4, SortedTeam DEF Ascending, S
  <1>. HIDE DEF a
  <1>6. DOMAIN a = 1 .. n /\ \A j \in 1 .. n : a[j] \in S
    BY <1>4, <1>5 DEF SetToSeqs
  <1>. QED
    BY <1>2, <1>3, <1>5, <1>6 DEF a, S, q

LEMMA PointsCounted ==
  ASSUME AnswersInv, axis # "none"
  PROVE  \A i \in DOMAIN points : i \in 1 .. Len(SweptValues[axis]) /\ i \in 1 .. Len(points)
  <1>1. Len(SweptValues[axis]) \in Nat
    BY SweptLengths DEF AnswersInv
  <1>2. PICK n \in Nat : n = Len(SweptValues[axis])
    BY <1>1
  <1>3. points \in Seq({points[j] : j \in DOMAIN points}) /\ Len(points) <= n
    BY <1>2 DEF AnswersInv
  <1>4. DOMAIN points = 1 .. Len(points) /\ Len(points) \in Nat
    BY <1>3
  <1>. QED
    BY <1>2, <1>3, <1>4

LEMMA SweptTyped ==
  ASSUME AnswersInv, axis = "duration", NEW i \in DOMAIN points
  PROVE  \A v \in SweptOverrides(PointValue(i)) : IsOverride(v)
  <1>1. PointValue(i) \in Nat \ {0}
    <2>1. i \in 1 .. Len(SweptValues[axis])
      BY PointsCounted
    <2>2. /\ Ascending(SweptValues[axis])[i] \in ToSet(SweptValues[axis])
          /\ ToSet(SweptValues[axis]) \in SUBSET Nat /\ 0 \notin ToSet(SweptValues[axis])
      BY <2>1, AscendingIs
    <2>. QED
      BY <2>2 DEF PointValue
  <1>2. \A v \in overrides : IsOverride(v)
    BY OverrideSetsTyped DEF AnswersInv
  <1>3. ASSUME NEW x \in Nat \ {0}, NEW v \in SweptOverrides(x) PROVE IsOverride(v)
    <2>1. v \in overrides \/ (v.type = "MAINTENANCE_DURATION" /\ v.to \in Nat \ {0})
      BY <1>3 DEF SweptOverrides
    <2>2. v.type = "MAINTENANCE_DURATION" /\ v.to \in Nat \ {0} => IsOverride(v)
      BY DEF IsOverride
    <2>. QED
      BY <1>2, <2>1, <2>2
  <1>. QED
    BY <1>1, <1>3

LEMMA EffectiveAnswerFeasible ==
  ASSUME NEW s, IsSnapshot(s), NEW vs, \A v \in vs : IsOverride(v), NEW k \in Nat,
         NEW t \in Effective(s, vs), NEW c \in PlanEffective(s, vs, k).candidates
  PROVE  Feasible(t, Strict, c.plan)
  <1>. DEFINE x == Transformed(s, vs)
  <1>1. t = x /\ Effective(s, vs) # {}
    BY EffectiveIs
  <1>2. PlanEffective(s, vs, k) = PlanWithin(x, Simulation, Strict, k)
    BY <1>1, PlanEffectiveIs
  <1>3. IsSnapshot(x)
    BY TransformedTyped
  <1>. HIDE DEF x
  <1>. QED
    BY <1>1, <1>2, <1>3, AnswerFeasible

LEMMA InputsTyped ==
  ASSUME AnswersInv
  PROVE  /\ IsSnapshot(snapshot) /\ OnePerTarget(overrides)
         /\ \A v \in overrides : IsOverride(v)
  BY SnapshotsTyped, OverrideSetsTyped, EngineAssumption DEF AnswersInv

LEMMA BaselineFeasible ==
  ASSUME AnswersInv, NEW c \in baseline.candidates
  PROVE  Feasible(snapshot, Strict, c.plan)
  <1>1. baseline # NotRun
    BY EndedOffersNothing
  <1>2. PICK k \in Budgets : baseline = PlanWithin(snapshot, Simulation, Strict, k)
    BY <1>1 DEF AnswersInv
  <1>. QED
    BY <1>2, BudgetsTyped, InputsTyped, AnswerFeasible

LEMMA ScenarioFeasible ==
  ASSUME AnswersInv, NEW s \in Effective(snapshot, overrides), NEW c \in scenario.candidates
  PROVE  Feasible(s, Strict, c.plan)
  <1>1. scenario # NotRun /\ scenario # Ended("INVALID_SCENARIO_INPUT")
    BY EndedOffersNothing
  <1>2. PICK k \in Budgets : scenario = PlanEffective(snapshot, overrides, k)
    BY <1>1 DEF AnswersInv, PlannedScenario
  <1>. QED
    BY <1>2, BudgetsTyped, InputsTyped, EffectiveAnswerFeasible

(* A point ranked again offers what the scenario offered.                    *)
LEMMA PointFeasible ==
  ASSUME AnswersInv, NEW i \in DOMAIN points, NEW s \in Effective(snapshot, PointOverrides(i)),
         NEW c \in points[i].candidates
  PROVE  Feasible(s, Strict, c.plan)
  <1>1. PointPlanned(i)
    BY DEF AnswersInv
  <1>2. points[i] # Ended("NOT_STARTED")
    BY EndedOffersNothing
  <1>3. ASSUME axis = "duration", NEW k \in Budgets,
               points[i] = PlanEffective(snapshot, SweptOverrides(PointValue(i)), k)
        PROVE  Feasible(s, Strict, c.plan)
    <2>. DEFINE vs == SweptOverrides(PointValue(i))
    <2>1. PointOverrides(i) = vs
      BY <1>3 DEF PointOverrides
    <2>2. \A v \in vs : IsOverride(v)
      BY <1>3, SweptTyped
    <2>. HIDE DEF vs
    <2>3. points[i] = PlanEffective(snapshot, vs, k)
      BY <1>3 DEF vs
    <2>. QED
      BY <2>1, <2>2, <2>3, BudgetsTyped, InputsTyped, EffectiveAnswerFeasible
  <1>4. ASSUME axis \in SweptWeights,
               points[i] = IF scenario.outcome # "FEASIBLE" THEN scenario
                           ELSE Ranked(scenario.candidates, Reweighted(axis, PointValue(i)), scenario.partial)
        PROVE  Feasible(s, Strict, c.plan)
    <2>1. PointOverrides(i) = overrides
      BY <1>4, EngineAssumption DEF PointOverrides, Objectives
    <2>2. points[i].candidates = scenario.candidates
      BY <1>4 DEF Ranked
    <2>. QED
      BY <2>1, <2>2, ScenarioFeasible
  <1>. QED
    BY <1>1, <1>2, <1>3, <1>4 DEF PointPlanned

LEMMA LiveFeasible ==
  ASSUME AnswersInv, NEW c \in live.candidates
  PROVE  IF overrides = {} THEN ReservationsDistinct(snapshot) => Feasible(snapshot, Legacy, c.plan)
         ELSE \A s \in Effective(snapshot, overrides) : Feasible(s, Strict, c.plan)
  <1>1. live # NotRun
    BY EndedOffersNothing
  <1>2. PICK k \in Budgets : live = LivePlan(snapshot, overrides, k)
    BY <1>1 DEF AnswersInv, PlannedLive
  <1>3. CASE overrides = {}
    <2>1. live = PlanWithin(snapshot, Live, Legacy, k)
      BY <1>2, <1>3 DEF LivePlan
    <2>. QED
      BY <1>3, <2>1, BudgetsTyped, InputsTyped, AnswerFeasible
  <1>4. ASSUME overrides # {}, NEW s \in Effective(snapshot, overrides)
        PROVE  Feasible(s, Strict, c.plan)
    <2>. DEFINE t == Transformed(snapshot, overrides)
    <2>1. LiveMapped
      BY <1>1, <1>4 DEF AnswersInv
    <2>2. scenario # NotRun /\ scenario # Ended("INVALID_SCENARIO_INPUT")
      BY <2>1 DEF LiveMapped, NotRun, Ended
    <2>3. \A v \in overrides : v.type = "DEFER_MAINTENANCE" /\ v.to \in Int /\ Accepted(snapshot, v)
      <3>1. \A v \in overrides : Accepted(snapshot, v)
        BY <2>2 DEF AnswersInv
      <3>2. \A v \in overrides : v.type = "DEFER_MAINTENANCE"
        BY <2>1 DEF LiveMapped
      <3>3. \A v \in overrides : v.to \in Int
        BY <3>2, InputsTyped DEF IsOverride
      <3>. QED
        BY <3>1, <3>2, <3>3
    <2>4. WithStartConstraints(snapshot, overrides) = {t} /\ Effective(snapshot, overrides) = {t}
      BY <1>4, <2>3, InputsTyped, BoundsAreOverrides
    <2>5. IsSnapshot(t)
      BY InputsTyped, TransformedTyped
    <2>. HIDE DEF t
    <2>6. (CHOOSE x \in {t} : TRUE) = t
      OBVIOUS
    <2>7. live = PlanWithin(t, Live, Strict, k)
      BY <1>2, <1>4, <2>4, <2>6 DEF LivePlan
    <2>. QED
      BY <1>4, <2>4, <2>5, <2>7, BudgetsTyped, AnswerFeasible
  <1>. QED
    BY <1>3, <1>4

(* What is offered, to a reviewer or to the author of a scenario, meets      *)
(* every hard constraint of the input it was made from: under the strict     *)
(* profile whatever the current schedule, under legacy-v1 when its entries   *)
(* to keep are distinct (scheduler.py keeps what that validator leaves       *)
(* unchecked).                                                               *)
THEOREM OffersMeetConstraints == Spec => []OffersAreFeasible
  <1>1. AnswersInv => OffersAreFeasible
    <2>. SUFFICES ASSUME AnswersInv PROVE OffersAreFeasible
      OBVIOUS
    <2>1. \A c \in baseline.candidates : Feasible(snapshot, Strict, c.plan)
      BY BaselineFeasible
    <2>2. \A s \in Effective(snapshot, overrides) : \A c \in scenario.candidates : Feasible(s, Strict, c.plan)
      BY ScenarioFeasible
    <2>3. \A i \in DOMAIN points : \A s \in Effective(snapshot, PointOverrides(i)) :
            \A c \in points[i].candidates : Feasible(s, Strict, c.plan)
      BY PointFeasible
    <2>4. IF overrides = {} THEN ReservationsDistinct(snapshot) =>
                                   \A c \in live.candidates : Feasible(snapshot, Legacy, c.plan)
          ELSE \A s \in Effective(snapshot, overrides) : \A c \in live.candidates : Feasible(s, Strict, c.plan)
      BY LiveFeasible
    <2>. QED
      BY <2>1, <2>2, <2>3, <2>4 DEF OffersAreFeasible
  <1>. QED
    BY <1>1, AnswersFollowInput, PTL

-----------------------------------------------------------------------------
(* A definition by recursion over the subsets of a finite set.               *)
IsRecursive(g, D, base, step) ==
  \A S \in D : g[S] = IF S = {} THEN base ELSE step[<<AnyOf(S), g[S \ {AnyOf(S)}]>>]

LEMMA SmallerSubset ==
  ASSUME NEW D, IsFiniteSet(D), NEW S \in SUBSET D
  PROVE  /\ IsFiniteSet(S) /\ Cardinality(S) \in Nat /\ Cardinality(S) <= Cardinality(D)
         /\ S = {} <=> Cardinality(S) = 0
         /\ S # {} => /\ AnyOf(S) \in S /\ S \ {AnyOf(S)} \in SUBSET D
                      /\ Cardinality(S \ {AnyOf(S)}) = Cardinality(S) - 1
  <1>1. IsFiniteSet(S) /\ Cardinality(S) <= Cardinality(D)
    BY FS_Subset
  <1>2. Cardinality(S) \in Nat
    BY <1>1, FS_CardinalityType
  <1>3. S = {} <=> Cardinality(S) = 0
    BY <1>1, FS_EmptySet
  <1>4. ASSUME S # {}
        PROVE  /\ AnyOf(S) \in S /\ S \ {AnyOf(S)} \in SUBSET D
               /\ Cardinality(S \ {AnyOf(S)}) = Cardinality(S) - 1
    <2>1. AnyOf(S) \in S
      BY <1>4 DEF AnyOf
    <2>2. Cardinality(S \ {AnyOf(S)}) = Cardinality(S) - 1
      BY <1>1, <2>1, FS_RemoveElement
    <2>. QED
      BY <2>1, <2>2
  <1>. QED
    BY <1>1, <1>2, <1>3, <1>4

LEMMA SubsetRecursion ==
  ASSUME NEW D, IsFiniteSet(D), NEW V, NEW base \in V, NEW step \in [D \X V -> V]
  PROVE  \E g \in [SUBSET D -> V] : IsRecursive(g, SUBSET D, base, step)
  <1>. DEFINE upTo(n) == {S \in SUBSET D : Cardinality(S) <= n}
              I == {n \in Nat : \E g \in [upTo(n) -> V] : IsRecursive(g, upTo(n), base, step)}
  <1>1. 0 \in I
    <2>. DEFINE g == [S \in upTo(0) |-> base]
    <2>1. ASSUME NEW S \in upTo(0) PROVE S = {}
      <3>1. Cardinality(S) \in Nat /\ Cardinality(S) <= 0 /\ (S = {} <=> Cardinality(S) = 0)
        BY SmallerSubset
      <3>. QED
        BY <3>1
    <2>2. g \in [upTo(0) -> V]
      OBVIOUS
    <2>3. IsRecursive(g, upTo(0), base, step)
      BY <2>1 DEF IsRecursive
    <2>. HIDE DEF g
    <2>. QED
      BY <2>2, <2>3
  <1>2. ASSUME NEW n \in I PROVE n + 1 \in I
    <2>1. PICK g \in [upTo(n) -> V] : IsRecursive(g, upTo(n), base, step)
      OBVIOUS
    <2>. DEFINE h == [S \in upTo(n + 1) |-> IF S = {} THEN base ELSE step[<<AnyOf(S), g[S \ {AnyOf(S)}]>>]]
    <2>2. ASSUME NEW S \in upTo(n) PROVE S \in upTo(n + 1) /\ h[S] = g[S]
      <3>1. Cardinality(S) \in Nat /\ Cardinality(S) <= n /\ n \in Nat
        BY SmallerSubset
      <3>2. S \in upTo(n + 1)
        BY <3>1
      <3>. QED
        BY <2>1, <3>2 DEF IsRecursive
    <2>3. ASSUME NEW S \in upTo(n + 1), S # {}
          PROVE  S \ {AnyOf(S)} \in upTo(n) /\ AnyOf(S) \in D
      BY <2>3, SmallerSubset
    <2>4. h \in [upTo(n + 1) -> V]
      BY <2>1, <2>3
    <2>5. IsRecursive(h, upTo(n + 1), base, step)
      <3>. SUFFICES ASSUME NEW S \in upTo(n + 1)
                    PROVE  h[S] = IF S = {} THEN base ELSE step[<<AnyOf(S), h[S \ {AnyOf(S)}]>>]
        BY DEF IsRecursive
      <3>1. S # {} => h[S \ {AnyOf(S)}] = g[S \ {AnyOf(S)}]
        BY <2>2, <2>3
      <3>2. h[S] = IF S = {} THEN base ELSE step[<<AnyOf(S), g[S \ {AnyOf(S)}]>>]
        OBVIOUS
      <3>. HIDE DEF h
      <3>. QED
        BY <3>1, <3>2
    <2>. HIDE DEF h, upTo
    <2>. QED
      BY <2>4, <2>5
  <1>3. I = Nat
    <2>. HIDE DEF I
    <2>1. I \in SUBSET Nat
      BY DEF I
    <2>. QED
      BY <1>1, <1>2, <2>1, Induction
  <1>4. Cardinality(D) \in Nat
    BY FS_CardinalityType
  <1>5. upTo(Cardinality(D)) = SUBSET D
    BY SmallerSubset
  <1>6. PICK n : n = Cardinality(D)
    OBVIOUS
  <1>. HIDE DEF upTo
  <1>7. \E g \in [upTo(n) -> V] : IsRecursive(g, upTo(n), base, step)
    BY <1>3, <1>4, <1>6
  <1>. QED
    BY <1>5, <1>6, <1>7

(* A sum is the total of a function, whatever the order of the members.      *)
IsTotal(g, f) ==
  g = [S \in SUBSET DOMAIN f |-> IF S = {} THEN 0 ELSE LET x == CHOOSE y \in S : TRUE IN f[x] + g[S \ {x}]]

LEMMA TotalTyped ==
  ASSUME NEW D, IsFiniteSet(D), NEW f \in [D -> Int]
  PROVE  Total(f) \in Int
  <1>. DEFINE step == [p \in D \X Int |-> f[p[1]] + p[2]]
  <1>0. PICK V : V = Int
    OBVIOUS
  <1>1. step \in [D \X V -> V] /\ 0 \in V
    BY <1>0
  <1>2. \A x \in D, n \in Int : step[<<x, n>>] = f[x] + n
    OBVIOUS
  <1>. HIDE DEF step
  <1>3. PICK g \in [SUBSET D -> Int] : IsRecursive(g, SUBSET D, 0, step)
    <2>1. \E g \in [SUBSET D -> V] : IsRecursive(g, SUBSET D, 0, step)
      BY <1>1, SubsetRecursion
    <2>. QED
      BY <1>0, <2>1
  <1>4. ASSUME NEW S \in SUBSET D
        PROVE  g[S] = IF S = {} THEN 0 ELSE LET x == CHOOSE y \in S : TRUE IN f[x] + g[S \ {x}]
    <2>1. g[S] = IF S = {} THEN 0 ELSE step[<<AnyOf(S), g[S \ {AnyOf(S)}]>>]
      BY <1>3 DEF IsRecursive
    <2>2. S # {} => AnyOf(S) \in D /\ S \ {AnyOf(S)} \in SUBSET D
      BY DEF AnyOf
    <2>3. S # {} => g[S \ {AnyOf(S)}] \in Int
      BY <2>2
    <2>4. g[S] = IF S = {} THEN 0 ELSE f[AnyOf(S)] + g[S \ {AnyOf(S)}]
      BY <1>2, <2>1, <2>2, <2>3
    <2>. QED
      BY <2>4 DEF AnyOf
  <1>5. \E h : IsTotal(h, f)
    <2>1. g = [S \in SUBSET DOMAIN f |-> IF S = {} THEN 0 ELSE LET x == CHOOSE y \in S : TRUE IN f[x] + g[S \ {x}]]
      BY <1>4
    <2>. QED
      BY <2>1 DEF IsTotal
  <1>. DEFINE t == CHOOSE h : IsTotal(h, f)
  <1>6. IsTotal(t, f)
    BY <1>5
  <1>7. Total(f) = t[D]
    BY DEF Total, IsTotal
  <1>. HIDE DEF t
  <1>8. \A S \in SUBSET D : t[S] = IF S = {} THEN 0 ELSE f[AnyOf(S)] + t[S \ {AnyOf(S)}]
    BY <1>6 DEF IsTotal, AnyOf
  <1>. DEFINE I == {n \in Nat : \A S \in SUBSET D : Cardinality(S) <= n => t[S] \in Int}
  <1>9. 0 \in I
    <2>1. ASSUME NEW S \in SUBSET D, Cardinality(S) <= 0 PROVE t[S] \in Int
      <3>. HIDE DEF I
      <3>1. Cardinality(S) \in Nat /\ (S = {} <=> Cardinality(S) = 0)
        BY SmallerSubset
      <3>2. S = {}
        BY <2>1, <3>1
      <3>3. t[S] = 0
        BY <1>8, <3>2
      <3>. QED
        BY <3>3
    <2>. QED
      BY <2>1
  <1>10. ASSUME NEW n \in I PROVE n + 1 \in I
    <2>1. ASSUME NEW S \in SUBSET D, Cardinality(S) <= n + 1
          PROVE  t[S] \in Int
      <3>1. CASE S = {}
        BY <1>8, <3>1
      <3>2. CASE S # {}
        <4>1. AnyOf(S) \in D /\ S \ {AnyOf(S)} \in SUBSET D /\ Cardinality(S \ {AnyOf(S)}) <= n
          BY <2>1, <3>2, SmallerSubset
        <4>2. t[S \ {AnyOf(S)}] \in Int
          BY <4>1
        <4>3. f[AnyOf(S)] \in Int
          BY <4>1
        <4>. QED
          BY <1>8, <3>2, <4>2, <4>3
      <3>. QED
        BY <3>1, <3>2
    <2>. QED
      BY <2>1
  <1>11. I = Nat
    <2>. HIDE DEF I
    <2>1. I \in SUBSET Nat
      BY DEF I
    <2>. QED
      BY <1>9, <1>10, <2>1, Induction
  <1>12. D \in SUBSET D /\ Cardinality(D) \in Nat
    BY FS_CardinalityType
  <1>13. t[D] \in Int
    <2>1. Cardinality(D) \in I
      BY <1>11, <1>12
    <2>. QED
      BY <1>12, <2>1
  <1>. QED
    BY <1>7, <1>13

-----------------------------------------------------------------------------
(* The common denominator.                                                   *)

LEMMA LeastCommonMultipleIs ==
  ASSUME NEW a \in Nat \ {0}, NEW b \in Nat \ {0}
  PROVE  /\ LeastCommonMultiple(a, b) \in Nat \ {0}
         /\ a <= LeastCommonMultiple(a, b) /\ b <= LeastCommonMultiple(a, b)
  <1>. DEFINE M == {j * a : j \in {k \in 1 .. b : (k * a) % b = 0}}
  <1>1. ASSUME NEW x \in M PROVE x \in Nat \ {0} /\ a <= x /\ b <= x
    <2>1. PICK j \in 1 .. b : (j * a) % b = 0 /\ x = j * a
      OBVIOUS
    <2>2. j \in Nat \ {0}
      OBVIOUS
    <2>. QED
      BY <2>1, <2>2
  <1>2. b * a \in M
    <2>1. (b * a) % b = 0
      OBVIOUS
    <2>. QED
      BY <2>1
  <1>3. LeastCommonMultiple(a, b) = Min(M)
    BY DEF LeastCommonMultiple
  <1>. HIDE DEF M
  <1>4. M \in SUBSET Int /\ M # {} /\ \A x \in M : 0 <= x
    BY <1>1, <1>2
  <1>5. Min(M) \in M
    BY <1>4, MinIs
  <1>. QED
    BY <1>1, <1>3, <1>5

LEMMA MetricsAre ==
  Metrics = {"makespan", "tardiness", "lateJobs", "failures", "downtime", "cost", "utilization", "changes"}
  BY DEF Metrics, Group, Objectives

LEMMA MetricsFinite == IsFiniteSet(Metrics)
  <1>. DEFINE q == [i \in 1 .. 8 |-> CASE i = 1 -> "makespan" [] i = 2 -> "tardiness" [] i = 3 -> "lateJobs"
                                       [] i = 4 -> "failures" [] i = 5 -> "downtime" [] i = 6 -> "cost"
                                       [] i = 7 -> "utilization" [] OTHER -> "changes"]
  <1>1. q \in [1 .. 8 -> Metrics]
    BY MetricsAre
  <1>2. /\ q[1] = "makespan" /\ q[2] = "tardiness" /\ q[3] = "lateJobs" /\ q[4] = "failures"
        /\ q[5] = "downtime" /\ q[6] = "cost" /\ q[7] = "utilization" /\ q[8] = "changes"
    OBVIOUS
  <1>. HIDE DEF q
  <1>3. \A m \in Metrics : \E i \in 1 .. 8 : q[i] = m
    BY <1>2, MetricsAre
  <1>4. q \in Surjection(1 .. 8, Metrics)
    BY <1>1, <1>3 DEF Surjection
  <1>5. IsFiniteSet(1 .. 8)
    <2>1. PICK n \in Nat : n = 8
      OBVIOUS
    <2>2. IsFiniteSet(1 .. n)
      BY FS_Interval
    <2>. QED
      BY <2>1, <2>2
  <1>. QED
    BY <1>4, <1>5, FS_Surjection

IsCommon(g, ks) ==
  g = [S \in SUBSET Metrics |->
         IF S = {} THEN 1
         ELSE LET m == CHOOSE y \in S : TRUE IN LeastCommonMultiple(g[S \ {m}], Span(ks, m))]

LEMMA CommonIs ==
  ASSUME NEW ks, \A m \in Metrics : Span(ks, m) \in Nat \ {0}
  PROVE  Common(ks) \in Nat \ {0} /\ \A m \in Metrics : Span(ks, m) <= Common(ks)
  <1>. DEFINE step == [p \in Metrics \X (Nat \ {0}) |-> LeastCommonMultiple(p[2], Span(ks, p[1]))]
  <1>0. PICK V : V = Nat \ {0}
    OBVIOUS
  <1>1. step \in [Metrics \X V -> V] /\ 1 \in V
    BY <1>0, LeastCommonMultipleIs
  <1>2. \A m \in Metrics, n \in V : step[<<m, n>>] = LeastCommonMultiple(n, Span(ks, m))
    BY <1>0
  <1>. HIDE DEF step
  <1>3. PICK g \in [SUBSET Metrics -> V] : IsRecursive(g, SUBSET Metrics, 1, step)
    BY <1>1, SubsetRecursion, MetricsFinite
  <1>4. ASSUME NEW S \in SUBSET Metrics
        PROVE  g[S] = IF S = {} THEN 1
                      ELSE LET m == CHOOSE y \in S : TRUE IN LeastCommonMultiple(g[S \ {m}], Span(ks, m))
    <2>1. g[S] = IF S = {} THEN 1 ELSE step[<<AnyOf(S), g[S \ {AnyOf(S)}]>>]
      BY <1>3 DEF IsRecursive
    <2>2. S # {} => AnyOf(S) \in Metrics /\ S \ {AnyOf(S)} \in SUBSET Metrics
      BY DEF AnyOf
    <2>3. S # {} => g[S \ {AnyOf(S)}] \in V
      BY <2>2
    <2>4. g[S] = IF S = {} THEN 1 ELSE LeastCommonMultiple(g[S \ {AnyOf(S)}], Span(ks, AnyOf(S)))
      BY <1>2, <2>1, <2>2, <2>3
    <2>. QED
      BY <2>4 DEF AnyOf
  <1>5. \E h : IsCommon(h, ks)
    <2>1. g = [S \in SUBSET Metrics |->
                 IF S = {} THEN 1
                 ELSE LET m == CHOOSE y \in S : TRUE IN LeastCommonMultiple(g[S \ {m}], Span(ks, m))]
      BY <1>4
    <2>. QED
      BY <2>1 DEF IsCommon
  <1>. DEFINE t == CHOOSE h : IsCommon(h, ks)
  <1>6. IsCommon(t, ks)
    BY <1>5
  <1>7. Common(ks) = t[Metrics]
    BY DEF Common, IsCommon
  <1>. HIDE DEF t
  <1>8. \A S \in SUBSET Metrics :
          t[S] = IF S = {} THEN 1 ELSE LeastCommonMultiple(t[S \ {AnyOf(S)}], Span(ks, AnyOf(S)))
    BY <1>6 DEF IsCommon, AnyOf
  <1>. DEFINE Good(S) == t[S] \in Nat \ {0} /\ \A m \in S : Span(ks, m) <= t[S]
              I == {n \in Nat : \A S \in SUBSET Metrics : Cardinality(S) <= n => Good(S)}
  <1>9. 0 \in I
    <2>1. ASSUME NEW S \in SUBSET Metrics, Cardinality(S) <= 0 PROVE Good(S)
      <3>. HIDE DEF I
      <3>1. Cardinality(S) \in Nat /\ (S = {} <=> Cardinality(S) = 0)
        BY SmallerSubset, MetricsFinite
      <3>2. S = {}
        BY <2>1, <3>1
      <3>3. t[S] = 1
        BY <1>8, <3>2
      <3>. QED
        BY <3>2, <3>3
    <2>. QED
      BY <2>1
  <1>10. ASSUME NEW n \in I PROVE n + 1 \in I
    <2>1. ASSUME NEW S \in SUBSET Metrics, Cardinality(S) <= n + 1
          PROVE  Good(S)
      <3>1. CASE S = {}
        <4>1. t[S] = 1
          BY <1>8, <3>1
        <4>. QED
          BY <3>1, <4>1
      <3>2. CASE S # {}
        <4>. DEFINE m == AnyOf(S)
                    R == S \ {AnyOf(S)}
        <4>1. m \in S /\ R \in SUBSET Metrics /\ Cardinality(R) <= n
          BY <2>1, <3>2, SmallerSubset, MetricsFinite
        <4>2. Good(R)
          BY <4>1
        <4>3. t[S] = LeastCommonMultiple(t[R], Span(ks, m))
          BY <1>8, <3>2
        <4>4. Span(ks, m) \in Nat \ {0}
          BY <4>1
        <4>. HIDE DEF m, R, I
        <4>5. t[S] \in Nat \ {0} /\ t[R] <= t[S] /\ Span(ks, m) <= t[S]
          BY <4>2, <4>3, <4>4, LeastCommonMultipleIs
        <4>6. \A x \in S : x = m \/ x \in R
          BY DEF m, R
        <4>7. \A x \in S : Span(ks, x) \in Nat \ {0}
          OBVIOUS
        <4>. QED
          BY <4>2, <4>5, <4>6, <4>7
      <3>. QED
        BY <3>1, <3>2
    <2>. QED
      BY <2>1
  <1>11. I = Nat
    <2>. HIDE DEF I
    <2>1. I \in SUBSET Nat
      BY DEF I
    <2>. QED
      BY <1>9, <1>10, <2>1, Induction
  <1>12. Metrics \in SUBSET Metrics /\ Cardinality(Metrics) \in Nat
    BY FS_CardinalityType, MetricsFinite
  <1>13. Good(Metrics)
    <2>1. Cardinality(Metrics) \in I
      BY <1>11, <1>12
    <2>. QED
      BY <1>12, <2>1
  <1>. QED
    BY <1>7, <1>13

-----------------------------------------------------------------------------
(* Scores: of a table of KPIs by strategy number.                            *)

IsTable(ks) ==
  /\ DOMAIN ks \in SUBSET (1 .. 3) /\ DOMAIN ks # {}
  /\ \A i \in DOMAIN ks : \A m \in Metrics : ks[i][m] \in Int

LEMMA ValuesBounded ==
  ASSUME NEW D \in SUBSET (1 .. 3), NEW f \in [D -> Int]
  PROVE  \E a, b \in Int : \A i \in D : a <= f[i] /\ f[i] <= b
  <1>. DEFINE x(i) == IF i \in D THEN f[i] ELSE 0
              lo == IF x(1) <= x(2) THEN x(1) ELSE x(2)
              hi == IF x(1) <= x(2) THEN x(2) ELSE x(1)
              least == IF lo <= x(3) THEN lo ELSE x(3)
              most == IF hi <= x(3) THEN x(3) ELSE hi
  <1>1. x(1) \in Int /\ x(2) \in Int /\ x(3) \in Int
    OBVIOUS
  <1>2. \A i \in D : f[i] \in {x(1), x(2), x(3)}
    OBVIOUS
  <1>. HIDE DEF x
  <1>3. least \in Int /\ most \in Int /\ \A y \in {x(1), x(2), x(3)} : least <= y /\ y <= most
    BY <1>1
  <1>. HIDE DEF lo, hi, least, most
  <1>. QED
    BY <1>2, <1>3

LEMMA SpanIs ==
  ASSUME NEW ks, IsTable(ks), NEW m \in Metrics
  PROVE  /\ Worst(ks, m) \in Int /\ Best(ks, m) \in Int /\ Best(ks, m) <= Worst(ks, m)
         /\ \A i \in DOMAIN ks : Best(ks, m) <= ks[i][m] /\ ks[i][m] <= Worst(ks, m)
         /\ Span(ks, m) \in Nat \ {0}
  <1>. DEFINE S == {ks[i][m] : i \in DOMAIN ks}
  <1>1. \A i \in DOMAIN ks : ks[i][m] \in Int
    BY DEF IsTable
  <1>2. PICK a \in Int, b \in Int : \A y \in S : a <= y /\ y <= b
    <2>. DEFINE f == [i \in DOMAIN ks |-> ks[i][m]]
    <2>1. f \in [DOMAIN ks -> Int] /\ DOMAIN ks \in SUBSET (1 .. 3)
      BY <1>1 DEF IsTable
    <2>. HIDE DEF f
    <2>2. \E a, b \in Int : \A i \in DOMAIN ks : a <= f[i] /\ f[i] <= b
      BY <2>1, ValuesBounded
    <2>3. \A y \in S : \E i \in DOMAIN ks : y = f[i]
      BY DEF f
    <2>4. PICK a \in Int : \E b \in Int : \A i \in DOMAIN ks : a <= f[i] /\ f[i] <= b
      BY <2>2
    <2>5. PICK b \in Int : \A i \in DOMAIN ks : a <= f[i] /\ f[i] <= b
      BY <2>4
    <2>. HIDE DEF S
    <2>6. \A y \in S : a <= y /\ y <= b
      BY <2>3, <2>5
    <2>. QED
      BY <2>6
  <1>5. S \in SUBSET Int /\ S # {} /\ \A y \in S : a <= y /\ y <= b
    BY <1>1, <1>2 DEF IsTable
  <1>6. \A i \in DOMAIN ks : ks[i][m] \in S
    OBVIOUS
  <1>7. Worst(ks, m) = Max(S) /\ Best(ks, m) = Min(S)
    BY DEF Worst, Best
  <1>. HIDE DEF S
  <1>8. Max(S) \in S /\ \A y \in S : y <= Max(S)
    BY <1>5, MaxIs
  <1>9. Min(S) \in S /\ \A y \in S : Min(S) <= y
    BY <1>5, MinIs
  <1>10. /\ Worst(ks, m) \in Int /\ Best(ks, m) \in Int /\ Best(ks, m) <= Worst(ks, m)
         /\ \A i \in DOMAIN ks : Best(ks, m) <= ks[i][m] /\ ks[i][m] <= Worst(ks, m)
    <2>1. Worst(ks, m) \in Int /\ Best(ks, m) \in Int
      BY <1>5, <1>7, <1>8, <1>9
    <2>. QED
      BY <1>6, <1>7, <1>8, <1>9, <2>1
  <1>11. Span(ks, m) \in Nat \ {0}
    <2>. DEFINE d == Worst(ks, m) - Best(ks, m)
    <2>1. d \in Int
      BY <1>10
    <2>2. Span(ks, m) = Max({1, d})
      BY DEF Span
    <2>. HIDE DEF d
    <2>3. Span(ks, m) = IF 1 >= d THEN 1 ELSE d
      BY <2>1, <2>2, MaxOfTwo
    <2>. QED
      BY <2>1, <2>3
  <1>. QED
    BY <1>10, <1>11

(* The benefit of a metric grows as the metric gets less.                    *)
LEMMA BenefitOrdered ==
  ASSUME NEW ks, IsTable(ks), NEW m \in Metrics, NEW i \in DOMAIN ks
  PROVE  /\ Benefit(ks, Common(ks), m, i) \in Int
         /\ \A j \in DOMAIN ks : /\ ks[i][m] <= ks[j][m] => Benefit(ks, Common(ks), m, j) <= Benefit(ks, Common(ks), m, i)
                                 /\ ks[i][m] < ks[j][m] => Benefit(ks, Common(ks), m, j) < Benefit(ks, Common(ks), m, i)
  <1>. DEFINE s == Span(ks, m)
              c == Common(ks)
              w == Worst(ks, m)
              b == Best(ks, m)
              q == c \div s
  <1>1. /\ w \in Int /\ b \in Int /\ s \in Nat \ {0}
        /\ \A j \in DOMAIN ks : b <= ks[j][m] /\ ks[j][m] <= w /\ ks[j][m] \in Int
    BY SpanIs DEF IsTable
  <1>2. c \in Nat \ {0} /\ s <= c
    BY CommonIs, SpanIs
  <1>3. \A j : Benefit(ks, c, m, j) = IF w = b THEN c ELSE q * (w - ks[j][m])
    BY DEF Benefit
  <1>. HIDE DEF s, c, w, b
  <1>4. q \in Nat \ {0}
    <2>1. c \div s \in Int /\ c \div s >= 1
      BY <1>1, <1>2
    <2>. QED
      BY <2>1
  <1>. HIDE DEF q
  <1>5. CASE w = b
    BY <1>1, <1>2, <1>3, <1>5 DEF c
  <1>6. CASE w # b
    <2>1. \A j \in DOMAIN ks : Benefit(ks, c, m, j) = q * (w - ks[j][m]) /\ w - ks[j][m] \in Int
      BY <1>1, <1>3, <1>6
    <2>2. \A x, y \in Int : /\ x <= y => q * x <= q * y
                            /\ x < y => q * x < q * y
                            /\ q * x \in Int
      BY <1>4
    <2>3. ASSUME NEW j \in DOMAIN ks
          PROVE  /\ ks[i][m] <= ks[j][m] => Benefit(ks, c, m, j) <= Benefit(ks, c, m, i)
                 /\ ks[i][m] < ks[j][m] => Benefit(ks, c, m, j) < Benefit(ks, c, m, i)
      <3>1. /\ ks[i][m] <= ks[j][m] => w - ks[j][m] <= w - ks[i][m]
            /\ ks[i][m] < ks[j][m] => w - ks[j][m] < w - ks[i][m]
        BY <1>1
      <3>. QED
        BY <2>1, <2>2, <3>1
    <2>4. Benefit(ks, c, m, i) \in Int
      BY <2>1, <2>2
    <2>. QED
      BY <2>3, <2>4 DEF c
  <1>. QED
    BY <1>5, <1>6

LEMMA GroupsAre ==
  /\ Objectives = {"production", "reliability", "maintenance", "workforce", "stability"}
  /\ Group["production"] = {"makespan", "tardiness", "lateJobs"}
  /\ Group["reliability"] = {"failures", "downtime"}
  /\ Group["maintenance"] = {"cost"} /\ Group["workforce"] = {"utilization"} /\ Group["stability"] = {"changes"}
  /\ \A o \in Objectives : Group[o] \in SUBSET Metrics
  BY MetricsAre DEF Group, Objectives

LEMMA ObjectiveIs ==
  ASSUME NEW ks, NEW c, NEW i
  PROVE  /\ ObjectiveBenefit(ks, c, "production", i) =
              2 * (Benefit(ks, c, "makespan", i) + Benefit(ks, c, "tardiness", i) + Benefit(ks, c, "lateJobs", i))
         /\ ObjectiveBenefit(ks, c, "reliability", i) =
              3 * (Benefit(ks, c, "failures", i) + Benefit(ks, c, "downtime", i))
         /\ ObjectiveBenefit(ks, c, "maintenance", i) = 6 * Benefit(ks, c, "cost", i)
         /\ ObjectiveBenefit(ks, c, "workforce", i) = 6 * Benefit(ks, c, "utilization", i)
         /\ ObjectiveBenefit(ks, c, "stability", i) = 6 * Benefit(ks, c, "changes", i)
  BY DEF ObjectiveBenefit

(* The benefit of an objective grows as its metrics get less.                *)
LEMMA ObjectiveOrdered ==
  ASSUME NEW ks, IsTable(ks), NEW o \in Objectives, NEW i \in DOMAIN ks, NEW j \in DOMAIN ks
  PROVE  LET gain(x) == ObjectiveBenefit(ks, Common(ks), o, x)
         IN  /\ gain(i) \in Int
             /\ (\A m \in Group[o] : ks[i][m] <= ks[j][m]) =>
                  /\ gain(j) <= gain(i)
                  /\ (\E m \in Group[o] : ks[i][m] < ks[j][m]) => gain(j) < gain(i)
  <1>. DEFINE c == Common(ks)
              gain(x) == ObjectiveBenefit(ks, c, o, x)
              value(m, x) == Benefit(ks, c, m, x)
  <1>1. \A m \in Metrics : /\ value(m, i) \in Int /\ value(m, j) \in Int
                           /\ ks[i][m] <= ks[j][m] => value(m, j) <= value(m, i)
                           /\ ks[i][m] < ks[j][m] => value(m, j) < value(m, i)
    BY BenefitOrdered
  <1>. DEFINE allLess == \A m \in Group[o] : ks[i][m] <= ks[j][m]
              someLess == \E m \in Group[o] : ks[i][m] < ks[j][m]
  <1>2. \A m \in Group[o] : /\ value(m, i) \in Int /\ value(m, j) \in Int
                            /\ allLess => value(m, j) <= value(m, i)
                            /\ ks[i][m] < ks[j][m] => value(m, j) < value(m, i)
    BY <1>1, GroupsAre
  <1>3. someLess => \E m \in Group[o] : value(m, j) < value(m, i)
    BY <1>2
  <1>. DEFINE Goal == /\ gain(i) \in Int
                      /\ allLess => gain(j) <= gain(i)
                      /\ allLess /\ someLess => gain(j) < gain(i)
  <1>4. ASSUME o = "production" PROVE Goal
    <2>1. \A x : gain(x) = 2 * (value("makespan", x) + value("tardiness", x) + value("lateJobs", x))
      BY <1>4, ObjectiveIs
    <2>2. Group[o] = {"makespan", "tardiness", "lateJobs"}
      BY <1>4, GroupsAre
    <2>. HIDE DEF gain, value, allLess, someLess
    <2>. QED
      BY <1>2, <1>3, <2>1, <2>2
  <1>5. ASSUME o = "reliability" PROVE Goal
    <2>1. \A x : gain(x) = 3 * (value("failures", x) + value("downtime", x))
      BY <1>5, ObjectiveIs
    <2>2. Group[o] = {"failures", "downtime"}
      BY <1>5, GroupsAre
    <2>. HIDE DEF gain, value, allLess, someLess
    <2>. QED
      BY <1>2, <1>3, <2>1, <2>2
  <1>6. ASSUME NEW n, Group[o] = {n}, \A x : gain(x) = 6 * value(n, x)
        PROVE  Goal
    <2>. HIDE DEF gain, value, allLess, someLess
    <2>. QED
      BY <1>2, <1>3, <1>6
  <1>7. ASSUME o = "maintenance" PROVE Goal
    BY <1>6, <1>7, ObjectiveIs, GroupsAre
  <1>8. ASSUME o = "workforce" PROVE Goal
    BY <1>6, <1>8, ObjectiveIs, GroupsAre
  <1>9. ASSUME o = "stability" PROVE Goal
    BY <1>6, <1>9, ObjectiveIs, GroupsAre
  <1>10. Goal
    BY <1>4, <1>5, <1>7, <1>8, <1>9, GroupsAre
  <1>. QED
    BY <1>10

LEMMA ScoreIs ==
  ASSUME NEW ks, NEW c, NEW w, NEW i
  PROVE  Score(ks, c, w, i) = w["production"] * ObjectiveBenefit(ks, c, "production", i)
           + w["reliability"] * ObjectiveBenefit(ks, c, "reliability", i)
           + w["maintenance"] * ObjectiveBenefit(ks, c, "maintenance", i)
           + w["workforce"] * ObjectiveBenefit(ks, c, "workforce", i)
           + w["stability"] * ObjectiveBenefit(ks, c, "stability", i)
  BY DEF Score

LEMMA Products ==
  ASSUME NEW a \in Nat, NEW x \in Int, NEW y \in Int
  PROVE  /\ a * x \in Int
         /\ x <= y => a * x <= a * y
         /\ x < y /\ a > 0 => a * x < a * y
         /\ a = 0 => a * x = 0
  OBVIOUS

(* A candidate no worse in all that counts and better in some of it scores   *)
(* higher.                                                                   *)
LEMMA BetterScoresHigher ==
  ASSUME NEW ks, IsTable(ks), NEW w \in [Objectives -> Nat], NEW i \in DOMAIN ks, NEW j \in DOMAIN ks,
         \A o \in Objectives : w[o] > 0 => \A m \in Group[o] : ks[i][m] <= ks[j][m],
         \E o \in Objectives : w[o] > 0 /\ \E m \in Group[o] : ks[i][m] < ks[j][m]
  PROVE  Score(ks, Common(ks), w, j) < Score(ks, Common(ks), w, i)
  <1>. DEFINE c == Common(ks)
              term(o, x) == w[o] * ObjectiveBenefit(ks, c, o, x)
  <1>1. ASSUME NEW o \in Objectives
        PROVE  /\ term(o, i) \in Int /\ term(o, j) \in Int /\ term(o, j) <= term(o, i)
               /\ (w[o] > 0 /\ \E m \in Group[o] : ks[i][m] < ks[j][m]) => term(o, j) < term(o, i)
    <2>. DEFINE gi == ObjectiveBenefit(ks, c, o, i)
                gj == ObjectiveBenefit(ks, c, o, j)
    <2>1. /\ gi \in Int /\ gj \in Int
          /\ w[o] > 0 => gj <= gi
          /\ (w[o] > 0 /\ \E m \in Group[o] : ks[i][m] < ks[j][m]) => gj < gi
      BY ObjectiveOrdered
    <2>2. w[o] \in Nat
      OBVIOUS
    <2>. HIDE DEF gi, gj
    <2>3. /\ w[o] * gi \in Int /\ w[o] * gj \in Int
          /\ gj <= gi => w[o] * gj <= w[o] * gi
          /\ gj < gi /\ w[o] > 0 => w[o] * gj < w[o] * gi
          /\ w[o] = 0 => w[o] * gi = 0 /\ w[o] * gj = 0
      BY <2>1, <2>2, Products
    <2>4. w[o] > 0 \/ w[o] = 0
      BY <2>2
    <2>5. /\ w[o] * gi \in Int /\ w[o] * gj \in Int /\ w[o] * gj <= w[o] * gi
          /\ (w[o] > 0 /\ \E m \in Group[o] : ks[i][m] < ks[j][m]) => w[o] * gj < w[o] * gi
      BY <2>1, <2>3, <2>4
    <2>. QED
      BY <2>5 DEF gi, gj
  <1>2. \E o \in Objectives : term(o, j) < term(o, i)
    BY <1>1
  <1>3. \A x : Score(ks, c, w, x) = term("production", x) + term("reliability", x) + term("maintenance", x)
                                      + term("workforce", x) + term("stability", x)
    BY ScoreIs
  <1>. HIDE DEF term, c
  <1>4. Score(ks, c, w, j) < Score(ks, c, w, i)
    BY <1>1, <1>2, <1>3, GroupsAre
  <1>. QED
    BY <1>4 DEF c

LEMMA ScoreTyped ==
  ASSUME NEW ks, IsTable(ks), NEW w \in [Objectives -> Nat], NEW i \in DOMAIN ks
  PROVE  Score(ks, Common(ks), w, i) \in Int
  <1>. DEFINE c == Common(ks)
              term(o) == w[o] * ObjectiveBenefit(ks, c, o, i)
  <1>1. ASSUME NEW o \in Objectives PROVE term(o) \in Int
    <2>1. w[o] \in Nat /\ ObjectiveBenefit(ks, c, o, i) \in Int
      BY ObjectiveOrdered
    <2>. QED
      BY <2>1, Products
  <1>2. Score(ks, c, w, i) = term("production") + term("reliability") + term("maintenance")
                               + term("workforce") + term("stability")
    BY ScoreIs
  <1>. HIDE DEF term, c
  <1>3. Score(ks, c, w, i) \in Int
    BY <1>1, <1>2, GroupsAre
  <1>. QED
    BY <1>3 DEF c

(* The recommendation is the first of the candidates with the best score.    *)
LEMMA RecommendedIs ==
  ASSUME NEW ks, IsTable(ks), NEW w \in [Objectives -> Nat]
  PROVE  LET r == Recommended(ks, w)
             score(i) == Score(ks, Common(ks), w, i)
         IN  /\ r \in DOMAIN ks
             /\ \A j \in DOMAIN ks : /\ score(j) \in Int /\ score(j) <= score(r)
                                     /\ score(j) = score(r) => r <= j
  <1>. DEFINE D == DOMAIN ks
              f == [i \in DOMAIN ks |-> Score(ks, Common(ks), w, i)]
              B == {i \in DOMAIN ks : \A j \in DOMAIN ks : f[j] <= f[i]}
  <1>1. D \in SUBSET (1 .. 3) /\ D # {}
    BY DEF IsTable
  <1>2. f \in [D -> Int]
    BY ScoreTyped
  <1>3. \A i \in D : f[i] = Score(ks, Common(ks), w, i)
    OBVIOUS
  <1>4. Recommended(ks, w) = Min(B)
    BY DEF Recommended
  <1>5. \A i : i \in B <=> i \in D /\ \A j \in D : f[j] <= f[i]
    OBVIOUS
  <1>. HIDE DEF f, B
  <1>6. B # {}
    <2>. DEFINE V == {f[i] : i \in D}
    <2>1. PICK b \in Int : \A i \in D : f[i] <= b
      BY <1>1, <1>2, ValuesBounded
    <2>2. V \in SUBSET Int /\ V # {} /\ \A x \in V : x <= b
      BY <1>1, <1>2, <2>1
    <2>3. Max(V) \in V /\ \A x \in V : x <= Max(V)
      BY <2>2, MaxIs
    <2>. QED
      BY <1>5, <2>3
  <1>7. B \in SUBSET Int /\ \A i \in B : 1 <= i
    BY <1>1, <1>5
  <1>8. Min(B) \in B /\ \A i \in B : Min(B) <= i
    BY <1>6, <1>7, MinIs
  <1>. DEFINE r == Recommended(ks, w)
  <1>9. r \in D /\ \A j \in D : f[j] <= f[r]
    BY <1>4, <1>5, <1>8
  <1>10. \A j \in D : f[j] \in Int /\ f[r] \in Int
    BY <1>2, <1>9
  <1>11. ASSUME NEW j \in D, f[j] = f[r] PROVE r <= j
    <2>1. j \in B
      BY <1>5, <1>9, <1>11
    <2>. QED
      BY <1>4, <1>8, <2>1
  <1>. QED
    BY <1>3, <1>9, <1>10, <1>11

LEMMA SelectedUndominated ==
  ASSUME NEW result, NEW w \in [Objectives -> Nat], IsTable(KpisOf(result.candidates)),
         result.selected = Recommended(KpisOf(result.candidates), w)
  PROVE  Undominated(result, w)
  <1>. DEFINE ks == KpisOf(result.candidates)
              r == result.selected
              counted == UNION {Group[o] : o \in {x \in Objectives : w[x] > 0}}
  <1>1. \A m : m \in counted <=> \E o \in Objectives : w[o] > 0 /\ m \in Group[o]
    OBVIOUS
  <1>. HIDE DEF counted
  <1>2. ASSUME NEW i \in DOMAIN ks, \E m \in counted : ks[i][m] < ks[r][m],
               ~\E m \in counted : ks[i][m] > ks[r][m]
        PROVE  FALSE
    <2>. DEFINE score(x) == Score(ks, Common(ks), w, x)
    <2>1. r \in DOMAIN ks /\ score(i) \in Int /\ score(r) \in Int /\ score(i) <= score(r)
      BY RecommendedIs
    <2>2. \A m \in Metrics : ks[i][m] \in Int /\ ks[r][m] \in Int
      BY <2>1 DEF IsTable
    <2>3. \A m \in counted : m \in Metrics
      BY <1>1, GroupsAre
    <2>4. \A o \in Objectives : w[o] > 0 => \A m \in Group[o] : ks[i][m] <= ks[r][m]
      BY <1>1, <1>2, <2>2, <2>3
    <2>5. \E o \in Objectives : w[o] > 0 /\ \E m \in Group[o] : ks[i][m] < ks[r][m]
      BY <1>1, <1>2
    <2>6. IsTable(ks)
      OBVIOUS
    <2>. HIDE DEF ks, r
    <2>7. score(r) < score(i)
      BY <2>1, <2>4, <2>5, <2>6, BetterScoresHigher
    <2>. HIDE DEF score
    <2>. QED
      BY <2>1, <2>7
  <1>. HIDE DEF ks, r
  <1>3. \A i \in DOMAIN ks : (\E m \in counted : ks[i][m] < ks[r][m]) => \E m \in counted : ks[i][m] > ks[r][m]
    BY <1>2
  <1>. QED
    BY <1>3 DEF Undominated, ks, r, counted

-----------------------------------------------------------------------------
(* Sweeping one weight.                                                      *)

LEMMA ReweightedIs ==
  ASSUME NEW x \in Objectives, NEW v \in Nat
  PROVE  /\ Reweighted(x, v) \in [Objectives -> Nat]
         /\ \A o \in Objectives : Reweighted(x, v)[o] = IF o = x THEN v ELSE Weights[o]
  BY EngineAssumption DEF Reweighted

LEMMA ScoreSplit ==
  ASSUME NEW ks, IsTable(ks), NEW x \in Objectives, NEW v \in Nat, NEW i \in DOMAIN ks
  PROVE  Score(ks, Common(ks), Reweighted(x, v), i) =
           Score(ks, Common(ks), Reweighted(x, 0), i) + v * ObjectiveBenefit(ks, Common(ks), x, i)
  <1>. DEFINE c == Common(ks)
              gain(o) == ObjectiveBenefit(ks, c, o, i)
              term(w, o) == w[o] * gain(o)
              with == Reweighted(x, v)
              without == Reweighted(x, 0)
  <1>1. \A o \in Objectives : gain(o) \in Int
    BY ObjectiveOrdered
  <1>2. /\ with \in [Objectives -> Nat] /\ without \in [Objectives -> Nat]
        /\ with[x] = v /\ without[x] = 0
        /\ \A o \in Objectives \ {x} : with[o] = without[o]
    BY ReweightedIs
  <1>3. \A w : Score(ks, c, w, i) = term(w, "production") + term(w, "reliability") + term(w, "maintenance")
                                      + term(w, "workforce") + term(w, "stability")
    BY ScoreIs
  <1>. HIDE DEF gain, with, without, c
  <1>4. \A o \in Objectives \ {x} : term(with, o) = term(without, o)
    BY <1>2
  <1>5. term(with, x) = v * gain(x) /\ term(without, x) = 0
    BY <1>1, <1>2
  <1>6. \A o \in Objectives : term(with, o) \in Int /\ term(without, o) \in Int
    <2>1. \A o \in Objectives : with[o] \in Nat /\ without[o] \in Nat
      BY <1>2
    <2>. QED
      BY <1>1, <2>1, Products
  <1>. HIDE DEF term
  <1>7. Score(ks, c, with, i) = Score(ks, c, without, i) + v * gain(x)
    BY <1>3, <1>4, <1>5, <1>6, GroupsAre
  <1>. QED
    BY <1>7 DEF c, with, without, gain

LEMMA Revealed ==
  ASSUME NEW v \in Nat, NEW w \in Nat, v < w,
         NEW a \in Int, NEW b \in Int, NEW g \in Int, NEW h \in Int,
         b + v * h <= a + v * g, a + w * g <= b + w * h
  PROVE  g <= h /\ (g = h => a = b)
  OBVIOUS

(* With more weight on an objective, the recommendation is the same or       *)
(* better in it.                                                             *)
LEMMA MoreWeightMoreBenefit ==
  ASSUME NEW ks, IsTable(ks), NEW x \in Objectives, NEW v \in Nat, NEW w \in Nat, v < w
  PROVE  LET p == Recommended(ks, Reweighted(x, v))
             q == Recommended(ks, Reweighted(x, w))
             gain(i) == ObjectiveBenefit(ks, Common(ks), x, i)
         IN  /\ p \in DOMAIN ks /\ gain(p) \in Int /\ gain(q) \in Int
             /\ gain(p) <= gain(q)
             /\ gain(p) = gain(q) => p = q
  <1>. DEFINE p == Recommended(ks, Reweighted(x, v))
              q == Recommended(ks, Reweighted(x, w))
              gain(i) == ObjectiveBenefit(ks, Common(ks), x, i)
              score(u, i) == Score(ks, Common(ks), Reweighted(x, u), i)
  <1>1. \A u \in Nat : Reweighted(x, u) \in [Objectives -> Nat]
    BY ReweightedIs
  <1>2. /\ p \in DOMAIN ks
        /\ \A j \in DOMAIN ks : score(v, j) <= score(v, p) /\ (score(v, j) = score(v, p) => p <= j)
    BY <1>1, RecommendedIs
  <1>3. /\ q \in DOMAIN ks
        /\ \A j \in DOMAIN ks : score(w, j) <= score(w, q) /\ (score(w, j) = score(w, q) => q <= j)
    BY <1>1, RecommendedIs
  <1>4. \A i \in DOMAIN ks : gain(i) \in Int /\ score(0, i) \in Int
    BY <1>1, ObjectiveOrdered, ScoreTyped
  <1>5. \A u \in Nat : \A i \in DOMAIN ks : score(u, i) = score(0, i) + u * gain(i)
    BY ScoreSplit
  <1>6. p \in Int /\ q \in Int
    BY <1>2, <1>3 DEF IsTable
  <1>. HIDE DEF p, q, gain, score
  <1>7. gain(p) <= gain(q) /\ (gain(p) = gain(q) => score(0, p) = score(0, q))
    <2>1. score(0, q) + v * gain(q) <= score(0, p) + v * gain(p)
      BY <1>2, <1>3, <1>5
    <2>2. score(0, p) + w * gain(p) <= score(0, q) + w * gain(q)
      BY <1>2, <1>3, <1>5
    <2>3. gain(p) \in Int /\ gain(q) \in Int /\ score(0, p) \in Int /\ score(0, q) \in Int
      BY <1>2, <1>3, <1>4
    <2>. QED
      BY <2>1, <2>2, <2>3, Revealed
  <1>8. ASSUME gain(p) = gain(q) PROVE p = q
    <2>1. score(v, p) = score(v, q) /\ score(w, p) = score(w, q)
      BY <1>2, <1>3, <1>5, <1>7, <1>8
    <2>2. p <= q /\ q <= p
      BY <1>2, <1>3, <2>1
    <2>. QED
      BY <1>6, <2>2
  <1>9. p \in DOMAIN ks /\ gain(p) \in Int /\ gain(q) \in Int
    BY <1>2, <1>3, <1>4
  <1>. QED
    BY <1>7, <1>8, <1>9 DEF p, q, gain

-----------------------------------------------------------------------------
(* The KPIs of a valid plan.                                                 *)

LEMMA MaintenanceTyped ==
  ASSUME NEW s, IsSnapshot(s), NEW strategy, NEW plan, SoundPlan(s, strategy, plan),
         NEW profile, Valid(s, plan, profile), NEW a \in plan, a.kind = Maintenance
  PROVE  /\ a.work \in Requests /\ a.start \in Int /\ a.end \in Int
         /\ Cardinality(a.team) \in Int
  <1>1. CASE a \in Retained(s)
    <2>1. a \in Reservations
      BY <1>1 DEF Retained, IsSnapshot
    <2>2. a.work \in Requests /\ a.start \in Int /\ a.end \in Int /\ a.team \in SUBSET Technicians
      BY <2>1, RulesAssumption DEF Reservations, Production, Maintenance
    <2>. QED
      BY <2>2, RulesAssumption, FS_Subset, FS_CardinalityType
  <1>2. CASE a \notin Retained(s)
    <2>1. Fresh(s, strategy, a)
      BY <1>2 DEF SoundPlan
    <2>2. a.status # "CANCELLED" /\ a.work \in Requests /\ a.start \in Int /\ a.end \in Int
      BY <2>1, RulesAssumption DEF Fresh, FreshProduction, FreshMaintenance, Production, Maintenance
    <2>3. \A t \in a.team : t \in OnShift(s)
      BY <2>2 DEF Valid, TechniciansKept, TechnicianAvailable
    <2>4. a.team \cap Technicians = a.team
      BY <2>3 DEF OnShift, IsSnapshot
    <2>5. Cardinality(a.team \cap Technicians) \in Int
      BY RulesAssumption, FS_Subset, FS_CardinalityType
    <2>. QED
      BY <2>2, <2>4, <2>5
  <1>. QED
    BY <1>1, <1>2

LEMMA MakespanTyped ==
  ASSUME NEW plan, PlanTimed(plan)
  PROVE  Makespan(plan) \in Nat
  <1>. DEFINE S == {0} \cup {a.end : a \in plan}
  <1>1. S \in SUBSET Int /\ S # {} /\ (\A x \in S : x <= Horizon) /\ Horizon \in Int /\ 0 \in S
    BY RulesAssumption DEF PlanTimed
  <1>2. Makespan(plan) = Max(S)
    BY DEF Makespan
  <1>. HIDE DEF S
  <1>3. Max(S) \in S /\ \A y \in S : y <= Max(S)
    BY <1>1, MaxIs
  <1>4. Max(S) \in Int /\ 0 <= Max(S)
    BY <1>1, <1>3
  <1>5. Max(S) \in Nat
    BY <1>4
  <1>. QED
    BY <1>2, <1>5

LEMMA LateTyped ==
  ASSUME NEW plan, PlanTimed(plan), NEW j \in Jobs
  PROVE  Late(plan, j) \in Int
  <1>. DEFINE S == {0} \cup {a.end - Due[j] : a \in {b \in plan : b.kind = Production /\ JobOf[b.work] = j}}
  <1>1. Due[j] \in Nat /\ Horizon \in Nat
    BY RulesAssumption, RankingAssumption
  <1>2. \A a \in plan : a.end \in Int /\ a.end <= Horizon
    BY <1>1 DEF PlanTimed
  <1>3. S \in SUBSET Int /\ S # {} /\ \A x \in S : x <= Horizon
    BY <1>1, <1>2
  <1>4. Late(plan, j) = Max(S)
    BY DEF Late
  <1>. HIDE DEF S
  <1>5. Horizon \in Int
    BY <1>1
  <1>6. Max(S) \in S
    BY <1>3, <1>5, MaxIs
  <1>. QED
    BY <1>3, <1>4, <1>6

LEMMA FailuresTyped ==
  ASSUME NEW plan, NEW draws \in [Machines \X Runs -> 0 .. 99]
  PROVE  IsFiniteSet(Failures(plan, draws)) /\ Cardinality(Failures(plan, draws)) \in Nat
  <1>1. IsFiniteSet(Machines \X Runs)
    BY RankingAssumption, FS_Product
  <1>2. Failures(plan, draws) \in SUBSET (Machines \X Runs)
    BY DEF Failures
  <1>. QED
    BY <1>1, <1>2, FS_Subset, FS_CardinalityType

LEMMA KpisTyped ==
  ASSUME NEW s, IsSnapshot(s), NEW strategy, NEW plan, SoundPlan(s, strategy, plan),
         NEW profile, Valid(s, plan, profile), NEW draws \in [Machines \X Runs -> 0 .. 99]
  PROVE  /\ \A m \in Metrics : Kpis(s, plan, draws)[m] \in Int
         /\ Kpis(s, plan, draws).makespan \in Nat
  <1>. DEFINE jobs == {a \in plan : a.kind = Maintenance}
              costs == [a \in jobs |-> s.req[a.work].duration * Rate[a.work]]
              minutes == [a \in jobs |-> Minute(a) * Cardinality(a.team)]
              lates == [j \in Jobs |-> Late(plan, j)]
              late == {j \in Jobs : Late(plan, j) > 0}
              failed == Cardinality(Failures(plan, draws))
              down == failed * Min({RiskHorizon, Makespan(plan)})
              changed == Cardinality(Changes(s, plan))
  <1>1. PlanTimed(plan)
    BY SoundTimed
  <1>2. Makespan(plan) \in Nat
    BY <1>1, MakespanTyped
  <1>3. IsFiniteSet(plan) /\ IsFiniteSet(Jobs) /\ jobs \in SUBSET plan /\ late \in SUBSET Jobs
        /\ Changes(s, plan) \in SUBSET plan
    BY RankingAssumption DEF SoundPlan, Changes
  <1>4. IsFiniteSet(jobs) /\ Cardinality(late) \in Int /\ changed \in Int
    BY <1>3, FS_Subset, FS_CardinalityType
  <1>5. Total(lates) \in Int
    <2>1. lates \in [Jobs -> Int]
      BY <1>1, LateTyped
    <2>. HIDE DEF lates
    <2>. QED
      BY <1>3, <2>1, TotalTyped
  <1>6. Total(costs) \in Int
    <2>1. ASSUME NEW a \in jobs PROVE s.req[a.work].duration * Rate[a.work] \in Int
      <3>1. a.work \in Requests
        BY MaintenanceTyped
      <3>2. s.req[a.work].duration \in Nat /\ Rate[a.work] \in Int
        BY <3>1, RankingAssumption DEF IsSnapshot, Request
      <3>. QED
        BY <3>2, Products
    <2>2. costs \in [jobs -> Int]
      BY <2>1
    <2>. HIDE DEF costs, jobs
    <2>. QED
      BY <1>4, <2>2, TotalTyped
  <1>7. Total(minutes) \in Int
    <2>1. ASSUME NEW a \in jobs PROVE Minute(a) * Cardinality(a.team) \in Int
      <3>1. a.start \in Int /\ a.end \in Int /\ Cardinality(a.team) \in Int
        BY MaintenanceTyped
      <3>2. Minute(a) \in Int
        BY <3>1 DEF Minute
      <3>. QED
        BY <3>1, <3>2
    <2>2. minutes \in [jobs -> Int]
      BY <2>1
    <2>. HIDE DEF minutes, jobs
    <2>. QED
      BY <1>4, <2>2, TotalTyped
  <1>8. failed \in Nat
    BY FailuresTyped
  <1>9. down \in Int
    <2>1. PICK x \in Int, y \in Int : x = RiskHorizon /\ y = Makespan(plan)
      BY <1>2, RankingAssumption
    <2>2. Min({x, y}) \in Int
      BY MinOfTwo
    <2>3. Min({RiskHorizon, Makespan(plan)}) \in Int
      BY <2>1, <2>2
    <2>. QED
      BY <1>8, <2>3, Products
  <1>10. Kpis(s, plan, draws) =
           [makespan |-> Makespan(plan), tardiness |-> Total(lates), lateJobs |-> Cardinality(late),
            failures |-> failed, downtime |-> down, cost |-> Total(costs), utilization |-> Total(minutes),
            changes |-> changed]
    BY DEF Kpis
  <1>. HIDE DEF lates, late, failed, down, costs, minutes, changed
  <1>. QED
    BY <1>2, <1>4, <1>5, <1>6, <1>7, <1>8, <1>9, <1>10, MetricsAre

(* Under the same draws, maintaining more machines fails less.               *)
LEMMA MaintainedFailsLess ==
  ASSUME NEW p, NEW q, NEW draws \in [Machines \X Runs -> 0 .. 99],
         {a.machine : a \in {b \in q : b.kind = Maintenance}} \subseteq
           {a.machine : a \in {b \in p : b.kind = Maintenance}}
  PROVE  Cardinality(Failures(p, draws)) <= Cardinality(Failures(q, draws))
  <1>. DEFINE maintained(plan, m) == \E a \in plan : a.kind = Maintenance /\ a.machine = m
  <1>1. \A m : maintained(q, m) => maintained(p, m)
    <2>. SUFFICES ASSUME NEW m, maintained(q, m) PROVE maintained(p, m)
      OBVIOUS
    <2>1. m \in {a.machine : a \in {b \in q : b.kind = Maintenance}}
      OBVIOUS
    <2>2. m \in {a.machine : a \in {b \in p : b.kind = Maintenance}}
      BY <2>1
    <2>. QED
      BY <2>2
  <1>2. \A plan : Failures(plan, draws) =
                    {x \in DOMAIN draws : 10 * draws[x] < Risk[x[1]] * IF maintained(plan, x[1]) THEN 3 ELSE 10}
    BY DEF Failures
  <1>. HIDE DEF maintained
  <1>3. ASSUME NEW x \in DOMAIN draws, 10 * draws[x] < Risk[x[1]] * IF maintained(p, x[1]) THEN 3 ELSE 10
        PROVE  10 * draws[x] < Risk[x[1]] * IF maintained(q, x[1]) THEN 3 ELSE 10
    <2>1. draws[x] \in Int /\ x[1] \in Machines
      OBVIOUS
    <2>2. Risk[x[1]] \in Nat
      BY <2>1, SchedulerAssumption
    <2>3. CASE maintained(p, x[1]) /\ ~maintained(q, x[1])
      <3>1. 10 * draws[x] < Risk[x[1]] * 3
        BY <1>3, <2>3
      <3>2. 10 * draws[x] < Risk[x[1]] * 10
        BY <2>1, <2>2, <3>1
      <3>. QED
        BY <2>3, <3>2
    <2>4. CASE maintained(p, x[1]) <=> maintained(q, x[1])
      BY <1>3, <2>4
    <2>. QED
      BY <1>1, <2>3, <2>4
  <1>4. Failures(p, draws) \in SUBSET Failures(q, draws)
    BY <1>2, <1>3
  <1>. QED
    BY <1>4, FailuresTyped, FS_Subset

(* A candidate of a call is the KPIs of a valid plan of one strategy.        *)
LEMMA CandidateIs ==
  ASSUME NEW s, IsSnapshot(s), NEW mode, NEW profile, NEW k \in Nat, NEW c \in Candidates(s, mode, profile, k)
  PROVE  \E i \in 1 .. k :
           /\ SoundPlan(s, Strategies[i], c.plan) /\ Valid(s, c.plan, profile)
           /\ c.strategy = i /\ c.kpis = Kpis(s, c.plan, Drawn(mode, i))
  <1>1. PICK i \in 1 .. k : \E p \in Built(s, profile, Strategies[i]) :
                              Valid(s, p, profile) /\ c = Candidate(s, mode, i, p)
    BY DEF Candidates
  <1>2. PICK p \in Built(s, profile, Strategies[i]) : Valid(s, p, profile) /\ c = Candidate(s, mode, i, p)
    BY <1>1
  <1>3. c.strategy = i /\ c.plan = p /\ c.kpis = Kpis(s, p, Drawn(mode, i))
    BY <1>2 DEF Candidate
  <1>4. SoundPlan(s, Strategies[i], p)
    BY <1>2, BuiltComplete
  <1>. QED
    BY <1>2, <1>3, <1>4

LEMMA DrawnTyped == \A mode : \A i \in 1 .. 3 : Drawn(mode, i) \in [Machines \X Runs -> 0 .. 99]
  BY RankingAssumption, StrategyCount DEF Drawn

LEMMA CandidatesTable ==
  ASSUME NEW s, IsSnapshot(s), NEW mode, NEW profile, NEW k \in 0 .. 3, Candidates(s, mode, profile, k) # {}
  PROVE  IsTable(KpisOf(Candidates(s, mode, profile, k)))
  <1>. DEFINE cs == Candidates(s, mode, profile, k)
              ks == KpisOf(cs)
              D == {c.strategy : c \in cs}
  <1>1. \A c \in cs : \E i \in 1 .. 3 : /\ SoundPlan(s, Strategies[i], c.plan) /\ Valid(s, c.plan, profile)
                                        /\ c.strategy = i /\ c.kpis = Kpis(s, c.plan, Drawn(mode, i))
    <2>1. \A i \in 1 .. k : i \in 1 .. 3
      OBVIOUS
    <2>. QED
      BY <2>1, CandidateIs
  <1>2. ASSUME NEW c \in cs
        PROVE  c.strategy \in 1 .. 3 /\ \A m \in Metrics : c.kpis[m] \in Int
    <2>1. PICK i \in 1 .. 3 : /\ SoundPlan(s, Strategies[i], c.plan) /\ Valid(s, c.plan, profile)
                              /\ c.strategy = i /\ c.kpis = Kpis(s, c.plan, Drawn(mode, i))
      BY <1>1
    <2>2. \A m \in Metrics : Kpis(s, c.plan, Drawn(mode, i))[m] \in Int
      BY <2>1, DrawnTyped, KpisTyped
    <2>. QED
      BY <2>1, <2>2
  <1>3. ks = [i \in D |-> (CHOOSE c \in cs : c.strategy = i).kpis]
    BY DEF KpisOf
  <1>. HIDE DEF cs, ks
  <1>4. D \in SUBSET (1 .. 3)
    BY <1>2
  <1>5. D # {}
    BY DEF cs
  <1>6. ASSUME NEW i \in D, NEW m \in Metrics PROVE ks[i][m] \in Int
    <2>. DEFINE c == CHOOSE c \in cs : c.strategy = i
    <2>1. c \in cs
      OBVIOUS
    <2>2. ks[i] = c.kpis
      BY <1>3
    <2>. HIDE DEF c
    <2>. QED
      BY <1>2, <2>1, <2>2
  <1>7. DOMAIN ks = D
    BY <1>3
  <1>. HIDE DEF D
  <1>8. IsTable(ks)
    BY <1>4, <1>5, <1>6, <1>7 DEF IsTable
  <1>. QED
    BY <1>8 DEF ks, cs

LEMMA FeasibleAnswer ==
  ASSUME NEW s, IsSnapshot(s), NEW mode, NEW profile, NEW k \in 0 .. 3,
         PlanWithin(s, mode, profile, k).outcome = "FEASIBLE"
  PROVE  LET r == PlanWithin(s, mode, profile, k)
         IN  /\ r.candidates = Candidates(s, mode, profile, k)
             /\ IsTable(KpisOf(r.candidates)) /\ r.selected = Recommended(KpisOf(r.candidates), Weights)
             /\ Undominated(r, Weights)
  <1>. DEFINE r == PlanWithin(s, mode, profile, k)
              cs == Candidates(s, mode, profile, k)
  <1>1. r = IF IllFormed(s, profile, k) THEN Ended("INTERNAL_PLANNING_ERROR")
            ELSE IF cs # {} THEN Ranked(cs, Weights, k < Len(Strategies))
            ELSE IF k < Len(Strategies) THEN Ended("PLANNING_TIMEOUT") ELSE Infeasible
    BY PlanWithinCases
  <1>2. r.outcome = "FEASIBLE"
    OBVIOUS
  <1>. HIDE DEF r, cs
  <1>3. /\ \A o \in {"INTERNAL_PLANNING_ERROR", "PLANNING_TIMEOUT"} : Ended(o).outcome # "FEASIBLE"
        /\ Infeasible.outcome # "FEASIBLE"
    BY DEF Ended, Infeasible
  <1>4. cs # {} /\ r = Ranked(cs, Weights, k < Len(Strategies))
    BY <1>1, <1>2, <1>3
  <1>5. r.candidates = cs /\ r.selected = Recommended(KpisOf(cs), Weights)
    BY <1>4 DEF Ranked
  <1>6. IsTable(KpisOf(cs))
    BY <1>4, CandidatesTable DEF cs
  <1>7. Undominated(r, Weights)
    BY <1>5, <1>6, SelectedUndominated, EngineAssumption
  <1>. QED
    BY <1>5, <1>6, <1>7 DEF r, cs

(* The plans of one simulation face the same draws.                          *)
LEMMA AnswerMaintenanceHelps ==
  ASSUME NEW s, IsSnapshot(s), NEW profile, NEW k \in Nat
  PROVE  MaintenanceHelps(PlanWithin(s, Simulation, profile, k))
  <1>. DEFINE r == PlanWithin(s, Simulation, profile, k)
              cs == Candidates(s, Simulation, profile, k)
              maintained(x) == {a.machine : a \in {b \in x.plan : b.kind = Maintenance}}
              draws == Draws[0]
  <1>1. r.candidates \in {{}, cs}
    <2>1. \/ r = Ended("INTERNAL_PLANNING_ERROR") \/ r = Ended("PLANNING_TIMEOUT") \/ r = Infeasible
          \/ r = Ranked(cs, Weights, k < Len(Strategies))
      BY PlanWithinCases
    <2>. HIDE DEF r, cs
    <2>2. r = Ranked(cs, Weights, k < Len(Strategies)) => r.candidates = cs
      BY DEF Ranked
    <2>3. \A o : r = Ended(o) => r.candidates = {}
      BY EndedOffersNothing
    <2>4. r = Infeasible => r.candidates = {}
      BY EndedOffersNothing
    <2>. QED
      BY <2>1, <2>2, <2>3, <2>4
  <1>2. draws \in [Machines \X Runs -> 0 .. 99]
    BY RankingAssumption, StrategyCount
  <1>3. \A c \in cs : \E i \in 1 .. k :
          SoundPlan(s, Strategies[i], c.plan) /\ Valid(s, c.plan, profile) /\ c.kpis = Kpis(s, c.plan, draws)
    BY CandidateIs DEF Drawn
  <1>4. ASSUME NEW c \in cs
        PROVE  /\ Makespan(c.plan) \in Nat
               /\ c.kpis.makespan = Makespan(c.plan)
               /\ c.kpis.failures = Cardinality(Failures(c.plan, draws))
               /\ c.kpis.downtime = Cardinality(Failures(c.plan, draws)) * Min({RiskHorizon, Makespan(c.plan)})
    <2>1. PICK i \in 1 .. k : /\ SoundPlan(s, Strategies[i], c.plan) /\ Valid(s, c.plan, profile)
                              /\ c.kpis = Kpis(s, c.plan, draws)
      BY <1>3
    <2>2. Makespan(c.plan) \in Nat
      BY <2>1, SoundTimed, MakespanTyped
    <2>. HIDE DEF cs, draws
    <2>. QED
      BY <2>1, <2>2 DEF Kpis
  <1>. HIDE DEF cs, draws, r
  <1>5. ASSUME NEW c \in cs, NEW d \in cs, maintained(d) \subseteq maintained(c),
               c.kpis.makespan <= d.kpis.makespan
        PROVE  c.kpis.failures <= d.kpis.failures /\ c.kpis.downtime <= d.kpis.downtime
    <2>. DEFINE f == Cardinality(Failures(c.plan, draws))
                g == Cardinality(Failures(d.plan, draws))
                x == Makespan(c.plan)
                y == Makespan(d.plan)
    <2>1. f \in Nat /\ g \in Nat /\ f <= g
      BY <1>2, <1>5, FailuresTyped, MaintainedFailsLess
    <2>2. x \in Nat /\ y \in Nat /\ x <= y
      BY <1>4, <1>5
    <2>3. /\ c.kpis.failures = f /\ d.kpis.failures = g
          /\ c.kpis.downtime = f * Min({RiskHorizon, x}) /\ d.kpis.downtime = g * Min({RiskHorizon, y})
      BY <1>4
    <2>. HIDE DEF f, g, x, y
    <2>4. PICK h \in Nat : h = RiskHorizon
      BY RankingAssumption
    <2>5. PICK m \in Nat : m = Min({h, x})
      BY <2>2, MinOfTwo
    <2>6. PICK n \in Nat : n = Min({h, y})
      BY <2>2, MinOfTwo
    <2>7. m <= n
      <3>1. m = IF h <= x THEN h ELSE x
        BY <2>2, <2>5, MinOfTwo
      <3>2. n = IF h <= y THEN h ELSE y
        BY <2>2, <2>6, MinOfTwo
      <3>. QED
        BY <2>2, <3>1, <3>2
    <2>8. f * m <= g * n
      <3>1. m * f <= m * g
        BY <2>1, Products
      <3>2. g * m <= g * n
        BY <2>1, <2>7, Products
      <3>. QED
        BY <2>1, <3>1, <3>2
    <2>. QED
      BY <2>1, <2>3, <2>4, <2>5, <2>6, <2>8
  <1>6. MaintenanceHelps(r)
    BY <1>1, <1>5 DEF MaintenanceHelps
  <1>. QED
    BY <1>6 DEF r

-----------------------------------------------------------------------------
(* The recommendations of a state.                                           *)

LEMMA EndedHelps == \A o : MaintenanceHelps(Ended(o))
  BY EndedOffersNothing DEF MaintenanceHelps

LEMMA BaselineFollows ==
  ASSUME AnswersInv
  PROVE  /\ baseline.outcome = "FEASIBLE" => Undominated(baseline, Weights)
         /\ MaintenanceHelps(baseline)
  <1>1. CASE baseline = NotRun
    BY <1>1, EndedHelps DEF NotRun, Ended
  <1>2. CASE baseline # NotRun
    <2>1. PICK k \in Budgets : baseline = PlanWithin(snapshot, Simulation, Strict, k)
      BY <1>2 DEF AnswersInv
    <2>. QED
      BY <2>1, BudgetsTyped, InputsTyped, FeasibleAnswer, AnswerMaintenanceHelps
  <1>. QED
    BY <1>1, <1>2

LEMMA ScenarioIs ==
  ASSUME AnswersInv
  PROVE  \/ \E o : o # "FEASIBLE" /\ scenario = Ended(o)
         \/ \E s : IsSnapshot(s) /\ \E k \in Budgets : scenario = PlanWithin(s, Simulation, Strict, k)
  <1>1. CASE scenario = NotRun \/ scenario = Ended("INVALID_SCENARIO_INPUT")
    <2>1. scenario = Ended("NOT_RUN") \/ scenario = Ended("INVALID_SCENARIO_INPUT")
      BY <1>1 DEF NotRun
    <2>. QED
      BY <2>1
  <1>2. CASE ~(scenario = NotRun \/ scenario = Ended("INVALID_SCENARIO_INPUT"))
    <2>1. PICK k \in Budgets : scenario = PlanEffective(snapshot, overrides, k)
      BY <1>2 DEF AnswersInv, PlannedScenario
    <2>. DEFINE t == Transformed(snapshot, overrides)
    <2>2. scenario = Ended("NO_FEASIBLE_PLAN") \/ scenario = PlanWithin(t, Simulation, Strict, k)
      BY <2>1, InputsTyped, PlanEffectiveIs DEF Infeasible
    <2>3. IsSnapshot(t)
      BY InputsTyped, TransformedTyped
    <2>. HIDE DEF t
    <2>. QED
      BY <2>2, <2>3
  <1>. QED
    BY <1>1, <1>2

LEMMA ScenarioFollows ==
  ASSUME AnswersInv
  PROVE  /\ MaintenanceHelps(scenario)
         /\ scenario.outcome = "FEASIBLE" =>
              /\ IsTable(KpisOf(scenario.candidates))
              /\ Undominated(scenario, Weights)
  <1>1. ASSUME NEW o, o # "FEASIBLE", scenario = Ended(o)
        PROVE  MaintenanceHelps(scenario) /\ scenario.outcome # "FEASIBLE"
    BY <1>1, EndedHelps DEF Ended
  <1>2. ASSUME NEW s, IsSnapshot(s), NEW k \in Budgets, scenario = PlanWithin(s, Simulation, Strict, k)
        PROVE  /\ MaintenanceHelps(scenario)
               /\ scenario.outcome = "FEASIBLE" =>
                    IsTable(KpisOf(scenario.candidates)) /\ Undominated(scenario, Weights)
    BY <1>2, BudgetsTyped, FeasibleAnswer, AnswerMaintenanceHelps
  <1>. QED
    BY <1>1, <1>2, ScenarioIs

LEMMA LiveIs ==
  ASSUME AnswersInv, live.outcome = "FEASIBLE"
  PROVE  \E s, profile : IsSnapshot(s) /\ \E k \in Budgets : live = PlanWithin(s, Live, profile, k)
  <1>1. live # NotRun
    BY DEF NotRun, Ended
  <1>2. PICK k \in Budgets : live = LivePlan(snapshot, overrides, k)
    BY <1>1 DEF AnswersInv, PlannedLive
  <1>3. CASE overrides = {}
    <2>1. live = PlanWithin(snapshot, Live, Legacy, k)
      BY <1>2, <1>3 DEF LivePlan
    <2>. QED
      BY <2>1, InputsTyped
  <1>4. CASE overrides # {}
    <2>. DEFINE t == Transformed(snapshot, overrides)
    <2>1. LiveMapped
      BY <1>1, <1>4 DEF AnswersInv
    <2>2. scenario # NotRun /\ scenario # Ended("INVALID_SCENARIO_INPUT")
      BY <2>1 DEF LiveMapped, NotRun, Ended
    <2>3. \A v \in overrides : v.type = "DEFER_MAINTENANCE" /\ v.to \in Int /\ Accepted(snapshot, v)
      <3>1. \A v \in overrides : Accepted(snapshot, v)
        BY <2>2 DEF AnswersInv
      <3>2. \A v \in overrides : v.type = "DEFER_MAINTENANCE"
        BY <2>1 DEF LiveMapped
      <3>3. \A v \in overrides : v.to \in Int
        BY <3>2, InputsTyped DEF IsOverride
      <3>. QED
        BY <3>1, <3>2, <3>3
    <2>4. Effective(snapshot, overrides) # {}
      <3>1. PICK j \in Budgets : scenario = PlanEffective(snapshot, overrides, j)
        BY <2>2 DEF AnswersInv, PlannedScenario
      <3>2. scenario # Infeasible
        BY <2>1 DEF LiveMapped, Infeasible, Ended
      <3>. QED
        BY <3>1, <3>2, InputsTyped, PlanEffectiveIs
    <2>5. WithStartConstraints(snapshot, overrides) = {t}
      BY <2>3, <2>4, InputsTyped, BoundsAreOverrides
    <2>6. IsSnapshot(t)
      BY InputsTyped, TransformedTyped
    <2>. HIDE DEF t
    <2>7. (CHOOSE x \in {t} : TRUE) = t
      OBVIOUS
    <2>8. live = PlanWithin(t, Live, Strict, k)
      BY <1>2, <1>4, <2>5, <2>7 DEF LivePlan
    <2>. QED
      BY <2>6, <2>8
  <1>. QED
    BY <1>3, <1>4

LEMMA LiveFollows ==
  ASSUME AnswersInv, live.outcome = "FEASIBLE"
  PROVE  Undominated(live, Weights)
  <1>1. PICK s, profile : IsSnapshot(s) /\ \E k \in Budgets : live = PlanWithin(s, Live, profile, k)
    BY LiveIs
  <1>2. PICK k \in Budgets : live = PlanWithin(s, Live, profile, k)
    BY <1>1
  <1>. QED
    BY <1>1, <1>2, BudgetsTyped, FeasibleAnswer

(* A point of a weight sweep ranks the candidates of the scenario.           *)
LEMMA RankedPoint ==
  ASSUME AnswersInv, axis \in SweptWeights, NEW i \in DOMAIN points, points[i].outcome = "FEASIBLE"
  PROVE  /\ PointValue(i) \in Nat /\ scenario.outcome = "FEASIBLE"
         /\ points[i].candidates = scenario.candidates
         /\ points[i].selected = Recommended(KpisOf(scenario.candidates), Reweighted(axis, PointValue(i)))
  <1>1. PointPlanned(i)
    BY DEF AnswersInv
  <1>2. points[i] # Ended("NOT_STARTED")
    BY DEF Ended
  <1>3. axis # "duration" /\ axis # "none"
    BY EngineAssumption DEF Objectives
  <1>4. points[i] = IF scenario.outcome # "FEASIBLE" THEN scenario
                    ELSE Ranked(scenario.candidates, Reweighted(axis, PointValue(i)), scenario.partial)
    BY <1>1, <1>2, <1>3 DEF PointPlanned
  <1>5. scenario.outcome = "FEASIBLE"
    BY <1>4
  <1>6. points[i] = Ranked(scenario.candidates, Reweighted(axis, PointValue(i)), scenario.partial)
    BY <1>4, <1>5
  <1>7. PointValue(i) \in Nat
    <2>1. i \in 1 .. Len(SweptValues[axis])
      BY <1>3, PointsCounted
    <2>2. /\ Ascending(SweptValues[axis])[i] \in ToSet(SweptValues[axis])
          /\ ToSet(SweptValues[axis]) \in SUBSET Nat
      BY <2>1, AscendingIs
    <2>. QED
      BY <2>2 DEF PointValue
  <1>. QED
    BY <1>5, <1>6, <1>7 DEF Ranked

LEMMA PointsFollow ==
  ASSUME AnswersInv, axis \in SweptWeights, NEW i \in DOMAIN points, points[i].outcome = "FEASIBLE"
  PROVE  Undominated(points[i], Reweighted(axis, PointValue(i)))
  <1>1. Reweighted(axis, PointValue(i)) \in [Objectives -> Nat]
    BY RankedPoint, ReweightedIs, EngineAssumption
  <1>2. IsTable(KpisOf(scenario.candidates))
    BY RankedPoint, ScenarioFollows
  <1>. QED
    BY <1>1, <1>2, RankedPoint, SelectedUndominated

LEMMA SweepFollows ==
  ASSUME AnswersInv, axis \in SweptWeights
  PROVE  SweepIsMonotone
  <1>. DEFINE ks == KpisOf(scenario.candidates)
              gain(x) == ObjectiveBenefit(ks, Common(ks), axis, x)
              selected(i) == points[i].selected
  <1>1. axis \in Objectives /\ axis # "none" /\ axis \in {"duration"} \cup SweptWeights
    BY EngineAssumption DEF Objectives
  <1>2. ASSUME NEW i \in DOMAIN points, NEW j \in DOMAIN points, i < j,
               points[i].outcome = "FEASIBLE", points[j].outcome = "FEASIBLE"
        PROVE  /\ gain(selected(i)) \in Int /\ gain(selected(j)) \in Int
               /\ gain(selected(i)) <= gain(selected(j))
               /\ gain(selected(i)) = gain(selected(j)) => selected(i) = selected(j)
    <2>1. PICK v \in Nat : v = PointValue(i)
      BY <1>2, RankedPoint
    <2>2. PICK w \in Nat : w = PointValue(j)
      BY <1>2, RankedPoint
    <2>3. v < w
      <3>1. i \in 1 .. Len(SweptValues[axis]) /\ j \in 1 .. Len(SweptValues[axis])
        BY <1>1, PointsCounted
      <3>2. Ascending(SweptValues[axis])[i] < Ascending(SweptValues[axis])[j]
        BY <1>1, <1>2, <3>1, AscendingIs
      <3>. QED
        BY <2>1, <2>2, <3>2 DEF PointValue
    <2>4. IsTable(ks)
      BY <1>2, RankedPoint, ScenarioFollows
    <2>5. /\ selected(i) = Recommended(ks, Reweighted(axis, v))
          /\ selected(j) = Recommended(ks, Reweighted(axis, w))
      BY <1>2, <2>1, <2>2, RankedPoint
    <2>. HIDE DEF ks, selected
    <2>. QED
      BY <1>1, <2>3, <2>4, <2>5, MoreWeightMoreBenefit
  <1>3. Len(points) \in Nat /\ DOMAIN points = 1 .. Len(points)
    BY DEF AnswersInv
  <1>4. ASSUME NEW i \in RankChanges, NEW j \in i + 1 .. Len(points)
        PROVE  gain(selected(i)) < gain(selected(i + 1)) /\ selected(j) # selected(i)
    <2>1. /\ i \in DOMAIN points /\ i + 1 \in DOMAIN points /\ i < i + 1
          /\ points[i].outcome = "FEASIBLE" /\ points[i + 1].outcome = "FEASIBLE"
          /\ selected(i) # selected(i + 1)
      BY <1>3, <1>4 DEF RankChanges
    <2>2. /\ gain(selected(i)) \in Int /\ gain(selected(i + 1)) \in Int
          /\ gain(selected(i)) < gain(selected(i + 1))
      <3>1. /\ gain(selected(i)) \in Int /\ gain(selected(i + 1)) \in Int
            /\ gain(selected(i)) <= gain(selected(i + 1))
            /\ gain(selected(i)) = gain(selected(i + 1)) => selected(i) = selected(i + 1)
        BY <1>2, <2>1
      <3>. HIDE DEF gain, selected
      <3>. QED
        BY <2>1, <3>1
    <2>3. j \in DOMAIN points /\ (j = i + 1 \/ i + 1 < j)
      BY <1>3, <1>4, <2>1
    <2>4. CASE j = i + 1
      BY <2>1, <2>2, <2>4
    <2>5. CASE i + 1 < j /\ points[j].outcome = "FEASIBLE"
      <3>1. gain(selected(j)) \in Int /\ gain(selected(i + 1)) <= gain(selected(j))
        BY <1>2, <2>1, <2>3, <2>5
      <3>. HIDE DEF gain, selected
      <3>. QED
        BY <2>2, <3>1
    <2>6. CASE points[j].outcome # "FEASIBLE"
      <3>1. scenario.outcome = "FEASIBLE" /\ IsTable(ks)
        BY <2>1, RankedPoint, ScenarioFollows
      <3>2. points[j] = Ended("NOT_STARTED")
        <4>1. PointPlanned(j) /\ axis # "duration"
          BY <2>3, EngineAssumption DEF AnswersInv, Objectives
        <4>2. Ranked(scenario.candidates, Reweighted(axis, PointValue(j)), scenario.partial).outcome = "FEASIBLE"
          BY DEF Ranked
        <4>. QED
          BY <2>6, <3>1, <4>1, <4>2 DEF PointPlanned
      <3>3. selected(j) = 0
        BY <3>2 DEF Ended
      <3>4. selected(i) \in DOMAIN ks
        <4>1. PointValue(i) \in Nat /\ selected(i) = Recommended(ks, Reweighted(axis, PointValue(i)))
          BY <2>1, RankedPoint
        <4>2. Reweighted(axis, PointValue(i)) \in [Objectives -> Nat]
          BY <1>1, <4>1, ReweightedIs
        <4>. HIDE DEF ks, selected
        <4>. QED
          BY <3>1, <4>1, <4>2, RecommendedIs
      <3>5. 0 \notin DOMAIN ks
        BY <3>1 DEF IsTable
      <3>. QED
        BY <2>2, <3>3, <3>4, <3>5
    <2>. QED
      BY <2>2, <2>3, <2>4, <2>5, <2>6
  <1>5. ASSUME NEW i \in RankChanges
        PROVE  /\ gain(selected(i)) < gain(selected(i + 1))
               /\ \A j \in i + 1 .. Len(points) : selected(j) # selected(i)
    <2>1. i + 1 \in i + 1 .. Len(points)
      BY <1>3, <1>5 DEF RankChanges
    <2>. HIDE DEF gain, selected
    <2>. QED
      BY <1>4, <2>1
  <1>. QED
    BY <1>5 DEF SweepIsMonotone

(* No recommendation is dominated under the weights it was made with, the    *)
(* plans of a scenario are compared under the same draws, and along a sweep  *)
(* of a weight the changes of the recommendation all go one way (scoring.py, *)
(* simulator.py, sensitivity.py).                                            *)
THEOREM RecommendationFollowsWeights == Spec => []SelectionFollowsWeights
  <1>1. AnswersInv => SelectionFollowsWeights
    <2>. SUFFICES ASSUME AnswersInv PROVE SelectionFollowsWeights
      OBVIOUS
    <2>1. ASSUME NEW result \in {baseline, scenario, live}, result.outcome = "FEASIBLE"
          PROVE  Undominated(result, Weights)
      BY <2>1, BaselineFollows, ScenarioFollows, LiveFollows
    <2>2. MaintenanceHelps(baseline) /\ MaintenanceHelps(scenario)
      BY BaselineFollows, ScenarioFollows
    <2>3. ASSUME axis \in SweptWeights
          PROVE  /\ \A i \in DOMAIN points : points[i].outcome = "FEASIBLE" =>
                      Undominated(points[i], Reweighted(axis, PointValue(i)))
                 /\ SweepIsMonotone
      BY <2>3, PointsFollow, SweepFollows
    <2>. QED
      BY <2>1, <2>2, <2>3 DEF SelectionFollowsWeights
  <1>. QED
    BY <1>1, AnswersFollowInput, PTL
=============================================================================
