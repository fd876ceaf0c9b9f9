-------------------------- MODULE RunnerPlanProofs --------------------------
(***************************************************************************)
(* Theorems about RunnerPlan, for any plans, recurrences, time zones and   *)
(* Planners.                                                               *)
(***************************************************************************)
EXTENDS RunnerPlan, FiniteSetTheorems, NaturalsInduction, WellFoundedInduction, TLAPS

\* A nonempty set of natural numbers has a least element.
LEMMA LeastNumber ==
    ASSUME NEW N \in SUBSET Nat, N # {}
    PROVE  \E x \in N : \A y \in N : x <= y
  <1> DEFINE R == OpToRel(<, Nat)
  <1>1. IsWellFoundedOn(R, Nat)
    BY NatLessThanWellFounded
  <1>2. \A x, y \in Nat : x < y => <<x, y>> \in R
    BY DEF OpToRel
  <1> HIDE DEF R
  <1>3. PICK x \in N : \A y \in N : ~(<<y, x>> \in R)
    BY <1>1, WFMin
  <1>4. ASSUME NEW y \in N PROVE x <= y
    <2>1. x \in Nat /\ y \in Nat /\ ~(y < x)
      BY <1>2, <1>3
    <2> QED  BY <2>1
  <1> QED  BY <1>4

-----------------------------------------------------------------------------
(* When they fire.                                                         *)

\* A set of integers with a lower bound has a least element.
LEMMA LeastInteger ==
    ASSUME NEW S \in SUBSET Int, S # {}, NEW k \in Int, \A x \in S : k <= x
    PROVE  Min(S) \in S /\ \A x \in S : Min(S) <= x
  <1> DEFINE D == {n \in Nat : k + n \in S}
  <1>1. \A x \in S : x - k \in Nat /\ k + (x - k) = x
    OBVIOUS
  <1>2. \A x \in S : x - k \in D
    BY <1>1
  <1>3. D \in SUBSET Nat /\ D # {}
    BY <1>2
  <1>4. PICK n \in D : \A m \in D : n <= m
    BY <1>3, LeastNumber
  <1>5. n \in Nat /\ k + n \in S
    OBVIOUS
  <1> HIDE DEF D
  <1>6. ASSUME NEW x \in S PROVE k + n <= x
    <2>1. n <= x - k
      BY <1>2, <1>4
    <2> QED  BY <1>5, <2>1
  <1>7. \E m \in S : \A x \in S : m <= x
    BY <1>5, <1>6
  <1> QED  BY <1>7 DEF Min

LEMMA LeastOfTwo ==
    ASSUME NEW a \in Int, NEW b \in Int
    PROVE  Min({a, b}) = IF a <= b THEN a ELSE b
  <1> DEFINE S == {a, b}
  <1>1. \E x \in S : \A y \in S : x <= y
    OBVIOUS
  <1>2. Min(S) \in S /\ \A y \in S : Min(S) <= y
    BY <1>1 DEF Min
  <1> HIDE DEF Min
  <1> QED  BY <1>2

LEMMA GreatestOfTwo ==
    ASSUME NEW a \in Int, NEW b \in Int
    PROVE  Max({a, b}) = IF a >= b THEN a ELSE b
  <1> DEFINE S == {a, b}
  <1>1. \E x \in S : \A y \in S : x >= y
    OBVIOUS
  <1>2. Max(S) \in S /\ \A y \in S : Max(S) >= y
    BY <1>1 DEF Max
  <1> HIDE DEF Max
  <1> QED  BY <1>2

\* The grid point taken is the first at or after the bound.
LEMMA IntervalFireOf ==
    ASSUME NEW every \in Nat \ {0}, NEW start \in Int, NEW lower \in Int
    PROVE  IntervalFire(every, start, lower) \in Int
           /\ IntervalFire(every, start, lower) >= lower
           /\ IntervalFire(every, start, lower) >= start
  <1> DEFINE x == lower - start
             q == x \div every
             r == x % every
             c == q * every
  <1>1. CASE lower <= start
    BY <1>1 DEF IntervalFire
  <1>2. CASE ~(lower <= start)
    <2>1. x \in Nat /\ x > 0
      BY <1>2
    <2> HIDE DEF x
    <2>2. q \in Nat /\ r \in 0..(every - 1) /\ x = every * q + r
      BY <2>1
    <2> HIDE DEF q, r
    <2>3. c \in Nat /\ c = every * q
      BY <2>2
    <2> HIDE DEF c
    <2>4. IntervalFire(every, start, lower)
            = IF start + c < lower THEN start + c + every ELSE start + c
      BY <1>2 DEF IntervalFire, c, q, x
    <2>5. lower = start + x
      BY DEF x
    <2> QED  BY <2>1, <2>2, <2>3, <2>4, <2>5
  <1> QED  BY <1>1, <1>2

\* Every recurrence fires at or after the bound, or never within the horizon.
LEMMA NextFireOf ==
    ASSUME NEW rec, rec.kind = "interval" => rec.every \in Nat \ {0},
           NEW start \in Instant, NEW lower \in Nat
    PROVE  /\ NextFire(rec, start, lower) \in Instant \cup {Never}
           /\ lower <= Never => NextFire(rec, start, lower) >= lower
  <1>0. Horizon \in Nat /\ Never = Horizon + 1 /\ Instant = 0..Horizon
    BY ZoneAssumption DEF Never, Instant
  <1>1. CASE lower > Horizon
    BY <1>0, <1>1 DEF NextFire
  <1>2. CASE ~(lower > Horizon) /\ rec.kind = "interval"
    <2> DEFINE f == IntervalFire(rec.every, start, lower)
    <2>0. start \in Int /\ lower \in Int /\ rec.every \in Nat \ {0}
      BY <1>0, <1>2
    <2>1. f \in Int /\ f >= lower /\ f >= start
      BY <2>0, IntervalFireOf
    <2>2. NextFire(rec, start, lower) = IF f <= Never THEN f ELSE Never
      <3> HIDE DEF f
      <3>1. Min({f, Never}) = IF f <= Never THEN f ELSE Never
        BY <1>0, <2>1, LeastOfTwo
      <3> QED  BY <1>2, <3>1 DEF NextFire, f
    <2> HIDE DEF f
    <2> QED  BY <1>0, <1>2, <2>0, <2>1, <2>2
  <1>3. CASE ~(lower > Horizon) /\ rec.kind # "interval"
    <2> DEFINE D == {day \in LocalDay(lower)..LocalDay(Horizon) : FiresOn(rec, start, lower, day)}
    <2>1. NextFire(rec, start, lower) = CalendarFire(rec, start, lower)
      BY <1>3 DEF NextFire
    <2>2. CASE D = {}
      <3>1. CalendarFire(rec, start, lower) = Never
        BY <2>2 DEF CalendarFire
      <3> QED  BY <1>0, <1>3, <2>1, <3>1
    <2>3. CASE D # {}
      <3>1. lower \in 0..Horizon /\ Horizon \in 0..Horizon
        BY <1>0, <1>3
      <3>2. LocalDay(lower) \in Int
        <4>1. Offset[lower] \in Int /\ DayLength \in Nat \ {0}
          BY <3>1, ZoneAssumption
        <4>2. LocalTime(lower) \in Int
          BY <4>1 DEF LocalTime
        <4> HIDE DEF LocalTime
        <4> QED  BY <4>1, <4>2 DEF LocalDay
      <3>3. D \in SUBSET Int /\ \A x \in D : LocalDay(lower) <= x
        BY <3>2
      <3>4. FireDay(rec, start, lower) \in D
        BY <2>3, <3>2, <3>3, LeastInteger DEF FireDay
      <3> DEFINE ts == LocalCandidates(FireDay(rec, start, lower), rec.clock)
      <3>5. ts # {} /\ FirstCandidate(ts) >= lower
        BY <3>4 DEF FiresOn
      <3>6. ts \in SUBSET Int /\ ts \subseteq Instant /\ \A x \in ts : 0 <= x
        BY <1>0 DEF LocalCandidates
      <3>7. FirstCandidate(ts) \in Instant
        <4> HIDE DEF ts
        <4>1. Min(ts) \in ts
          BY <3>5, <3>6, LeastInteger, 0 \in Int
        <4> QED  BY <3>6, <4>1 DEF FirstCandidate
      <3>8. CalendarFire(rec, start, lower) = FirstCandidate(ts)
        BY <2>3 DEF CalendarFire
      <3> QED  BY <2>1, <3>5, <3>7, <3>8
    <2> QED  BY <2>2, <2>3
  <1> QED  BY <1>1, <1>2, <1>3

\* A plan moves on: the next fire is after the last one.
LEMMA FireAfterOf ==
    ASSUME NEW rec, rec.kind = "interval" => rec.every \in Nat \ {0},
           NEW start \in Instant, NEW last \in Instant
    PROVE  /\ FireAfter(rec, start, last) \in Instant \cup {Never}
           /\ FireAfter(rec, start, last) > last
  <1> DEFINE lower == Max({start, last + 1})
  <1>0. Horizon \in Nat /\ Never = Horizon + 1 /\ Instant = 0..Horizon
    BY ZoneAssumption DEF Never, Instant
  <1>1. lower = IF start >= last + 1 THEN start ELSE last + 1
    BY <1>0, GreatestOfTwo
  <1>2. lower \in Nat /\ lower <= Never /\ lower > last
    BY <1>0, <1>1
  <1>3. FireAfter(rec, start, last) = NextFire(rec, start, lower)
    BY DEF FireAfter
  <1> HIDE DEF lower
  <1>4. /\ NextFire(rec, start, lower) \in Instant \cup {Never}
        /\ NextFire(rec, start, lower) >= lower
    BY <1>2, NextFireOf
  <1> HIDE DEF NextFire
  <1> QED  BY <1>0, <1>2, <1>3, <1>4

\* The first fire of a plan.
LEMMA FirstFireOf ==
    ASSUME NEW rec, rec.kind = "interval" => rec.every \in Nat \ {0},
           NEW start \in Instant, NEW immediate \in BOOLEAN
    PROVE  FirstFire(rec, start, immediate) \in Instant \cup {Never}
  <1>1. start \in Nat
    BY ZoneAssumption DEF Instant
  <1>2. NextFire(rec, start, start) \in Instant \cup {Never}
    BY <1>1, NextFireOf
  <1> QED  BY <1>2 DEF FirstFire

-----------------------------------------------------------------------------
(* The loops over their fires.                                             *)

\* The states of a loop of n turns that stay in a set.
IsLoop(f, S, init, step, n) ==
    f \in [0..n -> S] /\ f[0] = init /\ \A i \in 1..n : f[i] = step[f[i - 1]]

LEMMA LoopExists ==
    ASSUME NEW S, NEW init \in S, NEW step \in [S -> S], NEW n \in Nat
    PROVE  \E f : IsLoop(f, S, init, step, n)
  <1> DEFINE Is(f, m) == IsLoop(f, S, init, step, m)
             None == {m \in Nat : ~\E f : Is(f, m)}
  <1>1. None = {}
    <2> SUFFICES ASSUME None # {} PROVE FALSE
      OBVIOUS
    <2>1. PICK m \in None : \A k \in None : m <= k
      BY LeastNumber, None \in SUBSET Nat
    <2>2. CASE m = 0
      <3> DEFINE f == [i \in 0..0 |-> init]
      <3>1. Is(f, 0)
        BY 0..0 = {0}, 1..0 = {} DEF IsLoop
      <3> QED  BY <2>1, <2>2, <3>1
    <2>3. CASE m # 0
      <3>1. m \in Nat /\ m - 1 \in Nat /\ m - 1 \notin None
        <4>1. m \in Nat /\ m - 1 \in Nat /\ ~(m <= m - 1)
          BY <2>3
        <4> HIDE DEF None
        <4> QED  BY <2>1, <4>1
      <3>2. PICK f : Is(f, m - 1)
        BY <3>1
      <3>0. /\ f \in [0..(m - 1) -> S] /\ f[0] = init
            /\ \A i \in 1..(m - 1) : f[i] = step[f[i - 1]]
        BY <3>2 DEF IsLoop
      <3> DEFINE g == [i \in 0..m |-> IF i = m THEN step[f[m - 1]] ELSE f[i]]
      <3>3. \A i \in 0..m : i # m => i \in 0..(m - 1)
        BY <3>1
      <3>4. \A i \in 1..m : /\ i \in 0..m /\ i - 1 \in 0..m /\ i - 1 # m
                            /\ i # m => i \in 1..(m - 1)
        BY <3>1
      <3>5. m - 1 \in 0..(m - 1) /\ 0 \in 0..m /\ m \in 0..m
        BY <3>1
      <3>6. step[f[m - 1]] \in S
        BY <3>0, <3>5
      <3>7. g \in [0..m -> S]
        BY <3>0, <3>3, <3>6
      <3>8. g[0] = init
        BY <2>3, <3>0, <3>5
      <3>9. \A i \in 1..m : g[i] = step[g[i - 1]]
        <4> TAKE i \in 1..m
        <4>1. g[i - 1] = f[i - 1]
          BY <3>4
        <4>2. CASE i = m
          BY <3>5, <4>1, <4>2
        <4>3. CASE i # m
          BY <3>0, <3>4, <4>1, <4>3
        <4> QED  BY <4>2, <4>3
      <3>10. Is(g, m)
        BY <3>7, <3>8, <3>9 DEF IsLoop
      <3> HIDE DEF g, Is
      <3> QED  BY <2>1, <3>10
    <2> QED  BY <2>2, <2>3
  <1>2. \E f : Is(f, n)
    <2> HIDE DEF Is
    <2> QED  BY <1>1
  <1> QED  BY <1>2

\* What holds before a loop and is kept by each turn holds after it.
LEMMA LoopInduction ==
    ASSUME NEW n \in Nat, NEW Good \in SUBSET (0..n), 0 \in Good,
           \A i \in 1..n : i - 1 \in Good => i \in Good
    PROVE  n \in Good
  <1> DEFINE Unkept == (0..n) \ Good
  <1>1. Unkept = {}
    <2> SUFFICES ASSUME Unkept # {} PROVE FALSE
      OBVIOUS
    <2>1. Unkept \in SUBSET Nat
      OBVIOUS
    <2>2. PICK i \in Unkept : \A j \in Unkept : i <= j
      BY <2>1, LeastNumber
    <2>3. i \in 1..n /\ i - 1 \in 0..n /\ ~(i <= i - 1)
      OBVIOUS
    <2>4. i - 1 \in Good
      BY <2>2, <2>3
    <2> QED  BY <2>3, <2>4
  <1> QED  BY <1>1

\* What preview_fires lists: the first fire, then each the fire after the one
\* before, none past the end of the plan.
IsChain(rec, start, immediate, endsAt, s) ==
    /\ s \in Seq(Instant)
    /\ Len(s) > 0 => s[1] = FirstFire(rec, start, immediate)
    /\ \A n \in 1..Len(s) : n + 1 \in 1..Len(s) => s[n + 1] = FireAfter(rec, start, s[n])
    /\ \A n \in 1..Len(s) : s[n] <= endsAt

PastEnd(endsAt, fire) == fire > endsAt \/ fire = Never

\* ... and the list stops at the limit or where the next fire is past the end.
IsWhole(rec, start, immediate, endsAt, s, limit) ==
    /\ Len(s) <= limit
    /\ Len(s) < limit => PastEnd(endsAt, FireAfterItems(rec, start, immediate, s))

LEMMA ItemAdded ==
    ASSUME NEW rec, rec.kind = "interval" => rec.every \in Nat \ {0},
           NEW start \in Instant, NEW immediate \in BOOLEAN, NEW endsAt \in Instant \cup {Never},
           NEW s, IsChain(rec, start, immediate, endsAt, s)
    PROVE  /\ IsChain(rec, start, immediate, endsAt, WithNextItem(rec, start, immediate, endsAt, s))
           /\ IF PastEnd(endsAt, FireAfterItems(rec, start, immediate, s))
              THEN WithNextItem(rec, start, immediate, endsAt, s) = s
              ELSE Len(WithNextItem(rec, start, immediate, endsAt, s)) = Len(s) + 1
  <1> DEFINE fire == FireAfterItems(rec, start, immediate, s)
             more == WithNextItem(rec, start, immediate, endsAt, s)
             n == Len(s)
  <1>0. Horizon \in Nat /\ Never = Horizon + 1 /\ Instant = 0..Horizon
    BY ZoneAssumption DEF Never, Instant
  <1>1. s \in Seq(Instant) /\ n \in Nat
    BY DEF IsChain
  <1>2. n = 0 => fire = FirstFire(rec, start, immediate)
    BY <1>1 DEF FireAfterItems
  <1>3. n # 0 => n \in 1..n /\ s[n] \in Instant /\ fire = FireAfter(rec, start, s[n])
    BY <1>1 DEF FireAfterItems
  <1>4. fire \in Instant \cup {Never}
    BY <1>2, <1>3, FirstFireOf, FireAfterOf
  <1>5. more = IF fire <= endsAt /\ fire <= Horizon THEN Append(s, fire) ELSE s
    <2>1. Min({endsAt, Horizon}) = IF endsAt <= Horizon THEN endsAt ELSE Horizon
      BY <1>0, LeastOfTwo
    <2>2. more = IF fire <= Min({endsAt, Horizon}) THEN Append(s, fire) ELSE s
      BY DEF WithNextItem
    <2> HIDE DEF fire, more, Min
    <2> QED  BY <1>0, <1>4, <2>1, <2>2
  <1> HIDE DEF fire, more
  <1>6. CASE fire <= endsAt /\ fire <= Horizon
    <2>1. fire \in Instant
      BY <1>0, <1>4, <1>6
    <2>2. more \in Seq(Instant) /\ Len(more) = n + 1 /\ more[n + 1] = fire
          /\ \A k \in 1..n : more[k] = s[k]
      BY <1>1, <1>5, <1>6, <2>1
    <2>3. Len(more) > 0 => more[1] = FirstFire(rec, start, immediate)
      BY <1>1, <1>2, <2>2 DEF IsChain
    <2>4. ASSUME NEW k \in 1..Len(more), k + 1 \in 1..Len(more)
          PROVE  more[k + 1] = FireAfter(rec, start, more[k])
      <3>1. k \in 1..n /\ (k = n \/ k + 1 \in 1..n)
        BY <1>1, <2>2, <2>4
      <3>2. CASE k = n
        BY <1>1, <1>3, <2>2, <3>1, <3>2
      <3>3. CASE k + 1 \in 1..n
        BY <2>2, <3>1, <3>3 DEF IsChain
      <3> QED  BY <3>1, <3>2, <3>3
    <2>5. ASSUME NEW k \in 1..Len(more) PROVE more[k] <= endsAt
      <3>1. k \in 1..n \/ k = n + 1
        BY <1>1, <2>2
      <3> QED  BY <1>6, <2>2, <3>1 DEF IsChain
    <2>6. IsChain(rec, start, immediate, endsAt, more)
      BY <2>2, <2>3, <2>4, <2>5 DEF IsChain
    <2>7. ~PastEnd(endsAt, fire)
      BY <1>0, <1>4, <1>6 DEF PastEnd
    <2> QED  BY <2>2, <2>6, <2>7 DEF fire, more
  <1>7. CASE ~(fire <= endsAt /\ fire <= Horizon)
    <2>1. more = s /\ PastEnd(endsAt, fire)
      BY <1>0, <1>4, <1>5, <1>7 DEF PastEnd
    <2> QED  BY <2>1 DEF fire, more
  <1> QED  BY <1>6, <1>7

LEMMA PreviewOf ==
    ASSUME NEW rec, rec.kind = "interval" => rec.every \in Nat \ {0},
           NEW start \in Instant, NEW immediate \in BOOLEAN, NEW endsAt \in Instant \cup {Never},
           NEW limit \in Nat
    PROVE  LET s == Preview(rec, start, immediate, endsAt, limit) IN
           /\ IsChain(rec, start, immediate, endsAt, s)
           /\ IsWhole(rec, start, immediate, endsAt, s, limit)
  <1> DEFINE More(s) == WithNextItem(rec, start, immediate, endsAt, s)
             Chain(s) == IsChain(rec, start, immediate, endsAt, s)
             S == {s \in Seq(Instant) : Chain(s)}
             step == [s \in S |-> More(s)]
             items == PreviewItems(rec, start, immediate, endsAt, limit)
             Whole(i) == IsWhole(rec, start, immediate, endsAt, items[i], i)
  <1>1. ASSUME NEW s \in S PROVE More(s) \in S
    <2>1. IsChain(rec, start, immediate, endsAt, s)
      OBVIOUS
    <2>2. IsChain(rec, start, immediate, endsAt, More(s))
      BY <2>1, ItemAdded
    <2>3. More(s) \in Seq(Instant)
      BY <2>2 DEF IsChain
    <2> QED  BY <2>2, <2>3
  <1>2. Chain(<<>>) /\ <<>> \in S
    BY DEF IsChain
  <1>3. step \in [S -> S]
    BY <1>1
  <1>4. PICK f : IsLoop(f, S, <<>>, step, limit)
    <2> HIDE DEF S, step
    <2> QED  BY <1>2, <1>3, LoopExists, Zenon
  <1>5. f \in [0..limit -> S] /\ f[0] = <<>> /\ \A i \in 1..limit : f[i] = step[f[i - 1]]
    BY <1>4 DEF IsLoop
  <1> HIDE DEF More, S
  <1>6. \A i \in 0..limit : i # 0 => i \in 1..limit /\ i - 1 \in 0..limit
    OBVIOUS
  <1>7. f = [i \in 0..limit |-> IF i = 0 THEN <<>> ELSE More(f[i - 1])]
    <2>1. \A i \in 0..limit : f[i] = IF i = 0 THEN <<>> ELSE More(f[i - 1])
      BY <1>5, <1>6
    <2>2. f = [i \in 0..limit |-> f[i]]
      BY <1>5
    <2> QED  BY <2>1, <2>2
  <1>8. items = [i \in 0..limit |-> IF i = 0 THEN <<>> ELSE More(items[i - 1])]
    <2>1. \E g : g = [i \in 0..limit |-> IF i = 0 THEN <<>> ELSE More(g[i - 1])]
      BY <1>7
    <2> QED  BY <2>1, Zenon DEF PreviewItems, More
  <1> HIDE DEF items
  <1>9. \A i \in 0..limit : items[i] = IF i = 0 THEN <<>> ELSE More(items[i - 1])
    BY <1>8
  <1> DEFINE Good == {i \in 0..limit : Chain(items[i]) /\ Whole(i)}
  <1>10. 0 \in Good
    <2>1. items[0] = <<>> /\ 0 \in 0..limit
      BY <1>9
    <2>2. Whole(0)
      BY <2>1 DEF IsWhole
    <2> QED  BY <1>2, <2>1, <2>2
  <1>11. ASSUME NEW i \in 1..limit, i - 1 \in Good PROVE i \in Good
    <2> DEFINE s == items[i - 1]
               fire == FireAfterItems(rec, start, immediate, s)
    <2>1. i \in 0..limit /\ i # 0 /\ items[i] = More(s)
      BY <1>9
    <2>2. Chain(s) /\ Whole(i - 1)
      BY <1>11
    <2>3. /\ Chain(items[i])
          /\ IF PastEnd(endsAt, fire) THEN items[i] = s ELSE Len(items[i]) = Len(s) + 1
      <3> HIDE DEF s
      <3>1. IsChain(rec, start, immediate, endsAt, s)
        BY <2>2
      <3> QED  BY <2>1, <3>1, ItemAdded DEF More
    <2>4. Len(s) \in Nat
      BY <2>2 DEF IsChain
    <2>5. Len(s) <= i - 1 /\ (Len(s) < i - 1 => PastEnd(endsAt, fire))
      BY <2>2 DEF IsWhole
    <2>6. CASE PastEnd(endsAt, fire)
      <3>1. items[i] = s /\ Len(s) <= i
        BY <2>3, <2>4, <2>5, <2>6
      <3>2. Whole(i)
        BY <2>6, <3>1 DEF IsWhole
      <3> QED  BY <2>1, <2>3, <3>2
    <2>7. CASE ~PastEnd(endsAt, fire)
      <3>1. Len(items[i]) = i
        BY <2>3, <2>4, <2>5, <2>7
      <3>2. Whole(i)
        BY <3>1 DEF IsWhole
      <3> QED  BY <2>1, <2>3, <3>2
    <2> QED  BY <2>6, <2>7
  <1>12. limit \in Good
    <2> HIDE DEF Good
    <2> QED  BY <1>10, <1>11, LoopInduction, Good \in SUBSET (0..limit) DEF Good
  <1> QED  BY <1>12 DEF Preview, items

-----------------------------------------------------------------------------
(* What a Planner makes of a row.                                          *)

\* A row agrees with the preview of its plan.
RowOK(p, r) ==
    /\ r \in PlanRows /\ r.start \in Instant
    /\ r.status \in {"active", "paused"} => r.next # NoTime
    /\ r.next \in Instant => IsShown(p, r.start, r.cursor, r.next)
    /\ r.status = "completed" => r.cursor = Len(Shown(p, r.start))

\* The configuration of a plan.
LEMMA TimingOf ==
    ASSUME NEW p \in Plans
    PROVE  /\ Timing[p].recurrence.kind = "interval" => Timing[p].recurrence.every \in Nat \ {0}
           /\ Timing[p].endsAt \in Instant \cup {Never} /\ Timing[p].maxOccurrences \in Nat \ {0}
           /\ Timing[p].grace \in Nat /\ Immediate(p) \in BOOLEAN
           /\ ~Immediate(p) => Timing[p].startsAt \in Instant
  BY PlanAssumption DEF Immediate

LEMMA TimesOf ==
    /\ Horizon \in Nat /\ Never = Horizon + 1 /\ Instant = 0..Horizon /\ NoTime = -1
    /\ NoTime \notin Instant /\ Never \notin Instant
  BY ZoneAssumption DEF Never, Instant, NoTime

\* The preview of a plan.
LEMMA ShownOf ==
    ASSUME NEW p \in Plans, NEW start \in Instant
    PROVE  LET s == Shown(p, start)
               rec == Timing[p].recurrence IN
           /\ s \in Seq(Instant) /\ Len(s) \in Nat /\ DOMAIN s = 1..Len(s)
           /\ Len(s) <= Timing[p].maxOccurrences
           /\ Len(s) > 0 => s[1] = FirstFire(rec, start, Immediate(p))
           /\ \A n \in 1..Len(s) : n + 1 \in 1..Len(s) => s[n + 1] = FireAfter(rec, start, s[n])
           /\ \A n \in 1..Len(s) : s[n] <= Timing[p].endsAt
           /\ Len(s) = 0 => PastEnd(Timing[p].endsAt, FirstFire(rec, start, Immediate(p)))
           /\ Len(s) > 0 /\ Len(s) < Timing[p].maxOccurrences =>
                PastEnd(Timing[p].endsAt, FireAfter(rec, start, s[Len(s)]))
  <1> DEFINE s == Shown(p, start)
             rec == Timing[p].recurrence
  <1>1. /\ IsChain(rec, start, Immediate(p), Timing[p].endsAt, s)
        /\ IsWhole(rec, start, Immediate(p), Timing[p].endsAt, s, Timing[p].maxOccurrences)
    <2>1. Timing[p].maxOccurrences \in Nat
      BY TimingOf
    <2> QED  BY <2>1, TimingOf, PreviewOf DEF Shown
  <1> HIDE DEF s
  <1>2. s \in Seq(Instant) /\ Len(s) \in Nat /\ DOMAIN s = 1..Len(s)
    BY <1>1 DEF IsChain
  <1>3. FireAfterItems(rec, start, Immediate(p), s)
            = IF Len(s) = 0 THEN FirstFire(rec, start, Immediate(p))
              ELSE FireAfter(rec, start, s[Len(s)])
    BY <1>2 DEF FireAfterItems
  <1>4. Timing[p].maxOccurrences \in Nat \ {0}
    BY TimingOf
  <1> QED  BY <1>1, <1>2, <1>3, <1>4 DEF IsChain, IsWhole, s

\* A plan that starts.
LEMMA FirstRow ==
    ASSUME NEW p \in Plans, NEW start \in Instant
    PROVE  LET first == FirstFire(Timing[p].recurrence, start, Immediate(p)) IN
           /\ first \in Instant \cup {Never}
           /\ first > Timing[p].endsAt => Len(Shown(p, start)) = 0
           /\ ~(first > Timing[p].endsAt) /\ first \in Instant => IsShown(p, start, 0, first)
  <1> DEFINE first == FirstFire(Timing[p].recurrence, start, Immediate(p))
             s == Shown(p, start)
             e == Timing[p].endsAt
  <1>1. first \in Instant \cup {Never}
    BY TimingOf, FirstFireOf
  <1>2. /\ Len(s) \in Nat /\ DOMAIN s = 1..Len(s)
        /\ Len(s) > 0 => s[1] = first
        /\ \A n \in 1..Len(s) : s[n] <= e
        /\ Len(s) = 0 => PastEnd(e, first)
    BY ShownOf
  <1>3. e \in Int
    BY TimingOf, TimesOf
  <1> HIDE DEF first, s, e
  <1>4. ASSUME first > e PROVE Len(s) = 0
    <2> SUFFICES ASSUME Len(s) # 0 PROVE FALSE
      OBVIOUS
    <2>1. 1 \in 1..Len(s) /\ s[1] = first
      BY <1>2
    <2>2. first <= e
      BY <1>2, <2>1
    <2> QED  BY <1>1, <1>3, <1>4, <2>2, TimesOf
  <1>5. ASSUME ~(first > e), first \in Instant PROVE IsShown(p, start, 0, first)
    <2>1. ~PastEnd(e, first)
      BY <1>5, TimesOf DEF PastEnd
    <2>2. Len(s) # 0
      BY <1>2, <2>1
    <2>3. 0 + 1 \in DOMAIN s /\ s[0 + 1] = first
      BY <1>2, <2>2
    <2> QED  BY <2>3 DEF IsShown, s
  <1> QED  BY <1>1, <1>4, <1>5 DEF first, s, e

\* A row moves to its next occurrence, or to the end of its plan.
LEMMA AdvanceOf ==
    ASSUME NEW p \in Plans, NEW r, RowOK(p, r), r.status = "active", r.next \in Instant
    PROVE  LET a == Advance(p, r, r.next) IN
           /\ RowOK(p, a) /\ a.status \in {"active", "completed"}
           /\ a.start = r.start /\ a.last = r.last /\ a.skipped = r.skipped
           /\ a.emitted = r.emitted /\ a.cursor = r.cursor + 1
           /\ a.status = "active" => a.next > r.next
  <1> DEFINE a == Advance(p, r, r.next)
             moved == [r EXCEPT !.cursor = @ + 1]
             fire == FireAfter(Timing[p].recurrence, r.start, r.next)
             e == Timing[p].endsAt
             s == Shown(p, r.start)
             m == Timing[p].maxOccurrences
             ends == r.cursor + 1 >= m \/ fire > e
  <1>1. r \in PlanRows /\ r.start \in Instant /\ IsShown(p, r.start, r.cursor, r.next)
    BY DEF RowOK
  <1>2. fire \in Instant \cup {Never} /\ fire > r.next
    BY <1>1, TimingOf, FireAfterOf
  <1>3. e \in Int /\ m \in Nat
    BY TimingOf, TimesOf
  <1>4. /\ Len(s) \in Nat /\ DOMAIN s = 1..Len(s) /\ Len(s) <= m
        /\ \A n \in 1..Len(s) : n + 1 \in 1..Len(s) =>
                s[n + 1] = FireAfter(Timing[p].recurrence, r.start, s[n])
        /\ \A n \in 1..Len(s) : s[n] <= e
        /\ Len(s) > 0 /\ Len(s) < m =>
                PastEnd(e, FireAfter(Timing[p].recurrence, r.start, s[Len(s)]))
    BY <1>1, ShownOf
  <1>5. r.cursor \in Nat /\ r.cursor + 1 \in 1..Len(s) /\ s[r.cursor + 1] = r.next
    BY <1>1, <1>4 DEF IsShown, PlanRows
  <1>6. /\ moved \in PlanRows /\ moved.status = "active" /\ moved.start = r.start
        /\ moved.cursor = r.cursor + 1 /\ moved.skipped = r.skipped
        /\ moved.emitted = r.emitted /\ moved.last = r.last
    BY <1>1 DEF PlanRows
  <1>7. a = IF ends THEN [moved EXCEPT !.status = "completed", !.next = NoTime]
            ELSE [moved EXCEPT !.next = fire]
    BY <1>6 DEF Advance, Exhausted
  <1> HIDE DEF a, moved, fire, e, s, m
  <1>8. CASE ends
    <2>1. /\ a \in PlanRows /\ a.status = "completed" /\ a.next = NoTime /\ a.start = r.start
          /\ a.cursor = r.cursor + 1 /\ a.skipped = r.skipped
          /\ a.emitted = r.emitted /\ a.last = r.last
      BY <1>6, <1>7, <1>8 DEF PlanRows, PlanStatuses
    <2>2. Len(s) = r.cursor + 1
      <3> SUFFICES ASSUME Len(s) # r.cursor + 1 PROVE FALSE
        OBVIOUS
      <3>1. (r.cursor + 1) + 1 \in 1..Len(s)
        BY <1>4, <1>5
      <3>2. s[(r.cursor + 1) + 1] = fire
        BY <1>4, <1>5, <3>1 DEF fire
      <3>3. fire <= e
        BY <1>4, <3>1, <3>2
      <3>4. ~(r.cursor + 1 >= m)
        BY <1>3, <1>4, <1>5, <3>1
      <3> QED  BY <1>2, <1>3, <1>8, <3>3, <3>4, TimesOf
    <2>3. RowOK(p, a)
      BY <1>1, <2>1, <2>2, TimesOf DEF RowOK, s
    <2> QED  BY <2>1, <2>3 DEF a
  <1>9. CASE ~ends
    <2>1. /\ a \in PlanRows /\ a.status = "active" /\ a.next = fire /\ a.start = r.start
          /\ a.cursor = r.cursor + 1 /\ a.skipped = r.skipped
          /\ a.emitted = r.emitted /\ a.last = r.last
      BY <1>2, <1>6, <1>7, <1>9 DEF PlanRows
    <2>2. ASSUME fire \in Instant PROVE IsShown(p, a.start, a.cursor, fire)
      <3>1. ~PastEnd(e, fire)
        BY <1>9, <2>2, TimesOf DEF PastEnd
      <3>2. Len(s) # r.cursor + 1
        BY <1>3, <1>4, <1>5, <1>9, <3>1 DEF fire
      <3>3. (r.cursor + 1) + 1 \in 1..Len(s)
        BY <1>4, <1>5, <3>2
      <3>4. s[(r.cursor + 1) + 1] = fire
        BY <1>4, <1>5, <3>3 DEF fire
      <3> QED  BY <1>4, <2>1, <3>3, <3>4 DEF IsShown, s
    <2>3. RowOK(p, a)
      <3>1. fire # NoTime
        BY <1>2, TimesOf
      <3> QED  BY <1>1, <2>1, <2>2, <3>1 DEF RowOK
    <2> QED  BY <1>2, <2>1, <2>3 DEF a
  <1> QED  BY <1>8, <1>9

\* The rows that the misfire loop can pass through.
LoopRows(p) == {r \in PlanRows : RowOK(p, r) /\ r.status \in {"active", "completed"}}

\* One turn of the misfire loop.
LEMMA SkipOf ==
    ASSUME NEW p \in Plans, NEW r \in LoopRows(p), NEW t \in Instant
    PROVE  LET s == SkipMisfire(p, r, t) IN
           /\ s \in LoopRows(p)
           /\ s.start = r.start /\ s.last = r.last /\ s.emitted = r.emitted
           /\ s.cursor >= r.cursor /\ s.cursor - s.skipped = r.cursor - r.skipped
           /\ \/ s = r /\ (r.status = "active" => r.next >= t - Timing[p].grace)
              \/ r.status = "active" /\ (s.status = "active" => s.next > r.next)
  <1> DEFINE a == Advance(p, r, r.next)
             s == SkipMisfire(p, r, t)
  <1>1. /\ r \in PlanRows /\ RowOK(p, r) /\ r.status \in {"active", "completed"}
        /\ r.cursor \in Nat /\ r.skipped \in Nat
        /\ r.next \in Instant \cup {NoTime, Never}
        /\ r.status = "active" => r.next # NoTime
    BY DEF LoopRows, RowOK, PlanRows
  <1>2. Timing[p].grace \in Nat /\ t \in Int /\ r.next \in Int
    BY <1>1, TimingOf, TimesOf
  <1>3. CASE r.status = "active" /\ r.next < t - Timing[p].grace
    <2>1. r.next \in Instant
      BY <1>1, <1>2, <1>3, TimesOf
    <2>2. /\ RowOK(p, a) /\ a.status \in {"active", "completed"}
          /\ a.start = r.start /\ a.last = r.last /\ a.skipped = r.skipped
          /\ a.emitted = r.emitted /\ a.cursor = r.cursor + 1
          /\ a.status = "active" => a.next > r.next
      BY <1>1, <1>3, <2>1, AdvanceOf
    <2>3. s = [a EXCEPT !.skipped = @ + 1]
      BY <1>3 DEF SkipMisfire
    <2> HIDE DEF a, s
    <2>4. a \in PlanRows
      BY <2>2 DEF RowOK
    <2>5. /\ s \in PlanRows /\ s.skipped = a.skipped + 1 /\ s.status = a.status
          /\ s.next = a.next /\ s.start = a.start /\ s.last = a.last
          /\ s.emitted = a.emitted /\ s.cursor = a.cursor
      BY <2>3, <2>4 DEF PlanRows
    <2>6. RowOK(p, s)
      BY <2>2, <2>5 DEF RowOK
    <2>7. s \in LoopRows(p)
      BY <2>2, <2>5, <2>6 DEF LoopRows
    <2> QED  BY <1>1, <1>3, <2>2, <2>5, <2>7 DEF s
  <1>4. CASE ~(r.status = "active" /\ r.next < t - Timing[p].grace)
    <2>1. s = r
      BY <1>4 DEF SkipMisfire
    <2> QED  BY <1>1, <1>2, <1>4, <2>1 DEF s
  <1> QED  BY <1>3, <1>4

\* The misfire loop ends: the row is within the grace or the plan is complete, and
\* what it passed over is counted as skipped.
LEMMA MisfiresOf ==
    ASSUME NEW p \in Plans, NEW held, RowOK(p, held), held.status = "active", held.next \in Instant,
           NEW t \in Instant
    PROVE  LET r == AfterMisfires(p, held, t) IN
           /\ r \in LoopRows(p)
           /\ r.start = held.start /\ r.last = held.last /\ r.emitted = held.emitted
           /\ r.cursor >= held.cursor /\ r.cursor - r.skipped = held.cursor - held.skipped
           /\ r.status = "active" => r.next >= t - Timing[p].grace
  <1> DEFINE n == Horizon + 1
             S == LoopRows(p)
             Turn(r) == SkipMisfire(p, r, t)
             step == [r \in S |-> Turn(r)]
             loop == Misfires(p, held, t)
  <1>0. n \in Nat /\ t \in Int /\ Timing[p].grace \in Nat
    BY TimesOf, TimingOf
  <1>1. held \in S
    BY DEF LoopRows, RowOK
  <1>2. step \in [S -> S]
    BY SkipOf
  <1>3. PICK f : IsLoop(f, S, held, step, n)
    <2> HIDE DEF S, step, n
    <2> QED  BY <1>0, <1>1, <1>2, LoopExists, Zenon
  <1>4. f \in [0..n -> S] /\ f[0] = held /\ \A i \in 1..n : f[i] = step[f[i - 1]]
    BY <1>3 DEF IsLoop
  <1> HIDE DEF Turn, S
  <1>5. \A i \in 0..n : i # 0 => i \in 1..n /\ i - 1 \in 0..n
    BY <1>0
  <1>6. f = [i \in 0..n |-> IF i = 0 THEN held ELSE Turn(f[i - 1])]
    <2> HIDE DEF n
    <2>1. \A i \in 0..n : f[i] = IF i = 0 THEN held ELSE Turn(f[i - 1])
      BY <1>4, <1>5
    <2>2. f = [i \in 0..n |-> f[i]]
      BY <1>4
    <2> QED  BY <2>1, <2>2
  <1>7. loop = [i \in 0..n |-> IF i = 0 THEN held ELSE Turn(loop[i - 1])]
    <2>1. \E g : g = [i \in 0..n |-> IF i = 0 THEN held ELSE Turn(g[i - 1])]
      BY <1>6
    <2> QED  BY <2>1, Zenon DEF Misfires, Turn
  <1> HIDE DEF loop, n
  <1>8. \A i \in 0..n : loop[i] = IF i = 0 THEN held ELSE Turn(loop[i - 1])
    BY <1>7
  <1> DEFINE J(i, r) == /\ r \in S
                        /\ r.start = held.start /\ r.last = held.last /\ r.emitted = held.emitted
                        /\ r.cursor >= held.cursor /\ r.cursor - r.skipped = held.cursor - held.skipped
                        /\ r.status = "active" =>
                             r.next >= t - Timing[p].grace \/ r.next >= held.next + i
             Good == {i \in 0..n : J(i, loop[i])}
  <1>9. \A r \in S : /\ r.cursor \in Nat /\ r.skipped \in Nat /\ r.next \in Int
                     /\ r.start \in Instant
    BY TimesOf DEF S, LoopRows, RowOK, PlanRows
  <1>10. held.next \in Nat
    BY TimesOf
  <1>11. 0 \in Good
    <2>1. 0 \in 0..n /\ loop[0] = held
      BY <1>0, <1>8
    <2>2. J(0, held)
      BY <1>1, <1>9, <1>10
    <2> QED  BY <2>1, <2>2
  <1>12. ASSUME NEW i \in 1..n, i - 1 \in Good PROVE i \in Good
    <2> DEFINE q == loop[i - 1]
               s == loop[i]
    <2>1. i \in 0..n /\ i # 0 /\ i \in Nat /\ s = SkipMisfire(p, q, t)
      BY <1>0, <1>8 DEF Turn
    <2>2. J(i - 1, q)
      BY <1>12
    <2> HIDE DEF q, s
    <2>3. q \in LoopRows(p)
      BY <2>2 DEF S
    <2>4. /\ s \in LoopRows(p)
          /\ s.start = q.start /\ s.last = q.last /\ s.emitted = q.emitted
          /\ s.cursor >= q.cursor /\ s.cursor - s.skipped = q.cursor - q.skipped
          /\ \/ s = q /\ (q.status = "active" => q.next >= t - Timing[p].grace)
             \/ q.status = "active" /\ (s.status = "active" => s.next > q.next)
      BY <2>1, <2>3, SkipOf
    <2>5. s \in S
      BY <2>4 DEF S
    <2>6. /\ s.cursor \in Nat /\ q.cursor \in Nat /\ held.cursor \in Nat
          /\ s.next \in Int /\ q.next \in Int /\ held.next \in Int
      BY <1>1, <1>9, <2>2, <2>5
    <2>7. s.cursor >= held.cursor
      BY <2>2, <2>4, <2>6
    <2>8. ASSUME s.status = "active"
          PROVE  s.next >= t - Timing[p].grace \/ s.next >= held.next + i
      <3>1. CASE s = q /\ (q.status = "active" => q.next >= t - Timing[p].grace)
        BY <2>8, <3>1
      <3>2. CASE q.status = "active" /\ s.next > q.next
        BY <1>0, <2>1, <2>2, <2>6, <3>2
      <3> QED  BY <2>4, <2>8, <3>1, <3>2
    <2>9. J(i, s)
      BY <2>2, <2>4, <2>5, <2>7, <2>8
    <2> QED  BY <2>1, <2>9 DEF s
  <1>13. n \in Good
    <2> HIDE DEF Good
    <2> QED  BY <1>0, <1>11, <1>12, LoopInduction, Good \in SUBSET (0..n) DEF Good
  <1>14. J(n, loop[n])
    BY <1>13
  <1>15. loop[n] = AfterMisfires(p, held, t)
    BY DEF AfterMisfires, loop, n
  <1>16. loop[n].status = "active" => loop[n].next >= t - Timing[p].grace
    <2> SUFFICES ASSUME loop[n].status = "active" PROVE loop[n].next >= t - Timing[p].grace
      OBVIOUS
    <2> DEFINE a == loop[n].next
               b == held.next
               g == Timing[p].grace
    <2>1. a \in Int /\ b \in Nat /\ (a >= t - g \/ a >= b + n)
      BY <1>9, <1>10, <1>14
    <2>2. g \in Nat /\ t \in 0..Horizon /\ Horizon \in Nat /\ n = Horizon + 1
      BY <1>0, TimesOf DEF n
    <2> HIDE DEF a, b, g
    <2>3. a >= t - g
      BY <2>1, <2>2
    <2> QED  BY <2>3 DEF a, g
  <1> QED  BY <1>14, <1>15, <1>16 DEF S

\* The row a Planner writes for a plan that was due, and its node.
LEMMA MaterializedOf ==
    ASSUME NEW p \in Plans, NEW held, RowOK(p, held), held.status = "active", held.next \in Instant,
           NEW t \in Instant
    PROVE  LET m == Materialized(p, held, t)
               r == m.plan IN
           /\ RowOK(p, r) /\ r.status \in {"active", "completed"}
           /\ r.start = held.start /\ r.emitted = held.emitted /\ r.cursor >= held.cursor
           /\ \/ m.nodes = <<>> /\ r.cursor - r.skipped = held.cursor - held.skipped
              \/ \E d \in Nodes :
                    /\ m.nodes = <<d>> /\ d.state = "pending" /\ ShouldEmit(p)
                    /\ r.cursor - r.skipped = held.cursor - held.skipped + 1
                    /\ d.occurrence \in held.cursor..(r.cursor - 1)
                    /\ t - d.due \in 0..Timing[p].grace
                    /\ IsShown(p, r.start, d.occurrence, d.due)
  <1> DEFINE m == Materialized(p, held, t)
             q == AfterMisfires(p, held, t)
             a == Advance(p, q, q.next)
             emit == ShouldEmit(p)
             fired == [a EXCEPT !.last = q.next, !.skipped = IF emit THEN @ ELSE @ + 1]
             item == [occurrence |-> q.cursor, due |-> q.next, state |-> "pending"]
  <1>1. /\ q \in LoopRows(p)
        /\ q.start = held.start /\ q.emitted = held.emitted
        /\ q.cursor >= held.cursor /\ q.cursor - q.skipped = held.cursor - held.skipped
        /\ q.status = "active" => q.next >= t - Timing[p].grace
    BY MisfiresOf
  <1>2. /\ q \in PlanRows /\ RowOK(p, q) /\ q.status \in {"active", "completed"}
        /\ q.cursor \in Nat /\ q.skipped \in Nat
        /\ q.next \in Instant \cup {NoTime, Never}
        /\ q.status = "active" => q.next # NoTime
    BY <1>1 DEF LoopRows, RowOK, PlanRows
  <1>3. Timing[p].grace \in Nat /\ t \in Int /\ held.cursor \in Nat /\ held.skipped \in Nat
    BY TimingOf, TimesOf DEF RowOK, PlanRows
  <1>4. CASE q.status = "completed" \/ q.next > t
    <2>1. m = [plan |-> q, nodes |-> <<>>]
      BY <1>4 DEF Materialized
    <2>2. m.plan = q /\ m.nodes = <<>>
      BY <2>1
    <2> HIDE DEF m, q
    <2> QED  BY <1>1, <1>2, <2>2 DEF m
  <1>5. CASE ~(q.status = "completed" \/ q.next > t)
    <2>1. q.status = "active" /\ q.next \in Instant /\ q.next <= t
      BY <1>2, <1>3, <1>5, TimesOf
    <2>2. /\ RowOK(p, a) /\ a.status \in {"active", "completed"}
          /\ a.start = q.start /\ a.skipped = q.skipped
          /\ a.emitted = q.emitted /\ a.cursor = q.cursor + 1
      BY <1>2, <2>1, AdvanceOf
    <2>3. m = [plan |-> fired, nodes |-> IF emit THEN <<item>> ELSE <<>>]
      BY <1>5 DEF Materialized
    <2>4. IsShown(p, q.start, q.cursor, q.next)
      BY <1>2, <2>1 DEF RowOK
    <2> HIDE DEF m, q, a, emit
    <2>5. a \in PlanRows /\ a.skipped \in Nat
      BY <2>2 DEF RowOK, PlanRows
    <2>6. /\ fired \in PlanRows /\ fired.skipped = IF emit THEN a.skipped ELSE a.skipped + 1
          /\ fired.status = a.status /\ fired.next = a.next /\ fired.start = a.start
          /\ fired.emitted = a.emitted /\ fired.cursor = a.cursor
      <3> DEFINE k == IF emit THEN a.skipped ELSE a.skipped + 1
                 g == [a EXCEPT !.last = q.next]
      <3>1. /\ g \in PlanRows /\ g.status = a.status /\ g.next = a.next /\ g.start = a.start
            /\ g.emitted = a.emitted /\ g.cursor = a.cursor /\ g.skipped = a.skipped
        BY <2>1, <2>5 DEF PlanRows
      <3>2. k \in Nat
        BY <2>5
      <3>3. fired = [g EXCEPT !.skipped = k]
        BY <2>5 DEF PlanRows
      <3> HIDE DEF k, g, fired
      <3>4. /\ fired \in PlanRows /\ fired.skipped = k
            /\ fired.status = a.status /\ fired.next = a.next /\ fired.start = a.start
            /\ fired.emitted = a.emitted /\ fired.cursor = a.cursor
        BY <3>1, <3>2, <3>3 DEF PlanRows
      <3> QED  BY <3>4 DEF k
    <2> HIDE DEF fired
    <2>7. RowOK(p, fired)
      BY <2>2, <2>6 DEF RowOK
    <2>8. m.plan = fired /\ m.nodes = IF emit THEN <<item>> ELSE <<>>
      BY <2>3
    <2>9. CASE emit
      <3>1. /\ item \in Nodes /\ item.state = "pending" /\ item.occurrence = q.cursor
            /\ item.due = q.next
        BY <1>2, <2>1 DEF Nodes
      <3> HIDE DEF item
      <3>2. item.occurrence \in held.cursor..(fired.cursor - 1)
        BY <1>1, <1>2, <1>3, <2>2, <2>6, <3>1
      <3>3. t - item.due \in 0..Timing[p].grace
        BY <1>1, <1>3, <2>1, <3>1, TimesOf
      <3>4. fired.cursor - fired.skipped = held.cursor - held.skipped + 1
        BY <1>1, <1>2, <1>3, <2>2, <2>6, <2>9
      <3>5. IsShown(p, fired.start, item.occurrence, item.due)
        BY <2>2, <2>4, <2>6, <3>1
      <3>6. fired.cursor >= held.cursor
        BY <1>1, <1>2, <1>3, <2>2, <2>6
      <3>7. m.nodes = <<item>> /\ ShouldEmit(p)
        BY <2>8, <2>9 DEF emit
      <3>8. \E d \in Nodes :
                    /\ m.nodes = <<d>> /\ d.state = "pending" /\ ShouldEmit(p)
                    /\ fired.cursor - fired.skipped = held.cursor - held.skipped + 1
                    /\ d.occurrence \in held.cursor..(fired.cursor - 1)
                    /\ t - d.due \in 0..Timing[p].grace
                    /\ IsShown(p, fired.start, d.occurrence, d.due)
        BY <3>1, <3>2, <3>3, <3>4, <3>5, <3>7
      <3> QED  BY <1>1, <2>2, <2>6, <2>7, <2>8, <3>6, <3>8 DEF m
    <2>10. CASE ~emit
      <3>1. fired.cursor - fired.skipped = held.cursor - held.skipped
        BY <1>1, <1>2, <1>3, <2>2, <2>6, <2>10
      <3>2. fired.cursor >= held.cursor
        BY <1>1, <1>2, <1>3, <2>2, <2>6
      <3> QED  BY <1>1, <2>2, <2>6, <2>7, <2>8, <2>10, <3>1, <3>2 DEF m
    <2> QED  BY <2>9, <2>10
  <1> QED  BY <1>4, <1>5

-----------------------------------------------------------------------------
(* The inductive invariant.                                                *)

\* The row, the nodes and the Runners of a plan tell one history.
History(p, r, ds, rs) ==
    /\ r \in PlanRows /\ ds \in Seq(Nodes) /\ rs \in Seq(RunnerRows)
    /\ r.cursor = r.skipped + Len(ds) /\ r.emitted = Len(rs)
    /\ \A i, j \in DOMAIN rs : i < j => rs[i].occurrence < rs[j].occurrence
    /\ \A i \in DOMAIN rs : rs[i].occurrence < r.cursor
    /\ \A i \in DOMAIN ds : ds[i].state # "pending"
    /\ \A i \in DOMAIN rs : rs[i].at - rs[i].due \in 0..Timing[p].grace
    /\ Timing[p].overlap = "skip" =>
        \A i, j \in DOMAIN rs : rs[i].status \in Active /\ rs[j].status \in Active => i = j
    /\ r.status = "absent" => r = Absent
    /\ r.status # "absent" =>
        /\ RowOK(p, r)
        /\ \A i \in DOMAIN rs : IsShown(p, r.start, rs[i].occurrence, rs[i].due)

\* What an open transaction of a Planner knows: the rows it locked are as it read
\* them, due, no more than a batch, and no other Planner's.
Locks ==
    /\ tx = [w \in Planners |-> tx[w]]
    /\ \A w \in Planners : tx[w] # NoTx =>
        /\ tx[w].now \in Instant /\ tx[w].now <= databaseNow
        /\ DOMAIN tx[w].rows \subseteq Plans
        /\ Cardinality(DOMAIN tx[w].rows) <= BatchSize
        /\ \A p \in DOMAIN tx[w].rows :
            /\ tx[w].rows[p] = planRow[p]
            /\ planRow[p].status = "active" /\ planRow[p].next \in Instant
    /\ \A v, w \in Planners : v # w => DOMAIN tx[v].rows \cap DOMAIN tx[w].rows = {}

PlanInvariant ==
    /\ databaseNow \in Instant /\ rollbacks \in 0..MaxRollbacks /\ stopped \subseteq Plans
    /\ planRow = [p \in Plans |-> planRow[p]]
    /\ dispatches = [p \in Plans |-> dispatches[p]]
    /\ runners = [p \in Plans |-> runners[p]]
    /\ cancel \in [stage : {"idle", "runners", "done"}, seen : SUBSET (Plans \X Nat)]
    /\ Locks
    /\ \A p \in Plans : History(p, planRow[p], dispatches[p], runners[p])

\* A plan is paused, resumed or cancelled.
LEMMA StatusKeeps ==
    ASSUME NEW p, NEW r, NEW ds, NEW rs, History(p, r, ds, rs), r.status \in {"active", "paused"},
           NEW x \in {"active", "paused", "cancelled"}, NEW q, q = [r EXCEPT !.status = x]
    PROVE  History(p, q, ds, rs)
  <1>1. r \in PlanRows /\ RowOK(p, r)
    BY DEF History
  <1>2. /\ q \in PlanRows /\ q.status = x /\ q.next = r.next /\ q.start = r.start
        /\ q.cursor = r.cursor /\ q.skipped = r.skipped /\ q.emitted = r.emitted
    BY <1>1 DEF PlanRows, PlanStatuses
  <1>3. RowOK(p, q)
    BY <1>1, <1>2 DEF RowOK
  <1> QED  BY <1>2, <1>3 DEF History

\* No node is pending, so a cancellation finds none.
LEMMA NoneCancelled ==
    ASSUME NEW p, NEW r, NEW ds, NEW rs, History(p, r, ds, rs)
    PROVE  CancelledNodes(ds) = ds
  <1>1. ds \in Seq(Nodes) /\ \A i \in DOMAIN ds : ds[i].state # "pending"
    BY DEF History
  <1>2. CancelledNodes(ds) = [i \in DOMAIN ds |-> ds[i]]
    BY <1>1 DEF CancelledNodes
  <1> QED  BY <1>1, <1>2

\* Runners go on, end or are cancelled.
LEMMA RunnersGoOn ==
    ASSUME NEW p, NEW r, NEW ds, NEW rs, History(p, r, ds, rs),
           NEW qs \in Seq(RunnerRows), Len(qs) = Len(rs),
           \A i \in DOMAIN rs : /\ qs[i].occurrence = rs[i].occurrence /\ qs[i].due = rs[i].due
                                /\ qs[i].at = rs[i].at
                                /\ qs[i].status \in Active => rs[i].status \in Active
    PROVE  History(p, r, ds, qs)
  <1>1. rs \in Seq(RunnerRows) /\ DOMAIN qs = DOMAIN rs
    BY DEF History
  <1> QED  BY <1>1 DEF History

\* The Planner writes a row without a node.
LEMMA MovedOn ==
    ASSUME NEW p, NEW r, NEW ds, NEW rs, History(p, r, ds, rs), r.status = "active",
           NEW q, RowOK(p, q), q.status # "absent", q.start = r.start, q.emitted = r.emitted,
           q.cursor >= r.cursor, q.cursor - q.skipped = r.cursor - r.skipped
    PROVE  History(p, q, ds, rs)
  <1>1. /\ r \in PlanRows /\ q \in PlanRows /\ rs \in Seq(RunnerRows) /\ ds \in Seq(Nodes)
        /\ r.cursor = r.skipped + Len(ds) /\ \A i \in DOMAIN rs : rs[i].occurrence < r.cursor
    BY DEF History, RowOK
  <1>2. /\ r.cursor \in Nat /\ q.cursor \in Nat /\ r.skipped \in Nat /\ q.skipped \in Nat
        /\ \A i \in DOMAIN rs : rs[i].occurrence \in Nat
    <2>1. \A i \in DOMAIN rs : rs[i] \in RunnerRows
      BY <1>1
    <2> QED  BY <1>1, <2>1 DEF PlanRows, RunnerRows
  <1>3. q.cursor = q.skipped + Len(ds)
    BY <1>1, <1>2
  <1>4. \A i \in DOMAIN rs : rs[i].occurrence < q.cursor
    BY <1>1, <1>2
  <1> QED  BY <1>1, <1>3, <1>4 DEF History

\* The Planner writes a row and a node, and the node becomes a Runner.
LEMMA MovedOnAndEmitted ==
    ASSUME NEW p \in Plans, NEW r, NEW ds, NEW rs, History(p, r, ds, rs), r.status = "active",
           NEW q, RowOK(p, q), q.status # "absent", q.start = r.start, q.emitted = r.emitted + 1,
           q.cursor >= r.cursor, q.cursor - q.skipped = r.cursor - r.skipped + 1,
           NEW es \in Seq(Nodes), Len(es) = Len(ds) + 1,
           \A i \in DOMAIN es : es[i].state # "pending",
           NEW x \in RunnerRows, x.occurrence \in r.cursor..(q.cursor - 1),
           x.at - x.due \in 0..Timing[p].grace, IsShown(p, q.start, x.occurrence, x.due),
           Timing[p].overlap = "skip" => \A i \in DOMAIN rs : rs[i].status \notin Active
    PROVE  History(p, q, es, Append(rs, x))
  <1> DEFINE qs == Append(rs, x)
             n == Len(rs)
  <1>1. /\ r \in PlanRows /\ q \in PlanRows /\ rs \in Seq(RunnerRows) /\ ds \in Seq(Nodes)
        /\ r.cursor = r.skipped + Len(ds) /\ r.emitted = n
        /\ \A i \in DOMAIN rs : rs[i].occurrence < r.cursor
    BY DEF History, RowOK
  <1>2. /\ r.cursor \in Nat /\ q.cursor \in Nat /\ r.skipped \in Nat /\ q.skipped \in Nat
        /\ \A i \in DOMAIN rs : rs[i].occurrence \in Nat
    <2>1. \A i \in DOMAIN rs : rs[i] \in RunnerRows
      BY <1>1
    <2> QED  BY <1>1, <2>1 DEF PlanRows, RunnerRows
  <1>3. /\ qs \in Seq(RunnerRows) /\ Len(qs) = n + 1 /\ n \in Nat
        /\ DOMAIN qs = DOMAIN rs \cup {n + 1} /\ DOMAIN rs = 1..n
        /\ \A i \in DOMAIN rs : qs[i] = rs[i] /\ i < n + 1 /\ i \in Nat
        /\ qs[n + 1] = x
    BY <1>1
  <1> HIDE DEF qs, n
  <1>4. q.cursor = q.skipped + Len(es) /\ q.emitted = Len(qs)
    <2>1. Len(ds) \in Nat /\ Len(es) = Len(ds) + 1
      BY <1>1
    <2>2. q.cursor = q.skipped + Len(es)
      <3> DEFINE a == q.cursor
                 b == q.skipped
                 c == r.cursor
                 d == r.skipped
                 k == Len(ds)
      <3>1. a \in Nat /\ b \in Nat /\ c \in Nat /\ d \in Nat
        BY <1>2
      <3>2. k \in Nat /\ Len(es) = k + 1 /\ c = d + k /\ a - b = c - d + 1
        BY <1>1, <2>1
      <3> HIDE DEF a, b, c, d, k
      <3>3. a = b + (k + 1)
        BY <3>1, <3>2
      <3> QED  BY <3>2, <3>3 DEF a, b
    <2>3. q.emitted = n + 1
      BY <1>1
    <2> QED  BY <1>3, <2>2, <2>3
  <1>0. x.occurrence \in Nat /\ r.cursor <= x.occurrence /\ x.occurrence < q.cursor
    BY <1>2
  <1>5. \A i \in DOMAIN qs : qs[i].occurrence < q.cursor
    <2>1. ASSUME NEW i \in DOMAIN rs PROVE rs[i].occurrence < q.cursor
      <3>1. rs[i].occurrence \in Nat /\ rs[i].occurrence < r.cursor
        BY <1>1, <1>2
      <3>2. r.cursor \in Nat /\ q.cursor \in Nat /\ r.cursor <= q.cursor
        BY <1>2
      <3> DEFINE a == rs[i].occurrence
                 b == r.cursor
                 c == q.cursor
      <3>3. a \in Nat /\ a < b /\ b \in Nat /\ c \in Nat /\ b <= c
        BY <3>1, <3>2
      <3> HIDE DEF a, b, c
      <3>4. a < c
        BY <3>3
      <3> QED  BY <3>4 DEF a, c
    <2> QED  BY <1>0, <1>3, <2>1
  <1>6. \A i, j \in DOMAIN qs : i < j => qs[i].occurrence < qs[j].occurrence
    <2> SUFFICES ASSUME NEW i \in DOMAIN qs, NEW j \in DOMAIN qs, i < j
                 PROVE  qs[i].occurrence < qs[j].occurrence
      OBVIOUS
    <2>1. i \in DOMAIN rs
      BY <1>3
    <2>2. CASE j \in DOMAIN rs
      BY <1>3, <2>1, <2>2 DEF History
    <2>3. CASE j = n + 1
      <3> DEFINE a == rs[i].occurrence
                 b == r.cursor
                 c == x.occurrence
      <3>0. a \in Nat /\ a < b /\ b \in Nat /\ c \in Nat /\ b <= c
        BY <1>0, <1>1, <1>2, <2>1
      <3>1. a < c
        <4> HIDE DEF a, b, c
        <4> QED  BY <3>0
      <3> QED  BY <1>3, <2>1, <2>3, <3>1
    <2> QED  BY <1>3, <2>2, <2>3
  <1>7. \A i \in DOMAIN qs : qs[i].at - qs[i].due \in 0..Timing[p].grace
    BY <1>3 DEF History
  <1>8. ASSUME Timing[p].overlap = "skip", NEW i \in DOMAIN qs, NEW j \in DOMAIN qs,
               qs[i].status \in Active, qs[j].status \in Active
        PROVE  i = j
    BY <1>3, <1>8
  <1>9. \A i \in DOMAIN qs : IsShown(p, q.start, qs[i].occurrence, qs[i].due)
    BY <1>3 DEF History
  <1> QED  BY <1>1, <1>3, <1>4, <1>5, <1>6, <1>7, <1>8, <1>9 DEF History, qs

\* Only the locked plan of a Planner is written by it: steps that leave locked
\* rows alone keep what transactions know.
LEMMA LocksKept ==
    ASSUME Locks, UNCHANGED tx, databaseNow \in Instant, databaseNow' \in Instant,
           databaseNow <= databaseNow',
           \A p \in Locked : planRow'[p] = planRow[p]
    PROVE  Locks'
  <1> SUFFICES ASSUME NEW w \in Planners, tx[w] # NoTx
               PROVE  /\ tx[w].now <= databaseNow'
                      /\ \A p \in DOMAIN tx[w].rows : planRow'[p] = planRow[p]
    BY DEF Locks
  <1>1. tx[w].now \in Int /\ tx[w].now <= databaseNow /\ databaseNow \in Int /\ databaseNow' \in Int
    BY TimesOf DEF Locks
  <1> QED  BY <1>1 DEF Locked

\* A Planner's transaction ends.
LEMMA LocksReleased ==
    ASSUME Locks, NEW w \in Planners, tx' = [tx EXCEPT ![w] = NoTx], UNCHANGED databaseNow,
           \A p \in Plans : p \notin DOMAIN tx[w].rows => planRow'[p] = planRow[p]
    PROVE  Locks'
  <1>1. tx = [v \in Planners |-> tx[v]]
    BY DEF Locks
  <1>2. tx'[w] = NoTx /\ \A v \in Planners : v # w => tx'[v] = tx[v]
    BY <1>1
  <1>3. tx' = [v \in Planners |-> tx'[v]]
    BY <1>1
  <1>4. DOMAIN NoTx.rows = {}
    BY DEF NoTx
  <1>5. ASSUME NEW v \in Planners, tx'[v] # NoTx
        PROVE  /\ tx'[v].now \in Instant /\ tx'[v].now <= databaseNow'
               /\ DOMAIN tx'[v].rows \subseteq Plans
               /\ Cardinality(DOMAIN tx'[v].rows) <= BatchSize
               /\ \A p \in DOMAIN tx'[v].rows :
                    /\ tx'[v].rows[p] = planRow'[p]
                    /\ planRow'[p].status = "active" /\ planRow'[p].next \in Instant
    <2>1. v # w /\ tx'[v] = tx[v] /\ DOMAIN tx[v].rows \cap DOMAIN tx[w].rows = {}
          /\ DOMAIN tx[v].rows \subseteq Plans
      BY <1>2, <1>5 DEF Locks
    <2>2. \A p \in DOMAIN tx[v].rows : planRow'[p] = planRow[p]
      BY <2>1
    <2> QED  BY <1>5, <2>1, <2>2 DEF Locks
  <1>6. ASSUME NEW u \in Planners, NEW v \in Planners, u # v
        PROVE  DOMAIN tx'[u].rows \cap DOMAIN tx'[v].rows = {}
    BY <1>2, <1>4, <1>6 DEF Locks
  <1> QED  BY <1>3, <1>5, <1>6 DEF Locks

-----------------------------------------------------------------------------
(* The transaction of a Planner.                                           *)

LEMMA NothingAdded == ASSUME NEW R, NEW s \in Seq(R) PROVE s \o <<>> = s
  <1>1. s \o <<>> \in Seq(R) /\ Len(s \o <<>>) = Len(s)
    OBVIOUS
  <1>2. \A i \in 1..Len(s) : (s \o <<>>)[i] = s[i]
    OBVIOUS
  <1> QED  BY <1>1, <1>2

\* The plans of a transaction that get a node, and where.
Fresh(w) == {p \in DOMAIN tx[w].rows : Results(w)[p].nodes # <<>>}
LastPlace(p) == Len(dispatches[p]) + 1

\* What the transaction writes for a plan it holds.
LEMMA ResultOf ==
    ASSUME PlanInvariant, NEW w \in Planners, tx[w] # NoTx, NEW p \in DOMAIN tx[w].rows
    PROVE  LET held == planRow[p]
               m == Results(w)[p]
               r == m.plan IN
           /\ p \in Plans /\ held.status = "active" /\ History(p, held, dispatches[p], runners[p])
           /\ RowOK(p, r) /\ r.status \in {"active", "completed"}
           /\ r.start = held.start /\ r.emitted = held.emitted /\ r.cursor >= held.cursor
           /\ \/ m.nodes = <<>> /\ r.cursor - r.skipped = held.cursor - held.skipped
              \/ \E d \in Nodes :
                    /\ m.nodes = <<d>> /\ d.state = "pending" /\ ShouldEmit(p)
                    /\ r.cursor - r.skipped = held.cursor - held.skipped + 1
                    /\ d.occurrence \in held.cursor..(r.cursor - 1)
                    /\ tx[w].now - d.due \in 0..Timing[p].grace
                    /\ IsShown(p, r.start, d.occurrence, d.due)
  <1> DEFINE held == planRow[p]
             t == tx[w].now
             m == Results(w)[p]
  <1>1. /\ p \in Plans /\ tx[w].rows[p] = held /\ held.status = "active" /\ held.next \in Instant
        /\ t \in Instant
    BY DEF PlanInvariant, Locks
  <1>2. History(p, held, dispatches[p], runners[p]) /\ RowOK(p, held)
    BY <1>1 DEF PlanInvariant, History
  <1>3. m = Materialized(p, held, t)
    BY <1>1 DEF Results
  <1> HIDE DEF held, t, m
  <1> QED  BY <1>1, <1>2, <1>3, MaterializedOf DEF held, t, m

\* The nodes after the transaction: at most one more for each plan it holds.
LEMMA WithNodesOf ==
    ASSUME PlanInvariant, NEW w \in Planners, tx[w] # NoTx, NEW p \in Plans
    PROVE  LET s == WithNodes(Results(w))[p] IN
           /\ p \notin Fresh(w) => s = dispatches[p]
           /\ p \in Fresh(w) =>
                /\ s \in Seq(Nodes) /\ DOMAIN s = 1..LastPlace(p) /\ LastPlace(p) \in Nat \ {0}
                /\ Len(s) = LastPlace(p) /\ DOMAIN dispatches[p] = 1..Len(dispatches[p])
                /\ \A i \in DOMAIN dispatches[p] : s[i] = dispatches[p][i]
                /\ Results(w)[p].nodes = <<s[LastPlace(p)]>>
                /\ s[LastPlace(p)].state = "pending" /\ s[LastPlace(p)].due <= tx[w].now
  <1> DEFINE s == WithNodes(Results(w))[p]
             m == Results(w)[p]
  <1>1. DOMAIN Results(w) = DOMAIN tx[w].rows
    BY DEF Results
  <1>2. s = IF p \in DOMAIN tx[w].rows THEN dispatches[p] \o m.nodes ELSE dispatches[p]
    BY <1>1 DEF WithNodes
  <1>3. dispatches[p] \in Seq(Nodes)
    BY DEF PlanInvariant, History
  <1>4. ASSUME p \notin Fresh(w) PROVE s = dispatches[p]
    <2>1. p \in DOMAIN tx[w].rows => m.nodes = <<>>
      BY <1>4 DEF Fresh
    <2>2. dispatches[p] \o <<>> = dispatches[p]
      BY <1>3, NothingAdded
    <2> HIDE DEF m, s
    <2> QED  BY <1>2, <2>1, <2>2
  <1>5. ASSUME p \in Fresh(w)
        PROVE  /\ s \in Seq(Nodes) /\ DOMAIN s = 1..LastPlace(p) /\ LastPlace(p) \in Nat \ {0}
               /\ Len(s) = LastPlace(p) /\ DOMAIN dispatches[p] = 1..Len(dispatches[p])
               /\ \A i \in DOMAIN dispatches[p] : s[i] = dispatches[p][i]
               /\ m.nodes = <<s[LastPlace(p)]>>
               /\ s[LastPlace(p)].state = "pending" /\ s[LastPlace(p)].due <= tx[w].now
    <2>1. p \in DOMAIN tx[w].rows /\ m.nodes # <<>>
      BY <1>5 DEF Fresh
    <2>2. PICK d \in Nodes : /\ m.nodes = <<d>> /\ d.state = "pending"
                             /\ tx[w].now - d.due \in 0..Timing[p].grace
      BY <2>1, ResultOf
    <2>3. tx[w].now \in Int /\ d.due \in Int
      BY TimesOf DEF PlanInvariant, Locks, Nodes
    <2>4. d.due <= tx[w].now
      BY <2>2, <2>3, TimingOf
    <2> HIDE DEF s, m
    <2>5. s = dispatches[p] \o <<d>>
      BY <1>2, <2>1, <2>2
    <2>6. /\ s \in Seq(Nodes) /\ Len(s) = Len(dispatches[p]) + 1 /\ Len(dispatches[p]) \in Nat
          /\ DOMAIN dispatches[p] = 1..Len(dispatches[p])
          /\ \A i \in DOMAIN dispatches[p] : s[i] = dispatches[p][i]
          /\ s[Len(dispatches[p]) + 1] = d
      BY <1>3, <2>5
    <2> QED  BY <2>2, <2>4, <2>6 DEF LastPlace
  <1> QED  BY <1>4, <1>5

\* No node was pending, so the second SELECT finds the new ones, no more than its
\* LIMIT, and the transaction emits them all.
LEMMA PendingOf ==
    ASSUME PlanInvariant, NEW w \in Planners, tx[w] # NoTx
    PROVE  LET found == Pending(WithNodes(Results(w)), tx[w].now) IN
           /\ found = {<<p, LastPlace(p)>> : p \in Fresh(w)}
           /\ IsFiniteSet(found) /\ Cardinality(found) \in Nat
           /\ Cardinality(found) <= BatchSize
  <1> DEFINE ds == WithNodes(Results(w))
             pend == Pending(ds, tx[w].now)
             D == DOMAIN tx[w].rows
             F == {<<p, LastPlace(p)>> : p \in Fresh(w)}
  <1>0. D \subseteq Plans /\ Fresh(w) \subseteq D /\ DOMAIN ds = Plans
    BY DEF PlanInvariant, Locks, Fresh, WithNodes
  <1>1. \A p \in Plans : p \notin Fresh(w) => ds[p] = dispatches[p]
    BY WithNodesOf
  <1>2. \A p \in Fresh(w) :
            /\ DOMAIN ds[p] = 1..LastPlace(p) /\ LastPlace(p) \in Nat \ {0}
            /\ DOMAIN dispatches[p] = 1..Len(dispatches[p])
            /\ \A i \in DOMAIN dispatches[p] : ds[p][i] = dispatches[p][i]
            /\ ds[p][LastPlace(p)].state = "pending" /\ ds[p][LastPlace(p)].due <= tx[w].now
    BY <1>0, WithNodesOf
  <1>3. \A p \in Plans : \A i \in DOMAIN dispatches[p] : dispatches[p][i].state # "pending"
    BY DEF PlanInvariant, History
  <1> HIDE DEF ds
  <1>4. ASSUME NEW d \in pend PROVE d \in F
    <2>1. PICK p \in Plans : d \in {p} \X DOMAIN ds[p]
      BY DEF Pending, Places
    <2>2. d[1] = p /\ d[2] \in DOMAIN ds[p] /\ d = <<p, d[2]>> /\ ds[p][d[2]].state = "pending"
      BY <2>1 DEF Pending
    <2>3. p \in Fresh(w)
      BY <1>1, <1>3, <2>2
    <2>4. d[2] \notin DOMAIN dispatches[p]
      BY <1>2, <1>3, <2>2, <2>3
    <2>5. d[2] = LastPlace(p)
      BY <1>2, <2>2, <2>3, <2>4 DEF LastPlace
    <2> QED  BY <2>2, <2>3, <2>5
  <1>5. ASSUME NEW p \in Fresh(w) PROVE <<p, LastPlace(p)>> \in pend
    <2>1. p \in Plans /\ LastPlace(p) \in DOMAIN ds[p]
      BY <1>0, <1>2
    <2>2. <<p, LastPlace(p)>> \in Places(ds)
      BY <2>1 DEF Places
    <2> QED  BY <1>2, <2>2 DEF Pending
  <1>6. pend = F
    BY <1>4, <1>5
  <1> HIDE DEF pend
  <1>7. IsFiniteSet(D) /\ Cardinality(D) \in Nat /\ Cardinality(D) <= BatchSize
    <2>1. IsFiniteSet(D)
      BY <1>0, PlanAssumption, FS_Subset
    <2> QED  BY <2>1, FS_CardinalityType DEF PlanInvariant, Locks
  <1>8. IsFiniteSet(Fresh(w)) /\ Cardinality(Fresh(w)) <= Cardinality(D)
        /\ Cardinality(Fresh(w)) \in Nat
    BY <1>0, <1>7, FS_Subset, FS_CardinalityType
  <1>9. IsFiniteSet(F) /\ Cardinality(F) <= Cardinality(Fresh(w))
    <2> DEFINE g == [p \in Fresh(w) |-> <<p, LastPlace(p)>>]
    <2>1. g \in Surjection(Fresh(w), F)
      BY DEF Surjection
    <2> HIDE DEF g, F
    <2> QED  BY <1>8, <2>1, FS_Surjection
  <1>10. Cardinality(F) \in Nat
    <2> HIDE DEF F
    <2> QED  BY <1>9, FS_CardinalityType
  <1>11. Cardinality(F) <= BatchSize
    <2> HIDE DEF F, D
    <2> QED  BY <1>7, <1>8, <1>9, <1>10, PlanAssumption
  <1> QED  BY <1>6, <1>9, <1>10, <1>11 DEF pend, ds

\* One of one.
LEMMA NthOfOne == ASSUME NEW i \in Nat PROVE Nth({i}, 1) = i
  <1>1. {j \in {i} : j <= i} = {i}
    OBVIOUS
  <1>2. Cardinality({j \in {i} : j <= i}) = 1
    BY <1>1, FS_Singleton
  <1> QED  BY <1>2 DEF Nth

\* The Runners that become of the nodes of a plan: none, or one.
LEMMA NoNewRunner ==
    ASSUME NEW p, NEW nodes, NEW es, NEW t, EmittedIn(p, nodes, es) = {}
    PROVE  Cardinality(EmittedIn(p, nodes, es)) = 0 /\ NewRunners(p, nodes, es, t) = <<>>
  <1> DEFINE S == EmittedIn(p, nodes, es)
  <1>1. NewRunners(p, nodes, es, t) = [k \in 1..Cardinality(S) |-> QueuedRunner(nodes[Nth(S, k)], t)]
    BY DEF NewRunners
  <1>2. Cardinality(S) = 0
    BY FS_EmptySet
  <1> HIDE DEF S
  <1>3. [k \in 1..0 |-> QueuedRunner(nodes[Nth(S, k)], t)] = <<>>
    BY 1..0 = {}
  <1> QED  BY <1>1, <1>2, <1>3 DEF S

LEMMA OneNewRunner ==
    ASSUME NEW p, NEW nodes, NEW es, NEW t, NEW i \in Nat, EmittedIn(p, nodes, es) = {i}
    PROVE  /\ Cardinality(EmittedIn(p, nodes, es)) = 1
           /\ NewRunners(p, nodes, es, t) = <<QueuedRunner(nodes[i], t)>>
  <1> DEFINE S == EmittedIn(p, nodes, es)
  <1>1. NewRunners(p, nodes, es, t) = [k \in 1..Cardinality(S) |-> QueuedRunner(nodes[Nth(S, k)], t)]
    BY DEF NewRunners
  <1>2. Cardinality(S) = 1 /\ Nth(S, 1) = i
    BY FS_Singleton, NthOfOne
  <1> HIDE DEF S
  <1>3. [k \in 1..1 |-> QueuedRunner(nodes[Nth(S, k)], t)] = <<QueuedRunner(nodes[i], t)>>
    BY <1>2, 1..1 = {1}
  <1> QED  BY <1>1, <1>2, <1>3 DEF S

\* A transaction writes nothing of a plan it does not hold.
LEMMA UnheldUntouched ==
    ASSUME PlanInvariant, NEW w \in Planners, Materialize(w),
           NEW p \in Plans, p \notin DOMAIN tx[w].rows
    PROVE  planRow'[p] = planRow[p] /\ runners'[p] = runners[p]
  <1> DEFINE t == tx[w].now
             ds == WithNodes(Results(w))
             found == Pending(ds, t)
  <1>1. tx[w] # NoTx
    BY DEF Materialize
  <1>2. found = {<<q, LastPlace(q)>> : q \in Fresh(w)} /\ p \notin Fresh(w)
    BY <1>1, PendingOf DEF Fresh
  <1>3. p \notin DOMAIN Results(w)
    BY DEF Results
  <1>4. PICK es \in SUBSET found :
            /\ runners' = [q \in Plans |-> runners[q] \o NewRunners(q, ds[q], es, t)]
            /\ planRow' = [q \in Plans |->
                    LET r == IF q \in DOMAIN Results(w) THEN Results(w)[q].plan ELSE planRow[q]
                    IN [r EXCEPT !.emitted = @ + Cardinality(EmittedIn(q, ds[q], es))]]
    BY DEF Materialize
  <1> HIDE DEF ds, found, t
  <1>5. EmittedIn(p, ds[p], es) = {}
    BY <1>2, <1>4 DEF EmittedIn
  <1>6. Cardinality(EmittedIn(p, ds[p], es)) = 0 /\ NewRunners(p, ds[p], es, t) = <<>>
    BY <1>5, NoNewRunner
  <1>7. runners[p] \in Seq(RunnerRows) /\ planRow[p] \in PlanRows
    BY DEF PlanInvariant, History
  <1>8. runners'[p] = runners[p]
    <2>1. runners[p] \o <<>> = runners[p]
      BY <1>7, NothingAdded
    <2> QED  BY <1>4, <1>6, <2>1
  <1>9. planRow'[p] = planRow[p]
    <2>1. planRow'[p] = [planRow[p] EXCEPT !.emitted = @ + 0]
      BY <1>3, <1>4, <1>6
    <2> QED  BY <1>7, <2>1 DEF PlanRows
  <1> QED  BY <1>8, <1>9

\* The writes of a Planner keep the history of every plan.
LEMMA MaterializeKeeps ==
    ASSUME PlanInvariant, NEW w \in Planners, Materialize(w)
    PROVE  PlanInvariant'
  <1> DEFINE t == tx[w].now
             result == Results(w)
             ds == WithNodes(result)
             found == Pending(ds, t)
             D == DOMAIN tx[w].rows
  <1>0. tx[w] # NoTx /\ tx' = [tx EXCEPT ![w] = NoTx]
        /\ UNCHANGED <<databaseNow, cancel, stopped, rollbacks>>
    BY DEF Materialize
  <1>1. /\ found = {<<p, LastPlace(p)>> : p \in Fresh(w)}
        /\ IsFiniteSet(found) /\ Cardinality(found) \in Nat
        /\ Cardinality(found) <= BatchSize
    BY <1>0, PendingOf
  <1>2. PICK es \in SUBSET found :
            /\ Cardinality(es) = Min({BatchSize, Cardinality(found)})
            /\ dispatches' = [p \in Plans |-> [i \in DOMAIN ds[p] |->
                    IF <<p, i>> \in es THEN [ds[p][i] EXCEPT !.state = "emitted"]
                    ELSE ds[p][i]]]
            /\ runners' = [p \in Plans |-> runners[p] \o NewRunners(p, ds[p], es, t)]
            /\ planRow' = [p \in Plans |->
                    LET r == IF p \in DOMAIN result THEN result[p].plan ELSE planRow[p]
                    IN [r EXCEPT !.emitted = @ + Cardinality(EmittedIn(p, ds[p], es))]]
    BY DEF Materialize, EmissionLimit
  <1>3. DOMAIN result = D /\ D \subseteq Plans /\ Fresh(w) \subseteq D
    BY <1>0 DEF Results, PlanInvariant, Locks, Fresh
  <1> HIDE DEF ds, found, result
  <1>4. es = found
    <2>1. Min({BatchSize, Cardinality(found)}) = Cardinality(found)
      BY <1>1, LeastOfTwo, PlanAssumption
    <2> QED  BY <1>1, <1>2, <2>1, FS_Subset
  <1>5. \A p \in Plans, i \in Nat : <<p, i>> \in es <=> p \in Fresh(w) /\ i = LastPlace(p)
    BY <1>1, <1>4
  <1>6. \A p \in Plans : /\ dispatches[p] \in Seq(Nodes) /\ runners[p] \in Seq(RunnerRows)
                         /\ planRow[p] \in PlanRows
                         /\ History(p, planRow[p], dispatches[p], runners[p])
    BY DEF PlanInvariant, History
  <1>7. ASSUME NEW p \in Plans, p \notin Fresh(w)
        PROVE  /\ History(p, planRow'[p], dispatches'[p], runners'[p])
               /\ p \notin D => planRow'[p] = planRow[p]
    <2>1. ds[p] = dispatches[p]
      BY <1>0, <1>7, WithNodesOf DEF ds, result
    <2>2. \A i \in DOMAIN ds[p] : i \in Nat /\ <<p, i>> \notin es
      BY <1>5, <1>6, <1>7, <2>1
    <2>3. EmittedIn(p, ds[p], es) = {}
      BY <2>2 DEF EmittedIn
    <2>4. dispatches'[p] = dispatches[p]
      <3>1. dispatches'[p] = [i \in DOMAIN ds[p] |-> ds[p][i]]
        BY <1>2, <2>2
      <3> QED  BY <1>6, <2>1, <3>1
    <2>5. Cardinality(EmittedIn(p, ds[p], es)) = 0 /\ NewRunners(p, ds[p], es, t) = <<>>
      BY <2>3, NoNewRunner
    <2>6. runners'[p] = runners[p]
      <3>1. runners[p] \o <<>> = runners[p]
        BY <1>6, NothingAdded
      <3> QED  BY <1>2, <2>5, <3>1
    <2>7. CASE p \notin D
      <3>1. planRow'[p] = [planRow[p] EXCEPT !.emitted = @ + 0]
        BY <1>2, <1>3, <2>5, <2>7
      <3>2. planRow'[p] = planRow[p]
        BY <1>6, <3>1 DEF PlanRows
      <3> QED  BY <1>6, <2>4, <2>6, <3>2
    <2>8. CASE p \in D
      <3> DEFINE r == result[p].plan
      <3>1. planRow'[p] = [r EXCEPT !.emitted = @ + 0]
        BY <1>2, <1>3, <2>5, <2>8
      <3>2. result[p].nodes = <<>>
        BY <1>7, <2>8 DEF Fresh, result
      <3>3. /\ planRow[p].status = "active" /\ RowOK(p, r) /\ r.status \in {"active", "completed"}
            /\ r.start = planRow[p].start /\ r.emitted = planRow[p].emitted
            /\ r.cursor >= planRow[p].cursor
            /\ r.cursor - r.skipped = planRow[p].cursor - planRow[p].skipped
        <4>1. ~\E d \in Nodes : result[p].nodes = <<d>>
          BY <3>2
        <4> HIDE DEF r
        <4> QED  BY <1>0, <2>8, <4>1, ResultOf DEF result, r
      <3> HIDE DEF r
      <3>4. planRow'[p] = r
        BY <3>1, <3>3 DEF RowOK, PlanRows
      <3>5. History(p, r, dispatches[p], runners[p])
        BY <1>6, <3>3, MovedOn
      <3> QED  BY <2>4, <2>6, <2>8, <3>4, <3>5
    <2> QED  BY <2>7, <2>8
  <1>8. ASSUME NEW p \in Fresh(w)
        PROVE  History(p, planRow'[p], dispatches'[p], runners'[p])
    <2> DEFINE n == LastPlace(p)
               s == ds[p]
               held == planRow[p]
               r == result[p].plan
               q == [r EXCEPT !.emitted = @ + 1]
               item == s[n]
               new == dispatches'[p]
               x == QueuedRunner(item, t)
    <2>0. p \in Plans /\ p \in D
      BY <1>3
    <2>1. /\ s \in Seq(Nodes) /\ DOMAIN s = 1..n /\ n \in Nat \ {0} /\ Len(s) = n
          /\ DOMAIN dispatches[p] = 1..Len(dispatches[p])
          /\ \A i \in DOMAIN dispatches[p] : s[i] = dispatches[p][i]
          /\ result[p].nodes = <<item>>
      BY <1>0, <2>0, WithNodesOf DEF ds, result
    <2>2. /\ held.status = "active" /\ RowOK(p, r) /\ r.status \in {"active", "completed"}
          /\ r.start = held.start /\ r.emitted = held.emitted /\ r.cursor >= held.cursor
          /\ ShouldEmit(p)
          /\ r.cursor - r.skipped = held.cursor - held.skipped + 1
          /\ item.occurrence \in held.cursor..(r.cursor - 1)
          /\ t - item.due \in 0..Timing[p].grace
          /\ IsShown(p, r.start, item.occurrence, item.due)
      <3>1. PICK d \in Nodes :
                    /\ result[p].nodes = <<d>> /\ ShouldEmit(p)
                    /\ r.cursor - r.skipped = held.cursor - held.skipped + 1
                    /\ d.occurrence \in held.cursor..(r.cursor - 1)
                    /\ t - d.due \in 0..Timing[p].grace
                    /\ IsShown(p, r.start, d.occurrence, d.due)
        BY <1>0, <1>8, <2>0, ResultOf DEF Fresh, result
      <3>2. d = item
        BY <2>1, <3>1
      <3>3. /\ held.status = "active" /\ RowOK(p, r) /\ r.status \in {"active", "completed"}
            /\ r.start = held.start /\ r.emitted = held.emitted /\ r.cursor >= held.cursor
        BY <1>0, <2>0, ResultOf DEF result
      <3> QED  BY <3>1, <3>2, <3>3
    <2>3. \A i \in DOMAIN s : i \in Nat /\ (<<p, i>> \in es <=> i = n)
      BY <1>5, <1>8, <2>0, <2>1
    <2>4. EmittedIn(p, s, es) = {n}
      BY <2>1, <2>3 DEF EmittedIn
    <2>5. Cardinality(EmittedIn(p, s, es)) = 1 /\ NewRunners(p, s, es, t) = <<x>>
      <3> HIDE DEF n, s
      <3>1. n \in Nat
        BY <2>1
      <3> QED  BY <2>4, <3>1, OneNewRunner
    <2>6. planRow'[p] = q
      BY <1>2, <1>3, <2>0, <2>5
    <2>7. runners'[p] = Append(runners[p], x)
      <3>1. runners'[p] = runners[p] \o <<x>>
        BY <1>2, <2>0, <2>5
      <3> HIDE DEF x
      <3>2. runners[p] \o <<x>> = Append(runners[p], x)
        BY <1>6, <2>0
      <3> QED  BY <3>1, <3>2
    <2> HIDE DEF r
    <2>8. /\ RowOK(p, q) /\ q.status # "absent" /\ q.start = held.start
          /\ q.emitted = held.emitted + 1 /\ q.cursor = r.cursor /\ q.skipped = r.skipped
      <3>1. r \in PlanRows
        BY <2>2 DEF RowOK
      <3>2. /\ q \in PlanRows /\ q.status = r.status /\ q.start = r.start /\ q.next = r.next
            /\ q.emitted = r.emitted + 1 /\ q.cursor = r.cursor /\ q.skipped = r.skipped
        BY <3>1 DEF PlanRows
      <3> HIDE DEF q
      <3>3. RowOK(p, q)
        BY <2>2, <3>2 DEF RowOK
      <3> QED  BY <2>2, <3>2, <3>3
    <2> HIDE DEF q
    <2>9. new \in Seq(Nodes) /\ Len(new) = Len(dispatches[p]) + 1
          /\ \A i \in DOMAIN new : new[i].state # "pending"
      <3>1. new = [i \in 1..n |-> IF i = n THEN [s[i] EXCEPT !.state = "emitted"] ELSE s[i]]
        BY <1>2, <2>0, <2>1, <2>3
      <3>2. \A i \in 1..n : s[i] \in Nodes
        BY <2>1
      <3>3. \A i \in 1..n : i # n => s[i].state # "pending"
        <4> SUFFICES ASSUME NEW i \in 1..n, i # n PROVE s[i].state # "pending"
          OBVIOUS
        <4>1. i \in DOMAIN dispatches[p]
          BY <1>6, <2>0, <2>1 DEF LastPlace
        <4>2. dispatches[p][i].state # "pending"
          BY <1>6, <2>0, <4>1 DEF History
        <4> QED  BY <2>1, <4>1, <4>2
      <3>4. \A i \in 1..n : /\ [s[i] EXCEPT !.state = "emitted"] \in Nodes
                            /\ [s[i] EXCEPT !.state = "emitted"].state = "emitted"
        BY <3>2 DEF Nodes
      <3> HIDE DEF new, s, n
      <3>5. \A i \in 1..n : new[i] \in Nodes /\ new[i].state # "pending"
        BY <3>1, <3>2, <3>3, <3>4
      <3>6. n \in Nat /\ new \in Seq(Nodes) /\ Len(new) = n /\ DOMAIN new = 1..n
        <4>1. new \in [1..n -> Nodes] /\ n \in Nat
          BY <2>1, <3>1, <3>5
        <4> QED  BY <4>1
      <3> QED  BY <3>5, <3>6 DEF n, LastPlace
    <2> HIDE DEF new
    <2>10. /\ x \in RunnerRows /\ x.occurrence = item.occurrence /\ x.due = item.due /\ x.at = t
           /\ x.status = "queued"
      <3>1. item \in Nodes
        BY <2>1
      <3>2. t \in Instant
        BY <1>0 DEF PlanInvariant, Locks
      <3> QED  BY <3>1, <3>2 DEF QueuedRunner, Nodes, RunnerRows, RunnerStatuses, Active
    <2> HIDE DEF x, item
    <2>11. Timing[p].overlap = "skip" => \A i \in DOMAIN runners[p] : runners[p][i].status \notin Active
      BY <2>2 DEF ShouldEmit, ActiveRunners
    <2>12. /\ q.cursor >= held.cursor /\ q.cursor - q.skipped = held.cursor - held.skipped + 1
           /\ x.occurrence \in held.cursor..(q.cursor - 1) /\ x.at - x.due \in 0..Timing[p].grace
           /\ IsShown(p, q.start, x.occurrence, x.due)
      BY <2>2, <2>8, <2>10
    <2>13. History(p, q, new, Append(runners[p], x))
      BY <1>6, <2>0, <2>2, <2>8, <2>9, <2>10, <2>11, <2>12, MovedOnAndEmitted
    <2> QED  BY <2>6, <2>7, <2>13 DEF new
  <1>9. \A p \in Plans : History(p, planRow'[p], dispatches'[p], runners'[p])
    BY <1>7, <1>8
  <1>10. Locks'
    <2>1. \A p \in Plans : p \notin D => planRow'[p] = planRow[p]
      BY <1>3, <1>7
    <2> QED  BY <1>0, <2>1, LocksReleased DEF PlanInvariant
  <1>11. /\ planRow' = [p \in Plans |-> planRow'[p]]
         /\ dispatches' = [p \in Plans |-> dispatches'[p]]
         /\ runners' = [p \in Plans |-> runners'[p]]
    BY <1>2
  <1> QED  BY <1>0, <1>9, <1>10, <1>11 DEF PlanInvariant

-----------------------------------------------------------------------------
(* Every step.                                                             *)

LEMMA PlanInit == ASSUME Init PROVE PlanInvariant
  <1>1. Locks
    BY DEF Init, Locks, NoTx
  <1>2. Absent \in PlanRows /\ Absent.status = "absent"
        /\ Absent.cursor = Absent.skipped + 0 /\ Absent.emitted = 0
    BY DEF Absent, PlanRows, PlanStatuses
  <1>3. ASSUME NEW p PROVE History(p, Absent, <<>>, <<>>)
    <2>1. <<>> \in Seq(Nodes) /\ <<>> \in Seq(RunnerRows) /\ Len(<<>>) = 0 /\ DOMAIN <<>> = {}
      OBVIOUS
    <2> QED  BY <1>2, <2>1 DEF History
  <1> QED
    BY <1>1, <1>3, TimesOf, PlanAssumption DEF Init, PlanInvariant

\* A step that moves plans nobody holds, and no time.
LEMMA RowsChange ==
    ASSUME PlanInvariant, UNCHANGED <<databaseNow, rollbacks, tx>>, stopped' \subseteq Plans,
           planRow' = [p \in Plans |-> planRow'[p]],
           dispatches' = [p \in Plans |-> dispatches'[p]],
           runners' = [p \in Plans |-> runners'[p]],
           cancel' \in [stage : {"idle", "runners", "done"}, seen : SUBSET (Plans \X Nat)],
           \A p \in Locked : planRow'[p] = planRow[p],
           \A p \in Plans : History(p, planRow'[p], dispatches'[p], runners'[p])
    PROVE  PlanInvariant'
  <1>1. databaseNow \in Int
    BY TimesOf DEF PlanInvariant
  <1>2. Locks'
    BY <1>1, LocksKept DEF PlanInvariant
  <1> QED  BY <1>2 DEF PlanInvariant

LEMMA CreateKeeps ==
    ASSUME PlanInvariant, NEW p \in Plans, CreatePlan(p)
    PROVE  PlanInvariant'
  <1> DEFINE start == IF Immediate(p) THEN databaseNow ELSE Timing[p].startsAt
             first == FirstFire(Timing[p].recurrence, start, Immediate(p))
             ended == first > Timing[p].endsAt
             old == planRow[p]
             r == [old EXCEPT !.status = IF ended THEN "completed" ELSE "active",
                              !.start = start, !.next = IF ended THEN NoTime ELSE first]
  <1>1. /\ old.status = "absent" /\ planRow' = [planRow EXCEPT ![p] = r]
        /\ UNCHANGED <<databaseNow, dispatches, runners, tx, cancel, stopped, rollbacks>>
    BY DEF CreatePlan
  <1>2. start \in Instant
    BY TimingOf DEF PlanInvariant
  <1>3. /\ first \in Instant \cup {Never}
        /\ ended => Len(Shown(p, start)) = 0
        /\ ~ended /\ first \in Instant => IsShown(p, start, 0, first)
    BY <1>2, FirstRow
  <1>4. History(p, old, dispatches[p], runners[p])
    BY DEF PlanInvariant
  <1> HIDE DEF start, first, ended
  <1>5. /\ old \in PlanRows /\ old = Absent /\ old.cursor = 0 /\ old.emitted = 0
        /\ runners[p] \in Seq(RunnerRows) /\ Len(runners[p]) = 0
    BY <1>1, <1>4 DEF History, Absent
  <1>6. DOMAIN runners[p] = {}
    BY <1>5
  <1>7. /\ r \in PlanRows /\ r.start = start /\ r.cursor = 0 /\ r.skipped = old.skipped
        /\ r.emitted = 0 /\ r.status = (IF ended THEN "completed" ELSE "active")
        /\ r.next = (IF ended THEN NoTime ELSE first)
    <2> DEFINE st == IF ended THEN "completed" ELSE "active"
               nx == IF ended THEN NoTime ELSE first
    <2>1. st \in PlanStatuses /\ nx \in Instant \cup {NoTime, Never}
      BY <1>3 DEF PlanStatuses
    <2>2. r = [old EXCEPT !.status = st, !.start = start, !.next = nx]
      OBVIOUS
    <2> HIDE DEF st, nx, r
    <2>3. /\ r \in PlanRows /\ r.start = start /\ r.cursor = old.cursor /\ r.skipped = old.skipped
          /\ r.emitted = old.emitted /\ r.status = st /\ r.next = nx
      BY <1>2, <1>5, <2>1, <2>2 DEF PlanRows
    <2> QED  BY <1>5, <2>3 DEF st, nx, r
  <1> HIDE DEF r
  <1>8. RowOK(p, r)
    BY <1>2, <1>3, <1>7, TimesOf DEF RowOK
  <1>9. History(p, r, dispatches[p], runners[p])
    BY <1>4, <1>5, <1>6, <1>7, <1>8 DEF History
  <1>10. planRow = [q \in Plans |-> planRow[q]]
    BY DEF PlanInvariant
  <1>11. planRow'[p] = r /\ \A q \in Plans : q # p => planRow'[q] = planRow[q]
    BY <1>1, <1>10
  <1>12. p \notin Locked
    <2> SUFFICES ASSUME NEW w \in Planners, p \in DOMAIN tx[w].rows PROVE FALSE
      BY DEF Locked
    <2>1. tx[w] # NoTx
      BY DEF NoTx
    <2> QED  BY <1>1, <2>1 DEF PlanInvariant, Locks
  <1>13. Locked \subseteq Plans
    BY DEF PlanInvariant, Locks, Locked, NoTx
  <1>14. \A q \in Plans : History(q, planRow'[q], dispatches'[q], runners'[q])
    BY <1>1, <1>9, <1>11 DEF PlanInvariant
  <1>15. planRow' = [q \in Plans |-> planRow'[q]]
    BY <1>1, <1>10
  <1>16. \A q \in Locked : planRow'[q] = planRow[q]
    BY <1>11, <1>12, <1>13
  <1> QED  BY <1>1, <1>14, <1>15, <1>16, RowsChange DEF PlanInvariant

LEMMA ChangeKeeps ==
    ASSUME PlanInvariant, NEW p \in Plans,
           \/ PausePlan(p) \/ ResumePlan(p) \/ CancelPlan(p)
    PROVE  PlanInvariant'
  <1>1. PICK x \in {"active", "paused", "cancelled"} :
            planRow' = [planRow EXCEPT ![p].status = x]
    BY DEF PausePlan, ResumePlan, CancelPlan
  <1>2. /\ planRow[p].status \in {"active", "paused"} /\ p \notin Locked
        /\ UNCHANGED <<databaseNow, runners, tx, cancel, stopped, rollbacks>>
    BY DEF PausePlan, ResumePlan, CancelPlan
  <1>3. /\ planRow = [q \in Plans |-> planRow[q]] /\ dispatches = [q \in Plans |-> dispatches[q]]
        /\ \A q \in Plans : History(q, planRow[q], dispatches[q], runners[q])
        /\ Locked \subseteq Plans
    BY DEF PlanInvariant, Locks, Locked, NoTx
  <1>4. dispatches' = dispatches
    <2>1. CancelledNodes(dispatches[p]) = dispatches[p]
      BY <1>3, NoneCancelled
    <2>2. CASE UNCHANGED dispatches
      BY <2>2
    <2>3. CASE dispatches' = [dispatches EXCEPT ![p] = CancelledNodes(@)]
      BY <1>3, <2>1, <2>3
    <2> QED  BY <2>2, <2>3 DEF PausePlan, ResumePlan, CancelPlan
  <1>5. /\ planRow'[p] = [planRow[p] EXCEPT !.status = x]
        /\ \A q \in Plans : q # p => planRow'[q] = planRow[q]
        /\ planRow' = [q \in Plans |-> planRow'[q]]
    BY <1>1, <1>3
  <1>6. History(p, planRow'[p], dispatches[p], runners[p])
    BY <1>2, <1>3, <1>5, StatusKeeps
  <1>7. \A q \in Plans : History(q, planRow'[q], dispatches'[q], runners'[q])
    BY <1>2, <1>3, <1>4, <1>5, <1>6
  <1>8. \A q \in Locked : planRow'[q] = planRow[q]
    BY <1>2, <1>3, <1>5
  <1> QED  BY <1>2, <1>4, <1>5, <1>7, <1>8, RowsChange DEF PlanInvariant

\* The SELECT of due plans takes rows that no other Planner holds.
LEMMA LockKeeps ==
    ASSUME PlanInvariant, NEW w \in Planners, LockDuePlans(w)
    PROVE  PlanInvariant'
  <1>1. PICK ps \in SUBSET Claimable :
            /\ Cardinality(ps) = Min({BatchSize, Cardinality(Claimable)})
            /\ tx' = [tx EXCEPT ![w] = [now |-> databaseNow, rows |-> [p \in ps |-> planRow[p]]]]
    BY DEF LockDuePlans
  <1>2. UNCHANGED <<databaseNow, planRow, dispatches, runners, cancel, stopped, rollbacks>>
    BY DEF LockDuePlans
  <1>3. /\ ps \subseteq Plans /\ ps \cap Locked = {}
        /\ \A p \in ps : planRow[p].status = "active" /\ planRow[p].next <= databaseNow
    BY DEF Claimable, Due
  <1>4. \A p \in ps : planRow[p].next \in Instant
    <2> SUFFICES ASSUME NEW p \in ps PROVE planRow[p].next \in Instant
      OBVIOUS
    <2>1. planRow[p] \in PlanRows /\ RowOK(p, planRow[p])
      BY <1>3 DEF PlanInvariant, History
    <2>2. planRow[p].next \in Instant \cup {NoTime, Never} /\ planRow[p].next # NoTime
      BY <1>3, <2>1 DEF RowOK, PlanRows
    <2>3. databaseNow \in Instant
      BY DEF PlanInvariant
    <2> QED  BY <1>3, <2>2, <2>3, TimesOf
  <1>5. Cardinality(ps) <= BatchSize
    <2>1. IsFiniteSet(Claimable)
      BY PlanAssumption, FS_Subset, Claimable \subseteq Plans DEF Claimable
    <2>2. Cardinality(Claimable) \in Nat
      BY <2>1, FS_CardinalityType
    <2>3. Min({BatchSize, Cardinality(Claimable)}) <= BatchSize
      BY <2>2, LeastOfTwo, PlanAssumption
    <2> QED  BY <1>1, <2>3
  <1> DEFINE new == [now |-> databaseNow, rows |-> [p \in ps |-> planRow[p]]]
  <1>6. /\ new.now = databaseNow /\ DOMAIN new.rows = ps
        /\ \A p \in ps : new.rows[p] = planRow[p]
    OBVIOUS
  <1> HIDE DEF new
  <1>7. tx = [v \in Planners |-> tx[v]]
    BY DEF PlanInvariant, Locks
  <1>8. tx'[w] = new /\ (\A v \in Planners : v # w => tx'[v] = tx[v])
        /\ tx' = [v \in Planners |-> tx'[v]]
    BY <1>1, <1>7 DEF new
  <1>9. databaseNow \in Instant /\ databaseNow <= databaseNow
    BY TimesOf DEF PlanInvariant
  <1>10. ASSUME NEW v \in Planners, tx'[v] # NoTx
         PROVE  /\ tx'[v].now \in Instant /\ tx'[v].now <= databaseNow
                /\ DOMAIN tx'[v].rows \subseteq Plans
                /\ Cardinality(DOMAIN tx'[v].rows) <= BatchSize
                /\ \A p \in DOMAIN tx'[v].rows :
                    /\ tx'[v].rows[p] = planRow[p]
                    /\ planRow[p].status = "active" /\ planRow[p].next \in Instant
    <2>1. CASE v = w
      BY <1>3, <1>4, <1>5, <1>6, <1>8, <1>9, <2>1
    <2>2. CASE v # w
      BY <1>8, <1>10, <2>2 DEF PlanInvariant, Locks
    <2> QED  BY <2>1, <2>2
  <1>11. ASSUME NEW u \in Planners, NEW v \in Planners, u # v
         PROVE  DOMAIN tx'[u].rows \cap DOMAIN tx'[v].rows = {}
    <2>1. \A z \in Planners : DOMAIN tx[z].rows \cap ps = {}
      BY <1>3 DEF Locked
    <2>2. DOMAIN tx[u].rows \cap DOMAIN tx[v].rows = {}
      BY <1>11 DEF PlanInvariant, Locks
    <2>3. CASE u = w
      BY <1>6, <1>8, <1>11, <2>1, <2>3
    <2>4. CASE v = w
      BY <1>6, <1>8, <1>11, <2>1, <2>4
    <2>5. CASE u # w /\ v # w
      BY <1>8, <2>2, <2>5
    <2> QED  BY <2>3, <2>4, <2>5
  <1>12. Locks'
    BY <1>2, <1>8, <1>10, <1>11 DEF Locks
  <1> QED  BY <1>2, <1>12 DEF PlanInvariant

LEMMA FailKeeps ==
    ASSUME PlanInvariant, NEW w \in Planners, MaterializeFails(w)
    PROVE  PlanInvariant'
  <1>1. /\ tx' = [tx EXCEPT ![w] = NoTx] /\ rollbacks < MaxRollbacks /\ rollbacks' = rollbacks + 1
        /\ UNCHANGED <<databaseNow, planRow, dispatches, runners, cancel, stopped>>
    BY DEF MaterializeFails
  <1>2. Locks'
    BY <1>1, LocksReleased DEF PlanInvariant
  <1>3. rollbacks' \in 0..MaxRollbacks
    BY <1>1, PlanAssumption DEF PlanInvariant
  <1> QED  BY <1>1, <1>2, <1>3 DEF PlanInvariant

\* A Runner starts or ends.
LEMMA RunnerKeeps ==
    ASSUME PlanInvariant, NEW p \in Plans, NEW i \in DOMAIN runners[p],
           StartRunner(p, i) \/ EndRunner(p, i)
    PROVE  PlanInvariant'
  <1>1. PICK x \in {"running", "ended"} : runners' = [runners EXCEPT ![p][i].status = x]
    BY DEF StartRunner, EndRunner
  <1>2. /\ runners[p][i].status \in Active
        /\ UNCHANGED <<databaseNow, planRow, dispatches, tx, cancel, stopped, rollbacks>>
    BY DEF StartRunner, EndRunner, Active
  <1>3. /\ runners = [q \in Plans |-> runners[q]]
        /\ \A q \in Plans : History(q, planRow[q], dispatches[q], runners[q])
    BY DEF PlanInvariant
  <1> DEFINE rs == runners[p]
             y == [rs[i] EXCEPT !.status = x]
             qs == [rs EXCEPT ![i] = y]
  <1>4. runners'[p] = qs /\ \A q \in Plans : q # p => runners'[q] = runners[q]
    BY <1>1, <1>3
  <1>5. rs \in Seq(RunnerRows) /\ rs[i] \in RunnerRows
    BY <1>3 DEF History
  <1>6. /\ y \in RunnerRows /\ y.occurrence = rs[i].occurrence /\ y.due = rs[i].due
        /\ y.at = rs[i].at
    BY <1>5 DEF RunnerRows, RunnerStatuses, Active
  <1> HIDE DEF y
  <1>7. qs \in Seq(RunnerRows) /\ Len(qs) = Len(rs) /\ qs[i] = y
        /\ \A j \in DOMAIN rs : j # i => qs[j] = rs[j]
    BY <1>5, <1>6
  <1> HIDE DEF qs
  <1>8. History(p, planRow[p], dispatches[p], qs)
    BY <1>2, <1>3, <1>6, <1>7, RunnersGoOn
  <1>9. \A q \in Plans : History(q, planRow'[q], dispatches'[q], runners'[q])
    BY <1>2, <1>3, <1>4, <1>8
  <1>10. runners' = [q \in Plans |-> runners'[q]]
    BY <1>1, <1>3
  <1> QED  BY <1>2, <1>9, <1>10, RowsChange DEF PlanInvariant

LEMMA CancelCampaignKeeps ==
    ASSUME PlanInvariant, CancelCampaign
    PROVE  PlanInvariant'
  <1>1. /\ Locked = {}
        /\ planRow' = [p \in Plans |-> IF planRow[p].status \in {"active", "paused"}
                                THEN [planRow[p] EXCEPT !.status = "cancelled"] ELSE planRow[p]]
        /\ dispatches' = [p \in Plans |-> CancelledNodes(dispatches[p])]
        /\ runners' = [p \in Plans |-> [i \in DOMAIN runners[p] |->
                IF <<p, i>> \in cancel.seen THEN Cancelled(runners[p][i]) ELSE runners[p][i]]]
        /\ stopped' \subseteq Plans
        /\ cancel' = [stage |-> "done", seen |-> {}]
        /\ UNCHANGED <<databaseNow, tx, rollbacks>>
    BY DEF CancelCampaign
  <1>2. \A p \in Plans : History(p, planRow[p], dispatches[p], runners[p])
    BY DEF PlanInvariant
  <1>3. ASSUME NEW p \in Plans PROVE History(p, planRow'[p], dispatches'[p], runners'[p])
    <2> DEFINE rs == runners[p]
               qs == runners'[p]
    <2>1. dispatches'[p] = dispatches[p]
      BY <1>1, <1>2, NoneCancelled
    <2>2. rs \in Seq(RunnerRows) /\ DOMAIN rs = 1..Len(rs) /\ Len(rs) \in Nat
      BY <1>2 DEF History
    <2>3. /\ qs = [i \in DOMAIN rs |-> qs[i]]
          /\ \A i \in DOMAIN rs : qs[i] = rs[i] \/ qs[i] = Cancelled(rs[i])
      BY <1>1
    <2>4. ASSUME NEW i \in DOMAIN rs
          PROVE  /\ qs[i] \in RunnerRows
                 /\ qs[i].occurrence = rs[i].occurrence /\ qs[i].due = rs[i].due
                 /\ qs[i].at = rs[i].at /\ (qs[i].status \in Active => rs[i].status \in Active)
      <3>1. rs[i] \in RunnerRows
        BY <2>2
      <3> DEFINE x == rs[i]
      <3> HIDE DEF x
      <3>2. /\ Cancelled(x) \in RunnerRows
            /\ Cancelled(x).occurrence = x.occurrence /\ Cancelled(x).due = x.due
            /\ Cancelled(x).at = x.at /\ (Cancelled(x).status \in Active => x.status \in Active)
        <4>1. x \in RunnerRows
          BY <3>1 DEF x
        <4>2. CASE x.status = "queued"
          BY <4>1, <4>2 DEF Cancelled, RunnerRows, RunnerStatuses, Active
        <4>3. CASE x.status = "running"
          BY <4>1, <4>3 DEF Cancelled, RunnerRows, RunnerStatuses, Active
        <4>4. CASE x.status # "queued" /\ x.status # "running"
          BY <4>1, <4>4 DEF Cancelled
        <4> QED  BY <4>2, <4>3, <4>4
      <3> QED  BY <2>3, <3>1, <3>2 DEF x
    <2> HIDE DEF qs, rs
    <2>5. qs \in Seq(RunnerRows) /\ Len(qs) = Len(rs)
      <3>1. qs \in [1..Len(rs) -> RunnerRows]
        BY <2>2, <2>3, <2>4
      <3> QED  BY <2>2, <3>1
    <2>6. History(p, planRow[p], dispatches[p], qs)
      BY <1>2, <2>4, <2>5, RunnersGoOn DEF rs
    <2>7. CASE planRow[p].status \in {"active", "paused"}
      <3>1. planRow'[p] = [planRow[p] EXCEPT !.status = "cancelled"]
        BY <1>1, <2>7
      <3> QED  BY <2>1, <2>6, <2>7, <3>1, StatusKeeps DEF qs
    <2>8. CASE planRow[p].status \notin {"active", "paused"}
      <3>1. planRow'[p] = planRow[p]
        BY <1>1, <2>8
      <3> QED  BY <2>1, <2>6, <3>1 DEF qs
    <2> QED  BY <2>7, <2>8
  <1>4. /\ planRow' = [p \in Plans |-> planRow'[p]]
        /\ dispatches' = [p \in Plans |-> dispatches'[p]]
        /\ runners' = [p \in Plans |-> runners'[p]]
    BY <1>1
  <1> QED  BY <1>1, <1>3, <1>4, RowsChange DEF PlanInvariant

LEMMA PlanStep == ASSUME PlanInvariant, [Next]_vars PROVE PlanInvariant'
  <1>1. CASE Tick
    <2>1. databaseNow' = databaseNow + 1 /\ databaseNow' \in Instant /\ databaseNow <= databaseNow'
      BY <1>1, TimesOf DEF Tick, PlanInvariant
    <2>2. UNCHANGED <<planRow, dispatches, runners, tx, cancel, stopped, rollbacks>>
      BY <1>1 DEF Tick
    <2>3. Locks'
      BY <2>1, <2>2, LocksKept DEF PlanInvariant
    <2> QED  BY <2>1, <2>2, <2>3 DEF PlanInvariant
  <1>2. CASE \E p \in Plans : CreatePlan(p) \/ PausePlan(p) \/ ResumePlan(p) \/ CancelPlan(p)
    BY <1>2, CreateKeeps, ChangeKeeps
  <1>3. CASE \E w \in Planners : LockDuePlans(w) \/ Materialize(w) \/ MaterializeFails(w)
    BY <1>3, LockKeeps, MaterializeKeeps, FailKeeps
  <1>4. CASE \E p \in Plans : \E i \in DOMAIN runners[p] : StartRunner(p, i) \/ EndRunner(p, i)
    BY <1>4, RunnerKeeps
  <1>5. CASE LockRunners
    <2>1. /\ cancel' = [stage |-> "runners", seen |-> Places(runners)]
          /\ UNCHANGED <<databaseNow, planRow, dispatches, runners, tx, stopped, rollbacks>>
      BY <1>5 DEF LockRunners
    <2>2. \A p \in Plans : runners[p] \in Seq(RunnerRows)
      BY DEF PlanInvariant, History
    <2>3. Places(runners) \subseteq Plans \X Nat
      BY <2>2 DEF Places
    <2> QED  BY <2>1, <2>3, RowsChange DEF PlanInvariant
  <1>6. CASE CancelCampaign
    BY <1>6, CancelCampaignKeeps
  <1>7. CASE UNCHANGED vars
    <2>1. Locks'
      BY <1>7, LocksKept, TimesOf DEF PlanInvariant, vars
    <2> QED  BY <1>7, <2>1 DEF PlanInvariant, vars
  <1> QED  BY <1>1, <1>2, <1>3, <1>4, <1>5, <1>6, <1>7 DEF Next

LEMMA PlanInvariantHolds == Spec => []PlanInvariant
  <1>1. Init => PlanInvariant
    BY PlanInit
  <1>2. PlanInvariant /\ [Next]_vars => PlanInvariant'
    BY PlanStep
  <1> QED  BY <1>1, <1>2, PTL DEF Spec

\* Whatever the plans, their recurrences and time zones, and however many Planners
\* compete, fail and are overtaken by pauses and cancellations, the counters, nodes
\* and Runners of a plan tell one history: no occurrence twice, none outside its
\* grace, never two Runners of a plan that skips.
THEOREM PlansKeepTheirLedger == Spec => []LedgerInvariant
  <1>1. PlanInvariant => LedgerInvariant
    <2> SUFFICES ASSUME PlanInvariant PROVE LedgerInvariant
      OBVIOUS
    <2>0. \A p \in Plans : History(p, planRow[p], dispatches[p], runners[p])
      BY DEF PlanInvariant
    <2>1. TypeOK
      <3>1. /\ planRow \in [Plans -> PlanRows] /\ dispatches \in [Plans -> Seq(Nodes)]
            /\ runners \in [Plans -> Seq(RunnerRows)]
        BY <2>0 DEF PlanInvariant, History
      <3>2. \A p \in Plans : planRow[p].status \in {"active", "paused"} => planRow[p].next # NoTime
        BY <2>0 DEF History, RowOK
      <3>3. ASSUME NEW w \in Planners
            PROVE  /\ tx[w].now \in Instant \cup {NoTime}
                   /\ DOMAIN tx[w].rows \subseteq Plans
                   /\ \A p \in DOMAIN tx[w].rows : tx[w].rows[p] \in PlanRows
        <4>1. CASE tx[w] = NoTx
          BY <4>1 DEF NoTx
        <4>2. CASE tx[w] # NoTx
          <5>1. /\ tx[w].now \in Instant /\ DOMAIN tx[w].rows \subseteq Plans
                /\ \A p \in DOMAIN tx[w].rows : tx[w].rows[p] = planRow[p]
            BY <4>2 DEF PlanInvariant, Locks
          <5>2. \A p \in Plans : planRow[p] \in PlanRows
            BY <3>1
          <5> QED  BY <5>1, <5>2
        <4> QED  BY <4>1, <4>2
      <3> QED  BY <3>1, <3>2, <3>3 DEF TypeOK, PlanInvariant
    <2>2. OccurrencesAccounted
      BY <2>0 DEF OccurrencesAccounted, History
    <2>3. NoneLeftPending
      BY <2>0 DEF NoneLeftPending, History
    <2>4. EmittedInGrace
      BY <2>0 DEF EmittedInGrace, History
    <2>5. SkipKeepsOneActive
      BY <2>0 DEF SkipKeepsOneActive, History
    <2> QED  BY <2>1, <2>2, <2>3, <2>4, <2>5 DEF LedgerInvariant
  <1> QED  BY <1>1, PlanInvariantHolds, PTL

\* Every occurrence of a plan is due when preview_fires said so, whatever was
\* skipped in between, and the plan ends where the preview ends.
THEOREM PlansFireAsPreviewed == Spec => []OccurrencesAsPreviewed
  <1>1. PlanInvariant => OccurrencesAsPreviewed
    <2> SUFFICES ASSUME PlanInvariant PROVE OccurrencesAsPreviewed
      OBVIOUS
    <2>0. \A p \in Plans : History(p, planRow[p], dispatches[p], runners[p])
      BY DEF PlanInvariant
    <2> QED  BY <2>0 DEF OccurrencesAsPreviewed, History, RowOK
  <1> QED  BY <1>1, PlanInvariantHolds, PTL

\* Only a step of a Planner that holds an active plan adds a Runner to it, and
\* nothing revives a plan that is completed or cancelled.
THEOREM OnlyActivePlansAreEmitted == Spec => OnlyActivePlansEmit
  <1> DEFINE Kept == \A p \in Plans :
                /\ Len(runners'[p]) > Len(runners[p]) => planRow[p].status = "active"
                /\ planRow[p].status \in {"completed", "cancelled"} =>
                        planRow'[p].status = planRow[p].status
  <1>1. ASSUME PlanInvariant, [Next]_vars PROVE Kept
    <2>0. /\ \A p \in Plans : /\ planRow[p] \in PlanRows /\ runners[p] \in Seq(RunnerRows)
                              /\ Len(runners[p]) \in Nat
          /\ planRow = [p \in Plans |-> planRow[p]] /\ runners = [p \in Plans |-> runners[p]]
      BY <1>1 DEF PlanInvariant, History
    <2>1. CASE UNCHANGED <<planRow, runners>>
      BY <2>0, <2>1
    <2>2. CASE \E p \in Plans : CreatePlan(p) \/ PausePlan(p) \/ ResumePlan(p) \/ CancelPlan(p)
      <3>1. PICK p \in Plans : CreatePlan(p) \/ PausePlan(p) \/ ResumePlan(p) \/ CancelPlan(p)
        BY <2>2
      <3>2. /\ UNCHANGED runners /\ planRow[p].status \notin {"completed", "cancelled"}
            /\ \A q \in Plans : q # p => planRow'[q] = planRow[q]
        BY <2>0, <3>1 DEF CreatePlan, PausePlan, ResumePlan, CancelPlan
      <3> QED  BY <2>0, <3>2
    <2>3. CASE \E w \in Planners : Materialize(w)
      <3>1. PICK w \in Planners : Materialize(w)
        BY <2>3
      <3>2. tx[w] # NoTx
        BY <3>1 DEF Materialize
      <3> SUFFICES ASSUME NEW p \in Plans, planRow[p].status # "active"
                   PROVE  planRow'[p] = planRow[p] /\ runners'[p] = runners[p]
        BY <2>0
      <3>3. p \notin DOMAIN tx[w].rows
        BY <1>1, <3>2 DEF PlanInvariant, Locks
      <3> QED  BY <1>1, <3>1, <3>3, UnheldUntouched
    <2>4. CASE \E p \in Plans : \E i \in DOMAIN runners[p] : StartRunner(p, i) \/ EndRunner(p, i)
      <3>1. PICK p \in Plans : \E i \in DOMAIN runners[p] : StartRunner(p, i) \/ EndRunner(p, i)
        BY <2>4
      <3>2. PICK i \in DOMAIN runners[p] : StartRunner(p, i) \/ EndRunner(p, i)
        BY <3>1
      <3>3. UNCHANGED planRow /\ \E x : runners' = [runners EXCEPT ![p][i].status = x]
        BY <3>2 DEF StartRunner, EndRunner
      <3>4. PICK x : runners' = [runners EXCEPT ![p][i].status = x]
        BY <3>3
      <3> DEFINE y == [runners[p][i] EXCEPT !.status = x]
      <3>5. runners' = [runners EXCEPT ![p] = [runners[p] EXCEPT ![i] = y]]
        BY <3>4
      <3> HIDE DEF y
      <3>6. ASSUME NEW q \in Plans PROVE Len(runners'[q]) = Len(runners[q])
        <4>1. CASE q # p
          BY <2>0, <3>5, <4>1
        <4>2. CASE q = p
          <5>1. runners'[p] = [runners[p] EXCEPT ![i] = y]
            BY <2>0, <3>5
          <5>2. DOMAIN runners'[p] = 1..Len(runners[p])
            BY <2>0, <5>1
          <5> QED  BY <2>0, <4>2, <5>1, <5>2
        <4> QED  BY <4>1, <4>2
      <3> QED  BY <2>0, <3>3, <3>6
    <2>5. CASE CancelCampaign
      <3>1. ASSUME NEW p \in Plans PROVE Len(runners'[p]) = Len(runners[p])
        <4>1. runners'[p] = [i \in DOMAIN runners[p] |-> runners'[p][i]]
          BY <2>5 DEF CancelCampaign
        <4> QED  BY <2>0, <4>1
      <3>2. \A p \in Plans : planRow[p].status \in {"completed", "cancelled"} =>
                        planRow'[p].status = planRow[p].status
        BY <2>5 DEF CancelCampaign
      <3> QED  BY <2>0, <3>1, <3>2
    <2> QED  BY <1>1, <2>1, <2>2, <2>3, <2>4, <2>5
          DEF Next, vars, Tick, LockDuePlans, MaterializeFails, LockRunners
  <1>2. PlanInvariant /\ [Next]_vars => [Kept]_vars
    BY <1>1
  <1> QED  BY <1>2, PlanInvariantHolds, PTL DEF Spec, OnlyActivePlansEmit
=============================================================================
