------------------------ MODULE RunnerProgressProofs ------------------------
(***************************************************************************)
(* Proofs about RunnerProgress: whatever the workflow, its delays and due  *)
(* times, the window and the cooldown, the loop starts no step early, has  *)
(* always something to wait for and leaves no step out.                    *)
(***************************************************************************)
EXTENDS RunnerProgress, FiniteSetTheorems, NaturalsInduction, WellFoundedInduction, TLAPS

-----------------------------------------------------------------------------
(* Numbers and sets.                                                       *)

\* A nonempty set of natural numbers has a least element.
LEMMA LeastNumber ==
    ASSUME NEW N \in SUBSET Nat, N # {}
    PROVE  \E x \in N : \A y \in N : x <= y
  <1> DEFINE R == OpToRel(<, Nat)
  <1>1. IsWellFoundedOn(R, Nat)
    BY NatLessThanWellFounded
  <1>2. \A x, y \in Nat : x < y => <<x, y>> \in R
    BY DEF OpToRel
  <1> HIDE DEF R
  <1>3. PICK x \in N : \A y \in N : ~(<<y, x>> \in R)
    BY <1>1, WFMin
  <1>4. ASSUME NEW y \in N PROVE x <= y
    <2>1. x \in Nat /\ y \in Nat /\ ~(y < x)
      BY <1>2, <1>3
    <2> QED  BY <2>1
  <1> QED  BY <1>4

\* A bounded set of integers has a maximum.
LEMMA MaxOf ==
    ASSUME NEW S \in SUBSET Int, S # {}, NEW k \in Int, \A x \in S : x <= k
    PROVE  Max(S) \in S /\ \A x \in S : x <= Max(S)
  <1> DEFINE D == {n \in Nat : k - n \in S}
  <1>1. \A x \in S : k - x \in Nat /\ k - (k - x) = x
    OBVIOUS
  <1>2. \A x \in S : k - x \in D
    BY <1>1
  <1>3. D \in SUBSET Nat /\ D # {}
    BY <1>2
  <1>4. PICK n \in D : \A m \in D : n <= m
    BY <1>3, LeastNumber
  <1>5. n \in Nat /\ k - n \in S
    OBVIOUS
  <1> HIDE DEF D
  <1>6. ASSUME NEW x \in S PROVE k - n >= x
    <2>1. n <= k - x
      BY <1>2, <1>4
    <2> QED  BY <1>5, <2>1
  <1>7. \E m \in S : \A x \in S : m >= x
    BY <1>5, <1>6
  <1>8. Max(S) \in S /\ \A x \in S : Max(S) >= x
    BY <1>7 DEF Max
  <1>9. \A x \in S : x \in Int /\ Max(S) \in Int
    BY <1>8
  <1> QED  BY <1>8, <1>9

LEMMA MinOf ==
    ASSUME NEW a \in Int, NEW b \in Int
    PROVE  Min({a, b}) = IF a <= b THEN a ELSE b
  <1> DEFINE S == {a, b}
  <1>1. \E x \in S : \A y \in S : x <= y
    OBVIOUS
  <1>2. Min(S) \in S /\ \A y \in S : Min(S) <= y
    BY <1>1 DEF Min
  <1> HIDE DEF Min
  <1> QED  BY <1>2

LEMMA MaxPair ==
    ASSUME NEW a \in Int, NEW b \in Int
    PROVE  Max({a, b}) = IF a >= b THEN a ELSE b
  <1> DEFINE S == {a, b}
  <1>1. \E x \in S : \A y \in S : x >= y
    OBVIOUS
  <1>2. Max(S) \in S /\ \A y \in S : Max(S) >= y
    BY <1>1 DEF Max
  <1> HIDE DEF Max
  <1> QED  BY <1>2

\* The steps, and the order they are walked in.
LEMMA StepsOf ==
    /\ IsFiniteSet(Steps) /\ Len(Order) \in Nat /\ DOMAIN Order = 1..Len(Order)
    /\ \A i \in 1..Len(Order) : Order[i] \in Steps
    /\ \A s \in Steps : \E i \in 1..Len(Order) : Order[i] = s
    /\ \A i, j \in 1..Len(Order) : Order[i] = Order[j] => i = j
    /\ \A i \in 1..Len(Order) : \A d \in Dependencies[Order[i]] :
            \E j \in 1..Len(Order) : j < i /\ Order[j] = d
    /\ \A s \in Steps : Dependencies[s] \subseteq Steps
  <1> DEFINE n == Len(Order)
  <1>1. n \in Nat /\ DOMAIN Order = 1..n /\ Order \in Seq(Steps)
    BY WorkflowAssumption
  <1> HIDE DEF n
  <1>2. \A i \in 1..n : Order[i] \in Steps
    BY <1>1 DEF Steps, Range
  <1>3. \A s \in Steps : \E i \in 1..n : Order[i] = s
    BY <1>1 DEF Steps, Range
  <1>4. \A i, j \in 1..n : Order[i] = Order[j] => i = j
    BY <1>1, WorkflowAssumption DEF IsInjective
  <1>5. ASSUME NEW i \in 1..n, NEW d \in Dependencies[Order[i]]
        PROVE  \E j \in 1..n : j < i /\ Order[j] = d
    <2>0. Dependencies[Order[i]] \subseteq {Order[k] : k \in 1..(i - 1)}
      BY <1>1, WorkflowAssumption
    <2>1. PICK j \in 1..(i - 1) : Order[j] = d
      BY <2>0
    <2>2. j \in 1..n /\ j < i
      BY <1>1
    <2> QED  BY <2>1, <2>2
  <1>6. \A s \in Steps : Dependencies[s] \subseteq Steps
    <2> SUFFICES ASSUME NEW s \in Steps, NEW d \in Dependencies[s] PROVE d \in Steps
      OBVIOUS
    <2>1. PICK i \in 1..n : Order[i] = s
      BY <1>3
    <2>2. PICK j \in 1..n : Order[j] = d
      BY <1>5, <2>1
    <2> QED  BY <1>2, <2>2
  <1>7. IsFiniteSet(Steps)
    <2>1. Order \in Surjection(1..n, Steps)
      BY <1>1, <1>2, <1>3 DEF Surjection
    <2>2. IsFiniteSet(1..n)
      BY <1>1, FS_Interval
    <2> QED  BY <2>1, <2>2, FS_Surjection
  <1> QED  BY <1>1, <1>2, <1>3, <1>4, <1>5, <1>6, <1>7 DEF n

\* How long a step still has to wait.
LEMMA TicksOf ==
    ASSUME TypeOK, NEW s \in Steps
    PROVE  /\ TicksLeft(s) \in 0..MaxAge
           /\ ~(TicksLeft(s) > 0) =>
                /\ elapsed >= DueAt[s]
                /\ Dependencies[s] = {} => elapsed >= Delay[s]
                /\ \A d \in Dependencies[s] : age[d] >= Delay[s]
  <1> DEFINE A == {Delay[s] - age[d] : d \in Dependencies[s]}
             x == IF Dependencies[s] = {} THEN Delay[s] - elapsed ELSE Max(A)
             S == {0, DueAt[s] - elapsed, x}
  <1>1. /\ MaxAge \in Nat /\ Delay[s] \in 0..MaxAge /\ DueAt[s] \in 0..MaxAge /\ elapsed \in 0..MaxAge
        /\ \A d \in Dependencies[s] : age[d] \in 0..MaxAge
    BY StepsOf, WorkflowAssumption DEF TypeOK
  <1>2. Dependencies[s] # {} => Max(A) \in A /\ \A y \in A : y <= Max(A)
    <2>1. A \in SUBSET Int /\ \A y \in A : y <= Delay[s]
      BY <1>1
    <2> HIDE DEF A
    <2>2. ASSUME Dependencies[s] # {} PROVE A # {}
      BY <2>2 DEF A
    <2>3. Delay[s] \in Int
      BY <1>1
    <2> QED  BY <2>1, <2>2, <2>3, MaxOf
  <1>3. x \in Int /\ x <= MaxAge
    <2>1. CASE Dependencies[s] = {}
      BY <1>1, <2>1
    <2>2. CASE Dependencies[s] # {}
      <3>1. PICK d \in Dependencies[s] : Max(A) = Delay[s] - age[d]
        BY <1>2, <2>2
      <3>2. x = Delay[s] - age[d]
        BY <2>2, <3>1
      <3> QED  BY <1>1, <3>2
    <2> QED  BY <2>1, <2>2
  <1>4. \A d \in Dependencies[s] : Delay[s] - age[d] <= x
    <2> SUFFICES ASSUME NEW d \in Dependencies[s] PROVE Delay[s] - age[d] <= x
      OBVIOUS
    <2>1. Delay[s] - age[d] \in A /\ x = Max(A)
      OBVIOUS
    <2> HIDE DEF A, x
    <2> QED  BY <1>2, <2>1
  <1>5. Dependencies[s] = {} => x = Delay[s] - elapsed
    OBVIOUS
  <1> HIDE DEF x
  <1>6. Max(S) \in S /\ \A y \in S : y <= Max(S)
    <2>1. S \in SUBSET Int /\ S # {} /\ \A y \in S : y <= MaxAge
      BY <1>1, <1>3
    <2>2. MaxAge \in Int
      BY <1>1
    <2> HIDE DEF S
    <2> QED  BY <2>1, <2>2, MaxOf
  <1>7. TicksLeft(s) = Max(S)
    BY DEF TicksLeft, x
  <1> DEFINE t == Max(S)
  <1>8. t \in {0, DueAt[s] - elapsed, x} /\ 0 <= t /\ DueAt[s] - elapsed <= t /\ x <= t
    BY <1>6
  <1> HIDE DEF t
  <1>9. t \in 0..MaxAge
    BY <1>1, <1>3, <1>8
  <1>10. ASSUME ~(t > 0)
         PROVE  /\ elapsed >= DueAt[s]
                /\ Dependencies[s] = {} => elapsed >= Delay[s]
                /\ \A d \in Dependencies[s] : age[d] >= Delay[s]
    <2>1. DueAt[s] - elapsed <= 0 /\ x <= 0
      BY <1>1, <1>3, <1>8, <1>9, <1>10
    <2>2. \A d \in Dependencies[s] : Delay[s] - age[d] <= 0
      BY <1>1, <1>3, <1>4, <2>1
    <2> QED  BY <1>1, <1>5, <2>1, <2>2
  <1> QED  BY <1>7, <1>9, <1>10 DEF t

-----------------------------------------------------------------------------
(* The walk.                                                               *)

\* What a visit to s may change: s alone, and what was set stays set.  Only a step with a
\* time to wait for or an unfinished dependency is left waiting for nothing.
Moved(a, v, s) ==
    /\ v.pending \subseteq a.pending /\ a.pending \subseteq v.pending \cup {s}
    /\ a.cancelled \subseteq v.cancelled /\ v.cancelled \subseteq a.cancelled \cup {s}
    /\ a.outstanding \subseteq v.outstanding /\ v.outstanding \subseteq a.outstanding \cup a.pending
    /\ a.submission # NoSubmission => v.submission = a.submission
    /\ v.submission = a.submission \/ v.submission.stage = "admission"
    /\ a.nextDue # NoTimer => v.nextDue # NoTimer
    /\ s \in v.pending /\ AtRest(v) /\ ~late =>
            v.nextDue # NoTimer \/ \E d \in Dependencies[s] : d \notin results /\ d \notin a.cancelled

LEMMA VisitKeeps ==
    ASSUME ProgressInvariant, NEW a, Placed(a), NEW s \in Steps
    PROVE  Placed(Visit(a, s)) /\ Moved(a, Visit(a, s), s)
  <1> DEFINE v == Visit(a, s)
             Submissions == [step : Steps, stage : {"admission", "submit", "done"}] \cup {NoSubmission}
             Records == [pending : SUBSET Steps, cancelled : SUBSET Steps, outstanding : SUBSET Steps,
                         submission : Submissions, nextDue : 0..MaxAge \cup {NoTimer}, sent : SUBSET Messages]
  <1>0. /\ a \in Records /\ MaxAge \in Nat /\ cool \in 0..MaxAge /\ Window \in Nat
        /\ Cooldown \in 0..MaxAge \cup {NoCooldown}
    <2>1. mode \in [window : Nat, cooldown : 0..MaxAge \cup {NoCooldown}]
      BY WorkflowAssumption DEF ProgressInvariant, TypeOK
    <2> QED  BY <2>1, WorkflowAssumption DEF ProgressInvariant, TypeOK, Placed, Window, Cooldown
  <1>1. CASE v = a /\ (s \notin a.pending \/ ~AtRest(a) \/ late \/ a.nextDue # NoTimer
                       \/ \E d \in Dependencies[s] : d \notin results /\ d \notin a.cancelled)
    BY <1>1 DEF Moved
  <1>2. ASSUME NEW x \in 0..MaxAge, v = [a EXCEPT !.nextDue = x] PROVE Placed(v) /\ Moved(a, v, s)
    <2>1. /\ v \in Records /\ v.pending = a.pending /\ v.cancelled = a.cancelled /\ v.sent = a.sent
          /\ v.outstanding = a.outstanding /\ v.submission = a.submission /\ v.nextDue = x
      BY <1>0, <1>2
    <2>2. x # NoTimer
      BY <1>0 DEF NoTimer
    <2> HIDE DEF v, Records
    <2>3. Placed(v)
      BY <2>1 DEF Placed, Records
    <2>4. Moved(a, v, s)
      BY <2>1, <2>2 DEF Moved
    <2> QED  BY <2>3, <2>4
  <1>3. CASE s \notin a.pending
    BY <1>1, <1>3 DEF Visit
  <1>4. CASE s \in a.pending /\ Cooldown # NoCooldown /\ Breaks(a)
    <2>1. CASE AtRest(a)
      BY <1>0, <1>2, <1>4, <2>1 DEF Visit
    <2>2. CASE ~AtRest(a)
      BY <1>1, <1>4, <2>2 DEF Visit
    <2> QED  BY <2>1, <2>2
  <1> DEFINE On == s \in a.pending /\ ~(Cooldown # NoCooldown /\ Breaks(a))
  <1>5. CASE On /\ FailedDependencies(a, s) # {}
    <2>1. v = [a EXCEPT !.cancelled = @ \cup {s}, !.pending = @ \ {s}, !.sent = @ \cup {CancelledMessage(s)}]
      BY <1>5 DEF Visit
    <2>2. /\ v.pending = a.pending \ {s} /\ v.cancelled = a.cancelled \cup {s}
          /\ v.sent = a.sent \cup {CancelledMessage(s)}
          /\ v.outstanding = a.outstanding /\ v.submission = a.submission /\ v.nextDue = a.nextDue
      BY <1>0, <2>1
    <2>3. v \in Records
      <3>1. CancelledMessage(s) \in Messages
        BY DEF CancelledMessage, Messages
      <3>2. v = [pending |-> a.pending \ {s}, cancelled |-> a.cancelled \cup {s}, outstanding |-> a.outstanding,
                 submission |-> a.submission, nextDue |-> a.nextDue, sent |-> a.sent \cup {CancelledMessage(s)}]
        BY <1>0, <2>1
      <3> QED  BY <1>0, <3>1, <3>2
    <2>4. PICK d \in Dependencies[s] : d \in a.cancelled \/ (d \in results /\ ~Succeeded(d))
      BY <1>5 DEF FailedDependencies
    <2>5. d \in a.cancelled \/ work[d] = "failed"
      <3>1. d \in results => work[d] \in {"ok", "failed"}
        BY StepsOf, <2>4 DEF ProgressInvariant, Heard
      <3> QED  BY <2>4, <3>1 DEF Succeeded
    <2> HIDE DEF v, Records
    <2>6. \A t \in v.cancelled : \E e \in Dependencies[t] : e \in v.cancelled \/ work[e] = "failed"
      BY <2>2, <2>4, <2>5 DEF Placed
    <2>7. /\ v.pending \cup v.outstanding \cup results \cup v.cancelled = Steps
          /\ v.outstanding \cap (v.pending \cup v.cancelled) = {} /\ v.pending \cap v.cancelled = {}
          /\ \A t \in v.pending \cup v.cancelled : work[t] = "idle"
      BY <1>5, <2>2 DEF Placed
    <2>8. \A m \in v.sent : \E t \in v.cancelled : m = CancelledMessage(t)
      BY <2>2 DEF Placed
    <2>9. Placed(v)
      BY <2>2, <2>3, <2>6, <2>7, <2>8 DEF Placed, Records
    <2>10. Moved(a, v, s)
      BY <1>5, <2>2 DEF Moved
    <2> QED  BY <2>9, <2>10 DEF v
  <1>6. CASE On /\ FailedDependencies(a, s) = {} /\ ~(Dependencies[s] \subseteq results)
    <2>1. \E d \in Dependencies[s] : d \notin results /\ d \notin a.cancelled
      BY <1>6 DEF FailedDependencies
    <2> QED  BY <1>1, <1>6, <2>1 DEF Visit
  <1> DEFINE Free == On /\ FailedDependencies(a, s) = {} /\ Dependencies[s] \subseteq results
  <1>7. CASE Free /\ TicksLeft(s) > 0
    <2> DEFINE x == Earlier(a.nextDue, TicksLeft(s))
    <2>1. TicksLeft(s) \in 0..MaxAge /\ a.nextDue \in 0..MaxAge \cup {NoTimer}
      BY <1>0, TicksOf DEF ProgressInvariant
    <2>2. x \in 0..MaxAge
      BY <1>0, <2>1, MinOf DEF Earlier, NoTimer
    <2> QED  BY <1>2, <1>7, <2>2 DEF Visit
  <1>8. CASE Free /\ ~(TicksLeft(s) > 0) /\ ~(a.submission = NoSubmission /\ Capacity(a.outstanding) /\ ~late)
    <2>1. v = a
      BY <1>8 DEF Visit
    <2>2. ~AtRest(a) \/ late
      <3> SUFFICES ASSUME AtRest(a), ~late PROVE FALSE
        OBVIOUS
      <3>1. Capacity(a.outstanding)
        BY <1>0, FS_EmptySet DEF AtRest, Capacity, NoWindow
      <3> QED  BY <1>8, <3>1 DEF AtRest
    <2> QED  BY <1>1, <2>1, <2>2
  <1>9. CASE Free /\ ~(TicksLeft(s) > 0) /\ a.submission = NoSubmission /\ Capacity(a.outstanding) /\ ~late
    <2>1. v = [a EXCEPT !.outstanding = @ \cup {s}, !.pending = @ \ {s},
                        !.submission = [step |-> s, stage |-> "admission"]]
      BY <1>9 DEF Visit
    <2>2. /\ v.pending = a.pending \ {s} /\ v.outstanding = a.outstanding \cup {s}
          /\ v.submission = [step |-> s, stage |-> "admission"]
          /\ v.cancelled = a.cancelled /\ v.sent = a.sent /\ v.nextDue = a.nextDue
      BY <1>0, <2>1
    <2>3. v \in Records
      <3> DEFINE y == [step |-> s, stage |-> "admission"]
      <3>1. y \in Submissions
        OBVIOUS
      <3> HIDE DEF y
      <3>2. v = [pending |-> a.pending \ {s}, cancelled |-> a.cancelled, outstanding |-> a.outstanding \cup {s},
                 submission |-> y, nextDue |-> a.nextDue, sent |-> a.sent]
        BY <1>0, <2>1 DEF y
      <3> QED  BY <1>0, <3>1, <3>2
    <2> HIDE DEF v, Records
    <2>4. work[s] = "idle" /\ s \notin a.cancelled /\ s \in a.pending /\ s \notin a.outstanding
      BY <1>9 DEF Placed
    <2>5. /\ v.pending \cup v.outstanding \cup results \cup v.cancelled = Steps
          /\ v.outstanding \cap (v.pending \cup v.cancelled) = {} /\ v.pending \cap v.cancelled = {}
          /\ \A t \in v.pending \cup v.cancelled : work[t] = "idle"
      BY <2>2, <2>4 DEF Placed
    <2>6. Timely(s)
      <3>1. \A d \in Dependencies[s] : Succeeded(d)
        BY <1>9 DEF FailedDependencies
      <3>2. /\ elapsed >= DueAt[s]
            /\ Dependencies[s] = {} => elapsed >= Delay[s]
            /\ \A d \in Dependencies[s] : age[d] >= Delay[s]
        BY <1>9, TicksOf DEF ProgressInvariant
      <3> QED  BY <3>1, <3>2 DEF Timely
    <2>7. Window # NoWindow => Cardinality(v.outstanding) <= Window
      <3> SUFFICES ASSUME Window # NoWindow PROVE Cardinality(v.outstanding) <= Window
        OBVIOUS
      <3>1. IsFiniteSet(a.outstanding) /\ Cardinality(a.outstanding) \in Nat /\ Cardinality(a.outstanding) < Window
        BY <1>0, <1>9, StepsOf, FS_Subset, FS_CardinalityType DEF Capacity, Records
      <3>2. Cardinality(v.outstanding) = Cardinality(a.outstanding) + 1
        BY <2>2, <2>4, <3>1, FS_AddElement
      <3>3. Cardinality(v.outstanding) \in Nat
        BY <2>2, <3>1, FS_AddElement, FS_CardinalityType
      <3> QED  BY <1>0, <3>1, <3>2, <3>3
    <2>8. ASSUME Cooldown # NoCooldown
          PROVE  /\ \A t, u \in v.outstanding : t = u
                 /\ \A d \in results : age[d] >= Cooldown
      <3>1. a.outstanding = {} /\ ~(cool > 0)
        BY <1>9, <2>8 DEF Breaks, AtRest
      <3>2. cool = 0
        BY <1>0, <3>1
      <3>3. ASSUME NEW d \in results PROVE age[d] >= Cooldown
        <4>1. cool >= Cooldown - age[d] /\ age[d] \in 0..MaxAge /\ Cooldown \in 0..MaxAge
          BY <1>0, <2>8 DEF ProgressInvariant, TypeOK
        <4> QED  BY <1>0, <3>2, <4>1
      <3> QED  BY <2>2, <3>1, <3>3
    <2>9. \A t \in v.outstanding : Timely(t)
      BY <2>2, <2>6 DEF Placed
    <2>10. v.submission.step = s /\ v.submission.stage = "admission"
      BY <2>2
    <2>11. v.submission.step \in v.outstanding /\ work[v.submission.step] = "idle"
      BY <2>2, <2>4, <2>10
    <2>12. /\ \A t \in v.cancelled : \E d \in Dependencies[t] : d \in v.cancelled \/ work[d] = "failed"
           /\ \A m \in v.sent : \E t \in v.cancelled : m = CancelledMessage(t)
      BY <2>2 DEF Placed
    <2>13. Placed(v)
      BY <2>3, <2>5, <2>7, <2>8, <2>9, <2>11, <2>12 DEF Placed, Records
    <2>14. Moved(a, v, s)
      BY <1>9, <2>2, <2>4, <2>10 DEF Moved
    <2> QED  BY <2>13, <2>14 DEF v
  <1> QED  BY <1>3, <1>4, <1>5, <1>6, <1>7, <1>8, <1>9

\* The walk is well defined.
LEMMA WalkOf ==
    Walk = [i \in 0..Len(Order) |-> IF i = 0 THEN Current ELSE Visit(Walk[i - 1], Order[i])]
  <1> DEFINE n == Len(Order)
             Step(i, x) == Visit(x, Order[i])
             Is(f, m) == f = [i \in 0..m |-> IF i = 0 THEN Current ELSE Step(i, f[i - 1])]
             None == {m \in Nat : ~\E f : Is(f, m)}
  <1>1. None = {}
    <2> SUFFICES ASSUME None # {} PROVE FALSE
      OBVIOUS
    <2>1. PICK m \in None : \A k \in None : m <= k
      BY LeastNumber, None \in SUBSET Nat
    <2>2. CASE m = 0
      <3> DEFINE f == [i \in 0..0 |-> Current]
      <3>1. Is(f, 0)
        BY 0..0 = {0}
      <3> QED  BY <2>1, <2>2, <3>1
    <2>3. CASE m # 0
      <3>1. m \in Nat /\ m - 1 \in Nat /\ m - 1 \notin None
        <4>1. m \in Nat /\ m - 1 \in Nat /\ ~(m <= m - 1)
          BY <2>3
        <4> HIDE DEF None
        <4> QED  BY <2>1, <4>1
      <3>2. PICK f : Is(f, m - 1)
        BY <3>1
      <3> DEFINE g == [i \in 0..m |-> IF i = m THEN Step(m, f[m - 1]) ELSE f[i]]
      <3> HIDE DEF Step
      <3>3. \A i \in 0..m : i # m => i \in 0..(m - 1) /\ i - 1 # m
        BY <3>1
      <3>4. \A i \in 0..m : i # 0 => i - 1 \in 0..(m - 1) /\ i - 1 \in 0..m /\ i - 1 # m
        BY <3>1
      <3>5. \A i \in 0..(m - 1) : f[i] = IF i = 0 THEN Current ELSE Step(i, f[i - 1])
        BY <3>2
      <3>6. \A i \in 0..m : i # 0 => g[i - 1] = f[i - 1]
        BY <3>4
      <3>7. \A i \in 0..m : g[i] = IF i = 0 THEN Current ELSE Step(i, g[i - 1])
        <4> TAKE i \in 0..m
        <4>1. CASE i = m
          BY <4>1, <3>1, <3>6, <2>3
        <4>2. CASE i # m
          BY <4>2, <3>3, <3>5, <3>6
        <4> QED  BY <4>1, <4>2
      <3>8. Is(g, m)
        BY <3>7
      <3> HIDE DEF g, Is
      <3> QED  BY <2>1, <3>8
    <2> QED  BY <2>2, <2>3
  <1>2. n \in Nat
    BY StepsOf
  <1>3. \E f : Is(f, n)
    <2> HIDE DEF Is
    <2> QED  BY <1>1, <1>2
  <1> QED  BY <1>3, Zenon DEF Walk

\* After the walk every step still has its place, what was set stays set, and a Runner at
\* rest with steps left has a time to wait for.
LEMMA WalkKeeps ==
    ASSUME ProgressInvariant, NEW z, z = Walk[Len(Order)]
    PROVE  /\ Placed(z)
           /\ outstanding \subseteq z.outstanding /\ z.outstanding \subseteq outstanding \cup pending
           /\ submission # NoSubmission => z.submission = submission
           /\ z.submission = submission \/ z.submission.stage = "admission"
           /\ cancelled \subseteq z.cancelled
           /\ z.pending # {} /\ AtRest(z) /\ ~late => z.nextDue # NoTimer
  <1> DEFINE n == Len(Order)
             w == Walk
             Since(i) == /\ w[i].pending \subseteq pending /\ cancelled \subseteq w[i].cancelled
                         /\ outstanding \subseteq w[i].outstanding
                         /\ w[i].outstanding \subseteq outstanding \cup pending
                         /\ submission # NoSubmission => w[i].submission = submission
                         /\ w[i].submission = submission \/ w[i].submission.stage = "admission"
             Waits(i, s) == s \in w[i].pending /\ AtRest(w[i]) /\ ~late =>
                              \/ w[i].nextDue # NoTimer
                              \/ \E d \in Dependencies[s] : d \notin results /\ d \notin w[i].cancelled
             Good(i) == Placed(w[i]) /\ Since(i) /\ \A j \in 1..n : j <= i => Waits(i, Order[j])
             Bad == {i \in 0..n : ~Good(i)}
  <1>0. /\ n \in Nat /\ \A i \in 1..n : Order[i] \in Steps
        /\ \A s \in Steps : \E i \in 1..n : Order[i] = s
        /\ \A i, j \in 1..n : Order[i] = Order[j] => i = j
        /\ \A i \in 1..n : \A d \in Dependencies[Order[i]] : \E j \in 1..n : j < i /\ Order[j] = d
        /\ \A s \in Steps : Dependencies[s] \subseteq Steps
    BY StepsOf
  <1>1. \A i \in 0..n : w[i] = IF i = 0 THEN Current ELSE Visit(w[i - 1], Order[i])
    BY WalkOf
  <1> HIDE DEF w, n
  <1>2. Good(0)
    <2>0. 0 \in 0..n /\ \A j \in 1..n : ~(j <= 0)
      BY <1>0
    <2>1. w[0] = Current /\ \A j \in 1..n : ~(j <= 0)
      BY <2>0, <1>1
    <2>2. Placed(w[0]) /\ Since(0)
      BY <2>1 DEF ProgressInvariant, Current
    <2> QED  BY <2>1, <2>2
  <1>3. ASSUME NEW i \in 0..n, i # 0, Good(i - 1) PROVE Good(i)
    <2> DEFINE a == w[i - 1]
               v == w[i]
               s == Order[i]
    <2>1. i \in 1..n /\ i - 1 \in 0..n /\ \A j \in 1..n : j <= i /\ j # i => j <= i - 1
      BY <1>0, <1>3
    <2>2. s \in Steps /\ v = Visit(a, s) /\ Placed(a)
      BY <1>0, <1>1, <1>3, <2>1
    <2>3. Placed(v) /\ Moved(a, v, s)
      BY <2>2, VisitKeeps
    <2>4. Since(i - 1) /\ \A j \in 1..n : j <= i - 1 => Waits(i - 1, Order[j])
      BY <1>3
    <2>5. Since(i)
      BY <2>3, <2>4 DEF Moved
    <2>6. AtRest(v) => AtRest(a)
      BY <2>3 DEF Moved, AtRest
    <2>7. ASSUME NEW j \in 1..n, j <= i, NEW d \in Dependencies[Order[j]], d \notin a.cancelled
          PROVE  d \notin v.cancelled
      <3>1. PICK k \in 1..n : k < j /\ Order[k] = d
        BY <1>0
      <3>2. k # i
        BY <1>0, <2>7, <3>1
      <3>3. d # s
        BY <1>0, <2>1, <3>1, <3>2
      <3> QED  BY <2>3, <2>7, <3>3 DEF Moved
    <2>8. ASSUME NEW j \in 1..n, j <= i PROVE Waits(i, Order[j])
      <3> DEFINE t == Order[j]
      <3> SUFFICES ASSUME t \in v.pending, AtRest(v), ~late, v.nextDue = NoTimer
                   PROVE  \E d \in Dependencies[t] : d \notin results /\ d \notin v.cancelled
        OBVIOUS
      <3>1. \E d \in Dependencies[t] : d \notin results /\ d \notin a.cancelled
        <4>1. CASE j = i
          BY <2>3, <4>1 DEF Moved
        <4>2. CASE j # i
          <5>1. Waits(i - 1, t)
            BY <2>1, <2>4, <2>8, <4>2
          <5>2. t \in a.pending /\ AtRest(a) /\ a.nextDue = NoTimer
            BY <2>3, <2>6 DEF Moved
          <5> QED  BY <5>1, <5>2
        <4> QED  BY <4>1, <4>2
      <3> QED  BY <2>7, <2>8, <3>1
    <2> QED  BY <2>3, <2>5, <2>8
  <1> HIDE DEF Good
  <1>4. Bad = {}
    <2> SUFFICES ASSUME Bad # {} PROVE FALSE
      OBVIOUS
    <2>1. Bad \in SUBSET Nat
      BY <1>0
    <2>2. PICK i \in Bad : \A j \in Bad : i <= j
      BY <2>1, LeastNumber
    <2>3. i \in 0..n /\ i # 0 /\ ~Good(i)
      BY <1>2, <2>2
    <2>4. i - 1 \in 0..n /\ ~(i <= i - 1)
      BY <1>0, <2>3
    <2>5. Good(i - 1)
      BY <2>2, <2>4
    <2> QED  BY <1>3, <2>3, <2>5
  <1>5. Good(n) /\ z = w[n]
    <2>1. n \in 0..n
      BY <1>0
    <2> QED  BY <1>4, <2>1 DEF w, n
  <1>6. Placed(z) /\ Since(n) /\ \A j \in 1..n : Waits(n, Order[j])
    <2>1. \A j \in 1..n : j <= n
      BY <1>0
    <2> QED  BY <1>5, <2>1 DEF Good
  <1>7. ASSUME z.pending # {}, AtRest(z), ~late PROVE z.nextDue # NoTimer
    <2> SUFFICES ASSUME z.nextDue = NoTimer PROVE FALSE
      OBVIOUS
    <2> DEFINE P == {i \in 1..n : Order[i] \in z.pending}
    <2>1. z.pending \subseteq Steps /\ Steps = z.pending \cup results \cup z.cancelled
      BY <1>6, <1>7 DEF Placed, AtRest
    <2>2. P \in SUBSET Nat /\ P # {}
      BY <1>0, <1>7, <2>1
    <2>3. PICK i \in P : \A j \in P : i <= j
      BY <2>2, LeastNumber
    <2>4. PICK d \in Dependencies[Order[i]] : d \notin results /\ d \notin z.cancelled
      BY <1>5, <1>6, <1>7, <2>3
    <2>5. d \in z.pending
      BY <1>0, <2>1, <2>3, <2>4
    <2>6. PICK j \in 1..n : j < i /\ Order[j] = d
      BY <1>0, <2>3, <2>4
    <2>7. j \in P /\ ~(i <= j)
      BY <1>0, <2>3, <2>5, <2>6
    <2> QED  BY <2>3, <2>7
  <1> QED  BY <1>5, <1>6, <1>7

-----------------------------------------------------------------------------
(* Where the steps are, in the variables of the loop.                      *)

Submissions == [step : Steps, stage : {"admission", "submit", "done"}] \cup {NoSubmission}

Here ==
    /\ pending \subseteq Steps /\ cancelled \subseteq Steps /\ outstanding \subseteq Steps
    /\ submission \in Submissions
    /\ pending \cup outstanding \cup results \cup cancelled = Steps
    /\ outstanding \cap (pending \cup cancelled) = {} /\ pending \cap cancelled = {}
    /\ \A s \in pending \cup cancelled : work[s] = "idle"
    /\ submission.stage \in {"admission", "submit"} =>
            submission.step \in outstanding /\ work[submission.step] = "idle"
    /\ \A s \in cancelled : \E d \in Dependencies[s] : d \in cancelled \/ work[d] = "failed"
    /\ \A s \in outstanding : Timely(s)
    /\ Window # NoWindow => Cardinality(outstanding) <= Window
    /\ Cooldown # NoCooldown /\ outstanding # {} =>
            /\ \A s, t \in outstanding : s = t
            /\ \A d \in results : age[d] >= Cooldown

LEMMA HereOf == (Placed(Current) <=> Here) /\ (Placed(Current)' <=> Here')
  <1>1. Placed(Current) <=> Here
    <2> DEFINE c == Current
    <2>1. /\ c = [pending |-> pending, cancelled |-> cancelled, outstanding |-> outstanding,
                  submission |-> submission, nextDue |-> NoTimer, sent |-> {}]
          /\ c.pending = pending /\ c.cancelled = cancelled /\ c.outstanding = outstanding
          /\ c.submission = submission /\ c.nextDue = NoTimer /\ c.sent = {}
      BY DEF Current
    <2> HIDE DEF c
    <2>2. c \in [pending : SUBSET Steps, cancelled : SUBSET Steps, outstanding : SUBSET Steps,
                 submission : Submissions, nextDue : 0..MaxAge \cup {NoTimer}, sent : SUBSET Messages]
          <=> /\ pending \subseteq Steps /\ cancelled \subseteq Steps /\ outstanding \subseteq Steps
              /\ submission \in Submissions
      BY <2>1
    <2>3. Placed(c) <=> Here
      BY <2>1, <2>2 DEF Placed, Here, Submissions
    <2> QED  BY <2>3 DEF c
  <1> QED  BY <1>1, PTL

\* A step that changes none of it.
LEMMA HereKept ==
    ASSUME Here, UNCHANGED <<pending, cancelled, outstanding, results, work, age, elapsed, mode>>,
           submission' \in {submission, NoSubmission}
    PROVE  Here'
  <1>1. NoSubmission.stage = "none" /\ NoSubmission \in Submissions
    BY DEF NoSubmission, Submissions
  <1>2. CASE submission' = submission
    BY <1>2 DEF Here, Timely, Succeeded, Window, Cooldown
  <1>3. CASE submission' = NoSubmission
    BY <1>1, <1>3 DEF Here, Timely, Succeeded, Window, Cooldown
  <1> QED  BY <1>2, <1>3

\* What executes is outstanding.
LEMMA ExecutingIsOutstanding ==
    ASSUME Here, Heard, NEW s \in Steps, work[s] = "executing" PROVE s \in outstanding
  BY DEF Here, Heard

-----------------------------------------------------------------------------
(* The steps of the loop.                                                  *)

LEMMA CollectKeeps == ASSUME ProgressInvariant, Collect PROVE ProgressInvariant'
  <1>0. /\ TypeOK /\ NothingStartsEarly /\ PermitWhileExecuting /\ Heard /\ Here
        /\ submission.stage = "submit" => permit
        /\ Cooldown # NoCooldown => \A d \in results : cool >= Cooldown - age[d]
    BY HereOf DEF ProgressInvariant
  <1>00. /\ MaxAge \in Nat /\ Cooldown \in 0..MaxAge \cup {NoCooldown} /\ Window \in Nat
    <2>1. mode \in [window : Nat, cooldown : 0..MaxAge \cup {NoCooldown}]
      BY <1>0, WorkflowAssumption DEF TypeOK
    <2> QED  BY <2>1, WorkflowAssumption DEF Window, Cooldown
  <1>1. \A s \in Finished : s \in Steps /\ work[s] \in {"ok", "failed"}
    BY <1>0 DEF Heard, Finished
  <1>2. Fresh \subseteq outstanding /\ Fresh \subseteq Finished /\ results \cup Fresh = results \cup Finished
    <2>1. \A s \in Fresh : s \in Steps /\ s \notin results /\ s \in Finished /\ work[s] # "idle"
      BY <1>1 DEF Fresh
    <2> QED  BY <1>0, <2>1 DEF Here, Fresh
  <1>3. /\ results' = results \cup Finished /\ outstanding' = outstanding \ Finished
        /\ cancelled' = cancelled /\ pending' = pending /\ batch' = {} /\ phase' = "evaluate"
        /\ submission' = IF submission.stage = "done" THEN NoSubmission ELSE submission
        /\ timer' = IF timer = Fired THEN NoTimer ELSE timer
        /\ UNCHANGED <<permit, inbox, mode, late, work, age, elapsed, redelivered>>
    <2>1. \A s \in {t \in Steps : CancelledMessage(t) \in batch} : s \in cancelled /\ s \notin pending
      BY <1>0 DEF Heard, Here
    <2> QED  BY <1>2, <2>1 DEF Collect, world
  <1>4. /\ cool' \in 0..MaxAge
        /\ Cooldown # NoCooldown /\ Fresh # {} => \A s \in Fresh : cool' >= Cooldown - age[s]
        /\ Fresh = {} => cool' = cool
    <2>1. CASE ~(Cooldown # NoCooldown /\ Fresh # {})
      BY <1>0, <2>1 DEF Collect, TypeOK
    <2>2. CASE Cooldown # NoCooldown /\ Fresh # {}
      <3> DEFINE S == {0} \cup {Cooldown - age[s] : s \in Fresh}
      <3>1. \A s \in Fresh : age[s] \in 0..MaxAge
        BY <1>0, <1>1, <1>2 DEF TypeOK
      <3>2. Cooldown \in 0..MaxAge
        BY <1>00, <2>2
      <3>3. S \in SUBSET Int /\ S # {} /\ \A x \in S : x <= MaxAge
        BY <1>00, <3>1, <3>2
      <3>4. cool' = Max(S)
        BY <2>2 DEF Collect
      <3>5. 0 \in S /\ \A s \in Fresh : Cooldown - age[s] \in S
        OBVIOUS
      <3> HIDE DEF S
      <3>6. Max(S) \in S /\ \A x \in S : x <= Max(S)
        <4>1. MaxAge \in Int
          BY <1>00
        <4> QED  BY ONLY <4>1, <3>3, MaxOf
      <3>7. Max(S) \in Int /\ Max(S) <= MaxAge /\ 0 <= Max(S)
        BY <3>3, <3>5, <3>6
      <3>8. \A s \in Fresh : cool' >= Cooldown - age[s]
        BY <3>2, <3>1, <3>4, <3>5, <3>6, <3>7
      <3> QED  BY <1>00, <2>2, <3>4, <3>7, <3>8
    <2> QED  BY <2>1, <2>2
  <1>5. submission' \in Submissions /\ (submission'.stage \in {"admission", "submit"} => submission' = submission)
    BY <1>0, <1>3 DEF Here, Submissions, NoSubmission
  <1>6. Cooldown # NoCooldown /\ Fresh # {} =>
            outstanding' = {} /\ \A d \in results : age[d] >= Cooldown
    BY <1>0, <1>2, <1>3 DEF Here
  <1>7. Fresh = {} => results' = results
    BY <1>2, <1>3
  <1>8. Here'
    <2>1. /\ pending' \subseteq Steps /\ cancelled' \subseteq Steps /\ outstanding' \subseteq Steps
          /\ pending' \cup outstanding' \cup results' \cup cancelled' = Steps
          /\ outstanding' \cap (pending' \cup cancelled') = {} /\ pending' \cap cancelled' = {}
          /\ \A s \in pending' \cup cancelled' : work'[s] = "idle"
          /\ \A s \in cancelled' : \E d \in Dependencies[s] : d \in cancelled' \/ work'[d] = "failed"
      BY <1>0, <1>1, <1>3 DEF Here
    <2>2. submission'.stage \in {"admission", "submit"} =>
              submission'.step \in outstanding' /\ work'[submission'.step] = "idle"
      BY <1>0, <1>1, <1>3, <1>5 DEF Here
    <2>3. \A s \in outstanding' : Timely(s)'
      BY <1>0, <1>3 DEF Here, Timely, Succeeded
    <2>4. Window' # NoWindow => Cardinality(outstanding') <= Window'
      <3>1. Window' = Window
        BY <1>3 DEF Window
      <3>2. IsFiniteSet(outstanding) /\ outstanding' \in SUBSET outstanding
        BY <1>0, <1>3, StepsOf, FS_Subset DEF Here
      <3>3. /\ Cardinality(outstanding') <= Cardinality(outstanding)
            /\ Cardinality(outstanding') \in Nat /\ Cardinality(outstanding) \in Nat
        BY <3>2, FS_Subset, FS_CardinalityType
      <3>4. Window # NoWindow => Cardinality(outstanding) <= Window
        BY <1>0 DEF Here
      <3> QED  BY <1>00, <3>1, <3>3, <3>4
    <2>5. Cooldown' # NoCooldown /\ outstanding' # {} =>
              /\ \A s, t \in outstanding' : s = t
              /\ \A d \in results' : age'[d] >= Cooldown'
      <3>1. Cooldown' = Cooldown
        BY <1>3 DEF Cooldown
      <3> QED  BY <1>0, <1>3, <1>6, <1>7, <3>1 DEF Here
    <2> QED  BY <1>5, <2>1, <2>2, <2>3, <2>4, <2>5 DEF Here
  <1>9. Cooldown' # NoCooldown => \A d \in results' : cool' >= Cooldown' - age'[d]
    <2>1. Cooldown' = Cooldown /\ age' = age
      BY <1>3 DEF Cooldown
    <2> SUFFICES ASSUME Cooldown # NoCooldown, NEW d \in results' PROVE cool' >= Cooldown - age[d]
      BY <2>1
    <2>2. CASE Fresh = {}
      BY <1>0, <1>4, <1>7, <2>2
    <2>3. CASE Fresh # {}
      <3>1. CASE d \in Fresh
        BY <1>4, <2>3, <3>1
      <3>2. CASE d \notin Fresh
        <4>1. d \in results /\ age[d] >= Cooldown /\ age[d] \in 0..MaxAge
          BY <1>0, <1>2, <1>3, <1>6, <2>3, <3>2 DEF TypeOK, Fresh
        <4> QED  BY <1>00, <1>4, <4>1
      <3> QED  BY <3>1, <3>2
    <2> QED  BY <2>2, <2>3
  <1>10. TypeOK'
    <2>1. results' \subseteq Steps
      BY <1>0, <1>1, <1>3 DEF TypeOK
    <2>2. submission'.stage \in {"none", "admission", "submit", "done"}
      BY <1>0, <1>3 DEF TypeOK, NoSubmission
    <2> QED  BY <1>0, <1>3, <1>4, <2>1, <2>2 DEF TypeOK
  <1>11. Heard'
    BY <1>0, <1>1, <1>3 DEF Heard
  <1>12. NothingStartsEarly' /\ PermitWhileExecuting' /\ NeverStalls'
    BY <1>0, <1>3 DEF NothingStartsEarly, Timely, Succeeded, PermitWhileExecuting, NeverStalls
  <1>13. (submission'.stage = "submit" => permit') /\ phase' # "returned"
    BY <1>0, <1>3, <1>5
  <1> QED  BY <1>8, <1>9, <1>10, <1>11, <1>12, <1>13, HereOf DEF ProgressInvariant

LEMMA EvaluateKeeps == ASSUME ProgressInvariant, Evaluate PROVE ProgressInvariant'
  <1> DEFINE z == Walk[Len(Order)]
             armed == Rearmed(z)
  <1>0. /\ TypeOK /\ NothingStartsEarly /\ PermitWhileExecuting /\ Heard /\ Here
        /\ submission.stage = "submit" => permit
        /\ Cooldown # NoCooldown => \A d \in results : cool >= Cooldown - age[d]
        /\ MaxAge \in Nat
    BY HereOf, WorkflowAssumption DEF ProgressInvariant
  <1>1. /\ pending' = z.pending /\ cancelled' = z.cancelled /\ outstanding' = z.outstanding
        /\ inbox' = inbox \cup z.sent /\ permit' = (permit /\ ~CoolsDown(z)) /\ phase' = Outcome(z, armed)
        /\ submission' = IF phase' \in Ends THEN NoSubmission ELSE z.submission
        /\ timer' = IF phase' \in Ends THEN NoTimer ELSE armed
        /\ UNCHANGED <<results, cool, batch, mode, late, work, age, elapsed, redelivered>>
    BY DEF Evaluate, world
  <1>2. /\ Placed(z)
        /\ outstanding \subseteq z.outstanding
        /\ submission # NoSubmission => z.submission = submission
        /\ z.submission = submission \/ z.submission.stage = "admission"
        /\ cancelled \subseteq z.cancelled
        /\ z.pending # {} /\ AtRest(z) /\ ~late => z.nextDue # NoTimer
    BY WalkKeeps
  <1> HIDE DEF z
  <1>3. z.nextDue \in 0..MaxAge \cup {NoTimer} /\ z.sent \subseteq Messages /\ z.submission \in Submissions
    BY <1>2 DEF Placed, Submissions
  <1>4. armed \in 0..MaxAge \cup {NoTimer, Fired} /\ (armed = NoTimer => z.nextDue = NoTimer)
    <2>1. timer \in 0..MaxAge \cup {NoTimer, Fired}
      BY <1>0 DEF TypeOK
    <2> QED  BY <1>0, <1>3, <2>1, MinOf DEF Rearmed, NoTimer, Fired
  <1> HIDE DEF armed
  <1>5. /\ phase' \in {"returned", "timed_out", "wait"}
        /\ phase' = "returned" => z.pending = {} /\ z.outstanding = {}
    BY <1>1, <1>2, <1>4 DEF Outcome, AtRest
  <1>6. Here'
    <2>1. NoSubmission.stage = "none" /\ NoSubmission \in Submissions
      BY DEF NoSubmission, Submissions
    <2>2. submission' \in Submissions /\ (submission'.stage \in {"admission", "submit"} => submission' = z.submission)
      BY <1>1, <1>3, <2>1
    <2>3. Window' = Window /\ Cooldown' = Cooldown
      BY <1>1 DEF Window, Cooldown
    <2>4. \A s \in outstanding' : Timely(s)'
      BY <1>1, <1>2 DEF Placed, Timely, Succeeded
    <2> QED  BY <1>1, <1>2, <2>2, <2>3, <2>4 DEF Here, Placed
  <1>7. Heard'
    <2>1. \A m \in z.sent : \E t \in z.cancelled : m = CancelledMessage(t)
      BY <1>2 DEF Placed
    <2>2. \A s \in Steps : Completed(s) \notin z.sent
      BY <2>1 DEF Completed, CancelledMessage
    <2>3. \A s \in Steps : CancelledMessage(s) \in z.sent => s \in z.cancelled
      BY <2>1 DEF CancelledMessage
    <2> QED  BY <1>0, <1>1, <1>2, <2>2, <2>3 DEF Heard
  <1>8. NothingStartsEarly'
    BY <1>0, <1>1, <1>2 DEF NothingStartsEarly, Placed, Timely, Succeeded
  <1>9. PermitWhileExecuting'
    <2> SUFFICES ASSUME NEW s \in Steps, work[s] = "executing" PROVE permit'
      BY <1>1 DEF PermitWhileExecuting
    <2>1. permit /\ s \in z.outstanding
      BY <1>0, <1>2, ExecutingIsOutstanding DEF PermitWhileExecuting
    <2> QED  BY <1>1, <2>1 DEF CoolsDown, AtRest
  <1>10. submission'.stage = "submit" => permit'
    <2> SUFFICES ASSUME submission'.stage = "submit" PROVE permit'
      OBVIOUS
    <2>1. submission' = z.submission /\ z.submission # NoSubmission
      BY <1>1 DEF NoSubmission
    <2>2. z.submission = submission
      BY <1>2, <2>1
    <2> QED  BY <1>0, <1>1, <2>1, <2>2 DEF CoolsDown, AtRest
  <1>11. TypeOK'
    <2>1. pending' \subseteq Steps /\ cancelled' \subseteq Steps /\ outstanding' \subseteq Steps
      BY <1>6 DEF Here
    <2>2. submission'.stage \in {"none", "admission", "submit", "done"}
      BY <1>6 DEF Here, Submissions, NoSubmission
    <2>3. timer' \in 0..MaxAge \cup {NoTimer, Fired} /\ inbox' \subseteq Messages
      BY <1>0, <1>1, <1>3, <1>4 DEF TypeOK
    <2>4. phase' \in {"collect", "evaluate", "wait"} \cup Ends
      BY <1>5 DEF Ends
    <2>5. permit' \in BOOLEAN
      BY <1>1
    <2> QED  BY <1>0, <1>1, <2>1, <2>2, <2>3, <2>4, <2>5 DEF TypeOK
  <1>12. Cooldown' # NoCooldown => \A d \in results' : cool' >= Cooldown' - age'[d]
    BY <1>0, <1>1 DEF Cooldown
  <1> QED  BY <1>1, <1>5, <1>6, <1>7, <1>8, <1>9, <1>10, <1>11, <1>12, HereOf DEF ProgressInvariant, NeverStalls

\* A step of the loop or of its tasks that leaves the steps and the Workers where they are.
LEMMA LoopKeeps ==
    ASSUME ProgressInvariant, TypeOK', phase' # "stalled",
           UNCHANGED <<pending, cancelled, outstanding, results, work, age, elapsed, mode, cool>>,
           submission' \in {submission, NoSubmission}, permit' = permit,
           inbox' \cup batch' \subseteq inbox \cup batch \cup {TimerMessage}
                                    \cup {Completed(s) : s \in {t \in Steps : work[t] \in {"ok", "failed"}}},
           phase' = "returned" => phase = "returned"
    PROVE  ProgressInvariant'
  <1>1. Here'
    BY HereKept, HereOf DEF ProgressInvariant
  <1>2. Heard'
    <2>1. \A s, t : Completed(s) # TimerMessage /\ CancelledMessage(s) # TimerMessage
                     /\ Completed(s) # CancelledMessage(t) /\ (Completed(s) = Completed(t) => s = t)
      BY DEF Completed, CancelledMessage, TimerMessage
    <2>2. Heard
      BY DEF ProgressInvariant
    <2> DEFINE Old == inbox \cup batch
               New == inbox' \cup batch'
    <2>3. ASSUME NEW s \in Steps, Completed(s) \in New PROVE Completed(s) \in Old \/ work[s] \in {"ok", "failed"}
      BY <2>1, <2>3
    <2>4. ASSUME NEW s \in Steps, CancelledMessage(s) \in New PROVE CancelledMessage(s) \in Old
      BY <2>1, <2>4
    <2> QED  BY <2>2, <2>3, <2>4 DEF Heard
  <1>3. NothingStartsEarly' /\ PermitWhileExecuting'
    BY DEF ProgressInvariant, NothingStartsEarly, Timely, Succeeded, PermitWhileExecuting
  <1>4. submission'.stage = "submit" => permit'
    BY DEF ProgressInvariant, NoSubmission
  <1>5. Cooldown' # NoCooldown => \A d \in results' : cool' >= Cooldown' - age'[d]
    BY DEF ProgressInvariant, Cooldown
  <1>6. phase' = "returned" => pending' = {} /\ outstanding' = {}
    BY DEF ProgressInvariant
  <1> QED  BY <1>1, <1>2, <1>3, <1>4, <1>5, <1>6, HereOf DEF ProgressInvariant, NeverStalls

\* The submission goes on.
LEMMA AcquireKeeps == ASSUME ProgressInvariant, AcquireAdmission PROVE ProgressInvariant'
  <1>0. TypeOK /\ Here /\ NothingStartsEarly /\ Heard /\ PermitWhileExecuting
    BY HereOf DEF ProgressInvariant
  <1>1. /\ submission.stage = "admission" /\ permit' = TRUE /\ submission' = [submission EXCEPT !.stage = "submit"]
        /\ UNCHANGED <<phase, pending, results, cancelled, outstanding, timer, cool, batch, inbox, mode, late,
                       work, age, elapsed, redelivered>>
    BY DEF AcquireAdmission, world
  <1>2. submission \in [step : Steps, stage : {"admission", "submit", "done"}]
    BY <1>0, <1>1 DEF Here, Submissions, NoSubmission
  <1>3. submission' \in Submissions /\ submission'.step = submission.step /\ submission'.stage = "submit"
    BY <1>1, <1>2 DEF Submissions
  <1>4. Here'
    BY <1>0, <1>1, <1>3 DEF Here, Timely, Succeeded, Window, Cooldown
  <1>5. TypeOK'
    BY <1>0, <1>1, <1>3 DEF TypeOK
  <1>6. NothingStartsEarly' /\ PermitWhileExecuting' /\ Heard'
    BY <1>0, <1>1 DEF NothingStartsEarly, Timely, Succeeded, PermitWhileExecuting, Heard
  <1> QED  BY <1>1, <1>4, <1>5, <1>6, HereOf DEF ProgressInvariant, NeverStalls, Cooldown

\* A Worker moves on: nothing that had succeeded or failed does.
LEMMA WorkKeeps ==
    ASSUME ProgressInvariant, NEW s \in Steps, s \in outstanding, NEW to \in {"executing", "ok", "failed"},
           work[s] \in {"idle", "executing"}, work' = [work EXCEPT ![s] = to],
           to = "executing" => permit, work[s] = "executing" => to # "executing",
           UNCHANGED <<mode, phase, pending, results, cancelled, outstanding, timer, cool, permit, batch, late,
                       age, elapsed, redelivered>>,
           inbox' \subseteq inbox \cup (IF to = "executing" THEN {} ELSE {Completed(s)}),
           submission' \in Submissions, submission'.stage \in {"admission", "submit"} => submission' = submission,
           submission.stage \in {"admission", "submit"} /\ submission.step = s => submission'.stage = "done"
    PROVE  ProgressInvariant'
  <1>0. TypeOK /\ Here /\ NothingStartsEarly /\ Heard /\ PermitWhileExecuting
    BY HereOf DEF ProgressInvariant
  <1>1. work'[s] = to /\ \A t \in Steps \ {s} : work'[t] = work[t]
    BY <1>0 DEF TypeOK
  <1>2. \A t \in Steps : work[t] \in {"ok", "failed"} => work'[t] = work[t]
    BY <1>1
  <1>3. \A t \in Steps : Timely(t) => Timely(t)'
    BY <1>2, StepsOf DEF Timely, Succeeded
  <1>4. s \notin pending /\ s \notin cancelled
    BY <1>0 DEF Here
  <1>5. Here'
    <2>1. \A t \in pending' \cup cancelled' : work'[t] = "idle"
      BY <1>0, <1>1, <1>4 DEF Here
    <2>2. \A t \in cancelled' : \E d \in Dependencies[t] : d \in cancelled' \/ work'[d] = "failed"
      BY <1>0, <1>2, StepsOf DEF Here
    <2>3. submission'.stage \in {"admission", "submit"} =>
              submission'.step \in outstanding' /\ work'[submission'.step] = "idle"
      BY <1>0, <1>1 DEF Here
    <2>4. \A t \in outstanding' : Timely(t)'
      BY <1>0, <1>3 DEF Here
    <2>5. Window' = Window /\ Cooldown' = Cooldown
      BY DEF Window, Cooldown
    <2> QED  BY <1>0, <2>1, <2>2, <2>3, <2>4, <2>5 DEF Here
  <1>6. NothingStartsEarly'
    BY <1>0, <1>1, <1>3 DEF NothingStartsEarly
  <1>7. PermitWhileExecuting'
    BY <1>0, <1>1 DEF PermitWhileExecuting
  <1>8. Heard'
    <2>1. \A t, u : Completed(t) # CancelledMessage(u) /\ (Completed(t) = Completed(u) => t = u)
      BY DEF Completed, CancelledMessage
    <2>2. ASSUME NEW t \in Steps, Completed(t) \in inbox' \cup batch' \/ t \in results'
          PROVE  work'[t] \in {"ok", "failed"}
      <3>1. \/ Completed(t) \in inbox \cup batch \/ t \in results
            \/ t = s /\ to # "executing"
        BY <2>1, <2>2
      <3> QED  BY <1>0, <1>1, <1>2, <3>1 DEF Heard
    <2>3. ASSUME NEW t \in Steps, CancelledMessage(t) \in inbox' \cup batch' PROVE t \in cancelled'
      <3>1. CancelledMessage(t) \in inbox \cup batch
        BY <2>1, <2>3
      <3> QED  BY <1>0, <3>1 DEF Heard
    <2> QED  BY <2>2, <2>3 DEF Heard
  <1>9. TypeOK'
    <2>1. inbox' \subseteq Messages
      BY <1>0 DEF TypeOK, Messages, Completed
    <2>2. work' \in [Steps -> {"idle", "executing", "ok", "failed"}]
      BY <1>0 DEF TypeOK
    <2>3. submission'.stage \in {"none", "admission", "submit", "done"}
      BY DEF Submissions, NoSubmission
    <2> QED  BY <1>0, <2>1, <2>2, <2>3 DEF TypeOK
  <1>10. submission'.stage = "submit" => permit'
    BY DEF ProgressInvariant
  <1>11. Cooldown' # NoCooldown => \A d \in results' : cool' >= Cooldown' - age'[d]
    BY DEF ProgressInvariant, Cooldown
  <1> QED  BY <1>5, <1>6, <1>7, <1>8, <1>9, <1>10, <1>11, HereOf DEF ProgressInvariant, NeverStalls

LEMMA SubmittedKeeps == ASSUME ProgressInvariant, Submitted PROVE ProgressInvariant'
  <1>0. Here /\ (submission.stage = "submit" => permit)
    BY HereOf DEF ProgressInvariant
  <1>1. /\ submission.stage = "submit" /\ work' = [work EXCEPT ![submission.step] = "executing"]
        /\ submission' = [submission EXCEPT !.stage = "done"]
        /\ UNCHANGED <<mode, phase, pending, results, cancelled, outstanding, timer, cool, permit, batch, inbox, late,
                       age, elapsed, redelivered>>
    BY DEF Submitted
  <1>2. submission \in [step : Steps, stage : {"admission", "submit", "done"}]
    BY <1>0, <1>1 DEF Here, Submissions, NoSubmission
  <1>3. submission' \in Submissions /\ submission'.stage = "done"
    BY <1>1, <1>2 DEF Submissions
  <1>4. submission.step \in Steps /\ submission.step \in outstanding /\ work[submission.step] = "idle"
    BY <1>0, <1>1, <1>2 DEF Here
  <1> QED  BY <1>0, <1>1, <1>3, <1>4, WorkKeeps

LEMMA CompletesKeeps ==
    ASSUME ProgressInvariant, NEW s \in Steps, WorkerCompletes(s) PROVE ProgressInvariant'
  <1>0. Here /\ Heard
    BY HereOf DEF ProgressInvariant
  <1>1. PICK to \in {"ok", "failed"} : work' = [work EXCEPT ![s] = to]
    BY DEF WorkerCompletes
  <1>2. /\ work[s] = "executing" /\ inbox' = inbox \cup {Completed(s)}
        /\ UNCHANGED <<mode, phase, pending, results, cancelled, outstanding, submission, timer, cool, permit, batch,
                       late, age, elapsed, redelivered>>
    BY DEF WorkerCompletes, local
  <1>3. s \in outstanding
    BY <1>0, <1>2, ExecutingIsOutstanding
  <1>4. submission \in Submissions /\ ~(submission.stage \in {"admission", "submit"} /\ submission.step = s)
    BY <1>0, <1>2 DEF Here
  <1> QED  BY <1>1, <1>2, <1>3, <1>4, WorkKeeps

\* Time passes: ages grow, and with them what was in time stays so.
LEMMA TickKeeps == ASSUME ProgressInvariant, Tick PROVE ProgressInvariant'
  <1>0. /\ TypeOK /\ Here /\ NothingStartsEarly /\ Heard /\ PermitWhileExecuting /\ MaxAge \in Nat
        /\ Cooldown \in 0..MaxAge \cup {NoCooldown}
        /\ \A s \in Steps : age[s] \in 0..MaxAge /\ Delay[s] \in 0..MaxAge /\ DueAt[s] \in 0..MaxAge
        /\ elapsed \in 0..MaxAge /\ cool \in 0..MaxAge /\ timer \in 0..MaxAge \cup {NoTimer, Fired}
    <2>1. mode \in [window : Nat, cooldown : 0..MaxAge \cup {NoCooldown}]
      BY WorkflowAssumption DEF ProgressInvariant, TypeOK
    <2> QED  BY <2>1, HereOf, WorkflowAssumption DEF ProgressInvariant, TypeOK, Cooldown
  <1>1. /\ age' = [s \in Steps |-> IF work[s] \in {"ok", "failed"} THEN Min({age[s] + 1, MaxAge}) ELSE age[s]]
        /\ elapsed' = Min({elapsed + 1, MaxAge})
        /\ timer' = IF timer > 0 THEN timer - 1 ELSE timer
        /\ cool' = Max({cool - 1, 0})
        /\ UNCHANGED <<mode, phase, pending, results, cancelled, outstanding, submission, permit,
                       batch, inbox, late, work, redelivered>>
    BY DEF Tick
  <1>2. elapsed' \in 0..MaxAge /\ elapsed' >= elapsed
    BY <1>0, <1>1, MinOf
  <1>3. cool' \in 0..MaxAge /\ cool' >= cool - 1
    BY <1>0, <1>1, MaxPair
  <1>4. timer' \in 0..MaxAge \cup {NoTimer, Fired}
    BY <1>0, <1>1 DEF NoTimer, Fired
  <1>5. ASSUME NEW s \in Steps
        PROVE  /\ age'[s] \in 0..MaxAge /\ age'[s] >= age[s]
               /\ work[s] \in {"ok", "failed"} => age'[s] >= age[s] + 1 \/ age'[s] = MaxAge
    <2>1. age[s] + 1 \in Int /\ MaxAge \in Int /\ age[s] \in 0..MaxAge
      BY <1>0
    <2>2. Min({age[s] + 1, MaxAge}) = IF age[s] + 1 <= MaxAge THEN age[s] + 1 ELSE MaxAge
      BY <2>1, MinOf
    <2>3. age'[s] = IF work[s] \in {"ok", "failed"} THEN Min({age[s] + 1, MaxAge}) ELSE age[s]
      BY <1>1
    <2> QED  BY <1>0, <2>1, <2>2, <2>3
  <1>6. age' \in [Steps -> 0..MaxAge]
    <2>1. age' = [s \in Steps |-> age'[s]]
      BY <1>1
    <2> QED  BY <1>5, <2>1
  <1>7. \A s \in Steps : Timely(s) => Timely(s)'
    <2> SUFFICES ASSUME NEW s \in Steps, Timely(s) PROVE Timely(s)'
      OBVIOUS
    <2>1. ASSUME NEW d \in Dependencies[s] PROVE Succeeded(d)' /\ age'[d] >= Delay[s]
      <3>1. d \in Steps /\ Succeeded(d) /\ age[d] >= Delay[s]
        BY StepsOf DEF Timely
      <3>2. age[d] \in 0..MaxAge /\ age'[d] \in 0..MaxAge /\ age'[d] >= age[d] /\ Delay[s] \in 0..MaxAge
        BY <1>0, <1>5, <3>1
      <3>3. age'[d] >= Delay[s]
        BY <1>0, <3>1, <3>2
      <3> QED  BY <1>1, <3>1, <3>3 DEF Succeeded
    <2>2. elapsed' >= DueAt[s] /\ (Dependencies[s] = {} => elapsed' >= Delay[s])
      <3>1. elapsed >= DueAt[s] /\ (Dependencies[s] = {} => elapsed >= Delay[s])
        BY DEF Timely
      <3>2. Delay[s] \in 0..MaxAge /\ DueAt[s] \in 0..MaxAge
        BY <1>0
      <3> QED  BY <1>0, <1>2, <3>1, <3>2
    <2> QED  BY <2>1, <2>2 DEF Timely
  <1>8. Window' = Window /\ Cooldown' = Cooldown
    BY <1>1 DEF Window, Cooldown
  <1>9. results \subseteq Steps /\ \A d \in results : work[d] \in {"ok", "failed"}
    BY <1>0 DEF TypeOK, Heard
  <1>10. Here'
    <2>1. Cooldown' # NoCooldown /\ outstanding' # {} =>
              /\ \A s, t \in outstanding' : s = t
              /\ \A d \in results' : age'[d] >= Cooldown'
      <3>1. ASSUME Cooldown # NoCooldown, outstanding # {}, NEW d \in results PROVE age'[d] >= Cooldown
        <4>1. d \in Steps /\ age[d] >= Cooldown /\ Cooldown \in 0..MaxAge
          BY <1>0, <1>9, <3>1 DEF Here
        <4>2. age[d] \in 0..MaxAge /\ age'[d] \in 0..MaxAge /\ age'[d] >= age[d]
          BY <1>0, <1>5, <4>1
        <4> QED  BY <1>0, <4>1, <4>2
      <3> QED  BY <1>0, <1>1, <1>8, <3>1 DEF Here
    <2>2. \A s \in outstanding' : Timely(s)'
      BY <1>0, <1>1, <1>7 DEF Here
    <2> QED  BY <1>0, <1>1, <1>8, <2>1, <2>2 DEF Here
  <1>11. Cooldown' # NoCooldown => \A d \in results' : cool' >= Cooldown' - age'[d]
    <2> SUFFICES ASSUME Cooldown # NoCooldown, NEW d \in results PROVE cool' >= Cooldown - age'[d]
      BY <1>1, <1>8
    <2>1. /\ age[d] \in 0..MaxAge /\ age'[d] \in 0..MaxAge /\ Cooldown \in 0..MaxAge
          /\ age'[d] >= age[d] + 1 \/ age'[d] = MaxAge
          /\ cool >= Cooldown - age[d]
      BY <1>0, <1>5, <1>9 DEF ProgressInvariant
    <2> QED  BY <1>0, <1>3, <2>1
  <1>12. TypeOK'
    BY <1>0, <1>1, <1>2, <1>3, <1>4, <1>6 DEF TypeOK
  <1>13. NothingStartsEarly' /\ Heard' /\ PermitWhileExecuting'
    BY <1>0, <1>1, <1>7 DEF NothingStartsEarly, Heard, PermitWhileExecuting
  <1> QED  BY <1>1, <1>10, <1>11, <1>12, <1>13, HereOf DEF ProgressInvariant, NeverStalls

LEMMA ProgressInit == Init => ProgressInvariant
  <1> SUFFICES ASSUME Init PROVE ProgressInvariant
    OBVIOUS
  <1>1. MaxAge \in Nat /\ MaxRedeliveries \in Nat /\ 0 \in 0..MaxAge /\ 0 \in 0..MaxRedeliveries
    BY WorkflowAssumption
  <1>2. TypeOK
    BY <1>1 DEF Init, TypeOK, NoSubmission
  <1>3. Here
    <2>1. Cardinality({}) = 0 /\ (Window # NoWindow => 0 <= Window)
      <3>1. mode \in [window : Nat, cooldown : 0..MaxAge \cup {NoCooldown}]
        BY WorkflowAssumption DEF Init
      <3> QED  BY <3>1, FS_EmptySet DEF Window
    <2>2. submission \in Submissions /\ submission.stage = "none"
      BY DEF Init, Submissions, NoSubmission
    <2> QED  BY <2>1, <2>2 DEF Init, Here
  <1>4. Heard /\ NothingStartsEarly /\ PermitWhileExecuting /\ NeverStalls
    BY DEF Init, Heard, NothingStartsEarly, PermitWhileExecuting, NeverStalls
  <1>5. submission.stage # "submit" /\ results = {} /\ phase # "returned"
    BY DEF Init, NoSubmission
  <1> QED  BY <1>2, <1>3, <1>4, <1>5, HereOf DEF ProgressInvariant

LEMMA ProgressStep == ProgressInvariant /\ [Next]_vars => ProgressInvariant'
  <1> SUFFICES ASSUME ProgressInvariant, [Next]_vars PROVE ProgressInvariant'
    OBVIOUS
  <1>0. TypeOK /\ NeverStalls /\ Heard /\ MaxRedeliveries \in Nat
    BY WorkflowAssumption DEF ProgressInvariant
  <1>1. CASE Wake
    <2>1. TypeOK'
      BY <1>0, <1>1 DEF TypeOK, Wake, local, world
    <2> QED  BY <1>1, <2>1, LoopKeeps DEF Wake, local, world
  <1>2. CASE Fails
    <2>1. TypeOK'
      BY <1>0, <1>2 DEF TypeOK, Fails, world, Ends, NoSubmission
    <2> QED  BY <1>2, <2>1, LoopKeeps DEF Fails, world
  <1>3. CASE Receive
    <2>1. TypeOK'
      BY <1>0, <1>3 DEF TypeOK, Receive, local, world
    <2> QED  BY <1>0, <1>3, <2>1, LoopKeeps DEF Receive, local, world, NeverStalls
  <1>4. ASSUME NEW s \in Steps, Redeliver(s) PROVE ProgressInvariant'
    <2>1. redelivered' \in 0..MaxRedeliveries /\ inbox' \subseteq Messages
      BY <1>0, <1>4 DEF TypeOK, Redeliver, Messages, Completed
    <2>2. TypeOK'
      BY <1>0, <1>4, <2>1 DEF TypeOK, Redeliver, local
    <2>3. work[s] \in {"ok", "failed"} /\ inbox' = inbox \cup {Completed(s)} /\ batch' = batch
      BY <1>0, <1>4 DEF Redeliver, Heard
    <2> QED  BY <1>0, <1>4, <2>2, <2>3, LoopKeeps DEF Redeliver, local, NeverStalls
  <1>5. CASE FireTimer
    <2>1. TypeOK'
      BY <1>0, <1>5 DEF TypeOK, FireTimer, world, Messages
    <2> QED  BY <1>0, <1>5, <2>1, LoopKeeps DEF FireTimer, world, NeverStalls
  <1>6. CASE DeadlinePasses
    <2>1. TypeOK'
      BY <1>0, <1>6 DEF TypeOK, DeadlinePasses, local
    <2> QED  BY <1>0, <1>6, <2>1, LoopKeeps DEF DeadlinePasses, local, NeverStalls
  <1>7. CASE UNCHANGED vars
    <2>1. TypeOK'
      BY <1>0, <1>7 DEF TypeOK, vars, local, world
    <2> QED  BY <1>0, <1>7, <2>1, LoopKeeps DEF vars, local, world, NeverStalls
  <1> QED
    BY <1>1, <1>2, <1>3, <1>4, <1>5, <1>6, <1>7, CollectKeeps, EvaluateKeeps, AcquireKeeps, SubmittedKeeps,
       CompletesKeeps, TickKeeps DEF Next

LEMMA ProgressIsEnough == ProgressInvariant => LoopInvariant
  <1> SUFFICES ASSUME ProgressInvariant PROVE LoopInvariant
    OBVIOUS
  <1>0. Here /\ Heard /\ TypeOK
    BY HereOf DEF ProgressInvariant
  <1>1. WindowKept
    <2> DEFINE E == {s \in Steps : work[s] = "executing"}
    <2> SUFFICES ASSUME Window # NoWindow PROVE Cardinality(E) <= Window
      BY DEF WindowKept
    <2>1. E \in SUBSET outstanding
      BY <1>0, ExecutingIsOutstanding
    <2>2. IsFiniteSet(outstanding) /\ Cardinality(outstanding) <= Window
      BY <1>0, StepsOf, FS_Subset DEF Here
    <2> HIDE DEF E
    <2>3. Cardinality(E) <= Cardinality(outstanding) /\ Cardinality(E) \in Nat /\ Cardinality(outstanding) \in Nat
      BY <2>1, <2>2, FS_Subset, FS_CardinalityType
    <2>4. Window \in Nat
      <3>1. mode \in [window : Nat, cooldown : 0..MaxAge \cup {NoCooldown}]
        BY <1>0, WorkflowAssumption DEF TypeOK
      <3> QED  BY <3>1 DEF Window
    <2> QED  BY <2>2, <2>3, <2>4
  <1>2. EveryStepAccounted
    <2> SUFFICES ASSUME phase = "returned"
                 PROVE  /\ results \cup cancelled = Steps /\ results \cap cancelled = {}
                        /\ \A s \in cancelled : \E d \in Dependencies[s] : d \in cancelled \/ work[d] = "failed"
                        /\ \A s \in results : work[s] \in {"ok", "failed"}
      BY DEF EveryStepAccounted
    <2>1. pending = {} /\ outstanding = {} /\ results \subseteq Steps
      BY <1>0 DEF ProgressInvariant, TypeOK
    <2>2. \A s \in results : work[s] \in {"ok", "failed"}
      BY <1>0, <2>1 DEF Heard
    <2>3. \A s \in cancelled : work[s] = "idle"
      BY <1>0 DEF Here
    <2>4. results \cap cancelled = {}
      BY <2>2, <2>3
    <2> QED  BY <1>0, <2>1, <2>2, <2>4 DEF Here
  <1> QED  BY <1>1, <1>2 DEF ProgressInvariant, LoopInvariant

\* For any workflow, window and cooldown: no step is submitted before its dependencies
\* have succeeded and its time has come, the window and the admission cover what executes,
\* the Runner always has something to wait for, and a normal end leaves no step out.
THEOREM LoopStaysRight == Spec => []LoopInvariant
  <1>1. Spec => []ProgressInvariant
    BY ProgressInit, ProgressStep, PTL DEF Spec
  <1> QED  BY <1>1, ProgressIsEnough, PTL

\* A serial Runner never submits a step before its cooldown has passed since every
\* completion, whatever is redelivered.
THEOREM CooldownIsKept == Spec => CooldownKept
  <1> DEFINE Cooled == \A s \in outstanding' \ outstanding : \A d \in Steps :
                           Cooldown # NoCooldown /\ work[d] \in {"ok", "failed"} => age[d] >= Cooldown
  <1>1. Spec => []ProgressInvariant
    BY ProgressInit, ProgressStep, PTL DEF Spec
  <1>2. ASSUME ProgressInvariant, Evaluate PROVE Cooled
    <2> DEFINE z == Walk[Len(Order)]
    <2> SUFFICES ASSUME NEW s \in outstanding' \ outstanding, NEW d \in Steps,
                        Cooldown # NoCooldown, work[d] \in {"ok", "failed"}
                 PROVE  age[d] >= Cooldown
      OBVIOUS
    <2>1. outstanding' = z.outstanding
      BY <1>2 DEF Evaluate
    <2>2. Placed(z) /\ z.outstanding \subseteq outstanding \cup pending
      BY <1>2, WalkKeeps
    <2> HIDE DEF z
    <2>3. s \in z.outstanding /\ s \in pending
      BY <2>1, <2>2
    <2>4. work[s] = "idle"
      BY <1>2, <2>3, HereOf DEF ProgressInvariant, Here
    <2>5. d \notin z.outstanding
      BY <2>2, <2>3, <2>4 DEF Placed
    <2>6. d \in results
      BY <2>2, <2>5 DEF Placed
    <2> QED  BY <2>2, <2>3, <2>6 DEF Placed
  <1>3. ASSUME ProgressInvariant, Next, ~Evaluate PROVE outstanding' \subseteq outstanding
    BY <1>3 DEF Next, local, Collect, Wake, Fails, AcquireAdmission, Submitted, WorkerCompletes, Redeliver, Receive,
                FireTimer, Tick, DeadlinePasses
  <1>4. ProgressInvariant /\ [Next]_vars => [Cooled]_vars
    BY <1>2, <1>3
  <1> QED  BY <1>1, <1>4, PTL DEF Spec, CooldownKept
=============================================================================
