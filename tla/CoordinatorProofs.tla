------------------------- MODULE CoordinatorProofs -------------------------
(***************************************************************************)
(* Proofs about Coordinator: the ready queue, the marks, the permits and   *)
(* the rounds agree for any number of Runners, Campaigns and permits,      *)
(* through stale passes, failing transactions and restarts.                *)
(***************************************************************************)
EXTENDS Coordinator, FiniteSetTheorems, NaturalsInduction, WellFoundedInduction, TLAPS

-----------------------------------------------------------------------------
(* Sequences and numbers, as the provers need them.                        *)

\* A nonempty set of natural numbers has a least element.
LEMMA LeastNumber ==
    ASSUME NEW N \in SUBSET Nat, N # {}
    PROVE  \E x \in N : \A y \in N : x <= y
  <1> DEFINE R == OpToRel(<, Nat)
  <1>1. IsWellFoundedOn(R, Nat)
    BY NatLessThanWellFounded
  <1>2. \A x, y \in Nat : x < y => <<x, y>> \in R
    BY DEF OpToRel
  <1> HIDE DEF R
  <1>3. PICK x \in N : \A y \in N : ~(<<y, x>> \in R)
    BY <1>1, WFMin
  <1>4. ASSUME NEW y \in N PROVE x <= y
    <2>1. x \in Nat /\ y \in Nat /\ ~(y < x)
      BY <1>2, <1>3
    <2> QED  BY <2>1
  <1> QED  BY <1>4

LEMMA RangeOf ==
    ASSUME NEW f PROVE \A x : x \in Range(f) <=> \E i \in DOMAIN f : f[i] = x
  BY DEF Range

LEMMA EmptyOf == ASSUME NEW R, NEW s \in Seq(R) PROVE s = <<>> <=> Len(s) = 0
  OBVIOUS

LEMMA AppendOf ==
    ASSUME NEW R, NEW s \in Seq(R), NEW x \in R
    PROVE  /\ Append(s, x) \in Seq(R) /\ Append(s, x) # <<>>
           /\ DOMAIN Append(s, x) = DOMAIN s \cup {Len(s) + 1} /\ Len(s) + 1 \notin DOMAIN s
           /\ \A k \in DOMAIN s : Append(s, x)[k] = s[k]
           /\ Append(s, x)[Len(s) + 1] = x
  OBVIOUS

LEMMA TailOf ==
    ASSUME NEW R, NEW s \in Seq(R), s # <<>>
    PROVE  /\ Head(s) \in R /\ Head(s) = s[1] /\ Len(s) \in Nat \ {0} /\ DOMAIN s = 1..Len(s)
           /\ Tail(s) \in Seq(R) /\ DOMAIN Tail(s) = 1..(Len(s) - 1)
           /\ \A k \in 1..(Len(s) - 1) : Tail(s)[k] = s[k + 1]
           /\ Tail(s) # <<>> <=> Len(s) > 1
  <1>1. /\ Head(s) \in R /\ Head(s) = s[1] /\ Len(s) \in Nat \ {0} /\ DOMAIN s = 1..Len(s)
        /\ Tail(s) \in Seq(R) /\ Len(Tail(s)) = Len(s) - 1
        /\ \A k \in 1..(Len(s) - 1) : Tail(s)[k] = s[k + 1]
    OBVIOUS
  <1>2. DOMAIN Tail(s) = 1..(Len(s) - 1)
    BY <1>1
  <1>3. Tail(s) # <<>> <=> Len(Tail(s)) # 0
    BY <1>1, EmptyOf
  <1> QED  BY <1>1, <1>2, <1>3

\* One more, and one of a kind.
LEMMA AppendFresh ==
    ASSUME NEW R, NEW s \in Seq(R), NEW x \in R, IsInjective(s), x \notin Range(s)
    PROVE  IsInjective(Append(s, x)) /\ Range(Append(s, x)) = Range(s) \cup {x}
  <1> DEFINE a == Append(s, x)
             n == Len(s) + 1
  <1>1. /\ DOMAIN a = DOMAIN s \cup {n} /\ n \notin DOMAIN s
        /\ \A k \in DOMAIN s : a[k] = s[k]
        /\ a[n] = x
    BY AppendOf
  <1> HIDE DEF a, n
  <1>2. \A k \in DOMAIN s : s[k] # x
    BY RangeOf
  <1>3. IsInjective(a)
    BY <1>1, <1>2 DEF IsInjective
  <1>4. Range(a) = Range(s) \cup {x}
    BY <1>1 DEF Range
  <1> QED  BY <1>3, <1>4 DEF a

LEMMA TailRest ==
    ASSUME NEW R, NEW s \in Seq(R), s # <<>>, IsInjective(s)
    PROVE  IsInjective(Tail(s)) /\ Range(Tail(s)) = Range(s) \ {Head(s)} /\ Head(s) \in Range(s)
  <1> DEFINE t == Tail(s)
             n == Len(s)
  <1>1. /\ Head(s) = s[1] /\ n \in Nat \ {0} /\ DOMAIN s = 1..n /\ DOMAIN t = 1..(n - 1)
        /\ \A k \in 1..(n - 1) : t[k] = s[k + 1]
    BY TailOf
  <1> HIDE DEF t, n
  <1>2. \A k \in 1..(n - 1) : k + 1 \in 1..n /\ k + 1 # 1
    BY <1>1
  <1>3. \A k \in 1..n : k # 1 => k - 1 \in 1..(n - 1) /\ (k - 1) + 1 = k
    BY <1>1
  <1>4. IsInjective(t)
    <2> SUFFICES ASSUME NEW j \in 1..(n - 1), NEW k \in 1..(n - 1), t[j] = t[k] PROVE j = k
      BY <1>1 DEF IsInjective
    <2>1. j + 1 \in DOMAIN s /\ k + 1 \in DOMAIN s
      BY <1>1, <1>2
    <2>2. s[j + 1] = s[k + 1]
      BY <1>1
    <2>3. j + 1 = k + 1
      BY <2>1, <2>2 DEF IsInjective
    <2> QED  BY <2>3
  <1>5. ASSUME NEW x \in Range(s), x # s[1] PROVE x \in Range(t)
    <2>1. PICK k \in 1..n : s[k] = x
      BY <1>1, RangeOf
    <2>2. k - 1 \in DOMAIN t /\ t[k - 1] = x
      BY <1>1, <1>3, <1>5, <2>1
    <2> QED  BY <2>2, RangeOf
  <1>6. ASSUME NEW x \in Range(t) PROVE x \in Range(s) /\ x # s[1]
    <2>1. PICK k \in 1..(n - 1) : t[k] = x
      BY <1>1, RangeOf
    <2>2. k + 1 \in DOMAIN s /\ s[k + 1] = x /\ 1 \in DOMAIN s
      BY <1>1, <1>2, <2>1
    <2>3. x # s[1]
      BY <1>2, <2>1, <2>2 DEF IsInjective
    <2> QED  BY <2>2, <2>3, RangeOf
  <1>7. s[1] \in Range(s)
    BY <1>1, RangeOf
  <1> QED  BY <1>1, <1>4, <1>5, <1>6, <1>7 DEF t

-----------------------------------------------------------------------------
(* The ready queue.                                                        *)

LEMMA PlacesOf ==
    ASSUME NEW q
    PROVE  \A z : z \in PlacesIn(q) <=>
                    \E c \in Campaign : \E i \in DOMAIN q[c] : z = <<c, i>>
  BY DEF PlacesIn

LEMMA QueuedOf ==
    ASSUME NEW q
    PROVE  \A x : x \in Queued(q) <=> \E c \in Campaign : x \in Range(q[c])
  BY DEF Queued

\* A Runner is put at the end of the queue of its Campaign, if there is room and it is
\* nowhere else.
LEMMA EnqueuedKeeps ==
    ASSUME NEW q, Consistent(q), NEW r \in Runner
    PROVE  /\ Consistent(Enqueued(r, q)) /\ Enqueued(r, q).admitted \subseteq q.admitted \cup {r}
           /\ q.order # <<>> => Enqueued(r, q).order # <<>>
  <1> DEFINE c == CampaignOf[r]
             e == Enqueued(r, q)
             s == q.queue[c]
             n == Len(s) + 1
  <1>1. CASE TotalOf(q.queue) >= ReadyCapacity \/ r \in q.admitted
    BY <1>1 DEF Enqueued
  <1>2. CASE ~(TotalOf(q.queue) >= ReadyCapacity \/ r \in q.admitted)
    <2>1. /\ c \in Campaign /\ s \in Seq(Runner)
          /\ q.queue \in [Campaign -> Seq(Runner)] /\ q.order \in Seq(Campaign)
          /\ q.admitted \subseteq Runner
      BY ConstantsAssumption DEF Consistent
    <2>2. /\ e.queue = [q.queue EXCEPT ![c] = Append(s, r)]
          /\ e.order = IF s = <<>> THEN Append(q.order, c) ELSE q.order
          /\ e.admitted = q.admitted \cup {r}
          /\ e = [queue |-> e.queue, order |-> e.order, admitted |-> e.admitted]
      BY <1>2 DEF Enqueued
    <2>3. r \notin Queued(q.queue) /\ r \notin Elsewhere
      BY <1>2 DEF Consistent
    <2>4. r \notin Range(s)
      BY <2>1, <2>3, QueuedOf
    <2> HIDE DEF e, s
    <2>5. Append(s, r) \in Seq(Runner) /\ Append(s, r) # <<>>
      BY <2>1, AppendOf
    <2>6. /\ e.queue \in [Campaign -> Seq(Runner)]
          /\ e.queue[c] = Append(s, r) /\ \A d \in Campaign \ {c} : e.queue[d] = q.queue[d]
      BY <2>1, <2>2, <2>5
    <2>7. IsInjective(s) /\ \A i \in DOMAIN s : CampaignOf[s[i]] = c
      BY <2>1 DEF Consistent, s
    <2>8. IsInjective(Append(s, r)) /\ Range(Append(s, r)) = Range(s) \cup {r}
      BY <2>1, <2>4, <2>7, AppendFresh
    <2>9. \A d \in Campaign : /\ IsInjective(e.queue[d])
                              /\ \A i \in DOMAIN e.queue[d] : CampaignOf[e.queue[d][i]] = d
      <3>1. \A i \in DOMAIN Append(s, r) : CampaignOf[Append(s, r)[i]] = c
        BY <2>1, <2>7, AppendOf
      <3>2. \A d \in Campaign : /\ IsInjective(q.queue[d])
                                /\ \A i \in DOMAIN q.queue[d] : CampaignOf[q.queue[d][i]] = d
        BY DEF Consistent
      <3> SUFFICES ASSUME NEW d \in Campaign
                   PROVE  /\ IsInjective(e.queue[d])
                          /\ \A i \in DOMAIN e.queue[d] : CampaignOf[e.queue[d][i]] = d
        OBVIOUS
      <3>3. CASE d = c
        BY <3>3, <3>1, <2>6, <2>8
      <3>4. CASE d # c
        <4>1. e.queue[d] = q.queue[d]
          BY <3>4, <2>6
        <4> QED  BY <4>1, <3>2
      <3> QED  BY <3>3, <3>4
    <2>10. e.order \in Seq(Campaign) /\ IsInjective(e.order)
           /\ Range(e.order) = {d \in Campaign : e.queue[d] # <<>>}
      <3>1. IsInjective(q.order) /\ Range(q.order) = {d \in Campaign : q.queue[d] # <<>>}
        BY DEF Consistent
      <3>2. CASE s = <<>>
        <4>1. c \notin Range(q.order)
          BY <3>1, <3>2 DEF s
        <4>2. IsInjective(e.order) /\ Range(e.order) = Range(q.order) \cup {c} /\ e.order \in Seq(Campaign)
          BY <2>1, <2>2, <3>1, <3>2, <4>1, AppendFresh, AppendOf
        <4> QED  BY <2>1, <2>5, <2>6, <3>1, <4>2
      <3>3. CASE s # <<>>
        <4>1. e.order = q.order
          BY <2>2, <3>3
        <4>2. \A d \in Campaign : e.queue[d] # <<>> <=> q.queue[d] # <<>>
          BY <2>5, <2>6, <3>3 DEF s
        <4> QED  BY <2>1, <3>1, <4>1, <4>2
      <3> QED  BY <3>2, <3>3
    <2>11. IsFiniteSet(PlacesIn(e.queue)) /\ TotalOf(e.queue) <= ReadyCapacity
      <3> DEFINE p == <<c, n>>
      <3>1. DOMAIN Append(s, r) = DOMAIN s \cup {n} /\ n \notin DOMAIN s
        BY <2>1, AppendOf
      <3>2. PlacesIn(e.queue) = PlacesIn(q.queue) \cup {p}
        <4>1. \A z : z \in PlacesIn(e.queue) <=> z \in PlacesIn(q.queue) \/ z = p
          <5>1. ASSUME NEW z \in PlacesIn(e.queue) PROVE z \in PlacesIn(q.queue) \/ z = p
            <6>1. PICK d \in Campaign : \E i \in DOMAIN e.queue[d] : z = <<d, i>>
              BY PlacesOf
            <6>2. PICK i \in DOMAIN e.queue[d] : z = <<d, i>>
              BY <6>1
            <6>3. i \in DOMAIN q.queue[d] \/ (d = c /\ i = n)
              <7>1. CASE d = c
                BY <2>6, <3>1, <6>1, <6>2, <7>1 DEF s
              <7>2. CASE d # c
                BY <2>6, <6>1, <6>2, <7>2
              <7> QED  BY <7>1, <7>2
            <6> QED  BY <6>2, <6>3, PlacesOf
          <5>2. ASSUME NEW z \in PlacesIn(q.queue) PROVE z \in PlacesIn(e.queue)
            <6>1. PICK d \in Campaign : \E i \in DOMAIN q.queue[d] : z = <<d, i>>
              BY PlacesOf
            <6>2. PICK i \in DOMAIN q.queue[d] : z = <<d, i>>
              BY <6>1
            <6>3. i \in DOMAIN e.queue[d]
              BY <2>6, <3>1, <6>2 DEF s
            <6> QED  BY <6>2, <6>3, PlacesOf
          <5>3. p \in PlacesIn(e.queue)
            <6>1. n \in DOMAIN e.queue[c]
              BY <2>6, <3>1
            <6> QED  BY <2>1, <6>1, PlacesOf
          <5> QED  BY <5>1, <5>2, <5>3
        <4> HIDE DEF p
        <4> QED  BY <4>1
      <3>3. p \notin PlacesIn(q.queue)
        BY <3>1, PlacesOf DEF s
      <3> HIDE DEF p
      <3>4. IsFiniteSet(PlacesIn(q.queue)) /\ Cardinality(PlacesIn(q.queue)) \in Nat
            /\ Cardinality(PlacesIn(q.queue)) < ReadyCapacity
        BY <1>2, FS_CardinalityType, ConstantsAssumption DEF Consistent, TotalOf
      <3>5. IsFiniteSet(PlacesIn(e.queue)) /\ Cardinality(PlacesIn(e.queue)) = Cardinality(PlacesIn(q.queue)) + 1
        BY <3>2, <3>3, <3>4, FS_AddElement
      <3> QED  BY <3>4, <3>5, ConstantsAssumption DEF TotalOf
    <2>12. Queued(e.queue) = Queued(q.queue) \cup {r}
      <3>1. \A x : x \in Queued(e.queue) <=> x \in Queued(q.queue) \/ x = r
        <4>1. \A d \in Campaign : Range(e.queue[d]) = IF d = c THEN Range(q.queue[d]) \cup {r}
                                                     ELSE Range(q.queue[d])
          BY <2>1, <2>6, <2>8 DEF s
        <4> HIDE DEF c
        <4> QED  BY <2>1, <4>1, QueuedOf
      <3> QED  BY <3>1
    <2>13. e.admitted = Queued(e.queue) \cup Elsewhere /\ Queued(e.queue) \cap Elsewhere = {}
      <3>1. q.admitted = Queued(q.queue) \cup Elsewhere /\ Queued(q.queue) \cap Elsewhere = {}
        BY DEF Consistent
      <3> QED  BY <2>2, <2>3, <2>12, <3>1
    <2>14. e \in [queue : [Campaign -> Seq(Runner)], order : Seq(Campaign), admitted : SUBSET Runner]
      BY <2>1, <2>2, <2>6, <2>10
    <2>15. Consistent(e)
      BY <2>9, <2>10, <2>11, <2>13, <2>14 DEF Consistent
    <2>16. q.order # <<>> => e.order # <<>>
      BY <2>1, <2>2, AppendOf
    <2> QED  BY <2>2, <2>15, <2>16 DEF e
  <1> QED  BY <1>1, <1>2

\* The loop of _enqueue_runners is well defined.
LEMMA TurnsOf ==
    ASSUME NEW rs, created \in Seq(Runner)
    PROVE  Turns(rs) = [i \in 0..Len(created) |->
                IF i = 0 THEN Ready
                ELSE IF created[i] \in rs THEN Enqueued(created[i], Turns(rs)[i - 1])
                ELSE Turns(rs)[i - 1]]
  <1> DEFINE n == Len(created)
             Step(i, x) == IF created[i] \in rs THEN Enqueued(created[i], x) ELSE x
             Is(f, m) == f = [i \in 0..m |-> IF i = 0 THEN Ready ELSE Step(i, f[i - 1])]
             None == {m \in Nat : ~\E f : Is(f, m)}
  <1>1. None = {}
    <2> SUFFICES ASSUME None # {} PROVE FALSE
      OBVIOUS
    <2>1. PICK m \in None : \A k \in None : m <= k
      BY LeastNumber, None \in SUBSET Nat
    <2>2. CASE m = 0
      <3> DEFINE f == [i \in 0..0 |-> Ready]
      <3>1. Is(f, 0)
        BY 0..0 = {0}
      <3> QED  BY <2>1, <2>2, <3>1
    <2>3. CASE m # 0
      <3>1. m \in Nat /\ m - 1 \in Nat /\ m - 1 \notin None
        <4>1. m \in Nat /\ m - 1 \in Nat /\ ~(m <= m - 1)
          BY <2>3
        <4> HIDE DEF None
        <4> QED  BY <2>1, <4>1
      <3>2. PICK f : Is(f, m - 1)
        BY <3>1
      <3> DEFINE g == [i \in 0..m |-> IF i = m THEN Step(m, f[m - 1]) ELSE f[i]]
      <3> HIDE DEF Step
      <3>3. \A i \in 0..m : i # m => i \in 0..(m - 1) /\ i - 1 # m
        BY <3>1
      <3>4. \A i \in 0..m : i # 0 => i - 1 \in 0..(m - 1) /\ i - 1 \in 0..m /\ i - 1 # m
        BY <3>1
      <3>5. \A i \in 0..(m - 1) : f[i] = IF i = 0 THEN Ready ELSE Step(i, f[i - 1])
        BY <3>2
      <3>6. \A i \in 0..m : i # 0 => g[i - 1] = f[i - 1]
        BY <3>4
      <3>7. \A i \in 0..m : g[i] = IF i = 0 THEN Ready ELSE Step(i, g[i - 1])
        <4> TAKE i \in 0..m
        <4>1. CASE i = m
          BY <4>1, <3>1, <3>6, <2>3
        <4>2. CASE i # m
          BY <4>2, <3>3, <3>5, <3>6
        <4> QED  BY <4>1, <4>2
      <3>8. Is(g, m)
        BY <3>7
      <3> HIDE DEF g, Is
      <3> QED  BY <2>1, <3>8
    <2> QED  BY <2>2, <2>3
  <1>2. n \in Nat
    OBVIOUS
  <1>3. \E f : Is(f, n)
    <2> HIDE DEF Is
    <2> QED  BY <1>1, <1>2
  <1> QED  BY <1>3, Zenon DEF Turns

\* The loop keeps the queue consistent, and marks none but the Runners it was given.
LEMMA TurnsKeep ==
    ASSUME NEW rs, created \in Seq(Runner), Consistent(Ready)
    PROVE  /\ Consistent(Turns(rs)[Len(created)])
           /\ Turns(rs)[Len(created)].admitted \subseteq admitted \cup rs
           /\ order # <<>> => Turns(rs)[Len(created)].order # <<>>
  <1> DEFINE n == Len(created)
             t == Turns(rs)
             Good(i) == /\ Consistent(t[i]) /\ t[i].admitted \subseteq admitted \cup rs
                        /\ order # <<>> => t[i].order # <<>>
             Bad == {i \in 0..n : ~Good(i)}
  <1>1. n \in Nat /\ \A i \in 1..n : created[i] \in Runner
    OBVIOUS
  <1>2. \A i \in 0..n : t[i] = IF i = 0 THEN Ready
                               ELSE IF created[i] \in rs THEN Enqueued(created[i], t[i - 1])
                               ELSE t[i - 1]
    BY TurnsOf
  <1> HIDE DEF t
  <1>3. Good(0)
    BY <1>1, <1>2 DEF Ready
  <1>4. ASSUME NEW i \in 0..n, i # 0, Good(i - 1) PROVE Good(i)
    <2>1. i \in 1..n
      BY <1>1, <1>4
    <2>2. CASE created[i] \in rs
      <3>1. /\ t[i] = Enqueued(created[i], t[i - 1])
            /\ Consistent(Enqueued(created[i], t[i - 1]))
            /\ Enqueued(created[i], t[i - 1]).admitted \subseteq t[i - 1].admitted \cup {created[i]}
            /\ t[i - 1].order # <<>> => Enqueued(created[i], t[i - 1]).order # <<>>
        BY <1>1, <1>2, <1>4, <2>1, <2>2, EnqueuedKeeps
      <3> QED  BY <1>4, <2>2, <3>1
    <2>3. CASE created[i] \notin rs
      BY <1>2, <1>4, <2>3
    <2> QED  BY <2>2, <2>3
  <1> HIDE DEF Good
  <1>5. Bad = {}
    <2> SUFFICES ASSUME Bad # {} PROVE FALSE
      OBVIOUS
    <2>1. Bad \in SUBSET Nat
      BY <1>1
    <2>2. PICK i \in Bad : \A j \in Bad : i <= j
      BY <2>1, LeastNumber
    <2>3. i \in 0..n /\ i # 0 /\ ~Good(i)
      BY <1>3, <2>2
    <2>4. i - 1 \in 0..n /\ ~(i <= i - 1)
      BY <1>1, <2>3
    <2>5. Good(i - 1)
      BY <2>2, <2>4
    <2> QED  BY <1>4, <2>3, <2>5
  <1>6. n \in 0..n
    BY <1>1
  <1>7. Good(n)
    BY <1>5, <1>6
  <1> QED  BY <1>7 DEF Good, t

\* What is published is the ready queue.
LEMMA PublishOf ==
    ASSUME NEW x, Consistent(x), Publish(x), UNCHANGED <<claim, supervised>>,
           ReadyInvariant, order # <<>> => x.order # <<>>
    PROVE  ReadyInvariant' /\ admitted' = x.admitted
  <1>1. Ready' = x
    BY DEF Publish, Ready, Consistent
  <1>2. Elsewhere' = Elsewhere
    BY DEF Elsewhere, Claimed
  <1>3. Consistent(Ready)'
    BY <1>1, <1>2 DEF Consistent, PlacesIn, TotalOf, Queued
  <1> QED  BY <1>3 DEF Publish, ReadyInvariant

\* A Runner that only changes hands or a queue that is left alone.
LEMMA ReadyKept ==
    ASSUME ReadyInvariant, UNCHANGED <<queue, order>>, supervised' \subseteq Runner,
           claim' \in [stage : ClaimStages, runner : Runner \cup {NoRunner}],
           claim'.stage = "starting" => claim'.runner \in Runner \ supervised',
           claim'.stage \in {"admitting", "claiming"} => order # <<>>,
           Elsewhere' \subseteq Elsewhere, admitted' = admitted \ (Elsewhere \ Elsewhere')
    PROVE  ReadyInvariant'
  <1> DEFINE q == Ready
  <1>1. /\ q.queue = queue /\ q.order = order /\ q.admitted = admitted
        /\ Ready' = [queue |-> queue, order |-> order, admitted |-> admitted']
        /\ Ready'.queue = queue /\ Ready'.order = order /\ Ready'.admitted = admitted'
    BY DEF Ready
  <1>2. /\ queue \in [Campaign -> Seq(Runner)] /\ order \in Seq(Campaign) /\ admitted \subseteq Runner
        /\ admitted = Queued(queue) \cup Elsewhere /\ Queued(queue) \cap Elsewhere = {}
    BY <1>1 DEF ReadyInvariant, Consistent
  <1>3. /\ admitted' = Queued(queue) \cup Elsewhere' /\ Queued(queue) \cap Elsewhere' = {}
        /\ admitted' \subseteq Runner
    BY <1>2
  <1>4. Consistent(Ready)'
    BY <1>1, <1>2, <1>3 DEF ReadyInvariant, Consistent, PlacesIn, TotalOf, Queued
  <1> QED  BY <1>4 DEF ReadyInvariant, ClaimStages

\* The loop takes the first Runner of the Campaign whose turn it is.
LEMMA TakeKeeps == ASSUME ReadyInvariant, TakeRunner PROVE ReadyInvariant'
  <1> DEFINE c == Head(order)
             s == queue[c]
             n == Len(s)
             x == Ready'
  <1>1. /\ queue \in [Campaign -> Seq(Runner)] /\ order \in Seq(Campaign) /\ admitted \subseteq Runner
        /\ \A d \in Campaign : /\ IsInjective(queue[d])
                               /\ \A i \in DOMAIN queue[d] : CampaignOf[queue[d][i]] = d
        /\ IsInjective(order) /\ Range(order) = {d \in Campaign : queue[d] # <<>>}
        /\ IsFiniteSet(PlacesIn(queue)) /\ TotalOf(queue) <= ReadyCapacity
        /\ admitted = Queued(queue) \cup Elsewhere /\ Queued(queue) \cap Elsewhere = {}
    BY DEF ReadyInvariant, Consistent, Ready
  <1>2. /\ claim.stage = "claiming" /\ order # <<>> /\ UNCHANGED <<admitted, supervised>>
        /\ claim' = [stage |-> "starting", runner |-> Head(s)]
        /\ queue' = [queue EXCEPT ![c] = Tail(s)]
        /\ order' = TurnsAfter(c)
    BY DEF TakeRunner, ReadyInvariant
  <1>3. c \in Campaign /\ c \in Range(order) /\ s # <<>> /\ s \in Seq(Runner) /\ IsInjective(s)
    <2>1. c \in Range(order) /\ c \in Campaign
      BY <1>1, <1>2, TailRest, TailOf
    <2> HIDE DEF c
    <2> QED  BY <1>1, <2>1
  <1> HIDE DEF c, s
  <1>4. /\ Head(s) \in Runner /\ Tail(s) \in Seq(Runner) /\ DOMAIN s = 1..n
        /\ DOMAIN Tail(s) = 1..(n - 1) /\ n \in Nat \ {0}
        /\ \A k \in 1..(n - 1) : Tail(s)[k] = s[k + 1]
        /\ Tail(s) # <<>> <=> n > 1
    BY <1>3, TailOf
  <1>5. IsInjective(Tail(s)) /\ Range(Tail(s)) = Range(s) \ {Head(s)} /\ Head(s) \in Range(s)
    BY <1>3, TailRest
  <1>6. /\ queue' \in [Campaign -> Seq(Runner)]
        /\ queue'[c] = Tail(s) /\ \A d \in Campaign \ {c} : queue'[d] = queue[d]
    BY <1>1, <1>2, <1>3, <1>4
  <1>7. \A d \in Campaign : /\ IsInjective(queue'[d])
                            /\ \A i \in DOMAIN queue'[d] : CampaignOf[queue'[d][i]] = d
    <2>1. \A i \in 1..(n - 1) : CampaignOf[Tail(s)[i]] = c
      <3>1. \A i \in 1..(n - 1) : i + 1 \in 1..n
        BY <1>4
      <3> QED  BY <3>1, <1>1, <1>3, <1>4 DEF s
    <2> SUFFICES ASSUME NEW d \in Campaign
                 PROVE  /\ IsInjective(queue'[d])
                        /\ \A i \in DOMAIN queue'[d] : CampaignOf[queue'[d][i]] = d
      OBVIOUS
    <2>2. CASE d = c
      BY <2>1, <2>2, <1>4, <1>5, <1>6
    <2>3. CASE d # c
      <3>1. queue'[d] = queue[d]
        BY <2>3, <1>6
      <3> QED  BY <3>1, <1>1
    <2> QED  BY <2>2, <2>3
  <1>8. /\ order' \in Seq(Campaign) /\ IsInjective(order')
        /\ Range(order') = {d \in Campaign : queue'[d] # <<>>}
    <2>1. /\ Tail(order) \in Seq(Campaign) /\ IsInjective(Tail(order))
          /\ Range(Tail(order)) = Range(order) \ {c}
      BY <1>1, <1>2, TailOf, TailRest DEF c
    <2>2. CASE n > 1
      <3>1. order' = Append(Tail(order), c)
        BY <1>2, <2>2 DEF TurnsAfter, s
      <3>2. order' \in Seq(Campaign) /\ IsInjective(order') /\ Range(order') = Range(order)
        <4> DEFINE t == Tail(order)
        <4>1. t \in Seq(Campaign) /\ IsInjective(t) /\ Range(t) = Range(order) \ {c} /\ order' = Append(t, c)
          BY <2>1, <3>1
        <4> HIDE DEF t
        <4>2. order' \in Seq(Campaign)
          BY <1>3, <4>1, AppendOf
        <4>3. IsInjective(order') /\ Range(order') = Range(t) \cup {c}
          <5>1. c \notin Range(t)
            BY <4>1
          <5> QED  BY <1>3, <4>1, <5>1, AppendFresh
        <4> QED  BY <1>3, <4>1, <4>2, <4>3
      <3> QED  BY <1>1, <1>3, <1>4, <1>6, <2>2, <3>2 DEF s
    <2>3. CASE ~(n > 1)
      <3>1. order' = Tail(order)
        BY <1>2, <2>3 DEF TurnsAfter, s
      <3> QED  BY <1>1, <1>3, <1>4, <1>6, <2>1, <2>3, <3>1 DEF s
    <2> QED  BY <2>2, <2>3
  <1>9. IsFiniteSet(PlacesIn(queue')) /\ TotalOf(queue') <= ReadyCapacity
    <2>1. \A d \in Campaign : DOMAIN queue'[d] \subseteq DOMAIN queue[d]
      <3>1. 1..(n - 1) \subseteq 1..n
        BY <1>4
      <3> QED  BY <1>4, <1>6, <3>1 DEF s
    <2>2. ASSUME NEW z \in PlacesIn(queue') PROVE z \in PlacesIn(queue)
      <3>1. PICK d \in Campaign : \E i \in DOMAIN queue'[d] : z = <<d, i>>
        BY <2>2, PlacesOf
      <3> QED  BY <2>1, <3>1, PlacesOf
    <2>3. PlacesIn(queue') \in SUBSET PlacesIn(queue)
      BY <2>2
    <2>4. /\ IsFiniteSet(PlacesIn(queue')) /\ Cardinality(PlacesIn(queue')) <= Cardinality(PlacesIn(queue))
          /\ Cardinality(PlacesIn(queue')) \in Nat /\ Cardinality(PlacesIn(queue)) \in Nat
      BY <1>1, <2>3, FS_Subset, FS_CardinalityType
    <2> QED  BY <1>1, <2>4, ConstantsAssumption DEF TotalOf
  <1>10. Queued(queue') = Queued(queue) \ {Head(s)} /\ Head(s) \in Queued(queue)
    <2>1. Head(s) \in Queued(queue)
      BY <1>3, <1>5, QueuedOf DEF s
    <2>2. ASSUME NEW d \in Campaign, d # c PROVE Head(s) \notin Range(queue[d])
      <3> SUFFICES ASSUME NEW i \in DOMAIN queue[d], queue[d][i] = Head(s) PROVE FALSE
        BY RangeOf
      <3>1. CampaignOf[Head(s)] = d
        BY <1>1, <2>2
      <3>2. PICK j \in DOMAIN queue[c] : queue[c][j] = Head(s)
        BY <1>5, RangeOf DEF s
      <3> QED  BY <1>1, <1>3, <2>2, <3>1, <3>2
    <2>3. \A d \in Campaign : Range(queue'[d]) = Range(queue[d]) \ {Head(s)}
      BY <1>5, <1>6, <2>2 DEF s
    <2>4. \A y : y \in Queued(queue') <=> y \in Queued(queue) /\ y # Head(s)
      BY <2>3, QueuedOf
    <2> QED  BY <2>1, <2>4
  <1>11. Elsewhere' = Elsewhere \cup {Head(s)} /\ Head(s) \notin supervised
    <2>1. Elsewhere = supervised /\ Elsewhere' = {Head(s)} \cup supervised
      BY <1>2 DEF Elsewhere, Claimed
    <2> QED  BY <1>1, <1>10, <2>1
  <1>12. /\ admitted' = Queued(queue') \cup Elsewhere' /\ Queued(queue') \cap Elsewhere' = {}
    BY <1>1, <1>2, <1>10, <1>11
  <1>13. /\ x.queue = queue' /\ x.order = order' /\ x.admitted = admitted'
         /\ x = [queue |-> queue', order |-> order', admitted |-> admitted']
    BY DEF Ready
  <1> HIDE DEF x
  <1>14. x \in [queue : [Campaign -> Seq(Runner)], order : Seq(Campaign), admitted : SUBSET Runner]
    BY <1>1, <1>2, <1>6, <1>8, <1>13
  <1>15. Consistent(Ready)'
    BY <1>7, <1>8, <1>9, <1>12, <1>13, <1>14 DEF Consistent, x, PlacesIn, TotalOf, Queued
  <1>16. /\ claim' \in [stage : ClaimStages, runner : Runner \cup {NoRunner}]
         /\ claim'.stage = "starting" /\ claim'.runner \in Runner \ supervised'
    BY <1>2, <1>4, <1>11 DEF ClaimStages
  <1> QED  BY <1>2, <1>15, <1>16 DEF ReadyInvariant, ClaimStages

\* Nothing is queued, claimed or executed.
LEMMA NothingReady ==
    ASSUME NEW q, q = [c \in Campaign |-> <<>>]
    PROVE  /\ q \in [Campaign -> Seq(Runner)] /\ <<>> \in Seq(Campaign)
           /\ \A c \in Campaign : q[c] = <<>> /\ DOMAIN q[c] = {} /\ IsInjective(q[c])
           /\ IsInjective(<<>>) /\ Range(<<>>) = {}
           /\ IsFiniteSet(PlacesIn(q)) /\ TotalOf(q) <= ReadyCapacity /\ Queued(q) = {}
  <1>1. DOMAIN <<>> = {} /\ <<>> \in Seq(Runner) /\ <<>> \in Seq(Campaign)
    OBVIOUS
  <1>2. IsInjective(<<>>) /\ Range(<<>>) = {}
    BY <1>1 DEF IsInjective, Range
  <1>3. PlacesIn(q) = {}
    BY <1>1, PlacesOf
  <1>4. Queued(q) = {}
    BY <1>2, QueuedOf
  <1>5. IsFiniteSet(PlacesIn(q)) /\ Cardinality(PlacesIn(q)) = 0
    BY <1>3, FS_EmptySet
  <1> QED  BY <1>1, <1>2, <1>4, <1>5, ConstantsAssumption DEF TotalOf

LEMMA ReadyInit == Init => ReadyInvariant
  <1> SUFFICES ASSUME Init PROVE ReadyInvariant
    OBVIOUS
  <1>1. /\ queue = [c \in Campaign |-> <<>>] /\ order = <<>> /\ admitted = {}
        /\ claim = Waiting /\ supervised = {}
    BY DEF Init
  <1>2. /\ queue \in [Campaign -> Seq(Runner)] /\ <<>> \in Seq(Campaign)
        /\ \A c \in Campaign : queue[c] = <<>> /\ DOMAIN queue[c] = {} /\ IsInjective(queue[c])
        /\ IsInjective(<<>>) /\ Range(<<>>) = {}
        /\ IsFiniteSet(PlacesIn(queue)) /\ TotalOf(queue) <= ReadyCapacity /\ Queued(queue) = {}
    BY <1>1, NothingReady
  <1>3. Elsewhere = {}
    BY <1>1 DEF Elsewhere, Claimed, Waiting
  <1>4. Consistent(Ready)
    BY <1>1, <1>2, <1>3 DEF Consistent, Ready
  <1> QED  BY <1>1, <1>4 DEF ReadyInvariant, Waiting, ClaimStages

LEMMA ReadyRestart == ASSUME Restart PROVE ReadyInvariant'
  <1>1. /\ queue' = [c \in Campaign |-> <<>>] /\ order' = <<>> /\ admitted' = {}
        /\ claim' = Waiting /\ supervised' = {}
    BY DEF Restart
  <1>2. /\ queue' \in [Campaign -> Seq(Runner)] /\ <<>> \in Seq(Campaign)
        /\ \A c \in Campaign : queue'[c] = <<>> /\ DOMAIN queue'[c] = {} /\ IsInjective(queue'[c])
        /\ IsInjective(<<>>) /\ Range(<<>>) = {}
        /\ IsFiniteSet(PlacesIn(queue')) /\ TotalOf(queue') <= ReadyCapacity /\ Queued(queue') = {}
    BY <1>1, NothingReady
  <1>3. Elsewhere' = {}
    BY <1>1 DEF Elsewhere, Claimed, Waiting
  <1>4. Consistent(Ready)'
    BY <1>1, <1>2, <1>3 DEF Consistent, Ready, PlacesIn, TotalOf, Queued
  <1> QED  BY <1>1, <1>4 DEF ReadyInvariant, Waiting, ClaimStages

LEMMA ReadySame ==
    ASSUME ReadyInvariant, UNCHANGED <<ready, claim, supervised>> PROVE ReadyInvariant'
  <1>1. Elsewhere' = Elsewhere /\ order' = order
    BY DEF Elsewhere, Claimed, ready
  <1> QED  BY <1>1, ReadyKept DEF ReadyInvariant, ready

LEMMA ReadyStep ==
    ASSUME ReadyInvariant, RowsInvariant, [Next]_vars PROVE ReadyInvariant'
  <1> DEFINE Claims == [stage : ClaimStages, runner : Runner \cup {NoRunner}]
             Kept == /\ UNCHANGED <<queue, order>> /\ supervised' \subseteq Runner /\ claim' \in Claims
                     /\ claim'.stage = "starting" => claim'.runner \in Runner \ supervised'
                     /\ claim'.stage \in {"admitting", "claiming"} => order # <<>>
                     /\ Elsewhere' \subseteq Elsewhere
                     /\ admitted' = admitted \ (Elsewhere \ Elsewhere')
  <1>0. /\ supervised \subseteq Runner /\ claim \in Claims /\ TaskRunner \subseteq Runner
        /\ claim.stage = "starting" => claim.runner \in Runner \ supervised
        /\ claim.stage \in {"admitting", "claiming"} => order # <<>>
        /\ Consistent(Ready) /\ created \in Seq(Runner)
    BY ConstantsAssumption DEF ReadyInvariant, RowsInvariant
  <1>00. Kept => ReadyInvariant'
    BY ReadyKept
  <1>1. ASSUME NEW c \in Campaign, Submit(c) PROVE ReadyInvariant'
    BY <1>1, ReadySame DEF Submit
  <1>2. CASE ReadQueued
    BY <1>2, ReadySame DEF ReadQueued
  <1>3. CASE ReadRounds
    BY <1>3, ReadySame DEF ReadRounds
  <1>4. CASE ReadInstance
    BY <1>4, ReadySame DEF ReadInstance
  <1>5. CASE Enqueue
    BY <1>0, <1>5, TurnsKeep, PublishOf DEF Enqueue, EnqueueRunners
  <1>6. CASE EndPass
    BY <1>6, ReadySame DEF EndPass
  <1>7. CASE PassFails
    BY <1>7, ReadySame DEF PassFails
  <1>8. ASSUME NEW n \in TaskRunner, Activate(n) PROVE ReadyInvariant'
    <2>1. UNCHANGED <<claim, supervised>> /\ (UNCHANGED ready \/ Publish(Enqueued(n, Ready)))
      BY <1>8 DEF Activate
    <2>2. CASE UNCHANGED ready
      BY <2>1, <2>2, ReadySame
    <2>3. CASE Publish(Enqueued(n, Ready))
      <3>1. n \in Runner /\ Ready.order = order
        BY <1>0 DEF Ready
      <3> QED  BY <1>0, <2>1, <2>3, <3>1, EnqueuedKeeps, PublishOf
    <2> QED  BY <2>1, <2>2, <2>3
  <1>9. CASE WaitReady
    <2>1. Kept
      BY <1>0, <1>9 DEF WaitReady, ready, Elsewhere, Claimed, ClaimStages
    <2> QED  BY <1>00, <2>1
  <1>10. CASE AcquireAdmission
    <2>1. Kept
      BY <1>0, <1>10 DEF AcquireAdmission, ready, Elsewhere, Claimed, ClaimStages
    <2> QED  BY <1>00, <2>1
  <1>11. CASE TakeRunner
    BY <1>11, TakeKeeps
  <1>12. CASE Start
    <2>1. Kept
      BY <1>0, <1>12 DEF Start, ready, Elsewhere, Claimed, ClaimStages, Waiting
    <2> QED  BY <1>00, <2>1
  <1>13. CASE StartRefused
    <2>1. Kept
      BY <1>0, <1>13 DEF StartRefused, Forget, Elsewhere, Claimed, ClaimStages, Waiting
    <2> QED  BY <1>00, <2>1
  <1>14. CASE StartFails
    <2>1. Kept
      BY <1>0, <1>14 DEF StartFails, Forget, Elsewhere, Claimed, ClaimStages, Waiting
    <2> QED  BY <1>00, <2>1
  <1>15. ASSUME NEW r \in Runner,
                RequestCancel(r) \/ Cool(r) \/ Resume(r) \/ Finish(r) PROVE ReadyInvariant'
    BY <1>15, ReadySame DEF RequestCancel, Cool, Resume, Finish
  <1>16. ASSUME NEW r \in Runner, EndExecution(r) \/ EndUnrecorded(r) PROVE ReadyInvariant'
    <2>1. r \in supervised /\ Leave(r)
      BY <1>16 DEF EndExecution, EndUnrecorded
    <2>2. Kept
      BY <1>0, <2>1 DEF Leave, Forget, Elsewhere, Claimed
    <2> QED  BY <1>00, <2>2
  <1>17. CASE Restart
    BY <1>17, ReadyRestart
  <1>18. CASE UNCHANGED vars
    BY <1>18, ReadySame DEF vars, ready
  <1> QED
    BY <1>1, <1>2, <1>3, <1>4, <1>5, <1>6, <1>7, <1>8, <1>9, <1>10, <1>11, <1>12, <1>13, <1>14,
       <1>15, <1>16, <1>17, <1>18 DEF Next

-----------------------------------------------------------------------------
(* The rows and the passes that read them.                                 *)

\* The rows of a transaction are written in some order, each once.
LEMMA ListedOnce ==
    ASSUME NEW S, IsFiniteSet(S)
    PROVE  SetToSeq(S) \in Seq(S) /\ IsInjective(SetToSeq(S)) /\ Range(SetToSeq(S)) = S
  <1> DEFINE n == Cardinality(S)
             s == SetToSeq(S)
  <1>1. n \in Nat /\ ExistsBijection(1..n, S)
    BY FS_CardinalityType
  <1>2. \E f \in [1..n -> S] : IsInjective(f)
    BY <1>1 DEF ExistsBijection, Bijection, Injection
  <1>3. s \in [1..n -> S] /\ IsInjective(s)
    BY <1>2 DEF SetToSeq
  <1> HIDE DEF s
  <1>4. s \in Injection(1..n, S)
    BY <1>3 DEF Injection
  <1>5. IsFiniteSet(1..n) /\ Cardinality(1..n) = n
    BY <1>1, FS_Interval
  <1>6. s \in Surjection(1..n, S)
    BY <1>4, <1>5, FS_Injection
  <1>7. Range(s) = S
    BY <1>3, <1>6 DEF Range, Surjection
  <1>8. s \in Seq(S)
    BY <1>1, <1>3
  <1> QED  BY <1>3, <1>7, <1>8 DEF s

LEMMA ConcatOf ==
    ASSUME NEW R, NEW s \in Seq(R), NEW t \in Seq(R),
           IsInjective(s), IsInjective(t), Range(s) \cap Range(t) = {}
    PROVE  /\ s \o t \in Seq(R) /\ IsInjective(s \o t) /\ Range(s \o t) = Range(s) \cup Range(t)
  <1> DEFINE u == s \o t
             m == Len(s)
             n == Len(t)
  <1>1. /\ u \in Seq(R) /\ m \in Nat /\ n \in Nat /\ DOMAIN u = 1..(m + n)
        /\ DOMAIN s = 1..m /\ DOMAIN t = 1..n
        /\ \A i \in 1..(m + n) : u[i] = IF i <= m THEN s[i] ELSE t[i - m]
    OBVIOUS
  <1> HIDE DEF u, m, n
  <1>2. \A i \in 1..(m + n) : (i <= m => i \in 1..m) /\ (~(i <= m) => i - m \in 1..n)
    BY <1>1
  <1>3. \A i \in 1..n : i + m \in 1..(m + n) /\ ~(i + m <= m) /\ (i + m) - m = i
    BY <1>1
  <1>4. \A i \in 1..m : i \in 1..(m + n) /\ i <= m
    BY <1>1
  <1>5. \A i \in 1..m : \A j \in 1..n : s[i] # t[j]
    BY <1>1, RangeOf
  <1>6. IsInjective(u)
    <2> SUFFICES ASSUME NEW i \in 1..(m + n), NEW j \in 1..(m + n), u[i] = u[j] PROVE i = j
      BY <1>1 DEF IsInjective
    <2>1. CASE i <= m /\ j <= m
      BY <1>1, <1>2, <2>1 DEF IsInjective
    <2>2. CASE ~(i <= m) /\ ~(j <= m)
      <3>1. i - m = j - m
        BY <1>1, <1>2, <2>2 DEF IsInjective
      <3> QED  BY <1>1, <3>1
    <2>3. (i <= m) <=> (j <= m)
      BY <1>1, <1>2, <1>5
    <2> QED  BY <2>1, <2>2, <2>3
  <1>7. \A x : x \in Range(u) <=> x \in Range(s) \/ x \in Range(t)
    <2>1. ASSUME NEW x \in Range(u) PROVE x \in Range(s) \/ x \in Range(t)
      <3>1. PICK i \in 1..(m + n) : u[i] = x
        BY <1>1, RangeOf
      <3> QED  BY <1>1, <1>2, <3>1, RangeOf
    <2>2. ASSUME NEW x \in Range(s) PROVE x \in Range(u)
      <3>1. PICK i \in 1..m : s[i] = x
        BY <1>1, RangeOf
      <3> QED  BY <1>1, <1>4, <3>1, RangeOf
    <2>3. ASSUME NEW x \in Range(t) PROVE x \in Range(u)
      <3>1. PICK i \in 1..n : t[i] = x
        BY <1>1, RangeOf
      <3>2. i + m \in DOMAIN u /\ u[i + m] = x
        BY <1>1, <1>3, <3>1
      <3> QED  BY <3>2, RangeOf
    <2> QED  BY <2>1, <2>2, <2>3
  <1> QED  BY <1>1, <1>6, <1>7 DEF u

\* A Runner is written as queued, is started only while it is marked, and never leaves a
\* final status.
Moves(r) ==
    \/ status'[r] = status[r]
    \/ status[r] = "absent" /\ status'[r] = "queued"
    \/ status[r] \in {"queued", "running"} /\ status'[r] \in {"succeeded", "ended"}
    \/ status[r] = "queued" /\ status'[r] = "running" /\ r \in admitted

LEMMA StatusStep ==
    ASSUME ReadyInvariant, RowsInvariant, [Next]_vars
    PROVE  status' \in [Runner -> Statuses] /\ \A r \in Runner : Moves(r)
  <1>0. /\ status \in [Runner -> Statuses]
        /\ \A r \in Runner \ TaskRunner : CampaignOf[r] \in submitted <=> status[r] # "absent"
        /\ TaskRunner \subseteq Runner
    BY ConstantsAssumption DEF RowsInvariant
  <1>00. claim.stage = "starting" => claim.runner \in Runner /\ claim.runner \in admitted
    BY DEF ReadyInvariant, Consistent, Ready, Elsewhere, Claimed
  <1>1. ASSUME NEW c \in Campaign, Submit(c) PROVE status' \in [Runner -> Statuses] /\ \A r \in Runner : Moves(r)
    BY <1>0, <1>1 DEF Submit, Moves, Statuses
  <1>2. ASSUME NEW r \in Runner, RequestCancel(r) \/ Finish(r)
        PROVE  status' \in [Runner -> Statuses] /\ \A q \in Runner : Moves(q)
    <2>1. PICK o \in {"succeeded", "ended"} : EndWith(r, o) /\ status[r] \in {"queued", "running"}
      BY <1>2 DEF RequestCancel, Finish
    <2> QED  BY <1>0, <2>1 DEF EndWith, Moves, Statuses
  <1>3. ASSUME NEW n \in TaskRunner, Activate(n) PROVE status' \in [Runner -> Statuses] /\ \A r \in Runner : Moves(r)
    BY <1>0, <1>3 DEF Activate, Activatable, Moves, Statuses
  <1>4. CASE Start
    BY <1>0, <1>00, <1>4 DEF Start, Moves, Statuses
  <1>5. CASE StartFails
    BY <1>0, <1>00, <1>5 DEF StartFails, Moves, Statuses
  <1>6. CASE Restart
    BY <1>0, <1>6 DEF Restart, Moves, Statuses
  <1>7. CASE UNCHANGED status
    BY <1>0, <1>7 DEF Moves
  <1>8. \/ UNCHANGED status \/ Start \/ StartFails \/ Restart \/ \E c \in Campaign : Submit(c)
        \/ \E n \in TaskRunner : Activate(n)
        \/ \E r \in Runner : RequestCancel(r) \/ Finish(r)
    BY DEF Next, vars, durable, ReadQueued, ReadRounds, ReadInstance, Enqueue, EndPass, PassFails,
           WaitReady, AcquireAdmission, TakeRunner, StartRefused, Cool, Resume, EndExecution, EndUnrecorded, Leave
  <1> QED  BY <1>1, <1>2, <1>3, <1>4, <1>5, <1>6, <1>7, <1>8

\* What a step makes of the pass.
LEMMA PassStep ==
    ASSUME [Next]_vars
    PROVE  \/ pass' = pass \/ pass' = Resting \/ ReadQueued \/ ReadRounds \/ ReadInstance \/ Enqueue
           \/ \E n \in TaskRunner : pass.stage = "activate" /\ pass' = [pass EXCEPT !.nodes = @ \ {n}]
  BY DEF Next, vars, Submit, EndPass, PassFails, Activate, WaitReady, AcquireAdmission, TakeRunner, Start,
         StartRefused, StartFails, RequestCancel, Cool, Resume, Finish, EndExecution, EndUnrecorded, Leave, Restart

LEMMA RowsStep ==
    ASSUME ReadyInvariant, RowsInvariant, [Next]_vars PROVE RowsInvariant'
  <1> DEFINE Passes == [stage : Stages, runners : SUBSET Runner, nodes : SUBSET TaskRunner]
             Rows == /\ submitted' \subseteq Campaign
                     /\ created' \in Seq(Runner) /\ IsInjective(created')
                     /\ Range(created') = {r \in Runner : status'[r] # "absent"}
                     /\ \A r \in Runner \ TaskRunner : CampaignOf[r] \in submitted' <=> status'[r] # "absent"
             Read == pass' \in Passes /\ (\A r \in pass'.runners : status'[r] # "absent") /\ faults' \in 0..MaxFaults
  <1>0. /\ submitted \subseteq Campaign /\ status \in [Runner -> Statuses]
        /\ created \in Seq(Runner) /\ IsInjective(created)
        /\ Range(created) = {r \in Runner : status[r] # "absent"}
        /\ \A r \in Runner \ TaskRunner : CampaignOf[r] \in submitted <=> status[r] # "absent"
        /\ pass \in Passes /\ (\A r \in pass.runners : status[r] # "absent") /\ faults \in 0..MaxFaults
    BY DEF RowsInvariant
  <1>1. status' \in [Runner -> Statuses] /\ \A r \in Runner : Moves(r)
    BY StatusStep
  <1>2. \A r \in Runner : status[r] # "absent" => status'[r] # "absent"
    BY <1>1 DEF Moves
  <1>3. Rows
    <2>1. ASSUME NEW c \in Campaign, Submit(c) PROVE Rows
      <3> DEFINE new == {r \in Runner \ TaskRunner : CampaignOf[r] = c}
                 t == SetToSeq(new)
      <3>1. /\ c \notin submitted /\ submitted' = submitted \cup {c}
            /\ status' = [r \in Runner |-> IF r \in new THEN "queued" ELSE status[r]]
            /\ created' = created \o t
        BY <2>1 DEF Submit
      <3>2. new \in SUBSET Runner /\ IsFiniteSet(new)
        BY ConstantsAssumption, FS_Subset
      <3>3. \A r \in new : status[r] = "absent"
        BY <1>0, <3>1
      <3>4. t \in Seq(new) /\ IsInjective(t) /\ Range(t) = new
        BY <3>2, ListedOnce
      <3>5. \A r \in Runner : status'[r] # "absent" <=> status[r] # "absent" \/ r \in new
        BY <1>0, <3>1
      <3>6. \A r \in Runner \ TaskRunner : r \in new <=> CampaignOf[r] = c
        OBVIOUS
      <3> HIDE DEF new, t
      <3>7. t \in Seq(Runner) /\ Range(created) \cap Range(t) = {}
        <4>1. t \in Seq(Runner)
          BY <3>2, <3>4
        <4> QED  BY <1>0, <3>3, <3>4, <4>1
      <3>8. created' \in Seq(Runner) /\ IsInjective(created') /\ Range(created') = Range(created) \cup new
        BY <1>0, <3>1, <3>4, <3>7, ConcatOf
      <3>9. Range(created') = {r \in Runner : status'[r] # "absent"}
        BY <1>0, <3>2, <3>5, <3>8
      <3> QED  BY <1>0, <3>1, <3>5, <3>6, <3>8, <3>9
    <2>2. ASSUME NEW n \in TaskRunner, Activate(n), Activatable(n) PROVE Rows
      <3>1. /\ status' = [status EXCEPT ![n] = "queued"] /\ created' = Append(created, n)
            /\ UNCHANGED submitted /\ status[n] = "absent" /\ n \in Runner
        BY <2>2, ConstantsAssumption DEF Activate, Activatable
      <3>2. n \notin Range(created)
        BY <1>0, <3>1
      <3>3. created' \in Seq(Runner) /\ IsInjective(created') /\ Range(created') = Range(created) \cup {n}
        BY <1>0, <3>1, <3>2, AppendFresh, AppendOf
      <3>4. \A r \in Runner : status'[r] # "absent" <=> status[r] # "absent" \/ r = n
        BY <1>0, <3>1
      <3> QED  BY <1>0, <3>1, <3>3, <3>4
    <2>3. ASSUME UNCHANGED <<submitted, created>>,
                 \A r \in Runner : status[r] = "absent" => status'[r] = "absent" PROVE Rows
      BY <1>0, <1>2, <2>3
    <2>4. ASSUME ~\E c \in Campaign : Submit(c), ~\E n \in TaskRunner : Activate(n) /\ Activatable(n)
          PROVE  UNCHANGED <<submitted, created>> /\ \A r \in Runner : status[r] = "absent" => status'[r] = "absent"
      <3>0. claim.stage = "starting" => claim.runner \in Runner
        BY DEF ReadyInvariant
      <3>1. CASE UNCHANGED durable
        BY <3>1 DEF durable
      <3>2. CASE \E r \in Runner : RequestCancel(r) \/ Finish(r)
        <4>1. PICK r \in Runner, o \in {"succeeded", "ended"} :
                  EndWith(r, o) /\ status[r] \in {"queued", "running"} /\ UNCHANGED <<submitted, created>>
          BY <3>2 DEF RequestCancel, Finish
        <4> QED  BY <1>0, <4>1 DEF EndWith
      <3>3. CASE Start
        BY <1>0, <3>0, <3>3 DEF Start
      <3>4. CASE StartFails
        BY <1>0, <3>0, <3>4 DEF StartFails
      <3>5. CASE Restart
        BY <1>0, <3>5 DEF Restart
      <3>6. CASE \E n \in TaskRunner : Activate(n)
        BY <2>4, <3>6 DEF Activate
      <3>7. \/ UNCHANGED durable \/ Start \/ StartFails \/ Restart
            \/ \E n \in TaskRunner : Activate(n)
            \/ \E r \in Runner : RequestCancel(r) \/ Finish(r)
        BY <2>4 DEF Next, vars, durable, ReadQueued, ReadRounds, ReadInstance, Enqueue, EndPass, PassFails,
               WaitReady, AcquireAdmission, TakeRunner, StartRefused, Cool, Resume, EndExecution, EndUnrecorded, Leave
      <3> QED  BY <3>1, <3>2, <3>3, <3>4, <3>5, <3>6, <3>7
    <2> QED  BY <2>1, <2>2, <2>3, <2>4
  <1>4. Read
    <2>0. MaxFaults \in Nat /\ \A i \in 0..MaxFaults : i < MaxFaults => i + 1 \in 0..MaxFaults
      BY ConstantsAssumption
    <2>1. faults' = faults \/ (faults < MaxFaults /\ faults' = faults + 1)
      BY DEF Next, vars, Submit, ReadQueued, ReadRounds, ReadInstance, Enqueue, EndPass, PassFails, Activate,
             WaitReady, AcquireAdmission, TakeRunner, Start, StartRefused, StartFails, RequestCancel, Cool, Resume,
             Finish, EndExecution, EndUnrecorded, Leave, Restart
    <2>2. pass' \in Passes /\ \A r \in pass'.runners : status[r] # "absent"
      <3>2. CASE pass' = Resting \/ ReadInstance
        BY <3>2 DEF Resting, ReadInstance, Stages
      <3>3. CASE ReadQueued
        BY <3>3, <1>0 DEF ReadQueued, Stages
      <3>4. CASE ReadRounds
        <4>1. PICK N \in SUBSET TaskRunner :
                 pass' = [stage |-> "enqueue", nodes |-> N,
                          runners |-> {r \in pass.runners : RoundOf[r] = 0 \/ InEarliestRound(r)}]
          BY <3>4 DEF ReadRounds
        <4> QED  BY <1>0, <4>1 DEF Stages
      <3>5. CASE Enqueue
        BY <1>0, <3>5 DEF Enqueue, Stages
      <3>6. CASE \E n \in TaskRunner : pass.stage = "activate" /\ pass' = [pass EXCEPT !.nodes = @ \ {n}]
        BY <1>0, <3>6
      <3> QED  BY <1>0, <3>2, <3>3, <3>4, <3>5, <3>6, PassStep
    <2>3. \A r \in pass'.runners : r \in Runner
      BY <2>2
    <2> QED  BY <1>0, <1>2, <2>0, <2>1, <2>2, <2>3
  <1> QED  BY <1>1, <1>3, <1>4 DEF RowsInvariant

-----------------------------------------------------------------------------
(* The rounds: a Runner is chosen when the earlier rounds are over, and an  *)
(* end is final, so what the pass read long ago still holds at the start.   *)

LEMMA ChosenIsClear ==
    ASSUME RowsInvariant, NEW r \in pass.runners, RoundOf[r] = 0 \/ InEarliestRound(r)
    PROVE  Clear(r)
  <1>0. /\ RoundOf \in [Runner -> Nat] /\ CampaignOf \in [Runner -> Campaign]
        /\ \A q \in TaskRunner : RoundOf[q] = 0
        /\ r \in Runner /\ status[r] # "absent" /\ status \in [Runner -> Statuses]
        /\ \A q \in Runner \ TaskRunner : CampaignOf[q] \in submitted <=> status[q] # "absent"
    BY ConstantsAssumption DEF RowsInvariant
  <1> SUFFICES ASSUME NEW q \in InRounds(r), RoundOf[q] < RoundOf[r] PROVE Ended(q)
    BY DEF Clear
  <1>1. q \in Runner /\ CampaignOf[q] = CampaignOf[r] /\ RoundOf[q] \in Nat /\ RoundOf[r] \in Nat
    BY <1>0 DEF InRounds
  <1>2. RoundOf[q] # 0 /\ RoundOf[r] # 0 /\ ~(RoundOf[r] <= RoundOf[q])
    BY <1>1 DEF InRounds
  <1>3. q \notin TaskRunner /\ r \notin TaskRunner
    BY <1>0, <1>2
  <1>4. status[q] # "absent"
    BY <1>0, <1>1, <1>3
  <1>5. status[q] \notin {"queued", "running"}
    BY <1>2 DEF InEarliestRound
  <1> QED  BY <1>0, <1>1, <1>4, <1>5 DEF Ended, Statuses

LEMMA RoundsStep ==
    ASSUME ReadyInvariant, RowsInvariant, RoundsInvariant, [Next]_vars PROVE RoundsInvariant'
  <1>0. /\ \A r \in Runner : status[r] = "running" \/ r \in admitted => Clear(r)
        /\ pass.stage = "enqueue" => \A r \in pass.runners : Clear(r)
        /\ pass.runners \subseteq Runner /\ TaskRunner \subseteq Runner
        /\ Consistent(Ready) /\ created \in Seq(Runner) /\ Ready.admitted = admitted
    BY ConstantsAssumption DEF RoundsInvariant, RowsInvariant, ReadyInvariant, Ready
  <1>1. status' \in [Runner -> Statuses] /\ \A r \in Runner : Moves(r)
    BY StatusStep
  <1>2. \A r \in Runner : Clear(r) => Clear(r)'
    BY <1>1 DEF Clear, Ended, Moves, InRounds
  <1>3. \A r \in Runner : status'[r] = "running" => Clear(r)
    BY <1>0, <1>1 DEF Moves
  <1>4. \A r \in admitted' : r \in admitted \/ Clear(r)
    <2>1. CASE Enqueue
      BY <1>0, <2>1, TurnsKeep DEF Enqueue, EnqueueRunners, Publish
    <2>2. ASSUME NEW n \in TaskRunner, Activate(n) PROVE \A r \in admitted' : r \in admitted \/ Clear(r)
      <3>1. Enqueued(n, Ready).admitted \subseteq admitted \cup {n}
        BY <1>0, EnqueuedKeeps
      <3>2. Clear(n)
        <4>1. \A q \in InRounds(n) : RoundOf[q] \in Nat /\ RoundOf[n] = 0
          BY ConstantsAssumption DEF InRounds
        <4>2. \A x \in Nat : ~(x < 0)
          OBVIOUS
        <4> QED  BY <4>1, <4>2 DEF Clear
      <3>3. admitted' = admitted \/ admitted' = Enqueued(n, Ready).admitted
        BY <2>2 DEF Activate, Publish, ready
      <3> QED  BY <3>1, <3>2, <3>3
    <2>3. ASSUME ~Enqueue, ~\E n \in TaskRunner : Activate(n) PROVE admitted' \subseteq admitted
      BY <2>3 DEF Next, vars, ready, Submit, ReadQueued, ReadRounds, ReadInstance, EndPass, PassFails,
           WaitReady, AcquireAdmission, TakeRunner, Start, StartRefused, StartFails, RequestCancel, Cool, Resume,
           Finish, EndExecution, EndUnrecorded, Leave, Forget, Restart
    <2> QED  BY <2>1, <2>2, <2>3
  <1>5. pass'.stage = "enqueue" => \A r \in pass'.runners : r \in Runner /\ Clear(r)
    <2>1. CASE ReadRounds
      <3>1. \A r \in pass'.runners : r \in pass.runners /\ (RoundOf[r] = 0 \/ InEarliestRound(r))
        BY <2>1 DEF ReadRounds
      <3> QED  BY <1>0, <3>1, ChosenIsClear
    <2>2. CASE UNCHANGED pass
      BY <1>0, <2>2
    <2>3. pass'.stage # "enqueue" \/ UNCHANGED pass \/ ReadRounds
      <3>1. pass \in [stage : Stages, runners : SUBSET Runner, nodes : SUBSET TaskRunner]
        BY DEF RowsInvariant
      <3>2. ASSUME NEW n \in TaskRunner, pass.stage = "activate", pass' = [pass EXCEPT !.nodes = @ \ {n}]
            PROVE  pass'.stage # "enqueue"
        BY <3>1, <3>2
      <3>3. ASSUME pass' = Resting \/ ReadQueued \/ ReadInstance PROVE pass'.stage # "enqueue"
        BY <3>3 DEF Resting, ReadQueued, ReadInstance
      <3>4. ASSUME Enqueue PROVE pass'.stage # "enqueue"
        BY <3>1, <3>4 DEF Enqueue
      <3> QED  BY <3>2, <3>3, <3>4, PassStep
    <2> QED  BY <2>1, <2>2, <2>3
  <1>6. \A r \in Runner : status'[r] = "running" \/ r \in admitted' => Clear(r)'
    BY <1>0, <1>2, <1>3, <1>4
  <1>7. pass'.stage = "enqueue" => \A r \in pass'.runners : Clear(r)'
    BY <1>2, <1>5
  <1> QED  BY <1>6, <1>7 DEF RoundsInvariant

-----------------------------------------------------------------------------
(* The permits.                                                            *)

LEMMA PermitsStep ==
    ASSUME ReadyInvariant, PermitsInvariant, [Next]_vars PROVE PermitsInvariant'
  <1> DEFINE Sum == Cardinality(active) + free = MaxRunners
  <1>0. /\ IsFiniteSet(active) /\ active \subseteq Runner \cup {Slot} /\ free \in Nat
        /\ Cardinality(active) + free = MaxRunners /\ Cardinality(active) \in Nat
        /\ Slot \in active <=> claim.stage \in {"claiming", "starting"}
        /\ active \ {Slot} \subseteq supervised
        /\ MaxRunners \in Nat /\ Slot \notin Runner
        /\ supervised \subseteq Runner
        /\ claim \in [stage : ClaimStages, runner : Runner \cup {NoRunner}]
        /\ claim.stage = "starting" => claim.runner \in Runner \ supervised
    BY ConstantsAssumption, FS_CardinalityType DEF PermitsInvariant, PermitsAccounted, ReadyInvariant
  <1>1. ASSUME NEW S, IsFiniteSet(S), S = active', S \subseteq Runner \cup {Slot}, free' \in Nat,
               Cardinality(S) + free' = MaxRunners,
               Slot \in S <=> claim'.stage \in {"claiming", "starting"}, S \ {Slot} \subseteq supervised'
        PROVE  PermitsInvariant'
    <2>1. Cardinality(S) \in Nat
      BY <1>1, FS_CardinalityType
    <2>2. free' \in 0..MaxRunners
      BY <1>0, <1>1, <2>1
    <2> QED  BY <1>1, <2>2 DEF PermitsInvariant, PermitsAccounted
  <1>2. ASSUME NEW x, Acquire(x), x \notin active
        PROVE  IsFiniteSet(active') /\ free' \in Nat /\ Cardinality(active') + free' = MaxRunners
    <2>1. free > 0 /\ active' = active \cup {x} /\ free' = free - 1
      BY <1>2 DEF Acquire
    <2>2. IsFiniteSet(active') /\ Cardinality(active') = Cardinality(active) + 1
      BY <1>0, <1>2, <2>1, FS_AddElement
    <2> QED  BY <1>0, <2>1, <2>2
  <1>3. ASSUME NEW x, Release(x)
        PROVE  IsFiniteSet(active') /\ free' \in Nat /\ Cardinality(active') + free' = MaxRunners
    <2>1. active' = active \ {x} /\ free' = IF x \in active THEN free + 1 ELSE free
      BY <1>3 DEF Release
    <2>2. IsFiniteSet(active') /\ Cardinality(active') = IF x \in active THEN Cardinality(active) - 1
                                                         ELSE Cardinality(active)
      BY <1>0, <2>1, FS_RemoveElement
    <2> QED  BY <1>0, <2>1, <2>2
  <1>4. CASE AcquireAdmission
    <2>1. /\ Acquire(Slot) /\ Slot \notin active /\ claim'.stage = "claiming" /\ supervised' = supervised
          /\ active' = active \cup {Slot}
      BY <1>0, <1>4 DEF AcquireAdmission, Acquire
    <2> QED  BY <1>0, <1>1, <1>2, <2>1
  <1>5. ASSUME NEW r \in Runner, Resume(r) PROVE PermitsInvariant'
    <2>1. /\ Acquire(r) /\ r \notin active /\ UNCHANGED <<claim, supervised>> /\ r \in supervised
          /\ active' = active \cup {r} /\ r # Slot
      BY <1>0, <1>5 DEF Resume, Acquire
    <2> QED  BY <1>0, <1>1, <1>2, <2>1
  <1>6. CASE StartRefused \/ StartFails
    <2>1. /\ Release(Slot) /\ claim'.stage = "waiting" /\ supervised' = supervised /\ active' = active \ {Slot}
      BY <1>6 DEF StartRefused, StartFails, Release, Waiting
    <2> QED  BY <1>0, <1>1, <1>3, <2>1
  <1>7. ASSUME NEW r \in Runner, Cool(r) PROVE PermitsInvariant'
    <2>1. Release(r) /\ UNCHANGED <<claim, supervised>> /\ active' = active \ {r} /\ r # Slot
      BY <1>0, <1>7 DEF Cool, Release
    <2> QED  BY <1>0, <1>1, <1>3, <2>1
  <1>8. ASSUME NEW r \in Runner, EndExecution(r) \/ EndUnrecorded(r) PROVE PermitsInvariant'
    <2>1. Release(r) /\ UNCHANGED claim /\ supervised' = supervised \ {r} /\ active' = active \ {r} /\ r # Slot
      BY <1>0, <1>8 DEF EndExecution, EndUnrecorded, Leave, Release
    <2> QED  BY <1>0, <1>1, <1>3, <2>1
  <1>9. CASE Start
    <2> DEFINE r == claim.runner
               S == active \ {Slot}
    <2>1. /\ r \in Runner /\ r \notin supervised /\ Slot \in active /\ r # Slot
          /\ active' = S \cup {r} /\ free' = free
          /\ claim'.stage = "waiting" /\ supervised' = supervised \cup {r}
      BY <1>0, <1>9 DEF Start, Waiting
    <2>2. r \notin S
      BY <1>0, <2>1
    <2>3. IsFiniteSet(S) /\ Cardinality(S) = Cardinality(active) - 1
      BY <1>0, <2>1, FS_RemoveElement
    <2> HIDE DEF S
    <2>4. IsFiniteSet(S \cup {r}) /\ Cardinality(S \cup {r}) = Cardinality(S) + 1
      BY <2>2, <2>3, FS_AddElement
    <2>5. Cardinality(S \cup {r}) + free' = MaxRunners
      BY <1>0, <2>1, <2>3, <2>4
    <2>6. S \cup {r} \subseteq Runner /\ S \cup {r} \subseteq supervised'
      BY <1>0, <2>1 DEF S
    <2> QED  BY <1>0, <1>1, <2>1, <2>4, <2>5, <2>6
  <1>10. CASE Restart
    <2>1. active' = {} /\ free' = MaxRunners /\ claim'.stage = "waiting" /\ supervised' = {}
      BY <1>10 DEF Restart, Waiting
    <2> QED  BY <1>0, <1>1, <2>1, FS_EmptySet
  <1>11. CASE UNCHANGED <<permits, supervised>> /\ (claim'.stage \in {"claiming", "starting"} <=> claim.stage \in {"claiming", "starting"})
    BY <1>0, <1>1, <1>11 DEF permits
  <1>12. \/ UNCHANGED <<permits, supervised>> /\ (claim'.stage \in {"claiming", "starting"} <=> claim.stage \in {"claiming", "starting"})
         \/ AcquireAdmission \/ StartRefused \/ StartFails \/ Start \/ Restart
         \/ \E r \in Runner : Resume(r) \/ Cool(r) \/ EndExecution(r) \/ EndUnrecorded(r)
    <2>1. CASE WaitReady
      BY <1>0, <2>1 DEF WaitReady
    <2>2. CASE TakeRunner
      BY <2>2 DEF TakeRunner
    <2>3. ASSUME ~WaitReady, ~TakeRunner
          PROVE  \/ UNCHANGED <<permits, supervised, claim>>
                 \/ AcquireAdmission \/ StartRefused \/ StartFails \/ Start \/ Restart
                 \/ \E r \in Runner : Resume(r) \/ Cool(r) \/ EndExecution(r) \/ EndUnrecorded(r)
      BY <2>3 DEF Next, vars, permits, Submit, ReadQueued, ReadRounds, ReadInstance, Enqueue, EndPass, PassFails,
         Activate, RequestCancel, Finish
    <2> QED  BY <2>1, <2>2, <2>3
  <1> QED  BY <1>4, <1>5, <1>6, <1>7, <1>8, <1>9, <1>10, <1>11, <1>12

-----------------------------------------------------------------------------
(* All of it.                                                              *)

LEMMA CoordinatorInit == Init => CoordinatorInvariant
  <1> SUFFICES ASSUME Init PROVE CoordinatorInvariant
    OBVIOUS
  <1>1. ReadyInvariant
    BY ReadyInit
  <1>2. RowsInvariant
    <2>1. created = <<>> /\ <<>> \in Seq(Runner) /\ IsInjective(<<>>) /\ Range(<<>>) = {}
      BY NothingReady DEF Init, IsInjective, Range
    <2> QED  BY <2>1, ConstantsAssumption DEF Init, RowsInvariant, Statuses, Stages, Resting
  <1>3. RoundsInvariant
    BY DEF Init, RoundsInvariant, Resting
  <1>4. PermitsInvariant
    BY FS_EmptySet, ConstantsAssumption DEF Init, PermitsInvariant, PermitsAccounted, Waiting
  <1> QED  BY <1>1, <1>2, <1>3, <1>4 DEF CoordinatorInvariant

\* Where a Runner is counted.
LEMMA InOnePlace == ASSUME ReadyInvariant PROVE AdmittedInOnePlace
  <1> SUFFICES ASSUME NEW r \in Runner PROVE Places(r) = (IF r \in admitted THEN 1 ELSE 0)
    BY DEF AdmittedInOnePlace
  <1> DEFINE c == CampaignOf[r]
             s == queue[c]
             D == {i \in DOMAIN s : s[i] = r}
             a == IF claim.stage = "starting" /\ claim.runner = r THEN 1 ELSE 0
             b == IF r \in supervised THEN 1 ELSE 0
  <1>1. /\ c \in Campaign /\ IsInjective(s)
        /\ \A d \in Campaign : \A i \in DOMAIN queue[d] : CampaignOf[queue[d][i]] = d
        /\ admitted = Queued(queue) \cup Elsewhere /\ Queued(queue) \cap Elsewhere = {}
        /\ claim.stage = "starting" => claim.runner \notin supervised
    BY ConstantsAssumption DEF ReadyInvariant, Consistent, Ready
  <1>2. r \in Queued(queue) <=> r \in Range(s)
    <2>1. ASSUME NEW d \in Campaign, r \in Range(queue[d]) PROVE d = c
      BY <1>1, <2>1, RangeOf
    <2> QED  BY <1>1, <2>1, QueuedOf
  <1>3. Places(r) = Cardinality(D) + a + b
    BY DEF Places
  <1>4. Cardinality(D) = IF r \in Range(s) THEN 1 ELSE 0
    <2> HIDE DEF s
    <2>1. CASE r \in Range(s)
      <3>1. PICK i \in DOMAIN s : s[i] = r
        BY <2>1, RangeOf
      <3>2. D = {i}
        BY <1>1, <3>1 DEF IsInjective
      <3> QED  BY <2>1, <3>2, FS_Singleton
    <2>2. CASE r \notin Range(s)
      <3>1. D = {}
        BY <2>2, RangeOf
      <3> QED  BY <2>2, <3>1, FS_EmptySet
    <2> QED  BY <2>1, <2>2
  <1>5. r \in Elsewhere <=> a = 1 \/ b = 1
    BY DEF Elsewhere, Claimed
  <1>6. ~(a = 1 /\ b = 1)
    BY <1>1
  <1>7. a \in {0, 1} /\ b \in {0, 1}
    OBVIOUS
  <1> HIDE DEF a, b, D, s
  <1> QED  BY <1>1, <1>2, <1>3, <1>4, <1>5, <1>6, <1>7

LEMMA InvariantIsEnough == CoordinatorInvariant => AdmissionInvariant
  <1> SUFFICES ASSUME CoordinatorInvariant PROVE AdmissionInvariant
    OBVIOUS
  <1>1. TypeOK
    BY DEF CoordinatorInvariant, ReadyInvariant, Consistent, Ready, RowsInvariant, PermitsInvariant, TypeOK
  <1>2. RoundBarrier
    BY DEF CoordinatorInvariant, RoundsInvariant, Clear, RoundBarrier
  <1>3. AdmittedInOnePlace
    BY InOnePlace DEF CoordinatorInvariant
  <1>4. TurnsMatchQueues
    BY DEF CoordinatorInvariant, ReadyInvariant, Consistent, Ready, TurnsMatchQueues
  <1>5. PermitsAccounted
    BY DEF CoordinatorInvariant, PermitsInvariant
  <1> QED  BY <1>1, <1>2, <1>3, <1>4, <1>5 DEF AdmissionInvariant

LEMMA CoordinatorStep == CoordinatorInvariant /\ [Next]_vars => CoordinatorInvariant'
  BY ReadyStep, RowsStep, RoundsStep, PermitsStep DEF CoordinatorInvariant

\* Marks, turns and permits agree with where the Runners are and no round begins before
\* the earlier ones are over, for any number of Runners, Campaigns, rounds and permits,
\* whatever a pass read before, and through failing transactions and restarts.
THEOREM AdmissionStaysConsistent == Spec => []AdmissionInvariant
  <1>1. Spec => []CoordinatorInvariant
    BY CoordinatorInit, CoordinatorStep, PTL DEF Spec
  <1> QED  BY <1>1, InvariantIsEnough, PTL

\* Every change of a status is one that the code means: no transaction, late or repeated,
\* takes a Runner out of a final status, and none starts one that is not marked.
StatusesOnlyMove == [][\A r \in Runner : Moves(r)]_vars

THEOREM StatusesMove == Spec => StatusesOnlyMove
  <1>1. Spec => []CoordinatorInvariant
    BY CoordinatorInit, CoordinatorStep, PTL DEF Spec
  <1>2. CoordinatorInvariant /\ [Next]_vars => [\A r \in Runner : Moves(r)]_vars
    BY StatusStep DEF CoordinatorInvariant
  <1> QED  BY <1>1, <1>2, PTL DEF Spec, StatusesOnlyMove
=============================================================================
