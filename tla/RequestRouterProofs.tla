------------------------- MODULE RequestRouterProofs -------------------------
(***************************************************************************)
(* Theorems about RequestRouter, for any Runners, callers, request actors  *)
(* and limits: the turns, the slots and the wakeups of the router.         *)
(***************************************************************************)
EXTENDS RequestRouter, FiniteSetTheorems, SequenceTheorems, TLAPS

-----------------------------------------------------------------------------
(* Lines: sequences without duplicates *)

\* A line over S: nobody stands in it twice.
Line(S) == {s \in Seq(S) : IsInjective(s)}

\* Whoever joins at the end of a line stands behind all others.
LEMMA JoinLine ==
    ASSUME NEW S, NEW s \in Line(S), NEW e \in S, e \notin ToSet(s)
    PROVE  /\ Append(s, e) \in Line(S)
           /\ ToSet(Append(s, e)) = ToSet(s) \cup {e}
           /\ Append(s, e) # <<>>
           /\ Head(Append(s, e)) = IF s = <<>> THEN e ELSE Head(s)
<1> DEFINE t == Append(s, e)
<1>1. s \in Seq(S) /\ DOMAIN s = 1..Len(s) /\ Len(s) \in Nat
  BY LenProperties DEF Line
<1>2. /\ t \in Seq(S) /\ Len(t) = Len(s) + 1 /\ t # <<>>
      /\ \A i \in 1..Len(s) : t[i] = s[i]
      /\ t[Len(s) + 1] = e
  BY <1>1, AppendProperties
<1>3. DOMAIN t = 1..(Len(s) + 1)
  BY <1>2, LenProperties
<1>4. IsInjective(t)
  BY <1>1, <1>2, <1>3 DEF IsInjective, Line, ToSet
<1>5. ToSet(t) = ToSet(s) \cup {e}
  <2>1. ToSet(t) \subseteq ToSet(s) \cup {e}
    BY <1>1, <1>2, <1>3 DEF ToSet
  <2>2. ToSet(s) \cup {e} \subseteq ToSet(t)
    BY <1>1, <1>2, <1>3 DEF ToSet
  <2> QED BY <2>1, <2>2
<1>6. Head(t) = IF s = <<>> THEN e ELSE Head(s)
  BY <1>1, HeadTailAppend
<1> QED BY <1>2, <1>4, <1>5, <1>6 DEF Line

\* A line is empty exactly when nobody stands in it.
LEMMA EmptyLine ==
    ASSUME NEW S, NEW s \in Seq(S)
    PROVE  /\ s = <<>> <=> ToSet(s) = {}
           /\ s # <<>> => Head(s) = s[1] /\ Head(s) \in ToSet(s) /\ 1 \in DOMAIN s
<1>1. DOMAIN s = 1..Len(s) /\ Len(s) \in Nat
  BY LenProperties
<1>2. s # <<>> => Len(s) \in Nat \ {0}
  BY EmptySeq
<1>3. s # <<>> => Head(s) = s[1]
  BY <1>2 
<1>4. s = <<>> => ToSet(s) = {}
  BY DEF ToSet
<1>5. s # <<>> => 1 \in DOMAIN s
  BY <1>1, <1>2
<1> QED BY <1>1, <1>2, <1>3, <1>4, <1>5 DEF ToSet

\* Who leaves a line at position k: those behind move up.
LEMMA RemoveFromLine ==
    ASSUME NEW S, NEW s \in Line(S), NEW e \in ToSet(s)
    PROVE  \E k \in DOMAIN s :
              /\ s[k] = e
              /\ Len(RemoveFirst(s, e)) = Len(s) - 1
              /\ RemoveFirst(s, e) \in Seq(S)
              /\ DOMAIN RemoveFirst(s, e) = 1..(Len(s) - 1)
              /\ \A i \in 1..(Len(s) - 1) :
                    RemoveFirst(s, e)[i] = IF i < k THEN s[i] ELSE s[i + 1]
<1>1. s \in Seq(S) /\ DOMAIN s = 1..Len(s) /\ Len(s) \in Nat /\ \A i \in 1..Len(s) : s[i] \in S
  BY LenProperties, ElementOfSeq DEF Line
<1>2. PICK k \in 1..Len(s) : s[k] = e
  BY <1>1 DEF ToSet
<1> DEFINE I == {i \in 1..Len(s) : s[i] = e}
<1>3. I = {k}
  BY <1>1, <1>2 DEF Line, IsInjective
<1>4. Min({k}) = k
  BY <1>1, <1>2 DEF Min
<1>5. SelectInSeq(s, LAMBDA v : v = e) = k
  BY <1>3, <1>4 DEF SelectInSeq
<1>6. RemoveFirst(s, e) = SubSeq(s, 1, k - 1) \o SubSeq(s, k + 1, Len(s))
  BY <1>2, <1>5 DEF RemoveFirst, RemoveAt
<1> DEFINE a == SubSeq(s, 1, k - 1)
           b == SubSeq(s, k + 1, Len(s))
<1>7. a \in Seq(S) /\ Len(a) = k - 1 /\ \A i \in 1..(k - 1) : a[i] = s[i]
  BY <1>1, SubSeqProperties
<1>8. b \in Seq(S) /\ Len(b) = Len(s) - k /\ \A i \in 1..(Len(s) - k) : b[i] = s[k + i]
  <2>1. k + 1 \in Int /\ Len(s) \in Int /\ \A i \in (k + 1)..Len(s) : s[i] \in S
    BY <1>1
  <2>2. /\ b \in Seq(S)
        /\ Len(b) = IF k + 1 <= Len(s) THEN Len(s) - (k + 1) + 1 ELSE 0
        /\ \A i \in 1..(Len(s) - (k + 1) + 1) : b[i] = s[(k + 1) + i - 1]
    BY <2>1, SubSeqProperties
  <2> HIDE DEF b
  <2>3. Len(b) = Len(s) - k
    <3>1. Len(s) \in Nat /\ k \in Nat /\ k <= Len(s)
      BY <1>1
    <3>2. (IF k + 1 <= Len(s) THEN Len(s) - (k + 1) + 1 ELSE 0) = Len(s) - k
      BY <3>1
    <3> QED BY <3>2, <2>2
  <2>4. ASSUME NEW i \in 1..(Len(s) - k) PROVE b[i] = s[k + i]
    <3>1. i \in 1..(Len(s) - (k + 1) + 1) /\ (k + 1) + i - 1 = k + i
      BY <1>1
    <3> QED BY <3>1, <2>2
  <2> QED BY <2>2, <2>3, <2>4
<1> HIDE DEF a, b
<1>9. /\ a \o b \in Seq(S) /\ Len(a \o b) = Len(a) + Len(b)
      /\ \A i \in 1..Len(a) + Len(b) : (a \o b)[i] = IF i <= Len(a) THEN a[i] ELSE b[i - Len(a)]
  BY <1>7, <1>8, ConcatProperties
<1>10. Len(a \o b) = Len(s) - 1 /\ DOMAIN (a \o b) = 1..(Len(s) - 1)
  <2>1. Len(a \o b) = Len(s) - 1
    BY <1>1, <1>7, <1>8, <1>9
  <2>2. DOMAIN (a \o b) = 1..Len(a \o b)
    BY <1>9, LenProperties
  <2> QED BY <2>1, <2>2
<1>11. \A i \in 1..(Len(s) - 1) : (a \o b)[i] = IF i < k THEN s[i] ELSE s[i + 1]
  <2> SUFFICES ASSUME NEW i \in 1..(Len(s) - 1)
               PROVE  (a \o b)[i] = IF i < k THEN s[i] ELSE s[i + 1]
    OBVIOUS
  <2>1. CASE i < k
    BY <2>1, <1>1, <1>7, <1>8, <1>9
  <2>2. CASE ~(i < k)
    <3>1. i - (k - 1) \in 1..(Len(s) - k) /\ k + (i - (k - 1)) = i + 1
      BY <2>2, <1>1
    <3>2. (a \o b)[i] = b[i - (k - 1)]
      BY <2>2, <1>1, <1>7, <1>8, <1>9
    <3> QED BY <3>1, <3>2, <2>2, <1>8
  <2> QED BY <2>1, <2>2
<1> QED BY <1>1, <1>2, <1>6, <1>9, <1>10, <1>11 DEF a, b

\* Leaving a line takes out exactly the one who leaves.
LEMMA LeaveLine ==
    ASSUME NEW S, NEW s \in Line(S), NEW e \in ToSet(s)
    PROVE  /\ RemoveFirst(s, e) \in Line(S)
           /\ ToSet(RemoveFirst(s, e)) = ToSet(s) \ {e}
<1> DEFINE t == RemoveFirst(s, e)
<1>1. DOMAIN s = 1..Len(s) /\ Len(s) \in Nat /\ IsInjective(s)
  BY LenProperties DEF Line
<1>2. PICK k \in DOMAIN s :
              /\ s[k] = e
              /\ t \in Seq(S)
              /\ DOMAIN t = 1..(Len(s) - 1)
              /\ \A i \in 1..(Len(s) - 1) : t[i] = IF i < k THEN s[i] ELSE s[i + 1]
  BY RemoveFromLine
<1> HIDE DEF t
<1> DEFINE at(m) == IF m < k THEN m ELSE m + 1
<1>3a. ASSUME NEW i \in DOMAIN t
       PROVE  at(i) \in DOMAIN s /\ at(i) # k /\ t[i] = s[at(i)]
  <2>1. i \in 1..(Len(s) - 1) /\ k \in 1..Len(s) /\ Len(s) \in Nat
    BY <1>1, <1>2
  <2>2. t[i] = s[at(i)]
    BY <2>1, <1>2
  <2>3. at(i) \in 1..Len(s) /\ at(i) # k
    BY <2>1
  <2> QED BY <2>2, <2>3, <1>1
<1>3. IsInjective(t)
  <2>1. SUFFICES ASSUME NEW i \in DOMAIN t, NEW j \in DOMAIN t, t[i] = t[j] PROVE i = j
    BY DEF IsInjective
  <2>2. at(i) = at(j)
    BY <1>1, <1>3a, <2>1 DEF IsInjective
  <2>3. i \in Int /\ j \in Int /\ k \in Int
    BY <1>1, <1>2
  <2> QED BY <2>2, <2>3
<1>4. ASSUME NEW i \in DOMAIN t PROVE t[i] \in ToSet(s) \ {e}
  <2>1. s[at(i)] # s[k]
    BY <1>1, <1>2, <1>3a DEF IsInjective
  <2> HIDE DEF at
  <2> QED BY <2>1, <1>2, <1>3a DEF ToSet
<1>5. ASSUME NEW j \in DOMAIN s, j # k PROVE s[j] \in ToSet(t)
  <2>1. CASE j < k
    BY <2>1, <1>1, <1>2, j \in DOMAIN t DEF ToSet
  <2>2. CASE k < j
    <3>1. j - 1 \in DOMAIN t /\ t[j - 1] = s[j]
      BY <2>2, <1>1, <1>2
    <3> QED BY <3>1 DEF ToSet
  <2> QED BY <1>1, <1>5, <2>1, <2>2
<1>6. ToSet(t) \subseteq ToSet(s) \ {e}
  BY <1>4 DEF ToSet
<1>7. ToSet(s) \ {e} \subseteq ToSet(t)
  BY <1>2, <1>5 DEF ToSet
<1> QED BY <1>2, <1>3, <1>6, <1>7 DEF t, Line

\* Rotating the turns moves the first to the end.
LEMMA RotateLine ==
    ASSUME NEW S, NEW s \in Line(S), s # <<>>
    PROVE  /\ Rotate(s) \in Line(S)
           /\ ToSet(Rotate(s)) = ToSet(s)
           /\ DOMAIN Rotate(s) = DOMAIN s
           /\ \A i \in DOMAIN s : Rotate(s)[i] = IF i = Len(s) THEN s[1] ELSE s[i + 1]
<1> DEFINE t == Rotate(s)
<1>1. DOMAIN s = 1..Len(s) /\ Len(s) \in Nat \ {0} /\ IsInjective(s) /\ s \in Seq(S)
      /\ Head(s) = s[1] /\ \A i \in DOMAIN s : s[i] \in S
  BY LenProperties, EmptySeq, ElementOfSeq, EmptyLine DEF Line
<1>2. Tail(s) \in Seq(S) /\ Len(Tail(s)) = Len(s) - 1
      /\ \A i \in 1..(Len(s) - 1) : Tail(s)[i] = s[i + 1]
  BY <1>1, HeadTailProperties
<1>3. <<s[1]>> \in Seq(S) /\ Len(<<s[1]>>) = 1 /\ <<s[1]>>[1] = s[1]
  BY <1>1
<1>4. /\ t \in Seq(S) /\ Len(t) = Len(s)
      /\ \A i \in 1..Len(s) : t[i] = IF i <= Len(s) - 1 THEN Tail(s)[i] ELSE <<s[1]>>[i - (Len(s) - 1)]
  BY <1>1, <1>2, <1>3, ConcatProperties DEF Rotate
<1> HIDE DEF t
<1>5. DOMAIN t = DOMAIN s
  BY <1>1, <1>4, LenProperties
<1>6. \A i \in DOMAIN s : t[i] = IF i = Len(s) THEN s[1] ELSE s[i + 1]
  BY <1>1, <1>2, <1>3, <1>4
<1>7. IsInjective(t)
  BY <1>1, <1>5, <1>6 DEF IsInjective
<1>8. ToSet(t) \subseteq ToSet(s)
  BY <1>1, <1>5, <1>6 DEF ToSet
<1>9. ASSUME NEW j \in DOMAIN s PROVE s[j] \in ToSet(t)
  <2>1. CASE j = 1
    BY <2>1, <1>1, <1>5, <1>6, Len(s) \in DOMAIN s DEF ToSet
  <2>2. CASE j # 1
    <3>1. j - 1 \in DOMAIN s /\ t[j - 1] = s[j]
      BY <2>2, <1>1, <1>6
    <3> QED BY <3>1, <1>5 DEF ToSet
  <2> QED BY <2>1, <2>2
<1> QED BY <1>4, <1>5, <1>6, <1>7, <1>8, <1>9 DEF t, Line, ToSet

-----------------------------------------------------------------------------
(* The turns and what the history notes of them *)

\* In the turns ord, whoever was served while another waited stands behind it.
StandBehind(ord, p) == \A i, j \in DOMAIN ord : p[ord[i]][ord[j]] # 0 => i < j

\* A Runner that leaves the turns does not change who stands behind whom.
LEMMA StandBehindRemove ==
    ASSUME NEW ord \in Line(Runner), NEW e \in ToSet(ord), NEW p, StandBehind(ord, p)
    PROVE  StandBehind(RemoveFirst(ord, e), p)
<1>1. DOMAIN ord = 1..Len(ord) /\ Len(ord) \in Nat
  BY LenProperties DEF Line
<1>2. PICK k \in DOMAIN ord :
              /\ DOMAIN RemoveFirst(ord, e) = 1..(Len(ord) - 1)
              /\ \A i \in 1..(Len(ord) - 1) :
                    RemoveFirst(ord, e)[i] = IF i < k THEN ord[i] ELSE ord[i + 1]
  BY RemoveFromLine
<1>3. SUFFICES ASSUME NEW i \in 1..(Len(ord) - 1), NEW j \in 1..(Len(ord) - 1),
                      p[RemoveFirst(ord, e)[i]][RemoveFirst(ord, e)[j]] # 0
               PROVE  i < j
  BY <1>2 DEF StandBehind
<1> DEFINE at(n) == IF n < k THEN n ELSE n + 1
<1>4. /\ at(i) \in DOMAIN ord /\ RemoveFirst(ord, e)[i] = ord[at(i)]
      /\ at(j) \in DOMAIN ord /\ RemoveFirst(ord, e)[j] = ord[at(j)]
  BY <1>1, <1>2
<1>5. at(i) < at(j)
  BY <1>3, <1>4 DEF StandBehind
<1> QED BY <1>1, <1>5

\* Forgetting what was noted does not either.
LEMMA StandBehindForget ==
    ASSUME NEW ord \in Line(Runner), NEW qs, StandBehind(ord, passed),
           passed \in [Runner -> [Runner -> Nat]]
    PROVE  StandBehind(ord, Passed(qs, {}))
<1>1. \A i \in DOMAIN ord : ord[i] \in Runner
  BY ElementOfSeq, LenProperties DEF Line
<1>2. \A r, s \in Runner : Passed(qs, {})[r][s] # 0 => passed[r][s] # 0
  BY DEF Passed
<1> QED BY <1>1, <1>2 DEF StandBehind

\* The Runner that is served goes to the end, behind everybody it passed.
LEMMA StandBehindRotate ==
    ASSUME NEW ord \in Line(Runner), ord # <<>>, NEW qs, StandBehind(ord, passed),
           passed \in [Runner -> [Runner -> Nat]]
    PROVE  StandBehind(Rotate(ord), Passed(qs, {Head(ord)}))
<1>1. DOMAIN ord = 1..Len(ord) /\ Len(ord) \in Nat /\ ord \in Seq(Runner) /\ IsInjective(ord)
      /\ \A i \in DOMAIN ord : ord[i] \in Runner
  BY ElementOfSeq, LenProperties DEF Line
<1>2. /\ DOMAIN Rotate(ord) = DOMAIN ord
      /\ \A i \in DOMAIN ord : Rotate(ord)[i] = IF i = Len(ord) THEN ord[1] ELSE ord[i + 1]
  BY RotateLine
<1>3. Head(ord) = ord[1] /\ 1 \in DOMAIN ord
  BY <1>1, EmptyLine
<1>4. SUFFICES ASSUME NEW i \in DOMAIN ord, NEW j \in DOMAIN ord,
                      Passed(qs, {ord[1]})[Rotate(ord)[i]][Rotate(ord)[j]] # 0
               PROVE  i < j
  BY <1>2, <1>3 DEF StandBehind
<1> DEFINE n == Len(ord)
<1>a. n \in Nat /\ DOMAIN ord = 1..n /\ i \in 1..n /\ j \in 1..n
  BY <1>1
<1>b. \A m \in 1..n : Rotate(ord)[m] = IF m = n THEN ord[1] ELSE ord[m + 1]
  BY <1>1, <1>2
<1> HIDE DEF n
<1>c. \A m \in 1..n : ord[m] \in Runner
  BY <1>1, <1>a
<1>5. \A m \in 1..n : Rotate(ord)[m] \in Runner
  <2> SUFFICES ASSUME NEW m \in 1..n PROVE Rotate(ord)[m] \in Runner
    OBVIOUS
  <2>1. CASE m = n
    BY <2>1, <1>1, <1>3, <1>b
  <2>2. CASE m # n
    <3>1. m + 1 \in 1..n
      BY <2>2, <1>a
    <3> QED BY <3>1, <2>2, <1>b, <1>c
  <2> QED BY <2>1, <2>2
<1>6. Rotate(ord)[i] # ord[1]
  BY <1>4, <1>5, <1>a DEF Passed
<1>7. i # n
  BY <1>a, <1>b, <1>6
<1>8. CASE j = n
  BY <1>a, <1>7, <1>8
<1>9. CASE j # n
  <2>1. Rotate(ord)[i] = ord[i + 1] /\ Rotate(ord)[j] = ord[j + 1]
        /\ i + 1 \in DOMAIN ord /\ j + 1 \in DOMAIN ord
    BY <1>a, <1>b, <1>7, <1>9
  <2>2. ord[j + 1] # ord[1]
    <3>1. j + 1 # 1 /\ j + 1 \in DOMAIN ord /\ 1 \in DOMAIN ord
      BY <1>3, <1>a, <2>1
    <3> QED BY <3>1, <1>1 DEF IsInjective
  <2>3. passed[ord[i + 1]][ord[j + 1]] # 0
    BY <1>4, <1>5, <1>a, <2>1, <2>2 DEF Passed
  <2>4. i + 1 < j + 1
    BY <2>1, <2>3 DEF StandBehind
  <2> QED BY <1>a, <2>4
<1> QED BY <1>8, <1>9

-----------------------------------------------------------------------------
(* The slots *)

\* The constants are positive.
LEMMA Positive == /\ Actors \in Nat \ {0} /\ Limit \in Nat \ {0} /\ MaxRequests \in Nat \ {0}
                  /\ Capacity \in Nat /\ Capacity <= MaxRequests
<1>1. Actors \in Nat \ {0} /\ Limit \in Nat \ {0} /\ MaxRequests \in Nat \ {0}
  BY PositiveAssumption
<1>2. Actors * Limit \in Nat
  BY <1>1
<1> QED BY <1>1, <1>2 DEF Capacity

\* A nonempty set of natural numbers has a least element.
LEMMA LeastNumber ==
    ASSUME NEW T \in SUBSET Nat, T # {}
    PROVE  \E x \in T : \A y \in T : x <= y
<1> DEFINE R == OpToRel(<, Nat)
<1>1. IsWellFoundedOn(R, Nat)
  BY NatLessThanWellFounded
<1>2. \A x, y \in Nat : x < y => <<x, y>> \in R
  BY DEF OpToRel
<1> HIDE DEF R
<1>3. PICK x \in T : \A y \in T : ~ (<<y, x>> \in R)
  BY <1>1, WFMin
<1>4. ASSUME NEW y \in T PROVE x <= y
  <2>1. x \in Nat /\ y \in Nat /\ ~(y < x)
    BY <1>2, <1>3
  <2> QED BY <2>1
<1> QED BY <1>4

\* There is a least busy request actor.
LEMMA CandidateExists ==
    ASSUME busy \in [Actor -> 0..Limit]
    PROVE  Candidate \in Actor
<1>1. Actors \in Nat \ {0} /\ Limit \in Nat \ {0}
  BY Positive
<1> DEFINE load == {busy[a] : a \in Actor}
<1>2. load \in SUBSET Nat /\ load # {} /\ 1 \in Actor
  BY <1>1 DEF Actor
<1>3. PICK x \in load : \A y \in load : x <= y
  BY <1>2, LeastNumber
<1> DEFINE least == {a \in Actor : busy[a] = x}
<1>4. least \in SUBSET Nat /\ least # {}
  BY <1>1 DEF Actor
<1>5. PICK a \in least : \A c \in least : a <= c
  BY <1>4, LeastNumber
<1>6. ASSUME NEW c \in Actor
      PROVE  busy[a] < busy[c] \/ (busy[a] = busy[c] /\ a <= c)
  <2>1. busy[a] = x /\ x <= busy[c] /\ busy[c] \in Nat /\ x \in Nat
    BY <1>2, <1>3, <1>5
  <2> QED BY <2>1, <1>5
<1>7. \E d \in Actor : \A c \in Actor : busy[d] < busy[c] \/ (busy[d] = busy[c] /\ d <= c)
  BY <1>5, <1>6
<1> QED BY <1>7 DEF Candidate

Taken == {x \in Actor \X (1..Limit) : x[2] <= busy[x[1]]}

\* Only finitely many slots can be taken.
LEMMA TakenFinite == IsFiniteSet(Taken) /\ BusySlots = Cardinality(Taken) /\ BusySlots \in Nat
<1>1. IsFiniteSet(Actor) /\ IsFiniteSet(1..Limit)
  BY Positive, FS_Interval DEF Actor
<1>2. IsFiniteSet(Actor \X (1..Limit))
  BY <1>1, FS_Product
<1>3. IsFiniteSet(Taken)
  BY <1>2, FS_Subset, Taken \subseteq Actor \X (1..Limit) DEF Taken
<1>4. BusySlots = Cardinality(Taken)
  BY DEF BusySlots, Taken
<1> QED BY <1>3, <1>4, FS_CardinalityType

\* A grant takes one slot more.
LEMMA GrantCounts ==
    ASSUME busy \in [Actor -> 0..Limit], NEW a \in Actor, busy[a] < Limit,
           busy' = [busy EXCEPT ![a] = @ + 1]
    PROVE  BusySlots' = BusySlots + 1 /\ busy' \in [Actor -> 0..Limit]
<1>1. Limit \in Nat \ {0} /\ busy[a] \in Nat /\ busy' \in [Actor -> 0..Limit]
  BY Positive
<1>2. <<a, busy[a] + 1>> \notin Taken
  BY <1>1 DEF Taken
<1>3. Taken' = Taken \cup {<<a, busy[a] + 1>>}
  <2>1. ASSUME NEW x \in Actor \X (1..Limit)
        PROVE  x[2] <= busy'[x[1]] <=> (x[2] <= busy[x[1]] \/ x = <<a, busy[a] + 1>>)
    <3>1. x = <<x[1], x[2]>> /\ x[1] \in Actor /\ x[2] \in Nat /\ busy[x[1]] \in Nat
      BY <1>1
    <3> QED BY <3>1, <1>1
  <2>2. <<a, busy[a] + 1>> \in Actor \X (1..Limit)
    BY <1>1
  <2>3. Taken' = {x \in Actor \X (1..Limit) : x[2] <= busy'[x[1]]}
    BY DEF Taken, Actor
  <2> QED BY <2>1, <2>2, <2>3 DEF Taken
<1>4. BusySlots' = Cardinality(Taken')
  BY DEF BusySlots, Taken, Actor
<1> QED BY <1>1, <1>2, <1>3, <1>4, TakenFinite, FS_AddElement

\* A slot given back is not counted any more.
LEMMA ReleaseCounts ==
    ASSUME busy \in [Actor -> 0..Limit], NEW a \in Actor, busy[a] > 0,
           busy' = [busy EXCEPT ![a] = @ - 1]
    PROVE  BusySlots' \in Nat /\ BusySlots' <= BusySlots /\ busy' \in [Actor -> 0..Limit]
<1>1. Limit \in Nat \ {0} /\ busy[a] \in Nat /\ busy' \in [Actor -> 0..Limit]
  BY Positive
<1>2. Taken' \subseteq Taken
  <2>1. ASSUME NEW x \in Actor \X (1..Limit), x[2] <= busy'[x[1]]
        PROVE  x[2] <= busy[x[1]]
    <3>1. x[1] \in Actor /\ x[2] \in Nat /\ busy[x[1]] \in Nat /\ busy'[x[1]] \in Nat
      BY <1>1
    <3>2. busy'[x[1]] <= busy[x[1]]
      BY <1>1, <3>1
    <3> QED BY <2>1, <3>1, <3>2
  <2>2. Taken' = {x \in Actor \X (1..Limit) : x[2] <= busy'[x[1]]}
    BY DEF Taken, Actor
  <2> QED BY <2>1, <2>2 DEF Taken
<1>3. BusySlots' = Cardinality(Taken')
  BY DEF BusySlots, Taken, Actor
<1> QED BY <1>1, <1>2, <1>3, TakenFinite, FS_Subset, FS_CardinalityType

-----------------------------------------------------------------------------
(* What a call finds when it looks *)

\* The invariant that the steps of the router preserve.
IndInv == RouterInvariant /\ ServedStandBehind

\* The queues qs and the turns ord that the call q finds: q is one of the
\* waiting calls, and if the head of the turns could go on it has been told, or
\* it is q itself.
Finds(q, qs, ord) ==
    /\ qs \in [Runner -> Line(Request)]
    /\ ord \in Line(Runner)
    /\ ToSet(ord) = {r \in Runner : qs[r] # <<>>}
    /\ \A r \in Runner : ToSet(qs[r]) = {c \in Waiting \cup {q} : RunnerOf[c] = r}
    /\ StandBehind(ord, passed)
    /\ \A r, s \in Runner : qs[r] = <<>> => passed[r][s] = 0
    /\ SlotFree => \/ Head(qs[Head(ord)]) = q
                  \/ pc[Head(qs[Head(ord)])] = "awake"

\* The queues and the turns are lines.
LEMMA AreLines ==
    ASSUME IndInv
    PROVE  /\ queues \in [Runner -> Line(Request)]
           /\ order \in Line(Runner)
           /\ StandBehind(order, passed)
<1>1. \A r \in Runner : queues[r] \in Line(Request)
  BY DEF IndInv, RouterInvariant, TypeOK, TurnsAreWaiting, Line
<1> QED BY <1>1 DEF IndInv, RouterInvariant, TypeOK, TurnsAreWaiting, Line,
                    ServedStandBehind, StandBehind

\* A call that is woken finds the state as it is.
LEMMA RecheckFinds ==
    ASSUME IndInv, NEW q \in Request, pc[q] = "awake"
    PROVE  Finds(q, queues, order)
<1>1. q \in Waiting
  BY DEF Waiting
<1>2. \A r \in Runner : ToSet(queues[r]) = {c \in Waiting \cup {q} : RunnerOf[c] = r}
  BY <1>1 DEF IndInv, RouterInvariant, TurnsAreWaiting
<1>3. order # <<>>
  <2>1. RunnerOf[q] \in Runner
    BY RunnerOfAssumption
  <2>2. ToSet(queues[RunnerOf[q]]) # {}
    BY <1>1, <2>1 DEF IndInv, RouterInvariant, TurnsAreWaiting
  <2>3. queues[RunnerOf[q]] # <<>>
    BY <2>2 DEF ToSet
  <2>4. RunnerOf[q] \in ToSet(order)
    BY <2>1, <2>3 DEF IndInv, RouterInvariant, TurnsAreWaiting
  <2> QED BY <2>4 DEF ToSet
<1> QED BY <1>2, <1>3, AreLines
        DEF Finds, IndInv, RouterInvariant, TurnsAreWaiting, ServedStandBehind, NoLostWakeup

\* A call that enters finds the state with itself at the end of its queue and,
\* if it is the only one, its Runner at the end of the turns.
LEMMA EnterFinds ==
    ASSUME IndInv, NEW q \in Request, pc[q] = "idle", NEW r, r = RunnerOf[q],
           NEW qs, qs = [queues EXCEPT ![r] = Append(@, q)],
           NEW ord, ord = IF queues[r] = <<>> THEN Append(order, r) ELSE order
    PROVE  Finds(q, qs, ord)
<1>1. r \in Runner /\ q \notin Waiting
  BY RunnerOfAssumption DEF Waiting
<1>2. queues \in [Runner -> Line(Request)] /\ order \in Line(Runner) /\ StandBehind(order, passed)
  BY AreLines
<1>3. q \notin ToSet(queues[r])
  BY <1>1 DEF IndInv, RouterInvariant, TurnsAreWaiting
<1>4. /\ Append(queues[r], q) \in Line(Request)
      /\ ToSet(Append(queues[r], q)) = ToSet(queues[r]) \cup {q}
      /\ Append(queues[r], q) # <<>>
      /\ Head(Append(queues[r], q)) = IF queues[r] = <<>> THEN q ELSE Head(queues[r])
  BY <1>1, <1>2, <1>3, JoinLine
<1>5. qs \in [Runner -> Line(Request)] /\ qs[r] = Append(queues[r], q)
      /\ \A s \in Runner : s # r => qs[s] = queues[s]
  BY <1>1, <1>2, <1>4
<1>6. \A s \in Runner : ToSet(qs[s]) = {c \in Waiting \cup {q} : RunnerOf[c] = s}
  BY <1>1, <1>4, <1>5 DEF IndInv, RouterInvariant, TurnsAreWaiting
<1>7. \A s, t \in Runner : qs[s] = <<>> => passed[s][t] = 0
  BY <1>4, <1>5 DEF IndInv, ServedStandBehind
<1>8. CASE queues[r] # <<>>
  <2>1. ord = order /\ ToSet(ord) = {s \in Runner : qs[s] # <<>>}
    BY <1>1, <1>4, <1>5, <1>8 DEF IndInv, RouterInvariant, TurnsAreWaiting
  <2>2. order # <<>>
    BY <1>1, <1>8 DEF IndInv, RouterInvariant, TurnsAreWaiting, ToSet
  <2>3. Head(order) \in Runner
    BY <1>2, <2>2, EmptyLine, ElementOfSeq DEF Line, ToSet
  <2>4. Head(qs[Head(order)]) = Head(queues[Head(order)])
    BY <1>4, <1>5, <1>8, <2>3
  <2> QED BY <1>2, <1>5, <1>6, <1>7, <2>1, <2>2, <2>4
          DEF Finds, IndInv, RouterInvariant, NoLostWakeup
<1>9. CASE queues[r] = <<>>
  <2>1. r \notin ToSet(order)
    BY <1>9 DEF IndInv, RouterInvariant, TurnsAreWaiting
  <2>2. /\ ord = Append(order, r) /\ ord \in Line(Runner) /\ ord # <<>>
        /\ ToSet(ord) = ToSet(order) \cup {r}
        /\ Head(ord) = IF order = <<>> THEN r ELSE Head(order)
    BY <1>1, <1>2, <1>9, <2>1, JoinLine
  <2>3. ToSet(ord) = {s \in Runner : qs[s] # <<>>}
    BY <1>1, <1>4, <1>5, <2>2 DEF IndInv, RouterInvariant, TurnsAreWaiting
  <2>4. StandBehind(ord, passed)
    <3>1. DOMAIN order = 1..Len(order) /\ Len(order) \in Nat /\ order \in Seq(Runner)
      BY <1>2, LenProperties DEF Line
    <3>2. /\ DOMAIN ord = 1..(Len(order) + 1)
          /\ \A i \in 1..Len(order) : ord[i] = order[i]
          /\ ord[Len(order) + 1] = r
      BY <1>1, <2>2, <3>1, AppendProperties, LenProperties
    <3>3. \A s \in Runner : passed[r][s] = 0
      BY <1>1, <1>9 DEF IndInv, ServedStandBehind
    <3>4. \A i \in DOMAIN ord : ord[i] \in Runner
      BY <2>2, ElementOfSeq, LenProperties DEF Line
    <3>5. SUFFICES ASSUME NEW i \in DOMAIN ord, NEW j \in DOMAIN ord, passed[ord[i]][ord[j]] # 0
                   PROVE  i < j
      BY DEF StandBehind
    <3>6. i # Len(order) + 1
      BY <3>2, <3>3, <3>4, <3>5
    <3>7. CASE j = Len(order) + 1
      BY <3>1, <3>2, <3>6, <3>7
    <3>8. CASE j # Len(order) + 1
      <4>1. i \in DOMAIN order /\ j \in DOMAIN order /\ ord[i] = order[i] /\ ord[j] = order[j]
        BY <3>1, <3>2, <3>6, <3>8
      <4> QED BY <4>1, <3>5, <1>2 DEF StandBehind
    <3> QED BY <3>7, <3>8
  <2>5. CASE order = <<>>
    <3>1. Head(qs[Head(ord)]) = q
      BY <1>4, <1>5, <1>9, <2>2, <2>5
    <3> QED BY <1>5, <1>6, <1>7, <2>2, <2>3, <2>4, <3>1 DEF Finds
  <2>6. CASE order # <<>>
    <3>1. Head(order) \in ToSet(order)
      BY <1>2, <2>6, EmptyLine DEF Line
    <3>2. Head(order) \in Runner /\ Head(order) # r
      BY <2>1, <3>1 DEF IndInv, RouterInvariant, TurnsAreWaiting
    <3>3. Head(qs[Head(ord)]) = Head(queues[Head(order)])
      BY <1>5, <2>2, <2>6, <3>2
    <3> QED BY <1>5, <1>6, <1>7, <2>2, <2>3, <2>4, <2>6, <3>3
            DEF Finds, IndInv, RouterInvariant, NoLostWakeup
  <2> QED BY <2>5, <2>6
<1> QED BY <1>8, <1>9

-----------------------------------------------------------------------------
(* The steps *)

\* A call that leaves the wait takes itself out of its queue and, if it was the
\* last, its Runner out of the turns; it wakes everybody, so nobody is forgotten.
LEMMA LeaveStep ==
    ASSUME IndInv, NEW q \in Request, NEW qs, NEW ord, Finds(q, qs, ord),
           NEW p \in {"idle", "executing"}, NEW granted,
           NEW ord2 \in Line(Runner), ToSet(ord2) = ToSet(ord),
           Leave(q, p, qs, ord2, granted), cancelled' = cancelled
    PROVE  /\ pc' \in [Request -> States]
           /\ queues' \in [Runner -> Seq(Request)] /\ order' \in Seq(Runner)
           /\ TurnsAreWaiting' /\ NoLostWakeup'
           /\ \A r \in Runner : queues'[r] # <<>> => qs[r] # <<>>
           /\ \A r, s \in Runner : queues'[r] = <<>> => passed'[r][s] = 0
           /\ StandBehind(ord2, passed') => StandBehind(order', passed')
           /\ passed' = Passed(queues', granted)
           /\ pc' = [c \in Request |-> IF c = q THEN p
                                       ELSE IF pc[c] = "asleep" THEN "awake" ELSE pc[c]]
<1> DEFINE r == RunnerOf[q]
           left == [qs EXCEPT ![r] = RemoveFirst(@, q)]
<1>1. r \in Runner /\ qs \in [Runner -> Line(Request)]
  BY RunnerOfAssumption DEF Finds
<1>2. /\ queues' = left
      /\ order' = IF left[r] = <<>> THEN RemoveFirst(ord2, r) ELSE ord2
      /\ passed' = Passed(left, granted)
      /\ pc' = [c \in Request |-> IF c = q THEN p
                                  ELSE IF pc[c] = "asleep" THEN "awake" ELSE pc[c]]
  BY DEF Leave, NotifyAll
<1>3. q \in ToSet(qs[r])
  BY <1>1 DEF Finds
<1>4. /\ RemoveFirst(qs[r], q) \in Line(Request)
      /\ ToSet(RemoveFirst(qs[r], q)) = ToSet(qs[r]) \ {q}
  BY <1>1, <1>3, LeaveLine
<1>5. /\ queues' \in [Runner -> Line(Request)]
      /\ queues'[r] = RemoveFirst(qs[r], q) /\ left[r] = queues'[r]
      /\ \A s \in Runner : s # r => queues'[s] = qs[s]
  BY <1>1, <1>2, <1>4
<1> HIDE DEF left
<1>6. pc' \in [Request -> States]
  BY <1>2 DEF IndInv, RouterInvariant, TypeOK, States
<1>7. /\ \A c \in Request : c \in Waiting' <=> c \in Waiting /\ c # q
      /\ \A c \in Waiting' : pc'[c] = "awake"
      /\ Waiting' \subseteq Request /\ Waiting \subseteq Request
  BY <1>2 DEF Waiting, IndInv, RouterInvariant, TypeOK, States
<1>8. \A s \in Runner : ToSet(queues'[s]) = {c \in Waiting' : RunnerOf[c] = s}
  <2> SUFFICES ASSUME NEW s \in Runner
               PROVE  ToSet(queues'[s]) = {c \in Waiting' : RunnerOf[c] = s}
    OBVIOUS
  <2>1. ToSet(qs[s]) = {c \in Waiting \cup {q} : RunnerOf[c] = s}
    BY DEF Finds
  <2>2. CASE s = r
    BY <2>1, <2>2, <1>4, <1>5, <1>7
  <2>3. CASE s # r
    BY <2>1, <2>3, <1>5, <1>7
  <2> QED BY <2>2, <2>3
<1>9. qs[r] # <<>> /\ r \in ToSet(ord2)
  <2>1. qs[r] # <<>>
    BY <1>3 DEF ToSet
  <2> QED BY <1>1, <2>1 DEF Finds
<1>10. /\ RemoveFirst(ord2, r) \in Line(Runner)
       /\ ToSet(RemoveFirst(ord2, r)) = ToSet(ord2) \ {r}
  BY <1>9, LeaveLine
<1>11. order' \in Line(Runner) /\ ToSet(order') = {s \in Runner : queues'[s] # <<>>}
  <2>1. ToSet(ord2) = {s \in Runner : qs[s] # <<>>}
    BY DEF Finds
  <2>2. CASE queues'[r] = <<>>
    BY <2>1, <2>2, <1>1, <1>2, <1>5, <1>10
  <2>3. CASE queues'[r] # <<>>
    BY <2>1, <2>3, <1>1, <1>2, <1>5, <1>9
  <2> QED BY <2>2, <2>3
<1>12. TurnsAreWaiting'
  BY <1>5, <1>8, <1>11 DEF TurnsAreWaiting, Line
<1>13. NoLostWakeup'
  <2>1. ASSUME order' # <<>> PROVE Head(queues'[Head(order')]) \in Waiting'
    <3>1. Head(order') \in ToSet(order')
      BY <1>11, <2>1, EmptyLine DEF Line
    <3>2. Head(order') \in Runner /\ queues'[Head(order')] # <<>>
      BY <1>11, <3>1
    <3>3. Head(queues'[Head(order')]) \in ToSet(queues'[Head(order')])
      BY <1>5, <3>2, EmptyLine DEF Line
    <3> QED BY <1>8, <3>2, <3>3
  <2> QED BY <1>7, <2>1 DEF NoLostWakeup
<1>14. \A s \in Runner : queues'[s] # <<>> => qs[s] # <<>>
  BY <1>5, <1>9
<1>15. \A s, t \in Runner : queues'[s] = <<>> => passed'[s][t] = 0
  BY <1>2 DEF Passed
<1>16. StandBehind(ord2, passed') => StandBehind(order', passed')
  BY <1>2, <1>9, StandBehindRemove
<1>17. queues' \in [Runner -> Seq(Request)] /\ order' \in Seq(Runner)
  BY <1>5, <1>11 DEF Line
<1> QED BY <1>2, <1>6, <1>12, <1>13, <1>14, <1>15, <1>16, <1>17

\* A refused call changes neither the slots nor the turns of the others.
LEMMA RefuseStep ==
    ASSUME IndInv, NEW q \in Request, pc[q] # "executing", NEW qs, NEW ord, Finds(q, qs, ord),
           Leave(q, "idle", qs, ord, {}), UNCHANGED <<slot, busy, cancelled>>
    PROVE  IndInv'
<1>1. ord \in Line(Runner) /\ StandBehind(ord, passed)
  BY DEF Finds
<1>2. /\ pc' \in [Request -> States]
      /\ queues' \in [Runner -> Seq(Request)] /\ order' \in Seq(Runner)
      /\ TurnsAreWaiting' /\ NoLostWakeup'
      /\ \A r, s \in Runner : queues'[r] = <<>> => passed'[r][s] = 0
      /\ StandBehind(ord, passed') => StandBehind(order', passed')
      /\ passed' = Passed(queues', {})
      /\ pc' = [c \in Request |-> IF c = q THEN "idle"
                                  ELSE IF pc[c] = "asleep" THEN "awake" ELSE pc[c]]
  BY <1>1, LeaveStep
<1>3. passed \in [Runner -> [Runner -> Nat]]
  BY DEF IndInv, RouterInvariant, TypeOK
<1>4. StandBehind(order', passed')
  BY <1>1, <1>2, <1>3, StandBehindForget
<1>5. /\ passed' \in [Runner -> [Runner -> Nat]]
      /\ \A r, s \in Runner : passed'[r][s] <= 1
  <2>1. passed' = [r \in Runner |-> [s \in Runner |->
                      IF queues'[r] = <<>> THEN 0 ELSE passed[r][s]]]
    BY <1>2, <1>3 DEF Passed
  <2>2. \A r, s \in Runner : passed[r][s] \in Nat /\ passed[r][s] <= 1
    BY <1>3 DEF IndInv, RouterInvariant, OneGrantPerTurn
  <2> QED BY <2>1, <2>2
<1>6. \A c \in Request : pc'[c] = "executing" <=> pc[c] = "executing"
  BY <1>2 DEF IndInv, RouterInvariant, TypeOK, States
<1>7. Executing' = Executing
  BY <1>6 DEF Executing
<1>8. BusySlots' = BusySlots
  BY DEF BusySlots, Actor
<1>9. SlotAccounting'
  BY <1>7, <1>8 DEF SlotAccounting, IndInv, RouterInvariant, Actor
<1>10. TypeOK'
  BY <1>2, <1>5 DEF TypeOK, IndInv, RouterInvariant, Actor
<1>11. ServedStandBehind'
  BY <1>2, <1>4, <1>6, <1>7 DEF ServedStandBehind, StandBehind, IndInv
<1> QED BY <1>2, <1>5, <1>9, <1>10, <1>11 DEF IndInv, RouterInvariant, OneGrantPerTurn

\* A grant charges the least busy request actor, moves the Runner to the end of
\* the turns and is noted by every Runner that goes on waiting, for the first time.
LEMMA GrantStep ==
    ASSUME IndInv, NEW q \in Request, pc[q] # "executing", NEW qs, NEW ord, Finds(q, qs, ord),
           NEW r, r = RunnerOf[q], Head(ord) = r, SlotFree,
           slot' = [slot EXCEPT ![q] = Candidate],
           busy' = [busy EXCEPT ![Candidate] = @ + 1],
           Leave(q, "executing", qs, Rotate(ord), {r}), cancelled' = cancelled
    PROVE  IndInv'
<1>1. ord \in Line(Runner) /\ StandBehind(ord, passed) /\ r \in Runner
      /\ ToSet(ord) = {s \in Runner : qs[s] # <<>>}
  BY RunnerOfAssumption DEF Finds
<1>2. r \in ToSet(ord)
  <2>1. q \in ToSet(qs[r])
    BY <1>1 DEF Finds
  <2>2. qs[r] # <<>>
    BY <2>1 DEF ToSet
  <2> QED BY <1>1, <2>2
<1>3. ord # <<>>
  BY <1>2 DEF ToSet
<1>4. Rotate(ord) \in Line(Runner) /\ ToSet(Rotate(ord)) = ToSet(ord)
  BY <1>1, <1>3, RotateLine
<1>5. /\ pc' \in [Request -> States]
      /\ queues' \in [Runner -> Seq(Request)] /\ order' \in Seq(Runner)
      /\ TurnsAreWaiting' /\ NoLostWakeup'
      /\ \A s \in Runner : queues'[s] # <<>> => qs[s] # <<>>
      /\ \A s, t \in Runner : queues'[s] = <<>> => passed'[s][t] = 0
      /\ StandBehind(Rotate(ord), passed') => StandBehind(order', passed')
      /\ passed' = Passed(queues', {r})
      /\ pc' = [c \in Request |-> IF c = q THEN "executing"
                                  ELSE IF pc[c] = "asleep" THEN "awake" ELSE pc[c]]
  BY <1>4, LeaveStep
<1>6. passed \in [Runner -> [Runner -> Nat]]
  BY DEF IndInv, RouterInvariant, TypeOK
<1>7. StandBehind(order', passed')
  BY <1>1, <1>3, <1>5, <1>6, StandBehindRotate
<1>8. \A s \in Runner : queues'[s] # <<>> => passed[s][r] = 0
  <2> SUFFICES ASSUME NEW s \in Runner, queues'[s] # <<>> PROVE passed[s][r] = 0
    OBVIOUS
  <2>1. s \in ToSet(ord)
    BY <1>1, <1>5
  <2>2. PICK i \in DOMAIN ord : ord[i] = s
    BY <2>1 DEF ToSet
  <2>3. ord[1] = r /\ 1 \in DOMAIN ord
    BY <1>1, <1>3, EmptyLine DEF Line
  <2>4. i >= 1 /\ i \in Nat
    BY <1>1, LenProperties DEF Line
  <2> QED BY <1>1, <2>2, <2>3, <2>4 DEF StandBehind
<1>9. /\ passed' \in [Runner -> [Runner -> Nat]]
      /\ \A s, t \in Runner : passed'[s][t] <= 1
  <2>1. passed' = [s \in Runner |-> [t \in Runner |->
            IF queues'[s] = <<>> \/ s \in {r} THEN 0
            ELSE passed[s][t] + IF t \in {r} THEN 1 ELSE 0]]
    BY <1>5 DEF Passed
  <2>2. \A s, t \in Runner : passed[s][t] \in Nat /\ passed[s][t] <= 1
    BY <1>6 DEF IndInv, RouterInvariant, OneGrantPerTurn
  <2>3. ASSUME NEW s \in Runner, NEW t \in Runner
        PROVE  passed'[s][t] \in Nat /\ passed'[s][t] <= 1
    <3>1. CASE queues'[s] = <<>> \/ s = r
      BY <2>1, <3>1
    <3>2. CASE queues'[s] # <<>> /\ s # r /\ t = r
      BY <2>1, <1>8, <3>2
    <3>3. CASE queues'[s] # <<>> /\ s # r /\ t # r
      BY <2>1, <2>2, <3>3
    <3> QED BY <3>1, <3>2, <3>3
  <2> QED BY <2>1, <2>3
<1>10. busy \in [Actor -> 0..Limit] /\ Candidate \in Actor
  BY CandidateExists DEF IndInv, RouterInvariant, TypeOK
<1>11. busy[Candidate] < Limit /\ BusySlots < Capacity
  BY DEF SlotFree
<1>12. BusySlots' = BusySlots + 1 /\ busy' \in [Actor -> 0..Limit]
  BY <1>10, <1>11, GrantCounts
<1>13. BusySlots' <= MaxRequests
  BY <1>11, <1>12, TakenFinite, Positive
<1>14. /\ slot' \in [Request -> Actor \cup {0}] /\ slot'[q] = Candidate /\ Candidate # 0
       /\ \A c \in Request : c # q => slot'[c] = slot[c]
  BY <1>10 DEF IndInv, RouterInvariant, TypeOK, Actor
<1>15. \A c \in Request : pc'[c] = "executing" <=> pc[c] = "executing" \/ c = q
  BY <1>5 DEF IndInv, RouterInvariant, TypeOK, States
<1>16. Executing' = Executing \cup {q} /\ q \notin Executing
  BY <1>15 DEF Executing
<1>17. IsFiniteSet(Executing) /\ IsFiniteSet(Executing')
  BY <1>16, FS_AddElement DEF IndInv, ServedStandBehind
<1>18. ASSUME NEW a \in Actor
       PROVE  busy'[a] = Cardinality({c \in Executing' : slot'[c] = a})
  <2> DEFINE A == {c \in Executing : slot[c] = a}
  <2>1. busy[a] = Cardinality(A) /\ IsFiniteSet(A)
    BY <1>17, FS_Subset, A \subseteq Executing DEF IndInv, RouterInvariant, SlotAccounting
  <2>2. Executing \subseteq Request
    BY DEF Executing
  <2>3. CASE a = Candidate
    <3>1. {c \in Executing' : slot'[c] = a} = A \cup {q} /\ q \notin A
      BY <1>14, <1>16, <2>2, <2>3
    <3>2. busy'[a] = busy[a] + 1
      BY <1>10, <2>3
    <3> HIDE DEF A
    <3> QED BY <2>1, <3>1, <3>2, FS_AddElement
  <2>4. CASE a # Candidate
    <3>1. {c \in Executing' : slot'[c] = a} = A
      BY <1>14, <1>16, <2>2, <2>4
    <3> QED BY <2>1, <2>4, <3>1, <1>10
  <2> QED BY <2>3, <2>4
<1>19. SlotAccounting'
  <2>1. \A a \in Actor : busy'[a] <= Limit
    BY <1>12, Positive
  <2> QED BY <1>13, <1>18, <2>1 DEF SlotAccounting, Actor
<1>20. TypeOK'
  BY <1>5, <1>9, <1>12, <1>14 DEF TypeOK, IndInv, RouterInvariant, Actor
<1>21. ServedStandBehind'
  <2>1. \A c \in Request : pc'[c] = "executing" <=> slot'[c] # 0
    BY <1>14, <1>15 DEF IndInv, ServedStandBehind
  <2> QED BY <1>5, <1>7, <1>17, <2>1 DEF ServedStandBehind, StandBehind
<1> QED BY <1>5, <1>9, <1>19, <1>20, <1>21 DEF IndInv, RouterInvariant, OneGrantPerTurn

\* A call goes to sleep only if it cannot go on: it is not cancelled, and the
\* head of the turns is somebody else, who has been told, or no slot is free.
LEMMA SleepStep ==
    ASSUME IndInv, NEW q \in Request, pc[q] # "executing", NEW qs, NEW ord, Finds(q, qs, ord),
           NEW r, r = RunnerOf[q], r \notin cancelled,
           ~(Head(ord) = r /\ Head(qs[r]) = q /\ SlotFree),
           pc' = [pc EXCEPT ![q] = "asleep"], queues' = qs, order' = ord,
           UNCHANGED <<slot, busy, passed, cancelled>>
    PROVE  IndInv'
<1>1. /\ qs \in [Runner -> Line(Request)] /\ ord \in Line(Runner)
      /\ ToSet(ord) = {s \in Runner : qs[s] # <<>>}
      /\ \A s \in Runner : ToSet(qs[s]) = {c \in Waiting \cup {q} : RunnerOf[c] = s}
      /\ StandBehind(ord, passed)
      /\ \A s, t \in Runner : qs[s] = <<>> => passed[s][t] = 0
  BY DEF Finds
<1>2. /\ \A c \in Request : pc'[c] = "executing" <=> pc[c] = "executing"
      /\ pc' \in [Request -> States]
  BY DEF IndInv, RouterInvariant, TypeOK, States
<1>3. Executing' = Executing
  BY <1>2 DEF Executing
<1>4. Waiting' = Waiting \cup {q}
  BY DEF Waiting, IndInv, RouterInvariant, TypeOK, States
<1>5. TurnsAreWaiting'
  BY <1>1, <1>4 DEF TurnsAreWaiting, Line
<1>6. BusySlots' = BusySlots
  BY DEF BusySlots, Actor
<1>7. SlotAccounting'
  BY <1>3, <1>6 DEF SlotAccounting, IndInv, RouterInvariant, Actor
<1>8. SlotFree' <=> SlotFree
  <2>1. Candidate' = Candidate
    BY DEF Candidate, Actor
  <2> QED BY <1>6, <2>1 DEF SlotFree, Capacity
<1>9. NoLostWakeup'
  <2>1. ASSUME order' # <<>>, SlotFree' PROVE pc'[Head(queues'[Head(order')])] = "awake"
    <3>1. Head(ord) \in ToSet(ord)
      BY <1>1, <2>1, EmptyLine DEF Line
    <3>2. Head(ord) \in Runner /\ qs[Head(ord)] # <<>>
      BY <1>1, <3>1
    <3>3. Head(qs[Head(ord)]) \in ToSet(qs[Head(ord)])
      BY <1>1, <3>2, EmptyLine DEF Line
    <3>4. Head(qs[Head(ord)]) \in Waiting \cup {q} /\ RunnerOf[Head(qs[Head(ord)])] = Head(ord)
      BY <1>1, <3>2, <3>3
    <3>5. Head(qs[Head(ord)]) # q
      BY <1>8, <2>1, <3>4
    <3>6. pc[Head(qs[Head(ord)])] = "awake"
      BY <1>8, <2>1, <3>5 DEF Finds
    <3> QED BY <3>5, <3>6 DEF IndInv, RouterInvariant, TypeOK
  <2>2. ASSUME NEW c \in Waiting', RunnerOf[c] \in cancelled' PROVE pc'[c] = "awake"
    BY <1>4, <2>2 DEF IndInv, RouterInvariant, TypeOK, NoLostWakeup
  <2> QED BY <2>1, <2>2 DEF NoLostWakeup
<1>10. TypeOK'
  BY <1>1, <1>2 DEF TypeOK, IndInv, RouterInvariant, Actor, Line
<1>11. ServedStandBehind'
  BY <1>1, <1>2, <1>3 DEF ServedStandBehind, StandBehind, IndInv
<1> QED BY <1>5, <1>7, <1>9, <1>10, <1>11 DEF IndInv, RouterInvariant, OneGrantPerTurn

\* One turn of the loop of execute: refused, granted or asleep.
LEMMA TurnStep ==
    ASSUME IndInv, NEW q \in Request, pc[q] # "executing", NEW qs, NEW ord, Finds(q, qs, ord),
           Turn(q, qs, ord), cancelled' = cancelled
    PROVE  IndInv'
<1>1. CASE /\ Leave(q, "idle", qs, ord, {})
           /\ UNCHANGED <<slot, busy>>
  BY <1>1, RefuseStep
<1>2. CASE /\ Head(ord) = RunnerOf[q] /\ SlotFree
           /\ slot' = [slot EXCEPT ![q] = Candidate]
           /\ busy' = [busy EXCEPT ![Candidate] = @ + 1]
           /\ Leave(q, "executing", qs, Rotate(ord), {RunnerOf[q]})
  BY <1>2, GrantStep
<1>3. CASE /\ RunnerOf[q] \notin cancelled
           /\ ~(Head(ord) = RunnerOf[q] /\ Head(qs[RunnerOf[q]]) = q /\ SlotFree)
           /\ pc' = [pc EXCEPT ![q] = "asleep"] /\ queues' = qs /\ order' = ord
           /\ UNCHANGED <<slot, busy, passed>>
  BY <1>3, SleepStep
<1> QED BY <1>1, <1>2, <1>3 DEF Turn

\* A finished execution gives its slot back and wakes everybody.
LEMMA FinishStep ==
    ASSUME IndInv, NEW q \in Request, Finish(q)
    PROVE  IndInv'
<1>1. /\ pc[q] = "executing"
      /\ busy' = [busy EXCEPT ![slot[q]] = @ - 1]
      /\ slot' = [slot EXCEPT ![q] = 0]
      /\ pc' = [c \in Request |-> IF c = q THEN "idle"
                                  ELSE IF pc[c] = "asleep" THEN "awake" ELSE pc[c]]
      /\ UNCHANGED <<queues, order, cancelled, passed>>
  BY DEF Finish, NotifyAll
<1>2. slot[q] \in Actor /\ 0 \notin Actor
  BY <1>1 DEF IndInv, RouterInvariant, TypeOK, ServedStandBehind, Actor
<1>3. Executing' = Executing \ {q} /\ q \in Executing /\ Executing \subseteq Request
  BY <1>1 DEF Executing, IndInv, RouterInvariant, TypeOK, States
<1>4. IsFiniteSet(Executing) /\ IsFiniteSet(Executing')
  BY <1>3, FS_RemoveElement DEF IndInv, ServedStandBehind
<1>5. busy \in [Actor -> 0..Limit] /\ slot \in [Request -> Actor \cup {0}]
  BY DEF IndInv, RouterInvariant, TypeOK
<1>6. ASSUME NEW a \in Actor
      PROVE  /\ busy'[a] = Cardinality({c \in Executing' : slot'[c] = a})
             /\ a = slot[q] => busy[a] > 0
  <2> DEFINE A == {c \in Executing : slot[c] = a}
  <2>1. busy[a] = Cardinality(A) /\ IsFiniteSet(A)
    BY <1>4, FS_Subset, A \subseteq Executing DEF IndInv, RouterInvariant, SlotAccounting
  <2>2. CASE a = slot[q]
    <3>1. {c \in Executing' : slot'[c] = a} = A \ {q} /\ q \in A
      BY <1>1, <1>2, <1>3, <1>5, <2>2
    <3>2. busy'[a] = busy[a] - 1
      BY <1>1, <1>2, <1>5, <2>2
    <3> HIDE DEF A
    <3>3. Cardinality(A) \in Nat /\ Cardinality(A) # 0
      BY <2>1, <3>1, FS_CardinalityType, FS_EmptySet
    <3>4. Cardinality(A \ {q}) = Cardinality(A) - 1
      BY <2>1, <3>1, FS_RemoveElement
    <3>5. busy'[a] = Cardinality({c \in Executing' : slot'[c] = a})
      BY <2>1, <3>1, <3>2, <3>4
    <3>6. busy[a] > 0
      BY <2>1, <3>3
    <3> QED BY <3>5, <3>6
  <2>3. CASE a # slot[q]
    <3>1. {c \in Executing' : slot'[c] = a} = A
      BY <1>1, <1>2, <1>3, <1>5, <2>3
    <3> QED BY <2>1, <2>3, <3>1, <1>1, <1>2, <1>5
  <2> QED BY <2>2, <2>3
<1>7. BusySlots' \in Nat /\ BusySlots' <= BusySlots /\ busy' \in [Actor -> 0..Limit]
  BY <1>1, <1>2, <1>5, <1>6, ReleaseCounts
<1>8. SlotAccounting'
  <2>1. BusySlots' <= MaxRequests
    <3>1. BusySlots \in Nat /\ BusySlots <= MaxRequests
      BY TakenFinite DEF IndInv, RouterInvariant, SlotAccounting
    <3> QED BY <1>7, <3>1, Positive
  <2>2. \A a \in Actor : busy'[a] <= Limit
    BY <1>7, Positive
  <2> QED BY <1>6, <2>1, <2>2 DEF SlotAccounting, Actor
<1>9. TypeOK'
  BY <1>1, <1>2, <1>5, <1>7 DEF TypeOK, IndInv, RouterInvariant, States, Actor
<1>10. /\ \A c \in Request : c \in Waiting' <=> c \in Waiting
       /\ \A c \in Waiting' : pc'[c] = "awake"
  BY <1>1 DEF Waiting, IndInv, RouterInvariant, TypeOK, States
<1>11. Waiting' = Waiting
  BY <1>10 DEF Waiting
<1>12. TurnsAreWaiting'
  BY <1>1, <1>11 DEF TurnsAreWaiting, IndInv, RouterInvariant
<1>13. NoLostWakeup'
  <2>1. ASSUME order # <<>> PROVE Head(queues[Head(order)]) \in Waiting
    <3>1. Head(order) \in ToSet(order)
      BY <2>1, AreLines, EmptyLine DEF Line
    <3>2. Head(order) \in Runner /\ queues[Head(order)] # <<>>
      BY <3>1 DEF IndInv, RouterInvariant, TurnsAreWaiting
    <3>3. Head(queues[Head(order)]) \in ToSet(queues[Head(order)])
      BY <3>2, AreLines, EmptyLine DEF Line
    <3> QED BY <3>2, <3>3 DEF IndInv, RouterInvariant, TurnsAreWaiting
  <2> QED BY <1>1, <1>10, <1>11, <2>1 DEF NoLostWakeup
<1>14. ServedStandBehind'
  <2>1. \A c \in Request : pc'[c] = "executing" <=> slot'[c] # 0
    BY <1>1, <1>5 DEF IndInv, ServedStandBehind, RouterInvariant, TypeOK, States
  <2> QED BY <1>1, <1>4, <2>1 DEF ServedStandBehind, IndInv
<1> QED BY <1>1, <1>8, <1>9, <1>12, <1>13, <1>14 DEF IndInv, RouterInvariant, OneGrantPerTurn

\* Cancelling a Runner wakes its waiting calls, which then find out.
LEMMA CancelStep ==
    ASSUME IndInv, NEW r \in Runner, Cancel(r)
    PROVE  IndInv'
<1>1. /\ cancelled' = cancelled \cup {r}
      /\ pc' = [c \in Request |-> IF pc[c] = "asleep" THEN "awake" ELSE pc[c]]
      /\ UNCHANGED <<slot, queues, order, busy, passed>>
  BY DEF Cancel
<1>2. /\ \A c \in Request : pc'[c] = "executing" <=> pc[c] = "executing"
      /\ \A c \in Request : c \in Waiting' <=> c \in Waiting
      /\ \A c \in Waiting' : pc'[c] = "awake"
      /\ pc' \in [Request -> States]
  BY <1>1 DEF Waiting, IndInv, RouterInvariant, TypeOK, States
<1>3. Executing' = Executing /\ Waiting' = Waiting
  BY <1>2 DEF Executing, Waiting
<1>4. BusySlots' = BusySlots
  BY <1>1 DEF BusySlots, Actor
<1>5. SlotAccounting'
  BY <1>1, <1>3, <1>4 DEF SlotAccounting, IndInv, RouterInvariant, Actor
<1>6. NoLostWakeup'
  <2>1. ASSUME order # <<>> PROVE Head(queues[Head(order)]) \in Waiting
    <3>1. Head(order) \in ToSet(order)
      BY <2>1, AreLines, EmptyLine DEF Line
    <3>2. Head(order) \in Runner /\ queues[Head(order)] # <<>>
      BY <3>1 DEF IndInv, RouterInvariant, TurnsAreWaiting
    <3>3. Head(queues[Head(order)]) \in ToSet(queues[Head(order)])
      BY <3>2, AreLines, EmptyLine DEF Line
    <3> QED BY <3>2, <3>3 DEF IndInv, RouterInvariant, TurnsAreWaiting
  <2> QED BY <1>1, <1>2, <1>3, <2>1 DEF NoLostWakeup
<1>7. TypeOK' /\ TurnsAreWaiting' /\ ServedStandBehind' /\ OneGrantPerTurn'
  BY <1>1, <1>2, <1>3 DEF IndInv, RouterInvariant, TypeOK, TurnsAreWaiting,
                          ServedStandBehind, OneGrantPerTurn, Actor
<1> QED BY <1>5, <1>6, <1>7 DEF IndInv, RouterInvariant

-----------------------------------------------------------------------------
(* The router is consistent and fair *)

\* Nothing waits, nothing executes.
LEMMA InitHolds == Init => IndInv
<1> SUFFICES ASSUME Init PROVE IndInv
  OBVIOUS
<1> USE DEF Init
<1>1. Executing = {} /\ Waiting = {}
  BY DEF Executing, Waiting
<1>2. \A r \in Runner : queues[r] = <<>>
  OBVIOUS
<1>3. TypeOK
  BY Positive DEF TypeOK, States
<1>4. TurnsAreWaiting
  BY <1>1, <1>2 DEF TurnsAreWaiting, IsInjective, ToSet
<1>5. BusySlots = 0
  <2>1. Taken = {}
    BY Positive DEF Taken
  <2> QED BY <2>1, TakenFinite, FS_EmptySet
<1>6. SlotAccounting
  <2>1. \A a \in Actor : {q \in Executing : slot[q] = a} = {}
    BY <1>1
  <2>2. \A a \in Actor : busy[a] = Cardinality({q \in Executing : slot[q] = a}) /\ busy[a] <= Limit
    <3>1. Cardinality({}) = 0
      BY FS_EmptySet
    <3>2. ASSUME NEW a \in Actor PROVE busy[a] = 0 /\ 0 <= Limit
      BY Positive
    <3> HIDE DEF Init
    <3> QED BY <2>1, <3>1, <3>2
  <2> QED BY <1>5, <2>2, Positive DEF SlotAccounting
<1>7. NoLostWakeup /\ OneGrantPerTurn
  BY <1>1 DEF NoLostWakeup, OneGrantPerTurn
<1>8. ServedStandBehind
  BY <1>1, FS_EmptySet DEF ServedStandBehind
<1> QED BY <1>3, <1>4, <1>6, <1>7, <1>8 DEF IndInv, RouterInvariant

\* A refusal at max_pending leaves the router as it is.
LEMMA StutterStep == ASSUME IndInv, UNCHANGED vars PROVE IndInv'
<1>1. UNCHANGED <<pc, slot, queues, order, busy, cancelled, passed>>
  BY DEF vars
<1>2. Waiting' = Waiting /\ Executing' = Executing /\ BusySlots' = BusySlots
  BY <1>1 DEF Waiting, Executing, BusySlots, Actor
<1>3. Candidate' = Candidate
  BY <1>1 DEF Candidate, Actor
<1>4. SlotFree' <=> SlotFree
  BY <1>1, <1>2, <1>3 DEF SlotFree, Capacity
<1>5. NoLostWakeup'
  BY <1>1, <1>2, <1>4 DEF IndInv, RouterInvariant, NoLostWakeup
<1> QED BY <1>1, <1>2, <1>5 DEF IndInv, RouterInvariant, TypeOK, TurnsAreWaiting, SlotAccounting,
                                OneGrantPerTurn, ServedStandBehind, Actor

\* Every step of the router preserves the invariant.
LEMMA NextPreserves == IndInv /\ [Next]_vars => IndInv'
<1> SUFFICES ASSUME IndInv, [Next]_vars PROVE IndInv'
  OBVIOUS
<1>1. ASSUME NEW q \in Request, Enter(q) PROVE IndInv'
  <2>1. CASE Turn(q, [queues EXCEPT ![RunnerOf[q]] = Append(@, q)],
                     IF queues[RunnerOf[q]] = <<>> THEN Append(order, RunnerOf[q]) ELSE order)
    BY <1>1, <2>1, EnterFinds, TurnStep DEF Enter
  <2>2. CASE UNCHANGED <<pc, slot, queues, order, busy, passed>>
    <3>1. UNCHANGED vars
      BY <1>1, <2>2 DEF Enter, vars
    <3> QED BY <3>1, StutterStep
  <2> QED BY <1>1, <2>1, <2>2 DEF Enter
<1>2. ASSUME NEW q \in Request, Recheck(q) PROVE IndInv'
  BY <1>2, RecheckFinds, TurnStep DEF Recheck
<1>3. ASSUME NEW q \in Request, Finish(q) PROVE IndInv'
  BY <1>3, FinishStep
<1>4. ASSUME NEW r \in Runner, Cancel(r) PROVE IndInv'
  BY <1>4, CancelStep
<1>5. CASE UNCHANGED vars
  BY <1>5, StutterStep
<1> QED BY <1>1, <1>2, <1>3, <1>4, <1>5 DEF Next

\* At every moment the turns are the Runners that wait, request actors are
\* charged for what they execute and no more, whoever can go on has been woken,
\* and no Runner is served twice while another waits (request_pool.py, execute).
THEOREM RouterIsFair == Spec => []RouterInvariant
<1>1. Init => IndInv
  BY InitHolds
<1>2. IndInv /\ [Next]_vars => IndInv'
  BY NextPreserves
<1>3. IndInv => RouterInvariant
  BY DEF IndInv
<1> QED BY <1>1, <1>2, <1>3, PTL DEF Spec
=============================================================================
