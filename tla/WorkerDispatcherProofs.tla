----------------------- MODULE WorkerDispatcherProofs -----------------------
(***************************************************************************)
(* Theorems about WorkerDispatcher, for any Runners, Workers and runtimes: *)
(* no permit is lost or invented, and the ceilings hold.                   *)
(***************************************************************************)
EXTENDS WorkerDispatcher, FiniteSetTheorems, SequenceTheorems, TLAPS

-----------------------------------------------------------------------------
(* Sequences without duplicates *)

\* An element that is new joins at the end.
LEMMA JoinLast ==
    ASSUME NEW S, NEW q \in Seq(S), IsInjective(q), NEW e \in S, e \notin Range(q)
    PROVE  /\ Append(q, e) \in Seq(S) /\ IsInjective(Append(q, e))
           /\ Range(Append(q, e)) = Range(q) \cup {e}
<1> DEFINE t == Append(q, e)
<1>1. DOMAIN q = 1..Len(q) /\ Len(q) \in Nat
  BY LenProperties
<1>2. /\ t \in Seq(S) /\ Len(t) = Len(q) + 1
      /\ \A i \in 1..Len(q) : t[i] = q[i]
      /\ t[Len(q) + 1] = e
  BY AppendProperties
<1>3. DOMAIN t = 1..(Len(q) + 1)
  BY <1>2, LenProperties
<1>4. IsInjective(t)
  BY <1>1, <1>2, <1>3 DEF IsInjective, Range
<1>5. Range(t) \subseteq Range(q) \cup {e}
  BY <1>1, <1>2, <1>3 DEF Range
<1>6. Range(q) \cup {e} \subseteq Range(t)
  BY <1>1, <1>2, <1>3 DEF Range
<1> QED BY <1>2, <1>4, <1>5, <1>6

\* The first leaves, and the others keep their order.
LEMMA FirstLeaves ==
    ASSUME NEW S, NEW q \in Seq(S), IsInjective(q), q # <<>>
    PROVE  /\ Tail(q) \in Seq(S) /\ IsInjective(Tail(q))
           /\ Range(Tail(q)) = Range(q) \ {Head(q)}
<1> DEFINE n == Len(q)
           t == Tail(q)
<1>1. n \in Nat \ {0} /\ DOMAIN q = 1..n /\ Head(q) = q[1]
  BY LenProperties, EmptySeq
<1>2. t \in Seq(S) /\ Len(t) = n - 1 /\ \A i \in 1..(n - 1) : t[i] = q[i + 1]
  BY HeadTailProperties
<1>3. DOMAIN t = 1..(n - 1)
  BY <1>2, LenProperties
<1> HIDE DEF n, t
<1>4. IsInjective(t)
  <2>1. SUFFICES ASSUME NEW i \in DOMAIN t, NEW j \in DOMAIN t, t[i] = t[j] PROVE i = j
    BY DEF IsInjective
  <2>2. i + 1 \in DOMAIN q /\ j + 1 \in DOMAIN q /\ q[i + 1] = q[j + 1] /\ i \in Nat /\ j \in Nat
    BY <1>1, <1>2, <1>3, <2>1
  <2>3. i + 1 = j + 1
    BY <2>2 DEF IsInjective
  <2> QED BY <2>2, <2>3
<1>5. ASSUME NEW i \in DOMAIN t PROVE t[i] \in Range(q) \ {q[1]}
  <2>1. i + 1 \in DOMAIN q /\ 1 \in DOMAIN q /\ i + 1 # 1 /\ t[i] = q[i + 1]
    BY <1>1, <1>2, <1>3
  <2> QED BY <2>1 DEF IsInjective, Range
<1>6. ASSUME NEW j \in DOMAIN q, q[j] # q[1] PROVE q[j] \in Range(t)
  <2>1. j # 1
    BY <1>6
  <2>2. j - 1 \in DOMAIN t /\ t[j - 1] = q[j]
    BY <1>1, <1>2, <1>3, <2>1
  <2> QED BY <2>2 DEF Range
<1>7. Range(t) = Range(q) \ {q[1]}
  <2>1. Range(t) \subseteq Range(q) \ {q[1]}
    BY <1>5 DEF Range
  <2>2. Range(q) \ {q[1]} \subseteq Range(t)
    BY <1>6 DEF Range
  <2> QED BY <2>1, <2>2
<1> QED BY <1>1, <1>2, <1>4, <1>7 DEF t

\* One leaves from the middle, and the others keep their order.
LEMMA OneLeaves ==
    ASSUME NEW S, NEW q \in Seq(S), IsInjective(q), NEW e \in Range(q)
    PROVE  /\ RemoveFirst(q, e) \in Seq(S) /\ IsInjective(RemoveFirst(q, e))
           /\ Range(RemoveFirst(q, e)) = Range(q) \ {e}
<1> DEFINE n == Len(q)
<1>1. DOMAIN q = 1..n /\ n \in Nat /\ \A i \in 1..n : q[i] \in S
  BY LenProperties, ElementOfSeq
<1>2. PICK k \in 1..n : q[k] = e
  BY <1>1 DEF Range
<1>3. {i \in 1..n : q[i] = e} = {k} /\ Min({k}) = k
  BY <1>1, <1>2 DEF IsInjective, Min
<1>4. SelectInSeq(q, LAMBDA v : v = e) = k
  BY <1>3 DEF SelectInSeq
<1> DEFINE a == SubSeq(q, 1, k - 1)
           b == SubSeq(q, k + 1, n)
           t == a \o b
<1>5. RemoveFirst(q, e) = t
  BY <1>2, <1>4 DEF RemoveFirst, RemoveAt
<1>6. n \in Nat /\ k \in Nat /\ 1 <= k /\ k <= n
  BY <1>1
<1>7. a \in Seq(S) /\ Len(a) = k - 1 /\ \A i \in 1..(k - 1) : a[i] = q[i]
  BY <1>1, SubSeqProperties
<1>8. b \in Seq(S) /\ Len(b) = n - k /\ \A i \in 1..(n - k) : b[i] = q[k + i]
  <2>1. k + 1 \in Int /\ n \in Int /\ \A i \in (k + 1)..n : q[i] \in S
    BY <1>1
  <2>2. /\ b \in Seq(S)
        /\ Len(b) = IF k + 1 <= n THEN n - (k + 1) + 1 ELSE 0
        /\ \A i \in 1..(n - (k + 1) + 1) : b[i] = q[(k + 1) + i - 1]
    BY <2>1, SubSeqProperties
  <2>3. (IF k + 1 <= n THEN n - (k + 1) + 1 ELSE 0) = n - k
    BY <1>6
  <2> HIDE DEF b
  <2>4. ASSUME NEW i \in 1..(n - k) PROVE b[i] = q[k + i]
    <3>1. i \in 1..(n - (k + 1) + 1) /\ (k + 1) + i - 1 = k + i
      BY <1>6
    <3> QED BY <3>1, <2>2
  <2> QED BY <2>2, <2>3, <2>4
<1> HIDE DEF a, b
<1>9. /\ t \in Seq(S) /\ Len(t) = Len(a) + Len(b)
      /\ \A i \in 1..Len(a) + Len(b) : t[i] = IF i <= Len(a) THEN a[i] ELSE b[i - Len(a)]
  BY <1>7, <1>8, ConcatProperties
<1>10. DOMAIN t = 1..Len(t)
  BY <1>9, LenProperties
<1> HIDE DEF t, n
<1>11. DOMAIN t = 1..(n - 1)
  BY <1>6, <1>7, <1>8, <1>9, <1>10
<1>12. ASSUME NEW i \in 1..(n - 1) PROVE t[i] = IF i < k THEN q[i] ELSE q[i + 1]
  <2>1. CASE i < k
    BY <2>1, <1>6, <1>7, <1>8, <1>9
  <2>2. CASE ~(i < k)
    <3>1. i - (k - 1) \in 1..(n - k) /\ k + (i - (k - 1)) = i + 1
      BY <2>2, <1>6
    <3>2. t[i] = b[i - (k - 1)]
      BY <2>2, <1>6, <1>7, <1>8, <1>9
    <3> QED BY <3>1, <3>2, <2>2, <1>8
  <2> QED BY <2>1, <2>2
<1> DEFINE at(m) == IF m < k THEN m ELSE m + 1
<1>13. IsInjective(t)
  <2>1. SUFFICES ASSUME NEW i \in DOMAIN t, NEW j \in DOMAIN t, t[i] = t[j] PROVE i = j
    BY DEF IsInjective
  <2>2. at(i) \in DOMAIN q /\ at(j) \in DOMAIN q /\ t[i] = q[at(i)] /\ t[j] = q[at(j)]
    BY <1>1, <1>6, <1>11, <1>12
  <2>3. at(i) = at(j)
    BY <2>1, <2>2 DEF IsInjective
  <2> QED BY <1>6, <1>11, <2>3
<1>14. ASSUME NEW i \in DOMAIN t PROVE t[i] \in Range(q) \ {e}
  <2>1. at(i) \in DOMAIN q /\ t[i] = q[at(i)] /\ k \in DOMAIN q
    BY <1>1, <1>6, <1>11, <1>12
  <2>2. at(i) # k
    BY <1>6, <1>11
  <2> HIDE DEF at
  <2>3. q[at(i)] # q[k]
    BY <2>1, <2>2 DEF IsInjective
  <2> QED BY <2>1, <2>3, <1>2 DEF Range
<1>15. ASSUME NEW j \in DOMAIN q, q[j] # e PROVE q[j] \in Range(t)
  <2>1. CASE j < k
    BY <2>1, <1>1, <1>6, <1>11, <1>12, j \in DOMAIN t DEF Range
  <2>2. CASE k < j
    <3>1. j - 1 \in DOMAIN t /\ t[j - 1] = q[j]
      BY <2>2, <1>1, <1>6, <1>11, <1>12
    <3> QED BY <3>1 DEF Range
  <2> QED BY <1>1, <1>2, <1>6, <1>15, <2>1, <2>2
<1>16. Range(t) \subseteq Range(q) \ {e}
  BY <1>14 DEF Range
<1>17. Range(q) \ {e} \subseteq Range(t)
  BY <1>15 DEF Range
<1> QED BY <1>5, <1>9, <1>13, <1>16, <1>17

-----------------------------------------------------------------------------
(* The permits of a submission *)

\* The inductive invariant: the other parts of PermitInvariant follow from it.
IndInv ==
    /\ TypeOK
    /\ PermitsConserved
    /\ GatesAreNumbered
    /\ RunnersHaveGates
    /\ WorkersAreRegistered
    /\ LinesAreSubmissions

\* The slot of the Backend is not a gate.
LEMMA SlotIsNoGate == Slot \notin Gate /\ \A e : \A g : <<g, e>> \in Gate => <<g, e>> # Slot
<1>1. Cardinality(Runner) \in Nat
  BY FiniteAssumption, FS_CardinalityType
<1>2. Gate \subseteq Runtime \X Nat
  BY <1>1 DEF Gate, Epoch
<1> QED BY <1>2, SlotAssumption

\* What a submission of a registered Runner asks for: its runtimes' gates, each
\* once, and at last a slot.
LEMMA PermitsTyped ==
    ASSUME IndInv, NEW r \in Registered
    PROVE  /\ PermitsOf(r) \in Seq(Permit)
           /\ Len(PermitsOf(r)) = Len(RuntimesOf[r]) + 1
           /\ Len(RuntimesOf[r]) \in Nat
           /\ \A i \in 1..Len(RuntimesOf[r]) :
                 /\ RuntimesOf[r][i] \in Runtime
                 /\ PermitsOf(r)[i] = <<RuntimesOf[r][i], current[RuntimesOf[r][i]]>>
                 /\ PermitsOf(r)[i] \in Gate
           /\ PermitsOf(r)[Len(RuntimesOf[r]) + 1] = Slot
           /\ IsInjective(PermitsOf(r))
           /\ DOMAIN PermitsOf(r) = 1..(Len(RuntimesOf[r]) + 1)
<1> DEFINE R == RuntimesOf[r]
           gates == [i \in DOMAIN R |-> <<R[i], current[R[i]]>>]
           n == Len(R)
<1>1. r \in Runner /\ R \in Seq(Runtime) /\ IsInjective(R)
  BY RuntimesAssumption DEF Registered
<1>2. n \in Nat /\ DOMAIN R = 1..n /\ \A i \in 1..n : R[i] \in Runtime
  BY <1>1, LenProperties, ElementOfSeq
<1>3. \A i \in 1..n : current[R[i]] \in Epoch
  <2>1. \A i \in 1..n : R[i] \in Range(R)
    BY <1>2 DEF Range
  <2> QED BY <1>2, <2>1 DEF IndInv, RunnersHaveGates, TypeOK
<1>4. gates \in [1..n -> Gate]
  BY <1>2, <1>3 DEF Gate
<1>5. gates \in Seq(Permit) /\ Len(gates) = n
  BY <1>2, <1>4 DEF Permit
<1>6. <<Slot>> \in Seq(Permit) /\ Len(<<Slot>>) = 1 /\ <<Slot>>[1] = Slot
  BY DEF Permit
<1>7. \A i \in 1..n : gates[i] = <<R[i], current[R[i]]>>
  BY <1>2
<1> HIDE DEF gates
<1>8. PermitsOf(r) = gates \o <<Slot>>
  BY DEF PermitsOf, gates
<1>9. /\ PermitsOf(r) \in Seq(Permit)
      /\ Len(PermitsOf(r)) = n + 1
      /\ \A i \in 1..(n + 1) : PermitsOf(r)[i] = IF i <= n THEN gates[i] ELSE <<Slot>>[i - n]
  BY <1>2, <1>5, <1>6, <1>8, ConcatProperties
<1>10. DOMAIN PermitsOf(r) = 1..(n + 1)
  BY <1>9, LenProperties
<1> HIDE DEF n
<1>11. \A i \in 1..n : PermitsOf(r)[i] = gates[i] /\ PermitsOf(r)[i] \in Gate
  BY <1>2, <1>4, <1>9
<1>12. PermitsOf(r)[n + 1] = Slot
  BY <1>2, <1>6, <1>9
<1>13. IsInjective(PermitsOf(r))
  <2>1. SUFFICES ASSUME NEW i \in 1..(n + 1), NEW j \in 1..(n + 1),
                        PermitsOf(r)[i] = PermitsOf(r)[j]
                 PROVE  i = j
    BY <1>10 DEF IsInjective
  <2>2. CASE i \in 1..n /\ j \in 1..n
    <3>1. R[i] = R[j]
      BY <1>7, <1>11, <2>1, <2>2
    <3> QED BY <3>1, <2>2, <1>1, <1>2 DEF IsInjective
  <2>3. CASE i = n + 1 /\ j \in 1..n
    BY <2>1, <2>3, <1>11, <1>12, SlotIsNoGate
  <2>4. CASE j = n + 1 /\ i \in 1..n
    BY <2>1, <2>4, <1>11, <1>12, SlotIsNoGate
  <2>5. CASE i = n + 1 /\ j = n + 1
    BY <2>5
  <2> QED BY <1>2, <2>2, <2>3, <2>4, <2>5
<1> QED BY <1>2, <1>7, <1>9, <1>10, <1>11, <1>12, <1>13 DEF n

\* A Worker that holds something holds permits of its Runner, a prefix of what
\* it asks for.
LEMMA HeldIsPrefix ==
    ASSUME IndInv, NEW s \in Step
    PROVE  /\ pc[s] \in {"idle", "ended", "forced"} => Held(s) = {}
           /\ pc[s] \notin {"idle", "ended", "forced"} =>
                /\ RunnerOf[s] \in Registered
                /\ Held(s) = {PermitsOf(RunnerOf[s])[i] : i \in 1..got[s]}
                /\ got[s] \in Nat
                /\ got[s] <= Len(RuntimesOf[RunnerOf[s]]) + 1
                /\ pc[s] = "waiting" => got[s] < Len(RuntimesOf[RunnerOf[s]]) + 1
                /\ pc[s] # "waiting" => got[s] = Len(RuntimesOf[RunnerOf[s]]) + 1
<1>1. CASE pc[s] \in {"idle", "ended", "forced"}
  <2>1. got[s] = 0
    BY <1>1 DEF IndInv, WorkersAreRegistered
  <2> QED BY <1>1, <2>1 DEF Held
<1>2. CASE pc[s] \notin {"idle", "ended", "forced"}
  <2>1. RunnerOf[s] \in Registered /\ need[s] = PermitsOf(RunnerOf[s])
    BY <1>2 DEF IndInv, WorkersAreRegistered
  <2>2. Len(need[s]) = Len(RuntimesOf[RunnerOf[s]]) + 1 /\ Len(RuntimesOf[RunnerOf[s]]) \in Nat
    BY <2>1, PermitsTyped
  <2>3. got[s] \in Nat /\ pc[s] \in StepStates
    BY DEF IndInv, TypeOK
  <2>4. \/ pc[s] = "waiting" /\ got[s] < Len(need[s])
        \/ pc[s] # "waiting" /\ got[s] = Len(need[s])
    BY <1>2, <2>3 DEF IndInv, WorkersAreRegistered
  <2>5. Held(s) = {PermitsOf(RunnerOf[s])[i] : i \in 1..got[s]}
    BY <2>1 DEF Held
  <2> HIDE DEF Held
  <2> QED BY <1>2, <2>1, <2>2, <2>3, <2>4, <2>5
<1> QED BY <1>1, <1>2

\* What a waiting submission asks for next.
LEMMA AsksNext ==
    ASSUME IndInv, NEW s \in Step, pc[s] = "waiting"
    PROVE  /\ need[s][got[s] + 1] \in Permit
           /\ need[s][got[s] + 1] \notin Held(s)
           /\ need[s] = PermitsOf(RunnerOf[s])
           /\ got[s] + 1 \in 1..(Len(RuntimesOf[RunnerOf[s]]) + 1)
           /\ \A g \in Runtime, e \in Epoch : need[s][got[s] + 1] = <<g, e>> => e = current[g]
<1> DEFINE r == RunnerOf[s]
           n == Len(RuntimesOf[r])
           P == PermitsOf(r)
<1>1. r \in Registered /\ need[s] = P
  BY DEF IndInv, WorkersAreRegistered
<1>2. got[s] \in Nat /\ got[s] < n + 1 /\ Held(s) = {P[i] : i \in 1..got[s]}
  BY HeldIsPrefix
<1>3. /\ P \in Seq(Permit) /\ n \in Nat /\ IsInjective(P) /\ DOMAIN P = 1..(n + 1)
      /\ \A i \in 1..n : RuntimesOf[r][i] \in Runtime
                         /\ P[i] = <<RuntimesOf[r][i], current[RuntimesOf[r][i]]>> /\ P[i] \in Gate
      /\ P[n + 1] = Slot /\ Len(P) = n + 1
  BY <1>1, PermitsTyped
<1>4. P[got[s] + 1] \in Permit
  <2>1. got[s] + 1 \in 1..Len(P)
    BY <1>2, <1>3
  <2> QED BY <2>1, <1>3, ElementOfSeq
<1> HIDE DEF P, n
<1>5. got[s] + 1 \in 1..(n + 1)
  BY <1>2, <1>3
<1>6. P[got[s] + 1] \notin Held(s)
  <2>1. ASSUME NEW i \in 1..got[s] PROVE P[i] # P[got[s] + 1]
    <3>1. i \in DOMAIN P /\ got[s] + 1 \in DOMAIN P /\ i # got[s] + 1
      BY <1>2, <1>3, <1>5
    <3> QED BY <3>1, <1>3 DEF IsInjective
  <2> QED BY <2>1, <1>2
<1>7. ASSUME NEW g \in Runtime, NEW e \in Epoch, P[got[s] + 1] = <<g, e>>
      PROVE  e = current[g]
  <2>1. CASE got[s] + 1 = n + 1
    <3>1. <<g, e>> \in Gate
      BY DEF Gate
    <3> QED BY <1>3, <1>7, <2>1, <3>1, SlotIsNoGate
  <2>2. CASE got[s] + 1 # n + 1
    <3>1. got[s] + 1 \in 1..n
      BY <1>2, <1>3, <1>5, <2>2
    <3> QED BY <1>3, <1>7, <3>1
  <2> QED BY <2>1, <2>2
<1> QED BY <1>1, <1>4, <1>5, <1>6, <1>7 DEF P, n

\* A gate that is not the current one of its runtime has no holder and no line.
LEMMA DroppedAreFree ==
    ASSUME IndInv
    PROVE  DroppedGatesAreFree
<1>1. SUFFICES ASSUME NEW g \in Runtime, NEW e \in Epoch, e # current[g]
               PROVE  /\ \A s \in Step : <<g, e>> \notin Held(s)
                      /\ line[<<g, e>>] = <<>>
  BY DEF DroppedGatesAreFree
<1>2. <<g, e>> \in Gate /\ <<g, e>> \in Permit
  BY DEF Gate, Permit
<1>3. ASSUME NEW s \in Step PROVE <<g, e>> \notin Held(s)
  <2>1. CASE pc[s] \in {"idle", "ended", "forced"}
    BY <2>1, HeldIsPrefix
  <2>2. CASE pc[s] \notin {"idle", "ended", "forced"}
    <3> DEFINE r == RunnerOf[s]
               n == Len(RuntimesOf[r])
    <3>1. /\ r \in Registered /\ Held(s) = {PermitsOf(r)[i] : i \in 1..got[s]}
          /\ got[s] \in Nat /\ got[s] <= n + 1
      BY <2>2, HeldIsPrefix
    <3>2. /\ n \in Nat /\ PermitsOf(r)[n + 1] = Slot
          /\ \A i \in 1..n : PermitsOf(r)[i] = <<RuntimesOf[r][i], current[RuntimesOf[r][i]]>>
      BY <3>1, PermitsTyped
    <3>3. ASSUME NEW i \in 1..got[s] PROVE PermitsOf(r)[i] # <<g, e>>
      <4>1. CASE i = n + 1
        BY <4>1, <3>2, <1>2, SlotIsNoGate
      <4>2. CASE i \in 1..n
        BY <4>2, <3>2, <1>1
      <4> QED BY <3>1, <3>2, <4>1, <4>2
    <3> QED BY <3>1, <3>3
  <2> QED BY <2>1, <2>2
<1>4. Range(line[<<g, e>>]) = {}
  <2>1. ASSUME NEW s \in Step, pc[s] = "waiting" PROVE need[s][got[s] + 1] # <<g, e>>
    BY <1>1, <2>1, AsksNext
  <2> QED BY <1>2, <2>1 DEF IndInv, LinesAreSubmissions
<1>5. line[<<g, e>>] = <<>>
  <2>1. line[<<g, e>>] \in Seq(Step)
    BY <1>2 DEF IndInv, TypeOK
  <2>2. line[<<g, e>>] # <<>> => 1 \in DOMAIN line[<<g, e>>]
    BY <2>1, EmptySeq, LenProperties
  <2> QED BY <1>4, <2>2 DEF Range
<1> QED BY <1>3, <1>5

\* A waiting submission holds gates at most, and stands in one line.
LEMMA WaitersHoldGates ==
    ASSUME IndInv
    PROVE  WaitersHoldNoSlot
<1>1. SUFFICES ASSUME NEW s \in Step
               PROVE  /\ pc[s] = "waiting" => Slot \notin Held(s)
                      /\ Cardinality({x \in Permit : s \in Range(line[x])})
                         = IF pc[s] = "waiting" THEN 1 ELSE 0
  BY DEF WaitersHoldNoSlot
<1>2. {x \in Permit : s \in Range(line[x])}
      = {x \in Permit : pc[s] = "waiting" /\ need[s][got[s] + 1] = x}
  BY DEF IndInv, LinesAreSubmissions
<1>3. CASE pc[s] # "waiting"
  <2>1. {x \in Permit : s \in Range(line[x])} = {}
    BY <1>2, <1>3
  <2> QED BY <1>3, <2>1, FS_EmptySet
<1>4. CASE pc[s] = "waiting"
  <2>1. {x \in Permit : s \in Range(line[x])} = {need[s][got[s] + 1]}
    BY <1>2, <1>4, AsksNext
  <2>2. Cardinality({x \in Permit : s \in Range(line[x])}) = 1
    BY <2>1, FS_Singleton
  <2>3. Slot \notin Held(s)
    <3> DEFINE r == RunnerOf[s]
               n == Len(RuntimesOf[r])
    <3>1. /\ r \in Registered /\ Held(s) = {PermitsOf(r)[i] : i \in 1..got[s]}
          /\ got[s] \in Nat /\ got[s] < n + 1
      BY <1>4, HeldIsPrefix
    <3>2. n \in Nat /\ \A i \in 1..n : PermitsOf(r)[i] \in Gate
      BY <3>1, PermitsTyped
    <3>3. \A i \in 1..got[s] : i \in 1..n
      BY <3>1, <3>2
    <3> QED BY <3>1, <3>2, <3>3, SlotIsNoGate
  <2> QED BY <1>4, <2>2, <2>3
<1> QED BY <1>3, <1>4

\* A permit that all of a set of Workers hold bounds their number.
LEMMA HoldersAreBounded ==
    ASSUME IndInv, NEW x \in Permit, NEW S \in SUBSET Step, \A s \in S : x \in Held(s)
    PROVE  Cardinality(S) <= LimitOf(x)
<1> DEFINE H == {s \in Step : x \in Held(s)}
<1>1. IsFiniteSet(H)
  BY FiniteAssumption, FS_Subset, H \subseteq Step
<1>2. Cardinality(S) \in Nat /\ Cardinality(S) <= Cardinality(H) /\ Cardinality(H) \in Nat
  <2> S \subseteq H
    OBVIOUS
  <2> HIDE DEF H
  <2> QED BY <1>1, FS_Subset, FS_CardinalityType
<1>3. free[x] \in Nat /\ free[x] + Cardinality(H) = LimitOf(x)
  BY DEF IndInv, TypeOK, PermitsConserved
<1> HIDE DEF H
<1> QED BY <1>2, <1>3

\* What executes for a runtime holds a permit of its gate, and what executes at
\* all a slot.
LEMMA CeilingHolds ==
    ASSUME IndInv
    PROVE  CeilingUntilForced
<1> DEFINE running(R) ==
        {s \in {c \in Step : pc[c] # "forced"} : physical[s] = "executing" /\ RunnerOf[s] \in R}
<1>1. ASSUME NEW s \in Step, pc[s] # "forced", physical[s] = "executing"
      PROVE  /\ RunnerOf[s] \in Registered
             /\ Slot \in Held(s)
             /\ \A g \in Range(RuntimesOf[RunnerOf[s]]) : <<g, current[g]>> \in Held(s)
  <2> DEFINE r == RunnerOf[s]
             n == Len(RuntimesOf[r])
  <2>1. pc[s] \in {"executing", "draining"}
    BY <1>1 DEF IndInv, WorkersAreRegistered
  <2>2. r \in Registered /\ Held(s) = {PermitsOf(r)[i] : i \in 1..got[s]} /\ got[s] = n + 1
    BY <2>1, HeldIsPrefix
  <2>3. /\ n \in Nat /\ PermitsOf(r)[n + 1] = Slot
        /\ \A i \in 1..n : PermitsOf(r)[i] = <<RuntimesOf[r][i], current[RuntimesOf[r][i]]>>
    BY <2>2, PermitsTyped
  <2>4. Slot \in Held(s)
    BY <2>2, <2>3
  <2>5. ASSUME NEW g \in Range(RuntimesOf[r]) PROVE <<g, current[g]>> \in Held(s)
    <3>1. RuntimesOf[r] \in Seq(Runtime)
      BY RuntimesAssumption, <2>2 DEF Registered
    <3>2. PICK i \in 1..n : RuntimesOf[r][i] = g
      BY <3>1, LenProperties DEF Range
    <3>3. i \in 1..got[s] /\ PermitsOf(r)[i] = <<g, current[g]>>
      BY <2>2, <2>3, <3>2
    <3> QED BY <2>2, <3>3
  <2> QED BY <2>2, <2>4, <2>5
<1>2. ASSUME NEW g \in Runtime
      PROVE  Cardinality(running({r \in Runner : g \in Range(RuntimesOf[r])})) <= RuntimeLimit[g]
  <2> DEFINE S == running({r \in Runner : g \in Range(RuntimesOf[r])})
  <2>1. CASE S = {}
    <3>1. Cardinality(S) = 0
      BY <2>1, FS_EmptySet
    <3> QED BY <3>1, LimitAssumption
  <2>2. CASE S # {}
    <3>1. PICK s \in S : TRUE
      BY <2>2
    <3>2. RunnerOf[s] \in Registered /\ g \in Range(RuntimesOf[RunnerOf[s]])
      BY <1>1, <3>1
    <3>3. current[g] \in Epoch
      BY <3>2 DEF IndInv, RunnersHaveGates, TypeOK
    <3>4. <<g, current[g]>> \in Gate /\ <<g, current[g]>> \in Permit /\ <<g, current[g]>> # Slot
      BY <3>3, SlotIsNoGate DEF Permit, Gate
    <3>5. LimitOf(<<g, current[g]>>) = RuntimeLimit[g]
      BY <3>4 DEF LimitOf
    <3>6. \A c \in S : <<g, current[g]>> \in Held(c)
      BY <1>1
    <3>7. S \in SUBSET Step
      OBVIOUS
    <3> HIDE DEF S
    <3>8. Cardinality(S) <= RuntimeLimit[g]
      BY <3>4, <3>5, <3>6, <3>7, HoldersAreBounded
    <3> QED BY <3>8 DEF S
  <2> QED BY <2>1, <2>2
<1>3. Cardinality(running(Runner)) <= Capacity
  <2> DEFINE S == running(Runner)
  <2>1. Slot \in Permit /\ LimitOf(Slot) = Capacity
    BY DEF Permit, LimitOf
  <2>2. S \in SUBSET Step /\ \A c \in S : Slot \in Held(c)
    BY <1>1
  <2> HIDE DEF S
  <2>3. Cardinality(S) <= Capacity
    BY <2>1, <2>2, HoldersAreBounded
  <2> QED BY <2>3 DEF S
<1> QED BY <1>2, <1>3 DEF CeilingUntilForced, WithinCeilings

-----------------------------------------------------------------------------
(* The steps *)

\* Giving permits back keeps them accounted for.
LEMMA ReleaseConserves ==
    ASSUME IndInv, NEW S \in SUBSET Step, Release(S), need' = need
    PROVE  /\ PermitsConserved'
           /\ free' \in [Permit -> Nat]
           /\ got' = [s \in Step |-> IF s \in S THEN 0 ELSE got[s]]
           /\ got' \in [Step -> Nat]
<1>1. /\ free' = [x \in Permit |-> free[x] + Cardinality({s \in S : x \in Held(s)})]
      /\ got' = [s \in Step |-> IF s \in S THEN 0 ELSE got[s]]
  BY DEF Release
<1>2. got' \in [Step -> Nat]
  BY <1>1 DEF IndInv, TypeOK
<1>3. ASSUME NEW s \in Step PROVE Held(s)' = IF s \in S THEN {} ELSE Held(s)
  BY <1>1 DEF Held
<1>4. ASSUME NEW x \in Permit
      PROVE  /\ free'[x] \in Nat
             /\ free'[x] + Cardinality({s \in Step : x \in Held(s)'}) = LimitOf(x)
  <2> DEFINE H == {s \in Step : x \in Held(s)}
             G == {s \in S : x \in Held(s)}
  <2>1. {s \in Step : x \in Held(s)'} = H \ G /\ G \subseteq H
    BY <1>3
  <2>2. IsFiniteSet(H)
    BY FiniteAssumption, FS_Subset, H \subseteq Step
  <2>3. free[x] \in Nat /\ free[x] + Cardinality(H) = LimitOf(x)
    BY DEF IndInv, TypeOK, PermitsConserved
  <2>4. free'[x] = free[x] + Cardinality(G)
    BY <1>1
  <2> HIDE DEF H, G
  <2>5. IsFiniteSet(G) /\ Cardinality(G) \in Nat /\ Cardinality(H) \in Nat /\ H \cap G = G
    BY <2>1, <2>2, FS_Subset, FS_CardinalityType
  <2>6. Cardinality(H \ G) = Cardinality(H) - Cardinality(G)
    BY <2>2, <2>5, FS_Difference
  <2>7. free'[x] \in Nat /\ free'[x] + Cardinality(H \ G) = LimitOf(x)
    BY <2>3, <2>4, <2>5, <2>6
  <2> QED BY <2>1, <2>7
<1>5. PermitsConserved'
  BY <1>4 DEF PermitsConserved, Permit, Gate, Epoch, LimitOf
<1>6. free' \in [Permit -> Nat]
  BY <1>1, <1>4
<1> QED BY <1>1, <1>2, <1>5, <1>6

\* Workers S that stand in no line end, their permits go back, and nothing else
\* of the dispatcher changes.
LEMMA EndWorkers ==
    ASSUME IndInv, NEW S \in SUBSET Step, Release(S),
           NEW to \in {"ended", "forced"},
           \A s \in S : pc[s] # "waiting",
           \A s \in S : physical'[s] \in {"queued", "executing"} => to = "forced",
           pc' = [s \in Step |-> IF s \in S THEN to ELSE pc[s]],
           UNCHANGED <<state, current, created, line, need, physical>>
    PROVE  IndInv'
<1>1. /\ PermitsConserved' /\ free' \in [Permit -> Nat]
      /\ got' = [s \in Step |-> IF s \in S THEN 0 ELSE got[s]]
      /\ got' \in [Step -> Nat]
  BY ReleaseConserves
<1>2. TypeOK'
  BY <1>1 DEF IndInv, TypeOK, Permit, Gate, Epoch, StepStates
<1>3. GatesAreNumbered' /\ RunnersHaveGates' /\ Registered' = Registered
  BY DEF IndInv, GatesAreNumbered, RunnersHaveGates, Registered
<1>4. \A r : PermitsOf(r)' = PermitsOf(r)
  BY DEF PermitsOf
<1>5. WorkersAreRegistered'
  BY <1>1, <1>3, <1>4 DEF IndInv, WorkersAreRegistered
<1>6. \A s \in Step : /\ pc'[s] = "waiting" <=> pc[s] = "waiting"
                      /\ pc'[s] = "waiting" => got'[s] = got[s]
                      /\ pc'[s] \in {"waiting", "reserving"} => pc'[s] = pc[s]
  BY <1>1
<1>7. LinesAreSubmissions'
  BY <1>6 DEF IndInv, LinesAreSubmissions, Permit, Gate, Epoch
<1> QED BY <1>1, <1>2, <1>3, <1>5, <1>7 DEF IndInv

\* A gate made for a runtime that had none changes nothing for those at work.
LEMMA RegisterStep ==
    ASSUME IndInv, NEW r \in Runner, Register(r)
    PROVE  IndInv'
<1> DEFINE missing == {g \in Range(RuntimesOf[r]) : current[g] = 0}
<1>1. /\ state[r] = "new" /\ state' = [state EXCEPT ![r] = "open"]
      /\ created' = [g \in Runtime |-> IF g \in missing THEN created[g] + 1 ELSE created[g]]
      /\ current' = [g \in Runtime |-> IF g \in missing THEN created[g] + 1 ELSE current[g]]
      /\ UNCHANGED <<free, line, pc, need, got, physical>>
  BY DEF Register
<1>2. /\ state \in [Runner -> RunnerStates] /\ created \in [Runtime -> 0..Cardinality(Runner)]
      /\ current \in [Runtime -> Epoch \cup {0}]
  BY DEF IndInv, TypeOK
<1>3. state'[r] = "open" /\ \A c \in Runner : c # r => state'[c] = state[c]
  BY <1>1, <1>2
<1> DEFINE K == {c \in Runner : state[c] # "new"}
<1>4. {c \in Runner : state'[c] # "new"} = K \cup {r} /\ r \notin K
  BY <1>1, <1>3
<1>5. /\ Cardinality(K) \in Nat /\ Cardinality(Runner) \in Nat
      /\ Cardinality({c \in Runner : state'[c] # "new"}) = Cardinality(K) + 1
      /\ Cardinality(K) + 1 <= Cardinality(Runner)
  <2>1. IsFiniteSet(K)
    BY FiniteAssumption, FS_Subset, K \subseteq Runner
  <2>2. K \cup {r} \subseteq Runner
    OBVIOUS
  <2> HIDE DEF K
  <2>3. Cardinality(K \cup {r}) = Cardinality(K) + 1
    BY <1>4, <2>1, FS_AddElement
  <2>4. Cardinality(K \cup {r}) <= Cardinality(Runner)
    BY <2>2, FiniteAssumption, FS_Subset
  <2> QED BY <1>4, <2>1, <2>3, <2>4, FiniteAssumption, FS_CardinalityType
<1>6. \A g \in Runtime : /\ current[g] \in {0, created[g]} /\ created[g] \in Nat
                         /\ created[g] <= Cardinality(K)
  BY <1>2, <1>5 DEF IndInv, GatesAreNumbered
<1>7. \A g \in Runtime : /\ created'[g] \in Nat /\ created'[g] <= Cardinality(K) + 1
                         /\ current'[g] \in {0, created'[g]}
                         /\ current[g] # 0 => current'[g] = current[g]
                         /\ g \in Range(RuntimesOf[r]) => current'[g] # 0
  <2> SUFFICES ASSUME NEW g \in Runtime
               PROVE  /\ created'[g] \in Nat /\ created'[g] <= Cardinality(K) + 1
                      /\ current'[g] \in {0, created'[g]}
                      /\ current[g] # 0 => current'[g] = current[g]
                      /\ g \in Range(RuntimesOf[r]) => current'[g] # 0
    OBVIOUS
  <2>1. CASE g \in missing
    BY <2>1, <1>1, <1>5, <1>6
  <2>2. CASE g \notin missing
    <3>1. created'[g] = created[g] /\ current'[g] = current[g]
      BY <2>2, <1>1
    <3>2. g \in Range(RuntimesOf[r]) => current[g] # 0
      BY <2>2
    <3> HIDE DEF missing
    <3> QED BY <3>1, <3>2, <1>5, <1>6
  <2> QED BY <2>1, <2>2
<1> HIDE DEF K, missing
<1>8. GatesAreNumbered'
  BY <1>4, <1>5, <1>7 DEF GatesAreNumbered
<1>9. created' \in [Runtime -> 0..Cardinality(Runner)] /\ current' \in [Runtime -> Epoch \cup {0}]
  <2>1. \A g \in Runtime : created'[g] \in 0..Cardinality(Runner)
    BY <1>5, <1>7
  <2>2. \A g \in Runtime : current'[g] \in Epoch \cup {0}
    BY <1>5, <1>7 DEF Epoch
  <2> QED BY <1>1, <2>1, <2>2
<1>10. TypeOK'
  BY <1>1, <1>2, <1>9 DEF IndInv, TypeOK, Permit, Gate, Epoch, RunnerStates
<1>11. Registered' = Registered \cup {r} /\ Registered \subseteq Runner
  BY <1>1, <1>3 DEF Registered
<1>12. \A c \in Runner : RuntimesOf[c] \in Seq(Runtime) /\ Range(RuntimesOf[c]) \subseteq Runtime
  BY RuntimesAssumption, RangeOfSeq
<1>13. RunnersHaveGates'
  <2>1. \A c \in Registered : \A g \in Range(RuntimesOf[c]) : current[g] # 0
    BY DEF IndInv, RunnersHaveGates
  <2> QED BY <1>7, <1>11, <1>12, <2>1 DEF RunnersHaveGates
<1>14. \A c \in Registered : PermitsOf(c)' = PermitsOf(c)
  <2> SUFFICES ASSUME NEW c \in Registered PROVE PermitsOf(c)' = PermitsOf(c)
    OBVIOUS
  <2>1. \A i \in DOMAIN RuntimesOf[c] : current'[RuntimesOf[c][i]] = current[RuntimesOf[c][i]]
    <3>1. \A i \in DOMAIN RuntimesOf[c] : RuntimesOf[c][i] \in Range(RuntimesOf[c])
      BY DEF Range
    <3> QED BY <1>7, <1>11, <1>12, <3>1 DEF IndInv, RunnersHaveGates
  <2> QED BY <2>1 DEF PermitsOf
<1>15. WorkersAreRegistered'
  <2>1. \A s \in Step : state[RunnerOf[s]] = "open" => state'[RunnerOf[s]] = "open"
    BY <1>1, <1>3, StepAssumption
  <2> QED BY <1>1, <1>11, <1>14, <2>1 DEF IndInv, WorkersAreRegistered
<1>16. LinesAreSubmissions'
  BY <1>1 DEF IndInv, LinesAreSubmissions, Permit, Gate, Epoch
<1>17. PermitsConserved'
  <2>1. \A s \in Step : Held(s)' = Held(s)
    BY <1>1 DEF Held
  <2>2. Permit' = Permit /\ \A x : LimitOf(x)' = LimitOf(x)
    BY DEF Permit, Gate, Epoch, LimitOf
  <2>3. \A x \in Permit : {s \in Step : x \in Held(s)'} = {s \in Step : x \in Held(s)}
    BY <2>1
  <2> QED BY <1>1, <2>2, <2>3 DEF IndInv, PermitsConserved
<1> QED BY <1>8, <1>10, <1>13, <1>15, <1>16, <1>17 DEF IndInv

\* A submission joins the line of the first permit it asks for.
LEMMA SubmitStep ==
    ASSUME IndInv, NEW s \in Step, Submit(s)
    PROVE  IndInv'
<1> DEFINE r == RunnerOf[s]
           x == PermitsOf(r)[1]
<1>1. /\ state[r] = "open" /\ pc[s] = "idle" /\ Submitting(r) = {}
      /\ pc' = [pc EXCEPT ![s] = "waiting"]
      /\ need' = [need EXCEPT ![s] = PermitsOf(r)]
      /\ line' = [line EXCEPT ![x] = Append(@, s)]
      /\ UNCHANGED <<state, current, created, free, got, physical>>
  BY DEF Submit
<1>2. r \in Runner /\ r \in Registered
  BY <1>1, StepAssumption DEF Registered
<1>3. /\ PermitsOf(r) \in Seq(Permit) /\ Len(PermitsOf(r)) \in Nat /\ Len(PermitsOf(r)) >= 1
  BY <1>2, PermitsTyped
<1>4. x \in Permit
  BY <1>3, ElementOfSeq
<1>5. got[s] = 0
  BY <1>1 DEF IndInv, WorkersAreRegistered
<1>6. /\ pc \in [Step -> StepStates] /\ need \in [Step -> Seq(Permit)]
      /\ line \in [Permit -> Seq(Step)] /\ got \in [Step -> Nat]
  BY DEF IndInv, TypeOK
<1>7. s \notin Range(line[x]) /\ IsInjective(line[x])
  BY <1>1, <1>4 DEF IndInv, LinesAreSubmissions
<1>8. /\ Append(line[x], s) \in Seq(Step) /\ IsInjective(Append(line[x], s))
      /\ Range(Append(line[x], s)) = Range(line[x]) \cup {s}
  BY <1>4, <1>6, <1>7, JoinLast
<1>9. /\ pc'[s] = "waiting" /\ need'[s] = PermitsOf(r)
      /\ \A t \in Step : t # s => pc'[t] = pc[t] /\ need'[t] = need[t]
      /\ line'[x] = Append(line[x], s)
      /\ \A y \in Permit : y # x => line'[y] = line[y]
  BY <1>1, <1>4, <1>6
<1>10. line' \in [Permit -> Seq(Step)] /\ need' \in [Step -> Seq(Permit)]
       /\ pc' \in [Step -> StepStates]
  BY <1>1, <1>3, <1>4, <1>6, <1>8 DEF StepStates
<1> HIDE DEF x
<1>11. TypeOK'
  BY <1>1, <1>10 DEF IndInv, TypeOK, Permit, Gate, Epoch
<1>12. PermitsConserved'
  <2>1. \A t \in Step : Held(t)' = Held(t)
    BY <1>1, <1>5, <1>9 DEF Held
  <2> QED BY <1>1, <2>1 DEF IndInv, PermitsConserved, Permit, Gate, Epoch, LimitOf
<1>13. GatesAreNumbered' /\ RunnersHaveGates' /\ Registered' = Registered
  BY <1>1 DEF IndInv, GatesAreNumbered, RunnersHaveGates, Registered
<1>14. \A c : PermitsOf(c)' = PermitsOf(c)
  BY <1>1 DEF PermitsOf
<1>15. physical[s] \notin {"queued", "executing"}
  BY <1>1 DEF IndInv, WorkersAreRegistered
<1>16. WorkersAreRegistered'
  <2>1. ASSUME NEW t \in Step, t # s
        PROVE  /\ pc'[t] \notin {"idle", "ended", "forced"} =>
                     RunnerOf[t] \in Registered' /\ need'[t] = PermitsOf(RunnerOf[t])'
               /\ pc'[t] \in {"waiting", "reserving"} => state'[RunnerOf[t]] = "open"
               /\ \/ pc'[t] \in {"idle", "ended", "forced"} /\ got'[t] = 0
                  \/ pc'[t] = "waiting" /\ got'[t] < Len(need'[t])
                  \/ /\ pc'[t] \in {"reserving", "executing", "draining", "committing"}
                     /\ got'[t] = Len(need'[t])
               /\ physical'[t] \in {"queued", "executing"} => pc'[t] \in {"executing", "draining", "forced"}
    BY <1>1, <1>9, <1>13, <1>14, <2>1 DEF IndInv, WorkersAreRegistered
  <2>2. got'[s] < Len(need'[s])
    BY <1>1, <1>3, <1>5, <1>9
  <2> QED BY <1>1, <1>2, <1>9, <1>13, <1>14, <1>15, <2>1, <2>2 DEF WorkersAreRegistered
<1>17. LinesAreSubmissions'
  <2>1. ASSUME NEW t \in Step, NEW u \in Step, RunnerOf[t] = RunnerOf[u],
               {pc'[t], pc'[u]} \subseteq {"waiting", "reserving"}
        PROVE  t = u
    <3>1. \A v \in Step : v # s /\ pc'[v] \in {"waiting", "reserving"} => RunnerOf[v] # r
      BY <1>1, <1>9 DEF Submitting
    <3> QED BY <2>1, <3>1, <1>9 DEF IndInv, LinesAreSubmissions
  <2>2. ASSUME NEW y \in Permit
        PROVE  /\ IsInjective(line'[y])
               /\ Range(line'[y]) = {t \in Step : pc'[t] = "waiting" /\ need'[t][got'[t] + 1] = y}
    <3>1. /\ IsInjective(line[y])
          /\ Range(line[y]) = {t \in Step : pc[t] = "waiting" /\ need[t][got[t] + 1] = y}
      BY DEF IndInv, LinesAreSubmissions
    <3>2. need'[s][got'[s] + 1] = x
      BY <1>1, <1>5, <1>9 DEF x
    <3>3. CASE y = x
      BY <1>1, <1>8, <1>9, <3>1, <3>2, <3>3
    <3>4. CASE y # x
      BY <1>1, <1>9, <3>1, <3>2, <3>4
    <3> QED BY <3>3, <3>4
  <2> QED BY <2>1, <2>2 DEF LinesAreSubmissions, Permit, Gate, Epoch
<1> QED BY <1>11, <1>12, <1>13, <1>16, <1>17 DEF IndInv

\* The head of a line takes a permit of it, and stands in the next line or none.
LEMMA AcquireStep ==
    ASSUME IndInv, NEW s \in Step, Acquire(s)
    PROVE  IndInv'
<1> DEFINE r == RunnerOf[s]
           x == need[s][got[s] + 1]
           y == need[s][got[s] + 2]
           n == Len(need[s])
           left == [line EXCEPT ![x] = Tail(@)]
<1>1. /\ pc[s] = "waiting" /\ Head(line[x]) = s /\ free[x] > 0
      /\ free' = [free EXCEPT ![x] = @ - 1]
      /\ got' = [got EXCEPT ![s] = @ + 1]
      /\ \/ got[s] + 1 = n /\ pc' = [pc EXCEPT ![s] = "reserving"] /\ line' = left
         \/ got[s] + 1 < n /\ line' = [left EXCEPT ![y] = Append(@, s)] /\ pc' = pc
      /\ UNCHANGED <<state, current, created, need, physical>>
  BY DEF Acquire, CanAcquire
<1>2. /\ pc \in [Step -> StepStates] /\ need \in [Step -> Seq(Permit)]
      /\ line \in [Permit -> Seq(Step)] /\ got \in [Step -> Nat] /\ free \in [Permit -> Nat]
  BY DEF IndInv, TypeOK
<1>3. /\ x \in Permit /\ x \notin Held(s) /\ need[s] = PermitsOf(r)
  BY <1>1, AsksNext
<1>4. n \in Nat /\ got[s] \in Nat /\ got[s] < n /\ r \in Registered /\ state[r] = "open"
  <2>1. got[s] < n /\ r \in Registered /\ state[r] = "open"
    BY <1>1 DEF IndInv, WorkersAreRegistered
  <2>2. n \in Nat
    BY <1>2, LenProperties
  <2> QED BY <1>2, <2>1, <2>2
<1>5. IsInjective(need[s]) /\ DOMAIN need[s] = 1..n /\ \A i \in 1..n : need[s][i] \in Permit
  BY <1>2, <1>3, <1>4, PermitsTyped, LenProperties, ElementOfSeq
<1>6. IsInjective(line[x]) /\ s \in Range(line[x]) /\ line[x] \in Seq(Step)
  BY <1>1, <1>2, <1>3 DEF IndInv, LinesAreSubmissions
<1>7. line[x] # <<>>
  BY <1>6 DEF Range
<1>8. Tail(line[x]) \in Seq(Step) /\ IsInjective(Tail(line[x]))
      /\ Range(Tail(line[x])) = Range(line[x]) \ {s}
  BY <1>1, <1>6, <1>7, FirstLeaves
<1>9. /\ left \in [Permit -> Seq(Step)] /\ left[x] = Tail(line[x])
      /\ \A z \in Permit : z # x => left[z] = line[z]
  BY <1>2, <1>3, <1>8
<1>10. \A z \in Permit :
          /\ IsInjective(left[z])
          /\ Range(left[z]) = {t \in Step : t # s /\ pc[t] = "waiting" /\ need[t][got[t] + 1] = z}
  <2> SUFFICES ASSUME NEW z \in Permit
               PROVE  /\ IsInjective(left[z])
                      /\ Range(left[z])
                         = {t \in Step : t # s /\ pc[t] = "waiting" /\ need[t][got[t] + 1] = z}
    OBVIOUS
  <2>1. /\ IsInjective(line[z])
        /\ Range(line[z]) = {t \in Step : pc[t] = "waiting" /\ need[t][got[t] + 1] = z}
    BY DEF IndInv, LinesAreSubmissions
  <2>2. CASE z = x
    BY <2>1, <2>2, <1>8, <1>9
  <2>3. CASE z # x
    BY <2>1, <2>3, <1>9
  <2> QED BY <2>2, <2>3
<1> HIDE DEF left, n
<1>11. got' \in [Step -> Nat] /\ got'[s] = got[s] + 1 /\ \A t \in Step : t # s => got'[t] = got[t]
  BY <1>1, <1>2
<1>12. free' \in [Permit -> Nat] /\ free'[x] = free[x] - 1
       /\ \A z \in Permit : z # x => free'[z] = free[z]
  <2>0. x \in Permit /\ free[x] \in Nat /\ free[x] > 0
    BY <1>1, <1>2, <1>3
  <2>1. free[x] - 1 \in Nat /\ x \in Permit /\ free' = [free EXCEPT ![x] = free[x] - 1]
    BY <1>1, <2>0
  <2> HIDE DEF x
  <2> QED BY <1>2, <2>1
<1> HIDE DEF x, y
<1>13. PermitsConserved'
  <2>1. \A t \in Step : t # s => Held(t)' = Held(t)
    BY <1>1, <1>11 DEF Held
  <2>2. Held(s)' = Held(s) \cup {x}
    <3>1. Held(s)' = {need[s][i] : i \in 1..(got[s] + 1)}
      BY <1>1, <1>11 DEF Held
    <3>2. 1..(got[s] + 1) = 1..got[s] \cup {got[s] + 1}
      BY <1>4
    <3>3. Held(s) = {need[s][i] : i \in 1..got[s]} /\ x = need[s][got[s] + 1]
      BY DEF Held, x
    <3> QED BY <3>1, <3>2, <3>3
  <2>3. ASSUME NEW z \in Permit
        PROVE  free'[z] + Cardinality({t \in Step : z \in Held(t)'}) = LimitOf(z)
    <3> DEFINE H == {t \in Step : z \in Held(t)}
    <3>1. IsFiniteSet(H)
      BY FiniteAssumption, FS_Subset, H \subseteq Step
    <3>2. free[z] \in Nat /\ free[z] + Cardinality(H) = LimitOf(z)
      BY <1>2 DEF IndInv, PermitsConserved
    <3>3. CASE z = x
      <4>1. {t \in Step : z \in Held(t)'} = H \cup {s} /\ s \notin H
        BY <1>3, <2>1, <2>2, <3>3 DEF x
      <4> HIDE DEF H
      <4>2. Cardinality(H \cup {s}) = Cardinality(H) + 1 /\ Cardinality(H) \in Nat
        BY <3>1, <4>1, FS_AddElement, FS_CardinalityType
      <4>3. free'[z] = free[z] - 1
        BY <1>12, <3>3
      <4>4. free'[z] + Cardinality(H \cup {s}) = LimitOf(z)
        BY <3>2, <4>2, <4>3
      <4> QED BY <4>1, <4>4
    <3>4. CASE z # x
      <4>1. {t \in Step : z \in Held(t)'} = H
        BY <2>1, <2>2, <3>4
      <4> QED BY <1>12, <3>2, <3>4, <4>1
    <3> QED BY <3>3, <3>4
  <2> QED BY <2>3 DEF PermitsConserved, Permit, Gate, Epoch, LimitOf
<1>14. GatesAreNumbered' /\ RunnersHaveGates' /\ Registered' = Registered
  BY <1>1 DEF IndInv, GatesAreNumbered, RunnersHaveGates, Registered
<1>15. \A c : PermitsOf(c)' = PermitsOf(c)
  BY <1>1 DEF PermitsOf
<1>16. physical[s] \notin {"queued", "executing"}
  BY <1>1 DEF IndInv, WorkersAreRegistered
<1>17. CASE got[s] + 1 = n /\ pc' = [pc EXCEPT ![s] = "reserving"] /\ line' = left
  <2>1. pc'[s] = "reserving" /\ \A t \in Step : t # s => pc'[t] = pc[t]
    BY <1>2, <1>17
  <2>2. pc' \in [Step -> StepStates]
    BY <1>2, <1>17 DEF StepStates
  <2>3. TypeOK'
    BY <1>1, <1>9, <1>11, <1>12, <1>17, <2>2 DEF IndInv, TypeOK, Permit, Gate, Epoch
  <2>4. WorkersAreRegistered'
    BY <1>1, <1>3, <1>4, <1>11, <1>14, <1>15, <1>16, <1>17, <2>1 DEF IndInv, WorkersAreRegistered, n
  <2>5. LinesAreSubmissions'
    <3>1. ASSUME NEW z \in Permit
          PROVE  /\ IsInjective(line'[z])
                 /\ Range(line'[z]) = {t \in Step : pc'[t] = "waiting" /\ need'[t][got'[t] + 1] = z}
      BY <1>1, <1>10, <1>11, <1>17, <2>1
    <3>2. \A t \in Step : pc'[t] \in {"waiting", "reserving"} => pc[t] \in {"waiting", "reserving"}
      BY <1>1, <2>1
    <3>3. ASSUME NEW t \in Step, NEW u \in Step, RunnerOf[t] = RunnerOf[u],
               {pc'[t], pc'[u]} \subseteq {"waiting", "reserving"}
          PROVE  t = u
      BY <3>2, <3>3 DEF IndInv, LinesAreSubmissions
    <3> QED BY <3>1, <3>3 DEF LinesAreSubmissions, Permit, Gate, Epoch
  <2> QED BY <1>13, <1>14, <2>3, <2>4, <2>5 DEF IndInv
<1>18. CASE got[s] + 1 < n /\ line' = [left EXCEPT ![y] = Append(@, s)] /\ pc' = pc
  <2>1. got[s] + 2 \in 1..n /\ got[s] + 1 \in 1..n /\ got[s] + 2 # got[s] + 1
    BY <1>4, <1>18
  <2>2. y \in Permit /\ y # x
    BY <1>5, <2>1 DEF IsInjective, x, y
  <2>3. s \notin Range(left[y]) /\ left[y] \in Seq(Step) /\ IsInjective(left[y])
    BY <1>9, <1>10, <2>2
  <2>4. /\ Append(left[y], s) \in Seq(Step) /\ IsInjective(Append(left[y], s))
        /\ Range(Append(left[y], s)) = Range(left[y]) \cup {s}
    BY <2>3, JoinLast
  <2>5. /\ line' \in [Permit -> Seq(Step)] /\ line'[y] = Append(left[y], s)
        /\ \A z \in Permit : z # y => line'[z] = left[z]
    BY <1>9, <1>18, <2>2, <2>4
  <2>6. TypeOK'
    BY <1>1, <1>11, <1>12, <1>18, <2>5 DEF IndInv, TypeOK, Permit, Gate, Epoch
  <2>7. WorkersAreRegistered'
    BY <1>1, <1>3, <1>4, <1>11, <1>14, <1>15, <1>16, <1>18 DEF IndInv, WorkersAreRegistered, n
  <2>8. ASSUME NEW z \in Permit
        PROVE  /\ IsInjective(line'[z])
               /\ Range(line'[z]) = {t \in Step : pc'[t] = "waiting" /\ need'[t][got'[t] + 1] = z}
    <3>1. need'[s][got'[s] + 1] = y
      <4>1. got'[s] + 1 = got[s] + 2
        BY <1>4, <1>11
      <4> QED BY <1>1, <4>1 DEF y
    <3>2. CASE z = y
      BY <1>1, <1>10, <1>11, <1>18, <2>4, <2>5, <3>1, <3>2
    <3>3. CASE z # y
      BY <1>1, <1>10, <1>11, <1>18, <2>5, <3>1, <3>3
    <3> QED BY <3>2, <3>3
  <2>9. LinesAreSubmissions'
    BY <1>18, <2>8 DEF IndInv, LinesAreSubmissions, Permit, Gate, Epoch
  <2> QED BY <1>13, <1>14, <2>6, <2>7, <2>9 DEF IndInv
<1> QED BY <1>1, <1>17, <1>18 DEF n, x, y, left

\* The task of a Worker ends: refused, drained, committed.
LEMMA EndTaskStep ==
    ASSUME IndInv, NEW s \in Step, pc[s] # "waiting",
           physical[s] \notin {"queued", "executing"},
           EndTask(s), physical' = physical
    PROVE  IndInv'
<1>1. pc' = [t \in Step |-> IF t \in {s} THEN "ended" ELSE pc[t]]
  BY DEF EndTask, IndInv, TypeOK
<1>2. Release({s}) /\ UNCHANGED <<state, current, created, line, need>>
  BY DEF EndTask
<1> QED BY <1>1, <1>2, EndWorkers

\* Steps that only move a Worker that holds all its permits, or its request.
LEMMA MoveWorker ==
    ASSUME IndInv, NEW s \in Step, NEW p \in {"executing", "committing"},
           pc[s] \in {"reserving", "executing", "draining"},
           pc' = [pc EXCEPT ![s] = p],
           physical' \in [Step -> {"none", "queued", "executing", "answered", "refused"}],
           \A t \in Step : t # s => physical'[t] = physical[t],
           physical'[s] \in {"queued", "executing"} => p = "executing",
           UNCHANGED <<state, current, created, free, line, need, got>>
    PROVE  IndInv'
<1>1. pc' \in [Step -> StepStates] /\ pc'[s] = p /\ \A t \in Step : t # s => pc'[t] = pc[t]
  BY DEF IndInv, TypeOK, StepStates
<1>2. TypeOK' /\ PermitsConserved'
  <2>1. TypeOK'
    BY <1>1 DEF IndInv, TypeOK, Permit, Gate, Epoch
  <2>2. PermitsConserved'
    BY <1>1 DEF IndInv, PermitsConserved, Permit, Gate, Epoch, Held, LimitOf
  <2> QED BY <2>1, <2>2
<1>3. GatesAreNumbered' /\ RunnersHaveGates' /\ Registered' = Registered
  BY DEF IndInv, GatesAreNumbered, RunnersHaveGates, Registered
<1>4. \A c : PermitsOf(c)' = PermitsOf(c)
  BY DEF PermitsOf
<1>5. WorkersAreRegistered'
  BY <1>1, <1>3, <1>4 DEF IndInv, WorkersAreRegistered
<1>6. \A t \in Step : /\ pc'[t] = "waiting" <=> pc[t] = "waiting"
                      /\ pc'[t] \in {"waiting", "reserving"} => pc'[t] = pc[t]
  BY <1>1
<1>7. LinesAreSubmissions'
  BY <1>6 DEF IndInv, LinesAreSubmissions, Permit, Gate, Epoch
<1> QED BY <1>2, <1>3, <1>5, <1>7 DEF IndInv

\* The reservation is accepted, or refused and the permits go back.
LEMMA ReserveStep ==
    ASSUME IndInv, NEW s \in Step, Reserve(s)
    PROVE  IndInv'
<1>1. pc[s] = "reserving" /\ physical[s] \notin {"queued", "executing"}
  BY DEF Reserve, IndInv, WorkersAreRegistered
<1>2. CASE /\ pc' = [pc EXCEPT ![s] = "executing"]
           /\ physical' = [physical EXCEPT ![s] = "queued"]
           /\ UNCHANGED <<state, current, created, free, line, need, got>>
  <2>1. physical' \in [Step -> {"none", "queued", "executing", "answered", "refused"}]
        /\ \A t \in Step : t # s => physical'[t] = physical[t]
    BY <1>2 DEF IndInv, TypeOK
  <2> QED BY <1>1, <1>2, <2>1, MoveWorker
<1>3. CASE EndTask(s) /\ UNCHANGED physical
  BY <1>1, <1>3, EndTaskStep
<1> QED BY <1>2, <1>3 DEF Reserve

\* The router starts, refuses or answers a request that it holds.
LEMMA RouterKeeps ==
    ASSUME IndInv, NEW s \in Step, RouterStep(s)
    PROVE  IndInv'
<1>1. /\ physical[s] \in {"queued", "executing"}
      /\ \E p \in {"executing", "refused", "answered"} : physical' = [physical EXCEPT ![s] = p]
      /\ UNCHANGED <<state, current, created, free, line, pc, need, got>>
  BY DEF RouterStep
<1>2. PICK p \in {"executing", "refused", "answered"} : physical' = [physical EXCEPT ![s] = p]
  BY <1>1
<1>3. physical' \in [Step -> {"none", "queued", "executing", "answered", "refused"}]
      /\ \A t \in Step : t # s => physical'[t] = physical[t]
  BY <1>2 DEF IndInv, TypeOK
<1>4. TypeOK' /\ PermitsConserved'
  <2>1. TypeOK'
    BY <1>1, <1>3 DEF IndInv, TypeOK, Permit, Gate, Epoch
  <2>2. PermitsConserved'
    BY <1>1, <1>3 DEF IndInv, PermitsConserved, Permit, Gate, Epoch, Held, LimitOf
  <2> QED BY <2>1, <2>2
<1>5. GatesAreNumbered' /\ RunnersHaveGates' /\ Registered' = Registered
  BY <1>1 DEF IndInv, GatesAreNumbered, RunnersHaveGates, Registered
<1>6. \A c : PermitsOf(c)' = PermitsOf(c)
  BY <1>1 DEF PermitsOf
<1>7. WorkersAreRegistered'
  BY <1>1, <1>3, <1>5, <1>6 DEF IndInv, WorkersAreRegistered
<1>8. LinesAreSubmissions'
  BY <1>1 DEF IndInv, LinesAreSubmissions, Permit, Gate, Epoch
<1> QED BY <1>4, <1>5, <1>7, <1>8 DEF IndInv

\* The answer goes to the commit, and the commit or the drained wait ends the
\* task.
LEMMA TaskStepKeeps ==
    ASSUME IndInv, NEW s \in Step, TaskStep(s)
    PROVE  IndInv'
<1>1. CASE Respond(s)
  <2>1. /\ pc[s] \in {"executing", "draining"} /\ physical[s] \in {"answered", "refused"}
        /\ pc' = [pc EXCEPT ![s] = "committing"]
        /\ UNCHANGED <<state, current, created, free, line, need, got, physical>>
    BY <1>1 DEF Respond
  <2>2. physical' \in [Step -> {"none", "queued", "executing", "answered", "refused"}]
        /\ \A t \in Step : t # s => physical'[t] = physical[t]
    BY <2>1 DEF IndInv, TypeOK
  <2> QED BY <2>1, <2>2, MoveWorker
<1>2. CASE Drained(s)
  BY <1>2, EndTaskStep DEF Drained
<1>3. CASE Commit(s)
  <2>1. pc[s] = "committing" /\ physical[s] \notin {"queued", "executing"}
    BY <1>3 DEF Commit, IndInv, WorkersAreRegistered
  <2> QED BY <1>3, <2>1, EndTaskStep DEF Commit
<1> QED BY <1>1, <1>2, <1>3 DEF TaskStep

\* A second cancellation ends the tasks that wait for their execution.
LEMMA ForceStep ==
    ASSUME IndInv, NEW r \in Runner, ForceCancel(r)
    PROVE  IndInv'
<1> DEFINE ended == {s \in Active(r) : pc[s] = "draining"}
<1>1. ended \in SUBSET Step /\ \A s \in ended : pc[s] # "waiting"
  BY DEF Active
<1>2. /\ pc' = [s \in Step |-> IF s \in ended THEN "forced" ELSE pc[s]]
      /\ Release(ended)
      /\ UNCHANGED <<state, current, created, line, need, physical>>
  BY DEF ForceCancel
<1> HIDE DEF ended
<1> QED BY <1>1, <1>2, EndWorkers

\* The end of a run: its submission leaves its line, and every task that does not
\* wait for an execution ends.
LEMMA EndRunStep ==
    ASSUME IndInv, NEW r \in Runner, EndRun(r)
    PROVE  IndInv'
<1> DEFINE next(s) ==
                IF RunnerOf[s] # r THEN pc[s]
                ELSE IF s \in Submitting(r) THEN "ended" ELSE CancelledTask(pc[s])
           ended == {s \in Step : next(s) = "ended" /\ pc[s] # "ended"}
           W == {s \in Submitting(r) : pc[s] = "waiting"}
<1>1. /\ state[r] = "open" /\ state' = [state EXCEPT ![r] = "ending"]
      /\ pc' = [s \in Step |-> next(s)]
      /\ LeaveLine(W) /\ Release(ended)
      /\ UNCHANGED <<current, created, need, physical>>
  BY DEF EndRun
<1>2. /\ state \in [Runner -> RunnerStates] /\ pc \in [Step -> StepStates]
      /\ need \in [Step -> Seq(Permit)] /\ line \in [Permit -> Seq(Step)]
  BY DEF IndInv, TypeOK
<1>3. /\ PermitsConserved' /\ free' \in [Permit -> Nat]
      /\ got' = [s \in Step |-> IF s \in ended THEN 0 ELSE got[s]]
      /\ got' \in [Step -> Nat]
  <2>1. ended \in SUBSET Step
    OBVIOUS
  <2> HIDE DEF ended
  <2> QED BY <1>1, <2>1, ReleaseConserves
<1>4. ASSUME NEW s \in Step
      PROVE  /\ RunnerOf[s] # r => pc'[s] = pc[s] /\ got'[s] = got[s]
             /\ RunnerOf[s] = r =>
                  \/ pc[s] \in {"waiting", "reserving", "committing"} /\ pc'[s] = "ended" /\ got'[s] = 0
                  \/ pc[s] \in {"executing", "draining"} /\ pc'[s] = "draining" /\ got'[s] = got[s]
                  \/ pc[s] \in {"idle", "ended", "forced"} /\ pc'[s] = pc[s] /\ got'[s] = got[s]
  <2>1. pc'[s] = next(s) /\ pc[s] \in StepStates
    BY <1>1, <1>2
  <2>2. got'[s] = IF s \in ended THEN 0 ELSE got[s]
    BY <1>3
  <2>3. CASE RunnerOf[s] # r
    BY <2>1, <2>2, <2>3
  <2>4. CASE RunnerOf[s] = r
    <3>1. s \in Submitting(r) <=> pc[s] \in {"waiting", "reserving"}
      BY <2>4 DEF Submitting
    <3>2. next(s) = IF pc[s] \in {"waiting", "reserving"} THEN "ended" ELSE CancelledTask(pc[s])
      BY <2>4, <3>1
    <3>3. s \in ended <=> next(s) = "ended" /\ pc[s] # "ended"
      OBVIOUS
    <3> HIDE DEF next, ended
    <3>4. CASE pc[s] \in {"waiting", "reserving"}
      BY <2>1, <2>2, <2>4, <3>2, <3>3, <3>4
    <3>5. CASE pc[s] = "executing"
      BY <2>1, <2>2, <2>4, <3>2, <3>3, <3>5 DEF CancelledTask
    <3>6. CASE pc[s] = "committing"
      BY <2>1, <2>2, <2>4, <3>2, <3>3, <3>6 DEF CancelledTask
    <3>7. CASE pc[s] \in {"idle", "ended", "forced", "draining"}
      BY <2>1, <2>2, <2>4, <3>2, <3>3, <3>7 DEF CancelledTask
    <3> QED BY <2>1, <3>4, <3>5, <3>6, <3>7 DEF StepStates
  <2> QED BY <2>3, <2>4
<1>5. pc' \in [Step -> StepStates]
  <2>1. \A s \in Step : pc'[s] \in StepStates
    BY <1>2, <1>4 DEF StepStates
  <2> HIDE DEF next
  <2> QED BY <1>1, <2>1
<1> HIDE DEF next, ended
<1>6. /\ state' \in [Runner -> RunnerStates] /\ state'[r] = "ending"
      /\ \A c \in Runner : c # r => state'[c] = state[c]
  BY <1>1, <1>2 DEF RunnerStates
<1>7. Registered' = Registered
  BY <1>1, <1>6 DEF Registered
<1>8. {c \in Runner : state'[c] # "new"} = {c \in Runner : state[c] # "new"}
  BY <1>1, <1>6
<1>9. GatesAreNumbered' /\ RunnersHaveGates'
  BY <1>1, <1>7, <1>8 DEF IndInv, GatesAreNumbered, RunnersHaveGates
<1>10. \A c : PermitsOf(c)' = PermitsOf(c)
  BY <1>1 DEF PermitsOf
<1>11. WorkersAreRegistered'
  <2>1. SUFFICES ASSUME NEW s \in Step
                 PROVE  /\ pc'[s] \notin {"idle", "ended", "forced"} =>
                              RunnerOf[s] \in Registered /\ need[s] = PermitsOf(RunnerOf[s])
                        /\ pc'[s] \in {"waiting", "reserving"} => state'[RunnerOf[s]] = "open"
                        /\ \/ pc'[s] \in {"idle", "ended", "forced"} /\ got'[s] = 0
                           \/ pc'[s] = "waiting" /\ got'[s] < Len(need[s])
                           \/ /\ pc'[s] \in {"reserving", "executing", "draining", "committing"}
                              /\ got'[s] = Len(need[s])
                        /\ physical[s] \in {"queued", "executing"} =>
                              pc'[s] \in {"executing", "draining", "forced"}
    BY <1>1, <1>7, <1>10 DEF WorkersAreRegistered
  <2>2. /\ pc[s] \notin {"idle", "ended", "forced"} =>
               RunnerOf[s] \in Registered /\ need[s] = PermitsOf(RunnerOf[s])
        /\ pc[s] \in {"waiting", "reserving"} => state[RunnerOf[s]] = "open"
        /\ \/ pc[s] \in {"idle", "ended", "forced"} /\ got[s] = 0
           \/ pc[s] = "waiting" /\ got[s] < Len(need[s])
           \/ /\ pc[s] \in {"reserving", "executing", "draining", "committing"}
              /\ got[s] = Len(need[s])
        /\ physical[s] \in {"queued", "executing"} => pc[s] \in {"executing", "draining", "forced"}
    BY DEF IndInv, WorkersAreRegistered
  <2>3. RunnerOf[s] \in Runner
    BY StepAssumption
  <2>4. CASE RunnerOf[s] # r
    BY <1>4, <1>6, <2>2, <2>3, <2>4
  <2>5. CASE RunnerOf[s] = r
    BY <1>4, <2>2, <2>5
  <2> QED BY <2>4, <2>5
<1>12. ASSUME NEW s \in Step
       PROVE  /\ pc'[s] = "waiting" <=> pc[s] = "waiting" /\ RunnerOf[s] # r
              /\ pc'[s] = "waiting" => got'[s] = got[s]
              /\ pc'[s] \in {"waiting", "reserving"} => pc'[s] = pc[s]
  BY <1>4
<1>13. /\ line' \in [Permit -> Seq(Step)]
       /\ \A x \in Permit :
             /\ IsInjective(line'[x])
             /\ Range(line'[x])
                = {s \in Step : pc[s] = "waiting" /\ RunnerOf[s] # r /\ need[s][got[s] + 1] = x}
  <2>1. \A s \in Step : s \in W <=> pc[s] = "waiting" /\ RunnerOf[s] = r
    BY DEF Submitting
  <2>2. W \subseteq Step /\ \A s, t \in W : s = t
    BY DEF Submitting, IndInv, LinesAreSubmissions
  <2>3. \A x \in Permit :
             /\ IsInjective(line[x])
             /\ Range(line[x]) = {s \in Step : pc[s] = "waiting" /\ need[s][got[s] + 1] = x}
    BY DEF IndInv, LinesAreSubmissions
  <2> HIDE DEF W
  <2>4. CASE W = {} /\ line' = line
    BY <1>2, <2>1, <2>3, <2>4
  <2>5. ASSUME NEW s \in W,
               line' = [line EXCEPT ![need[s][got[s] + 1]] = RemoveFirst(@, s)]
        PROVE  /\ line' \in [Permit -> Seq(Step)]
               /\ \A x \in Permit :
                    /\ IsInjective(line'[x])
                    /\ Range(line'[x])
                       = {t \in Step : pc[t] = "waiting" /\ RunnerOf[t] # r /\ need[t][got[t] + 1] = x}
    <3> DEFINE x == need[s][got[s] + 1]
    <3>1. s \in Step /\ pc[s] = "waiting" /\ RunnerOf[s] = r
      BY <2>1, <2>2
    <3>2. x \in Permit
      BY <3>1, AsksNext
    <3>3. s \in Range(line[x]) /\ IsInjective(line[x]) /\ line[x] \in Seq(Step)
      BY <1>2, <2>3, <3>1, <3>2
    <3>4. /\ RemoveFirst(line[x], s) \in Seq(Step) /\ IsInjective(RemoveFirst(line[x], s))
          /\ Range(RemoveFirst(line[x], s)) = Range(line[x]) \ {s}
      BY <3>3, OneLeaves
    <3>5. /\ line' \in [Permit -> Seq(Step)] /\ line'[x] = RemoveFirst(line[x], s)
          /\ \A y \in Permit : y # x => line'[y] = line[y]
      BY <1>2, <2>5, <3>2, <3>4
    <3>6. \A t \in Step : pc[t] = "waiting" /\ RunnerOf[t] = r => t = s
      BY <2>1, <2>2
    <3>7. ASSUME NEW y \in Permit
          PROVE  /\ IsInjective(line'[y])
                 /\ Range(line'[y])
                    = {t \in Step : pc[t] = "waiting" /\ RunnerOf[t] # r /\ need[t][got[t] + 1] = y}
      <4>1. CASE y = x
        BY <4>1, <2>3, <3>1, <3>4, <3>5, <3>6
      <4>2. CASE y # x
        <5>1. s \notin {t \in Step : pc[t] = "waiting" /\ need[t][got[t] + 1] = y}
          BY <4>2
        <5> QED BY <4>2, <5>1, <2>3, <3>5, <3>6, <3>1
      <4> QED BY <4>1, <4>2
    <3> QED BY <3>5, <3>7
  <2> QED BY <1>1, <2>4, <2>5 DEF LeaveLine
<1>14. LinesAreSubmissions'
  <2>1. ASSUME NEW x \in Permit
        PROVE  /\ IsInjective(line'[x])
               /\ Range(line'[x]) = {s \in Step : pc'[s] = "waiting" /\ need'[s][got'[s] + 1] = x}
    BY <1>1, <1>12, <1>13
  <2>2. ASSUME NEW t \in Step, NEW u \in Step, RunnerOf[t] = RunnerOf[u],
               {pc'[t], pc'[u]} \subseteq {"waiting", "reserving"}
        PROVE  t = u
    <3>1. pc[t] = pc'[t] /\ pc[u] = pc'[u]
      BY <1>12, <2>2
    <3> QED BY <2>2, <3>1 DEF IndInv, LinesAreSubmissions
  <2> QED BY <2>1, <2>2 DEF LinesAreSubmissions, Permit, Gate, Epoch
<1>15. TypeOK'
  BY <1>1, <1>3, <1>5, <1>6, <1>13 DEF IndInv, TypeOK, Permit, Gate, Epoch
<1> QED BY <1>3, <1>9, <1>11, <1>14, <1>15 DEF IndInv

\* A Runner leaves when none of its Workers is left, and the gates it drops are
\* nobody else's.
LEMMA UnregisterStep ==
    ASSUME IndInv, NEW r \in Runner, Unregister(r)
    PROVE  IndInv'
<1> DEFINE used == UNION {Range(RuntimesOf[c]) : c \in Registered \ {r}}
<1>1. /\ state[r] = "ending" /\ Active(r) = {}
      /\ state' = [state EXCEPT ![r] = "gone"]
      /\ current' = [g \in Runtime |-> IF g \in Range(RuntimesOf[r]) \ used THEN 0 ELSE current[g]]
      /\ UNCHANGED <<created, free, line, pc, need, got, physical>>
  BY DEF Unregister
<1>2. /\ state \in [Runner -> RunnerStates] /\ current \in [Runtime -> Epoch \cup {0}]
      /\ pc \in [Step -> StepStates]
  BY DEF IndInv, TypeOK
<1>3. /\ state' \in [Runner -> RunnerStates] /\ state'[r] = "gone"
      /\ \A c \in Runner : c # r => state'[c] = state[c]
  BY <1>1, <1>2 DEF RunnerStates
<1>4. Registered' = Registered \ {r} /\ Registered \subseteq Runner
  BY <1>1, <1>3 DEF Registered
<1>5. {c \in Runner : state'[c] # "new"} = {c \in Runner : state[c] # "new"}
  BY <1>1, <1>3
<1>6. \A c \in Runner : Range(RuntimesOf[c]) \subseteq Runtime
  BY RuntimesAssumption, RangeOfSeq
<1>7. \A c \in Registered \ {r} : \A g \in Range(RuntimesOf[c]) : current'[g] = current[g]
  <2>1. \A c \in Registered \ {r} : \A g \in Range(RuntimesOf[c]) : g \in used /\ g \in Runtime
    BY <1>4, <1>6
  <2> HIDE DEF used
  <2> QED BY <1>1, <2>1
<1> HIDE DEF used
<1>8. /\ current' \in [Runtime -> Epoch \cup {0}]
      /\ \A g \in Runtime : current'[g] \in {0, current[g]}
  BY <1>1, <1>2
<1>9. GatesAreNumbered'
  BY <1>1, <1>5, <1>8 DEF IndInv, GatesAreNumbered
<1>10. RunnersHaveGates'
  BY <1>4, <1>7 DEF IndInv, RunnersHaveGates
<1>11. \A c \in Registered \ {r} : PermitsOf(c)' = PermitsOf(c)
  <2> SUFFICES ASSUME NEW c \in Registered \ {r} PROVE PermitsOf(c)' = PermitsOf(c)
    OBVIOUS
  <2>1. \A i \in DOMAIN RuntimesOf[c] : current'[RuntimesOf[c][i]] = current[RuntimesOf[c][i]]
    <3>1. \A i \in DOMAIN RuntimesOf[c] : RuntimesOf[c][i] \in Range(RuntimesOf[c])
      BY DEF Range
    <3> QED BY <1>7, <3>1
  <2> QED BY <2>1 DEF PermitsOf
<1>12. \A s \in Step : pc[s] \notin {"idle", "ended", "forced"} => RunnerOf[s] # r
  <2> SUFFICES ASSUME NEW s \in Step, RunnerOf[s] = r PROVE pc[s] \in {"idle", "ended", "forced"}
    OBVIOUS
  <2>1. pc[s] \notin {"executing", "draining", "committing"}
    BY <1>1 DEF Active
  <2>2. pc[s] \notin {"waiting", "reserving"}
    BY <1>1 DEF IndInv, WorkersAreRegistered
  <2> QED BY <1>2, <2>1, <2>2 DEF StepStates
<1>13. WorkersAreRegistered'
  <2>1. \A s \in Step : RunnerOf[s] \in Runner
    BY StepAssumption
  <2>2. \A s \in Step : pc[s] \notin {"idle", "ended", "forced"} =>
            /\ RunnerOf[s] \in Registered' /\ need[s] = PermitsOf(RunnerOf[s])'
            /\ state'[RunnerOf[s]] = state[RunnerOf[s]]
    BY <1>3, <1>4, <1>11, <1>12, <2>1 DEF IndInv, WorkersAreRegistered
  <2> QED BY <1>1, <2>2 DEF IndInv, WorkersAreRegistered
<1>14. TypeOK'
  BY <1>1, <1>3, <1>8 DEF IndInv, TypeOK, Permit, Gate, Epoch
<1>15. PermitsConserved'
  BY <1>1 DEF IndInv, PermitsConserved, Permit, Gate, Epoch, Held, LimitOf
<1>16. LinesAreSubmissions'
  BY <1>1 DEF IndInv, LinesAreSubmissions, Permit, Gate, Epoch
<1> QED BY <1>9, <1>10, <1>13, <1>14, <1>15, <1>16 DEF IndInv

-----------------------------------------------------------------------------
(* Permits are conserved *)

\* Nobody is registered, and every permit is free.
LEMMA InitHolds == Init => IndInv
<1> SUFFICES ASSUME Init PROVE IndInv
  OBVIOUS
<1>1. Cardinality(Runner) \in Nat
  BY FiniteAssumption, FS_CardinalityType
<1>2. \A x \in Permit : LimitOf(x) \in Nat
  <2>1. \A x \in Gate : x[1] \in Runtime
    BY DEF Gate
  <2> QED BY <2>1, LimitAssumption DEF LimitOf, Permit
<1>3. TypeOK
  BY <1>1, <1>2 DEF Init, TypeOK, RunnerStates, StepStates
<1>4. PermitsConserved
  <2>1. \A s \in Step : Held(s) = {}
    BY DEF Init, Held
  <2>2. ASSUME NEW x \in Permit
        PROVE  free[x] + Cardinality({s \in Step : x \in Held(s)}) = LimitOf(x)
    <3>1. {s \in Step : x \in Held(s)} = {}
      BY <2>1
    <3>2. free[x] = LimitOf(x)
      BY DEF Init
    <3>3. Cardinality({s \in Step : x \in Held(s)}) = 0
      BY <3>1, FS_EmptySet
    <3> QED BY <1>2, <3>2, <3>3
  <2> QED BY <2>2 DEF PermitsConserved
<1>5. {r \in Runner : state[r] # "new"} = {} /\ Registered = {}
  BY DEF Init, Registered
<1>6. GatesAreNumbered /\ RunnersHaveGates
  <2>1. Cardinality({r \in Runner : state[r] # "new"}) = 0
    BY <1>5, FS_EmptySet
  <2>2. \A g \in Runtime : current[g] = 0 /\ created[g] = 0
    BY DEF Init
  <2> QED BY <1>5, <2>1, <2>2 DEF GatesAreNumbered, RunnersHaveGates
<1>7. WorkersAreRegistered
  BY DEF Init, WorkersAreRegistered
<1>8. LinesAreSubmissions
  BY DEF Init, LinesAreSubmissions, IsInjective, Range
<1> QED BY <1>3, <1>4, <1>6, <1>7, <1>8 DEF IndInv

\* Every step of the dispatcher preserves the invariant.
LEMMA NextPreserves == IndInv /\ [Next]_vars => IndInv'
<1> SUFFICES ASSUME IndInv, [Next]_vars PROVE IndInv'
  OBVIOUS
<1>1. ASSUME NEW r \in Runner, Register(r) \/ EndRun(r) \/ ForceCancel(r) \/ Unregister(r)
      PROVE  IndInv'
  BY <1>1, RegisterStep, EndRunStep, ForceStep, UnregisterStep
<1>2. ASSUME NEW s \in Step,
             Submit(s) \/ Acquire(s) \/ Reserve(s) \/ RouterStep(s) \/ TaskStep(s)
      PROVE  IndInv'
  BY <1>2, SubmitStep, AcquireStep, ReserveStep, RouterKeeps, TaskStepKeeps
<1>3. CASE UNCHANGED vars
  <2>1. UNCHANGED <<state, current, created, free, line, pc, need, got, physical>>
    BY <1>3 DEF vars
  <2>2. TypeOK' /\ LinesAreSubmissions'
    BY <2>1 DEF IndInv, TypeOK, LinesAreSubmissions, Permit, Gate, Epoch
  <2>3. PermitsConserved'
    BY <2>1 DEF IndInv, PermitsConserved, Permit, Gate, Epoch, Held, LimitOf
  <2>4. GatesAreNumbered' /\ RunnersHaveGates' /\ WorkersAreRegistered'
    <3>1. Registered' = Registered /\ \A r : PermitsOf(r)' = PermitsOf(r)
      BY <2>1 DEF Registered, PermitsOf
    <3>2. GatesAreNumbered' /\ RunnersHaveGates'
      BY <2>1, <3>1 DEF IndInv, GatesAreNumbered, RunnersHaveGates
    <3>3. WorkersAreRegistered'
      BY <2>1, <3>1 DEF IndInv, WorkersAreRegistered
    <3> QED BY <3>2, <3>3
  <2> QED BY <2>2, <2>3, <2>4 DEF IndInv
<1> QED BY <1>1, <1>2, <1>3 DEF Next

\* On every path by which submissions, tasks and Runners end, permits are neither
\* lost nor invented, a dropped gate is free, a waiting submission holds no slot,
\* and what executes is within the ceilings until a second cancellation
\* (dispatch.py).
THEOREM PermitsAreConserved == Spec => []PermitInvariant
<1>1. Init => IndInv
  BY InitHolds
<1>2. IndInv /\ [Next]_vars => IndInv'
  BY NextPreserves
<1>3. IndInv => PermitInvariant
  BY DroppedAreFree, WaitersHoldGates, CeilingHolds DEF IndInv, PermitInvariant
<1> QED BY <1>1, <1>2, <1>3, PTL DEF Spec
=============================================================================
