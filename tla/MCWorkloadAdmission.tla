------------------------ MODULE MCWorkloadAdmission ------------------------
(***************************************************************************)
(* Small workloads for TLC: every shape of tree up to two composite nodes, *)
(* plans of every recurrence of a small calendar, and benchmarks with and  *)
(* without steps.  The zone of the calendar loses an hour on its third     *)
(* day, gains one on its fifth and goes back over midnight at the end of   *)
(* its seventh.                                                            *)
(***************************************************************************)
EXTENDS WorkloadAdmission

Zone == [t \in 0..Horizon |->
            CASE t < 9 -> 0 [] t \in 9..18 -> 1 [] t \in 19..28 -> 0 [] OTHER -> -2]

NoPrefix == [none |-> TRUE]

-----------------------------------------------------------------------------
(* Nodes: a leaf is an invocation or a batch, "a" is the name b's may      *)
(* depend on.                                                              *)

Invoke(name, payload, depends) ==
    [kind |-> "invoke", name |-> name, payload |-> payload, after |-> Lit(1),
     depends_on |-> depends]
Run(name, prefix) ==
    [kind |-> "run", name |-> name, after |-> Dim("d"), depends_on |-> {},
     prefix_seed |-> prefix]
OnA(reuse) == {[step |-> <<"a">>, reuse_messages |-> reuse]}

FirstLeaves == {Invoke("a", "p", {}), Run("a", NoPrefix)}
SecondLeaves == {Invoke("b", "p", {}), Invoke("b", "q", OnA(TRUE)), Invoke("b", "q", OnA(FALSE)),
                 Run("b", NoPrefix), Run("b", [pick |-> <<7, 8>>])}

Repeat(name, count, node) ==
    [kind |-> "repeat", name |-> name, count |-> count, every |-> Lit(1), node |-> node]
Branches(name, nodes) ==
    [kind |-> "parallel", name |-> name, after |-> Lit(0), branches |-> nodes]
Copies(name, count, node) ==
    [kind |-> "parallel", name |-> name, after |-> Lit(1), count |-> count, node |-> node]
ForEach(name, values, parallelism, node) ==
    [kind |-> "for_each", name |-> name, variable |-> "v", values |-> values,
     parallelism |-> parallelism, after |-> Lit(0), node |-> node]

\* One composite node over the leaves.
Composites(name, first, second, counts) ==
    LET pairs == {<<x, y>> : x \in first, y \in second} IN
    {SequenceOf(name, p) : p \in pairs} \cup {Branches(name, p) : p \in pairs}
    \cup {Repeat(name, c, x) : c \in counts, x \in first}
    \cup {Copies(name, c, x) : c \in counts \cap {Lit(0), Dim("d")}, x \in first}

Singles(name) ==
    Composites(name, FirstLeaves, SecondLeaves, {Lit(0), Lit(2), Dim("d"), Lit(4)})

\* Those that stand in another composite node.
Inner(name) ==
    Composites(name, {Invoke("a", "p", {})}, {Invoke("b", "q", OnA(TRUE)), Run("b", NoPrefix)},
               {Lit(0), Dim("d")})

\* A loop over prefix seeds, once more around a loop with its variable.
Loops(name) ==
    {ForEach(name, values, n, Run("a", Dim("v"))) :
        values \in {<<1, 2, 3>>, GeneratedPool(2, 3), <<1, 1>>}, n \in 1..4}
    \cup {ForEach(name, <<1>>, 1, ForEach("l", <<2>>, 1, Run("a", Dim("v"))))}

Tops ==
    LET c == Run("c", NoPrefix) IN
    Singles("s") \cup Loops("l") \cup FirstLeaves
    \cup {SequenceOf("t", <<x, c>>) : x \in Inner("s")}
    \cup {Branches("t", <<x, y>>) : x \in Inner("s"), y \in {c, Repeat("u", Lit(0), c)}}
    \cup {Repeat("t", Lit(2), x) : x \in Inner("s")}
    \cup {SequenceOf("t", <<Branches("u", <<x, Repeat("w", Lit(0), c)>>), c>>) : x \in Inner("s")}

Workflows ==
    {<<x>> : x \in Tops}
    \cup {<<Run("z", NoPrefix), x>> : x \in Inner("s") \cup Loops("l")}
    \cup {<<x, Run("z", NoPrefix)>> : x \in Inner("s") \cup Loops("l")}

Recipe(workflow, matrix, trials, scope) ==
    [workflow |-> workflow, matrix |-> matrix, trials |-> trials, seed |-> 5,
     prefix_seed_scope |-> scope,
     payloads |-> [p |-> [seed |-> "x", bytes |-> 2], q |-> [seed |-> "y", bytes |-> 9]]]

\* Two coordinates with one trial, or one coordinate with two.
Recipes ==
    {Recipe(w, [d |-> {1, 2}], 1, "trial") : w \in Workflows}
    \cup {Recipe(w, [d |-> {2}], 2, scope) : w \in Workflows, scope \in {"trial", "family"}}
    \cup {Recipe(<<Run("a", NoPrefix)>>, [d |-> {1, 2, 3}], 2, "trial"),
          Recipe(<<Run("a", NoPrefix), [Run("b", NoPrefix) EXCEPT !.depends_on = OnA(TRUE)]>>,
                 [d |-> {1}], 1, "trial"),
          Recipe(<<ForEach("l", <<1, 2>>, 1, Run("a", NoPrefix))>>, [v |-> {1}, d |-> {0}], 1, "trial")}

-----------------------------------------------------------------------------
(* Benchmarks.                                                             *)

Benchmark(repeat, every, steps, workers, probe) ==
    [repeat |-> repeat, every |-> every, steps |-> steps, concurrent_workers |-> workers,
     cache_probe |-> probe, prompt |-> 4, output |-> 3, messages_allowed |-> TRUE]

Step(name, depends) == [name |-> name, depends_on |-> depends, prompt |-> 5]
Reuse(name) == {[step |-> name, reuse_messages |-> TRUE]}

Single == Benchmark(1, FALSE, <<>>, 0, None)
Batch == Benchmark(2, FALSE, <<>>, 0, None)
StepLists ==
    {<<Step("a", {}), Step("b", Reuse("a"))>>,
     <<Step("a", {}), Step("b", Reuse("a")), Step("c", Reuse("a") \cup Reuse("b"))>>,
     <<Step("a", Reuse("b")), Step("b", {})>>, <<Step("a", {}), Step("a", {})>>}
Benchmarks ==
    {Benchmark(r, e, s, w, None) : r \in {1, 3}, e \in BOOLEAN,
                                    s \in StepLists \cup {<<>>}, w \in {0, 2}}
    \cup {Benchmark(1, FALSE, <<>>, w, [trials |-> 2, repeats_after_prime |-> 2]) : w \in {0, 1}}

Work(runners, plan, task) == [runners |-> runners, plan |-> plan, task |-> task]
Task(recipe, bm) == [recipe |-> recipe, benchmark |-> bm]

TaskWorkloads ==
    {Work(<<>>, None, Task(r, Single)) : r \in Recipes}
    \cup {Work(<<>>, None, Task(r, Batch)) : r \in {x \in Recipes : x.prefix_seed_scope = "family"}}

RunnerWorkloads ==
    {Work(<<x>>, None, None) : x \in Benchmarks}
    \cup {Work(<<x, Batch>>, None, Task(Recipe(<<Run("a", NoPrefix)>>, [d |-> {1}], 2, "trial"), x)) :
            x \in Benchmarks}

-----------------------------------------------------------------------------
(* Plans.                                                                  *)

Intervals == [kind : {"interval"}, every : 1..5]
Daily == [kind : {"calendar"}, frequency : {"daily"}, interval : 1..3,
          clock : 0..(DayLength - 1)]
Weekly == [kind : {"calendar"}, frequency : {"weekly"}, interval : 1..2,
           clock : 0..(DayLength - 1), weekdays : SUBSET (0..(WeekLength - 1)) \ {{}}]
Recurrences == Intervals \cup Daily \cup Weekly

Plans ==
    [recurrence : Recurrences, start : 0..(DayLength + 1), immediate : BOOLEAN,
     ends_at : {Horizon}, max_occurrences : {12}, benchmark : {Single}]
    \cup [recurrence : Intervals \cup Daily, start : {1}, immediate : BOOLEAN,
          ends_at : {2, 13}, max_occurrences : {2, 12}, benchmark : {Batch}]

PlanWorkloads == {Work(<<>>, p, None) : p \in Plans} \cup {Work(<<Batch>>, p, None) :
                    p \in {q \in Plans : q.recurrence \in Daily /\ q.start = 2}}

MCWorkloads == TaskWorkloads \cup RunnerWorkloads \cup PlanWorkloads

MCLimits == [planned_runners |-> 30, provider_requests |-> 60, token_budget |-> 600,
             max_runner_concurrency |-> 8, effective_concurrency |-> 12, ray_actor_demand |-> 6]

-----------------------------------------------------------------------------
\* The instants a reader of the plan expects: for a calendar the first instant
\* of each wall time on a day of the recurrence, for an interval its grid.
Expected(p) ==
    LET rec == p.recurrence IN
    IF rec.kind = "interval" THEN {t \in p.start..Horizon : (t - p.start) % rec.every = 0}
    ELSE {t \in p.start..Horizon :
            /\ LocalTime(t) % DayLength = rec.clock
            /\ PeriodMatches(rec, p.start, LocalDay(t))
            /\ \A u \in 0..(t - 1) : LocalTime(u) # LocalTime(t)}

\* The fires of a plan go through the expected instants in order and leave none
\* out, across clock changes; only the immediate first fire may lie beside them.
\* (Every prefix of the fires is a state of its own, so the last one is enough.)
FiresAreExpected ==
    fires # <<>> =>
        LET p == workload.plan
            n == Len(fires)
            earlier == IF n = 1 THEN p.start ELSE fires[n - 1] + 1
            left == {t \in Expected(p) : t >= earlier}
        IN \/ n = 1 /\ p.immediate /\ fires[n] = p.start
           \/ left # {} /\ fires[n] = Min(left)
=============================================================================
